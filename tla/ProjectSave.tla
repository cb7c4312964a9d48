----------------------------- MODULE ProjectSave -----------------------------
(***************************************************************************)
(* Saving a bundle (model/project_io.cpp: saveProject): the new bundle is  *)
(* staged beside the old one and put in its place, by one exchange of two  *)
(* directory entries or, on Windows, by two renames.                       *)
(*                                                                         *)
(* A bundle is the version its project.json is of, the version of each     *)
(* sidecar project.json speaks of (by its digest), and the sidecars.  A    *)
(* sidecar is of the version it was written in; it is synced, or only in   *)
(* the page cache, or torn.  The process may be killed between any two     *)
(* steps and the power may fail.  The file system journals its namespace:  *)
(* what survives a power loss is the tree as it was after some operation   *)
(* since the last sync of a directory, and of a file that was not synced   *)
(* the data may be lost.                                                   *)
(***************************************************************************)
EXTENDS Integers, TLC

CONSTANTS
  Owners,    \* the instruments that have settings to save
  NoFolder,
  MaxSaves   \* bound: saves ever begun

\* What a folder holds, when there is one.
SidecarFiles == [of : Nat, data : {"synced", "cached", "torn"}]
Folders  == [document : Nat, digests : [Owners -> Nat], sidecars : [Owners -> SidecarFiles]]

ASSUME SaveAssumption == MaxSaves \in Nat /\ NoFolder \notin Folders

VARIABLES
  windows,   \* the platform: there is no exchange
  tree,      \* what the names beside the bundle stand for
  journal,   \* the trees a power loss may leave
  at,        \* the next step of saveProject, "idle" when none runs
  asked,     \* the instruments whose plug-in gave its settings to this save
  begun,     \* ghost: saves begun, the version of the one that runs
  promised   \* ghost: the version of the last save that said it succeeded

saveVars == <<windows, tree, journal, at, asked, begun, promised>>

Names   == {"bundle", "staging", "backup"}
Nothing == [of |-> 0, data |-> "synced"]

\* No file is in it yet.
Prepared == [document |-> 0, digests |-> [o \in Owners |-> 0],
             sidecars |-> [o \in Owners |-> Nothing]]

Moved(name, folder) == [tree EXCEPT ![name] = folder]

\* One operation on the names, after which the next is due.
Then(new, step) == tree' = new /\ journal' = journal \cup {new} /\ at' = step
same == UNCHANGED <<windows, asked, begun, promised>>

-----------------------------------------------------------------------------

SaveBegins(who) ==
  /\ at = "idle" /\ begun < MaxSaves /\ begun' = begun + 1
  /\ asked' = who
  /\ Then(Moved("staging", Prepared), "write")
  /\ UNCHANGED <<windows, promised>>

\* Their settings are written and synced.
WriteSidecars ==
  /\ at = "write"
  /\ Then([tree EXCEPT !.staging.sidecars =
             [o \in Owners |-> IF o \in asked THEN [of |-> begun, data |-> "synced"] ELSE @[o]]],
          "copy")
  /\ same

\* Those of the others are copied from the old bundle: they are not synced.
CopySidecars ==
  /\ at = "copy"
  /\ LET old(o) == IF tree.bundle = NoFolder THEN Nothing ELSE tree.bundle.sidecars[o]
         copied == [o \in Owners |->
                      IF o \in asked THEN tree.staging.sidecars[o]
                      ELSE IF old(o).of = 0 \/ old(o).data = "torn" THEN old(o)
                      ELSE [of |-> old(o).of, data |-> "cached"]]
     IN Then([tree EXCEPT !.staging.sidecars = copied], "document")
  /\ same

\* What project.json says of a sidecar that was not written is what the old
\* one said; the staged folder is then synced.
WriteDocument ==
  /\ at = "document"
  /\ LET new == [tree.staging EXCEPT
                   !.document = begun,
                   !.digests = [o \in Owners |->
                     IF o \in asked THEN begun
                     ELSE IF tree.bundle = NoFolder THEN 0 ELSE tree.bundle.digests[o]]]
     IN /\ tree' = Moved("staging", new)
        /\ journal' = {tree'}
  /\ at' = "replace"
  /\ same

\* Something could not be written: the staged folder is removed.
Abandon ==
  /\ at \in {"write", "copy", "document", "replace"}
  /\ Then(Moved("staging", NoFolder), "idle")
  /\ same

CreateBundle ==
  /\ at = "replace" /\ tree.bundle = NoFolder
  /\ Then([tree EXCEPT !.bundle = tree.staging, !.staging = NoFolder], "sync")
  /\ same

Exchange ==
  /\ at = "replace" /\ tree.bundle # NoFolder /\ ~windows
  /\ Then([tree EXCEPT !.bundle = tree.staging, !.staging = tree.bundle], "remove")
  /\ same

\* Windows: an older backup is removed, the bundle becomes the backup ...
MoveAway ==
  /\ at = "replace" /\ tree.bundle # NoFolder /\ windows
  /\ Then([tree EXCEPT !.backup = tree.bundle, !.bundle = NoFolder], "move in")
  /\ same
\* ... and the staged folder the bundle,
MoveIn ==
  /\ at = "move in"
  /\ Then([tree EXCEPT !.bundle = tree.staging, !.staging = NoFolder], "remove")
  /\ same
\* or, if that fails, the backup again; which may fail, too.
MoveBack ==
  /\ at = "move in"
  /\ \/ Then([tree EXCEPT !.bundle = tree.backup, !.backup = NoFolder, !.staging = NoFolder],
             "idle")
     \/ Then(Moved("staging", NoFolder), "idle")
  /\ same

RemoveOld ==
  /\ at = "remove"
  /\ Then(Moved(IF windows THEN "backup" ELSE "staging", NoFolder), "sync")
  /\ same

\* A slip: it returns at once.
ReturnUnsynced ==
  /\ at = "sync" /\ at' = "idle" /\ promised' = begun
  /\ UNCHANGED <<windows, tree, journal, asked, begun>>
SyncParent ==
  /\ at = "sync" /\ at' = "idle"
  /\ journal' = {tree}
  /\ promised' = begun
  /\ UNCHANGED <<windows, tree, asked, begun>>

-----------------------------------------------------------------------------
(* The environment *)

\* The next process has another ID: it does not find what this one staged, nor
\* a backup.  A person looking for a bundle that is gone may.
Killed ==
  /\ at # "idle"
  /\ Then([tree EXCEPT !.staging = NoFolder,
                       !.backup = IF tree.bundle = NoFolder THEN @ ELSE NoFolder], "idle")
  /\ same

\* Whatever was cached is lost or not.
MayBecome(folder, other) ==
  IF folder = NoFolder THEN other = NoFolder
  ELSE /\ other # NoFolder
       /\ other.document = folder.document /\ other.digests = folder.digests
       /\ \A o \in Owners :
            other.sidecars[o] \in
              IF folder.sidecars[o].data # "cached" THEN {folder.sidecars[o]}
              ELSE {[folder.sidecars[o] EXCEPT !.data = data] : data \in {"synced", "torn"}}

Remains(folder) ==
  IF folder = NoFolder THEN {NoFolder}
  ELSE {other \in {[folder EXCEPT !.sidecars = files] :
                     files \in [Owners -> [of : 0..MaxSaves, data : {"synced", "torn"}]]} :
          MayBecome(folder, other)}

\* Of Windows, where no directory is synced, nothing is claimed.
PowerLoss ==
  /\ ~windows
  /\ \E old \in journal : \E bundle \in Remains(old.bundle) :
       tree' = [bundle |-> bundle, staging |-> NoFolder, backup |-> NoFolder]
  /\ journal' = {tree'}
  /\ at' = "idle"
  /\ same

SaveInit ==
  /\ windows \in BOOLEAN
  /\ tree = [name \in Names |-> NoFolder] /\ journal = {tree}
  /\ at = "idle" /\ asked = {} /\ begun = 0 /\ promised = 0

SaveNext ==
  \/ \E who \in SUBSET Owners : SaveBegins(who)
  \/ WriteSidecars \/ CopySidecars \/ WriteDocument \/ Abandon
  \/ CreateBundle \/ Exchange \/ MoveAway \/ MoveIn \/ MoveBack \/ RemoveOld \/ SyncParent
  \/ Killed \/ PowerLoss

SaveSpec == SaveInit /\ [][SaveNext]_saveVars

-----------------------------------------------------------------------------
(* Properties *)

\* The sidecars are the ones project.json speaks of.
WholeBundle(folder, allowed) ==
  /\ folder.document > 0
  /\ \A o \in Owners : folder.digests[o] > 0 =>
       /\ folder.sidecars[o].of = folder.digests[o]
       /\ folder.sidecars[o].data \in {"synced", "cached"} \cup allowed

(* "A save never destroys the previous save ... either leaves the old       *)
(* bundle or the new one, never a half-written mixture": once a save has    *)
(* succeeded there is a whole bundle of that version or a later one,        *)
(* whatever fails; but the settings that were carried over may be lost with *)
(* the power, and on Windows the bundle may be found under another name.    *)
SaveIsKeptUnlessCached ==
  promised > 0 =>
    \E name \in {"bundle"} \cup (IF windows THEN {"backup"} ELSE {}) :
      /\ tree[name] # NoFolder /\ WholeBundle(tree[name], {"torn"})
      /\ tree[name].document >= promised
=============================================================================
