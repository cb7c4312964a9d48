--------------------------- MODULE DocumentProofs ---------------------------
(***************************************************************************)
(* A bundle that was saved is kept, and so are the plug-ins of its         *)
(* instruments, their settings, and what its project.json says.            *)
(*                                                                         *)
(* A save that has succeeded is kept for any instruments, any number of    *)
(* saves and wherever the process is killed or the power fails.  KeptInv   *)
(* is about every tree a power loss may leave, not only about the one that *)
(* is there; StagedInv says how far the staged bundle has come, so that    *)
(* what takes the bundle's place is whole.                                 *)
(*                                                                         *)
(* A hosted plug-in sounds on the channel of its instrument, with its      *)
(* settings, for any plug-ins, any number of channels and of edits.        *)
(* Hosting says what the slots, the voices and the waiting settings owe to *)
(* each other whatever the rack is, so that one publish, whatever the edit *)
(* made of the rack, is a lemma (PublishedHosting), and an edit that is    *)
(* taken back at once is that lemma twice.                                 *)
(*                                                                         *)
(* Whatever a project.json says is made into a project that hangs together *)
(* (IsSound), and is read back from what the writer makes of it; deletions *)
(* keep it so. The recursive functions of the loader are unfolded into the *)
(* steps they take (StepsCanBeTaken); that every walk along the outputs    *)
(* ends is said by a rank of the tracks that falls with each step          *)
(* (Anchored).                                                             *)
(***************************************************************************)
EXTENDS ProjectSave, Hosting, ProjectFile, FiniteSetTheorems, WellFoundedInduction, TLAPS

\* The sidecars are of the versions that project.json speaks of.
Whole(folder) ==
  /\ folder.document > 0
  /\ \A o \in Owners : folder.digests[o] > 0 => folder.sidecars[o].of = folder.digests[o]

Kept(folder) == folder \in Folders /\ Whole(folder) /\ folder.document >= promised
IsNew(folder) == Kept(folder) /\ folder.document = begun

Trees == [Names -> Folders \cup {NoFolder}]
Steps == {"idle", "write", "copy", "document", "replace", "move in", "remove", "sync"}

SaveTypeOK ==
  /\ windows \in BOOLEAN /\ tree \in Trees /\ journal \subseteq Trees /\ tree \in journal
  /\ at \in Steps /\ asked \subseteq Owners
  /\ begun \in Nat /\ promised \in Nat /\ promised <= begun /\ (at # "idle" => begun > 0)

(* What project.json of the bundle speaks of is there, in every tree that  *)
(* may be left; and there is a bundle, or on Windows its backup.           *)
KeptInv ==
  /\ \A left \in journal : left.bundle # NoFolder => Kept(left.bundle)
  /\ ~windows /\ promised > 0 => \A left \in journal : left.bundle # NoFolder
  /\ windows /\ promised > 0 /\ tree.bundle = NoFolder => Kept(tree.backup)

(* The staged bundle is written by the instruments that were asked, and    *)
(* gets the rest from the old one, until it is whole.                      *)
Carried(o) == IF tree.bundle = NoFolder THEN 0 ELSE tree.bundle.sidecars[o].of
StagedInv ==
  /\ at \in {"write", "copy", "document"} => tree.staging \in Folders
  /\ at \in {"copy", "document"} => \A o \in asked : tree.staging.sidecars[o].of = begun
  /\ at = "document" => \A o \in Owners \ asked : tree.staging.sidecars[o].of = Carried(o)
  /\ at \in {"replace", "move in"} => IsNew(tree.staging)
  /\ at = "move in" => windows /\ tree.bundle = NoFolder /\ Kept(tree.backup)
  /\ at \in {"remove", "sync"} => IsNew(tree.bundle)

SaveInv == SaveTypeOK /\ KeptInv /\ StagedInv

-----------------------------------------------------------------------------

LEMMA SaveInitEstablishes == SaveInit => SaveInv
<1> SUFFICES ASSUME SaveInit PROVE SaveInv
  OBVIOUS
<1>1. SaveTypeOK
  BY DEF SaveInit, SaveTypeOK, Trees, Steps, Names
<1>2. KeptInv /\ StagedInv
  BY DEF SaveInit, KeptInv, StagedInv, Names
<1> QED
  BY <1>1, <1>2 DEF SaveInv

(* The folders under the three names. *)
LEMMA FoldersOfTree ==
  ASSUME NEW t \in Trees
  PROVE  /\ t.bundle \in Folders \cup {NoFolder} /\ t.staging \in Folders \cup {NoFolder}
         /\ t.backup \in Folders \cup {NoFolder}
BY DEF Trees, Names

(* A folder that is kept is kept by every save until the next one that     *)
(* succeeds.                                                               *)
LEMMA StillKept ==
  ASSUME NEW folder, Kept(folder), promised' = promised
  PROVE  Kept(folder)'
BY DEF Kept, Whole

(* A step on the names adds one tree to those a power loss may leave.      *)
LEMMA NamesStep ==
  ASSUME SaveInv, UNCHANGED <<windows, promised>>, journal' = journal \cup {tree'},
         tree'.bundle # NoFolder => Kept(tree'.bundle),
         ~windows /\ promised > 0 => tree'.bundle # NoFolder,
         windows /\ promised > 0 /\ tree'.bundle = NoFolder => Kept(tree'.backup)
  PROVE  KeptInv'
<1>1. \A left \in journal' : left.bundle # NoFolder => Kept(left.bundle)'
  BY StillKept DEF SaveInv, KeptInv
<1>2. ~windows /\ promised > 0 => \A left \in journal' : left.bundle # NoFolder
  BY DEF SaveInv, KeptInv
<1>3. (windows /\ promised > 0 /\ tree.bundle = NoFolder => Kept(tree.backup))'
  BY DEF Kept, Whole
<1> QED
  BY <1>1, <1>2, <1>3 DEF KeptInv

(* A step that is about the staged folder only. *)
LEMMA StagingStep ==
  ASSUME SaveInv, UNCHANGED <<windows, promised>>, journal' = journal \cup {tree'},
         tree'.bundle = tree.bundle, tree'.backup = tree.backup
  PROVE  KeptInv'
<1>1. tree.bundle # NoFolder => Kept(tree.bundle)
  BY DEF SaveInv, SaveTypeOK, KeptInv
<1>2. ~windows /\ promised > 0 => tree.bundle # NoFolder
  BY DEF SaveInv, SaveTypeOK, KeptInv
<1>3. windows /\ promised > 0 /\ tree.bundle = NoFolder => Kept(tree.backup)
  BY DEF SaveInv, KeptInv
<1> QED
  BY <1>1, <1>2, <1>3, NamesStep

(* What a step on the names leaves as it was. *)
LEMMA TypeStep ==
  ASSUME SaveInv, same, NEW new \in Trees, NEW step \in Steps, Then(new, step), at # "idle"
  PROVE  SaveTypeOK' /\ tree' = new /\ at' = step /\ journal' = journal \cup {tree'}
BY DEF SaveInv, SaveTypeOK, Then, same

-----------------------------------------------------------------------------
(* The staged bundle is written. *)

LEMMA BeginKeeps ==
  ASSUME SaveInv, NEW who \in SUBSET Owners, SaveBegins(who)
  PROVE  SaveInv'
<1>1. Prepared \in Folders
  BY DEF Prepared, Folders, SidecarFiles, Nothing
<1>2. /\ tree' = [tree EXCEPT !["staging"] = Prepared] /\ journal' = journal \cup {tree'}
      /\ at' = "write" /\ begun' = begun + 1 /\ asked' = who /\ UNCHANGED <<windows, promised>>
  BY DEF SaveBegins, Then, Moved
<1>3. tree' \in Trees /\ tree'.bundle = tree.bundle /\ tree'.backup = tree.backup
      /\ tree'.staging = Prepared
  BY <1>1, <1>2 DEF SaveInv, SaveTypeOK, Trees, Names
<1>4. SaveTypeOK'
  <2>1. begun' \in Nat /\ begun' > 0 /\ promised' \in Nat /\ promised' <= begun'
    BY <1>2 DEF SaveInv, SaveTypeOK
  <2>2. windows' \in BOOLEAN /\ asked' \subseteq Owners /\ at' \in Steps
    BY <1>2 DEF SaveInv, SaveTypeOK, Steps
  <2> QED
    BY <1>2, <1>3, <2>1, <2>2 DEF SaveInv, SaveTypeOK
<1>5. KeptInv'
  BY <1>2, <1>3, StagingStep
<1>6. StagedInv'
  BY <1>1, <1>2, <1>3 DEF StagedInv
<1> QED
  BY <1>4, <1>5, <1>6 DEF SaveInv

LEMMA WriteSidecarsKeeps ==
  ASSUME SaveInv, WriteSidecars
  PROVE  SaveInv'
<1> DEFINE files == [o \in Owners |-> IF o \in asked THEN [of |-> begun, data |-> "synced"]
                                      ELSE tree.staging.sidecars[o]]
           new == [tree EXCEPT !["staging"] = [tree.staging EXCEPT !.sidecars = files]]
<1>1. tree.staging \in Folders /\ begun \in Nat /\ at = "write" /\ tree \in Trees
  BY DEF WriteSidecars, SaveInv, SaveTypeOK, StagedInv
<1>2. files \in [Owners -> SidecarFiles]
  BY <1>1 DEF Folders, SidecarFiles
<1>3. [tree.staging EXCEPT !.sidecars = files] \in Folders
  BY <1>1, <1>2 DEF Folders
<1>4. new \in Trees /\ new.bundle = tree.bundle /\ new.backup = tree.backup
      /\ new.staging = [tree.staging EXCEPT !.sidecars = files]
  BY <1>1, <1>3 DEF Trees, Names
<1>5. Then(new, "copy") /\ same
  BY <1>1 DEF WriteSidecars, Trees, Names, Folders
<1> HIDE DEF new
<1>6. /\ SaveTypeOK' /\ tree' = new /\ at' = "copy" /\ journal' = journal \cup {tree'}
      /\ UNCHANGED <<windows, asked, begun, promised>>
  BY <1>1, <1>4, <1>5, TypeStep DEF Steps, same
<1>7. KeptInv'
  BY <1>4, <1>6, StagingStep
<1>8. \A o \in asked : tree'.staging.sidecars[o].of = begun
  BY <1>1, <1>4, <1>6 DEF SaveInv, SaveTypeOK, Folders
<1>9. StagedInv'
  BY <1>3, <1>4, <1>6, <1>8 DEF StagedInv
<1> QED
  BY <1>6, <1>7, <1>9 DEF SaveInv

LEMMA CopySidecarsKeeps ==
  ASSUME SaveInv, CopySidecars
  PROVE  SaveInv'
<1> DEFINE old(o) == IF tree.bundle = NoFolder THEN Nothing ELSE tree.bundle.sidecars[o]
           files == [o \in Owners |->
                       IF o \in asked THEN tree.staging.sidecars[o]
                       ELSE IF old(o).of = 0 \/ old(o).data = "torn" THEN old(o)
                       ELSE [of |-> old(o).of, data |-> "cached"]]
           new == [tree EXCEPT !["staging"] = [tree.staging EXCEPT !.sidecars = files]]
<1>1. /\ tree.staging \in Folders /\ begun \in Nat /\ at = "copy" /\ tree \in Trees
      /\ \A o \in asked : o \in Owners /\ tree.staging.sidecars[o].of = begun
  BY DEF CopySidecars, SaveInv, SaveTypeOK, StagedInv
<1>2. \A o \in Owners : old(o) \in SidecarFiles /\ old(o).of = Carried(o)
  BY <1>1, FoldersOfTree DEF Folders, SidecarFiles, Nothing, Carried
<1> HIDE DEF old
<1>3. files \in [Owners -> SidecarFiles]
  <2>1. \A o \in Owners : [of |-> old(o).of, data |-> "cached"] \in SidecarFiles
    BY <1>2 DEF SidecarFiles
  <2>2. \A o \in Owners : tree.staging.sidecars[o] \in SidecarFiles
    BY <1>1 DEF Folders
  <2> QED
    BY <1>2, <2>1, <2>2
<1>4. [tree.staging EXCEPT !.sidecars = files] \in Folders
  BY <1>1, <1>3 DEF Folders
<1>5. new \in Trees /\ new.bundle = tree.bundle /\ new.backup = tree.backup
      /\ new.staging = [tree.staging EXCEPT !.sidecars = files]
  BY <1>1, <1>4 DEF Trees, Names
<1>6. Then(new, "document") /\ same
  BY <1>1 DEF CopySidecars, Trees, Names, Folders, old
<1> HIDE DEF new
<1>7. /\ SaveTypeOK' /\ tree' = new /\ at' = "document" /\ journal' = journal \cup {tree'}
      /\ UNCHANGED <<windows, asked, begun, promised>>
  BY <1>1, <1>5, <1>6, TypeStep DEF Steps, same
<1>8. KeptInv'
  BY <1>5, <1>7, StagingStep
<1>9. \A o \in Owners : /\ tree'.staging.sidecars[o] = files[o]
                        /\ Carried(o)' = Carried(o)
  BY <1>1, <1>5, <1>7 DEF Folders, Carried
<1>10. \A o \in asked : files[o].of = begun
  BY <1>1
<1>11. \A o \in Owners \ asked : files[o].of = Carried(o)
  BY <1>2
<1> HIDE DEF files
<1>12. StagedInv'
  BY <1>1, <1>4, <1>5, <1>7, <1>9, <1>10, <1>11 DEF StagedInv
<1> QED
  BY <1>7, <1>8, <1>12 DEF SaveInv

LEMMA WriteDocumentKeeps ==
  ASSUME SaveInv, WriteDocument
  PROVE  SaveInv'
<1> DEFINE spoken == [o \in Owners |-> IF o \in asked THEN begun
                                       ELSE IF tree.bundle = NoFolder THEN 0
                                       ELSE tree.bundle.digests[o]]
           new == [tree.staging EXCEPT !.document = begun, !.digests = spoken]
<1>1. /\ tree.staging \in Folders /\ begun \in Nat /\ begun > 0 /\ at = "document"
      /\ tree \in Trees /\ promised \in Nat /\ promised <= begun
      /\ \A o \in asked : tree.staging.sidecars[o].of = begun
      /\ \A o \in Owners \ asked : tree.staging.sidecars[o].of = Carried(o)
  BY DEF WriteDocument, SaveInv, SaveTypeOK, StagedInv
<1>2. tree.bundle = NoFolder \/ (tree.bundle \in Folders /\ Whole(tree.bundle))
  BY DEF SaveInv, SaveTypeOK, KeptInv, Kept
<1>3. spoken \in [Owners -> Nat]
  BY <1>1, <1>2 DEF Folders
<1>4. new \in Folders /\ new.sidecars = tree.staging.sidecars /\ new.document = begun
      /\ new.digests = spoken
  BY <1>1, <1>3 DEF Folders
<1>5. Whole(new)
  <2>1. ASSUME NEW o \in Owners, spoken[o] > 0
        PROVE  new.sidecars[o].of = spoken[o]
    BY <1>1, <1>2, <1>4, <2>1 DEF Carried, Whole
  <2> QED
    BY <1>1, <1>4, <2>1 DEF Whole
<1>6. IsNew(new)
  BY <1>1, <1>4, <1>5 DEF IsNew, Kept
<1>7. /\ tree' = [tree EXCEPT !["staging"] = new] /\ journal' = {tree'} /\ at' = "replace"
      /\ UNCHANGED <<windows, asked, begun, promised>>
  BY DEF WriteDocument, Moved, same
<1> HIDE DEF new
<1>8. tree' \in Trees /\ tree'.bundle = tree.bundle /\ tree'.backup = tree.backup
      /\ tree'.staging = new
  BY <1>1, <1>4, <1>7 DEF Trees, Names
<1>9. SaveTypeOK'
  BY <1>1, <1>7, <1>8 DEF SaveInv, SaveTypeOK, Steps
<1>10. KeptInv'
  BY <1>7, <1>8 DEF SaveInv, SaveTypeOK, KeptInv, Kept, Whole
<1>11. StagedInv'
  BY <1>6, <1>7, <1>8 DEF StagedInv, IsNew, Kept, Whole
<1> QED
  BY <1>9, <1>10, <1>11 DEF SaveInv

LEMMA AbandonKeeps ==
  ASSUME SaveInv, Abandon
  PROVE  SaveInv'
<1> DEFINE new == [tree EXCEPT !["staging"] = NoFolder]
<1>1. new \in Trees /\ new.bundle = tree.bundle /\ new.backup = tree.backup
  BY DEF SaveInv, SaveTypeOK, Trees, Names
<1>2. Then(new, "idle") /\ same /\ at # "idle"
  BY DEF Abandon, Moved
<1> HIDE DEF new
<1>3. /\ SaveTypeOK' /\ tree' = new /\ at' = "idle" /\ journal' = journal \cup {tree'}
      /\ UNCHANGED <<windows, promised>>
  BY <1>1, <1>2, TypeStep DEF Steps, same
<1>4. KeptInv'
  BY <1>1, <1>3, StagingStep
<1>5. StagedInv'
  BY <1>3 DEF StagedInv
<1> QED
  BY <1>3, <1>4, <1>5 DEF SaveInv

-----------------------------------------------------------------------------
(* The staged bundle takes the bundle's place. *)

LEMMA NewIsKept == ASSUME NEW folder, IsNew(folder) PROVE Kept(folder) /\ folder # NoFolder
BY SaveAssumption DEF IsNew, Kept

LEMMA PutInPlaceKeeps ==
  ASSUME SaveInv, CreateBundle \/ Exchange \/ MoveIn
  PROVE  SaveInv'
<1> DEFINE removed == IF at = "replace" /\ tree.bundle # NoFolder THEN tree.bundle ELSE NoFolder
           new == [tree EXCEPT !["bundle"] = tree.staging, !["staging"] = removed]
<1>1. /\ at \in {"replace", "move in"} /\ tree \in Trees /\ at # "idle" /\ begun \in Nat
      /\ IsNew(tree.staging) /\ Kept(tree.staging) /\ tree.staging # NoFolder
  BY NewIsKept DEF CreateBundle, Exchange, MoveIn, SaveInv, SaveTypeOK, StagedInv
<1>2. /\ new \in Trees /\ new.bundle = tree.staging /\ new.backup = tree.backup
  BY <1>1 DEF Trees, Names
<1>3. PICK step \in {"remove", "sync"} : Then(new, step) /\ same
  <2>1. CASE CreateBundle
    BY <2>1 DEF CreateBundle
  <2>2. CASE Exchange
    BY <2>2 DEF Exchange
  <2>3. CASE MoveIn
    BY <2>3 DEF MoveIn
  <2> QED
    BY <2>1, <2>2, <2>3
<1> HIDE DEF new
<1>4. /\ SaveTypeOK' /\ tree' = new /\ at' = step /\ journal' = journal \cup {tree'}
      /\ UNCHANGED <<windows, begun, promised>>
  BY <1>1, <1>2, <1>3, TypeStep DEF Steps, same
<1>5. KeptInv'
  BY <1>1, <1>2, <1>4, NamesStep
<1>6. IsNew(tree.bundle)'
  BY <1>1, <1>2, <1>4 DEF IsNew, Kept, Whole
<1>7. StagedInv'
  BY <1>3, <1>4, <1>6 DEF StagedInv
<1> QED
  BY <1>4, <1>5, <1>7 DEF SaveInv

LEMMA MoveAwayKeeps ==
  ASSUME SaveInv, MoveAway
  PROVE  SaveInv'
<1> DEFINE new == [tree EXCEPT !["backup"] = tree.bundle, !["bundle"] = NoFolder]
<1>1. /\ at = "replace" /\ windows /\ tree \in Trees /\ tree.bundle # NoFolder
      /\ Kept(tree.bundle) /\ IsNew(tree.staging)
  BY DEF MoveAway, SaveInv, SaveTypeOK, StagedInv, KeptInv
<1>2. /\ new \in Trees /\ new.bundle = NoFolder /\ new.backup = tree.bundle
      /\ new.staging = tree.staging
  BY <1>1 DEF Trees, Names
<1>3. Then(new, "move in") /\ same
  BY DEF MoveAway
<1> HIDE DEF new
<1>4. /\ SaveTypeOK' /\ tree' = new /\ at' = "move in" /\ journal' = journal \cup {tree'}
      /\ UNCHANGED <<windows, begun, promised>>
  BY <1>1, <1>2, <1>3, TypeStep DEF Steps, same
<1>5. KeptInv'
  BY <1>1, <1>2, <1>4, NamesStep
<1>6. IsNew(tree.staging)' /\ Kept(tree.backup)'
  BY <1>1, <1>2, <1>4 DEF IsNew, Kept, Whole
<1>7. StagedInv'
  BY <1>1, <1>2, <1>4, <1>6 DEF StagedInv
<1> QED
  BY <1>4, <1>5, <1>7 DEF SaveInv

LEMMA MoveBackKeeps ==
  ASSUME SaveInv, MoveBack
  PROVE  SaveInv'
<1>1. /\ at = "move in" /\ windows /\ tree \in Trees /\ tree.bundle = NoFolder
      /\ Kept(tree.backup)
  BY DEF MoveBack, SaveInv, SaveTypeOK, StagedInv
<1> DEFINE put == [tree EXCEPT !["bundle"] = tree.backup, !["backup"] = NoFolder,
                               !["staging"] = NoFolder]
           left == [tree EXCEPT !["staging"] = NoFolder]
<1>2. /\ put \in Trees /\ put.bundle = tree.backup
      /\ left \in Trees /\ left.bundle = NoFolder /\ left.backup = tree.backup
  BY <1>1 DEF Trees, Names
<1>3. same /\ (Then(put, "idle") \/ Then(left, "idle"))
  BY DEF MoveBack, Moved
<1> HIDE DEF put, left
<1>4. /\ SaveTypeOK' /\ tree' \in {put, left} /\ at' = "idle" /\ journal' = journal \cup {tree'}
      /\ UNCHANGED <<windows, promised>>
  BY <1>1, <1>2, <1>3, TypeStep DEF Steps, same
<1>5. KeptInv'
  <2>1. tree'.bundle = NoFolder => Kept(tree'.backup)
    BY <1>1, <1>2, <1>4, SaveAssumption DEF Kept
  <2>2. tree'.bundle # NoFolder => Kept(tree'.bundle)
    BY <1>1, <1>2, <1>4
  <2> QED
    BY <1>1, <1>4, <2>1, <2>2, NamesStep
<1>6. StagedInv'
  BY <1>4 DEF StagedInv
<1> QED
  BY <1>4, <1>5, <1>6 DEF SaveInv

LEMMA RemoveOldKeeps ==
  ASSUME SaveInv, RemoveOld
  PROVE  SaveInv'
<1> DEFINE new == [tree EXCEPT ![IF windows THEN "backup" ELSE "staging"] = NoFolder]
<1>1. /\ at = "remove" /\ tree \in Trees /\ IsNew(tree.bundle) /\ Kept(tree.bundle)
      /\ tree.bundle # NoFolder
  BY NewIsKept DEF RemoveOld, SaveInv, SaveTypeOK, StagedInv
<1>2. new \in Trees /\ new.bundle = tree.bundle
  BY <1>1 DEF Trees, Names
<1>3. Then(new, "sync") /\ same
  BY DEF RemoveOld, Moved
<1> HIDE DEF new
<1>4. /\ SaveTypeOK' /\ tree' = new /\ at' = "sync" /\ journal' = journal \cup {tree'}
      /\ UNCHANGED <<windows, begun, promised>>
  BY <1>1, <1>2, <1>3, TypeStep DEF Steps, same
<1>5. KeptInv'
  BY <1>1, <1>2, <1>4, NamesStep
<1>6. IsNew(tree.bundle)'
  BY <1>1, <1>2, <1>4 DEF IsNew, Kept, Whole
<1>7. StagedInv'
  BY <1>4, <1>6 DEF StagedInv
<1> QED
  BY <1>4, <1>5, <1>7 DEF SaveInv

(* It says that it has succeeded: from here on it is this version that     *)
(* must be kept.                                                           *)
LEMMA SyncKeeps ==
  ASSUME SaveInv, SyncParent
  PROVE  SaveInv'
<1>1. /\ at = "sync" /\ tree \in Trees /\ IsNew(tree.bundle) /\ tree.bundle # NoFolder
      /\ begun \in Nat
  BY NewIsKept DEF SyncParent, SaveInv, SaveTypeOK, StagedInv
<1>2. /\ at' = "idle" /\ journal' = {tree} /\ promised' = begun
      /\ UNCHANGED <<windows, tree, asked, begun>>
  BY DEF SyncParent
<1>3. Kept(tree.bundle)'
  BY <1>1, <1>2 DEF IsNew, Kept, Whole
<1>4. SaveTypeOK'
  BY <1>1, <1>2 DEF SaveInv, SaveTypeOK, Steps
<1>5. KeptInv'
  BY <1>1, <1>2, <1>3 DEF KeptInv
<1>6. StagedInv'
  BY <1>2 DEF StagedInv
<1> QED
  BY <1>4, <1>5, <1>6 DEF SaveInv

-----------------------------------------------------------------------------
(* The process is killed, the power fails. *)

LEMMA KilledKeeps ==
  ASSUME SaveInv, Killed
  PROVE  SaveInv'
<1> DEFINE new == [tree EXCEPT !["staging"] = NoFolder,
                               !["backup"] = IF tree.bundle = NoFolder THEN tree.backup ELSE NoFolder]
<1>1. at # "idle" /\ tree \in Trees /\ tree \in journal
  BY DEF Killed, SaveInv, SaveTypeOK
<1>2. new \in Trees /\ new.bundle = tree.bundle
      /\ (tree.bundle = NoFolder => new.backup = tree.backup)
  BY <1>1 DEF Trees, Names
<1>3. Then(new, "idle") /\ same
  BY <1>1 DEF Killed, Trees, Names
<1> HIDE DEF new
<1>4. /\ SaveTypeOK' /\ tree' = new /\ at' = "idle" /\ journal' = journal \cup {tree'}
      /\ UNCHANGED <<windows, promised>>
  BY <1>1, <1>2, <1>3, TypeStep DEF Steps, same
<1>5. KeptInv'
  BY <1>1, <1>2, <1>4, NamesStep DEF SaveInv, KeptInv
<1>6. StagedInv'
  BY <1>4 DEF StagedInv
<1> QED
  BY <1>4, <1>5, <1>6 DEF SaveInv

(* The data that a power loss tears is not what the sidecar is of. *)
LEMMA RemainsKept ==
  ASSUME NEW folder, Kept(folder), NEW other \in Remains(folder)
  PROVE  Kept(other) /\ other # NoFolder
<1>1. folder \in Folders /\ folder # NoFolder /\ Whole(folder) /\ folder.document >= promised
  BY SaveAssumption DEF Kept
<1>2. PICK files \in [Owners -> [of : 0..MaxSaves, data : {"synced", "torn"}]] :
        other = [folder EXCEPT !.sidecars = files]
  BY <1>1 DEF Remains
<1>3. MayBecome(folder, other)
  BY <1>1 DEF Remains
<1>4. files \in [Owners -> SidecarFiles]
  BY SaveAssumption DEF SidecarFiles
<1>5. other \in Folders
  BY <1>1, <1>2, <1>4 DEF Folders
<1>6. /\ other.document = folder.document /\ other.digests = folder.digests
      /\ \A o \in Owners : other.sidecars[o].of = folder.sidecars[o].of
  <2>1. ASSUME NEW o \in Owners
        PROVE  other.sidecars[o].of = folder.sidecars[o].of
    <3>1. folder.sidecars[o] \in SidecarFiles
      BY <1>1 DEF Folders
    <3>2. \/ other.sidecars[o] = folder.sidecars[o]
          \/ \E data \in {"synced", "torn"} :
               other.sidecars[o] = [folder.sidecars[o] EXCEPT !.data = data]
      BY <1>1, <1>3 DEF MayBecome
    <3> QED
      BY <3>1, <3>2 DEF SidecarFiles
  <2> QED
    BY <1>1, <1>3, <2>1 DEF MayBecome
<1>7. Whole(other)
  BY <1>1, <1>6 DEF Whole
<1> QED
  BY <1>1, <1>5, <1>6, <1>7, SaveAssumption DEF Kept

LEMMA PowerLossKeeps ==
  ASSUME SaveInv, PowerLoss
  PROVE  SaveInv'
<1>1. PICK old \in journal : \E rest \in Remains(old.bundle) :
        tree' = [bundle |-> rest, staging |-> NoFolder, backup |-> NoFolder]
  BY DEF PowerLoss
<1>2. PICK rest \in Remains(old.bundle) :
        tree' = [bundle |-> rest, staging |-> NoFolder, backup |-> NoFolder]
  BY <1>1
<1>3. /\ ~windows /\ journal' = {tree'} /\ at' = "idle"
      /\ UNCHANGED <<windows, asked, begun, promised>>
  BY DEF PowerLoss, same
<1>4. \/ old.bundle = NoFolder /\ rest = NoFolder /\ promised = 0
      \/ Kept(rest) /\ rest # NoFolder
  <2>1. CASE old.bundle = NoFolder
    BY <1>1, <1>2, <1>3, <2>1 DEF SaveInv, SaveTypeOK, KeptInv, Remains
  <2>2. CASE old.bundle # NoFolder
    BY <1>1, <1>2, <2>2, RemainsKept DEF SaveInv, KeptInv
  <2> QED
    BY <2>1, <2>2
<1>5. tree' \in Trees /\ tree'.bundle = rest
  BY <1>2, <1>4 DEF Trees, Names, Kept
<1>6. SaveTypeOK'
  BY <1>3, <1>5 DEF SaveInv, SaveTypeOK, Steps
<1>7. Kept(rest) => Kept(tree.bundle)'
  BY <1>3, <1>5 DEF Kept, Whole
<1>8. KeptInv'
  BY <1>3, <1>4, <1>5, <1>7 DEF KeptInv
<1>9. StagedInv'
  BY <1>3 DEF StagedInv
<1> QED
  BY <1>6, <1>8, <1>9 DEF SaveInv

LEMMA SaveStepKeeps == SaveInv /\ [SaveNext]_saveVars => SaveInv'
<1> SUFFICES ASSUME SaveInv, [SaveNext]_saveVars PROVE SaveInv'
  OBVIOUS
<1>1. CASE UNCHANGED saveVars
  BY <1>1
  DEF saveVars, SaveInv, SaveTypeOK, KeptInv, StagedInv, Kept, Whole, IsNew, Carried
<1>2. CASE SaveNext
  BY <1>2, BeginKeeps, WriteSidecarsKeeps, CopySidecarsKeeps, WriteDocumentKeeps, AbandonKeeps,
     PutInPlaceKeeps, MoveAwayKeeps, MoveBackKeeps, RemoveOldKeeps, SyncKeeps, KilledKeeps,
     PowerLossKeeps
  DEF SaveNext
<1> QED
  BY <1>1, <1>2

(* Once a save has succeeded there is a whole bundle of that version or a  *)
(* later one, in whatever step of a later save the process is killed or    *)
(* the power fails.                                                        *)
THEOREM SavesAreKept == SaveSpec => []SaveIsKeptUnlessCached
<1>1. SaveInv => SaveIsKeptUnlessCached
  <2> SUFFICES ASSUME SaveInv, promised > 0 PROVE SaveIsKeptUnlessCached
    BY DEF SaveIsKeptUnlessCached
  <2>1. ASSUME NEW folder, Kept(folder)
        PROVE  folder # NoFolder /\ WholeBundle(folder, {"torn"}) /\ folder.document >= promised
    BY <2>1, SaveAssumption DEF Kept, Whole, WholeBundle, Folders, SidecarFiles
  <2>2. CASE tree.bundle # NoFolder
    <3>1. Kept(tree["bundle"])
      BY <2>2 DEF SaveInv, SaveTypeOK, KeptInv
    <3> QED
      BY <2>1, <3>1 DEF SaveIsKeptUnlessCached
  <2>3. CASE tree.bundle = NoFolder
    <3>1. windows /\ Kept(tree["backup"])
      BY <2>3 DEF SaveInv, SaveTypeOK, KeptInv
    <3> QED
      BY <2>1, <3>1 DEF SaveIsKeptUnlessCached
  <2> QED
    BY <2>2, <2>3
<1> QED
  BY <1>1, SaveInitEstablishes, SaveStepKeeps, PTL DEF SaveSpec


-----------------------------------------------------------------------------
(* The inductive invariant *)

IsRack(r) ==
  DOMAIN r \subseteq Nat \ {0} /\ IsFiniteSet(DOMAIN r) /\ r \in [DOMAIN r -> Instruments]

Written == Instruments \cup {NoInstrument}

EntriesOf(n) ==
  [id : 1..(n - 1), before : Written, after : Written, field : {"none", "plugin", "muted"}]

\* Every slot is where its instrument is, and for the plug-in that it has.
Fits(r, held) ==
  \A id \in DOMAIN held : /\ isHosted(r, id) /\ held[id].plugin = r[id].plugin
                          /\ held[id].channel = channelIndexOf(r, id)

AreSlots(held) ==
  DOMAIN held \subseteq Nat /\ held \in [DOMAIN held -> Slots]

Apart(held) ==
  \A id, other \in DOMAIN held : held[id].channel = held[other].channel => id = other

SpeaksFor(held, id, voice) ==
  ~held[id].failed /\ held[id].plugin = voice.plugin /\ voice.id = id

Spoken(held, sounding) ==
  \A channel \in Channels : Own(sounding[channel]) =>
    \E id \in DOMAIN held : held[id].channel = channel /\ SpeaksFor(held, id, sounding[channel])

Voiced(held, sounding) ==
  \A id \in DOMAIN held : ~held[id].failed => sounding[held[id].channel] # NoVoice

\* A plug-in has settings of its own, a stand-in may have any.
Settled(voice) ==
  /\ voice.missing <=> voice.plugin \in Unavailable
  /\ voice.missing => ~voice.dead
  /\ ~voice.missing => /\ voice.state \in States /\ voice.state.plugin = voice.plugin
                       /\ voice.checkpoint \in States
                       /\ voice.checkpoint.plugin = voice.plugin

AreVoices(sounding) ==
  /\ sounding \in [Channels -> HostedVoices \cup {NoVoice}]
  /\ \A channel \in Channels : sounding[channel] # NoVoice => Settled(sounding[channel])

AreStates(waiting) == waiting \in [DOMAIN waiting -> States]

\* Settings go on waiting only for a plug-in they are not of.
Unanswered(sounding, waiting) ==
  \A channel \in Channels :
    Own(sounding[channel]) /\ sounding[channel].id \in DOMAIN waiting =>
      /\ ~sounding[channel].missing
      /\ waiting[sounding[channel].id].plugin # sounding[channel].plugin

Hosting(held, sounding, waiting) ==
  /\ AreSlots(held) /\ Apart(held) /\ AreVoices(sounding) /\ AreStates(waiting)
  /\ Spoken(held, sounding) /\ Voiced(held, sounding) /\ Unanswered(sounding, waiting)

\* What sounded is on disk, but for what a copy carried over it.
IsBundle(b) ==
  /\ IsRack(b.rack) /\ DOMAIN b.rack \subseteq 1..(nextId - 1) /\ AreStates(b.sidecars)
  /\ \A id \in DOMAIN b.sounded :
       /\ id \in DOMAIN b.rack
       /\ b.rack[id].ref = id /\ b.rack[id].sha = b.sounded[id]
       /\ b.rack[id].plugin \in Plugins /\ b.sounded[id] \in States
       /\ b.rack[id].plugin \notin Unavailable => b.sounded[id].plugin = b.rack[id].plugin
       /\ \/ \E other \in DOMAIN b.rack \ {id} : b.rack[other].ref = id
          \/ id \in DOMAIN b.sidecars /\ b.sidecars[id] = b.sounded[id]

RackIsSound == IsRack(rack) /\ DOMAIN rack \subseteq 1..(nextId - 1)
HistoryIsOfIds == done \in Seq(EntriesOf(nextId)) /\ undone \in Seq(EntriesOf(nextId))
HostedAsPlaced == Fits(rack, slots) /\ Hosting(slots, voices, awaiting)
DiskIsSound == path \/ bundle # NoBundle => IsBundle(bundle)
Counted == nextId \in Nat \ {0} /\ deeds \in Nat

HostingIInv == Counted /\ RackIsSound /\ HistoryIsOfIds /\ HostedAsPlaced /\ DiskIsSound

-----------------------------------------------------------------------------
(* Ranks and channels *)

\* The greatest of some numbers up to n is one of them.
LEMMA GreatestUpTo ==
  ASSUME NEW n \in Nat, NEW some \in SUBSET (0..n), some # {}
  PROVE  Max(some) \in some
<1> DEFINE Below == {n - c : c \in some}
<1>1. Below \subseteq Nat /\ Below # {}
  <2>1. PICK c \in some : TRUE
    OBVIOUS
  <2>2. n - c \in Below
    OBVIOUS
  <2>3. ASSUME NEW d \in some
        PROVE  n - d \in Nat
    OBVIOUS
  <2> QED BY <2>2, <2>3
<1>2. PICK low \in Below : \A m \in Below : ~(<<m, low>> \in OpToRel(<, Nat))
  <2> HIDE DEF Below
  <2> QED BY <1>1, NatLessThanWellFounded, WFMin
<1>3. \A m \in Below : ~(m < low)
  <2> HIDE DEF Below
  <2> QED BY <1>1, <1>2 DEF OpToRel
<1>4. PICK c \in some : low = n - c
  OBVIOUS
<1>5. \A d \in some : c >= d
  <2> TAKE d \in some
  <2>1. n - d \in Below
    OBVIOUS
  <2>2. ~(n - d < n - c)
    BY <1>3, <1>4, <2>1
  <2>3. c \in 0..n /\ d \in 0..n
    OBVIOUS
  <2> HIDE DEF Below
  <2> QED BY <2>2, <2>3
<1> QED BY <1>4, <1>5 DEF Max

LEMMA GreatestChannel ==
  ASSUME NEW some \in SUBSET Channels, some # {}
  PROVE  Max(some) \in some
<1>1. MaxChannels - 1 \in Nat
  BY HostingAssumption
<1> QED BY <1>1, GreatestUpTo DEF Channels

LEMMA GreatestOfOne ==
  ASSUME NEW n \in Nat
  PROVE  Max({n}) = n
BY DEF Max

\* Two instruments are never on one channel.
LEMMA RanksDiffer ==
  ASSUME NEW r, IsRack(r), NEW id \in DOMAIN r, NEW other \in DOMAIN r,
         channelIndexOf(r, id) = channelIndexOf(r, other)
  PROVE  id = other
<1> DEFINE before(n) == {x \in DOMAIN r : x < n}
<1>1. \A m, n \in DOMAIN r : m < n => Cardinality(before(m)) < Cardinality(before(n))
  <2> SUFFICES ASSUME NEW m \in DOMAIN r, NEW n \in DOMAIN r, m < n
               PROVE  Cardinality(before(m)) < Cardinality(before(n))
    OBVIOUS
  <2>1. DOMAIN r \subseteq Nat /\ IsFiniteSet(DOMAIN r)
    BY DEF IsRack
  <2>2. before(m) \subseteq before(n) /\ before(m) # before(n)
    <3>1. m \in before(n) /\ m \notin before(m)
      BY <2>1
    <3> QED BY <2>1, <3>1
  <2>3. IsFiniteSet(before(n)) /\ IsFiniteSet(before(m))
    BY <2>1, FS_Subset
  <2> HIDE DEF before
  <2>4. Cardinality(before(m)) \in Nat /\ Cardinality(before(n)) \in Nat
    BY <2>3, FS_CardinalityType
  <2>5. Cardinality(before(m)) <= Cardinality(before(n)) /\ Cardinality(before(m)) # Cardinality(before(n))
    BY <2>2, <2>3, FS_Subset
  <2> QED BY <2>4, <2>5
<1>2. \A n \in DOMAIN r : Cardinality(before(n)) \in Nat
  BY FS_Subset, FS_CardinalityType DEF IsRack
<1>3. Cardinality(before(id)) = Cardinality(before(other))
  BY DEF channelIndexOf
<1> HIDE DEF before
<1>4. id \in Nat /\ other \in Nat
  BY DEF IsRack
<1> QED BY <1>1, <1>2, <1>3, <1>4

LEMMA RankIsNat ==
  ASSUME NEW r, IsRack(r), NEW id
  PROVE  channelIndexOf(r, id) \in Nat \cup {-1}
BY FS_Subset, FS_CardinalityType DEF channelIndexOf, IsRack

-----------------------------------------------------------------------------
(* Slots and voices that move with their instruments *)

\* A slot that is kept is where its instrument is now.
LEMMA KeptSlot ==
  ASSUME NEW r, NEW held, AreSlots(held), NEW id \in DOMAIN KeptSlots(r, held)
  PROVE  /\ id \in DOMAIN held /\ held[id] \in Slots /\ KeptSlots(r, held)[id] \in Slots
         /\ isHosted(r, id) /\ r[id].plugin = held[id].plugin
         /\ KeptSlots(r, held)[id].channel = channelIndexOf(r, id)
         /\ Destination(r, held, id) = channelIndexOf(r, id)
         /\ KeptSlots(r, held)[id].plugin = held[id].plugin
         /\ KeptSlots(r, held)[id].failed = held[id].failed
<1> DEFINE kept == KeptSlots(r, held)
<1>1. id \in DOMAIN held /\ Destination(r, held, id) # -1
  BY DEF KeptSlots
<1>2. /\ isHosted(r, id) /\ r[id].plugin = held[id].plugin
      /\ channelIndexOf(r, id) \in Channels
      /\ Destination(r, held, id) = channelIndexOf(r, id)
  BY <1>1 DEF Destination
<1>3. kept[id] = [held[id] EXCEPT !.channel = channelIndexOf(r, id)]
  BY <1>1, <1>2 DEF KeptSlots
<1>4. held[id] \in Slots
  BY <1>1 DEF AreSlots
<1> HIDE DEF kept
<1>5. kept[id] \in Slots /\ kept[id].channel = channelIndexOf(r, id)
      /\ kept[id].plugin = held[id].plugin /\ kept[id].failed = held[id].failed
  BY <1>2, <1>3, <1>4 DEF Slots
<1> QED BY <1>1, <1>2, <1>4, <1>5 DEF kept

LEMMA KeptSlotsFit ==
  ASSUME NEW r, NEW held, AreSlots(held)
  PROVE  AreSlots(KeptSlots(r, held)) /\ Fits(r, KeptSlots(r, held))
<1> DEFINE kept == KeptSlots(r, held)
<1>1. kept = [id \in DOMAIN kept |-> kept[id]]
  BY DEF KeptSlots
<1>2. DOMAIN kept \subseteq Nat
  BY KeptSlot DEF AreSlots
<1>3. \A id \in DOMAIN kept : /\ kept[id] \in Slots
                              /\ isHosted(r, id) /\ kept[id].plugin = r[id].plugin
                              /\ kept[id].channel = channelIndexOf(r, id)
  BY KeptSlot
<1> HIDE DEF kept
<1>4. AreSlots(kept) /\ Fits(r, kept)
  BY <1>1, <1>2, <1>3 DEF AreSlots, Fits
<1> QED BY <1>4 DEF kept

\* A slot is kept if its plug-in has a channel.
LEMMA KeptIfUsable ==
  ASSUME NEW r, NEW held, NEW id \in DOMAIN held, Destination(r, held, id) \in Channels
  PROVE  id \in DOMAIN KeptSlots(r, held)
<1>1. Destination(r, held, id) # -1
  BY HostingAssumption DEF Channels
<1> QED BY <1>1 DEF KeptSlots

LEMMA FittingIsApart ==
  ASSUME NEW r, IsRack(r), NEW held, Fits(r, held)
  PROVE  Apart(held)
BY RanksDiffer DEF Fits, Apart, isHosted

\* A voice follows the slot that speaks for it.
LEMMA VoiceFollows ==
  ASSUME NEW r, NEW held, AreSlots(held), Apart(held), NEW id \in DOMAIN held
  PROVE  VoiceGoesTo(r, held, held[id].channel) = Destination(r, held, id)
<1>1. {other \in DOMAIN held : held[other].channel = held[id].channel} = {id}
  BY DEF Apart
<1>2. id \in Nat
  BY DEF AreSlots
<1> QED BY <1>1, <1>2, GreatestOfOne DEF VoiceGoesTo

\* What is on a channel after the voices moved was on one before.
LEMMA MovedFrom ==
  ASSUME NEW r, NEW held, NEW sounding, NEW channel \in Channels,
         remapHostedInstruments(r, held, sounding)[channel] # NoVoice
  PROVE  \E from \in Channels :
           /\ sounding[from] # NoVoice /\ VoiceGoesTo(r, held, from) = channel
           /\ remapHostedInstruments(r, held, sounding)[channel] = sounding[from]
<1> DEFINE coming == {c \in Channels : sounding[c] # NoVoice /\ VoiceGoesTo(r, held, c) = channel}
<1>1. coming # {}
  BY DEF remapHostedInstruments
<1>2. Max(coming) \in coming
  BY <1>1, GreatestChannel
<1>3. remapHostedInstruments(r, held, sounding)[channel] = sounding[Max(coming)]
  BY <1>1 DEF remapHostedInstruments
<1> QED BY <1>2, <1>3

LEMMA MovedTo ==
  ASSUME NEW r, NEW held, NEW sounding, NEW from \in Channels, sounding[from] # NoVoice,
         VoiceGoesTo(r, held, from) \in Channels
  PROVE  remapHostedInstruments(r, held, sounding)[VoiceGoesTo(r, held, from)] # NoVoice
<1> DEFINE channel == VoiceGoesTo(r, held, from)
           coming == {c \in Channels : sounding[c] # NoVoice /\ VoiceGoesTo(r, held, c) = channel}
<1>1. from \in coming
  OBVIOUS
<1>2. Max(coming) \in coming
  BY <1>1, GreatestChannel
<1>3. remapHostedInstruments(r, held, sounding)[channel] = sounding[Max(coming)]
  BY <1>1 DEF remapHostedInstruments
<1> QED BY <1>2, <1>3

\* A voice of this project that has moved has come with its slot.
LEMMA MovedWithItsSlot ==
  ASSUME NEW r, IsRack(r), NEW held, AreSlots(held), Apart(held), NEW sounding,
         Spoken(held, sounding), NEW channel \in Channels,
         Own(remapHostedInstruments(r, held, sounding)[channel])
  PROVE  \E id \in DOMAIN KeptSlots(r, held) :
           /\ KeptSlots(r, held)[id].channel = channel
           /\ SpeaksFor(KeptSlots(r, held), id, sounding[held[id].channel])
           /\ remapHostedInstruments(r, held, sounding)[channel] = sounding[held[id].channel]
<1> DEFINE moved == remapHostedInstruments(r, held, sounding)
<1>1. PICK from \in Channels :
        /\ sounding[from] # NoVoice /\ VoiceGoesTo(r, held, from) = channel
        /\ moved[channel] = sounding[from]
  BY MovedFrom DEF Own
<1>2. PICK id \in DOMAIN held : held[id].channel = from /\ SpeaksFor(held, id, sounding[from])
  BY <1>1 DEF Spoken
<1>3. Destination(r, held, id) = channel
  BY <1>1, <1>2, VoiceFollows
<1>4. id \in DOMAIN KeptSlots(r, held)
  BY <1>3, KeptIfUsable
<1> QED BY <1>1, <1>2, <1>3, <1>4, KeptSlot DEF SpeaksFor

\* After the voices have moved, the slots that are kept still speak for them.
LEMMA MovedVoices ==
  ASSUME NEW r, IsRack(r), NEW held, AreSlots(held), Apart(held), NEW sounding,
         AreVoices(sounding), Spoken(held, sounding), Voiced(held, sounding)
  PROVE  LET moved == remapHostedInstruments(r, held, sounding)
         IN AreVoices(moved) /\ Spoken(KeptSlots(r, held), moved) /\ Voiced(KeptSlots(r, held), moved)
<1> DEFINE moved == remapHostedInstruments(r, held, sounding)
           kept == KeptSlots(r, held)
<1>1. moved = [channel \in Channels |-> moved[channel]]
  BY DEF remapHostedInstruments
<1>2. \A channel \in Channels : moved[channel] # NoVoice =>
        moved[channel] \in HostedVoices /\ Settled(moved[channel])
  BY MovedFrom DEF AreVoices
<1>3. Spoken(kept, moved)
  BY MovedWithItsSlot DEF Spoken
<1>4. ASSUME NEW id \in DOMAIN kept, ~kept[id].failed
      PROVE  moved[kept[id].channel] # NoVoice
  <2>1. id \in DOMAIN held /\ ~held[id].failed /\ kept[id].channel = Destination(r, held, id)
    BY <1>4, KeptSlot
  <2>2. sounding[held[id].channel] # NoVoice /\ held[id].channel \in Channels
    BY <2>1 DEF Voiced, AreSlots, Slots
  <2>3. kept[id].channel \in Channels
    BY KeptSlot DEF Slots
  <2>4. VoiceGoesTo(r, held, held[id].channel) = kept[id].channel
    BY <2>1, VoiceFollows
  <2> QED BY <2>2, <2>3, <2>4, MovedTo
<1>5. Voiced(kept, moved)
  BY <1>4 DEF Voiced
<1> HIDE DEF moved
<1>6. AreVoices(moved)
  BY <1>1, <1>2 DEF AreVoices
<1> QED BY <1>3, <1>5, <1>6 DEF moved

LEMMA MovedUnanswered ==
  ASSUME NEW r, NEW held, NEW sounding, NEW waiting, Unanswered(sounding, waiting)
  PROVE  Unanswered(remapHostedInstruments(r, held, sounding), waiting)
BY MovedFrom DEF Unanswered, Own

-----------------------------------------------------------------------------
(* Plug-ins that are hosted anew, and their settings *)

SlotsAfter(r, kept, failing) ==
  [id \in DOMAIN kept \cup ToHost(r, kept) |->
     IF id \in DOMAIN kept THEN kept[id]
     ELSE [channel |-> channelIndexOf(r, id), plugin |-> r[id].plugin, failed |-> id \in failing]]

LEMMA SlotsAfterFit ==
  ASSUME NEW r, IsRack(r), NEW kept, AreSlots(kept), Fits(r, kept), NEW failing
  PROVE  AreSlots(SlotsAfter(r, kept, failing)) /\ Fits(r, SlotsAfter(r, kept, failing))
<1> DEFINE after == SlotsAfter(r, kept, failing)
<1>1. DOMAIN after = DOMAIN kept \cup ToHost(r, kept) /\ after = [id \in DOMAIN after |-> after[id]]
  BY DEF SlotsAfter
<1>2. ASSUME NEW id \in DOMAIN kept
      PROVE  /\ after[id] = kept[id] /\ kept[id] \in Slots /\ id \in Nat
             /\ isHosted(r, id) /\ kept[id].plugin = r[id].plugin
             /\ kept[id].channel = channelIndexOf(r, id)
  BY DEF SlotsAfter, AreSlots, Fits
<1>3. ASSUME NEW id \in ToHost(r, kept)
      PROVE  /\ id \in Nat /\ isHosted(r, id)
             /\ after[id] \in Slots /\ after[id].plugin = r[id].plugin
             /\ after[id].channel = channelIndexOf(r, id)
  <2>1. id \notin DOMAIN kept /\ id \in DOMAIN r /\ isHosted(r, id) /\ channelIndexOf(r, id) \in Channels
    BY DEF ToHost
  <2>2. after[id] = [channel |-> channelIndexOf(r, id), plugin |-> r[id].plugin,
                     failed |-> id \in failing]
    BY <2>1 DEF SlotsAfter
  <2>3. id \in Nat /\ r[id].plugin \in Plugins
    BY <2>1 DEF IsRack, isHosted
  <2>4. (id \in failing) \in BOOLEAN
    OBVIOUS
  <2> HIDE DEF after
  <2> QED BY <2>1, <2>2, <2>3, <2>4 DEF Slots
<1> HIDE DEF after
<1>4. \A id \in DOMAIN after : /\ id \in Nat /\ after[id] \in Slots
                               /\ isHosted(r, id) /\ after[id].plugin = r[id].plugin
                               /\ after[id].channel = channelIndexOf(r, id)
  BY <1>1, <1>2, <1>3
<1>5. AreSlots(after) /\ Fits(r, after)
  BY <1>1, <1>4 DEF AreSlots, Fits
<1> QED BY <1>5 DEF after

LEMMA FreshVoice ==
  ASSUME NEW r, IsRack(r), NEW id \in DOMAIN r, isHosted(r, id), NEW waiting, AreStates(waiting)
  PROVE  LET fresh == Hosted(r, id, waiting)
         IN /\ fresh \in HostedVoices /\ fresh # NoVoice /\ Settled(fresh) /\ Own(fresh)
            /\ fresh.id = id /\ fresh.plugin = r[id].plugin /\ ~fresh.dead
            /\ fresh.missing = (r[id].plugin \in Unavailable)
<1> DEFINE fresh == Hosted(r, id, waiting)
           missing == r[id].plugin \in Unavailable
           state == IF ~missing THEN Default(r[id].plugin)
                    ELSE IF id \in DOMAIN waiting THEN waiting[id] ELSE NoState
<1>1. r[id].plugin \in Plugins /\ id \in Nat
  BY DEF isHosted, IsRack
<1>2. Default(r[id].plugin) \in States /\ Default(r[id].plugin).plugin = r[id].plugin
  BY <1>1 DEF Default, States
<1>3. state \in States \cup {NoState} /\ missing \in BOOLEAN
  BY <1>2 DEF AreStates
<1>4. fresh = [plugin |-> r[id].plugin, missing |-> missing, dead |-> FALSE, id |-> id,
               checkpoint |-> Default(r[id].plugin), left |-> FALSE, state |-> state]
  BY DEF Hosted
<1>5. ~missing => state = Default(r[id].plugin)
  OBVIOUS
<1>6. missing <=> r[id].plugin \in Unavailable
  OBVIOUS
<1> HIDE DEF fresh, missing, state
<1>7. fresh \in HostedVoices
  BY <1>1, <1>2, <1>3, <1>4 DEF HostedVoices
<1>8. fresh # NoVoice
  BY <1>7, HostingAssumption
<1>9. Settled(fresh)
  BY <1>2, <1>4, <1>5, <1>6 DEF Settled
<1> QED BY <1>4, <1>6, <1>7, <1>8, <1>9 DEF Own, fresh, missing

\* The one voice installed on the channel of an instrument is its own.
LEMMA InstalledFresh ==
  ASSUME NEW r, IsRack(r), NEW new \in SUBSET DOMAIN r, NEW failing, NEW waiting, NEW moved,
         NEW id \in new \ failing, channelIndexOf(r, id) \in Channels
  PROVE  installHosted(r, new, failing, waiting, moved)[channelIndexOf(r, id)] = Hosted(r, id, waiting)
<1> DEFINE channel == channelIndexOf(r, id)
           chosen == CHOOSE other \in new : channelIndexOf(r, other) = channel
<1>1. chosen \in new /\ channelIndexOf(r, chosen) = channel
  OBVIOUS
<1>2. chosen = id
  BY <1>1, RanksDiffer
<1>3. installHosted(r, new, failing, waiting, moved)[channel] = Hosted(r, chosen, waiting)
  BY DEF installHosted
<1> QED BY <1>2, <1>3

LEMMA InstalledElsewhere ==
  ASSUME NEW r, NEW new, NEW failing, NEW waiting, NEW moved, NEW channel \in Channels,
         ~ \E id \in new \ failing : channelIndexOf(r, id) = channel
  PROVE  installHosted(r, new, failing, waiting, moved)[channel] = moved[channel]
BY DEF installHosted

\* What is on a channel when all is hosted that can be: what was there, or a
\* voice of the instrument that is new there.
LEMMA InstalledIsEither ==
  ASSUME NEW r, IsRack(r), NEW kept, NEW failing, NEW waiting, AreStates(waiting), NEW moved,
         NEW channel \in Channels
  PROVE  LET full == installHosted(r, ToHost(r, kept), failing, waiting, moved)
         IN \/ full[channel] = moved[channel]
            \/ \E id \in ToHost(r, kept) \ failing :
                 /\ channelIndexOf(r, id) = channel /\ full[channel] = Hosted(r, id, waiting)
<1> DEFINE new == ToHost(r, kept)
<1>1. new \in SUBSET DOMAIN r
  BY DEF ToHost
<1>2. CASE \E id \in new \ failing : channelIndexOf(r, id) = channel
  BY <1>1, <1>2, InstalledFresh
<1>3. CASE ~ \E id \in new \ failing : channelIndexOf(r, id) = channel
  BY <1>3, InstalledElsewhere
<1> QED BY <1>2, <1>3

LEMMA InstalledVoices ==
  ASSUME NEW r, IsRack(r), NEW kept, NEW failing, NEW waiting, AreStates(waiting), NEW moved,
         AreVoices(moved), Spoken(kept, moved), Voiced(kept, moved), AreSlots(kept),
         Unanswered(moved, waiting)
  PROVE  LET full  == installHosted(r, ToHost(r, kept), failing, waiting, moved)
             after == SlotsAfter(r, kept, failing)
         IN /\ AreVoices(full) /\ Spoken(after, full) /\ Voiced(after, full)
            /\ \A channel \in Channels :
                 Own(full[channel]) /\ full[channel].id \in DOMAIN waiting =>
                   \/ ~full[channel].dead
                   \/ /\ ~full[channel].missing
                      /\ waiting[full[channel].id].plugin # full[channel].plugin
<1> DEFINE new   == ToHost(r, kept)
           full  == installHosted(r, new, failing, waiting, moved)
           after == SlotsAfter(r, kept, failing)
<1>1. new \in SUBSET DOMAIN r /\ \A id \in new : isHosted(r, id) /\ id \notin DOMAIN kept
  BY DEF ToHost
<1>2. full = [channel \in Channels |-> full[channel]]
  BY DEF installHosted
<1>3. DOMAIN after = DOMAIN kept \cup new
  BY DEF SlotsAfter
<1>4. ASSUME NEW id \in DOMAIN kept
      PROVE  after[id] = kept[id] /\ kept[id] \in Slots
  BY DEF SlotsAfter, AreSlots
<1>5. ASSUME NEW id \in new
      PROVE  /\ after[id].channel = channelIndexOf(r, id) /\ after[id].plugin = r[id].plugin
             /\ after[id].failed = (id \in failing)
  BY <1>1 DEF SlotsAfter
<1>6. ASSUME NEW id \in new \ failing
      PROVE  /\ channelIndexOf(r, id) \in Channels
             /\ full[channelIndexOf(r, id)] = Hosted(r, id, waiting)
             /\ LET fresh == Hosted(r, id, waiting)
                IN /\ fresh \in HostedVoices /\ fresh # NoVoice /\ Settled(fresh)
                   /\ fresh.id = id /\ fresh.plugin = r[id].plugin /\ ~fresh.dead
  <2>1. channelIndexOf(r, id) \in Channels /\ id \in DOMAIN r /\ isHosted(r, id)
    BY DEF ToHost
  <2> QED BY <1>1, <2>1, InstalledFresh, FreshVoice
<1>7. ASSUME NEW channel \in Channels
      PROVE  \/ full[channel] = moved[channel]
             \/ \E id \in new \ failing :
                  channelIndexOf(r, id) = channel /\ full[channel] = Hosted(r, id, waiting)
  BY InstalledIsEither
<1> HIDE DEF new, full, after
<1>8. AreVoices(full)
  <2>1. ASSUME NEW channel \in Channels, full[channel] # NoVoice
        PROVE  full[channel] \in HostedVoices /\ Settled(full[channel])
    BY <2>1, <1>6, <1>7 DEF AreVoices
  <2> QED BY <1>2, <2>1 DEF AreVoices
<1>9. Spoken(after, full)
  <2> SUFFICES ASSUME NEW channel \in Channels, Own(full[channel])
               PROVE  \E id \in DOMAIN after :
                        after[id].channel = channel /\ SpeaksFor(after, id, full[channel])
    BY DEF Spoken
  <2>1. CASE full[channel] = moved[channel]
    BY <2>1, <1>3, <1>4 DEF Spoken, SpeaksFor
  <2>2. ASSUME NEW id \in new \ failing,
               channelIndexOf(r, id) = channel, full[channel] = Hosted(r, id, waiting)
        PROVE  after[id].channel = channel /\ SpeaksFor(after, id, full[channel])
    BY <2>2, <1>5, <1>6 DEF SpeaksFor
  <2> QED BY <2>1, <2>2, <1>3, <1>7
<1>10. Voiced(after, full)
  <2>1. ASSUME NEW id \in DOMAIN kept, ~after[id].failed
        PROVE  full[after[id].channel] # NoVoice
    BY <2>1, <1>4, <1>6, <1>7 DEF Voiced, Slots
  <2>2. ASSUME NEW id \in new, ~after[id].failed
        PROVE  full[after[id].channel] # NoVoice
    <3>1. id \in new \ failing
      BY <2>2, <1>5, Zenon
    <3> QED BY <3>1, <1>5, <1>6
  <2> QED BY <1>3, <2>1, <2>2 DEF Voiced
<1>11. \A channel \in Channels :
         Own(full[channel]) /\ full[channel].id \in DOMAIN waiting =>
           \/ ~full[channel].dead
           \/ /\ ~full[channel].missing
              /\ waiting[full[channel].id].plugin # full[channel].plugin
  BY <1>6, <1>7 DEF Unanswered
<1> QED BY <1>8, <1>9, <1>10, <1>11 DEF new, full, after

LoadsOf(r, full, waiting) == {id \in DOMAIN waiting : Loads(r, waiting, full, id)}

VoicesLoaded(r, full, waiting) ==
  [channel \in Channels |->
     IF \E id \in LoadsOf(r, full, waiting) : channelIndexOf(r, id) = channel
     THEN Given(full[channel],
                waiting[CHOOSE id \in LoadsOf(r, full, waiting) : channelIndexOf(r, id) = channel])
     ELSE full[channel]]

LEMMA LoadedAre ==
  ASSUME NEW r, IsRack(r), NEW full, NEW waiting, NEW id \in LoadsOf(r, full, waiting)
  PROVE  /\ id \in DOMAIN r /\ id \in DOMAIN waiting /\ channelIndexOf(r, id) \in Channels
         /\ loadHostedState(full[channelIndexOf(r, id)], waiting[id])
         /\ VoicesLoaded(r, full, waiting)[channelIndexOf(r, id)]
              = Given(full[channelIndexOf(r, id)], waiting[id])
<1> DEFINE channel == channelIndexOf(r, id)
           chosen == CHOOSE other \in LoadsOf(r, full, waiting) : channelIndexOf(r, other) = channel
<1>1. \A other \in LoadsOf(r, full, waiting) :
        /\ other \in DOMAIN r /\ other \in DOMAIN waiting /\ channelIndexOf(r, other) \in Channels
        /\ loadHostedState(full[channelIndexOf(r, other)], waiting[other])
  BY DEF LoadsOf, Loads
<1>2. chosen \in LoadsOf(r, full, waiting) /\ channelIndexOf(r, chosen) = channel
  OBVIOUS
<1>3. chosen = id
  BY <1>1, <1>2, RanksDiffer
<1>4. VoicesLoaded(r, full, waiting)[channel] = Given(full[channel], waiting[chosen])
  BY <1>1 DEF VoicesLoaded
<1> QED BY <1>1, <1>3, <1>4

LEMMA NotLoadedStays ==
  ASSUME NEW r, NEW full, NEW waiting, NEW channel \in Channels,
         ~ \E id \in LoadsOf(r, full, waiting) : channelIndexOf(r, id) = channel
  PROVE  VoicesLoaded(r, full, waiting)[channel] = full[channel]
BY DEF VoicesLoaded

\* What Given changes, and what it leaves.
LEMMA GivenIs ==
  ASSUME NEW voice \in HostedVoices, Settled(voice), NEW state \in States,
         loadHostedState(voice, state)
  PROVE  LET given == Given(voice, state)
         IN /\ given \in HostedVoices /\ given # NoVoice /\ Settled(given)
            /\ given.id = voice.id /\ given.plugin = voice.plugin /\ given.missing = voice.missing
            /\ given.left = voice.left /\ given.dead = voice.dead /\ given.state = state
<1> DEFINE given == Given(voice, state)
<1>1. given = [voice EXCEPT !.state = state, !.checkpoint = state]
  BY DEF Given
<1>2. voice.missing \/ state.plugin = voice.plugin
  BY DEF loadHostedState
<1> HIDE DEF given
<1>3. /\ given \in HostedVoices
      /\ given.id = voice.id /\ given.plugin = voice.plugin /\ given.missing = voice.missing
      /\ given.left = voice.left /\ given.dead = voice.dead /\ given.state = state
      /\ given.checkpoint = state
  BY <1>1 DEF HostedVoices
<1>4. given # NoVoice
  BY <1>3, HostingAssumption
<1>5. voice.missing \in BOOLEAN /\ voice.dead \in BOOLEAN
  BY DEF HostedVoices
<1>6. Settled(given)
  BY <1>2, <1>3, <1>5 DEF Settled
<1> QED BY <1>3, <1>4, <1>6 DEF given

LEMMA LoadedVoices ==
  ASSUME NEW r, IsRack(r), NEW held, AreSlots(held), Fits(r, held), NEW waiting, AreStates(waiting),
         NEW full, AreVoices(full), Spoken(held, full), Voiced(held, full),
         \A channel \in Channels :
           Own(full[channel]) /\ full[channel].id \in DOMAIN waiting =>
             \/ ~full[channel].dead
             \/ /\ ~full[channel].missing
                /\ waiting[full[channel].id].plugin # full[channel].plugin
  PROVE  LET loaded  == VoicesLoaded(r, full, waiting)
             pending == Restrict(waiting, DOMAIN waiting \ LoadsOf(r, full, waiting))
         IN /\ AreVoices(loaded) /\ Spoken(held, loaded) /\ Voiced(held, loaded)
            /\ AreStates(pending) /\ Unanswered(loaded, pending)
<1> DEFINE loads   == LoadsOf(r, full, waiting)
           loaded  == VoicesLoaded(r, full, waiting)
           pending == Restrict(waiting, DOMAIN waiting \ loads)
<1>1. loaded = [channel \in Channels |-> loaded[channel]]
  BY DEF VoicesLoaded
<1>2. DOMAIN pending = DOMAIN waiting \ loads /\ \A id \in DOMAIN pending : pending[id] = waiting[id]
  BY DEF Restrict
<1>3. AreStates(pending)
  <2>1. pending = [id \in DOMAIN pending |-> pending[id]]
    BY DEF Restrict
  <2> HIDE DEF pending
  <2> QED BY <1>2, <2>1 DEF AreStates
<1>4. ASSUME NEW channel \in Channels, full[channel] # NoVoice
      PROVE  /\ loaded[channel] \in HostedVoices /\ loaded[channel] # NoVoice
             /\ Settled(loaded[channel])
             /\ loaded[channel].id = full[channel].id
             /\ loaded[channel].plugin = full[channel].plugin
             /\ loaded[channel].missing = full[channel].missing
             /\ loaded[channel].left = full[channel].left
             /\ loaded[channel].dead = full[channel].dead
  <2>1. full[channel] \in HostedVoices /\ Settled(full[channel])
    BY <1>4 DEF AreVoices
  <2>2. ASSUME NEW id \in loads, channelIndexOf(r, id) = channel
        PROVE  /\ waiting[id] \in States /\ loadHostedState(full[channel], waiting[id])
               /\ loaded[channel] = Given(full[channel], waiting[id])
    BY <2>2, LoadedAre DEF AreStates
  <2>3. CASE \E id \in loads : channelIndexOf(r, id) = channel
    <3> HIDE DEF loaded, loads
    <3> QED BY <2>1, <2>2, <2>3, GivenIs
  <2>4. CASE ~ \E id \in loads : channelIndexOf(r, id) = channel
    BY <1>4, <2>1, <2>4, NotLoadedStays
  <2> QED BY <2>3, <2>4
<1>5. ASSUME NEW channel \in Channels, full[channel] = NoVoice
      PROVE  loaded[channel] = NoVoice
  BY <1>5, LoadedAre, NotLoadedStays DEF loadHostedState
<1>6. AreVoices(loaded)
  <2> HIDE DEF loaded
  <2> QED BY <1>1, <1>4, <1>5 DEF AreVoices
<1>7. Spoken(held, loaded)
  <2> HIDE DEF loaded
  <2> QED BY <1>4, <1>5 DEF Spoken, SpeaksFor, Own
<1>8. Voiced(held, loaded)
  <2> HIDE DEF loaded
  <2> QED BY <1>4 DEF Voiced, AreSlots, Slots
<1>9. Unanswered(loaded, pending)
  <2> SUFFICES ASSUME NEW channel \in Channels, Own(loaded[channel]),
                      loaded[channel].id \in DOMAIN pending
               PROVE  /\ ~loaded[channel].missing
                      /\ pending[loaded[channel].id].plugin # loaded[channel].plugin
    BY DEF Unanswered
  <2> DEFINE id == full[channel].id
  <2>1. full[channel] # NoVoice /\ Own(full[channel]) /\ loaded[channel].id = id
    BY <1>4, <1>5 DEF Own
  <2>2. id \in DOMAIN waiting /\ id \notin loads /\ pending[id] = waiting[id]
    BY <1>2, <2>1
  <2>3. id \in DOMAIN r /\ channelIndexOf(r, id) = channel
    BY <2>1 DEF Spoken, SpeaksFor, Fits, isHosted
  <2>4. ~loadHostedState(full[channel], waiting[id])
    BY <2>2, <2>3 DEF LoadsOf, Loads
  <2>5. ~full[channel].missing /\ (full[channel].dead \/ waiting[id].plugin # full[channel].plugin)
    BY <2>1, <2>4 DEF loadHostedState
  <2>6. waiting[id].plugin # full[channel].plugin
    BY <2>1, <2>2, <2>5
  <2> HIDE DEF loaded, pending, id
  <2> QED BY <1>4, <2>1, <2>2, <2>5, <2>6
<1> QED BY <1>3, <1>6, <1>7, <1>8, <1>9

-----------------------------------------------------------------------------
(* What publishing makes of it *)

FullVoices(r, held, sounding, waiting, failing) ==
  installHosted(r, ToHost(r, KeptSlots(r, held)), failing, waiting,
                remapHostedInstruments(r, held, sounding))

LEMMA PublishedIs ==
  ASSUME NEW r, NEW held, NEW sounding, NEW waiting, NEW failing
  PROVE  LET p    == Published(r, held, sounding, waiting, failing)
             full == FullVoices(r, held, sounding, waiting, failing)
         IN /\ p.slots = SlotsAfter(r, KeptSlots(r, held), failing)
            /\ p.voices = VoicesLoaded(r, full, waiting)
            /\ p.pending = Restrict(waiting, DOMAIN waiting \ LoadsOf(r, full, waiting))
BY DEF Published, FullVoices, SlotsAfter, VoicesLoaded, LoadsOf

\* Whatever the rack has become, its plug-ins are hosted where they belong.
LEMMA PublishedHosting ==
  ASSUME NEW r, IsRack(r), NEW held, NEW sounding, NEW waiting, Hosting(held, sounding, waiting),
         NEW failing
  PROVE  LET p == Published(r, held, sounding, waiting, failing)
         IN Fits(r, p.slots) /\ Hosting(p.slots, p.voices, p.pending)
<1> DEFINE kept  == KeptSlots(r, held)
           moved == remapHostedInstruments(r, held, sounding)
           full  == FullVoices(r, held, sounding, waiting, failing)
           after == SlotsAfter(r, kept, failing)
<1>1. AreSlots(kept) /\ Fits(r, kept)
  BY KeptSlotsFit DEF Hosting
<1>2. AreSlots(after) /\ Fits(r, after)
  BY <1>1, SlotsAfterFit
<1>3. /\ AreVoices(moved) /\ Spoken(kept, moved) /\ Voiced(kept, moved)
      /\ Unanswered(moved, waiting) /\ AreStates(waiting)
  BY MovedVoices, MovedUnanswered DEF Hosting
<1>4. /\ AreVoices(full) /\ Spoken(after, full) /\ Voiced(after, full)
      /\ \A channel \in Channels :
           Own(full[channel]) /\ full[channel].id \in DOMAIN waiting =>
             \/ ~full[channel].dead
             \/ /\ ~full[channel].missing
                /\ waiting[full[channel].id].plugin # full[channel].plugin
  BY <1>1, <1>3, InstalledVoices DEF FullVoices
<1> HIDE DEF kept, moved, full, after
<1>5. LET loaded  == VoicesLoaded(r, full, waiting)
          pending == Restrict(waiting, DOMAIN waiting \ LoadsOf(r, full, waiting))
      IN /\ AreVoices(loaded) /\ Spoken(after, loaded) /\ Voiced(after, loaded)
         /\ AreStates(pending) /\ Unanswered(loaded, pending)
  BY <1>2, <1>3, <1>4, LoadedVoices
<1>6. Apart(after)
  BY <1>2, FittingIsApart
<1> QED BY <1>2, <1>5, <1>6, PublishedIs DEF Hosting, kept, full, after

\* A plug-in of this project that sounds afterwards, and whose slot was there
\* before, sounded before, with the settings it has now.
LEMMA PublishedSlot ==
  ASSUME NEW r, NEW held, AreSlots(held), NEW sounding, NEW waiting, NEW failing,
         NEW id \in DOMAIN held, Destination(r, held, id) \in Channels
  PROVE  LET p == Published(r, held, sounding, waiting, failing)
         IN /\ id \in DOMAIN p.slots /\ p.slots[id].plugin = held[id].plugin
            /\ p.slots[id].channel = channelIndexOf(r, id)
            /\ channelIndexOf(r, id) \in Channels
<1> DEFINE kept == KeptSlots(r, held)
           p == Published(r, held, sounding, waiting, failing)
<1>1. /\ id \in DOMAIN kept /\ kept[id].channel = channelIndexOf(r, id)
      /\ kept[id].plugin = held[id].plugin /\ channelIndexOf(r, id) \in Channels
  BY KeptIfUsable, KeptSlot
<1>2. p.slots = SlotsAfter(r, kept, failing)
  BY DEF Published, SlotsAfter
<1> HIDE DEF p
<1>3. id \in DOMAIN p.slots /\ p.slots[id] = kept[id]
  BY <1>1, <1>2 DEF SlotsAfter
<1> QED BY <1>1, <1>3 DEF p

LEMMA PublishedKeeps ==
  ASSUME NEW r, IsRack(r), NEW held, NEW sounding, NEW waiting, Hosting(held, sounding, waiting),
         NEW failing, NEW id \in DOMAIN held, Destination(r, held, id) \in Channels,
         Own(Published(r, held, sounding, waiting, failing).voices[channelIndexOf(r, id)])
  PROVE  LET p == Published(r, held, sounding, waiting, failing)
         IN /\ Own(sounding[held[id].channel])
            /\ p.voices[channelIndexOf(r, id)].state = sounding[held[id].channel].state
<1> DEFINE kept  == KeptSlots(r, held)
           moved == remapHostedInstruments(r, held, sounding)
           full  == FullVoices(r, held, sounding, waiting, failing)
           loaded == VoicesLoaded(r, full, waiting)
           channel == channelIndexOf(r, id)
           old == sounding[held[id].channel]
           p == Published(r, held, sounding, waiting, failing)
<1>0. p.voices = loaded
  BY DEF Published, FullVoices, SlotsAfter, VoicesLoaded, LoadsOf
<1> HIDE DEF p
<1>1. /\ id \in DOMAIN kept /\ kept[id].channel = channel /\ kept[id].plugin = held[id].plugin
      /\ channel \in Channels /\ id \in DOMAIN r
  BY KeptIfUsable, KeptSlot DEF Hosting, isHosted
<1>2. \A other \in DOMAIN r : channelIndexOf(r, other) = channel => other = id
  BY <1>1, RanksDiffer
<1>3. full[channel] = moved[channel]
  <2>1. ~ \E new \in ToHost(r, kept) \ failing : channelIndexOf(r, new) = channel
    BY <1>1, <1>2 DEF ToHost
  <2> QED BY <1>1, <2>1, InstalledElsewhere DEF FullVoices
<1>4. Own(loaded[channel])
  BY <1>0 DEF p
<1>5. full[channel] # NoVoice
  BY <1>1, <1>4, LoadedAre, NotLoadedStays DEF Own, loadHostedState
<1>6. AreVoices(moved)
  BY MovedVoices DEF Hosting
<1>7. moved[channel] \in HostedVoices /\ Settled(moved[channel])
  BY <1>1, <1>3, <1>5, <1>6 DEF AreVoices
<1>8. Own(moved[channel])
  <2>1. CASE \E load \in LoadsOf(r, full, waiting) : channelIndexOf(r, load) = channel
    <3>1. PICK load \in LoadsOf(r, full, waiting) : channelIndexOf(r, load) = channel
      BY <2>1
    <3>2. loadHostedState(full[channel], waiting[load]) /\ waiting[load] \in States
          /\ loaded[channel] = Given(full[channel], waiting[load])
      BY <3>1, LoadedAre DEF Hosting, AreStates
    <3> HIDE DEF loaded, full, moved
    <3>3. loaded[channel].left = full[channel].left
      BY <1>3, <1>7, <3>2, GivenIs
    <3> QED BY <1>3, <1>4, <1>5, <3>3 DEF Own
  <2>2. CASE ~ \E load \in LoadsOf(r, full, waiting) : channelIndexOf(r, load) = channel
    BY <1>1, <1>3, <1>4, <2>2, NotLoadedStays
  <2> QED BY <2>1, <2>2
<1>9. PICK other \in DOMAIN kept :
        /\ kept[other].channel = channel /\ SpeaksFor(kept, other, sounding[held[other].channel])
        /\ moved[channel] = sounding[held[other].channel]
  BY <1>1, <1>8, MovedWithItsSlot DEF Hosting
<1>10. other = id
  BY <1>2, <1>9, KeptSlot DEF Hosting, isHosted
<1>11. Own(old) /\ moved[channel] = old /\ old.id = id
  BY <1>8, <1>9, <1>10 DEF SpeaksFor
<1>12. loaded[channel] = full[channel]
  <2> SUFFICES ASSUME NEW load \in LoadsOf(r, full, waiting), channelIndexOf(r, load) = channel
               PROVE  FALSE
    BY <1>1, NotLoadedStays
  <2>1. load = id /\ id \in DOMAIN waiting /\ loadHostedState(full[channel], waiting[id])
    BY <1>2, LoadedAre
  <2>2. ~old.missing /\ waiting[id].plugin # old.plugin
    <3>1. held[id].channel \in Channels
      BY DEF Hosting, AreSlots, Slots
    <3> QED BY <1>11, <2>1, <3>1 DEF Hosting, Unanswered
  <2> HIDE DEF loaded, full, moved, old
  <2> QED BY <1>3, <1>11, <2>1, <2>2 DEF loadHostedState
<1> QED BY <1>0, <1>3, <1>11, <1>12 DEF p

\* A plug-in that is hosted for a project just opened has the settings that
\* waited for it.
LEMMA PublishedReturns ==
  ASSUME NEW r, IsRack(r), NEW sounding, NEW waiting, AreStates(waiting), NEW failing,
         NEW id \in DOMAIN Published(r, <<>>, sounding, waiting, failing).slots,
         ~Published(r, <<>>, sounding, waiting, failing).slots[id].failed,
         id \in DOMAIN waiting,
         r[id].plugin \notin Unavailable => waiting[id].plugin = r[id].plugin
  PROVE  Published(r, <<>>, sounding, waiting, failing).voices[channelIndexOf(r, id)].state
           = waiting[id]
<1> DEFINE kept == KeptSlots(r, <<>>)
           full == FullVoices(r, <<>>, sounding, waiting, failing)
           fresh == Hosted(r, id, waiting)
           p == Published(r, <<>>, sounding, waiting, failing)
<1>1. /\ p.voices = VoicesLoaded(r, full, waiting) /\ p.slots = SlotsAfter(r, kept, failing)
      /\ id \in DOMAIN p.slots /\ ~p.slots[id].failed
  BY DEF Published, FullVoices, SlotsAfter, VoicesLoaded, LoadsOf
<1> HIDE DEF p
<1>2. DOMAIN kept = {}
  BY DEF KeptSlots
<1>3. id \in ToHost(r, kept) /\ id \notin failing
  <2>1. id \in ToHost(r, kept)
    BY <1>1, <1>2 DEF SlotsAfter
  <2>2. p.slots[id] = [channel |-> channelIndexOf(r, id), plugin |-> r[id].plugin,
                       failed |-> id \in failing]
    BY <1>1, <1>2, <2>1 DEF SlotsAfter
  <2>3. p.slots[id].failed = (id \in failing)
    BY <2>2
  <2> QED BY <1>1, <2>1, <2>3, Zenon
<1>4. id \in DOMAIN r /\ isHosted(r, id) /\ channelIndexOf(r, id) \in Channels
  BY <1>3 DEF ToHost
<1>5. full[channelIndexOf(r, id)] = fresh
  <2>1. ToHost(r, kept) \in SUBSET DOMAIN r
    BY DEF ToHost
  <2> QED BY <1>3, <1>4, <2>1, InstalledFresh DEF FullVoices
<1>6. /\ fresh \in HostedVoices /\ fresh # NoVoice /\ Settled(fresh)
      /\ fresh.plugin = r[id].plugin /\ ~fresh.dead
      /\ fresh.missing = (r[id].plugin \in Unavailable)
  BY <1>4, FreshVoice
<1> HIDE DEF fresh, full
<1>7. loadHostedState(fresh, waiting[id])
  <2>1. fresh.missing \/ waiting[id].plugin = fresh.plugin
    <3>1. CASE r[id].plugin \in Unavailable
      BY <3>1, <1>6, Zenon
    <3>2. CASE r[id].plugin \notin Unavailable
      BY <3>2, <1>6
    <3> QED BY <3>1, <3>2
  <2> QED BY <2>1, <1>6 DEF loadHostedState
<1>8. id \in LoadsOf(r, full, waiting)
  BY <1>4, <1>5, <1>7 DEF LoadsOf, Loads
<1>9. VoicesLoaded(r, full, waiting)[channelIndexOf(r, id)] = Given(fresh, waiting[id])
  BY <1>5, <1>8, LoadedAre
<1>10. waiting[id] \in States
  BY DEF AreStates
<1>11. Given(fresh, waiting[id]).state = waiting[id]
  BY <1>6, <1>7, <1>10, GivenIs
<1> QED BY <1>1, <1>9, <1>11 DEF p

-----------------------------------------------------------------------------
(* The rack and the history *)

LEMMA RackWithIsRack ==
  ASSUME NEW r, IsRack(r), NEW id \in Nat \ {0}, NEW record \in Written
  PROVE  /\ IsRack(RackWith(r, id, record)) /\ DOMAIN RackWith(r, id, record) \subseteq DOMAIN r \cup {id}
         /\ \A other \in DOMAIN RackWith(r, id, record) :
              other # id => other \in DOMAIN r /\ RackWith(r, id, record)[other] = r[other]
<1> DEFINE rack2 == RackWith(r, id, record)
<1>1. CASE record = NoInstrument
  <2>1. rack2 = [other \in DOMAIN r \ {id} |-> r[other]]
    BY <1>1 DEF RackWith, Restrict
  <2>2. IsFiniteSet(DOMAIN r \ {id})
    BY FS_Subset DEF IsRack
  <2> HIDE DEF rack2
  <2>3. IsRack(rack2)
    BY <2>1, <2>2 DEF IsRack
  <2> QED BY <2>1, <2>3 DEF rack2
<1>2. CASE record # NoInstrument
  <2>1. rack2 = [other \in DOMAIN r \cup {id} |-> IF other = id THEN record ELSE r[other]]
    BY <1>2 DEF RackWith
  <2>2. IsFiniteSet(DOMAIN r \cup {id})
    BY FS_AddElement DEF IsRack
  <2>3. record \in Instruments
    BY <1>2 DEF Written
  <2> HIDE DEF rack2
  <2>4. IsRack(rack2)
    BY <2>1, <2>2, <2>3 DEF IsRack
  <2> QED BY <2>1, <2>4 DEF rack2
<1> QED BY <1>1, <1>2

LEMMA RecordOfIsWritten ==
  ASSUME NEW r, IsRack(r), NEW id
  PROVE  RecordOf(r, id) \in Written
BY DEF RecordOf, IsRack, Written

LEMMA NewRecordIsWritten ==
  ASSUME NEW plugin \in Plugins \cup {Sample}
  PROVE  NewRecord(plugin) \in Written
BY DEF NewRecord, NoRef, Instruments, Written

\* The last entry of a history that has one.
LEMMA LastEntry ==
  ASSUME NEW S, NEW entries \in Seq(S), entries # <<>>
  PROVE  Last(entries) \in S /\ Front(entries) \in Seq(S)
BY DEF Last, Front

\* An edit leaves an entry of its instrument and field at the end.
Leaves(n, id, before, field, entries) ==
  /\ entries \in Seq(EntriesOf(n)) /\ entries # <<>>
  /\ Last(entries).id = id /\ Last(entries).field = field
  /\ field = "none" => Last(entries).before = before

LEMMA RecordLeaves ==
  ASSUME NEW n \in Nat, done \in Seq(EntriesOf(n)), NEW id \in 1..(n - 1),
         NEW before \in Written, NEW after \in Written, NEW field \in {"none", "plugin", "muted"}
  PROVE  Leaves(n, id, before, field, Record(id, before, after, field))
<1> DEFINE entries == Record(id, before, after, field)
           new == [id |-> id, before |-> before, after |-> after, field |-> field]
           last == done[Len(done)]
<1>1. new \in EntriesOf(n)
  BY DEF EntriesOf
<1>2. CASE entries = Append(done, new)
  <2> HIDE DEF new, entries
  <2>1. entries \in Seq(EntriesOf(n)) /\ entries # <<>> /\ Last(entries) = new
    BY <1>1, <1>2 DEF Last
  <2> QED BY <2>1 DEF new, entries, Leaves
<1>3. CASE /\ done # <<>> /\ field # "none" /\ last.id = id /\ last.field = field
           /\ entries = [done EXCEPT ![Len(done)].after = after]
  <2> DEFINE changed == [last EXCEPT !.after = after]
  <2>1. Len(done) \in 1..Len(done) /\ last \in EntriesOf(n)
    BY <1>3
  <2>2. changed \in EntriesOf(n) /\ changed.id = id /\ changed.field = field
    BY <1>3, <2>1 DEF EntriesOf
  <2>3. entries = [done EXCEPT ![Len(done)] = changed]
    BY <1>3
  <2> HIDE DEF changed, entries, last
  <2>4. entries \in Seq(EntriesOf(n)) /\ Len(entries) = Len(done) /\ entries[Len(done)] = changed
    BY <2>1, <2>2, <2>3
  <2>5. entries # <<>> /\ Last(entries) = changed
    BY <2>1, <2>4 DEF Last
  <2> QED BY <1>3, <2>2, <2>4, <2>5 DEF entries, Leaves
<1>4. \/ entries = Append(done, new)
      \/ /\ done # <<>> /\ field # "none" /\ last.id = id /\ last.field = field
         /\ entries = [done EXCEPT ![Len(done)].after = after]
  BY DEF Record
<1> QED BY <1>2, <1>3, <1>4

-----------------------------------------------------------------------------
(* The steps *)

LEMMA MoreIds ==
  ASSUME NEW n \in Nat, NEW m \in Nat, n <= m
  PROVE  1..(n - 1) \subseteq 1..(m - 1)
OBVIOUS

LEMMA MoreEntries ==
  ASSUME NEW n \in Nat, NEW m \in Nat, n <= m, NEW entries \in Seq(EntriesOf(n))
  PROVE  entries \in Seq(EntriesOf(m))
<1>1. EntriesOf(n) \subseteq EntriesOf(m)
  BY DEF EntriesOf
<1> HIDE DEF EntriesOf
<1> QED BY <1>1

LEMMA BundleStays ==
  ASSUME Counted, nextId' \in Nat, nextId <= nextId', NEW b, IsBundle(b)
  PROVE  /\ IsRack(b.rack) /\ DOMAIN b.rack \subseteq 1..(nextId' - 1) /\ AreStates(b.sidecars)
<1>1. 1..(nextId - 1) \subseteq 1..(nextId' - 1)
  BY MoreIds DEF Counted
<1> QED BY <1>1 DEF IsBundle

LEMMA DiskStays ==
  ASSUME Counted, DiskIsSound, nextId' \in Nat, nextId <= nextId', bundle' = bundle,
         path' => path
  PROVE  DiskIsSound'
<1>1. 1..(nextId - 1) \subseteq 1..(nextId' - 1)
  BY MoreIds DEF Counted
<1> QED BY <1>1 DEF DiskIsSound, IsBundle

LEMMA SettledStep ==
  ASSUME HostedAsPlaced, NEW r, IsRack(r), rack' = r, NEW failing,
         Settle(r, slots, voices, awaiting, failing)
  PROVE  HostedAsPlaced'
BY PublishedHosting DEF HostedAsPlaced, Settle

\* An edit through the history, the plug-ins hosted for it or not.
LEMMA EditStep ==
  ASSUME HostingIInv, nextId' \in Nat, nextId <= nextId', NEW id \in 1..(nextId' - 1),
         NEW record \in Written, NEW field \in {"none", "plugin", "muted"},
         executeModel(id, record, field), elsewhere
  PROVE  HostingIInv'
<1> DEFINE r == RackWith(rack, id, record)
<1>1. id \in Nat \ {0} /\ nextId \in Nat \ {0} /\ deeds \in Nat
  BY DEF HostingIInv, Counted
<1>2. IsRack(r) /\ DOMAIN r \subseteq DOMAIN rack \cup {id}
  BY <1>1, RackWithIsRack DEF HostingIInv, RackIsSound
<1>3. rack' = r /\ deeds' \in Nat
  BY <1>1 DEF executeModel, Deed
<1>4. RackIsSound'
  <2>1. DOMAIN rack \subseteq 1..(nextId' - 1)
    BY <1>1 DEF HostingIInv, RackIsSound
  <2> HIDE DEF r
  <2> QED BY <1>2, <1>3, <2>1 DEF RackIsSound
<1>5. HistoryIsOfIds'
  <2>1. done \in Seq(EntriesOf(nextId'))
    BY <1>1, MoreEntries DEF HostingIInv, HistoryIsOfIds
  <2>2. RecordOf(rack, id) \in Written
    BY RecordOfIsWritten DEF HostingIInv, RackIsSound
  <2>3. done' \in Seq(EntriesOf(nextId'))
    BY <2>1, <2>2, RecordLeaves DEF executeModel, Leaves
  <2>4. undone' \in Seq(EntriesOf(nextId'))
    BY DEF executeModel
  <2> QED BY <2>3, <2>4 DEF HistoryIsOfIds, EntriesOf
<1>6. HostedAsPlaced'
  <2>1. PICK failing : Settle(r, slots, voices, awaiting, failing)
    BY DEF executeModel, publishModel
  <2> HIDE DEF r
  <2> QED BY <1>2, <1>3, <2>1, SettledStep DEF HostingIInv
<1>7. DiskIsSound'
  BY <1>1, DiskStays DEF HostingIInv, elsewhere
<1> QED BY <1>1, <1>3, <1>4, <1>5, <1>6, <1>7 DEF HostingIInv, Counted

\* What is taken back is an instrument as it was.
LEMMA TakenBackIsRack ==
  ASSUME NEW n \in Nat, NEW r, IsRack(r), DOMAIN r \subseteq 1..(n - 1),
         NEW entries \in Seq(EntriesOf(n)), entries # <<>>
  PROVE  /\ IsRack(TakenBack(entries, r)) /\ DOMAIN TakenBack(entries, r) \subseteq 1..(n - 1)
         /\ \A other \in DOMAIN TakenBack(entries, r) :
              other # Last(entries).id => other \in DOMAIN r /\ TakenBack(entries, r)[other] = r[other]
<1>1. Last(entries) \in EntriesOf(n)
  BY LastEntry
<1>2. Last(entries).id \in 1..(n - 1) /\ Last(entries).before \in Written
  BY <1>1 DEF EntriesOf
<1>3. Last(entries).id \in Nat \ {0}
  BY <1>2
<1> QED BY <1>2, <1>3, RackWithIsRack DEF TakenBack

LEMMA TryStep ==
  ASSUME HostingIInv, nextId' \in Nat, nextId <= nextId', NEW id \in 1..(nextId' - 1),
         NEW record \in Written, NEW field \in {"none", "plugin", "muted"},
         Deed, TriesToHost(id, record, field), elsewhere
  PROVE  HostingIInv'
<1> DEFINE r == RackWith(rack, id, record)
           entries == Record(id, RecordOf(rack, id), record, field)
           back == TakenBack(entries, r)
<1>1. id \in Nat \ {0} /\ nextId \in Nat \ {0} /\ deeds \in Nat /\ deeds' \in Nat
  BY DEF HostingIInv, Counted, Deed
<1>2. IsRack(r) /\ DOMAIN r \subseteq 1..(nextId' - 1)
  <2>1. DOMAIN rack \subseteq 1..(nextId' - 1)
    BY <1>1 DEF HostingIInv, RackIsSound
  <2>2. IsRack(r) /\ DOMAIN r \subseteq DOMAIN rack \cup {id}
    BY <1>1, RackWithIsRack DEF HostingIInv, RackIsSound
  <2> QED BY <2>1, <2>2
<1>3. done \in Seq(EntriesOf(nextId'))
  BY <1>1, MoreEntries DEF HostingIInv, HistoryIsOfIds
<1>4. entries \in Seq(EntriesOf(nextId')) /\ entries # <<>>
  <2>1. RecordOf(rack, id) \in Written
    BY RecordOfIsWritten DEF HostingIInv, RackIsSound
  <2>2. Leaves(nextId', id, RecordOf(rack, id), field, entries)
    BY <1>3, <2>1, RecordLeaves
  <2> QED BY <2>2 DEF Leaves
<1>5. IsRack(back) /\ DOMAIN back \subseteq 1..(nextId' - 1)
  BY <1>2, <1>4, TakenBackIsRack
<1>6. Front(entries) \in Seq(EntriesOf(nextId')) /\ <<Last(entries)>> \in Seq(EntriesOf(nextId'))
  BY <1>4, LastEntry
<1>7. DiskIsSound'
  BY <1>1, DiskStays DEF HostingIInv, elsewhere
<1>8. PICK failing : LET p == Published(r, slots, voices, awaiting, failing)
                     IN \/ /\ Settle(r, slots, voices, awaiting, failing)
                           /\ rack' = r /\ done' = entries /\ undone' = <<>>
                        \/ /\ \E again : Settle(back, p.slots, p.voices, p.pending, again)
                           /\ rack' = back
                           /\ done' = Front(entries) /\ undone' = <<Last(entries)>>
  BY DEF TriesToHost
<1> HIDE DEF r, back, entries
<1>9. CASE /\ Settle(r, slots, voices, awaiting, failing)
           /\ rack' = r /\ done' = entries /\ undone' = <<>>
  <2>1. HostedAsPlaced'
    BY <1>2, <1>9, SettledStep DEF HostingIInv
  <2>2. RackIsSound' /\ HistoryIsOfIds'
    BY <1>2, <1>4, <1>9 DEF RackIsSound, HistoryIsOfIds, EntriesOf
  <2> QED BY <1>1, <1>7, <2>1, <2>2 DEF HostingIInv, Counted
<1>10. ASSUME NEW p, p = Published(r, slots, voices, awaiting, failing),
              NEW again, Settle(back, p.slots, p.voices, p.pending, again),
              rack' = back, done' = Front(entries), undone' = <<Last(entries)>>
       PROVE  HostingIInv'
  <2>1. Hosting(p.slots, p.voices, p.pending)
    BY <1>2, <1>10, PublishedHosting DEF HostingIInv, HostedAsPlaced
  <2>2. HostedAsPlaced'
    BY <1>5, <1>10, <2>1, PublishedHosting DEF HostedAsPlaced, Settle
  <2>3. RackIsSound' /\ HistoryIsOfIds'
    BY <1>5, <1>6, <1>10 DEF RackIsSound, HistoryIsOfIds, EntriesOf
  <2> QED BY <1>1, <1>7, <2>2, <2>3 DEF HostingIInv, Counted
<1> QED BY <1>8, <1>9, <1>10

LEMMA UndoStep ==
  ASSUME HostingIInv, project_undo
  PROVE  HostingIInv'
<1> DEFINE r == TakenBack(done, rack)
<1>1. nextId \in Nat /\ nextId' = nextId /\ deeds' = deeds
  BY DEF HostingIInv, Counted, project_undo
<1>2. IsRack(r) /\ DOMAIN r \subseteq 1..(nextId - 1)
  BY <1>1, TakenBackIsRack DEF HostingIInv, RackIsSound, HistoryIsOfIds, project_undo
<1>3. rack' = r
  BY DEF project_undo
<1>4. HostedAsPlaced'
  <2>1. PICK failing : Settle(r, slots, voices, awaiting, failing)
    BY DEF project_undo, publishModel
  <2> HIDE DEF r
  <2> QED BY <1>2, <1>3, <2>1, SettledStep DEF HostingIInv
<1>5. Last(done) \in EntriesOf(nextId) /\ Front(done) \in Seq(EntriesOf(nextId))
  BY LastEntry DEF HostingIInv, HistoryIsOfIds, project_undo
<1>6. HistoryIsOfIds'
  <2>1. done' \in Seq(EntriesOf(nextId)) /\ undone' \in Seq(EntriesOf(nextId))
    BY <1>5 DEF HostingIInv, HistoryIsOfIds, project_undo
  <2> QED BY <1>1, <2>1 DEF HistoryIsOfIds, EntriesOf
<1>7. DiskIsSound'
  BY <1>1, DiskStays DEF HostingIInv, project_undo, elsewhere
<1> HIDE DEF r
<1> QED BY <1>1, <1>2, <1>3, <1>4, <1>6, <1>7 DEF HostingIInv, Counted, RackIsSound

LEMMA RedoStep ==
  ASSUME HostingIInv, project_redo
  PROVE  HostingIInv'
<1> DEFINE entry == Last(undone)
           r == RackWith(rack, entry.id, entry.after)
           looked == [entry EXCEPT !.before = RecordOf(rack, entry.id)]
<1>1. nextId \in Nat /\ nextId' = nextId /\ deeds' = deeds
  BY DEF HostingIInv, Counted, project_redo
<1>2. entry \in EntriesOf(nextId) /\ Front(undone) \in Seq(EntriesOf(nextId))
  BY LastEntry DEF HostingIInv, HistoryIsOfIds, project_redo
<1>3. entry.id \in 1..(nextId - 1) /\ entry.id \in Nat \ {0} /\ entry.after \in Written
  BY <1>2 DEF EntriesOf
<1>4. IsRack(r) /\ DOMAIN r \subseteq 1..(nextId - 1)
  BY <1>3, RackWithIsRack DEF HostingIInv, RackIsSound
<1>5. rack' = r
  BY DEF project_redo
<1>6. HostedAsPlaced'
  <2>1. PICK failing : Settle(r, slots, voices, awaiting, failing)
    BY DEF project_redo, publishModel
  <2> HIDE DEF r
  <2> QED BY <1>4, <1>5, <2>1, SettledStep DEF HostingIInv
<1>7. looked \in EntriesOf(nextId)
  <2>1. RecordOf(rack, entry.id) \in Written
    BY RecordOfIsWritten DEF HostingIInv, RackIsSound
  <2> HIDE DEF entry
  <2> QED BY <1>2, <2>1 DEF EntriesOf
<1>8. HistoryIsOfIds'
  <2>1. done' = Append(done, entry) \/ done' = Append(done, looked)
    BY DEF project_redo
  <2> HIDE DEF entry, looked
  <2>2. undone' = Front(undone)
    BY DEF project_redo
  <2>3. done \in Seq(EntriesOf(nextId))
    BY DEF HostingIInv, HistoryIsOfIds
  <2>4. done' \in Seq(EntriesOf(nextId)) /\ undone' \in Seq(EntriesOf(nextId))
    BY <1>2, <1>7, <2>1, <2>2, <2>3, SMTT(30)
  <2> QED BY <1>1, <2>4 DEF HistoryIsOfIds, EntriesOf
<1>9. DiskIsSound'
  BY <1>1, DiskStays DEF HostingIInv, project_redo, elsewhere
<1> HIDE DEF r, entry
<1> QED BY <1>1, <1>4, <1>5, <1>6, <1>8, <1>9 DEF HostingIInv, Counted, RackIsSound

\* Voices whose settings or helpers alone have changed are where they were.
LEMMA AlikeHosting ==
  ASSUME NEW held, NEW sounding, NEW waiting, Hosting(held, sounding, waiting),
         NEW other \in [Channels -> HostedVoices \cup {NoVoice}],
         \A channel \in Channels :
           /\ sounding[channel] = NoVoice => other[channel] = NoVoice
           /\ sounding[channel] # NoVoice =>
                /\ other[channel] # NoVoice /\ Settled(other[channel])
                /\ other[channel].id = sounding[channel].id
                /\ other[channel].plugin = sounding[channel].plugin
                /\ other[channel].missing = sounding[channel].missing
                /\ other[channel].left = sounding[channel].left
  PROVE  Hosting(held, other, waiting)
<1>1. AreSlots(held) /\ Apart(held) /\ AreStates(waiting)
  BY DEF Hosting
<1>2. AreVoices(other)
  BY DEF AreVoices
<1>3. Spoken(held, other)
  BY DEF Hosting, Spoken, SpeaksFor, Own
<1>4. Voiced(held, other)
  BY <1>1 DEF Hosting, Voiced, AreSlots, Slots
<1>5. Unanswered(other, waiting)
  BY DEF Hosting, Unanswered, Own
<1> QED BY <1>1, <1>2, <1>3, <1>4, <1>5 DEF Hosting

\* One voice changes.
LEMMA VoiceStep ==
  ASSUME HostingIInv, NEW channel \in Channels, voices[channel] # NoVoice,
         NEW voice \in HostedVoices, Settled(voice),
         voice.id = voices[channel].id, voice.plugin = voices[channel].plugin,
         voice.missing = voices[channel].missing, voice.left = voices[channel].left,
         voices' = [voices EXCEPT ![channel] = voice], onlyVoices, deeds' \in Nat
  PROVE  HostingIInv'
<1>1. voices \in [Channels -> HostedVoices \cup {NoVoice}]
  BY DEF HostingIInv, HostedAsPlaced, Hosting, AreVoices
<1>2. voices' \in [Channels -> HostedVoices \cup {NoVoice}]
  BY <1>1
<1>3. \A other \in Channels : voices'[other] = IF other = channel THEN voice ELSE voices[other]
  BY <1>1
<1>4. voice # NoVoice
  BY HostingAssumption
<1>5. \A other \in Channels : voices[other] # NoVoice => Settled(voices[other])
  BY DEF HostingIInv, HostedAsPlaced, Hosting, AreVoices
<1>6. Hosting(slots, voices', awaiting)
  BY <1>2, <1>3, <1>4, <1>5, AlikeHosting DEF HostingIInv, HostedAsPlaced
<1>7. HostedAsPlaced'
  BY <1>6 DEF HostingIInv, HostedAsPlaced, onlyVoices
<1>8. DiskIsSound'
  BY DiskStays DEF HostingIInv, Counted, onlyVoices
<1> QED BY <1>7, <1>8 DEF HostingIInv, Counted, RackIsSound, HistoryIsOfIds, EntriesOf, onlyVoices

LEMMA SoundingVoice ==
  ASSUME HostingIInv, NEW id, Sounds(id)
  PROVE  /\ channelIndexOf(rack, id) \in Channels /\ VoiceOf(id) # NoVoice
         /\ VoiceOf(id) = voices[channelIndexOf(rack, id)]
         /\ VoiceOf(id) \in HostedVoices /\ Settled(VoiceOf(id))
BY DEF HostingIInv, HostedAsPlaced, Hosting, AreVoices, Sounds, VoiceOf

LEMMA TweakStep ==
  ASSUME HostingIInv, NEW id, Tweak(id)
  PROVE  HostingIInv'
<1> DEFINE channel == channelIndexOf(rack, id)
           state == [plugin |-> VoiceOf(id).plugin, tweak |-> deeds']
           old == VoiceOf(id)
           voice == [old EXCEPT !.state = state]
<1>1. /\ channel \in Channels /\ old # NoVoice /\ old = voices[channel]
      /\ old \in HostedVoices /\ Settled(old) /\ ~old.missing
  BY SoundingVoice DEF Tweak
<1>2. deeds' \in Nat
  BY DEF HostingIInv, Counted, Tweak, Deed
<1>3. state \in States /\ state.plugin = old.plugin
  BY <1>1, <1>2 DEF States, HostedVoices
<1>4. voices' = [voices EXCEPT ![channel] = voice] /\ onlyVoices
  BY <1>1 DEF Tweak
<1> HIDE DEF channel, state, old
<1>5. /\ voice \in HostedVoices
      /\ voice.id = old.id /\ voice.plugin = old.plugin /\ voice.missing = old.missing
      /\ voice.left = old.left /\ voice.dead = old.dead
      /\ voice.state = state /\ voice.checkpoint = old.checkpoint
  BY <1>1, <1>3 DEF HostedVoices
<1> HIDE DEF voice
<1>6. Settled(voice)
  BY <1>1, <1>3, <1>5 DEF Settled
<1> QED BY <1>1, <1>2, <1>4, <1>5, <1>6, VoiceStep

LEMMA DeathStep ==
  ASSUME HostingIInv, NEW id, HelperDies(id)
  PROVE  HostingIInv'
<1> DEFINE channel == channelIndexOf(rack, id)
           old == VoiceOf(id)
           voice == [old EXCEPT !.dead = TRUE]
<1>1. /\ channel \in Channels /\ old # NoVoice /\ old = voices[channel]
      /\ old \in HostedVoices /\ Settled(old) /\ ~old.missing
  BY SoundingVoice DEF HelperDies
<1>2. deeds' \in Nat
  BY DEF HostingIInv, Counted, HelperDies, Deed
<1>3. voices' = [voices EXCEPT ![channel] = voice] /\ onlyVoices
  BY <1>1 DEF HelperDies
<1> HIDE DEF channel, old
<1>4. /\ voice \in HostedVoices
      /\ voice.id = old.id /\ voice.plugin = old.plugin /\ voice.missing = old.missing
      /\ voice.left = old.left /\ voice.state = old.state /\ voice.checkpoint = old.checkpoint
  BY <1>1 DEF HostedVoices
<1> HIDE DEF voice
<1>5. Settled(voice)
  BY <1>1, <1>4 DEF Settled
<1> QED BY <1>1, <1>2, <1>3, <1>4, <1>5, VoiceStep

LEMMA RestartStep ==
  ASSUME HostingIInv, NEW id, instance_restart(id)
  PROVE  HostingIInv'
<1> DEFINE channel == channelIndexOf(rack, id)
           old == VoiceOf(id)
           voice == [old EXCEPT !.dead = FALSE, !.state = old.checkpoint]
<1>1. /\ channel \in Channels /\ old # NoVoice /\ old = voices[channel]
      /\ old \in HostedVoices /\ Settled(old) /\ old.dead
  BY SoundingVoice DEF instance_restart
<1>2. deeds' \in Nat
  BY DEF HostingIInv, Counted, instance_restart
<1>3. voices' = [voices EXCEPT ![channel] = voice] /\ onlyVoices
  BY <1>1 DEF instance_restart
<1>4. ~old.missing
  BY <1>1 DEF Settled
<1> HIDE DEF channel, old
<1>5. /\ voice \in HostedVoices
      /\ voice.id = old.id /\ voice.plugin = old.plugin /\ voice.missing = old.missing
      /\ voice.left = old.left /\ voice.state = old.checkpoint /\ voice.checkpoint = old.checkpoint
  BY <1>1 DEF HostedVoices
<1> HIDE DEF voice
<1>6. Settled(voice)
  BY <1>1, <1>4, <1>5 DEF Settled
<1> QED BY <1>1, <1>2, <1>3, <1>5, <1>6, VoiceStep

-----------------------------------------------------------------------------
(* Projects *)

\* What an instrument has to say to a save is what a voice on its channel has.
LEMMA ChunkIs ==
  ASSUME HostingIInv, NEW id, Chunk(id) # NoState
  PROVE  /\ channelIndexOf(rack, id) \in Channels /\ VoiceOf(id) # NoVoice
         /\ VoiceOf(id) = voices[channelIndexOf(rack, id)]
         /\ VoiceOf(id) \in HostedVoices /\ Settled(VoiceOf(id)) /\ ~VoiceOf(id).dead
         /\ Chunk(id) = VoiceOf(id).state /\ Chunk(id) \in States
<1>1. /\ channelIndexOf(rack, id) \in Channels /\ voices[channelIndexOf(rack, id)] # NoVoice
      /\ ~voices[channelIndexOf(rack, id)].dead
      /\ Chunk(id) = voices[channelIndexOf(rack, id)].state
  BY DEF Chunk
<1>2. /\ voices[channelIndexOf(rack, id)] \in HostedVoices
      /\ Settled(voices[channelIndexOf(rack, id)])
  BY <1>1 DEF HostingIInv, HostedAsPlaced, Hosting, AreVoices
<1>3. voices[channelIndexOf(rack, id)].state \in States \cup {NoState}
  BY <1>2 DEF HostedVoices
<1> QED BY <1>1, <1>2, <1>3 DEF VoiceOf

LEMMA RecordedIsRack ==
  ASSUME HostingIInv
  PROVE  /\ IsRack(Recorded) /\ DOMAIN Recorded = DOMAIN rack
         /\ \A id \in DOMAIN rack :
              /\ Recorded[id].plugin = rack[id].plugin
              /\ Chunk(id) = NoState => Recorded[id] = rack[id]
              /\ Chunk(id) # NoState => Recorded[id].ref = id /\ Recorded[id].sha = Chunk(id)
<1>1. Recorded = [id \in DOMAIN rack |-> Recorded[id]]
  BY DEF Recorded
<1>2. ASSUME NEW id \in DOMAIN rack
      PROVE  /\ Recorded[id] \in Instruments /\ Recorded[id].plugin = rack[id].plugin
             /\ Chunk(id) = NoState => Recorded[id] = rack[id]
             /\ Chunk(id) # NoState => Recorded[id].ref = id /\ Recorded[id].sha = Chunk(id)
  <2>1. rack[id] \in Instruments /\ id \in Nat
    BY DEF HostingIInv, RackIsSound, IsRack
  <2>2. CASE Chunk(id) = NoState
    BY <2>1, <2>2 DEF Recorded
  <2>3. CASE Chunk(id) # NoState
    <3>1. Recorded[id] = [rack[id] EXCEPT !.ref = id, !.sha = Chunk(id)]
      BY <2>3 DEF Recorded
    <3>2. Chunk(id) \in States
      BY <2>3, ChunkIs
    <3> QED BY <2>1, <2>3, <3>1, <3>2 DEF Instruments
  <2> QED BY <2>2, <2>3
<1>3. DOMAIN Recorded = DOMAIN rack
  BY DEF Recorded
<1>4. IsRack(Recorded)
  BY <1>1, <1>2, <1>3 DEF HostingIInv, RackIsSound, IsRack
<1> QED BY <1>2, <1>3, <1>4

\* What a save writes under a name comes from the last that writes there.
LEMMA LastWriter ==
  ASSUME HostingIInv, NEW name, Writers(name) # {}
  PROVE  Max(Writers(name)) \in Writers(name)
<1>1. nextId - 1 \in Nat
  BY DEF HostingIInv, Counted
<1>2. Writers(name) \in SUBSET (0..(nextId - 1))
  BY DEF Writers, HostingIInv, RackIsSound
<1> QED BY <1>1, <1>2, GreatestUpTo

LEMMA SidecarsAreStates ==
  ASSUME HostingIInv
  PROVE  AreStates(Sidecars)
<1>1. Sidecars = [name \in DOMAIN Sidecars |-> Sidecars[name]]
  BY DEF Sidecars
<1>2. ASSUME NEW name \in DOMAIN Sidecars
      PROVE  Sidecars[name] \in States
  <2>1. Writers(name) # {}
    BY DEF Sidecars
  <2>2. PICK last \in Writers(name) : last = Max(Writers(name))
    BY <2>1, LastWriter
  <2>3. Sidecars[name] = IF Chunk(last) # NoState THEN Chunk(last) ELSE bundle.sidecars[name]
    BY <2>2 DEF Sidecars
  <2>4. CASE Chunk(last) # NoState
    BY <2>3, <2>4, ChunkIs
  <2>5. CASE Chunk(last) = NoState
    <3>1. path /\ name \in DOMAIN bundle.sidecars
      BY <2>5 DEF Writers, Carries
    <3> QED BY <2>3, <2>5, <3>1 DEF HostingIInv, DiskIsSound, IsBundle, AreStates
  <2> QED BY <2>4, <2>5
<1> HIDE DEF Sidecars
<1> QED BY <1>1, <1>2 DEF AreStates

\* A voice of this project is that of the instrument on its channel.
LEMMA OwnInstrument ==
  ASSUME HostingIInv, NEW id \in DOMAIN rack, channelIndexOf(rack, id) \in Channels,
         Own(voices[channelIndexOf(rack, id)])
  PROVE  /\ id \in DOMAIN slots /\ ~slots[id].failed
         /\ VoiceOf(id).plugin = rack[id].plugin /\ VoiceOf(id).id = id
         /\ rack[id].plugin \in Plugins
<1>1. PICK other \in DOMAIN slots :
        /\ slots[other].channel = channelIndexOf(rack, id)
        /\ SpeaksFor(slots, other, voices[channelIndexOf(rack, id)])
  BY DEF HostingIInv, HostedAsPlaced, Hosting, Spoken
<1>2. /\ isHosted(rack, other) /\ slots[other].plugin = rack[other].plugin
      /\ slots[other].channel = channelIndexOf(rack, other)
  BY DEF HostingIInv, HostedAsPlaced, Fits
<1>3. other = id
  BY <1>1, <1>2, RanksDiffer DEF isHosted, HostingIInv, RackIsSound
<1> QED BY <1>1, <1>2, <1>3 DEF SpeaksFor, VoiceOf, isHosted

LEMMA SavedIsSound ==
  ASSUME HostingIInv, NEW id \in DOMAIN rack, Chunk(id) # NoState, ~VoiceOf(id).left
  PROVE  /\ rack[id].plugin \in Plugins
         /\ rack[id].plugin \notin Unavailable => Chunk(id).plugin = rack[id].plugin
         /\ \/ \E other \in DOMAIN rack \ {id} : Recorded[other].ref = id
            \/ id \in DOMAIN Sidecars /\ Sidecars[id] = Chunk(id)
<1>1. /\ channelIndexOf(rack, id) \in Channels /\ Own(voices[channelIndexOf(rack, id)])
      /\ VoiceOf(id) \in HostedVoices /\ Settled(VoiceOf(id)) /\ Chunk(id) = VoiceOf(id).state
  BY ChunkIs DEF Own
<1>2. VoiceOf(id).plugin = rack[id].plugin /\ rack[id].plugin \in Plugins
  BY <1>1, OwnInstrument
<1>3. rack[id].plugin \notin Unavailable => Chunk(id).plugin = rack[id].plugin
  BY <1>1, <1>2 DEF Settled
<1>4. ASSUME ~ \E other \in DOMAIN rack \ {id} : Recorded[other].ref = id
      PROVE  id \in DOMAIN Sidecars /\ Sidecars[id] = Chunk(id)
  <2>1. \A other \in DOMAIN rack \ {id} : ~(Carries(other) /\ rack[other].ref = id)
    BY <1>4, RecordedIsRack DEF Carries
  <2>2. Writers(id) = {id}
    BY <2>1 DEF Writers
  <2>3. Max(Writers(id)) = id
    BY <2>2, GreatestOfOne DEF HostingIInv, RackIsSound, IsRack
  <2> QED BY <2>2, <2>3 DEF Sidecars
<1> QED BY <1>2, <1>3, <1>4

LEMMA SameRanks ==
  ASSUME NEW r, NEW other, DOMAIN r = DOMAIN other, NEW id
  PROVE  channelIndexOf(r, id) = channelIndexOf(other, id)
BY DEF channelIndexOf

LEMMA SaveStep ==
  ASSUME HostingIInv, project_save
  PROVE  HostingIInv'
<1>1. rack' = Recorded /\ nextId' = nextId /\ deeds' = deeds
  BY DEF project_save
<1>2. /\ IsRack(Recorded) /\ DOMAIN Recorded = DOMAIN rack
      /\ \A id \in DOMAIN rack :
           /\ Recorded[id].plugin = rack[id].plugin
           /\ Chunk(id) = NoState => Recorded[id] = rack[id]
           /\ Chunk(id) # NoState => Recorded[id].ref = id /\ Recorded[id].sha = Chunk(id)
  BY RecordedIsRack
<1>3. RackIsSound'
  BY <1>1, <1>2 DEF HostingIInv, RackIsSound
<1>4. Fits(Recorded, slots)
  BY <1>2, SameRanks DEF HostingIInv, HostedAsPlaced, Fits, isHosted
<1>5. Hosting(slots, voices', awaiting)
  <2>1. voices' = [channel \in Channels |-> voices'[channel]]
    BY DEF project_save
  <2>2. ASSUME NEW channel \in Channels,
               NEW id \in DOMAIN rack, channelIndexOf(rack, id) = channel, Chunk(id) # NoState
        PROVE  /\ voices[channel] \in HostedVoices /\ Settled(voices[channel])
               /\ voices[channel].state \in States
               /\ loadHostedState(voices[channel], voices[channel].state)
               /\ voices'[channel] = Given(voices[channel], voices[channel].state)
    <3>1. /\ voices[channel] # NoVoice /\ voices[channel] \in HostedVoices
          /\ Settled(voices[channel]) /\ ~voices[channel].dead
          /\ voices[channel].state \in States
      BY <2>2, ChunkIs
    <3>2. voices'[channel] = Given(voices[channel], voices[channel].state)
      BY <2>2 DEF project_save
    <3> QED BY <3>1, <3>2 DEF loadHostedState, Settled
  <2>3. ASSUME NEW channel \in Channels,
               ~ \E id \in DOMAIN rack : channelIndexOf(rack, id) = channel /\ Chunk(id) # NoState
        PROVE  voices'[channel] = voices[channel]
    BY <2>3 DEF project_save
  <2>4. \A channel \in Channels :
          /\ voices[channel] = NoVoice => voices'[channel] = NoVoice
          /\ voices[channel] # NoVoice =>
               /\ voices[channel] \in HostedVoices /\ Settled(voices[channel])
    BY <2>2, <2>3, HostingAssumption DEF HostingIInv, HostedAsPlaced, Hosting, AreVoices
  <2>5. ASSUME NEW channel \in Channels, voices[channel] # NoVoice
        PROVE  /\ voices'[channel] \in HostedVoices
               /\ voices'[channel] # NoVoice /\ Settled(voices'[channel])
               /\ voices'[channel].id = voices[channel].id
               /\ voices'[channel].plugin = voices[channel].plugin
               /\ voices'[channel].missing = voices[channel].missing
               /\ voices'[channel].left = voices[channel].left
    <3>1. CASE \E id \in DOMAIN rack : channelIndexOf(rack, id) = channel /\ Chunk(id) # NoState
      BY <3>1, <2>2, GivenIs
    <3>2. CASE ~ \E id \in DOMAIN rack : channelIndexOf(rack, id) = channel /\ Chunk(id) # NoState
      BY <3>2, <2>3, <2>4, <2>5
    <3> QED BY <3>1, <3>2
  <2>6. PICK other : other = voices'
    OBVIOUS
  <2>7. other \in [Channels -> HostedVoices \cup {NoVoice}]
    BY <2>1, <2>4, <2>5, <2>6
  <2>8. Hosting(slots, other, awaiting)
    BY <2>4, <2>5, <2>6, <2>7, AlikeHosting DEF HostingIInv, HostedAsPlaced
  <2> QED BY <2>6, <2>8
<1>6. HostedAsPlaced'
  BY <1>1, <1>4, <1>5 DEF HostedAsPlaced, project_save
<1>7. DiskIsSound'
  <2> DEFINE heard == {id \in DOMAIN rack : Chunk(id) # NoState /\ ~VoiceOf(id).left}
  <2>1. /\ bundle'.rack = Recorded /\ bundle'.sidecars = Sidecars
        /\ bundle'.sounded = [id \in heard |-> Chunk(id)]
    BY DEF project_save
  <2>2. \A id \in heard : /\ id \in DOMAIN rack /\ Chunk(id) \in States
                          /\ rack[id].plugin \in Plugins
                          /\ rack[id].plugin \notin Unavailable => Chunk(id).plugin = rack[id].plugin
                          /\ \/ \E other \in DOMAIN rack \ {id} : Recorded[other].ref = id
                             \/ id \in DOMAIN Sidecars /\ Sidecars[id] = Chunk(id)
    BY ChunkIs, SavedIsSound
  <2>3. \A id \in heard : Recorded[id].ref = id /\ Recorded[id].sha = Chunk(id)
                          /\ Recorded[id].plugin = rack[id].plugin
    BY <1>2
  <2>4. AreStates(Sidecars) /\ DOMAIN rack \subseteq 1..(nextId - 1)
    BY SidecarsAreStates DEF HostingIInv, RackIsSound
  <2> HIDE DEF heard
  <2>5. PICK b : b = bundle'
    OBVIOUS
  <2>6. IsBundle(b)
    BY <2>1, <2>2, <2>3, <1>2, <2>4, <2>5 DEF IsBundle
  <2>7. IsBundle(bundle)'
    BY <1>1, <2>5, <2>6 DEF IsBundle
  <2> QED BY <2>7 DEF DiskIsSound
<1>8. HistoryIsOfIds'
  BY <1>1 DEF HostingIInv, HistoryIsOfIds, EntriesOf, project_save
<1> QED BY <1>1, <1>3, <1>6, <1>7, <1>8 DEF HostingIInv, Counted

\* When a project is closed, no voice is of the one that is open.
LEMMA VoicesLeftHosting ==
  ASSUME HostingIInv, NEW waiting, AreStates(waiting)
  PROVE  Hosting(<<>>, VoicesLeft, waiting)
<1>1. VoicesLeft = [channel \in Channels |-> VoicesLeft[channel]]
  BY DEF VoicesLeft
<1>2. ASSUME NEW channel \in Channels, VoicesLeft[channel] # NoVoice
      PROVE  /\ VoicesLeft[channel] \in HostedVoices /\ Settled(VoicesLeft[channel])
             /\ VoicesLeft[channel].left
  <2>1. /\ VoicesLeft[channel] = [voices[channel] EXCEPT !.left = TRUE]
        /\ voices[channel] \in HostedVoices /\ Settled(voices[channel])
    BY <1>2 DEF VoicesLeft, HostingIInv, HostedAsPlaced, Hosting, AreVoices
  <2> QED BY <2>1 DEF HostedVoices, Settled
<1>3. AreVoices(VoicesLeft)
  BY <1>1, <1>2 DEF AreVoices
<1>4. AreSlots(<<>>) /\ Apart(<<>>) /\ Voiced(<<>>, VoicesLeft)
  BY DEF AreSlots, Apart, Voiced
<1>5. Spoken(<<>>, VoicesLeft) /\ Unanswered(VoicesLeft, waiting)
  BY <1>2 DEF Spoken, Unanswered, Own
<1> QED BY <1>3, <1>4, <1>5 DEF Hosting

LEMMA EmptyIsSound ==
  IsRack(<<>>) /\ AreStates(<<>>) /\ DOMAIN <<>> = {} /\ \A S : <<>> \in Seq(S)
BY FS_EmptySet DEF IsRack, AreStates

LEMMA NewStep ==
  ASSUME HostingIInv, project_new
  PROVE  HostingIInv'
<1>1. /\ rack' = <<>> /\ slots' = <<>> /\ awaiting' = <<>> /\ voices' = VoicesLeft
      /\ done' = <<>> /\ undone' = <<>> /\ nextId' = nextId /\ deeds' = deeds
  BY DEF project_new
<1>2. RackIsSound' /\ HistoryIsOfIds'
  BY <1>1, EmptyIsSound DEF RackIsSound, HistoryIsOfIds
<1>3. HostedAsPlaced'
  <2>1. Hosting(<<>>, VoicesLeft, <<>>)
    BY VoicesLeftHosting, EmptyIsSound
  <2>2. Fits(<<>>, <<>>)
    BY EmptyIsSound DEF Fits
  <2> QED BY <1>1, <2>1, <2>2 DEF HostedAsPlaced
<1>4. DiskIsSound'
  BY DiskStays DEF HostingIInv, Counted, project_new
<1> QED BY <1>1, <1>2, <1>3, <1>4 DEF HostingIInv, Counted

\* The settings that wait when a bundle is opened.
WaitingIn(b) ==
  [id \in {id \in DOMAIN b.rack : StateIn(b, id)} |-> b.sidecars[b.rack[id].ref]]

LEMMA WaitingAreStates ==
  ASSUME NEW b, AreStates(b.sidecars)
  PROVE  AreStates(WaitingIn(b))
BY DEF WaitingIn, StateIn, AreStates

LEMMA OpenStep ==
  ASSUME HostingIInv, project_open
  PROVE  HostingIInv'
<1>1. /\ rack' = bundle.rack /\ done' = <<>> /\ undone' = <<>> /\ nextId' = nextId
      /\ deeds' = deeds /\ bundle' = bundle /\ bundle # NoBundle
  BY DEF project_open
<1>2. IsBundle(bundle)
  BY <1>1 DEF HostingIInv, DiskIsSound
<1>3. RackIsSound' /\ HistoryIsOfIds'
  BY <1>1, <1>2, EmptyIsSound DEF IsBundle, RackIsSound, HistoryIsOfIds
<1>4. PICK failing : Settle(bundle.rack, <<>>, VoicesLeft, WaitingIn(bundle), failing)
  BY DEF project_open, WaitingIn
<1>5. HostedAsPlaced'
  <2>1. Hosting(<<>>, VoicesLeft, WaitingIn(bundle))
    BY <1>2, WaitingAreStates, VoicesLeftHosting DEF IsBundle
  <2> QED BY <1>1, <1>2, <1>4, <2>1, PublishedHosting DEF HostedAsPlaced, IsBundle, Settle
<1>6. DiskIsSound'
  BY <1>1, <1>2 DEF DiskIsSound, IsBundle
<1> QED BY <1>1, <1>3, <1>5, <1>6 DEF HostingIInv, Counted

LEMMA OpenFailsStep ==
  ASSUME HostingIInv, project_open_fails
  PROVE  HostingIInv'
<1>1. Hosting(slots, voices, <<>>)
  BY EmptyIsSound DEF HostingIInv, HostedAsPlaced, Hosting, Unanswered
<1> QED BY <1>1 DEF HostingIInv, Counted, RackIsSound, HistoryIsOfIds, EntriesOf, HostedAsPlaced,
                    DiskIsSound, IsBundle, project_open_fails

LEMMA HostingStep ==
  ASSUME HostingIInv, [HostingNext]_hostVars
  PROVE  HostingIInv'
<1>1. nextId \in Nat \ {0}
  BY DEF HostingIInv, Counted
<1>2. \A id \in DOMAIN rack : id \in 1..(nextId - 1) /\ rack[id] \in Written
  BY DEF HostingIInv, RackIsSound, IsRack, Written
<1>3. \A plugin \in Plugins \cup {Sample} : NewRecord(plugin) \in Written
  BY NewRecordIsWritten
<1>4. CASE AddSample
  <2>1. nextId' = nextId + 1 /\ executeModel(nextId, NewRecord(Sample), "none") /\ elsewhere
    BY <1>4 DEF AddSample
  <2>2. nextId \in 1..(nextId' - 1) /\ nextId' \in Nat /\ nextId <= nextId'
    BY <1>1, <2>1
  <2> QED BY <1>3, <2>1, <2>2, EditStep
<1>5. ASSUME NEW plugin \in Plugins, instance_add(plugin)
      PROVE  HostingIInv'
  <2>1. nextId' = nextId + 1 /\ Deed /\ TriesToHost(nextId, NewRecord(plugin), "none") /\ elsewhere
    BY <1>5 DEF instance_add
  <2>2. nextId \in 1..(nextId' - 1) /\ nextId' \in Nat /\ nextId <= nextId'
    BY <1>1, <2>1
  <2> QED BY <1>3, <2>1, <2>2, TryStep
<1>6. ASSUME NEW id \in DOMAIN rack, NEW plugin \in Plugins, instrument_replace(id, plugin)
      PROVE  HostingIInv'
  <2>1. nextId' = nextId /\ Deed /\ TriesToHost(id, NewRecord(plugin), "plugin") /\ elsewhere
    BY <1>6 DEF instrument_replace
  <2> QED BY <1>1, <1>2, <1>3, <2>1, TryStep
<1>7. ASSUME NEW id \in DOMAIN rack,
             NEW record \in Written, NEW field \in {"none", "plugin", "muted"},
             executeModel(id, record, field), nextId' = nextId, elsewhere
      PROVE  HostingIInv'
  BY <1>1, <1>2, <1>7, EditStep
<1>8. ASSUME NEW id \in DOMAIN rack, instrument_duplicate(id)
      PROVE  HostingIInv'
  <2>1. nextId' = nextId + 1 /\ executeModel(nextId, rack[id], "none") /\ elsewhere
    BY <1>8 DEF instrument_duplicate
  <2>2. nextId \in 1..(nextId' - 1) /\ nextId' \in Nat /\ nextId <= nextId'
    BY <1>1, <2>1
  <2> QED BY <1>2, <2>1, <2>2, EditStep
<1>9. ASSUME NEW id \in DOMAIN rack,
             \/ instrument_replace_sample(id) \/ instrument_remove(id) \/ EditInstrument(id)
      PROVE  HostingIInv'
  <2>1. NoInstrument \in Written
    BY DEF Written
  <2>2. CASE instrument_replace_sample(id)
    BY <1>3, <1>7, <2>2 DEF instrument_replace_sample
  <2>3. CASE instrument_remove(id)
    BY <1>7, <2>1, <2>3 DEF instrument_remove
  <2>4. CASE EditInstrument(id)
    BY <1>2, <1>7, <2>4 DEF EditInstrument
  <2> QED BY <1>9, <2>2, <2>3, <2>4
<1>10. CASE UNCHANGED hostVars
  <2>1. /\ nextId' = nextId /\ deeds' = deeds /\ rack' = rack /\ done' = done /\ undone' = undone
        /\ slots' = slots /\ voices' = voices /\ awaiting' = awaiting
        /\ path' = path /\ bundle' = bundle
    BY <1>10 DEF hostVars
  <2> QED BY <2>1 DEF HostingIInv, Counted, RackIsSound, HistoryIsOfIds, EntriesOf, HostedAsPlaced,
                      DiskIsSound, IsBundle
<1> QED BY <1>4, <1>5, <1>6, <1>8, <1>9, <1>10, TweakStep, DeathStep, RestartStep, UndoStep,
           RedoStep, SaveStep, NewStep, OpenStep, OpenFailsStep DEF HostingNext

LEMMA HostingStarts ==
  ASSUME HostingInit
  PROVE  HostingIInv
<1>1. RackIsSound /\ HistoryIsOfIds
  BY EmptyIsSound DEF HostingInit, RackIsSound, HistoryIsOfIds
<1>2. HostedAsPlaced
  BY EmptyIsSound DEF HostingInit, HostedAsPlaced, Fits, Hosting, AreSlots, Apart, AreVoices, Spoken,
                      Voiced, Unanswered, Own
<1> QED BY <1>1, <1>2 DEF HostingInit, HostingIInv, Counted, DiskIsSound

LEMMA PlacedIsOwn ==
  ASSUME HostingIInv
  PROVE  OwnVoiceUnlessLeftOver
<1>1. \A channel \in Channels : Own(voices[channel]) =>
        \E id \in DOMAIN slots : /\ channelIndexOf(rack, id) = channel /\ ~slots[id].failed
                                 /\ voices[channel].plugin = rack[id].plugin
                                 /\ voices[channel].id = id
  BY DEF HostingIInv, HostedAsPlaced, Fits, Hosting, Spoken, SpeaksFor
<1>2. \A id \in DOMAIN slots : ~slots[id].failed => Sounds(id)
  BY DEF HostingIInv, HostedAsPlaced, Fits, Hosting, Voiced, AreSlots, Slots, Sounds
<1> QED BY <1>1, <1>2 DEF OwnVoiceUnlessLeftOver

(* A channel sounds through the plug-in of the instrument that is there,    *)
(* unless its voice is left over from a project that was closed, and a      *)
(* plug-in that was hosted has a voice where its instrument is, whatever    *)
(* was added, replaced, removed, undone, saved and opened before            *)
(* (abi/onebeat_abi.cpp, syncHostedInstruments).                            *)
THEOREM HostedOnItsOwnChannel == HostingSpec => []OwnVoiceUnlessLeftOver
<1>1. HostingInit => HostingIInv
  BY HostingStarts
<1>2. HostingIInv /\ [HostingNext]_hostVars => HostingIInv'
  BY HostingStep
<1>3. HostingIInv => OwnVoiceUnlessLeftOver
  BY PlacedIsOwn
<1> QED BY <1>1, <1>2, <1>3, PTL DEF HostingSpec

-----------------------------------------------------------------------------
(* The settings of a plug-in *)

LEMMA SlotOfSounding ==
  ASSUME HostingIInv, NEW id, Sounds(id)
  PROVE  /\ id \in DOMAIN slots /\ AreSlots(slots) /\ slots[id].plugin = rack[id].plugin
         /\ rack[id].plugin \in Plugins /\ slots[id].channel = channelIndexOf(rack, id)
         /\ VoiceOf(id) = voices[slots[id].channel] /\ channelIndexOf(rack, id) \in Channels
BY DEF HostingIInv, HostedAsPlaced, Hosting, Fits, isHosted, Sounds, VoiceOf

\* An instrument that keeps its plug-in keeps its slot.
LEMMA SlotGoes ==
  ASSUME NEW r, NEW held, NEW id \in DOMAIN held, id \in DOMAIN r, r[id].plugin = held[id].plugin,
         held[id].plugin \in Plugins, channelIndexOf(r, id) \in Channels
  PROVE  Destination(r, held, id) \in Channels
BY DEF Destination, isHosted

LEMMA KeptBySettling ==
  ASSUME HostingIInv, NEW r, IsRack(r), rack' = r, NEW failing,
         Settle(r, slots, voices, awaiting, failing),
         NEW id \in DOMAIN rack, id \in DOMAIN r, rack[id].plugin = r[id].plugin,
         Sounds(id), SoundsItself(id)'
  PROVE  VoiceOf(id)'.state = VoiceOf(id).state
<1>1. /\ id \in DOMAIN slots /\ slots[id].plugin = r[id].plugin /\ slots[id].plugin \in Plugins
      /\ VoiceOf(id) = voices[slots[id].channel]
  BY SlotOfSounding
<1>2. /\ channelIndexOf(r, id) \in Channels /\ Own(voices'[channelIndexOf(r, id)])
      /\ VoiceOf(id)' = voices'[channelIndexOf(r, id)]
  BY DEF SoundsItself, Sounds, VoiceOf
<1>3. voices' = Published(r, slots, voices, awaiting, failing).voices
  BY DEF Settle
<1>4. Destination(r, slots, id) \in Channels
  BY <1>1, <1>2, SlotGoes
<1>5. Hosting(slots, voices, awaiting)
  BY DEF HostingIInv, HostedAsPlaced
<1> QED BY <1>1, <1>2, <1>3, <1>4, <1>5, PublishedKeeps

\* ... and does so when another plug-in was tried and taken back.
LEMMA KeptByTrying ==
  ASSUME HostingIInv, NEW tried \in DOMAIN rack, NEW plugin \in Plugins,
         instrument_replace(tried, plugin), NEW id \in DOMAIN rack, id \in DOMAIN rack',
         rack[id].plugin = rack'[id].plugin, Sounds(id), SoundsItself(id)'
  PROVE  Replaced(id) \/ VoiceOf(id)'.state = VoiceOf(id).state
<1> DEFINE record == NewRecord(plugin)
           r == RackWith(rack, tried, record)
           entries == Record(tried, RecordOf(rack, tried), record, "plugin")
           back == TakenBack(entries, r)
<1>1. /\ nextId \in Nat /\ nextId' = nextId /\ deeds' # deeds /\ TriesToHost(tried, record, "plugin")
      /\ tried \in 1..(nextId - 1) /\ tried \in Nat \ {0}
  BY DEF HostingIInv, Counted, RackIsSound, instrument_replace, Deed
<1>2. record \in Written /\ record # NoInstrument
  <2>1. record \in Instruments
    BY DEF NewRecord, NoRef, Instruments
  <2> QED BY <2>1, HostingAssumption DEF Written
<1>3. IsRack(r) /\ \A other \in DOMAIN r : other # tried => r[other] = rack[other]
  BY <1>1, <1>2, RackWithIsRack DEF HostingIInv, RackIsSound
<1>4. DOMAIN r = DOMAIN rack
  BY <1>2 DEF RackWith
<1>5. entries \in Seq(EntriesOf(nextId)) /\ entries # <<>> /\ Last(entries).id = tried
      /\ Last(entries).field = "plugin"
  <2>1. RecordOf(rack, tried) \in Written /\ done \in Seq(EntriesOf(nextId))
    BY RecordOfIsWritten DEF HostingIInv, RackIsSound, HistoryIsOfIds
  <2>2. Leaves(nextId, tried, RecordOf(rack, tried), "plugin", entries)
    BY <1>1, <1>2, <2>1, RecordLeaves
  <2> HIDE DEF entries
  <2> QED BY <2>2 DEF Leaves
<1>6. /\ IsRack(back)
      /\ \A other \in DOMAIN back : other # tried => other \in DOMAIN r /\ back[other] = r[other]
  <2>1. DOMAIN r \subseteq 1..(nextId - 1)
    BY <1>4 DEF HostingIInv, RackIsSound
  <2> HIDE DEF r, entries
  <2> QED BY <1>1, <1>3, <1>5, <2>1, TakenBackIsRack
<1>7. PICK failing : LET p == Published(r, slots, voices, awaiting, failing)
                     IN \/ Settle(r, slots, voices, awaiting, failing) /\ rack' = r
                        \/ /\ \E again : Settle(back, p.slots, p.voices, p.pending, again)
                           /\ rack' = back /\ undone' = <<Last(entries)>>
  BY <1>1 DEF TriesToHost
<1>8. CASE Settle(r, slots, voices, awaiting, failing) /\ rack' = r
  <2> HIDE DEF r
  <2> QED BY <1>3, <1>8, KeptBySettling
<1>9. ASSUME NEW p, p = Published(r, slots, voices, awaiting, failing),
             NEW again, Settle(back, p.slots, p.voices, p.pending, again),
             rack' = back, undone' = <<Last(entries)>>
      PROVE  Replaced(id) \/ VoiceOf(id)'.state = VoiceOf(id).state
  <2> HIDE DEF r, back, entries
  <2>1. CASE id = tried
    <3>1. undone' # <<>> /\ Last(undone') = Last(entries)
      BY <1>9 DEF Last
    <3> QED BY <1>1, <1>5, <2>1, <3>1 DEF Replaced
  <2>2. CASE id # tried
    <3>1. id \in DOMAIN r /\ r[id] = rack[id] /\ back[id] = rack[id] /\ id \in DOMAIN back
      BY <1>3, <1>6, <1>9, <2>2
    <3>2. /\ id \in DOMAIN slots /\ AreSlots(slots) /\ slots[id].plugin = rack[id].plugin
          /\ slots[id].plugin \in Plugins /\ VoiceOf(id) = voices[slots[id].channel]
          /\ channelIndexOf(r, id) \in Channels
      BY <1>4, SlotOfSounding, SameRanks
    <3>3. Destination(r, slots, id) \in Channels
      BY <3>1, <3>2, SlotGoes
    <3>4. /\ id \in DOMAIN p.slots /\ p.slots[id].plugin = slots[id].plugin
          /\ p.slots[id].channel = channelIndexOf(r, id)
      BY <1>9, <3>2, <3>3, PublishedSlot
    <3>5. Hosting(slots, voices, awaiting) /\ Hosting(p.slots, p.voices, p.pending)
      BY <1>3, <1>9, PublishedHosting DEF HostingIInv, HostedAsPlaced
    <3>6. /\ channelIndexOf(back, id) \in Channels /\ Own(voices'[channelIndexOf(back, id)])
          /\ VoiceOf(id)' = voices'[channelIndexOf(back, id)]
      BY <1>9 DEF SoundsItself, Sounds, VoiceOf
    <3>7. Destination(back, p.slots, id) \in Channels
      BY <3>1, <3>2, <3>4, <3>6, SlotGoes
    <3>8. voices' = Published(back, p.slots, p.voices, p.pending, again).voices
      BY <1>9 DEF Settle
    <3>9. /\ Own(p.voices[channelIndexOf(r, id)])
          /\ voices'[channelIndexOf(back, id)].state = p.voices[channelIndexOf(r, id)].state
      BY <1>6, <3>4, <3>5, <3>6, <3>7, <3>8, PublishedKeeps
    <3>10. p.voices[channelIndexOf(r, id)].state = voices[slots[id].channel].state
      BY <1>3, <1>9, <3>2, <3>3, <3>5, <3>9, PublishedKeeps
    <3> QED BY <3>2, <3>6, <3>9, <3>10
  <2> QED BY <2>1, <2>2
<1> QED BY <1>7, <1>8, <1>9

\* One publish, and the rack is what was published.
PublishesOnce == \E r, failing : rack' = r /\ Settle(r, slots, voices, awaiting, failing)

LEMMA KeptByPublishing ==
  ASSUME HostingIInv, HostingIInv', PublishesOnce,
         NEW id \in DOMAIN rack, id \in DOMAIN rack', rack[id].plugin = rack'[id].plugin,
         Sounds(id), SoundsItself(id)'
  PROVE  VoiceOf(id)'.state = VoiceOf(id).state
<1>1. PICK r, failing : rack' = r /\ Settle(r, slots, voices, awaiting, failing)
  BY DEF PublishesOnce
<1>2. IsRack(r)
  BY <1>1 DEF HostingIInv, RackIsSound
<1> QED BY <1>1, <1>2, KeptBySettling

LEMMA KeptBySaving ==
  ASSUME HostingIInv, project_save, NEW id \in DOMAIN rack, Sounds(id)
  PROVE  VoiceOf(id)'.state = VoiceOf(id).state
<1>1. rack' = Recorded /\ DOMAIN Recorded = DOMAIN rack
  BY RecordedIsRack DEF project_save
<1>2. channelIndexOf(rack', id) = channelIndexOf(rack, id)
  BY <1>1, SameRanks
<1> DEFINE channel == channelIndexOf(rack, id)
<1>3. /\ channel \in Channels /\ voices[channel] \in HostedVoices
      /\ VoiceOf(id) = voices[channel] /\ VoiceOf(id)' = voices'[channel]
  BY <1>2, SoundingVoice DEF VoiceOf
<1>4. voices'[channel] = Given(voices[channel], voices[channel].state)
      \/ voices'[channel] = voices[channel]
  BY <1>3 DEF project_save
<1> HIDE DEF channel
<1>5. Given(voices[channel], voices[channel].state).state = voices[channel].state
  BY <1>3 DEF Given, HostedVoices
<1> QED BY <1>3, <1>4, <1>5

\* A plug-in that could not be hosted is taken back with its instrument.
LEMMA AddedOrNot ==
  ASSUME HostingIInv, NEW plugin \in Plugins, instance_add(plugin)
  PROVE  rack' = rack \/ PublishesOnce
<1> DEFINE record == NewRecord(plugin)
           r == RackWith(rack, nextId, record)
           entries == Record(nextId, RecordOf(rack, nextId), record, "none")
           back == TakenBack(entries, r)
           new == [id |-> nextId, before |-> NoInstrument, after |-> record, field |-> "none"]
<1>1. nextId \in Nat \ {0} /\ nextId \notin DOMAIN rack
  BY DEF HostingIInv, Counted, RackIsSound
<1>2. record # NoInstrument
  <2>1. record \in Instruments
    BY DEF NewRecord, NoRef, Instruments
  <2> QED BY <2>1, HostingAssumption
<1>3. entries = Append(done, new)
  BY <1>1 DEF Record, RecordOf
<1>4. Last(entries) = new
  <2> HIDE DEF new, entries
  <2>1. done \in Seq(EntriesOf(nextId))
    BY DEF HostingIInv, HistoryIsOfIds
  <2> QED BY <1>3, <2>1 DEF Last
<1>5. back = Restrict(r, DOMAIN r \ {nextId})
  BY <1>4, SMTT(30) DEF TakenBack, RackWith
<1>6. r = [other \in DOMAIN rack \cup {nextId} |-> IF other = nextId THEN record ELSE rack[other]]
  BY <1>2 DEF RackWith
<1>7. rack = [other \in DOMAIN rack |-> rack[other]]
  BY DEF HostingIInv, RackIsSound, IsRack
<1>8. back = rack
  <2> HIDE DEF r, back, record
  <2> QED BY <1>1, <1>5, <1>6, <1>7 DEF Restrict
<1>9. \/ \E failing : Settle(r, slots, voices, awaiting, failing) /\ rack' = r
      \/ rack' = back
  BY DEF instance_add, TriesToHost
<1> QED BY <1>8, <1>9 DEF PublishesOnce

LEMMA RackSteps ==
  ASSUME HostingNext, rack' # rack, project' = project, project \in Nat, HostingIInv
  PROVE  \/ PublishesOnce \/ project_save
         \/ \E id \in DOMAIN rack, plugin \in Plugins : instrument_replace(id, plugin)
<1>1. ASSUME NEW id, NEW record, NEW field, executeModel(id, record, field)
      PROVE  PublishesOnce
  BY <1>1 DEF executeModel, publishModel, PublishesOnce
<1>2. CASE AddSample
  BY <1>1, <1>2 DEF AddSample
<1>3. ASSUME NEW plugin \in Plugins, instance_add(plugin)
      PROVE  PublishesOnce
  BY <1>3, AddedOrNot
<1>4. ASSUME NEW id \in DOMAIN rack,
             \/ instrument_replace_sample(id) \/ instrument_remove(id) \/ instrument_duplicate(id)
             \/ EditInstrument(id)
      PROVE  PublishesOnce
  BY <1>1, <1>4 DEF instrument_replace_sample, instrument_remove, instrument_duplicate, EditInstrument
<1>5. ASSUME NEW id, Tweak(id) \/ HelperDies(id) \/ instance_restart(id)
      PROVE  FALSE
  BY <1>5 DEF Tweak, HelperDies, instance_restart, onlyVoices
<1>6. CASE project_undo \/ project_redo
  BY <1>6 DEF project_undo, project_redo, publishModel, PublishesOnce
<1>7. CASE project_new \/ project_open \/ project_open_fails
  BY <1>7 DEF project_new, project_open, project_open_fails
<1> QED BY <1>2, <1>3, <1>4, <1>5, <1>6, <1>7 DEF HostingNext

StaysAcross ==
  project' = project /\ rack' # rack =>
    \A id \in DOMAIN rack \cap DOMAIN rack' :
      SoundsItself(id) /\ SoundsItself(id)' /\ rack[id].plugin = rack'[id].plugin
        => Replaced(id) \/ VoiceOf(id)'.state = VoiceOf(id).state

LEMMA SettingsStayPut ==
  ASSUME HostingIInv, HostingIInv', project \in Nat, HostingNext
  PROVE  StaysAcross
<1> SUFFICES ASSUME project' = project, rack' # rack, NEW id \in DOMAIN rack, id \in DOMAIN rack',
                    Sounds(id), SoundsItself(id)', rack[id].plugin = rack'[id].plugin
             PROVE  Replaced(id) \/ VoiceOf(id)'.state = VoiceOf(id).state
  BY DEF StaysAcross, SoundsItself
<1> QED BY RackSteps, KeptByPublishing, KeptBySaving, KeptByTrying

ReturnsFrom ==
  project' # project /\ path' =>
    \A id \in DOMAIN bundle.sounded :
      Sounds(id)' => CarriedOver(id) \/ VoiceOf(id)'.state = bundle.sounded[id]

LEMMA ReturnedByOpening ==
  ASSUME HostingIInv, project_open, NEW id \in DOMAIN bundle.sounded, Sounds(id)', ~CarriedOver(id)
  PROVE  VoiceOf(id)'.state = bundle.sounded[id]
<1> DEFINE waiting == WaitingIn(bundle)
<1>1. IsBundle(bundle) /\ rack' = bundle.rack
  BY DEF HostingIInv, DiskIsSound, project_open
<1>2. /\ id \in DOMAIN bundle.rack
      /\ bundle.rack[id].ref = id /\ bundle.rack[id].sha = bundle.sounded[id]
      /\ bundle.rack[id].plugin \notin Unavailable => bundle.sounded[id].plugin = bundle.rack[id].plugin
      /\ id \in DOMAIN bundle.sidecars /\ bundle.sidecars[id] = bundle.sounded[id]
  BY <1>1 DEF IsBundle, CarriedOver
<1>3. id # NoRef
  BY <1>1, <1>2 DEF IsBundle, IsRack, NoRef
<1>4. id \in DOMAIN waiting /\ waiting[id] = bundle.sounded[id]
  BY <1>2, <1>3 DEF WaitingIn, StateIn
<1>5. AreStates(waiting) /\ IsRack(bundle.rack)
  BY <1>1, WaitingAreStates DEF IsBundle
<1>6. PICK failing : Settle(bundle.rack, <<>>, VoicesLeft, waiting, failing)
  BY DEF project_open, WaitingIn
<1>7. /\ slots' = Published(bundle.rack, <<>>, VoicesLeft, waiting, failing).slots
      /\ voices' = Published(bundle.rack, <<>>, VoicesLeft, waiting, failing).voices
  BY <1>6 DEF Settle
<1>8. /\ id \in DOMAIN slots' /\ ~slots'[id].failed
      /\ VoiceOf(id)' = voices'[channelIndexOf(bundle.rack, id)]
  BY <1>1 DEF Sounds, VoiceOf
<1> HIDE DEF waiting
<1>9. voices'[channelIndexOf(bundle.rack, id)].state = waiting[id]
  BY <1>2, <1>4, <1>5, <1>7, <1>8, PublishedReturns
<1> QED BY <1>4, <1>8, <1>9

LEMMA ProjectSteps ==
  ASSUME HostingNext
  PROVE  project' = project \/ (project_new /\ ~path') \/ project_open
<1>1. ASSUME NEW plugin, instance_add(plugin)
      PROVE  project' = project
  BY <1>1 DEF instance_add, elsewhere
<1>2. ASSUME NEW id, NEW plugin, instrument_replace(id, plugin)
      PROVE  project' = project
  BY <1>2 DEF instrument_replace, elsewhere
<1>3. ASSUME NEW id,
             \/ instrument_replace_sample(id) \/ instrument_remove(id) \/ instrument_duplicate(id)
             \/ EditInstrument(id)
      PROVE  project' = project
  BY <1>3 DEF instrument_replace_sample, instrument_remove, instrument_duplicate, EditInstrument,
              elsewhere
<1>4. ASSUME NEW id, Tweak(id) \/ HelperDies(id) \/ instance_restart(id)
      PROVE  project' = project
  BY <1>4 DEF Tweak, HelperDies, instance_restart, onlyVoices
<1>5. CASE AddSample \/ project_undo \/ project_redo
  BY <1>5 DEF AddSample, project_undo, project_redo, elsewhere
<1>6. CASE project_save \/ project_open_fails
  BY <1>6 DEF project_save, project_open_fails
<1>7. CASE project_new
  BY <1>7 DEF project_new
<1> QED BY <1>1, <1>2, <1>3, <1>4, <1>5, <1>6, <1>7 DEF HostingNext

LEMMA SettingsComeBack ==
  ASSUME HostingIInv, HostingNext
  PROVE  ReturnsFrom
BY ProjectSteps, ReturnedByOpening DEF ReturnsFrom

(* Whatever is done to the rack, an instrument that keeps its plug-in keeps *)
(* the settings of it, wherever its channel moves, except when a plug-in    *)
(* that cannot be hosted was to take its place; and what it sounded with    *)
(* when its project was saved it sounds with when that is opened, except    *)
(* where a copy carried its settings over (abi/onebeat_abi.cpp,             *)
(* publishModel; model/project_io.cpp, saveProject and loadProject).        *)
THEOREM SettingsSurvive == HostingSpec => SettingsAreKept
<1>1. HostingInit => HostingIInv /\ project \in Nat
  <2>1. HostingInit => project \in Nat
    BY DEF HostingInit
  <2> QED BY <2>1, HostingStarts
<1>2. HostingIInv /\ project \in Nat /\ [HostingNext]_hostVars => (HostingIInv /\ project \in Nat)'
  <2> SUFFICES ASSUME HostingIInv, project \in Nat, [HostingNext]_hostVars
               PROVE  HostingIInv' /\ project' \in Nat
    OBVIOUS
  <2>1. HostingIInv'
    BY HostingStep
  <2>2. project' = project \/ project' = project + 1
    BY ProjectSteps DEF project_new, project_open, hostVars
  <2> QED BY <2>1, <2>2
<1>3. /\ HostingIInv /\ project \in Nat /\ (HostingIInv /\ project \in Nat)'
      /\ [HostingNext]_hostVars
      => [StaysAcross]_hostVars /\ [ReturnsFrom]_hostVars
  BY SettingsStayPut, SettingsComeBack
<1>4. HostingSpec => [][StaysAcross]_hostVars /\ [][ReturnsFrom]_hostVars
  BY <1>1, <1>2, <1>3, PTL DEF HostingSpec
<1> QED BY <1>4 DEF SettingsAreKept, SettingsStay, SettingsReturn, StaysAcross, ReturnsFrom
-----------------------------------------------------------------------------
(* Orders, and steps taken one after the other *)

LEMMA LeastOf ==
  ASSUME NEW some \in SUBSET Nat, some # {}
  PROVE  \E least \in some : \A n \in some : least <= n
<1>1. PICK least \in some : \A n \in some : ~(<<n, least>> \in OpToRel(<, Nat))
  <2>1. some \subseteq Nat
    OBVIOUS
  <2> QED BY <2>1, NatLessThanWellFounded, WFMin
<1>2. \A n \in some : ~(n < least)
  BY <1>1 DEF OpToRel
<1> QED BY <1>2

IsInOrder(order, ids) ==
  /\ order \in [1..Cardinality(ids) -> ids]
  /\ \A i, j \in DOMAIN order : i < j => order[i] < order[j]

AreNumbers(ids) == ids \subseteq Nat /\ IsFiniteSet(ids)

LEMMA FirstThenRest ==
  ASSUME NEW ids, AreNumbers(ids), NEW first \in ids, \A n \in ids : first <= n,
         NEW rest, IsInOrder(rest, ids \ {first})
  PROVE  \E order : IsInOrder(order, ids)
<1> DEFINE order == [i \in 1..Cardinality(ids) |-> IF i = 1 THEN first ELSE rest[i - 1]]
<1>1. /\ Cardinality(ids) \in Nat /\ Cardinality(ids \ {first}) \in Nat
      /\ Cardinality(ids \ {first}) = Cardinality(ids) - 1
  BY FS_RemoveElement, FS_CardinalityType DEF AreNumbers
<1>2. \A i \in 1..Cardinality(ids) : i # 1 => i - 1 \in 1..Cardinality(ids \ {first})
  BY <1>1
<1>3. \A i \in 1..Cardinality(ids) : i # 1 => rest[i - 1] \in ids \ {first}
  BY <1>2 DEF IsInOrder
<1>4. order \in [1..Cardinality(ids) -> ids]
  BY <1>3
<1>5. ASSUME NEW i \in DOMAIN order, NEW j \in DOMAIN order, i < j
      PROVE  order[i] < order[j]
  <2>1. i \in 1..Cardinality(ids) /\ j \in 1..Cardinality(ids) /\ j # 1
    BY <1>1, <1>5
  <2>2. CASE i = 1
    <3>1. order[i] = first /\ order[j] = rest[j - 1]
      BY <2>1, <2>2
    <3>2. order[j] \in ids \ {first}
      BY <1>3, <2>1, <3>1
    <3> HIDE DEF order
    <3>3. first <= order[j] /\ first # order[j] /\ first \in Nat /\ order[j] \in Nat
      BY <3>2 DEF AreNumbers
    <3> QED BY <3>1, <3>3
  <2>3. CASE i # 1
    <3>1. i - 1 \in 1..Cardinality(ids \ {first}) /\ j - 1 \in 1..Cardinality(ids \ {first})
      BY <1>2, <2>1, <2>3
    <3>2. i - 1 < j - 1
      BY <1>1, <1>5, <2>1
    <3> DEFINE m == i - 1
               n == j - 1
    <3>3. rest[m] < rest[n]
      <4> HIDE DEF m, n
      <4> QED BY <3>1, <3>2 DEF IsInOrder, m, n
    <3> QED BY <2>1, <2>3, <3>3
  <2> QED BY <2>2, <2>3
<1>6. IsInOrder(order, ids)
  <2> HIDE DEF order
  <2> QED BY <1>4, <1>5 DEF IsInOrder
<1> QED BY <1>6

LEMMA NumbersHaveAnOrder ==
  ASSUME NEW ids, AreNumbers(ids)
  PROVE  \E order : IsInOrder(order, ids)
<1> DEFINE without == {n \in Nat : \E s : AreNumbers(s) /\ Cardinality(s) = n
                                          /\ ~\E order : IsInOrder(order, s)}
<1>1. Cardinality(ids) \in Nat
  BY FS_CardinalityType DEF AreNumbers
<1>2. SUFFICES ASSUME without # {}
               PROVE  FALSE
  BY <1>1
<1>3. PICK n \in without : \A m \in without : n <= m
  <2>1. without \in SUBSET Nat
    OBVIOUS
  <2> HIDE DEF without
  <2> QED BY <1>2, <2>1, LeastOf
<1>4. PICK s : AreNumbers(s) /\ Cardinality(s) = n /\ ~\E order : IsInOrder(order, s)
  OBVIOUS
<1>5. s # {}
  <2>1. Cardinality({}) = 0
    BY FS_EmptySet
  <2>2. IsInOrder(<<>>, {})
    BY <2>1 DEF IsInOrder
  <2> QED BY <1>4, <2>2
<1>6. PICK first \in s : \A m \in s : first <= m
  BY <1>4, <1>5, LeastOf DEF AreNumbers
<1>7. AreNumbers(s \ {first}) /\ Cardinality(s \ {first}) = n - 1 /\ n - 1 \in Nat
  <2>1. AreNumbers(s \ {first}) /\ Cardinality(s \ {first}) = n - 1
    BY <1>4, FS_RemoveElement DEF AreNumbers
  <2> QED BY <2>1, FS_CardinalityType DEF AreNumbers
<1>8. n - 1 \notin without
  <2>1. ~(n <= n - 1)
    OBVIOUS
  <2> HIDE DEF without
  <2> QED BY <1>3, <2>1
<1>9. PICK rest : IsInOrder(rest, s \ {first})
  BY <1>7, <1>8
<1> QED BY <1>4, <1>6, <1>9, FirstThenRest

LEMMA InOrderIs ==
  ASSUME NEW ids, AreNumbers(ids)
  PROVE  /\ IsInOrder(InOrder(ids), ids)
         /\ Cardinality(ids) \in Nat
         /\ \A id \in ids : \E i \in 1..Cardinality(ids) : InOrder(ids)[i] = id
<1>1. \E order \in [1..Cardinality(ids) -> ids] :
        \A i, j \in DOMAIN order : i < j => order[i] < order[j]
  BY NumbersHaveAnOrder DEF IsInOrder
<1>2. IsInOrder(InOrder(ids), ids)
  BY <1>1 DEF IsInOrder, InOrder
<1>3. Cardinality(ids) \in Nat
  BY FS_CardinalityType DEF AreNumbers
<1> DEFINE order == InOrder(ids)
           places == 1..Cardinality(ids)
<1>4. order \in Injection(places, ids)
  <2> SUFFICES ASSUME NEW i \in places, NEW j \in places, order[i] = order[j]
               PROVE  i = j
    BY <1>2 DEF IsInOrder, Injection, IsInjective
  <2>1. order[i] \in Nat /\ order[j] \in Nat
    BY <1>2 DEF IsInOrder, AreNumbers
  <2>2. ~(i < j) /\ ~(j < i)
    BY <1>2, <2>1 DEF IsInOrder
  <2> QED BY <1>3, <2>2
<1>5. Cardinality(places) = Cardinality(ids)
  BY <1>3, FS_Interval
<1>6. order \in Surjection(places, ids)
  <2> HIDE DEF order, places
  <2> QED BY <1>4, <1>5, FS_Injection DEF AreNumbers
<1> QED BY <1>2, <1>3, <1>6 DEF Surjection

\* The numbers up to n are in order as they are.
LEMMA IntervalInOrder ==
  ASSUME NEW n \in Nat
  PROVE  AreNumbers(1..n) /\ Cardinality(1..n) = n /\ \A i \in 1..n : InOrder(1..n)[i] = i
<1>1. AreNumbers(1..n) /\ Cardinality(1..n) = n
  BY FS_Interval DEF AreNumbers
<1> DEFINE order == InOrder(1..n)
<1>2. order \in [1..n -> 1..n] /\ \A i, j \in 1..n : i < j => order[i] < order[j]
  BY <1>1, InOrderIs DEF IsInOrder
<1> HIDE DEF order
<1> DEFINE low == {i \in 1..n : order[i] < i}
           high == {m \in 0..n : \E i \in 1..n : order[i] > i /\ m = n - i}
<1>3. low = {}
  <2> SUFFICES ASSUME low # {} PROVE FALSE
    OBVIOUS
  <2>1. PICK i \in low : \A j \in low : i <= j
    <3>1. low \in SUBSET Nat
      OBVIOUS
    <3> HIDE DEF low
    <3> QED BY <3>1, LeastOf
  <2>2. order[i] \in 1..n /\ i \in 1..n /\ order[i] < i
    BY <1>2
  <2>3. order[order[i]] < order[i]
    BY <1>2, <2>2
  <2>4. order[i] \in low
    BY <2>2, <2>3
  <2> HIDE DEF low
  <2> QED BY <2>1, <2>2, <2>4
<1>4. high = {}
  <2> SUFFICES ASSUME high # {} PROVE FALSE
    OBVIOUS
  <2>1. PICK m \in high : \A k \in high : m <= k
    <3>1. high \in SUBSET Nat
      OBVIOUS
    <3> HIDE DEF high
    <3> QED BY <3>1, LeastOf
  <2>2. PICK i \in 1..n : order[i] > i /\ m = n - i
    OBVIOUS
  <2>3. order[i] \in 1..n
    BY <1>2
  <2>4. order[order[i]] > order[i]
    <3>1. i < order[i]
      BY <2>2, <2>3
    <3>2. order[order[i]] \in 1..n
      BY <1>2, <2>3
    <3> QED BY <1>2, <2>3, <3>1, <3>2
  <2>5. n - order[i] \in high
    BY <2>3, <2>4
  <2> HIDE DEF high
  <2>6. m <= n - order[i]
    BY <2>1, <2>5
  <2> QED BY <2>2, <2>3, <2>6
<1>5. ASSUME NEW i \in 1..n PROVE order[i] = i
  <2>1. order[i] \in 1..n
    BY <1>2
  <2>2. ~(order[i] < i)
    BY <1>3
  <2>3. ~(order[i] > i)
    <3>1. order[i] > i => n - i \in high
      BY <2>1
    <3> QED BY <1>4, <3>1
  <2> QED BY <2>1, <2>2, <2>3
<1> QED BY <1>1, <1>5 DEF order

LEMMA PickedWhole ==
  ASSUME NEW S, NEW s \in Seq(S)
  PROVE  PickedAt(s, DOMAIN s) = s
<1>1. DOMAIN s = 1..Len(s) /\ Len(s) \in Nat /\ s = [n \in 1..Len(s) |-> s[n]]
  OBVIOUS
<1>2. PickedAt(s, 1..Len(s)) = [n \in 1..Len(s) |-> s[n]]
  BY <1>1, IntervalInOrder DEF PickedAt
<1> QED BY <1>1, <1>2

LEMMA PickedIs ==
  ASSUME NEW S, NEW s \in Seq(S), NEW places \in SUBSET (DOMAIN s)
  PROVE  /\ PickedAt(s, places) \in Seq(S)
         /\ DOMAIN PickedAt(s, places) = 1..Cardinality(places)
         /\ \A n \in DOMAIN PickedAt(s, places) : \E i \in places : PickedAt(s, places)[n] = s[i]
         /\ places # {} => PickedAt(s, places) # <<>>
<1>1. DOMAIN s = 1..Len(s) /\ Len(s) \in Nat
  OBVIOUS
<1>2. AreNumbers(places)
  <2>1. IsFiniteSet(DOMAIN s)
    BY <1>1, FS_Interval
  <2> QED BY <1>1, <2>1, FS_Subset DEF AreNumbers
<1>3. InOrder(places) \in [1..Cardinality(places) -> places] /\ Cardinality(places) \in Nat
  BY <1>2, InOrderIs DEF IsInOrder
<1> DEFINE picked == PickedAt(s, places)
<1>4. picked = [n \in 1..Cardinality(places) |-> s[InOrder(places)[n]]]
  BY DEF PickedAt
<1>5. ASSUME NEW n \in 1..Cardinality(places)
      PROVE  picked[n] = s[InOrder(places)[n]] /\ InOrder(places)[n] \in places /\ picked[n] \in S
  <2>1. InOrder(places)[n] \in places
    BY <1>3
  <2> QED BY <1>4, <2>1
<1>6. DOMAIN picked = 1..Cardinality(places)
  BY <1>4
<1>7. picked \in [1..Cardinality(places) -> S]
  BY <1>4, <1>5, <1>6
<1>8. picked \in Seq(S)
  <2> HIDE DEF picked
  <2> QED BY <1>3, <1>7
<1>9. places # {} => Cardinality(places) # 0
  BY <1>2, FS_EmptySet DEF AreNumbers
<1>10. places # {} => picked # <<>>
  <2> SUFFICES ASSUME places # {} PROVE 1 \in DOMAIN picked
    OBVIOUS
  <2> QED BY <1>3, <1>6, <1>9
<1> QED BY <1>5, <1>6, <1>8, <1>10

-----------------------------------------------------------------------------
(* Steps that are taken one after the other *)

\* What holds at first, and after each step if it did before, holds all along.
LEMMA AllAlong ==
  ASSUME NEW n \in Nat, NEW good \in SUBSET (0..n), 0 \in good,
         \A k \in 1..n : k - 1 \in good => k \in good
  PROVE  good = 0..n
<1> DEFINE bad == (0..n) \ good
<1>1. SUFFICES ASSUME bad # {} PROVE FALSE
  OBVIOUS
<1>2. PICK k \in bad : \A j \in bad : k <= j
  <2>1. bad \in SUBSET Nat
    OBVIOUS
  <2> HIDE DEF bad
  <2> QED BY <1>1, <2>1, LeastOf
<1>3. k \in 1..n /\ k - 1 \in 0..n
  OBVIOUS
<1>4. k - 1 \notin bad
  <2>1. ~(k <= k - 1)
    BY <1>3
  <2> HIDE DEF bad
  <2> QED BY <1>2, <2>1
<1> QED BY <1>3, <1>4

IsIterated(f, n, X, first, step) ==
  /\ f \in [0..n -> X]
  /\ f[0] = first
  /\ \A k \in 1..n : f[k] = step[k][f[k - 1]]

LEMMA StepsCanBeTaken ==
  ASSUME NEW X, NEW n \in Nat, NEW step \in [1..n -> [X -> X]], NEW first \in X
  PROVE  \E f : IsIterated(f, n, X, first, step)
<1> DEFINE good == {m \in 0..n : \E f : IsIterated(f, m, X, first, step)}
<1>1. 0 \in good
  <2>1. IsIterated([k \in 0..0 |-> first], 0, X, first, step)
    BY DEF IsIterated
  <2> QED BY <2>1
<1>2. ASSUME NEW m \in 1..n, m - 1 \in good
      PROVE  m \in good
  <2>1. PICK f : IsIterated(f, m - 1, X, first, step)
    BY <1>2
  <2> DEFINE g == [k \in 0..m |-> IF k = m THEN step[m][f[m - 1]] ELSE f[k]]
  <2>2. m - 1 \in 0..(m - 1) /\ m - 1 \in Nat /\ m # 0
    OBVIOUS
  <2>3. /\ f \in [0..(m - 1) -> X] /\ f[0] = first
        /\ \A k \in 1..(m - 1) : f[k] = step[k][f[k - 1]]
    BY <2>1 DEF IsIterated
  <2>4. step[m][f[m - 1]] \in X
    <3>1. f[m - 1] \in X /\ step[m] \in [X -> X]
      BY <2>2, <2>3
    <3> QED BY <3>1
  <2>5. \A k \in 0..m : g[k] = IF k = m THEN step[m][f[m - 1]] ELSE f[k]
    OBVIOUS
  <2>6. g \in [0..m -> X]
    BY <2>2, <2>3, <2>4
  <2> HIDE DEF g
  <2>7. g[0] = first
    BY <2>2, <2>3, <2>5
  <2>8. ASSUME NEW k \in 1..m
        PROVE  g[k] = step[k][g[k - 1]]
    <3>1. k - 1 \in 0..m /\ k - 1 # m /\ k \in 0..m
      BY <2>2
    <3>2. g[k - 1] = f[k - 1]
      BY <2>5, <3>1
    <3>3. CASE k = m
      BY <2>5, <3>1, <3>2, <3>3
    <3>4. CASE k # m
      <4>1. k \in 1..(m - 1)
        BY <2>2, <3>4
      <4> QED BY <2>3, <2>5, <3>1, <3>2, <3>4, <4>1
    <3> QED BY <3>3, <3>4
  <2>9. IsIterated(g, m, X, first, step)
    BY <2>6, <2>7, <2>8 DEF IsIterated
  <2> QED BY <2>9
<1>3. good = 0..n
  <2>1. good \in SUBSET (0..n)
    OBVIOUS
  <2> HIDE DEF good
  <2> QED BY <1>1, <1>2, <2>1, AllAlong
<1> QED BY <1>3

-----------------------------------------------------------------------------
(* Walks along the outputs *)

Entity == [output : Int, chain : Seq(Int)]

AreTracks(tracks) ==
  /\ IsFiniteSet(DOMAIN tracks) /\ DOMAIN tracks \subseteq Ids
  /\ tracks \in [DOMAIN tracks -> Entity]

\* Every track but the master feeds a track that is there.
AreRouted(tracks, master) ==
  /\ AreTracks(tracks)
  /\ master \in DOMAIN tracks /\ tracks[master].output = Absent
  /\ \A t \in DOMAIN tracks \ {master} : tracks[t].output \in DOMAIN tracks

Onward(tracks, t) == IF t = Absent THEN Absent ELSE tracks[t].output

IsWalk(along, tracks, t, n) ==
  /\ along \in [0..n -> DOMAIN tracks \cup {Absent}]
  /\ along[0] = t
  /\ \A k \in 1..n : along[k] = Onward(tracks, along[k - 1])

LEMMA OnwardIs ==
  ASSUME NEW tracks, NEW master, AreRouted(tracks, master),
         NEW t \in DOMAIN tracks \cup {Absent}
  PROVE  Onward(tracks, t) \in DOMAIN tracks \cup {Absent}
BY DEF Onward, AreRouted

LEMMA WalkIsAWalk ==
  ASSUME NEW tracks, NEW master, AreRouted(tracks, master),
         NEW t \in DOMAIN tracks \cup {Absent}, NEW n \in Nat
  PROVE  \E along : IsWalk(along, tracks, t, n) /\ Walk(tracks, t, n) = along[n]
<1> DEFINE X == DOMAIN tracks \cup {Absent}
           step == [k \in 1..n |-> [x \in X |-> Onward(tracks, x)]]
<1>1. step \in [1..n -> [X -> X]]
  BY OnwardIs
<1>2. \E f : IsIterated(f, n, X, t, step)
  <2> HIDE DEF step
  <2>1. t \in X
    OBVIOUS
  <2> HIDE DEF X
  <2> QED BY <1>1, <2>1, StepsCanBeTaken
<1>3. PICK f : IsIterated(f, n, X, t, step)
  BY <1>2
<1>4. f \in [0..n -> X] /\ f[0] = t /\ \A k \in 1..n : f[k] = Onward(tracks, f[k - 1])
  <2>1. f \in [0..n -> X] /\ f[0] = t /\ \A k \in 1..n : f[k] = step[k][f[k - 1]]
    BY <1>3 DEF IsIterated
  <2>2. \A k \in 1..n : f[k - 1] \in X
    <3>1. \A k \in 1..n : k - 1 \in 0..n
      OBVIOUS
    <3> QED BY <2>1, <3>1
  <2> QED BY <2>1, <2>2
<1>5. f = [k \in 0..n |-> IF k = 0 THEN t
                          ELSE IF f[k - 1] = Absent THEN Absent ELSE tracks[f[k - 1]].output]
  <2>1. \A k \in 0..n : f[k] = IF k = 0 THEN t
                          ELSE IF f[k - 1] = Absent THEN Absent ELSE tracks[f[k - 1]].output
    BY <1>4 DEF Onward
  <2> QED BY <1>4, <2>1
<1> DEFINE where[k \in 0..n] ==
             IF k = 0 THEN t
             ELSE IF where[k - 1] = Absent THEN Absent ELSE tracks[where[k - 1]].output
<1>6. Walk(tracks, t, n) = where[n]
  BY DEF Walk
<1>7. where = [k \in 0..n |-> IF k = 0 THEN t
                           ELSE IF where[k - 1] = Absent THEN Absent ELSE tracks[where[k - 1]].output]
  BY <1>5, Zenon
<1> HIDE DEF where
<1>8. /\ where[0] = t
      /\ \A k \in 1..n : where[k] = Onward(tracks, where[k - 1])
  BY <1>7 DEF Onward
<1>9. where \in [0..n -> X]
  <2> DEFINE good == {k \in 0..n : where[k] \in X}
  <2>1. 0 \in good
    BY <1>8
  <2>2. ASSUME NEW k \in 1..n, k - 1 \in good
        PROVE  k \in good
    BY <1>8, <2>2, OnwardIs
  <2>3. good = 0..n
    <3>1. good \in SUBSET (0..n)
      OBVIOUS
    <3> HIDE DEF good
    <3> QED BY <2>1, <2>2, <3>1, AllAlong
  <2>4. \A k \in 0..n : where[k] \in X
    BY <2>3
  <2>5. DOMAIN where = 0..n /\ where = [k \in DOMAIN where |-> where[k]]
    BY <1>7
  <2> HIDE DEF X
  <2> QED BY <2>4, <2>5
<1>10. IsWalk(where, tracks, t, n)
  BY <1>8, <1>9 DEF IsWalk
<1> QED BY <1>6, <1>10

LEMMA WalksAgree ==
  ASSUME NEW tracks, NEW t, NEW n \in Nat, NEW m \in Nat,
         NEW one, IsWalk(one, tracks, t, n), NEW other, IsWalk(other, tracks, t, m),
         NEW k \in 0..n, k <= m
  PROVE  one[k] = other[k]
<1> DEFINE good == {j \in 0..k : one[j] = other[j]}
<1>1. 0 \in good
  BY DEF IsWalk
<1>2. ASSUME NEW j \in 1..k, j - 1 \in good
      PROVE  j \in good
  BY <1>2 DEF IsWalk
<1>3. good = 0..k
  <2>1. good \in SUBSET (0..k)
    OBVIOUS
  <2> HIDE DEF good
  <2> QED BY <1>1, <1>2, <2>1, AllAlong
<1> QED BY <1>3

LEMMA WalkAt ==
  ASSUME NEW tracks, NEW master, AreRouted(tracks, master),
         NEW t \in DOMAIN tracks \cup {Absent}, NEW n \in Nat,
         NEW along, IsWalk(along, tracks, t, n), NEW k \in 0..n
  PROVE  Walk(tracks, t, k) = along[k]
<1>1. k \in Nat
  OBVIOUS
<1>2. PICK other : IsWalk(other, tracks, t, k) /\ Walk(tracks, t, k) = other[k]
  BY <1>1, WalkIsAWalk
<1> QED BY <1>1, <1>2, WalksAgree

\* A walk goes on from where it was, and from where it starts.
LEMMA WalkStep ==
  ASSUME NEW tracks, NEW master, AreRouted(tracks, master),
         NEW t \in DOMAIN tracks, NEW n \in Nat
  PROVE  /\ Walk(tracks, t, 0) = t
         /\ Walk(tracks, t, n) \in DOMAIN tracks \cup {Absent}
         /\ Walk(tracks, t, n + 1) = Onward(tracks, Walk(tracks, t, n))
         /\ Walk(tracks, t, n + 1) = Walk(tracks, tracks[t].output, n)
<1>1. PICK along : IsWalk(along, tracks, t, n + 1)
  BY WalkIsAWalk
<1>2. \A k \in 0..(n + 1) : Walk(tracks, t, k) = along[k]
  BY <1>1, WalkAt
<1>3. /\ along \in [0..(n + 1) -> DOMAIN tracks \cup {Absent}] /\ along[0] = t
      /\ \A k \in 1..(n + 1) : along[k] = Onward(tracks, along[k - 1])
  BY <1>1 DEF IsWalk
<1>4. 0 \in 0..(n + 1) /\ n \in 0..(n + 1) /\ n + 1 \in 1..(n + 1) /\ (n + 1) - 1 = n
  OBVIOUS
<1>5. Walk(tracks, t, n + 1) = Onward(tracks, Walk(tracks, t, n))
  BY <1>2, <1>3, <1>4
<1> DEFINE rest == [k \in 0..n |-> along[k + 1]]
<1>6. \A k \in 0..n : k + 1 \in 0..(n + 1)
  OBVIOUS
<1>7. rest[0] = tracks[t].output
  <2>1. along[1] = Onward(tracks, along[0])
    BY <1>3
  <2>2. t # Absent
    BY DEF AreRouted, AreTracks, Ids, Absent
  <2> QED BY <1>3, <2>1, <2>2 DEF Onward
<1>8. IsWalk(rest, tracks, tracks[t].output, n)
  <2>1. rest \in [0..n -> DOMAIN tracks \cup {Absent}]
    BY <1>3, <1>6
  <2>2. ASSUME NEW k \in 1..n
        PROVE  rest[k] = Onward(tracks, rest[k - 1])
    <3>1. rest[k] = along[k + 1] /\ rest[k - 1] = along[k]
      OBVIOUS
    <3>2. k + 1 \in 1..(n + 1) /\ (k + 1) - 1 = k
      OBVIOUS
    <3> QED BY <1>3, <3>1, <3>2
  <2> QED BY <1>7, <2>1, <2>2 DEF IsWalk
<1>9. tracks[t].output \in DOMAIN tracks \cup {Absent}
  BY DEF AreRouted
<1>10. Walk(tracks, tracks[t].output, n) = rest[n]
  <2> HIDE DEF rest
  <2> QED BY <1>8, <1>9, WalkAt
<1>11. rest[n] = along[n + 1]
  OBVIOUS
<1> QED BY <1>2, <1>3, <1>4, <1>5, <1>10, <1>11

-----------------------------------------------------------------------------
(* Tracks that reach the master, by a rank that falls along the outputs *)

Falls(rank, tracks, master, some) ==
  /\ rank \in [some -> Nat]
  /\ \A t \in some \ {master} :
       tracks[t].output \in some /\ rank[tracks[t].output] < rank[t]

Anchored(tracks, master, some) ==
  /\ some \subseteq DOMAIN tracks /\ master \in some
  /\ \E rank : Falls(rank, tracks, master, some)

\* While it has not ended, a walk among anchored tracks passes through ever
\* lower ranks.
LEMMA WalkFalls ==
  ASSUME NEW tracks, NEW master, AreRouted(tracks, master),
         NEW some \in SUBSET DOMAIN tracks, NEW rank, Falls(rank, tracks, master, some),
         NEW t \in some, NEW n \in Nat, Walk(tracks, t, n) # Absent
  PROVE  \A k \in 0..n : /\ Walk(tracks, t, k) \in some
                         /\ \A j \in 0..k : j # k =>
                              /\ Walk(tracks, t, j) \in some
                              /\ rank[Walk(tracks, t, k)] < rank[Walk(tracks, t, j)]
<1> DEFINE place(k) == Walk(tracks, t, k)
<1>1. \A k \in 0..n : place(k) # Absent
  <2> DEFINE good == {k \in 0..n : place(n - k) # Absent}
  <2>1. 0 \in good
    OBVIOUS
  <2>2. ASSUME NEW k \in 1..n, k - 1 \in good
        PROVE  k \in good
    <3>1. n - k \in Nat /\ n - (k - 1) = (n - k) + 1
      OBVIOUS
    <3>2. place((n - k) + 1) = Onward(tracks, place(n - k))
      BY <3>1, WalkStep
    <3>3. place((n - k) + 1) # Absent
      BY <2>2, <3>1
    <3>4. place(n - k) # Absent
      BY <3>2, <3>3 DEF Onward
    <3> QED BY <3>4
  <2>3. good = 0..n
    <3>1. good \in SUBSET (0..n)
      OBVIOUS
    <3> HIDE DEF good
    <3> QED BY <2>1, <2>2, <3>1, AllAlong
  <2> SUFFICES ASSUME NEW k \in 0..n PROVE place(k) # Absent
    OBVIOUS
  <2>4. n - k \in 0..n /\ n - (n - k) = k
    OBVIOUS
  <2> QED BY <2>3, <2>4
<1> DEFINE low(k) == /\ place(k) \in some
                     /\ \A j \in 0..k : j # k => /\ place(j) \in some
                                                 /\ rank[place(k)] < rank[place(j)]
           falling == {k \in 0..n : low(k)}
<1>2. 0 \in falling
  <2>1. place(0) = t
    BY WalkStep
  <2>2. \A j \in 0..0 : j = 0
    OBVIOUS
  <2> QED BY <2>1, <2>2
<1>3. ASSUME NEW k \in 1..n, k - 1 \in falling
      PROVE  k \in falling
  <2>1. k - 1 \in Nat /\ k - 1 \in 0..n /\ k \in 0..n /\ (k - 1) + 1 = k
    OBVIOUS
  <2>2. place(k) = Onward(tracks, place(k - 1))
    <3>1. place((k - 1) + 1) = Onward(tracks, place(k - 1))
      BY <2>1, WalkStep
    <3> QED BY <2>1, <3>1
  <2>3. low(k - 1) /\ place(k) # Absent /\ place(k - 1) # Absent
    BY <1>1, <1>3, <2>1
  <2> HIDE DEF falling
  <2>4. place(k) = tracks[place(k - 1)].output
    BY <2>2, <2>3 DEF Onward
  <2>5. place(k - 1) # master
    BY <2>3, <2>4 DEF AreRouted
  <2>6. place(k) \in some /\ rank[place(k)] < rank[place(k - 1)]
    BY <2>3, <2>4, <2>5 DEF Falls
  <2>7. \A x \in some : rank[x] \in Nat
    BY DEF Falls
  <2>8. ASSUME NEW j \in 0..k, j # k
        PROVE  place(j) \in some /\ rank[place(k)] < rank[place(j)]
    <3>1. j \in 0..(k - 1)
      BY <2>8
    <3> HIDE DEF place
    <3>2. CASE j = k - 1
      BY <2>3, <2>6, <3>2
    <3>3. CASE j # k - 1
      <4>1. place(j) \in some /\ rank[place(k - 1)] < rank[place(j)]
        BY <2>3, <3>1, <3>3
      <4>2. rank[place(j)] \in Nat /\ rank[place(k)] \in Nat /\ rank[place(k - 1)] \in Nat
        BY <2>3, <2>6, <2>7, <4>1
      <4> QED BY <2>6, <4>1, <4>2
    <3> QED BY <3>2, <3>3
  <2> QED BY <2>6, <2>8 DEF falling
<1>4. falling = 0..n
  <2>1. falling \in SUBSET (0..n)
    OBVIOUS
  <2> HIDE DEF falling
  <2> QED BY <1>2, <1>3, <2>1, AllAlong
<1>5. \A k \in 0..n : low(k)
  BY <1>4
<1> QED BY <1>5

\* So it ends, within as many steps as there are tracks.
LEMMA AnchoredEnds ==
  ASSUME NEW tracks, NEW master, AreRouted(tracks, master),
         NEW some, Anchored(tracks, master, some),
         NEW t \in some, NEW n \in Nat, n >= Cardinality(DOMAIN tracks)
  PROVE  Walk(tracks, t, n) = Absent
<1> SUFFICES ASSUME Walk(tracks, t, n) # Absent
             PROVE  FALSE
  OBVIOUS
<1>1. PICK rank : Falls(rank, tracks, master, some)
  BY DEF Anchored
<1>2. some \subseteq DOMAIN tracks
  BY DEF Anchored
<1> DEFINE place == [k \in 0..n |-> Walk(tracks, t, k)]
<1>3. \A k \in 0..n : /\ place[k] \in some
                      /\ \A j \in 0..k : j # k => rank[place[k]] < rank[place[j]]
  <2>1. \A k \in 0..n : /\ Walk(tracks, t, k) \in some
                        /\ \A j \in 0..k : j # k =>
                             /\ Walk(tracks, t, j) \in some
                             /\ rank[Walk(tracks, t, k)] < rank[Walk(tracks, t, j)]
    BY <1>1, <1>2, WalkFalls
  <2> QED BY <2>1
<1>4. place \in [0..n -> DOMAIN tracks]
  BY <1>2, <1>3
<1> HIDE DEF place
<1>5. IsFiniteSet(DOMAIN tracks) /\ Cardinality(DOMAIN tracks) \in Nat
  BY FS_CardinalityType DEF AreRouted, AreTracks
<1>6. IsFiniteSet(0..n) /\ Cardinality(0..n) = n + 1
  BY FS_Interval
<1>7. Cardinality(DOMAIN tracks) < Cardinality(0..n)
  BY <1>5, <1>6
<1>8. PICK j, k \in 0..n : j # k /\ place[j] = place[k]
  BY <1>4, <1>5, <1>6, <1>7, FS_PigeonHole
<1>9. \A x \in some : rank[x] \in Nat
  BY <1>1 DEF Falls
<1>10. CASE j < k
  <2>1. rank[place[k]] < rank[place[j]]
    BY <1>3, <1>10
  <2> QED BY <1>3, <1>8, <1>9, <2>1
<1>11. CASE k < j
  <2>1. rank[place[j]] < rank[place[k]]
    BY <1>3, <1>11
  <2> QED BY <1>3, <1>8, <1>9, <2>1
<1> QED BY <1>8, <1>10, <1>11

Ending(tracks) == {t \in DOMAIN tracks : ~FeedsBack(tracks, t)}

LEMMA MasterEnds ==
  ASSUME NEW tracks, NEW master, AreRouted(tracks, master)
  PROVE  master \in Ending(tracks)
<1>1. Falls([t \in {master} |-> 0], tracks, master, {master})
  BY DEF Falls
<1>2. Anchored(tracks, master, {master})
  BY <1>1 DEF Anchored, AreRouted
<1>3. Cardinality(DOMAIN tracks) \in Nat
  BY FS_CardinalityType DEF AreRouted, AreTracks
<1>4. Walk(tracks, master, Cardinality(DOMAIN tracks) + 1) = Absent
  BY <1>2, <1>3, AnchoredEnds
<1> QED BY <1>4 DEF Ending, FeedsBack, AreRouted

LEMMA AnchoredIsEnding ==
  ASSUME NEW tracks, NEW master, AreRouted(tracks, master),
         NEW some, Anchored(tracks, master, some)
  PROVE  some \subseteq Ending(tracks)
<1>1. Cardinality(DOMAIN tracks) \in Nat
  BY FS_CardinalityType DEF AreRouted, AreTracks
<1>2. ASSUME NEW t \in some PROVE Walk(tracks, t, Cardinality(DOMAIN tracks) + 1) = Absent
  BY <1>1, AnchoredEnds
<1> QED BY <1>2 DEF Ending, FeedsBack, Anchored

\* Where all walks end, the number of steps to the end is a rank.
LEMMA EndingIsAnchored ==
  ASSUME NEW tracks, NEW master, AreRouted(tracks, master)
  PROVE  Anchored(tracks, master, Ending(tracks))
<1> DEFINE N == Cardinality(DOMAIN tracks)
           ends(t) == {n \in Nat : Walk(tracks, t, n) = Absent}
           steps(t) == CHOOSE n \in ends(t) : \A m \in ends(t) : n <= m
           rank == [t \in Ending(tracks) |-> steps(t)]
<1>1. N \in Nat
  BY FS_CardinalityType DEF AreRouted, AreTracks
<1>2. \A t \in Ending(tracks) : t \in DOMAIN tracks /\ Walk(tracks, t, N + 1) = Absent
  BY DEF Ending, FeedsBack
<1>3. ASSUME NEW t \in Ending(tracks)
      PROVE  steps(t) \in ends(t) /\ \A m \in ends(t) : steps(t) <= m
  <2>1. N + 1 \in ends(t)
    BY <1>1, <1>2
  <2>2. ends(t) \in SUBSET Nat
    OBVIOUS
  <2> HIDE DEF ends
  <2>3. \E n \in ends(t) : \A m \in ends(t) : n <= m
    BY <2>1, <2>2, LeastOf
  <2> QED BY <2>3
<1>4. ASSUME NEW t \in Ending(tracks) \ {master}
      PROVE  tracks[t].output \in Ending(tracks) /\ steps(tracks[t].output) < steps(t)
  <2> DEFINE o == tracks[t].output
  <2>1. t \in DOMAIN tracks /\ o \in DOMAIN tracks /\ t # Absent
    BY <1>2 DEF AreRouted, AreTracks, Ids, Absent
  <2>2. \A n \in Nat : Walk(tracks, t, n + 1) = Walk(tracks, o, n)
    BY <2>1, WalkStep
  <2>3. Walk(tracks, o, N) = Absent
    BY <1>1, <1>2, <2>2
  <2>4. Walk(tracks, o, N + 1) = Absent
    <3>1. Walk(tracks, o, N + 1) = Onward(tracks, Walk(tracks, o, N))
      BY <1>1, <2>1, WalkStep
    <3> QED BY <2>3, <3>1 DEF Onward
  <2>5. o \in Ending(tracks)
    BY <2>1, <2>4 DEF Ending, FeedsBack
  <2> HIDE DEF o
  <2>6. steps(t) \in Nat /\ Walk(tracks, t, steps(t)) = Absent
    BY <1>3
  <2>7. steps(t) # 0
    <3>1. Walk(tracks, t, 0) = t
      BY <2>1, WalkStep
    <3> QED BY <2>1, <2>6, <3>1
  <2>8. steps(t) - 1 \in Nat /\ (steps(t) - 1) + 1 = steps(t)
    BY <2>6, <2>7
  <2>9. Walk(tracks, o, steps(t) - 1) = Absent
    BY <2>2, <2>6, <2>8
  <2>10. steps(t) - 1 \in ends(o)
    BY <2>8, <2>9
  <2>11. steps(o) \in Nat /\ steps(o) <= steps(t) - 1
    BY <1>3, <2>5, <2>10
  <2>12. steps(o) < steps(t)
    <3> HIDE DEF steps
    <3> QED BY <2>6, <2>11
  <2> QED BY <2>5, <2>12 DEF o
<1>5. Falls(rank, tracks, master, Ending(tracks))
  <2>1. rank \in [Ending(tracks) -> Nat]
    BY <1>3
  <2>2. \A t \in Ending(tracks) : rank[t] = steps(t)
    OBVIOUS
  <2> HIDE DEF rank, steps
  <2> QED BY <1>4, <2>1, <2>2 DEF Falls
<1> QED BY <1>5, MasterEnds DEF Anchored, Ending

-----------------------------------------------------------------------------
(* The mixer that is read *)

\* The tracks as they may be while their cycles are broken.
Mixers(tracks, master) ==
  {m \in [DOMAIN tracks -> Entity] :
     /\ AreRouted(m, master)
     /\ \A t \in DOMAIN tracks : m[t].chain = tracks[t].chain}

Mended(m, t, master) == IF FeedsBack(m, t) THEN [m EXCEPT ![t].output = master] ELSE m

LEMMA MendedIs ==
  ASSUME NEW tracks, NEW master, AreRouted(tracks, master),
         NEW m \in Mixers(tracks, master), NEW t \in DOMAIN tracks
  PROVE  /\ Mended(m, t, master) \in Mixers(tracks, master)
         /\ Ending(m) \cup {t} \subseteq Ending(Mended(m, t, master))
<1> DEFINE new == Mended(m, t, master)
<1>1. /\ m \in [DOMAIN tracks -> Entity] /\ AreRouted(m, master) /\ DOMAIN m = DOMAIN tracks
      /\ \A x \in DOMAIN tracks : m[x].chain = tracks[x].chain
  BY DEF Mixers
<1>2. CASE ~FeedsBack(m, t)
  <2>1. new = m
    BY <1>2 DEF Mended
  <2>2. t \in Ending(m)
    BY <1>1, <1>2 DEF Ending
  <2> QED BY <2>1, <2>2
<1>3. CASE FeedsBack(m, t)
  <2>1. new = [m EXCEPT ![t].output = master]
    BY <1>3 DEF Mended
  <2>2. t # master
    BY <1>1, <1>3, MasterEnds DEF Ending
  <2>3. master \in DOMAIN tracks /\ master \in Int /\ DOMAIN tracks \subseteq Int
    BY DEF AreRouted, AreTracks, Ids
  <2>4. /\ DOMAIN new = DOMAIN tracks
        /\ new[t] = [output |-> master, chain |-> m[t].chain]
        /\ \A x \in DOMAIN tracks : x # t => new[x] = m[x]
    BY <1>1, <2>1 DEF Entity
  <2>5. new \in [DOMAIN tracks -> Entity]
    <3>1. m[t].chain \in Seq(Int)
      BY <1>1 DEF Entity
    <3>2. [output |-> master, chain |-> m[t].chain] \in Entity
      BY <2>3, <3>1 DEF Entity
    <3>3. \A x \in DOMAIN tracks : new[x] \in Entity
      BY <1>1, <2>4, <3>2
    <3> QED BY <1>1, <2>1, <2>4, <3>3
  <2> HIDE DEF new
  <2>6. AreRouted(new, master)
    <3>1. AreTracks(new)
      BY <1>1, <2>4, <2>5 DEF AreRouted, AreTracks
    <3>2. \A x \in DOMAIN new \ {master} : new[x].output \in DOMAIN new
      BY <1>1, <2>3, <2>4 DEF AreRouted
    <3> QED BY <1>1, <2>2, <2>3, <2>4, <3>1, <3>2 DEF AreRouted
  <2>7. new \in Mixers(tracks, master)
    BY <1>1, <2>4, <2>5, <2>6 DEF Mixers
  <2>8. t \notin Ending(m) /\ master \in Ending(m) /\ Ending(m) \subseteq DOMAIN m
    BY <1>1, <1>3, MasterEnds DEF Ending
  <2>9. PICK rank : Falls(rank, m, master, Ending(m))
    BY <1>1, EndingIsAnchored DEF Anchored
  <2> DEFINE some == Ending(m) \cup {t}
             higher == [x \in some |-> IF x = t THEN rank[master] + 1 ELSE rank[x]]
  <2>10. Falls(higher, new, master, some)
    <3>1. \A x \in Ending(m) : rank[x] \in Nat
      BY <2>9 DEF Falls
    <3>2. \A x \in some : higher[x] = IF x = t THEN rank[master] + 1 ELSE rank[x]
      OBVIOUS
    <3>3. higher \in [some -> Nat]
      BY <2>8, <3>1
    <3> HIDE DEF higher
    <3>4. ASSUME NEW x \in some \ {master}
          PROVE  new[x].output \in some /\ higher[new[x].output] < higher[x]
      <4>1. CASE x = t
        <5>1. new[x].output = master
          BY <2>4, <4>1
        <5> QED BY <2>2, <2>8, <3>1, <3>2, <4>1, <5>1
      <4>2. CASE x # t
        <5>1. x \in Ending(m) /\ new[x] = m[x]
          BY <1>1, <2>4, <2>8, <4>2
        <5>2. m[x].output \in Ending(m) /\ rank[m[x].output] < rank[x]
          BY <2>9, <5>1 DEF Falls
        <5> QED BY <2>8, <3>2, <4>2, <5>1, <5>2
      <4> QED BY <4>1, <4>2
    <3> HIDE DEF some
    <3> QED BY <3>3, <3>4 DEF Falls
  <2>11. Anchored(new, master, some)
    <3>1. some \subseteq DOMAIN new
      BY <1>1, <2>4, <2>8
    <3> QED BY <2>8, <2>10, <3>1 DEF Anchored
  <2>12. some \subseteq Ending(new)
    <3> HIDE DEF some
    <3> QED BY <2>6, <2>11, AnchoredIsEnding
  <2> QED BY <2>7, <2>12 DEF new
<1> QED BY <1>2, <1>3

LEMMA BreakingTakesSteps ==
  ASSUME NEW tracks, NEW master, AreRouted(tracks, master)
  PROVE  LET n     == Cardinality(DOMAIN tracks)
             order == InOrder(DOMAIN tracks)
         IN \E mended \in [0..n -> Mixers(tracks, master)] :
              /\ mended[0] = tracks
              /\ \A k \in 1..n : mended[k] = Mended(mended[k - 1], order[k], master)
              /\ BreakMixerCycles(tracks, master) = mended[n]
<1> DEFINE N == Cardinality(DOMAIN tracks)
           line == InOrder(DOMAIN tracks)
           X == Mixers(tracks, master)
           step == [k \in 1..N |-> [m \in X |-> Mended(m, line[k], master)]]
<1>1. AreNumbers(DOMAIN tracks)
  BY DEF AreNumbers, AreRouted, AreTracks, Ids
<1>2. N \in Nat /\ line \in [1..N -> DOMAIN tracks]
  BY <1>1, InOrderIs DEF IsInOrder
<1>3. tracks \in X
  BY DEF Mixers, AreRouted, AreTracks
<1>4. step \in [1..N -> [X -> X]]
  <2>1. \A k \in 1..N : line[k] \in DOMAIN tracks
    BY <1>2
  <2> HIDE DEF N, line
  <2>2. \A k \in 1..N, m \in X : Mended(m, line[k], master) \in X
    BY <2>1, MendedIs
  <2> HIDE DEF X
  <2> QED BY <2>2
<1>5. PICK f : IsIterated(f, N, X, tracks, step)
  <2> HIDE DEF N, X, step
  <2> QED BY <1>2, <1>3, <1>4, StepsCanBeTaken
<1>6. /\ f \in [0..N -> X] /\ f[0] = tracks
      /\ \A k \in 1..N : f[k] = Mended(f[k - 1], line[k], master)
  <2>1. f \in [0..N -> X] /\ f[0] = tracks /\ \A k \in 1..N : f[k] = step[k][f[k - 1]]
    BY <1>5 DEF IsIterated
  <2> HIDE DEF N, line, X
  <2>2. \A k \in 1..N : f[k - 1] \in X
    <3>1. \A k \in 1..N : k - 1 \in 0..N
      BY <1>2
    <3> QED BY <2>1, <3>1
  <2> QED BY <2>1, <2>2
<1>7. f = [k \in 0..N |->
             IF k = 0 THEN tracks
             ELSE IF FeedsBack(f[k - 1], line[k])
                  THEN [f[k - 1] EXCEPT ![line[k]].output = master] ELSE f[k - 1]]
  <2> HIDE DEF N, line, X
  <2>1. \A k \in 0..N : f[k] =
             IF k = 0 THEN tracks
             ELSE IF FeedsBack(f[k - 1], line[k])
                  THEN [f[k - 1] EXCEPT ![line[k]].output = master] ELSE f[k - 1]
    <3> SUFFICES ASSUME NEW k \in 0..N, k # 0
                 PROVE  f[k] = IF FeedsBack(f[k - 1], line[k])
                               THEN [f[k - 1] EXCEPT ![line[k]].output = master] ELSE f[k - 1]
      BY <1>6
    <3>1. k \in 1..N
      BY <1>2
    <3> QED BY <1>6, <3>1 DEF Mended
  <2> QED BY <1>6, <2>1
<1> DEFINE mended[k \in 0..N] ==
             IF k = 0 THEN tracks
             ELSE IF FeedsBack(mended[k - 1], line[k])
                  THEN [mended[k - 1] EXCEPT ![line[k]].output = master] ELSE mended[k - 1]
<1>8. BreakMixerCycles(tracks, master) = mended[N]
  BY DEF BreakMixerCycles
<1>9. mended = [k \in 0..N |->
             IF k = 0 THEN tracks
             ELSE IF FeedsBack(mended[k - 1], line[k])
                  THEN [mended[k - 1] EXCEPT ![line[k]].output = master] ELSE mended[k - 1]]
  BY <1>7, Zenon
<1> HIDE DEF mended
<1>10. /\ mended[0] = tracks
       /\ \A k \in 1..N : mended[k] = Mended(mended[k - 1], line[k], master)
  <2> HIDE DEF line
  <2>1. 0 \in 0..N
    BY <1>2
  <2>2. \A k \in 1..N : k \in 0..N /\ k # 0
    BY <1>2
  <2> HIDE DEF N
  <2>3. \A k \in 0..N : mended[k] =
             IF k = 0 THEN tracks
             ELSE IF FeedsBack(mended[k - 1], line[k])
                  THEN [mended[k - 1] EXCEPT ![line[k]].output = master] ELSE mended[k - 1]
    BY <1>9
  <2> QED BY <2>1, <2>2, <2>3 DEF Mended
<1>11. mended \in [0..N -> X]
  <2> DEFINE good == {k \in 0..N : mended[k] \in X}
  <2> HIDE DEF N, X
  <2>1. 0 \in good
    BY <1>2, <1>3, <1>10
  <2>2. ASSUME NEW k \in 1..N, k - 1 \in good
        PROVE  k \in good
    <3>1. mended[k - 1] \in X /\ line[k] \in DOMAIN tracks /\ k \in 0..N
      BY <1>2, <2>2
    <3>2. Mended(mended[k - 1], line[k], master) \in X
      BY <3>1, MendedIs DEF X
    <3> QED BY <1>10, <3>1, <3>2
  <2>3. good = 0..N
    <3>1. good \in SUBSET (0..N)
      OBVIOUS
    <3> HIDE DEF good
    <3> QED BY <1>2, <2>1, <2>2, <3>1, AllAlong
  <2>4. \A k \in 0..N : mended[k] \in X
    BY <2>3
  <2>5. DOMAIN mended = 0..N /\ mended = [k \in DOMAIN mended |-> mended[k]]
    BY <1>9
  <2> QED BY <2>4, <2>5
<1> QED BY <1>8, <1>10, <1>11

\* Every cycle is broken, and nothing else is changed.
LEMMA BrokenIsAnchored ==
  ASSUME NEW tracks, NEW master, AreRouted(tracks, master)
  PROVE  LET m == BreakMixerCycles(tracks, master)
         IN m \in Mixers(tracks, master) /\ Anchored(m, master, DOMAIN m)
<1> DEFINE N == Cardinality(DOMAIN tracks)
           line == InOrder(DOMAIN tracks)
<1>1. PICK mended \in [0..N -> Mixers(tracks, master)] :
              /\ mended[0] = tracks
              /\ \A k \in 1..N : mended[k] = Mended(mended[k - 1], line[k], master)
              /\ BreakMixerCycles(tracks, master) = mended[N]
  BY BreakingTakesSteps
<1>2. AreNumbers(DOMAIN tracks)
  BY DEF AreNumbers, AreRouted, AreTracks, Ids
<1>3. /\ N \in Nat /\ line \in [1..N -> DOMAIN tracks]
      /\ \A t \in DOMAIN tracks : \E k \in 1..N : line[k] = t
  BY <1>2, InOrderIs DEF IsInOrder
<1> DEFINE good == {k \in 0..N : \A j \in 1..k : line[j] \in Ending(mended[k])}
<1> HIDE DEF N, line
<1>4. 0 \in good
  BY <1>3
<1>5. ASSUME NEW k \in 1..N, k - 1 \in good
      PROVE  k \in good
  <2>1. k - 1 \in 0..N /\ k \in 0..N /\ line[k] \in DOMAIN tracks
    BY <1>3
  <2>2. mended[k - 1] \in Mixers(tracks, master)
    BY <1>1, <2>1
  <2>3. Ending(mended[k - 1]) \cup {line[k]} \subseteq Ending(mended[k])
    BY <1>1, <2>1, <2>2, MendedIs
  <2>4. ASSUME NEW j \in 1..k
        PROVE  line[j] \in Ending(mended[k])
    <3>1. CASE j = k
      BY <2>3, <3>1
    <3>2. CASE j # k
      <4>1. j \in 1..(k - 1)
        BY <1>3, <3>2
      <4>2. line[j] \in Ending(mended[k - 1])
        BY <1>5, <4>1
      <4> QED BY <2>3, <4>2
    <3> QED BY <3>1, <3>2
  <2> QED BY <2>1, <2>4
<1>6. good = 0..N
  <2>1. good \in SUBSET (0..N)
    OBVIOUS
  <2> HIDE DEF good
  <2> QED BY <1>3, <1>4, <1>5, <2>1, AllAlong
<1> DEFINE m == mended[N]
<1>7. N \in 0..N
  BY <1>3
<1>8. m \in Mixers(tracks, master) /\ AreRouted(m, master) /\ DOMAIN m = DOMAIN tracks
  BY <1>1, <1>7 DEF Mixers
<1>9. \A j \in 1..N : line[j] \in Ending(m)
  BY <1>6, <1>7
<1>10. Ending(m) = DOMAIN m
  BY <1>3, <1>8, <1>9 DEF Ending
<1>11. Anchored(m, master, DOMAIN m)
  <2> HIDE DEF m
  <2> QED BY <1>8, <1>10, EndingIsAnchored
<1> QED BY <1>1, <1>8, <1>11

\* Where there is none nothing is changed.
LEMMA NothingToBreak ==
  ASSUME NEW tracks, NEW master, AreRouted(tracks, master),
         Anchored(tracks, master, DOMAIN tracks)
  PROVE  BreakMixerCycles(tracks, master) = tracks
<1> DEFINE N == Cardinality(DOMAIN tracks)
           line == InOrder(DOMAIN tracks)
<1>1. PICK mended \in [0..N -> Mixers(tracks, master)] :
              /\ mended[0] = tracks
              /\ \A k \in 1..N : mended[k] = Mended(mended[k - 1], line[k], master)
              /\ BreakMixerCycles(tracks, master) = mended[N]
  BY BreakingTakesSteps
<1>2. N \in Nat /\ line \in [1..N -> DOMAIN tracks]
  <2>1. AreNumbers(DOMAIN tracks)
    BY DEF AreNumbers, AreRouted, AreTracks, Ids
  <2> QED BY <2>1, InOrderIs DEF IsInOrder
<1>3. \A t \in DOMAIN tracks : ~FeedsBack(tracks, t)
  BY AnchoredIsEnding DEF Ending
<1> DEFINE good == {k \in 0..N : mended[k] = tracks}
<1> HIDE DEF N, line
<1>4. 0 \in good
  BY <1>1, <1>2
<1>5. ASSUME NEW k \in 1..N, k - 1 \in good
      PROVE  k \in good
  <2>1. mended[k - 1] = tracks /\ line[k] \in DOMAIN tracks /\ k \in 0..N
    BY <1>2, <1>5
  <2> QED BY <1>1, <1>3, <2>1 DEF Mended
<1>6. good = 0..N
  <2>1. good \in SUBSET (0..N)
    OBVIOUS
  <2> HIDE DEF good
  <2> QED BY <1>2, <1>4, <1>5, <2>1, AllAlong
<1>7. N \in good
  BY <1>2, <1>6
<1> QED BY <1>1, <1>7

-----------------------------------------------------------------------------
(* What a project is sound by *)

AllIds(chain) == \A n \in DOMAIN chain : IsId(chain[n])
MixerIsSound(tracks, master) ==
  /\ AreRouted(tracks, master)
  /\ Anchored(tracks, master, DOMAIN tracks)
  /\ \A t \in DOMAIN tracks : AllIds(tracks[t].chain)

IsTable(table) == /\ IsFiniteSet(DOMAIN table) /\ DOMAIN table \subseteq Ids
                  /\ table = [id \in DOMAIN table |-> table[id]]

Routes == [port : Int, track : Int]
RoutesAreSound(instruments, tracks) ==
  /\ IsTable(instruments)
  /\ \A i \in DOMAIN instruments :
       /\ instruments[i] \in [routing : Seq(Routes)] /\ instruments[i].routing # <<>>
       /\ \A n \in DOMAIN instruments[i].routing :
            instruments[i].routing[n].track \in DOMAIN tracks

NotesAreSound(patterns, instruments) ==
  /\ IsTable(patterns)
  /\ \A q \in DOMAIN patterns :
       /\ patterns[q] = [notes |-> patterns[q].notes]
       /\ patterns[q].notes \in [DOMAIN patterns[q].notes -> SUBSET Ids]
       /\ DOMAIN patterns[q].notes \subseteq DOMAIN instruments

LanesAreSound(lanes) ==
  /\ IsTable(lanes)
  /\ \A l \in DOMAIN lanes : /\ lanes[l] \in [order : Int, group : Int]
                             /\ lanes[l].group \in (DOMAIN lanes \ {l}) \cup {Absent}
  /\ \A k, l \in DOMAIN lanes : lanes[k].order = lanes[l].order => k = l

PlayedClips == [lane : Int, kind : PlayedKinds, of : Int, effect : Int, length : Ids]
ClipsAreSound(p) ==
  /\ IsTable(p.clips)
  /\ \A c \in DOMAIN p.clips : p.clips[c] \in PlayedClips /\ ~Dangling(p, p.clips[c])

IsSound(p) ==
  /\ p = [master |-> p.master, tracks |-> p.tracks, instruments |-> p.instruments,
          patterns |-> p.patterns, lanes |-> p.lanes, clips |-> p.clips]
  /\ MixerIsSound(p.tracks, p.master)
  /\ RoutesAreSound(p.instruments, p.tracks)
  /\ NotesAreSound(p.patterns, p.instruments)
  /\ LanesAreSound(p.lanes)
  /\ ClipsAreSound(p)

LEMMA SoundIsConsistent ==
  ASSUME NEW p, IsSound(p)
  PROVE  Consistent(p)
<1>1. ASSUME NEW t \in DOMAIN p.tracks
      PROVE  /\ Walk(p.tracks, t, Cardinality(DOMAIN p.tracks)) = Absent
             /\ (p.tracks[t].output = Absent) <=> (t = p.master)
  <2>1. Cardinality(DOMAIN p.tracks) \in Nat
    BY FS_CardinalityType DEF IsSound, MixerIsSound, AreRouted, AreTracks
  <2>2. Walk(p.tracks, t, Cardinality(DOMAIN p.tracks)) = Absent
    BY <2>1, AnchoredEnds DEF IsSound, MixerIsSound
  <2>3. t # p.master => p.tracks[t].output # Absent
    BY DEF IsSound, MixerIsSound, AreRouted, AreTracks, Ids, Absent
  <2>4. p.tracks[p.master].output = Absent
    BY DEF IsSound, MixerIsSound, AreRouted
  <2> QED BY <2>2, <2>3, <2>4
<1>2. \A i \in DOMAIN p.instruments : \A n \in DOMAIN p.instruments[i].routing :
        p.instruments[i].routing[n].track \in DOMAIN p.tracks
  BY DEF IsSound, RoutesAreSound
<1>3. \A q \in DOMAIN p.patterns : DOMAIN p.patterns[q].notes \subseteq DOMAIN p.instruments
  BY DEF IsSound, NotesAreSound
<1>4. \A c \in DOMAIN p.clips : ~Dangling(p, p.clips[c])
  BY DEF IsSound, ClipsAreSound
<1>5. \A k, l \in DOMAIN p.lanes : /\ p.lanes[k].order = p.lanes[l].order => k = l
                                   /\ p.lanes[k].group \in (DOMAIN p.lanes \ {k}) \cup {Absent}
  BY DEF IsSound, LanesAreSound
<1> QED BY <1>1, <1>2, <1>3, <1>4, <1>5 DEF Consistent

-----------------------------------------------------------------------------
(* What is read is sound *)

TableOf(f, table) ==
  /\ IsFiniteSet(DOMAIN f[table]) /\ DOMAIN f[table] \subseteq Ids \cup {Strange}
  /\ f[table] = [id \in DOMAIN f[table] |-> f[table][id]]
  /\ \A id \in DOMAIN f[table] : IsEntity(table, f[table][id])

LEMMA DocumentTables ==
  ASSUME NEW f, IsDocument(f)
  PROVE  /\ TableOf(f, "tracks") /\ TableOf(f, "instruments") /\ TableOf(f, "patterns")
         /\ TableOf(f, "lanes") /\ TableOf(f, "clips")
BY DEF IsDocument, TableOf, Tables

LEMMA ParsedIs ==
  ASSUME NEW f, NEW table, TableOf(f, table)
  PROVE  /\ IsFiniteSet(Parsed(f[table])) /\ Parsed(f[table]) \subseteq Ids
         /\ Parsed(f[table]) \subseteq DOMAIN f[table]
         /\ \A id \in Parsed(f[table]) : IsEntity(table, f[table][id])
BY FS_Subset DEF TableOf, Parsed

LEMMA ReadTrackIs ==
  ASSUME NEW e, IsEntity("tracks", e)
  PROVE  ReadTrack(e) \in Entity /\ ReadTrack(e).output = e.output /\ AllIds(ReadTrack(e).chain)
<1>1. e \in [more : BOOLEAN, output : Int, chain : Seq(Int)]
  BY DEF IsEntity
<1>2. e.output \in Int /\ e.chain \in Seq(Int)
  BY <1>1
<1> DEFINE ids == {n \in DOMAIN e.chain : IsId(e.chain[n])}
           picked == PickedAt(e.chain, ids)
<1>3. picked \in Seq(Int) /\ \A n \in DOMAIN picked : \E i \in ids : picked[n] = e.chain[i]
  <2>1. ids \in SUBSET DOMAIN e.chain
    OBVIOUS
  <2> HIDE DEF ids
  <2> QED BY <1>2, <2>1, PickedIs
<1>4. AllIds(picked)
  BY <1>3 DEF AllIds
<1>5. ReadTrack(e) = [output |-> e.output, chain |-> picked]
  BY DEF ReadTrack
<1> HIDE DEF picked
<1> QED BY <1>2, <1>3, <1>4, <1>5 DEF Entity

LEMMA MasterIsChosen ==
  ASSUME NEW f, TableOf(f, "tracks")
  PROVE  LET tracks == WithMaster(f)
             master == ChooseMaster(f)
         IN /\ AreTracks(tracks) /\ master \in DOMAIN tracks /\ tracks[master].output = Absent
            /\ \A t \in DOMAIN tracks : AllIds(tracks[t].chain)
            /\ Parsed(f.tracks) \subseteq DOMAIN tracks
<1> DEFINE tracks == WithMaster(f)
           master == ChooseMaster(f)
           minted == IF Roots(f) = {} THEN {MintedId} ELSE {}
<1>1. MintedId \in Ids
  BY ProjectFileAssumption
<1>2. /\ IsFiniteSet(Parsed(f.tracks)) /\ Parsed(f.tracks) \subseteq Ids
      /\ \A t \in Parsed(f.tracks) : IsEntity("tracks", f.tracks[t])
  BY ParsedIs
<1>3. tracks = [t \in Parsed(f.tracks) \cup minted |->
                  IF t \in minted THEN Blank("tracks") ELSE ReadTrack(f.tracks[t])]
  BY DEF WithMaster
<1>4. Blank("tracks") = [output |-> Absent, chain |-> <<>>]
  BY DEF Blank
<1>5. /\ Blank("tracks") \in Entity /\ Blank("tracks").output = Absent
      /\ AllIds(Blank("tracks").chain)
  <2>1. <<>> \in Seq(Int) /\ Absent \in Int
    BY DEF Absent
  <2>2. Blank("tracks") \in Entity
    <3> DEFINE none == <<>>
    <3>1. none \in Seq(Int)
      BY <2>1
    <3>2. Blank("tracks") = [output |-> Absent, chain |-> none]
      BY <1>4
    <3> HIDE DEF none
    <3> QED BY <2>1, <3>1, <3>2 DEF Entity
  <2>3. AllIds(<<>>)
    BY DEF AllIds
  <2> QED BY <1>4, <2>2, <2>3
<1>6. \A t \in DOMAIN tracks : tracks[t] \in Entity /\ AllIds(tracks[t].chain)
  BY <1>2, <1>3, <1>5, ReadTrackIs
<1>7. IsFiniteSet(DOMAIN tracks) /\ DOMAIN tracks \subseteq Ids
  <2>1. IsFiniteSet(Parsed(f.tracks) \cup {MintedId})
    BY <1>2, FS_AddElement
  <2>2. DOMAIN tracks = IF Roots(f) = {} THEN Parsed(f.tracks) \cup {MintedId} ELSE Parsed(f.tracks)
    BY <1>3
  <2> QED BY <1>1, <1>2, <2>1, <2>2
<1>8. AreTracks(tracks)
  BY <1>3, <1>6, <1>7 DEF AreTracks
<1>9. master \in DOMAIN tracks /\ tracks[master].output = Absent
  <2>1. CASE Roots(f) = {}
    BY <1>3, <1>5, <2>1 DEF ChooseMaster
  <2>2. CASE Roots(f) # {}
    <3>1. Roots(f) \in SUBSET Nat
      BY <1>2 DEF Roots, Ids
    <3>2. PICK least \in Roots(f) : \A n \in Roots(f) : least <= n
      BY <2>2, <3>1, LeastOf
    <3>3. Min(Roots(f)) \in Roots(f)
      BY <3>2 DEF Min
    <3>4. master \in Parsed(f.tracks) /\ f.tracks[master].output = Absent
      BY <2>2, <3>3 DEF ChooseMaster, Roots
    <3>5. tracks[master] = ReadTrack(f.tracks[master])
      BY <1>3, <2>2, <3>4
    <3> QED BY <1>2, <1>3, <3>4, <3>5, ReadTrackIs
  <2> QED BY <2>1, <2>2
<1> QED BY <1>3, <1>6, <1>8, <1>9

LEMMA ResolvedAreRouted ==
  ASSUME NEW tracks, AreTracks(tracks), NEW master \in DOMAIN tracks,
         tracks[master].output = Absent
  PROVE  LET resolved == ResolveOutputs(tracks, master)
         IN /\ AreRouted(resolved, master) /\ DOMAIN resolved = DOMAIN tracks
            /\ \A t \in DOMAIN tracks : resolved[t].chain = tracks[t].chain
<1> DEFINE resolved == ResolveOutputs(tracks, master)
           output(t) == IF tracks[t].output \in DOMAIN tracks \ {t} THEN tracks[t].output ELSE master
<1>1. DOMAIN resolved = DOMAIN tracks
  BY DEF ResolveOutputs
<1>2. resolved[master] = tracks[master]
  BY DEF ResolveOutputs
<1>3. ASSUME NEW t \in DOMAIN tracks, t # master
      PROVE  resolved[t] = [output |-> output(t), chain |-> tracks[t].chain]
  <2>1. resolved[t] = [tracks[t] EXCEPT !.output = output(t)]
    BY <1>3 DEF ResolveOutputs
  <2>2. tracks[t] \in Entity
    BY DEF AreTracks
  <2> HIDE DEF output, resolved
  <2> QED BY <2>1, <2>2 DEF Entity
<1>4. ASSUME NEW t \in DOMAIN tracks
      PROVE  output(t) \in DOMAIN tracks /\ output(t) \in Int
  BY DEF AreTracks, Ids
<1>5. resolved = [t \in DOMAIN tracks |-> resolved[t]]
  BY DEF ResolveOutputs
<1>6. \A t \in DOMAIN tracks : resolved[t] \in Entity /\ resolved[t].chain = tracks[t].chain
  <2> SUFFICES ASSUME NEW t \in DOMAIN tracks
               PROVE  resolved[t] \in Entity /\ resolved[t].chain = tracks[t].chain
    OBVIOUS
  <2>1. tracks[t] \in Entity
    BY DEF AreTracks
  <2>2. output(t) \in Int
    BY <1>4
  <2> HIDE DEF output, resolved
  <2>3. CASE t = master
    BY <1>2, <2>1, <2>3
  <2>4. CASE t # master
    <3>1. resolved[t] = [output |-> output(t), chain |-> tracks[t].chain]
      BY <1>3, <2>4
    <3>2. tracks[t].chain \in Seq(Int)
      BY <2>1 DEF Entity
    <3> QED BY <2>2, <3>1, <3>2 DEF Entity
  <2> QED BY <2>3, <2>4
<1> HIDE DEF resolved, output
<1>7. AreTracks(resolved)
  BY <1>1, <1>5, <1>6 DEF AreTracks
<1>8. \A t \in DOMAIN resolved \ {master} : resolved[t].output \in DOMAIN resolved
  BY <1>1, <1>3, <1>4
<1> QED BY <1>1, <1>2, <1>6, <1>7, <1>8 DEF AreRouted, resolved

ReadMixer(f) == BreakMixerCycles(ResolveOutputs(WithMaster(f), ChooseMaster(f)), ChooseMaster(f))

LEMMA MixerRead ==
  ASSUME NEW f, TableOf(f, "tracks")
  PROVE  /\ MixerIsSound(ReadMixer(f), ChooseMaster(f))
         /\ Parsed(f.tracks) \subseteq DOMAIN ReadMixer(f)
<1> DEFINE master == ChooseMaster(f)
           resolved == ResolveOutputs(WithMaster(f), master)
<1>1. /\ AreTracks(WithMaster(f)) /\ master \in DOMAIN WithMaster(f)
      /\ WithMaster(f)[master].output = Absent
      /\ \A t \in DOMAIN WithMaster(f) : AllIds(WithMaster(f)[t].chain)
      /\ Parsed(f.tracks) \subseteq DOMAIN WithMaster(f)
  BY MasterIsChosen
<1>2. /\ AreRouted(resolved, master) /\ DOMAIN resolved = DOMAIN WithMaster(f)
      /\ \A t \in DOMAIN resolved : resolved[t].chain = WithMaster(f)[t].chain
  BY <1>1, ResolvedAreRouted
<1>3. ReadMixer(f) \in Mixers(resolved, master) /\ Anchored(ReadMixer(f), master, DOMAIN ReadMixer(f))
  <2> HIDE DEF master, resolved
  <2>1. ReadMixer(f) = BreakMixerCycles(resolved, master)
    BY DEF ReadMixer, resolved, master
  <2> QED BY <1>2, <2>1, BrokenIsAnchored
<1>4. /\ AreRouted(ReadMixer(f), master) /\ DOMAIN ReadMixer(f) = DOMAIN resolved
      /\ \A t \in DOMAIN resolved : ReadMixer(f)[t].chain = resolved[t].chain
  BY <1>3 DEF Mixers
<1> HIDE DEF master, resolved
<1>5. MixerIsSound(ReadMixer(f), master)
  BY <1>1, <1>2, <1>3, <1>4 DEF MixerIsSound
<1> QED BY <1>1, <1>2, <1>4, <1>5 DEF master

LEMMA RoutesAreResolved ==
  ASSUME NEW routing \in Seq(Routes), NEW tracks, NEW master \in DOMAIN tracks, master \in Int
  PROVE  LET resolved == ResolveRouting(routing, tracks, master)
         IN /\ resolved \in Seq(Routes) /\ resolved # <<>>
            /\ \A n \in DOMAIN resolved : resolved[n].track \in DOMAIN tracks
<1> DEFINE found == {n \in DOMAIN routing : routing[n].track \in DOMAIN tracks}
           resolved == ResolveRouting(routing, tracks, master)
<1>1. resolved = IF found = {} THEN <<[port |-> 0, track |-> master]>> ELSE PickedAt(routing, found)
  BY DEF ResolveRouting
<1>2. found \in SUBSET DOMAIN routing /\ \A i \in found : routing[i].track \in DOMAIN tracks
  OBVIOUS
<1> HIDE DEF found, resolved
<1>3. CASE found = {}
  <2> DEFINE route == [port |-> 0, track |-> master]
  <2>1. route \in Routes /\ route.track = master
    BY DEF Routes
  <2>2. resolved = <<route>>
    BY <1>1, <1>3
  <2> HIDE DEF route
  <2>3. resolved \in Seq(Routes) /\ DOMAIN resolved = 1..1 /\ resolved[1] = route /\ Len(resolved) = 1
    BY <2>1, <2>2
  <2>4. resolved # <<>>
    <3>1. 1 \in DOMAIN resolved /\ ~(1 \in DOMAIN <<>>)
      BY <2>3
    <3> QED BY <3>1
  <2>5. \A n \in DOMAIN resolved : n = 1
    BY <2>3
  <2> QED BY <2>1, <2>3, <2>4, <2>5 DEF resolved
<1>4. CASE found # {}
  <2>1. resolved = PickedAt(routing, found)
    BY <1>1, <1>4
  <2>2. /\ resolved \in Seq(Routes) /\ resolved # <<>>
        /\ \A n \in DOMAIN resolved : \E i \in found : resolved[n] = routing[i]
    BY <1>2, <1>4, <2>1, PickedIs
  <2> QED BY <1>2, <2>2 DEF resolved
<1> QED BY <1>3, <1>4

ReadInstruments(f, tracks, master) ==
  [i \in Parsed(f.instruments) |->
     [routing |-> ResolveRouting(ReadRoutes(f.instruments[i]).routing, tracks, master)]]

LEMMA InstrumentsRead ==
  ASSUME NEW f, TableOf(f, "instruments"), NEW tracks, NEW master \in DOMAIN tracks, master \in Int
  PROVE  RoutesAreSound(ReadInstruments(f, tracks, master), tracks)
<1> DEFINE read == ReadInstruments(f, tracks, master)
<1>1. /\ IsFiniteSet(Parsed(f.instruments)) /\ Parsed(f.instruments) \subseteq Ids
      /\ \A i \in Parsed(f.instruments) : IsEntity("instruments", f.instruments[i])
  BY ParsedIs
<1>2. IsTable(read)
  BY <1>1 DEF IsTable, ReadInstruments
<1>3. ASSUME NEW i \in DOMAIN read
      PROVE  /\ read[i] \in [routing : Seq(Routes)] /\ read[i].routing # <<>>
             /\ \A n \in DOMAIN read[i].routing : read[i].routing[n].track \in DOMAIN tracks
  <2> DEFINE e == f.instruments[i]
             chosen == {n \in DOMAIN e.routing : IsId(e.routing[n].track)}
             routing == ReadRoutes(e).routing
             resolved == ResolveRouting(routing, tracks, master)
  <2>1. e.routing \in Seq(Routes)
    <3>1. IsEntity("instruments", e)
      BY <1>1 DEF ReadInstruments
    <3>2. e \in [more : BOOLEAN, routing : Seq(Routes)]
      BY <3>1 DEF IsEntity, Routes
    <3> QED BY <3>2
  <2>2. routing = PickedAt(e.routing, chosen)
    BY DEF ReadRoutes
  <2>3. chosen \in SUBSET DOMAIN e.routing
    OBVIOUS
  <2>4. read[i] = [routing |-> resolved]
    BY DEF ReadInstruments
  <2> HIDE DEF e, chosen, routing
  <2>5. routing \in Seq(Routes)
    BY <2>1, <2>2, <2>3, PickedIs
  <2>6. /\ resolved \in Seq(Routes) /\ resolved # <<>>
        /\ \A n \in DOMAIN resolved : resolved[n].track \in DOMAIN tracks
    BY <2>5, RoutesAreResolved
  <2> HIDE DEF resolved, read
  <2> QED BY <2>4, <2>6
<1> HIDE DEF read
<1>4. RoutesAreSound(read, tracks)
  BY <1>2, <1>3 DEF RoutesAreSound
<1> QED BY <1>4 DEF read

ReadPattern(e, ids) == DropOrphans(ReadNotes(e), ids)
ReadPatterns(f, instruments) ==
  [p \in Parsed(f.patterns) |-> ReadPattern(f.patterns[p], DOMAIN instruments)]

LEMMA PatternRead ==
  ASSUME NEW e, IsEntity("patterns", e), NEW ids
  PROVE  /\ ReadPattern(e, ids) =
              [notes |-> [i \in DOMAIN e.notes \cap ids |-> {n \in e.notes[i] : Sound(n)}]]
         /\ ReadPattern(e, ids) = [notes |-> ReadPattern(e, ids).notes]
         /\ ReadPattern(e, ids).notes \in [DOMAIN ReadPattern(e, ids).notes -> SUBSET Ids]
         /\ DOMAIN ReadPattern(e, ids).notes \subseteq ids
<1> DEFINE kept == [i \in DOMAIN e.notes \cap ids |-> {n \in e.notes[i] : Sound(n)}]
           read == ReadPattern(e, ids)
<1>1. e.notes \in [DOMAIN e.notes -> SUBSET Int]
  BY DEF IsEntity
<1>2. read = [notes |-> kept]
  BY DEF ReadPattern, DropOrphans, ReadNotes, Restrict
<1>3. kept \in [DOMAIN kept -> SUBSET Ids]
  <2>1. \A i \in DOMAIN e.notes : {n \in e.notes[i] : Sound(n)} \in SUBSET Ids
    BY <1>1 DEF Sound, Ids
  <2> QED BY <2>1
<1> QED BY <1>2, <1>3

LEMMA PatternsRead ==
  ASSUME NEW f, TableOf(f, "patterns"), NEW instruments
  PROVE  NotesAreSound(ReadPatterns(f, instruments), instruments)
<1> DEFINE read == ReadPatterns(f, instruments)
<1>1. /\ IsFiniteSet(Parsed(f.patterns)) /\ Parsed(f.patterns) \subseteq Ids
      /\ \A p \in Parsed(f.patterns) : IsEntity("patterns", f.patterns[p])
  BY ParsedIs
<1>2. IsTable(read) /\ DOMAIN read = Parsed(f.patterns)
  BY <1>1 DEF IsTable, ReadPatterns
<1>3. \A q \in DOMAIN read : read[q] = ReadPattern(f.patterns[q], DOMAIN instruments)
  BY DEF ReadPatterns
<1> HIDE DEF read
<1>4. \A q \in DOMAIN read : /\ read[q] = [notes |-> read[q].notes]
                             /\ read[q].notes \in [DOMAIN read[q].notes -> SUBSET Ids]
                             /\ DOMAIN read[q].notes \subseteq DOMAIN instruments
  <2> TAKE q \in DOMAIN read
  <2> DEFINE e == f.patterns[q]
             ids == DOMAIN instruments
  <2>1. IsEntity("patterns", e) /\ read[q] = ReadPattern(e, ids)
    BY <1>1, <1>2, <1>3
  <2> HIDE DEF e, ids
  <2> DEFINE pattern == ReadPattern(e, ids)
  <2>2. /\ pattern = [notes |-> pattern.notes]
        /\ pattern.notes \in [DOMAIN pattern.notes -> SUBSET Ids]
        /\ DOMAIN pattern.notes \subseteq ids
    BY <2>1, PatternRead
  <2>3. read[q] = pattern
    BY <2>1
  <2> HIDE DEF pattern
  <2> QED BY <2>2, <2>3 DEF ids
<1>5. NotesAreSound(read, instruments)
  BY <1>2, <1>4 DEF NotesAreSound
<1> QED BY <1>5 DEF read

Lane == [order : Int, group : Int]

\* No two lanes get one place.
LEMMA LanesAreApart ==
  ASSUME NEW lanes, IsTable(lanes), \A l \in DOMAIN lanes : lanes[l] \in Lane
  PROVE  /\ DOMAIN FixLaneOrder(lanes) = DOMAIN lanes /\ IsTable(FixLaneOrder(lanes))
         /\ \A l \in DOMAIN lanes : /\ FixLaneOrder(lanes)[l] \in Lane
                                    /\ FixLaneOrder(lanes)[l].group = lanes[l].group
         /\ \A k, l \in DOMAIN lanes :
              FixLaneOrder(lanes)[k].order = FixLaneOrder(lanes)[l].order => k = l
<1> DEFINE earlier(k, l) == \/ lanes[k].order < lanes[l].order
                            \/ lanes[k].order = lanes[l].order /\ k < l
           below(l) == {k \in DOMAIN lanes : earlier(k, l)}
           fixed == FixLaneOrder(lanes)
<1>1. IsFiniteSet(DOMAIN lanes) /\ DOMAIN lanes \subseteq Int
  BY DEF IsTable, Ids
<1>2. \A l \in DOMAIN lanes : lanes[l].order \in Int /\ lanes[l].group \in Int
  BY DEF Lane
<1>3. \A l \in DOMAIN lanes : IsFiniteSet(below(l)) /\ Cardinality(below(l)) \in Nat
  <2> TAKE l \in DOMAIN lanes
  <2>1. IsFiniteSet(below(l))
    <3>1. below(l) \in SUBSET DOMAIN lanes
      OBVIOUS
    <3> HIDE DEF below
    <3> QED BY <1>1, <3>1, FS_Subset
  <2> HIDE DEF below
  <2> QED BY <2>1, FS_CardinalityType
<1>4. fixed = [l \in DOMAIN lanes |-> [lanes[l] EXCEPT !.order = Cardinality(below(l))]]
  BY DEF FixLaneOrder
<1>5. ASSUME NEW k \in DOMAIN lanes, NEW l \in DOMAIN lanes, earlier(k, l)
      PROVE  Cardinality(below(k)) < Cardinality(below(l))
  <2>1. below(k) \subseteq below(l)
    BY <1>1, <1>2, <1>5
  <2>2. k \in below(l) /\ k \notin below(k)
    BY <1>1, <1>2, <1>5
  <2> HIDE DEF below
  <2>3. below(k) # below(l)
    BY <2>2
  <2>4. /\ Cardinality(below(k)) <= Cardinality(below(l))
        /\ Cardinality(below(k)) # Cardinality(below(l))
    BY <1>3, <2>1, <2>3, FS_Subset
  <2> QED BY <1>3, <2>4
<1>6. \A k, l \in DOMAIN lanes : k # l => earlier(k, l) \/ earlier(l, k)
  BY <1>1, <1>2
<1>7. ASSUME NEW l \in DOMAIN lanes
      PROVE  fixed[l] = [order |-> Cardinality(below(l)), group |-> lanes[l].group]
  <2>1. fixed[l] = [lanes[l] EXCEPT !.order = Cardinality(below(l))]
    BY <1>4
  <2>2. lanes[l] = [order |-> lanes[l].order, group |-> lanes[l].group]
    BY DEF Lane
  <2> HIDE DEF fixed, below
  <2> QED BY <2>1, <2>2
<1> HIDE DEF below, earlier
<1>8. \A l \in DOMAIN lanes : /\ fixed[l] \in Lane /\ fixed[l].group = lanes[l].group
                              /\ fixed[l].order = Cardinality(below(l))
  <2> HIDE DEF fixed
  <2> TAKE l \in DOMAIN lanes
  <2> DEFINE place == Cardinality(below(l))
  <2>1. place \in Int /\ lanes[l].group \in Int
    BY <1>2, <1>3
  <2>2. fixed[l] = [order |-> place, group |-> lanes[l].group]
    BY <1>7
  <2> HIDE DEF place
  <2>3. fixed[l] \in Lane /\ fixed[l].group = lanes[l].group /\ fixed[l].order = place
    BY <2>1, <2>2 DEF Lane
  <2> QED BY <2>3 DEF place
<1>9. DOMAIN fixed = DOMAIN lanes /\ IsTable(fixed)
  BY <1>4 DEF IsTable
<1> HIDE DEF fixed
<1>10. \A k, l \in DOMAIN lanes : fixed[k].order = fixed[l].order => k = l
  <2> SUFFICES ASSUME NEW k \in DOMAIN lanes, NEW l \in DOMAIN lanes,
                      fixed[k].order = fixed[l].order, k # l
               PROVE  FALSE
    OBVIOUS
  <2>1. Cardinality(below(k)) = Cardinality(below(l))
    BY <1>8
  <2>2. Cardinality(below(k)) \in Nat /\ Cardinality(below(l)) \in Nat
    BY <1>3
  <2>3. CASE earlier(k, l)
    BY <1>5, <2>1, <2>2, <2>3
  <2>4. CASE earlier(l, k)
    BY <1>5, <2>1, <2>2, <2>4
  <2> QED BY <1>6, <2>3, <2>4
<1> QED BY <1>8, <1>9, <1>10 DEF fixed

GroupedLanes(f) ==
  LET lanes == [l \in Parsed(f.lanes) |-> ReadLane(f.lanes[l])]
  IN [l \in DOMAIN lanes |-> [lanes[l] EXCEPT !.group = ResolveGroup(lanes, l)]]

LEMMA LaneRead ==
  ASSUME NEW e, IsEntity("lanes", e)
  PROVE  ReadLane(e) = [order |-> e.order, group |-> e.group] /\ ReadLane(e) \in Lane
<1>1. e \in [more : BOOLEAN, order : Int, group : Int]
  BY DEF IsEntity
<1>2. ReadLane(e) = [field \in (DOMAIN e \ {"more"}) |-> e[field]]
  BY DEF ReadLane, Less, Restrict
<1>3. ReadLane(e) = [order |-> e.order, group |-> e.group]
  BY <1>1, <1>2
<1> QED BY <1>1, <1>3 DEF Lane

LEMMA LanesRead ==
  ASSUME NEW f, TableOf(f, "lanes")
  PROVE  LanesAreSound(FixLaneOrder(GroupedLanes(f)))
<1> DEFINE lanes == [l \in Parsed(f.lanes) |-> ReadLane(f.lanes[l])]
           grouped == GroupedLanes(f)
<1>1. /\ IsFiniteSet(Parsed(f.lanes)) /\ Parsed(f.lanes) \subseteq Ids
      /\ \A l \in Parsed(f.lanes) : IsEntity("lanes", f.lanes[l])
  BY ParsedIs
<1>2. DOMAIN lanes = Parsed(f.lanes) /\ \A l \in DOMAIN lanes : lanes[l] \in Lane
  BY <1>1, LaneRead
<1>3. grouped = [l \in DOMAIN lanes |-> [lanes[l] EXCEPT !.group = ResolveGroup(lanes, l)]]
  BY DEF GroupedLanes
<1> HIDE DEF lanes, grouped
<1>4. ASSUME NEW l \in DOMAIN lanes
      PROVE  ResolveGroup(lanes, l) \in (DOMAIN lanes \ {l}) \cup {Absent} /\ ResolveGroup(lanes, l) \in Int
  BY <1>1, <1>2 DEF ResolveGroup, AnID, Absent, Ids
<1>5. ASSUME NEW l \in DOMAIN lanes
      PROVE  grouped[l] \in Lane /\ grouped[l].group = ResolveGroup(lanes, l)
  <2>1. grouped[l] = [lanes[l] EXCEPT !.group = ResolveGroup(lanes, l)]
    BY <1>3
  <2>2. lanes[l] = [order |-> lanes[l].order, group |-> lanes[l].group] /\ lanes[l].order \in Int
    BY <1>2 DEF Lane
  <2>3. grouped[l] = [order |-> lanes[l].order, group |-> ResolveGroup(lanes, l)]
    BY <2>1, <2>2
  <2> QED BY <1>4, <2>2, <2>3 DEF Lane
<1>6. IsTable(grouped) /\ DOMAIN grouped = DOMAIN lanes
  BY <1>1, <1>2, <1>3 DEF IsTable
<1>7. /\ DOMAIN FixLaneOrder(grouped) = DOMAIN grouped /\ IsTable(FixLaneOrder(grouped))
      /\ \A l \in DOMAIN grouped : /\ FixLaneOrder(grouped)[l] \in Lane
                                   /\ FixLaneOrder(grouped)[l].group = grouped[l].group
      /\ \A k, l \in DOMAIN grouped :
           FixLaneOrder(grouped)[k].order = FixLaneOrder(grouped)[l].order => k = l
  BY <1>5, <1>6, LanesAreApart
<1> QED BY <1>4, <1>5, <1>6, <1>7 DEF LanesAreSound, Lane, grouped

LEMMA ClipRead ==
  ASSUME NEW e, IsEntity("clips", e), Usable(e), ~Foreign(e)
  PROVE  /\ Less(e) = [lane |-> e.lane, kind |-> e.kind, of |-> e.of, effect |-> e.effect,
                       length |-> e.length]
         /\ Less(e) \in PlayedClips
<1>1. /\ e = [more |-> e.more, lane |-> e.lane, kind |-> e.kind, of |-> e.of,
              effect |-> e.effect, length |-> e.length]
      /\ e.lane \in Int /\ e.of \in Int /\ e.effect \in Int /\ e.length \in Int
  BY DEF IsEntity
<1>2. Less(e) = [field \in (DOMAIN e \ {"more"}) |-> e[field]]
  BY DEF Less, Restrict
<1>3. Less(e) = [lane |-> e.lane, kind |-> e.kind, of |-> e.of, effect |-> e.effect,
                 length |-> e.length]
  <2> DEFINE a == e.more
             b == e.lane
             k == e.kind
             o == e.of
             n == e.effect
             l == e.length
  <2>1. e = [more |-> a, lane |-> b, kind |-> k, of |-> o, effect |-> n, length |-> l]
    BY <1>1
  <2> HIDE DEF a, b, k, o, n, l
  <2>2. Less(e) = [lane |-> b, kind |-> k, of |-> o, effect |-> n, length |-> l]
    BY <1>2, <2>1
  <2> QED BY <2>2 DEF b, k, o, n, l
<1>4. e.kind \in PlayedKinds /\ e.length \in Ids
  <2>1. e.kind \in PlayedKinds
    BY DEF Usable, Foreign
  <2>2. e.length \in Int
    BY <1>1
  <2>3. e.length > 0
    BY DEF Usable
  <2> QED BY <2>1, <2>2, <2>3 DEF Ids
<1>5. e.lane \in Int /\ e.of \in Int /\ e.effect \in Int
  BY <1>1
<1> QED BY <1>3, <1>4, <1>5 DEF PlayedClips

LEMMA ClipsRead ==
  ASSUME NEW f, TableOf(f, "clips")
  PROVE  /\ IsTable(ReadClips(f)) /\ DOMAIN ReadClips(f) \subseteq Parsed(f.clips)
         /\ \A c \in DOMAIN ReadClips(f) : /\ ReadClips(f)[c] = Less(f.clips[c])
                                           /\ ReadClips(f)[c] \in PlayedClips
<1>1. /\ IsFiniteSet(Parsed(f.clips)) /\ Parsed(f.clips) \subseteq Ids
      /\ \A c \in Parsed(f.clips) : IsEntity("clips", f.clips[c])
  BY ParsedIs
<1> DEFINE read == {c \in Parsed(f.clips) : Usable(f.clips[c]) /\ ~Foreign(f.clips[c])}
<1>2. ReadClips(f) = [c \in read |-> Less(f.clips[c])]
  BY DEF ReadClips
<1>3. IsFiniteSet(read) /\ read \subseteq Parsed(f.clips)
  <2>1. read \in SUBSET Parsed(f.clips)
    OBVIOUS
  <2> HIDE DEF read
  <2> QED BY <1>1, <2>1, FS_Subset
<1>4. \A c \in read : Less(f.clips[c]) \in PlayedClips
  BY <1>1, ClipRead
<1> HIDE DEF read
<1> QED BY <1>1, <1>2, <1>3, <1>4 DEF IsTable

Resolved(f) ==
  LET tracks == ReadMixer(f)
      instruments == ReadInstruments(f, tracks, ChooseMaster(f))
  IN [master      |-> ChooseMaster(f),
      tracks      |-> tracks,
      instruments |-> instruments,
      patterns    |-> ReadPatterns(f, instruments),
      lanes       |-> FixLaneOrder(GroupedLanes(f)),
      clips       |-> ReadClips(f)]

LEMMA DanglingElsewhere ==
  ASSUME NEW p, NEW q, NEW clip, q.tracks = p.tracks, q.instruments = p.instruments,
         q.patterns = p.patterns, q.lanes = p.lanes
  PROVE  Dangling(q, clip) <=> Dangling(p, clip)
BY DEF Dangling

LEMMA DroppedAreGone ==
  ASSUME NEW p, p = [master |-> p.master, tracks |-> p.tracks, instruments |-> p.instruments,
                     patterns |-> p.patterns, lanes |-> p.lanes, clips |-> p.clips]
  PROVE  DropDanglingClips(p) =
           [master |-> p.master, tracks |-> p.tracks, instruments |-> p.instruments,
            patterns |-> p.patterns, lanes |-> p.lanes,
            clips |-> [c \in {c \in DOMAIN p.clips : ~Dangling(p, p.clips[c])} |-> p.clips[c]]]
<1> DEFINE clips == [c \in {c \in DOMAIN p.clips : ~Dangling(p, p.clips[c])} |-> p.clips[c]]
<1>1. DropDanglingClips(p) = [p EXCEPT !.clips = clips]
  BY DEF DropDanglingClips, Restrict
<1> HIDE DEF clips
<1>2. [p EXCEPT !.clips = clips] =
        [master |-> p.master, tracks |-> p.tracks, instruments |-> p.instruments,
         patterns |-> p.patterns, lanes |-> p.lanes, clips |-> clips]
  OBVIOUS
<1> QED BY <1>1, <1>2 DEF clips

LEMMA ReadIs ==
  ASSUME NEW f
  PROVE  /\ Read(f) = DropDanglingClips(Resolved(f))
         /\ Read(f).master = ChooseMaster(f) /\ Read(f).tracks = ReadMixer(f)
         /\ Read(f).instruments = ReadInstruments(f, ReadMixer(f), ChooseMaster(f))
         /\ Read(f).patterns = ReadPatterns(f, Read(f).instruments)
         /\ Read(f).lanes = FixLaneOrder(GroupedLanes(f))
         /\ Read(f).clips = [c \in {c \in DOMAIN ReadClips(f) : ~Dangling(Read(f), ReadClips(f)[c])}
                               |-> ReadClips(f)[c]]
         /\ Read(f) = [master |-> Read(f).master, tracks |-> Read(f).tracks,
                       instruments |-> Read(f).instruments, patterns |-> Read(f).patterns,
                       lanes |-> Read(f).lanes, clips |-> Read(f).clips]
<1> DEFINE p == Resolved(f)
<1>1. Read(f) = DropDanglingClips(p)
  BY DEF Read, Resolved, ReadMixer, ReadInstruments, ReadPatterns, ReadPattern, GroupedLanes
<1>2. /\ p = [master |-> p.master, tracks |-> p.tracks, instruments |-> p.instruments,
              patterns |-> p.patterns, lanes |-> p.lanes, clips |-> p.clips]
      /\ p.master = ChooseMaster(f) /\ p.tracks = ReadMixer(f)
      /\ p.instruments = ReadInstruments(f, ReadMixer(f), ChooseMaster(f))
      /\ p.patterns = ReadPatterns(f, p.instruments)
      /\ p.lanes = FixLaneOrder(GroupedLanes(f))
      /\ p.clips = ReadClips(f)
  BY DEF Resolved
<1> HIDE DEF p
<1> DEFINE clips == [c \in {c \in DOMAIN p.clips : ~Dangling(p, p.clips[c])} |-> p.clips[c]]
<1>3. Read(f) = [master |-> p.master, tracks |-> p.tracks, instruments |-> p.instruments,
                 patterns |-> p.patterns, lanes |-> p.lanes, clips |-> clips]
  BY <1>1, <1>2, DroppedAreGone
<1> HIDE DEF clips
<1>4. /\ Read(f).master = p.master /\ Read(f).tracks = p.tracks
      /\ Read(f).instruments = p.instruments /\ Read(f).patterns = p.patterns
      /\ Read(f).lanes = p.lanes /\ Read(f).clips = clips
  BY <1>3
<1>5. \A c \in DOMAIN p.clips : Dangling(Read(f), p.clips[c]) <=> Dangling(p, p.clips[c])
  BY <1>4, DanglingElsewhere
<1>6. clips = [c \in {c \in DOMAIN p.clips : ~Dangling(Read(f), p.clips[c])} |-> p.clips[c]]
  BY <1>5 DEF clips
<1> QED BY <1>1, <1>2, <1>3, <1>4, <1>6 DEF p

LEMMA ReadIsSound ==
  ASSUME NEW f, IsDocument(f)
  PROVE  IsSound(Read(f))
<1> DEFINE p == Read(f)
<1>1. /\ TableOf(f, "tracks") /\ TableOf(f, "instruments") /\ TableOf(f, "patterns")
      /\ TableOf(f, "lanes") /\ TableOf(f, "clips")
  BY DocumentTables
<1>2. /\ p.master = ChooseMaster(f) /\ p.tracks = ReadMixer(f)
      /\ p.instruments = ReadInstruments(f, p.tracks, p.master)
      /\ p.patterns = ReadPatterns(f, p.instruments)
      /\ p.lanes = FixLaneOrder(GroupedLanes(f))
      /\ p.clips = [c \in {c \in DOMAIN ReadClips(f) : ~Dangling(p, ReadClips(f)[c])}
                      |-> ReadClips(f)[c]]
      /\ p = [master |-> p.master, tracks |-> p.tracks, instruments |-> p.instruments,
              patterns |-> p.patterns, lanes |-> p.lanes, clips |-> p.clips]
  BY ReadIs
<1> HIDE DEF p
<1>3. MixerIsSound(p.tracks, p.master)
  BY <1>1, <1>2, MixerRead
<1>4. RoutesAreSound(p.instruments, p.tracks)
  <2>1. p.master \in DOMAIN p.tracks /\ p.master \in Int
    BY <1>3 DEF MixerIsSound, AreRouted, AreTracks, Ids
  <2> QED BY <1>1, <1>2, <2>1, InstrumentsRead
<1>5. NotesAreSound(p.patterns, p.instruments)
  BY <1>1, <1>2, PatternsRead
<1>6. LanesAreSound(p.lanes)
  BY <1>1, <1>2, LanesRead
<1>7. ClipsAreSound(p)
  <2>1. /\ IsTable(ReadClips(f))
        /\ \A c \in DOMAIN ReadClips(f) : ReadClips(f)[c] \in PlayedClips
    BY <1>1, ClipsRead
  <2> DEFINE kept == {c \in DOMAIN ReadClips(f) : ~Dangling(p, ReadClips(f)[c])}
  <2>2. kept \in SUBSET DOMAIN ReadClips(f) /\ \A c \in kept : ~Dangling(p, ReadClips(f)[c])
    OBVIOUS
  <2>3. p.clips = [c \in kept |-> ReadClips(f)[c]]
    BY <1>2
  <2> HIDE DEF kept
  <2>4. IsFiniteSet(kept) /\ kept \subseteq Ids
    BY <2>1, <2>2, FS_Subset DEF IsTable
  <2>5. IsTable(p.clips)
    BY <2>3, <2>4 DEF IsTable
  <2> QED BY <2>1, <2>2, <2>3, <2>5 DEF ClipsAreSound
<1> QED BY <1>2, <1>3, <1>4, <1>5, <1>6, <1>7 DEF IsSound, p

-----------------------------------------------------------------------------
(* A project is sound after a deletion, too *)

IsRecord(p) == p = [master |-> p.master, tracks |-> p.tracks, instruments |-> p.instruments,
                    patterns |-> p.patterns, lanes |-> p.lanes, clips |-> p.clips]

LEMMA FewerClips ==
  ASSUME NEW p, ClipsAreSound(p), NEW some \in SUBSET DOMAIN p.clips,
         NEW q, q.clips = Restrict(p.clips, some),
         \A c \in some : ~Dangling(q, p.clips[c])
  PROVE  ClipsAreSound(q) /\ DOMAIN q.clips \subseteq DOMAIN p.clips
<1>1. q.clips = [c \in some |-> p.clips[c]]
  BY DEF Restrict
<1>2. IsFiniteSet(some) /\ some \subseteq Ids
  BY FS_Subset DEF ClipsAreSound, IsTable
<1> QED BY <1>1, <1>2 DEF ClipsAreSound, IsTable

LEMMA ClipDeleted ==
  ASSUME NEW p, IsSound(p), NEW c
  PROVE  LET q == DeleteClip(p, c)
         IN /\ IsSound(q) /\ q.master = p.master /\ q.tracks = p.tracks
            /\ q.instruments = p.instruments /\ q.patterns = p.patterns
            /\ q.lanes = p.lanes /\ DOMAIN q.clips \subseteq DOMAIN p.clips
<1> DEFINE q == DeleteClip(p, c)
           clips == Restrict(p.clips, DOMAIN p.clips \ {c})
<1>1. IsRecord(p)
  BY DEF IsSound, IsRecord
<1>2. q = [p EXCEPT !.clips = clips]
  BY DEF DeleteClip
<1> HIDE DEF q, clips
<1>3. q = [master |-> p.master, tracks |-> p.tracks, instruments |-> p.instruments,
           patterns |-> p.patterns, lanes |-> p.lanes, clips |-> clips]
  BY <1>1, <1>2 DEF IsRecord
<1>4. /\ q.master = p.master /\ q.tracks = p.tracks /\ q.instruments = p.instruments
      /\ q.patterns = p.patterns /\ q.lanes = p.lanes /\ q.clips = clips
  BY <1>3
<1>5. \A x \in DOMAIN p.clips : ~Dangling(q, p.clips[x])
  BY <1>4, DanglingElsewhere DEF IsSound, ClipsAreSound
<1>6. ClipsAreSound(q) /\ DOMAIN q.clips \subseteq DOMAIN p.clips
  <2> DEFINE some == DOMAIN p.clips \ {c}
  <2>1. some \in SUBSET DOMAIN p.clips /\ q.clips = Restrict(p.clips, some)
    BY <1>4 DEF clips
  <2>2. \A x \in some : ~Dangling(q, p.clips[x])
    BY <1>5
  <2> HIDE DEF some
  <2> QED BY <2>1, <2>2, FewerClips DEF IsSound
<1>7. IsSound(q)
  BY <1>3, <1>4, <1>6 DEF IsSound
<1> QED BY <1>4, <1>6, <1>7 DEF q

LEMMA PatternDeleted ==
  ASSUME NEW p, IsSound(p), NEW d
  PROVE  LET q == DeletePattern(p, d)
         IN /\ IsSound(q) /\ q.master = p.master /\ q.tracks = p.tracks
            /\ q.instruments = p.instruments /\ DOMAIN q.patterns \subseteq DOMAIN p.patterns
            /\ q.lanes = p.lanes /\ DOMAIN q.clips \subseteq DOMAIN p.clips
<1> DEFINE q == DeletePattern(p, d)
           some == {c \in DOMAIN p.clips : ~(p.clips[c].kind = "pattern" /\ p.clips[c].of = d)}
           clips == Restrict(p.clips, some)
           patterns == Restrict(p.patterns, DOMAIN p.patterns \ {d})
<1>1. IsRecord(p)
  BY DEF IsSound, IsRecord
<1>2. q = [p EXCEPT !.patterns = patterns, !.clips = clips]
  BY DEF DeletePattern
<1> HIDE DEF q, clips, patterns
<1>3. q = [master |-> p.master, tracks |-> p.tracks, instruments |-> p.instruments,
           patterns |-> patterns, lanes |-> p.lanes, clips |-> clips]
  BY <1>1, <1>2 DEF IsRecord
<1>4. /\ q.master = p.master /\ q.tracks = p.tracks /\ q.instruments = p.instruments
      /\ q.patterns = patterns /\ q.lanes = p.lanes /\ q.clips = clips
  BY <1>3
<1>5. patterns = [x \in DOMAIN p.patterns \ {d} |-> p.patterns[x]]
  BY DEF patterns, Restrict
<1>6. NotesAreSound(patterns, p.instruments)
  <2>1. NotesAreSound(p.patterns, p.instruments)
    BY DEF IsSound
  <2>2. IsTable(patterns)
    BY <1>5, <2>1, FS_RemoveElement DEF IsTable, NotesAreSound
  <2> QED BY <1>5, <2>1, <2>2 DEF NotesAreSound
<1>7. ASSUME NEW c \in some PROVE ~Dangling(q, p.clips[c])
  <2>1. ~Dangling(p, p.clips[c])
    BY DEF IsSound, ClipsAreSound
  <2> QED BY <1>4, <1>5, <2>1 DEF Dangling
<1>8. some \in SUBSET DOMAIN p.clips
  OBVIOUS
<1>9. ClipsAreSound(q) /\ DOMAIN q.clips \subseteq DOMAIN p.clips
  <2> HIDE DEF some
  <2> QED BY <1>4, <1>7, <1>8, FewerClips DEF clips, IsSound
<1> HIDE DEF some
<1>10. IsSound(q)
  BY <1>3, <1>4, <1>6, <1>9 DEF IsSound
<1> QED BY <1>4, <1>5, <1>9, <1>10 DEF q

LEMMA InstrumentDeleted ==
  ASSUME NEW p, IsSound(p), NEW d
  PROVE  LET q == DeleteInstrument(p, d)
         IN /\ IsSound(q) /\ q.master = p.master /\ q.tracks = p.tracks
            /\ DOMAIN q.instruments \subseteq DOMAIN p.instruments
            /\ DOMAIN q.patterns \subseteq DOMAIN p.patterns
            /\ q.lanes = p.lanes /\ DOMAIN q.clips \subseteq DOMAIN p.clips
<1> DEFINE q == DeleteInstrument(p, d)
           some == {c \in DOMAIN p.clips : ~(p.clips[c].kind = "instrument curve"
                                             /\ p.clips[c].of = d)}
           clips == Restrict(p.clips, some)
           instruments == Restrict(p.instruments, DOMAIN p.instruments \ {d})
           patterns == [x \in DOMAIN p.patterns |->
                [notes |-> Restrict(p.patterns[x].notes, DOMAIN p.patterns[x].notes \ {d})]]
<1>1. IsRecord(p)
  BY DEF IsSound, IsRecord
<1>2. q = [p EXCEPT !.instruments = instruments, !.patterns = patterns, !.clips = clips]
  BY DEF DeleteInstrument
<1> HIDE DEF q, clips, patterns, instruments
<1>3. q = [master |-> p.master, tracks |-> p.tracks, instruments |-> instruments,
           patterns |-> patterns, lanes |-> p.lanes, clips |-> clips]
  BY <1>1, <1>2 DEF IsRecord
<1>4. /\ q.master = p.master /\ q.tracks = p.tracks /\ q.instruments = instruments
      /\ q.patterns = patterns /\ q.lanes = p.lanes /\ q.clips = clips
  BY <1>3
<1>5. instruments = [x \in DOMAIN p.instruments \ {d} |-> p.instruments[x]]
  BY DEF instruments, Restrict
<1>6. RoutesAreSound(instruments, p.tracks)
  <2>1. RoutesAreSound(p.instruments, p.tracks)
    BY DEF IsSound
  <2>2. IsTable(instruments)
    BY <1>5, <2>1, FS_RemoveElement DEF IsTable, RoutesAreSound
  <2> QED BY <1>5, <2>1, <2>2 DEF RoutesAreSound
<1>7. NotesAreSound(patterns, instruments)
  <2>1. NotesAreSound(p.patterns, p.instruments)
    BY DEF IsSound
  <2>2. DOMAIN patterns = DOMAIN p.patterns /\ IsTable(patterns)
    BY <2>1 DEF IsTable, NotesAreSound, patterns
  <2>3. ASSUME NEW x \in DOMAIN patterns
        PROVE  /\ patterns[x] = [notes |-> patterns[x].notes]
               /\ patterns[x].notes \in [DOMAIN patterns[x].notes -> SUBSET Ids]
               /\ DOMAIN patterns[x].notes \subseteq DOMAIN instruments
    <3> DEFINE notes == p.patterns[x].notes
               left == [i \in DOMAIN notes \ {d} |-> notes[i]]
    <3>1. patterns[x] = [notes |-> left]
      BY <2>2 DEF patterns, Restrict
    <3>2. notes \in [DOMAIN notes -> SUBSET Ids] /\ DOMAIN notes \subseteq DOMAIN p.instruments
      BY <2>1, <2>2 DEF NotesAreSound
    <3> HIDE DEF notes
    <3>3. left \in [DOMAIN left -> SUBSET Ids] /\ DOMAIN left \subseteq DOMAIN p.instruments \ {d}
      BY <3>2
    <3> HIDE DEF left
    <3>4. DOMAIN instruments = DOMAIN p.instruments \ {d}
      BY <1>5
    <3> QED BY <3>1, <3>3, <3>4
  <2> QED BY <2>2, <2>3 DEF NotesAreSound
<1>8. ASSUME NEW c \in some PROVE ~Dangling(q, p.clips[c])
  <2>1. ~Dangling(p, p.clips[c])
    BY DEF IsSound, ClipsAreSound
  <2>2. DOMAIN patterns = DOMAIN p.patterns
    BY DEF patterns
  <2> QED BY <1>4, <1>5, <2>1, <2>2 DEF Dangling
<1>9. some \in SUBSET DOMAIN p.clips
  OBVIOUS
<1> HIDE DEF some
<1>10. ClipsAreSound(q) /\ DOMAIN q.clips \subseteq DOMAIN p.clips
  BY <1>4, <1>8, <1>9, FewerClips DEF clips, IsSound
<1>11. IsSound(q)
  BY <1>3, <1>4, <1>6, <1>7, <1>10 DEF IsSound
<1>12. DOMAIN q.patterns = DOMAIN p.patterns
  BY <1>4 DEF patterns
<1> QED BY <1>4, <1>5, <1>10, <1>11, <1>12 DEF q

LEMMA LaneDeleted ==
  ASSUME NEW p, IsSound(p), NEW d
  PROVE  LET q == DeleteLane(p, d)
         IN /\ IsSound(q) /\ q.master = p.master /\ q.tracks = p.tracks
            /\ q.instruments = p.instruments /\ q.patterns = p.patterns
            /\ DOMAIN q.lanes \subseteq DOMAIN p.lanes
            /\ DOMAIN q.clips \subseteq DOMAIN p.clips
<1> DEFINE q == DeleteLane(p, d)
           some == {c \in DOMAIN p.clips : p.clips[c].lane # d}
           clips == Restrict(p.clips, some)
           lanes == [k \in DOMAIN p.lanes \ {d} |->
                       IF p.lanes[k].group = d THEN [p.lanes[k] EXCEPT !.group = Absent]
                       ELSE p.lanes[k]]
<1>1. IsRecord(p)
  BY DEF IsSound, IsRecord
<1>2. q = [p EXCEPT !.lanes = lanes, !.clips = clips]
  BY DEF DeleteLane
<1> HIDE DEF q, clips, lanes
<1>3. q = [master |-> p.master, tracks |-> p.tracks, instruments |-> p.instruments,
           patterns |-> p.patterns, lanes |-> lanes, clips |-> clips]
  BY <1>1, <1>2 DEF IsRecord
<1>4. /\ q.master = p.master /\ q.tracks = p.tracks /\ q.instruments = p.instruments
      /\ q.patterns = p.patterns /\ q.lanes = lanes /\ q.clips = clips
  BY <1>3
<1>5. LanesAreSound(lanes) /\ DOMAIN lanes = DOMAIN p.lanes \ {d}
  <2>1. LanesAreSound(p.lanes)
    BY DEF IsSound
  <2>2. DOMAIN lanes = DOMAIN p.lanes \ {d} /\ IsTable(lanes)
    BY <2>1, FS_RemoveElement DEF IsTable, LanesAreSound, lanes
  <2>3. ASSUME NEW k \in DOMAIN lanes
        PROVE  /\ lanes[k] \in Lane /\ lanes[k].order = p.lanes[k].order
               /\ lanes[k].group \in (DOMAIN lanes \ {k}) \cup {Absent}
    <3>1. /\ p.lanes[k] \in Lane /\ k \in DOMAIN p.lanes
          /\ p.lanes[k].group \in (DOMAIN p.lanes \ {k}) \cup {Absent}
      BY <2>1, <2>2 DEF LanesAreSound, Lane
    <3>2. /\ p.lanes[k] = [order |-> p.lanes[k].order, group |-> p.lanes[k].group]
          /\ p.lanes[k].order \in Int
      BY <3>1 DEF Lane
    <3>3. lanes[k] = IF p.lanes[k].group = d THEN [p.lanes[k] EXCEPT !.group = Absent]
                     ELSE p.lanes[k]
      BY <2>2 DEF lanes
    <3>4. CASE p.lanes[k].group = d
      <4>1. lanes[k] = [order |-> p.lanes[k].order, group |-> Absent]
        BY <3>2, <3>3, <3>4
      <4> QED BY <3>2, <4>1 DEF Lane, Absent
    <3>5. CASE p.lanes[k].group # d
      BY <2>2, <3>1, <3>3, <3>5
    <3> QED BY <3>4, <3>5
  <2>4. \A k, l \in DOMAIN lanes : lanes[k].order = lanes[l].order => k = l
    BY <2>1, <2>2, <2>3 DEF LanesAreSound
  <2> QED BY <2>2, <2>3, <2>4 DEF LanesAreSound, Lane
<1>6. ASSUME NEW c \in some PROVE ~Dangling(q, p.clips[c])
  <2>1. ~Dangling(p, p.clips[c])
    BY DEF IsSound, ClipsAreSound
  <2> QED BY <1>4, <1>5, <2>1 DEF Dangling
<1>7. some \in SUBSET DOMAIN p.clips
  OBVIOUS
<1> HIDE DEF some
<1>8. ClipsAreSound(q) /\ DOMAIN q.clips \subseteq DOMAIN p.clips
  BY <1>4, <1>6, <1>7, FewerClips DEF clips, IsSound
<1>9. IsSound(q)
  BY <1>3, <1>4, <1>5, <1>8 DEF IsSound
<1> QED BY <1>4, <1>5, <1>8, <1>9 DEF q

LEMMA MixerWithout ==
  ASSUME NEW tracks, NEW master, MixerIsSound(tracks, master),
         NEW d \in DOMAIN tracks, d # master,
         NEW left, left = [k \in DOMAIN tracks \ {d} |->
                             IF tracks[k].output = d THEN [tracks[k] EXCEPT !.output = master]
                             ELSE tracks[k]]
  PROVE  /\ MixerIsSound(left, master) /\ DOMAIN left = DOMAIN tracks \ {d}
         /\ \A k \in DOMAIN left : left[k].chain = tracks[k].chain
<1>1. /\ AreTracks(tracks) /\ master \in DOMAIN tracks /\ tracks[master].output = Absent
      /\ \A t \in DOMAIN tracks \ {master} : tracks[t].output \in DOMAIN tracks
      /\ \A t \in DOMAIN tracks : AllIds(tracks[t].chain)
  BY DEF MixerIsSound, AreRouted
<1>2. PICK rank : Falls(rank, tracks, master, DOMAIN tracks)
  BY DEF MixerIsSound, Anchored
<1>3. DOMAIN tracks \subseteq Ids /\ master \in Int /\ IsFiniteSet(DOMAIN left)
  BY <1>1, FS_RemoveElement DEF AreTracks, Ids
<1>4. ASSUME NEW k \in DOMAIN left
      PROVE  /\ k \in DOMAIN tracks /\ left[k] \in Entity /\ left[k].chain = tracks[k].chain
             /\ left[k].output = IF tracks[k].output = d THEN master ELSE tracks[k].output
  <2>1. k \in DOMAIN tracks /\ tracks[k] \in Entity
    BY <1>1 DEF AreTracks
  <2>2. left[k] = IF tracks[k].output = d THEN [tracks[k] EXCEPT !.output = master] ELSE tracks[k]
    OBVIOUS
  <2>3. /\ tracks[k] = [output |-> tracks[k].output, chain |-> tracks[k].chain]
        /\ tracks[k].chain \in Seq(Int)
    BY <2>1 DEF Entity
  <2>4. CASE tracks[k].output = d
    <3>1. left[k] = [output |-> master, chain |-> tracks[k].chain]
      BY <2>2, <2>3, <2>4
    <3> QED BY <1>3, <2>1, <2>3, <2>4, <3>1 DEF Entity
  <2>5. CASE tracks[k].output # d
    BY <2>1, <2>2, <2>5
  <2> QED BY <2>4, <2>5
<1>5. DOMAIN left = DOMAIN tracks \ {d} /\ left = [k \in DOMAIN left |-> left[k]]
  OBVIOUS
<1>6. AreRouted(left, master)
  <2>1. AreTracks(left)
    BY <1>3, <1>4, <1>5 DEF AreTracks
  <2>2. master \in DOMAIN left /\ left[master].output = Absent
    <3>1. master \in DOMAIN left
      BY <1>1, <1>5
    <3>2. Absent # d
      BY <1>3 DEF Ids, Absent
    <3> QED BY <1>1, <1>4, <3>1, <3>2
  <2>3. ASSUME NEW k \in DOMAIN left \ {master} PROVE left[k].output \in DOMAIN left
    BY <1>1, <1>4, <1>5
  <2> QED BY <2>1, <2>2, <2>3 DEF AreRouted
<1> DEFINE lower == [k \in DOMAIN left |-> IF k = master THEN 0 ELSE rank[k]]
<1>7. Falls(lower, left, master, DOMAIN left)
  <2>1. /\ \A k \in DOMAIN tracks : rank[k] \in Nat
        /\ \A k \in DOMAIN tracks \ {master} : rank[tracks[k].output] < rank[k]
    BY <1>2 DEF Falls
  <2>2. lower \in [DOMAIN left -> Nat]
    BY <1>5, <2>1
  <2>3. \A k \in DOMAIN left : lower[k] = IF k = master THEN 0 ELSE rank[k]
    OBVIOUS
  <2> HIDE DEF lower
  <2>4. ASSUME NEW k \in DOMAIN left \ {master}
        PROVE  left[k].output \in DOMAIN left /\ lower[left[k].output] < lower[k]
    <3> DEFINE o == left[k].output
               was == tracks[k].output
    <3>1. o \in DOMAIN left /\ was \in DOMAIN tracks /\ o = IF was = d THEN master ELSE was
      BY <1>1, <1>4, <1>5, <1>6 DEF AreRouted
    <3>2. rank[was] < rank[k] /\ rank[was] \in Nat /\ rank[k] \in Nat /\ lower[k] = rank[k]
      BY <1>4, <2>1, <2>3, <3>1
    <3> HIDE DEF o, was
    <3>3. CASE o = master
      BY <2>3, <3>1, <3>2, <3>3 DEF o
    <3>4. CASE o # master
      BY <2>3, <3>1, <3>2, <3>4 DEF o
    <3> QED BY <3>3, <3>4
  <2> QED BY <2>2, <2>4 DEF Falls
<1>8. Anchored(left, master, DOMAIN left)
  BY <1>6, <1>7 DEF Anchored, AreRouted
<1> QED BY <1>1, <1>4, <1>5, <1>6, <1>8 DEF MixerIsSound

LEMMA RoutesWithout ==
  ASSUME NEW routing \in Seq(Routes), routing # <<>>, NEW master \in Int, NEW d,
         NEW left, left = [n \in DOMAIN routing |->
                             IF routing[n].track = d THEN [routing[n] EXCEPT !.track = master]
                             ELSE routing[n]]
  PROVE  /\ left \in Seq(Routes) /\ left # <<>> /\ DOMAIN left = DOMAIN routing
         /\ \A n \in DOMAIN left : left[n].track = IF routing[n].track = d THEN master
                                                   ELSE routing[n].track
<1>1. ASSUME NEW n \in DOMAIN routing
      PROVE  /\ left[n] \in Routes
             /\ left[n].track = IF routing[n].track = d THEN master ELSE routing[n].track
  <2>1. routing[n] \in Routes
    OBVIOUS
  <2>2. left[n] = IF routing[n].track = d THEN [routing[n] EXCEPT !.track = master] ELSE routing[n]
    OBVIOUS
  <2>3. /\ routing[n] = [port |-> routing[n].port, track |-> routing[n].track]
        /\ routing[n].port \in Int
    BY <2>1 DEF Routes
  <2>4. CASE routing[n].track = d
    <3>1. left[n] = [port |-> routing[n].port, track |-> master]
      BY <2>2, <2>3, <2>4
    <3> QED BY <2>3, <2>4, <3>1 DEF Routes
  <2>5. CASE routing[n].track # d
    BY <2>1, <2>2, <2>5
  <2> QED BY <2>4, <2>5
<1>2. DOMAIN routing = 1..Len(routing) /\ Len(routing) \in Nat /\ DOMAIN left = DOMAIN routing
  OBVIOUS
<1>3. left \in [1..Len(routing) -> Routes]
  BY <1>1, <1>2
<1>4. left \in Seq(Routes)
  BY <1>2, <1>3
<1>5. left # <<>>
  <2>1. Len(routing) # 0
    OBVIOUS
  <2>2. 1 \in DOMAIN left /\ ~(1 \in DOMAIN <<>>)
    BY <1>2, <2>1
  <2> QED BY <2>2
<1> QED BY <1>1, <1>2, <1>4, <1>5

LEMMA TrackDeleted ==
  ASSUME NEW p, IsSound(p), NEW d \in DOMAIN p.tracks, d # p.master
  PROVE  LET q == DeleteTrack(p, d)
         IN /\ IsSound(q) /\ q.master = p.master
            /\ DOMAIN q.tracks \subseteq DOMAIN p.tracks
            /\ DOMAIN q.instruments = DOMAIN p.instruments /\ q.patterns = p.patterns
            /\ q.lanes = p.lanes /\ DOMAIN q.clips \subseteq DOMAIN p.clips
<1> DEFINE q == DeleteTrack(p, d)
           tracks == [k \in DOMAIN p.tracks \ {d} |->
                        IF p.tracks[k].output = d THEN [p.tracks[k] EXCEPT !.output = p.master]
                        ELSE p.tracks[k]]
           routing(i) == [n \in DOMAIN p.instruments[i].routing |->
                             IF p.instruments[i].routing[n].track = d
                             THEN [p.instruments[i].routing[n] EXCEPT !.track = p.master]
                             ELSE p.instruments[i].routing[n]]
           instruments == [i \in DOMAIN p.instruments |-> [routing |-> routing(i)]]
           some == {c \in DOMAIN p.clips :
                      ~(p.clips[c].kind \in {"track curve", "effect curve"} /\ p.clips[c].of = d)}
           clips == [c \in some |->
                       IF p.clips[c].kind = "audio" /\ p.clips[c].of = d
                       THEN [p.clips[c] EXCEPT !.of = p.master] ELSE p.clips[c]]
<1>1. IsRecord(p)
  BY DEF IsSound, IsRecord
<1>2. q = [p EXCEPT !.tracks = tracks, !.instruments = instruments, !.clips = clips]
  BY DEF DeleteTrack
<1> HIDE DEF q, clips, tracks, instruments
<1>3. q = [master |-> p.master, tracks |-> tracks, instruments |-> instruments,
           patterns |-> p.patterns, lanes |-> p.lanes, clips |-> clips]
  BY <1>1, <1>2 DEF IsRecord
<1>4. /\ q.master = p.master /\ q.tracks = tracks /\ q.instruments = instruments
      /\ q.patterns = p.patterns /\ q.lanes = p.lanes /\ q.clips = clips
  BY <1>3
<1>5. /\ MixerIsSound(tracks, p.master) /\ DOMAIN tracks = DOMAIN p.tracks \ {d}
      /\ \A k \in DOMAIN tracks : tracks[k].chain = p.tracks[k].chain
  <2>1. MixerIsSound(p.tracks, p.master)
    BY DEF IsSound
  <2> QED BY <2>1, MixerWithout DEF tracks
<1>6. p.master \in DOMAIN tracks /\ p.master \in Int
  BY <1>5 DEF MixerIsSound, AreRouted, AreTracks, Ids
<1>7. DOMAIN instruments = DOMAIN p.instruments /\ RoutesAreSound(instruments, tracks)
  <2>1. RoutesAreSound(p.instruments, p.tracks)
    BY DEF IsSound
  <2>2. DOMAIN instruments = DOMAIN p.instruments /\ IsTable(instruments)
    BY <2>1 DEF IsTable, RoutesAreSound, instruments
  <2>3. ASSUME NEW i \in DOMAIN instruments
        PROVE  /\ instruments[i] \in [routing : Seq(Routes)] /\ instruments[i].routing # <<>>
               /\ \A n \in DOMAIN instruments[i].routing :
                    instruments[i].routing[n].track \in DOMAIN tracks
    <3> DEFINE old == p.instruments[i].routing
               new == routing(i)
    <3>1. /\ old \in Seq(Routes) /\ old # <<>>
          /\ \A n \in DOMAIN old : old[n].track \in DOMAIN p.tracks
      BY <2>1, <2>2 DEF RoutesAreSound
    <3>2. new = [n \in DOMAIN old |-> IF old[n].track = d THEN [old[n] EXCEPT !.track = p.master]
                                      ELSE old[n]]
      OBVIOUS
    <3>3. instruments[i] = [routing |-> new]
      BY <2>2 DEF instruments
    <3> HIDE DEF old, new
    <3>4. /\ new \in Seq(Routes) /\ new # <<>> /\ DOMAIN new = DOMAIN old
          /\ \A n \in DOMAIN new : new[n].track = IF old[n].track = d THEN p.master ELSE old[n].track
      <4> DEFINE m == p.master
      <4>1. m \in Int /\ new = [n \in DOMAIN old |->
                                  IF old[n].track = d THEN [old[n] EXCEPT !.track = m] ELSE old[n]]
        BY <1>6, <3>2
      <4> HIDE DEF m
      <4>2. /\ new \in Seq(Routes) /\ new # <<>> /\ DOMAIN new = DOMAIN old
            /\ \A n \in DOMAIN new : new[n].track = IF old[n].track = d THEN m ELSE old[n].track
        BY <3>1, <4>1, RoutesWithout, SMTT(30)
      <4> QED BY <4>2 DEF m
    <3>5. \A n \in DOMAIN new : new[n].track \in DOMAIN tracks
      BY <1>5, <1>6, <3>1, <3>4
    <3> QED BY <3>3, <3>4, <3>5
  <2> QED BY <2>2, <2>3 DEF RoutesAreSound
<1>8. NotesAreSound(p.patterns, instruments)
  BY <1>7 DEF NotesAreSound, IsSound
<1>9. DOMAIN clips = some /\ some \subseteq DOMAIN p.clips /\ IsTable(clips)
  <2>1. some \in SUBSET DOMAIN p.clips
    OBVIOUS
  <2> HIDE DEF some
  <2>2. IsFiniteSet(some) /\ some \subseteq Ids
    BY <2>1, FS_Subset DEF IsSound, ClipsAreSound, IsTable
  <2> QED BY <2>1, <2>2 DEF IsTable, clips
<1>10. ASSUME NEW c \in some
       PROVE  clips[c] \in PlayedClips /\ ~Dangling(q, clips[c])
  <2>1. p.clips[c] \in PlayedClips /\ ~Dangling(p, p.clips[c])
    BY <1>9 DEF IsSound, ClipsAreSound
  <2>2. ~(p.clips[c].kind \in {"track curve", "effect curve"} /\ p.clips[c].of = d)
    OBVIOUS
  <2>3. clips[c] = IF p.clips[c].kind = "audio" /\ p.clips[c].of = d
                   THEN [p.clips[c] EXCEPT !.of = p.master] ELSE p.clips[c]
    BY DEF clips
  <2> HIDE DEF some
  <2> DEFINE clip == p.clips[c]
  <2>4. clip = [lane |-> clip.lane, kind |-> clip.kind, of |-> clip.of,
                effect |-> clip.effect, length |-> clip.length]
    BY <2>1 DEF PlayedClips
  <2>5. CASE clip.kind = "audio" /\ clip.of = d
    <3>1. clips[c] = [lane |-> clip.lane, kind |-> clip.kind, of |-> p.master,
                      effect |-> clip.effect, length |-> clip.length]
      BY <2>3, <2>4, <2>5
    <3> HIDE DEF clip
    <3>2. /\ clip.lane \in Int /\ clip.kind \in PlayedKinds /\ clip.effect \in Int
          /\ clip.length \in Ids
      BY <2>1 DEF PlayedClips, clip
    <3>3. clips[c] \in PlayedClips
      BY <1>6, <3>1, <3>2 DEF PlayedClips
    <3>4. clip.lane \in DOMAIN p.lanes
      BY <2>1 DEF Dangling, clip
    <3>5. ~Dangling(q, clips[c])
      <4>1. /\ clips[c].kind = "audio" /\ clips[c].of = p.master /\ clips[c].lane = clip.lane
        BY <2>5, <3>1
      <4> QED BY <1>4, <1>6, <3>4, <4>1 DEF Dangling
    <3> QED BY <3>3, <3>5
  <2>6. CASE ~(clip.kind = "audio" /\ clip.of = d)
    <3>1. clips[c] = clip
      BY <2>3, <2>6
    <3>2. ~Dangling(q, clip)
      <4> HIDE DEF clip
      <4>1. ~Dangling(p, clip)
        BY <2>1 DEF clip
      <4>2. clip.kind \in {"audio", "track curve", "effect curve"} => clip.of \in DOMAIN tracks
        BY <1>5, <2>2, <2>6, <4>1 DEF Dangling, clip
      <4>3. clip.kind = "effect curve" => EffectIsLoaded(tracks, clip)
        <5>1. clip.kind = "effect curve" => EffectIsLoaded(p.tracks, clip)
          BY <4>1 DEF Dangling
        <5> QED BY <1>5, <4>2, <5>1 DEF EffectIsLoaded
      <4> QED BY <1>4, <1>7, <4>1, <4>2, <4>3 DEF Dangling
    <3> QED BY <2>1, <3>1, <3>2
  <2> QED BY <2>5, <2>6
<1> HIDE DEF some
<1>11. ClipsAreSound(q)
  BY <1>4, <1>9, <1>10 DEF ClipsAreSound
<1>12. IsSound(q)
  BY <1>3, <1>4, <1>5, <1>7, <1>8, <1>11 DEF IsSound
<1> QED BY <1>4, <1>5, <1>7, <1>9, <1>12 DEF q

\* Whatever is deleted, the project is sound and nothing has been added.
LEMMA DeletedFrom ==
  ASSUME NEW p, IsSound(p), NEW table \in Tables, NEW id \in DOMAIN p[table],
         ~(table = "tracks" /\ id = p.master)
  PROVE  /\ IsSound(DeleteFrom(p, table, id))
         /\ \A t \in Tables : DOMAIN DeleteFrom(p, table, id)[t] \subseteq DOMAIN p[t]
<1> DEFINE q == DeleteFrom(p, table, id)
<1>0. ASSUME IsSound(q),
             DOMAIN q.tracks \subseteq DOMAIN p.tracks,
             DOMAIN q.instruments \subseteq DOMAIN p.instruments,
             DOMAIN q.patterns \subseteq DOMAIN p.patterns,
             DOMAIN q.lanes \subseteq DOMAIN p.lanes,
             DOMAIN q.clips \subseteq DOMAIN p.clips
      PROVE  IsSound(q) /\ \A t \in Tables : DOMAIN q[t] \subseteq DOMAIN p[t]
  <2> HIDE DEF q
  <2> QED BY <1>0 DEF Tables
<1>1. CASE table = "tracks"
  <2>1. q = DeleteTrack(p, id) /\ id \in DOMAIN p.tracks /\ id # p.master
    BY <1>1 DEF DeleteFrom
  <2> HIDE DEF q
  <2> QED BY <1>0, <2>1, TrackDeleted DEF q
<1>2. CASE table = "instruments"
  <2>1. q = DeleteInstrument(p, id)
    BY <1>2 DEF DeleteFrom
  <2> HIDE DEF q
  <2> QED BY <1>0, <2>1, InstrumentDeleted DEF q
<1>3. CASE table = "patterns"
  <2>1. q = DeletePattern(p, id)
    BY <1>3 DEF DeleteFrom
  <2> HIDE DEF q
  <2> QED BY <1>0, <2>1, PatternDeleted DEF q
<1>4. CASE table = "lanes"
  <2>1. q = DeleteLane(p, id)
    BY <1>4 DEF DeleteFrom
  <2> HIDE DEF q
  <2> QED BY <1>0, <2>1, LaneDeleted DEF q
<1>5. CASE table = "clips"
  <2>1. q = DeleteClip(p, id)
    BY <1>5 DEF DeleteFrom
  <2> HIDE DEF q
  <2> QED BY <1>0, <2>1, ClipDeleted DEF q
<1> QED BY <1>1, <1>2, <1>3, <1>4, <1>5 DEF Tables

-----------------------------------------------------------------------------
(* What is written can be read *)

\* What the model keeps of an entity.
Known(table, x) ==
  CASE table = "tracks"      -> x \in Entity
    [] table = "instruments" -> x \in [routing : Seq(Routes)]
    [] table = "patterns"    -> /\ x = [notes |-> x.notes]
                                /\ x.notes \in [DOMAIN x.notes -> SUBSET Int]
    [] table = "lanes"       -> x \in Lane
    [] table = "clips"       -> x \in PlayedClips

LEMMA TrackWritten ==
  ASSUME NEW x \in Entity, NEW more \in BOOLEAN
  PROVE  /\ With(x, more) = [more |-> more, output |-> x.output, chain |-> x.chain]
         /\ IsEntity("tracks", With(x, more)) /\ With(x, more).more = more
<1>1. With(x, more) = [more |-> more, output |-> x.output, chain |-> x.chain]
  BY DEF With, Entity
<1>2. x.output \in Int /\ x.chain \in Seq(Int)
  BY DEF Entity
<1> QED BY <1>1, <1>2 DEF IsEntity

LEMMA InstrumentWritten ==
  ASSUME NEW x \in [routing : Seq(Routes)], NEW more \in BOOLEAN
  PROVE  /\ With(x, more) = [more |-> more, routing |-> x.routing]
         /\ IsEntity("instruments", With(x, more)) /\ With(x, more).more = more
<1>1. With(x, more) = [more |-> more, routing |-> x.routing]
  BY DEF With
<1>2. x.routing \in Seq(Routes)
  OBVIOUS
<1>3. With(x, more) \in [more : BOOLEAN, routing : Seq(Routes)]
  BY <1>1, <1>2
<1> QED BY <1>1, <1>3 DEF IsEntity, Routes

LEMMA PatternWritten ==
  ASSUME NEW x, Known("patterns", x), NEW more \in BOOLEAN
  PROVE  /\ With(x, more) = [more |-> more, notes |-> x.notes]
         /\ IsEntity("patterns", With(x, more)) /\ With(x, more).more = more
<1>1. x = [notes |-> x.notes] /\ x.notes \in [DOMAIN x.notes -> SUBSET Int]
  BY DEF Known
<1>2. With(x, more) = [more |-> more, notes |-> x.notes]
  <2> DEFINE notes == x.notes
  <2>1. x = [notes |-> notes]
    BY <1>1
  <2> HIDE DEF notes
  <2>2. With(x, more) = [more |-> more, notes |-> notes]
    BY <2>1 DEF With
  <2> QED BY <2>2 DEF notes
<1>3. With(x, more).more = more /\ With(x, more).notes = x.notes
  BY <1>2
<1> QED BY <1>1, <1>2, <1>3 DEF IsEntity

LEMMA LaneWritten ==
  ASSUME NEW x \in Lane, NEW more \in BOOLEAN
  PROVE  /\ With(x, more) = [more |-> more, order |-> x.order, group |-> x.group]
         /\ IsEntity("lanes", With(x, more)) /\ With(x, more).more = more
<1>1. With(x, more) = [more |-> more, order |-> x.order, group |-> x.group]
  BY DEF With, Lane
<1>2. x.order \in Int /\ x.group \in Int
  BY DEF Lane
<1> QED BY <1>1, <1>2 DEF IsEntity

LEMMA ClipWritten ==
  ASSUME NEW x \in PlayedClips, NEW more \in BOOLEAN
  PROVE  /\ With(x, more) = [more |-> more, lane |-> x.lane, kind |-> x.kind, of |-> x.of,
                             effect |-> x.effect, length |-> x.length]
         /\ IsEntity("clips", With(x, more)) /\ With(x, more).more = more
         /\ ~Foreign(With(x, more)) /\ x.kind # "unsaid"
<1>1. With(x, more) = [more |-> more, lane |-> x.lane, kind |-> x.kind, of |-> x.of,
                       effect |-> x.effect, length |-> x.length]
  BY DEF With, PlayedClips
<1>2. /\ x.lane \in Int /\ x.of \in Int /\ x.effect \in Int /\ x.length \in Int
      /\ x.kind \in PlayedKinds
  BY DEF PlayedClips, Ids
<1>3. x.kind # "unsaid"
  BY <1>2 DEF PlayedKinds
<1> DEFINE e == With(x, more)
<1>4. /\ e.more = more /\ e.lane = x.lane /\ e.kind = x.kind /\ e.of = x.of
      /\ e.effect = x.effect /\ e.length = x.length
  BY <1>1
<1>5. IsEntity("clips", e)
  <2> HIDE DEF e
  <2>1. e = [more |-> e.more, lane |-> e.lane, kind |-> e.kind, of |-> e.of,
             effect |-> e.effect, length |-> e.length]
    BY <1>1, <1>4 DEF e
  <2> QED BY <1>2, <1>4, <2>1 DEF IsEntity
<1> HIDE DEF e
<1> QED BY <1>1, <1>2, <1>3, <1>4, <1>5 DEF Foreign, e

LEMMA KnownIsWritten ==
  ASSUME NEW table \in Tables, NEW x, Known(table, x), NEW more \in BOOLEAN
  PROVE  IsEntity(table, With(x, more)) /\ With(x, more).more = more
<1>1. CASE table = "tracks"
  BY <1>1, TrackWritten DEF Known
<1>2. CASE table = "instruments"
  <2>1. x \in [routing : Seq(Routes)]
    BY <1>2 DEF Known
  <2> QED BY <1>2, <2>1, InstrumentWritten
<1>3. CASE table = "patterns"
  BY <1>3, PatternWritten
<1>4. CASE table = "lanes"
  BY <1>4, LaneWritten DEF Known
<1>5. CASE table = "clips"
  BY <1>5, ClipWritten DEF Known
<1> QED BY <1>1, <1>2, <1>3, <1>4, <1>5 DEF Tables

LEMMA SoundTables ==
  ASSUME NEW p, IsSound(p), NEW table \in Tables
  PROVE  /\ IsTable(p[table]) /\ Strange \notin DOMAIN p[table]
         /\ \A id \in DOMAIN p[table] : Known(table, p[table][id])
<1>1. Strange \notin Ids
  BY DEF Strange, Ids
<1> SUFFICES IsTable(p[table]) /\ \A id \in DOMAIN p[table] : Known(table, p[table][id])
  BY <1>1 DEF IsTable
<1>2. CASE table = "tracks"
  BY <1>2 DEF IsSound, MixerIsSound, AreRouted, AreTracks, IsTable, Known
<1>3. CASE table = "instruments"
  BY <1>3 DEF IsSound, RoutesAreSound, Known
<1>4. CASE table = "patterns"
  <2>1. NotesAreSound(p.patterns, p.instruments)
    BY DEF IsSound
  <2>2. \A id \in DOMAIN p.patterns : p.patterns[id].notes \in [DOMAIN p.patterns[id].notes -> SUBSET Int]
    <3> TAKE id \in DOMAIN p.patterns
    <3> DEFINE notes == p.patterns[id].notes
    <3>1. notes \in [DOMAIN notes -> SUBSET Ids]
      BY <2>1 DEF NotesAreSound
    <3> HIDE DEF notes
    <3>2. notes \in [DOMAIN notes -> SUBSET Int]
      BY <3>1 DEF Ids
    <3> QED BY <3>2 DEF notes
  <2> QED BY <1>4, <2>1, <2>2 DEF NotesAreSound, Known
<1>5. CASE table = "lanes"
  BY <1>5 DEF IsSound, LanesAreSound, Known, Lane
<1>6. CASE table = "clips"
  BY <1>6 DEF IsSound, ClipsAreSound, Known
<1> QED BY <1>2, <1>3, <1>4, <1>5, <1>6 DEF Tables

(* What is left in the document of a project: what was not understood, of  *)
(* nothing the project has; and the unknown fields of what it has, or had. *)
IsResidue(rest, p, gone) ==
  /\ IsDocument(rest) /\ rest = [table \in Tables |-> rest[table]]
  /\ \A table \in Tables : \A id \in DOMAIN rest[table] :
       \/ Untouched(rest, table, id) /\ id \notin DOMAIN p[table]
       \/ /\ ~Untouched(rest, table, id) /\ rest[table][id] = Leftover(table)
          /\ id \in DOMAIN p[table] \/ <<table, id>> \in gone

WrittenFrom(written, known, rest) ==
  /\ written = [id \in DOMAIN known \cup DOMAIN rest |-> written[id]]
  /\ \A id \in DOMAIN known : \E more \in BOOLEAN :
       /\ more <=> id \in DOMAIN rest
       /\ written[id] = With(known[id], more)
  /\ \A id \in DOMAIN rest \ DOMAIN known : written[id] = rest[id]

LEMMA WrittenTables ==
  ASSUME NEW p, NEW rest, NEW table \in Tables
  PROVE  WrittenFrom(WriteProject(p, rest)[table], p[table], rest[table])
<1> DEFINE written == WriteProject(p, rest)[table]
           known == p[table]
           left == rest[table]
<1>1. written = MergeResidue(table, known, left)
  BY DEF WriteProject, Tables
<1> HIDE DEF written, known, left
<1>2. /\ written = [id \in DOMAIN known \cup DOMAIN left |-> written[id]]
      /\ \A id \in DOMAIN known : written[id] = With(known[id], id \in DOMAIN left)
      /\ \A id \in DOMAIN left \ DOMAIN known : written[id] = left[id]
  BY <1>1 DEF MergeResidue
<1>3. ASSUME NEW id \in DOMAIN known
      PROVE  \E more \in BOOLEAN : /\ more <=> id \in DOMAIN left
                                   /\ written[id] = With(known[id], more)
  <2>1. (id \in DOMAIN left) \in BOOLEAN
    OBVIOUS
  <2> QED BY <1>2, <2>1
<1>4. WrittenFrom(written, known, left)
  BY <1>2, <1>3 DEF WrittenFrom
<1> QED BY <1>4 DEF written, known, left

LEMMA WrittenIsDocument ==
  ASSUME NEW p, IsSound(p), NEW rest, IsDocument(rest)
  PROVE  IsDocument(WriteProject(p, rest))
<1> SUFFICES ASSUME NEW table \in Tables
             PROVE  TableOf(WriteProject(p, rest), table)
  BY DEF IsDocument, TableOf
<1> DEFINE written == WriteProject(p, rest)[table]
           known == p[table]
           left == rest[table]
<1>1. WrittenFrom(written, known, left)
  BY WrittenTables
<1>2. IsTable(known) /\ \A id \in DOMAIN known : Known(table, known[id])
  BY SoundTables
<1>3. /\ IsFiniteSet(DOMAIN left) /\ DOMAIN left \subseteq Ids \cup {Strange}
      /\ \A id \in DOMAIN left : IsEntity(table, left[id])
  BY DEF IsDocument
<1> HIDE DEF written, known, left
<1>4. \A id \in DOMAIN known : IsEntity(table, written[id])
  <2> TAKE id \in DOMAIN known
  <2>1. PICK more \in BOOLEAN : written[id] = With(known[id], more)
    BY <1>1 DEF WrittenFrom
  <2> QED BY <1>2, <2>1, KnownIsWritten
<1>5. DOMAIN written = DOMAIN known \cup DOMAIN left /\ written = [id \in DOMAIN written |-> written[id]]
  BY <1>1 DEF WrittenFrom
<1>6. IsFiniteSet(DOMAIN written)
  <2>1. IsFiniteSet(DOMAIN known)
    BY <1>2 DEF IsTable
  <2>2. IsFiniteSet(DOMAIN known \cup DOMAIN left)
    BY <1>3, <2>1, FS_Union
  <2> QED BY <1>5, <2>2
<1>7. DOMAIN written \subseteq Ids \cup {Strange}
  BY <1>2, <1>3, <1>5 DEF IsTable
<1>8. \A id \in DOMAIN written : IsEntity(table, written[id])
  BY <1>1, <1>3, <1>4, <1>5 DEF WrittenFrom
<1> QED BY <1>5, <1>6, <1>7, <1>8 DEF TableOf, written

-----------------------------------------------------------------------------
(* What was written is read back, unless something was left behind *)

NothingLeftOf(rest, gone) ==
  \A table \in Tables : \A id \in DOMAIN rest[table] : <<table, id>> \notin gone

LEMMA ParsedBack ==
  ASSUME NEW p, IsSound(p), NEW rest, NEW gone, IsResidue(rest, p, gone),
         NothingLeftOf(rest, gone), NEW table \in Tables \ {"clips"}
  PROVE  /\ Parsed(WriteProject(p, rest)[table]) = DOMAIN p[table]
         /\ \A id \in DOMAIN p[table] : \E more \in BOOLEAN :
              WriteProject(p, rest)[table][id] = With(p[table][id], more)
<1> DEFINE written == WriteProject(p, rest)[table]
           known == p[table]
           left == rest[table]
<1>1. WrittenFrom(written, known, left)
  BY WrittenTables
<1>2. \A id \in DOMAIN left \ DOMAIN known : id = Strange
  BY DEF IsResidue, NothingLeftOf, Untouched
<1>3. Strange \notin DOMAIN known
  BY SoundTables
<1> HIDE DEF written, known, left
<1>4. Parsed(written) = DOMAIN known
  <2>1. DOMAIN written = DOMAIN known \cup DOMAIN left
    BY <1>1 DEF WrittenFrom
  <2> QED BY <1>2, <1>3, <2>1 DEF Parsed
<1>5. \A id \in DOMAIN known : \E more \in BOOLEAN : written[id] = With(known[id], more)
  BY <1>1 DEF WrittenFrom
<1> QED BY <1>4, <1>5 DEF written, known

LEMMA TrackBack ==
  ASSUME NEW x \in Entity, AllIds(x.chain), NEW more \in BOOLEAN
  PROVE  ReadTrack(With(x, more)) = x /\ With(x, more).output = x.output
<1> DEFINE e == With(x, more)
           chain == x.chain
           output == x.output
<1>1. x = [output |-> output, chain |-> chain] /\ chain \in Seq(Int)
  BY DEF Entity
<1>2. e.output = output /\ e.chain = chain
  BY TrackWritten
<1> HIDE DEF e, chain, output
<1>3. {n \in DOMAIN chain : IsId(chain[n])} = DOMAIN chain
  BY DEF AllIds, chain
<1>4. PickedAt(chain, DOMAIN chain) = chain
  BY <1>1, PickedWhole
<1>5. ReadTrack(e) = [output |-> output, chain |-> chain]
  BY <1>2, <1>3, <1>4 DEF ReadTrack
<1> QED BY <1>1, <1>2, <1>5 DEF e, output

LEMMA MixerBack ==
  ASSUME NEW p, IsSound(p), NEW rest, NEW gone, IsResidue(rest, p, gone),
         NothingLeftOf(rest, gone)
  PROVE  LET w == WriteProject(p, rest)
         IN ChooseMaster(w) = p.master /\ ReadMixer(w) = p.tracks
<1> DEFINE w == WriteProject(p, rest)
           tracks == p.tracks
           master == p.master
<1>1. /\ AreRouted(tracks, master) /\ Anchored(tracks, master, DOMAIN tracks)
      /\ \A t \in DOMAIN tracks : tracks[t] \in Entity /\ AllIds(tracks[t].chain)
      /\ DOMAIN tracks \subseteq Ids /\ tracks = [t \in DOMAIN tracks |-> tracks[t]]
  BY DEF IsSound, MixerIsSound, AreRouted, AreTracks
<1>2. Parsed(w.tracks) = DOMAIN tracks
  <2>1. "tracks" \in Tables \ {"clips"}
    BY DEF Tables
  <2> HIDE DEF w
  <2>2. Parsed(w["tracks"]) = DOMAIN p["tracks"]
    BY <2>1, ParsedBack DEF w
  <2> QED BY <2>2
<1>3. \A t \in DOMAIN tracks : \E more \in BOOLEAN : w.tracks[t] = With(tracks[t], more)
  <2>1. "tracks" \in Tables \ {"clips"}
    BY DEF Tables
  <2> HIDE DEF w
  <2>2. \A t \in DOMAIN p["tracks"] : \E more \in BOOLEAN :
          w["tracks"][t] = With(p["tracks"][t], more)
    BY <2>1, ParsedBack DEF w
  <2> QED BY <2>2
<1> HIDE DEF w, tracks, master
<1>4. \A t \in DOMAIN tracks : /\ ReadTrack(w.tracks[t]) = tracks[t]
                               /\ w.tracks[t].output = tracks[t].output
  BY <1>1, <1>3, TrackBack
<1>5. /\ master \in DOMAIN tracks /\ tracks[master].output = Absent
      /\ \A t \in DOMAIN tracks \ {master} : tracks[t].output \in DOMAIN tracks
  BY <1>1 DEF AreRouted
<1>6. Roots(w) = {master}
  <2>1. \A t \in DOMAIN tracks \ {master} : tracks[t].output # Absent
    BY <1>1, <1>5 DEF Ids, Absent
  <2> QED BY <1>2, <1>4, <1>5, <2>1 DEF Roots
<1>7. ChooseMaster(w) = master
  <2>1. master \in Nat
    BY <1>1, <1>5 DEF Ids
  <2>2. Min({master}) = master
    BY <2>1 DEF Min
  <2> QED BY <1>6, <2>2 DEF ChooseMaster
<1>8. WithMaster(w) = tracks
  <2>1. WithMaster(w) = [t \in DOMAIN tracks |-> ReadTrack(w.tracks[t])]
    BY <1>2, <1>6 DEF WithMaster
  <2> QED BY <1>1, <1>4, <2>1
<1>9. ResolveOutputs(tracks, master) = tracks
  <2>1. ASSUME NEW t \in DOMAIN tracks
        PROVE  tracks[t] = IF t = master THEN tracks[t]
                           ELSE [tracks[t] EXCEPT !.output = IF @ \in DOMAIN tracks \ {t} THEN @ ELSE master]
    <3>1. CASE t = master
      BY <3>1
    <3>2. CASE t # master
      <4>1. tracks[t].output \in DOMAIN tracks
        BY <1>5, <3>2
      <4>2. tracks[t].output # t
        <5>1. PICK rank : Falls(rank, tracks, master, DOMAIN tracks)
          BY <1>1 DEF Anchored
        <5>2. rank[tracks[t].output] < rank[t] /\ rank[t] \in Nat
          BY <3>2, <5>1 DEF Falls
        <5> QED BY <5>2
      <4>3. tracks[t] = [output |-> tracks[t].output, chain |-> tracks[t].chain]
        BY <1>1 DEF Entity
      <4>4. [tracks[t] EXCEPT !.output = tracks[t].output] = tracks[t]
        BY <4>3
      <4> QED BY <3>2, <4>1, <4>2, <4>4
    <3> QED BY <3>1, <3>2
  <2> QED BY <1>1, <2>1 DEF ResolveOutputs
<1>10. BreakMixerCycles(tracks, master) = tracks
  BY <1>1, NothingToBreak
<1>11. ReadMixer(w) = tracks
  BY <1>7, <1>8, <1>9, <1>10 DEF ReadMixer
<1> QED BY <1>7, <1>11 DEF w, tracks, master

LEMMA SomeInSequence ==
  ASSUME NEW S, NEW s \in Seq(S), s # <<>>
  PROVE  DOMAIN s # {}
<1>1. Len(s) # 0
  OBVIOUS
<1>2. DOMAIN s = 1..Len(s) /\ Len(s) \in Nat
  OBVIOUS
<1>3. 1 \in DOMAIN s
  BY <1>1, <1>2
<1> QED BY <1>3

LEMMA InstrumentBack ==
  ASSUME NEW x \in [routing : Seq(Routes)], x.routing # <<>>,
         NEW tracks, DOMAIN tracks \subseteq Ids, NEW master,
         \A n \in DOMAIN x.routing : x.routing[n].track \in DOMAIN tracks,
         NEW more \in BOOLEAN
  PROVE  [routing |-> ResolveRouting(ReadRoutes(With(x, more)).routing, tracks, master)] = x
<1> DEFINE e == With(x, more)
           routing == x.routing
<1>1. routing \in Seq(Routes) /\ x = [routing |-> routing]
  OBVIOUS
<1>2. e.routing = routing
  BY InstrumentWritten
<1>3. \A n \in DOMAIN routing : routing[n].track \in DOMAIN tracks /\ IsId(routing[n].track)
  BY DEF IsId, Ids, Absent, Unusable
<1>4. routing # <<>>
  OBVIOUS
<1> HIDE DEF e, routing
<1>5. PickedAt(routing, DOMAIN routing) = routing
  BY <1>1, PickedWhole
<1>6. ReadRoutes(e).routing = routing
  <2>1. {n \in DOMAIN routing : IsId(routing[n].track)} = DOMAIN routing
    BY <1>3
  <2> QED BY <1>2, <1>5, <2>1 DEF ReadRoutes
<1>7. ResolveRouting(routing, tracks, master) = routing
  <2>1. {n \in DOMAIN routing : routing[n].track \in DOMAIN tracks} = DOMAIN routing
    BY <1>3
  <2>2. DOMAIN routing # {}
    <3>1. routing \in Seq(Routes)
      BY <1>1
    <3> QED BY <1>4, <3>1, SomeInSequence
  <2> QED BY <1>5, <2>1, <2>2 DEF ResolveRouting
<1> QED BY <1>1, <1>6, <1>7 DEF e

LEMMA InstrumentsBack ==
  ASSUME NEW p, IsSound(p), NEW rest, NEW gone, IsResidue(rest, p, gone),
         NothingLeftOf(rest, gone)
  PROVE  ReadInstruments(WriteProject(p, rest), p.tracks, p.master) = p.instruments
<1> DEFINE w == WriteProject(p, rest)
           known == p.instruments
<1>1. "instruments" \in Tables \ {"clips"}
  BY DEF Tables
<1>2. /\ Parsed(w["instruments"]) = DOMAIN p["instruments"]
      /\ \A i \in DOMAIN p["instruments"] : \E more \in BOOLEAN :
           w["instruments"][i] = With(p["instruments"][i], more)
  <2> HIDE DEF w
  <2> QED BY <1>1, ParsedBack DEF w
<1> HIDE DEF w
<1>3. /\ Parsed(w.instruments) = DOMAIN known
      /\ \A i \in DOMAIN known : \E more \in BOOLEAN : w.instruments[i] = With(known[i], more)
  BY <1>2
<1>4. DOMAIN p.tracks \subseteq Ids
  BY DEF IsSound, MixerIsSound, AreRouted, AreTracks
<1>5. /\ known = [i \in DOMAIN known |-> known[i]]
      /\ \A i \in DOMAIN known :
           /\ known[i] \in [routing : Seq(Routes)] /\ known[i].routing # <<>>
           /\ \A n \in DOMAIN known[i].routing : known[i].routing[n].track \in DOMAIN p.tracks
  BY DEF IsSound, RoutesAreSound, IsTable
<1> HIDE DEF known
<1>6. ASSUME NEW i \in DOMAIN known
      PROVE  [routing |-> ResolveRouting(ReadRoutes(w.instruments[i]).routing, p.tracks, p.master)]
               = known[i]
  <2> DEFINE x == known[i]
             tracks == p.tracks
  <2>1. PICK more \in BOOLEAN : w.instruments[i] = With(x, more)
    BY <1>3
  <2>2. /\ x \in [routing : Seq(Routes)] /\ x.routing # <<>>
        /\ \A n \in DOMAIN x.routing : x.routing[n].track \in DOMAIN tracks
    BY <1>5
  <2>3. DOMAIN tracks \subseteq Ids
    BY <1>4
  <2> HIDE DEF x, tracks
  <2>4. [routing |-> ResolveRouting(ReadRoutes(With(x, more)).routing, tracks, p.master)] = x
    BY <2>2, <2>3, InstrumentBack
  <2> QED BY <2>1, <2>4 DEF x, tracks
<1>7. ReadInstruments(w, p.tracks, p.master) = known
  BY <1>3, <1>5, <1>6 DEF ReadInstruments
<1> QED BY <1>7 DEF w, known

LEMMA PatternsBack ==
  ASSUME NEW p, IsSound(p), NEW rest, NEW gone, IsResidue(rest, p, gone),
         NothingLeftOf(rest, gone)
  PROVE  ReadPatterns(WriteProject(p, rest), p.instruments) = p.patterns
<1> DEFINE w == WriteProject(p, rest)
           known == p.patterns
<1>1. "patterns" \in Tables \ {"clips"}
  BY DEF Tables
<1>2. /\ Parsed(w["patterns"]) = DOMAIN p["patterns"]
      /\ \A q \in DOMAIN p["patterns"] : \E more \in BOOLEAN :
           w["patterns"][q] = With(p["patterns"][q], more)
  <2> HIDE DEF w
  <2> QED BY <1>1, ParsedBack DEF w
<1> HIDE DEF w
<1>3. /\ Parsed(w.patterns) = DOMAIN known
      /\ \A q \in DOMAIN known : \E more \in BOOLEAN : w.patterns[q] = With(known[q], more)
  BY <1>2
<1>4. /\ known = [q \in DOMAIN known |-> known[q]]
      /\ \A q \in DOMAIN known :
           /\ known[q] = [notes |-> known[q].notes]
           /\ known[q].notes \in [DOMAIN known[q].notes -> SUBSET Ids]
           /\ DOMAIN known[q].notes \subseteq DOMAIN p.instruments
  BY DEF IsSound, NotesAreSound, IsTable
<1>5. \A q \in DOMAIN known : Known("patterns", known[q])
  <2>1. "patterns" \in Tables
    BY DEF Tables
  <2>2. \A q \in DOMAIN p["patterns"] : Known("patterns", p["patterns"][q])
    BY <2>1, SoundTables
  <2> QED BY <2>2
<1> HIDE DEF known
<1>6. ASSUME NEW q \in DOMAIN known
      PROVE  ReadPattern(w.patterns[q], DOMAIN p.instruments) = known[q]
  <2> DEFINE x == known[q]
             ids == DOMAIN p.instruments
             notes == x.notes
  <2>1. PICK more \in BOOLEAN : w.patterns[q] = With(x, more)
    BY <1>3
  <2>2. /\ x = [notes |-> notes] /\ notes \in [DOMAIN notes -> SUBSET Ids]
        /\ DOMAIN notes \subseteq ids /\ Known("patterns", x)
    BY <1>4, <1>5
  <2> HIDE DEF x, ids, notes
  <2> DEFINE e == With(x, more)
  <2>3. e.notes = notes /\ IsEntity("patterns", e)
    <3>1. e = [more |-> more, notes |-> x.notes] /\ IsEntity("patterns", e)
      BY <2>2, PatternWritten
    <3> QED BY <3>1 DEF notes
  <2> HIDE DEF e
  <2>4. ReadPattern(e, ids) =
          [notes |-> [i \in DOMAIN e.notes \cap ids |-> {n \in e.notes[i] : Sound(n)}]]
    BY <2>3, PatternRead
  <2>5. [i \in DOMAIN notes \cap ids |-> {n \in notes[i] : Sound(n)}] = notes
    <3>1. DOMAIN notes \cap ids = DOMAIN notes
      BY <2>2
    <3>2. \A i \in DOMAIN notes : {n \in notes[i] : Sound(n)} = notes[i]
      BY <2>2 DEF Sound, Ids
    <3> QED BY <2>2, <3>1, <3>2
  <2>6. [i \in DOMAIN e.notes \cap ids |-> {n \in e.notes[i] : Sound(n)}] = notes
    BY <2>3, <2>5
  <2>7. ReadPattern(e, ids) = x
    BY <2>2, <2>4, <2>6
  <2> QED BY <2>1, <2>7 DEF ids, x, e
<1>7. ReadPatterns(w, p.instruments) = known
  BY <1>3, <1>4, <1>6 DEF ReadPatterns
<1> QED BY <1>7 DEF w, known

LEMMA LanesBack ==
  ASSUME NEW p, IsSound(p), NEW rest, NEW gone, IsResidue(rest, p, gone),
         NothingLeftOf(rest, gone)
  PROVE  GroupedLanes(WriteProject(p, rest)) = p.lanes
<1> DEFINE w == WriteProject(p, rest)
           known == p.lanes
<1>1. "lanes" \in Tables \ {"clips"}
  BY DEF Tables
<1>2. /\ Parsed(w["lanes"]) = DOMAIN p["lanes"]
      /\ \A l \in DOMAIN p["lanes"] : \E more \in BOOLEAN :
           w["lanes"][l] = With(p["lanes"][l], more)
  <2> HIDE DEF w
  <2> QED BY <1>1, ParsedBack DEF w
<1> HIDE DEF w
<1>3. /\ Parsed(w.lanes) = DOMAIN known
      /\ \A l \in DOMAIN known : \E more \in BOOLEAN : w.lanes[l] = With(known[l], more)
  BY <1>2
<1>4. /\ known = [l \in DOMAIN known |-> known[l]]
      /\ \A l \in DOMAIN known : known[l] \in Lane
                                 /\ known[l].group \in (DOMAIN known \ {l}) \cup {Absent}
  BY DEF IsSound, LanesAreSound, IsTable, Lane
<1> HIDE DEF known
<1>5. ASSUME NEW l \in DOMAIN known
      PROVE  ReadLane(w.lanes[l]) = known[l]
  <2> DEFINE x == known[l]
  <2>1. PICK more \in BOOLEAN : w.lanes[l] = With(x, more)
    BY <1>3
  <2>2. x \in Lane
    BY <1>4
  <2> HIDE DEF x
  <2> DEFINE e == With(x, more)
  <2>3. IsEntity("lanes", e) /\ e.order = x.order /\ e.group = x.group
    BY <2>2, LaneWritten
  <2> HIDE DEF e
  <2>4. ReadLane(e) = [order |-> x.order, group |-> x.group]
    BY <2>3, LaneRead
  <2>5. x = [order |-> x.order, group |-> x.group]
    BY <2>2 DEF Lane
  <2> QED BY <2>1, <2>4, <2>5 DEF x, e
<1>6. [l \in Parsed(w.lanes) |-> ReadLane(w.lanes[l])] = known
  BY <1>3, <1>4, <1>5
<1>7. ASSUME NEW l \in DOMAIN known
      PROVE  [known[l] EXCEPT !.group = ResolveGroup(known, l)] = known[l]
  <2>1. ResolveGroup(known, l) = known[l].group
    BY <1>4 DEF ResolveGroup, AnID
  <2>2. known[l] = [order |-> known[l].order, group |-> known[l].group]
    BY <1>4 DEF Lane
  <2>3. [known[l] EXCEPT !.group = known[l].group] = known[l]
    BY <2>2
  <2> QED BY <2>1, <2>3
<1>8. GroupedLanes(w) = [l \in DOMAIN known |-> [known[l] EXCEPT !.group = ResolveGroup(known, l)]]
  BY <1>6 DEF GroupedLanes
<1>9. GroupedLanes(w) = known
  BY <1>4, <1>7, <1>8
<1> QED BY <1>9 DEF w, known

LEMMA ClipBack ==
  ASSUME NEW p, IsSound(p), NEW c \in DOMAIN p.clips, NEW more \in BOOLEAN
  PROVE  /\ Usable(With(p.clips[c], more)) /\ ~Foreign(With(p.clips[c], more))
         /\ Less(With(p.clips[c], more)) = p.clips[c]
<1> DEFINE x == p.clips[c]
           e == With(x, more)
<1>1. x \in PlayedClips /\ ~Dangling(p, x)
  BY DEF IsSound, ClipsAreSound
<1>2. /\ DOMAIN p.lanes \subseteq Ids /\ DOMAIN p.tracks \subseteq Ids
      /\ DOMAIN p.patterns \subseteq Ids /\ DOMAIN p.instruments \subseteq Ids
  BY DEF IsSound, LanesAreSound, MixerIsSound, AreRouted, AreTracks, NotesAreSound,
         RoutesAreSound, IsTable
<1>3. \A t \in DOMAIN p.tracks : AllIds(p.tracks[t].chain)
  BY DEF IsSound, MixerIsSound
<1> HIDE DEF x
<1>4. /\ e = [more |-> more, lane |-> x.lane, kind |-> x.kind, of |-> x.of,
              effect |-> x.effect, length |-> x.length]
      /\ IsEntity("clips", e) /\ ~Foreign(e) /\ x.kind # "unsaid"
  BY <1>1, ClipWritten
<1> HIDE DEF e
<1>5. /\ e.lane = x.lane /\ e.kind = x.kind /\ e.of = x.of /\ e.effect = x.effect
      /\ e.length = x.length
  BY <1>4
<1>6. x.kind \in PlayedKinds /\ x.length \in Ids
  BY <1>1 DEF PlayedClips
<1>7. x.lane \in Ids
  BY <1>1, <1>2 DEF Dangling
<1>8. x.of \in Ids
  BY <1>1, <1>2, <1>6 DEF Dangling, PlayedKinds
<1>9. x.kind = "effect curve" => IsId(x.effect)
  <2> SUFFICES ASSUME x.kind = "effect curve" PROVE IsId(x.effect)
    OBVIOUS
  <2>1. x.of \in DOMAIN p.tracks /\ x.effect \in Range(p.tracks[x.of].chain)
    BY <1>1 DEF Dangling, EffectIsLoaded
  <2> QED BY <1>3, <2>1 DEF Range, AllIds
<1>10. \A id \in Ids : IsId(id) /\ id > 0
  BY DEF IsId, Ids, Absent, Unusable
<1>11. Usable(e)
  BY <1>4, <1>5, <1>6, <1>7, <1>8, <1>9, <1>10 DEF Usable
<1>12. Less(e) = [lane |-> e.lane, kind |-> e.kind, of |-> e.of, effect |-> e.effect,
                  length |-> e.length]
  BY <1>4, <1>11, ClipRead
<1>13. x = [lane |-> x.lane, kind |-> x.kind, of |-> x.of, effect |-> x.effect, length |-> x.length]
  BY <1>1 DEF PlayedClips
<1> QED BY <1>4, <1>5, <1>11, <1>12, <1>13 DEF x, e

LEMMA ClipsBack ==
  ASSUME NEW p, IsSound(p), NEW rest, NEW gone, IsResidue(rest, p, gone),
         NothingLeftOf(rest, gone)
  PROVE  /\ ReadClips(WriteProject(p, rest)) = p.clips
         /\ Unplayable(WriteProject(p, rest)) = {}
<1> DEFINE written == WriteProject(p, rest).clips
           known == p.clips
           left == rest.clips
<1>1. WrittenFrom(written, known, left)
  <2>1. "clips" \in Tables
    BY DEF Tables
  <2>2. WrittenFrom(WriteProject(p, rest)["clips"], p["clips"], rest["clips"])
    BY <2>1, WrittenTables
  <2> QED BY <2>2
<1>2. \A id \in DOMAIN left \ DOMAIN known : id = Strange \/ Foreign(left[id])
  <2>1. "clips" \in Tables
    BY DEF Tables
  <2>2. \A id \in DOMAIN rest["clips"] \ DOMAIN p["clips"] : Untouched(rest, "clips", id)
    BY <2>1 DEF IsResidue, NothingLeftOf
  <2> QED BY <2>2 DEF Untouched, Foreign
<1>3. Strange \notin DOMAIN known /\ known = [c \in DOMAIN known |-> known[c]]
  <2>1. "clips" \in Tables
    BY DEF Tables
  <2>2. Strange \notin DOMAIN p["clips"] /\ IsTable(p["clips"])
    BY <2>1, SoundTables
  <2> QED BY <2>2 DEF IsTable
<1>4. \A c \in DOMAIN known, more \in BOOLEAN :
        Usable(With(known[c], more)) /\ ~Foreign(With(known[c], more))
        /\ Less(With(known[c], more)) = known[c]
  BY ClipBack
<1> HIDE DEF written, known, left
<1>5. \A c \in DOMAIN known : /\ Usable(written[c]) /\ ~Foreign(written[c])
                              /\ Less(written[c]) = known[c]
  BY <1>1, <1>4 DEF WrittenFrom
<1>6. DOMAIN written = DOMAIN known \cup DOMAIN left
  BY <1>1 DEF WrittenFrom
<1>7. \A id \in DOMAIN written \ DOMAIN known : id = Strange \/ Foreign(written[id])
  BY <1>1, <1>2, <1>6 DEF WrittenFrom
<1>8. {c \in Parsed(written) : Usable(written[c]) /\ ~Foreign(written[c])} = DOMAIN known
  BY <1>3, <1>5, <1>6, <1>7 DEF Parsed
<1>9. {c \in Parsed(written) : ~Usable(written[c]) /\ ~Foreign(written[c])} = {}
  BY <1>5, <1>7 DEF Parsed
<1>10. [c \in DOMAIN known |-> Less(written[c])] = known
  BY <1>3, <1>5
<1> QED BY <1>8, <1>9, <1>10 DEF ReadClips, Unplayable, written, known

\* The project comes back as it was, up to the numbers of its lanes.
LEMMA ProjectBack ==
  ASSUME NEW p, IsSound(p), NEW rest, NEW gone, IsResidue(rest, p, gone),
         NothingLeftOf(rest, gone)
  PROVE  /\ Read(WriteProject(p, rest)) = [p EXCEPT !.lanes = FixLaneOrder(@)]
         /\ Dropped(WriteProject(p, rest)) = {}
<1> DEFINE w == WriteProject(p, rest)
           q == Read(w)
<1>1. /\ q.master = ChooseMaster(w) /\ q.tracks = ReadMixer(w)
      /\ q.instruments = ReadInstruments(w, ReadMixer(w), ChooseMaster(w))
      /\ q.patterns = ReadPatterns(w, q.instruments)
      /\ q.lanes = FixLaneOrder(GroupedLanes(w))
      /\ q.clips = [c \in {c \in DOMAIN ReadClips(w) : ~Dangling(q, ReadClips(w)[c])}
                      |-> ReadClips(w)[c]]
      /\ q = [master |-> q.master, tracks |-> q.tracks, instruments |-> q.instruments,
              patterns |-> q.patterns, lanes |-> q.lanes, clips |-> q.clips]
  BY ReadIs
<1>2. ChooseMaster(w) = p.master /\ ReadMixer(w) = p.tracks
  BY MixerBack
<1>3. ReadInstruments(w, p.tracks, p.master) = p.instruments
  BY InstrumentsBack
<1>4. ReadPatterns(w, p.instruments) = p.patterns
  BY PatternsBack
<1>5. GroupedLanes(w) = p.lanes
  BY LanesBack
<1>6. ReadClips(w) = p.clips /\ Unplayable(w) = {}
  BY ClipsBack
<1>7. Dropped(w) = Unplayable(w) \cup (DOMAIN ReadClips(w) \ DOMAIN q.clips)
  BY DEF Dropped
<1> HIDE DEF w, q
<1>8. /\ q.master = p.master /\ q.tracks = p.tracks /\ q.instruments = p.instruments
      /\ q.patterns = p.patterns /\ q.lanes = FixLaneOrder(p.lanes)
  BY <1>1, <1>2, <1>3, <1>4, <1>5
<1>9. DOMAIN q.lanes = DOMAIN p.lanes
  BY <1>8 DEF FixLaneOrder
<1>10. ASSUME NEW c \in DOMAIN p.clips PROVE ~Dangling(q, p.clips[c])
  <2>1. ~Dangling(p, p.clips[c])
    BY DEF IsSound, ClipsAreSound
  <2> QED BY <1>8, <1>9, <2>1 DEF Dangling
<1>11. q.clips = p.clips
  <2>1. p.clips = [c \in DOMAIN p.clips |-> p.clips[c]]
    BY DEF IsSound, ClipsAreSound, IsTable
  <2>2. {c \in DOMAIN p.clips : ~Dangling(q, p.clips[c])} = DOMAIN p.clips
    BY <1>10
  <2>3. q.clips = [c \in {c \in DOMAIN p.clips : ~Dangling(q, p.clips[c])} |-> p.clips[c]]
    BY <1>1, <1>6
  <2> QED BY <2>1, <2>2, <2>3
<1>12. q = [master |-> p.master, tracks |-> p.tracks, instruments |-> p.instruments,
            patterns |-> p.patterns, lanes |-> FixLaneOrder(p.lanes), clips |-> p.clips]
  BY <1>1, <1>8, <1>11
<1>13. [p EXCEPT !.lanes = FixLaneOrder(@)] =
         [master |-> p.master, tracks |-> p.tracks, instruments |-> p.instruments,
          patterns |-> p.patterns, lanes |-> FixLaneOrder(p.lanes), clips |-> p.clips]
  BY DEF IsSound
<1> QED BY <1>6, <1>7, <1>11, <1>12, <1>13 DEF q, w

-----------------------------------------------------------------------------
(* What is left in the document *)

ResidueOf(f, table) ==
  [id \in Stays(f, table) \ (IF table = "clips" THEN Dropped(f) ELSE {}) |->
     IF Untouched(f, table, id) THEN f[table][id] ELSE Leftover(table)]

LEMMA UntouchedIs ==
  ASSUME NEW f, NEW table, NEW id
  PROVE  Untouched(f, table, id) <=> id = Strange \/ (table = "clips" /\ Foreign(f[table][id]))
<1>1. CASE table = "clips"
  <2>1. f[table] = f.clips
    BY <1>1
  <2>2. Foreign(f.clips[id]) <=> f.clips[id].kind \notin PlayedKinds \cup {"unsaid"}
    BY DEF Foreign
  <2> QED BY <1>1, <2>1, <2>2 DEF Untouched
<1>2. CASE table # "clips"
  BY <1>2 DEF Untouched
<1> QED BY <1>1, <1>2

LEMMA ResidueBack ==
  ASSUME NEW p, IsSound(p), NEW rest, NEW gone, IsResidue(rest, p, gone),
         NothingLeftOf(rest, gone)
  PROVE  ReadResidue(WriteProject(p, rest)) = rest
<1> DEFINE w == WriteProject(p, rest)
<1>1. ASSUME NEW table \in Tables
      PROVE  ResidueOf(w, table) = rest[table]
  <2> DEFINE written == w[table]
             known == p[table]
             left == rest[table]
  <2>1. WrittenFrom(written, known, left)
    BY WrittenTables
  <2>2. /\ \A id \in DOMAIN left \ DOMAIN known : Untouched(rest, table, id)
        /\ \A id \in DOMAIN left : Untouched(rest, table, id) => id \notin DOMAIN known
        /\ \A id \in DOMAIN left : ~Untouched(rest, table, id) => left[id] = Leftover(table)
        /\ left = [id \in DOMAIN left |-> left[id]]
    BY DEF IsResidue, NothingLeftOf, IsDocument
  <2>3. /\ Strange \notin DOMAIN known
        /\ \A id \in DOMAIN known : Known(table, known[id])
    BY SoundTables
  <2>4. Dropped(w) = {}
    BY ProjectBack
  <2>5. /\ \A id : Untouched(w, table, id) <=>
             (id = Strange \/ (table = "clips" /\ Foreign(written[id])))
        /\ \A id : Untouched(rest, table, id) <=>
             (id = Strange \/ (table = "clips" /\ Foreign(left[id])))
    BY UntouchedIs
  <2>6. Stays(w, table) = {id \in DOMAIN written : id = Strange \/ written[id].more}
          \cup (IF table = "clips" THEN {c \in DOMAIN written : Foreign(written[c])} ELSE {})
    BY DEF Stays, ForeignClips
  <2> HIDE DEF written, known, left, w
  <2>7. ASSUME NEW id \in DOMAIN known
        PROVE  /\ written[id].more <=> id \in DOMAIN left
               /\ table = "clips" => ~Foreign(written[id])
    <3>1. PICK more \in BOOLEAN : (more <=> id \in DOMAIN left) /\ written[id] = With(known[id], more)
      BY <2>1 DEF WrittenFrom
    <3>2. written[id].more = more
      BY <2>3, <3>1, KnownIsWritten
    <3>3. table = "clips" => ~Foreign(written[id])
      BY <2>3, <3>1, ClipWritten DEF Known
    <3> QED BY <3>1, <3>2, <3>3
  <2>8. /\ DOMAIN written = DOMAIN known \cup DOMAIN left
        /\ \A id \in DOMAIN left \ DOMAIN known : written[id] = left[id]
    BY <2>1 DEF WrittenFrom
  <2>9. Stays(w, table) = DOMAIN left
    <3>1. ASSUME NEW id \in Stays(w, table) PROVE id \in DOMAIN left
      BY <2>3, <2>6, <2>7, <2>8
    <3>2. ASSUME NEW id \in DOMAIN left PROVE id \in Stays(w, table)
      <4>1. CASE id \in DOMAIN known
        BY <2>6, <2>7, <2>8, <4>1
      <4>2. CASE id \notin DOMAIN known
        BY <2>2, <2>5, <2>6, <2>8, <4>2
      <4> QED BY <4>1, <4>2
    <3> QED BY <3>1, <3>2
  <2>10. ASSUME NEW id \in DOMAIN left
         PROVE  left[id] = IF Untouched(w, table, id) THEN written[id] ELSE Leftover(table)
    <3>1. CASE id \in DOMAIN known
      <4>1. ~Untouched(w, table, id)
        BY <2>3, <2>5, <2>7, <3>1
      <4> QED BY <2>2, <3>1, <4>1
    <3>2. CASE id \notin DOMAIN known
      <4>1. Untouched(w, table, id) /\ written[id] = left[id]
        BY <2>2, <2>5, <2>8, <3>2
      <4> QED BY <4>1
    <3> QED BY <3>1, <3>2
  <2>11. ResidueOf(w, table) =
           [id \in DOMAIN left |-> IF Untouched(w, table, id) THEN written[id] ELSE Leftover(table)]
    BY <2>4, <2>9 DEF ResidueOf, written
  <2>12. ResidueOf(w, table) = left
    BY <2>2, <2>10, <2>11
  <2> QED BY <2>12 DEF left
<1>2. ReadResidue(w) = [table \in Tables |-> ResidueOf(w, table)]
  BY DEF ReadResidue, ResidueOf
<1> HIDE DEF w
<1>3. rest = [table \in Tables |-> rest[table]]
  BY DEF IsResidue
<1> QED BY <1>1, <1>2, <1>3 DEF w

LEMMA LeftoverIs ==
  ASSUME NEW table \in Tables
  PROVE  IsEntity(table, Leftover(table)) /\ (table = "clips" => ~Foreign(Leftover(table)))
<1>1. CASE table = "tracks"
  <2> DEFINE none == <<>>
             x == Blank("tracks")
  <2>1. none \in Seq(Int) /\ Absent \in Int
    BY DEF Absent
  <2>2. x = [output |-> Absent, chain |-> none]
    BY DEF Blank
  <2> HIDE DEF none, x
  <2>3. x \in Entity
    BY <2>1, <2>2 DEF Entity
  <2> QED BY <1>1, <2>3, TrackWritten DEF Leftover, x
<1>2. CASE table = "instruments"
  <2> DEFINE none == <<>>
             x == Blank("instruments")
  <2>1. none \in Seq(Routes)
    OBVIOUS
  <2>2. x = [routing |-> none]
    BY DEF Blank
  <2> HIDE DEF none, x
  <2>3. x \in [routing : Seq(Routes)]
    BY <2>1, <2>2
  <2> QED BY <1>2, <2>3, InstrumentWritten DEF Leftover, x
<1>3. CASE table = "patterns"
  <2> DEFINE none == <<>>
             x == Blank("patterns")
  <2>1. none \in [DOMAIN none -> SUBSET Int]
    OBVIOUS
  <2>2. x = [notes |-> none]
    BY DEF Blank
  <2> HIDE DEF none, x
  <2>3. Known("patterns", x)
    BY <2>1, <2>2 DEF Known
  <2> QED BY <1>3, <2>3, PatternWritten DEF Leftover, x
<1>4. CASE table = "lanes"
  <2> DEFINE x == Blank("lanes")
  <2>1. x = [order |-> 0, group |-> Absent]
    BY DEF Blank
  <2>2. x \in Lane
    BY <2>1 DEF Lane, Absent
  <2> HIDE DEF x
  <2> QED BY <1>4, <2>2, LaneWritten DEF Leftover, x
<1>5. CASE table = "clips"
  <2> DEFINE x == Blank("clips")
  <2>1. /\ x = [lane |-> Absent, kind |-> "unsaid", of |-> Absent, effect |-> Absent,
                length |-> 0]
        /\ Absent \in Int
    BY DEF Blank, Absent
  <2> HIDE DEF x
  <2>2. ASSUME NEW more \in BOOLEAN
        PROVE  IsEntity("clips", With(x, more)) /\ ~Foreign(With(x, more))
    <3> DEFINE e == With(x, more)
    <3>1. e = [more |-> more, lane |-> x.lane, kind |-> x.kind, of |-> x.of,
               effect |-> x.effect, length |-> x.length]
      BY <2>1 DEF With
    <3>2. /\ x.lane \in Int /\ x.of \in Int /\ x.effect \in Int /\ x.length \in Int
          /\ x.kind = "unsaid"
      BY <2>1
    <3> HIDE DEF e
    <3>3. /\ e.more = more /\ e.lane = x.lane /\ e.kind = x.kind /\ e.of = x.of
          /\ e.effect = x.effect /\ e.length = x.length
      BY <3>1
    <3>4. e = [more |-> e.more, lane |-> e.lane, kind |-> e.kind, of |-> e.of,
               effect |-> e.effect, length |-> e.length]
      BY <3>1, <3>3
    <3>5. IsEntity("clips", e)
      BY <3>2, <3>3, <3>4 DEF IsEntity
    <3>6. ~Foreign(e)
      BY <3>2, <3>3 DEF Foreign
    <3> QED BY <3>5, <3>6 DEF e
  <2> QED BY <1>5, <2>2 DEF Leftover, x
<1> QED BY <1>1, <1>2, <1>3, <1>4, <1>5 DEF Tables

\* What has been read of a document, in terms of the document.
LEMMA WhatIsRead ==
  ASSUME NEW f, IsDocument(f), NEW table \in Tables
  PROVE  /\ Strange \notin DOMAIN Read(f)[table]
         /\ table # "clips" => \A id \in DOMAIN f[table] : id = Strange \/ id \in DOMAIN Read(f)[table]
         /\ table = "clips" =>
              /\ \A id \in DOMAIN Read(f)[table] : id \in DOMAIN f[table] /\ id \notin Dropped(f)
                                                   /\ ~Foreign(f.clips[id])
              /\ \A id \in DOMAIN f[table] :
                   \/ id = Strange \/ Foreign(f.clips[id])
                   \/ id \in Dropped(f) \/ id \in DOMAIN Read(f)[table]
              /\ \A id \in DOMAIN f[table] :
                   id = Strange \/ Foreign(f.clips[id]) => id \notin Dropped(f)
<1> DEFINE p == Read(f)
<1>1. IsSound(p)
  BY ReadIsSound
<1>2. Strange \notin DOMAIN p[table]
  <2> HIDE DEF p
  <2> QED BY <1>1, SoundTables
<1>3. /\ p.tracks = ReadMixer(f)
      /\ p.instruments = ReadInstruments(f, ReadMixer(f), ChooseMaster(f))
      /\ p.patterns = ReadPatterns(f, p.instruments)
      /\ p.lanes = FixLaneOrder(GroupedLanes(f))
      /\ p.clips = [c \in {c \in DOMAIN ReadClips(f) : ~Dangling(p, ReadClips(f)[c])}
                      |-> ReadClips(f)[c]]
  BY ReadIs
<1>4. Dropped(f) = Unplayable(f) \cup (DOMAIN ReadClips(f) \ DOMAIN p.clips)
  BY DEF Dropped
<1> HIDE DEF p
<1>5. CASE table = "tracks"
  <2>1. Parsed(f.tracks) \subseteq DOMAIN p.tracks
    BY <1>3, DocumentTables, MixerRead
  <2> QED BY <1>2, <1>5, <2>1 DEF Parsed, p
<1>6. CASE table = "instruments"
  BY <1>2, <1>3, <1>6 DEF ReadInstruments, Parsed, p
<1>7. CASE table = "patterns"
  BY <1>2, <1>3, <1>7 DEF ReadPatterns, Parsed, p
<1>8. CASE table = "lanes"
  <2>1. DOMAIN p.lanes = Parsed(f.lanes)
    BY <1>3 DEF FixLaneOrder, GroupedLanes
  <2> QED BY <1>2, <1>8, <2>1 DEF Parsed, p
<1>9. CASE table = "clips"
  <2>1. DOMAIN p.clips \subseteq DOMAIN ReadClips(f)
    BY <1>3
  <2>2. DOMAIN ReadClips(f) = {c \in Parsed(f.clips) : Usable(f.clips[c]) /\ ~Foreign(f.clips[c])}
    BY DEF ReadClips
  <2>3. Unplayable(f) = {c \in Parsed(f.clips) : ~Usable(f.clips[c]) /\ ~Foreign(f.clips[c])}
    BY DEF Unplayable
  <2> QED BY <1>2, <1>4, <1>9, <2>1, <2>2, <2>3 DEF Parsed, p
<1> QED BY <1>5, <1>6, <1>7, <1>8, <1>9 DEF Tables

LEMMA ResidueRead ==
  ASSUME NEW f, IsDocument(f)
  PROVE  IsResidue(ReadResidue(f), Read(f), {})
<1> DEFINE rest == ReadResidue(f)
           p == Read(f)
<1>1. rest = [table \in Tables |-> ResidueOf(f, table)]
  BY DEF ReadResidue, ResidueOf
<1>2. ASSUME NEW table \in Tables
      PROVE  /\ TableOf(rest, table)
             /\ \A id \in DOMAIN rest[table] :
                  \/ Untouched(rest, table, id) /\ id \notin DOMAIN p[table]
                  \/ /\ ~Untouched(rest, table, id) /\ rest[table][id] = Leftover(table)
                     /\ id \in DOMAIN p[table]
  <2> DEFINE left == rest[table]
             stays == Stays(f, table) \ (IF table = "clips" THEN Dropped(f) ELSE {})
  <2>1. left = [id \in stays |-> IF Untouched(f, table, id) THEN f[table][id] ELSE Leftover(table)]
    BY <1>1 DEF ResidueOf
  <2>2. stays \subseteq DOMAIN f[table]
    BY DEF Stays, ForeignClips
  <2>3. /\ IsFiniteSet(DOMAIN f[table]) /\ DOMAIN f[table] \subseteq Ids \cup {Strange}
        /\ \A id \in DOMAIN f[table] : IsEntity(table, f[table][id])
    BY DEF IsDocument
  <2>4. /\ \A id : Untouched(f, table, id) <=>
             (id = Strange \/ (table = "clips" /\ Foreign(f[table][id])))
        /\ \A id : Untouched(rest, table, id) <=>
             (id = Strange \/ (table = "clips" /\ Foreign(left[id])))
    BY UntouchedIs
  <2>5. table = "clips" => f[table] = f.clips /\ stays \cap Dropped(f) = {}
    OBVIOUS
  <2>8. /\ \A id \in DOMAIN p[table] : id # Strange
        /\ table # "clips" => \A id \in DOMAIN f[table] : id = Strange \/ id \in DOMAIN p[table]
        /\ table = "clips" =>
             /\ \A id \in DOMAIN p[table] : ~Foreign(f[table][id])
             /\ \A id \in DOMAIN f[table] :
                  \/ id = Strange \/ Foreign(f[table][id])
                  \/ id \in Dropped(f) \/ id \in DOMAIN p[table]
    BY <2>5, WhatIsRead
  <2> HIDE DEF left, rest, stays, p
  <2>6. TableOf(rest, table)
    <3>1. IsFiniteSet(stays) /\ DOMAIN left = stays /\ left = [id \in DOMAIN left |-> left[id]]
      BY <2>1, <2>2, <2>3, FS_Subset
    <3>2. \A id \in stays : IsEntity(table, left[id])
      BY <2>1, <2>2, <2>3, LeftoverIs
    <3> QED BY <2>2, <2>3, <3>1, <3>2 DEF TableOf, left
  <2>7. ASSUME NEW id \in DOMAIN left
        PROVE  \/ Untouched(rest, table, id) /\ id \notin DOMAIN p[table]
               \/ /\ ~Untouched(rest, table, id) /\ left[id] = Leftover(table)
                  /\ id \in DOMAIN p[table]
    <3>1. id \in stays /\ id \in DOMAIN f[table]
      BY <2>1, <2>2
    <3>2. CASE Untouched(f, table, id)
      <4>1. left[id] = f[table][id]
        BY <2>1, <3>1, <3>2
      <4>2. Untouched(rest, table, id)
        BY <2>4, <3>2, <4>1
      <4>3. id \notin DOMAIN p[table]
        BY <2>4, <2>8, <3>2
      <4> QED BY <4>2, <4>3
    <3>3. CASE ~Untouched(f, table, id)
      <4>1. left[id] = Leftover(table)
        BY <2>1, <3>1, <3>3
      <4>2. ~Untouched(rest, table, id)
        <5>1. table = "clips" => ~Foreign(Leftover(table))
          BY LeftoverIs
        <5> QED BY <2>4, <3>3, <4>1, <5>1
      <4>3. id \in DOMAIN p[table]
        BY <2>4, <2>5, <2>8, <3>1, <3>3
      <4> QED BY <4>1, <4>2, <4>3
    <3> QED BY <3>2, <3>3
  <2> QED BY <2>6, <2>7 DEF left
<1>3. IsDocument(rest)
  BY <1>2 DEF IsDocument, TableOf
<1>4. rest = [table \in Tables |-> rest[table]]
  BY <1>1
<1> QED BY <1>2, <1>3, <1>4 DEF IsResidue

-----------------------------------------------------------------------------
(* The unknown *)

\* What the reader did not understand of a document, and the project's own entities
\* with unknown fields, are in what was left.
Unknown(f, p, rest) ==
  \A table \in Tables : \A id \in DOMAIN f[table] :
    /\ Untouched(f, table, id) => id \in DOMAIN rest[table] /\ rest[table][id] = f[table][id]
    /\ f[table][id].more /\ id \in DOMAIN p[table] => id \in DOMAIN rest[table]

LEMMA UnknownRead ==
  ASSUME NEW f, IsDocument(f)
  PROVE  Unknown(f, Read(f), ReadResidue(f))
<1> DEFINE rest == ReadResidue(f)
           p == Read(f)
<1>1. rest = [table \in Tables |-> ResidueOf(f, table)]
  BY DEF ReadResidue, ResidueOf
<1>2. ASSUME NEW table \in Tables, NEW id \in DOMAIN f[table]
      PROVE  /\ Untouched(f, table, id) => id \in DOMAIN rest[table] /\ rest[table][id] = f[table][id]
             /\ f[table][id].more /\ id \in DOMAIN p[table] => id \in DOMAIN rest[table]
  <2> DEFINE left == rest[table]
             stays == Stays(f, table) \ (IF table = "clips" THEN Dropped(f) ELSE {})
  <2>1. left = [k \in stays |-> IF Untouched(f, table, k) THEN f[table][k] ELSE Leftover(table)]
    BY <1>1 DEF ResidueOf
  <2>2. f[table][id].more => id \in Stays(f, table)
    BY DEF Stays
  <2>3. Untouched(f, table, id) <=> (id = Strange \/ (table = "clips" /\ Foreign(f[table][id])))
    BY UntouchedIs
  <2>4. Untouched(f, table, id) => id \in Stays(f, table)
    BY <2>3 DEF Stays, ForeignClips
  <2>5. table = "clips" =>
          /\ id = Strange \/ Foreign(f[table][id]) => id \notin Dropped(f)
          /\ id \in DOMAIN p[table] => id \notin Dropped(f)
    <3>1. table = "clips" => f[table] = f.clips
      OBVIOUS
    <3> QED BY <3>1, WhatIsRead
  <2>6. id \in Stays(f, table) /\ (table = "clips" => id \notin Dropped(f)) => id \in stays
    OBVIOUS
  <2> HIDE DEF left, stays, rest, p
  <2>7. DOMAIN left = stays
    BY <2>1
  <2>8. Untouched(f, table, id) => id \in DOMAIN left /\ left[id] = f[table][id]
    BY <2>1, <2>3, <2>4, <2>5, <2>6, <2>7
  <2>9. f[table][id].more /\ id \in DOMAIN p[table] => id \in DOMAIN left
    BY <2>2, <2>5, <2>6, <2>7
  <2> QED BY <2>8, <2>9 DEF left
<1> QED BY <1>2 DEF Unknown

\* What is written of what was left, and of what was known.
LEMMA WrittenOf ==
  ASSUME NEW p, IsSound(p), NEW rest, NEW table \in Tables
  PROVE  /\ DOMAIN WriteProject(p, rest)[table] = DOMAIN p[table] \cup DOMAIN rest[table]
         /\ \A id \in DOMAIN rest[table] \ DOMAIN p[table] :
              WriteProject(p, rest)[table][id] = rest[table][id]
         /\ \A id \in DOMAIN p[table] :
              /\ WriteProject(p, rest)[table][id].more <=> id \in DOMAIN rest[table]
              /\ ~Untouched(WriteProject(p, rest), table, id)
<1> DEFINE w == WriteProject(p, rest)
           written == w[table]
           known == p[table]
           left == rest[table]
<1>1. WrittenFrom(written, known, left)
  BY WrittenTables
<1>2. /\ Strange \notin DOMAIN known
      /\ \A id \in DOMAIN known : Known(table, known[id])
  BY SoundTables
<1>3. \A id : Untouched(w, table, id) <=>
        (id = Strange \/ (table = "clips" /\ Foreign(written[id])))
  BY UntouchedIs
<1> HIDE DEF w, written, known, left
<1>4. /\ DOMAIN written = DOMAIN known \cup DOMAIN left
      /\ \A id \in DOMAIN left \ DOMAIN known : written[id] = left[id]
  BY <1>1 DEF WrittenFrom
<1>5. ASSUME NEW id \in DOMAIN known
      PROVE  /\ written[id].more <=> id \in DOMAIN left
             /\ ~Untouched(w, table, id)
  <2>1. PICK more \in BOOLEAN : (more <=> id \in DOMAIN left) /\ written[id] = With(known[id], more)
    BY <1>1 DEF WrittenFrom
  <2>2. written[id].more = more
    BY <1>2, <2>1, KnownIsWritten
  <2>3. table = "clips" => ~Foreign(written[id])
    BY <1>2, <2>1, ClipWritten DEF Known
  <2> QED BY <1>2, <1>3, <2>1, <2>2, <2>3
<1> QED BY <1>4, <1>5 DEF w, written, known, left

LEMMA UnknownWritten ==
  ASSUME NEW p, IsSound(p), NEW rest
  PROVE  Unknown(WriteProject(p, rest), p, rest)
<1> DEFINE w == WriteProject(p, rest)
<1>1. ASSUME NEW table \in Tables, NEW id \in DOMAIN w[table]
      PROVE  /\ Untouched(w, table, id) => id \in DOMAIN rest[table] /\ rest[table][id] = w[table][id]
             /\ w[table][id].more /\ id \in DOMAIN p[table] => id \in DOMAIN rest[table]
  <2>1. /\ DOMAIN w[table] = DOMAIN p[table] \cup DOMAIN rest[table]
        /\ \A k \in DOMAIN rest[table] \ DOMAIN p[table] : w[table][k] = rest[table][k]
        /\ \A k \in DOMAIN p[table] : /\ w[table][k].more <=> k \in DOMAIN rest[table]
                                      /\ ~Untouched(w, table, k)
    BY WrittenOf
  <2> HIDE DEF w
  <2> QED BY <2>1
<1> HIDE DEF w
<1>2. Unknown(w, p, rest)
  BY <1>1 DEF Unknown
<1> QED BY <1>2 DEF w

\* A save keeps it.
LEMMA UnknownIsWritten ==
  ASSUME NEW f, NEW p, IsSound(p), NEW rest, NEW gone, IsResidue(rest, p, gone),
         Unknown(f, p, rest), NEW table \in Tables, NEW id \in DOMAIN f[table]
  PROVE  /\ Untouched(f, table, id) => /\ id \in DOMAIN WriteProject(p, rest)[table]
                                       /\ WriteProject(p, rest)[table][id] = f[table][id]
         /\ f[table][id].more /\ id \in DOMAIN p[table] =>
              /\ id \in DOMAIN WriteProject(p, rest)[table]
              /\ WriteProject(p, rest)[table][id].more
<1> DEFINE w == WriteProject(p, rest)
<1>1. /\ DOMAIN w[table] = DOMAIN p[table] \cup DOMAIN rest[table]
      /\ \A k \in DOMAIN rest[table] \ DOMAIN p[table] : w[table][k] = rest[table][k]
      /\ \A k \in DOMAIN p[table] : w[table][k].more <=> k \in DOMAIN rest[table]
  BY WrittenOf
<1>2. /\ Untouched(f, table, id) => id \in DOMAIN rest[table] /\ rest[table][id] = f[table][id]
      /\ f[table][id].more /\ id \in DOMAIN p[table] => id \in DOMAIN rest[table]
  BY DEF Unknown
<1> HIDE DEF w
<1>3. ASSUME Untouched(f, table, id)
      PROVE  id \in DOMAIN w[table] /\ w[table][id] = f[table][id]
  <2>1. /\ Untouched(f, table, id) <=> (id = Strange \/ (table = "clips" /\ Foreign(f[table][id])))
        /\ Untouched(rest, table, id) <=>
             (id = Strange \/ (table = "clips" /\ Foreign(rest[table][id])))
    BY UntouchedIs
  <2>2. Untouched(rest, table, id)
    BY <1>2, <1>3, <2>1
  <2>3. id \notin DOMAIN p[table]
    BY <1>2, <1>3, <2>2 DEF IsResidue
  <2> QED BY <1>1, <1>2, <1>3, <2>3
<1>4. ASSUME f[table][id].more, id \in DOMAIN p[table]
      PROVE  id \in DOMAIN w[table] /\ w[table][id].more
  BY <1>1, <1>2, <1>4
<1> QED BY <1>3, <1>4 DEF w

-----------------------------------------------------------------------------
(* The invariant of a session *)

FileInv ==
  /\ IsDocument(file)
  /\ session # NoSession =>
       /\ IsSound(session) /\ IsResidue(residue, session, deleted)
       /\ Unknown(file, session, residue)

LEMMA FileInvHolds == FileInit => FileInv
BY ProjectFileAssumption DEF FileInit, FileInv

LEMMA NothingInNoSession ==
  ASSUME NEW table \in Tables
  PROVE  DOMAIN NoSession[table] = {}
BY DEF NoSession, Tables

LEMMA DeletionKeepsResidue ==
  ASSUME NEW rest, NEW p, NEW gone, IsResidue(rest, p, gone), NEW q, NEW further,
         \A table \in Tables : DOMAIN q[table] \subseteq DOMAIN p[table],
         \A table \in Tables : \A id \in DOMAIN p[table] \ DOMAIN q[table] :
           <<table, id>> \in further
  PROVE  IsResidue(rest, q, gone \cup further)
BY DEF IsResidue

LEMMA FileInvKept == FileInv /\ [FileNext]_fileVars => FileInv'
<1> SUFFICES ASSUME FileInv, [FileNext]_fileVars PROVE FileInv'
  OBVIOUS
<1>1. CASE Open
  <2>1. /\ IsDocument(file) /\ file' = file /\ session' = Read(file)
        /\ residue' = ReadResidue(file) /\ deleted' = {}
    BY <1>1 DEF Open, FileInv
  <2>2. IsSound(Read(file))
    BY <2>1, ReadIsSound
  <2>3. IsResidue(ReadResidue(file), Read(file), {})
    BY <2>1, ResidueRead
  <2>4. Unknown(file, Read(file), ReadResidue(file))
    BY <2>1, UnknownRead
  <2> QED BY <2>1, <2>2, <2>3, <2>4 DEF FileInv
<1>2. CASE OpenFails
  BY <1>2 DEF OpenFails, fileVars, FileInv
<1>3. ASSUME NEW table \in Tables, NEW id \in DOMAIN session[table], DeleteEntity(table, id)
      PROVE  FileInv'
  <2>1. session # NoSession
    BY <1>3, NothingInNoSession
  <2>2. /\ IsDocument(file) /\ IsSound(session) /\ IsResidue(residue, session, deleted)
        /\ Unknown(file, session, residue)
    BY <2>1 DEF FileInv
  <2>3. /\ ~(table = "tracks" /\ id = session.master)
        /\ session' = DeleteFrom(session, table, id)
        /\ deleted' = deleted \cup UNION {Gone(session, session', t) : t \in Tables}
        /\ file' = file /\ residue' = residue
    BY <1>3 DEF DeleteEntity
  <2>4. /\ IsSound(session')
        /\ \A t \in Tables : DOMAIN session'[t] \subseteq DOMAIN session[t]
    BY <2>2, <2>3, DeletedFrom
  <2>5. \A t \in Tables : \A k \in DOMAIN session[t] \ DOMAIN session'[t] :
          <<t, k>> \in UNION {Gone(session, session', u) : u \in Tables}
    BY DEF Gone
  <2>6. IsResidue(residue, session', deleted')
    BY <2>2, <2>3, <2>4, <2>5, DeletionKeepsResidue
  <2>7. Unknown(file, session', residue)
    BY <2>2, <2>4 DEF Unknown
  <2> QED BY <2>2, <2>3, <2>4, <2>6, <2>7 DEF FileInv
<1>4. CASE Save
  <2>1. /\ session # NoSession /\ file' = WriteProject(session, residue)
        /\ session' = session /\ residue' = residue /\ deleted' = deleted
    BY <1>4 DEF Save
  <2>2. IsSound(session) /\ IsResidue(residue, session, deleted)
    BY <2>1 DEF FileInv
  <2>3. IsDocument(WriteProject(session, residue))
    BY <2>2, WrittenIsDocument DEF IsResidue
  <2>4. Unknown(WriteProject(session, residue), session, residue)
    BY <2>2, UnknownWritten
  <2> QED BY <2>1, <2>2, <2>3, <2>4 DEF FileInv
<1>5. CASE UNCHANGED fileVars
  BY <1>5 DEF fileVars, FileInv
<1> QED BY <1>1, <1>2, <1>3, <1>4, <1>5 DEF FileNext

LEMMA FileInvAlways == FileSpec => []FileInv
BY FileInvHolds, FileInvKept, PTL DEF FileSpec

LEMMA FileInvMends == FileInv => FileIsMended
<1> SUFFICES ASSUME FileInv, session # NoSession PROVE FileIsMended
  BY DEF FileIsMended, MendedIsConsistent, ReopensAsSavedUnlessLeftBehind
<1>1. IsSound(session) /\ IsResidue(residue, session, deleted)
  BY DEF FileInv
<1>2. Consistent(session)
  BY <1>1, SoundIsConsistent
<1>3. ASSUME ~LeftBehind
      PROVE  /\ Reopened = [session EXCEPT !.lanes = FixLaneOrder(@)]
             /\ ReadResidue(WriteProject(session, residue)) = residue
  <2>1. NothingLeftOf(residue, deleted)
    BY <1>3 DEF LeftBehind, NothingLeftOf
  <2>2. Read(WriteProject(session, residue)) = [session EXCEPT !.lanes = FixLaneOrder(@)]
    BY <1>1, <2>1, ProjectBack
  <2>3. ReadResidue(WriteProject(session, residue)) = residue
    BY <1>1, <2>1, ResidueBack
  <2> QED BY <2>2, <2>3 DEF Reopened
<1> QED BY <1>2, <1>3 DEF FileIsMended, MendedIsConsistent, ReopensAsSavedUnlessLeftBehind

(* Whatever project.json says, what the reader makes of it hangs together  *)
(* and so does what deletions leave of it; and unless something that was   *)
(* deleted had fields this reader does not know, a saved project is read   *)
(* back as it was, with the same residue: project_io.cpp's resolution has  *)
(* nothing left to mend.                                                   *)
THEOREM FilesAreMended == FileSpec => []FileIsMended
BY FileInvAlways, FileInvMends, PTL

(* A save never loses what the reader did not understand: entities of a    *)
(* kind this build cannot play stay as they were, and what the project     *)
(* still holds keeps its unknown fields.                                   *)
THEOREM UnknownIsKept == FileSpec => UnknownSurvives
<1> DEFINE IsKept ==
      file' # file =>
        \A table \in Tables : \A id \in DOMAIN file[table] :
          LET written == id \in DOMAIN file'[table]
          IN /\ Untouched(file, table, id) => written /\ file'[table][id] = file[table][id]
             /\ file[table][id].more /\ id \in DOMAIN session[table]
                  => written /\ file'[table][id].more
<1>1. FileInv /\ [FileNext]_fileVars => [IsKept]_fileVars
  <2> SUFFICES ASSUME FileInv, [FileNext]_fileVars, file' # file PROVE IsKept
    OBVIOUS
  <2>1. Save
    BY DEF FileNext, Open, OpenFails, DeleteEntity, fileVars
  <2>2. session # NoSession /\ file' = WriteProject(session, residue)
    BY <2>1 DEF Save
  <2>3. /\ IsSound(session) /\ IsResidue(residue, session, deleted)
        /\ Unknown(file, session, residue)
    BY <2>2 DEF FileInv
  <2>4. ASSUME NEW table \in Tables, NEW id \in DOMAIN file[table]
        PROVE  /\ Untouched(file, table, id) => /\ id \in DOMAIN file'[table]
                                                /\ file'[table][id] = file[table][id]
               /\ file[table][id].more /\ id \in DOMAIN session[table] =>
                    id \in DOMAIN file'[table] /\ file'[table][id].more
    <3> DEFINE w == WriteProject(session, residue)
    <3>1. /\ Untouched(file, table, id) => id \in DOMAIN w[table] /\ w[table][id] = file[table][id]
          /\ file[table][id].more /\ id \in DOMAIN session[table] =>
               id \in DOMAIN w[table] /\ w[table][id].more
      BY <2>3, UnknownIsWritten
    <3> QED BY <2>2, <3>1
  <2> QED BY <2>4
<1> QED BY <1>1, FileInvAlways, PTL DEF FileSpec, UnknownSurvives
=============================================================================
