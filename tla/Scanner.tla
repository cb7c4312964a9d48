------------------------------- MODULE Scanner -------------------------------
(***************************************************************************)
(* The plug-in library (plugin/scan): a background scan finds the bundles, *)
(* asks a helper process about those that changed, and streams what it     *)
(* learns to the list on screen; pump, on the UI's thread, commits a scan  *)
(* that completed to the cache and to its file.                            *)
(*                                                                         *)
(* A row is kept under the bundle's path and the plug-in's index in it.  A *)
(* bundle on disk has a fingerprint and its plug-ins: one value for each,  *)
(* TRUE if the helper can introspect it.                                   *)
(***************************************************************************)
EXTENDS Naturals, Sequences, FiniteSets, Functions

CONSTANTS
  Bundles,     \* paths, numbered in the order they are sorted in
  Contents,    \* what a bundle may hold: sequences of BOOLEAN
  MaxChanges,  \* bound: installs, updates and removals
  MaxScans     \* bound: scans and retries ever started

ASSUME ScannerAssumption ==
  /\ Bundles \subseteq Nat
  /\ \A content \in Contents : content \in Seq(BOOLEAN)
  /\ MaxChanges \in Nat /\ MaxScans \in Nat

VARIABLES
  disk,        \* the bundles on disk: path -> [print, holds]
  cacheFile,   \* the cache's file: <<path, index>> -> row
  cache,       \* PluginCache::entries_
  list,        \* PluginLibrary::plugins_
  introspects, \* the probe is the helper process, not the fallback
  state, running, cancelRequested, retrying,   \* of the scanner; retrying: ~prune_on_commit_
  baseline,    \* the cache when the scan was started
  todo,        \* the bundles still to be looked at: [path, print]
  pending, settled, live,  \* rows to show, rows to commit, paths seen
  committed,   \* the library has committed the last scan
  pumping,     \* PluginLibrary::pump has drained, and will look at the scanner
  scans,       \* ghost: scans started
  changes,     \* ghost: changes of the disk
  quiet        \* ghost: the disk is as it was when the last scan was started

scanVars == <<disk, cacheFile, cache, list, introspects, state, running, cancelRequested, retrying,
              baseline, todo, pending, settled, live, committed, pumping, scans, changes,
              quiet>>
scannerVars == <<state, running, cancelRequested, retrying, baseline, todo, pending, settled, live>>

NoRows  == <<>>
Invalid == 0     \* the fingerprint of nothing

Row(print, outcome, known) == [print |-> print, outcome |-> outcome, known |-> known]
\* Rows that go over others.
Over(rows, others) ==
  [key \in DOMAIN rows \cup DOMAIN others |->
     IF key \in DOMAIN rows THEN rows[key] ELSE others[key]]
OneRow(path, row)  == [key \in {<<path, 1>>} |-> row]
RowsOf(rows, path) == Restrict(rows, {key \in DOMAIN rows : key[1] = path})
WithoutBundle(rows, path) == Restrict(rows, {key \in DOMAIN rows : key[1] # path})

fingerprintBundle(path) == IF path \in DOMAIN disk THEN disk[path].print ELSE Invalid

-----------------------------------------------------------------------------
(* The probe *)

\* A helper that exits as it should names the plug-ins of the bundle.
Reported(path, print) ==
  IF path \notin DOMAIN disk THEN NoRows
  ELSE [key \in {<<path, i>> : i \in 1..Len(disk[path].holds)} |->
          Row(print, "ok", disk[path].holds[key[2]])]

\* One that could not be spawned, dies, hangs or talks nonsense leaves one row.
Quarantined(path, print) == OneRow(path, Row(print, "quarantined", FALSE))

\* The fallback never opens a bundle.
Named(path, print) == OneRow(path, Row(print, "ok", FALSE))

\* That there was nothing is a row as well.
Remembered(rows, path, print) ==
  IF rows = NoRows THEN OneRow(path, Row(print, "not-a-plugin", FALSE)) ELSE rows

Probes(path, print) ==
  IF introspects
  THEN {Remembered(Reported(path, print), path, print), Quarantined(path, print)}
  ELSE {Named(path, print)}

-----------------------------------------------------------------------------
(* The scan, on its own thread *)

\* The rows of an unchanged bundle are used again, unless one that is not
\* quarantined knows less than the probe could tell.
\* A slip: a quarantined one is probed, too.
OnlyIfKnown(path, print) ==
  LET rows == {row \in Range(RowsOf(baseline, path)) : row.print = print}
  IN print # Invalid /\ rows # {} /\ \A row \in rows : introspects => row.known
Reusable(path, print) ==
  LET rows == {row \in Range(RowsOf(baseline, path)) : row.print = print}
  IN /\ print # Invalid /\ rows # {}
     /\ \A row \in rows : row.outcome # "quarantined" /\ introspects => row.known

Reused(path, print) ==
  Restrict(baseline, {key \in DOMAIN baseline : key[1] = path /\ baseline[key].print = print})

\* The lists of a set of paths in order; there is one.
Ascending(paths) ==
  {s \in [1..Cardinality(paths) -> paths] :
     Range(s) = paths /\ \A i, j \in DOMAIN s : i < j => s[i] < s[j]}

discoverBundles ==
  {[i \in DOMAIN s |-> [path |-> s[i], print |-> fingerprintBundle(s[i])]] :
     s \in Ascending(DOMAIN disk)}

Discover ==
  /\ state = "discovering" /\ running
  /\ state' = "probing"
  /\ todo' \in discoverBundles
  /\ UNCHANGED <<disk, cacheFile, cache, list, introspects, running, cancelRequested, retrying,
                 baseline, pending, settled, live, committed, pumping, scans, changes,
                 quiet>>

\* One bundle, from the look at cancel_requested_ to the rows it gives.
ProbeBundle ==
  /\ state = "probing" /\ running /\ todo # <<>> /\ ~cancelRequested
  /\ LET path  == Head(todo).path
         print == Head(todo).print
     IN /\ \E rows \in IF Reusable(path, print) THEN {Reused(path, print)}
                       ELSE Probes(path, print) :
             /\ settled' = Over(rows, settled)
             /\ pending' = Over(rows, pending)
        /\ live' = live \cup {path}
  /\ todo' = Tail(todo)
  /\ UNCHANGED <<disk, cacheFile, cache, list, introspects, state, running, cancelRequested, retrying,
                 baseline, committed, pumping, scans, changes, quiet>>

\* Cancelled at a bundle's boundary, or something threw.
GivesUp ==
  /\ running /\ state \in {"discovering", "probing"}
  /\ state' = "cancelled" /\ running' = FALSE /\ todo' = <<>>
  /\ UNCHANGED <<disk, cacheFile, cache, list, introspects, cancelRequested, retrying, baseline,
                 pending, settled, live, committed, pumping, scans, changes,
                 quiet>>

Completes ==
  /\ state = "probing" /\ running /\ todo = <<>>
  /\ state' = "complete"
  /\ UNCHANGED <<disk, cacheFile, cache, list, introspects, running, cancelRequested, retrying,
                 baseline, todo, pending, settled, live, committed, pumping, scans, changes,
                 quiet>>

StopsRunning ==
  /\ state = "complete" /\ running /\ running' = FALSE
  /\ UNCHANGED <<disk, cacheFile, cache, list, introspects, state, cancelRequested, retrying,
                 baseline, todo, pending, settled, live, committed, pumping, scans, changes,
                 quiet>>

-----------------------------------------------------------------------------
(* The library, on the UI's thread *)

StartsRun(retry, base, first, rest) ==
  /\ ~running /\ ~pumping /\ running' = TRUE /\ cancelRequested' = FALSE /\ retrying' = retry
  /\ state' = first /\ todo' = rest /\ baseline' = base
  /\ pending' = NoRows /\ settled' = NoRows /\ live' = {}
  /\ committed' = FALSE
  /\ scans < MaxScans /\ scans' = scans + 1 /\ quiet' = TRUE
  /\ UNCHANGED <<disk, cacheFile, cache, list, introspects, pumping, changes>>

startScan == StartsRun(FALSE, cache, "discovering", <<>>)

\* The baseline has no row of the bundle: it is probed.
retryPlugin(path) ==
  StartsRun(TRUE, WithoutBundle(cache, path), "probing",
        <<[path |-> path, print |-> fingerprintBundle(path)]>>)

cancelScan ==
  /\ ~cancelRequested /\ ~pumping /\ cancelRequested' = TRUE
  /\ UNCHANGED <<disk, cacheFile, cache, list, introspects, state, running, retrying, baseline, todo,
                 pending, settled, live, committed, pumping, scans, changes,
                 quiet>>

\* pump(), first half: the fresh rows go over what is listed.
Drained == Over(pending, list)
Drains ==
  /\ ~pumping /\ pumping' = TRUE
  /\ pending' = NoRows /\ list' = Drained
  /\ UNCHANGED <<disk, cacheFile, cache, introspects, state, running, cancelRequested, retrying,
                 baseline, todo, settled, live, committed, scans, changes, quiet>>

\* A full scan takes the bundles it did not see out of the cache; what settled
\* goes over what is there.
\* A slip: nothing is taken out.
KeepsAll == Over(settled, cache)
Committed ==
  Over(settled, Restrict(cache, {key \in DOMAIN cache : retrying \/ key[1] \in live}))

\* Second half; the scan may have gone on, or come to its end, in between.
Commits ==
  /\ pumping /\ pumping' = FALSE
  /\ IF ~committed /\ ~running /\ state = "complete"
     THEN /\ committed' = TRUE
          /\ cache' = Committed /\ list' = cache'
          /\ cacheFile' \in {cacheFile, cache'}   \* it may not be writable
     ELSE UNCHANGED <<committed, cache, cacheFile, list>>
  /\ UNCHANGED <<disk, introspects, state, running, cancelRequested, retrying, baseline, todo,
                 pending, settled, live, scans, changes, quiet>>

\* A crash or a quit, and the next start: the thread ends and its rows are
\* lost.  A file that is torn, or of another version, is not used.
Relaunch ==
  /\ cache' \in {cacheFile, NoRows} /\ list' = cache'
  /\ introspects' \in BOOLEAN
  /\ state' = "idle" /\ running' = FALSE /\ cancelRequested' = FALSE /\ retrying' = FALSE
  /\ baseline' = NoRows /\ todo' = <<>>
  /\ pending' = NoRows /\ settled' = NoRows /\ live' = {}
  /\ committed' = TRUE /\ pumping' = FALSE
  /\ UNCHANGED <<disk, cacheFile, scans, changes, quiet>>

\* The user installs, updates or removes a bundle.
DiskChanges ==
  /\ changes < MaxChanges /\ changes' = changes + 1 /\ quiet' = FALSE
  /\ \E path \in Bundles :
       \/ \E content \in Contents :
            disk' = [other \in DOMAIN disk \cup {path} |->
                       IF other = path THEN [print |-> changes', holds |-> content] ELSE disk[other]]
       \/ path \in DOMAIN disk /\ disk' = Restrict(disk, DOMAIN disk \ {path})
  /\ UNCHANGED <<cacheFile, cache, list, introspects, committed, pumping, scans>>
  /\ UNCHANGED scannerVars

ScannerInit ==
  /\ disk = <<>> /\ cacheFile = NoRows /\ cache = NoRows /\ list = NoRows
  /\ introspects \in BOOLEAN
  /\ state = "idle" /\ running = FALSE /\ cancelRequested = FALSE /\ retrying = FALSE
  /\ baseline = NoRows /\ todo = <<>> /\ pending = NoRows /\ settled = NoRows /\ live = {}
  /\ committed = TRUE /\ pumping = FALSE /\ scans = 0 /\ changes = 0 /\ quiet = TRUE

ScannerNext ==
  \/ Discover \/ ProbeBundle \/ GivesUp \/ Completes \/ StopsRunning
  \/ startScan \/ cancelScan \/ Drains \/ Commits
  \/ \E path \in {key[1] : key \in DOMAIN list} : retryPlugin(path)
  \/ Relaunch \/ DiskChanges

ScannerSpec == ScannerInit /\ [][ScannerNext]_scanVars

-----------------------------------------------------------------------------
(* Properties *)

\* The rows of a bundle its last probe did not write: those of an index it did
\* not come to.
LeftByProbe(path) ==
  {key \in DOMAIN list : key[1] = path /\ \E i \in 1..(key[2] - 1) : <<path, i>> \in DOMAIN list
                                        /\ (list[<<path, i>>].print # list[key].print
                                            \/ list[<<path, i>>].outcome = "quarantined")}

(* "The scan is authoritative about what exists": when a full scan of a     *)
(* disk at rest has been committed, the list has every plug-in of every     *)
(* bundle that is not quarantined and nothing else; but rows of plug-ins    *)
(* that an update took away, or of a bundle that was quarantined later, are *)
(* left behind, because a row is replaced by its index only.                *)
FullScan == committed /\ quiet /\ state = "complete" /\ ~retrying /\ introspects
True(path) ==
  LET rows == Restrict(list, {key \in DOMAIN list : key[1] = path} \ LeftByProbe(path))
      print == fingerprintBundle(path)
  IN rows \in {Remembered(Reported(path, print), path, print), Quarantined(path, print)}
ListIsTrueUnlessLeftBehind ==
  FullScan => /\ \A path \in DOMAIN disk : True(path)
           /\ \A key \in DOMAIN list : key[1] \in DOMAIN disk

(* "A plugin that crashed the scanner must not be re-probed on every        *)
(* launch": while a bundle in quarantine does not change, only a retry      *)
(* probes it; but one of its rows that was left behind and is not           *)
(* introspected brings it up again.                                         *)
QuarantineHolds ==
  [][\A path \in Bundles :
       /\ ProbeBundle /\ Head(todo).path = path
       /\ <<path, 1>> \in DOMAIN cache /\ cache[<<path, 1>>].outcome = "quarantined"
       /\ cache[<<path, 1>>].print = Head(todo).print /\ Head(todo).print # Invalid
       /\ ~\E key \in DOMAIN cache : key[1] = path /\ key[2] > 1
       => retrying \/ settled'[<<path, 1>>] = cache[<<path, 1>>]]_scanVars
=============================================================================
