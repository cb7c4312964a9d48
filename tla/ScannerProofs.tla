---------------------------- MODULE ScannerProofs ----------------------------
(***************************************************************************)
(* The list of plug-ins is true of the disk after a full scan, and what is *)
(* in quarantine stays there, for any bundles and contents and every bound *)
(* on the changes of the disk and on the scans.                            *)
(*                                                                         *)
(* ListIsTrueUnlessLeftBehind is about the moment a commit ends.  What it  *)
(* rests on is that the cache is sound of every bundle as it is on disk at *)
(* every moment (SoundInv): whatever rows of that version it has begin at  *)
(* the first, and if the first is known, all of them are there.  That      *)
(* outlives interrupted scans, torn files, retries and updates behind the  *)
(* scan's back, since a bundle that changes is older in every table than   *)
(* it is on disk.  SettledInv says what a scan has found out of a bundle   *)
(* it has looked at, TodoInv what is left, StageInv what the scan was      *)
(* started from, and ListInv what the commit makes of it.                  *)
(***************************************************************************)
EXTENDS Scanner, FiniteSetTheorems, TLAPS

Indices  == Nat \ {0}
Keys     == Bundles \X Indices
Outcomes == {"ok", "quarantined", "not-a-plugin"}
Rows     == [print : Nat, outcome : Outcomes, known : BOOLEAN]
OnDisk   == [print : Indices, holds : Contents]

\* Rows of bundles, none of them of a later change of the disk.
IsTable(t, last) ==
  /\ t \in [DOMAIN t -> Rows] /\ DOMAIN t \subseteq Keys
  /\ \A key \in DOMAIN t : t[key].print <= last

(* What a table may hold of a bundle as it is on disk: rows of all its      *)
(* plug-ins, or a first row that knows less, behind which rows of an        *)
(* earlier answer are left, but true ones.                                  *)
Has(t, path, i)   == <<path, i>> \in DOMAIN t
RowAt(t, path, i) == t[<<path, i>>]
Current(t, path, b, i) == Has(t, path, i) /\ RowAt(t, path, i).print = b.print
Plugin(b, i) == Row(b.print, "ok", b.holds[i])
AllListed(t, path, b) ==
  /\ b.holds # <<>>
  /\ \A i \in 1..Len(b.holds) : Has(t, path, i) /\ RowAt(t, path, i) = Plugin(b, i)
SoundAt(t, path, b) ==
  \A i \in Indices : Current(t, path, b, i) =>
    /\ i > 1 => i <= Len(b.holds) /\ RowAt(t, path, i) = Plugin(b, i)
    /\ Current(t, path, b, 1)
    /\ RowAt(t, path, 1).known => AllListed(t, path, b)
    /\ RowAt(t, path, 1).outcome = "quarantined" => ~RowAt(t, path, 1).known

(* What a scan may have settled of a bundle as it is on disk: one row from  *)
(* a probe, or one for each plug-in, or the rows the cache has of it.       *)
OneRowSettled(s, path, b, asks) ==
  /\ Current(s, path, b, 1) /\ ~RowAt(s, path, 1).known
  /\ RowAt(s, path, 1).outcome = "not-a-plugin" => b.holds = <<>>
  /\ asks => RowAt(s, path, 1).outcome # "ok"
  /\ \A i \in Indices : Has(s, path, i) => i = 1
AllSettled(s, path, b) ==
  /\ AllListed(s, path, b)
  /\ \A i \in Indices : Has(s, path, i) => i <= Len(b.holds)
SettledAsCached(s, c, path, b, asks) ==
  /\ Current(s, path, b, 1)
  /\ \A i \in Indices :
       /\ Has(s, path, i) <=> Current(c, path, b, i)
       /\ Has(s, path, i) => RowAt(s, path, i) = RowAt(c, path, i)
  /\ asks /\ RowAt(s, path, 1).outcome # "quarantined" => RowAt(s, path, 1).known
Answered(s, c, path, b, asks) ==
  \/ OneRowSettled(s, path, b, asks)
  \/ AllSettled(s, path, b)
  \/ SettledAsCached(s, c, path, b, asks)

\* Or of a bundle as it was, when nothing is known of it as it is.
OutOfDate(s, c, path, b) ==
  \A i \in Indices : ~Current(s, path, b, i) /\ ~Current(c, path, b, i)

-----------------------------------------------------------------------------

DiskInv ==
  /\ changes \in Nat /\ disk \in [DOMAIN disk -> OnDisk]
  /\ DOMAIN disk \subseteq Bundles /\ IsFiniteSet(DOMAIN disk)
  /\ \A path \in DOMAIN disk : disk[path].print <= changes

FlagsInv ==
  /\ introspects \in BOOLEAN /\ running \in BOOLEAN /\ retrying \in BOOLEAN
  /\ committed \in BOOLEAN /\ quiet \in BOOLEAN

TablesInv ==
  /\ IsTable(cacheFile, changes) /\ IsTable(cache, changes) /\ IsTable(list, changes)
  /\ IsTable(baseline, changes) /\ IsTable(pending, changes) /\ IsTable(settled, changes)

SoundInv ==
  \A path \in DOMAIN disk :
    SoundAt(cacheFile, path, disk[path]) /\ SoundAt(cache, path, disk[path])

(* No bundle is looked at twice, and what was seen of one that has changed  *)
(* since is older than all that is known of it.                             *)
ToDo == {todo[j].path : j \in DOMAIN todo}
TodoInv ==
  /\ todo \in Seq([path : Bundles, print : 0..changes])
  /\ \A j, k \in DOMAIN todo : todo[j].path = todo[k].path => j = k
  /\ \A j \in DOMAIN todo :
       /\ todo[j].path \notin live
       /\ todo[j].path \in DOMAIN disk /\ todo[j].print # disk[todo[j].path].print =>
            ~quiet /\ \A i \in Indices : ~Current(cache, todo[j].path, disk[todo[j].path], i)

SettledInv ==
  /\ live \subseteq Bundles
  /\ \A key \in DOMAIN settled : key[1] \in live
  /\ \A path \in live \cap DOMAIN disk :
       \/ Answered(settled, cache, path, disk[path], introspects)
       \/ ~quiet /\ OutOfDate(settled, cache, path, disk[path])

StageInv ==
  /\ ~retrying => baseline = cache
  /\ retrying => \A key \in DOMAIN baseline : key[1] \notin ToDo
  /\ state = "discovering" => ~retrying /\ todo = <<>> /\ live = {}
  /\ state = "complete" => todo = <<>>
  /\ quiet /\ ~retrying /\ state \in {"probing", "complete"} => live \cup ToDo = DOMAIN disk

ScanInv == ~committed => TodoInv /\ SettledInv /\ StageInv

(* A row on its way to the list has settled, and what has settled is listed *)
(* once it is committed.                                                    *)
ListInv ==
  /\ running => ~committed
  /\ \A key \in DOMAIN pending : key \in DOMAIN settled /\ settled[key] = pending[key]
  /\ committed /\ state = "complete" =>
       \A key \in DOMAIN settled : key \in DOMAIN list /\ list[key] = settled[key]
  /\ ListIsTrueUnlessLeftBehind

ScannerInv == DiskInv /\ FlagsInv /\ TablesInv /\ SoundInv /\ ScanInv /\ ListInv

-----------------------------------------------------------------------------
(* Tables *)

LEMMA KeyParts ==
  ASSUME NEW key \in Keys
  PROVE  key[1] \in Bundles /\ key[2] \in Indices /\ key = <<key[1], key[2]>>
BY DEF Keys

LEMMA NoRowsAreATable ==
  ASSUME NEW last
  PROVE  IsTable(NoRows, last) /\ DOMAIN NoRows = {}
<1>1. NoRows \in [{} -> Rows] /\ DOMAIN NoRows = {}
  BY DEF NoRows
<1> QED
  BY <1>1 DEF IsTable

LEMMA OverTable ==
  ASSUME NEW rows, NEW others
  PROVE  /\ DOMAIN Over(rows, others) = DOMAIN rows \cup DOMAIN others
         /\ \A key \in DOMAIN rows : Over(rows, others)[key] = rows[key]
         /\ \A key \in DOMAIN others \ DOMAIN rows : Over(rows, others)[key] = others[key]
BY DEF Over

LEMMA OverIsATable ==
  ASSUME NEW rows, NEW others, NEW last, IsTable(rows, last), IsTable(others, last)
  PROVE  IsTable(Over(rows, others), last)
<1> DEFINE t == Over(rows, others)
<1>1. /\ DOMAIN t = DOMAIN rows \cup DOMAIN others
      /\ \A key \in DOMAIN rows : t[key] = rows[key]
      /\ \A key \in DOMAIN others \ DOMAIN rows : t[key] = others[key]
      /\ t = [key \in DOMAIN rows \cup DOMAIN others |-> t[key]]
  BY OverTable DEF Over
<1> HIDE DEF t
<1>2. \A key \in DOMAIN t : t[key] \in Rows
  BY <1>1 DEF IsTable
<1>3. \A key \in DOMAIN t : t[key].print <= last
  BY <1>1 DEF IsTable
<1>4. DOMAIN t \subseteq Keys
  BY <1>1 DEF IsTable
<1>5. t \in [DOMAIN t -> Rows]
  BY <1>1, <1>2
<1>6. IsTable(t, last)
  BY <1>3, <1>4, <1>5 DEF IsTable
<1> QED
  BY <1>6 DEF t

LEMMA SomeRowsAreATable ==
  ASSUME NEW t, NEW S, NEW last, IsTable(t, last), S \subseteq DOMAIN t
  PROVE  /\ IsTable(Restrict(t, S), last) /\ DOMAIN Restrict(t, S) = S
         /\ \A key \in S : Restrict(t, S)[key] = t[key]
BY DEF IsTable, Restrict

LEMMA LaterTable ==
  ASSUME NEW t, NEW last \in Nat, NEW later \in Nat, last <= later, IsTable(t, last)
  PROVE  IsTable(t, later)
BY DEF IsTable, Rows

-----------------------------------------------------------------------------
(* A commit *)

(* Of a bundle, t has what is settled, and behind it what was cached. *)
Merged(t, s, c, path) ==
  \A i \in Indices :
    /\ Has(s, path, i) => Has(t, path, i) /\ RowAt(t, path, i) = RowAt(s, path, i)
    /\ ~Has(s, path, i) =>
         /\ Has(t, path, i) <=> Has(c, path, i)
         /\ Has(t, path, i) => RowAt(t, path, i) = RowAt(c, path, i)

LEMMA MergedIsSound ==
  ASSUME NEW t, NEW s, NEW c, NEW path, NEW b \in OnDisk, NEW asks \in BOOLEAN,
         Merged(t, s, c, path), SoundAt(c, path, b),
         Answered(s, c, path, b, asks) \/ OutOfDate(s, c, path, b)
  PROVE  SoundAt(t, path, b)
<1>0. b.holds \in Seq(BOOLEAN) /\ Len(b.holds) \in Nat /\ (b.holds # <<>> <=> Len(b.holds) > 0)
  BY ScannerAssumption DEF OnDisk
<1>1. CASE OutOfDate(s, c, path, b)
  BY <1>1 DEF OutOfDate, Merged, SoundAt, Current
<1>2. CASE OneRowSettled(s, path, b, asks)
  <2>1. \A i \in Indices : i # 1 => i > 1 /\ ~Has(s, path, i)
    BY <1>2 DEF OneRowSettled, Indices
  <2>2. \A i \in Indices : i # 1 /\ Current(t, path, b, i) =>
          Current(c, path, b, i) /\ RowAt(t, path, i) = RowAt(c, path, i)
    BY <2>1 DEF Merged, Current
  <2>3. 1 \in Indices
    BY DEF Indices
  <2>4. Current(t, path, b, 1) /\ RowAt(t, path, 1) = RowAt(s, path, 1)
    BY <1>2, <2>3 DEF OneRowSettled, Merged, Current
  <2>5. ~RowAt(t, path, 1).known
    BY <1>2, <2>4 DEF OneRowSettled
  <2> QED
    BY <2>1, <2>2, <2>4, <2>5 DEF SoundAt
<1>3. CASE AllSettled(s, path, b)
  <2>0. \A i \in 1..Len(b.holds) : i \in Indices
    BY <1>0 DEF Indices
  <2>1. \A i \in 1..Len(b.holds) : Has(t, path, i) /\ RowAt(t, path, i) = Plugin(b, i)
    BY <1>3, <2>0 DEF AllSettled, AllListed, Merged
  <2>2. \A i \in Indices : i > Len(b.holds) => ~Current(t, path, b, i)
    <3> SUFFICES ASSUME NEW i \in Indices, i > Len(b.holds), Current(t, path, b, i)
                 PROVE  FALSE
      OBVIOUS
    <3>1. ~Has(s, path, i) /\ i > 1
      BY <1>0, <1>3 DEF AllSettled, AllListed, Indices
    <3>2. Current(c, path, b, i)
      BY <3>1 DEF Merged, Current
    <3> QED
      BY <1>0, <3>1, <3>2 DEF SoundAt, Indices
  <2>3. AllListed(t, path, b) /\ Current(t, path, b, 1)
    BY <1>0, <1>3, <2>1 DEF AllSettled, AllListed, Current, Plugin, Row
  <2>4. RowAt(t, path, 1).outcome # "quarantined"
    BY <1>0, <1>3, <2>1 DEF AllSettled, AllListed, Plugin, Row
  <2> QED
    BY <1>0, <2>1, <2>2, <2>3, <2>4 DEF SoundAt, Indices
<1>4. CASE SettledAsCached(s, c, path, b, asks)
  <2>1. ASSUME NEW i \in Indices
        PROVE  Current(t, path, b, i) <=> Current(c, path, b, i)
    <3>1. CASE Has(s, path, i)
      BY <1>4, <3>1 DEF SettledAsCached, Merged, Current
    <3>2. CASE ~Has(s, path, i)
      BY <1>4, <3>2 DEF SettledAsCached, Merged, Current
    <3> QED
      BY <3>1, <3>2
  <2>2. ASSUME NEW i \in Indices, Current(c, path, b, i)
        PROVE  RowAt(t, path, i) = RowAt(c, path, i)
    <3>1. Has(s, path, i) /\ RowAt(s, path, i) = RowAt(c, path, i)
      BY <1>4, <2>2 DEF SettledAsCached
    <3> QED
      BY <3>1 DEF Merged
  <2>3. Current(c, path, b, 1) /\ 1 \in Indices
    BY <1>4 DEF SettledAsCached, Current, Indices
  <2>4. AllListed(c, path, b) => AllListed(t, path, b)
    <3>1. \A i \in 1..Len(b.holds) : i \in Indices
      BY DEF Indices
    <3>2. \A i \in 1..Len(b.holds) : RowAt(c, path, i) = Plugin(b, i) /\ Has(c, path, i)
                                       => Current(c, path, b, i)
      BY DEF Current, Plugin, Row
    <3> QED
      BY <2>1, <2>2, <3>1, <3>2 DEF AllListed, Current
  <2> QED
    BY <2>1, <2>2, <2>3, <2>4 DEF SoundAt
<1> QED
  BY <1>1, <1>2, <1>3, <1>4 DEF Answered

(* The rows a list should have of a bundle, and those it has as a last      *)
(* probe left them; see LeftByProbe and True.                               *)
AllOf(path, b) ==
  IF b.holds = <<>> THEN OneRow(path, Row(b.print, "not-a-plugin", FALSE))
  ELSE [key \in {<<path, i>> : i \in 1..Len(b.holds)} |-> Row(b.print, "ok", b.holds[key[2]])]
LeftIn(t, path) ==
  {key \in DOMAIN t : key[1] = path /\ \E i \in 1..(key[2] - 1) :
                        /\ <<path, i>> \in DOMAIN t
                        /\ \/ t[<<path, i>>].print # t[key].print
                           \/ t[<<path, i>>].outcome = "quarantined"}
Probed(t, path) == {key \in DOMAIN t : key[1] = path} \ LeftIn(t, path)

(* Once it is merged, what is listed of a bundle is one row that says so,   *)
(* or all its plug-ins.                                                     *)
LEMMA MergedIsAnAnswer ==
  ASSUME NEW t, NEW s, NEW c, NEW path, NEW b \in OnDisk, NEW last,
         IsTable(t, last), path \in Bundles,
         Merged(t, s, c, path), SoundAt(t, path, b), Answered(s, c, path, b, TRUE)
  PROVE  \/ Has(t, path, 1) /\ RowAt(t, path, 1) = Row(b.print, "quarantined", FALSE)
         \/ /\ b.holds = <<>> /\ Has(t, path, 1)
            /\ RowAt(t, path, 1) = Row(b.print, "not-a-plugin", FALSE)
         \/ AllListed(t, path, b)
<1>0. 1 \in Indices
  BY DEF Indices
<1>1. ASSUME Current(t, path, b, 1)
      PROVE  /\ Has(t, path, 1)
             /\ RowAt(t, path, 1) = Row(b.print, RowAt(t, path, 1).outcome, RowAt(t, path, 1).known)
             /\ RowAt(t, path, 1).outcome \in Outcomes /\ RowAt(t, path, 1).known \in BOOLEAN
  <2>1. <<path, 1>> \in DOMAIN t /\ t[<<path, 1>>].print = b.print
    BY <1>1 DEF Current, Has, RowAt
  <2>2. t[<<path, 1>>] \in Rows
    BY <2>1 DEF IsTable
  <2> QED
    BY <2>1, <2>2 DEF Has, RowAt, Row, Rows
<1>2. CASE OneRowSettled(s, path, b, TRUE)
  <2>1. Current(t, path, b, 1) /\ RowAt(t, path, 1) = RowAt(s, path, 1)
    BY <1>0, <1>2 DEF OneRowSettled, Merged, Current
  <2>2. ~RowAt(t, path, 1).known /\ RowAt(t, path, 1).outcome # "ok"
    BY <1>2, <2>1 DEF OneRowSettled
  <2>3. RowAt(t, path, 1).outcome = "not-a-plugin" => b.holds = <<>>
    BY <1>2, <2>1 DEF OneRowSettled
  <2> QED
    BY <1>1, <2>1, <2>2, <2>3 DEF Outcomes
<1>3. CASE AllSettled(s, path, b)
  <2>1. \A i \in 1..Len(b.holds) : i \in Indices
    BY ScannerAssumption DEF OnDisk, Indices
  <2> QED
    BY <1>3, <2>1 DEF AllSettled, AllListed, Merged
<1>4. CASE SettledAsCached(s, c, path, b, TRUE)
  <2>1. Current(t, path, b, 1) /\ RowAt(t, path, 1) = RowAt(s, path, 1)
    BY <1>0, <1>4 DEF SettledAsCached, Merged, Current
  <2>2. \/ RowAt(t, path, 1).outcome = "quarantined" /\ ~RowAt(t, path, 1).known
        \/ AllListed(t, path, b)
    BY <1>0, <1>4, <2>1 DEF SettledAsCached, SoundAt
  <2> QED
    BY <1>1, <2>1, <2>2
<1> QED
  BY <1>2, <1>3, <1>4 DEF Answered

(* What a probe did not come to is not counted. *)
LEMMA CountedRows ==
  ASSUME NEW t, NEW last, IsTable(t, last), NEW path \in Bundles
  PROVE  /\ \A key \in Probed(t, path) : key[2] \in Indices /\ key = <<path, key[2]>>
         /\ \A i \in Indices :
              <<path, i>> \in Probed(t, path) <=>
                /\ Has(t, path, i)
                /\ \A j \in 1..(i - 1) : Has(t, path, j) =>
                     RowAt(t, path, j).print = RowAt(t, path, i).print
                       /\ RowAt(t, path, j).outcome # "quarantined"
<1>1. \A key \in Probed(t, path) : key[2] \in Indices /\ key = <<path, key[2]>>
  BY KeyParts DEF Probed, IsTable
<1>2. ASSUME NEW i \in Indices
      PROVE  <<path, i>> \in LeftIn(t, path) <=>
               /\ Has(t, path, i)
               /\ \E j \in 1..(i - 1) : /\ Has(t, path, j)
                                        /\ \/ RowAt(t, path, j).print # RowAt(t, path, i).print
                                           \/ RowAt(t, path, j).outcome = "quarantined"
  BY DEF LeftIn, Has, RowAt
<1>3. \A i \in Indices : <<path, i>> \in Probed(t, path) <=>
        Has(t, path, i) /\ <<path, i>> \notin LeftIn(t, path)
  BY DEF Probed, Has
<1> QED
  BY <1>1, <1>2, <1>3

LEMMA AnswerIsTrue ==
  ASSUME NEW t, NEW path \in Bundles, NEW b \in OnDisk, NEW last, IsTable(t, last),
         SoundAt(t, path, b),
         \/ Has(t, path, 1) /\ RowAt(t, path, 1) = Row(b.print, "quarantined", FALSE)
         \/ /\ b.holds = <<>> /\ Has(t, path, 1)
            /\ RowAt(t, path, 1) = Row(b.print, "not-a-plugin", FALSE)
         \/ AllListed(t, path, b)
  PROVE  Restrict(t, Probed(t, path))
           \in {AllOf(path, b), OneRow(path, Row(b.print, "quarantined", FALSE))}
<1>0. /\ b.holds \in Seq(BOOLEAN) /\ Len(b.holds) \in Nat /\ (b.holds # <<>> <=> Len(b.holds) > 0)
      /\ 1 \in Indices
  BY ScannerAssumption DEF OnDisk, Indices
<1>1. ASSUME NEW row, row.print = b.print, Has(t, path, 1), RowAt(t, path, 1) = row,
             row.outcome = "quarantined" \/ b.holds = <<>>
      PROVE  Restrict(t, Probed(t, path)) = OneRow(path, row)
  <2>1. <<path, 1>> \in Probed(t, path)
    BY <1>0, <1>1, CountedRows
  <2>2. ASSUME NEW i \in Indices, <<path, i>> \in Probed(t, path)
        PROVE  i = 1
    <3> SUFFICES ASSUME i # 1 PROVE FALSE
      OBVIOUS
    <3>1. 1 \in 1..(i - 1) /\ i > 1
      BY DEF Indices
    <3>2. Has(t, path, i) /\ RowAt(t, path, i).print = b.print /\ row.outcome # "quarantined"
      BY <1>1, <2>2, <3>1, CountedRows
    <3>3. i <= Len(b.holds)
      BY <3>1, <3>2 DEF SoundAt, Current
    <3>4. b.holds = <<>>
      BY <1>1, <3>2
    <3>5. Len(b.holds) = 0
      BY <3>4
    <3> QED
      BY <3>1, <3>3, <3>5 DEF Indices
  <2>3. Probed(t, path) = {<<path, 1>>}
    BY <2>1, <2>2, CountedRows
  <2> QED
    BY <1>1, <2>3 DEF Restrict, OneRow, RowAt
<1>2. ASSUME AllListed(t, path, b)
      PROVE  Restrict(t, Probed(t, path)) = AllOf(path, b)
  <2> DEFINE here == {<<path, i>> : i \in 1..Len(b.holds)}
  <2>1. \A i \in 1..Len(b.holds) :
          /\ i \in Indices /\ Has(t, path, i) /\ RowAt(t, path, i) = Plugin(b, i)
          /\ RowAt(t, path, i).print = b.print /\ RowAt(t, path, i).outcome # "quarantined"
    BY <1>0, <1>2 DEF AllListed, Plugin, Row, Indices
  <2>2. ASSUME NEW i \in 1..Len(b.holds)
        PROVE  <<path, i>> \in Probed(t, path)
    <3>1. \A j \in 1..(i - 1) : j \in 1..Len(b.holds)
      BY <1>0
    <3> QED
      BY <2>1, <3>1, CountedRows
  <2>3. ASSUME NEW i \in Indices, <<path, i>> \in Probed(t, path)
        PROVE  i \in 1..Len(b.holds)
    <3> SUFFICES ASSUME i > Len(b.holds) PROVE FALSE
      BY <1>0 DEF Indices
    <3>1. 1 \in 1..(i - 1) /\ 1 \in 1..Len(b.holds) /\ i > 1
      BY <1>0, <1>2 DEF AllListed, Indices
    <3>2. Has(t, path, i) /\ RowAt(t, path, i).print = b.print
      BY <2>1, <2>3, <3>1, CountedRows
    <3>3. i <= Len(b.holds)
      BY <3>1, <3>2 DEF SoundAt, Current
    <3> QED
      BY <1>0, <3>3 DEF Indices
  <2>4. Probed(t, path) = here
    BY <2>1, <2>2, <2>3, CountedRows
  <2>5. \A i \in 1..Len(b.holds) : t[<<path, i>>] = Row(b.print, "ok", b.holds[i])
    BY <2>1 DEF RowAt, Plugin
  <2>6. \A key \in here : t[key] = Row(b.print, "ok", b.holds[key[2]])
    BY <2>5
  <2> QED
    BY <1>2, <2>4, <2>6 DEF Restrict, AllOf, AllListed
<1>3. Row(b.print, "quarantined", FALSE).print = b.print
      /\ Row(b.print, "quarantined", FALSE).outcome = "quarantined"
      /\ Row(b.print, "not-a-plugin", FALSE).print = b.print
  BY DEF Row
<1> QED
  BY <1>1, <1>2, <1>3 DEF AllOf

-----------------------------------------------------------------------------
(* A look at a bundle *)

LEMMA SameRows ==
  ASSUME NEW s, NEW other, NEW c, NEW path, NEW b, NEW asks \in BOOLEAN,
         \A i \in Indices : /\ Has(s, path, i) <=> Has(other, path, i)
                            /\ Has(s, path, i) => RowAt(s, path, i) = RowAt(other, path, i)
  PROVE  /\ \A i \in Indices : Current(s, path, b, i) <=> Current(other, path, b, i)
         /\ b \in OnDisk /\ Answered(s, c, path, b, asks) => Answered(other, c, path, b, asks)
<1>0. 1 \in Indices
  BY DEF Indices
<1>1. \A i \in Indices : Current(s, path, b, i) <=> Current(other, path, b, i)
  BY DEF Current
<1>2. ASSUME OneRowSettled(s, path, b, asks)
      PROVE  OneRowSettled(other, path, b, asks)
  <2>1. Current(other, path, b, 1) /\ RowAt(other, path, 1) = RowAt(s, path, 1)
    BY <1>0, <1>1, <1>2 DEF OneRowSettled, Current
  <2> QED
    BY <1>2, <2>1 DEF OneRowSettled
<1>3. ASSUME b \in OnDisk, AllSettled(s, path, b)
      PROVE  AllSettled(other, path, b)
  <2>1. \A i \in 1..Len(b.holds) : i \in Indices
    BY <1>3, ScannerAssumption DEF OnDisk, Indices
  <2> QED
    BY <1>3, <2>1 DEF AllSettled, AllListed
<1>4. ASSUME SettledAsCached(s, c, path, b, asks)
      PROVE  SettledAsCached(other, c, path, b, asks)
  <2>1. Current(other, path, b, 1) /\ RowAt(other, path, 1) = RowAt(s, path, 1)
    BY <1>0, <1>1, <1>4 DEF SettledAsCached, Current
  <2>2. ASSUME NEW i \in Indices
        PROVE  /\ Has(other, path, i) <=> Current(c, path, b, i)
               /\ Has(other, path, i) => RowAt(other, path, i) = RowAt(c, path, i)
    BY <1>4 DEF SettledAsCached
  <2> QED
    BY <1>4, <2>1, <2>2 DEF SettledAsCached
<1> QED
  BY <1>1, <1>2, <1>3, <1>4 DEF Answered

\* The rows are of one bundle and of one version of it.
IsOf(rows, path, print, last) ==
  /\ IsTable(rows, last)
  /\ \A key \in DOMAIN rows : key[1] = path /\ rows[key].print = print

LEMMA OneRowIs ==
  ASSUME NEW path \in Bundles, NEW last \in Nat, NEW row \in Rows, row.print <= last
  PROVE  /\ IsOf(OneRow(path, row), path, row.print, last)
         /\ RowAt(OneRow(path, row), path, 1) = row
         /\ \A i \in Indices : Has(OneRow(path, row), path, i) <=> i = 1
<1> DEFINE rows == OneRow(path, row)
<1>1. DOMAIN rows = {<<path, 1>>} /\ rows[<<path, 1>>] = row /\ rows \in [{<<path, 1>>} -> Rows]
  BY DEF OneRow
<1>2. <<path, 1>> \in Keys
  BY DEF Keys, Indices
<1> HIDE DEF rows
<1>3. IsOf(rows, path, row.print, last)
  BY <1>1, <1>2 DEF IsOf, IsTable
<1>4. /\ RowAt(rows, path, 1) = row
      /\ \A i \in Indices : Has(rows, path, i) <=> i = 1
  BY <1>1 DEF RowAt, Has
<1> QED
  BY <1>3, <1>4 DEF rows

LEMMA AllOfIs ==
  ASSUME NEW path \in Bundles, NEW last \in Nat, NEW b, b.print \in 0..last,
         b.holds \in Seq(BOOLEAN)
  PROVE  /\ IsOf(AllOf(path, b), path, b.print, last)
         /\ b.holds # <<>> => AllSettled(AllOf(path, b), path, b)
<1>1. CASE b.holds = <<>>
  <2>1. Row(b.print, "not-a-plugin", FALSE) \in Rows /\ Row(b.print, "not-a-plugin", FALSE).print <= last
        /\ Row(b.print, "not-a-plugin", FALSE).print = b.print
    BY DEF Row, Rows, Outcomes
  <2> QED
    BY <1>1, <2>1, OneRowIs DEF AllOf
<1>2. CASE b.holds # <<>>
  <2> DEFINE here == {<<path, i>> : i \in 1..Len(b.holds)}
             rows == AllOf(path, b)
             row(key) == Row(b.print, "ok", b.holds[key[2]])
  <2>1. \A i \in 1..Len(b.holds) : i \in Indices /\ b.holds[i] \in BOOLEAN
    BY DEF Indices
  <2>2. \A key \in here : row(key) \in Rows /\ row(key).print = b.print /\ b.print <= last
    BY <2>1 DEF Row, Rows, Outcomes
  <2>3. rows = [key \in here |-> row(key)]
    BY <1>2 DEF AllOf
  <2>4. DOMAIN rows = here /\ \A key \in here : rows[key] = row(key)
    BY <2>3
  <2>5. rows \in [here -> Rows]
    BY <2>2, <2>3
  <2>6. here \subseteq Keys /\ \A key \in here : key[1] = path
    BY <2>1 DEF Keys
  <2>7. \A i \in 1..Len(b.holds) : rows[<<path, i>>] = Row(b.print, "ok", b.holds[i])
    BY <2>4
  <2>8. \A i \in Indices : <<path, i>> \in here => i \in 1..Len(b.holds)
    OBVIOUS
  <2> HIDE DEF rows, row
  <2>9. IsOf(rows, path, b.print, last)
    BY <2>2, <2>4, <2>5, <2>6 DEF IsOf, IsTable
  <2>10. AllSettled(rows, path, b)
    BY <1>2, <2>4, <2>7, <2>8 DEF AllSettled, AllListed, Has, RowAt, Plugin
  <2> QED
    BY <2>9, <2>10 DEF rows
<1> QED
  BY <1>1, <1>2

LEMMA BundleOnDisk ==
  ASSUME DiskInv, NEW path \in DOMAIN disk
  PROVE  /\ path \in Bundles /\ disk[path] \in OnDisk /\ disk[path].holds \in Seq(BOOLEAN)
         /\ disk[path].print \in 1..changes /\ fingerprintBundle(path) = disk[path].print
BY ScannerAssumption DEF DiskInv, OnDisk, Indices, fingerprintBundle

(* What the helper reports, if it does not stay in the bundle. *)
LEMMA ReportIs ==
  ASSUME DiskInv, NEW path \in Bundles, NEW print
  PROVE  /\ path \in DOMAIN disk =>
              Remembered(Reported(path, print), path, print)
                = AllOf(path, [print |-> print, holds |-> disk[path].holds])
         /\ path \notin DOMAIN disk =>
              Remembered(Reported(path, print), path, print)
                = OneRow(path, Row(print, "not-a-plugin", FALSE))
<1>1. ASSUME path \in DOMAIN disk
      PROVE  Remembered(Reported(path, print), path, print)
               = AllOf(path, [print |-> print, holds |-> disk[path].holds])
  <2> DEFINE holds == disk[path].holds
             rows  == [key \in {<<path, i>> : i \in 1..Len(holds)} |->
                         Row(print, "ok", holds[key[2]])]
  <2>1. Reported(path, print) = rows /\ holds \in Seq(BOOLEAN)
    BY <1>1, BundleOnDisk DEF Reported
  <2>2. CASE holds = <<>>
    <3>1. Len(holds) = 0
      BY <2>2
    <3>2. {<<path, i>> : i \in 1..Len(holds)} = {}
      BY <3>1
    <3>3. rows = [key \in {} |-> Row(print, "ok", holds[key[2]])]
      BY <3>2
    <3>4. rows = NoRows
      BY <3>3 DEF NoRows
    <3> QED
      BY <2>1, <2>2, <3>4 DEF Remembered, AllOf
  <2>3. CASE holds # <<>>
    <3>1. 1 \in 1..Len(holds)
      BY <2>1, <2>3
    <3>2. <<path, 1>> \in DOMAIN rows
      BY <3>1
    <3>3. rows # NoRows
      BY <3>2, NoRowsAreATable
    <3> QED
      BY <2>1, <2>3, <3>3 DEF Remembered, AllOf
  <2> QED
    BY <2>2, <2>3
<1>2. ASSUME path \notin DOMAIN disk
      PROVE  Remembered(Reported(path, print), path, print)
               = OneRow(path, Row(print, "not-a-plugin", FALSE))
  BY <1>2 DEF Remembered, Reported
<1> QED
  BY <1>1, <1>2

LEMMA ProbeIs ==
  ASSUME DiskInv, introspects \in BOOLEAN, NEW path \in Bundles, NEW print \in 0..changes,
         NEW rows \in Probes(path, print)
  PROVE  /\ IsOf(rows, path, print, changes)
         /\ path \in DOMAIN disk /\ print = disk[path].print =>
              Answered(rows, cache, path, disk[path], introspects)
<1>0. changes \in Nat /\ print \in Nat /\ print <= changes
  BY DEF DiskInv
<1>1. ASSUME NEW outcome \in Outcomes, rows = OneRow(path, Row(print, outcome, FALSE))
      PROVE  /\ IsOf(rows, path, print, changes)
             /\ path \in DOMAIN disk /\ print = disk[path].print
                  /\ (outcome = "not-a-plugin" => disk[path].holds = <<>>)
                  /\ (introspects => outcome # "ok")
                  => OneRowSettled(rows, path, disk[path], introspects)
  <2> DEFINE row == Row(print, outcome, FALSE)
  <2>1. row \in Rows /\ row.print = print /\ row.outcome = outcome /\ ~row.known
    BY <1>0 DEF Row, Rows
  <2>2. /\ IsOf(rows, path, print, changes) /\ RowAt(rows, path, 1) = row
        /\ \A i \in Indices : Has(rows, path, i) <=> i = 1
    BY <1>0, <1>1, <2>1, OneRowIs
  <2>3. Has(rows, path, 1)
    BY <2>2 DEF Indices
  <2> HIDE DEF row
  <2> QED
    BY <2>1, <2>2, <2>3 DEF OneRowSettled, Current
<1>2. CASE rows = Quarantined(path, print)
  BY <1>1, <1>2 DEF Quarantined, Outcomes, Answered
<1>3. CASE ~introspects /\ rows = Named(path, print)
  BY <1>1, <1>3 DEF Named, Outcomes, Answered
<1>4. CASE rows = Remembered(Reported(path, print), path, print)
  <2>1. CASE path \notin DOMAIN disk
    BY <1>1, <1>4, <2>1, ReportIs DEF Outcomes
  <2>2. CASE path \in DOMAIN disk
    <3> DEFINE b == [print |-> print, holds |-> disk[path].holds]
    <3>1. b.print = print /\ b.holds = disk[path].holds /\ b.holds \in Seq(BOOLEAN)
      BY <2>2, BundleOnDisk
    <3>2. rows = AllOf(path, b)
      BY <1>4, <2>2, ReportIs
    <3>3. print = disk[path].print => b = disk[path]
      BY <2>2, BundleOnDisk DEF OnDisk
    <3> HIDE DEF b
    <3>4. IsOf(rows, path, print, changes)
      BY <1>0, <3>1, <3>2, AllOfIs
    <3>5. CASE b.holds = <<>>
      <4>1. rows = OneRow(path, Row(print, "not-a-plugin", FALSE))
        BY <3>1, <3>2, <3>5 DEF AllOf
      <4> QED
        BY <1>1, <3>1, <3>4, <3>5, <4>1 DEF Outcomes, Answered
    <3>6. CASE b.holds # <<>>
      <4>1. AllSettled(rows, path, b)
        BY <1>0, <3>1, <3>2, <3>6, AllOfIs
      <4> QED
        BY <3>3, <3>4, <4>1 DEF Answered
    <3> QED
      BY <3>5, <3>6
  <2> QED
    BY <2>1, <2>2
<1> QED
  BY <1>2, <1>3, <1>4 DEF Probes

(* The rows of a bundle that are used again are those the cache has of it. *)
LEMMA ReuseIs ==
  ASSUME DiskInv, IsTable(cache, changes), IsTable(baseline, changes), introspects \in BOOLEAN,
         NEW path \in Bundles, NEW print \in 0..changes, Reusable(path, print),
         ~retrying => baseline = cache,
         retrying => \A key \in DOMAIN baseline : key[1] # path,
         path \in DOMAIN disk => SoundAt(cache, path, disk[path])
  PROVE  /\ ~retrying
         /\ IsOf(Reused(path, print), path, print, changes)
         /\ path \in DOMAIN disk /\ print = disk[path].print =>
              Answered(Reused(path, print), cache, path, disk[path], introspects)
<1> DEFINE mine == {key \in DOMAIN baseline : key[1] = path /\ baseline[key].print = print}
           rows == Reused(path, print)
<1>1. /\ DOMAIN rows = mine /\ \A key \in mine : rows[key] = baseline[key]
      /\ IsTable(rows, changes)
  BY SomeRowsAreATable DEF Reused
<1>2. PICK key \in mine : TRUE
  BY DEF Reusable, RowsOf, Restrict, Range
<1>3. ~retrying /\ baseline = cache
  BY <1>2
<1>4. IsOf(rows, path, print, changes)
  BY <1>1 DEF IsOf
<1>5. ASSUME path \in DOMAIN disk, print = disk[path].print
      PROVE  SettledAsCached(rows, cache, path, disk[path], introspects)
  <2>1. \A i \in Indices : Has(rows, path, i) <=> Current(cache, path, disk[path], i)
    BY <1>1, <1>3, <1>5 DEF Has, Current, RowAt
  <2>2. \A i \in Indices : Has(rows, path, i) => RowAt(rows, path, i) = RowAt(cache, path, i)
    BY <1>1, <1>3 DEF Has, RowAt
  <2>3. key \in Keys /\ key[2] \in Indices /\ key = <<path, key[2]>>
    BY <1>2, KeyParts DEF IsTable
  <2>4. Current(cache, path, disk[path], key[2])
    BY <1>2, <1>3, <1>5, <2>3 DEF Current, Has, RowAt
  <2>5. Current(cache, path, disk[path], 1) /\ 1 \in Indices
    BY <1>5, <2>3, <2>4 DEF SoundAt, Indices
  <2>6. Has(rows, path, 1) /\ RowAt(rows, path, 1) = RowAt(cache, path, 1)
    BY <2>1, <2>2, <2>5
  <2>7. Current(rows, path, disk[path], 1)
    BY <2>5, <2>6 DEF Current
  <2>8. ASSUME introspects, RowAt(rows, path, 1).outcome # "quarantined"
        PROVE  RowAt(rows, path, 1).known
    <3>1. <<path, 1>> \in mine
      BY <1>1, <2>6 DEF Has
    <3>2. baseline[<<path, 1>>] \in {row \in Range(RowsOf(baseline, path)) : row.print = print}
      BY <3>1 DEF RowsOf, Restrict, Range
    <3>3. RowAt(rows, path, 1) = baseline[<<path, 1>>]
      BY <1>1, <3>1 DEF RowAt
    <3> QED
      BY <2>8, <3>2, <3>3 DEF Reusable
  <2> QED
    BY <2>1, <2>2, <2>7, <2>8 DEF SettledAsCached
<1> QED
  BY <1>3, <1>4, <1>5 DEF Answered

LEMMA StillTrue ==
  ASSUME ListIsTrueUnlessLeftBehind, FullScan' => FullScan /\ UNCHANGED <<disk, list>>
  PROVE  ListIsTrueUnlessLeftBehind'
<1> SUFFICES ASSUME FullScan'
             PROVE  (/\ \A path \in DOMAIN disk : True(path)
                     /\ \A key \in DOMAIN list : key[1] \in DOMAIN disk)'
  BY DEF ListIsTrueUnlessLeftBehind
<1>1. FullScan /\ disk' = disk /\ list' = list
  OBVIOUS
<1>2. \A path \in DOMAIN disk : True(path)' = True(path)
  BY <1>1 DEF True, LeftByProbe, fingerprintBundle, Reported
<1> QED
  BY <1>1, <1>2 DEF ListIsTrueUnlessLeftBehind

LEMMA TailOf ==
  ASSUME NEW S, NEW s \in Seq(S), s # <<>>
  PROVE  /\ Head(s) = s[1] /\ s[1] \in S /\ Tail(s) \in Seq(S) /\ Len(s) \in Nat \ {0}
         /\ DOMAIN s = 1..Len(s) /\ DOMAIN Tail(s) = 1..(Len(s) - 1)
         /\ \A j \in 1..(Len(s) - 1) : Tail(s)[j] = s[j + 1]
OBVIOUS

LEMMA TodoShrinks ==
  ASSUME TodoInv, todo # <<>>, todo' = Tail(todo)
  PROVE  /\ Head(todo) = todo[1] /\ 1 \in DOMAIN todo
         /\ todo[1] \in [path : Bundles, print : 0..changes]
         /\ todo' \in Seq([path : Bundles, print : 0..changes])
         /\ \A j \in DOMAIN todo' : j + 1 \in DOMAIN todo /\ j + 1 # 1 /\ todo'[j] = todo[j + 1]
         /\ \A j, k \in DOMAIN todo' : todo'[j].path = todo'[k].path => j = k
         /\ todo[1].path \notin ToDo' /\ ToDo = {todo[1].path} \cup ToDo'
<1>1. /\ todo \in Seq([path : Bundles, print : 0..changes])
      /\ \A j, k \in DOMAIN todo : todo[j].path = todo[k].path => j = k
  BY DEF TodoInv
<1>2. /\ Len(todo) \in Nat \ {0} /\ DOMAIN todo = 1..Len(todo)
      /\ Head(todo) = todo[1] /\ todo' \in Seq([path : Bundles, print : 0..changes])
      /\ todo[1] \in [path : Bundles, print : 0..changes]
      /\ DOMAIN todo' = 1..(Len(todo) - 1)
      /\ \A j \in 1..(Len(todo) - 1) : todo'[j] = todo[j + 1]
  BY <1>1, TailOf
<1>3. \A j \in DOMAIN todo' : j + 1 \in DOMAIN todo /\ j + 1 # 1 /\ todo'[j] = todo[j + 1] /\ j \in Nat
  BY <1>1, <1>2
<1>4. \A j, k \in DOMAIN todo' : todo'[j].path = todo'[k].path => j = k
  <2> SUFFICES ASSUME NEW j \in DOMAIN todo', NEW k \in DOMAIN todo', todo'[j].path = todo'[k].path
               PROVE  j = k
    OBVIOUS
  <2>1. j + 1 = k + 1
    BY <1>1, <1>3
  <2> QED
    BY <1>3, <2>1
<1>5. 1 \in DOMAIN todo
  BY <1>2
<1>6. \A j \in DOMAIN todo' : todo'[j].path # todo[1].path
  BY <1>1, <1>3, <1>5
<1>7. \A j \in DOMAIN todo : j # 1 => j - 1 \in DOMAIN todo' /\ todo'[j - 1] = todo[j]
  BY <1>1, <1>2
<1>8. ToDo = {todo[1].path} \cup ToDo'
  BY <1>3, <1>5, <1>7 DEF ToDo
<1>9. todo[1].path \notin ToDo'
  BY <1>6 DEF ToDo
<1> QED
  BY <1>2, <1>3, <1>4, <1>5, <1>8, <1>9

LEMMA ProbeBundleKeeps ==
  ASSUME ScannerInv, ProbeBundle
  PROVE  ScannerInv'
<1> DEFINE path  == Head(todo).path
           print == Head(todo).print
<1>1. /\ state = "probing" /\ running /\ todo # <<>> /\ todo' = Tail(todo)
      /\ live' = live \cup {path}
      /\ UNCHANGED <<disk, cacheFile, cache, list, introspects, state, running, cancelRequested,
                     retrying, baseline, committed, pumping, scans, changes, quiet>>
  BY DEF ProbeBundle
<1>2. PICK rows \in IF Reusable(path, print) THEN {Reused(path, print)} ELSE Probes(path, print) :
        settled' = Over(rows, settled) /\ pending' = Over(rows, pending)
  BY DEF ProbeBundle
<1>2a. /\ DOMAIN settled' = DOMAIN rows \cup DOMAIN settled
       /\ DOMAIN pending' = DOMAIN rows \cup DOMAIN pending
       /\ \A key \in DOMAIN rows : settled'[key] = rows[key] /\ pending'[key] = rows[key]
       /\ \A key \in DOMAIN settled \ DOMAIN rows : settled'[key] = settled[key]
       /\ \A key \in DOMAIN pending \ DOMAIN rows : pending'[key] = pending[key]
  BY <1>2 DEF Over
<1>3. ~committed /\ TodoInv /\ SettledInv /\ StageInv
  BY <1>1 DEF ScannerInv, ScanInv, ListInv
<1>4. /\ path \in Bundles /\ print \in 0..changes /\ path \notin live /\ path \in ToDo
      /\ path \in DOMAIN disk /\ print # disk[path].print =>
           ~quiet /\ \A i \in Indices : ~Current(cache, path, disk[path], i)
  BY <1>1, <1>3, TodoShrinks DEF TodoInv, ToDo
<1>5. /\ IsOf(rows, path, print, changes)
      /\ path \in DOMAIN disk /\ print = disk[path].print =>
           Answered(rows, cache, path, disk[path], introspects)
  <2> HIDE DEF path, print
  <2>1. DiskInv /\ introspects \in BOOLEAN /\ IsTable(cache, changes) /\ IsTable(baseline, changes)
        /\ (~retrying => baseline = cache)
        /\ (retrying => \A key \in DOMAIN baseline : key[1] # path)
        /\ (path \in DOMAIN disk => SoundAt(cache, path, disk[path]))
    BY <1>3, <1>4 DEF ScannerInv, FlagsInv, TablesInv, SoundInv, StageInv
  <2>2. CASE Reusable(path, print)
    BY <1>2, <1>4, <2>1, <2>2, ReuseIs
  <2>3. CASE ~Reusable(path, print)
    BY <1>2, <1>4, <2>1, <2>3, ProbeIs
  <2> QED
    BY <2>2, <2>3
<1> HIDE DEF path, print
<1>6. DiskInv' /\ FlagsInv' /\ SoundInv'
  BY <1>1 DEF ScannerInv, DiskInv, FlagsInv, SoundInv
<1>7. TablesInv'
  BY <1>1, <1>2, <1>5, OverIsATable DEF ScannerInv, TablesInv, IsOf
<1>8. TodoInv'
  <2>1. \A j \in DOMAIN todo' :
          j + 1 \in DOMAIN todo /\ j + 1 # 1 /\ todo'[j] = todo[j + 1] /\ todo'[j].path # path
    BY <1>1, <1>3, TodoShrinks DEF path, ToDo
  <2>2. /\ todo' \in Seq([path : Bundles, print : 0..changes'])
        /\ \A j, k \in DOMAIN todo' : todo'[j].path = todo'[k].path => j = k
    BY <1>1, <1>3, TodoShrinks
  <2> QED
    BY <1>1, <1>3, <2>1, <2>2 DEF TodoInv
<1>9. SettledInv'
  <2>1. live' \subseteq Bundles /\ \A key \in DOMAIN settled' : key[1] \in live'
    BY <1>2a, <1>1, <1>3, <1>4, <1>5 DEF SettledInv, IsOf
  <2>2. ASSUME NEW other \in live, other \in DOMAIN disk
        PROVE  \A i \in Indices :
                 /\ Has(settled, other, i) <=> Has(settled', other, i)
                 /\ Has(settled, other, i) => RowAt(settled, other, i) = RowAt(settled', other, i)
    <3>1. other # path
      BY <1>4
    <3>2. \A i \in Indices : <<other, i>> \notin DOMAIN rows
      BY <1>5, <3>1 DEF IsOf
    <3>3. ASSUME NEW i \in Indices
          PROVE  /\ <<other, i>> \in DOMAIN settled <=> <<other, i>> \in DOMAIN settled'
                 /\ <<other, i>> \in DOMAIN settled => settled[<<other, i>>] = settled'[<<other, i>>]
      BY <1>2a, <3>2
    <3> QED
      BY <3>3 DEF Has, RowAt
  <2>3. ASSUME NEW other \in live, other \in DOMAIN disk
        PROVE  \/ Answered(settled', cache, other, disk[other], introspects)
               \/ ~quiet /\ OutOfDate(settled', cache, other, disk[other])
    <3>1. disk[other] \in OnDisk /\ introspects \in BOOLEAN
      BY <2>3 DEF ScannerInv, DiskInv, FlagsInv
    <3>2. CASE Answered(settled, cache, other, disk[other], introspects)
      BY <2>2, <2>3, <3>1, <3>2, SameRows
    <3>3. CASE ~quiet /\ OutOfDate(settled, cache, other, disk[other])
      <4>1. \A i \in Indices : Current(settled, other, disk[other], i)
                                 <=> Current(settled', other, disk[other], i)
        BY <2>2, <2>3 DEF Current
      <4> QED
        BY <3>3, <4>1 DEF OutOfDate
    <3> QED
      BY <1>3, <2>3, <3>2, <3>3 DEF SettledInv
  <2>4. \A i \in Indices : /\ Has(rows, path, i) <=> Has(settled', path, i)
                           /\ Has(rows, path, i) => RowAt(rows, path, i) = RowAt(settled', path, i)
    <3>1. \A i \in Indices : <<path, i>> \notin DOMAIN settled
      BY <1>3, <1>4 DEF SettledInv
    <3> QED
      BY <1>2a, <3>1 DEF Has, RowAt
  <2>5. ASSUME path \in DOMAIN disk
        PROVE  \/ Answered(settled', cache, path, disk[path], introspects)
               \/ ~quiet /\ OutOfDate(settled', cache, path, disk[path])
    <3>1. disk[path] \in OnDisk /\ introspects \in BOOLEAN
      BY <2>5 DEF ScannerInv, DiskInv, FlagsInv
    <3>2. CASE print = disk[path].print
      BY <1>5, <2>4, <2>5, <3>1, <3>2, SameRows
    <3>3. CASE print # disk[path].print
      <4>1. \A i \in Indices : Has(rows, path, i) => RowAt(rows, path, i).print = print
        BY <1>5 DEF IsOf, Has, RowAt
      <4>2. \A i \in Indices : ~Current(settled', path, disk[path], i)
        BY <2>4, <3>3, <4>1 DEF Current
      <4> QED
        BY <1>4, <2>5, <3>3, <4>2 DEF OutOfDate
    <3> QED
      BY <3>2, <3>3
  <2> QED
    BY <1>1, <2>1, <2>3, <2>5 DEF SettledInv
<1>10. StageInv'
  <2>1. ToDo = {path} \cup ToDo'
    BY <1>1, <1>3, TodoShrinks DEF path
  <2> QED
    BY <1>1, <1>3, <2>1 DEF StageInv
<1>11. ListInv'
  <2>1. \A key \in DOMAIN pending' : key \in DOMAIN settled' /\ settled'[key] = pending'[key]
    <3> SUFFICES ASSUME NEW key \in DOMAIN pending'
                 PROVE  key \in DOMAIN settled' /\ settled'[key] = pending'[key]
      OBVIOUS
    <3>1. CASE key \in DOMAIN rows
      BY <1>2a, <3>1
    <3>2. CASE key \notin DOMAIN rows
      <4>1. key \in DOMAIN pending /\ pending'[key] = pending[key]
        BY <1>2a, <3>2
      <4>2. key \in DOMAIN settled /\ settled[key] = pending[key]
        BY <4>1 DEF ScannerInv, ListInv
      <4> QED
        BY <1>2a, <3>2, <4>1, <4>2
    <3> QED
      BY <3>1, <3>2
  <2>2. ListIsTrueUnlessLeftBehind'
    BY <1>1, <1>3 DEF ListIsTrueUnlessLeftBehind, FullScan
  <2> QED
    BY <1>1, <1>3, <2>1, <2>2 DEF ListInv
<1> QED
  BY <1>6, <1>7, <1>8, <1>9, <1>10, <1>11 DEF ScannerInv, ScanInv

-----------------------------------------------------------------------------
(* The other steps of the scan's thread *)

\* The steps that look at no bundle.
LEMMA ScanGoesOn ==
  ASSUME ScannerInv,
         UNCHANGED <<disk, cacheFile, cache, list, introspects, retrying, baseline, pending,
                     settled, live, committed, changes, quiet>>,
         running' \in BOOLEAN, running' => running, todo' \in {todo, <<>>},
         committed => state' = state \/ state' # "complete", ~committed => StageInv'
  PROVE  ScannerInv'
<1>1. DiskInv' /\ FlagsInv' /\ TablesInv' /\ SoundInv'
  BY DEF ScannerInv, DiskInv, FlagsInv, TablesInv, SoundInv
<1>2. TodoInv => TodoInv'
  <2>1. <<>> \in Seq([path : Bundles, print : 0..changes']) /\ DOMAIN <<>> = {}
    OBVIOUS
  <2>2. CASE todo' = <<>>
    BY <2>1, <2>2 DEF TodoInv
  <2>3. CASE todo' = todo
    BY <2>3 DEF TodoInv
  <2> QED
    BY <2>2, <2>3
<1>3. SettledInv => SettledInv'
  BY DEF SettledInv
<1>4. ScanInv'
  BY <1>2, <1>3 DEF ScannerInv, ScanInv
<1>5. FullScan' => FullScan /\ UNCHANGED <<disk, list>>
  BY DEF FullScan
<1>6. ListInv'
  BY <1>5, StillTrue DEF ScannerInv, ListInv
<1> QED
  BY <1>1, <1>4, <1>6 DEF ScannerInv

LEMMA ScanStepsKeep ==
  ASSUME ScannerInv, GivesUp \/ Completes \/ StopsRunning \/ cancelScan
  PROVE  ScannerInv'
<1>1. running \in BOOLEAN /\ (running => ~committed) /\ (~committed => StageInv)
  BY DEF ScannerInv, FlagsInv, ScanInv, ListInv
<1>2. CASE GivesUp
  <2>1. StageInv => StageInv'
    BY <1>2 DEF GivesUp, StageInv, ToDo
  <2> QED
    BY <1>1, <1>2, <2>1, ScanGoesOn DEF GivesUp
<1>3. CASE Completes
  <2>1. StageInv => StageInv'
    BY <1>3 DEF Completes, StageInv, ToDo
  <2> QED
    BY <1>1, <1>3, <2>1, ScanGoesOn DEF Completes
<1>4. CASE StopsRunning
  <2>1. StageInv => StageInv'
    BY <1>4 DEF StopsRunning, StageInv, ToDo
  <2> QED
    BY <1>1, <1>4, <2>1, ScanGoesOn DEF StopsRunning
<1>5. CASE cancelScan
  <2>1. StageInv => StageInv'
    BY <1>5 DEF cancelScan, StageInv, ToDo
  <2> QED
    BY <1>1, <1>5, <2>1, ScanGoesOn DEF cancelScan
<1> QED
  BY <1>2, <1>3, <1>4, <1>5

LEMMA IsASequence ==
  ASSUME NEW S, NEW n \in Nat, NEW s \in [1..n -> S]
  PROVE  s \in Seq(S)
OBVIOUS

LEMMA WiderSequences ==
  ASSUME NEW S, NEW T, S \subseteq T, NEW s \in Seq(S)
  PROVE  s \in Seq(T)
<1>1. Len(s) \in Nat /\ s \in [1..Len(s) -> S]
  OBVIOUS
<1>2. s \in [1..Len(s) -> T]
  BY <1>1
<1> QED
  BY <1>1, <1>2, IsASequence

LEMMA Discovered ==
  ASSUME DiskInv, NEW bundles \in discoverBundles
  PROVE  /\ bundles \in Seq([path : Bundles, print : 0..changes])
         /\ \A j, k \in DOMAIN bundles : bundles[j].path = bundles[k].path => j = k
         /\ \A j \in DOMAIN bundles : bundles[j].path \in DOMAIN disk
                                        /\ bundles[j].print = disk[bundles[j].path].print
         /\ {bundles[j].path : j \in DOMAIN bundles} = DOMAIN disk
<1>1. PICK s \in Ascending(DOMAIN disk) :
        bundles = [i \in DOMAIN s |-> [path |-> s[i], print |-> fingerprintBundle(s[i])]]
  BY DEF discoverBundles
<1>2. Cardinality(DOMAIN disk) \in Nat
  BY FS_CardinalityType DEF DiskInv
<1>3. /\ DOMAIN s = 1..Cardinality(DOMAIN disk) /\ Range(s) = DOMAIN disk
      /\ \A i, j \in DOMAIN s : i < j => s[i] < s[j]
      /\ \A i \in DOMAIN s : s[i] \in DOMAIN disk /\ s[i] \in Nat
  BY <1>1, ScannerAssumption DEF Ascending, DiskInv
<1>4. /\ DOMAIN bundles = DOMAIN s
      /\ \A i \in DOMAIN s : bundles[i].path = s[i] /\ bundles[i].print = fingerprintBundle(s[i])
      /\ \A i \in DOMAIN s : bundles[i] \in [path : Bundles, print : 0..changes]
  <2>1. \A i \in DOMAIN s : s[i] \in Bundles /\ fingerprintBundle(s[i]) \in 0..changes
    BY <1>3, BundleOnDisk DEF DiskInv
  <2> QED
    BY <1>1, <2>1
<1>5. bundles \in Seq([path : Bundles, print : 0..changes])
  <2>1. bundles \in [1..Cardinality(DOMAIN disk) -> [path : Bundles, print : 0..changes]]
    BY <1>1, <1>3, <1>4
  <2> QED
    BY <1>2, <2>1, IsASequence
<1>6. ASSUME NEW j \in DOMAIN bundles, NEW k \in DOMAIN bundles,
             bundles[j].path = bundles[k].path
      PROVE  j = k
  <2>1. j \in 1..Cardinality(DOMAIN disk) /\ k \in 1..Cardinality(DOMAIN disk)
        /\ s[j] = s[k] /\ s[j] \in Nat
    BY <1>3, <1>4, <1>6
  <2>2. ~(j < k) /\ ~(k < j)
    BY <1>3, <2>1
  <2> QED
    BY <1>2, <2>1, <2>2
<1>7. \A j \in DOMAIN bundles : bundles[j].path \in DOMAIN disk
                                  /\ bundles[j].print = disk[bundles[j].path].print
  BY <1>3, <1>4, BundleOnDisk
<1>8. {bundles[j].path : j \in DOMAIN bundles} = DOMAIN disk
  BY <1>3, <1>4, ZenonT(40) DEF Range
<1> QED
  BY <1>5, <1>6, <1>7, <1>8

LEMMA DiscoverKeeps ==
  ASSUME ScannerInv, Discover
  PROVE  ScannerInv'
<1>1. /\ state = "discovering" /\ running /\ state' = "probing" /\ todo' \in discoverBundles
      /\ UNCHANGED <<disk, cacheFile, cache, list, introspects, running, cancelRequested, retrying,
                     baseline, pending, settled, live, committed, changes, quiet>>
  BY DEF Discover
<1>2. ~committed /\ TodoInv /\ SettledInv /\ StageInv
  BY <1>1 DEF ScannerInv, ScanInv, ListInv
<1>3. ~retrying /\ live = {}
  BY <1>1, <1>2 DEF StageInv
<1>4. DiskInv' /\ FlagsInv' /\ TablesInv' /\ SoundInv' /\ SettledInv'
  BY <1>1, <1>2 DEF ScannerInv, DiskInv, FlagsInv, TablesInv, SoundInv, SettledInv
<1>5. /\ todo' \in Seq([path : Bundles, print : 0..changes])
      /\ \A j, k \in DOMAIN todo' : todo'[j].path = todo'[k].path => j = k
      /\ \A j \in DOMAIN todo' : todo'[j].path \in DOMAIN disk
                                   /\ todo'[j].print = disk[todo'[j].path].print
      /\ {todo'[j].path : j \in DOMAIN todo'} = DOMAIN disk
  BY <1>1, Discovered DEF ScannerInv
<1>6. TodoInv'
  BY <1>1, <1>3, <1>5 DEF TodoInv
<1>7. StageInv'
  BY <1>1, <1>2, <1>3, <1>5 DEF StageInv, ToDo
<1>8. ListInv'
  BY <1>1, <1>2 DEF ScannerInv, ListInv, ListIsTrueUnlessLeftBehind, FullScan
<1> QED
  BY <1>4, <1>6, <1>7, <1>8 DEF ScannerInv, ScanInv
-----------------------------------------------------------------------------
(* The library *)

LEMMA StartsRunKeeps ==
  ASSUME ScannerInv, NEW retry \in BOOLEAN, NEW base, NEW first, NEW rest,
         StartsRun(retry, base, first, rest), IsTable(base, changes),
         first # "complete",
         TodoInv', ~retry => base = cache,
         retry => \A key \in DOMAIN base : key[1] \notin ToDo',
         first = "discovering" => ~retry /\ rest = <<>>,
         first = "probing" => retry
  PROVE  ScannerInv'
<1>1. /\ running' = TRUE /\ retrying' = retry /\ state' = first /\ todo' = rest
      /\ baseline' = base /\ pending' = NoRows /\ settled' = NoRows /\ live' = {}
      /\ committed' = FALSE /\ quiet' = TRUE
      /\ UNCHANGED <<disk, cacheFile, cache, list, introspects, changes>>
  BY DEF StartsRun
<1>2. DiskInv' /\ FlagsInv' /\ SoundInv'
  BY <1>1 DEF ScannerInv, DiskInv, FlagsInv, SoundInv
<1>3. TablesInv'
  BY <1>1, NoRowsAreATable DEF ScannerInv, TablesInv
<1>4. SettledInv'
  BY <1>1, NoRowsAreATable DEF SettledInv
<1>5. StageInv'
  BY <1>1 DEF StageInv
<1>6. ListInv'
  BY <1>1, NoRowsAreATable DEF ListInv, ListIsTrueUnlessLeftBehind, FullScan
<1> QED
  BY <1>2, <1>3, <1>4, <1>5, <1>6 DEF ScannerInv, ScanInv

LEMMA startScanKeeps ==
  ASSUME ScannerInv, startScan
  PROVE  ScannerInv'
<1>1. StartsRun(FALSE, cache, "discovering", <<>>) /\ todo' = <<>>
  BY DEF startScan, StartsRun
<1>2. <<>> \in Seq([path : Bundles, print : 0..changes']) /\ DOMAIN <<>> = {}
  OBVIOUS
<1>3. TodoInv'
  BY <1>1, <1>2 DEF TodoInv
<1>4. IsTable(cache, changes)
  BY DEF ScannerInv, TablesInv
<1> QED
  BY <1>1, <1>3, <1>4, StartsRunKeeps

LEMMA retryPluginKeeps ==
  ASSUME ScannerInv, NEW path \in {key[1] : key \in DOMAIN list}, retryPlugin(path)
  PROVE  ScannerInv'
<1> DEFINE bundle == [path |-> path, print |-> fingerprintBundle(path)]
           base   == WithoutBundle(cache, path)
<1>1. StartsRun(TRUE, base, "probing", <<bundle>>)
  BY DEF retryPlugin
<1>2. todo' = <<bundle>> /\ live' = {} /\ UNCHANGED <<disk, cache, changes>>
  BY <1>1 DEF StartsRun
<1>3. path \in Bundles
  BY KeyParts DEF ScannerInv, TablesInv, IsTable
<1>4. changes \in Nat /\ fingerprintBundle(path) \in 0..changes
  <2>1. changes \in Nat
    BY DEF ScannerInv, DiskInv
  <2>2. CASE path \in DOMAIN disk
    BY <2>1, <2>2, BundleOnDisk DEF ScannerInv
  <2>3. CASE path \notin DOMAIN disk
    BY <2>1, <2>3 DEF fingerprintBundle, Invalid
  <2> QED
    BY <2>1, <2>2, <2>3
<1>5. /\ bundle \in [path : Bundles, print : 0..changes] /\ bundle.path = path
      /\ path \in DOMAIN disk => bundle.print = disk[path].print
  BY <1>3, <1>4 DEF fingerprintBundle
<1> HIDE DEF bundle
<1>6. /\ <<bundle>> \in Seq([path : Bundles, print : 0..changes])
      /\ DOMAIN <<bundle>> = {1} /\ <<bundle>>[1] = bundle
  BY <1>5
<1>7. TodoInv'
  BY <1>2, <1>5, <1>6 DEF TodoInv
<1>8. IsTable(base, changes) /\ \A key \in DOMAIN base : key[1] # path
  BY SomeRowsAreATable DEF ScannerInv, TablesInv, WithoutBundle
<1>9. \A key \in DOMAIN base : key[1] \notin ToDo'
  BY <1>2, <1>5, <1>6, <1>8 DEF ToDo
<1> HIDE DEF base
<1> QED
  BY <1>1, <1>7, <1>8, <1>9, StartsRunKeeps

LEMMA OverNothingNew ==
  ASSUME NEW rows, NEW t, NEW last, IsTable(t, last),
         \A key \in DOMAIN rows : key \in DOMAIN t /\ t[key] = rows[key]
  PROVE  Over(rows, t) = t
<1>1. DOMAIN rows \cup DOMAIN t = DOMAIN t
  OBVIOUS
<1>2. t = [key \in DOMAIN t |-> t[key]]
  BY DEF IsTable
<1> QED
  BY <1>1, <1>2 DEF Over

LEMMA DrainsKeeps ==
  ASSUME ScannerInv, Drains
  PROVE  ScannerInv'
<1>1. /\ pending' = NoRows /\ list' = Over(pending, list)
      /\ UNCHANGED <<disk, cacheFile, cache, introspects, state, running, cancelRequested,
                     retrying, baseline, todo, settled, live, committed, changes, quiet>>
  BY DEF Drains, Drained
<1>2. DiskInv' /\ FlagsInv' /\ SoundInv'
  BY <1>1 DEF ScannerInv, DiskInv, FlagsInv, SoundInv
<1>3. TablesInv'
  BY <1>1, NoRowsAreATable, OverIsATable DEF ScannerInv, TablesInv
<1>4. ScanInv'
  <2>1. TodoInv => TodoInv'
    BY <1>1 DEF TodoInv
  <2>2. SettledInv => SettledInv'
    BY <1>1 DEF SettledInv
  <2>3. StageInv => StageInv'
    BY <1>1 DEF StageInv, ToDo
  <2> QED
    BY <1>1, <2>1, <2>2, <2>3 DEF ScannerInv, ScanInv
<1>5. ListInv'
  <2>1. (running => ~committed)'
    BY <1>1 DEF ScannerInv, ListInv
  <2>2. \A key \in DOMAIN pending' : key \in DOMAIN settled' /\ settled'[key] = pending'[key]
    BY <1>1, NoRowsAreATable
  <2>3. ASSUME committed', state' = "complete", NEW key \in DOMAIN settled'
        PROVE  key \in DOMAIN list' /\ list'[key] = settled'[key]
    <3>1. key \in DOMAIN settled /\ key \in DOMAIN list /\ list[key] = settled[key]
      BY <1>1, <2>3 DEF ScannerInv, ListInv
    <3>2. CASE key \in DOMAIN pending
      BY <1>1, <3>1, <3>2, OverTable DEF ScannerInv, ListInv
    <3>3. CASE key \notin DOMAIN pending
      <4>1. key \in DOMAIN list \ DOMAIN pending
        BY <3>1, <3>3
      <4>2. key \in DOMAIN Over(pending, list) /\ Over(pending, list)[key] = list[key]
        BY <4>1 DEF Over
      <4> QED
        BY <1>1, <3>1, <4>2
    <3> QED
      BY <3>2, <3>3
  <2>4. FullScan' => FullScan /\ UNCHANGED <<disk, list>>
    <3> SUFFICES ASSUME FullScan' PROVE FullScan /\ UNCHANGED <<disk, list>>
      OBVIOUS
    <3>1. FullScan /\ committed /\ state = "complete"
      BY <1>1 DEF FullScan
    <3>2. \A key \in DOMAIN pending : key \in DOMAIN list /\ list[key] = pending[key]
      BY <3>1 DEF ScannerInv, ListInv
    <3>3. list' = list
      BY <1>1, <3>2, OverNothingNew DEF ScannerInv, TablesInv
    <3> QED
      BY <1>1, <3>1, <3>3
  <2>5. ListIsTrueUnlessLeftBehind'
    BY <2>4, StillTrue DEF ScannerInv, ListInv
  <2> QED
    BY <2>1, <2>2, <2>3, <2>5 DEF ListInv
<1> QED
  BY <1>2, <1>3, <1>4, <1>5 DEF ScannerInv
\* What is known of a bundle is as sound where it is known in the same rows.
LEMMA SameIsSound ==
  ASSUME NEW t, NEW c, NEW path, NEW b \in OnDisk, SoundAt(c, path, b),
         \A i \in Indices : /\ Has(t, path, i) <=> Has(c, path, i)
                            /\ Has(t, path, i) => RowAt(t, path, i) = RowAt(c, path, i)
  PROVE  SoundAt(t, path, b)
<1>1. \A i \in Indices : Current(t, path, b, i) <=> Current(c, path, b, i)
  BY DEF Current
<1>2. AllListed(c, path, b) => AllListed(t, path, b)
  <2>1. \A i \in 1..Len(b.holds) : i \in Indices
    BY ScannerAssumption DEF OnDisk, Indices
  <2> QED
    BY <2>1 DEF AllListed
<1>3. 1 \in Indices
  BY DEF Indices
<1> QED
  BY <1>1, <1>2, <1>3 DEF SoundAt, Current

\* The commit, when the library does commit.
LEMMA CommitKeeps ==
  ASSUME ScannerInv, Commits, ~committed, ~running, state = "complete"
  PROVE  ScannerInv'
<1> DEFINE kept == Restrict(cache, {key \in DOMAIN cache : retrying \/ key[1] \in live})
           t    == Over(settled, kept)
<1>1. /\ committed' = TRUE /\ cache' = t /\ list' = t /\ cacheFile' \in {cacheFile, t}
      /\ UNCHANGED <<disk, introspects, state, running, cancelRequested, retrying, baseline, todo,
                     pending, settled, live, changes, quiet>>
  BY DEF Commits, Committed
<1>2. TodoInv /\ SettledInv /\ StageInv /\ todo = <<>>
  BY DEF ScannerInv, ScanInv, StageInv
<1>3. /\ IsTable(kept, changes)
      /\ DOMAIN kept = {key \in DOMAIN cache : retrying \/ key[1] \in live}
      /\ \A key \in DOMAIN kept : kept[key] = cache[key]
  BY SomeRowsAreATable DEF ScannerInv, TablesInv
<1>4. /\ DOMAIN t = DOMAIN settled \cup DOMAIN kept
      /\ \A key \in DOMAIN settled : t[key] = settled[key]
      /\ \A key \in DOMAIN kept \ DOMAIN settled : t[key] = kept[key]
      /\ IsTable(t, changes)
  BY <1>3, OverTable, OverIsATable DEF ScannerInv, TablesInv
<1> HIDE DEF kept, t
<1>5. DiskInv' /\ FlagsInv' /\ TablesInv'
  BY <1>1, <1>4 DEF ScannerInv, DiskInv, FlagsInv, TablesInv
<1>6. ASSUME NEW path \in live
      PROVE  Merged(t, settled, cache, path)
  <2> SUFFICES ASSUME NEW i \in Indices
               PROVE  /\ Has(settled, path, i) => Has(t, path, i)
                                                    /\ RowAt(t, path, i) = RowAt(settled, path, i)
                      /\ ~Has(settled, path, i) =>
                           /\ Has(t, path, i) <=> Has(cache, path, i)
                           /\ Has(t, path, i) => RowAt(t, path, i) = RowAt(cache, path, i)
    BY DEF Merged
  <2>1. <<path, i>> \in DOMAIN cache <=> <<path, i>> \in DOMAIN kept
    BY <1>3
  <2> QED
    BY <1>3, <1>4, <2>1 DEF Has, RowAt
<1>7. ASSUME NEW path \in DOMAIN disk
      PROVE  SoundAt(t, path, disk[path])
  <2>1. disk[path] \in OnDisk /\ introspects \in BOOLEAN /\ SoundAt(cache, path, disk[path])
    BY DEF ScannerInv, DiskInv, FlagsInv, SoundInv
  <2>2. CASE path \in live
    <3>1. \/ Answered(settled, cache, path, disk[path], introspects)
          \/ OutOfDate(settled, cache, path, disk[path])
      BY <1>2, <2>2 DEF SettledInv
    <3> QED
      BY <1>6, <2>1, <2>2, <3>1, MergedIsSound
  <2>3. CASE path \notin live
    <3>1. \A i \in Indices : <<path, i>> \notin DOMAIN settled
      BY <1>2, <2>3 DEF SettledInv
    <3>2. CASE retrying
      <4>1. ASSUME NEW i \in Indices
            PROVE  /\ Has(t, path, i) <=> Has(cache, path, i)
                   /\ Has(t, path, i) => RowAt(t, path, i) = RowAt(cache, path, i)
        <5>1. <<path, i>> \in DOMAIN cache <=> <<path, i>> \in DOMAIN kept
          BY <1>3, <3>2
        <5> QED
          BY <1>3, <1>4, <3>1, <5>1 DEF Has, RowAt
      <4> QED
        BY <2>1, <4>1, SameIsSound
    <3>3. CASE ~retrying
      <4>1. \A i \in Indices : <<path, i>> \notin DOMAIN t
        BY <1>3, <1>4, <2>3, <3>1, <3>3
      <4> QED
        BY <4>1 DEF SoundAt, Current, Has
    <3> QED
      BY <3>2, <3>3
  <2> QED
    BY <2>2, <2>3
<1>8. SoundInv'
  BY <1>1, <1>7 DEF ScannerInv, SoundInv
<1>9. ScanInv'
  BY <1>1 DEF ScanInv
<1>10. ListIsTrueUnlessLeftBehind'
  <2> SUFFICES ASSUME FullScan'
               PROVE  (/\ \A path \in DOMAIN disk : True(path)
                       /\ \A key \in DOMAIN list : key[1] \in DOMAIN disk)'
    BY DEF ListIsTrueUnlessLeftBehind
  <2>1. quiet /\ ~retrying /\ introspects
    BY <1>1 DEF FullScan
  <2>2. live = DOMAIN disk
    <3>1. ToDo = {}
      BY <1>2 DEF ToDo
    <3>2. live \cup ToDo = DOMAIN disk
      BY <1>2, <2>1 DEF StageInv
    <3> QED
      BY <3>1, <3>2
  <2>3. ASSUME NEW path \in DOMAIN disk
        PROVE  True(path)'
    <3> DEFINE b == disk[path]
    <3>1. path \in Bundles /\ b \in OnDisk /\ fingerprintBundle(path) = b.print
          /\ b = [print |-> b.print, holds |-> b.holds]
      BY BundleOnDisk DEF ScannerInv, OnDisk
    <3>2. Answered(settled, cache, path, b, TRUE)
      BY <1>2, <2>1, <2>2 DEF SettledInv
    <3>3. Merged(t, settled, cache, path) /\ SoundAt(t, path, b)
      BY <1>6, <1>7, <2>2
    <3>4. Remembered(Reported(path, b.print), path, b.print) = AllOf(path, b)
      <4>1. Remembered(Reported(path, b.print), path, b.print)
              = AllOf(path, [print |-> b.print, holds |-> b.holds])
        BY <3>1, ReportIs DEF ScannerInv
      <4> QED
        BY <3>1, <4>1
    <3>5. True(path)' <=> Restrict(t, Probed(t, path))
                            \in {Remembered(Reported(path, b.print), path, b.print),
                                 Quarantined(path, b.print)}
      BY <1>1, <3>1 DEF True, LeftByProbe, Probed, LeftIn, fingerprintBundle, Reported
    <3> HIDE DEF b
    <3>6. \/ Has(t, path, 1) /\ RowAt(t, path, 1) = Row(b.print, "quarantined", FALSE)
          \/ /\ b.holds = <<>> /\ Has(t, path, 1)
             /\ RowAt(t, path, 1) = Row(b.print, "not-a-plugin", FALSE)
          \/ AllListed(t, path, b)
      BY <1>4, <3>1, <3>2, <3>3, MergedIsAnAnswer
    <3>7. Restrict(t, Probed(t, path))
            \in {AllOf(path, b), OneRow(path, Row(b.print, "quarantined", FALSE))}
      BY <1>4, <3>1, <3>3, <3>6, AnswerIsTrue
    <3> QED
      BY <3>4, <3>5, <3>7 DEF Quarantined
  <2>4. \A key \in DOMAIN t : key[1] \in DOMAIN disk
    BY <1>2, <1>3, <1>4, <2>1, <2>2 DEF SettledInv
  <2> QED
    BY <1>1, <2>3, <2>4
<1>11. ListInv'
  BY <1>1, <1>4, <1>10 DEF ScannerInv, ListInv
<1> QED
  BY <1>5, <1>8, <1>9, <1>11 DEF ScannerInv

LEMMA CommitsKeeps ==
  ASSUME ScannerInv, Commits
  PROVE  ScannerInv'
<1>1. CASE ~committed /\ ~running /\ state = "complete"
  BY <1>1, CommitKeeps
<1>2. CASE ~(~committed /\ ~running /\ state = "complete")
  <2>1. UNCHANGED <<disk, cacheFile, cache, list, introspects, state, running, retrying, baseline,
                    todo, pending, settled, live, committed, changes, quiet>>
    BY <1>2 DEF Commits
  <2>2. running' \in BOOLEAN /\ (StageInv => StageInv')
    BY <2>1 DEF ScannerInv, FlagsInv, StageInv, ToDo
  <2> QED
    BY <2>1, <2>2, ScanGoesOn DEF ScannerInv, ScanInv
<1> QED
  BY <1>1, <1>2
-----------------------------------------------------------------------------
(* What happens around it *)

LEMMA RelaunchKeeps ==
  ASSUME ScannerInv, Relaunch
  PROVE  ScannerInv'
<1>1. /\ cache' \in {cacheFile, NoRows} /\ list' = cache' /\ introspects' \in BOOLEAN
      /\ state' = "idle" /\ running' = FALSE /\ retrying' = FALSE /\ baseline' = NoRows
      /\ pending' = NoRows /\ settled' = NoRows /\ committed' = TRUE
      /\ UNCHANGED <<disk, cacheFile, changes, quiet>>
  BY DEF Relaunch
<1>2. DiskInv' /\ FlagsInv' /\ ScanInv'
  BY <1>1 DEF ScannerInv, DiskInv, FlagsInv, ScanInv
<1>3. TablesInv'
  BY <1>1, NoRowsAreATable DEF ScannerInv, TablesInv
<1>4. SoundInv'
  <2>1. \A path \in DOMAIN disk : SoundAt(NoRows, path, disk[path])
    BY NoRowsAreATable DEF SoundAt, Current, Has
  <2> QED
    BY <1>1, <2>1 DEF ScannerInv, SoundInv
<1>5. ListInv'
  BY <1>1, NoRowsAreATable DEF ListInv, ListIsTrueUnlessLeftBehind, FullScan
<1> QED
  BY <1>2, <1>3, <1>4, <1>5 DEF ScannerInv

LEMMA DiskChangesKeeps ==
  ASSUME ScannerInv, DiskChanges
  PROVE  ScannerInv'
<1>0. /\ changes \in Nat /\ changes' = changes + 1 /\ changes <= changes' /\ changes' \in Nat
      /\ quiet' = FALSE
      /\ UNCHANGED <<cacheFile, cache, list, introspects, committed, state, running, retrying,
                     baseline, todo, pending, settled, live>>
  BY DEF DiskChanges, scannerVars, ScannerInv, DiskInv
<1>1. PICK path \in Bundles :
        \/ \E content \in Contents :
             disk' = [other \in DOMAIN disk \cup {path} |->
                        IF other = path THEN [print |-> changes', holds |-> content]
                        ELSE disk[other]]
        \/ path \in DOMAIN disk /\ disk' = Restrict(disk, DOMAIN disk \ {path})
  BY DEF DiskChanges
<1>2. /\ disk' = [other \in DOMAIN disk' |-> disk'[other]]
      /\ DOMAIN disk' \in {DOMAIN disk \cup {path}, DOMAIN disk \ {path}}
      /\ \A other \in DOMAIN disk' : other # path =>
           other \in DOMAIN disk /\ disk'[other] = disk[other]
      /\ path \in DOMAIN disk' => disk'[path].print = changes' /\ disk'[path] \in OnDisk
  <2>1. CASE path \in DOMAIN disk /\ disk' = Restrict(disk, DOMAIN disk \ {path})
    BY <2>1 DEF Restrict
  <2>2. ASSUME NEW content \in Contents,
               disk' = [other \in DOMAIN disk \cup {path} |->
                          IF other = path THEN [print |-> changes', holds |-> content]
                          ELSE disk[other]]
        PROVE  <1>2!:
    <3>1. changes' \in Indices
      BY <1>0 DEF Indices
    <3>2. [print |-> changes', holds |-> content] \in OnDisk
      BY <3>1 DEF OnDisk
    <3> QED
      BY <2>2, <3>2
  <2> QED
    BY <1>1, <2>1, <2>2
<1>3. DiskInv'
  <2>1. IsFiniteSet(DOMAIN disk')
    BY <1>2, FS_AddElement, FS_RemoveElement DEF ScannerInv, DiskInv
  <2>2. \A other \in DOMAIN disk' : disk'[other] \in OnDisk /\ disk'[other].print <= changes'
                                      /\ other \in Bundles
    <3> SUFFICES ASSUME NEW other \in DOMAIN disk'
                 PROVE  disk'[other] \in OnDisk /\ disk'[other].print <= changes'
                          /\ other \in Bundles
      OBVIOUS
    <3>1. CASE other = path
      BY <1>0, <1>1, <1>2, <3>1
    <3>2. CASE other # path
      BY <1>0, <1>2, <3>2 DEF ScannerInv, DiskInv, OnDisk, Indices
    <3> QED
      BY <3>1, <3>2
  <2>3. disk' \in [DOMAIN disk' -> OnDisk]
    BY <1>2, <2>2
  <2> QED
    BY <1>0, <2>1, <2>2, <2>3 DEF DiskInv
<1>4. FlagsInv'
  BY <1>0 DEF ScannerInv, FlagsInv
<1>5. TablesInv'
  BY <1>0, LaterTable DEF ScannerInv, TablesInv
<1>6. ASSUME NEW t, IsTable(t, changes), path \in DOMAIN disk'
      PROVE  \A i \in Indices : ~Current(t, path, disk'[path], i)
  <2> SUFFICES ASSUME NEW i \in Indices, Current(t, path, disk'[path], i)
               PROVE  FALSE
    OBVIOUS
  <2>1. t[<<path, i>>].print = changes'
    BY <1>2, <1>6 DEF Current, RowAt
  <2>2. t[<<path, i>>].print <= changes
    BY <1>6 DEF IsTable, Current, Has
  <2> QED
    BY <1>0, <2>1, <2>2
<1>7. \A t : IsTable(t, changes) /\ path \in DOMAIN disk' => SoundAt(t, path, disk'[path])
  BY <1>6 DEF SoundAt
<1>8. SoundInv'
  BY <1>0, <1>2, <1>7 DEF ScannerInv, SoundInv, TablesInv
<1>9. IsTable(settled, changes) /\ IsTable(cache, changes)
  BY DEF ScannerInv, TablesInv
<1>10. TodoInv => TodoInv'
  <2>1. todo \in Seq([path : Bundles, print : 0..changes])
          => todo \in Seq([path : Bundles, print : 0..changes'])
    <3>1. 0..changes \subseteq 0..changes'
      BY <1>0
    <3>2. [path : Bundles, print : 0..changes] \subseteq [path : Bundles, print : 0..changes']
      BY <3>1
    <3> QED
      BY <3>2, WiderSequences
  <2>2. ASSUME TodoInv, NEW j \in DOMAIN todo, todo[j].path \in DOMAIN disk',
               todo[j].print # disk'[todo[j].path].print
        PROVE  \A i \in Indices : ~Current(cache, todo[j].path, disk'[todo[j].path], i)
    <3>1. CASE todo[j].path = path
      BY <1>6, <1>9, <2>2, <3>1
    <3>2. CASE todo[j].path # path
      BY <1>2, <2>2, <3>2 DEF TodoInv
    <3> QED
      BY <3>1, <3>2
  <2> QED
    BY <1>0, <2>1, <2>2 DEF TodoInv
<1>11. SettledInv => SettledInv'
  <2>1. ASSUME SettledInv, NEW other \in live \cap DOMAIN disk'
        PROVE  \/ Answered(settled, cache, other, disk'[other], introspects)
               \/ OutOfDate(settled, cache, other, disk'[other])
    <3>1. CASE other = path
      BY <1>6, <1>9, <2>1, <3>1 DEF OutOfDate
    <3>2. CASE other # path
      BY <1>2, <2>1, <3>2 DEF SettledInv
    <3> QED
      BY <3>1, <3>2
  <2> QED
    BY <1>0, <2>1 DEF SettledInv
<1>12. StageInv => StageInv'
  BY <1>0 DEF StageInv, ToDo
<1>13. ListInv'
  BY <1>0 DEF ScannerInv, ListInv, ListIsTrueUnlessLeftBehind, FullScan
<1> QED
  BY <1>0, <1>3, <1>4, <1>5, <1>8, <1>10, <1>11, <1>12, <1>13 DEF ScannerInv, ScanInv

-----------------------------------------------------------------------------

LEMMA ScannerInitHolds ==
  ASSUME ScannerInit
  PROVE  ScannerInv
<1>1. /\ disk = <<>> /\ cacheFile = NoRows /\ cache = NoRows /\ list = NoRows
      /\ introspects \in BOOLEAN /\ state = "idle" /\ running = FALSE /\ retrying = FALSE
      /\ baseline = NoRows /\ pending = NoRows /\ settled = NoRows
      /\ committed = TRUE /\ changes = 0 /\ quiet = TRUE
  BY DEF ScannerInit
<1>2. DOMAIN disk = {} /\ disk \in [DOMAIN disk -> OnDisk] /\ IsFiniteSet(DOMAIN disk)
  BY <1>1, FS_EmptySet
<1>3. DiskInv /\ FlagsInv /\ SoundInv /\ ScanInv
  BY <1>1, <1>2 DEF DiskInv, FlagsInv, SoundInv, ScanInv
<1>4. TablesInv
  BY <1>1, NoRowsAreATable DEF TablesInv
<1>5. ListInv
  BY <1>1, NoRowsAreATable DEF ListInv, ListIsTrueUnlessLeftBehind, FullScan
<1> QED
  BY <1>3, <1>4, <1>5 DEF ScannerInv

LEMMA ScannerStepKeeps ==
  ASSUME ScannerInv, [ScannerNext]_scanVars
  PROVE  ScannerInv'
<1>1. CASE ScannerNext
  BY <1>1, DiscoverKeeps, ProbeBundleKeeps, ScanStepsKeep, startScanKeeps, retryPluginKeeps,
     DrainsKeeps, CommitsKeeps, RelaunchKeeps, DiskChangesKeeps DEF ScannerNext
<1>2. CASE UNCHANGED scanVars
  <2>1. /\ running' \in BOOLEAN /\ (StageInv => StageInv')
        /\ UNCHANGED <<disk, cacheFile, cache, list, introspects, state, running, retrying,
                       baseline, todo, pending, settled, live, committed, changes, quiet>>
    BY <1>2 DEF scanVars, ScannerInv, FlagsInv, StageInv, ToDo
  <2> QED
    BY <2>1, ScanGoesOn DEF ScannerInv, ScanInv
<1> QED
  BY <1>1, <1>2

LEMMA ScannerIsKept == ScannerSpec => []ScannerInv
BY ScannerInitHolds, ScannerStepKeeps, PTL DEF ScannerSpec

(* After a full scan of a disk at rest, whatever was interrupted before it, *)
(* the list has each bundle's plug-ins, or that it is in quarantine, and    *)
(* nothing of a bundle that is gone.                                        *)
THEOREM ListIsTrue == ScannerSpec => []ListIsTrueUnlessLeftBehind
<1>1. ScannerInv => ListIsTrueUnlessLeftBehind
  BY DEF ScannerInv, ListInv
<1> QED
  BY <1>1, ScannerIsKept, PTL

(* A bundle in quarantine is not probed by a scan of any launch before it   *)
(* changes on disk.                                                         *)
LEMMA QuarantineIsReused ==
  ASSUME ScannerInv, ProbeBundle, NEW path \in Bundles, ~retrying,
         Head(todo).path = path, <<path, 1>> \in DOMAIN cache,
         cache[<<path, 1>>].outcome = "quarantined", cache[<<path, 1>>].print = Head(todo).print,
         Head(todo).print # Invalid, ~\E key \in DOMAIN cache : key[1] = path /\ key[2] > 1
  PROVE  settled'[<<path, 1>>] = cache[<<path, 1>>]
<1> DEFINE print == Head(todo).print
<1>1. baseline = cache
  BY DEF ScannerInv, ScanInv, ListInv, StageInv, ProbeBundle
<1>2. \A key \in DOMAIN cache : key[1] = path => key = <<path, 1>>
  <2> SUFFICES ASSUME NEW key \in DOMAIN cache, key[1] = path
               PROVE  key = <<path, 1>>
    OBVIOUS
  <2>1. key[2] \in Nat \ {0} /\ key = <<path, key[2]>>
    BY KeyParts DEF ScannerInv, TablesInv, IsTable, Indices
  <2> QED
    BY <2>1
<1>3. \A row \in Range(RowsOf(cache, path)) : row = cache[<<path, 1>>]
  BY <1>2 DEF Range, RowsOf, Restrict
<1>4. cache[<<path, 1>>] \in Range(RowsOf(cache, path))
  <2>1. <<path, 1>> \in {key \in DOMAIN cache : key[1] = path}
    OBVIOUS
  <2> QED
    BY <2>1 DEF Range, RowsOf, Restrict
<1>5. Reusable(path, print)
  BY <1>1, <1>3, <1>4 DEF Reusable
<1>6. settled' = Over(Reused(path, print), settled)
  BY <1>5 DEF ProbeBundle
<1>7. <<path, 1>> \in DOMAIN Reused(path, print)
      /\ Reused(path, print)[<<path, 1>>] = cache[<<path, 1>>]
  <2>1. <<path, 1>> \in {key \in DOMAIN cache : key[1] = path /\ cache[key].print = print}
    OBVIOUS
  <2> QED
    BY <1>1, <2>1 DEF Reused, Restrict
<1> QED
  BY <1>6, <1>7 DEF Over

THEOREM QuarantineIsKept == ScannerSpec => QuarantineHolds
<1> DEFINE Step ==
      \A path \in Bundles :
        /\ ProbeBundle /\ Head(todo).path = path
        /\ <<path, 1>> \in DOMAIN cache /\ cache[<<path, 1>>].outcome = "quarantined"
        /\ cache[<<path, 1>>].print = Head(todo).print /\ Head(todo).print # Invalid
        /\ ~\E key \in DOMAIN cache : key[1] = path /\ key[2] > 1
        => retrying \/ settled'[<<path, 1>>] = cache[<<path, 1>>]
<1>1. ScannerInv => [Step]_scanVars
  BY QuarantineIsReused
<1>2. QuarantineHolds <=> [][Step]_scanVars
  BY DEF QuarantineHolds
<1> QED
  BY <1>1, <1>2, ScannerIsKept, PTL
==============================================================================
