---------------------------- MODULE SnapshotSlot ----------------------------
(***************************************************************************)
(* core::SnapshotSlot: the sequence lock through which the audio thread    *)
(* leaves its state once per block for the UI to read once per frame.      *)
(*                                                                         *)
(* A snapshot is its words, and every word of the n-th write holds n.  The *)
(* words are relaxed atomics between two release stores of sequence_, and  *)
(* the reader's relaxed loads lie between two acquire loads of it.  Those  *)
(* orders leave two freedoms, which the constants switch on:               *)
(*   RelaxedStores  a word may reach the reader before the odd sequence    *)
(*                  number stored ahead of it;                             *)
(*   RelaxedLoads   a word may be loaded after the sequence number that is *)
(*                  read behind it.                                        *)
(* With both FALSE the slot is checked under sequential consistency.       *)
(***************************************************************************)
EXTENDS Naturals

CONSTANTS
  WordCount,
  Attempts,       \* the retries of read(): 6 in the code
  MaxWrites,      \* bound on the writes; 2 * MaxWrites + 2 < 2^32
  MaxReads,       \* bound on the calls of read()
  RelaxedStores,
  RelaxedLoads

ASSUME SlotAssumption ==
  /\ WordCount \in Nat \ {0} /\ Attempts \in Nat \ {0}
  /\ MaxWrites \in Nat /\ MaxReads \in Nat
  /\ RelaxedStores \in BOOLEAN /\ RelaxedLoads \in BOOLEAN

VARIABLES
  sequence, words,                   \* sequence_, words_
  writes,                            \* how many calls of write() have begun
  pending,                           \* the stores of that call still unseen
  readPc, attempt, before, after,    \* the call of read(), its two sequence loads
  missing,                           \* the loads of the attempt still to do
  copy,                              \* its local words
  reads, last,                       \* calls made; the newest snapshot returned
  disturbed, floor,                  \* a write overlapped the call; writes at its start
  reordered                          \* one of the two freedoms has been used

slotVars  == <<sequence, words>>
writeVars == <<writes, pending>>
tryVars   == <<before, after, missing, copy>>
callVars  == <<readPc, attempt, reads, last, disturbed, floor>>
snapshotVars == <<slotVars, writeVars, tryVars, callVars, reordered>>

Word == 1..WordCount
Odd  == 0                            \* the pending store of the odd number
After == 0                           \* the pending load of `after`

SlotInit ==
  /\ sequence = 0
  /\ words = [w \in Word |-> 0]
  /\ writes = 0
  /\ pending = {}
  /\ readPc = "idle"
  /\ attempt = 0
  /\ before = 0
  /\ after = 0
  /\ missing = {}
  /\ copy = [w \in Word |-> 0]
  /\ reads = 0
  /\ last = 0
  /\ disturbed = FALSE
  /\ floor = 0
  /\ reordered = FALSE

-----------------------------------------------------------------------------
(* write(), on the audio thread. *)

Writing == sequence # 2 * writes

WriteBegins ==
  /\ ~Writing
  /\ writes < MaxWrites
  /\ writes' = writes + 1
  /\ pending' = {Odd} \cup Word
  /\ disturbed' = TRUE
  /\ UNCHANGED <<slotVars, tryVars, readPc, attempt, reads, last, floor, reordered>>

OddLands ==
  /\ Odd \in pending
  /\ sequence' = 2 * writes - 1
  /\ pending' = pending \ {Odd}
  /\ UNCHANGED <<words, writes, tryVars, callVars, reordered>>

InOrder(set, w) == \A v \in set : w <= v

WordLands(w) ==
  /\ w \in pending
  /\ RelaxedStores \/ InOrder(pending, w)
  /\ words' = [words EXCEPT ![w] = writes]
  /\ pending' = pending \ {w}
  /\ reordered' = (reordered \/ Odd \in pending)
  /\ UNCHANGED <<sequence, writes, tryVars, callVars>>

\* The release store of the even number comes behind everything before it.
EvenLands ==
  /\ Writing
  /\ pending = {}
  /\ sequence' = 2 * writes
  /\ UNCHANGED <<words, writeVars, tryVars, callVars, reordered>>

Write == WriteBegins \/ OddLands \/ (\E w \in Word : WordLands(w)) \/ EvenLands

-----------------------------------------------------------------------------
(* read(), on the UI thread. *)

ReadBegins ==
  /\ readPc = "idle"
  /\ reads < MaxReads
  /\ reads' = reads + 1
  /\ readPc' = "before"
  /\ attempt' = 1
  /\ disturbed' = Writing
  /\ floor' = IF Writing THEN writes - 1 ELSE writes
  /\ UNCHANGED <<slotVars, writeVars, tryVars, last, reordered>>

Returns(outcome) ==
  /\ readPc' = outcome
  /\ attempt' = 0
  /\ UNCHANGED <<slotVars, writeVars, tryVars, reads, disturbed, floor, reordered>>

\* The loop's condition, after its increment.
AttemptsLeft == attempt < Attempts

\* `continue`, or the end of the loop.
TriesAgain ==
  IF AttemptsLeft
  THEN /\ attempt' = attempt + 1
       /\ readPc' = "before"
       /\ UNCHANGED <<slotVars, writeVars, missing, copy, reads, last, disturbed, floor, reordered>>
  ELSE /\ attempt' = 0
       /\ readPc' = "failed"
       /\ UNCHANGED <<slotVars, writeVars, missing, copy, reads, last, disturbed, floor, reordered>>

\* An odd number says a write is in progress.
InProgress(number) == number % 2 = 1

LoadBefore ==
  /\ readPc = "before"
  /\ before' = sequence
  /\ UNCHANGED after
  /\ \/ /\ sequence = 0                       \* nothing has ever been published
        /\ readPc' = "failed"
        /\ attempt' = 0
        /\ UNCHANGED <<slotVars, writeVars, missing, copy, reads, last, disturbed, floor, reordered>>
     \/ InProgress(sequence) /\ TriesAgain
     \/ /\ sequence # 0 /\ ~InProgress(sequence)
        /\ readPc' = "words"
        /\ missing' = Word \cup {After}
        /\ UNCHANGED <<slotVars, writeVars, copy, attempt, reads, last, disturbed, floor, reordered>>

LoadWord(w) ==
  /\ readPc = "words"
  /\ w \in missing
  /\ RelaxedLoads \/ InOrder(missing \ {After}, w)
  /\ copy' = [copy EXCEPT ![w] = words[w]]
  /\ missing' = missing \ {w}
  /\ reordered' = (reordered \/ After \notin missing)
  /\ UNCHANGED <<slotVars, writeVars, before, after, callVars>>

LoadAfter ==
  /\ readPc = "words"
  /\ After \in missing
  /\ RelaxedLoads \/ missing = {After}
  /\ after' = sequence
  /\ missing' = missing \ {After}
  /\ UNCHANGED <<slotVars, writeVars, before, copy, callVars, reordered>>

\* A slip: the second sequence number is not compared.
CompareNothing ==
  /\ readPc = "words"
  /\ missing = {}
  /\ Returns("copied")
  /\ last' = copy[1]

Compare ==
  /\ readPc = "words"
  /\ missing = {}
  /\ \/ before = after /\ Returns("copied") /\ last' = copy[1]
     \/ before # after /\ TriesAgain /\ UNCHANGED <<before, after>>

CallerResumes ==
  /\ readPc \in {"copied", "failed"}
  /\ readPc' = "idle"
  /\ UNCHANGED <<slotVars, writeVars, tryVars, attempt, reads, last, disturbed, floor, reordered>>

Read ==
  \/ ReadBegins \/ LoadBefore \/ (\E w \in Word : LoadWord(w)) \/ LoadAfter
  \/ Compare \/ CallerResumes

SlotNext == Write \/ Read

SlotSpec == SlotInit /\ [][SlotNext]_snapshotVars

-----------------------------------------------------------------------------
\* What read() hands out is one snapshot, not words of two, as long as neither
\* freedom of the memory orders was used: the two are the only way to a torn read.
TornOnlyIfReordered ==
  readPc = "copied" /\ ~reordered => \A v, w \in Word : copy[v] = copy[w]

\* It is no older than the newest snapshot complete when the call began, so two
\* frames in a row never see the engine go backwards.
ReadIsFresh == readPc = "copied" => copy[1] >= floor

\* read() gives up only when a write got in its way, or nothing was published.
QuietReadSucceeds == readPc = "failed" => disturbed \/ writes = 0

\* The user interface reads a whole snapshot, one no older than its call, and gets
\* one whenever nothing gets in its way.
SnapshotIsSound == TornOnlyIfReordered /\ ReadIsFresh /\ QuietReadSucceeds
=============================================================================
