------------------------------ MODULE MpscRing ------------------------------
(***************************************************************************)
(* rt::MpscRing<T, Capacity>: the ring behind the command queue, the       *)
(* effect parameter queue, the event channel and the RT log.  A producer   *)
(* claims a position by compare-and-swap on enqueue_pos_ and then fills    *)
(* its cell; the cell's sequence number tells the other side whose turn it *)
(* is.  Each access to shared memory is a step; the code's acquire and     *)
(* release pairs on a cell's sequence make the steps on that cell appear   *)
(* in this order, and the positions are only ever read and written by      *)
(* atomic operations on one location.                                      *)
(***************************************************************************)
EXTENDS Naturals, Integers, Sequences

CONSTANTS
  Producers,
  Capacity,
  MaxPush      \* bound on the pushes of one producer

\* With one cell, "written" at a position and "free" at the next are the same
\* number: the code, whose rings hold 256 and more, asks for a power of two only.
ASSUME RingAssumption == Capacity \in Nat \ {0, 1} /\ MaxPush \in Nat

VARIABLES
  cellSequence, data,             \* cells_[i]
  enqueue_pos, dequeue_pos,
  pushPc, pushPos,            \* per producer: the tryPush() call
  popPc, popPos, out,         \* the tryPop() call
  pushed,                     \* per producer: its pushes that got a position
  refused,                    \* per producer: its last push found the ring full
  received                    \* what tryPop() returned, in order

ringVars == <<cellSequence, data, enqueue_pos, dequeue_pos>>
pushVars == <<pushPc, pushPos, pushed, refused>>
popVars  == <<popPc, popPos, out, received>>
vars     == <<ringVars, pushVars, popVars>>

Message == [from : Producers, number : 1..MaxPush]
NoMessage == [from |-> {}, number |-> 0]

Cell(pos) == pos % Capacity

Init ==
  /\ cellSequence = [i \in 0..(Capacity - 1) |-> i]
  /\ data = [i \in 0..(Capacity - 1) |-> NoMessage]
  /\ enqueue_pos = 0
  /\ dequeue_pos = 0
  /\ pushPc = [p \in Producers |-> "idle"]
  /\ pushPos = [p \in Producers |-> 0]
  /\ popPc = "idle"
  /\ popPos = 0
  /\ out = NoMessage
  /\ pushed = [p \in Producers |-> 0]
  /\ refused = [p \in Producers |-> FALSE]
  /\ received = <<>>

-----------------------------------------------------------------------------
(* tryPush() *)

\* A caller drops what did not fit, or tries again: the next push is another
\* message either way, so only successful pushes are numbered.
PushBegins(p) ==
  /\ pushPc[p] = "idle"
  /\ pushed[p] < MaxPush
  /\ pushPos' = [pushPos EXCEPT ![p] = enqueue_pos]
  /\ pushPc' = [pushPc EXCEPT ![p] = "look"]
  /\ refused' = [refused EXCEPT ![p] = FALSE]
  /\ UNCHANGED <<ringVars, pushed, popVars>>

Ahead(p) == cellSequence[Cell(pushPos[p])] - pushPos[p]

SeesFree(p) ==
  /\ pushPc[p] = "look"
  /\ Ahead(p) = 0
  /\ pushPc' = [pushPc EXCEPT ![p] = "claim"]
  /\ UNCHANGED <<ringVars, pushPos, pushed, refused, popVars>>

SeesFull(p) ==
  /\ pushPc[p] = "look"
  /\ Ahead(p) < 0
  /\ pushPc' = [pushPc EXCEPT ![p] = "idle"]
  /\ refused' = [refused EXCEPT ![p] = TRUE]
  /\ UNCHANGED <<ringVars, pushPos, pushed, popVars>>

SeesTaken(p) ==
  /\ pushPc[p] = "look"
  /\ Ahead(p) > 0
  /\ pushPos' = [pushPos EXCEPT ![p] = enqueue_pos]
  /\ UNCHANGED <<ringVars, pushPc, pushed, refused, popVars>>

\* A slip: a plain store where the compare-and-swap belongs.
ClaimsBlindly(p) ==
  /\ pushPc[p] = "claim"
  /\ enqueue_pos' = pushPos[p] + 1
  /\ pushPc' = [pushPc EXCEPT ![p] = "write"]
  /\ pushed' = [pushed EXCEPT ![p] = @ + 1]
  /\ UNCHANGED <<cellSequence, data, dequeue_pos, pushPos, refused, popVars>>

Claims(p) ==
  /\ pushPc[p] = "claim"
  /\ enqueue_pos = pushPos[p]
  /\ enqueue_pos' = pushPos[p] + 1
  /\ pushPc' = [pushPc EXCEPT ![p] = "write"]
  /\ pushed' = [pushed EXCEPT ![p] = @ + 1]
  /\ UNCHANGED <<cellSequence, data, dequeue_pos, pushPos, refused, popVars>>

\* compare_exchange_weak reports the position it found, and may fail for no
\* reason at all.
ClaimFails(p) ==
  /\ pushPc[p] = "claim"
  /\ pushPos' = [pushPos EXCEPT ![p] = enqueue_pos]
  /\ pushPc' = [pushPc EXCEPT ![p] = "look"]
  /\ UNCHANGED <<ringVars, pushed, refused, popVars>>

Writes(p) ==
  /\ pushPc[p] = "write"
  /\ data' = [data EXCEPT ![Cell(pushPos[p])] = [from |-> p, number |-> pushed[p]]]
  /\ pushPc' = [pushPc EXCEPT ![p] = "publish"]
  /\ UNCHANGED <<cellSequence, enqueue_pos, dequeue_pos, pushPos, pushed, refused, popVars>>

\* A slip: the cell is handed over with the number it already had.
PublishesUnchanged(p) ==
  /\ pushPc[p] = "publish"
  /\ cellSequence' = [cellSequence EXCEPT ![Cell(pushPos[p])] = pushPos[p]]
  /\ pushPc' = [pushPc EXCEPT ![p] = "idle"]
  /\ UNCHANGED <<data, enqueue_pos, dequeue_pos, pushPos, pushed, refused, popVars>>

Publishes(p) ==
  /\ pushPc[p] = "publish"
  /\ cellSequence' = [cellSequence EXCEPT ![Cell(pushPos[p])] = pushPos[p] + 1]
  /\ pushPc' = [pushPc EXCEPT ![p] = "idle"]
  /\ UNCHANGED <<data, enqueue_pos, dequeue_pos, pushPos, pushed, refused, popVars>>

-----------------------------------------------------------------------------
(* tryPop(), by the one consumer. *)

PopBegins ==
  /\ popPc = "idle"
  /\ popPos' = dequeue_pos
  /\ popPc' = "look"
  /\ UNCHANGED <<ringVars, pushVars, out, received>>

Behind == cellSequence[Cell(popPos)] - (popPos + 1)

SeesMessage ==
  /\ popPc = "look"
  /\ Behind = 0
  /\ popPc' = "claim"
  /\ UNCHANGED <<ringVars, pushVars, popPos, out, received>>

SeesEmpty ==
  /\ popPc = "look"
  /\ Behind < 0
  /\ popPc' = "idle"
  /\ UNCHANGED <<ringVars, pushVars, popPos, out, received>>

\* A slip: the cell is given back before it has been copied out.
PopsAndReleases ==
  /\ popPc = "claim"
  /\ dequeue_pos = popPos
  /\ dequeue_pos' = popPos + 1
  /\ cellSequence' = [cellSequence EXCEPT ![Cell(popPos)] = popPos + Capacity]
  /\ popPc' = "read"
  /\ UNCHANGED <<data, enqueue_pos, pushVars, popPos, out, received>>

Pops ==
  /\ popPc = "claim"
  /\ dequeue_pos = popPos
  /\ dequeue_pos' = popPos + 1
  /\ popPc' = "read"
  /\ UNCHANGED <<cellSequence, data, enqueue_pos, pushVars, popPos, out, received>>

PopFails ==
  /\ popPc = "claim"
  /\ popPos' = dequeue_pos
  /\ popPc' = "look"
  /\ UNCHANGED <<ringVars, pushVars, out, received>>

Reads ==
  /\ popPc = "read"
  /\ out' = data[Cell(popPos)]
  /\ popPc' = "release"
  /\ UNCHANGED <<ringVars, pushVars, popPos, received>>

Releases ==
  /\ popPc = "release"
  /\ cellSequence' = [cellSequence EXCEPT ![Cell(popPos)] = popPos + Capacity]
  /\ received' = Append(received, out)
  /\ popPc' = "idle"
  /\ UNCHANGED <<data, enqueue_pos, dequeue_pos, pushVars, popPos, out>>

Push(p) ==
  \/ PushBegins(p) \/ SeesFree(p) \/ SeesFull(p) \/ SeesTaken(p)
  \/ Claims(p) \/ ClaimFails(p) \/ Writes(p) \/ Publishes(p)
Pop ==
  \/ PopBegins \/ SeesMessage \/ SeesEmpty
  \/ Pops \/ PopFails \/ Reads \/ Releases

Next == (\E p \in Producers : Push(p)) \/ Pop

Spec == Init /\ [][Next]_vars

\* A push that has its position completes, and the consumer drains again and
\* again; its compare-and-swap, which nobody contends, does not fail for ever.
FairSpec ==
  /\ Spec
  /\ \A p \in Producers : WF_vars(Writes(p) \/ Publishes(p))
  /\ WF_vars(Pop)
  /\ SF_vars(Pops)

-----------------------------------------------------------------------------
(* The queue the ring stands for. *)

Written(pos) == cellSequence[Cell(pos)] = pos + 1

\* The message at a claimed position: still with its producer until written.
MessageAt(pos) ==
  IF Written(pos) THEN data[Cell(pos)]
  ELSE LET p == CHOOSE q \in Producers :
                  pushPc[q] \in {"write", "publish"} /\ pushPos[q] = pos
       IN [from |-> p, number |-> pushed[p]]

PlaceAt(pos) == [message |-> MessageAt(pos), filled |-> Written(pos)]
PlacesTaken  == [i \in 1..(enqueue_pos - dequeue_pos) |-> PlaceAt(dequeue_pos + i - 1)]
CopiedOut ==
  CASE popPc = "read"    -> <<data[Cell(popPos)]>>
    [] popPc = "release" -> <<out>>
    [] OTHER             -> <<>>

Fifo == INSTANCE BoundedFifo WITH
  queue <- PlacesTaken, hand <- CopiedOut, accepted <- pushed, delivered <- received

\* The ring is the bounded queue: no message is lost, duplicated or reordered
\* against the order of the claims, and no place is taken twice.
ImplementsFifo == Fifo!FifoSpec

TypeOK ==
  /\ cellSequence \in [0..(Capacity - 1) -> Nat]
  /\ data \in [0..(Capacity - 1) -> Message \cup {NoMessage}]
  /\ enqueue_pos \in Nat /\ dequeue_pos \in Nat
  /\ dequeue_pos <= enqueue_pos /\ enqueue_pos <= dequeue_pos + Capacity
  /\ pushPc \in [Producers -> {"idle", "look", "claim", "write", "publish"}]
  /\ pushPos \in [Producers -> Nat]
  /\ popPc \in {"idle", "look", "claim", "read", "release"}
  /\ popPos \in Nat
  /\ out \in Message \cup {NoMessage}
  /\ pushed \in [Producers -> 0..MaxPush]
  /\ refused \in [Producers -> BOOLEAN]
  /\ received \in Seq(Message)

\* The plain accesses to data never race: a cell being written is written by
\* one producer, and not being read.
CellIsExclusive ==
  /\ \A p, q \in Producers :
       (pushPc[p] = "write" /\ pushPc[q] = "write" /\ p # q)
         => Cell(pushPos[p]) # Cell(pushPos[q])
  /\ \A p \in Producers :
       (pushPc[p] = "write" /\ popPc = "read") => Cell(pushPos[p]) # Cell(popPos)

\* A push is refused only when every cell is taken, or being copied out.
RefusedOnlyWhenFull ==
  [][\A p \in Producers :
       refused'[p] /\ ~refused[p] =>
         enqueue_pos - dequeue_pos + (IF popPc \in {"read", "release"} THEN 1 ELSE 0)
           = Capacity]_vars

\* Every message that got a place reaches the consumer.
PushedIsReceived ==
  \A p \in Producers, n \in 1..MaxPush :
    (pushed[p] >= n) ~> (\E i \in 1..Len(received) : received[i] = [from |-> p, number |-> n])
(* The ring is a bounded queue, and says it is full only when it is.       *)
IsABoundedQueue == ImplementsFifo /\ RefusedOnlyWhenFull
(* A cell is read or written by one thread at a time.                      *)
CellsAreSafe == TypeOK /\ CellIsExclusive
=============================================================================
