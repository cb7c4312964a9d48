----------------------------- MODULE BoundedFifo -----------------------------
(***************************************************************************)
(* What rt::MpscRing promises to its callers: a bounded first-in first-out *)
(* queue that never blocks.  A push first takes a place at the tail and    *)
(* then fills it, so the consumer may have to turn back at a place that is *)
(* taken but not filled yet, although pushes behind it are complete.  A    *)
(* place is free again when the consumer has copied the message out.       *)
(***************************************************************************)
EXTENDS Naturals, Sequences

CONSTANTS
  Producers,
  Capacity,
  MaxPush      \* bound on the pushes of one producer

VARIABLES
  queue,      \* the places taken, oldest first: [message, filled]
  hand,       \* the message the consumer is copying out, or none
  accepted,   \* per producer: how many of its pushes have taken a place
  delivered   \* the messages the consumer has received, in order

fifoVars == <<queue, hand, accepted, delivered>>

Message == [from : Producers, number : 1..MaxPush]
Place(m, isFilled) == [message |-> m, filled |-> isFilled]

FifoInit ==
  /\ queue = <<>>
  /\ hand = <<>>
  /\ accepted = [p \in Producers |-> 0]
  /\ delivered = <<>>

TakePlace(p) ==
  /\ accepted[p] < MaxPush
  /\ Len(queue) + Len(hand) < Capacity
  /\ accepted' = [accepted EXCEPT ![p] = @ + 1]
  /\ queue' = Append(queue, Place([from |-> p, number |-> accepted[p] + 1], FALSE))
  /\ UNCHANGED <<hand, delivered>>

FillPlace(p) ==
  /\ \E i \in 1..Len(queue) :
       /\ ~queue[i].filled
       /\ queue[i].message.from = p
       /\ queue' = [queue EXCEPT ![i] = Place(queue[i].message, TRUE)]
  /\ UNCHANGED <<hand, accepted, delivered>>

Remove ==
  /\ hand = <<>>
  /\ queue # <<>>
  /\ Head(queue).filled
  /\ hand' = <<Head(queue).message>>
  /\ queue' = Tail(queue)
  /\ UNCHANGED <<accepted, delivered>>

Deliver ==
  /\ hand # <<>>
  /\ delivered' = Append(delivered, Head(hand))
  /\ hand' = <<>>
  /\ UNCHANGED <<queue, accepted>>

FifoNext ==
  \/ \E p \in Producers : TakePlace(p) \/ FillPlace(p)
  \/ Remove
  \/ Deliver

FifoSpec == FifoInit /\ [][FifoNext]_fifoVars
=============================================================================
