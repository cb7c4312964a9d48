------------------------------ MODULE MCSampler ------------------------------
EXTENDS Sampler

MCTransposes == {-1, 0}

\* Every block of two frames with up to three events in order, some of them due
\* at its end or beyond: the events inside are applied in order, each after the
\* frames before it and none after it, and the block is rendered whole.
MCTimes == UNION {{times \in [1..n -> 0..3] : \A i, j \in 1..n : i <= j => times[i] <= times[j]} :
                  n \in 0..3}
ASSUME SplitsAtEvents ==
  \A times \in MCTimes, frames \in 0..2 :
    LET calls   == Splits(times, frames)
        within  == {i \in DOMAIN times : times[i] < frames}
        applied == SelectSeq(calls, LAMBDA c : c.call = "apply")
        Before(k) == {calls[j].at : j \in {m \in 1..k : calls[m].call = "render"}}
    IN /\ applied = [i \in 1..Cardinality(within) |-> Applies(i)]
       /\ frames > 0 => Last(calls) = Renders(frames)
       /\ \A k \in DOMAIN calls :
            /\ calls[k].call = "apply" =>
                 IF times[calls[k].at] = 0 THEN Before(k) = {}
                 ELSE \A f \in Before(k) : f <= times[calls[k].at]
            /\ calls[k].call = "render" => \A f \in Before(k - 1) : f < calls[k].at

\* Whatever a clip asks for, and whatever sample replaces its own, a voice reads
\* inside the sample.
ASSUME ReadsInside ==
  \A start \in -1..3, length \in 0..3, frames, later \in 0..3 :
    LET w == windowFor(StartWindow(start, length, frames), later)
    IN w.start >= 0 /\ w.start + w.length <= later
=============================================================================
