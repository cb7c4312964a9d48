----------------------------- MODULE MCMixerGraph -----------------------------
EXTENDS MixerGraph

\* Every routing of up to four tracks: the walk refuses what feeds itself or has
\* no master, and renders everything else once, each track before the one it feeds.
RECURSIVE Reaches(_, _, _)
Reaches(outputs, n, steps) ==
  n \notin DOMAIN outputs \/ (steps > 0 /\ Reaches(outputs, outputs[n], steps - 1))
ASSUME RendersInputsFirst ==
  \A count \in 1..4 : \A outputs \in [1..count -> 0..count] :
    LET order == Finalised(outputs)
        tree  == \A n \in 1..count : Reaches(outputs, n, count)
    IN IF ~tree THEN order = <<>>
       ELSE /\ Len(order) = count /\ ToSet(order) = 1..count
            /\ \A i \in 1..count : \A j \in 1..i : outputs[order[i]] # order[j]
=============================================================================
