----------------------------- MODULE MCSongExport -----------------------------
EXTENDS SongExport, SequencesExt

\* The resampler, for inputs of up to seven samples in up to three blocks, up and
\* down, with two taps: it makes the same outputs however the input is cut, it
\* has kept all that an output needs, and once flushed it has made one for every
\* position inside the input.
MCRates == {<<1, 2>>, <<2, 3>>, <<3, 2>>, <<2, 1>>}
ASSUME ResamplesWhole ==
  \A rate \in MCRates, blocks \in UNION {[1..n -> 1..3] : n \in 1..3}, slack \in 0..1 :
    LET p == rate[1]
        q == rate[2]
        steps == [i \in 0..Len(blocks) |->
                   FoldLeft(LAMBDA r, n : Resampled(r, n, 2, slack, p, q), Fresh,
                            SubSeq(blocks, 1, i))]
        whole == FoldLeft(LAMBDA m, n : m + n, 0, blocks)
        last  == Flushed(steps[Len(blocks)], 2, slack, p, q)
    IN /\ steps[Len(blocks)].made = Resampled(Fresh, whole, 2, slack, p, q).made
       /\ \A i \in 1..Len(blocks) :
            \A k \in steps[i - 1].made..(steps[i].made - 1) :
              \A sample \in Window(k, 2, p, q) :
                sample >= steps[i - 1].origin /\ sample < steps[i].received
       /\ \A k \in 0..(whole * q) : k * p < whole * q => k < last.made

\* An export does not take the name of a file that is there, while one is free.
ASSUME NeverAnOverwrite ==
  \A taken \in SUBSET (1..4) : taken # 1..4 => exportDestination(taken, 4) \notin taken
=============================================================================
