---------------------------- MODULE MCCommandBus ----------------------------
(* An instance of CommandBus under the playlist for TLC. *)
EXTENDS Playlist

\* A project with every kind of reference: an instrument 3 into a track 1 with
\* an effect 2, a track 11 that feeds it, a pattern 4 with a note, a lane 6 in the
\* group 5, and a clip of each kind.
Arranged ==
  [instruments |-> [i \in {3} |-> [track |-> 1, plugin |-> 0]],
   patterns    |-> [p \in {4} |-> [length |-> 1, notes |-> [i \in {3} |-> {1}]]],
   lanes       |-> [l \in {5, 6} |-> [order |-> l - 5, group |-> IF l = 6 THEN 5 ELSE NoId]],
   clips       |-> [c \in 7..10 |->
                      CASE c = 7  -> [lane |-> 5, source |-> PatternSource(4), length |-> 1]
                        [] c = 8  -> [lane |-> 6, source |-> AudioSource(1), length |-> 3]
                        [] c = 9  -> [lane |-> 6, source |-> EffectCurve(1, 2), length |-> 1]
                        [] c = 10 -> [lane |-> 5, source |-> InstrumentCurve(3), length |-> 1]],
   tracks      |-> [t \in {0, 1, 11} |->
                      CASE t = 0  -> [output |-> NoId, effects |-> <<>>]
                        [] t = 1  -> [output |-> 0, effects |-> <<[id |-> 2, value |-> NoValue]>>]
                        [] t = 11 -> [output |-> 1, effects |-> <<>>]],
   transport   |-> [tempo |-> 2, metronome |-> FALSE]]

\* A pattern of two channels in automatic mode, a clip as long as it, a longer one.
Sketch ==
  [instruments |-> [i \in {2, 3} |-> [track |-> 0, plugin |-> 0]],
   patterns    |-> [p \in {4} |-> [length |-> 0, notes |-> [i \in {2, 3} |-> {1}]]],
   lanes       |-> [l \in {5} |-> [order |-> 0, group |-> NoId]],
   clips       |-> [c \in {7, 8} |-> [lane |-> 5, source |-> PatternSource(4), length |-> c - 6]],
   tracks      |-> [t \in {0} |-> [output |-> NoId, effects |-> <<>>]],
   transport   |-> [tempo |-> 3, metronome |-> FALSE]]

MCLoadable == {Arranged, Sketch}

\* Bound: nothing is claimed of what follows once the history has been left.
OnTheLine == ~strayed
=============================================================================
