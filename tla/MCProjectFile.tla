---------------------------- MODULE MCProjectFile ----------------------------
(* Files for ProjectFile: every routing of three tracks, under a project with *)
(* all kinds of clips, one full of what does not resolve, one of a newer build *)
EXTENDS ProjectFile, TLC

File(tracks, instruments, patterns, lanes, clips) ==
  [format |-> "onebeat.project", version |-> 1, ticks |-> 960, tracks |-> tracks,
   instruments |-> instruments, patterns |-> patterns, lanes |-> lanes, clips |-> clips]

ClipEntity(lane, kind, of, effect) ==
  [lane |-> lane, kind |-> kind, of |-> of, effect |-> effect, length |-> 1, more |-> FALSE]

Routed(output, more) ==
  [t \in 1..3 |-> [output |-> output[t], chain |-> IF t = 1 THEN <<4, Unusable>> ELSE <<>>,
                   more |-> t \in more]]

Outputs == [1..3 -> {Absent, Unusable, 9, 1, 2, 3}]

\* Everything there, an unknown field in some of each kind.
Intact(output) ==
  File(Routed(output, {2}),
       [i \in {5} |-> [routing |-> <<[port |-> 0, track |-> 2]>>, more |-> TRUE]],
       [p \in {6} |-> [notes |-> [i \in {5} |-> {1}], more |-> FALSE]],
       [l \in {7, 8} |-> [order |-> 8 - l, group |-> IF l = 7 THEN 8 ELSE Absent, more |-> l = 8]],
       [c \in {10, 11, 12} |-> CASE c = 10 -> ClipEntity(7, "pattern", 6, Absent)
                                 [] c = 11 -> ClipEntity(8, "effect curve", 1, 4)
                                 [] c = 12 -> [ClipEntity(7, "audio", 2, Absent)
                                                 EXCEPT !.more = TRUE]])

\* Strange keys, foreign clips, and references to nothing.
Broken(output) ==
  File(Routed(output, {}) @@ (Strange :> With(Blank("tracks"), TRUE)),
       [i \in {5} |-> [routing |-> <<[port |-> 0, track |-> 9], [port |-> 1, track |-> Unusable]>>,
                       more |-> FALSE]],
       [p \in {6} |-> [notes |-> [i \in {5, 9} |-> {0, 1}], more |-> TRUE]],
       [l \in {7, 8} |-> [order |-> 0, group |-> IF l = 7 THEN 9 ELSE 8, more |-> FALSE]],
       [c \in {Strange} \cup 10..16 |->
          CASE c = 10 -> ClipEntity(9, "pattern", 6, Absent)
            [] c = 11 -> ClipEntity(8, "effect curve", 2, 4)
            [] c = 12 -> [ClipEntity(7, "instrument curve", 9, Absent) EXCEPT !.more = TRUE]
            [] c = 13 -> ClipEntity(7, "video", 9, Absent)
            [] c = 14 -> [ClipEntity(7, "pattern", 6, Absent) EXCEPT !.length = 0]
            [] c = 15 -> ClipEntity(8, "track curve", 3, Absent)
            [] c = 16 -> ClipEntity(8, "pattern", 9, Absent)
            [] c = Strange -> Leftover("clips")])

Newer == [Intact([t \in 1..3 |-> Absent]) EXCEPT !.version = 2]

MCFiles == {Intact(o) : o \in Outputs} \cup {Broken(o) : o \in Outputs} \cup {Newer}
=============================================================================
