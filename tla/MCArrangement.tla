---------------------------- MODULE MCArrangement -----------------------------
EXTENDS Arrangement

Note(start, length, on, key) == [start |-> start, length |-> length, on |-> on, key |-> key]
Placed(kind, start, length, lane) ==
  [kind |-> kind, start |-> start, length |-> length, lane |-> lane, window |-> 0, loop |-> TRUE,
   transpose |-> 0, muted |-> FALSE]
Unmuted == [muted |-> FALSE, soloed |-> FALSE]
Channel == [muted |-> FALSE, soloed |-> FALSE, shift |-> 0, gate |-> 100, low |-> 0, high |-> 3]

Song(notes, first, second) ==
  [notes |-> notes, length |-> 0, swing |-> 0, points |-> {[position |-> 2, value |-> 7]},
   lanes |-> [l \in 1..2 |-> Unmuted], channels |-> [c \in 1..2 |-> Channel],
   clips |-> [c \in 1..3 |-> CASE c = 1 -> first [] c = 2 -> second
                                 [] c = 3 -> Placed("audio", 4, 3, 2)]]

\* A pattern on a lane; the same pattern twice, the second over the first.
MCSongs ==
  {Song(<<Note(0, 2, 1, 0), Note(2, 3, 1, 1), Note(6, 2, 2, 0)>>, Placed("pattern", 0, 8, 1),
        Placed("pattern", 4, 12, 2)),
   Song(<<Note(1, 2, 1, 2)>>, Placed("pattern", 0, 8, 1), Placed("pattern", 8, 8, 1))}
MCNewNotes == {Note(3, 5, 1, 0), Note(7, 4, 1, 2), Note(9, 1, 2, 0)}
MCDeltas == {-3, 0, 2}
MCTranspositions == {-1, 2}
MCShifts == {-1, 3}
MCRanges == {<<1, 2>>}

\* The binary search finds what a scan finds.
ASSUME LowerBoundIsTheFirst ==
  \A frames \in UNION {[1..n -> 0..2] : n \in 0..4} :
    LET events == [i \in DOMAIN frames |-> [frame |-> frames[i]]]
    IN (\A i, j \in DOMAIN frames : i < j => frames[i] <= frames[j]) =>
       \A frame \in 0..3 :
         LET found == lowerBound(events, frame)
         IN /\ \A i \in 1..found : frames[i] < frame
            /\ \A i \in (found + 1)..Len(frames) : frames[i] >= frame

\* A snapped tick is a grid line no further than half a grid away, halves forward.
ASSUME SnapsToTheNearest ==
  \A tick \in -9..9, grid \in 1..4 :
    LET line == snapTick(tick, grid)
    IN line % grid = 0 /\ 2 * (line - tick) <= grid /\ 2 * (tick - line) < grid

\* A group that is moved keeps its shape, within the keyboard and after the start.
ASSUME MovesAsAGroup ==
  \A a, b \in {Note(s, 1, 1, k) : s \in {0, 1, 5}, k \in {0, 2, 3}},
     delta \in {-4, -1, 0, 3}, semitones \in {-2, 0, 3}, snap \in {0, 2, 3} :
    LET after == moved(<<a, b>>, delta, semitones, snap)
    IN /\ \A i \in 1..2 : isValidNote(after[i])
       /\ after[1].start - after[2].start = a.start - b.start
       /\ after[1].key - after[2].key = a.key - b.key
=============================================================================
