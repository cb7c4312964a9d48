------------------------------- MODULE NoteEdit -------------------------------
(***************************************************************************)
(* The one note representation and the edits both note editors share       *)
(* (model/note_sequence.h, model/note_edit.cpp).  A selection is a sequence *)
(* of notes; what an edit makes of it is a sequence of the same length.    *)
(* The velocity of a note and the ends of the 64-bit ticks are left out.   *)
(***************************************************************************)
EXTENDS Integers, Sequences, FiniteSets, SequencesExt

CONSTANTS TopKey       \* the highest MIDI key
NoGrid == 0            \* std::nullopt: a grid is its spacing, its origin 0

Smaller(a, b) == IF a < b THEN a ELSE b
Greater(a, b) == IF a > b THEN a ELSE b

\* C++ division, towards zero.
Quotient(a, b) == IF a >= 0 THEN a \div b ELSE -((-a) \div b)

isValidNote(note) == note.start >= 0 /\ note.length > 0 /\ note.key \in 0..TopKey

noteOrderBefore(a, b) ==
  \/ a.start < b.start
  \/ a.start = b.start /\ a.key < b.key
  \/ a.start = b.start /\ a.key = b.key /\ a.length < b.length

Sorted(notes) == SortSeq(notes, noteOrderBefore)

\* NoteCommand::editSequence: every note removed must be there, every note added
\* must be valid.
Without(notes, gone) ==
  FoldLeft(LAMBDA left, note : RemoveFirst(left, note), notes, gone)
CanEdit(notes, gone, new) ==
  /\ Len(Without(notes, gone)) = Len(notes) - Len(gone)
  /\ \A i \in DOMAIN new : isValidNote(new[i])
Edited(notes, gone, new) == Sorted(Without(notes, gone) \o new)

\* The grid line a tick belongs to; exact halves go forward.
snapTick(tick, grid) ==
  IF grid <= 0 THEN tick
  ELSE LET line == Quotient(tick, grid) * grid
           rest == tick - line
       IN IF rest >= 0
          THEN IF rest >= grid - rest THEN line + grid ELSE line
          ELSE IF -rest > grid + rest THEN line - grid ELSE line

Least(values)    == CHOOSE v \in values : \A w \in values : v <= w
Greatest(values) == CHOOSE v \in values : \A w \in values : v >= w
Starts(notes) == {notes[i].start : i \in DOMAIN notes}
KeysOf(notes) == {notes[i].key : i \in DOMAIN notes}

\* The group stays within the keyboard as a group.
boundedTranspose(notes, semitones) ==
  Smaller(Greater(semitones, -Least(KeysOf(notes))), TopKey - Greatest(KeysOf(notes)))

\* The group is snapped by its first note and held at the start as a group.
moved(notes, delta, semitones, grid) ==
  LET first == Least(Starts(notes))
      by    == IF grid = NoGrid THEN delta ELSE snapTick(first + delta, grid) - first
  IN [i \in DOMAIN notes |->
        [notes[i] EXCEPT !.start = @ + Greater(by, -first),
                         !.key   = @ + boundedTranspose(notes, semitones)]]

resized(notes, delta, grid) ==
  [i \in DOMAIN notes |->
     LET end == snapTick(notes[i].start + notes[i].length + delta, grid)
     IN [notes[i] EXCEPT !.length = Greater(1, end - notes[i].start)]]

\* strength is a percentage; llround goes away from zero.
Rounded(value, percent) ==
  IF value >= 0 THEN (2 * value * percent + 100) \div 200
  ELSE -((2 * (-value) * percent + 100) \div 200)
quantised(notes, grid, strength) ==
  [i \in DOMAIN notes |->
     [notes[i] EXCEPT !.start = Greater(0, @ + Rounded(snapTick(@, grid) - @, strength))]]

\* A step is the notes of its key exactly at its onset, whatever their length.
inspectStep(notes, instrument, key, index, grid) ==
  SelectSeq(notes, LAMBDA n : n.on = instrument /\ n.key = key /\ n.start = index * grid)
=============================================================================
