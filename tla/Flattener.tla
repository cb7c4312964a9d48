------------------------------ MODULE Flattener -------------------------------
(***************************************************************************)
(* The flattener: from a pattern, its placements and the channels to the   *)
(* time-ordered events the audio thread plays (model/flattener.cpp,        *)
(* core/schedule.cpp, core/time_map.h).                                    *)
(*                                                                         *)
(* arrangement = [notes, length, swing, points, clips, lanes, channels]:   *)
(* one pattern (its notes, declared length, swing in percent, automation   *)
(* points of one parameter of the channel PointsOf), the clips that place  *)
(* it or an audio file, the lanes they lie on, and the channel settings.   *)
(***************************************************************************)
EXTENDS NoteEdit

CONSTANTS
  Bar, Grid,       \* ticks in a bar of four quarters, and in a sixteenth
  FramesPerBar,    \* the tempo
  PointsOf         \* the channel the automation points turn a knob of

ASSUME FlattenerAssumption == Grid \in Nat \ {0} /\ Bar % Grid = 0 /\ FramesPerBar >= Bar

patternContentEnd(a) ==
  Greatest({0} \union {a.notes[i].start + a.notes[i].length : i \in DOMAIN a.notes})
patternLoopLength(a) ==
  LET content == patternContentEnd(a)
  IN IF content <= 0 THEN Bar ELSE ((content + Bar - 1) \div Bar) * Bar

DeclaredLength(a) == IF a.length > 0 THEN a.length ELSE Bar

patternEffectiveLength(a) ==
  IF patternContentEnd(a) <= DeclaredLength(a) THEN DeclaredLength(a) ELSE patternLoopLength(a)

\* Only notes exactly on the sixteenth grid swing, and of those every other one.
swungPosition(position, swing) ==
  IF position % Grid # 0 \/ (position \div Grid) % 2 = 0 THEN position
  ELSE position + (swing * Grid) \div 200

audibleLanes(a) ==
  {l \in DOMAIN a.lanes : ~a.lanes[l].muted
                          /\ (a.lanes[l].soloed \/ \A m \in DOMAIN a.lanes : ~a.lanes[m].soloed)}
audibleChannels(a) ==
  {c \in DOMAIN a.channels :
     ~a.channels[c].muted
     /\ (a.channels[c].soloed \/ \A d \in DOMAIN a.channels : ~a.channels[d].soloed)}
audibleClips(a) ==
  {c \in DOMAIN a.clips : ~a.clips[c].muted /\ a.clips[c].length > 0
                          /\ a.clips[c].lane \in audibleLanes(a)}

\* Where a note starts and how long it lasts once the pattern's swing and its
\* channel's shift and gate are applied.
Onset(a, note) == swungPosition(note.start, a.swing) + a.channels[note.on].shift
Gated(a, note) == Greater(1, (2 * note.length * a.channels[note.on].gate + 100) \div 200)

\* [start, end) of every time the note sounds in the clip, from the clip's start.
collectOccurrences(start, length, clip, pattern_length) ==
  LET at == start - clip.window
      Upto(o) == Smaller(Smaller(o + length, clip.length), o + (pattern_length - start))
      onsets == IF clip.loop
                THEN {o \in 0..(clip.length - 1) : o % pattern_length = at % pattern_length}
                ELSE {at} \intersect 0..(clip.length - 1)
  IN {<<o, Upto(o)>> : o \in {p \in onsets : Upto(p) > p}}

\* The notes of the arrangement on its timeline.
ResolvedNotes(a) ==
  UNION {LET clip == a.clips[c]
             note == a.notes[i]
             key  == note.key + clip.transpose
         IN IF \/ a.channels[note.on].low > key \/ key > a.channels[note.on].high
               \/ key \notin 0..TopKey
               \/ note.on \notin audibleChannels(a)
            THEN {}
            ELSE {[start |-> clip.start + o[1], end |-> clip.start + o[2], on |-> note.on,
                   key |-> key] :
                  o \in collectOccurrences(Onset(a, note), Gated(a, note), clip,
                                           patternEffectiveLength(a))}
         : c \in {d \in audibleClips(a) : a.clips[d].kind = "pattern"}, i \in DOMAIN a.notes}

\* Slip: stacked notes keep both their ends.
KeepBoth(notes) == notes

\* The later note-on cuts the earlier note; of two at once the longer is left.
resolveOverlaps(notes) ==
  LET Later(n) == {m \in notes : /\ m.on = n.on /\ m.key = n.key
                                 /\ m.start > n.start \/ (m.start = n.start /\ m.end > n.end)}
      cut == {[n EXCEPT !.end = Least({n.end} \union {m.start : m \in Later(n)})] : n \in notes}
  IN {n \in cut : n.end > n.start}

\* llround of a tick at the tempo; a note has a frame at least.
toFrames(ticks) == (2 * ticks * FramesPerBar + Bar) \div (2 * Bar)

NoteEvents(notes) ==
  UNION {LET from == toFrames(n.start)
             to   == Greater(from + 1, toFrames(n.end))
         IN {[frame |-> from, type |-> "on", on |-> n.on, key |-> n.key],
             [frame |-> to, type |-> "off", on |-> n.on, key |-> n.key]} : n \in notes}

\* The points of the pattern, wherever it is placed and whatever its window.
ParamEvents(a) ==
  UNION {{[frame |-> toFrames(a.clips[c].start + p.position), type |-> "param", on |-> PointsOf,
           key |-> p.value] : p \in {q \in a.points : q.position \in 0..(a.clips[c].length - 1)}}
         : c \in {d \in audibleClips(a) : a.clips[d].kind = "pattern"}}

AudioEvents(a) ==
  {[frame |-> toFrames(a.clips[c].start), type |-> "audio", on |-> c, key |-> 0] :
   c \in {d \in audibleClips(a) : a.clips[d].kind = "audio"}}

Rank == [audio |-> 0, param |-> 1, off |-> 2, on |-> 3]

\* ScheduleBuilder::build: by frame, then by type.
Earlier(e, f) == e.frame < f.frame \/ (e.frame = f.frame /\ Rank[e.type] < Rank[f.type])
Listed(events) == FoldSet(LAMBDA e, list : Append(list, e), <<>>, events)
flatten(a) == SortSeq(Listed(NoteEvents(resolveOverlaps(ResolvedNotes(a)))
                             \union ParamEvents(a) \union AudioEvents(a)), Earlier)

\* Schedule::lowerBound: the binary search, narrowed until nothing is between.
lowerBound(events, frame) ==
  LET narrowed[low \in 0..Len(events), high \in 0..Len(events)] ==
        IF low >= high THEN low
        ELSE LET mid == low + (high - low) \div 2
             IN IF events[mid + 1].frame < frame THEN narrowed[mid + 1, high]
                ELSE narrowed[low, mid]
  IN narrowed[0, Len(events)]

\* The arrangement's length, which the transport loops over.
endFrames(a) ==
  toFrames(Greatest({0} \union {a.clips[c].start + a.clips[c].length : c \in audibleClips(a)}))
=============================================================================
