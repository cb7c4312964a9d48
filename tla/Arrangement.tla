------------------------------ MODULE Arrangement -----------------------------
(***************************************************************************)
(* Editing an arrangement and hearing it: the note, rack, channel and clip *)
(* handlers of the C ABI (abi/onebeat_abi.cpp), each followed by the       *)
(* publish that flattens what it left.  `song` is the arrangement of       *)
(* Flattener; what is played is flatten(song).                             *)
(***************************************************************************)
EXTENDS Flattener

CONSTANTS
  FirstSongs,       \* the arrangements an editor may start from
  NewNotes,         \* the notes drawn
  Deltas, Transpositions, Grids, Strengths, Lengths, Swings, Shifts, Gates, Ranges, Windows,
  MaxSongEdits      \* bound: edits

VARIABLES song, song_edits
arrangementVars == <<song, song_edits>>

ArrangementInit == song \in FirstSongs /\ song_edits = 0

EditsSong(next) == song_edits < MaxSongEdits /\ song_edits' = song_edits + 1 /\ song' = next

\* The clips that were exactly as long as the pattern stay so.
followPatternLength(before, after) ==
  LET old == patternEffectiveLength(before)
  IN [after EXCEPT !.clips =
        [c \in DOMAIN @ |-> IF @[c].kind = "pattern" /\ @[c].length = old
                            THEN [@[c] EXCEPT !.length = patternEffectiveLength(after)] ELSE @[c]]]

NoteCommand(gone, new) ==
  /\ CanEdit(song.notes, gone, new)
  /\ EditsSong(followPatternLength(song, [song EXCEPT !.notes = Edited(@, gone, new)]))

\* The selections the piano roll sends: one channel's notes, one of them or all.
Selections ==
  {s \in {SelectSeq(song.notes, LAMBDA n : n.on = c) : c \in DOMAIN song.channels} : s # <<>>}
  \union {<<song.notes[i]>> : i \in DOMAIN song.notes}

note_add(note) == NoteCommand(<<>>, <<note>>)
notes_remove(picked) == NoteCommand(picked, <<>>)
notes_move(picked, delta, semitones, snap) ==
  NoteCommand(picked, moved(picked, delta, semitones, snap))
notes_resize(picked, delta, snap) == NoteCommand(picked, resized(picked, delta, snap))
notes_quantise(picked, grid, strength) == NoteCommand(picked, quantised(picked, grid, strength))
notes_duplicate(picked, delta) == NoteCommand(<<>>, moved(picked, delta, 0, NoGrid))

rack_toggle_step(channel, key, index) ==
  /\ index * Grid < patternEffectiveLength(song)
  /\ LET there == inspectStep(song.notes, channel, key, index, Grid)
     IN IF there # <<>> THEN NoteCommand(there, <<>>)
        ELSE note_add([start |-> index * Grid, length |-> Grid, on |-> channel, key |-> key])

\* A command for every clip that fits, and one for the pattern.
rack_set_length(length) ==
  LET next == [song EXCEPT !.length = length]
  IN EditsSong(followPatternLength(song, next))

rack_set_swing(swing) == EditsSong([song EXCEPT !.swing = swing])

instrument_set_settings(channel, shift, gate, range) ==
  EditsSong([song EXCEPT !.channels[channel].shift = shift, !.channels[channel].gate = gate,
                     !.channels[channel].low = range[1], !.channels[channel].high = range[2]])
instrument_set_muted(channel)  == EditsSong([song EXCEPT !.channels[channel].muted = ~@])
instrument_set_soloed(channel) == EditsSong([song EXCEPT !.channels[channel].soloed = ~@])
lane_set_muted(lane)  == EditsSong([song EXCEPT !.lanes[lane].muted = ~@])
lane_set_soloed(lane) == EditsSong([song EXCEPT !.lanes[lane].soloed = ~@])

song_clip_move(clip, lane, start) ==
  /\ start >= 0
  /\ EditsSong([song EXCEPT !.clips[clip].start = start, !.clips[clip].lane = lane])
song_clip_resize(clip, length) ==
  length > 0 /\ EditsSong([song EXCEPT !.clips[clip].length = length])
clip_set_muted(clip) == EditsSong([song EXCEPT !.clips[clip].muted = ~@])
clip_set_loop(clip)  == EditsSong([song EXCEPT !.clips[clip].loop = ~@])
clip_set_window_start(clip, start) ==
  start >= 0 /\ EditsSong([song EXCEPT !.clips[clip].window = start])
clip_set_transpose(clip, semitones) == EditsSong([song EXCEPT !.clips[clip].transpose = semitones])

ArrangementNext ==
  \/ \E note \in NewNotes : note_add(note)
  \/ \E picked \in Selections :
       \/ notes_remove(picked)
       \/ \E delta \in Deltas, semitones \in Transpositions, snap \in Grids \union {NoGrid} :
            notes_move(picked, delta, semitones, snap)
       \/ \E delta \in Deltas, snap \in Grids \union {NoGrid} : notes_resize(picked, delta, snap)
       \/ \E grid \in Grids, strength \in Strengths : notes_quantise(picked, grid, strength)
       \/ \E delta \in Deltas : notes_duplicate(picked, delta)
  \/ \E channel \in DOMAIN song.channels :
       \/ \E note \in NewNotes, index \in 0..(Bar \div Grid) :
            rack_toggle_step(channel, note.key, index)
       \/ \E shift \in Shifts, gate \in Gates, range \in Ranges :
            instrument_set_settings(channel, shift, gate, range)
       \/ instrument_set_muted(channel) \/ instrument_set_soloed(channel)
  \/ \E length \in Lengths \union {0} : rack_set_length(length)
  \/ \E swing \in Swings : rack_set_swing(swing)
  \/ \E lane \in DOMAIN song.lanes : lane_set_muted(lane) \/ lane_set_soloed(lane)
  \/ \E clip \in DOMAIN song.clips :
       \/ \E lane \in DOMAIN song.lanes, start \in Lengths \union {0} :
            song_clip_move(clip, lane, start)
       \/ \E length \in Lengths : song_clip_resize(clip, length)
       \/ clip_set_muted(clip) \/ clip_set_loop(clip)
       \/ \E start \in Windows : clip_set_window_start(clip, start)
       \/ \E semitones \in Transpositions : clip_set_transpose(clip, semitones)

ArrangementSpec == ArrangementInit /\ [][ArrangementNext]_arrangementVars

-----------------------------------------------------------------------------
(* What is heard, and what is written *)

\* The events of one channel's key, in the order they are played.
EventsOf(events, channel, key) ==
  SelectSeq(events, LAMBDA e : e.type \in {"on", "off"} /\ e.on = channel /\ e.key = key)

Heard(own, tick) ==
  LET played == SelectSeq(own, LAMBDA e : e.frame <= toFrames(tick))
  IN played # <<>> /\ Last(played).type = "on"

\* A clip starts a note on a tick: how far into the pattern's time the clip is
\* there, and whether that is where the note starts.
Starts_at(clip, note, tick) ==
  LET into  == tick - clip.start
      onset == Onset(song, note)
  IN /\ into \in 0..(clip.length - 1)
     /\ IF clip.loop THEN (clip.window + into - onset) % patternEffectiveLength(song) = 0
        ELSE clip.window + into = onset

Within(note) == Onset(song, note) \in 0..(patternEffectiveLength(song) - 1)

Horizon ==
  Greatest({0} \union {song.clips[c].start + song.clips[c].length : c \in DOMAIN song.clips})
Keys == {song.notes[i].key + song.clips[c].transpose : i \in DOMAIN song.notes,
                                                       c \in DOMAIN song.clips}

\* Every start of a note in a clip: the clips heard, the notes their channels let
\* through, and when.
Onsets ==
  LET heard == {c \in audibleClips(song) : song.clips[c].kind = "pattern"}
      played == {p \in heard \X DOMAIN song.notes :
                   LET note == song.notes[p[2]]
                       channel == song.channels[note.on]
                   IN /\ note.on \in audibleChannels(song) /\ Within(note)
                      /\ note.key + song.clips[p[1]].transpose \in channel.low..channel.high}
  IN UNION {{[clip |-> song.clips[p[1]], note |-> song.notes[p[2]], tick |-> t] :
               t \in {u \in 0..Horizon : Starts_at(song.clips[p[1]], song.notes[p[2]], u)}}
            : p \in played}

\* A key sounds at a tick when the latest onset at or before it has not run out:
\* at the note's end, at the clip's, or at the pattern's.
Written(onsets, tick) ==
  LET begun == {o \in onsets : o.tick <= tick}
  IN \E o \in begun :
       /\ \A other \in begun : other.tick <= o.tick
       /\ tick < o.tick + Gated(song, o.note)
       /\ tick < o.clip.start + o.clip.length
       /\ Onset(song, o.note) + (tick - o.tick) < patternEffectiveLength(song)

(* What is heard at every tick is what is written: the note on each key that *)
(* started last, for as long as it, its clip and its pattern last; nothing  *)
(* hangs and nothing stacked is doubled, whatever the looping, the window,  *)
(* the swing, the gate and the transposition.  A note that its channel's    *)
(* shift puts outside the pattern is left out of account.                   *)
HeardAsWrittenUnlessShifted ==
  (\A i \in DOMAIN song.notes : Within(song.notes[i])) =>
    LET events == flatten(song)
        onsets == Onsets
    IN \A channel \in DOMAIN song.channels, key \in Keys :
         LET own == EventsOf(events, channel, key)
             its == {o \in onsets : o.note.on = channel /\ o.note.key + o.clip.transpose = key}
         IN \A tick \in 0..Horizon : Heard(own, tick) = Written(its, tick)

(* On every key of every channel note-ons and note-offs alternate, from an  *)
(* on to an off, and the last comes before the transport's loop ends: "both *)
(* run" would leave the note-off ambiguous, a late one would be cut off.    *)
OnsAndOffsAlternate ==
  LET events == flatten(song)
  IN /\ \A i \in DOMAIN events : events[i].frame <= endFrames(song)
     /\ \A channel \in DOMAIN song.channels, key \in Keys :
          LET own == EventsOf(events, channel, key)
          IN /\ Len(own) % 2 = 0
             /\ \A i \in DOMAIN own : own[i].type = IF i % 2 = 1 THEN "on" ELSE "off"

(* What the flattener makes of a song is the song: note by note, and as a  *)
(* stream of events that starts and ends every note once.                  *)
PlaysWhatIsWritten == HeardAsWrittenUnlessShifted /\ OnsAndOffsAlternate
=============================================================================
