------------------------------ MODULE AudioClip ------------------------------
(***************************************************************************)
(* Editing the audio clips of one lane (the audio clip commands of         *)
(* model/commands.cpp and their calls in abi/onebeat_abi.cpp).  A clip     *)
(* shows a window of its file, from an offset and for a length in ticks,   *)
(* where a length of 0 is the rest of the file; stretched, the window is   *)
(* spread over the clip's own length.  What is heard is what the sampler   *)
(* makes of it: one voice, started with the clip, which reads the window   *)
(* to its end.                                                             *)
(*                                                                         *)
(* A tempo is the ticks that FramesPerUnit frames of audio last; the file  *)
(* is at the engine's sample rate.  Gain, lanes and names are left out:    *)
(* nothing here depends on them.                                           *)
(***************************************************************************)
EXTENDS Integers, FiniteSetsExt

CONSTANTS
  FileFrames,     \* the length of the file every clip plays
  FramesPerUnit,
  ClipTempos,     \* the song's tempos; those the file may have been played at
  DropTicks,      \* where a clip may be dropped or dragged to
  ClipTicks,      \* the lengths a clip may be dragged to
  TrimOffsets, TrimLengths,
  LastTick,       \* bound: the end of the timeline looked at
  ClipIds,        \* bound: the clips there may be
  MaxClipEdits    \* bound: edits

ASSUME AudioClipAssumption ==
  /\ FileFrames \in Nat \ {0} /\ FramesPerUnit \in Nat \ {0}
  /\ ClipTempos \subseteq Nat \ {0}
  /\ \A t \in ClipTempos : FramesPerUnit % t = 0
  /\ DropTicks \subseteq Nat /\ ClipTicks \subseteq Nat \ {0}
  /\ TrimOffsets \subseteq Nat /\ TrimLengths \subseteq Nat
  /\ LastTick \in Nat

VARIABLES
  clips,      \* [start, length, offset, window, stretch, reversed, bpm] by ID
  bpm,        \* the song's tempo
  readable,   \* the file is where it was
  durations,  \* source_durations: "unknown", or what was found when first asked
  clipEdits,  \* ghost
  reopened    \* ghost: a clip's window was opened to the file's end by a trim

clipVars == <<clips, bpm, readable, durations, clipEdits, reopened>>

-----------------------------------------------------------------------------
(* Geometry *)

\* x / y, rounded half up (llround of a positive quotient).
Nearest(x, y) == (2 * x + y) \div (2 * y)

FramesPerTick(tempo) == FramesPerUnit \div tempo
FileTicks(tempo) == Max({1, Nearest(FileFrames, FramesPerTick(tempo))})

\* audioSourceSpan: the ticks of source a clip uses.
Span(clip, duration) ==
  IF clip.window > 0 THEN clip.window
  ELSE IF duration > clip.offset THEN duration - clip.offset
  ELSE clip.length

Stretched(clip) == clip.stretch # "off"

\* audioStretchRatio of a clip of that length, as a fraction.
Ratio(clip, length) ==
  LET span == Span(clip, 0)
  IN IF ~Stretched(clip) \/ span <= 0 \/ length <= 0 THEN [num |-> 1, den |-> 1]
     ELSE [num |-> span, den |-> length]

\* audioLengthAtTempo: 0 when it cannot be known.
LengthAtTempo(clip, tempo, duration) ==
  IF clip.bpm = 0 THEN 0
  ELSE Max({1, Nearest(Span(clip, duration) * clip.bpm, tempo)})

-----------------------------------------------------------------------------
(* What is heard: resolveClipPlayback() and Sampler::startVoice() *)

WindowStart(clip, tempo)  == clip.offset * FramesPerTick(tempo)
WindowFrames(clip, tempo) ==
  LET rest == Max({0, FileFrames - WindowStart(clip, tempo)})
      own  == clip.window * FramesPerTick(tempo)
  IN IF own > 0 /\ own < rest THEN own ELSE rest

\* The frames of the file that sound during a tick, one clip at a time.
FrameAt(clip, tempo, tick) ==
  LET ratio == Ratio(clip, clip.length)
      read  == ((tick - clip.start) * FramesPerTick(tempo) * ratio.num) \div ratio.den
      size  == WindowFrames(clip, tempo)
  IN IF tick < clip.start \/ read >= size THEN {}
     ELSE {WindowStart(clip, tempo) + IF clip.reversed THEN size - 1 - read ELSE read}

HeardFrom(some, tempo, tick) == UNION {FrameAt(clip, tempo, tick) : clip \in some}

-----------------------------------------------------------------------------
(* Commands *)

\* An ID that no clip has; that of a clip that is gone may come again, which the
\* code's generator excludes and nothing here could tell.
HasRoom == \E c \in ClipIds : c \notin DOMAIN clips
Minted == CHOOSE c \in ClipIds : c \notin DOMAIN clips
WithClip(some, c, clip) == [d \in DOMAIN some \cup {c} |-> IF d = c THEN clip ELSE some[d]]

ClipEdits == clipEdits < MaxClipEdits /\ clipEdits' = clipEdits + 1

EditClip(c, clip) ==
  /\ ClipEdits
  /\ clips' = [clips EXCEPT ![c] = clip]
  /\ UNCHANGED <<bpm, readable>>

\* source_durations: the file is read once, and an unreadable one stays unknown.
Found == IF durations # "unknown" THEN durations
         ELSE IF readable THEN "known" ELSE "unreadable"
Duration == IF Found = "known" THEN FileTicks(bpm) ELSE 0
AsksDuration == durations' = Found

audio_clip_add(start) ==
  /\ ClipEdits
  /\ readable
  /\ HasRoom
  /\ clips' = WithClip(clips, Minted,
                       [start |-> start, length |-> FileTicks(bpm), offset |-> 0, window |-> 0,
                        stretch |-> "off", reversed |-> FALSE, bpm |-> 0])
  /\ UNCHANGED <<bpm, readable, durations, reopened>>

clip_move(c, start) ==
  /\ EditClip(c, [clips[c] EXCEPT !.start = start])
  /\ UNCHANGED <<durations, reopened>>

clip_resize(c, length) ==
  /\ EditClip(c, [clips[c] EXCEPT !.length = length])
  /\ UNCHANGED <<durations, reopened>>

\* Not stretched, a drag of the edge trims, but for a window to the file's end.
audio_clip_resize(c, length) ==
  /\ EditClip(c, [clips[c] EXCEPT !.length = length,
                                  !.window = IF Stretched(clips[c]) \/ @ = 0 THEN @ ELSE length])
  /\ UNCHANGED <<durations, reopened>>

audio_clip_set_window(c, offset, window) ==
  /\ EditClip(c, [clips[c] EXCEPT !.offset = offset, !.window = window])
  /\ reopened' = IF window = 0 THEN reopened \cup {c} ELSE reopened
  /\ UNCHANGED durations

\* Turned on, it pins a window that had no length.  A slip: it does not.
SetsModeOnly(c, mode) ==
  /\ EditClip(c, [clips[c] EXCEPT !.stretch = mode])
  /\ UNCHANGED <<durations, reopened>>
audio_clip_set_stretch_mode(c, mode) ==
  LET clip == clips[c]
  IN IF mode = "off" \/ clip.window > 0
     THEN /\ EditClip(c, [clip EXCEPT !.stretch = mode])
          /\ UNCHANGED <<durations, reopened>>
     ELSE /\ EditClip(c, [clip EXCEPT !.stretch = mode, !.window = Span(clip, Duration)])
          /\ AsksDuration
          /\ reopened' = reopened \ {c}

audio_clip_set_source_bpm(c, tempo) ==
  /\ EditClip(c, [clips[c] EXCEPT !.bpm = tempo])
  /\ UNCHANGED <<durations, reopened>>

audio_clip_set_reversed(c) ==
  /\ EditClip(c, [clips[c] EXCEPT !.reversed = ~@])
  /\ UNCHANGED <<durations, reopened>>

audio_clip_fit_to_tempo(c) ==
  LET clip   == clips[c]
      length == LengthAtTempo(clip, bpm, Duration)
  IN /\ length > 0
     /\ EditClip(c, [clip EXCEPT !.length = length, !.stretch = "stretch",
                                 !.window = Span(clip, Duration)])
     /\ AsksDuration
     /\ reopened' = reopened \ {c}

\* A slip: the file starts again.
Restarted(clip, at) ==
  [clip EXCEPT !.start = at, !.length = clip.start + clip.length - at]

\* The halves of a clip cut at a tick of its inside.  The right one consumes what
\* the left one played; the left one's window ends where it stops, at the ratio
\* of the length it has by then.
RightHalf(clip, at) ==
  LET ratio    == Ratio(clip, clip.length)
      consumed == ((at - clip.start) * ratio.num) \div ratio.den
  IN [clip EXCEPT !.start  = at,
                  !.length = clip.start + clip.length - at,
                  !.offset = @ + consumed,
                  !.window = IF @ > consumed THEN @ - consumed ELSE 0]

LeftHalf(clip, at) ==
  LET length   == at - clip.start
      ratio    == Ratio(clip, length)
      consumed == (length * ratio.num) \div ratio.den
  IN [clip EXCEPT !.length = length, !.window = IF consumed > 0 THEN consumed ELSE @]

clip_split(c, at) ==
  /\ ClipEdits
  /\ HasRoom
  /\ at > clips[c].start /\ at < clips[c].start + clips[c].length
  /\ clips' = WithClip([clips EXCEPT ![c] = LeftHalf(@, at)], Minted, RightHalf(clips[c], at))
  /\ reopened' = IF c \in reopened THEN reopened \cup {Minted} ELSE reopened
  /\ UNCHANGED <<bpm, readable, durations>>

clip_duplicate(c, start) ==
  /\ ClipEdits
  /\ HasRoom
  /\ clips' = WithClip(clips, Minted, [clips[c] EXCEPT !.start = start])
  /\ reopened' = IF c \in reopened THEN reopened \cup {Minted} ELSE reopened
  /\ UNCHANGED <<bpm, readable, durations>>

clip_remove(c) ==
  /\ ClipEdits
  /\ clips' = [d \in DOMAIN clips \ {c} |-> clips[d]]
  /\ reopened' = reopened \ {c}
  /\ UNCHANGED <<bpm, readable, durations>>

\* TransportCommand: an audio clip keeps its length in time.
ChangeTempo(tempo) ==
  /\ ClipEdits
  /\ tempo # bpm
  /\ bpm' = tempo
  /\ clips' = [c \in DOMAIN clips |->
                 [clips[c] EXCEPT !.length = Max({1, Nearest(@ * tempo, bpm)})]]
  /\ UNCHANGED <<readable, durations, reopened>>

\* The inspector asks how long the file is whenever it paints.
audio_clip_info ==
  /\ clips # <<>>
  /\ durations # Found
  /\ AsksDuration
  /\ UNCHANGED <<clips, bpm, readable, clipEdits, reopened>>

\* The file is moved away, or is back.
FileMoves ==
  /\ ClipEdits
  /\ readable' = ~readable
  /\ UNCHANGED <<clips, bpm, durations, reopened>>

ClipInit ==
  /\ clips = <<>>
  /\ bpm \in ClipTempos
  /\ readable = TRUE
  /\ durations = "unknown"
  /\ clipEdits = 0
  /\ reopened = {}

ClipNext ==
  \/ \E start \in DropTicks : audio_clip_add(start)
  \/ \E c \in DOMAIN clips :
       \/ \E start \in DropTicks : clip_move(c, start) \/ clip_duplicate(c, start)
       \/ \E length \in ClipTicks : clip_resize(c, length) \/ audio_clip_resize(c, length)
       \/ \E offset \in TrimOffsets, window \in TrimLengths :
            audio_clip_set_window(c, offset, window)
       \/ \E mode \in {"off", "resample", "stretch"} : audio_clip_set_stretch_mode(c, mode)
       \/ \E tempo \in ClipTempos \cup {0} : audio_clip_set_source_bpm(c, tempo)
       \/ audio_clip_set_reversed(c)
       \/ audio_clip_fit_to_tempo(c)
       \/ \E at \in 1 .. LastTick : clip_split(c, at)
       \/ clip_remove(c)
  \/ \E tempo \in ClipTempos : ChangeTempo(tempo)
  \/ audio_clip_info
  \/ FileMoves

ClipSpec == ClipInit /\ [][ClipNext]_clipVars

-----------------------------------------------------------------------------
(* Properties *)

\* The step cuts clip c at that tick.
Cuts(c, at) == clip_split(c, at)

\* The halves of c sound, tick by tick, as c did.
SoundsTheSame(c) ==
  \A tick \in 0 .. LastTick :
    HeardFrom({clips'[d] : d \in {c} \cup (DOMAIN clips' \ DOMAIN clips)}, bpm, tick)
      = HeardFrom({clips[c]}, bpm, tick)

\* Neither stretched nor reversed, and cut inside what it plays.
CutsPlainly(c, at) ==
  LET clip == clips[c]
  IN /\ ~Stretched(clip) /\ ~clip.reversed
     /\ clip.window > 0 => at < clip.start + clip.window

\* Cutting a clip does not change what is heard, whatever was done to the clip
\* before, as long as it is neither stretched nor reversed and is cut before its
\* window ends (splitClip: "the difference between cutting a sample and
\* duplicating it").
CutIsInaudibleUnlessBent ==
  [][\A c \in DOMAIN clips : \A at \in 1 .. LastTick :
       Cuts(c, at) /\ CutsPlainly(c, at) => SoundsTheSame(c)]_clipVars

\* A stretched clip always has a window to stretch ("turning stretching on needs a
\* real source window"), through cuts, copies, drags and fits, with the file
\* there or not; unless it is trimmed to the file's end afterwards.
StretchedIsPinnedUnlessReopened ==
  \A c \in DOMAIN clips : Stretched(clips[c]) /\ c \notin reopened => clips[c].window > 0
=============================================================================
