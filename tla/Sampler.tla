------------------------------- MODULE Sampler -------------------------------
(***************************************************************************)
(* The built-in sampler: the voice allocator (core/sampler.cpp) behind the *)
(* parameters and events of SamplerPlugin (plugin/builtin).                *)
(*                                                                         *)
(* A note is played at its key plus the transposition of the moment; the   *)
(* allocator knows only the sum.  A voice that is stolen fades first and   *)
(* plays the note queued on it when the fade ends.  Levels, rates and the  *)
(* samples themselves are left out: a voice ends when its fade ends, or    *)
(* when its window of the sample is spent.                                 *)
(***************************************************************************)
EXTENDS Integers, Sequences, FiniteSets, SequencesExt

CONSTANTS
  MaxVoices,
  SampledKeys,  \* the keys that are played
  Transposes    \* what the transposition may be set to

ASSUME SamplerAssumption ==
  /\ MaxVoices \in Nat \ {0} /\ SampledKeys \subseteq Nat
  /\ Transposes \subseteq Int /\ 0 \in Transposes
  /\ \E lowest, highest \in Transposes : \A t \in Transposes : lowest <= t /\ t <= highest

VARIABLES
  voice,       \* voices_
  started,     \* the voices that ever started, oldest first: Voice::order
  clipPlays,   \* clip_: the channel plays a clip that is stretched
  base, modulation,  \* transpose_
  down         \* ghost: the keys that are held

samplerVars == <<voice, started, clipPlays, base, modulation, down>>

Voices == 1..MaxVoices

\* A note, with two ghosts: its key, and whether its note-off has passed it by.
Strike(key, transpose) == [pitch |-> key + transpose, key |-> key, adrift |-> FALSE]
NoNote == [pitch |-> -1, key |-> -1, adrift |-> FALSE]
IdleVoice == [active |-> FALSE, releasing |-> FALSE, stretching |-> FALSE,
              note |-> NoNote, pending |-> NoNote]

\* ParamState::effective: what is set plus the modulation, within the range.
effective ==
  LET lowest  == CHOOSE t \in Transposes : \A u \in Transposes : t <= u
      highest == CHOOSE t \in Transposes : \A u \in Transposes : t >= u
      sum     == base + modulation
  IN IF sum < lowest THEN lowest ELSE IF sum > highest THEN highest ELSE sum

SamplerInit ==
  /\ voice = [v \in Voices |-> IdleVoice]
  /\ started = <<>>
  /\ clipPlays \in BOOLEAN
  /\ base = 0
  /\ modulation = 0
  /\ down = {}

-----------------------------------------------------------------------------
(* The allocator *)

Starting(note) == [IdleVoice EXCEPT !.active = TRUE, !.note = note, !.stretching = clipPlays]

\* startVoice
StartsOn(v, note) ==
  /\ voice' = [voice EXCEPT ![v] = Starting(note)]
  /\ started' = Append(Remove(started, v), v)

FreeVoices == {v \in Voices : ~voice[v].active}

\* With no voice free the oldest is told to fade, and the note waits behind it.
\* It is still the oldest for the next note, which then takes the wait over.
Steals(note) ==
  /\ voice' = [voice EXCEPT ![started[1]].releasing = TRUE, ![started[1]].pending = note]
  /\ UNCHANGED started

noteOn(key) ==
  /\ LET note == Strike(key, effective)
     IN IF FreeVoices # {}
        THEN StartsOn(CHOOSE v \in FreeVoices : \A u \in FreeVoices : v <= u, note)
        ELSE Steals(note)
  /\ down' = down \union {key}
  /\ UNCHANGED <<clipPlays, base, modulation>>

Sounds(v) == voice[v].active /\ ~voice[v].releasing

\* A slip: the first voice of the note only.
ReleasesFirst(pitch) ==
  LET found == {v \in Voices : Sounds(v) /\ voice[v].note.pitch = pitch}
  IN {v \in found : \A u \in found : v <= u}

\* The voices a note-off releases: every one that sounds that note.
Releases(pitch) == {v \in Voices : Sounds(v) /\ voice[v].note.pitch = pitch}

\* A note that is released while it waits, or at another transposition than it
\* was struck at, is not found.
PassedBy(note, key, here) ==
  [note EXCEPT !.adrift = @ \/ (note.key = key /\ (note.pitch # key + effective \/ ~here))]

noteOff(key) ==
  /\ voice' = [v \in Voices |->
       IF v \in Releases(key + effective)
       THEN [voice[v] EXCEPT !.releasing = TRUE]
       ELSE [voice[v] EXCEPT !.note    = PassedBy(@, key, TRUE),
                             !.pending = PassedBy(@, key, FALSE)]]
  /\ down' = down \ {key}
  /\ UNCHANGED <<started, clipPlays, base, modulation>>

\* A note-off for any key, and a choke: voices that fade already are left alone,
\* and with them the notes that wait.
allNotesOff ==
  /\ voice' = [v \in Voices |->
       IF Sounds(v) THEN [voice[v] EXCEPT !.releasing = TRUE, !.pending = NoNote]
       ELSE [voice[v] EXCEPT !.pending.adrift = (@ \/ voice[v].pending # NoNote)]]
  /\ down' = {}
  /\ UNCHANGED <<started, clipPlays, base, modulation>>

resetVoices ==
  /\ voice' = [v \in Voices |->
                 [voice[v] EXCEPT !.active = FALSE, !.releasing = FALSE, !.pending = NoNote]]
  /\ modulation' = 0
  /\ down' = {}
  /\ UNCHANGED <<started, clipPlays, base>>

\* The plug-in is deactivated, or prepared anew.
releaseVoices ==
  /\ voice' = [v \in Voices |-> IdleVoice]
  /\ started' = <<>>
  /\ down' = {}
  /\ UNCHANGED <<clipPlays, base, modulation>>

-----------------------------------------------------------------------------
(* render: what a voice meets in the frames of one call *)

\* Its fade ends: the note that waits starts on it.  A pitch below zero says
\* that none does.
FadeEnds(v) ==
  /\ voice[v].active /\ voice[v].releasing
  /\ IF voice[v].pending.pitch >= 0
     THEN StartsOn(v, voice[v].pending)
     ELSE voice' = [voice EXCEPT ![v].active = FALSE] /\ UNCHANGED started
  /\ UNCHANGED <<clipPlays, base, modulation, down>>

\* Its window is spent, or holds nothing of the sample that replaced its own:
\* the voice ends, and a note that waits on it never starts.
WindowEnds(v) ==
  /\ voice[v].active
  /\ voice' = [voice EXCEPT ![v].active = FALSE]
  /\ UNCHANGED <<started, clipPlays, base, modulation, down>>

-----------------------------------------------------------------------------
(* Parameters and settings *)

\* The ParamValue event, in a block or flushed outside one.
SetTranspose(t) ==
  /\ base' = t
  /\ UNCHANGED <<voice, started, clipPlays, modulation, down>>

ModulateTranspose(offset) ==
  /\ modulation' = offset
  /\ UNCHANGED <<voice, started, clipPlays, base, down>>

loadSamplerState(t) ==
  /\ base' = t
  /\ modulation' = 0
  /\ UNCHANGED <<voice, started, clipPlays, down>>

\* Heard from the next voice that starts.
setClipPlayback ==
  /\ clipPlays' = ~clipPlays
  /\ UNCHANGED <<voice, started, base, modulation, down>>

\* A clip's channel is struck again only after its note-off.
SamplerNext ==
  \/ \E key \in SampledKeys : (clipPlays => down = {}) /\ noteOn(key)
  \/ \E key \in down : noteOff(key)
  \/ allNotesOff
  \/ resetVoices
  \/ releaseVoices
  \/ \E v \in Voices : FadeEnds(v)
  \/ \E v \in Voices : WindowEnds(v)
  \/ \E t \in Transposes : SetTranspose(t)
  \/ \E offset \in {0, 1} : ModulateTranspose(offset)
  \/ \E t \in Transposes : loadSamplerState(t)
  \/ setClipPlayback

SamplerSpec == SamplerInit /\ [][SamplerNext]_samplerVars

-----------------------------------------------------------------------------
(* Splitting a block at its events (SamplerPlugin::process).  The times of  *)
(* the events and the length of the block give the order of calls: render   *)
(* up to a frame, apply an event.                                           *)

Renders(to) == [call |-> "render", at |-> to]
Applies(i)  == [call |-> "apply", at |-> i]

\* consumed and index once the events due at a frame are applied
EventsDue(times, frames, consumed, index) ==
  {i \in index..Len(times) : \A j \in index..i : times[j] <= consumed /\ times[j] < frames}

Splits(times, frames) ==
  LET From[consumed \in 0..frames, index \in 1..(Len(times) + 1)] ==
        IF consumed = frames THEN <<>>
        ELSE LET early == index <= Len(times) /\ times[index] < frames
                 next  == IF ~early THEN frames
                          ELSE IF times[index] > consumed THEN times[index] ELSE consumed
                 due   == EventsDue(times, frames, next, index)
                 count == Cardinality(due)
             IN (IF next > consumed THEN <<Renders(next)>> ELSE <<>>)
                  \o [i \in 1..count |-> Applies(index + i - 1)]
                  \o From[next, index + count]
  IN From[0, 1]

\* The part of a sample that a clip's voice starts with, and the part of the
\* sample of the moment that it reads.
StartWindow(clipStart, clipLength, frames) ==
  LET start     == IF clipStart < 0 THEN 0 ELSE clipStart
      remaining == IF frames > start THEN frames - start ELSE 0
  IN [start |-> start,
      length |-> IF clipLength > 0 /\ clipLength < remaining THEN clipLength ELSE remaining]

windowFor(window, frames) ==
  LET start     == IF window.start < frames THEN window.start ELSE 0
      remaining == frames - start
  IN [start |-> start,
      length |-> IF window.length < remaining THEN window.length ELSE remaining]

-----------------------------------------------------------------------------
(* A note does not hang: a voice that sounds, and is not fading, is one     *)
(* whose key is down.  All the allocator's exceptions are of two kinds: the *)
(* note was released while it waited behind a stolen voice, or at another   *)
(* transposition than it was struck at.                                     *)
SoundsWhileHeldUnlessAdrift ==
  \A v \in Voices : Sounds(v) => voice[v].note.key \in down \/ voice[v].note.adrift
=============================================================================
