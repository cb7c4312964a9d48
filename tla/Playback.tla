------------------------------ MODULE Playback ------------------------------
(***************************************************************************)
(* Which notes sound: the transport, the schedule and its replacement.     *)
(*                                                                         *)
(* process() drains the command queue, takes the newest schedule and cuts  *)
(* the block into chunks at the loop's seam; every chunk turns the         *)
(* schedule's events in its window into note-ons and note-offs of each     *)
(* channel.  On the main thread publishSchedule() asks for a reset of the  *)
(* channels whose events it changes and then swaps the schedule;           *)
(* publishModel() and ob_engine_post_command() follow with the commands.   *)
(*                                                                         *)
(* Time is in beats for the model and in frames for the transport; a tempo *)
(* is the number of frames to the beat.  A schedule keeps the notes of     *)
(* every channel in beats together with the tempo they were flattened at.  *)
(***************************************************************************)
EXTENDS Naturals, Sequences, FiniteSets, SequencesExt

CONSTANTS
  Channels,
  Contents,      \* the sets of notes a channel may have: [key, on, off]
  Tempos,        \* frames per beat
  LoopEnds,      \* loop ends, in beats; the loop starts at 0
  Seeks,         \* seek targets, in frames
  BlockFrames,
  MaxFrame,      \* bound on the position at which a block may begin
  DrainLimit,    \* commands per block: 256 in the code
  QueueLimit,    \* CommandQueueCapacity
  WrapLimit,     \* wrap_guard: 8 in the code
  MaxCommands,   \* bound on the transport commands
  MaxEdits       \* bound on the schedules

ASSUME PlaybackAssumption ==
  /\ Tempos \subseteq Nat \ {0} /\ Tempos # {}
  /\ LoopEnds \subseteq Nat \ {0} /\ LoopEnds # {}
  /\ Seeks \subseteq Nat
  /\ BlockFrames \in Nat \ {0} /\ WrapLimit \in Nat \ {0}
  /\ DrainLimit \in Nat /\ QueueLimit \in Nat
  /\ \A notes \in Contents : \A n \in notes : n.on \in Nat /\ n.off \in Nat /\ n.on < n.off
  /\ {} \in Contents

VARIABLES
  transport,          \* Transport: [playing, position, tempo, loop, loop_end]
  commands,           \* commands_
  schedule,           \* schedule_, as the next block will load it
  reset_requested,    \* per channel
  voices,             \* per channel: the keys that sound
  pending_all_notes_off,
  audioPc, drained, remaining, rendered, releasing, wrap_guard,   \* the block
  uiPc, next, resets,                                    \* publishSchedule()
  posted, edits,
  missed              \* channels a block left out of step: see OutOfStep

audioVars == <<audioPc, drained, remaining, rendered, releasing, wrap_guard>>
uiVars    == <<uiPc, next, resets, posted, edits>>
vars == <<transport, commands, schedule, reset_requested, voices, pending_all_notes_off,
          audioVars, uiVars, missed>>

Keys == {n.key : n \in UNION Contents}
FirstTempo == CHOOSE t \in Tempos : \A u \in Tempos : t <= u
NoNotes == [notes |-> [c \in Channels |-> {}], tempo |-> FirstTempo]
Schedules == [notes : [Channels -> Contents], tempo : Tempos]

On(s, n)  == n.on * s.tempo
Off(s, n) == n.off * s.tempo

\* The events of channel c in a schedule, as <<key, frame>>.
NoteOns(c, s)  == {<<n.key, On(s, n)>> : n \in s.notes[c]}
NoteOffs(c, s) == {<<n.key, Off(s, n)>> : n \in s.notes[c]}

Init ==
  /\ transport = [playing |-> FALSE, position |-> 0, tempo |-> FirstTempo,
                  loop |-> TRUE, loop_end |-> CHOOSE e \in LoopEnds : TRUE]
  /\ commands = <<>>
  /\ schedule = NoNotes
  /\ reset_requested = [c \in Channels |-> FALSE]
  /\ voices = [c \in Channels |-> {}]
  /\ pending_all_notes_off = FALSE
  /\ audioPc = "idle" /\ drained = 0 /\ remaining = 0 /\ rendered = NoNotes
  /\ releasing = FALSE /\ wrap_guard = 0
  /\ uiPc = "idle" /\ next = NoNotes /\ resets = {}
  /\ posted = 0 /\ edits = 0
  /\ missed = {}

-----------------------------------------------------------------------------
(* The main thread. *)

Post(c) == Append(commands, c)
QueueHasRoom == Len(commands) < QueueLimit

\* Posted by the UI; a full queue refuses.
PostCommand(c) ==
  /\ uiPc = "idle"
  /\ posted < MaxCommands
  /\ QueueHasRoom
  /\ commands' = Post(c)
  /\ posted' = posted + 1
  /\ UNCHANGED <<transport, schedule, reset_requested, voices, pending_all_notes_off,
                 audioVars, uiPc, next, resets, edits, missed>>

UiCommands ==
  [type : {"play", "stop"}] \cup [type : {"seek"}, frames : Seeks]
    \cup [type : {"loop"}, enabled : BOOLEAN, end : LoopEnds]

\* publishSchedule(), as publishModel() calls it with a freshly flattened one.
\* Frames are part of a channel's fingerprint, so a new tempo changes it.
\* Slips: only channels the new schedule mentions are compared; every channel is
\* released as soon as anything changed.
SameEvents(c, s, t) == NoteOns(c, s) = NoteOns(c, t) /\ NoteOffs(c, s) = NoteOffs(c, t)
ChangedIfMentioned(c, s) == s.notes[c] # {} /\ ~SameEvents(c, s, schedule)
ChangedAnywhere(c, s) == s # schedule
Changed(c, s) == ~SameEvents(c, s, schedule)

Edit(s) ==
  /\ uiPc = "idle"
  /\ edits < MaxEdits
  /\ edits' = edits + 1
  /\ next' = s
  /\ resets' = {c \in Channels : Changed(c, s)}
  /\ uiPc' = "reset"
  /\ UNCHANGED <<transport, commands, schedule, reset_requested, voices,
                 pending_all_notes_off, audioVars, posted, missed>>

RequestChannelReset(c) ==
  /\ uiPc = "reset"
  /\ c \in resets
  /\ reset_requested' = [reset_requested EXCEPT ![c] = TRUE]
  /\ resets' = resets \ {c}
  /\ UNCHANGED <<transport, commands, schedule, voices, pending_all_notes_off, audioVars,
                 uiPc, next, posted, edits, missed>>

PublishSchedule ==
  /\ uiPc = "reset"
  /\ resets = {}
  /\ schedule' = next
  /\ uiPc' = IF next.tempo = schedule.tempo THEN "idle" ELSE "tempo"
  /\ UNCHANGED <<transport, commands, reset_requested, voices, pending_all_notes_off,
                 audioVars, next, resets, posted, edits, missed>>

\* The tempo follows the schedule flattened at it, through the queue; publishModel()
\* does not look at whether the queue took it.
PostTempo ==
  /\ uiPc = "tempo"
  /\ commands' = IF QueueHasRoom THEN Post([type |-> "tempo", tempo |-> next.tempo])
                  ELSE commands
  /\ uiPc' = "idle"
  /\ UNCHANGED <<transport, schedule, reset_requested, voices, pending_all_notes_off,
                 audioVars, next, resets, posted, edits, missed>>

Main ==
  \/ \E c \in UiCommands : PostCommand(c)
  \/ \E s \in Schedules : Edit(s)
  \/ \E c \in Channels : RequestChannelReset(c)
  \/ PublishSchedule
  \/ PostTempo

-----------------------------------------------------------------------------
(* process(), on the audio thread. *)

\* applyCommand(), on the transport. A tempo keeps the musical position:
\* frames -> beats -> frames, rounded.
Rescaled(position, old, new) == (2 * position * new + old) \div (2 * old)

Applied(c) ==
  CASE c.type = "play"  -> [transport EXCEPT !.playing = TRUE]
    [] c.type = "stop"  -> [transport EXCEPT !.playing = FALSE]
    [] c.type = "seek"  -> [transport EXCEPT !.position = c.frames]
    [] c.type = "loop"  -> [transport EXCEPT !.loop = c.enabled, !.loop_end = c.end]
    [] c.type = "tempo" ->
         [transport EXCEPT !.tempo = c.tempo,
                           !.position = Rescaled(@, transport.tempo, c.tempo)]

\* The voices of channel c end with the next chunk.
Ending(c) == reset_requested[c] \/ pending_all_notes_off \/ releasing

\* A tempo moves the playhead, perhaps over the note-off of a voice that sounds.
CarriedOver(command) ==
  {c \in Channels : /\ command.type = "tempo" /\ command.tempo # transport.tempo
                    /\ voices[c] # {} /\ ~Ending(c)}

BlockBegins ==
  /\ audioPc = "idle"
  /\ transport.position <= MaxFrame
  /\ audioPc' = "draining"
  /\ drained' = 0
  /\ releasing' = FALSE
  /\ UNCHANGED <<transport, commands, schedule, reset_requested, voices,
                 pending_all_notes_off, remaining, rendered, wrap_guard, uiVars, missed>>

DrainsCommand ==
  /\ audioPc = "draining"
  /\ drained < DrainLimit
  /\ commands # <<>>
  /\ LET command == Head(commands)
     IN /\ transport' = Applied(command)
        /\ releasing' = (releasing \/ command.type \in {"stop", "seek"})
        /\ missed' = missed \cup CarriedOver(command)
  /\ commands' = Tail(commands)
  /\ drained' = drained + 1
  /\ UNCHANGED <<schedule, reset_requested, voices, pending_all_notes_off, audioPc,
                 remaining, rendered, wrap_guard, uiVars>>

\* The newest schedule is taken behind the commands.
RunsSchedule ==
  /\ audioPc = "draining"
  /\ drained = DrainLimit \/ commands = <<>>
  /\ rendered' = schedule
  /\ remaining' = BlockFrames
  /\ wrap_guard' = 0
  /\ audioPc' = IF transport.playing THEN "playing" ELSE "stopped"
  /\ drained' = 0
  /\ UNCHANGED <<transport, commands, schedule, reset_requested, voices,
                 pending_all_notes_off, releasing, uiVars, missed>>

LoopEnd == transport.loop_end * transport.tempo

FramesUntilLoopWrap ==
  IF ~transport.loop THEN remaining
  ELSE IF transport.position >= LoopEnd THEN 0
  ELSE IF LoopEnd - transport.position < remaining THEN LoopEnd - transport.position
  ELSE remaining

Wrap(t) == [t EXCEPT !.position = 0]

\* The seam at the start of a chunk.
WrapsFirst ==
  /\ audioPc = "playing"
  /\ remaining > 0
  /\ FramesUntilLoopWrap = 0
  /\ pending_all_notes_off' = TRUE
  /\ transport' = Wrap(transport)
  /\ wrap_guard' = wrap_guard + 1
  /\ IF wrap_guard' > WrapLimit THEN remaining' = 0 ELSE UNCHANGED remaining
  /\ UNCHANGED <<commands, schedule, reset_requested, voices, audioPc, drained, rendered,
                 releasing, uiVars, missed>>

\* The keys of channel c that sound after the events of [from, to), in the order
\* of the schedule: at one frame the note-offs come first.
FramesOf(k, events, from, to) == {f \in from..(to - 1) : <<k, f>> \in events}

Sounding(c, before, from, to) ==
  {k \in Keys :
    LET ons  == FramesOf(k, NoteOns(c, rendered), from, to)
        offs == FramesOf(k, NoteOffs(c, rendered), from, to)
    IN IF ons \cup offs = {} THEN k \in before
       ELSE \E on \in ons : \A off \in offs : off <= on}

\* renderChannel()'s releases, ahead of the chunk's events.
Kept(c) == IF Ending(c) THEN {} ELSE voices[c]

\* A channel is out of step when a reset has been spent on the schedule it was
\* asked to end, or a tempo was applied under its voices; until the newest schedule
\* plays and those voices are released.
Replaced == uiPc = "reset" \/ rendered # schedule
OutOfStep(c) == \/ Replaced /\ reset_requested[c]
                \/ c \in missed /\ (Replaced \/ Kept(c) \cap voices'[c] # {})

SpendsResets ==
  /\ reset_requested' = [c \in Channels |-> FALSE]
  /\ releasing' = FALSE
  /\ missed' = {c \in Channels : OutOfStep(c)}

\* The loop's end is reached.
ReachesSeam(to) == transport.loop /\ to >= LoopEnd

\* The chunk, and the seam if the chunk ends on it.
Chunk ==
  /\ audioPc = "playing"
  /\ remaining > 0
  /\ FramesUntilLoopWrap > 0
  /\ LET from == transport.position
         to   == from + FramesUntilLoopWrap
     IN /\ voices' = [c \in Channels |-> Sounding(c, Kept(c), from, to)]
        /\ pending_all_notes_off' = ReachesSeam(to)
        /\ transport' = IF pending_all_notes_off' THEN Wrap(transport)
                        ELSE [transport EXCEPT !.position = to]
  /\ SpendsResets
  /\ remaining' = remaining - FramesUntilLoopWrap
  /\ wrap_guard' = 0
  /\ UNCHANGED <<commands, schedule, audioPc, drained, rendered, uiVars>>

\* Stopped: no events, but the releases are still heard.
StoppedChunk ==
  /\ audioPc = "stopped"
  /\ remaining > 0
  /\ voices' = [c \in Channels |-> Kept(c)]
  /\ pending_all_notes_off' = FALSE
  /\ SpendsResets
  /\ remaining' = 0
  /\ UNCHANGED <<transport, commands, schedule, audioPc, drained, rendered, wrap_guard,
                 uiVars>>

BlockEnds ==
  /\ audioPc \in {"playing", "stopped"}
  /\ remaining = 0
  /\ audioPc' = "idle"
  /\ rendered' = NoNotes
  /\ wrap_guard' = 0
  /\ UNCHANGED <<transport, commands, schedule, reset_requested, voices,
                 pending_all_notes_off, drained, remaining, releasing, uiVars, missed>>

Block ==
  BlockBegins \/ DrainsCommand \/ RunsSchedule \/ WrapsFirst \/ Chunk \/ StoppedChunk \/ BlockEnds

Next == Main \/ Block

Spec == Init /\ [][Next]_vars

-----------------------------------------------------------------------------
Transports ==
  [playing : BOOLEAN, position : Nat, tempo : Tempos, loop : BOOLEAN, loop_end : LoopEnds]

TypeOK ==
  /\ transport \in Transports
  /\ commands \in Seq(UiCommands \cup [type : {"tempo"}, tempo : Tempos])
  /\ Len(commands) <= QueueLimit
  /\ schedule \in Schedules /\ rendered \in Schedules /\ next \in Schedules
  /\ reset_requested \in [Channels -> BOOLEAN]
  /\ voices \in [Channels -> SUBSET Keys]
  /\ pending_all_notes_off \in BOOLEAN /\ releasing \in BOOLEAN
  /\ audioPc \in {"idle", "draining", "playing", "stopped"}
  /\ drained \in 0..DrainLimit
  /\ remaining \in 0..BlockFrames
  /\ wrap_guard \in 0..(WrapLimit + 1)
  /\ uiPc \in {"idle", "reset", "tempo"}
  /\ resets \subseteq Channels /\ missed \subseteq Channels

\* A voice that sounds will be released: its note-off is still ahead of the
\* transport in the schedule that plays next, or a reset, a seam or a stop is.
HasNoteOffAhead(c, k) ==
  \E n \in schedule.notes[c] : n.key = k /\ Off(schedule, n) >= transport.position

WillBeReleased(c, k) ==
  HasNoteOffAhead(c, k) \/ Ending(c) \/ transport.loop \/ ~transport.playing

BetweenBlocks == audioPc = "idle" /\ uiPc = "idle" /\ commands = <<>>

\* "A voice from the replaced schedule cannot hang."
NoHungVoice ==
  BetweenBlocks => \A c \in Channels, k \in Keys : k \in voices[c] => WillBeReleased(c, k)

\* The only two ways out: see OutOfStep. Whatever the queue holds and publishSchedule()
\* is at, and without the help of a seam or a stop to come.
HungOnlyIfMissed ==
  audioPc = "idle" =>
    \A c \in Channels \ missed : \A k \in voices[c] : HasNoteOffAhead(c, k) \/ Ending(c)

\* A stopped transport is silent.
StopSilences ==
  audioPc = "idle" /\ ~transport.playing => \A c \in Channels : voices[c] = {}

\* After a block that played, the position shown is inside the loop.
PositionInsideLoop ==
  audioPc = "playing" /\ remaining = 0 /\ transport.loop => transport.position < LoopEnd

\* Publishing cuts no note of a channel whose events it leaves alone: it asks for
\* no reset there, and what ends a voice without a reset is its own note-off, a
\* seam, a seek or a stop.
UntouchedChannelsRingOn ==
  [][\A c \in Channels, k \in Keys :
       /\ reset_requested'[c] /\ ~reset_requested[c]
            => ~SameEvents(c, next, schedule)
       /\ (k \in voices[c] /\ k \notin voices'[c] /\ ~pending_all_notes_off /\ ~releasing)
         => \/ reset_requested[c]
            \/ \E n \in rendered.notes[c] :
                 n.key = k /\ Off(rendered, n) >= transport.position
                 /\ Off(rendered, n) < transport.position + FramesUntilLoopWrap]_vars

\* What sounds is being held by the schedule, stops with the transport, and the
\* playhead stays where the loop wants it.
SoundsAsScheduled == TypeOK /\ HungOnlyIfMissed /\ StopSilences /\ PositionInsideLoop
=============================================================================
