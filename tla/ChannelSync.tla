----------------------------- MODULE ChannelSync -----------------------------
(***************************************************************************)
(* How an edited rack reaches the audio thread.                            *)
(*                                                                         *)
(* publishModel() on the main thread calls setChannels(), which stores the *)
(* channels' gates at once and leaves the list for the housekeeping        *)
(* thread, and then publishes the schedule that plays the new rack.  The   *)
(* housekeeping thread takes the newest list it finds, stores the gates    *)
(* again and reads the sample files.  The audio thread renders one channel *)
(* after the other from the schedule it loaded for the block, and remembers *)
(* an audio clip's start while the clip's file is still being read.        *)
(*                                                                         *)
(* A rack is a sequence of descriptions; the schedule is represented by    *)
(* the rack it was flattened from.  Sample paths stand for their hashes.   *)
(***************************************************************************)
EXTENDS Naturals, Sequences

CONSTANTS
  Slots,        \* MaxRackChannels
  Paths,        \* sample files
  Unreadable,   \* those whose decode fails
  NoPath,       \* no file: the empty path, and an empty sampler
  MaxEdits      \* bound on the calls of publishModel()

ASSUME RackAssumption ==
  /\ Slots \in Nat \ {0} /\ MaxEdits \in Nat
  /\ NoPath \notin Paths /\ Unreadable \subseteq Paths

VARIABLES
  active, one_shot, sample_ready,      \* Channel's atomics
  loaded_sample_hash,
  loaded_path,                         \* housekeeping thread only
  sample,                              \* what the channel's sampler holds
  deferred_audio_start,                \* audio thread only
  uiPc, uiAt, rack, edits,             \* publishModel()
  overtaken,                           \* it began before the worker had caught up
  pending,                             \* pending_channels_: <<>> or <<rack>>
  workPc, workAt, work,                \* applyChannelSync()
  schedule,                            \* the schedule published last
  audioPc, audioAt, playing,           \* the block being rendered, the transport
  rendered, gate,                      \* its schedule; its local one_shot
  newest,                              \* no edit was under way when it loaded it
  calm                                 \* nor the worker, when it began

gateVars  == <<active, one_shot, sample_ready, loaded_sample_hash>>
fileVars  == <<loaded_path, sample>>
planVars  == <<rack, edits, overtaken>>
uiVars    == <<uiPc, uiAt, planVars>>
workVars  == <<workPc, workAt, work>>
blockVars == <<audioPc, audioAt, playing, rendered, gate, newest, calm>>
audioVars == <<blockVars, deferred_audio_start>>
vars == <<gateVars, fileVars, uiVars, pending, workVars, schedule, audioVars>>

Slot == 0..(Slots - 1)
Desc == [clip : {FALSE}, path : Paths \cup {NoPath}] \cup [clip : {TRUE}, path : Paths]
Racks == UNION {[1..n -> Desc] : n \in 0..Slots}

At(list, c) == list[c + 1]
In(list, c) == c < Len(list)
IsClip(list, c) == In(list, c) /\ At(list, c).clip

Init ==
  /\ active = [c \in Slot |-> c = 0]
  /\ one_shot = [c \in Slot |-> FALSE]
  /\ sample_ready = [c \in Slot |-> TRUE]
  /\ loaded_sample_hash = [c \in Slot |-> NoPath]
  /\ loaded_path = [c \in Slot |-> NoPath]
  /\ sample = [c \in Slot |-> NoPath]
  /\ deferred_audio_start = [c \in Slot |-> FALSE]
  /\ uiPc = "idle" /\ uiAt = 0 /\ rack = <<>> /\ edits = 0 /\ overtaken = FALSE
  /\ pending = <<>>
  /\ workPc = "idle" /\ workAt = 0 /\ work = <<>>
  /\ schedule = <<>>
  /\ audioPc = "idle" /\ audioAt = 0 /\ playing = FALSE
  /\ rendered = <<>> /\ gate = FALSE /\ newest = FALSE /\ calm = FALSE

-----------------------------------------------------------------------------
(* publishModel(), on the main thread: setChannels(), then publishSchedule(). *)

WorkerCaughtUp == pending = <<>> /\ workPc = "idle"

Edit(list) ==
  /\ uiPc = "idle"
  /\ edits < MaxEdits
  /\ edits' = edits + 1
  /\ rack' = list
  /\ overtaken' = ~WorkerCaughtUp
  /\ uiPc' = "gates"
  /\ newest' = FALSE /\ calm' = FALSE
  /\ UNCHANGED <<gateVars, fileVars, deferred_audio_start, uiAt, pending, workVars, schedule,
                 audioPc, audioAt, playing, rendered, gate>>

\* active, one_shot and the clip's window.
StoreGates ==
  /\ uiPc = "gates"
  /\ uiAt \in Slot
  /\ active' = [active EXCEPT ![uiAt] = In(rack, uiAt) \/ (uiAt = 0 /\ rack = <<>>)]
  /\ one_shot' = [one_shot EXCEPT ![uiAt] = IsClip(rack, uiAt)]
  /\ uiPc' = "ready"
  /\ UNCHANGED <<sample_ready, loaded_sample_hash, fileVars, uiAt, planVars, pending,
                 workVars, schedule, audioVars>>

\* The decoded file of slot c is the one the list asks for: paths are compared by
\* hash.  A slip: any file will do.
HoldsAny(list, c) == loaded_sample_hash[c] # NoPath
HoldsFile(list, c) == At(list, c).path = loaded_sample_hash[c]

StoreReady ==
  /\ uiPc = "ready"
  /\ sample_ready' =
       [sample_ready EXCEPT
          ![uiAt] = IF IsClip(rack, uiAt) THEN @ /\ HoldsFile(rack, uiAt) ELSE TRUE]
  /\ uiAt' = uiAt + 1
  /\ uiPc' = "gates"
  /\ UNCHANGED <<active, one_shot, loaded_sample_hash, fileVars, planVars, pending,
                 workVars, schedule, audioVars>>

\* The list replaces one the worker has not taken yet.
Replacing(list) == <<list>>

QueueChannels ==
  /\ uiPc = "gates"
  /\ uiAt = Slots
  /\ pending' = Replacing(rack)
  /\ uiPc' = "publish"
  /\ uiAt' = 0
  /\ UNCHANGED <<gateVars, fileVars, planVars, workVars, schedule, audioVars>>

PublishSchedule ==
  /\ uiPc = "publish"
  /\ schedule' = rack
  /\ uiPc' = "idle"
  /\ UNCHANGED <<gateVars, fileVars, uiAt, planVars, pending, workVars, audioVars>>

Main == (\E list \in Racks : Edit(list)) \/ StoreGates \/ StoreReady \/ QueueChannels
          \/ PublishSchedule

-----------------------------------------------------------------------------
(* applyChannelSync(), on the housekeeping thread. *)

TakeChannels ==
  /\ workPc = "idle"
  /\ pending # <<>>
  /\ work' = pending[1]
  /\ pending' = <<>>
  /\ workPc' = "gates"
  /\ UNCHANGED <<gateVars, fileVars, uiVars, workAt, schedule, audioVars>>

Wanted == At(work, workAt)
Listed == In(work, workAt)

ApplyGates ==
  /\ workPc = "gates"
  /\ Listed
  /\ one_shot' = [one_shot EXCEPT ![workAt] = Wanted.clip]
  /\ workPc' = IF Wanted.path # loaded_path[workAt] THEN "changed" ELSE "same"
  /\ UNCHANGED <<active, sample_ready, loaded_sample_hash, fileVars, uiVars, pending,
                 workAt, work, schedule, audioVars>>

KeepSample ==
  /\ workPc = "same"
  /\ sample_ready' =
       [sample_ready EXCEPT ![workAt] = @ \/ (Wanted.clip /\ HoldsFile(work, workAt))]
  /\ workPc' = "activate"
  /\ UNCHANGED <<active, one_shot, loaded_sample_hash, fileVars, uiVars, pending, workAt,
                 work, schedule, audioVars>>

CloseGate ==
  /\ workPc = "changed"
  /\ sample_ready' = [sample_ready EXCEPT ![workAt] = @ /\ ~Wanted.clip]
  /\ workPc' = CASE Wanted.path = NoPath        -> "clear"
                 [] Wanted.path \in Unreadable  -> "activate"
                 [] OTHER                       -> "load"
  /\ UNCHANGED <<active, one_shot, loaded_sample_hash, fileVars, uiVars, pending, workAt,
                 work, schedule, audioVars>>

\* loadChannelSample(): setSample() hands the decoded file to the sampler.
LoadSample ==
  /\ workPc = "load"
  /\ sample' = [sample EXCEPT ![workAt] = Wanted.path]
  /\ loaded_path' = [loaded_path EXCEPT ![workAt] = Wanted.path]
  /\ workPc' = "record"
  /\ UNCHANGED <<gateVars, uiVars, pending, workAt, work, schedule, audioVars>>

\* An empty path forgets the file; the sampler keeps what it holds.
ForgetSample ==
  /\ workPc = "clear"
  /\ loaded_path' = [loaded_path EXCEPT ![workAt] = NoPath]
  /\ workPc' = "record"
  /\ UNCHANGED <<gateVars, sample, uiVars, pending, workAt, work, schedule, audioVars>>

RecordHash ==
  /\ workPc = "record"
  /\ loaded_sample_hash' = [loaded_sample_hash EXCEPT ![workAt] = Wanted.path]
  /\ workPc' = "open"
  /\ UNCHANGED <<active, one_shot, sample_ready, fileVars, uiVars, pending, workAt, work,
                 schedule, audioVars>>

\* The gate's value once the file is in.
Opened == TRUE

OpenGate ==
  /\ workPc = "open"
  /\ sample_ready' = [sample_ready EXCEPT ![workAt] = Opened]
  /\ workPc' = "activate"
  /\ UNCHANGED <<active, one_shot, loaded_sample_hash, fileVars, uiVars, pending, workAt,
                 work, schedule, audioVars>>

Activate ==
  /\ workPc = "activate"
  /\ active' = [active EXCEPT ![workAt] = TRUE]
  /\ workAt' = workAt + 1
  /\ workPc' = "gates"
  /\ UNCHANGED <<one_shot, sample_ready, loaded_sample_hash, fileVars, uiVars, pending,
                 work, schedule, audioVars>>

\* The slots past the list, except that slot 0 stays the audition voice.
SilenceRest ==
  /\ workPc = "gates"
  /\ ~Listed
  /\ LET rest == {c \in Slot : c >= workAt /\ c > 0} IN
     /\ active' = [c \in Slot |-> active[c] /\ c \notin rest]
     /\ one_shot' = [c \in Slot |-> one_shot[c] /\ c \notin rest]
     /\ sample_ready' = [c \in Slot |-> sample_ready[c] \/ c \in rest]
  /\ workPc' = "idle"
  /\ workAt' = 0
  /\ work' = <<>>
  /\ UNCHANGED <<loaded_sample_hash, fileVars, uiVars, pending, schedule, audioVars>>

Worker ==
  \/ TakeChannels \/ ApplyGates \/ KeepSample \/ CloseGate \/ LoadSample
  \/ ForgetSample \/ RecordHash \/ OpenGate \/ Activate \/ SilenceRest

-----------------------------------------------------------------------------
(* process(): the audio thread, with one chunk to the block. *)

sharedVars == <<gateVars, fileVars, uiVars, pending, workVars, schedule>>

\* Play and stop are commands, drained before the block renders.
BlockBegins(play) ==
  /\ audioPc = "idle"
  /\ playing' = play
  /\ rendered' = schedule
  /\ newest' = (uiPc = "idle")
  /\ calm' = (uiPc = "idle" /\ WorkerCaughtUp)
  /\ audioPc' = "channel"
  /\ UNCHANGED <<sharedVars, audioAt, gate, deferred_audio_start>>

SkipChannel ==
  /\ audioPc = "channel"
  /\ audioAt \in Slot
  /\ ~active[audioAt]
  /\ audioAt' = audioAt + 1
  /\ UNCHANGED <<sharedVars, audioPc, playing, rendered, gate, newest, calm, deferred_audio_start>>

\* renderChannel() is done with this channel.
GoesOn ==
  /\ audioAt' = audioAt + 1
  /\ audioPc' = "channel"
  /\ gate' = FALSE

\* A channel that is no clip forgets a start it was keeping; a stopped transport
\* renders no events.
ForgetDeferred ==
  /\ audioPc = "channel"
  /\ audioAt \in Slot
  /\ active[audioAt]
  /\ deferred_audio_start' = [deferred_audio_start EXCEPT ![audioAt] = @ /\ one_shot[audioAt]]
  /\ IF playing THEN audioPc' = "gate" /\ UNCHANGED <<audioAt, gate>> ELSE GoesOn
  /\ UNCHANGED <<sharedVars, playing, rendered, newest, calm>>

LoadGate ==
  /\ audioPc = "gate"
  /\ gate' = one_shot[audioAt]
  /\ audioPc' = "events"
  /\ UNCHANGED <<sharedVars, audioAt, playing, rendered, newest, calm, deferred_audio_start>>

\* A start that waited is made up for when its file is there.  A slip: the gate is
\* not looked at again.
NeverMadeUp(ready) == FALSE
MadeUp(ready) == gate /\ ready /\ deferred_audio_start[audioAt]

\* The chunk's AudioStart events of this channel: due or not.
RenderEvents(due) ==
  /\ audioPc = "events"
  /\ due => IsClip(rendered, audioAt)
  /\ LET ready == ~gate \/ sample_ready[audioAt]
         late  == MadeUp(ready) /\ ~due
     IN /\ deferred_audio_start' =
             [deferred_audio_start EXCEPT
                ![audioAt] = IF ready THEN @ /\ ~late /\ ~due ELSE @ \/ due]
        /\ IF ready /\ (due \/ late) THEN audioPc' = "start" /\ UNCHANGED <<audioAt, gate>>
           ELSE GoesOn
  /\ UNCHANGED <<sharedVars, playing, rendered, newest, calm>>

\* The sampler takes up the sample it then holds.
StartVoice ==
  /\ audioPc = "start"
  /\ GoesOn
  /\ UNCHANGED <<sharedVars, playing, rendered, newest, calm, deferred_audio_start>>

BlockEnds ==
  /\ audioPc = "channel"
  /\ audioAt = Slots
  /\ audioPc' = "idle"
  /\ audioAt' = 0
  /\ rendered' = <<>>
  /\ newest' = FALSE /\ calm' = FALSE
  /\ UNCHANGED <<sharedVars, playing, gate, deferred_audio_start>>

Block ==
  \/ \E play \in BOOLEAN : BlockBegins(play)
  \/ SkipChannel \/ ForgetDeferred \/ LoadGate
  \/ \E due \in BOOLEAN : RenderEvents(due)
  \/ StartVoice \/ BlockEnds

Next == Main \/ Worker \/ Block

Spec == Init /\ [][Next]_vars

-----------------------------------------------------------------------------
TypeOK ==
  /\ active \in [Slot -> BOOLEAN] /\ one_shot \in [Slot -> BOOLEAN]
  /\ sample_ready \in [Slot -> BOOLEAN]
  /\ loaded_sample_hash \in [Slot -> Paths \cup {NoPath}]
  /\ loaded_path \in [Slot -> Paths \cup {NoPath}]
  /\ sample \in [Slot -> Paths \cup {NoPath}]
  /\ deferred_audio_start \in [Slot -> BOOLEAN]
  /\ uiPc \in {"idle", "gates", "ready", "publish"}
  /\ uiAt \in 0..Slots /\ (uiPc = "ready" => uiAt \in Slot)
  /\ rack \in Racks /\ schedule \in Racks /\ work \in Racks /\ rendered \in Racks
  /\ edits \in 0..MaxEdits /\ overtaken \in BOOLEAN
  /\ pending = <<>> \/ (Len(pending) = 1 /\ pending[1] \in Racks)
  /\ workPc \in {"idle", "gates", "same", "changed", "clear", "load", "record", "open",
                 "activate"}
  /\ workAt \in 0..Slots
  /\ (workPc \notin {"idle", "gates"} => Listed)
  /\ audioPc \in {"idle", "channel", "gate", "events", "start"}
  /\ audioAt \in 0..Slots
  /\ playing \in BOOLEAN /\ gate \in BOOLEAN /\ newest \in BOOLEAN /\ calm \in BOOLEAN

\* Whatever a block of the newest schedule starts on a channel is that channel's
\* own clip: never the fallback tone, nor the file of another clip.  That holds as
\* long as the newest rack did not overtake the worker, who otherwise stores the
\* gate of an older rack over it.
StartsItsClip ==
  audioPc = "start" =>
    IsClip(rendered, audioAt) /\ sample[audioAt] = At(rendered, audioAt).path

ClipPlaysItsFileUnlessOvertaken == newest /\ ~overtaken => StartsItsClip

\* Once the worker has caught up, the channels are what the newest rack says,
\* whatever it was overtaken by on the way.  Slot 0 under an empty rack is left
\* out: applyChannelSync() does not go back to it, so a gate it stored late for
\* an older rack stays behind there until the next edit.
SettledOn(list) ==
  \A c \in Slot : In(list, c) \/ c > 0 =>
    /\ active[c] = (In(list, c) \/ c = 0)
    /\ one_shot[c] = IsClip(list, c)
    /\ In(list, c) /\ At(list, c).path \in Paths \ Unreadable
         => sample[c] = At(list, c).path
    /\ IsClip(list, c) => sample_ready[c] = (sample[c] = At(list, c).path)

RackSettles == (uiPc = "idle" /\ WorkerCaughtUp) => SettledOn(rack)

\* A clip start that came before its file was decoded is made up for: a block
\* that begins after the worker has caught up, and plays with no edit meanwhile,
\* leaves no start waiting on a channel whose clip has a file.
Readable(list, c) == IsClip(list, c) /\ At(list, c).path \notin Unreadable

StartsCatchUp ==
  [][BlockEnds /\ calm /\ playing =>
       \A c \in Slot : Readable(rack, c) => ~deferred_audio_start[c]]_vars
(* Once the worker and the rack have nothing left to do, every channel plays *)
(* what the project says, and a clip its own file.                         *)
RackIsTheProjects == TypeOK /\ RackSettles /\ ClipPlaysItsFileUnlessOvertaken
=============================================================================
