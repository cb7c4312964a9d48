---------------------------- MODULE DeviceChange ----------------------------
(***************************************************************************)
(* The output device while the system changes it: two property listeners   *)
(* of the CoreAudio backend (the default device moved, the open device     *)
(* died) that close the stream, open it again elsewhere and tell the       *)
(* engine, and the main thread, which starts and stops the same stream and *)
(* changes a lane's voice meanwhile.  What is told is the stream's format; *)
(* what must follow it is everything configured for one.                   *)
(*                                                                         *)
(* Each listener is its own thread: reopening_ is an atomic exchange       *)
(* because two of them may reopen at once.  The lane is one of the rack's; *)
(* the system's audio unit waits for a callback in flight when stopped.    *)
(***************************************************************************)
EXTENDS Naturals, FiniteSets

CONSTANTS
    Devices,          \* the output devices of the machine
    FormatOf,         \* what each device grants, whatever is asked of it
    NoDevice,         \* no device, and no hosted voice
    MaxDeviceMoves,   \* bound: times the system moves the default device
    MaxLaneEdits      \* bound: commands of the main thread

ASSUME FormatsAreGranted ==
    /\ NoDevice \notin Devices
    /\ FormatOf \in [Devices -> [rate : Nat, frames : Nat]]

VARIABLES
    default,     \* the system's default output device
    told,        \* listeners the system has still to call
    unit,        \* the device of the open audio unit
    format,      \* format_: what the last open was granted
    deviceRuns,  \* CoreAudioDevice::running_
    reopening,   \* CoreAudioDevice::reopening_
    rendering,   \* a render callback is in flight
    at,          \* where each listener is
    local,       \* its locals: the stream that ran, the device it found
    engineRuns,  \* Engine::running_
    config,      \* the rate and block of config_
    builtin,     \* what the lane's own sampler is configured for
    hosted,      \* what the lane's hosted voice is configured for, if it has one
    insert,      \* what the effects of the mixer graph are configured for
    scratch,     \* frames channel_scratch_ holds
    main,        \* where the main thread is
    edit,        \* the command it executes: the voice it installs, and resume
    moves, asked,
    crossed,     \* history: two of the three threads were at it together
    missed,      \* history: the default moved and no listener reopened on it
    covered      \* history: the rate changed under a hosted voice

system == <<default, told, moves>>
stream == <<unit, format, deviceRuns, reopening>>
listeners == <<at, local>>
voices == <<builtin, hosted>>
lane == <<main, edit, asked>>
past == <<crossed, missed, covered>>
changeVars == <<system, stream, rendering, listeners, engineRuns, config,
                voices, insert, scratch, lane, past>>

Listeners == {"default", "alive"}
Idle == [t \in Listeners |-> "idle"]
Still == [was |-> FALSE, found |-> NoDevice, wanted |-> FormatOf[CHOOSE d \in Devices : TRUE],
          after |-> "idle"]

NoEdit == [kind |-> "none", voice |-> NoDevice, resume |-> FALSE]

Busy(t) == at[t] # "idle"
AnyBusy == (\E t \in Listeners : Busy(t)) \/ main # "idle"

(* Engine::initialise and start: everything at the format of the first device. *)
DeviceInit ==
    \E d \in Devices :
        /\ default = d /\ unit = d
        /\ format = FormatOf[d] /\ config = FormatOf[d]
        /\ builtin = FormatOf[d] /\ hosted = NoDevice /\ insert = FormatOf[d]
        /\ scratch = FormatOf[d].frames
        /\ told = {} /\ deviceRuns = TRUE /\ engineRuns = TRUE
        /\ reopening = FALSE /\ rendering = FALSE
        /\ at = Idle /\ local = [t \in Listeners |-> Still]
        /\ main = "idle" /\ edit = NoEdit
        /\ moves = 0 /\ asked = 0
        /\ crossed = FALSE /\ missed = FALSE /\ covered = FALSE

-----------------------------------------------------------------------------
(* The system *)

(* Listeners hear what happens while they are installed, which is while a  *)
(* unit is open.  A device that dies may leave the machine with none.      *)
DefaultMoves ==
    /\ moves < MaxDeviceMoves /\ moves' = moves + 1
    /\ \E d \in (Devices \cup {NoDevice}) \ {default}, dies \in BOOLEAN :
        /\ dies => default = unit
        /\ ~dies => d # NoDevice
        /\ default' = d
        /\ told' = IF unit = NoDevice THEN told
                   ELSE told \cup {"default"} \cup (IF dies THEN {"alive"} ELSE {})
    /\ missed' = (missed \/ unit = NoDevice)
    /\ UNCHANGED <<stream, rendering, listeners, engineRuns, config, voices, insert,
                   scratch, lane, crossed, covered>>

RenderBegins ==
    /\ deviceRuns /\ unit # NoDevice /\ ~rendering
    /\ rendering' = TRUE
    /\ UNCHANGED <<system, stream, listeners, engineRuns, config, voices, insert, scratch,
                   lane, past>>

RenderEnds ==
    /\ rendering /\ rendering' = FALSE
    /\ UNCHANGED <<system, stream, listeners, engineRuns, config, voices, insert, scratch,
                   lane, past>>

-----------------------------------------------------------------------------
(* The listeners *)

Goes(t, where) == at' = [at EXCEPT ![t] = where]

(* handleDefaultDeviceChanged and handleDeviceLost, up to the reopening:   *)
(* the first has nothing to do when the default is the open device or is   *)
(* none, and whoever finds a reopening under way goes on to the notice.    *)
Called(t) ==
    /\ t \in told /\ ~Busy(t)
    /\ told' = told \ {t}
    /\ IF t = "default" /\ default \in {NoDevice, unit}
       THEN UNCHANGED <<stream, listeners, past>>
       ELSE IF reopening
       THEN /\ Goes(t, "notify")
            /\ missed' = TRUE /\ crossed' = TRUE
            /\ UNCHANGED <<stream, local, covered>>
       ELSE /\ reopening' = TRUE
            /\ local' = [local EXCEPT ![t] =
                            [@ EXCEPT !.was = deviceRuns, !.wanted = format]]
            /\ Goes(t, "stop")
            /\ crossed' = (crossed \/ AnyBusy)
            /\ UNCHANGED <<unit, format, deviceRuns, missed, covered>>
    /\ UNCHANGED <<default, moves, rendering, engineRuns, config, voices, insert, scratch, lane>>

(* stop(), which returns once no callback is in flight, unless the stream  *)
(* was not running; then close(), which takes the listeners with it.       *)
StopsAndCloses(t) ==
    /\ at[t] = "stop" /\ (deviceRuns => ~rendering)
    /\ deviceRuns' = FALSE /\ unit' = NoDevice
    /\ Goes(t, "find")
    /\ UNCHANGED <<system, format, reopening, rendering, local, engineRuns, config, voices,
                   insert, scratch, lane, past>>

FindsTheDefault(t) ==
    /\ at[t] = "find"
    /\ local' = [local EXCEPT ![t].found = default]
    /\ IF default = NoDevice THEN Goes(t, "done") /\ missed' = TRUE
                             ELSE Goes(t, "open") /\ UNCHANGED missed
    /\ UNCHANGED <<system, stream, rendering, engineRuns, config, voices, insert, scratch,
                   lane, crossed, covered>>

(* Slip: the notice is left to the end of the reopening. *)
ResumesBeforeTelling(t) ==
    /\ at[t] = "open"
    /\ unit' = local[t].found /\ format' = FormatOf[unit']
    /\ local' = [local EXCEPT ![t].after = "start"]
    /\ Goes(t, "start")
    /\ UNCHANGED <<system, deviceRuns, reopening, rendering, engineRuns, config, voices,
                   insert, scratch, lane, past>>

(* openDevice asks for the old format and takes what the device grants;    *)
(* the engine is told before the stream starts when the two differ.        *)
Opens(t) ==
    /\ at[t] = "open"
    /\ \/ /\ unit' = local[t].found
          /\ format' = FormatOf[unit']
          /\ local' = [local EXCEPT ![t].after = "start"]
          /\ Goes(t, IF format' # local[t].wanted THEN "told" ELSE "start")
          /\ UNCHANGED missed
       \/ /\ Goes(t, "done") /\ missed' = TRUE
          /\ UNCHANGED <<unit, format, local>>
    /\ UNCHANGED <<system, deviceRuns, reopening, rendering, engineRuns, config, voices,
                   insert, scratch, lane, crossed, covered>>

(* The stream resumes if it ran; the unit may refuse. *)
Resumes(t) ==
    /\ at[t] = "start"
    /\ deviceRuns' \in {deviceRuns, deviceRuns \/ (local[t].was /\ unit # NoDevice)}
    /\ Goes(t, "done")
    /\ UNCHANGED <<system, unit, format, reopening, rendering, local, engineRuns, config,
                   voices, insert, scratch, lane, past>>

EndsReopening(t) ==
    /\ at[t] = "done" /\ reopening' = FALSE /\ Goes(t, "notify")
    /\ UNCHANGED <<system, unit, format, deviceRuns, rendering, local, engineRuns, config,
                   voices, insert, scratch, lane, past>>

Notifies(t) ==
    /\ at[t] = "notify"
    /\ local' = [local EXCEPT ![t].after = "idle"] /\ Goes(t, "told")
    /\ UNCHANGED <<system, stream, rendering, engineRuns, config, voices, insert, scratch,
                   lane, past>>

(* Engine::onDeviceNotification: a new rate puts every lane's sounding     *)
(* voice through deactivate, configure and activate; any notice sizes the  *)
(* scratch again.  The block size alone reconfigures nothing, and neither  *)
(* the samplers behind hosted voices nor the inserts are reached at all.   *)
HearsOfIt(t) ==
    /\ at[t] = "told"
    /\ IF format.rate # config.rate
       THEN /\ config' = [config EXCEPT !.rate = format.rate]
            /\ Goes(t, "voices")
       ELSE Goes(t, "scratch") /\ UNCHANGED config
    /\ UNCHANGED <<system, stream, rendering, local, engineRuns, voices, insert, scratch,
                   lane, past>>

Reconfigures(t) ==
    /\ at[t] = "voices"
    /\ IF hosted = NoDevice
       THEN builtin' = format /\ UNCHANGED <<hosted, covered>>
       ELSE hosted' = format /\ covered' = TRUE /\ UNCHANGED builtin
    /\ Goes(t, "scratch")
    /\ UNCHANGED <<system, stream, rendering, local, engineRuns, config, insert, scratch,
                   lane, crossed, missed>>

SizesTheScratch(t) ==
    /\ at[t] = "scratch"
    /\ config' = [config EXCEPT !.frames = format.frames]
    /\ scratch' = format.frames
    /\ Goes(t, local[t].after)
    /\ local' = IF local[t].after = "idle" THEN [local EXCEPT ![t] = Still] ELSE local
    /\ UNCHANGED <<system, stream, rendering, engineRuns, voices, insert, lane, past>>

-----------------------------------------------------------------------------
(* The main thread *)

Asks ==
    /\ main = "idle" /\ asked < MaxLaneEdits
    /\ asked' = asked + 1
    /\ crossed' = (crossed \/ \E t \in Listeners : Busy(t))
    /\ UNCHANGED <<system, stream, rendering, listeners, config, voices, scratch, missed,
                   covered>>

(* Engine::installHostedInstrument configures the newcomer first, and      *)
(* restoreBuiltinInstrument has nothing to do on a lane without one.       *)
StopsThenSwaps(kind, voice) ==
    /\ Asks
    /\ edit' = [kind |-> kind, voice |-> voice, resume |-> engineRuns]
    /\ main' = IF engineRuns THEN "stopping" ELSE "swap"
    /\ engineRuns' = FALSE
    /\ UNCHANGED insert

InstallsVoice == StopsThenSwaps("install", config)
RestoresBuiltin == hosted # NoDevice /\ StopsThenSwaps("restore", NoDevice)

(* Engine::stop clears its own flag first; the device's stop returns at    *)
(* once when the stream is not marked as running.                          *)
StopsEngine ==
    /\ engineRuns /\ Asks
    /\ edit' = [kind |-> "stop", voice |-> NoDevice, resume |-> FALSE]
    /\ engineRuns' = FALSE /\ main' = "stopping"
    /\ UNCHANGED insert

StartsEngine ==
    /\ ~engineRuns /\ Asks
    /\ main' = "starting"
    /\ UNCHANGED <<engineRuns, insert, edit>>

DeviceStops ==
    /\ main = "stopping" /\ (deviceRuns => ~rendering)
    /\ deviceRuns' = FALSE
    /\ IF edit.kind = "stop" THEN main' = "idle" /\ edit' = NoEdit
                             ELSE main' = "swap" /\ UNCHANGED edit
    /\ UNCHANGED <<system, unit, format, reopening, rendering, listeners, engineRuns, config,
                   voices, insert, scratch, asked, past>>

SwapsVoice ==
    /\ main = "swap"
    /\ hosted' = edit.voice
    /\ main' = IF edit.resume THEN "starting" ELSE "idle"
    /\ edit' = NoEdit
    /\ UNCHANGED <<system, stream, rendering, listeners, engineRuns, config, builtin, insert,
                   scratch, asked, past>>

(* Without an open unit, or when it refuses, the engine stays stopped. *)
DeviceStarts ==
    /\ main = "starting" /\ main' = "idle"
    /\ \/ /\ unit # NoDevice
          /\ deviceRuns' = TRUE /\ engineRuns' = TRUE
       \/ /\ ~deviceRuns
          /\ UNCHANGED <<deviceRuns, engineRuns>>
    /\ UNCHANGED <<system, unit, format, reopening, rendering, listeners, config, voices,
                   insert, scratch, edit, asked, past>>

(* The housekeeping thread builds the graph's effects for config_ whenever *)
(* the mixer's shape changes, running or not: nothing asks for it here.    *)
RebuildsMixer ==
    /\ insert # config /\ insert' = config
    /\ UNCHANGED <<system, stream, rendering, listeners, engineRuns, config, voices, scratch,
                   lane, past>>

-----------------------------------------------------------------------------
ListenerStep(t) ==
    \/ Called(t) \/ StopsAndCloses(t) \/ FindsTheDefault(t) \/ Opens(t) \/ Resumes(t)
    \/ EndsReopening(t) \/ Notifies(t) \/ HearsOfIt(t) \/ Reconfigures(t) \/ SizesTheScratch(t)

MainStep == InstallsVoice \/ RestoresBuiltin \/ StopsEngine \/ StartsEngine
            \/ DeviceStops \/ SwapsVoice \/ DeviceStarts

DeviceNext ==
    \/ DefaultMoves \/ RenderBegins \/ RenderEnds
    \/ \E t \in Listeners : ListenerStep(t)
    \/ MainStep \/ RebuildsMixer

DeviceSpec == DeviceInit /\ [][DeviceNext]_changeVars

-----------------------------------------------------------------------------
SoundingVoice == IF hosted = NoDevice THEN builtin ELSE hosted
DeviceAtRest == main = "idle" /\ told = {} /\ \A t \in Listeners : ~Busy(t)

(* A lane's voice is replaced, and voices are reconfigured, only while no  *)
(* callback renders, unless the three threads were at it together: that    *)
(* every path stops the stream before and starts it after, told in the     *)
(* right order, is all that keeps the audio thread out of them.            *)
VoicesChangeInSilenceUnlessCrossed ==
    main = "swap" \/ (\E t \in Listeners : at[t] = "voices") => ~rendering \/ crossed

(* However the default moved, died or came back and whatever was installed *)
(* or stopped in between, the stream that is left at rest is on the        *)
(* default device, is stopped if the engine is, has a scratch of its block *)
(* and has the sounding voice's rate, unless the threads met, the move was *)
(* missed or the sampler now sounding was covered when the rate changed.   *)
SettlesUnlessCrossedOrMissed ==
    DeviceAtRest /\ ~crossed /\ ~missed =>
        /\ default \in {unit, NoDevice}
        /\ ~engineRuns => ~deviceRuns
        /\ scratch = format.frames
        /\ hosted # NoDevice \/ ~covered => SoundingVoice.rate = format.rate

(* However a device comes and goes, no voice is reconfigured under the block *)
(* that renders it, and in the end all of the engine has the format of the *)
(* device that plays.                                                      *)
DeviceIsFollowed == VoicesChangeInSilenceUnlessCrossed /\ SettlesUnlessCrossedOrMissed
=============================================================================
