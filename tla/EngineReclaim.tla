---------------------------- MODULE EngineReclaim ----------------------------
(***************************************************************************)
(* When the engine lets the schedule's publisher free what it replaced.    *)
(*                                                                         *)
(* Engine::process() brackets every block with two increments of           *)
(* render_seq_; blocks come from the audio device, or from an offline      *)
(* render that calls process() with the device stopped.  Each housekeeping *)
(* pass decides from render_seq_ and running_ whether "nothing is          *)
(* rendering" and hands the answer to collect().                           *)
(*                                                                         *)
(* Publisher supplies the actions of publish(), acquire() and collect();   *)
(* here its phase is "streaming" while anyone may call process().          *)
(***************************************************************************)
EXTENDS Publisher

VARIABLES
  render_seq,       \* render_seq_
  running,          \* running_
  driver,           \* who calls process(): "none", "device" or "offline"
  controlPc,        \* start() and stop(): between the device call and the flag
  processPc,        \* process(): outside, or between an increment and the block
  hkPc,             \* the housekeeping pass
  seqSeen,          \* its local render_seq
  last_render_seq,  \* the render_seq of the pass before
  quiet,
  settled,          \* objects already retired when the pass sampled render_seq_
  exposed           \* objects freed on the strength of quiet, but retired later

renderVars  == <<render_seq, processPc>>
controlVars == <<running, driver, controlPc>>
passVars    == <<hkPc, seqSeen, last_render_seq, quiet, settled>>
engineVars  == <<renderVars, controlVars, passVars, exposed>>
allVars     == <<vars, engineVars>>

EngineInit ==
  /\ Init
  /\ render_seq = 0
  /\ running = FALSE
  /\ driver = "none"
  /\ controlPc = "idle"
  /\ processPc = "outside"
  /\ hkPc = "idle"
  /\ seqSeen = 0
  /\ last_render_seq = 0
  /\ quiet = FALSE
  /\ settled = {}
  /\ exposed = {}

-----------------------------------------------------------------------------
(* Engine::process() *)

EnterProcess ==
  /\ driver # "none"
  /\ processPc = "outside"
  /\ rt_epoch < MaxEpoch
  /\ render_seq' = render_seq + 1
  /\ processPc' = "entered"
  /\ UNCHANGED <<vars, controlVars, passVars, exposed>>

BlockBegins ==
  /\ processPc = "entered"
  /\ BeginBlock
  /\ processPc' = "rendering"
  /\ UNCHANGED <<render_seq, controlVars, passVars, exposed>>

BlockAcquires == Acquire /\ UNCHANGED engineVars

LeaveProcess ==
  /\ EndBlock
  /\ render_seq' = render_seq + 1
  /\ processPc' = "outside"
  /\ UNCHANGED <<controlVars, passVars, exposed>>

-----------------------------------------------------------------------------
(* Who renders. *)

\* start(): the device calls back before running_ says so.
StartBegins ==
  /\ controlPc = "idle"
  /\ driver = "none"
  /\ StartDevice
  /\ driver' = "device"
  /\ controlPc' = "starting"
  /\ UNCHANGED <<running, renderVars, passVars, exposed>>

StartEnds ==
  /\ controlPc = "starting"
  /\ running' = TRUE
  /\ controlPc' = "idle"
  /\ UNCHANGED <<vars, driver, renderVars, passVars, exposed>>

\* stop(): running_ goes first, and a second stop() finds nothing to do.
StopBegins ==
  /\ controlPc = "idle"
  /\ running
  /\ running' = FALSE
  /\ controlPc' = "stopping"
  /\ UNCHANGED <<vars, driver, renderVars, passVars, exposed>>

StopEnds ==
  /\ controlPc = "stopping"
  /\ processPc = "outside"
  /\ StopDevice
  /\ driver' = "none"
  /\ controlPc' = "idle"
  /\ UNCHANGED <<running, renderVars, passVars, exposed>>

\* An exporter's block loop.
OfflineBegins ==
  /\ controlPc = "idle"
  /\ driver = "none"
  /\ StartDevice
  /\ driver' = "offline"
  /\ UNCHANGED <<running, controlPc, renderVars, passVars, exposed>>

OfflineEnds ==
  /\ driver = "offline"
  /\ processPc = "outside"
  /\ StopDevice
  /\ driver' = "none"
  /\ UNCHANGED <<running, controlPc, renderVars, passVars, exposed>>

-----------------------------------------------------------------------------
(* The end of a housekeeping pass. *)

SampleRender ==
  /\ hkPc = "idle"
  /\ gcPc = "idle"
  /\ seqSeen' = render_seq
  /\ settled' = ObjectsOf(retired)
  /\ hkPc' = "sampled"
  /\ UNCHANGED <<vars, last_render_seq, quiet, renderVars, controlVars, exposed>>

\* Slips: the counter's parity is not looked at; it is read the wrong way round.
QuietWhenEqual == ~running /\ seqSeen = last_render_seq
QuietWhenOdd   == ~running /\ seqSeen = last_render_seq /\ seqSeen % 2 = 1

Quiet == ~running /\ seqSeen = last_render_seq /\ seqSeen % 2 = 0

SampleRunning ==
  /\ hkPc = "sampled"
  /\ quiet' = Quiet
  /\ last_render_seq' = seqSeen
  /\ hkPc' = "decided"
  /\ UNCHANGED <<vars, seqSeen, settled, renderVars, controlVars, exposed>>

PassCollects ==
  /\ hkPc = "decided"
  /\ LoadEpoch(~quiet)
  /\ hkPc' = "idle"
  /\ UNCHANGED <<seqSeen, last_render_seq, quiet, settled, renderVars, controlVars,
                 exposed>>

PassTakes == TakeExpired /\ UNCHANGED engineVars

PassFrees ==
  /\ FreeDoomed
  /\ exposed' = IF gcRunning THEN exposed ELSE exposed \cup (doomed \ settled)
  /\ UNCHANGED <<renderVars, controlVars, passVars>>

Render  == EnterProcess \/ BlockBegins \/ BlockAcquires \/ LeaveProcess
Control == StartBegins \/ StartEnds \/ StopBegins \/ StopEnds
Export  == OfflineBegins \/ OfflineEnds
Pass    == SampleRender \/ SampleRunning \/ PassCollects \/ PassTakes \/ PassFrees

EngineNext ==
  \/ Render \/ Control \/ Export \/ Pass
  \/ \E w \in Writers : Publish(w) /\ UNCHANGED engineVars

EngineSpec == EngineInit /\ [][EngineNext]_allVars

\* The housekeeping thread wakes every 20 ms whatever the others do, a publish()
\* that has begun returns, whoever renders calls process() again and again, and
\* process() returns.
EngineFairSpec ==
  /\ EngineSpec
  /\ WF_allVars(Pass)
  /\ WF_allVars(EnterProcess \/ BlockBegins \/ LeaveProcess)
  /\ \A w \in Writers : WF_allVars((ReadEpoch(w) \/ Retire(w)) /\ UNCHANGED engineVars)

-----------------------------------------------------------------------------
EngineTypeOK ==
  /\ TypeOK
  /\ render_seq \in 0..(2 * MaxEpoch)
  /\ render_seq % 2 = (IF processPc = "outside" THEN 0 ELSE 1)
  /\ driver \in {"none", "device", "offline"}
  /\ (driver = "none") = (phase = "stopped")
  /\ running => driver = "device"
  /\ controlPc \in {"idle", "starting", "stopping"}
  /\ processPc \in {"outside", "entered", "rendering"}
  /\ (processPc = "rendering") = (audioPc = "block")
  /\ hkPc \in {"idle", "sampled", "decided"}
  /\ last_render_seq <= render_seq

\* What two equal, even samples do establish: an object whose retirement was
\* recorded before the pass sampled render_seq_ is freed only when no block
\* holds it, whether by the epochs or because nothing was rendering.
SettledIsSafe == held \cap freed \subseteq exposed

\* While blocks keep beginning, or once they have stopped, a superseded object is
\* freed: retired_ cannot grow for ever.
RetiredIsFreed ==
  \A o \in Objs :
    (\E r \in retired : r.object = o /\ r.epoch + 2 < MaxEpoch) ~> (o \in freed)

\* An engine nobody renders with frees what it replaced: two passes in a row
\* agree, and the epochs are not waited for.
IdleEngineReclaims ==
  \A o \in Objs :
    (o \in ObjectsOf(retired) /\ [](driver = "none")) ~> (o \in freed)
(* An object that was replaced is freed, while the device is idle and while *)
(* it runs: the housekeeping thread does not wait for a block that never   *)
(* comes.                                                                  *)
ReclaimsInTime == IdleEngineReclaims /\ RetiredIsFreed
\* The housekeeping thread frees what a block holds only if it was retired after
\* the pass had sampled render_seq_.
ReclaimsSafely == EngineTypeOK /\ SettledIsSafe
=============================================================================
