---------------------------- MODULE HandOverProofs ----------------------------
(***************************************************************************)
(* What the engine hands over without a lock: the objects it publishes,    *)
(* its snapshot, and the whole of it to another device.                    *)
(*                                                                         *)
(* A published object is freed only when no block holds it, for every set  *)
(* of objects and writers and every bound.  First the publisher alone:     *)
(* types, single ownership, and the reclamation argument of publisher.h    *)
(* under reader-side reordering.  Then what the housekeeping pass          *)
(* establishes with its samples of render_seq_, on a sequentially          *)
(* consistent memory.  The engine's collect() is called with ~quiet        *)
(* whatever the device does afterwards, so QuietInv, on which the          *)
(* publisher's argument rests, does not hold of the engine.  Ownership     *)
(* does, and what replaces the rest is SettledInv: an object already       *)
(* retired when an even counter was sampled is in no block's hands then,   *)
(* and no block can load it any more.                                      *)
(*                                                                         *)
(* The snapshot slot is a sound sequence lock, for every number of words,  *)
(* retries, writes and reads, and with either freedom of its memory        *)
(* orders.  SnapshotIsSound is about the moment a read returns.  WriteInv  *)
(* says what the words hold at every moment of a write, CallInv and TryInv *)
(* what an attempt to read has established so far: its words are no older  *)
(* than the number it began with, and exactly that old while the number    *)
(* stands.                                                                 *)
(*                                                                         *)
(* A change of device is followed by the whole engine, for every set of    *)
(* devices and formats and every bound on the moves and the commands.      *)
(* DeviceIsFollowed speaks of a stream at rest and of two places of its    *)
(* threads; FollowInv says what each place in between relies on, as long   *)
(* as the three threads have not crossed: the thread that is busy has the  *)
(* stream, the configuration and the voices to itself.                     *)
(*                                                                         *)
(* The mixer that is rendered is the project's, for every set of tracks    *)
(* and inserts.  OnItsWay follows a description from the edit to the       *)
(* graph, KnobsOnTheirWay a knob from its turn through the queue to the    *)
(* instance.                                                               *)
(*                                                                         *)
(* What the engine is told of the document follows it, for any projects,   *)
(* patterns, tempos and edits, and any capacity of the command queue. A    *)
(* publish posts what differs from what was announced, never from what the *)
(* engine has. So both theorems rest on one invariant, InStep: what is     *)
(* announced is what is wanted; the queue, drained, leads the transport to *)
(* what is announced; and the schedule handed over is of what is shown,    *)
(* although the dirty flag may stay set over a preview.                    *)
(***************************************************************************)
EXTENDS EngineReclaim, SnapshotSlot, DeviceChange, MixerGraph, ModelPublish,
        FiniteSetTheorems, WellFoundedInduction, TLAPS

(* Published objects *)

(* What collect() may doom never meets what a block holds: the counter the *)
(* block itself has advanced.                                              *)
OwnEpoch == rt_epoch + unseenTicks

(* Ownership, strengthened: nothing owned is fresh, a publish() call owns  *)
(* its superseded pointer exactly while it runs, and that pointer is still *)
(* current_ only while the call's own store is landing.                    *)
Owned == ObjectsOf(retired) \cup doomed \cup freed

OwnerInv ==
  /\ current \notin fresh
  /\ Owned \cap fresh = {}
  /\ \A w \in Writers :
       /\ previous[w] \notin fresh
       /\ landing[w] \notin fresh
       /\ writerPc[w] = "idle" => previous[w] = NoObj
       /\ landing[w] # NoObj => landing[w] # current /\ landing[w] \notin Owned
       /\ previous[w] # NoObj /\ previous[w] = current => landing[w] # NoObj
  /\ \A v, w \in Writers :
       /\ landing[v] # NoObj => landing[v] # previous[w]
       /\ landing[v] # NoObj /\ landing[w] # NoObj => v = w

(* The device contract collect() relies on.                                *)
QuietInv ==
  /\ gcPc # "idle" /\ ~gcRunning => phase # "streaming"
  /\ phase # "streaming" => audioPc = "idle" /\ unseenTicks = 0
  /\ audioPc = "idle" => held = {}
  /\ gcPc = "idle" => doomed = {}

(* The epoch argument: whatever a block holds was superseded no earlier    *)
(* than one tick before the block's own, so it is never two ticks old.     *)
EpochInv ==
  /\ gcEpoch <= rt_epoch
  /\ held \cap (fresh \cup doomed \cup freed) = {}
  /\ \A r \in retired : r.object \in held => OwnEpoch <= r.epoch + 1
  /\ \A w \in Writers :
       /\ landing[w] = NoObj
       /\ writerPc[w] = "stamped" /\ previous[w] \in held => OwnEpoch <= stamp[w] + 1

InOrderEpochs == late = {} => EpochInv

-----------------------------------------------------------------------------
LEMMA TypeStep == TypeOK /\ [Next]_vars => TypeOK'
<1> SUFFICES ASSUME TypeOK, [Next]_vars
             PROVE  TypeOK'
  OBVIOUS
<1> USE BoundsAssumption, NoObjAssumption
    DEF TypeOK, Pointer, Record, pointerVars, epochVars, writerVars, audioVars,
        gcVars, deviceVars
<1>audio. CASE Audio
  BY <1>audio DEF Audio, BeginBlock, TickLands, Acquire, EndBlock
<1>publish. ASSUME NEW w \in Writers, Publish(w)
      PROVE  TypeOK'
  <2>1. ASSUME NEW o \in Objs, Exchange(w, o)
        PROVE  TypeOK'
    BY <2>1 DEF Exchange, NothingSuperseded
  <2>2. CASE ExchangeLands(w)
    BY <2>2 DEF ExchangeLands
  <2>3. CASE ReadEpoch(w)
    BY <2>3 DEF ReadEpoch
  <2>4. CASE Retire(w)
    BY <2>4 DEF Retire
  <2>5. QED
    BY <1>publish, <2>1, <2>2, <2>3, <2>4 DEF Publish
<1>collect. CASE Collect
  <2>1. ASSUME NEW renders \in BOOLEAN, LoadEpoch(renders)
        PROVE  TypeOK'
    BY <2>1 DEF LoadEpoch
  <2>2. CASE TakeExpired
    BY <2>2 DEF TakeExpired, ObjectsOf
  <2>3. CASE FreeDoomed
    BY <2>3 DEF FreeDoomed
  <2>4. QED
    BY <1>collect, <2>1, <2>2, <2>3 DEF Collect
<1>device. CASE Device
  <2>1. CASE StartDevice
    BY <2>1 DEF StartDevice
  <2>2. CASE StopDevice
    BY <2>2 DEF StopDevice
  <2>3. CASE Destroy
    BY <2>3 DEF Destroy, ObjectsOf
  <2>4. QED
    BY <1>device, <2>1, <2>2, <2>3 DEF Device
<1>stutter. CASE UNCHANGED vars
  BY <1>stutter DEF vars
<1> QED
  BY <1>audio, <1>publish, <1>collect, <1>device, <1>stutter DEF Next

(* Every variable keeps its type: counters stay under their bounds, and no *)
(* step of publish(), collect() or a block leaves a variable undefined.    *)
THEOREM TypeCorrect == Spec => []TypeOK
<1>1. Init => TypeOK
  BY BoundsAssumption DEF Init, TypeOK, Pointer
<1>2. QED
  BY <1>1, TypeStep, PTL DEF Spec

-----------------------------------------------------------------------------
LEMMA OwnershipStep ==
  TypeOK /\ SoleOwner /\ OwnerInv /\ [Next]_vars => (SoleOwner /\ OwnerInv)'
<1> SUFFICES ASSUME TypeOK, SoleOwner, OwnerInv, [Next]_vars
             PROVE  (SoleOwner /\ OwnerInv)'
  OBVIOUS
<1> USE NoObjAssumption
    DEF TypeOK, SoleOwner, OwnerInv, Owned, ObjectsOf, Pointer, Record,
        pointerVars, epochVars, writerVars, audioVars, gcVars, deviceVars
<1>audio. CASE Audio
  BY <1>audio DEF Audio, BeginBlock, TickLands, Acquire, EndBlock
<1>publish. ASSUME NEW w \in Writers, Publish(w)
      PROVE  (SoleOwner /\ OwnerInv)'
  <2>1. ASSUME NEW o \in Objs, Exchange(w, o)
        PROVE  (SoleOwner /\ OwnerInv)'
    BY <2>1 DEF Exchange, NothingSuperseded
  <2>2. CASE ExchangeLands(w)
    BY <2>2 DEF ExchangeLands
  <2>3. CASE ReadEpoch(w)
    BY <2>3 DEF ReadEpoch
  <2>4. CASE Retire(w)
    BY <2>4 DEF Retire
  <2>5. QED
    BY <1>publish, <2>1, <2>2, <2>3, <2>4 DEF Publish
<1>collect. CASE Collect
  <2>1. ASSUME NEW renders \in BOOLEAN, LoadEpoch(renders)
        PROVE  (SoleOwner /\ OwnerInv)'
    BY <2>1 DEF LoadEpoch
  <2>2. CASE TakeExpired
    BY <2>2 DEF TakeExpired
  <2>3. CASE FreeDoomed
    BY <2>3 DEF FreeDoomed
  <2>4. QED
    BY <1>collect, <2>1, <2>2, <2>3 DEF Collect
<1>device. CASE Device
  BY <1>device DEF Device, StartDevice, StopDevice, Destroy
<1>stutter. CASE UNCHANGED vars
  BY <1>stutter DEF vars
<1> QED
  BY <1>audio, <1>publish, <1>collect, <1>device, <1>stutter DEF Next

(* Single ownership: no superseded object is owned twice or freed twice,   *)
(* whatever the interleaving of publish() calls and collect(), and also    *)
(* when the exchanged pointer is seen late.                                *)
THEOREM Ownership == Spec => []SoleOwner
<1>1. Init => SoleOwner /\ OwnerInv
  BY NoObjAssumption DEF Init, SoleOwner, OwnerInv, Owned, ObjectsOf
<1>2. QED
  BY <1>1, OwnershipStep, TypeCorrect, PTL DEF Spec

-----------------------------------------------------------------------------
LEMMA QuietStep == TypeOK /\ QuietInv /\ [Next]_vars => QuietInv'
<1> SUFFICES ASSUME TypeOK, QuietInv, [Next]_vars
             PROVE  QuietInv'
  OBVIOUS
<1> USE DEF TypeOK, QuietInv, pointerVars, epochVars, writerVars, audioVars, gcVars,
            deviceVars
<1>audio. CASE Audio
  BY <1>audio DEF Audio, BeginBlock, TickLands, Acquire, EndBlock
<1>publish. CASE \E w \in Writers : Publish(w)
  BY <1>publish DEF Publish, Exchange, NothingSuperseded, ExchangeLands, ReadEpoch, Retire
<1>collect. CASE Collect
  BY <1>collect DEF Collect, BlocksMayRun, LoadEpoch, TakeExpired, FreeDoomed
<1>device. CASE Device
  BY <1>device DEF Device, CollectorWaits, StartDevice, StopDevice, Destroy
<1>stutter. CASE UNCHANGED vars
  BY <1>stutter DEF vars
<1> QED
  BY <1>audio, <1>publish, <1>collect, <1>device, <1>stutter DEF Next

(* The step of the reclamation proof in publisher.h: an object leaves a    *)
(* block's reach before its record can expire.                             *)
LEMMA EpochStep ==
  TypeOK /\ SoleOwner /\ OwnerInv /\ QuietInv /\ EpochInv /\ [Next]_vars /\ late' = {}
    => EpochInv'
<1> SUFFICES ASSUME TypeOK, SoleOwner, OwnerInv, QuietInv, EpochInv, [Next]_vars, late' = {}
             PROVE  EpochInv'
  OBVIOUS
<1> USE NoObjAssumption, BoundsAssumption
    DEF TypeOK, EpochInv, OwnEpoch, Pointer, Record,
        pointerVars, epochVars, writerVars, audioVars, gcVars, deviceVars
<1>audio. CASE Audio
  <2>1. CASE BeginBlock
    BY <2>1 DEF BeginBlock, QuietInv
  <2>2. CASE TickLands
    BY <2>2 DEF TickLands
  <2>3. CASE Acquire
    <3>1. current \notin ObjectsOf(retired) \cup doomed \cup freed \cup fresh
      BY DEF SoleOwner, OwnerInv
    <3>2. \A w \in Writers : writerPc[w] = "stamped" => previous[w] # current
      BY DEF OwnerInv
    <3>3. QED
      BY <2>3, <3>1, <3>2 DEF Acquire, ObjectsOf
  <2>4. CASE EndBlock
    BY <2>4 DEF EndBlock
  <2>5. QED
    BY <1>audio, <2>1, <2>2, <2>3, <2>4 DEF Audio
<1>publish. ASSUME NEW w \in Writers, Publish(w)
      PROVE  EpochInv'
  <2>1. ASSUME NEW o \in Objs, Exchange(w, o)
        PROVE  EpochInv'
    BY <2>1 DEF Exchange, NothingSuperseded
  <2>2. CASE ExchangeLands(w)
    BY <2>2 DEF ExchangeLands
  <2>3. CASE ReadEpoch(w)
    BY <2>3 DEF ReadEpoch
  <2>4. CASE Retire(w)
    BY <2>4 DEF Retire
  <2>5. QED
    BY <1>publish, <2>1, <2>2, <2>3, <2>4 DEF Publish
<1>collect. CASE Collect
  <2>1. ASSUME NEW renders \in BOOLEAN, LoadEpoch(renders)
        PROVE  EpochInv'
    BY <2>1 DEF LoadEpoch
  <2>2. CASE TakeExpired
    <3>1. \A r \in retired : Expired(r) => r.object \notin held
      BY <2>2 DEF TakeExpired, Expired, QuietInv
    <3>2. QED
      BY <2>2, <3>1 DEF TakeExpired, ObjectsOf
  <2>3. CASE FreeDoomed
    BY <2>3 DEF FreeDoomed
  <2>4. QED
    BY <1>collect, <2>1, <2>2, <2>3 DEF Collect
<1>device. CASE Device
  BY <1>device DEF Device, StartDevice, StopDevice, Destroy, QuietInv, ObjectsOf
<1>stutter. CASE UNCHANGED vars
  BY <1>stutter DEF vars
<1> QED
  BY <1>audio, <1>publish, <1>collect, <1>device, <1>stutter DEF Next

LEMMA LateStays == [Next]_vars => late \subseteq late'
BY DEF Next, Audio, BeginBlock, TickLands, Acquire, EndBlock, Publish, Exchange,
       ExchangeLands, ReadEpoch, Retire, Collect, LoadEpoch, TakeExpired, FreeDoomed,
       Device, StartDevice, StopDevice, Destroy, vars, pointerVars

(* Reclamation is safe: no object is freed while a block that loaded it is *)
(* still running, for any number of publishing threads, any interleaving   *)
(* and any delay of the audio thread's epoch store, as long as every       *)
(* exchange was seen before its publish() read the epoch.                  *)
THEOREM Reclamation == Spec => []HeldAliveInOrder
<1>1. Init => SoleOwner /\ OwnerInv /\ QuietInv /\ InOrderEpochs
  BY NoObjAssumption, BoundsAssumption
     DEF Init, SoleOwner, OwnerInv, Owned, ObjectsOf, QuietInv, InOrderEpochs, EpochInv, OwnEpoch
<1>2. InOrderEpochs => HeldAliveInOrder
  BY DEF InOrderEpochs, EpochInv, HeldAlive, HeldAliveInOrder
<1>3. TypeOK /\ SoleOwner /\ OwnerInv /\ QuietInv /\ InOrderEpochs /\ [Next]_vars => InOrderEpochs'
  <2> SUFFICES ASSUME TypeOK, SoleOwner, OwnerInv, QuietInv, InOrderEpochs, [Next]_vars, late' = {}
               PROVE  EpochInv'
    BY DEF InOrderEpochs
  <2>1. EpochInv
    BY LateStays DEF InOrderEpochs
  <2>2. QED
    BY <2>1, EpochStep
<1>4. QED
  BY <1>1, <1>2, <1>3, OwnershipStep, QuietStep, TypeCorrect, PTL DEF Spec

(* A block never loads an object once its retirement is on record: the     *)
(* retire list only shrinks what the audio thread can reach.               *)
THEOREM NoLateAcquire == Spec => NeverAcquiresRetired
<1>1. SoleOwner /\ [Next]_vars
      => [(held' \ held) \cap (ObjectsOf(retired) \cup doomed \cup freed) = {}]_vars
  <2> SUFFICES ASSUME SoleOwner, Next
               PROVE  (held' \ held) \cap (ObjectsOf(retired) \cup doomed \cup freed) = {}
    OBVIOUS
  <2> USE DEF audioVars
  <2>1. CASE Acquire
    BY <2>1 DEF Acquire, SoleOwner
  <2>2. CASE Audio /\ ~Acquire
    BY <2>2 DEF Audio, BeginBlock, TickLands, EndBlock
  <2>3. CASE \E w \in Writers : Publish(w)
    BY <2>3 DEF Publish, Exchange, NothingSuperseded, ExchangeLands, ReadEpoch, Retire
  <2>4. CASE Collect \/ Device
    BY <2>4 DEF Collect, LoadEpoch, TakeExpired, FreeDoomed, Device, StartDevice,
                StopDevice, Destroy
  <2>5. QED
    BY <2>1, <2>2, <2>3, <2>4 DEF Next
<1>2. QED
  BY <1>1, Ownership, PTL DEF Spec, NeverAcquiresRetired
-----------------------------------------------------------------------------
(* Every object published is still somewhere, until the destructor has     *)
(* freed them all and nothing is under way any more.                       *)
InHand(o) == o = current \/ o \in Owned \/ \E w \in Writers : o \in {landing[w], previous[w]}

AccountInv ==
  /\ \A w \in Writers : landing[w] # NoObj => previous[w] = current
  /\ gcPc # "freeing" => doomed = {}
  /\ phase # "destroyed" => \A o \in Published : InHand(o)
  /\ phase = "destroyed" =>
       /\ freed = Published /\ gcPc = "idle"
       /\ \A w \in Writers : landing[w] = NoObj /\ writerPc[w] = "idle"

LEMMA AccountStep ==
  TypeOK /\ SoleOwner /\ OwnerInv /\ QuietInv /\ AccountInv /\ [Next]_vars => AccountInv'
<1> SUFFICES ASSUME TypeOK, SoleOwner, OwnerInv, QuietInv, AccountInv, [Next]_vars
             PROVE  AccountInv'
  OBVIOUS
<1> USE NoObjAssumption
    DEF TypeOK, AccountInv, InHand, Owned, ObjectsOf, Published, Pointer, Record,
        pointerVars, epochVars, writerVars, audioVars, gcVars, deviceVars
<1>audio. CASE Audio
  BY <1>audio DEF Audio, BeginBlock, TickLands, Acquire, EndBlock
<1>publish. ASSUME NEW w \in Writers, Publish(w)
      PROVE  AccountInv'
  <2>1. ASSUME NEW o \in Objs, Exchange(w, o)
        PROVE  AccountInv'
    BY <2>1 DEF Exchange, NothingSuperseded, OwnerInv
  <2>2. CASE ExchangeLands(w)
    BY <2>2 DEF ExchangeLands, OwnerInv
  <2>3. CASE ReadEpoch(w)
    BY <2>3 DEF ReadEpoch
  <2>4. CASE Retire(w)
    <3>1. previous[w] \in Owned' /\ Owned \subseteq Owned'
      <4> DEFINE record == [object |-> previous[w], epoch |-> stamp[w]]
      <4>1. record \in retired' /\ record.object = previous[w] /\ retired \subseteq retired'
        BY <2>4 DEF Retire
      <4>2. UNCHANGED <<doomed, freed>>
        BY <2>4 DEF Retire
      <4> HIDE DEF record
      <4>3. QED
        BY <4>1, <4>2
    <3>2. \A v \in Writers : v # w => previous'[v] = previous[v]
      BY <2>4 DEF Retire
    <3>3. QED
      BY <2>4, <3>1, <3>2 DEF Retire
  <2>5. QED
    BY <1>publish, <2>1, <2>2, <2>3, <2>4 DEF Publish
<1>collect. CASE Collect
  <2>1. ASSUME NEW renders \in BOOLEAN, LoadEpoch(renders)
        PROVE  AccountInv'
    BY <2>1 DEF LoadEpoch
  <2>2. CASE TakeExpired
    <3>1. Owned \subseteq Owned'
      BY <2>2 DEF TakeExpired
    <3>2. QED
      BY <2>2, <3>1 DEF TakeExpired
  <2>3. CASE FreeDoomed
    <3>1. Owned' = Owned
      BY <2>3 DEF FreeDoomed
    <3>2. QED
      BY <2>3, <3>1 DEF FreeDoomed
  <2>4. QED
    BY <1>collect, <2>1, <2>2, <2>3 DEF Collect
<1>device. CASE Device
  <2>1. CASE StartDevice \/ StopDevice
    BY <2>1 DEF StartDevice, StopDevice
  <2>2. CASE Destroy
    BY <2>2 DEF Destroy, OwnerInv, QuietInv
  <2>3. QED
    BY <1>device, <2>1, <2>2 DEF Device
<1>stutter. CASE UNCHANGED vars
  BY <1>stutter DEF vars
<1> QED
  BY <1>audio, <1>publish, <1>collect, <1>device, <1>stutter DEF Next

(* Every published object is freed once, by the one that owns it, and when *)
(* the publisher is destroyed none is left: the retired list, the current  *)
(* pointer and what calls have in hand account for all of them.            *)
THEOREM FreedOnce == Spec => []FreedOnceAndAll
<1>1. Init => SoleOwner /\ OwnerInv /\ QuietInv /\ AccountInv
  BY NoObjAssumption
     DEF Init, SoleOwner, OwnerInv, QuietInv, AccountInv, Owned, ObjectsOf, Published
<1>2. AccountInv => NothingLeaks
  BY DEF AccountInv, NothingLeaks
<1>3. QED
  BY <1>1, <1>2, OwnershipStep, QuietStep, AccountStep, TypeCorrect, PTL
     DEF Spec, FreedOnceAndAll

-----------------------------------------------------------------------------

(* Every block counts render_seq_ twice and rt_epoch_ once.                *)
CountInv ==
  /\ render_seq \in Nat
  /\ processPc = "outside" => render_seq = 2 * rt_epoch
  /\ processPc = "entered" => render_seq = 2 * rt_epoch + 1 /\ rt_epoch < MaxEpoch
  /\ processPc = "rendering" => render_seq + 1 = 2 * rt_epoch
  /\ seqSeen \in Nat /\ seqSeen <= render_seq
  /\ last_render_seq \in Nat /\ last_render_seq <= render_seq

(* Who may render, and who does.                                           *)
DriverInv ==
  /\ driver \in {"none", "device", "offline"}
  /\ phase = IF driver = "none" THEN "stopped" ELSE "streaming"
  /\ running \in BOOLEAN /\ (running => driver = "device")
  /\ controlPc \in {"idle", "starting", "stopping"}
  /\ controlPc = "starting" => driver = "device"
  /\ controlPc = "stopping" => ~running
  /\ processPc \in {"outside", "entered", "rendering"}
  /\ processPc # "outside" => driver # "none"
  /\ (processPc = "rendering") = (audioPc = "block")
  /\ audioPc = "idle" => held = {}
  /\ hkPc \in {"idle", "sampled", "decided"} /\ quiet \in BOOLEAN

(* The epoch argument of EpochInv, without the contract of a quiet         *)
(* device.                                                                 *)
HeldInv ==
  /\ late = {} /\ unseenTicks = 0 /\ (\A w \in Writers : landing[w] = NoObj)
  /\ gcEpoch <= rt_epoch
  /\ held \cap fresh = {}
  /\ gcPc # "freeing" => doomed = {}
  /\ gcRunning => held \cap doomed = {}
  /\ \A r \in retired : r.object \in held => rt_epoch <= r.epoch + 1
  /\ \A w \in Writers :
       writerPc[w] = "stamped" /\ previous[w] \in held => rt_epoch <= stamp[w] + 1

(* What the pass found settled is out of reach from an even sample on, as  *)
(* long as the pass or its collect() relies on it.                         *)
Relied ==
  \/ hkPc = "sampled" /\ seqSeen % 2 = 0
  \/ hkPc = "decided" /\ quiet
  \/ gcPc # "idle" /\ ~gcRunning

SettledInv ==
  /\ settled \subseteq Owned
  /\ Relied => settled \cap held = {}

EngineInv ==
  /\ TypeOK /\ SoleOwner /\ OwnerInv
  /\ CountInv /\ DriverInv /\ HeldInv /\ SettledInv /\ SettledIsSafe

-----------------------------------------------------------------------------
LEMMA EngineInitEstablishes == EngineInit => EngineInv
<1> SUFFICES ASSUME EngineInit PROVE EngineInv
  OBVIOUS
<1>1. TypeOK
  BY BoundsAssumption DEF EngineInit, Init, TypeOK, Pointer
<1>2. SoleOwner /\ OwnerInv
  BY NoObjAssumption DEF EngineInit, Init, SoleOwner, OwnerInv, Owned, ObjectsOf
<1>3. CountInv /\ DriverInv
  <2>1. CountInv
    BY DEF EngineInit, Init, CountInv
  <2>2. DriverInv
    BY DEF EngineInit, Init, DriverInv
  <2> QED
    BY <2>1, <2>2
<1>4. HeldInv
  BY DEF EngineInit, Init, HeldInv
<1>5. SettledInv /\ SettledIsSafe
  BY DEF EngineInit, Init, SettledInv, SettledIsSafe
<1> QED
  BY <1>1, <1>2, <1>3, <1>4, <1>5 DEF EngineInv

(* A step of the engine is one of the publisher's, but for the answer the  *)
(* collector is given and the start the collector does not wait for; and   *)
(* neither moves an object.                                                *)
LEMMA EngineOwnership ==
  ASSUME EngineInv, [EngineNext]_allVars
  PROVE  (TypeOK /\ SoleOwner /\ OwnerInv)'
<1>1. CASE [Next]_vars
  BY <1>1, TypeStep, OwnershipStep DEF EngineInv
<1>2. CASE StartDevice
  BY <1>2, BoundsAssumption
  DEF StartDevice, EngineInv, TypeOK, SoleOwner, OwnerInv, Owned, ObjectsOf, pointerVars,
      epochVars, writerVars, audioVars, gcVars
<1>3. CASE LoadEpoch(~quiet)
  BY <1>3
  DEF LoadEpoch, EngineInv, TypeOK, SoleOwner, OwnerInv, Owned, ObjectsOf, pointerVars,
      epochVars, writerVars, audioVars, gcVars, deviceVars
<1>4. BlockBegins => Next
  BY DEF BlockBegins, Next, Audio, EngineInv, DriverInv
<1> QED
  BY <1>1, <1>2, <1>3, <1>4
  DEF EngineNext, Render, Control, Export, Pass, EnterProcess, BlockAcquires, LeaveProcess,
      StartBegins, StartEnds, StopBegins, StopEnds, OfflineBegins, OfflineEnds, SampleRender,
      SampleRunning, PassCollects, PassTakes, PassFrees, Next, Audio, Collect, Device, allVars

LEMMA EngineCounts ==
  ASSUME EngineInv, [EngineNext]_allVars, ~RelaxedReader
  PROVE  CountInv' /\ DriverInv'
<1> USE BoundsAssumption
    DEF EngineInv, TypeOK, CountInv, DriverInv, renderVars, controlVars, passVars, engineVars,
        epochVars, audioVars, deviceVars
<1>1. CASE EnterProcess
  BY <1>1 DEF EnterProcess, vars
<1>2. CASE BlockBegins
  BY <1>2 DEF BlockBegins, BeginBlock, HeldInv
<1>3. CASE BlockAcquires
  BY <1>3 DEF BlockAcquires, Acquire
<1>4. CASE LeaveProcess
  BY <1>4 DEF LeaveProcess, EndBlock
<1>5. CASE Control \/ Export
  <2>1. UNCHANGED <<renderVars, passVars, rt_epoch, audioVars>>
    BY <1>5
    DEF Control, Export, StartBegins, StartEnds, StopBegins, StopEnds, OfflineBegins,
        OfflineEnds, StartDevice, StopDevice, vars
  <2>2. CountInv'
    BY <2>1
  <2>3. CASE StartBegins \/ OfflineBegins
    BY <2>1, <2>2, <2>3 DEF StartBegins, OfflineBegins, StartDevice
  <2>4. CASE StopEnds \/ OfflineEnds
    BY <2>1, <2>2, <2>4 DEF StopEnds, OfflineEnds, StopDevice
  <2>5. CASE StartEnds \/ StopBegins
    BY <2>1, <2>2, <2>5 DEF StartEnds, StopBegins, vars
  <2> QED
    BY <1>5, <2>3, <2>4, <2>5 DEF Control, Export
<1>6. CASE SampleRender \/ SampleRunning
  <2>1. /\ seqSeen' \in {seqSeen, render_seq} /\ last_render_seq' \in {last_render_seq, seqSeen}
        /\ hkPc' \in {"sampled", "decided"} /\ quiet' \in BOOLEAN
        /\ UNCHANGED <<vars, renderVars, controlVars>>
    BY <1>6 DEF SampleRender, SampleRunning, Quiet
  <2> QED
    BY <2>1 DEF vars
<1>7. CASE PassCollects \/ PassTakes \/ PassFrees
  BY <1>7 DEF PassCollects, PassTakes, PassFrees, LoadEpoch, TakeExpired, FreeDoomed
<1>8. ASSUME NEW w \in Writers, Publish(w), UNCHANGED engineVars
      PROVE  CountInv' /\ DriverInv'
  BY <1>8 DEF Publish, Exchange, ExchangeLands, ReadEpoch, Retire
<1>9. CASE UNCHANGED allVars
  BY <1>9 DEF allVars, vars
<1> QED
  BY <1>1, <1>2, <1>3, <1>4, <1>5, <1>6, <1>7, <1>8, <1>9 DEF EngineNext, Render, Pass

LEMMA EngineHolds ==
  ASSUME EngineInv, [EngineNext]_allVars, ~RelaxedReader, ~RelaxedWriter
  PROVE  HeldInv' /\ SettledInv' /\ SettledIsSafe'
<1> USE BoundsAssumption, NoObjAssumption
    DEF EngineInv, TypeOK, HeldInv, SettledInv, SettledIsSafe, Relied, Owned, ObjectsOf, Pointer,
        Record, renderVars, controlVars, passVars, engineVars, pointerVars, epochVars,
        writerVars, audioVars, gcVars, deviceVars
<1>1. CASE EnterProcess
  BY <1>1 DEF EnterProcess, vars
<1>2. CASE BlockBegins
  BY <1>2 DEF BlockBegins, BeginBlock, DriverInv
<1>3. CASE BlockAcquires
  <2>1. current \notin Owned \cup fresh
    BY DEF SoleOwner, OwnerInv
  <2>2. \A w \in Writers : writerPc[w] = "stamped" => previous[w] # current
    BY DEF OwnerInv
  <2> QED
    BY <1>3, <2>1, <2>2 DEF BlockAcquires, Acquire
<1>4. CASE LeaveProcess
  BY <1>4 DEF LeaveProcess, EndBlock
<1>5. CASE Control \/ Export
  BY <1>5
  DEF Control, Export, StartBegins, StartEnds, StopBegins, StopEnds, OfflineBegins, OfflineEnds,
      StartDevice, StopDevice, vars
<1>6. CASE SampleRender
  <2>1. seqSeen' % 2 = 0 => held = {}
    BY <1>6 DEF SampleRender, CountInv, DriverInv
  <2> QED
    BY <1>6, <2>1 DEF SampleRender, vars
<1>7. CASE SampleRunning
  <2>1. hkPc = "sampled" /\ hkPc' = "decided" /\ UNCHANGED <<vars, settled, exposed>>
    BY <1>7 DEF SampleRunning
  <2>2. quiet' => seqSeen % 2 = 0
    BY <1>7 DEF SampleRunning, Quiet
  <2> QED
    BY <2>1, <2>2 DEF vars
<1>8. CASE PassCollects
  <2>1. ~gcRunning' => quiet
    BY <1>8 DEF PassCollects, LoadEpoch, DriverInv
  <2>2. doomed' = {}
    BY <1>8 DEF PassCollects, LoadEpoch
  <2>3. hkPc = "decided" /\ hkPc' = "idle" /\ gcEpoch' = rt_epoch
        /\ UNCHANGED <<settled, exposed, pointerVars, epochVars, retired, writerVars, audioVars,
                       freed, doomed>>
    BY <1>8 DEF PassCollects, LoadEpoch
  <2> QED
    BY <2>1, <2>2, <2>3
<1>9. CASE PassTakes
  <2>1. \A r \in retired : gcRunning /\ Expired(r) => r.object \notin held
    BY <1>9 DEF Expired
  <2> QED
    BY <1>9, <2>1 DEF PassTakes, TakeExpired
<1>10. CASE PassFrees
  BY <1>10 DEF PassFrees, FreeDoomed
<1>11. ASSUME NEW w \in Writers, Publish(w), UNCHANGED engineVars
       PROVE  HeldInv' /\ SettledInv' /\ SettledIsSafe'
  <2>1. ASSUME NEW o \in Objs, Exchange(w, o)
        PROVE  HeldInv' /\ SettledInv' /\ SettledIsSafe'
    BY <1>11, <2>1 DEF Exchange
  <2>2. CASE ReadEpoch(w)
    BY <1>11, <2>2 DEF ReadEpoch
  <2>3. CASE Retire(w)
    BY <1>11, <2>3 DEF Retire
  <2> QED
    BY <1>11, <2>1, <2>2, <2>3 DEF Publish, ExchangeLands
<1>12. CASE UNCHANGED allVars
  BY <1>12 DEF allVars, vars
<1> QED
  BY <1>1, <1>2, <1>3, <1>4, <1>5, <1>6, <1>7, <1>8, <1>9, <1>10, <1>11, <1>12
  DEF EngineNext, Render, Pass

(* The housekeeping pass frees an object under the block that holds it     *)
(* only if the object was retired after the pass had sampled render_seq_:  *)
(* with the epochs while the device runs, and on two equal, even samples   *)
(* while it does not, whoever starts or renders in between.                *)
THEOREM ReclaimIsSafe ==
  ASSUME ~RelaxedReader, ~RelaxedWriter
  PROVE  EngineSpec => []ReclaimsSafely
<1>1. EngineInv /\ [EngineNext]_allVars => EngineInv'
  BY EngineOwnership, EngineCounts, EngineHolds DEF EngineInv
<1>2. EngineInv => ReclaimsSafely
  BY BoundsAssumption
  DEF EngineInv, ReclaimsSafely, EngineTypeOK, TypeOK, CountInv, DriverInv
<1> QED
  BY <1>1, <1>2, EngineInitEstablishes, PTL DEF EngineSpec

-----------------------------------------------------------------------------
(* The snapshot *)

SlotTypes ==
  /\ sequence \in Nat /\ words \in [Word -> Nat]
  /\ writes \in Nat /\ pending \subseteq Word \cup {0}
  /\ before \in Nat /\ after \in Nat
  /\ missing \subseteq Word \cup {0} /\ copy \in [Word -> Nat]
  /\ floor \in Nat
  /\ disturbed \in BOOLEAN /\ reordered \in BOOLEAN

(* A word that has not landed is of the write before.  Unless a store      *)
(* passed the odd number, none has landed before it.                       *)
WriteInv ==
  /\ sequence \in {2 * writes, 2 * writes - 1, 2 * writes - 2}
  /\ pending # {} => writes > 0
  /\ sequence = 2 * writes => pending = {}
  /\ sequence = 2 * writes - 2 => 0 \in pending
  /\ sequence = 2 * writes - 1 => 0 \notin pending /\ writes > 0
  /\ \A w \in Word : words[w] = IF w \in pending THEN writes - 1 ELSE writes
  /\ reordered \/ 0 \notin pending \/ Word \subseteq pending

InCall == readPc \in {"before", "words"}

(* What holds while read() is being called.                                *)
CallInv ==
  /\ InCall => 2 * floor <= sequence
  /\ InCall /\ ~disturbed => sequence = 2 * writes
  /\ readPc = "failed" => disturbed \/ writes = 0
  /\ readPc \in {"words", "copied"} => 2 * floor <= before

(* What an attempt has loaded.                                             *)
TryInv ==
  /\ readPc = "words" => before % 2 = 0 /\ before <= sequence
  /\ readPc = "words" /\ ~disturbed =>
       before = sequence /\ (0 \notin missing => after = before)
  /\ readPc \in {"words", "copied"} =>
       \A w \in Word \ missing : before <= 2 * copy[w]
  /\ readPc = "words" /\ ~reordered /\ (IF 0 \in missing THEN sequence ELSE after) = before =>
       \A w \in Word \ missing : 2 * copy[w] = before
  /\ readPc = "copied" => missing = {}
  /\ readPc = "copied" /\ ~reordered => \A w \in Word : 2 * copy[w] = before

SlotInv == SlotTypes /\ WriteInv /\ CallInv /\ TryInv

-----------------------------------------------------------------------------
LEMMA NoWordIsZero == 0 \notin Word /\ Word \subseteq Nat /\ 1 \in Word
BY SlotAssumption DEF Word

(* A word is never older than a number that was even when it was stored.   *)
LEMMA WordsFollowNumber ==
  ASSUME SlotTypes, WriteInv, NEW n \in Nat, n % 2 = 0, n <= sequence, NEW w \in Word
  PROVE  n <= 2 * words[w]
<1>1. words[w] \in Nat /\ (words[w] = writes \/ words[w] = writes - 1)
  BY DEF SlotTypes, WriteInv
<1>2. CASE sequence = 2 * writes
  BY <1>2 DEF SlotTypes, WriteInv
<1>3. CASE sequence # 2 * writes
  BY <1>1, <1>3 DEF SlotTypes, WriteInv
<1> QED
  BY <1>2, <1>3

(* While the number is even the words are of that number, unless one of    *)
(* them passed the odd one.                                                *)
LEMMA EvenMeansWhole ==
  ASSUME SlotTypes, WriteInv, ~reordered, sequence % 2 = 0, NEW w \in Word
  PROVE  2 * words[w] = sequence
BY NoWordIsZero DEF SlotTypes, WriteInv

LEMMA SlotInitEstablishes == SlotInit => SlotInv
<1> SUFFICES ASSUME SlotInit PROVE SlotInv
  OBVIOUS
<1> USE SlotAssumption, NoWordIsZero DEF SlotInit
<1>1. SlotTypes
  BY DEF SlotTypes
<1>2. WriteInv
  BY DEF WriteInv
<1>3. CallInv
  BY DEF CallInv, InCall
<1>4. TryInv
  BY DEF TryInv
<1> QED
  BY <1>1, <1>2, <1>3, <1>4 DEF SlotInv

LEMMA WriteKeeps ==
  ASSUME SlotInv, Write
  PROVE  SlotInv'
<1> USE SlotAssumption, NoWordIsZero
    DEF SlotInv, SlotTypes, WriteInv, CallInv, TryInv, InCall, slotVars, writeVars, tryVars,
        callVars, Odd
<1>1. CASE WriteBegins
  BY <1>1 DEF WriteBegins, Writing
<1>2. CASE OddLands
  BY <1>2 DEF OddLands
<1>3. ASSUME NEW w \in Word, WordLands(w)
      PROVE  SlotInv'
  BY <1>3 DEF WordLands
<1>4. CASE EvenLands
  BY <1>4 DEF EvenLands, Writing
<1> QED
  BY <1>1, <1>2, <1>3, <1>4 DEF Write

LEMMA ReadKeeps ==
  ASSUME SlotInv, Read
  PROVE  SlotInv'
<1> USE SlotAssumption, NoWordIsZero
    DEF SlotInv, SlotTypes, CallInv, TryInv, InCall, slotVars, writeVars, tryVars, callVars,
        After, TriesAgain, Returns, InProgress
<1>0. UNCHANGED <<slotVars, writeVars>>
  BY DEF Read, ReadBegins, LoadBefore, LoadWord, LoadAfter, Compare, CallerResumes
<1>a. reordered => reordered'
  BY DEF Read, ReadBegins, LoadBefore, LoadWord, LoadAfter, Compare, CallerResumes
<1>1. WriteInv'
  BY <1>0, <1>a DEF WriteInv
<1>2. CASE ReadBegins
  <2>1. SlotTypes'
    BY <1>2 DEF ReadBegins, Writing, WriteInv
  <2>a. readPc' = "before" /\ sequence' = sequence /\ writes' = writes
    BY <1>2 DEF ReadBegins
  <2>b. ~disturbed' => sequence = 2 * writes
    BY <1>2, Zenon DEF ReadBegins, Writing
  <2>c. 2 * floor' <= sequence
    <3>1. CASE sequence = 2 * writes
      BY <1>2, <3>1 DEF ReadBegins, Writing
    <3>2. CASE sequence # 2 * writes
      <4>1. floor' = writes - 1
        BY <1>2, <3>2 DEF ReadBegins, Writing
      <4> QED
        BY <3>2, <4>1 DEF WriteInv
    <3> QED
      BY <3>1, <3>2
  <2>2. CallInv'
    BY <2>a, <2>b, <2>c
  <2>3. TryInv'
    BY <1>2 DEF ReadBegins
  <2> QED
    BY <1>1, <2>1, <2>2, <2>3
<1>3. CASE LoadBefore
  <2>0. SlotTypes'
    BY <1>3 DEF LoadBefore
  <2>1. CASE readPc' = "words"
    <3>1. missing' = Word \cup {0} /\ before' = sequence /\ sequence % 2 = 0
      BY <1>3, <2>1 DEF LoadBefore
    <3>2. floor' = floor /\ disturbed' = disturbed /\ sequence' = sequence /\ writes' = writes
      BY <1>3, <2>1 DEF LoadBefore
    <3>3. CallInv'
      BY <1>3, <2>1, <3>1, <3>2 DEF LoadBefore
    <3>4. TryInv'
      BY <2>0, <2>1, <3>1, <3>2
    <3> QED
      BY <1>1, <2>0, <3>3, <3>4
  <2>2. CASE readPc' = "before"
    <3>1. floor' = floor /\ disturbed' = disturbed /\ sequence' = sequence /\ writes' = writes
      BY <1>3, <2>2 DEF LoadBefore
    <3> QED
      BY <1>1, <1>3, <2>0, <2>2, <3>1 DEF LoadBefore
  <2>3. CASE readPc' = "failed"
    <3>1. disturbed' = disturbed /\ sequence' = sequence /\ writes' = writes
      BY <1>3, <2>3 DEF LoadBefore
    <3>2. sequence = 0 \/ sequence % 2 = 1
      BY <1>3, <2>3 DEF LoadBefore
    <3>3. disturbed \/ writes = 0
      BY <1>3, <3>2 DEF LoadBefore, WriteInv
    <3> QED
      BY <1>1, <2>0, <2>3, <3>1, <3>3
  <2> QED
    BY <1>3, <2>1, <2>2, <2>3 DEF LoadBefore
<1>4. ASSUME NEW w \in Word, LoadWord(w)
      PROVE  SlotInv'
  BY <1>1, <1>4, WordsFollowNumber, EvenMeansWhole DEF LoadWord
<1>5. CASE LoadAfter
  BY <1>1, <1>5 DEF LoadAfter
<1>6. CASE Compare
  BY <1>1, <1>6 DEF Compare
<1>7. CASE CallerResumes
  BY <1>1, <1>7 DEF CallerResumes
<1> QED
  BY <1>2, <1>3, <1>4, <1>5, <1>6, <1>7 DEF Read

(* A read that returns has the words of one write, no older than the call, *)
(* unless a store or a load was reordered; and it returns unless a write   *)
(* was in its way or nothing has been written.                             *)
THEOREM SnapshotSound == SlotSpec => []SnapshotIsSound
<1>1. SlotInv /\ [SlotNext]_snapshotVars => SlotInv'
  <2>1. CASE UNCHANGED snapshotVars
    BY <2>1
    DEF snapshotVars, SlotInv, SlotTypes, WriteInv, CallInv, TryInv, InCall, slotVars, writeVars,
        tryVars, callVars
  <2> QED
    BY <2>1, WriteKeeps, ReadKeeps DEF SlotNext
<1>2. SlotInv => SnapshotIsSound
  BY NoWordIsZero
  DEF SlotInv, SlotTypes, CallInv, TryInv, SnapshotIsSound, TornOnlyIfReordered, ReadIsFresh,
      QuietReadSucceeds
<1> QED
  BY <1>1, <1>2, SlotInitEstablishes, PTL DEF SlotSpec

-----------------------------------------------------------------------------
(* The device *)

Formats == [rate : Nat, frames : Nat]
Stages == {"idle", "stop", "find", "open", "start", "done", "notify",
           "told", "voices", "scratch"}
Locals == [was : BOOLEAN, found : Devices \cup {NoDevice},
           wanted : Formats \cup {Still.wanted}, after : {"idle", "start"}]

TypeInv ==
    /\ default \in Devices \cup {NoDevice} /\ told \subseteq Listeners
    /\ format \in Formats /\ config \in Formats
    /\ deviceRuns \in BOOLEAN /\ rendering \in BOOLEAN /\ engineRuns \in BOOLEAN
    /\ at \in [Listeners -> Stages] /\ local \in [Listeners -> Locals]
    /\ \A t \in Listeners : at[t] = "open" => local[t].found \in Devices

(* The audio unit calls back only while the stream is marked as running.   *)
RenderInv == rendering => deviceRuns

(* Whoever is busy is alone. *)
AloneInv ==
    \A t \in Listeners : Busy(t) =>
        /\ main = "idle"
        /\ \A u \in Listeners : Busy(u) => u = t

(* What a listener counts on while it reopens the stream.                  *)
ReopenInv ==
    \A t \in Listeners :
        /\ at[t] \in {"stop", "find", "open"} => local[t].wanted = format
        /\ at[t] \in {"find", "open"} => ~deviceRuns /\ unit = NoDevice
        /\ at[t] = "open" => missed \/ local[t].found = default
        /\ at[t] \in {"told", "voices", "scratch"} /\ local[t].after = "start" => ~deviceRuns
        /\ at[t] = "voices" => local[t].after = "start"
        /\ Busy(t) /\ local[t].was => engineRuns

(* The stream is on the default device, unless it is being moved there.    *)
UnitInv ==
    \/ missed \/ "default" \in told
    \/ \E t \in Listeners : at[t] \in {"stop", "find", "open"}
    \/ default \in {unit, NoDevice}

(* The scratch has the stream's block, unless a notice is due.             *)
ScratchInv ==
    \/ \E t \in Listeners : at[t] \in {"told", "voices", "scratch"}
    \/ scratch = format.frames

(* The engine has the stream's rate, unless a notice of another is due.    *)
RateInv ==
    \/ \E t \in Listeners : at[t] = "told" /\ local[t].after = "start"
    \/ config.rate = format.rate

(* The voices have the engine's rate, unless they are being told it.       *)
VoiceInv ==
    \/ \E t \in Listeners : at[t] = "voices"
    \/ /\ hosted = NoDevice \/ hosted.rate = config.rate
       /\ covered \/ builtin.rate = config.rate

(* What the main thread counts on between stopping and swapping.           *)
MainInv ==
    /\ main = "idle" /\ ~engineRuns => ~deviceRuns
    /\ main = "swap" => ~deviceRuns
    /\ main \in {"stopping", "swap"} => edit.voice = NoDevice \/ edit.voice.rate = config.rate

FollowInv ==
    /\ AloneInv /\ ReopenInv /\ UnitInv /\ ScratchInv /\ RateInv /\ VoiceInv /\ MainInv

IInv == TypeInv /\ RenderInv /\ (crossed \/ FollowInv)

-----------------------------------------------------------------------------
LEMMA InitEstablishes == DeviceInit => IInv
<1> SUFFICES ASSUME DeviceInit PROVE IInv
  OBVIOUS
<1>1. PICK d \in Devices : default = d /\ unit = d /\ format = FormatOf[d]
        /\ config = FormatOf[d] /\ builtin = FormatOf[d] /\ scratch = FormatOf[d].frames
  BY DEF DeviceInit
<1>2. FormatOf[d] \in Formats
  BY FormatsAreGranted DEF Formats
<1>3. Still \in Locals
  BY DEF Still, Locals
<1>4. TypeInv /\ RenderInv
  BY <1>1, <1>2, <1>3 DEF DeviceInit, TypeInv, RenderInv, Idle, Stages, Listeners
<1>5. FollowInv
  BY <1>1
  DEF DeviceInit, FollowInv, AloneInv, ReopenInv, UnitInv, ScratchInv, RateInv, VoiceInv,
      MainInv, Idle, Busy, Still, Listeners
<1> QED
  BY <1>4, <1>5 DEF IInv

(* Types and the render callback, whoever meets whom.                      *)
LEMMA StepKeepsTypes ==
  ASSUME TypeInv, RenderInv, [DeviceNext]_changeVars
  PROVE  TypeInv' /\ RenderInv'
<1> USE DEF TypeInv, RenderInv, Stages, Listeners
<1>0. Still \in Locals
  BY DEF Still, Locals
<1>1. CASE DefaultMoves
  BY <1>1 DEF DefaultMoves, stream, listeners, voices, lane
<1>2. CASE RenderBegins \/ RenderEnds
  BY <1>2 DEF RenderBegins, RenderEnds, system, stream, listeners, voices, lane, past
<1>3. ASSUME NEW t \in Listeners, Called(t)
      PROVE  TypeInv' /\ RenderInv'
  <2>1. CASE UNCHANGED listeners
    BY <1>3, <2>1 DEF Called, stream, listeners, voices, lane, past
  <2>2. CASE Goes(t, "notify") /\ UNCHANGED local
    BY <1>3, <2>2 DEF Called, Goes, stream, listeners, voices, lane, past
  <2>3. CASE /\ Goes(t, "stop")
             /\ local' = [local EXCEPT ![t] = [@ EXCEPT !.was = deviceRuns, !.wanted = format]]
    <3>1. local' \in [Listeners -> Locals]
      BY <2>3, ZenonT(40) DEF Locals
    <3> QED
      BY <1>3, <2>3, <3>1 DEF Called, Goes, stream, listeners, voices, lane, past
  <2> QED
    BY <1>3, <2>1, <2>2, <2>3 DEF Called
<1>4. ASSUME NEW t \in Listeners, StopsAndCloses(t)
      PROVE  TypeInv' /\ RenderInv'
  BY <1>4 DEF StopsAndCloses, Goes, system, stream, voices, lane, past
<1>5. ASSUME NEW t \in Listeners, FindsTheDefault(t)
      PROVE  TypeInv' /\ RenderInv'
  <2>1. local' \in [Listeners -> Locals]
    BY <1>5 DEF FindsTheDefault, Locals
  <2>2. local'[t].found = default /\ \A u \in Listeners : u # t => local'[u] = local[u]
    BY <1>5 DEF FindsTheDefault, Locals
  <2> QED
    BY <1>5, <2>1, <2>2 DEF FindsTheDefault, Goes, system, stream, voices, lane, past
<1>6. ASSUME NEW t \in Listeners, Opens(t)
      PROVE  TypeInv' /\ RenderInv'
  <2>1. local' \in [Listeners -> Locals] /\ \A u \in Listeners : local'[u].found = local[u].found
    BY <1>6 DEF Opens, Locals
  <2>2. format' \in Formats
    BY <1>6, FormatsAreGranted DEF Opens, Formats
  <2> QED
    BY <1>6, <2>1, <2>2 DEF Opens, Goes, system, stream, voices, lane, past
<1>7. ASSUME NEW t \in Listeners, Resumes(t) \/ EndsReopening(t)
      PROVE  TypeInv' /\ RenderInv'
  <2>1. deviceRuns' \in BOOLEAN /\ (deviceRuns => deviceRuns')
    BY <1>7 DEF Resumes, EndsReopening, Locals
  <2>2. /\ Goes(t, "done") \/ Goes(t, "notify")
        /\ UNCHANGED <<system, format, rendering, local, engineRuns, config>>
    BY <1>7 DEF Resumes, EndsReopening
  <2> QED
    BY <2>1, <2>2 DEF Goes, system
<1>8. ASSUME NEW t \in Listeners, Notifies(t)
      PROVE  TypeInv' /\ RenderInv'
  <2>1. local' \in [Listeners -> Locals] /\ \A u \in Listeners : local'[u].found = local[u].found
    BY <1>8 DEF Notifies, Locals
  <2> QED
    BY <1>8, <2>1 DEF Notifies, Goes, system, stream, voices, lane, past
<1>9. ASSUME NEW t \in Listeners, HearsOfIt(t) \/ Reconfigures(t)
      PROVE  TypeInv' /\ RenderInv'
  <2>1. config' \in Formats
    BY <1>9 DEF HearsOfIt, Reconfigures, Formats
  <2> QED
    BY <1>9, <2>1 DEF HearsOfIt, Reconfigures, Goes, system, stream, voices, lane, past
<1>10. ASSUME NEW t \in Listeners, SizesTheScratch(t)
       PROVE  TypeInv' /\ RenderInv'
  <2>1. config' \in Formats
    BY <1>10 DEF SizesTheScratch, Formats
  <2>2. local' \in [Listeners -> Locals] /\ local[t].after \in {"idle", "start"}
    BY <1>0, <1>10 DEF SizesTheScratch, Locals
  <2>3. \A u \in Listeners : u # t => local'[u] = local[u]
    BY <1>10 DEF SizesTheScratch
  <2> QED
    BY <1>10, <2>1, <2>2, <2>3 DEF SizesTheScratch, Goes, system, stream, voices, lane, past
<1>11. CASE InstallsVoice \/ RestoresBuiltin \/ StopsEngine \/ StartsEngine
  <2>1. engineRuns' \in BOOLEAN /\ Asks
    BY <1>11
    DEF InstallsVoice, RestoresBuiltin, StopsThenSwaps, StopsEngine, StartsEngine
  <2> QED
    BY <2>1 DEF Asks, system, stream, listeners
<1>12. CASE DeviceStops
  BY <1>12 DEF DeviceStops, system, listeners
<1>14. CASE SwapsVoice
  BY <1>14 DEF SwapsVoice, system, stream, listeners
<1>15. CASE DeviceStarts
  BY <1>15 DEF DeviceStarts, system, listeners
<1>16. CASE RebuildsMixer
  BY <1>16 DEF RebuildsMixer, system, stream, listeners
<1>13. CASE UNCHANGED changeVars
  BY <1>13 DEF changeVars, system, stream, listeners
<1> QED
  BY <1>1, <1>2, <1>3, <1>4, <1>5, <1>6, <1>7, <1>8, <1>9, <1>10, <1>11, <1>12, <1>13,
     <1>14, <1>15, <1>16
  DEF DeviceNext, ListenerStep, MainStep

-----------------------------------------------------------------------------
LEMMA CrossedStays ==
  ASSUME [DeviceNext]_changeVars, ~crossed'
  PROVE  ~crossed
BY DEF DeviceNext, ListenerStep, MainStep, DefaultMoves, RenderBegins, RenderEnds, Called,
       StopsAndCloses, FindsTheDefault, Opens, Resumes, EndsReopening, Notifies, HearsOfIt,
       Reconfigures, SizesTheScratch, InstallsVoice, RestoresBuiltin, StopsThenSwaps,
       StopsEngine, StartsEngine, Asks, DeviceStops, SwapsVoice, DeviceStarts, RebuildsMixer,
       changeVars, past

(* A listener that is called finds everyone idle, and takes the stream.    *)
LEMMA CallKeepsFollowing ==
  ASSUME TypeInv, FollowInv, NEW t \in Listeners, Called(t), ~crossed'
  PROVE  FollowInv'
<1> USE DEF TypeInv, Listeners
<1>1. UNCHANGED <<unit, format, deviceRuns, engineRuns, config, voices, scratch, lane, default>>
  BY DEF Called, stream
<1>2. CASE UNCHANGED listeners /\ default \in {NoDevice, unit}
  BY <1>1, <1>2
  DEF Called, FollowInv, AloneInv, ReopenInv, UnitInv, ScratchInv, RateInv, VoiceInv, MainInv,
      listeners, voices, lane, past, Busy
<1>3. CASE /\ Goes(t, "stop") /\ ~AnyBusy /\ UNCHANGED <<missed, covered>>
           /\ local' = [local EXCEPT ![t] = [@ EXCEPT !.was = deviceRuns, !.wanted = format]]
  <2>1. \A u \in Listeners : at[u] = "idle" /\ at'[u] = IF u = t THEN "stop" ELSE "idle"
    BY <1>3 DEF AnyBusy, Busy, Goes
  <2>2. main = "idle" /\ main' = "idle"
    BY <1>1, <1>3 DEF AnyBusy, lane
  <2>3. local'[t].was = deviceRuns /\ local'[t].wanted = format
    BY <1>3 DEF Locals
  <2>4. AloneInv' /\ ReopenInv'
    BY <1>1, <2>1, <2>2, <2>3 DEF AloneInv, ReopenInv, FollowInv, MainInv, Busy
  <2> QED
    BY <1>1, <1>3, <2>1, <2>2, <2>4
    DEF FollowInv, UnitInv, ScratchInv, RateInv, VoiceInv, MainInv, voices, lane
<1> QED
  BY <1>2, <1>3 DEF Called, past

(* Everything a listener does once it was called.                          *)
LEMMA ListenerKeepsFollowing ==
  ASSUME TypeInv, FollowInv, NEW t \in Listeners, ListenerStep(t), ~Called(t), ~crossed'
  PROVE  FollowInv'
<1> USE DEF TypeInv, Listeners, Stages, FollowInv, Goes
<1>1. Busy(t) /\ main = "idle" /\ \A u \in Listeners : u # t => at[u] = "idle"
  BY DEF ListenerStep, StopsAndCloses, FindsTheDefault, Opens, Resumes, EndsReopening, Notifies,
         HearsOfIt, Reconfigures, SizesTheScratch, AloneInv, Busy
<1>2. UNCHANGED <<default, told, engineRuns, lane, crossed>>
  BY DEF ListenerStep, StopsAndCloses, FindsTheDefault, Opens, Resumes, EndsReopening, Notifies,
         HearsOfIt, Reconfigures, SizesTheScratch, system, past
<1>3. /\ \A u \in Listeners : u # t => at'[u] = "idle" /\ local'[u] = local[u]
      /\ main' = "idle"
  BY <1>1, <1>2
  DEF ListenerStep, StopsAndCloses, FindsTheDefault, Opens, Resumes, EndsReopening, Notifies,
      HearsOfIt, Reconfigures, SizesTheScratch, lane
<1>4. AloneInv'
  BY <1>3 DEF AloneInv, Busy
<1>5. CASE StopsAndCloses(t)
  BY <1>1, <1>2, <1>3, <1>4, <1>5
  DEF StopsAndCloses, ReopenInv, UnitInv, ScratchInv, RateInv, VoiceInv, MainInv, Busy,
      voices, lane, past
<1>6. CASE FindsTheDefault(t)
  <2>1. local'[t].found = default /\ local'[t].was = local[t].was
        /\ local'[t].wanted = local[t].wanted /\ local'[t].after = local[t].after
    BY <1>6 DEF FindsTheDefault, Locals
  <2> QED
    BY <1>1, <1>2, <1>3, <1>4, <1>6, <2>1
    DEF FindsTheDefault, ReopenInv, UnitInv, ScratchInv, RateInv, VoiceInv, MainInv, Busy,
        stream, voices, lane, past
<1>7. CASE Opens(t)
  <2>1. CASE /\ unit' = local[t].found /\ format' = FormatOf[unit']
             /\ local' = [local EXCEPT ![t].after = "start"]
             /\ Goes(t, IF format' # local[t].wanted THEN "told" ELSE "start")
             /\ UNCHANGED missed
    <3>1. local'[t].after = "start" /\ local'[t].was = local[t].was
      BY <2>1 DEF Locals
    <3>2. format' # format \/ at'[t] = "start"
      BY <1>7, <2>1 DEF Opens, ReopenInv
    <3>3. at'[t] \in {"told", "start"} /\ (at'[t] = "start" => format' = format)
      BY <1>7, <2>1 DEF Opens, ReopenInv
    <3> QED
      BY <1>1, <1>2, <1>3, <1>4, <1>7, <2>1, <3>1, <3>3
      DEF Opens, ReopenInv, UnitInv, ScratchInv, RateInv, VoiceInv, MainInv, Busy,
          voices, lane
  <2>2. CASE Goes(t, "done") /\ missed' = TRUE /\ UNCHANGED <<unit, format, local>>
    BY <1>1, <1>2, <1>3, <1>4, <1>7, <2>2
    DEF Opens, ReopenInv, UnitInv, ScratchInv, RateInv, VoiceInv, MainInv, Busy, voices, lane
  <2> QED
    BY <1>7, <2>1, <2>2 DEF Opens
<1>8. CASE Resumes(t)
  <2>1. deviceRuns' => deviceRuns \/ local[t].was
    BY <1>8 DEF Resumes, Locals
  <2>2. deviceRuns' => engineRuns
    BY <1>1, <2>1 DEF ReopenInv, MainInv
  <2>3. at' = [at EXCEPT ![t] = "done"] /\ at[t] = "start"
        /\ UNCHANGED <<unit, format, local, config, voices, scratch, past>>
    BY <1>8 DEF Resumes
  <2> QED
    BY <1>1, <1>2, <1>3, <1>4, <2>2, <2>3
    DEF ReopenInv, UnitInv, ScratchInv, RateInv, VoiceInv, MainInv, Busy, voices, lane, past
<1>9. CASE EndsReopening(t)
  BY <1>1, <1>2, <1>3, <1>4, <1>9
  DEF EndsReopening, ReopenInv, UnitInv, ScratchInv, RateInv, VoiceInv, MainInv, Busy,
      voices, lane, past
<1>10. CASE Notifies(t)
  <2>1. local'[t].after = "idle" /\ local'[t].was = local[t].was
    BY <1>10 DEF Notifies, Locals
  <2> QED
    BY <1>1, <1>2, <1>3, <1>4, <1>10, <2>1
    DEF Notifies, ReopenInv, UnitInv, ScratchInv, RateInv, VoiceInv, MainInv, Busy,
        stream, voices, lane, past
<1>11. CASE HearsOfIt(t)
  <2>1. local[t].after \in {"idle", "start"}
    BY DEF Locals
  <2>2. CASE format.rate = config.rate
    BY <1>1, <1>2, <1>3, <1>4, <1>11, <2>1, <2>2
    DEF HearsOfIt, ReopenInv, UnitInv, ScratchInv, RateInv, VoiceInv, MainInv, Busy,
        stream, voices, lane, past
  <2>3. CASE format.rate # config.rate
    <3>1. config'.rate = format.rate
      BY <1>11, <2>3 DEF HearsOfIt, Formats
    <3>2. local[t].after = "start"
      BY <1>1, <2>1, <2>3 DEF RateInv
    <3> QED
      BY <1>1, <1>2, <1>3, <1>4, <1>11, <2>3, <3>1, <3>2
      DEF HearsOfIt, ReopenInv, UnitInv, ScratchInv, RateInv, VoiceInv, MainInv, Busy,
          stream, voices, lane, past
  <2> QED
    BY <2>2, <2>3
<1>12. CASE Reconfigures(t)
  <2>1. config.rate = format.rate
    BY <1>1, <1>12 DEF Reconfigures, RateInv
  <2> QED
    BY <1>1, <1>2, <1>3, <1>4, <1>12, <2>1
    DEF Reconfigures, ReopenInv, UnitInv, ScratchInv, RateInv, VoiceInv, MainInv, Busy,
        stream, lane
<1>13. CASE SizesTheScratch(t)
  <2>1. config'.rate = config.rate
    BY <1>13 DEF SizesTheScratch, Formats
  <2>2. /\ local[t].after \in {"idle", "start"} /\ at'[t] = local[t].after
        /\ local'[t] = IF local[t].after = "idle" THEN Still ELSE local[t]
    BY <1>13 DEF SizesTheScratch, Locals
  <2>3. config.rate = format.rate
    BY <1>1, <1>13 DEF SizesTheScratch, RateInv
  <2> QED
    BY <1>1, <1>2, <1>3, <1>4, <1>13, <2>1, <2>2, <2>3
    DEF SizesTheScratch, ReopenInv, UnitInv, ScratchInv, RateInv, VoiceInv, MainInv, Busy,
        Still, stream, voices, lane, past
<1> QED
  BY <1>5, <1>6, <1>7, <1>8, <1>9, <1>10, <1>11, <1>12, <1>13 DEF ListenerStep

(* The main thread, which finds no listener busy.                          *)
LEMMA MainKeepsFollowing ==
  ASSUME TypeInv, FollowInv, MainStep, ~crossed'
  PROVE  FollowInv'
<1> USE DEF FollowInv
<1>1. \A t \in Listeners : ~Busy(t)
  BY DEF MainStep, InstallsVoice, RestoresBuiltin, StopsThenSwaps, StopsEngine, StartsEngine,
         Asks, DeviceStops, SwapsVoice, DeviceStarts, AloneInv
<1>2. UNCHANGED <<default, told, unit, format, at, local, config, builtin, scratch, missed, covered>>
  BY DEF MainStep, InstallsVoice, RestoresBuiltin, StopsThenSwaps, StopsEngine, StartsEngine,
         Asks, DeviceStops, SwapsVoice, DeviceStarts, system, stream, listeners, voices, past
<1>3. AloneInv' /\ ReopenInv' /\ UnitInv' /\ ScratchInv' /\ RateInv'
  BY <1>1, <1>2 DEF AloneInv, ReopenInv, UnitInv, ScratchInv, RateInv, Busy
<1>4. CASE InstallsVoice \/ RestoresBuiltin \/ StopsEngine \/ StartsEngine
  BY <1>2, <1>3, <1>4
  DEF InstallsVoice, RestoresBuiltin, StopsThenSwaps, StopsEngine, StartsEngine, Asks, stream,
      voices, VoiceInv, MainInv
<1>5. CASE DeviceStops
  BY <1>2, <1>3, <1>5 DEF DeviceStops, voices, VoiceInv, MainInv
<1>6. CASE SwapsVoice
  BY <1>1, <1>2, <1>3, <1>6 DEF SwapsVoice, stream, VoiceInv, MainInv, Busy
<1>7. CASE DeviceStarts
  BY <1>2, <1>3, <1>7 DEF DeviceStarts, voices, VoiceInv, MainInv
<1> QED
  BY <1>3, <1>4, <1>5, <1>6, <1>7 DEF MainStep, VoiceInv

LEMMA OthersKeepFollowing ==
  ASSUME FollowInv,
         DefaultMoves \/ RenderBegins \/ RenderEnds \/ RebuildsMixer \/ UNCHANGED changeVars
  PROVE  FollowInv'
<1>1. UNCHANGED <<unit, format, deviceRuns, at, local, engineRuns, config, builtin, hosted,
                  scratch, main, edit, covered>>
  BY DEF DefaultMoves, RenderBegins, RenderEnds, RebuildsMixer, changeVars, system, stream,
         listeners, voices, lane, past
<1>2. AloneInv' /\ ScratchInv' /\ RateInv' /\ VoiceInv' /\ MainInv'
  BY <1>1 DEF FollowInv, AloneInv, ScratchInv, RateInv, VoiceInv, MainInv, Busy
<1>3. CASE UNCHANGED <<default, told, missed>>
  BY <1>1, <1>2, <1>3 DEF FollowInv, ReopenInv, UnitInv, Busy
<1>4. CASE DefaultMoves
  <2>1. missed' \/ "default" \in told'
    BY <1>4 DEF DefaultMoves
  <2>2. missed \/ unit = NoDevice => missed'
    BY <1>4 DEF DefaultMoves
  <2>3. ReopenInv'
    BY <1>1, <2>2 DEF FollowInv, ReopenInv, Busy
  <2> QED
    BY <1>2, <2>1, <2>3 DEF FollowInv, UnitInv
<1> QED
  BY <1>3, <1>4 DEF RenderBegins, RenderEnds, RebuildsMixer, changeVars, system, past

LEMMA StepKeepsIInv ==
  ASSUME IInv, [DeviceNext]_changeVars
  PROVE  IInv'
<1>1. TypeInv' /\ RenderInv'
  BY StepKeepsTypes DEF IInv
<1>2. ASSUME ~crossed'
      PROVE  FollowInv'
  <2>1. TypeInv /\ FollowInv
    BY <1>2, CrossedStays DEF IInv
  <2>2. ASSUME NEW t \in Listeners, ListenerStep(t)
        PROVE  FollowInv'
    BY <1>2, <2>1, <2>2, CallKeepsFollowing, ListenerKeepsFollowing
  <2>3. CASE MainStep
    BY <1>2, <2>1, <2>3, MainKeepsFollowing
  <2>4. CASE DefaultMoves \/ RenderBegins \/ RenderEnds \/ RebuildsMixer \/ UNCHANGED changeVars
    BY <2>1, <2>4, OthersKeepFollowing
  <2> QED
    BY <2>2, <2>3, <2>4 DEF DeviceNext
<1> QED
  BY <1>1, <1>2 DEF IInv

(* However the system moves its default device, loses or finds one, and    *)
(* whatever the user installs, restores, stops or starts in between: no    *)
(* voice is touched while a callback renders, and the stream left at rest  *)
(* is on the default device with the scratch and the sounding voice to its *)
(* format, except where two of the three threads met, a move found no      *)
(* listener, or the rate changed under a hosted voice.                     *)
THEOREM DeviceFollowed == DeviceSpec => []DeviceIsFollowed
<1>1. IInv => VoicesChangeInSilenceUnlessCrossed
  BY DEF IInv, RenderInv, FollowInv, ReopenInv, MainInv, VoicesChangeInSilenceUnlessCrossed
<1>2. IInv => SettlesUnlessCrossedOrMissed
  BY DEF IInv, FollowInv, UnitInv, ScratchInv, RateInv, VoiceInv, MainInv, Busy, DeviceAtRest,
         SoundingVoice, SettlesUnlessCrossedOrMissed
<1> QED
  BY <1>1, <1>2, InitEstablishes, StepKeepsIInv, PTL DEF DeviceSpec, DeviceIsFollowed

-----------------------------------------------------------------------------
(* The mixer *)

MixerTypes ==
  /\ tracks \in SUBSET TrackIds
  /\ chain \in [TrackIds -> Seq(Effects)]
  /\ level \in [TrackIds -> Knob]
  /\ knob \in [Effects -> Knob] /\ heard \in [Effects -> Knob]
  /\ {wanted, working, shape} \subseteq Descriptions \union {NoMixer}
  /\ DOMAIN track_gain = 1..Cardinality(TrackIds)
  /\ turned \in Seq([index : Nat, to : Knob, whose : Effects])
  /\ mixing \in {"idle", "filling", "rendering", "outdated"}

\* What the model would be described as.
Project == Described(tracks, chain, level)

\* The newest description that is still on its way is of the model as it is; with
\* none on its way, the graph is.
OnItsWay ==
  /\ wanted # NoMixer => wanted = Project
  /\ wanted = NoMixer /\ working # NoMixer => working = Project
  /\ wanted = NoMixer /\ working = NoMixer => shape = Project
  /\ shape # NoMixer => graph = [tracks |-> shape.tracks, chains |-> shape.chains]

LevelsStored ==
  wanted = NoMixer =>
    \A i \in 1..Cardinality(tracks) : track_gain[i] = level[Dense(tracks)[i]]

\* An insert's knob is what its last turn in the queue says, or what it hears.
LastTurn(e, i) == turned[i].whose = e /\ \A j \in DOMAIN turned : turned[j].whose = e => j <= i
KnobsOnTheirWay ==
  \A e \in Effects \ unsaid :
    /\ \A i \in DOMAIN turned : LastTurn(e, i) => turned[i].to = knob[e]
    /\ (\A i \in DOMAIN turned : turned[i].whose # e) => heard[e] = knob[e]

MixerInv == MixerTypes /\ OnItsWay /\ LevelsStored /\ KnobsOnTheirWay

\* Some numbers have a least one.
LEMMA LeastOfSome ==
  ASSUME NEW some \in SUBSET Nat, some # {}
  PROVE  \E least \in some : \A n \in some : least <= n
<1>1. PICK least \in some : \A n \in some : ~(<<n, least>> \in OpToRel(<, Nat))
  <2>1. some \subseteq Nat
    OBVIOUS
  <2> QED BY <2>1, NatLessThanWellFounded, WFMin
<1>2. \A n \in some : ~(n < least)
  BY <1>1 DEF OpToRel
<1> QED BY <1>2

\* The master is one of the tracks.
LEMMA MasterIsATrack == Master \in TrackIds
BY LeastOfSome, MixerGraphAssumption DEF Master

\* Finitely many numbers have a greatest one: those up to n.
LEMMA GreatestOfSome ==
  ASSUME NEW n \in Nat, NEW some \in SUBSET (0..n), some # {}
  PROVE  \E greatest \in some : \A m \in some : greatest >= m
<1> DEFINE below == {n - m : m \in some}
<1>1. below \in SUBSET Nat /\ below # {}
  <2>1. \A m \in some : n - m \in Nat
    OBVIOUS
  <2>2. PICK m \in some : TRUE
    OBVIOUS
  <2>3. n - m \in below
    OBVIOUS
  <2> QED BY <2>1, <2>3
<1>2. PICK least \in below : \A m \in below : least <= m
  <2> HIDE DEF below
  <2> QED BY <1>1, LeastOfSome
<1>3. PICK greatest \in some : least = n - greatest
  OBVIOUS
<1>4. \A m \in some : greatest >= m
  <2> TAKE m \in some
  <2>1. n - m \in below
    OBVIOUS
  <2>2. n - greatest <= n - m
    BY <1>2, <1>3, <2>1
  <2> QED BY <2>2
<1> QED BY <1>4

\* Tracks can be put in the order of their ULIDs: the first, and then the others.
IsDense(order, present) ==
  /\ order \in [1..Cardinality(present) -> present]
  /\ \A i, j \in DOMAIN order : i < j => order[i] < order[j]

LEMMA FirstThenOthers ==
  ASSUME NEW present \in SUBSET TrackIds, NEW first \in present,
         \A t \in present : first <= t,
         NEW others, IsDense(others, present \ {first})
  PROVE  \E order : IsDense(order, present)
<1> DEFINE order == [i \in 1..Cardinality(present) |-> IF i = 1 THEN first ELSE others[i - 1]]
<1>1. IsFiniteSet(present) /\ present \subseteq Nat
  BY FS_Subset, MixerGraphAssumption
<1>2. /\ Cardinality(present) \in Nat /\ Cardinality(present \ {first}) \in Nat
      /\ Cardinality(present \ {first}) = Cardinality(present) - 1
  BY <1>1, FS_RemoveElement, FS_CardinalityType
<1>3. \A i \in 1..Cardinality(present) : i # 1 => i - 1 \in 1..Cardinality(present \ {first})
  BY <1>2
<1>4. \A i \in 1..Cardinality(present) : i # 1 => others[i - 1] \in present \ {first}
  BY <1>3 DEF IsDense
<1>5. order \in [1..Cardinality(present) -> present]
  BY <1>4
<1>6. ASSUME NEW i \in DOMAIN order, NEW j \in DOMAIN order, i < j
      PROVE  order[i] < order[j]
  <2>1. i \in 1..Cardinality(present) /\ j \in 1..Cardinality(present) /\ j # 1
    BY <1>2, <1>6
  <2>2. CASE i = 1
    <3>1. order[i] = first /\ order[j] = others[j - 1]
      BY <2>1, <2>2
    <3>2. order[j] \in present \ {first}
      BY <1>4, <2>1, <3>1
    <3> HIDE DEF order
    <3>3. first <= order[j] /\ first # order[j] /\ first \in Nat /\ order[j] \in Nat
      BY <1>1, <3>2
    <3> QED BY <3>1, <3>3
  <2>3. CASE i # 1
    <3>1. i - 1 \in 1..Cardinality(present \ {first}) /\ j - 1 \in 1..Cardinality(present \ {first})
      BY <1>3, <2>1, <2>3
    <3>2. i - 1 < j - 1
      BY <1>2, <1>6, <2>1
    <3> DEFINE m == i - 1
               n  == j - 1
    <3>3. others[m] < others[n]
      <4> HIDE DEF m, n
      <4> QED BY <3>1, <3>2 DEF IsDense, m, n
    <3> QED BY <2>1, <2>3, <3>3
  <2> QED BY <2>2, <2>3
<1>7. IsDense(order, present)
  <2> HIDE DEF order
  <2> QED BY <1>5, <1>6 DEF IsDense
<1> QED BY <1>7

LEMMA OrderExists ==
  \A present \in SUBSET TrackIds : \E order : IsDense(order, present)
<1> DEFINE without == {present \in SUBSET TrackIds : ~\E order : IsDense(order, present)}
<1>1. SUFFICES ASSUME without # {}
               PROVE  FALSE
  OBVIOUS
<1>2. without \subseteq FiniteSubsetsOf(TrackIds)
  BY FS_FiniteSubsetsOfFinite, MixerGraphAssumption
<1>3. PICK fewest \in without :
         \A present \in without : ~(<<present, fewest>> \in StrictSubsetOrdering(TrackIds))
  <2> HIDE DEF without
  <2> QED BY <1>1, <1>2, FS_StrictSubsetOrderingWellFounded, WFMin
<1>4. fewest # {}
  <2>1. Cardinality({}) = 0
    BY FS_EmptySet
  <2>2. IsDense(<<>>, {})
    BY <2>1 DEF IsDense
  <2> QED BY <2>2
<1>5. PICK first \in fewest : \A t \in fewest : first <= t
  BY <1>4, LeastOfSome, MixerGraphAssumption
<1>6. fewest \ {first} \notin without
  <2>1. <<fewest \ {first}, fewest>> \in StrictSubsetOrdering(TrackIds)
    BY DEF StrictSubsetOrdering
  <2> HIDE DEF without
  <2> QED BY <1>3, <2>1
<1>7. PICK others : IsDense(others, fewest \ {first})
  BY <1>6
<1> QED BY <1>5, <1>7, FirstThenOthers

LEMMA DenseOrders ==
  ASSUME NEW present \in SUBSET TrackIds
  PROVE  /\ IsDense(Dense(present), present)
         /\ Cardinality(present) \in Nat
         /\ 1..Cardinality(present) \subseteq 1..Cardinality(TrackIds)
<1>1. \E order \in [1..Cardinality(present) -> present] :
        \A i, j \in DOMAIN order : i < j => order[i] < order[j]
  BY OrderExists DEF IsDense
<1>2. IsDense(Dense(present), present)
  BY <1>1 DEF IsDense, Dense
<1>3. /\ Cardinality(present) \in Nat /\ Cardinality(TrackIds) \in Nat
      /\ Cardinality(present) <= Cardinality(TrackIds)
  BY FS_Subset, FS_CardinalityType, MixerGraphAssumption
<1> QED BY <1>2, <1>3

LEMMA NumberedIsSeq ==
  ASSUME NEW S, NEW n \in Nat, NEW f \in [1..n -> S]
  PROVE  f \in Seq(S)
OBVIOUS

\* A description is one, of as many chains and levels as there are tracks.
LEMMA DescribesTheTracks ==
  ASSUME NEW present \in SUBSET TrackIds, NEW chains \in [TrackIds -> Seq(Effects)],
         NEW levels \in [TrackIds -> Knob]
  PROVE  /\ Described(present, chains, levels) \in Descriptions
         /\ Described(present, chains, levels) # NoMixer
         /\ DOMAIN Described(present, chains, levels).levels = 1..Cardinality(present)
         /\ \A i \in 1..Cardinality(present) :
              Described(present, chains, levels).levels[i] = levels[Dense(present)[i]]
<1> DEFINE order == Dense(present)
<1>1. order \in [1..Cardinality(present) -> present] /\ Cardinality(present) \in Nat
  BY DenseOrders DEF IsDense
<1> HIDE DEF order
<1>2. order \in Seq(TrackIds)
  BY <1>1
<1>3. DOMAIN order = 1..Cardinality(present)
  BY <1>1
<1>4. /\ [i \in DOMAIN order |-> chains[order[i]]] \in Seq(Seq(Effects))
      /\ [i \in DOMAIN order |-> levels[order[i]]] \in Seq(Knob)
  <2>1. [i \in DOMAIN order |-> chains[order[i]]] \in [1..Cardinality(present) -> Seq(Effects)]
    <3> DEFINE S == Seq(Effects)
    <3>1. \A i \in DOMAIN order : chains[order[i]] \in S
      BY <1>1
    <3> HIDE DEF S
    <3>2. [i \in DOMAIN order |-> chains[order[i]]] \in [1..Cardinality(present) -> S]
      BY <1>3, <3>1
    <3> QED BY <3>2 DEF S
  <2>2. [i \in DOMAIN order |-> levels[order[i]]] \in [1..Cardinality(present) -> Knob]
    BY <1>1, <1>3
  <2>3. [i \in DOMAIN order |-> chains[order[i]]] \in Seq(Seq(Effects))
    BY <1>1, <2>1, NumberedIsSeq
  <2>4. [i \in DOMAIN order |-> levels[order[i]]] \in Seq(Knob)
    BY <1>1, <2>2, NumberedIsSeq
  <2> QED BY <2>3, <2>4
<1>5. Described(present, chains, levels)
      = [tracks |-> order, chains |-> [i \in DOMAIN order |-> chains[order[i]]],
         levels |-> [i \in DOMAIN order |-> levels[order[i]]]]
  BY DEF Described, order
<1>6. Described(present, chains, levels) \in Descriptions
  BY <1>2, <1>4, <1>5 DEF Descriptions
<1>7. Described(present, chains, levels) # NoMixer
  BY <1>6, MixerGraphAssumption
<1>8. Described(present, chains, levels).levels = [i \in DOMAIN order |-> levels[order[i]]]
  BY <1>5
<1>9. DOMAIN Described(present, chains, levels).levels = 1..Cardinality(present)
  BY <1>3, <1>8
<1>10. \A i \in 1..Cardinality(present) :
         Described(present, chains, levels).levels[i] = levels[order[i]]
  BY <1>3, <1>8
<1> QED BY <1>6, <1>7, <1>9, <1>10 DEF order

-----------------------------------------------------------------------------
(* Edits of the mixer *)

LEMMA InsertedIsAChain ==
  ASSUME NEW s \in Seq(Effects), NEW e \in Effects, NEW place \in 1..(Len(s) + 1)
  PROVE  InsertAt(s, place, e) \in Seq(Effects)
<1>1. SubSeq(s, 1, place - 1) \in Seq(Effects) /\ SubSeq(s, place, Len(s)) \in Seq(Effects)
  OBVIOUS
<1>2. <<e>> \in Seq(Effects)
  OBVIOUS
<1> QED BY <1>1, <1>2 DEF InsertAt

LEMMA JoinedIsAChain ==
  ASSUME NEW p \in Seq(Effects), NEW q \in Seq(Effects)
  PROVE  p \o q \in Seq(Effects) /\ Len(p \o q) = Len(p) + Len(q)
OBVIOUS

LEMMA RemovedIsAChain ==
  ASSUME NEW s \in Seq(Effects), NEW place \in DOMAIN s
  PROVE  RemoveAt(s, place) \in Seq(Effects) /\ Len(RemoveAt(s, place)) = Len(s) - 1
<1> DEFINE front == SubSeq(s, 1, place - 1)
           rear  == SubSeq(s, place + 1, Len(s))
<1>1. place \in 1..Len(s) /\ Len(s) \in Nat
  OBVIOUS
<1>2. /\ front \in Seq(Effects) /\ Len(front) = place - 1
      /\ rear \in Seq(Effects) /\ Len(rear) = Len(s) - place
  BY <1>1
<1>3. RemoveAt(s, place) = front \o rear
  BY DEF RemoveAt
<1> HIDE DEF front, rear
<1>4. front \o rear \in Seq(Effects) /\ Len(front \o rear) = Len(front) + Len(rear)
  BY <1>2, JoinedIsAChain
<1> QED BY <1>1, <1>2, <1>3, <1>4

\* What an edit publishes is the model as the edit leaves it.
LEMMA PublishedIsOnItsWay ==
  ASSUME OnItsWay, tracks' \in SUBSET TrackIds, chain' \in [TrackIds -> Seq(Effects)],
         level' \in [TrackIds -> Knob], Publishes(tracks', chain', level'),
         UNCHANGED <<working, shape, graph>>
  PROVE  wanted' \in Descriptions /\ OnItsWay' /\ LevelsStored'
<1>1. wanted' = Project' /\ wanted' \in Descriptions /\ wanted' # NoMixer
  BY DescribesTheTracks DEF Publishes, Project
<1> QED BY <1>1 DEF OnItsWay, LevelsStored

\* Any edit of the tracks, the chains and the levels.
LEMMA StructureEdited ==
  ASSUME MixerInv, tracks' \in SUBSET TrackIds, chain' \in [TrackIds -> Seq(Effects)],
         level' \in [TrackIds -> Knob], Publishes(tracks', chain', level'),
         UNCHANGED <<knob, engineSide, turned, unsaid>>
  PROVE  MixerInv'
<1>1. wanted' \in Descriptions /\ OnItsWay' /\ LevelsStored'
  BY PublishedIsOnItsWay DEF MixerInv, engineSide
<1>2. MixerTypes'
  BY <1>1 DEF MixerInv, MixerTypes, engineSide
<1>3. KnobsOnTheirWay'
  BY DEF MixerInv, KnobsOnTheirWay, LastTurn, engineSide
<1> QED BY <1>1, <1>2, <1>3 DEF MixerInv

LEMMA TracksEdited ==
  ASSUME MixerInv, NEW t \in TrackIds,
         \/ addMixerTrack(t) \/ removeMixerTrack(t)
         \/ \E to \in Knob : setTrackGain(t, to)
  PROVE  MixerInv'
<1>1. /\ tracks \in SUBSET TrackIds
      /\ chain \in [TrackIds -> Seq(Effects)]
      /\ level \in [TrackIds -> Knob]
  BY DEF MixerInv, MixerTypes
<1>2. <<>> \in Seq(Effects) /\ Default \in Knob
  BY MixerGraphAssumption
<1>3. [chain EXCEPT ![t] = <<>>] \in [TrackIds -> Seq(Effects)]
  BY <1>1, <1>2
<1>4. CASE addMixerTrack(t)
  <2>1. /\ tracks' \in SUBSET TrackIds /\ chain' \in [TrackIds -> Seq(Effects)]
        /\ level' \in [TrackIds -> Knob]
    BY <1>1, <1>2, <1>3, <1>4 DEF addMixerTrack
  <2> QED BY <1>4, <2>1, StructureEdited DEF addMixerTrack
<1>5. CASE removeMixerTrack(t)
  <2>1. /\ tracks' \in SUBSET TrackIds /\ chain' \in [TrackIds -> Seq(Effects)]
        /\ level' \in [TrackIds -> Knob]
    BY <1>1, <1>3, <1>5 DEF removeMixerTrack
  <2>2. Publishes(tracks', chain', level')
    BY <1>5 DEF removeMixerTrack
  <2> QED BY <1>5, <2>1, <2>2, StructureEdited DEF removeMixerTrack
<1>6. ASSUME NEW to \in Knob, setTrackGain(t, to)
      PROVE  MixerInv'
  <2>1. /\ tracks' \in SUBSET TrackIds /\ chain' \in [TrackIds -> Seq(Effects)]
        /\ level' \in [TrackIds -> Knob]
    BY <1>1, <1>6 DEF setTrackGain
  <2>2. Publishes(tracks', chain', level')
    BY <1>6 DEF setTrackGain
  <2> QED BY <1>6, <2>1, <2>2, StructureEdited DEF setTrackGain
<1> QED BY <1>4, <1>5, <1>6

LEMMA ChainsEdited ==
  ASSUME MixerInv, NEW t \in TrackIds, NEW place \in Nat,
         \/ \E e \in Effects : addEffect(t, e, place)
         \/ removeEffect(t, place)
         \/ \E to \in Nat : moveEffect(t, place, to)
  PROVE  MixerInv'
<1>1. /\ tracks \in SUBSET TrackIds
      /\ chain \in [TrackIds -> Seq(Effects)]
      /\ level \in [TrackIds -> Knob]
  BY DEF MixerInv, MixerTypes
<1>2. chain[t] \in Seq(Effects)
  BY <1>1
<1>3. ASSUME NEW s \in Seq(Effects)
      PROVE  [chain EXCEPT ![t] = s] \in [TrackIds -> Seq(Effects)]
  <2> DEFINE S == Seq(Effects)
  <2>1. s \in S /\ chain \in [TrackIds -> S]
    BY <1>1, <1>3
  <2> HIDE DEF S
  <2>2. [chain EXCEPT ![t] = s] \in [TrackIds -> S]
    BY <2>1
  <2> QED BY <2>2 DEF S
<1>4. ASSUME NEW s \in Seq(Effects), chain' = [chain EXCEPT ![t] = s],
             Publishes(tracks, chain', level),
             UNCHANGED <<tracks, level, knob, engineSide, turned, unsaid>>
      PROVE  MixerInv'
  <2>1. chain' \in [TrackIds -> Seq(Effects)]
    BY <1>3, <1>4
  <2>2. /\ tracks' \in SUBSET TrackIds /\ level' \in [TrackIds -> Knob]
        /\ Publishes(tracks', chain', level')
    BY <1>1, <1>4
  <2> QED BY <1>4, <2>1, <2>2, StructureEdited
<1>5. ASSUME NEW e \in Effects, addEffect(t, e, place)
      PROVE  MixerInv'
  <2>1. InsertAt(chain[t], place, e) \in Seq(Effects)
    BY <1>2, <1>5, InsertedIsAChain DEF addEffect
  <2> QED BY <1>4, <1>5, <2>1 DEF addEffect
<1>6. CASE removeEffect(t, place)
  <2>1. RemoveAt(chain[t], place) \in Seq(Effects)
    BY <1>2, <1>6, RemovedIsAChain DEF removeEffect
  <2> QED BY <1>4, <1>6, <2>1 DEF removeEffect
<1>7. ASSUME NEW to \in Nat, moveEffect(t, place, to)
      PROVE  MixerInv'
  <2>1. place \in DOMAIN chain[t] /\ to \in DOMAIN chain[t]
    BY <1>7 DEF moveEffect
  <2>2. /\ RemoveAt(chain[t], place) \in Seq(Effects)
        /\ Len(RemoveAt(chain[t], place)) = Len(chain[t]) - 1
    BY <1>2, <2>1, RemovedIsAChain
  <2>3. chain[t][place] \in Effects /\ to \in 1..(Len(RemoveAt(chain[t], place)) + 1)
    BY <1>2, <2>1, <2>2
  <2>4. InsertAt(RemoveAt(chain[t], place), to, chain[t][place]) \in Seq(Effects)
    BY <2>2, <2>3, InsertedIsAChain
  <2> QED BY <1>4, <1>7, <2>4 DEF moveEffect
<1> QED BY <1>5, <1>6, <1>7

\* A turn that is queued is the insert's last.
LEMMA TurnQueued ==
  ASSUME MixerInv, NEW e \in Effects, NEW to \in Knob, NEW index \in Nat,
         knob' = [knob EXCEPT ![e] = to], heard' = heard, unsaid' = unsaid \ {e},
         turned' = Append(turned, [index |-> index, to |-> to, whose |-> e])
  PROVE  /\ turned' \in Seq([index : Nat, to : Knob, whose : Effects])
         /\ KnobsOnTheirWay'
<1> DEFINE Turns == [index : Nat, to : Knob, whose : Effects]
           turn  == [index |-> index, to |-> to, whose |-> e]
<1>1. turn \in Turns /\ turn.to = to /\ turn.whose = e
  OBVIOUS
<1>2. turned \in Seq(Turns) /\ knob \in [Effects -> Knob]
  BY DEF MixerInv, MixerTypes
<1>3. turned' = Append(turned, turn)
  OBVIOUS
<1> HIDE DEF Turns, turn
<1>4. /\ turned' \in Seq(Turns) /\ Len(turned) \in Nat
      /\ DOMAIN turned = 1..Len(turned) /\ DOMAIN turned' = 1..(Len(turned) + 1)
      /\ turned'[Len(turned) + 1] = turn
      /\ \A i \in DOMAIN turned : turned'[i] = turned[i]
  BY <1>1, <1>2, <1>3
<1>5. ASSUME NEW f \in Effects \ unsaid', NEW i \in DOMAIN turned', LastTurn(f, i)'
      PROVE  turned'[i].to = knob'[f]
  <2>1. turned'[i].whose = f /\ \A j \in DOMAIN turned' : turned'[j].whose = f => j <= i
    BY <1>5 DEF LastTurn
  <2>2. CASE f = e
    <3>1. i = Len(turned) + 1
      BY <1>1, <1>4, <2>1, <2>2
    <3> QED BY <1>1, <1>2, <1>4, <2>2, <3>1
  <2>3. CASE f # e
    <3>1. i \in DOMAIN turned
      BY <1>1, <1>4, <2>1, <2>3
    <3>2. LastTurn(f, i)
      BY <1>4, <2>1, <3>1 DEF LastTurn
    <3>3. f \in Effects \ unsaid
      BY <2>3
    <3>4. turned[i].to = knob[f]
      BY <3>1, <3>2, <3>3 DEF MixerInv, KnobsOnTheirWay
    <3> QED BY <1>2, <1>4, <2>3, <3>1, <3>4
  <2> QED BY <2>2, <2>3
<1>6. ASSUME NEW f \in Effects \ unsaid', \A i \in DOMAIN turned' : turned'[i].whose # f
      PROVE  heard'[f] = knob'[f]
  <2>1. f # e
    BY <1>1, <1>4, <1>6
  <2>2. \A i \in DOMAIN turned : turned[i].whose # f
    BY <1>4, <1>6
  <2>3. heard[f] = knob[f]
    BY <2>1, <2>2 DEF MixerInv, KnobsOnTheirWay
  <2> QED BY <1>2, <2>1, <2>3
<1>7. KnobsOnTheirWay'
  BY <1>5, <1>6 DEF KnobsOnTheirWay
<1> QED BY <1>4, <1>7 DEF Turns

\* A turn that the engine is not told of is one of the unsaid.
LEMMA TurnUnsaid ==
  ASSUME MixerInv, NEW e \in Effects, NEW to \in Knob,
         knob' = [knob EXCEPT ![e] = to], UNCHANGED <<heard, turned>>,
         unsaid' = unsaid \union {e}
  PROVE  KnobsOnTheirWay'
<1>1. knob \in [Effects -> Knob]
  BY DEF MixerInv, MixerTypes
<1>2. \A f \in Effects \ unsaid' : f \in Effects \ unsaid /\ knob'[f] = knob[f]
  BY <1>1
<1> QED BY <1>2 DEF MixerInv, KnobsOnTheirWay, LastTurn

LEMMA KnobEdited ==
  ASSUME MixerInv, NEW e \in Effects, NEW to \in Knob,
         setEffectParam(e, to) \/ undoEffectParam(e, to)
  PROVE  MixerInv'
<1>1. /\ tracks' \in SUBSET TrackIds /\ chain' \in [TrackIds -> Seq(Effects)]
      /\ level' \in [TrackIds -> Knob] /\ knob' = [knob EXCEPT ![e] = to]
      /\ Publishes(tracks', chain', level') /\ UNCHANGED engineSide
  BY DEF MixerInv, MixerTypes, setEffectParam, undoEffectParam
<1>2. wanted' \in Descriptions /\ OnItsWay' /\ LevelsStored'
  BY <1>1, PublishedIsOnItsWay DEF MixerInv, engineSide
<1>3. turned' \in Seq([index : Nat, to : Knob, whose : Effects]) /\ KnobsOnTheirWay'
  <2>1. CASE undoEffectParam(e, to)
    BY <1>1, <2>1, TurnUnsaid DEF undoEffectParam, engineSide, MixerInv, MixerTypes
  <2>2. CASE setEffectParam(e, to) /\ turned' = turned /\ unsaid' = unsaid \union {e}
    BY <1>1, <2>2, TurnUnsaid DEF engineSide, MixerInv, MixerTypes
  <2>3. CASE /\ addressed'[e] \in Nat /\ unsaid' = unsaid \ {e}
             /\ turned' = Append(turned, [index |-> addressed'[e], to |-> to, whose |-> e])
    BY <1>1, <2>3, TurnQueued DEF engineSide
  <2> QED BY <2>1, <2>2, <2>3 DEF setEffectParam
<1>4. MixerTypes'
  <2>1. knob' \in [Effects -> Knob]
    BY <1>1 DEF MixerInv, MixerTypes
  <2> QED BY <1>1, <1>2, <1>3, <2>1 DEF MixerInv, MixerTypes, engineSide
<1> QED BY <1>2, <1>3, <1>4 DEF MixerInv

-----------------------------------------------------------------------------
(* The mixer is taken up and rendered *)

LEMMA LevelsTaken ==
  ASSUME MixerInv, StoreLevels
  PROVE  MixerInv'
<1>1. wanted = Project /\ working' = Project /\ wanted' = NoMixer
  BY DEF StoreLevels, MixerInv, OnItsWay
<1>2. tracks \in SUBSET TrackIds /\ chain \in [TrackIds -> Seq(Effects)]
      /\ level \in [TrackIds -> Knob] /\ DOMAIN track_gain = 1..Cardinality(TrackIds)
  BY DEF MixerInv, MixerTypes
<1>3. /\ Project # NoMixer /\ Project \in Descriptions
      /\ DOMAIN Project.levels = 1..Cardinality(tracks)
      /\ \A i \in 1..Cardinality(tracks) : Project.levels[i] = level[Dense(tracks)[i]]
  BY <1>2, DescribesTheTracks DEF Project
<1>4. Project' = Project
  BY DEF Project, StoreLevels, modelVars
<1>5. OnItsWay'
  BY <1>1, <1>3, <1>4 DEF MixerInv, OnItsWay, StoreLevels
<1>6. LevelsStored'
  <2>1. 1..Cardinality(tracks) \subseteq DOMAIN track_gain
    BY <1>2, DenseOrders
  <2>2. \A i \in 1..Cardinality(tracks) : track_gain'[i] = Project.levels[i]
    BY <1>1, <1>3, <2>1 DEF StoreLevels
  <2> QED BY <1>3, <2>2 DEF LevelsStored, StoreLevels, modelVars
<1>7. MixerTypes'
  BY <1>1, <1>3 DEF MixerInv, MixerTypes, StoreLevels, modelVars
<1>8. KnobsOnTheirWay'
  BY DEF MixerInv, KnobsOnTheirWay, LastTurn, StoreLevels, modelVars
<1> QED BY <1>5, <1>6, <1>7, <1>8 DEF MixerInv

LEMMA GraphKept ==
  ASSUME MixerInv, KeepGraph
  PROVE  MixerInv'
<1>1. /\ working # NoMixer /\ shape # NoMixer /\ shape' = working /\ working' = NoMixer
      /\ working.tracks = shape.tracks /\ working.chains = shape.chains
      /\ UNCHANGED <<modelVars, wanted, graph, heard, track_gain, turned, mixing, unsaid>>
  BY DEF KeepGraph, SameShape
<1>2. Project' = Project
  BY <1>1 DEF Project, modelVars
<1>3. OnItsWay'
  BY <1>1, <1>2 DEF MixerInv, OnItsWay
<1>4. MixerTypes'
  BY <1>1 DEF MixerInv, MixerTypes, modelVars
<1>5. LevelsStored' /\ KnobsOnTheirWay'
  BY <1>1 DEF MixerInv, LevelsStored, KnobsOnTheirWay, LastTurn, modelVars
<1> QED BY <1>3, <1>4, <1>5 DEF MixerInv

\* A new instance has its knob at Default: whoever had it elsewhere is unsaid.
LEMMA GraphBuilt ==
  ASSUME MixerInv, BuildGraph
  PROVE  MixerInv'
<1>1. /\ working # NoMixer /\ shape' = working /\ working' = NoMixer
      /\ graph' = [tracks |-> working.tracks, chains |-> working.chains]
      /\ mixing' = IF mixing = "rendering" THEN "outdated" ELSE mixing
      /\ UNCHANGED <<modelVars, wanted, track_gain, turned>>
  BY DEF BuildGraph
<1>2. /\ heard' = [e \in Effects |-> Default]
      /\ unsaid' = unsaid \union {e \in Effects : knob[e] # Default \/ heard[e] # Default}
  BY DEF BuildGraph, SameShape
<1>3. Project' = Project
  BY <1>1 DEF Project, modelVars
<1>4. OnItsWay'
  BY <1>1, <1>3 DEF MixerInv, OnItsWay
<1>5. MixerTypes'
  BY <1>1, <1>2, MixerGraphAssumption DEF MixerInv, MixerTypes, modelVars
<1>6. LevelsStored'
  BY <1>1 DEF MixerInv, LevelsStored, modelVars
<1>7. KnobsOnTheirWay'
  <2>1. knob' = knob /\ turned' = turned
    BY <1>1 DEF modelVars
  <2>2. \A e \in Effects \ unsaid' : e \in Effects \ unsaid /\ knob[e] = Default /\ heard'[e] = Default
    BY <1>2
  <2> QED BY <2>1, <2>2 DEF MixerInv, KnobsOnTheirWay, LastTurn
<1> QED BY <1>4, <1>5, <1>6, <1>7 DEF MixerInv

LEMMA ChunkBegun ==
  ASSUME MixerInv, StartChunk \/ AcquireMixer
  PROVE  MixerInv'
<1>1. UNCHANGED <<modelVars, wanted, working, shape, graph, heard, track_gain, turned, unsaid>>
  BY DEF StartChunk, AcquireMixer
<1>2. mixing' \in {"idle", "filling", "rendering", "outdated"}
  BY DEF StartChunk, AcquireMixer
<1>3. MixerTypes'
  BY <1>1, <1>2 DEF MixerInv, MixerTypes, modelVars
<1>4. OnItsWay' /\ LevelsStored'
  BY <1>1 DEF MixerInv, OnItsWay, LevelsStored, Project, modelVars
<1>5. KnobsOnTheirWay'
  BY <1>1 DEF MixerInv, KnobsOnTheirWay, LastTurn, modelVars
<1> QED BY <1>3, <1>4, <1>5 DEF MixerInv

\* What an insert is told last, of the turns a chunk takes.
LEMMA ToldTheLast ==
  ASSUME NEW turns, NEW n \in Nat, DOMAIN turns = 1..n, NEW e
  PROVE  \/ /\ \A i \in 1..n : e \notin Reached(turns[i])
            /\ Told(e, turns) = heard[e]
         \/ \E i \in 1..n : /\ e \in Reached(turns[i]) /\ Told(e, turns) = turns[i].to
                            /\ \A j \in 1..n : e \in Reached(turns[j]) => j <= i
<1> DEFINE reaching == {i \in DOMAIN turns : e \in Reached(turns[i])}
<1>1. CASE reaching = {}
  BY <1>1 DEF Told
<1>2. CASE reaching # {}
  <2>1. reaching \in SUBSET (0..n)
    OBVIOUS
  <2>2. \E greatest \in reaching : \A m \in reaching : greatest >= m
    BY <1>2, <2>1, GreatestOfSome
  <2>3. Max(reaching) \in reaching /\ \A m \in reaching : Max(reaching) >= m
    BY <2>2 DEF Max
  <2>4. Told(e, turns) = turns[Max(reaching)].to
    BY <1>2 DEF Told
  <2>5. \A m \in reaching : m <= Max(reaching)
    <3> HIDE DEF reaching
    <3> QED BY <2>1, <2>3
  <2> QED BY <2>3, <2>4, <2>5
<1> QED BY <1>1, <1>2

LEMMA TurnsTold ==
  ASSUME MixerInv, MixTracks
  PROVE  MixerInv'
<1> DEFINE Turns   == [index : Nat, to : Knob, whose : Effects]
           count   == IF Len(turned) < ChunkTurns THEN Len(turned) ELSE ChunkTurns
           drained == SubSeq(turned, 1, count)
           lost    == UNION {IF Reached(drained[i]) = {drained[i].whose} THEN {}
                             ELSE Reached(drained[i]) \union {drained[i].whose}
                             : i \in DOMAIN drained}
<1>1. /\ mixing' = "idle" /\ turned' = SubSeq(turned, count + 1, Len(turned))
      /\ heard' = [e \in Effects |-> Told(e, drained)] /\ unsaid' = unsaid \union lost
      /\ UNCHANGED <<modelVars, wanted, working, shape, graph, track_gain>>
  BY DEF MixTracks
<1>2. turned \in Seq(Turns)
  BY DEF MixerInv, MixerTypes
<1> HIDE DEF Turns
<1>3. count \in Nat /\ count <= Len(turned) /\ Len(turned) \in Nat
  BY <1>2, MixerGraphAssumption
<1> HIDE DEF count
<1>4. /\ DOMAIN turned = 1..Len(turned)
      /\ DOMAIN drained = 1..count /\ \A i \in 1..count : drained[i] = turned[i]
      /\ turned' \in Seq(Turns) /\ DOMAIN turned' = 1..(Len(turned) - count)
      /\ \A i \in 1..(Len(turned) - count) : turned'[i] = turned[i + count]
  BY <1>1, <1>2, <1>3
<1> HIDE DEF drained
\* An insert that is not among the lost is told its own turns and no others.
<1>5. ASSUME NEW e \in Effects \ unsaid', NEW i \in 1..count
      PROVE  e \in Reached(drained[i]) <=> turned[i].whose = e
  <2>1. e \notin lost
    BY <1>1, <1>5
  <2>2. e \notin (IF Reached(drained[i]) = {drained[i].whose} THEN {}
                  ELSE Reached(drained[i]) \union {drained[i].whose})
    BY <1>4, <1>5, <2>1
  <2>3. drained[i].whose = turned[i].whose
    BY <1>4, <1>5
  <2> QED BY <2>2, <2>3
<1>6. \A e \in Effects \ unsaid' : e \in Effects \ unsaid /\ heard'[e] = Told(e, drained)
  BY <1>1
<1>7. ASSUME NEW e \in Effects \ unsaid', NEW i \in DOMAIN turned', LastTurn(e, i)'
      PROVE  turned'[i].to = knob'[e]
  <2>1. /\ i + count \in DOMAIN turned /\ turned'[i] = turned[i + count]
        /\ i \in Nat
    BY <1>3, <1>4
  <2>2. turned'[i].whose = e /\ \A j \in DOMAIN turned' : turned'[j].whose = e => j <= i
    BY <1>7 DEF LastTurn
  <2>3. ASSUME NEW j \in DOMAIN turned, turned[j].whose = e
        PROVE  j <= i + count
    <3>1. CASE j <= count
      BY <1>3, <1>4, <2>1, <3>1
    <3>2. CASE j > count
      <4>1. j - count \in DOMAIN turned' /\ (j - count) + count = j
        BY <1>3, <1>4, <3>2
      <4>2. turned'[j - count] = turned[j]
        BY <1>4, <4>1
      <4>3. j - count <= i
        BY <2>2, <2>3, <4>1, <4>2
      <4> QED BY <1>3, <1>4, <2>1, <4>3
    <3> QED BY <1>3, <1>4, <3>1, <3>2
  <2>4. LastTurn(e, i + count)
    BY <2>1, <2>2, <2>3 DEF LastTurn
  <2>5. turned[i + count].to = knob[e]
    BY <1>6, <2>1, <2>4 DEF MixerInv, KnobsOnTheirWay
  <2> QED BY <1>1, <2>1, <2>5 DEF modelVars
<1>8. ASSUME NEW e \in Effects \ unsaid', \A i \in DOMAIN turned' : turned'[i].whose # e
      PROVE  heard'[e] = knob'[e]
  <2>1. \A j \in DOMAIN turned : turned[j].whose = e => j \in 1..count
    <3> SUFFICES ASSUME NEW j \in DOMAIN turned, turned[j].whose = e, j > count
                 PROVE  FALSE
      BY <1>3, <1>4
    <3>1. j - count \in DOMAIN turned' /\ (j - count) + count = j
      BY <1>3, <1>4
    <3>2. turned'[j - count] = turned[j]
      BY <1>4, <3>1
    <3> QED BY <1>8, <3>1, <3>2
  <2>2. 1..count \subseteq DOMAIN turned
    BY <1>3, <1>4
  <2>3. CASE /\ \A i \in 1..count : e \notin Reached(drained[i])
             /\ Told(e, drained) = heard[e]
    <3>1. \A i \in DOMAIN turned : turned[i].whose # e
      BY <1>5, <2>1, <2>3
    <3>2. heard[e] = knob[e]
      BY <1>6, <3>1 DEF MixerInv, KnobsOnTheirWay
    <3> QED BY <1>1, <1>6, <2>3, <3>2 DEF modelVars
  <2>4. ASSUME NEW i \in 1..count, e \in Reached(drained[i]), Told(e, drained) = drained[i].to,
               \A j \in 1..count : e \in Reached(drained[j]) => j <= i
        PROVE  heard'[e] = knob'[e]
    <3>1. turned[i].whose = e
      BY <1>5, <2>4
    <3>2. \A j \in DOMAIN turned : turned[j].whose = e => j <= i
      BY <1>5, <2>1, <2>4
    <3>3. LastTurn(e, i) /\ i \in DOMAIN turned
      BY <2>2, <3>1, <3>2 DEF LastTurn
    <3>4. turned[i].to = knob[e]
      BY <1>6, <3>3 DEF MixerInv, KnobsOnTheirWay
    <3> QED BY <1>1, <1>4, <1>6, <2>4, <3>4 DEF modelVars
  <2>5. \/ /\ \A i \in 1..count : e \notin Reached(drained[i])
           /\ Told(e, drained) = heard[e]
        \/ \E i \in 1..count : /\ e \in Reached(drained[i]) /\ Told(e, drained) = drained[i].to
                               /\ \A j \in 1..count : e \in Reached(drained[j]) => j <= i
    BY <1>3, <1>4, ToldTheLast
  <2> QED BY <2>3, <2>4, <2>5
<1>9. KnobsOnTheirWay'
  BY <1>7, <1>8 DEF KnobsOnTheirWay
<1>10. heard' \in [Effects -> Knob]
  <2>1. \A i \in 1..count : drained[i].to \in Knob
    <3>1. \A i \in 1..count : turned[i] \in Turns
      BY <1>2, <1>3, <1>4
    <3> QED BY <1>4, <3>1 DEF Turns
  <2>2. \A e \in Effects : heard[e] \in Knob
    BY DEF MixerInv, MixerTypes
  <2>3. \A e \in Effects : Told(e, drained) \in Knob
    BY <1>3, <1>4, <2>1, <2>2, ToldTheLast
  <2> QED BY <1>1, <2>3
<1>11. MixerTypes'
  BY <1>1, <1>4, <1>10 DEF MixerInv, MixerTypes, modelVars, Turns
<1>12. OnItsWay' /\ LevelsStored'
  BY <1>1 DEF MixerInv, OnItsWay, LevelsStored, Project, modelVars
<1> QED BY <1>9, <1>11, <1>12 DEF MixerInv

LEMMA MixerBegins == MixerInit => MixerInv
<1> SUFFICES ASSUME MixerInit
             PROVE  MixerInv
  OBVIOUS
<1>1. {Master} \in SUBSET TrackIds /\ Default \in Knob /\ <<>> \in Seq(Effects)
  BY MasterIsATrack, MixerGraphAssumption
<1>2. /\ tracks = {Master} /\ chain \in [TrackIds -> Seq(Effects)]
      /\ level \in [TrackIds -> Knob]
  <2> DEFINE S == Seq(Effects)
  <2>1. <<>> \in S
    BY <1>1
  <2> HIDE DEF S
  <2>2. chain \in [TrackIds -> S]
    BY <2>1 DEF MixerInit
  <2> QED BY <1>1, <2>2 DEF MixerInit, S
<1>3. Cardinality({Master}) = 1
  BY FS_Singleton
<1>4. Dense({Master}) = <<Master>>
  <2>1. Dense({Master}) \in [1..1 -> {Master}]
    BY <1>1, <1>3, DenseOrders DEF IsDense
  <2> QED BY <2>1
<1>5. wanted = Project
  <2> DEFINE order == Dense({Master})
  <2>1. Project = [tracks |-> order, chains |-> [i \in DOMAIN order |-> chain[order[i]]],
                   levels |-> [i \in DOMAIN order |-> level[order[i]]]]
    BY <1>2 DEF Project, Described
  <2>2. order = <<Master>>
    BY <1>4
  <2> HIDE DEF order
  <2>3. DOMAIN order = 1..1 /\ order[1] = Master
    BY <2>2
  <2>4. [i \in DOMAIN order |-> chain[order[i]]] = <<<<>>>>
    BY <1>1, <2>3 DEF MixerInit
  <2>5. [i \in DOMAIN order |-> level[order[i]]] = <<Default>>
    BY <1>1, <2>3 DEF MixerInit
  <2>6. Project = [tracks |-> <<Master>>, chains |-> <<<<>>>>, levels |-> <<Default>>]
    BY <2>1, <2>2, <2>4, <2>5
  <2> QED BY <2>6 DEF MixerInit
<1>6. wanted \in Descriptions /\ wanted # NoMixer
  BY <1>1, <1>2, <1>5, DescribesTheTracks DEF Project
<1>7. MixerTypes
  BY <1>1, <1>2, <1>6 DEF MixerInit, MixerTypes
<1>8. OnItsWay /\ LevelsStored
  BY <1>5, <1>6 DEF MixerInit, OnItsWay, LevelsStored
<1>9. KnobsOnTheirWay
  BY DEF MixerInit, KnobsOnTheirWay
<1> QED BY <1>7, <1>8, <1>9 DEF MixerInv

LEMMA MixerStep == MixerInv /\ [MixerNext]_mixerVars => MixerInv'
<1> SUFFICES ASSUME MixerInv, [MixerNext]_mixerVars
             PROVE  MixerInv'
  OBVIOUS
<1>1. ASSUME NEW t \in TrackIds, addMixerTrack(t) \/ removeMixerTrack(t)
      PROVE  MixerInv'
  BY <1>1, TracksEdited
<1>2. ASSUME NEW t \in TrackIds, NEW to \in Knob, setTrackGain(t, to)
      PROVE  MixerInv'
  BY <1>2, TracksEdited
<1>3. 1..Cardinality(Effects) \subseteq Nat
  OBVIOUS
<1>4. ASSUME NEW t \in TrackIds, NEW e \in Effects, NEW place \in 1..Cardinality(Effects),
             addEffect(t, e, place)
      PROVE  MixerInv'
  BY <1>3, <1>4, ChainsEdited
<1>5. ASSUME NEW t \in TrackIds, NEW place \in 1..Cardinality(Effects), removeEffect(t, place)
      PROVE  MixerInv'
  BY <1>3, <1>5, ChainsEdited
<1>6. ASSUME NEW t \in TrackIds, NEW i \in 1..Cardinality(Effects),
             NEW j \in 1..Cardinality(Effects), moveEffect(t, i, j)
      PROVE  MixerInv'
  BY <1>3, <1>6, ChainsEdited
<1>7. ASSUME NEW e \in Effects, NEW to \in Knob, setEffectParam(e, to) \/ undoEffectParam(e, to)
      PROVE  MixerInv'
  BY <1>7, KnobEdited
<1>8. CASE UNCHANGED mixerVars
  BY <1>8 DEF mixerVars, modelVars, MixerInv, MixerTypes, OnItsWay, LevelsStored,
              KnobsOnTheirWay, LastTurn, Project
<1> QED BY <1>1, <1>2, <1>4, <1>5, <1>6, <1>7, <1>8, LevelsTaken, GraphKept, GraphBuilt,
           ChunkBegun, TurnsTold DEF MixerNext

(* Once the engine has caught up with the edits, the graph it renders is of *)
(* the project's tracks, chains and levels, and an insert is heard as its  *)
(* knob stands unless the engine lost the turn or was never told it; for   *)
(* every set of tracks and inserts, and every capacity of the queue.       *)
THEOREM TheProjectsMixerIsHeard == MixerSpec => []MixerIsTheProjectsAndHeard
<1>1. MixerInv => MixerIsTheProjectsAndHeard
  <2> SUFFICES ASSUME MixerInv, AtRest
               PROVE  MixerIsTheProjectsAndHeard
    BY DEF MixerIsTheProjectsAndHeard, MixerIsTheProjects, KnobIsHeardUnlessUnsaid
  <2>1. shape = Project /\ graph = [tracks |-> shape.tracks, chains |-> shape.chains]
    <3>1. shape = Project
      BY DEF AtRest, MixerInv, OnItsWay
    <3>2. Project # NoMixer
      BY DescribesTheTracks DEF MixerInv, MixerTypes, Project
    <3> QED BY <3>1, <3>2 DEF MixerInv, OnItsWay
  <2>2. Project.tracks = Dense(tracks)
    BY DEF Project, Described
  <2>3. MixerIsTheProjects
    BY <2>1, <2>2 DEF AtRest, MixerInv, LevelsStored, MixerIsTheProjects, Project
  <2>4. Inserts(chain) \subseteq Effects
    BY DEF MixerInv, MixerTypes, Inserts, ToSet
  <2>5. KnobIsHeardUnlessUnsaid
    BY <2>4 DEF AtRest, MixerInv, KnobsOnTheirWay, KnobIsHeardUnlessUnsaid
  <2> QED BY <2>3, <2>5 DEF MixerIsTheProjectsAndHeard
<1> QED BY <1>1, MixerBegins, MixerStep, PTL DEF MixerSpec

-----------------------------------------------------------------------------
(* What the engine is told of the document *)

IsSequence(s) == \E S : s \in Seq(S)

IsHistory(h) == IsSequence(h) /\ \A i \in 1..Len(h) : IsDocument(h[i])

HistoryInv ==
  /\ minted \in Nat
  /\ IsDocument(document) /\ IsHistory(done) /\ IsHistory(undone)

IsTransport(t) == t = [tempo |-> t.tempo, end |-> t.end, loop |-> t.loop]

IsDesk(d) ==
  /\ d = [announced |-> d.announced, post |-> d.post, dirty |-> d.dirty, schedule |-> d.schedule,
          turnedAway |-> d.turnedAway, outOfDate |-> d.outOfDate, renewed |-> d.renewed]
  /\ IsTransport(d.announced) /\ IsSequence(d.post)

(* The value a type of command is left with when the queue is drained: that *)
(* of the last command of the type, or what was before if there is none.    *)
LeadsTo(post, type, earlier, value) ==
  \/ earlier = value /\ \A i \in 1..Len(post) : post[i].type # type
  \/ \E i \in 1..Len(post) :
       /\ post[i].type = type /\ post[i].value = value
       /\ \A j \in 1..Len(post) : j > i => post[j].type # type

TempoLeads(d)  == LeadsTo(d.post, "tempo", transport.tempo, d.announced.tempo)
RegionLeads(d) == LeadsTo(d.post, "loop", Region(transport), Region(d.announced))

LeadsOn(d) ==
  /\ ~d.turnedAway => TempoLeads(d)
  /\ ~d.turnedAway /\ ~d.outOfDate => RegionLeads(d)

(* The desk is in step with a document, a selection and a preview. *)
InStep(d, doc, chosen, preview) ==
  /\ IsDesk(d)
  /\ d.announced = Wanted(doc, chosen, preview)
  /\ LeadsOn(d)
  /\ ~d.renewed => d.schedule = Shown(doc, chosen, preview)

PublishInv ==
  HistoryInv /\ IsTransport(transport) /\ InStep(desk, document, shownPattern, audition)

-----------------------------------------------------------------------------
(* Sequences of anything *)

LEMMA AppendsTo ==
  ASSUME NEW s, NEW x, IsSequence(s)
  PROVE  /\ IsSequence(Append(s, x)) /\ Len(s) \in Nat /\ Len(Append(s, x)) = Len(s) + 1
         /\ Append(s, x)[Len(s) + 1] = x
         /\ \A i \in 1..Len(s) : Append(s, x)[i] = s[i]
<1>1. PICK S : s \in Seq(S)
  BY DEF IsSequence
<1>2. s \in Seq(S \cup {x}) /\ x \in S \cup {x}
  BY <1>1
<1>3. Append(s, x) \in Seq(S \cup {x})
  BY <1>2
<1> HIDE DEF IsSequence
<1> QED
  BY <1>2, <1>3 DEF IsSequence

LEMMA TailOf ==
  ASSUME NEW s, IsSequence(s), s # <<>>
  PROVE  /\ IsSequence(Tail(s)) /\ Len(s) \in Nat \ {0} /\ Len(Tail(s)) = Len(s) - 1
         /\ Head(s) = s[1]
         /\ \A i \in 1..Len(Tail(s)) : Tail(s)[i] = s[i + 1]
<1>1. PICK S : s \in Seq(S)
  BY DEF IsSequence
<1>2. Tail(s) \in Seq(S)
  BY <1>1
<1> QED
  BY <1>1, <1>2 DEF IsSequence

LEMMA FrontOf ==
  ASSUME NEW s, IsSequence(s), s # <<>>
  PROVE  /\ IsSequence(Front(s)) /\ Len(s) \in Nat \ {0} /\ Len(Front(s)) = Len(s) - 1
         /\ Last(s) = s[Len(s)]
         /\ \A i \in 1..Len(Front(s)) : Front(s)[i] = s[i]
<1>1. PICK S : s \in Seq(S)
  BY DEF IsSequence
<1>2. Len(s) \in Nat \ {0}
  BY <1>1
<1>3. Front(s) = [i \in 1..(Len(s) - 1) |-> s[i]]
  BY <1>1, <1>2 DEF Front
<1>4. Front(s) \in Seq(S) /\ Len(Front(s)) = Len(s) - 1
  BY <1>1, <1>2, <1>3
<1> QED
  BY <1>1, <1>2, <1>3, <1>4 DEF IsSequence, Last

LEMMA EmptySequence == IsSequence(<<>>) /\ Len(<<>>) = 0
<1>1. <<>> \in Seq({})
  OBVIOUS
<1> QED
  BY <1>1 DEF IsSequence

LEMMA EmptyHistory == IsHistory(<<>>)
BY EmptySequence DEF IsHistory

LEMMA HistoryGrows ==
  ASSUME NEW h, NEW doc, IsHistory(h), IsDocument(doc)
  PROVE  IsHistory(Append(h, doc))
<1>1. \A i \in 1..Len(Append(h, doc)) : i \in 1..Len(h) \/ i = Len(h) + 1
  BY AppendsTo DEF IsHistory
<1> QED
  BY <1>1, AppendsTo DEF IsHistory

LEMMA HistoryShrinks ==
  ASSUME NEW h, IsHistory(h), h # <<>>
  PROVE  IsHistory(Front(h)) /\ IsDocument(Last(h))
BY FrontOf DEF IsHistory

-----------------------------------------------------------------------------
(* What a command does to where the queue leads *)

LEMMA LeadsByLast ==
  ASSUME NEW post, NEW command, NEW earlier, IsSequence(post)
  PROVE  LeadsTo(Append(post, command), command.type, earlier, command.value)
<1>1. Len(post) + 1 \in 1..Len(Append(post, command))
  BY AppendsTo
<1>2. \A j \in 1..Len(Append(post, command)) : ~(j > Len(post) + 1)
  BY AppendsTo
<1> QED
  BY <1>1, <1>2, AppendsTo DEF LeadsTo

LEMMA LeadsPastOther ==
  ASSUME NEW post, NEW command, NEW type, NEW earlier, NEW value,
         IsSequence(post), command.type # type, LeadsTo(post, type, earlier, value)
  PROVE  LeadsTo(Append(post, command), type, earlier, value)
<1> DEFINE more == Append(post, command)
<1>1. \A j \in 1..Len(more) : j \in 1..Len(post) \/ j = Len(post) + 1
  BY AppendsTo
<1>2. \A j \in 1..Len(more) : more[j].type # type \/ (j \in 1..Len(post) /\ post[j].type = type)
  BY <1>1, AppendsTo
<1>3. CASE earlier = value /\ \A i \in 1..Len(post) : post[i].type # type
  BY <1>2, <1>3 DEF LeadsTo
<1>4. CASE \E i \in 1..Len(post) : /\ post[i].type = type /\ post[i].value = value
                                   /\ \A j \in 1..Len(post) : j > i => post[j].type # type
  <2>1. PICK i \in 1..Len(post) : /\ post[i].type = type /\ post[i].value = value
                                  /\ \A j \in 1..Len(post) : j > i => post[j].type # type
    BY <1>4
  <2>2. i \in 1..Len(more) /\ more[i] = post[i]
    BY AppendsTo
  <2>3. \A j \in 1..Len(more) : j > i => more[j].type # type
    BY <1>2, <2>1
  <2> QED
    BY <2>1, <2>2, <2>3 DEF LeadsTo
<1> QED
  BY <1>3, <1>4 DEF LeadsTo

LEMMA LeadsOnFromHead ==
  ASSUME NEW post, NEW type, NEW earlier, NEW value, NEW now,
         IsSequence(post), post # <<>>, LeadsTo(post, type, earlier, value),
         Head(post).type # type => now = earlier,
         Head(post).type = type /\ Head(post).value = value => now = value
  PROVE  LeadsTo(Tail(post), type, now, value)
<1> DEFINE rest == Tail(post)
<1>1. \A j \in 1..Len(rest) : j + 1 \in 1..Len(post) /\ rest[j] = post[j + 1] /\ j \in Nat
  BY TailOf
<1>2. 1 \in 1..Len(post) /\ Head(post) = post[1]
  BY TailOf
<1>3. CASE earlier = value /\ \A i \in 1..Len(post) : post[i].type # type
  BY <1>1, <1>2, <1>3 DEF LeadsTo
<1>4. CASE \E i \in 1..Len(post) : /\ post[i].type = type /\ post[i].value = value
                                   /\ \A j \in 1..Len(post) : j > i => post[j].type # type
  <2>1. PICK i \in 1..Len(post) : /\ post[i].type = type /\ post[i].value = value
                                  /\ \A j \in 1..Len(post) : j > i => post[j].type # type
    BY <1>4
  <2>2. CASE i = 1
    <3>1. \A j \in 1..Len(rest) : j + 1 > i
      BY <1>1, <2>2
    <3>2. \A j \in 1..Len(rest) : rest[j].type # type
      BY <1>1, <2>1, <3>1
    <3> QED
      BY <1>2, <2>1, <2>2, <3>2 DEF LeadsTo
  <2>3. CASE i # 1
    <3>1. i - 1 \in 1..Len(rest) /\ (i - 1) + 1 = i
      BY <2>3, TailOf
    <3>2. rest[i - 1] = post[i]
      BY <1>1, <3>1
    <3>3. \A j \in 1..Len(rest) : j > i - 1 => j + 1 > i
      BY <1>1, <3>1
    <3>4. \A j \in 1..Len(rest) : j > i - 1 => rest[j].type # type
      BY <1>1, <2>1, <3>3
    <3> QED
      BY <2>1, <3>1, <3>2, <3>4 DEF LeadsTo
  <2> QED
    BY <2>2, <2>3
<1> QED
  BY <1>3, <1>4 DEF LeadsTo

-----------------------------------------------------------------------------
(* A command posted, and a publish *)

LEMMA PostedLast ==
  ASSUME NEW d, NEW type, NEW value, NEW r,
         IsDesk(d), r = Post(d, type, value), ~r.turnedAway
  PROVE  r.post = Append(d.post, [type |-> type, value |-> value])
BY DEF IsDesk, Post

LEMMA RefusedForGood ==
  ASSUME NEW d, NEW type, NEW value, NEW r,
         IsDesk(d), r = Post(d, type, value), ~r.turnedAway
  PROVE  ~d.turnedAway
BY DEF IsDesk, Post

LEMMA Posted ==
  ASSUME NEW d, NEW type, NEW value, NEW r,
         IsDesk(d), r = Post(d, type, value)
  PROVE  /\ IsDesk(r) /\ r.announced = d.announced /\ r.dirty = d.dirty
         /\ r.schedule = d.schedule /\ r.renewed = d.renewed /\ r.outOfDate = d.outOfDate
<1>1. IsSequence(Append(d.post, [type |-> type, value |-> value]))
  BY AppendsTo DEF IsDesk
<1> QED
  BY <1>1 DEF IsDesk, Post

LEMMA PostedLeads ==
  ASSUME NEW d, NEW type, NEW value, NEW r,
         IsDesk(d), r = Post(d, type, value), ~r.turnedAway
  PROVE  /\ type = "tempo" /\ value = d.announced.tempo => TempoLeads(r)
         /\ type = "loop" /\ value = Region(d.announced) => RegionLeads(r)
         /\ type # "tempo" /\ TempoLeads(d) => TempoLeads(r)
         /\ type # "loop" /\ RegionLeads(d) => RegionLeads(r)
<1> DEFINE command == [type |-> type, value |-> value]
<1>1. r.post = Append(d.post, command) /\ r.announced = d.announced /\ IsSequence(d.post)
  BY Posted, PostedLast DEF IsDesk
<1>2. command.type = type /\ command.value = value
  OBVIOUS
<1> HIDE DEF command
<1>3. type = "tempo" /\ value = d.announced.tempo => TempoLeads(r)
  BY <1>1, <1>2, LeadsByLast DEF TempoLeads
<1>4. type = "loop" /\ value = Region(d.announced) => RegionLeads(r)
  BY <1>1, <1>2, LeadsByLast DEF RegionLeads
<1>5. type # "tempo" /\ TempoLeads(d) => TempoLeads(r)
  BY <1>1, <1>2, LeadsPastOther DEF TempoLeads
<1>6. type # "loop" /\ RegionLeads(d) => RegionLeads(r)
  BY <1>1, <1>2, LeadsPastOther DEF RegionLeads
<1> QED
  BY <1>3, <1>4, <1>5, <1>6

LEMMA TempoIsTold ==
  ASSUME NEW d, NEW aim, NEW r, IsDesk(d), r = TempoTold(d, aim)
  PROVE  /\ IsDesk(r) /\ r.announced.tempo = aim.tempo
         /\ r.announced.end = d.announced.end /\ r.announced.loop = d.announced.loop
         /\ r.dirty = d.dirty /\ r.schedule = d.schedule /\ r.renewed = d.renewed
         /\ r.outOfDate = d.outOfDate
         /\ ~r.turnedAway => ~d.turnedAway
         /\ ~r.turnedAway /\ TempoLeads(d) => TempoLeads(r)
         /\ ~r.turnedAway /\ RegionLeads(d) => RegionLeads(r)
<1> DEFINE e == [d EXCEPT !.announced.tempo = aim.tempo]
<1>1. CASE aim.tempo = d.announced.tempo
  <2>1. r = d
    BY <1>1 DEF TempoTold
  <2> QED
    BY <1>1, <2>1
<1>2. CASE aim.tempo # d.announced.tempo
  <2>1. r = Post(e, "tempo", aim.tempo)
    BY <1>2 DEF TempoTold
  <2>2. /\ IsDesk(e) /\ e.announced.tempo = aim.tempo
        /\ e.announced.end = d.announced.end /\ e.announced.loop = d.announced.loop
        /\ e.dirty = d.dirty /\ e.schedule = d.schedule /\ e.renewed = d.renewed
        /\ e.outOfDate = d.outOfDate /\ e.turnedAway = d.turnedAway /\ e.post = d.post
    BY DEF IsDesk, IsTransport
  <2>3. Region(e.announced) = Region(d.announced)
    BY <2>2 DEF Region
  <2>4. RegionLeads(d) => RegionLeads(e)
    BY <2>2, <2>3 DEF RegionLeads
  <2> HIDE DEF e
  <2>5. /\ IsDesk(r) /\ r.announced = e.announced /\ r.dirty = e.dirty
        /\ r.schedule = e.schedule /\ r.renewed = e.renewed /\ r.outOfDate = e.outOfDate
        /\ ~r.turnedAway => ~e.turnedAway
    BY <2>1, <2>2, Posted, RefusedForGood
  <2>6. ~r.turnedAway => TempoLeads(r) /\ (RegionLeads(e) => RegionLeads(r))
    BY <2>1, <2>2, PostedLeads
  <2> QED
    BY <2>2, <2>4, <2>5, <2>6
<1> QED
  BY <1>1, <1>2

LEMMA LoopIsTold ==
  ASSUME NEW d, NEW aim, NEW r, IsDesk(d), r = LoopTold(d, aim)
  PROVE  /\ IsDesk(r)
         /\ r.announced.tempo = d.announced.tempo
         /\ r.announced.end = aim.end /\ r.announced.loop = aim.loop
         /\ r.dirty = d.dirty /\ r.schedule = d.schedule /\ r.renewed = d.renewed
         /\ ~r.turnedAway => ~d.turnedAway
         /\ ~r.turnedAway /\ TempoLeads(d) => TempoLeads(r)
         /\ ~r.turnedAway /\ ~r.outOfDate /\ (~d.outOfDate => RegionLeads(d)) => RegionLeads(r)
<1> DEFINE e == [d EXCEPT !.announced = [tempo |-> @.tempo, end |-> aim.end, loop |-> aim.loop],
                          !.outOfDate = FALSE]
           spoken == [tempo |-> d.announced.tempo, end |-> aim.end, loop |-> aim.loop]
<1>1. CASE Region(aim) = Region(d.announced)
  <2>1. r = d
    BY <1>1 DEF LoopTold
  <2>2. aim.end = d.announced.end /\ aim.loop = d.announced.loop
    BY <1>1 DEF Region
  <2> QED
    BY <2>1, <2>2
<1>2. CASE Region(aim) # Region(d.announced)
  <2>1. r = Post(e, "loop", Region(aim))
    BY <1>2 DEF LoopTold, RegionTold
  <2>2. /\ e.announced = spoken /\ e.post = d.post /\ e.turnedAway = d.turnedAway
        /\ e.dirty = d.dirty /\ e.schedule = d.schedule /\ e.renewed = d.renewed
        /\ e = [announced |-> e.announced, post |-> e.post, dirty |-> e.dirty,
                schedule |-> e.schedule, turnedAway |-> e.turnedAway,
                outOfDate |-> e.outOfDate, renewed |-> e.renewed]
    <3>1. e = [d EXCEPT !.announced = spoken, !.outOfDate = FALSE]
      BY DEF IsDesk
    <3> HIDE DEF e, spoken
    <3> QED
      BY <3>1 DEF IsDesk
  <2>3. Region(e.announced) = Region(aim)
    BY <2>2 DEF Region, spoken
  <2>4. TempoLeads(d) => TempoLeads(e)
    BY <2>2 DEF TempoLeads
  <2>5. /\ IsDesk(e) /\ e.announced.tempo = d.announced.tempo
        /\ e.announced.end = aim.end /\ e.announced.loop = aim.loop
        /\ e.dirty = d.dirty /\ e.schedule = d.schedule /\ e.renewed = d.renewed
        /\ e.turnedAway = d.turnedAway
    BY <2>2 DEF IsDesk, IsTransport, spoken
  <2> HIDE DEF e
  <2>6. /\ IsDesk(r) /\ r.announced = e.announced /\ r.dirty = e.dirty
        /\ r.schedule = e.schedule /\ r.renewed = e.renewed
        /\ ~r.turnedAway => ~e.turnedAway
    BY <2>1, <2>5, Posted, RefusedForGood
  <2>7. ~r.turnedAway => RegionLeads(r) /\ (TempoLeads(e) => TempoLeads(r))
    BY <2>1, <2>3, <2>5, PostedLeads
  <2> QED
    BY <2>4, <2>5, <2>6, <2>7
<1> QED
  BY <1>1, <1>2

(* A publish announces what is wanted, hands over what is shown, or leaves  *)
(* the schedule if nothing is dirty, and loses no command but those that    *)
(* the queue refuses.                                                       *)
LEMMA PublishTells ==
  ASSUME NEW d, NEW doc, NEW chosen, NEW preview, NEW r,
         IsDesk(d), r = Republished(d, doc, chosen, preview)
  PROVE  /\ IsDesk(r) /\ r.announced = Wanted(doc, chosen, preview)
         /\ ~r.turnedAway => ~d.turnedAway
         /\ ~r.turnedAway /\ TempoLeads(d) => TempoLeads(r)
         /\ ~r.turnedAway /\ ~r.outOfDate /\ (~d.outOfDate => RegionLeads(d)) => RegionLeads(r)
         /\ d.dirty \/ (preview.on /\ chosen # NoPattern)
              => r.schedule = Shown(doc, chosen, preview) /\ ~r.renewed
         /\ ~d.dirty /\ ~(preview.on /\ chosen # NoPattern)
              => r.schedule = d.schedule /\ r.renewed = d.renewed /\ r.dirty = d.dirty
         /\ preview.on /\ chosen # NoPattern => r.dirty = d.dirty
<1> DEFINE aim == Wanted(doc, chosen, preview)
           f == Flattened(d, doc, chosen, preview)
           g == TempoTold(f, aim)
<1>1. r = LoopTold(g, aim)
  BY DEF Republished
<1>2. /\ IsDesk(f) /\ f.announced = d.announced /\ f.turnedAway = d.turnedAway
      /\ f.outOfDate = d.outOfDate /\ f.post = d.post
  BY DEF Flattened, IsDesk
<1>3. /\ d.dirty \/ (preview.on /\ chosen # NoPattern)
           => f.schedule = Shown(doc, chosen, preview) /\ ~f.renewed
      /\ ~d.dirty /\ ~(preview.on /\ chosen # NoPattern) => f = d
      /\ preview.on /\ chosen # NoPattern => f.dirty = d.dirty
  BY DEF Flattened, IsDesk
<1>4. (TempoLeads(d) => TempoLeads(f)) /\ (RegionLeads(d) => RegionLeads(f))
  BY <1>2 DEF TempoLeads, RegionLeads
<1>5. aim = [tempo |-> aim.tempo, end |-> aim.end, loop |-> aim.loop]
  BY DEF Wanted
<1> HIDE DEF aim, f, g
<1>6. /\ IsDesk(g) /\ g.announced.tempo = aim.tempo
      /\ g.dirty = f.dirty /\ g.schedule = f.schedule /\ g.renewed = f.renewed
      /\ g.outOfDate = f.outOfDate
      /\ ~g.turnedAway => ~f.turnedAway
      /\ ~g.turnedAway /\ TempoLeads(f) => TempoLeads(g)
      /\ ~g.turnedAway /\ RegionLeads(f) => RegionLeads(g)
  BY <1>2, TempoIsTold DEF g
<1>7. /\ IsDesk(r) /\ r.announced.tempo = g.announced.tempo
      /\ r.announced.end = aim.end /\ r.announced.loop = aim.loop
      /\ r.dirty = g.dirty /\ r.schedule = g.schedule /\ r.renewed = g.renewed
      /\ ~r.turnedAway => ~g.turnedAway
      /\ ~r.turnedAway /\ TempoLeads(g) => TempoLeads(r)
      /\ ~r.turnedAway /\ ~r.outOfDate /\ (~g.outOfDate => RegionLeads(g)) => RegionLeads(r)
  BY <1>1, <1>6, LoopIsTold
<1>8. r.announced = aim
  <2>1. IsTransport(r.announced)
    BY <1>7 DEF IsDesk
  <2> QED
    BY <1>5, <1>6, <1>7, <2>1 DEF IsTransport
<1>9. ~r.turnedAway /\ ~r.outOfDate /\ (~d.outOfDate => RegionLeads(d)) => RegionLeads(r)
  BY <1>2, <1>4, <1>6, <1>7
<1> QED
  BY <1>2, <1>3, <1>4, <1>6, <1>7, <1>8, <1>9 DEF aim

-----------------------------------------------------------------------------
(* Publishing and posting keep the desk in step *)

LEMMA DirtiedDesk ==
  ASSUME NEW d, NEW r, IsDesk(d), r = Dirtied(d)
  PROVE  /\ IsDesk(r) /\ r.dirty = TRUE /\ r.announced = d.announced /\ r.post = d.post
         /\ r.turnedAway = d.turnedAway /\ r.outOfDate = d.outOfDate
         /\ LeadsOn(d) => LeadsOn(r)
<1>1. /\ IsDesk(r) /\ r.dirty = TRUE /\ r.announced = d.announced /\ r.post = d.post
      /\ r.turnedAway = d.turnedAway /\ r.outOfDate = d.outOfDate
  BY DEF Dirtied, IsDesk
<1> QED
  BY <1>1 DEF LeadsOn, TempoLeads, RegionLeads

LEMMA RenewedDesk ==
  ASSUME NEW d, NEW r, IsDesk(d), r = [d EXCEPT !.renewed = TRUE]
  PROVE  IsDesk(r) /\ r.renewed = TRUE /\ (LeadsOn(d) => LeadsOn(r))
<1>1. /\ IsDesk(r) /\ r.renewed = TRUE /\ r.announced = d.announced /\ r.post = d.post
      /\ r.turnedAway = d.turnedAway /\ r.outOfDate = d.outOfDate
  BY DEF IsDesk
<1> QED
  BY <1>1 DEF LeadsOn, TempoLeads, RegionLeads

LEMMA PublishPutsInStep ==
  ASSUME NEW d, NEW doc, NEW chosen, NEW preview, NEW r,
         IsDesk(d), LeadsOn(d), r = Republished(d, doc, chosen, preview),
         \/ d.dirty \/ d.renewed \/ (preview.on /\ chosen # NoPattern)
         \/ d.schedule = Shown(doc, chosen, preview)
  PROVE  InStep(r, doc, chosen, preview)
<1>1. IsDesk(r) /\ r.announced = Wanted(doc, chosen, preview)
  BY PublishTells
<1>2. LeadsOn(r)
  <2>1. ~r.turnedAway => TempoLeads(r)
    BY PublishTells DEF LeadsOn
  <2>2. ~r.turnedAway /\ ~r.outOfDate => RegionLeads(r)
    BY PublishTells DEF LeadsOn
  <2> QED
    BY <2>1, <2>2 DEF LeadsOn
<1>3. ~r.renewed => r.schedule = Shown(doc, chosen, preview)
  BY PublishTells
<1> QED
  BY <1>1, <1>2, <1>3 DEF InStep

LEMMA PostKeepsInStep ==
  ASSUME NEW d, NEW type, NEW value, NEW doc, NEW chosen, NEW preview, NEW r,
         InStep(d, doc, chosen, preview), r = Post(d, type, value),
         type = "tempo" => value = d.announced.tempo,
         type = "loop" => value = Region(d.announced)
  PROVE  InStep(r, doc, chosen, preview)
<1>1. IsDesk(d) /\ LeadsOn(d)
  BY DEF InStep
<1>2. /\ IsDesk(r) /\ r.announced = d.announced /\ r.schedule = d.schedule
      /\ r.renewed = d.renewed /\ r.outOfDate = d.outOfDate
  BY <1>1, Posted
<1>3. ~r.turnedAway => ~d.turnedAway
  BY <1>1, RefusedForGood
<1>4. ~r.turnedAway => TempoLeads(r)
  BY <1>1, <1>3, PostedLeads DEF LeadsOn
<1>5. ~r.turnedAway /\ ~r.outOfDate => RegionLeads(r)
  BY <1>1, <1>2, <1>3, PostedLeads DEF LeadsOn
<1> QED
  BY <1>2, <1>4, <1>5 DEF InStep, LeadsOn

LEMMA CallKeeps ==
  ASSUME PublishInv, HistoryInv', transport' = transport,
         InStep(desk', document', shownPattern', audition')
  PROVE  PublishInv'
BY DEF PublishInv, InStep, LeadsOn, TempoLeads, RegionLeads, IsTransport

-----------------------------------------------------------------------------
(* The documents *)

LEMMA EditsKeep ==
  ASSUME PublishInv, NEW doc, NEW ids \in Nat, Edits(doc, ids), IsDocument(doc)
  PROVE  HistoryInv'
<1>1. document' = doc /\ done' = Append(done, document) /\ undone' = <<>> /\ minted' = minted + ids
  BY DEF Edits, Remembered
<1> QED
  BY <1>1, HistoryGrows, EmptyHistory DEF PublishInv, HistoryInv

LEMMA TransportChangeKeeps ==
  ASSUME PublishInv, NEW doc, TransportChanged(doc), IsDocument(doc)
  PROVE  HistoryInv'
<1>1. /\ document' = doc /\ (done' = done \/ done' = Append(done, document))
      /\ undone' = <<>> /\ minted' = minted
  BY DEF TransportChanged
<1> QED
  BY <1>1, HistoryGrows, EmptyHistory DEF PublishInv, HistoryInv

LEMMA AddedPattern ==
  ASSUME NEW doc, NEW id \in Nat, NEW bars, IsDocument(doc)
  PROVE  IsDocument(AddPatternTo(doc, id, bars))
<1> DEFINE new == [bars |-> bars, place |-> Max(Places(doc) \cup {0}) + 1]
           table == Put(doc.patterns, id, new)
<1>1. AddPatternTo(doc, id, bars) = [doc EXCEPT !.patterns = table]
  BY DEF AddPatternTo, IsDocument
<1>2. DOMAIN table = {id} \cup DOMAIN doc.patterns
  BY DEF Put
<1>3. NoPattern \notin DOMAIN table
  BY <1>2, ModelPublishAssumption DEF IsDocument
<1> HIDE DEF table
<1> QED
  BY <1>1, <1>3 DEF IsDocument

LEMMA RemovedPattern ==
  ASSUME NEW doc, NEW p, IsDocument(doc)
  PROVE  IsDocument(RemovePatternFrom(doc, p))
<1> DEFINE table == [q \in DOMAIN doc.patterns \ {p} |-> doc.patterns[q]]
           clips == [c \in {e \in DOMAIN doc.clips : doc.clips[e].of # p} |-> doc.clips[c]]
<1>1. RemovePatternFrom(doc, p) = [doc EXCEPT !.patterns = table, !.clips = clips]
  BY DEF RemovePatternFrom, IsDocument
<1>2. NoPattern \notin DOMAIN table
  BY DEF IsDocument
<1> HIDE DEF table, clips
<1> QED
  BY <1>1, <1>2 DEF IsDocument

LEMMA ReorderedPatterns ==
  ASSUME NEW doc, NEW p, NEW to, IsDocument(doc)
  PROVE  IsDocument(Reordered(doc, p, to))
<1> DEFINE rearranged == InsertAt(SelectSeq(PatternList(doc), LAMBDA q : q # p), to, p)
           table == [q \in DOMAIN doc.patterns |->
                       [doc.patterns[q] EXCEPT !.place = CHOOSE i \in DOMAIN rearranged : rearranged[i] = q]]
<1>1. Reordered(doc, p, to) = [doc EXCEPT !.patterns = table]
  BY DEF Reordered, IsDocument
<1>2. NoPattern \notin DOMAIN table
  BY DEF IsDocument
<1> HIDE DEF table
<1> QED
  BY <1>1, <1>2 DEF IsDocument

LEMMA WithClips ==
  ASSUME NEW doc, NEW clips, IsDocument(doc)
  PROVE  IsDocument([doc EXCEPT !.clips = clips])
BY DEF IsDocument

LEMMA WithTempo ==
  ASSUME NEW doc, NEW tempo, IsDocument(doc)
  PROVE  IsDocument([doc EXCEPT !.tempo = tempo]) /\ [doc EXCEPT !.tempo = tempo].tempo = tempo
BY DEF IsDocument

LEMMA WithLoop ==
  ASSUME NEW doc, NEW loop, IsDocument(doc)
  PROVE  IsDocument([doc EXCEPT !.loop = loop])
BY DEF IsDocument

LEMMA FreshDocument ==
  ASSUME NEW p \in Nat, NEW c
  PROVE  IsDocument(FreshSong(p, c))
<1> DEFINE table == Put(<<>>, p, NewPattern(1))
           clips == Put(<<>>, c, [of |-> p, start |-> 0, bars |-> 1])
<1>1. FreshSong(p, c) = [patterns |-> table, clips |-> clips, tempo |-> DefaultTempo, loop |-> FALSE]
  BY DEF FreshSong
<1>2. NoPattern \notin DOMAIN table
  BY ModelPublishAssumption DEF Put
<1> HIDE DEF table, clips
<1> QED
  BY <1>1, <1>2 DEF IsDocument

-----------------------------------------------------------------------------
(* The calls *)

LEMMA ChangePublished ==
  ASSUME PublishInv, HistoryInv', transport' = transport,
         desk' = Republished(Dirtied(desk), document', shownPattern', audition')
  PROVE  PublishInv'
<1>1. IsDesk(desk) /\ LeadsOn(desk)
  BY DEF PublishInv, InStep
<1>2. IsDesk(Dirtied(desk)) /\ LeadsOn(Dirtied(desk)) /\ Dirtied(desk).dirty = TRUE
  BY <1>1, DirtiedDesk
<1>3. InStep(desk', document', shownPattern', audition')
  BY <1>2, PublishPutsInStep
<1> QED
  BY <1>3, CallKeeps

LEMMA PatternCreateKeeps ==
  ASSUME PublishInv, pattern_create
  PROVE  PublishInv'
<1>1. IsDocument(AddPatternTo(document, minted + 1, 1))
  BY AddedPattern DEF PublishInv, HistoryInv
<1>2. HistoryInv'
  BY <1>1, EditsKeep DEF pattern_create
<1> QED
  BY <1>2, ChangePublished DEF pattern_create, UiOnly

LEMMA PatternDuplicateKeeps ==
  ASSUME PublishInv, NEW p, pattern_duplicate(p)
  PROVE  PublishInv'
<1>1. IsDocument(AddPatternTo(document, minted + 1, document.patterns[p].bars))
  BY AddedPattern DEF PublishInv, HistoryInv
<1>2. HistoryInv'
  BY <1>1, EditsKeep DEF pattern_duplicate
<1> QED
  BY <1>2, ChangePublished DEF pattern_duplicate, UiOnly

LEMMA PatternReorderKeeps ==
  ASSUME PublishInv, NEW p, NEW to, pattern_reorder(p, to)
  PROVE  PublishInv'
<1>1. IsDocument(Reordered(document, p, to))
  BY ReorderedPatterns DEF PublishInv, HistoryInv
<1>2. HistoryInv'
  BY <1>1, EditsKeep DEF pattern_reorder
<1> QED
  BY <1>2, ChangePublished DEF pattern_reorder, UiOnly

(* The second publish finds the song handed over by the first, unless the   *)
(* preview kept it from that; and then the dirty flag is still set, or the  *)
(* preview is of another pattern now.                                       *)
LEMMA PatternRemoveKeeps ==
  ASSUME PublishInv, NEW p, pattern_remove(p)
  PROVE  PublishInv'
<1> DEFINE d    == Dirtied(desk)
           gone == Republished(d, document', shownPattern, audition)
<1>1. IsDocument(RemovePatternFrom(document, p))
  BY RemovedPattern DEF PublishInv, HistoryInv
<1>2. HistoryInv'
  BY <1>1, EditsKeep DEF pattern_remove
<1>3. transport' = transport /\ audition' = audition
  BY DEF pattern_remove, UiOnly
<1>4. CASE shownPattern # p
  BY <1>2, <1>3, <1>4, ChangePublished DEF pattern_remove
<1>5. CASE shownPattern = p
  <2>1. desk' = Republished(gone, document', shownPattern', audition')
    BY <1>3, <1>5 DEF pattern_remove
  <2>2. IsDesk(d) /\ LeadsOn(d) /\ d.dirty = TRUE
    BY DirtiedDesk DEF PublishInv, InStep
  <2> HIDE DEF d
  <2>3. InStep(gone, document', shownPattern, audition)
    BY <2>2, PublishPutsInStep
  <2>4. gone.dirty \/ ~(audition.on /\ shownPattern # NoPattern)
    BY <2>2, PublishTells
  <2>5. ~gone.renewed /\ gone.schedule = Shown(document', shownPattern, audition)
    BY <2>2, PublishTells
  <2>6. ~(audition.on /\ shownPattern # NoPattern) =>
          Shown(document', shownPattern, audition) = <<"song", document'.clips>>
    BY DEF Shown
  <2>7. \/ gone.dirty \/ (audition.on /\ shownPattern' # NoPattern)
        \/ gone.schedule = Shown(document', shownPattern', audition)
    BY <2>4, <2>5, <2>6 DEF Shown
  <2> HIDE DEF gone
  <2>8. InStep(desk', document', shownPattern', audition')
    BY <1>3, <2>1, <2>3, <2>7, PublishPutsInStep DEF InStep
  <2> QED
    BY <1>2, <1>3, <2>8, CallKeeps
<1> QED
  BY <1>4, <1>5

LEMMA PatternSelectKeeps ==
  ASSUME PublishInv, NEW p \in Patterns, pattern_select(p)
  PROVE  PublishInv'
<1>1. /\ desk' = Republished(desk, document', shownPattern', audition') /\ shownPattern' = p
      /\ transport' = transport /\ document' = document /\ audition' = audition
      /\ UNCHANGED documentVars
  BY DEF pattern_select, UiOnly, documentVars
<1>2. HistoryInv'
  BY <1>1 DEF PublishInv, HistoryInv, IsHistory, documentVars
<1>3. p # NoPattern
  BY DEF PublishInv, HistoryInv, IsDocument, Patterns
<1>4. ~audition.on => Shown(document', p, audition') = Shown(document, shownPattern, audition)
  BY <1>1 DEF Shown
<1>5. \/ desk.renewed \/ (audition'.on /\ shownPattern' # NoPattern)
      \/ desk.schedule = Shown(document', shownPattern', audition')
  BY <1>1, <1>3, <1>4 DEF PublishInv, InStep
<1>6. InStep(desk', document', shownPattern', audition')
  BY <1>1, <1>5, PublishPutsInStep DEF PublishInv, InStep
<1> QED
  BY <1>1, <1>2, <1>6, CallKeeps

LEMMA PreviewStartKeeps ==
  ASSUME PublishInv, NEW p \in Patterns, NEW channel, pattern_preview_start(p, channel)
  PROVE  PublishInv'
<1> DEFINE r == Republished(desk, document', shownPattern', audition')
           s == Post(r, "seek", 0)
<1>1. /\ desk' = Post(s, "play", 0) /\ shownPattern' = p
      /\ audition' = [on |-> TRUE, channel |-> channel]
      /\ transport' = transport /\ document' = document /\ UNCHANGED documentVars
  BY DEF pattern_preview_start, UiOnly, documentVars
<1>2. HistoryInv'
  BY <1>1 DEF PublishInv, HistoryInv, IsHistory, documentVars
<1>3. audition'.on /\ shownPattern' # NoPattern
  BY <1>1 DEF PublishInv, HistoryInv, IsDocument, Patterns
<1>4. InStep(r, document', shownPattern', audition')
  BY <1>3, PublishPutsInStep DEF PublishInv, InStep
<1> HIDE DEF r
<1>5. InStep(s, document', shownPattern', audition')
  BY <1>4, PostKeepsInStep
<1> HIDE DEF s
<1>6. InStep(desk', document', shownPattern', audition')
  BY <1>1, <1>5, PostKeepsInStep
<1> QED
  BY <1>1, <1>2, <1>6, CallKeeps

LEMMA PreviewStopKeeps ==
  ASSUME PublishInv, pattern_preview_stop
  PROVE  PublishInv'
<1>1. /\ desk' = Republished(Dirtied(desk), document', shownPattern', audition')
      /\ transport' = transport /\ UNCHANGED documentVars
  BY DEF pattern_preview_stop, UiOnly, documentVars
<1>2. HistoryInv'
  BY <1>1 DEF PublishInv, HistoryInv, IsHistory, documentVars
<1> QED
  BY <1>1, <1>2, ChangePublished

LEMMA ClipAddKeeps ==
  ASSUME PublishInv, NEW p, NEW start, NEW bars, clip_add(p, start, bars)
  PROVE  PublishInv'
<1> DEFINE clips == Put(document.clips, minted + 1, [of |-> p, start |-> start, bars |-> bars])
<1>1. Edits([document EXCEPT !.clips = clips], 1)
  BY DEF clip_add, PublishInv, HistoryInv, IsDocument
<1>2. HistoryInv'
  BY <1>1, WithClips, EditsKeep DEF PublishInv, HistoryInv
<1> QED
  BY <1>2, ChangePublished DEF clip_add, UiOnly

LEMMA ClipRemoveKeeps ==
  ASSUME PublishInv, NEW c, pattern_clip_remove(c)
  PROVE  PublishInv'
<1> DEFINE clips == [d \in DOMAIN document.clips \ {c} |-> document.clips[d]]
<1>1. Edits([document EXCEPT !.clips = clips], 0)
  BY DEF pattern_clip_remove, PublishInv, HistoryInv, IsDocument
<1>2. HistoryInv'
  BY <1>1, WithClips, EditsKeep DEF PublishInv, HistoryInv
<1> QED
  BY <1>2, ChangePublished DEF pattern_clip_remove, UiOnly

(* The value is announced before it is published, so that the publish does  *)
(* not post it; the caller's command does.                                  *)
LEMMA SetTempoKeeps ==
  ASSUME PublishInv, NEW tempo, set_tempo(tempo)
  PROVE  PublishInv'
<1>1. transport' = transport /\ shownPattern' = shownPattern /\ audition' = audition
  BY DEF set_tempo, UiOnly
<1>2. CASE tempo = document.tempo
  <2>1. desk' = Post(desk, "tempo", tempo) /\ UNCHANGED documentVars
    BY <1>2 DEF set_tempo
  <2>2. document' = document /\ HistoryInv'
    BY <2>1 DEF PublishInv, HistoryInv, IsHistory, documentVars
  <2>3. InStep(desk, document, shownPattern, audition)
    BY DEF PublishInv
  <2>4. tempo = desk.announced.tempo
    BY <1>2, <2>3 DEF InStep, Wanted
  <2>5. InStep(desk', document, shownPattern, audition)
    BY <2>1, <2>3, <2>4, PostKeepsInStep
  <2> QED
    BY <1>1, <2>2, <2>5, CallKeeps
<1>3. CASE tempo # document.tempo
  <2> DEFINE doc == [document EXCEPT !.tempo = tempo]
             c == [desk EXCEPT !.announced.tempo = tempo]
             d == Dirtied(c)
             r == Republished(d, doc, shownPattern, audition)
  <2>1. TransportChanged(doc) /\ document' = doc /\ desk' = Post(r, "tempo", tempo)
    BY <1>3 DEF set_tempo, TransportChanged
  <2>2. IsDocument(doc) /\ doc.tempo = tempo
    BY WithTempo DEF PublishInv, HistoryInv
  <2> HIDE DEF doc
  <2>3. HistoryInv'
    BY <2>1, <2>2, TransportChangeKeeps
  <2>4. IsDesk(desk) /\ LeadsOn(desk)
    BY DEF PublishInv, InStep
  <2>5. /\ IsDesk(c) /\ c.post = desk.post /\ c.turnedAway = desk.turnedAway
        /\ c.outOfDate = desk.outOfDate
        /\ c.announced.end = desk.announced.end /\ c.announced.loop = desk.announced.loop
    BY <2>4 DEF IsDesk, IsTransport
  <2>6. ~c.turnedAway /\ ~c.outOfDate => RegionLeads(c)
    BY <2>4, <2>5 DEF LeadsOn, RegionLeads, Region
  <2> HIDE DEF c
  <2>7. /\ IsDesk(d) /\ d.dirty = TRUE /\ d.post = c.post /\ d.announced = c.announced
        /\ d.turnedAway = c.turnedAway /\ d.outOfDate = c.outOfDate
    BY <2>5, DirtiedDesk
  <2>8. ~d.turnedAway /\ ~d.outOfDate => RegionLeads(d)
    BY <2>6, <2>7 DEF RegionLeads
  <2> HIDE DEF d
  <2>9. /\ IsDesk(r) /\ r.announced = Wanted(doc, shownPattern, audition)
        /\ ~r.turnedAway => ~d.turnedAway
        /\ ~r.renewed /\ r.schedule = Shown(doc, shownPattern, audition)
    BY <2>7, PublishTells
  <2>10. ~r.turnedAway /\ ~r.outOfDate => RegionLeads(r)
    BY <2>7, <2>8, <2>9, PublishTells
  <2>11. r.announced.tempo = tempo
    BY <2>2, <2>9 DEF Wanted
  <2> HIDE DEF r
  <2>12. /\ IsDesk(desk') /\ desk'.announced = r.announced /\ desk'.schedule = r.schedule
         /\ desk'.renewed = r.renewed /\ desk'.outOfDate = r.outOfDate
    BY <2>1, <2>9, Posted
  <2>13. ~desk'.turnedAway => ~r.turnedAway
    BY <2>1, <2>9, RefusedForGood
  <2>14. ~desk'.turnedAway => TempoLeads(desk')
    BY <2>1, <2>9, <2>11, PostedLeads
  <2>15. ~desk'.turnedAway /\ ~desk'.outOfDate => RegionLeads(desk')
    BY <2>1, <2>9, <2>10, <2>12, <2>13, PostedLeads
  <2>16. InStep(desk', document', shownPattern', audition')
    BY <1>1, <2>1, <2>9, <2>12, <2>14, <2>15 DEF InStep, LeadsOn
  <2> QED
    BY <1>1, <2>3, <2>16, CallKeeps
<1> QED
  BY <1>2, <1>3

(* The command is posted as the snapshot has it; if that is not what is     *)
(* wanted by then, outOfDate says so.                                       *)
LEMMA SentRegion ==
  ASSUME NEW r, NEW doc, NEW chosen, NEW preview, NEW command, NEW s,
         IsDesk(r), r.announced = Wanted(doc, chosen, preview),
         ~r.turnedAway => TempoLeads(r),
         ~r.renewed => r.schedule = Shown(doc, chosen, preview),
         s = [Post(r, "loop", command) EXCEPT
                !.outOfDate = @ \/ command # Region(Wanted(doc, chosen, preview))]
  PROVE  InStep(s, doc, chosen, preview)
<1> DEFINE q == Post(r, "loop", command)
           behind == q.outOfDate \/ command # Region(Wanted(doc, chosen, preview))
<1>1. /\ IsDesk(q) /\ q.announced = r.announced /\ q.schedule = r.schedule
      /\ q.renewed = r.renewed
  BY Posted
<1>2. ~q.turnedAway => ~r.turnedAway
  BY RefusedForGood
<1>3. ~q.turnedAway => TempoLeads(q)
  BY <1>2, PostedLeads
<1>4. ~q.turnedAway /\ ~behind => RegionLeads(q)
  BY PostedLeads
<1>5. s = [q EXCEPT !.outOfDate = behind]
  BY <1>1 DEF IsDesk
<1> HIDE DEF q, behind
<1>6. /\ IsDesk(s) /\ s.announced = q.announced /\ s.schedule = q.schedule
      /\ s.renewed = q.renewed /\ s.post = q.post /\ s.turnedAway = q.turnedAway
      /\ s.outOfDate = behind
  BY <1>1, <1>5 DEF IsDesk
<1>7. LeadsOn(s)
  BY <1>3, <1>4, <1>6 DEF LeadsOn, TempoLeads, RegionLeads
<1> QED
  BY <1>1, <1>6, <1>7 DEF InStep

LEMMA ToggleLoopKeeps ==
  ASSUME PublishInv, toggleLoop
  PROVE  PublishInv'
<1> DEFINE on == ~glimpse.loop
           command == [end |-> glimpse.end, loop |-> on]
           doc == [document EXCEPT !.loop = on]
           c == [desk EXCEPT !.announced.loop = on]
           d == Dirtied(c)
           r == Republished(d, doc, shownPattern, audition)
<1>1. transport' = transport /\ shownPattern' = shownPattern /\ audition' = audition
  BY DEF toggleLoop, UiOnly
<1>2. IsDesk(desk) /\ LeadsOn(desk)
  BY DEF PublishInv, InStep
<1>3. CASE on = document.loop
  <2>1. UNCHANGED documentVars
    BY <1>3 DEF toggleLoop
  <2>2. document' = document /\ HistoryInv'
    BY <2>1 DEF PublishInv, HistoryInv, IsHistory, documentVars
  <2>3. desk' = [Post(desk, "loop", command) EXCEPT
                   !.outOfDate = @ \/ command # Region(Wanted(document, shownPattern, audition))]
    BY <1>3, <1>1, <2>2 DEF toggleLoop
  <2>4. /\ desk.announced = Wanted(document, shownPattern, audition)
        /\ ~desk.turnedAway => TempoLeads(desk)
        /\ ~desk.renewed => desk.schedule = Shown(document, shownPattern, audition)
    BY DEF PublishInv, InStep, LeadsOn
  <2> HIDE DEF command
  <2>5. InStep(desk', document, shownPattern, audition)
    BY <1>2, <2>3, <2>4, SentRegion
  <2> QED
    BY <1>1, <2>2, <2>5, CallKeeps
<1>4. CASE on # document.loop
  <2>1. TransportChanged(doc) /\ document' = doc
    BY <1>4 DEF toggleLoop, TransportChanged
  <2>2. desk' = [Post(r, "loop", command) EXCEPT
                   !.outOfDate = @ \/ command # Region(Wanted(doc, shownPattern, audition))]
    BY <1>4, <1>1, <2>1 DEF toggleLoop
  <2>3. IsDocument(doc)
    BY WithLoop DEF PublishInv, HistoryInv
  <2> HIDE DEF doc, command
  <2>4. HistoryInv'
    BY <2>1, <2>3, TransportChangeKeeps
  <2>5. /\ IsDesk(c) /\ c.post = desk.post /\ c.turnedAway = desk.turnedAway
        /\ c.announced.tempo = desk.announced.tempo
    BY <1>2 DEF IsDesk, IsTransport
  <2>6. ~c.turnedAway => TempoLeads(c)
    BY <1>2, <2>5 DEF LeadsOn, TempoLeads
  <2> HIDE DEF c
  <2>7. /\ IsDesk(d) /\ d.dirty = TRUE /\ d.post = c.post /\ d.announced = c.announced
        /\ d.turnedAway = c.turnedAway
    BY <2>5, DirtiedDesk
  <2>8. ~d.turnedAway => TempoLeads(d)
    BY <2>6, <2>7 DEF TempoLeads
  <2> HIDE DEF d
  <2>9. /\ IsDesk(r) /\ r.announced = Wanted(doc, shownPattern, audition)
        /\ ~r.renewed /\ r.schedule = Shown(doc, shownPattern, audition)
    BY <2>7, PublishTells
  <2>10. ~r.turnedAway => TempoLeads(r)
    BY <2>7, <2>8, PublishTells
  <2> HIDE DEF r
  <2>11. InStep(desk', doc, shownPattern, audition)
    BY <2>2, <2>9, <2>10, SentRegion
  <2> QED
    BY <1>1, <2>1, <2>4, <2>11, CallKeeps
<1> QED
  BY <1>3, <1>4

LEMMA UndoKeeps ==
  ASSUME PublishInv, project_undo
  PROVE  PublishInv'
<1>1. HistoryInv'
  BY HistoryGrows, HistoryShrinks DEF project_undo, PublishInv, HistoryInv
<1> QED
  BY <1>1, ChangePublished DEF project_undo, UiOnly

LEMMA RedoKeeps ==
  ASSUME PublishInv, project_redo
  PROVE  PublishInv'
<1>1. HistoryInv'
  BY HistoryGrows, HistoryShrinks DEF project_redo, PublishInv, HistoryInv
<1> QED
  BY <1>1, ChangePublished DEF project_redo, UiOnly

LEMMA NewProjectKeeps ==
  ASSUME PublishInv, project_new
  PROVE  PublishInv'
<1> DEFINE d == [desk EXCEPT !.renewed = TRUE]
<1>1. IsDesk(desk) /\ LeadsOn(desk) /\ minted \in Nat
  BY DEF PublishInv, HistoryInv, InStep
<1>2. /\ document' = FreshSong(minted + 1, minted + 2) /\ minted' = minted + 2
      /\ done' = <<>> /\ undone' = <<>>
      /\ desk' = Republished(d, document', shownPattern', audition') /\ transport' = transport
  BY DEF project_new, Replaced, UiOnly
<1>3. HistoryInv'
  <2>1. minted + 1 \in Nat /\ minted' \in Nat
    BY <1>1, <1>2
  <2> QED
    BY <1>2, <2>1, FreshDocument, EmptyHistory DEF HistoryInv
<1> HIDE DEF d
<1>4. IsDesk(d) /\ LeadsOn(d) /\ d.renewed = TRUE
  BY <1>1, RenewedDesk DEF d
<1>5. InStep(desk', document', shownPattern', audition')
  BY <1>2, <1>4, PublishPutsInStep
<1> QED
  BY <1>2, <1>3, <1>5, CallKeeps

LEMMA OpenProjectKeeps ==
  ASSUME PublishInv, NEW saved \in SavedSongs, project_open(saved)
  PROVE  PublishInv'
<1>1. HistoryInv'
  BY ModelPublishAssumption, EmptyHistory DEF project_open, Replaced, PublishInv, HistoryInv
<1>2. /\ desk' = Republished(Dirtied(desk), document', shownPattern', audition')
      /\ transport' = transport
  BY DEF project_open, Replaced, UiOnly
<1> QED
  BY <1>1, <1>2, ChangePublished

-----------------------------------------------------------------------------
(* The engine *)

LEMMA DrainKeeps ==
  ASSUME PublishInv, Drain
  PROVE  PublishInv'
<1> DEFINE first == Head(desk.post)
<1>1. /\ IsDesk(desk) /\ IsTransport(transport) /\ LeadsOn(desk) /\ desk.post # <<>>
      /\ IsSequence(desk.post)
  BY DEF PublishInv, InStep, Drain, IsDesk
<1>2. /\ IsDesk(desk') /\ desk'.announced = desk.announced /\ desk'.schedule = desk.schedule
      /\ desk'.renewed = desk.renewed /\ desk'.turnedAway = desk.turnedAway
      /\ desk'.outOfDate = desk.outOfDate /\ desk'.post = Tail(desk.post)
  <2>1. IsSequence(Tail(desk.post))
    BY <1>1, TailOf
  <2>2. desk' = [desk EXCEPT !.post = Tail(desk.post)]
    BY <1>1 DEF Drain, IsDesk
  <2> QED
    BY <1>1, <2>1, <2>2 DEF IsDesk
<1>3. transport' = Obeyed(transport, first)
  BY DEF Drain
<1> HIDE DEF first
<1>4. /\ IsTransport(transport')
      /\ first.type # "tempo" => transport'.tempo = transport.tempo
      /\ first.type = "tempo" => transport'.tempo = first.value
      /\ first.type # "loop" => Region(transport') = Region(transport)
      /\ first.type = "loop" => Region(transport') = Region(first.value)
  BY <1>1, <1>3 DEF Obeyed, IsTransport, Region
<1>5. first.value = Region(desk.announced) => Region(first.value) = Region(desk.announced)
  BY DEF Region
<1>6. ~desk.turnedAway => LeadsTo(Tail(desk.post), "tempo", transport'.tempo, desk.announced.tempo)
  BY <1>1, <1>4, LeadsOnFromHead DEF LeadsOn, TempoLeads, first
<1>7. ~desk.turnedAway /\ ~desk.outOfDate =>
        LeadsTo(Tail(desk.post), "loop", Region(transport'), Region(desk.announced))
  BY <1>1, <1>4, <1>5, LeadsOnFromHead DEF LeadsOn, RegionLeads, first
<1>8. LeadsOn(desk)'
  BY <1>2, <1>6, <1>7 DEF LeadsOn, TempoLeads, RegionLeads
<1>9. UNCHANGED <<documentVars, shownPattern, audition>>
  BY DEF Drain
<1>10. HistoryInv'
  BY <1>9 DEF PublishInv, HistoryInv, IsHistory, documentVars
<1>11. /\ desk'.announced = Wanted(document, shownPattern, audition)'
       /\ ~desk'.renewed => desk'.schedule = Shown(document, shownPattern, audition)'
  BY <1>2, <1>9 DEF PublishInv, InStep, documentVars
<1> QED
  BY <1>2, <1>4, <1>8, <1>10, <1>11 DEF PublishInv, InStep

LEMMA UntouchedKeeps ==
  ASSUME PublishInv,
         UNCHANGED <<documentVars, shownPattern, audition, desk, transport>>
  PROVE  PublishInv'
BY DEF PublishInv, HistoryInv, IsHistory, documentVars, InStep, LeadsOn, TempoLeads, RegionLeads,
       IsTransport

-----------------------------------------------------------------------------

LEMMA PublishStep == PublishInv /\ [PublishNext]_publishVars => PublishInv'
<1> SUFFICES ASSUME PublishInv, [PublishNext]_publishVars PROVE PublishInv'
  OBVIOUS
<1>1. CASE pattern_create
  BY <1>1, PatternCreateKeeps
<1>2. ASSUME NEW p \in Patterns,
             \/ pattern_duplicate(p) \/ pattern_remove(p) \/ pattern_select(p)
             \/ \E to \in 1 .. Cardinality(Patterns) : pattern_reorder(p, to)
             \/ \E channel \in RackChannels \cup {Everything} : pattern_preview_start(p, channel)
             \/ \E start \in 0 .. LastBar, bars \in ClipLengths : clip_add(p, start, bars)
      PROVE  PublishInv'
  BY <1>2, PatternDuplicateKeeps, PatternRemoveKeeps, PatternSelectKeeps, PatternReorderKeeps,
     PreviewStartKeeps, ClipAddKeeps
<1>3. CASE pattern_preview_stop
  BY <1>3, PreviewStopKeeps
<1>4. CASE \E c \in DOMAIN document.clips : pattern_clip_remove(c)
  BY <1>4, ClipRemoveKeeps
<1>5. CASE \E tempo \in PlaybackTempos : set_tempo(tempo)
  BY <1>5, SetTempoKeeps
<1>6. CASE toggleLoop
  BY <1>6, ToggleLoopKeeps
<1>7. CASE project_undo \/ project_redo \/ project_new
  BY <1>7, UndoKeeps, RedoKeeps, NewProjectKeeps
<1>8. CASE \E saved \in SavedSongs : project_open(saved)
  BY <1>8, OpenProjectKeeps
<1>9. CASE Drain
  BY <1>9, DrainKeeps
<1>10. CASE Frame \/ UNCHANGED publishVars
  BY <1>10, UntouchedKeeps DEF Frame, publishVars
<1> QED
  BY <1>1, <1>2, <1>3, <1>4, <1>5, <1>6, <1>7, <1>8, <1>9, <1>10 DEF PublishNext

LEMMA PublishStart == PublishInit => PublishInv
<1> SUFFICES ASSUME PublishInit PROVE PublishInv
  OBVIOUS
<1>1. HistoryInv
  BY FreshDocument, EmptyHistory DEF PublishInit, HistoryInv
<1>2. IsTransport(transport)
  BY DEF PublishInit, IsTransport, Wanted
<1>3. IsDesk(desk)
  BY <1>2, EmptySequence DEF PublishInit, IsDesk
<1>4. LeadsOn(desk)
  <2>1. \A i \in 1..Len(desk.post) : FALSE
    BY EmptySequence DEF PublishInit
  <2> QED
    BY <2>1 DEF PublishInit, LeadsOn, TempoLeads, RegionLeads, LeadsTo
<1> QED
  BY <1>1, <1>2, <1>3, <1>4 DEF PublishInit, PublishInv, InStep

LEMMA PublishAlways == PublishSpec => []PublishInv
BY PublishStart, PublishStep, PTL DEF PublishSpec

(* ScheduleIsShownUnlessRenewed: the schedule the engine has been handed is *)
(* that of what the session shows, whatever the order of edits, selections, *)
(* previews, undos and loads; the flattener's dirty flag is not lost to a   *)
(* preview.                                                                 *)
THEOREM ScheduleShown == PublishSpec => []ScheduleIsShownUnlessRenewed
<1>1. PublishInv => ScheduleIsShownUnlessRenewed
  BY DEF PublishInv, InStep, ScheduleIsShownUnlessRenewed
<1> QED
  BY <1>1, PublishAlways, PTL

(* TransportFollowsUnlessRefusedOrOvertaken: posting only what differs from *)
(* what was announced is enough: once the queue is drained, the transport   *)
(* has the tempo and the loop of the document, unless a command was refused *)
(* or the loop was toggled from a snapshot that was out of date.            *)
THEOREM TransportFollows == PublishSpec => []TransportFollowsUnlessRefusedOrOvertaken
<1>1. PublishInv => TransportFollowsUnlessRefusedOrOvertaken
  <2> SUFFICES ASSUME PublishInv, desk.post = <<>>, ~desk.turnedAway, ~desk.outOfDate
               PROVE  transport = Wanted(document, shownPattern, audition)
    BY DEF TransportFollowsUnlessRefusedOrOvertaken
  <2>1. \A i \in 1..Len(desk.post) : FALSE
    BY EmptySequence
  <2>2. transport.tempo = desk.announced.tempo /\ Region(transport) = Region(desk.announced)
    BY <2>1 DEF PublishInv, InStep, LeadsOn, TempoLeads, RegionLeads, LeadsTo
  <2>3. transport.end = desk.announced.end /\ transport.loop = desk.announced.loop
    BY <2>2 DEF Region
  <2>4. IsTransport(transport) /\ IsTransport(desk.announced)
    BY DEF PublishInv, InStep, IsDesk
  <2>5. transport = desk.announced
    BY <2>2, <2>3, <2>4 DEF IsTransport
  <2> QED
    BY <2>5 DEF PublishInv, InStep
<1> QED
  BY <1>1, PublishAlways, PTL
=============================================================================
