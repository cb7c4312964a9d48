------------------------------ MODULE Publisher ------------------------------
(***************************************************************************)
(* rt::NonRealtimeMutable<T>: how the engine hands immutable objects (the  *)
(* schedule, the mixer graph, a decoded sample) to the audio thread and    *)
(* when it may free the ones it has replaced.                              *)
(*                                                                         *)
(* The audio thread advances rt_epoch_ once per block and then loads       *)
(* current_.  publish(), on any other thread, exchanges current_, reads    *)
(* the epoch and pushes the superseded object on retired_.  collect(), on  *)
(* one thread, frees what no block can still be reading.                   *)
(*                                                                         *)
(* Every access to shared memory is a step of its own.  The orders the     *)
(* code asks for are acquire and release, which let a later load pass an   *)
(* earlier store:                                                          *)
(*   RelaxedReader  beginBlock()'s store may reach the other threads after *)
(*                  the block has loaded current_ (at the latest before    *)
(*                  the next fetch_add of the same counter);               *)
(*   RelaxedWriter  publish()'s store of the new pointer may reach the     *)
(*                  audio thread after publish() has read the epoch (at    *)
(*                  the latest when publish() releases the retire lock).   *)
(* With both FALSE the memory is sequentially consistent.                  *)
(***************************************************************************)
EXTENDS Naturals

CONSTANTS
  Objs,           \* the objects ever published, each at most once
  NoObj,          \* the null pointer
  Writers,        \* the threads that call publish()
  MaxEpoch,       \* bound on rt_epoch_
  MaxStarts,      \* bound on the number of times the device is started
  RelaxedReader,
  RelaxedWriter

ASSUME NoObjAssumption == NoObj \notin Objs
ASSUME BoundsAssumption == MaxEpoch \in Nat /\ MaxStarts \in Nat
ASSUME MemoryAssumption == RelaxedReader \in BOOLEAN /\ RelaxedWriter \in BOOLEAN

VARIABLES
  fresh,        \* objects built but not published
  current,      \* current_, as the audio thread can load it
  landing,      \* per writer: the object its exchange stored, while unseen
  late,         \* the writers one of whose exchanges was seen later than it was made
  generation,   \* generation_
  rt_epoch,     \* rt_epoch_, as the other threads can load it
  unseenTicks,  \* 1 while the newest fetch_add of rt_epoch_ is unseen
  retired,      \* retired_: records [object, epoch]
  writerPc, previous, stamp,          \* per publish() call
  audioPc, held,                      \* the block being rendered
  gcPc, gcEpoch, gcRunning, doomed,   \* the collect() call
  freed,        \* objects whose memory has been returned
  phase, starts \* the device, or whatever else drives blocks

writerVars == <<writerPc, previous, stamp>>
audioVars  == <<audioPc, held>>
gcVars     == <<gcPc, gcEpoch, gcRunning, doomed>>
deviceVars == <<phase, starts>>
pointerVars == <<fresh, current, landing, late, generation>>
epochVars  == <<rt_epoch, unseenTicks>>
vars == <<pointerVars, epochVars, retired, writerVars, audioVars, gcVars,
          freed, deviceVars>>

Pointer == Objs \cup {NoObj}
Record  == [object : Objs, epoch : 0..MaxEpoch]

Init ==
  /\ fresh = Objs
  /\ current = NoObj
  /\ landing = [w \in Writers |-> NoObj]
  /\ late = {}
  /\ generation = 0
  /\ rt_epoch = 0
  /\ unseenTicks = 0
  /\ retired = {}
  /\ writerPc = [w \in Writers |-> "idle"]
  /\ previous = [w \in Writers |-> NoObj]
  /\ stamp = [w \in Writers |-> 0]
  /\ audioPc = "idle"
  /\ held = {}
  /\ gcPc = "idle"
  /\ gcEpoch = 0
  /\ gcRunning = TRUE
  /\ doomed = {}
  /\ freed = {}
  /\ phase = "stopped"
  /\ starts = 0

-----------------------------------------------------------------------------
(* The audio thread. *)

\* beginBlock(): a fetch_add, so it first sees its own previous one land.
BeginBlock ==
  /\ audioPc = "idle"
  /\ unseenTicks = 0
  /\ rt_epoch < MaxEpoch
  /\ audioPc' = "block"
  /\ \/ rt_epoch' = rt_epoch + 1 /\ UNCHANGED unseenTicks
     \/ RelaxedReader /\ unseenTicks' = 1 /\ UNCHANGED rt_epoch
  /\ UNCHANGED <<pointerVars, retired, writerVars, held, gcVars, freed, deviceVars>>

TickLands ==
  /\ unseenTicks = 1
  /\ unseenTicks' = 0
  /\ rt_epoch' = rt_epoch + 1
  /\ UNCHANGED <<pointerVars, retired, writerVars, audioVars, gcVars, freed, deviceVars>>

\* acquire(): the block may use what it loaded until it ends.
Acquire ==
  /\ audioPc = "block"
  /\ current # NoObj
  /\ held' = held \cup {current}
  /\ UNCHANGED <<pointerVars, epochVars, retired, writerVars, audioPc, gcVars,
                 freed, deviceVars>>

EndBlock ==
  /\ audioPc = "block"
  /\ audioPc' = "idle"
  /\ held' = {}
  /\ UNCHANGED <<pointerVars, epochVars, retired, writerVars, gcVars, freed, deviceVars>>

-----------------------------------------------------------------------------
(* publish(), on any other thread. *)

\* "if (previous == nullptr) return": the first publish() retires nothing.
NothingSuperseded == current = NoObj

\* current_.exchange(next): atomic against the other exchanges, which read the
\* newest pointer even while it is landing.
Exchange(w, o) ==
  /\ phase # "destroyed"
  /\ writerPc[w] = "idle"
  /\ o \in fresh
  /\ \A v \in Writers : landing[v] = NoObj
  /\ fresh' = fresh \ {o}
  /\ generation' = generation + 1
  /\ previous' = [previous EXCEPT ![w] = current]
  /\ \/ current' = o /\ UNCHANGED <<landing, late>>
     \/ /\ RelaxedWriter
        /\ landing' = [landing EXCEPT ![w] = o]
        /\ late' = late \cup {w}
        /\ UNCHANGED current
  /\ IF NothingSuperseded THEN UNCHANGED writerPc
     ELSE writerPc' = [writerPc EXCEPT ![w] = "exchanged"]
  /\ UNCHANGED <<epochVars, retired, stamp, audioVars, gcVars, freed, deviceVars>>

ExchangeLands(w) ==
  /\ landing[w] # NoObj
  /\ current' = landing[w]
  /\ landing' = [landing EXCEPT ![w] = NoObj]
  /\ UNCHANGED <<fresh, late, generation, epochVars, retired, writerVars, audioVars,
                 gcVars, freed, deviceVars>>

\* rt_epoch_.load()
ReadEpoch(w) ==
  /\ writerPc[w] = "exchanged"
  /\ stamp' = [stamp EXCEPT ![w] = rt_epoch]
  /\ writerPc' = [writerPc EXCEPT ![w] = "stamped"]
  /\ UNCHANGED <<pointerVars, epochVars, retired, previous, audioVars, gcVars,
                 freed, deviceVars>>

\* A slip: the record is pushed without the lock, and nothing lands the exchange.
RetireUnlocked(w) ==
  /\ writerPc[w] = "stamped"
  /\ retired' = retired \cup {[object |-> previous[w], epoch |-> stamp[w]]}
  /\ previous' = [previous EXCEPT ![w] = NoObj]
  /\ writerPc' = [writerPc EXCEPT ![w] = "idle"]
  /\ UNCHANGED <<pointerVars, epochVars, stamp, audioVars, gcVars, freed, deviceVars>>

\* The push on retired_; releasing its lock publishes the exchange too.
Retire(w) ==
  /\ writerPc[w] = "stamped"
  /\ landing[w] = NoObj
  /\ retired' = retired \cup {[object |-> previous[w], epoch |-> stamp[w]]}
  /\ previous' = [previous EXCEPT ![w] = NoObj]
  /\ writerPc' = [writerPc EXCEPT ![w] = "idle"]
  /\ UNCHANGED <<pointerVars, epochVars, stamp, audioVars, gcVars, freed, deviceVars>>

-----------------------------------------------------------------------------
(* collect(rt_running), on the housekeeping thread. *)

LoadEpoch(running) ==
  /\ phase # "destroyed"
  /\ gcPc = "idle"
  /\ gcPc' = "loaded"
  /\ gcEpoch' = rt_epoch
  /\ gcRunning' = running
  /\ UNCHANGED <<pointerVars, epochVars, retired, writerVars, audioVars, doomed,
                 freed, deviceVars>>

\* A slip: one block of margin instead of two.
ExpiredEarly(r) == ~gcRunning \/ gcEpoch >= r.epoch + 1
Expired(r) == ~gcRunning \/ gcEpoch >= r.epoch + 2

ObjectsOf(records) == {r.object : r \in records}

TakeExpired ==
  /\ gcPc = "loaded"
  /\ gcPc' = "freeing"
  /\ doomed' = ObjectsOf({r \in retired : Expired(r)})
  /\ retired' = {r \in retired : ~Expired(r)}
  /\ UNCHANGED <<pointerVars, epochVars, writerVars, audioVars, gcEpoch, gcRunning,
                 freed, deviceVars>>

FreeDoomed ==
  /\ gcPc = "freeing"
  /\ gcPc' = "idle"
  /\ freed' = freed \cup doomed
  /\ doomed' = {}
  /\ UNCHANGED <<pointerVars, epochVars, retired, writerVars, audioVars, gcEpoch,
                 gcRunning, deviceVars>>

-----------------------------------------------------------------------------
(* The surroundings: the device, and the end of the publisher. *)

StartDevice ==
  /\ phase = "stopped"
  /\ starts < MaxStarts
  /\ phase' = "streaming"
  /\ starts' = starts + 1
  /\ UNCHANGED <<pointerVars, epochVars, retired, writerVars, audioVars, gcVars, freed>>

\* Stopping joins the audio thread: no block, and everything it stored is seen.
StopDevice ==
  /\ phase = "streaming"
  /\ audioPc = "idle"
  /\ unseenTicks = 0
  /\ phase' = "stopped"
  /\ UNCHANGED <<pointerVars, epochVars, retired, writerVars, audioVars, gcVars,
                 freed, starts>>

\* A slip: retired_ holds raw pointers and clear() frees none of them.
DestroyForgets ==
  /\ phase = "stopped"
  /\ gcPc = "idle"
  /\ \A w \in Writers : writerPc[w] = "idle" /\ landing[w] = NoObj
  /\ phase' = "destroyed"
  /\ freed' = freed \cup ({current} \ {NoObj})
  /\ current' = NoObj
  /\ retired' = {}
  /\ UNCHANGED <<fresh, landing, late, generation, epochVars, writerVars, audioVars,
                 gcVars, starts>>

\* ~NonRealtimeMutable(), "after the device is stopped and joined".
Destroy ==
  /\ phase = "stopped"
  /\ gcPc = "idle"
  /\ \A w \in Writers : writerPc[w] = "idle" /\ landing[w] = NoObj
  /\ phase' = "destroyed"
  /\ freed' = freed \cup ({current} \ {NoObj}) \cup ObjectsOf(retired)
  /\ current' = NoObj
  /\ retired' = {}
  /\ UNCHANGED <<fresh, landing, late, generation, epochVars, writerVars, audioVars,
                 gcVars, starts>>

\* "rt_running false means no callback can hold anything": what collect() asks
\* of its caller, for as long as the call lasts.
BlocksMayRun(running) == running \/ phase = "stopped"
CollectorWaits == gcPc = "idle" \/ gcRunning

Audio == (phase = "streaming" /\ BeginBlock) \/ TickLands \/ Acquire \/ EndBlock
Publish(w) ==
  (\E o \in Objs : Exchange(w, o)) \/ ExchangeLands(w) \/ ReadEpoch(w) \/ Retire(w)
Collect ==
  \/ \E running \in BOOLEAN : BlocksMayRun(running) /\ LoadEpoch(running)
  \/ TakeExpired
  \/ FreeDoomed
Device == (CollectorWaits /\ StartDevice) \/ StopDevice \/ Destroy

Next == Audio \/ (\E w \in Writers : Publish(w)) \/ Collect \/ Device

Spec == Init /\ [][Next]_vars

-----------------------------------------------------------------------------
TypeOK ==
  /\ fresh \subseteq Objs
  /\ current \in Pointer
  /\ landing \in [Writers -> Pointer]
  /\ late \subseteq Writers
  /\ generation \in Nat
  /\ rt_epoch \in 0..MaxEpoch
  /\ unseenTicks \in {0, 1}
  /\ rt_epoch + unseenTicks <= MaxEpoch
  /\ retired \subseteq Record
  /\ writerPc \in [Writers -> {"idle", "exchanged", "stamped"}]
  /\ previous \in [Writers -> Pointer]
  /\ \A w \in Writers : writerPc[w] # "idle" => previous[w] # NoObj
  /\ stamp \in [Writers -> 0..MaxEpoch]
  /\ audioPc \in {"idle", "block"}
  /\ held \subseteq Objs
  /\ gcPc \in {"idle", "loaded", "freeing"}
  /\ gcEpoch \in 0..MaxEpoch
  /\ gcRunning \in BOOLEAN
  /\ doomed \subseteq Objs
  /\ freed \subseteq Objs
  /\ phase \in {"stopped", "streaming", "destroyed"}
  /\ starts \in 0..MaxStarts

\* The object a block loaded "stays valid for the whole block": none of them is
\* freed before the block ends.
HeldAlive == held \cap freed = {}

\* It is, as long as every exchange is seen before publish() reads the epoch.
HeldAliveInOrder == late = {} => HeldAlive

Published == Objs \ fresh

\* An object has one owner at a time on its way from publish() to the free list
\* and is freed at most once: current_, one publish() call, one record of
\* retired_, one collect() call, or nobody any more.
SoleOwner ==
  /\ \A v, w \in Writers : previous[v] = previous[w] => v = w \/ previous[v] = NoObj
  /\ \A r, s \in retired : r.object = s.object => r = s
  /\ \A w \in Writers : previous[w] \notin ObjectsOf(retired) \cup doomed \cup freed
  /\ current \notin ObjectsOf(retired) \cup doomed \cup freed
  /\ ObjectsOf(retired) \cap (doomed \cup freed) = {}
  /\ doomed \cap freed = {}

\* The destructor leaves no published object behind.
NothingLeaks == phase = "destroyed" => freed = Published

\* A block never loads an object whose retirement was already recorded.
NeverAcquiresRetired ==
  [][(held' \ held) \cap (ObjectsOf(retired) \cup doomed \cup freed) = {}]_vars
(* An object is freed once, by the one that owns it, and in the end all are. *)
FreedOnceAndAll == TypeOK /\ SoleOwner /\ NothingLeaks
=============================================================================
