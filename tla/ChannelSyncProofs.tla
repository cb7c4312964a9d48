------------------------- MODULE ChannelSyncProofs -------------------------
(***************************************************************************)
(* The rack that is heard is the project's, for any number of channels,    *)
(* sample files and edits.                                                 *)
(*                                                                         *)
(* Two threads store the gates of a channel.  QueueInv says whose list the *)
(* worker is at; SettledInv says what its pass over the newest rack has    *)
(* brought about so far; GatesInv says what the main thread's own stores   *)
(* are worth when the worker had nothing to do; and BlockInv is about the  *)
(* block that is rendered meanwhile, from what it loaded before.           *)
(***************************************************************************)
EXTENDS ChannelSync, TLAPS

Stored == uiPc \in {"publish", "idle"}

(* The positions of the three loops. *)
LoopsInv ==
  /\ Stored => uiAt = 0
  /\ workPc = "idle" => workAt = 0
  /\ workPc # "idle" => workAt <= Len(work)
  /\ audioPc = "idle" => audioAt = 0
  /\ audioPc \in {"gate", "events", "start"} => audioAt \in Slot

(* What the worker knows of a channel's file is what the sampler holds,    *)
(* except between the load and the store of the hash.                      *)
FilesInv ==
  \A c \in Slot :
    /\ sample[c] \notin Unreadable
    /\ loaded_path[c] # NoPath => sample[c] = loaded_path[c]
    /\ loaded_sample_hash[c] = loaded_path[c] \/ (workPc = "record" /\ workAt = c)

WorkInv ==
  /\ workPc \in {"same", "record", "open"} => loaded_path[workAt] = Wanted.path
  /\ workPc = "clear" => Wanted.path = NoPath
  /\ workPc = "load" => Wanted.path \in Paths \ Unreadable
  /\ workPc = "activate" => loaded_path[workAt] = Wanted.path \/ Wanted.path \in Unreadable

(* The worker has the newest rack, or will take it next. *)
QueueInv ==
  /\ Stored => pending \in {<<>>, <<rack>>}
  /\ Stored /\ pending = <<>> /\ workPc # "idle" => work = rack
  /\ uiPc = "idle" => schedule = rack
  /\ ~overtaken => /\ ~Stored => WorkerCaughtUp
                   /\ workPc # "idle" => pending = <<>> /\ work = rack

SettledAt(list, c) ==
  /\ active[c] = (In(list, c) \/ c = 0)
  /\ one_shot[c] = IsClip(list, c)
  /\ In(list, c) /\ At(list, c).path \in Paths \ Unreadable => sample[c] = At(list, c).path
  /\ IsClip(list, c) => sample_ready[c] = (sample[c] = At(list, c).path)

(* The pass over the newest rack, which nobody disturbs. *)
SettledInv ==
  Stored /\ pending = <<>> =>
    /\ workPc = "idle" => SettledOn(rack)
    /\ workPc # "idle" => \A c \in Slot : c < workAt => SettledAt(rack, c)
    /\ workPc \notin {"idle", "gates"} => one_shot[workAt] = Wanted.clip
    /\ workPc = "activate" /\ Wanted.clip =>
         sample_ready[workAt] = (sample[workAt] = Wanted.path)

(* What the main thread stored is the rack's, and a gate it left open is   *)
(* that of the clip's own file: the worker's stores agree with it.         *)
GatesInv ==
  ~overtaken =>
    \A c \in Slot :
      /\ Stored \/ c < uiAt \/ (uiPc = "ready" /\ c = uiAt) => one_shot[c] = IsClip(rack, c)
      /\ Stored \/ c < uiAt => (IsClip(rack, c) /\ sample_ready[c] => sample[c] = At(rack, c).path)

BlockInv ==
  /\ newest => uiPc = "idle" /\ rendered = rack
  /\ calm => newest /\ WorkerCaughtUp
  /\ newest /\ ~overtaken /\ audioPc = "events" => gate = IsClip(rendered, audioAt)
  /\ ClipPlaysItsFileUnlessOvertaken
  /\ calm /\ audioPc = "events" => gate = one_shot[audioAt]
  /\ calm /\ playing =>
       \A c \in Slot : (c < audioAt \/ (c = audioAt /\ audioPc = "start")) /\ Readable(rack, c)
                         => ~deferred_audio_start[c]

RackInv ==
  TypeOK /\ LoopsInv /\ FilesInv /\ WorkInv /\ QueueInv /\ SettledInv /\ GatesInv /\ BlockInv

-----------------------------------------------------------------------------
(* Racks and channels. *)

LEMMA RackFacts ==
  ASSUME NEW list \in Racks
  PROVE  /\ Len(list) \in 0..Slots
         /\ \A c \in Slot : In(list, c) =>
              At(list, c).clip \in BOOLEAN /\ At(list, c).path \in Paths \cup {NoPath}
         /\ \A c \in Slot : IsClip(list, c) \in BOOLEAN
         /\ \A c \in Slot : IsClip(list, c) =>
              In(list, c) /\ At(list, c).clip /\ At(list, c).path \in Paths
         /\ \A c \in Slot : In(list, c) => IsClip(list, c) = At(list, c).clip
<1>1. PICK n \in 0..Slots : list \in [1..n -> Desc]
  BY DEF Racks
<1>2. Len(list) = n /\ n \in Nat
  BY <1>1, RackAssumption
<1>3. \A c \in Slot : In(list, c) => At(list, c) \in Desc
  BY <1>1, <1>2, RackAssumption DEF In, At, Slot
<1>4. \A d \in Desc : /\ d.clip \in BOOLEAN /\ d.path \in Paths \cup {NoPath}
                      /\ d.clip => d.path \in Paths
  BY DEF Desc
<1> QED
  BY <1>1, <1>2, <1>3, <1>4 DEF IsClip

LEMMA NoRack == <<>> \in Racks /\ \A c \in Slot : In(<<>>, c) = FALSE /\ IsClip(<<>>, c) = FALSE
<1>1. <<>> \in [1..0 -> Desc] /\ 0 \in 0..Slots
  BY RackAssumption
<1>2. <<>> \in Racks
  BY <1>1 DEF Racks
<1> QED
  BY <1>2, RackAssumption DEF In, IsClip, Slot

LEMMA SettledMeans ==
  ASSUME NEW list
  PROVE  SettledOn(list) <=> \A c \in Slot : In(list, c) \/ c > 0 => SettledAt(list, c)
BY DEF SettledOn, SettledAt

LEMMA RackInitEstablishes == Init => RackInv
<1> SUFFICES ASSUME Init PROVE RackInv
  OBVIOUS
<1> USE DEF Init
<1>1. TypeOK
  BY NoRack, RackAssumption DEF TypeOK, Slot
<1>2. LoopsInv /\ WorkInv /\ QueueInv
  BY DEF LoopsInv, WorkInv, QueueInv, WorkerCaughtUp
<1>3. FilesInv
  BY RackAssumption DEF FilesInv
<1>4. SettledInv
  <2>1. \A c \in Slot : active[c] = (c = 0) /\ one_shot[c] = FALSE
    OBVIOUS
  <2>2. \A c \in Slot : SettledAt(<<>>, c)
    BY <2>1, NoRack DEF SettledAt
  <2> QED
    BY <2>2, SettledMeans DEF SettledInv
<1>5. GatesInv /\ BlockInv
  BY NoRack DEF GatesInv, BlockInv, ClipPlaysItsFileUnlessOvertaken
<1> QED
  BY <1>1, <1>2, <1>3, <1>4, <1>5 DEF RackInv

-----------------------------------------------------------------------------
(* The main thread. *)

LEMMA EditKeeps ==
  ASSUME RackInv, NEW list \in Racks, Edit(list)
  PROVE  RackInv'
<1>0. /\ uiPc = "idle" /\ edits < MaxEdits /\ edits' = edits + 1 /\ rack' = list
      /\ overtaken' = ~WorkerCaughtUp /\ uiPc' = "gates" /\ newest' = FALSE /\ calm' = FALSE
      /\ UNCHANGED <<active, one_shot, sample_ready, loaded_sample_hash, loaded_path, sample,
                     deferred_audio_start, uiAt, pending, workPc, workAt, work, schedule,
                     audioPc, audioAt, playing, rendered, gate>>
  BY DEF Edit, gateVars, fileVars, workVars
<1>1. TypeOK'
  <2>1. edits' \in 0..MaxEdits /\ overtaken' \in BOOLEAN
    BY <1>0, RackAssumption DEF RackInv, TypeOK
  <2> QED
    BY <1>0, <2>1 DEF RackInv, TypeOK, Listed
<1>2. uiAt = 0 /\ ~Stored'
  BY <1>0 DEF RackInv, LoopsInv, Stored
<1>3. LoopsInv' /\ FilesInv' /\ WorkInv'
  BY <1>0, <1>2 DEF RackInv, LoopsInv, FilesInv, WorkInv, Wanted
<1>4. QueueInv' /\ SettledInv'
  BY <1>0, <1>2 DEF QueueInv, SettledInv, WorkerCaughtUp
<1>5. GatesInv' /\ BlockInv'
  BY <1>0, <1>2 DEF GatesInv, BlockInv, ClipPlaysItsFileUnlessOvertaken, Slot
<1> QED
  BY <1>1, <1>3, <1>4, <1>5 DEF RackInv

(* No block counts as rendering the newest rack while it is being stored. *)
LEMMA NotNewest ==
  ASSUME RackInv, uiPc # "idle", UNCHANGED <<newest, calm>>
  PROVE  BlockInv'
BY DEF RackInv, BlockInv, ClipPlaysItsFileUnlessOvertaken

LEMMA StoreGatesKeeps ==
  ASSUME RackInv, StoreGates
  PROVE  RackInv'
<1>0. /\ uiPc = "gates" /\ uiAt \in Slot /\ uiPc' = "ready"
      /\ active' = [active EXCEPT ![uiAt] = In(rack, uiAt) \/ (uiAt = 0 /\ rack = <<>>)]
      /\ one_shot' = [one_shot EXCEPT ![uiAt] = IsClip(rack, uiAt)]
      /\ UNCHANGED <<sample_ready, loaded_sample_hash, loaded_path, sample, uiAt, rack, edits,
                     overtaken, pending, workPc, workAt, work, schedule, deferred_audio_start,
                     audioPc, audioAt, playing, rendered, gate, newest, calm>>
  BY DEF StoreGates, fileVars, planVars, workVars, audioVars, blockVars
<1>1. TypeOK'
  <2>1. active' \in [Slot -> BOOLEAN]
    BY <1>0 DEF RackInv, TypeOK
  <2>2. one_shot' \in [Slot -> BOOLEAN]
    BY <1>0, RackFacts DEF RackInv, TypeOK
  <2> QED
    BY <1>0, <2>1, <2>2 DEF RackInv, TypeOK, Listed
<1>2. ~Stored /\ ~Stored'
  BY <1>0 DEF Stored
<1>3. LoopsInv' /\ FilesInv' /\ WorkInv'
  BY <1>0, <1>2 DEF RackInv, LoopsInv, FilesInv, WorkInv, Wanted
<1>4. QueueInv' /\ SettledInv'
  BY <1>0, <1>2 DEF RackInv, QueueInv, SettledInv, WorkerCaughtUp
<1>5. GatesInv'
  BY <1>0, <1>2 DEF RackInv, TypeOK, GatesInv
<1>6. BlockInv'
  BY <1>0, NotNewest
<1> QED
  BY <1>1, <1>3, <1>4, <1>5, <1>6 DEF RackInv

(* A gate that stays open is that of a file the sampler holds. *)
LEMMA HeldFile ==
  ASSUME RackInv, NEW list \in Racks, NEW c \in Slot, IsClip(list, c), HoldsFile(list, c),
         workPc # "record" \/ workAt # c
  PROVE  sample[c] = At(list, c).path
BY RackFacts, RackAssumption DEF RackInv, FilesInv, HoldsFile

LEMMA StoreReadyKeeps ==
  ASSUME RackInv, StoreReady
  PROVE  RackInv'
<1>0. /\ uiPc = "ready" /\ uiPc' = "gates" /\ uiAt' = uiAt + 1
      /\ sample_ready' =
           [sample_ready EXCEPT
              ![uiAt] = IF IsClip(rack, uiAt) THEN @ /\ HoldsFile(rack, uiAt) ELSE TRUE]
      /\ UNCHANGED <<active, one_shot, loaded_sample_hash, loaded_path, sample, rack, edits,
                     overtaken, pending, workPc, workAt, work, schedule, deferred_audio_start,
                     audioPc, audioAt, playing, rendered, gate, newest, calm>>
  BY DEF StoreReady, fileVars, planVars, workVars, audioVars, blockVars
<1>1. uiAt \in Slot /\ uiAt \in Nat /\ uiAt' \in 0..Slots /\ uiAt' = uiAt + 1
      /\ sample_ready \in [Slot -> BOOLEAN]
  BY <1>0, RackAssumption DEF RackInv, TypeOK, Slot
<1>2. TypeOK'
  <2>1. sample_ready' \in [Slot -> BOOLEAN]
    <3>1. (IF IsClip(rack, uiAt) THEN sample_ready[uiAt] /\ HoldsFile(rack, uiAt) ELSE TRUE)
            \in BOOLEAN
      BY <1>1
    <3> QED
      BY <1>0, <1>1, <3>1
  <2> QED
    BY <1>0, <1>1, <2>1, ZenonT(60) DEF RackInv, TypeOK, Listed
<1>3. ~Stored /\ ~Stored'
  BY <1>0 DEF Stored
<1>4. LoopsInv' /\ FilesInv' /\ WorkInv'
  BY <1>0, <1>3 DEF RackInv, LoopsInv, FilesInv, WorkInv, Wanted
<1>5. QueueInv' /\ SettledInv'
  BY <1>0, <1>3 DEF RackInv, QueueInv, SettledInv, WorkerCaughtUp
<1>6. GatesInv'
  <2> SUFFICES ASSUME ~overtaken, NEW c \in Slot
               PROVE  /\ c < uiAt + 1 => one_shot[c] = IsClip(rack, c)
                      /\ c < uiAt + 1 => (IsClip(rack, c) /\ sample_ready'[c]
                                            => sample[c] = At(rack, c).path)
    BY <1>0, <1>1, <1>3 DEF GatesInv
  <2>1. CASE c = uiAt
    <3>1. one_shot[c] = IsClip(rack, c)
      BY <1>0, <1>1, <2>1 DEF RackInv, GatesInv
    <3>2. IsClip(rack, c) /\ sample_ready'[c] => HoldsFile(rack, c)
      BY <1>0, <1>1, <2>1
    <3>3. workPc = "idle" /\ rack \in Racks
      BY <1>3 DEF RackInv, QueueInv, WorkerCaughtUp, TypeOK
    <3> QED
      BY <3>1, <3>2, <3>3, HeldFile
  <2>2. CASE c # uiAt
    <3>1. c < uiAt + 1 => c < uiAt
      BY <1>1, <2>2 DEF Slot
    <3>2. sample_ready'[c] = sample_ready[c]
      BY <1>0, <1>1, <2>2
    <3> QED
      BY <3>1, <3>2 DEF RackInv, GatesInv
  <2> QED
    BY <2>1, <2>2
<1>7. BlockInv'
  BY <1>0, NotNewest
<1> QED
  BY <1>2, <1>4, <1>5, <1>6, <1>7 DEF RackInv

LEMMA QueueChannelsKeeps ==
  ASSUME RackInv, QueueChannels
  PROVE  RackInv'
<1>0. /\ uiPc = "gates" /\ uiAt = Slots /\ uiPc' = "publish" /\ uiAt' = 0 /\ pending' = <<rack>>
      /\ UNCHANGED <<active, one_shot, sample_ready, loaded_sample_hash, loaded_path, sample,
                     rack, edits, overtaken, workPc, workAt, work, schedule,
                     deferred_audio_start, audioPc, audioAt, playing, rendered, gate, newest,
                     calm>>
  BY DEF QueueChannels, Replacing, gateVars, fileVars, planVars, workVars, audioVars, blockVars
<1>1. TypeOK'
  <2>1. Len(pending') = 1 /\ pending'[1] = rack /\ uiAt' \in 0..Slots
    BY <1>0, RackAssumption
  <2> QED
    BY <1>0, <2>1 DEF RackInv, TypeOK, Listed
<1>2. ~Stored /\ Stored' /\ pending' # <<>>
  BY <1>0 DEF Stored
<1>3. LoopsInv' /\ FilesInv' /\ WorkInv'
  BY <1>0, <1>2 DEF RackInv, LoopsInv, FilesInv, WorkInv, Wanted
<1>4. QueueInv' /\ SettledInv'
  BY <1>0, <1>2 DEF RackInv, QueueInv, SettledInv, WorkerCaughtUp
<1>5. GatesInv'
  <2>1. \A c \in Slot : c < uiAt
    BY <1>0, RackAssumption DEF Slot
  <2> QED
    BY <1>0, <2>1 DEF RackInv, GatesInv
<1>6. BlockInv'
  BY <1>0, NotNewest
<1> QED
  BY <1>1, <1>3, <1>4, <1>5, <1>6 DEF RackInv

LEMMA PublishScheduleKeeps ==
  ASSUME RackInv, PublishSchedule
  PROVE  RackInv'
<1>0. /\ uiPc = "publish" /\ uiPc' = "idle" /\ schedule' = rack
      /\ UNCHANGED <<active, one_shot, sample_ready, loaded_sample_hash, loaded_path, sample,
                     uiAt, rack, edits, overtaken, pending, workPc, workAt, work,
                     deferred_audio_start, audioPc, audioAt, playing, rendered, gate, newest,
                     calm>>
  BY DEF PublishSchedule, gateVars, fileVars, planVars, workVars, audioVars, blockVars
<1>1. TypeOK'
  BY <1>0 DEF RackInv, TypeOK, Listed
<1>2. Stored /\ Stored'
  BY <1>0 DEF Stored
<1>3. LoopsInv' /\ FilesInv' /\ WorkInv'
  BY <1>0, <1>2 DEF RackInv, LoopsInv, FilesInv, WorkInv, Wanted
<1>4. QueueInv'
  BY <1>0, <1>2 DEF RackInv, QueueInv, WorkerCaughtUp
<1>5. SettledInv'
  BY <1>0, <1>2 DEF RackInv, SettledInv, SettledOn, SettledAt, Wanted
<1>6. GatesInv'
  BY <1>0, <1>2 DEF RackInv, GatesInv
<1>7. BlockInv'
  BY <1>0, NotNewest
<1> QED
  BY <1>1, <1>3, <1>4, <1>5, <1>6, <1>7 DEF RackInv

-----------------------------------------------------------------------------
(* The worker. *)

(* A step of the worker is no concern of a block that began when the       *)
(* worker was done; nor of another, but for the file that is loaded.       *)
LEMMA WorkerBlock ==
  ASSUME RackInv, UNCHANGED <<uiVars, schedule, audioVars>>, ~WorkerCaughtUp,
         newest /\ ~overtaken /\ audioPc = "start" =>
           sample'[audioAt] \in {sample[audioAt], At(rendered, audioAt).path}
  PROVE  BlockInv'
<1>1. ~calm /\ calm' = calm
  BY DEF RackInv, BlockInv, audioVars, blockVars
<1>2. UNCHANGED <<uiPc, rack, overtaken, audioPc, audioAt, rendered, gate, newest>>
  BY DEF uiVars, planVars, audioVars, blockVars
<1>3. ClipPlaysItsFileUnlessOvertaken'
  BY <1>2 DEF RackInv, BlockInv, ClipPlaysItsFileUnlessOvertaken, StartsItsClip
<1> QED
  BY <1>1, <1>2, <1>3 DEF RackInv, BlockInv

\* What a step on channel workAt may do.
OnlyAt(c) == \A d \in Slot : d # c =>
  /\ active'[d] = active[d] /\ one_shot'[d] = one_shot[d] /\ sample_ready'[d] = sample_ready[d]
  /\ sample'[d] = sample[d]
GateStored(c) ==
  one_shot'[c] = Wanted.clip \/ (workPc # "gates" /\ one_shot'[c] = one_shot[c])
OpenForItsFile(c) ==
  Wanted.clip /\ sample_ready'[c] =>
    \/ sample'[c] = Wanted.path
    \/ sample_ready'[c] = sample_ready[c] /\ sample'[c] = sample[c]

(* A step on the channel the worker is at keeps what is settled so far.    *)
LEMMA SlotStep ==
  ASSUME RackInv, workPc # "idle", Listed, workPc' \notin {"idle", "gates"},
         UNCHANGED <<uiVars, pending, workAt, work, schedule, audioVars>>,
         OnlyAt(workAt), GateStored(workAt), OpenForItsFile(workAt),
         sample'[workAt] \in {sample[workAt], Wanted.path},
         workPc' = "activate" /\ Wanted.clip =>
           sample_ready'[workAt] = (sample'[workAt] = Wanted.path)
  PROVE  LoopsInv' /\ QueueInv' /\ SettledInv' /\ GatesInv' /\ BlockInv'
<1>0. /\ UNCHANGED <<uiPc, uiAt, rack, edits, overtaken, pending, workAt, work, schedule, audioPc,
                     audioAt, rendered, newest>>
      /\ ~WorkerCaughtUp /\ (Stored' <=> Stored)
  BY DEF uiVars, planVars, audioVars, blockVars, WorkerCaughtUp, Stored
<1>1. /\ work \in Racks /\ rack \in Racks /\ workAt \in Slot
      /\ Wanted = At(work, workAt) /\ Wanted' = Wanted
      /\ IsClip(work, workAt) = Wanted.clip /\ In(work, workAt)
  <2>1. work \in Racks /\ workAt \in Nat /\ Len(work) \in 0..Slots /\ rack \in Racks
    BY RackFacts, RackAssumption DEF RackInv, TypeOK
  <2>2. workAt \in Slot
    BY <2>1, RackAssumption DEF Listed, In, Slot
  <2> QED
    BY <1>0, <2>1, <2>2, RackFacts DEF Wanted, Listed
<1>2. LoopsInv'
  BY <1>0 DEF RackInv, LoopsInv, Stored, audioVars, blockVars
<1>3. QueueInv'
  BY <1>0 DEF RackInv, QueueInv, WorkerCaughtUp
<1>4. SettledInv'
  <2> SUFFICES ASSUME Stored, pending = <<>>
               PROVE  /\ \A c \in Slot : c < workAt => SettledAt(rack, c)'
                      /\ one_shot'[workAt] = Wanted.clip
                      /\ workPc' = "activate" /\ Wanted.clip =>
                           sample_ready'[workAt] = (sample'[workAt] = Wanted.path)
    BY <1>0, <1>1 DEF SettledInv
  <2>1. \A c \in Slot : c < workAt => SettledAt(rack, c) /\ c # workAt
    BY <1>1 DEF RackInv, SettledInv, Slot
  <2>2. \A c \in Slot : c < workAt => SettledAt(rack, c)'
    BY <1>0, <2>1 DEF SettledAt, OnlyAt
  <2>3. one_shot'[workAt] = Wanted.clip
    BY DEF RackInv, SettledInv, GateStored
  <2> QED
    BY <2>2, <2>3
<1>5. ~overtaken => work = rack /\ Stored
  BY <1>0 DEF RackInv, QueueInv
<1>6. GatesInv'
  <2> SUFFICES ASSUME ~overtaken, NEW c \in Slot
               PROVE  /\ one_shot'[c] = IsClip(rack, c)
                      /\ IsClip(rack, c) /\ sample_ready'[c] => sample'[c] = At(rack, c).path
    BY <1>0, <1>5 DEF GatesInv
  <2>1. /\ one_shot[c] = IsClip(rack, c)
        /\ IsClip(rack, c) /\ sample_ready[c] => sample[c] = At(rack, c).path
    BY <1>5 DEF RackInv, GatesInv
  <2>2. CASE c # workAt
    BY <2>1, <2>2 DEF OnlyAt
  <2>3. CASE c = workAt
    <3>1. one_shot'[c] = IsClip(rack, c)
      BY <1>1, <1>5, <2>1, <2>3 DEF GateStored
    <3>2. IsClip(rack, c) /\ sample_ready'[c] => sample'[c] = At(rack, c).path
      BY <1>1, <1>5, <2>1, <2>3 DEF OpenForItsFile
    <3> QED
      BY <3>1, <3>2
  <2> QED
    BY <2>2, <2>3
<1>7. BlockInv'
  <2>1. newest /\ ~overtaken /\ audioPc = "start" =>
          sample'[audioAt] \in {sample[audioAt], At(rendered, audioAt).path}
    <3> SUFFICES ASSUME newest, ~overtaken, audioPc = "start"
                 PROVE  sample'[audioAt] \in {sample[audioAt], At(rendered, audioAt).path}
      OBVIOUS
    <3>1. audioAt \in Slot /\ rendered = work
      BY <1>5 DEF RackInv, LoopsInv, BlockInv
    <3> QED
      BY <1>1, <3>1 DEF OnlyAt
  <2> QED
    BY <1>0, <2>1, WorkerBlock
<1> QED
  BY <1>2, <1>3, <1>4, <1>6, <1>7

(* The channel the worker is at, and what it wants there. *)
LEMMA WorkerAt ==
  ASSUME RackInv, workPc \notin {"idle", "gates"} \/ (workPc = "gates" /\ Listed)
  PROVE  /\ Listed /\ workAt \in Slot /\ work \in Racks
         /\ Wanted.clip \in BOOLEAN /\ Wanted.path \in Paths \cup {NoPath}
         /\ Wanted.clip => Wanted.path \in Paths
<1>1. Listed /\ work \in Racks /\ workAt \in Nat /\ Len(work) \in 0..Slots
  BY RackFacts, RackAssumption DEF RackInv, TypeOK
<1>2. workAt \in Slot
  BY <1>1, RackAssumption DEF Listed, In, Slot
<1> QED
  BY <1>1, <1>2, RackFacts DEF Listed, Wanted, IsClip

\* The variables of the others, which no step of the worker on a channel touches.
others == <<uiVars, pending, workAt, work, schedule, audioVars>>

LEMMA ApplyGatesKeeps ==
  ASSUME RackInv, ApplyGates
  PROVE  RackInv'
<1>0. /\ workPc = "gates" /\ Listed
      /\ one_shot' = [one_shot EXCEPT ![workAt] = Wanted.clip]
      /\ workPc' = (IF Wanted.path # loaded_path[workAt] THEN "changed" ELSE "same")
      /\ UNCHANGED <<active, sample_ready, loaded_sample_hash, loaded_path, sample>>
      /\ UNCHANGED others
  BY DEF ApplyGates, fileVars, others
<1>1. /\ workAt \in Slot /\ work \in Racks /\ Wanted.clip \in BOOLEAN
      /\ one_shot \in [Slot -> BOOLEAN]
  BY <1>0, WorkerAt DEF RackInv, TypeOK
<1>2. TypeOK'
  BY <1>0, <1>1 DEF RackInv, TypeOK, Listed, others, uiVars, planVars, audioVars, blockVars
<1>3. FilesInv' /\ WorkInv'
  BY <1>0 DEF RackInv, FilesInv, WorkInv, Wanted, others
<1>4. OnlyAt(workAt) /\ GateStored(workAt) /\ OpenForItsFile(workAt)
  BY <1>0, <1>1 DEF OnlyAt, GateStored, OpenForItsFile
<1> QED
  BY <1>0, <1>2, <1>3, <1>4, SlotStep DEF RackInv, others

LEMMA KeepSampleKeeps ==
  ASSUME RackInv, KeepSample
  PROVE  RackInv'
<1>0. /\ workPc = "same" /\ workPc' = "activate"
      /\ sample_ready' = [sample_ready EXCEPT
                            ![workAt] = @ \/ (Wanted.clip /\ HoldsFile(work, workAt))]
      /\ UNCHANGED <<active, one_shot, loaded_sample_hash, loaded_path, sample>>
      /\ UNCHANGED others
  BY DEF KeepSample, fileVars, others
<1>1. /\ workAt \in Slot /\ Listed /\ work \in Racks
      /\ sample_ready \in [Slot -> BOOLEAN] /\ Wanted.path \in Paths \cup {NoPath}
      /\ Wanted.clip \in BOOLEAN /\ (Wanted.clip => Wanted.path \in Paths)
  BY <1>0, WorkerAt DEF RackInv, TypeOK
<1>a. sample_ready' \in [Slot -> BOOLEAN]
  <2>1. (sample_ready[workAt] \/ (Wanted.clip /\ HoldsFile(work, workAt))) \in BOOLEAN
    OBVIOUS
  <2> QED
    BY <1>0, <1>1, <2>1
<1>2. TypeOK'
  BY <1>0, <1>1, <1>a DEF RackInv, TypeOK, Listed, others, uiVars, planVars, audioVars, blockVars
<1>3. FilesInv' /\ WorkInv'
  BY <1>0 DEF RackInv, FilesInv, WorkInv, Wanted, others
<1>4. Wanted.clip => sample_ready'[workAt] = TRUE /\ sample[workAt] = Wanted.path
  <2> SUFFICES ASSUME Wanted.clip
               PROVE  sample_ready'[workAt] = TRUE /\ sample[workAt] = Wanted.path
    OBVIOUS
  <2>1. loaded_path[workAt] = Wanted.path /\ loaded_sample_hash[workAt] = loaded_path[workAt]
        /\ Wanted.path # NoPath /\ sample[workAt] = loaded_path[workAt]
    BY <1>0, <1>1, RackAssumption DEF RackInv, WorkInv, FilesInv
  <2>2. HoldsFile(work, workAt)
    BY <2>1 DEF HoldsFile, Wanted
  <2> QED
    BY <1>0, <1>1, <2>1, <2>2
<1>5. OnlyAt(workAt) /\ GateStored(workAt) /\ OpenForItsFile(workAt)
  BY <1>0, <1>1, <1>4 DEF OnlyAt, GateStored, OpenForItsFile
<1> QED
  BY <1>0, <1>1, <1>2, <1>3, <1>4, <1>5, SlotStep DEF RackInv, others

LEMMA CloseGateKeeps ==
  ASSUME RackInv, CloseGate
  PROVE  RackInv'
<1>0. /\ workPc = "changed"
      /\ sample_ready' = [sample_ready EXCEPT ![workAt] = @ /\ ~Wanted.clip]
      /\ workPc' = (CASE Wanted.path = NoPath        -> "clear"
                      [] Wanted.path \in Unreadable  -> "activate"
                      [] OTHER                       -> "load")
      /\ UNCHANGED <<active, one_shot, loaded_sample_hash, loaded_path, sample>>
      /\ UNCHANGED others
  BY DEF CloseGate, fileVars, others
<1>1. /\ workAt \in Slot /\ Listed /\ work \in Racks
      /\ sample_ready \in [Slot -> BOOLEAN] /\ Wanted.path \in Paths \cup {NoPath}
      /\ Wanted.clip \in BOOLEAN
  BY <1>0, WorkerAt DEF RackInv, TypeOK
<1>a. sample_ready' \in [Slot -> BOOLEAN]
  <2>1. (sample_ready[workAt] /\ ~Wanted.clip) \in BOOLEAN
    OBVIOUS
  <2> QED
    BY <1>0, <1>1, <2>1
<1>b. /\ workPc' \in {"clear", "activate", "load"}
      /\ workPc' = "clear" => Wanted.path = NoPath
      /\ workPc' = "activate" => Wanted.path \in Unreadable
      /\ workPc' = "load" => Wanted.path \in Paths \ Unreadable
  BY <1>0, <1>1
<1>2. TypeOK'
  BY <1>0, <1>1, <1>a, <1>b
  DEF RackInv, TypeOK, Listed, others, uiVars, planVars, audioVars, blockVars
<1>3. FilesInv' /\ WorkInv'
  BY <1>0, <1>b DEF RackInv, FilesInv, WorkInv, Wanted, others
<1>4. /\ Wanted.clip => sample_ready'[workAt] = FALSE
      /\ sample[workAt] \notin Unreadable
  BY <1>0, <1>1 DEF RackInv, FilesInv
<1>5. OnlyAt(workAt) /\ GateStored(workAt) /\ OpenForItsFile(workAt)
  BY <1>0, <1>1, <1>4 DEF OnlyAt, GateStored, OpenForItsFile
<1>6. workPc' = "activate" /\ Wanted.clip =>
        sample_ready'[workAt] = (sample'[workAt] = Wanted.path)
  BY <1>0, <1>4, <1>b
<1> QED
  BY <1>0, <1>1, <1>2, <1>3, <1>5, <1>6, <1>b, SlotStep DEF RackInv, others

LEMMA LoadSampleKeeps ==
  ASSUME RackInv, LoadSample
  PROVE  RackInv'
<1>0. /\ workPc = "load" /\ workPc' = "record"
      /\ sample' = [sample EXCEPT ![workAt] = Wanted.path]
      /\ loaded_path' = [loaded_path EXCEPT ![workAt] = Wanted.path]
      /\ UNCHANGED <<active, one_shot, sample_ready, loaded_sample_hash>>
      /\ UNCHANGED others
  BY DEF LoadSample, gateVars, others
<1>1. /\ workAt \in Slot /\ Listed /\ work \in Racks /\ Wanted.path \in Paths \ Unreadable
      /\ sample \in [Slot -> Paths \cup {NoPath}] /\ loaded_path \in [Slot -> Paths \cup {NoPath}]
  BY <1>0, WorkerAt DEF RackInv, TypeOK, WorkInv
<1>2. TypeOK'
  BY <1>0, <1>1 DEF RackInv, TypeOK, Listed, others, uiVars, planVars, audioVars, blockVars
<1>3. FilesInv' /\ WorkInv'
  BY <1>0, <1>1, RackAssumption DEF RackInv, FilesInv, WorkInv, Wanted, others
<1>4. OnlyAt(workAt) /\ GateStored(workAt) /\ OpenForItsFile(workAt)
  BY <1>0, <1>1 DEF OnlyAt, GateStored, OpenForItsFile
<1> QED
  BY <1>0, <1>1, <1>2, <1>3, <1>4, SlotStep DEF RackInv, others

LEMMA ForgetSampleKeeps ==
  ASSUME RackInv, ForgetSample
  PROVE  RackInv'
<1>0. /\ workPc = "clear" /\ workPc' = "record"
      /\ loaded_path' = [loaded_path EXCEPT ![workAt] = NoPath]
      /\ UNCHANGED <<active, one_shot, sample_ready, loaded_sample_hash, sample>>
      /\ UNCHANGED others
  BY DEF ForgetSample, gateVars, others
<1>1. /\ workAt \in Slot /\ Listed /\ work \in Racks /\ Wanted.path = NoPath
      /\ loaded_path \in [Slot -> Paths \cup {NoPath}]
  BY <1>0, WorkerAt DEF RackInv, TypeOK, WorkInv
<1>2. TypeOK'
  BY <1>0, <1>1 DEF RackInv, TypeOK, Listed, others, uiVars, planVars, audioVars, blockVars
<1>3. FilesInv' /\ WorkInv'
  BY <1>0, <1>1 DEF RackInv, FilesInv, WorkInv, Wanted, others
<1>4. OnlyAt(workAt) /\ GateStored(workAt) /\ OpenForItsFile(workAt)
  BY <1>0, <1>1 DEF OnlyAt, GateStored, OpenForItsFile
<1> QED
  BY <1>0, <1>1, <1>2, <1>3, <1>4, SlotStep DEF RackInv, others

LEMMA RecordHashKeeps ==
  ASSUME RackInv, RecordHash
  PROVE  RackInv'
<1>0. /\ workPc = "record" /\ workPc' = "open"
      /\ loaded_sample_hash' = [loaded_sample_hash EXCEPT ![workAt] = Wanted.path]
      /\ UNCHANGED <<active, one_shot, sample_ready, loaded_path, sample>>
      /\ UNCHANGED others
  BY DEF RecordHash, fileVars, others
<1>1. /\ workAt \in Slot /\ Listed /\ work \in Racks /\ Wanted.path \in Paths \cup {NoPath}
      /\ loaded_sample_hash \in [Slot -> Paths \cup {NoPath}]
      /\ loaded_path[workAt] = Wanted.path
  BY <1>0, WorkerAt DEF RackInv, TypeOK, WorkInv
<1>2. TypeOK'
  BY <1>0, <1>1 DEF RackInv, TypeOK, Listed, others, uiVars, planVars, audioVars, blockVars
<1>3. FilesInv' /\ WorkInv'
  BY <1>0, <1>1 DEF RackInv, FilesInv, WorkInv, Wanted, others
<1>4. OnlyAt(workAt) /\ GateStored(workAt) /\ OpenForItsFile(workAt)
  BY <1>0, <1>1 DEF OnlyAt, GateStored, OpenForItsFile
<1> QED
  BY <1>0, <1>1, <1>2, <1>3, <1>4, SlotStep DEF RackInv, others

LEMMA OpenGateKeeps ==
  ASSUME RackInv, OpenGate
  PROVE  RackInv'
<1>0. /\ workPc = "open" /\ workPc' = "activate"
      /\ sample_ready' = [sample_ready EXCEPT ![workAt] = TRUE]
      /\ UNCHANGED <<active, one_shot, loaded_sample_hash, loaded_path, sample>>
      /\ UNCHANGED others
  BY DEF OpenGate, Opened, fileVars, others
<1>1. /\ workAt \in Slot /\ Listed /\ work \in Racks
      /\ sample_ready \in [Slot -> BOOLEAN] /\ loaded_path[workAt] = Wanted.path
      /\ Wanted.clip => Wanted.path \in Paths
  BY <1>0, WorkerAt DEF RackInv, TypeOK, WorkInv
<1>2. TypeOK'
  BY <1>0, <1>1 DEF RackInv, TypeOK, Listed, others, uiVars, planVars, audioVars, blockVars
<1>3. FilesInv' /\ WorkInv'
  BY <1>0, <1>1 DEF RackInv, FilesInv, WorkInv, Wanted, others
<1>4. Wanted.clip => sample_ready'[workAt] = TRUE /\ sample[workAt] = Wanted.path
  BY <1>0, <1>1, RackAssumption DEF RackInv, FilesInv
<1>5. OnlyAt(workAt) /\ GateStored(workAt) /\ OpenForItsFile(workAt)
  BY <1>0, <1>1, <1>4 DEF OnlyAt, GateStored, OpenForItsFile
<1> QED
  BY <1>0, <1>1, <1>2, <1>3, <1>4, <1>5, SlotStep DEF RackInv, others

LEMMA ActivateKeeps ==
  ASSUME RackInv, Activate
  PROVE  RackInv'
<1>0. /\ workPc = "activate" /\ workPc' = "gates" /\ workAt' = workAt + 1
      /\ active' = [active EXCEPT ![workAt] = TRUE]
      /\ UNCHANGED <<one_shot, sample_ready, loaded_sample_hash, loaded_path, sample, pending, work,
                     schedule>>
      /\ UNCHANGED <<uiVars, audioVars>>
  BY DEF Activate, fileVars
<1>a. UNCHANGED <<uiPc, uiAt, rack, edits, overtaken, audioPc, audioAt>> /\ (Stored' <=> Stored)
  BY <1>0 DEF uiVars, planVars, audioVars, blockVars, Stored
<1>1. /\ workAt \in Slot /\ Listed /\ work \in Racks /\ active \in [Slot -> BOOLEAN]
      /\ workAt \in Nat /\ workAt + 1 \in 0..Slots /\ workAt + 1 <= Len(work)
      /\ IsClip(work, workAt) = Wanted.clip
  <2>1. workAt \in Slot /\ Listed /\ work \in Racks /\ active \in [Slot -> BOOLEAN]
    BY <1>0, WorkerAt DEF RackInv, TypeOK
  <2>2. Len(work) \in 0..Slots /\ IsClip(work, workAt) = Wanted.clip
    BY <2>1, RackFacts DEF Listed, Wanted
  <2> QED
    BY <2>1, <2>2, RackAssumption DEF Listed, In, Slot
<1>2. TypeOK'
  BY <1>0, <1>1 DEF RackInv, TypeOK, Listed, uiVars, planVars, audioVars, blockVars
<1>3. LoopsInv' /\ FilesInv' /\ WorkInv'
  BY <1>0, <1>1, <1>a DEF RackInv, LoopsInv, FilesInv, WorkInv
<1>4. QueueInv'
  BY <1>0, <1>a DEF RackInv, QueueInv, WorkerCaughtUp
<1>5. SettledInv'
  <2> SUFFICES ASSUME Stored, pending = <<>>, NEW c \in Slot, c < workAt + 1
               PROVE  SettledAt(rack, c)'
    BY <1>0, <1>a DEF SettledInv
  <2>1. rack = work
    BY <1>0 DEF RackInv, QueueInv
  <2>2. CASE c = workAt
    <3>1. active'[c] = TRUE /\ In(rack, c)
      BY <1>0, <1>1, <2>1, <2>2 DEF Listed
    <3>2. one_shot[c] = IsClip(rack, c)
      BY <1>0, <1>1, <2>1, <2>2 DEF RackInv, SettledInv
    <3>3. IsClip(rack, c) => sample_ready[c] = (sample[c] = At(rack, c).path)
      BY <1>0, <1>1, <2>1, <2>2 DEF RackInv, SettledInv, Wanted
    <3>4. At(rack, c).path \in Paths \ Unreadable => sample[c] = At(rack, c).path
      BY <1>0, <1>1, <2>1, <2>2, RackAssumption DEF RackInv, WorkInv, FilesInv, Wanted
    <3> QED
      BY <1>0, <1>a, <3>1, <3>2, <3>3, <3>4 DEF SettledAt
  <2>3. CASE c # workAt
    <3>1. c < workAt
      BY <1>1, <2>3 DEF Slot
    <3>2. SettledAt(rack, c)
      BY <1>0, <3>1 DEF RackInv, SettledInv
    <3> QED
      BY <1>0, <1>1, <1>a, <2>3, <3>2 DEF SettledAt
  <2> QED
    BY <2>2, <2>3
<1>6. GatesInv'
  BY <1>0, <1>a DEF RackInv, GatesInv
<1>7. BlockInv'
  BY <1>0, WorkerBlock DEF WorkerCaughtUp
<1> QED
  BY <1>2, <1>3, <1>4, <1>5, <1>6, <1>7 DEF RackInv

LEMMA TakeChannelsKeeps ==
  ASSUME RackInv, TakeChannels
  PROVE  RackInv'
<1>0. /\ workPc = "idle" /\ pending # <<>> /\ work' = pending[1] /\ pending' = <<>>
      /\ workPc' = "gates"
      /\ UNCHANGED <<active, one_shot, sample_ready, loaded_sample_hash, loaded_path, sample, workAt,
                     schedule>>
      /\ UNCHANGED <<uiVars, audioVars>>
  BY DEF TakeChannels, gateVars, fileVars
<1>a. UNCHANGED <<uiPc, uiAt, rack, edits, overtaken, audioPc, audioAt>> /\ (Stored' <=> Stored)
  BY <1>0 DEF uiVars, planVars, audioVars, blockVars, Stored
<1>1. work' \in Racks /\ workAt = 0 /\ Len(work') \in 0..Slots /\ ~WorkerCaughtUp
  <2>1. work' \in Racks
    BY <1>0 DEF RackInv, TypeOK
  <2> QED
    BY <1>0, <2>1, RackFacts DEF RackInv, LoopsInv, WorkerCaughtUp
<1>2. TypeOK'
  BY <1>0, <1>1 DEF RackInv, TypeOK, Listed, uiVars, planVars, audioVars, blockVars
<1>3. LoopsInv' /\ FilesInv' /\ WorkInv'
  BY <1>0, <1>1, <1>a DEF RackInv, LoopsInv, FilesInv, WorkInv
<1>4. Stored => work' = rack
  <2>1. Stored => pending = <<rack>>
    BY <1>0 DEF RackInv, QueueInv
  <2> QED
    BY <1>0, <2>1
<1>5. QueueInv'
  BY <1>0, <1>1, <1>4, <1>a DEF RackInv, QueueInv, WorkerCaughtUp
<1>6. SettledInv'
  BY <1>0, <1>1 DEF SettledInv, Slot
<1>7. GatesInv'
  BY <1>0, <1>a DEF RackInv, GatesInv
<1>8. BlockInv'
  BY <1>0, <1>1, WorkerBlock
<1> QED
  BY <1>2, <1>3, <1>5, <1>6, <1>7, <1>8 DEF RackInv

LEMMA SilenceRestKeeps ==
  ASSUME RackInv, SilenceRest
  PROVE  RackInv'
<1> DEFINE rest == {c \in Slot : c >= workAt /\ c > 0}
<1>0. /\ workPc = "gates" /\ ~Listed /\ workPc' = "idle" /\ workAt' = 0 /\ work' = <<>>
      /\ active' = [c \in Slot |-> active[c] /\ c \notin rest]
      /\ one_shot' = [c \in Slot |-> one_shot[c] /\ c \notin rest]
      /\ sample_ready' = [c \in Slot |-> sample_ready[c] \/ c \in rest]
      /\ UNCHANGED <<loaded_sample_hash, loaded_path, sample, pending, schedule>>
      /\ UNCHANGED <<uiVars, audioVars>>
  BY DEF SilenceRest, fileVars
<1>a. UNCHANGED <<uiPc, uiAt, rack, edits, overtaken, audioPc, audioAt>> /\ (Stored' <=> Stored)
  BY <1>0 DEF uiVars, planVars, audioVars, blockVars, Stored
<1>1. /\ workAt = Len(work) /\ workAt \in Nat /\ work \in Racks /\ rack \in Racks
      /\ \A c \in Slot : c \in Nat
      /\ active \in [Slot -> BOOLEAN] /\ one_shot \in [Slot -> BOOLEAN]
      /\ sample_ready \in [Slot -> BOOLEAN] /\ ~WorkerCaughtUp
  <2>1. work \in Racks /\ workAt \in Nat /\ workAt <= Len(work)
    BY <1>0, RackAssumption DEF RackInv, TypeOK, LoopsInv
  <2>2. Len(work) \in 0..Slots
    BY <2>1, RackFacts
  <2> QED
    BY <1>0, <2>1, <2>2, RackAssumption
    DEF RackInv, TypeOK, Listed, In, Slot, WorkerCaughtUp
<1>b. \A c \in Slot \ rest : /\ active'[c] = active[c] /\ one_shot'[c] = one_shot[c]
                             /\ sample_ready'[c] = sample_ready[c]
  BY <1>0, <1>1
<1>c. \A c \in rest : /\ active'[c] = FALSE /\ one_shot'[c] = FALSE
                      /\ c \in Slot /\ c # 0 /\ ~In(work, c) /\ ~IsClip(work, c)
  <2> TAKE c \in rest
  <2>1. c \in Slot /\ c >= workAt /\ c > 0 /\ c \in Nat
    BY <1>1
  <2>2. c # 0 /\ ~In(work, c) /\ ~IsClip(work, c)
    BY <1>1, <2>1 DEF In, IsClip
  <2>3. active'[c] = (active[c] /\ c \notin rest) /\ one_shot'[c] = (one_shot[c] /\ c \notin rest)
    BY <1>0, <2>1
  <2> HIDE DEF rest
  <2> QED
    BY <2>1, <2>2, <2>3
<1>2. TypeOK'
  <2>1. /\ active' \in [Slot -> BOOLEAN] /\ one_shot' \in [Slot -> BOOLEAN]
        /\ sample_ready' \in [Slot -> BOOLEAN]
    BY <1>0
  <2> QED
    BY <1>0, <2>1, NoRack, RackAssumption
    DEF RackInv, TypeOK, Listed, uiVars, planVars, audioVars, blockVars
<1>3. LoopsInv' /\ FilesInv' /\ WorkInv'
  BY <1>0, <1>1, <1>a DEF RackInv, LoopsInv, FilesInv, WorkInv
<1>4. QueueInv'
  BY <1>0, <1>1, <1>a DEF RackInv, QueueInv, WorkerCaughtUp
<1>5. SettledInv'
  <2> SUFFICES ASSUME Stored, pending = <<>>, NEW c \in Slot, In(rack, c) \/ c > 0
               PROVE  SettledAt(rack, c)'
    BY <1>0, <1>a DEF SettledInv, SettledOn, SettledAt
  <2>1. rack = work
    BY <1>0 DEF RackInv, QueueInv
  <2>2. CASE c \in rest
    <3>1. ~In(rack, c) /\ IsClip(rack, c) = FALSE /\ c # 0
      BY <1>c, <2>1, <2>2, <1>1, RackFacts
    <3> QED
      BY <1>0, <1>a, <1>c, <2>2, <3>1 DEF SettledAt
  <2>3. CASE c \notin rest
    <3>1. c < workAt
      BY <1>1, <2>1, <2>3 DEF In, Slot
    <3>2. SettledAt(rack, c)
      BY <1>0, <3>1 DEF RackInv, SettledInv
    <3> HIDE DEF rest
    <3> QED
      BY <1>0, <1>a, <1>b, <2>3, <3>2 DEF SettledAt
  <2> QED
    BY <2>2, <2>3
<1>6. GatesInv'
  <2> SUFFICES ASSUME ~overtaken, NEW c \in Slot
               PROVE  /\ one_shot'[c] = IsClip(rack, c)
                      /\ IsClip(rack, c) /\ sample_ready'[c] => sample[c] = At(rack, c).path
    BY <1>0, <1>a DEF GatesInv
  <2>1. rack = work /\ Stored
    BY <1>0, <1>1 DEF RackInv, QueueInv
  <2>2. /\ one_shot[c] = IsClip(rack, c)
        /\ IsClip(rack, c) /\ sample_ready[c] => sample[c] = At(rack, c).path
    BY <2>1 DEF RackInv, GatesInv
  <2>3. CASE c \in rest
    <3>1. IsClip(rack, c) = FALSE
      BY <1>c, <2>1, <2>3, <1>1, RackFacts
    <3> QED
      BY <1>c, <2>3, <3>1
  <2>4. CASE c \notin rest
    <3> HIDE DEF rest
    <3> QED
      BY <1>b, <2>2, <2>4
  <2> QED
    BY <2>3, <2>4
<1>7. BlockInv'
  BY <1>0, <1>1, WorkerBlock
<1> QED
  BY <1>2, <1>3, <1>4, <1>5, <1>6, <1>7 DEF RackInv

-----------------------------------------------------------------------------
(* The audio thread: it changes nothing the others look at. *)

LEMMA BlockShares ==
  ASSUME RackInv, UNCHANGED sharedVars
  PROVE  FilesInv' /\ WorkInv' /\ QueueInv' /\ SettledInv' /\ GatesInv'
<1>0. UNCHANGED <<active, one_shot, sample_ready, loaded_sample_hash, loaded_path, sample, uiPc, uiAt,
                  rack, edits, overtaken, pending, workPc, workAt, work, schedule>>
  BY DEF sharedVars, gateVars, fileVars, uiVars, planVars, workVars
<1>1. FilesInv' /\ WorkInv'
  BY <1>0 DEF RackInv, FilesInv, WorkInv, Wanted
<1>2. QueueInv' /\ GatesInv'
  BY <1>0 DEF RackInv, QueueInv, GatesInv, WorkerCaughtUp, Stored
<1>3. SettledInv'
  BY <1>0 DEF RackInv, SettledInv, SettledOn, SettledAt, Stored, Wanted
<1> QED
  BY <1>1, <1>2, <1>3

LEMMA BlockTypes ==
  ASSUME RackInv, UNCHANGED sharedVars,
         deferred_audio_start' \in [Slot -> BOOLEAN] /\ rendered' \in Racks,
         audioPc' \in {"idle", "channel", "gate", "events", "start"}, audioAt' \in 0..Slots,
         playing' \in BOOLEAN /\ gate' \in BOOLEAN /\ newest' \in BOOLEAN /\ calm' \in BOOLEAN,
         audioPc' = "idle" => audioAt' = 0,
         audioPc' \in {"gate", "events", "start"} => audioAt' \in Slot
  PROVE  TypeOK' /\ LoopsInv'
<1>0. UNCHANGED <<active, one_shot, sample_ready, loaded_sample_hash, loaded_path, sample, uiPc, uiAt,
                  rack, edits, overtaken, pending, workPc, workAt, work, schedule>>
  BY DEF sharedVars, gateVars, fileVars, uiVars, planVars, workVars
<1> QED
  BY <1>0 DEF RackInv, TypeOK, LoopsInv, Stored, Listed

LEMMA BlockBeginsKeeps ==
  ASSUME RackInv, NEW play \in BOOLEAN, BlockBegins(play)
  PROVE  RackInv'
<1>0. /\ audioPc = "idle" /\ audioPc' = "channel" /\ playing' = play /\ rendered' = schedule
      /\ newest' = (uiPc = "idle") /\ calm' = (uiPc = "idle" /\ WorkerCaughtUp)
      /\ UNCHANGED <<audioAt, gate, deferred_audio_start>> /\ UNCHANGED sharedVars
  BY DEF BlockBegins
<1>1. audioAt = 0 /\ UNCHANGED <<uiPc, rack, pending, workPc>>
  BY <1>0 DEF RackInv, LoopsInv, sharedVars, uiVars, planVars, workVars
<1>2. calm' \in BOOLEAN /\ newest' \in BOOLEAN
  BY <1>0
<1>3. TypeOK' /\ LoopsInv'
  BY <1>0, <1>1, <1>2, BlockTypes DEF RackInv, TypeOK
<1>4. uiPc = "idle" => schedule = rack
  BY DEF RackInv, QueueInv
<1>5. newest' => uiPc' = "idle" /\ rendered' = rack'
  BY <1>0, <1>1, <1>4
<1>6. calm' => newest' /\ WorkerCaughtUp'
  BY <1>0, <1>1 DEF WorkerCaughtUp
<1>7. \A c \in Slot : ~(c < audioAt')
  BY <1>0, <1>1, RackAssumption DEF Slot
<1>8. BlockInv'
  BY <1>0, <1>5, <1>6, <1>7 DEF BlockInv, ClipPlaysItsFileUnlessOvertaken, StartsItsClip
<1> QED
  BY <1>0, <1>3, <1>8, BlockShares DEF RackInv

(* While a calm block renders, the rack is settled. *)
LEMMA CalmIsSettled ==
  ASSUME RackInv, calm, NEW c \in Slot, Readable(rack, c)
  PROVE  /\ active[c] = TRUE /\ one_shot[c] = TRUE /\ sample_ready[c] = TRUE
         /\ IsClip(rack, c) /\ rendered = rack
<1>1. uiPc = "idle" /\ WorkerCaughtUp /\ rendered = rack /\ rack \in Racks
  BY DEF RackInv, BlockInv, TypeOK
<1>2. IsClip(rack, c) = TRUE /\ In(rack, c) /\ At(rack, c).path \in Paths \ Unreadable
  BY <1>1, RackFacts DEF Readable
<1>3. SettledOn(rack)
  BY <1>1 DEF RackInv, SettledInv, Stored, WorkerCaughtUp
<1>4. SettledAt(rack, c)
  BY <1>2, <1>3, SettledMeans
<1>5. active[c] = TRUE /\ one_shot[c] = TRUE /\ sample_ready[c] = TRUE
  <2>1. active[c] = (In(rack, c) \/ c = 0) /\ one_shot[c] = IsClip(rack, c)
        /\ sample[c] = At(rack, c).path /\ sample_ready[c] = (sample[c] = At(rack, c).path)
    BY <1>2, <1>4 DEF SettledAt
  <2> QED
    BY <1>2, <2>1
<1> QED
  BY <1>1, <1>2, <1>5

\* The rest of the block is on its way with what it loaded.
blockLoaded == <<playing, rendered, newest, calm>>

LEMMA SkipChannelKeeps ==
  ASSUME RackInv, SkipChannel
  PROVE  RackInv'
<1>0. /\ audioPc = "channel" /\ audioAt \in Slot /\ ~active[audioAt] /\ audioAt' = audioAt + 1
      /\ UNCHANGED <<audioPc, playing, rendered, gate, newest, calm, deferred_audio_start>>
      /\ UNCHANGED sharedVars
  BY DEF SkipChannel
<1>1. /\ audioAt' \in 0..Slots /\ audioAt \in Nat
      /\ UNCHANGED <<uiPc, rack, overtaken, pending, workPc, sample, one_shot>>
  BY <1>0, RackAssumption DEF Slot, sharedVars, gateVars, fileVars, uiVars, planVars, workVars
<1>2. TypeOK' /\ LoopsInv'
  BY <1>0, <1>1, BlockTypes DEF RackInv, TypeOK
<1>3. ASSUME calm, playing, NEW c \in Slot, c < audioAt + 1, Readable(rack, c)
      PROVE  ~deferred_audio_start[c]
  <2>1. c # audioAt
    BY <1>0, <1>3, CalmIsSettled
  <2>2. c < audioAt
    BY <1>1, <1>3, <2>1 DEF Slot
  <2> QED
    BY <1>3, <2>2 DEF RackInv, BlockInv
<1>4. BlockInv'
  BY <1>0, <1>1, <1>3
  DEF RackInv, BlockInv, ClipPlaysItsFileUnlessOvertaken, StartsItsClip, WorkerCaughtUp
<1> QED
  BY <1>0, <1>2, <1>4, BlockShares DEF RackInv

LEMMA ForgetDeferredKeeps ==
  ASSUME RackInv, ForgetDeferred
  PROVE  RackInv'
<1>0. /\ audioPc = "channel" /\ audioAt \in Slot /\ active[audioAt]
      /\ deferred_audio_start' =
           [deferred_audio_start EXCEPT ![audioAt] = @ /\ one_shot[audioAt]]
      /\ UNCHANGED <<playing, rendered, newest, calm>> /\ UNCHANGED sharedVars
      /\ \/ playing /\ audioPc' = "gate" /\ UNCHANGED <<audioAt, gate>>
         \/ ~playing /\ audioAt' = audioAt + 1 /\ audioPc' = "channel" /\ gate' = FALSE
  BY DEF ForgetDeferred, GoesOn
<1>1. /\ audioAt' \in 0..Slots /\ audioAt \in Nat
      /\ deferred_audio_start \in [Slot -> BOOLEAN]
      /\ UNCHANGED <<uiPc, rack, overtaken, pending, workPc, sample, one_shot>>
  BY <1>0, RackAssumption
  DEF Slot, sharedVars, gateVars, fileVars, uiVars, planVars, workVars, RackInv, TypeOK
<1>2. deferred_audio_start' \in [Slot -> BOOLEAN]
  <2>1. (deferred_audio_start[audioAt] /\ one_shot[audioAt]) \in BOOLEAN
    OBVIOUS
  <2> QED
    BY <1>0, <1>1, <2>1
<1>3. TypeOK' /\ LoopsInv'
  <2>1. gate' \in BOOLEAN /\ audioPc' \in {"channel", "gate"}
        /\ (audioPc' = "gate" => audioAt' \in Slot)
    BY <1>0 DEF RackInv, TypeOK
  <2> QED
    BY <1>0, <1>1, <1>2, <2>1, BlockTypes DEF RackInv, TypeOK
<1>4. ASSUME calm, playing, NEW c \in Slot, c < audioAt', Readable(rack, c)
      PROVE  ~deferred_audio_start'[c]
  <2>1. c < audioAt /\ c # audioAt
    BY <1>0, <1>1, <1>4 DEF Slot
  <2>2. ~deferred_audio_start[c]
    BY <1>4, <2>1 DEF RackInv, BlockInv
  <2> QED
    BY <1>0, <1>1, <2>1, <2>2
<1>5. BlockInv'
  BY <1>0, <1>1, <1>4
  DEF RackInv, BlockInv, ClipPlaysItsFileUnlessOvertaken, StartsItsClip, WorkerCaughtUp, Readable
<1> QED
  BY <1>0, <1>3, <1>5, BlockShares DEF RackInv

LEMMA LoadGateKeeps ==
  ASSUME RackInv, LoadGate
  PROVE  RackInv'
<1>0. /\ audioPc = "gate" /\ gate' = one_shot[audioAt] /\ audioPc' = "events"
      /\ UNCHANGED <<audioAt, playing, rendered, newest, calm, deferred_audio_start>>
      /\ UNCHANGED sharedVars
  BY DEF LoadGate
<1>1. /\ audioAt \in Slot /\ one_shot \in [Slot -> BOOLEAN]
      /\ UNCHANGED <<uiPc, rack, overtaken, pending, workPc, sample, one_shot>>
  BY <1>0
  DEF sharedVars, gateVars, fileVars, uiVars, planVars, workVars, RackInv, TypeOK, LoopsInv
<1>2. TypeOK' /\ LoopsInv'
  BY <1>0, <1>1, BlockTypes DEF RackInv, TypeOK
<1>3. newest /\ ~overtaken => gate' = IsClip(rendered, audioAt)
  BY <1>0, <1>1 DEF RackInv, BlockInv, GatesInv, Stored
<1>4. BlockInv'
  BY <1>0, <1>1, <1>3
  DEF RackInv, BlockInv, ClipPlaysItsFileUnlessOvertaken, StartsItsClip, WorkerCaughtUp, Readable
<1> QED
  BY <1>0, <1>2, <1>4, BlockShares DEF RackInv

LEMMA RenderEventsKeeps ==
  ASSUME RackInv, NEW due \in BOOLEAN, RenderEvents(due)
  PROVE  RackInv'
<1> DEFINE ready == ~gate \/ sample_ready[audioAt]
           late == MadeUp(ready) /\ ~due
           left == IF ready THEN deferred_audio_start[audioAt] /\ ~late /\ ~due
                   ELSE deferred_audio_start[audioAt] \/ due
<1>0. /\ audioPc = "events" /\ (due => IsClip(rendered, audioAt))
      /\ deferred_audio_start' = [deferred_audio_start EXCEPT ![audioAt] = left]
      /\ UNCHANGED <<playing, rendered, newest, calm>> /\ UNCHANGED sharedVars
      /\ \/ ready /\ (due \/ late) /\ audioPc' = "start" /\ UNCHANGED <<audioAt, gate>>
         \/ audioAt' = audioAt + 1 /\ audioPc' = "channel" /\ gate' = FALSE
  BY DEF RenderEvents, GoesOn
<1>1. /\ audioAt \in Slot /\ audioAt \in Nat /\ audioAt + 1 \in 0..Slots
      /\ deferred_audio_start \in [Slot -> BOOLEAN] /\ gate \in BOOLEAN
      /\ UNCHANGED <<uiPc, rack, overtaken, pending, workPc, sample, one_shot>>
  <2>1. audioAt \in Slot
    BY <1>0 DEF RackInv, LoopsInv
  <2> QED
    BY <1>0, <2>1, RackAssumption
    DEF Slot, sharedVars, gateVars, fileVars, uiVars, planVars, workVars, RackInv, TypeOK
<1>2. left \in BOOLEAN
  BY <1>1
<1>3. calm /\ Readable(rack, audioAt) => left = FALSE
  <2> SUFFICES ASSUME calm, Readable(rack, audioAt) PROVE left = FALSE
    OBVIOUS
  <2>1. one_shot[audioAt] = TRUE /\ sample_ready[audioAt] = TRUE
    BY <1>1, CalmIsSettled
  <2>2. gate = TRUE
    BY <1>0, <2>1 DEF RackInv, BlockInv
  <2> QED
    BY <2>1, <2>2, <1>1 DEF MadeUp
<1>4. newest /\ ~overtaken /\ ready /\ (due \/ late) =>
        IsClip(rendered, audioAt) /\ sample[audioAt] = At(rendered, audioAt).path
  <2> SUFFICES ASSUME newest, ~overtaken, ready, due \/ late
               PROVE  IsClip(rendered, audioAt) /\ sample[audioAt] = At(rendered, audioAt).path
    OBVIOUS
  <2>1. gate = IsClip(rendered, audioAt) /\ rendered = rack /\ Stored
    BY <1>0 DEF RackInv, BlockInv, Stored
  <2>2. IsClip(rendered, audioAt)
    BY <1>0, <2>1 DEF MadeUp
  <2>3. sample_ready[audioAt]
    BY <2>1, <2>2
  <2> QED
    BY <1>1, <2>1, <2>2, <2>3 DEF RackInv, GatesInv
<1> HIDE DEF left
<1>5. /\ deferred_audio_start' \in [Slot -> BOOLEAN] /\ deferred_audio_start'[audioAt] = left
      /\ \A c \in Slot : c # audioAt => deferred_audio_start'[c] = deferred_audio_start[c]
  BY <1>0, <1>1, <1>2
<1>6. TypeOK' /\ LoopsInv'
  <2>1. audioAt \in 0..Slots /\ gate \in BOOLEAN
    BY <1>1, RackAssumption DEF RackInv, TypeOK, Slot
  <2>2. audioPc' \in {"channel", "start"}
    BY <1>0
  <2>3. audioAt' \in 0..Slots
    BY <1>0, <1>1, <2>1
  <2>4. audioPc' = "start" => audioAt' \in Slot
    BY <1>0, <1>1
  <2>5. gate' \in BOOLEAN
    BY <1>0, <2>1
  <2> QED
    BY <1>0, <1>1, <1>5, <2>2, <2>3, <2>4, <2>5, BlockTypes DEF RackInv, TypeOK
<1>7. ASSUME calm, playing, NEW c \in Slot, c < audioAt + 1, Readable(rack, c)
      PROVE  ~deferred_audio_start'[c]
  <2>1. CASE c = audioAt
    BY <1>3, <1>5, <1>7, <2>1
  <2>2. CASE c # audioAt
    <3>1. c < audioAt
      BY <1>1, <1>7, <2>2 DEF Slot
    <3> QED
      BY <1>5, <1>7, <2>2, <3>1 DEF RackInv, BlockInv
  <2> QED
    BY <2>1, <2>2
<1>8. ASSUME calm, playing, NEW c \in Slot, Readable(rack, c),
             c < audioAt' \/ (c = audioAt' /\ audioPc' = "start")
      PROVE  ~deferred_audio_start'[c]
  <2>1. c < audioAt + 1
    BY <1>0, <1>1, <1>8 DEF Slot
  <2> QED
    BY <1>7, <1>8, <2>1
<1>9. newest /\ ~overtaken /\ audioPc' = "start" =>
        audioAt' = audioAt /\ IsClip(rendered, audioAt) /\ sample[audioAt] = At(rendered, audioAt).path
  BY <1>0, <1>4
<1>10. audioPc' # "events"
  BY <1>0
<1> HIDE DEF ready, late
<1>11. BlockInv'
  BY <1>0, <1>1, <1>8, <1>9, <1>10
  DEF RackInv, BlockInv, ClipPlaysItsFileUnlessOvertaken, StartsItsClip, WorkerCaughtUp, Readable
<1> QED
  BY <1>0, <1>6, <1>11, BlockShares DEF RackInv

LEMMA StartVoiceKeeps ==
  ASSUME RackInv, StartVoice
  PROVE  RackInv'
<1>0. /\ audioPc = "start" /\ audioAt' = audioAt + 1 /\ audioPc' = "channel" /\ gate' = FALSE
      /\ UNCHANGED <<playing, rendered, newest, calm, deferred_audio_start>>
      /\ UNCHANGED sharedVars
  BY DEF StartVoice, GoesOn
<1>1. /\ audioAt \in Slot /\ audioAt \in Nat /\ audioAt + 1 \in 0..Slots
      /\ UNCHANGED <<uiPc, rack, overtaken, pending, workPc, sample, one_shot>>
  <2>1. audioAt \in Slot
    BY <1>0 DEF RackInv, LoopsInv
  <2> QED
    BY <1>0, <2>1, RackAssumption
    DEF Slot, sharedVars, gateVars, fileVars, uiVars, planVars, workVars
<1>2. TypeOK' /\ LoopsInv'
  BY <1>0, <1>1, BlockTypes DEF RackInv, TypeOK
<1>3. \A c \in Slot : c < audioAt + 1 => c < audioAt \/ c = audioAt
  BY <1>1 DEF Slot
<1>4. BlockInv'
  BY <1>0, <1>1, <1>3
  DEF RackInv, BlockInv, ClipPlaysItsFileUnlessOvertaken, StartsItsClip, WorkerCaughtUp
<1> QED
  BY <1>0, <1>2, <1>4, BlockShares DEF RackInv

LEMMA BlockEndsKeeps ==
  ASSUME RackInv, BlockEnds
  PROVE  RackInv'
<1>0. /\ audioPc' = "idle" /\ audioAt' = 0 /\ rendered' = <<>> /\ newest' = FALSE /\ calm' = FALSE
      /\ UNCHANGED <<playing, gate, deferred_audio_start>> /\ UNCHANGED sharedVars
  BY DEF BlockEnds
<1>1. TypeOK' /\ LoopsInv'
  <2>0. Slots \in Nat
    BY RackAssumption
  <2>1. audioAt' \in 0..Slots
    BY <1>0, <2>0
  <2>4. newest' \in BOOLEAN /\ calm' \in BOOLEAN
    BY <1>0, Zenon
  <2>2. playing' \in BOOLEAN /\ gate' \in BOOLEAN /\ deferred_audio_start' \in [Slot -> BOOLEAN]
    BY <1>0 DEF RackInv, TypeOK
  <2>3. rendered' \in Racks
    BY <1>0, NoRack
  <2> QED
    BY <1>0, <2>1, <2>2, <2>3, <2>4, BlockTypes DEF RackInv, TypeOK
<1>2. BlockInv'
  BY <1>0 DEF BlockInv, ClipPlaysItsFileUnlessOvertaken
<1> QED
  BY <1>0, <1>1, <1>2, BlockShares DEF RackInv

-----------------------------------------------------------------------------

LEMMA RackStepKeeps == RackInv /\ [Next]_vars => RackInv'
<1> SUFFICES ASSUME RackInv, [Next]_vars PROVE RackInv'
  OBVIOUS
<1>1. CASE Main
  BY <1>1, EditKeeps, StoreGatesKeeps, StoreReadyKeeps, QueueChannelsKeeps, PublishScheduleKeeps
  DEF Main
<1>2. CASE Worker
  BY <1>2, TakeChannelsKeeps, ApplyGatesKeeps, KeepSampleKeeps, CloseGateKeeps, LoadSampleKeeps,
     ForgetSampleKeeps, RecordHashKeeps, OpenGateKeeps, ActivateKeeps, SilenceRestKeeps
  DEF Worker
<1>3. CASE Block
  BY <1>3, BlockBeginsKeeps, SkipChannelKeeps, ForgetDeferredKeeps, LoadGateKeeps,
     RenderEventsKeeps, StartVoiceKeeps, BlockEndsKeeps
  DEF Block
<1>4. CASE UNCHANGED vars
  <2>1. UNCHANGED <<audioPc, audioAt, playing, rendered, gate, newest, calm, deferred_audio_start,
                    uiPc, rack, overtaken, pending, workPc, sample, one_shot>>
        /\ UNCHANGED sharedVars
    BY <1>4
    DEF vars, audioVars, blockVars, sharedVars, gateVars, fileVars, uiVars, planVars, workVars
  <2>2. TypeOK' /\ LoopsInv'
    BY <2>1, BlockTypes DEF RackInv, TypeOK, LoopsInv
  <2>3. BlockInv'
    BY <2>1
    DEF RackInv, BlockInv, ClipPlaysItsFileUnlessOvertaken, StartsItsClip, WorkerCaughtUp, Readable
  <2> QED
    BY <2>1, <2>2, <2>3, BlockShares DEF RackInv
<1> QED
  BY <1>1, <1>2, <1>3, <1>4 DEF Next

LEMMA RackInvHolds == Spec => []RackInv
BY RackInitEstablishes, RackStepKeeps, PTL DEF Spec

(* When the threads have nothing left to do, every channel is what the     *)
(* newest rack says, and a clip that a block of it starts is heard from    *)
(* its own file.                                                           *)
THEOREM RackIsHeard == Spec => []RackIsTheProjects
<1>1. RackInv => RackIsTheProjects
  BY DEF RackInv, RackIsTheProjects, RackSettles, SettledInv, BlockInv, Stored, WorkerCaughtUp
<1> QED
  BY <1>1, RackInvHolds, PTL

(* A clip whose start came before its file is started late, but is started. *)
THEOREM LateStartsAreMadeUp == Spec => StartsCatchUp
<1>1. RackInv /\ [Next]_vars =>
        [BlockEnds /\ calm /\ playing =>
           \A c \in Slot : Readable(rack, c) => ~deferred_audio_start[c]]_vars
  <2> SUFFICES ASSUME RackInv, BlockEnds, calm, playing, NEW c \in Slot, Readable(rack, c)
               PROVE  ~deferred_audio_start[c]
    OBVIOUS
  <2>1. c < audioAt
    BY RackAssumption DEF BlockEnds, Slot
  <2> QED
    BY <2>1 DEF RackInv, BlockInv
<1> QED
  BY <1>1, RackInvHolds, PTL DEF Spec, StartsCatchUp
=============================================================================
