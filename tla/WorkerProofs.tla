----------------------------- MODULE WorkerProofs -----------------------------
(***************************************************************************)
(* What runs beside the app: a sandboxed plug-in and the export of the     *)
(* song, for every bound on the blocks, the restarts, the launches and the *)
(* calls; and the ring between threads.                                    *)
(*                                                                         *)
(* The block shared with a helper has one owner at a time.                 *)
(* BlockIsSafeUnlessForgotten is proved from four invariants, each about   *)
(* two of the three threads: what the numbers in the block say (OrderInv), *)
(* when the proxy is dead and how often it may miss before it is (MissInv, *)
(* MapInv), and whose turn it is (TurnInv).                                *)
(*                                                                         *)
(* The helper takes its plug-in down in order.  TornDownInOrder is about   *)
(* the last two steps of its main thread only; it holds because of what    *)
(* both threads did before.  LifeInv says, for every place of the main     *)
(* thread, where the audio thread may be and which state the plug-in is    *)
(* then in.                                                                *)
(*                                                                         *)
(* An export keeps the song.  FileInv says how far the file has come, and  *)
(* that a render nobody has disturbed is at the block the file has come    *)
(* to; LoopInv says where the loop of the project is: on its way to the    *)
(* engine, or with what the render puts back.                              *)
(*                                                                         *)
(* A ring is a bounded first-in first-out queue, for every set of          *)
(* producers, every capacity of two cells or more and any number of        *)
(* pushes. A cell stands for all the positions that are equal to it modulo *)
(* the capacity. What makes the ring work is that only the Capacity        *)
(* positions of the span, which begins at the oldest message not yet given *)
(* back, are ever touched: CellsDiffer says that their cells are distinct, *)
(* and SpanInv, PassedInv, ClaimInv, OwnerInv and PopInv say whose each of *)
(* them is.                                                                *)
(***************************************************************************)
EXTENDS MpscRing, SongExport, PluginHelper, Sandbox, SequenceTheorems, TLAPS

(* The helper has nothing to do with the block and will not turn to it.    *)
Done == helper = "gone" \/ (request = seen /\ helper # "processing")

Sent == {"posted", "waiting", "woken"}

(* Numbers go from the proxy to the helper and back, and only grow.        *)
OrderInv ==
  /\ response <= seen /\ seen <= request /\ request <= sequence
  /\ helper = "processing" => response < seen
  /\ hostPc \in {"check", "written"} => sequence < MaxBlocks
  /\ hostPc \in Sent => sequence = request /\ request # 0

(* A proxy is dead at the second miss, and let in again before the misses  *)
(* are forgotten.                                                          *)
MissInv ==
  /\ mainPc \in {"launch", "ready"} => dead
  /\ mainPc = "ready" => hostPc = "idle"
  /\ consecutive_misses = 3 => mainPc = "misses"
  /\ ~dead \/ hostPc = "check" =>
       consecutive_misses < (IF mainPc = "misses" THEN 3 ELSE 2)

(* Nobody begins a block with a dead proxy, and nobody unmaps under a      *)
(* living one, unless a restart failed after letting audio in.             *)
MapInv ==
  /\ mainPc \in {"ready", "misses", "in_flight", "restore"} => mapped
  /\ \/ unrestored
     \/ /\ dead => hostPc = "idle"
        /\ ~mapped \/ mainPc \in ShuttingDown => dead

(* The proxy writes when the helper is done, and the helper takes what the *)
(* proxy wrote.  A request that was given up on is remembered, or is one   *)
(* of a helper before.                                                     *)
TurnInv ==
  /\ helper = "processing" => block = seen
  /\ helper # "gone" /\ request # seen /\ hostPc # "written" => block = request
  /\ hostPc \in {"idle", "check"} =>
       /\ in_flight = 0 => Done
       /\ in_flight # 0 /\ in_flight # request => request = 0
  /\ hostPc = "written" => Done /\ block = sequence + 1 /\ in_flight = 0
  /\ hostPc \in Sent => in_flight = 0 /\ block = request

IInv ==
  /\ SandboxTypeOK /\ OrderInv /\ MissInv /\ MapInv
  /\ MappedWhileUsed
  /\ forgotten \/ TurnInv

-----------------------------------------------------------------------------
LEMMA InitEstablishes == SandboxInit => IInv
<1> SUFFICES ASSUME SandboxInit PROVE IInv
  OBVIOUS
<1>1. 0 \in Numbers /\ 0 \in 0..MaxRestarts /\ 0 \in 0..MaxEditor /\ 0 \in 0..3
  BY SandboxAssumption DEF Numbers
<1>2. SandboxTypeOK
  BY <1>1 DEF SandboxInit, SandboxTypeOK
<1> QED
  BY <1>2, SandboxAssumption
  DEF SandboxInit, IInv, OrderInv, MissInv, MapInv, MappedWhileUsed, TurnInv, Done, Sent,
      ShuttingDown

LEMMA HostKeepsTypes ==
  ASSUME IInv, Host
  PROVE  SandboxTypeOK' /\ OrderInv'
<1> USE SandboxAssumption
    DEF IInv, SandboxTypeOK, Numbers, OrderInv, Sent, requestVars, proxyVars, sharedVars,
        signals, helperVars, mainVars, history, Returns
<1>1. CASE BlockBegins
  BY <1>1 DEF BlockBegins
<1>2. CASE MissesAgain
  BY <1>2 DEF MissesAgain, MissInv
<1>3. CASE WritesBlock
  BY <1>3 DEF WritesBlock
<1>4. CASE PostsRequest
  BY <1>4 DEF PostsRequest
<1>5. CASE SignalsHelper
  BY <1>5 DEF SignalsHelper
<1>6. CASE TimesOut
  BY <1>6 DEF TimesOut, GivesUp
<1>7. CASE Wakes
  BY <1>7 DEF Wakes
<1>8. CASE FindsNoAnswer
  BY <1>8 DEF FindsNoAnswer, GivesUp
<1>9. CASE CopiesAnswer
  BY <1>9 DEF CopiesAnswer
<1>10. CASE Faults
  BY <1>10 DEF Faults
<1> QED
  BY <1>1, <1>2, <1>3, <1>4, <1>5, <1>6, <1>7, <1>8, <1>9, <1>10 DEF Host, Finishes

LEMMA HostKeepsTheRest ==
  ASSUME IInv, Host
  PROVE  MissInv' /\ MapInv' /\ MappedWhileUsed' /\ (forgotten \/ TurnInv)'
<1> USE SandboxAssumption
    DEF IInv, SandboxTypeOK, Numbers, OrderInv, MissInv, MapInv, MappedWhileUsed, TurnInv, Done,
        Sent, ShuttingDown, requestVars, proxyVars, sharedVars, signals, helperVars, mainVars,
        history, Returns
<1>1. CASE BlockBegins
  BY <1>1 DEF BlockBegins, Usable
<1>2. CASE MissesAgain
  <2>1. hostPc = "check" /\ hostPc' = "idle" /\ (dead => dead')
        /\ UNCHANGED <<in_flight, sequence, mapped, sharedVars, helperVars, mainVars, history>>
    BY <1>2 DEF MissesAgain
  <2>2. consecutive_misses' = consecutive_misses + 1 /\ (dead' \/ consecutive_misses' < 2)
    <3>1. consecutive_misses' = consecutive_misses + 1
      BY <1>2 DEF MissesAgain
    <3>2. TooMany(consecutive_misses') => dead'
      BY <1>2 DEF MissesAgain
    <3> QED
      BY <3>1, <3>2 DEF TooMany
  <2>3. MissInv'
    BY <2>1, <2>2
  <2>4. MapInv' /\ MappedWhileUsed'
    BY <2>1
  <2>5. (forgotten \/ TurnInv)'
    BY <2>1
  <2> QED
    BY <2>3, <2>4, <2>5
<1>3. CASE WritesBlock
  BY <1>3 DEF WritesBlock, Pending
<1>4. CASE PostsRequest
  BY <1>4 DEF PostsRequest
<1>5. CASE SignalsHelper
  BY <1>5 DEF SignalsHelper
<1>6. CASE TimesOut
  BY <1>6 DEF TimesOut, GivesUp
<1>7. CASE Wakes
  BY <1>7 DEF Wakes
<1>8. CASE FindsNoAnswer
  BY <1>8 DEF FindsNoAnswer, GivesUp
<1>9. CASE CopiesAnswer
  BY <1>9 DEF CopiesAnswer, Answered
<1>10. CASE Faults
  BY <1>10 DEF Faults
<1> QED
  BY <1>1, <1>2, <1>3, <1>4, <1>5, <1>6, <1>7, <1>8, <1>9, <1>10 DEF Host, Finishes

LEMMA HelperKeepsAll ==
  ASSUME IInv, Helper
  PROVE  IInv'
<1> USE SandboxAssumption
    DEF IInv, SandboxTypeOK, Numbers, OrderInv, MissInv, MapInv, MappedWhileUsed, TurnInv, Done,
        Sent, ShuttingDown, hostVars, requestVars, proxyVars, sharedVars, signals, mainVars,
        history
<1>1. CASE HelperWakes
  BY <1>1 DEF HelperWakes
<1>2. CASE PassesOver
  BY <1>2 DEF PassesOver
<1>3. CASE TakesRequest
  BY <1>3 DEF TakesRequest
<1>4. CASE RefusesToStart
  BY <1>4 DEF RefusesToStart
<1>5. CASE Answers
  BY <1>5 DEF Answers
<1>6. CASE SignalsHost
  BY <1>6 DEF SignalsHost
<1>7. CASE Crashes
  BY <1>7 DEF Crashes, HelperEnds
<1> QED
  BY <1>1, <1>2, <1>3, <1>4, <1>5, <1>6, <1>7 DEF Helper

LEMMA MainKeepsTypes ==
  ASSUME IInv, Main
  PROVE  SandboxTypeOK' /\ OrderInv'
<1> USE DEF IInv
<1>1. /\ hostPc' = hostPc /\ outcome' = outcome
      /\ helper' \in {helper, "gone", "waiting"}
      /\ mainPc' \in {"idle", "shutdown", "giving_up", "launch", "ready", "misses",
                      "in_flight", "restore", "editor"}
  BY DEF Main, Restart, RestartBegins, AsksToQuit, ReapsAndUnmaps, ShutdownEnds, Launches,
         LaunchFails, LetsAudioIn, ResetsMisses, ResetsInFlight, Restores, RestoreFails,
         EditorBegins, EditorEnds, HelperEnds, SandboxTypeOK, audioVars, helperVars, mainVars
<1>2. /\ dead' \in BOOLEAN /\ editor_transition' \in BOOLEAN /\ mapped' \in BOOLEAN
      /\ quit' \in BOOLEAN
      /\ everLate' \in BOOLEAN /\ forgotten' \in BOOLEAN /\ unrestored' \in BOOLEAN
  BY DEF Main, Restart, RestartBegins, AsksToQuit, ReapsAndUnmaps, ShutdownEnds, Launches,
         LaunchFails, LetsAudioIn, ResetsMisses, ResetsInFlight, Restores, RestoreFails,
         EditorBegins, EditorEnds, FreshBlock, SandboxTypeOK, proxyVars, sharedVars, history
<1>3. /\ sequence' = sequence /\ in_flight' \in {in_flight, 0}
      /\ consecutive_misses' \in {consecutive_misses, 0}
      /\ restarts' \in {restarts} \cup (IF restarts < MaxRestarts THEN {restarts + 1} ELSE {})
      /\ editors' \in {editors} \cup (IF editors < MaxEditor THEN {editors + 1} ELSE {})
  BY DEF Main, Restart, RestartBegins, AsksToQuit, ReapsAndUnmaps, ShutdownEnds, Launches,
         LaunchFails, LetsAudioIn, ResetsMisses, ResetsInFlight, Restores, RestoreFails,
         EditorBegins, EditorEnds, requestVars, mainVars
<1>4. /\ to_helper' \in {to_helper, to_helper + 1, 0} /\ to_host' \in {to_host, 0}
  BY DEF Main, Restart, RestartBegins, AsksToQuit, ReapsAndUnmaps, ShutdownEnds, Launches,
         LaunchFails, LetsAudioIn, ResetsMisses, ResetsInFlight, Restores, RestoreFails,
         EditorBegins, EditorEnds, HelperEnds, signals
<1>5. \/ request' = 0 /\ response' = 0 /\ block' = 0 /\ output' = 0 /\ seen' = 0
         /\ hostPc' = "idle" /\ helper' = "waiting"
      \/ UNCHANGED <<request, response, block, output, seen>> /\ helper' \in {helper, "gone"}
  BY DEF Main, Restart, RestartBegins, AsksToQuit, ReapsAndUnmaps, ShutdownEnds, Launches,
         LaunchFails, LetsAudioIn, ResetsMisses, ResetsInFlight, Restores, RestoreFails,
         EditorBegins, EditorEnds, HelperEnds, FreshBlock, CallbackIsOver, audioVars,
         sharedVars, helperVars
<1>6. 0 \in Numbers /\ 0 \in 0..3
  BY SandboxAssumption DEF Numbers
<1>7. restarts' \in 0..MaxRestarts /\ editors' \in 0..MaxEditor
  BY <1>3, SandboxAssumption DEF SandboxTypeOK
<1>8. SandboxTypeOK'
  BY <1>1, <1>2, <1>3, <1>4, <1>5, <1>6, <1>7 DEF SandboxTypeOK
<1>9. OrderInv'
  BY <1>1, <1>3, <1>5, SandboxAssumption DEF OrderInv, SandboxTypeOK, Numbers, Sent
<1> QED
  BY <1>8, <1>9

LEMMA MainKeepsTheRest ==
  ASSUME IInv, Main
  PROVE  MissInv' /\ MapInv' /\ MappedWhileUsed' /\ (forgotten \/ TurnInv)'
<1> USE SandboxAssumption
    DEF IInv, SandboxTypeOK, Numbers, OrderInv, MissInv, MapInv, MappedWhileUsed, TurnInv, Done,
        Sent, ShuttingDown, audioVars, requestVars, proxyVars, sharedVars, signals, helperVars,
        mainVars, history
<1>0. hostPc # "crashed"
  BY DEF Main
<1>1. CASE RestartBegins \/ EditorBegins \/ EditorEnds \/ AsksToQuit
  BY <1>0, <1>1 DEF RestartBegins, EditorBegins, EditorEnds, AsksToQuit
<1>2. CASE ReapsAndUnmaps
  BY <1>0, <1>2 DEF ReapsAndUnmaps, HelperEnds
<1>3. CASE ShutdownEnds
  BY <1>0, <1>3 DEF ShutdownEnds
<1>4. CASE Launches
  BY <1>0, <1>4 DEF Launches, FreshBlock, CallbackIsOver
<1>5. CASE LaunchFails
  BY <1>0, <1>5 DEF LaunchFails
<1>6. CASE LetsAudioIn
  BY <1>0, <1>6 DEF LetsAudioIn
<1>7. CASE ResetsMisses
  BY <1>0, <1>7 DEF ResetsMisses
<1>8. CASE ResetsInFlight
  <2>1. /\ in_flight' = 0 /\ mainPc' = "restore" /\ mainPc = "in_flight"
        /\ UNCHANGED <<hostPc, sequence, consecutive_misses, dead, mapped, sharedVars,
                       helperVars, unrestored>>
    BY <1>8 DEF ResetsInFlight
  <2>2. MissInv' /\ MapInv' /\ MappedWhileUsed'
    BY <2>1
  <2>3. ASSUME ~forgotten' PROVE TurnInv'
    <3>1. TurnInv /\ (in_flight = 0 \/ in_flight # request)
      BY <1>8, <2>3 DEF ResetsInFlight
    <3>2. hostPc \in {"idle", "check"} => Done
      BY <3>1
    <3> QED
      BY <2>1, <3>1, <3>2
  <2> QED
    BY <2>2, <2>3
<1>9. CASE Restores \/ RestoreFails
  BY <1>0, <1>9 DEF Restores, RestoreFails
<1> QED
  BY <1>1, <1>2, <1>3, <1>4, <1>5, <1>6, <1>7, <1>8, <1>9 DEF Main, Restart

LEMMA StepKeepsIInv ==
  ASSUME IInv, [SandboxNext]_sandboxVars
  PROVE  IInv'
<1>1. CASE UNCHANGED sandboxVars
  BY <1>1
  DEF sandboxVars, IInv, SandboxTypeOK, OrderInv, MissInv, MapInv, MappedWhileUsed, TurnInv,
      Done, Sent, requestVars, proxyVars, sharedVars, signals, helperVars, mainVars, history
<1> QED
  BY <1>1, HostKeepsTypes, HostKeepsTheRest, HelperKeepsAll, MainKeepsTypes, MainKeepsTheRest
  DEF SandboxNext, IInv

(* Whatever the audio thread, the helper and the main thread do in         *)
(* whatever order, the helper works on the block it took, which nobody     *)
(* overwrites, and the audio thread finds the block mapped; but for the    *)
(* two windows the property names, in restartHost().                       *)
THEOREM BlockIsSafe == SandboxSpec => []BlockIsSafeUnlessForgotten
<1>1. IInv => BlockIsSafeUnlessForgotten
  BY DEF IInv, BlockIsSafeUnlessForgotten, BlockIsExclusiveUnlessForgotten, BlockIsExclusive,
         TurnInv
<1> QED
  BY <1>1, InitEstablishes, StepKeepsIInv, PTL DEF SandboxSpec

-----------------------------------------------------------------------------
(* What the audio thread has written and remembers, whatever was forgotten *)
(* of it: the block is its own from the writing to the return, and what it *)
(* has given up on is this helper's, or an end is put to the other's.      *)
AskedInv ==
  /\ hostPc \in Sent \cup {"written"} => in_flight = 0
  /\ hostPc = "written" => block = sequence + 1
  /\ hostPc \in Sent => block = sequence /\ (response = sequence => output = sequence)
  /\ in_flight # 0 => in_flight = request \/ dead \/ mainPc \in {"misses", "in_flight"}

(* As long as every answer came in time there is one signal for one        *)
(* request: none before it is taken, none while it is processed, and the   *)
(* one that follows says that the answer is there.                         *)
SignalInv ==
  /\ hostPc \in {"idle", "check", "written"} =>
       to_host = 0 /\ Done /\ helper # "answered"
  /\ hostPc \in {"posted", "waiting"} =>
       /\ to_host \in {0, 1}
       /\ to_host = 1 => response = sequence /\ helper \notin {"answered", "processing"}
       /\ helper = "answered" => response = sequence
       /\ helper = "processing" => seen = sequence
  /\ hostPc = "woken" =>
       to_host = 0 /\ response = sequence /\ helper \notin {"answered", "processing"}

AnswerInv == IInv /\ AskedInv /\ (everLate \/ SignalInv)

LEMMA HostKeepsAnswers ==
  ASSUME AnswerInv, Host
  PROVE  AskedInv' /\ (everLate \/ SignalInv)'
<1> USE SandboxAssumption
    DEF AnswerInv, AskedInv, SignalInv, IInv, SandboxTypeOK, Numbers, OrderInv, Done, Sent,
        requestVars, proxyVars, sharedVars, signals, helperVars, mainVars, history, Returns
<1>1. CASE BlockBegins
  BY <1>1 DEF BlockBegins, Usable
<1>2. CASE MissesAgain
  <2>1. /\ hostPc = "check" /\ hostPc' = "idle" /\ (dead => dead')
        /\ UNCHANGED <<in_flight, sequence, sharedVars, signals, helperVars, mainVars, history>>
    BY <1>2 DEF MissesAgain
  <2> QED
    BY <2>1
<1>3. CASE WritesBlock
  BY <1>3 DEF WritesBlock
<1>4. CASE PostsRequest
  BY <1>4 DEF PostsRequest
<1>5. CASE SignalsHelper
  BY <1>5 DEF SignalsHelper
<1>6. CASE TimesOut
  BY <1>6 DEF TimesOut, GivesUp
<1>7. CASE Wakes
  BY <1>7 DEF Wakes
<1>8. CASE FindsNoAnswer
  BY <1>8 DEF FindsNoAnswer, GivesUp, Answered
<1>9. CASE CopiesAnswer
  BY <1>9 DEF CopiesAnswer, Answered
<1>10. CASE Faults
  BY <1>10 DEF Faults
<1> QED
  BY <1>1, <1>2, <1>3, <1>4, <1>5, <1>6, <1>7, <1>8, <1>9, <1>10 DEF Host, Finishes

LEMMA HelperKeepsAnswers ==
  ASSUME AnswerInv, Helper
  PROVE  AskedInv' /\ (everLate \/ SignalInv)'
<1> USE SandboxAssumption
    DEF AnswerInv, AskedInv, SignalInv, IInv, SandboxTypeOK, Numbers, OrderInv, Done, Sent,
        hostVars, requestVars, proxyVars, sharedVars, signals, mainVars, history
<1>1. CASE HelperWakes
  BY <1>1 DEF HelperWakes
<1>2. CASE PassesOver
  BY <1>2 DEF PassesOver
<1>3. CASE TakesRequest
  BY <1>3 DEF TakesRequest
<1>4. CASE RefusesToStart
  BY <1>4 DEF RefusesToStart
<1>5. CASE Answers
  BY <1>5 DEF Answers
<1>6. CASE SignalsHost
  BY <1>6 DEF SignalsHost
<1>7. CASE Crashes
  BY <1>7 DEF Crashes, HelperEnds
<1> QED
  BY <1>1, <1>2, <1>3, <1>4, <1>5, <1>6, <1>7 DEF Helper

LEMMA MainKeepsAnswers ==
  ASSUME AnswerInv, Main
  PROVE  AskedInv' /\ (everLate \/ SignalInv)'
<1> USE SandboxAssumption
    DEF AnswerInv, AskedInv, SignalInv, IInv, SandboxTypeOK, Numbers, OrderInv, MissInv, Done,
        Sent, audioVars, requestVars, proxyVars, sharedVars, signals, helperVars, mainVars,
        history
<1>1. CASE RestartBegins \/ EditorBegins \/ EditorEnds \/ AsksToQuit
  BY <1>1 DEF RestartBegins, EditorBegins, EditorEnds, AsksToQuit
<1>2. CASE ReapsAndUnmaps
  BY <1>2 DEF ReapsAndUnmaps, HelperEnds
<1>3. CASE ShutdownEnds
  BY <1>3 DEF ShutdownEnds, ShuttingDown
<1>4. CASE Launches
  BY <1>4 DEF Launches, FreshBlock, CallbackIsOver
<1>5. CASE LaunchFails
  BY <1>5 DEF LaunchFails
<1>6. CASE LetsAudioIn
  BY <1>6 DEF LetsAudioIn
<1>7. CASE ResetsMisses
  BY <1>7 DEF ResetsMisses
<1>8. CASE ResetsInFlight
  <2>1. /\ in_flight' = 0
        /\ UNCHANGED <<hostPc, sequence, sharedVars, signals, helperVars, everLate>>
    BY <1>8 DEF ResetsInFlight
  <2> QED
    BY <2>1
<1>9. CASE Restores \/ RestoreFails
  BY <1>9 DEF Restores, RestoreFails
<1> QED
  BY <1>1, <1>2, <1>3, <1>4, <1>5, <1>6, <1>7, <1>8, <1>9 DEF Main, Restart

(* process() of the proxy: a block that is heard is what the plug-in made  *)
(* of that very block; one that is silent although its wait did not run    *)
(* out comes after one whose wait did; and a helper is taken for dead for  *)
(* a request of its own.                                                   *)
THEOREM AnswersAreOwn == SandboxSpec => AnswersAreItsOwn
<1>1. SandboxInit => AnswerInv
  BY InitEstablishes DEF SandboxInit, AnswerInv, AskedInv, SignalInv, Done, Sent
<1>2. AnswerInv /\ [SandboxNext]_sandboxVars => AnswerInv'
  <2>1. CASE UNCHANGED sandboxVars
    BY <2>1, StepKeepsIInv
    DEF sandboxVars, AnswerInv, AskedInv, SignalInv, Done, Sent, requestVars, proxyVars,
        sharedVars, signals, helperVars, mainVars, history
  <2> QED
    BY <2>1, StepKeepsIInv, HostKeepsAnswers, HelperKeepsAnswers, MainKeepsAnswers
    DEF SandboxNext, AnswerInv
<1> DEFINE Hears == hostPc = "woken" /\ outcome' = "heard" /\ hostPc' = "idle"
                      => output = sequence
           Stale == hostPc = "woken" /\ outcome' = "stale" /\ hostPc' = "idle" => everLate
           Kills == ~dead /\ dead' /\ hostPc = "check" /\ hostPc' = "idle" =>
                      in_flight = request \/ mainPc \in {"misses", "in_flight"}
<1>3. AnswerInv /\ [SandboxNext]_sandboxVars
        => [Hears]_sandboxVars /\ [Stale]_sandboxVars /\ [Kills]_sandboxVars
  <2> SUFFICES ASSUME AnswerInv, SandboxNext
               PROVE  Hears /\ Stale /\ Kills
    OBVIOUS
  <2>1. CASE FindsNoAnswer
    BY <2>1
    DEF FindsNoAnswer, Answered, GivesUp, Returns, AnswerInv, SignalInv
  <2>2. CASE CopiesAnswer
    BY <2>2 DEF CopiesAnswer, Answered, Returns, AnswerInv, AskedInv, Sent
  <2>3. CASE MissesAgain
    BY <2>3 DEF MissesAgain, Pending, AnswerInv, AskedInv
  <2>4. CASE Host /\ ~FindsNoAnswer /\ ~CopiesAnswer /\ ~MissesAgain
    BY <2>4
    DEF Host, Finishes, BlockBegins, WritesBlock, PostsRequest, SignalsHelper, TimesOut, Wakes,
        Faults, GivesUp, Returns
  <2>5. CASE Helper
    BY <2>5
    DEF Helper, HelperWakes, PassesOver, TakesRequest, RefusesToStart, Answers, SignalsHost,
        Crashes, hostVars
  <2>6. CASE Main
    BY <2>6
    DEF Main, Restart, RestartBegins, AsksToQuit, ReapsAndUnmaps, ShutdownEnds, Launches,
        LaunchFails, LetsAudioIn, ResetsMisses, ResetsInFlight, Restores, RestoreFails,
        EditorBegins, EditorEnds, audioVars
  <2> QED
    BY <2>6, <2>1, <2>3, <2>5, <2>2, <2>4 DEF SandboxNext
<1> QED
  BY <1>1, <1>2, <1>3, PTL
  DEF SandboxSpec, AnswersAreItsOwn, HearsItsOwnAnswer, StaleOnlyAfterLate, KilledForItsOwnFault

-----------------------------------------------------------------------------

Serving == {"sent", "serve", "call", "reply", "quit", "join"}

(* Before the audio thread is started, and after it was joined, the state  *)
(* of the plug-in is the main thread's alone.                              *)
AloneInv ==
    /\ child \in {"gone", "create"} => audio = "gone" /\ instance = None
    /\ child = "activate" => audio = "gone" /\ instance = "created"
    /\ child = "publish" => audio = "gone" /\ instance = "active"
    /\ child = "deactivate" => audio = "gone" /\ instance = "active"
    /\ child = "destroy" => audio = "gone" /\ instance = "configured"

(* In between it is the audio thread's: processing while it holds a block, *)
(* active again once it has left.                                          *)
SharedInv ==
    child \in Serving =>
        /\ audio \in {"waits", "process", "gone"}
        /\ audio = "process" => instance = "processing"
        /\ audio = "waits" => instance \in {"active", "processing"}
        /\ audio = "gone" => instance = "active"

PlaceInv ==
    child \in Serving
        \cup {"gone", "create", "activate", "publish", "deactivate", "destroy"}

LifeInv == PlaceInv /\ AloneInv /\ SharedInv

(* A process that ends takes everything with it, whichever step ended it.  *)
LEMMA EndsKeepsLife ==
  ASSUME Ends
  PROVE  LifeInv'
BY DEF Ends, LifeInv, PlaceInv, AloneInv, SharedInv, Serving

(* No step of the app's main thread touches the helper's two threads,      *)
(* except the launch, which starts a new one, and the signal.              *)
LEMMA AppKeepsLife ==
  ASSUME LifeInv, AppStep \/ SpawnsHelper \/ AsksPlugin \/ WantsItGone \/ PostsBlock \/ AppDies
  PROVE  LifeInv'
<1>1. CASE SpawnsHelper
  BY <1>1 DEF SpawnsHelper, HelperGoes, LifeInv, PlaceInv, AloneInv, SharedInv, Serving
<1>2. CASE Collects
  BY <1>2, EndsKeepsLife DEF Collects
<1>3. CASE UNCHANGED process
  BY <1>3 DEF process, LifeInv, PlaceInv, AloneInv, SharedInv, Serving
<1> QED
  BY <1>1, <1>2, <1>3
  DEF AppStep, GetsSemaphores, GivesUpLaunching, FindsItReady, GetsAnswer, AsksItToQuit,
      Closes, AsksPlugin, WantsItGone, PostsBlock, AppDies

(* The helper's main thread: it starts the audio thread with the plug-in   *)
(* active, and touches the plug-in again only after the join.              *)
LEMMA MainThreadKeepsLife ==
  ASSUME LifeInv, HelperStep
  PROVE  LifeInv'
<1> USE DEF LifeInv, PlaceInv, AloneInv, SharedInv, Serving, HelperGoes
<1>1. CASE Creates
  BY <1>1, EndsKeepsLife DEF Creates
<1>2. CASE Activates
  BY <1>2, EndsKeepsLife DEF Activates
<1>3. CASE SendsSemaphores
  BY <1>3, EndsKeepsLife DEF SendsSemaphores
<1>4. CASE IsReady
  BY <1>4 DEF IsReady
<1>5. CASE Disconnects
  BY <1>5, EndsKeepsLife DEF Disconnects
<1>6. CASE Receives
  BY <1>6 DEF Receives
<1>7. CASE LosesTheBytes
  BY <1>7 DEF LosesTheBytes
<1>8. CASE CallReturns
  BY <1>8 DEF CallReturns
<1>9. CASE Replies
  BY <1>9, EndsKeepsLife DEF Replies
<1>10. CASE RaisesQuit
  BY <1>10 DEF RaisesQuit
<1>11. CASE JoinsAudio
  BY <1>11 DEF JoinsAudio
<1>12. CASE Deactivates
  BY <1>12 DEF Deactivates
<1>13. CASE Destroys
  BY <1>13, EndsKeepsLife DEF Destroys
<1> QED
  BY <1>1, <1>2, <1>3, <1>4, <1>5, <1>6, <1>7, <1>8, <1>9, <1>10, <1>11, <1>12, <1>13
  DEF HelperStep

(* The audio thread runs only while the main thread serves.                *)
LEMMA AudioThreadKeepsLife ==
  ASSUME LifeInv, AudioStep
  PROVE  LifeInv'
<1>1. child \in Serving /\ UNCHANGED child
  BY DEF AudioStep, TakesBlock, AnswersBlock, LifeInv, PlaceInv, AloneInv
<1>2. CASE TakesBlock
  BY <1>1, <1>2 DEF TakesBlock, AudioGoes, LifeInv, PlaceInv, AloneInv, SharedInv, Serving
<1>3. CASE AnswersBlock
  BY <1>1, <1>3 DEF AnswersBlock, AudioGoes, LifeInv, PlaceInv, AloneInv, SharedInv, Serving
<1> QED
  BY <1>2, <1>3 DEF AudioStep

LEMMA LifeIsInductive ==
  ASSUME LifeInv, [HelperNext]_childVars
  PROVE  LifeInv'
<1>1. CASE AppStep \/ SpawnsHelper \/ AsksPlugin \/ WantsItGone \/ PostsBlock \/ AppDies
  BY <1>1, AppKeepsLife
<1>2. CASE HelperStep
  BY <1>2, MainThreadKeepsLife
<1>3. CASE AudioStep
  BY <1>3, AudioThreadKeepsLife
<1>4. CASE CrashesHelper
  BY <1>4, EndsKeepsLife DEF CrashesHelper
<1>5. CASE Hangs \/ UNCHANGED childVars
  BY <1>5 DEF Hangs, childVars, process, LifeInv, PlaceInv, AloneInv, SharedInv, Serving
<1> QED
  BY <1>1, <1>2, <1>3, <1>4, <1>5 DEF HelperNext

(* However a helper is launched, used and asked to go, the plug-in is      *)
(* deactivated when no block is being rendered and destroyed when it is    *)
(* inactive: joining the audio thread before the teardown is enough, even  *)
(* with a thread that left because the plug-in refused to start processing *)
(* and with a quit raised in the middle of a block.                        *)
THEOREM TeardownInOrder == HelperSpec => []TornDownInOrder
<1>1. HelperInit => LifeInv
  BY DEF HelperInit, LifeInv, PlaceInv, AloneInv, SharedInv, Serving
<1>2. LifeInv /\ [HelperNext]_childVars => LifeInv'
  BY LifeIsInductive
<1>3. LifeInv => TornDownInOrder
  BY DEF LifeInv, AloneInv, TornDownInOrder
<1> QED
  BY <1>1, <1>2, <1>3, PTL DEF HelperSpec

-----------------------------------------------------------------------------
(* The song export: what a render leaves of the file and of the session.   *)

IsHead(head) == head = [playing |-> head.playing, block |-> head.block, loop |-> head.loop]
Commands ==
  [type : {"play", "stop", "seek", "loop", "metronome", "silence"}, to : BOOLEAN \cup Nat]

RenderEnds      == {"rendered", "failed", "cancelled"}
Rendering == stage \in {"render"} \cup RenderEnds

ExportTypeOK ==
  /\ stage \in {"none", "open", "borrow", "render", "closed", "ended"} \cup RenderEnds
  /\ job \in [state : {"idle", "running", "done", "cancelled", "failed"},
              cancel : BOOLEAN, joinable : BOOLEAN]
  /\ queue \in Seq(Commands)
  /\ IsHead(playhead) /\ IsHead(borrowed.playhead)
  /\ renderedBlocks \in Nat
  /\ wish \in [loop : BOOLEAN, metronome : BOOLEAN] /\ published = wish

(* A render that was left alone is where the file is, with nothing to drain *)
(* but the metronome it has switched off.                                   *)
LeftAlone ==
  /\ faithful
  /\ playhead = [playing |-> TRUE, block |-> renderedBlocks, loop |-> FALSE]
  /\ queue = <<Command("metronome", FALSE)>> \/ (queue = <<>> /\ ~clicks)

(* How far the file has come.                                              *)
FileInv ==
  /\ Running <=> stage # "none"
  /\ stage \in {"open", "borrow"} => faithful /\ renderedBlocks = 0
  /\ stage \in {"open", "ended"} => onDisk = "none"
  /\ stage = "borrow" \/ Rendering => onDisk = "partial"
  /\ stage = "closed" => onDisk = "whole"
  /\ Rendering => ~sounds
  /\ stage = "render" => LeftAlone \/ disturbed
  /\ stage \in {"rendered", "closed"} => faithful \/ disturbed
  /\ FileIsTheSongUnlessDisturbed

(* The loop the engine comes to when it has drained some commands.         *)
LeadsTo(q, now, loop) ==
  \/ Kind(q, {"loop"}) = {} /\ now = loop
  \/ \E i \in Kind(q, {"loop"}) : q[i].to = loop /\ \A j \in Kind(q, {"loop"}) : i >= j

(* It is on its way to the engine, or the render will put it back.         *)
LoopInv ==
  /\ ~Rendering => LeadsTo(queue, playhead.loop, wish.loop)
  /\ Rendering => Kind(queue, {"loop"}) = {} /\ borrowed.playhead.loop = wish.loop

ExportInv == ExportTypeOK /\ FileInv /\ (LoopInv \/ overlooked)

LEMMA DrainedLoop ==
  ASSUME NEW q, q \in Seq(Commands), NEW now, NEW loop, LeadsTo(q, now, loop)
  PROVE  After(q, {"loop"}, now) = loop
<1>1. CASE Kind(q, {"loop"}) = {}
  BY <1>1 DEF LeadsTo, After
<1>2. CASE Kind(q, {"loop"}) # {}
  <2>1. PICK i \in Kind(q, {"loop"}) : q[i].to = loop /\ \A j \in Kind(q, {"loop"}) : i >= j
    BY <1>2 DEF LeadsTo
  <2>2. Kind(q, {"loop"}) \subseteq Nat
    BY DEF Kind
  <2>3. \A k \in Kind(q, {"loop"}) : (\A j \in Kind(q, {"loop"}) : k >= j) => k = i
    BY <2>1, <2>2
  <2>4. (CHOOSE k \in Kind(q, {"loop"}) : \A j \in Kind(q, {"loop"}) : k >= j) = i
    BY <2>1, <2>3
  <2> QED BY <1>2, <2>1, <2>4 DEF After, LastOf
<1> QED BY <1>1, <1>2

\* A command about something else, or the last about the loop.
LEMMA OneMore ==
  ASSUME NEW q \in Seq(Commands), NEW c \in Commands, NEW now, NEW loop,
         IF c.type = "loop" THEN c.to = loop ELSE LeadsTo(q, now, loop)
  PROVE  LeadsTo(Append(q, c), now, loop)
<1> DEFINE more == Append(q, c)
<1>1. /\ DOMAIN q = 1..Len(q) /\ DOMAIN more = 1..(Len(q) + 1) /\ Len(q) \in Nat
      /\ \A i \in DOMAIN q : more[i] = q[i]
      /\ more[Len(q) + 1] = c
  OBVIOUS
<1> HIDE DEF more
<1>2. CASE c.type = "loop"
  <2>1. Len(q) + 1 \in Kind(more, {"loop"})
    BY <1>1, <1>2 DEF Kind
  <2>2. \A j \in Kind(more, {"loop"}) : Len(q) + 1 >= j
    BY <1>1 DEF Kind
  <2>3. more[Len(q) + 1].to = loop
    BY <1>1, <1>2
  <2> QED BY <2>1, <2>2, <2>3 DEF LeadsTo, more
<1>3. CASE c.type # "loop"
  <2>1. Kind(more, {"loop"}) = Kind(q, {"loop"})
    BY <1>1, <1>3 DEF Kind
  <2>2. \A i \in Kind(q, {"loop"}) : more[i] = q[i]
    BY <1>1 DEF Kind
  <2> QED BY <1>3, <2>1, <2>2 DEF LeadsTo, more
<1> QED BY <1>2, <1>3

LEMMA QueuedIsQueue ==
  ASSUME NEW q \in Seq(Commands), NEW c \in Commands
  PROVE  Queued(q, c) \in Seq(Commands)
BY DEF Queued

LEMMA QueuedOther ==
  ASSUME NEW q \in Seq(Commands), NEW c \in Commands, c.type # "loop", NEW now, NEW loop,
         LeadsTo(q, now, loop)
  PROVE  LeadsTo(Queued(q, c), now, loop)
BY OneMore DEF Queued

\* Nothing but the metronome is drained.
LEMMA DrainedAlone ==
  ASSUME LeftAlone
  PROVE  Drained(playhead) = playhead /\ ~Clicking(clicks)
<1>1. CASE queue = <<>>
  <2>1. \A kinds : Kind(queue, kinds) = {}
    BY <1>1 DEF Kind
  <2>2. ~clicks
    BY <1>1 DEF LeftAlone
  <2> QED BY <2>1, <2>2 DEF LeftAlone, Drained, Clicking, After
<1>2. CASE queue = <<Command("metronome", FALSE)>>
  <2>1. DOMAIN queue = {1} /\ queue[1] = Command("metronome", FALSE)
    BY <1>2
  <2>2. queue[1].type = "metronome" /\ queue[1].to = FALSE
    BY <2>1 DEF Command
  <2>3. Kind(queue, {"play", "stop"}) = {} /\ Kind(queue, {"seek"}) = {} /\ Kind(queue, {"loop"}) = {}
    BY <2>1, <2>2 DEF Kind
  <2>4. Kind(queue, {"metronome"}) = {1}
    BY <2>1, <2>2 DEF Kind
  <2>5. LastOf(queue, {"metronome"}) = queue[1]
    BY <2>4 DEF LastOf
  <2>6. Clicking(clicks) = FALSE
    BY <2>2, <2>4, <2>5 DEF Clicking, After
  <2>7. Drained(playhead) = playhead
    BY <2>3 DEF Drained, After, LeftAlone
  <2> QED BY <2>6, <2>7
<1> QED BY <1>1, <1>2 DEF LeftAlone

\* Where neither the worker nor the file are concerned.
LEMMA FileStays ==
  ASSUME FileInv, UNCHANGED <<stage, playhead, clicks, sounds, renderedBlocks, onDisk, faithful>>,
         job'.state = job.state, disturbed => disturbed',
         stage = "render" => UNCHANGED queue \/ disturbed'
  PROVE  FileInv'
<1>1. stage = "render" => (LeftAlone \/ disturbed)'
  BY DEF FileInv, LeftAlone
<1>2. FileIsTheSongUnlessDisturbed'
  BY DEF FileInv, FileIsTheSongUnlessDisturbed
<1> QED BY <1>1, <1>2 DEF FileInv, Running, Rendering

LEMMA TransportPosted ==
  ASSUME ExportInv, NEW c \in Commands, c.type # "loop", postTransport(c)
  PROVE  ExportInv'
<1>1. /\ stage = "none" /\ queue' = Queued(queue, c)
      /\ UNCHANGED <<wish, published, playhead, clicks, sounds, job, stage, borrowed, renderedBlocks,
                     onDisk, faithful, disturbed, overlooked>>
  BY DEF ExportInv, FileInv, postTransport
<1>2. ExportTypeOK'
  BY <1>1, QueuedIsQueue DEF ExportInv, ExportTypeOK
<1>3. FileInv'
  BY <1>1, FileStays DEF ExportInv
<1>4. (LoopInv \/ overlooked)'
  <2>1. LoopInv => LeadsTo(Queued(queue, c), playhead.loop, wish.loop)
    BY <1>1, QueuedOther DEF ExportInv, ExportTypeOK, LoopInv, Rendering, RenderEnds
  <2> QED BY <1>1, <2>1 DEF ExportInv, LoopInv, Rendering, RenderEnds
<1> QED BY <1>2, <1>3, <1>4 DEF ExportInv

\* One publish, of a switch that was flipped or of nothing new.
LEMMA ModelPublished ==
  ASSUME ExportInv, NEW now \in [loop : BOOLEAN, metronome : BOOLEAN], publishModel(now),
         UNCHANGED <<playhead, clicks, sounds, stage, borrowed, renderedBlocks, onDisk, faithful>>,
         job'.state = job.state, job' \in [state : {"idle", "running", "done", "cancelled", "failed"},
                                           cancel : BOOLEAN, joinable : BOOLEAN]
  PROVE  ExportInv'
<1> DEFINE then == Told(queue, "loop", now)
           last == Told(then, "metronome", now)
<1>1. /\ queue \in Seq(Commands) /\ published = wish
      /\ wish \in [loop : BOOLEAN, metronome : BOOLEAN]
  BY DEF ExportInv, ExportTypeOK
<1>2. /\ wish' = now /\ published' = now /\ queue' = last
      /\ disturbed' = (disturbed \/ (Running /\ News(now) # {}))
      /\ overlooked' = (overlooked \/ (Running /\ News(now) # {})
                          \/ Refused(queue, "loop", now) \/ Refused(then, "metronome", now))
  BY DEF publishModel
<1>3. Command("loop", now.loop) \in Commands /\ Command("metronome", now.metronome) \in Commands
  <2>1. now.loop \in BOOLEAN \cup Nat /\ now.metronome \in BOOLEAN \cup Nat
    OBVIOUS
  <2> QED BY <2>1 DEF Command, Commands
<1>4. then \in Seq(Commands)
  BY <1>1, <1>3, QueuedIsQueue DEF Told
<1>5. last \in Seq(Commands)
  <2> HIDE DEF then
  <2> QED BY <1>3, <1>4, QueuedIsQueue DEF Told
<1>6. News(now) = {} => last = queue /\ now.loop = wish.loop
  BY <1>1 DEF News, Told, Switches
<1>7. ASSUME ~overlooked', LeadsTo(queue, playhead.loop, wish.loop)
      PROVE  LeadsTo(last, playhead.loop, now.loop)
  <2>1. LeadsTo(then, playhead.loop, now.loop)
    <3>1. CASE "loop" \in News(now)
      <4>1. Len(queue) < ExportQueue
        <5>1. ~Refused(queue, "loop", now)
          BY <1>2, <1>7
        <5>2. ~(Len(queue) >= ExportQueue)
          BY <3>1, <5>1 DEF Refused
        <5> QED BY <1>1, <5>2, SongExportAssumption
      <4>2. then = Append(queue, Command("loop", now.loop))
        BY <3>1, <4>1 DEF Told, Queued
      <4>3. Command("loop", now.loop).type = "loop" /\ Command("loop", now.loop).to = now.loop
        BY DEF Command
      <4> HIDE DEF then
      <4> QED BY <1>1, <1>3, <4>2, <4>3, OneMore
    <3>2. CASE "loop" \notin News(now)
      BY <1>1, <1>7, <3>2 DEF Told, News, Switches
    <3> QED BY <3>1, <3>2
  <2> HIDE DEF then
  <2>2. Command("metronome", now.metronome).type # "loop"
    BY DEF Command
  <2> QED BY <1>3, <1>4, <2>1, <2>2, QueuedOther DEF Told
<1> HIDE DEF then, last
<1>8. ExportTypeOK'
  BY <1>2, <1>5 DEF ExportInv, ExportTypeOK
<1>9. FileInv'
  <2>1. stage = "render" => UNCHANGED queue \/ disturbed'
    BY <1>2, <1>6 DEF ExportInv, FileInv
  <2> QED BY <1>2, <2>1, FileStays DEF ExportInv
<1>10. (LoopInv \/ overlooked)'
  <2>1. ASSUME ~overlooked'
        PROVE  LoopInv'
    <3>1. LoopInv
      BY <1>2, <2>1 DEF ExportInv
    <3>2. CASE Rendering
      <4>1. News(now) = {}
        BY <1>2, <2>1, <3>2 DEF ExportInv, FileInv, Rendering, RenderEnds
      <4> QED BY <1>2, <1>6, <3>1, <3>2, <4>1 DEF LoopInv, Rendering
    <3>3. CASE ~Rendering
      BY <1>2, <1>7, <2>1, <3>1, <3>3 DEF LoopInv, Rendering
    <3> QED BY <3>2, <3>3
  <2> QED BY <2>1
<1> QED BY <1>8, <1>9, <1>10 DEF ExportInv

LEMMA SwitchFlipped ==
  ASSUME ExportInv, NEW which \in Switches, flipSwitch(which) \/ undoSwitch(which)
  PROVE  ExportInv'
<1> DEFINE now == [wish EXCEPT ![which] = ~@]
<1>1. now \in [loop : BOOLEAN, metronome : BOOLEAN]
  BY DEF ExportInv, ExportTypeOK, Switches
<1>2. /\ publishModel(now)
      /\ UNCHANGED <<playhead, clicks, sounds, job, stage, borrowed, renderedBlocks, onDisk, faithful>>
  BY DEF flipSwitch, undoSwitch
<1>3. job' = job /\ job \in [state : {"idle", "running", "done", "cancelled", "failed"},
                             cancel : BOOLEAN, joinable : BOOLEAN]
  BY <1>2 DEF ExportInv, ExportTypeOK
<1> HIDE DEF now
<1> QED BY <1>1, <1>2, <1>3, ModelPublished

LEMMA ExportStarted ==
  ASSUME ExportInv, export_start
  PROVE  ExportInv'
<1>1. /\ stage = "none" /\ stage' = "open" /\ job' = [state |-> "running", cancel |-> FALSE, joinable |-> TRUE]
      /\ renderedBlocks' = 0 /\ onDisk' = "none" /\ faithful' = TRUE
      /\ UNCHANGED <<wish, published, queue, playhead, clicks, sounds, borrowed, overlooked>>
  BY DEF ExportInv, FileInv, export_start
<1>2. ExportTypeOK'
  BY <1>1 DEF ExportInv, ExportTypeOK
<1>3. FileInv'
  BY <1>1 DEF FileInv, FileIsTheSongUnlessDisturbed, Running, Rendering, RenderEnds
<1>4. (LoopInv \/ overlooked)'
  BY <1>1 DEF ExportInv, LoopInv, Rendering, RenderEnds
<1> QED BY <1>2, <1>3, <1>4 DEF ExportInv

LEMMA ExportAsked ==
  ASSUME ExportInv, export_status
  PROVE  ExportInv'
<1>1. /\ wish \in [loop : BOOLEAN, metronome : BOOLEAN]
      /\ job \in [state : {"idle", "running", "done", "cancelled", "failed"},
                  cancel : BOOLEAN, joinable : BOOLEAN]
  BY DEF ExportInv, ExportTypeOK
<1>2. /\ job' = [job EXCEPT !.joinable = FALSE] /\ publishModel(wish)
      /\ UNCHANGED <<playhead, clicks, sounds, stage, borrowed, renderedBlocks, onDisk, faithful>>
  BY DEF export_status
<1>3. job'.state = job.state /\ job' \in [state : {"idle", "running", "done", "cancelled", "failed"},
                                          cancel : BOOLEAN, joinable : BOOLEAN]
  BY <1>1, <1>2
<1> QED BY <1>1, <1>2, <1>3, ModelPublished

LEMMA CancelAsked ==
  ASSUME ExportInv, export_cancel
  PROVE  ExportInv'
<1>1. /\ job' = [job EXCEPT !.cancel = TRUE]
      /\ UNCHANGED <<wish, published, queue, playhead, clicks, sounds, stage, borrowed, renderedBlocks,
                     onDisk, faithful, disturbed, overlooked>>
  BY DEF export_cancel, uiSide
<1>2. ExportTypeOK' /\ job'.state = job.state
  BY <1>1 DEF ExportInv, ExportTypeOK
<1>3. FileInv'
  BY <1>1, <1>2, FileStays DEF ExportInv
<1>4. (LoopInv \/ overlooked)'
  BY <1>1 DEF ExportInv, LoopInv, Rendering
<1> QED BY <1>2, <1>3, <1>4 DEF ExportInv

LEMMA AdvancedIsHead ==
  ASSUME NEW head, IsHead(head)
  PROVE  IsHead(Advanced(head)) /\ Advanced(head).loop = head.loop
BY DEF IsHead, Advanced

LEMMA DrainedIsHead == IsHead(Drained(playhead))
BY DEF IsHead, Drained

LEMMA DevicePlayed ==
  ASSUME ExportInv, DeviceBlock
  PROVE  ExportInv'
<1>1. /\ sounds /\ playhead' = Advanced(Drained(playhead)) /\ queue' = <<>>
      /\ UNCHANGED <<wish, published, sounds, job, stage, borrowed, renderedBlocks, onDisk, faithful,
                     disturbed, overlooked>>
  BY DEF DeviceBlock, uiSide
<1>2. ~Rendering
  BY <1>1 DEF ExportInv, FileInv
<1>3. IsHead(playhead)' /\ playhead'.loop = Drained(playhead).loop
  BY <1>1, DrainedIsHead, AdvancedIsHead DEF IsHead
<1>4. ExportTypeOK'
  BY <1>1, <1>3 DEF ExportInv, ExportTypeOK, IsHead
<1>5. FileInv'
  BY <1>1, <1>2 DEF ExportInv, FileInv, FileIsTheSongUnlessDisturbed, Running, Rendering, RenderEnds
<1>6. LoopInv => LoopInv'
  <2>1. LoopInv => Drained(playhead).loop = wish.loop
    BY <1>2, DrainedLoop DEF ExportInv, ExportTypeOK, LoopInv, Drained
  <2>2. Kind(queue', {"loop"}) = {}
    BY <1>1 DEF Kind
  <2> QED BY <1>1, <1>2, <1>3, <2>1, <2>2 DEF LoopInv, LeadsTo, Rendering
<1> QED BY <1>1, <1>4, <1>5, <1>6 DEF ExportInv

-----------------------------------------------------------------------------

LEMMA FileOpened ==
  ASSUME ExportInv, Open
  PROVE  ExportInv'
<1>1. /\ stage = "open"
      /\ \/ stage' = "borrow" /\ onDisk' = "partial" /\ UNCHANGED job
         \/ /\ stage' = "none" /\ onDisk' = onDisk
            /\ job' = [job EXCEPT !.state = IF job.cancel THEN "cancelled" ELSE "failed"]
      /\ UNCHANGED <<wish, published, queue, playhead, clicks, sounds, borrowed, renderedBlocks,
                     faithful, disturbed, overlooked>>
  BY DEF Open, Reports, uiSide
<1>2. ExportTypeOK'
  BY <1>1 DEF ExportInv, ExportTypeOK
<1>3. FileInv'
  BY <1>1 DEF ExportInv, ExportTypeOK, FileInv, FileIsTheSongUnlessDisturbed, Running, Rendering,
              RenderEnds
<1>4. (LoopInv \/ overlooked)'
  BY <1>1 DEF ExportInv, LoopInv, Rendering, RenderEnds
<1> QED BY <1>2, <1>3, <1>4 DEF ExportInv

LEMMA TransportBorrowed ==
  ASSUME ExportInv, Borrow
  PROVE  ExportInv'
<1> DEFINE off == Command("metronome", FALSE)
<1>1. /\ stage = "borrow" /\ stage' = "render"
      /\ borrowed' = [sounds |-> sounds, playhead |-> playhead] /\ sounds' = FALSE
      /\ playhead' = [playing |-> TRUE, block |-> 0, loop |-> FALSE]
      /\ disturbed' = (disturbed \/ queue # <<>>) /\ overlooked' = (overlooked \/ queue # <<>>)
      /\ queue' = Queued(queue, off)
      /\ UNCHANGED <<wish, published, clicks, job, renderedBlocks, onDisk, faithful>>
  BY DEF Borrow, FromTheTop, uiSide
<1>2. off \in Commands /\ off.type = "metronome"
  BY DEF Command, Commands
<1>3. queue = <<>> => queue' = <<off>>
  <2>1. queue = <<>> => Len(queue) = 0 /\ Append(queue, off) = <<off>>
    OBVIOUS
  <2>2. 0 < ExportQueue
    BY SongExportAssumption
  <2> HIDE DEF off
  <2> QED BY <1>1, <2>1, <2>2 DEF Queued
<1> HIDE DEF off
<1>4. ExportTypeOK'
  BY <1>1, <1>2, QueuedIsQueue DEF ExportInv, ExportTypeOK, IsHead
<1>5. FileInv'
  <2>1. (LeftAlone \/ disturbed)'
    BY <1>1, <1>3 DEF ExportInv, FileInv, LeftAlone, off
  <2> QED BY <1>1, <2>1 DEF ExportInv, FileInv, FileIsTheSongUnlessDisturbed, Running, Rendering,
                            RenderEnds
<1>6. (LoopInv \/ overlooked)'
  <2>1. ASSUME ~overlooked'
        PROVE  LoopInv'
    <3>1. queue = <<>> /\ LoopInv
      BY <1>1, <2>1 DEF ExportInv
    <3>2. Kind(queue, {"loop"}) = {} /\ Kind(queue', {"loop"}) = {}
      BY <1>2, <1>3, <3>1 DEF Kind
    <3>3. playhead.loop = wish.loop
      BY <1>1, <3>1, <3>2 DEF LoopInv, LeadsTo, Rendering, RenderEnds
    <3> QED BY <1>1, <3>2, <3>3 DEF LoopInv, Rendering
  <2> QED BY <2>1
<1> QED BY <1>4, <1>5, <1>6 DEF ExportInv

\* A block of a render that is left alone is the next of the song.
LEMMA BlockRendered ==
  ASSUME ExportInv, RenderBlock
  PROVE  ExportInv'
<1> DEFINE head == Drained(playhead)
<1>1. /\ stage = "render" /\ stage' \in {"render", "failed"}
      /\ playhead' = Advanced(head) /\ clicks' = Clicking(clicks) /\ queue' = <<>>
      /\ faithful' = (faithful /\ head.playing /\ head.block = renderedBlocks /\ ~Clicking(clicks))
      /\ renderedBlocks' = IF stage' = "failed" THEN renderedBlocks ELSE renderedBlocks + 1
      /\ UNCHANGED <<wish, published, sounds, job, borrowed, onDisk, disturbed, overlooked>>
  BY DEF RenderBlock, MovesTo, Counted, uiSide
<1>2. ExportTypeOK'
  <2>1. IsHead(playhead')
    BY <1>1, DrainedIsHead, AdvancedIsHead
  <2> QED BY <1>1, <2>1 DEF ExportInv, ExportTypeOK, RenderEnds, IsHead
<1>3. ASSUME LeftAlone, stage' = "render"
      PROVE  LeftAlone'
  <2>1. head = playhead /\ ~Clicking(clicks)
    BY <1>3, DrainedAlone
  <2>2. playhead = [playing |-> TRUE, block |-> renderedBlocks, loop |-> FALSE] /\ faithful
    BY <1>3 DEF LeftAlone
  <2>3. playhead.playing = TRUE /\ playhead.block = renderedBlocks /\ playhead.loop = FALSE
    BY <2>2
  <2>4. Advanced(playhead) = [playhead EXCEPT !.block = playhead.block + 1]
    BY <2>3 DEF Advanced
  <2>5. playhead' = [playing |-> TRUE, block |-> renderedBlocks + 1, loop |-> FALSE]
    BY <1>1, <2>1, <2>2, <2>4
  <2>6. head.playing /\ head.block = renderedBlocks
    BY <2>1, <2>3
  <2>7. faithful'
    BY <1>1, <2>1, <2>2, <2>6
  <2> QED BY <1>1, <1>3, <2>1, <2>5, <2>7 DEF LeftAlone
<1>4. FileInv'
  BY <1>1, <1>3 DEF ExportInv, FileInv, FileIsTheSongUnlessDisturbed, Running, Rendering, RenderEnds
<1>5. LoopInv => LoopInv'
  <2>1. Kind(queue', {"loop"}) = {}
    BY <1>1 DEF Kind
  <2> QED BY <1>1, <2>1 DEF LoopInv, Rendering, RenderEnds
<1> QED BY <1>1, <1>2, <1>4, <1>5 DEF ExportInv

\* The render ends, by the flag or behind its last block.
LEMMA RenderEnded ==
  ASSUME ExportInv, Cancelled \/ Flush
  PROVE  ExportInv'
<1>1. /\ stage = "render" /\ stage' \in RenderEnds
      /\ UNCHANGED <<wish, published, queue, playhead, clicks, sounds, job, borrowed, renderedBlocks,
                     onDisk, faithful, disturbed, overlooked>>
  BY DEF Cancelled, Flush, MovesTo, RenderEnds, uiSide
<1>2. ExportTypeOK'
  BY <1>1 DEF ExportInv, ExportTypeOK
<1>3. FileInv'
  BY <1>1 DEF ExportInv, FileInv, FileIsTheSongUnlessDisturbed, LeftAlone, Running, Rendering, RenderEnds
<1>4. (LoopInv \/ overlooked)'
  BY <1>1 DEF ExportInv, LoopInv, Rendering
<1> QED BY <1>2, <1>3, <1>4 DEF ExportInv

LEMMA TransportGivenBack ==
  ASSUME ExportInv, GiveBack
  PROVE  ExportInv'
<1> DEFINE hush == Command("silence", TRUE)
<1>1. /\ stage \in RenderEnds /\ playhead' = [borrowed.playhead EXCEPT !.playing = FALSE]
      /\ queue' = Queued(queue, hush)
      /\ \/ stage = "rendered" /\ stage' = "closed" /\ onDisk' = "whole"
         \/ stage' = "ended" /\ onDisk' = "none"
      /\ UNCHANGED <<wish, published, clicks, sounds, job, borrowed, renderedBlocks, faithful, disturbed,
                     overlooked>>
  BY DEF GiveBack, PutBack, Close, Abandon, RenderEnds, uiSide
<1>2. hush \in Commands /\ hush.type = "silence"
  BY DEF Command, Commands
<1> HIDE DEF hush
<1>3. IsHead(playhead') /\ playhead'.loop = borrowed.playhead.loop
  BY <1>1 DEF ExportInv, ExportTypeOK, IsHead
<1>4. ExportTypeOK'
  BY <1>1, <1>2, <1>3, QueuedIsQueue DEF ExportInv, ExportTypeOK, IsHead
<1>5. FileInv'
  BY <1>1 DEF ExportInv, FileInv, FileIsTheSongUnlessDisturbed, Running, Rendering, RenderEnds
<1>6. LoopInv => LoopInv'
  <2>1. LoopInv => LeadsTo(queue, borrowed.playhead.loop, wish.loop)
    BY <1>1 DEF LoopInv, LeadsTo, Rendering, RenderEnds
  <2>2. LoopInv => LeadsTo(Queued(queue, hush), borrowed.playhead.loop, wish.loop)
    BY <1>2, <2>1, QueuedOther DEF ExportInv, ExportTypeOK
  <2> QED BY <1>1, <1>3, <2>2 DEF LoopInv, Rendering, RenderEnds
<1> QED BY <1>1, <1>4, <1>5, <1>6 DEF ExportInv

LEMMA DeviceRestarted ==
  ASSUME ExportInv, RestartsDevice
  PROVE  ExportInv'
<1>1. /\ stage \in {"closed", "ended"} /\ stage' = "none"
      /\ job' = [job EXCEPT !.state = IF stage = "closed" THEN "done"
                                      ELSE IF job.cancel THEN "cancelled" ELSE "failed"]
      /\ UNCHANGED <<wish, published, queue, playhead, clicks, borrowed, renderedBlocks, onDisk,
                     faithful, disturbed, overlooked>>
  BY DEF RestartsDevice, Reports, uiSide
<1>2. ExportTypeOK'
  BY <1>1 DEF ExportInv, ExportTypeOK
<1>3. job'.state = IF stage = "closed" THEN "done" ELSE IF job.cancel THEN "cancelled" ELSE "failed"
  BY <1>1 DEF ExportInv, ExportTypeOK
<1>4. FileInv'
  BY <1>1, <1>3 DEF ExportInv, FileInv, FileIsTheSongUnlessDisturbed, Running, Rendering, RenderEnds
<1>5. (LoopInv \/ overlooked)'
  BY <1>1 DEF ExportInv, LoopInv, Rendering, RenderEnds
<1> QED BY <1>2, <1>4, <1>5 DEF ExportInv

LEMMA ExportStep ==
  ASSUME ExportInv, [ExportNext]_exportVars
  PROVE  ExportInv'
<1>1. CASE UNCHANGED exportVars
  BY <1>1, ZenonT(60) DEF exportVars, ExportInv, ExportTypeOK, FileInv, LeftAlone, LoopInv,
                          Running, Rendering, FileIsTheSongUnlessDisturbed
<1>2. ASSUME NEW c \in {Command("play", TRUE), Command("stop", TRUE), Command("seek", SongBlocks)},
             postTransport(c)
      PROVE  ExportInv'
  <2>1. SongBlocks \in BOOLEAN \cup Nat
    BY SongExportAssumption
  <2>2. ASSUME NEW type \in {"play", "stop", "seek"}, NEW to \in BOOLEAN \cup Nat
        PROVE  Command(type, to) \in Commands /\ Command(type, to).type # "loop"
    <3>1. Command(type, to).type = type
      BY DEF Command
    <3> QED BY <3>1 DEF Command, Commands
  <2>3. c \in Commands /\ c.type # "loop"
    BY <2>1, <2>2
  <2> QED BY <1>2, <2>3, TransportPosted
<1>3. CASE Works
  BY <1>3, FileOpened, TransportBorrowed, BlockRendered, RenderEnded, TransportGivenBack,
     DeviceRestarted DEF Works
<1> QED
  BY <1>1, <1>2, <1>3, SwitchFlipped, ExportStarted, ExportAsked, CancelAsked, DevicePlayed
     DEF ExportNext

(* audio_export.h and exportSong(): for any lengths of the song and its     *)
(* tail, any capacity of the queue and any edits during the render, a       *)
(* finished file is the song unless a command got into the render, what is  *)
(* not finished leaves none, and the engine loops as the project says once  *)
(* its queue is drained, unless a command was refused or lost to a render.  *)
THEOREM ExportKept == ExportSpec => []ExportKeepsTheSong
<1>1. ExportInit => ExportInv
  <2>1. SUFFICES ASSUME ExportInit PROVE ExportInv
    OBVIOUS
  <2>2. Kind(queue, {"loop"}) = {}
    BY <2>1 DEF ExportInit, Kind
  <2>3. ExportTypeOK
    BY <2>1 DEF ExportInit, ExportTypeOK, IsHead, Stopped
  <2>4. FileInv
    BY <2>1 DEF ExportInit, FileInv, FileIsTheSongUnlessDisturbed, Running, Rendering, RenderEnds
  <2>5. LoopInv
    BY <2>1, <2>2 DEF ExportInit, LoopInv, LeadsTo, Rendering, RenderEnds, Stopped
  <2> QED BY <2>3, <2>4, <2>5 DEF ExportInv
<1>2. ExportInv /\ [ExportNext]_exportVars => ExportInv'
  BY ExportStep
<1>3. ExportInv => ExportKeepsTheSong
  <2>1. ASSUME ExportInv, Settled, ~overlooked
        PROVE  playhead.loop = wish.loop
    <3>1. ~Rendering /\ LoopInv /\ queue = <<>>
      BY <2>1 DEF ExportInv, FileInv, Settled, Running, Rendering, RenderEnds
    <3>2. Kind(queue, {"loop"}) = {}
      BY <3>1 DEF Kind
    <3> QED BY <3>1, <3>2 DEF LoopInv, LeadsTo
  <2> QED BY <2>1 DEF ExportInv, FileInv, ExportKeepsTheSong, LoopComesBackUnlessOverlooked
<1> QED
  BY <1>1, <1>2, <1>3, PTL DEF ExportSpec

-----------------------------------------------------------------------------
(* The ring *)

Copying == popPc \in {"read", "release"}
Oldest  == IF Copying THEN dequeue_pos - 1 ELSE dequeue_pos
Span  == Oldest..(Oldest + Capacity - 1)
Owning(p) == pushPc[p] \in {"write", "publish"}

(* The consumer is one position ahead of the span while it copies, and     *)
(* the producers are at most a lap ahead of it.                            *)
BoundsInv ==
  /\ popPos \in Nat /\ dequeue_pos \in Nat /\ enqueue_pos \in Nat
  /\ Copying => popPos + 1 = dequeue_pos
  /\ popPc \in {"look", "claim"} => popPos = dequeue_pos
  /\ dequeue_pos <= enqueue_pos /\ enqueue_pos <= Oldest + Capacity

(* The cell of a position in the span is written or free, and free if no   *)
(* producer has claimed the position.                                      *)
SpanInv ==
  \A pos \in Span :
    /\ cellSequence[Cell(pos)] \in {pos, pos + 1}
    /\ cellSequence[Cell(pos)] = pos + 1 => pos < enqueue_pos

(* The number in a cell only grows: it is never behind a position that the *)
(* span has reached.                                                       *)
PassedInv ==
  \A pos \in 0..(Oldest + Capacity - 1) : cellSequence[Cell(pos)] >= pos

(* A producer that has claimed a position is the only one, and is expected *)
(* to write there.                                                         *)
ClaimInv ==
  /\ \A p \in Producers :
       /\ pushPos[p] <= enqueue_pos
       /\ pushPc[p] \in {"look", "claim"} => pushed[p] < MaxPush
       /\ pushPc[p] = "claim" => cellSequence[Cell(pushPos[p])] >= pushPos[p]
       /\ Owning(p) =>
            /\ pushPos[p] \in dequeue_pos..(enqueue_pos - 1)
            /\ ~Written(pushPos[p])
            /\ pushed[p] \in 1..MaxPush
       /\ pushPc[p] = "publish" =>
            data[Cell(pushPos[p])] = [from |-> p, number |-> pushed[p]]
  /\ \A p, q \in Producers : Owning(p) /\ Owning(q) /\ p # q => pushPos[p] # pushPos[q]

(* A claimed position holds a message, or is a producer's to write.        *)
OwnerInv ==
  \A pos \in dequeue_pos..(enqueue_pos - 1) :
    /\ Written(pos) => data[Cell(pos)] \in Message
    /\ ~Written(pos) => \E p \in Producers : Owning(p) /\ pushPos[p] = pos

(* What the consumer has in hand stays where it is until it is given back. *)
PopInv ==
  /\ popPc = "claim" => Written(dequeue_pos)
  /\ Copying => Written(popPos) /\ data[Cell(popPos)] \in Message
  /\ popPc = "release" => out = data[Cell(popPos)]

RingInv == TypeOK /\ BoundsInv /\ SpanInv /\ PassedInv /\ ClaimInv /\ OwnerInv /\ PopInv

-----------------------------------------------------------------------------
(* Positions less than a lap apart have different cells, and positions a   *)
(* lap apart have the same one.                                            *)

LEMMA Laps ==
  ASSUME NEW n \in Nat \ {0}, NEW q \in Int, NEW r \in Int, NEW d \in Int,
         n * r = n * q + d, -n < d, d < n
  PROVE  d = 0
<1>1. n * (r - q) = d
  OBVIOUS
<1>2. CASE r - q >= 1
  <2>1. n * (r - q) >= n
    BY <1>2
  <2> QED
    BY <1>1, <2>1
<1>3. CASE r - q <= -1
  <2>1. n * (r - q) <= -n
    BY <1>3
  <2> QED
    BY <1>1, <2>1
<1>4. CASE r = q
  BY <1>1, <1>4
<1> QED
  BY <1>2, <1>3, <1>4

LEMMA Division ==
  ASSUME NEW a \in Nat
  PROVE  /\ a \div Capacity \in Int /\ Cell(a) \in 0..(Capacity - 1)
         /\ Capacity * (a \div Capacity) = a - Cell(a)
BY RingAssumption DEF Cell

LEMMA CellsDiffer ==
  ASSUME NEW a \in Nat, NEW b \in Nat, a < b, b < a + Capacity
  PROVE  Cell(a) # Cell(b)
<1> SUFFICES ASSUME Cell(a) = Cell(b) PROVE FALSE
  OBVIOUS
<1> DEFINE q == a \div Capacity
           r == b \div Capacity
<1>1. q \in Int /\ r \in Int /\ Capacity * q = a - Cell(a) /\ Capacity * r = b - Cell(b)
      /\ Cell(a) \in Int
  BY Division, RingAssumption
<1>2. Capacity * q \in Int
  BY <1>1
<1>3. Capacity * r = Capacity * q + (b - a)
  <2> HIDE DEF q, r
  <2> DEFINE x == Capacity * q
             y == Capacity * r
  <2>1. x = a - Cell(a) /\ y = b - Cell(a) 
    BY <1>1
  <2> HIDE DEF x, y
  <2> QED
    BY <1>1, <2>1
<1> HIDE DEF q, r
<1> DEFINE d == b - a
<1>4. /\ Capacity \in Nat \ {0} /\ d \in Int /\ -Capacity < d /\ d < Capacity
      /\ Capacity * r = Capacity * q + d
  BY <1>3, RingAssumption
<1>5. d > 0
  OBVIOUS
<1> HIDE DEF d
<1>6. d = 0
  BY <1>1, <1>4, Laps
<1> QED
  BY <1>5, <1>6

LEMMA CellsRecur ==
  ASSUME NEW a \in Nat, NEW b \in Nat, b = a + Capacity
  PROVE  Cell(b) = Cell(a)
<1> DEFINE p == a \div Capacity
           q == p + 1
           r == b \div Capacity
           d == Cell(a) - Cell(b)
<1>0. Capacity \in Nat \ {0}
  BY RingAssumption
<1>1. /\ p \in Int /\ r \in Int
      /\ Cell(a) \in 0..(Capacity - 1) /\ Cell(b) \in 0..(Capacity - 1)
      /\ Capacity * p = a - Cell(a) /\ Capacity * r = b - Cell(b)
  BY Division
<1> HIDE DEF p, r
<1>2. Capacity * q = Capacity * p + Capacity
  BY <1>0, <1>1
<1>3. Capacity * r = Capacity * q + d
  <2> DEFINE w == Capacity * p
             x == Capacity * q
             y == Capacity * r
  <2>1. w = a - Cell(a) /\ y = b - Cell(b) /\ x = w + Capacity
    BY <1>1, <1>2
  <2> HIDE DEF w, x, y
  <2> QED
    BY <1>0, <1>1, <2>1
<1>4. q \in Int /\ d \in Int /\ -Capacity < d /\ d < Capacity
  BY <1>0, <1>1
<1> HIDE DEF q, d
<1>5. d = 0
  BY <1>0, <1>1, <1>3, <1>4, Laps
<1> QED
  BY <1>1, <1>5 DEF d

LEMMA CellsExist == ASSUME NEW pos \in Nat PROVE Cell(pos) \in 0..(Capacity - 1)
BY Division

LEMMA SpanCellsDiffer ==
  ASSUME BoundsInv, NEW a \in Span, NEW b \in Span, a # b
  PROVE  a \in Nat /\ b \in Nat /\ Cell(a) # Cell(b)
<1>1. a \in Nat /\ b \in Nat /\ a < b + Capacity /\ b < a + Capacity
  BY RingAssumption DEF BoundsInv, Span, Oldest, Copying
<1> QED
  BY <1>1, CellsDiffer

LEMMA RingInitEstablishes == Init => RingInv
<1> SUFFICES ASSUME Init PROVE RingInv
  OBVIOUS
<1>0. \A pos \in 0..(Capacity - 1) : Cell(pos) = pos
  BY RingAssumption DEF Cell
<1>1. TypeOK
  BY RingAssumption DEF Init, TypeOK
<1>2. BoundsInv /\ SpanInv /\ PassedInv
  BY <1>0, RingAssumption DEF Init, BoundsInv, SpanInv, PassedInv, Span, Oldest, Copying
<1>3. ClaimInv /\ OwnerInv /\ PopInv
  BY RingAssumption DEF Init, ClaimInv, OwnerInv, PopInv, Owning, Copying
<1> QED
  BY <1>1, <1>2, <1>3 DEF RingInv

-----------------------------------------------------------------------------
(* The steps of a producer. *)

LEMMA LookingKeeps ==
  ASSUME RingInv, NEW p \in Producers,
         PushBegins(p) \/ SeesFree(p) \/ SeesFull(p) \/ SeesTaken(p) \/ ClaimFails(p)
  PROVE  RingInv'
<1> USE DEF PushBegins, SeesFree, SeesFull, SeesTaken, ClaimFails
<1>0. UNCHANGED <<cellSequence, data, enqueue_pos, dequeue_pos, pushed, popPc, popPos, out, received>>
  BY DEF ringVars, popVars
<1>1. TypeOK'
  BY <1>0 DEF RingInv, TypeOK, BoundsInv, SpanInv
<1>2. BoundsInv' /\ SpanInv' /\ PassedInv' /\ PopInv'
  BY <1>0 DEF RingInv, BoundsInv, SpanInv, PassedInv, PopInv, Copying, Oldest, Span, Written
<1>3. \A q \in Producers : q # p => pushPc'[q] = pushPc[q] /\ pushPos'[q] = pushPos[q]
  BY DEF RingInv, TypeOK
<1>4. ~Owning(p) /\ ~Owning(p)' /\ (\A q \in Producers : Owning(q)' <=> Owning(q))
  BY <1>3 DEF RingInv, TypeOK, Owning
<1>5. pushPos'[p] <= enqueue_pos /\ pushPc'[p] # "publish"
  <2>1. enqueue_pos \in Nat /\ pushPos[p] \in Nat /\ pushPos[p] <= enqueue_pos
    BY DEF RingInv, TypeOK, BoundsInv, ClaimInv
  <2> QED
    BY <2>1 DEF RingInv, TypeOK
<1>6. pushPc'[p] \in {"look", "claim"} => pushed[p] < MaxPush
  BY DEF RingInv, TypeOK, ClaimInv
<1>7. pushPc'[p] = "claim" => cellSequence[Cell(pushPos'[p])] >= pushPos'[p]
  <2>1. SUFFICES ASSUME SeesFree(p) PROVE cellSequence[Cell(pushPos[p])] >= pushPos[p]
    BY DEF RingInv, TypeOK
  <2>2. pushPos[p] \in Nat /\ cellSequence[Cell(pushPos[p])] \in Nat
    BY CellsExist DEF RingInv, TypeOK
  <2> QED
    BY <2>1, <2>2 DEF Ahead
<1>8. ClaimInv'
  BY <1>0, <1>3, <1>4, <1>5, <1>6, <1>7 DEF RingInv, ClaimInv, Owning, Written
<1>9. OwnerInv'
  BY <1>0, <1>3, <1>4 DEF RingInv, OwnerInv, Written
<1> QED
  BY <1>1, <1>2, <1>8, <1>9 DEF RingInv

LEMMA ClaimsFindsRoom ==
  ASSUME RingInv, NEW p \in Producers, Claims(p)
  PROVE  /\ enqueue_pos < Oldest + Capacity
         /\ cellSequence[Cell(enqueue_pos)] = enqueue_pos
<1>1. cellSequence[Cell(enqueue_pos)] >= enqueue_pos
  BY DEF RingInv, ClaimInv, Claims
<1>2. Oldest \in Nat /\ Capacity \in Nat /\ Capacity > 1 /\ enqueue_pos \in Nat
  BY RingAssumption DEF RingInv, BoundsInv, SpanInv, Oldest, Copying
<1>3. enqueue_pos # Oldest + Capacity
  <2> SUFFICES ASSUME enqueue_pos = Oldest + Capacity PROVE FALSE
    OBVIOUS
  <2>1. Cell(enqueue_pos) = Cell(Oldest)
    BY <1>2, CellsRecur
  <2>2. cellSequence[Cell(Oldest)] \in {Oldest, Oldest + 1}
    BY <1>2 DEF RingInv, BoundsInv, SpanInv, Span
  <2> QED
    BY <1>1, <1>2, <2>1, <2>2
<1>4. enqueue_pos < Oldest + Capacity /\ enqueue_pos \in Span
  BY <1>2, <1>3 DEF RingInv, BoundsInv, SpanInv, Span, Oldest
<1> QED
  BY <1>2, <1>4 DEF RingInv, BoundsInv, SpanInv

LEMMA ClaimKeeps ==
  ASSUME RingInv, NEW p \in Producers, Claims(p)
  PROVE  RingInv'
<1>0. /\ UNCHANGED <<cellSequence, data, dequeue_pos, pushPos, refused, popPc, popPos, out, received>>
      /\ enqueue_pos' = enqueue_pos + 1 /\ pushPos[p] = enqueue_pos /\ pushPc[p] = "claim"
      /\ pushPc' = [pushPc EXCEPT ![p] = "write"] /\ pushed' = [pushed EXCEPT ![p] = @ + 1]
  BY DEF Claims, popVars
<1>a. /\ enqueue_pos < Oldest + Capacity /\ cellSequence[Cell(enqueue_pos)] = enqueue_pos
      /\ enqueue_pos \in Nat /\ dequeue_pos \in Nat /\ dequeue_pos <= enqueue_pos
      /\ Oldest \in Nat /\ Oldest' = Oldest /\ Span' = Span
  BY <1>0, ClaimsFindsRoom DEF RingInv, BoundsInv, SpanInv, Oldest, Copying, Span
<1>b. pushed[p] < MaxPush /\ pushed[p] \in Nat /\ pushed'[p] = pushed[p] + 1 /\ MaxPush \in Nat
  <2>1. pushed[p] < MaxPush
    BY <1>0 DEF RingInv, ClaimInv
  <2> QED
    BY <1>0, <2>1, RingAssumption DEF RingInv, TypeOK
<1>1. TypeOK'
  <2>1. enqueue_pos' <= dequeue_pos' + Capacity
    BY <1>0, <1>a, RingAssumption DEF Oldest
  <2> QED
    BY <1>0, <1>a, <1>b, <2>1 DEF RingInv, TypeOK
<1>2. BoundsInv' /\ SpanInv' /\ PassedInv' /\ PopInv'
  BY <1>0, <1>a, RingAssumption
  DEF RingInv, BoundsInv, SpanInv, PassedInv, PopInv, Copying, Oldest, Span, Written
<1>3. \A q \in Producers : q # p => pushPc'[q] = pushPc[q] /\ pushed'[q] = pushed[q]
  BY <1>0 DEF RingInv, TypeOK
<1>4. pushPc'[p] = "write" /\ Owning(p)' /\ ~Owning(p)
      /\ \A q \in Producers : q # p => (Owning(q)' <=> Owning(q))
  BY <1>0, <1>3 DEF RingInv, TypeOK, Owning
<1>5. \A q \in Producers : Owning(q) => pushPos[q] < enqueue_pos
  <2>1. \A q \in Producers : Owning(q) => pushPos[q] \in dequeue_pos..(enqueue_pos - 1)
    BY DEF RingInv, ClaimInv
  <2> QED
    BY <1>a, <2>1
<1>6. ~Written(enqueue_pos)
  BY <1>a DEF Written
<1>7. ClaimInv'
  <2>1. ASSUME NEW q \in Producers, q # p
        PROVE  /\ pushPos[q] <= enqueue_pos'
               /\ pushPc'[q] \in {"look", "claim"} => pushed'[q] < MaxPush
               /\ pushPc'[q] = "claim" => cellSequence[Cell(pushPos[q])] >= pushPos[q]
               /\ Owning(q)' => /\ pushPos[q] \in dequeue_pos..(enqueue_pos' - 1)
                                /\ ~Written(pushPos[q])
                                /\ pushed'[q] \in 1..MaxPush
               /\ pushPc'[q] = "publish" =>
                     data[Cell(pushPos[q])] = [from |-> q, number |-> pushed'[q]]
    <3>1. pushPos[q] \in Nat
      BY DEF RingInv, TypeOK
    <3> QED
      BY <1>0, <1>3, <1>4, <1>a, <2>1, <3>1 DEF RingInv, ClaimInv
  <2>2. \A q, r \in Producers : Owning(q)' /\ Owning(r)' /\ q # r => pushPos[q] # pushPos[r]
    BY <1>0, <1>4, <1>5, <1>a DEF RingInv, ClaimInv
  <2> QED
    BY <1>0, <1>4, <1>6, <1>a, <1>b, <2>1, <2>2 DEF ClaimInv, Written
<1>8. OwnerInv'
  <2> SUFFICES ASSUME NEW pos \in dequeue_pos..enqueue_pos
               PROVE  /\ Written(pos) => data[Cell(pos)] \in Message
                      /\ ~Written(pos) => \E q \in Producers : Owning(q)' /\ pushPos[q] = pos
    BY <1>0, <1>a DEF OwnerInv, Written
  <2>1. CASE pos = enqueue_pos
    BY <1>0, <1>4, <1>6, <2>1
  <2>2. CASE pos # enqueue_pos
    <3>1. pos \in dequeue_pos..(enqueue_pos - 1)
      BY <1>a, <2>2
    <3> QED
      BY <1>4, <3>1 DEF RingInv, OwnerInv
  <2> QED
    BY <2>1, <2>2
<1> QED
  BY <1>1, <1>2, <1>7, <1>8 DEF RingInv

(* A position that a producer owns has a cell that no other position of    *)
(* the span shares.                                                        *)
LEMMA OwnCell ==
  ASSUME RingInv, NEW p \in Producers, Owning(p)
  PROVE  /\ pushPos[p] \in Span /\ pushPos[p] \in Nat
         /\ \A pos \in Span : pos # pushPos[p] => Cell(pos) # Cell(pushPos[p])
         /\ \A pos \in dequeue_pos..(enqueue_pos - 1) : pos \in Span
         /\ Copying => popPos \in Span /\ popPos # pushPos[p]
<1>1. /\ \A pos \in dequeue_pos..(enqueue_pos - 1) : pos \in Span
      /\ Copying => popPos \in Span
  BY RingAssumption DEF RingInv, BoundsInv, SpanInv, Span, Oldest, Copying
<1>2. pushPos[p] \in dequeue_pos..(enqueue_pos - 1) /\ pushPos[p] \in Nat
  BY DEF RingInv, TypeOK, ClaimInv
<1>3. pushPos[p] \in Span
  BY <1>1, <1>2
<1>4. Copying => popPos # pushPos[p]
  BY <1>2 DEF RingInv, BoundsInv, SpanInv
<1> QED
  BY <1>1, <1>2, <1>3, <1>4, SpanCellsDiffer DEF RingInv

LEMMA WriteKeeps ==
  ASSUME RingInv, NEW p \in Producers, Writes(p)
  PROVE  RingInv'
<1>0. /\ UNCHANGED <<cellSequence, enqueue_pos, dequeue_pos, pushPos, pushed, refused, popPc, popPos,
                     out, received>>
      /\ pushPc[p] = "write" /\ pushPc' = [pushPc EXCEPT ![p] = "publish"]
      /\ data' = [data EXCEPT ![Cell(pushPos[p])] = [from |-> p, number |-> pushed[p]]]
  BY DEF Writes, popVars
<1>a. /\ Owning(p) /\ pushed[p] \in 1..MaxPush /\ ~Written(pushPos[p])
      /\ pushPos[p] \in Nat /\ Cell(pushPos[p]) \in 0..(Capacity - 1)
  BY <1>0, CellsExist DEF RingInv, ClaimInv, Owning, TypeOK
<1>b. [from |-> p, number |-> pushed[p]] \in Message
  BY <1>a DEF Message
<1>c. /\ data'[Cell(pushPos[p])] = [from |-> p, number |-> pushed[p]]
      /\ \A i \in 0..(Capacity - 1) : i # Cell(pushPos[p]) => data'[i] = data[i]
  BY <1>0, <1>a DEF RingInv, TypeOK
<1>d. \A pos \in Span : pos # pushPos[p] => data'[Cell(pos)] = data[Cell(pos)]
  <2> TAKE pos \in Span
  <2>1. pos \in Nat /\ Cell(pos) \in 0..(Capacity - 1)
    BY CellsExist, RingAssumption DEF RingInv, BoundsInv, Span, Oldest, Copying
  <2> QED
    BY <1>a, <1>c, <2>1, OwnCell
<1>1. TypeOK'
  BY <1>0, <1>a, <1>b DEF RingInv, TypeOK
<1>2. BoundsInv' /\ SpanInv' /\ PassedInv'
  BY <1>0 DEF RingInv, BoundsInv, SpanInv, PassedInv, Copying, Oldest, Span
<1>3. /\ pushPc'[p] = "publish" /\ \A q \in Producers : q # p => pushPc'[q] = pushPc[q]
      /\ \A q \in Producers : Owning(q)' <=> Owning(q)
  BY <1>0 DEF RingInv, TypeOK, Owning
<1>4. ClaimInv'
  <2>1. ASSUME NEW q \in Producers, pushPc'[q] = "publish"
        PROVE  data'[Cell(pushPos[q])] = [from |-> q, number |-> pushed[q]]
    <3>1. CASE q = p
      BY <1>c, <3>1
    <3>2. CASE q # p
      <4>1. Owning(q) /\ pushPc[q] = "publish" /\ pushPos[q] # pushPos[p] /\ pushPos[q] \in Span
        BY <1>3, <1>a, <2>1, <3>2, OwnCell DEF RingInv, ClaimInv, Owning
      <4> QED
        BY <1>d, <4>1 DEF RingInv, ClaimInv
    <3> QED
      BY <3>1, <3>2
  <2> QED
    BY <1>0, <1>3, <2>1 DEF RingInv, ClaimInv, Written
<1>5. OwnerInv'
  <2> SUFFICES ASSUME NEW pos \in dequeue_pos..(enqueue_pos - 1)
               PROVE  /\ Written(pos) => data'[Cell(pos)] \in Message
                      /\ ~Written(pos) => \E q \in Producers : Owning(q)' /\ pushPos[q] = pos
    BY <1>0 DEF OwnerInv, Written
  <2>1. Written(pos) => pos # pushPos[p] /\ pos \in Span
    BY <1>a, OwnCell
  <2> QED
    BY <1>3, <1>d, <2>1 DEF RingInv, OwnerInv
<1>6. PopInv'
  BY <1>0, <1>a, <1>d, OwnCell DEF RingInv, PopInv, Copying, Written
<1> QED
  BY <1>1, <1>2, <1>4, <1>5, <1>6 DEF RingInv

LEMMA PublishKeeps ==
  ASSUME RingInv, NEW p \in Producers, Publishes(p)
  PROVE  RingInv'
<1>0. /\ UNCHANGED <<data, enqueue_pos, dequeue_pos, pushPos, pushed, refused, popPc, popPos,
                     out, received>>
      /\ pushPc[p] = "publish" /\ pushPc' = [pushPc EXCEPT ![p] = "idle"]
      /\ cellSequence' = [cellSequence EXCEPT ![Cell(pushPos[p])] = pushPos[p] + 1]
  BY DEF Publishes, popVars
<1>a. /\ Owning(p) /\ pushed[p] \in 1..MaxPush /\ ~Written(pushPos[p])
      /\ pushPos[p] \in Nat /\ Cell(pushPos[p]) \in 0..(Capacity - 1)
      /\ pushPos[p] < enqueue_pos /\ enqueue_pos \in Nat /\ dequeue_pos \in Nat
      /\ pushPos[p] >= dequeue_pos
      /\ data[Cell(pushPos[p])] = [from |-> p, number |-> pushed[p]]
  <2>1. pushPos[p] \in Nat /\ enqueue_pos \in Nat /\ dequeue_pos \in Nat
    BY DEF RingInv, TypeOK
  <2>2. Owning(p) /\ pushPos[p] \in dequeue_pos..(enqueue_pos - 1)
    BY <1>0 DEF RingInv, ClaimInv, Owning
  <2>3. pushed[p] \in 1..MaxPush /\ ~Written(pushPos[p])
        /\ data[Cell(pushPos[p])] = [from |-> p, number |-> pushed[p]]
    BY <1>0, <2>2 DEF RingInv, ClaimInv
  <2> QED
    BY <2>1, <2>2, <2>3, CellsExist
<1>b. [from |-> p, number |-> pushed[p]] \in Message
  BY <1>a DEF Message
<1>c. /\ cellSequence'[Cell(pushPos[p])] = pushPos[p] + 1
      /\ \A i \in 0..(Capacity - 1) : i # Cell(pushPos[p]) => cellSequence'[i] = cellSequence[i]
      /\ cellSequence[Cell(pushPos[p])] = pushPos[p]
  BY <1>0, <1>a, OwnCell DEF RingInv, TypeOK, SpanInv, Written
<1>d. \A pos \in Span : pos # pushPos[p] => cellSequence'[Cell(pos)] = cellSequence[Cell(pos)]
  <2> TAKE pos \in Span
  <2>1. pos \in Nat /\ Cell(pos) \in 0..(Capacity - 1)
    BY CellsExist, RingAssumption DEF RingInv, BoundsInv, Span, Oldest, Copying
  <2> QED
    BY <1>a, <1>c, <2>1, OwnCell
<1>e. \A i \in 0..(Capacity - 1) : cellSequence[i] \in Nat /\ cellSequence'[i] >= cellSequence[i]
  <2> TAKE i \in 0..(Capacity - 1)
  <2>1. cellSequence[i] \in Nat
    BY DEF RingInv, TypeOK
  <2> QED
    BY <1>a, <1>c, <2>1
<1>1. TypeOK'
  BY <1>0, <1>a DEF RingInv, TypeOK
<1>2. BoundsInv' /\ Span' = Span /\ Oldest' = Oldest
  BY <1>0 DEF RingInv, BoundsInv, Copying, Oldest, Span
<1>3. SpanInv'
  BY <1>0, <1>2, <1>a, <1>c, <1>d, OwnCell DEF RingInv, SpanInv
<1>4. PassedInv'
  <2> SUFFICES ASSUME NEW pos \in 0..(Oldest + Capacity - 1)
               PROVE  cellSequence'[Cell(pos)] >= pos
    BY <1>2 DEF PassedInv
  <2>1. pos \in Nat /\ Cell(pos) \in 0..(Capacity - 1)
    BY CellsExist
  <2>2. cellSequence[Cell(pos)] >= pos
    BY DEF RingInv, PassedInv
  <2>3. cellSequence'[Cell(pos)] \in Nat
    BY <1>1, <2>1 DEF TypeOK
  <2> QED
    BY <1>e, <2>1, <2>2, <2>3
<1>5. /\ pushPc'[p] = "idle" /\ ~Owning(p)' /\ \A q \in Producers : q # p => pushPc'[q] = pushPc[q]
      /\ \A q \in Producers : q # p => (Owning(q)' <=> Owning(q))
  BY <1>0 DEF RingInv, TypeOK, Owning
<1>6. ClaimInv'
  <2>1. ASSUME NEW q \in Producers, Owning(q)'
        PROVE  q # p /\ ~Written(pushPos[q])'
    <3>1. q # p /\ Owning(q) /\ pushPos[q] # pushPos[p] /\ pushPos[q] \in Span
      BY <1>5, <1>a, <2>1, OwnCell DEF RingInv, ClaimInv
    <3> QED
      BY <1>0, <1>d, <3>1 DEF RingInv, ClaimInv, Written
  <2>2. ASSUME NEW q \in Producers, pushPc'[q] = "claim"
        PROVE  cellSequence'[Cell(pushPos[q])] >= pushPos[q]
    <3>1. pushPos[q] \in Nat /\ Cell(pushPos[q]) \in 0..(Capacity - 1)
          /\ cellSequence[Cell(pushPos[q])] >= pushPos[q]
      BY <1>5, <2>2, CellsExist DEF RingInv, TypeOK, ClaimInv
    <3>2. cellSequence'[Cell(pushPos[q])] \in Nat
      BY <1>1, <3>1 DEF TypeOK
    <3> QED
      BY <1>e, <3>1, <3>2
  <2> QED
    BY <1>0, <1>5, <2>1, <2>2 DEF RingInv, ClaimInv
<1>7. OwnerInv'
  <2> SUFFICES ASSUME NEW pos \in dequeue_pos..(enqueue_pos - 1)
               PROVE  /\ Written(pos)' => data[Cell(pos)] \in Message
                      /\ ~Written(pos)' => \E q \in Producers : Owning(q)' /\ pushPos[q] = pos
    BY <1>0 DEF OwnerInv, Written
  <2>1. CASE pos = pushPos[p]
    BY <1>a, <1>b, <1>c, <2>1 DEF Written
  <2>2. CASE pos # pushPos[p]
    <3>1. Written(pos)' <=> Written(pos)
      BY <1>d, <2>2, OwnCell, <1>a DEF Written
    <3>2. ~Written(pos) => \E q \in Producers : q # p /\ Owning(q) /\ pushPos[q] = pos
      BY <2>2 DEF RingInv, OwnerInv
    <3> QED
      BY <1>5, <3>1, <3>2 DEF RingInv, OwnerInv
  <2> QED
    BY <2>1, <2>2
<1>8. PopInv'
  <2>1. popPc = "claim" => Written(dequeue_pos)'
    <3> SUFFICES ASSUME popPc = "claim" PROVE Written(dequeue_pos)'
      OBVIOUS
    <3>1. Written(dequeue_pos) /\ dequeue_pos # pushPos[p] /\ dequeue_pos \in dequeue_pos..(enqueue_pos - 1)
      BY <1>a DEF RingInv, PopInv
    <3> QED
      BY <1>0, <1>a, <1>d, <3>1, OwnCell DEF Written
  <2>2. Copying => Written(popPos)'
    BY <1>0, <1>a, <1>d, OwnCell DEF RingInv, PopInv, Written
  <2> QED
    BY <1>0, <2>1, <2>2 DEF RingInv, PopInv, Copying
<1> QED
  BY <1>1, <1>2, <1>3, <1>4, <1>6, <1>7, <1>8 DEF RingInv

-----------------------------------------------------------------------------
(* The steps of the consumer. *)

LEMMA PopLookingKeeps ==
  ASSUME RingInv, PopBegins \/ SeesMessage \/ SeesEmpty \/ PopFails
  PROVE  RingInv'
<1> USE DEF PopBegins, SeesMessage, SeesEmpty, PopFails
<1>0. UNCHANGED <<cellSequence, data, enqueue_pos, dequeue_pos, pushPc, pushPos, pushed, refused,
                  out, received>>
  BY DEF ringVars, pushVars
<1>1. /\ popPc' \in {"idle", "look", "claim"} /\ ~Copying /\ ~Copying'
      /\ popPos' \in Nat /\ (popPc' \in {"look", "claim"} => popPos' = dequeue_pos)
  BY DEF RingInv, TypeOK, BoundsInv, Copying
<1>2. TypeOK' /\ BoundsInv' /\ Span' = Span /\ Oldest' = Oldest
  BY <1>0, <1>1 DEF RingInv, TypeOK, BoundsInv, Span, Oldest
<1>3. SpanInv' /\ PassedInv'
  BY <1>0, <1>2 DEF RingInv, SpanInv, PassedInv
<1>4. ClaimInv' /\ OwnerInv'
  BY <1>0 DEF RingInv, ClaimInv, OwnerInv, Owning, Written
<1>5. PopInv'
  <2>1. CASE SeesMessage
    <3>1. popPos = dequeue_pos /\ dequeue_pos \in Nat
      BY <2>1 DEF RingInv, BoundsInv
    <3>2. Cell(dequeue_pos) \in 0..(Capacity - 1)
      BY <3>1, CellsExist
    <3>3. cellSequence[Cell(dequeue_pos)] \in Nat
      BY <3>2 DEF RingInv, TypeOK
    <3> QED
      BY <1>0, <1>1, <2>1, <3>1, <3>3 DEF PopInv, Behind, Written, Copying
  <2>2. CASE ~SeesMessage
    <3>1. popPc' # "claim" /\ popPc' # "release"
      BY <2>2
    <3> QED
      BY <1>1, <3>1 DEF PopInv
  <2> QED
    BY <2>1, <2>2
<1> QED
  BY <1>2, <1>3, <1>4, <1>5 DEF RingInv

LEMMA PopKeeps ==
  ASSUME RingInv, Pops
  PROVE  RingInv'
<1>0. /\ UNCHANGED <<cellSequence, data, enqueue_pos, pushPc, pushPos, pushed, refused, popPos,
                     out, received>>
      /\ popPc = "claim" /\ popPc' = "read" /\ popPos = dequeue_pos
      /\ dequeue_pos' = dequeue_pos + 1
  BY DEF Pops, pushVars
<1>a. dequeue_pos \in Nat /\ enqueue_pos \in Nat /\ Capacity \in Nat /\ Capacity > 1
  BY RingAssumption DEF RingInv, BoundsInv
<1>b. Copying' /\ ~Copying /\ Oldest = dequeue_pos /\ Oldest' = dequeue_pos /\ Span' = Span
  BY <1>0, <1>a DEF Copying, Oldest, Span
<1>c. dequeue_pos \in Span /\ cellSequence[Cell(dequeue_pos)] = dequeue_pos + 1
  BY <1>0, <1>a, <1>b DEF RingInv, PopInv, Span, Written
<1>d. dequeue_pos < enqueue_pos
  BY <1>c DEF RingInv, SpanInv
<1>1. TypeOK'
  BY <1>0, <1>a, <1>b, <1>d DEF RingInv, TypeOK, BoundsInv
<1>2. BoundsInv'
  BY <1>0, <1>a, <1>b, <1>d DEF RingInv, BoundsInv
<1>3. SpanInv' /\ PassedInv'
  BY <1>0, <1>b DEF RingInv, SpanInv, PassedInv
<1>4. ClaimInv'
  <2>1. ASSUME NEW p \in Producers, Owning(p)
        PROVE  pushPos[p] \in (dequeue_pos + 1)..(enqueue_pos - 1)
    <3>1. pushPos[p] \in dequeue_pos..(enqueue_pos - 1) /\ ~Written(pushPos[p])
      BY <2>1 DEF RingInv, ClaimInv
    <3>2. pushPos[p] # dequeue_pos
      BY <3>1, <1>c DEF Written
    <3> QED
      BY <1>a, <3>1, <3>2
  <2> QED
    BY <1>0, <2>1 DEF RingInv, ClaimInv, Owning, Written
<1>5. OwnerInv'
  <2>1. \A pos \in (dequeue_pos + 1)..(enqueue_pos - 1) : pos \in dequeue_pos..(enqueue_pos - 1)
    BY <1>a
  <2> QED
    BY <1>0, <2>1 DEF RingInv, OwnerInv, Owning, Written
<1>6. PopInv'
  <2>1. dequeue_pos \in dequeue_pos..(enqueue_pos - 1)
    BY <1>a, <1>d
  <2> QED
    BY <1>0, <1>c, <2>1 DEF RingInv, OwnerInv, PopInv, Written
<1> QED
  BY <1>1, <1>2, <1>3, <1>4, <1>5, <1>6 DEF RingInv

LEMMA ReadKeeps ==
  ASSUME RingInv, Reads
  PROVE  RingInv'
<1>0. /\ UNCHANGED <<cellSequence, data, enqueue_pos, dequeue_pos, pushPc, pushPos, pushed, refused,
                     popPos, received>>
      /\ popPc = "read" /\ popPc' = "release" /\ out' = data[Cell(popPos)]
  BY DEF Reads, ringVars, pushVars
<1>1. Copying /\ Copying' /\ Oldest' = Oldest /\ Span' = Span
  BY <1>0 DEF Copying, Oldest, Span
<1>2. Written(popPos) /\ data[Cell(popPos)] \in Message
  BY <1>1 DEF RingInv, PopInv
<1>3. TypeOK' /\ BoundsInv'
  BY <1>0, <1>1, <1>2 DEF RingInv, TypeOK, BoundsInv
<1>4. SpanInv' /\ PassedInv'
  BY <1>0, <1>1 DEF RingInv, SpanInv, PassedInv
<1>5. ClaimInv' /\ OwnerInv'
  BY <1>0 DEF RingInv, ClaimInv, OwnerInv, Owning, Written
<1>6. PopInv'
  BY <1>0, <1>1, <1>2 DEF PopInv, Written
<1> QED
  BY <1>3, <1>4, <1>5, <1>6 DEF RingInv

LEMMA ReleaseKeeps ==
  ASSUME RingInv, Releases
  PROVE  RingInv'
<1>0. /\ UNCHANGED <<data, enqueue_pos, dequeue_pos, pushPc, pushPos, pushed, refused, popPos, out>>
      /\ popPc = "release" /\ popPc' = "idle" /\ received' = Append(received, out)
      /\ cellSequence' = [cellSequence EXCEPT ![Cell(popPos)] = popPos + Capacity]
  BY DEF Releases, pushVars
<1>a. /\ popPos \in Nat /\ dequeue_pos = popPos + 1 /\ enqueue_pos \in Nat
      /\ Capacity \in Nat /\ Capacity > 1 /\ enqueue_pos <= popPos + Capacity
      /\ Oldest = popPos /\ Oldest' = popPos + 1 /\ Copying /\ ~Copying'
      /\ dequeue_pos <= enqueue_pos
  <2>1. popPos \in Nat /\ dequeue_pos = popPos + 1 /\ dequeue_pos \in Nat /\ Copying /\ ~Copying'
    BY <1>0 DEF RingInv, BoundsInv, Copying
  <2>2. Oldest = popPos /\ Oldest' = popPos + 1
    BY <1>0, <2>1 DEF Oldest
  <2> QED
    BY <2>1, <2>2, RingAssumption DEF RingInv, BoundsInv
<1>b. Cell(popPos) \in 0..(Capacity - 1) /\ Cell(popPos + Capacity) = Cell(popPos)
  <2>1. popPos + Capacity \in Nat
    BY <1>a
  <2> QED
    BY <1>a, <2>1, CellsExist, CellsRecur
<1>c. /\ cellSequence'[Cell(popPos)] = popPos + Capacity
      /\ \A i \in 0..(Capacity - 1) : i # Cell(popPos) => cellSequence'[i] = cellSequence[i]
      /\ cellSequence[Cell(popPos)] = popPos + 1
  BY <1>0, <1>a, <1>b DEF RingInv, TypeOK, PopInv, Written
<1>d. \A pos \in Span : pos # popPos =>
        Cell(pos) # Cell(popPos) /\ cellSequence'[Cell(pos)] = cellSequence[Cell(pos)]
  <2> TAKE pos \in Span
  <2> HAVE pos # popPos
  <2>1. pos \in Nat /\ popPos \in Span
    BY <1>a DEF Span
  <2>2. Cell(pos) \in 0..(Capacity - 1) /\ Cell(pos) # Cell(popPos)
    BY <2>1, CellsExist, SpanCellsDiffer DEF RingInv
  <2> QED
    BY <1>c, <2>2
<1>e. \A i \in 0..(Capacity - 1) : cellSequence[i] \in Nat /\ cellSequence'[i] >= cellSequence[i]
  <2> TAKE i \in 0..(Capacity - 1)
  <2>1. cellSequence[i] \in Nat
    BY DEF RingInv, TypeOK
  <2> QED
    BY <1>a, <1>c, <2>1
<1>f. \A pos \in dequeue_pos..(enqueue_pos - 1) : pos \in Span /\ pos # popPos
  BY <1>a DEF Span
<1>1. TypeOK'
  <2>1. out \in Message
    BY <1>0, <1>a DEF RingInv, PopInv
  <2>2. received' \in Seq(Message)
    BY <1>0, <2>1 DEF RingInv, TypeOK
  <2>3. cellSequence' \in [0..(Capacity - 1) -> Nat]
    <3>1. popPos + Capacity \in Nat /\ cellSequence \in [0..(Capacity - 1) -> Nat]
      BY <1>a DEF RingInv, TypeOK
    <3> QED
      BY <1>0, <3>1
  <2> QED
    BY <1>0, <2>2, <2>3 DEF RingInv, TypeOK
<1>2. BoundsInv'
  BY <1>0, <1>a DEF BoundsInv
<1>3. SpanInv'
  <2> SUFFICES ASSUME NEW pos \in (popPos + 1)..(popPos + Capacity)
               PROVE  /\ cellSequence'[Cell(pos)] \in {pos, pos + 1}
                      /\ cellSequence'[Cell(pos)] = pos + 1 => pos < enqueue_pos
    BY <1>0, <1>a DEF SpanInv, Span
  <2>1. CASE pos = popPos + Capacity
    BY <1>a, <1>b, <1>c, <2>1
  <2>2. CASE pos # popPos + Capacity
    <3>1. pos \in Span /\ pos # popPos
      BY <1>a, <2>2 DEF Span
    <3> QED
      BY <1>d, <3>1 DEF RingInv, SpanInv
  <2> QED
    BY <2>1, <2>2
<1>4. PassedInv'
  <2> SUFFICES ASSUME NEW pos \in 0..(popPos + Capacity)
               PROVE  cellSequence'[Cell(pos)] >= pos
    BY <1>a DEF PassedInv
  <2>1. pos \in Nat /\ Cell(pos) \in 0..(Capacity - 1)
    BY CellsExist
  <2>2. CASE pos = popPos + Capacity
    BY <1>a, <1>b, <1>c, <2>2
  <2>3. CASE pos # popPos + Capacity
    <3>1. cellSequence[Cell(pos)] >= pos
      BY <1>a, <2>1, <2>3 DEF RingInv, PassedInv
    <3>2. cellSequence'[Cell(pos)] \in Nat
      BY <1>1, <2>1 DEF TypeOK
    <3> QED
      BY <1>e, <2>1, <3>1, <3>2
  <2> QED
    BY <2>2, <2>3
<1>5. ClaimInv'
  <2>1. ASSUME NEW q \in Producers, Owning(q)
        PROVE  ~Written(pushPos[q])'
    <3>1. pushPos[q] \in dequeue_pos..(enqueue_pos - 1) /\ ~Written(pushPos[q])
      BY <2>1 DEF RingInv, ClaimInv
    <3> QED
      BY <1>0, <1>d, <1>f, <3>1 DEF Written
  <2>2. ASSUME NEW q \in Producers, pushPc[q] = "claim"
        PROVE  cellSequence'[Cell(pushPos[q])] >= pushPos[q]
    <3>1. pushPos[q] \in Nat /\ Cell(pushPos[q]) \in 0..(Capacity - 1)
          /\ cellSequence[Cell(pushPos[q])] >= pushPos[q]
      BY <2>2, CellsExist DEF RingInv, TypeOK, ClaimInv
    <3>2. cellSequence'[Cell(pushPos[q])] \in Nat
      BY <1>1, <3>1 DEF TypeOK
    <3> QED
      BY <1>e, <3>1, <3>2
  <2> QED
    BY <1>0, <2>1, <2>2 DEF RingInv, ClaimInv, Owning
<1>6. OwnerInv'
  <2>1. \A pos \in dequeue_pos..(enqueue_pos - 1) : Written(pos)' <=> Written(pos)
    BY <1>d, <1>f DEF Written
  <2> QED
    BY <1>0, <2>1 DEF RingInv, OwnerInv, Owning
<1>7. PopInv'
  BY <1>0, <1>a DEF PopInv
<1> QED
  BY <1>1, <1>2, <1>3, <1>4, <1>5, <1>6, <1>7 DEF RingInv

LEMMA StepKeeps == RingInv /\ [Next]_vars => RingInv'
<1> SUFFICES ASSUME RingInv, [Next]_vars PROVE RingInv'
  OBVIOUS
<1>1. ASSUME NEW p \in Producers, Push(p) PROVE RingInv'
  BY <1>1, LookingKeeps, ClaimKeeps, WriteKeeps, PublishKeeps DEF Push
<1>2. CASE Pop
  BY <1>2, PopLookingKeeps, PopKeeps, ReadKeeps, ReleaseKeeps DEF Pop
<1>3. CASE UNCHANGED vars
  BY <1>3
  DEF vars, ringVars, pushVars, popVars, RingInv, TypeOK, BoundsInv, SpanInv, PassedInv, ClaimInv,
      OwnerInv, PopInv, Copying, Oldest, Span, Owning, Written
<1> QED
  BY <1>1, <1>2, <1>3 DEF Next

LEMMA RingInvHolds == Spec => []RingInv
BY RingInitEstablishes, StepKeeps, PTL DEF Spec

-----------------------------------------------------------------------------
(* A cell is written by one producer at a time, and not while the consumer *)
(* copies it out.                                                          *)
THEOREM RingCells == Spec => []CellsAreSafe
<1>1. RingInv => CellsAreSafe
  <2> SUFFICES ASSUME RingInv PROVE CellIsExclusive
    BY DEF RingInv, CellsAreSafe
  <2>1. ASSUME NEW p \in Producers, NEW q \in Producers,
               pushPc[p] = "write", pushPc[q] = "write", p # q
        PROVE  Cell(pushPos[p]) # Cell(pushPos[q])
    <3>1. Owning(p) /\ Owning(q)
      BY <2>1 DEF Owning
    <3>2. pushPos[p] # pushPos[q] /\ pushPos[p] \in Span /\ pushPos[q] \in Span
      BY <2>1, <3>1, OwnCell DEF RingInv, ClaimInv
    <3> QED
      BY <3>1, <3>2, OwnCell
  <2>2. ASSUME NEW p \in Producers, pushPc[p] = "write", popPc = "read"
        PROVE  Cell(pushPos[p]) # Cell(popPos)
    BY <2>2, OwnCell DEF Owning, Copying
  <2> QED
    BY <2>1, <2>2 DEF CellIsExclusive
<1> QED
  BY <1>1, RingInvHolds, PTL

(* A producer that finds its cell taken has gone all the way round.        *)
LEMMA FullWhenRefused ==
  ASSUME RingInv, NEW p \in Producers, SeesFull(p)
  PROVE  enqueue_pos - dequeue_pos + (IF Copying THEN 1 ELSE 0) = Capacity
<1>1. /\ pushPos[p] \in Nat /\ pushPos[p] <= enqueue_pos /\ enqueue_pos \in Nat
      /\ dequeue_pos \in Nat /\ Oldest \in Nat /\ Capacity \in Nat
      /\ enqueue_pos <= Oldest + Capacity
  <2>1. pushPos[p] \in Nat /\ pushPos[p] <= enqueue_pos
    BY DEF RingInv, TypeOK, ClaimInv
  <2> QED
    BY <2>1, RingAssumption DEF RingInv, BoundsInv, Oldest, Copying
<1>2. Cell(pushPos[p]) \in 0..(Capacity - 1)
  BY <1>1, CellsExist
<1>3. cellSequence[Cell(pushPos[p])] < pushPos[p]
  <2>1. cellSequence[Cell(pushPos[p])] \in Nat
    BY <1>2 DEF RingInv, TypeOK
  <2> QED
    BY <1>1, <2>1 DEF SeesFull, Ahead
<1>4. ~(pushPos[p] \in 0..(Oldest + Capacity - 1))
  <2>1. cellSequence[Cell(pushPos[p])] \in Nat
    BY <1>2 DEF RingInv, TypeOK
  <2> QED
    BY <1>1, <1>3, <2>1 DEF RingInv, PassedInv
<1>5. enqueue_pos = Oldest + Capacity
  BY <1>1, <1>4
<1> QED
  BY <1>1, <1>5 DEF Oldest

LEMMA RefusalsAreTrue == Spec => RefusedOnlyWhenFull
<1>1. RingInv /\ [Next]_vars =>
        [\A p \in Producers :
           refused'[p] /\ ~refused[p] =>
             enqueue_pos - dequeue_pos + (IF popPc \in {"read", "release"} THEN 1 ELSE 0)
               = Capacity]_vars
  <2> SUFFICES ASSUME RingInv, [Next]_vars, NEW p \in Producers, refused'[p], ~refused[p]
               PROVE  SeesFull(p)
    BY FullWhenRefused DEF Copying
  <2>1. CASE UNCHANGED vars
    BY <2>1 DEF vars, pushVars
  <2>2. CASE Pop
    BY <2>2
    DEF Pop, PopBegins, SeesMessage, SeesEmpty, Pops, PopFails, Reads, Releases, pushVars
  <2>3. ASSUME NEW q \in Producers, Push(q)
        PROVE  SeesFull(p)
    <3>1. CASE SeesFull(q)
      BY <3>1 DEF SeesFull, RingInv, TypeOK
    <3>2. CASE PushBegins(q)
      BY <3>2 DEF PushBegins, RingInv, TypeOK
    <3>3. CASE SeesFree(q) \/ SeesTaken(q) \/ Claims(q) \/ ClaimFails(q) \/ Writes(q) \/ Publishes(q)
      BY <3>3 DEF SeesFree, SeesTaken, Claims, ClaimFails, Writes, Publishes
    <3> QED
      BY <2>3, <3>1, <3>2, <3>3 DEF Push
  <2> QED
    BY <2>1, <2>2, <2>3 DEF Next
<1> QED
  BY <1>1, RingInvHolds, PTL DEF Spec, RefusedOnlyWhenFull

-----------------------------------------------------------------------------
(* Refinement: the places between dequeue_pos and enqueue_pos, with what    *)
(* is or will be in them, are the queue.                                    *)
Places == [message : Message, filled : BOOLEAN]
Live   == dequeue_pos..(enqueue_pos - 1)

LEMMA OwnersMessage ==
  ASSUME RingInv, NEW p \in Producers, Owning(p)
  PROVE  MessageAt(pushPos[p]) = [from |-> p, number |-> pushed[p]]
<1>1. ~Written(pushPos[p])
  BY DEF RingInv, ClaimInv
<1>2. \A q \in Producers : Owning(q) /\ pushPos[q] = pushPos[p] <=> q = p
  BY DEF RingInv, ClaimInv
<1>3. (CHOOSE q \in Producers : Owning(q) /\ pushPos[q] = pushPos[p]) = p
  BY <1>2
<1> QED
  BY <1>1, <1>3 DEF MessageAt, Owning

LEMMA MessagesAreMessages ==
  ASSUME RingInv, NEW pos \in Live
  PROVE  MessageAt(pos) \in Message
<1>1. CASE Written(pos)
  BY <1>1 DEF RingInv, OwnerInv, MessageAt, Live
<1>2. CASE ~Written(pos)
  <2>1. PICK p \in Producers : Owning(p) /\ pushPos[p] = pos
    BY <1>2 DEF RingInv, OwnerInv, Live
  <2>2. MessageAt(pos) = [from |-> p, number |-> pushed[p]] /\ pushed[p] \in 1..MaxPush
    BY <2>1, OwnersMessage DEF RingInv, ClaimInv
  <2> QED
    BY <2>2 DEF Message
<1> QED
  BY <1>1, <1>2

OwnersMessages ==
  \A p \in Producers : Owning(p) => MessageAt(pushPos[p]) = [from |-> p, number |-> pushed[p]]

QueueIsASequence ==
  /\ PlacesTaken \in Seq(Places) /\ Len(PlacesTaken) = enqueue_pos - dequeue_pos
  /\ enqueue_pos - dequeue_pos \in Nat /\ enqueue_pos \in Nat /\ dequeue_pos \in Nat
  /\ \A pos \in Live : /\ pos \in Nat /\ pos - dequeue_pos + 1 \in 1..(enqueue_pos - dequeue_pos)
                       /\ PlacesTaken[pos - dequeue_pos + 1] = PlaceAt(pos)
  /\ \A i \in 1..(enqueue_pos - dequeue_pos) : \E pos \in Live : i = pos - dequeue_pos + 1

LEMMA QueueHolds ==
  ASSUME RingInv
  PROVE  QueueIsASequence
<1> DEFINE n == enqueue_pos - dequeue_pos
<1>1. n \in Nat /\ enqueue_pos \in Nat /\ dequeue_pos \in Nat
  BY DEF RingInv, BoundsInv
<1>2. \A pos \in Live : pos \in Nat /\ pos - dequeue_pos + 1 \in 1..n
  BY <1>1 DEF Live
<1>3. \A i \in 1..n : dequeue_pos + i - 1 \in Live
  BY <1>1 DEF Live
<1>4. \A i \in 1..n : \E pos \in Live : i = pos - dequeue_pos + 1
  <2> TAKE i \in 1..n
  <2>1. dequeue_pos + i - 1 \in Live /\ i = (dequeue_pos + i - 1) - dequeue_pos + 1
    BY <1>1, <1>3
  <2> QED
    BY <2>1
<1>5. PlacesTaken \in [1..n -> Places]
  BY <1>3, MessagesAreMessages DEF PlacesTaken, PlaceAt, Places, Written
<1>6. ASSUME NEW pos \in Live
      PROVE  PlacesTaken[pos - dequeue_pos + 1] = PlaceAt(pos)
  <2>1. dequeue_pos + (pos - dequeue_pos + 1) - 1 = pos /\ pos - dequeue_pos + 1 \in 1..n
    BY <1>1, <1>2
  <2> QED
    BY <2>1 DEF PlacesTaken
<1> QED
  BY <1>1, <1>2, <1>4, <1>5, <1>6 DEF QueueIsASequence

(* The same in the state a step leads to. *)
LEMMA QueueHoldsAfter == RingInv' => OwnersMessages' /\ QueueIsASequence'
<1>1. RingInv => OwnersMessages /\ QueueIsASequence
  BY OwnersMessage, QueueHolds DEF OwnersMessages
<1> QED
  BY <1>1, PTL

(* A place stays as it is while its cell stays written or not, and what is *)
(* written there, or the producer that is to write it, is the same.        *)
LEMMA PlaceIsKept ==
  ASSUME RingInv, RingInv', NEW pos \in Live,
         Written(pos)' <=> Written(pos),
         Written(pos) => data'[Cell(pos)] = data[Cell(pos)],
         \A q \in Producers : Owning(q) /\ pushPos[q] = pos =>
           Owning(q)' /\ pushPos'[q] = pos /\ pushed'[q] = pushed[q]
  PROVE  PlaceAt(pos)' = PlaceAt(pos)
<1>1. MessageAt(pos)' = MessageAt(pos)
  <2>1. CASE Written(pos)
    <3>1. MessageAt(pos) = data[Cell(pos)]
      BY <2>1 DEF MessageAt
    <3>2. MessageAt(pos)' = data'[Cell(pos)]
      BY <2>1 DEF MessageAt
    <3> QED
      BY <2>1, <3>1, <3>2
  <2>2. CASE ~Written(pos)
    <3>1. PICK q \in Producers : Owning(q) /\ pushPos[q] = pos
      BY <2>2 DEF RingInv, OwnerInv, Live
    <3>2. Owning(q)' /\ pushPos'[q] = pos /\ pushed'[q] = pushed[q]
      BY <3>1
    <3>3. MessageAt(pushPos[q]) = [from |-> q, number |-> pushed[q]]
      BY <3>1, OwnersMessage
    <3>4. MessageAt(pushPos[q])' = [from |-> q, number |-> pushed'[q]]
      BY <3>2, QueueHoldsAfter DEF OwnersMessages
    <3>5. MessageAt(pushPos[q])' = MessageAt(pos)'
      BY <3>2 DEF MessageAt, Written
    <3>6. MessageAt(pushPos[q]) = MessageAt(pos)
      BY <3>1
    <3> QED
      BY <3>2, <3>3, <3>4, <3>5, <3>6
  <2> QED
    BY <2>1, <2>2
<1>2. Written(pos)' = Written(pos)
  BY DEF Written
<1> QED
  BY <1>1, <1>2 DEF PlaceAt

LEMMA QueueIsKept ==
  ASSUME RingInv, RingInv', UNCHANGED <<enqueue_pos, dequeue_pos>>,
         \A pos \in Live : PlaceAt(pos)' = PlaceAt(pos)
  PROVE  UNCHANGED PlacesTaken
<1> DEFINE n == enqueue_pos - dequeue_pos
<1>1. \A i \in 1..n : PlacesTaken'[i] = PlacesTaken[i]
  <2> TAKE i \in 1..n
  <2>1. PICK pos \in Live : i = pos - dequeue_pos + 1
    BY QueueHolds DEF QueueIsASequence
  <2>2. PlacesTaken[i] = PlaceAt(pos)
    BY <2>1, QueueHolds DEF QueueIsASequence
  <2>3. pos \in Live' /\ i = pos - dequeue_pos' + 1
    BY <2>1 DEF Live
  <2>4. PlacesTaken'[i] = PlaceAt(pos)'
    BY <2>3, QueueHoldsAfter DEF QueueIsASequence
  <2> QED
    BY <2>2, <2>4
<1>2. PlacesTaken \in Seq(Places) /\ PlacesTaken' \in Seq(Places)
      /\ Len(PlacesTaken) = n /\ Len(PlacesTaken') = n
  BY QueueHolds, QueueHoldsAfter DEF QueueIsASequence, Places, Message
<1> QED
  BY <1>1, <1>2, SeqEqual

(* Whoever looks, or turns back, does not touch it. *)
LEMMA LookingStutters ==
  ASSUME RingInv, RingInv', NEW p \in Producers,
         PushBegins(p) \/ SeesFree(p) \/ SeesFull(p) \/ SeesTaken(p) \/ ClaimFails(p)
  PROVE  UNCHANGED Fifo!fifoVars
<1>0. UNCHANGED <<cellSequence, data, enqueue_pos, dequeue_pos, pushed, popPc, popPos, out, received>>
  BY DEF PushBegins, SeesFree, SeesFull, SeesTaken, ClaimFails, ringVars, popVars
<1>1. \A q \in Producers : q # p => pushPc'[q] = pushPc[q] /\ pushPos'[q] = pushPos[q]
  BY DEF PushBegins, SeesFree, SeesFull, SeesTaken, ClaimFails, RingInv, TypeOK
<1>2. ~Owning(p)
  BY DEF PushBegins, SeesFree, SeesFull, SeesTaken, ClaimFails, Owning
<1>3. \A pos \in Live : PlaceAt(pos)' = PlaceAt(pos)
  <2> TAKE pos \in Live
  <2>1. \A q \in Producers : Owning(q) /\ pushPos[q] = pos =>
          Owning(q)' /\ pushPos'[q] = pos /\ pushed'[q] = pushed[q]
    BY <1>0, <1>1, <1>2 DEF Owning
  <2>2. Written(pos)' <=> Written(pos)
    BY <1>0 DEF Written
  <2> QED
    BY <1>0, <2>1, <2>2, PlaceIsKept
<1> QED
  BY <1>0, <1>3, QueueIsKept DEF Fifo!fifoVars, CopiedOut

LEMMA ClaimTakesPlace ==
  ASSUME RingInv, RingInv', NEW p \in Producers, Claims(p)
  PROVE  Fifo!TakePlace(p)
<1>0. /\ UNCHANGED <<cellSequence, data, dequeue_pos, pushPos, refused, popPc, popPos, out, received>>
      /\ enqueue_pos' = enqueue_pos + 1 /\ pushPos[p] = enqueue_pos /\ pushPc[p] = "claim"
      /\ pushPc' = [pushPc EXCEPT ![p] = "write"] /\ pushed' = [pushed EXCEPT ![p] = @ + 1]
  BY DEF Claims, popVars
<1>1. pushed[p] < MaxPush /\ UNCHANGED <<CopiedOut, received>>
  BY <1>0 DEF RingInv, ClaimInv, CopiedOut
<1>2. Len(PlacesTaken) + Len(CopiedOut) < Capacity
  <2>1. Len(CopiedOut) = IF Copying THEN 1 ELSE 0
    BY DEF CopiedOut, Copying
  <2>2. enqueue_pos < Oldest + Capacity /\ Capacity \in Nat
    BY ClaimsFindsRoom, RingAssumption
  <2> QED
    BY <2>1, <2>2, QueueHolds DEF Oldest, QueueIsASequence
<1> DEFINE taken == [message |-> [from |-> p, number |-> pushed[p] + 1], filled |-> FALSE]
           n == enqueue_pos - dequeue_pos
<1>3. PlacesTaken' = Append(PlacesTaken, taken)
  <2>1. n \in Nat /\ PlacesTaken \in Seq(Places) /\ Len(PlacesTaken) = n
        /\ enqueue_pos \in Nat /\ dequeue_pos \in Nat
    BY QueueHolds DEF QueueIsASequence
  <2>2. enqueue_pos' - dequeue_pos' = n + 1 /\ Live' = dequeue_pos..enqueue_pos
    BY <1>0, <2>1 DEF Live
  <2>3. PlacesTaken' \in Seq(Places) /\ Len(PlacesTaken') = n + 1
    BY <2>2, <1>0, QueueHoldsAfter DEF QueueIsASequence, Places, Message
  <2>4. taken \in Places
    <3>1. pushed[p] + 1 \in 1..MaxPush
      BY <1>1, RingAssumption DEF RingInv, TypeOK
    <3> QED
      BY <3>1 DEF Places, Message
  <2>5. ASSUME NEW i \in 1..n
        PROVE  PlacesTaken'[i] = PlacesTaken[i]
    <3>1. PICK pos \in Live : i = pos - dequeue_pos + 1
      BY QueueHolds DEF QueueIsASequence
    <3>2. PlacesTaken[i] = PlaceAt(pos)
      BY <3>1, QueueHolds DEF QueueIsASequence
    <3>3. pos \in Live' /\ pos # enqueue_pos /\ i = pos - dequeue_pos' + 1
      BY <1>0, <2>1, <2>2, <3>1 DEF Live
    <3>4. PlacesTaken'[i] = PlaceAt(pos)'
      BY <3>3, QueueHoldsAfter DEF QueueIsASequence
    <3>5. Written(pos)' <=> Written(pos)
      BY <1>0 DEF Written
    <3>6. \A q \in Producers : Owning(q) /\ pushPos[q] = pos =>
            Owning(q)' /\ pushPos'[q] = pos /\ pushed'[q] = pushed[q]
      BY <1>0, <3>3 DEF Owning, RingInv, TypeOK
    <3> QED
      BY <1>0, <3>2, <3>4, <3>5, <3>6, PlaceIsKept
  <2>6. PlacesTaken'[n + 1] = taken
    <3>1. enqueue_pos \in Live' /\ enqueue_pos - dequeue_pos' + 1 = n + 1
      BY <1>0, <2>1, <2>2
    <3>2. PICK pos \in Live' : pos = enqueue_pos
      BY <3>1
    <3>3. PlacesTaken'[n + 1] = PlaceAt(pos)'
      BY <3>1, <3>2, QueueHoldsAfter DEF QueueIsASequence
    <3>4. Owning(p)' /\ pushPos'[p] = pos /\ pushed'[p] = pushed[p] + 1
      BY <1>0, <3>2 DEF Owning, RingInv, TypeOK
    <3>5. MessageAt(pushPos[p])' = [from |-> p, number |-> pushed[p] + 1]
      BY <3>4, QueueHoldsAfter DEF OwnersMessages
    <3>6. ~Written(pushPos[p])'
      BY <3>4 DEF RingInv, ClaimInv
    <3>7. PlaceAt(pos)' = taken
      BY <3>4, <3>5, <3>6 DEF PlaceAt, Written, MessageAt
    <3> QED
      BY <3>3, <3>7
  <2> HIDE DEF taken, n
  <2>7. /\ Append(PlacesTaken, taken) \in Seq(Places) /\ Len(Append(PlacesTaken, taken)) = n + 1
        /\ \A i \in 1..n : Append(PlacesTaken, taken)[i] = PlacesTaken[i]
        /\ Append(PlacesTaken, taken)[n + 1] = taken
    BY <2>1, <2>4, AppendProperties
  <2>8. \A i \in 1..(n + 1) : PlacesTaken'[i] = Append(PlacesTaken, taken)[i]
    BY <2>1, <2>5, <2>6, <2>7
  <2> QED
    BY <2>3, <2>7, <2>8, SeqEqual
<1> QED
  BY <1>0, <1>1, <1>2, <1>3 DEF Fifo!TakePlace, Fifo!Place

(* Each access changes one cell of the span. *)
LEMMA OneCellIsWritten ==
  ASSUME RingInv, NEW p \in Producers, Writes(p), NEW pos \in Span, pos # pushPos[p]
  PROVE  data'[Cell(pos)] = data[Cell(pos)]
<1>1. Owning(p)
  BY DEF Writes, Owning
<1>2. Cell(pos) # Cell(pushPos[p])
  BY <1>1, OwnCell
<1>3. pos \in Nat
  BY RingAssumption DEF RingInv, BoundsInv, Span, Oldest, Copying
<1> QED
  BY <1>2, <1>3, CellsExist DEF Writes, RingInv, TypeOK

LEMMA OneCellIsPublished ==
  ASSUME RingInv, NEW p \in Producers, Publishes(p), NEW pos \in Span, pos # pushPos[p]
  PROVE  cellSequence'[Cell(pos)] = cellSequence[Cell(pos)]
<1>1. Owning(p)
  BY DEF Publishes, Owning
<1>2. Cell(pos) # Cell(pushPos[p])
  BY <1>1, OwnCell
<1>3. pos \in Nat
  BY RingAssumption DEF RingInv, BoundsInv, Span, Oldest, Copying
<1> QED
  BY <1>2, <1>3, CellsExist DEF Publishes, RingInv, TypeOK

LEMMA OneCellIsReleased ==
  ASSUME RingInv, Releases, NEW pos \in Live
  PROVE  cellSequence'[Cell(pos)] = cellSequence[Cell(pos)]
<1>1. popPos + 1 = dequeue_pos /\ Copying /\ popPos \in Nat /\ dequeue_pos \in Nat
      /\ enqueue_pos \in Nat /\ enqueue_pos <= popPos + Capacity /\ Capacity \in Nat
  BY RingAssumption DEF Releases, RingInv, BoundsInv, Copying, Oldest
<1>2. pos \in Nat /\ pos \in Span /\ popPos \in Span /\ pos # popPos
  BY <1>1, RingAssumption DEF Live, Span, Oldest
<1>3. Cell(pos) # Cell(popPos)
  BY <1>2, SpanCellsDiffer DEF RingInv
<1> QED
  BY <1>2, <1>3, CellsExist DEF Releases, RingInv, TypeOK

LEMMA WriteStutters ==
  ASSUME RingInv, RingInv', NEW p \in Producers, Writes(p)
  PROVE  UNCHANGED Fifo!fifoVars
<1>0. /\ UNCHANGED <<cellSequence, enqueue_pos, dequeue_pos, pushPos, pushed, popPc, popPos,
                     out, received>>
      /\ pushPc[p] = "write" /\ pushPc' = [pushPc EXCEPT ![p] = "publish"]
  BY DEF Writes, popVars
<1>1. Owning(p) /\ ~Written(pushPos[p])
  BY <1>0 DEF Owning, RingInv, ClaimInv
<1>2. ASSUME NEW pos \in Live
      PROVE  PlaceAt(pos)' = PlaceAt(pos)
  <2>1. \A q \in Producers : Owning(q) /\ pushPos[q] = pos =>
          Owning(q)' /\ pushPos'[q] = pos /\ pushed'[q] = pushed[q]
    BY <1>0 DEF Owning, RingInv, TypeOK
  <2>2. Written(pos)' <=> Written(pos)
    BY <1>0 DEF Written
  <2>3. Written(pos) => data'[Cell(pos)] = data[Cell(pos)]
    BY <1>1, OwnCell, OneCellIsWritten DEF Live
  <2> QED
    BY <2>1, <2>2, <2>3, PlaceIsKept
<1>3. UNCHANGED CopiedOut
  <2>1. Copying => data'[Cell(popPos)] = data[Cell(popPos)]
    BY <1>1, OwnCell, OneCellIsWritten
  <2> QED
    BY <1>0, <2>1 DEF CopiedOut, Copying
<1> QED
  BY <1>0, <1>2, <1>3, QueueIsKept DEF Fifo!fifoVars

LEMMA PublishFillsPlace ==
  ASSUME RingInv, RingInv', NEW p \in Producers, Publishes(p)
  PROVE  Fifo!FillPlace(p)
<1>0. /\ UNCHANGED <<data, enqueue_pos, dequeue_pos, pushPos, pushed, popPc, popPos, out, received>>
      /\ pushPc[p] = "publish" /\ pushPc' = [pushPc EXCEPT ![p] = "idle"]
      /\ cellSequence' = [cellSequence EXCEPT ![Cell(pushPos[p])] = pushPos[p] + 1]
  BY DEF Publishes, popVars
<1> DEFINE n == enqueue_pos - dequeue_pos
           own == pushPos[p]
           k == own - dequeue_pos + 1
           message == [from |-> p, number |-> pushed[p]]
           filled == [message |-> message, filled |-> TRUE]
<1>1. Owning(p) /\ ~Written(own) /\ own \in Live /\ data[Cell(own)] = message /\ message \in Message
  <2>1. Owning(p)
    BY <1>0 DEF Owning
  <2>2. ~Written(own) /\ own \in Live /\ data[Cell(own)] = message /\ pushed[p] \in 1..MaxPush
    BY <1>0, <2>1 DEF RingInv, ClaimInv, Live
  <2> QED
    BY <2>1, <2>2 DEF Message
<1>2. k \in 1..n /\ PlacesTaken[k] = PlaceAt(own) /\ PlacesTaken \in Seq(Places)
      /\ Len(PlacesTaken) = n /\ dequeue_pos \in Nat /\ own \in Nat /\ n \in Nat
  BY <1>1, QueueHolds DEF QueueIsASequence
<1>3. PlaceAt(own) = [message |-> message, filled |-> FALSE]
  BY <1>1, OwnersMessage DEF PlaceAt, Written
<1>4. Written(own)'
  <2>1. Cell(own) \in 0..(Capacity - 1)
    BY <1>2, CellsExist
  <2> QED
    BY <1>0, <2>1 DEF Written, RingInv, TypeOK
<1>5. PlaceAt(own)' = filled
  BY <1>0, <1>1, <1>4 DEF PlaceAt, MessageAt, Written
<1>6. ASSUME NEW i \in 1..n, i # k
      PROVE  PlacesTaken'[i] = PlacesTaken[i]
  <2>1. PICK pos \in Live : i = pos - dequeue_pos + 1
    BY QueueHolds DEF QueueIsASequence
  <2>2. PlacesTaken[i] = PlaceAt(pos) /\ pos # own
    BY <1>6, <2>1, QueueHolds DEF QueueIsASequence
  <2>3. pos \in Live' /\ i = pos - dequeue_pos' + 1
    BY <1>0, <2>1 DEF Live
  <2>4. PlacesTaken'[i] = PlaceAt(pos)'
    BY <2>3, QueueHoldsAfter DEF QueueIsASequence
  <2>5. Written(pos)' <=> Written(pos)
    BY <1>1, <2>2, OwnCell, OneCellIsPublished DEF Live, Written
  <2>6. \A q \in Producers : Owning(q) /\ pushPos[q] = pos =>
          Owning(q)' /\ pushPos'[q] = pos /\ pushed'[q] = pushed[q]
    BY <1>0, <2>2 DEF Owning, RingInv, TypeOK
  <2> QED
    BY <1>0, <2>2, <2>4, <2>5, <2>6, PlaceIsKept
<1>7. PlacesTaken'[k] = filled
  <2>1. PICK pos \in Live : pos = own
    BY <1>1
  <2>2. pos \in Live' /\ k = pos - dequeue_pos' + 1
    BY <1>0, <2>1 DEF Live
  <2>3. PlacesTaken'[k] = PlaceAt(pos)'
    BY <2>2, QueueHoldsAfter DEF QueueIsASequence
  <2>4. PlaceAt(pos)' = PlaceAt(own)'
    BY <1>0, <2>1 DEF PlaceAt, MessageAt, Written
  <2> QED
    BY <1>5, <2>3, <2>4
<1>8. PlacesTaken' = [PlacesTaken EXCEPT ![k] = filled]
  <2>1. PlacesTaken' \in Seq(Places) /\ Len(PlacesTaken') = n
    BY <1>0, QueueHoldsAfter DEF QueueIsASequence, Places, Message
  <2>2. filled \in Places
    BY <1>1 DEF Places
  <2> HIDE DEF n, k, filled
  <2>3. /\ [PlacesTaken EXCEPT ![k] = filled] \in Seq(Places)
        /\ Len([PlacesTaken EXCEPT ![k] = filled]) = n
        /\ \A i \in 1..n : [PlacesTaken EXCEPT ![k] = filled][i] = IF i = k THEN filled ELSE PlacesTaken[i]
    BY <1>2, <2>2, ExceptSeq
  <2> QED
    BY <1>6, <1>7, <2>1, <2>3, SeqEqual
<1>9. UNCHANGED <<CopiedOut, pushed, received>>
  BY <1>0 DEF CopiedOut
<1>10. /\ k \in 1..Len(PlacesTaken) /\ PlacesTaken[k].filled = FALSE
       /\ PlacesTaken[k].message = message /\ message.from = p
  BY <1>2, <1>3
<1>11. filled = Fifo!Place(PlacesTaken[k].message, TRUE)
  BY <1>10 DEF Fifo!Place
<1> HIDE DEF n, k, message, filled
<1> QED
  BY <1>8, <1>9, <1>10, <1>11 DEF Fifo!FillPlace

LEMMA PopLookingStutters ==
  ASSUME RingInv, RingInv', PopBegins \/ SeesMessage \/ SeesEmpty \/ PopFails \/ Reads
  PROVE  UNCHANGED Fifo!fifoVars
<1>0. UNCHANGED <<cellSequence, data, enqueue_pos, dequeue_pos, pushPc, pushPos, pushed, received>>
  BY DEF PopBegins, SeesMessage, SeesEmpty, PopFails, Reads, ringVars, pushVars
<1>1. UNCHANGED PlacesTaken
  BY <1>0 DEF PlacesTaken, PlaceAt, MessageAt, Written
<1>2. UNCHANGED CopiedOut
  BY DEF PopBegins, SeesMessage, SeesEmpty, PopFails, Reads, ringVars, CopiedOut
<1> QED
  BY <1>0, <1>1, <1>2 DEF Fifo!fifoVars

LEMMA PopRemoves ==
  ASSUME RingInv, RingInv', Pops
  PROVE  Fifo!Remove
<1>0. /\ UNCHANGED <<cellSequence, data, enqueue_pos, pushPc, pushPos, pushed, popPos, received>>
      /\ popPc = "claim" /\ popPc' = "read" /\ popPos = dequeue_pos
      /\ dequeue_pos' = dequeue_pos + 1
  BY DEF Pops, pushVars
<1> DEFINE n == enqueue_pos - dequeue_pos
<1>1. /\ n \in Nat /\ PlacesTaken \in Seq(Places) /\ Len(PlacesTaken) = n
      /\ enqueue_pos \in Nat /\ dequeue_pos \in Nat
      /\ \A i \in 1..n : \E pos \in Live : i = pos - dequeue_pos + 1
      /\ \A pos \in Live : PlacesTaken[pos - dequeue_pos + 1] = PlaceAt(pos)
  BY QueueHolds DEF QueueIsASequence
<1>2. Written(dequeue_pos) /\ dequeue_pos < enqueue_pos
  <2>1. Written(dequeue_pos) /\ dequeue_pos \in Span
    BY <1>0, <1>1, RingAssumption DEF RingInv, PopInv, Span, Oldest, Copying
  <2> QED
    BY <2>1 DEF RingInv, SpanInv, Written
<1>3. /\ PlacesTaken' \in Seq(Places) /\ Len(PlacesTaken') = n - 1
      /\ Live' = (dequeue_pos + 1)..(enqueue_pos - 1)
  BY <1>0, <1>1, QueueHoldsAfter DEF QueueIsASequence, Places, Message, Live
<1>4. PlacesTaken[1] = PlaceAt(dequeue_pos) /\ PlacesTaken # <<>> /\ n >= 1
  <2>1. dequeue_pos \in Live /\ dequeue_pos - dequeue_pos + 1 = 1 /\ n >= 1
    BY <1>1, <1>2 DEF Live
  <2> QED
    BY <1>1, <2>1
<1>5. Head(PlacesTaken) = PlaceAt(dequeue_pos)
  BY <1>4
<1>6. PlaceAt(dequeue_pos) = [message |-> data[Cell(dequeue_pos)], filled |-> TRUE]
  BY <1>2 DEF PlaceAt, MessageAt, Written
<1>7. /\ Tail(PlacesTaken) \in Seq(Places) /\ Len(Tail(PlacesTaken)) = n - 1
      /\ \A i \in 1..(n - 1) : Tail(PlacesTaken)[i] = PlacesTaken[i + 1]
  <2> HIDE DEF n
  <2> QED
    BY <1>1, <1>4, HeadTailProperties
<1>8. ASSUME NEW i \in 1..(n - 1)
      PROVE  PlacesTaken'[i] = PlacesTaken[i + 1]
  <2>1. i + 1 \in 1..n
    BY <1>1
  <2>2. PICK pos \in Live : i + 1 = pos - dequeue_pos + 1
    BY <1>1, <2>1
  <2>3. PlacesTaken[i + 1] = PlaceAt(pos)
    BY <1>1, <2>2
  <2>4. pos \in Live' /\ i = pos - dequeue_pos' + 1
    BY <1>0, <1>1, <2>2 DEF Live
  <2>5. PlacesTaken'[i] = PlaceAt(pos)'
    BY <2>4, QueueHoldsAfter DEF QueueIsASequence
  <2>6. PlaceAt(pos)' = PlaceAt(pos)
    BY <1>0 DEF PlaceAt, MessageAt, Written
  <2> QED
    BY <2>3, <2>5, <2>6
<1>9. PlacesTaken' = Tail(PlacesTaken)
  <2> HIDE DEF n
  <2> QED
    BY <1>3, <1>7, <1>8, SeqEqual
<1>10. CopiedOut = <<>> /\ CopiedOut' = <<data[Cell(dequeue_pos)]>>
  BY <1>0 DEF CopiedOut
<1> QED
  BY <1>0, <1>4, <1>5, <1>6, <1>9, <1>10 DEF Fifo!Remove

LEMMA ReleaseDelivers ==
  ASSUME RingInv, RingInv', Releases
  PROVE  Fifo!Deliver
<1>0. /\ UNCHANGED <<data, enqueue_pos, dequeue_pos, pushPc, pushPos, pushed>>
      /\ popPc = "release" /\ popPc' = "idle" /\ received' = Append(received, out)
  BY DEF Releases, pushVars
<1>1. ASSUME NEW pos \in Live
      PROVE  PlaceAt(pos)' = PlaceAt(pos)
  <2>1. Written(pos)' = Written(pos)
    BY OneCellIsReleased DEF Written
  <2> QED
    BY <1>0, <2>1 DEF PlaceAt, MessageAt
<1>2. CopiedOut = <<out>> /\ CopiedOut' = <<>>
  BY <1>0 DEF CopiedOut
<1> QED
  BY <1>0, <1>1, <1>2, QueueIsKept DEF Fifo!Deliver

LEMMA StepSimulates == RingInv /\ RingInv' /\ [Next]_vars => [Fifo!FifoNext]_Fifo!fifoVars
<1> SUFFICES ASSUME RingInv, RingInv', [Next]_vars PROVE [Fifo!FifoNext]_Fifo!fifoVars
  OBVIOUS
<1>1. ASSUME NEW p \in Producers, Push(p) PROVE [Fifo!FifoNext]_Fifo!fifoVars
  BY <1>1, LookingStutters, ClaimTakesPlace, WriteStutters, PublishFillsPlace
  DEF Push, Fifo!FifoNext
<1>2. CASE Pop
  BY <1>2, PopLookingStutters, PopRemoves, ReleaseDelivers DEF Pop, Fifo!FifoNext
<1>3. CASE UNCHANGED vars
  BY <1>3
  DEF vars, ringVars, pushVars, popVars, Fifo!fifoVars, PlacesTaken, CopiedOut, PlaceAt, MessageAt,
      Written
<1> QED
  BY <1>1, <1>2, <1>3 DEF Next

(* The ring is the bounded queue it promises to be, and turns a push away  *)
(* only when it is full.                                                   *)
THEOREM RingIsAQueue == Spec => IsABoundedQueue
<1>1. Init => Fifo!FifoInit
  <2> SUFFICES ASSUME Init PROVE Fifo!FifoInit
    OBVIOUS
  <2>1. PlacesTaken = <<>> /\ CopiedOut = <<>>
    BY DEF Init, PlacesTaken, CopiedOut
  <2> QED
    BY <2>1 DEF Init, Fifo!FifoInit
<1>2. Spec => ImplementsFifo
  BY <1>1, StepSimulates, RingInvHolds, PTL DEF Spec, ImplementsFifo, Fifo!FifoSpec
<1> QED
  BY <1>2, RefusalsAreTrue DEF IsABoundedQueue
=============================================================================
