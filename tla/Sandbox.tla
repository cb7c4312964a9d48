------------------------------- MODULE Sandbox -------------------------------
(***************************************************************************)
(* SandboxedPluginProxy and the helper process that runs its plug-in.      *)
(*                                                                         *)
(* For every block the audio thread writes the input into shared memory,   *)
(* posts a number in request, signals the helper and waits for an answer,  *)
(* at most 60 % of the block.  The helper's thread processes the request,  *)
(* posts its number in response and signals back.  A block whose answer    *)
(* does not come is silent; a request that is still unanswered one block   *)
(* later makes the proxy take the helper for dead.  The main thread then   *)
(* replaces it.                                                            *)
(*                                                                         *)
(* Blocks are their request numbers.  The helper may be slow, die, or      *)
(* refuse to start.  As in the engine's use of the proxy, configuration is *)
(* over before the first block, and a restart is asked for when the proxy  *)
(* says the helper is dead.                                                *)
(***************************************************************************)
EXTENDS Naturals

CONSTANTS
  MaxBlocks,     \* bound on the requests; below 2^32
  MaxRestarts,   \* bound on the calls of restartHost()
  MaxEditor      \* bound on the calls of openEditor() and closeEditor()

ASSUME SandboxAssumption ==
  MaxBlocks \in Nat \ {0} /\ MaxRestarts \in Nat /\ MaxEditor \in Nat

VARIABLES
  hostPc, sequence, in_flight, consecutive_misses,   \* process(), the audio thread
  dead, editor_transition, mapped,                   \* the proxy; shared_ # nullptr
  request, response, block, output, quit,            \* RuntimeShared
  to_helper, to_host,                                \* the semaphores
  helper, seen,                                      \* the helper's audio thread
  mainPc, restarts, editors,                         \* the main thread
  outcome,          \* of the last block: why it is silent, or "heard"
  everLate,         \* this helper has let a deadline pass
  forgotten,        \* launch() erased a request of the helper it had just started
  unrestored        \* a restart failed after audio had been let in again

proxyVars  == <<dead, editor_transition, mapped>>
requestVars == <<sequence, in_flight, consecutive_misses>>
sharedVars == <<request, response, block, output, quit>>
signals    == <<to_helper, to_host>>
helperVars == <<helper, seen>>
mainVars   == <<mainPc, restarts, editors>>
history    == <<everLate, forgotten, unrestored>>
sandboxVars == <<hostPc, requestVars, proxyVars, sharedVars, signals, helperVars, mainVars,
          outcome, history>>

FreshBlock == request' = 0 /\ response' = 0 /\ block' = 0 /\ output' = 0 /\ quit' = FALSE

\* configured and activated, before the first block
SandboxInit ==
  /\ hostPc = "idle" /\ sequence = 0 /\ in_flight = 0 /\ consecutive_misses = 0
  /\ dead = FALSE /\ editor_transition = FALSE /\ mapped = TRUE
  /\ request = 0 /\ response = 0 /\ block = 0 /\ output = 0 /\ quit = FALSE
  /\ to_helper = 0 /\ to_host = 0
  /\ helper = "waiting" /\ seen = 0
  /\ mainPc = "idle" /\ restarts = 0 /\ editors = 0
  /\ outcome = "none" /\ everLate = FALSE /\ forgotten = FALSE /\ unrestored = FALSE

-----------------------------------------------------------------------------
(* process(), on the audio thread. *)

Returns(how) == hostPc' = "idle" /\ outcome' = how

Usable == mapped /\ ~dead

BlockBegins ==
  /\ hostPc = "idle"
  /\ sequence < MaxBlocks
  /\ \/ editor_transition /\ Returns("editor")
     \/ ~editor_transition /\ ~Usable /\ Returns("dead")
     \/ ~editor_transition /\ Usable /\ hostPc' = "check" /\ UNCHANGED outcome
  /\ UNCHANGED <<requestVars, proxyVars, sharedVars, signals, helperVars, mainVars, history>>

\* The request given up on is still being worked on.  A slip: the next one is
\* posted whether or not it is.
NeverPending == FALSE
Pending == in_flight # 0 /\ response # in_flight

TooMany(misses) == misses >= 2

MissesAgain ==
  /\ hostPc = "check" /\ mapped
  /\ Pending
  /\ consecutive_misses' = consecutive_misses + 1
  /\ dead' = (dead \/ TooMany(consecutive_misses'))
  /\ Returns("unfinished")
  /\ UNCHANGED <<sequence, in_flight, editor_transition, mapped, sharedVars, signals,
                 helperVars, mainVars, history>>

\* The input of the next request goes into the shared block.
WritesBlock ==
  /\ hostPc = "check" /\ mapped
  /\ ~Pending
  /\ in_flight' = 0
  /\ consecutive_misses' = 0
  /\ block' = sequence + 1
  /\ hostPc' = "written"
  /\ UNCHANGED <<sequence, proxyVars, request, response, output, quit, signals, helperVars,
                 mainVars, outcome, history>>

PostsRequest ==
  /\ hostPc = "written" /\ mapped
  /\ sequence' = sequence + 1
  /\ request' = sequence'
  /\ hostPc' = "posted"
  /\ UNCHANGED <<in_flight, consecutive_misses, proxyVars, response, block, output, quit,
                 signals, helperVars, mainVars, outcome, history>>

\* A semaphore lives as long as the helper that made it.
SignalsHelper ==
  /\ hostPc = "posted"
  /\ to_helper' = IF helper = "gone" THEN to_helper ELSE to_helper + 1
  /\ hostPc' = "waiting"
  /\ UNCHANGED <<requestVars, proxyVars, sharedVars, to_host, helperVars, mainVars,
                 outcome, history>>

GivesUp(how) ==
  /\ in_flight' = sequence
  /\ consecutive_misses' = 1
  /\ Returns(how)

\* The 60 % are over, or the semaphore is no more.  A slip: the wait has no end
\* while the helper lives.
WaitsForEver ==
  /\ hostPc = "waiting"
  /\ to_host = 0 /\ helper = "gone"
  /\ GivesUp("late")
  /\ everLate' = TRUE
  /\ UNCHANGED <<sequence, proxyVars, sharedVars, signals, helperVars, mainVars, forgotten,
                 unrestored>>

TimesOut ==
  /\ hostPc = "waiting"
  /\ to_host = 0
  /\ GivesUp("late")
  /\ everLate' = TRUE
  /\ UNCHANGED <<sequence, proxyVars, sharedVars, signals, helperVars, mainVars, forgotten,
                 unrestored>>

Wakes ==
  /\ hostPc = "waiting"
  /\ to_host > 0
  /\ to_host' = to_host - 1
  /\ hostPc' = "woken"
  /\ UNCHANGED <<requestVars, proxyVars, sharedVars, to_helper, helperVars, mainVars,
                 outcome, history>>

\* A slip: any answer will do, as with a flag in place of a number.
AnyAnswer == response # 0
Answered == response = sequence

FindsNoAnswer ==
  /\ hostPc = "woken" /\ mapped
  /\ ~Answered
  /\ GivesUp("stale")
  /\ UNCHANGED <<sequence, proxyVars, sharedVars, signals, helperVars, mainVars, history>>

CopiesAnswer ==
  /\ hostPc = "woken" /\ mapped
  /\ Answered
  /\ Returns("heard")
  /\ UNCHANGED <<requestVars, proxyVars, sharedVars, signals, helperVars, mainVars, history>>

\* The shared block has been unmapped under the audio thread.
Faults ==
  /\ hostPc \in {"check", "written", "woken"}
  /\ ~mapped
  /\ hostPc' = "crashed"
  /\ UNCHANGED <<requestVars, proxyVars, sharedVars, signals, helperVars, mainVars,
                 outcome, history>>

Finishes == \/ MissesAgain \/ WritesBlock \/ PostsRequest \/ SignalsHelper \/ TimesOut
            \/ Wakes \/ FindsNoAnswer \/ CopiesAnswer \/ Faults
Host == BlockBegins \/ Finishes

-----------------------------------------------------------------------------
(* The helper process: its audio thread, and its end. *)

hostVars == <<hostPc, requestVars, proxyVars, mainVars, outcome, history>>

HelperWakes ==
  /\ helper = "waiting"
  /\ to_helper > 0
  /\ to_helper' = to_helper - 1
  /\ helper' = IF quit THEN "gone" ELSE "awake"
  /\ UNCHANGED <<hostVars, sharedVars, to_host, seen>>

\* A wake-up for a request it has seen is passed over.
PassesOver ==
  /\ helper = "awake"
  /\ request = seen
  /\ helper' = "waiting"
  /\ UNCHANGED <<hostVars, sharedVars, signals, seen>>

TakesRequest ==
  /\ helper = "awake"
  /\ request # seen
  /\ seen' = request
  /\ helper' = "processing"
  /\ UNCHANGED <<hostVars, sharedVars, signals>>

\* startProcessing() fails, at the first request only.
RefusesToStart ==
  /\ helper = "awake"
  /\ seen = 0 /\ request # seen
  /\ seen' = request
  /\ quit' = TRUE
  /\ helper' = "gone"
  /\ UNCHANGED <<hostVars, request, response, block, output, signals>>

\* plug-in's process(), from the shared block to the shared block.
Answers ==
  /\ helper = "processing"
  /\ output' = block
  /\ response' = seen
  /\ helper' = "answered"
  /\ UNCHANGED <<hostVars, request, block, quit, signals, seen>>

SignalsHost ==
  /\ helper = "answered"
  /\ to_host' = to_host + 1
  /\ helper' = "waiting"
  /\ UNCHANGED <<hostVars, sharedVars, to_helper, seen>>

HelperEnds == helper' = "gone" /\ to_helper' = 0 /\ to_host' = 0

Crashes ==
  /\ helper # "gone"
  /\ HelperEnds
  /\ UNCHANGED <<hostVars, sharedVars, seen>>

Helper == \/ HelperWakes \/ PassesOver \/ TakesRequest \/ RefusesToStart \/ Answers
          \/ SignalsHost \/ Crashes

-----------------------------------------------------------------------------
(* The main thread: restartHost() and the editor. *)

audioVars == <<hostPc, outcome>>

\* restartHost() begins with shutdown().
RestartBegins ==
  /\ mainPc = "idle"
  /\ dead
  /\ restarts < MaxRestarts
  /\ restarts' = restarts + 1
  /\ mainPc' = "shutdown"
  /\ UNCHANGED <<audioVars, requestVars, proxyVars, sharedVars, signals, helperVars, editors,
                 history>>

ShuttingDown == {"shutdown", "giving_up"}

AsksToQuit ==
  /\ mainPc \in ShuttingDown
  /\ mapped /\ ~quit
  /\ quit' = TRUE
  /\ to_helper' = IF helper = "gone" THEN to_helper ELSE to_helper + 1
  /\ UNCHANGED <<audioVars, requestVars, proxyVars, request, response, block, output, to_host,
                 helperVars, mainVars, history>>

\* waitpid(), after a kill if it is still there; then munmap().
ReapsAndUnmaps ==
  /\ mainPc \in ShuttingDown
  /\ mapped /\ quit
  /\ HelperEnds
  /\ mapped' = FALSE
  /\ UNCHANGED <<audioVars, requestVars, dead, editor_transition, sharedVars, seen, mainVars,
                 history>>

ShutdownEnds ==
  /\ mainPc \in ShuttingDown
  /\ ~mapped
  /\ dead' = TRUE
  /\ mainPc' = IF mainPc = "shutdown" THEN "launch" ELSE "idle"
  /\ UNCHANGED <<audioVars, requestVars, editor_transition, mapped, sharedVars, signals,
                 helperVars, restarts, editors, history>>

\* launch(): a new block, a new helper, which may not get ready.  Starting a
\* process outlasts the callback that may still have been under way.
CallbackIsOver == hostPc = "idle"

Launches ==
  /\ mainPc = "launch"
  /\ CallbackIsOver
  /\ mapped' = TRUE
  /\ FreshBlock
  /\ helper' = "waiting" /\ seen' = 0
  /\ to_helper' = 0 /\ to_host' = 0
  /\ everLate' = FALSE
  /\ mainPc' = "ready"
  /\ UNCHANGED <<audioVars, requestVars, dead, editor_transition, restarts, editors,
                 forgotten, unrestored>>

LaunchFails ==
  /\ mainPc \in {"launch", "ready"}
  /\ mainPc' = IF mapped THEN "giving_up" ELSE "idle"
  /\ UNCHANGED <<audioVars, requestVars, proxyVars, sharedVars, signals, helperVars, restarts,
                 editors, history>>

LetsAudioIn ==
  /\ mainPc = "ready"
  /\ dead' = FALSE
  /\ mainPc' = "misses"
  /\ UNCHANGED <<audioVars, requestVars, editor_transition, mapped, sharedVars, signals,
                 helperVars, restarts, editors, history>>

ResetsMisses ==
  /\ mainPc = "misses"
  /\ consecutive_misses' = 0
  /\ mainPc' = "in_flight"
  /\ UNCHANGED <<audioVars, sequence, in_flight, proxyVars, sharedVars, signals, helperVars,
                 restarts, editors, history>>

ResetsInFlight ==
  /\ mainPc = "in_flight"
  /\ in_flight' = 0
  /\ forgotten' = (forgotten \/ (in_flight # 0 /\ in_flight = request))
  /\ mainPc' = "restore"
  /\ UNCHANGED <<audioVars, sequence, consecutive_misses, proxyVars, sharedVars, signals,
                 helperVars, restarts, editors, everLate, unrestored>>

\* The checkpoint is loaded, or there is none; an editor that was open is reopened.
Restores ==
  /\ mainPc = "restore"
  /\ \/ mainPc' = "idle" /\ UNCHANGED editor_transition
     \/ editors > 0 /\ mainPc' = "editor" /\ editor_transition' = TRUE
  /\ UNCHANGED <<audioVars, requestVars, dead, mapped, sharedVars, signals, helperVars,
                 restarts, editors, history>>

RestoreFails ==
  /\ mainPc = "restore"
  /\ mainPc' = "giving_up"
  /\ unrestored' = TRUE
  /\ UNCHANGED <<audioVars, requestVars, proxyVars, sharedVars, signals, helperVars, restarts,
                 editors, everLate, forgotten>>

Restart == \/ RestartBegins \/ AsksToQuit \/ ReapsAndUnmaps \/ ShutdownEnds \/ Launches
           \/ LaunchFails \/ LetsAudioIn \/ ResetsMisses \/ ResetsInFlight \/ Restores
           \/ RestoreFails

\* openEditor() and closeEditor(), for as long as the helper takes to answer.
EditorBegins ==
  /\ mainPc = "idle"
  /\ editors < MaxEditor
  /\ editors' = editors + 1
  /\ editor_transition' = TRUE
  /\ mainPc' = "editor"
  /\ UNCHANGED <<audioVars, requestVars, dead, mapped, sharedVars, signals, helperVars,
                 restarts, history>>

EditorEnds ==
  /\ mainPc = "editor"
  /\ editor_transition' = FALSE
  /\ mainPc' = "idle"
  /\ UNCHANGED <<audioVars, requestVars, dead, mapped, sharedVars, signals, helperVars,
                 restarts, editors, history>>

Main == hostPc # "crashed" /\ (Restart \/ EditorBegins \/ EditorEnds)

SandboxNext == Host \/ Helper \/ Main

SandboxSpec == SandboxInit /\ [][SandboxNext]_sandboxVars

\* The audio thread goes on by itself: its wait is bounded.
SandboxFairSpec == SandboxSpec /\ WF_sandboxVars(Finishes)

-----------------------------------------------------------------------------
Numbers == 0..MaxBlocks

SandboxTypeOK ==
  /\ hostPc \in {"idle", "check", "written", "posted", "waiting", "woken", "crashed"}
  /\ sequence \in Numbers /\ in_flight \in Numbers
  /\ consecutive_misses \in 0..3
  /\ dead \in BOOLEAN /\ editor_transition \in BOOLEAN /\ mapped \in BOOLEAN
  /\ request \in Numbers /\ response \in Numbers /\ block \in Numbers /\ output \in Numbers
  /\ quit \in BOOLEAN
  /\ to_helper \in Nat /\ to_host \in Nat
  /\ helper \in {"gone", "waiting", "awake", "processing", "answered"}
  /\ seen \in Numbers
  /\ mainPc \in {"idle", "shutdown", "giving_up", "launch", "ready", "misses", "in_flight",
                 "restore", "editor"}
  /\ restarts \in 0..MaxRestarts /\ editors \in 0..MaxEditor
  /\ outcome \in {"none", "heard", "editor", "dead", "unfinished", "late", "stale"}
  /\ everLate \in BOOLEAN /\ forgotten \in BOOLEAN /\ unrestored \in BOOLEAN

\* "Never overwrite a block the helper may still be reading": what it processes is
\* the block it took, and it stays the whole time.
BlockIsExclusive == helper = "processing" => block = seen

\* It is, unless launch() erased in_flight_ after the audio thread, let in two
\* stores earlier, had already given up on a request of the new helper.
BlockIsExclusiveUnlessForgotten == forgotten \/ BlockIsExclusive

\* "A helper that answers after the host gave up must have its answer discarded":
\* what a block hears is what the plug-in made of that very block.
HearsItsOwnAnswer ==
  [][hostPc = "woken" /\ outcome' = "heard" /\ hostPc' = "idle" => output = sequence]_sandboxVars

\* "A helper that is merely late gets the same treatment for that block": a block
\* whose wait did not run out is not silent.
SilentOnlyIfLate == outcome # "stale"

\* A block is silent without its own deadline passing only after an earlier one
\* did with this helper: the answer that came late left its signal behind.
StaleOnlyAfterLate ==
  [][hostPc = "woken" /\ outcome' = "stale" /\ hostPc' = "idle" => everLate]_sandboxVars

\* The proxy takes a helper for dead only for a request it was given itself, which
\* it left unanswered past its deadline and into the next block; except while
\* launch() has let audio in but not yet forgotten the old helper's request.
KilledForItsOwnFault ==
  [][~dead /\ dead' /\ hostPc = "check" /\ hostPc' = "idle" =>
       in_flight = request \/ mainPc \in {"misses", "in_flight"}]_sandboxVars

\* The audio thread never touches an unmapped block, unless restartHost() failed
\* to restore the checkpoint and shut down with the audio thread let in.
MappedWhileUsed == hostPc = "crashed" => unrestored

\* A callback always returns, whatever becomes of the helper.
CallbackReturns == hostPc # "idle" ~> hostPc \in {"idle", "crashed"}
(* The block in shared memory has one owner, and is there while it has.    *)
BlockIsSafeUnlessForgotten ==
  SandboxTypeOK /\ BlockIsExclusiveUnlessForgotten /\ MappedWhileUsed

(* What the app hears is the answer to the block it sent, but for what a   *)
(* late answer leaves behind, and no helper is killed for the silence of   *)
(* another.                                                                *)
AnswersAreItsOwn == HearsItsOwnAnswer /\ StaleOnlyAfterLate /\ KilledForItsOwnFault
=============================================================================
