---------------------------- MODULE PluginHelper ----------------------------
(***************************************************************************)
(* The life of a sandboxed plug-in's helper process: launched by the       *)
(* proxy, creating, configuring and activating the CLAP instance, serving  *)
(* control requests on its main thread while its audio thread renders,     *)
(* and going away, on request, by a signal or because the app died.        *)
(* Sandbox.tla has the exchange of audio blocks; here a block is a token.  *)
(*                                                                         *)
(* The plug-in may fail at every step that is its own, and may hang in a   *)
(* call of the main thread or in process().  The helper does not handle    *)
(* SIGPIPE and SIGTERM: either ends it.                                    *)
(***************************************************************************)
EXTENDS Naturals

CONSTANTS MaxLaunches,   \* bound: helpers launched
          MaxCalls       \* bound: control calls of the app

VARIABLES
    app,       \* where the app's main thread is, "dead" once the app is
    child,     \* where the helper's main thread is, "gone" once the process is
    audio,     \* where the helper's audio thread is
    instance,  \* PluginInstance::State of the plug-in in the helper
    ready,     \* RuntimeShared::ready
    quitRaised,  \* RuntimeShared::quit
    posted,    \* the semaphore to the helper is signalled
    asked,     \* the control request in the socket
    answered,  \* a control response is in the socket
    hung,      \* the plug-in calls that will never return
    launches, calls

process == <<child, audio, instance>>
shared == <<ready, quitRaised, posted>>
socket == <<asked, answered>>
counts == <<launches, calls>>
childVars == <<app, process, shared, socket, hung, counts>>

Calls == {"GetParam", "SaveState", "LoadState", "MainThread", "Editor"}
None == "none"

HelperInit ==
    /\ app = "idle" /\ child = "gone" /\ audio = "gone" /\ instance = None
    /\ ready = 0 /\ quitRaised = FALSE /\ posted = FALSE
    /\ asked = None /\ answered = FALSE
    /\ hung = {} /\ launches = 0 /\ calls = 0

(* The process ends: every thread with it, whatever they were doing. *)
Ends ==
    /\ child' = "gone" /\ audio' = "gone" /\ instance' = None
    /\ hung' = {}

HelperGoes(where) == child' = where

-----------------------------------------------------------------------------
(* The app's main thread *)

Connected == child # "gone"

(* launch(): a mapping, a socket pair, a process. *)
SpawnsHelper ==
    /\ app = "idle" /\ child = "gone" /\ ready = 0 /\ launches < MaxLaunches
    /\ app' = "port" /\ launches' = launches + 1
    /\ HelperGoes("create") /\ quitRaised' = FALSE /\ posted' = FALSE
    /\ UNCHANGED <<audio, instance, ready, socket, hung, calls>>

(* The semaphores arrive, or five seconds pass: a helper that gave up      *)
(* before it sent them is waited for in full, its own words never read.    *)
GetsSemaphores ==
    /\ app = "port" /\ child \in {"sent", "serve"}
    /\ app' = "ready"
    /\ UNCHANGED <<process, shared, socket, hung, counts>>

GivesUpLaunching ==
    /\ \/ app = "port" /\ child \in {"gone", "create", "activate", "publish"}
       \/ app = "ready" /\ ready # 1
    /\ app' = "shutdown"
    /\ UNCHANGED <<process, shared, socket, hung, counts>>

FindsItReady ==
    /\ app = "ready" /\ ready = 1
    /\ app' = "idle"
    /\ UNCHANGED <<process, shared, socket, hung, counts>>

(* control(): the request goes out and the answer is waited for, however   *)
(* long it takes.                                                          *)
AsksPlugin ==
    /\ app = "idle" /\ ready = 1 /\ calls < MaxCalls
    /\ calls' = calls + 1 /\ app' = "asked"
    /\ asked' \in Calls
    /\ UNCHANGED <<process, shared, answered, hung, launches>>

GetsAnswer ==
    /\ app \in {"asked", "asked to quit"} /\ (answered \/ ~Connected)
    /\ answered' = FALSE /\ asked' = None
    /\ app' = IF app = "asked" THEN "idle" ELSE "close"
    /\ UNCHANGED <<process, shared, hung, counts>>

(* shutdown() asks first, then closes, raises quit and collects the child. *)
WantsItGone ==
    /\ app = "idle" /\ ready # 0
    /\ app' = "shutdown"
    /\ UNCHANGED <<process, shared, socket, hung, counts>>

AsksItToQuit ==
    /\ app = "shutdown"
    /\ asked' = "Shutdown" /\ app' = "asked to quit"
    /\ UNCHANGED <<process, shared, answered, hung, counts>>

Closes ==
    /\ app = "close"
    /\ quitRaised' = TRUE /\ posted' = TRUE /\ app' = "wait"
    /\ UNCHANGED <<process, ready, socket, hung, counts>>

(* Slip: the child is waited for but never signalled. *)
CollectsWithoutSignal ==
    /\ app = "wait" /\ child = "gone"
    /\ app' = "idle" /\ ready' = 0
    /\ asked' = None /\ answered' = FALSE
    /\ UNCHANGED <<process, quitRaised, posted, hung, counts>>

(* A child that has not exited by now is sent SIGTERM. *)
Collects ==
    /\ app = "wait"
    /\ Ends
    /\ app' = "idle" /\ ready' = 0
    /\ asked' = None /\ answered' = FALSE
    /\ UNCHANGED <<quitRaised, posted, counts>>

PostsBlock ==
    /\ app = "idle" /\ ready = 1 /\ ~posted /\ posted' = TRUE
    /\ UNCHANGED <<app, process, ready, quitRaised, socket, hung, counts>>

(* A hard kill: the socket is at its end from now on. *)
AppDies ==
    /\ app # "dead" /\ app' = "dead"
    /\ UNCHANGED <<process, shared, socket, hung, counts>>

-----------------------------------------------------------------------------
(* The helper's main thread *)

(* ClapPluginInstance::create gives back what it took (the plug-in, the    *)
(* entry, the library) at whichever step fails.                            *)
Creates ==
    /\ child = "create" /\ "call" \notin hung
    /\ \/ instance' = "created" /\ HelperGoes("activate") /\ UNCHANGED <<audio, ready, hung>>
       \/ ready' = 2 /\ Ends
    /\ UNCHANGED <<app, quitRaised, posted, socket, counts>>

(* configure() and activate(), each in its own state only. *)
Activates ==
    /\ child = "activate" /\ instance = "created" /\ "call" \notin hung
    /\ \/ instance' = "active" /\ HelperGoes("publish") /\ UNCHANGED <<audio, ready, hung>>
       \/ ready' = 2 /\ Ends
    /\ UNCHANGED <<app, quitRaised, posted, socket, counts>>

SendsSemaphores ==
    /\ child = "publish"
    /\ \/ HelperGoes("sent") /\ audio' = "waits" /\ UNCHANGED <<instance, ready, hung>>
       \/ ready' = 2 /\ Ends
    /\ UNCHANGED <<app, quitRaised, posted, socket, counts>>

IsReady ==
    /\ child = "sent" /\ ready' = 1 /\ HelperGoes("serve")
    /\ UNCHANGED <<app, audio, instance, quitRaised, posted, socket, hung, counts>>

(* The end of the socket without a Shutdown: the app is gone, and a        *)
(* plug-in that may hang is not waited for.                                *)
Disconnects ==
    /\ child = "serve" /\ app = "dead" /\ asked = None
    /\ Ends
    /\ UNCHANGED <<app, shared, socket, counts>>

Receives ==
    /\ child = "serve" /\ asked # None
    /\ HelperGoes(IF asked = "Shutdown" THEN "reply" ELSE "call")
    /\ UNCHANGED <<app, audio, instance, shared, socket, hung, counts>>

(* The state's bytes follow the request; an app that died between the two  *)
(* is not taken for a disconnection.                                       *)
LosesTheBytes ==
    /\ child = "call" /\ asked = "LoadState" /\ app = "dead"
    /\ HelperGoes("quit")
    /\ UNCHANGED <<app, audio, instance, shared, socket, hung, counts>>

CallReturns ==
    /\ child = "call" /\ "call" \notin hung
    /\ HelperGoes("reply")
    /\ UNCHANGED <<app, audio, instance, shared, socket, hung, counts>>

Replies ==
    /\ child = "reply"
    /\ IF app = "dead" THEN Ends /\ UNCHANGED socket
       ELSE /\ answered' = TRUE /\ asked' = None
            /\ HelperGoes(IF asked = "Shutdown" THEN "quit" ELSE "serve")
            /\ UNCHANGED <<audio, instance, hung>>
    /\ UNCHANGED <<app, shared, counts>>

RaisesQuit ==
    /\ child = "quit"
    /\ quitRaised' = TRUE /\ posted' = TRUE /\ HelperGoes("join")
    /\ UNCHANGED <<app, audio, instance, ready, socket, hung, counts>>

(* Slip: the audio thread is left to itself. *)
DetachesAudio ==
    /\ child = "join"
    /\ HelperGoes("deactivate")
    /\ UNCHANGED <<app, audio, instance, shared, socket, hung, counts>>

JoinsAudio ==
    /\ child = "join" /\ audio = "gone"
    /\ HelperGoes("deactivate")
    /\ UNCHANGED <<app, audio, instance, shared, socket, hung, counts>>

(* deactivate() is refused while processing, and does nothing unless active. *)
Deactivates ==
    /\ child = "deactivate"
    /\ instance' = IF instance = "active" THEN "configured" ELSE instance
    /\ HelperGoes("destroy")
    /\ UNCHANGED <<app, audio, shared, socket, hung, counts>>

Destroys ==
    /\ child = "destroy" /\ Ends
    /\ UNCHANGED <<app, shared, socket, counts>>

-----------------------------------------------------------------------------
(* The helper's audio thread *)

AudioGoes(where) == audio' = where

(* It starts processing with the first block and stops when it leaves. *)
TakesBlock ==
    /\ audio = "waits" /\ posted /\ posted' = FALSE
    /\ IF quitRaised
       THEN /\ AudioGoes("gone")
            /\ instance' = IF instance = "processing" THEN "active" ELSE instance
            /\ UNCHANGED quitRaised
       ELSE \/ /\ instance \in {"active", "processing"} /\ instance' = "processing"
               /\ AudioGoes("process") /\ UNCHANGED quitRaised
            \/ /\ instance = "active" /\ UNCHANGED instance
               /\ quitRaised' = TRUE /\ AudioGoes("gone")
    /\ UNCHANGED <<app, child, ready, socket, hung, counts>>

(* A quit raised while a block was rendered is seen before the next wait. *)
AnswersBlock ==
    /\ audio = "process" /\ "process" \notin hung
    /\ IF quitRaised THEN AudioGoes("gone") /\ instance' = "active"
               ELSE AudioGoes("waits") /\ UNCHANGED instance
    /\ UNCHANGED <<app, child, shared, socket, hung, counts>>

(* The plug-in's own misbehaviour. *)
Hangs ==
    /\ \/ child \in {"create", "activate", "call"} /\ hung' = hung \cup {"call"}
       \/ audio = "process" /\ hung' = hung \cup {"process"}
    /\ UNCHANGED <<app, process, shared, socket, counts>>

CrashesHelper ==
    /\ child # "gone" /\ Ends
    /\ UNCHANGED <<app, shared, socket, counts>>

-----------------------------------------------------------------------------
AppStep == GetsSemaphores \/ GivesUpLaunching \/ FindsItReady \/ GetsAnswer
           \/ AsksItToQuit \/ Closes \/ Collects
HelperStep == Creates \/ Activates \/ SendsSemaphores \/ IsReady \/ Disconnects \/ Receives
              \/ LosesTheBytes \/ CallReturns \/ Replies \/ RaisesQuit \/ JoinsAudio
              \/ Deactivates \/ Destroys
AudioStep == TakesBlock \/ AnswersBlock

HelperNext ==
    \/ AppStep \/ HelperStep \/ AudioStep
    \/ SpawnsHelper \/ AsksPlugin \/ WantsItGone \/ PostsBlock
    \/ AppDies \/ Hangs \/ CrashesHelper

(* Threads that can run do, and the five seconds of a launch pass; the app *)
(* need not ask for anything and nothing need go wrong.                    *)
HelperSpec ==
    /\ HelperInit /\ [][HelperNext]_childVars
    /\ WF_childVars(AppStep) /\ WF_childVars(HelperStep) /\ WF_childVars(AudioStep)

-----------------------------------------------------------------------------
(* The plug-in is taken down by a thread that has it to itself, from the   *)
(* state its contract asks for: no block is being rendered once it is      *)
(* deactivated, and it is inactive when destroyed.                         *)
TornDownInOrder ==
    /\ child \in {"deactivate", "destroy"} => audio = "gone"
    /\ child = "destroy" => instance = "configured"

(* Whatever the app's main thread waits for, a launch, an answer or the    *)
(* end of a helper, it comes back to it, even when the plug-in hangs while *)
(* rendering: only a plug-in that hangs in a main-thread call keeps it.    *)
AppComesBackUnlessHung ==
    app # "idle" ~> app \in {"idle", "dead"} \/ "call" \in hung
=============================================================================
