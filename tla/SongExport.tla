------------------------------ MODULE SongExport ------------------------------
(***************************************************************************)
(* Exporting the song to a file (core/audio_export.cpp and the export job  *)
(* of the C ABI).  A worker thread stops the device, borrows the engine's  *)
(* transport, renders the song through process() block by block into the   *)
(* file, gives the transport back and starts the device again.  Meanwhile  *)
(* the UI's thread may ask, cancel and edit; it may not post commands, but *)
(* what it edits is published, and publishing posts commands.              *)
(*                                                                         *)
(* Time is in blocks.  The loop region is the whole arrangement, as        *)
(* publishModel() derives it.                                              *)
(***************************************************************************)
EXTENDS Naturals, Sequences

CONSTANTS
  SongBlocks, TailBlocks,  \* the arrangement, and the two seconds after it
  ExportQueue,             \* the capacity of the command queue
  MaxPostings,             \* bound: commands posted and edits by the UI
  MaxExports               \* bound: exports started

ASSUME SongExportAssumption ==
  SongBlocks \in Nat \ {0} /\ TailBlocks \in Nat /\ ExportQueue \in Nat \ {0}

VARIABLES
  wish,       \* the model's TransportState: [loop, metronome]
  published,  \* published_loop_enabled, published_metronome
  queue,      \* the engine's commands
  playhead,   \* Transport: [playing, block, loop]
  clicks,     \* metronome_enabled_
  sounds,     \* the device runs
  job,        \* ExportJob: [state, cancel, joinable]
  stage,      \* where the worker is in exportSong
  borrowed,   \* was_running, and the transport as it was found
  renderedBlocks,
  onDisk,     \* the exported file
  faithful,   \* ghost: every block so far is the song's, at its place, unclicked
  disturbed,  \* ghost: a command was waiting, or was published, during the render
  overlooked, \* ghost: a command was refused, or is lost to a render
  postings, exports  \* ghosts

uiSide == <<wish, published, postings, exports>>
exportVars == <<wish, published, queue, playhead, clicks, sounds, job, stage, borrowed,
                renderedBlocks, onDisk, faithful, disturbed, overlooked, postings, exports>>

Switches == {"loop", "metronome"}
Total == SongBlocks + TailBlocks
Running == job.state = "running"

Stopped == [playing |-> FALSE, block |-> 0, loop |-> FALSE]
ExportInit ==
  /\ wish = [loop |-> FALSE, metronome |-> FALSE]
  /\ published = wish
  /\ queue = <<>>
  /\ playhead = Stopped
  /\ clicks = FALSE
  /\ sounds = TRUE
  /\ job = [state |-> "idle", cancel |-> FALSE, joinable |-> FALSE]
  /\ stage = "none"
  /\ borrowed = [sounds |-> FALSE, playhead |-> Stopped]
  /\ renderedBlocks = 0
  /\ onDisk = "none"
  /\ faithful = TRUE /\ disturbed = FALSE /\ overlooked = FALSE
  /\ postings = 0 /\ exports = 0

-----------------------------------------------------------------------------
(* Commands *)

\* postCommand: a full queue refuses.  to: the value of a switch.
Command(type, to) == [type |-> type, to |-> to]
Queued(commands, command) ==
  IF Len(commands) < ExportQueue THEN Append(commands, command) ELSE commands

\* The last command of some kinds, which takes back what others of them did.
Kind(q, kinds)   == {i \in DOMAIN q : q[i].type \in kinds}
LastOf(q, kinds) == q[CHOOSE i \in Kind(q, kinds) : \A j \in Kind(q, kinds) : i >= j]
After(q, kinds, now) == IF Kind(q, kinds) = {} THEN now ELSE LastOf(q, kinds).to

\* Transport::play, stop, seekFrames, setLoop, and the metronome's switch
Drained(head) ==
  [playing |-> IF Kind(queue, {"play", "stop"}) = {} THEN head.playing
               ELSE LastOf(queue, {"play", "stop"}).type = "play",
   block   |-> After(queue, {"seek"}, head.block),
   loop    |-> After(queue, {"loop"}, head.loop)]

Clicking(now) == After(queue, {"metronome"}, now)

\* A block of process(): drain, render where the playhead is, advance, wrap.
Advanced(head) ==
  IF ~head.playing THEN head
  ELSE [head EXCEPT !.block = IF head.loop /\ @ + 1 >= SongBlocks THEN 0 ELSE @ + 1]

-----------------------------------------------------------------------------
(* The UI's thread *)

Posts == postings < MaxPostings /\ postings' = postings + 1

\* Play, stop and seek; refused while a render is in flight.
postTransport(command) ==
  /\ ~Running
  /\ Posts
  /\ queue' = Queued(queue, command)
  /\ UNCHANGED <<wish, published, playhead, clicks, sounds, job, stage, borrowed, renderedBlocks,
                 onDisk, faithful, disturbed, overlooked, exports>>

\* What publishModel() has to tell the engine: the loop, then the metronome.
News(now)           == {which \in Switches : now[which] # published[which]}
Told(q, which, now) == IF which \in News(now) THEN Queued(q, Command(which, now[which])) ELSE q
Refused(q, which, now) == which \in News(now) /\ Len(q) >= ExportQueue

\* It is taken as told though the queue may have refused it.
publishModel(now) ==
  /\ wish' = now
  /\ published' = now
  /\ LET then == Told(queue, "loop", now)
     IN /\ queue' = Told(then, "metronome", now)
        /\ disturbed' = (disturbed \/ (Running /\ News(now) # {}))
        /\ overlooked' = (overlooked \/ (Running /\ News(now) # {})
                            \/ Refused(queue, "loop", now) \/ Refused(then, "metronome", now))

\* A switch of the transport bar: OB_CMD_SET_LOOP, OB_CMD_SET_METRONOME.
flipSwitch(which) ==
  /\ ~Running
  /\ Posts
  /\ publishModel([wish EXCEPT ![which] = ~@])
  /\ UNCHANGED <<playhead, clicks, sounds, job, stage, borrowed, renderedBlocks, onDisk, faithful,
                 exports>>

\* An undo or a redo of one, which a render does not keep out.
undoSwitch(which) ==
  /\ Posts
  /\ publishModel([wish EXCEPT ![which] = ~@])
  /\ UNCHANGED <<playhead, clicks, sounds, job, stage, borrowed, renderedBlocks, onDisk, faithful,
                 exports>>

export_start ==
  /\ ~Running
  /\ exports < MaxExports /\ exports' = exports + 1
  /\ job' = [state |-> "running", cancel |-> FALSE, joinable |-> TRUE]
  /\ stage' = "open"
  /\ renderedBlocks' = 0
  /\ onDisk' = "none"        \* a name that is not taken
  /\ faithful' = TRUE /\ disturbed' = FALSE
  /\ UNCHANGED <<wish, published, queue, playhead, clicks, sounds, borrowed, overlooked, postings>>

\* The first question after the end joins the worker and publishes the model.
export_status ==
  /\ ~Running /\ job.joinable
  /\ job' = [job EXCEPT !.joinable = FALSE]
  /\ publishModel(wish)
  /\ UNCHANGED <<playhead, clicks, sounds, stage, borrowed, renderedBlocks, onDisk, faithful,
                 postings, exports>>

export_cancel ==
  /\ ~job.cancel
  /\ job' = [job EXCEPT !.cancel = TRUE]
  /\ UNCHANGED <<uiSide, queue, playhead, clicks, sounds, stage, borrowed, renderedBlocks, onDisk,
                 faithful, disturbed, overlooked>>

-----------------------------------------------------------------------------
(* The device's thread *)
DeviceBlock ==
  /\ sounds
  /\ playhead' = Advanced(Drained(playhead))
  /\ playhead'.block <= Total    \* bound: the device plays no further
  /\ clicks' = Clicking(clicks)
  /\ queue' = <<>>
  /\ UNCHANGED <<uiSide, sounds, job, stage, borrowed, renderedBlocks, onDisk, faithful, disturbed,
                 overlooked>>

-----------------------------------------------------------------------------
(* The worker: exportSong *)

Reports(state) == stage' = "none" /\ job' = [job EXCEPT !.state = state]

\* AudioFileWriter::open; it may fail, and then nothing is left.
Open ==
  /\ stage = "open"
  /\ \/ stage' = "borrow" /\ onDisk' = "partial" /\ UNCHANGED job
     \/ Reports(IF job.cancel THEN "cancelled" ELSE "failed") /\ UNCHANGED onDisk
  /\ UNCHANGED <<uiSide, queue, playhead, clicks, sounds, borrowed, renderedBlocks, faithful,
                 disturbed, overlooked>>

\* Slip: the loop is left as the user has it.
KeepsTheLoop(head) == [playing |-> TRUE, block |-> 0, loop |-> head.loop]

\* setLoop, seekFrames, play
FromTheTop(head) == [playing |-> TRUE, block |-> 0, loop |-> FALSE]

Borrow ==
  /\ stage = "borrow"
  /\ borrowed' = [sounds |-> sounds, playhead |-> playhead]
  /\ sounds' = FALSE
  /\ playhead' = FromTheTop(playhead)
  /\ disturbed' = (disturbed \/ queue # <<>>)
  /\ overlooked' = (overlooked \/ queue # <<>>)
  /\ queue' = Queued(queue, Command("metronome", FALSE))
  /\ stage' = "render"
  /\ UNCHANGED <<uiSide, clicks, job, renderedBlocks, onDisk, faithful>>

\* Slip: the render is over when the playhead has come to the end.
CountsPlayhead(head) == head.block
Counted(head) == renderedBlocks + 1

\* AudioFileWriter::write, which may fail
MovesTo(onward) == stage' \in {onward, "failed"}

\* A block: the flag to cancel, process(), and the write, which may fail.
RenderBlock ==
  /\ stage = "render" /\ renderedBlocks < Total /\ ~job.cancel
  /\ LET head == Drained(playhead)
         on   == Clicking(clicks)
     IN /\ playhead' = Advanced(head)
        /\ clicks' = on
        /\ faithful' = (faithful /\ head.playing /\ head.block = renderedBlocks /\ ~on)
        /\ queue' = <<>>
        /\ MovesTo("render")
        /\ renderedBlocks' = IF stage' = "failed" THEN renderedBlocks ELSE Counted(Advanced(head))
  /\ UNCHANGED <<uiSide, sounds, job, borrowed, onDisk, disturbed, overlooked>>

Cancelled ==
  /\ stage = "render" /\ renderedBlocks < Total /\ job.cancel
  /\ stage' = "cancelled"
  /\ UNCHANGED <<uiSide, queue, playhead, clicks, sounds, job, borrowed, renderedBlocks, onDisk,
                 faithful, disturbed, overlooked>>

\* The resampler is flushed, and what it held is written.
Flush ==
  /\ stage = "render" /\ renderedBlocks >= Total
  /\ MovesTo("rendered")
  /\ UNCHANGED <<uiSide, queue, playhead, clicks, sounds, job, borrowed, renderedBlocks, onDisk,
                 faithful, disturbed, overlooked>>

PutBack(head) == [borrowed.playhead EXCEPT !.playing = FALSE]

Abandon == stage' = "ended" /\ onDisk' = "none"

\* close() patches the sizes into the header; when it fails the file goes too.
Close ==
  \/ stage' = "closed" /\ onDisk' = "whole"
  \/ Abandon

GiveBack ==
  /\ stage \in {"rendered", "failed", "cancelled"}
  /\ playhead' = PutBack(playhead)
  /\ queue' = Queued(queue, Command("silence", TRUE))
  /\ IF stage = "rendered" THEN Close ELSE Abandon
  /\ UNCHANGED <<uiSide, clicks, sounds, job, borrowed, renderedBlocks, faithful, disturbed,
                 overlooked>>

\* The device starts again, or does not.  What went wrong there is forgotten
\* when the file is whole; a failure after a cancel counts as cancelled.
RestartsDevice ==
  /\ stage \in {"closed", "ended"}
  /\ sounds' \in IF borrowed.sounds THEN BOOLEAN ELSE {sounds}
  /\ Reports(IF stage = "closed" THEN "done" ELSE IF job.cancel THEN "cancelled" ELSE "failed")
  /\ UNCHANGED <<uiSide, queue, playhead, clicks, borrowed, renderedBlocks, onDisk, faithful,
                 disturbed, overlooked>>

Works == Open \/ Borrow \/ RenderBlock \/ Cancelled \/ Flush \/ GiveBack \/ RestartsDevice

ExportNext ==
  \/ postTransport(Command("play", TRUE))
  \/ postTransport(Command("stop", TRUE))
  \/ postTransport(Command("seek", SongBlocks))
  \/ \E which \in Switches : flipSwitch(which)
  \/ \E which \in Switches : undoSwitch(which)
  \/ export_start
  \/ export_status
  \/ export_cancel
  \/ DeviceBlock
  \/ Works

\* The worker is a thread: it runs.
ExportSpec == ExportInit /\ [][ExportNext]_exportVars /\ WF_exportVars(Works)

-----------------------------------------------------------------------------
(* SincResampler: an output sample is made at every p/q input samples, from *)
(* the taps on either side of its position, once they have arrived; what no *)
(* later output can need is trimmed.                                        *)

Fresh == [origin |-> 0, received |-> 0, made |-> 0]
Centre(k, p, q) == (k * p) \div q

\* produce: how many outputs there are once so much has been received
Makes(received, taps, p, q) ==
  CHOOSE k \in 0..(received * q) : /\ Centre(k, p, q) + taps >= received
                                   /\ \A j \in 0..(k - 1) : Centre(j, p, q) + taps < received

Trimmed(r, taps, slack, p, q) ==
  LET keep == Centre(r.made, p, q) - taps
  IN IF keep > r.origin + slack THEN [r EXCEPT !.origin = keep] ELSE r

Resampled(r, frames, taps, slack, p, q) ==
  LET received == r.received + frames
      made     == Makes(received, taps, p, q)
  IN Trimmed([r EXCEPT !.received = received, !.made = IF made > @ THEN made ELSE @],
             taps, slack, p, q)

\* The input an output is made of, if it were all kept.
Window(k, taps, p, q) ==
  LET c == Centre(k, p, q) IN {i \in 0..(c + taps) : i + taps >= c + 1}

\* flush: silence enough for the window of the last real sample
Flushed(r, taps, slack, p, q) == Resampled(r, taps + 1, taps, slack, p, q)

\* exportDestination: the first of the names that is free.  At the last attempt
\* it gives up looking.
exportDestination(taken, attempts) ==
  LET free == {n \in 1..attempts : n \notin taken}
  IN IF free = {} THEN attempts ELSE CHOOSE n \in free : \A m \in free : n <= m

-----------------------------------------------------------------------------
(* audio_export.h: what is written is what the device would have played.    *)
(* A finished file is whole, and holds the song from its start to its end   *)
(* without the metronome; unless a command was waiting when the render      *)
(* began, or an edit was published while it ran.  Anything else that ends   *)
(* leaves no file.                                                          *)
FileIsTheSongUnlessDisturbed ==
  /\ job.state = "done" => onDisk = "whole" /\ (faithful \/ disturbed)
  /\ job.state \in {"cancelled", "failed"} => onDisk = "none"

(* Once the UI has joined the worker and the engine has drained its queue,  *)
(* the engine loops as the project says; unless a command was refused, or   *)
(* was drained by the render, whose end puts back what was before it.       *)
Settled == ~Running /\ ~job.joinable /\ queue = <<>>
LoopComesBackUnlessOverlooked == Settled => playhead.loop = wish.loop \/ overlooked

\* A render that is under way ends, whatever the UI does meanwhile.
ExportEnds == Running ~> ~Running

(* An export leaves a whole song in its file and the session as it found it. *)
ExportKeepsTheSong ==
  FileIsTheSongUnlessDisturbed /\ LoopComesBackUnlessOverlooked
=============================================================================
