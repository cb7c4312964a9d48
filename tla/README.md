# OneBeat in TLA+

A specification of the concurrent and stateful core of OneBeat, a digital audio workstation: a C++20
engine under `src/engine/` behind a C ABI, and a Flutter application that drives it. The modules here
are read from the engine's source; every definition that stands for code is listed with its lines under
`map` in `PROJECT.json`. TLC checks small instances of the modules, and TLAPS proves the theorems of
section 5 for every value of the constants.

## 1. The system

### Threads

| Thread | Runs | Rules |
|---|---|---|
| audio | `Engine::process()` in the device's callback; an exporter's block loop takes its place while the device is stopped | never locks, allocates or waits (`docs/rt-rules.md`) |
| main (UI) | every C ABI call: edits, transport commands, publication, polling of the snapshot | may block |
| housekeeping | `Engine::housekeepingLoop()`: drains logs and events, loads samples, builds mixer graphs, collects retired objects, every 20 ms | may block |
| export worker, scanner worker | one export, one scan | may block, cancelled by a flag |
| device listeners | CoreAudio property callbacks: close, reopen and reconfigure | any thread of the system's |
| helper process | a sandboxed plug-in: a main thread for control requests, a realtime thread for blocks over shared memory | may die or hang |

### Parts, their state and what makes each correct

| Part (source, relative to `src/engine/src/`) | State | Operations | Correct when |
|---|---|---|---|
| Published objects, `core/rt/publisher.h` | `current_`, `rt_epoch_`, `generation_`, `retired_` | `beginBlock`, `acquire`, `publish`, `collect`, destructor | nothing a block holds is freed; each object is freed exactly once |
| Render cycle, `core/engine.cpp` | `render_seq_`, `running_`, the device | `start`, `stop`, `process`, housekeeping pass | "nothing renders" is concluded only when it is true of what is freed; what is replaced is reclaimed |
| Rings, `core/rt/mpsc_ring.h` | cells with sequence numbers, two positions | `tryPush`, `tryPop` | a bounded queue: nothing lost, doubled or reordered per producer |
| Snapshot slot, `core/engine.{h,cpp}` | `sequence_`, `words_` | `write`, `read` | a reader sees one snapshot, never an older one than it must |
| Rack synchronisation, `core/engine.cpp` | per channel: gates, hash, sampler, `deferred_audio_start` | `setChannels`, `applyChannelSync`, `renderChannel`'s gates | a clip is heard with its own file; the channels end as the newest rack says |
| Playback, `core/engine.cpp`, `core/transport.h` | transport, schedule, resets, voices, command queue | `process` chunk by chunk, `publishSchedule`, commands | no note hangs; a stop is silent; the loop is never left |
| Sampler, `core/sampler.cpp`, `plugin/builtin/sampler_plugin.cpp` | voices, queued notes, clip window | note on and off, steal, all notes off, render | what sounds is held; a stolen voice starts its successor |
| Stock instruments, `../stock_plugins/` | voices | note on and off, steal, render | what is held is wanted; a chord keeps its voices |
| Mixer, `core/mixer_graph.cpp`, `core/engine.cpp` | tracks, chains, order, levels, knobs | `finalise`, `setMixer`, `applyMixerSync`, `renderMixer` | the graph rendered is the project's; knobs are heard as they stand; inputs come first |
| Devices, `audio_io/coreaudio/`, `core/engine.cpp` | the open stream, the rates of all voices | listeners, reopen, start and stop, swap of a voice | nothing is reconfigured under a block; in the end all rates are the device's |
| Model to engine, `abi/onebeat_abi.cpp` | dirty flag, preview, what was last posted | `publishModel`, previews, selections, undo, new and opened projects | the schedule and the transport are the document's |
| Sandboxed plug-ins, `plugin/sandbox/` | shared block, two semaphores, misses, `dead_`, socket, process | `process`, `launch`, `shutdown`, `restart`, control calls, the helper's loops | a block is never overwritten while read; an answer is for its block; the application comes back from every wait |
| Hosted instruments, `abi/onebeat_abi.cpp`, `core/engine.cpp` | slots, voices, pending settings, sidecars | `syncHostedInstruments`, replace, restart, save, open | a channel sounds through its instrument's plug-in, with its settings |
| Command history, `model/command.*` | undo and redo stacks, open transactions | `execute`, `undo`, `redo`, `begin`/`commit`/`abort`, `seal` | undo and redo lead exactly back and forth, and never get stuck |
| Project model, `model/project.cpp`, `commands.cpp` | entities and their references | create, edit, delete with cascades, restore | no reference dangles; a delete's inverse restores everything; clips that fit their pattern follow it |
| Audio clips, `model/commands.cpp`, `abi/onebeat_abi.cpp` | window, stretch mode, length | trim, resize, split, stretch, tempo | a cut is not heard; a stretched clip's window is pinned |
| Note edits, flattener, `model/note_*`, `model/flattener.cpp` | sequences, schedule | note edits, `flatten` | a note is heard where and as long as it is written |
| Project files, `model/project_io.cpp` | document, residue, bundle, staging directory | `loadProject`, `saveProject` | what is loaded is consistent; what was not understood survives; a crash leaves a whole bundle |
| Scanner and cache, `plugin/scan/` | queue, rows, cache file | scan, retry, cancel, probe, commit | the list is true of the disk; what crashed stays quarantined |
| Export, `core/audio_export.cpp` | job, borrowed transport, output file | `exportSong`, cancel | the file is the song; the session is as it was |
| Playlist (application), `playlist_store.dart` | the rows as last refreshed | drag a lane, as a series of reorder calls | no two lanes share a place |
| Effects, time stretching, diagnostics, the rest of the application, build tools | | | outside these specifications, see section 7 |

### How they interact

* main to audio: commands and parameters through rings; schedules, mixer graphs and samples through
  publishers; gates, levels and resets through atomics.
* main to housekeeping: the list of channels and the description of the mixer, under a mutex, newest wins.
* housekeeping to audio: decoded samples (publisher), `sample_ready` gates, mixer graphs; housekeeping
  frees what the audio thread no longer uses.
* audio to main: the snapshot slot, the event ring.
* engine to helper: one shared memory block, one semaphore each way, one socket for control requests.
* device listeners to engine: notices of a format change, on which every voice is reconfigured.
* export worker to engine: the audio thread's part, with the transport borrowed from the UI.

Hard behaviours: publication against a block that starts or ends at that moment; reclamation while
devices start and stop; edits that arrive while the housekeeping thread still works on older ones;
resets and commands spent on the schedule they were not meant for; late answers of a helper against
its restart; undo inside an open gesture; releases that find no voice; a crash between two steps of a
save. `hazards` in `PROJECT.json` lists each at its line.

## 2. Modules

| Module | Models | Checked in |
|---|---|---|
| `Publisher` | `rt::NonRealtimeMutable` | `hand_over`, `HandOverProofs` |
| `EngineReclaim` (extends `Publisher`) | `render_seq_`, `start`, `stop`, the offline driver and the end of the housekeeping pass, composed with the publisher of the schedule | `engine_reclaim`, `HandOverProofs` |
| `BoundedFifo` | what a ring promises (abstract) | `workers`, `WorkerProofs` |
| `MpscRing` (implements `BoundedFifo`) | `rt::MpscRing::tryPush`, `tryPop` | `workers`, `WorkerProofs` |
| `SnapshotSlot` | the sequence lock of the engine's snapshot | `hand_over`, `HandOverProofs` |
| `ChannelSync` | `setChannels`, `applyChannelSync`, the gates of `renderChannel` | `channels`, `ChannelSyncProofs` |
| `Playback` | the command drain, chunks, events, resets, schedule publication, tempo | `sound`, `SoundProofs` |
| `Sampler` | the voice allocator behind `SamplerPlugin`, stealing, the clip's window, the splitting of a block at events | `sound`, `SoundProofs` |
| `StockVoices` | a channel that hosts piano, guitar, Lowkey bass or synthesizer: the event list of a chunk, the CLAP bridge, the voices | `sound`, `SoundProofs` |
| `AudioClip` | window, stretch, trim, split and tempo of the audio clips of a lane, and what is heard of their file | `sound`, `SoundProofs` |
| `MixerGraph` | mixer edits with undo, `setMixer`, `applyMixerSync`, the parameter queue, the two acquires of a chunk, `finalise` | `hand_over`, `HandOverProofs` |
| `DeviceChange` | the CoreAudio listeners against the main thread, and what the engine reconfigures | `hand_over`, `HandOverProofs` |
| `ModelPublish` | `publishModel()` as the flattener's flag and the posted transport see it, previews, undo, projects; a block's drain takes one command per step | `hand_over`, `HandOverProofs` |
| `Sandbox` | the proxy's `process()`, `restartHost()` and editor against the helper's audio thread | `workers`, `WorkerProofs` |
| `PluginHelper` | the helper process from launch to end, its control requests, hangs, crashes and the application's death | `workers`, `WorkerProofs` |
| `SongExport` | the export worker and the UI's calls meanwhile; the resampler's window and the file's name as operators | `workers`, `WorkerProofs` |
| `Hosting` | hosted plug-ins against edits of the rack, undo, saving and opening | `document`, `DocumentProofs` |
| `NoteEdit`, `Flattener`, `Arrangement` | note edits, the flattener (operators), and the edits of an arrangement followed by flattening | `document` |
| `ProjectFile` | what the loader takes, mends and drops, the residue, and what the writer writes | `document` |
| `ProjectSave` | staging and swap of a bundle, with crash and power loss | `document`, `DocumentProofs` |
| `Scanner` | the plug-in library: scan, retry, cancel, commit, restarts of the application | `document`, `ScannerProofs` |
| `ProjectModel`, `Commands` | tables, impact reports, deletions, restorations, integrity, lengths; every command's apply, revert and coalescing (operators) | `history`, `HistoryProofs` (with `LeftFold`, what folds compute) |
| `CommandBus` (extends `Commands`) | the history, and the requests that factories and compound ABI calls make of it | `history` |
| `Playlist` (extends `CommandBus`) | a lane dragged through several calls | `history` |
| `MCHandOver`, `MCSound`, `MCDocument`, `MCWorkers` | several components in one run, one at a time | |
| other `MC*` | instances for TLC, and reference definitions of operators as `ASSUME`s | |

Components that share no state share a run: in `MCHandOver` and its like a variable `part`, chosen in the
initial state, says which component the behaviour is of, and the others stand still. The run explores the
sum of the components' states, not their product, and fairness is stated for each part separately.

### How the code appears in the modules

A variable has the name of the member it stands for, without the trailing underscore. Where the code
runs without a lock, every access to shared memory is a step of its own, and a `...Pc` variable says
where the thread is; inside a lock, or on data one thread owns, a step is a whole handler. Loops over
channels are one step per channel when other threads run in between.

**Memory order.** `Publisher` and `SnapshotSlot` do not assume sequential consistency. What an
acquire/release program may observe is modelled as a store that lands late (`landing`, `unseenTicks`,
`pending`) or a load done after a later one (`missing`), at most as late as the language's rules
allow: a read-modify-write sees its own predecessor, releasing a lock publishes what came before it.
The constants `RelaxedReader`, `RelaxedWriter`, `RelaxedStores` and `RelaxedLoads` switch
each freedom on. In the ring, the acquire and release pairs are on the cell's own sequence
number, and the steps on a cell appear in order; no freedom is needed there.

**Ghost state** records history that properties speak about; no action's guard reads it, but for the
counters that are bounds. Each is named where it is declared.

**Publisher.** `BeginBlock` is the `fetch_add` on `rt_epoch_`; `Acquire` a load of `current_`, as
often as the block likes; `Exchange`, `ReadEpoch`, `Retire` the three steps of `publish()`;
`LoadEpoch`, `TakeExpired`, `FreeDoomed` those of `collect()`: the epoch, the list under its
lock, the destructors outside it. `BlocksMayRun` and `CollectorWaits` are what
`collect(false)` requires of its caller.

**EngineReclaim.** `EnterProcess` and `LeaveProcess` are the two increments of `render_seq_`.
`StartBegins` and `StartEnds` are apart because `running_` is set only after the device has
started; likewise for stopping. `SampleRender`, `SampleRunning` and `PassCollects` are the pass: the two loads
of its decision are apart, and so is the call they lead to. `Publisher`'s own condition on callers is
not assumed here: whether the pass's decision satisfies it is the question.

**ChannelSync.** A rack is a sequence of descriptions (clip or instrument, path of its sample). The
schedule is represented by the rack it came from, which is all the gates depend on. Hashes of paths
are the paths. Whether an `AudioStart` event is due in a chunk is a free choice for a clip.

**Playback.** Notes are in beats, the transport in frames, a tempo is frames per beat; `Rescaled` is the
rounding of frames to beats and back that a tempo command performs. `Sounding` stands for the loop over
events of `renderChannel`, with note-offs before note-ons at one frame, as the flattener sorts them.
The drain takes a command at a time, since another thread may post behind it, and the newest schedule is
taken after it. Fingerprints of a channel's events are the sets of its note-ons and note-offs, by frame.
A chunk of `process()` is one step: within a block only the audio thread touches what it reads, except
`reset_requested`, which it exchanges once per chunk and channel; that the channels' exchanges of one
chunk happen at one instant is an abstraction. A note has one voice here; `Sampler` and `StockVoices` have several.

**Sampler, StockVoices.** A voice is what it plays, whether it fades, and what is queued on it. Levels are left
out: a fade or a window may end at any block, and where an instrument chooses among voices by loudness or age the choice is
free. In `StockVoices` the song's events are any that take turns for one key, as the flattener makes them; live
events go to the channel that is selected when the block begins, as `auditioned` says.

**MixerGraph.** A track's place is that of its ULID; the dense index of an effect is its place over the chains of all
tracks. `StartChunk` and `AcquireMixer` are the two acquires of a chunk, between which the housekeeping thread may swap the graph, as it may
behind the second: `MixTracks` then tells the knobs to a graph that is `"outdated"`. It takes no more turns than
`pending_effect_params_` holds. A knob is in the queue with the index it had when it was turned. The walk of `finalise()` is a fold over its stack machine.

**DeviceChange.** Each listener is where it stands in `reopenOnDefaultDevice()`; `reopening` is the atomic
exchange that keeps a second one out. What the engine does on the notice is on the listener's thread.

**ModelPublish.** The schedule is the description of what it was flattened from; `desk` is the handle's side of the publication (what was
announced, what is in the queue, whether the flattener is dirty). A posted command may be refused when the queue is full;
the UI toggles the loop from the snapshot it last read.

**Sandbox, PluginHelper.** In `Sandbox` a block is its number: the input written for it, the request, the answer. `sequence`,
`in_flight` and `consecutive_misses` are the audio thread's, but `launch()` writes the last two from the main thread, after it has
cleared `dead`, so `LetsAudioIn`, `ResetsMisses` and `ResetsInFlight` are three steps. The semaphores count. `TimesOut` may
happen whenever no signal is there: how long 60 % of a block is, the model does not know. One assumption about time is made,
`CallbackIsOver`: starting a process outlasts a callback that was under way. `restartHost()` is taken only when the
helper is dead, the one time the application calls it, though nothing in the engine insists on it. Outside macOS the proxy
is an empty shell and not modelled. `PluginHelper` takes a block for a token and follows the processes instead: the plug-in may fail in each
step that is its own and hang in either thread, the helper may be killed, and the application may die.

**SongExport.** Time is in blocks, and the loop is the arrangement. While the export runs the UI may edit, which publishes and so posts
commands; `ob_engine_post_command` itself is refused.

**Hosting.** An instrument's channel is its place in ID order. Settings stand for themselves and for their digest; they are in a voice, in
a sidecar of the bundle or in `awaiting`. Undo records the field a command changed, with its folding. Two fields of a voice are ghosts: whose it is, and whether
its project was closed since (`left`), which a new or opened project sets on all that is hosted then.

**NoteEdit, Flattener, Arrangement.** Functions over sequences, with `flatten` as the code computes it and `Written` as what is heard should
be, frame by frame; `Arrangement` has the handlers that lead from one arrangement to another. One pattern, three clips.

**ProjectFile, ProjectSave.** A file is tables of entities with references and one flag for fields nobody knows. `ProjectSave` has a tree of
folders whose files are synced, cached or torn, and a history of it that a power loss may fall back on.

**Scanner.** A bundle is a fingerprint and what it holds; the probe finds its rows, crashes or times out. The two helpers, with and without
introspection, are a choice at the start and whenever the application starts again. `pump` is two steps, because the worker may come to its end
between the look at the fresh rows and the look at its state. Bundles are numbered in the order in which their paths are sorted.

**ProjectModel, Commands.** A document is five functions from IDs to entities, and the transport. IDs are never reused, within a table or
across them, as the generator sees to. Deletion and its inverse are written once for all tables: what `Captured` keeps for a removed
entity is keyed by its ID, so the parts that do not concern its table are empty. Lengths are whole bars, and a note is the bar it
ends in: that is what the length of a pattern and the clips that follow it depend on. A command that cannot
apply leaves the document alone and says so.

**CommandBus.** Each factory of `commands.h`, and each ABI call that executes several commands, is a set of requests: the
commands and whether they are executed one by one, as one composite, or inside a transaction. `Execute` performs any of them.
A composite inside a composite is spliced into it, which is equivalent because both stop at the first failure and roll back in
reverse order. Undo and redo keep an entry they could not perform on its stack, as the code does. Aborting ignores what reverting
returns. `Load` is a new or opened project, which clears the history.

**Playlist.** `calls` holds the reorder calls a drag has yet to make; all of the application's and the engine's edits run on
one thread, so nothing comes between them, but each is an entry of the history of its own.

## 3. Runs

| Run | Question | Bounds |
|---|---|---|
| `hand_over` | Is an object freed once and never under a block, whatever the reordering? Is a snapshot whole and as new as it must be? Is the mixer rendered the project's? Does everything follow a change of device? Are schedule and transport the document's? | 3 objects, 2 publishers, 4 blocks, 2 starts; 3 words, 3 writes, 2 reads of 3 attempts; 2 tracks, 2 inserts, 5 mixer edits; 3 devices, 1 move, 2 lane edits; 4 uses of the desk, a queue of 4 |
| `engine_reclaim` | What do two even and equal samples of `render_seq_` establish, and is everything reclaimed? | 2 objects, 3 blocks, 2 starts |
| `engine_reclaim_claim` | The comment's stronger claim: a block that starts later can reach only the current schedule. Violated. | 3 objects |
| `workers` | Does the ring implement the bounded queue? Does an export leave file and session as they should be, and end? Is a helper torn down in order, and does the application come back from it? Is the shared block ever overwritten or unmapped in use, and who hears which answer? | 2 producers, 3 pushes each, 2 cells; 2 song blocks and 1 of tail, 3 postings, 2 exports; 2 launches, 2 calls; 5 blocks, 2 restarts, 1 editor |
| `channels` | Does a clip ever start with another file; does the rack settle; is a start that came too early made up for? | 2 channels, 1 good and 1 unreadable file, 2 edits |
| `sound` | When can a note hang, in the engine, the sampler and the stock instruments? Does stop silence; is the loop kept; are untouched channels left alone? Is a cut heard? | 2 channels, 2 tempos, 2 edits, 2 transport commands, a loop of 3 beats, a seek to frame 3; 2 voices, 2 keys; 4 instruments, 2 frames, 2 score events, 1 command; a file of 8 frames, 2 clips, 5 edits |
| `playback_reset_race` | The comment's claim that a voice of the replaced schedule cannot hang. Violated. | 1 channel, 1 tempo |
| `sandbox_late` | The decision record's claim that lateness costs that block only. Violated. | 4 blocks, 1 restart |
| `history` | Do references resolve, do undo and redo lead back and forth, can they stick; do clips follow, lanes keep apart? | two documents, 2 requests, 2 nested gestures, any undo, redo and sealing |
| `history_tempo` | The comments' claim that undo of a tempo change puts clip lengths back. Violated. | the same, 1 gesture |
| `document` | Is a song heard as written? Does a plug-in stay with its instrument and its settings? Is a file mended, a save kept, the list of plug-ins true? | 2 songs of 3 notes and 3 clips, 2 edits; 2 plug-ins, 2 channels, 3 deeds, 2 projects; every routing of 3 tracks, 2 deletions; 3 saves; 2 bundles, 2 changes, 3 scans |
| `stock_panic` | The claim that a wildcarded note-off releases every voice. Violated. | 4 instruments, 2 voices |

A property that a run checks may have parts: `SoundsAsScheduled` is the conjunction of `HungOnlyIfMissed`, `StopSilences`,
`PositionInsideLoop` and the type invariant, `HistoryIsSound` that of the five invariants of the history, and so on. The parts are
defined, with what each says, above the property they make up.

### Why the bounds are enough

Bounds are in guards and named where they are declared.

* Published objects: an object is at risk from its own retirement, two epochs and one collection; the
  third object lets both writers retire while the collector holds a list, and four epochs allow an object to expire
  and another to be recorded after it. The theorems drop the bounds.
* `engine_reclaim`: two starts separate a device that is starting from an offline render; a violation of
  `HeldAlive` needs three objects, so that run has three.
* Ring: with two cells and three pushes each, a position goes round the ring three times and
  a producer can be overtaken by a full turn. The positions are unbounded in the model; in the code they are 64 bits.
* Snapshot: a torn read needs two writes around one read; three writes leave one before them, two reads show an older snapshot after a newer one,
  and three attempts (six in the code) let every retry path be taken, the last one included.
* Mixer: five edits make, fill and reorder a chain and take a track away while a knob's turn is queued; a queue of two overflows, and a chunk takes one turn, so that one may outlast the graph it was meant for.
* Devices: each of the three differs from another in the rate or the block alone, so a move changes either, both or nothing. The two
  listeners and the main thread meet at every step.
* Model to engine: four uses of the desk allow an edit, a preview, an undo and a load around one another.
* `channels`: an edit can overtake the worker at each of its steps; two suffice for one rack under
  work and one behind it. A list replaces one not taken yet, so a third could only replace the second.
* Playback: a block of two frames meets a loop end inside, at its end and at its start; the queue of two overflows
  and a drain of two leaves commands behind. The theorems drop these bounds.
* Sampler and stock instruments: with two voices and two keys a third note steals, and a fourth steals the stolen one. Two events of the
  score fill the event list; a command finds it full.
* Audio clips: a window of the eight frames is cut in unequal parts at both tempos, and a part is cut, trimmed or stretched again.
* Export: a song of two blocks has a seam, and two exports leave the second what the first overlooked.
* Sandbox: five blocks are one to lose a deadline, one to find it lost, and three for a restarted helper; the second restart
  follows a first that was itself interrupted. Every step of a restart meets every step of a block. A second launch of
  `PluginHelper` finds what the first left.
* Hosting: two channels swap, an ID is never reused, and three deeds with undo, redo, save, new and open between them are a change, its
  consequence and one on top.
* Songs: the second clip lies over the first, the loop is cut inside a repetition, a note reaches over the pattern's end; two edits combine
  any two of the handlers. Definitions in `MCArrangement` check lookup, snapping and moving over ranges of inputs.
* Files: every routing of three tracks, cycles and dangling ones included, in an intact file and in a broken one, and a file of a newer version.
* Saves: a third save may find what two crashes left; every step may be the last one, with and without power.
* Scanner: two bundles, and a bundle of two plug-ins; after two changes of the disk the third scan sees rows of two older ones.
* `history`: one request is followed by any request, with undo, redo and gestures around and between: every pair of a command and
  one that may make its inverse senseless, on a document that has each kind of reference. `Arranged` has a routed instrument, a track
  that feeds a track with an effect, a grouped lane and a clip of each kind; `Sketch` has two channels in an automatic pattern. The
  constraint `OnTheLine` cuts what follows a strayed step; every property is guarded by `~strayed` or concerns a single
  request, and only `Load` leads out of it, into a state that is initial but for its counters.

### Properties that say when, not never

Many of the code's promises hold with an exception which the model names:

* `HeldAliveInOrder`: nothing a block holds is freed *unless* an exchange of `current_` became visible
  after the epoch it was recorded with. `acq_rel` on the exchange and `acquire` on the epoch permit that
  (a later load may pass an earlier store on hardware that has such reordering). Then two blocks may still load the old pointer while
  the record is already two epochs old. On x86 the locked exchange excludes it.
* `SettledIsSafe` (of `ReclaimsSafely`): an object freed under a block was retired after the pass sampled `render_seq_`.
  The converse, the comment's claim, is violated (`engine_reclaim_claim`).
* `TornOnlyIfReordered` (of `SnapshotIsSound`): a torn snapshot needs one of the two freedoms of the memory orders (relaxed
  words before a release store, relaxed words behind an acquire load). There is no fence between them in the code.
* `KnobIsHeardUnlessUnsaid`: an insert is heard as its knob stands, unless the graph was built anew since it was turned (new instances start at
  their defaults), the turn was undone, refused by the full queue, or delivered by an index of another graph or to a graph that had been replaced.
* `VoicesChangeInSilenceUnlessCrossed`, `SettlesUnlessCrossedOrMissed`: when two of the listeners and the main thread are at it together a
  voice may be reconfigured while a block renders, or the stream be left stopped or started against the engine; a move of the default
  device while no listener is registered is missed; a sampler behind a hosted voice keeps the old rate.
* `ScheduleIsShownUnlessRenewed`: a new project is not flattened until something else changes; the old song plays on.
* `TransportFollowsUnlessRefusedOrOvertaken`: what a full queue refuses is recorded as told and never sent again; the loop switch is toggled from
  the snapshot, so an edit in between or a preview turns it the wrong way.
* `ClipPlaysItsFileUnlessOvertaken`: a clip starts with another file, or the fallback tone, only when the
  newest rack overtook the housekeeping thread, which then stores an older rack's gates over it.
* `RackSettles` leaves out slot 0 under an empty rack: `applyChannelSync()` does not go back to
  it, so a gate stored late for an older rack stays there until the next edit.
* `StartsCatchUp`: a clip start that came before its file is made up for by the first block that begins after the worker
  has caught up and finds the transport rolling, not sooner, and through stops and seeks.
* `HungOnlyIfMissed`: between blocks a voice has no note-off ahead, and no release waiting, only on a channel that was
  `missed`: a block spent the channel's reset on the schedule being replaced, or a tempo command moved the playhead under
  its voices after a block had spent the reset meant for that (publish first, tempo second: onebeat_abi.cpp:735-765).
  A channel is out of that state once the newest schedule plays and those voices are released.
* `SoundsWhileHeldUnlessAdrift`: the sampler's exceptions are a note whose release came while it was queued behind a stolen voice, and one
  released at another transposition than it was struck at.
* `HeldIsWantedUnlessUnheard`: a stock instrument's exceptions are releases that followed the selection to another channel, releases that found the
  event list full, and "all notes off" on the guitar and the bass.
* `CutIsInaudibleUnlessBent`: cuts of stretched or reversed clips, and cuts behind the window's end, change what is heard.
* `StretchedIsPinnedUnlessReopened`: a trim to the file's end opens the window of a stretched clip.
* `BlockIsExclusiveUnlessForgotten`: the helper reads a block nobody overwrites *unless* `launch()` erased `in_flight_`
  (sandboxed_plugin_proxy.cpp:231) after the audio thread, let in at 229, had already given up on the new helper.
* `KilledForItsOwnFault`: likewise, between those stores a helper may be judged by its predecessor's misses.
* `MappedWhileUsed`: the block is unmapped under the audio thread only when a restart failed to restore the checkpoint and shut
  down with audio let in.
* `StaleOnlyAfterLate`: a block is silent without its own deadline passing only after an earlier one of the same helper did.
* `AppComesBackUnlessHung`: a plug-in that hangs in a main-thread call keeps the application waiting: neither the control socket nor the wait for the
  process has a deadline.
* `FileIsTheSongUnlessDisturbed`, `LoopComesBackUnlessOverlooked`: a command that waited when the render began, or was published by an edit during it, is
  played into the file and is forgotten when the borrowed transport is put back.
* `OwnVoiceUnlessLeftOver`: voices of a project that was closed stay on their channels when the new one has none for them; nothing is claimed of those voices.
* `SettingsAreKept` excepts an instrument whose replacement could not be hosted, and one whose sidecar a copy carried over.
* `HeardAsWrittenUnlessShifted`: notes that a channel's shift moves out of the pattern are dropped.
* `ReopensAsSavedUnlessLeftBehind`: something deleted that had unknown fields comes back with the next save.
* `SaveIsKeptUnlessCached`: settings carried over from the bundle before are copied without a sync and may go with the power; on Windows a crash
  between the two renames leaves the bundle under its backup's name, where nothing looks for it.
* `ListIsTrueUnlessLeftBehind`: a row is replaced by its index only, so rows of plug-ins that an update took away stay.
* The history's claims hold `UnlessStrayed`: undo and redo inside an open gesture are not refused, and an entry folded from several
  tempo changes (undo) or from tempo or note edits (redo) does not lead where it says. `UndoIsExact` shows the second.
* `FittingClipsKeepFitting` excepts a pattern without notes declared automatic, whose clips get length zero while it plays a bar
  (onebeat_abi.cpp:2515), and notes that go with their instrument, whose pattern may shrink without its clips.
* `OrdersDistinctUnlessShuffled`: lanes share a place only after a drag, whose calls make them share one in between. The invariant
  the engine checks after every command in debug builds (invariants.cpp:66) does not hold there.

### Violations

* `engine_reclaim_claim` / `HeldAlive`: the pass samples an even, unchanged counter; a device starts and a block loads the current
  schedule; `publish()` retires it; `collect(false)` frees whatever is retired when it takes the lock. See `findings`.
* `playback_reset_race` / `NoHungVoice`: `publishSchedule()` requests resets (engine.cpp:1211) before it
  publishes (1212); a block in between spends the reset on the old schedule and starts another note from it.
* `sandbox_late` / `SilentOnlyIfLate`: one answer comes after its deadline and leaves its signal in the semaphore. The next wait takes that
  signal, finds the old number, and is silent although the helper answers in time, which leaves a signal again.
* `history_tempo` / `UndoIsExact`: the metronome is switched and the tempo changed, with no seal between; the second command is folded
  into the first, which recorded no clip lengths. Undo restores the tempo and leaves the clips as the other tempo had them.
* `stock_panic` / `AllNotesOffReleasesAll`: a guitar voice is held and the wildcarded note-off of a stop, seek or panic reaches it;
  `voiceMatches()` compares channel and key with the wildcards and finds nothing (guitar_engine.cpp:217-221).

## 4. Fairness

Only these liveness properties are checked, each under fairness the code justifies:

* `EngineFairSpec` (`IdleEngineReclaims`, `RetiredIsFreed`, together `ReclaimsInTime`): the housekeeping thread wakes every 20 ms,
  whatever else happens, so its pass makes progress (`WF(Pass)`); a publisher that has exchanged returns;
  while someone renders, the next block begins and each block ends (one weak fairness on the three steps together).
  Starting and stopping are never forced. `RetiredIsFreed` speaks of objects two epochs short of the bound, since
  beyond `MaxEpoch` the instance begins no more blocks.
* `FairSpec` of `MpscRing` (`PushedIsReceived`): a producer with a position writes its cell; the
  consumer keeps draining; its compare-and-swap may fail spuriously but not for ever
  (`SF(Pops)`), which nobody contends since there is one consumer. Producers are not forced to push.
* `ExportSpec` (`ExportEnds`): the worker goes on from block to block; the UI owes nothing.
* `HelperSpec` (`AppComesBackUnlessHung`): the main threads of the application and of the helper and the helper's audio thread go on when they can, and the
  five seconds of a launch pass. A plug-in that hangs disables the step it hangs in.
* `SandboxFairSpec` (`CallbackReturns`): a callback that has begun goes on (`WF(Finishes)`), since its wait is bounded. The helper and
  the main thread owe nothing: the property holds with a helper that hangs for ever.

`WorkersSpec` states the last four, each for its own part. The runs that switch deadlock checking off stop at their bounds: no more blocks,
edits, requests or writes.

## 5. Proofs

Each `...Proofs` module extends the modules it is about. All theorems are about safety, and every property they state is also an invariant or an
action property of a run.

| Module | Theorem | Says | For every |
|---|---|---|---|
| `HandOverProofs` | `TypeCorrect` | `Spec => []TypeOK` | set of objects and writers, bound, and both freedoms of the memory orders |
| | `Ownership` | `Spec => []SoleOwner`: an object is in one place only | the same |
| | `FreedOnce` | `Spec => []FreedOnceAndAll`: nothing is freed twice, and the destructor leaves nothing behind | the same |
| | `Reclamation` | `Spec => []HeldAliveInOrder`: what a block holds is alive, unless an exchange was seen late | the same |
| | `NoLateAcquire` | `Spec => NeverAcquiresRetired`: no block loads an object on record as retired | the same |
| | `ReclaimIsSafe` | `EngineSpec => []ReclaimsSafely`: what was retired before the pass sampled `render_seq_` is freed only when no block holds it | set of objects and writers and bound, with both freedoms off |
| | `SnapshotSound` | `SlotSpec => []SnapshotIsSound`: a read is torn only by a reordering, is never stale, and fails only if disturbed | number of words, retries, writes and reads, and both freedoms |
| | `DeviceFollowed` | `DeviceSpec => []DeviceIsFollowed`: after a change the stream at rest is on the default device, with the scratch and the sounding voice in its format, unless threads crossed, the move was missed or a covered sampler came back; and no voice is changed under a block | set of devices, formats and bound |
| | `TheProjectsMixerIsHeard` | `MixerSpec => []MixerIsTheProjectsAndHeard`: once the engine has caught up it renders the project's tracks, inserts and levels, and an insert is heard as its knob stands unless the engine lost the turn or was never told of it | finite set of tracks, set of inserts, of knob positions, capacity of the queue and turns a chunk takes, number of edits |
| | `ScheduleShown` | `PublishSpec => []ScheduleIsShownUnlessRenewed`: the schedule handed over last is of what the desk shows, whatever was edited, previewed, undone or loaded | documents with any patterns and tempos, number of uses, capacity of the queue and limit of a drain |
| | `TransportFollows` | `PublishSpec => []TransportFollowsUnlessRefusedOrOvertaken`: once the queue is empty the transport has the document's tempo and region, unless a post was refused or a call changed the region past the model | the same |
| `WorkerProofs` | `BlockIsSafe` | `SandboxSpec => []BlockIsSafeUnlessForgotten`: the shared block has one owner at a time, unless a restart forgot a request in flight, and is mapped while used, unless a restart failed half way | number of blocks, restarts and editor calls |
| | `AnswersAreOwn` | `SandboxSpec => AnswersAreItsOwn`: a block that sounds is the answer to its own request, one is missed only after a late answer, and no helper is killed for another's silence | the same |
| | `TeardownInOrder` | `HelperSpec => []TornDownInOrder`: the helper takes its plug-in down after its audio thread has left it | number of launches and calls |
| | `ExportKept` | `ExportSpec => []ExportKeepsTheSong`: a finished file is whole and is the song, unless a command got into the render; nothing else leaves a file; and once its queue is drained the engine loops as the project says, unless a command was refused or lost to the render | length of the song and its tail, capacity of the queue, number of edits and exports |
| | `RingCells` | `Spec => []CellsAreSafe`: a cell is never written while it is read, nor by two producers, and what is handed over was written whole | set of producers, capacity of two or more, number of pushes |
| | `RingIsAQueue` | `Spec => IsABoundedQueue`: the ring implements `BoundedFifo`, and refuses a push only while every cell is taken or being copied out | the same |
| `DocumentProofs` | `SavesAreKept` | `SaveSpec => []SaveIsKeptUnlessCached`: what the last successful save wrote is there after any crash or loss of power, but for copied sidecars still in the cache | set of instruments, number of saves, both platforms |
| | `HostedOnItsOwnChannel` | `HostingSpec => []OwnVoiceUnlessLeftOver`: a voice sounds on the channel of its instrument, unless its project was closed, and whatever could be hosted has its voice | set of plug-ins (available or not), number of channels, IDs, edits and projects |
| | `SettingsSurvive` | `HostingSpec => SettingsAreKept`: settings stay through edits of other things, moves of the channel, undo and redo, and return when a saved project is opened, but for the two exceptions the property names | the same |
| | `FilesAreMended` | `FileSpec => []FileIsMended`: whatever the file said, the project has one master that every track reaches and no reference that dangles, through any deletions; and a saved project is read back as it was, with the same residue, unless something that was deleted had fields nobody knows | set of files, readable or not, sound or not; number of deletions |
| | `UnknownIsKept` | `FileSpec => UnknownSurvives`: a save loses no entity the reader did not understand, and no unknown fields of what the project still has | the same |
| `ScannerProofs` | `ListIsTrue` | `ScannerSpec => []ListIsTrueUnlessLeftBehind`: after a full scan of a disk at rest the list has every bundle's plug-ins, or its quarantine, and nothing of a bundle that is gone, but for rows an earlier answer left behind | set of bundles and of what they may hold, number of changes of the disk and of scans |
| | `QuarantineIsKept` | `ScannerSpec => QuarantineHolds`: a scan uses the row of a quarantined, unchanged bundle again, unless another row was left behind it | the same |
| `ChannelSyncProofs` | `RackIsHeard` | `Spec => []RackIsTheProjects`: when the worker has caught up every channel's gates and sample are the rack's, and a clip plays its own file unless an edit overtook the worker | number of channels, set of files (readable or not), number of edits |
| | `LateStartsAreMadeUp` | `Spec => StartsCatchUp`: a channel told to start while its gate was closed starts in the first block that finds it open | the same |
| `SoundProofs` | `CutIsInaudible` | `ClipSpec => CutIsInaudibleUnlessBent`: the halves of a clip sound as the clip did, unless it is stretched, reversed or cut behind its window | length of the file, tempos, positions, lengths and trims, number of clips and of edits |
| | `StretchedIsPinned` | `ClipSpec => []StretchedIsPinnedUnlessReopened`: a stretched clip has a window to stretch, unless it was trimmed to the file's end afterwards | the same |
| | `HeldIsWanted` | `StockSpec => []HeldIsWantedUnlessUnheard`: between two chunks a voice is held only for a note the song is in or a key that is down, but for releases no voice heard | number of voices, keys, size of the event list, frames of a chunk, events of a chunk, instrument |
| | `ChordIsWhole` | `StockSpec => ChordKeepsItsVoices`: a note that begins takes no voice that is held and was not rendered yet | the same |
| | `SampledNotesEnd` | `SamplerSpec => []SoundsWhileHeldUnlessAdrift`: a sampled note that sounds is held, unless it was let go of while it waited or at another transposition | number of voices, keys, transpositions |
| | `PlaysAsScheduled` | `Spec => []SoundsAsScheduled` of `Playback`: no voice hangs unless it was missed, a stopped transport is silent, a block leaves the playhead inside the loop | channels, notes, tempos, loops and seeks, length of the block, capacity of the queue and limit of a drain, number of commands and of edits |
| | `OthersRingOn` | `Spec => UntouchedChannelsRingOn`: an edit asks no reset of a channel whose events it leaves alone, and a voice ends by a release or by its own note-off | the same |
| `HistoryProofs` | `DeletionsKeepIntegrity` | `IsDocument(d) /\ Integrity(d) => Integrity(Delete(d, table, id))`: no deletion leaves a reference to what is gone | document, table, entity |
| | `CommandsKeepIntegrity` | a command made for a document in which every reference resolves leaves another | document, command of any kind |
| | `CommandsAreExact` | `IsExact(c, d)`: undo gives back the document there was, redo the one that was undone | the same |
| | `CompositesAreExact` | a composite whose parts were each made for what those before them leave: applied it leaves a document in which every reference resolves, undo gives back the document there was, redo goes forth as before; failed it leaves the document untouched | document, number and kinds of the parts |

**Assumptions.** `NoObj` is not an object, `NoDevice` not a device, `NoFolder` not a folder, `NoPath` not a file, `NoPattern` neither a number nor a
pattern of a song that was saved; `NoMixer` is no description of a mixer, and tracks are finitely many numbers, for the order of their ULIDs; a file is finitely many entities under IDs or other keys, whose fields are of the kind they should be or `Unusable` (`IsDocument`; nothing is said of what their references resolve to); what stands for no settings, no voice, no instrument or for the built-in sampler is none of those; bundles are numbers, for the order of their paths, and hold sequences of switches; the transpositions have a lowest and a highest; a note ends behind its start; tempos and lengths of loops and blocks are positive; bounds are naturals, switches Boolean; a slot has at least one word and
one attempt; what a device grants (`FormatsAreGranted`) is a rate and a number of frames. A ring has at least two cells: the code asserts a power of
two (mpsc_ring.h:21), which one is, but all its rings are of 256 cells or more. A clip starts at no negative tick, lasts at least one, and is trimmed
to no negative offset or window: the calls of the ABI refuse the rest (onebeat_abi.cpp:3312, :3345, :3373, :3847; commands.cpp:891). `FramesPerUnit` is divisible by each tempo, so that a
tick is a whole number of frames: a scale that makes the model exact where the code rounds positions. TLC evaluates each of them in a run that extends the module.

**`Publisher`.** `SoleOwner` is not inductive: it does not say that a publisher which is not publishing holds nothing, nor that the
fresh objects are apart from the rest. `OwnerInv` adds that, and `OwnershipStep` shows the two preserved together. `FreedOnce`
adds `AccountInv`: whatever was ever made is fresh, current, in a publisher's hand, retired, doomed or freed; `AccountStep` follows an object through
each step, and the destructor is the step that leaves only the last place. `Reclamation` rests on `EpochInv`: an object in the retired list
with epoch `e` is in the hands of a block only if that block began at `e` or before, so two further epochs mean that it has ended; `QuietInv`
says that the caller of `collect()` who reports that nothing renders tells the truth, and `LateStays` that an object seen late stays marked so.
`NeverAcquiresRetired` follows from ownership: `current_` is never in the list.

**`EngineReclaim`.** The engine calls `collect()` with what it sampled earlier, so `QuietInv` does not hold of it, and the finding of
`engine_reclaim_claim` is the consequence. Ownership still holds (`EngineOwnership` reuses `OwnershipStep`). `CountInv` relates
`render_seq_` to the epoch: odd exactly inside a block. `SettledInv` is the part `collect()` may rely on: what was in the list when an even,
unchanged counter was sampled is in no block's hands, and since it is not current no later block can load it. The theorem assumes a sequentially consistent
memory; with `RelaxedReader` or `RelaxedWriter` the module is only checked by TLC.

**`SnapshotSlot`.** The property speaks of the moment `read()` returns. `WriteInv` says what the words hold at every moment of a write: those not landed
are of the write before, and unless a store passed the odd number none has landed ahead of it. `CallInv` and `TryInv` follow an attempt: its words are no older than the
number it began with, and, nothing having been reordered, exactly that old while the number still stands.

**`Sandbox`.** `OrderInv` orders the numbers of request, answer and block; `MissInv` and `MapInv` say when the proxy is dead and that nobody
unmaps under a living one; `TurnInv` says whose turn the block is, which is lost only when a restart forgets a request in flight (`forgotten`).
`AnswersAreItsOwn` needs the semaphore besides: `SignalInv` says that while no answer has been late, `to_host_` holds at most one signal, and that one is of the request being
waited for. The run `sandbox_late` shows what happens after a late one.

**`PluginHelper`.** `AloneInv` says which state the plug-in is in before the audio thread is started and after it was joined, `SharedInv` which it is in while
the two threads run; the join is what leads from the one to the other.

**`SongExport`.** A file is the song although the UI may edit at every block, because what it edits is either nothing new or recorded as a disturbance: `LeftAlone`
says that otherwise the playhead is at the block the file has come to, without a loop, and the queue holds at most the command that silences the metronome. The loop the session should have is in one of two places
(`LoopInv`): at the end of the queue (`LeadsTo`), or, while the worker has the transport, in what it will put back, with no loop command queued that would be drained by the render.
What a drain comes to is written as the last command of each kind (`After`), which no fold has to compute.

**`DeviceChange`.** `FollowInv` says, for each place of a listener and of the main thread, what of the stream, the configuration and the voices has been brought up
to the device so far. It holds while the threads have not crossed (`crossed`, which only grows); the crossing itself is a hazard in `PROJECT.json`.

**`MpscRing`.** A cell stands for every position equal to it modulo the capacity, so the proof needs that positions less than a lap apart have different
cells (`CellsDiffer`, from `Laps`). With that, everything is said of positions. Only the `Capacity` positions from the oldest message not given back
are touched; `SpanInv` and `PassedInv` bound what their numbers can be, also for a producer that slept for several laps; `ClaimInv` and `OwnerInv` say that a claimed
position belongs to one producer until it is written, and `PopInv` that the consumer's stays as it is until released. The refinement maps each action to one of `BoundedFifo`:
a claim is a push that is pending, the store of the number the moment it counts.

**`ProjectSave`.** The property speaks of what a loss of power may leave, so `KeptInv` is about every tree in `journal`: in each of them the bundle is whole and no older than
the last promise. `StagedInv` follows the staged bundle from step to step until it is whole, which is when it is renamed. On Windows the
bundle may be away, and its backup is what is kept.

**`Hosting`.** Every edit ends in the same publish, which makes slots, voices and settings out of whatever the edit left of the rack. So the invariant
`HostingIInv` has a part that does not mention the rack (`Hosting`): a slot that did not fail has its voice, under its instrument's ID and on the channel the slot
was last moved to; no two slots share a channel; and a voice that was not left behind belongs to such a slot. `PublishedHosting` re-establishes it for any rack and, with the
channels brought up to date, gives the property. `PublishedKeeps` and `PublishedReturns` say the same of settings: a voice that moves takes them along, a new one finds what was on its way.
A replacement that cannot be hosted publishes twice, and the proof uses the lemma twice. `SettingsReturn` needs of the bundle that what sounded when it
was saved is in the sidecar the document names, which `Sidecars` gives because a file written late in ID order is overwritten only by a copy (`CarriedOver`).

**`ProjectFile`.** `FileInv` says that the project is sound (`IsSound`: `Consistent` and the shape of each table), that of the residue every entry is either untouched and not in the project, or the leftover of
something that is or was there (`IsResidue`), and that it has what the file has and the model has not (`Unknown`). A read establishes it for any file, a deletion and a save keep it.
The loader's walks and its breaking of cycles are recursive functions: `StepsCanBeTaken` shows that such a function exists and takes the steps it should, `AllAlong` carries a fact along them; both come down to the least member of a
set of naturals. That every walk ends is not a statement one step can preserve, so it is turned into one that is: tracks whose walks end are those with a rank that falls along the outputs (`AnchoredEnds`, `EndingIsAnchored`, the latter by a
count of the tracks passed). A track sent to the master keeps the rank of those before it, and after the last one all are ranked (`BrokenIsAnchored`); a deletion keeps ranks as well (`MixerWithout`). For the round trip, `NothingToBreak` says that no walk of
a sound mixer feeds back, so the loader mends nothing in what the writer wrote; `ProjectBack` and `ResidueBack` put together, table by table, what it reads. Without `~LeftBehind` this is false: the leftover of something deleted is written, and read as an entity without fields.

**`Scanner`.** The property speaks of the moment a commit ends, and what a commit leaves depends on what the cache had. `SoundInv` says of the cache and of its
file, for each bundle as it is on disk now: rows of that version begin at the first, a first row that is known has all the others with it, and those
behind a row that is not are true ones. It would be false had a scan only to be right when the disk is at rest: `SettledInv` and `TodoInv` say
that a bundle which changed after it was seen is older in every table than on disk, so that nothing of it counts there. With that, what a scan found
(one row, all rows, or those of the cache again: `Answered`), merged over a sound cache, is sound (`MergedIsSound`), and complete if the
helper introspects (`MergedIsAnAnswer`, `AnswerIsTrue`). `ListInv` adds that rows drained after the commit are those committed. Quarantine needs of all this that the
baseline of a scan, unlike a retry's, is the cache until it is committed (`StageInv`).

**`ChannelSync`.** Two threads store the gates of a channel. `QueueInv` says whose list the worker is at: once the main thread has stored, either the newest rack is still
pending or the worker is at it. `SettledInv` says what its pass has brought about for the channels behind it, `GatesInv` that the main thread's own stores agree with it
unless the edit overtook a pass, and `BlockInv` carries both over to a block, which looked at the rack before.

**`ModelPublish`.** A publish posts what differs from what was *announced*, never from what the engine has. `InStep` ties the three together: what is announced is what is
wanted; the queue, drained, leads the transport there (`LeadsOn`); and the schedule is of what is shown. `set_tempo` and `toggleLoop` break it in the
middle of the call, by posting what was not announced yet, and restore it at the end. The drain is modelled a command at a time, so
that a block may end at its limit, or another thread post, between the two commands of one publish.

**`AudioClip`.** That a stretched clip is pinned is inductive once clips are well formed (`ClipInv`); what takes work is the cut, whose right half has a window
only if the part before it consumes less than all of it (`PartOfWindow`). That a cut is not heard is arithmetic on frames: a tick of the left half reads what the clip read
(`ScaledOrder`), and the window left to the right half ends where the clip's did, whether it was given or is the rest of the file (`WindowsAgree`); `CutFrames` puts the two together for one tick.

**`StockVoices`.** A voice a note takes is idle, or is one of `Stealable`, which have been rendered (`NoteOnSpares`); a release changes no key (`ReleasesKeepKeys`). `BankInv` says that
the bank has its shape. The first idle voice exists since a set of numbers has a least one (`LeastMember`, from the library's well-founded induction).
`HeldIsWantedUnlessUnheard` speaks of two chunks with nothing in between, and a note passes through two queues before that. `DueInv` says at every moment what is on its way: a voice that
nobody wants any more has its end, or "all notes off", coming to it in the chunk or among what is typed (`VoicesDue`); a note in the chunk or typed is wanted, or has its end behind it
(`ChunkDue`, `TypedDue`). `BeginDue` is where the queues are joined and cut at the list's room: an end that is dropped there is recorded as unheard, and the last word of the schedule on
a key (`LastWord`) is what it wants. `DueInv` was checked by TLC with three places in the list and two typed commands before it was proved.

**`Sampler`.** Notes that wait behind a stolen voice start when its fade ends, so the invariant (`VoicesAccounted`) says of them what the property says of those that sound, and that
none waits behind a voice that is not fading: a note-off finds the voice by its pitch and would leave such a note behind.

**`MixerGraph`.** `AtRest` is where nothing is on its way, so the invariant says what is. Every edit ends by describing the whole model (`PublishedIsOnItsWay`), hence the newest description still on
its way is of the model as it stands, and with none left the graph is (`OnItsWay`, `LevelsStored`). A knob is followed insert by insert (`KnobsOnTheirWay`): its last turn in the queue says what the model says or, with none in it, the
instance does; `TurnsTold` shows that a drained prefix of the queue keeps this, because a turn that reaches any insert but its own makes both unsaid. Levels are stored by dense index, which needs
that the tracks can be put in order at all: `OrderExists` takes the smallest set that could not.

**`Playback`.** The property speaks of the moments between blocks and of the schedule that plays next, while voices come from the schedule of the block.
`PlayingInv` bridges the two: inside a block a voice of a channel in step has its note-off ahead in the block's schedule (`HangInv`); that schedule has the same events
there as the newest one, or a reset waits (`PlayInv`); and while `publishSchedule()` is on its way, a channel whose events change has its reset to come, asked for, or spent too early
(`RequestInv`). A chunk keeps it because a note that is not yet over ends at or behind the chunk's end (`SoundingIsHeld`, from `NoteOffBehindNoteOn`), a swap of the schedule because equal
events have equal note-offs (`SameOffAhead`), a block's end by `PlayInv`. A tempo command that changes nothing rounds the position to itself (`RescaledToItself`); one that changes something is
where `missed` is needed. `LoopInv` shows that `wrap_guard` never passes one: a loop's start is before its end, so that the chunk behind a seam is not empty. `PlayingInv` was checked by TLC with the bounds of the run before it was proved.

**History.** `HistoryProofs` is about the operators the history is built from, so its theorems speak of a document and a command rather than of `Spec`. `IsDocument` says what the model's tables are: entities
with the fields they should have, an ID being one entity's of one table. A deletion is followed table by table (`DeletionsKeepIntegrity`); the mixer is the hard one, since a track whose output is deleted must
still lead to the master. That undo puts everything back (`CommandsAreExact`) splits by what a command captures: a removal rebuilds each table it cascaded into (`PutBack`; the five `...Returns` lemmas), a note edit drags the clips
that were as long as their pattern, a change of tempo rescales clips and rounds, and both recorded the lengths that were there. A command speaks of a document it was made for (`MadeFor`): the ID it adds was never used, the "before" it
carries is what there is, and no note it inserts is there already. `CommandsKeepIntegrity` needs besides what the C ABI looks up before it makes the command (`LookedUp`): that what an added or edited entity names
exists, and that a new route closes no cycle. None of this uses a bound or a finite table. Composites are folds over their parts. `LeftFold` proves what `FoldLeft` computes, by induction over a count (`Counting`,
a set of naturals and its least missing element, since induction theorems that take an operator cannot be used). `Linked(U, a, P, b)` says that `U` leads from `a` to `b` and is `P` afterwards, that `P` leads back and is `U` again, and that rolling `P` back gives `a`:
one exact command links, links join, and so a composite, or what of it applied before a part failed, is taken back from its end (`CompositesAreExact`).

**Only model-checked.** Liveness stays with TLC: the prover has no rule for fairness and `ENABLED`. So does the order of `finalise()`, a fold
over its stack machine that `RendersInputsFirst` compares with its definition on all small graphs. So do `HistoryIsSound`,
`AbortRestores` and `FittingClipsKeepFitting` of the history (of single commands the first two are proved, of gestures and of the stacks they are not), and `PlaysWhatIsWritten` of the flattener, whose comparison with `Written` would be an induction over two nested sequences of clips and notes.

## 6. Plan

1. *Done*: publication and reclamation, rings, snapshot, rack, playback, voices, mixer, devices, publication of the model, sandbox and helper,
   export, hosting, history, arrangement and flattener, project files and saves, scanner, playlist; the theorems of section 5.
2. An abstract request/answer channel for `Sandbox` to implement, and an abstract undo line (a sequence of documents and a position) for
   `CommandBus` to implement outside gestures.
3. `ModelPublish` composed with `Playback`: the transport commands of the one against the blocks of the other.
4. The second platform: the WASAPI back end, whose device changes are polled.
5. Proofs: the history's stacks, from what is proved of each command.

## 7. Not modelled

Signal processing (effects, time stretching, synthesis, metering) has nothing discrete to check. The WASAPI and null devices and
the CLAP bridge's extensions are calls into operating system and plug-in code. The JSON reader's text, the clamping of
numbers and the C ABI's reading calls are conversion and layout. The
Flutter application calls the C ABI on one thread, and only its lane dragging is modelled. Of the project, names, colours,
the order of instruments and patterns and the points of automation clips refer to nothing and are left out; so is a note's velocity. In `Playback`, tempo changes
inside a schedule are left out. The flattener's cache per pattern changes no result, and is left out.
