------------------------------- MODULE Hosting -------------------------------
(***************************************************************************)
(* Which plug-in sounds on which channel, and where its settings are       *)
(* (abi/onebeat_abi.cpp: syncHostedInstruments, the instrument edits and   *)
(* the project calls; core/engine.cpp: the hosted instruments;             *)
(* model/project_io.cpp: the sidecars of a bundle).                        *)
(*                                                                         *)
(* The rack maps the ID of an instrument to its plug-in and to the sidecar *)
(* and digest its last save recorded.  An instrument's channel is its      *)
(* place in ID order.  The handle keeps a slot for each instrument it has  *)
(* hosted, the engine a voice for each channel that has one; publishModel  *)
(* brings them in line, after every edit.  Settings stand for themselves   *)
(* and for their digest.                                                   *)
(***************************************************************************)
EXTENDS Integers, Sequences, FiniteSets, FiniteSetsExt, SequencesExt, Functions, TLC

CONSTANTS
  Plugins,      \* the plug-ins that are hosted
  Unavailable,  \* those whose bundle is not on this machine
  MaxChannels,  \* MaxRackChannels
  NoInstrument, NoVoice, NoBundle, NoState,  \* no instrument, voice, bundle, settings
  MaxIds,       \* bound: instruments ever made
  MaxDeeds,     \* bound: edits, changes of a plug-in's settings and deaths of a helper
  MaxProjects   \* bound: projects ever made or opened

Sample   == "sample"     \* an instrument of its channel's own sampler
NoRef    == 0
Channels == 0..(MaxChannels - 1)

\* The settings of a plug-in, an instrument, a slot and a voice.
States == [plugin : Plugins, tweak : Nat]
Instruments ==
  [plugin : Plugins \cup {Sample}, ref : Nat, sha : States \cup {NoState}]
Slots == [channel : Channels, plugin : Plugins, failed : BOOLEAN]
HostedVoices ==
  [plugin : Plugins, missing : BOOLEAN, dead : BOOLEAN, id : Nat, left : BOOLEAN,
   checkpoint : States \cup {NoState}, state : States \cup {NoState}]

ASSUME HostingAssumption ==
  /\ Unavailable \subseteq Plugins /\ Sample \notin Plugins
  /\ MaxChannels \in Nat \ {0}
  /\ NoState \notin States /\ NoVoice \notin HostedVoices /\ NoInstrument \notin Instruments

VARIABLES
  rack,      \* project.instruments(): ID -> [plugin, ref, sha]
  slots,     \* handle.hosted: ID -> [channel, plugin, failed]
  voices,    \* Engine::hosted_: channel -> voice or NoVoice (its id and left are
             \* ghosts: whose it is, and whether its project was closed since)
  awaiting,  \* handle.pending_project_state: ID -> settings
  done,      \* the commands that can be taken back: [id, before, after, folds]
  undone,    \* ... and repeated
  folds,     \* CommandBus::coalescable_
  bundle,    \* the project on disk: [rack, sidecars, and a ghost: what sounded], or NoBundle
  path,      \* project_path is the bundle's
  nextId,    \* the next ID mintId gives
  project,   \* ghost: how many projects there have been
  deeds      \* ghost: how many edits, changes of settings and deaths there were

hostVars == <<rack, slots, voices, awaiting, done, undone, folds, bundle, path, nextId, project,
              deeds>>

Default(plugin) == [plugin |-> plugin, tweak |-> 0]

-----------------------------------------------------------------------------
(* The rack and its channels *)

isHosted(r, id) == id \in DOMAIN r /\ r[id].plugin \in Plugins

\* The place of an instrument in ID order, -1 for none.
channelIndexOf(r, id) ==
  IF id \in DOMAIN r THEN Cardinality({other \in DOMAIN r : other < id}) ELSE -1

\* Where the plug-in of a slot belongs now; -1: its instrument is gone, plays
\* something else, or has no channel.
\* A slip: a slot stays at the channel it was hosted on.
StaysPut(r, held, id) ==
  IF isHosted(r, id) /\ r[id].plugin = held[id].plugin THEN held[id].channel ELSE -1
Destination(r, held, id) ==
  LET index == channelIndexOf(r, id)
  IN IF isHosted(r, id) /\ r[id].plugin = held[id].plugin /\ index \in Channels THEN index ELSE -1

KeptSlots(r, held) ==
  [id \in {id \in DOMAIN held : Destination(r, held, id) # -1} |->
     [held[id] EXCEPT !.channel = Destination(r, held, id)]]

\* A voice no slot speaks for stays where it is.
VoiceGoesTo(r, held, channel) ==
  LET speakers == {id \in DOMAIN held : held[id].channel = channel}
  IN IF speakers = {} THEN channel ELSE Destination(r, held, Max(speakers))

\* Channels are walked upwards: of two voices bound for one, the last gets it.
remapHostedInstruments(r, held, sounding) ==
  [channel \in Channels |->
     LET coming == {c \in Channels : sounding[c] # NoVoice /\ VoiceGoesTo(r, held, c) = channel}
     IN IF coming = {} THEN NoVoice ELSE sounding[Max(coming)]]

-----------------------------------------------------------------------------
(* Hosting what should be hosted and is not *)

ToHost(r, kept) ==
  {id \in DOMAIN r \ DOMAIN kept : isHosted(r, id) /\ channelIndexOf(r, id) \in Channels}

\* A stand-in for a plug-in that is not here takes the settings that wait for it.
Hosted(r, id, waiting) ==
  LET missing == r[id].plugin \in Unavailable
  IN [plugin |-> r[id].plugin, missing |-> missing, dead |-> FALSE, id |-> id,
      checkpoint |-> Default(r[id].plugin), left |-> FALSE,
      state |-> IF ~missing THEN Default(r[id].plugin)
                ELSE IF id \in DOMAIN waiting THEN waiting[id] ELSE NoState]

installHosted(r, new, failing, waiting, sounding) ==
  [channel \in Channels |->
     IF \E id \in new \ failing : channelIndexOf(r, id) = channel
     THEN Hosted(r, CHOOSE id \in new : channelIndexOf(r, id) = channel, waiting)
     ELSE sounding[channel]]

\* A plug-in refuses settings of another one, a stand-in takes any.
loadHostedState(voice, state) ==
  voice # NoVoice /\ (voice.missing \/ (~voice.dead /\ state.plugin = voice.plugin))

\* What was loaded is what a restart will restore.
Given(voice, state) == [voice EXCEPT !.state = state, !.checkpoint = state]

Loads(r, waiting, sounding, id) ==
  /\ id \in DOMAIN r /\ channelIndexOf(r, id) \in Channels
  /\ loadHostedState(sounding[channelIndexOf(r, id)], waiting[id])

\* What publishModel makes of the slots, the voices and the waiting settings
\* when the rack is r and hosting the instruments in failing does not succeed.
Published(r, held, sounding, waiting, failing) ==
  LET kept  == KeptSlots(r, held)
      new   == ToHost(r, kept)
      moved == remapHostedInstruments(r, held, sounding)
      full  == installHosted(r, new, failing, waiting, moved)
      loads == {id \in DOMAIN waiting : Loads(r, waiting, full, id)}
  IN [slots |-> [id \in DOMAIN kept \cup new |->
                   IF id \in DOMAIN kept THEN kept[id]
                   ELSE [channel |-> channelIndexOf(r, id), plugin |-> r[id].plugin,
                         failed |-> id \in failing]],
      voices |-> [channel \in Channels |->
                    IF \E id \in loads : channelIndexOf(r, id) = channel
                    THEN Given(full[channel],
                               waiting[CHOOSE id \in loads : channelIndexOf(r, id) = channel])
                    ELSE full[channel]],
      pending |-> Restrict(waiting, DOMAIN waiting \ loads)]

\* Which hostings may fail: never that of a stand-in.
MayFail(r, held) ==
  SUBSET {id \in ToHost(r, KeptSlots(r, held)) : r[id].plugin \notin Unavailable}

Settle(r, held, sounding, waiting, failing) ==
  LET p == Published(r, held, sounding, waiting, failing)
  IN slots' = p.slots /\ voices' = p.voices /\ awaiting' = p.pending

publishModel(r) ==
  \E failing \in MayFail(r, slots) : Settle(r, slots, voices, awaiting, failing)

-----------------------------------------------------------------------------
(* The instrument edits, all through the command bus *)

RackWith(r, id, record) ==
  IF record = NoInstrument THEN Restrict(r, DOMAIN r \ {id})
  ELSE [other \in DOMAIN r \cup {id} |-> IF other = id THEN record ELSE r[other]]

RecordOf(r, id) == IF id \in DOMAIN r THEN r[id] ELSE NoInstrument

\* An edit of the same instrument as the entry before it, in the same field,
\* is folded into it.
Record(id, before, after, field) ==
  LET last == done[Len(done)]
      same == done # <<>> /\ folds /\ field # "none" /\ last.id = id /\ last.field = field
  IN IF same THEN [done EXCEPT ![Len(done)].after = after]
     ELSE Append(done, [id |-> id, before |-> before, after |-> after, field |-> field])

Deed == deeds < MaxDeeds /\ deeds' = deeds + 1

executeModel(id, record, field) ==
  LET r == RackWith(rack, id, record)
  IN /\ Deed
     /\ done' = Record(id, RecordOf(rack, id), record, field)
     /\ undone' = <<>> /\ folds' = TRUE
     /\ rack' = r /\ publishModel(r)

NewRecord(plugin) == [plugin |-> plugin, ref |-> NoRef, sha |-> NoState]
elsewhere     == UNCHANGED <<bundle, path, project>>

AddSample ==
  /\ nextId <= MaxIds /\ nextId' = nextId + 1
  /\ executeModel(nextId, NewRecord(Sample), "none")
  /\ elsewhere

\* What a plug-in that could not be hosted was added or put in place for is
\* taken back: the last entry of the history, whatever is folded into it.
\* The undo publishes again, and what that hosts may fail, too.
TakenBack(entries, r) ==
  RackWith(r, Last(entries).id, Last(entries).before)

TriesToHost(id, record, field) ==
  LET r == RackWith(rack, id, record)
      entries == Record(id, RecordOf(rack, id), record, field)
      back == TakenBack(entries, r)
  IN \E failing \in MayFail(r, slots) :
       LET p == Published(r, slots, voices, awaiting, failing)
           hosted == id \in DOMAIN p.slots /\ ~p.slots[id].failed
       IN \/ /\ hosted
             /\ Settle(r, slots, voices, awaiting, failing)
             /\ rack' = r /\ done' = entries /\ undone' = <<>> /\ folds' = TRUE
          \/ /\ ~hosted
             /\ \E again \in MayFail(back, p.slots) :
                  Settle(back, p.slots, p.voices, p.pending, again)
             /\ rack' = back
             /\ done' = Front(entries) /\ undone' = <<Last(entries)>> /\ folds' = FALSE

instance_add(plugin) ==
  /\ nextId <= MaxIds /\ nextId' = nextId + 1
  /\ Deed
  /\ TriesToHost(nextId, NewRecord(plugin), "none")
  /\ elsewhere

\* The reference is replaced whole: the sidecar and digest go with it.
instrument_replace(id, plugin) ==
  /\ Deed
  /\ TriesToHost(id, NewRecord(plugin), "plugin")
  /\ UNCHANGED nextId /\ elsewhere

instrument_replace_sample(id) ==
  executeModel(id, NewRecord(Sample), "plugin") /\ UNCHANGED nextId /\ elsewhere

instrument_remove(id) ==
  executeModel(id, NoInstrument, "none") /\ UNCHANGED nextId /\ elsewhere

\* The copy has the plug-in, sidecar and digest of the original.
instrument_duplicate(id) ==
  /\ nextId <= MaxIds /\ nextId' = nextId + 1
  /\ executeModel(nextId, rack[id], "none")
  /\ elsewhere

\* Muting, renaming, recolouring: the command holds the whole instrument
\* before and after.
EditInstrument(id) ==
  executeModel(id, rack[id], "muted") /\ UNCHANGED nextId /\ elsewhere

\* A whole instrument is written or, if it is gone, nothing.
project_undo ==
  /\ done # <<>>
  /\ LET r == TakenBack(done, rack)
     IN rack' = r /\ publishModel(r)
  /\ undone' = Append(undone, Last(done)) /\ done' = Front(done) /\ folds' = FALSE
  /\ UNCHANGED <<nextId, deeds>> /\ elsewhere

\* A deletion looks at the instrument again when it is repeated.
project_redo ==
  /\ undone # <<>>
  /\ LET entry == Last(undone)
         r == RackWith(rack, entry.id, entry.after)
     IN /\ rack' = r /\ publishModel(r)
        /\ done' = Append(done, IF entry.after # NoInstrument THEN entry
                                ELSE [entry EXCEPT !.before = RecordOf(rack, entry.id)])
  /\ undone' = Front(undone) /\ folds' = FALSE
  /\ UNCHANGED <<nextId, deeds>> /\ elsewhere

-----------------------------------------------------------------------------
(* The plug-in of an instrument: its settings, its helper *)

Sounds(id) ==
  /\ id \in DOMAIN slots /\ ~slots[id].failed
  /\ channelIndexOf(rack, id) \in Channels
  /\ voices[channelIndexOf(rack, id)] # NoVoice
VoiceOf(id) == voices[channelIndexOf(rack, id)]
onlyVoices ==
  UNCHANGED <<rack, slots, awaiting, done, undone, folds, bundle, path, nextId, project>>

Tweak(id) ==
  /\ Sounds(id) /\ ~VoiceOf(id).missing /\ ~VoiceOf(id).dead
  /\ Deed
  /\ voices' = [voices EXCEPT ![channelIndexOf(rack, id)].state =
                   [plugin |-> VoiceOf(id).plugin, tweak |-> deeds']]
  /\ onlyVoices

HelperDies(id) ==
  /\ Sounds(id) /\ ~VoiceOf(id).missing /\ ~VoiceOf(id).dead
  /\ Deed
  /\ voices' = [voices EXCEPT ![channelIndexOf(rack, id)].dead = TRUE]
  /\ onlyVoices

instance_restart(id) ==
  /\ Sounds(id) /\ VoiceOf(id).dead
  /\ voices' = [voices EXCEPT ![channelIndexOf(rack, id)] =
                   [@ EXCEPT !.dead = FALSE, !.state = VoiceOf(id).checkpoint]]
  /\ onlyVoices /\ UNCHANGED deeds

-----------------------------------------------------------------------------
(* Projects *)

\* What the state provider gives for an instrument: the settings of whatever
\* sounds on its channel.
Chunk(id) ==
  LET channel == channelIndexOf(rack, id)
  IN IF channel \in Channels /\ voices[channel] # NoVoice /\ ~voices[channel].dead
     THEN voices[channel].state ELSE NoState

\* A sidecar is written under the ID of the instrument or, if its plug-in has
\* nothing to say, copied under the name it had; in ID order, over what is there.
Carries(id) ==
  Chunk(id) = NoState /\ path /\ rack[id].ref # NoRef /\ rack[id].ref \in DOMAIN bundle.sidecars

Writers(name) ==
  {id \in DOMAIN rack : \/ Chunk(id) # NoState /\ id = name
                        \/ Carries(id) /\ rack[id].ref = name}

Sidecars ==
  [name \in {name \in DOMAIN rack \cup {rack[id].ref : id \in DOMAIN rack} : Writers(name) # {}} |->
     LET last == Max(Writers(name))
     IN IF Chunk(last) # NoState THEN Chunk(last) ELSE bundle.sidecars[name]]

\* The references are written into the model without a command.
\* A slip: only those of an instrument that had none.
FirstRecorded ==
  [id \in DOMAIN rack |-> IF Chunk(id) = NoState \/ rack[id].ref # NoRef THEN rack[id]
                          ELSE [rack[id] EXCEPT !.ref = id, !.sha = Chunk(id)]]
Recorded == [id \in DOMAIN rack |-> IF Chunk(id) = NoState THEN rack[id]
                                    ELSE [rack[id] EXCEPT !.ref = id, !.sha = Chunk(id)]]

project_save ==
  /\ rack' = Recorded
  /\ bundle' = [rack |-> Recorded, sidecars |-> Sidecars,
                 sounded |-> [id \in {id \in DOMAIN rack : Chunk(id) # NoState
                                                        /\ ~VoiceOf(id).left} |-> Chunk(id)]]
  /\ path' = TRUE
  /\ voices' = [channel \in Channels |->
                  IF \E id \in DOMAIN rack : /\ channelIndexOf(rack, id) = channel
                                             /\ Chunk(id) # NoState
                  THEN Given(voices[channel], voices[channel].state) ELSE voices[channel]]
  /\ UNCHANGED <<slots, awaiting, done, undone, folds, nextId, project, deeds>>

\* The voices of a project that is closed go on where they are.
VoicesLeft ==
  [channel \in Channels |->
     IF voices[channel] = NoVoice THEN NoVoice ELSE [voices[channel] EXCEPT !.left = TRUE]]

\* The slots are forgotten; the voices are not.
project_new ==
  /\ project < MaxProjects /\ project' = project + 1
  /\ rack' = <<>> /\ path' = FALSE
  /\ slots' = <<>> /\ awaiting' = <<>>
  /\ voices' = VoicesLeft
  /\ done' = <<>> /\ undone' = <<>> /\ folds' = FALSE
  /\ UNCHANGED <<bundle, nextId, deeds>>

\* The settings a bundle gives: those whose digest is the one on record.
StateIn(b, id) ==
  /\ b.rack[id].ref # NoRef /\ b.rack[id].ref \in DOMAIN b.sidecars
  /\ b.rack[id].sha \in {NoState, b.sidecars[b.rack[id].ref]}

project_open ==
  /\ bundle # NoBundle
  /\ project < MaxProjects /\ project' = project + 1
  /\ LET waiting == [id \in {id \in DOMAIN bundle.rack : StateIn(bundle, id)} |->
                       bundle.sidecars[bundle.rack[id].ref]]
     IN \E failing \in MayFail(bundle.rack, <<>>) :
          Settle(bundle.rack, <<>>, VoicesLeft, waiting, failing)
  /\ rack' = bundle.rack /\ path' = TRUE
  /\ done' = <<>> /\ undone' = <<>> /\ folds' = FALSE
  /\ UNCHANGED <<bundle, nextId, deeds>>

\* What waits for its plug-in is forgotten before the file is read.
project_open_fails ==
  /\ awaiting' = <<>>
  /\ UNCHANGED <<rack, slots, voices, done, undone, folds, bundle, path, nextId, project, deeds>>

-----------------------------------------------------------------------------

HostingInit ==
  /\ rack = <<>> /\ slots = <<>> /\ awaiting = <<>>
  /\ voices = [channel \in Channels |-> NoVoice]
  /\ done = <<>> /\ undone = <<>> /\ folds = FALSE
  /\ bundle = NoBundle /\ path = FALSE
  /\ nextId = 1 /\ project = 1 /\ deeds = 0

HostingNext ==
  \/ AddSample
  \/ \E plugin \in Plugins : instance_add(plugin)
  \/ \E id \in DOMAIN rack :
       \/ \E plugin \in Plugins : instrument_replace(id, plugin)
       \/ instrument_replace_sample(id)
       \/ instrument_remove(id)
       \/ instrument_duplicate(id)
       \/ EditInstrument(id)
       \/ Tweak(id)
       \/ HelperDies(id)
       \/ instance_restart(id)
  \/ project_undo
  \/ project_redo
  \/ project_save
  \/ project_new
  \/ project_open
  \/ project_open_fails

HostingSpec == HostingInit /\ [][HostingNext]_hostVars

-----------------------------------------------------------------------------
(* Properties *)

(* "Hosting belongs to an instrument, not to a selection and not to a       *)
(* channel number": a channel sounds through the plug-in of the instrument  *)
(* that is there, and through none if that has none; unless its voice is    *)
(* left over from a project that was closed.  Every plug-in that was hosted *)
(* for the rack has a voice where its instrument is.                        *)
Own(voice) == voice # NoVoice /\ ~voice.left
OwnVoiceUnlessLeftOver ==
  /\ \A channel \in Channels : Own(voices[channel]) =>
       \E id \in DOMAIN slots : /\ channelIndexOf(rack, id) = channel
                                /\ ~slots[id].failed
                                /\ voices[channel].plugin = rack[id].plugin
                                /\ voices[channel].id = id
  /\ \A id \in DOMAIN slots : ~slots[id].failed => Sounds(id)

(* Whatever is done to the rack, an instrument that keeps its plug-in keeps *)
(* the settings of it, wherever its channel moves; except when a plug-in    *)
(* that cannot be hosted was to take its place, and after a crash.          *)
SoundsItself(id) == Sounds(id) /\ Own(VoiceOf(id))
Replaced(id) == /\ deeds' # deeds /\ undone' # <<>>
                /\ Last(undone').id = id /\ Last(undone').field = "plugin"
SettingsStay ==
  [][project' = project /\ rack' # rack =>
       \A id \in DOMAIN rack \cap DOMAIN rack' :
         SoundsItself(id) /\ SoundsItself(id)' /\ rack[id].plugin = rack'[id].plugin
           => Replaced(id) \/ VoiceOf(id)'.state = VoiceOf(id).state]_hostVars

(* What an instrument sounded with when its project was saved it sounds     *)
(* with when that is opened, if its plug-in can be hosted; except one whose *)
(* sidecar a copy of it, with no plug-in to ask, carried over from the save *)
(* before.                                                                  *)
CarriedOver(id) == \E other \in DOMAIN bundle.rack \ {id} : bundle.rack[other].ref = id
SettingsReturn ==
  [][project' # project /\ path' =>
       \A id \in DOMAIN bundle.sounded :
         Sounds(id)' => CarriedOver(id) \/ VoiceOf(id)'.state = bundle.sounded[id]]_hostVars

(* The settings of a plug-in survive every edit that is not about it, and  *)
(* saving and opening.                                                     *)
SettingsAreKept == SettingsStay /\ SettingsReturn
=============================================================================
