------------------------------ MODULE MixerGraph ------------------------------
(***************************************************************************)
(* The mixer: what the project says, the graph the audio thread renders,   *)
(* and how the one becomes the other (core/mixer_graph.cpp, the mixer      *)
(* halves of core/engine.cpp and of the C ABI).                            *)
(*                                                                         *)
(* Every edit leaves a description of the whole mixer for the housekeeping *)
(* thread, which stores the levels and, when the shape has changed, builds *)
(* a graph of new effects and swaps it in.  A knob that is turned is also  *)
(* posted to the audio thread, addressed by the dense index of its effect. *)
(*                                                                         *)
(* One knob stands for an effect's parameters and its bypass; Default is   *)
(* where a new instance has it.                                            *)
(***************************************************************************)
EXTENDS Integers, Sequences, FiniteSets, SequencesExt

CONSTANTS
  TrackIds,     \* numbers: a track's place is its ULID's place among those there
  Effects,      \* identifiers of the inserts
  Knob,         \* positions of a knob, and levels of a track
  Default,
  ParamQueue,   \* the capacity of effect_params_
  ChunkTurns,   \* the size of pending_effect_params_
  NoMixer,
  MaxMixerEdits \* bound: edits

\* What syncMixer can describe: a name, a chain and a level for each track.
Descriptions == [tracks : Seq(TrackIds), chains : Seq(Seq(Effects)), levels : Seq(Knob)]
Graphs == [tracks : Seq(TrackIds), chains : Seq(Seq(Effects))]

ASSUME MixerGraphAssumption ==
  /\ TrackIds \subseteq Nat /\ TrackIds # {} /\ IsFiniteSet(TrackIds)
  /\ Default \in Knob
  /\ ParamQueue \in Nat \ {0} /\ ChunkTurns \in Nat \ {0}
  /\ NoMixer \notin Descriptions \union Graphs

VARIABLES
  tracks,      \* the model: the tracks there are
  chain,       \* the model: their inserts, in order
  level,       \* the model: their gain
  knob,        \* the model: the knob of each insert
  addressed,   \* effect_indices: of the last flatten
  wanted,      \* pending_mixer_
  working,     \* what applyMixerSync is at
  shape,       \* live_mixer_
  graph,       \* mixer_, as the next acquire sees it: the chain of each node
  heard,       \* the knob of each instance in the graph
  track_gain,  \* per dense index
  turned,      \* effect_params_: [index, to], and whose it is
  mixing,      \* where processChunk is; "outdated" renders a graph replaced since
  unsaid,      \* ghost: inserts whose knob the engine has lost or not been told
  edits        \* ghost

modelVars == <<tracks, chain, level, knob>>
mixerVars == <<modelVars, addressed, wanted, working, shape, graph, heard, track_gain, turned,
               mixing, unsaid, edits>>

Master == CHOOSE t \in TrackIds : \A u \in TrackIds : t <= u

\* The dense order of tracks, and of inserts: by track, then along the chain.
Dense(present) ==
  CHOOSE order \in [1..Cardinality(present) -> present] :
    \A i, j \in DOMAIN order : i < j => order[i] < order[j]
Indices(present, chains) ==
  LET inserts == FlattenSeq([i \in 1..Cardinality(present) |-> chains[Dense(present)[i]]])
  IN [e \in ToSet(inserts) |-> CHOOSE i \in DOMAIN inserts : inserts[i] = e]

Inserts(chains) == UNION {ToSet(chains[t]) : t \in TrackIds}

MixerInit ==
  /\ tracks = {Master}
  /\ chain = [t \in TrackIds |-> <<>>]
  /\ level = [t \in TrackIds |-> Default]
  /\ knob = [e \in Effects |-> Default]
  /\ addressed = <<>>
  /\ wanted = [tracks |-> <<Master>>, chains |-> <<<<>>>>, levels |-> <<Default>>]
  /\ working = NoMixer
  /\ shape = NoMixer
  /\ graph = NoMixer
  /\ heard = [e \in Effects |-> Default]
  /\ track_gain = [i \in 1..Cardinality(TrackIds) |-> Default]
  /\ turned = <<>>
  /\ mixing = "idle"
  /\ unsaid = {}
  /\ edits = 0

-----------------------------------------------------------------------------
(* The UI's thread: an edit of the model, and what follows it *)

\* syncMixer: the description of the whole mixer replaces one not yet taken.
Described(present, chains, levels) ==
  LET order == Dense(present)
  IN [tracks |-> order,
      chains |-> [i \in DOMAIN order |-> chains[order[i]]],
      levels |-> [i \in DOMAIN order |-> levels[order[i]]]]

EditsMixer == edits < MaxMixerEdits /\ edits' = edits + 1

\* publishModel: flatten, then syncMixer.
Publishes(present, chains, levels) ==
  /\ addressed' = Indices(present, chains)
  /\ wanted' = Described(present, chains, levels)

engineSide == <<working, shape, graph, heard, track_gain, mixing>>

\* A track comes with its instrument; an undo takes both.
addMixerTrack(t) ==
  /\ t \notin tracks
  /\ EditsMixer
  /\ tracks' = tracks \union {t}
  /\ chain' = [chain EXCEPT ![t] = <<>>]
  /\ level' = [level EXCEPT ![t] = Default]
  /\ Publishes(tracks', chain', level')
  /\ UNCHANGED <<knob, engineSide, turned, unsaid>>

removeMixerTrack(t) ==
  /\ t \in tracks \ {Master}
  /\ EditsMixer
  /\ tracks' = tracks \ {t}
  /\ chain' = [chain EXCEPT ![t] = <<>>]
  /\ Publishes(tracks', chain', level)
  /\ UNCHANGED <<level, knob, engineSide, turned, unsaid>>

setTrackGain(t, to) ==
  /\ t \in tracks /\ level[t] # to
  /\ EditsMixer
  /\ level' = [level EXCEPT ![t] = to]
  /\ Publishes(tracks, chain, level')
  /\ UNCHANGED <<tracks, chain, knob, engineSide, turned, unsaid>>

\* A new insert has its knob at Default; one whose removal is undone, as it was.
addEffect(t, e, at) ==
  /\ t \in tracks /\ e \notin Inserts(chain) /\ at \in 1..(Len(chain[t]) + 1)
  /\ EditsMixer
  /\ chain' = [chain EXCEPT ![t] = InsertAt(@, at, e)]
  /\ Publishes(tracks, chain', level)
  /\ UNCHANGED <<tracks, level, knob, engineSide, turned, unsaid>>

removeEffect(t, at) ==
  /\ t \in tracks /\ at \in DOMAIN chain[t]
  /\ EditsMixer
  /\ chain' = [chain EXCEPT ![t] = RemoveAt(@, at)]
  /\ Publishes(tracks, chain', level)
  /\ UNCHANGED <<tracks, level, knob, engineSide, turned, unsaid>>

moveEffect(t, from, to) ==
  /\ t \in tracks /\ from \in DOMAIN chain[t] /\ to \in DOMAIN chain[t] /\ from # to
  /\ EditsMixer
  /\ chain' = [chain EXCEPT ![t] = InsertAt(RemoveAt(@, from), to, @[from])]
  /\ Publishes(tracks, chain', level)
  /\ UNCHANGED <<tracks, level, knob, engineSide, turned, unsaid>>

\* ob_engine_mixer_effect_set_param and set_bypassed: publish, then post the
\* one event.  A full queue refuses it, unsaid, and so does an index below zero.
setEffectParam(e, to) ==
  /\ e \in Inserts(chain) /\ knob[e] # to
  /\ EditsMixer
  /\ knob' = [knob EXCEPT ![e] = to]
  /\ UNCHANGED <<tracks, chain, level>>
  /\ Publishes(tracks, chain, level)
  /\ IF addressed'[e] \in Nat /\ Len(turned) < ParamQueue
     THEN /\ turned' = Append(turned, [index |-> addressed'[e], to |-> to, whose |-> e])
          /\ unsaid' = unsaid \ {e}
     ELSE UNCHANGED turned /\ unsaid' = unsaid \union {e}
  /\ UNCHANGED engineSide

\* Undone or redone, the model alone is told.
undoEffectParam(e, to) ==
  /\ e \in Inserts(chain) /\ knob[e] # to
  /\ EditsMixer
  /\ knob' = [knob EXCEPT ![e] = to]
  /\ UNCHANGED <<tracks, chain, level>>
  /\ Publishes(tracks, chain, level)
  /\ unsaid' = unsaid \union {e}
  /\ UNCHANGED <<engineSide, turned>>

-----------------------------------------------------------------------------
(* The housekeeping thread: applyMixerSync *)

\* The levels are stored as soon as the description is taken.
StoreLevels ==
  /\ working = NoMixer /\ wanted # NoMixer
  /\ working' = wanted
  /\ wanted' = NoMixer
  /\ track_gain' = [i \in DOMAIN track_gain |->
                      IF i \in DOMAIN wanted.levels THEN wanted.levels[i] ELSE track_gain[i]]
  /\ UNCHANGED <<modelVars, addressed, shape, graph, heard, turned, mixing, unsaid, edits>>

\* A slip: as many inserts are the same inserts.
SameLengths(a, b) ==
  /\ b # NoMixer /\ Len(a.chains) = Len(b.chains)
  /\ \A i \in DOMAIN a.chains : Len(a.chains[i]) = Len(b.chains[i])
SameShape(a, b) == b # NoMixer /\ a.tracks = b.tracks /\ a.chains = b.chains

KeepGraph ==
  /\ working # NoMixer /\ SameShape(working, shape)
  /\ shape' = working
  /\ working' = NoMixer
  /\ UNCHANGED <<modelVars, addressed, wanted, graph, heard, track_gain, turned, mixing, unsaid,
                 edits>>

\* Every insert of every track is a new instance; the values that came with the
\* description are not applied to it.
BuildGraph ==
  /\ working # NoMixer /\ ~SameShape(working, shape)
  /\ graph' = [tracks |-> working.tracks, chains |-> working.chains]
  /\ heard' = [e \in Effects |-> Default]
  /\ shape' = working
  /\ working' = NoMixer
  /\ mixing' = IF mixing = "rendering" THEN "outdated" ELSE mixing
  /\ unsaid' = unsaid \union
       (IF shape # NoMixer /\ working.tracks = shape.tracks /\ working.chains = shape.chains
        THEN {} ELSE {e \in Effects : knob[e] # Default \/ heard[e] # Default})
  /\ UNCHANGED <<modelVars, addressed, wanted, track_gain, turned, edits>>

-----------------------------------------------------------------------------
(* The audio thread *)

\* processChunk: the buses are cleared and filled for the graph of the moment.
StartChunk ==
  /\ mixing = "idle"
  /\ mixing' = "filling"
  /\ UNCHANGED <<modelVars, addressed, wanted, working, shape, graph, heard, track_gain, turned,
                 unsaid, edits>>

\* renderMixer has its graph from here on.  Without one the knobs wait.
AcquireMixer ==
  /\ mixing = "filling"
  /\ mixing' = IF graph = NoMixer THEN "idle" ELSE "rendering"
  /\ UNCHANGED <<modelVars, addressed, wanted, working, shape, graph, heard, track_gain, turned,
                 unsaid, edits>>

\* The inserts of the newest graph that a turn reaches: the one its index finds.
Reached(turn) ==
  LET inserts == FlattenSeq(graph.chains)
  IN IF mixing = "rendering" /\ turn.index \in DOMAIN inserts THEN {inserts[turn.index]} ELSE {}

\* The turns are told to each instance in their order.
Told(e, turns) ==
  LET reaching == {i \in DOMAIN turns : e \in Reached(turns[i])}
  IN IF reaching = {} THEN heard[e] ELSE turns[Max(reaching)].to

\* The knobs that were turned, as many as a chunk takes.
MixTracks ==
  /\ mixing \in {"rendering", "outdated"}
  /\ mixing' = "idle"
  /\ LET count   == IF Len(turned) < ChunkTurns THEN Len(turned) ELSE ChunkTurns
         drained == SubSeq(turned, 1, count)
     IN /\ heard' = [e \in Effects |-> Told(e, drained)]
        /\ unsaid' = unsaid \union
             UNION {IF Reached(drained[i]) = {drained[i].whose} THEN {}
                    ELSE Reached(drained[i]) \union {drained[i].whose} : i \in DOMAIN drained}
        /\ turned' = SubSeq(turned, count + 1, Len(turned))
  /\ UNCHANGED <<modelVars, addressed, wanted, working, shape, graph, track_gain, edits>>

MixerNext ==
  \/ \E t \in TrackIds : addMixerTrack(t) \/ removeMixerTrack(t)
  \/ \E t \in TrackIds, to \in Knob : setTrackGain(t, to)
  \/ \E t \in TrackIds, e \in Effects, at \in 1..Cardinality(Effects) : addEffect(t, e, at)
  \/ \E t \in TrackIds, at \in 1..Cardinality(Effects) : removeEffect(t, at)
  \/ \E t \in TrackIds, i, j \in 1..Cardinality(Effects) : moveEffect(t, i, j)
  \/ \E e \in Effects, to \in Knob : setEffectParam(e, to) \/ undoEffectParam(e, to)
  \/ StoreLevels \/ KeepGraph \/ BuildGraph
  \/ StartChunk \/ AcquireMixer \/ MixTracks

MixerSpec == MixerInit /\ [][MixerNext]_mixerVars

-----------------------------------------------------------------------------
(* MixerGraph::finalise: the order the nodes are rendered in.  outputs gives *)
(* the node each one feeds, 0 for the device.                               *)

\* One turn of the depth-first walk.  mark: 0 not seen, 1 on the stack, 2 done.
Turn(outputs, w) ==
  LET node  == Last(w.stack)
      feeds == outputs[node]
  IN CASE w.cyclic \/ w.stack = <<>> -> w
       [] w.mark[node] = 2 -> [w EXCEPT !.stack = Front(@)]
       [] w.mark[node] = 1 ->
            [w EXCEPT !.mark[node] = 2, !.stack = Front(@), !.reverse = Append(@, node)]
       [] OTHER ->
            [w EXCEPT !.mark[node] = 1,
                      !.cyclic = feeds = node \/ (feeds # 0 /\ w.mark[feeds] = 1),
                      !.stack  = IF feeds # 0 /\ w.mark[feeds] = 0 THEN Append(@, feeds) ELSE @]

\* A node takes two turns: one that sees it and one that leaves it.
Walk(outputs, w) ==
  FoldLeft(LAMBDA v, turn : Turn(outputs, v), w, [turn \in 1..(2 * Len(outputs)) |-> turn])

\* The order, inputs first; empty when the routing feeds itself or has no master.
Finalised(outputs) ==
  LET start == [mark |-> [n \in DOMAIN outputs |-> 0], stack |-> <<>>, reverse |-> <<>>,
                cyclic |-> FALSE]
      walked == FoldLeft(LAMBDA w, n : IF w.cyclic \/ w.mark[n] # 0 THEN w
                                       ELSE Walk(outputs, [w EXCEPT !.stack = <<n>>]),
                         start, [n \in DOMAIN outputs |-> n])
  IN IF walked.cyclic \/ \A n \in DOMAIN outputs : outputs[n] # 0 THEN <<>>
     ELSE Reverse(walked.reverse)

-----------------------------------------------------------------------------
AtRest == wanted = NoMixer /\ working = NoMixer /\ turned = <<>> /\ mixing = "idle"

(* Once the engine has caught up with the edits, what it renders is the     *)
(* project's mixer: the same tracks with the same inserts in the same order *)
(* and each at its own level.                                               *)
MixerIsTheProjects ==
  AtRest =>
    /\ graph = [tracks |-> Dense(tracks), chains |-> Described(tracks, chain, level).chains]
    /\ \A i \in 1..Cardinality(tracks) : track_gain[i] = level[Dense(tracks)[i]]

(* "A fader move must not rebuild anything": once caught up, an insert is   *)
(* heard as its knob stands, unless the graph has been built anew since, the *)
(* turn was undone, refused, or delivered by an index of another graph or  *)
(* to a graph already replaced.                                            *)
KnobIsHeardUnlessUnsaid ==
  AtRest => \A e \in Inserts(chain) : heard[e] = knob[e] \/ e \in unsaid

(* The mixer the engine renders with is the project's, in what it is made  *)
(* of and in how its knobs are turned.                                     *)
MixerIsTheProjectsAndHeard == MixerIsTheProjects /\ KnobIsHeardUnlessUnsaid
=============================================================================
