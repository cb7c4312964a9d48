---------------------------- MODULE ProjectModel ----------------------------
(***************************************************************************)
(* The document of a project (model/project.cpp, model/entities.h): tables *)
(* of instruments, patterns, lanes, clips and mixer tracks which refer to  *)
(* each other by ID, what deleting an entity does to those that refer to   *)
(* it, and the referential integrity every mutation must leave behind      *)
(* (model/invariants.cpp).                                                 *)
(*                                                                         *)
(* Of an entity the model keeps what refers to something, what cascades    *)
(* change, and lengths.  An ID names one entity of one table for ever.     *)
(* Lengths are in bars; a note is the bar it ends in.  An instrument has   *)
(* one output, the only port anything routes.                              *)
(***************************************************************************)
EXTENDS Integers, Sequences, FiniteSets, TLC, FiniteSetsExt, Functions

CONSTANTS
  NoId,     \* std::nullopt: Master's output, a lane outside groups
  Master,   \* the track created with the project
  NoValue   \* a parameter the user never touched

\* f without the keys in S; f with k set to v; f overridden where g is defined.
Without(f, S) == Restrict(f, DOMAIN f \ S)
Put(f, k, v)  == [x \in DOMAIN f \cup {k} |-> IF x = k THEN v ELSE f[x]]
Over(f, g)    == [x \in DOMAIN f \cup DOMAIN g |-> IF x \in DOMAIN g THEN g[x] ELSE f[x]]

-----------------------------------------------------------------------------
(* Sources of clips *)

PatternSource(p)       == [kind |-> "pattern", of |-> p, effect |-> NoId]
AudioSource(t)         == [kind |-> "audio", of |-> t, effect |-> NoId]
InstrumentCurve(i)     == [kind |-> "automates instrument", of |-> i, effect |-> NoId]
EffectCurve(t, e)      == [kind |-> "automates effect", of |-> t, effect |-> e]

Effects(d, t) == {slot.id : slot \in Range(d.tracks[t].effects)}

-----------------------------------------------------------------------------
(* Who refers to whom: the impact reports *)

ClipsWhere(d, Test(_)) == {c \in DOMAIN d.clips : Test(d.clips[c])}

ClipsOnLane(d, l)          == ClipsWhere(d, LAMBDA c : c.lane = l)
ClipsUsingPattern(d, p)    == ClipsWhere(d, LAMBDA c : c.source = PatternSource(p))
InstrumentCurves(d, i)     == ClipsWhere(d, LAMBDA c : c.source = InstrumentCurve(i))
ClipsPlayingInto(d, t)     == ClipsWhere(d, LAMBDA c : c.source = AudioSource(t))
EffectCurves(d, t, e)      == ClipsWhere(d, LAMBDA c : c.source = EffectCurve(t, e))
\* Its own parameters and those of anything in its chain.
TrackCurves(d, t) ==
  ClipsWhere(d, LAMBDA c : /\ c.source.kind \in {"automates track", "automates effect"}
                           /\ c.source.of = t)
AudioClips(d) == ClipsWhere(d, LAMBDA c : c.source.kind = "audio")

-----------------------------------------------------------------------------
(* Deletion *)

DeleteClip(d, c) == [d EXCEPT !.clips = Without(@, {c})]

\* Its notes leave every pattern at once, the curves that drove it go with it.
DeleteInstrument(d, i) ==
  [d EXCEPT !.patterns    = [p \in DOMAIN d.patterns |->
                               [d.patterns[p] EXCEPT !.notes = Without(@, {i})]],
            !.clips       = Without(@, InstrumentCurves(d, i)),
            !.instruments = Without(@, {i})]

DeletePattern(d, p) ==
  [d EXCEPT !.clips    = Without(@, ClipsUsingPattern(d, p)),
            !.patterns = Without(@, {p})]

\* A lane that is a group releases its children.
DeleteLane(d, l) ==
  [d EXCEPT !.clips = Without(@, ClipsOnLane(d, l)),
            !.lanes = [k \in DOMAIN d.lanes \ {l} |->
                         IF d.lanes[k].group = l THEN [d.lanes[k] EXCEPT !.group = NoId]
                                                 ELSE d.lanes[k]]]

\* What fed it feeds Master instead; its curves have no target left.
DeleteMixerTrack(d, t) ==
  [d EXCEPT !.instruments = [i \in DOMAIN d.instruments |->
                               IF d.instruments[i].track = t
                               THEN [d.instruments[i] EXCEPT !.track = Master]
                               ELSE d.instruments[i]],
            !.tracks      = [k \in DOMAIN d.tracks \ {t} |->
                               IF d.tracks[k].output = t
                               THEN [d.tracks[k] EXCEPT !.output = Master]
                               ELSE d.tracks[k]],
            !.clips       = [c \in DOMAIN d.clips \ TrackCurves(d, t) |->
                               IF c \in ClipsPlayingInto(d, t)
                               THEN [d.clips[c] EXCEPT !.source = AudioSource(Master)]
                               ELSE d.clips[c]]]

CanDelete(d, table, id) == id \in DOMAIN d[table] /\ id # Master

Delete(d, table, id) ==
  CASE table = "instruments" -> DeleteInstrument(d, id)
    [] table = "patterns"    -> DeletePattern(d, id)
    [] table = "lanes"       -> DeleteLane(d, id)
    [] table = "clips"       -> DeleteClip(d, id)
    [] table = "tracks"      -> DeleteMixerTrack(d, id)

-----------------------------------------------------------------------------
(* Restoring and updating *)

CanRestore(d, table, id)  == id \notin DOMAIN d[table]
Restore(d, table, id, e)  == [d EXCEPT ![table] = Put(@, id, e)]
CanUpdate(d, table, id)   == id \in DOMAIN d[table]

\* A pattern's notes are not part of its metadata.
Written(live, table, value) ==
  IF table = "patterns" THEN [live EXCEPT !.length = value.length] ELSE value

Update(d, table, id, value) == [d EXCEPT ![table] = Put(@, id, Written(@[id], table, value))]

\* A sequence that becomes empty is erased: the map stays sparse.
CanRestoreSequence(d, p, i) == p \in DOMAIN d.patterns /\ i \in DOMAIN d.instruments
RestoreSequence(d, p, i, notes) ==
  LET of == d.patterns[p].notes
  IN  [d EXCEPT !.patterns = Put(@, p, [@[p] EXCEPT
                               !.notes = IF notes = {} THEN Without(of, {i})
                                                       ELSE Put(of, i, notes)])]

SequenceOf(d, p, i) ==
  IF i \in DOMAIN d.patterns[p].notes THEN d.patterns[p].notes[i] ELSE {}

-----------------------------------------------------------------------------
(* Lengths *)

ContentEnd(pattern) ==
  LET ends == UNION Range(pattern.notes) IN IF ends = {} THEN 0 ELSE Max(ends)

\* A declared length of 0 is the automatic mode.
EffectiveLength(pattern) ==
  LET declared == IF pattern.length > 0 THEN pattern.length ELSE 1
      content  == ContentEnd(pattern)
  IN  IF content <= declared THEN declared ELSE content

SetLengths(d, lengths) ==
  [d EXCEPT !.clips = [c \in DOMAIN d.clips |->
                         IF c \in DOMAIN lengths THEN [d.clips[c] EXCEPT !.length = lengths[c]]
                                                 ELSE d.clips[c]]]

-----------------------------------------------------------------------------
(* Referential integrity *)

InstrumentsResolve(d) == \A i \in DOMAIN d.instruments : d.instruments[i].track \in DOMAIN d.tracks

SequencesResolve(d) ==
  \A p \in DOMAIN d.patterns :
    /\ DOMAIN d.patterns[p].notes \subseteq DOMAIN d.instruments
    /\ {} \notin Range(d.patterns[p].notes)

GroupsResolve(d) ==
  \A l \in DOMAIN d.lanes :
    d.lanes[l].group # NoId => d.lanes[l].group \in DOMAIN d.lanes \ {l}

SourceResolves(d, source) ==
  CASE source.kind = "pattern"              -> source.of \in DOMAIN d.patterns
    [] source.kind = "audio"                -> source.of \in DOMAIN d.tracks
    [] source.kind = "automates instrument" -> source.of \in DOMAIN d.instruments
    [] source.kind = "automates track"      -> source.of \in DOMAIN d.tracks
    [] source.kind = "automates effect"     -> /\ source.of \in DOMAIN d.tracks
                                               /\ source.effect \in Effects(d, source.of)

ClipsResolve(d) ==
  \A c \in DOMAIN d.clips : /\ d.clips[c].lane \in DOMAIN d.lanes
                            /\ SourceResolves(d, d.clips[c].source)

\* One Master, and every track leads to it.
TracksResolve(d) ==
  /\ {t \in DOMAIN d.tracks : d.tracks[t].output = NoId} = {Master}
  /\ \A t \in DOMAIN d.tracks \ {Master} : d.tracks[t].output \in DOMAIN d.tracks
  /\ \A S \in SUBSET DOMAIN d.tracks :
       S # {} => \E t \in S : d.tracks[t].output \notin S

EffectsDistinct(d) ==
  \A t \in DOMAIN d.tracks : Cardinality(Effects(d, t)) = Len(d.tracks[t].effects)

Integrity(d) == /\ InstrumentsResolve(d)
                /\ SequencesResolve(d)
                /\ GroupsResolve(d)
                /\ ClipsResolve(d)
                /\ TracksResolve(d)
                /\ EffectsDistinct(d)

OrdersDistinct(d) ==
  \A k, l \in DOMAIN d.lanes : k # l => d.lanes[k].order # d.lanes[l].order
=============================================================================
