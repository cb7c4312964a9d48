---------------------------- MODULE HistoryProofs ----------------------------
(***************************************************************************)
(* What a command does to a document, for every document, whatever its     *)
(* tables hold.                                                            *)
(*                                                                         *)
(* A document here is IsDocument: tables of entities that have the fields  *)
(* they should, an ID being one entity's of one table.  Of a document in   *)
(* which every reference resolves (Integrity, of ProjectModel) it is shown *)
(* that deletions and commands leave one, and that undo and redo are exact *)
(* (IsExact): what a deletion took from other tables, what a note edit or  *)
(* a change of tempo did to lengths of clips, all comes back.              *)
(*                                                                         *)
(* A command speaks of the document it was made for (MadeFor), and of      *)
(* entities its caller looked up (LookedUp).                               *)
(*                                                                         *)
(* Of a composite, by induction over its parts with LeftFold: what it did  *)
(* is a chain of exact steps (Linked), which is why it can be taken back   *)
(* from its end, by undo or when a part fails.                             *)
(***************************************************************************)
EXTENDS Playlist, FiniteSetTheorems, TLAPS

-----------------------------------------------------------------------------
(* Documents *)

Tables == {"instruments", "patterns", "lanes", "clips", "tracks"}
Kinds  == {"pattern", "audio", "automates instrument", "automates track", "automates effect"}

IsMap(f) == f = [x \in DOMAIN f |-> f[x]]

IsInstrument(e) == e = [track |-> e.track, plugin |-> e.plugin]
IsPattern(e)    == e = [length |-> e.length, notes |-> e.notes] /\ IsMap(e.notes)
IsLane(e)       == e = [group |-> e.group, order |-> e.order]
IsSource(s)     == /\ s = [kind |-> s.kind, of |-> s.of, effect |-> s.effect]
                   /\ s.kind \in Kinds
                   /\ s.kind \in {"pattern", "audio", "automates instrument"} => s.effect = NoId
IsClip(e)       == /\ e = [lane |-> e.lane, source |-> e.source, length |-> e.length]
                   /\ IsSource(e.source)
IsTrack(e)      == /\ e = [output |-> e.output, effects |-> e.effects]
                   /\ e.effects \in Seq(Range(e.effects))
                   /\ \A n \in DOMAIN e.effects :
                        e.effects[n] = [id |-> e.effects[n].id, value |-> e.effects[n].value]

IsRecord(d) ==
  d = [instruments |-> d.instruments, patterns |-> d.patterns, lanes |-> d.lanes,
       clips |-> d.clips, tracks |-> d.tracks, transport |-> d.transport]

\* Entities have the fields they should, and an ID is one entity's of one table.
IsDocument(d) ==
  /\ IsRecord(d)
  /\ IsMap(d.instruments) /\ \A i \in DOMAIN d.instruments : IsInstrument(d.instruments[i])
  /\ IsMap(d.patterns) /\ \A p \in DOMAIN d.patterns : IsPattern(d.patterns[p])
  /\ IsMap(d.lanes) /\ \A l \in DOMAIN d.lanes : IsLane(d.lanes[l])
  /\ IsMap(d.clips) /\ \A c \in DOMAIN d.clips : IsClip(d.clips[c])
  /\ IsMap(d.tracks) /\ \A t \in DOMAIN d.tracks : IsTrack(d.tracks[t])
  /\ \A table \in Tables : NoId \notin DOMAIN d[table]
  /\ \A s, t \in Tables : s # t => DOMAIN d[s] \cap DOMAIN d[t] = {}

LEMMA WithoutIs ==
  ASSUME NEW f, NEW some
  PROVE  Without(f, some) = [x \in DOMAIN f \ some |-> f[x]]
BY DEF Without, Restrict

LEMMA ClipsAre ==
  ASSUME NEW d, NEW id
  PROVE  /\ ClipsOnLane(d, id) = {c \in DOMAIN d.clips : d.clips[c].lane = id}
         /\ ClipsUsingPattern(d, id) = {c \in DOMAIN d.clips : d.clips[c].source = PatternSource(id)}
         /\ InstrumentCurves(d, id) = {c \in DOMAIN d.clips : d.clips[c].source = InstrumentCurve(id)}
         /\ ClipsPlayingInto(d, id) = {c \in DOMAIN d.clips : d.clips[c].source = AudioSource(id)}
         /\ TrackCurves(d, id) = {c \in DOMAIN d.clips :
              /\ d.clips[c].source.kind \in {"automates track", "automates effect"}
              /\ d.clips[c].source.of = id}
BY DEF ClipsOnLane, ClipsUsingPattern, InstrumentCurves, ClipsPlayingInto, TrackCurves, ClipsWhere

\* What a source that resolves names.
Names(d, s) ==
  /\ s.kind = "pattern" => s.of \in DOMAIN d.patterns /\ s = PatternSource(s.of)
  /\ s.kind = "audio" => s.of \in DOMAIN d.tracks /\ s = AudioSource(s.of)
  /\ s.kind = "automates instrument" => s.of \in DOMAIN d.instruments /\ s = InstrumentCurve(s.of)
  /\ s.kind = "automates track" => s.of \in DOMAIN d.tracks
  /\ s.kind = "automates effect" => s.of \in DOMAIN d.tracks /\ s.effect \in Effects(d, s.of)

LEMMA SourceNames ==
  ASSUME NEW d, NEW s, IsSource(s)
  PROVE  SourceResolves(d, s) <=> Names(d, s)
BY DEF IsSource, Kinds, SourceResolves, Names, PatternSource, AudioSource, InstrumentCurve

LEMMA SourcesApart ==
  ASSUME NEW id
  PROVE  /\ PatternSource(id).kind = "pattern" /\ PatternSource(id).of = id
         /\ AudioSource(id).kind = "audio" /\ AudioSource(id).of = id
         /\ InstrumentCurve(id).kind = "automates instrument" /\ InstrumentCurve(id).of = id
         /\ IsSource(AudioSource(id))
BY DEF PatternSource, AudioSource, InstrumentCurve, IsSource, Kinds

-----------------------------------------------------------------------------
(* Deletions leave no reference dangling *)

LEMMA ClipDeleted ==
  ASSUME NEW d, IsDocument(d), NEW c
  PROVE  /\ IsRecord(DeleteClip(d, c))
         /\ DeleteClip(d, c).instruments = d.instruments /\ DeleteClip(d, c).patterns = d.patterns
         /\ DeleteClip(d, c).lanes = d.lanes /\ DeleteClip(d, c).tracks = d.tracks
         /\ DeleteClip(d, c).transport = d.transport
         /\ DeleteClip(d, c).clips = [k \in DOMAIN d.clips \ {c} |-> d.clips[k]]
<1>1. IsRecord(d)
  BY DEF IsDocument
<1>2. DeleteClip(d, c) = [d EXCEPT !.clips = [k \in DOMAIN d.clips \ {c} |-> d.clips[k]]]
  BY WithoutIs DEF DeleteClip
<1> QED BY <1>1, <1>2 DEF IsRecord

Cleared(pattern, i) == [pattern EXCEPT !.notes = Without(@, {i})]

LEMMA InstrumentDeleted ==
  ASSUME NEW d, IsDocument(d), NEW i
  PROVE  /\ IsRecord(DeleteInstrument(d, i))
         /\ DeleteInstrument(d, i).instruments = [k \in DOMAIN d.instruments \ {i} |-> d.instruments[k]]
         /\ DeleteInstrument(d, i).patterns =
              [p \in DOMAIN d.patterns |-> Cleared(d.patterns[p], i)]
         /\ DeleteInstrument(d, i).lanes = d.lanes /\ DeleteInstrument(d, i).tracks = d.tracks
         /\ DeleteInstrument(d, i).transport = d.transport
         /\ DeleteInstrument(d, i).clips =
              [k \in DOMAIN d.clips \ InstrumentCurves(d, i) |-> d.clips[k]]
<1>1. IsRecord(d)
  BY DEF IsDocument
<1> DEFINE patterns == [p \in DOMAIN d.patterns |-> Cleared(d.patterns[p], i)]
           clips == [k \in DOMAIN d.clips \ InstrumentCurves(d, i) |-> d.clips[k]]
           instruments == [k \in DOMAIN d.instruments \ {i} |-> d.instruments[k]]
<1>2. /\ Without(d.clips, InstrumentCurves(d, i)) = clips
      /\ Without(d.instruments, {i}) = instruments
  BY WithoutIs
<1>3. DeleteInstrument(d, i) =
        [d EXCEPT !.patterns = patterns,
                  !.clips = Without(d.clips, InstrumentCurves(d, i)),
                  !.instruments = Without(d.instruments, {i})]
  BY <1>1 DEF DeleteInstrument, Cleared, IsRecord
<1> HIDE DEF patterns, clips, instruments
<1>4. DeleteInstrument(d, i) =
        [instruments |-> instruments, patterns |-> patterns, lanes |-> d.lanes,
         clips |-> clips, tracks |-> d.tracks, transport |-> d.transport]
  BY <1>1, <1>2, <1>3 DEF IsRecord
<1> QED BY <1>4 DEF IsRecord, patterns, clips, instruments

LEMMA PatternDeleted ==
  ASSUME NEW d, IsDocument(d), NEW p
  PROVE  /\ IsRecord(DeletePattern(d, p))
         /\ DeletePattern(d, p).instruments = d.instruments
         /\ DeletePattern(d, p).patterns = [k \in DOMAIN d.patterns \ {p} |-> d.patterns[k]]
         /\ DeletePattern(d, p).lanes = d.lanes /\ DeletePattern(d, p).tracks = d.tracks
         /\ DeletePattern(d, p).transport = d.transport
         /\ DeletePattern(d, p).clips =
              [k \in DOMAIN d.clips \ ClipsUsingPattern(d, p) |-> d.clips[k]]
<1>1. IsRecord(d)
  BY DEF IsDocument
<1> DEFINE clips == [k \in DOMAIN d.clips \ ClipsUsingPattern(d, p) |-> d.clips[k]]
           patterns == [k \in DOMAIN d.patterns \ {p} |-> d.patterns[k]]
<1>2. /\ Without(d.clips, ClipsUsingPattern(d, p)) = clips
      /\ Without(d.patterns, {p}) = patterns
  BY WithoutIs
<1>3. DeletePattern(d, p) =
        [d EXCEPT !.clips = Without(d.clips, ClipsUsingPattern(d, p)),
                  !.patterns = Without(d.patterns, {p})]
  BY <1>1 DEF DeletePattern, IsRecord
<1> HIDE DEF patterns, clips
<1>4. DeletePattern(d, p) =
        [instruments |-> d.instruments, patterns |-> patterns, lanes |-> d.lanes,
         clips |-> clips, tracks |-> d.tracks, transport |-> d.transport]
  BY <1>1, <1>2, <1>3 DEF IsRecord
<1> QED BY <1>4 DEF IsRecord, patterns, clips

Ungrouped(lane, l) == IF lane.group = l THEN [lane EXCEPT !.group = NoId] ELSE lane

LEMMA LaneDeleted ==
  ASSUME NEW d, IsDocument(d), NEW l
  PROVE  /\ IsRecord(DeleteLane(d, l))
         /\ DeleteLane(d, l).instruments = d.instruments /\ DeleteLane(d, l).patterns = d.patterns
         /\ DeleteLane(d, l).lanes = [k \in DOMAIN d.lanes \ {l} |-> Ungrouped(d.lanes[k], l)]
         /\ DeleteLane(d, l).tracks = d.tracks /\ DeleteLane(d, l).transport = d.transport
         /\ DeleteLane(d, l).clips = [k \in DOMAIN d.clips \ ClipsOnLane(d, l) |-> d.clips[k]]
<1>1. IsRecord(d)
  BY DEF IsDocument
<1> DEFINE clips == [k \in DOMAIN d.clips \ ClipsOnLane(d, l) |-> d.clips[k]]
           lanes == [k \in DOMAIN d.lanes \ {l} |-> Ungrouped(d.lanes[k], l)]
<1>2. Without(d.clips, ClipsOnLane(d, l)) = clips
  BY WithoutIs
<1>3. DeleteLane(d, l) =
        [d EXCEPT !.clips = Without(d.clips, ClipsOnLane(d, l)), !.lanes = lanes]
  BY <1>1 DEF DeleteLane, Ungrouped, IsRecord
<1> HIDE DEF lanes, clips
<1>4. DeleteLane(d, l) =
        [instruments |-> d.instruments, patterns |-> d.patterns, lanes |-> lanes,
         clips |-> clips, tracks |-> d.tracks, transport |-> d.transport]
  BY <1>1, <1>2, <1>3 DEF IsRecord
<1> QED BY <1>4 DEF IsRecord, lanes, clips

ToMaster(e, t) == IF e.track = t THEN [e EXCEPT !.track = Master] ELSE e
Fed(e, t)      == IF e.output = t THEN [e EXCEPT !.output = Master] ELSE e
Repointed(d, c, t) ==
  IF c \in ClipsPlayingInto(d, t) THEN [d.clips[c] EXCEPT !.source = AudioSource(Master)]
                                  ELSE d.clips[c]

LEMMA TrackDeleted ==
  ASSUME NEW d, IsDocument(d), NEW t
  PROVE  /\ IsRecord(DeleteMixerTrack(d, t))
         /\ DeleteMixerTrack(d, t).instruments =
              [i \in DOMAIN d.instruments |-> ToMaster(d.instruments[i], t)]
         /\ DeleteMixerTrack(d, t).patterns = d.patterns
         /\ DeleteMixerTrack(d, t).lanes = d.lanes
         /\ DeleteMixerTrack(d, t).tracks = [k \in DOMAIN d.tracks \ {t} |-> Fed(d.tracks[k], t)]
         /\ DeleteMixerTrack(d, t).transport = d.transport
         /\ DeleteMixerTrack(d, t).clips =
              [c \in DOMAIN d.clips \ TrackCurves(d, t) |-> Repointed(d, c, t)]
<1>1. IsRecord(d)
  BY DEF IsDocument
<1> DEFINE instruments == [i \in DOMAIN d.instruments |-> ToMaster(d.instruments[i], t)]
           tracks == [k \in DOMAIN d.tracks \ {t} |-> Fed(d.tracks[k], t)]
           clips == [c \in DOMAIN d.clips \ TrackCurves(d, t) |-> Repointed(d, c, t)]
<1>2. DeleteMixerTrack(d, t) =
        [d EXCEPT !.instruments = instruments, !.tracks = tracks, !.clips = clips]
  BY DEF DeleteMixerTrack, ToMaster, Fed, Repointed
<1> HIDE DEF instruments, tracks, clips
<1>3. DeleteMixerTrack(d, t) =
        [instruments |-> instruments, patterns |-> d.patterns, lanes |-> d.lanes,
         clips |-> clips, tracks |-> tracks, transport |-> d.transport]
  BY <1>1, <1>2 DEF IsRecord
<1> QED BY <1>3 DEF IsRecord, instruments, tracks, clips

\* Each part of the integrity is about some of the tables.
LEMMA TracksHold ==
  ASSUME NEW d, NEW e, TracksResolve(d), e.tracks = d.tracks
  PROVE  TracksResolve(e)
BY DEF TracksResolve

LEMMA EffectsHold ==
  ASSUME NEW d, NEW e, e.tracks = d.tracks
  PROVE  /\ \A t : Effects(e, t) = Effects(d, t)
         /\ EffectsDistinct(d) => EffectsDistinct(e)
BY DEF EffectsDistinct, Effects

\* A clip that goes on naming what is there resolves.
LEMMA ClipsHold ==
  ASSUME NEW d, NEW e, ClipsResolve(d), \A c \in DOMAIN d.clips : IsClip(d.clips[c]),
         NEW S \in SUBSET DOMAIN d.clips, e.clips = [c \in S |-> d.clips[c]],
         \A c \in S : /\ d.clips[c].lane \in DOMAIN d.lanes => d.clips[c].lane \in DOMAIN e.lanes
                      /\ Names(d, d.clips[c].source) => Names(e, d.clips[c].source)
  PROVE  ClipsResolve(e)
<1> SUFFICES ASSUME NEW c \in S
             PROVE  e.clips[c].lane \in DOMAIN e.lanes /\ SourceResolves(e, e.clips[c].source)
  BY DEF ClipsResolve
<1>1. e.clips[c] = d.clips[c] /\ IsSource(d.clips[c].source)
  BY DEF IsClip
<1>2. d.clips[c].lane \in DOMAIN d.lanes /\ SourceResolves(d, d.clips[c].source)
  BY DEF ClipsResolve
<1> QED BY <1>1, <1>2, SourceNames

LEMMA ClipGone ==
  ASSUME NEW d, IsDocument(d), Integrity(d), NEW c
  PROVE  Integrity(DeleteClip(d, c))
<1> DEFINE e == DeleteClip(d, c)
<1>1. /\ e.instruments = d.instruments /\ e.patterns = d.patterns /\ e.lanes = d.lanes
      /\ e.tracks = d.tracks /\ e.clips = [k \in DOMAIN d.clips \ {c} |-> d.clips[k]]
  BY ClipDeleted
<1> HIDE DEF e
<1>2. InstrumentsResolve(e) /\ SequencesResolve(e) /\ GroupsResolve(e)
  BY <1>1 DEF Integrity, InstrumentsResolve, SequencesResolve, GroupsResolve
<1>3. TracksResolve(e) /\ EffectsDistinct(e) /\ \A t : Effects(e, t) = Effects(d, t)
  BY <1>1, TracksHold, EffectsHold DEF Integrity
<1>4. \A s : Names(d, s) => Names(e, s)
  BY <1>1, <1>3 DEF Names
<1>5. ClipsResolve(e)
  <2>1. ClipsResolve(d) /\ \A k \in DOMAIN d.clips : IsClip(d.clips[k])
    BY DEF Integrity, IsDocument
  <2>2. (DOMAIN d.clips \ {c}) \in SUBSET DOMAIN d.clips
    OBVIOUS
  <2> QED BY <1>1, <1>4, <2>1, <2>2, ClipsHold
<1> QED BY <1>2, <1>3, <1>5 DEF Integrity, e

LEMMA InstrumentGone ==
  ASSUME NEW d, IsDocument(d), Integrity(d), NEW i
  PROVE  Integrity(DeleteInstrument(d, i))
<1> DEFINE e == DeleteInstrument(d, i)
<1>1. /\ e.instruments = [k \in DOMAIN d.instruments \ {i} |-> d.instruments[k]]
      /\ e.patterns = [p \in DOMAIN d.patterns |-> Cleared(d.patterns[p], i)]
      /\ e.lanes = d.lanes /\ e.tracks = d.tracks
      /\ e.clips = [k \in DOMAIN d.clips \ InstrumentCurves(d, i) |-> d.clips[k]]
  BY InstrumentDeleted
<1> HIDE DEF e
<1>2. InstrumentsResolve(e) /\ GroupsResolve(e)
  BY <1>1 DEF Integrity, InstrumentsResolve, GroupsResolve
<1>3. TracksResolve(e) /\ EffectsDistinct(e) /\ \A t : Effects(e, t) = Effects(d, t)
  BY <1>1, TracksHold, EffectsHold DEF Integrity
<1>4. SequencesResolve(e)
  <2> SUFFICES ASSUME NEW p \in DOMAIN d.patterns
               PROVE  /\ DOMAIN e.patterns[p].notes \subseteq DOMAIN e.instruments
                      /\ {} \notin Range(e.patterns[p].notes)
    BY <1>1 DEF SequencesResolve
  <2> DEFINE notes == d.patterns[p].notes
  <2>1. /\ d.patterns[p] = [length |-> d.patterns[p].length, notes |-> notes]
        /\ DOMAIN notes \subseteq DOMAIN d.instruments
        /\ \A k \in DOMAIN notes : notes[k] # {}
    BY DEF IsDocument, IsPattern, Integrity, SequencesResolve, Range
  <2>2. e.patterns[p].notes = Without(notes, {i})
    BY <1>1, <2>1 DEF Cleared
  <2>3. e.patterns[p].notes = [k \in DOMAIN notes \ {i} |-> notes[k]]
    BY <2>2, WithoutIs
  <2> QED BY <1>1, <2>1, <2>3 DEF Range
<1>5. ClipsResolve(e)
  <2>1. ClipsResolve(d) /\ \A k \in DOMAIN d.clips : IsClip(d.clips[k])
    BY DEF Integrity, IsDocument
  <2>2. (DOMAIN d.clips \ InstrumentCurves(d, i)) \in SUBSET DOMAIN d.clips
    OBVIOUS
  <2>3. ASSUME NEW k \in DOMAIN d.clips \ InstrumentCurves(d, i), Names(d, d.clips[k].source)
        PROVE  Names(e, d.clips[k].source)
    <3>1. d.clips[k].source # InstrumentCurve(i)
      BY DEF InstrumentCurves, ClipsWhere
    <3> QED BY <1>1, <1>3, <2>3, <3>1 DEF Names
  <2> QED BY <1>1, <2>1, <2>2, <2>3, ClipsHold
<1> QED BY <1>2, <1>3, <1>4, <1>5 DEF Integrity, e

LEMMA PatternGone ==
  ASSUME NEW d, IsDocument(d), Integrity(d), NEW p
  PROVE  Integrity(DeletePattern(d, p))
<1> DEFINE e == DeletePattern(d, p)
<1>1. /\ e.instruments = d.instruments /\ e.lanes = d.lanes /\ e.tracks = d.tracks
      /\ e.patterns = [k \in DOMAIN d.patterns \ {p} |-> d.patterns[k]]
      /\ e.clips = [k \in DOMAIN d.clips \ ClipsUsingPattern(d, p) |-> d.clips[k]]
  BY PatternDeleted
<1> HIDE DEF e
<1>2. InstrumentsResolve(e) /\ GroupsResolve(e) /\ SequencesResolve(e)
  BY <1>1 DEF Integrity, InstrumentsResolve, GroupsResolve, SequencesResolve
<1>3. TracksResolve(e) /\ EffectsDistinct(e) /\ \A t : Effects(e, t) = Effects(d, t)
  BY <1>1, TracksHold, EffectsHold DEF Integrity
<1>4. ClipsResolve(e)
  <2>1. ClipsResolve(d) /\ \A k \in DOMAIN d.clips : IsClip(d.clips[k])
    BY DEF Integrity, IsDocument
  <2>2. (DOMAIN d.clips \ ClipsUsingPattern(d, p)) \in SUBSET DOMAIN d.clips
    OBVIOUS
  <2>3. ASSUME NEW k \in DOMAIN d.clips \ ClipsUsingPattern(d, p), Names(d, d.clips[k].source)
        PROVE  Names(e, d.clips[k].source)
    <3>1. d.clips[k].source # PatternSource(p)
      BY DEF ClipsUsingPattern, ClipsWhere
    <3> QED BY <1>1, <1>3, <2>3, <3>1 DEF Names
  <2> QED BY <1>1, <2>1, <2>2, <2>3, ClipsHold
<1> QED BY <1>2, <1>3, <1>4 DEF Integrity, e

LEMMA LaneGone ==
  ASSUME NEW d, IsDocument(d), Integrity(d), NEW l
  PROVE  Integrity(DeleteLane(d, l))
<1> DEFINE e == DeleteLane(d, l)
<1>1. /\ e.instruments = d.instruments /\ e.patterns = d.patterns /\ e.tracks = d.tracks
      /\ e.lanes = [k \in DOMAIN d.lanes \ {l} |-> Ungrouped(d.lanes[k], l)]
      /\ e.clips = [k \in DOMAIN d.clips \ ClipsOnLane(d, l) |-> d.clips[k]]
  BY LaneDeleted
<1> HIDE DEF e
<1>2. InstrumentsResolve(e) /\ SequencesResolve(e)
  BY <1>1 DEF Integrity, InstrumentsResolve, SequencesResolve
<1>3. TracksResolve(e) /\ EffectsDistinct(e) /\ \A t : Effects(e, t) = Effects(d, t)
  BY <1>1, TracksHold, EffectsHold DEF Integrity
<1>4. GroupsResolve(e)
  <2> SUFFICES ASSUME NEW k \in DOMAIN d.lanes \ {l}, e.lanes[k].group # NoId
               PROVE  e.lanes[k].group \in (DOMAIN d.lanes \ {l}) \ {k}
    BY <1>1 DEF GroupsResolve
  <2>1. e.lanes[k] = Ungrouped(d.lanes[k], l)
    BY <1>1
  <2>2. d.lanes[k] = [group |-> d.lanes[k].group, order |-> d.lanes[k].order]
    BY DEF IsDocument, IsLane
  <2>3. d.lanes[k].group # l /\ e.lanes[k] = d.lanes[k]
    BY <2>1, <2>2 DEF Ungrouped
  <2>4. d.lanes[k].group \in DOMAIN d.lanes \ {k}
    BY <2>3 DEF Integrity, GroupsResolve
  <2> QED BY <2>3, <2>4
<1>5. ClipsResolve(e)
  <2>1. ClipsResolve(d) /\ \A k \in DOMAIN d.clips : IsClip(d.clips[k])
    BY DEF Integrity, IsDocument
  <2>2. (DOMAIN d.clips \ ClipsOnLane(d, l)) \in SUBSET DOMAIN d.clips
    OBVIOUS
  <2>3. ASSUME NEW k \in DOMAIN d.clips \ ClipsOnLane(d, l), d.clips[k].lane \in DOMAIN d.lanes
        PROVE  d.clips[k].lane \in DOMAIN e.lanes
    <3>1. d.clips[k].lane # l
      BY DEF ClipsOnLane, ClipsWhere
    <3> QED BY <1>1, <2>3, <3>1
  <2>4. \A s : Names(d, s) => Names(e, s)
    BY <1>1, <1>3 DEF Names
  <2> QED BY <1>1, <2>1, <2>2, <2>3, <2>4, ClipsHold
<1> QED BY <1>2, <1>3, <1>4, <1>5 DEF Integrity, e

\* A track is routed, and what it is routed to is there, once what fed the
\* deleted one feeds Master.
LEMMA FedHold ==
  ASSUME NEW d, NEW e, NEW t, IsDocument(d), TracksResolve(d), t \in DOMAIN d.tracks, t # Master,
         e.tracks = [k \in DOMAIN d.tracks \ {t} |-> Fed(d.tracks[k], t)]
  PROVE  /\ TracksResolve(e) /\ Master \in DOMAIN e.tracks
         /\ \A k \in DOMAIN e.tracks : Effects(e, k) = Effects(d, k)
         /\ EffectsDistinct(d) => EffectsDistinct(e)
<1> DEFINE left == DOMAIN d.tracks \ {t}
<1>1. DOMAIN e.tracks = left
  OBVIOUS
<1>2. \A k \in left :
        /\ e.tracks[k].effects = d.tracks[k].effects
        /\ d.tracks[k].output = t => e.tracks[k].output = Master
        /\ d.tracks[k].output # t => e.tracks[k].output = d.tracks[k].output
  <2> SUFFICES ASSUME NEW k \in left
               PROVE  /\ e.tracks[k].effects = d.tracks[k].effects
                      /\ d.tracks[k].output = t => e.tracks[k].output = Master
                      /\ d.tracks[k].output # t => e.tracks[k].output = d.tracks[k].output
    OBVIOUS
  <2>1. d.tracks[k] = [output |-> d.tracks[k].output, effects |-> d.tracks[k].effects]
    BY DEF IsDocument, IsTrack
  <2>2. e.tracks[k] = Fed(d.tracks[k], t)
    OBVIOUS
  <2> QED BY <2>1, <2>2 DEF Fed
<1>3. /\ \A k \in DOMAIN d.tracks : d.tracks[k].output = NoId <=> k = Master
      /\ Master \in DOMAIN d.tracks /\ NoId \notin DOMAIN d.tracks
  <2>1. {k \in DOMAIN d.tracks : d.tracks[k].output = NoId} = {Master}
    BY DEF TracksResolve
  <2>2. NoId \notin DOMAIN d.tracks
    BY DEF IsDocument, Tables
  <2> QED BY <2>1, <2>2
<1>4. {k \in DOMAIN e.tracks : e.tracks[k].output = NoId} = {Master}
  BY <1>1, <1>2, <1>3
<1>5. ASSUME NEW k \in left, k # Master
      PROVE  e.tracks[k].output \in left
  <2>1. d.tracks[k].output \in DOMAIN d.tracks
    BY <1>5 DEF TracksResolve
  <2>2. CASE d.tracks[k].output = t
    BY <1>2, <1>3, <2>2
  <2>3. CASE d.tracks[k].output # t
    BY <1>2, <2>1, <2>3
  <2> QED BY <2>2, <2>3
<1>6. ASSUME NEW S \in SUBSET left, S # {}
      PROVE  \E k \in S : e.tracks[k].output \notin S
  <2>1. CASE Master \in S
    BY <1>2, <1>3, <2>1
  <2>2. CASE Master \notin S
    <3>1. PICK k \in S : d.tracks[k].output \notin S
      BY <1>6 DEF TracksResolve
    <3>2. e.tracks[k].output \notin S
      BY <1>2, <2>2, <3>1
    <3> QED BY <3>2
  <2> QED BY <2>1, <2>2
<1>7. TracksResolve(e)
  BY <1>1, <1>4, <1>5, <1>6 DEF TracksResolve
<1>8. \A k \in DOMAIN e.tracks : Effects(e, k) = Effects(d, k)
  BY <1>1, <1>2 DEF Effects
<1>9. EffectsDistinct(d) => EffectsDistinct(e)
  BY <1>1, <1>2, <1>8 DEF EffectsDistinct
<1> QED BY <1>1, <1>3, <1>7, <1>8, <1>9

LEMMA TrackGone ==
  ASSUME NEW d, IsDocument(d), Integrity(d), NEW t \in DOMAIN d.tracks, t # Master
  PROVE  Integrity(DeleteMixerTrack(d, t))
<1> DEFINE e == DeleteMixerTrack(d, t)
<1>1. /\ e.instruments = [i \in DOMAIN d.instruments |-> ToMaster(d.instruments[i], t)]
      /\ e.patterns = d.patterns /\ e.lanes = d.lanes
      /\ e.tracks = [k \in DOMAIN d.tracks \ {t} |-> Fed(d.tracks[k], t)]
      /\ e.clips = [c \in DOMAIN d.clips \ TrackCurves(d, t) |-> Repointed(d, c, t)]
  BY TrackDeleted
<1> HIDE DEF e
<1>2. SequencesResolve(e) /\ GroupsResolve(e)
  BY <1>1 DEF Integrity, SequencesResolve, GroupsResolve
<1>3. /\ TracksResolve(e) /\ EffectsDistinct(e) /\ Master \in DOMAIN e.tracks
      /\ \A k \in DOMAIN e.tracks : Effects(e, k) = Effects(d, k)
  BY <1>1, FedHold DEF Integrity
<1>4. InstrumentsResolve(e)
  <2> SUFFICES ASSUME NEW i \in DOMAIN d.instruments
               PROVE  e.instruments[i].track \in DOMAIN e.tracks
    BY <1>1 DEF InstrumentsResolve
  <2>1. /\ e.instruments[i] = ToMaster(d.instruments[i], t)
        /\ d.instruments[i] = [track |-> d.instruments[i].track, plugin |-> d.instruments[i].plugin]
        /\ d.instruments[i].track \in DOMAIN d.tracks
    BY <1>1 DEF IsDocument, IsInstrument, Integrity, InstrumentsResolve
  <2>2. d.instruments[i].track = t => e.instruments[i].track = Master
    BY <2>1 DEF ToMaster
  <2>3. d.instruments[i].track # t => e.instruments[i].track = d.instruments[i].track
    BY <2>1 DEF ToMaster
  <2> QED BY <1>1, <1>3, <2>1, <2>2, <2>3
<1>5. ClipsResolve(e)
  <2> SUFFICES ASSUME NEW c \in DOMAIN d.clips \ TrackCurves(d, t)
               PROVE  /\ e.clips[c].lane \in DOMAIN e.lanes
                      /\ SourceResolves(e, e.clips[c].source)
    BY <1>1 DEF ClipsResolve
  <2>1. /\ e.clips[c] = Repointed(d, c, t) /\ IsClip(d.clips[c])
        /\ d.clips[c].lane \in DOMAIN d.lanes /\ SourceResolves(d, d.clips[c].source)
    BY <1>1 DEF IsDocument, Integrity, ClipsResolve
  <2>2. IsSource(d.clips[c].source) /\ Names(d, d.clips[c].source)
    BY <2>1, SourceNames DEF IsClip
  <2>3. CASE d.clips[c].source = AudioSource(t)
    <3>1. c \in ClipsPlayingInto(d, t)
      BY <2>3 DEF ClipsPlayingInto, ClipsWhere
    <3>2. e.clips[c] = [d.clips[c] EXCEPT !.source = AudioSource(Master)]
      BY <2>1, <3>1 DEF Repointed
    <3>3. e.clips[c].source = AudioSource(Master) /\ e.clips[c].lane = d.clips[c].lane
      BY <2>1, <3>2 DEF IsClip
    <3>4. Names(e, AudioSource(Master))
      BY <1>3, SourcesApart DEF Names
    <3> QED BY <1>1, <2>1, <3>3, <3>4, SourceNames, SourcesApart, ZenonT(40)
  <2>4. CASE d.clips[c].source # AudioSource(t)
    <3>1. c \notin ClipsPlayingInto(d, t)
      BY <2>4 DEF ClipsPlayingInto, ClipsWhere
    <3>2. e.clips[c] = d.clips[c]
      BY <2>1, <3>1 DEF Repointed
    <3>3. d.clips[c].source.kind \in {"automates track", "automates effect"} => d.clips[c].source.of # t
      BY DEF TrackCurves, ClipsWhere
    <3>4. Names(e, d.clips[c].source)
      BY <1>1, <1>3, <2>2, <2>4, <3>3 DEF Names
    <3> QED BY <1>1, <2>1, <2>2, <3>2, <3>4, SourceNames
  <2> QED BY <2>3, <2>4
<1> QED BY <1>2, <1>3, <1>4, <1>5 DEF Integrity, e

\* Deleting an entity of any table leaves no reference to it (Project::delete*).
THEOREM DeletionsKeepIntegrity ==
  ASSUME NEW d, IsDocument(d), Integrity(d), NEW table \in Tables, NEW id, CanDelete(d, table, id)
  PROVE  Integrity(Delete(d, table, id))
<1>1. CASE table = "instruments"
  BY <1>1, InstrumentGone DEF Delete
<1>2. CASE table = "patterns"
  BY <1>2, PatternGone DEF Delete
<1>3. CASE table = "lanes"
  BY <1>3, LaneGone DEF Delete
<1>4. CASE table = "clips"
  BY <1>4, ClipGone DEF Delete
<1>5. CASE table = "tracks"
  <2>1. Delete(d, table, id) = DeleteMixerTrack(d, id)
    BY <1>5 DEF Delete
  <2>2. id \in DOMAIN d.tracks /\ id # Master
    BY <1>5 DEF CanDelete
  <2> QED BY <2>1, <2>2, TrackGone
<1> QED BY <1>1, <1>2, <1>3, <1>4, <1>5 DEF Tables

-----------------------------------------------------------------------------
(* What a removal takes away can be put back *)

Resequenced(pattern, p, id, lost) ==
  IF p \in DOMAIN lost.sequences
  THEN [pattern EXCEPT !.notes = Put(@, id, lost.sequences[p])] ELSE pattern
Regrouped(lane, l, id, lost) ==
  IF l \in lost.grouped THEN [lane EXCEPT !.group = id] ELSE lane
Rerouted(e, i, id, lost) == IF i \in lost.routed THEN [e EXCEPT !.track = id] ELSE e
Refed(e, t, id, lost)    == IF t \in lost.inputs THEN [e EXCEPT !.output = id] ELSE e
ClipsBack(e, lost) ==
  Over(Over(lost.clips, e.clips),
       Restrict(lost.repointed, DOMAIN lost.repointed \cap DOMAIN e.clips))

LEMMA PutBackIs ==
  ASSUME NEW d, NEW table, NEW id, NEW lost,
         NEW e, e = Restore(d, table, id, lost.entity), IsRecord(e)
  PROVE  PutBack(d, table, id, lost) =
           [instruments |-> [i \in DOMAIN e.instruments |-> Rerouted(e.instruments[i], i, id, lost)],
            patterns    |-> [p \in DOMAIN e.patterns |-> Resequenced(e.patterns[p], p, id, lost)],
            lanes       |-> [l \in DOMAIN e.lanes |-> Regrouped(e.lanes[l], l, id, lost)],
            clips       |-> ClipsBack(e, lost),
            tracks      |-> [t \in DOMAIN e.tracks |-> Refed(e.tracks[t], t, id, lost)],
            transport   |-> e.transport]
<1> DEFINE instruments == [i \in DOMAIN e.instruments |-> Rerouted(e.instruments[i], i, id, lost)]
           patterns == [p \in DOMAIN e.patterns |-> Resequenced(e.patterns[p], p, id, lost)]
           lanes == [l \in DOMAIN e.lanes |-> Regrouped(e.lanes[l], l, id, lost)]
           tracks == [t \in DOMAIN e.tracks |-> Refed(e.tracks[t], t, id, lost)]
           clips == ClipsBack(e, lost)
<1>1. PutBack(d, table, id, lost) =
        [e EXCEPT !.patterns = patterns, !.lanes = lanes, !.instruments = instruments,
                  !.tracks = tracks, !.clips = clips]
  BY DEF PutBack, Rerouted, Resequenced, Regrouped, Refed, ClipsBack
<1> HIDE DEF instruments, patterns, lanes, tracks, clips
<1>2. PutBack(d, table, id, lost) =
        [instruments |-> instruments, patterns |-> patterns, lanes |-> lanes,
         clips |-> clips, tracks |-> tracks, transport |-> e.transport]
  BY <1>1 DEF IsRecord
<1> QED BY <1>2 DEF instruments, patterns, lanes, tracks, clips

LEMMA RestoreIs ==
  ASSUME NEW d, IsRecord(d), NEW id, NEW entity
  PROVE  /\ Restore(d, "instruments", id, entity) =
              [instruments |-> Put(d.instruments, id, entity), patterns |-> d.patterns,
               lanes |-> d.lanes, clips |-> d.clips, tracks |-> d.tracks, transport |-> d.transport]
         /\ Restore(d, "patterns", id, entity) =
              [instruments |-> d.instruments, patterns |-> Put(d.patterns, id, entity),
               lanes |-> d.lanes, clips |-> d.clips, tracks |-> d.tracks, transport |-> d.transport]
         /\ Restore(d, "lanes", id, entity) =
              [instruments |-> d.instruments, patterns |-> d.patterns,
               lanes |-> Put(d.lanes, id, entity), clips |-> d.clips, tracks |-> d.tracks,
               transport |-> d.transport]
         /\ Restore(d, "clips", id, entity) =
              [instruments |-> d.instruments, patterns |-> d.patterns, lanes |-> d.lanes,
               clips |-> Put(d.clips, id, entity), tracks |-> d.tracks, transport |-> d.transport]
         /\ Restore(d, "tracks", id, entity) =
              [instruments |-> d.instruments, patterns |-> d.patterns, lanes |-> d.lanes,
               clips |-> d.clips, tracks |-> Put(d.tracks, id, entity), transport |-> d.transport]
<1>1. ASSUME NEW table \in Tables
      PROVE  Restore(d, table, id, entity) = [d EXCEPT ![table] = Put(d[table], id, entity)]
  BY DEF Restore, IsRecord, Tables
<1>2. ASSUME NEW x
      PROVE  /\ [d EXCEPT !["instruments"] = x] = [d EXCEPT !.instruments = x]
             /\ [d EXCEPT !["patterns"] = x] = [d EXCEPT !.patterns = x]
             /\ [d EXCEPT !["lanes"] = x] = [d EXCEPT !.lanes = x]
             /\ [d EXCEPT !["clips"] = x] = [d EXCEPT !.clips = x]
             /\ [d EXCEPT !["tracks"] = x] = [d EXCEPT !.tracks = x]
  OBVIOUS
<1>3. /\ d["instruments"] = d.instruments /\ d["patterns"] = d.patterns /\ d["lanes"] = d.lanes
      /\ d["clips"] = d.clips /\ d["tracks"] = d.tracks
  OBVIOUS
<1>4. ASSUME NEW x
      PROVE  /\ [d EXCEPT !.instruments = x] =
                  [instruments |-> x, patterns |-> d.patterns, lanes |-> d.lanes, clips |-> d.clips,
                   tracks |-> d.tracks, transport |-> d.transport]
             /\ [d EXCEPT !.patterns = x] =
                  [instruments |-> d.instruments, patterns |-> x, lanes |-> d.lanes, clips |-> d.clips,
                   tracks |-> d.tracks, transport |-> d.transport]
             /\ [d EXCEPT !.lanes = x] =
                  [instruments |-> d.instruments, patterns |-> d.patterns, lanes |-> x, clips |-> d.clips,
                   tracks |-> d.tracks, transport |-> d.transport]
             /\ [d EXCEPT !.clips = x] =
                  [instruments |-> d.instruments, patterns |-> d.patterns, lanes |-> d.lanes, clips |-> x,
                   tracks |-> d.tracks, transport |-> d.transport]
             /\ [d EXCEPT !.tracks = x] =
                  [instruments |-> d.instruments, patterns |-> d.patterns, lanes |-> d.lanes, clips |-> d.clips,
                   tracks |-> x, transport |-> d.transport]
  BY DEF IsRecord
<1>5. Restore(d, "instruments", id, entity) =
        [instruments |-> Put(d.instruments, id, entity), patterns |-> d.patterns, lanes |-> d.lanes,
         clips |-> d.clips, tracks |-> d.tracks, transport |-> d.transport]
  BY <1>1, <1>2, <1>3, <1>4 DEF Tables
<1>6. Restore(d, "patterns", id, entity) =
        [instruments |-> d.instruments, patterns |-> Put(d.patterns, id, entity), lanes |-> d.lanes,
         clips |-> d.clips, tracks |-> d.tracks, transport |-> d.transport]
  BY <1>1, <1>2, <1>3, <1>4 DEF Tables
<1>7. Restore(d, "lanes", id, entity) =
        [instruments |-> d.instruments, patterns |-> d.patterns, lanes |-> Put(d.lanes, id, entity),
         clips |-> d.clips, tracks |-> d.tracks, transport |-> d.transport]
  BY <1>1, <1>2, <1>3, <1>4 DEF Tables
<1>8. Restore(d, "clips", id, entity) =
        [instruments |-> d.instruments, patterns |-> d.patterns, lanes |-> d.lanes,
         clips |-> Put(d.clips, id, entity), tracks |-> d.tracks, transport |-> d.transport]
  BY <1>1, <1>2, <1>3, <1>4 DEF Tables
<1>9. Restore(d, "tracks", id, entity) =
        [instruments |-> d.instruments, patterns |-> d.patterns, lanes |-> d.lanes,
         clips |-> d.clips, tracks |-> Put(d.tracks, id, entity), transport |-> d.transport]
  BY <1>1, <1>2, <1>3, <1>4 DEF Tables
<1> QED BY <1>5, <1>6, <1>7, <1>8, <1>9

\* The clips come back: those lost from the capture, those repointed to what they were.
LEMMA ClipsAreBack ==
  ASSUME NEW clips, IsMap(clips), NEW L \in SUBSET DOMAIN clips, NEW R \in SUBSET DOMAIN clips,
         NEW lost, lost.clips = Restrict(clips, L), lost.repointed = Restrict(clips, R),
         NEW e, IsMap(e.clips), DOMAIN e.clips \cup L = DOMAIN clips,
         \A c \in DOMAIN e.clips \ R : e.clips[c] = clips[c]
  PROVE  ClipsBack(e, lost) = clips
<1> DEFINE left  == DOMAIN e.clips
           first == Over(lost.clips, e.clips)
           again == Restrict(lost.repointed, DOMAIN lost.repointed \cap left)
<1>1. first = [c \in L \cup left |-> IF c \in left THEN e.clips[c] ELSE clips[c]]
  <2>1. lost.clips = [c \in L |-> clips[c]]
    BY DEF Restrict
  <2>2. first = [c \in L \cup left |-> IF c \in left THEN e.clips[c] ELSE lost.clips[c]]
    BY <2>1 DEF Over
  <2> QED BY <2>1, <2>2
<1>2. again = [c \in R \cap left |-> clips[c]]
  BY DEF Restrict
<1>3. ClipsBack(e, lost) = [c \in DOMAIN first \cup DOMAIN again |->
                              IF c \in DOMAIN again THEN again[c] ELSE first[c]]
  BY DEF ClipsBack, Over
<1> HIDE DEF first, again
<1>4. DOMAIN first = DOMAIN clips /\ DOMAIN again = R \cap left
  BY <1>1, <1>2
<1>5. ASSUME NEW c \in DOMAIN clips
      PROVE  (IF c \in DOMAIN again THEN again[c] ELSE first[c]) = clips[c]
  BY <1>1, <1>2, <1>4
<1>6. ClipsBack(e, lost) = [c \in DOMAIN clips |-> clips[c]]
  BY <1>3, <1>4, <1>5
<1> QED BY <1>6 DEF IsMap

\* What is put back where it was taken from.
LEMMA PutReturns ==
  ASSUME NEW f, IsMap(f), NEW k \in DOMAIN f, NEW g, DOMAIN g = DOMAIN f \ {k},
         \A x \in DOMAIN g : g[x] = f[x]
  PROVE  Put(g, k, f[k]) = f
BY DEF Put, IsMap

\* An ID of another table is nothing an entity can refer to.
LEMMA NothingRefers ==
  ASSUME NEW d, IsDocument(d), Integrity(d), NEW id, id # NoId, NEW lost,
         NEW table, lost = Captured(d, table, id)
  PROVE  /\ id \notin DOMAIN d.instruments => DOMAIN lost.sequences = {}
         /\ id \notin DOMAIN d.lanes => lost.grouped = {}
         /\ id \notin DOMAIN d.tracks =>
              lost.routed = {} /\ lost.inputs = {} /\ ClipsPlayingInto(d, id) = {}
<1>1. /\ DOMAIN lost.sequences = {p \in DOMAIN d.patterns : id \in DOMAIN d.patterns[p].notes}
      /\ lost.grouped = {l \in DOMAIN d.lanes : d.lanes[l].group = id}
      /\ lost.routed = {i \in DOMAIN d.instruments : d.instruments[i].track = id}
      /\ lost.inputs = {t \in DOMAIN d.tracks : d.tracks[t].output = id}
  BY DEF Captured
<1>2. id \notin DOMAIN d.instruments => DOMAIN lost.sequences = {}
  BY <1>1 DEF Integrity, SequencesResolve
<1>3. id \notin DOMAIN d.lanes => lost.grouped = {}
  BY <1>1 DEF Integrity, GroupsResolve
<1>4. id \notin DOMAIN d.tracks => lost.routed = {}
  BY <1>1 DEF Integrity, InstrumentsResolve
<1>5. id \notin DOMAIN d.tracks => lost.inputs = {}
  <2>1. \A t \in DOMAIN d.tracks : d.tracks[t].output = NoId \/ d.tracks[t].output \in DOMAIN d.tracks
    BY DEF Integrity, TracksResolve
  <2> QED BY <1>1, <2>1
<1>6. id \notin DOMAIN d.tracks => ClipsPlayingInto(d, id) = {}
  <2> SUFFICES ASSUME NEW c \in DOMAIN d.clips, d.clips[c].source = AudioSource(id)
               PROVE  id \in DOMAIN d.tracks
    BY DEF ClipsPlayingInto, ClipsWhere
  <2>1. SourceResolves(d, AudioSource(id))
    BY DEF Integrity, ClipsResolve
  <2>2. Names(d, AudioSource(id))
    BY <2>1, SourceNames, SourcesApart
  <2> QED BY <2>2, SourcesApart DEF Names
<1> QED BY <1>2, <1>3, <1>4, <1>5, <1>6

LEMMA CapturedIs ==
  ASSUME NEW d, NEW table, NEW id, NEW lost, lost = Captured(d, table, id)
  PROVE  /\ lost.entity = d[table][id]
         /\ lost.clips = Restrict(d.clips, ClipsLostWith(d, table, id))
         /\ lost.repointed = Restrict(d.clips, ClipsPlayingInto(d, id))
BY DEF Captured

\* A field nothing of which was captured is as the removal left it.
LEMMA AsItWas ==
  ASSUME NEW f, IsMap(f), NEW id, NEW lost
  PROVE  /\ DOMAIN lost.sequences = {} => [p \in DOMAIN f |-> Resequenced(f[p], p, id, lost)] = f
         /\ lost.grouped = {} => [l \in DOMAIN f |-> Regrouped(f[l], l, id, lost)] = f
         /\ lost.routed = {} => [i \in DOMAIN f |-> Rerouted(f[i], i, id, lost)] = f
         /\ lost.inputs = {} => [t \in DOMAIN f |-> Refed(f[t], t, id, lost)] = f
BY DEF Resequenced, Regrouped, Rerouted, Refed, IsMap

\* An ID of one table is of no other, and is not the absent one.
LEMMA OneTable ==
  ASSUME NEW d, IsDocument(d), NEW table \in Tables, NEW id \in DOMAIN d[table]
  PROVE  /\ id # NoId
         /\ \A other \in Tables : other # table => id \notin DOMAIN d[other]
BY DEF IsDocument

\* A document is its fields: when each is back, the document is.
LEMMA AllBack ==
  ASSUME NEW d, IsRecord(d), NEW g, NEW table, NEW id, NEW lost,
         NEW e, e = Restore(g, table, id, lost.entity), IsRecord(e), e.transport = d.transport,
         [i \in DOMAIN e.instruments |-> Rerouted(e.instruments[i], i, id, lost)] = d.instruments,
         [p \in DOMAIN e.patterns |-> Resequenced(e.patterns[p], p, id, lost)] = d.patterns,
         [l \in DOMAIN e.lanes |-> Regrouped(e.lanes[l], l, id, lost)] = d.lanes,
         ClipsBack(e, lost) = d.clips,
         [t \in DOMAIN e.tracks |-> Refed(e.tracks[t], t, id, lost)] = d.tracks
  PROVE  PutBack(g, table, id, lost) = d
<1>1. PutBack(g, table, id, lost) =
         [instruments |-> [i \in DOMAIN e.instruments |-> Rerouted(e.instruments[i], i, id, lost)],
          patterns    |-> [p \in DOMAIN e.patterns |-> Resequenced(e.patterns[p], p, id, lost)],
          lanes       |-> [l \in DOMAIN e.lanes |-> Regrouped(e.lanes[l], l, id, lost)],
          clips       |-> ClipsBack(e, lost),
          tracks      |-> [t \in DOMAIN e.tracks |-> Refed(e.tracks[t], t, id, lost)],
          transport   |-> e.transport]
  BY PutBackIs
<1> QED BY <1>1 DEF IsRecord

LEMMA TablesAreMaps ==
  ASSUME NEW d, IsDocument(d)
  PROVE  /\ IsRecord(d) /\ IsMap(d.instruments) /\ IsMap(d.patterns) /\ IsMap(d.lanes)
         /\ IsMap(d.clips) /\ IsMap(d.tracks)
BY DEF IsDocument

LEMMA ClipsLost ==
  ASSUME NEW d, NEW id
  PROVE  /\ ClipsLostWith(d, "instruments", id) = InstrumentCurves(d, id)
         /\ ClipsLostWith(d, "patterns", id) = ClipsUsingPattern(d, id)
         /\ ClipsLostWith(d, "lanes", id) = ClipsOnLane(d, id)
         /\ ClipsLostWith(d, "clips", id) = {}
         /\ ClipsLostWith(d, "tracks", id) = TrackCurves(d, id)
         /\ InstrumentCurves(d, id) \in SUBSET DOMAIN d.clips
         /\ ClipsUsingPattern(d, id) \in SUBSET DOMAIN d.clips
         /\ ClipsOnLane(d, id) \in SUBSET DOMAIN d.clips
         /\ TrackCurves(d, id) \in SUBSET DOMAIN d.clips
         /\ ClipsPlayingInto(d, id) \in SUBSET DOMAIN d.clips
<1>1. /\ ClipsLostWith(d, "instruments", id) = InstrumentCurves(d, id)
      /\ ClipsLostWith(d, "patterns", id) = ClipsUsingPattern(d, id)
      /\ ClipsLostWith(d, "lanes", id) = ClipsOnLane(d, id)
      /\ ClipsLostWith(d, "clips", id) = {}
      /\ ClipsLostWith(d, "tracks", id) = TrackCurves(d, id)
  BY DEF ClipsLostWith
<1>2. /\ InstrumentCurves(d, id) \in SUBSET DOMAIN d.clips
      /\ ClipsUsingPattern(d, id) \in SUBSET DOMAIN d.clips
      /\ ClipsOnLane(d, id) \in SUBSET DOMAIN d.clips
      /\ TrackCurves(d, id) \in SUBSET DOMAIN d.clips
      /\ ClipsPlayingInto(d, id) \in SUBSET DOMAIN d.clips
  BY DEF InstrumentCurves, ClipsUsingPattern, ClipsOnLane, TrackCurves, ClipsPlayingInto, ClipsWhere
<1> QED BY <1>1, <1>2

LEMMA ClipReturns ==
  ASSUME NEW d, IsDocument(d), Integrity(d), NEW c \in DOMAIN d.clips
  PROVE  PutBack(DeleteClip(d, c), "clips", c, Captured(d, "clips", c)) = d
<1> DEFINE g == DeleteClip(d, c)
           lost == Captured(d, "clips", c)
           e == Restore(g, "clips", c, lost.entity)
<1>1. /\ IsRecord(g) /\ g.instruments = d.instruments /\ g.patterns = d.patterns
      /\ g.lanes = d.lanes /\ g.tracks = d.tracks /\ g.transport = d.transport
      /\ g.clips = [k \in DOMAIN d.clips \ {c} |-> d.clips[k]]
  BY ClipDeleted
<1>2. /\ lost.entity = d["clips"][c]
      /\ lost.clips = Restrict(d.clips, ClipsLostWith(d, "clips", c))
      /\ lost.repointed = Restrict(d.clips, ClipsPlayingInto(d, c))
  BY CapturedIs
<1>3. c # NoId /\ c \notin DOMAIN d.instruments /\ c \notin DOMAIN d.lanes /\ c \notin DOMAIN d.tracks
  BY OneTable DEF Tables
<1>4. /\ DOMAIN lost.sequences = {} /\ lost.grouped = {} /\ lost.routed = {} /\ lost.inputs = {}
      /\ ClipsPlayingInto(d, c) = {}
  BY <1>3, NothingRefers
<1>5. Put(g.clips, c, d.clips[c]) = d.clips
  <2>1. IsMap(d.clips) /\ DOMAIN g.clips = DOMAIN d.clips \ {c}
    BY <1>1, TablesAreMaps
  <2>2. \A k \in DOMAIN g.clips : g.clips[k] = d.clips[k]
    BY <1>1
  <2> HIDE DEF g
  <2> QED BY <2>1, <2>2, PutReturns
<1> HIDE DEF g, lost
<1>6. e = [instruments |-> d.instruments, patterns |-> d.patterns, lanes |-> d.lanes,
           clips |-> d.clips, tracks |-> d.tracks, transport |-> d.transport]
  BY <1>1, <1>2, <1>5, RestoreIs
<1> HIDE DEF e
<1>7. ClipsBack(e, lost) = d.clips
  <2>1. ClipsLostWith(d, "clips", c) = {} /\ {} \in SUBSET DOMAIN d.clips /\ e.clips = d.clips
    BY <1>6 DEF ClipsLostWith
  <2> QED BY <1>2, <1>4, <2>1, TablesAreMaps, ClipsAreBack
<1>8. /\ [i \in DOMAIN d.instruments |-> Rerouted(d.instruments[i], i, c, lost)] = d.instruments
      /\ [p \in DOMAIN d.patterns |-> Resequenced(d.patterns[p], p, c, lost)] = d.patterns
      /\ [l \in DOMAIN d.lanes |-> Regrouped(d.lanes[l], l, c, lost)] = d.lanes
      /\ [t \in DOMAIN d.tracks |-> Refed(d.tracks[t], t, c, lost)] = d.tracks
  BY <1>4, TablesAreMaps, AsItWas
<1>9. /\ IsRecord(e) /\ e.transport = d.transport /\ e.instruments = d.instruments
      /\ e.patterns = d.patterns /\ e.lanes = d.lanes /\ e.tracks = d.tracks
  BY <1>6 DEF IsRecord
<1>10. IsRecord(d) /\ e = Restore(g, "clips", c, lost.entity)
  BY TablesAreMaps DEF e
<1>11. PutBack(g, "clips", c, lost) = d
  BY <1>7, <1>8, <1>9, <1>10, AllBack
<1> QED BY <1>11 DEF g, lost

LEMMA PatternReturns ==
  ASSUME NEW d, IsDocument(d), Integrity(d), NEW p \in DOMAIN d.patterns
  PROVE  PutBack(DeletePattern(d, p), "patterns", p, Captured(d, "patterns", p)) = d
<1> DEFINE g == DeletePattern(d, p)
           lost == Captured(d, "patterns", p)
           e == Restore(g, "patterns", p, lost.entity)
<1>1. /\ IsRecord(g) /\ g.instruments = d.instruments /\ g.lanes = d.lanes
      /\ g.tracks = d.tracks /\ g.transport = d.transport
      /\ g.patterns = [k \in DOMAIN d.patterns \ {p} |-> d.patterns[k]]
      /\ g.clips = [k \in DOMAIN d.clips \ ClipsUsingPattern(d, p) |-> d.clips[k]]
  BY PatternDeleted
<1>2. /\ lost.entity = d["patterns"][p]
      /\ lost.clips = Restrict(d.clips, ClipsLostWith(d, "patterns", p))
      /\ lost.repointed = Restrict(d.clips, ClipsPlayingInto(d, p))
  BY CapturedIs
<1>3. p # NoId /\ p \notin DOMAIN d.instruments /\ p \notin DOMAIN d.lanes /\ p \notin DOMAIN d.tracks
  BY OneTable DEF Tables
<1>4. /\ DOMAIN lost.sequences = {} /\ lost.grouped = {} /\ lost.routed = {} /\ lost.inputs = {}
      /\ ClipsPlayingInto(d, p) = {}
  BY <1>3, NothingRefers
<1>5. Put(g.patterns, p, d.patterns[p]) = d.patterns
  <2>1. IsMap(d.patterns) /\ DOMAIN g.patterns = DOMAIN d.patterns \ {p}
    BY <1>1, TablesAreMaps
  <2>2. \A k \in DOMAIN g.patterns : g.patterns[k] = d.patterns[k]
    BY <1>1
  <2> HIDE DEF g
  <2> QED BY <2>1, <2>2, PutReturns
<1> HIDE DEF g, lost
<1>6. e = [instruments |-> d.instruments, patterns |-> d.patterns, lanes |-> d.lanes,
           clips |-> g.clips, tracks |-> d.tracks, transport |-> d.transport]
  BY <1>1, <1>2, <1>5, RestoreIs
<1> HIDE DEF e
<1>7. ClipsBack(e, lost) = d.clips
  <2>1. /\ ClipsLostWith(d, "patterns", p) = ClipsUsingPattern(d, p)
        /\ {} \in SUBSET DOMAIN d.clips
        /\ ClipsUsingPattern(d, p) \in SUBSET DOMAIN d.clips
    BY ClipsLost
  <2>2. e.clips = [k \in DOMAIN d.clips \ ClipsUsingPattern(d, p) |-> d.clips[k]]
    BY <1>1, <1>6
  <2>3. /\ IsMap(e.clips) /\ DOMAIN e.clips \cup ClipsUsingPattern(d, p) = DOMAIN d.clips
        /\ \A c \in DOMAIN e.clips \ {} : e.clips[c] = d.clips[c]
    BY <2>1, <2>2 DEF IsMap
  <2> HIDE DEF g
  <2>4. lost.clips = Restrict(d.clips, ClipsUsingPattern(d, p)) /\ lost.repointed = Restrict(d.clips, {})
    BY <1>2, <1>4, <2>1
  <2> QED BY <2>1, <2>3, <2>4, TablesAreMaps, ClipsAreBack
<1>8. /\ [i \in DOMAIN d.instruments |-> Rerouted(d.instruments[i], i, p, lost)] = d.instruments
      /\ [k \in DOMAIN d.patterns |-> Resequenced(d.patterns[k], k, p, lost)] = d.patterns
      /\ [l \in DOMAIN d.lanes |-> Regrouped(d.lanes[l], l, p, lost)] = d.lanes
      /\ [t \in DOMAIN d.tracks |-> Refed(d.tracks[t], t, p, lost)] = d.tracks
  BY <1>4, TablesAreMaps, AsItWas
<1>9. /\ IsRecord(e) /\ e.transport = d.transport /\ e.instruments = d.instruments
      /\ e.patterns = d.patterns /\ e.lanes = d.lanes /\ e.tracks = d.tracks
  BY <1>6 DEF IsRecord
<1>10. IsRecord(d) /\ e = Restore(g, "patterns", p, lost.entity)
  BY TablesAreMaps DEF e
<1>11. PutBack(g, "patterns", p, lost) = d
  BY <1>7, <1>8, <1>9, <1>10, AllBack
<1> QED BY <1>11 DEF g, lost

LEMMA LaneReturns ==
  ASSUME NEW d, IsDocument(d), Integrity(d), NEW l \in DOMAIN d.lanes
  PROVE  PutBack(DeleteLane(d, l), "lanes", l, Captured(d, "lanes", l)) = d
<1> DEFINE g == DeleteLane(d, l)
           lost == Captured(d, "lanes", l)
           e == Restore(g, "lanes", l, lost.entity)
<1>1. /\ IsRecord(g) /\ g.instruments = d.instruments /\ g.patterns = d.patterns
      /\ g.tracks = d.tracks /\ g.transport = d.transport
      /\ g.lanes = [k \in DOMAIN d.lanes \ {l} |-> Ungrouped(d.lanes[k], l)]
      /\ g.clips = [k \in DOMAIN d.clips \ ClipsOnLane(d, l) |-> d.clips[k]]
  BY LaneDeleted
<1>2. /\ lost.entity = d["lanes"][l]
      /\ lost.clips = Restrict(d.clips, ClipsLostWith(d, "lanes", l))
      /\ lost.repointed = Restrict(d.clips, ClipsPlayingInto(d, l))
      /\ lost.grouped = {k \in DOMAIN d.lanes : d.lanes[k].group = l}
  BY CapturedIs DEF Captured
<1>3. l # NoId /\ l \notin DOMAIN d.instruments /\ l \notin DOMAIN d.tracks
  BY OneTable DEF Tables
<1>4. /\ DOMAIN lost.sequences = {} /\ lost.routed = {} /\ lost.inputs = {}
      /\ ClipsPlayingInto(d, l) = {}
  BY <1>3, NothingRefers
<1> HIDE DEF g, lost
<1>5. e = [instruments |-> d.instruments, patterns |-> d.patterns,
           lanes |-> Put(g.lanes, l, d.lanes[l]),
           clips |-> g.clips, tracks |-> d.tracks, transport |-> d.transport]
  BY <1>1, <1>2, RestoreIs
<1> HIDE DEF e
<1>6. [k \in DOMAIN e.lanes |-> Regrouped(e.lanes[k], k, l, lost)] = d.lanes
  <2>1. e.lanes = [k \in DOMAIN d.lanes |-> IF k = l THEN d.lanes[l] ELSE Ungrouped(d.lanes[k], l)]
    BY <1>1, <1>5 DEF Put
  <2>2. ASSUME NEW k \in DOMAIN d.lanes
        PROVE  Regrouped(e.lanes[k], k, l, lost) = d.lanes[k]
    <3>1. d.lanes[k] = [group |-> d.lanes[k].group, order |-> d.lanes[k].order]
      BY DEF IsDocument, IsLane
    <3>2. CASE k = l
      <4>1. d.lanes[l].group # l
        BY <1>3 DEF Integrity, GroupsResolve
      <4> QED BY <1>2, <2>1, <3>2, <4>1 DEF Regrouped
    <3>3. CASE k # l /\ d.lanes[k].group = l
      <4>1. e.lanes[k] = [d.lanes[k] EXCEPT !.group = NoId] /\ k \in lost.grouped
        BY <1>2, <2>1, <3>3 DEF Ungrouped
      <4>2. Regrouped(e.lanes[k], k, l, lost) = [e.lanes[k] EXCEPT !.group = l]
        BY <4>1 DEF Regrouped
      <4>3. e.lanes[k] = [group |-> NoId, order |-> d.lanes[k].order]
        BY <3>1, <4>1
      <4> QED BY <3>1, <3>3, <4>2, <4>3
    <3>4. CASE k # l /\ d.lanes[k].group # l
      BY <1>2, <2>1, <3>4 DEF Ungrouped, Regrouped
    <3> QED BY <3>2, <3>3, <3>4
  <2>3. [k \in DOMAIN e.lanes |-> Regrouped(e.lanes[k], k, l, lost)] = [k \in DOMAIN d.lanes |-> d.lanes[k]]
    BY <2>1, <2>2
  <2> QED BY <2>3, TablesAreMaps DEF IsMap
<1>7. ClipsBack(e, lost) = d.clips
  <2>1. /\ ClipsLostWith(d, "lanes", l) = ClipsOnLane(d, l)
        /\ {} \in SUBSET DOMAIN d.clips
        /\ ClipsOnLane(d, l) \in SUBSET DOMAIN d.clips
    BY ClipsLost
  <2>2. e.clips = [k \in DOMAIN d.clips \ ClipsOnLane(d, l) |-> d.clips[k]]
    BY <1>1, <1>5
  <2>3. /\ IsMap(e.clips) /\ DOMAIN e.clips \cup ClipsOnLane(d, l) = DOMAIN d.clips
        /\ \A c \in DOMAIN e.clips \ {} : e.clips[c] = d.clips[c]
    BY <2>1, <2>2 DEF IsMap
  <2>4. lost.clips = Restrict(d.clips, ClipsOnLane(d, l)) /\ lost.repointed = Restrict(d.clips, {})
    BY <1>2, <1>4, <2>1
  <2> QED BY <2>1, <2>3, <2>4, TablesAreMaps, ClipsAreBack
<1>8. /\ [i \in DOMAIN d.instruments |-> Rerouted(d.instruments[i], i, l, lost)] = d.instruments
      /\ [p \in DOMAIN d.patterns |-> Resequenced(d.patterns[p], p, l, lost)] = d.patterns
      /\ [t \in DOMAIN d.tracks |-> Refed(d.tracks[t], t, l, lost)] = d.tracks
  <2>1. IsMap(d.instruments) /\ IsMap(d.patterns) /\ IsMap(d.tracks)
    BY TablesAreMaps
  <2> QED BY <1>4, <2>1 DEF Rerouted, Resequenced, Refed, IsMap
<1>9. /\ IsRecord(e) /\ e.transport = d.transport /\ e.instruments = d.instruments
      /\ e.patterns = d.patterns /\ e.tracks = d.tracks
  BY <1>5 DEF IsRecord
<1>10. IsRecord(d) /\ e = Restore(g, "lanes", l, lost.entity)
  BY TablesAreMaps DEF e
<1>11. PutBack(g, "lanes", l, lost) = d
  BY <1>6, <1>7, <1>8, <1>9, <1>10, AllBack
<1> QED BY <1>11 DEF g, lost

LEMMA InstrumentReturns ==
  ASSUME NEW d, IsDocument(d), Integrity(d), NEW i \in DOMAIN d.instruments
  PROVE  PutBack(DeleteInstrument(d, i), "instruments", i, Captured(d, "instruments", i)) = d
<1> DEFINE g == DeleteInstrument(d, i)
           lost == Captured(d, "instruments", i)
           e == Restore(g, "instruments", i, lost.entity)
<1>1. /\ IsRecord(g) /\ g.lanes = d.lanes /\ g.tracks = d.tracks /\ g.transport = d.transport
      /\ g.instruments = [k \in DOMAIN d.instruments \ {i} |-> d.instruments[k]]
      /\ g.patterns = [p \in DOMAIN d.patterns |-> Cleared(d.patterns[p], i)]
      /\ g.clips = [k \in DOMAIN d.clips \ InstrumentCurves(d, i) |-> d.clips[k]]
  BY InstrumentDeleted
<1>2. /\ lost.entity = d["instruments"][i]
      /\ lost.clips = Restrict(d.clips, ClipsLostWith(d, "instruments", i))
      /\ lost.repointed = Restrict(d.clips, ClipsPlayingInto(d, i))
  BY CapturedIs
<1>3. lost.sequences = [p \in {p \in DOMAIN d.patterns : i \in DOMAIN d.patterns[p].notes} |->
                          d.patterns[p].notes[i]]
  BY DEF Captured
<1>4. i # NoId /\ i \notin DOMAIN d.lanes /\ i \notin DOMAIN d.tracks
  BY OneTable DEF Tables
<1>5. lost.grouped = {} /\ lost.routed = {} /\ lost.inputs = {} /\ ClipsPlayingInto(d, i) = {}
  BY <1>4, NothingRefers
<1>6. Put(g.instruments, i, d.instruments[i]) = d.instruments
  <2>1. IsMap(d.instruments) /\ DOMAIN g.instruments = DOMAIN d.instruments \ {i}
    BY <1>1, TablesAreMaps
  <2>2. \A k \in DOMAIN g.instruments : g.instruments[k] = d.instruments[k]
    BY <1>1
  <2> HIDE DEF g
  <2> QED BY <2>1, <2>2, PutReturns
<1> HIDE DEF g, lost
<1>7. e = [instruments |-> d.instruments, patterns |-> g.patterns, lanes |-> d.lanes,
           clips |-> g.clips, tracks |-> d.tracks, transport |-> d.transport]
  BY <1>1, <1>2, <1>6, RestoreIs
<1> HIDE DEF e
<1>8. [p \in DOMAIN e.patterns |-> Resequenced(e.patterns[p], p, i, lost)] = d.patterns
  <2>1. e.patterns = [p \in DOMAIN d.patterns |-> Cleared(d.patterns[p], i)]
    BY <1>1, <1>7
  <2>2. ASSUME NEW p \in DOMAIN d.patterns
        PROVE  Resequenced(e.patterns[p], p, i, lost) = d.patterns[p]
    <3> DEFINE notes == d.patterns[p].notes
               rest  == Without(notes, {i})
    <3>1. d.patterns[p] = [length |-> d.patterns[p].length, notes |-> notes] /\ IsMap(notes)
      BY DEF IsDocument, IsPattern
    <3>2. e.patterns[p] = [length |-> d.patterns[p].length, notes |-> rest]
      BY <2>1, <3>1 DEF Cleared
    <3>3. rest = [k \in DOMAIN notes \ {i} |-> notes[k]]
      BY WithoutIs
    <3> HIDE DEF notes, rest
    <3>4. CASE i \in DOMAIN notes
      <4>1. p \in DOMAIN lost.sequences /\ lost.sequences[p] = notes[i]
        BY <1>3, <3>4 DEF notes
      <4>2. Put(rest, i, notes[i]) = notes
        BY <3>1, <3>3, <3>4, PutReturns
      <4>3. Resequenced(e.patterns[p], p, i, lost) =
              [e.patterns[p] EXCEPT !.notes = Put(@, i, notes[i])]
        BY <4>1 DEF Resequenced
      <4>4. Resequenced(e.patterns[p], p, i, lost) = [length |-> d.patterns[p].length, notes |-> notes]
        BY <3>2, <4>2, <4>3
      <4> QED BY <3>1, <4>4
    <3>5. CASE i \notin DOMAIN notes
      <4>1. rest = notes
        BY <3>1, <3>3, <3>5 DEF IsMap
      <4>2. p \notin DOMAIN lost.sequences
        BY <1>3, <3>5 DEF notes
      <4> QED BY <3>1, <3>2, <4>1, <4>2 DEF Resequenced
    <3> QED BY <3>4, <3>5
  <2>3. [p \in DOMAIN e.patterns |-> Resequenced(e.patterns[p], p, i, lost)] =
          [p \in DOMAIN d.patterns |-> d.patterns[p]]
    BY <2>1, <2>2
  <2> QED BY <2>3, TablesAreMaps DEF IsMap
<1>9. ClipsBack(e, lost) = d.clips
  <2>1. /\ ClipsLostWith(d, "instruments", i) = InstrumentCurves(d, i)
        /\ {} \in SUBSET DOMAIN d.clips
        /\ InstrumentCurves(d, i) \in SUBSET DOMAIN d.clips
    BY ClipsLost
  <2>2. e.clips = [k \in DOMAIN d.clips \ InstrumentCurves(d, i) |-> d.clips[k]]
    BY <1>1, <1>7
  <2>3. /\ IsMap(e.clips) /\ DOMAIN e.clips \cup InstrumentCurves(d, i) = DOMAIN d.clips
        /\ \A c \in DOMAIN e.clips \ {} : e.clips[c] = d.clips[c]
    BY <2>1, <2>2 DEF IsMap
  <2>4. /\ lost.clips = Restrict(d.clips, InstrumentCurves(d, i))
        /\ lost.repointed = Restrict(d.clips, {})
    BY <1>2, <1>5, <2>1
  <2> QED BY <2>1, <2>3, <2>4, TablesAreMaps, ClipsAreBack
<1>10. /\ [k \in DOMAIN d.instruments |-> Rerouted(d.instruments[k], k, i, lost)] = d.instruments
       /\ [l \in DOMAIN d.lanes |-> Regrouped(d.lanes[l], l, i, lost)] = d.lanes
       /\ [t \in DOMAIN d.tracks |-> Refed(d.tracks[t], t, i, lost)] = d.tracks
  <2>1. IsMap(d.instruments) /\ IsMap(d.lanes) /\ IsMap(d.tracks)
    BY TablesAreMaps
  <2> QED BY <1>5, <2>1 DEF Rerouted, Regrouped, Refed, IsMap
<1>11. /\ IsRecord(e) /\ e.transport = d.transport /\ e.instruments = d.instruments
       /\ e.lanes = d.lanes /\ e.tracks = d.tracks
  BY <1>7 DEF IsRecord
<1>12. IsRecord(d) /\ e = Restore(g, "instruments", i, lost.entity)
  BY TablesAreMaps DEF e
<1>13. PutBack(g, "instruments", i, lost) = d
  BY <1>8, <1>9, <1>10, <1>11, <1>12, AllBack
<1> QED BY <1>13 DEF g, lost

LEMMA TrackReturns ==
  ASSUME NEW d, IsDocument(d), Integrity(d), NEW t \in DOMAIN d.tracks, t # Master
  PROVE  PutBack(DeleteMixerTrack(d, t), "tracks", t, Captured(d, "tracks", t)) = d
<1> DEFINE g == DeleteMixerTrack(d, t)
           lost == Captured(d, "tracks", t)
           e == Restore(g, "tracks", t, lost.entity)
<1>1. /\ IsRecord(g) /\ g.patterns = d.patterns /\ g.lanes = d.lanes /\ g.transport = d.transport
      /\ g.instruments = [k \in DOMAIN d.instruments |-> ToMaster(d.instruments[k], t)]
      /\ g.tracks = [k \in DOMAIN d.tracks \ {t} |-> Fed(d.tracks[k], t)]
      /\ g.clips = [c \in DOMAIN d.clips \ TrackCurves(d, t) |-> Repointed(d, c, t)]
  BY TrackDeleted
<1>2. /\ lost.entity = d["tracks"][t]
      /\ lost.clips = Restrict(d.clips, ClipsLostWith(d, "tracks", t))
      /\ lost.repointed = Restrict(d.clips, ClipsPlayingInto(d, t))
  BY CapturedIs
<1>3. /\ lost.routed = {i \in DOMAIN d.instruments : d.instruments[i].track = t}
      /\ lost.inputs = {k \in DOMAIN d.tracks : d.tracks[k].output = t}
  BY DEF Captured
<1>4. t # NoId /\ t \notin DOMAIN d.instruments /\ t \notin DOMAIN d.lanes
  BY OneTable DEF Tables
<1>5. DOMAIN lost.sequences = {} /\ lost.grouped = {}
  BY <1>4, NothingRefers
<1> HIDE DEF g, lost
<1>6. e = [instruments |-> g.instruments, patterns |-> d.patterns, lanes |-> d.lanes,
           clips |-> g.clips, tracks |-> Put(g.tracks, t, d.tracks[t]), transport |-> d.transport]
  BY <1>1, <1>2, RestoreIs
<1> HIDE DEF e
<1>7. [i \in DOMAIN e.instruments |-> Rerouted(e.instruments[i], i, t, lost)] = d.instruments
  <2>1. e.instruments = [k \in DOMAIN d.instruments |-> ToMaster(d.instruments[k], t)]
    BY <1>1, <1>6
  <2>2. ASSUME NEW i \in DOMAIN d.instruments
        PROVE  Rerouted(e.instruments[i], i, t, lost) = d.instruments[i]
    <3>1. d.instruments[i] = [track |-> d.instruments[i].track, plugin |-> d.instruments[i].plugin]
      BY DEF IsDocument, IsInstrument
    <3>2. CASE d.instruments[i].track = t
      <4>1. e.instruments[i] = [track |-> Master, plugin |-> d.instruments[i].plugin]
        BY <2>1, <3>1, <3>2 DEF ToMaster
      <4>2. Rerouted(e.instruments[i], i, t, lost) = [e.instruments[i] EXCEPT !.track = t]
        BY <1>3, <3>2 DEF Rerouted
      <4> QED BY <3>1, <3>2, <4>1, <4>2
    <3>3. CASE d.instruments[i].track # t
      BY <1>3, <2>1, <3>3 DEF ToMaster, Rerouted
    <3> QED BY <3>2, <3>3
  <2>3. [i \in DOMAIN e.instruments |-> Rerouted(e.instruments[i], i, t, lost)] =
          [i \in DOMAIN d.instruments |-> d.instruments[i]]
    BY <2>1, <2>2
  <2> QED BY <2>3, TablesAreMaps DEF IsMap
<1>8. [k \in DOMAIN e.tracks |-> Refed(e.tracks[k], k, t, lost)] = d.tracks
  <2>1. e.tracks = [k \in DOMAIN d.tracks |-> IF k = t THEN d.tracks[t] ELSE Fed(d.tracks[k], t)]
    BY <1>1, <1>6 DEF Put
  <2>2. ASSUME NEW k \in DOMAIN d.tracks
        PROVE  Refed(e.tracks[k], k, t, lost) = d.tracks[k]
    <3>1. d.tracks[k] = [output |-> d.tracks[k].output, effects |-> d.tracks[k].effects]
      BY DEF IsDocument, IsTrack
    <3>2. CASE k = t
      <4>1. \E s \in {t} : d.tracks[s].output \notin {t}
        BY DEF Integrity, TracksResolve
      <4> QED BY <1>3, <2>1, <3>2, <4>1 DEF Refed
    <3>3. CASE k # t /\ d.tracks[k].output = t
      <4>1. e.tracks[k] = [output |-> Master, effects |-> d.tracks[k].effects]
        BY <2>1, <3>1, <3>3 DEF Fed
      <4>2. Refed(e.tracks[k], k, t, lost) = [e.tracks[k] EXCEPT !.output = t]
        BY <1>3, <3>3 DEF Refed
      <4> QED BY <3>1, <3>3, <4>1, <4>2
    <3>4. CASE k # t /\ d.tracks[k].output # t
      BY <1>3, <2>1, <3>4 DEF Fed, Refed
    <3> QED BY <3>2, <3>3, <3>4
  <2>3. [k \in DOMAIN e.tracks |-> Refed(e.tracks[k], k, t, lost)] = [k \in DOMAIN d.tracks |-> d.tracks[k]]
    BY <2>1, <2>2
  <2> QED BY <2>3, TablesAreMaps DEF IsMap
<1>9. ClipsBack(e, lost) = d.clips
  <2>1. /\ ClipsLostWith(d, "tracks", t) = TrackCurves(d, t)
        /\ TrackCurves(d, t) \in SUBSET DOMAIN d.clips
        /\ ClipsPlayingInto(d, t) \in SUBSET DOMAIN d.clips
    BY ClipsLost
  <2>2. e.clips = [c \in DOMAIN d.clips \ TrackCurves(d, t) |-> Repointed(d, c, t)]
    BY <1>1, <1>6
  <2>3. /\ IsMap(e.clips) /\ DOMAIN e.clips \cup TrackCurves(d, t) = DOMAIN d.clips
        /\ \A c \in DOMAIN e.clips \ ClipsPlayingInto(d, t) : e.clips[c] = d.clips[c]
    BY <2>1, <2>2 DEF IsMap, Repointed
  <2>4. lost.clips = Restrict(d.clips, TrackCurves(d, t))
    BY <1>2, <2>1
  <2> QED BY <1>2, <2>1, <2>3, <2>4, TablesAreMaps, ClipsAreBack
<1>10. /\ [p \in DOMAIN d.patterns |-> Resequenced(d.patterns[p], p, t, lost)] = d.patterns
       /\ [l \in DOMAIN d.lanes |-> Regrouped(d.lanes[l], l, t, lost)] = d.lanes
  <2>1. IsMap(d.patterns) /\ IsMap(d.lanes)
    BY TablesAreMaps
  <2> QED BY <1>5, <2>1 DEF Resequenced, Regrouped, IsMap
<1>11. /\ IsRecord(e) /\ e.transport = d.transport /\ e.patterns = d.patterns /\ e.lanes = d.lanes
  BY <1>6 DEF IsRecord
<1>12. IsRecord(d) /\ e = Restore(g, "tracks", t, lost.entity)
  BY TablesAreMaps DEF e
<1>13. PutBack(g, "tracks", t, lost) = d
  BY <1>7, <1>8, <1>9, <1>10, <1>11, <1>12, AllBack
<1> QED BY <1>13 DEF g, lost

\* What is deleted is gone.
LEMMA DeletedIsGone ==
  ASSUME NEW d, IsDocument(d), NEW id
  PROVE  /\ id \notin DOMAIN DeleteInstrument(d, id).instruments
         /\ id \notin DOMAIN DeletePattern(d, id).patterns
         /\ id \notin DOMAIN DeleteLane(d, id).lanes
         /\ id \notin DOMAIN DeleteClip(d, id).clips
         /\ id \notin DOMAIN DeleteMixerTrack(d, id).tracks
<1> DEFINE e == DeleteInstrument(d, id)
           f == DeletePattern(d, id)
           g == DeleteLane(d, id)
           h == DeleteClip(d, id)
           m == DeleteMixerTrack(d, id)
<1>1. e.instruments = [k \in DOMAIN d.instruments \ {id} |-> d.instruments[k]]
  BY InstrumentDeleted
<1>2. f.patterns = [k \in DOMAIN d.patterns \ {id} |-> d.patterns[k]]
  BY PatternDeleted
<1>3. /\ g.patterns = d.patterns
      /\ g.lanes = [k \in DOMAIN d.lanes \ {id} |-> Ungrouped(d.lanes[k], id)]
      /\ g.clips = [k \in DOMAIN d.clips \ ClipsOnLane(d, id) |-> d.clips[k]]
  BY LaneDeleted
<1>4. h.clips = [k \in DOMAIN d.clips \ {id} |-> d.clips[k]]
  BY ClipDeleted
<1>5. /\ m.instruments = [i \in DOMAIN d.instruments |-> ToMaster(d.instruments[i], id)]
      /\ m.patterns = d.patterns
      /\ m.tracks = [k \in DOMAIN d.tracks \ {id} |-> Fed(d.tracks[k], id)]
      /\ m.clips = [c \in DOMAIN d.clips \ TrackCurves(d, id) |-> Repointed(d, c, id)]
  BY TrackDeleted
<1> HIDE DEF e, f, g, h, m
<1>6. /\ id \notin DOMAIN e.instruments /\ id \notin DOMAIN f.patterns /\ id \notin DOMAIN g.lanes
      /\ id \notin DOMAIN h.clips /\ id \notin DOMAIN m.tracks
  BY <1>1, <1>2, <1>3, <1>4, <1>5
<1> QED BY <1>6 DEF e, f, g, h, m

LEMMA RemovalReturns ==
  ASSUME NEW d, IsDocument(d), Integrity(d), NEW table \in Tables, NEW id, CanDelete(d, table, id)
  PROVE  LET g == Delete(d, table, id)
         IN  id \notin DOMAIN g[table] /\ PutBack(g, table, id, Captured(d, table, id)) = d
<1> DEFINE g == Delete(d, table, id)
<1>1. CASE table = "instruments"
  <2>1. g = DeleteInstrument(d, id) /\ id \in DOMAIN d.instruments
    BY <1>1 DEF Delete, CanDelete
  <2>2. id \notin DOMAIN DeleteInstrument(d, id).instruments
    BY DeletedIsGone
  <2> QED BY <1>1, <2>1, <2>2, InstrumentReturns
<1>2. CASE table = "patterns"
  <2>1. g = DeletePattern(d, id) /\ id \in DOMAIN d.patterns
    BY <1>2 DEF Delete, CanDelete
  <2>2. id \notin DOMAIN DeletePattern(d, id).patterns
    BY DeletedIsGone
  <2> QED BY <1>2, <2>1, <2>2, PatternReturns
<1>3. CASE table = "lanes"
  <2>1. g = DeleteLane(d, id) /\ id \in DOMAIN d.lanes
    BY <1>3 DEF Delete, CanDelete
  <2>2. id \notin DOMAIN DeleteLane(d, id).lanes
    BY DeletedIsGone
  <2> QED BY <1>3, <2>1, <2>2, LaneReturns
<1>4. CASE table = "clips"
  <2>1. g = DeleteClip(d, id) /\ id \in DOMAIN d.clips
    BY <1>4 DEF Delete, CanDelete
  <2>2. id \notin DOMAIN DeleteClip(d, id).clips
    BY DeletedIsGone
  <2> QED BY <1>4, <2>1, <2>2, ClipReturns
<1>5. CASE table = "tracks"
  <2>1. g = DeleteMixerTrack(d, id) /\ id \in DOMAIN d.tracks /\ id # Master
    BY <1>5 DEF Delete, CanDelete
  <2>2. id \notin DOMAIN DeleteMixerTrack(d, id).tracks
    BY DeletedIsGone
  <2> QED BY <1>5, <2>1, <2>2, TrackReturns
<1> QED BY <1>1, <1>2, <1>3, <1>4, <1>5 DEF Tables

-----------------------------------------------------------------------------
(* Lengths of clips, and the sequences of a pattern *)

Relength(clips, lengths) ==
  [c \in DOMAIN clips |-> IF c \in DOMAIN lengths THEN [clips[c] EXCEPT !.length = lengths[c]]
                                                  ELSE clips[c]]

LEMMA SetLengthsIs ==
  ASSUME NEW d, IsRecord(d), NEW lengths
  PROVE  /\ IsRecord(SetLengths(d, lengths))
         /\ SetLengths(d, lengths).instruments = d.instruments
         /\ SetLengths(d, lengths).patterns = d.patterns
         /\ SetLengths(d, lengths).lanes = d.lanes
         /\ SetLengths(d, lengths).tracks = d.tracks
         /\ SetLengths(d, lengths).transport = d.transport
         /\ SetLengths(d, lengths).clips = Relength(d.clips, lengths)
<1> DEFINE clips == Relength(d.clips, lengths)
<1>1. SetLengths(d, lengths) = [d EXCEPT !.clips = clips]
  BY DEF SetLengths, Relength
<1> HIDE DEF clips
<1>2. SetLengths(d, lengths) =
        [instruments |-> d.instruments, patterns |-> d.patterns, lanes |-> d.lanes,
         clips |-> clips, tracks |-> d.tracks, transport |-> d.transport]
  BY <1>1 DEF IsRecord
<1> QED BY <1>2 DEF IsRecord, clips

\* Clips that are given the lengths they had are as they were.
LEMMA LengthsReturn ==
  ASSUME NEW clips, IsMap(clips), \A c \in DOMAIN clips : IsClip(clips[c]),
         NEW lengths, NEW had, DOMAIN lengths = DOMAIN had,
         \A c \in DOMAIN had : c \in DOMAIN clips /\ had[c] = clips[c].length
  PROVE  Relength(Relength(clips, lengths), had) = clips
<1> DEFINE meanwhile == Relength(clips, lengths)
<1>1. DOMAIN meanwhile = DOMAIN clips
  BY DEF Relength
<1>2. ASSUME NEW c \in DOMAIN clips
      PROVE  (IF c \in DOMAIN had THEN [meanwhile[c] EXCEPT !.length = had[c]]
                                  ELSE meanwhile[c]) = clips[c]
  <2>1. clips[c] = [lane |-> clips[c].lane, source |-> clips[c].source, length |-> clips[c].length]
    BY DEF IsClip
  <2>2. CASE c \in DOMAIN had
    <3>1. meanwhile[c] = [clips[c] EXCEPT !.length = lengths[c]]
      BY <2>2 DEF Relength
    <3> HIDE DEF meanwhile
    <3>2. meanwhile[c] = [lane |-> clips[c].lane, source |-> clips[c].source, length |-> lengths[c]]
      BY <2>1, <3>1
    <3>3. [meanwhile[c] EXCEPT !.length = had[c]] =
            [lane |-> clips[c].lane, source |-> clips[c].source, length |-> had[c]]
      BY <3>2
    <3> QED BY <2>1, <2>2, <3>3
  <2>3. CASE c \notin DOMAIN had
    BY <2>3 DEF Relength
  <2> QED BY <2>2, <2>3
<1> HIDE DEF meanwhile
<1>3. Relength(meanwhile, had) = [c \in DOMAIN clips |-> clips[c]]
  BY <1>1, <1>2 DEF Relength
<1> QED BY <1>3 DEF IsMap, meanwhile

SequenceIn(notes, i) == IF i \in DOMAIN notes THEN notes[i] ELSE {}
Sequenced(notes, i, some) == IF some = {} THEN Without(notes, {i}) ELSE Put(notes, i, some)

LEMMA SequencedIs ==
  ASSUME NEW notes, IsMap(notes), NEW i, NEW some
  PROVE  /\ IsMap(Sequenced(notes, i, some))
         /\ DOMAIN Sequenced(notes, i, some) =
              IF some = {} THEN DOMAIN notes \ {i} ELSE DOMAIN notes \cup {i}
         /\ SequenceIn(Sequenced(notes, i, some), i) = some
<1>1. CASE some = {}
  <2>1. Sequenced(notes, i, some) = [k \in DOMAIN notes \ {i} |-> notes[k]]
    BY <1>1, WithoutIs DEF Sequenced
  <2> QED BY <1>1, <2>1 DEF IsMap, SequenceIn
<1>2. CASE some # {}
  <2>1. Sequenced(notes, i, some) =
          [k \in DOMAIN notes \cup {i} |-> IF k = i THEN some ELSE notes[k]]
    BY <1>2 DEF Sequenced, Put
  <2> QED BY <1>2, <2>1 DEF IsMap, SequenceIn
<1> QED BY <1>1, <1>2

LEMMA SequencedKeeps ==
  ASSUME NEW notes, NEW i, NEW some, NEW k \in DOMAIN notes, k # i
  PROVE  Sequenced(notes, i, some)[k] = notes[k]
BY WithoutIs DEF Sequenced, Put

\* The map of sequences is sparse: giving a channel its notes back is exact.
LEMMA SequenceReturns ==
  ASSUME NEW notes, IsMap(notes), {} \notin Range(notes), NEW i, NEW some
  PROVE  Sequenced(Sequenced(notes, i, some), i, SequenceIn(notes, i)) = notes
<1> DEFINE meanwhile == Sequenced(notes, i, some)
           had == SequenceIn(notes, i)
           again == Sequenced(meanwhile, i, had)
<1>1. /\ IsMap(meanwhile) /\ DOMAIN meanwhile \cup {i} = DOMAIN notes \cup {i}
      /\ \A k \in DOMAIN notes : k # i => meanwhile[k] = notes[k]
  <2>1. DOMAIN meanwhile = IF some = {} THEN DOMAIN notes \ {i} ELSE DOMAIN notes \cup {i}
    BY SequencedIs
  <2>2. IsMap(meanwhile)
    BY SequencedIs
  <2>3. \A k \in DOMAIN notes : k # i => meanwhile[k] = notes[k]
    BY SequencedKeeps
  <2> HIDE DEF meanwhile
  <2> QED BY <2>1, <2>2, <2>3
<1>2. had = {} <=> i \notin DOMAIN notes
  BY DEF SequenceIn, Range
<1> HIDE DEF meanwhile
<1>3. /\ IsMap(again)
      /\ DOMAIN again = IF had = {} THEN DOMAIN meanwhile \ {i} ELSE DOMAIN meanwhile \cup {i}
      /\ SequenceIn(again, i) = had
      /\ \A k \in DOMAIN meanwhile : k # i => again[k] = meanwhile[k]
  <2> HIDE DEF had
  <2>1. IsMap(again) /\ SequenceIn(again, i) = had
    BY <1>1, SequencedIs, ZenonT(40)
  <2>2. DOMAIN again = IF had = {} THEN DOMAIN meanwhile \ {i} ELSE DOMAIN meanwhile \cup {i}
    BY <1>1, SequencedIs
  <2>3. \A k \in DOMAIN meanwhile : k # i => again[k] = meanwhile[k]
    BY SequencedKeeps
  <2> HIDE DEF again
  <2> QED BY <2>1, <2>2, <2>3
<1>4. DOMAIN again = DOMAIN notes
  BY <1>1, <1>2, <1>3
<1>5. ASSUME NEW k \in DOMAIN notes
      PROVE  again[k] = notes[k]
  <2>1. CASE k = i
    BY <1>2, <1>3, <1>4, <2>1 DEF SequenceIn
  <2>2. CASE k # i
    BY <1>1, <1>3, <2>2
  <2> QED BY <2>1, <2>2
<1> HIDE DEF again
<1>6. again = notes
  BY <1>3, <1>4, <1>5 DEF IsMap
<1> QED BY <1>6 DEF again, meanwhile

LEMMA PutKnown ==
  ASSUME NEW f, NEW k \in DOMAIN f, NEW v
  PROVE  Put(f, k, v) = [j \in DOMAIN f |-> IF j = k THEN v ELSE f[j]]
<1>1. DOMAIN f \cup {k} = DOMAIN f
  OBVIOUS
<1> QED BY <1>1 DEF Put

LEMMA RestoreSequenceIs ==
  ASSUME NEW d, IsRecord(d), IsMap(d.patterns), NEW p \in DOMAIN d.patterns,
         d.patterns[p] = [length |-> d.patterns[p].length, notes |-> d.patterns[p].notes],
         NEW i, NEW some,
         NEW e, e = RestoreSequence(d, p, i, some)
  PROVE  /\ IsRecord(e)
         /\ e.instruments = d.instruments /\ e.lanes = d.lanes /\ e.clips = d.clips
         /\ e.tracks = d.tracks /\ e.transport = d.transport
         /\ e.patterns = [k \in DOMAIN d.patterns |->
                            IF k = p THEN [length |-> d.patterns[p].length,
                                           notes |-> Sequenced(d.patterns[p].notes, i, some)]
                                     ELSE d.patterns[k]]
<1> DEFINE entry == [length |-> d.patterns[p].length,
                     notes |-> Sequenced(d.patterns[p].notes, i, some)]
           patterns == [k \in DOMAIN d.patterns |-> IF k = p THEN entry ELSE d.patterns[k]]
<1>1. e = [d EXCEPT !.patterns = Put(d.patterns, p,
             [d.patterns[p] EXCEPT !.notes = IF some = {} THEN Without(d.patterns[p].notes, {i})
                                             ELSE Put(d.patterns[p].notes, i, some)])]
  BY DEF RestoreSequence, IsRecord
<1>2. e = [d EXCEPT !.patterns = Put(d.patterns, p,
             [d.patterns[p] EXCEPT !.notes = Sequenced(d.patterns[p].notes, i, some)])]
  BY <1>1 DEF Sequenced
<1>3. [d.patterns[p] EXCEPT !.notes = Sequenced(d.patterns[p].notes, i, some)] = entry
  OBVIOUS
<1>4. Put(d.patterns, p, entry) = patterns
  <2> HIDE DEF entry
  <2> QED BY PutKnown DEF patterns
<1>5. e = [d EXCEPT !.patterns = patterns]
  BY <1>2, <1>3, <1>4
<1> HIDE DEF patterns
<1>6. e = [instruments |-> d.instruments, patterns |-> patterns, lanes |-> d.lanes,
           clips |-> d.clips, tracks |-> d.tracks, transport |-> d.transport]
  BY <1>5 DEF IsRecord
<1> QED BY <1>6 DEF IsRecord, patterns

-----------------------------------------------------------------------------
(* Every other command, taken back *)

Filled(d, table, f) == [d EXCEPT ![table] = f]

LEMMA TableWritten ==
  ASSUME NEW d, IsRecord(d), NEW table \in Tables, NEW f
  PROVE  /\ Filled(d, table, f)[table] = f
         /\ DOMAIN Filled(d, table, f) = DOMAIN d
         /\ Filled(Filled(d, table, f), table, d[table]) = d
<1>1. CASE table = "instruments"
  BY <1>1 DEF IsRecord, Filled
<1>2. CASE table = "patterns"
  BY <1>2 DEF IsRecord, Filled
<1>3. CASE table = "lanes"
  BY <1>3 DEF IsRecord, Filled
<1>4. CASE table = "clips"
  BY <1>4 DEF IsRecord, Filled
<1>5. CASE table = "tracks"
  BY <1>5 DEF IsRecord, Filled
<1> QED BY <1>1, <1>2, <1>3, <1>4, <1>5 DEF Tables

LEMMA TablesAreThere ==
  ASSUME NEW d, IsRecord(d), NEW table \in Tables
  PROVE  table \in DOMAIN d
<1>1. DOMAIN d = {"instruments", "patterns", "lanes", "clips", "tracks", "transport"}
  BY DEF IsRecord
<1> QED BY <1>1 DEF Tables

LEMMA TablesMap ==
  ASSUME NEW d, IsDocument(d), NEW table \in Tables
  PROVE  IsMap(d[table])
BY DEF IsDocument, Tables

LEMMA UpdateIs ==
  ASSUME NEW d, IsRecord(d), NEW table \in Tables, NEW id \in DOMAIN d[table], NEW value
  PROVE  Update(d, table, id, value) =
           Filled(d, table, [d[table] EXCEPT ![id] = Written(d[table][id], table, value)])
<1>1. table \in DOMAIN d
  BY TablesAreThere
<1>2. Put(d[table], id, Written(d[table][id], table, value)) =
        [d[table] EXCEPT ![id] = Written(d[table][id], table, value)]
  BY PutKnown
<1> QED BY <1>1, <1>2 DEF Update, Filled

LEMMA EditReturns ==
  ASSUME NEW d, IsDocument(d), NEW table \in Tables, NEW id \in DOMAIN d[table], NEW after
  PROVE  LET e == Update(d, table, id, after)
         IN  id \in DOMAIN e[table] /\ Update(e, table, id, d[table][id]) = d
<1> DEFINE e == Update(d, table, id, after)
           x == Written(d[table][id], table, after)
           f == [d[table] EXCEPT ![id] = x]
<1>1. IsRecord(d) /\ IsMap(d[table])
  BY TablesMap DEF IsDocument
<1>2. e = Filled(d, table, f)
  BY <1>1, UpdateIs
<1>3. Written(x, table, d[table][id]) = d[table][id]
  <2>1. CASE table = "patterns"
    <3>1. d.patterns[id] = [length |-> d.patterns[id].length, notes |-> d.patterns[id].notes]
      BY <2>1 DEF IsDocument, IsPattern
    <3>2. x = [d.patterns[id] EXCEPT !.length = after.length]
      BY <2>1 DEF Written
    <3> HIDE DEF x
    <3>3. x = [length |-> after.length, notes |-> d.patterns[id].notes]
      BY <3>1, <3>2
    <3>4. Written(x, table, d[table][id]) = [x EXCEPT !.length = d.patterns[id].length]
      BY <2>1 DEF Written
    <3> QED BY <2>1, <3>1, <3>3, <3>4
  <2>2. CASE table # "patterns"
    BY <2>2 DEF Written
  <2> QED BY <2>1, <2>2
<1> HIDE DEF x, e, f
<1>4. e[table] = f /\ DOMAIN e = DOMAIN d /\ Filled(e, table, d[table]) = d
  BY <1>1, <1>2, TableWritten
<1>5. /\ DOMAIN f = DOMAIN d[table] /\ f[id] = x /\ [f EXCEPT ![id] = d[table][id]] = d[table]
  BY <1>1 DEF IsMap, f
<1>6. Update(e, table, id, d[table][id]) = Filled(e, table, [f EXCEPT ![id] = d[table][id]])
  <2>1. table \in DOMAIN e
    BY <1>1, <1>4, TablesAreThere
  <2>2. Put(f, id, d[table][id]) = [f EXCEPT ![id] = d[table][id]]
    BY <1>5, PutKnown
  <2> QED BY <1>3, <1>4, <1>5, <2>1, <2>2 DEF Update, Filled
<1>7. id \in DOMAIN e[table] /\ Update(e, table, id, d[table][id]) = d
  BY <1>4, <1>5, <1>6
<1> QED BY <1>7 DEF e

\* Notes: the sequence gets back what was taken, the clips that followed their length.
LEMMA NotesReturn ==
  ASSUME NEW d, IsDocument(d), Integrity(d), NEW p \in DOMAIN d.patterns,
         NEW i \in DOMAIN d.instruments, NEW take, NEW give, take \subseteq SequenceOf(d, p, i),
         give \cap SequenceOf(d, p, i) \subseteq take,
         NEW e, e = EditSequence(d, p, i, take, give),
         NEW had, had = Resized(d, e, p),
         NEW f, f = FollowPatternLength(d, e, p)
  PROVE  /\ CanEditSequence(f, p, i, give)
         /\ SetLengths(EditSequence(f, p, i, give, take), had) = d
<1> DEFINE seq   == SequenceOf(d, p, i)
           now   == (seq \ take) \cup give
           notes == d.patterns[p].notes
           lengths == [c \in DOMAIN had |-> EffectiveLength(e.patterns[p])]
<1>1. /\ IsRecord(d) /\ IsMap(d.patterns) /\ IsMap(d.clips)
      /\ d.patterns[p] = [length |-> d.patterns[p].length, notes |-> notes]
      /\ IsMap(notes) /\ {} \notin Range(notes)
      /\ \A c \in DOMAIN d.clips : IsClip(d.clips[c])
  BY DEF IsDocument, IsPattern, Integrity, SequencesResolve
<1>2. seq = SequenceIn(notes, i)
  BY DEF SequenceOf, SequenceIn
<1>3. e = RestoreSequence(d, p, i, now)
  BY DEF EditSequence
<1> HIDE DEF now
<1>4. /\ IsRecord(e)
      /\ e.instruments = d.instruments /\ e.lanes = d.lanes /\ e.clips = d.clips
      /\ e.tracks = d.tracks /\ e.transport = d.transport
      /\ e.patterns = [k \in DOMAIN d.patterns |->
                         IF k = p THEN [length |-> d.patterns[p].length,
                                        notes |-> Sequenced(notes, i, now)]
                                  ELSE d.patterns[k]]
  BY <1>1, <1>3, RestoreSequenceIs
<1>5. f = SetLengths(e, lengths)
  BY DEF FollowPatternLength
<1>6. DOMAIN lengths = DOMAIN had
  OBVIOUS
<1> HIDE DEF lengths, seq
<1>7. /\ IsRecord(f)
      /\ f.instruments = d.instruments /\ f.lanes = d.lanes /\ f.tracks = d.tracks
      /\ f.transport = d.transport /\ f.patterns = e.patterns
      /\ f.clips = Relength(d.clips, lengths)
  BY <1>4, <1>5, SetLengthsIs
<1>8. \A c \in DOMAIN had : c \in DOMAIN d.clips /\ had[c] = d.clips[c].length
  <2> DEFINE before == EffectiveLength(d.patterns[p])
  <2>1. CASE EffectiveLength(e.patterns[p]) = before
    <3>1. had = <<>>
      BY <2>1 DEF Resized
    <3> QED BY <3>1
  <2>2. CASE EffectiveLength(e.patterns[p]) # before
    <3> HIDE DEF before
    <3>1. had = [c \in Followers(e, p, before) |-> before]
      BY <2>2 DEF Resized, before
    <3>2. \A c \in Followers(e, p, before) : c \in DOMAIN d.clips /\ d.clips[c].length = before
      BY <1>4 DEF Followers, ClipsUsingPattern, ClipsWhere
    <3> QED BY <3>1, <3>2
  <2> QED BY <2>1, <2>2
<1>9. /\ IsMap(f.patterns) /\ p \in DOMAIN f.patterns
      /\ f.patterns[p] = [length |-> d.patterns[p].length, notes |-> Sequenced(notes, i, now)]
  BY <1>4, <1>7 DEF IsMap
<1>10. SequenceOf(f, p, i) = now
  <2>1. SequenceIn(Sequenced(notes, i, now), i) = now
    BY <1>1, SequencedIs, ZenonT(40)
  <2>2. f.patterns[p].notes = Sequenced(notes, i, now)
    BY <1>9
  <2> QED BY <2>1, <2>2 DEF SequenceOf, SequenceIn
<1>11. CanEditSequence(f, p, i, give)
  BY <1>7, <1>9, <1>10 DEF CanEditSequence, CanRestoreSequence, now
<1>12. (now \ give) \cup take = seq
  BY DEF now, seq
<1> DEFINE g == EditSequence(f, p, i, give, take)
<1>13. g = RestoreSequence(f, p, i, seq)
  BY <1>10, <1>12 DEF EditSequence
<1> HIDE DEF g, notes
<1>14. /\ IsRecord(g)
       /\ g.instruments = f.instruments /\ g.lanes = f.lanes /\ g.clips = f.clips
       /\ g.tracks = f.tracks /\ g.transport = f.transport
       /\ g.patterns = [k \in DOMAIN f.patterns |->
                          IF k = p THEN [length |-> f.patterns[p].length,
                                         notes |-> Sequenced(f.patterns[p].notes, i, seq)]
                                   ELSE f.patterns[k]]
  <2>1. f.patterns[p] = [length |-> f.patterns[p].length, notes |-> f.patterns[p].notes]
    BY <1>9
  <2> QED BY <1>7, <1>9, <1>13, <2>1, RestoreSequenceIs
<1>15. g.patterns = d.patterns
  <2>1. Sequenced(Sequenced(notes, i, now), i, seq) = notes
    BY <1>1, <1>2, SequenceReturns
  <2>2. g.patterns = [k \in DOMAIN d.patterns |->
                        IF k = p THEN [length |-> d.patterns[p].length, notes |-> notes]
                                 ELSE d.patterns[k]]
    <3>1. f.patterns[p].length = d.patterns[p].length /\ f.patterns[p].notes = Sequenced(notes, i, now)
      BY <1>9
    <3>2. DOMAIN f.patterns = DOMAIN d.patterns /\ \A k \in DOMAIN d.patterns : k # p => f.patterns[k] = d.patterns[k]
      BY <1>4, <1>7
    <3> QED BY <1>14, <2>1, <3>1, <3>2
  <2>3. g.patterns = [k \in DOMAIN d.patterns |-> d.patterns[k]]
    BY <1>1, <2>2
  <2> QED BY <1>1, <2>3 DEF IsMap
<1> DEFINE h == SetLengths(g, had)
<1>16. /\ IsRecord(h)
       /\ h.instruments = d.instruments /\ h.patterns = d.patterns /\ h.lanes = d.lanes
       /\ h.tracks = d.tracks /\ h.transport = d.transport /\ h.clips = Relength(g.clips, had)
  BY <1>7, <1>14, <1>15, SetLengthsIs
<1>17. Relength(g.clips, had) = d.clips
  BY <1>1, <1>6, <1>7, <1>8, <1>14, LengthsReturn
<1> HIDE DEF h
<1>18. h = d
  BY <1>1, <1>16, <1>17 DEF IsRecord
<1> QED BY <1>11, <1>18 DEF h, g

LEMMA TempoReturns ==
  ASSUME NEW d, IsDocument(d), NEW after, NEW from, NEW to,
         NEW had, had = OriginalLengths(d, from, to),
         NEW f, f = RescaleAudioClips([d EXCEPT !.transport = after], from, to)
  PROVE  SetLengths([f EXCEPT !.transport = d.transport], had) = d
<1> DEFINE e == [d EXCEPT !.transport = after]
           lengths == [c \in DOMAIN OriginalLengths(e, from, to) |->
                         Rescaled(OriginalLengths(e, from, to)[c], from, to)]
<1>1. IsRecord(d) /\ IsMap(d.clips) /\ \A c \in DOMAIN d.clips : IsClip(d.clips[c])
  BY DEF IsDocument
<1>2. e = [instruments |-> d.instruments, patterns |-> d.patterns, lanes |-> d.lanes,
           clips |-> d.clips, tracks |-> d.tracks, transport |-> after]
  BY <1>1 DEF IsRecord
<1>3. f = SetLengths(e, lengths)
  BY DEF RescaleAudioClips
<1> HIDE DEF e, lengths
<1>4. OriginalLengths(e, from, to) = had
  <2>1. e.clips = d.clips
    BY <1>2
  <2>2. AudioClips(e) = AudioClips(d)
    BY <2>1 DEF AudioClips, ClipsWhere
  <2> QED BY <2>1, <2>2 DEF OriginalLengths
<1>5. DOMAIN lengths = DOMAIN had
  BY <1>4 DEF lengths
<1>6. IsRecord(e)
  BY <1>2 DEF IsRecord
<1>7. /\ IsRecord(f) /\ f.instruments = d.instruments /\ f.patterns = d.patterns
      /\ f.lanes = d.lanes /\ f.tracks = d.tracks /\ f.clips = Relength(d.clips, lengths)
  BY <1>2, <1>3, <1>6, SetLengthsIs
<1> DEFINE g == [f EXCEPT !.transport = d.transport]
<1>8. g = [instruments |-> d.instruments, patterns |-> d.patterns, lanes |-> d.lanes,
           clips |-> f.clips, tracks |-> d.tracks, transport |-> d.transport]
  BY <1>7 DEF IsRecord
<1> HIDE DEF g
<1>9. IsRecord(g)
  BY <1>8 DEF IsRecord
<1> DEFINE h == SetLengths(g, had)
<1>10. /\ IsRecord(h) /\ h.instruments = d.instruments /\ h.patterns = d.patterns
       /\ h.lanes = d.lanes /\ h.tracks = d.tracks /\ h.transport = d.transport
       /\ h.clips = Relength(f.clips, had)
  BY <1>8, <1>9, SetLengthsIs
<1>11. \A c \in DOMAIN had : c \in DOMAIN d.clips /\ had[c] = d.clips[c].length
  <2>1. CASE from = to
    <3>1. had = <<>>
      BY <2>1 DEF OriginalLengths
    <3> QED BY <3>1
  <2>2. CASE from # to
    <3>1. had = [c \in {c \in AudioClips(d) : d.clips[c].length > 0} |-> d.clips[c].length]
      BY <2>2 DEF OriginalLengths
    <3> QED BY <3>1 DEF AudioClips, ClipsWhere
  <2> QED BY <2>1, <2>2
<1>12. Relength(f.clips, had) = d.clips
  BY <1>1, <1>5, <1>7, <1>11, LengthsReturn
<1> HIDE DEF h
<1>13. h = d
  BY <1>1, <1>10, <1>12 DEF IsRecord
<1> QED BY <1>13 DEF h, g

ParamSet(chain, e, value) ==
  [n \in DOMAIN chain |-> IF chain[n].id = e THEN [chain[n] EXCEPT !.value = value] ELSE chain[n]]

LEMMA WriteParamIs ==
  ASSUME NEW d, IsRecord(d), IsMap(d.tracks), NEW t \in DOMAIN d.tracks,
         d.tracks[t] = [output |-> d.tracks[t].output, effects |-> d.tracks[t].effects],
         NEW e, NEW value, NEW w, w = WriteParam(d, t, e, value)
  PROVE  /\ IsRecord(w)
         /\ w.instruments = d.instruments /\ w.patterns = d.patterns /\ w.lanes = d.lanes
         /\ w.clips = d.clips /\ w.transport = d.transport
         /\ w.tracks = [k \in DOMAIN d.tracks |->
                          IF k = t THEN [output |-> d.tracks[t].output,
                                         effects |-> ParamSet(d.tracks[t].effects, e, value)]
                                   ELSE d.tracks[k]]
<1> DEFINE chain == ParamSet(d.tracks[t].effects, e, value)
           track == [output |-> d.tracks[t].output, effects |-> chain]
           tracks == [k \in DOMAIN d.tracks |-> IF k = t THEN track ELSE d.tracks[k]]
<1>2. w = [d EXCEPT !.tracks = Put(d.tracks, t, [d.tracks[t] EXCEPT !.effects = chain])]
  BY DEF WriteParam, ParamSet, IsRecord
<1> HIDE DEF chain
<1>3. [d.tracks[t] EXCEPT !.effects = chain] = track
  OBVIOUS
<1>4. Put(d.tracks, t, track) = tracks
  <2> HIDE DEF track
  <2> QED BY PutKnown DEF tracks
<1>5. w = [d EXCEPT !.tracks = tracks]
  BY <1>2, <1>3, <1>4
<1> HIDE DEF tracks
<1>6. w = [instruments |-> d.instruments, patterns |-> d.patterns, lanes |-> d.lanes,
           clips |-> d.clips, tracks |-> tracks, transport |-> d.transport]
  BY <1>5 DEF IsRecord
<1> QED BY <1>6 DEF IsRecord, tracks, chain

LEMMA ParamReturns ==
  ASSUME NEW d, IsDocument(d), NEW t \in DOMAIN d.tracks, NEW e, NEW after, NEW before,
         \A n \in DOMAIN d.tracks[t].effects :
           d.tracks[t].effects[n].id = e => d.tracks[t].effects[n].value = before
  PROVE  /\ t \in DOMAIN WriteParam(d, t, e, after).tracks
         /\ WriteParam(WriteParam(d, t, e, after), t, e, before) = d
<1> DEFINE w == WriteParam(d, t, e, after)
           u == WriteParam(w, t, e, before)
           chain == d.tracks[t].effects
<1>1. /\ IsRecord(d) /\ IsMap(d.tracks) /\ chain \in Seq(Range(chain))
      /\ d.tracks[t] = [output |-> d.tracks[t].output, effects |-> chain]
      /\ \A n \in DOMAIN chain : chain[n] = [id |-> chain[n].id, value |-> chain[n].value]
  BY DEF IsDocument, IsTrack
<1>2. /\ IsRecord(w)
      /\ w.instruments = d.instruments /\ w.patterns = d.patterns /\ w.lanes = d.lanes
      /\ w.clips = d.clips /\ w.transport = d.transport
      /\ w.tracks = [k \in DOMAIN d.tracks |->
                       IF k = t THEN [output |-> d.tracks[t].output,
                                      effects |-> ParamSet(chain, e, after)]
                                ELSE d.tracks[k]]
  BY <1>1, WriteParamIs
<1> HIDE DEF w
<1>3. /\ IsMap(w.tracks) /\ t \in DOMAIN w.tracks
      /\ w.tracks[t] = [output |-> d.tracks[t].output, effects |-> ParamSet(chain, e, after)]
  BY <1>2 DEF IsMap
<1>4. w.tracks[t] = [output |-> w.tracks[t].output, effects |-> w.tracks[t].effects]
  BY <1>3
<1>5. /\ IsRecord(u)
      /\ u.instruments = w.instruments /\ u.patterns = w.patterns /\ u.lanes = w.lanes
      /\ u.clips = w.clips /\ u.transport = w.transport
      /\ u.tracks = [k \in DOMAIN w.tracks |->
                       IF k = t THEN [output |-> w.tracks[t].output,
                                      effects |-> ParamSet(w.tracks[t].effects, e, before)]
                                ELSE w.tracks[k]]
  <2>1. u = WriteParam(w, t, e, before)
    OBVIOUS
  <2> HIDE DEF u, chain
  <2>2. IsRecord(w) /\ IsMap(w.tracks) /\ t \in DOMAIN w.tracks
    BY <1>2, <1>3
  <2> QED BY <1>4, <2>1, <2>2, WriteParamIs
<1>6. ParamSet(ParamSet(chain, e, after), e, before) = chain
  <2> DEFINE meanwhile == ParamSet(chain, e, after)
  <2>1. DOMAIN meanwhile = DOMAIN chain
    BY DEF ParamSet
  <2>2. ASSUME NEW n \in DOMAIN chain
        PROVE  (IF meanwhile[n].id = e THEN [meanwhile[n] EXCEPT !.value = before]
                                       ELSE meanwhile[n]) = chain[n]
    <3>1. chain[n] = [id |-> chain[n].id, value |-> chain[n].value]
      BY <1>1
    <3>2. CASE chain[n].id = e
      <4>1. meanwhile[n] = [chain[n] EXCEPT !.value = after]
        BY <3>2 DEF ParamSet
      <4>2. meanwhile[n] = [id |-> e, value |-> after]
        BY <3>1, <3>2, <4>1
      <4>3. chain[n].value = before
        BY <3>2
      <4> QED BY <3>1, <3>2, <4>2, <4>3
    <3>3. CASE chain[n].id # e
      BY <3>3 DEF ParamSet
    <3> QED BY <3>2, <3>3
  <2> HIDE DEF meanwhile
  <2>3. ParamSet(meanwhile, e, before) = [n \in DOMAIN chain |-> chain[n]]
    BY <2>1, <2>2 DEF ParamSet
  <2>4. chain = [n \in DOMAIN chain |-> chain[n]]
    BY <1>1
  <2> QED BY <2>3, <2>4 DEF meanwhile
<1>7. u.tracks = d.tracks
  <2> HIDE DEF u, chain
  <2>1. /\ w.tracks[t].output = d.tracks[t].output
        /\ w.tracks[t].effects = ParamSet(chain, e, after)
    BY <1>3
  <2>2. DOMAIN w.tracks = DOMAIN d.tracks /\ \A k \in DOMAIN d.tracks : k # t => w.tracks[k] = d.tracks[k]
    BY <1>2
  <2>3. u.tracks = [k \in DOMAIN d.tracks |-> d.tracks[k]]
    BY <1>1, <1>5, <1>6, <2>1, <2>2
  <2> QED BY <1>1, <2>3 DEF IsMap
<1> HIDE DEF u
<1>8. u = d
  BY <1>1, <1>2, <1>5, <1>7 DEF IsRecord
<1> QED BY <1>3, <1>8 DEF u, w

-----------------------------------------------------------------------------
(* An entity that was added, taken out again *)

IsEntity(table, e) ==
  CASE table = "instruments" -> IsInstrument(e)
    [] table = "patterns"    -> IsPattern(e)
    [] table = "lanes"       -> IsLane(e)
    [] table = "clips"       -> IsClip(e)
    [] table = "tracks"      -> IsTrack(e)

\* An ID no entity has: what the next one gets.
IsFresh(d, id) == id # NoId /\ \A table \in Tables : id \notin DOMAIN d[table]

LEMMA NothingNames ==
  ASSUME NEW d, IsDocument(d), Integrity(d), NEW id, IsFresh(d, id)
  PROVE  /\ InstrumentCurves(d, id) = {} /\ ClipsUsingPattern(d, id) = {} /\ ClipsOnLane(d, id) = {}
         /\ ClipsPlayingInto(d, id) = {} /\ TrackCurves(d, id) = {}
<1>1. ASSUME NEW c \in DOMAIN d.clips
      PROVE  d.clips[c].lane \in DOMAIN d.lanes /\ Names(d, d.clips[c].source)
  <2>1. IsSource(d.clips[c].source)
    BY DEF IsDocument, IsClip
  <2> QED BY <2>1, SourceNames DEF Integrity, ClipsResolve
<1>2. /\ id \notin DOMAIN d.instruments /\ id \notin DOMAIN d.patterns /\ id \notin DOMAIN d.lanes
      /\ id \notin DOMAIN d.tracks
  BY DEF IsFresh, Tables
<1>3. InstrumentCurves(d, id) = {}
  <2> SUFFICES ASSUME NEW c \in DOMAIN d.clips, d.clips[c].source = InstrumentCurve(id)
               PROVE  FALSE
    BY DEF InstrumentCurves, ClipsWhere
  <2>1. Names(d, InstrumentCurve(id))
    BY <1>1
  <2> QED BY <1>2, <2>1, SourcesApart DEF Names
<1>4. ClipsUsingPattern(d, id) = {}
  <2> SUFFICES ASSUME NEW c \in DOMAIN d.clips, d.clips[c].source = PatternSource(id)
               PROVE  FALSE
    BY DEF ClipsUsingPattern, ClipsWhere
  <2>1. Names(d, PatternSource(id))
    BY <1>1
  <2> QED BY <1>2, <2>1, SourcesApart DEF Names
<1>5. ClipsOnLane(d, id) = {}
  BY <1>1, <1>2 DEF ClipsOnLane, ClipsWhere
<1>6. ClipsPlayingInto(d, id) = {}
  <2> SUFFICES ASSUME NEW c \in DOMAIN d.clips, d.clips[c].source = AudioSource(id)
               PROVE  FALSE
    BY DEF ClipsPlayingInto, ClipsWhere
  <2>1. Names(d, AudioSource(id))
    BY <1>1
  <2> QED BY <1>2, <2>1, SourcesApart DEF Names
<1>7. TrackCurves(d, id) = {}
  BY <1>1, <1>2 DEF TrackCurves, ClipsWhere, Names
<1> QED BY <1>3, <1>4, <1>5, <1>6, <1>7

\* It may stand in that table: it does, or nothing else has the ID.
MayStand(d, table, id) == id \in DOMAIN d[table] \/ IsFresh(d, id)

LEMMA TablesApart ==
  ASSUME NEW d, IsDocument(d), NEW table \in Tables, NEW id, MayStand(d, table, id),
         NEW e, \A s \in Tables : s # table => e[s] = d[s],
         DOMAIN e[table] = DOMAIN d[table] \cup {id}
  PROVE  /\ \A s \in Tables : NoId \notin DOMAIN e[s]
         /\ \A s, t \in Tables : s # t => DOMAIN e[s] \cap DOMAIN e[t] = {}
<1>1. /\ \A s \in Tables : NoId \notin DOMAIN d[s]
      /\ \A s, t \in Tables : s # t => DOMAIN d[s] \cap DOMAIN d[t] = {}
  BY DEF IsDocument
<1>2. id # NoId /\ \A s \in Tables : s # table => id \notin DOMAIN d[s]
  BY <1>1 DEF MayStand, IsFresh
<1>3. \A s \in Tables : NoId \notin DOMAIN e[s]
  BY <1>1, <1>2
<1>4. ASSUME NEW s \in Tables, NEW t \in Tables, s # t
      PROVE  DOMAIN e[s] \cap DOMAIN e[t] = {}
  <2>1. CASE s = table
    BY <1>1, <1>2, <1>4, <2>1
  <2>2. CASE t = table
    BY <1>1, <1>2, <1>4, <2>2
  <2>3. CASE s # table /\ t # table
    BY <1>1, <1>4, <2>3
  <2> QED BY <2>1, <2>2, <2>3
<1> QED BY <1>3, <1>4

LEMMA AddedIsDocument ==
  ASSUME NEW d, IsDocument(d), NEW table \in Tables, NEW id, MayStand(d, table, id),
         NEW x, IsEntity(table, x)
  PROVE  IsDocument(Restore(d, table, id, x))
<1> DEFINE e == Restore(d, table, id, x)
<1>1. IsRecord(d)
  BY DEF IsDocument
<1>2. CASE table = "instruments"
  <2>1. IsInstrument(x) /\ IsMap(d.instruments) /\ \A k \in DOMAIN d.instruments : IsInstrument(d.instruments[k])
    BY <1>2 DEF IsEntity, IsDocument
  <2> DEFINE f == Put(d.instruments, id, x)
  <2>2. f = [k \in DOMAIN d.instruments \cup {id} |-> IF k = id THEN x ELSE d.instruments[k]]
    BY DEF Put
  <2> HIDE DEF f
  <2>3. IsMap(f) /\ DOMAIN f = DOMAIN d.instruments \cup {id} /\ \A k \in DOMAIN f : IsInstrument(f[k])
    BY <2>1, <2>2 DEF IsMap
  <2>4. e = [instruments |-> f, patterns |-> d.patterns, lanes |-> d.lanes,
             clips |-> d.clips, tracks |-> d.tracks, transport |-> d.transport]
    BY <1>1, <1>2, RestoreIs DEF f
  <2> HIDE DEF e
  <2>5. IsRecord(e) /\ \A s \in Tables : s # table => e[s] = d[s]
    BY <1>2, <2>4 DEF IsRecord, Tables
  <2>6. e[table] = f
    BY <1>2, <2>4
  <2>7. DOMAIN e[table] = DOMAIN d[table] \cup {id}
    BY <1>2, <2>3, <2>6
  <2>8. /\ \A s \in Tables : NoId \notin DOMAIN e[s]
        /\ \A s, t \in Tables : s # t => DOMAIN e[s] \cap DOMAIN e[t] = {}
    BY <2>5, <2>7, TablesApart
  <2> QED BY <2>3, <2>4, <2>5, <2>8 DEF IsDocument, e
<1>3. CASE table = "patterns"
  <2>1. IsPattern(x) /\ IsMap(d.patterns) /\ \A k \in DOMAIN d.patterns : IsPattern(d.patterns[k])
    BY <1>3 DEF IsEntity, IsDocument
  <2> DEFINE f == Put(d.patterns, id, x)
  <2>2. f = [k \in DOMAIN d.patterns \cup {id} |-> IF k = id THEN x ELSE d.patterns[k]]
    BY DEF Put
  <2> HIDE DEF f
  <2>3. IsMap(f) /\ DOMAIN f = DOMAIN d.patterns \cup {id} /\ \A k \in DOMAIN f : IsPattern(f[k])
    BY <2>1, <2>2 DEF IsMap
  <2>4. e = [instruments |-> d.instruments, patterns |-> f, lanes |-> d.lanes,
             clips |-> d.clips, tracks |-> d.tracks, transport |-> d.transport]
    BY <1>1, <1>3, RestoreIs DEF f
  <2> HIDE DEF e
  <2>5. IsRecord(e) /\ \A s \in Tables : s # table => e[s] = d[s]
    BY <1>3, <2>4 DEF IsRecord, Tables
  <2>6. e[table] = f
    BY <1>3, <2>4
  <2>7. DOMAIN e[table] = DOMAIN d[table] \cup {id}
    BY <1>3, <2>3, <2>6
  <2>8. /\ \A s \in Tables : NoId \notin DOMAIN e[s]
        /\ \A s, t \in Tables : s # t => DOMAIN e[s] \cap DOMAIN e[t] = {}
    BY <2>5, <2>7, TablesApart
  <2> QED BY <2>3, <2>4, <2>5, <2>8 DEF IsDocument, e
<1>4. CASE table = "lanes"
  <2>1. IsLane(x) /\ IsMap(d.lanes) /\ \A k \in DOMAIN d.lanes : IsLane(d.lanes[k])
    BY <1>4 DEF IsEntity, IsDocument
  <2> DEFINE f == Put(d.lanes, id, x)
  <2>2. f = [k \in DOMAIN d.lanes \cup {id} |-> IF k = id THEN x ELSE d.lanes[k]]
    BY DEF Put
  <2> HIDE DEF f
  <2>3. IsMap(f) /\ DOMAIN f = DOMAIN d.lanes \cup {id} /\ \A k \in DOMAIN f : IsLane(f[k])
    BY <2>1, <2>2 DEF IsMap
  <2>4. e = [instruments |-> d.instruments, patterns |-> d.patterns, lanes |-> f,
             clips |-> d.clips, tracks |-> d.tracks, transport |-> d.transport]
    BY <1>1, <1>4, RestoreIs DEF f
  <2> HIDE DEF e
  <2>5. IsRecord(e) /\ \A s \in Tables : s # table => e[s] = d[s]
    BY <1>4, <2>4 DEF IsRecord, Tables
  <2>6. e[table] = f
    BY <1>4, <2>4
  <2>7. DOMAIN e[table] = DOMAIN d[table] \cup {id}
    BY <1>4, <2>3, <2>6
  <2>8. /\ \A s \in Tables : NoId \notin DOMAIN e[s]
        /\ \A s, t \in Tables : s # t => DOMAIN e[s] \cap DOMAIN e[t] = {}
    BY <2>5, <2>7, TablesApart
  <2> QED BY <2>3, <2>4, <2>5, <2>8 DEF IsDocument, e
<1>5. CASE table = "clips"
  <2>1. IsClip(x) /\ IsMap(d.clips) /\ \A k \in DOMAIN d.clips : IsClip(d.clips[k])
    BY <1>5 DEF IsEntity, IsDocument
  <2> DEFINE f == Put(d.clips, id, x)
  <2>2. f = [k \in DOMAIN d.clips \cup {id} |-> IF k = id THEN x ELSE d.clips[k]]
    BY DEF Put
  <2> HIDE DEF f
  <2>3. IsMap(f) /\ DOMAIN f = DOMAIN d.clips \cup {id} /\ \A k \in DOMAIN f : IsClip(f[k])
    BY <2>1, <2>2 DEF IsMap
  <2>4. e = [instruments |-> d.instruments, patterns |-> d.patterns, lanes |-> d.lanes,
             clips |-> f, tracks |-> d.tracks, transport |-> d.transport]
    BY <1>1, <1>5, RestoreIs DEF f
  <2> HIDE DEF e
  <2>5. IsRecord(e) /\ \A s \in Tables : s # table => e[s] = d[s]
    BY <1>5, <2>4 DEF IsRecord, Tables
  <2>6. e[table] = f
    BY <1>5, <2>4
  <2>7. DOMAIN e[table] = DOMAIN d[table] \cup {id}
    BY <1>5, <2>3, <2>6
  <2>8. /\ \A s \in Tables : NoId \notin DOMAIN e[s]
        /\ \A s, t \in Tables : s # t => DOMAIN e[s] \cap DOMAIN e[t] = {}
    BY <2>5, <2>7, TablesApart
  <2> QED BY <2>3, <2>4, <2>5, <2>8 DEF IsDocument, e
<1>6. CASE table = "tracks"
  <2>1. IsTrack(x) /\ IsMap(d.tracks) /\ \A k \in DOMAIN d.tracks : IsTrack(d.tracks[k])
    BY <1>6 DEF IsEntity, IsDocument
  <2> DEFINE f == Put(d.tracks, id, x)
  <2>2. f = [k \in DOMAIN d.tracks \cup {id} |-> IF k = id THEN x ELSE d.tracks[k]]
    BY DEF Put
  <2> HIDE DEF f
  <2>3. IsMap(f) /\ DOMAIN f = DOMAIN d.tracks \cup {id} /\ \A k \in DOMAIN f : IsTrack(f[k])
    BY <2>1, <2>2 DEF IsMap
  <2>4. e = [instruments |-> d.instruments, patterns |-> d.patterns, lanes |-> d.lanes,
             clips |-> d.clips, tracks |-> f, transport |-> d.transport]
    BY <1>1, <1>6, RestoreIs DEF f
  <2> HIDE DEF e
  <2>5. IsRecord(e) /\ \A s \in Tables : s # table => e[s] = d[s]
    BY <1>6, <2>4 DEF IsRecord, Tables
  <2>6. e[table] = f
    BY <1>6, <2>4
  <2>7. DOMAIN e[table] = DOMAIN d[table] \cup {id}
    BY <1>6, <2>3, <2>6
  <2>8. /\ \A s \in Tables : NoId \notin DOMAIN e[s]
        /\ \A s, t \in Tables : s # t => DOMAIN e[s] \cap DOMAIN e[t] = {}
    BY <2>5, <2>7, TablesApart
  <2> QED BY <2>3, <2>4, <2>5, <2>8 DEF IsDocument, e
<1> QED BY <1>2, <1>3, <1>4, <1>5, <1>6 DEF Tables

LEMMA AddReturns ==
  ASSUME NEW d, IsDocument(d), Integrity(d), NEW table \in Tables, NEW id, IsFresh(d, id),
         NEW x, IsEntity(table, x)
  PROVE  LET e == Restore(d, table, id, x)
         IN  CanDelete(e, table, id) /\ Delete(e, table, id) = d
<1> DEFINE e == Restore(d, table, id, x)
           g == Delete(e, table, id)
<1>1. IsDocument(e)
  BY AddedIsDocument DEF MayStand
<1>2. /\ IsRecord(d) /\ IsMap(d.instruments) /\ IsMap(d.patterns) /\ IsMap(d.lanes)
      /\ IsMap(d.clips) /\ IsMap(d.tracks)
  BY DEF IsDocument
<1>3. /\ id # NoId /\ id \notin DOMAIN d.instruments /\ id \notin DOMAIN d.patterns
      /\ id \notin DOMAIN d.lanes /\ id \notin DOMAIN d.clips /\ id \notin DOMAIN d.tracks
  BY DEF IsFresh, Tables
<1>4. id # Master
  <2>1. Master \in {t \in DOMAIN d.tracks : d.tracks[t].output = NoId}
    BY DEF Integrity, TracksResolve
  <2> QED BY <1>3, <2>1
<1>5. /\ InstrumentCurves(d, id) = {} /\ ClipsUsingPattern(d, id) = {} /\ ClipsOnLane(d, id) = {}
      /\ ClipsPlayingInto(d, id) = {} /\ TrackCurves(d, id) = {}
  BY NothingNames
<1>6. CASE table = "instruments"
  <2> DEFINE f == Put(d.instruments, id, x)
  <2>1. e = [instruments |-> f, patterns |-> d.patterns, lanes |-> d.lanes, clips |-> d.clips,
             tracks |-> d.tracks, transport |-> d.transport]
    BY <1>2, <1>6, RestoreIs
  <2>2. DOMAIN f = DOMAIN d.instruments \cup {id} /\ [k \in DOMAIN f \ {id} |-> f[k]] = d.instruments
    <3>1. f = [k \in DOMAIN d.instruments \cup {id} |-> IF k = id THEN x ELSE d.instruments[k]]
      BY DEF Put
    <3> HIDE DEF f
    <3>2. DOMAIN f = DOMAIN d.instruments \cup {id} /\ DOMAIN f \ {id} = DOMAIN d.instruments
      BY <1>3, <3>1
    <3>3. \A k \in DOMAIN d.instruments : f[k] = d.instruments[k]
      BY <1>3, <3>1
    <3>4. d.instruments = [k \in DOMAIN d.instruments |-> d.instruments[k]]
      BY <1>2 DEF IsMap
    <3>5. [k \in DOMAIN f \ {id} |-> f[k]] = [k \in DOMAIN d.instruments |-> d.instruments[k]]
      BY <3>2, <3>3
    <3> QED BY <3>2, <3>4, <3>5
  <2>3. g = DeleteInstrument(e, id)
    BY <1>6 DEF Delete
  <2> HIDE DEF e, f
  <2>4. /\ IsRecord(g) /\ g.lanes = e.lanes /\ g.tracks = e.tracks /\ g.transport = e.transport
        /\ g.instruments = [k \in DOMAIN e.instruments \ {id} |-> e.instruments[k]]
        /\ g.patterns = [p \in DOMAIN e.patterns |-> Cleared(e.patterns[p], id)]
        /\ g.clips = [k \in DOMAIN e.clips \ InstrumentCurves(e, id) |-> e.clips[k]]
    BY <1>1, <2>3, InstrumentDeleted
  <2> HIDE DEF g
  <2>5. g.clips = d.clips
    <3>1. e.clips = d.clips
      BY <2>1
    <3>2. InstrumentCurves(e, id) = {}
      BY <1>5, <3>1 DEF InstrumentCurves, ClipsWhere
    <3> QED BY <1>2, <2>4, <3>1, <3>2 DEF IsMap
  <2>6. g.patterns = d.patterns
    <3>1. e.patterns = d.patterns
      BY <2>1
    <3>2. ASSUME NEW p \in DOMAIN d.patterns
          PROVE  Cleared(d.patterns[p], id) = d.patterns[p]
      <4> DEFINE notes == d.patterns[p].notes
      <4>1. /\ d.patterns[p] = [length |-> d.patterns[p].length, notes |-> notes]
            /\ IsMap(notes) /\ id \notin DOMAIN notes
        BY <1>3 DEF IsDocument, IsPattern, Integrity, SequencesResolve
      <4> HIDE DEF notes
      <4>2. Without(notes, {id}) = notes
        <5>1. Without(notes, {id}) = [k \in DOMAIN notes \ {id} |-> notes[k]]
          BY WithoutIs
        <5> QED BY <4>1, <5>1 DEF IsMap
      <4>3. d.patterns[p].notes = notes
        BY DEF notes
      <4>4. Cleared(d.patterns[p], id) = [d.patterns[p] EXCEPT !.notes = notes]
        BY <4>2, <4>3 DEF Cleared
      <4> QED BY <4>1, <4>4
    <3>3. g.patterns = [p \in DOMAIN d.patterns |-> d.patterns[p]]
      BY <2>4, <3>1, <3>2
    <3> QED BY <1>2, <3>3 DEF IsMap
  <2>7. g = d
    BY <1>2, <2>1, <2>2, <2>4, <2>5, <2>6 DEF IsRecord
  <2>8. CanDelete(e, table, id)
    BY <1>4, <1>6, <2>1, <2>2 DEF CanDelete
  <2> QED BY <2>7, <2>8 DEF e, g
<1>7. CASE table = "patterns"
  <2> DEFINE f == Put(d.patterns, id, x)
  <2>1. e = [instruments |-> d.instruments, patterns |-> f, lanes |-> d.lanes, clips |-> d.clips,
             tracks |-> d.tracks, transport |-> d.transport]
    BY <1>2, <1>7, RestoreIs
  <2>2. DOMAIN f = DOMAIN d.patterns \cup {id} /\ [k \in DOMAIN f \ {id} |-> f[k]] = d.patterns
    <3>1. f = [k \in DOMAIN d.patterns \cup {id} |-> IF k = id THEN x ELSE d.patterns[k]]
      BY DEF Put
    <3> HIDE DEF f
    <3>2. DOMAIN f = DOMAIN d.patterns \cup {id} /\ DOMAIN f \ {id} = DOMAIN d.patterns
      BY <1>3, <3>1
    <3>3. \A k \in DOMAIN d.patterns : f[k] = d.patterns[k]
      BY <1>3, <3>1
    <3>4. d.patterns = [k \in DOMAIN d.patterns |-> d.patterns[k]]
      BY <1>2 DEF IsMap
    <3>5. [k \in DOMAIN f \ {id} |-> f[k]] = [k \in DOMAIN d.patterns |-> d.patterns[k]]
      BY <3>2, <3>3
    <3> QED BY <3>2, <3>4, <3>5
  <2>3. g = DeletePattern(e, id)
    BY <1>7 DEF Delete
  <2> HIDE DEF e, f
  <2>4. /\ IsRecord(g) /\ g.instruments = e.instruments /\ g.lanes = e.lanes /\ g.tracks = e.tracks
        /\ g.transport = e.transport
        /\ g.patterns = [k \in DOMAIN e.patterns \ {id} |-> e.patterns[k]]
        /\ g.clips = [k \in DOMAIN e.clips \ ClipsUsingPattern(e, id) |-> e.clips[k]]
    BY <1>1, <2>3, PatternDeleted
  <2> HIDE DEF g
  <2>5. g.clips = d.clips
    <3>1. e.clips = d.clips
      BY <2>1
    <3>2. ClipsUsingPattern(e, id) = {}
      BY <1>5, <3>1 DEF ClipsUsingPattern, ClipsWhere
    <3> QED BY <1>2, <2>4, <3>1, <3>2 DEF IsMap
  <2>6. g = d
    BY <1>2, <2>1, <2>2, <2>4, <2>5 DEF IsRecord
  <2>7. CanDelete(e, table, id)
    BY <1>4, <1>7, <2>1, <2>2 DEF CanDelete
  <2> QED BY <2>6, <2>7 DEF e, g
<1>8. CASE table = "lanes"
  <2> DEFINE f == Put(d.lanes, id, x)
  <2>1. e = [instruments |-> d.instruments, patterns |-> d.patterns, lanes |-> f, clips |-> d.clips,
             tracks |-> d.tracks, transport |-> d.transport]
    BY <1>2, <1>8, RestoreIs
  <2>2. /\ DOMAIN f = DOMAIN d.lanes \cup {id} /\ \A k \in DOMAIN d.lanes : f[k] = d.lanes[k]
    <3>1. f = [k \in DOMAIN d.lanes \cup {id} |-> IF k = id THEN x ELSE d.lanes[k]]
      BY DEF Put
    <3> HIDE DEF f
    <3> QED BY <1>2, <1>3, <3>1 DEF IsMap
  <2>3. g = DeleteLane(e, id)
    BY <1>8 DEF Delete
  <2> HIDE DEF e, f
  <2>4. /\ IsRecord(g) /\ g.instruments = e.instruments /\ g.patterns = e.patterns
        /\ g.tracks = e.tracks /\ g.transport = e.transport
        /\ g.lanes = [k \in DOMAIN e.lanes \ {id} |-> Ungrouped(e.lanes[k], id)]
        /\ g.clips = [k \in DOMAIN e.clips \ ClipsOnLane(e, id) |-> e.clips[k]]
    BY <1>1, <2>3, LaneDeleted
  <2> HIDE DEF g
  <2>5. g.clips = d.clips
    <3>1. e.clips = d.clips
      BY <2>1
    <3>2. ClipsOnLane(e, id) = {}
      BY <1>5, <3>1 DEF ClipsOnLane, ClipsWhere
    <3> QED BY <1>2, <2>4, <3>1, <3>2 DEF IsMap
  <2>6. g.lanes = d.lanes
    <3>1. \A k \in DOMAIN d.lanes : d.lanes[k].group # id
      BY <1>3 DEF Integrity, GroupsResolve
    <3>2. \A k \in DOMAIN d.lanes : Ungrouped(d.lanes[k], id) = d.lanes[k]
      BY <3>1 DEF Ungrouped
    <3>3. e.lanes = f /\ DOMAIN e.lanes \ {id} = DOMAIN d.lanes
      BY <1>3, <2>1, <2>2
    <3>4. g.lanes = [k \in DOMAIN d.lanes |-> d.lanes[k]]
      BY <2>2, <2>4, <3>2, <3>3
    <3> QED BY <1>2, <3>4 DEF IsMap
  <2>7. g = d
    BY <1>2, <2>1, <2>4, <2>5, <2>6 DEF IsRecord
  <2>8. CanDelete(e, table, id)
    BY <1>4, <1>8, <2>1, <2>2 DEF CanDelete
  <2> QED BY <2>7, <2>8 DEF e, g
<1>9. CASE table = "clips"
  <2> DEFINE f == Put(d.clips, id, x)
  <2>1. e = [instruments |-> d.instruments, patterns |-> d.patterns, lanes |-> d.lanes, clips |-> f,
             tracks |-> d.tracks, transport |-> d.transport]
    BY <1>2, <1>9, RestoreIs
  <2>2. DOMAIN f = DOMAIN d.clips \cup {id} /\ [k \in DOMAIN f \ {id} |-> f[k]] = d.clips
    <3>1. f = [k \in DOMAIN d.clips \cup {id} |-> IF k = id THEN x ELSE d.clips[k]]
      BY DEF Put
    <3> HIDE DEF f
    <3>2. DOMAIN f = DOMAIN d.clips \cup {id} /\ DOMAIN f \ {id} = DOMAIN d.clips
      BY <1>3, <3>1
    <3>3. \A k \in DOMAIN d.clips : f[k] = d.clips[k]
      BY <1>3, <3>1
    <3>4. d.clips = [k \in DOMAIN d.clips |-> d.clips[k]]
      BY <1>2 DEF IsMap
    <3>5. [k \in DOMAIN f \ {id} |-> f[k]] = [k \in DOMAIN d.clips |-> d.clips[k]]
      BY <3>2, <3>3
    <3> QED BY <3>2, <3>4, <3>5
  <2>3. g = DeleteClip(e, id)
    BY <1>9 DEF Delete
  <2> HIDE DEF e, f
  <2>4. /\ IsRecord(g) /\ g.instruments = e.instruments /\ g.patterns = e.patterns
        /\ g.lanes = e.lanes /\ g.tracks = e.tracks /\ g.transport = e.transport
        /\ g.clips = [k \in DOMAIN e.clips \ {id} |-> e.clips[k]]
    BY <1>1, <2>3, ClipDeleted
  <2> HIDE DEF g
  <2>5. g = d
    BY <1>2, <2>1, <2>2, <2>4 DEF IsRecord
  <2>6. CanDelete(e, table, id)
    BY <1>4, <1>9, <2>1, <2>2 DEF CanDelete
  <2> QED BY <2>5, <2>6 DEF e, g
<1>10. CASE table = "tracks"
  <2> DEFINE f == Put(d.tracks, id, x)
  <2>1. e = [instruments |-> d.instruments, patterns |-> d.patterns, lanes |-> d.lanes,
             clips |-> d.clips, tracks |-> f, transport |-> d.transport]
    BY <1>2, <1>10, RestoreIs
  <2>2. DOMAIN f = DOMAIN d.tracks \cup {id} /\ \A k \in DOMAIN d.tracks : f[k] = d.tracks[k]
    <3>1. f = [k \in DOMAIN d.tracks \cup {id} |-> IF k = id THEN x ELSE d.tracks[k]]
      BY DEF Put
    <3> HIDE DEF f
    <3> QED BY <1>2, <1>3, <3>1 DEF IsMap
  <2>3. g = DeleteMixerTrack(e, id)
    BY <1>10 DEF Delete
  <2> HIDE DEF e, f
  <2>4. /\ IsRecord(g) /\ g.patterns = e.patterns /\ g.lanes = e.lanes /\ g.transport = e.transport
        /\ g.instruments = [i \in DOMAIN e.instruments |-> ToMaster(e.instruments[i], id)]
        /\ g.tracks = [k \in DOMAIN e.tracks \ {id} |-> Fed(e.tracks[k], id)]
        /\ g.clips = [c \in DOMAIN e.clips \ TrackCurves(e, id) |-> Repointed(e, c, id)]
    BY <1>1, <2>3, TrackDeleted
  <2> HIDE DEF g
  <2>5. g.clips = d.clips
    <3>1. e.clips = d.clips
      BY <2>1
    <3>2. TrackCurves(e, id) = {} /\ ClipsPlayingInto(e, id) = {}
      BY <1>5, <3>1 DEF TrackCurves, ClipsPlayingInto, ClipsWhere
    <3>3. \A c : Repointed(e, c, id) = d.clips[c]
      BY <3>1, <3>2 DEF Repointed
    <3>4. g.clips = [c \in DOMAIN d.clips |-> d.clips[c]]
      BY <2>4, <3>1, <3>2, <3>3
    <3> QED BY <1>2, <3>4 DEF IsMap
  <2>6. g.instruments = d.instruments
    <3>1. \A i \in DOMAIN d.instruments : d.instruments[i].track # id
      BY <1>3 DEF Integrity, InstrumentsResolve
    <3>2. \A i \in DOMAIN d.instruments : ToMaster(d.instruments[i], id) = d.instruments[i]
      BY <3>1 DEF ToMaster
    <3>3. e.instruments = d.instruments
      BY <2>1
    <3>4. g.instruments = [i \in DOMAIN d.instruments |-> d.instruments[i]]
      BY <2>4, <3>2, <3>3
    <3> QED BY <1>2, <3>4 DEF IsMap
  <2>7. g.tracks = d.tracks
    <3>1. \A k \in DOMAIN d.tracks : d.tracks[k].output # id
      BY <1>3 DEF Integrity, TracksResolve
    <3>2. \A k \in DOMAIN d.tracks : Fed(d.tracks[k], id) = d.tracks[k]
      BY <3>1 DEF Fed
    <3>3. e.tracks = f /\ DOMAIN e.tracks \ {id} = DOMAIN d.tracks
      BY <1>3, <2>1, <2>2
    <3>4. g.tracks = [k \in DOMAIN d.tracks |-> d.tracks[k]]
      BY <2>2, <2>4, <3>2, <3>3
    <3> QED BY <1>2, <3>4 DEF IsMap
  <2>8. g = d
    BY <1>2, <2>1, <2>4, <2>5, <2>6, <2>7 DEF IsRecord
  <2>9. CanDelete(e, table, id)
    BY <1>4, <1>10, <2>1, <2>2 DEF CanDelete
  <2> QED BY <2>8, <2>9 DEF e, g
<1> QED BY <1>6, <1>7, <1>8, <1>9, <1>10 DEF Tables

-----------------------------------------------------------------------------
(* Commands, as the requests hand them over *)

IsCommand(c) ==
  \/ c = [kind |-> "add", table |-> c.table, id |-> c.id, entity |-> c.entity]
  \/ c = [kind |-> "remove", table |-> c.table, id |-> c.id, lost |-> c.lost]
  \/ c = [kind |-> "edit", table |-> c.table, id |-> c.id, field |-> c.field,
          before |-> c.before, after |-> c.after]
  \/ c = [kind |-> "notes", pattern |-> c.pattern, instrument |-> c.instrument,
          removed |-> c.removed, added |-> c.added, coalescable |-> c.coalescable,
          resized |-> c.resized]
  \/ c = [kind |-> "param", track |-> c.track, effect |-> c.effect, before |-> c.before,
          after |-> c.after]
  \/ c = [kind |-> "transport", before |-> c.before, after |-> c.after, original |-> c.original]

\* A new entity has an ID no other ever had, "before" is what there is, and no
\* note that is inserted is there already.
MadeFor(c, d) ==
  /\ c.kind \in {"add", "remove", "edit"} => c.table \in Tables
  /\ c.kind = "add" => IsFresh(d, c.id) /\ IsEntity(c.table, c.entity)
  /\ c.kind = "edit" => c.before = d[c.table][c.id]
  /\ c.kind = "notes" => c.added \cap SequenceOf(d, c.pattern, c.instrument) \subseteq c.removed
  /\ c.kind = "param" => \A n \in DOMAIN d.tracks[c.track].effects :
                           d.tracks[c.track].effects[n].id = c.effect
                             => d.tracks[c.track].effects[n].value = c.before
  /\ c.kind = "transport" => c.before = d.transport

\* Undo gives back the document there was, and redo the one that was undone.
IsExact(c, d) ==
  LET r == Applied(c, d)
      u == Reverted(r.cmd, r.doc)
  IN  u.ok /\ u.doc = d /\ Applied(u.cmd, d) = r

LEMMA AddIsExact ==
  ASSUME NEW d, IsDocument(d), Integrity(d), NEW c, IsCommand(c), c.kind = "add", MadeFor(c, d)
  PROVE  Applied(c, d).ok /\ IsExact(c, d)
<1> DEFINE e == Restore(d, c.table, c.id, c.entity)
<1>1. c.table \in Tables /\ IsFresh(d, c.id) /\ IsEntity(c.table, c.entity)
  BY DEF MadeFor
<1>2. CanRestore(d, c.table, c.id)
  BY <1>1 DEF CanRestore, IsFresh
<1>3. Applied(c, d) = Succeeds(e, c)
  BY <1>2 DEF Applied, When
<1>4. CanDelete(e, c.table, c.id) /\ Delete(e, c.table, c.id) = d
  BY <1>1, AddReturns
<1> HIDE DEF e
<1>5. Reverted(c, e) = Succeeds(d, c)
  BY <1>4 DEF Reverted, When
<1>6. /\ Applied(c, d).ok /\ Applied(c, d).doc = e /\ Applied(c, d).cmd = c
      /\ Reverted(c, e).ok /\ Reverted(c, e).doc = d /\ Reverted(c, e).cmd = c
  BY <1>3, <1>5 DEF Succeeds
<1> QED BY <1>6 DEF IsExact

LEMMA RemoveIsExact ==
  ASSUME NEW d, IsDocument(d), Integrity(d), NEW c, IsCommand(c), c.kind = "remove", MadeFor(c, d),
         Applied(c, d).ok
  PROVE  IsExact(c, d)
<1> DEFINE g == Delete(d, c.table, c.id)
           lost == Captured(d, c.table, c.id)
           b == [kind |-> "remove", table |-> c.table, id |-> c.id, lost |-> lost]
<1>1. c.table \in Tables /\ c = [kind |-> "remove", table |-> c.table, id |-> c.id, lost |-> c.lost]
  BY DEF MadeFor, IsCommand
<1>2. CanDelete(d, c.table, c.id)
  BY DEF Applied, When, FailsOn
<1>3. c.id \notin DOMAIN g[c.table] /\ PutBack(g, c.table, c.id, lost) = d
  BY <1>1, <1>2, RemovalReturns
<1>4. /\ [c EXCEPT !.lost = lost] = b /\ [b EXCEPT !.lost = lost] = b
      /\ b.kind = "remove" /\ b.table = c.table /\ b.id = c.id /\ b.lost = lost
  BY <1>1
<1> HIDE DEF b, lost, g
<1>5. Applied(c, d) = Succeeds(g, b)
  BY <1>2, <1>4 DEF Applied, When, lost, g
<1>6. Applied(b, d) = Succeeds(g, b)
  BY <1>2, <1>4 DEF Applied, When, lost, g
<1>7. CanRestore(g, c.table, c.id)
  BY <1>3 DEF CanRestore
<1>8. Reverted(b, g) = Succeeds(d, b)
  BY <1>3, <1>4, <1>7 DEF Reverted, When
<1>9. /\ Applied(c, d).doc = g /\ Applied(c, d).cmd = b
      /\ Reverted(b, g).ok /\ Reverted(b, g).doc = d /\ Reverted(b, g).cmd = b
  BY <1>5, <1>8 DEF Succeeds
<1> QED BY <1>5, <1>6, <1>9 DEF IsExact

LEMMA EditIsExact ==
  ASSUME NEW d, IsDocument(d), NEW c, c.kind = "edit", MadeFor(c, d), Applied(c, d).ok
  PROVE  IsExact(c, d)
<1> DEFINE e == Update(d, c.table, c.id, c.after)
<1>1. c.table \in Tables /\ c.before = d[c.table][c.id]
  BY DEF MadeFor
<1>2. CanUpdate(d, c.table, c.id)
  BY DEF Applied, When, FailsOn
<1>3. c.id \in DOMAIN e[c.table] /\ Update(e, c.table, c.id, c.before) = d
  BY <1>1, <1>2, EditReturns DEF CanUpdate
<1> HIDE DEF e
<1>4. Applied(c, d) = Succeeds(e, c)
  BY <1>2 DEF Applied, When, e
<1>5. Reverted(c, e) = Succeeds(d, c)
  BY <1>3 DEF Reverted, When, CanUpdate
<1>6. /\ Applied(c, d).doc = e /\ Applied(c, d).cmd = c
      /\ Reverted(c, e).ok /\ Reverted(c, e).doc = d /\ Reverted(c, e).cmd = c
  BY <1>4, <1>5 DEF Succeeds
<1> QED BY <1>6 DEF IsExact

LEMMA NotesAreExact ==
  ASSUME NEW d, IsDocument(d), Integrity(d), NEW c, IsCommand(c), c.kind = "notes", MadeFor(c, d),
         Applied(c, d).ok
  PROVE  IsExact(c, d)
<1> DEFINE p == c.pattern
           i == c.instrument
           e == EditSequence(d, p, i, c.removed, c.added)
           f == FollowPatternLength(d, e, p)
           had == Resized(d, e, p)
           b == [c EXCEPT !.resized = had]
           u == [c EXCEPT !.resized = <<>>]
<1>1. c = [kind |-> "notes", pattern |-> p, instrument |-> i, removed |-> c.removed,
           added |-> c.added, coalescable |-> c.coalescable, resized |-> c.resized]
  BY DEF IsCommand
<1>2. CanEditSequence(d, p, i, c.removed)
  BY DEF Applied, When, FailsOn
<1>3. /\ p \in DOMAIN d.patterns /\ i \in DOMAIN d.instruments /\ c.removed \subseteq SequenceOf(d, p, i)
      /\ c.added \cap SequenceOf(d, p, i) \subseteq c.removed
  BY <1>2 DEF CanEditSequence, CanRestoreSequence, MadeFor
<1> HIDE DEF e, f, had, p, i
<1>4. /\ CanEditSequence(f, p, i, c.added)
      /\ SetLengths(EditSequence(f, p, i, c.added, c.removed), had) = d
  BY <1>3, NotesReturn DEF e, f, had
<1>5. /\ b.kind = "notes" /\ b.pattern = p /\ b.instrument = i /\ b.removed = c.removed
      /\ b.added = c.added /\ b.resized = had /\ [b EXCEPT !.resized = <<>>] = u
  <2>1. b = [kind |-> "notes", pattern |-> p, instrument |-> i, removed |-> c.removed,
             added |-> c.added, coalescable |-> c.coalescable, resized |-> had]
    BY <1>1
  <2>2. u = [kind |-> "notes", pattern |-> p, instrument |-> i, removed |-> c.removed,
             added |-> c.added, coalescable |-> c.coalescable, resized |-> <<>>]
    BY <1>1
  <2> HIDE DEF b, u
  <2>3. [b EXCEPT !.resized = <<>>] = u
    BY <2>1, <2>2
  <2> QED BY <2>1, <2>3
<1>6. /\ u.kind = "notes" /\ u.pattern = p /\ u.instrument = i /\ u.removed = c.removed
      /\ u.added = c.added /\ [u EXCEPT !.resized = had] = b
  <2>1. b = [kind |-> "notes", pattern |-> p, instrument |-> i, removed |-> c.removed,
             added |-> c.added, coalescable |-> c.coalescable, resized |-> had]
    BY <1>1
  <2>2. u = [kind |-> "notes", pattern |-> p, instrument |-> i, removed |-> c.removed,
             added |-> c.added, coalescable |-> c.coalescable, resized |-> <<>>]
    BY <1>1
  <2> HIDE DEF b, u
  <2>3. [u EXCEPT !.resized = had] = b
    BY <2>1, <2>2
  <2> QED BY <2>2, <2>3
<1> HIDE DEF b, u
<1>7. Applied(c, d) = Succeeds(f, b)
  BY <1>2 DEF Applied, When, f, e, had, b, p, i
<1>8. Applied(u, d) = Succeeds(f, b)
  BY <1>2, <1>6 DEF Applied, When, f, e, had
<1>9. Reverted(b, f) = Succeeds(d, u)
  BY <1>4, <1>5 DEF Reverted, When
<1>10. /\ Applied(c, d).doc = f /\ Applied(c, d).cmd = b
       /\ Reverted(b, f).ok /\ Reverted(b, f).doc = d /\ Reverted(b, f).cmd = u
  BY <1>7, <1>9 DEF Succeeds
<1> QED BY <1>7, <1>8, <1>10 DEF IsExact

LEMMA ParamIsExact ==
  ASSUME NEW d, IsDocument(d), NEW c, c.kind = "param", MadeFor(c, d), Applied(c, d).ok
  PROVE  IsExact(c, d)
<1> DEFINE w == WriteParam(d, c.track, c.effect, c.after)
<1>1. CanUpdate(d, "tracks", c.track)
  BY DEF Applied, When, FailsOn
<1>2. c.track \in DOMAIN d.tracks
  BY <1>1 DEF CanUpdate
<1>3. c.track \in DOMAIN w.tracks /\ WriteParam(w, c.track, c.effect, c.before) = d
  BY <1>2, ParamReturns, SMTT(30) DEF MadeFor
<1> HIDE DEF w
<1>4. Applied(c, d) = Succeeds(w, c)
  BY <1>1 DEF Applied, When, w
<1>5. CanUpdate(w, "tracks", c.track)
  BY <1>3 DEF CanUpdate
<1>6. Reverted(c, w) = Succeeds(d, c)
  BY <1>3, <1>5 DEF Reverted, When
<1>7. /\ Applied(c, d).doc = w /\ Applied(c, d).cmd = c
      /\ Reverted(c, w).ok /\ Reverted(c, w).doc = d /\ Reverted(c, w).cmd = c
  BY <1>4, <1>6 DEF Succeeds
<1> QED BY <1>7 DEF IsExact

LEMMA TransportIsExact ==
  ASSUME NEW d, IsDocument(d), NEW c, IsCommand(c), c.kind = "transport", MadeFor(c, d)
  PROVE  Applied(c, d).ok /\ IsExact(c, d)
<1> DEFINE from == c.before.tempo
           to == c.after.tempo
           f == RescaleAudioClips([d EXCEPT !.transport = c.after], from, to)
           had == OriginalLengths(d, from, to)
           b == [c EXCEPT !.original = had]
           u == [c EXCEPT !.original = <<>>]
<1>1. /\ c = [kind |-> "transport", before |-> c.before, after |-> c.after, original |-> c.original]
      /\ c.before = d.transport
  BY DEF IsCommand, MadeFor
<1>2. SetLengths([f EXCEPT !.transport = d.transport], had) = d
  BY TempoReturns
<1>3. /\ b.kind = "transport" /\ b.before = c.before /\ b.after = c.after /\ b.original = had
      /\ [b EXCEPT !.original = <<>>] = u
  BY <1>1
<1>4. /\ u.kind = "transport" /\ u.before = c.before /\ u.after = c.after
      /\ [u EXCEPT !.original = had] = b
  BY <1>1
<1> HIDE DEF f, had, b, u
<1>5. Applied(c, d) = Succeeds(f, b)
  BY DEF Applied, f, had, b
<1>6. Applied(u, d) = Succeeds(f, b)
  BY <1>4 DEF Applied, f, had
<1>7. Reverted(b, f) = Succeeds(d, u)
  BY <1>1, <1>2, <1>3 DEF Reverted
<1>8. /\ Applied(c, d).ok /\ Applied(c, d).doc = f /\ Applied(c, d).cmd = b
      /\ Reverted(b, f).ok /\ Reverted(b, f).doc = d /\ Reverted(b, f).cmd = u
  BY <1>5, <1>7 DEF Succeeds
<1> QED BY <1>5, <1>6, <1>8 DEF IsExact

\* Whatever a command did to a document whose references resolve, undo gives
\* back the document there was and redo the one that was undone (the apply and
\* revert of every command of model/commands.cpp).
THEOREM CommandsAreExact ==
  ASSUME NEW d, IsDocument(d), Integrity(d), NEW c, IsCommand(c), MadeFor(c, d), Applied(c, d).ok
  PROVE  IsExact(c, d)
<1>1. c.kind \in {"add", "remove", "edit", "notes", "param", "transport"}
  BY DEF IsCommand
<1> QED BY <1>1, AddIsExact, RemoveIsExact, EditIsExact, NotesAreExact, ParamIsExact, TransportIsExact

-----------------------------------------------------------------------------
(* A command leaves a document *)

LEMMA DeletedIsDocument ==
  ASSUME NEW d, IsDocument(d), NEW table \in Tables, NEW id
  PROVE  IsDocument(Delete(d, table, id))
<1> DEFINE g == Delete(d, table, id)
<1> SUFFICES IsDocument(g)
  OBVIOUS
<1>1. CASE table = "instruments"
  <2>1. g = DeleteInstrument(d, id)
    BY <1>1 DEF Delete
  <2> HIDE DEF g
  <2>2. /\ IsRecord(g) /\ g.lanes = d.lanes /\ g.tracks = d.tracks
        /\ g.instruments = [k \in DOMAIN d.instruments \ {id} |-> d.instruments[k]]
        /\ g.patterns = [p \in DOMAIN d.patterns |-> Cleared(d.patterns[p], id)]
        /\ g.clips = [k \in DOMAIN d.clips \ InstrumentCurves(d, id) |-> d.clips[k]]
    BY <2>1, InstrumentDeleted
  <2>3. ASSUME NEW p \in DOMAIN d.patterns
        PROVE  IsPattern(Cleared(d.patterns[p], id))
    <3> DEFINE rest == Without(d.patterns[p].notes, {id})
    <3>1. d.patterns[p] = [length |-> d.patterns[p].length, notes |-> d.patterns[p].notes]
      BY DEF IsDocument, IsPattern
    <3>2. rest = [k \in DOMAIN d.patterns[p].notes \ {id} |-> d.patterns[p].notes[k]]
      BY WithoutIs
    <3>3. IsMap(rest)
      BY <3>2 DEF IsMap
    <3> HIDE DEF rest
    <3>4. Cleared(d.patterns[p], id) = [length |-> d.patterns[p].length, notes |-> rest]
      BY <3>1 DEF Cleared, rest
    <3> QED BY <3>3, <3>4 DEF IsPattern
  <2> QED BY <2>2, <2>3 DEF IsDocument, IsMap, Tables
<1>2. CASE table = "patterns"
  <2>1. g = DeletePattern(d, id)
    BY <1>2 DEF Delete
  <2> HIDE DEF g
  <2>2. /\ IsRecord(g) /\ g.instruments = d.instruments /\ g.lanes = d.lanes /\ g.tracks = d.tracks
        /\ g.patterns = [k \in DOMAIN d.patterns \ {id} |-> d.patterns[k]]
        /\ g.clips = [k \in DOMAIN d.clips \ ClipsUsingPattern(d, id) |-> d.clips[k]]
    BY <2>1, PatternDeleted
  <2> QED BY <2>2 DEF IsDocument, IsMap, Tables
<1>3. CASE table = "lanes"
  <2>1. g = DeleteLane(d, id)
    BY <1>3 DEF Delete
  <2> HIDE DEF g
  <2>2. /\ IsRecord(g) /\ g.instruments = d.instruments /\ g.patterns = d.patterns
        /\ g.tracks = d.tracks
        /\ g.lanes = [k \in DOMAIN d.lanes \ {id} |-> Ungrouped(d.lanes[k], id)]
        /\ g.clips = [k \in DOMAIN d.clips \ ClipsOnLane(d, id) |-> d.clips[k]]
    BY <2>1, LaneDeleted
  <2>3. \A k \in DOMAIN d.lanes : IsLane(Ungrouped(d.lanes[k], id))
    BY DEF IsDocument, IsLane, Ungrouped
  <2> QED BY <2>2, <2>3 DEF IsDocument, IsMap, Tables
<1>4. CASE table = "clips"
  <2>1. g = DeleteClip(d, id)
    BY <1>4 DEF Delete
  <2> HIDE DEF g
  <2>2. /\ IsRecord(g) /\ g.instruments = d.instruments /\ g.patterns = d.patterns
        /\ g.lanes = d.lanes /\ g.tracks = d.tracks
        /\ g.clips = [k \in DOMAIN d.clips \ {id} |-> d.clips[k]]
    BY <2>1, ClipDeleted
  <2> QED BY <2>2 DEF IsDocument, IsMap, Tables
<1>5. CASE table = "tracks"
  <2>1. g = DeleteMixerTrack(d, id)
    BY <1>5 DEF Delete
  <2> HIDE DEF g
  <2>2. /\ IsRecord(g) /\ g.patterns = d.patterns /\ g.lanes = d.lanes
        /\ g.instruments = [i \in DOMAIN d.instruments |-> ToMaster(d.instruments[i], id)]
        /\ g.tracks = [k \in DOMAIN d.tracks \ {id} |-> Fed(d.tracks[k], id)]
        /\ g.clips = [c \in DOMAIN d.clips \ TrackCurves(d, id) |-> Repointed(d, c, id)]
    BY <2>1, TrackDeleted
  <2>3. \A i \in DOMAIN d.instruments : IsInstrument(ToMaster(d.instruments[i], id))
    BY DEF IsDocument, IsInstrument, ToMaster
  <2>4. ASSUME NEW k \in DOMAIN d.tracks
        PROVE  IsTrack(Fed(d.tracks[k], id))
    <3> DEFINE old == d.tracks[k]
    <3>1. IsTrack(old)
      BY DEF IsDocument
    <3>2. Fed(old, id).effects = old.effects
          /\ Fed(old, id) = [output |-> Fed(old, id).output, effects |-> old.effects]
      BY <3>1 DEF IsTrack, Fed
    <3> QED BY <3>1, <3>2 DEF IsTrack
  <2>5. ASSUME NEW c \in DOMAIN d.clips
        PROVE  IsClip(Repointed(d, c, id))
    <3> DEFINE old == d.clips[c]
    <3>1. IsClip(old)
      BY DEF IsDocument
    <3>2. old = [lane |-> old.lane, source |-> old.source, length |-> old.length] /\ IsSource(old.source)
      BY <3>1 DEF IsClip
    <3>3. IsSource(AudioSource(Master))
      BY SourcesApart
    <3>4. [old EXCEPT !.source = AudioSource(Master)] =
            [lane |-> old.lane, source |-> AudioSource(Master), length |-> old.length]
      BY <3>2
    <3> QED BY <3>2, <3>3, <3>4 DEF IsClip, Repointed
  <2> QED BY <2>2, <2>3, <2>4, <2>5 DEF IsDocument, IsMap, Tables
<1> QED BY <1>1, <1>2, <1>3, <1>4, <1>5 DEF Tables

-----------------------------------------------------------------------------
(* What is written resolves *)

\* What an entity refers to is there: looked up before a command is made.
Resolves(d, table, id, x) ==
  /\ table = "instruments" => x.track \in DOMAIN d.tracks
  /\ table = "patterns" => DOMAIN x.notes \subseteq DOMAIN d.instruments /\ {} \notin Range(x.notes)
  /\ table = "lanes" => (x.group # NoId => x.group \in DOMAIN d.lanes \ {id})
  /\ table = "clips" => x.lane \in DOMAIN d.lanes /\ SourceResolves(d, x.source)
  /\ table = "tracks" =>
       /\ id \in DOMAIN d.tracks => x.output = d.tracks[id].output
       /\ id \notin DOMAIN d.tracks => x.output \in DOMAIN d.tracks
       /\ Cardinality({slot.id : slot \in Range(x.effects)}) = Len(x.effects)
       /\ \A c \in DOMAIN d.clips :
            d.clips[c].source.kind = "automates effect" /\ d.clips[c].source.of = id
              => d.clips[c].source.effect \in {slot.id : slot \in Range(x.effects)}

LEMMA InstrumentStands ==
  ASSUME NEW d, IsDocument(d), Integrity(d), NEW id, NEW x, x.track \in DOMAIN d.tracks
  PROVE  Integrity(Restore(d, "instruments", id, x))
<1> DEFINE e == Restore(d, "instruments", id, x)
<1>0. e = [instruments |-> Put(d.instruments, id, x), patterns |-> d.patterns, lanes |-> d.lanes,
          clips |-> d.clips, tracks |-> d.tracks, transport |-> d.transport]
  <2>1. IsRecord(d)
    BY DEF IsDocument
  <2> QED BY <2>1, RestoreIs
<1> HIDE DEF e
<1>1. /\ e.patterns = d.patterns /\ e.lanes = d.lanes /\ e.clips = d.clips /\ e.tracks = d.tracks
      /\ e.instruments = [k \in DOMAIN d.instruments \cup {id} |->
                            IF k = id THEN x ELSE d.instruments[k]]
  BY <1>0 DEF Put
<1>2. InstrumentsResolve(e)
  BY <1>1 DEF InstrumentsResolve, Integrity
<1>3. SequencesResolve(e)
  BY <1>1 DEF SequencesResolve, Integrity
<1>4. GroupsResolve(e)
  BY <1>1 DEF GroupsResolve, Integrity
<1>5. TracksResolve(e) /\ EffectsDistinct(e) /\ \A t : Effects(e, t) = Effects(d, t)
  BY <1>1, TracksHold, EffectsHold DEF Integrity
<1>6. ClipsResolve(e)
  <2>1. ClipsResolve(d) /\ IsMap(d.clips) /\ \A k \in DOMAIN d.clips : IsClip(d.clips[k])
    BY DEF Integrity, IsDocument
  <2>2. \A s : Names(d, s) => Names(e, s)
    BY <1>1, <1>5 DEF Names
  <2>3. DOMAIN d.clips \in SUBSET DOMAIN d.clips /\ e.clips = [c \in DOMAIN d.clips |-> d.clips[c]]
    BY <1>1, <2>1 DEF IsMap
  <2> QED BY <1>1, <2>1, <2>2, <2>3, ClipsHold
<1> QED BY <1>2, <1>3, <1>4, <1>5, <1>6 DEF Integrity, e

LEMMA PatternStands ==
  ASSUME NEW d, IsDocument(d), Integrity(d), NEW id, NEW x,
         DOMAIN x.notes \subseteq DOMAIN d.instruments, {} \notin Range(x.notes)
  PROVE  Integrity(Restore(d, "patterns", id, x))
<1> DEFINE e == Restore(d, "patterns", id, x)
<1>0. e = [instruments |-> d.instruments, patterns |-> Put(d.patterns, id, x), lanes |-> d.lanes,
          clips |-> d.clips, tracks |-> d.tracks, transport |-> d.transport]
  <2>1. IsRecord(d)
    BY DEF IsDocument
  <2> QED BY <2>1, RestoreIs
<1> HIDE DEF e
<1>1. /\ e.instruments = d.instruments /\ e.lanes = d.lanes /\ e.clips = d.clips
      /\ e.tracks = d.tracks
      /\ e.patterns = [k \in DOMAIN d.patterns \cup {id} |-> IF k = id THEN x ELSE d.patterns[k]]
  BY <1>0 DEF Put
<1>2. InstrumentsResolve(e)
  BY <1>1 DEF InstrumentsResolve, Integrity
<1>3. SequencesResolve(e)
  BY <1>1 DEF SequencesResolve, Integrity
<1>4. GroupsResolve(e)
  BY <1>1 DEF GroupsResolve, Integrity
<1>5. TracksResolve(e) /\ EffectsDistinct(e) /\ \A t : Effects(e, t) = Effects(d, t)
  BY <1>1, TracksHold, EffectsHold DEF Integrity
<1>6. ClipsResolve(e)
  <2>1. ClipsResolve(d) /\ IsMap(d.clips) /\ \A k \in DOMAIN d.clips : IsClip(d.clips[k])
    BY DEF Integrity, IsDocument
  <2>2. \A s : Names(d, s) => Names(e, s)
    BY <1>1, <1>5 DEF Names
  <2>3. DOMAIN d.clips \in SUBSET DOMAIN d.clips /\ e.clips = [c \in DOMAIN d.clips |-> d.clips[c]]
    BY <1>1, <2>1 DEF IsMap
  <2> QED BY <1>1, <2>1, <2>2, <2>3, ClipsHold
<1> QED BY <1>2, <1>3, <1>4, <1>5, <1>6 DEF Integrity, e

LEMMA LaneStands ==
  ASSUME NEW d, IsDocument(d), Integrity(d), NEW id, NEW x,
         x.group # NoId => x.group \in DOMAIN d.lanes \ {id}
  PROVE  Integrity(Restore(d, "lanes", id, x))
<1> DEFINE e == Restore(d, "lanes", id, x)
<1>0. e = [instruments |-> d.instruments, patterns |-> d.patterns, lanes |-> Put(d.lanes, id, x),
          clips |-> d.clips, tracks |-> d.tracks, transport |-> d.transport]
  <2>1. IsRecord(d)
    BY DEF IsDocument
  <2> QED BY <2>1, RestoreIs
<1> HIDE DEF e
<1>1. /\ e.instruments = d.instruments /\ e.patterns = d.patterns /\ e.clips = d.clips
      /\ e.tracks = d.tracks
      /\ e.lanes = [k \in DOMAIN d.lanes \cup {id} |-> IF k = id THEN x ELSE d.lanes[k]]
  BY <1>0 DEF Put
<1>2. InstrumentsResolve(e)
  BY <1>1 DEF InstrumentsResolve, Integrity
<1>3. SequencesResolve(e)
  BY <1>1 DEF SequencesResolve, Integrity
<1>4. GroupsResolve(e)
  BY <1>1 DEF GroupsResolve, Integrity
<1>5. TracksResolve(e) /\ EffectsDistinct(e) /\ \A t : Effects(e, t) = Effects(d, t)
  BY <1>1, TracksHold, EffectsHold DEF Integrity
<1>6. ClipsResolve(e)
  <2>1. ClipsResolve(d) /\ IsMap(d.clips) /\ \A k \in DOMAIN d.clips : IsClip(d.clips[k])
    BY DEF Integrity, IsDocument
  <2>2. \A s : Names(d, s) => Names(e, s)
    BY <1>1, <1>5 DEF Names
  <2>3. DOMAIN d.clips \in SUBSET DOMAIN d.clips /\ e.clips = [c \in DOMAIN d.clips |-> d.clips[c]]
    BY <1>1, <2>1 DEF IsMap
  <2>4. DOMAIN d.lanes \subseteq DOMAIN e.lanes
    BY <1>1
  <2> QED BY <2>1, <2>2, <2>3, <2>4, ClipsHold
<1> QED BY <1>2, <1>3, <1>4, <1>5, <1>6 DEF Integrity, e

LEMMA ClipStands ==
  ASSUME NEW d, IsDocument(d), Integrity(d), NEW id, NEW x, IsClip(x),
         x.lane \in DOMAIN d.lanes, SourceResolves(d, x.source)
  PROVE  Integrity(Restore(d, "clips", id, x))
<1> DEFINE e == Restore(d, "clips", id, x)
<1>0. e = [instruments |-> d.instruments, patterns |-> d.patterns, lanes |-> d.lanes,
          clips |-> Put(d.clips, id, x), tracks |-> d.tracks, transport |-> d.transport]
  <2>1. IsRecord(d)
    BY DEF IsDocument
  <2> QED BY <2>1, RestoreIs
<1> HIDE DEF e
<1>1. /\ e.instruments = d.instruments /\ e.patterns = d.patterns /\ e.lanes = d.lanes
      /\ e.tracks = d.tracks
      /\ e.clips = [k \in DOMAIN d.clips \cup {id} |-> IF k = id THEN x ELSE d.clips[k]]
  BY <1>0 DEF Put
<1>2. InstrumentsResolve(e)
  BY <1>1 DEF InstrumentsResolve, Integrity
<1>3. SequencesResolve(e)
  BY <1>1 DEF SequencesResolve, Integrity
<1>4. GroupsResolve(e)
  BY <1>1 DEF GroupsResolve, Integrity
<1>5. TracksResolve(e) /\ EffectsDistinct(e) /\ \A t : Effects(e, t) = Effects(d, t)
  BY <1>1, TracksHold, EffectsHold DEF Integrity
<1>6. \A s : IsSource(s) /\ SourceResolves(d, s) => SourceResolves(e, s)
  <2> SUFFICES ASSUME NEW s, IsSource(s), SourceResolves(d, s)
               PROVE  SourceResolves(e, s)
    OBVIOUS
  <2>1. Names(d, s)
    BY SourceNames
  <2>2. Names(e, s)
    BY <1>1, <1>5, <2>1 DEF Names
  <2> QED BY <2>2, SourceNames
<1>7. ClipsResolve(e)
  <2> SUFFICES ASSUME NEW k \in DOMAIN e.clips
               PROVE  e.clips[k].lane \in DOMAIN e.lanes /\ SourceResolves(e, e.clips[k].source)
    BY DEF ClipsResolve
  <2>1. CASE k = id
    BY <1>1, <1>6, <2>1 DEF IsClip
  <2>2. CASE k # id
    <3>1. k \in DOMAIN d.clips /\ e.clips[k] = d.clips[k]
      BY <1>1, <2>2
    <3>2. IsSource(d.clips[k].source)
      BY <3>1 DEF IsDocument, IsClip
    <3>3. d.clips[k].lane \in DOMAIN d.lanes /\ SourceResolves(d, d.clips[k].source)
      BY <3>1 DEF Integrity, ClipsResolve
    <3> QED BY <1>1, <1>6, <3>1, <3>2, <3>3
  <2> QED BY <2>1, <2>2
<1> QED BY <1>2, <1>3, <1>4, <1>5, <1>7 DEF Integrity, e

\* A track keeps where it leads, or is new: then nothing leads to it yet.
LEMMA TracksStillLead ==
  ASSUME NEW d, IsDocument(d), TracksResolve(d), NEW id, id # NoId, NEW x,
         id \in DOMAIN d.tracks => x.output = d.tracks[id].output,
         id \notin DOMAIN d.tracks => x.output \in DOMAIN d.tracks,
         NEW e, DOMAIN e.tracks = DOMAIN d.tracks \cup {id}, e.tracks[id] = x,
         \A k \in DOMAIN d.tracks : k # id => e.tracks[k] = d.tracks[k]
  PROVE  TracksResolve(e)
<1>1. /\ \A k \in DOMAIN d.tracks : d.tracks[k].output = NoId <=> k = Master
      /\ Master \in DOMAIN d.tracks /\ NoId \notin DOMAIN d.tracks
      /\ \A k \in DOMAIN d.tracks \ {Master} : d.tracks[k].output \in DOMAIN d.tracks
  <2>1. {k \in DOMAIN d.tracks : d.tracks[k].output = NoId} = {Master}
    BY DEF TracksResolve
  <2>2. NoId \notin DOMAIN d.tracks
    BY DEF IsDocument, Tables
  <2> QED BY <2>1, <2>2 DEF TracksResolve
<1>2. DOMAIN e.tracks = DOMAIN d.tracks \cup {id}
  OBVIOUS
<1>3. CASE id \in DOMAIN d.tracks
  <2>1. /\ DOMAIN e.tracks = DOMAIN d.tracks
        /\ \A k \in DOMAIN d.tracks : e.tracks[k].output = d.tracks[k].output
    BY <1>2, <1>3
  <2>2. {k \in DOMAIN e.tracks : e.tracks[k].output = NoId} = {Master}
    BY <1>1, <2>1
  <2>3. \A k \in DOMAIN e.tracks \ {Master} : e.tracks[k].output \in DOMAIN e.tracks
    BY <1>1, <2>1
  <2>4. ASSUME NEW S \in SUBSET DOMAIN e.tracks, S # {}
        PROVE  \E k \in S : e.tracks[k].output \notin S
    <3>1. PICK k \in S : d.tracks[k].output \notin S
      BY <2>1, <2>4 DEF TracksResolve
    <3> QED BY <2>1, <3>1
  <2> QED BY <2>2, <2>3, <2>4 DEF TracksResolve
<1>4. CASE id \notin DOMAIN d.tracks
  <2>1. /\ e.tracks[id].output \in DOMAIN d.tracks
        /\ \A k \in DOMAIN d.tracks : e.tracks[k].output = d.tracks[k].output
    BY <1>2, <1>4
  <2>2. {k \in DOMAIN e.tracks : e.tracks[k].output = NoId} = {Master}
    BY <1>1, <1>2, <1>4, <2>1
  <2>3. \A k \in DOMAIN e.tracks \ {Master} : e.tracks[k].output \in DOMAIN e.tracks
    BY <1>1, <1>2, <2>1
  <2>4. ASSUME NEW S \in SUBSET DOMAIN e.tracks, S # {}
        PROVE  \E k \in S : e.tracks[k].output \notin S
    <3> DEFINE old == S \ {id}
    <3>1. CASE old = {}
      <4>1. S = {id}
        BY <2>4, <3>1
      <4> QED BY <1>4, <2>1, <4>1
    <3>2. CASE old # {}
      <4>1. old \in SUBSET DOMAIN d.tracks
        BY <1>2
      <4>2. PICK k \in old : d.tracks[k].output \notin old
        BY <3>2, <4>1 DEF TracksResolve
      <4>3. d.tracks[k].output # id
        BY <1>1, <1>4, <4>1
      <4> QED BY <2>1, <4>1, <4>2, <4>3
    <3> QED BY <3>1, <3>2
  <2> QED BY <2>2, <2>3, <2>4 DEF TracksResolve
<1> QED BY <1>3, <1>4

LEMMA TrackStands ==
  ASSUME NEW d, IsDocument(d), Integrity(d), NEW id, id # NoId, NEW x,
         Resolves(d, "tracks", id, x)
  PROVE  Integrity(Restore(d, "tracks", id, x))
<1> DEFINE e == Restore(d, "tracks", id, x)
<1>0. e = [instruments |-> d.instruments, patterns |-> d.patterns, lanes |-> d.lanes,
           clips |-> d.clips, tracks |-> Put(d.tracks, id, x), transport |-> d.transport]
  <2>1. IsRecord(d)
    BY DEF IsDocument
  <2> QED BY <2>1, RestoreIs
<1> HIDE DEF e
<1>1. /\ e.instruments = d.instruments /\ e.patterns = d.patterns /\ e.lanes = d.lanes
      /\ e.clips = d.clips
      /\ e.tracks = [k \in DOMAIN d.tracks \cup {id} |-> IF k = id THEN x ELSE d.tracks[k]]
  BY <1>0 DEF Put
<1> DEFINE ids == {slot.id : slot \in Range(x.effects)}
<1>2. /\ id \in DOMAIN d.tracks => x.output = d.tracks[id].output
      /\ id \notin DOMAIN d.tracks => x.output \in DOMAIN d.tracks
      /\ Cardinality(ids) = Len(x.effects)
      /\ \A c \in DOMAIN d.clips :
           d.clips[c].source.kind = "automates effect" /\ d.clips[c].source.of = id
             => d.clips[c].source.effect \in ids
  BY DEF Resolves
<1> HIDE DEF ids
<1>3. TracksResolve(e)
  <2>1. TracksResolve(d)
    BY DEF Integrity
  <2>2. /\ DOMAIN e.tracks = DOMAIN d.tracks \cup {id} /\ e.tracks[id] = x
        /\ \A k \in DOMAIN d.tracks : k # id => e.tracks[k] = d.tracks[k]
    BY <1>1
  <2> QED BY <1>2, <2>1, <2>2, TracksStillLead, ZenonT(40)
<1>4. Effects(e, id) = ids /\ \A t \in DOMAIN d.tracks : t # id => Effects(e, t) = Effects(d, t)
  BY <1>1 DEF Effects, ids
<1>5. EffectsDistinct(e)
  <2> SUFFICES ASSUME NEW t \in DOMAIN e.tracks
               PROVE  Cardinality(Effects(e, t)) = Len(e.tracks[t].effects)
    BY DEF EffectsDistinct
  <2>1. CASE t = id
    BY <1>1, <1>2, <1>4, <2>1
  <2>2. CASE t # id
    <3>1. t \in DOMAIN d.tracks /\ e.tracks[t] = d.tracks[t]
      BY <1>1, <2>2
    <3> QED BY <1>4, <2>2, <3>1 DEF Integrity, EffectsDistinct
  <2> QED BY <2>1, <2>2
<1>6. InstrumentsResolve(e)
  BY <1>1 DEF InstrumentsResolve, Integrity
<1>7. SequencesResolve(e) /\ GroupsResolve(e)
  BY <1>1 DEF SequencesResolve, GroupsResolve, Integrity
<1>8. ClipsResolve(e)
  <2> SUFFICES ASSUME NEW c \in DOMAIN d.clips
               PROVE  /\ d.clips[c].lane \in DOMAIN d.lanes
                      /\ SourceResolves(e, d.clips[c].source)
    BY <1>1 DEF ClipsResolve
  <2> DEFINE s == d.clips[c].source
  <2>1. IsSource(s)
    BY DEF IsDocument, IsClip
  <2>2. d.clips[c].lane \in DOMAIN d.lanes /\ SourceResolves(d, s)
    BY DEF Integrity, ClipsResolve
  <2>3. Names(d, s)
    BY <2>1, <2>2, SourceNames
  <2>4. s.kind = "automates effect" => s.effect \in Effects(e, s.of)
    BY <1>2, <1>4, <2>3 DEF Names
  <2>5. Names(e, s)
    BY <1>1, <2>3, <2>4 DEF Names
  <2> QED BY <2>1, <2>2, <2>5, SourceNames
<1> QED BY <1>3, <1>5, <1>6, <1>7, <1>8 DEF Integrity, e

\* What is written, anew or over what was there, leaves a document whose
\* references resolve.
LEMMA WrittenStands ==
  ASSUME NEW d, IsDocument(d), Integrity(d), NEW table \in Tables, NEW id, MayStand(d, table, id),
         NEW x, IsEntity(table, x), Resolves(d, table, id, x)
  PROVE  IsDocument(Restore(d, table, id, x)) /\ Integrity(Restore(d, table, id, x))
<1>1. ASSUME table = "instruments" PROVE Integrity(Restore(d, table, id, x))
  <2>1. x.track \in DOMAIN d.tracks
    BY <1>1 DEF Resolves
  <2>2. Integrity(Restore(d, "instruments", id, x))
    BY <2>1, InstrumentStands
  <2> QED BY <1>1, <2>2
<1>2. ASSUME table = "patterns" PROVE Integrity(Restore(d, table, id, x))
  <2>1. DOMAIN x.notes \subseteq DOMAIN d.instruments /\ {} \notin Range(x.notes)
    BY <1>2 DEF Resolves
  <2>2. Integrity(Restore(d, "patterns", id, x))
    BY <2>1, PatternStands
  <2> QED BY <1>2, <2>2
<1>3. ASSUME table = "lanes" PROVE Integrity(Restore(d, table, id, x))
  <2>1. x.group # NoId => x.group \in DOMAIN d.lanes \ {id}
    BY <1>3 DEF Resolves
  <2>2. Integrity(Restore(d, "lanes", id, x))
    BY <2>1, LaneStands
  <2> QED BY <1>3, <2>2
<1>4. ASSUME table = "clips" PROVE Integrity(Restore(d, table, id, x))
  <2>1. IsClip(x) /\ x.lane \in DOMAIN d.lanes /\ SourceResolves(d, x.source)
    BY <1>4 DEF Resolves, IsEntity
  <2>2. Integrity(Restore(d, "clips", id, x))
    BY <2>1, ClipStands
  <2> QED BY <1>4, <2>2
<1>5. ASSUME table = "tracks" PROVE Integrity(Restore(d, table, id, x))
  <2>1. id # NoId /\ Resolves(d, "tracks", id, x)
    BY <1>5 DEF MayStand, IsFresh, IsDocument
  <2>2. Integrity(Restore(d, "tracks", id, x))
    BY <2>1, TrackStands
  <2> QED BY <1>5, <2>2
<1>6. Integrity(Restore(d, table, id, x))
  BY <1>1, <1>2, <1>3, <1>4, <1>5 DEF Tables
<1> QED BY <1>6, AddedIsDocument

-----------------------------------------------------------------------------
(* Commands leave documents whose references resolve *)

Sound(d) == IsDocument(d) /\ Integrity(d)

LEMMA LengthsStand ==
  ASSUME NEW d, Sound(d), NEW lengths
  PROVE  Sound(SetLengths(d, lengths))
<1> DEFINE e == SetLengths(d, lengths)
<1>1. IsDocument(d) /\ Integrity(d) /\ IsRecord(d)
  BY DEF Sound, IsDocument
<1>2. /\ IsRecord(e) /\ e.instruments = d.instruments /\ e.patterns = d.patterns
      /\ e.lanes = d.lanes /\ e.tracks = d.tracks /\ e.clips = Relength(d.clips, lengths)
  BY <1>1, SetLengthsIs
<1> HIDE DEF e
<1>3. ASSUME NEW c \in DOMAIN d.clips
      PROVE  /\ IsClip(e.clips[c]) /\ e.clips[c].lane = d.clips[c].lane
             /\ e.clips[c].source = d.clips[c].source
  <2> DEFINE old == d.clips[c]
  <2>1. old = [lane |-> old.lane, source |-> old.source, length |-> old.length]
        /\ IsSource(old.source)
    BY <1>1 DEF IsDocument, IsClip
  <2>2. e.clips[c] = IF c \in DOMAIN lengths THEN [old EXCEPT !.length = lengths[c]] ELSE old
    BY <1>2 DEF Relength
  <2> QED BY <2>1, <2>2 DEF IsClip
<1>4. IsMap(e.clips) /\ DOMAIN e.clips = DOMAIN d.clips
  BY <1>2 DEF Relength, IsMap
<1>5. IsDocument(e)
  <2>1. \A table \in Tables : DOMAIN e[table] = DOMAIN d[table]
    BY <1>2, <1>4 DEF Tables
  <2>2. /\ \A table \in Tables : NoId \notin DOMAIN d[table]
        /\ \A s, t \in Tables : s # t => DOMAIN d[s] \cap DOMAIN d[t] = {}
    BY <1>1 DEF IsDocument
  <2>3. /\ \A table \in Tables : NoId \notin DOMAIN e[table]
        /\ \A s, t \in Tables : s # t => DOMAIN e[s] \cap DOMAIN e[t] = {}
    BY <2>1, <2>2
  <2>4. \A c \in DOMAIN e.clips : IsClip(e.clips[c])
    BY <1>3, <1>4
  <2> QED BY <1>1, <1>2, <1>4, <2>3, <2>4 DEF IsDocument
<1>6. /\ InstrumentsResolve(e) /\ SequencesResolve(e) /\ GroupsResolve(e)
      /\ TracksResolve(e) /\ EffectsDistinct(e) /\ \A t : Effects(e, t) = Effects(d, t)
  <2>1. InstrumentsResolve(e)
    BY <1>1, <1>2 DEF InstrumentsResolve, Integrity
  <2>2. SequencesResolve(e)
    BY <1>1, <1>2 DEF SequencesResolve, Integrity
  <2>3. GroupsResolve(e)
    BY <1>1, <1>2 DEF GroupsResolve, Integrity
  <2> QED BY <1>1, <1>2, <2>1, <2>2, <2>3, TracksHold, EffectsHold DEF Integrity
<1>7. ASSUME NEW c \in DOMAIN e.clips
      PROVE  e.clips[c].lane \in DOMAIN e.lanes /\ SourceResolves(e, e.clips[c].source)
  <2> DEFINE s == d.clips[c].source
  <2>1. c \in DOMAIN d.clips
    BY <1>4
  <2>2. IsSource(s)
    BY <1>1, <2>1 DEF IsDocument, IsClip
  <2>3. d.clips[c].lane \in DOMAIN d.lanes /\ SourceResolves(d, s)
    BY <1>1, <2>1 DEF Integrity, ClipsResolve
  <2>4. Names(d, s)
    BY <2>2, <2>3, SourceNames
  <2>5. Names(e, s)
    BY <1>2, <1>6, <2>4 DEF Names
  <2> QED BY <1>2, <1>3, <2>1, <2>2, <2>3, <2>5, SourceNames
<1>8. Integrity(e)
  BY <1>6, <1>7 DEF Integrity, ClipsResolve
<1> QED BY <1>5, <1>8 DEF Sound, e

LEMMA TransportStands ==
  ASSUME NEW d, Sound(d), NEW after
  PROVE  Sound([d EXCEPT !.transport = after])
<1> DEFINE e == [d EXCEPT !.transport = after]
<1>1. IsDocument(d) /\ Integrity(d) /\ IsRecord(d)
  BY DEF Sound, IsDocument
<1>2. e = [instruments |-> d.instruments, patterns |-> d.patterns, lanes |-> d.lanes,
           clips |-> d.clips, tracks |-> d.tracks, transport |-> after]
  BY <1>1 DEF IsRecord
<1> HIDE DEF e
<1>3. /\ IsRecord(e) /\ e.instruments = d.instruments /\ e.patterns = d.patterns
      /\ e.lanes = d.lanes /\ e.clips = d.clips /\ e.tracks = d.tracks
  BY <1>2 DEF IsRecord
<1>4. IsDocument(e)
  BY <1>1, <1>3 DEF IsDocument, Tables
<1>5. TracksResolve(e) /\ EffectsDistinct(e) /\ \A t : Effects(e, t) = Effects(d, t)
  BY <1>1, <1>3, TracksHold, EffectsHold DEF Integrity
<1>6. InstrumentsResolve(e)
  BY <1>1, <1>3 DEF InstrumentsResolve, Integrity
<1>7. SequencesResolve(e) /\ GroupsResolve(e)
  BY <1>1, <1>3 DEF SequencesResolve, GroupsResolve, Integrity
<1>8. ClipsResolve(e)
  <2>1. ClipsResolve(d) /\ IsMap(d.clips) /\ \A k \in DOMAIN d.clips : IsClip(d.clips[k])
    BY <1>1 DEF Integrity, IsDocument
  <2>2. \A s : Names(d, s) => Names(e, s)
    BY <1>3, <1>5 DEF Names
  <2>3. DOMAIN d.clips \in SUBSET DOMAIN d.clips /\ e.clips = [c \in DOMAIN d.clips |-> d.clips[c]]
    BY <1>3, <2>1 DEF IsMap
  <2> QED BY <1>3, <2>1, <2>2, <2>3, ClipsHold
<1> QED BY <1>4, <1>5, <1>6, <1>7, <1>8 DEF Sound, Integrity, e

LEMMA SequenceStands ==
  ASSUME NEW d, Sound(d), NEW p \in DOMAIN d.patterns, NEW i \in DOMAIN d.instruments, NEW some
  PROVE  Sound(RestoreSequence(d, p, i, some))
<1> DEFINE e == RestoreSequence(d, p, i, some)
           notes == Sequenced(d.patterns[p].notes, i, some)
           x == [length |-> d.patterns[p].length, notes |-> notes]
           f == Restore(d, "patterns", p, x)
<1>1. IsDocument(d) /\ Integrity(d) /\ IsRecord(d) /\ IsMap(d.patterns) /\ IsPattern(d.patterns[p])
  BY DEF Sound, IsDocument
<1>2. /\ d.patterns[p] = [length |-> d.patterns[p].length, notes |-> d.patterns[p].notes]
      /\ IsMap(d.patterns[p].notes)
  BY <1>1 DEF IsPattern
<1>3. /\ IsRecord(e) /\ e.instruments = d.instruments /\ e.lanes = d.lanes /\ e.clips = d.clips
      /\ e.tracks = d.tracks /\ e.transport = d.transport
      /\ e.patterns = [k \in DOMAIN d.patterns |-> IF k = p THEN x ELSE d.patterns[k]]
  BY <1>1, <1>2, RestoreSequenceIs
<1>4. f = [instruments |-> d.instruments, patterns |-> Put(d.patterns, p, x), lanes |-> d.lanes,
           clips |-> d.clips, tracks |-> d.tracks, transport |-> d.transport]
  BY <1>1, RestoreIs
<1>5. \A k \in DOMAIN d.patterns[p].notes : k # i => notes[k] = d.patterns[p].notes[k]
  BY SequencedKeeps
<1>6. /\ IsMap(notes) /\ SequenceIn(notes, i) = some
     /\ DOMAIN notes = IF some = {} THEN DOMAIN d.patterns[p].notes \ {i}
                                    ELSE DOMAIN d.patterns[p].notes \cup {i}
  <2> DEFINE of == d.patterns[p].notes
  <2>1. IsMap(of)
    BY <1>2
  <2> HIDE DEF of, e, f
  <2>2. /\ IsMap(Sequenced(of, i, some)) /\ SequenceIn(Sequenced(of, i, some), i) = some
        /\ DOMAIN Sequenced(of, i, some) = IF some = {} THEN DOMAIN of \ {i} ELSE DOMAIN of \cup {i}
    BY <2>1, SequencedIs, ZenonT(40)
  <2> QED BY <2>2 DEF of
<1> HIDE DEF notes, e, f
<1>7. /\ IsMap(notes) /\ DOMAIN notes \subseteq DOMAIN d.patterns[p].notes \cup {i}
      /\ SequenceIn(notes, i) = some /\ (some = {} => i \notin DOMAIN notes)
  BY <1>6
<1>8. /\ DOMAIN d.patterns[p].notes \subseteq DOMAIN d.instruments
      /\ {} \notin Range(d.patterns[p].notes)
  BY <1>1 DEF Integrity, SequencesResolve
<1>9. \A k \in DOMAIN notes : notes[k] # {}
  <2> SUFFICES ASSUME NEW k \in DOMAIN notes, notes[k] = {} PROVE FALSE
    OBVIOUS
  <2>1. k # i
    BY <1>7 DEF SequenceIn
  <2>2. k \in DOMAIN d.patterns[p].notes /\ d.patterns[p].notes[k] = {}
    BY <1>7, <1>5, <2>1
  <2> QED BY <1>8, <2>2 DEF Range
<1>10. Resolves(d, "patterns", p, x)
  <2>1. DOMAIN notes \subseteq DOMAIN d.instruments /\ {} \notin Range(notes)
    BY <1>7, <1>8, <1>9 DEF Range
  <2> QED BY <2>1 DEF Resolves
<1>11. IsEntity("patterns", x)
  BY <1>7 DEF IsEntity, IsPattern
<1>12. "patterns" \in Tables /\ MayStand(d, "patterns", p)
  BY DEF Tables, MayStand
<1>13. Sound(f)
  BY <1>1, <1>10, <1>11, <1>12, WrittenStands DEF Sound, f
<1>14. Put(d.patterns, p, x) = [k \in DOMAIN d.patterns |-> IF k = p THEN x ELSE d.patterns[k]]
  BY DEF Put
<1>15. e = f
  BY <1>3, <1>4, <1>14 DEF IsRecord
<1> QED BY <1>13, <1>15 DEF e

LEMMA ParamStands ==
  ASSUME NEW d, Sound(d), NEW t \in DOMAIN d.tracks, NEW effect, NEW value
  PROVE  Sound(WriteParam(d, t, effect, value))
<1> DEFINE e == WriteParam(d, t, effect, value)
           old == d.tracks[t].effects
           chain == ParamSet(old, effect, value)
           x == [output |-> d.tracks[t].output, effects |-> chain]
           f == Restore(d, "tracks", t, x)
<1>1. IsDocument(d) /\ Integrity(d) /\ IsRecord(d) /\ IsMap(d.tracks) /\ IsTrack(d.tracks[t])
  BY DEF Sound, IsDocument
<1>2. /\ d.tracks[t] = [output |-> d.tracks[t].output, effects |-> d.tracks[t].effects]
      /\ old \in Seq(Range(old))
      /\ \A n \in DOMAIN old : old[n] = [id |-> old[n].id, value |-> old[n].value]
  BY <1>1 DEF IsTrack
<1>3. /\ IsRecord(e) /\ e.instruments = d.instruments /\ e.patterns = d.patterns
      /\ e.lanes = d.lanes /\ e.clips = d.clips /\ e.transport = d.transport
      /\ e.tracks = [k \in DOMAIN d.tracks |-> IF k = t THEN x ELSE d.tracks[k]]
  BY <1>1, <1>2, WriteParamIs
<1>4. f = [instruments |-> d.instruments, patterns |-> d.patterns, lanes |-> d.lanes,
           clips |-> d.clips, tracks |-> Put(d.tracks, t, x), transport |-> d.transport]
  BY <1>1, RestoreIs
<1> HIDE DEF e, f
<1>5. /\ DOMAIN chain = DOMAIN old
      /\ \A n \in DOMAIN old : /\ chain[n].id = old[n].id
                               /\ chain[n] = [id |-> chain[n].id, value |-> chain[n].value]
  <2>1. ASSUME NEW n \in DOMAIN old
        PROVE  /\ chain[n].id = old[n].id
               /\ chain[n] = [id |-> chain[n].id, value |-> chain[n].value]
    <3>1. chain[n] = IF old[n].id = effect THEN [old[n] EXCEPT !.value = value] ELSE old[n]
      BY DEF ParamSet
    <3> QED BY <1>2, <3>1
  <2> QED BY <2>1 DEF ParamSet
<1>6. chain \in Seq(Range(chain)) /\ Len(chain) = Len(old)
  <2>1. DOMAIN chain = 1..Len(old) /\ Len(old) \in Nat
    BY <1>2, <1>5
  <2>2. chain = [n \in 1..Len(old) |-> chain[n]]
    BY <2>1 DEF ParamSet
  <2> HIDE DEF chain, old
  <2>3. \A n \in 1..Len(old) : chain[n] \in Range(chain)
    BY <2>1 DEF Range
  <2> QED BY <2>1, <2>2, <2>3
<1> HIDE DEF chain
<1>7. {slot.id : slot \in Range(chain)} = Effects(d, t)
  <2>1. {slot.id : slot \in Range(chain)} = {chain[n].id : n \in DOMAIN chain}
    BY DEF Range
  <2>2. Effects(d, t) = {old[n].id : n \in DOMAIN old}
    BY DEF Effects, Range
  <2> HIDE DEF old
  <2> QED BY <1>5, <2>1, <2>2
<1>8. Cardinality(Effects(d, t)) = Len(old)
  BY <1>1 DEF Integrity, EffectsDistinct
<1>9. ASSUME NEW c \in DOMAIN d.clips, d.clips[c].source.kind = "automates effect",
             d.clips[c].source.of = t
      PROVE  d.clips[c].source.effect \in Effects(d, t)
  <2>1. SourceResolves(d, d.clips[c].source) /\ IsSource(d.clips[c].source)
    BY <1>1 DEF Integrity, ClipsResolve, IsDocument, IsClip
  <2> QED BY <1>9, <2>1, SourceNames DEF Names
<1>10. Resolves(d, "tracks", t, x)
  BY <1>6, <1>7, <1>8, <1>9 DEF Resolves
<1>11. IsEntity("tracks", x)
  BY <1>5, <1>6 DEF IsEntity, IsTrack
<1>12. "tracks" \in Tables /\ MayStand(d, "tracks", t)
  BY DEF Tables, MayStand
<1>13. Sound(f)
  BY <1>1, <1>10, <1>11, <1>12, WrittenStands DEF Sound, f
<1>14. Put(d.tracks, t, x) = [k \in DOMAIN d.tracks |-> IF k = t THEN x ELSE d.tracks[k]]
  BY DEF Put
<1>15. e = f
  BY <1>3, <1>4, <1>14 DEF IsRecord
<1> QED BY <1>13, <1>15 DEF e

LEMMA EditStands ==
  ASSUME NEW d, Sound(d), NEW table \in Tables, NEW id \in DOMAIN d[table], NEW value,
         IsEntity(table, value), table # "patterns" => Resolves(d, table, id, value)
  PROVE  Sound(Update(d, table, id, value))
<1> DEFINE x == Written(d[table][id], table, value)
           f == [d[table] EXCEPT ![id] = x]
<1>1. IsDocument(d) /\ Integrity(d) /\ IsRecord(d) /\ IsMap(d[table])
  BY TablesMap DEF Sound, IsDocument
<1>2. Update(d, table, id, value) = Filled(d, table, f)
  BY <1>1, UpdateIs
<1>3. f = Put(d[table], id, x)
  BY <1>1 DEF Put, IsMap
<1> HIDE DEF f
<1>4. Update(d, table, id, value) = Restore(d, table, id, x)
  <2>1. table \in DOMAIN d
    BY <1>1, TablesAreThere
  <2> QED BY <1>2, <1>3, <2>1 DEF Filled, Restore
<1>5. IsEntity(table, x) /\ Resolves(d, table, id, x)
  <2>1. CASE table # "patterns"
    BY <2>1 DEF Written
  <2>2. CASE table = "patterns"
    <3> DEFINE old == d.patterns[id]
    <3>1. id \in DOMAIN d.patterns /\ IsPattern(old)
      BY <1>1, <2>2 DEF IsDocument
    <3>2. x = [old EXCEPT !.length = value.length]
      BY <2>2 DEF Written
    <3>3. x = [length |-> value.length, notes |-> old.notes]
      BY <3>1, <3>2 DEF IsPattern
    <3> HIDE DEF x
    <3>4. DOMAIN old.notes \subseteq DOMAIN d.instruments /\ {} \notin Range(old.notes)
      BY <1>1, <3>1 DEF Integrity, SequencesResolve
    <3>5. IsEntity("patterns", x)
      BY <3>1, <3>3 DEF IsEntity, IsPattern
    <3>6. Resolves(d, "patterns", id, x)
      BY <3>3, <3>4 DEF Resolves
    <3> QED BY <2>2, <3>5, <3>6
  <2> QED BY <2>1, <2>2
<1>6. Sound(Restore(d, table, id, x))
  BY <1>1, <1>5, WrittenStands DEF MayStand, Sound
<1> QED BY <1>4, <1>6

\* What the ABI looks up before it makes a command.
LookedUp(c, d) ==
  /\ c.kind = "add" => Resolves(d, c.table, c.id, c.entity)
  /\ c.kind = "edit" => /\ IsEntity(c.table, c.after)
                        /\ c.table # "patterns" => Resolves(d, c.table, c.id, c.after)

\* A command that was made for a document leaves one in which every reference
\* resolves: what checkReferentialIntegrity() demands after every mutation.
THEOREM CommandsKeepIntegrity ==
  ASSUME NEW d, IsDocument(d), Integrity(d), NEW c, IsCommand(c), MadeFor(c, d), LookedUp(c, d),
         Applied(c, d).ok
  PROVE  IsDocument(Applied(c, d).doc) /\ Integrity(Applied(c, d).doc)
<1> DEFINE r == Applied(c, d).doc
<1>1. Sound(d)
  BY DEF Sound
<1>2. CASE c.kind = "add"
  <2>1. c.table \in Tables /\ IsFresh(d, c.id) /\ IsEntity(c.table, c.entity)
        /\ Resolves(d, c.table, c.id, c.entity)
    BY <1>2 DEF MadeFor, LookedUp
  <2>2. CanRestore(d, c.table, c.id)
    BY <2>1 DEF CanRestore, IsFresh
  <2>3. r = Restore(d, c.table, c.id, c.entity)
    BY <1>2, <2>2 DEF Applied, When, Succeeds
  <2>4. IsDocument(Restore(d, c.table, c.id, c.entity)) /\ Integrity(Restore(d, c.table, c.id, c.entity))
    BY <2>1, WrittenStands DEF MayStand
  <2> QED BY <2>3, <2>4
<1>3. CASE c.kind = "remove"
  <2>1. CanDelete(d, c.table, c.id)
    BY <1>3 DEF Applied, When, FailsOn
  <2>2. r = Delete(d, c.table, c.id)
    BY <1>3, <2>1 DEF Applied, When, Succeeds
  <2>3. c.table \in Tables
    BY <1>3 DEF MadeFor
  <2>4. IsDocument(Delete(d, c.table, c.id)) /\ Integrity(Delete(d, c.table, c.id))
    BY <2>1, <2>3, DeletedIsDocument, DeletionsKeepIntegrity
  <2> QED BY <2>2, <2>4
<1>4. CASE c.kind = "edit"
  <2>1. CanUpdate(d, c.table, c.id)
    BY <1>4 DEF Applied, When, FailsOn
  <2>2. r = Update(d, c.table, c.id, c.after)
    BY <1>4, <2>1 DEF Applied, When, Succeeds
  <2>3. /\ c.table \in Tables /\ c.id \in DOMAIN d[c.table] /\ IsEntity(c.table, c.after)
        /\ c.table # "patterns" => Resolves(d, c.table, c.id, c.after)
    BY <1>4, <2>1 DEF MadeFor, LookedUp, CanUpdate
  <2>4. Sound(Update(d, c.table, c.id, c.after))
    BY <1>1, <2>3, EditStands
  <2> QED BY <2>2, <2>4 DEF Sound
<1>5. CASE c.kind = "notes"
  <2> DEFINE some == (SequenceOf(d, c.pattern, c.instrument) \ c.removed) \cup c.added
             e == RestoreSequence(d, c.pattern, c.instrument, some)
             lengths == [k \in DOMAIN Resized(d, e, c.pattern) |-> EffectiveLength(e.patterns[c.pattern])]
  <2>1. CanEditSequence(d, c.pattern, c.instrument, c.removed)
    BY <1>5 DEF Applied, When, FailsOn
  <2>2. c.pattern \in DOMAIN d.patterns /\ c.instrument \in DOMAIN d.instruments
    BY <2>1 DEF CanEditSequence, CanRestoreSequence
  <2>3. EditSequence(d, c.pattern, c.instrument, c.removed, c.added) = e
    BY DEF EditSequence
  <2>4. Sound(e)
    BY <1>1, <2>2, SequenceStands
  <2> HIDE DEF e
  <2>5. r = SetLengths(e, lengths)
    BY <1>5, <2>1, <2>3 DEF Applied, When, Succeeds, FollowPatternLength
  <2>6. Sound(SetLengths(e, lengths))
    BY <2>4, LengthsStand
  <2> QED BY <2>5, <2>6 DEF Sound
<1>6. CASE c.kind = "param"
  <2>1. CanUpdate(d, "tracks", c.track)
    BY <1>6 DEF Applied, When, FailsOn
  <2>2. r = WriteParam(d, c.track, c.effect, c.after)
    BY <1>6, <2>1 DEF Applied, When, Succeeds
  <2>3. Sound(WriteParam(d, c.track, c.effect, c.after))
    BY <1>1, <2>1, ParamStands DEF CanUpdate
  <2> QED BY <2>2, <2>3 DEF Sound
<1>7. CASE c.kind = "transport"
  <2> DEFINE e == [d EXCEPT !.transport = c.after]
             had == OriginalLengths(e, c.before.tempo, c.after.tempo)
             lengths == [k \in DOMAIN had |-> Rescaled(had[k], c.before.tempo, c.after.tempo)]
  <2>1. Sound(e)
    BY <1>1, TransportStands
  <2>2. r = SetLengths(e, lengths)
    BY <1>7 DEF Applied, Succeeds, RescaleAudioClips
  <2> HIDE DEF e, lengths
  <2>3. Sound(SetLengths(e, lengths))
    BY <2>1, LengthsStand
  <2> QED BY <2>2, <2>3 DEF Sound
<1>8. c.kind \in {"add", "remove", "edit", "notes", "param", "transport"}
  BY DEF IsCommand
<1> QED BY <1>2, <1>3, <1>4, <1>5, <1>6, <1>7, <1>8

-----------------------------------------------------------------------------
(* Sequences of commands *)

Applying    == INSTANCE LeftFold WITH op <- ApplyPart
Reverting   == INSTANCE LeftFold WITH op <- RevertPart
RollingBack == INSTANCE LeftFold WITH op <- RollBackPart

IsSeq(q) == q \in Seq(Range(q))
At(d, parts) == [ok |-> TRUE, doc |-> d, parts |-> parts]

LEMMA SeqsAre ==
  ASSUME NEW S, NEW q \in Seq(S)
  PROVE  IsSeq(q) /\ Reverse(q) \in Seq(S) /\ IsSeq(Reverse(q)) /\ Len(Reverse(q)) = Len(q)
<1>1. \A k \in 1..Len(q) : q[k] \in Range(q)
  BY DEF Range
<1>2. IsSeq(q)
  BY <1>1 DEF IsSeq
<1>3. Reverse(q) \in Seq(S) /\ Len(Reverse(q)) = Len(q)
  BY DEF Reverse
<1>4. \A r \in Seq(S) : IsSeq(r)
  BY DEF IsSeq, Range
<1> QED BY <1>2, <1>3, <1>4

LEMMA SeqsJoin ==
  ASSUME NEW p, NEW q, IsSeq(p), IsSeq(q)
  PROVE  /\ IsSeq(p \o q) /\ Len(p \o q) = Len(p) + Len(q)
         /\ Reverse(p \o q) = Reverse(q) \o Reverse(p)
<1> DEFINE S == Range(p) \cup Range(q)
<1>1. p \in Seq(S) /\ q \in Seq(S)
  BY DEF IsSeq
<1> HIDE DEF S
<1>2. p \o q \in Seq(S) /\ Len(p \o q) = Len(p) + Len(q)
  BY <1>1
<1>3. \A k \in 1..(Len(p) + Len(q)) :
        Reverse(p \o q)[k] = (Reverse(q) \o Reverse(p))[k]
  BY <1>1 DEF Reverse
<1>4. /\ Reverse(p) \in Seq(S) /\ Len(Reverse(p)) = Len(p)
      /\ Reverse(q) \in Seq(S) /\ Len(Reverse(q)) = Len(q)
  BY <1>1, SeqsAre
<1>5. Reverse(p \o q) \in Seq(S) /\ Len(Reverse(p \o q)) = Len(p) + Len(q) /\ IsSeq(p \o q)
  BY <1>2, SeqsAre
<1> DEFINE there == Reverse(p \o q)
           back == Reverse(q) \o Reverse(p)
<1>6. back \in Seq(S) /\ Len(back) = Len(p) + Len(q)
  <2> HIDE DEF IsSeq
  <2>1. Len(p) \in Nat /\ Len(q) \in Nat
    BY <1>1
  <2>2. \A u, v \in Seq(S) : u \o v \in Seq(S) /\ Len(u \o v) = Len(u) + Len(v)
    OBVIOUS
  <2> QED BY <1>4, <2>1, <2>2
<1>7. \A k \in 1..(Len(p) + Len(q)) : there[k] = back[k]
  BY <1>3
<1> HIDE DEF there, back
<1>8. there = back
  BY <1>5, <1>6, <1>7 DEF there
<1> QED BY <1>2, <1>5, <1>8 DEF there, back

LEMMA SeqFacts ==
  /\ IsSeq(<<>>) /\ Reverse(<<>>) = <<>> /\ Len(<<>>) = 0
  /\ \A x : IsSeq(<<x>>) /\ Reverse(<<x>>) = <<x>> /\ Len(<<x>>) = 1
  /\ \A q : IsSeq(q) => q \o <<>> = q /\ <<>> \o q = q
<1>1. IsSeq(<<>>) /\ Reverse(<<>>) = <<>> /\ Len(<<>>) = 0
  BY DEF IsSeq, Reverse
<1>2. ASSUME NEW x
      PROVE  IsSeq(<<x>>) /\ Reverse(<<x>>) = <<x>> /\ Len(<<x>>) = 1
  <2>1. <<x>> \in Seq({x}) /\ Len(<<x>>) = 1
    OBVIOUS
  <2>2. IsSeq(<<x>>) /\ Reverse(<<x>>) \in Seq({x}) /\ Len(Reverse(<<x>>)) = 1
    BY <2>1, SeqsAre
  <2>3. \A q \in Seq({x}) : Len(q) = 1 => q = <<x>>
    OBVIOUS
  <2> QED BY <2>1, <2>2, <2>3
<1>3. ASSUME NEW q, IsSeq(q)
      PROVE  q \o <<>> = q /\ <<>> \o q = q
  BY <1>3 DEF IsSeq
<1> QED BY <1>1, <1>2, <1>3

-----------------------------------------------------------------------------
(* U leads from a to b and is P afterwards; P leads back and is U again *)

Linked(U, a, P, b) ==
  /\ IsSeq(U) /\ IsSeq(P) /\ Len(U) = Len(P)
  /\ \A R : IsSeq(R) => Applying!Fold(At(a, R), U) = At(b, R \o P)
  /\ \A Q : IsSeq(Q) => Reverting!Fold(At(b, Q), Reverse(P)) = At(a, U \o Q)
  /\ RollingBack!Fold(b, Reverse(P)) = a

LEMMA NothingLinks ==
  ASSUME NEW a
  PROVE  Linked(<<>>, a, <<>>, a)
BY SeqFacts, Applying!FoldOfNone, Reverting!FoldOfNone, RollingBack!FoldOfNone DEF Linked

LEMMA StepsOn ==
  ASSUME NEW x, x = [ok |-> x.ok, doc |-> x.doc, parts |-> x.parts], NEW d, NEW parts,
         NEW y, y = [x EXCEPT !.doc = d, !.parts = parts]
  PROVE  y = [ok |-> x.ok, doc |-> d, parts |-> parts]
OBVIOUS

LEMMA FailsAt ==
  ASSUME NEW x, x = [ok |-> x.ok, doc |-> x.doc, parts |-> x.parts], NEW d,
         NEW y, y = [x EXCEPT !.ok = FALSE, !.doc = d]
  PROVE  y = [ok |-> FALSE, doc |-> d, parts |-> x.parts]
OBVIOUS

LEMMA UnchangedAt ==
  ASSUME NEW d, NEW some, NEW x, x = [ok |-> FALSE, doc |-> d, parts |-> some], NEW parts,
         NEW y, y = [x EXCEPT !.parts = parts]
  PROVE  y = [ok |-> FALSE, doc |-> d, parts |-> parts]
OBVIOUS

LEMMA OneLinks ==
  ASSUME NEW a, NEW b, NEW u, NEW p,
         Applied(u, a).ok, Applied(u, a).doc = b, Applied(u, a).cmd = p,
         Reverted(p, b).ok = TRUE, Reverted(p, b).doc = a, Reverted(p, b).cmd = u
  PROVE  Linked(<<u>>, a, <<p>>, b)
<1>1. ASSUME NEW R, IsSeq(R)
      PROVE  Applying!Fold(At(a, R), <<u>>) = At(b, R \o <<p>>)
  <2>1. Applying!Fold(At(a, R), <<u>>) = ApplyPart(At(a, R), u)
    BY Applying!FoldOfOne
  <2>2. Append(R, p) = R \o <<p>>
    BY <1>1 DEF IsSeq
  <2>3. At(a, R).ok /\ At(a, R).doc = a /\ At(a, R).parts = R
    BY DEF At
  <2>5. ApplyPart(At(a, R), u) = [At(a, R) EXCEPT !.doc = b, !.parts = Append(R, p)]
    BY <2>3 DEF ApplyPart, Onward
  <2>6. At(a, R) = [ok |-> At(a, R).ok, doc |-> At(a, R).doc, parts |-> At(a, R).parts]
    BY DEF At
  <2> DEFINE x == At(a, R)
             y == ApplyPart(x, u)
  <2>7. y = [ok |-> x.ok, doc |-> b, parts |-> Append(R, p)]
    <3> HIDE DEF x, y
    <3>1. x = [ok |-> x.ok, doc |-> x.doc, parts |-> x.parts]
      BY <2>6 DEF x
    <3>2. y = [x EXCEPT !.doc = b, !.parts = Append(R, p)]
      BY <2>5 DEF x, y
    <3> QED BY <3>1, <3>2, StepsOn
  <2> QED BY <2>1, <2>2, <2>3, <2>7 DEF At
<1>2. ASSUME NEW Q, IsSeq(Q)
      PROVE  Reverting!Fold(At(b, Q), Reverse(<<p>>)) = At(a, <<u>> \o Q)
  <2>1. Reverting!Fold(At(b, Q), <<p>>) = RevertPart(At(b, Q), p)
    BY Reverting!FoldOfOne
  <2>2. At(b, Q).ok /\ At(b, Q).doc = b /\ At(b, Q).parts = Q
    BY DEF At
  <2>4. RevertPart(At(b, Q), p) = [ok |-> TRUE, doc |-> a, parts |-> <<u>> \o Q]
    BY <2>2 DEF RevertPart, Backward
  <2> QED BY <2>1, <2>4, SeqFacts DEF At
<1>3. RollingBack!Fold(b, Reverse(<<p>>)) = a
  <2>1. RollingBack!Fold(b, <<p>>) = RollBackPart(b, p)
    BY RollingBack!FoldOfOne
  <2> QED BY <2>1, SeqFacts DEF RollBackPart
<1> QED BY <1>1, <1>2, <1>3, SeqFacts DEF Linked

LEMMA LinksJoin ==
  ASSUME NEW a, NEW b, NEW c, NEW U, NEW P, NEW V, NEW Q, Linked(U, a, P, b), Linked(V, b, Q, c)
  PROVE  Linked(U \o V, a, P \o Q, c)
<1>1. /\ IsSeq(U) /\ IsSeq(V) /\ IsSeq(P) /\ IsSeq(Q)
      /\ U \in Seq(Range(U)) /\ V \in Seq(Range(V))
      /\ Len(U) = Len(P) /\ Len(V) = Len(Q)
  BY DEF Linked, IsSeq
<1>2. /\ IsSeq(U \o V) /\ IsSeq(P \o Q) /\ Len(U \o V) = Len(P \o Q)
      /\ Reverse(P \o Q) = Reverse(Q) \o Reverse(P)
  BY <1>1, SeqsJoin
<1>3. ASSUME NEW R, IsSeq(R)
      PROVE  Applying!Fold(At(a, R), U \o V) = At(c, R \o (P \o Q))
  <2>1. Applying!Fold(At(a, R), U \o V) = Applying!Fold(Applying!Fold(At(a, R), U), V)
    BY <1>1, Applying!FoldOfConcat
  <2>2. Applying!Fold(At(a, R), U) = At(b, R \o P)
    BY <1>3 DEF Linked
  <2>3. Applying!Fold(At(b, R \o P), V) = At(c, (R \o P) \o Q)
    BY <1>1, <1>3, SeqsJoin DEF Linked
  <2>4. (R \o P) \o Q = R \o (P \o Q)
    BY <1>1, <1>3 DEF IsSeq
  <2> QED BY <2>1, <2>2, <2>3, <2>4
<1>4. ASSUME NEW R, IsSeq(R)
      PROVE  Reverting!Fold(At(c, R), Reverse(P \o Q)) = At(a, (U \o V) \o R)
  <2>1. Reverse(Q) \in Seq(Range(Q)) /\ Reverse(P) \in Seq(Range(P))
    BY <1>1, SeqsAre DEF IsSeq
  <2>2. Reverting!Fold(At(c, R), Reverse(Q) \o Reverse(P)) =
          Reverting!Fold(Reverting!Fold(At(c, R), Reverse(Q)), Reverse(P))
    BY <2>1, Reverting!FoldOfConcat
  <2>3. Reverting!Fold(At(c, R), Reverse(Q)) = At(b, V \o R)
    BY <1>4 DEF Linked
  <2>4. Reverting!Fold(At(b, V \o R), Reverse(P)) = At(a, U \o (V \o R))
    BY <1>1, <1>4, SeqsJoin DEF Linked
  <2>5. U \o (V \o R) = (U \o V) \o R
    BY <1>1, <1>4 DEF IsSeq
  <2> QED BY <1>2, <2>2, <2>3, <2>4, <2>5
<1>5. RollingBack!Fold(c, Reverse(P \o Q)) = a
  <2>1. Reverse(Q) \in Seq(Range(Q)) /\ Reverse(P) \in Seq(Range(P))
    BY <1>1, SeqsAre DEF IsSeq
  <2>2. RollingBack!Fold(c, Reverse(Q) \o Reverse(P)) =
          RollingBack!Fold(RollingBack!Fold(c, Reverse(Q)), Reverse(P))
    BY <2>1, RollingBack!FoldOfConcat
  <2> QED BY <1>2, <2>2 DEF Linked
<1> QED BY <1>2, <1>3, <1>4, <1>5 DEF Linked

\* The model's folds.
LEMMA FoldsAre ==
  ASSUME NEW parts, NEW d
  PROVE  /\ ApplyAll(parts, d) = Settled(Applying!Fold(Start(d), parts), parts)
         /\ RevertAll(parts, d) = Reverting!Fold(Start(d), Reverse(parts))
         /\ RolledBack(parts, d) = RollingBack!Fold(d, Reverse(parts))
<1>1. Applying!Fold(Start(d), parts) = FoldLeft(ApplyPart, Start(d), parts)
  BY DEF Applying!Fold, Applying!FoldLeft, FoldLeft, Applying!MapThenFoldSet, MapThenFoldSet,
         Applying!Max, Max
<1>2. Reverting!Fold(Start(d), Reverse(parts)) = FoldLeft(RevertPart, Start(d), Reverse(parts))
  BY DEF Reverting!Fold, Reverting!FoldLeft, FoldLeft, Reverting!MapThenFoldSet, MapThenFoldSet,
         Reverting!Max, Max
<1>3. RollingBack!Fold(d, Reverse(parts)) = FoldLeft(RollBackPart, d, Reverse(parts))
  BY DEF RollingBack!Fold, RollingBack!FoldLeft, FoldLeft, RollingBack!MapThenFoldSet,
         MapThenFoldSet, RollingBack!Max, Max
<1> QED BY <1>1, <1>2, <1>3 DEF ApplyAll, RevertAll, RolledBack

LEMMA StartIsAt ==
  ASSUME NEW d
  PROVE  Start(d) = At(d, <<>>)
BY DEF Start, At

LEMMA LinkedGoes ==
  ASSUME NEW a, NEW b, NEW U, NEW P, Linked(U, a, P, b)
  PROVE  ApplyAll(U, a) = At(b, P) /\ RevertAll(P, b) = At(a, U) /\ RolledBack(P, b) = a
<1>1. IsSeq(U) /\ IsSeq(P)
  BY DEF Linked
<1>2. Applying!Fold(Start(a), U) = At(b, P)
  BY <1>1, StartIsAt, SeqFacts DEF Linked
<1>3. Reverting!Fold(Start(b), Reverse(P)) = At(a, U)
  BY <1>1, StartIsAt, SeqFacts DEF Linked
<1>4. Settled(At(b, P), U) = At(b, P)
  BY DEF Settled, At
<1> QED BY <1>2, <1>3, <1>4, FoldsAre DEF Linked

-----------------------------------------------------------------------------
(* A composite whose parts fit *)

FitsIn(c, d) == IsCommand(c) /\ MadeFor(c, d) /\ LookedUp(c, d)

\* Each part was made for the document those before it leave.
FitAll(parts, d) ==
  \A k \in 1..Len(parts) :
    LET before == Applying!Fold(Start(d), Applying!Upto(parts, k - 1))
    IN  before.ok => FitsIn(parts[k], before.doc)

LEMMA OkIsBoolean ==
  ASSUME NEW c, c.kind \in {"add", "remove", "edit", "notes", "param", "transport"}, NEW d
  PROVE  Applied(c, d).ok \in BOOLEAN /\ Reverted(c, d).ok \in BOOLEAN
BY ZenonT(40) DEF Applied, Reverted, When, Succeeds, FailsOn

LEMMA KindStays ==
  ASSUME NEW c, IsCommand(c), NEW d, Applied(c, d).ok
  PROVE  Applied(c, d).cmd.kind = c.kind
<1>1. CASE c.kind = "remove"
  <2>1. c = [kind |-> "remove", table |-> c.table, id |-> c.id, lost |-> c.lost]
    BY <1>1 DEF IsCommand
  <2>2. \A x : [c EXCEPT !.lost = x].kind = c.kind
    BY <2>1
  <2> QED BY <1>1, <2>2 DEF Applied, When, Succeeds, FailsOn
<1>2. CASE c.kind = "notes"
  <2>1. c = [kind |-> "notes", pattern |-> c.pattern, instrument |-> c.instrument,
             removed |-> c.removed, added |-> c.added, coalescable |-> c.coalescable,
             resized |-> c.resized]
    BY <1>2 DEF IsCommand
  <2>2. \A x : [c EXCEPT !.resized = x].kind = c.kind
    BY <2>1
  <2> QED BY <1>2, <2>2 DEF Applied, When, Succeeds, FailsOn
<1>3. CASE c.kind = "transport"
  <2>1. c = [kind |-> "transport", before |-> c.before, after |-> c.after, original |-> c.original]
    BY <1>3 DEF IsCommand
  <2>2. \A x : [c EXCEPT !.original = x].kind = c.kind
    BY <2>1
  <2> QED BY <1>3, <2>2 DEF Applied, Succeeds
<1>4. CASE c.kind \in {"add", "edit", "param"}
  BY <1>4 DEF Applied, When, Succeeds, FailsOn
<1> QED BY <1>1, <1>2, <1>3, <1>4 DEF IsCommand

LEMMA FittingLinks ==
  ASSUME NEW d, Sound(d), NEW c, FitsIn(c, d), Applied(c, d).ok
  PROVE  /\ Sound(Applied(c, d).doc)
         /\ \E u : Linked(<<u>>, d, <<Applied(c, d).cmd>>, Applied(c, d).doc)
<1> DEFINE r == Applied(c, d)
           u == Reverted(r.cmd, r.doc)
<1>1. IsExact(c, d) /\ Sound(r.doc)
  BY CommandsAreExact, CommandsKeepIntegrity DEF FitsIn, Sound
<1>2. u.ok /\ u.doc = d /\ Applied(u.cmd, d) = r
  BY <1>1 DEF IsExact
<1>3. r.cmd.kind \in {"add", "remove", "edit", "notes", "param", "transport"}
  BY KindStays DEF FitsIn, IsCommand
<1>4. u.ok = TRUE
  BY <1>2, <1>3, OkIsBoolean
<1> HIDE DEF u
<1>5. Linked(<<u.cmd>>, d, <<r.cmd>>, r.doc)
  BY <1>2, <1>4, OneLinks DEF u
<1> QED BY <1>1, <1>5

\* Where folding the first k parts may stand.
Stands(d, r) ==
  /\ r.ok = TRUE => /\ r = At(r.doc, r.parts) /\ Sound(r.doc)
                    /\ \E U : Linked(U, d, r.parts, r.doc)
  /\ r.ok # TRUE => r.ok = FALSE /\ r = [ok |-> FALSE, doc |-> d, parts |-> r.parts]

LEMMA PartStands ==
  ASSUME NEW d, NEW r, Stands(d, r), NEW c, r.ok => FitsIn(c, r.doc)
  PROVE  /\ Stands(d, ApplyPart(r, c))
         /\ ApplyPart(r, c).ok => Len(ApplyPart(r, c).parts) = Len(r.parts) + 1
<1> DEFINE s == Applied(c, r.doc)
           next == ApplyPart(r, c)
<1>1. CASE r.ok # TRUE
  <2>1. next = r
    BY <1>1 DEF ApplyPart, Stands
  <2> QED BY <1>1, <2>1 DEF Stands
<1>2. CASE r.ok = TRUE
  <2>1. FitsIn(c, r.doc) /\ Sound(r.doc) /\ r = At(r.doc, r.parts)
    BY <1>2 DEF Stands
  <2>2. PICK U : Linked(U, d, r.parts, r.doc)
    BY <1>2 DEF Stands
  <2>3. c.kind \in {"add", "remove", "edit", "notes", "param", "transport"}
    BY <2>1 DEF FitsIn, IsCommand
  <2>4. s.ok \in BOOLEAN
    BY <2>3, OkIsBoolean
  <2>5. next = Onward(r, s)
    BY <1>2 DEF ApplyPart
  <2> HIDE DEF s, next
  <2>6. CASE s.ok = TRUE
    <3>1. Sound(s.doc)
      BY <2>1, <2>6, FittingLinks DEF s
    <3>2. PICK u : Linked(<<u>>, r.doc, <<s.cmd>>, s.doc)
      BY <2>1, <2>6, FittingLinks DEF s
    <3>3. IsSeq(r.parts)
      BY <2>2 DEF Linked
    <3>4. Append(r.parts, s.cmd) = r.parts \o <<s.cmd>> /\ Len(Append(r.parts, s.cmd)) = Len(r.parts) + 1
      BY <3>3 DEF IsSeq
    <3>5. Linked(U \o <<u>>, d, Append(r.parts, s.cmd), s.doc)
      BY <2>2, <3>2, <3>4, LinksJoin
    <3>6. r = [ok |-> r.ok, doc |-> r.doc, parts |-> r.parts]
      BY <1>2, <2>1 DEF At
    <3>7. next = [r EXCEPT !.doc = s.doc, !.parts = Append(r.parts, s.cmd)]
      BY <2>5, <2>6 DEF Onward
    <3>8. next = [ok |-> r.ok, doc |-> s.doc, parts |-> Append(r.parts, s.cmd)]
      BY <3>6, <3>7, StepsOn
    <3>9. next = At(s.doc, Append(r.parts, s.cmd))
      BY <1>2, <3>8 DEF At
    <3>10. next.ok = TRUE /\ next.doc = s.doc /\ next.parts = Append(r.parts, s.cmd)
      BY <3>9 DEF At
    <3> QED BY <3>1, <3>4, <3>5, <3>9, <3>10 DEF Stands, next
  <2>7. CASE s.ok = FALSE
    <3>1. s.doc = r.doc
      BY <2>3, <2>7 DEF s, Applied, When, Succeeds, FailsOn
    <3>2. RolledBack(r.parts, r.doc) = d
      BY <2>2, LinkedGoes
    <3>3. r = [ok |-> r.ok, doc |-> r.doc, parts |-> r.parts]
      BY <1>2, <2>1 DEF At
    <3>4. next = [r EXCEPT !.ok = FALSE, !.doc = d]
      BY <2>5, <2>7, <3>2 DEF Onward
    <3>5. next = [ok |-> FALSE, doc |-> d, parts |-> r.parts]
      BY <3>3, <3>4, FailsAt
    <3>6. next.ok = FALSE /\ next.parts = r.parts
      BY <3>5
    <3> QED BY <3>5, <3>6 DEF Stands, next
  <2> QED BY <2>4, <2>6, <2>7
<1> QED BY <1>1, <1>2

LEMMA FoldStands ==
  ASSUME NEW d, Sound(d), NEW parts, IsSeq(parts), FitAll(parts, d), NEW n \in 0..Len(parts)
  PROVE  LET r == Applying!Fold(Start(d), Applying!Upto(parts, n))
         IN  Stands(d, r) /\ (r.ok => Len(r.parts) = n)
<1> DEFINE r(k) == Applying!Fold(Start(d), Applying!Upto(parts, k))
           T == {k \in 0..n : Stands(d, r(k)) /\ (r(k).ok => Len(r(k).parts) = k)}
<1>0. Len(parts) \in Nat /\ n \in Nat
  BY DEF IsSeq
<1>1. 0 \in T
  <2>1. Applying!Upto(parts, 0) = <<>>
    BY Applying!UptoNone
  <2>2. r(0) = At(d, <<>>)
    BY <2>1, Applying!FoldOfNone, StartIsAt
  <2> HIDE DEF r
  <2>3. r(0).ok = TRUE /\ r(0).doc = d /\ r(0).parts = <<>>
    BY <2>2 DEF At
  <2>4. Linked(<<>>, d, <<>>, d)
    BY NothingLinks
  <2>5. Stands(d, r(0))
    BY <2>2, <2>3, <2>4 DEF Stands
  <2> QED BY <1>0, <2>3, <2>5
<1>2. ASSUME NEW k \in 0..(n - 1), k \in T
      PROVE  k + 1 \in T
  <2>0. k \in Nat /\ k + 1 \in 1..Len(parts) /\ k + 1 \in 0..n /\ (k + 1) - 1 = k
    BY <1>0
  <2>1. r(k + 1) = ApplyPart(r(k), parts[k + 1])
    BY <2>0, Applying!FoldOfUpto
  <2>2. r(k).ok => FitsIn(parts[k + 1], r(k).doc)
    BY <2>0 DEF FitAll
  <2> HIDE DEF r
  <2>3. /\ Stands(d, r(k + 1))
        /\ r(k + 1).ok => Len(r(k + 1).parts) = Len(r(k).parts) + 1
    BY <1>2, <2>1, <2>2, PartStands
  <2>4. r(k + 1).ok => r(k).ok
    BY <2>1 DEF ApplyPart
  <2> QED BY <1>2, <2>0, <2>3, <2>4
<1> HIDE DEF r
<1>3. n \in T
  <2> HIDE DEF T
  <2> QED BY <1>0, <1>1, <1>2, Applying!Counting
<1> QED BY <1>3 DEF r

\* A composite whose parts were made for what those before them leave: if they
\* all apply, the references resolve, undo gives back the document there was and
\* redo goes forth as before; if one does not, the document is untouched
\* (CompositeCommand::apply and revert).
THEOREM CompositesAreExact ==
  ASSUME NEW d, IsDocument(d), Integrity(d), NEW parts, IsSeq(parts), FitAll(parts, d)
  PROVE  LET r == ApplyAll(parts, d)
             u == RevertAll(r.parts, r.doc)
         IN  /\ r.ok => /\ IsDocument(r.doc) /\ Integrity(r.doc)
                        /\ Len(r.parts) = Len(parts)
                        /\ u.ok /\ u.doc = d /\ ApplyAll(u.parts, d) = r
             /\ ~r.ok => r.doc = d /\ r.parts = parts
<1> DEFINE f == Applying!Fold(Start(d), parts)
<1>1. Applying!Upto(parts, Len(parts)) = parts /\ Len(parts) \in 0..Len(parts)
  BY Applying!SeqIsUpto DEF IsSeq
<1>2. Stands(d, f) /\ (f.ok => Len(f.parts) = Len(parts))
  BY <1>1, FoldStands DEF Sound
<1>3. ApplyAll(parts, d) = Settled(f, parts)
  BY FoldsAre
<1> HIDE DEF f
<1>4. CASE f.ok = TRUE
  <2>1. ApplyAll(parts, d) = f
    BY <1>3, <1>4 DEF Settled
  <2>2. PICK U : Linked(U, d, f.parts, f.doc)
    BY <1>2, <1>4 DEF Stands
  <2>3. ApplyAll(U, d) = At(f.doc, f.parts) /\ RevertAll(f.parts, f.doc) = At(d, U)
    BY <2>2, LinkedGoes
  <2>4. f = At(f.doc, f.parts) /\ Sound(f.doc)
    BY <1>2, <1>4 DEF Stands
  <2>5. At(d, U).ok /\ At(d, U).doc = d /\ At(d, U).parts = U
    BY DEF At
  <2> QED BY <1>2, <1>4, <2>1, <2>3, <2>4, <2>5 DEF Sound
<1>5. CASE f.ok # TRUE
  <2>1. f.ok = FALSE /\ f = [ok |-> FALSE, doc |-> d, parts |-> f.parts]
    BY <1>2, <1>5 DEF Stands
  <2>2. ApplyAll(parts, d) = [f EXCEPT !.parts = parts]
    BY <1>3, <2>1 DEF Settled
  <2>3. ApplyAll(parts, d) = [ok |-> FALSE, doc |-> d, parts |-> parts]
    BY <2>1, <2>2, UnchangedAt
  <2> QED BY <2>3
<1> QED BY <1>4, <1>5
=============================================================================
