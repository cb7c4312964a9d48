------------------------------ MODULE Commands ------------------------------
(***************************************************************************)
(* The commands of model/commands.cpp.  A command carries what it needs to *)
(* be reverted; some of it is captured when it is applied.  Applied and    *)
(* Reverted give the document and the command afterwards, and whether the  *)
(* step made sense; where it did not, the document is as before.           *)
(*                                                                         *)
(* A composite is the sequence of its parts, and one nested in another is  *)
(* spliced in: applying stops at the first part that fails and rolls back  *)
(* what did apply, reverting goes backwards and stops at a failure, in     *)
(* either form.                                                            *)
(***************************************************************************)
EXTENDS ProjectModel, SequencesExt

AddEntity(table, id, entity) == [kind |-> "add", table |-> table, id |-> id, entity |-> entity]

RemoveEntity(table, id) == [kind |-> "remove", table |-> table, id |-> id, lost |-> <<>>]

EditFrom(table, id, field, before, after) ==
  [kind |-> "edit", table |-> table, id |-> id, field |-> field,
   before |-> before, after |-> after]

Edit(d, table, id, field, after) == EditFrom(table, id, field, d[table][id], after)

EditNotes(p, i, removed, added, coalescable) ==
  [kind |-> "notes", pattern |-> p, instrument |-> i, removed |-> removed, added |-> added,
   coalescable |-> coalescable, resized |-> <<>>]

SetParam(t, e, before, after) ==
  [kind |-> "param", track |-> t, effect |-> e, before |-> before, after |-> after]

SetTransport(d, after) ==
  [kind |-> "transport", before |-> d.transport, after |-> after, original |-> <<>>]

-----------------------------------------------------------------------------
(* Removal: what it captures, and how that is put back *)

\* The clips deleted along: each names the entity as its lane or in its source.
\* A slip: they are not captured.
NoClipsLostWith(d, table, id) == {}
ClipsLostWith(d, table, id) ==
  CASE table = "instruments" -> InstrumentCurves(d, id)
    [] table = "patterns"    -> ClipsUsingPattern(d, id)
    [] table = "lanes"       -> ClipsOnLane(d, id)
    [] table = "clips"       -> {}
    [] table = "tracks"      -> TrackCurves(d, id)

Captured(d, table, id) ==
  [entity    |-> d[table][id],
   clips     |-> Restrict(d.clips, ClipsLostWith(d, table, id)),
   sequences |-> [p \in {p \in DOMAIN d.patterns : id \in DOMAIN d.patterns[p].notes} |->
                    d.patterns[p].notes[id]],
   grouped   |-> {l \in DOMAIN d.lanes : d.lanes[l].group = id},
   routed    |-> {i \in DOMAIN d.instruments : d.instruments[i].track = id},
   inputs    |-> {t \in DOMAIN d.tracks : d.tracks[t].output = id},
   repointed |-> Restrict(d.clips, ClipsPlayingInto(d, id))]

\* Each entity that is still there is updated, each that is not is skipped.
PutBack(d, table, id, lost) ==
  LET e == Restore(d, table, id, lost.entity)
  IN [e EXCEPT
       !.patterns    = [p \in DOMAIN e.patterns |->
                          IF p \in DOMAIN lost.sequences
                          THEN [e.patterns[p] EXCEPT !.notes = Put(@, id, lost.sequences[p])]
                          ELSE e.patterns[p]],
       !.lanes       = [l \in DOMAIN e.lanes |->
                          IF l \in lost.grouped THEN [e.lanes[l] EXCEPT !.group = id]
                                                ELSE e.lanes[l]],
       !.instruments = [i \in DOMAIN e.instruments |->
                          IF i \in lost.routed THEN [e.instruments[i] EXCEPT !.track = id]
                                               ELSE e.instruments[i]],
       !.tracks      = [t \in DOMAIN e.tracks |->
                          IF t \in lost.inputs THEN [e.tracks[t] EXCEPT !.output = id]
                                               ELSE e.tracks[t]],
       !.clips       = Over(Over(lost.clips, e.clips),
                            Restrict(lost.repointed, DOMAIN lost.repointed \cap DOMAIN e.clips))]

-----------------------------------------------------------------------------
(* Notes, and the clips that follow their pattern's length *)

CanEditSequence(d, p, i, take) ==
  /\ CanRestoreSequence(d, p, i)
  /\ take \subseteq SequenceOf(d, p, i)

EditSequence(d, p, i, take, give) ==
  RestoreSequence(d, p, i, (SequenceOf(d, p, i) \ take) \cup give)

\* The clips that were exactly as long as the pattern before.
Followers(d, p, before) == {c \in ClipsUsingPattern(d, p) : d.clips[c].length = before}

\* The clips a note edit drags along, each with the length it had.  A slip: the
\* declared length is what they are compared with.
ResizedAsDeclared(d, e, p) ==
  LET before == d.patterns[p].length
  IN  IF EffectiveLength(e.patterns[p]) = before
      THEN <<>> ELSE [c \in Followers(e, p, before) |-> before]
Resized(d, e, p) ==
  LET before == EffectiveLength(d.patterns[p])
  IN  IF EffectiveLength(e.patterns[p]) = before
      THEN <<>> ELSE [c \in Followers(e, p, before) |-> before]

FollowPatternLength(d, e, p) ==
  SetLengths(e, [c \in DOMAIN Resized(d, e, p) |-> EffectiveLength(e.patterns[p])])

-----------------------------------------------------------------------------
(* Transport: audio clips keep their time, so their ticks follow the tempo *)

\* std::llround(length * to / from), at least one.
Rescaled(length, from, to) == Max({1, (2 * length * to + from) \div (2 * from)})

OriginalLengths(d, from, to) ==
  IF from = to THEN <<>>
  ELSE [c \in {c \in AudioClips(d) : d.clips[c].length > 0} |-> d.clips[c].length]

RescaleAudioClips(d, from, to) ==
  LET original == OriginalLengths(d, from, to)
  IN  SetLengths(d, [c \in DOMAIN original |-> Rescaled(original[c], from, to)])

-----------------------------------------------------------------------------
(* Parameters of an effect *)

WriteParam(d, t, e, value) ==
  LET chain == d.tracks[t].effects
  IN  [d EXCEPT !.tracks = Put(@, t, [@[t] EXCEPT !.effects =
         [n \in DOMAIN chain |-> IF chain[n].id = e THEN [chain[n] EXCEPT !.value = value]
                                                     ELSE chain[n]]])]

-----------------------------------------------------------------------------
(* Applying and reverting *)

Succeeds(d, c) == [ok |-> TRUE, doc |-> d, cmd |-> c]
FailsOn(d, c)  == [ok |-> FALSE, doc |-> d, cmd |-> c]
When(guard, result, d, c) == IF guard THEN result ELSE FailsOn(d, c)

Applied(c, d) ==
  CASE c.kind = "add" ->
         When(CanRestore(d, c.table, c.id),
              Succeeds(Restore(d, c.table, c.id, c.entity), c), d, c)
    [] c.kind = "remove" ->
         When(CanDelete(d, c.table, c.id),
              Succeeds(Delete(d, c.table, c.id),
                       [c EXCEPT !.lost = Captured(d, c.table, c.id)]), d, c)
    [] c.kind = "edit" ->
         When(CanUpdate(d, c.table, c.id),
              Succeeds(Update(d, c.table, c.id, c.after), c), d, c)
    [] c.kind = "notes" ->
         When(CanEditSequence(d, c.pattern, c.instrument, c.removed),
              LET e == EditSequence(d, c.pattern, c.instrument, c.removed, c.added)
              IN  Succeeds(FollowPatternLength(d, e, c.pattern),
                           [c EXCEPT !.resized = Resized(d, e, c.pattern)]), d, c)
    [] c.kind = "param" ->
         When(CanUpdate(d, "tracks", c.track),
              Succeeds(WriteParam(d, c.track, c.effect, c.after), c), d, c)
    [] c.kind = "transport" ->
         Succeeds(RescaleAudioClips([d EXCEPT !.transport = c.after],
                                    c.before.tempo, c.after.tempo),
                  [c EXCEPT !.original = OriginalLengths(d, c.before.tempo, c.after.tempo)])

Reverted(c, d) ==
  CASE c.kind = "add" ->
         When(CanDelete(d, c.table, c.id), Succeeds(Delete(d, c.table, c.id), c), d, c)
    [] c.kind = "remove" ->
         When(CanRestore(d, c.table, c.id), Succeeds(PutBack(d, c.table, c.id, c.lost), c), d, c)
    [] c.kind = "edit" ->
         When(CanUpdate(d, c.table, c.id),
              Succeeds(Update(d, c.table, c.id, c.before), c), d, c)
    [] c.kind = "notes" ->
         When(CanEditSequence(d, c.pattern, c.instrument, c.added),
              Succeeds(SetLengths(EditSequence(d, c.pattern, c.instrument, c.added, c.removed),
                                  c.resized),
                       [c EXCEPT !.resized = <<>>]), d, c)
    [] c.kind = "param" ->
         When(CanUpdate(d, "tracks", c.track),
              Succeeds(WriteParam(d, c.track, c.effect, c.before), c), d, c)
    [] c.kind = "transport" ->
         Succeeds(SetLengths([d EXCEPT !.transport = c.before], c.original),
                  [c EXCEPT !.original = <<>>])

-----------------------------------------------------------------------------
(* Coalescing: the command on record absorbs the one just applied *)

Absorbs(c, next) ==
  /\ c.kind = next.kind
  /\ \/ c.kind = "edit" /\ c.table = next.table /\ c.id = next.id /\ c.field = next.field
     \/ /\ c.kind = "notes"
        /\ c.coalescable /\ next.coalescable
        /\ c.pattern = next.pattern /\ c.instrument = next.instrument
        /\ c.added = next.removed
     \/ c.kind = "param" /\ c.track = next.track /\ c.effect = next.effect
     \/ c.kind = "transport"

\* It keeps its own "before", and of a clip both moved the length it had first.
Absorbed(c, next) ==
  IF c.kind = "notes"
  THEN [c EXCEPT !.added = next.added, !.resized = Over(next.resized, @)]
  ELSE [c EXCEPT !.after = next.after]

-----------------------------------------------------------------------------
(* Composites *)

Start(d) == [ok |-> TRUE, doc |-> d, parts |-> <<>>]

RollBackPart(d, c)   == Reverted(c, d).doc
RolledBack(parts, d) == FoldLeft(RollBackPart, d, Reverse(parts))

\* The first part that fails takes those before it along.
Onward(acc, r) ==
  IF r.ok THEN [acc EXCEPT !.doc = r.doc, !.parts = Append(@, r.cmd)]
          ELSE [acc EXCEPT !.ok = FALSE, !.doc = RolledBack(acc.parts, @)]

ApplyPart(acc, c)  == IF acc.ok THEN Onward(acc, Applied(c, acc.doc)) ELSE acc
Settled(r, parts)  == IF r.ok THEN r ELSE [r EXCEPT !.parts = parts]
ApplyAll(parts, d) == Settled(FoldLeft(ApplyPart, Start(d), parts), parts)

Backward(acc, r) == [ok |-> r.ok, doc |-> r.doc, parts |-> <<r.cmd>> \o acc.parts]

RevertPart(acc, c) ==
  Backward(acc, IF acc.ok THEN Reverted(c, acc.doc) ELSE FailsOn(acc.doc, c))

RevertAll(parts, d) == FoldLeft(RevertPart, Start(d), Reverse(parts))
=============================================================================
