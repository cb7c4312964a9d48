----------------------------- MODULE ProjectFile -----------------------------
(***************************************************************************)
(* What a project.json says and what is made of it (model/project_io.cpp): *)
(* the reader takes what it understands out of the parsed document, mends  *)
(* what does not resolve, and keeps the rest as the residue; the writer    *)
(* puts the residue back beside what the model holds.                      *)
(*                                                                         *)
(* A file has a table of entities for each kind.  Of an entity the model   *)
(* keeps what refers to another one and whether it has fields this reader  *)
(* does not know ("more").  The key Strange stands for one that is no ID   *)
(* of its table.  A reference is an ID, Absent, Unusable (no ID at all) or *)
(* an ID nothing in the file has.                                          *)
(***************************************************************************)
EXTENDS Integers, Sequences, FiniteSets, FiniteSetsExt, Functions

CONSTANTS
  Files,     \* the files that may be opened: written by this build, another or by hand
  MaxDeleted,  \* bound: no further deletion once so many entities are gone
  MintedId   \* the ID project_.mintId gives a master: younger than every ID of a file

Absent   == 0
Unusable == -1
Strange  == -2

Tables == {"tracks", "instruments", "patterns", "lanes", "clips"}

\* IDs are ULIDs, here numbers, for their order.
Ids == Nat \ {0}

\* What the fields of an entity may say, whether or not it can be used.
IsEntity(table, e) ==
  CASE table = "tracks"      -> e \in [more : BOOLEAN, output : Int, chain : Seq(Int)]
    [] table = "instruments" -> e \in [more : BOOLEAN, routing : Seq([port : Int, track : Int])]
    [] table = "patterns"    -> /\ e = [more |-> e.more, notes |-> e.notes]
                                /\ e.more \in BOOLEAN /\ e.notes \in [DOMAIN e.notes -> SUBSET Int]
    [] table = "lanes"       -> e \in [more : BOOLEAN, order : Int, group : Int]
    [] table = "clips"       -> /\ e = [more |-> e.more, lane |-> e.lane, kind |-> e.kind,
                                        of |-> e.of, effect |-> e.effect, length |-> e.length]
                                /\ e.more \in BOOLEAN
                                /\ {e.lane, e.of, e.effect, e.length} \subseteq Int

IsDocument(f) ==
  \A table \in Tables :
    /\ IsFiniteSet(DOMAIN f[table]) /\ DOMAIN f[table] \subseteq Ids \cup {Strange}
    /\ f[table] = [id \in DOMAIN f[table] |-> f[table][id]]
    /\ \A id \in DOMAIN f[table] : IsEntity(table, f[table][id])

ASSUME ProjectFileAssumption == MintedId \in Ids /\ \A f \in Files : IsDocument(f)

VARIABLES
  file,        \* what the bundle's project.json says
  session,     \* the project at hand, NoSession before the first one
  residue,     \* per table, what the reader left in the document
  deleted      \* the entities deleted in this session, as <<table, id>>

fileVars == <<file, session, residue, deleted>>

NoSession == [master |-> Absent, tracks |-> <<>>, instruments |-> <<>>, patterns |-> <<>>,
              lanes |-> <<>>, clips |-> <<>>]

-----------------------------------------------------------------------------
(* Entities without any field: what is read where only a residue is left *)

Blank(table) ==
  CASE table = "tracks"      -> [output |-> Absent, chain |-> <<>>]
    [] table = "instruments" -> [routing |-> <<>>]
    [] table = "patterns"    -> [notes |-> <<>>]
    [] table = "lanes"       -> [order |-> 0, group |-> Absent]
    [] table = "clips"       -> [lane |-> Absent, kind |-> "unsaid", of |-> Absent,
                                 effect |-> Absent, length |-> 0]

With(entity, more) == [field \in DOMAIN entity \cup {"more"} |->
                         IF field = "more" THEN more ELSE entity[field]]
Less(entity)       == Restrict(entity, DOMAIN entity \ {"more"})
Leftover(table)    == With(Blank(table), TRUE)

Parsed(table)  == DOMAIN table \ {Strange}
IsId(ref)      == ref \notin {Absent, Unusable}
AnID(ref, ids) == IF ref \in ids THEN ref ELSE Absent

-----------------------------------------------------------------------------
(* Reading one entity *)

InOrder(ids) ==
  CHOOSE order \in [1..Cardinality(ids) -> ids] :
    \A i, j \in DOMAIN order : i < j => order[i] < order[j]

\* What a sequence has at some places, in its order.
PickedAt(s, places) == [n \in 1..Cardinality(places) |-> s[InOrder(places)[n]]]

\* The chain is taken whole; a slot without an ID is passed over.
ReadTrack(e) ==
  [output |-> e.output, chain |-> PickedAt(e.chain, {n \in DOMAIN e.chain : IsId(e.chain[n])})]

ReadRoutes(e) ==
  [routing |-> PickedAt(e.routing, {n \in DOMAIN e.routing : IsId(e.routing[n].track)})]

\* A record of no length, or before the start, is dropped with a count.
Sound(note) == note > 0
ReadNotes(e) ==
  [notes |-> [i \in DOMAIN e.notes |-> {note \in e.notes[i] : Sound(note)}]]

ReadLane(e) == Less(e)

PlayedKinds  == {"pattern", "audio", "instrument curve", "track curve", "effect curve"}
Foreign(e)   == e.kind \notin PlayedKinds \cup {"unsaid"}
Usable(e) ==
  /\ e.kind # "unsaid" /\ e.length > 0
  /\ IsId(e.lane) /\ IsId(e.of)
  /\ e.kind = "effect curve" => IsId(e.effect)

\* The clips that are modelled: the others stay in the document, or leave it.
ReadClips(f) == [c \in {c \in Parsed(f.clips) : Usable(f.clips[c]) /\ ~Foreign(f.clips[c])}
                   |-> Less(f.clips[c])]
Unplayable(f) == {c \in Parsed(f.clips) : ~Usable(f.clips[c]) /\ ~Foreign(f.clips[c])}

-----------------------------------------------------------------------------
(* Resolving: the mixer *)

Roots(f) == {t \in Parsed(f.tracks) : f.tracks[t].output = Absent}

\* The oldest track that names no output; none, and one is made.
ChooseMaster(f) == IF Roots(f) = {} THEN MintedId ELSE Min(Roots(f))

WithMaster(f) ==
  LET minted == IF Roots(f) = {} THEN {MintedId} ELSE {}
  IN [t \in Parsed(f.tracks) \cup minted |->
        IF t \in minted THEN Blank("tracks") ELSE ReadTrack(f.tracks[t])]

\* Every other root, and every track whose output is not there, feeds the master.
ResolveOutputs(tracks, master) ==
  [t \in DOMAIN tracks |->
     IF t = master THEN tracks[t]
     ELSE [tracks[t] EXCEPT !.output = IF @ \in DOMAIN tracks \ {t} THEN @ ELSE master]]

\* Where a walk along the outputs is after n tracks.
Walk(tracks, t, n) ==
  LET at[k \in 0..n] ==
        IF k = 0 THEN t
        ELSE IF at[k - 1] = Absent THEN Absent ELSE tracks[at[k - 1]].output
  IN at[n]

\* A slip: only self-loops.
SelfLoops(tracks, t) == tracks[t].output = t
FeedsBack(tracks, t) == Walk(tracks, t, Cardinality(DOMAIN tracks) + 1) # Absent

\* In ID order, each on what the ones before it left.
BreakMixerCycles(tracks, master) ==
  LET order == InOrder(DOMAIN tracks)
      mended[k \in 0..Cardinality(DOMAIN tracks)] ==
        IF k = 0 THEN tracks
        ELSE IF FeedsBack(mended[k - 1], order[k])
             THEN [mended[k - 1] EXCEPT ![order[k]].output = master] ELSE mended[k - 1]
  IN mended[Cardinality(DOMAIN tracks)]

-----------------------------------------------------------------------------
(* Resolving: the rest *)

ResolveRouting(routing, tracks, master) ==
  LET found == {n \in DOMAIN routing : routing[n].track \in DOMAIN tracks}
  IN IF found = {} THEN <<[port |-> 0, track |-> master]>> ELSE PickedAt(routing, found)

ResolveGroup(lanes, l) == AnID(lanes[l].group, DOMAIN lanes \ {l})

\* Positions in the saved order, the older ID first where two claim one.
FixLaneOrder(lanes) ==
  LET before(k, l) == \/ lanes[k].order < lanes[l].order
                      \/ lanes[k].order = lanes[l].order /\ k < l
  IN [l \in DOMAIN lanes |->
        [lanes[l] EXCEPT !.order = Cardinality({k \in DOMAIN lanes : before(k, l)})]]

\* The notes of an instrument that is gone go with it.
DropOrphans(pattern, instruments) ==
  [notes |-> Restrict(pattern.notes, DOMAIN pattern.notes \cap instruments)]

\* What a clip names has to be in the project.
EffectIsLoaded(tracks, clip) == clip.effect \in Range(tracks[clip.of].chain)
Dangling(p, clip) ==
  \/ clip.lane \notin DOMAIN p.lanes
  \/ clip.kind = "pattern" /\ clip.of \notin DOMAIN p.patterns
  \/ clip.kind = "instrument curve" /\ clip.of \notin DOMAIN p.instruments
  \/ clip.kind \in {"audio", "track curve", "effect curve"} /\ clip.of \notin DOMAIN p.tracks
  \/ clip.kind = "effect curve" /\ ~EffectIsLoaded(p.tracks, clip)

DropDanglingClips(p) ==
  [p EXCEPT !.clips = Restrict(@, {c \in DOMAIN @ : ~Dangling(p, @[c])})]

-----------------------------------------------------------------------------
(* The reader *)

Readable(f) == f.format = "onebeat.project" /\ f.version <= 1 /\ f.ticks = 960

Read(f) ==
  LET master == ChooseMaster(f)
      tracks == BreakMixerCycles(ResolveOutputs(WithMaster(f), master), master)
      instruments == [i \in Parsed(f.instruments) |->
                        [routing |-> ResolveRouting(ReadRoutes(f.instruments[i]).routing,
                                                    tracks, master)]]
      lanes == [l \in Parsed(f.lanes) |-> ReadLane(f.lanes[l])]
  IN DropDanglingClips(
       [master      |-> master,
        tracks      |-> tracks,
        instruments |-> instruments,
        patterns    |-> [p \in Parsed(f.patterns) |->
                           DropOrphans(ReadNotes(f.patterns[p]), DOMAIN instruments)],
        lanes       |-> FixLaneOrder([l \in DOMAIN lanes |->
                           [lanes[l] EXCEPT !.group = ResolveGroup(lanes, l)]]),
        clips       |-> ReadClips(f)])

\* What stays in the document: what was not understood, whole, and the unknown
\* fields of what was; nothing of a clip that was dropped.
\* A slip: a clip of a kind not known is taken for an unusable one.
NoForeignClips(f, table) == {}
ForeignClips(f, table) == IF table = "clips" THEN {c \in DOMAIN f.clips : Foreign(f.clips[c])}
                                            ELSE {}
Stays(f, table) ==
  {id \in DOMAIN f[table] : id = Strange \/ f[table][id].more} \cup ForeignClips(f, table)
Untouched(f, table, id) ==
  id = Strange \/ (table = "clips" /\ f.clips[id].kind \notin PlayedKinds \cup {"unsaid"})
Dropped(f) == Unplayable(f) \cup (DOMAIN ReadClips(f) \ DOMAIN Read(f).clips)

ReadResidue(f) ==
  [table \in Tables |->
     [id \in Stays(f, table) \ (IF table = "clips" THEN Dropped(f) ELSE {}) |->
        IF Untouched(f, table, id) THEN f[table][id] ELSE Leftover(table)]]

-----------------------------------------------------------------------------
(* The writer *)

\* The model is the authority on what it models; the residue only adds to it.
MergeResidue(table, known, rest) ==
  [id \in DOMAIN known \cup DOMAIN rest |->
     IF id \in DOMAIN known THEN With(known[id], id \in DOMAIN rest) ELSE rest[id]]

WriteProject(p, rest) ==
  [format      |-> "onebeat.project", version |-> 1, ticks |-> 960,
   tracks      |-> MergeResidue("tracks", p.tracks, rest.tracks),
   instruments |-> MergeResidue("instruments", p.instruments, rest.instruments),
   patterns    |-> MergeResidue("patterns", p.patterns, rest.patterns),
   lanes       |-> MergeResidue("lanes", p.lanes, rest.lanes),
   clips       |-> MergeResidue("clips", p.clips, rest.clips)]

-----------------------------------------------------------------------------
(* What an edit may take out of the project: model/project.cpp *)

DeleteTrack(p, t) ==
  [p EXCEPT !.tracks = [k \in DOMAIN @ \ {t} |->
                          IF @[k].output = t THEN [@[k] EXCEPT !.output = p.master] ELSE @[k]],
            !.instruments = [i \in DOMAIN @ |->
                          [routing |-> [n \in DOMAIN @[i].routing |->
                             IF @[i].routing[n].track = t
                             THEN [@[i].routing[n] EXCEPT !.track = p.master]
                             ELSE @[i].routing[n]]]],
            !.clips = [c \in {c \in DOMAIN @ :
                               ~(@[c].kind \in {"track curve", "effect curve"} /\ @[c].of = t)} |->
                          IF @[c].kind = "audio" /\ @[c].of = t
                          THEN [@[c] EXCEPT !.of = p.master] ELSE @[c]]]

DeleteInstrument(p, i) ==
  [p EXCEPT !.instruments = Restrict(@, DOMAIN @ \ {i}),
            !.patterns = [q \in DOMAIN @ |->
                            [notes |-> Restrict(@[q].notes, DOMAIN @[q].notes \ {i})]],
            !.clips = Restrict(@, {c \in DOMAIN @ : ~(@[c].kind = "instrument curve"
                                                      /\ @[c].of = i)})]

DeletePattern(p, q) ==
  [p EXCEPT !.patterns = Restrict(@, DOMAIN @ \ {q}),
            !.clips = Restrict(@, {c \in DOMAIN @ : ~(@[c].kind = "pattern" /\ @[c].of = q)})]

DeleteLane(p, l) ==
  [p EXCEPT !.lanes = [k \in DOMAIN @ \ {l} |->
                         IF @[k].group = l THEN [@[k] EXCEPT !.group = Absent] ELSE @[k]],
            !.clips = Restrict(@, {c \in DOMAIN @ : @[c].lane # l})]

DeleteClip(p, c) == [p EXCEPT !.clips = Restrict(@, DOMAIN @ \ {c})]

DeleteFrom(p, table, id) ==
  CASE table = "tracks"      -> DeleteTrack(p, id)
    [] table = "instruments" -> DeleteInstrument(p, id)
    [] table = "patterns"    -> DeletePattern(p, id)
    [] table = "lanes"       -> DeleteLane(p, id)
    [] table = "clips"       -> DeleteClip(p, id)

-----------------------------------------------------------------------------
(* The session: open, edit, save *)

NoResidue == [table \in Tables |-> <<>>]

FileInit ==
  /\ file \in Files
  /\ session = NoSession
  /\ residue = NoResidue
  /\ deleted = {}

Open ==
  /\ Readable(file)
  /\ session' = Read(file)
  /\ residue' = ReadResidue(file)
  /\ deleted' = {}
  /\ UNCHANGED file

\* A file that cannot be read leaves the session as it was.
OpenFails == ~Readable(file) /\ UNCHANGED fileVars

Gone(before, after, table) ==
  {<<table, id>> : id \in DOMAIN before[table] \ DOMAIN after[table]}

\* What an undoable deletion takes along is deleted, too.
DeleteEntity(table, id) ==
  /\ Cardinality(deleted) < MaxDeleted
  /\ id \in DOMAIN session[table]
  /\ ~(table = "tracks" /\ id = session.master)
  /\ session' = DeleteFrom(session, table, id)
  /\ deleted' = deleted \cup UNION {Gone(session, session', t) : t \in Tables}
  /\ UNCHANGED <<file, residue>>

Save ==
  /\ session # NoSession
  /\ file' = WriteProject(session, residue)
  /\ UNCHANGED <<session, residue, deleted>>

FileNext ==
  \/ Open
  \/ OpenFails
  \/ \E table \in Tables : \E id \in DOMAIN session[table] : DeleteEntity(table, id)
  \/ Save

FileSpec == FileInit /\ [][FileNext]_fileVars

-----------------------------------------------------------------------------
(* Properties *)

(* Whatever the file says, what it is made into and what deletions make of *)
(* that hangs together: every track reaches the one master, no reference   *)
(* dangles, no two lanes share a place.                                    *)
Consistent(p) ==
  /\ \A t \in DOMAIN p.tracks : /\ Walk(p.tracks, t, Cardinality(DOMAIN p.tracks)) = Absent
                                /\ (p.tracks[t].output = Absent) <=> (t = p.master)
  /\ \A i \in DOMAIN p.instruments : \A n \in DOMAIN p.instruments[i].routing :
       p.instruments[i].routing[n].track \in DOMAIN p.tracks
  /\ \A q \in DOMAIN p.patterns : DOMAIN p.patterns[q].notes \subseteq DOMAIN p.instruments
  /\ \A c \in DOMAIN p.clips : ~Dangling(p, p.clips[c])
  /\ \A k, l \in DOMAIN p.lanes : /\ p.lanes[k].order = p.lanes[l].order => k = l
                                  /\ p.lanes[k].group \in (DOMAIN p.lanes \ {k}) \cup {Absent}

MendedIsConsistent == session # NoSession => Consistent(session)

(* A saved project reopens as the one that was saved, up to the numbers of *)
(* its lanes, and is saved again as the same file, unless something that   *)
(* was deleted had fields this reader does not know.                       *)
LeftBehind == \E table \in Tables : \E id \in DOMAIN residue[table] : <<table, id>> \in deleted
Reopened   == Read(WriteProject(session, residue))

ReopensAsSavedUnlessLeftBehind ==
  session # NoSession /\ ~LeftBehind =>
    /\ Reopened = [session EXCEPT !.lanes = FixLaneOrder(@)]
    /\ ReadResidue(WriteProject(session, residue)) = residue

(* What the reader did not understand survives a save, on whatever is left *)
(* of the project.                                                         *)
UnknownSurvives ==
  [][file' # file =>
       \A table \in Tables : \A id \in DOMAIN file[table] :
         LET written == id \in DOMAIN file'[table]
         IN /\ Untouched(file, table, id) => written /\ file'[table][id] = file[table][id]
            /\ file[table][id].more /\ id \in DOMAIN session[table]
                 => written /\ file'[table][id].more
    ]_fileVars

(* Whatever the file says, what is made of it is consistent, and once mended *)
(* it is read back as it was saved.                                        *)
FileIsMended == MendedIsConsistent /\ ReopensAsSavedUnlessLeftBehind
=============================================================================
