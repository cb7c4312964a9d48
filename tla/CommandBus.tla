----------------------------- MODULE CommandBus -----------------------------
(***************************************************************************)
(* Undo and redo (model/command.h, command.cpp) over the project model:    *)
(* the only path by which the document changes.  One set of requests per   *)
(* factory of model/commands.h and per compound operation of the ABI, all  *)
(* executed alike, and one action per operation of the bus.                *)
(*                                                                         *)
(* An entry of the history is a sequence of commands.  Ghost fields say    *)
(* what the document was before and after it, and whether a later command  *)
(* was folded into it.  The ghost `strayed` is set by the two steps that   *)
(* leave the line the history records: undo or redo inside an open         *)
(* gesture, and taking back or repeating an entry that was folded from     *)
(* several tempo or note edits.  No action reads the ghosts.               *)
(***************************************************************************)
EXTENDS Commands

CONSTANTS
  Loadable,      \* the documents a session may start with, read from files
  FirstId,       \* none of their entities has this ID or a greater one
  Tempos, Values, Lengths, Bars,
  MaxExecuted,   \* bound: commands executed
  MaxOpen        \* bound: gestures inside each other

VARIABLES
  doc,           \* Project's tables, transport
  undo_stack, redo_stack,
  open,          \* open gestures, the outermost first
  coalescable,
  minted,        \* the next ID to be minted
  executed, strayed

history == <<undo_stack, redo_stack, open, coalescable>>
vars == <<doc, history, minted, executed, strayed>>

-----------------------------------------------------------------------------
(* Bookkeeping, as functions of the bus *)

Bus == [doc |-> doc, undo |-> undo_stack, redo |-> redo_stack,
        open |-> open, coalescable |-> coalescable]

Become(b) == /\ doc' = b.doc
             /\ undo_stack' = b.undo
             /\ redo_stack' = b.redo
             /\ open' = b.open
             /\ coalescable' = b.coalescable

Top(stack) == stack[Len(stack)]
ReplaceTop(stack, e) == Append(Front(stack), e)

Entry(parts, composite, was, became) ==
  [parts |-> parts, composite |-> composite, was |-> was, became |-> became, folded |-> FALSE]

\* CompositeCommand does not override coalesceWith.
Coalesces(b, e) ==
  /\ b.coalescable
  /\ b.undo # <<>>
  /\ ~Top(b.undo).composite /\ ~e.composite
  /\ Absorbs(Top(b.undo).parts[1], e.parts[1])

Merged(top, e) ==
  [top EXCEPT !.parts  = <<Absorbed(top.parts[1], e.parts[1])>>,
              !.became = e.became,
              !.folded = TRUE]

\* A slip: the newest part goes first.
IntoFront(gesture, parts) == [gesture EXCEPT !.parts = parts \o @]
Into(gesture, parts) == [gesture EXCEPT !.parts = @ \o parts]

Recorded(b, e) ==
  IF b.open # <<>>
  THEN [b EXCEPT !.open = ReplaceTop(@, Into(Top(@), e.parts))]
  ELSE IF Coalesces(b, e)
  THEN [b EXCEPT !.redo = <<>>, !.undo = ReplaceTop(@, Merged(Top(@), e))]
  ELSE [b EXCEPT !.redo = <<>>, !.undo = Append(@, e), !.coalescable = TRUE]

\* execute(): a command that fails is not recorded.
Executed(b, r, composite) ==
  IF r.ok THEN Recorded([b EXCEPT !.doc = r.doc], Entry(r.parts, composite, b.doc, r.doc))
          ELSE [b EXCEPT !.doc = r.doc]

After(b, parts, composite) == Executed(b, ApplyAll(parts, b.doc), composite)
AfterOne(b, c)             == After(b, <<c>>, FALSE)

-----------------------------------------------------------------------------
(* What is asked of the bus: a command, a composite command, a series of      *)
(* commands each executed on its own, or a transaction around such a series. *)

\* An empty gesture leaves no entry.
Committed(b) ==
  LET gesture == Top(b.open)
      rest    == Front(b.open)
  IN  IF gesture.parts = <<>> THEN [b EXCEPT !.open = rest]
      ELSE IF rest # <<>>
      THEN [b EXCEPT !.open = ReplaceTop(rest, Into(Top(rest), gesture.parts))]
      ELSE [b EXCEPT !.open = <<>>, !.redo = <<>>, !.coalescable = FALSE,
                     !.undo = Append(@, Entry(gesture.parts, TRUE, gesture.was, b.doc))]

Begun(b) == [b EXCEPT !.open = Append(@, [parts |-> <<>>, was |-> b.doc])]

Series(parts)           == [parts |-> parts, how |-> "series", ids |-> 0]
Single(command)         == Series(<<command>>)
Adding(table, e)        == [Single(AddEntity(table, minted, e)) EXCEPT !.ids = 1]
Composite(parts, ids)   == [parts |-> parts, how |-> "composite", ids |-> ids]
Transaction(parts, ids) == [parts |-> parts, how |-> "transaction", ids |-> ids]

\* None of a transaction's commands can fail.
AfterAll(b, parts) == FoldLeft(AfterOne, b, parts)

Requested(b, r) ==
  CASE r.how = "series"      -> AfterAll(b, r.parts)
    [] r.how = "composite"   -> After(b, r.parts, TRUE)
    [] r.how = "transaction" -> Committed(AfterAll(Begun(b), r.parts))

Execute(r) ==
  /\ executed < MaxExecuted
  /\ executed' = executed + 1
  /\ minted' = minted + r.ids
  /\ Become(Requested(Bus, r))
  /\ UNCHANGED strayed

-----------------------------------------------------------------------------
(* Creating and deleting *)

\* With auto_create_mixer_track an instrument comes with a track of its own.
WithTrack(instrument) ==
  Composite(<<AddEntity("tracks", minted, [output |-> Master, effects |-> <<>>]),
              AddEntity("instruments", minted + 1, [instrument EXCEPT !.track = minted])>>, 2)

AddInstrument ==
  LET fresh == [track : {Master}, plugin : Values]
  IN  {WithTrack(i) : i \in fresh}
        \cup {Composite(<<AddEntity("instruments", minted, i)>>, 1) : i \in fresh}

DuplicateInstrument == {WithTrack(doc.instruments[i]) : i \in DOMAIN doc.instruments}

AddPattern == {Adding("patterns", [length |-> n, notes |-> <<>>]) : n \in Lengths}

NewLane(orders) == [group |-> NoId, order |-> 1 + Max(orders \cup {-1})]

LaneOrders == {doc.lanes[l].order : l \in DOMAIN doc.lanes}
AddLane    == {Adding("lanes", NewLane(LaneOrders))}

AddMixerTrack == {Adding("tracks", [output |-> Master, effects |-> <<>>])}

\* The ABI resolves the lane and the source before it makes a clip.
Sources ==
  {PatternSource(p) : p \in DOMAIN doc.patterns}
    \cup {AudioSource(t) : t \in DOMAIN doc.tracks}
    \cup {InstrumentCurve(i) : i \in DOMAIN doc.instruments}
    \cup UNION {{EffectCurve(t, e) : e \in Effects(doc, t)} : t \in DOMAIN doc.tracks}

AddClip ==
  {Adding("clips", clip) : clip \in [lane : DOMAIN doc.lanes, source : Sources, length : {1}]}

\* The last pattern stays.
RemoveEntities ==
  UNION {{Single(RemoveEntity(table, id)) : id \in DOMAIN doc[table]} :
           table \in {"instruments", "lanes", "clips", "tracks"}
                       \cup (IF Cardinality(DOMAIN doc.patterns) > 1 THEN {"patterns"} ELSE {})}

DuplicateClip ==
  {Transaction(<<AddEntity("clips", minted, [doc.clips[c] EXCEPT !.lane = l])>>, 1) :
     c \in DOMAIN doc.clips, l \in DOMAIN doc.lanes}

\* A pattern and each of its sequences.
ClonePattern(id, pattern) ==
  LET channels == SetToSeq(DOMAIN pattern.notes)
  IN  <<AddEntity("patterns", id, [pattern EXCEPT !.notes = <<>>])>>
        \o [n \in DOMAIN channels |->
              EditNotes(id, channels[n], {}, pattern.notes[channels[n]], FALSE)]

DuplicatePattern ==
  {Transaction(ClonePattern(minted, doc.patterns[p]), 1) : p \in DOMAIN doc.patterns}

\* One clone for all the selected clips of a pattern.
MakeUnique ==
  LET Repoint(c) == Edit(doc, "clips", c, "source",
                         [doc.clips[c] EXCEPT !.source = PatternSource(minted)])
      Repointed(clips) == [n \in DOMAIN clips |-> Repoint(clips[n])]
  IN  UNION {{Transaction(ClonePattern(minted, doc.patterns[p]) \o Repointed(SetToSeq(selected)), 1) :
                selected \in (SUBSET ClipsUsingPattern(doc, p)) \ {{}}} : p \in DOMAIN doc.patterns}

\* Every channel of a pattern gets a pattern, a clip and, but for the first, a
\* lane of its own in a gap below the clip's lane, which is opened from the bottom.
Split(c) ==
  LET clip     == doc.clips[c]
      pattern  == doc.patterns[clip.source.of]
      channels == SetToSortSeq(DOMAIN pattern.notes, <)
      above    == doc.lanes[clip.lane].order
      below    == SetToSortSeq({l \in DOMAIN doc.lanes : doc.lanes[l].order > above},
                               LAMBDA k, l : doc.lanes[k].order > doc.lanes[l].order)
      Apart(order) == IF order > above THEN order + Len(channels) - 1 ELSE order
      MoveApart(l) == Edit(doc, "lanes", l, "order", [doc.lanes[l] EXCEPT !.order = Apart(@)])
      PatternOf(n) == minted + 3 * (n - 1)
      LaneOf(n)    == IF n = 1 THEN clip.lane ELSE PatternOf(n) + 1
      Fresh(n)     == NewLane({Apart(o) : o \in LaneOrders} \cup above..(above + n - 2))
      Lane(n)      ==
        IF n = 1 THEN <<>>
        ELSE <<AddEntity("lanes", LaneOf(n), Fresh(n)),
               EditFrom("lanes", LaneOf(n), "order", Fresh(n),
                        [Fresh(n) EXCEPT !.order = above + n - 1])>>
      Channel(n)   ==
        ClonePattern(PatternOf(n), [length |-> EffectiveLength(pattern),
                                    notes  |-> Restrict(pattern.notes, {channels[n]})])
          \o Lane(n)
          \o <<AddEntity("clips", PatternOf(n) + 2,
                         [clip EXCEPT !.lane = LaneOf(n), !.source = PatternSource(PatternOf(n))])>>
  IN  Transaction([n \in DOMAIN below |-> MoveApart(below[n])]
                    \o FlattenSeq([n \in DOMAIN channels |-> Channel(n)])
                    \o <<RemoveEntity("clips", c)>>,
                  3 * Len(channels))

SplitByChannel ==
  {Split(c) : c \in {c \in DOMAIN doc.clips :
                       LET source == doc.clips[c].source
                       IN  /\ source.kind = "pattern"
                           /\ Cardinality(DOMAIN doc.patterns[source.of].notes) > 1}}

-----------------------------------------------------------------------------
(* Editing *)

ReplaceInstrument ==
  {Single(Edit(doc, "instruments", i, "plugin", [doc.instruments[i] EXCEPT !.plugin = v])) :
     i \in DOMAIN doc.instruments, v \in Values}

RouteInstrument ==
  {Single(Edit(doc, "instruments", i, "track", [doc.instruments[i] EXCEPT !.track = t])) :
     i \in DOMAIN doc.instruments, t \in DOMAIN doc.tracks}

ReorderLane(l, n) == Single(Edit(doc, "lanes", l, "order", [doc.lanes[l] EXCEPT !.order = n]))

MoveClip ==
  {Single(Edit(doc, "clips", c, "lane", [doc.clips[c] EXCEPT !.lane = l])) :
     c \in DOMAIN doc.clips, l \in DOMAIN doc.lanes}

ResizeClip ==
  {Single(Edit(doc, "clips", c, "length", [doc.clips[c] EXCEPT !.length = n])) :
     c \in DOMAIN doc.clips, n \in Lengths \ {0}}

\* The left half keeps the ID.
SplitClip ==
  UNION {{Composite(<<Edit(doc, "clips", c, "length", [doc.clips[c] EXCEPT !.length = at]),
                      AddEntity("clips", minted, [doc.clips[c] EXCEPT !.length = @ - at])>>, 1) :
            at \in 1..(doc.clips[c].length - 1)} : c \in DOMAIN doc.clips}

\* A declared length: the clips as long as the pattern follow, each as an entry
\* of its own, and the pattern is edited last.
LengthDeclared(pattern, n) == IF ContentEnd(pattern) <= n THEN n ELSE ContentEnd(pattern)

DeclareLength(p, n) ==
  LET pattern == doc.patterns[p]
      moved   == SetToSeq(Followers(doc, p, EffectiveLength(pattern)))
      Resize(c) == Edit(doc, "clips", c, "length",
                        [doc.clips[c] EXCEPT !.length = LengthDeclared(pattern, n)])
  IN  Series([k \in DOMAIN moved |-> Resize(moved[k])]
               \o <<Edit(doc, "patterns", p, "length", [pattern EXCEPT !.length = n])>>)

SetPatternLength == {DeclareLength(p, n) : p \in DOMAIN doc.patterns, n \in Lengths}

-----------------------------------------------------------------------------
(* Notes *)

InsertNotes(p, i) ==
  {Single(EditNotes(p, i, {}, {note}, FALSE)) : note \in Bars \ SequenceOf(doc, p, i)}

RemoveNotes(p, i) ==
  {Single(EditNotes(p, i, notes, {}, FALSE)) : notes \in (SUBSET SequenceOf(doc, p, i)) \ {{}}}

ReplaceNotes(p, i) ==
  {Single(EditNotes(p, i, {before}, {after}, TRUE)) :
     before \in SequenceOf(doc, p, i), after \in Bars \ SequenceOf(doc, p, i)}

NoteEdits ==
  UNION {InsertNotes(p, i) \cup RemoveNotes(p, i) \cup ReplaceNotes(p, i) :
           p \in DOMAIN doc.patterns, i \in DOMAIN doc.instruments}

-----------------------------------------------------------------------------
(* Effects of a track, transport *)

EditChain(t, chain) ==
  Edit(doc, "tracks", t, "effects", [doc.tracks[t] EXCEPT !.effects = chain])

AddEffect(t) ==
  LET chain == doc.tracks[t].effects
  IN  {[Single(EditChain(t, InsertAt(chain, n, [id |-> minted, value |-> NoValue])))
          EXCEPT !.ids = 1] :
         n \in 1..(Len(chain) + 1)}

MoveEffect(t) ==
  LET chain == doc.tracks[t].effects
  IN  {Single(EditChain(t, InsertAt(RemoveAt(chain, m[1]), m[2], chain[m[1]]))) :
         m \in {m \in (DOMAIN chain) \X (DOMAIN chain) : m[1] # m[2]}}

\* The curves that drive it go first.
RemoveEffect(t) ==
  LET Curves(e) == SetToSeq(EffectCurves(doc, t, e))
      Others(e) == SelectSeq(doc.tracks[t].effects, LAMBDA slot : slot.id # e)
  IN  {Composite([n \in DOMAIN Curves(e) |-> RemoveEntity("clips", Curves(e)[n])]
                   \o <<EditChain(t, Others(e))>>, 0) : e \in Effects(doc, t)}

SetEffectParam(t) ==
  {Single(SetParam(t, slot.id, slot.value, v)) :
     slot \in Range(doc.tracks[t].effects), v \in Values}

EffectEdits ==
  UNION {AddEffect(t) \cup MoveEffect(t) \cup RemoveEffect(t) \cup SetEffectParam(t) :
           t \in DOMAIN doc.tracks}

ChangeTransport ==
  {Single(SetTransport(doc, after)) :
     after \in [tempo : Tempos, metronome : BOOLEAN] \ {doc.transport}}

Requests ==
  AddInstrument \cup DuplicateInstrument \cup AddPattern \cup AddLane \cup AddMixerTrack
    \cup AddClip \cup RemoveEntities \cup DuplicateClip \cup DuplicatePattern \cup MakeUnique
    \cup SplitByChannel \cup ReplaceInstrument \cup RouteInstrument \cup MoveClip
    \cup ResizeClip \cup SplitClip \cup SetPatternLength \cup NoteEdits \cup EffectEdits
    \cup ChangeTransport

-----------------------------------------------------------------------------
(* The bus *)

\* Ghost: the step leaves the line the history records.
Strays(e, kinds) ==
  open # <<>> \/ (e.folded /\ e.parts[1].kind \in kinds)

\* A step that fails leaves its entry where it is.
Undone(b, e, r) ==
  LET f == [e EXCEPT !.parts = r.parts]
  IN  IF r.ok THEN [b EXCEPT !.doc = r.doc, !.undo = Front(@), !.redo = Append(@, f),
                             !.coalescable = FALSE]
              ELSE [b EXCEPT !.doc = r.doc, !.undo = ReplaceTop(@, f)]

Undo ==
  /\ undo_stack # <<>>
  /\ LET e == Top(undo_stack)
     IN  /\ Become(Undone(Bus, e, RevertAll(e.parts, doc)))
         /\ strayed' = (strayed \/ Strays(e, {"transport"}))
  /\ UNCHANGED <<minted, executed>>

Redone(b, e, r) ==
  LET f == [e EXCEPT !.parts = r.parts]
  IN  IF r.ok THEN [b EXCEPT !.doc = r.doc, !.redo = Front(@), !.undo = Append(@, f),
                             !.coalescable = FALSE]
              ELSE [b EXCEPT !.doc = r.doc, !.redo = ReplaceTop(@, f)]

Redo ==
  /\ redo_stack # <<>>
  /\ LET e == Top(redo_stack)
     IN  /\ Become(Redone(Bus, e, ApplyAll(e.parts, doc)))
         /\ strayed' = (strayed \/ Strays(e, {"transport", "notes"}))
  /\ UNCHANGED <<minted, executed>>

BeginTransaction ==
  /\ Len(open) < MaxOpen
  /\ open' = Begun(Bus).open
  /\ UNCHANGED <<doc, undo_stack, redo_stack, coalescable, minted, executed, strayed>>

CommitTransaction ==
  /\ open # <<>>
  /\ Become(Committed(Bus))
  /\ UNCHANGED <<minted, executed, strayed>>

AbortTransaction ==
  /\ open # <<>>
  /\ doc' = RevertAll(Top(open).parts, doc).doc
  /\ open' = Front(open)
  /\ UNCHANGED <<undo_stack, redo_stack, coalescable, minted, executed, strayed>>

Seal ==
  /\ coalescable
  /\ coalescable' = FALSE
  /\ UNCHANGED <<doc, undo_stack, redo_stack, open, minted, executed, strayed>>

\* A new or an opened project: other tables, and clear().
Load ==
  /\ doc' \in Loadable
  /\ undo_stack' = <<>> /\ redo_stack' = <<>> /\ open' = <<>>
  /\ coalescable' = FALSE
  /\ strayed' = FALSE
  /\ UNCHANGED <<minted, executed>>

-----------------------------------------------------------------------------
Init ==
  /\ doc \in Loadable
  /\ undo_stack = <<>> /\ redo_stack = <<>> /\ open = <<>>
  /\ coalescable = FALSE
  /\ minted = FirstId
  /\ executed = 0
  /\ strayed = FALSE

Next ==
  \/ \E r \in Requests : Execute(r)
  \/ Undo \/ Redo
  \/ BeginTransaction \/ CommitTransaction \/ AbortTransaction
  \/ Seal \/ Load

Spec == Init /\ [][Next]_vars

-----------------------------------------------------------------------------
(* Properties *)

\* The stacks hold entries that did something (record() and commitTransaction()
\* push nothing else), gestures are nested within the bound, and only an entry
\* of one command can be the result of folding.
EntryOK(e) == e.parts # <<>> /\ (e.composite \/ Len(e.parts) = 1) /\ (e.folded => ~e.composite)
TypeOK ==
  /\ \A n \in DOMAIN undo_stack : EntryOK(undo_stack[n])
  /\ \A n \in DOMAIN redo_stack : EntryOK(redo_stack[n])
  /\ Len(open) <= MaxOpen
  /\ coalescable \in BOOLEAN /\ strayed \in BOOLEAN
  /\ minted >= FirstId
  /\ \A table \in {"instruments", "patterns", "lanes", "clips", "tracks"} :
       \A id \in DOMAIN doc[table] : id < minted

\* What checkReferentialIntegrity() demands after every mutation: whatever is
\* created, deleted with its cascade, edited, undone, redone, committed or
\* aborted, in any order, every reference resolves.
IntegrityUnlessStrayed == ~strayed => Integrity(doc)

\* The history is one line through documents that ends, outside gestures, in
\* the one at hand: each entry begins where the one below it ended, and the
\* redo entries go on from here.  An edit after an undo therefore discards them.
Line(stack) == \A n \in 1..(Len(stack) - 1) : stack[n].became = stack[n + 1].was
LineBack(stack) == \A n \in 1..(Len(stack) - 1) : stack[n].was = stack[n + 1].became
Here == IF open = <<>> THEN doc ELSE open[1].was
HistoryLeadsHereUnlessStrayed ==
  ~strayed => /\ Line(undo_stack)
              /\ LineBack(redo_stack)
              /\ undo_stack # <<>> => Top(undo_stack).became = Here
              /\ redo_stack # <<>> => Top(redo_stack).was = Here

\* Every entry can be taken back or repeated: neither undo nor redo ever finds
\* the document in a state where its step makes no sense.
HistoryNeverSticks ==
  ~strayed /\ open = <<>> =>
    /\ undo_stack # <<>> => RevertAll(Top(undo_stack).parts, doc).ok
    /\ redo_stack # <<>> => ApplyAll(Top(redo_stack).parts, doc).ok

\* abortTransaction() puts back the document the gesture began with, although
\* it ignores what its revert returns.
AbortRestores ==
  [][Len(open') < Len(open) /\ ~strayed /\ AbortTransaction => doc' = Top(open).was]_vars

\* A clip as long as its pattern stays as long as its pattern, whatever is done to
\* the pattern's notes and length or the clip's pattern: unless an empty pattern is
\* declared automatic, or notes go with their instrument.
Fits(d, c) == /\ d.clips[c].source.kind = "pattern"
              /\ d.clips[c].length = EffectiveLength(d.patterns[d.clips[c].source.of])
EmptyAndAutomatic(d, c) ==
  LET p == d.patterns[d.clips[c].source.of] IN p.length = 0 /\ ContentEnd(p) = 0
FittingClipsKeepFitting ==
  [][/\ executed' > executed
     /\ doc'.patterns # doc.patterns
     /\ DOMAIN doc.instruments \subseteq DOMAIN doc'.instruments
     => \A c \in DOMAIN doc.clips \cap DOMAIN doc'.clips :
          Fits(doc, c) => Fits(doc', c) \/ EmptyAndAutomatic(doc', c)]_vars

\* The claim that fails: "Undo puts the lengths back verbatim" (TransportCommand),
\* "correct in both directions" (EditCommand's coalescing), and the stress test
\* of the history, which seals after every step: an undo outside a gesture
\* gives back the document the entry began with.
UndoIsExact ==
  [][~strayed /\ open = <<>> /\ Len(undo_stack') < Len(undo_stack)
      /\ Len(redo_stack') > Len(redo_stack) => doc' = Top(undo_stack).was]_vars
=============================================================================
