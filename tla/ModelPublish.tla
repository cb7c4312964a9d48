----------------------------- MODULE ModelPublish -----------------------------
(***************************************************************************)
(* What the engine is told of the document (publishModel() and the pattern *)
(* and transport calls of abi/onebeat_abi.cpp).  Every edit, selection,    *)
(* preview, undo and project change ends in a publish, which flattens the  *)
(* song if it changed, or the pattern being previewed, and posts a command *)
(* for each value of the transport that is not the one it last posted.     *)
(* The queue may refuse a command; the user interface toggles the loop     *)
(* from the snapshot it last read.                                         *)
(*                                                                         *)
(* Lengths are in bars.  A pattern has the length its project gave it, a   *)
(* bar for a new one; clips play patterns.  The metronome is SongExport's. *)
(***************************************************************************)
EXTENDS Naturals, Sequences, FiniteSets, SequencesExt, FiniteSetsExt

CONSTANTS
  SavedSongs,     \* documents project_open() may load
  RackChannels,   \* instruments a preview may be narrowed to
  Everything,     \* preview_instrument is empty
  NoPattern,      \* current_pattern is empty
  PlaybackTempos, DefaultTempo,
  ClipLengths,    \* the bars a clip may be given
  LastBar,        \* bound: where a clip may start
  Postbox,        \* the capacity of the engine's command queue
  MaxUses         \* bound: calls of the user interface

\* A document, as far as the engine is told of it.
IsDocument(doc) ==
  /\ doc = [patterns |-> doc.patterns, clips |-> doc.clips, tempo |-> doc.tempo, loop |-> doc.loop]
  /\ NoPattern \notin DOMAIN doc.patterns

ASSUME ModelPublishAssumption ==
  /\ Postbox \in Nat \ {0}
  /\ DefaultTempo \in PlaybackTempos
  /\ NoPattern \notin Nat
  /\ \A s \in SavedSongs : IsDocument(s) /\ s.tempo \in PlaybackTempos

VARIABLES
  document,          \* the document: [patterns, clips, tempo, loop]
  done, undone,  \* the history: the documents an undo, a redo leads to
  merging,       \* the last entry is a transport change the next may join
  minted,        \* the number of IDs given out
  shownPattern,  \* current_pattern
  audition,      \* [on, channel]: pattern_preview and preview_instrument
  desk,          \* what a publish works on; see Republished
  transport,     \* the engine's transport: [tempo, end, loop]
  glimpse,       \* the transport as the user interface last read it
  uses           \* ghost

documentVars == <<document, done, undone, merging, minted>>
publishVars == <<documentVars, shownPattern, audition, desk, transport, glimpse, uses>>

-----------------------------------------------------------------------------
(* The document *)

Put(table, id, row) == [i \in DOMAIN table \cup {id} |-> IF i = id THEN row ELSE table[i]]

NewPattern(place) == [bars |-> 1, place |-> place]
Patterns == DOMAIN document.patterns
Places(doc) == {doc.patterns[p].place : p \in DOMAIN doc.patterns}

\* A new pattern goes after the last.
AddPatternTo(doc, id, bars) ==
  [doc EXCEPT !.patterns = Put(@, id, [bars |-> bars, place |-> Max(Places(doc) \cup {0}) + 1])]

RemovePatternFrom(doc, p) ==
  [doc EXCEPT !.patterns = [q \in DOMAIN @ \ {p} |-> @[q]],
              !.clips    = [c \in {d \in DOMAIN @ : @[d].of # p} |-> @[c]]]

\* orderedPatterns(): by place, then by ID.
PatternList(doc) ==
  SetToSortSeq(DOMAIN doc.patterns,
               LAMBDA p, q : \/ doc.patterns[p].place < doc.patterns[q].place
                             \/ doc.patterns[p].place = doc.patterns[q].place /\ p < q)

\* Every pattern gets the place it has in the new order.
Reordered(doc, p, to) ==
  LET list  == PatternList(doc)
      after == InsertAt(SelectSeq(list, LAMBDA q : q # p), to, p)
  IN [doc EXCEPT !.patterns =
        [q \in DOMAIN @ |-> [@[q] EXCEPT !.place = CHOOSE i \in DOMAIN after : after[i] = q]]]

FreshSong(pattern, clip) ==
  [patterns |-> Put(<<>>, pattern, NewPattern(1)),
   clips    |-> Put(<<>>, clip, [of |-> pattern, start |-> 0, bars |-> 1]),
   tempo    |-> DefaultTempo, loop |-> FALSE]

-----------------------------------------------------------------------------
(* publishModel() *)

SongEnd(doc) == Max({1} \cup {doc.clips[c].start + doc.clips[c].bars : c \in DOMAIN doc.clips})

\* The loop region: the previewed pattern while it is previewed, else the song.
LoopEnd(doc, current, preview) ==
  CASE ~preview.on                                       -> SongEnd(doc)
    [] preview.on /\ current \in DOMAIN doc.patterns     -> doc.patterns[current].bars
    [] preview.on /\ current \notin DOMAIN doc.patterns  -> 1

Wanted(doc, current, preview) ==
  [tempo |-> doc.tempo, end |-> LoopEnd(doc, current, preview), loop |-> preview.on \/ doc.loop]

\* A preview takes the pattern from a clip that plays it.
Shown(doc, current, preview) ==
  IF preview.on /\ current # NoPattern
  THEN <<"pattern", current, preview.channel,
         \E c \in DOMAIN doc.clips : doc.clips[c].of = current>>
  ELSE <<"song", doc.clips>>

\* The desk of the main thread: what was last announced (published_tempo,
\* published_loop_end, published_loop_enabled), the queue, the flattener's dirty
\* flag, the schedule handed over; and three ghosts: a command was turned away,
\* the loop was toggled from a snapshot that was out of date or during a
\* preview, a new project is not flattened yet.
Post(d, type, value) ==
  IF Len(d.post) < Postbox
  THEN [d EXCEPT !.post = Append(@, [type |-> type, value |-> value])]
  ELSE [d EXCEPT !.turnedAway = TRUE]

Flattened(d, doc, current, preview) ==
  IF preview.on /\ current # NoPattern
  THEN [d EXCEPT !.schedule = Shown(doc, current, preview), !.renewed = FALSE]
  ELSE IF d.dirty
       THEN [d EXCEPT !.schedule = Shown(doc, current, preview), !.renewed = FALSE,
                      !.dirty = FALSE]
       ELSE d

TempoTold(d, wanted) ==
  IF wanted.tempo = d.announced.tempo THEN d
  ELSE Post([d EXCEPT !.announced.tempo = wanted.tempo], "tempo", wanted.tempo)

Region(wanted) == [end |-> wanted.end, loop |-> wanted.loop]
RegionTold(d, wanted) ==
  Post([d EXCEPT !.announced = [tempo |-> @.tempo, end |-> wanted.end, loop |-> wanted.loop],
                 !.outOfDate = FALSE],
       "loop", Region(wanted))

\* A slip: the region is only sent when the switch moves.
LoopToldBySwitch(d, wanted) ==
  IF wanted.loop = d.announced.loop THEN d ELSE RegionTold(d, wanted)
LoopTold(d, wanted) ==
  IF Region(wanted) = Region(d.announced) THEN d ELSE RegionTold(d, wanted)

Republished(d, doc, current, preview) ==
  LET wanted == Wanted(doc, current, preview)
  IN LoopTold(TempoTold(Flattened(d, doc, current, preview), wanted), wanted)

\* What a change of the document leaves for the flattener.
Dirtied(d) == [d EXCEPT !.dirty = TRUE]

-----------------------------------------------------------------------------
(* The calls *)

Uses == uses < MaxUses /\ uses' = uses + 1
UiOnly == UNCHANGED <<transport, glimpse>>

Remembered(doc) == /\ document' = doc
                  /\ done' = Append(done, document)
                  /\ undone' = <<>>
Edits(doc, ids) == Remembered(doc) /\ merging' = FALSE /\ minted' = minted + ids

\* A transport change joins the one before it.
TransportChanged(doc) ==
  /\ document' = doc
  /\ done' = IF merging THEN done ELSE Append(done, document)
  /\ undone' = <<>>
  /\ merging' = TRUE
  /\ UNCHANGED minted

pattern_create ==
  /\ Uses /\ UiOnly
  /\ Edits(AddPatternTo(document, minted + 1, 1), 1)
  /\ shownPattern' = minted + 1
  /\ desk' = Republished(Dirtied(desk), document', shownPattern', audition)
  /\ UNCHANGED audition

pattern_duplicate(p) ==
  /\ Uses /\ UiOnly
  /\ Edits(AddPatternTo(document, minted + 1, document.patterns[p].bars), 1)
  /\ shownPattern' = minted + 1
  /\ desk' = Republished(Dirtied(desk), document', shownPattern', audition)
  /\ UNCHANGED audition

\* Published with the selection on the pattern that is gone, then again.
pattern_remove(p) ==
  /\ Uses /\ UiOnly
  /\ Cardinality(Patterns) > 1
  /\ Edits(RemovePatternFrom(document, p), 0)
  /\ LET gone == Republished(Dirtied(desk), document', shownPattern, audition)
     IN IF shownPattern = p
        THEN /\ shownPattern' = Head(PatternList(document'))
             /\ desk' = Republished(gone, document', shownPattern', audition)
        ELSE /\ desk' = gone
             /\ UNCHANGED shownPattern
  /\ UNCHANGED audition

pattern_reorder(p, to) ==
  /\ Uses /\ UiOnly
  /\ PatternList(document)[to] # p
  /\ Edits(Reordered(document, p, to), 0)
  /\ desk' = Republished(Dirtied(desk), document', shownPattern, audition)
  /\ UNCHANGED <<shownPattern, audition>>

pattern_select(p) ==
  /\ Uses /\ UiOnly
  /\ shownPattern' = p
  /\ desk' = Republished(desk, document, p, audition)
  /\ UNCHANGED <<documentVars, audition>>

\* pattern_preview_start, pattern_preview_channel_start: publish, seek, play
pattern_preview_start(p, channel) ==
  /\ Uses /\ UiOnly
  /\ shownPattern' = p
  /\ audition' = [on |-> TRUE, channel |-> channel]
  /\ desk' = Post(Post(Republished(desk, document, p, audition'), "seek", 0), "play", 0)
  /\ UNCHANGED documentVars

\* A slip: the flattener is not told that its schedule is not the engine's.
StopsQuietly ==
  /\ Uses /\ UiOnly
  /\ audition.on
  /\ audition' = [on |-> FALSE, channel |-> Everything]
  /\ desk' = Republished(desk, document, shownPattern, audition')
  /\ UNCHANGED <<documentVars, shownPattern>>

pattern_preview_stop ==
  /\ Uses /\ UiOnly
  /\ audition.on
  /\ audition' = [on |-> FALSE, channel |-> Everything]
  /\ desk' = Republished(Dirtied(desk), document, shownPattern, audition')
  /\ UNCHANGED <<documentVars, shownPattern>>

clip_add(p, start, bars) ==
  /\ Uses /\ UiOnly
  /\ Edits([document EXCEPT !.clips =
             Put(@, minted + 1, [of |-> p, start |-> start, bars |-> bars])], 1)
  /\ desk' = Republished(Dirtied(desk), document', shownPattern, audition)
  /\ UNCHANGED <<shownPattern, audition>>

pattern_clip_remove(c) ==
  /\ Uses /\ UiOnly
  /\ Edits([document EXCEPT !.clips = [d \in DOMAIN @ \ {c} |-> @[d]]], 0)
  /\ desk' = Republished(Dirtied(desk), document', shownPattern, audition)
  /\ UNCHANGED <<shownPattern, audition>>

\* ob_engine_post_command: the value is recorded as announced, the change
\* published, and the command posted as the caller made it.
set_tempo(tempo) ==
  /\ Uses /\ UiOnly
  /\ IF tempo # document.tempo
     THEN /\ TransportChanged([document EXCEPT !.tempo = tempo])
          /\ desk' = Post(Republished(Dirtied([desk EXCEPT !.announced.tempo = tempo]),
                                    document', shownPattern, audition),
                          "tempo", tempo)
     ELSE /\ desk' = Post(desk, "tempo", tempo)
          /\ UNCHANGED documentVars
  /\ UNCHANGED <<shownPattern, audition>>

\* toggleLoop(): the region and the switch are those of the snapshot.
toggleLoop ==
  /\ Uses /\ UiOnly
  /\ LET on      == ~glimpse.loop
         command == [end |-> glimpse.end, loop |-> on]
         sent(d) == [Post(d, "loop", command) EXCEPT
                       !.outOfDate =
                         @ \/ command # Region(Wanted(document', shownPattern, audition))]
     IN IF on # document.loop
        THEN /\ TransportChanged([document EXCEPT !.loop = on])
             /\ desk' = sent(Republished(Dirtied([desk EXCEPT !.announced.loop = on]),
                                       document', shownPattern, audition))
        ELSE /\ UNCHANGED documentVars
             /\ desk' = sent(desk)
  /\ UNCHANGED <<shownPattern, audition>>

project_undo ==
  /\ Uses /\ UiOnly
  /\ done # <<>>
  /\ document' = Last(done)
  /\ done' = Front(done) /\ undone' = Append(undone, document)
  /\ merging' = FALSE
  /\ desk' = Republished(Dirtied(desk), document', shownPattern, audition)
  /\ UNCHANGED <<minted, shownPattern, audition>>

project_redo ==
  /\ Uses /\ UiOnly
  /\ undone # <<>>
  /\ document' = Last(undone)
  /\ undone' = Front(undone) /\ done' = Append(done, document)
  /\ merging' = FALSE
  /\ desk' = Republished(Dirtied(desk), document', shownPattern, audition)
  /\ UNCHANGED <<minted, shownPattern, audition>>

Replaced(doc, pattern) ==
  /\ document' = doc
  /\ done' = <<>> /\ undone' = <<>> /\ merging' = FALSE
  /\ shownPattern' = pattern
  /\ UNCHANGED audition

\* The tables are adopted, which no change event reports.
project_new ==
  /\ Uses /\ UiOnly
  /\ Replaced(FreshSong(minted + 1, minted + 2), minted + 1)
  /\ minted' = minted + 2
  /\ desk' = Republished([desk EXCEPT !.renewed = TRUE], document', shownPattern', audition)

\* The same, but the flattener is told.  IDs of a file are its own.
project_open(saved) ==
  /\ Uses /\ UiOnly
  /\ Replaced(saved, IF DOMAIN saved.patterns = {} THEN NoPattern ELSE Min(DOMAIN saved.patterns))
  /\ desk' = Republished(Dirtied(desk), document', shownPattern', audition)
  /\ UNCHANGED minted

-----------------------------------------------------------------------------
(* The engine, and the frame of the user interface *)

Obeyed(now, command) ==
  CASE command.type = "tempo" -> [now EXCEPT !.tempo = command.value]
    [] command.type = "loop"  -> [now EXCEPT !.end = command.value.end, !.loop = command.value.loop]
    [] OTHER                  -> now

\* A block drains the queue, one command at a time.
Drain ==
  /\ desk.post # <<>>
  /\ transport' = Obeyed(transport, Head(desk.post))
  /\ desk' = [desk EXCEPT !.post = Tail(@)]
  /\ UNCHANGED <<documentVars, shownPattern, audition, glimpse, uses>>

Frame ==
  /\ glimpse # transport
  /\ glimpse' = transport
  /\ UNCHANGED <<documentVars, shownPattern, audition, desk, transport, uses>>

PublishInit ==
  /\ minted = 2
  /\ document = FreshSong(1, 2)
  /\ done = <<>> /\ undone = <<>> /\ merging = FALSE
  /\ shownPattern = 1
  /\ audition = [on |-> FALSE, channel |-> Everything]
  /\ transport = Wanted(document, shownPattern, audition)
  /\ glimpse = transport
  /\ desk = [announced |-> transport, post |-> <<>>, dirty |-> FALSE,
             schedule |-> Shown(document, shownPattern, audition),
             turnedAway |-> FALSE, outOfDate |-> FALSE, renewed |-> FALSE]
  /\ uses = 0

PublishNext ==
  \/ pattern_create
  \/ \E p \in Patterns :
       \/ pattern_duplicate(p)
       \/ pattern_remove(p)
       \/ pattern_select(p)
       \/ \E to \in 1 .. Cardinality(Patterns) : pattern_reorder(p, to)
       \/ \E channel \in RackChannels \cup {Everything} : pattern_preview_start(p, channel)
       \/ \E start \in 0 .. LastBar, bars \in ClipLengths : clip_add(p, start, bars)
  \/ pattern_preview_stop
  \/ \E c \in DOMAIN document.clips : pattern_clip_remove(c)
  \/ \E tempo \in PlaybackTempos : set_tempo(tempo)
  \/ toggleLoop
  \/ project_undo \/ project_redo
  \/ project_new
  \/ \E saved \in SavedSongs : project_open(saved)
  \/ Drain \/ Frame

PublishSpec == PublishInit /\ [][PublishNext]_publishVars

-----------------------------------------------------------------------------
(* Properties *)

\* The schedule in the engine is that of what the session shows, through any
\* order of edits, selections, previews, undos and loads: the flattener's dirty
\* flag is never lost to a preview.  All but a new project, which is not
\* flattened until something else changes.
ScheduleIsShownUnlessRenewed ==
  ~desk.renewed => desk.schedule = Shown(document, shownPattern, audition)

\* Once the queue is drained the engine's tempo and loop are the model's, as long
\* as the queue refused nothing and the loop was not toggled from a snapshot that
\* an edit had overtaken, or in a preview: only what changed is posted, and what
\* was posted is never posted again (publishModel).
TransportFollowsUnlessRefusedOrOvertaken ==
  desk.post = <<>> /\ ~desk.turnedAway /\ ~desk.outOfDate =>
    transport = Wanted(document, shownPattern, audition)
=============================================================================
