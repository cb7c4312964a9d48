------------------------------- MODULE Playlist -------------------------------
(***************************************************************************)
(* The playlist of the application over the history: dragging a lane       *)
(* (app/lib/src/features/playlist/playlist_store.dart) is a series of      *)
(* reorder calls, one for each lane whose place changes, made from the     *)
(* rows as the last refresh showed them.  Nothing else runs on the user    *)
(* interface's thread in between, but the engine checks the document after *)
(* each of them.                                                           *)
(***************************************************************************)
EXTENDS CommandBus

VARIABLES
  calls,      \* the calls a drag has yet to make: <<lane, order>>
  shuffled    \* ghost: a lane was dragged since the project was loaded

playlistVars == <<vars, calls, shuffled>>

\* What laneAt() returns row by row: by order, then by ID.
Rows(d) ==
  SetToSortSeq(DOMAIN d.lanes,
               LAMBDA k, l : \/ d.lanes[k].order < d.lanes[l].order
                             \/ d.lanes[k].order = d.lanes[l].order /\ k < l)

MoveLaneTo ==
  /\ calls = <<>>
  /\ LET rows == Rows(doc)
     IN  \E from, to \in DOMAIN rows :
           LET ordered == InsertAt(RemoveAt(rows, from), to, rows[from])
               places  == [n \in DOMAIN ordered |-> <<ordered[n], n - 1>>]
           IN  /\ from # to
               /\ calls' = SelectSeq(places, LAMBDA p : doc.lanes[p[1]].order # p[2])
               /\ executed + Len(calls') <= MaxExecuted
  /\ shuffled' = TRUE
  /\ UNCHANGED vars

CallReorder ==
  /\ calls # <<>>
  /\ Execute(ReorderLane(Head(calls)[1], Head(calls)[2]))
  /\ calls' = Tail(calls)
  /\ UNCHANGED shuffled

\* A new project forgets what was done to the old one.
Otherwise ==
  /\ calls = <<>>
  /\ Next
  /\ shuffled' = (shuffled /\ ~Load)
  /\ UNCHANGED calls

PlaylistInit == Init /\ calls = <<>> /\ shuffled = FALSE

PlaylistNext == MoveLaneTo \/ CallReorder \/ Otherwise

PlaylistSpec == PlaylistInit /\ [][PlaylistNext]_playlistVars

-----------------------------------------------------------------------------
(* Properties *)

\* "Lane order is unique" (invariants.cpp, and split by channel, which opens
\* its gap bottom lane first for the sake of it): lanes that are added, deleted,
\* split, undone and redone in any order never share a place, as long as none
\* was dragged.
OrdersDistinctUnlessShuffled == ~strayed /\ ~shuffled => OrdersDistinct(doc)
(* The document has no dangling reference and no two lanes in one place, and *)
(* undo and redo lead through the documents there were and never get stuck. *)
HistoryIsSound ==
  /\ TypeOK /\ IntegrityUnlessStrayed /\ OrdersDistinctUnlessShuffled
  /\ HistoryLeadsHereUnlessStrayed /\ HistoryNeverSticks
=============================================================================
