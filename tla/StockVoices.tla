----------------------------- MODULE StockVoices -----------------------------
(***************************************************************************)
(* One channel of the rack that hosts a stock instrument: the events       *)
(* Engine::renderChannel() puts in the chunk's EventList, their way        *)
(* through ClapPluginInstance, and the voices of the instrument (piano,    *)
(* guitar, the Lowkey bass on the guitar's engine, and the synthesizer,    *)
(* which is also the organ).                                               *)
(*                                                                         *)
(* The engine addresses no note by its id: a note-off names a key, and     *)
(* "all notes off" names nothing.  What a voice does between two events is *)
(* abstracted to: it has been rendered, and it may have died.  Which of    *)
(* the candidates for stealing is the quietest, the oldest or the furthest *)
(* into its release is left open.  Nothing in the engine sends a choke.    *)
(***************************************************************************)
EXTENDS Integers, Sequences, FiniteSets, SequencesExt

CONSTANTS
  Kinds,        \* the instruments the channel may host
  PlayedKeys,   \* the keys the song and the user play
  VoiceCount,
  ChunkFrames,
  ListRoom,     \* capacity of chunk_events_
  ScoreLength,  \* bound on the events the schedule has in one chunk
  MaxTyped      \* bound on the commands waiting for a block

ASSUME StockVoicesAssumption ==
  /\ Kinds \subseteq {"piano", "guitar", "lowkey", "synth"}
  /\ PlayedKeys \subseteq 0..127
  /\ {VoiceCount, ChunkFrames, ListRoom} \subseteq Nat \ {0}

VARIABLES
  kind,
  bank,        \* voices_
  auditioned,  \* whether this is the channel live notes go to
  typed,       \* note commands posted and not yet drained
  chunk,       \* the events of the chunk still to be handled
  frame,       \* process()'s cursor; ChunkFrames between two chunks
  score,       \* the keys the schedule has told the channel to start and not to end
  pressed,     \* the keys the user holds down
  unheard      \* keys of the instrument whose release never reached a voice

stockVars == <<kind, bank, auditioned, typed, chunk, frame, score, pressed, unheard>>

AnyKey == -1
Note(type, key, time) == [type |-> type, key |-> key, time |-> time]
AllNotesOff == Note("off", AnyKey, 0)

Voice(key) == [active |-> TRUE, released |-> FALSE, key |-> key, rendered |-> FALSE]
Idle == [active |-> FALSE, released |-> FALSE, key |-> AnyKey, rendered |-> FALSE]
Held(voice) == voice.active /\ ~voice.released

StockInit ==
  /\ kind \in Kinds
  /\ bank = [v \in 1..VoiceCount |-> Idle]
  /\ auditioned = TRUE
  /\ typed = <<>>
  /\ chunk = <<>>
  /\ frame = ChunkFrames
  /\ score = {}
  /\ pressed = {}
  /\ unheard = {}

-----------------------------------------------------------------------------
(* The instrument. *)

\* Lowkey plays an octave down; what is below its lowest key lands on it, and so
\* does the key that stands for any.
Pitch(key) ==
  IF kind = "lowkey" THEN (IF key > 12 THEN key - 12 ELSE 0) ELSE key

\* voiceMatches() of the piano and the synthesizer: what an event leaves out
\* stands for any.
MatchesLoosely(voice, key) == voice.active /\ (key = AnyKey \/ voice.key = key)

\* That of the guitar compares the channel too, and no voice is on channel -1.
MatchesExactly(voice, key) == voice.active /\ key # AnyKey /\ voice.key = Pitch(key)

Matches(voice, key) ==
  IF kind \in {"piano", "synth"} THEN MatchesLoosely(voice, key)
  ELSE MatchesExactly(voice, key)

\* A slip: the quietest voice, whether or not it has sounded yet.
AnyVoice == 1..VoiceCount

\* The voices a note may take when all are busy: none that has not been rendered,
\* and one that was let go of before one that is held.
Stealable ==
  LET rendered == {v \in 1..VoiceCount : bank[v].rendered}
      let_go   == {v \in rendered : bank[v].released}
  IN  IF let_go # {} THEN let_go ELSE rendered

NoteOn(key) ==
  LET idle == {v \in 1..VoiceCount : ~bank[v].active}
  IN  \/ /\ idle # {}
         /\ LET first == CHOOSE v \in idle : \A other \in idle : v <= other
            IN  bank' = [bank EXCEPT ![first] = Voice(Pitch(key))]
      \/ /\ idle = {}
         /\ \E v \in Stealable : bank' = [bank EXCEPT ![v] = Voice(Pitch(key))]
      \/ idle = {} /\ Stealable = {} /\ UNCHANGED bank

\* A slip: the loop stops at the first voice that matches.
ReleasesOne(key) ==
  [v \in 1..VoiceCount |->
     IF Matches(bank[v], key) /\ \A other \in 1..(v - 1) : ~Matches(bank[other], key)
     THEN [bank[v] EXCEPT !.released = TRUE] ELSE bank[v]]

\* noteOff(): every voice that matches, released before or not.
LetGoOf(voices) ==
  [v \in 1..VoiceCount |->
     IF v \in voices /\ bank[v].active THEN [bank[v] EXCEPT !.released = TRUE]
     ELSE bank[v]]

\* The synthesizer releases all it has when none matches.
Released(key) ==
  LET matched == {v \in 1..VoiceCount : Matches(bank[v], key)}
  IN  IF kind = "synth" /\ matched = {} THEN LetGoOf(1..VoiceCount) ELSE LetGoOf(matched)

HeldKeys == {bank[v].key : v \in {u \in 1..VoiceCount : Held(bank[u])}}

\* handleEvent(), when the cursor has come to the event.
Handle ==
  /\ chunk # <<>>
  /\ LET event == Head(chunk)
     IN  /\ event.time = frame
         /\ chunk' = Tail(chunk)
         /\ \/ /\ event.type = "on"
               /\ NoteOn(event.key)
               /\ UNCHANGED unheard
            \/ /\ event.type = "off"
               /\ bank' = Released(event.key)
               /\ unheard' = IF event.key = AnyKey THEN unheard \cup (HeldKeys)' ELSE unheard
  /\ UNCHANGED <<kind, auditioned, typed, frame, score, pressed>>

\* A string rings until it is let go of, however quiet it has become; a voice of
\* the piano or the synthesizer may end while it is held, by its envelope or age.
EndsWhenReleased(voice) == voice.active /\ voice.released
EndsByItself(voice) == voice.active /\ kind \in {"piano", "synth"}
Mortal == {v \in 1..VoiceCount : EndsWhenReleased(bank[v]) \/ EndsByItself(bank[v])}

\* render(), up to the next event or the end of the chunk.
Render(dead) ==
  /\ frame < ChunkFrames
  /\ dead \subseteq Mortal
  /\ chunk # <<>> => Head(chunk).time > frame
  /\ frame' = IF chunk = <<>> THEN ChunkFrames ELSE Head(chunk).time
  /\ bank' = [v \in 1..VoiceCount |->
                IF v \in dead THEN Idle
                ELSE [bank[v] EXCEPT !.rendered = bank[v].active]]
  /\ unheard' = IF chunk = <<>> THEN unheard \cap (HeldKeys)' ELSE unheard
  /\ UNCHANGED <<kind, auditioned, typed, chunk, score, pressed>>

-----------------------------------------------------------------------------
(* The engine and its user. *)

\* What the schedule has for one chunk, in order of time; for one key, starts and
\* ends take turns (the flattener sees to it).
ChunkEvents ==
  [type : {"on", "off"}, key : PlayedKeys, time : 0..(ChunkFrames - 1)]
Scores == UNION {[1..n -> ChunkEvents] : n \in 0..ScoreLength}
TakesTurns(events, sounding) ==
  /\ \A i, j \in DOMAIN events : i < j => events[i].time <= events[j].time
  /\ \A key \in PlayedKeys :
       LET turns == SelectSeq(events, LAMBDA event : event.key = key)
       IN  \A i \in DOMAIN turns :
             turns[i].type = IF (key \in sounding) = (i % 2 = 1) THEN "off" ELSE "on"
Afterwards(events, sounding) ==
  {key \in PlayedKeys :
     LET turns == {i \in DOMAIN events : events[i].key = key}
     IN  IF turns = {} THEN key \in sounding
         ELSE \E last \in turns : (\A i \in turns : i <= last) /\ events[last].type = "on"}

\* The commands that are for this channel: all of them, or those that name none.
OwnCommands ==
  IF auditioned THEN typed
  ELSE [i \in 1..Cardinality({j \in DOMAIN typed : typed[j].key = AnyKey}) |-> AllNotesOff]

\* renderChannel(): the release a reset, a seam or a jump asks for, then the
\* commands that are for this channel, then the schedule's events; what finds the
\* list full is dropped.  The list is in order of time as it is.
BeginChunk ==
  /\ frame = ChunkFrames
  /\ chunk = <<>>
  /\ \E jump \in BOOLEAN, events \in Scores :
       LET sounding == IF jump THEN {} ELSE score
           pushed   == (IF jump THEN <<AllNotesOff>> ELSE <<>>) \o OwnCommands \o events
           room     == IF Len(pushed) > ListRoom THEN ListRoom ELSE Len(pushed)
           lost     == {pushed[i] : i \in (room + 1)..Len(pushed)}
           missed   == lost \cup (IF auditioned THEN {} ELSE Range(typed))
           offs     == {event \in missed : event.type = "off" /\ event.key # AnyKey}
           panics   == {event \in lost : event.key = AnyKey}
       IN  /\ TakesTurns(events, sounding)
           /\ chunk' = SubSeq(pushed, 1, room)
           /\ score' = Afterwards(events, sounding)
           /\ unheard' = unheard \cup {Pitch(event.key) : event \in offs}
                                 \cup (IF panics = {} THEN {} ELSE HeldKeys)
  /\ frame' = 0
  /\ typed' = <<>>
  /\ UNCHANGED <<kind, bank, auditioned, pressed>>

Type(event) ==
  /\ Len(typed) < MaxTyped
  /\ typed' = Append(typed, event)
  /\ UNCHANGED <<kind, bank, auditioned, chunk, frame, score, unheard>>

Press(key) == key \notin pressed /\ pressed' = pressed \cup {key} /\ Type(Note("on", key, 0))
LetGo(key) == key \in pressed /\ pressed' = pressed \ {key} /\ Type(Note("off", key, 0))
Panic == UNCHANGED pressed /\ Type(AllNotesOff)

\* The user selects another channel, or this one again: live notes follow the
\* selection, the ends of those already begun among them.
Select ==
  /\ auditioned' = ~auditioned
  /\ UNCHANGED <<kind, bank, typed, chunk, frame, score, pressed, unheard>>

StockNext ==
  \/ BeginChunk \/ Handle
  \/ \E dead \in SUBSET Mortal : Render(dead)
  \/ \E key \in PlayedKeys : Press(key) \/ LetGo(key)
  \/ Panic \/ Select

StockSpec == StockInit /\ [][StockNext]_stockVars

-----------------------------------------------------------------------------
\* Between two chunks every voice that is held is held by somebody: the song is
\* in the middle of its note, or the user has the key down.  The exceptions are
\* releases no voice heard: those that followed the selection to another channel
\* or found the event list full, and "all notes off" on the guitar and the bass.
HeldIsWantedUnlessUnheard ==
  frame = ChunkFrames /\ typed = <<>> =>
    HeldKeys \subseteq {Pitch(key) : key \in score \cup pressed} \cup unheard

\* The notes of a chord do not take each other's voices, however many the
\* instrument has: noteOn() never gives away a voice that has not been rendered.
ChordKeepsItsVoices ==
  [][Handle => \A v \in 1..VoiceCount :
       Held(bank[v]) /\ ~bank[v].rendered => bank'[v].key = bank[v].key]_stockVars

\* PluginEvent::allNotesOff(): "Release every sounding voice."
AllNotesOffReleasesAll ==
  [][chunk # <<>> /\ Head(chunk) = AllNotesOff /\ chunk' = Tail(chunk)
       => \A v \in 1..VoiceCount : ~Held(bank'[v])]_stockVars
=============================================================================
