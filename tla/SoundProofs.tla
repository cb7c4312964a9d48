----------------------------- MODULE SoundProofs -----------------------------
(***************************************************************************)
(* Of an audio clip: a stretched one has its window, and cutting one is    *)
(* not heard, for every file, tempo, set of positions and number of edits. *)
(* Of a stock instrument: the notes of a chord keep their voices, and what *)
(* is held is wanted, for any number of voices and any order of events.    *)
(* Of the sampler: a voice that sounds is held, or its note went adrift,   *)
(* for any number of voices, keys and transpositions.                      *)
(* Of playback: what sounds is held by the schedule unless it was missed,  *)
(* and an edit cuts no note of a channel it leaves alone, for every set of  *)
(* notes and tempos, every loop and any length of block and queue.         *)
(*                                                                         *)
(* HeldIsWantedUnlessUnheard is about the moment between two chunks when   *)
(* nothing is on its way.  DueInv is about every moment: a voice nobody    *)
(* wants any more has an end coming to it, in the chunk or typed, and a    *)
(* note on its way is wanted or has its end behind it.                     *)
(***************************************************************************)
EXTENDS StockVoices, AudioClip, Playback, Sampler, FiniteSetTheorems, WellFoundedInduction, TLAPS

(* Clips *)

ClipRecords ==
  [start : Nat, length : Nat \ {0}, offset : Nat, window : Nat,
   stretch : {"off", "resample", "stretch"}, reversed : BOOLEAN, bpm : Nat]

ClipInv ==
  /\ clips \in [DOMAIN clips -> ClipRecords]
  /\ bpm \in ClipTempos
  /\ StretchedIsPinnedUnlessReopened

-----------------------------------------------------------------------------
(* Arithmetic *)

LEMMA Products ==
  ASSUME NEW x \in Nat, NEW y \in Nat
  PROVE  x * y \in Nat
OBVIOUS

LEMMA Quotients ==
  ASSUME NEW x \in Nat, NEW y \in Nat \ {0}
  PROVE  /\ x \div y \in Nat /\ y * (x \div y) <= x /\ x < y * (x \div y) + y
OBVIOUS

LEMMA NearestIsNatural ==
  ASSUME NEW x \in Nat, NEW y \in Nat \ {0}
  PROVE  Nearest(x, y) \in Nat
<1>1. 2 * x + y \in Nat /\ 2 * y \in Nat \ {0}
  OBVIOUS
<1> QED
  BY <1>1, Quotients DEF Nearest

LEMMA LeastMember ==
  ASSUME NEW S \in SUBSET Nat, S # {}
  PROVE  \E x \in S : \A y \in S : x <= y
<1>1. PICK x \in S : \A y \in S : ~(<<y, x>> \in OpToRel(<, Nat))
  BY NatLessThanWellFounded, WFMin
<1>2. \A y \in S : ~(y < x)
  BY <1>1 DEF OpToRel
<1> QED
  BY <1>2

LEMMA Larger ==
  ASSUME NEW x \in Int, NEW y \in Int
  PROVE  Max({x, y}) = IF x >= y THEN x ELSE y
BY DEF Max

LEMMA TicksArePositive ==
  ASSUME NEW x \in Int
  PROVE  Max({1, x}) \in Nat \ {0}
BY Larger

(* A part of a stretched length consumes less than the window. *)
LEMMA PartOfWindow ==
  ASSUME NEW part \in Nat, NEW whole \in Nat \ {0}, part < whole, NEW window \in Nat \ {0}
  PROVE  (part * window) \div whole \in Nat /\ (part * window) \div whole < window
<1> DEFINE q == (part * window) \div whole
<1>1. part * window \in Nat
  BY Products
<1>2. q \in Nat /\ whole * q <= part * window
  BY <1>1, Quotients
<1> HIDE DEF q
<1>3. part * window < whole * window
  OBVIOUS
<1>4. ASSUME q >= window
      PROVE  whole * q >= whole * window
  BY <1>2, <1>4
<1>5. whole * q \in Nat /\ whole * window \in Nat
  BY <1>2, Products
<1>6. q < window
  BY <1>1, <1>2, <1>3, <1>4, <1>5
<1> QED
  BY <1>2, <1>6 DEF q

-----------------------------------------------------------------------------
(* The window of a stretched clip *)

LEMMA ClipTemposArePositive ==
  ASSUME NEW tempo \in ClipTempos
  PROVE  /\ tempo \in Nat \ {0} /\ FramesPerTick(tempo) \in Nat \ {0}
         /\ FileTicks(tempo) \in Nat \ {0}
<1>1. tempo \in Nat \ {0} /\ FramesPerUnit \in Nat \ {0} /\ FramesPerUnit % tempo = 0
  BY AudioClipAssumption
<1>2. FramesPerUnit \div tempo \in Nat /\ FramesPerUnit < tempo * (FramesPerUnit \div tempo) + tempo
  BY <1>1, Quotients
<1>3. FramesPerUnit \div tempo # 0
  <2>1. FramesPerUnit = tempo * (FramesPerUnit \div tempo) + (FramesPerUnit % tempo)
    BY <1>1
  <2>2. ASSUME FramesPerUnit \div tempo = 0
        PROVE  FALSE
    BY <1>1, <2>1, <2>2
  <2> QED
    BY <2>2
<1>4. FramesPerTick(tempo) \in Nat \ {0}
  BY <1>2, <1>3 DEF FramesPerTick
<1>5. FileTicks(tempo) \in Nat \ {0}
  <2>1. Nearest(FileFrames, FramesPerTick(tempo)) \in Nat
    BY <1>4, NearestIsNatural, AudioClipAssumption
  <2> QED
    BY <2>1, TicksArePositive DEF FileTicks
<1> QED
  BY <1>1, <1>4, <1>5

LEMMA SpanIsPositive ==
  ASSUME NEW clip \in ClipRecords, NEW duration \in Nat
  PROVE  /\ Span(clip, duration) \in Nat \ {0}
         /\ clip.window > 0 => Span(clip, duration) = clip.window
BY DEF Span, ClipRecords

LEMMA DurationIsNatural ==
  ASSUME bpm \in ClipTempos
  PROVE  Duration \in Nat
BY ClipTemposArePositive DEF Duration

\* An edit of one clip keeps the others pinned.
LEMMA EditKeeps ==
  ASSUME ClipInv, NEW c \in DOMAIN clips, NEW clip \in ClipRecords, EditClip(c, clip),
         reopened \ {c} \subseteq reopened',
         Stretched(clip) /\ c \notin reopened' => clip.window > 0
  PROVE  ClipInv'
<1>1. /\ DOMAIN clips' = DOMAIN clips /\ clips'[c] = clip /\ bpm' = bpm
      /\ \A d \in DOMAIN clips : d # c => clips'[d] = clips[d]
      /\ clips' = [d \in DOMAIN clips |-> clips'[d]]
  BY DEF EditClip, ClipInv
<1>2. clips' \in [DOMAIN clips' -> ClipRecords]
  BY <1>1 DEF ClipInv
<1>3. ASSUME NEW d \in DOMAIN clips', Stretched(clips'[d]), d \notin reopened'
      PROVE  clips'[d].window > 0
  BY <1>1, <1>3 DEF ClipInv, StretchedIsPinnedUnlessReopened
<1>4. StretchedIsPinnedUnlessReopened'
  BY <1>3 DEF StretchedIsPinnedUnlessReopened, Stretched
<1> QED
  BY <1>1, <1>2, <1>4 DEF ClipInv

\* So does a clip that is added.
LEMMA WithClipKeeps ==
  ASSUME ClipInv, NEW some, NEW c, NEW clip \in ClipRecords,
         some \in [DOMAIN clips -> ClipRecords], clips' = WithClip(some, c, clip), bpm' = bpm,
         c \notin DOMAIN clips,
         \A d \in DOMAIN clips : Stretched(some[d]) /\ d \notin reopened' => some[d].window > 0,
         Stretched(clip) /\ c \notin reopened' => clip.window > 0
  PROVE  ClipInv'
<1>1. /\ DOMAIN clips' = DOMAIN clips \cup {c} /\ clips'[c] = clip
      /\ \A d \in DOMAIN clips : clips'[d] = some[d]
      /\ clips' = [d \in DOMAIN clips \cup {c} |-> clips'[d]]
  BY DEF WithClip
<1>2. clips' \in [DOMAIN clips' -> ClipRecords]
  BY <1>1
<1>3. ASSUME NEW d \in DOMAIN clips', Stretched(clips'[d]), d \notin reopened'
      PROVE  clips'[d].window > 0
  BY <1>1, <1>3
<1>4. StretchedIsPinnedUnlessReopened'
  BY <1>3 DEF StretchedIsPinnedUnlessReopened, Stretched
<1> QED
  BY <1>2, <1>4 DEF ClipInv
\* The edits that leave the window as it is, or shorten it.
LEMMA PlainEditsKeep ==
  ASSUME ClipInv, NEW c \in DOMAIN clips,
         \/ \E start \in DropTicks : clip_move(c, start)
         \/ \E length \in ClipTicks : clip_resize(c, length) \/ audio_clip_resize(c, length)
         \/ \E offset \in TrimOffsets, window \in TrimLengths :
              audio_clip_set_window(c, offset, window)
         \/ \E tempo \in ClipTempos \cup {0} : audio_clip_set_source_bpm(c, tempo)
         \/ audio_clip_set_reversed(c)
  PROVE  ClipInv'
<1> DEFINE old == clips[c]
<1>1. old \in ClipRecords /\ (Stretched(old) /\ c \notin reopened => old.window > 0)
  BY DEF ClipInv, StretchedIsPinnedUnlessReopened
<1>2. ASSUME NEW start \in DropTicks, clip_move(c, start)
      PROVE  ClipInv'
  <2>1. [old EXCEPT !.start = start] \in ClipRecords
    BY <1>1, AudioClipAssumption DEF ClipRecords
  <2> QED
    BY <1>1, <1>2, <2>1, EditKeeps DEF clip_move, Stretched, ClipRecords
<1>3. ASSUME NEW length \in ClipTicks, clip_resize(c, length)
      PROVE  ClipInv'
  <2>1. [old EXCEPT !.length = length] \in ClipRecords
    BY <1>1, AudioClipAssumption DEF ClipRecords
  <2> QED
    BY <1>1, <1>3, <2>1, EditKeeps DEF clip_resize, Stretched, ClipRecords
<1>4. ASSUME NEW length \in ClipTicks, audio_clip_resize(c, length)
      PROVE  ClipInv'
  <2> DEFINE new == [old EXCEPT !.length = length,
                                !.window = IF Stretched(old) \/ @ = 0 THEN @ ELSE length]
  <2>1. new \in ClipRecords
    BY <1>1, AudioClipAssumption DEF ClipRecords
  <2>2. Stretched(new) => Stretched(old) /\ new.window = old.window
    BY <1>1 DEF ClipRecords, Stretched
  <2>3. EditClip(c, new) /\ reopened' = reopened
    BY <1>4 DEF audio_clip_resize
  <2> HIDE DEF new
  <2> QED
    BY <1>1, <2>1, <2>2, <2>3, EditKeeps
<1>5. ASSUME NEW offset \in TrimOffsets, NEW window \in TrimLengths,
             audio_clip_set_window(c, offset, window)
      PROVE  ClipInv'
  <2> DEFINE new == [old EXCEPT !.offset = offset, !.window = window]
  <2>1. new \in ClipRecords /\ new.window = window
    BY <1>1, AudioClipAssumption DEF ClipRecords
  <2>2. /\ EditClip(c, new) /\ reopened \subseteq reopened'
        /\ window = 0 => c \in reopened'
    BY <1>5 DEF audio_clip_set_window
  <2> HIDE DEF new
  <2>3. window \in Nat
    BY AudioClipAssumption
  <2> QED
    BY <2>1, <2>2, <2>3, EditKeeps
<1>6. ASSUME NEW tempo \in ClipTempos \cup {0}, audio_clip_set_source_bpm(c, tempo)
      PROVE  ClipInv'
  <2>1. [old EXCEPT !.bpm = tempo] \in ClipRecords
    BY <1>1, AudioClipAssumption DEF ClipRecords
  <2> QED
    BY <1>1, <1>6, <2>1, EditKeeps DEF audio_clip_set_source_bpm, Stretched, ClipRecords
<1>7. ASSUME audio_clip_set_reversed(c)
      PROVE  ClipInv'
  <2>1. [old EXCEPT !.reversed = ~@] \in ClipRecords
    BY <1>1 DEF ClipRecords
  <2> QED
    BY <1>1, <1>7, <2>1, EditKeeps DEF audio_clip_set_reversed, Stretched, ClipRecords
<1> QED
  BY <1>2, <1>3, <1>4, <1>5, <1>6, <1>7

LEMMA PinnedClip ==
  ASSUME NEW clip \in ClipRecords, NEW length \in Nat \ {0}, NEW window \in Nat \ {0},
         NEW mode \in {"off", "resample", "stretch"}
  PROVE  /\ [clip EXCEPT !.stretch = mode, !.window = window] \in ClipRecords
         /\ [clip EXCEPT !.stretch = mode, !.window = window].window > 0
         /\ [clip EXCEPT !.length = length, !.stretch = mode, !.window = window] \in ClipRecords
         /\ [clip EXCEPT !.length = length, !.stretch = mode, !.window = window].window > 0
<1>1. [clip EXCEPT !.stretch = mode, !.window = window] \in ClipRecords
  BY DEF ClipRecords
<1>2. [clip EXCEPT !.stretch = mode, !.window = window].window = window
  BY DEF ClipRecords
<1>3. [clip EXCEPT !.length = length, !.stretch = mode, !.window = window] \in ClipRecords
  BY DEF ClipRecords
<1>4. [clip EXCEPT !.length = length, !.stretch = mode, !.window = window].window = window
  BY DEF ClipRecords
<1> QED
  BY <1>1, <1>2, <1>3, <1>4

\* The edits that pin a window.
LEMMA StretchKeeps ==
  ASSUME ClipInv, NEW c \in DOMAIN clips,
         NEW mode \in {"off", "resample", "stretch"}, audio_clip_set_stretch_mode(c, mode)
  PROVE  ClipInv'
<1> DEFINE old == clips[c]
           new == [old EXCEPT !.stretch = mode, !.window = Span(old, Duration)]
<1>1. old \in ClipRecords /\ Span(old, Duration) \in Nat \ {0}
  BY DurationIsNatural, SpanIsPositive DEF ClipInv
<1>2. CASE mode = "off" \/ old.window > 0
  <2>1. EditClip(c, [old EXCEPT !.stretch = mode]) /\ reopened' = reopened
    BY <1>2 DEF audio_clip_set_stretch_mode
  <2>2. [old EXCEPT !.stretch = mode] \in ClipRecords
    BY <1>1 DEF ClipRecords
  <2>3. /\ [old EXCEPT !.stretch = mode].stretch = mode
        /\ [old EXCEPT !.stretch = mode].window = old.window
    BY <1>1 DEF ClipRecords
  <2> QED
    BY <1>2, <2>1, <2>2, <2>3, EditKeeps DEF Stretched
<1>3. CASE ~(mode = "off" \/ old.window > 0)
  <2>1. EditClip(c, new) /\ reopened' = reopened \ {c}
    BY <1>3 DEF audio_clip_set_stretch_mode
  <2>2. new \in ClipRecords /\ new.window > 0
    BY <1>1, PinnedClip
  <2> HIDE DEF new
  <2> QED
    BY <2>1, <2>2, EditKeeps
<1> QED
  BY <1>2, <1>3

LEMMA FitKeeps ==
  ASSUME ClipInv, NEW c \in DOMAIN clips, audio_clip_fit_to_tempo(c)
  PROVE  ClipInv'
<1> DEFINE old    == clips[c]
           length == LengthAtTempo(old, bpm, Duration)
           new    == [old EXCEPT !.length = length, !.stretch = "stretch",
                                 !.window = Span(old, Duration)]
<1>1. old \in ClipRecords /\ Span(old, Duration) \in Nat \ {0}
  BY DurationIsNatural, SpanIsPositive DEF ClipInv
<1>2. length \in Nat \ {0}
  <2>1. length > 0
    BY DEF audio_clip_fit_to_tempo
  <2>2. CASE old.bpm = 0
    BY <2>1, <2>2 DEF LengthAtTempo
  <2>3. CASE old.bpm # 0
    <3>1. Span(old, Duration) * old.bpm \in Nat /\ bpm \in Nat \ {0}
      BY <1>1, Products, ClipTemposArePositive DEF ClipInv, ClipRecords
    <3>2. Nearest(Span(old, Duration) * old.bpm, bpm) \in Nat
      BY <3>1, NearestIsNatural
    <3> QED
      BY <2>3, <3>2, TicksArePositive DEF LengthAtTempo
  <2> QED
    BY <2>2, <2>3
<1>3. EditClip(c, new) /\ reopened' = reopened \ {c}
  BY DEF audio_clip_fit_to_tempo
<1> HIDE DEF length
<1>4. new \in ClipRecords /\ new.window > 0
  BY <1>1, <1>2, PinnedClip
<1> HIDE DEF new
<1> QED
  BY <1>3, <1>4, EditKeeps

LEMMA MintedIsNew ==
  ASSUME HasRoom
  PROVE  Minted \in ClipIds /\ Minted \notin DOMAIN clips
BY DEF HasRoom, Minted

LEMMA AddKeeps ==
  ASSUME ClipInv, NEW start \in DropTicks, audio_clip_add(start)
  PROVE  ClipInv'
<1> DEFINE new == [start |-> start, length |-> FileTicks(bpm), offset |-> 0, window |-> 0,
                   stretch |-> "off", reversed |-> FALSE, bpm |-> 0]
<1>1. new \in ClipRecords /\ ~Stretched(new)
  BY ClipTemposArePositive, AudioClipAssumption DEF ClipInv, ClipRecords, Stretched
<1>2. /\ clips' = WithClip(clips, Minted, new) /\ bpm' = bpm /\ reopened' = reopened
      /\ Minted \notin DOMAIN clips
  BY MintedIsNew DEF audio_clip_add
<1> HIDE DEF new
<1> QED
  BY <1>1, <1>2, WithClipKeeps DEF ClipInv, StretchedIsPinnedUnlessReopened

LEMMA DuplicateKeeps ==
  ASSUME ClipInv, NEW c \in DOMAIN clips, NEW start \in DropTicks, clip_duplicate(c, start)
  PROVE  ClipInv'
<1> DEFINE new == [clips[c] EXCEPT !.start = start]
<1>1. /\ new \in ClipRecords /\ new.window = clips[c].window
      /\ Stretched(new) <=> Stretched(clips[c])
  BY AudioClipAssumption DEF ClipInv, ClipRecords, Stretched
<1>2. /\ clips' = WithClip(clips, Minted, new) /\ bpm' = bpm
      /\ reopened \subseteq reopened' /\ (c \in reopened => Minted \in reopened')
      /\ Minted \notin DOMAIN clips
  BY MintedIsNew DEF clip_duplicate
<1> HIDE DEF new
<1> QED
  BY <1>1, <1>2, WithClipKeeps DEF ClipInv, StretchedIsPinnedUnlessReopened

\* Both halves of a clip that is cut have a window if it has one.
LEMMA HalvesArePinned ==
  ASSUME NEW clip \in ClipRecords, NEW at \in Nat,
         at > clip.start, at < clip.start + clip.length
  PROVE  /\ LeftHalf(clip, at) \in ClipRecords /\ RightHalf(clip, at) \in ClipRecords
         /\ Stretched(LeftHalf(clip, at)) => Stretched(clip)
         /\ Stretched(RightHalf(clip, at)) => Stretched(clip)
         /\ clip.window > 0 /\ Stretched(clip) =>
              LeftHalf(clip, at).window > 0 /\ RightHalf(clip, at).window > 0
<1> DEFINE part     == at - clip.start
           ratio    == Ratio(clip, clip.length)
           consumed == (part * ratio.num) \div ratio.den
           own      == Ratio(clip, part)
           spent    == (part * own.num) \div own.den
<1>1. part \in Nat \ {0} /\ clip.length \in Nat \ {0} /\ part < clip.length
  BY DEF ClipRecords
<1>2. /\ Span(clip, 0) \in Nat \ {0}
      /\ clip.window > 0 => Span(clip, 0) = clip.window
  BY SpanIsPositive
<1>3. /\ ratio = (IF Stretched(clip) THEN [num |-> Span(clip, 0), den |-> clip.length]
                  ELSE [num |-> 1, den |-> 1])
      /\ own = (IF Stretched(clip) THEN [num |-> Span(clip, 0), den |-> part]
                ELSE [num |-> 1, den |-> 1])
  BY <1>1, <1>2 DEF Ratio
<1>4. ratio.num \in Nat /\ ratio.den \in Nat \ {0} /\ own.num \in Nat /\ own.den \in Nat \ {0}
  BY <1>1, <1>2, <1>3
<1>5. consumed \in Nat /\ spent \in Nat
  BY <1>1, <1>4, Products, Quotients
<1>6. clip.window > 0 /\ Stretched(clip) => consumed < clip.window
  BY <1>1, <1>2, <1>3, PartOfWindow DEF ClipRecords
<1>7. /\ LeftHalf(clip, at)
           = [clip EXCEPT !.length = part, !.window = IF spent > 0 THEN spent ELSE @]
      /\ RightHalf(clip, at)
           = [clip EXCEPT !.start = at, !.length = clip.start + clip.length - at,
                          !.offset = @ + consumed,
                          !.window = IF @ > consumed THEN @ - consumed ELSE 0]
  BY DEF LeftHalf, RightHalf
<1> HIDE DEF part, ratio, consumed, own, spent
<1>8. clip.start + clip.length - at \in Nat \ {0}
  BY DEF ClipRecords
<1>9. LeftHalf(clip, at) \in ClipRecords /\ RightHalf(clip, at) \in ClipRecords
  <2>1. (IF spent > 0 THEN spent ELSE clip.window) \in Nat
    BY <1>5 DEF ClipRecords
  <2>2. (IF clip.window > consumed THEN clip.window - consumed ELSE 0) \in Nat
    BY <1>5 DEF ClipRecords
  <2>3. clip.offset + consumed \in Nat
    BY <1>5 DEF ClipRecords
  <2>4. LeftHalf(clip, at) \in ClipRecords
    BY <1>1, <1>7, <2>1 DEF ClipRecords
  <2>5. RightHalf(clip, at) \in ClipRecords
    BY <1>7, <1>8, <2>2, <2>3 DEF ClipRecords
  <2> QED
    BY <2>4, <2>5
<1>10. /\ LeftHalf(clip, at).window = (IF spent > 0 THEN spent ELSE clip.window)
       /\ LeftHalf(clip, at).stretch = clip.stretch
       /\ RightHalf(clip, at).window
            = (IF clip.window > consumed THEN clip.window - consumed ELSE 0)
       /\ RightHalf(clip, at).stretch = clip.stretch
  BY <1>7 DEF ClipRecords
<1>11. clip.window > 0 /\ Stretched(clip) =>
         LeftHalf(clip, at).window > 0 /\ RightHalf(clip, at).window > 0
  BY <1>5, <1>6, <1>10 DEF ClipRecords
<1> QED
  BY <1>9, <1>10, <1>11 DEF Stretched
LEMMA SplitKeeps ==
  ASSUME ClipInv, NEW c \in DOMAIN clips, NEW at \in Nat, clip_split(c, at)
  PROVE  ClipInv'
<1> DEFINE left  == LeftHalf(clips[c], at)
           right == RightHalf(clips[c], at)
           some  == [clips EXCEPT ![c] = LeftHalf(@, at)]
<1>1. /\ clips' = WithClip(some, Minted, right) /\ bpm' = bpm
      /\ reopened \subseteq reopened' /\ (c \in reopened => Minted \in reopened')
      /\ Minted \notin DOMAIN clips
      /\ at > clips[c].start /\ at < clips[c].start + clips[c].length
  BY MintedIsNew DEF clip_split
<1>2. clips \in [DOMAIN clips -> ClipRecords] /\ clips[c] \in ClipRecords
  BY DEF ClipInv
<1>3. /\ left \in ClipRecords /\ right \in ClipRecords
      /\ Stretched(left) => Stretched(clips[c])
      /\ Stretched(right) => Stretched(clips[c])
      /\ clips[c].window > 0 /\ Stretched(clips[c]) => left.window > 0 /\ right.window > 0
  BY <1>1, <1>2, HalvesArePinned
<1>4. /\ DOMAIN some = DOMAIN clips /\ some[c] = left
      /\ \A d \in DOMAIN clips : d # c => some[d] = clips[d]
      /\ some \in [DOMAIN clips -> ClipRecords]
  BY <1>2, <1>3
<1> HIDE DEF left, right, some
<1>5. \A d \in DOMAIN clips : Stretched(clips[d]) /\ (d \notin reopened \/ d \notin reopened')
                                => clips[d].window > 0
  BY <1>1 DEF ClipInv, StretchedIsPinnedUnlessReopened
<1>6. \A d \in DOMAIN clips : Stretched(some[d]) /\ d \notin reopened' => some[d].window > 0
  BY <1>3, <1>4, <1>5
<1>7. Stretched(right) /\ Minted \notin reopened' => right.window > 0
  BY <1>1, <1>3, <1>5
<1> QED
  BY <1>1, <1>3, <1>4, <1>6, <1>7, WithClipKeeps

LEMMA RemoveKeeps ==
  ASSUME ClipInv, NEW c \in DOMAIN clips, clip_remove(c)
  PROVE  ClipInv'
<1>1. /\ clips' = [d \in DOMAIN clips \ {c} |-> clips[d]] /\ bpm' = bpm
      /\ reopened' = reopened \ {c}
  BY DEF clip_remove
<1>2. DOMAIN clips' = DOMAIN clips \ {c} /\ \A d \in DOMAIN clips' : clips'[d] = clips[d]
  BY <1>1
<1>3. clips' \in [DOMAIN clips' -> ClipRecords]
  BY <1>1 DEF ClipInv
<1>4. StretchedIsPinnedUnlessReopened'
  <2> SUFFICES ASSUME NEW d \in DOMAIN clips', Stretched(clips'[d]), d \notin reopened'
               PROVE  clips'[d].window > 0
    BY DEF StretchedIsPinnedUnlessReopened, Stretched
  <2> QED
    BY <1>1, <1>2 DEF ClipInv, StretchedIsPinnedUnlessReopened
<1> QED
  BY <1>1, <1>3, <1>4 DEF ClipInv

LEMMA TempoKeeps ==
  ASSUME ClipInv, NEW tempo \in ClipTempos, ChangeTempo(tempo)
  PROVE  ClipInv'
<1> DEFINE rescaled(clip) == [clip EXCEPT !.length = Max({1, Nearest(@ * tempo, bpm)})]
<1>1. /\ clips' = [c \in DOMAIN clips |-> rescaled(clips[c])] /\ bpm' = tempo
      /\ reopened' = reopened
  BY DEF ChangeTempo
<1>2. ASSUME NEW clip \in ClipRecords
      PROVE  /\ rescaled(clip) \in ClipRecords
             /\ rescaled(clip).window = clip.window /\ rescaled(clip).stretch = clip.stretch
  <2>1. clip.length * tempo \in Nat /\ bpm \in Nat \ {0}
    BY Products, ClipTemposArePositive DEF ClipInv, ClipRecords
  <2>2. Max({1, Nearest(clip.length * tempo, bpm)}) \in Nat \ {0}
    BY <2>1, NearestIsNatural, TicksArePositive
  <2> DEFINE length == Max({1, Nearest(clip.length * tempo, bpm)})
  <2>3. rescaled(clip) = [clip EXCEPT !.length = length]
    OBVIOUS
  <2> HIDE DEF length, rescaled
  <2> QED
    BY <2>2, <2>3 DEF ClipRecords, length
<1>3. \A c \in DOMAIN clips : clips[c] \in ClipRecords
  BY DEF ClipInv
<1> HIDE DEF rescaled
<1>4. DOMAIN clips' = DOMAIN clips /\ \A c \in DOMAIN clips : clips'[c] = rescaled(clips[c])
  BY <1>1
<1>5. clips' \in [DOMAIN clips' -> ClipRecords]
  BY <1>1, <1>2, <1>3
<1>6. StretchedIsPinnedUnlessReopened'
  <2> SUFFICES ASSUME NEW c \in DOMAIN clips', clips'[c].stretch # "off", c \notin reopened'
               PROVE  clips'[c].window > 0
    BY DEF StretchedIsPinnedUnlessReopened, Stretched
  <2> QED
    BY <1>1, <1>2, <1>3, <1>4 DEF ClipInv, StretchedIsPinnedUnlessReopened, Stretched
<1> QED
  BY <1>1, <1>5, <1>6 DEF ClipInv

LEMMA ClipInitHolds ==
  ASSUME ClipInit
  PROVE  ClipInv
<1>1. clips = <<>> /\ bpm \in ClipTempos /\ DOMAIN <<>> = {}
  BY DEF ClipInit
<1>2. clips \in [DOMAIN clips -> ClipRecords] /\ DOMAIN clips = {}
  BY <1>1
<1> QED
  BY <1>1, <1>2 DEF ClipInv, StretchedIsPinnedUnlessReopened

LEMMA ClipStepKeeps ==
  ASSUME ClipInv, [ClipNext]_clipVars, LastTick \in Nat
  PROVE  ClipInv'
<1>1. CASE clips' = clips /\ bpm' = bpm /\ reopened' = reopened
  BY <1>1 DEF ClipInv, StretchedIsPinnedUnlessReopened, Stretched
<1>2. ASSUME NEW c \in DOMAIN clips, NEW at \in 1 .. LastTick, clip_split(c, at)
      PROVE  ClipInv'
  BY <1>2, SplitKeeps
<1>3. CASE audio_clip_info \/ FileMoves
  BY <1>1, <1>3 DEF audio_clip_info, FileMoves
<1>4. CASE UNCHANGED clipVars
  BY <1>1, <1>4 DEF clipVars
<1> QED
  BY <1>2, <1>3, <1>4, PlainEditsKeep, StretchKeeps, FitKeeps, AddKeeps, DuplicateKeeps,
     RemoveKeeps, TempoKeeps DEF ClipNext

LEMMA ClipInvHolds == ClipSpec => []ClipInv
<1>1. LastTick \in Nat
  BY AudioClipAssumption
<1> QED
  BY <1>1, ClipInitHolds, ClipStepKeeps, PTL DEF ClipSpec

(* A clip that is stretched has a window of its own, whatever is dragged,   *)
(* cut, copied, fitted or moved on disk, unless it is trimmed to the file's *)
(* end afterwards.                                                          *)
THEOREM StretchedIsPinned == ClipSpec => []StretchedIsPinnedUnlessReopened
<1>1. ClipInv => StretchedIsPinnedUnlessReopened
  BY DEF ClipInv
<1> QED
  BY <1>1, ClipInvHolds, PTL
-----------------------------------------------------------------------------
(* A cut *)

\* What a plain clip plays of its file.
Window(rest, own) == IF own > 0 /\ own < rest THEN own ELSE rest
Left(frames) == Max({0, frames})

LEMMA PlainFrame ==
  ASSUME NEW clip \in ClipRecords, ~Stretched(clip), ~clip.reversed, NEW tempo \in ClipTempos,
         NEW tick \in Nat, NEW F, F = FramesPerTick(tempo)
  PROVE  FrameAt(clip, tempo, tick) =
           IF tick < clip.start
                \/ (tick - clip.start) * F
                     >= Window(Left(FileFrames - clip.offset * F), clip.window * F)
           THEN {} ELSE {clip.offset * F + (tick - clip.start) * F}
<1>1. Ratio(clip, clip.length).num = 1 /\ Ratio(clip, clip.length).den = 1
  BY DEF Ratio
<1>2. WindowFrames(clip, tempo)
        = Window(Left(FileFrames - clip.offset * F), clip.window * F)
  BY DEF WindowFrames, WindowStart, Window, Left
<1>3. CASE tick < clip.start
  BY <1>3 DEF FrameAt
<1>4. CASE ~(tick < clip.start)
  <2>1. tick - clip.start \in Nat /\ F \in Nat
    BY <1>4, ClipTemposArePositive DEF ClipRecords
  <2>2. (tick - clip.start) * F \in Nat
    BY <2>1, Products
  <2> DEFINE read == (tick - clip.start) * F
  <2>3. ((tick - clip.start) * FramesPerTick(tempo) * Ratio(clip, clip.length).num)
          \div Ratio(clip, clip.length).den = read
    <3>1. (read * 1) \div 1 = read
      BY <2>2
    <3> QED
      BY <1>1, <3>1
  <2>4. FrameAt(clip, tempo, tick)
          = IF tick < clip.start \/ read >= WindowFrames(clip, tempo) THEN {}
            ELSE {clip.offset * F + read}
    BY <2>3, Zenon DEF FrameAt, WindowStart
  <2> HIDE DEF read
  <2> QED
    BY <1>2, <2>4 DEF read
<1> QED
  BY <1>3, <1>4

(* Products of ticks and the frames of a tick are ordered as the ticks are. *)
LEMMA ScaledOrder ==
  ASSUME NEW x \in Nat, NEW y \in Nat, NEW F \in Nat \ {0}
  PROVE  /\ x * F \in Nat /\ y * F \in Nat
         /\ (x < y) <=> (x * F < y * F)
         /\ (x + y) * F = x * F + y * F
         /\ x >= y => (x - y) * F = x * F - y * F
<1>1. x * F \in Nat /\ y * F \in Nat
  BY Products
<1>2. (x < y) => (x * F < y * F)
  OBVIOUS
<1>3. (y <= x) => (y * F <= x * F)
  OBVIOUS
<1>4. (x + y) * F = x * F + y * F
  OBVIOUS
<1>5. x >= y => (x - y) * F = x * F - y * F
  OBVIOUS
<1> QED
  BY <1>1, <1>2, <1>3, <1>4, <1>5
(* What is left of a window after a cut is played after as much. *)
LEMMA WindowsAgree ==
  ASSUME NEW file \in Nat, NEW from \in Nat, NEW cut \in Nat \ {0}, NEW whole \in Nat,
         NEW read \in Nat, whole = 0 \/ whole > cut
  PROVE  /\ read < cut => (read >= Window(Left(file - from), whole)
                             <=> read >= Window(Left(file - from), cut))
         /\ read >= cut =>
              /\ read >= Window(Left(file - from), cut)
              /\ read - cut >= Window(Left(file - (from + cut)), IF whole = 0 THEN 0 ELSE whole - cut)
                   <=> read >= Window(Left(file - from), whole)
<1>1. /\ Left(file - from) = IF file > from THEN file - from ELSE 0
      /\ Left(file - (from + cut)) = IF file > from + cut THEN file - (from + cut) ELSE 0
  BY Larger DEF Left
<1>2. read < cut => (read >= Window(Left(file - from), whole)
                       <=> read >= Window(Left(file - from), cut))
  BY <1>1 DEF Window
<1>3. read >= cut => read >= Window(Left(file - from), cut)
  BY <1>1 DEF Window
<1>4. CASE whole = 0
  BY <1>1, <1>2, <1>3, <1>4 DEF Window
<1>5. CASE whole > cut
  BY <1>1, <1>2, <1>3, <1>5 DEF Window
<1> QED
  BY <1>4, <1>5

LEMMA CutFrames ==
  ASSUME NEW clip \in ClipRecords, ~Stretched(clip), ~clip.reversed,
         NEW at \in Nat, at > clip.start, at < clip.start + clip.length,
         clip.window > 0 => at < clip.start + clip.window,
         NEW tempo \in ClipTempos, NEW tick \in Nat
  PROVE  FrameAt(LeftHalf(clip, at), tempo, tick) \cup FrameAt(RightHalf(clip, at), tempo, tick)
           = FrameAt(clip, tempo, tick)
<1> DEFINE F     == FramesPerTick(tempo)
           left  == LeftHalf(clip, at)
           right == RightHalf(clip, at)
           part  == at - clip.start
<1>1. F \in Nat \ {0} /\ part \in Nat \ {0} /\ FileFrames \in Nat
      /\ clip.start \in Nat /\ clip.offset \in Nat /\ clip.window \in Nat
  BY ClipTemposArePositive, AudioClipAssumption DEF ClipRecords
<1>2. left \in ClipRecords /\ right \in ClipRecords
  BY HalvesArePinned
<1>3. /\ left.start = clip.start /\ left.offset = clip.offset /\ left.window = part
      /\ ~Stretched(left) /\ ~left.reversed
      /\ right.start = at /\ right.offset = clip.offset + part
      /\ right.window = (IF clip.window > part THEN clip.window - part ELSE 0)
      /\ ~Stretched(right) /\ ~right.reversed
  <2>1. /\ Ratio(clip, clip.length).num = 1 /\ Ratio(clip, clip.length).den = 1
        /\ Ratio(clip, part).num = 1 /\ Ratio(clip, part).den = 1
    BY DEF Ratio
  <2>2. (part * 1) \div 1 = part
    BY <1>1
  <2> DEFINE spent == (part * Ratio(clip, part).num) \div Ratio(clip, part).den
  <2>a. left = [clip EXCEPT !.length = part, !.window = IF spent > 0 THEN spent ELSE @]
    BY DEF LeftHalf
  <2>b. spent = part /\ part > 0
    BY <1>1, <2>1, <2>2
  <2> HIDE DEF spent, part
  <2>3. left = [clip EXCEPT !.length = part, !.window = part]
    BY <2>a, <2>b
  <2> USE DEF part
  <2>4. right = [clip EXCEPT !.start = at, !.length = clip.start + clip.length - at,
                             !.offset = clip.offset + part,
                             !.window = IF clip.window > part THEN clip.window - part ELSE 0]
    BY <2>1, <2>2 DEF RightHalf
  <2>5. /\ left.start = clip.start /\ left.offset = clip.offset /\ left.window = part
        /\ left.stretch = clip.stretch /\ left.reversed = clip.reversed
    BY <2>3 DEF ClipRecords
  <2>6. /\ right.start = at /\ right.offset = clip.offset + part
        /\ right.window = (IF clip.window > part THEN clip.window - part ELSE 0)
        /\ right.stretch = clip.stretch /\ right.reversed = clip.reversed
    BY <2>4 DEF ClipRecords
  <2> QED
    BY <2>5, <2>6 DEF Stretched
<1> DEFINE read  == (tick - clip.start) * F
           from  == clip.offset * F
           cut   == part * F
           whole == clip.window * F
           rest  == Left(FileFrames - from)
<1>4. FrameAt(clip, tempo, tick) =
        IF tick < clip.start \/ read >= Window(rest, whole) THEN {} ELSE {from + read}
  BY PlainFrame
<1>5. FrameAt(left, tempo, tick) =
        IF tick < clip.start \/ read >= Window(rest, cut) THEN {} ELSE {from + read}
  <2>1. FrameAt(left, tempo, tick) =
          IF tick < left.start
               \/ (tick - left.start) * F
                    >= Window(Left(FileFrames - left.offset * F), left.window * F)
          THEN {} ELSE {left.offset * F + (tick - left.start) * F}
    BY <1>2, <1>3, PlainFrame
  <2> QED
    BY <1>3, <2>1
<1>6. FrameAt(right, tempo, tick) =
        IF tick < at \/ (tick - at) * F
                          >= Window(Left(FileFrames - right.offset * F), right.window * F)
        THEN {} ELSE {right.offset * F + (tick - at) * F}
  BY <1>2, <1>3, PlainFrame
<1>7. /\ from \in Nat /\ cut \in Nat \ {0} /\ whole \in Nat
      /\ clip.window = 0 => whole = 0
      /\ clip.window > 0 => whole > cut
      /\ right.offset * F = from + cut
      /\ clip.window > part => right.window * F = whole - cut
      /\ clip.window <= part => right.window * F = 0
  <2>1. /\ from \in Nat /\ cut \in Nat /\ whole \in Nat /\ (clip.offset + part) * F = from + cut
    BY <1>1, ScaledOrder
  <2>2. 0 < cut
    BY <1>1
  <2>3. part < clip.window => cut < whole /\ (clip.window - part) * F = whole - cut
    BY <1>1, ScaledOrder
  <2>4. clip.window > 0 => part < clip.window
    BY <1>1
  <2>5. clip.window = 0 => whole = 0
    BY <1>1
  <2>6. clip.window > part => right.window = clip.window - part
    BY <1>3
  <2>7. clip.window <= part => right.window = 0
    BY <1>1, <1>3
  <2> HIDE DEF part, left, right
  <2> QED
    BY <2>7, <2>6, <2>5, <2>4, <2>3, <2>2, <2>1, <1>1, <1>3
<1>8. /\ tick >= clip.start => read \in Nat
      /\ clip.start <= tick /\ tick < at => read < cut
      /\ tick >= at => read >= cut /\ (tick - at) * F = read - cut
  <2>1. tick >= clip.start => read \in Nat
    BY <1>1, Products
  <2>2. ASSUME clip.start <= tick, tick < at
        PROVE  read < cut
    <3>1. tick - clip.start \in Nat /\ tick - clip.start < part
      BY <1>1, <2>2
    <3> QED
      BY <1>1, <3>1, ScaledOrder
  <2>3. ASSUME tick >= at
        PROVE  read >= cut /\ (tick - at) * F = read - cut
    <3> DEFINE x == tick - clip.start
    <3>1. x \in Nat /\ x >= part /\ x - part = tick - at
      BY <1>1, <2>3
    <3> HIDE DEF x, part
    <3>2. x * F \in Nat /\ part * F \in Nat /\ ~(x * F < part * F) /\ (x - part) * F = x * F - part * F
      BY <1>1, <3>1, ScaledOrder
    <3> QED
      BY <3>1, <3>2 DEF x
  <2> QED
    BY <2>1, <2>2, <2>3
<1> HIDE DEF F, left, right, part, read, from, cut, whole
<1>9. clip.window = 0 <=> whole = 0
  BY <1>1, <1>7
<1>10. CASE tick < clip.start
  <2>1. tick < at
    BY <1>1, <1>10
  <2>2. /\ FrameAt(left, tempo, tick) = {} /\ FrameAt(right, tempo, tick) = {}
        /\ FrameAt(clip, tempo, tick) = {}
    BY <1>4, <1>5, <1>6, <1>10, <2>1
  <2> QED
    BY <2>2 DEF left, right
<1>11. CASE clip.start <= tick /\ tick < at
  <2>1. FrameAt(right, tempo, tick) = {}
    BY <1>6, <1>11
  <2>2. read >= Window(rest, whole) <=> read >= Window(rest, cut)
    BY <1>1, <1>7, <1>8, <1>9, <1>11, WindowsAgree
  <2>3. FrameAt(left, tempo, tick) = FrameAt(clip, tempo, tick)
    BY <1>4, <1>5, <2>2
  <2> QED
    BY <2>1, <2>3 DEF left, right
<1>12. CASE tick >= at
  <2>0. read \in Nat /\ read >= cut /\ (tick - at) * F = read - cut
    BY <1>1, <1>8, <1>12
  <2>1. read >= Window(rest, cut)
    BY <1>1, <1>7, <1>9, <2>0, WindowsAgree
  <2>2. FrameAt(left, tempo, tick) = {}
    BY <1>5, <2>1
  <2>3. /\ ~(tick < at) /\ ~(tick < clip.start)
        /\ right.offset * F + (tick - at) * F = from + read
    BY <1>1, <1>7, <1>12, <2>0
  <2>4. right.window * F = IF whole = 0 THEN 0 ELSE whole - cut
    <3>1. clip.window > part <=> whole # 0
      BY <1>1, <1>7, <1>9 DEF part
    <3> QED
      BY <1>1, <1>7, <3>1 DEF part
  <2>5. (tick - at) * F >= Window(Left(FileFrames - right.offset * F), right.window * F)
          <=> read >= Window(rest, whole)
    <3>0. /\ FileFrames \in Nat /\ from \in Nat /\ cut \in Nat \ {0} /\ whole \in Nat
          /\ read \in Nat /\ read >= cut /\ (whole = 0 \/ whole > cut)
      BY <1>1, <1>7, <1>9, <2>0
    <3>1. read - cut >= Window(Left(FileFrames - (from + cut)), IF whole = 0 THEN 0 ELSE whole - cut)
            <=> read >= Window(Left(FileFrames - from), whole)
      BY <3>0, WindowsAgree
    <3> QED
      BY <1>7, <2>0, <2>4, <3>1
  <2>6. FrameAt(right, tempo, tick) = FrameAt(clip, tempo, tick)
    BY <1>4, <1>6, <2>3, <2>5
  <2> QED
    BY <2>2, <2>6 DEF left, right
<1>13. tick \in Nat /\ at \in Nat /\ clip.start \in Nat
  BY <1>1
<1> QED
  BY <1>10, <1>11, <1>12, <1>13

(* Cutting a clip inside what it plays changes nothing that is heard.  The
   halves are the clip and the one that is new, whose ID was free; CutFrames is
   the rest. *)
LEMMA CutIsPlain ==
  ASSUME ClipInv, NEW c \in DOMAIN clips, NEW at \in Nat, Cuts(c, at), CutsPlainly(c, at)
  PROVE  SoundsTheSame(c)
<1> DEFINE whole == clips[c]
           some  == [clips EXCEPT ![c] = LeftHalf(@, at)]
           m     == Minted
<1>1. m \in ClipIds /\ m \notin DOMAIN clips
  BY DEF Cuts, clip_split, HasRoom, Minted
<1>2. clips' = WithClip(some, m, RightHalf(whole, at))
  BY DEF Cuts, clip_split
<1>3. /\ DOMAIN some = DOMAIN clips /\ some[c] = LeftHalf(whole, at) /\ whole \in ClipRecords
  BY DEF ClipInv
<1>4. at > whole.start /\ at < whole.start + whole.length
  BY DEF Cuts, clip_split
<1> HIDE DEF m, some
<1>5. DOMAIN clips' = DOMAIN clips \cup {m}
  BY <1>2, <1>3 DEF WithClip
<1>6. clips'[c] = LeftHalf(whole, at) /\ clips'[m] = RightHalf(whole, at)
  BY <1>1, <1>2, <1>3 DEF WithClip
<1>7. {c} \cup (DOMAIN clips' \ DOMAIN clips) = {c, m}
  BY <1>1, <1>5
<1>8. {clips'[d] : d \in {c} \cup (DOMAIN clips' \ DOMAIN clips)}
        = {LeftHalf(whole, at), RightHalf(whole, at)}
  BY <1>6, <1>7
<1>9. bpm \in ClipTempos /\ LastTick \in Nat
  BY AudioClipAssumption DEF ClipInv
<1>10. ~Stretched(whole) /\ ~whole.reversed /\ (whole.window > 0 => at < whole.start + whole.window)
  BY DEF CutsPlainly
<1>11. ASSUME NEW tick \in 0 .. LastTick
       PROVE  HeardFrom({LeftHalf(whole, at), RightHalf(whole, at)}, bpm, tick)
                = HeardFrom({whole}, bpm, tick)
  <2>1. tick \in Nat
    BY <1>9
  <2> HIDE DEF whole
  <2>2. FrameAt(LeftHalf(whole, at), bpm, tick) \cup FrameAt(RightHalf(whole, at), bpm, tick)
          = FrameAt(whole, bpm, tick)
    BY <1>3, <1>4, <1>9, <1>10, <2>1, CutFrames
  <2>3. /\ HeardFrom({whole}, bpm, tick) = FrameAt(whole, bpm, tick)
        /\ HeardFrom({LeftHalf(whole, at), RightHalf(whole, at)}, bpm, tick)
             = FrameAt(LeftHalf(whole, at), bpm, tick) \cup FrameAt(RightHalf(whole, at), bpm, tick)
    BY DEF HeardFrom
  <2> QED
    BY <2>2, <2>3
<1> QED
  BY <1>8, <1>11 DEF SoundsTheSame

(* Cutting a clip is not heard, whatever was done to it before
   (splitClip, model/commands.cpp), as long as it is neither
   stretched nor reversed and is cut before its window ends. *)
THEOREM CutIsInaudible == ClipSpec => CutIsInaudibleUnlessBent
<1>1. ASSUME ClipInv, NEW c \in DOMAIN clips, NEW at \in 1 .. LastTick
      PROVE  Cuts(c, at) /\ CutsPlainly(c, at) => SoundsTheSame(c)
  <2>1. at \in Nat
    BY AudioClipAssumption
  <2> QED
    BY <1>1, <2>1, CutIsPlain
<1>2. ClipInv => [\A c \in DOMAIN clips : \A at \in 1 .. LastTick :
                    Cuts(c, at) /\ CutsPlainly(c, at) => SoundsTheSame(c)]_clipVars
  BY <1>1
<1> QED
  BY <1>2, ClipInvHolds, PTL DEF CutIsInaudibleUnlessBent

-----------------------------------------------------------------------------
(* The voices of a stock instrument *)

Fields(one) ==
  [active |-> one.active, released |-> one.released, key |-> one.key, rendered |-> one.rendered]

\* Every one of the bank is one of the instrument's records.
BankInv ==
  /\ bank = [v \in 1..VoiceCount |-> bank[v]]
  /\ \A v \in 1..VoiceCount : bank[v] = Fields(bank[v])

\* A voice given away is one that is idle, or has been rendered.
LEMMA NoteOnSpares ==
  ASSUME BankInv, NEW key, NoteOn(key)
  PROVE  /\ BankInv'
         /\ \A v \in 1..VoiceCount : Held(bank[v]) /\ ~bank[v].rendered => bank'[v] = bank[v]
<1> DEFINE idle  == {v \in 1..VoiceCount : ~bank[v].active}
           given == Voice(Pitch(key))
<1>1. given = Fields(given)
  BY DEF Fields, Voice
<1>2. ASSUME NEW u \in 1..VoiceCount, bank' = [bank EXCEPT ![u] = given],
             ~bank[u].active \/ bank[u].rendered
      PROVE  /\ BankInv'
             /\ \A v \in 1..VoiceCount : Held(bank[v]) /\ ~bank[v].rendered => bank'[v] = bank[v]
  <2>1. /\ bank' = [v \in 1..VoiceCount |-> bank'[v]] /\ bank'[u] = given
        /\ \A v \in 1..VoiceCount : v # u => bank'[v] = bank[v]
    BY <1>2 DEF BankInv
  <2> HIDE DEF given
  <2>2. ASSUME NEW v \in 1..VoiceCount
        PROVE  bank'[v] = Fields(bank'[v])
    BY <1>1, <2>1 DEF BankInv
  <2> QED
    BY <1>2, <2>1, <2>2 DEF BankInv, Held
<1>3. CASE idle # {} /\ LET first == CHOOSE v \in idle : \A other \in idle : v <= other
                        IN  bank' = [bank EXCEPT ![first] = given]
  <2>1. \E v \in idle : \A other \in idle : v <= other
    <3>1. idle \in SUBSET Nat
      OBVIOUS
    <3> HIDE DEF idle
    <3> QED
      BY <1>3, <3>1, LeastMember
  <2>2. (CHOOSE v \in idle : \A other \in idle : v <= other) \in idle
    BY <2>1
  <2> QED
    BY <1>2, <1>3, <2>2
<1>4. CASE \E v \in Stealable : bank' = [bank EXCEPT ![v] = given]
  <2>1. \A v \in Stealable : v \in 1..VoiceCount /\ bank[v].rendered
    BY DEF Stealable
  <2> QED
    BY <1>2, <1>4, <2>1
<1>5. CASE UNCHANGED bank
  BY <1>5 DEF BankInv, Fields
<1> QED
  BY <1>3, <1>4, <1>5 DEF NoteOn

\* A release changes no key.
LEMMA ReleasesKeepKeys ==
  ASSUME BankInv, NEW key, bank' = Released(key)
  PROVE  BankInv' /\ \A v \in 1..VoiceCount : bank'[v].key = bank[v].key
<1>1. PICK ended : bank' = LetGoOf(ended)
  BY DEF Released
<1>2. ASSUME NEW v \in 1..VoiceCount
      PROVE  bank'[v] = Fields(bank'[v]) /\ bank'[v].key = bank[v].key
  <2>1. bank[v] = [active |-> bank[v].active, released |-> bank[v].released,
                   key |-> bank[v].key, rendered |-> bank[v].rendered]
    BY DEF BankInv, Fields
  <2>2. bank'[v] = bank[v] \/ bank'[v] = [bank[v] EXCEPT !.released = TRUE]
    BY <1>1 DEF LetGoOf
  <2> QED
    BY <2>1, <2>2 DEF Fields
<1> QED
  BY <1>1, <1>2 DEF BankInv, LetGoOf

LEMMA HandleSpares ==
  ASSUME BankInv, Handle
  PROVE  /\ BankInv'
         /\ \A v \in 1..VoiceCount : Held(bank[v]) /\ ~bank[v].rendered
                                       => bank'[v].key = bank[v].key
BY NoteOnSpares, ReleasesKeepKeys DEF Handle

LEMMA RenderKeepsBank ==
  ASSUME BankInv, NEW dead, Render(dead)
  PROVE  BankInv'
<1>1. ASSUME NEW v \in 1..VoiceCount
      PROVE  bank'[v] = Fields(bank'[v])
  <2>1. bank[v] = [active |-> bank[v].active, released |-> bank[v].released,
                   key |-> bank[v].key, rendered |-> bank[v].rendered]
    BY DEF BankInv, Fields
  <2>2. bank'[v] = Idle \/ bank'[v] = [bank[v] EXCEPT !.rendered = bank[v].active]
    BY DEF Render
  <2> QED
    BY <2>1, <2>2 DEF Fields, Idle
<1> QED
  BY <1>1 DEF BankInv, Render

LEMMA BankInvHolds == StockSpec => []BankInv
<1>1. StockInit => BankInv
  BY DEF StockInit, BankInv, Fields, Idle
<1>2. BankInv /\ [StockNext]_stockVars => BankInv'
  <2> SUFFICES ASSUME BankInv, [StockNext]_stockVars
               PROVE  BankInv'
    OBVIOUS
  <2>1. CASE Handle
    BY <2>1, HandleSpares
  <2>2. CASE \E dead \in SUBSET Mortal : Render(dead)
    BY <2>2, RenderKeepsBank
  <2>3. CASE UNCHANGED bank
    BY <2>3 DEF BankInv, Fields
  <2>4. BeginChunk \/ (\E key \in PlayedKeys : Press(key) \/ LetGo(key)) \/ Panic \/ Select
          \/ UNCHANGED stockVars => UNCHANGED bank
    BY DEF BeginChunk, Press, LetGo, Panic, Select, Type, stockVars
  <2> QED
    BY <2>1, <2>2, <2>3, <2>4 DEF StockNext
<1> QED
  BY <1>1, <1>2, PTL DEF StockSpec

(* The notes of a chord keep their voices, however many voices the instrument
   has and whatever came before: noteOn() of piano_engine.cpp, guitar_engine.cpp
   and synth_engine.cpp gives away no voice that has not been rendered. *)
THEOREM ChordIsWhole == StockSpec => ChordKeepsItsVoices
<1>1. BankInv => [Handle => \A v \in 1..VoiceCount :
                    Held(bank[v]) /\ ~bank[v].rendered => bank'[v].key = bank[v].key]_stockVars
  BY HandleSpares
<1> QED
  BY <1>1, BankInvHolds, PTL DEF ChordKeepsItsVoices

-----------------------------------------------------------------------------
(* What is held is wanted.  The events still to come answer for what is not:
   a voice nobody wants any more has its end, or "all notes off", on the way to
   it; a note on the way is wanted, or has its end behind it. *)

EventKeys == PlayedKeys \cup {AnyKey}
Notes == {note \in [type : {"on", "off"}, key : EventKeys, time : 0..(ChunkFrames - 1)] :
            note.type = "on" => note.key # AnyKey}

QueueTypes ==
  /\ kind \in Kinds
  /\ typed \in Seq(Notes) /\ chunk \in Seq(Notes)
  /\ score \subseteq PlayedKeys /\ pressed \subseteq PlayedKeys
  /\ frame \in 0..ChunkFrames
  /\ frame = ChunkFrames => chunk = <<>>

PitchOn(instrument, key) ==
  IF instrument = "lowkey" THEN (IF key > 12 THEN key - 12 ELSE 0) ELSE key

Ends(events, i, key) == events[i].type = "off" /\ events[i].key = key
EndsAfter(events, i, key) == \E j \in DOMAIN events : i < j /\ Ends(events, j, key)
EndComes(events, pitch) ==
  \E i \in DOMAIN events, key \in PlayedKeys : Ends(events, i, key) /\ PitchOn(kind, key) = pitch
PanicComes == \E i \in DOMAIN chunk : Ends(chunk, i, AnyKey)
Wanted(pitch) == \E key \in score \cup pressed : PitchOn(kind, key) = pitch

Due(pitch) ==
  \/ pitch \in unheard \/ Wanted(pitch)
  \/ EndComes(chunk, pitch) \/ EndComes(typed, pitch) \/ PanicComes

VoicesDue == \A v \in 1..VoiceCount : Held(bank[v]) => Due(bank[v].key)

ChunkDue ==
  \A i \in DOMAIN chunk : chunk[i].type = "on" =>
    \/ PitchOn(kind, chunk[i].key) \in unheard
    \/ chunk[i].key \in score \cup pressed
    \/ EndsAfter(chunk, i, chunk[i].key) \/ EndsAfter(typed, 0, chunk[i].key)

TypedDue ==
  \A i \in DOMAIN typed : typed[i].type = "on" =>
    typed[i].key \in pressed \/ EndsAfter(typed, i, typed[i].key)

DueInv == BankInv /\ QueueTypes /\ VoicesDue /\ ChunkDue /\ TypedDue

\* The events of a chunk that is not empty, behind the first.
LEMMA TailEvents ==
  ASSUME NEW events \in Seq(Notes), events # <<>>
  PROVE  /\ Tail(events) \in Seq(Notes) /\ 1 \in DOMAIN events
         /\ Head(events) = events[1] /\ events[1] \in Notes
         /\ \A i \in DOMAIN Tail(events) :
              i \in Nat /\ i + 1 \in DOMAIN events /\ Tail(events)[i] = events[i + 1]
         /\ \A i \in DOMAIN events :
              i \in Nat /\ i >= 1
              /\ (i # 1 => i - 1 \in DOMAIN Tail(events) /\ Tail(events)[i - 1] = events[i])
OBVIOUS

LEMMA AppendEvents ==
  ASSUME NEW events \in Seq(Notes), NEW event \in Notes
  PROVE  LET longer == Append(events, event)
             n      == Len(events) + 1
         IN  /\ longer \in Seq(Notes) /\ n \in DOMAIN longer /\ longer[n] = event
             /\ \A i \in DOMAIN events : i \in DOMAIN longer /\ longer[i] = events[i] /\ i < n
             /\ \A i \in DOMAIN longer : i = n \/ i \in DOMAIN events
             /\ 0 < n
OBVIOUS

LEMMA JoinedEvents ==
  ASSUME NEW first \in Seq(Notes), NEW second \in Seq(Notes)
  PROVE  LET both == first \o second
             n    == Len(first)
         IN  /\ both \in Seq(Notes) /\ n \in Nat
             /\ \A i \in DOMAIN first : i \in Nat /\ i \in DOMAIN both /\ both[i] = first[i]
             /\ \A i \in DOMAIN second : i \in Nat /\ n + i \in DOMAIN both /\ both[n + i] = second[i]
             /\ \A i \in DOMAIN both : i \in DOMAIN first \/ (i - n \in DOMAIN second /\ i > n)
             /\ \A i \in DOMAIN first : i <= n
<1> DEFINE both == first \o second
           n    == Len(first)
<1>1. /\ both \in Seq(Notes) /\ n \in Nat /\ Len(second) \in Nat /\ Len(both) = n + Len(second)
      /\ DOMAIN first = 1..n /\ DOMAIN second = 1..Len(second) /\ DOMAIN both = 1..Len(both)
  OBVIOUS
<1>2. \A i \in 1..Len(both) : both[i] = IF i <= n THEN first[i] ELSE second[i - n]
  OBVIOUS
<1> HIDE DEF both, n
<1>3. ASSUME NEW i \in 1..Len(second)
      PROVE  n + i \in 1..Len(both) /\ both[n + i] = second[i]
  <2>1. n + i \in 1..Len(both) /\ ~(n + i <= n) /\ (n + i) - n = i
    BY <1>1
  <2> QED
    BY <1>2, <2>1
<1>4. ASSUME NEW i \in 1..n
      PROVE  i \in 1..Len(both) /\ both[i] = first[i]
  BY <1>1, <1>2
<1>5. ASSUME NEW i \in 1..Len(both)
      PROVE  i \in 1..n \/ (i - n \in 1..Len(second) /\ i > n)
  BY <1>1
<1>6. /\ \A i \in DOMAIN first : i \in Nat /\ i <= n
      /\ \A i \in DOMAIN second : i \in Nat
  BY <1>1
<1> QED
  BY <1>1, <1>3, <1>4, <1>5, <1>6 DEF both, n

\* A set of positions has a last one.
LEMMA LastTurn ==
  ASSUME NEW n \in Nat, NEW S \in SUBSET (1..n), S # {}
  PROVE  \E x \in S : \A y \in S : y <= x
<1>1. {n - y : y \in S} \in SUBSET Nat /\ {n - y : y \in S} # {}
  <2>1. \A y \in S : n - y \in Nat
    OBVIOUS
  <2>2. PICK y \in S : TRUE
    OBVIOUS
  <2>3. n - y \in {n - x : x \in S}
    BY <2>2
  <2> QED
    BY <2>1, <2>3
<1>2. PICK least \in {n - y : y \in S} : \A other \in {n - y : y \in S} : least <= other
  BY <1>1, LeastMember
<1>3. PICK x \in S : least = n - x
  BY <1>2
<1>4. ASSUME NEW y \in S
      PROVE  y <= x
  <2>1. n - x <= n - y
    BY <1>2, <1>3
  <2> QED
    BY <2>1
<1> QED
  BY <1>4

\* The last the schedule says of a key: to go on, or its end.
LEMMA LastWord ==
  ASSUME NEW events \in Seq(Notes), NEW sounding, NEW key \in PlayedKeys,
         key \notin Afterwards(events, sounding)
  PROVE  /\ key \in sounding => EndsAfter(events, 0, key)
         /\ \A i \in DOMAIN events : events[i].type = "on" /\ events[i].key = key
                                       => EndsAfter(events, i, key)
<1> DEFINE turns == {i \in DOMAIN events : events[i].key = key}
<1>1. turns = {} => key \notin sounding
  BY DEF Afterwards
<1>2. ASSUME turns # {}
      PROVE  \E last \in turns : (\A i \in turns : i <= last) /\ events[last].type = "off" /\ last > 0
  <2>1. turns \in SUBSET (1..Len(events)) /\ Len(events) \in Nat
    OBVIOUS
  <2> HIDE DEF turns
  <2>2. PICK last \in turns : \A i \in turns : i <= last
    BY <1>2, <2>1, LastTurn
  <2> USE DEF turns
  <2>3. events[last].type # "on"
    BY <1>2, <2>2 DEF Afterwards
  <2>4. events[last] \in Notes /\ last > 0
    BY <2>1
  <2> QED
    BY <2>2, <2>3, <2>4 DEF Notes
<1>3. ASSUME key \in sounding
      PROVE  EndsAfter(events, 0, key)
  BY <1>1, <1>2, <1>3 DEF EndsAfter, Ends
<1>4. ASSUME NEW i \in DOMAIN events, events[i].type = "on", events[i].key = key
      PROVE  EndsAfter(events, i, key)
  <2>1. i \in turns
    BY <1>4
  <2>2. PICK last \in turns : (\A j \in turns : j <= last) /\ events[last].type = "off" /\ last > 0
    BY <1>2, <2>1
  <2>3. i <= last /\ i # last
    BY <1>4, <2>1, <2>2
  <2>4. i < last
    BY <2>3
  <2> QED
    BY <2>2, <2>4 DEF EndsAfter, Ends
<1> QED
  BY <1>3, <1>4

LEMMA StockConstants ==
  /\ Kinds \subseteq {"piano", "guitar", "lowkey", "synth"}
  /\ PlayedKeys \subseteq 0..127 /\ AnyKey \notin PlayedKeys
  /\ VoiceCount \in Nat \ {0} /\ ChunkFrames \in Nat \ {0} /\ ListRoom \in Nat \ {0}
<1>1. AnyKey \notin 0..127
  BY DEF AnyKey
<1> QED
  BY <1>1, StockVoicesAssumption

LEMMA PitchIs == \A key : Pitch(key) = PitchOn(kind, key)
BY DEF Pitch, PitchOn

\* The end of a note reaches every voice of its pitch.
LEMMA EndIsHeard ==
  ASSUME BankInv, kind \in Kinds, NEW key \in PlayedKeys, bank' = Released(key)
  PROVE  \A v \in 1..VoiceCount : Held(bank'[v]) =>
           Held(bank[v]) /\ bank'[v].key = bank[v].key /\ bank[v].key # PitchOn(kind, key)
<1> DEFINE matched == {v \in 1..VoiceCount : Matches(bank[v], key)}
<1>1. PICK ended : bank' = LetGoOf(ended) /\ matched \subseteq ended
  <2>1. matched \subseteq 1..VoiceCount
    OBVIOUS
  <2> QED
    BY <2>1 DEF Released
<1> SUFFICES ASSUME NEW v \in 1..VoiceCount, Held(bank'[v])
             PROVE  Held(bank[v]) /\ bank'[v].key = bank[v].key /\ bank[v].key # PitchOn(kind, key)
  OBVIOUS
<1>2. bank[v] = [active |-> bank[v].active, released |-> bank[v].released,
                 key |-> bank[v].key, rendered |-> bank[v].rendered]
  BY DEF BankInv, Fields
<1>3. bank'[v] = IF v \in ended /\ bank[v].active THEN [bank[v] EXCEPT !.released = TRUE] ELSE bank[v]
  BY <1>1 DEF LetGoOf
<1>4. ~(v \in ended /\ bank[v].active) /\ bank'[v] = bank[v]
  BY <1>2, <1>3 DEF Held
<1>5. bank[v].active
  BY <1>4 DEF Held
<1>6. ~Matches(bank[v], key)
  BY <1>1, <1>4, <1>5
<1>7. bank[v].key # PitchOn(kind, key)
  BY <1>5, <1>6, StockConstants
     DEF Matches, MatchesLoosely, MatchesExactly, Pitch, PitchOn
<1> QED
  BY <1>4, <1>7

\* A note that begins changes no voice but the one it takes.
LEMMA NoteOnTakes ==
  ASSUME BankInv, NEW key, NoteOn(key)
  PROVE  \A v \in 1..VoiceCount : bank'[v] = bank[v] \/ bank'[v].key = PitchOn(kind, key)
<1> DEFINE given == Voice(Pitch(key))
<1>1. given.key = PitchOn(kind, key)
  BY PitchIs DEF Voice
<1>2. ASSUME NEW u, bank' = [bank EXCEPT ![u] = given]
      PROVE  \A v \in 1..VoiceCount : bank'[v] = bank[v] \/ bank'[v] = given
  BY <1>2 DEF BankInv
<1>3. \/ \E u : bank' = [bank EXCEPT ![u] = given]
      \/ bank' = bank
  BY DEF NoteOn
<1> QED
  BY <1>1, <1>2, <1>3

LEMMA VoicesAreDue ==
  ASSUME \A v \in 1..VoiceCount : Held(bank'[v]) => \E pitch : pitch = bank'[v].key /\ Due(pitch)'
  PROVE  VoicesDue'
BY DEF VoicesDue, Held

\* The chunk goes on to its next event.
LEMMA HandleDue ==
  ASSUME DueInv, Handle
  PROVE  DueInv'
<1> USE DEF DueInv
<1> DEFINE event == Head(chunk)
<1>1. /\ chunk # <<>> /\ chunk' = Tail(chunk) /\ event = chunk[1] /\ event \in Notes
      /\ event.time = frame
      /\ UNCHANGED <<kind, typed, frame, score, pressed>>
  BY TailEvents DEF Handle, QueueTypes
<1>2. \/ event.type = "on" /\ NoteOn(event.key) /\ unheard' = unheard
      \/ /\ event.type = "off" /\ bank' = Released(event.key)
         /\ unheard' = IF event.key = AnyKey THEN unheard \cup (HeldKeys)' ELSE unheard
  BY DEF Handle
<1>3. /\ event.type \in {"on", "off"} /\ event.key \in EventKeys
      /\ event.type = "on" => event.key \in PlayedKeys
      /\ event.time \in 0..(ChunkFrames - 1)
  BY <1>1 DEF Notes, EventKeys
<1>4. /\ chunk' \in Seq(Notes)
      /\ \A i \in DOMAIN chunk' : i \in Nat /\ i + 1 \in DOMAIN chunk /\ chunk'[i] = chunk[i + 1]
      /\ \A i \in DOMAIN chunk : i \in Nat /\ i >= 1
              /\ (i # 1 => i - 1 \in DOMAIN chunk' /\ chunk'[i - 1] = chunk[i])
  BY <1>1, TailEvents DEF QueueTypes
<1>5. BankInv'
  BY HandleSpares
<1>6. QueueTypes'
  BY <1>1, <1>3, <1>4, StockConstants DEF QueueTypes
<1> HIDE DEF event
<1>7. unheard \subseteq unheard'
  BY <1>2, <1>3
\* What was on its way still is, but for the event itself.
<1>8. ASSUME NEW pitch, Due(pitch)
      PROVE  Due(pitch)' \/ \E key \in EventKeys : Ends(chunk, 1, key)
                                  /\ (key # AnyKey => PitchOn(kind, key) = pitch)
  <2>1. CASE pitch \in unheard \/ Wanted(pitch) \/ EndComes(typed, pitch)
    BY <1>1, <1>7, <2>1 DEF Due, Wanted, EndComes, Ends
  <2>2. ASSUME NEW i \in DOMAIN chunk, NEW key \in EventKeys, Ends(chunk, i, key), i # 1
        PROVE  i - 1 \in DOMAIN chunk' /\ Ends(chunk, i - 1, key)'
    BY <1>4, <2>2 DEF Ends
  <2>3. CASE EndComes(chunk, pitch)
    BY <1>1, <2>2, <2>3, StockConstants DEF Due, EndComes, EventKeys
  <2>4. CASE PanicComes
    BY <2>2, <2>4 DEF Due, PanicComes, EventKeys
  <2> QED
    BY <1>8, <2>1, <2>3, <2>4 DEF Due
<1>9. ASSUME NEW pitch, Due(pitch), event.type = "on" \/ (event.key \in PlayedKeys /\ pitch # PitchOn(kind, event.key))
      PROVE  Due(pitch)'
  BY <1>1, <1>8, <1>9, StockConstants DEF Ends, EventKeys
<1>10. ASSUME NEW v \in 1..VoiceCount, Held(bank'[v])
       PROVE  \E pitch : pitch = bank'[v].key /\ Due(pitch)'
  <2>1. CASE event.type = "off" /\ event.key = AnyKey
    <3>1. bank'[v].key \in unheard'
      BY <1>2, <1>10, <2>1 DEF HeldKeys, Held
    <3> QED
      BY <3>1 DEF Due
  <2>2. CASE event.type = "off" /\ event.key \in PlayedKeys
    <3>1. Held(bank[v]) /\ bank'[v].key = bank[v].key /\ bank[v].key # PitchOn(kind, event.key)
      BY <1>2, <1>10, <2>2, EndIsHeard DEF QueueTypes
    <3>2. Due(bank[v].key)
      BY <3>1 DEF VoicesDue
    <3> QED
      BY <1>9, <2>2, <3>1, <3>2
  <2>3. CASE event.type = "on" /\ bank'[v] = bank[v]
    <3>1. PICK pitch : pitch = bank[v].key
      OBVIOUS
    <3>2. Held(bank[v])
      BY <1>10, <2>3
    <3>3. Due(pitch)
      BY <3>1, <3>2 DEF VoicesDue
    <3>0. event.type = "on" \/ (event.key \in PlayedKeys /\ pitch # PitchOn(kind, event.key))
      BY <2>3
    <3>4. Due(pitch)'
      BY <1>9, <3>3, <3>0
    <3> QED
      BY <2>3, <3>1, <3>4
  <2>4. CASE event.type = "on" /\ bank'[v].key = PitchOn(kind, event.key)
    <3>1. PICK key, pitch : key = event.key /\ pitch = PitchOn(kind, key)
      OBVIOUS
    <3> SUFFICES Due(pitch)'
      BY <2>4, <3>1
    <3>2. 1 \in DOMAIN chunk
      BY <1>1, TailEvents DEF QueueTypes
    <3>3. \/ pitch \in unheard \/ key \in score \cup pressed
          \/ EndsAfter(chunk, 1, key) \/ EndsAfter(typed, 0, key)
      BY <1>1, <2>4, <3>1, <3>2 DEF ChunkDue
    <3>4. key \in PlayedKeys
      BY <1>3, <2>4, <3>1
    <3>5. CASE EndsAfter(chunk, 1, key)
      <4>1. PICK j \in DOMAIN chunk : 1 < j /\ Ends(chunk, j, key)
        BY <3>5 DEF EndsAfter
      <4>2. j - 1 \in DOMAIN chunk' /\ chunk'[j - 1] = chunk[j]
        BY <1>4, <4>1
      <4> QED
        BY <1>1, <3>1, <3>4, <4>1, <4>2 DEF Due, EndComes, Ends
    <3>6. CASE pitch \in unheard
      BY <1>7, <3>6 DEF Due
    <3>7. CASE key \in score \cup pressed
      BY <1>1, <3>1, <3>7 DEF Due, Wanted
    <3>8. CASE EndsAfter(typed, 0, key)
      BY <1>1, <3>1, <3>4, <3>8 DEF Due, EndComes, EndsAfter, Ends
    <3> QED
      BY <3>3, <3>5, <3>6, <3>7, <3>8
  <2> QED
    BY <1>2, <1>3, <2>1, <2>2, <2>3, <2>4, NoteOnTakes DEF EventKeys
<1>11. VoicesDue'
  BY <1>10, VoicesAreDue
<1>12. ChunkDue'
  <2>1. ASSUME NEW i \in DOMAIN chunk', chunk'[i].type = "on", NEW key, key = chunk'[i].key
        PROVE  \/ PitchOn(kind, key)' \in unheard' \/ key \in score' \cup pressed'
               \/ EndsAfter(chunk', i, key) \/ EndsAfter(typed', 0, key)
    <3>1. i + 1 \in DOMAIN chunk /\ chunk[i + 1].type = "on" /\ chunk[i + 1].key = key
      BY <1>4, <2>1
    <3>2. \/ PitchOn(kind, key) \in unheard \/ key \in score \cup pressed
          \/ EndsAfter(chunk, i + 1, key) \/ EndsAfter(typed, 0, key)
      BY <3>1 DEF ChunkDue
    <3>3. CASE EndsAfter(chunk, i + 1, key)
      <4>1. PICK j \in DOMAIN chunk : i + 1 < j /\ Ends(chunk, j, key)
        BY <3>3 DEF EndsAfter
      <4>2. i \in Nat /\ j \in Nat /\ j # 1
        BY <1>4, <4>1
      <4>3. j - 1 \in DOMAIN chunk' /\ chunk'[j - 1] = chunk[j] /\ i < j - 1
        BY <1>4, <4>1, <4>2
      <4> QED
        BY <4>1, <4>3 DEF EndsAfter, Ends
    <3> QED
      BY <1>1, <1>7, <3>2, <3>3
  <2> QED
    BY <2>1 DEF ChunkDue, EndsAfter, Ends
<1>13. TypedDue'
  BY <1>1 DEF TypedDue, EndsAfter, Ends
<1> QED
  BY <1>5, <1>6, <1>11, <1>12, <1>13

\* render() gives no voice another note, and forgets no release that is missed.
LEMMA RenderDue ==
  ASSUME DueInv, NEW dead, Render(dead)
  PROVE  DueInv'
<1> USE DEF DueInv
<1>1. /\ UNCHANGED <<kind, typed, chunk, score, pressed>>
      /\ frame' = IF chunk = <<>> THEN ChunkFrames ELSE Head(chunk).time
      /\ unheard' = IF chunk = <<>> THEN unheard \cap (HeldKeys)' ELSE unheard
  BY DEF Render
<1>2. ASSUME NEW v \in 1..VoiceCount, Held(bank'[v])
      PROVE  Held(bank[v]) /\ bank'[v].key = bank[v].key
  <2>1. bank[v] = [active |-> bank[v].active, released |-> bank[v].released,
                   key |-> bank[v].key, rendered |-> bank[v].rendered]
    BY DEF BankInv, Fields
  <2>2. bank'[v] = Idle \/ bank'[v] = [bank[v] EXCEPT !.rendered = bank[v].active]
    BY DEF Render
  <2> QED
    BY <1>2, <2>1, <2>2 DEF Held, Idle
<1>3. BankInv'
  BY RenderKeepsBank
<1>4. QueueTypes'
  <2>1. ASSUME chunk # <<>>
        PROVE  Head(chunk).time \in 0..(ChunkFrames - 1)
    <3>1. Head(chunk) \in Notes
      BY <2>1, TailEvents DEF QueueTypes
    <3> QED
      BY <3>1 DEF Notes
  <2> QED
    BY <1>1, <2>1, StockConstants DEF QueueTypes
<1>5. VoicesDue'
  <2>1. ASSUME NEW v \in 1..VoiceCount, Held(bank'[v])
        PROVE  \E pitch : pitch = bank'[v].key /\ Due(pitch)'
    <3>1. PICK pitch : pitch = bank[v].key
      OBVIOUS
    <3>2. Due(pitch) /\ pitch = bank'[v].key
      BY <1>2, <2>1, <3>1 DEF VoicesDue
    <3>3. pitch \in (HeldKeys)'
      BY <2>1, <3>2 DEF HeldKeys, Held
    <3>4. CASE pitch \in unheard
      <4>1. pitch \in unheard'
        BY <1>1, <3>3, <3>4
      <4> QED
        BY <3>2, <4>1 DEF Due
    <3>5. CASE Wanted(pitch) \/ EndComes(chunk, pitch) \/ EndComes(typed, pitch) \/ PanicComes
      <4>1. Due(pitch)'
        BY <1>1, <3>5 DEF Due, Wanted, EndComes, Ends, PanicComes
      <4> QED
        BY <3>2, <4>1
    <3> QED
      BY <3>2, <3>4, <3>5 DEF Due
  <2> QED
    BY <2>1, VoicesAreDue
<1>6. ChunkDue'
  <2>1. CASE chunk = <<>>
    BY <1>1, <2>1 DEF ChunkDue
  <2>2. CASE chunk # <<>>
    BY <1>1, <2>2 DEF ChunkDue, EndsAfter, Ends
  <2> QED
    BY <2>1, <2>2
<1>7. TypedDue'
  BY <1>1 DEF TypedDue, EndsAfter, Ends
<1> QED
  BY <1>3, <1>4, <1>5, <1>6, <1>7

\* A key that is let go of has its end among what is typed.
LEMMA TypeDue ==
  ASSUME DueInv, NEW event \in Notes, Type(event), pressed' \subseteq PlayedKeys,
         event.type = "on" => event.key \in pressed',
         pressed \subseteq pressed'
           \/ (event.type = "off" /\ event.key \in PlayedKeys /\ pressed \subseteq pressed' \cup {event.key})
  PROVE  DueInv'
<1> USE DEF DueInv
<1> DEFINE n == Len(typed) + 1
<1>1. typed' = Append(typed, event) /\ UNCHANGED <<kind, bank, chunk, frame, score, unheard>>
  BY DEF Type
<1>2. /\ typed' \in Seq(Notes) /\ n \in DOMAIN typed' /\ typed'[n] = event
      /\ \A i \in DOMAIN typed : i \in DOMAIN typed' /\ typed'[i] = typed[i] /\ i < n
      /\ \A i \in DOMAIN typed' : i = n \/ i \in DOMAIN typed
      /\ 0 < n
  BY <1>1, AppendEvents DEF QueueTypes
<1> HIDE DEF n
\* A key that was down is down, or its end has just been typed.
<1>3. ASSUME NEW key \in pressed, key \notin pressed'
      PROVE  key \in PlayedKeys /\ Ends(typed', n, key)
  BY <1>2, <1>3 DEF Ends
<1>4. QueueTypes'
  BY <1>1, <1>2 DEF QueueTypes
<1>5. BankInv'
  BY <1>1 DEF BankInv, Fields
<1>6. ASSUME NEW i, NEW key, EndsAfter(typed, i, key)
      PROVE  EndsAfter(typed', i, key)
  BY <1>2, <1>6 DEF EndsAfter, Ends
<1>7. ASSUME NEW pitch, Due(pitch)
      PROVE  Due(pitch)'
  <2>1. CASE pitch \in unheard \/ EndComes(chunk, pitch) \/ PanicComes
    BY <1>1, <2>1 DEF Due, EndComes, Ends, PanicComes
  <2>2. CASE EndComes(typed, pitch)
    BY <1>1, <1>2, <2>2 DEF Due, EndComes, Ends
  <2>3. CASE Wanted(pitch)
    <3>1. PICK key \in score \cup pressed : PitchOn(kind, key) = pitch
      BY <2>3 DEF Wanted
    <3>2. CASE key \in score' \cup pressed'
      BY <1>1, <3>1, <3>2 DEF Due, Wanted
    <3>3. CASE key \notin score' \cup pressed'
      BY <1>1, <1>2, <1>3, <3>1, <3>3 DEF Due, EndComes, Ends
    <3> QED
      BY <3>2, <3>3
  <2> QED
    BY <1>7, <2>1, <2>2, <2>3 DEF Due
<1>8. VoicesDue'
  <2>1. ASSUME NEW v \in 1..VoiceCount, Held(bank'[v])
        PROVE  \E pitch : pitch = bank'[v].key /\ Due(pitch)'
    <3>1. PICK pitch : pitch = bank[v].key
      OBVIOUS
    <3>2. Due(pitch) /\ pitch = bank'[v].key
      BY <1>1, <2>1, <3>1 DEF VoicesDue
    <3> QED
      BY <1>7, <3>2
  <2> QED
    BY <2>1, VoicesAreDue
<1>9. ChunkDue'
  <2>1. ASSUME NEW i \in DOMAIN chunk, chunk[i].type = "on", NEW key, key = chunk[i].key
        PROVE  \/ PitchOn(kind, key) \in unheard \/ key \in score \cup pressed'
               \/ EndsAfter(chunk, i, key) \/ EndsAfter(typed', 0, key)
    <3>1. \/ PitchOn(kind, key) \in unheard \/ key \in score \cup pressed
          \/ EndsAfter(chunk, i, key) \/ EndsAfter(typed, 0, key)
      BY <2>1 DEF ChunkDue
    <3>2. ASSUME key \in pressed, key \notin pressed'
          PROVE  EndsAfter(typed', 0, key)
      BY <1>2, <1>3, <3>2 DEF EndsAfter
    <3> QED
      BY <1>6, <3>1, <3>2
  <2> QED
    BY <1>1, <2>1 DEF ChunkDue, EndsAfter, Ends
<1>10. TypedDue'
  <2>1. ASSUME NEW i \in DOMAIN typed', typed'[i].type = "on", NEW key, key = typed'[i].key
        PROVE  key \in pressed' \/ EndsAfter(typed', i, key)
    <3>1. CASE i = n
      BY <1>2, <2>1, <3>1
    <3>2. CASE i \in DOMAIN typed
      <4>1. key \in pressed \/ EndsAfter(typed, i, key)
        BY <1>2, <2>1, <3>2 DEF TypedDue
      <4>2. ASSUME key \in pressed, key \notin pressed'
            PROVE  EndsAfter(typed', i, key)
        BY <1>2, <1>3, <3>2, <4>2 DEF EndsAfter
      <4> QED
        BY <1>6, <4>1, <4>2
    <3> QED
      BY <1>2, <3>1, <3>2
  <2> QED
    BY <2>1 DEF TypedDue, EndsAfter, Ends
<1> QED
  BY <1>4, <1>5, <1>8, <1>9, <1>10

\* What the engine takes of the commands: notes of this channel if it is the one
\* that is played, and no note that begins otherwise.
LEMMA OwnCommandsAre ==
  ASSUME QueueTypes
  PROVE  /\ OwnCommands \in Seq(Notes)
         /\ auditioned => OwnCommands = typed
         /\ ~auditioned => \A i \in DOMAIN OwnCommands : OwnCommands[i].type # "on"
<1>1. AllNotesOff \in Notes /\ AllNotesOff.type = "off"
  BY StockConstants DEF AllNotesOff, Note, Notes, EventKeys
<1>2. Cardinality({j \in DOMAIN typed : typed[j].key = AnyKey}) \in Nat
  <2>1. DOMAIN typed = 1..Len(typed) /\ Len(typed) \in Nat
    BY DEF QueueTypes
  <2>2. IsFiniteSet(1..Len(typed))
    BY <2>1, FS_Interval
  <2>3. IsFiniteSet({j \in DOMAIN typed : typed[j].key = AnyKey})
    BY <2>1, <2>2, FS_Subset
  <2> QED
    BY <2>3, FS_CardinalityType
<1> DEFINE n == Cardinality({j \in DOMAIN typed : typed[j].key = AnyKey})
<1>3. n \in Nat
  BY <1>2
<1>4. OwnCommands = IF auditioned THEN typed ELSE [i \in 1..n |-> AllNotesOff]
  BY DEF OwnCommands
<1> HIDE DEF n
<1> QED
  BY <1>1, <1>3, <1>4 DEF QueueTypes

\* The ends of a chunk reach the list, or are missed and recorded.
LEMMA BeginDue ==
  ASSUME DueInv, BeginChunk
  PROVE  DueInv'
<1> USE DEF DueInv
<1>1. /\ chunk = <<>> /\ typed' = <<>> /\ frame' = 0
      /\ UNCHANGED <<kind, bank, auditioned, pressed>>
  BY DEF BeginChunk
<1>2. PICK jump \in BOOLEAN, events \in Scores :
        LET sounding == IF jump THEN {} ELSE score
            pushed   == (IF jump THEN <<AllNotesOff>> ELSE <<>>) \o OwnCommands \o events
            room     == IF Len(pushed) > ListRoom THEN ListRoom ELSE Len(pushed)
            lost     == {pushed[i] : i \in (room + 1)..Len(pushed)}
            unsaid   == lost \cup (IF auditioned THEN {} ELSE Range(typed))
            offs     == {event \in unsaid : event.type = "off" /\ event.key # AnyKey}
            panics   == {event \in lost : event.key = AnyKey}
        IN  /\ chunk' = SubSeq(pushed, 1, room)
            /\ score' = Afterwards(events, sounding)
            /\ unheard' = unheard \cup {Pitch(event.key) : event \in offs}
                                  \cup (IF panics = {} THEN {} ELSE HeldKeys)
  BY Zenon DEF BeginChunk
<1> DEFINE sounding == IF jump THEN {} ELSE score
           release  == IF jump THEN <<AllNotesOff>> ELSE <<>>
           queued   == release \o OwnCommands
           pushed   == queued \o events
           room     == IF Len(pushed) > ListRoom THEN ListRoom ELSE Len(pushed)
           lost     == {pushed[i] : i \in (room + 1)..Len(pushed)}
           unsaid   == lost \cup (IF auditioned THEN {} ELSE Range(typed))
           offs     == {event \in unsaid : event.type = "off" /\ event.key # AnyKey}
<1>3. AllNotesOff \in Notes /\ AllNotesOff.type = "off" /\ AllNotesOff.key = AnyKey
  BY StockConstants DEF AllNotesOff, Note, Notes, EventKeys
<1>4. events \in Seq(Notes)
  <2>1. ChunkEvents \subseteq Notes
    BY StockConstants DEF ChunkEvents, Notes, EventKeys
  <2>2. PICK n \in 0..ScoreLength : events \in [1..n -> ChunkEvents]
    BY DEF Scores
  <2>3. n \in Nat
    BY <2>2
  <2> QED
    BY <2>1, <2>2, <2>3
<1>5. release \in Seq(Notes) /\ OwnCommands \in Seq(Notes)
  BY <1>3, OwnCommandsAre
<1>6. queued \in Seq(Notes)
  BY <1>5, JoinedEvents
<1>7. pushed \in Seq(Notes)
  BY <1>4, <1>6, JoinedEvents
<1>8. /\ room \in Nat /\ room <= Len(pushed) /\ Len(pushed) \in Nat
      /\ Len(pushed) >= 1 => room >= 1
      /\ DOMAIN pushed = 1..Len(pushed)
  BY <1>7, StockConstants
<1> HIDE DEF room, pushed, queued, release
<1>9. /\ chunk' \in Seq(Notes) /\ DOMAIN chunk' = 1..room
      /\ \A i \in 1..room : chunk'[i] = pushed[i]
  <2>1. chunk' = SubSeq(pushed, 1, room)
    BY <1>2 DEF pushed, queued, release, room
  <2> QED
    BY <1>7, <1>8, <2>1
<1>10. /\ score' = Afterwards(events, sounding) /\ unheard \subseteq unheard'
       /\ {Pitch(event.key) : event \in offs} \subseteq unheard'
  BY <1>2 DEF pushed, queued, release, room
<1>11. ASSUME NEW i \in DOMAIN pushed, NEW key \in PlayedKeys, Ends(pushed, i, key)
       PROVE  (i \in DOMAIN chunk' /\ Ends(chunk', i, key)) \/ PitchOn(kind, key) \in unheard'
  <2>1. CASE i <= room
    BY <1>8, <1>9, <1>11, <2>1 DEF Ends
  <2>2. CASE i > room
    <3>1. pushed[i] \in lost
      BY <1>8, <2>2
    <3>2. pushed[i] \in offs
      BY <1>11, <3>1, StockConstants DEF Ends
    <3> QED
      BY <1>10, <1>11, <3>2, PitchIs DEF Ends
  <2> QED
    BY <1>8, <2>1, <2>2
\* Where the commands and the events of the schedule are among what is pushed.
<1>12. /\ \A i \in DOMAIN typed : auditioned =>
            /\ i \in Nat /\ Len(release) + i \in DOMAIN pushed
            /\ pushed[Len(release) + i] = typed[i]
       /\ \A i \in DOMAIN events :
            /\ i \in Nat /\ Len(queued) + i \in DOMAIN pushed
            /\ pushed[Len(queued) + i] = events[i]
       /\ Len(release) \in Nat /\ Len(queued) \in Nat
  <2>1. \A i \in DOMAIN OwnCommands :
          i \in Nat /\ Len(release) + i \in DOMAIN queued /\ queued[Len(release) + i] = OwnCommands[i]
    BY <1>5, JoinedEvents DEF queued
  <2>2. \A p \in DOMAIN queued : p \in DOMAIN pushed /\ pushed[p] = queued[p]
    BY <1>4, <1>6, JoinedEvents DEF pushed
  <2>3. \A i \in DOMAIN events :
          i \in Nat /\ Len(queued) + i \in DOMAIN pushed /\ pushed[Len(queued) + i] = events[i]
    BY <1>4, <1>6, JoinedEvents DEF pushed
  <2> QED
    BY <1>5, <1>6, <2>1, <2>2, <2>3, OwnCommandsAre
<1>13. ASSUME NEW p \in DOMAIN pushed, pushed[p].type = "on"
       PROVE  \/ /\ auditioned /\ p - Len(release) \in DOMAIN typed
                 /\ pushed[p] = typed[p - Len(release)]
              \/ /\ p - Len(queued) \in DOMAIN events
                 /\ pushed[p] = events[p - Len(queued)]
  <2>0. p \in Nat /\ Len(release) \in Nat /\ Len(queued) \in Nat
    BY <1>5, <1>6, <1>8
  <2>1. CASE p - Len(queued) \in DOMAIN events
    <3>1. Len(queued) + (p - Len(queued)) = p
      BY <2>0
    <3> QED
      BY <1>12, <2>1, <3>1
  <2>2. CASE p \in DOMAIN queued
    <3>1. pushed[p] = queued[p]
      BY <1>4, <1>6, <2>2, JoinedEvents DEF pushed
    <3>2. CASE p \in DOMAIN release
      <4>1. queued[p] = release[p]
        BY <1>5, <3>2, JoinedEvents DEF queued
      <4>2. release[p] = AllNotesOff
        BY <3>2 DEF release
      <4> QED
        BY <1>3, <1>13, <3>1, <4>1, <4>2
    <3>3. CASE p - Len(release) \in DOMAIN OwnCommands
      <4>1. Len(release) + (p - Len(release)) = p
        BY <2>0
      <4>2. queued[p] = OwnCommands[p - Len(release)]
        BY <1>5, <3>3, <4>1, JoinedEvents DEF queued
      <4> QED
        BY <1>13, <3>1, <3>3, <4>2, OwnCommandsAre
    <3>4. p \in DOMAIN release \/ p - Len(release) \in DOMAIN OwnCommands
      BY <1>5, <2>2, JoinedEvents DEF queued
    <3> QED
      BY <3>2, <3>3, <3>4
  <2>3. p \in DOMAIN queued \/ p - Len(queued) \in DOMAIN events
    BY <1>4, <1>6, JoinedEvents DEF pushed
  <2> QED
    BY <2>1, <2>2, <2>3
\* What is the last word of the schedule on a key is in the list, or is missed.
<1>14. ASSUME NEW key \in PlayedKeys, key \notin score', key \in sounding
       PROVE  (\E i \in DOMAIN chunk' : Ends(chunk', i, key)) \/ PitchOn(kind, key) \in unheard'
  <2>1. PICK j \in DOMAIN events : Ends(events, j, key)
    BY <1>4, <1>10, <1>14, LastWord DEF EndsAfter
  <2>2. Len(queued) + j \in DOMAIN pushed /\ Ends(pushed, Len(queued) + j, key)
    BY <1>12, <2>1 DEF Ends
  <2> QED
    BY <1>11, <2>2
<1>15. ASSUME NEW pitch, Due(pitch)
       PROVE  Due(pitch)'
  <2>1. CASE pitch \in unheard \/ \E key \in pressed : PitchOn(kind, key) = pitch
    BY <1>1, <1>10, <2>1 DEF Due, Wanted
  <2>2. ASSUME NEW key \in PlayedKeys, PitchOn(kind, key) = pitch,
               (\E i \in DOMAIN chunk' : Ends(chunk', i, key)) \/ pitch \in unheard'
        PROVE  Due(pitch)'
    BY <1>1, <2>2 DEF Due, EndComes, Ends
  <2>3. ASSUME NEW key \in score, PitchOn(kind, key) = pitch
        PROVE  Due(pitch)'
    <3>1. CASE jump
      <4>1. release = <<AllNotesOff>>
        BY <3>1 DEF release
      <4>2. 1 \in DOMAIN release /\ release[1] = AllNotesOff
        BY <4>1
      <4>3. 1 \in DOMAIN queued /\ queued[1] = AllNotesOff
        BY <1>5, <4>2, JoinedEvents DEF queued
      <4>4. 1 \in DOMAIN pushed /\ pushed[1] = AllNotesOff
        BY <1>4, <1>6, <4>3, JoinedEvents DEF pushed
      <4>5. 1 \in DOMAIN chunk' /\ chunk'[1] = AllNotesOff
        BY <1>8, <1>9, <4>4
      <4> QED
        BY <1>3, <4>5 DEF Due, PanicComes, Ends
    <3>2. CASE ~jump
      <4>1. key \in PlayedKeys /\ key \in sounding
        BY <2>3, <3>2 DEF QueueTypes
      <4>2. CASE key \in score'
        BY <1>1, <2>3, <4>2 DEF Due, Wanted
      <4>3. CASE key \notin score'
        BY <1>14, <2>2, <2>3, <4>1, <4>3
      <4> QED
        BY <4>2, <4>3
    <3> QED
      BY <3>1, <3>2
  <2>4. ASSUME NEW i \in DOMAIN typed, NEW key \in PlayedKeys, Ends(typed, i, key),
               PitchOn(kind, key) = pitch
        PROVE  Due(pitch)'
    <3>1. CASE auditioned
      <4>1. Len(release) + i \in DOMAIN pushed /\ Ends(pushed, Len(release) + i, key)
        BY <1>12, <2>4, <3>1 DEF Ends
      <4> QED
        BY <1>11, <2>2, <2>4, <4>1
    <3>2. CASE ~auditioned
      <4>1. typed[i] \in offs
        BY <2>4, <3>2, StockConstants DEF Ends, Range
      <4>2. PitchOn(kind, key) \in unheard'
        BY <1>10, <2>4, <4>1, PitchIs DEF Ends
      <4> QED
        BY <2>2, <2>4, <4>2
    <3> QED
      BY <3>1, <3>2
  <2>5. ~EndComes(chunk, pitch) /\ ~PanicComes
    BY <1>1 DEF EndComes, PanicComes
  <2> QED
    BY <1>15, <2>1, <2>3, <2>4, <2>5 DEF Due, Wanted, EndComes
<1>16. BankInv' /\ QueueTypes'
  <2>1. score' \subseteq PlayedKeys
    BY <1>10 DEF Afterwards
  <2> QED
    BY <1>1, <1>9, <2>1, StockConstants DEF BankInv, Fields, QueueTypes
<1>17. VoicesDue'
  <2>1. ASSUME NEW v \in 1..VoiceCount, Held(bank'[v])
        PROVE  \E pitch : pitch = bank'[v].key /\ Due(pitch)'
    <3>1. PICK pitch : pitch = bank[v].key
      OBVIOUS
    <3>2. Due(pitch) /\ pitch = bank'[v].key
      BY <1>1, <2>1, <3>1 DEF VoicesDue
    <3> QED
      BY <1>15, <3>2
  <2> QED
    BY <2>1, VoicesAreDue
<1>18. ChunkDue'
  <2>1. ASSUME NEW p \in DOMAIN chunk', chunk'[p].type = "on", NEW key, key = chunk'[p].key
        PROVE  \/ PitchOn(kind, key) \in unheard' \/ key \in score' \cup pressed
               \/ EndsAfter(chunk', p, key)
    <3>1. p \in DOMAIN pushed /\ pushed[p] = chunk'[p] /\ p \in Nat
      BY <1>8, <1>9, <2>1
    <3>2. key \in PlayedKeys
      <4>1. pushed[p] \in Notes
        BY <1>7, <3>1
      <4> QED
        BY <2>1, <3>1, <4>1 DEF Notes, EventKeys
    <3>3. ASSUME NEW q \in DOMAIN pushed, p < q, Ends(pushed, q, key)
          PROVE  PitchOn(kind, key) \in unheard' \/ EndsAfter(chunk', p, key)
      BY <1>11, <3>2, <3>3 DEF EndsAfter
    <3>4. CASE auditioned /\ p - Len(release) \in DOMAIN typed /\ pushed[p] = typed[p - Len(release)]
      <4>1. key \in pressed \/ EndsAfter(typed, p - Len(release), key)
        BY <2>1, <3>1, <3>4 DEF TypedDue
      <4>2. ASSUME NEW j \in DOMAIN typed, p - Len(release) < j, Ends(typed, j, key)
            PROVE  PitchOn(kind, key) \in unheard' \/ EndsAfter(chunk', p, key)
        <5>1. /\ Len(release) + j \in DOMAIN pushed /\ Ends(pushed, Len(release) + j, key)
              /\ j \in Nat /\ Len(release) \in Nat
          BY <1>12, <3>4, <4>2 DEF Ends
        <5>2. p < Len(release) + j
          BY <3>1, <4>2, <5>1
        <5> QED
          BY <3>3, <5>1, <5>2
      <4> QED
        BY <4>1, <4>2 DEF EndsAfter
    <3>5. CASE p - Len(queued) \in DOMAIN events /\ pushed[p] = events[p - Len(queued)]
      <4>1. key \in score' \/ EndsAfter(events, p - Len(queued), key)
        BY <1>4, <1>10, <2>1, <3>1, <3>2, <3>5, LastWord
      <4>2. ASSUME NEW j \in DOMAIN events, p - Len(queued) < j, Ends(events, j, key)
            PROVE  PitchOn(kind, key) \in unheard' \/ EndsAfter(chunk', p, key)
        <5>1. /\ Len(queued) + j \in DOMAIN pushed /\ Ends(pushed, Len(queued) + j, key)
              /\ j \in Nat /\ Len(queued) \in Nat
          BY <1>12, <4>2 DEF Ends
        <5>2. p < Len(queued) + j
          BY <3>1, <4>2, <5>1
        <5> QED
          BY <3>3, <5>1, <5>2
      <4> QED
        BY <4>1, <4>2 DEF EndsAfter
    <3> QED
      BY <1>13, <2>1, <3>1, <3>4, <3>5
  <2> QED
    BY <1>1, <2>1 DEF ChunkDue, EndsAfter, Ends
<1>19. TypedDue'
  BY <1>1 DEF TypedDue
<1> QED
  BY <1>16, <1>17, <1>18, <1>19

LEMMA DueInvHolds == StockSpec => []DueInv
<1>1. StockInit => DueInv
  <2> SUFFICES ASSUME StockInit
               PROVE  DueInv
    OBVIOUS
  <2>1. BankInv
    BY DEF StockInit, BankInv, Fields, Idle
  <2>2. QueueTypes /\ ChunkDue /\ TypedDue
    BY StockConstants DEF StockInit, QueueTypes, ChunkDue, TypedDue
  <2>3. VoicesDue
    BY DEF StockInit, VoicesDue, Held, Idle
  <2> QED
    BY <2>1, <2>2, <2>3 DEF DueInv
<1>2. DueInv /\ [StockNext]_stockVars => DueInv'
  <2> SUFFICES ASSUME DueInv, [StockNext]_stockVars
               PROVE  DueInv'
    OBVIOUS
  <2>1. ASSUME NEW key \in PlayedKeys
        PROVE  Note("on", key, 0) \in Notes /\ Note("off", key, 0) \in Notes
    BY StockConstants DEF Note, Notes, EventKeys
  <2>2. AllNotesOff \in Notes /\ AllNotesOff.type = "off"
    BY StockConstants DEF AllNotesOff, Note, Notes, EventKeys
  <2>3. pressed \subseteq PlayedKeys
    BY DEF DueInv, QueueTypes
  <2>4. ASSUME NEW key \in PlayedKeys, Press(key)
        PROVE  DueInv'
    BY <2>1, <2>3, <2>4, TypeDue DEF Press, Note
  <2>5. ASSUME NEW key \in PlayedKeys, LetGo(key)
        PROVE  DueInv'
    BY <2>1, <2>3, <2>5, TypeDue DEF LetGo, Note
  <2>6. CASE Panic
    BY <2>2, <2>3, <2>6, TypeDue DEF Panic
  <2>7. CASE Select \/ UNCHANGED stockVars
    <3>1. UNCHANGED <<kind, bank, typed, chunk, frame, score, pressed, unheard>>
      BY <2>7 DEF Select, stockVars
    <3>2. BankInv' /\ QueueTypes'
      BY <3>1 DEF DueInv, BankInv, Fields, QueueTypes
    <3>3. ChunkDue' /\ TypedDue'
      BY <3>1 DEF DueInv, ChunkDue, TypedDue, EndsAfter, Ends
    <3>4. VoicesDue'
      BY <3>1 DEF DueInv, VoicesDue, Held, Due, Wanted, EndComes, PanicComes, Ends
    <3> QED
      BY <3>2, <3>3, <3>4 DEF DueInv
  <2>8. CASE BeginChunk
    BY <2>8, BeginDue
  <2>9. CASE Handle
    BY <2>9, HandleDue
  <2>10. ASSUME NEW dead, Render(dead)
         PROVE  DueInv'
    BY <2>10, RenderDue
  <2> QED
    BY <2>4, <2>5, <2>6, <2>7, <2>8, <2>9, <2>10 DEF StockNext
<1> QED
  BY <1>1, <1>2, PTL DEF StockSpec

(* What a stock instrument holds between two chunks is wanted, for any number of
   voices, any size of the event list and any order of notes, jumps, panics and
   selections (Engine::renderChannel(), and noteOff() of the instruments): what
   is not wanted any more had its end on the way, and it has arrived; but for
   releases that no voice heard. *)
THEOREM HeldIsWanted == StockSpec => []HeldIsWantedUnlessUnheard
<1>1. DueInv => HeldIsWantedUnlessUnheard
  <2> SUFFICES ASSUME DueInv, frame = ChunkFrames, typed = <<>>,
                      NEW v \in 1..VoiceCount, Held(bank[v])
               PROVE  bank[v].key \in {Pitch(key) : key \in score \cup pressed} \cup unheard
    BY DEF HeldIsWantedUnlessUnheard, HeldKeys
  <2>1. chunk = <<>>
    BY DEF DueInv, QueueTypes
  <2>2. Due(bank[v].key)
    BY DEF DueInv, VoicesDue
  <2>3. bank[v].key \in unheard \/ Wanted(bank[v].key)
    BY <2>1, <2>2 DEF Due, EndComes, PanicComes
  <2> QED
    BY <2>3, PitchIs DEF Wanted
<1> QED
  BY <1>1, DueInvHolds, PTL

-----------------------------------------------------------------------------
(* The voices of the sampler *)

SampledNotes == [pitch : Int, key : Int, adrift : BOOLEAN]
VoiceStates ==
  [active : BOOLEAN, releasing : BOOLEAN, stretching : BOOLEAN, note : SampledNotes,
   pending : SampledNotes]

Accounted(note) == note.key \in down \/ note.adrift

\* A note that waits behind a stolen voice is held, or was let go of while it waited;
\* none waits behind a voice that sounds.
VoicesAccounted ==
  \A v \in Voices :
    /\ Sounds(v) => Accounted(voice[v].note) /\ voice[v].pending.pitch < 0
    /\ voice[v].pending.pitch >= 0 => Accounted(voice[v].pending)

\* The property speaks of notes that sound; a note that waits will sound.
SamplerInv ==
  /\ voice \in [Voices -> VoiceStates]
  /\ down \subseteq SampledKeys
  /\ VoicesAccounted

\* A step that starts, steals and forgets nothing.
LEMMA NotesStand ==
  ASSUME SamplerInv, voice' = voice, down' = down
  PROVE  SamplerInv'
BY DEF SamplerInv, VoicesAccounted, Accounted, Sounds

LEMMA NoNoteIsANote == NoNote \in SampledNotes /\ NoNote.pitch = -1
BY DEF NoNote, SampledNotes

LEMMA IdleVoiceIs == IdleVoice \in VoiceStates /\ ~IdleVoice.active /\ IdleVoice.pending = NoNote
BY NoNoteIsANote DEF IdleVoice, VoiceStates

LEMMA StartingIs ==
  ASSUME NEW note \in SampledNotes, clipPlays \in BOOLEAN
  PROVE  /\ Starting(note) \in VoiceStates
         /\ Starting(note).note = note /\ Starting(note).pending = NoNote
BY NoNoteIsANote DEF Starting, IdleVoice, VoiceStates

LEMMA StartsOnKeeps ==
  ASSUME SamplerInv, clipPlays \in BOOLEAN, NEW v \in Voices, NEW note \in SampledNotes,
         StartsOn(v, note), down \subseteq down', down' \subseteq SampledKeys, Accounted(note)'
  PROVE  SamplerInv'
<1>1. voice' = [voice EXCEPT ![v] = Starting(note)]
  BY DEF StartsOn
<1>2. /\ Starting(note) \in VoiceStates
      /\ Starting(note).note = note /\ Starting(note).pending.pitch = -1
  BY StartingIs, NoNoteIsANote
<1>3. voice' \in [Voices -> VoiceStates]
  BY <1>1, <1>2 DEF SamplerInv
<1>4. ASSUME NEW u \in Voices
      PROVE  /\ Sounds(u)' => Accounted(voice[u].note)' /\ voice'[u].pending.pitch < 0
             /\ voice'[u].pending.pitch >= 0 => Accounted(voice[u].pending)'
  <2>1. CASE u = v
    <3>1. voice'[u] = Starting(note)
      BY <1>1, <2>1 DEF SamplerInv
    <3> QED
      BY <1>2, <3>1 DEF Accounted
  <2>2. CASE u # v
    <3>1. voice'[u] = voice[u]
      BY <1>1, <2>2 DEF SamplerInv
    <3> QED
      BY <3>1 DEF SamplerInv, VoicesAccounted, Accounted, Sounds
  <2> QED
    BY <2>1, <2>2
<1> QED
  BY <1>3, <1>4 DEF SamplerInv, VoicesAccounted

\* A voice released, or passed by, is one voice; the others change no more.
LEMMA VoicesStay ==
  ASSUME SamplerInv, voice' \in [Voices -> VoiceStates], down' \subseteq SampledKeys,
         \A v \in Voices : /\ Sounds(v)' => Accounted(voice[v].note)' /\ voice'[v].pending.pitch < 0
                           /\ voice'[v].pending.pitch >= 0 => Accounted(voice[v].pending)'
  PROVE  SamplerInv'
BY DEF SamplerInv, VoicesAccounted

LEMMA NoteOnKeeps ==
  ASSUME SamplerInv, clipPlays \in BOOLEAN, NEW key \in SampledKeys, effective \in Int, noteOn(key)
  PROVE  SamplerInv'
<1>1. PICK note : note = Strike(key, effective)
  OBVIOUS
<1>2. note \in SampledNotes /\ note.key = key
  BY <1>1, SamplerAssumption DEF Strike, SampledNotes
<1>3. /\ down' = down \union {key} /\ down' \subseteq SampledKeys
      /\ Accounted(note)'
  BY <1>2 DEF noteOn, Accounted, SamplerInv
<1>4. CASE FreeVoices # {}
  <2>1. PICK v : v = CHOOSE w \in FreeVoices : \A u \in FreeVoices : w <= u
    OBVIOUS
  <2>2. StartsOn(v, note)
    BY <1>1, <1>4, <2>1 DEF noteOn
  <2>3. v \in Voices
    <3>1. FreeVoices \in SUBSET Nat
      BY DEF FreeVoices, Voices
    <3>2. \E w \in FreeVoices : \A u \in FreeVoices : w <= u
      BY <1>4, <3>1, LeastMember
    <3> QED
      BY <2>1, <3>2 DEF FreeVoices
  <2> QED
    BY <1>2, <1>3, <2>2, <2>3, StartsOnKeeps
<1>5. CASE FreeVoices = {}
  <2>1. PICK oldest : oldest = started[1]
    OBVIOUS
  <2>2. voice' = [voice EXCEPT ![oldest].releasing = TRUE, ![oldest].pending = note]
    BY <1>1, <1>5, <2>1 DEF noteOn, Steals
  <2>3. \A u \in Voices : u # oldest => voice'[u] = voice[u]
    BY <2>2 DEF SamplerInv
  <2>4. \A u \in Voices : u = oldest =>
          voice'[u] = [voice[u] EXCEPT !.releasing = TRUE, !.pending = note]
    BY <2>2 DEF SamplerInv
  <2>5. ASSUME NEW u \in Voices
        PROVE  /\ voice'[u] \in VoiceStates
               /\ Sounds(u)' => Accounted(voice[u].note)' /\ voice'[u].pending.pitch < 0
               /\ voice'[u].pending.pitch >= 0 => Accounted(voice[u].pending)'
    <3>1. CASE u = oldest
      <4>1. voice'[u] = [voice[u] EXCEPT !.releasing = TRUE, !.pending = note]
        BY <2>4, <3>1
      <4>2. voice'[u] \in VoiceStates /\ voice'[u].releasing /\ voice'[u].pending = note
        BY <1>2, <4>1 DEF SamplerInv, VoiceStates
      <4> QED
        BY <1>3, <4>2 DEF Sounds, Accounted
    <3>2. CASE u # oldest
      BY <1>3, <2>3, <3>2 DEF SamplerInv, VoicesAccounted, Accounted, Sounds
    <3> QED
      BY <3>1, <3>2
  <2>6. voice' = [u \in Voices |-> voice'[u]]
    BY <2>2 DEF SamplerInv
  <2>7. voice' \in [Voices -> VoiceStates]
    BY <2>5, <2>6
  <2> QED
    BY <1>3, <2>5, <2>7, VoicesStay
<1> QED
  BY <1>4, <1>5

LEMMA PassedByIs ==
  ASSUME NEW note \in SampledNotes, NEW key, NEW here \in BOOLEAN
  PROVE  /\ PassedBy(note, key, here) \in SampledNotes
         /\ PassedBy(note, key, here).pitch = note.pitch
         /\ PassedBy(note, key, here).key = note.key
         /\ note.adrift => PassedBy(note, key, here).adrift
         /\ note.key = key /\ (note.pitch # key + effective \/ ~here)
              => PassedBy(note, key, here).adrift
<1>1. (note.adrift \/ (note.key = key /\ (note.pitch # key + effective \/ ~here))) \in BOOLEAN
  OBVIOUS
<1> QED
  BY <1>1 DEF PassedBy, SampledNotes

LEMMA NoteOffKeeps ==
  ASSUME SamplerInv, NEW key \in SampledKeys, noteOff(key)
  PROVE  SamplerInv'
<1>1. /\ down' = down \ {key} /\ down' \subseteq SampledKeys
      /\ voice' = [v \in Voices |->
           IF v \in Releases(key + effective)
           THEN [voice[v] EXCEPT !.releasing = TRUE]
           ELSE [voice[v] EXCEPT !.note    = PassedBy(voice[v].note, key, TRUE),
                                 !.pending = PassedBy(voice[v].pending, key, FALSE)]]
  BY DEF noteOff, SamplerInv
<1>2. ASSUME NEW v \in Voices
      PROVE  /\ voice'[v] \in VoiceStates
             /\ Sounds(v)' => Accounted(voice[v].note)' /\ voice'[v].pending.pitch < 0
             /\ voice'[v].pending.pitch >= 0 => Accounted(voice[v].pending)'
  <2>1. voice[v] \in VoiceStates /\ voice[v].note \in SampledNotes
        /\ voice[v].pending \in SampledNotes
    BY DEF SamplerInv, VoiceStates
  <2>2. CASE v \in Releases(key + effective)
    <3>1. voice'[v] = [voice[v] EXCEPT !.releasing = TRUE] /\ Sounds(v)
      BY <1>1, <2>2 DEF Releases
    <3>2. voice'[v] \in VoiceStates /\ voice'[v].releasing /\ voice'[v].pending = voice[v].pending
      BY <2>1, <3>1 DEF VoiceStates
    <3>3. voice[v].pending.pitch < 0
      BY <3>1 DEF SamplerInv, VoicesAccounted
    <3>4. ~(voice[v].pending.pitch >= 0)
      BY <2>1, <3>3 DEF SampledNotes
    <3> QED
      BY <3>2, <3>4 DEF Sounds
  <2>3. CASE v \notin Releases(key + effective)
    <3> DEFINE note == PassedBy(voice[v].note, key, TRUE)
               pending == PassedBy(voice[v].pending, key, FALSE)
    <3>1. voice'[v] = [voice[v] EXCEPT !.note = note, !.pending = pending]
      BY <1>1, <2>3
    <3>2. /\ note \in SampledNotes /\ note.key = voice[v].note.key
          /\ voice[v].note.adrift => note.adrift
          /\ voice[v].note.key = key /\ voice[v].note.pitch # key + effective => note.adrift
      BY <2>1, PassedByIs
    <3>3. /\ pending \in SampledNotes /\ pending.key = voice[v].pending.key
          /\ pending.pitch = voice[v].pending.pitch
          /\ voice[v].pending.adrift => pending.adrift
          /\ voice[v].pending.key = key => pending.adrift
      BY <2>1, PassedByIs
    <3> HIDE DEF note, pending
    <3>4. /\ voice'[v] \in VoiceStates /\ (Sounds(v)' <=> Sounds(v))
          /\ voice'[v].note = note /\ voice'[v].pending = pending
      BY <2>1, <3>1, <3>2, <3>3 DEF VoiceStates, Sounds
    <3>7. Sounds(v) => pending.pitch < 0
      BY <3>3 DEF SamplerInv, VoicesAccounted
    <3>5. Sounds(v) => note.key \in down' \/ note.adrift
      BY <1>1, <2>3, <3>2 DEF Releases, SamplerInv, VoicesAccounted, Accounted
    <3>6. pending.pitch >= 0 => pending.key \in down' \/ pending.adrift
      BY <1>1, <3>3 DEF SamplerInv, VoicesAccounted, Accounted
    <3> QED
      BY <3>4, <3>5, <3>6, <3>7 DEF Accounted
  <2> QED
    BY <2>2, <2>3
<1>3. voice' \in [Voices -> VoiceStates]
  BY <1>1, <1>2
<1> QED
  BY <1>1, <1>2, <1>3, VoicesStay

LEMMA AllNotesOffKeeps ==
  ASSUME SamplerInv, allNotesOff
  PROVE  SamplerInv'
<1>1. /\ down' = {}
      /\ voice' = [v \in Voices |->
           IF Sounds(v) THEN [voice[v] EXCEPT !.releasing = TRUE, !.pending = NoNote]
           ELSE [voice[v] EXCEPT !.pending.adrift =
                   (voice[v].pending.adrift \/ voice[v].pending # NoNote)]]
  BY DEF allNotesOff
<1>2. ASSUME NEW v \in Voices
      PROVE  /\ voice'[v] \in VoiceStates
             /\ Sounds(v)' => Accounted(voice[v].note)' /\ voice'[v].pending.pitch < 0
             /\ voice'[v].pending.pitch >= 0 => Accounted(voice[v].pending)'
  <2>1. voice[v] \in VoiceStates /\ voice[v].pending \in SampledNotes
    BY DEF SamplerInv, VoiceStates
  <2>2. CASE Sounds(v)
    <3>1. voice'[v] = [voice[v] EXCEPT !.releasing = TRUE, !.pending = NoNote]
      BY <1>1, <2>2
    <3>2. voice'[v] \in VoiceStates /\ voice'[v].releasing /\ voice'[v].pending = NoNote
      BY <2>1, <3>1, NoNoteIsANote DEF VoiceStates
    <3>3. ~(voice'[v].pending.pitch >= 0)
      BY <3>2, NoNoteIsANote
    <3> QED
      BY <3>2, <3>3 DEF Sounds
  <2>3. CASE ~Sounds(v)
    <3> DEFINE strayed == voice[v].pending.adrift \/ voice[v].pending # NoNote
               pending == [voice[v].pending EXCEPT !.adrift = strayed]
    <3>1. voice'[v] = [voice[v] EXCEPT !.pending = pending]
      BY <1>1, <2>1, <2>3 DEF VoiceStates
    <3>2. pending \in SampledNotes /\ pending.adrift = strayed
          /\ pending.pitch = voice[v].pending.pitch
      BY <2>1 DEF SampledNotes
    <3>3. pending.pitch >= 0 => pending.adrift
      <4>1. pending.pitch >= 0 => voice[v].pending # NoNote
        BY <3>2, NoNoteIsANote
      <4>2. voice[v].pending # NoNote => strayed
        OBVIOUS
      <4> QED
        BY <3>2, <4>1, <4>2, Zenon
    <3> HIDE DEF pending
    <3>4. /\ voice'[v] \in VoiceStates /\ voice'[v].pending = pending
          /\ voice'[v].active = voice[v].active /\ voice'[v].releasing = voice[v].releasing
      BY <2>1, <3>1, <3>2 DEF VoiceStates
    <3>5. ~Sounds(v)'
      BY <2>3, <3>4 DEF Sounds
    <3> QED
      BY <3>3, <3>4, <3>5 DEF Accounted
  <2> QED
    BY <2>2, <2>3
<1>3. voice' \in [Voices -> VoiceStates]
  BY <1>1, <1>2
<1> QED
  BY <1>1, <1>2, <1>3, VoicesStay

LEMMA ResetVoicesKeeps ==
  ASSUME SamplerInv, resetVoices
  PROVE  SamplerInv'
<1>1. /\ down' = {}
      /\ voice' = [v \in Voices |->
           [voice[v] EXCEPT !.active = FALSE, !.releasing = FALSE, !.pending = NoNote]]
  BY DEF resetVoices
<1>2. ASSUME NEW v \in Voices
      PROVE  voice'[v] \in VoiceStates /\ ~Sounds(v)' /\ voice'[v].pending = NoNote
  <2>1. voice[v] \in VoiceStates
    BY DEF SamplerInv
  <2> QED
    BY <1>1, <2>1, NoNoteIsANote DEF VoiceStates, Sounds
<1>3. voice' \in [Voices -> VoiceStates]
  BY <1>1, <1>2
<1>4. \A v \in Voices : ~(voice'[v].pending.pitch >= 0)
  BY <1>2, NoNoteIsANote
<1>5. down' \subseteq SampledKeys
  BY <1>1
<1> QED
  BY <1>2, <1>3, <1>4, <1>5, VoicesStay

LEMMA ReleaseVoicesKeeps ==
  ASSUME SamplerInv, releaseVoices
  PROVE  SamplerInv'
BY IdleVoiceIs, NoNoteIsANote DEF releaseVoices, SamplerInv, VoicesAccounted, Sounds

\* A voice that ends leaves what waits on it where it is.
LEMMA EndKeeps ==
  ASSUME SamplerInv, NEW v \in Voices, voice' = [voice EXCEPT ![v].active = FALSE], down' = down
  PROVE  SamplerInv'
<1>1. ASSUME NEW u \in Voices
      PROVE  /\ voice'[u] \in VoiceStates /\ voice'[u].note = voice[u].note
             /\ voice'[u].pending = voice[u].pending /\ (Sounds(u)' => Sounds(u))
  <2>1. voice[u] \in VoiceStates
    BY DEF SamplerInv
  <2>2. voice'[u] = IF u = v THEN [voice[u] EXCEPT !.active = FALSE] ELSE voice[u]
    BY DEF SamplerInv
  <2>3. CASE u = v
    <3>1. voice'[u] = [voice[u] EXCEPT !.active = FALSE]
      BY <2>2, <2>3
    <3>2. voice'[u] \in VoiceStates /\ voice'[u].note = voice[u].note
          /\ voice'[u].pending = voice[u].pending
      BY <2>1, <3>1, ZenonT(40) DEF VoiceStates
    <3>3. ~voice'[u].active
      BY <2>1, <3>1 DEF VoiceStates
    <3> QED
      BY <3>2, <3>3 DEF Sounds
  <2>4. CASE u # v
    BY <2>1, <2>2, <2>4 DEF Sounds
  <2> QED
    BY <2>3, <2>4
<1>2. voice' \in [Voices -> VoiceStates]
  <2>1. voice' = [u \in Voices |-> voice'[u]]
    BY DEF SamplerInv
  <2> QED
    BY <1>1, <2>1
<1> QED
  BY <1>1, <1>2, VoicesStay DEF SamplerInv, VoicesAccounted, Accounted

LEMMA FadeEndsKeeps ==
  ASSUME SamplerInv, clipPlays \in BOOLEAN, NEW v \in Voices, FadeEnds(v)
  PROVE  SamplerInv'
<1>1. CASE voice[v].pending.pitch >= 0
  <2>1. PICK note : note = voice[v].pending
    OBVIOUS
  <2>2. note \in SampledNotes /\ Accounted(note)
    BY <1>1, <2>1 DEF SamplerInv, VoicesAccounted, VoiceStates
  <2>3. StartsOn(v, note) /\ down' = down
    BY <1>1, <2>1 DEF FadeEnds
  <2> QED
    BY <2>2, <2>3, StartsOnKeeps DEF SamplerInv, Accounted
<1>2. CASE ~(voice[v].pending.pitch >= 0)
  BY <1>2, EndKeeps DEF FadeEnds
<1> QED
  BY <1>1, <1>2

\* The transposition in force is a whole number.
LEMMA EffectiveIsWhole ==
  ASSUME base \in Transposes, modulation \in {0, 1}
  PROVE  effective \in Int
<1> DEFINE lowest  == CHOOSE t \in Transposes : \A u \in Transposes : t <= u
           highest == CHOOSE t \in Transposes : \A u \in Transposes : t >= u
<1>1. lowest \in Transposes /\ highest \in Transposes
  <2>1. \E t \in Transposes : \A u \in Transposes : t <= u
    BY SamplerAssumption
  <2>2. \E t \in Transposes : \A u \in Transposes : t >= u
    BY SamplerAssumption
  <2> QED
    BY <2>1, <2>2
<1> HIDE DEF lowest, highest
<1>2. lowest \in Int /\ highest \in Int /\ base + modulation \in Int
  <2>1. base \in Int /\ modulation \in Int
    BY SamplerAssumption
  <2>2. lowest \in Int /\ highest \in Int
    BY <1>1, SamplerAssumption
  <2> QED
    BY <2>1, <2>2
<1>3. effective = IF base + modulation < lowest THEN lowest
                  ELSE IF base + modulation > highest THEN highest ELSE base + modulation
  BY DEF effective, lowest, highest
<1> QED
  BY <1>2, <1>3

SamplerTypes == clipPlays \in BOOLEAN /\ base \in Transposes /\ modulation \in {0, 1}

LEMMA SamplerInvHolds == SamplerSpec => [](SamplerInv /\ SamplerTypes)
<1>1. SamplerInit => SamplerInv /\ SamplerTypes
  <2> SUFFICES ASSUME SamplerInit PROVE SamplerInv /\ SamplerTypes
    OBVIOUS
  <2>1. SamplerTypes
    BY SamplerAssumption DEF SamplerInit, SamplerTypes
  <2>2. SamplerInv
    BY IdleVoiceIs, NoNoteIsANote DEF SamplerInit, SamplerInv, VoicesAccounted, Sounds
  <2> QED
    BY <2>1, <2>2
<1>2. SamplerInv /\ SamplerTypes /\ [SamplerNext]_samplerVars => (SamplerInv /\ SamplerTypes)'
  <2> SUFFICES ASSUME SamplerInv, SamplerTypes, [SamplerNext]_samplerVars
               PROVE  SamplerInv' /\ SamplerTypes'
    OBVIOUS
  <2>1. effective \in Int
    BY EffectiveIsWhole DEF SamplerTypes
  <2>2. SamplerTypes'
    BY SamplerAssumption DEF SamplerTypes, SamplerNext, samplerVars, noteOn, noteOff, allNotesOff,
       resetVoices, releaseVoices, FadeEnds, WindowEnds, SetTranspose, ModulateTranspose,
       loadSamplerState, setClipPlayback
  <2>3. CASE \E key \in SampledKeys : noteOn(key)
    BY <2>2, <2>1, <2>3, NoteOnKeeps DEF SamplerTypes
  <2>4. CASE \E key \in down : noteOff(key)
    BY <2>2, <2>4, NoteOffKeeps DEF SamplerInv
  <2>5. CASE allNotesOff \/ resetVoices \/ releaseVoices
    BY <2>2, <2>5, AllNotesOffKeeps, ResetVoicesKeeps, ReleaseVoicesKeeps
  <2>6. CASE \E v \in Voices : FadeEnds(v)
    BY <2>2, <2>6, FadeEndsKeeps DEF SamplerTypes
  <2>7. CASE \E v \in Voices : WindowEnds(v)
    BY <2>2, <2>7, EndKeeps DEF WindowEnds
  <2>8. CASE UNCHANGED <<voice, down>>
    BY <2>2, <2>8, NotesStand
  <2> QED
    BY <2>2, <2>3, <2>4, <2>5, <2>6, <2>7, <2>8 DEF SamplerNext, samplerVars, SetTranspose,
       ModulateTranspose, loadSamplerState, setClipPlayback
<1> QED
  BY <1>1, <1>2, PTL DEF SamplerSpec

(* For any number of voices, keys and transpositions: a voice of the sampler that
   sounds and does not fade has its key down, unless the note was released while it
   waited behind a stolen voice or at another transposition (Sampler::noteOn,
   noteOff and render, core/sampler.cpp). *)
THEOREM SampledNotesEnd == SamplerSpec => []SoundsWhileHeldUnlessAdrift
<1>1. SamplerInv => SoundsWhileHeldUnlessAdrift
  BY DEF SamplerInv, VoicesAccounted, Accounted, SoundsWhileHeldUnlessAdrift
<1> QED
  BY <1>1, SamplerInvHolds, PTL

-----------------------------------------------------------------------------
(* Playback *)

QueuedCommands == UiCommands \cup [type : {"tempo"}, tempo : Tempos]

\* TypeOK, and the seam is met at most once in a row.
Types ==
  /\ transport \in Transports
  /\ commands \in Seq(QueuedCommands) /\ Len(commands) <= QueueLimit
  /\ schedule \in Schedules /\ rendered \in Schedules /\ next \in Schedules
  /\ reset_requested \in [Channels -> BOOLEAN]
  /\ voices \in [Channels -> SUBSET Keys]
  /\ pending_all_notes_off \in BOOLEAN /\ releasing \in BOOLEAN
  /\ audioPc \in {"idle", "draining", "playing", "stopped"}
  /\ drained \in 0..DrainLimit
  /\ remaining \in 0..BlockFrames
  /\ wrap_guard \in 0..1
  /\ uiPc \in {"idle", "reset", "tempo"}
  /\ resets \subseteq Channels /\ missed \subseteq Channels

Rendering == audioPc \in {"playing", "stopped"}

\* Where the block is, and what is left of a release that was drained.
AudioInv ==
  /\ audioPc = "stopped" => ~transport.playing
  /\ audioPc = "playing" => transport.playing
  /\ Rendering /\ remaining # BlockFrames => ~releasing
  /\ audioPc = "idle" => ~releasing

LoopInv ==
  audioPc = "playing" =>
    /\ wrap_guard # 0 => transport.position = 0
    /\ remaining # BlockFrames /\ transport.loop => transport.position < LoopEnd

StopInv ==
  ~transport.playing =>
    \/ \A c \in Channels : voices[c] = {}
    \/ audioPc \in {"draining", "stopped"} /\ releasing

\* publishSchedule() on its way: a channel whose events change has its reset to
\* come, or asked for, or spent too early.
RequestInv ==
  uiPc = "reset" =>
    \A c \in Channels :
      /\ c \in resets => Changed(c, next)
      /\ Changed(c, next) => c \in resets \/ reset_requested[c] \/ c \in missed

\* A block that plays an older schedule plays, on the channels in step, the same
\* events, or will end them.
PlayInv ==
  Rendering =>
    \A c \in Channels \ missed : reset_requested[c] \/ SameEvents(c, rendered, schedule)

\* What holds the voices: the schedule of the block, or the one the next will take.
HeldBy == IF Rendering THEN rendered ELSE schedule

OffAhead(c, k, s, from) == \E f \in Nat : f >= from /\ <<k, f>> \in NoteOffs(c, s)

HangInv ==
  \A c \in Channels \ missed : \A k \in voices[c] :
    Ending(c) \/ OffAhead(c, k, HeldBy, transport.position)

PlayingInv == Types /\ AudioInv /\ LoopInv /\ StopInv /\ RequestInv /\ PlayInv /\ HangInv

-----------------------------------------------------------------------------
(* Arithmetic *)

LEMMA ProductIsPositive ==
  ASSUME NEW x \in Nat \ {0}, NEW y \in Nat \ {0}
  PROVE  x * y \in Nat \ {0}
<1>1. PICK m \in Nat : x = m + 1
  <2>1. x - 1 \in Nat /\ x = (x - 1) + 1
    OBVIOUS
  <2> QED
    BY <2>1
<1>2. x * y = m * y + y
  BY <1>1
<1>3. m * y \in Nat
  OBVIOUS
<1> QED
  BY <1>2, <1>3

LEMMA LaterInFrames ==
  ASSUME NEW on \in Nat, NEW off \in Nat, on < off, NEW tempo \in Nat \ {0}
  PROVE  /\ on * tempo \in Nat /\ off * tempo \in Nat
         /\ on * tempo < off * tempo
<1>1. PICK d \in Nat \ {0} : off = on + d
  <2>1. off - on \in Nat \ {0} /\ off = on + (off - on)
    OBVIOUS
  <2> QED
    BY <2>1
<1>2. off * tempo = on * tempo + d * tempo
  BY <1>1
<1>3. d * tempo \in Nat \ {0} /\ on * tempo \in Nat
  BY ProductIsPositive
<1> QED
  BY <1>2, <1>3

LEMMA TemposAreNatural ==
  /\ FirstTempo \in Tempos
  /\ \A t \in Tempos : t \in Nat \ {0}
  /\ \A e \in LoopEnds : e \in Nat \ {0}
<1>1. FirstTempo \in Tempos
  <2>1. Tempos \in SUBSET Nat /\ Tempos # {}
    BY PlaybackAssumption
  <2>2. \E t \in Tempos : \A u \in Tempos : t <= u
    BY <2>1, LeastMember
  <2> QED
    BY <2>2 DEF FirstTempo
<1> QED
  BY <1>1, PlaybackAssumption

LEMMA LoopEndIsPositive ==
  ASSUME transport \in Transports
  PROVE  LoopEnd \in Nat \ {0}
<1>1. transport.loop_end \in Nat \ {0} /\ transport.tempo \in Nat \ {0}
  BY TemposAreNatural DEF Transports
<1> QED
  BY <1>1, ProductIsPositive DEF LoopEnd

LEMMA PositionsRescaled ==
  ASSUME NEW position \in Nat, NEW old \in Nat \ {0}, NEW new \in Nat \ {0}
  PROVE  Rescaled(position, old, new) \in Nat
<1>1. 2 * position * new + old \in Nat
  <2>1. 2 * position \in Nat
    OBVIOUS
  <2>2. (2 * position) * new \in Nat
    BY <2>1
  <2> QED
    BY <2>2
<1>2. 2 * old \in Nat \ {0}
  OBVIOUS
<1>3. \A x \in Nat, y \in Nat \ {0} : x \div y \in Nat
  OBVIOUS
<1> QED
  BY <1>1, <1>2, <1>3 DEF Rescaled

LEMMA RescaledToItself ==
  ASSUME NEW position \in Nat, NEW tempo \in Nat \ {0}
  PROVE  Rescaled(position, tempo, tempo) = position
<1> DEFINE twice == 2 * tempo
<1>1. twice \in Nat \ {0} /\ tempo < twice
  OBVIOUS
<1>2. 2 * position * tempo + tempo = position * twice + tempo
  OBVIOUS
<1>3. \A y \in Nat \ {0}, q \in Nat, r \in Nat : r < y => (q * y + r) \div y = q
  OBVIOUS
<1>4. (position * twice + tempo) \div twice = position
  <2> HIDE DEF twice
  <2> QED
    BY <1>1, <1>3
<1> QED
  BY <1>2, <1>4 DEF Rescaled

-----------------------------------------------------------------------------
(* Schedules *)

LEMMA NotesOfSchedules ==
  ASSUME NEW s \in Schedules, NEW c \in Channels, NEW n \in s.notes[c]
  PROVE  /\ On(s, n) \in Nat /\ Off(s, n) \in Nat /\ On(s, n) < Off(s, n)
         /\ n.key \in Keys
<1>1. s.notes \in [Channels -> Contents] /\ s.tempo \in Tempos
  BY DEF Schedules
<1>2. s.notes[c] \in Contents
  BY <1>1
<1>3. n.on \in Nat /\ n.off \in Nat /\ n.on < n.off
  BY <1>2, PlaybackAssumption
<1>4. s.tempo \in Nat \ {0}
  BY <1>1, TemposAreNatural
<1> QED
  BY <1>2, <1>3, <1>4, LaterInFrames DEF On, Off, Keys

\* Every note that starts ends later.
LEMMA NoteOffBehindNoteOn ==
  ASSUME NEW s \in Schedules, NEW c \in Channels, NEW k, NEW on, <<k, on>> \in NoteOns(c, s)
  PROVE  \E off \in Nat : on < off /\ <<k, off>> \in NoteOffs(c, s)
<1>1. PICK n \in s.notes[c] : <<k, on>> = <<n.key, On(s, n)>>
  BY DEF NoteOns
<1>2. <<k, Off(s, n)>> \in NoteOffs(c, s)
  BY <1>1 DEF NoteOffs
<1> QED
  BY <1>1, <1>2, NotesOfSchedules

\* What the property says of notes, the invariant says of events.
LEMMA OffAheadIsANote ==
  ASSUME NEW s, NEW c, NEW k, NEW from, OffAhead(c, k, s, from)
  PROVE  \E n \in s.notes[c] : n.key = k /\ Off(s, n) >= from
<1>1. PICK f \in Nat : f >= from /\ <<k, f>> \in NoteOffs(c, s)
  BY DEF OffAhead
<1>2. PICK n \in s.notes[c] : <<k, f>> = <<n.key, Off(s, n)>>
  BY <1>1 DEF NoteOffs
<1> QED
  BY <1>1, <1>2

LEMMA SameOffAhead ==
  ASSUME NEW s, NEW t, NEW c, NEW k, NEW from, SameEvents(c, s, t), OffAhead(c, k, s, from)
  PROVE  OffAhead(c, k, t, from)
BY DEF SameEvents, OffAhead

LEMMA NoNotesIsASchedule == NoNotes \in Schedules
BY PlaybackAssumption, TemposAreNatural DEF NoNotes, Schedules

-----------------------------------------------------------------------------
(* Steps *)

LEMMA AppliedIsATransport ==
  ASSUME transport \in Transports, NEW command \in QueuedCommands
  PROVE  Applied(command) \in Transports
<1>1. /\ transport.playing \in BOOLEAN /\ transport.position \in Nat
      /\ transport.tempo \in Tempos /\ transport.loop \in BOOLEAN
      /\ transport.loop_end \in LoopEnds
  BY DEF Transports
<1>2. \A r \in Transports : r = [playing |-> r.playing, position |-> r.position,
                               tempo |-> r.tempo, loop |-> r.loop, loop_end |-> r.loop_end]
  BY DEF Transports
<1>3. CASE command.type \in {"play", "stop"}
  BY <1>3 DEF Applied, Transports
<1>4. CASE command \in [type : {"seek"}, frames : Seeks]
  <2>1. command.type = "seek" /\ command.frames \in Nat
    BY <1>4, PlaybackAssumption
  <2> QED
    BY <2>1 DEF Applied, Transports
<1>5. CASE command \in [type : {"loop"}, enabled : BOOLEAN, end : LoopEnds]
  <2>1. command.type = "loop" /\ command.enabled \in BOOLEAN /\ command.end \in LoopEnds
    BY <1>5
  <2> QED
    BY <2>1 DEF Applied, Transports
<1>6. CASE command \in [type : {"tempo"}, tempo : Tempos]
  <2>1. command.type = "tempo" /\ command.tempo \in Tempos
    BY <1>6
  <2>2. Rescaled(transport.position, transport.tempo, command.tempo) \in Nat
    BY <1>1, <2>1, TemposAreNatural, PositionsRescaled
  <2>3. Applied(command) = [transport EXCEPT !.tempo = command.tempo,
              !.position = Rescaled(transport.position, transport.tempo, command.tempo)]
    BY <2>1 DEF Applied, Transports
  <2> QED
    BY <2>1, <2>2, <2>3 DEF Transports
<1> QED
  BY <1>3, <1>4, <1>5, <1>6 DEF QueuedCommands, UiCommands

\* A chunk is not empty, and ends inside the loop or on its end.
LEMMA ChunkLength ==
  ASSUME Types, remaining > 0
  PROVE  /\ FramesUntilLoopWrap \in 0..remaining
         /\ FramesUntilLoopWrap = 0 => transport.loop /\ transport.position >= LoopEnd
<1>1. LoopEnd \in Nat /\ transport.position \in Nat /\ remaining \in Nat
  BY LoopEndIsPositive, PlaybackAssumption DEF Types, Transports
<1> QED
  BY <1>1 DEF FramesUntilLoopWrap

LEMMA SoundingIsHeld ==
  ASSUME Types, NEW c \in Channels, NEW before \in SUBSET Keys,
         NEW from \in Nat, NEW to \in Nat, from < to, NEW k \in Sounding(c, before, from, to)
  PROVE  \/ OffAhead(c, k, rendered, to)
         \/ k \in before /\ \A f \in from..(to - 1) : <<k, f>> \notin NoteOffs(c, rendered)
<1> DEFINE ons  == FramesOf(k, NoteOns(c, rendered), from, to)
           offs == FramesOf(k, NoteOffs(c, rendered), from, to)
<1>1. CASE ons \cup offs = {}
  <2>1. k \in before
    BY <1>1 DEF Sounding
  <2>2. \A f \in from..(to - 1) : <<k, f>> \notin NoteOffs(c, rendered)
    BY <1>1 DEF FramesOf
  <2> QED
    BY <2>1, <2>2
<1>2. CASE ons \cup offs # {}
  <2>1. PICK on \in ons : \A off \in offs : off <= on
    BY <1>2 DEF Sounding
  <2>2. <<k, on>> \in NoteOns(c, rendered) /\ on \in from..(to - 1)
    BY <2>1 DEF FramesOf
  <2>3. PICK off \in Nat : on < off /\ <<k, off>> \in NoteOffs(c, rendered)
    BY <2>2, NoteOffBehindNoteOn DEF Types
  <2>4. ~(off \in from..(to - 1))
    <3>1. SUFFICES ASSUME off \in from..(to - 1) PROVE FALSE
      OBVIOUS
    <3>2. off \in offs
      BY <2>3, <3>1 DEF FramesOf
    <3> QED
      BY <2>1, <2>2, <2>3, <3>2
  <2>5. off >= to
    BY <2>2, <2>3, <2>4
  <2> QED
    BY <2>3, <2>5 DEF OffAhead
<1> QED
  BY <1>1, <1>2

\* A voice ends with a note-off.
LEMMA EndedByNoteOff ==
  ASSUME Types, NEW c \in Channels, NEW before \in SUBSET Keys,
         NEW from \in Nat, NEW to \in Nat, NEW k \in before,
         k \notin Sounding(c, before, from, to)
  PROVE  \E n \in rendered.notes[c] :
           n.key = k /\ Off(rendered, n) >= from /\ Off(rendered, n) < to
<1> DEFINE ons  == FramesOf(k, NoteOns(c, rendered), from, to)
           offs == FramesOf(k, NoteOffs(c, rendered), from, to)
<1>1. ons \cup offs # {} /\ ~ \E on \in ons : \A off \in offs : off <= on
  BY DEF Sounding
<1>2. PICK f \in offs : TRUE
  BY <1>1
<1>3. f \in from..(to - 1) /\ <<k, f>> \in NoteOffs(c, rendered)
  BY <1>2 DEF FramesOf
<1>4. PICK n \in rendered.notes[c] : <<k, f>> = <<n.key, Off(rendered, n)>>
  BY <1>3 DEF NoteOffs
<1> QED
  BY <1>3, <1>4

-----------------------------------------------------------------------------
(* The main thread's actions. *)

playVars == <<transport, schedule, reset_requested, voices, pending_all_notes_off, audioVars,
              next, resets, missed>>

LEMMA QueueKeeps ==
  ASSUME PlayingInv, UNCHANGED playVars, uiPc' \in {uiPc, "idle"},
         commands' \in Seq(QueuedCommands), Len(commands') <= QueueLimit
  PROVE  PlayingInv'
<1>1. Types'
  BY DEF PlayingInv, Types, playVars, audioVars
<1>2. AudioInv' /\ LoopInv' /\ StopInv'
  BY DEF PlayingInv, AudioInv, LoopInv, StopInv, Rendering, LoopEnd, playVars, audioVars
<1>3. RequestInv' /\ PlayInv'
  BY DEF PlayingInv, RequestInv, PlayInv, Rendering, Changed, SameEvents, NoteOns, NoteOffs,
         On, Off, playVars, audioVars
<1>4. HangInv'
  BY DEF PlayingInv, HangInv, HeldBy, Rendering, Ending, OffAhead, NoteOffs, Off, playVars,
         audioVars
<1> QED
  BY <1>1, <1>2, <1>3, <1>4 DEF PlayingInv

LEMMA PostCommandKeeps ==
  ASSUME PlayingInv, NEW c \in UiCommands, PostCommand(c)
  PROVE  PlayingInv'
<1>1. commands' = Append(commands, c) /\ Len(commands) < QueueLimit
  BY DEF PostCommand, Post, QueueHasRoom
<1>2. c \in QueuedCommands
  BY DEF QueuedCommands
<1>3. commands \in Seq(QueuedCommands) /\ QueueLimit \in Nat
  BY PlaybackAssumption DEF PlayingInv, Types
<1>4. commands' \in Seq(QueuedCommands) /\ Len(commands') = Len(commands) + 1
  BY <1>1, <1>2, <1>3
<1>5. Len(commands') <= QueueLimit
  BY <1>1, <1>3, <1>4
<1> QED
  BY <1>4, <1>5, QueueKeeps DEF PostCommand, playVars

LEMMA ScheduleEditKeeps ==
  ASSUME PlayingInv, NEW s \in Schedules, Edit(s)
  PROVE  PlayingInv'
<1>1. Types'
  BY DEF PlayingInv, Types, Edit, audioVars
<1>2. AudioInv' /\ LoopInv' /\ StopInv'
  BY DEF PlayingInv, AudioInv, LoopInv, StopInv, Rendering, LoopEnd, Edit, audioVars
<1>3. RequestInv'
  <2>1. \A c \in Channels : Changed(c, next)' <=> Changed(c, s)
    BY DEF Edit, Changed, SameEvents, NoteOns, NoteOffs, On, Off
  <2> QED
    BY <2>1 DEF RequestInv, Edit
<1>4. PlayInv'
  BY DEF PlayingInv, PlayInv, Rendering, SameEvents, NoteOns, NoteOffs, On, Off, Edit, audioVars
<1>5. HangInv'
  BY DEF PlayingInv, HangInv, HeldBy, Rendering, Ending, OffAhead, NoteOffs, Off, Edit, audioVars
<1> QED
  BY <1>1, <1>2, <1>3, <1>4, <1>5 DEF PlayingInv

LEMMA RequestKeeps ==
  ASSUME PlayingInv, NEW r \in Channels, RequestChannelReset(r)
  PROVE  PlayingInv'
<1>1. Types'
  BY DEF PlayingInv, Types, RequestChannelReset, audioVars
<1>2. AudioInv' /\ LoopInv' /\ StopInv'
  BY DEF PlayingInv, AudioInv, LoopInv, StopInv, Rendering, LoopEnd, RequestChannelReset, audioVars
<1>3. \A c \in Channels : (reset_requested[c] => reset_requested'[c]) /\ (c = r => reset_requested'[c])
  BY DEF PlayingInv, Types, RequestChannelReset
<1>4. RequestInv'
  <2>1. \A c \in Channels : Changed(c, next)' <=> Changed(c, next)
    BY DEF RequestChannelReset, Changed, SameEvents, NoteOns, NoteOffs, On, Off
  <2> QED
    BY <1>3, <2>1 DEF PlayingInv, RequestInv, RequestChannelReset
<1>5. PlayInv'
  <2>1. \A c \in Channels : SameEvents(c, rendered, schedule)' <=> SameEvents(c, rendered, schedule)
    BY DEF RequestChannelReset, audioVars, SameEvents, NoteOns, NoteOffs, On, Off
  <2> QED
    BY <1>3, <2>1 DEF PlayingInv, PlayInv, Rendering, RequestChannelReset, audioVars
<1>6. HangInv'
  <2>1. \A c \in Channels : Ending(c) => Ending(c)'
    BY <1>3 DEF Ending, RequestChannelReset, audioVars
  <2>2. \A c, k : OffAhead(c, k, HeldBy, transport.position)
                    => OffAhead(c, k, HeldBy, transport.position)'
    BY DEF OffAhead, HeldBy, Rendering, NoteOffs, Off, RequestChannelReset, audioVars
  <2> QED
    BY <2>1, <2>2 DEF PlayingInv, HangInv, RequestChannelReset
<1> QED
  BY <1>1, <1>2, <1>4, <1>5, <1>6 DEF PlayingInv

\* The channels whose events change have been asked to be reset.
LEMMA PublishKeeps ==
  ASSUME PlayingInv, PublishSchedule
  PROVE  PlayingInv'
<1>1. Types'
  BY DEF PlayingInv, Types, PublishSchedule, audioVars
<1>2. AudioInv' /\ LoopInv' /\ StopInv'
  BY DEF PlayingInv, AudioInv, LoopInv, StopInv, Rendering, LoopEnd, PublishSchedule, audioVars
<1>3. RequestInv'
  BY DEF RequestInv, PublishSchedule
<1>4. \A c \in Channels \ missed : reset_requested[c] \/ SameEvents(c, schedule, next)
  BY DEF PlayingInv, RequestInv, Changed, SameEvents, PublishSchedule
<1>5. PlayInv'
  <2> SUFFICES ASSUME Rendering, NEW c \in Channels \ missed, ~reset_requested[c]
               PROVE  SameEvents(c, rendered, schedule)'
    BY DEF PlayInv, Rendering, PublishSchedule, audioVars
  <2>1. SameEvents(c, rendered, schedule) /\ SameEvents(c, schedule, next)
    BY <1>4 DEF PlayingInv, PlayInv
  <2>2. SameEvents(c, rendered, next)
    BY <2>1 DEF SameEvents
  <2>3. rendered' = rendered /\ schedule' = next
    BY DEF PublishSchedule, audioVars
  <2> QED
    BY <2>2, <2>3 DEF SameEvents, NoteOns, NoteOffs, On, Off
<1>6. HangInv'
  <2> SUFFICES ASSUME NEW c \in Channels \ missed, NEW k \in voices[c], ~Ending(c)
               PROVE  OffAhead(c, k, HeldBy, transport.position)'
    BY DEF HangInv, Ending, PublishSchedule, audioVars
  <2>1. OffAhead(c, k, HeldBy, transport.position)
    BY DEF PlayingInv, HangInv
  <2>2. transport' = transport /\ rendered' = rendered /\ schedule' = next /\ audioPc' = audioPc
    BY DEF PublishSchedule, audioVars
  <2>3. CASE Rendering
    <3>1. HeldBy' = HeldBy
      BY <2>2, <2>3 DEF HeldBy, Rendering
    <3> QED
      BY <2>1, <2>2, <3>1 DEF OffAhead, NoteOffs, Off
  <2>4. CASE ~Rendering
    <3>1. HeldBy = schedule /\ HeldBy' = next
      BY <2>2, <2>4 DEF HeldBy, Rendering
    <3>2. SameEvents(c, schedule, next)
      BY <1>4 DEF Ending
    <3>3. OffAhead(c, k, next, transport.position)
      BY <2>1, <3>1, <3>2, SameOffAhead
    <3> QED
      BY <2>2, <3>1, <3>3 DEF OffAhead, NoteOffs, Off
  <2> QED
    BY <2>3, <2>4
<1> QED
  BY <1>1, <1>2, <1>3, <1>5, <1>6 DEF PlayingInv

LEMMA PostTempoKeeps ==
  ASSUME PlayingInv, PostTempo
  PROVE  PlayingInv'
<1> DEFINE tempo == [type |-> "tempo", tempo |-> next.tempo]
<1>1. next.tempo \in Tempos /\ commands \in Seq(QueuedCommands) /\ QueueLimit \in Nat
      /\ Len(commands) <= QueueLimit
  BY PlaybackAssumption DEF PlayingInv, Types, Schedules
<1>2. tempo \in QueuedCommands
  BY <1>1 DEF QueuedCommands
<1>3. CASE ~QueueHasRoom
  BY <1>1, <1>3, QueueKeeps DEF PostTempo, playVars
<1>4. CASE QueueHasRoom
  <2>1. commands' = Append(commands, tempo) /\ Len(commands) < QueueLimit
    BY <1>4 DEF PostTempo, QueueHasRoom, Post
  <2> HIDE DEF tempo
  <2>2. commands' \in Seq(QueuedCommands) /\ Len(commands') = Len(commands) + 1
    BY <1>1, <1>2, <2>1
  <2>3. Len(commands') <= QueueLimit
    BY <1>1, <2>1, <2>2
  <2> QED
    BY <2>2, <2>3, QueueKeeps DEF PostTempo, playVars
<1> QED
  BY <1>3, <1>4

-----------------------------------------------------------------------------
(* The audio thread's actions. *)

LEMMA BlockBeginsKeeps ==
  ASSUME PlayingInv, BlockBegins
  PROVE  PlayingInv'
<1>1. Types'
  <2>1. drained' = 0 /\ releasing' \in BOOLEAN /\ DrainLimit \in Nat
    BY PlaybackAssumption DEF BlockBegins
  <2>2. audioPc' \in {"idle", "draining", "playing", "stopped"}
    BY DEF BlockBegins
  <2> QED
    BY <2>1, <2>2 DEF PlayingInv, Types, BlockBegins, uiVars
<1>2. AudioInv' /\ LoopInv' /\ StopInv'
  BY DEF PlayingInv, AudioInv, LoopInv, StopInv, Rendering, BlockBegins
<1>3. RequestInv'
  BY DEF PlayingInv, RequestInv, Changed, SameEvents, NoteOns, NoteOffs, On, Off, BlockBegins, uiVars
<1>4. PlayInv'
  BY DEF PlayInv, Rendering, BlockBegins
<1>5. HangInv'
  BY DEF PlayingInv, AudioInv, HangInv, HeldBy, Rendering, Ending, OffAhead, NoteOffs, Off, BlockBegins
<1> QED
  BY <1>1, <1>2, <1>3, <1>4, <1>5 DEF PlayingInv

LEMMA DrainsKeeps ==
  ASSUME PlayingInv, DrainsCommand
  PROVE  PlayingInv'
<1> DEFINE command == Head(commands)
<1>1. command \in QueuedCommands /\ commands' \in Seq(QueuedCommands)
      /\ Len(commands') <= QueueLimit
  <2>1. commands \in Seq(QueuedCommands) /\ commands # <<>> /\ Len(commands) <= QueueLimit
        /\ QueueLimit \in Nat /\ commands' = Tail(commands)
    BY PlaybackAssumption DEF PlayingInv, Types, DrainsCommand
  <2>2. Len(commands') = Len(commands) - 1 /\ commands' \in Seq(QueuedCommands)
    BY <2>1
  <2> QED
    BY <2>1, <2>2
<1>2. /\ transport' = Applied(command)
      /\ releasing' = (releasing \/ command.type \in {"stop", "seek"})
      /\ missed' = missed \cup CarriedOver(command)
      /\ UNCHANGED <<voices, reset_requested, pending_all_notes_off, schedule, audioPc>>
  BY DEF DrainsCommand
<1>3. audioPc = "draining" /\ ~Rendering /\ ~Rendering'
  BY DEF DrainsCommand, Rendering
<1>4. Types'
  <2>1. transport' \in Transports
    BY <1>1, <1>2, AppliedIsATransport DEF PlayingInv, Types
  <2>2. drained' \in 0..DrainLimit
    BY PlaybackAssumption DEF PlayingInv, Types, DrainsCommand
  <2>3. releasing' \in BOOLEAN
    BY <1>2 DEF PlayingInv, Types
  <2>4. missed' \subseteq Channels
    BY <1>2 DEF PlayingInv, Types, CarriedOver
  <2> QED
    BY <1>1, <2>1, <2>2, <2>3, <2>4 DEF PlayingInv, Types, DrainsCommand, uiVars
<1>5. AudioInv' /\ LoopInv' /\ PlayInv'
  BY <1>2, <1>3 DEF AudioInv, LoopInv, PlayInv, Rendering
<1>6. command.type \in {"play", "stop", "seek", "loop", "tempo"}
  BY <1>1 DEF QueuedCommands, UiCommands
<1>7. StopInv'
  <2>1. CASE command.type = "stop"
    BY <1>2, <1>3, <2>1 DEF StopInv
  <2>2. CASE command.type = "play"
    BY <1>2, <2>2 DEF StopInv, Applied, PlayingInv, Types, Transports
  <2>3. CASE command.type \in {"seek", "loop", "tempo"}
    <3>1. transport'.playing = transport.playing
      BY <1>2, <2>3 DEF Applied, PlayingInv, Types, Transports
    <3> QED
      BY <1>2, <1>3, <3>1 DEF StopInv, PlayingInv, Types
  <2> QED
    BY <1>6, <2>1, <2>2, <2>3
<1>8. RequestInv'
  <2>1. \A c \in Channels : Changed(c, next)' <=> Changed(c, next)
    BY DEF DrainsCommand, uiVars, Changed, SameEvents, NoteOns, NoteOffs, On, Off
  <2> QED
    BY <1>2, <2>1 DEF PlayingInv, RequestInv, DrainsCommand, uiVars
<1>9. HangInv'
  <2> SUFFICES ASSUME NEW c \in Channels \ missed', NEW k \in voices[c], ~Ending(c)'
               PROVE  OffAhead(c, k, HeldBy, transport.position)'
    BY <1>2 DEF HangInv
  <2>1. ~Ending(c) /\ command.type \notin {"stop", "seek"} /\ c \notin missed
    BY <1>2 DEF Ending
  <2>2. OffAhead(c, k, schedule, transport.position)
    BY <1>2, <1>3, <2>1 DEF PlayingInv, HangInv, HeldBy
  <2>3. transport'.position = transport.position
    <3>1. CASE command.type \in {"play", "loop"}
      BY <1>2, <3>1 DEF Applied, PlayingInv, Types, Transports
    <3>2. CASE command.type = "tempo"
      <4>1. command.tempo = transport.tempo
        BY <1>2, <2>1, <3>2 DEF CarriedOver
      <4>2. Rescaled(transport.position, transport.tempo, transport.tempo) = transport.position
        BY TemposAreNatural, RescaledToItself DEF PlayingInv, Types, Transports
      <4> QED
        BY <1>2, <3>2, <4>1, <4>2 DEF Applied, PlayingInv, Types, Transports
    <3> QED
      BY <1>6, <2>1, <3>1, <3>2
  <2>4. HeldBy' = schedule
    BY <1>2, <1>3 DEF HeldBy
  <2> QED
    BY <2>2, <2>3, <2>4 DEF OffAhead, NoteOffs, Off
<1> QED
  BY <1>4, <1>5, <1>7, <1>8, <1>9 DEF PlayingInv

LEMMA RunsScheduleKeeps ==
  ASSUME PlayingInv, RunsSchedule
  PROVE  PlayingInv'
<1>1. Types'
  BY PlaybackAssumption DEF PlayingInv, Types, RunsSchedule, uiVars
<1>2. AudioInv' /\ LoopInv' /\ StopInv'
  BY DEF PlayingInv, AudioInv, LoopInv, StopInv, Rendering, RunsSchedule
<1>3. RequestInv'
  BY DEF PlayingInv, RequestInv, Changed, SameEvents, NoteOns, NoteOffs, On, Off, RunsSchedule, uiVars
<1>4. PlayInv'
  BY DEF PlayInv, SameEvents, NoteOns, NoteOffs, On, Off, RunsSchedule
<1>5. HangInv'
  <2>1. HeldBy' = schedule /\ HeldBy = schedule
    BY DEF HeldBy, Rendering, RunsSchedule
  <2>2. \A c \in Channels : Ending(c)' = Ending(c)
    BY DEF Ending, RunsSchedule
  <2> QED
    BY <2>1, <2>2 DEF PlayingInv, HangInv, OffAhead, NoteOffs, Off, RunsSchedule
<1> QED
  BY <1>1, <1>2, <1>3, <1>4, <1>5 DEF PlayingInv

LEMMA BlockEndsKeeps ==
  ASSUME PlayingInv, BlockEnds
  PROVE  PlayingInv'
<1>1. Types'
  BY NoNotesIsASchedule DEF PlayingInv, Types, BlockEnds, uiVars
<1>2. Rendering /\ ~Rendering' /\ ~releasing
  BY PlaybackAssumption DEF PlayingInv, AudioInv, Rendering, BlockEnds
<1>3. AudioInv' /\ LoopInv' /\ StopInv' /\ PlayInv'
  BY <1>2 DEF PlayingInv, AudioInv, LoopInv, StopInv, PlayInv, Rendering, BlockEnds
<1>4. RequestInv'
  BY DEF PlayingInv, RequestInv, Changed, SameEvents, NoteOns, NoteOffs, On, Off, BlockEnds, uiVars
<1>5. HangInv'
  <2> SUFFICES ASSUME NEW c \in Channels \ missed, NEW k \in voices[c], ~Ending(c)
               PROVE  OffAhead(c, k, HeldBy, transport.position)'
    BY DEF HangInv, Ending, BlockEnds
  <2>1. OffAhead(c, k, rendered, transport.position) /\ SameEvents(c, rendered, schedule)
    BY <1>2 DEF PlayingInv, HangInv, HeldBy, PlayInv, Ending
  <2>2. OffAhead(c, k, schedule, transport.position)
    BY <2>1, SameOffAhead
  <2>3. HeldBy' = schedule /\ transport' = transport
    BY <1>2 DEF HeldBy, BlockEnds
  <2> QED
    BY <2>2, <2>3 DEF OffAhead, NoteOffs, Off
<1> QED
  BY <1>1, <1>3, <1>4, <1>5 DEF PlayingInv

\* The seam: the loop's start is before its end, so that the chunk behind it is not empty.
LEMMA WrapsFirstKeeps ==
  ASSUME PlayingInv, WrapsFirst
  PROVE  PlayingInv'
<1>1. transport \in Transports /\ transport' = Wrap(transport)
  BY DEF PlayingInv, Types, WrapsFirst
<1>2. transport' \in Transports /\ transport'.position = 0
      /\ transport'.playing = transport.playing /\ LoopEnd' = LoopEnd
  BY <1>1 DEF Wrap, Transports, LoopEnd
<1>3. LoopEnd \in Nat \ {0} /\ transport.loop /\ transport.position >= LoopEnd
  BY <1>1, ChunkLength, LoopEndIsPositive DEF PlayingInv, Types, WrapsFirst
<1>4. wrap_guard = 0
  BY <1>3 DEF PlayingInv, Types, LoopInv, WrapsFirst
<1>5. wrap_guard' = 1 /\ remaining' = remaining
  BY <1>4, PlaybackAssumption DEF WrapsFirst
<1>6. Types'
  BY <1>2, <1>5 DEF PlayingInv, Types, WrapsFirst, uiVars
<1>7. AudioInv' /\ StopInv'
  BY <1>2, <1>5 DEF PlayingInv, AudioInv, StopInv, Rendering, WrapsFirst
<1>8. LoopInv'
  BY <1>2, <1>3 DEF LoopInv
<1>9. RequestInv'
  BY DEF PlayingInv, RequestInv, Changed, SameEvents, NoteOns, NoteOffs, On, Off, WrapsFirst, uiVars
<1>10. PlayInv'
  BY DEF PlayingInv, PlayInv, Rendering, SameEvents, NoteOns, NoteOffs, On, Off, WrapsFirst
<1>11. HangInv'
  BY DEF HangInv, Ending, WrapsFirst
<1> QED
  BY <1>6, <1>7, <1>8, <1>9, <1>10, <1>11 DEF PlayingInv

LEMMA KeptAreHeld ==
  ASSUME PlayingInv, Rendering, NEW c \in Channels \ missed, NEW k \in Kept(c)
  PROVE  OffAhead(c, k, rendered, transport.position) /\ k \in Keys
<1>1. k \in voices[c] /\ ~Ending(c)
  BY DEF Kept
<1> QED
  BY <1>1 DEF PlayingInv, HangInv, HeldBy, Types

\* The channels that stay in step play what the newest schedule has for them.
LEMMA SpentKeeps ==
  ASSUME PlayingInv, Rendering, SpendsResets,
         UNCHANGED <<schedule, rendered, audioPc, uiVars>>
  PROVE  /\ RequestInv' /\ PlayInv'
         /\ \A c \in Channels : c \in missed' <=> OutOfStep(c)
<1>1. \A c \in Channels : ~reset_requested'[c] /\ (c \in missed' <=> OutOfStep(c))
  BY DEF SpendsResets
<1>2. \A c \in Channels : Changed(c, next)' <=> Changed(c, next)
  BY DEF uiVars, Changed, SameEvents, NoteOns, NoteOffs, On, Off
<1>3. RequestInv'
  BY <1>1, <1>2 DEF PlayingInv, RequestInv, OutOfStep, Replaced, uiVars
<1>4. PlayInv'
  <2> SUFFICES ASSUME NEW c \in Channels \ missed'
               PROVE  SameEvents(c, rendered, schedule)
    BY DEF PlayInv, SameEvents, NoteOns, NoteOffs, On, Off
  <2>1. CASE rendered = schedule
    BY <2>1 DEF SameEvents
  <2>2. CASE rendered # schedule
    <3>1. c \notin missed /\ ~reset_requested[c]
      BY <1>1, <2>2 DEF OutOfStep, Replaced
    <3> QED
      BY <3>1 DEF PlayingInv, PlayInv
  <2> QED
    BY <2>1, <2>2
<1> QED
  BY <1>1, <1>3, <1>4

LEMMA ChunkKeeps ==
  ASSUME PlayingInv, Chunk
  PROVE  PlayingInv'
<1> DEFINE from == transport.position
           to   == from + FramesUntilLoopWrap
<1>1. /\ voices' = [c \in Channels |-> Sounding(c, Kept(c), from, to)]
      /\ pending_all_notes_off' = ReachesSeam(to)
      /\ transport' = IF pending_all_notes_off' THEN Wrap(transport)
                      ELSE [transport EXCEPT !.position = to]
      /\ remaining' = remaining - FramesUntilLoopWrap /\ wrap_guard' = 0 /\ SpendsResets
      /\ UNCHANGED <<commands, schedule, audioPc, drained, rendered, uiVars>>
  BY DEF Chunk
<1>2. transport \in Transports /\ audioPc = "playing" /\ Rendering /\ transport.playing
  BY DEF PlayingInv, Types, Chunk, Rendering, AudioInv
<1>3. /\ from \in Nat /\ FramesUntilLoopWrap \in 1..remaining /\ to \in Nat /\ from < to
      /\ remaining \in 0..BlockFrames /\ BlockFrames \in Nat
  BY <1>2, ChunkLength, PlaybackAssumption, SMTT(30) DEF PlayingInv, Types, Transports, Chunk
<1> HIDE DEF to
<1>4. /\ transport' \in Transports /\ transport'.playing /\ LoopEnd' = LoopEnd
      /\ transport'.loop = transport.loop
      /\ transport'.position = IF pending_all_notes_off' THEN 0 ELSE to
  BY <1>1, <1>2, <1>3 DEF Wrap, Transports, LoopEnd
<1>5. Types'
  <2>1. voices' \in [Channels -> SUBSET Keys]
    BY <1>1 DEF Sounding
  <2>2. remaining' \in 0..BlockFrames
    BY <1>1, <1>3
  <2>3. pending_all_notes_off' \in BOOLEAN
    BY <1>1, <1>2 DEF ReachesSeam, Transports
  <2>4. reset_requested' \in [Channels -> BOOLEAN] /\ releasing' \in BOOLEAN
        /\ missed' \subseteq Channels
    BY <1>1 DEF SpendsResets
  <2> QED
    BY <1>1, <1>4, <2>1, <2>2, <2>3, <2>4 DEF PlayingInv, Types, uiVars
<1>6. AudioInv' /\ StopInv'
  BY <1>1, <1>2, <1>4 DEF AudioInv, StopInv, Rendering, SpendsResets
<1>7. LoopInv'
  <2>1. LoopEnd \in Nat \ {0}
    BY <1>2, LoopEndIsPositive
  <2>2. transport.loop /\ ~pending_all_notes_off' => ~(to >= LoopEnd)
    BY <1>1, Zenon DEF ReachesSeam
  <2> QED
    BY <1>1, <1>3, <1>4, <2>1, <2>2 DEF LoopInv
<1>8. /\ RequestInv' /\ PlayInv'
      /\ \A c \in Channels : c \in missed' <=> OutOfStep(c)
  BY <1>1, <1>2, SpentKeeps
<1>9. HangInv'
  <2> SUFFICES ASSUME NEW c \in Channels \ missed', NEW k \in voices'[c],
                      ~pending_all_notes_off'
               PROVE  OffAhead(c, k, HeldBy, transport.position)'
    BY DEF HangInv, Ending
  <2>1. k \in Sounding(c, Kept(c), from, to)
    BY <1>1
  <2>2. Kept(c) \in SUBSET Keys
    BY DEF Kept, PlayingInv, Types
  <2>3. \/ OffAhead(c, k, rendered, to)
        \/ k \in Kept(c) /\ \A f \in from..(to - 1) : <<k, f>> \notin NoteOffs(c, rendered)
    BY <1>3, <2>1, <2>2, SoundingIsHeld DEF PlayingInv
  <2>4. OffAhead(c, k, rendered, to)
    <3>1. SUFFICES ASSUME k \in Kept(c),
                          \A f \in from..(to - 1) : <<k, f>> \notin NoteOffs(c, rendered)
                   PROVE  OffAhead(c, k, rendered, to)
      BY <2>3
    <3>2. c \notin missed
      BY <1>8, <3>1 DEF OutOfStep
    <3>3. OffAhead(c, k, rendered, from)
      BY <1>2, <3>1, <3>2, KeptAreHeld
    <3>4. PICK f \in Nat : f >= from /\ <<k, f>> \in NoteOffs(c, rendered)
      BY <3>3 DEF OffAhead
    <3>5. f >= to
      BY <1>3, <3>1, <3>4
    <3> QED
      BY <3>4, <3>5 DEF OffAhead
  <2>5. HeldBy' = rendered /\ transport'.position = to
    BY <1>1, <1>2, <1>4 DEF HeldBy, Rendering
  <2> QED
    BY <2>4, <2>5 DEF OffAhead, NoteOffs, Off
<1> QED
  BY <1>5, <1>6, <1>7, <1>8, <1>9 DEF PlayingInv

LEMMA StoppedChunkKeeps ==
  ASSUME PlayingInv, StoppedChunk
  PROVE  PlayingInv'
<1>1. /\ voices' = [c \in Channels |-> Kept(c)] /\ SpendsResets /\ Rendering
      /\ ~transport.playing /\ ~pending_all_notes_off'
      /\ UNCHANGED <<transport, commands, schedule, audioPc, drained, rendered, wrap_guard, uiVars>>
  BY DEF StoppedChunk, Rendering, PlayingInv, AudioInv
<1>2. voices' = [c \in Channels |-> voices'[c]] /\ \A c \in Channels : voices'[c] = {}
  BY <1>1 DEF Kept, Ending, PlayingInv, StopInv
<1>3. Types'
  <2>1. voices' \in [Channels -> SUBSET Keys]
    BY <1>1, <1>2
  <2>2. remaining' = 0 /\ 0 \in 0..BlockFrames
    BY PlaybackAssumption DEF StoppedChunk
  <2>3. reset_requested' \in [Channels -> BOOLEAN] /\ releasing' \in BOOLEAN
        /\ missed' \subseteq Channels
    BY <1>1 DEF SpendsResets
  <2>4. pending_all_notes_off' \in BOOLEAN
    BY DEF StoppedChunk
  <2> QED
    BY <1>1, <2>1, <2>2, <2>3, <2>4 DEF PlayingInv, Types, uiVars
<1>4. AudioInv' /\ LoopInv' /\ StopInv' /\ HangInv'
  BY <1>1, <1>2 DEF AudioInv, LoopInv, StopInv, HangInv, Rendering, SpendsResets, StoppedChunk
<1>5. RequestInv' /\ PlayInv'
  BY <1>1, SpentKeeps
<1> QED
  BY <1>3, <1>4, <1>5 DEF PlayingInv

-----------------------------------------------------------------------------
(* The theorems. *)

LEMMA PlayingInvHolds == Spec => []PlayingInv
<1>1. Init => PlayingInv
  <2> SUFFICES ASSUME Init PROVE PlayingInv
    OBVIOUS
  <2>1. Types
    <3>1. transport \in Transports
      BY PlaybackAssumption, TemposAreNatural DEF Init, Transports
    <3>2. commands \in Seq(QueuedCommands) /\ Len(commands) <= QueueLimit
      BY PlaybackAssumption DEF Init
    <3>3. drained \in 0..DrainLimit /\ remaining \in 0..BlockFrames /\ wrap_guard \in 0..1
      BY PlaybackAssumption DEF Init
    <3>4. reset_requested \in [Channels -> BOOLEAN] /\ voices \in [Channels -> SUBSET Keys]
      BY DEF Init
    <3> QED
      BY <3>1, <3>2, <3>3, <3>4, NoNotesIsASchedule DEF Init, Types
  <2>2. audioPc = "idle" /\ uiPc = "idle" /\ ~releasing /\ \A c \in Channels : voices[c] = {}
    BY DEF Init
  <2>3. AudioInv /\ LoopInv /\ StopInv
    BY <2>2 DEF AudioInv, LoopInv, StopInv, Rendering
  <2>4. RequestInv /\ PlayInv /\ HangInv
    BY <2>2 DEF RequestInv, PlayInv, HangInv, Rendering
  <2> QED
    BY <2>1, <2>3, <2>4 DEF PlayingInv
<1>2. PlayingInv /\ [Next]_vars => PlayingInv'
  <2> SUFFICES ASSUME PlayingInv, [Next]_vars PROVE PlayingInv'
    OBVIOUS
  <2>1. CASE Main
    BY <2>1, PostCommandKeeps, ScheduleEditKeeps, RequestKeeps, PublishKeeps, PostTempoKeeps DEF Main
  <2>2. CASE Block
    BY <2>2, BlockBeginsKeeps, DrainsKeeps, RunsScheduleKeeps, WrapsFirstKeeps, ChunkKeeps,
       StoppedChunkKeeps, BlockEndsKeeps DEF Block
  <2>3. CASE UNCHANGED vars
    <3>1. UNCHANGED playVars /\ commands' = commands /\ uiPc' = uiPc
      BY <2>3 DEF vars, playVars, uiVars, audioVars
    <3> QED
      BY <3>1, QueueKeeps DEF PlayingInv, Types
  <2> QED
    BY <2>1, <2>2, <2>3 DEF Next
<1> QED
  BY <1>1, <1>2, PTL DEF Spec

(* For any notes, tempos, loops, blocks and queue: between blocks a voice of a
   channel that was not missed has its note-off ahead in the schedule that plays
   next, or a reset or release waiting (engine.cpp:718-753, 1161-1212); a stopped
   transport is silent; and a block leaves the playhead before the loop's end
   (engine.cpp:939-968). *)
THEOREM PlaysAsScheduled == Spec => []SoundsAsScheduled
<1>1. PlayingInv => SoundsAsScheduled
  <2> SUFFICES ASSUME PlayingInv PROVE SoundsAsScheduled
    OBVIOUS
  <2>1. TypeOK
    BY PlaybackAssumption DEF PlayingInv, Types, TypeOK, QueuedCommands
  <2>2. HungOnlyIfMissed
    <3> SUFFICES ASSUME audioPc = "idle", NEW c \in Channels \ missed, NEW k \in voices[c],
                        ~Ending(c)
                 PROVE  HasNoteOffAhead(c, k)
      BY DEF HungOnlyIfMissed
    <3>1. OffAhead(c, k, schedule, transport.position)
      BY DEF PlayingInv, HangInv, HeldBy, Rendering
    <3> QED
      BY <3>1, OffAheadIsANote DEF HasNoteOffAhead
  <2>3. StopSilences
    BY DEF PlayingInv, StopInv, StopSilences
  <2>4. PositionInsideLoop
    BY PlaybackAssumption DEF PlayingInv, LoopInv, PositionInsideLoop
  <2> QED
    BY <2>1, <2>2, <2>3, <2>4 DEF SoundsAsScheduled
<1> QED
  BY <1>1, PlayingInvHolds, PTL

\* A voice is cut by a release that reaches its channel, or by its own note-off.
RingsOn ==
  \A c \in Channels, k \in Keys :
    /\ reset_requested'[c] /\ ~reset_requested[c] => ~SameEvents(c, next, schedule)
    /\ (k \in voices[c] /\ k \notin voices'[c] /\ ~pending_all_notes_off /\ ~releasing)
         => \/ reset_requested[c]
            \/ \E n \in rendered.notes[c] :
                 n.key = k /\ Off(rendered, n) >= transport.position
                 /\ Off(rendered, n) < transport.position + FramesUntilLoopWrap

(* publishSchedule() asks no reset of a channel whose events stay what they were,
   and no voice ends without a release or its own note-off in the chunk
   (engine.cpp:1161-1196, 755-824). *)
THEOREM OthersRingOn == Spec => UntouchedChannelsRingOn
<1>1. PlayingInv /\ [Next]_vars => [RingsOn]_vars
  <2> SUFFICES ASSUME PlayingInv, Next PROVE RingsOn
    OBVIOUS
  <2>1. \A c \in Channels : reset_requested'[c] /\ ~reset_requested[c] => ~SameEvents(c, next, schedule)
    <3>1. CASE \E c \in Channels : RequestChannelReset(c)
      BY <3>1 DEF RequestChannelReset, PlayingInv, RequestInv, Types, Changed
    <3>2. CASE Chunk \/ StoppedChunk
      BY <3>2 DEF Chunk, StoppedChunk, SpendsResets
    <3>3. CASE ~(Chunk \/ StoppedChunk \/ \E c \in Channels : RequestChannelReset(c))
      <4>1. reset_requested' = reset_requested
        BY <3>3 DEF Next, Main, Block, PostCommand, Edit, PublishSchedule, PostTempo, BlockBegins,
           DrainsCommand, RunsSchedule, WrapsFirst, BlockEnds
      <4> QED
        BY <4>1
    <3> QED
      BY <3>1, <3>2, <3>3
  <2>2. ASSUME NEW c \in Channels, NEW k \in voices[c], k \notin voices'[c], ~Ending(c)
        PROVE  \E n \in rendered.notes[c] :
                 n.key = k /\ Off(rendered, n) >= transport.position
                 /\ Off(rendered, n) < transport.position + FramesUntilLoopWrap
    <3>1. voices' # voices /\ k \in Kept(c)
      BY <2>2 DEF Kept
    <3>2. Chunk
      <4>1. ~StoppedChunk
        BY <2>2, <3>1 DEF StoppedChunk
      <4> QED
        BY <3>1, <4>1 DEF Next, Main, Block, PostCommand, Edit, RequestChannelReset, PublishSchedule,
           PostTempo, BlockBegins, DrainsCommand, RunsSchedule, WrapsFirst, BlockEnds
    <3>3. k \notin Sounding(c, Kept(c), transport.position,
                            transport.position + FramesUntilLoopWrap)
      BY <2>2, <3>2 DEF Chunk
    <3>4. /\ Kept(c) \in SUBSET Keys /\ transport.position \in Nat
          /\ transport.position + FramesUntilLoopWrap \in Nat
      <4>1. FramesUntilLoopWrap \in Nat /\ transport.position \in Nat
        BY <3>2, ChunkLength, PlaybackAssumption DEF Chunk, PlayingInv, Types, Transports
      <4> QED
        BY <4>1 DEF Kept, PlayingInv, Types
    <3> QED
      BY <3>1, <3>3, <3>4, EndedByNoteOff DEF PlayingInv
  <2> QED
    BY <2>1, <2>2 DEF RingsOn, Ending
<1> QED
  BY <1>1, PlayingInvHolds, PTL DEF Spec, UntouchedChannelsRingOn, RingsOn
=============================================================================
