------------------------------ MODULE LeftFold ------------------------------
(***************************************************************************)
(* What FoldLeft computes, of any operator: nothing, one element more, one *)
(* sequence after another.  A composite command, its revert and its roll-  *)
(* back are such folds (model/command.h).  FoldLeft is defined by CHOOSE,  *)
(* so that the function chosen exists, and that it is the one for every    *)
(* prefix, is shown first.                                                 *)
(***************************************************************************)
EXTENDS Integers, SequencesExt, WellFoundedInduction, TLAPS

CONSTANT op(_, _)

Fold(base, seq) == FoldLeft(op, base, seq)

-----------------------------------------------------------------------------
(* Induction over a bounded count *)

LEMMA LeastOf ==
  ASSUME NEW S \in SUBSET Nat, S # {}
  PROVE  \E k \in S : \A j \in S : ~(j < k)
<1>1. PICK k \in S : \A j \in S : ~(<<j, k>> \in OpToRel(<, Nat))
  BY NatLessThanWellFounded, WFMin
<1>2. \A j \in S : ~(j < k)
  BY <1>1 DEF OpToRel
<1> QED BY <1>2

LEMMA Counting ==
  ASSUME NEW n \in Nat, NEW T, 0 \in T, \A k \in 0..(n - 1) : k \in T => k + 1 \in T
  PROVE  n \in T
<1> SUFFICES ASSUME n \notin T PROVE FALSE
  OBVIOUS
<1> DEFINE missing == {k \in 0..n : k \notin T}
<1>1. missing \in SUBSET Nat /\ missing # {}
  OBVIOUS
<1>2. PICK k \in missing : \A j \in missing : ~(j < k)
  BY <1>1, LeastOf
<1>3. k \in 0..n /\ k \notin T /\ k # 0
  OBVIOUS
<1>4. k - 1 \in 0..(n - 1) /\ k - 1 < k
  BY <1>3
<1>5. k - 1 \notin missing
  BY <1>2, <1>4
<1>6. k - 1 \in T
  BY <1>4, <1>5
<1>7. (k - 1) + 1 \in T
  BY <1>4, <1>6
<1> QED BY <1>3, <1>7

-----------------------------------------------------------------------------
(* What a fold computes on the way *)

IsFold(f, base, seq, S) ==
  f = [s \in SUBSET S |-> IF s = {} THEN base ELSE op(f[s \ {Max(s)}], seq[Max(s)])]

LEMMA FoldLeftIs ==
  ASSUME NEW base, NEW seq
  PROVE  Fold(base, seq) =
           (CHOOSE f : IsFold(f, base, seq, DOMAIN seq))[DOMAIN seq]
BY DEF Fold, FoldLeft, MapThenFoldSet, IsFold

LEMMA LargestIs ==
  ASSUME NEW k \in Nat, NEW s \in SUBSET (1..(k + 1))
  PROVE  /\ k + 1 \in s => Max(s) = k + 1 /\ s \ {k + 1} \in SUBSET (1..k)
         /\ k + 1 \notin s => s \in SUBSET (1..k)
<1>1. ASSUME k + 1 \in s
      PROVE  Max(s) = k + 1
  <2>1. \A y \in s : k + 1 >= y
    OBVIOUS
  <2>2. \A x \in s : (\A y \in s : x >= y) => x = k + 1
    BY <1>1, <2>1
  <2> QED BY <1>1, <2>1, <2>2 DEF Max
<1> QED BY <1>1

LEMMA FoldExists ==
  ASSUME NEW base, NEW seq, NEW n \in Nat
  PROVE  \E f : IsFold(f, base, seq, 1..n)
<1> DEFINE T == {k \in 0..n : \E f : IsFold(f, base, seq, 1..k)}
<1>1. 0 \in T
  <2> DEFINE f == [s \in SUBSET (1..0) |-> base]
  <2>1. IsFold(f, base, seq, 1..0)
    BY DEF IsFold
  <2> QED BY <2>1
<1>2. ASSUME NEW k \in 0..(n - 1), k \in T
      PROVE  k + 1 \in T
  <2>1. PICK f : IsFold(f, base, seq, 1..k)
    BY <1>2
  <2> DEFINE g == [s \in SUBSET (1..(k + 1)) |->
                     IF k + 1 \in s THEN op(f[s \ {k + 1}], seq[k + 1]) ELSE f[s]]
             h == [s \in SUBSET (1..(k + 1)) |->
                     IF s = {} THEN base ELSE op(g[s \ {Max(s)}], seq[Max(s)])]
  <2>2. ASSUME NEW s \in SUBSET (1..(k + 1))
        PROVE  g[s] = h[s]
    <3>1. CASE k + 1 \in s
      <4>1. Max(s) = k + 1 /\ s \ {k + 1} \in SUBSET (1..k) /\ s # {}
        BY <3>1, LargestIs
      <4>2. k + 1 \notin (s \ {k + 1}) /\ s \ {k + 1} \in SUBSET (1..(k + 1))
        OBVIOUS
      <4>3. g[s \ {k + 1}] = f[s \ {k + 1}]
        BY <4>2
      <4>4. h[s] = op(g[s \ {k + 1}], seq[k + 1])
        BY <4>1
      <4>5. g[s] = op(f[s \ {k + 1}], seq[k + 1])
        BY <3>1
      <4> QED BY <4>3, <4>4, <4>5
    <3>2. CASE k + 1 \notin s
      <4>1. s \in SUBSET (1..k)
        BY <3>2, LargestIs
      <4>2. g[s] = f[s]
        BY <3>2
      <4>3. CASE s = {}
        <5>1. f[s] = base
          BY <2>1, <4>1, <4>3 DEF IsFold
        <5> QED BY <4>2, <4>3, <5>1
      <4>4. CASE s # {}
        <5>1. f[s] = op(f[s \ {Max(s)}], seq[Max(s)])
          BY <2>1, <4>1, <4>4 DEF IsFold
        <5>2. s \ {Max(s)} \in SUBSET (1..(k + 1)) /\ k + 1 \notin s \ {Max(s)}
          BY <3>2
        <5>3. g[s \ {Max(s)}] = f[s \ {Max(s)}]
          BY <5>2
        <5> QED BY <4>2, <4>4, <5>1, <5>3
      <4> QED BY <4>3, <4>4
    <3> QED BY <3>1, <3>2
  <2>3. g = h
    BY <2>2
  <2>4. IsFold(g, base, seq, 1..(k + 1))
    BY <2>3 DEF IsFold
  <2> QED BY <2>4
<1> HIDE DEF T
<1>3. n \in T
  BY <1>1, <1>2, Counting
<1> QED BY <1>3 DEF T

\* Two folds agree where the sequences do.
LEMMA FoldsAgree ==
  ASSUME NEW base, NEW some, NEW other, NEW m \in Nat, NEW n \in Nat, n <= m,
         NEW f, IsFold(f, base, some, 1..m), NEW g, IsFold(g, base, other, 1..n),
         \A k \in 1..n : some[k] = other[k]
  PROVE  f[1..n] = g[1..n]
<1> DEFINE T == {k \in 0..n : \A s \in SUBSET (1..k) : f[s] = g[s]}
<1>1. 0 \in T
  <2>1. f[{}] = base /\ g[{}] = base
    BY DEF IsFold
  <2>2. \A s \in SUBSET (1..0) : f[s] = g[s]
    <3>1. 1..0 = {}
      OBVIOUS
    <3> QED BY <2>1, <3>1
  <2>3. 0 \in 0..n
    OBVIOUS
  <2> QED BY <2>2, <2>3
<1>2. ASSUME NEW k \in 0..(n - 1), k \in T
      PROVE  k + 1 \in T
  <2>1. ASSUME NEW s \in SUBSET (1..(k + 1))
        PROVE  f[s] = g[s]
    <3>1. CASE k + 1 \in s
      <4>1. Max(s) = k + 1 /\ s \ {k + 1} \in SUBSET (1..k) /\ s # {}
        BY <3>1, LargestIs
      <4>2. s \in SUBSET (1..n) /\ s \in SUBSET (1..m)
        OBVIOUS
      <4>3. /\ f[s] = op(f[s \ {k + 1}], some[k + 1])
            /\ g[s] = op(g[s \ {k + 1}], other[k + 1])
        BY <4>1, <4>2 DEF IsFold
      <4>4. f[s \ {k + 1}] = g[s \ {k + 1}] /\ some[k + 1] = other[k + 1]
        BY <1>2, <4>1
      <4> QED BY <4>3, <4>4
    <3>2. CASE k + 1 \notin s
      BY <1>2, <3>2, LargestIs
    <3> QED BY <3>1, <3>2
  <2> QED BY <2>1
<1> HIDE DEF T
<1>3. n \in T
  BY <1>1, <1>2, Counting
<1>4. 1..n \in SUBSET (1..n)
  OBVIOUS
<1> QED BY <1>3, <1>4 DEF T

LEMMA FoldOfNone ==
  ASSUME NEW base
  PROVE  Fold(base, <<>>) = base
<1>1. DOMAIN <<>> = 1..0 /\ 1..0 = {}
  OBVIOUS
<1>2. IsFold(CHOOSE f : IsFold(f, base, <<>>, 1..0), base, <<>>, 1..0)
  BY FoldExists
<1>3. (CHOOSE f : IsFold(f, base, <<>>, 1..0))[{}] = base
  BY <1>2 DEF IsFold
<1> QED BY <1>1, <1>3, FoldLeftIs

\* A part more is folded in last, as composites apply their parts in order.
THEOREM FoldOfAppend ==
  ASSUME NEW base, NEW n \in Nat, NEW seq, DOMAIN seq = 1..n,
         NEW longer, DOMAIN longer = 1..(n + 1), \A k \in 1..n : longer[k] = seq[k]
  PROVE  Fold(base, longer) = op(Fold(base, seq), longer[n + 1])
<1> DEFINE f == CHOOSE h : IsFold(h, base, longer, 1..(n + 1))
           g == CHOOSE h : IsFold(h, base, seq, 1..n)
<1>1. IsFold(f, base, longer, 1..(n + 1)) /\ IsFold(g, base, seq, 1..n)
  <2>1. n + 1 \in Nat
    OBVIOUS
  <2>2. \E h : IsFold(h, base, longer, 1..(n + 1))
    BY <2>1, FoldExists
  <2>3. \E h : IsFold(h, base, seq, 1..n)
    BY FoldExists
  <2> QED BY <2>2, <2>3
<1>2. Fold(base, longer) = f[1..(n + 1)] /\ Fold(base, seq) = g[1..n]
  BY FoldLeftIs
<1> HIDE DEF f, g
<1>3. f[1..n] = g[1..n]
  BY <1>1, FoldsAgree
<1>4. Max(1..(n + 1)) = n + 1 /\ (1..(n + 1)) \ {n + 1} = 1..n /\ 1..(n + 1) # {}
  <2>1. n + 1 \in 1..(n + 1) /\ 1..(n + 1) \in SUBSET (1..(n + 1))
    OBVIOUS
  <2>2. Max(1..(n + 1)) = n + 1
    BY <2>1, LargestIs
  <2>3. (1..(n + 1)) \ {n + 1} = 1..n
    OBVIOUS
  <2> QED BY <2>1, <2>2, <2>3
<1>5. f[1..(n + 1)] = op(f[1..n], longer[n + 1])
  <2>1. PICK all : all = 1..(n + 1)
    OBVIOUS
  <2>2. all \in SUBSET all /\ all # {} /\ Max(all) = n + 1 /\ all \ {n + 1} = 1..n
    BY <1>4, <2>1
  <2>3. f = [s \in SUBSET all |-> IF s = {} THEN base ELSE op(f[s \ {Max(s)}], longer[Max(s)])]
    BY <1>1, <2>1 DEF IsFold
  <2>4. f[all] = op(f[all \ {Max(all)}], longer[Max(all)])
    BY <2>2, <2>3
  <2> QED BY <2>1, <2>2, <2>4
<1> QED BY <1>2, <1>3, <1>5

Upto(seq, k) == [j \in 1..k |-> seq[j]]

LEMMA FoldOfUpto ==
  ASSUME NEW base, NEW seq, NEW k \in Nat
  PROVE  Fold(base, Upto(seq, k + 1)) = op(Fold(base, Upto(seq, k)), seq[k + 1])
<1> DEFINE some == Upto(seq, k)
           more == Upto(seq, k + 1)
<1>1. /\ DOMAIN some = 1..k /\ DOMAIN more = 1..(k + 1)
      /\ \A j \in 1..k : more[j] = some[j]
      /\ more[k + 1] = seq[k + 1]
  BY DEF Upto
<1> HIDE DEF some, more
<1>2. Fold(base, more) = op(Fold(base, some), more[k + 1])
  BY <1>1, FoldOfAppend
<1> QED BY <1>1, <1>2 DEF some, more

LEMMA UptoNone ==
  ASSUME NEW seq
  PROVE  Upto(seq, 0) = <<>>
BY DEF Upto

LEMMA FoldOfCons ==
  ASSUME NEW base, NEW n \in Nat, NEW seq, seq = Upto(seq, n),
         NEW longer, longer = Upto(longer, n + 1), \A k \in 1..n : longer[k + 1] = seq[k]
  PROVE  Fold(base, longer) = Fold(op(base, longer[1]), seq)
<1> DEFINE first == op(base, longer[1])
           Same(k) == Fold(base, Upto(longer, k + 1)) = Fold(first, Upto(seq, k))
           T == {k \in 0..n : Same(k)}
<1>1. 0 \in T
  <2>1. Fold(base, Upto(longer, 0 + 1)) = op(Fold(base, Upto(longer, 0)), longer[0 + 1])
    BY FoldOfUpto
  <2>2. Same(0)
    BY <2>1, UptoNone, FoldOfNone
  <2> QED BY <2>2
<1>2. ASSUME NEW k \in 0..(n - 1), k \in T
      PROVE  k + 1 \in T
  <2>1. k \in Nat /\ k + 1 \in Nat /\ k + 1 \in 0..n /\ k + 1 \in 1..n
    OBVIOUS
  <2>2. Fold(base, Upto(longer, (k + 1) + 1)) =
          op(Fold(base, Upto(longer, k + 1)), longer[(k + 1) + 1])
    BY <2>1, FoldOfUpto
  <2>3. Fold(first, Upto(seq, k + 1)) = op(Fold(first, Upto(seq, k)), seq[k + 1])
    BY <2>1, FoldOfUpto
  <2>4. longer[(k + 1) + 1] = seq[k + 1]
    BY <2>1
  <2>5. Same(k)
    BY <1>2
  <2>6. Same(k + 1)
    BY <2>2, <2>3, <2>4, <2>5
  <2> QED BY <2>1, <2>6
<1> HIDE DEF T
<1>3. n \in T
  BY <1>1, <1>2, Counting
<1>4. Same(n)
  BY <1>3 DEF T
<1> QED BY <1>4

LEMMA SeqIsUpto ==
  ASSUME NEW S, NEW seq \in Seq(S)
  PROVE  seq = Upto(seq, Len(seq))
BY DEF Upto

\* What is behind a prefix is folded into what the prefix comes to: a composite
\* spliced into another does what it would do on its own.
THEOREM FoldOfConcat ==
  ASSUME NEW base, NEW S, NEW some \in Seq(S), NEW T, NEW more \in Seq(T)
  PROVE  Fold(base, some \o more) = Fold(Fold(base, some), more)
<1> DEFINE all == some \o more
           m == Len(some)
           Same(k) == Fold(base, Upto(all, m + k)) = Fold(Fold(base, some), Upto(more, k))
           Ks == {k \in 0..Len(more) : Same(k)}
<1>1. /\ m \in Nat /\ Len(more) \in Nat /\ Len(all) = m + Len(more) /\ all \in Seq(S \cup T)
      /\ \A k \in 1..m : all[k] = some[k]
      /\ \A k \in 1..Len(more) : all[m + k] = more[k]
  OBVIOUS
<1> HIDE DEF all, m
<1>2. 0 \in Ks
  <2>1. some = Upto(some, m) /\ m + 0 = m
    BY <1>1, SeqIsUpto DEF m
  <2>2. Upto(all, m) = Upto(some, m)
    BY <1>1 DEF Upto
  <2>3. Upto(all, m + 0) = some
    BY <2>1, <2>2
  <2>4. Same(0)
    BY <2>3, UptoNone, FoldOfNone
  <2> QED BY <1>1, <2>4
<1>3. ASSUME NEW k \in 0..(Len(more) - 1), k \in Ks
      PROVE  k + 1 \in Ks
  <2>1. k \in Nat /\ m + k \in Nat /\ k + 1 \in 1..Len(more) /\ m + (k + 1) = (m + k) + 1
    BY <1>1
  <2>2. Fold(base, Upto(all, (m + k) + 1)) = op(Fold(base, Upto(all, m + k)), all[(m + k) + 1])
    BY <2>1, FoldOfUpto
  <2>3. Fold(Fold(base, some), Upto(more, k + 1)) =
          op(Fold(Fold(base, some), Upto(more, k)), more[k + 1])
    BY <2>1, FoldOfUpto
  <2>4. all[(m + k) + 1] = more[k + 1]
    BY <1>1, <2>1
  <2>5. Same(k)
    BY <1>3
  <2>6. Same(k + 1)
    BY <2>3, <2>1, <2>2, <2>5, <2>4
  <2> QED BY <2>1, <2>6
<1> HIDE DEF Ks
<1>4. Len(more) \in Ks
  BY <1>1, <1>2, <1>3, Counting
<1>5. Same(Len(more))
  BY <1>4 DEF Ks
<1>6. all = Upto(all, m + Len(more)) /\ more = Upto(more, Len(more))
  BY <1>1, SeqIsUpto
<1> QED BY <1>5, <1>6 DEF all

LEMMA FoldOfOne ==
  ASSUME NEW base, NEW x
  PROVE  Fold(base, <<x>>) = op(base, x)
<1>1. Fold(base, Upto(<<x>>, 0 + 1)) = op(Fold(base, Upto(<<x>>, 0)), <<x>>[0 + 1])
  BY FoldOfUpto
<1>2. <<x>> = Upto(<<x>>, 1)
  BY DEF Upto
<1> QED BY <1>1, <1>2, UptoNone, FoldOfNone
=============================================================================
