------------------------- MODULE CommandRunnerProofs -------------------------
(***************************************************************************)
(* What the operators of CommandRunner do with a text of any length:       *)
(* CompleteRecords, which cuts it into records and a remainder, Keep,      *)
(* which keeps the end of it, and the rendering of records, against        *)
(* LogText, which says what the log is to show.                            *)
(*                                                                         *)
(* Induction over lengths is done on a set of numbers: the numbers for     *)
(* which a fact fails have a least one if there is any (LeastOf), as the   *)
(* order of the natural numbers is well founded.                           *)
(***************************************************************************)
EXTENDS InstallerProgress, SequenceTheorems, FiniteSetTheorems, WellFoundedInduction,
        TLAPS

(***************************************************************************)
(* Induction, over sets instead of predicates.                             *)
(***************************************************************************)

\* A set of numbers that is not empty has a least one.
LEMMA LeastOf ==
  ASSUME NEW T, T \subseteq Nat, T # {}
  PROVE  \E x \in T : \A y \in T : x <= y
<1>1. PICK x \in T : \A y \in T : <<y, x>> \notin OpToRel(<, Nat)
  BY Zenon, NatLessThanWellFounded, WFMin
<1>2. \A y \in T : <<y, x>> \in OpToRel(<, Nat) <=> y < x
  BY DEF OpToRel
<1>3. \A y \in T : ~(y < x)
  BY <1>1, <1>2, Zenon
<1> QED BY <1>3

\* The order of numbers, for lemmas that are not to reason about it.
LEMMA NatOrder ==
  \A i, n \in Nat : (i < n => i # n) /\ (i <= n /\ ~(i < n) => i = n)
OBVIOUS

\* A set that has 0 and with every number the next one has them all.
LEMMA InductionOn ==
  ASSUME NEW T, 0 \in T, \A n \in Nat : n \in T => n + 1 \in T
  PROVE  \A n \in Nat : n \in T
<1> SUFFICES ASSUME Nat \ T # {} PROVE FALSE
  OBVIOUS
<1>1. PICK x \in Nat \ T : \A y \in Nat \ T : x <= y
  <2>1. Nat \ T \subseteq Nat
    OBVIOUS
  <2> QED BY <2>1, LeastOf
<1>2. x # 0 /\ x - 1 \in Nat /\ x - 1 \in T
  BY <1>1
<1> QED BY <1>1, <1>2

(***************************************************************************)
(* FlattenSeq, by its partial results.                                     *)
(***************************************************************************)

Cat(s, t) == s \o t

Partial(f, seqs, n) ==
  /\ DOMAIN f = 0..n
  /\ f[0] = <<>>
  /\ \A i \in 1..n : f[i] = Cat(f[i - 1], seqs[i])

\* Partial results exist.
LEMMA PartialExists ==
  ASSUME NEW seqs, NEW n \in Nat
  PROVE  \E f : Partial(f, seqs, n)
<1> DEFINE T == {k \in Nat : \E f : Partial(f, seqs, k)}
<1>1. 0 \in T
  <2>1. Partial([i \in 0..0 |-> <<>>], seqs, 0)
    BY DEF Partial
  <2> QED BY <2>1
<1>2. ASSUME NEW k \in Nat, k \in T PROVE k + 1 \in T
  <2>1. PICK f : Partial(f, seqs, k)
    BY <1>2
  <2> DEFINE last == Cat(f[k], seqs[k + 1])
             g == [i \in 0..(k + 1) |-> IF i = k + 1 THEN last ELSE f[i]]
  <2>2. /\ DOMAIN g = 0..(k + 1) /\ g[k + 1] = last
        /\ \A i \in 0..k : g[i] = f[i]
    OBVIOUS
  <2>3. \A i \in 1..k : g[i] = Cat(g[i - 1], seqs[i])
    <3> HIDE DEF g
    <3> SUFFICES ASSUME NEW i \in 1..k PROVE g[i] = Cat(g[i - 1], seqs[i])
      OBVIOUS
    <3>1. i \in 0..k /\ i - 1 \in 0..k
      OBVIOUS
    <3>2. f[i] = Cat(f[i - 1], seqs[i])
      BY <2>1 DEF Partial
    <3> QED BY <2>2, <3>1, <3>2
  <2>4. g[k + 1] = Cat(g[(k + 1) - 1], seqs[k + 1])
    <3> HIDE DEF g
    <3>1. (k + 1) - 1 = k /\ k \in 0..k
      OBVIOUS
    <3> QED BY <2>2, <3>1
  <2>5. g[0] = <<>>
    <3> HIDE DEF g
    <3>1. 0 \in 0..k
      OBVIOUS
    <3> QED BY <2>1, <2>2, <3>1 DEF Partial
  <2>6. Partial(g, seqs, k + 1)
    <3> HIDE DEF g
    <3>1. \A i \in 1..(k + 1) : i \in 1..k \/ i = k + 1
      OBVIOUS
    <3> QED BY <2>2, <2>3, <2>4, <2>5, <3>1 DEF Partial
  <2> HIDE DEF g
  <2> QED BY <2>6
<1> HIDE DEF T
<1>3. n \in T
  BY <1>1, <1>2, InductionOn
<1> QED BY <1>3 DEF T

\* Two sequences of partial results agree.
LEMMA PartialUnique ==
  ASSUME NEW seqs, NEW n \in Nat, NEW f, NEW g,
         Partial(f, seqs, n), Partial(g, seqs, n)
  PROVE  f[n] = g[n]
<1> DEFINE T == {k \in Nat : k <= n => f[k] = g[k]}
<1>1. 0 \in T
  BY DEF Partial
<1>2. ASSUME NEW k \in Nat, k \in T PROVE k + 1 \in T
  <2> SUFFICES ASSUME k + 1 <= n PROVE f[k + 1] = g[k + 1]
    OBVIOUS
  <2>1. k + 1 \in 1..n /\ (k + 1) - 1 = k
    OBVIOUS
  <2>2. f[k] = g[k]
    BY <1>2
  <2> QED BY <2>1, <2>2 DEF Partial
<1> HIDE DEF T
<1>3. n \in T
  BY <1>1, <1>2, InductionOn
<1> QED BY <1>3 DEF T

\* FlattenSeq returns the last partial result.
LEMMA FlattenIsPartial ==
  ASSUME NEW seqs, Len(seqs) \in Nat, NEW f, Partial(f, seqs, Len(seqs)),
         Len(seqs) = 0 => seqs = <<>>, Cat(<<>>, seqs[1]) = seqs[1]
  PROVE  FlattenSeq(seqs) = f[Len(seqs)]
<1>1. CASE Len(seqs) = 0
  BY <1>1 DEF FlattenSeq, Partial
<1>2. CASE Len(seqs) # 0
  <2> DEFINE n == Len(seqs)
  <2>0. n \in Nat \ {0}
    BY <1>2
  <2> HIDE DEF n
  <2> DEFINE h0 == [i \in 1..n |-> f[i]]
  <2>1. h0 = [i \in 1..n |-> IF i = 1 THEN seqs[i] ELSE Cat(h0[i - 1], seqs[i])]
    <3>1. f[1] = seqs[1]
      BY <2>0 DEF Partial, n
    <3>2. ASSUME NEW i \in 2..n PROVE f[i] = Cat(f[i - 1], seqs[i])
      BY <2>0 DEF Partial, n
    <3> QED BY <2>0, <3>1, <3>2
  <2> HIDE DEF h0
  <2>2. PICK h : /\ h = [i \in 1..n |-> IF i = 1 THEN seqs[i] ELSE Cat(h[i - 1], seqs[i])]
                 /\ FlattenSeq(seqs) = h[n]
    BY <1>2, <2>1 DEF FlattenSeq, n, Cat
  <2>3. \A i \in 1..n : h[i] = IF i = 1 THEN seqs[i] ELSE Cat(h[i - 1], seqs[i])
    BY <2>2
  <2> DEFINE g == [i \in 0..n |-> IF i = 0 THEN <<>> ELSE h[i]]
  <2>4. Partial(g, seqs, n)
    <3>2. g[1] = Cat(g[0], seqs[1])
      BY <2>0, <2>3
    <3>3. ASSUME NEW i \in 2..n PROVE g[i] = Cat(g[i - 1], seqs[i])
      BY <2>0, <2>3
    <3> HIDE DEF g
    <3>4. DOMAIN g = 0..n /\ g[0] = <<>>
      BY <2>0 DEF g
    <3> QED BY <2>0, <3>2, <3>3, <3>4 DEF Partial
  <2>5. g[n] = h[n]
    BY <2>0
  <2> HIDE DEF g
  <2> QED BY <2>0, <2>2, <2>4, <2>5, PartialUnique DEF n
<1> QED BY <1>1, <1>2

\* Sequences of sequences over S.
LEMMA FlattenBy ==
  ASSUME NEW S, NEW seqs \in Seq(Seq(S)), NEW f, Partial(f, seqs, Len(seqs))
  PROVE  FlattenSeq(seqs) = f[Len(seqs)]
<1>1. Len(seqs) \in Nat /\ (Len(seqs) = 0 => seqs = <<>>)
  BY LenProperties, EmptySeq
<1>2. CASE seqs = <<>>
  <2>1. Len(seqs) = 0
    BY <1>2
  <2>2. FlattenSeq(seqs) = <<>>
    BY <1>2, <2>1 DEF FlattenSeq
  <2> QED BY <2>1, <2>2 DEF Partial
<1>3. CASE seqs # <<>>
  <2>1. seqs[1] \in Seq(S)
    BY <1>1, <1>3, ElementOfSeq
  <2>2. Cat(<<>>, seqs[1]) = seqs[1]
    BY <2>1, ConcatEmptySeq DEF Cat
  <2> QED BY <1>1, <2>2, FlattenIsPartial
<1> QED BY <1>2, <1>3

\* The partial results of a sequence of texts are texts.
LEMMA FlattenParts ==
  ASSUME NEW S, NEW seqs \in Seq(Seq(S))
  PROVE  \E f : /\ Partial(f, seqs, Len(seqs))
                /\ FlattenSeq(seqs) = f[Len(seqs)]
                /\ \A i \in 0..Len(seqs) : f[i] \in Seq(S)
<1>1. Len(seqs) \in Nat
  BY LenProperties
<1>2. PICK f : Partial(f, seqs, Len(seqs))
  BY <1>1, PartialExists
<1> DEFINE T == {k \in Nat : k <= Len(seqs) => f[k] \in Seq(S)}
<1>3. 0 \in T
  BY <1>1, <1>2, EmptySeq DEF Partial
<1>4. ASSUME NEW k \in Nat, k \in T PROVE k + 1 \in T
  <2> SUFFICES ASSUME k + 1 <= Len(seqs) PROVE f[k + 1] \in Seq(S)
    OBVIOUS
  <2>1. k + 1 \in 1..Len(seqs) /\ (k + 1) - 1 = k
    BY <1>1
  <2>2. f[k] \in Seq(S)
    BY <1>1, <1>4
  <2>3. seqs[k + 1] \in Seq(S)
    BY <2>1, ElementOfSeq
  <2>4. Cat(f[k], seqs[k + 1]) \in Seq(S)
    BY <2>2, <2>3, ConcatProperties DEF Cat
  <2> QED BY <1>2, <2>1, <2>4 DEF Partial
<1>5. \A k \in Nat : k \in T
  <2> HIDE DEF T
  <2> QED BY <1>3, <1>4, InductionOn
<1>6. \A k \in 0..Len(seqs) : f[k] \in Seq(S)
  BY <1>1, <1>5
<1> QED BY <1>2, <1>6, FlattenBy

\* Concatenation, as an operator that is not unfolded.
LEMMA CatAssociative ==
  ASSUME NEW S, NEW s \in Seq(S), NEW t \in Seq(S), NEW u \in Seq(S)
  PROVE  Cat(Cat(s, t), u) = Cat(s, Cat(t, u))
BY SMTT(30), ConcatAssociative DEF Cat

\* The flattening of records that are joined one after the other.
LEMMA FlattenConcat ==
  ASSUME NEW S, NEW s \in Seq(Seq(S)), NEW t \in Seq(Seq(S))
  PROVE  /\ FlattenSeq(s \o t) = FlattenSeq(s) \o FlattenSeq(t)
         /\ FlattenSeq(s) \in Seq(S)
<1> DEFINE m == Len(s)
           n == Len(t)
<1>1. m \in Nat /\ n \in Nat
  BY LenProperties
<1>2. PICK f : /\ Partial(f, s, m) /\ FlattenSeq(s) = f[m]
               /\ \A i \in 0..m : f[i] \in Seq(S)
  BY FlattenParts
<1>3. PICK h : /\ Partial(h, t, n) /\ FlattenSeq(t) = h[n]
               /\ \A i \in 0..n : h[i] \in Seq(S)
  BY FlattenParts
<1> DEFINE g == [i \in 0..(m + n) |-> IF i <= m THEN f[i] ELSE Cat(f[m], h[i - m])]
<1>4. /\ s \o t \in Seq(Seq(S)) /\ Len(s \o t) = m + n
      /\ \A i \in 1..(m + n) : (s \o t)[i] = IF i <= m THEN s[i] ELSE t[i - m]
  BY ConcatProperties
<1>5. f[m] \in Seq(S) /\ m \in 0..m
  BY <1>1, <1>2
<1> HIDE DEF m, n
<1>6. ASSUME NEW i \in 1..m PROVE g[i] = Cat(g[i - 1], (s \o t)[i])
  BY SMTT(30), <1>1, <1>2, <1>4 DEF Partial
<1>7. ASSUME NEW i \in 1..n PROVE g[m + i] = Cat(g[(m + i) - 1], (s \o t)[m + i])
  <2>1. (s \o t)[m + i] = t[i]
    BY <1>1, <1>4
  <2>2. h[i] = Cat(h[i - 1], t[i])
    BY <1>3 DEF Partial
  <2>3. g[m + i] = Cat(f[m], h[i])
    BY <1>1
  <2>4. g[(m + i) - 1] = Cat(f[m], h[i - 1])
    <3>1. CASE i = 1
      <4>1. g[(m + i) - 1] = f[m]
        BY <1>1, <3>1
      <4>2. h[i - 1] = <<>>
        BY <1>3, <3>1 DEF Partial
      <4> QED BY <1>5, <4>1, <4>2, ConcatEmptySeq DEF Cat
    <3>2. CASE i # 1
      BY <1>1, <3>2
    <3> QED BY <3>1, <3>2
  <2>5. h[i - 1] \in Seq(S) /\ t[i] \in Seq(S)
    <3>1. i - 1 \in 0..n
      BY <1>1
    <3> QED BY <1>3, <3>1, ElementOfSeq DEF n
  <2> HIDE DEF g
  <2> QED BY SMTT(60), <1>5, <2>1, <2>2, <2>3, <2>4, <2>5, CatAssociative
<1>8. Partial(g, s \o t, m + n)
  <2>1. DOMAIN g = 0..(m + n) /\ g[0] = <<>>
    BY <1>1, <1>2 DEF Partial
  <2> HIDE DEF g
  <2> SUFFICES ASSUME NEW i \in 1..(m + n)
               PROVE  g[i] = Cat(g[i - 1], (s \o t)[i])
    BY <2>1 DEF Partial
  <2>2. CASE i <= m
    <3>1. i \in 1..m
      BY <1>1, <2>2
    <3> QED BY <1>6, <3>1
  <2>3. CASE ~(i <= m)
    <3>1. i - m \in 1..n /\ m + (i - m) = i
      BY <1>1, <2>3
    <3> QED BY <1>7, <3>1
  <2> QED BY <2>2, <2>3
<1>9. FlattenSeq(s \o t) = g[m + n]
  <2> HIDE DEF g
  <2> QED BY <1>4, <1>8, FlattenBy
<1>10. g[m + n] = Cat(f[m], h[n])
  <2>1. CASE n = 0
    <3>1. h[n] = <<>> /\ g[m + n] = f[m]
      BY <1>1, <1>3, <2>1 DEF Partial
    <3> HIDE DEF g
    <3> QED BY <1>5, <3>1, ConcatEmptySeq DEF Cat
  <2>2. CASE n # 0
    BY <1>1, <2>2
  <2> QED BY <2>1, <2>2
<1> HIDE DEF g
<1> QED BY <1>2, <1>3, <1>5, <1>9, <1>10 DEF Cat

\* Flattening a single text.
LEMMA FlattenOne ==
  ASSUME NEW S, NEW e \in Seq(S)
  PROVE  FlattenSeq(<<e>>) = e
<1>1. <<e>> \in Seq(Seq(S)) /\ Len(<<e>>) = 1
  OBVIOUS
<1> DEFINE f == [i \in 0..1 |-> IF i = 0 THEN <<>> ELSE e]
<1>2. Cat(<<>>, e) = e
  BY ConcatEmptySeq DEF Cat
<1>3. Partial(f, <<e>>, 1)
  BY <1>2 DEF Partial
<1>4. f[1] = e
  OBVIOUS
<1> HIDE DEF f
<1> QED BY <1>1, <1>3, <1>4, FlattenBy

\* Flattening nothing.
LEMMA FlattenNone == FlattenSeq(<<>>) = <<>>
BY DEF FlattenSeq

\* Flattening with one more text at the end.
LEMMA FlattenAppend ==
  ASSUME NEW S, NEW s \in Seq(Seq(S)), NEW e \in Seq(S)
  PROVE  FlattenSeq(Append(s, e)) = FlattenSeq(s) \o e
<1>1. Append(s, e) = s \o <<e>> /\ <<e>> \in Seq(Seq(S))
  BY AppendIsConcat
<1>2. FlattenSeq(s \o <<e>>) = FlattenSeq(s) \o FlattenSeq(<<e>>)
  BY <1>1, FlattenConcat
<1>3. FlattenSeq(<<e>>) = e
  BY FlattenOne
<1> QED BY <1>1, <1>2, <1>3

\* Flattening the first text, and then the others.
LEMMA FlattenTail ==
  ASSUME NEW S, NEW s \in Seq(Seq(S)), s # <<>>
  PROVE  FlattenSeq(s) = Head(s) \o FlattenSeq(Tail(s))
<1>1. Head(s) \in Seq(S) /\ Tail(s) \in Seq(Seq(S)) /\ <<Head(s)>> \in Seq(Seq(S))
  BY HeadTailProperties
<1>2. s = <<Head(s)>> \o Tail(s)
  OBVIOUS
<1>3. FlattenSeq(<<Head(s)>> \o Tail(s)) = FlattenSeq(<<Head(s)>>) \o FlattenSeq(Tail(s))
  BY <1>1, FlattenConcat
<1>4. FlattenSeq(<<Head(s)>>) = Head(s)
  BY <1>1, FlattenOne
<1> QED BY <1>2, <1>3, <1>4

(***************************************************************************)
(* Nth: the positions of a set in their order.                             *)
(***************************************************************************)

UpTo(ends, e) == {d \in ends : d <= e}

\* The rank of a position in a set of positions is a number of the set's size.
LEMMA RankBounds ==
  ASSUME NEW N \in Nat, NEW ends, ends \subseteq 1..N, NEW e \in ends
  PROVE  /\ IsFiniteSet(ends) /\ Cardinality(ends) \in Nat
         /\ IsFiniteSet(UpTo(ends, e))
         /\ Cardinality(UpTo(ends, e)) \in 1..Cardinality(ends)
<1>1. IsFiniteSet(1..N)
  BY FS_Interval
<1>2. IsFiniteSet(ends)
  BY <1>1, FS_Subset
<1>3. UpTo(ends, e) \in SUBSET ends /\ e \in UpTo(ends, e)
  BY DEF UpTo
<1>4. IsFiniteSet(UpTo(ends, e)) /\ Cardinality(UpTo(ends, e)) <= Cardinality(ends)
  BY <1>2, <1>3, FS_Subset
<1>5. Cardinality(ends) \in Nat /\ Cardinality(UpTo(ends, e)) \in Nat
  BY <1>2, <1>4, FS_CardinalityType
<1>6. Cardinality(UpTo(ends, e)) # 0
  BY <1>3, <1>4, FS_EmptySet
<1> QED BY <1>2, <1>4, <1>5, <1>6

\* A later position has a higher rank.
LEMMA RankGrows ==
  ASSUME NEW N \in Nat, NEW ends, ends \subseteq 1..N,
         NEW d \in ends, NEW e \in ends, d < e
  PROVE  Cardinality(UpTo(ends, d)) < Cardinality(UpTo(ends, e))
<1>0. \A f \in ends : f \in Int
  OBVIOUS
<1>1. /\ IsFiniteSet(UpTo(ends, d)) /\ IsFiniteSet(UpTo(ends, e))
      /\ Cardinality(UpTo(ends, d)) \in Nat /\ Cardinality(UpTo(ends, e)) \in Nat
  <2>1. \A f \in ends : /\ IsFiniteSet(UpTo(ends, f))
                         /\ Cardinality(ends) \in Nat
                         /\ Cardinality(UpTo(ends, f)) \in 1..Cardinality(ends)
    BY RankBounds
  <2> QED BY <2>1
<1>2. e \notin UpTo(ends, d)
  BY DEF UpTo
<1>3. UpTo(ends, d) \union {e} \in SUBSET UpTo(ends, e)
  <2>1. \A f \in ends : f <= d => f <= e
    BY <1>0
  <2>2. e <= e
    BY <1>0
  <2> QED BY <2>1, <2>2 DEF UpTo
<1>4. Cardinality(UpTo(ends, d) \union {e}) = Cardinality(UpTo(ends, d)) + 1
  BY <1>1, <1>2, FS_AddElement
<1>5. Cardinality(UpTo(ends, d) \union {e}) <= Cardinality(UpTo(ends, e))
  BY <1>1, <1>3, FS_Subset
<1> QED BY <1>1, <1>4, <1>5

\* Every rank is taken.
LEMMA RankExists ==
  ASSUME NEW N \in Nat, NEW ends, ends \subseteq 1..N
  PROVE  \A k \in 1..Cardinality(ends) : \E e \in ends : Cardinality(UpTo(ends, e)) = k
<1>0. IsFiniteSet(ends) /\ Cardinality(ends) \in Nat
  <2>1. IsFiniteSet(1..N)
    BY FS_Interval
  <2>2. IsFiniteSet(ends)
    BY <2>1, FS_Subset
  <2> QED BY <2>2, FS_CardinalityType
<1>00. \A f \in ends : f \in Nat
  OBVIOUS
<1> DEFINE T == {k \in Nat : k + 1 <= Cardinality(ends) =>
                   \E e \in ends : Cardinality(UpTo(ends, e)) = k + 1}
<1>1. 0 \in T
  <2> SUFFICES ASSUME 1 <= Cardinality(ends)
               PROVE  \E e \in ends : Cardinality(UpTo(ends, e)) = 1
    OBVIOUS
  <2>1. ends # {} /\ ends \subseteq Nat
    BY FS_EmptySet
  <2>2. PICK e \in ends : \A d \in ends : e <= d
    BY <2>1, LeastOf
  <2>3. UpTo(ends, e) = {e}
    <3>1. \A d \in ends : d <= e <=> d = e
      BY <1>00, <2>2
    <3> QED BY <3>1 DEF UpTo
  <2> QED BY <2>3, FS_Singleton
<1>2. ASSUME NEW k \in Nat, k \in T PROVE k + 1 \in T
  <2> SUFFICES ASSUME (k + 1) + 1 <= Cardinality(ends)
               PROVE  \E e \in ends : Cardinality(UpTo(ends, e)) = (k + 1) + 1
    OBVIOUS
  <2>1. PICK e \in ends : Cardinality(UpTo(ends, e)) = k + 1
    BY <1>0, <1>2
  <2> DEFINE later == {d \in ends : d > e}
  <2>2. later # {}
    <3> SUFFICES ASSUME later = {} PROVE FALSE
      OBVIOUS
    <3>1. UpTo(ends, e) = ends
      <4>1. \A d \in ends : d <= e
        BY <1>00
      <4> QED BY <4>1 DEF UpTo
    <3> QED BY <1>0, <2>1, <3>1
  <2>3. PICK next \in later : \A d \in later : next <= d
    <3>1. later \subseteq Nat
      BY <1>00
    <3> HIDE DEF later
    <3> QED BY <2>2, <3>1, LeastOf
  <2>4. UpTo(ends, next) = UpTo(ends, e) \union {next} /\ next \notin UpTo(ends, e)
    <3>1. next \in ends /\ e < next /\ \A d \in ends : d > e => next <= d
      BY <2>3
    <3>2. \A d \in ends : d <= next <=> d <= e \/ d = next
      BY <1>00, <3>1
    <3>3. ~(next <= e)
      BY <1>00, <3>1
    <3> QED BY <3>1, <3>2, <3>3 DEF UpTo
  <2>5. IsFiniteSet(UpTo(ends, e))
    BY RankBounds
  <2>6. Cardinality(UpTo(ends, next)) = (k + 1) + 1
    BY <2>1, <2>4, <2>5, FS_AddElement
  <2> QED BY <2>3, <2>6
<1> HIDE DEF T
<1>3. \A k \in Nat : k \in T
  BY <1>1, <1>2, InductionOn
<1> SUFFICES ASSUME NEW k \in 1..Cardinality(ends)
             PROVE  \E e \in ends : Cardinality(UpTo(ends, e)) = k
  OBVIOUS
<1>4. k - 1 \in Nat /\ (k - 1) + 1 = k /\ k <= Cardinality(ends)
  BY <1>0
<1>5. k - 1 \in T
  BY <1>3, <1>4
<1> QED BY <1>4, <1>5 DEF T

\* The positions come in order, none is left out and the last one is the last.
LEMMA NthInOrder ==
  ASSUME NEW N \in Nat, NEW ends, ends \subseteq 1..N
  PROVE  /\ Cardinality(ends) \in Nat
         /\ Nth(ends, 0) = 0
         /\ \A k \in 1..Cardinality(ends) :
              /\ Nth(ends, k) \in ends
              /\ Nth(ends, k - 1) \in 0..N
              /\ Nth(ends, k - 1) < Nth(ends, k)
              /\ \A e \in ends : ~(Nth(ends, k - 1) < e /\ e < Nth(ends, k))
         /\ \A e \in ends : e <= Nth(ends, Cardinality(ends))
<1>1. IsFiniteSet(ends) /\ Cardinality(ends) \in Nat
  <2>1. IsFiniteSet(1..N)
    BY FS_Interval
  <2>2. IsFiniteSet(ends)
    BY <2>1, FS_Subset
  <2> QED BY <2>2, FS_CardinalityType
<1>2. Nth(ends, 0) = 0
  BY DEF Nth
<1>3. ASSUME NEW k \in 1..Cardinality(ends)
      PROVE  Nth(ends, k) \in ends /\ Cardinality(UpTo(ends, Nth(ends, k))) = k
  <2>1. k # 0
    OBVIOUS
  <2>2. \E e \in ends : Cardinality(UpTo(ends, e)) = k
    BY RankExists
  <2> QED BY <2>1, <2>2 DEF Nth, UpTo
<1>4. \A e \in ends : Cardinality(UpTo(ends, e)) \in 1..Cardinality(ends)
  BY RankBounds
<1>5. \A d, e \in ends : d < e => Cardinality(UpTo(ends, d)) < Cardinality(UpTo(ends, e))
  BY RankGrows
<1>6. \A e \in ends : e \in Nat /\ 0 < e /\ e <= N
  OBVIOUS
<1> DEFINE rank(e) == Cardinality(UpTo(ends, e))
<1> HIDE DEF rank
<1>7. ASSUME NEW k \in 1..Cardinality(ends)
      PROVE  /\ Nth(ends, k - 1) \in 0..N
             /\ Nth(ends, k - 1) < Nth(ends, k)
             /\ \A e \in ends : ~(Nth(ends, k - 1) < e /\ e < Nth(ends, k))
  <2>1. Nth(ends, k) \in ends /\ rank(Nth(ends, k)) = k
    BY <1>3 DEF rank
  <2>2. \A e \in ends : rank(e) \in Nat \ {0}
    BY <1>1, <1>4 DEF rank
  <2>3. \A d, e \in ends : d < e => rank(d) < rank(e)
    BY <1>5 DEF rank
  <2>4. CASE k = 1
    <3>1. Nth(ends, k - 1) = 0
      BY <1>2, <2>4
    <3>2. 0 < Nth(ends, k)
      BY <1>6, <2>1
    <3>3. ASSUME NEW e \in ends, e < Nth(ends, k) PROVE FALSE
      <4>1. rank(e) < 1
        BY <2>1, <2>3, <2>4, <3>3
      <4> QED BY <2>2, <4>1
    <3> QED BY <3>1, <3>2, <3>3
  <2>5. CASE k # 1
    <3>1. k - 1 \in 1..Cardinality(ends)
      BY <1>1, <2>5
    <3>2. Nth(ends, k - 1) \in ends /\ rank(Nth(ends, k - 1)) = k - 1
      BY <1>3, <3>1 DEF rank
    <3>3. ~(Nth(ends, k) < Nth(ends, k - 1)) /\ Nth(ends, k) # Nth(ends, k - 1)
      <4>1. ~(k < k - 1) /\ k # k - 1
        OBVIOUS
      <4> QED BY <2>1, <2>3, <3>2, <4>1
    <3>4. ASSUME NEW e \in ends, Nth(ends, k - 1) < e, e < Nth(ends, k) PROVE FALSE
      <4>1. k - 1 < rank(e) /\ rank(e) < k
        BY <2>1, <2>3, <3>2, <3>4
      <4> QED BY <2>2, <4>1
    <3>5. Nth(ends, k - 1) \in Nat /\ Nth(ends, k) \in Nat /\ Nth(ends, k - 1) <= N
      BY <1>6, <2>1, <3>2
    <3>6. Nth(ends, k - 1) < Nth(ends, k)
      BY <3>3, <3>5
    <3> QED BY <3>4, <3>5, <3>6
  <2> QED BY <2>4, <2>5
<1>8. ASSUME NEW e \in ends PROVE e <= Nth(ends, Cardinality(ends))
  <2>1. Cardinality(ends) \in 1..Cardinality(ends)
    BY <1>1, <1>4
  <2>2. /\ Nth(ends, Cardinality(ends)) \in ends
        /\ rank(Nth(ends, Cardinality(ends))) = Cardinality(ends)
    BY <1>3, <2>1 DEF rank
  <2>3. ASSUME Nth(ends, Cardinality(ends)) < e PROVE FALSE
    <3>1. Cardinality(ends) < rank(e)
      BY <1>5, <2>2, <2>3 DEF rank
    <3>2. rank(e) \in 1..Cardinality(ends)
      BY <1>4 DEF rank
    <3> QED BY <1>1, <3>1, <3>2
  <2>4. Nth(ends, Cardinality(ends)) \in Nat /\ e \in Nat
    BY <1>6, <2>2
  <2> QED BY <2>3, <2>4
<1> QED BY <1>1, <1>2, <1>3, <1>7, <1>8

(***************************************************************************)
(* LogText, piece by piece.                                                *)
(***************************************************************************)

LogChar == {"x", "*", "n"}

\* What Render makes of a character of a text.
Rendered == {"x", "s", "t", "*", "n"}

Crlf(text, i) == text[i] = "r" /\ i < Len(text) /\ text[i + 1] = "n"

Piece(char, dropped) == CASE dropped            -> <<>>
                          [] char \in {"s", "t"} -> <<"*">>
                          [] char = "x"         -> <<"x">>
                          [] OTHER              -> <<"n">>

Pieces(text) == [i \in DOMAIN text |-> Piece(text[i], Crlf(text, i))]

\* A record as the log shows it with the secrets loaded, when the characters of
\* the secret count as hidden wherever they are.
Shown(record) == [i \in DOMAIN record |->
                    IF record[i] \in {"s", "t"} THEN "*"
                    ELSE IF record[i] = "r" THEN "n" ELSE record[i]]

\* A carriage return and its line feed fall to two texts.
Split(a, b) == a # <<>> /\ b # <<>> /\ a[Len(a)] = "r" /\ b[1] = "n"

\* LogText, with its pieces named.
LEMMA LogTextPieces ==
  ASSUME NEW text
  PROVE  LogText(text) = FlattenSeq(Pieces(text))
BY DEF LogText, Pieces, Piece, Crlf

\* What a character comes to, and its type.
LEMMA PieceType ==
  ASSUME NEW char, NEW dropped
  PROVE  Piece(char, dropped) \in Seq(LogChar)
<1>1. Piece(char, dropped) \in {<<>>, <<"*">>, <<"x">>, <<"n">>}
  BY DEF Piece
<1>2. {<<>>, <<"*">>, <<"x">>, <<"n">>} \subseteq Seq(LogChar)
  BY DEF LogChar
<1> QED BY <1>1, <1>2

\* Equal intervals end at the same number.
LEMMA SameEnd ==
  ASSUME NEW m \in Nat, NEW n \in Nat, 1..m = 1..n
  PROVE  m = n
<1>1. ASSUME m < n PROVE FALSE
  <2>1. n \in 1..n /\ n \notin 1..m
    BY <1>1
  <2> QED BY <2>1
<1>2. ASSUME n < m PROVE FALSE
  <2>1. m \in 1..m /\ m \notin 1..n
    BY <1>2
  <2> QED BY <2>1
<1> QED BY <1>1, <1>2

\* There is one piece for each character.
LEMMA PiecesType ==
  ASSUME NEW text \in Seq(Char)
  PROVE  /\ Pieces(text) \in Seq(Seq(LogChar))
         /\ Len(Pieces(text)) = Len(text)
         /\ \A i \in 1..Len(text) : Pieces(text)[i] = Piece(text[i], Crlf(text, i))
<1>1. Len(text) \in Nat /\ DOMAIN text = 1..Len(text)
  BY LenProperties
<1>2. Pieces(text) \in [1..Len(text) -> Seq(LogChar)]
  BY <1>1, PieceType DEF Pieces
<1>3. Pieces(text) \in Seq(Seq(LogChar))
  BY SMTT(60), <1>1, <1>2, SeqDef
<1>4. DOMAIN Pieces(text) = 1..Len(Pieces(text)) /\ Len(Pieces(text)) \in Nat
  BY <1>3, LenProperties
<1>5. DOMAIN Pieces(text) = 1..Len(text)
  BY <1>2
<1>6. Len(Pieces(text)) = Len(text)
  BY Zenon, <1>1, <1>4, <1>5, SameEnd
<1> QED BY <1>1, <1>3, <1>6 DEF Pieces

\* The log is made of the characters of the log.
LEMMA LogTextType ==
  ASSUME NEW text \in Seq(Char)
  PROVE  LogText(text) \in Seq(LogChar)
<1>1. Pieces(text) \in Seq(Seq(LogChar))
  BY PiecesType
<1>2. FlattenSeq(Pieces(text)) \in Seq(LogChar)
  BY <1>1, FlattenConcat
<1> QED BY <1>2, LogTextPieces

\* Two texts are logged one after the other unless a \r\n lies across them.
LEMMA LogConcat ==
  ASSUME NEW a \in Seq(Char), NEW b \in Seq(Char), ~Split(a, b)
  PROVE  LogText(a \o b) = LogText(a) \o LogText(b)
<1>0. Len(a) \in Nat /\ Len(b) \in Nat
  BY LenProperties
<1>1. /\ a \o b \in Seq(Char) /\ Len(a \o b) = Len(a) + Len(b)
      /\ \A i \in 1..(Len(a) + Len(b)) :
           (a \o b)[i] = IF i <= Len(a) THEN a[i] ELSE b[i - Len(a)]
  BY ConcatProperties
<1>2. /\ Pieces(a) \in Seq(Seq(LogChar)) /\ Len(Pieces(a)) = Len(a)
      /\ \A i \in 1..Len(a) : Pieces(a)[i] = Piece(a[i], Crlf(a, i))
  BY PiecesType
<1>3. /\ Pieces(b) \in Seq(Seq(LogChar)) /\ Len(Pieces(b)) = Len(b)
      /\ \A i \in 1..Len(b) : Pieces(b)[i] = Piece(b[i], Crlf(b, i))
  BY PiecesType
<1>4. /\ Pieces(a \o b) \in Seq(Seq(LogChar))
      /\ Len(Pieces(a \o b)) = Len(a) + Len(b)
      /\ \A i \in 1..(Len(a) + Len(b)) :
           Pieces(a \o b)[i] = Piece((a \o b)[i], Crlf(a \o b, i))
  <2>1. /\ Pieces(a \o b) \in Seq(Seq(LogChar))
        /\ Len(Pieces(a \o b)) = Len(a \o b)
        /\ \A i \in 1..Len(a \o b) :
             Pieces(a \o b)[i] = Piece((a \o b)[i], Crlf(a \o b, i))
    BY <1>1, PiecesType
  <2> QED BY <1>1, <2>1
<1>5. /\ Pieces(a) \o Pieces(b) \in Seq(Seq(LogChar))
      /\ Len(Pieces(a) \o Pieces(b)) = Len(a) + Len(b)
      /\ \A i \in 1..(Len(a) + Len(b)) :
           (Pieces(a) \o Pieces(b))[i] =
             IF i <= Len(a) THEN Pieces(a)[i] ELSE Pieces(b)[i - Len(a)]
  <2> DEFINE p == Pieces(a)
             q == Pieces(b)
  <2> HIDE DEF p, q
  <2>1. p \in Seq(Seq(LogChar)) /\ Len(p) = Len(a)
    BY <1>2 DEF p
  <2>2. q \in Seq(Seq(LogChar)) /\ Len(q) = Len(b)
    BY <1>3 DEF q
  <2>3. /\ p \o q \in Seq(Seq(LogChar)) /\ Len(p \o q) = Len(p) + Len(q)
        /\ \A i \in 1..(Len(p) + Len(q)) :
             (p \o q)[i] = IF i <= Len(p) THEN p[i] ELSE q[i - Len(p)]
    BY <2>1, <2>2, ConcatProperties
  <2> QED BY <2>1, <2>2, <2>3 DEF p, q
<1>6. ASSUME NEW i \in 1..Len(a)
      PROVE  (a \o b)[i] = a[i] /\ (Crlf(a \o b, i) <=> Crlf(a, i))
  <2>1. (a \o b)[i] = a[i]
    BY <1>0, <1>1
  <2>2. CASE i < Len(a)
    <3>1. (a \o b)[i + 1] = a[i + 1] /\ i < Len(a \o b)
      BY <1>0, <1>1, <2>2
    <3> QED BY <2>1, <2>2, <3>1 DEF Crlf
  <2>3. CASE i = Len(a)
    <3>1. ~Crlf(a, i)
      BY <1>0, <2>3 DEF Crlf
    <3>2. ASSUME Crlf(a \o b, i) PROVE FALSE
      <4>1. b # <<>> /\ (a \o b)[i + 1] = b[1]
        BY <1>0, <1>1, <2>3, <3>2 DEF Crlf
      <4>2. b[1] = "n" /\ a[i] = "r"
        BY <2>1, <3>2, <4>1 DEF Crlf
      <4>3. a # <<>>
        BY <1>0
      <4> QED BY <2>3, <4>1, <4>2, <4>3 DEF Split
    <3> QED BY <2>1, <3>1, <3>2
  <2> QED BY <1>0, <2>2, <2>3
<1>7. ASSUME NEW i \in 1..Len(b)
      PROVE  (a \o b)[Len(a) + i] = b[i] /\ (Crlf(a \o b, Len(a) + i) <=> Crlf(b, i))
  <2>1. (a \o b)[Len(a) + i] = b[i]
    BY <1>0, <1>1
  <2>2. Len(a) + i < Len(a \o b) <=> i < Len(b)
    BY <1>0, <1>1
  <2>3. i < Len(b) => (a \o b)[(Len(a) + i) + 1] = b[i + 1]
    BY <1>0, <1>1
  <2> QED BY <2>1, <2>2, <2>3 DEF Crlf
<1>8. ASSUME NEW i \in 1..(Len(a) + Len(b))
      PROVE  Pieces(a \o b)[i] = (Pieces(a) \o Pieces(b))[i]
  <2>1. CASE i <= Len(a)
    <3>1. i \in 1..Len(a)
      BY <1>0, <2>1
    <3>2. (a \o b)[i] = a[i] /\ (Crlf(a \o b, i) <=> Crlf(a, i))
      BY <1>6, <3>1
    <3>3. Piece((a \o b)[i], Crlf(a \o b, i)) = Piece(a[i], Crlf(a, i))
      BY <3>2 DEF Piece
    <3> QED BY <1>2, <1>4, <1>5, <2>1, <3>1, <3>3
  <2>2. CASE ~(i <= Len(a))
    <3> DEFINE j == i - Len(a)
    <3>1. j \in 1..Len(b) /\ Len(a) + j = i
      BY <1>0, <2>2
    <3> HIDE DEF j
    <3>2. (a \o b)[i] = b[j] /\ (Crlf(a \o b, i) <=> Crlf(b, j))
      BY <1>7, <3>1
    <3>3. Piece((a \o b)[i], Crlf(a \o b, i)) = Piece(b[j], Crlf(b, j))
      BY <3>2 DEF Piece
    <3> QED BY <1>3, <1>4, <1>5, <2>2, <3>1, <3>3 DEF j
  <2> QED BY <2>1, <2>2
<1>9. Pieces(a \o b) = Pieces(a) \o Pieces(b)
  BY <1>4, <1>5, <1>8, SeqEqual
<1>10. FlattenSeq(Pieces(a) \o Pieces(b)) = FlattenSeq(Pieces(a)) \o FlattenSeq(Pieces(b))
  BY <1>2, <1>3, FlattenConcat
<1> QED BY <1>9, <1>10, LogTextPieces

\* A record is shown character by character.
LEMMA ShownType ==
  ASSUME NEW record \in Seq(Char)
  PROVE  /\ Shown(record) \in Seq(LogChar)
         /\ Len(Shown(record)) = Len(record)
         /\ \A i \in 1..Len(record) :
              Shown(record)[i] = IF record[i] \in {"s", "t"} THEN "*"
                                 ELSE IF record[i] = "r" THEN "n" ELSE record[i]
<1>1. Len(record) \in Nat /\ DOMAIN record = 1..Len(record)
  BY LenProperties
<1>2. \A i \in 1..Len(record) : record[i] \in {"x", "s", "t", "r", "n"}
  BY ElementOfSeq DEF Char
<1>3. Shown(record) \in [1..Len(record) -> LogChar]
  BY <1>1, <1>2 DEF Shown, LogChar
<1>4. Shown(record) \in Seq(LogChar)
  BY <1>1, <1>3, SeqDef
<1>5. DOMAIN Shown(record) = 1..Len(Shown(record)) /\ Len(Shown(record)) \in Nat
  BY <1>4, LenProperties
<1>6. Len(Shown(record)) = Len(record)
  BY <1>1, <1>3, <1>5, SameEnd
<1> QED BY <1>1, <1>4, <1>6 DEF Shown

\* A text without a line end is logged as it is, but for its secrets.
LEMMA LogPlain ==
  ASSUME NEW text \in Seq(Char), \A i \in 1..Len(text) : text[i] \notin {"n", "r"}
  PROVE  LogText(text) = Shown(text)
<1> DEFINE shown_ == Shown(text)
           f == [i \in 0..Len(text) |-> SubSeq(shown_, 1, i)]
<1>1. Len(text) \in Nat
  BY LenProperties
<1>2. /\ shown_ \in Seq(LogChar) /\ Len(shown_) = Len(text)
      /\ \A i \in 1..Len(text) : shown_[i] = IF text[i] \in {"s", "t"} THEN "*" ELSE text[i]
  BY ShownType
<1>3. /\ Pieces(text) \in Seq(Seq(LogChar)) /\ Len(Pieces(text)) = Len(text)
      /\ \A i \in 1..Len(text) : Pieces(text)[i] = Piece(text[i], Crlf(text, i))
  BY PiecesType
<1> HIDE DEF shown_
<1>4. ASSUME NEW i \in 1..Len(text) PROVE Pieces(text)[i] = <<shown_[i]>>
  <2>1. text[i] \in {"x", "s", "t"} /\ ~Crlf(text, i)
    <3>1. text[i] \in Char
      BY ElementOfSeq
    <3> QED BY <3>1 DEF Char, Crlf
  <2> QED BY <1>2, <1>3, <2>1 DEF Piece
<1>5. ASSUME NEW i \in 1..Len(text)
      PROVE  SubSeq(shown_, 1, i) = SubSeq(shown_, 1, i - 1) \o <<shown_[i]>>
  <2>1. 1 \in 1..Len(shown_) /\ i \in 1..Len(shown_)
    BY <1>1, <1>2
  <2> QED BY <1>2, <2>1, SubSeqRecursiveSecond
<1>6. Partial(f, Pieces(text), Len(text))
  <2>1. DOMAIN f = 0..Len(text)
    OBVIOUS
  <2>2. f[0] = <<>>
    <3>1. SubSeq(shown_, 1, 0) = <<>>
      BY SubSeqEmpty
    <3> QED BY <1>1, <3>1
  <2>3. ASSUME NEW i \in 1..Len(text) PROVE f[i] = Cat(f[i - 1], Pieces(text)[i])
    <3>1. f[i] = SubSeq(shown_, 1, i) /\ f[i - 1] = SubSeq(shown_, 1, i - 1)
      BY <1>1
    <3> HIDE DEF f
    <3> QED BY <1>4, <1>5, <3>1 DEF Cat
  <2> HIDE DEF f
  <2> QED BY <2>1, <2>2, <2>3 DEF Partial
<1>7. f[Len(text)] = shown_
  <2>1. SubSeq(shown_, 1, Len(text)) = shown_
    BY <1>2, SubSeqFull
  <2> QED BY <1>1, <2>1
<1> HIDE DEF f
<1>8. FlattenSeq(Pieces(text)) = shown_
  BY <1>3, <1>6, <1>7, FlattenBy
<1> QED BY <1>8, LogTextPieces DEF shown_

\* Each of the three line ends is logged as a line feed.
LEMMA LogEnds ==
  /\ LogText(<<"n">>) = <<"n">>
  /\ LogText(<<"r">>) = <<"n">>
  /\ LogText(<<"r", "n">>) = <<"n">>
<1>1. <<"n">> \in Seq(LogChar) /\ <<>> \in Seq(LogChar)
  BY DEF LogChar
<1>2. FlattenSeq(<< <<"n">> >>) = <<"n">> /\ FlattenSeq(<< <<>> >>) = <<>>
  BY <1>1, FlattenOne
<1>3. Pieces(<<"n">>) = << <<"n">> >>
  BY DEF Pieces, Piece, Crlf
<1>4. Pieces(<<"r">>) = << <<"n">> >>
  BY DEF Pieces, Piece, Crlf
<1>5. Pieces(<<"r", "n">>) = << <<>> >> \o << <<"n">> >>
  <2>1. /\ <<"r", "n">>[1] = "r" /\ <<"r", "n">>[2] = "n"
        /\ Len(<<"r", "n">>) = 2 /\ DOMAIN <<"r", "n">> = 1..2
    OBVIOUS
  <2>2. Crlf(<<"r", "n">>, 1) /\ ~Crlf(<<"r", "n">>, 2)
    BY <2>1 DEF Crlf
  <2>3. Piece("r", TRUE) = <<>> /\ Piece("n", FALSE) = <<"n">>
    BY DEF Piece
  <2>4. Pieces(<<"r", "n">>) = [i \in 1..2 |-> IF i = 1 THEN <<>> ELSE <<"n">>]
    BY <2>1, <2>2, <2>3 DEF Pieces, Piece
  <2>5. [i \in 1..2 |-> IF i = 1 THEN <<>> ELSE <<"n">>] = << <<>>, <<"n">> >>
    OBVIOUS
  <2>6. << <<>> >> \o << <<"n">> >> = << <<>>, <<"n">> >>
    <3>1. ASSUME NEW a, NEW b PROVE <<a>> \o <<b>> = <<a, b>>
      <4>1. <<a>> \in Seq({a, b}) /\ <<b>> \in Seq({a, b}) /\ <<a, b>> \in Seq({a, b})
        OBVIOUS
      <4>2. /\ <<a>> \o <<b>> \in Seq({a, b}) /\ Len(<<a>> \o <<b>>) = 2
            /\ (<<a>> \o <<b>>)[1] = a /\ (<<a>> \o <<b>>)[2] = b
        BY <4>1, ConcatProperties
      <4>3. \A i \in 1..2 : (<<a>> \o <<b>>)[i] = <<a, b>>[i]
        <5>1. \A i \in 1..2 : i = 1 \/ i = 2
          OBVIOUS
        <5> QED BY <4>2, <5>1
      <4> QED BY <4>1, <4>2, <4>3, SeqEqual
    <3> QED BY <3>1
  <2> QED BY <2>4, <2>5, <2>6
<1>6. << <<>> >> \in Seq(Seq(LogChar)) /\ << <<"n">> >> \in Seq(Seq(LogChar))
  BY <1>1
<1>7. FlattenSeq(<< <<>> >> \o << <<"n">> >>) = <<>> \o <<"n">>
  BY ZenonT(60), <1>2, <1>6, FlattenConcat
<1>8. <<>> \o <<"n">> = <<"n">>
  BY <1>1, ConcatEmptySeq
<1> QED BY <1>2, <1>3, <1>4, <1>5, <1>7, <1>8, LogTextPieces

(***************************************************************************)
(* Records of a text, one after the other.                                 *)
(***************************************************************************)

\* A cut at i leaves a carriage return and its line feed together.
CleanCut(value, i) == ~(0 < i /\ i < Len(value) /\ value[i] = "r" /\ value[i + 1] = "n")

\* Line ends are at the end of a record only.
OneLine(record) == \A i \in 1..Len(record) : record[i] \in {"n", "r"} => i = Len(record)

ShownAll(list) == [k \in DOMAIN list |-> Shown(list[k])]

\* A list of records is shown record by record.
LEMMA ShownAllType ==
  ASSUME NEW list \in Seq(Seq(Char))
  PROVE  /\ ShownAll(list) \in Seq(Seq(LogChar))
         /\ Len(ShownAll(list)) = Len(list)
         /\ \A k \in 1..Len(list) : ShownAll(list)[k] = Shown(list[k])
<1>1. Len(list) \in Nat /\ DOMAIN list = 1..Len(list)
  BY LenProperties
<1>2. \A k \in 1..Len(list) : list[k] \in Seq(Char)
  BY ElementOfSeq
<1>3. \A k \in 1..Len(list) : Shown(list[k]) \in Seq(LogChar)
  BY <1>2, ShownType
<1>4. ShownAll(list) \in [1..Len(list) -> Seq(LogChar)]
  BY <1>1, <1>3 DEF ShownAll
<1>5. ShownAll(list) \in Seq(Seq(LogChar))
  <2> HIDE DEF ShownAll
  <2>1. Seq(Seq(LogChar)) = UNION {[1..n -> Seq(LogChar)] : n \in Nat}
    BY SeqDef
  <2> QED BY <1>1, <1>4, <2>1
<1>6. DOMAIN ShownAll(list) = 1..Len(ShownAll(list)) /\ Len(ShownAll(list)) \in Nat
  BY <1>5, LenProperties
<1>7. Len(ShownAll(list)) = Len(list)
  BY <1>1, <1>4, <1>6, SameEnd
<1> QED BY <1>1, <1>5, <1>7 DEF ShownAll

\* The text up to j is the text up to a clean cut and the text from there.
LEMMA LogAdjacent ==
  ASSUME NEW value \in Seq(Char), NEW i \in 0..Len(value), NEW j \in i..Len(value),
         CleanCut(value, i)
  PROVE  /\ LogText(SubSeq(value, 1, j)) =
              LogText(SubSeq(value, 1, i)) \o LogText(SubSeq(value, i + 1, j))
         /\ SubSeq(value, 1, i) \in Seq(Char)
         /\ SubSeq(value, i + 1, j) \in Seq(Char)
<1> DEFINE a == SubSeq(value, 1, i)
           b == SubSeq(value, i + 1, j)
<1>1. Len(value) \in Nat /\ i \in Int /\ j \in Int /\ i + 1 \in Int
  BY LenProperties
<1>2. \A n \in 1..Len(value) : value[n] \in Char
  BY ElementOfSeq
<1>3. /\ a \in Seq(Char) /\ Len(a) = i
      /\ \A n \in 1..i : a[n] = value[n]
  <2>1. \A n \in 1..i : value[n] \in Char
    BY <1>1, <1>2
  <2>2. /\ SubSeq(value, 1, i) \in Seq(Char)
        /\ Len(SubSeq(value, 1, i)) = IF 1 <= i THEN i - 1 + 1 ELSE 0
        /\ \A n \in 1..(i - 1 + 1) : SubSeq(value, 1, i)[n] = value[1 + n - 1]
    BY <1>1, <2>1, SubSeqProperties
  <2> QED BY <1>1, <2>2
<1>4. /\ b \in Seq(Char) /\ Len(b) = j - i
      /\ 1 <= j - i => b[1] = value[i + 1]
  <2>1. \A n \in (i + 1)..j : value[n] \in Char
    BY <1>1, <1>2
  <2>2. /\ SubSeq(value, i + 1, j) \in Seq(Char)
        /\ Len(SubSeq(value, i + 1, j)) = IF i + 1 <= j THEN j - (i + 1) + 1 ELSE 0
        /\ \A n \in 1..(j - (i + 1) + 1) : SubSeq(value, i + 1, j)[n] = value[(i + 1) + n - 1]
    BY <1>1, <2>1, SubSeqProperties
  <2> QED BY <1>1, <2>2
<1>5. SubSeq(value, 1, j) = a \o b
  <2>1. /\ 1 \in 1..(Len(value) + 1) /\ i \in (1 - 1)..Len(value) /\ j \in i..Len(value)
    BY <1>1
  <2> QED BY <2>1, ConcatAdjacentSubSeq
<1>6. ~Split(a, b)
  <2> SUFFICES ASSUME Split(a, b) PROVE FALSE
    OBVIOUS
  <2>1. a # <<>> /\ b # <<>> /\ a[Len(a)] = "r" /\ b[1] = "n"
    BY DEF Split
  <2> HIDE DEF a, b
  <2>2. Len(a) # 0 /\ Len(b) # 0
    BY <1>3, <1>4, <2>1, EmptySeq
  <2>3. 0 < i /\ i < j /\ value[i] = "r" /\ value[i + 1] = "n"
    BY <1>1, <1>3, <1>4, <2>1, <2>2
  <2> QED BY <1>1, <2>3 DEF CleanCut
<1> HIDE DEF a, b
<1>7. LogText(a \o b) = LogText(a) \o LogText(b)
  BY <1>3, <1>4, <1>6, LogConcat
<1> QED BY <1>3, <1>4, <1>5, <1>7 DEF a, b

\* The k-th of m records shows the text from one clean cut to the next.
CutInto(value, m, cut, list) ==
  /\ cut[0] = 0
  /\ list \in Seq(Seq(Char)) /\ Len(list) = m
  /\ \A k \in 1..m :
       /\ cut[k - 1] \in 0..Len(value) /\ cut[k] \in cut[k - 1]..Len(value)
       /\ CleanCut(value, cut[k - 1])
       /\ LogText(SubSeq(value, cut[k - 1] + 1, cut[k])) = Shown(list[k])

\* Records cut out of a text one after the other show what they were cut out of.
LEMMA CutsJoin ==
  ASSUME NEW value \in Seq(Char), NEW m \in Nat, NEW cut, NEW list,
         CutInto(value, m, cut, list)
  PROVE  FlattenSeq(ShownAll(list)) = LogText(SubSeq(value, 1, cut[m]))
<1> USE DEF CutInto
<1> DEFINE f == [k \in 0..m |-> LogText(SubSeq(value, 1, cut[k]))]
<1>1. /\ ShownAll(list) \in Seq(Seq(LogChar)) /\ Len(ShownAll(list)) = m
      /\ \A k \in 1..m : ShownAll(list)[k] = Shown(list[k])
  BY ShownAllType
<1>2. Partial(f, ShownAll(list), m)
  <2>1. DOMAIN f = 0..m
    OBVIOUS
  <2>2. f[0] = <<>>
    <3>1. SubSeq(value, 1, 0) = <<>>
      BY SubSeqEmpty
    <3>2. LogText(<<>>) = <<>>
      <4>1. Pieces(<<>>) = <<>>
        BY DEF Pieces
      <4> QED BY <4>1, FlattenNone, LogTextPieces
    <3>3. f[0] = LogText(SubSeq(value, 1, cut[0]))
      OBVIOUS
    <3> QED BY <3>1, <3>2, <3>3
  <2>3. ASSUME NEW k \in 1..m PROVE f[k] = Cat(f[k - 1], ShownAll(list)[k])
    <3>1. /\ f[k] = LogText(SubSeq(value, 1, cut[k]))
          /\ f[k - 1] = LogText(SubSeq(value, 1, cut[k - 1]))
      OBVIOUS
    <3> HIDE DEF f
    <3>2. LogText(SubSeq(value, 1, cut[k])) =
            LogText(SubSeq(value, 1, cut[k - 1]))
              \o LogText(SubSeq(value, cut[k - 1] + 1, cut[k]))
      <4> DEFINE i == cut[k - 1]
                 j == cut[k]
      <4>1. i \in 0..Len(value) /\ j \in i..Len(value) /\ CleanCut(value, i)
        OBVIOUS
      <4> HIDE DEF i, j
      <4>2. LogText(SubSeq(value, 1, j)) =
              LogText(SubSeq(value, 1, i)) \o LogText(SubSeq(value, i + 1, j))
        BY <4>1, LogAdjacent
      <4> QED BY <4>2 DEF i, j
    <3>3. LogText(SubSeq(value, cut[k - 1] + 1, cut[k])) = Shown(list[k])
      OBVIOUS
    <3> QED BY <1>1, <3>1, <3>2, <3>3 DEF Cat
  <2> HIDE DEF f
  <2> QED BY <2>1, <2>2, <2>3 DEF Partial
<1>3. f[m] = LogText(SubSeq(value, 1, cut[m]))
  OBVIOUS
<1> HIDE DEF f
<1> QED BY <1>1, <1>2, <1>3, FlattenBy

\* A line and its end, in each of the three forms, are shown as the line and \n.
LEMMA LineShows ==
  ASSUME NEW body \in Seq(Char), \A i \in 1..Len(body) : body[i] \notin {"n", "r"},
         NEW end \in {<<"n">>, <<"r">>, <<"r", "n">>}
  PROVE  /\ Append(body, "n") \in Seq(Char)
         /\ OneLine(Append(body, "n"))
         /\ LogText(body \o end) = Shown(Append(body, "n"))
<1>1. Len(body) \in Nat
  BY LenProperties
<1>2. "n" \in Char /\ "r" \in Char /\ "n" \in LogChar
  BY DEF Char, LogChar
<1>3. /\ Append(body, "n") \in Seq(Char) /\ Len(Append(body, "n")) = Len(body) + 1
      /\ \A i \in 1..Len(body) : Append(body, "n")[i] = body[i]
      /\ Append(body, "n")[Len(body) + 1] = "n"
  BY <1>2, AppendProperties
<1>4. OneLine(Append(body, "n"))
  BY <1>1, <1>3 DEF OneLine
<1>5. LogText(end) = <<"n">> /\ end \in Seq(Char)
  <2>1. LogText(end) = <<"n">>
    BY LogEnds
  <2>2. <<"n">> \in Seq(Char) /\ <<"r">> \in Seq(Char) /\ <<"r", "n">> \in Seq(Char)
    BY <1>2
  <2> QED BY <2>1, <2>2
<1>6. ~Split(body, end)
  <2>1. body # <<>> => Len(body) \in 1..Len(body)
    BY EmptySeq
  <2> QED BY <2>1 DEF Split
<1>7. LogText(body \o end) = Shown(body) \o <<"n">>
  BY <1>5, <1>6, LogConcat, LogPlain
<1>8. /\ Shown(body) \in Seq(LogChar) /\ Len(Shown(body)) = Len(body)
      /\ \A i \in 1..Len(body) :
           Shown(body)[i] = IF body[i] \in {"s", "t"} THEN "*" ELSE body[i]
  BY ShownType
<1>9. /\ Append(Shown(body), "n") = Shown(body) \o <<"n">>
      /\ Append(Shown(body), "n") \in Seq(LogChar)
      /\ Len(Append(Shown(body), "n")) = Len(body) + 1
      /\ \A i \in 1..Len(body) : Append(Shown(body), "n")[i] = Shown(body)[i]
      /\ Append(Shown(body), "n")[Len(body) + 1] = "n"
  BY <1>2, <1>8, AppendProperties, AppendIsConcat
<1>10. /\ Shown(Append(body, "n")) \in Seq(LogChar)
       /\ Len(Shown(Append(body, "n"))) = Len(body) + 1
       /\ \A i \in 1..(Len(body) + 1) :
            Shown(Append(body, "n"))[i] =
              IF Append(body, "n")[i] \in {"s", "t"} THEN "*"
              ELSE IF Append(body, "n")[i] = "r" THEN "n" ELSE Append(body, "n")[i]
  BY <1>3, ShownType
<1>11. ASSUME NEW i \in 1..(Len(body) + 1)
       PROVE  Shown(Append(body, "n"))[i] = Append(Shown(body), "n")[i]
  <2>1. CASE i = Len(body) + 1
    BY <1>3, <1>9, <1>10, <2>1
  <2>2. CASE i # Len(body) + 1
    <3>1. i \in 1..Len(body)
      BY <1>1, <2>2
    <3> QED BY <1>3, <1>8, <1>9, <1>10, <3>1
  <2> QED BY <2>1, <2>2
<1>12. Shown(Append(body, "n")) = Append(Shown(body), "n")
  BY SMTT(30), <1>9, <1>10, <1>11, SeqEqual
<1> QED BY <1>3, <1>4, <1>7, <1>9, <1>12

(***************************************************************************)
(* CompleteRecords.                                                        *)
(***************************************************************************)

\* What remains from a position, and a piece of it as a piece of the whole.
LEMMA SubSeqShift ==
  ASSUME NEW S, NEW seq \in Seq(S), NEW e \in 0..Len(seq),
         NEW x \in 0..(Len(seq) - e), NEW y \in x..(Len(seq) - e)
  PROVE  /\ SubSeq(seq, e + 1, Len(seq)) \in Seq(S)
         /\ Len(SubSeq(seq, e + 1, Len(seq))) = Len(seq) - e
         /\ \A i \in 1..(Len(seq) - e) : SubSeq(seq, e + 1, Len(seq))[i] = seq[e + i]
         /\ SubSeq(SubSeq(seq, e + 1, Len(seq)), x + 1, y) = SubSeq(seq, (e + x) + 1, e + y)
         /\ SubSeq(seq, (e + x) + 1, e + y) \in Seq(S)
         /\ Len(SubSeq(seq, (e + x) + 1, e + y)) = y - x
         /\ \A i \in 1..(y - x) : SubSeq(seq, (e + x) + 1, e + y)[i] = seq[e + x + i]
<1> DEFINE n == Len(seq)
           rest == SubSeq(seq, e + 1, n)
           s == SubSeq(rest, x + 1, y)
           t == SubSeq(seq, (e + x) + 1, e + y)
<1>1. n \in Nat /\ \A i \in 1..n : seq[i] \in S
  BY LenProperties, ElementOfSeq
<1>2. /\ rest \in Seq(S) /\ Len(rest) = n - e
      /\ \A i \in 1..(n - e) : rest[i] = seq[e + i]
  <2>1. e + 1 \in Int /\ n \in Int /\ \A i \in (e + 1)..n : seq[i] \in S
    BY <1>1
  <2>2. /\ rest \in Seq(S) /\ Len(rest) = IF e + 1 <= n THEN n - (e + 1) + 1 ELSE 0
        /\ \A i \in 1..(n - (e + 1) + 1) : rest[i] = seq[(e + 1) + i - 1]
    BY <2>1, SubSeqProperties
  <2> HIDE DEF rest
  <2> QED BY <1>1, <2>2
<1>3. /\ s \in Seq(S) /\ Len(s) = y - x
      /\ \A i \in 1..(y - x) : s[i] = rest[x + i]
  <2> HIDE DEF rest
  <2>1. x + 1 \in Int /\ y \in Int /\ \A i \in (x + 1)..y : rest[i] \in S
    BY <1>1, <1>2, ElementOfSeq
  <2>2. /\ s \in Seq(S) /\ Len(s) = IF x + 1 <= y THEN y - (x + 1) + 1 ELSE 0
        /\ \A i \in 1..(y - (x + 1) + 1) : s[i] = rest[(x + 1) + i - 1]
    BY <2>1, SubSeqProperties
  <2> HIDE DEF s
  <2> QED BY SMTT(30), <1>1, <2>2
<1>4. /\ t \in Seq(S) /\ Len(t) = y - x
      /\ \A i \in 1..(y - x) : t[i] = seq[e + x + i]
  <2>1. /\ (e + x) + 1 \in Int /\ e + y \in Int
        /\ \A i \in ((e + x) + 1)..(e + y) : seq[i] \in S
    BY <1>1
  <2>2. /\ t \in Seq(S) /\ Len(t) = IF (e + x) + 1 <= e + y THEN (e + y) - ((e + x) + 1) + 1 ELSE 0
        /\ \A i \in 1..((e + y) - ((e + x) + 1) + 1) : t[i] = seq[((e + x) + 1) + i - 1]
    BY <2>1, SubSeqProperties
  <2> HIDE DEF t
  <2> QED BY <1>1, <2>2
<1> HIDE DEF rest, s, t
<1>5. \A i \in 1..(y - x) : s[i] = t[i]
  <2> SUFFICES ASSUME NEW i \in 1..(y - x) PROVE s[i] = t[i]
    OBVIOUS
  <2>1. x + i \in 1..(n - e) /\ e + (x + i) = e + x + i
    BY <1>1
  <2>2. rest[x + i] = seq[e + (x + i)]
    BY <1>2, <2>1
  <2> QED BY <1>3, <1>4, <2>1, <2>2
<1>6. s = t
  BY <1>3, <1>4, <1>5, SeqEqual
<1> QED BY <1>2, <1>4, <1>6 DEF rest, s, t

\* What remains from a position.
LEMMA RestOf ==
  ASSUME NEW S, NEW seq \in Seq(S), NEW e \in 0..Len(seq)
  PROVE  /\ SubSeq(seq, e + 1, Len(seq)) \in Seq(S)
         /\ Len(SubSeq(seq, e + 1, Len(seq))) = Len(seq) - e
         /\ \A i \in 1..(Len(seq) - e) : SubSeq(seq, e + 1, Len(seq))[i] = seq[e + i]
<1>1. 0 \in 0..(Len(seq) - e) /\ 0 \in 0..(Len(seq) - e)
  BY LenProperties
<1> QED BY SMTT(60), <1>1, SubSeqShift

\* The record between two ends of records shows what lies between them.
LEMMA LineOfEnds ==
  ASSUME NEW value \in Seq(Char), NEW final \in BOOLEAN,
         NEW start \in 1..Len(value), NEW end \in start..Len(value),
         CleanCut(value, start - 1), end \in RecordEnds(value, final),
         \A i \in start..(end - 1) : i \notin RecordEnds(value, final)
  PROVE  /\ Line(value, start, end) \in Seq(Char)
         /\ OneLine(Line(value, start, end))
         /\ LogText(SubSeq(value, start, end)) = Shown(Line(value, start, end))
<1>1. Len(value) \in Nat /\ DOMAIN value = 1..Len(value)
  BY LenProperties
<1>2. \A i \in 1..Len(value) : value[i] \in Char
  BY ElementOfSeq
<1>3. value[end] \in {"n", "r"}
  BY DEF RecordEnds
<1>4. ASSUME NEW i \in start..(end - 1)
      PROVE  /\ value[i] # "n"
             /\ value[i] = "r" => i = end - 1 /\ value[end] = "n"
  <2>1. i \in DOMAIN value /\ i < Len(value) /\ i + 1 \in DOMAIN value
    BY <1>1
  <2>2. value[i] # "n" /\ (value[i] = "r" => value[i + 1] = "n")
    <3>1. i \notin RecordEnds(value, final) /\ i # Len(value)
      BY <2>1, <1>1
    <3> QED BY <2>1, <3>1, Zenon DEF RecordEnds
  <2>3. value[i + 1] = "n" => i + 1 \in RecordEnds(value, final)
    BY <2>1 DEF RecordEnds
  <2>4. i + 1 \in RecordEnds(value, final) => i + 1 = end
    BY <1>1
  <2> QED BY <1>1, <2>2, <2>3, <2>4
<1>5. CASE end > 1 /\ value[end] = "n" /\ value[end - 1] = "r"
  <2>1. start <= end - 1
    BY <1>1, <1>5 DEF CleanCut
  <2> DEFINE body == SubSeq(value, start, end - 2)
  <2>2. /\ body \in Seq(Char) /\ Len(body) = end - 1 - start
        /\ \A i \in 1..(end - 1 - start) : body[i] = value[start + i - 1]
    <3>1. start \in Int /\ end - 2 \in Int /\ \A i \in start..(end - 2) : value[i] \in Char
      BY <1>1, <1>2
    <3>2. /\ body \in Seq(Char)
          /\ Len(body) = IF start <= end - 2 THEN (end - 2) - start + 1 ELSE 0
          /\ \A i \in 1..((end - 2) - start + 1) : body[i] = value[start + i - 1]
      BY <3>1, SubSeqProperties
    <3> HIDE DEF body
    <3> QED BY <1>1, <2>1, <3>2
  <2>3. Line(value, start, end) = Append(body, "n")
    BY <1>5 DEF Line
  <2>4. SubSeq(value, start, end) = body \o <<"r", "n">>
    <3>1. SubSeq(value, start, end) = SubSeq(value, start, end - 2) \o SubSeq(value, end - 1, end)
      <4>1. /\ start \in 1..(Len(value) + 1) /\ end - 2 \in (start - 1)..Len(value)
            /\ end \in (end - 2)..Len(value) /\ (end - 2) + 1 = end - 1
        BY <1>1, <2>1
      <4>2. SubSeq(value, start, end - 2) \o SubSeq(value, (end - 2) + 1, end) = SubSeq(value, start, end)
        BY <4>1, ConcatAdjacentSubSeq
      <4> QED BY <4>1, <4>2
    <3>2. SubSeq(value, end - 1, end) = <<"r", "n">>
      <4> DEFINE t == SubSeq(value, end - 1, end)
      <4>1. /\ end - 1 \in Int /\ end \in Int /\ \A i \in (end - 1)..end : value[i] \in Char
        BY <1>1, <1>2, <1>5
      <4>2. /\ t \in Seq(Char)
            /\ Len(t) = IF end - 1 <= end THEN end - (end - 1) + 1 ELSE 0
            /\ \A i \in 1..(end - (end - 1) + 1) : t[i] = value[(end - 1) + i - 1]
        BY <4>1, SubSeqProperties
      <4> HIDE DEF t
      <4>3. Len(t) = 2 /\ t[1] = "r" /\ t[2] = "n"
        BY <1>1, <1>5, <4>2
      <4>4. <<"r", "n">> \in Seq(Char) /\ Len(<<"r", "n">>) = 2
        BY DEF Char
      <4>5. \A i \in 1..2 : t[i] = <<"r", "n">>[i]
        <5>1. \A i \in 1..2 : i = 1 \/ i = 2
          OBVIOUS
        <5> QED BY <4>3, <5>1
      <4>6. t = <<"r", "n">>
        BY <4>2, <4>3, <4>4, <4>5, SeqEqual
      <4> QED BY <4>6 DEF t
    <3> QED BY <3>1, <3>2
  <2> HIDE DEF body
  <2>5. \A i \in 1..Len(body) : body[i] \notin {"n", "r"}
    <3>1. ASSUME NEW i \in 1..Len(body) PROVE body[i] \notin {"n", "r"}
      <4>1. start + i - 1 \in start..(end - 1) /\ start + i - 1 # end - 1
        BY <1>1, <2>1, <2>2
      <4> QED BY <1>4, <2>2, <4>1
    <3> QED BY <3>1
  <2> QED BY <2>2, <2>3, <2>4, <2>5, LineShows
<1>6. CASE ~(end > 1 /\ value[end] = "n" /\ value[end - 1] = "r")
  <2> DEFINE body == SubSeq(value, start, end - 1)
  <2>2. /\ body \in Seq(Char) /\ Len(body) = end - start
        /\ \A i \in 1..(end - start) : body[i] = value[start + i - 1]
    <3>1. start \in Int /\ end - 1 \in Int /\ \A i \in start..(end - 1) : value[i] \in Char
      BY <1>1, <1>2
    <3>2. /\ body \in Seq(Char)
          /\ Len(body) = IF start <= end - 1 THEN (end - 1) - start + 1 ELSE 0
          /\ \A i \in 1..((end - 1) - start + 1) : body[i] = value[start + i - 1]
      BY <3>1, SubSeqProperties
    <3> HIDE DEF body
    <3> QED BY <1>1, <3>2
  <2>3. Line(value, start, end) = Append(body, "n")
    BY <1>6 DEF Line
  <2>4. SubSeq(value, start, end) = body \o <<value[end]>>
    <3>1. start \in 1..Len(value) /\ end \in start..Len(value)
      OBVIOUS
    <3> QED BY <3>1, SubSeqRecursiveSecond
  <2> HIDE DEF body
  <2>5. \A i \in 1..Len(body) : body[i] \notin {"n", "r"}
    <3>1. ASSUME NEW i \in 1..Len(body) PROVE body[i] \notin {"n", "r"}
      <4>1. start + i - 1 \in start..(end - 1)
        BY <1>1, <2>2
      <4>2. start + i - 1 = end - 1 => end > 1
        BY <1>1, <4>1
      <4> QED BY <1>4, <1>6, <2>2, <4>1, <4>2
    <3> QED BY <3>1
  <2>6. <<value[end]>> \in {<<"n">>, <<"r">>, <<"r", "n">>}
    BY <1>3
  <2> QED BY <2>2, <2>3, <2>4, <2>5, <2>6, LineShows
<1> QED BY <1>5, <1>6

\* Where a record ends the cut is clean.
LEMMA EndsAreClean ==
  ASSUME NEW value \in Seq(Char), NEW final \in BOOLEAN, NEW e \in RecordEnds(value, final)
  PROVE  CleanCut(value, e)
<1>1. Len(value) \in Nat /\ DOMAIN value = 1..Len(value)
  BY LenProperties
<1>2. e \in 1..Len(value)
  BY Zenon, <1>1 DEF RecordEnds
<1>3. e < Len(value) => e # Len(value)
  <2>1. e \in Nat
    BY <1>2
  <2> QED BY Zenon, <1>1, <2>1, NatOrder
<1>4. value[e] = "n" \/ (value[e] = "r" /\ IF e = Len(value) THEN final ELSE value[e + 1] # "n")
  BY Zenon DEF RecordEnds
<1> QED BY <1>3, <1>4, Zenon DEF CleanCut

\* The records that end at a line end show the text up to the last of them.
LEMMA LinesShow ==
  ASSUME NEW value \in Seq(Char), NEW final \in BOOLEAN
  PROVE  LET ends == RecordEnds(value, final)
             list == Lines(value, ends)
         IN /\ list \in Seq(Seq(Char)) /\ \A k \in 1..Len(list) : OneLine(list[k])
            /\ Nth(ends, Cardinality(ends)) \in 0..Len(value)
            /\ FlattenSeq(ShownAll(list)) =
                 LogText(SubSeq(value, 1, Nth(ends, Cardinality(ends))))
<1> DEFINE ends == RecordEnds(value, final)
           list == Lines(value, ends)
           m == Cardinality(ends)
           cut == [k \in 0..m |-> Nth(ends, k)]
<1>1. Len(value) \in Nat /\ DOMAIN value = 1..Len(value)
  BY LenProperties
<1>2. ends \subseteq 1..Len(value)
  BY <1>1 DEF RecordEnds
<1> HIDE DEF ends
<1>3. /\ m \in Nat /\ Nth(ends, 0) = 0
      /\ \A k \in 1..m :
           /\ Nth(ends, k) \in ends
           /\ Nth(ends, k - 1) \in 0..Len(value)
           /\ Nth(ends, k - 1) < Nth(ends, k)
           /\ \A e \in ends : ~(Nth(ends, k - 1) < e /\ e < Nth(ends, k))
  BY <1>1, <1>2, NthInOrder
<1>4. ASSUME NEW k \in 1..m
      PROVE  /\ Nth(ends, k - 1) \in 0..Len(value)
             /\ Nth(ends, k) \in Nth(ends, k - 1)..Len(value)
             /\ CleanCut(value, Nth(ends, k - 1))
             /\ Line(value, Nth(ends, k - 1) + 1, Nth(ends, k)) \in Seq(Char)
             /\ OneLine(Line(value, Nth(ends, k - 1) + 1, Nth(ends, k)))
             /\ LogText(SubSeq(value, Nth(ends, k - 1) + 1, Nth(ends, k))) =
                  Shown(Line(value, Nth(ends, k - 1) + 1, Nth(ends, k)))
  <2> DEFINE i == Nth(ends, k - 1)
             j == Nth(ends, k)
  <2>1. /\ j \in ends /\ i \in 0..Len(value) /\ i < j
        /\ \A e \in ends : ~(i < e /\ e < j)
    BY <1>3
  <2>2. i = 0 \/ i \in ends
    <3>1. CASE k = 1
      BY <1>3, <3>1
    <3>2. CASE k # 1
      <4>1. k - 1 \in 1..m
        BY <1>3, <3>2
      <4> QED BY <1>3, <4>1
    <3> QED BY <3>1, <3>2
  <2> HIDE DEF i, j
  <2>3. CleanCut(value, i)
    <3>1. CleanCut(value, 0)
      BY DEF CleanCut
    <3>2. \A e \in ends : CleanCut(value, e)
      BY EndsAreClean DEF ends
    <3> QED BY <2>2, <3>1, <3>2
  <2>4. j \in 1..Len(value)
    BY <1>2, <2>1
  <2> DEFINE start == i + 1
  <2>5. start \in 1..Len(value) /\ j \in start..Len(value) /\ start - 1 = i
    BY <1>1, <2>1, <2>4
  <2>6. \A e \in start..(j - 1) : e \notin ends
    BY <1>1, <2>1, <2>4
  <2> HIDE DEF start
  <2>7. /\ Line(value, start, j) \in Seq(Char) /\ OneLine(Line(value, start, j))
        /\ LogText(SubSeq(value, start, j)) = Shown(Line(value, start, j))
    <3>1. CleanCut(value, start - 1)
      BY <2>3, <2>5
    <3> QED BY <2>1, <2>5, <2>6, <3>1, LineOfEnds DEF ends
  <2>8. j \in i..Len(value)
    BY <1>1, <2>1, <2>4
  <2> QED BY <2>1, <2>3, <2>7, <2>8 DEF i, j, start
<1>5. /\ list \in Seq(Seq(Char)) /\ Len(list) = m
      /\ \A k \in 1..m : list[k] = Line(value, Nth(ends, k - 1) + 1, Nth(ends, k))
  <2>1. list = [k \in 1..m |-> Line(value, Nth(ends, k - 1) + 1, Nth(ends, k))]
    BY DEF Lines
  <2>2. \A k \in 1..m : Line(value, Nth(ends, k - 1) + 1, Nth(ends, k)) \in Seq(Char)
    BY <1>4
  <2> HIDE DEF m, list
  <2>3. list \in [1..m -> Seq(Char)]
    BY <2>1, <2>2
  <2>4. list \in Seq(Seq(Char))
    BY <1>3, <2>3, SeqDef
  <2>5. DOMAIN list = 1..Len(list) /\ Len(list) \in Nat
    BY <2>4, LenProperties
  <2>6. Len(list) = m
    BY <1>3, <2>3, <2>5, SameEnd
  <2> QED BY <2>1, <2>4, <2>6
<1>6. cut[0] = 0 /\ \A k \in 1..m : cut[k] = Nth(ends, k) /\ cut[k - 1] = Nth(ends, k - 1)
  BY <1>3
<1>7. cut[m] = Nth(ends, m)
  BY <1>3
<1> HIDE DEF cut, m, list
<1>8. CutInto(value, m, cut, list)
  BY <1>4, <1>5, <1>6 DEF CutInto
<1>9. FlattenSeq(ShownAll(list)) = LogText(SubSeq(value, 1, Nth(ends, m)))
  BY <1>3, <1>7, <1>8, CutsJoin
<1>10. \A k \in 1..Len(list) : OneLine(list[k])
  BY <1>4, <1>5
<1>11. Nth(ends, m) \in 0..Len(value)
  <2>1. CASE m = 0
    BY <1>1, <1>3, <2>1
  <2>2. CASE m # 0
    <3>1. m \in 1..m
      BY <1>3, <2>2
    <3>2. Nth(ends, m) \in ends
      BY <1>3, <3>1
    <3>3. Nth(ends, m) \in 1..Len(value)
      BY <1>2, <3>2, Zenon
    <3> QED BY <1>1, <3>3
  <2> QED BY <2>1, <2>2
<1> QED BY <1>5, <1>9, <1>10, <1>11 DEF m, list, ends

\* The records that a remainder without line ends is cut into.
LEMMA PartsShow ==
  ASSUME NEW rest \in Seq(Char),
         \A i \in 1..Len(rest) : rest[i] \in {"n", "r"} => i = Len(rest)
  PROVE  /\ Parts(rest) \in Seq(Seq(Char))
         /\ \A k \in 1..Len(Parts(rest)) : OneLine(Parts(rest)[k])
         /\ Cuts(rest) * MaxRecordBytes \in 0..Len(rest)
         /\ rest # <<>> => Cuts(rest) * MaxRecordBytes < Len(rest)
         /\ FlattenSeq(ShownAll(Parts(rest))) =
              LogText(SubSeq(rest, 1, Cuts(rest) * MaxRecordBytes))
<1> DEFINE M == MaxRecordBytes
           m == Cuts(rest)
           list == Parts(rest)
           cut == [k \in 0..m |-> k * M]
<1>1. M \in Nat \ {0} /\ Len(rest) \in Nat /\ \A i \in 1..Len(rest) : rest[i] \in Char
  BY CommandRunnerAssumption, LenProperties, ElementOfSeq
<1> HIDE DEF M
<1>2. m \in Nat /\ m * M \in 0..Len(rest) /\ (rest # <<>> => m * M < Len(rest))
  <2>1. CASE rest = <<>>
    <3>1. m = 0 /\ Len(rest) = 0
      BY <2>1 DEF Cuts
    <3> QED BY <1>1, <2>1, <3>1
  <2>2. CASE rest # <<>>
    <3> DEFINE n == Len(rest) - 1
    <3>1. n \in Nat
      BY <2>2, EmptySeq
    <3>2. m = n \div M
      BY <2>2 DEF Cuts, M
    <3> HIDE DEF n, m
    <3>3. n \div M \in Nat /\ (n \div M) * M <= n
      BY <1>1, <3>1
    <3>4. m \in Nat /\ m * M \in Nat /\ m * M <= n
      BY <1>1, <3>2, <3>3
    <3>5. m * M < Len(rest)
      BY <1>1, <3>4 DEF n
    <3> QED BY <1>1, <3>4, <3>5
  <2> QED BY <2>1, <2>2
<1> HIDE DEF m
<1>3. ASSUME NEW k \in 1..m
      PROVE  /\ (k - 1) * M \in 0..Len(rest) /\ k * M \in (k - 1) * M..Len(rest)
             /\ k * M < Len(rest)
  <2>1. (k - 1) * M \in Nat /\ k * M = (k - 1) * M + M /\ k * M <= m * M
    BY <1>1, <1>2
  <2>2. m * M < Len(rest)
    <3>1. rest # <<>>
      BY <1>2 DEF Cuts, m
    <3> QED BY <1>2, <3>1
  <2> QED BY <1>1, <1>2, <2>1, <2>2
<1>4. ASSUME NEW k \in 1..m
      PROVE  LET part == SubSeq(rest, (k - 1) * M + 1, k * M)
             IN /\ part \in Seq(Char) /\ OneLine(part)
                /\ LogText(part) = Shown(part)
  <2> DEFINE i == (k - 1) * M
             j == k * M
             part == SubSeq(rest, i + 1, j)
  <2>1. i \in 0..Len(rest) /\ j \in i..Len(rest) /\ j < Len(rest)
    BY <1>3
  <2> HIDE DEF i, j
  <2>2. i + 1 \in Int /\ j \in Int /\ \A n \in (i + 1)..j : rest[n] \in Char
    BY <1>1, <2>1
  <2>3. /\ part \in Seq(Char) /\ Len(part) = IF i + 1 <= j THEN j - (i + 1) + 1 ELSE 0
        /\ \A n \in 1..(j - (i + 1) + 1) : part[n] = rest[(i + 1) + n - 1]
    BY SMTT(30), <2>2, SubSeqProperties
  <2> HIDE DEF part
  <2>4. ASSUME NEW n \in 1..Len(part) PROVE part[n] \notin {"n", "r"}
    <3>1. /\ n \in 1..(j - (i + 1) + 1) /\ (i + 1) + n - 1 \in 1..Len(rest)
          /\ (i + 1) + n - 1 # Len(rest)
      BY <1>1, <2>1, <2>3
    <3> QED BY <2>3, <3>1
  <2>5. LogText(part) = Shown(part)
    BY <2>3, <2>4, LogPlain
  <2>6. OneLine(part)
    BY <2>4 DEF OneLine
  <2> QED BY <2>3, <2>5, <2>6 DEF part, i, j
<1>5. /\ list \in Seq(Seq(Char)) /\ Len(list) = m
      /\ \A k \in 1..m : list[k] = SubSeq(rest, (k - 1) * M + 1, k * M)
  <2>1. list = [k \in 1..m |-> SubSeq(rest, (k - 1) * M + 1, k * M)]
    BY DEF Parts, m, M
  <2>2. \A k \in 1..m : SubSeq(rest, (k - 1) * M + 1, k * M) \in Seq(Char)
    BY <1>4
  <2> HIDE DEF list
  <2>3. list \in [1..m -> Seq(Char)]
    BY <2>1, <2>2
  <2>4. list \in Seq(Seq(Char))
    BY <1>2, <2>3, SeqDef
  <2>5. DOMAIN list = 1..Len(list) /\ Len(list) \in Nat
    BY <2>4, LenProperties
  <2>6. Len(list) = m
    BY <1>2, <2>3, <2>5, SameEnd
  <2> QED BY <2>1, <2>4, <2>6
<1>6. /\ cut[0] = 0 /\ cut[m] = m * M
      /\ \A k \in 1..m : cut[k] = k * M /\ cut[k - 1] = (k - 1) * M
  BY <1>1, <1>2
<1> HIDE DEF cut, list
<1>7. ASSUME NEW k \in 1..m
      PROVE  /\ cut[k - 1] \in 0..Len(rest) /\ cut[k] \in cut[k - 1]..Len(rest)
             /\ CleanCut(rest, cut[k - 1])
             /\ LogText(SubSeq(rest, cut[k - 1] + 1, cut[k])) = Shown(list[k])
  <2>1. CleanCut(rest, cut[k - 1])
    <3> SUFFICES ASSUME 0 < cut[k - 1], cut[k - 1] < Len(rest) PROVE rest[cut[k - 1]] # "r"
      BY DEF CleanCut
    <3>1. cut[k - 1] \in 1..Len(rest) /\ cut[k - 1] # Len(rest)
      BY <1>1, <1>3, <1>6
    <3> QED BY <3>1
  <2> QED BY <1>3, <1>4, <1>5, <1>6, <2>1
<1>8. FlattenSeq(ShownAll(list)) = LogText(SubSeq(rest, 1, m * M))
  <2>1. CutInto(rest, m, cut, list)
    BY <1>5, <1>6, <1>7 DEF CutInto
  <2> QED BY <1>2, <1>6, <2>1, CutsJoin
<1>9. \A k \in 1..Len(list) : OneLine(list[k])
  BY <1>4, <1>5
<1> QED BY <1>2, <1>5, <1>8, <1>9 DEF m, list, M

\* What CompleteRecords returns: records with their line end at the end, which
\* show the text up to q, and the text from q, which is nothing at the end of the
\* stream and never begins in the middle of a \r\n.
Completed(value, final, cut, q) ==
  /\ q \in 0..Len(value)
  /\ cut.records \in Seq(Seq(Char))
  /\ \A k \in 1..Len(cut.records) : OneLine(cut.records[k])
  /\ cut.pending = SubSeq(value, q + 1, Len(value))
  /\ FlattenSeq(ShownAll(cut.records)) = LogText(SubSeq(value, 1, q))
  /\ final => q = Len(value)
  /\ ~final /\ q > 0 /\ value[q] = "r" => q < Len(value) /\ value[q + 1] # "n"

\* Two lists of records, one after the other.
LEMMA ShownAllConcat ==
  ASSUME NEW s \in Seq(Seq(Char)), NEW t \in Seq(Seq(Char)),
         \A k \in 1..Len(s) : OneLine(s[k]), \A k \in 1..Len(t) : OneLine(t[k])
  PROVE  /\ s \o t \in Seq(Seq(Char))
         /\ \A k \in 1..Len(s \o t) : OneLine((s \o t)[k])
         /\ FlattenSeq(ShownAll(s \o t)) =
              FlattenSeq(ShownAll(s)) \o FlattenSeq(ShownAll(t))
<1>1. Len(s) \in Nat /\ Len(t) \in Nat
  BY LenProperties
<1>2. /\ s \o t \in Seq(Seq(Char)) /\ Len(s \o t) = Len(s) + Len(t)
      /\ \A k \in 1..(Len(s) + Len(t)) :
           (s \o t)[k] = IF k <= Len(s) THEN s[k] ELSE t[k - Len(s)]
  BY ConcatProperties
<1>3. ASSUME NEW k \in 1..Len(s \o t) PROVE OneLine((s \o t)[k])
  <2>1. CASE k <= Len(s)
    <3>1. k \in 1..Len(s) /\ (s \o t)[k] = s[k]
      BY <1>1, <1>2, <2>1
    <3> QED BY <3>1
  <2>2. CASE ~(k <= Len(s))
    <3>1. k - Len(s) \in 1..Len(t) /\ (s \o t)[k] = t[k - Len(s)]
      BY <1>1, <1>2, <2>2
    <3> QED BY <3>1
  <2> QED BY <2>1, <2>2
<1> DEFINE p == ShownAll(s)
           q == ShownAll(t)
           both == ShownAll(s \o t)
<1>4. /\ p \in Seq(Seq(LogChar)) /\ Len(p) = Len(s) /\ \A k \in 1..Len(s) : p[k] = Shown(s[k])
      /\ q \in Seq(Seq(LogChar)) /\ Len(q) = Len(t) /\ \A k \in 1..Len(t) : q[k] = Shown(t[k])
  BY ShownAllType
<1>5. /\ both \in Seq(Seq(LogChar)) /\ Len(both) = Len(s) + Len(t)
      /\ \A k \in 1..(Len(s) + Len(t)) : both[k] = Shown((s \o t)[k])
  <2> DEFINE u == s \o t
  <2>1. u \in Seq(Seq(Char)) /\ Len(u) = Len(s) + Len(t)
    BY <1>2
  <2> HIDE DEF u
  <2>2. /\ ShownAll(u) \in Seq(Seq(LogChar)) /\ Len(ShownAll(u)) = Len(u)
        /\ \A k \in 1..Len(u) : ShownAll(u)[k] = Shown(u[k])
    BY <2>1, ShownAllType
  <2> QED BY <2>1, <2>2 DEF u
<1> HIDE DEF p, q, both
<1>6. /\ p \o q \in Seq(Seq(LogChar)) /\ Len(p \o q) = Len(s) + Len(t)
      /\ \A k \in 1..(Len(s) + Len(t)) :
           (p \o q)[k] = IF k <= Len(s) THEN p[k] ELSE q[k - Len(s)]
  <2>1. p \in Seq(Seq(LogChar)) /\ q \in Seq(Seq(LogChar))
    BY <1>4
  <2>2. /\ p \o q \in Seq(Seq(LogChar)) /\ Len(p \o q) = Len(p) + Len(q)
        /\ \A k \in 1..(Len(p) + Len(q)) :
             (p \o q)[k] = IF k <= Len(p) THEN p[k] ELSE q[k - Len(p)]
    BY <2>1, ConcatProperties
  <2>3. Len(p) = Len(s) /\ Len(q) = Len(t)
    BY <1>4
  <2> QED BY <2>2, <2>3
<1>7. ASSUME NEW k \in 1..(Len(s) + Len(t)) PROVE both[k] = (p \o q)[k]
  <2>1. CASE k <= Len(s)
    <3>1. k \in 1..Len(s)
      BY <1>1, <2>1
    <3> QED BY <1>2, <1>4, <1>5, <1>6, <2>1, <3>1
  <2>2. CASE ~(k <= Len(s))
    <3>1. k - Len(s) \in 1..Len(t)
      BY <1>1, <2>2
    <3> QED BY <1>2, <1>4, <1>5, <1>6, <2>2, <3>1
  <2> QED BY <2>1, <2>2
<1>8. both = p \o q
  BY <1>5, <1>6, <1>7, SeqEqual
<1>9. FlattenSeq(p \o q) = FlattenSeq(p) \o FlattenSeq(q)
  BY <1>4, FlattenConcat
<1> QED BY <1>2, <1>3, <1>8, <1>9 DEF p, q, both

\* After the last end of a record only a carriage return at the very end, before
\* the end of the stream, can be part of a line end.
LEMMA RestHasNoEnds ==
  ASSUME NEW value \in Seq(Char), NEW final \in BOOLEAN, NEW e \in 0..Len(value),
         \A i \in RecordEnds(value, final) : i <= e
  PROVE  LET rest == SubSeq(value, e + 1, Len(value))
         IN \A i \in 1..Len(rest) : rest[i] \in {"n", "r"} => i = Len(rest) /\ ~final
<1> DEFINE rest == SubSeq(value, e + 1, Len(value))
<1>1. Len(value) \in Nat /\ DOMAIN value = 1..Len(value)
  BY SMTT(60), LenProperties
<1>2. /\ Len(rest) = Len(value) - e
      /\ \A i \in 1..(Len(value) - e) : rest[i] = value[e + i]
  BY Zenon, <1>1, RestOf
<1> HIDE DEF rest
<1>3. ASSUME NEW i \in 1..(Len(value) - e), rest[i] \in {"n", "r"}
      PROVE  i = Len(rest) /\ ~final
  <2> DEFINE j == e + i
  <2>1. j \in 1..Len(value) /\ e < j /\ value[j] \in {"n", "r"}
    BY <1>1, <1>2, <1>3
  <2> HIDE DEF j
  <2>2. j \notin RecordEnds(value, final)
    BY <1>1, <2>1
  <2>3. value[j] = "r"
    BY <1>1, <2>1, <2>2, Zenon DEF RecordEnds
  <2>4. ASSUME j < Len(value) PROVE FALSE
    <3>1. j + 1 \in 1..Len(value) /\ e < j + 1
      BY <1>1, <2>1, <2>4
    <3>2. j # Len(value)
      BY Zenon, <1>1, <2>1, <2>4, NatOrder
    <3>3. value[j + 1] = "n"
      BY <1>1, <2>1, <2>2, <2>3, <3>2, Zenon DEF RecordEnds
    <3>4. j + 1 \in RecordEnds(value, final)
      BY ZenonT(60), <1>1, <3>1, <3>3 DEF RecordEnds
    <3> QED BY <1>1, <3>1, <3>4
  <2>5. j = Len(value)
    <3>1. j \in Nat /\ j <= Len(value)
      BY <1>1, <2>1
    <3> QED BY Zenon, <1>1, <2>4, <3>1, NatOrder
  <2>6. ~final
    BY <1>1, <2>1, <2>2, <2>3, <2>5, Zenon DEF RecordEnds
  <2>7. i = Len(rest)
    <3>1. \A a, b, n, r \in Nat : a + b = n /\ r = n - a => b = r
      OBVIOUS
    <3>2. e + i = Len(value)
      BY <2>5, Zenon DEF j
    <3>3. Len(value) - e \in Nat /\ e \in Nat /\ i \in Nat
      BY <1>1
    <3> QED BY <1>1, <1>2, <3>1, <3>2, <3>3, Zenon
  <2> QED BY <2>6, <2>7
<1> QED BY <1>2, <1>3 DEF rest

\* _complete_records, for every text and every record limit.
LEMMA CompleteRecordsShow ==
  ASSUME NEW value \in Seq(Char), NEW final \in BOOLEAN
  PROVE  \E q : Completed(value, final, CompleteRecords(value, final), q)
<1> DEFINE ends == RecordEnds(value, final)
           e == Nth(ends, Cardinality(ends))
           rest == SubSeq(value, e + 1, Len(value))
           c == Cuts(rest) * MaxRecordBytes
           tail == SubSeq(rest, c + 1, Len(rest))
           complete == Lines(value, ends) \o Parts(rest)
           q == e + c
<1>1. Len(value) \in Nat /\ DOMAIN value = 1..Len(value)
  BY LenProperties
<1>2. /\ Lines(value, ends) \in Seq(Seq(Char))
      /\ \A k \in 1..Len(Lines(value, ends)) : OneLine(Lines(value, ends)[k])
      /\ e \in 0..Len(value)
      /\ FlattenSeq(ShownAll(Lines(value, ends))) = LogText(SubSeq(value, 1, e))
  BY LinesShow
<1>3. \A i \in ends : i <= e
  <2>1. ends \subseteq 1..Len(value)
    BY <1>1 DEF RecordEnds
  <2> HIDE DEF ends
  <2> QED BY <1>1, <2>1, NthInOrder
<1>4. CleanCut(value, e) /\ (e > 0 => e \in ends)
  <2>1. e > 0 => e \in ends
    <3>1. ends \subseteq 1..Len(value)
      BY <1>1 DEF RecordEnds
    <3> HIDE DEF ends
    <3>2. Cardinality(ends) \in Nat /\ Nth(ends, 0) = 0
      BY <1>1, <3>1, NthInOrder
    <3>3. Cardinality(ends) # 0 => Cardinality(ends) \in 1..Cardinality(ends)
      BY <3>2
    <3>4. \A k \in 1..Cardinality(ends) : Nth(ends, k) \in ends
      BY <1>1, <3>1, NthInOrder
    <3> QED BY <3>2, <3>3, <3>4
  <2>2. CASE e = 0
    BY <2>1, <2>2 DEF CleanCut
  <2>3. CASE e # 0
    <3>1. e \in ends
      BY <1>2, <2>1, <2>3
    <3> QED BY <3>1, EndsAreClean
  <2> QED BY <2>1, <2>2, <2>3
<1>5. \A i \in 1..Len(rest) : rest[i] \in {"n", "r"} => i = Len(rest) /\ ~final
  <2> HIDE DEF e
  <2> QED BY <1>2, <1>3, RestHasNoEnds
<1> HIDE DEF e
<1>6. /\ rest \in Seq(Char) /\ Len(rest) = Len(value) - e
      /\ \A i \in 1..(Len(value) - e) : rest[i] = value[e + i]
  BY Zenon, <1>1, <1>2, RestOf
<1> HIDE DEF rest
<1>7. /\ Parts(rest) \in Seq(Seq(Char))
      /\ \A k \in 1..Len(Parts(rest)) : OneLine(Parts(rest)[k])
      /\ c \in 0..Len(rest) /\ (rest # <<>> => c < Len(rest))
      /\ FlattenSeq(ShownAll(Parts(rest))) = LogText(SubSeq(rest, 1, c))
  BY <1>5, <1>6, PartsShow
<1> HIDE DEF c
<1>8. /\ tail \in Seq(Char) /\ Len(tail) = Len(rest) - c
      /\ tail = SubSeq(value, q + 1, Len(value))
      /\ \A i \in 1..(Len(rest) - c) : tail[i] = rest[c + i]
  <2>1. /\ c \in 0..(Len(value) - e) /\ Len(rest) \in c..(Len(value) - e)
        /\ e + Len(rest) = Len(value)
    BY <1>1, <1>2, <1>6, <1>7
  <2>2. SubSeq(SubSeq(value, e + 1, Len(value)), c + 1, Len(rest)) =
          SubSeq(value, (e + c) + 1, e + Len(rest))
    <3> DEFINE y == Len(rest)
    <3>1. y \in c..(Len(value) - e) /\ c \in 0..(Len(value) - e)
      BY <2>1
    <3> HIDE DEF y
    <3>2. SubSeq(SubSeq(value, e + 1, Len(value)), c + 1, y) = SubSeq(value, (e + c) + 1, e + y)
      BY <1>2, <3>1, SubSeqShift
    <3> QED BY <3>2 DEF y
  <2>3. /\ tail \in Seq(Char) /\ Len(tail) = Len(rest) - c
        /\ \A i \in 1..(Len(rest) - c) : tail[i] = rest[c + i]
    <3>1. 0 \in 0..(Len(rest) - c)
      BY <1>1, <1>2, <1>6, <1>7
    <3> QED BY <1>6, <1>7, <3>1, SubSeqShift
  <2> QED BY <2>1, <2>2, <2>3 DEF rest
<1>9. SubSeq(rest, 1, c) = SubSeq(value, e + 1, q)
  <2>1. /\ 0 \in 0..(Len(value) - e) /\ c \in 0..(Len(value) - e)
        /\ (e + 0) + 1 = e + 1 /\ 0 + 1 = 1
    BY <1>1, <1>2, <1>6, <1>7
  <2>2. SubSeq(SubSeq(value, e + 1, Len(value)), 0 + 1, c) = SubSeq(value, (e + 0) + 1, e + c)
    BY <1>2, <2>1, SubSeqShift
  <2> QED BY <2>1, <2>2 DEF rest
<1>10. /\ complete \in Seq(Seq(Char)) /\ \A k \in 1..Len(complete) : OneLine(complete[k])
       /\ FlattenSeq(ShownAll(complete)) =
            LogText(SubSeq(value, 1, e)) \o LogText(SubSeq(value, e + 1, q))
  <2> DEFINE s == Lines(value, ends)
             t == Parts(rest)
  <2> HIDE DEF s, t
  <2>1. /\ s \in Seq(Seq(Char)) /\ \A k \in 1..Len(s) : OneLine(s[k])
        /\ FlattenSeq(ShownAll(s)) = LogText(SubSeq(value, 1, e))
    BY <1>2 DEF s
  <2>2. /\ t \in Seq(Seq(Char)) /\ \A k \in 1..Len(t) : OneLine(t[k])
        /\ FlattenSeq(ShownAll(t)) = LogText(SubSeq(value, e + 1, q))
    BY <1>7, <1>9 DEF t
  <2>3. /\ s \o t \in Seq(Seq(Char)) /\ \A k \in 1..Len(s \o t) : OneLine((s \o t)[k])
        /\ FlattenSeq(ShownAll(s \o t)) = FlattenSeq(ShownAll(s)) \o FlattenSeq(ShownAll(t))
    BY <2>1, <2>2, ShownAllConcat
  <2> QED BY <2>1, <2>2, <2>3 DEF s, t
<1> HIDE DEF complete, ends
<1>11. FlattenSeq(ShownAll(complete)) = LogText(SubSeq(value, 1, q))
  <2>1. q \in e..Len(value)
    BY <1>1, <1>2, <1>6, <1>7
  <2> HIDE DEF q
  <2> QED BY <1>2, <1>4, <1>10, <2>1, LogAdjacent
<1>12. q \in 0..Len(value)
  BY <1>1, <1>2, <1>6, <1>7
<1>13. ASSUME c > 0 PROVE value[q] # "r"
  <2>1. c \in 1..Len(rest) /\ c # Len(rest) /\ rest[c] = value[q]
    <3>1. rest # <<>>
      BY <1>6, <1>7, <1>13, EmptySeq
    <3>2. c \in Nat /\ Len(rest) \in Nat /\ c < Len(rest)
      BY <1>1, <1>2, <1>6, <1>7, <3>1
    <3>3. c # Len(rest)
      BY <3>2, NatOrder
    <3>4. c \in 1..Len(rest) /\ c \in 1..(Len(value) - e)
      BY <1>6, <1>13, <3>2
    <3> QED BY <1>6, <3>3, <3>4
  <2> QED BY <1>5, <2>1
<1>14. CleanCut(value, q)
  <2>1. CASE c = 0
    BY <1>2, <1>4, <2>1
  <2>2. CASE c # 0
    <3>1. c > 0
      BY <1>7, <2>2
    <3> QED BY <1>13, <3>1 DEF CleanCut
  <2> QED BY <2>1, <2>2
<1> DEFINE cut == CompleteRecords(value, final)
<1>15. cut = IF final /\ tail # <<>>
             THEN [records |-> Append(complete, tail), pending |-> <<>>]
             ELSE [records |-> complete, pending |-> tail]
  BY DEF CompleteRecords, complete, ends, rest, c, e
<1> HIDE DEF cut, tail
<1>16. q > 0 /\ value[q] = "r" /\ ~final => q < Len(value) /\ value[q + 1] # "n"
  <2> SUFFICES ASSUME q > 0, value[q] = "r", ~final PROVE q < Len(value) /\ value[q + 1] # "n"
    OBVIOUS
  <2>1. c = 0 /\ q = e
    BY <1>2, <1>7, <1>13
  <2>2. e \in ends /\ value[e] = "r"
    BY <1>4, <2>1
  <2>3. e # Len(value)
    BY <2>2, Zenon DEF ends, RecordEnds
  <2>4. e < Len(value)
    <3>1. e \in Nat /\ e <= Len(value)
      BY <1>1, <1>2
    <3> QED BY <1>1, <2>3, <3>1, NatOrder, Zenon
  <2>5. value[e + 1] # "n"
    BY <2>2, <2>3, Zenon DEF ends, RecordEnds
  <2> QED BY <2>1, <2>4, <2>5
<1>17. CASE ~final
  <2>1. cut.records = complete /\ cut.pending = tail
    BY <1>15, <1>17
  <2> HIDE DEF q
  <2>2. Completed(value, final, cut, q)
    BY <1>8, <1>10, <1>11, <1>12, <1>16, <1>17, <2>1 DEF Completed
  <2> QED BY <2>2 DEF cut
<1>18. CASE final /\ tail = <<>>
  <2>1. cut.records = complete /\ cut.pending = tail
    BY <1>15, <1>18
  <2>2. q = Len(value)
    <3>1. Len(tail) = 0
      BY <1>18
    <3>2. Len(rest) - c = 0
      BY <1>8, <3>1, Zenon
    <3>3. Len(rest) \in Nat
      BY <1>6, LenProperties, Zenon
    <3>4. e \in Nat /\ c \in Nat
      BY <1>1, <1>2, <1>7, <3>3
    <3>5. \A a, b, n, r \in Nat : r = n - a /\ r - b = 0 => a + b = n
      OBVIOUS
    <3> QED BY <1>1, <1>6, <3>2, <3>3, <3>4, <3>5, Zenon
  <2> HIDE DEF q
  <2>3. Completed(value, final, cut, q)
    BY <1>8, <1>10, <1>11, <1>12, <1>18, <2>1, <2>2 DEF Completed
  <2> QED BY <2>3 DEF cut
<1>19. CASE final /\ tail # <<>>
  <2>1. cut.records = Append(complete, tail) /\ cut.pending = <<>>
    BY <1>15, <1>19
  <2>2. \A i \in 1..Len(tail) : tail[i] \notin {"n", "r"}
    <3> SUFFICES ASSUME NEW i \in 1..Len(tail) PROVE tail[i] \notin {"n", "r"}
      OBVIOUS
    <3>1. c + i \in 1..Len(rest) /\ tail[i] = rest[c + i]
      <4>1. Len(rest) \in Nat
        BY <1>6, LenProperties, Zenon
      <4>2. c \in Nat /\ c <= Len(rest)
        BY <1>7, <4>1
      <4>3. i \in 1..(Len(rest) - c)
        BY <1>8, Zenon
      <4>4. \A a, n \in Nat : a <= n => \A k \in 1..(n - a) : a + k \in 1..n
        OBVIOUS
      <4>5. c + i \in 1..Len(rest)
        BY <4>1, <4>2, <4>3, <4>4, Zenon
      <4> QED BY <1>8, <4>3, <4>5, Zenon
    <3> QED BY <1>5, <1>19, <3>1
  <2>3. OneLine(tail) /\ LogText(tail) = Shown(tail)
    BY <1>8, <2>2, LogPlain DEF OneLine
  <2>4. <<tail>> \in Seq(Seq(Char)) /\ \A k \in 1..Len(<<tail>>) : OneLine(<<tail>>[k])
    <3>1. tail \in Seq(Char)
      BY <1>8
    <3>2. Len(<<tail>>) = 1 /\ <<tail>>[1] = tail
      OBVIOUS
    <3>3. \A k \in 1..1 : k = 1
      OBVIOUS
    <3> QED BY <2>3, <3>1, <3>2, <3>3
  <2>5. FlattenSeq(ShownAll(<<tail>>)) = Shown(tail)
    <3>1. ShownAll(<<tail>>) = <<Shown(tail)>>
      BY DEF ShownAll
    <3>2. Shown(tail) \in Seq(LogChar)
      BY <1>8, ShownType
    <3> QED BY <3>1, <3>2, FlattenOne
  <2>6. Append(complete, tail) = complete \o <<tail>>
    BY <1>8, <1>10, AppendIsConcat
  <2>7. /\ cut.records \in Seq(Seq(Char))
        /\ \A k \in 1..Len(cut.records) : OneLine(cut.records[k])
        /\ FlattenSeq(ShownAll(cut.records)) = LogText(SubSeq(value, 1, q)) \o LogText(tail)
    <3> DEFINE t == <<tail>>
    <3> HIDE DEF t
    <3>1. t \in Seq(Seq(Char)) /\ \A k \in 1..Len(t) : OneLine(t[k])
      BY <2>4 DEF t
    <3>2. /\ complete \o t \in Seq(Seq(Char))
          /\ \A k \in 1..Len(complete \o t) : OneLine((complete \o t)[k])
          /\ FlattenSeq(ShownAll(complete \o t)) =
               FlattenSeq(ShownAll(complete)) \o FlattenSeq(ShownAll(t))
      BY <1>10, <3>1, ShownAllConcat
    <3> QED BY <1>11, <2>1, <2>3, <2>5, <2>6, <3>2 DEF t
  <2> HIDE DEF q
  <2>8. LogText(SubSeq(value, 1, Len(value))) = LogText(SubSeq(value, 1, q)) \o LogText(tail)
    <3>1. Len(value) \in q..Len(value)
      BY <1>1, <1>12
    <3> QED BY <1>8, <1>12, <1>14, <3>1, LogAdjacent
  <2>9. SubSeq(value, Len(value) + 1, Len(value)) = <<>>
    BY <1>1, SubSeqEmpty
  <2>10. Completed(value, final, cut, Len(value))
    BY SMTT(60), <1>1, <1>19, <2>1, <2>7, <2>8, <2>9 DEF Completed
  <2> QED BY <2>10 DEF cut
<1> QED BY <1>17, <1>18, <1>19

\* A sequence is what is before a cut and what is after it.
LEMMA CutSeq ==
  ASSUME NEW S, NEW seq \in Seq(S), NEW k \in 0..Len(seq)
  PROVE  LET a == SubSeq(seq, 1, k)
             b == SubSeq(seq, k + 1, Len(seq))
         IN /\ a \in Seq(S) /\ Len(a) = k /\ \A i \in 1..k : a[i] = seq[i]
            /\ b \in Seq(S) /\ Len(b) = Len(seq) - k
            /\ \A i \in 1..(Len(seq) - k) : b[i] = seq[k + i]
            /\ a \o b = seq
<1> DEFINE n == Len(seq)
           a == SubSeq(seq, 1, k)
           b == SubSeq(seq, k + 1, n)
<1>1. n \in Nat /\ k \in Int /\ \A i \in 1..n : seq[i] \in S
  BY LenProperties, ElementOfSeq
<1>2. a \in Seq(S) /\ Len(a) = k /\ \A i \in 1..k : a[i] = seq[i]
  <2>1. \A i \in 1..k : seq[i] \in S
    BY <1>1
  <2>2. /\ a \in Seq(S) /\ Len(a) = IF 1 <= k THEN k - 1 + 1 ELSE 0
        /\ \A i \in 1..(k - 1 + 1) : a[i] = seq[1 + i - 1]
    BY <1>1, <2>1, SubSeqProperties
  <2> HIDE DEF a
  <2> QED BY <1>1, <2>2
<1>3. /\ b \in Seq(S) /\ Len(b) = n - k
      /\ \A i \in 1..(n - k) : b[i] = seq[k + i]
  <2>1. 0 \in 0..(n - k)
    BY <1>1
  <2> QED BY <1>1, <2>1, SubSeqShift
<1>4. a \o b = seq
  <2>1. 1 \in 1..(n + 1) /\ k \in (1 - 1)..n /\ n \in k..n
    BY <1>1
  <2>2. SubSeq(seq, 1, k) \o SubSeq(seq, k + 1, n) = SubSeq(seq, 1, n)
    BY <2>1, ConcatAdjacentSubSeq
  <2> QED BY <2>2, SubSeqFull
<1> QED BY <1>2, <1>3, <1>4

(***************************************************************************)
(* The bounded buffer.                                                     *)
(***************************************************************************)

\* The end of text, up to StreamLimit of it, and all of it unless marked.
Bounded(buffer, text) ==
  /\ IsSuffix_(buffer.text, text)
  /\ Len(buffer.text) = IF Len(text) < StreamLimit THEN Len(text) ELSE StreamLimit
  /\ ~buffer.truncated => buffer.text = text

\* What is appended last is the end of the whole.
LEMMA EndOfConcat ==
  ASSUME NEW S, NEW p \in Seq(S), NEW s \in Seq(S)
  PROVE  IsSuffix_(s, p \o s)
<1> DEFINE t == p \o s
           k == Len(p)
<1>1. /\ t \in Seq(S) /\ Len(t) = Len(p) + Len(s)
      /\ \A i \in 1..(Len(p) + Len(s)) : t[i] = IF i <= Len(p) THEN p[i] ELSE s[i - Len(p)]
  BY ConcatProperties
<1>2. Len(p) \in Nat /\ Len(s) \in Nat
  BY LenProperties
<1> HIDE DEF t
<1>3. /\ SubSeq(t, k + 1, Len(t)) \in Seq(S) /\ Len(SubSeq(t, k + 1, Len(t))) = Len(t) - k
      /\ \A i \in 1..(Len(t) - k) : SubSeq(t, k + 1, Len(t))[i] = t[k + i]
  <2>1. k \in 0..Len(t)
    BY <1>1, <1>2
  <2> QED BY <1>1, <2>1, CutSeq
<1>4. Len(t) - Len(s) + 1 = k + 1 /\ Len(t) - k = Len(s) /\ Len(s) <= Len(t)
  BY <1>1, <1>2
<1>5. \A i \in 1..Len(s) : SubSeq(t, k + 1, Len(t))[i] = s[i]
  <2> SUFFICES ASSUME NEW i \in 1..Len(s) PROVE SubSeq(t, k + 1, Len(t))[i] = s[i]
    OBVIOUS
  <2>1. /\ k + i \in 1..(Len(p) + Len(s)) /\ ~(k + i <= Len(p)) /\ k + i - Len(p) = i
        /\ i \in 1..(Len(t) - k)
    BY <1>2, <1>4
  <2>2. t[k + i] = s[i]
    BY <1>1, <2>1
  <2> QED BY <1>3, <2>1, <2>2
<1>6. SubSeq(t, k + 1, Len(t)) = s
  BY <1>3, <1>4, <1>5, SeqEqual
<1> QED BY <1>4, <1>6 DEF IsSuffix_, t

\* A text is what comes before an end of it, and that end.
LEMMA BeforeEnd ==
  ASSUME NEW S, NEW s \in Seq(S), NEW t \in Seq(S), IsSuffix_(s, t)
  PROVE  \E p \in Seq(S) : t = p \o s
<1> DEFINE k == Len(t) - Len(s)
<1>1. Len(t) \in Nat /\ k \in 0..Len(t) /\ s = SubSeq(t, k + 1, Len(t))
  BY LenProperties DEF IsSuffix_
<1> HIDE DEF k
<1>2. SubSeq(t, 1, k) \in Seq(S) /\ s \in Seq(S) /\ SubSeq(t, 1, k) \o s = t
  BY <1>1, CutSeq
<1> QED BY <1>2

\* What is put in front of a text does not change its ends.
LEMMA EndOfEnd ==
  ASSUME NEW S, NEW p \in Seq(S), NEW t \in Seq(S), NEW s \in Seq(S), IsSuffix_(s, t)
  PROVE  IsSuffix_(s, p \o t)
<1>1. PICK q \in Seq(S) : t = q \o s
  BY BeforeEnd
<1>2. p \o q \in Seq(S)
  BY ConcatProperties
<1>3. (p \o q) \o s = p \o (q \o s)
  BY SMTT(30), ConcatAssociative
<1>4. p \o t = (p \o q) \o s
  BY <1>1, <1>3, Zenon
<1> QED BY <1>2, <1>4, EndOfConcat

\* The last L of a longer sequence are its end.
EndOf(S, all, end, L) ==
  end \in Seq(S) /\ Len(end) = L /\ \E front \in Seq(S) : all = front \o end

LEMMA LastPart ==
  ASSUME NEW S, NEW all \in Seq(S), NEW L \in Nat, Len(all) > L
  PROVE  EndOf(S, all, SubSeq(all, Len(all) - L + 1, Len(all)), L)
<1> DEFINE over == Len(all) - L
<1>1. Len(all) \in Nat /\ over \in 0..Len(all) /\ Len(all) - over = L
  BY LenProperties
<1> HIDE DEF over
<1>2. /\ SubSeq(all, 1, over) \in Seq(S) /\ SubSeq(all, over + 1, Len(all)) \in Seq(S)
      /\ Len(SubSeq(all, over + 1, Len(all))) = Len(all) - over
      /\ SubSeq(all, 1, over) \o SubSeq(all, over + 1, Len(all)) = all
  BY <1>1, CutSeq
<1>3. SubSeq(all, over + 1, Len(all)) \in Seq(S) /\ Len(SubSeq(all, over + 1, Len(all))) = L
  BY <1>1, <1>2, Zenon
<1>4. \E front \in Seq(S) : all = front \o SubSeq(all, over + 1, Len(all))
  BY <1>2, Zenon
<1> QED BY <1>3, <1>4, Zenon DEF EndOf, over

\* A buffer remains one.
LEMMA KeepType ==
  ASSUME NEW S, NEW buffer \in [text : Seq(S), truncated : BOOLEAN], NEW value \in Seq(S)
  PROVE  Keep(buffer, value) \in [text : Seq(S), truncated : BOOLEAN]
<1> DEFINE all == buffer.text \o value
           L == StreamLimit
           end == SubSeq(all, Len(all) - L + 1, Len(all))
           mark == buffer.truncated \/ Len(value) >= L \/ Len(all) > L
<1>1. Keep(buffer, value) = [text |-> IF Len(all) > L THEN end ELSE all, truncated |-> mark]
  BY DEF Keep
<1>2. all \in Seq(S)
  BY ConcatProperties
<1>3. mark \in BOOLEAN
  OBVIOUS
<1> HIDE DEF all, mark
<1>4. Len(all) > L => end \in Seq(S)
  <2> SUFFICES ASSUME Len(all) > L PROVE end \in Seq(S)
    OBVIOUS
  <2>1. L \in Nat
    BY CommandRunnerAssumption
  <2>2. EndOf(S, all, end, L)
    BY <1>2, <2>1, LastPart
  <2> QED BY <2>2 DEF EndOf
<1> HIDE DEF end
<1> QED BY <1>1, <1>2, <1>3, <1>4

\* _BoundedTextBuffer.append: a buffer that has the end of a text has, with a value
\* appended, the end of the longer text, and is marked if something is missing.
LEMMA KeepBounded ==
  ASSUME NEW S, NEW buffer \in [text : Seq(S), truncated : BOOLEAN],
         NEW value \in Seq(S), NEW text \in Seq(S), Bounded(buffer, text)
  PROVE  /\ Keep(buffer, value) \in [text : Seq(S), truncated : BOOLEAN]
         /\ Bounded(Keep(buffer, value), text \o value)
<1> DEFINE old == buffer.text
           all == old \o value
           L == StreamLimit
           end == SubSeq(all, Len(all) - L + 1, Len(all))
           new == IF Len(all) > L THEN end ELSE all
           whole == text \o value
           mark == buffer.truncated \/ Len(value) >= L \/ Len(all) > L
<1>0. Keep(buffer, value) = [text |-> new, truncated |-> mark]
  BY DEF Keep
<1>2. /\ IsSuffix_(old, text) /\ Len(old) = IF Len(text) < L THEN Len(text) ELSE L
      /\ ~mark => old = text
  BY DEF Bounded
<1>3. Len(all) > L => mark
  OBVIOUS
<1>1. old \in Seq(S) /\ mark \in BOOLEAN
  OBVIOUS
<1> HIDE DEF old, mark, all, end, new, whole
<1>4. Len(old) \in Nat /\ Len(text) \in Nat /\ Len(value) \in Nat /\ L \in Nat
  BY <1>1, LenProperties, CommandRunnerAssumption
<1> HIDE DEF L
<1>5. PICK p \in Seq(S) : text = p \o old
  <2>1. IsSuffix_(old, text)
    BY <1>2
  <2> QED BY <1>1, <2>1, BeforeEnd
<1>6. all \in Seq(S) /\ Len(all) = Len(old) + Len(value)
  BY <1>1, ConcatProperties DEF all
<1>7. whole = p \o all
  <2>1. (p \o old) \o value = p \o (old \o value)
    BY SMTT(60), <1>1, ConcatAssociative
  <2> QED BY <1>5, <2>1, Zenon DEF all, whole
<1>8. Len(p) \in Nat /\ Len(text) = Len(p) + Len(old)
  BY <1>1, <1>5, ConcatProperties, LenProperties
<1>9. whole \in Seq(S) /\ Len(whole) = Len(text) + Len(value)
  BY ConcatProperties DEF whole
<1>10. ~mark => all = whole
  BY <1>2 DEF all, whole
<1>11. Len(all) \in Nat /\ Len(whole) = Len(p) + Len(all)
  BY <1>4, <1>6, <1>8, <1>9
<1>12. /\ new \in Seq(S) /\ IsSuffix_(new, whole)
       /\ Len(new) = IF Len(whole) < L THEN Len(whole) ELSE L
  <2>1. CASE Len(all) > L
    <3>1. end \in Seq(S) /\ Len(end) = L /\ \E front \in Seq(S) : all = front \o end
      <4>1. all \in Seq(S) /\ L \in Nat
        BY <1>4, <1>6
      <4>2. EndOf(S, all, end, L)
        BY <2>1, <4>1, LastPart DEF end
      <4> QED BY <4>2 DEF EndOf
    <3>2. PICK front \in Seq(S) : all = front \o end
      BY <3>1
    <3>5. IsSuffix_(end, whole)
      <4>1. end \in Seq(S) /\ IsSuffix_(end, all)
        BY <3>1, <3>2, EndOfConcat
      <4> QED BY <1>6, <1>7, <4>1, EndOfEnd, Zenon
    <3>6. ~(Len(whole) < L)
      BY <1>4, <1>8, <1>11, <2>1
    <3>7. new = end
      BY <2>1 DEF new
    <3> QED BY <3>1, <3>5, <3>6, <3>7
  <2>2. CASE ~(Len(all) > L)
    <3>1. IsSuffix_(all, whole)
      BY <1>6, <1>7, EndOfConcat
    <3>2. Len(all) = IF Len(whole) < L THEN Len(whole) ELSE L
      <4> DEFINE o == Len(old)
                 v == Len(value)
                 c == Len(p)
                 t == Len(text)
                 a == Len(all)
                 w == Len(whole)
      <4>1. /\ o \in Nat /\ v \in Nat /\ c \in Nat /\ L \in Nat
            /\ t = c + o /\ a = o + v /\ w = c + a /\ ~(a > L)
            /\ o = IF t < L THEN t ELSE L
        BY <1>2, <1>4, <1>6, <1>8, <1>11, <2>2
      <4> HIDE DEF o, v, c, t, a, w
      <4>2. a = IF w < L THEN w ELSE L
        BY <4>1
      <4> QED BY <4>2 DEF a, w
    <3>3. new = all
      BY <2>2 DEF new
    <3> QED BY <1>6, <3>1, <3>2, <3>3, Zenon
  <2> QED BY <2>1, <2>2
<1>13. ~mark => new = whole
  BY <1>3, <1>10, Zenon DEF new
<1>14. Keep(buffer, value).text = new /\ Keep(buffer, value).truncated = mark
  BY <1>0
<1>15. Bounded(Keep(buffer, value), whole)
  BY <1>12, <1>13, <1>14 DEF Bounded, L
<1> QED BY <1>0, <1>1, <1>12, <1>15 DEF whole

\* An empty buffer has all of an empty text.
LEMMA NothingKept == Bounded(EmptyBuffer, <<>>)
<1>1. EmptyBuffer.text = <<>>
  BY DEF EmptyBuffer
<1>2. IsSuffix_(<<>>, <<>>)
  BY EmptySeq, SubSeqEmpty DEF IsSuffix_
<1> QED BY <1>1, <1>2, CommandRunnerAssumption DEF Bounded

(***************************************************************************)
(* What a read adds.                                                       *)
(***************************************************************************)

\* No \r\n lies across what has become records and what has not.
Clean(gone, rest) == gone # <<>> /\ gone[Len(gone)] = "r" => rest # <<>> /\ rest[1] # "n"

\* What is read later does not make a cut unclean that was clean before it.
LEMMA CleanLonger ==
  ASSUME NEW gone, NEW rest \in Seq(Char), NEW more \in Seq(Char), Clean(gone, rest)
  PROVE  Clean(gone, rest \o more)
<1>1. rest # <<>> => rest \o more # <<>> /\ (rest \o more)[1] = rest[1]
  <2> SUFFICES ASSUME rest # <<>> PROVE rest \o more # <<>> /\ (rest \o more)[1] = rest[1]
    OBVIOUS
  <2>1. /\ Len(rest \o more) = Len(rest) + Len(more)
        /\ \A i \in 1..(Len(rest) + Len(more)) :
             (rest \o more)[i] = IF i <= Len(rest) THEN rest[i] ELSE more[i - Len(rest)]
    BY ConcatProperties
  <2>2. Len(rest) \in Nat \ {0} /\ Len(more) \in Nat
    BY EmptySeq, LenProperties
  <2>3. 1 \in 1..(Len(rest) + Len(more)) /\ 1 <= Len(rest) /\ Len(rest) + Len(more) # 0
    BY <2>2
  <2>4. (rest \o more)[1] = rest[1]
    BY <2>1, <2>3
  <2>5. rest \o more # <<>>
    BY <2>1, <2>3, EmptySeq
  <2> QED BY <2>4, <2>5
<1> QED BY <1>1 DEF Clean

\* Nothing is logged of nothing.
LEMMA LogNothing == LogText(<<>>) = <<>>
<1>1. Pieces(<<>>) = <<>>
  BY DEF Pieces
<1> QED BY <1>1, FlattenNone, LogTextPieces

\* Concatenation of texts is associative.
LEMMA TextRegrouped ==
  ASSUME NEW a \in Seq(Char), NEW b \in Seq(Char), NEW c \in Seq(Char)
  PROVE  (a \o b) \o c = a \o (b \o c)
BY ConcatAssociative

\* The last of two texts ends both of them.
LEMMA LastOfConcat ==
  ASSUME NEW a \in Seq(Char), NEW b \in Seq(Char), Len(b) # 0
  PROVE  (a \o b)[Len(a \o b)] = b[Len(b)]
<1>1. Len(a) \in Nat /\ Len(b) \in Nat
  BY LenProperties
<1>2. /\ Len(a \o b) = Len(a) + Len(b)
      /\ \A i \in 1..(Len(a) + Len(b)) : (a \o b)[i] = IF i <= Len(a) THEN a[i] ELSE b[i - Len(a)]
  BY ConcatProperties
<1>3. /\ Len(a) + Len(b) \in 1..(Len(a) + Len(b)) /\ ~(Len(a) + Len(b) <= Len(a))
      /\ (Len(a) + Len(b)) - Len(a) = Len(b)
  BY <1>1
<1>4. (a \o b)[Len(a) + Len(b)] = b[Len(b)]
  BY <1>2, <1>3
<1> QED BY <1>2, <1>4, Zenon

\* After records were made of gone, and of some of value, cut has the new ones
\* and what is left.
ReadAs(gone, value, final, cut) ==
  /\ cut.records \in Seq(Seq(Char)) /\ cut.pending \in Seq(Char)
  /\ \A k \in 1..Len(cut.records) : OneLine(cut.records[k])
  /\ final => cut.pending = <<>>
  /\ \E all \in Seq(Char) :
       /\ all \o cut.pending = gone \o value
       /\ LogText(all) = LogText(gone) \o FlattenSeq(ShownAll(cut.records))
       /\ ~final => Clean(all, cut.pending)

\* A reader that has made records of gone and now holds value makes records of
\* some more of it.
LEMMA ReadShows ==
  ASSUME NEW gone \in Seq(Char), NEW value \in Seq(Char), NEW final \in BOOLEAN,
         Clean(gone, value)
  PROVE  ReadAs(gone, value, final, CompleteRecords(value, final))
<1> DEFINE cut == CompleteRecords(value, final)
<1>1. PICK q : Completed(value, final, cut, q)
  BY CompleteRecordsShow
<1> HIDE DEF cut
<1> DEFINE more == SubSeq(value, 1, q)
           rest == SubSeq(value, q + 1, Len(value))
<1>2. /\ q \in 0..Len(value)
      /\ cut.records \in Seq(Seq(Char))
      /\ \A k \in 1..Len(cut.records) : OneLine(cut.records[k])
      /\ cut.pending = rest
      /\ FlattenSeq(ShownAll(cut.records)) = LogText(more)
      /\ final => q = Len(value)
      /\ ~final /\ q > 0 /\ value[q] = "r" => q < Len(value) /\ value[q + 1] # "n"
  BY <1>1 DEF Completed
<1>3. /\ more \in Seq(Char) /\ Len(more) = q /\ \A i \in 1..q : more[i] = value[i]
      /\ rest \in Seq(Char) /\ Len(rest) = Len(value) - q
      /\ \A i \in 1..(Len(value) - q) : rest[i] = value[q + i]
      /\ more \o rest = value
  BY <1>2, CutSeq
<1>4. Len(value) \in Nat /\ Len(gone) \in Nat
  BY LenProperties
<1> HIDE DEF more, rest
<1>5. final => rest = <<>>
  <2> SUFFICES ASSUME final PROVE rest = <<>>
    OBVIOUS
  <2>1. Len(rest) = 0
    BY <1>2, <1>3, <1>4
  <2> QED BY <1>3, <2>1, EmptySeq
<1>6. ~Split(gone, more)
  <2> SUFFICES ASSUME Split(gone, more) PROVE FALSE
    OBVIOUS
  <2>1. gone # <<>> /\ gone[Len(gone)] = "r" /\ more # <<>> /\ more[1] = "n"
    BY DEF Split
  <2>2. q # 0
    BY <1>3, <2>1, EmptySeq
  <2>3. more[1] = value[1]
    BY <1>2, <1>3, <1>4, <2>2
  <2> QED BY <2>1, <2>3 DEF Clean
<1>7. LogText(gone \o more) = LogText(gone) \o LogText(more)
  BY <1>3, <1>6, LogConcat
<1>8. ~final => Clean(gone \o more, rest)
  <2> SUFFICES ASSUME ~final, gone \o more # <<>>, (gone \o more)[Len(gone \o more)] = "r"
               PROVE  rest # <<>> /\ rest[1] # "n"
    BY DEF Clean
  <2>1. CASE q = 0
    <3>1. more = <<>>
      BY <1>3, <2>1, EmptySeq
    <3>2. gone \o more = gone /\ rest = value
      BY <1>3, <3>1, ConcatEmptySeq
    <3> QED BY <3>2 DEF Clean
  <2>2. CASE q # 0
    <3>1. more \in Seq(Char) /\ Len(more) # 0 /\ Len(more) = q
      BY <1>3, <2>2
    <3>2. (gone \o more)[Len(gone \o more)] = more[q]
      BY <3>1, LastOfConcat, Zenon
    <3>3. q \in 1..q /\ q > 0
      BY <1>2, <2>2
    <3>4. value[q] = "r"
      BY <1>3, <3>2, <3>3, Zenon
    <3>5. q < Len(value) /\ value[q + 1] # "n"
      BY <1>2, <3>3, <3>4
    <3>6. 1 \in 1..(Len(value) - q) /\ Len(value) - q # 0
      BY <1>2, <1>4, <3>5
    <3>7. rest[1] = value[q + 1]
      BY <1>3, <3>6
    <3>8. rest # <<>>
      BY <1>3, <3>6, EmptySeq
    <3> QED BY <3>5, <3>7, <3>8
  <2> QED BY <2>1, <2>2
<1>9. \E all \in Seq(Char) :
        /\ all \o cut.pending = gone \o value
        /\ LogText(all) = LogText(gone) \o FlattenSeq(ShownAll(cut.records))
        /\ ~final => Clean(all, cut.pending)
  <2>1. gone \o more \in Seq(Char)
    BY <1>3, ConcatProperties
  <2>2. (gone \o more) \o rest = gone \o (more \o rest)
    <3>1. more \in Seq(Char) /\ rest \in Seq(Char)
      BY <1>3
    <3> QED BY ZenonT(60), <3>1, TextRegrouped
  <2>3. (gone \o more) \o cut.pending = gone \o value
    BY <1>2, <1>3, <2>2, Zenon
  <2>4. LogText(gone \o more) = LogText(gone) \o FlattenSeq(ShownAll(cut.records))
    BY <1>2, <1>7, Zenon
  <2>5. ~final => Clean(gone \o more, cut.pending)
    BY <1>2, <1>8, Zenon
  <2> QED BY <2>1, <2>3, <2>4, <2>5
<1>10. /\ cut.records \in Seq(Seq(Char)) /\ cut.pending \in Seq(Char)
       /\ \A k \in 1..Len(cut.records) : OneLine(cut.records[k])
       /\ final => cut.pending = <<>>
  BY <1>2, <1>3, <1>5
<1> QED BY <1>9, <1>10 DEF ReadAs, cut

(***************************************************************************)
(* Rendered text, with what may be left of the secret veiled.              *)
(***************************************************************************)

\* A veiled text is a text of the log, character by character.
LEMMA VeilType ==
  ASSUME NEW text \in Seq(Rendered)
  PROVE  /\ Veil(text) \in Seq(LogChar)
         /\ Len(Veil(text)) = Len(text)
         /\ \A i \in 1..Len(text) :
              Veil(text)[i] = IF text[i] \in {"s", "t"} THEN "*" ELSE text[i]
<1>1. Len(text) \in Nat /\ DOMAIN text = 1..Len(text)
  BY LenProperties
<1>2. \A i \in 1..Len(text) : text[i] \in {"x", "s", "t", "*", "n"}
  BY ElementOfSeq DEF Rendered
<1>3. Veil(text) \in [1..Len(text) -> LogChar]
  BY <1>1, <1>2 DEF Veil, LogChar
<1>4. Veil(text) \in Seq(LogChar)
  BY <1>1, <1>3, SeqDef
<1>5. DOMAIN Veil(text) = 1..Len(Veil(text)) /\ Len(Veil(text)) \in Nat
  BY <1>4, LenProperties
<1>6. Len(Veil(text)) = Len(text)
  BY <1>1, <1>3, <1>5, SameEnd
<1> QED BY <1>1, <1>4, <1>6 DEF Veil

\* Two texts are veiled one after the other.
LEMMA VeilConcat ==
  ASSUME NEW a \in Seq(Rendered), NEW b \in Seq(Rendered)
  PROVE  Veil(a \o b) = Veil(a) \o Veil(b)
<1> DEFINE u == Veil(a)
           v == Veil(b)
           w == Veil(a \o b)
<1>1. Len(a) \in Nat /\ Len(b) \in Nat
  BY LenProperties
<1>2. /\ a \o b \in Seq(Rendered) /\ Len(a \o b) = Len(a) + Len(b)
      /\ \A i \in 1..(Len(a) + Len(b)) :
           (a \o b)[i] = IF i <= Len(a) THEN a[i] ELSE b[i - Len(a)]
  BY ConcatProperties
<1>3. /\ u \in Seq(LogChar) /\ Len(u) = Len(a)
      /\ \A i \in 1..Len(a) : u[i] = IF a[i] \in {"s", "t"} THEN "*" ELSE a[i]
  BY VeilType
<1>4. /\ v \in Seq(LogChar) /\ Len(v) = Len(b)
      /\ \A i \in 1..Len(b) : v[i] = IF b[i] \in {"s", "t"} THEN "*" ELSE b[i]
  BY VeilType
<1>5. /\ w \in Seq(LogChar) /\ Len(w) = Len(a \o b)
      /\ \A i \in 1..Len(a \o b) :
           w[i] = IF (a \o b)[i] \in {"s", "t"} THEN "*" ELSE (a \o b)[i]
  BY <1>2, VeilType
<1> HIDE DEF u, v, w
<1>6. /\ u \o v \in Seq(LogChar) /\ Len(u \o v) = Len(u) + Len(v)
      /\ \A i \in 1..(Len(u) + Len(v)) :
           (u \o v)[i] = IF i <= Len(u) THEN u[i] ELSE v[i - Len(u)]
  <2>1. u \in Seq(LogChar) /\ v \in Seq(LogChar)
    BY <1>3, <1>4
  <2> QED BY ONLY <2>1, ConcatProperties
<1>7. ASSUME NEW i \in 1..(Len(a) + Len(b)) PROVE w[i] = (u \o v)[i]
  <2>1. CASE i <= Len(a)
    <3>1. i \in 1..Len(a)
      BY <1>1, <2>1
    <3>2. w[i] = (IF a[i] \in {"s", "t"} THEN "*" ELSE a[i]) /\ (u \o v)[i] = u[i]
      BY <1>2, <1>3, <1>4, <1>5, <1>6, <2>1
    <3> QED BY <1>3, <3>1, <3>2
  <2>2. CASE ~(i <= Len(a))
    <3>1. i - Len(a) \in 1..Len(b)
      BY <1>1, <2>2
    <3>2. /\ w[i] = IF b[i - Len(a)] \in {"s", "t"} THEN "*" ELSE b[i - Len(a)]
          /\ (u \o v)[i] = v[i - Len(a)]
      BY <1>2, <1>3, <1>4, <1>5, <1>6, <2>2
    <3> QED BY <1>4, <3>1, <3>2
  <2> QED BY <2>1, <2>2
<1>8. Len(w) = Len(u \o v) /\ \A i \in 1..Len(w) : w[i] = (u \o v)[i]
  BY <1>2, <1>3, <1>4, <1>5, <1>6, <1>7, Zenon
<1>9. w = u \o v
  BY <1>5, <1>6, <1>8, SeqEqual
<1> QED BY <1>9 DEF u, v, w

\* The end of a text is the end of it veiled.
LEMMA VeilEnd ==
  ASSUME NEW s \in Seq(Rendered), NEW t \in Seq(Rendered), IsSuffix_(s, t)
  PROVE  IsSuffix_(Veil(s), Veil(t))
<1>1. PICK front \in Seq(Rendered) : t = front \o s
  BY BeforeEnd
<1>2. Veil(t) = Veil(front) \o Veil(s)
  BY <1>1, VeilConcat
<1> DEFINE u == Veil(s)
           f == Veil(front)
<1>3. u \in Seq(LogChar) /\ f \in Seq(LogChar)
  BY VeilType
<1> HIDE DEF u, f
<1>4. IsSuffix_(u, f \o u)
  BY <1>3, EndOfConcat
<1> QED BY <1>2, <1>4, Zenon DEF u, f

\* A text of the log has nothing to veil.
LEMMA VeilNothing == Veil(<<>>) = <<>>
BY DEF Veil

(***************************************************************************)
(* What the observer takes.                                                *)
(***************************************************************************)

\* A line feed ends a shown record.
OneLineShown(record) == \A i \in 1..Len(record) : record[i] = "n" => i = Len(record)

\* The record as it is shown: veiled it is what the log is to show of it.
RenderingOf(new, record) ==
  /\ Veil(new) = Shown(record)
  /\ Len(new) = Len(record)
  /\ \A i \in 1..Len(record) : new[i] = "n" => record[i] \in {"n", "r"}

\* A record goes from the list of the reader to the log: the two show the same
\* together as before, one line a record.
LEMMA RecordTaken ==
  ASSUME NEW list \in Seq(Seq(Char)), list # <<>>,
         NEW log \in Seq(Seq(Rendered)),
         NEW new \in Seq(Rendered), RenderingOf(new, Head(list)),
         \A k \in 1..Len(list) : OneLine(list[k]),
         \A k \in 1..Len(log) : OneLineShown(log[k])
  PROVE  /\ \A k \in 1..Len(Tail(list)) : OneLine(Tail(list)[k])
         /\ \A k \in 1..Len(Append(log, new)) : OneLineShown(Append(log, new)[k])
         /\ FlattenSeq(log) \in Seq(Rendered)
         /\ FlattenSeq(Append(log, new)) = FlattenSeq(log) \o new
         /\ Veil(FlattenSeq(Append(log, new))) \o FlattenSeq(ShownAll(Tail(list))) =
              Veil(FlattenSeq(log)) \o FlattenSeq(ShownAll(list))
<1> DEFINE head == Head(list)
           tail == Tail(list)
<1>1. /\ head \in Seq(Char) /\ tail \in Seq(Seq(Char)) /\ Len(tail) = Len(list) - 1
      /\ \A i \in 1..Len(tail) : tail[i] = list[i + 1]
  BY HeadTailProperties
<1>2. Len(list) \in Nat \ {0} /\ Len(tail) \in Nat /\ head = list[1]
  BY <1>1, EmptySeq, LenProperties
<1> HIDE DEF head, tail
<1>3. OneLine(head)
  BY <1>2
<1>4. \A k \in 1..Len(tail) : OneLine(tail[k])
  <2> SUFFICES ASSUME NEW k \in 1..Len(tail) PROVE OneLine(tail[k])
    OBVIOUS
  <2>1. k + 1 \in 1..Len(list)
    BY <1>1, <1>2
  <2> QED BY <1>1, <2>1
<1>5. RenderingOf(new, head)
  BY DEF head
<1>6. OneLineShown(new)
  BY <1>3, <1>5 DEF OneLineShown, OneLine, RenderingOf
<1>7. FlattenSeq(ShownAll(list)) = Shown(head) \o FlattenSeq(ShownAll(tail))
  <2> DEFINE l == ShownAll(list)
             t == ShownAll(tail)
  <2>1. /\ l \in Seq(Seq(LogChar)) /\ Len(l) = Len(list)
        /\ \A k \in 1..Len(list) : l[k] = Shown(list[k])
    BY ShownAllType
  <2>2. /\ t \in Seq(Seq(LogChar)) /\ Len(t) = Len(tail)
        /\ \A k \in 1..Len(tail) : t[k] = Shown(tail[k])
    BY <1>1, ShownAllType
  <2> HIDE DEF l, t
  <2>3. l # <<>> /\ 1 \in 1..Len(list)
    BY <1>2, <2>1, EmptySeq
  <2>4. /\ Tail(l) \in Seq(Seq(LogChar)) /\ Len(Tail(l)) = Len(l) - 1
        /\ \A i \in 1..Len(Tail(l)) : Tail(l)[i] = l[i + 1]
        /\ Head(l) = l[1]
    BY <2>1, <2>3, HeadTailProperties
  <2>5. Head(l) = Shown(head)
    BY <1>2, <2>1, <2>3, <2>4, Zenon
  <2>6. Len(Tail(l)) = Len(t)
    BY <1>1, <2>1, <2>2, <2>4, Zenon
  <2>7. \A i \in 1..Len(Tail(l)) : Tail(l)[i] = t[i]
    <3> SUFFICES ASSUME NEW i \in 1..Len(tail) PROVE l[i + 1] = t[i]
      BY <2>2, <2>4, <2>6, Zenon
    <3>1. i + 1 \in 1..Len(list)
      BY <1>1, <1>2
    <3>2. list[i + 1] = tail[i]
      BY <1>1
    <3> QED BY <2>1, <2>2, <3>1, <3>2, Zenon
  <2>8. Tail(l) = t
    <3> DEFINE u == Tail(l)
    <3>1. u \in Seq(Seq(LogChar)) /\ Len(u) = Len(t) /\ \A i \in 1..Len(u) : u[i] = t[i]
      BY <2>4, <2>6, <2>7
    <3> HIDE DEF u
    <3>2. u = t
      BY <2>2, <3>1, SeqEqual
    <3> QED BY <3>2 DEF u
  <2>9. FlattenSeq(l) = Head(l) \o FlattenSeq(Tail(l))
    BY <2>1, <2>3, FlattenTail
  <2> QED BY <2>5, <2>8, <2>9, Zenon DEF l, t
<1>8. /\ FlattenSeq(log) \in Seq(Rendered) /\ FlattenSeq(ShownAll(tail)) \in Seq(LogChar)
  <2>1. ShownAll(tail) \in Seq(Seq(LogChar))
    BY <1>1, ShownAllType
  <2> QED BY <2>1, FlattenConcat
<1>9. FlattenSeq(Append(log, new)) = FlattenSeq(log) \o new
  BY FlattenAppend
<1>10. Veil(FlattenSeq(log) \o new) = Veil(FlattenSeq(log)) \o Shown(head)
  <2>1. Veil(FlattenSeq(log) \o new) = Veil(FlattenSeq(log)) \o Veil(new)
    BY <1>8, VeilConcat
  <2> QED BY <1>5, <2>1, Zenon DEF RenderingOf
<1>11. Veil(FlattenSeq(Append(log, new))) \o FlattenSeq(ShownAll(tail)) =
         Veil(FlattenSeq(log)) \o FlattenSeq(ShownAll(list))
  <2> DEFINE x == Veil(FlattenSeq(log))
             y == FlattenSeq(ShownAll(tail))
             z == Shown(head)
  <2>1. x \in Seq(LogChar) /\ y \in Seq(LogChar) /\ z \in Seq(LogChar)
    BY <1>1, <1>8, ShownType, VeilType
  <2> HIDE DEF x, y, z
  <2>2. (x \o z) \o y = x \o (z \o y)
    BY SMTT(60), <2>1, ConcatAssociative
  <2> QED BY <1>7, <1>9, <1>10, <2>2, Zenon DEF x, y, z
<1>12. /\ Append(log, new) \in Seq(Seq(Rendered)) /\ Len(Append(log, new)) = Len(log) + 1
       /\ \A k \in 1..Len(log) : Append(log, new)[k] = log[k]
       /\ Append(log, new)[Len(log) + 1] = new
  BY AppendProperties
<1>13. \A k \in 1..Len(Append(log, new)) : OneLineShown(Append(log, new)[k])
  <2> SUFFICES ASSUME NEW k \in 1..(Len(log) + 1) PROVE OneLineShown(Append(log, new)[k])
    BY <1>12, Zenon
  <2>1. k \in 1..Len(log) \/ k = Len(log) + 1
    BY LenProperties
  <2> QED BY <1>6, <1>12, <2>1, Zenon
<1> QED BY <1>4, <1>8, <1>9, <1>11, <1>13, Zenon DEF tail
================================================================================
