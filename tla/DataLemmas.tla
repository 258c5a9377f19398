----------------------------- MODULE DataLemmas -----------------------------
(***************************************************************************)
(* Facts about numbers, sequences and the operators of the community       *)
(* modules that the proofs of several components use.  Induction is over a *)
(* set of numbers: the theorems of NaturalsInduction take an operator, for *)
(* which the provers cannot be given an instance; that the natural numbers *)
(* are well founded does not.                                              *)
(***************************************************************************)
EXTENDS SequencesExt, Integers, SequenceTheorems, FiniteSetTheorems,
        WellFoundedInduction, TLAPS

\* A set of natural numbers that is not empty has a least element.
LEMMA LeastNumber ==
  ASSUME NEW T, T \subseteq Nat, T # {}
  PROVE  \E x \in T : \A y \in T : x <= y
  <1> DEFINE Less == {pair \in Nat \X Nat : pair[1] < pair[2]}
  <1>1. IsWellFoundedOn(Less, Nat)
    BY NatLessThanWellFounded DEF OpToRel
  <1>2. PICK x \in T : \A y \in T : ~(<<y, x>> \in Less)
    <2> HIDE DEF Less
    <2> QED BY <1>1, WFMin
  <1>3. \A y \in T : ~(y < x)
    BY <1>2
  <1> QED BY <1>3

\* Induction: a set with 0 and with the successor of each of its numbers has them all.
LEMMA SetInduction ==
  ASSUME NEW S, 0 \in S, \A n \in Nat : n \in S => n + 1 \in S
  PROVE  \A n \in Nat : n \in S
  <1> SUFFICES ASSUME Nat \ S # {} PROVE FALSE
    OBVIOUS
  <1>1. PICK x \in Nat \ S : \A y \in Nat \ S : x <= y
    BY LeastNumber
  <1>2. x - 1 \in Nat /\ x - 1 \in S
    BY <1>1
  <1> QED BY <1>1, <1>2

\* Min and Max of FiniteSetsExt are what they are named for.
LEMMA MinIsLeast ==
  ASSUME NEW S, S \subseteq Int, S # {}, NEW low \in Int, \A x \in S : low <= x
  PROVE  Min(S) \in S /\ \A y \in S : Min(S) <= y
  <1> DEFINE T == {x - low : x \in S}
  <1>0. \A x \in S : x \in Int /\ x - low \in Nat
    OBVIOUS
  <1>1. T \subseteq Nat /\ T # {}
    BY <1>0
  <1>2. PICK t \in T : \A u \in T : t <= u
    BY <1>1, LeastNumber
  <1>3. PICK x \in S : t = x - low
    BY <1>2
  <1>4. \A y \in S : y - low \in T
    OBVIOUS
  <1>5. ASSUME NEW y \in S PROVE x <= y
    <2>1. t <= y - low
      BY <1>2, <1>4
    <2> QED BY <1>0, <1>3, <2>1
  <1> QED BY <1>5 DEF Min

LEMMA MinIs ==
  ASSUME NEW S, S \subseteq Int, NEW x \in S, \A y \in S : x <= y
  PROVE  Min(S) = x
  <1>1. Min(S) \in S /\ \A y \in S : Min(S) <= y
    BY MinIsLeast
  <1>2. x \in Int /\ Min(S) \in Int /\ x <= Min(S) /\ Min(S) <= x
    BY <1>1
  <1> QED BY <1>2

\* ... of positions in a sequence.
LEMMA LeastPosition ==
  ASSUME NEW n \in Nat, NEW S, S \subseteq 1..n, S # {}
  PROVE  Min(S) \in S /\ \A i \in S : Min(S) <= i
  <1>1. S \subseteq Int /\ (\A i \in S : 1 <= i) /\ 1 \in Int
    OBVIOUS
  <1> QED BY <1>1, MinIsLeast, Zenon

LEMMA MaxIsGreatest ==
  ASSUME NEW S, S \subseteq Int, S # {}, NEW high \in Int, \A x \in S : x <= high
  PROVE  Max(S) \in S /\ \A y \in S : Max(S) >= y
  <1> DEFINE T == {high - x : x \in S}
  <1>0. \A x \in S : x \in Int /\ high - x \in Nat
    OBVIOUS
  <1>1. T \subseteq Nat /\ T # {}
    BY <1>0
  <1>2. PICK t \in T : \A u \in T : t <= u
    BY <1>1, LeastNumber
  <1>3. PICK x \in S : t = high - x
    BY <1>2
  <1>4. \A y \in S : high - y \in T
    OBVIOUS
  <1>5. ASSUME NEW y \in S PROVE x >= y
    <2>1. t <= high - y
      BY <1>2, <1>4
    <2> QED BY <1>0, <1>3, <2>1
  <1> QED BY <1>5 DEF Max

\* Numbers up to n, without and with the next one.
LEMMA Within ==
  ASSUME NEW n \in Nat
  PROVE  /\ (n + 1) - 1 = n
         /\ \A k \in 0..n :
              /\ k <= n /\ \A i \in 1..k : i \in 1..n
              /\ k < n => /\ k + 1 \in 0..n + 1 /\ k + 1 <= n + 1
                         /\ \A i \in 1..k + 1 : i \in 1..n
  OBVIOUS

\* The last number is n, the others are up to n - 1.
LEMMA Predecessor ==
  ASSUME NEW n \in Nat \ {0}
  PROVE  /\ n - 1 \in Nat /\ n - 1 \in 0..n /\ (n - 1) + 1 = n /\ n - 1 < n
         /\ n - 1 \in 0..n - 1
         /\ \A i \in 1..n : i \in 1..n - 1 \/ i = n
  OBVIOUS

\* Append to the second of two sequences.
LEMMA ConcatAppend ==
  ASSUME NEW S, NEW s \in Seq(S), NEW t \in Seq(S), NEW e \in S
  PROVE  s \o Append(t, e) = Append(s \o t, e)
  <1>1. <<e>> \in Seq(S)
    OBVIOUS
  <1>2. Append(t, e) = t \o <<e>>
    BY AppendIsConcat
  <1>3. s \o t \in Seq(S)
    BY ConcatProperties
  <1>4. Append(s \o t, e) = (s \o t) \o <<e>>
    BY <1>3, AppendIsConcat
  <1>5. (s \o t) \o <<e>> = s \o (t \o <<e>>)
    BY <1>1, ConcatAssociative
  <1> QED BY <1>2, <1>4, <1>5
-----------------------------------------------------------------------------
(* FlattenSeq. *)

\* `flat` is what the recursive function of FlattenSeq says, up to the nth sequence.
Flattens(flat, seqs, n) ==
  \A i \in 1..n : flat[i] = IF i = 1 THEN seqs[i] ELSE flat[i - 1] \o seqs[i]

LEMMA FlattensExists ==
  ASSUME NEW S, NEW seqs \in Seq(Seq(S))
  PROVE  \E flat \in [1..Len(seqs) -> Seq(S)] : Flattens(flat, seqs, Len(seqs))
  <1> DEFINE Done == {n \in Nat : n <= Len(seqs) =>
                        \E flat \in [1..n -> Seq(S)] : Flattens(flat, seqs, n)}
  <1>1. 0 \in Done
    <2> DEFINE none == [i \in 1..0 |-> <<>>]
    <2>1. none \in [1..0 -> Seq(S)]
      OBVIOUS
    <2>2. Flattens(none, seqs, 0)
      <3>1. \A i \in 1..0 : FALSE
        OBVIOUS
      <3> QED BY <3>1 DEF Flattens
    <2> HIDE DEF none
    <2> QED BY <2>1, <2>2
  <1>2. ASSUME NEW n \in Nat, n \in Done PROVE n + 1 \in Done
    <2> SUFFICES ASSUME n + 1 <= Len(seqs)
                 PROVE  \E flat \in [1..n + 1 -> Seq(S)] : Flattens(flat, seqs, n + 1)
      OBVIOUS
    <2>1. PICK flat \in [1..n -> Seq(S)] : Flattens(flat, seqs, n)
      BY <1>2
    <2> DEFINE last == IF n = 0 THEN seqs[1] ELSE flat[n] \o seqs[n + 1]
               next == [i \in 1..n + 1 |-> IF i = n + 1 THEN last ELSE flat[i]]
    <2>2. seqs[1] \in Seq(S) /\ seqs[n + 1] \in Seq(S)
      BY ElementOfSeq
    <2>3. last \in Seq(S)
      BY <2>1, <2>2, ConcatProperties
    <2>4. next \in [1..n + 1 -> Seq(S)]
      BY <2>1, <2>3
    <2>5. ASSUME NEW i \in 1..n + 1
          PROVE  next[i] = IF i = 1 THEN seqs[i] ELSE next[i - 1] \o seqs[i]
      <3>1. CASE i = n + 1
        BY <3>1
      <3>2. CASE i # n + 1
        <4>1. i \in 1..n /\ (i # 1 => i - 1 \in 1..n)
          BY <3>2
        <4>2. flat[i] = IF i = 1 THEN seqs[i] ELSE flat[i - 1] \o seqs[i]
          BY <4>1, <2>1 DEF Flattens
        <4>3. /\ i # n + 1 /\ next[i] = flat[i]
              /\ i # 1 => i - 1 \in 1..n + 1 /\ i - 1 # n + 1 /\ next[i - 1] = flat[i - 1]
          <5>1. \A j \in 1..n + 1 : j # n + 1 => next[j] = flat[j]
            OBVIOUS
          <5>2. i # n + 1 /\ (i # 1 => i - 1 \in 1..n + 1 /\ i - 1 # n + 1)
            BY <4>1
          <5> QED BY <5>1, <5>2
        <4> HIDE DEF next
        <4> QED BY <4>2, <4>3
      <3> QED BY <3>1, <3>2
    <2>6. Flattens(next, seqs, n + 1)
      <3> HIDE DEF next
      <3> QED BY <2>5 DEF Flattens
    <2> QED BY <2>4, <2>6
  <1>3. Len(seqs) \in Nat
    BY LenProperties
  <1> HIDE DEF Done
  <1>4. Len(seqs) \in Done
    BY <1>1, <1>2, <1>3, SetInduction
  <1> QED BY <1>3, <1>4 DEF Done

\* Two such functions agree as far as both go.
LEMMA FlattensUnique ==
  ASSUME NEW seqs, NEW n \in Nat, NEW f, NEW g,
         Flattens(f, seqs, n), Flattens(g, seqs, n)
  PROVE  \A i \in 1..n : f[i] = g[i]
  <1> DEFINE Same == {i \in Nat : i \in 1..n => f[i] = g[i]}
  <1>1. 0 \in Same
    OBVIOUS
  <1>2. ASSUME NEW i \in Nat, i \in Same PROVE i + 1 \in Same
    <2> SUFFICES ASSUME i + 1 \in 1..n PROVE f[i + 1] = g[i + 1]
      OBVIOUS
    <2>1. CASE i = 0
      BY <2>1 DEF Flattens
    <2>2. CASE i # 0
      <3>1. i \in 1..n /\ f[i] = g[i] /\ (i + 1) - 1 = i /\ i + 1 # 1
        BY <2>2, <1>2
      <3> QED BY <3>1 DEF Flattens
    <2> QED BY <2>1, <2>2
  <1> HIDE DEF Same
  <1>3. \A i \in Nat : i \in Same
    BY <1>1, <1>2, SetInduction
  <1> QED BY <1>3 DEF Same

LEMMA FlattenIs ==
  ASSUME NEW S, NEW seqs \in Seq(Seq(S)), Len(seqs) > 0,
         NEW flat \in [1..Len(seqs) -> Seq(S)], Flattens(flat, seqs, Len(seqs))
  PROVE  FlattenSeq(seqs) = flat[Len(seqs)]
  <1> DEFINE n == Len(seqs)
             Step(f) == [i \in 1..n |-> IF i = 1 THEN seqs[i] ELSE f[i - 1] \o seqs[i]]
             chosen == CHOOSE f : f = Step(f)
  <1>1. n \in Nat
    BY LenProperties
  <1>2. flat = Step(flat)
    BY DEF Flattens
  <1>3. chosen = Step(chosen)
    <2> HIDE DEF Step
    <2> QED BY <1>2
  <1>4. Flattens(chosen, seqs, n)
    <2> HIDE DEF chosen
    <2>1. \A i \in 1..n : chosen[i] = Step(chosen)[i]
      BY <1>3
    <2> QED BY <2>1 DEF Flattens
  <1>5. chosen[n] = flat[n]
    <2> HIDE DEF chosen
    <2> QED BY <1>1, <1>4, FlattensUnique
  <1>6. FlattenSeq(seqs) = chosen[n]
    BY <1>1 DEF FlattenSeq
  <1> QED BY <1>5, <1>6

LEMMA FlattenEmpty == FlattenSeq(<<>>) = <<>>
  BY DEF FlattenSeq

\* FlattenSeq appends the last sequence to what it makes of the others.
LEMMA FlattenAppend ==
  ASSUME NEW S, NEW seqs \in Seq(Seq(S)), NEW s \in Seq(S)
  PROVE  /\ FlattenSeq(seqs) \in Seq(S)
         /\ FlattenSeq(Append(seqs, s)) = FlattenSeq(seqs) \o s
  <1> DEFINE n == Len(seqs)
             more == Append(seqs, s)
  <1>1. n \in Nat /\ more \in Seq(Seq(S)) /\ Len(more) = n + 1 /\ more[n + 1] = s
        /\ \A i \in 1..n : more[i] = seqs[i]
    <2>1. /\ more \in Seq(Seq(S)) /\ Len(more) = Len(seqs) + 1
          /\ \A i \in 1..Len(seqs) : more[i] = seqs[i]
          /\ more[Len(seqs) + 1] = s
      BY AppendProperties
    <2>2. Len(seqs) \in Nat
      BY LenProperties
    <2> HIDE DEF more
    <2> QED BY <2>1, <2>2
  <1>2. PICK flat \in [1..n + 1 -> Seq(S)] : Flattens(flat, more, n + 1)
    <2> HIDE DEF n, more
    <2>1. \E flat \in [1..Len(more) -> Seq(S)] : Flattens(flat, more, Len(more))
      BY <1>1, FlattensExists
    <2> QED BY <1>1, <2>1
  <1>3. FlattenSeq(more) = flat[n + 1]
    <2>1. Len(more) > 0 /\ flat \in [1..Len(more) -> Seq(S)]
          /\ Flattens(flat, more, Len(more))
      BY <1>1, <1>2
    <2> HIDE DEF more
    <2> QED BY <1>1, <2>1, FlattenIs
  <1>4. CASE n = 0
    <2>1. seqs = <<>> /\ flat[1] = s
      BY <1>1, <1>2, <1>4, EmptySeq DEF Flattens
    <2>2. FlattenSeq(seqs) = <<>>
      BY <2>1, FlattenEmpty
    <2>3. <<>> \o s = s /\ <<>> \in Seq(S)
      BY ConcatEmptySeq, EmptySeq
    <2>4. FlattenSeq(Append(seqs, s)) = s
      <3>1. n + 1 = 1
        BY <1>4
      <3> HIDE DEF n
      <3> QED BY <1>3, <2>1, <3>1
    <2> QED BY <2>2, <2>3, <2>4
  <1>5. CASE n > 0
    <2> DEFINE front == [i \in 1..n |-> flat[i]]
    <2>1. front \in [1..n -> Seq(S)] /\ front[n] = flat[n] /\ flat[n] \in Seq(S)
      <3>1. n \in 1..n /\ (\A i \in 1..n : i \in 1..n + 1)
        BY <1>1, <1>5
      <3> HIDE DEF n, more
      <3> QED BY <1>2, <3>1
    <2>2. Flattens(front, seqs, n)
      <3> SUFFICES ASSUME NEW i \in 1..n
                   PROVE  front[i] = IF i = 1 THEN seqs[i] ELSE front[i - 1] \o seqs[i]
        BY DEF Flattens
      <3>1. i \in 1..n + 1 /\ (i # 1 => i - 1 \in 1..n) /\ more[i] = seqs[i]
        BY <1>1
      <3> QED BY <3>1, <1>2 DEF Flattens
    <2>3. FlattenSeq(seqs) = flat[n]
      <3> HIDE DEF front
      <3> QED BY <1>5, <2>1, <2>2, FlattenIs
    <2>4. flat[n + 1] = flat[n] \o s
      <3>1. n + 1 \in 1..n + 1 /\ n + 1 # 1 /\ (n + 1) - 1 = n
        BY <1>1, <1>5
      <3> HIDE DEF n, more
      <3>2. flat[n + 1] = flat[n] \o more[n + 1]
        BY <3>1, <1>2 DEF Flattens
      <3> QED BY <3>2, <1>1
    <2> QED BY <1>3, <2>1, <2>3, <2>4
  <1>6. n = 0 \/ n > 0
    BY <1>1
  <1> QED BY <1>4, <1>5, <1>6

\* An element appended to the last sequence is appended to the whole.
LEMMA FlattenAppendLast ==
  ASSUME NEW S, NEW seqs \in Seq(Seq(S)), NEW s \in Seq(S), NEW x \in S
  PROVE  FlattenSeq(Append(seqs, Append(s, x))) = Append(FlattenSeq(Append(seqs, s)), x)
  <1>1. Append(s, x) \in Seq(S) /\ Append(s, x) = s \o <<x>> /\ <<x>> \in Seq(S)
    BY AppendProperties, AppendIsConcat
  <1>2. FlattenSeq(seqs) \in Seq(S) /\ FlattenSeq(seqs) \o s \in Seq(S)
    BY FlattenAppend, ConcatProperties
  <1>3. Append(FlattenSeq(seqs) \o s, x) = (FlattenSeq(seqs) \o s) \o <<x>>
    BY <1>2, AppendIsConcat
  <1>4. (FlattenSeq(seqs) \o s) \o <<x>> = FlattenSeq(seqs) \o (s \o <<x>>)
    BY <1>1, <1>2, ConcatAssociative
  <1> QED BY <1>1, <1>3, <1>4, FlattenAppend

\* Induction over the sequences of a set.
LEMMA SequenceInduction ==
  ASSUME NEW S, NEW T, <<>> \in T, \A s \in Seq(S), e \in S : s \in T => Append(s, e) \in T
  PROVE  \A s \in Seq(S) : s \in T
  <1> DEFINE Done == {n \in Nat : \A s \in Seq(S) : Len(s) = n => s \in T}
  <1>1. 0 \in Done
    BY EmptySeq
  <1>2. ASSUME NEW n \in Nat, n \in Done PROVE n + 1 \in Done
    <2> SUFFICES ASSUME NEW s \in Seq(S), Len(s) = n + 1 PROVE s \in T
      OBVIOUS
    <2> DEFINE front == SubSeq(s, 1, n)
               last  == s[n + 1]
    <2>1. front \in Seq(S) /\ Len(front) = n /\ last \in S /\ Append(front, last) = s
      <3>1. \A i \in 1..n + 1 : s[i] \in S
        BY ElementOfSeq
      <3>2. front \in Seq(S) /\ Len(front) = n /\ \A i \in 1..n : front[i] = s[i]
        BY <3>1, SubSeqProperties
      <3>3. last \in S
        BY <3>1
      <3> HIDE DEF front, last
      <3> DEFINE more == Append(front, last)
      <3>4. /\ more \in Seq(S) /\ Len(more) = n + 1
            /\ more[n + 1] = last /\ \A i \in 1..n : more[i] = front[i]
        BY <3>2, <3>3, AppendProperties
      <3> HIDE DEF more
      <3>5. \A i \in 1..n + 1 : more[i] = s[i]
        BY <3>2, <3>4 DEF last
      <3>6. more = s
        BY <3>4, <3>5, SeqEqual
      <3> QED BY <3>2, <3>3, <3>6 DEF more
    <2> HIDE DEF front, last
    <2>2. front \in T
      BY <1>2, <2>1
    <2> QED BY <2>1, <2>2
  <1> HIDE DEF Done
  <1>3. \A n \in Nat : n \in Done
    BY <1>1, <1>2, SetInduction
  <1> QED BY <1>3, LenProperties DEF Done

LEMMA FunctionIsSeq ==
  ASSUME NEW T, NEW n \in Nat, NEW f \in [1..n -> T]
  PROVE  f \in Seq(T) /\ Len(f) = n
  OBVIOUS

LEMMA SubsetSeq ==
  ASSUME NEW S, NEW T, S \subseteq T, NEW s \in Seq(S)
  PROVE  s \in Seq(T)
  <1>1. s \in [1..Len(s) -> S] /\ Len(s) \in Nat
    BY LenProperties
  <1>2. s \in [1..Len(s) -> T]
    BY <1>1
  <1> QED BY <1>1, <1>2

LEMMA AppendIs ==
  ASSUME NEW T, NEW s \in Seq(T), NEW e \in T, NEW next \in Seq(T),
         Len(next) = Len(s) + 1, next[Len(s) + 1] = e,
         \A i \in 1..Len(s) : next[i] = s[i]
  PROVE  next = Append(s, e)
  <1> DEFINE n == Len(s)
             grown == Append(s, e)
  <1>1. n \in Nat
    BY LenProperties
  <1>2. /\ grown \in Seq(T) /\ Len(grown) = n + 1
        /\ grown[n + 1] = e /\ \A i \in 1..n : grown[i] = s[i]
    BY AppendProperties
  <1> HIDE DEF n, grown
  <1>3. \A i \in 1..n + 1 : i \in 1..n \/ i = n + 1
    BY <1>1
  <1>4. \A i \in 1..n + 1 : next[i] = grown[i]
    BY <1>2, <1>3 DEF n
  <1>5. Len(next) = n + 1
    BY DEF n
  <1>6. next = grown
    BY <1>2, <1>4, <1>5, SeqEqual
  <1> QED BY <1>6 DEF grown

LEMMA ConcatIs ==
  ASSUME NEW T, NEW p \in Seq(T), NEW q \in Seq(T), NEW all \in Seq(T),
         Len(all) = Len(p) + Len(q),
         \A i \in 1..Len(p) : all[i] = p[i],
         \A k \in 1..Len(q) : all[Len(p) + k] = q[k]
  PROVE  p \o q = all
  <1> DEFINE both == p \o q
             n == Len(p)
             m == Len(q)
  <1>0. n \in Nat /\ m \in Nat
    BY LenProperties
  <1>1. /\ both \in Seq(T) /\ Len(both) = Len(p) + Len(q)
        /\ \A i \in 1..Len(p) + Len(q) : both[i] = IF i <= Len(p) THEN p[i] ELSE q[i - Len(p)]
    BY ConcatProperties
  <1>f. /\ Len(all) = n + m
        /\ \A i \in 1..n : all[i] = p[i]
        /\ \A k \in 1..m : all[n + k] = q[k]
    OBVIOUS
  <1> HIDE DEF both
  <1>2. ASSUME NEW i \in 1..n + m PROVE both[i] = all[i]
    <2>1. CASE i <= n
      <3>1. i \in 1..n
        BY <1>0, <2>1
      <3> QED BY <1>1, <1>f, <2>1, <3>1
    <2>2. CASE ~(i <= n)
      <3>1. i - n \in 1..m /\ n + (i - n) = i
        BY <1>0, <2>2
      <3>2. both[i] = q[i - n]
        BY <1>1, <2>2
      <3> QED BY <1>f, <3>1, <3>2
    <2> QED BY <2>1, <2>2
  <1>3. both = all
    BY <1>1, <1>2, <1>f, SeqEqual
  <1> QED BY <1>3 DEF both

LEMMA LastOfConcat ==
  ASSUME NEW T, NEW p \in Seq(T), NEW q \in Seq(T), q # <<>>
  PROVE  /\ p \o q \in Seq(T) /\ p \o q # <<>>
         /\ (p \o q)[Len(p \o q)] = q[Len(q)]
  <1> DEFINE n == Len(p)
             m == Len(q)
             both == p \o q
  <1>1. n \in Nat /\ m \in Nat /\ m > 0
    <2>1. m # 0
      BY EmptySeq
    <2> QED BY <2>1, LenProperties
  <1>2. /\ both \in Seq(T) /\ Len(both) = n + m
        /\ \A i \in 1..n + m : both[i] = IF i <= n THEN p[i] ELSE q[i - n]
    BY ConcatProperties
  <1> HIDE DEF both, n, m
  <1>3. n + m \in 1..n + m /\ ~(n + m <= n) /\ (n + m) - n = m /\ n + m # 0
    BY <1>1
  <1>4. both[n + m] = q[m]
    BY <1>2, <1>3
  <1>5. both # <<>>
    BY <1>2, <1>3, EmptySeq
  <1> QED BY <1>2, <1>4, <1>5 DEF both, m

LEMMA SubSeqSame ==
  ASSUME NEW S, NEW s, NEW t, NEW i \in Int, NEW last \in Int,
         \A j \in i..last : s[j] \in S /\ t[j] = s[j]
  PROVE  SubSeq(t, i, last) = SubSeq(s, i, last)
  <1> DEFINE a == SubSeq(t, i, last)
             b == SubSeq(s, i, last)
             len == IF i <= last THEN last - i + 1 ELSE 0
  <1>1. /\ a \in Seq(S) /\ Len(a) = len /\ \A j \in 1..last - i + 1 : a[j] = t[i + j - 1]
    <2>1. \A j \in i..last : t[j] \in S
      OBVIOUS
    <2> QED BY <2>1, SubSeqProperties
  <1>2. /\ b \in Seq(S) /\ Len(b) = len /\ \A j \in 1..last - i + 1 : b[j] = s[i + j - 1]
    <2>1. \A j \in i..last : s[j] \in S
      OBVIOUS
    <2> QED BY <2>1, SubSeqProperties
  <1>3. \A j \in 1..len : j \in 1..last - i + 1 /\ i + j - 1 \in i..last
    OBVIOUS
  <1> HIDE DEF a, b, len
  <1>4. \A j \in 1..len : a[j] = b[j]
    BY <1>1, <1>2, <1>3
  <1>5. a = b
    BY <1>1, <1>2, <1>4, SeqEqual
  <1> QED BY <1>5 DEF a, b

LEMMA FlattenOne ==
  ASSUME NEW S, NEW s \in Seq(S)
  PROVE  FlattenSeq(<<s>>) = s
  <1>1. <<>> \in Seq(Seq(S)) /\ <<s>> = Append(<<>>, s) /\ <<>> \o s = s
    BY EmptySeq, ConcatEmptySeq
  <1> QED BY <1>1, FlattenAppend, FlattenEmpty

LEMMA FlattenConcat ==
  ASSUME NEW S, NEW p \in Seq(Seq(S)), NEW q \in Seq(Seq(S))
  PROVE  FlattenSeq(p \o q) = FlattenSeq(p) \o FlattenSeq(q)
  <1> DEFINE Done == {r \in Seq(Seq(S)) : FlattenSeq(p \o r) = FlattenSeq(p) \o FlattenSeq(r)}
  <1>0. FlattenSeq(p) \in Seq(S)
    BY FlattenAppend, EmptySeq
  <1>1. <<>> \in Done
    BY <1>0, FlattenEmpty, EmptySeq, ConcatEmptySeq
  <1>2. ASSUME NEW r \in Seq(Seq(S)), NEW s \in Seq(S), r \in Done
        PROVE  Append(r, s) \in Done
    <2>1. Append(r, s) \in Seq(Seq(S)) /\ p \o r \in Seq(Seq(S))
      BY AppendProperties, ConcatProperties
    <2>2. p \o Append(r, s) = Append(p \o r, s)
      BY ConcatAppend
    <2>3. FlattenSeq(Append(p \o r, s)) = FlattenSeq(p \o r) \o s
      BY <2>1, FlattenAppend
    <2>4. FlattenSeq(r) \in Seq(S) /\ FlattenSeq(Append(r, s)) = FlattenSeq(r) \o s
      BY FlattenAppend
    <2>5. \A a, b \in Seq(S) : (a \o b) \o s = a \o (b \o s)
      BY ConcatAssociative
    <2>6. FlattenSeq(p \o r) = FlattenSeq(p) \o FlattenSeq(r)
      BY <1>2
    <2>7. FlattenSeq(Append(p \o r, s)) = FlattenSeq(p) \o FlattenSeq(Append(r, s))
      <3>1. (FlattenSeq(p) \o FlattenSeq(r)) \o s = FlattenSeq(p) \o (FlattenSeq(r) \o s)
        BY <1>0, <2>4, <2>5, Zenon
      <3> QED BY <2>3, <2>4, <2>6, <3>1, Zenon
    <2>8. FlattenSeq(p \o Append(r, s)) = FlattenSeq(p) \o FlattenSeq(Append(r, s))
      BY <2>2, <2>7, Zenon
    <2> QED BY <2>1, <2>8
  <1> HIDE DEF Done
  <1>3. q \in Done
    BY <1>1, <1>2, SequenceInduction
  <1> QED BY <1>3 DEF Done

\* Empty sequences make nothing.
LEMMA FlattenNothing ==
  ASSUME NEW S, NEW seqs \in Seq({<<>>})
  PROVE  FlattenSeq(seqs) = <<>>
  <1> DEFINE Done == {r \in Seq({<<>>}) : r \in Seq(Seq(S)) /\ FlattenSeq(r) = <<>>}
  <1>1. <<>> \in Done
    BY FlattenEmpty, EmptySeq
  <1>2. ASSUME NEW r \in Seq({<<>>}), NEW s \in {<<>>}, r \in Done PROVE Append(r, s) \in Done
    <2>1. s = <<>> /\ s \in Seq(S)
      BY EmptySeq
    <2>2. Append(r, s) \in Seq({<<>>}) /\ Append(r, s) \in Seq(Seq(S))
      BY <1>2, <2>1, AppendProperties
    <2>3. FlattenSeq(Append(r, s)) = FlattenSeq(r) \o s
      BY <1>2, <2>1, FlattenAppend
    <2>4. FlattenSeq(r) = <<>> /\ <<>> \o s = <<>>
      BY <1>2, <2>1, ConcatEmptySeq
    <2> QED BY <2>2, <2>3, <2>4
  <1> HIDE DEF Done
  <1>3. seqs \in Done
    BY <1>1, <1>2, SequenceInduction
  <1> QED BY <1>3 DEF Done

\* A piece, and nothing at the places after it.
LEMMA FlattenFirst ==
  ASSUME NEW S, NEW s \in Seq(S), NEW m \in Nat,
         NEW seqs \in Seq(Seq(S)), Len(seqs) = m + 1, seqs[1] = s,
         \A i \in 2..m + 1 : seqs[i] = <<>>
  PROVE  FlattenSeq(seqs) = s
  <1> DEFINE none == [i \in 1..m |-> <<>>]
             one  == <<s>>
             both == one \o none
  <1>1. none \in Seq({<<>>}) /\ none \in Seq(Seq(S)) /\ Len(none) = m
        /\ \A i \in 1..m : none[i] = <<>>
    <2>1. none \in [1..m -> {<<>>}] /\ {<<>>} \subseteq Seq(S)
      BY EmptySeq
    <2>2. none \in Seq({<<>>})
      BY <2>1
    <2> QED BY <2>1, <2>2, SubsetSeq
  <1>2. one \in Seq(Seq(S)) /\ Len(one) = 1 /\ one[1] = s
    OBVIOUS
  <1> HIDE DEF none, one
  <1>3. /\ both \in Seq(Seq(S)) /\ Len(both) = 1 + m
        /\ \A i \in 1..1 + m : both[i] = IF i <= 1 THEN one[i] ELSE none[i - 1]
    <2>1. /\ both \in Seq(Seq(S)) /\ Len(both) = Len(one) + Len(none)
          /\ \A i \in 1..Len(one) + Len(none) :
               both[i] = IF i <= Len(one) THEN one[i] ELSE none[i - Len(one)]
      BY <1>1, <1>2, ConcatProperties
    <2> HIDE DEF both
    <2> QED BY <1>1, <1>2, <2>1, Zenon
  <1> HIDE DEF both
  <1>4. ASSUME NEW i \in 1..m + 1 PROVE both[i] = seqs[i]
    <2>1. i \in 1..1 + m
      OBVIOUS
    <2>2. CASE i = 1
      BY <1>2, <1>3, <2>1, <2>2
    <2>3. CASE i # 1
      <3>1. ~(i <= 1) /\ i - 1 \in 1..m /\ i \in 2..m + 1
        BY <2>3
      <3> QED BY <1>1, <1>3, <2>1, <3>1
    <2> QED BY <2>2, <2>3
  <1>5. both = seqs
    <2>1. Len(both) = m + 1
      BY <1>3
    <2>2. \A i \in 1..m + 1 : both[i] = seqs[i]
      BY <1>4
    <2> DEFINE T == Seq(S)
    <2>3. both \in Seq(T) /\ seqs \in Seq(T) /\ Len(both) = Len(seqs)
      BY <1>3, <2>1
    <2>4. \A i \in 1..Len(both) : both[i] = seqs[i]
      BY <2>1, <2>2, Zenon
    <2> HIDE DEF T
    <2> QED BY <2>3, <2>4, SeqEqual
  <1>6. FlattenSeq(one \o none) = FlattenSeq(one) \o FlattenSeq(none)
    BY <1>1, <1>2, FlattenConcat
  <1>7. FlattenSeq(one) = s /\ FlattenSeq(none) = <<>> /\ s \o <<>> = s
    BY <1>1, FlattenOne, FlattenNothing, ConcatEmptySeq DEF one
  <1> QED BY <1>5, <1>6, <1>7 DEF both

\* Pieces, one more piece, and nothing at the places after it.
LEMMA FlattenDivided ==
  ASSUME NEW S, NEW s \in Seq(S), NEW front \in Seq(Seq(S)), NEW all \in Seq(Seq(S)),
         Len(all) > Len(front),
         \A i \in 1..Len(front) : all[i] = front[i],
         all[Len(front) + 1] = s,
         \A i \in Len(front) + 2..Len(all) : all[i] = <<>>
  PROVE  FlattenSeq(all) = FlattenSeq(front) \o s
  <1> DEFINE n == Len(front)
             m == Len(all) - n - 1
             rest == [k \in 1..m + 1 |-> all[n + k]]
  <1>0. n \in Nat /\ m \in Nat /\ Len(all) = n + (m + 1)
    BY LenProperties
  <1> HIDE DEF n, m
  <1>1. rest \in Seq(Seq(S)) /\ Len(rest) = m + 1 /\ \A k \in 1..m + 1 : rest[k] = all[n + k]
    <2>1. \A k \in 1..m + 1 : n + k \in 1..Len(all)
      BY <1>0
    <2>2. \A k \in 1..m + 1 : all[n + k] \in Seq(S)
      BY <2>1, ElementOfSeq
    <2>3. rest \in [1..m + 1 -> Seq(S)] /\ m + 1 \in Nat
      BY <1>0, <2>2
    <2>4. \A k \in 1..m + 1 : rest[k] = all[n + k]
      OBVIOUS
    <2> HIDE DEF rest
    <2>5. rest \in Seq(Seq(S)) /\ Len(rest) = m + 1
      BY <2>3, FunctionIsSeq, Zenon
    <2> QED BY <2>4, <2>5
  <1> HIDE DEF rest
  <1>2. front \o rest = all
    <2> DEFINE T == Seq(S)
    <2>1. /\ front \in Seq(T) /\ rest \in Seq(T) /\ all \in Seq(T)
          /\ Len(all) = Len(front) + Len(rest)
          /\ (\A i \in 1..Len(front) : all[i] = front[i])
          /\ \A k \in 1..Len(rest) : all[Len(front) + k] = rest[k]
      BY <1>0, <1>1 DEF n
    <2> HIDE DEF T
    <2> QED BY <2>1, ConcatIs
  <1>3. rest[1] = s /\ \A k \in 2..m + 1 : rest[k] = <<>>
    <2>1. 1 \in 1..m + 1 /\ n + 1 = Len(front) + 1
      BY <1>0 DEF n
    <2>2. \A k \in 2..m + 1 : k \in 1..m + 1 /\ n + k \in Len(front) + 2..Len(all)
      BY <1>0 DEF n
    <2> QED BY <1>1, <2>1, <2>2
  <1>4. FlattenSeq(rest) = s
    BY <1>0, <1>1, <1>3, FlattenFirst
  <1>5. FlattenSeq(front \o rest) = FlattenSeq(front) \o FlattenSeq(rest)
    BY <1>1, FlattenConcat
  <1> QED BY <1>2, <1>4, <1>5, Zenon
-----------------------------------------------------------------------------
\* The prefixes of a text.
Upto(text, n) == SubSeq(text, 1, n)

LEMMA UptoIs ==
  ASSUME NEW S, NEW text \in Seq(S), NEW n \in 0..Len(text)
  PROVE  /\ Upto(text, n) \in Seq(S) /\ Len(Upto(text, n)) = n
         /\ \A i \in 1..n : Upto(text, n)[i] = text[i]
  <1>1. \A i \in 1..n : text[i] \in S
    BY LenProperties, ElementOfSeq
  <1>2. n \in Int /\ n \in Nat
    BY LenProperties
  <1>3. /\ SubSeq(text, 1, n) \in Seq(S)
        /\ Len(SubSeq(text, 1, n)) = IF 1 <= n THEN n - 1 + 1 ELSE 0
        /\ \A i \in 1..n - 1 + 1 : SubSeq(text, 1, n)[i] = text[1 + i - 1]
    BY <1>1, <1>2, SubSeqProperties
  <1> QED BY <1>2, <1>3 DEF Upto

\* One element more.
LEMMA UptoNext ==
  ASSUME NEW S, NEW text \in Seq(S), NEW n \in 1..Len(text)
  PROVE  Upto(text, n) = Append(Upto(text, n - 1), text[n])
  <1> DEFINE a == Upto(text, n)
             b == Upto(text, n - 1)
             c == Append(b, text[n])
  <1>1. n - 1 \in 0..Len(text) /\ n \in 0..Len(text) /\ text[n] \in S
    BY LenProperties, ElementOfSeq
  <1>2. /\ a \in Seq(S) /\ Len(a) = n /\ \A i \in 1..n : a[i] = text[i]
        /\ b \in Seq(S) /\ Len(b) = n - 1 /\ \A i \in 1..n - 1 : b[i] = text[i]
    BY <1>1, UptoIs
  <1> HIDE DEF a, b
  <1>3. /\ c \in Seq(S) /\ Len(c) = Len(b) + 1 /\ c[Len(b) + 1] = text[n]
        /\ \A i \in 1..Len(b) : c[i] = b[i]
    BY <1>1, <1>2, AppendProperties
  <1> HIDE DEF c
  <1>4. \A i \in 1..n : a[i] = c[i]
    BY <1>1, <1>2, <1>3
  <1>5. Len(c) = n
    BY <1>1, <1>2, <1>3
  <1>6. a = c
    BY <1>2, <1>3, <1>4, <1>5, SeqEqual
  <1> QED BY <1>6 DEF a, b, c

\* The longest and the shortest.
LEMMA UptoWhole ==
  ASSUME NEW S, NEW text \in Seq(S)
  PROVE  Upto(text, Len(text)) = text
  <1> DEFINE a == Upto(text, Len(text))
             n == Len(text)
  <1>1. n \in 0..n
    BY LenProperties
  <1>2. a \in Seq(S) /\ Len(a) = n /\ \A i \in 1..n : a[i] = text[i]
    BY <1>1, UptoIs
  <1> HIDE DEF a
  <1>3. a = text
    BY <1>2, SeqEqual
  <1> QED BY <1>3 DEF a

LEMMA UptoNone == ASSUME NEW text PROVE Upto(text, 0) = <<>>
  BY DEF Upto
=============================================================================
