----------------------------- MODULE SeqLemmas -----------------------------
(***************************************************************************)
(* Induction on natural numbers in the form of sets, and what FlattenSeq   *)
(* does to a sequence of sequences: it is a function defined by recursion, *)
(* of which one has to show first that it exists.                          *)
(***************************************************************************)
EXTENDS SequencesExt, Integers, SequenceTheorems, WellFoundedInduction, TLAPS

(* A set of natural numbers has a least element.                           *)
LEMMA LeastNat ==
    ASSUME NEW T, T \subseteq Nat, T # {}
    PROVE  \E x \in T : \A y \in T : x <= y
<1>1. PICK x \in T : \A y \in T : ~(<<y, x>> \in OpToRel(<, Nat))
  BY WFMin, NatLessThanWellFounded
<1>2. \A y \in T : <<y, x>> \in OpToRel(<, Nat) <=> y < x
  BY DEF OpToRel
<1>3. \A y \in T : ~(y < x)
  BY <1>1, <1>2
<1>4. \A y \in T : y \in Nat
  OBVIOUS
<1>5. \A y \in T : x <= y
  BY <1>3, <1>4
<1> QED BY <1>5

(* Induction: a set that has 0 and is closed under successor has them all. *)
LEMMA NatSetInduction ==
    ASSUME NEW T, 0 \in T, \A n \in Nat : n \in T => n + 1 \in T
    PROVE  \A n \in Nat : n \in T
<1> SUFFICES ASSUME Nat \ T # {} PROVE FALSE
  OBVIOUS
<1>1. PICK m \in Nat \ T : \A y \in Nat \ T : m <= y
  BY LeastNat
<1>2. m # 0 /\ m - 1 \in Nat /\ m - 1 + 1 = m
  BY <1>1
<1>3. m - 1 \in T
  BY <1>1, <1>2
<1> QED BY <1>1, <1>2, <1>3

(* f gives the concatenation of the first i sequences of s.                *)
FlattensAt(f, s, i) == f[i] = IF i = 1 THEN s[i] ELSE f[i - 1] \o s[i]

Flattens(f, s) == f = [i \in 1 .. Len(s) |-> IF i = 1 THEN s[i] ELSE f[i - 1] \o s[i]]

LEMMA FlattensPointwise ==
    ASSUME NEW s, NEW n, n = Len(s), NEW S, NEW f \in [1 .. n -> S]
    PROVE  Flattens(f, s) <=> \A i \in 1 .. n : FlattensAt(f, s, i)
BY DEF Flattens, FlattensAt

LEMMA FlattenedBy ==
    ASSUME NEW s, NEW f, Len(s) # 0, Flattens(f, s), \A g : Flattens(g, s) => g = f
    PROVE  FlattenSeq(s) = f[Len(s)]
BY DEF FlattenSeq, Flattens

(* The functions that FlattenSeq recurses by, from their values up to n.   *)
LEMMA FlattenExists ==
    ASSUME NEW S, NEW s \in Seq(Seq(S))
    PROVE  \E f \in [1 .. Len(s) -> Seq(S)] : Flattens(f, s)
<1> DEFINE Upto(n) == \E f \in [1 .. n -> Seq(S)] : \A i \in 1 .. n : FlattensAt(f, s, i)
           T == {n \in Nat : n <= Len(s) => Upto(n)}
<1>0. Len(s) \in Nat
  BY LenProperties
<1>1. Upto(0)
  <2>1. [i \in 1 .. 0 |-> <<>>] \in [1 .. 0 -> Seq(S)]
    OBVIOUS
  <2>2. \A i \in 1 .. 0 : FALSE
    OBVIOUS
  <2> QED BY <2>1, <2>2, Zenon
<1>2. ASSUME NEW n \in Nat, n <= Len(s) => Upto(n), n + 1 <= Len(s) PROVE Upto(n + 1)
  <2>0. n <= Len(s)
    BY <1>0, <1>2
  <2>1. PICK f \in [1 .. n -> Seq(S)] : \A i \in 1 .. n : FlattensAt(f, s, i)
    BY <1>2, <2>0
  <2>2. s[n + 1] \in Seq(S)
    BY <1>0, <1>2, ElementOfSeq
  <2> DEFINE last == IF n = 0 THEN s[1] ELSE f[n] \o s[n + 1]
             g == [i \in 1 .. n + 1 |-> IF i = n + 1 THEN last ELSE f[i]]
  <2>3. last \in Seq(S)
    <3>1. CASE n = 0
      BY <2>2, <3>1
    <3>2. CASE n # 0
      <4>1. f[n] \in Seq(S)
        BY <3>2
      <4> QED BY <2>2, <3>2, <4>1, ConcatProperties
    <3> QED BY <3>1, <3>2
  <2> HIDE DEF last
  <2>4. g \in [1 .. n + 1 -> Seq(S)]
    BY <2>3
  <2>5. ASSUME NEW i \in 1 .. n + 1 PROVE FlattensAt(g, s, i)
    <3>1. CASE i \in 1 .. n
      <4>1. g[i] = f[i] /\ (i # 1 => g[i - 1] = f[i - 1])
        BY <3>1
      <4>2. FlattensAt(f, s, i)
        BY <2>1, <3>1
      <4> QED BY <4>1, <4>2 DEF FlattensAt
    <3>2. CASE i = n + 1
      <4>1. i # 1 => n \in 1 .. n /\ i - 1 = n /\ g[i - 1] = f[n]
        BY <3>2
      <4> QED BY <3>2, <4>1 DEF last, FlattensAt
    <3> QED BY <3>1, <3>2
  <2> QED BY <2>4, <2>5
<1>3. \A n \in Nat : n \in T
  <2>1. 0 \in T
    BY <1>1
  <2>2. ASSUME NEW n \in Nat, n \in T PROVE n + 1 \in T
    <3> HIDE DEF Upto
    <3> QED BY <1>2, <2>2
  <2> HIDE DEF T
  <2> QED BY <2>1, <2>2, NatSetInduction
<1>4. Upto(Len(s))
  <2> HIDE DEF Upto
  <2> QED BY <1>0, <1>3
<1> QED BY <1>4, FlattensPointwise

LEMMA FlattenUnique ==
    ASSUME NEW S, NEW s \in Seq(Seq(S)), NEW f, Flattens(f, s), NEW g, Flattens(g, s)
    PROVE  f = g
<1> DEFINE T == {n \in Nat : n \in 1 .. Len(s) => f[n] = g[n]}
<1>0. Len(s) \in Nat
  BY LenProperties
<1>1. 0 \in T
  OBVIOUS
<1>5. \A i \in 1 .. Len(s) : FlattensAt(f, s, i) /\ FlattensAt(g, s, i)
  BY <1>0 DEF Flattens, FlattensAt
<1>2. ASSUME NEW n \in Nat, n \in T PROVE n + 1 \in T
  <2> SUFFICES ASSUME n + 1 \in 1 .. Len(s) PROVE f[n + 1] = g[n + 1]
    OBVIOUS
  <2>1. CASE n = 0
    BY <1>5, <2>1 DEF FlattensAt
  <2>2. CASE n # 0
    <3>1. f[n] = g[n] /\ n + 1 # 1 /\ n + 1 - 1 = n
      BY <1>0, <1>2, <2>2
    <3> QED BY <1>5, <3>1 DEF FlattensAt
  <2> QED BY <2>1, <2>2
<1>3. \A n \in Nat : n \in T
  <2> HIDE DEF T
  <2> QED BY <1>1, <1>2, NatSetInduction
<1>4. \A n \in 1 .. Len(s) : f[n] = g[n]
  BY <1>0, <1>3
<1> QED BY <1>4 DEF Flattens

LEMMA FlattenEmpty == FlattenSeq(<<>>) = <<>>
BY DEF FlattenSeq

LEMMA FlattenIsLast ==
    ASSUME NEW S, NEW s \in Seq(Seq(S)), s # <<>>
    PROVE  \E f \in [1 .. Len(s) -> Seq(S)] : Flattens(f, s) /\ FlattenSeq(s) = f[Len(s)]
<1>1. PICK f \in [1 .. Len(s) -> Seq(S)] : Flattens(f, s)
  BY FlattenExists
<1>2. Len(s) # 0
  BY EmptySeq
<1>3. \A g : Flattens(g, s) => g = f
  BY <1>1, FlattenUnique
<1>4. FlattenSeq(s) = f[Len(s)]
  BY <1>1, <1>2, <1>3, FlattenedBy
<1> QED BY <1>1, <1>4

LEMMA FlattenType ==
    ASSUME NEW S, NEW s \in Seq(Seq(S))
    PROVE  FlattenSeq(s) \in Seq(S)
<1>1. CASE s = <<>>
  BY <1>1, FlattenEmpty, EmptySeq
<1>2. CASE s # <<>>
  <2>1. PICK f \in [1 .. Len(s) -> Seq(S)] : FlattenSeq(s) = f[Len(s)]
    BY <1>2, FlattenIsLast
  <2>2. Len(s) \in Nat \ {0}
    BY <1>2, EmptySeq
  <2>3. Len(s) \in 1 .. Len(s)
    BY <2>2
  <2> QED BY <2>1, <2>3, Zenon
<1> QED BY <1>1, <1>2

(* One sequence more at the end is one concatenation more.                 *)
LEMMA FlattenAppend ==
    ASSUME NEW S, NEW s \in Seq(Seq(S)), NEW x \in Seq(S)
    PROVE  FlattenSeq(Append(s, x)) = FlattenSeq(s) \o x
<1> DEFINE n == Len(s)
           t == Append(s, x)
<1>1. n \in Nat /\ t \in Seq(Seq(S)) /\ t # <<>> /\ Len(t) = n + 1 /\ t[n + 1] = x
      /\ \A i \in 1 .. n : t[i] = s[i]
  BY LenProperties, AppendProperties, EmptySeq
<1> HIDE DEF t
<1>2. PICK g \in [1 .. n + 1 -> Seq(S)] : Flattens(g, t) /\ FlattenSeq(t) = g[n + 1]
  BY <1>1, FlattenIsLast
<1>3. CASE s = <<>>
  <2>1. n = 0 /\ g[n + 1] = x
    BY <1>1, <1>2, <1>3, EmptySeq DEF Flattens
  <2> QED BY <1>2, <1>3, <2>1, FlattenEmpty, ConcatEmptySeq DEF t
<1>4. CASE s # <<>>
  <2>1. PICK f \in [1 .. n -> Seq(S)] : Flattens(f, s) /\ FlattenSeq(s) = f[n]
    BY <1>4, FlattenIsLast
  <2>2. n # 0
    BY <1>4, EmptySeq
  <2>6. \A i \in 1 .. n + 1 : FlattensAt(g, t, i)
    BY <1>1, <1>2, FlattensPointwise
  <2> DEFINE h == [i \in 1 .. n |-> g[i]]
  <2>7. h \in [1 .. n -> Seq(S)]
    BY <1>1, <1>2
  <2>8. ASSUME NEW i \in 1 .. n PROVE FlattensAt(h, s, i)
    <3>1. h[i] = g[i] /\ (i # 1 => h[i - 1] = g[i - 1]) /\ FlattensAt(g, t, i) /\ t[i] = s[i]
      BY <1>1, <2>6
    <3> QED BY <3>1 DEF FlattensAt
  <2>3. Flattens(h, s)
    BY <2>7, <2>8, FlattensPointwise
  <2>4. f[n] = g[n]
    BY <1>1, <2>1, <2>2, <2>3, FlattenUnique
  <2>5. g[n + 1] = g[n] \o x
    <3>0. PICK m : m = n + 1
      OBVIOUS
    <3>1. m \in 1 .. n + 1 /\ m # 1 /\ m - 1 = n
      BY <1>1, <2>2, <3>0
    <3>2. FlattensAt(g, t, m)
      BY <2>6, <3>1, Zenon
    <3>3. g[m] = g[n] \o t[m]
      BY <3>1, <3>2 DEF FlattensAt
    <3> QED BY <1>1, <3>0, <3>3, Zenon
  <2> QED BY <1>2, <2>1, <2>4, <2>5 DEF t
<1> QED BY <1>3, <1>4

(* The first sequences give a beginning of the whole.                      *)
LEMMA FlattenPrefix ==
    ASSUME NEW S, NEW s \in Seq(Seq(S)), NEW k \in 0 .. Len(s)
    PROVE  \E r \in Seq(S) : FlattenSeq(s) = FlattenSeq(SubSeq(s, 1, k)) \o r
<1> DEFINE upto(n) == FlattenSeq(SubSeq(s, 1, n))
           Reached(n) == \E r \in Seq(S) : upto(n) = upto(k) \o r
           T == {n \in Nat : k + n <= Len(s) => Reached(k + n)}
<1>0. Len(s) \in Nat /\ k \in Nat /\ k <= Len(s)
  BY LenProperties
<1>1. ASSUME NEW n \in Nat, n <= Len(s)
      PROVE  SubSeq(s, 1, n) \in Seq(Seq(S)) /\ upto(n) \in Seq(S)
  <2>1. \A i \in 1 .. n : s[i] \in Seq(S)
    BY <1>0, <1>1, ElementOfSeq
  <2>2. SubSeq(s, 1, n) \in Seq(Seq(S))
    BY <2>1, SubSeqProperties
  <2> QED BY <2>2, FlattenType
<1>2. Reached(k)
  <2>1. upto(k) \in Seq(S)
    BY <1>0, <1>1
  <2> QED BY <2>1, ConcatEmptySeq, EmptySeq
<1>3. ASSUME NEW n \in Nat, n + 1 <= Len(s), k <= n, Reached(n) PROVE Reached(n + 1)
  <2>1. SubSeq(s, 1, n + 1) = Append(SubSeq(s, 1, n), s[n + 1]) /\ s[n + 1] \in Seq(S)
    <3>1. n + 1 \in 1 .. Len(s) /\ n + 1 - 1 = n /\ 1 \in 1 .. Len(s) /\ n <= Len(s)
      BY <1>0, <1>3
    <3>2. s[n + 1] \in Seq(S)
      BY <3>1, ElementOfSeq
    <3>3. SubSeq(s, 1, n + 1) = SubSeq(s, 1, n + 1 - 1) \o <<s[n + 1]>>
      BY <3>1, SubSeqRecursiveSecond
    <3>4. SubSeq(s, 1, n) \in Seq(Seq(S))
      BY <1>1, <3>1
    <3> QED BY <3>1, <3>2, <3>3, <3>4, AppendIsConcat
  <2>2. SubSeq(s, 1, n) \in Seq(Seq(S)) /\ upto(n) \in Seq(S) /\ upto(k) \in Seq(S)
    BY <1>0, <1>1, <1>3
  <2>3. upto(n + 1) = upto(n) \o s[n + 1]
    BY <2>1, <2>2, FlattenAppend
  <2>4. PICK r \in Seq(S) : upto(n) = upto(k) \o r
    BY <1>3
  <2>5. upto(n + 1) = upto(k) \o (r \o s[n + 1]) /\ r \o s[n + 1] \in Seq(S)
    <3> HIDE DEF upto
    <3>1. r \o s[n + 1] \in Seq(S)
      BY <2>1, ConcatProperties
    <3>2. (upto(k) \o r) \o s[n + 1] = upto(k) \o (r \o s[n + 1])
      <4>1. \A a, b, c \in Seq(S) : (a \o b) \o c = a \o (b \o c)
        BY ConcatAssociative, SMTT(30)
      <4> QED BY <2>1, <2>2, <4>1
    <3> QED BY <2>3, <2>4, <3>1, <3>2
  <2> QED BY <2>5
<1>4. \A n \in Nat : n \in T
  <2>1. 0 \in T
    BY <1>0, <1>2, SMTT(30)
  <2>2. ASSUME NEW n \in Nat, n \in T PROVE n + 1 \in T
    <3> HIDE DEF Reached
    <3>1. k + n + 1 <= Len(s) => k + n \in Nat /\ k + n <= Len(s) /\ k <= k + n
      BY <1>0
    <3>2. k + n + 1 <= Len(s) => Reached(k + n + 1)
      BY <1>3, <2>2, <3>1
    <3>3. k + (n + 1) = k + n + 1
      BY <1>0
    <3> QED BY <3>2, <3>3
  <2> HIDE DEF T
  <2> QED BY <2>1, <2>2, NatSetInduction
<1>5. Reached(Len(s))
  <2> HIDE DEF Reached
  <2>1. Len(s) - k \in Nat /\ k + (Len(s) - k) = Len(s)
    BY <1>0
  <2>2. PICK n \in Nat : n = Len(s) - k
    BY <2>1
  <2>3. k + n <= Len(s) => Reached(k + n)
    BY <1>4
  <2> QED BY <1>0, <2>1, <2>2, <2>3
<1> QED BY <1>5, SubSeqFull

-----------------------------------------------------------------------------
(* Sequences read and written piece by piece.                              *)

LEMMA PrefixOfConcat ==
    ASSUME NEW S, NEW s \in Seq(S), NEW t \in Seq(S)
    PROVE  IsPrefix(s, s \o t)
<1>1. Len(s) \in Nat /\ Len(t) \in Nat
  BY LenProperties
<1>2. s \o t \in Seq(S) /\ Len(s \o t) = Len(s) + Len(t)
      /\ \A i \in 1 .. Len(s) : (s \o t)[i] = s[i]
  BY <1>1, ConcatProperties
<1>3. \A i \in 1 .. Len(s) : s[i] \in S /\ (s \o t)[i] \in S
  BY <1>2, ElementOfSeq
<1> DEFINE a == SubSeq(s, 1, Len(s))
           b == SubSeq(s \o t, 1, Len(s))
<1>4. a \in Seq(S) /\ Len(a) = Len(s) /\ \A i \in 1 .. Len(s) : a[i] = s[i]
  BY SubSeqFull
<1>5. b \in Seq(S) /\ Len(b) = Len(s) /\ \A i \in 1 .. Len(s) : b[i] = (s \o t)[i]
  BY <1>1, <1>3, SubSeqProperties
<1>6. a = b
  <2> HIDE DEF a, b
  <2> QED BY <1>2, <1>4, <1>5, SeqEqual
<1> QED BY <1>1, <1>2, <1>6 DEF IsPrefix

LEMMA SubSeqType ==
    ASSUME NEW S, NEW s \in Seq(S), NEW m \in Nat \ {0}, NEW n \in Nat, n <= Len(s)
    PROVE  /\ SubSeq(s, m, n) \in Seq(S)
           /\ Len(SubSeq(s, m, n)) = IF m <= n THEN n - m + 1 ELSE 0
           /\ \A i \in 1 .. n - m + 1 : SubSeq(s, m, n)[i] = s[m + i - 1]
<1>1. Len(s) \in Nat
  BY LenProperties
<1>2. \A i \in m .. n : s[i] \in S
  BY <1>1, ElementOfSeq
<1> QED BY <1>2, SubSeqProperties

LEMMA SubSeqAppend ==
    ASSUME NEW S, NEW s \in Seq(S), NEW m \in Nat \ {0}, NEW n \in Nat, m <= n + 1, n + 1 <= Len(s)
    PROVE  SubSeq(s, m, n + 1) = Append(SubSeq(s, m, n), s[n + 1])
<1>1. Len(s) \in Nat
  BY LenProperties
<1>2. m \in 1 .. Len(s) /\ n + 1 \in m .. Len(s) /\ n + 1 - 1 = n /\ n <= Len(s)
  BY <1>1
<1>3. SubSeq(s, m, n + 1) = SubSeq(s, m, n + 1 - 1) \o <<s[n + 1]>>
  BY <1>2, SubSeqRecursiveSecond
<1>4. SubSeq(s, m, n) \in Seq(S) /\ s[n + 1] \in S
  BY <1>1, <1>2, SubSeqType, ElementOfSeq
<1> QED BY <1>2, <1>3, <1>4, AppendIsConcat
=============================================================================
