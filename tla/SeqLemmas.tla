----------------------------- MODULE SeqLemmas ------------------------------
(* Facts about inserting into and removing from a sequence, as the          *)
(* intrusive lists of include/common/list_types.h are used.                 *)
EXTENDS Integers, Sequences, SequencesExt, SequenceTheorems,
        WellFoundedInduction, TLAPS

\* InsertAt puts one element in and moves the rest up.
LEMMA InsertAtProperties ==
    ASSUME NEW S, NEW s \in Seq(S), NEW e \in S, NEW i \in 1..(Len(s) + 1)
    PROVE  /\ InsertAt(s, i, e) \in Seq(S)
           /\ Len(InsertAt(s, i, e)) = Len(s) + 1
           /\ \A j \in 1..(Len(s) + 1) :
                InsertAt(s, i, e)[j] = IF j < i THEN s[j]
                                       ELSE IF j = i THEN e
                                       ELSE s[j - 1]
<1> DEFINE a == SubSeq(s, 1, i - 1)
           b == SubSeq(s, i, Len(s))
           c == a \o <<e>>
           d == c \o b
<1>0. Len(s) \in Nat /\ \A k \in 1..Len(s) : s[k] \in S
  BY LenProperties, ElementOfSeq
<1>1. a \in Seq(S) /\ Len(a) = i - 1 /\ \A j \in 1..(i-1) : a[j] = s[j]
  BY <1>0, SubSeqProperties
<1>2. /\ b \in Seq(S)
      /\ Len(b) = Len(s) - i + 1
      /\ \A j \in 1..(Len(s) - i + 1) : b[j] = s[i + j - 1]
  BY <1>0, SubSeqProperties
<1>3. <<e>> \in Seq(S) /\ Len(<<e>>) = 1 /\ <<e>>[1] = e
  OBVIOUS
<1>6. InsertAt(s, i, e) = d
  BY DEF InsertAt
<1> HIDE DEF a, b
<1>4. /\ c \in Seq(S)
      /\ Len(c) = i
      /\ \A j \in 1..i : c[j] = IF j < i THEN s[j] ELSE e
  BY <1>0, <1>1, <1>3, ConcatProperties
<1> HIDE DEF c
<1>5. /\ d \in Seq(S)
      /\ Len(d) = Len(s) + 1
      /\ \A j \in 1..(Len(s) + 1) : d[j] = IF j <= i THEN c[j] ELSE b[j - i]
  <2>1. /\ d \in Seq(S)
        /\ Len(d) = Len(c) + Len(b)
        /\ \A j \in 1..(Len(c) + Len(b)) :
              d[j] = IF j <= Len(c) THEN c[j] ELSE b[j - Len(c)]
    BY <1>2, <1>4, ConcatProperties, Zenon
  <2> HIDE DEF d
  <2> QED
    BY <1>0, <1>2, <1>4, <2>1
<1> HIDE DEF d
<1>7. ASSUME NEW j \in 1..(Len(s) + 1)
      PROVE  d[j] = IF j < i THEN s[j] ELSE IF j = i THEN e ELSE s[j - 1]
  <2>1. CASE j <= i
    BY <1>0, <1>4, <1>5, <2>1
  <2>2. CASE j > i
    <3>1. j - i \in 1..(Len(s) - i + 1) /\ i + (j - i) - 1 = j - 1
      BY <1>0, <2>2
    <3> QED
      BY <1>0, <1>2, <1>5, <2>2, <3>1
  <2> QED
    BY <1>0, <2>1, <2>2
<1> QED
  BY <1>5, <1>6, <1>7

\* RemoveAt takes one element out and moves the rest down.
LEMMA RemoveAtProperties ==
    ASSUME NEW S, NEW s \in Seq(S), NEW i \in 1..Len(s)
    PROVE  /\ RemoveAt(s, i) \in Seq(S)
           /\ Len(RemoveAt(s, i)) = Len(s) - 1
           /\ \A j \in 1..(Len(s) - 1) :
                RemoveAt(s, i)[j] = IF j < i THEN s[j] ELSE s[j + 1]
<1> DEFINE a == SubSeq(s, 1, i - 1)
           b == SubSeq(s, i + 1, Len(s))
           d == a \o b
<1>0. Len(s) \in Nat /\ \A k \in 1..Len(s) : s[k] \in S
  BY LenProperties, ElementOfSeq
<1>1. a \in Seq(S) /\ Len(a) = i - 1 /\ \A j \in 1..(i-1) : a[j] = s[j]
  BY <1>0, SubSeqProperties
<1>2. /\ b \in Seq(S)
      /\ Len(b) = Len(s) - i
      /\ \A j \in 1..(Len(s) - i) : b[j] = s[i + j]
  <2>1. \A k \in (i + 1)..Len(s) : s[k] \in S
    BY <1>0
  <2> QED
    BY <1>0, <2>1, SubSeqProperties
<1>3. RemoveAt(s, i) = d
  BY DEF RemoveAt
<1> HIDE DEF a, b
<1>4. /\ d \in Seq(S)
      /\ Len(d) = Len(s) - 1
      /\ \A j \in 1..(Len(s) - 1) : d[j] = IF j <= i - 1 THEN a[j] ELSE b[j - (i - 1)]
  <2>1. /\ d \in Seq(S)
        /\ Len(d) = Len(a) + Len(b)
        /\ \A j \in 1..(Len(a) + Len(b)) :
              d[j] = IF j <= Len(a) THEN a[j] ELSE b[j - Len(a)]
    BY <1>1, <1>2, ConcatProperties, Zenon
  <2> HIDE DEF d
  <2> QED
    BY <1>0, <1>1, <1>2, <2>1
<1> HIDE DEF d
<1>5. ASSUME NEW j \in 1..(Len(s) - 1)
      PROVE  d[j] = IF j < i THEN s[j] ELSE s[j + 1]
  <2>1. CASE j < i
    BY <1>0, <1>1, <1>4, <2>1
  <2>2. CASE j >= i
    <3>1. j - (i - 1) \in 1..(Len(s) - i) /\ i + (j - (i - 1)) = j + 1
      BY <1>0, <2>2
    <3> QED
      BY <1>0, <1>2, <1>4, <2>2, <3>1
  <2> QED
    BY <1>0, <2>1, <2>2
<1> QED
  BY <1>3, <1>4, <1>5

\* No element twice: a list_head is linked at one place.
Distinct(s) == \A i, j \in 1..Len(s) : s[i] = s[j] => i = j

\* A new element makes the sequence longer by itself and by nothing else.
LEMMA InsertDistinct ==
    ASSUME NEW S, NEW s \in Seq(S), NEW e \in S, NEW i \in 1..(Len(s) + 1),
           Distinct(s), ~Contains(s, e)
    PROVE  /\ InsertAt(s, i, e) \in Seq(S)
           /\ Distinct(InsertAt(s, i, e))
           /\ \A x : Contains(InsertAt(s, i, e), x) <=> (x = e \/ Contains(s, x))
<1> DEFINE d == InsertAt(s, i, e)
<1>0. Len(s) \in Nat
  BY LenProperties
<1>1. /\ d \in Seq(S)
      /\ Len(d) = Len(s) + 1
      /\ \A j \in 1..(Len(s) + 1) :
            d[j] = IF j < i THEN s[j] ELSE IF j = i THEN e ELSE s[j - 1]
  <2>1. /\ InsertAt(s, i, e) \in Seq(S)
        /\ Len(InsertAt(s, i, e)) = Len(s) + 1
        /\ \A j \in 1..(Len(s) + 1) :
              InsertAt(s, i, e)[j] = IF j < i THEN s[j]
                                     ELSE IF j = i THEN e
                                     ELSE s[j - 1]
    BY InsertAtProperties
  <2> QED
    BY <2>1
<1> HIDE DEF d
<1>2. \A k \in 1..Len(s) : s[k] # e
  BY DEF Contains
<1>3. Distinct(d)
  <2> SUFFICES ASSUME NEW j \in 1..(Len(s) + 1), NEW k \in 1..(Len(s) + 1),
                      d[j] = d[k], j < k
               PROVE  FALSE
    BY <1>0, <1>1 DEF Distinct
  <2>1. CASE k < i
    <3>1. j \in 1..Len(s) /\ k \in 1..Len(s) /\ d[j] = s[j] /\ d[k] = s[k]
      BY <1>0, <1>1, <2>1
    <3>2. j = k
      BY <3>1 DEF Distinct
    <3> QED
      BY <3>2
  <2>2. CASE k = i
    BY <1>0, <1>1, <1>2, <2>2
  <2>3. CASE k > i /\ j = i
    <3>1. k - 1 \in 1..Len(s)
      BY <1>0, <2>3
    <3> QED
      BY <1>0, <1>1, <1>2, <2>3, <3>1
  <2>4. CASE k > i /\ j # i
    <3>1. k - 1 \in 1..Len(s) /\ (j > i => j - 1 \in 1..Len(s)) /\ (j < i => j \in 1..Len(s))
      BY <1>0, <2>4
    <3>2. d[k] = s[k - 1] /\ d[j] = (IF j < i THEN s[j] ELSE s[j - 1])
      BY <1>0, <1>1, <2>4
    <3> QED
      BY <1>0, <2>4, <3>1, <3>2 DEF Distinct
  <2> QED
    BY <1>0, <2>1, <2>2, <2>3, <2>4
<1>4. ASSUME NEW x
      PROVE  Contains(d, x) <=> (x = e \/ Contains(s, x))
  <2>1. ASSUME Contains(d, x) PROVE x = e \/ Contains(s, x)
    <3>1. PICK j \in 1..(Len(s) + 1) : d[j] = x
      BY <1>1, <2>1 DEF Contains
    <3>2. (j < i => j \in 1..Len(s)) /\ (j > i => j - 1 \in 1..Len(s))
      BY <1>0
    <3> QED
      BY <1>0, <1>1, <3>1, <3>2 DEF Contains
  <2>2. ASSUME x = e PROVE Contains(d, x)
    BY <1>0, <1>1, <2>2 DEF Contains
  <2>3. ASSUME Contains(s, x) PROVE Contains(d, x)
    <3>1. PICK j \in 1..Len(s) : s[j] = x
      BY <2>3 DEF Contains
    <3>2. CASE j < i
      <4>1. j \in 1..(Len(s) + 1) /\ d[j] = x
        BY <1>0, <1>1, <3>1, <3>2
      <4> QED
        BY <1>1, <4>1 DEF Contains
    <3>3. CASE j >= i
      <4>1. j + 1 \in 1..(Len(s) + 1) /\ d[j + 1] = s[(j + 1) - 1] /\ (j + 1) - 1 = j
        BY <1>0, <1>1, <3>3
      <4> QED
        BY <1>1, <3>1, <4>1 DEF Contains
    <3> QED
      BY <1>0, <3>2, <3>3
  <2> QED
    BY <2>1, <2>2, <2>3
<1> QED
  BY <1>1, <1>3, <1>4 DEF d

\* The element removed is gone, the others stay.
LEMMA RemoveDistinct ==
    ASSUME NEW S, NEW s \in Seq(S), NEW e, Distinct(s)
    PROVE  /\ RemoveFirst(s, e) \in Seq(S)
           /\ Distinct(RemoveFirst(s, e))
           /\ \A x : Contains(RemoveFirst(s, e), x) <=> (x # e /\ Contains(s, x))
<1>0. Len(s) \in Nat
  BY LenProperties
<1>1. CASE ~Contains(s, e)
  <2>1. RemoveFirst(s, e) = s
    BY <1>1 DEF Contains, RemoveFirst
  <2> QED
    BY <1>1, <2>1
<1>2. CASE Contains(s, e)
  <2>1. PICK i \in 1..Len(s) : s[i] = e
    BY <1>2 DEF Contains
  <2> DEFINE d == RemoveAt(s, i)
             I == {k \in 1..Len(s) : s[k] = e}
  <2>2. RemoveFirst(s, e) = d
    <3>1. I = {i}
      BY <2>1 DEF Distinct
    <3>2. Min(I) = i
      BY <1>0, <3>1 DEF Min
    <3>3. SelectInSeq(s, LAMBDA v : v = e) = i
      BY <3>1, <3>2 DEF SelectInSeq
    <3> QED
      BY <1>2, <3>3 DEF RemoveFirst, Contains
  <2>3. /\ d \in Seq(S)
        /\ Len(d) = Len(s) - 1
        /\ \A j \in 1..(Len(s) - 1) : d[j] = IF j < i THEN s[j] ELSE s[j + 1]
    BY RemoveAtProperties
  <2> HIDE DEF d
  <2>4. Distinct(d)
    <3> SUFFICES ASSUME NEW j \in 1..(Len(s) - 1), NEW k \in 1..(Len(s) - 1),
                        d[j] = d[k]
                 PROVE  j = k
      BY <1>0, <2>3 DEF Distinct
    <3>1. j \in 1..Len(s) /\ k \in 1..Len(s) /\ j + 1 \in 1..Len(s) /\ k + 1 \in 1..Len(s)
      BY <1>0
    <3>2. d[j] = (IF j < i THEN s[j] ELSE s[j + 1]) /\ d[k] = (IF k < i THEN s[k] ELSE s[k + 1])
      BY <2>3
    <3>3. \A p, q \in 1..Len(s) : s[p] = s[q] => p = q
      BY DEF Distinct
    <3>4. CASE j < i /\ k < i
      BY <3>1, <3>2, <3>3, <3>4
    <3>5. CASE j < i /\ ~(k < i)
      <4>1. j = k + 1
        BY <3>1, <3>2, <3>3, <3>5
      <4> QED
        BY <3>5, <4>1
    <3>6. CASE ~(j < i) /\ k < i
      <4>1. j + 1 = k
        BY <3>1, <3>2, <3>3, <3>6
      <4> QED
        BY <3>6, <4>1
    <3>7. CASE ~(j < i) /\ ~(k < i)
      <4>1. j + 1 = k + 1
        BY <3>1, <3>2, <3>3, <3>7
      <4> QED
        BY <4>1
    <3> QED
      BY <3>4, <3>5, <3>6, <3>7
  <2>5. ASSUME NEW x
        PROVE  Contains(d, x) <=> (x # e /\ Contains(s, x))
    <3>1. ASSUME Contains(d, x) PROVE x # e /\ Contains(s, x)
      <4>1. PICK j \in 1..(Len(s) - 1) : d[j] = x
        BY <2>3, <3>1 DEF Contains
      <4>2. j \in 1..Len(s) /\ j + 1 \in 1..Len(s)
        BY <1>0
      <4>3. x = IF j < i THEN s[j] ELSE s[j + 1]
        BY <2>3, <4>1
      <4> QED
        BY <1>0, <2>1, <4>2, <4>3 DEF Contains, Distinct
    <3>2. ASSUME x # e, Contains(s, x) PROVE Contains(d, x)
      <4>1. PICK j \in 1..Len(s) : s[j] = x
        BY <3>2 DEF Contains
      <4>2. CASE j < i
        <5>1. j \in 1..(Len(s) - 1) /\ d[j] = x
          BY <1>0, <2>3, <4>1, <4>2
        <5> QED
          BY <2>3, <5>1 DEF Contains
      <4>3. CASE j > i
        <5>1. j - 1 \in 1..(Len(s) - 1) /\ d[j - 1] = s[(j - 1) + 1] /\ (j - 1) + 1 = j
          BY <1>0, <2>3, <4>3
        <5> QED
          BY <2>3, <4>1, <5>1 DEF Contains
      <4> QED
        BY <1>0, <2>1, <3>2, <4>1, <4>2, <4>3
    <3> QED
      BY <3>1, <3>2
  <2> QED
    BY <2>2, <2>3, <2>4, <2>5
<1> QED
  BY <1>1, <1>2

\* A non-empty set of positions has a last one.
LEMMA MaxPosition ==
    ASSUME NEW n \in Nat, NEW I, I \subseteq 1..n, I # {}
    PROVE  Max(I) \in I /\ \A y \in I : Max(I) >= y
<1> DEFINE T == {n - i : i \in I}
<1>1. T \subseteq Nat /\ T # {}
  <2>1. PICK i \in I : TRUE
    OBVIOUS
  <2>2. n - i \in T
    OBVIOUS
  <2>3. \A k \in I : n - k \in Nat
    OBVIOUS
  <2> QED
    BY <2>2, <2>3
<1> DEFINE R == OpToRel(<, Nat)
<1>2. PICK m \in T : \A y \in T : ~(<<y, m>> \in R)
  <2>1. IsWellFoundedOn(R, Nat)
    BY NatLessThanWellFounded
  <2> HIDE DEF R
  <2> QED
    BY <1>1, <2>1, WFMin
<1>3. PICK k \in I : m = n - k
  OBVIOUS
<1>4. ASSUME NEW y \in I PROVE k >= y
  <2>1. n - y \in T /\ n - y \in Nat /\ n - k \in Nat
    OBVIOUS
  <2>2. ~(n - y < n - k)
    BY <1>1, <1>2, <1>3, <2>1 DEF OpToRel
  <2> QED
    BY <2>2
<1> QED
  BY <1>4 DEF Max
=============================================================================
