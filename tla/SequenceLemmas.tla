--------------------------- MODULE SequenceLemmas ---------------------------
(***************************************************************************)
(* What SequencesExt's RemoveFirst does to a sequence: list.remove of the  *)
(* registries (hooks/registry.py, tools/registry.py) and of the publisher  *)
(* (core/publisher.py).                                                    *)
(***************************************************************************)
EXTENDS SequencesExt, SequenceTheorems, FiniteSetTheorems, TLAPS

(* A bounded set of naturals that is not empty has a least element: strict *)
(* inclusion is well-founded on the subsets of 0..n, so one of the sets of *)
(* the numbers below an element is minimal.                                *)
LEMMA MinIsElement ==
  ASSUME NEW n \in Nat, NEW I \in SUBSET (1..n), I # {}
  PROVE  Min(I) \in I
<1> DEFINE D == 1..n
           Below(i) == {j \in D : j < i}
           T == {Below(i) : i \in I}
           R == StrictSubsetOrdering(D)
<1>1. IsFiniteSet(D)
  BY FS_Interval
<1>2. IsWellFoundedOn(R, SUBSET D)
  BY <1>1, FS_StrictSubsetOrderingWellFounded, FS_FiniteSubsetsOfFinite
<1>3. T \subseteq SUBSET D /\ T # {}
  OBVIOUS
<1>4. PICK x \in T : \A y \in T : <<y, x>> \notin R
  <2> HIDE DEF D, T, R
  <2>. QED  BY <1>2, <1>3, WFMin
<1>5. PICK i \in I : x = Below(i)
  BY <1>4
<1>6. ASSUME NEW j \in I PROVE i <= j
  <2>1. SUFFICES ASSUME j < i PROVE FALSE
    OBVIOUS
  <2>2. Below(j) \subseteq Below(i) /\ j \in Below(i) /\ j \notin Below(j)
    BY <2>1
  <2>3. <<Below(j), Below(i)>> \in R
    BY <2>2 DEF StrictSubsetOrdering
  <2>. QED  BY <1>4, <1>5, <2>3
<1>. QED  BY <1>6 DEF Min

(* What is left and right of the entry that is taken out.                  *)
LEMMA RemoveAtEntries ==
  ASSUME NEW S, NEW s \in Seq(S), NEW k \in 1..Len(s), NEW t,
         t = RemoveAt(s, k)
  PROVE  /\ t \in Seq(S) /\ Len(t) = Len(s) - 1
         /\ \A i \in 1..k-1 : t[i] = s[i]
         /\ \A i \in k..Len(s)-1 : t[i] = s[i+1]
<1>0. t = SubSeq(s, 1, k-1) \o SubSeq(s, k+1, Len(s))
  BY DEF RemoveAt
<1>1. k \in 1..Len(s) /\ Len(s) \in Nat
  BY LenProperties
<1>2. /\ SubSeq(s, 1, k-1) \in Seq(S)
      /\ Len(SubSeq(s, 1, k-1)) = k - 1
      /\ \A i \in 1..k-1 : SubSeq(s, 1, k-1)[i] = s[i]
  <2>1. 1 \in Int /\ k - 1 \in Int /\ \A i \in 1..k-1 : s[i] \in S
    BY <1>1
  <2>2. /\ SubSeq(s, 1, k-1) \in Seq(S)
        /\ Len(SubSeq(s, 1, k-1)) = IF 1 <= k-1 THEN (k-1) - 1 + 1 ELSE 0
        /\ \A i \in 1..(k-1) - 1 + 1 : SubSeq(s, 1, k-1)[i] = s[1 + i - 1]
    BY <2>1, SubSeqProperties
  <2>3. /\ (k-1) - 1 + 1 = k-1
        /\ ~(1 <= k-1) => k-1 = 0
        /\ \A i \in 1..k-1 : 1 + i - 1 = i
    BY <1>1
  <2>. QED  BY <2>2, <2>3
<1>3. /\ SubSeq(s, k+1, Len(s)) \in Seq(S)
      /\ Len(SubSeq(s, k+1, Len(s))) = Len(s) - k
      /\ \A i \in 1..Len(s)-k : SubSeq(s, k+1, Len(s))[i] = s[k+i]
  <2>1. k+1 \in Int /\ Len(s) \in Int /\ \A i \in k+1..Len(s) : s[i] \in S
    BY <1>1
  <2>2. /\ SubSeq(s, k+1, Len(s)) \in Seq(S)
        /\ Len(SubSeq(s, k+1, Len(s))) =
             IF k+1 <= Len(s) THEN Len(s) - (k+1) + 1 ELSE 0
        /\ \A i \in 1..Len(s) - (k+1) + 1 :
             SubSeq(s, k+1, Len(s))[i] = s[(k+1) + i - 1]
    BY <2>1, SubSeqProperties
  <2>3. /\ Len(s) - (k+1) + 1 = Len(s) - k
        /\ ~(k+1 <= Len(s)) => Len(s) - k = 0
        /\ \A i \in 1..Len(s)-k : (k+1) + i - 1 = k+i
    BY <1>1
  <2>. QED  BY <2>2, <2>3
<1>4. /\ t \in Seq(S) /\ Len(t) = Len(s) - 1
      /\ \A i \in 1..k-1 : t[i] = s[i]
      /\ \A i \in k..Len(s)-1 : t[i] = s[i+1]
  <2> DEFINE u == SubSeq(s, 1, k-1)
             v == SubSeq(s, k+1, Len(s))
  <2>1. /\ u \in Seq(S) /\ Len(u) = k-1 /\ \A i \in 1..k-1 : u[i] = s[i]
        /\ v \in Seq(S) /\ Len(v) = Len(s)-k
        /\ \A i \in 1..Len(s)-k : v[i] = s[k+i]
        /\ t = u \o v
    BY <1>0, <1>2, <1>3
  <2> HIDE DEF u, v
  <2>2. /\ t \in Seq(S) /\ Len(t) = Len(u) + Len(v)
        /\ \A i \in 1..Len(u) + Len(v) :
             t[i] = IF i <= Len(u) THEN u[i] ELSE v[i - Len(u)]
    <3>1. /\ u \o v \in Seq(S) /\ Len(u \o v) = Len(u) + Len(v)
          /\ \A i \in 1..Len(u) + Len(v) :
               (u \o v)[i] = IF i <= Len(u) THEN u[i] ELSE v[i - Len(u)]
      BY <2>1, ConcatProperties
    <3>. QED  BY <2>1, <3>1
  <2>3. Len(t) = Len(s) - 1
    BY <1>1, <2>1, <2>2
  <2>4. ASSUME NEW i \in 1..k-1 PROVE t[i] = s[i]
    BY <1>1, <2>1, <2>2
  <2>5. ASSUME NEW i \in k..Len(s)-1 PROVE t[i] = s[i+1]
    <3>1. /\ i \in 1..Len(u) + Len(v) /\ ~(i <= Len(u))
          /\ i - Len(u) \in 1..Len(s)-k /\ k + (i - Len(u)) = i + 1
      BY <1>1, <2>1
    <3>. QED  BY <2>1, <2>2, <3>1
  <2>. QED  BY <2>2, <2>3, <2>4, <2>5
<1>. QED  BY <1>4

(* RemoveFirst takes an entry of e out, if there is one.                   *)
LEMMA RemoveFirstIndex ==
  ASSUME NEW S, NEW s \in Seq(S), NEW e, NEW j \in 1..Len(s), s[j] = e
  PROVE  \E k \in 1..Len(s) : s[k] = e /\ RemoveFirst(s, e) = RemoveAt(s, k)
<1> DEFINE I == {i \in 1..Len(s) : s[i] = e}
           k == SelectInSeq(s, LAMBDA v : v = e)
<1>1. I \in SUBSET (1..Len(s)) /\ I # {} /\ Len(s) \in Nat
  OBVIOUS
<1>2. k = Min(I)
  BY <1>1 DEF SelectInSeq
<1>3. Min(I) \in I
  BY <1>1, MinIsElement
<1>4. k \in 1..Len(s) /\ s[k] = e
  BY <1>2, <1>3
<1>5. RemoveFirst(s, e) = RemoveAt(s, k)
  BY DEF RemoveFirst
<1>. QED  BY <1>4, <1>5

(* All other elements stay, and of a sequence without repetitions exactly  *)
(* they do.                                                                *)
LEMMA RemoveFirstRange ==
  ASSUME NEW S, NEW s \in Seq(S), NEW e
  PROVE  /\ RemoveFirst(s, e) \in Seq(S)
         /\ \A x \in Range(s) : x # e => x \in Range(RemoveFirst(s, e))
         /\ IsInjective(s) => /\ IsInjective(RemoveFirst(s, e))
                              /\ Range(RemoveFirst(s, e)) = Range(s) \ {e}
<1>0. DOMAIN s = 1..Len(s) /\ Len(s) \in Nat
  BY LenProperties
<1>1. CASE \A i \in 1..Len(s) : s[i] # e
  BY <1>0, <1>1 DEF RemoveFirst, Range
<1>2. CASE \E i \in 1..Len(s) : s[i] = e
  <2> DEFINE t == RemoveFirst(s, e)
  <2>1. PICK k \in 1..Len(s) : s[k] = e /\ t = RemoveAt(s, k)
    BY <1>2, RemoveFirstIndex
  <2>2. /\ t \in Seq(S) /\ Len(t) = Len(s) - 1
        /\ \A i \in 1..k-1 : t[i] = s[i]
        /\ \A i \in k..Len(s)-1 : t[i] = s[i+1]
    <3>1. /\ RemoveAt(s, k) \in Seq(S) /\ Len(RemoveAt(s, k)) = Len(s) - 1
          /\ \A i \in 1..k-1 : RemoveAt(s, k)[i] = s[i]
          /\ \A i \in k..Len(s)-1 : RemoveAt(s, k)[i] = s[i+1]
      BY RemoveAtEntries
    <3> HIDE DEF t
    <3>. QED  BY <2>1, <3>1
  <2> HIDE DEF t
  <2>3. DOMAIN t = 1..Len(s)-1
    BY <2>2
  <2>4. ASSUME NEW j \in 1..Len(s), j # k
        PROVE  \E i \in 1..Len(s)-1 : t[i] = s[j]
    <3>1. CASE j < k
      BY <1>0, <2>2, <3>1
    <3>2. CASE j > k
      <4>1. j - 1 \in k..Len(s)-1 /\ j - 1 \in 1..Len(s)-1 /\ (j - 1) + 1 = j
        BY <1>0, <3>2
      <4>. QED  BY <2>2, <4>1
    <3>. QED  BY <2>4, <3>1, <3>2
  <2>5. ASSUME NEW i \in 1..Len(s)-1
        PROVE  \E j \in 1..Len(s) : /\ j # k /\ t[i] = s[j]
                                    /\ j = IF i < k THEN i ELSE i + 1
    <3>1. CASE i < k
      BY <1>0, <2>2, <3>1
    <3>2. CASE ~(i < k)
      <4>1. i \in k..Len(s)-1 /\ i + 1 \in 1..Len(s) /\ i + 1 # k
        BY <1>0, <3>2
      <4>. QED  BY <2>2, <3>2, <4>1
    <3>. QED  BY <3>1, <3>2
  <2>6. \A x \in Range(s) : x # e => x \in Range(t)
    BY <1>0, <2>1, <2>3, <2>4 DEF Range
  <2>7. ASSUME IsInjective(s)
        PROVE  IsInjective(t) /\ Range(t) = Range(s) \ {e}
    <3>1. \A j \in 1..Len(s) : j # k => s[j] # e
      BY <1>0, <2>1, <2>7 DEF IsInjective
    <3>2. Range(t) \subseteq Range(s) \ {e}
      BY <1>0, <2>3, <2>5, <3>1 DEF Range
    <3>3. ASSUME NEW a \in 1..Len(s)-1, NEW b \in 1..Len(s)-1, t[a] = t[b]
          PROVE  a = b
      BY <1>0, <2>5, <2>7, <3>3 DEF IsInjective
    <3>4. IsInjective(t)
      BY <2>3, <3>3 DEF IsInjective
    <3>. QED  BY <2>6, <3>2, <3>4
  <2>. QED  BY <2>2, <2>6, <2>7 DEF t
<1>. QED  BY <1>1, <1>2
=============================================================================
