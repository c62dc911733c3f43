------------------------- MODULE HookPipelineProofs -------------------------
(***************************************************************************)
(* Theorems about Registry and HookPipeline, for any hooks or tools, names *)
(* and groups, any priorities and any answers.                             *)
(***************************************************************************)
EXTENDS BuiltinPipeline, SequenceLemmas

-----------------------------------------------------------------------------
(* The registries *)

RegistryTypes ==
  /\ DOMAIN byName \subseteq Names
  /\ \A n \in DOMAIN byName : byName[n] \in Objects
  /\ byGroup \in [Groups -> Seq(Objects)]

RegistryInv == RegistryTypes /\ RegisteredAreIndexed

LEMMA RegistryInvStep ==
  ASSUME RegistryInv, [RegistryStep]_registry
  PROVE  RegistryInv'
<1>0. \A o \in Objects : NameOf[o] \in Names /\ GroupOf[o] \in Groups
  BY DEF Names, Groups
<1>1. ASSUME NEW o \in Objects, register(o) PROVE RegistryInv'
  <2>1. /\ DOMAIN byName' = DOMAIN byName \cup {NameOf[o]}
        /\ byName'[NameOf[o]] = o
        /\ \A n \in DOMAIN byName \ {NameOf[o]} : byName'[n] = byName[n]
    BY <1>1 DEF register
  <2> DEFINE g == GroupOf[o]
  <2>2. /\ byGroup' \in [Groups -> Seq(Objects)]
        /\ byGroup'[g] = Append(byGroup[g], o)
        /\ \A h \in Groups \ {g} : byGroup'[h] = byGroup[h]
    BY <1>0, <1>1 DEF register, Index, RegistryInv, RegistryTypes
  <2>3. byGroup[g] \in Seq(Objects)
    BY <1>0 DEF RegistryInv, RegistryTypes
  <2> HIDE DEF g
  <2>4. Range(byGroup'[g]) = Range(byGroup[g]) \cup {o}
    BY <2>2, <2>3 DEF Range
  <2>5. \A h \in Groups : Range(byGroup[h]) \subseteq Range(byGroup'[h])
    BY <2>2, <2>4
  <2>6. RegistryTypes'
    BY <1>0, <2>1, <2>2 DEF RegistryInv, RegistryTypes
  <2>7. ASSUME NEW n \in DOMAIN byName'
        PROVE  /\ NameOf[byName'[n]] = n
               /\ byName'[n] \in Range(byGroup'[GroupOf[byName'[n]]])
    <3>1. CASE n = NameOf[o]
      BY <2>1, <2>4, <3>1 DEF g
    <3>2. CASE n # NameOf[o]
      BY <1>0, <2>1, <2>5, <3>2
      DEF RegistryInv, RegistryTypes, RegisteredAreIndexed
    <3>. QED  BY <3>1, <3>2
  <2>. QED  BY <2>6, <2>7 DEF RegistryInv, RegisteredAreIndexed
<1>2. ASSUME NEW o \in Objects, set_enabled(o) PROVE RegistryInv'
  BY <1>2 DEF set_enabled, RegistryInv, RegistryTypes, RegisteredAreIndexed
<1>3. ASSUME NEW m \in Names, remove(m) PROVE RegistryInv'
  <2> DEFINE o == byName[m]
             g == GroupOf[o]
  <2>1. /\ m \in DOMAIN byName
        /\ DOMAIN byName' = DOMAIN byName \ {m}
        /\ \A n \in DOMAIN byName' : byName'[n] = byName[n]
    BY <1>3 DEF remove, Restrict
  <2>2. o \in Objects /\ NameOf[o] = m /\ g \in Groups
    BY <1>0, <2>1 DEF RegistryInv, RegistryTypes, RegisteredAreIndexed
  <2>3. byGroup[g] \in Seq(Objects)
    BY <2>2 DEF RegistryInv, RegistryTypes
  <2>4. byGroup' = [byGroup EXCEPT ![g] = RemoveFirst(byGroup[g], o)]
    BY <1>3 DEF remove, Unindex
  <2> HIDE DEF o, g
  <2>5. /\ RemoveFirst(byGroup[g], o) \in Seq(Objects)
        /\ \A x \in Range(byGroup[g]) :
             x # o => x \in Range(RemoveFirst(byGroup[g], o))
    BY <2>3, RemoveFirstRange
  <2>6. /\ byGroup' \in [Groups -> Seq(Objects)]
        /\ \A h \in Groups : \A x \in Range(byGroup[h]) :
             x # o => x \in Range(byGroup'[h])
    BY <2>2, <2>4, <2>5 DEF RegistryInv, RegistryTypes
  <2>7. RegistryTypes'
    BY <2>1, <2>6 DEF RegistryInv, RegistryTypes
  <2>8. ASSUME NEW n \in DOMAIN byName'
        PROVE  /\ NameOf[byName'[n]] = n
               /\ byName'[n] \in Range(byGroup'[GroupOf[byName'[n]]])
    <3>1. /\ byName'[n] = byName[n] /\ n \in DOMAIN byName /\ n # m
          /\ byName[n] \in Objects /\ NameOf[byName[n]] = n
          /\ byName[n] \in Range(byGroup[GroupOf[byName[n]]])
      BY <2>1, <2>8 DEF RegistryInv, RegistryTypes, RegisteredAreIndexed
    <3>2. byName[n] # o
      BY <2>2, <3>1
    <3>. QED  BY <1>0, <2>6, <3>1, <3>2
  <2>. QED  BY <2>7, <2>8 DEF RegistryInv, RegisteredAreIndexed
<1>4. CASE clear
  <2>1. DOMAIN byName' = {}
    BY <1>4 DEF clear
  <2>2. byGroup' \in [Groups -> Seq(Objects)]
    BY <1>4 DEF clear
  <2>. QED  BY <2>1, <2>2 DEF RegistryInv, RegistryTypes, RegisteredAreIndexed
<1>5. CASE UNCHANGED registry
  BY <1>5 DEF registry, RegistryInv, RegistryTypes, RegisteredAreIndexed
<1>. QED  BY <1>1, <1>2, <1>3, <1>4, <1>5 DEF RegistryStep

(* However registrations, removals and switches follow each other, with    *)
(* any number of objects that share names: what is listed by name is found *)
(* in the list of its event, so the pipelines of the event ask it.         *)
THEOREM IndexIsComplete == RegistrySpec => []RegisteredAreIndexed
<1>1. Empty => RegistryInv
  BY DEF Empty, RegistryInv, RegistryTypes, RegisteredAreIndexed
<1>2. RegistryInv /\ [RegistryStep]_registry => RegistryInv'
  BY RegistryInvStep
<1>3. RegistryInv => RegisteredAreIndexed
  BY DEF RegistryInv
<1>. QED  BY <1>1, <1>2, <1>3, PTL DEF RegistrySpec

-----------------------------------------------------------------------------
(* Lists *)

StrictOrder(I, R) ==
  /\ \A i \in I : <<i, i>> \notin R
  /\ \A i, j \in I : i # j => <<i, j>> \in R \/ <<j, i>> \in R
  /\ \A i, j, k \in I : <<i, j>> \in R /\ <<j, k>> \in R => <<i, k>> \in R

Rank(I, R, i) == Cardinality({j \in I : <<j, i>> \in R})

(* The more elements come before it, the later is an element.              *)
LEMMA RankGrows ==
  ASSUME NEW I, IsFiniteSet(I), NEW R, StrictOrder(I, R)
  PROVE  /\ Cardinality(I) \in Nat
         /\ \A i \in I : Rank(I, R, i) \in 0..Cardinality(I)-1
         /\ \A i, j \in I : <<i, j>> \in R => Rank(I, R, i) < Rank(I, R, j)
<1> DEFINE Below(i) == {j \in I : <<j, i>> \in R}
<1>1. Cardinality(I) \in Nat
  BY FS_CardinalityType
<1>2. ASSUME NEW i \in I
      PROVE  IsFiniteSet(Below(i)) /\ Rank(I, R, i) = Cardinality(Below(i))
             /\ Rank(I, R, i) \in Nat
  <2>1. Below(i) \in SUBSET I
    OBVIOUS
  <2>2. IsFiniteSet(Below(i))
    BY <2>1, FS_Subset
  <2>3. Cardinality(Below(i)) \in Nat
    BY <2>2, FS_CardinalityType
  <2>. QED  BY <2>2, <2>3 DEF Rank
<1>3. ASSUME NEW i \in I PROVE Rank(I, R, i) < Cardinality(I)
  <2>1. Below(i) \in SUBSET I /\ i \in I /\ i \notin Below(i)
    BY DEF StrictOrder
  <2> HIDE DEF Below
  <2>2. /\ Cardinality(Below(i)) <= Cardinality(I)
        /\ Cardinality(I) = Cardinality(Below(i)) => I = Below(i)
    BY <2>1, FS_Subset
  <2>. QED  BY <1>1, <1>2, <2>1, <2>2
<1>4. ASSUME NEW i \in I, NEW j \in I, <<i, j>> \in R
      PROVE  Rank(I, R, i) < Rank(I, R, j)
  <2>1. Below(i) \in SUBSET Below(j) /\ i \in Below(j) /\ i \notin Below(i)
    BY <1>4 DEF StrictOrder
  <2>2. IsFiniteSet(Below(j))
    BY <1>2
  <2> HIDE DEF Below
  <2>3. /\ Cardinality(Below(i)) <= Cardinality(Below(j))
        /\ Cardinality(Below(j)) = Cardinality(Below(i)) => Below(j) = Below(i)
    BY <2>1, <2>2, FS_Subset
  <2>. QED  BY <1>2, <2>1, <2>3
<1>5. ASSUME NEW i \in I PROVE Rank(I, R, i) \in 0..Cardinality(I)-1
  <2>1. Rank(I, R, i) \in Nat /\ Rank(I, R, i) < Cardinality(I)
    BY <1>2, <1>3
  <2> HIDE DEF Below
  <2>. QED  BY <1>1, <2>1
<1>. QED  BY <1>1, <1>4, <1>5

(* Every number below the size of the set is the rank of one element.      *)
LEMMA RankIsBijective ==
  ASSUME NEW I, IsFiniteSet(I), NEW R, StrictOrder(I, R)
  PROVE  /\ \A i, j \in I : Rank(I, R, i) = Rank(I, R, j) => i = j
         /\ \A k \in 0..Cardinality(I)-1 : \E i \in I : Rank(I, R, i) = k
<1> DEFINE n == Cardinality(I)
           r == [i \in I |-> Rank(I, R, i)]
<1>1. /\ n \in Nat
      /\ \A i \in I : Rank(I, R, i) \in 0..n-1
      /\ \A i, j \in I : <<i, j>> \in R => Rank(I, R, i) < Rank(I, R, j)
  BY RankGrows
<1> HIDE DEF n
<1>2. ASSUME NEW i \in I, NEW j \in I, Rank(I, R, i) = Rank(I, R, j)
      PROVE  i = j
  <2>1. \A k \in I : Rank(I, R, k) \in Int
    BY <1>1
  <2>2. <<i, j>> \notin R /\ <<j, i>> \notin R
    BY <1>1, <1>2, <2>1
  <2>. QED  BY <2>2 DEF StrictOrder
<1>3. r \in Injection(I, 0..n-1)
  BY <1>1, <1>2 DEF Injection, IsInjective
<1>4. IsFiniteSet(0..n-1) /\ Cardinality(0..n-1) = n
  <2>1. 0 \in Int /\ n-1 \in Int /\ (n = 0 => 0 > n-1) /\ (n # 0 => ~(0 > n-1))
        /\ (n-1)-0+1 = n
    BY <1>1
  <2>. QED  BY <2>1, FS_Interval
<1>5. r \in Surjection(I, 0..n-1)
  <2> HIDE DEF r
  <2>. QED  BY <1>3, <1>4, FS_Injection DEF n
<1>6. \A k \in 0..n-1 : \E i \in I : r[i] = k
  <2> HIDE DEF r
  <2>. QED  BY <1>5 DEF Surjection
<1>. QED  BY <1>2, <1>6 DEF n

(* Arranged takes each of the positions once, in the order of R.           *)
LEMMA ArrangedList ==
  ASSUME NEW I, IsFiniteSet(I), NEW R, NEW s, StrictOrder(I, R)
  PROVE  /\ Cardinality(I) \in Nat
         /\ \E f \in [1..Cardinality(I) -> I] :
              /\ Arranged(s, I, R) = [k \in 1..Cardinality(I) |-> s[f[k]]]
              /\ \A i \in I : \E k \in 1..Cardinality(I) : f[k] = i
              /\ \A k, l \in 1..Cardinality(I) : k < l => <<f[k], f[l]>> \in R
<1> DEFINE n == Cardinality(I)
           f == [k \in 1..n |-> CHOOSE i \in I : Rank(I, R, i) = k - 1]
<1>1. Arranged(s, I, R) = [k \in 1..n |-> s[f[k]]]
  BY DEF Arranged, Rank
<1>2. /\ n \in Nat
      /\ \A i \in I : Rank(I, R, i) \in 0..n-1
      /\ \A i, j \in I : <<i, j>> \in R => Rank(I, R, i) < Rank(I, R, j)
      /\ \A i, j \in I : Rank(I, R, i) = Rank(I, R, j) => i = j
      /\ \A k \in 0..n-1 : \E i \in I : Rank(I, R, i) = k
  BY RankGrows, RankIsBijective
<1> HIDE DEF n
<1>3. ASSUME NEW k \in 1..n PROVE f[k] \in I /\ Rank(I, R, f[k]) = k - 1
  <2>1. \E i \in I : Rank(I, R, i) = k - 1
    BY <1>2
  <2>2. f[k] = CHOOSE i \in I : Rank(I, R, i) = k - 1
    OBVIOUS
  <2> HIDE DEF f
  <2>. QED  BY <2>1, <2>2, Zenon
<1>4. f \in [1..n -> I]
  <2>1. f = [k \in 1..n |-> f[k]]
    OBVIOUS
  <2> HIDE DEF f
  <2>. QED  BY <1>3, <2>1
<1> HIDE DEF f
<1>5. \A i \in I : \E k \in 1..n : f[k] = i
  <2> SUFFICES ASSUME NEW i \in I PROVE \E k \in 1..n : f[k] = i
    OBVIOUS
  <2>1. PICK k : k = Rank(I, R, i) + 1  OBVIOUS
  <2>2. k \in 1..n /\ k - 1 = Rank(I, R, i)
    BY <1>2, <2>1
  <2>. QED  BY <1>2, <1>3, <2>2
<1>6. ASSUME NEW k \in 1..n, NEW l \in 1..n, k < l PROVE <<f[k], f[l]>> \in R
  <2>1. /\ f[k] \in I /\ f[l] \in I /\ f[k] # f[l]
        /\ ~(Rank(I, R, f[l]) < Rank(I, R, f[k]))
    BY <1>3, <1>6
  <2>. QED  BY <1>2, <2>1 DEF StrictOrder
<1>. QED  BY <1>1, <1>2, <1>4, <1>5, <1>6 DEF n

(* The selected entries are those at the positions in I.                   *)
LEMMA SelectedList ==
  ASSUME NEW S, NEW s \in Seq(S), NEW I \in SUBSET DOMAIN s
  PROVE  /\ Selected(s, I) \in Seq(S)
         /\ Range(Selected(s, I)) = {s[i] : i \in I}
<1> DEFINE R == {p \in I \X I : p[1] < p[2]}
           n == Cardinality(I)
<1>1. DOMAIN s = 1..Len(s) /\ Len(s) \in Nat /\ \A i \in I : i \in Nat /\ s[i] \in S
  OBVIOUS
<1>2. IsFiniteSet(I)
  <2>1. IsFiniteSet(1..Len(s)) /\ I \in SUBSET (1..Len(s))
    BY <1>1, FS_Interval
  <2>. QED  BY <2>1, FS_Subset
<1>3. \A i, j \in I : <<i, j>> \in R <=> i < j
  OBVIOUS
<1>4. Selected(s, I) = Arranged(s, I, R)
  BY DEF Selected
<1> HIDE DEF R
<1>5. StrictOrder(I, R)
  BY <1>1, <1>3 DEF StrictOrder
<1>6. n \in Nat
  BY <1>2, FS_CardinalityType
<1>7. PICK f \in [1..n -> I] :
        /\ Arranged(s, I, R) = [k \in 1..n |-> s[f[k]]]
        /\ \A i \in I : \E k \in 1..n : f[k] = i
        /\ \A k, l \in 1..n : k < l => <<f[k], f[l]>> \in R
  BY <1>2, <1>5, ArrangedList
<1> HIDE DEF n
<1>8. \A k \in 1..n : s[f[k]] \in S
  BY <1>1, <1>7
<1>9. [k \in 1..n |-> s[f[k]]] \in Seq(S)
  BY <1>6, <1>8
<1>10. Range([k \in 1..n |-> s[f[k]]]) = {s[i] : i \in I}
  BY <1>7 DEF Range
<1>. QED  BY <1>4, <1>7, <1>9, <1>10

(* Sorting keeps the hooks and orders them by priority.                    *)
LEMMA SortedList ==
  ASSUME NEW s \in Seq(Objects)
  PROVE  /\ Sorted(s) \in Seq(Objects)
         /\ Range(Sorted(s)) = Range(s)
         /\ \A k, l \in DOMAIN Sorted(s) :
              k < l => Priority[Sorted(s)[k]] <= Priority[Sorted(s)[l]]
<1> DEFINE I == DOMAIN s
           Before(i, j) == \/ Priority[s[i]] < Priority[s[j]]
                           \/ Priority[s[i]] = Priority[s[j]] /\ i < j
           R == {p \in I \X I : Before(p[1], p[2])}
           n == Cardinality(I)
<1>1. I = 1..Len(s) /\ Len(s) \in Nat /\ \A i \in I : i \in Nat /\ s[i] \in Objects
  OBVIOUS
<1>2. \A i \in I : Priority[s[i]] \in Int
  BY <1>1, PipelineAssumption
<1>3. IsFiniteSet(I)
  <2>1. IsFiniteSet(1..Len(s))
    BY <1>1, FS_Interval
  <2>. QED  BY <1>1, <2>1
<1>4. \A i, j \in I : <<i, j>> \in R <=> Before(i, j)
  OBVIOUS
<1>5. Sorted(s) = Arranged(s, I, R)
  BY DEF Sorted
<1> HIDE DEF R
<1>6. StrictOrder(I, R)
  <2> SUFFICES ASSUME NEW i \in I, NEW j \in I, NEW k \in I
               PROVE  /\ ~Before(i, i)
                      /\ i # j => Before(i, j) \/ Before(j, i)
                      /\ Before(i, j) /\ Before(j, k) => Before(i, k)
    <3> HIDE DEF Before
    <3>. QED  BY <1>4 DEF StrictOrder
  <2> DEFINE a == Priority[s[i]]
             b == Priority[s[j]]
             c == Priority[s[k]]
  <2>1. a \in Int /\ b \in Int /\ c \in Int /\ i \in Nat /\ j \in Nat /\ k \in Nat
    BY <1>1, <1>2
  <2>2. /\ Before(i, i) <=> a < a \/ (a = a /\ i < i)
        /\ Before(i, j) <=> a < b \/ (a = b /\ i < j)
        /\ Before(j, i) <=> b < a \/ (b = a /\ j < i)
        /\ Before(j, k) <=> b < c \/ (b = c /\ j < k)
        /\ Before(i, k) <=> a < c \/ (a = c /\ i < k)
    OBVIOUS
  <2> HIDE DEF a, b, c, Before
  <2>. QED  BY <2>1, <2>2
<1> HIDE DEF I
<1>7. n \in Nat
  BY <1>3, FS_CardinalityType
<1>8. PICK f \in [1..n -> I] :
        /\ Arranged(s, I, R) = [k \in 1..n |-> s[f[k]]]
        /\ \A i \in I : \E k \in 1..n : f[k] = i
        /\ \A k, l \in 1..n : k < l => <<f[k], f[l]>> \in R
  BY <1>3, <1>6, ArrangedList
<1> HIDE DEF n
<1>9. PICK t : t = Sorted(s)  OBVIOUS
<1>10. t = [k \in 1..n |-> s[f[k]]]
  BY <1>5, <1>8, <1>9
<1>11. t \in Seq(Objects) /\ DOMAIN t = 1..n
  BY <1>1, <1>7, <1>8, <1>10
<1>12. Range(t) = Range(s)
  BY <1>8, <1>10 DEF Range, I
<1>13. ASSUME NEW k \in 1..n, NEW l \in 1..n, k < l
       PROVE  Priority[t[k]] <= Priority[t[l]]
  <2>1. f[k] \in I /\ f[l] \in I /\ Before(f[k], f[l])
    <3> HIDE DEF Before
    <3>. QED  BY <1>4, <1>8, <1>13
  <2>2. t[k] = s[f[k]] /\ t[l] = s[f[l]]
    BY <1>10
  <2>. QED  BY <1>2, <2>1, <2>2
<1>. QED  BY <1>9, <1>11, <1>12, <1>13

-----------------------------------------------------------------------------
(* The pipeline *)

(* The registry is well formed, whichever operation comes next.            *)
LEMMA RegistryTypeStep ==
  ASSUME RegistryInv, RegistryTypeOK, [RegistryStep]_registry
  PROVE  RegistryTypeOK'
<1>0. /\ byGroup' \in [Groups -> Seq(Objects)] /\ enabled \subseteq Objects
      /\ DOMAIN byName' \subseteq Names
      /\ \A n \in DOMAIN byName' : byName'[n] \in Objects
  BY RegistryInvStep DEF RegistryInv, RegistryTypes, RegistryTypeOK
<1>1. enabled' \subseteq Objects
  BY <1>0 DEF RegistryStep, register, set_enabled, remove, clear, registry
<1>2. byName' = [n \in DOMAIN byName' |-> byName'[n]]
  <2>1. byName = [n \in DOMAIN byName |-> byName[n]]
    BY DEF RegistryTypeOK
  <2>2. ASSUME NEW o \in Objects, register(o)
        PROVE  byName' = [n \in DOMAIN byName' |-> byName'[n]]
    BY <2>2 DEF register
  <2>3. ASSUME NEW m \in Names, remove(m)
        PROVE  byName' = [n \in DOMAIN byName' |-> byName'[n]]
    BY <2>3 DEF remove, Restrict
  <2>4. CASE clear
    BY <2>4 DEF clear
  <2>5. CASE byName' = byName
    BY <2>1, <2>5
  <2>. QED  BY <2>2, <2>3, <2>4, <2>5 DEF RegistryStep, set_enabled, registry
<1>3. byName' \in [DOMAIN byName' -> Objects]
  BY <1>0, <1>2
<1>. QED  BY <1>0, <1>1, <1>3 DEF RegistryTypeOK

(* The hooks that are enabled for an event are among those that are asked. *)
LEMMA EnabledAreFound ==
  ASSUME RegistryInv, NEW g \in Groups
  PROVE  /\ get_for_event(g) \in Seq(Objects)
         /\ {h \in list_enabled : GroupOf[h] = g} \subseteq Range(get_for_event(g))
<1> DEFINE s == byGroup[g]
           I == {i \in DOMAIN s : s[i] \in enabled}
<1>1. s \in Seq(Objects) /\ I \in SUBSET DOMAIN s /\ get_for_event(g) = Selected(s, I)
  BY DEF RegistryInv, RegistryTypes, get_for_event
<1>2. ASSUME NEW h \in list_enabled, GroupOf[h] = g
      PROVE  \E i \in I : s[i] = h
  <2>1. PICK n \in DOMAIN byName : h = byName[n]
    BY <1>2 DEF list_enabled, Registered, Range
  <2>2. h \in Range(s) /\ h \in enabled
    BY <1>2, <2>1 DEF RegistryInv, RegisteredAreIndexed, list_enabled
  <2>. QED  BY <2>2 DEF Range
<1> HIDE DEF I, s
<1>3. Selected(s, I) \in Seq(Objects) /\ Range(Selected(s, I)) = {s[i] : i \in I}
  BY <1>1, SelectedList
<1>. QED  BY <1>1, <1>2, <1>3

InOrder ==
  \A i, j \in DOMAIN hooks : i < j => Priority[hooks[i]] <= Priority[hooks[j]]

(* A call that asks has a hook left to ask; one that returned without a    *)
(* terminal answer has none.                                               *)
PipeInv ==
  /\ pc \in {"idle", "asking", "returned"}
  /\ hooks \in Seq(Objects)
  /\ heard \in Seq(Range(heard))
  /\ action \in AnswerAction \ {"RAISE"}
  /\ \A i \in DOMAIN heard : heard[i].action \in AnswerAction
  /\ due \subseteq Objects
  /\ changes \in 0..MaxChanges
  /\ pc = "idle" => heard = <<>> /\ mods = NoMods
  /\ pc = "asking" => Len(heard) < Len(hooks)
  /\ pc = "returned" /\ action \notin Terminal => Len(heard) = Len(hooks)
  /\ Len(heard) <= Len(hooks)
  /\ pc # "idle" => due \subseteq Range(hooks) /\ InOrder

LEMMA HeardMore ==
  ASSUME heard \in Seq(Range(heard)), NEW a, heard' = Append(heard, a)
  PROVE  /\ Len(heard) \in Nat /\ Len(heard') = Len(heard) + 1
         /\ DOMAIN heard = 1..Len(heard) /\ DOMAIN heard' = 1..Len(heard)+1
         /\ \A i \in 1..Len(heard) : heard'[i] = heard[i]
         /\ heard'[Len(heard)+1] = a
         /\ heard' \in Seq(Range(heard'))
<1> DEFINE T == Range(heard) \cup {a}
<1>1. /\ heard \in Seq(T) /\ a \in T
  <2>1. Range(heard) \subseteq T /\ a \in T
    OBVIOUS
  <2> HIDE DEF T
  <2>. QED  BY <2>1
<1> HIDE DEF T
<1>2. /\ Len(heard) \in Nat /\ Len(heard') = Len(heard) + 1
      /\ DOMAIN heard = 1..Len(heard) /\ DOMAIN heard' = 1..Len(heard)+1
      /\ \A i \in 1..Len(heard) : heard'[i] = heard[i]
      /\ heard'[Len(heard)+1] = a
      /\ heard' \in Seq(T)
  BY <1>1
<1>3. \A i \in 1..Len(heard') : heard'[i] \in Range(heard')
  BY <1>2 DEF Range
<1>4. heard' \in Seq(Range(heard'))
  BY <1>2, <1>3
<1>. QED  BY <1>2, <1>4

LEMMA PipeStep ==
  ASSUME PipeInv, RegistryInv, [Next]_vars
  PROVE  PipeInv'
<1>0. \A o \in Objects : GroupOf[o] \in Groups
  BY DEF Groups
<1>1. CASE start /\ UNCHANGED <<registry, changes>>
  <2>1. /\ pc = "idle" /\ heard = <<>> /\ mods = NoMods
        /\ UNCHANGED <<mods, action, heard, changes>>
    BY <1>1 DEF start, PipeInv
  <2>2. PICK e : e = call'.event  OBVIOUS
  <2>3. /\ hooks' = IF e \in Groups THEN Sorted(get_for_event(e)) ELSE <<>>
        /\ due' = {h \in list_enabled : GroupOf[h] = e}
        /\ pc' = IF hooks' = <<>> THEN "returned" ELSE "asking"
    BY <1>1, <2>2 DEF start
  <2>4. due' \subseteq Objects
    BY <2>3 DEF list_enabled, Registered, Range, RegistryInv, RegistryTypes
  <2>5. /\ hooks' \in Seq(Objects) /\ due' \subseteq Range(hooks') /\ InOrder'
    <3>1. CASE e \in Groups
      <4>1. PICK s : s = get_for_event(e)  OBVIOUS
      <4>2. s \in Seq(Objects) /\ due' \subseteq Range(s)
        BY <2>3, <3>1, <4>1, EnabledAreFound
      <4>3. hooks' = Sorted(s)
        BY <2>3, <3>1, <4>1
      <4>. QED  BY <4>2, <4>3, SortedList DEF InOrder
    <3>2. CASE e \notin Groups
      <4>1. hooks' = <<>> /\ due' = {}
        BY <1>0, <2>3, <2>4, <3>2
      <4>. QED  BY <4>1 DEF InOrder
    <3>. QED  BY <3>1, <3>2
  <2>6. Len(heard') = 0 /\ (hooks' # <<>> => Len(hooks') > 0) /\ Len(hooks') \in Nat
        /\ (hooks' = <<>> => Len(hooks') = 0)
    BY <2>1, <2>5
  <2>7. pc' \in {"asking", "returned"} /\ (pc' = "asking" <=> hooks' # <<>>)
    BY <2>3
  <2>. QED  BY <2>1, <2>4, <2>5, <2>6, <2>7 DEF PipeInv
<1>2. CASE ask /\ UNCHANGED <<registry, changes>>
  <2>1. PICK a : /\ heard' = Append(heard, a)
                 /\ Terminate(a) \/ Modify(a) \/ Fail(a) \/ Retry(a) \/ PassOver(a)
    BY <1>2 DEF ask
  <2>2. /\ pc = "asking" /\ UNCHANGED <<hooks, due, changes>>
        /\ Len(heard) < Len(hooks) /\ Len(hooks) \in Nat
        /\ due \subseteq Range(hooks) /\ InOrder
    BY <1>2 DEF ask, PipeInv
  <2>3. /\ Len(heard) \in Nat /\ Len(heard') = Len(heard) + 1
        /\ DOMAIN heard = 1..Len(heard) /\ DOMAIN heard' = 1..Len(heard)+1
        /\ \A i \in 1..Len(heard) : heard'[i] = heard[i]
        /\ heard'[Len(heard)+1] = a
        /\ heard' \in Seq(Range(heard'))
    BY <2>1, HeardMore DEF PipeInv
  <2>4. /\ a.action \in AnswerAction
        /\ action' \in AnswerAction \ {"RAISE"}
        /\ \/ action' \in Terminal /\ pc' = "returned"
           \/ pc' = IF Len(heard') = Len(hooks) THEN "returned" ELSE "asking"
    BY <2>1
    DEF Terminate, Modify, Fail, Retry, PassOver, Proceed, AnswerAction,
        Terminal, PipeInv
  <2>5. \A i \in DOMAIN heard' : heard'[i].action \in AnswerAction
    BY <2>3, <2>4 DEF PipeInv
  <2>6. Len(heard') <= Len(hooks) /\ (Len(heard') # Len(hooks) => Len(heard') < Len(hooks))
    BY <2>2, <2>3
  <2>7. pc' \in {"asking", "returned"}
    BY <2>4
  <2>8. InOrder'
    BY <2>2 DEF InOrder
  <2>. QED  BY <2>2, <2>3, <2>4, <2>5, <2>6, <2>7, <2>8 DEF PipeInv
<1>3. CASE change /\ UNCHANGED pipeline
  BY <1>3, PipelineAssumption DEF change, pipeline, PipeInv, InOrder
<1>4. CASE UNCHANGED vars
  BY <1>4 DEF vars, pipeline, PipeInv, InOrder
<1>. QED  BY <1>1, <1>2, <1>3, <1>4 DEF Next

LEMMA PipeInit == Init => PipeInv /\ RegistryInv /\ RegistryTypeOK
<1> SUFFICES ASSUME Init PROVE PipeInv /\ RegistryInv /\ RegistryTypeOK
  OBVIOUS
<1>1. PipeInv
  <2>1. /\ pc = "idle" /\ hooks = <<>> /\ mods = NoMods /\ heard = <<>>
        /\ action = "CONTINUE" /\ due = {} /\ changes = 0
    BY DEF Init
  <2>2. changes \in 0..MaxChanges
    BY <2>1, PipelineAssumption
  <2>3. heard \in Seq(Range(heard))
    BY <2>1
  <2>. QED  BY <2>1, <2>2, <2>3 DEF PipeInv, AnswerAction, Terminal
<1> DEFINE B == Range(InitialHooks)
           At(g) == {i \in DOMAIN InitialHooks : GroupOf[InitialHooks[i]] = g}
<1>2. B \subseteq Objects /\ InitialHooks \in Seq(Objects)
  BY PipelineAssumption DEF Range
<1>3. /\ DOMAIN byName = {NameOf[h] : h \in B}
      /\ byName = [n \in DOMAIN byName |-> byName[n]]
      /\ \A n \in DOMAIN byName : byName[n] = CHOOSE h \in B : NameOf[h] = n
  <2> DEFINE C(n) == CHOOSE h \in B : NameOf[h] = n
  <2>1. byName = [n \in {NameOf[h] : h \in B} |-> C(n)]
    BY DEF Init
  <2> HIDE DEF C, B
  <2>2. /\ DOMAIN byName = {NameOf[h] : h \in B}
        /\ byName = [n \in DOMAIN byName |-> byName[n]]
        /\ \A n \in DOMAIN byName : byName[n] = C(n)
    BY <2>1
  <2>. QED  BY <2>2 DEF C
<1>4. ASSUME NEW n \in DOMAIN byName
      PROVE  byName[n] \in B /\ NameOf[byName[n]] = n
  <2>1. \E h \in B : NameOf[h] = n
    BY <1>3
  <2>2. byName[n] = CHOOSE h \in B : NameOf[h] = n
    BY <1>3, <1>4
  <2> HIDE DEF B
  <2>. QED  BY <2>1, <2>2, Zenon
<1>5. ASSUME NEW g \in Groups
      PROVE  /\ byGroup[g] \in Seq(Objects)
             /\ \A h \in B : GroupOf[h] = g => h \in Range(byGroup[g])
  <2>1. byGroup[g] = Selected(InitialHooks, At(g))
    BY DEF Init
  <2>2. At(g) \in SUBSET DOMAIN InitialHooks
    OBVIOUS
  <2>3. \A h \in B : GroupOf[h] = g => h \in {InitialHooks[i] : i \in At(g)}
    BY DEF Range
  <2> HIDE DEF At, B
  <2>4. /\ Selected(InitialHooks, At(g)) \in Seq(Objects)
        /\ Range(Selected(InitialHooks, At(g))) = {InitialHooks[i] : i \in At(g)}
    BY <1>2, <2>2, SelectedList
  <2>. QED  BY <2>1, <2>3, <2>4
<1>6. byGroup \in [Groups -> Seq(Objects)]
  <2>1. byGroup = [g \in Groups |-> byGroup[g]]
    BY DEF Init
  <2>. QED  BY <1>5, <2>1
<1>7. DOMAIN byName \subseteq Names
  BY <1>2, <1>3 DEF Names
<1> HIDE DEF B, At
<1>8. RegistryInv
  <2>1. \A n \in DOMAIN byName : GroupOf[byName[n]] \in Groups
    BY <1>2, <1>4 DEF Groups
  <2>. QED
    BY <1>2, <1>4, <1>5, <1>6, <1>7, <2>1
    DEF RegistryInv, RegistryTypes, RegisteredAreIndexed
<1>9. RegistryTypeOK
  <2>1. byName \in [DOMAIN byName -> Objects]
    BY <1>2, <1>3, <1>4
  <2>2. enabled = Objects
    BY DEF Init
  <2>. QED  BY <1>6, <1>7, <2>1, <2>2 DEF RegistryTypeOK
<1>. QED  BY <1>1, <1>8, <1>9

HookInv == PipeInv /\ RegistryInv /\ RegistryTypeOK

LEMMA RegistryStepOrStutter == [Next]_vars => [RegistryStep]_registry
BY DEF Next, change, vars, registry

LEMMA HookStep == HookInv /\ [Next]_vars => HookInv'
BY RegistryStepOrStutter, PipeStep, RegistryInvStep, RegistryTypeStep DEF HookInv

(* The registry and the call keep their types, for any hooks, any answers  *)
(* and any number of changes.                                              *)
THEOREM TypeCorrect == Spec => []TypeOK
<1>1. Init => HookInv
  BY PipeInit DEF HookInv
<1>2. HookInv => TypeOK
  BY DEF HookInv, PipeInv, TypeOK
<1>. QED  BY <1>1, <1>2, HookStep, PTL DEF Spec

(* The registry stays complete while pipelines run on it.                  *)
THEOREM IndexStaysComplete == Spec => []RegisteredAreIndexed
<1>1. Init => HookInv
  BY PipeInit DEF HookInv
<1>2. HookInv => RegisteredAreIndexed
  BY DEF HookInv, RegistryInv
<1>. QED  BY <1>1, <1>2, HookStep, PTL DEF Spec

(* Whatever is registered, removed and switched before the call and while  *)
(* it waits for a hook: without a terminal answer, every hook that was     *)
(* enabled for the event at the start is asked, in the order of the        *)
(* priorities.                                                             *)
THEOREM EnabledAreAsked == Spec => []EnabledHooksAreAsked
<1>1. Init => HookInv
  BY PipeInit DEF HookInv
<1>2. HookInv => EnabledHooksAreAsked
  BY DEF HookInv, PipeInv, EnabledHooksAreAsked, InOrder
<1>. QED  BY <1>1, <1>2, HookStep, PTL DEF Spec

-----------------------------------------------------------------------------
(* The modifications *)

Later(i, k) == {j \in Writers : j > i /\ k \in DOMAIN heard[j].mods}

(* What the i-th answer wrote under k is in the result.                    *)
Stays(i, k) ==
  LET v == heard[i].mods[k]
  IN IF ~IsDict(v) THEN Later(i, k) = {} => mods[k] = v
     ELSE \A s \in DOMAIN v[2] :
            (\A j \in Later(i, k) : /\ IsDict(heard[j].mods[k])
                                    /\ s \notin DOMAIN heard[j].mods[k][2])
              => /\ IsDict(mods[k]) /\ s \in DOMAIN mods[k][2]
                 /\ mods[k][2][s] = v[2][s]

NoneRaised == \A i \in DOMAIN heard : heard[i].action # "RAISE"

Merged ==
  /\ DOMAIN mods = UNION {DOMAIN heard[i].mods : i \in Writers}
  /\ \A i \in Writers : \A k \in DOMAIN heard[i].mods : Stays(i, k)

LEMMA LastWriterWinsIs == LastWriterWins <=> (NoneRaised => Merged)
BY DEF LastWriterWins, NoneRaised, Merged, Stays, Later

LEMMA MergedStep ==
  ASSUME PipeInv, NoneRaised => Merged, ask, NoneRaised'
  PROVE  Merged'
<1> DEFINE n == Len(heard)
<1>1. PICK a : /\ heard' = Append(heard, a)
               /\ Terminate(a) \/ Modify(a) \/ Fail(a) \/ Retry(a) \/ PassOver(a)
  BY DEF ask
<1>2. /\ n \in Nat /\ DOMAIN heard = 1..n /\ DOMAIN heard' = 1..n+1
      /\ \A i \in 1..n : heard'[i] = heard[i]
      /\ heard'[n+1] = a
  BY <1>1, HeardMore DEF PipeInv
<1>3. PICK m : m = n + 1  OBVIOUS
<1>4. PICK W : W = Writers  OBVIOUS
<1>5. /\ m \notin W
      /\ \A i \in W : i < m /\ heard'[i] = heard[i] /\ ~(i > m) /\ i # m
      /\ heard'[m] = a /\ ~(m > m)
      /\ Writers' = IF a.action = "MODIFY" THEN W \cup {m} ELSE W
  BY <1>2, <1>3, <1>4 DEF Writers
<1>6. a.action # "RAISE"
  BY <1>2 DEF NoneRaised
<1>7. Merged
  BY <1>2 DEF NoneRaised
<1> HIDE DEF n
<1>8. ASSUME NEW i \in W, NEW k
      PROVE  /\ Later(i, k) = {j \in W : j > i /\ k \in DOMAIN heard[j].mods}
             /\ Later(i, k) \subseteq W
             /\ Later(i, k)' = IF a.action = "MODIFY" /\ k \in DOMAIN a.mods
                               THEN Later(i, k) \cup {m} ELSE Later(i, k)
  <2>1. /\ Later(i, k) = {j \in W : j > i /\ k \in DOMAIN heard[j].mods}
        /\ Later(i, k)' = {j \in Writers' : j > i /\ k \in DOMAIN heard'[j].mods}
    BY <1>4 DEF Later
  <2>2. m > i
    BY <1>2, <1>3, <1>4 DEF Writers
  <2>. QED  BY <1>5, <2>1, <2>2
<1>9. ASSUME mods' = mods, a.action # "MODIFY" \/ DOMAIN a.mods = {}
      PROVE  Merged'
  <2>1. ASSUME NEW i \in W, NEW k \in DOMAIN heard[i].mods PROVE Stays(i, k)'
    <3>1. PICK L : L = Later(i, k)  OBVIOUS
    <3>2. Later(i, k)' = L /\ L \subseteq W
      BY <1>8, <1>9, <3>1
    <3>3. Stays(i, k)
      BY <1>4, <1>7, <2>1 DEF Merged
    <3>. QED  BY <1>5, <1>9, <3>1, <3>2, <3>3 DEF Stays
  <2>2. DOMAIN mods' = UNION {DOMAIN heard'[i].mods : i \in Writers'}
    <3>1. DOMAIN mods = UNION {DOMAIN heard[i].mods : i \in W}
      BY <1>4, <1>7 DEF Merged
    <3>. QED  BY <1>5, <1>9, <3>1
  <2>3. \A i \in Writers' : \A k \in DOMAIN heard'[i].mods :
          i \in W /\ k \in DOMAIN heard[i].mods
    BY <1>5, <1>9
  <2>. QED  BY <2>1, <2>2, <2>3 DEF Merged
<1>10. ASSUME Modify(a) PROVE Merged'
  <2>1. a.action = "MODIFY" /\ mods' = deep_merge(mods, a.mods)
    BY <1>10 DEF Modify
  <2>2. DOMAIN mods' = DOMAIN mods \cup DOMAIN a.mods
    BY <2>1 DEF deep_merge
  <2>3. \A k \in DOMAIN mods' : mods'[k] = MergeKey(mods, a.mods, k)
    BY <2>1 DEF deep_merge
  <2>4. \A d : IsDict(Dict(d)) /\ Dict(d)[2] = d
    BY DEF IsDict, Dict
  <2>5. DOMAIN mods' = UNION {DOMAIN heard'[i].mods : i \in Writers'}
    <3>1. DOMAIN mods = UNION {DOMAIN heard[i].mods : i \in W}
      BY <1>4, <1>7 DEF Merged
    <3>. QED  BY <1>5, <2>1, <2>2, <3>1
  <2>6. ASSUME NEW k \in DOMAIN a.mods PROVE Stays(m, k)'
    <3>1. mods'[k] = MergeKey(mods, a.mods, k)
      BY <2>2, <2>3
    <3>2. CASE IsDict(a.mods[k]) /\ k \in DOMAIN mods /\ IsDict(mods[k])
      <4>1. mods'[k] = Dict(shallow_merge(mods[k][2], a.mods[k][2]))
        BY <2>6, <3>1, <3>2 DEF MergeKey
      <4>2. PICK d : d = shallow_merge(mods[k][2], a.mods[k][2])  OBVIOUS
      <4>3. \A s \in DOMAIN a.mods[k][2] :
              s \in DOMAIN d /\ d[s] = a.mods[k][2][s]
        BY <4>2 DEF shallow_merge
      <4>4. IsDict(mods'[k]) /\ mods'[k][2] = d
        BY <2>4, <4>1, <4>2
      <4>. QED  BY <1>5, <3>2, <4>3, <4>4 DEF Stays
    <3>3. CASE ~(IsDict(a.mods[k]) /\ k \in DOMAIN mods /\ IsDict(mods[k]))
      <4>1. mods'[k] = a.mods[k]
        BY <2>6, <3>1, <3>3 DEF MergeKey
      <4>. QED  BY <1>5, <4>1 DEF Stays
    <3>. QED  BY <3>2, <3>3
  <2>7. ASSUME NEW i \in W, NEW k \in DOMAIN heard[i].mods PROVE Stays(i, k)'
    <3>1. PICK L : L = Later(i, k)  OBVIOUS
    <3>2. /\ L \subseteq W
          /\ Later(i, k)' = IF k \in DOMAIN a.mods THEN L \cup {m} ELSE L
      BY <1>8, <2>1, <3>1
    <3>3. Stays(i, k)
      BY <1>4, <1>7, <2>7 DEF Merged
    <3>4. k \in DOMAIN mods /\ k \in DOMAIN mods'
      BY <1>4, <1>7, <2>2, <2>7 DEF Merged
    <3>5. mods'[k] = MergeKey(mods, a.mods, k)
      BY <2>3, <3>4
    <3>6. CASE k \notin DOMAIN a.mods
      <4>1. mods'[k] = mods[k]
        BY <3>5, <3>6 DEF MergeKey
      <4>. QED  BY <1>5, <3>1, <3>2, <3>3, <3>6, <4>1 DEF Stays
    <3>7. CASE k \in DOMAIN a.mods
      <4>1. /\ Later(i, k)' = L \cup {m}
            /\ heard'[m] = a /\ heard'[i] = heard[i]
            /\ \A j \in L : heard'[j] = heard[j]
        BY <1>5, <3>2, <3>7
      <4>2. CASE ~IsDict(heard[i].mods[k])
        BY <4>1, <4>2 DEF Stays
      <4>3. CASE IsDict(heard[i].mods[k])
        <5>1. SUFFICES ASSUME NEW s \in DOMAIN heard[i].mods[k][2],
                              \A j \in L \cup {m} :
                                /\ IsDict(heard'[j].mods[k])
                                /\ s \notin DOMAIN heard'[j].mods[k][2]
                       PROVE  /\ IsDict(mods'[k]) /\ s \in DOMAIN mods'[k][2]
                              /\ mods'[k][2][s] = heard[i].mods[k][2][s]
          BY <4>1, <4>3 DEF Stays
        <5>2. IsDict(a.mods[k]) /\ s \notin DOMAIN a.mods[k][2]
          BY <4>1, <5>1
        <5>3. /\ IsDict(mods[k]) /\ s \in DOMAIN mods[k][2]
              /\ mods[k][2][s] = heard[i].mods[k][2][s]
          BY <3>1, <3>3, <4>1, <4>3, <5>1 DEF Stays
        <5>4. mods'[k] = Dict(shallow_merge(mods[k][2], a.mods[k][2]))
          BY <3>4, <3>5, <3>7, <5>2, <5>3 DEF MergeKey
        <5>5. PICK d : d = shallow_merge(mods[k][2], a.mods[k][2])  OBVIOUS
        <5>6. s \in DOMAIN d /\ d[s] = mods[k][2][s]
          BY <5>2, <5>3, <5>5 DEF shallow_merge
        <5>7. IsDict(mods'[k]) /\ mods'[k][2] = d
          BY <2>4, <5>4, <5>5
        <5>. QED  BY <5>3, <5>6, <5>7
      <4>. QED  BY <4>2, <4>3
    <3>. QED  BY <3>6, <3>7
  <2>8. \A i \in Writers' : \A k \in DOMAIN heard'[i].mods :
          \/ i = m /\ k \in DOMAIN a.mods
          \/ i \in W /\ k \in DOMAIN heard[i].mods
    BY <1>5, <2>1
  <2>. QED  BY <2>5, <2>6, <2>7, <2>8 DEF Merged
<1>11. CASE Modify(a)
  BY <1>10, <1>11
<1>12. CASE ~Modify(a)
  <2>1. DOMAIN NoMods = {}
    BY DEF NoMods
  <2>2. mods' = mods /\ (a.action # "MODIFY" \/ DOMAIN a.mods = {})
    BY <1>1, <1>6, <1>12, <2>1 DEF Terminate, Fail, Retry, PassOver, Terminal
  <2>. QED  BY <1>9, <2>2
<1>. QED  BY <1>11, <1>12

(* For dictionaries of any keys and values, any number of hooks and any    *)
(* answers: unless a hook raised, what a hook wrote stays until a later    *)
(* one writes it, in inner dictionaries key by key, and nothing else is    *)
(* in the result.                                                          *)
THEOREM LaterHookWins == Spec => []LastWriterWins
<1>1. Init => HookInv /\ LastWriterWins
  <2>1. SUFFICES ASSUME Init PROVE LastWriterWins
    BY PipeInit DEF HookInv
  <2>2. heard = <<>> /\ mods = <<>>
    BY <2>1 DEF Init, NoMods
  <2>3. Writers = {} /\ DOMAIN mods = {}
    BY <2>2 DEF Writers
  <2>. QED  BY <2>3, LastWriterWinsIs DEF Merged
<1>2. HookInv /\ LastWriterWins /\ [Next]_vars => (HookInv /\ LastWriterWins)'
  <2>1. SUFFICES ASSUME HookInv, LastWriterWins, [Next]_vars
                 PROVE  LastWriterWins'
    BY HookStep
  <2>2. CASE ask
    <3>1. NoneRaised' => Merged'
      BY <2>1, <2>2, LastWriterWinsIs, MergedStep DEF HookInv
    <3>. QED
      BY <3>1 DEF LastWriterWins, NoneRaised, Merged, Stays, Later
  <2>3. CASE UNCHANGED <<heard, mods>>
    BY <2>1, <2>3 DEF LastWriterWins, Writers
  <2>. QED  BY <2>1, <2>2, <2>3 DEF Next, start, vars, pipeline
<1>. QED  BY <1>1, <1>2, PTL DEF Spec

-----------------------------------------------------------------------------
(* The verdict *)

Ending == Terminal \cup {"RAISE"}

(* The answers that set the action of the result.                          *)
Deciding ==
  {i \in DOMAIN heard :
     \/ heard[i].action \in Ending \cup {"RETRY"}
     \/ heard[i].action = "MODIFY" /\ heard[i].mods # NoMods}

(* A terminal answer and an exception end the call at once, so that no     *)
(* later hook overrides them; otherwise the last hook that asks for a      *)
(* retry or modifies something has its way, and an exception is a BLOCK    *)
(* (hooks/executor.py:45-82).                                              *)
LastDecides ==
  /\ \A i \in DOMAIN heard :
       heard[i].action \in Ending => i = Len(heard) /\ pc = "returned"
  /\ Deciding = {} => action = "CONTINUE"
  /\ \A i \in Deciding :
       (\A j \in Deciding : j <= i) =>
         action = IF heard[i].action = "RAISE" THEN "BLOCK" ELSE heard[i].action

LEMMA VerdictStep ==
  ASSUME PipeInv, LastDecides, ask
  PROVE  LastDecides'
<1>1. PICK a : /\ heard' = Append(heard, a)
               /\ Terminate(a) \/ Modify(a) \/ Fail(a) \/ Retry(a) \/ PassOver(a)
  BY DEF ask
<1>2. PICK m : m = Len(heard) + 1  OBVIOUS
<1>3. /\ m \in Nat /\ Len(heard') = m
      /\ DOMAIN heard = 1..m-1 /\ DOMAIN heard' = 1..m
      /\ \A i \in 1..m-1 : heard'[i] = heard[i]
      /\ heard'[m] = a
  BY <1>1, <1>2, HeardMore DEF PipeInv
<1>4. \A i \in 1..m-1 : heard[i].action \notin Ending
  BY <1>3 DEF ask, LastDecides
<1>5. PICK D : D = Deciding  OBVIOUS
<1>6. PICK d \in BOOLEAN :
        d = \/ a.action \in Ending \cup {"RETRY"}
            \/ a.action = "MODIFY" /\ a.mods # NoMods
  OBVIOUS
<1>7. /\ D \subseteq 1..m-1
      /\ Deciding' = IF d THEN D \cup {m} ELSE D
  <2>1. \A i \in 1..m : i = m \/ i \in 1..m-1
    BY <1>3
  <2>2. m \in 1..m /\ m \notin 1..m-1 /\ 1..m-1 \subseteq 1..m
    <3>1. m # 0
      BY <1>2, HeardMore DEF PipeInv, ask
    <3>. QED  BY <1>3, <3>1
  <2>. QED  BY <1>3, <1>5, <1>6, <2>1, <2>2 DEF Deciding
<1>8. ASSUME NEW i \in DOMAIN heard', heard'[i].action \in Ending
      PROVE  i = Len(heard') /\ pc' = "returned"
  <2>1. i = m /\ a.action \in Ending
    BY <1>3, <1>4, <1>8
  <2>2. pc' = "returned"
    BY <1>1, <2>1
    DEF Terminate, Modify, Fail, Retry, PassOver, Ending, Terminal
  <2>. QED  BY <1>3, <2>1, <2>2
<1>9. d => action' = IF a.action = "RAISE" THEN "BLOCK" ELSE a.action
  BY <1>1, <1>6
  DEF Terminate, Modify, Fail, Retry, PassOver, Ending, Terminal
<1>10. ~d => action' = action
  BY <1>1, <1>6
  DEF Terminate, Modify, Fail, Retry, PassOver, Ending, Terminal
<1>11. Deciding' = {} => action' = "CONTINUE"
  BY <1>5, <1>7, <1>10 DEF LastDecides
<1>12. ASSUME NEW i \in Deciding', \A j \in Deciding' : j <= i
       PROVE  action' = IF heard'[i].action = "RAISE" THEN "BLOCK"
                        ELSE heard'[i].action
  <2>1. CASE d
    <3>1. m \in Deciding' /\ (i = m \/ i \in 1..m-1)
      BY <1>7, <1>12, <2>1
    <3>2. i = m
      BY <1>3, <1>12, <3>1
    <3>. QED  BY <1>3, <1>9, <2>1, <3>2
  <2>2. CASE ~d
    <3>1. i \in Deciding /\ \A j \in Deciding : j <= i
      BY <1>5, <1>7, <1>12, <2>2
    <3>2. heard'[i] = heard[i]
      BY <1>3, <1>5, <1>7, <3>1
    <3>. QED  BY <1>10, <2>2, <3>1, <3>2 DEF LastDecides
  <2>. QED  BY <2>1, <2>2
<1>. QED  BY <1>8, <1>11, <1>12 DEF LastDecides

(* With any hooks and any answers: a BLOCK, a request for approval and an  *)
(* exception are final, and without them the last answer that counts is    *)
(* the result. The agent graph relies on this wherever it obeys a BLOCK.   *)
THEOREM VerdictIsFinal == Spec => []LastDecides
<1>1. Init => HookInv /\ LastDecides
  <2>1. SUFFICES ASSUME Init PROVE LastDecides
    BY PipeInit DEF HookInv
  <2>2. heard = <<>> /\ action = "CONTINUE"
    BY <2>1 DEF Init
  <2>3. DOMAIN heard = {} /\ Deciding = {}
    BY <2>2 DEF Deciding
  <2>. QED  BY <2>2, <2>3 DEF LastDecides
<1>2. HookInv /\ LastDecides /\ [Next]_vars => (HookInv /\ LastDecides)'
  <2>1. SUFFICES ASSUME HookInv, LastDecides, [Next]_vars
                 PROVE  LastDecides'
    BY HookStep
  <2>2. CASE ask
    BY <2>1, <2>2, VerdictStep DEF HookInv
  <2>3. CASE start
    <3>1. heard' = <<>> /\ heard = <<>> /\ action' = action
      BY <2>1, <2>3 DEF start, HookInv, PipeInv
    <3>2. DOMAIN heard = {} /\ DOMAIN heard' = {}
      BY <3>1
    <3>3. Deciding = {} /\ Deciding' = {}
      BY <3>2 DEF Deciding
    <3>. QED  BY <2>1, <3>1, <3>2, <3>3 DEF LastDecides
  <2>4. CASE UNCHANGED <<pc, heard, action>>
    BY <2>1, <2>4 DEF LastDecides, Deciding
  <2>. QED  BY <2>1, <2>2, <2>3, <2>4 DEF Next, vars, pipeline
<1>. QED  BY <1>1, <1>2, PTL DEF Spec

-----------------------------------------------------------------------------
(* The built-in hooks *)

(* While nobody changed the registry it is the one of start-up, and a call *)
(* that began works through the hooks installed for its event.             *)
StartInv ==
  changes = 0 =>
    /\ \A g \in Groups : Range(byGroup[g]) = Installed(g)
    /\ enabled = Objects
    /\ pc # "idle" => Range(hooks) = Installed(call.event)

LEMMA StartInit == Init => StartInv
<1> SUFFICES ASSUME Init PROVE StartInv
  OBVIOUS
<1>1. ASSUME NEW g \in Groups PROVE Range(byGroup[g]) = Installed(g)
  <2> DEFINE I == {i \in DOMAIN InitialHooks : GroupOf[InitialHooks[i]] = g}
  <2>1. byGroup[g] = Selected(InitialHooks, I)
    BY DEF Init
  <2>2. I \in SUBSET DOMAIN InitialHooks /\ InitialHooks \in Seq(Objects)
    BY PipelineAssumption
  <2>3. Installed(g) = {InitialHooks[i] : i \in I}
    BY DEF Installed, Range
  <2> HIDE DEF I
  <2>4. Range(Selected(InitialHooks, I)) = {InitialHooks[i] : i \in I}
    BY <2>2, SelectedList
  <2>. QED  BY <2>1, <2>3, <2>4
<1>2. enabled = Objects /\ pc = "idle"
  BY DEF Init
<1>. QED  BY <1>1, <1>2 DEF StartInv

(* A new call gets every enabled entry of the list of its event.           *)
LEMMA FoundAreEntries ==
  ASSUME RegistryInv, NEW g \in Groups, Range(byGroup[g]) \subseteq enabled
  PROVE  /\ get_for_event(g) \in Seq(Objects)
         /\ Range(get_for_event(g)) = Range(byGroup[g])
<1> DEFINE s == byGroup[g]
           I == {i \in DOMAIN s : s[i] \in enabled}
<1>1. s \in Seq(Objects) /\ I \in SUBSET DOMAIN s /\ get_for_event(g) = Selected(s, I)
  BY DEF RegistryInv, RegistryTypes, get_for_event
<1>2. Range(s) = {s[i] : i \in I}
  BY DEF Range
<1> HIDE DEF I, s
<1>3. Selected(s, I) \in Seq(Objects) /\ Range(Selected(s, I)) = {s[i] : i \in I}
  BY <1>1, SelectedList
<1>. QED  BY <1>1, <1>2, <1>3 DEF s

LEMMA StartStep ==
  ASSUME HookInv, StartInv, [Next]_vars
  PROVE  StartInv'
<1>0. changes \in Nat
  BY PipelineAssumption DEF HookInv, PipeInv
<1>1. CASE start /\ UNCHANGED <<registry, changes>>
  <2>1. SUFFICES ASSUME changes = 0
                 PROVE  Range(hooks') = Installed(call'.event)
    BY <1>1 DEF StartInv, registry
  <2>2. PICK e : e = call'.event  OBVIOUS
  <2>3. hooks' = IF e \in Groups THEN Sorted(get_for_event(e)) ELSE <<>>
    BY <1>1, <2>2 DEF start
  <2>4. CASE e \in Groups
    <3>1. Range(byGroup[e]) = Installed(e) /\ enabled = Objects
      BY <2>1, <2>4 DEF StartInv
    <3>2. byGroup[e] \in Seq(Objects)
      BY <2>4 DEF HookInv, RegistryInv, RegistryTypes
    <3>3. Range(byGroup[e]) \subseteq enabled
      BY <3>1, <3>2 DEF Range
    <3>4. PICK s : s = get_for_event(e)  OBVIOUS
    <3>5. s \in Seq(Objects) /\ Range(s) = Installed(e)
      BY <2>4, <3>1, <3>3, <3>4, FoundAreEntries DEF HookInv
    <3>6. hooks' = Sorted(s)
      BY <2>3, <2>4, <3>4
    <3>. QED  BY <2>2, <3>5, <3>6, SortedList
  <2>5. CASE e \notin Groups
    <3>1. hooks' = <<>>
      BY <2>3, <2>5
    <3>2. Range(<<>>) = {}
      BY DEF Range
    <3>3. Range(InitialHooks) \subseteq Objects
      BY PipelineAssumption DEF Range
    <3>4. Installed(e) = {}
      BY <2>5, <3>3 DEF Installed, Groups
    <3>. QED  BY <2>2, <3>1, <3>2, <3>4
  <2>. QED  BY <2>4, <2>5
<1>2. CASE ask /\ UNCHANGED <<registry, changes>>
  BY <1>2 DEF ask, StartInv, registry
<1>3. CASE change /\ UNCHANGED pipeline
  BY <1>0, <1>3 DEF change, StartInv
<1>4. CASE UNCHANGED vars
  BY <1>4 DEF vars, pipeline, registry, StartInv
<1>. QED  BY <1>1, <1>2, <1>3, <1>4 DEF Next

(* What is in use while the hooks that are asked are those of start-up:    *)
(* the call has not been decided yet, or it ended with a legitimate input  *)
(* of the graph.                                                           *)
Asked == {hooks[i] : i \in 1..Len(heard)}

ToolOf == call.context.tool_name[2]

BeforeToolInv ==
  /\ mods = NoMods
  /\ \/ /\ action = "CONTINUE"
        /\ "permission" \in Asked => tool_permission(ToolOf) = "CONTINUE"
        /\ "approval" \in Asked => human_approval(ToolOf) = "CONTINUE"
     \/ pc = "returned" /\ action \in BuiltinBeforeTool[ToolOf]

AfterResponseInv ==
  /\ action \in {"CONTINUE", "MODIFY"}
  /\ mods # NoMods => "output" \in DOMAIN mods /\ mods.output = Leaf("fits")

CallInv ==
  /\ call \in Calls
  /\ call.event = "before_tool" => BeforeToolInv
  /\ call.event = "before_request" =>
       mods = NoMods /\ action \in {"CONTINUE", "BLOCK"}
  /\ call.event = "after_response" => AfterResponseInv
  /\ call.event \notin {"before_tool", "before_request", "after_response"} =>
       action = "CONTINUE"

BuiltinInv ==
  /\ pc = "idle" => action = "CONTINUE"
  /\ pc # "idle" /\ Range(hooks) = Installed(call.event) => CallInv

(* What a hook reads of the context is the modification, if there is one.  *)
LEMMA ContextIs ==
  ASSUME NEW c, NEW d, NEW k \in DOMAIN c
  PROVE  /\ k \notin DOMAIN d => deep_merge(c, d)[k] = c[k]
         /\ k \in DOMAIN d /\ ~IsDict(d[k]) => deep_merge(c, d)[k] = d[k]
BY DEF deep_merge, MergeKey

LEMMA NoModsIsEmpty == DOMAIN NoMods = {}
BY DEF NoMods

(* The built-in hooks that answer, by event.                               *)
LEMMA DecidersOf ==
  ASSUME AsInMain, NEW h \in Deciders
  PROVE  /\ GroupOf[h] = "before_request" => h \in {"validation", "security"}
         /\ GroupOf[h] = "before_tool" => h \in {"permission", "approval"}
         /\ GroupOf[h] = "after_response" => h = "output"
         /\ GroupOf[h] \in {"before_request", "before_tool", "after_response"}
BY DEF AsInMain, Deciders, HookTable

(* tool_permission is asked before human_approval.                         *)
LEMMA PermissionFirst ==
  ASSUME AsInMain, HookInv, pc = "asking", call.event = "before_tool",
         Range(hooks) = Installed(call.event),
         hooks[Len(heard)+1] = "approval"
  PROVE  "permission" \in Asked
<1>1. /\ Len(heard) \in Nat /\ Len(heard) + 1 \in DOMAIN hooks
      /\ DOMAIN hooks = 1..Len(hooks) /\ Len(hooks) \in Nat
  BY DEF HookInv, PipeInv
<1>2. /\ "permission" \in Range(hooks)
      /\ Priority["permission"] = -50 /\ Priority["approval"] = -10
  BY DEF AsInMain, Installed, Deciders, HookTable
<1>3. PICK j \in DOMAIN hooks : hooks[j] = "permission"
  BY <1>2 DEF Range
<1>4. ~(Len(heard) + 1 < j)
  <2>1. InOrder
    BY DEF HookInv, PipeInv
  <2>2. ~(Priority["approval"] <= Priority["permission"])
    BY <1>2
  <2>. QED  BY <1>1, <1>3, <2>1, <2>2 DEF InOrder
<1>5. j # Len(heard) + 1
  BY <1>3
<1>6. j \in 1..Len(heard)
  BY <1>1, <1>4, <1>5
<1>. QED  BY <1>3, <1>6 DEF Asked

LEMMA BuiltinAskStep ==
  ASSUME AsInMain, HookInv, BuiltinInv, ask
  PROVE  BuiltinInv'
<1>1. SUFFICES ASSUME Range(hooks) = Installed(call.event), CallInv
               PROVE  CallInv'
  <2>1. pc' # "idle"
    BY DEF ask, Terminate, Modify, Fail, Retry, PassOver, Proceed
  <2>. QED  BY <2>1 DEF ask, BuiltinInv
<1>2. PICK h : h = hooks[Len(heard) + 1]  OBVIOUS
<1>3. PICK a \in Answer(h, hook_context) :
        /\ heard' = Append(heard, a)
        /\ Terminate(a) \/ Modify(a) \/ Fail(a) \/ Retry(a) \/ PassOver(a)
  BY <1>2 DEF ask
<1>4. /\ pc = "asking" /\ pc # "idle" /\ UNCHANGED <<call, hooks>>
      /\ call \in Calls /\ GraphCall(call)
  BY <1>1 DEF ask, CallInv, AsInMain
<1>5. h \in Range(hooks) /\ h \in Range(InitialHooks) /\ GroupOf[h] = call.event
  <2>1. Len(heard) + 1 \in DOMAIN hooks
    BY <1>4 DEF HookInv, PipeInv
  <2>2. h \in Range(hooks)
    BY <1>2, <2>1 DEF Range
  <2>. QED  BY <1>1, <2>2 DEF Installed
<1>6. Asked' = Asked \cup {h}
  <2>1. /\ Len(heard) \in Nat /\ Len(heard') = Len(heard) + 1
    BY <1>3, HeardMore DEF HookInv, PipeInv
  <2>2. 1..Len(heard') = (1..Len(heard)) \cup {Len(heard)+1}
    BY <2>1
  <2>. QED  BY <1>2, <1>4, <2>2 DEF Asked
<1>7. CASE h \notin Deciders
  <2>1. a = Plain("CONTINUE")
    BY <1>3, <1>5, <1>7 DEF AsInMain
  <2>2. UNCHANGED <<mods, action>>
    BY <1>3, <2>1
    DEF Plain, Terminate, Modify, Fail, Retry, PassOver, Terminal
  <2>3. h # "permission" /\ h # "approval"
    BY <1>7 DEF Deciders, HookTable
  <2>4. BeforeToolInv => BeforeToolInv'
    BY <1>4, <1>6, <2>2, <2>3 DEF BeforeToolInv, ToolOf
  <2>5. AfterResponseInv => AfterResponseInv'
    BY <2>2 DEF AfterResponseInv
  <2>. QED  BY <1>1, <1>4, <2>2, <2>4, <2>5 DEF CallInv
<1>8. CASE h \in Deciders
  <2>1. a = BuiltinAnswer(h, hook_context)
    BY <1>3, <1>8 DEF AsInMain
  <2>2. CASE call.event = "before_request"
    <3>1. h \in {"validation", "security"}
      BY <1>5, <1>8, <2>2, DecidersOf
    <3>2. mods = NoMods /\ action \in {"CONTINUE", "BLOCK"}
      BY <1>1, <1>4, <2>2 DEF CallInv
    <3>3. a \in {Plain("BLOCK"), Plain("CONTINUE")}
      BY <2>1, <3>1 DEF BuiltinAnswer, request_validation, security
    <3>4. mods' = NoMods /\ action' \in {"CONTINUE", "BLOCK"}
      BY <1>3, <3>2, <3>3
      DEF Plain, Terminate, Modify, Fail, Retry, PassOver, Terminal
    <3>. QED  BY <1>4, <2>2, <3>4 DEF CallInv
  <2>3. CASE call.event = "before_tool"
    <3>1. h \in {"permission", "approval"}
      BY <1>5, <1>8, <2>3, DecidersOf
    <3>2. BeforeToolInv
      BY <1>1, <1>4, <2>3 DEF CallInv
    <3>3. /\ mods = NoMods /\ action = "CONTINUE"
          /\ "permission" \in Asked => tool_permission(ToolOf) = "CONTINUE"
          /\ "approval" \in Asked => human_approval(ToolOf) = "CONTINUE"
      BY <1>4, <3>2 DEF BeforeToolInv
    <3>4. /\ "tool_name" \in DOMAIN call.context
          /\ ToolOf \in BuiltinTools
      BY <1>4, <2>3 DEF GraphCall, ToolOf, Leaf
    <3>5. hook_context.tool_name[2] = ToolOf
      BY <3>3, <3>4, ContextIs, NoModsIsEmpty DEF hook_context, ToolOf
    <3>6. ToolOf' = ToolOf
      BY <1>4 DEF ToolOf
    <3>7. CASE h = "permission"
      <4>1. a = PermissionAnswer(ToolOf)
        BY <2>1, <3>5, <3>7 DEF BuiltinAnswer
      <4>2. CASE tool_permission(ToolOf) = "BLOCK"
        <5>1. a = Plain("BLOCK")
          BY <4>1, <4>2 DEF PermissionAnswer
        <5>2. mods' = NoMods /\ action' = "BLOCK" /\ pc' = "returned"
          BY <1>3, <3>3, <5>1
          DEF Plain, Terminate, Modify, Fail, Retry, PassOver, Terminal
        <5>3. "BLOCK" \in BuiltinBeforeTool[ToolOf]
          BY <3>4, <4>2 DEF BuiltinBeforeTool
        <5>4. BeforeToolInv'
          BY <3>6, <5>2, <5>3 DEF BeforeToolInv
        <5>. QED  BY <1>4, <2>3, <5>4 DEF CallInv
      <4>3. CASE tool_permission(ToolOf) # "BLOCK"
        <5>1. tool_permission(ToolOf) = "CONTINUE"
          BY <4>3 DEF tool_permission
        <5>2. a.action = "CONTINUE"
          BY <4>1, <4>3 DEF PermissionAnswer
        <5>3. mods' = NoMods /\ action' = "CONTINUE"
          BY <1>3, <3>3, <5>2
          DEF Terminate, Modify, Fail, Retry, PassOver, Terminal
        <5>4. "approval" \in Asked' => "approval" \in Asked
          BY <1>6, <3>7
        <5>5. BeforeToolInv'
          BY <3>3, <3>6, <5>1, <5>3, <5>4 DEF BeforeToolInv
        <5>. QED  BY <1>4, <2>3, <5>5 DEF CallInv
      <4>. QED  BY <4>2, <4>3
    <3>8. CASE h = "approval"
      <4>1. a = Plain(human_approval(ToolOf))
        BY <2>1, <3>5, <3>8 DEF BuiltinAnswer, ApprovalAnswer
      <4>2. tool_permission(ToolOf) = "CONTINUE"
        BY <1>1, <1>2, <1>4, <2>3, <3>3, <3>8, PermissionFirst
      <4>3. human_approval(ToolOf) \in BuiltinBeforeTool[ToolOf]
        BY <3>4, <4>2 DEF BuiltinBeforeTool
      <4>4. CASE human_approval(ToolOf) = "CONTINUE"
        <5>1. mods' = NoMods /\ action' = "CONTINUE"
          BY <1>3, <3>3, <4>1, <4>4
          DEF Plain, Terminate, Modify, Fail, Retry, PassOver, Terminal
        <5>2. BeforeToolInv'
          BY <3>6, <4>2, <4>4, <5>1 DEF BeforeToolInv
        <5>. QED  BY <1>4, <2>3, <5>2 DEF CallInv
      <4>5. CASE human_approval(ToolOf) # "CONTINUE"
        <5>1. human_approval(ToolOf) = "APPROVAL_REQUIRED"
          BY <4>5 DEF human_approval
        <5>2. /\ mods' = NoMods /\ action' = "APPROVAL_REQUIRED"
              /\ pc' = "returned"
          BY <1>3, <3>3, <4>1, <5>1
          DEF Plain, Terminate, Modify, Fail, Retry, PassOver, Terminal
        <5>3. BeforeToolInv'
          BY <3>6, <4>3, <5>1, <5>2 DEF BeforeToolInv
        <5>. QED  BY <1>4, <2>3, <5>3 DEF CallInv
      <4>. QED  BY <4>4, <4>5
    <3>. QED  BY <3>1, <3>7, <3>8
  <2>4. CASE call.event = "after_response"
    <3>1. h = "output"
      BY <1>5, <1>8, <2>4, DecidersOf
    <3>2. AfterResponseInv
      BY <1>1, <1>4, <2>4 DEF CallInv
    <3>3. PICK o \in OutputKind \ {"sensitive"} : call.context.output = Leaf(o)
      BY <1>4, <2>4 DEF GraphCall
    <3>4. hook_context.output \in {Leaf(o), Leaf("fits")}
      <4>1. "output" \in DOMAIN call.context
        BY <1>4, <2>4 DEF GraphCall
      <4>2. CASE mods = NoMods
        BY <3>3, <4>1, <4>2, ContextIs, NoModsIsEmpty DEF hook_context
      <4>3. CASE mods # NoMods
        <5>1. "output" \in DOMAIN mods /\ mods.output = Leaf("fits")
          BY <3>2, <4>3 DEF AfterResponseInv
        <5>2. ~IsDict(mods.output)
          BY <5>1 DEF IsDict, Leaf
        <5>. QED  BY <4>1, <5>1, <5>2, ContextIs DEF hook_context
      <4>. QED  BY <4>2, <4>3
    <3>5. PICK p \in OutputKind \ {"sensitive"} : hook_context.output[2] = p
      <4>1. hook_context.output[2] \in {o, "fits"}
        BY <3>4 DEF Leaf
      <4>. QED  BY <4>1 DEF OutputKind
    <3>6. a = OutputAnswer(p)
      BY <2>1, <3>1, <3>5 DEF BuiltinAnswer
    <3>7. CASE output_validation(p) = "MODIFY"
      <4> DEFINE e == [output |-> Leaf("fits"), truncated |-> Leaf("true")]
      <4>1. a.action = "MODIFY" /\ a.mods = e
        BY <3>6, <3>7 DEF OutputAnswer
      <4>2. DOMAIN e = {"output", "truncated"} /\ e.output = Leaf("fits")
        OBVIOUS
      <4> HIDE DEF e
      <4>3. e # NoMods
        BY <4>2, NoModsIsEmpty
      <4>4. mods' = deep_merge(mods, e) /\ action' = "MODIFY"
        BY <1>3, <4>1, <4>3
        DEF Terminate, Modify, Fail, Retry, PassOver, Terminal
      <4>5. ~IsDict(Leaf("fits"))
        BY DEF IsDict, Leaf
      <4>6. "output" \in DOMAIN mods' /\ mods'.output = Leaf("fits")
        BY <4>2, <4>4, <4>5 DEF deep_merge, MergeKey
      <4>7. AfterResponseInv'
        BY <4>4, <4>6 DEF AfterResponseInv
      <4>. QED  BY <1>4, <2>4, <4>7 DEF CallInv
    <3>8. CASE output_validation(p) # "MODIFY"
      <4>1. a = Plain("CONTINUE")
        BY <3>5, <3>6, <3>8 DEF OutputAnswer, output_validation
      <4>2. UNCHANGED <<mods, action>>
        BY <1>3, <4>1
        DEF Plain, Terminate, Modify, Fail, Retry, PassOver, Terminal
      <4>3. AfterResponseInv'
        BY <3>2, <4>2 DEF AfterResponseInv
      <4>. QED  BY <1>4, <2>4, <4>3 DEF CallInv
    <3>. QED  BY <3>7, <3>8
  <2>. QED  BY <1>5, <1>8, <2>2, <2>3, <2>4, DecidersOf
<1>. QED  BY <1>7, <1>8

LEMMA BuiltinStep ==
  ASSUME AsInMain, HookInv, BuiltinInv, [Next]_vars
  PROVE  BuiltinInv'
<1>1. CASE start
  <2>1. /\ call' \in Calls /\ mods' = NoMods /\ action' = "CONTINUE"
        /\ heard' = <<>>
    BY <1>1 DEF start, HookInv, PipeInv, BuiltinInv
  <2>2. pc' # "idle" /\ Asked' = {}
    BY <1>1, <2>1 DEF start, Asked
  <2>. QED  BY <2>1, <2>2 DEF BuiltinInv, CallInv, BeforeToolInv, AfterResponseInv
<1>2. CASE ask
  BY <1>2, BuiltinAskStep
<1>3. CASE UNCHANGED <<pc, call, hooks, mods, action, heard>>
  BY <1>3 DEF BuiltinInv, CallInv, BeforeToolInv, AfterResponseInv, Asked, ToolOf
<1>. QED  BY <1>1, <1>2, <1>3 DEF Next, vars, pipeline

(* What a call returns to the graph.                                       *)
LEMMA BuiltinReturns ==
  ASSUME AsInMain, HookInv, StartInv, BuiltinInv
  PROVE  GraphInputsAreReal
<1>1. SUFFICES ASSUME pc = "returned", Range(hooks) = Installed(call.event)
               PROVE  CASE call.event = "before_tool" ->
                             action \in BuiltinBeforeTool[ToolOf]
                        [] call.event = "before_request" ->
                             action \in BuiltinBeforeRequest
                        [] call.event = "after_response" ->
                             action \in BuiltinAfterResponse
                        [] OTHER -> action = "CONTINUE"
  BY DEF GraphInputsAreReal, AsksInstalled, StartInv, ToolOf
<1>2. CASE call.event = "before_tool"
  <2>1. BeforeToolInv /\ GraphCall(call)
    BY <1>1, <1>2 DEF BuiltinInv, CallInv, AsInMain
  <2>2. ToolOf \in BuiltinTools
    BY <1>2, <2>1 DEF GraphCall, ToolOf, Leaf
  <2>3. CASE action = "CONTINUE"
    <3>1. Len(heard) = Len(hooks) /\ DOMAIN hooks = 1..Len(hooks)
      BY <1>1, <2>3 DEF HookInv, PipeInv, Terminal
    <3>2. Asked = Range(hooks)
      BY <3>1 DEF Asked, Range
    <3>3. "permission" \in Asked /\ "approval" \in Asked
      BY <1>1, <1>2, <3>2 DEF AsInMain, Installed, Deciders, HookTable
    <3>4. CASE /\ tool_permission(ToolOf) = "CONTINUE"
               /\ human_approval(ToolOf) = "CONTINUE"
      BY <1>2, <2>2, <2>3, <3>4 DEF BuiltinBeforeTool
    <3>. QED  BY <1>2, <2>1, <3>3, <3>4 DEF BeforeToolInv
  <2>. QED  BY <1>2, <2>1, <2>3 DEF BeforeToolInv
<1>3. CASE call.event = "before_request"
  <2>1. action \in {"CONTINUE", "BLOCK"}
    BY <1>1, <1>3 DEF BuiltinInv, CallInv
  <2>2. {} \in SUBSET Pattern /\ {"sql"} \in SUBSET Pattern
    BY DEF Pattern
  <2>3. /\ request_validation({}, "") = "CONTINUE"
        /\ request_validation({"sql"}, "") = "BLOCK"
    BY DEF request_validation
  <2>4. {"CONTINUE", "BLOCK"} \subseteq BuiltinBeforeRequest
    BY <2>2, <2>3 DEF BuiltinBeforeRequest
  <2>. QED  BY <1>3, <2>1, <2>4
<1>4. CASE call.event = "after_response"
  <2>1. action \in {"CONTINUE", "MODIFY"}
    BY <1>1, <1>4 DEF BuiltinInv, CallInv, AfterResponseInv
  <2>2. /\ output_validation("fits") = "CONTINUE"
        /\ output_validation("oversized") = "MODIFY"
    BY DEF output_validation
  <2>3. {"CONTINUE", "MODIFY"} \subseteq BuiltinAfterResponse
    BY <2>2 DEF BuiltinAfterResponse, OutputKind
  <2>. QED  BY <1>4, <2>1, <2>3
<1>5. CASE call.event \notin {"before_tool", "before_request", "after_response"}
  BY <1>1, <1>5 DEF BuiltinInv, CallInv
<1>. QED  BY <1>2, <1>3, <1>4, <1>5

(* The application as main.py starts it, with any further hooks that only  *)
(* look on, any calls the graph makes and any changes of the registry: a   *)
(* call that asks the installed hooks returns what AgentGraph takes for    *)
(* its input. A tool outside the allow list is blocked and never comes to  *)
(* ask for approval, which rests on two priorities; and a call does ask    *)
(* the installed hooks unless somebody changed the registry.               *)
THEOREM GraphInputsReal ==
  ASSUME AsInMain
  PROVE  Spec => []GraphInputsAreReal
<1>1. Init => HookInv /\ StartInv /\ BuiltinInv
  <2>1. Init => pc = "idle" /\ action = "CONTINUE"
    BY DEF Init
  <2>. QED  BY <2>1, PipeInit, StartInit DEF HookInv, BuiltinInv
<1>2. HookInv /\ StartInv /\ BuiltinInv /\ [Next]_vars
        => (HookInv /\ StartInv /\ BuiltinInv)'
  BY HookStep, StartStep, BuiltinStep
<1>3. HookInv /\ StartInv /\ BuiltinInv => GraphInputsAreReal
  BY BuiltinReturns
<1>. QED  BY <1>1, <1>2, <1>3, PTL DEF Spec

-----------------------------------------------------------------------------
(* Entries that should not be there *)

Places(s, o) == {i \in DOMAIN s : s[i] = o}

LEMMA SurplusIs ==
  ASSUME NEW o \in Objects
  PROVE  Surplus(o) = Cardinality(Places(byGroup[GroupOf[o]], o))
                        - (IF o \in Registered THEN 1 ELSE 0)
BY DEF Surplus, Places

LEMMA PlacesCount ==
  ASSUME NEW S, NEW s \in Seq(S), NEW o
  PROVE  /\ IsFiniteSet(Places(s, o))
         /\ Cardinality(Places(s, o)) \in Nat
         /\ o \in Range(s) => Cardinality(Places(s, o)) >= 1
<1>1. Places(s, o) \in SUBSET (1..Len(s)) /\ IsFiniteSet(1..Len(s))
  <2>1. DOMAIN s = 1..Len(s) /\ Len(s) \in Nat
    BY LenProperties
  <2>. QED  BY <2>1, FS_Interval DEF Places
<1>2. IsFiniteSet(Places(s, o))
  BY <1>1, FS_Subset
<1>3. Cardinality(Places(s, o)) \in Nat
  BY <1>2, FS_CardinalityType
<1>4. Cardinality(Places(s, o)) = 0 <=> Places(s, o) = {}
  BY <1>2, FS_EmptySet
<1>5. o \in Range(s) => Places(s, o) # {}
  BY DEF Range, Places
<1>. QED  BY <1>2, <1>3, <1>4, <1>5

LEMMA PlacesAfterAppend ==
  ASSUME NEW S, NEW s \in Seq(S), NEW e \in S, NEW o
  PROVE  Cardinality(Places(Append(s, e), o)) =
           Cardinality(Places(s, o)) + (IF e = o THEN 1 ELSE 0)
<1>1. DOMAIN s = 1..Len(s) /\ Len(s) \in Nat
  BY LenProperties
<1>2. /\ DOMAIN Append(s, e) = 1..Len(s)+1
      /\ \A i \in 1..Len(s) : Append(s, e)[i] = s[i]
      /\ Append(s, e)[Len(s)+1] = e
  OBVIOUS
<1>3. Len(s)+1 \notin Places(s, o) /\ IsFiniteSet(Places(s, o))
  <2>1. Len(s)+1 \notin Places(s, o)
    BY <1>1 DEF Places
  <2>2. IsFiniteSet(Places(s, o))
    BY PlacesCount
  <2>. QED  BY <2>1, <2>2
<1>4. Cardinality(Places(s, o)) \in Nat
  BY PlacesCount
<1>5. CASE e = o
  <2>1. Places(Append(s, e), o) = Places(s, o) \cup {Len(s)+1}
    BY <1>1, <1>2, <1>5 DEF Places
  <2>2. Cardinality(Places(s, o) \cup {Len(s)+1}) = Cardinality(Places(s, o)) + 1
    BY <1>3, FS_AddElement
  <2>. QED  BY <1>5, <2>1, <2>2
<1>6. CASE e # o
  <2>1. Places(Append(s, e), o) = Places(s, o)
    BY <1>1, <1>2, <1>6 DEF Places
  <2>. QED  BY <1>4, <1>6, <2>1
<1>. QED  BY <1>5, <1>6

(* Removing an entry at a place of e takes one place of e away and moves   *)
(* the later ones down.                                                    *)
LEMMA PlacesAfterRemove ==
  ASSUME NEW S, NEW s \in Seq(S), NEW e \in Range(s), NEW o
  PROVE  Cardinality(Places(RemoveFirst(s, e), o)) =
           Cardinality(Places(s, o)) - (IF e = o THEN 1 ELSE 0)
<1>0. DOMAIN s = 1..Len(s) /\ Len(s) \in Nat
  BY LenProperties
<1>1. PICK t : t = RemoveFirst(s, e)  OBVIOUS
<1>2. PICK k \in 1..Len(s) : s[k] = e /\ t = RemoveAt(s, k)
  <2>1. PICK j \in 1..Len(s) : s[j] = e
    BY <1>0 DEF Range
  <2>. QED  BY <1>1, <2>1, RemoveFirstIndex
<1>3. /\ t \in Seq(S) /\ Len(t) = Len(s) - 1
      /\ \A i \in 1..k-1 : t[i] = s[i]
      /\ \A i \in k..Len(s)-1 : t[i] = s[i+1]
  <2>1. /\ RemoveAt(s, k) \in Seq(S) /\ Len(RemoveAt(s, k)) = Len(s) - 1
        /\ \A i \in 1..k-1 : RemoveAt(s, k)[i] = s[i]
        /\ \A i \in k..Len(s)-1 : RemoveAt(s, k)[i] = s[i+1]
    BY RemoveAtEntries
  <2>. QED  BY <1>2, <2>1
<1>4. DOMAIN t = 1..Len(s)-1
  BY <1>3
<1> DEFINE P == Places(s, o) \ {k}
           Q == Places(t, o)
           f == [i \in Q |-> IF i < k THEN i ELSE i + 1]
<1>5. IsFiniteSet(Places(s, o)) /\ IsFiniteSet(Q) /\ IsFiniteSet(P)
  <2>1. IsFiniteSet(Places(s, o)) /\ IsFiniteSet(Q)
    BY <1>3, PlacesCount
  <2>2. P \in SUBSET Places(s, o)
    OBVIOUS
  <2> HIDE DEF P, Q
  <2>. QED  BY <2>1, <2>2, FS_Subset
<1>6. Cardinality(P) = Cardinality(Q)
  <2>1. \A i \in Q : f[i] \in P
    BY <1>0, <1>3, <1>4 DEF Places
  <2>2. \A i, j \in Q : f[i] = f[j] => i = j
    BY <1>0, <1>4 DEF Places
  <2>3. \A p \in P : \E i \in Q : f[i] = p
    <3> SUFFICES ASSUME NEW p \in P PROVE \E i \in Q : f[i] = p
      OBVIOUS
    <3>1. p \in 1..Len(s) /\ s[p] = o /\ p # k
      BY <1>0 DEF Places
    <3>2. CASE p < k
      <4>1. p \in 1..k-1 /\ p \in 1..Len(s)-1
        BY <1>0, <3>1, <3>2
      <4>2. t[p] = o
        BY <1>3, <3>1, <4>1
      <4>. QED  BY <1>4, <3>2, <4>1, <4>2 DEF Places
    <3>3. CASE p > k
      <4>1. /\ p-1 \in k..Len(s)-1 /\ p-1 \in 1..Len(s)-1
            /\ ~(p-1 < k) /\ (p-1)+1 = p
        BY <1>0, <3>1, <3>3
      <4>2. t[p-1] = o
        BY <1>3, <3>1, <4>1
      <4>3. p-1 \in Q
        BY <1>4, <4>1, <4>2 DEF Places
      <4>. QED  BY <4>1, <4>3
    <3>. QED  BY <1>0, <3>1, <3>2, <3>3
  <2>4. f \in [Q -> P]
    <3>1. f = [i \in Q |-> f[i]]
      OBVIOUS
    <3> HIDE DEF f, P, Q
    <3>. QED  BY <2>1, <3>1
  <2> HIDE DEF f, P, Q
  <2>5. f \in Injection(Q, P) /\ f \in Surjection(Q, P)
    BY <2>2, <2>3, <2>4 DEF Injection, IsInjective, Surjection
  <2>6. f \in Bijection(Q, P)
    BY <2>5 DEF Bijection
  <2>7. Cardinality(Q) = Cardinality(P)
    BY <1>5, <2>6, FS_Bijection DEF ExistsBijection
  <2>. QED  BY <2>7
<1> HIDE DEF Q
<1>7. CASE e = o
  <2>1. k \in Places(s, o)
    BY <1>0, <1>2, <1>7 DEF Places
  <2>2. Cardinality(P) = Cardinality(Places(s, o)) - 1
    BY <1>5, <2>1, FS_RemoveElement
  <2>. QED  BY <1>1, <1>6, <1>7, <2>2 DEF Q
<1>8. CASE e # o
  <2>1. P = Places(s, o)
    BY <1>2, <1>8 DEF Places
  <2>2. Cardinality(Places(s, o)) \in Nat
    BY PlacesCount
  <2> HIDE DEF P
  <2>3. Cardinality(Q) = Cardinality(Places(s, o))
    BY <1>6, <2>1
  <2>4. Cardinality(Places(RemoveFirst(s, e), o)) = Cardinality(Places(s, o))
    BY <1>1, <2>3 DEF Q
  <2>. QED  BY <1>8, <2>2, <2>4
<1>. QED  BY <1>7, <1>8

LEMMA SurplusStep ==
  ASSUME RegistryInv, [RegistryStep]_registry, NEW o \in Objects,
         NameOf[o] \notin DOMAIN byName \/ NameOf[o] \notin DOMAIN byName'
  PROVE  ~(Surplus(o)' > Surplus(o))
<1> DEFINE g == GroupOf[o]
           c == Cardinality(Places(byGroup[g], o))
           d == Cardinality(Places(byGroup'[g], o))
<1>0. /\ g \in Groups /\ byGroup[g] \in Seq(Objects) /\ byGroup'[g] \in Seq(Objects)
      /\ RegistryInv'
  BY RegistryInvStep DEF Groups, RegistryInv, RegistryTypes
<1>1. c \in Nat /\ d \in Nat /\ (o \in Range(byGroup[g]) => c >= 1)
  BY <1>0, PlacesCount
<1>2. /\ Surplus(o) = c - (IF o \in Registered THEN 1 ELSE 0)
      /\ Surplus(o)' = d - (IF o \in Registered' THEN 1 ELSE 0)
  BY SurplusIs DEF Surplus, Places
<1>3. Registered = {byName[n] : n \in DOMAIN byName}
      /\ Registered' = {byName'[n] : n \in DOMAIN byName'}
  BY DEF Registered, Range
<1>4. \A n \in DOMAIN byName : NameOf[byName[n]] = n
                               /\ byName[n] \in Range(byGroup[GroupOf[byName[n]]])
  BY DEF RegistryInv, RegisteredAreIndexed
<1>5. o \in Registered => NameOf[o] \in DOMAIN byName /\ o \in Range(byGroup[g])
                          /\ byName[NameOf[o]] = o
  BY <1>3, <1>4
<1>6. o \in Registered' => NameOf[o] \in DOMAIN byName'
  BY <1>0, <1>3 DEF RegistryInv, RegisteredAreIndexed
<1> HIDE DEF c, d
<1>7. ASSUME NEW e \in Objects, register(e) PROVE ~(Surplus(o)' > Surplus(o))
  <2>1. /\ DOMAIN byName' = DOMAIN byName \cup {NameOf[e]}
        /\ byName'[NameOf[e]] = e
        /\ \A n \in DOMAIN byName \ {NameOf[e]} : byName'[n] = byName[n]
    BY <1>7 DEF register
  <2>2. /\ GroupOf[e] = g => byGroup'[g] = Append(byGroup[g], e)
        /\ GroupOf[e] # g => byGroup'[g] = byGroup[g]
    BY <1>0, <1>7 DEF register, Index, RegistryInv, RegistryTypes
  <2>3. d = c + (IF e = o THEN 1 ELSE 0)
    <3>1. CASE GroupOf[e] = g
      <4>1. Cardinality(Places(Append(byGroup[g], e), o)) =
              Cardinality(Places(byGroup[g], o)) + (IF e = o THEN 1 ELSE 0)
        <5> HIDE DEF g
        <5>. QED  BY <1>0, PlacesAfterAppend
      <4>. QED  BY <2>2, <3>1, <4>1 DEF c, d
    <3>2. CASE GroupOf[e] # g
      BY <1>1, <2>2, <3>2 DEF c, d
    <3>. QED  BY <3>1, <3>2
  <2>4. NameOf[o] \notin DOMAIN byName
    BY <2>1
  <2>5. o \notin Registered
    BY <1>5, <2>4
  <2>6. e = o => o \in Registered'
    BY <1>3, <2>1
  <2>. QED  BY <1>1, <1>2, <2>3, <2>5, <2>6
<1>8. ASSUME NEW m \in Names, remove(m) PROVE ~(Surplus(o)' > Surplus(o))
  <2>1. PICK e : e = byName[m]  OBVIOUS
  <2>2. /\ m \in DOMAIN byName
        /\ DOMAIN byName' = DOMAIN byName \ {m}
        /\ \A n \in DOMAIN byName' : byName'[n] = byName[n]
    BY <1>8 DEF remove, Restrict
  <2>3. NameOf[e] = m /\ e \in Range(byGroup[GroupOf[e]])
    BY <1>4, <2>1, <2>2
  <2>4. /\ GroupOf[e] = g => byGroup'[g] = RemoveFirst(byGroup[g], e)
        /\ GroupOf[e] # g => byGroup'[g] = byGroup[g]
    BY <1>0, <1>8, <2>1 DEF remove, Unindex, RegistryInv, RegistryTypes
  <2>5. d = c - (IF e = o THEN 1 ELSE 0)
    <3>1. CASE GroupOf[e] = g
      BY <1>0, <2>3, <2>4, <3>1, PlacesAfterRemove DEF c, d
    <3>2. CASE GroupOf[e] # g
      BY <1>1, <2>4, <3>2 DEF c, d
    <3>. QED  BY <3>1, <3>2
  <2>6. CASE e = o
    BY <1>1, <1>2, <2>5, <2>6
  <2>7. CASE e # o
    <3>1. o \in Registered => o \in Registered'
      <4>1. SUFFICES ASSUME o \in Registered PROVE o \in Registered'
        OBVIOUS
      <4>2. NameOf[o] # m
        BY <1>5, <2>1, <2>7, <4>1
      <4>3. NameOf[o] \in DOMAIN byName' /\ byName'[NameOf[o]] = o
        BY <1>5, <2>2, <4>1, <4>2
      <4>. QED  BY <1>3, <4>3
    <3>. QED  BY <1>1, <1>2, <2>5, <2>7, <3>1
  <2>. QED  BY <2>6, <2>7
<1>9. CASE clear
  <2>1. byGroup'[g] = <<>>
    BY <1>0, <1>9 DEF clear
  <2>2. Places(<<>>, o) = {}
    BY DEF Places
  <2>3. d = 0
    BY <2>1, <2>2, FS_EmptySet DEF d
  <2>4. Surplus(o) >= 0
    BY <1>1, <1>2, <1>5
  <2>. QED  BY <1>1, <1>2, <2>3, <2>4
<1>10. CASE UNCHANGED <<byName, byGroup>>
  <2>1. d = c /\ Registered' = Registered
    BY <1>3, <1>10 DEF c, d
  <2>. QED  BY <1>1, <1>2, <2>1
<1>. QED
  BY <1>7, <1>8, <1>9, <1>10 DEF RegistryStep, set_enabled, registry

(* In any sequence of operations on a registry with any objects, an entry  *)
(* that outlives its name comes from registering a name that is taken.     *)
THEOREM StaleEntries == RegistrySpec => StaleOnlyByReplacing
<1>1. Empty => RegistryInv
  BY DEF Empty, RegistryInv, RegistryTypes, RegisteredAreIndexed
<1>2. RegistryInv /\ [RegistryStep]_registry => RegistryInv'
  BY RegistryInvStep
<1>3. RegistryInv /\ [RegistryStep]_registry
        => [\A o \in Objects :
              Surplus(o)' > Surplus(o)
                => NameOf[o] \in DOMAIN byName /\ NameOf[o] \in DOMAIN byName']_registry
  BY SurplusStep
<1>. QED  BY <1>1, <1>2, <1>3, PTL DEF RegistrySpec, StaleOnlyByReplacing

(* The same while pipelines run on the registry.                           *)
THEOREM StaleEntriesOfPipelines == Spec => StaleOnlyByReplacing
<1>1. Init => HookInv
  BY PipeInit DEF HookInv
<1>2. HookInv /\ [Next]_vars
        => [\A o \in Objects :
              Surplus(o)' > Surplus(o)
                => NameOf[o] \in DOMAIN byName /\ NameOf[o] \in DOMAIN byName']_registry
  BY RegistryStepOrStutter, SurplusStep DEF HookInv
<1>. QED  BY <1>1, <1>2, HookStep, PTL DEF Spec, StaleOnlyByReplacing
=============================================================================
