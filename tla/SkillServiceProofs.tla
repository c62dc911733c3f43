------------------------- MODULE SkillServiceProofs -------------------------
(***************************************************************************)
(* That a skill found by name is registered and that a task gets a skill   *)
(* it was offered, for any skills, any names and any map of names to lower *)
(* case.                                                                   *)
(***************************************************************************)
EXTENDS SkillService, TLAPS

(* An entry of either index lies under the name of its object, and what    *)
(* the index by name holds, the other one holds too.                       *)
IndexInv ==
  /\ _skills \in [Names -> Skills \cup {None}]
  /\ _skills_by_name \in [LowerNames -> Skills \cup {None}]
  /\ \A l \in LowerNames :
       _skills_by_name[l] # None =>
         /\ Lower(NameOf(_skills_by_name[l])) = l
         /\ _skills[NameOf(_skills_by_name[l])] = _skills_by_name[l]

LEMMA IndexInit == Init => IndexInv
BY DEF Init, IndexInv

(* A new object takes the entry of its name in both, so an object it       *)
(* replaces is in neither.                                                 *)
LEMMA RegisterKeeps ==
  ASSUME IndexInv, NEW s \in Skills, register(s)
  PROVE  IndexInv'
<1> USE DEF IndexInv
<1>1. NameOf(s) \in Names /\ Lower(NameOf(s)) \in LowerNames
  BY DEF Names, LowerNames
<1>2. /\ _skills' \in [Names -> Skills \cup {None}]
      /\ _skills_by_name' \in [LowerNames -> Skills \cup {None}]
  BY DEF register
<1>3. ASSUME NEW l \in LowerNames, _skills_by_name'[l] # None
      PROVE  /\ Lower(NameOf(_skills_by_name'[l])) = l
             /\ _skills'[NameOf(_skills_by_name'[l])] = _skills_by_name'[l]
  <2>1. CASE l = Lower(NameOf(s))
    BY <1>1, <2>1 DEF register
  <2>2. CASE l # Lower(NameOf(s))
    <3>1. _skills_by_name'[l] = _skills_by_name[l]
      BY <2>2 DEF register
    <3>2. NameOf(_skills_by_name[l]) # NameOf(s)
      BY <1>3, <2>2, <3>1
    <3>3. NameOf(_skills_by_name[l]) \in Names
      BY <1>3, <3>1 DEF Names
    <3>. QED  BY <1>3, <3>1, <3>2, <3>3 DEF register
  <2>. QED  BY <2>1, <2>2
<1>. QED  BY <1>2, <1>3

(* Removing a name takes its entry out of the index by name, also when     *)
(* another name shares it.                                                 *)
LEMMA RemoveKeeps ==
  ASSUME IndexInv, NEW n \in Names, remove(n)
  PROVE  IndexInv'
<1> USE DEF IndexInv
<1>1. Lower(n) \in LowerNames  BY DEF LowerNames
<1>2. /\ _skills' \in [Names -> Skills \cup {None}]
      /\ _skills_by_name' \in [LowerNames -> Skills \cup {None}]
  BY DEF remove, Unindex
<1>3. ASSUME NEW l \in LowerNames, _skills_by_name'[l] # None
      PROVE  /\ Lower(NameOf(_skills_by_name'[l])) = l
             /\ _skills'[NameOf(_skills_by_name'[l])] = _skills_by_name'[l]
  <2>1. l # Lower(n)  BY <1>1, <1>3 DEF remove, Unindex
  <2>2. _skills_by_name'[l] = _skills_by_name[l]
    BY <2>1 DEF remove, Unindex
  <2>3. NameOf(_skills_by_name[l]) # n  BY <1>3, <2>1, <2>2
  <2>4. NameOf(_skills_by_name[l]) \in Names
    BY <1>3, <2>2 DEF Names
  <2>. QED  BY <1>3, <2>2, <2>3, <2>4 DEF remove
<1>. QED  BY <1>2, <1>3

LEMMA IndexStep == IndexInv /\ [Next]_vars => IndexInv'
<1> SUFFICES ASSUME IndexInv, [Next]_vars
             PROVE  IndexInv'
  OBVIOUS
<1>1. ASSUME NEW s \in Skills, register(s) PROVE IndexInv'
  BY <1>1, RegisterKeeps
<1>2. ASSUME NEW n \in Names, remove(n) PROVE IndexInv'
  BY <1>2, RemoveKeeps
<1>3. CASE clear
  BY <1>3 DEF clear, IndexInv
<1>4. CASE \/ \E s \in Skills : set_enabled(s)
           \/ Select \/ execute \/ before_skill \/ finish
           \/ UNCHANGED vars
  <2>1. UNCHANGED <<_skills, _skills_by_name>>
    BY <1>4
    DEF set_enabled, Select, select, _llm_select, _embedding_select,
        TierAnswers, _keyword_select, execute, before_skill, finish, vars,
        registry
  <2>. QED  BY <2>1 DEF IndexInv
<1>. QED  BY <1>1, <1>2, <1>3, <1>4 DEF Next, Manage

(* A skill found by name is registered, whatever is registered under names *)
(* that differ in case, replaced, removed or cleared.                      *)
THEOREM FoundIsRegistered == Spec => []FoundByNameIsRegistered
<1>1. IndexInv => FoundByNameIsRegistered
  BY DEF IndexInv, FoundByNameIsRegistered, Registered
<1>. QED  BY <1>1, IndexInit, IndexStep, PTL DEF Spec

-----------------------------------------------------------------------------
(* The task *)

Waiting == {"idle", "llm", "embedding", "keyword"}

(* What is selected is one of the skills on offer or nothing, and nothing  *)
(* is looked up before.                                                    *)
TaskInv ==
  /\ threshold \in Thresholds
  /\ enabled \subseteq Skills
  /\ offered \subseteq Skills
  /\ selection \in offered \cup {None}
  /\ pc \in Waiting \cup {"selected"} => skill = None
  /\ pc = "idle" => selection = None

LEMMA TaskStep ==
  ASSUME IndexInv, TaskInv, [Next]_vars
  PROVE  TaskInv' /\ SelectsOffered /\ StartsCurrent
<1> DEFINE Goal == TaskInv' /\ SelectsOffered /\ StartsCurrent
<1>1. CASE Manage \/ UNCHANGED vars
  <2>1. UNCHANGED task /\ (UNCHANGED enabled \/ \E s \in Skills : set_enabled(s))
    BY <1>1
    DEF Manage, register, set_enabled, remove, clear, vars, registry
  <2>2. enabled' \subseteq Skills
    BY <2>1 DEF TaskInv, set_enabled
  <2>. QED  BY <2>1, <2>2 DEF task, TaskInv, SelectsOffered, StartsCurrent
<1>2. CASE select
  <2>1. offered' \subseteq Skills
    BY <1>2 DEF select, list_enabled, Registered
  <2>2. \/ offered' = {} /\ pc' = "selected"
        \/ pc' \in Waiting \ {"idle"}
    BY <1>2 DEF select, NextTier, Waiting
  <2>3. /\ pc = "idle" /\ UNCHANGED <<threshold, enabled, skill, selection>>
    BY <1>2 DEF select, registry
  <2>. QED
    BY <2>1, <2>2, <2>3 DEF TaskInv, Waiting, SelectsOffered, StartsCurrent
<1>3. ASSUME NEW tier \in {"llm", "embedding"}, NEW tried,
             NEW confidences, TierAnswers(tier, tried, confidences)
      PROVE  Goal
  <2>1. /\ pc = tier /\ UNCHANGED <<threshold, enabled, offered, skill>>
    BY <1>3 DEF TierAnswers, registry
  <2>2. \/ pc' = "selected" /\ selection' \in offered
        \/ pc' = "selected" /\ selection' = None /\ 0 >= threshold
        \/ pc' \in Waiting \ {"idle"} /\ selection' = selection
    BY <1>3 DEF TierAnswers, Accepts, NextTier, Waiting
  <2>3. threshold \in Int
    BY SkillAssumption DEF TaskInv
  <2>. QED
    BY <2>1, <2>2, <2>3 DEF TaskInv, Waiting, SelectsOffered, StartsCurrent
<1>4. CASE _keyword_select
  <2>1. /\ pc = "keyword" /\ pc' = "selected" /\ selection' \in offered
        /\ UNCHANGED <<threshold, enabled, offered, skill>>
    BY <1>4 DEF _keyword_select, registry
  <2>. QED  BY <2>1 DEF TaskInv, Waiting, SelectsOffered, StartsCurrent
<1>5. CASE execute
  <2>1. /\ pc = "selected" /\ pc' \in {"started", "refused"}
        /\ UNCHANGED <<registry, threshold, enabled, offered, selection>>
    BY <1>5 DEF execute, registry
  <2>2. ASSUME skill' # skill
        PROVE  /\ selection \in offered
               /\ Lower(NameOf(skill')) = Lower(NameOf(selection))
               /\ skill' \in list_enabled
    <3>1. selection \in offered /\ selection \in Skills
      BY <1>5, <2>2, SkillAssumption DEF execute, MayRun, TaskInv
    <3>2. PICK l \in LowerNames : l = Lower(NameOf(selection))
      BY <3>1 DEF LowerNames, Names
    <3>3. skill' = _skills_by_name[l] /\ skill' \in enabled
      BY <1>5, <2>2, <3>1, <3>2, SkillAssumption
      DEF execute, MayRun, get_by_name
    <3>4. skill' \in Skills /\ skill' # None
      BY <3>3, SkillAssumption DEF TaskInv
    <3>5. Lower(NameOf(skill')) = l /\ skill' \in Registered
      BY <3>3, <3>4 DEF IndexInv, Registered
    <3>. QED  BY <3>1, <3>2, <3>3, <3>5 DEF list_enabled
  <2>3. TaskInv'
    BY <2>1 DEF TaskInv, Waiting
  <2>. QED  BY <2>1, <2>2, <2>3 DEF SelectsOffered, StartsCurrent
<1>6. CASE before_skill \/ finish
  <2>1. /\ UNCHANGED <<threshold, enabled, offered, selection, skill>>
        /\ pc' \in {"running", "failed", "completed"}
    BY <1>6 DEF before_skill, finish, registry
  <2>. QED  BY <2>1 DEF TaskInv, Waiting, SelectsOffered, StartsCurrent
<1>. QED
  BY <1>1, <1>2, <1>3, <1>4, <1>5, <1>6
  DEF Next, Select, _llm_select, _embedding_select

(* With any skills, thresholds and scores, whichever providers there are   *)
(* and however they answer: a task that has an enabled skill is given one  *)
(* that was on offer unless the threshold accepts a failed tier, and       *)
(* whatever is registered, removed or switched before it is executed, what *)
(* starts bears the selected name and is registered and enabled.           *)
THEOREM OfferedIsSelected == Spec => TaskGetsOfferedSkill
<1>1. Init => TaskInv
  BY DEF Init, TaskInv, Waiting
<1>2. IndexInv /\ TaskInv /\ [Next]_vars
        => TaskInv' /\ [SelectsOffered /\ StartsCurrent]_vars
  BY TaskStep
<1>. QED  BY <1>1, <1>2, IndexInit, IndexStep, PTL DEF Spec, TaskGetsOfferedSkill
=============================================================================
