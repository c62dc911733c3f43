---------------------------- MODULE SkillService ----------------------------
(***************************************************************************)
(* Skills outside the agent graph: SkillRegistry (skills/registry.py),     *)
(* filled by SkillLoader (skills/loader.py), SkillSelector                 *)
(* (skills/selector.py) and SkillExecutor (skills/executor.py), for one    *)
(* task that is selected for and executed while skills come and go.        *)
(*                                                                         *)
(* How the tiers rate the skills is left open: a tier fails, with the      *)
(* confidence 0, or names one of the skills it was offered. Keywords       *)
(* always name one: the first skill when nothing scores. Confidences are   *)
(* in percent.                                                             *)
(***************************************************************************)
EXTENDS Integers, FiniteSets

CONSTANTS
  Skills,    \* the skill objects
  NameOf(_), \* skill -> metadata.name
  Lower(_),  \* name -> name.lower()
  Thresholds, \* the values of confidence_threshold; nothing validates them
  Scores,    \* the best similarities of the embedding tier
  None

ASSUME SkillAssumption ==
  /\ None \notin Skills
  /\ Thresholds \subseteq Int
  /\ Scores \subseteq 0..100

VARIABLES
  _skills,          \* name -> skill
  _skills_by_name,  \* name in lower case -> skill
  enabled,          \* the skills with metadata.enabled
  tiers,            \* the providers the selector has got: "llm", "embedding"
  threshold,        \* its confidence_threshold
  pc,               \* where the task is
  offered,          \* the skills the selector works with
  selection,        \* the skill the selector names
  skill,            \* the skill the executor has looked up
  emitted           \* the last lifecycle event of the skill

registry == <<_skills, _skills_by_name, enabled>>
task == <<tiers, threshold, pc, offered, selection, skill, emitted>>
vars == <<registry, task>>

Names == {NameOf(s) : s \in Skills}
LowerNames == {Lower(n) : n \in Names}

Registered == {s \in Skills : _skills[NameOf(s)] = s}
list_enabled == Registered \cap enabled

-----------------------------------------------------------------------------
(* SkillRegistry, SkillLoader *)

(* load_builtins and discover_package register new objects. *)
register(s) ==
  /\ _skills' = [_skills EXCEPT ![NameOf(s)] = s]
  /\ _skills_by_name' = [_skills_by_name EXCEPT ![Lower(NameOf(s))] = s]
  /\ UNCHANGED <<enabled, task>>

\* faulty variant: the index is looked up by the id as it is written
UnindexAsWritten(n) ==
  _skills_by_name' = [m \in LowerNames |-> IF m = n THEN None
                                           ELSE _skills_by_name[m]]

Unindex(n) == _skills_by_name' = [_skills_by_name EXCEPT ![Lower(n)] = None]

(* Of two names that differ in case only, the other loses its index. *)
remove(n) ==
  /\ _skills[n] # None
  /\ _skills' = [_skills EXCEPT ![n] = None]
  /\ Unindex(n)
  /\ UNCHANGED <<enabled, task>>

clear ==
  /\ _skills' = [n \in Names |-> None]
  /\ _skills_by_name' = [n \in LowerNames |-> None]
  /\ UNCHANGED <<enabled, task>>

(* Anybody may write metadata.enabled. *)
set_enabled(s) ==
  /\ enabled' \in {enabled \cup {s}, enabled \ {s}}
  /\ UNCHANGED <<_skills, _skills_by_name, task>>

-----------------------------------------------------------------------------
(* SkillSelector *)

(* The next tier after those tried, keywords being the last. *)
NextTier(tried) ==
  IF "llm" \in tiers \ tried THEN "llm"
  ELSE IF "embedding" \in tiers \ tried THEN "embedding" ELSE "keyword"

select ==
  /\ pc = "idle"
  /\ offered' = list_enabled
  /\ pc' = IF offered' = {} THEN "selected" ELSE NextTier({})
  /\ UNCHANGED <<registry, tiers, threshold, selection, skill, emitted>>

Accepts(confidence) == confidence >= threshold

(* The answer of a tier with a provider, which was awaited. A threshold of *)
(* 0 accepts the empty selection of a tier that failed.                    *)
TierAnswers(tier, tried, confidences) ==
  /\ pc = tier
  /\ \E s \in offered \cup {None} :
       \E confidence \in IF s = None THEN {0} ELSE confidences :
         IF Accepts(confidence)
         THEN pc' = "selected" /\ selection' = s
         ELSE pc' = NextTier(tried) /\ UNCHANGED selection
  /\ UNCHANGED <<registry, tiers, threshold, offered, skill, emitted>>

_llm_select == TierAnswers("llm", {"llm"}, {90})
_embedding_select == TierAnswers("embedding", {"llm", "embedding"}, Scores)

_keyword_select ==
  /\ pc = "keyword"
  /\ selection' \in offered
  /\ pc' = "selected"
  /\ UNCHANGED <<registry, tiers, threshold, offered, skill, emitted>>

-----------------------------------------------------------------------------
(* SkillExecutor.execute *)

get_by_name(n) == _skills_by_name[Lower(n)]

\* faulty variant: the executor does not look at metadata.enabled
IsFound(found) == found # None

MayRun(found) == found \in enabled

(* The skill that was selected may have been removed, replaced or disabled *)
(* since; an empty selection has a name nobody has. Both are a ValueError. *)
execute ==
  /\ pc = "selected"
  /\ LET found == IF selection = None THEN None
                  ELSE get_by_name(NameOf(selection))
     IN IF MayRun(found)
        THEN /\ skill' = found
             /\ pc' = "started"
             /\ emitted' = "skill_started"
        ELSE /\ pc' = "refused"
             /\ UNCHANGED <<skill, emitted>>
  /\ UNCHANGED <<registry, tiers, threshold, offered, selection>>

(* The hook manager is called with a string for the event and raises; the  *)
(* exception is logged, so no hook runs and none blocks the skill.         *)
before_skill ==
  /\ pc = "started"
  /\ pc' = "running"
  /\ UNCHANGED <<registry, tiers, threshold, offered, selection, skill, emitted>>

finish ==
  /\ pc = "running"
  /\ \/ pc' = "failed" /\ emitted' = "error"
     \/ pc' = "completed" /\ emitted' = "skill_completed"
  /\ UNCHANGED <<registry, tiers, threshold, offered, selection, skill>>

-----------------------------------------------------------------------------

Init ==
  /\ _skills = [n \in Names |-> None]
  /\ _skills_by_name = [n \in LowerNames |-> None]
  /\ enabled \in SUBSET Skills
  /\ tiers \in SUBSET {"llm", "embedding"}
  /\ threshold \in Thresholds
  /\ pc = "idle"
  /\ offered = {}
  /\ selection = None
  /\ skill = None
  /\ emitted = "none"

Manage ==
  \/ \E s \in Skills : register(s) \/ set_enabled(s)
  \/ \E n \in Names : remove(n)
  \/ clear

Select == select \/ _llm_select \/ _embedding_select \/ _keyword_select

Next == Manage \/ Select \/ execute \/ before_skill \/ finish

Spec == Init /\ [][Next]_vars

-----------------------------------------------------------------------------

(* Names that differ in case share an entry of the index by name. Whatever *)
(* is registered, replaced and removed, a skill found by name is one that  *)
(* is registered.                                                          *)
FoundByNameIsRegistered ==
  \A n \in LowerNames : _skills_by_name[n] \in Registered \cup {None}

SelectsOffered ==
  pc # "selected" /\ pc' = "selected" /\ offered' # {} /\ threshold > 0
    => selection' \in offered'

StartsCurrent ==
  skill' # skill =>
    /\ selection \in offered
    /\ Lower(NameOf(skill')) = Lower(NameOf(selection))
    /\ skill' \in list_enabled

(* A task with a skill enabled at its start gets one of those skills,      *)
(* whichever tier fails, provided the threshold is above the confidence of *)
(* a failure. Whatever is registered, replaced, removed and switched       *)
(* between the selection and the execution, and whatever the threshold:    *)
(* what is started bears the selected name, which was on offer, and is     *)
(* registered and enabled when it starts.                                  *)
TaskGetsOfferedSkill == [][SelectsOffered /\ StartsCurrent]_vars
=============================================================================
