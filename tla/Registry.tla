------------------------------ MODULE Registry ------------------------------
(***************************************************************************)
(* HookRegistry and ToolRegistry (hooks/registry.py, tools/registry.py):   *)
(* a dict from names to objects, and next to it lists of objects by group, *)
(* which is the lifecycle event of a hook and the risk level of a tool.    *)
(* Objects are compared by identity; metadata.enabled may be switched at   *)
(* any time. The two registries are the same code but for the group.       *)
(***************************************************************************)
EXTENDS Integers, SequencesExt, FiniteSetsExt, Functions

CONSTANTS
  Objects,   \* the hooks or tools there are
  NameOf,    \* object -> metadata.name
  GroupOf    \* object -> metadata.lifecycle_event or metadata.risk_level

Names == {NameOf[o] : o \in Objects}
Groups == {GroupOf[o] : o \in Objects}

ASSUME RegistryAssumption ==
  /\ NameOf \in [Objects -> STRING]
  /\ GroupOf \in [Objects -> STRING]

VARIABLES
  byName,    \* _hooks, _tools: name -> object, for the names registered
  byGroup,   \* _hooks_by_event, _tools_by_risk: group -> list of objects
  enabled    \* the objects whose metadata.enabled is True

registry == <<byName, byGroup, enabled>>

Registered == Range(byName)

-----------------------------------------------------------------------------
(* Lists *)

(* The entries of s at the positions in I, ordered by the relation R: the  *)
(* k-th is the one with k-1 of them before it.                             *)
Arranged(s, I, R) ==
  LET Rank(i) == Cardinality({j \in I : <<j, i>> \in R})
  IN [k \in 1..Cardinality(I) |-> s[CHOOSE i \in I : Rank(i) = k - 1]]

(* These entries in the order they have in s. *)
Selected(s, I) == Arranged(s, I, {p \in I \X I : p[1] < p[2]})

-----------------------------------------------------------------------------
(* Lookups *)

list_enabled == Registered \cap enabled

(* HookRegistry.get_for_event, a new list. *)
get_for_event(g) ==
  LET s == byGroup[g] IN Selected(s, {i \in DOMAIN s : s[i] \in enabled})

-----------------------------------------------------------------------------
(* Operations *)

\* faulty variant
IndexNewNames(o) ==
  IF NameOf[o] \in DOMAIN byName THEN byGroup[GroupOf[o]]
  ELSE Append(byGroup[GroupOf[o]], o)

(* The list of the group grows even when the name is taken. *)
Index(o) == Append(byGroup[GroupOf[o]], o)

register(o) ==
  /\ byName' = [n \in DOMAIN byName \cup {NameOf[o]} |->
                  IF n = NameOf[o] THEN o ELSE byName[n]]
  /\ byGroup' = [byGroup EXCEPT ![GroupOf[o]] = Index(o)]
  /\ UNCHANGED enabled

\* faulty variant
LeaveIndexed(o) == byGroup[GroupOf[o]]

Unindex(o) == RemoveFirst(byGroup[GroupOf[o]], o)

(* Of an unknown name nothing is removed. *)
remove(n) ==
  /\ n \in DOMAIN byName
  /\ byName' = Restrict(byName, DOMAIN byName \ {n})
  /\ byGroup' = [byGroup EXCEPT ![GroupOf[byName[n]]] = Unindex(byName[n])]
  /\ UNCHANGED enabled

clear ==
  /\ byName' = <<>>
  /\ byGroup' = [g \in Groups |-> <<>>]
  /\ UNCHANGED enabled

(* o.metadata.enabled = not o.metadata.enabled *)
set_enabled(o) ==
  /\ enabled' = IF o \in enabled THEN enabled \ {o} ELSE enabled \cup {o}
  /\ UNCHANGED <<byName, byGroup>>

Empty ==
  /\ byName = <<>>
  /\ byGroup = [g \in Groups |-> <<>>]
  /\ enabled = Objects

RegistryStep ==
  \/ \E o \in Objects : register(o) \/ set_enabled(o)
  \/ \E n \in Names : remove(n)
  \/ clear

RegistrySpec == Empty /\ [][RegistryStep]_registry

-----------------------------------------------------------------------------
(* Properties *)

RegistryTypeOK ==
  /\ \E D \in SUBSET Names : byName \in [D -> Objects]
  /\ byGroup \in [Groups -> Seq(Objects)]
  /\ enabled \subseteq Objects

(* An object listed under its name is found in the list of its group, so   *)
(* whoever list_enabled shows is asked by the pipelines of its event; no   *)
(* sequence of registrations and removals breaks this.                     *)
RegisteredAreIndexed ==
  \A n \in DOMAIN byName :
    /\ NameOf[byName[n]] = n
    /\ byName[n] \in Range(byGroup[GroupOf[byName[n]]])

(* How many entries of o are in its list although they should not be. *)
Surplus(o) ==
  Cardinality({i \in DOMAIN byGroup[GroupOf[o]] : byGroup[GroupOf[o]][i] = o})
    - (IF o \in Registered THEN 1 ELSE 0)

(* A stale entry, which works on although no listing by name shows it,     *)
(* comes from nothing but registering a name that is taken; remove and     *)
(* clear never leave one.                                                  *)
StaleOnlyByReplacing ==
  [][\A o \in Objects :
       Surplus(o)' > Surplus(o)
         => NameOf[o] \in DOMAIN byName /\ NameOf[o] \in DOMAIN byName']_registry
=============================================================================
