---------------------------- MODULE HookPipeline ----------------------------
(***************************************************************************)
(* One call of HookExecutor.run_pipeline (hooks/executor.py) on a registry *)
(* whose hooks are registered, removed and switched while it waits for a   *)
(* hook. A pipeline keeps nothing between two calls and calls share only   *)
(* the registry, so one call is enough.                                    *)
(*                                                                         *)
(* A dictionary is a function from keys to values, a value is tagged as a  *)
(* leaf or as a dictionary; the dictionaries inside hold leaves only.      *)
(***************************************************************************)
EXTENDS Registry

CONSTANTS
  Priority,       \* hook -> metadata.priority
  Calls,          \* the calls there are: records of event and context
  Answer(_, _),   \* what a hook may answer to a context
  InitialHooks,   \* the hooks registered at start-up, in this order and
                  \* under different names
  MaxChanges      \* bound on the changes of the registry

Terminal == {"BLOCK", "APPROVAL_REQUIRED"}
AnswerAction == Terminal \cup {"CONTINUE", "MODIFY", "RETRY", "RAISE"}

ASSUME PipelineAssumption ==
  /\ Priority \in [Objects -> Int]
  /\ \A c \in Calls : c.event \in STRING
  /\ InitialHooks \in Seq(Objects)
  /\ \A i, j \in DOMAIN InitialHooks :
       NameOf[InitialHooks[i]] = NameOf[InitialHooks[j]] => i = j
  /\ MaxChanges \in Nat

VARIABLES
  pc,        \* "idle", "asking" or "returned"
  call,      \* the arguments
  hooks,     \* the sorted list the call works through
  mods,      \* cumulative_modifications
  action,    \* final_action
  heard,     \* what the hooks answered, in order
  due,       \* history: the enabled hooks of the event when the call began
  changes    \* how often the registry was changed

pipeline == <<pc, call, hooks, mods, action, heard, due>>
vars == <<registry, pipeline, changes>>

-----------------------------------------------------------------------------
(* Dictionaries *)

Leaf(v) == <<"leaf", v>>
Dict(d) == <<"dict", d>>
IsDict(x) == x[1] = "dict"
NoMods == <<>>

(* deep_merge of dictionaries that hold leaves only; a faulty variant of   *)
(* deep_merge for the others.                                              *)
shallow_merge(base, override) ==
  [k \in DOMAIN base \cup DOMAIN override |->
     IF k \in DOMAIN override THEN override[k] ELSE base[k]]

(* Inner dictionaries of both are merged, anything else is replaced. *)
MergeKey(base, override, k) ==
  IF k \notin DOMAIN override THEN base[k]
  ELSE IF k \in DOMAIN base /\ IsDict(base[k]) /\ IsDict(override[k])
       THEN Dict(shallow_merge(base[k][2], override[k][2]))
       ELSE override[k]

deep_merge(base, override) ==
  [k \in DOMAIN base \cup DOMAIN override |-> MergeKey(base, override, k)]

-----------------------------------------------------------------------------
(* The pipeline *)

(* list.sort is stable: equal priorities keep the order of registration. *)
Sorted(s) ==
  LET I == DOMAIN s
      Before(i, j) == \/ Priority[s[i]] < Priority[s[j]]
                      \/ Priority[s[i]] = Priority[s[j]] /\ i < j
  IN Arranged(s, I, {p \in I \X I : Before(p[1], p[2])})

start ==
  /\ pc = "idle"
  /\ call' \in Calls
  /\ hooks' = IF call'.event \in Groups THEN Sorted(get_for_event(call'.event))
              ELSE <<>>
  /\ due' = {h \in list_enabled : GroupOf[h] = call'.event}
  /\ pc' = IF hooks' = <<>> THEN "returned" ELSE "asking"
  /\ UNCHANGED <<mods, action, heard>>

(* What the next hook gets: a copy with all modifications so far. *)
hook_context == deep_merge(call.context, mods)

\* faulty variant
StopOnRetry(a) ==
  pc' = IF Len(heard') = Len(hooks) \/ a.action = "RETRY"
        THEN "returned" ELSE "asking"

Proceed(a) == pc' = IF Len(heard') = Len(hooks) THEN "returned" ELSE "asking"

\* faulty variant
TerminalGoesOn(a) ==
  /\ a.action \in Terminal
  /\ UNCHANGED <<mods, action>> /\ Proceed(a)

(* The modifications that come with a terminal answer are dropped. *)
Terminate(a) ==
  /\ a.action \in Terminal
  /\ action' = a.action /\ UNCHANGED mods
  /\ pc' = "returned"

Modify(a) ==
  /\ a.action = "MODIFY" /\ a.mods # NoMods
  /\ mods' = deep_merge(mods, a.mods)
  /\ action' = "MODIFY"
  /\ Proceed(a)

\* faulty variant
FailPassedOn(a) ==
  /\ a.action = "RAISE"
  /\ action' = a.action /\ mods' = NoMods
  /\ pc' = "returned"

(* An exception gives a fresh BLOCK without modifications. *)
Fail(a) ==
  /\ a.action = "RAISE"
  /\ action' = "BLOCK" /\ mods' = NoMods
  /\ pc' = "returned"

Retry(a) ==
  /\ a.action = "RETRY"
  /\ action' = "RETRY" /\ UNCHANGED mods
  /\ Proceed(a)

(* CONTINUE, whatever it carries, and MODIFY without modifications. *)
PassOver(a) ==
  /\ a.action = "CONTINUE" \/ (a.action = "MODIFY" /\ a.mods = NoMods)
  /\ UNCHANGED <<mods, action>>
  /\ Proceed(a)

ask ==
  /\ pc = "asking"
  /\ \E a \in Answer(hooks[Len(heard) + 1], hook_context) :
       /\ heard' = Append(heard, a)
       /\ Terminate(a) \/ Modify(a) \/ Fail(a) \/ Retry(a) \/ PassOver(a)
  /\ UNCHANGED <<call, hooks, due>>

(* Somebody changes the registry before the call or while a hook awaits. *)
change ==
  /\ pc # "returned"
  /\ changes < MaxChanges /\ changes' = changes + 1
  /\ RegistryStep

Init ==
  /\ byName = [n \in {NameOf[h] : h \in Range(InitialHooks)} |->
                 CHOOSE h \in Range(InitialHooks) : NameOf[h] = n]
  /\ byGroup = [g \in Groups |->
                  Selected(InitialHooks, {i \in DOMAIN InitialHooks :
                                            GroupOf[InitialHooks[i]] = g})]
  /\ enabled = Objects
  /\ pc = "idle"
  /\ call = [event |-> "", context |-> <<>>]
  /\ hooks = <<>>
  /\ mods = NoMods
  /\ action = "CONTINUE"
  /\ heard = <<>>
  /\ due = {}
  /\ changes = 0

Next ==
  \/ (start \/ ask) /\ UNCHANGED <<registry, changes>>
  \/ change /\ UNCHANGED pipeline

Spec == Init /\ [][Next]_vars

-----------------------------------------------------------------------------
(* Properties *)

TypeOK ==
  /\ RegistryTypeOK
  /\ pc \in {"idle", "asking", "returned"}
  /\ hooks \in Seq(Objects)
  /\ action \in AnswerAction \ {"RAISE"}
  /\ \A i \in DOMAIN heard : heard[i].action \in AnswerAction
  /\ Len(heard) <= Len(hooks)
  /\ due \subseteq Objects
  /\ changes \in 0..MaxChanges

(* A call that was not ended by a terminal answer or an exception has      *)
(* asked every hook that was registered and enabled for its event when it  *)
(* began, in the order of their priorities, however the registry has       *)
(* changed since and before.                                               *)
EnabledHooksAreAsked ==
  pc = "returned" /\ action \notin Terminal =>
    /\ Len(heard) = Len(hooks)
    /\ due \subseteq Range(hooks)
    /\ \A i, j \in DOMAIN hooks :
         i < j => Priority[hooks[i]] <= Priority[hooks[j]]

(* The answers whose modifications count. *)
Writers == {i \in DOMAIN heard : heard[i].action = "MODIFY"}

(* docs/hooks.md:118: what a hook wrote under a key, or under a key of an  *)
(* inner dictionary, is found there in the result unless a later hook      *)
(* wrote it again, and the result has no other keys. A hook that raised    *)
(* takes all modifications with it.                                        *)
LastWriterWins ==
  (\A i \in DOMAIN heard : heard[i].action # "RAISE") =>
    /\ DOMAIN mods = UNION {DOMAIN heard[i].mods : i \in Writers}
    /\ \A i \in Writers : \A k \in DOMAIN heard[i].mods :
         LET v == heard[i].mods[k]
             later == {j \in Writers : j > i /\ k \in DOMAIN heard[j].mods}
         IN IF ~IsDict(v) THEN later = {} => mods[k] = v
            ELSE \A s \in DOMAIN v[2] :
                   (\A j \in later : /\ IsDict(heard[j].mods[k])
                                     /\ s \notin DOMAIN heard[j].mods[k][2])
                     => /\ IsDict(mods[k]) /\ s \in DOMAIN mods[k][2]
                        /\ mods[k][2][s] = v[2][s]
=============================================================================
