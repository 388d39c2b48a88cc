--------------------------- MODULE ActionRegistry ---------------------------
(***************************************************************************)
(* The action type registry of                                            *)
(* src/pkg/contexts/datacontext/action/api/registry.go.                   *)
(*                                                                         *)
(* A registry maps action names to actions (description + a map from     *)
(* version to action type) and keeps two type schemes, one decoding       *)
(* action specifications and one decoding action results.  All methods    *)
(* but the Decode/Encode ones take the registry's mutex; Decode reads a   *)
(* type scheme without it.  RegisterActionType writes three structures    *)
(* while holding the mutex (the action's type map, then the spec scheme,  *)
(* then the result scheme) and each write is its own step here, so lock-  *)
(* free decoders can observe the states in between.                       *)
(*                                                                         *)
(* Copy() produces a second registry.  Each action's type map is an       *)
(* object of its own (a Go map is a reference), kept in the heap tmaps:   *)
(* an action holds the id of its map, so whether two registries share a  *)
(* map is visible in the state.                                           *)
(*                                                                         *)
(* Type names are records [kind, version]; descriptions, usages and       *)
(* consumer attributes are abstracted to a description value.            *)
(***************************************************************************)
EXTENDS Naturals, FiniteSets

CONSTANTS
    Threads,      \* goroutines calling the registry
    Names,        \* action names (the kinds of action types)
    Versions,     \* versions of action types
    Descs,        \* descriptions a RegisterAction call may pass
    ActionTypes,  \* the action types callers register
    NoThread, NoAction, NoType,
    MaxCalls      \* bound on the number of calls, over all threads

TypeNames == [kind : Names, version : Versions]

ASSUME /\ ActionTypes \subseteq
            [kind : Names, version : Versions, spec : TypeNames, result : TypeNames]
       /\ MaxCalls \in Nat

\* The default registry and the one Copy() returns.
Regs == {"default", "copy"}
\* Ids of type-map objects: one per action per registry suffices.
TMIds == 1..(2 * Cardinality(Names))

Action == [desc : Descs, types : TMIds]
\* A type map is a Go map[string]ActionType.  RegisterActionType keys it by
\* typ.GetVersion(), Copy keys it by t.GetType(), the full type name.
\* A key "v1" is written [kind |-> "", version |-> "v1"], a key "a/v1" as the
\* type name [kind |-> a, version |-> "v1"].
VersionKey(v) == [kind |-> "", version |-> v]
Keys == {VersionKey(v) : v \in Versions} \cup TypeNames
TypeMap == [Keys -> ActionTypes \cup {NoType}]
\* t.GetType() of an action type: its own kind and version.
TypeNameOf(ty) == [kind |-> ty.kind, version |-> ty.version]

Ops == {"RegisterAction", "RegisterActionType", "Copy", "GetAction",
        "DecodeActionSpec", "DecodeActionResult"}

VARIABLES
    exists,   \* registry -> whether it has been created
    actions,  \* registry -> name -> its action (r.actions)
    tmaps,    \* type-map id -> version -> action type (the maps a.types)
    nextTM,   \* the next unused type-map id
    specs,    \* registry -> type names r.actionspecs can decode
    results,  \* registry -> type names r.resultspecs can decode
    lock,     \* registry -> the thread holding r.lock
    pc,       \* thread -> step of its current call
    arg,      \* thread -> the registry and argument of its current call
    ret,      \* thread -> result of its last call
    calls     \* number of calls started

vars == <<exists, actions, tmaps, nextTM, specs, results, lock, pc, arg, ret, calls>>

Results == {"none", "ok", "err", "unknown"}

TypeOK ==
    /\ exists \in [Regs -> BOOLEAN]
    /\ actions \in [Regs -> [Names -> Action \cup {NoAction}]]
    /\ tmaps \in [TMIds -> TypeMap]
    /\ nextTM \in 1..(Cardinality(TMIds) + 1)
    /\ specs \in [Regs -> SUBSET TypeNames]
    /\ results \in [Regs -> SUBSET TypeNames]
    /\ lock \in [Regs -> Threads \cup {NoThread}]
    /\ pc \in [Threads -> {"idle", "wait", "spec", "result"}]
    /\ arg \in [Threads -> [op : Ops \cup {"none"}, reg : Regs,
                            name : Names \cup {NoAction}, desc : Descs \cup {NoAction},
                            typ : ActionTypes \cup {NoType}, tn : TypeNames \cup {NoType}]]
    /\ ret \in [Threads -> Results]
    /\ calls \in 0..MaxCalls

NoArg == [op |-> "none", reg |-> "default", name |-> NoAction, desc |-> NoAction,
          typ |-> NoType, tn |-> NoType]

\* NewActionTypeRegistry() for the default registry.
Init ==
    /\ exists = [r \in Regs |-> r = "default"]
    /\ actions = [r \in Regs |-> [n \in Names |-> NoAction]]
    /\ tmaps = [i \in TMIds |-> [k \in Keys |-> NoType]]
    /\ nextTM = 1
    /\ specs = [r \in Regs |-> {}]
    /\ results = [r \in Regs |-> {}]
    /\ lock = [r \in Regs |-> NoThread]
    /\ pc = [t \in Threads |-> "idle"]
    /\ arg = [t \in Threads |-> NoArg]
    /\ ret = [t \in Threads |-> "none"]
    /\ calls = 0

-----------------------------------------------------------------------------

Unlocked(r) == lock[r] = NoThread

\* Ending a call with result x.
Finish(t, x) ==
    /\ pc' = [pc EXCEPT ![t] = "idle"]
    /\ ret' = [ret EXCEPT ![t] = x]

\* The type names a decoder may find in its input: those of the types.
DecodableNames == {ty.spec : ty \in ActionTypes} \cup {ty.result : ty \in ActionTypes}

\* The model follows one copy: Copy() is called at most once.
CopyPending == \E u \in Threads : pc[u] # "idle" /\ arg[u].op = "Copy"

\* The arguments each method takes, the others left empty.
CallArgs(r) ==
    {[NoArg EXCEPT !.op = "RegisterAction", !.reg = r, !.name = n, !.desc = d] :
        n \in Names, d \in Descs}
    \cup {[NoArg EXCEPT !.op = "RegisterActionType", !.reg = r, !.typ = ty] : ty \in ActionTypes}
    \cup {[NoArg EXCEPT !.op = "GetAction", !.reg = r, !.name = n] : n \in Names}
    \cup {[NoArg EXCEPT !.op = op, !.reg = r, !.tn = tn] :
            op \in {"DecodeActionSpec", "DecodeActionResult"}, tn \in DecodableNames}
    \cup (IF r = "default" /\ ~exists["copy"] /\ ~CopyPending
             THEN {[NoArg EXCEPT !.op = "Copy", !.reg = r]} ELSE {})

\* A call starts: the thread picks a created registry, a method and its arguments.
Call(t) ==
    /\ pc[t] = "idle"
    /\ calls < MaxCalls
    /\ calls' = calls + 1
    /\ \E r \in Regs : exists[r] /\ \E x \in CallArgs(r) : arg' = [arg EXCEPT ![t] = x]
    /\ pc' = [pc EXCEPT ![t] = "wait"]
    /\ UNCHANGED <<exists, actions, tmaps, nextTM, specs, results, lock, ret>>

\* A plausible bug: a registered name is not rejected but replaced.
MutRegisterAction(t) ==
    LET r == arg[t].reg  n == arg[t].name IN
    /\ pc[t] = "wait" /\ arg[t].op = "RegisterAction"
    /\ Unlocked(r)
    /\ actions' = [actions EXCEPT ![r][n] = [desc |-> arg[t].desc, types |-> nextTM]]
    /\ nextTM' = nextTM + 1
    /\ Finish(t, "ok")
    /\ UNCHANGED <<exists, tmaps, specs, results, lock, arg, calls>>

\* RegisterAction(name, description, usage, attrs): under the lock, reject a
\* name already registered, else add an action with a fresh, empty type map.
RegisterAction(t) ==
    LET r == arg[t].reg  n == arg[t].name IN
    /\ pc[t] = "wait" /\ arg[t].op = "RegisterAction"
    /\ Unlocked(r)
    /\ IF actions[r][n] # NoAction
         THEN Finish(t, "err") /\ UNCHANGED <<actions, nextTM>>
         ELSE /\ actions' = [actions EXCEPT ![r][n] = [desc |-> arg[t].desc, types |-> nextTM]]
              /\ nextTM' = nextTM + 1
              /\ Finish(t, "ok")
    /\ UNCHANGED <<exists, tmaps, specs, results, lock, arg, calls>>

\* A plausible bug: the action's type map is written before the checks.
MutRegisterTypeCheck(t) ==
    LET r == arg[t].reg  ty == arg[t].typ  ai == actions[r][ty.kind] IN
    /\ pc[t] = "wait" /\ arg[t].op = "RegisterActionType"
    /\ Unlocked(r)
    /\ IF ai = NoAction
         THEN Finish(t, "err") /\ UNCHANGED <<tmaps, lock>>
         ELSE /\ tmaps' = [tmaps EXCEPT ![ai.types][VersionKey(ty.version)] = ty]
              /\ IF ty.spec # ty.result \/ ty.spec.kind # ty.kind
                   THEN Finish(t, "err") /\ UNCHANGED lock
                   ELSE /\ lock' = [lock EXCEPT ![r] = t]
                        /\ pc' = [pc EXCEPT ![t] = "spec"]
                        /\ UNCHANGED ret
    /\ UNCHANGED <<exists, actions, nextTM, specs, results, arg, calls>>

\* RegisterActionType(typ), first step: take the lock; fail if no action of
\* typ's kind exists, if the spec and result type names differ ("version
\* mismatch") or if the spec's kind is not the action's; else store typ in
\* ai.types[typ.GetVersion()].  On error the deferred Unlock releases the lock.
RegisterTypeCheck(t) ==
    LET r == arg[t].reg  ty == arg[t].typ  ai == actions[r][ty.kind] IN
    /\ pc[t] = "wait" /\ arg[t].op = "RegisterActionType"
    /\ Unlocked(r)
    /\ IF ai = NoAction \/ ty.spec # ty.result \/ ty.spec.kind # ty.kind
         THEN Finish(t, "err") /\ UNCHANGED <<tmaps, lock>>
         ELSE /\ tmaps' = [tmaps EXCEPT ![ai.types][VersionKey(ty.version)] = ty]
              /\ lock' = [lock EXCEPT ![r] = t]
              /\ pc' = [pc EXCEPT ![t] = "spec"]
              /\ UNCHANGED ret
    /\ UNCHANGED <<exists, actions, nextTM, specs, results, arg, calls>>

\* r.actionspecs.Register(typ.SpecificationType()).
RegisterSpecType(t) ==
    LET r == arg[t].reg IN
    /\ pc[t] = "spec"
    /\ specs' = [specs EXCEPT ![r] = @ \cup {arg[t].typ.spec}]
    /\ pc' = [pc EXCEPT ![t] = "result"]
    /\ UNCHANGED <<exists, actions, tmaps, nextTM, results, lock, arg, ret, calls>>

\* A plausible bug: the Unlock is missing on the success path.
MutRegisterResultType(t) ==
    LET r == arg[t].reg IN
    /\ pc[t] = "result"
    /\ results' = [results EXCEPT ![r] = @ \cup {arg[t].typ.result}]
    /\ Finish(t, "ok")
    /\ UNCHANGED <<exists, actions, tmaps, nextTM, specs, lock, arg, calls>>

\* r.resultspecs.Register(typ.ResultType()); return nil, releasing the lock.
RegisterResultType(t) ==
    LET r == arg[t].reg IN
    /\ pc[t] = "result"
    /\ results' = [results EXCEPT ![r] = @ \cup {arg[t].typ.result}]
    /\ lock' = [lock EXCEPT ![r] = NoThread]
    /\ Finish(t, "ok")
    /\ UNCHANGED <<exists, actions, tmaps, nextTM, specs, arg, calls>>

\* The copy of the registry's actions (a := *v; a.types = map{...}):
\* action n of the copy gets the new type map id base+k.
CopyActions(r, base) ==
    LET reg == {n \in Names : actions[r][n] # NoAction}
        \* a fixed numbering of the registered names
        idx(n) == Cardinality({m \in reg : actions[r][m].types < actions[r][n].types})
    IN [n \in Names |-> IF n \in reg
                          THEN [desc |-> actions[r][n].desc, types |-> base + idx(n)]
                          ELSE NoAction]

\* for _, t := range v.types { a.types[t.GetType()] = t }: the new map holds
\* every type of m under its full type name.  (Two types of m with one type
\* name would make the result depend on the map's iteration order; the
\* registered types never share one.)
CopyTypeMap(m) ==
    LET vals == {m[k] : k \in Keys} \ {NoType} IN
    [k \in Keys |-> IF \E ty \in vals : TypeNameOf(ty) = k
                      THEN CHOOSE ty \in vals : TypeNameOf(ty) = k
                      ELSE NoType]

\* The heap after copying the type maps of registry r into the ids of new.
CopiedTypeMaps(r, new) ==
    [i \in TMIds |->
        IF \E n \in Names : new[n] # NoAction /\ new[n].types = i
          THEN CopyTypeMap(tmaps[actions[r][CHOOSE n \in Names : new[n] # NoAction /\ new[n].types = i].types])
          ELSE tmaps[i]]

\* A plausible bug: Copy runs without taking r.lock.
MutCopy(t) ==
    LET r == arg[t].reg
        reg == {n \in Names : actions[r][n] # NoAction}
        new == CopyActions(r, nextTM)
    IN
    /\ pc[t] = "wait" /\ arg[t].op = "Copy"
    /\ exists' = [exists EXCEPT !["copy"] = TRUE]
    /\ actions' = [actions EXCEPT !["copy"] = new]
    /\ tmaps' = CopiedTypeMaps(r, new)
    /\ nextTM' = nextTM + Cardinality(reg)
    /\ specs' = [specs EXCEPT !["copy"] = specs[r]]
    /\ results' = [results EXCEPT !["copy"] = results[r]]
    /\ Finish(t, "ok")
    /\ UNCHANGED <<lock, arg, calls>>

\* A plausible bug: a shallow copy, the copy's actions share the type maps.
MutCopyShallow(t) ==
    LET r == arg[t].reg IN
    /\ pc[t] = "wait" /\ arg[t].op = "Copy"
    /\ Unlocked(r)
    /\ exists' = [exists EXCEPT !["copy"] = TRUE]
    /\ actions' = [actions EXCEPT !["copy"] = actions[r]]
    /\ specs' = [specs EXCEPT !["copy"] = specs[r]]
    /\ results' = [results EXCEPT !["copy"] = results[r]]
    /\ Finish(t, "ok")
    /\ UNCHANGED <<tmaps, nextTM, lock, arg, calls>>

\* Copy(): under the lock, copy every action with a new type map holding the
\* same types, and new type schemes with the known types of the old ones.
Copy(t) ==
    LET r == arg[t].reg
        reg == {n \in Names : actions[r][n] # NoAction}
        new == CopyActions(r, nextTM)
    IN
    /\ pc[t] = "wait" /\ arg[t].op = "Copy"
    /\ Unlocked(r)
    /\ exists' = [exists EXCEPT !["copy"] = TRUE]
    /\ actions' = [actions EXCEPT !["copy"] = new]
    /\ tmaps' = CopiedTypeMaps(r, new)
    /\ nextTM' = nextTM + Cardinality(reg)
    /\ specs' = [specs EXCEPT !["copy"] = specs[r]]
    /\ results' = [results EXCEPT !["copy"] = results[r]]
    /\ Finish(t, "ok")
    /\ UNCHANGED <<lock, arg, calls>>

\* GetAction(name) / SupportedActionVersions(name): read under the lock.
GetAction(t) ==
    LET r == arg[t].reg IN
    /\ pc[t] = "wait" /\ arg[t].op = "GetAction"
    /\ Unlocked(r)
    /\ Finish(t, IF actions[r][arg[t].name] = NoAction THEN "unknown" ELSE "ok")
    /\ UNCHANGED <<exists, actions, tmaps, nextTM, specs, results, lock, arg, calls>>

\* DecodeActionSpec / DecodeActionResult(data): the type scheme decodes the
\* type name found in data, or fails with an unknown-type error; no r.lock.
Decode(t) ==
    LET r == arg[t].reg
        known == IF arg[t].op = "DecodeActionSpec" THEN specs[r] ELSE results[r]
    IN
    /\ pc[t] = "wait" /\ arg[t].op \in {"DecodeActionSpec", "DecodeActionResult"}
    /\ Finish(t, IF arg[t].tn \in known THEN "ok" ELSE "unknown")
    /\ UNCHANGED <<exists, actions, tmaps, nextTM, specs, results, lock, arg, calls>>

Next ==
    \E t \in Threads :
        \/ Call(t) \/ RegisterAction(t) \/ RegisterTypeCheck(t)
        \/ RegisterSpecType(t) \/ RegisterResultType(t) \/ Copy(t)
        \/ GetAction(t) \/ Decode(t)

\* The lock is a sync.Mutex: a goroutine blocked in Lock() past 1ms puts the
\* mutex in starvation mode, which hands it over in FIFO order, so a
\* thread that waits for an unlocked registry infinitely often gets it (SF).
\* Steps that take no lock are weakly fair.
Fairness ==
    \A t \in Threads :
        /\ SF_vars(RegisterAction(t)) /\ SF_vars(RegisterTypeCheck(t))
        /\ SF_vars(Copy(t)) /\ SF_vars(GetAction(t))
        /\ WF_vars(RegisterSpecType(t)) /\ WF_vars(RegisterResultType(t))
        /\ WF_vars(Decode(t))

Spec == Init /\ [][Next]_vars /\ Fairness

-----------------------------------------------------------------------------
(* Properties.                                                              *)

\* What registry r shows its users: each action with its description and
\* the contents of its type map, and the two schemes.
View(r) ==
    [acts |-> [n \in Names |->
                 IF actions[r][n] = NoAction THEN NoAction
                 ELSE [desc |-> actions[r][n].desc, types |-> tmaps[actions[r][n].types]]],
     specs |-> specs[r], results |-> results[r]]

RegisteredTypes(r) ==
    {tmaps[actions[r][n].types][k] : n \in {m \in Names : actions[r][m] # NoAction}, k \in Keys}
        \ {NoType}

\* Whenever nobody holds a registry's lock, every action type in its actions
\* can be decoded: its spec and result type names are in the two schemes.
\* This holds of the copy too, since Copy takes the lock that
\* RegisterActionType holds across its three writes.
SchemesCoverTypes ==
    \A r \in Regs :
        exists[r] /\ Unlocked(r) =>
            \A ty \in RegisteredTypes(r) : ty.spec \in specs[r] /\ ty.result \in results[r]

\* A registry and its copy are independent: a step of a call on one
\* registry never changes what the other one shows.
CopyIsolated ==
    [][\A r \in Regs :
         exists[r] /\ View(r)' # View(r) =>
            \E t \in Threads : arg[t].reg = r /\ pc[t] # "idle" /\ pc'[t] # pc[t]]_vars

\* A RegisterActionType or RegisterAction call that returns an error leaves
\* the registry as it was (spec: no partial registration remains).
RejectedCallsLeaveNoTrace ==
    [][\A t \in Threads :
         (pc[t] = "wait" /\ pc'[t] = "idle" /\ ret'[t] = "err")
            => View(arg[t].reg)' = View(arg[t].reg)]_vars

\* SupportedActionVersions(name): the keys of the action's type map.
SupportedActionVersions(r, n) ==
    IF actions[r][n] = NoAction THEN {}
    ELSE {k \in Keys : tmaps[actions[r][n].types][k] # NoType}

\* SupportedActionVersions returns versions, in the original and in a copy
\* alike (spec: copy() is pre-populated with all current entries).
SupportedVersionsAreVersions ==
    \A r \in Regs, n \in Names : exists[r] => SupportedActionVersions(r, n) \subseteq {VersionKey(v) : v \in Versions}

\* Every call returns: no thread waits forever for a registry's lock.
CallsReturn == \A t \in Threads : pc[t] # "idle" ~> pc[t] = "idle"

=============================================================================
