----------------------- MODULE AtomicRepositoryCache -----------------------
(***************************************************************************)
(* What the repository-handle cache promises (spec section 5: its read-    *)
(* check-then-insert is atomic, so no duplicate remote handle is created). *)
(* A call is invoked, and later returns in ONE step that either hands out  *)
(* the cached handle of the name, or, when there is none, creates a new    *)
(* handle and caches it, or fails and caches nothing.  A cached handle is  *)
(* never replaced.                                                         *)
(***************************************************************************)
EXTENDS Naturals

CONSTANTS Threads, Names, CreateFailures, MaxCalls, NoHandle

VARIABLES
    repos,       \* name -> cached handle
    nextHandle,  \* the handle the next creation makes
    busy,        \* thread -> whether it has a call in progress
    name,        \* thread -> the name of its call
    got,         \* thread -> the handle its last call returned
    calls

vars == <<repos, nextHandle, busy, name, got, calls>>

Init ==
    /\ repos = [n \in Names |-> NoHandle]
    /\ nextHandle = 1
    /\ busy = [t \in Threads |-> FALSE]
    /\ name \in [Threads -> Names]
    /\ got = [t \in Threads |-> NoHandle]
    /\ calls = 0

Invoke(t) ==
    /\ ~busy[t] /\ calls < MaxCalls
    /\ calls' = calls + 1
    /\ \E n \in Names : name' = [name EXCEPT ![t] = n]
    /\ busy' = [busy EXCEPT ![t] = TRUE]
    /\ UNCHANGED <<repos, nextHandle, got>>

\* The whole call, atomically: hit, create-and-insert, or fail.
Return(t) ==
    LET n == name[t] IN
    /\ busy[t]
    /\ \/ /\ repos[n] # NoHandle
          /\ got' = [got EXCEPT ![t] = repos[n]]
          /\ UNCHANGED <<repos, nextHandle>>
       \/ /\ repos[n] = NoHandle
          /\ repos' = [repos EXCEPT ![n] = nextHandle]
          /\ got' = [got EXCEPT ![t] = nextHandle]
          /\ nextHandle' = nextHandle + 1
       \/ /\ repos[n] = NoHandle /\ CreateFailures
          /\ got' = [got EXCEPT ![t] = NoHandle]
          /\ UNCHANGED <<repos, nextHandle>>
    /\ busy' = [busy EXCEPT ![t] = FALSE]
    /\ UNCHANGED <<name, calls>>

Next == \E t \in Threads : Invoke(t) \/ Return(t)

\* Every call in progress returns.
Spec == Init /\ [][Next]_vars /\ \A t \in Threads : WF_vars(Return(t))

=============================================================================
