-------------------------- MODULE RepositoryCache --------------------------
(***************************************************************************)
(* The cache of open OCI registry repositories,                            *)
(* src/pkg/oci/repositories/ocireg/cache.go: Repositories.GetRepository.   *)
(*                                                                         *)
(* GetRepository takes the cache's mutex, looks the spec's BaseURL up and, *)
(* on a miss, creates the repository (spec.Repository, which may fail)    *)
(* and stores it, all before the deferred Unlock.  Creating a handle is a *)
(* step of its own, so a lookup that releases the lock too early would    *)
(* show.  Handles are numbered in the order they are created.             *)
(***************************************************************************)
EXTENDS Naturals, FiniteSets

CONSTANTS
    Threads,         \* goroutines calling GetRepository
    Names,           \* BaseURLs of the repository specs they pass
    CreateFailures,  \* whether spec.Repository may fail
    MaxCalls,        \* bound on the number of calls
    NoThread, NoHandle

ASSUME CreateFailures \in BOOLEAN /\ MaxCalls \in Nat

\* At most one handle per name is ever created.
Handles == 1..Cardinality(Names)

VARIABLES
    repos,       \* name -> the cached handle (r.repos)
    nextHandle,  \* number of the next handle spec.Repository creates
    lock,        \* the thread holding r.lock
    pc,          \* thread -> step of its call
    name,        \* thread -> the name it looks up
    got,         \* thread -> the handle its last call returned
    calls

vars == <<repos, nextHandle, lock, pc, name, got, calls>>

TypeOK ==
    /\ repos \in [Names -> Handles \cup {NoHandle}]
    /\ nextHandle \in 1..(Cardinality(Handles) + 1)
    /\ lock \in Threads \cup {NoThread}
    /\ pc \in [Threads -> {"idle", "lock", "create"}]
    /\ name \in [Threads -> Names]
    /\ got \in [Threads -> Handles \cup {NoHandle}]
    /\ calls \in 0..MaxCalls

Init ==
    /\ repos = [n \in Names |-> NoHandle]
    /\ nextHandle = 1
    /\ lock = NoThread
    /\ pc = [t \in Threads |-> "idle"]
    /\ name \in [Threads -> Names]
    /\ got = [t \in Threads |-> NoHandle]
    /\ calls = 0

\* A caller invokes GetRepository for some spec.
Call(t) ==
    /\ pc[t] = "idle" /\ calls < MaxCalls
    /\ calls' = calls + 1
    /\ \E n \in Names : name' = [name EXCEPT ![t] = n]
    /\ pc' = [pc EXCEPT ![t] = "lock"]
    /\ UNCHANGED <<repos, nextHandle, lock, got>>

\* A plausible bug: the lock is released after a miss, before creating.
MutLookup(t) ==
    /\ pc[t] = "lock" /\ lock = NoThread
    /\ IF repos[name[t]] # NoHandle
         THEN /\ got' = [got EXCEPT ![t] = repos[name[t]]]
              /\ pc' = [pc EXCEPT ![t] = "idle"]
         ELSE /\ pc' = [pc EXCEPT ![t] = "create"]
              /\ UNCHANGED got
    /\ UNCHANGED <<repos, nextHandle, lock, name, calls>>

\* r.lock.Lock(); repo := r.repos[name]: a hit is returned (and the lock
\* released by the deferred Unlock), a miss goes on to create the handle.
Lookup(t) ==
    /\ pc[t] = "lock" /\ lock = NoThread
    /\ IF repos[name[t]] # NoHandle
         THEN /\ got' = [got EXCEPT ![t] = repos[name[t]]]
              /\ pc' = [pc EXCEPT ![t] = "idle"]
              /\ UNCHANGED lock
         ELSE /\ pc' = [pc EXCEPT ![t] = "create"]
              /\ lock' = t
              /\ UNCHANGED got
    /\ UNCHANGED <<repos, nextHandle, name, calls>>

\* A plausible bug: the error path returns without the Unlock.
MutCreate(t) ==
    /\ pc[t] = "create"
    /\ \/ /\ repos' = [repos EXCEPT ![name[t]] = nextHandle]
          /\ got' = [got EXCEPT ![t] = nextHandle]
          /\ nextHandle' = nextHandle + 1
          /\ lock' = IF lock = t THEN NoThread ELSE lock
       \/ /\ CreateFailures
          /\ got' = [got EXCEPT ![t] = NoHandle]
          /\ UNCHANGED <<repos, nextHandle, lock>>
    /\ pc' = [pc EXCEPT ![t] = "idle"]
    /\ UNCHANGED <<name, calls>>

\* spec.Repository(ctx, creds) returns a new handle, stored in r.repos and
\* returned; or it fails and the error is returned.  Either way Unlock.
Create(t) ==
    /\ pc[t] = "create"
    /\ \/ /\ repos' = [repos EXCEPT ![name[t]] = nextHandle]
          /\ got' = [got EXCEPT ![t] = nextHandle]
          /\ nextHandle' = nextHandle + 1
       \/ /\ CreateFailures
          /\ got' = [got EXCEPT ![t] = NoHandle]
          /\ UNCHANGED <<repos, nextHandle>>
    /\ pc' = [pc EXCEPT ![t] = "idle"]
    /\ lock' = IF lock = t THEN NoThread ELSE lock
    /\ UNCHANGED <<name, calls>>

Next == \E t \in Threads : Call(t) \/ Lookup(t) \/ Create(t)

\* Lock acquisition is strongly fair (sync.Mutex starvation mode), the
\* creation step weakly fair.
Spec == Init /\ [][Next]_vars
        /\ \A t \in Threads : SF_vars(Lookup(t)) /\ WF_vars(Create(t))

-----------------------------------------------------------------------------
(* Properties.                                                              *)

Atomic == INSTANCE AtomicRepositoryCache WITH busy <- [t \in Threads |-> pc[t] # "idle"]

\* GetRepository implements the atomic cache: under the mutex, the miss of
\* a lookup and the insert of the created handle act as one step (the
\* Create, or the Lookup of a hit, is where the call takes effect), so a
\* cached handle is never replaced; and every call returns (the abstract
\* spec's fairness), since every path of GetRepository ends in the deferred
\* Unlock.
CacheRefinement == Atomic!Spec

=============================================================================
