-------------------------- MODULE StubActivation ---------------------------
(***************************************************************************)
(* Connection Stub of the cluster layer (spec section 4.7; the Go source, *)
(* orderer/common/cluster, is not in this repository beyond its test      *)
(* TestParallelStubActivation, so this module is written from the spec).   *)
(* Activate(factory) takes the stub's lock, returns at once if a          *)
(* RemoteContext is already stored, else calls the factory and stores its  *)
(* result on success; the lock is released on every return path.  Each   *)
(* caller goroutine is a process with a program counter.                  *)
(***************************************************************************)
EXTENDS Naturals, FiniteSets

CONSTANTS
    Callers,   \* goroutines sharing one Stub
    MaxCalls,  \* Activate calls each goroutine makes
    NULL,      \* nil: no lock holder, no RemoteContext
    ERR        \* an Activate call that returned the factory's error

ASSUME MaxCalls \in Nat \ {0}

VARIABLES
    lock,           \* holder of stub.lock, or NULL
    remoteContext,  \* stub.RemoteContext: NULL or the id of a context
    pc,             \* program counter of each caller
    calls,          \* Activate calls each caller has made
    invocations,    \* factory invocations so far; a new context gets the next id
    observed        \* outcome of each caller's last Activate

vars == <<lock, remoteContext, pc, calls, invocations, observed>>

Contexts == 1 .. Cardinality(Callers) * MaxCalls

-----------------------------------------------------------------------------
(* Mutations: a stub that returns the factory's error without unlocking... *)
CreateLeakOnError(c) ==
    /\ pc[c] = "create"
    /\ invocations' = invocations + 1
    /\ \/ /\ remoteContext' = invocations + 1
          /\ observed' = [observed EXCEPT ![c] = invocations + 1]
          /\ lock' = NULL
       \/ /\ UNCHANGED <<remoteContext, lock>>
          /\ observed' = [observed EXCEPT ![c] = ERR]
    /\ pc' = [pc EXCEPT ![c] = "idle"]
    /\ UNCHANGED calls

(* ...and one that retries the factory, still holding the lock, until it succeeds. *)
CreateRetryOnError(c) ==
    /\ pc[c] = "create"
    /\ invocations' = invocations + 1
    /\ \/ /\ remoteContext' = invocations + 1
          /\ observed' = [observed EXCEPT ![c] = invocations + 1]
          /\ lock' = NULL
          /\ pc' = [pc EXCEPT ![c] = "idle"]
       \/ /\ UNCHANGED <<remoteContext, lock, observed>>
          /\ pc' = [pc EXCEPT ![c] = "check"]
    /\ UNCHANGED calls

(* ...and one that stores the factory's result before checking its error: *)
(* a failed dial leaves a half-made context in the stub.                   *)
CreateStoreBeforeCheck(c) ==
    /\ pc[c] = "create"
    /\ invocations' = invocations + 1
    /\ remoteContext' = invocations + 1
    /\ \E failed \in BOOLEAN :
           observed' = [observed EXCEPT ![c] = IF failed THEN ERR ELSE invocations + 1]
    /\ lock' = NULL
    /\ pc' = [pc EXCEPT ![c] = "idle"]
    /\ UNCHANGED calls

-----------------------------------------------------------------------------
(* A goroutine calls stub.Activate(factory). *)
Call(c) ==
    /\ pc[c] = "idle"
    /\ calls[c] < MaxCalls
    /\ pc' = [pc EXCEPT ![c] = "lock"]
    /\ calls' = [calls EXCEPT ![c] = @ + 1]
    /\ UNCHANGED <<lock, remoteContext, invocations, observed>>

(* stub.lock.Lock() *)
Acquire(c) ==
    /\ pc[c] = "lock"
    /\ lock = NULL
    /\ lock' = c
    /\ pc' = [pc EXCEPT ![c] = "check"]
    /\ UNCHANGED <<remoteContext, calls, invocations, observed>>

(* if stub.isActive() { return nil }, unlocking on return *)
Check(c) ==
    /\ pc[c] = "check"
    /\ IF remoteContext # NULL
       THEN /\ lock' = NULL
            /\ pc' = [pc EXCEPT ![c] = "idle"]
            /\ observed' = [observed EXCEPT ![c] = remoteContext]
       ELSE /\ pc' = [pc EXCEPT ![c] = "create"]
            /\ UNCHANGED <<lock, observed>>
    /\ UNCHANGED <<remoteContext, calls, invocations>>

(* remoteStub, err := createRemoteContext(); on error return it, else     *)
(* stub.RemoteContext = remoteStub; unlock on both paths.                 *)
Create(c) ==
    /\ pc[c] = "create"
    /\ invocations' = invocations + 1
    /\ \/ /\ remoteContext' = invocations + 1
          /\ observed' = [observed EXCEPT ![c] = invocations + 1]
       \/ /\ UNCHANGED remoteContext
          /\ observed' = [observed EXCEPT ![c] = ERR]
    /\ lock' = NULL
    /\ pc' = [pc EXCEPT ![c] = "idle"]
    /\ UNCHANGED calls

Init ==
    /\ lock = NULL
    /\ remoteContext = NULL
    /\ pc = [c \in Callers |-> "idle"]
    /\ calls = [c \in Callers |-> 0]
    /\ invocations = 0
    /\ observed = [c \in Callers |-> NULL]

Next == \E c \in Callers : Call(c) \/ Acquire(c) \/ Check(c) \/ Create(c)

(* Each goroutine keeps running once it has called Activate (weak         *)
(* fairness); a waiter on the lock gets it if it is free infinitely often  *)
(* (strong fairness: Go's sync.Mutex hands the lock to a starving waiter). *)
(* Calling Activate at all is up to the caller, so Call is not fair.       *)
Fairness ==
    \A c \in Callers : SF_vars(Acquire(c)) /\ WF_vars(Check(c)) /\ WF_vars(Create(c))

Spec == Init /\ [][Next]_vars /\ Fairness

-----------------------------------------------------------------------------
(* Properties *)

TypeOK ==
    /\ lock \in Callers \cup {NULL}
    /\ remoteContext \in Contexts \cup {NULL}
    /\ pc \in [Callers -> {"idle", "lock", "check", "create"}]
    /\ calls \in [Callers -> 0 .. MaxCalls]
    /\ invocations \in 0 .. Cardinality(Callers) * MaxCalls
    /\ observed \in [Callers -> Contexts \cup {NULL, ERR}]

(* Stub.Activate implements the atomic create-or-attach of StubAbstract:   *)
(* the stored context is set at most once and never replaced, and each     *)
(* caller's outcome is one an atomic Activate could have produced.         *)
Abstract == INSTANCE StubAbstract WITH ctx <- remoteContext, seen <- observed
ImplementsAbstractStub == Abstract!Spec

(* Every Activate call returns: nobody waits on the lock for ever, whether *)
(* the factory succeeds or fails.                                          *)
EveryCallReturns == \A c \in Callers : pc[c] = "lock" ~> pc[c] = "idle"
=============================================================================
