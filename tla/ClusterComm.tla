---------------------------- MODULE ClusterComm ----------------------------
(***************************************************************************)
(* The cluster layer's connection path (spec sections 4.6, 4.7 and 5; the *)
(* Go source of orderer/common/cluster is not in this repository beyond    *)
(* util_test.go, so the module is written from the spec).                  *)
(*                                                                         *)
(* The goroutines of StubActivation call Stub.Activate(factory); the       *)
(* factory dials the remote member through the Pinning Dialer.  The       *)
(* dialer's ClientConfig cell is an atomic.Value that a config-block       *)
(* refresh (EndpointconfigFromConfigBlock, then Store) replaces whole      *)
(* while a dial is in flight.  Dial is split into the steps between which  *)
(* the refresh may run: load the config, build the root pool from it       *)
(* (failing on the first unparsable root CA), and the TLS handshake.  The  *)
(* stub's lock serialises factory calls, so at most one dial is in flight. *)
(***************************************************************************)
EXTENDS Naturals, FiniteSets

CONSTANTS
    Callers, MaxCalls, NULL, ERR,   \* as in StubActivation
    Roots,        \* parsable root CA certificates
    BAD,          \* a root CA entry that does not parse (TestDialerBadConfig)
    ServerCA,     \* the CA that issued the remote member's TLS certificate
    RootSets,     \* ServerRootCAs a config block may carry
    InitRoots,    \* ServerRootCAs given to NewTLSPinningDialer
    MaxRefresh    \* config blocks committed in a behaviour

ASSUME /\ ServerCA \in Roots /\ BAD \notin Roots
       /\ RootSets \subseteq SUBSET (Roots \cup {BAD}) /\ InitRoots \in RootSets

VARIABLES
    lock, remoteContext, pc, calls, invocations, observed,  \* the stub
    config,     \* dialer.Config: the ServerRootCAs of the stored ClientConfig
    refreshes,  \* config blocks applied so far
    dial        \* the in-flight dial of the lock holder, or NULL

S == INSTANCE StubActivation

stubVars == <<lock, remoteContext, pc, calls, invocations, observed>>
dialVars == <<config, refreshes, dial>>
vars == <<stubVars, dialVars>>

Steps == {"loaded", "pooled", "ok", "failed"}

-----------------------------------------------------------------------------
(* A configuration refresh triggered by a new config block (section 5):    *)
(* the new ClientConfig is stored whole (atomic.Value.Store).              *)
RefreshConfig ==
    /\ refreshes < MaxRefresh
    /\ \E r \in RootSets : config' = r
    /\ refreshes' = refreshes + 1
    /\ UNCHANGED <<stubVars, dial>>

(* Dial: cfg := dialer.Config.Load() *)
DialLoad(c) ==
    /\ pc[c] = "create" /\ dial = NULL
    /\ dial' = [step |-> "loaded", loaded |-> config, pool |-> {}]
    /\ UNCHANGED <<stubVars, config, refreshes>>

(* for each ServerRootCA: parse it into the pool, or fail with "error      *)
(* adding root certificate" before any network attempt.                    *)
BuildPool(c) ==
    /\ pc[c] = "create" /\ dial # NULL /\ dial.step = "loaded"
    /\ dial' = IF BAD \in dial.loaded
               THEN [dial EXCEPT !.step = "failed"]
               ELSE [dial EXCEPT !.step = "pooled", !.pool = dial.loaded]
    /\ UNCHANGED <<stubVars, config, refreshes>>

(* The mutual-TLS handshake: the server chain must verify against the     *)
(* pool (the pinning callback accepts the expected member's certificate);  *)
(* the transport may fail or time out on its own.                          *)
Handshake(c) ==
    /\ pc[c] = "create" /\ dial # NULL /\ dial.step = "pooled"
    /\ \E reachable \in BOOLEAN :
           dial' = [dial EXCEPT !.step =
                      IF reachable /\ ServerCA \in dial.pool THEN "ok" ELSE "failed"]
    /\ UNCHANGED <<stubVars, config, refreshes>>

(* createRemoteContext returns: Activate stores the context iff the dial   *)
(* gave a connection, and the next factory call dials afresh.              *)
Create(c) ==
    /\ dial # NULL /\ dial.step \in {"ok", "failed"}
    /\ S!Create(c)
    /\ (remoteContext' # NULL) = (dial.step = "ok")
    /\ dial' = NULL
    /\ UNCHANGED <<config, refreshes>>

Init ==
    /\ S!Init
    /\ config = InitRoots
    /\ refreshes = 0
    /\ dial = NULL

Next ==
    \/ RefreshConfig
    \/ \E c \in Callers :
           \/ S!Call(c) /\ UNCHANGED dialVars
           \/ S!Acquire(c) /\ UNCHANGED dialVars
           \/ S!Check(c) /\ UNCHANGED dialVars
           \/ DialLoad(c) \/ BuildPool(c) \/ Handshake(c)
           \/ Create(c)

(* The stub's fairness, with every dial step weakly fair: Dial respects    *)
(* its timeout (spec section 5), so a dial in flight always finishes.      *)
(* Config blocks arrive when the channel commits them: not fair.           *)
Fairness ==
    \A c \in Callers :
        /\ SF_vars(S!Acquire(c) /\ UNCHANGED dialVars)
        /\ WF_vars(S!Check(c) /\ UNCHANGED dialVars)
        /\ WF_vars(DialLoad(c)) /\ WF_vars(BuildPool(c))
        /\ WF_vars(Handshake(c)) /\ WF_vars(Create(c))

Spec == Init /\ [][Next]_vars /\ Fairness

-----------------------------------------------------------------------------
(* Properties *)

TypeOK ==
    /\ S!TypeOK
    /\ config \in RootSets
    /\ refreshes \in 0 .. MaxRefresh
    /\ dial \in {NULL} \cup [step : Steps, loaded : RootSets, pool : RootSets \cup {{}}]

(* Stub.Activate over the dialer still refines the atomic create-or-attach *)
(* of StubAbstract, a failed dial leaving the stub unactivated.           *)
ImplementsAbstractStub == S!ImplementsAbstractStub

(* Every Activate returns, also when the dial fails on a bad root, an     *)
(* untrusted server or the transport.                                      *)
EveryCallReturns == S!EveryCallReturns

=============================================================================
