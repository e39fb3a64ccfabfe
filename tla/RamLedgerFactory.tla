-------------------------- MODULE RamLedgerFactory --------------------------
(***************************************************************************)
(* The orderer's in-memory ledger factory                                  *)
(* (fabric2/common/ledger/blockledger/ram/factory.go, ramLedgerFactory).   *)
(* Goroutines of the orderer (chain creation, deliver, the registrar) call *)
(* GetOrCreate and ChainIDs concurrently; both run under rlf.mutex, which  *)
(* `defer` releases when they return.                                      *)
(*                                                                         *)
(* Each call is split into the steps another goroutine could interleave    *)
(* with were the mutex not there: taking the lock, the map lookup, the     *)
(* store of a new chain, and the release.  A ledger created by newChain is *)
(* a fresh object, numbered by creation.                                   *)
(***************************************************************************)
EXTENDS Naturals, FiniteSets

CONSTANTS
    Threads,   \* goroutines calling into the factory
    Chains,    \* chain IDs
    NONE,      \* nil / not held
    MaxCalls   \* bound on the calls each goroutine makes

VARIABLES
    mutex,     \* rlf.mutex: the goroutine holding it, or NONE
    ledgers,   \* rlf.ledgers: chain ID -> ledger object, NONE if absent
    created,   \* number of ledgers newChain has created
    pc,        \* pc[t]: where goroutine t is
    arg,       \* arg[t]: the chain ID of t's GetOrCreate, NONE for ChainIDs
    ids,       \* ids[t]: the slice ChainIDs made, as the IDs filled in
    idsLen,    \* idsLen[t]: len(ids) as made from len(rlf.ledgers)
    ret,       \* ret[t]: what t's last GetOrCreate returned
    returned,  \* history: every <<chain ID, ledger>> GetOrCreate returned
    listed,    \* history: every <<ids, len(ids)>> ChainIDs returned
    calls      \* calls[t]: calls made by t

vars == <<mutex, ledgers, created, pc, arg, ids, idsLen, ret, returned, listed, calls>>

PCs == {"idle", "lock", "lookup", "create", "size", "fill", "unlock"}

Keys == {ch \in Chains : ledgers[ch] # NONE}

-----------------------------------------------------------------------------
(* A goroutine enters GetOrCreate(ch) or ChainIDs(). *)
CallGetOrCreate(t, ch) ==
    /\ pc[t] = "idle" /\ calls[t] < MaxCalls
    /\ pc' = [pc EXCEPT ![t] = "lock"]
    /\ arg' = [arg EXCEPT ![t] = ch]
    /\ calls' = [calls EXCEPT ![t] = @ + 1]
    /\ UNCHANGED <<mutex, ledgers, created, ids, idsLen, ret, returned, listed>>

CallChainIDs(t) ==
    /\ pc[t] = "idle" /\ calls[t] < MaxCalls
    /\ pc' = [pc EXCEPT ![t] = "lock"]
    /\ arg' = [arg EXCEPT ![t] = NONE]
    /\ calls' = [calls EXCEPT ![t] = @ + 1]
    /\ UNCHANGED <<mutex, ledgers, created, ids, idsLen, ret, returned, listed>>

(* a Lock that does not wait for the holder *)
LockUnchecked(t) ==
    /\ pc[t] = "lock"
    /\ mutex' = t
    /\ pc' = [pc EXCEPT ![t] = IF arg[t] = NONE THEN "size" ELSE "lookup"]
    /\ UNCHANGED <<ledgers, created, arg, ids, idsLen, ret, returned, listed, calls>>

(* rlf.mutex.Lock() *)
Lock(t) ==
    /\ pc[t] = "lock" /\ mutex = NONE
    /\ mutex' = t
    /\ pc' = [pc EXCEPT ![t] = IF arg[t] = NONE THEN "size" ELSE "lookup"]
    /\ UNCHANGED <<ledgers, created, arg, ids, idsLen, ret, returned, listed, calls>>

(* a lookup that goes on to newChain even when the chain exists *)
LookupNoCheck(t) ==
    /\ pc[t] = "lookup"
    /\ pc' = [pc EXCEPT ![t] = "create"]
    /\ UNCHANGED <<mutex, ledgers, created, arg, ids, idsLen, ret, returned, listed, calls>>

(* l, ok := rlf.ledgers[key]; if ok, return l *)
Lookup(t) ==
    LET ch == arg[t] IN
    /\ pc[t] = "lookup"
    /\ IF ledgers[ch] # NONE
       THEN /\ ret' = [ret EXCEPT ![t] = ledgers[ch]]
            /\ returned' = returned \cup {<<ch, ledgers[ch]>>}
            /\ pc' = [pc EXCEPT ![t] = "unlock"]
       ELSE /\ pc' = [pc EXCEPT ![t] = "create"]
            /\ UNCHANGED <<ret, returned>>
    /\ UNCHANGED <<mutex, ledgers, created, arg, ids, idsLen, listed, calls>>

(* ch := newChain(rlf.maxSize); rlf.ledgers[key] = ch; return ch *)
Create(t) ==
    LET ch == arg[t]
        l  == created + 1
    IN /\ pc[t] = "create"
       /\ created' = l
       /\ ledgers' = [ledgers EXCEPT ![ch] = l]
       /\ ret' = [ret EXCEPT ![t] = l]
       /\ returned' = returned \cup {<<ch, l>>}
       /\ pc' = [pc EXCEPT ![t] = "unlock"]
       /\ UNCHANGED <<mutex, arg, ids, idsLen, listed, calls>>

(* a slice made with length 0 and capacity len(rlf.ledgers) *)
SizeZero(t) ==
    /\ pc[t] = "size"
    /\ idsLen' = [idsLen EXCEPT ![t] = 0]
    /\ pc' = [pc EXCEPT ![t] = "fill"]
    /\ UNCHANGED <<mutex, ledgers, created, arg, ids, ret, returned, listed, calls>>

(* ids := make([]string, len(rlf.ledgers)) *)
Size(t) ==
    /\ pc[t] = "size"
    /\ idsLen' = [idsLen EXCEPT ![t] = Cardinality(Keys)]
    /\ pc' = [pc EXCEPT ![t] = "fill"]
    /\ UNCHANGED <<mutex, ledgers, created, arg, ids, ret, returned, listed, calls>>

(* for key := range rlf.ledgers { ids[i] = key; i++ }; return ids.  With  *)
(* more keys than len(ids) the store ids[i] is out of range and panics,    *)
(* which the history records as a result longer than the slice.           *)
Fill(t) ==
    /\ pc[t] = "fill"
    /\ ids' = [ids EXCEPT ![t] = Keys]
    /\ listed' = listed \cup {<<Keys, idsLen[t]>>}
    /\ pc' = [pc EXCEPT ![t] = "unlock"]
    /\ UNCHANGED <<mutex, ledgers, created, arg, idsLen, ret, returned, calls>>

(* a return that forgets to release the mutex *)
UnlockKeep(t) ==
    /\ pc[t] = "unlock"
    /\ pc' = [pc EXCEPT ![t] = "idle"]
    /\ UNCHANGED <<mutex, ledgers, created, arg, ids, idsLen, ret, returned, listed, calls>>

(* the deferred rlf.mutex.Unlock() as the call returns *)
Unlock(t) ==
    /\ pc[t] = "unlock"
    /\ mutex' = NONE
    /\ pc' = [pc EXCEPT ![t] = "idle"]
    /\ UNCHANGED <<ledgers, created, arg, ids, idsLen, ret, returned, listed, calls>>

(* New(maxSize): an empty map, nobody in a call *)
Init ==
    /\ mutex = NONE
    /\ ledgers = [ch \in Chains |-> NONE]
    /\ created = 0
    /\ pc = [t \in Threads |-> "idle"]
    /\ arg = [t \in Threads |-> NONE]
    /\ ids = [t \in Threads |-> {}]
    /\ idsLen = [t \in Threads |-> 0]
    /\ ret = [t \in Threads |-> NONE]
    /\ returned = {}
    /\ listed = {}
    /\ calls = [t \in Threads |-> 0]

Next ==
    \E t \in Threads :
       \/ \E ch \in Chains : CallGetOrCreate(t, ch)
       \/ CallChainIDs(t)
       \/ Lock(t) \/ Lookup(t) \/ Create(t) \/ Size(t) \/ Fill(t) \/ Unlock(t)

(* A goroutine that wants the mutex may be passed over while it is taken  *)
(* and released by others, so taking it needs strong fairness; the steps  *)
(* inside a call run once scheduled.  Making calls is up to the callers.   *)
Fairness ==
    \A t \in Threads :
       /\ SF_vars(Lock(t))
       /\ WF_vars(Lookup(t) \/ Create(t) \/ Size(t) \/ Fill(t) \/ Unlock(t))

Spec == Init /\ [][Next]_vars /\ Fairness

-----------------------------------------------------------------------------
(* Properties *)

TypeOK ==
    /\ mutex \in Threads \cup {NONE}
    /\ ledgers \in [Chains -> (1 .. created) \cup {NONE}]
    /\ pc \in [Threads -> PCs]
    /\ calls \in [Threads -> 0 .. MaxCalls]
    \* a goroutine between Lock and Unlock is the holder of the mutex
    /\ \A t \in Threads : pc[t] \in {"lookup", "create", "size", "fill", "unlock"} => mutex = t

(* GetOrCreate and ChainIDs, however the goroutines' calls interleave,    *)
(* implement the atomic factory of RamLedgerFactoryAbstract: every ledger  *)
(* returned for a chain ID is the one created for it first and never       *)
(* replaced, and every ChainIDs result is the set of IDs held at one       *)
(* moment during the call.                                                 *)
Abstract == INSTANCE RamLedgerFactoryAbstract
                WITH listedIDs <- {l[1] : l \in listed}
ImplementsAtomicFactory == Abstract!Spec

(* ChainIDs sizes its slice from len(rlf.ledgers) and then fills it from   *)
(* the map: every slice it returns holds exactly the chain IDs, with no    *)
(* empty entry and no index out of range, even while chains are created.   *)
ChainIDsExact == \A l \in listed : Cardinality(l[1]) = l[2]

(* Every call into the factory returns: the mutex is always released.      *)
EveryCallReturns == \A t \in Threads : pc[t] # "idle" ~> pc[t] = "idle"
=============================================================================
