---------------------- MODULE RamLedgerFactoryAbstract ----------------------
(***************************************************************************)
(* What a blockledger.Factory promises its concurrent callers, with each   *)
(* call one atomic step: GetOrCreate(ch) returns the ledger the factory    *)
(* holds for ch, or creates one, stores it and returns it; ChainIDs()      *)
(* returns the chain IDs held at that moment.                              *)
(***************************************************************************)
EXTENDS Naturals

CONSTANTS Chains, NONE

VARIABLES
    ledgers,    \* chain ID -> ledger, NONE if absent
    created,    \* ledgers created so far
    returned,   \* every <<chain ID, ledger>> GetOrCreate returned
    listedIDs   \* every set of chain IDs ChainIDs returned

vars == <<ledgers, created, returned, listedIDs>>

Held == {ch \in Chains : ledgers[ch] # NONE}

Init ==
    /\ ledgers = [ch \in Chains |-> NONE]
    /\ created = 0
    /\ returned = {}
    /\ listedIDs = {}

(* a call that finds the chain's ledger *)
Attach(ch) ==
    /\ ledgers[ch] # NONE
    /\ returned' = returned \cup {<<ch, ledgers[ch]>>}
    /\ UNCHANGED <<ledgers, created, listedIDs>>

(* a call that creates it *)
Create(ch) ==
    /\ ledgers[ch] = NONE
    /\ created' = created + 1
    /\ ledgers' = [ledgers EXCEPT ![ch] = created + 1]
    /\ returned' = returned \cup {<<ch, created + 1>>}
    /\ UNCHANGED listedIDs

ChainIDs ==
    /\ listedIDs' = listedIDs \cup {Held}
    /\ UNCHANGED <<ledgers, created, returned>>

Next == ChainIDs \/ \E ch \in Chains : Attach(ch) \/ Create(ch)

Spec == Init /\ [][Next]_vars
=============================================================================
