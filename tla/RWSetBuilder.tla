---------------------------- MODULE RWSetBuilder ----------------------------
(***************************************************************************)
(* The transaction simulator's read-write set builder                      *)
(* (core/ledger/kvledger/txmgmt/rwsetutil/rwset_builder.go, RWSetBuilder). *)
(* A chaincode simulation calls the Add* methods in any order; at the end  *)
(* GetTxSimulationResults turns the builder into the public rwset (public  *)
(* data plus hashes of private data) and the private rwset.                *)
(*                                                                         *)
(* A builder map that is absent in Go is NONE here; a Go map keyed by      *)
(* string is a function over a small set of keys with NONE for absent      *)
(* entries.  GetValuesBySortedKeys makes the order of an output depend     *)
(* only on its set of keys, so outputs are functions over the present      *)
(* keys.  A KVRead is abstracted to its version, a KVWrite to its value,   *)
(* a RangeQueryInfo to its (key, payload) pair, and a SHA-256 to the free  *)
(* constructor Digest.                                                     *)
(***************************************************************************)
EXTENDS Naturals, Sequences, FiniteSets, SequencesExt

CONSTANTS
    NS,        \* namespaces (chaincode names)
    Colls,     \* private data collections
    Keys,      \* state keys
    Vers,      \* versions (heights) a read can observe
    Vals,      \* values a write can carry
    RQKeys,    \* rangeQueryKey{startKey, endKey, itrExhausted}
    Payloads,  \* the rest of a RangeQueryInfo (its reads or merkle summary)
    NONE,      \* absent map entry / nil pointer
    MaxOps     \* bound on the number of Add* calls explored

VARIABLES
    pub,     \* b.pubRwBuilderMap
    pvt,     \* b.pvtRwBuilderMap
    hist,    \* history: the Add* calls that succeeded, in order
    results  \* the outcome of the last GetTxSimulationResults

vars == <<pub, pvt, hist, results>>

Digest(x) == [sha256 |-> x]

Unset(S) == [x \in S |-> NONE]
Present(f) == {x \in DOMAIN f : f[x] # NONE}

(* newNsPubRwBuilder, newCollHashRwBuilder, newNsPvtRwBuilder,            *)
(* newCollPvtRwBuilder *)
NewNsPub == [reads |-> Unset(Keys), writes |-> Unset(Keys),
             rqKeys |-> <<>>, rqMap |-> Unset(RQKeys), coll |-> Unset(Colls)]
NewCollHash == [reads |-> Unset(Keys), writes |-> Unset(Keys), pvtHash |-> NONE]
NewNsPvt == [coll |-> Unset(Colls)]
NewCollPvt == [writes |-> Unset(Keys)]

(* getOrCreateNsPubRwBuilder and friends, as functions of the map they    *)
(* update: an existing builder is kept, a missing one created empty.      *)
OrCreate(m, k, new) == IF m[k] = NONE THEN [m EXCEPT ![k] = new] ELSE m

GetOrCreateNsPub(p, ns) == OrCreate(p, ns, NewNsPub)

GetOrCreateCollHash(p, ns, c) ==
    LET p1 == GetOrCreateNsPub(p, ns)
    IN [p1 EXCEPT ![ns].coll = OrCreate(p1[ns].coll, c, NewCollHash)]

GetOrCreateCollPvt(q, ns, c) ==
    LET q1 == OrCreate(q, ns, NewNsPvt)
    IN [q1 EXCEPT ![ns].coll = OrCreate(q1[ns].coll, c, NewCollPvt)]

Op(kind, ns, c, k, v) == [op |-> kind, ns |-> ns, coll |-> c, key |-> k, val |-> v]

Record(o) == hist' = Append(hist, o)

CanAdd == Len(hist) < MaxOps

-----------------------------------------------------------------------------
(* Outputs: build() of every builder, over the present keys.               *)

(* collHashRwBuilder.build() *)
BuildCollHash(h) == [reads |-> h.reads, writes |-> h.writes, pvtHash |-> h.pvtHash]

(* nsPubRwBuilder.build(): reads and writes by key, the range queries in  *)
(* first-seen order, the hashed rwsets of the present collections          *)
BuildNsPub(n) ==
    [reads  |-> n.reads,
     writes |-> n.writes,
     rq     |-> [i \in 1 .. Len(n.rqKeys) |-> <<n.rqKeys[i], n.rqMap[n.rqKeys[i]]>>],
     coll   |-> [c \in Present(n.coll) |-> BuildCollHash(n.coll[c])]]

(* GetTxReadWriteSet *)
GetTxReadWriteSet(p) == [ns \in Present(p) |-> BuildNsPub(p[ns])]

(* nsPvtRwBuilder.build() with collPvtRwBuilder.build(): the writes of   *)
(* each present collection                                                 *)
BuildNsPvt(n) == [c \in Present(n.coll) |-> n.coll[c].writes]

(* getTxPvtReadWriteSet: nil when no namespace has private writes *)
GetTxPvtReadWriteSet(q) ==
    IF Present(q) = {} THEN NONE ELSE [ns \in Present(q) |-> BuildNsPvt(q[ns])]

(* setPvtCollectionHash(ns, coll, proto bytes of the collection's rwset)  *)
SetPvtCollectionHash(p, ns, c, h) ==
    LET p1 == GetOrCreateCollHash(p, ns, c)
    IN [p1 EXCEPT ![ns].coll[c].pvtHash = h]

(* the (namespace, collection) pairs of a private rwset *)
PvtCollections(pvtData) ==
    UNION {{<<ns, c>> : c \in DOMAIN pvtData[ns]} : ns \in DOMAIN pvtData}

(* The loop of GetTxSimulationResults over the private rwset: every        *)
(* collection with private writes gets the hash of its private rwset.      *)
PvtHashed(p, pvtData) ==
    IF pvtData = NONE THEN p
    ELSE FoldSet(LAMBDA nc, acc :
                   SetPvtCollectionHash(acc, nc[1], nc[2],
                                        Digest(pvtData[nc[1]][nc[2]])),
                 p, PvtCollections(pvtData))

-----------------------------------------------------------------------------
(* Operations *)

AddToReadSet(ns, k, v) ==
    /\ CanAdd
    /\ pub' = [GetOrCreateNsPub(pub, ns) EXCEPT ![ns].reads[k] = v]
    /\ Record(Op("read", ns, NONE, k, v))
    /\ UNCHANGED <<pvt, results>>

AddToWriteSet(ns, k, v) ==
    /\ CanAdd
    /\ pub' = [GetOrCreateNsPub(pub, ns) EXCEPT ![ns].writes[k] = v]
    /\ Record(Op("write", ns, NONE, k, v))
    /\ UNCHANGED <<pvt, results>>

(* Range query info that ignores the map of those already recorded.       *)
AddToRangeQuerySetNoDedupe(ns, q, pl) ==
    /\ CanAdd
    /\ LET p1 == GetOrCreateNsPub(pub, ns)
       IN pub' = [p1 EXCEPT ![ns].rqMap[q] = pl, ![ns].rqKeys = Append(@, q)]
    /\ Record(Op("rq", ns, NONE, q, pl))
    /\ UNCHANGED <<pvt, results>>

(* Range query info whose key list records the info instead of its key.  *)
AddToRangeQuerySetAppendInfo(ns, q, pl) ==
    /\ CanAdd
    /\ LET p1 == GetOrCreateNsPub(pub, ns)
       IN pub' = IF p1[ns].rqMap[q] = NONE
                 THEN [p1 EXCEPT ![ns].rqMap[q] = pl, ![ns].rqKeys = Append(@, <<q, pl>>)]
                 ELSE p1
    /\ Record(Op("rq", ns, NONE, q, pl))
    /\ UNCHANGED <<pvt, results>>

(* A range query is recorded once per rangeQueryKey; a later one with the *)
(* same key is dropped.                                                    *)
AddToRangeQuerySet(ns, q, pl) ==
    /\ CanAdd
    /\ LET p1 == GetOrCreateNsPub(pub, ns)
       IN pub' = IF p1[ns].rqMap[q] = NONE
                 THEN [p1 EXCEPT ![ns].rqMap[q] = pl, ![ns].rqKeys = Append(@, q)]
                 ELSE p1
    /\ Record(Op("rq", ns, NONE, q, pl))
    /\ UNCHANGED <<pvt, results>>

(* The error return of newPvtKVReadHash changes nothing and is left out.   *)
AddToHashedReadSet(ns, c, k, v) ==
    /\ CanAdd
    /\ pub' = [GetOrCreateCollHash(pub, ns, c) EXCEPT ![ns].coll[c].reads[k] = v]
    /\ Record(Op("hread", ns, c, k, v))
    /\ UNCHANGED <<pvt, results>>

(* The value goes to the private builder, its hash to the public one.      *)
AddToPvtAndHashedWriteSet(ns, c, k, v) ==
    /\ CanAdd
    /\ pvt' = [GetOrCreateCollPvt(pvt, ns, c) EXCEPT ![ns].coll[c].writes[k] = v]
    /\ pub' = [GetOrCreateCollHash(pub, ns, c) EXCEPT ![ns].coll[c].writes[k] = Digest(v)]
    /\ Record(Op("pwrite", ns, c, k, v))
    /\ UNCHANGED results

Failed == [ok |-> FALSE]

(* GetTxSimulationResults: build the private rwset; if there is one,       *)
(* marshal it (which may fail) and store each collection's hash in the     *)
(* public builder; then build and marshal the public rwset (which may      *)
(* fail after the hashes were stored).                                     *)
GetTxSimulationResults ==
    LET pvtData == GetTxPvtReadWriteSet(pvt)
        pub1    == PvtHashed(pub, pvtData)
    IN /\ \/ /\ pvtData # NONE
             /\ results' = Failed
             /\ UNCHANGED pub
          \/ /\ pub' = pub1
             /\ \/ results' = Failed
                \/ results' = [ok |-> TRUE, at |-> Len(hist),
                               pub |-> GetTxReadWriteSet(pub1), pvt |-> pvtData]
       /\ UNCHANGED <<pvt, hist>>

Init ==
    /\ pub = Unset(NS)
    /\ pvt = Unset(NS)
    /\ hist = <<>>
    /\ results = Failed

Next ==
    \/ \E ns \in NS, k \in Keys :
          \/ \E v \in Vers : AddToReadSet(ns, k, v)
          \/ \E v \in Vals : AddToWriteSet(ns, k, v)
          \/ \E c \in Colls :
                \/ \E v \in Vers : AddToHashedReadSet(ns, c, k, v)
                \/ \E v \in Vals : AddToPvtAndHashedWriteSet(ns, c, k, v)
    \/ \E ns \in NS, q \in RQKeys, pl \in Payloads : AddToRangeQuerySet(ns, q, pl)
    \/ GetTxSimulationResults

Spec == Init /\ [][Next]_vars

-----------------------------------------------------------------------------
(* Reference: the rwsets a transaction's calls should produce, read        *)
(* directly off the history of calls rather than built incrementally.      *)

LastVal(h, P(_)) ==
    LET I == {i \in DOMAIN h : P(h[i])}
    IN IF I = {} THEN NONE ELSE h[Max(I)].val

HashOf(v) == IF v = NONE THEN NONE ELSE Digest(v)

RefPvtWrites(h, ns, c) ==
    [k \in Keys |-> LastVal(h, LAMBDA o : o.op = "pwrite" /\ o.ns = ns
                                          /\ o.coll = c /\ o.key = k)]

CollsOf(h, ns, kinds) == {h[i].coll : i \in {i \in DOMAIN h : h[i].op \in kinds /\ h[i].ns = ns}}

(* range queries of ns: the first one of each key, in call order *)
RefRq(h, ns) ==
    LET IsRq(i) == h[i].op = "rq" /\ h[i].ns = ns
        I == {i \in DOMAIN h : IsRq(i) /\ ~\E j \in 1 .. i - 1 : IsRq(j) /\ h[j].key = h[i].key}
        s == SetToSortSeq(I, <)
    IN [j \in 1 .. Len(s) |-> <<h[s[j]].key, h[s[j]].val>>]

RefPub(h) ==
    [ns \in {h[i].ns : i \in DOMAIN h} |->
       [reads  |-> [k \in Keys |-> LastVal(h, LAMBDA o : o.op = "read" /\ o.ns = ns /\ o.key = k)],
        writes |-> [k \in Keys |-> LastVal(h, LAMBDA o : o.op = "write" /\ o.ns = ns /\ o.key = k)],
        rq     |-> RefRq(h, ns),
        coll   |-> [c \in CollsOf(h, ns, {"hread", "pwrite"}) |->
                      [reads   |-> [k \in Keys |-> LastVal(h, LAMBDA o : o.op = "hread" /\ o.ns = ns
                                                                    /\ o.coll = c /\ o.key = k)],
                       writes  |-> [k \in Keys |-> HashOf(RefPvtWrites(h, ns, c)[k])],
                       pvtHash |-> IF c \in CollsOf(h, ns, {"pwrite"})
                                   THEN Digest(RefPvtWrites(h, ns, c)) ELSE NONE]]]]

RefPvt(h) ==
    LET P == {h[i].ns : i \in {i \in DOMAIN h : h[i].op = "pwrite"}}
    IN IF P = {} THEN NONE
       ELSE [ns \in P |-> [c \in CollsOf(h, ns, {"pwrite"}) |-> RefPvtWrites(h, ns, c)]]

-----------------------------------------------------------------------------
(* Properties *)

NsPubOK(n) ==
    /\ n.reads \in [Keys -> Vers \cup {NONE}]
    /\ n.writes \in [Keys -> Vals \cup {NONE}]
    /\ n.rqKeys \in Seq(RQKeys)
    /\ n.rqMap \in [RQKeys -> Payloads \cup {NONE}]
    /\ DOMAIN n.coll = Colls

TypeOK ==
    /\ DOMAIN pub = NS /\ \A ns \in Present(pub) : NsPubOK(pub[ns])
    /\ DOMAIN pvt = NS /\ \A ns \in Present(pvt) : DOMAIN pvt[ns].coll = Colls
    /\ Len(hist) <= MaxOps
    /\ results.ok \in BOOLEAN

(* Every result of GetTxSimulationResults is exactly the rwset of the      *)
(* Add* calls made before it: the last read, write, hashed read and        *)
(* private write of each key, the first range query of each key in call    *)
(* order, and no private rwset when there were no private writes.  This    *)
(* includes the private-rwset hash kept in the public builder, which must  *)
(* be recomputed for writes added after an earlier call.                   *)
ResultsMatchReference ==
    results.ok =>
      LET h == SubSeq(hist, 1, results.at)
      IN results.pub = RefPub(h) /\ results.pvt = RefPvt(h)
=============================================================================
