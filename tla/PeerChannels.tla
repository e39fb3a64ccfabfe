--------------------------- MODULE PeerChannels ----------------------------
(***************************************************************************)
(* The peer's channel registry and TLS trust store (core/peer/peer.go).    *)
(*                                                                         *)
(* A channel is joined (CreateChainFromBlock) or reloaded after a restart  *)
(* (Initialize) by createChain: it builds the channel's config bundle,     *)
(* whose bundle source runs the config callbacks at once, among them       *)
(* updateTrustedRoots and the MSP-manager callback; it then checks the     *)
(* orderer addresses, opens the transient store, starts gossip for the     *)
(* channel (from then on blocks, config blocks included, are committed)    *)
(* and finally inserts the chain in chains.list under chains.Lock.         *)
(*                                                                         *)
(* updateTrustedRoots(cm) rebuilds credSupport's roots of one channel      *)
(* under credSupport.Lock, releases it, then under credSupport.RLock       *)
(* collects every channel's app roots and the static ones and hands them   *)
(* to the peer server (SetClientRootCAs).  It runs on the thread that      *)
(* triggered the bundle update: createChain, or the channel's committer.   *)
(*                                                                         *)
(* A config root of channel ch at config version v is <<"app", ch, v>> or  *)
(* <<"ord", ch, v>>; a config version stands for the config block.         *)
(***************************************************************************)
EXTENDS Naturals, FiniteSets

CONSTANTS
    Channels,     \* channel ids
    StaticRoots,  \* SecOpts.ClientRootCAs and ServerRootCAs
    NULL,         \* not in chains.list / lock free
    MaxConfigs,   \* config blocks per channel, the genesis one included
    MaxRestarts   \* peer process restarts

ASSUME MaxConfigs \in Nat \ {0} /\ MaxRestarts \in Nat

Versions == 1 .. MaxConfigs

AppRoot(ch, v) == << "app", ch, v >>
OrdRoot(ch, v) == << "ord", ch, v >>

VARIABLES
    ledger,       \* the channel's ledger exists (persisted)
    version,      \* config version of the last config block in the ledger (persisted)
    cpc,          \* createChain of each channel: where it is
    chainsList,   \* chains.list: cached config block version, or NULL if absent
    chainsWriter, \* channel whose createChain holds chains.Lock writing the map
    mspMgr,       \* mspmgmt's manager of each channel: its config version, 0 if none
    upc,          \* updateTrustedRoots of each channel: where it is
    ucfg,         \* the config version updateTrustedRoots was called with
    kpc,          \* committer of each channel: "idle" or running "callbacks"
    joinCb,       \* the config block createChain was called with
    credReaders,  \* holders of credSupport.RLock
    appRoots,     \* credSupport.AppRootCAsByChain
    ordRoots,     \* credSupport.OrdererRootCAsByChain
    collected,    \* trustedRoots collected by each updateTrustedRoots
    serverRoots,  \* client root CAs of the peer's gRPC server
    lastSetOK,    \* the last SetClientRootCAs call installed its roots
    crashed,      \* the process died on a fatal runtime error
    restarts      \* restarts so far

persisted == <<ledger, version>>
volatile  == <<cpc, chainsList, chainsWriter, mspMgr, upc, ucfg, kpc, joinCb,
               credReaders, appRoots, ordRoots, collected,
               serverRoots, lastSetOK>>
vars == <<persisted, volatile, crashed, restarts>>

(* the trusted roots updateTrustedRoots collects under the read lock *)
TrustedRootsNow == UNION {appRoots[c] : c \in Channels} \cup StaticRoots

-----------------------------------------------------------------------------
(* createChain(cid, ledger, cb) up to the bundle source: reading the     *)
(* persisted config, NewBundle or the resources bundle may fail before    *)
(* any side effect; else NewBundleSource runs the callbacks, of which     *)
(* updateTrustedRoots comes first (on this thread).                       *)
CreateChainStart(ch, v) ==
    /\ joinCb' = [joinCb EXCEPT ![ch] = v]
    /\ \/ /\ cpc' = [cpc EXCEPT ![ch] = "failed"]
          /\ UNCHANGED <<upc, ucfg>>
       \/ /\ cpc' = [cpc EXCEPT ![ch] = "bundle"]
          /\ upc' = [upc EXCEPT ![ch] = "build"]
          /\ ucfg' = [ucfg EXCEPT ![ch] = v]
    /\ UNCHANGED <<chainsList, chainsWriter, mspMgr, kpc, credReaders,
                   appRoots, ordRoots, collected, serverRoots, lastSetOK, crashed, restarts>>

(* CreateChainFromBlock(genesis block): the channel's ledger is created   *)
(* from the block, then createChain.                                      *)
CreateChainFromBlock(ch) ==
    /\ ~crashed
    /\ cpc[ch] = "idle"
    /\ ~ledger[ch]
    /\ ledger' = [ledger EXCEPT ![ch] = TRUE]
    /\ version' = [version EXCEPT ![ch] = 1]
    /\ CreateChainStart(ch, 1)

(* Initialize, after a restart, for a ledger the peer has: its last      *)
(* config block (getCurrConfigBlockFromLedger) is passed to createChain.  *)
InitializeChain(ch) ==
    /\ ~crashed
    /\ cpc[ch] = "idle"
    /\ ledger[ch] /\ restarts > 0
    /\ CreateChainStart(ch, version[ch])
    /\ UNCHANGED persisted

-----------------------------------------------------------------------------
(* Mutations: updateTrustedRoots releasing the read lock before it calls  *)
(* SetClientRootCAs; buildTrustedRootsForChain appending to a channel's   *)
(* roots instead of replacing them; SetCurrConfigBlock ignoring a chain   *)
(* that is not in chains.list yet; and the deferred RUnlock forgotten.    *)
CollectRootsUnlockEarly(ch) ==
    /\ ~crashed
    /\ upc[ch] = "collect"
    /\ collected' = [collected EXCEPT ![ch] = TrustedRootsNow]
    /\ upc' = [upc EXCEPT ![ch] = "set"]
    /\ UNCHANGED <<persisted, cpc, chainsList, chainsWriter, mspMgr, ucfg,
                   kpc, joinCb, credReaders, appRoots, ordRoots, serverRoots, lastSetOK,
                   crashed, restarts>>

BuildTrustedRootsAppend(ch) ==
    /\ ~crashed
    /\ upc[ch] = "build"
    /\ credReaders = {}
    /\ appRoots' = [appRoots EXCEPT ![ch] = @ \cup {AppRoot(ch, ucfg[ch])}]
    /\ ordRoots' = [ordRoots EXCEPT ![ch] = @ \cup {OrdRoot(ch, ucfg[ch])}]
    /\ upc' = [upc EXCEPT ![ch] = "collect"]
    /\ UNCHANGED <<persisted, cpc, chainsList, chainsWriter, mspMgr, ucfg,
                   kpc, joinCb, credReaders, collected, serverRoots, lastSetOK,
                   crashed, restarts>>

SetClientRootCAsKeepLock(ch) ==
    /\ ~crashed
    /\ upc[ch] = "set"
    /\ \E installed \in BOOLEAN :
         /\ serverRoots' = IF installed THEN collected[ch] ELSE serverRoots
         /\ lastSetOK' = installed
    /\ upc' = [upc EXCEPT ![ch] = "idle"]
    /\ UNCHANGED <<persisted, cpc, chainsList, chainsWriter, mspMgr, ucfg,
                   kpc, joinCb, credReaders, appRoots, ordRoots, collected,
                   crashed, restarts>>

(* buildTrustedRootsForChain, whole, under credSupport.Lock: the app and  *)
(* orderer roots of the channel's MSPs replace the channel's entries; if  *)
(* GetMSPs fails the maps are left as they were.                          *)
BuildTrustedRoots(ch) ==
    /\ ~crashed
    /\ upc[ch] = "build"
    /\ credReaders = {}
    /\ \/ /\ appRoots' = [appRoots EXCEPT ![ch] = {AppRoot(ch, ucfg[ch])}]
          /\ ordRoots' = [ordRoots EXCEPT ![ch] = {OrdRoot(ch, ucfg[ch])}]
       \/ UNCHANGED <<appRoots, ordRoots>>
    /\ upc' = [upc EXCEPT ![ch] = "collect"]
    /\ UNCHANGED <<persisted, cpc, chainsList, chainsWriter, mspMgr, ucfg,
                   kpc, joinCb, credReaders, collected, serverRoots, lastSetOK,
                   crashed, restarts>>

(* credSupport.RLock(), then the loop over AppRootCAsByChain and the      *)
(* static ClientRootCAs and ServerRootCAs.                                *)
CollectRoots(ch) ==
    /\ ~crashed
    /\ upc[ch] = "collect"
    /\ credReaders' = credReaders \cup {ch}
    /\ collected' = [collected EXCEPT ![ch] = TrustedRootsNow]
    /\ upc' = [upc EXCEPT ![ch] = "set"]
    /\ UNCHANGED <<persisted, cpc, chainsList, chainsWriter, mspMgr, ucfg,
                   kpc, joinCb, appRoots, ordRoots, serverRoots, lastSetOK,
                   crashed, restarts>>

(* server := GetPeerServer(); server.SetClientRootCAs(trustedRoots), then *)
(* the deferred RUnlock.  With no server yet, or when SetClientRootCAs     *)
(* returns an error (only logged as a warning), the server keeps the roots *)
(* it had.                                                                 *)
SetClientRootCAs(ch) ==
    /\ ~crashed
    /\ upc[ch] = "set"
    /\ \E installed \in BOOLEAN :
         /\ serverRoots' = IF installed THEN collected[ch] ELSE serverRoots
         /\ lastSetOK' = installed
    /\ credReaders' = credReaders \ {ch}
    /\ upc' = [upc EXCEPT ![ch] = "idle"]
    /\ UNCHANGED <<persisted, cpc, chainsList, chainsWriter, mspMgr, ucfg,
                   kpc, joinCb, appRoots, ordRoots, collected,
                   crashed, restarts>>

(* createChain after the bundle source: the MSP-manager callback has run  *)
(* (mspmgmt.XXXSetMSPManager); no orderer address, or a transient store   *)
(* that fails to open, returns an error; else gossip's InitializeChannel  *)
(* starts the channel's committer.                                        *)
StartChannel(ch) ==
    /\ ~crashed
    /\ cpc[ch] = "bundle" /\ upc[ch] = "idle"
    /\ mspMgr' = [mspMgr EXCEPT ![ch] = ucfg[ch]]
    /\ \/ cpc' = [cpc EXCEPT ![ch] = "failed"]
       \/ cpc' = [cpc EXCEPT ![ch] = "gossip"]
    /\ UNCHANGED <<persisted, chainsList, chainsWriter, upc, ucfg, kpc, joinCb,
                   credReaders, appRoots, ordRoots, collected, serverRoots, lastSetOK,
                   crashed, restarts>>

(* chains.Lock(); chains.list[cid] = &chain{...}: the map is being written *)
LockChains(ch) ==
    /\ ~crashed
    /\ cpc[ch] = "gossip" /\ chainsWriter = NULL
    /\ chainsWriter' = ch
    /\ cpc' = [cpc EXCEPT ![ch] = "insert"]
    /\ UNCHANGED <<persisted, chainsList, mspMgr, upc, ucfg, kpc, joinCb,
                   credReaders, appRoots, ordRoots, collected, serverRoots, lastSetOK,
                   crashed, restarts>>

(* ...the entry is in, with cb the block createChain was given; Unlock.   *)
InsertChain(ch) ==
    /\ ~crashed
    /\ cpc[ch] = "insert"
    /\ chainsList' = [chainsList EXCEPT ![ch] = joinCb[ch]]
    /\ chainsWriter' = NULL
    /\ cpc' = [cpc EXCEPT ![ch] = "done"]
    /\ UNCHANGED <<persisted, mspMgr, upc, ucfg, kpc, joinCb, credReaders,
                   appRoots, ordRoots, collected, serverRoots, lastSetOK, crashed, restarts>>

(* The committer of a started channel commits its next config block. Its  *)
(* callback (NewLedgerCommitterReactive's) is SetCurrConfigBlock, under   *)
(* chains.Lock: if the chain is not in chains.list yet it returns an error *)
(* and the block is not committed; else it caches the block, the block is *)
(* committed and the bundle update runs the callbacks, updateTrustedRoots *)
(* first.                                                                 *)
SetCurrConfigBlockFails(ch) ==
    /\ ~crashed
    /\ cpc[ch] \in {"gossip", "insert", "done"}
    /\ kpc[ch] = "idle" /\ version[ch] < MaxConfigs
    /\ chainsWriter = NULL
    /\ chainsList[ch] = NULL
    /\ UNCHANGED vars

CommitConfigBlockUnchecked(ch) ==
    /\ ~crashed
    /\ cpc[ch] \in {"gossip", "insert", "done"}
    /\ kpc[ch] = "idle" /\ version[ch] < MaxConfigs
    /\ chainsWriter = NULL
    /\ chainsList' = [chainsList EXCEPT ![ch] = IF @ = NULL THEN NULL
                                                ELSE version[ch] + 1]
    /\ version' = [version EXCEPT ![ch] = @ + 1]
    /\ kpc' = [kpc EXCEPT ![ch] = "callbacks"]
    /\ upc' = [upc EXCEPT ![ch] = "build"]
    /\ ucfg' = [ucfg EXCEPT ![ch] = version[ch] + 1]
    /\ UNCHANGED <<ledger, cpc, chainsWriter, mspMgr, joinCb, credReaders,
                   appRoots, ordRoots, collected, serverRoots, lastSetOK, crashed, restarts>>

CommitConfigBlock(ch) ==
    /\ ~crashed
    /\ cpc[ch] \in {"gossip", "insert", "done"}
    /\ kpc[ch] = "idle" /\ version[ch] < MaxConfigs
    /\ chainsWriter = NULL
    /\ chainsList[ch] # NULL
    /\ chainsList' = [chainsList EXCEPT ![ch] = version[ch] + 1]
    /\ version' = [version EXCEPT ![ch] = @ + 1]
    /\ kpc' = [kpc EXCEPT ![ch] = "callbacks"]
    /\ upc' = [upc EXCEPT ![ch] = "build"]
    /\ ucfg' = [ucfg EXCEPT ![ch] = version[ch] + 1]
    /\ UNCHANGED <<ledger, cpc, chainsWriter, mspMgr, joinCb, credReaders,
                   appRoots, ordRoots, collected, serverRoots, lastSetOK, crashed, restarts>>

(* the committer's callbacks after updateTrustedRoots: the MSP manager    *)
CommitCallbacksDone(ch) ==
    /\ ~crashed
    /\ kpc[ch] = "callbacks" /\ upc[ch] = "idle"
    /\ mspMgr' = [mspMgr EXCEPT ![ch] = ucfg[ch]]
    /\ kpc' = [kpc EXCEPT ![ch] = "idle"]
    /\ UNCHANGED <<persisted, cpc, chainsList, chainsWriter, upc, ucfg, joinCb,
                   credReaders, appRoots, ordRoots, collected, serverRoots, lastSetOK,
                   crashed, restarts>>

(* DeliverSupportManager.GetChain reads chains.list without the lock.     *)
(* Racing a write of the map, the Go runtime may stop the process with    *)
(* "concurrent map read and map write"; otherwise the read has no effect. *)
GetChain(ch) ==
    /\ ~crashed
    /\ \/ UNCHANGED vars
       \/ /\ chainsWriter # NULL
          /\ crashed' = TRUE
          /\ UNCHANGED <<persisted, volatile, restarts>>

(* The peer process stops (a fatal error or a kill) and starts again:     *)
(* ledgers survive, every in-memory structure starts afresh, and           *)
(* Initialize reloads the chains (InitializeChain).                        *)
Restart ==
    /\ restarts < MaxRestarts
    /\ restarts' = restarts + 1
    /\ crashed' = FALSE
    /\ cpc' = [ch \in Channels |-> "idle"]
    /\ chainsList' = [ch \in Channels |-> NULL]
    /\ chainsWriter' = NULL
    /\ mspMgr' = [ch \in Channels |-> 0]
    /\ upc' = [ch \in Channels |-> "idle"]
    /\ ucfg' = [ch \in Channels |-> 0]
    /\ kpc' = [ch \in Channels |-> "idle"]
    /\ joinCb' = [ch \in Channels |-> 0]
    /\ credReaders' = {}
    /\ appRoots' = [ch \in Channels |-> {}]
    /\ ordRoots' = [ch \in Channels |-> {}]
    /\ collected' = [ch \in Channels |-> {}]
    /\ serverRoots' = StaticRoots
    /\ lastSetOK' = TRUE
    /\ UNCHANGED persisted

(* a dead process with no restart left stays down *)
Down ==
    /\ crashed /\ restarts = MaxRestarts
    /\ UNCHANGED vars

Init ==
    /\ ledger = [ch \in Channels |-> FALSE]
    /\ version = [ch \in Channels |-> 0]
    /\ cpc = [ch \in Channels |-> "idle"]
    /\ chainsList = [ch \in Channels |-> NULL]
    /\ chainsWriter = NULL
    /\ mspMgr = [ch \in Channels |-> 0]
    /\ upc = [ch \in Channels |-> "idle"]
    /\ ucfg = [ch \in Channels |-> 0]
    /\ kpc = [ch \in Channels |-> "idle"]
    /\ joinCb = [ch \in Channels |-> 0]
    /\ credReaders = {}
    /\ appRoots = [ch \in Channels |-> {}]
    /\ ordRoots = [ch \in Channels |-> {}]
    /\ collected = [ch \in Channels |-> {}]
    /\ serverRoots = StaticRoots
    /\ lastSetOK = TRUE
    /\ crashed = FALSE
    /\ restarts = 0

Next ==
    \/ \E ch \in Channels :
          \/ CreateChainFromBlock(ch) \/ InitializeChain(ch)
          \/ BuildTrustedRoots(ch) \/ CollectRoots(ch) \/ SetClientRootCAs(ch)
          \/ StartChannel(ch) \/ LockChains(ch) \/ InsertChain(ch)
          \/ SetCurrConfigBlockFails(ch) \/ CommitConfigBlock(ch)
          \/ CommitCallbacksDone(ch) \/ GetChain(ch)
    \/ Restart \/ Down

(* A running goroutine keeps running (weak fairness); one waiting for    *)
(* credSupport.Lock or chains.Lock gets it if it is free infinitely often *)
(* (strong fairness: a Go mutex does not starve a waiter).  Joins, config *)
(* blocks, deliver requests and restarts come from outside: not fair.     *)
Fairness ==
    \A ch \in Channels :
        /\ SF_vars(BuildTrustedRoots(ch)) /\ SF_vars(LockChains(ch))
        /\ WF_vars(CollectRoots(ch)) /\ WF_vars(SetClientRootCAs(ch))
        /\ WF_vars(StartChannel(ch)) /\ WF_vars(InsertChain(ch))
        /\ WF_vars(CommitCallbacksDone(ch))

Spec == Init /\ [][Next]_vars /\ Fairness

-----------------------------------------------------------------------------
(* Properties *)

TypeOK ==
    /\ ledger \in [Channels -> BOOLEAN]
    /\ version \in [Channels -> 0 .. MaxConfigs]
    /\ cpc \in [Channels -> {"idle", "bundle", "gossip", "insert", "done", "failed"}]
    /\ chainsList \in [Channels -> Versions \cup {NULL}]
    /\ chainsWriter \in Channels \cup {NULL}
    /\ mspMgr \in [Channels -> 0 .. MaxConfigs]
    /\ upc \in [Channels -> {"idle", "build", "collect", "set"}]
    /\ kpc \in [Channels -> {"idle", "callbacks"}]
    /\ credReaders \subseteq Channels
    \* each channel's entry is the root list of one config of that channel
    /\ \A ch \in Channels :
         /\ appRoots[ch] \subseteq {AppRoot(ch, v) : v \in Versions}
         /\ ordRoots[ch] \subseteq {OrdRoot(ch, v) : v \in Versions}
         /\ Cardinality(appRoots[ch]) <= 1 /\ Cardinality(ordRoots[ch]) <= 1
    /\ lastSetOK \in BOOLEAN
    /\ crashed \in BOOLEAN
    /\ restarts \in 0 .. MaxRestarts

(* The config block cached in chains.list (GetCurrConfigBlock) is the     *)
(* channel's last committed config block, whatever the order in which     *)
(* createChain inserts the chain and the committer, started before that,  *)
(* commits config blocks, and across restarts.                            *)
CurrConfigBlockIsLatest ==
    \A ch \in Channels : chainsList[ch] # NULL => chainsList[ch] = version[ch]

(* When no updateTrustedRoots is running and the last SetClientRootCAs    *)
(* call succeeded, the peer server trusts exactly the app roots            *)
(* credSupport holds for every channel plus the static roots: whatever the *)
(* interleaving of two channels' updates (build under Lock, collect and    *)
(* set under RLock), the last install was not of a stale collection.  A    *)
(* failed install leaves the server stale, which the code only logs.       *)
ServerRootsCurrent ==
    ((\A ch \in Channels : upc[ch] = "idle") /\ lastSetOK)
        => serverRoots = TrustedRootsNow

(* A createChain that returned an error left nothing behind in the peer's *)
(* process-wide state: no TLS roots of the channel in credSupport or the  *)
(* server, no MSP manager registered for it.                              *)
FailedCreateLeavesNoTrace ==
    \A ch \in Channels :
        cpc[ch] = "failed" =>
            /\ appRoots[ch] = {} /\ mspMgr[ch] = 0
            /\ serverRoots \cap {AppRoot(ch, v) : v \in Versions} = {}

(* The peer process never dies of a runtime error. *)
NoFatalError == ~crashed

(* Every createChain that got as far as its callbacks returns, joined or  *)
(* failed, unless the process stops under it.                             *)
EveryCreateChainReturns ==
    \A ch \in Channels :
        cpc[ch] = "bundle" ~> (cpc[ch] \in {"done", "failed", "idle"} \/ crashed)
====
