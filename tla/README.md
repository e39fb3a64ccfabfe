# TLA+ models of fabric-ca-gm-edit

This directory holds TLA+ models of the concurrent and stateful parts of this
repository, the TLC configurations that check them, and `PROJECT.json`, which
lists every component, run, mutant, source mapping, finding and hazard.

The repository is a Fabric CA fork with SM2/SM3 ("GM") crypto. Most of what
it contains is vendored Hyperledger Fabric code. The specification
(`spec.md`) centres on the orderer's cluster utilities: the Sequence
Validator (`VerifyBlocks`), the Connection Stub (`Stub.Activate`) and the
Pinning Dialer. Their Go source is not in `src/`; only their test
(`orderer/common/cluster/util_test.go`) is. The models of those parts are
written from the spec and marked `spec_modelled` in the map. Everything else
is modelled from the Go source.

## The system, by part

| Part | Source | State | Operations | Model |
|---|---|---|---|---|
| Block cutter | `fabric2/orderer/common/blockcutter/blockcutter.go` | pending batch and its uint32 byte count | `Ordered`, `Cut` | `BlockCutter` |
| Block header/data encoding | `fabric1/protos/common/block.go` | none (pure) | `BlockHeader.Bytes/Hash`, `BlockData.Bytes/Hash` | operators in `BlockVerifier` |
| Sequence Validator (spec 4.2-4.4) | not in `src/` (test: `cluster/util_test.go`) | the pass, its index, the active config and `isLastBlockConfigBlock` | `VerifyBlockHash`, `ConfigFromBlock`, `VerifyBlockSignature`, `VerifyBlocks` | `BlockVerifier` |
| Connection Stub (spec 4.7) | not in `src/` (test: `TestParallelStubActivation`) | lock, `RemoteContext` | `Activate` | `StubActivation` refines `StubAbstract`; composed in `ClusterComm` |
| Pinning Dialer (spec 4.6, 5) | not in `src/` (tests: `TestDialerBadConfig`, `TestStandardDialerDialer`, `TestClientConfig`) | the atomic `ClientConfig` cell; the dial in flight | config refresh (`Store`), `Dial` | `ClusterComm` |
| Peer channel registry and TLS trust store | `fabric2/core/peer/peer.go` | `chains.list`, `credSupport` root maps, the server's client roots, MSP managers, ledgers | `createChain`, `CreateChainFromBlock`, `Initialize`, `updateTrustedRoots`, `buildTrustedRootsForChain`, `SetCurrConfigBlock`, `DeliverSupportManager.GetChain` | `PeerChannels` |
| RAM ledger factory | `fabric2/common/ledger/blockledger/ram/factory.go` | ledgers map under a mutex | `GetOrCreate`, `ChainIDs` | `RamLedgerFactory` refines `RamLedgerFactoryAbstract` |
| Read/write set builder | `fabric2/core/ledger/kvledger/txmgmt/rwsetutil/rwset_builder.go` | per-namespace read/write/range/hashed sets | `AddTo*`, `GetTxSimulationResults` | `RWSetBuilder` |
| Channel config organisations | `fabric1/common/config/{organization,applicationorg,application,consortium}.go` | proposed and committed org config | `Allocate`, `Validate`, `Commit` of a config proposal | `OrgConfig` |
| CA start-up configuration | `src/lib/util.go`, `src/util/configurebccsp.go`, `src/lib/keyrequest.go` | each CA's `cfg.CSP` options and enrollment limit; package `util`'s variable `providerName` | `UnmarshalConfig`, `ConfigureBCCSP` (with `util.SetProviderName`), `GetKeyRequest`, `getMaxEnrollments` | `CAConfig` (with the operator module `MaxEnrollments`) |
| configtxlator REST handlers | `fabric1/common/tools/configtxlator/rest/protolator_handlers.go` | HTTP response status/headers/body | `Decode`, `Encode` | `ConfigtxlatorHandlers` |

The parts interact as follows:
- The orderer's consenter feeds envelopes to the block cutter.
- A follower orderer verifies the blocks it pulls from peers with the Sequence Validator. The hashing it relies on is `block.go`.
- The cluster communication layer shares one Stub per remote node. The stub's factory dials the member through the Pinning Dialer, whose config cell a committed config block replaces while dials are in flight.
- The orderer's registrar keeps one ledger per chain in the RAM ledger factory, shared by the goroutines that create chains and serve deliver.
- The peer's transaction simulator records reads and writes in the read/write set builder; the endorser takes its results.
- A channel config update is validated and committed group by group, organisations included; `configtxlator` converts such configs between proto and JSON over HTTP.
- At start-up each CA of a fabric-ca-gm server reads its config file, configures its BCCSP options and builds the key request for its signing key. `ConfigureBCCSP` records the provider in package `util`'s `providerName`, one variable shared by all the CAs. Registrations are then checked with `getMaxEnrollments` against the CA's configured limit.
- On a peer, `createChain` registers each channel. It wires the channel's config callbacks into the TLS trust store and starts the committer, whose callback is `SetCurrConfigBlock`.

The other files are not modelled, for the reasons given in `PROJECT.json`:
- GM key generation and SM2 keys;
- signers;
- proto helpers and `protolator`'s reflection;
- bootstrap file I/O;
- the sample client;
- the Kafka channel naming helper;
- the DB driver list;
- mocks and tests.

## Modules and what they correspond to

### `BlockCutter` (+ `MC_BlockCutter`)

**State.**
- `pendingBatch` and `pendingBatchSizeBytes` are the receiver's fields.
- `ordered`, `emitted` and `lastReturn` are history variables: the envelopes ordered so far, the batches cut, and the last result of `Ordered`.
- Sizes and the byte counter are kept modulo `2^Width`, standing for uint32.

**Actions.**
- `Ordered(m)` is the whole of `receiver.Ordered`. It uses `Isolate` for the large-message branch and `Enqueue` for the rest.
- `Cut` is the consenter's timer calling `receiver.Cut`.

### `BlockVerifier` (+ `MC_BlockVerifier`)

**The batch.** It is chosen in `Init` among what a peer can send: an honest chain from a start number, one transaction per block (normal, config carrying one of `Configs`, or malformed), one signature set per block, and at most one tampered block. A tamper is a nil header, a skipped number, a bad data hash or a bad previous hash.

**Hashing.**
- SHA-256 is a free constructor `Digest`.
- `HeaderBytes` and `CanEncode` are `BlockHeader.Bytes`, including its panic above `MaxInt64`.
- `DataBytes` is `BlockData.Bytes`: concatenation with no delimiter.

**The passes.** The cluster package's source is not in `src/`; the passes follow `TestVerifyBlocks` (`util_test.go:256-408`):
- `VerifyHash` runs `VerifyBlockHash` for every index first. A hash error fails the batch before any signature is checked.
- `VerifyConfig` then classifies every block. A malformed one fails; a normal one clears `lastIsConfig`; a config block's signatures are verified under `activeConfig` (`SignatureError`), and then its config is adopted and `lastIsConfig` set.
- `VerifyLast` verifies the last block under `activeConfig`, unless `lastIsConfig` says it was a config block and so already verified.
- `EmptyBatch` is the "buffer is empty" return.

Blocks between config blocks are never signature-checked. `AcceptedBatchAuthenticated` states what an accepted batch is then worth: every block is chained by its data hash and previous hash, no block is malformed, and every config block and the last block is signed under `ConfigInForce`, the config of the last config block before it. Spec section 4.4 describes one walk that checks every block's signatures; `PROJECT.json` records the difference as a finding.

**Numbers at the edge.** The sequence check adds 1 to a uint64, so it accepts a block numbered 2^64-1 followed by one numbered 0. `AcceptedNumbersIncrease` says that no accepted batch wraps. It holds only because hashing the header numbered 2^64-1, which the next block's previous-hash check does, panics in `BlockHeader.Bytes`.

### `StubActivation` and `StubAbstract`

**Processes and actions.** Each caller goroutine has a program counter. Its actions are:
- `Call`;
- `Acquire` (the stub's lock);
- `Check` (`isActive`);
- `Create` (the factory, which succeeds or fails).

**Refinement.** `StubAbstract` is the promise: an atomic create-or-attach. `StubActivation` is checked to implement it through `INSTANCE StubAbstract WITH ctx <- remoteContext, seen <- observed`.

`StubActivation` has no run of its own: it is checked as the stub inside `ClusterComm`.

### `ClusterComm` (+ `MC_ClusterComm`)

The stub composed with the Pinning Dialer as its factory. It is written from spec sections 4.6, 4.7 and 5.

**Composition.** `S == INSTANCE StubActivation` shares the stub's variables. The stub's `Call`, `Acquire` and `Check` are used as they are. Its `Create` is conjoined with the outcome of the dial: the context is stored exactly when the handshake succeeded.

**State.**
- `config` is the dialer's `ClientConfig` cell, reduced to its `ServerRootCAs`.
- `dial` is the lock holder's dial in flight. The stub's lock serialises factory calls, so there is at most one.
- `refreshes` counts the replacements of the cell, up to `MaxRefresh`.

**Actions.**
- `RefreshConfig`: a writer replaces the cell whole with a new root set (spec section 5: refreshes race with `Dial`). Who computes the new set is not modelled.
- `DialLoad`: `Dial` loads the cell.
- `BuildPool`: every root is parsed into the pool, or the dial fails with "error adding root certificate".
- `Handshake`: the server chain must verify against the pool, and the transport may fail on its own.
- `Create`: `createRemoteContext` returns its result to `Activate`.

### `PeerChannels` (+ `MC_PeerChannels`)

**Channel lifecycle.** Per channel, `cpc` tracks `createChain`:
- `CreateChainFromBlock` covers a join: the ledger is created first.
- `InitializeChain` covers a reload after `Restart`: the ledger's last config block is used.
- `CreateChainStart` is their shared step. It reaches the bundle source, whose callbacks start `updateTrustedRoots`, or it fails early.
- `StartChannel` covers the MSP-manager callback, then the orderer-address and transient-store failures, or gossip `InitializeChannel`.
- `LockChains` and `InsertChain` are the locked write of `chains.list`.

**Trust store.** `upc` tracks `updateTrustedRoots`:
- `BuildTrustedRoots` is the whole of `buildTrustedRootsForChain` under the write lock. `GetMSPs` may fail.
- `CollectRoots` takes the read lock and collects.
- `SetClientRootCAs` sets the server's roots and releases the read lock. With no peer server, or when the server's `SetClientRootCAs` returns an error (only logged), the server keeps its old roots; `lastSetOK` records whether the last call installed them.

**Committer.**
- `CommitConfigBlock` and `SetCurrConfigBlockFails` are a channel's committer committing a config block: its callback `SetCurrConfigBlock` either caches the block or fails because the chain is not in `chains.list` yet.
- `CommitCallbacksDone` is the MSP callback that follows.

**Process.**
- `GetChain` is the deliver service's unlocked read of `chains.list`. Racing the map write, it may crash the process, which Go does on a concurrent map read and write.
- `Restart` kills and restarts the peer. Ledgers survive; all in-memory state is reset.
- `Down` is a dead process with no restarts left.

**Roots.** The roots of channel `ch` at config version `v` are `<<"app", ch, v>>` and `<<"ord", ch, v>>`. A config version stands for the config block.

### `RamLedgerFactory` (+ `MC_RamLedgerFactory`)

**State.** `mutex` (the holder of `rlf.mutex`) and `ledgers` (`rlf.ledgers`, a ledger per chain ID or `NONE`). A ledger that `newChain` builds is numbered by creation (`created`). Per goroutine: `pc`, the call's argument, the slice `ChainIDs` made and its length. `returned` and `listed` are histories of what the calls returned.

**Refinement.** `RamLedgerFactoryAbstract` is the promise of `blockledger.Factory`: each `GetOrCreate` and `ChainIDs` is one atomic step. The module is checked to implement it through `INSTANCE RamLedgerFactoryAbstract WITH listedIDs <- {l[1] : l \in listed}`.

**Actions.** Each call is split where another goroutine could step in:
- `CallGetOrCreate(t, ch)` and `CallChainIDs(t)` enter a call;
- `Lock` is `rlf.mutex.Lock()`;
- `Lookup` is the map lookup and the early return on a hit; `Create` is `newChain` and the store;
- `Size` is `make([]string, len(rlf.ledgers))`; `Fill` is the range loop and the return;
- `Unlock` is the deferred `Unlock` as the call returns.

### `RWSetBuilder` (+ `MC_RWSetBuilder`)

**State.** `pub` is the builder's map of namespace to `nsPubRwBuilder` (read, write and range-query maps and a map of collection to `collHashRwBuilder`); `pvt` is the map of namespace to `nsPvtRwBuilder`. Both are TLA+ functions with `NONE` for a missing key. `hist` records the calls made (a history variable), `results` the last value `GetTxSimulationResults` returned.

**Actions.** One per method: `AddToReadSet`, `AddToWriteSet`, `AddToRangeQuerySet` (which keeps the first range query of a key), `AddToHashedReadSet`, `AddToPvtAndHashedWriteSet` (the value in the private builder and its hash in the public one), and `GetTxSimulationResults`. The last builds the private rwset, stores each collection's hash in the public builder (`PvtHashed`, `SetPvtCollectionHash`), builds the public rwset, and may fail at either marshal. A failure after the hashes were stored keeps them, as the code does. Hashing is a free constructor `Digest`; the `build()` methods sort by key, modelled by `SetToSortSeq`.

**Reference.** `RefPub` and `RefPvt` compute the rwsets from the call history alone: last read and last write per key, first range query per key, collections sorted, hashes of the private writes.

### `OrgConfig` (+ `MC_OrgConfig`)

**State.** For each parent group (`"application"`, `"consortium"`): the organisations it holds and the committed `OrganizationConfig` of each. For application orgs, also the committed `ApplicationOrgConfig`. For each parent, its committed config. A config value carries the number of the transaction that allocated it, so two values are equal exactly when they are the same Go object.

**Actions.** `ConfigTx(t, prop)` is one config transaction, as the Proposer (outside `src/`) drives it: every organisation's group allocates a value, `Validate` runs (`ValidateMSP` is `validateMSP`: `ProposeMSP` may fail, the MSP ID may not be empty, and it must equal the committed one), and either all commit (`CommitApplication` or `CommitConsortium`, each including the organisations' `Commit`) or the transaction rolls back. `Done` stutters when the bound is reached.

### `CAConfig` (+ `MC_CAConfig`) and `MaxEnrollments`

**State.** Per CA: `phase` (how far its start-up got), `csp` (`cfg.CSP`: a record of provider name, SW options and PKCS11 options, `NONE` for a nil pointer), `msp` (the `mspDir` it was configured with), `keyReq` and `maxEnroll` (`cfg.Registry.MaxEnrollments`). Shared: `providerName`, package `util`'s variable (its setter, `util.SetProviderName`, is not in `src/`). A path is a sequence of segments, `"/"` first when absolute.

**Actions.**
- `UnmarshalConfig(ca)` reads a file with any bccsp section and limit. The read or either `Unmarshal` may fail, and then the CA stops.
- `ConfigureBCCSP(ca)` is the whole function: empty options for a nil `cfg.CSP`, the provider forced to `"GM"`, `util.SetProviderName`, the SW/GM default branch (`ProviderDefaults`, `SwDefaults`), `makeFileNamesAbsolute`, and `InitFactories` (outside `src/`), which may fail. Only on success is `*optsPtr` assigned. Options that were not nil were changed in place anyway.
- `GetKeyRequest(ca)` is `GetKeyRequest(cfg)`.

**Helpers.** `MaxEnrollments` holds `GetMaxEnrollments`, the operator for `getMaxEnrollments`, and `Policy`, the policy its comments state. `MakeFileAbs` and `NewBasicKeyRequest` stand for fabric-ca code outside `src/`.

### `ConfigtxlatorHandlers`

**Handler.** `GetMsgType`, `ReadBody` (Decode only), `Parse` and `Convert` are the handler's steps. Each either goes on or fails with `Fail(code)`: `WriteHeader(code)`, then the error line. A request is a record of which steps succeed.

**Writer.** The `ResponseWriter` (net/http, not in `src/`) is modelled by its header rules and left out of the map. `Header()` called after `WriteHeader` freezes a copy of the header map as the one sent. A body written with no Content-Type is sniffed.

## Runs

| Run | Expect | Checks | What it shows |
|---|---|---|---|
| `blockcutter` | pass | `TypeOK`, `NoLossNoDup`, `SizeAccounting`, `BatchWithinLimits`, `OrderedContract` | With sizes that cannot wrap the counter, no envelope is lost, duplicated or reordered, the byte count is exact, every cut batch is within `BatchSize`, and the `(batches, pending)` contract of the doc comment holds. |
| `blockcutter_wrap` | violation | `BatchWithinLimits` | With `PreferredMaxBytes` near the top of the uint32 range, `pendingBatchSizeBytes+messageSizeBytes` wraps and a batch larger than `PreferredMaxBytes` is cut (finding). |
| `cluster_comm` | pass | `TypeOK`, `ImplementsAbstractStub`, `EveryCallReturns` | Concurrent `Activate` calls dial through the Pinning Dialer while the config cell is replaced mid-dial. The stub still refines atomic create-or-attach, whatever the dials' outcomes, and every call returns. |
| `block_verifier` | pass | `TypeOK`, `AcceptedBatchAuthenticated`, `AcceptedNumbersIncrease` | Although only config blocks and the last block are signature-checked, an accepted batch is hash-chained to blocks signed under the config in force, with each config change signed under the config it replaces. No accepted batch has numbers that wrap past 2^64-1. |
| `peer_channels` | pass | `TypeOK`, `CurrConfigBlockIsLatest`, `ServerRootsCurrent`, `EveryCreateChainReturns` | See below. |
| `peer_failed_create` | violation | `FailedCreateLeavesNoTrace` | A `createChain` that fails after its bundle source was built leaves the channel's TLS roots trusted by the peer server and its MSP manager registered (finding). |
| `peer_deliver_race` | violation | `NoFatalError` | `DeliverSupportManager.GetChain` reads `chains.list` without the lock while `createChain` writes it: a data race on a Go map, which can kill the peer (finding). |

| `rwset_builder` | pass | `TypeOK`, `ResultsMatchReference` | Whatever the order of the `AddTo*` calls and of `GetTxSimulationResults`, including one that failed at a marshal, both rwsets match the reference, the public one carrying the hash of every collection's current private writes. |
| `org_config` | pass | `TypeOK`, `MSPIDImmutable` | Through committed and rolled-back transactions on both parents, an organisation that stays keeps its MSP ID. |
| `ram_ledger_factory` | pass | `TypeOK`, `ImplementsAtomicFactory`, `ChainIDsExact`, `EveryCallReturns` | Concurrent calls implement the atomic factory: one ledger per chain, never replaced, and IDs listed as held at one moment. `ChainIDs` sizes its slice exactly, and every call returns. |
| `ca_config` | pass | `TypeOK`, `KeyRequestMatchesProvider`, `KeystoreInPlace`, `RegistrationFollowsPolicy` | Whatever the CAs' config files say and however their start-ups interleave or fail, each CA requests keys of its provider's security level, each software keystore is absolute and inside the CA's msp directory, and registrations follow the stated policy for the CA's configured limit (-1 or above; below -1 the comments state no policy). |
| `configtxlator_content_type` | violation | `ContentTypeAsSet` | `Decode` and `Encode` set the Content-Type after `WriteHeader(200)`, so it is never sent and the client sees a sniffed type (finding). |
What `peer_channels` shows:
- A config block committed before the chain is in `chains.list` is refused, so the cached config block is always the latest one.
- Two channels' `updateTrustedRoots` never leave stale roots on the server, once the last `SetClientRootCAs` succeeded. The read lock is held through `SetClientRootCAs` by the `defer`, and a build needs the write lock.
- Every `createChain` returns.

Each property of a pass run has a mutant in `PROJECT.json`. A mutant is a plausible slip in the code it models, and TLC finds it breaks the property. Examples:
- the isolated branch forgetting to cut the pending batch;
- a byte counter not reset by `Cut`;
- the read lock released before `SetClientRootCAs`;
- `SetCurrConfigBlock` ignoring a missing chain;
- a forgotten `RUnlock`;
- a range-query dedupe dropped, or the collection hash computed only for new collections;
- `validateMSP` without its changed-ID check;
- a config pass that leaves `isLastBlockConfigBlock` set after a normal block;
- a header encoded with an unchecked int64 conversion instead of the panic;
- a stub that stores the factory's result before checking its error;
- a lookup that always creates, `ChainIDs` sizing its slice at 0, a return that keeps the mutex;
- an off-by-one in `getMaxEnrollments`;
- `SetProviderName` called before the provider is forced, `GetKeyRequest` consulting the PKCS11 options first, a configured keystore path winning over `mspDir`, a missing security-level default.

Two outcomes of the block verifier are reached by the model but not asserted against, because the code promises neither (see the hazards in `PROJECT.json`):
- `BlockHeader.Bytes` panics on blocks numbered past `MaxInt64`. `AcceptedNumbersIncrease` checks what that panic guards, but no property forbids the panic itself;
- the data hash of index 0 is never compared with its header.

## Bounds, and why they suffice

**Block cutter.** Three envelopes of sizes 1, 3 and 5, with `PreferredMaxBytes = 4`, `MaxMessageCount = 3` and five `Ordered` calls. This exercises every branch:
- isolation with and without a pending batch;
- overflow cut;
- count cut;
- timer cut.

The wrap run uses sizes 7, 9 and 13 with `PreferredMaxBytes = 12` and `Width = 4`. 7 + 9 wraps to 0, which is the same arithmetic as uint32 with `PreferredMaxBytes >= 2^31`.

**Block verifier.**
- Batches of up to three blocks: one config block can precede a block signed under it, and one more block follows.
- Two config envelopes, so a block signed under the older config is told apart from one signed under the newer.
- Every single tamper at every position.
- `Width = 4` gives `MaxInt = 7`, and batches start at 0, 6 or 15:
  - from 0, every number stays below `MaxInt`;
  - from 6, the batch is accepted with its last block, numbered 8, past `MaxInt`, because that header is never encoded;
  - from 15 = 2^4-1, the numbers wrap to 0, and the hash pass panics on the second block.
- Three blocks are enough for a normal block between two config blocks, and for a normal block after a config block that is not the last.

**Cluster comm.** Three goroutines making two calls each. This gives two waiters behind a creator, and a retry after a failed dial. The server's CA is `ca1`, and the dialer starts with `{ca1}`. Two refreshes may each store:
- `{ca1}`;
- `{ca2}` (a rotation that leaves the server untrusted);
- `{ca1, ca2}`;
- `{ca1, BAD}`, a root that does not parse.

A refresh can land between any two steps of a dial. Every dial outcome is reached: bad root, untrusted server, transport failure and success.

**Peer.** Two channels, two config blocks each (genesis plus one update), and one restart. This exercises:
- both channels' `updateTrustedRoots` interleaving;
- a config block committed in the window between gossip start and the chain's insertion;
- a deliver read during the insertion;
- a kill at any point followed by a reload.

The violation runs need only one channel.

**RAM ledger factory.** Two goroutines, two chain IDs and three calls each. This is enough for two `GetOrCreate` calls of one chain to race, and for a `ChainIDs` to run between two creations.

**RW set builder.** Two namespaces, one collection, two keys, two versions, two values, two range-query keys with two payloads, and three calls before or between `GetTxSimulationResults`. This covers a read and a write of one key, a second range query of a key, a private write after a first set of results, and both marshal failures.

**Org config.** Two organisations, two MSP IDs plus the empty and a rejected one, one anchor list, four transactions. This is enough for a commit, a change attempt, a rollback, and an organisation leaving and returning.

**CA config.** Two CAs are enough for two writers of `providerName` and for interleaved start-ups. The provider names are unset, `gm`, `sw` and `PKCS11` (lower case exercises `ToUpper`). SW options are absent or any mix of unset/SHA2 hash, unset/384 level and absent/unset/relative keystore. PKCS11 options are absent or level 384. `mspDir` is unset or relative. This reaches every branch of `ConfigureBCCSP` and `GetKeyRequest`. Enrollment limits are -3..5 requested against -2..4 configured, which covers every branch and each boundary on both sides, including a CA limit below -1, which `UnmarshalConfig` accepts. The CAs are symmetric.

## Fairness

**Cluster comm.**
- Goroutines that have called `Activate` keep running (`WF` on `Check`, the dial steps and `Create`). `Dial` respects its timeout (spec 5), so a dial in flight finishes.
- Config blocks come from the channel and are not fair.
- A waiter gets the lock if it is free infinitely often (`SF` on `Acquire`). Go's `sync.Mutex` switches to starvation mode and hands the lock to a waiter that has waited over 1ms.
- `Call` is not fair: calling is up to the caller.
- The cfg disables the deadlock check, because every goroutine makes its `MaxCalls` calls and the program ends.

**Peer.**
- Running goroutines keep running (`WF`).
- Lock acquisitions of `credSupport.Lock` and `chains.Lock` get `SF`.
- Joins, config blocks, deliver requests and restarts come from outside, so none of them is fair.

**RAM ledger factory.** `SF` on `Lock`, for the reason given for the stub; `WF` on the steps inside a call. Calls are not fair. The cfg disables the deadlock check because the goroutines stop after `MaxCalls` calls.

**Block cutter, block verifier, RW set builder, org config, CA config, configtxlator.** These are safety-only. The verifier's `Done` step stutters once `VerifyBlocks` has returned. `OrgConfig`'s `Done` stutters once its transaction bound is reached. `CAConfig`'s `Done` stutters once every CA has its key request or has stopped. `ConfigtxlatorHandlers` disables the deadlock check: a request served is the end of the program.

## What is not modelled, and why

**Pinning Dialer.**
- `EndpointconfigFromConfigBlock`, which computes a refresh's roots, is not modelled: its caller, the replication driver, is neither in `src/` nor specified, so a refresh stores any root set.
- `ClientConfig()`'s errors (never stored, wrong type, nil `SecOpts`) are not modelled. They are reachable only from a `PredicateDialer` built without `NewTLSPinningDialer`, as in `TestClientConfig`.
- `DERtoPEM` is stateless formatting.
- The pinning callback is assumed to accept the expected member's certificate.

**Inside `createChain`.** Capability checks panic on unsupported capabilities and are not modelled. The gossip and peer-singleton callbacks only touch channel-local objects.

**Committer and bundle source.** Their order (the committer's callback runs before the bundle update) is assumed. Their code is not in `src/`.

**`Initialize`.** It is sequential over ledger ids. The model lets reloads of different channels interleave, which only adds behaviours.

**Orderer roots.** `OrdererRootCAsByChain` is built but never read by this code.

**Read APIs.** `GetLedger`, `GetMSPIDs`, `GetChannelsInfo` and the other read APIs are read-only under the read lock.

**`chainSupport.Apply` and `capabilitiesSupportedOrPanic`.** They call bundle code outside `src/`.

**Crypto, proto helpers, I/O, mocks and tests.** These have no state a model checker can say anything about. They are listed in `PROJECT.json`.

**net/http.** The `ResponseWriter` of `ConfigtxlatorHandlers` is modelled from net/http's documented header rules; it is not this repository's code.

**The rest of `lib/util.go`.**
- `GetCertID`, `BytesToX509Cert` and `LoadPEMCertPool` are x509 parsing and file I/O.
- `clientAuthTypes` is only read outside `src/`.
- `addQueryParm`, `GetUserAffiliation` and the JSON decoders are formatting.
- `ParseSm2CertificateRequest2X509` is a field copy. Its enum casts depend on the `tjfoc/gmsm` package, which is not in `src/`.

**The key algorithm.** `GetKeyRequest` always asks for `"ecdsa"`, even under the GM provider. How the GM factory treats that request is outside `src/`.

**DB drivers.** `lib/dbutil/drivers.go` only has blank imports.

**The pre-genesis RAM chain.** `newChain`'s block numbered `^uint64(0)` belongs to the RAM ledger, which is outside `src/`.

**`lib`'s `providerName` and `IsGMConfig`.** `configurebccsp.go` calls `SetProviderName` of its own package, `util`. `lib.IsGMConfig` reads `lib`'s own `providerName`, a different variable (`lib` imports `util`), and nothing in `src/` calls `lib.SetProviderName`, so it is not modelled.

## Plan for the next sittings

1. The registrar's use of the factory, or the endorser's use of `GetTxSimulationResults`, if their code appears under `src/`.
2. Widen `OrgConfig` to the orderer and channel groups, if their code appears under `src/`.
3. `ClientConfig()`'s error paths, as a reader of the dialer's cell that is built without `NewTLSPinningDialer`.
