--------------------------- MODULE BlockVerifier ---------------------------
(***************************************************************************)
(* Sequence Validator of the cluster layer: VerifyBlocks checks a batch   *)
(* of blocks received from an untrusted peer: the hash chain of every     *)
(* block (VerifyBlockHash), then the signatures of the config blocks, each *)
(* under the config in force before it, and of the last block.           *)
(* The passes are written from TestVerifyBlocks and spec 4.2-4.4 (the     *)
(* cluster package's Go source is not in this repository); header    *)
(* encoding and hashing are protos/common/block.go, which is.            *)
(*                                                                         *)
(* The batch is fixed in Init: an honest chain built from a start number, *)
(* a transaction and a signature per block, with at most one block        *)
(* tampered by the sending peer.  SHA-256 is the free constructor Digest: *)
(* equal digests mean equal inputs.  Block numbers are uint64, kept       *)
(* modulo 2^Width with MaxInt the int64 bound of the ASN.1 encoding.       *)
(***************************************************************************)
EXTENDS Naturals, Sequences, SequencesExt

CONSTANTS
    Configs,  \* config envelopes a config block can carry (model values)
    NULL,     \* nil: no header, no active config
    Starts,   \* block numbers the batch may start at
    MaxLen,   \* longest batch
    Width     \* bit width of uint64 block numbers

Mod    == 2 ^ Width
MaxInt == 2 ^ (Width - 1) - 1   \* math.MaxInt64

ASSUME Starts \subseteq 0 .. Mod - 1 /\ MaxLen \in Nat /\ Width \in Nat \ {0}

(* The single transaction of a block: a normal envelope, a config         *)
(* envelope carrying one of Configs, or one whose payload has no header.  *)
Txs == [kind : {"normal"}, cfg : {NULL}]
       \cup [kind : {"config"}, cfg : Configs]
       \cup [kind : {"malformed"}, cfg : {NULL}]

(* What the block's signatures satisfy: the policy of one config (NULL is *)
(* the caller's current policy), or a signatures slot that does not decode.*)
SigSets == Configs \cup {NULL, "badmeta"}

Tampers == {"nilHeader", "skipNumber", "badDataHash", "badPrevHash"}

-----------------------------------------------------------------------------
(* protos/common/block.go *)

Digest(x) == [sha256 |-> x]

(* BlockData.Bytes: the transactions concatenated with no delimiter *)
DataBytes(data) == FlattenSeq([i \in DOMAIN data |-> << data[i] >>])

(* BlockData.Hash *)
DataHash(data) == Digest(DataBytes(data))

(* Mutation: a header encoded with an unchecked int64 conversion. *)
CanEncodeUnchecked(h) == TRUE

(* BlockHeader.Bytes: ASN.1 of (int64(Number), PreviousHash, DataHash);   *)
(* the caller must first check CanEncode, the code panics otherwise.       *)
CanEncode(h) == h.number <= MaxInt
HeaderBytes(h) == << h.number, h.prevHash, h.dataHash >>

(* BlockHeader.Hash *)
HeaderHash(h) == Digest(HeaderBytes(h))

-----------------------------------------------------------------------------
(* The batches a peer can send. *)

\* digests of bytes the peer made up, and of the block before the batch
Garbage   == Digest(<< [kind |-> "garbage", cfg |-> NULL] >>)
LedgerTip == Digest(<< [kind |-> "ledger", cfg |-> NULL] >>)

MakeBatch(start, n, txs, sigs, k, t) ==
    LET hdr[i \in 1 .. n] ==
          LET prev   == IF i = 1 THEN NULL ELSE hdr[i - 1]
              number == IF i = 1 \/ prev = NULL THEN (start + i - 1) % Mod
                        ELSE (prev.number + 1) % Mod
          IN IF i = k /\ t = "nilHeader" THEN NULL
             ELSE [number   |-> IF i = k /\ t = "skipNumber"
                                THEN (number + 1) % Mod ELSE number,
                   prevHash |-> IF i = k /\ t = "badPrevHash" THEN Garbage
                                ELSE IF prev = NULL THEN LedgerTip
                                ELSE Digest(HeaderBytes(prev)),
                   dataHash |-> IF i = k /\ t = "badDataHash" THEN Garbage
                                ELSE DataHash(<< txs[i] >>)]
    IN [i \in 1 .. n |-> [header |-> hdr[i], data |-> << txs[i] >>,
                          signedUnder |-> sigs[i]]]

(* the batch a peer sends: at most one of its blocks (k) tampered with (t) *)
IsBatch(bs) ==
    \E s \in Starts, n \in 0 .. MaxLen :
      \E txs \in [1 .. n -> Txs], sigs \in [1 .. n -> SigSets] :
        \E kt \in {<< 0, "none" >>} \cup ((1 .. n) \X Tampers) :
          bs = MakeBatch(s, n, txs, sigs, kt[1], kt[2])

-----------------------------------------------------------------------------
(* VerifyBlocks(blockBuff, verifier), as TestVerifyBlocks exercises it:   *)
(* a first pass runs VerifyBlockHash over every index; a second pass       *)
(* classifies every block and verifies the signatures of the config blocks *)
(* only, each under the config of the config block before it, adopting its *)
(* own afterwards; finally the last block's signatures are verified under  *)
(* the last adopted config, unless the last block was itself a config      *)
(* block (already verified).                                               *)
VARIABLES
    blocks,        \* the batch handed to VerifyBlocks
    idx,           \* index of the block the current pass is at
    pass,          \* "hash", "config" or "last"
    activeConfig,  \* config: the envelope of the last config block verified
    lastIsConfig,  \* isLastBlockConfigBlock
    status,        \* "running", "ok", "panic" or the error returned
    errAt          \* index of the block the error is about (0: none)

vars == <<blocks, idx, pass, activeConfig, lastIsConfig, status, errAt>>

Errors == {"empty", "missingHeader", "prevHeaderNil", "sequence", "dataHash",
           "prevHash", "classify", "signatureSet", "badSignature"}

Fail(kind) ==
    /\ status' = kind
    /\ errAt' = idx
    /\ UNCHANGED <<blocks, idx, pass, activeConfig, lastIsConfig>>

(* VerifyBlockSignature(block, verifier, config): SignatureSetFromBlock   *)
(* fails on undecodable metadata; the verifier accepts exactly the         *)
(* signature set that satisfies the policy of the config passed to it.     *)
SignatureError(b, config) ==
    CASE b.signedUnder = "badmeta" -> "signatureSet"
      [] b.signedUnder # config    -> "badSignature"
      [] OTHER                     -> "none"

(* the pass after index i of a pass over the batch *)
NextIndex(i) == IF i = Len(blocks) THEN 1 ELSE i + 1

-----------------------------------------------------------------------------
(* VerifyBlockHash(i, blocks), the checks in the spec's order; the last   *)
(* one, the previous-hash link, is separate because it encodes a header.  *)
HashError(i) ==
    LET b == blocks[i] IN
    CASE b.header = NULL                         -> "missingHeader"
      [] i > 1 /\ blocks[i - 1].header = NULL    -> "prevHeaderNil"
      [] i > 1 /\ (blocks[i - 1].header.number + 1) % Mod # b.header.number
                                                 -> "sequence"
      [] i > 1 /\ DataHash(b.data) # b.header.dataHash -> "dataHash"
      [] OTHER                                   -> "none"

(* Mutation: the hash pass running one index past the end of the batch.   *)
VerifyHashOnePast ==
    /\ status = "running" /\ pass = "hash" /\ blocks # <<>>
    /\ HashError(idx) = "none"
    /\ idx' = idx + 1
    /\ pass' = IF idx > Len(blocks) THEN "config" ELSE "hash"
    /\ UNCHANGED <<blocks, activeConfig, lastIsConfig, status, errAt>>

(* "buffer is empty" *)
EmptyBatch ==
    /\ status = "running" /\ blocks = <<>>
    /\ status' = "empty"
    /\ UNCHANGED <<blocks, idx, pass, activeConfig, lastIsConfig, errAt>>

(* One iteration of the first loop: VerifyBlockHash(idx, blocks), whose  *)
(* previous-hash check hashes the previous header (and panics beyond      *)
(* MaxInt64).                                                              *)
VerifyHash ==
    /\ status = "running" /\ pass = "hash" /\ blocks # <<>>
    /\ LET e    == HashError(idx)
           prev == blocks[idx - 1].header
       IN CASE e # "none"                   -> Fail(e)
            [] idx > 1 /\ ~CanEncode(prev)  ->
                  /\ status' = "panic"
                  /\ UNCHANGED <<blocks, idx, pass, activeConfig, lastIsConfig, errAt>>
            [] idx > 1 /\ HeaderHash(prev) # blocks[idx].header.prevHash ->
                  Fail("prevHash")
            [] OTHER ->
                  /\ idx' = NextIndex(idx)
                  /\ pass' = IF idx = Len(blocks) THEN "config" ELSE "hash"
                  /\ UNCHANGED <<blocks, activeConfig, lastIsConfig, status, errAt>>

(* Mutation: a non-config block that leaves isLastBlockConfigBlock set.   *)
VerifyConfigKeepFlag ==
    /\ status = "running" /\ pass = "config"
    /\ LET tx == blocks[idx].data[1]
           se == SignatureError(blocks[idx], activeConfig)
       IN CASE tx.kind = "malformed" -> Fail("classify")
            [] tx.kind = "normal"    ->
                  /\ idx' = NextIndex(idx)
                  /\ pass' = IF idx = Len(blocks) THEN "last" ELSE "config"
                  /\ UNCHANGED <<blocks, activeConfig, lastIsConfig, status, errAt>>
            [] se # "none"           -> Fail(se)
            [] OTHER ->
                  /\ activeConfig' = tx.cfg
                  /\ lastIsConfig' = TRUE
                  /\ idx' = NextIndex(idx)
                  /\ pass' = IF idx = Len(blocks) THEN "last" ELSE "config"
                  /\ UNCHANGED <<blocks, status, errAt>>

(* One iteration of the second loop: ConfigFromBlock classifies the block *)
(* (errNotAConfig for a normal one, an error for one that does not        *)
(* decode); a config block is verified under the config in force and its  *)
(* own config is adopted.                                                 *)
VerifyConfig ==
    /\ status = "running" /\ pass = "config"
    /\ LET tx == blocks[idx].data[1]
           se == SignatureError(blocks[idx], activeConfig)
       IN CASE tx.kind = "malformed" -> Fail("classify")
            [] tx.kind = "normal"    ->
                  /\ lastIsConfig' = FALSE
                  /\ idx' = NextIndex(idx)
                  /\ pass' = IF idx = Len(blocks) THEN "last" ELSE "config"
                  /\ UNCHANGED <<blocks, activeConfig, status, errAt>>
            [] se # "none"           -> Fail(se)
            [] OTHER ->
                  /\ activeConfig' = tx.cfg
                  /\ lastIsConfig' = TRUE
                  /\ idx' = NextIndex(idx)
                  /\ pass' = IF idx = Len(blocks) THEN "last" ELSE "config"
                  /\ UNCHANGED <<blocks, status, errAt>>

(* The last block: accepted if it was a config block, else its           *)
(* signatures are verified under the last adopted config.                 *)
VerifyLast ==
    /\ status = "running" /\ pass = "last"
    /\ LET se == SignatureError(blocks[Len(blocks)], activeConfig) IN
       IF lastIsConfig \/ se = "none"
       THEN /\ status' = "ok"
            /\ UNCHANGED <<blocks, idx, pass, activeConfig, lastIsConfig, errAt>>
       ELSE /\ status' = se
            /\ errAt' = Len(blocks)
            /\ UNCHANGED <<blocks, idx, pass, activeConfig, lastIsConfig>>

Init ==
    /\ IsBatch(blocks)
    /\ idx = 1
    /\ pass = "hash"
    /\ activeConfig = NULL
    /\ lastIsConfig = FALSE
    /\ status = "running"
    /\ errAt = 0

(* VerifyBlocks returns: the walk stops *)
Done ==
    /\ status # "running"
    /\ UNCHANGED vars

Next == EmptyBatch \/ VerifyHash \/ VerifyConfig \/ VerifyLast \/ Done

Spec == Init /\ [][Next]_vars

-----------------------------------------------------------------------------
(* The config in force at index i of a batch: that of the last config     *)
(* block before i, or the caller's (NULL).                                *)
ConfigInForce(bs, i) ==
    LET cfgIdx == {j \in 1 .. i - 1 : bs[j].data[1].kind = "config"} IN
    IF cfgIdx = {} THEN NULL
    ELSE bs[CHOOSE j \in cfgIdx : \A l \in cfgIdx : l <= j].data[1].cfg

-----------------------------------------------------------------------------
(* Properties *)

TypeOK ==
    /\ blocks \in Seq([header : {NULL} \cup [number : 0 .. Mod - 1,
                                              prevHash : {Garbage, LedgerTip}
                                                  \cup {HeaderHash(blocks[i].header) :
                                                        i \in {j \in DOMAIN blocks :
                                                               blocks[j].header # NULL}},
                                              dataHash : {Garbage} \cup {DataHash(<<t>>) : t \in Txs}],
                         data : {<<t>> : t \in Txs}, signedUnder : SigSets])
    /\ Len(blocks) <= MaxLen
    /\ idx \in IF blocks = <<>> THEN {1} ELSE 1 .. Len(blocks)
    /\ pass \in {"hash", "config", "last"}
    /\ activeConfig \in Configs \cup {NULL}
    /\ lastIsConfig \in BOOLEAN
    /\ status \in {"running", "ok", "panic"} \cup Errors
    /\ errAt \in 0 .. MaxLen

(* What an accepted batch is worth: VerifyBlocks checks signatures only of *)
(* config blocks and of the last block, and relies on the hash chain for   *)
(* the rest.  So when it accepts, every block after the first is bound by  *)
(* its data hash and previous hash to the block before it, no block is     *)
(* malformed, and every config block and the last block is signed under   *)
(* the config of the last config block before it in the batch; hence the   *)
(* whole batch hangs from a block signed under the config in force, and    *)
(* every config change in it was authorised by the config it replaced.     *)
AcceptedBatchAuthenticated ==
    status = "ok" =>
      /\ \A i \in 2 .. Len(blocks) :
           /\ blocks[i].header.dataHash = DataHash(blocks[i].data)
           /\ blocks[i].header.prevHash = HeaderHash(blocks[i - 1].header)
      /\ \A i \in 1 .. Len(blocks) :
           /\ blocks[i].data[1].kind # "malformed"
           /\ (blocks[i].data[1].kind = "config" \/ i = Len(blocks))
                 => blocks[i].signedUnder = ConfigInForce(blocks, i)

(* The sequence check adds 1 to a uint64 and so accepts 2^64-1 followed by *)
(* 0; what keeps a wrapped batch out is that hashing the header numbered   *)
(* 2^64-1 panics in BlockHeader.Bytes (number > MaxInt64).  So a batch     *)
(* VerifyBlocks accepts has strictly increasing block numbers.             *)
AcceptedNumbersIncrease ==
    status = "ok" =>
        \A i \in 2 .. Len(blocks) :
            blocks[i - 1].header.number < blocks[i].header.number
=============================================================================
