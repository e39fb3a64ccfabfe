---------------------------- MODULE BlockCutter ----------------------------
(***************************************************************************)
(* The orderer's block cutter (orderer/common/blockcutter/blockcutter.go, *)
(* type receiver).  Envelopes arrive one at a time through Ordered; the    *)
(* receiver keeps a pending batch and its size in bytes, and returns the   *)
(* batches it cuts.  A timer in the consenter calls Cut to flush the       *)
(* pending batch.                                                          *)
(*                                                                         *)
(* Envelopes are model values; only their size in bytes matters to the    *)
(* cutter.  Sizes and the byte counter are uint32 in the code: they are    *)
(* kept modulo 2^Width here so that a small Width exposes the wrap-around. *)
(***************************************************************************)
EXTENDS Naturals, Sequences, SequencesExt

CONSTANTS
    Msgs,              \* envelopes that can be ordered (model values)
    Size,              \* Size[m]: len(Payload)+len(Signature) of envelope m
    PreferredMaxBytes, \* BatchSize().PreferredMaxBytes of the channel config
    MaxMessageCount,   \* BatchSize().MaxMessageCount of the channel config
    Width,             \* bit width of the code's uint32 (32 in the code)
    MaxOrdered         \* bound on the number of Ordered calls explored

Mod == 2 ^ Width

ASSUME
    /\ Size \in [Msgs -> 0 .. Mod - 1]
    /\ PreferredMaxBytes \in 0 .. Mod - 1
    \* channel config validation rejects MaxMessageCount = 0
    /\ MaxMessageCount \in 1 .. Mod - 1
    /\ MaxOrdered \in Nat

VARIABLES
    pendingBatch,          \* r.pendingBatch
    pendingBatchSizeBytes, \* r.pendingBatchSizeBytes (uint32)
    ordered,               \* history: envelopes passed to Ordered, in order
    emitted,               \* history: non-empty batches handed to the consenter
    lastReturn             \* the (messageBatches, pending) of the last Ordered

vars == <<pendingBatch, pendingBatchSizeBytes, ordered, emitted, lastReturn>>

-----------------------------------------------------------------------------
(* uint32 addition *)
AddU(a, b) == (a + b) % Mod

(* messageSizeBytes(message) *)
MessageSizeBytes(m) == Size[m]

(* the exact (unbounded) number of bytes of a sequence of envelopes *)
RECURSIVE BytesOf(_)
BytesOf(s) == IF s = <<>> THEN 0 ELSE Size[Head(s)] + BytesOf(Tail(s))

-----------------------------------------------------------------------------
(* Mutations of the definitions below, each a plausible slip in this code. *)

\* the isolated branch forgets to cut the pending batch first
IsolateForgetPending(m) ==
    [batches |-> << <<m>> >>, pending |-> <<>>, bytes |-> 0, flag |-> FALSE]

\* Cut returns the batch but does not reset the byte counter
CutKeepBytes == [batch |-> pendingBatch, pending |-> <<>>,
                 bytes |-> pendingBatchSizeBytes]

\* the count check is off by one
BatchFullLate(p) == Len(p) > MaxMessageCount

\* the overflow check forgets the bytes already pending
OverflowsIgnoringPending(sz) == sz > PreferredMaxBytes

\* the count-triggered cut forgets to clear `pending`
EnqueueKeepFlag(m) ==
    LET sz   == MessageSizeBytes(m)
        over == AddU(pendingBatchSizeBytes, sz) > PreferredMaxBytes
        b1   == IF over THEN << pendingBatch >> ELSE <<>>
        p1   == IF over THEN <<>> ELSE pendingBatch
        s1   == IF over THEN 0 ELSE pendingBatchSizeBytes
        p2   == Append(p1, m)
    IN IF Len(p2) >= MaxMessageCount
       THEN [batches |-> Append(b1, p2), pending |-> <<>>, bytes |-> 0,
             flag |-> TRUE]
       ELSE [batches |-> b1, pending |-> p2, bytes |-> AddU(s1, sz),
             flag |-> TRUE]

-----------------------------------------------------------------------------
(* r.Cut(): the current batch is returned and a new one started *)
CutResult == [batch |-> pendingBatch, pending |-> <<>>, bytes |-> 0]

(* r.pendingBatchSizeBytes+messageSizeBytes > PreferredMaxBytes, in uint32 *)
Overflows(sz) == AddU(pendingBatchSizeBytes, sz) > PreferredMaxBytes

(* uint32(len(r.pendingBatch)) >= BatchSize().MaxMessageCount *)
BatchFull(p) == Len(p) >= MaxMessageCount

(* Ordered, branch of an envelope larger than PreferredMaxBytes: the       *)
(* pending batch is cut if non-empty and the envelope goes alone.          *)
Isolate(m) ==
    IF Len(pendingBatch) > 0
    THEN [batches |-> << CutResult.batch, <<m>> >>,
          pending |-> CutResult.pending, bytes |-> CutResult.bytes,
          flag |-> FALSE]
    ELSE [batches |-> << <<m>> >>, pending |-> pendingBatch,
          bytes |-> pendingBatchSizeBytes, flag |-> FALSE]

(* Ordered, branch of an envelope within PreferredMaxBytes: cut first if   *)
(* it would overflow the pending bytes, enqueue it, cut if the batch is    *)
(* full.  Every comparison and sum is uint32.                              *)
Enqueue(m) ==
    LET sz   == MessageSizeBytes(m)
        over == Overflows(sz)
        b1   == IF over THEN << CutResult.batch >> ELSE <<>>
        p1   == IF over THEN CutResult.pending ELSE pendingBatch
        s1   == IF over THEN CutResult.bytes ELSE pendingBatchSizeBytes
        p2   == Append(p1, m)
    IN IF BatchFull(p2)
       THEN [batches |-> Append(b1, p2), pending |-> <<>>, bytes |-> 0,
             flag |-> FALSE]
       ELSE [batches |-> b1, pending |-> p2, bytes |-> AddU(s1, sz),
             flag |-> TRUE]

(* The whole of receiver.Ordered(msg), with its result recorded. *)
Ordered(m) ==
    /\ Len(ordered) < MaxOrdered
    /\ LET r == IF MessageSizeBytes(m) > PreferredMaxBytes
                THEN Isolate(m) ELSE Enqueue(m)
       IN /\ pendingBatch' = r.pending
          /\ pendingBatchSizeBytes' = r.bytes
          /\ emitted' = emitted \o r.batches
          /\ lastReturn' = [batches |-> r.batches, pending |-> r.flag]
    /\ ordered' = Append(ordered, m)

(* receiver.Cut() called by the consenter's batch timer; the consenter     *)
(* drops an empty result, so only a non-empty batch is emitted.            *)
Cut ==
    /\ pendingBatch' = CutResult.pending
    /\ pendingBatchSizeBytes' = CutResult.bytes
    /\ emitted' = IF CutResult.batch = <<>> THEN emitted
                  ELSE Append(emitted, CutResult.batch)
    /\ UNCHANGED <<ordered, lastReturn>>

Init ==
    /\ pendingBatch = <<>>
    /\ pendingBatchSizeBytes = 0
    /\ ordered = <<>>
    /\ emitted = <<>>
    /\ lastReturn = [batches |-> <<>>, pending |-> FALSE]

Next == (\E m \in Msgs : Ordered(m)) \/ Cut

Spec == Init /\ [][Next]_vars

-----------------------------------------------------------------------------
(* Properties *)

TypeOK ==
    /\ pendingBatch \in Seq(Msgs)
    /\ Len(pendingBatch) < MaxMessageCount
    /\ pendingBatchSizeBytes \in 0 .. Mod - 1
    /\ ordered \in Seq(Msgs)
    /\ emitted \in Seq(Seq(Msgs))
    /\ lastReturn.pending \in BOOLEAN

(* Ordered and Cut neither lose nor duplicate nor reorder an envelope: the *)
(* batches cut so far followed by the pending batch are exactly the        *)
(* envelopes ordered so far, in order.                                     *)
NoLossNoDup == FlattenSeq(emitted) \o pendingBatch = ordered

(* r.pendingBatchSizeBytes, maintained incrementally with uint32 sums and  *)
(* resets in Cut, always equals the real byte count of r.pendingBatch.     *)
SizeAccounting == pendingBatchSizeBytes = BytesOf(pendingBatch)

(* Every batch the cutter cuts respects the channel's BatchSize: at most   *)
(* MaxMessageCount envelopes, and at most PreferredMaxBytes bytes unless   *)
(* it is a single envelope isolated because it alone is larger.            *)
BatchWithinLimits ==
    \A i \in 1 .. Len(emitted) :
        /\ Len(emitted[i]) <= MaxMessageCount
        /\ Len(emitted[i]) > 1 => BytesOf(emitted[i]) <= PreferredMaxBytes

(* The contract documented on receiver.Ordered: every returned batch is    *)
(* non-empty, at most two are returned, (0 batches, pending=false) and     *)
(* (2 batches, pending=true) never happen, and `pending` is true exactly   *)
(* when messages remain in the receiver.                                   *)
OrderedContract ==
    [][ Len(ordered') = Len(ordered) + 1 =>
        LET bs == lastReturn'.batches IN
        /\ \A i \in 1 .. Len(bs) : bs[i] # <<>>
        /\ Len(bs) <= 2
        /\ ~(Len(bs) = 0 /\ ~lastReturn'.pending)
        /\ ~(Len(bs) = 2 /\ lastReturn'.pending)
        /\ lastReturn'.pending = (pendingBatch' # <<>>) ]_vars
=============================================================================
