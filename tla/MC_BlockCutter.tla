--------------------------- MODULE MC_BlockCutter ---------------------------
(* Instantiates BlockCutter for TLC: three envelopes of distinct sizes.    *)
EXTENDS BlockCutter, TLC

CONSTANTS a, b, c

MCMsgs == {a, b, c}

(* Sizes for the run where the byte counter cannot wrap: a and b fit in a  *)
(* batch, two b overflow it, c alone exceeds PreferredMaxBytes = 4.        *)
MCSizeSmall == (a :> 1) @@ (b :> 3) @@ (c :> 5)

(* Sizes for the run with PreferredMaxBytes = 12 close to 2^Width = 16: a  *)
(* and b each fit, and 7 + 9 wraps to 0 in Width-bit arithmetic.           *)
MCSizeWrap == (a :> 7) @@ (b :> 9) @@ (c :> 13)
=============================================================================
