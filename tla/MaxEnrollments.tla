--------------------------- MODULE MaxEnrollments ---------------------------
(***************************************************************************)
(* The CA's choice of an identity's enrollment limit at registration       *)
(* (lib/util.go, getMaxEnrollments), as an operator.  -1 means unlimited;  *)
(* a requested 0 means "the CA's limit"; a CA limit of 0 disables          *)
(* registration.  CAConfig checks it against the policy its comments and   *)
(* error messages state, with the limits a CA can be configured with.      *)
(***************************************************************************)
EXTENDS Integers

Err == [ok |-> FALSE, val |-> 0]
Ok(v) == [ok |-> TRUE, val |-> v]

(* getMaxEnrollments with the request allowed to reach one past the limit *)
GetMaxEnrollmentsOffByOne(u, c) ==
    CASE u < -1 -> Err
      [] c = -1 -> IF u = 0 THEN Ok(c) ELSE Ok(u)
      [] c = 0  -> Err
      [] OTHER  -> CASE u = -1 -> Err
                     [] u = 0  -> Ok(c)
                     [] OTHER  -> IF u > c + 1 THEN Err ELSE Ok(u)

(* getMaxEnrollments(userMaxEnrollments, caMaxEnrollments) *)
GetMaxEnrollments(u, c) ==
    CASE u < -1 -> Err
      [] c = -1 -> IF u = 0 THEN Ok(c) ELSE Ok(u)
      [] c = 0  -> Err
      [] OTHER  -> CASE u = -1 -> Err
                     [] u = 0  -> Ok(c)
                     [] OTHER  -> IF u > c THEN Err ELSE Ok(u)

(* a CA configured with limit c permits an identity limit r *)
Permits(c, r) == IF c = -1 THEN r = -1 \/ r >= 1 ELSE 1 <= r /\ r <= c

(* the policy the code's comments state: a request below -1 is refused;   *)
(* otherwise the identity gets the limit it asked for (the CA's when it    *)
(* asked for 0) exactly when the CA permits that limit, and the request    *)
(* is refused when it does not                                             *)
Policy(u, c) ==
    LET asked == IF u = 0 THEN c ELSE u
    IN IF u >= -1 /\ Permits(c, asked) THEN Ok(asked) ELSE Err
=============================================================================
