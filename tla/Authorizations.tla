---------------------------- MODULE Authorizations ----------------------------
(***************************************************************************)
(* The signed payment authorization (facilitator/types.go), the key it has *)
(* in the nonce store, and the arithmetic on its validity window.          *)
(*                                                                         *)
(* validAfter and validBefore are uint64 seconds.  The word is a constant, *)
(* so that a small instance can reach the values that do not fit in the    *)
(* time.Time the reservation is given.                                     *)
(***************************************************************************)
EXTENDS Amounts

CONSTANTS Payers,      \* values of Authorization.From
          Recipients,  \* values of Authorization.To
          Nonces,      \* values of Authorization.Nonce
          Word,        \* number of uint64 values (2^64 in the code)
          UnixMax      \* largest second time.Unix represents (2^63 - 1 - 62135596800)

ASSUME WordAssumption    == Word \in Nat \ {0}
ASSUME UnixMaxAssumption == UnixMax \in Nat /\ UnixMax < Word

UInt64 == 0 .. (Word - 1)

\* The resource and the chain id are the requirements' in every authorization that
\* passes Verify, and nothing is done with them; they are left out.
Authorization == [from : Payers, to : Recipients, denom : Denoms, amount : Amounts,
                  nonce : Nonces, validAfter : UInt64, validBefore : UInt64]

Keys == Payers \X Nonces    \* nonceKey: payer|chainID|nonce

KeyOf(a) == <<a.from, a.nonce>>

\* time.Unix(int64(v), 0): a second count that does not fit wraps by 2^64, to a
\* time before 1970.
UnixTime(v) == IF v > UnixMax THEN v - Word ELSE v

\* Faulty variant: valid until and including validBefore.
InWindowClosed(a, now, max) ==
    /\ a.validAfter <= now
    /\ now <= a.validBefore
    /\ a.validAfter < a.validBefore
    /\ max > 0 => a.validBefore - a.validAfter <= max

\* Step 7 of Verify.  max is requirements.maxTimeoutSeconds; 0 is no maximum.
InWindow(a, now, max) ==
    /\ a.validAfter <= now
    /\ now < a.validBefore
    /\ a.validAfter < a.validBefore
    /\ max > 0 => a.validBefore - a.validAfter <= max
===============================================================================
