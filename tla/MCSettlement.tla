----------------------------- MODULE MCSettlement -----------------------------
(***************************************************************************)
(* Settlement on small instances.                                          *)
(***************************************************************************)
EXTENDS SettlementRefinement, TLC

CONSTANTS r1, r2, r3, alice, bob, shop, n1, n2, usdc, xusdc

Pay(p, n, from, until) ==
    [auth |-> [from |-> p, to |-> shop, denom |-> usdc, amount |-> Digits(1), nonce |-> n,
               validAfter |-> from, validBefore |-> until],
     genuine |-> TRUE, matches |-> TRUE, max |-> 2]

\* From a caller whose requirements have no maxTimeoutSeconds.
Unlimited(p) == [p EXCEPT !.max = 0]

\* One nonce in two authorizations of different windows, from two kinds of callers:
\* a client that reuses its nonce, retries of each, and stale requests of the one
\* that expires first.
OneNonce == {Pay(alice, n1, 0, 1), Unlimited(Pay(alice, n1, 0, 2))}

\* Two payers, one of them with an amount that spells another denom, and two nonces
\* of one payer with transfers that are otherwise equal; one authorization is
\* not valid yet; one is forged, and one does not fit the requirements it comes
\* with.
Lettered(p) == [p EXCEPT !.auth.amount = [form |-> "lettered", value |-> 1, spells |-> xusdc]]
Forged(p)   == [p EXCEPT !.genuine = FALSE]
Mismatch(p) == [p EXCEPT !.matches = FALSE]

TwoPayers == {Pay(alice, n1, 0, 2), Pay(alice, n2, 1, 2), Lettered(Pay(bob, n1, 0, 2)),
              Forged(Pay(alice, n1, 0, 2)), Mismatch(Pay(bob, n2, 0, 2))}

\* Limits in every denom.
UpTo(n) == [d \in Denoms |-> n]

One       == {UpTo(1)}
Plenty    == {UpTo(2)}
OneOrNone == {UpTo(0), UpTo(1)}

\* A validBefore above UnixMax.
FarFuture == {Unlimited(Pay(alice, n1, 0, 6))}

Symmetry == Permutations(Requests)
===============================================================================
