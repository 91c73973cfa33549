------------------------------ MODULE MCCosmosPay ------------------------------
(***************************************************************************)
(* CosmosPay on a small instance: two visits to one page or to two, with   *)
(* one payment of a payer or two of equal content, and no other caller of  *)
(* the facilitator.                                                        *)
(***************************************************************************)
EXTENDS CosmosPay, TLC

CONSTANTS alice, shop, usdc, xusdc, page, post, home, fac, n1, n2, v1, v2

Terms == INSTANCE Negotiation

MCServer == [payTo |-> shop, asset |-> usdc, amount |-> Digits(1), network |-> home,
             facilitator |-> fac, maxTimeout |-> 1]

MCSchemes == {"exact_cosmos_authz"}

SameFloat == [v \in UInt64 |-> v]

Paying(nonce) ==
    [form |-> "payload",
     payment |-> Terms!PaymentFor(Terms!BuildRequirements(MCServer, page), alice, nonce, 0,
                                  [back |-> 0, ahead |-> 1])]

\* The payer signs an amount with letters behind it: another denom's.
Lettered(h) ==
    LET spelt == [form |-> "lettered", value |-> 1, spells |-> xusdc]
    IN  [h EXCEPT !.payment.auth.amount = spelt, !.payment.signature.over.amount = spelt]

MCHeaders == LET plain == {Paying(n) : n \in Nonces}
             IN  plain \cup {Lettered(h) : h \in plain}

\* What the gate sends along: a payment for one page, presented for that or the other.
MCPayloads == {SettleRequest(h, u) : h \in MCHeaders, u \in Resources}

MCLimits == {[d \in Denoms |-> 1]}

Symmetry == Permutations(Visits) \cup Permutations(Nonces)
================================================================================
