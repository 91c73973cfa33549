------------------------------ MODULE MCPaidGate ------------------------------
(***************************************************************************)
(* PaidGate on a small instance: two or more visits to two pages, paid     *)
(* with one nonce or two, or with something that is no payment.            *)
(***************************************************************************)
EXTENDS PaidGate, TLC

CONSTANTS alice, shop, usdc, page, post, home, fac, n1, n2, v1, v2

MCSchemes == {Scheme, "exact"}

MCServer == [payTo |-> shop, asset |-> usdc, amount |-> Digits(2), network |-> home,
             facilitator |-> fac, maxTimeout |-> 0]

SameFloat == [v \in UInt64 |-> v]

Pay(nonce) == PaymentFor(BuildRequirements(MCServer, page), alice, nonce, 1,
                         [back |-> 1, ahead |-> 2])

Sent(form, payment) == [form |-> form, payment |-> payment]

\* Somebody presents what alice signed as a payment for the other page.
Stolen == [Pay(n1) EXCEPT !.auth.resource = post]

MCHeaders == {Sent("absent", Pay(n1)), Sent("garbled", Pay(n1)), Sent("payload", Pay(n1)),
              Sent("payload", Pay(n2)), Sent("payload", Stolen),
              Sent("payload", [Pay(n1) EXCEPT !.scheme = "exact"])}
===============================================================================
