------------------------------ MODULE Negotiation ------------------------------
(***************************************************************************)
(* How the two honest parties arrive at a payment: the requirements the    *)
(* resource server states (middleware/middleware.go) and the payload a     *)
(* payer signs for them (examples/client, tools/fixture).                  *)
(***************************************************************************)
EXTENDS Verification

CONSTANTS DefaultTimeout   \* Config.MaxTimeoutSeconds if it is 0 (60 in the code)

ASSUME DefaultTimeoutAssumption == DefaultTimeout \in Nat \ {0}

Config == [payTo : Recipients, asset : Denoms, amount : Amounts, network : ChainIds,
           facilitator : Grantees, maxTimeout : Nat]

Stated(cfg, url, max) ==
    [scheme |-> Scheme, network |-> cfg.network, maxAmount |-> cfg.amount,
     asset |-> cfg.asset, payTo |-> cfg.payTo, resource |-> url, maxTimeout |-> max,
     facilitator |-> cfg.facilitator, chainId |-> cfg.network]

\* Paid fills in the default once, when the gate is built.
TimeoutOf(cfg) == IF cfg.maxTimeout = 0 THEN DefaultTimeout ELSE cfg.maxTimeout

\* buildRequirements: the resource is the URL of the request at hand.
BuildRequirements(cfg, url) == Stated(cfg, url, TimeoutOf(cfg))

\* The fixture tool states requirements of its own, from its flags, 0 being no
\* maximum.  (Its chain-id is a flag beside the network's, taken as equal here.)
FixtureRequirements(cfg, url) == Stated(cfg, url, cfg.maxTimeout)

\* How far before and after its clock a payer's window reaches: 5 and 30 seconds
\* in the example client, 60 and -10 if asked for an expired one, 5 and the flag
\* validity-seconds in the fixture tool.
Windows == [back : Int, ahead : Int]

\* The payer takes the requirements as they are and asks for no more time than
\* its own window: it does not look at maxTimeoutSeconds.
SignedFor(pr, payer, nonce, time, w) ==
    [from |-> payer, to |-> pr.payTo, denom |-> pr.asset, amount |-> pr.maxAmount,
     nonce |-> nonce, validAfter |-> time - w.back, validBefore |-> time + w.ahead,
     resource |-> pr.resource, chainId |-> pr.chainId]

\* Faulty variant: what is sent is not what was signed.
PayWithStaleSignature(pr, payer, nonce, time, w) ==
    [scheme |-> Scheme, network |-> pr.network, publicKey |-> payer,
     signature |-> [by |-> payer, over |-> SignedFor(pr, payer, nonce, time, [w EXCEPT !.ahead = @ - 1])],
     auth |-> SignedFor(pr, payer, nonce, time, w)]

PaymentFor(pr, payer, nonce, time, w) ==
    [scheme |-> Scheme, network |-> pr.network, publicKey |-> payer,
     signature |-> [by |-> payer, over |-> SignedFor(pr, payer, nonce, time, w)],
     auth |-> SignedFor(pr, payer, nonce, time, w)]
=================================================================================
