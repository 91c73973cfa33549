------------------------------ MODULE MCVerifier ------------------------------
(***************************************************************************)
(* Verifier on a small instance: honest payments for three configurations  *)
(* and three windows, and one of them with each field wrong in turn.        *)
(***************************************************************************)
EXTENDS Verifier, TLC

CONSTANTS alice, bob, shop, rival, usdc, atom, page, post, home, away, fac, fac2, n1

MCSchemes == {Scheme, "exact"}

\* Floats of three significant binary digits, rounded to nearest, ties to even.
ThreeDigits == [v \in UInt64 |-> CASE v < 8 -> v
                                   [] v \in {8, 9} -> 8
                                   [] v = 10 -> 10
                                   [] v \in {11, 12, 13} -> 12
                                   [] v = 14 -> 14
                                   [] v = 15 -> 16]

Shop == [payTo |-> shop, asset |-> usdc, amount |-> Digits(2), network |-> home,
         facilitator |-> fac, maxTimeout |-> 3]

\* A server that relies on the default, and one that allows less time.
MCConfigs == {Shop, [Shop EXCEPT !.maxTimeout = 0], [Shop EXCEPT !.maxTimeout = 2]}

\* As the example client's, as its expired one, and longer than any maximum.
MCWindows == {[back |-> 1, ahead |-> 2], [back |-> 2, ahead |-> -1],
              [back |-> 1, ahead |-> 3]}

Request(cfg, w) ==
    LET req1 == BuildRequirements(cfg, page)
    IN  [pp |-> PaymentFor(req1, alice, n1, 2, w), pr |-> req1]

Base == Request(Shop, [back |-> 1, ahead |-> 2])

\* The payer signs what auth says.
Signing(auth, f) == [f EXCEPT !.pp.auth = auth, !.pp.signature = [by |-> alice, over |-> auth]]

Altered(f) ==
    LET x == f.pp.auth
    IN  {[f EXCEPT !.pp.scheme = "exact"], [f EXCEPT !.pr.scheme = "exact"],
         [f EXCEPT !.pp.network = away], [f EXCEPT !.pr.network = away],
         [f EXCEPT !.pp.network = away, !.pr.network = away],
         [f EXCEPT !.pp.publicKey = Malformed], [f EXCEPT !.pp.publicKey = bob],
         [f EXCEPT !.pp.publicKey = bob, !.pp.signature.by = bob],
         [f EXCEPT !.pp.signature = Malformed], [f EXCEPT !.pp.signature.over.amount = Digits(1)],
         [f EXCEPT !.pr.facilitator = fac2], [f EXCEPT !.pr.payTo = rival]}
        \cup {Signing(y, f) : y \in
                {[x EXCEPT !.to = rival], [x EXCEPT !.denom = atom], [x EXCEPT !.resource = post],
                 [x EXCEPT !.chainId = away], [x EXCEPT !.amount = Digits(3)],
                 [x EXCEPT !.amount = Digits(1)],
                 [x EXCEPT !.amount = [form |-> "decimal", value |-> 3]],
                 [x EXCEPT !.amount = [form |-> "signed", value |-> -1]],
                 [x EXCEPT !.amount = [form |-> "lettered", value |-> 1, spells |-> atom]],
                 [x EXCEPT !.amount = [form |-> "other", value |-> 0]]}}

\* Without maxTimeoutSeconds, windows that end where floats no longer tell the
\* seconds apart, and one that ends before, with another end in its place.
Far == LET g == [Base EXCEPT !.pr.maxTimeout = 0]
           x == [g.pp.auth EXCEPT !.validBefore = 9]
       IN  {Signing(x, g), [Signing(x, g) EXCEPT !.pp.auth.validBefore = 8],
            [Signing([x EXCEPT !.validBefore = 7], g) EXCEPT !.pp.auth.validBefore = 8]}

\* What the fixture tool writes without a maximum.
Fixture == LET own == FixtureRequirements([Shop EXCEPT !.maxTimeout = 0], post)
           IN  [pp |-> PaymentFor(own, bob, n1, 1, [back |-> 1, ahead |-> 4]), pr |-> own]

MCRequests == {Request(cfg, w) : cfg \in MCConfigs, w \in MCWindows} \cup {Fixture}
                \cup Altered(Base) \cup Far

\* Grants to the signing key: one that lasts, one that runs out during the call,
\* one that is too small; and one to another address.
GrantsTo(grantee, sum, until) ==
    [x \in Payers \X Grantees |->
        IF x = <<alice, grantee>>
        THEN [limit |-> [d \in Denoms |-> IF d = usdc THEN sum ELSE 0], expires |-> until]
        ELSE [limit |-> [d \in Denoms |-> 0], expires |-> 9]]

MCGrants == {GrantsTo(fac, 2, 9), GrantsTo(fac, 2, 3), GrantsTo(fac, 1, 9), GrantsTo(fac2, 5, 9)}

MCBalances == {[x \in Payers \X Denoms |-> n] : n \in {1, 2}}
===============================================================================
