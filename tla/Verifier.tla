-------------------------------- MODULE Verifier --------------------------------
(***************************************************************************)
(* One call of Verifier.Verify (facilitator/verify.go), behind POST        *)
(* /verify and as the first half of POST /settle, while the clock, the     *)
(* nonce store and the chain move on.  Verify writes nothing, so calls do  *)
(* not influence each other and one is enough.                             *)
(*                                                                         *)
(* The call has five moments at which it reads something that others       *)
(* change: the clock, the store, the grant, the clock again, the balance.  *)
(***************************************************************************)
EXTENDS Negotiation

CONSTANTS Requests,       \* bodies of the POST
          Signer,         \* NobleClient.Address: the key BroadcastAuthzSend signs with
          GrantTables,    \* states of the grants on chain
          BalanceTables,  \* states of the balances
          Configs,        \* configurations of resource servers
          PayerWindows,   \* windows that payers sign
          Start, MaxNow   \* bounds on the clock

\* limit 0 is a grant that is not there, or not for that denom; a grant without
\* expiration is one that expires after MaxNow.
Grant == [limit : [Denoms -> Nat], expires : Nat]

ASSUME RequestsAssumption == Requests \subseteq [pp : Payload, pr : Requirements]
ASSUME SignerAssumption   == Signer \in Grantees
ASSUME TablesAssumption   ==
    /\ GrantTables \subseteq [Payers \X Grantees -> Grant]
    /\ BalanceTables \subseteq [Payers \X Denoms -> Nat]
ASSUME HonestAssumption   == Configs \subseteq Config /\ PayerWindows \subseteq Windows
ASSUME ClockAssumption    == Start \in Nat /\ MaxNow \in Nat /\ Start <= MaxNow

VARIABLES req,       \* the request
          pc,        \* the next step of Verify
          outcome,   \* "valid", an error code, or "none"
          granted,   \* what QuerySendAuthorization returned
          now, seen, grants, balances,
          held,      \* history: the rules that held in some state of the call
          broken,    \* history: those that did not in some state of the call
          soonest    \* history: when the first of the grants in those states expires

vars == <<req, pc, outcome, granted, now, seen, grants, balances, held, broken, soonest>>

Codes == {"invalid_authorization", "expired_authorization", "nonce_already_used",
          "invalid_signature", "insufficient_grant", "insufficient_funds",
          "unexpected_settle_error"}

pp == req.pp
pr == req.pr
a  == req.pp.auth

GrantFor(grantee) == grants[<<a.from, grantee>>]
Balance           == balances[<<a.from, a.denom>>]

\* When the grant to the facilitator that the requirements name expires; one that is
\* not there has not expired by MaxNow.
NamedGrantEnds ==
    IF GrantFor(pr.facilitator).limit[a.denom] > 0
    THEN GrantFor(pr.facilitator).expires ELSE MaxNow + 1

-------------------------------------------------------------------------------
(***************************************************************************)
(* The reference: the rules of specs/scheme_exact_cosmos_authz.md 156-170, *)
(* with the two parts of rule 7 apart, the grant of rule 11 once as to the *)
(* facilitator that signs and once as to the one the requirements name,    *)
(* and the balance (line 221).                                             *)
(***************************************************************************)
Rules == {"scheme", "to", "denom", "amount", "resource", "chain", "clock", "length",
          "nonce", "signature", "payer", "grant", "named", "funds"}

\* An amount as a number, in halves: a fraction counts for one of them.
Halves(s) == IF s.form = "decimal" THEN 2 * s.value + 1 ELSE 2 * s.value

Suffices(grant) ==
    /\ grant.limit[a.denom] > 0
    /\ Halves(a.amount) <= 2 * grant.limit[a.denom]
    /\ now < grant.expires

Demands(rule) ==
    CASE rule = "scheme"    -> pp.scheme = Scheme /\ pp.network = HomeChain
      [] rule = "to"        -> a.to = pr.payTo
      [] rule = "denom"     -> a.denom = pr.asset
      [] rule = "amount"    -> /\ a.amount.form \notin {"lettered", "other"}
                               /\ Halves(a.amount) <= Halves(pr.maxAmount)
      [] rule = "resource"  -> a.resource = pr.resource
      [] rule = "chain"     -> a.chainId = pp.network
      [] rule = "clock"     -> a.validAfter <= now /\ now < a.validBefore
      [] rule = "length"    -> pr.maxTimeout > 0 => a.validBefore - a.validAfter <= pr.maxTimeout
      [] rule = "nonce"     -> KeyOf(a) \notin seen
      [] rule = "signature" -> /\ pp.publicKey # Malformed /\ pp.signature # Malformed
                               /\ VerifySignature(pp.publicKey, Preimage(a), pp.signature)
      [] rule = "payer"     -> pp.publicKey = a.from
      [] rule = "grant"     -> Suffices(GrantFor(Signer))
      [] rule = "named"     -> Suffices(GrantFor(pr.facilitator))
      [] rule = "funds"     -> Halves(a.amount) <= 2 * Balance

Conforming == {rule \in Rules : Demands(rule)}

Init ==
    /\ req \in Requests
    /\ pc = "fields"
    /\ outcome = "none"
    /\ granted = [limit |-> 0, expires |-> 0]
    /\ now = Start
    /\ seen \in SUBSET Keys
    /\ grants \in GrantTables
    /\ balances \in BalanceTables
    /\ held = Conforming
    /\ broken = Rules \ Conforming
    /\ soonest = NamedGrantEnds

-------------------------------------------------------------------------------
Frame == UNCHANGED <<req, now, seen, grants, balances, held, broken, soonest>>

Continue(here, next) ==
    /\ pc = here /\ pc' = next
    /\ Frame /\ UNCHANGED outcome

Answer(here, code) ==
    /\ pc = here /\ pc' = "done"
    /\ outcome' = code
    /\ Frame /\ UNCHANGED granted

\* Steps 1-7, on one reading of the clock.  A window that is not positive has
\* always expired (or is not open yet), so its own check is never reached.
CheckFields ==
    \/ /\ Matches(pp, pr) /\ InWindow(a, now, pr.maxTimeout)
       /\ Continue("fields", "nonce") /\ UNCHANGED granted
    \/ ~ Matches(pp, pr) /\ Answer("fields", "invalid_authorization")
    \/ /\ Matches(pp, pr) /\ ~ (a.validAfter <= now /\ now < a.validBefore)
       /\ Answer("fields", "expired_authorization")
    \/ /\ Matches(pp, pr) /\ a.validAfter <= now /\ now < a.validBefore
       /\ ~ InWindow(a, now, pr.maxTimeout)
       /\ Answer("fields", "invalid_authorization")

\* Step 8: Exists.  MemoryNonceStore returns no error.
CheckNonce ==
    \/ KeyOf(a) \notin seen /\ Continue("nonce", "signature") /\ UNCHANGED granted
    \/ KeyOf(a) \in seen /\ Answer("nonce", "nonce_already_used")

\* Steps 9-10.
CheckSignature ==
    \/ /\ VerifyADR036(pp.publicKey, pp.signature, a)
       /\ Continue("signature", "grant") /\ UNCHANGED granted
    \/ /\ ~ VerifyADR036(pp.publicKey, pp.signature, a)
       /\ Answer("signature", "invalid_signature")

\* Faulty variant: the limit is not compared with the amount.
QueryGrantUnlimited ==
    LET limit == GrantFor(pr.facilitator).limit[a.denom]
    IN  \/ /\ limit > 0
           /\ Continue("grant", "expiry")
           /\ granted' = [limit |-> limit, expires |-> GrantFor(pr.facilitator).expires]
        \/ limit = 0 /\ Answer("grant", "insufficient_grant")
        \/ Answer("grant", "unexpected_settle_error")

\* Step 11: the grant to the facilitator that the requirements name, or ErrNoGrant,
\* or ErrChainRPC.
QueryGrant ==
    LET limit == GrantFor(pr.facilitator).limit[a.denom]
    IN  \/ /\ limit > 0 /\ CmpAmounts(Digits(limit), a.amount) >= 0
           /\ Continue("grant", "expiry")
           /\ granted' = [limit |-> limit, expires |-> GrantFor(pr.facilitator).expires]
        \/ /\ limit = 0 \/ CmpAmounts(Digits(limit), a.amount) < 0
           /\ Answer("grant", "insufficient_grant")
        \/ Answer("grant", "unexpected_settle_error")

\* Faulty variant: a grant must last for another second.
CheckExpiryEarly ==
    \/ granted.expires > now + 1 /\ Continue("expiry", "balance") /\ UNCHANGED granted
    \/ granted.expires <= now + 1 /\ Answer("expiry", "insufficient_grant")

\* The clock is read again.
CheckExpiry ==
    \/ granted.expires > now /\ Continue("expiry", "balance") /\ UNCHANGED granted
    \/ granted.expires <= now /\ Answer("expiry", "insufficient_grant")

\* The balance, or an error, which is ignored.
CheckBalance ==
    \/ /\ CmpAmounts(Digits(Balance), a.amount) < 0
       /\ Answer("balance", "insufficient_funds")
    \/ Answer("balance", "valid")

-------------------------------------------------------------------------------
\* What others do while the call runs: the clock advances, settlements reserve and
\* release nonces, grants and balances change.
Elsewhere ==
    \/ now < MaxNow /\ now' = now + 1 /\ UNCHANGED <<seen, grants, balances>>
    \/ \E k \in Keys : seen' \in {seen \cup {k}, seen \ {k}} /\ UNCHANGED <<now, grants, balances>>
    \/ grants' \in GrantTables /\ UNCHANGED <<now, seen, balances>>
    \/ balances' \in BalanceTables /\ UNCHANGED <<now, seen, grants>>

Environment ==
    /\ pc # "done"
    /\ Elsewhere
    /\ UNCHANGED <<req, pc, outcome, granted>>
    /\ held' = held \cup Conforming'
    /\ broken' = broken \cup (Rules \ Conforming')
    /\ soonest' = IF NamedGrantEnds' < soonest THEN NamedGrantEnds' ELSE soonest

Next ==
    \/ CheckFields
    \/ CheckNonce
    \/ CheckSignature
    \/ QueryGrant
    \/ CheckExpiry
    \/ CheckBalance
    \/ Environment

Spec == Init /\ [][Next]_vars

TypeOK ==
    /\ req \in Requests
    /\ pc \in {"fields", "nonce", "signature", "grant", "expiry", "balance", "done"}
    /\ outcome \in {"none", "valid"} \cup Codes
    /\ granted \in [limit : Nat, expires : Nat]
    /\ now \in Start .. MaxNow
    /\ seen \subseteq Keys
    /\ grants \in [Payers \X Grantees -> Grant]
    /\ balances \in [Payers \X Denoms -> Nat]
    /\ held \subseteq Rules
    /\ broken \subseteq Rules
    /\ soonest \in Nat

-------------------------------------------------------------------------------
(***************************************************************************)
(* What a verdict means.                                                   *)
(***************************************************************************)

\* The amounts are what cmpAmounts asks for.
WellFormed == a.amount.form = "digits" /\ pr.maxAmount.form = "digits"

\* A payment with its amounts in digits is answered valid only if each rule of the
\* scheme held at some moment of the call, however the store, the chain and the
\* clock moved between the reads: the grant's, as to the facilitator that the
\* requirements name, be it the one that signs or not.  (The balance is no rule of
\* the scheme: its query may fail.)
ValidMeansVerified ==
    outcome = "valid" /\ WellFormed =>
        /\ Rules \ {"grant", "funds"} \subseteq held
        /\ pr.facilitator = Signer => "grant" \in held

\* The rules each error code of the scheme stands for.
RulesOf ==
    [invalid_authorization |-> {"scheme", "to", "denom", "amount", "resource", "chain", "length"},
     expired_authorization |-> {"clock"},
     nonce_already_used    |-> {"nonce"},
     invalid_signature     |-> {"signature", "payer"},
     insufficient_grant    |-> {"named"},
     insufficient_funds    |-> {"funds"}]

\* An error code tells the payer the truth: a rule it stands for was broken at some
\* moment of the call, so that a payment that conforms all along is never
\* refused, failing chain queries apart.  The clock is read again after the grant:
\* a grant is called insufficient, too, if one of those the payer had during the call
\* has run out since, though another has taken its place.
CodesAreTruthful ==
    outcome \in DOMAIN RulesOf =>
        \/ RulesOf[outcome] \cap broken # {}
        \/ outcome = "invalid_authorization" /\ (pr.scheme # Scheme \/ pr.network # pp.network)
        \/ outcome = "insufficient_grant" /\ soonest <= now

\* Only what the payer signed is valid: the owner of the address signed this
\* authorization, every field of it but the window whatever that is.  The sign bytes
\* hold the window's ends as floats: a payer that signs one that ends where floats are
\* exact is bound to it to the second, under any requirements, whatever window the
\* request puts in its place.  (Of one that ends later, a request without
\* maxTimeoutSeconds can use another that rounds to the same.)
OnlySignedIsValid ==
    LET signed == pp.signature.over
    IN  outcome = "valid" =>
            /\ pp.signature.by = a.from
            /\ a = [signed EXCEPT !.validAfter = a.validAfter, !.validBefore = a.validBefore]
            /\ signed.validBefore < Exact => signed = a

\* The request is one that a payer like the example client made, some time ago, for
\* the requirements of a resource server like the middleware, or one that the
\* fixture tool made; and the payer's window is no longer than the
\* maxTimeoutSeconds in force, which it does not look at.
Honest ==
    \E cfg \in Configs, url \in Resources, payer \in Payers, nonce \in Nonces,
       time \in 0 .. MaxNow, w \in PayerWindows :
        /\ cfg.network = HomeChain
        /\ pr \in {BuildRequirements(cfg, url), FixtureRequirements(cfg, url)}
        /\ pp = PaymentFor(pr, payer, nonce, time, w)
        /\ pr.maxTimeout = 0 \/ w.back + w.ahead <= pr.maxTimeout

\* Server, payer and facilitator agree: an honest payment is never refused for a
\* field or its signature, whatever else it is refused for.
HonestPaymentsFit == Honest => outcome \notin {"invalid_authorization", "invalid_signature"}

-------------------------------------------------------------------------------
(***************************************************************************)
(* What documents and comments say of Verify, and it does not do.          *)
(***************************************************************************)

\* specs/scheme_exact_cosmos_authz.md:113: the amount is at most
\* maxAmountRequired; verify.go:152: what does not parse is rejected elsewhere.  A
\* fraction passes every comparison, and so does a number with letters behind it,
\* and BroadcastAuthzSend makes a coin of either, though it need not be one of
\* the asset, nor at most the maximum.
PullIsAsRequired ==
    LET pulled == CoinOf(a.amount, a.denom)
        most   == CoinOf(pr.maxAmount, pr.asset)
    IN  outcome = "valid" /\ HasCoin(a.amount) =>
            pulled.denom = most.denom /\ pulled.amount <= most.amount

\* specs/scheme_exact_cosmos_authz.md:73-75: a payer with a grant to a different
\* address will be rejected.  Verify asks the chain for the grant to the address
\* in the requirements.
GrantIsToSigner == outcome = "valid" => "grant" \in held
=================================================================================
