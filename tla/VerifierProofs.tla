----------------------------- MODULE VerifierProofs -----------------------------
(***************************************************************************)
(* What a verdict of Verify means, for any requests, grants, balances and  *)
(* any floats that are exact up to Exact.                                  *)
(***************************************************************************)
EXTENDS Verifier, TLAPS

\* The histories contain the present.
History ==
    /\ Conforming \subseteq held
    /\ Rules \ Conforming \subseteq broken
    /\ soonest <= NamedGrantEnds

FieldRules == {"scheme", "to", "denom", "resource", "chain", "clock", "length"}

\* The steps of Verify that follow each check; valid is what comes after all.
AfterGrant     == {"balance"}
AfterSignature == {"grant", "expiry", "balance"}
AfterNonce     == {"signature"} \cup AfterSignature
AfterFields    == {"nonce"} \cup AfterNonce

Past(steps) == pc \in steps \/ outcome = "valid"

\* A grant was enough: the one the requirements name, which may be the signer's.
GrantHeld == "named" \in held /\ (pr.facilitator = Signer => "grant" \in held)

\* What each check leaves behind for the rest of the call.  The grant read is in
\* force as long as it has not run out: that is why reading the clock again
\* is enough.
Passed ==
    /\ Past(AfterFields) =>
          /\ Matches(pp, pr) /\ FieldRules \subseteq held
          /\ WellFormed => "amount" \in held
          /\ a.validAfter <= now
          /\ a.validAfter < a.validBefore
    /\ Past(AfterNonce) => "nonce" \in held
    /\ Past(AfterSignature) =>
          VerifyADR036(pp.publicKey, pp.signature, a) /\ {"signature", "payer"} \subseteq held
    /\ pc = "expiry" => soonest <= granted.expires
    /\ pc = "expiry" /\ WellFormed /\ granted.expires > now => GrantHeld
    /\ Past(AfterGrant) /\ WellFormed => GrantHeld

\* An outcome is given once, at the end.
Ended == pc # "done" <=> outcome = "none"

Inv == TypeOK /\ History /\ Ended /\ Passed /\ CodesAreTruthful

-------------------------------------------------------------------------------
\* What is known of a request.
LEMMA RequestTypes ==
    ASSUME req \in Requests
    PROVE  /\ pp \in Payload /\ pr \in Requirements /\ a \in FullAuthorization
           /\ a.from \in Payers /\ a.denom \in Denoms /\ KeyOf(a) \in Keys
           /\ a.amount.value \in Int /\ pr.maxAmount.value \in Int
           /\ a.validAfter \in Nat /\ a.validBefore \in Nat /\ pr.maxTimeout \in Nat
           /\ pr.facilitator \in Grantees
  <1>1. pp \in Payload /\ pr \in Requirements
    BY RequestsAssumption DEF pp, pr
  <1>2. a \in FullAuthorization
    BY <1>1 DEF Payload, a, pp
  <1>3. a.amount \in Amounts /\ pr.maxAmount \in Amounts
    BY <1>1, <1>2 DEF FullAuthorization, Requirements
  <1>4. KeyOf(a) \in Keys
    BY <1>2 DEF FullAuthorization, KeyOf, Keys
  <1>5. a.validAfter \in Nat /\ a.validBefore \in Nat
    BY <1>2, WordAssumption DEF FullAuthorization, UInt64
  <1> QED
    BY <1>1, <1>2, <1>3, <1>4, <1>5 DEF FullAuthorization, Requirements, Amounts

\* What the grants and the balances are, where Verify looks them up.
LEMMA TableTypes ==
    ASSUME TypeOK, NEW grantee \in Grantees
    PROVE  /\ GrantFor(grantee).limit[a.denom] \in Nat
           /\ GrantFor(grantee).expires \in Nat
           /\ Balance \in Nat
           /\ NamedGrantEnds \in Nat
  <1>1. a.from \in Payers /\ a.denom \in Denoms /\ pr.facilitator \in Grantees
    BY RequestTypes DEF TypeOK
  <1>2. GrantFor(grantee) \in Grant /\ GrantFor(pr.facilitator) \in Grant /\ Balance \in Nat
    BY <1>1 DEF TypeOK, GrantFor, Balance
  <1> QED BY <1>1, <1>2, ClockAssumption DEF Grant, NamedGrantEnds

\* The demands, rule by rule.
LEMMA DemandsByName ==
    /\ Demands("scheme") <=> pp.scheme = Scheme /\ pp.network = HomeChain
    /\ Demands("to") <=> a.to = pr.payTo
    /\ Demands("denom") <=> a.denom = pr.asset
    /\ Demands("amount") <=>
          /\ a.amount.form \notin {"lettered", "other"}
          /\ Halves(a.amount) <= Halves(pr.maxAmount)
    /\ Demands("resource") <=> a.resource = pr.resource
    /\ Demands("chain") <=> a.chainId = pp.network
    /\ Demands("clock") <=> a.validAfter <= now /\ now < a.validBefore
    /\ Demands("length") <=> (pr.maxTimeout > 0 => a.validBefore - a.validAfter <= pr.maxTimeout)
    /\ Demands("nonce") <=> KeyOf(a) \notin seen
    /\ Demands("signature") <=>
          /\ pp.publicKey # Malformed /\ pp.signature # Malformed
          /\ VerifySignature(pp.publicKey, Preimage(a), pp.signature)
    /\ Demands("payer") <=> pp.publicKey = a.from
    /\ Demands("grant") <=> Suffices(GrantFor(Signer))
    /\ Demands("named") <=> Suffices(GrantFor(pr.facilitator))
    /\ Demands("funds") <=> Halves(a.amount) <= 2 * Balance
  BY DEF Demands

LEMMA HistoryOf ==
    ASSUME History, NEW rule \in Rules
    PROVE  /\ Demands(rule) => rule \in held
           /\ ~ Demands(rule) => rule \in broken
  BY DEF History, Conforming

\* The comparison of amounts is that of the reference, where both parse.
LEMMA Comparison ==
    ASSUME NEW s, NEW t, s.value \in Int, t.value \in Int
    PROVE  /\ CmpAmounts(s, t) > 0 => Halves(s) > Halves(t) /\ s.value > t.value
           /\ CmpAmounts(s, t) < 0 => Halves(s) < Halves(t) /\ s.value < t.value
           /\ s.form = "digits" /\ t.form = "digits" =>
                 /\ CmpAmounts(s, t) <= 0 => s.value <= t.value /\ Halves(s) <= Halves(t)
                 /\ CmpAmounts(s, t) >= 0 => s.value >= t.value /\ Halves(s) >= Halves(t)
           /\ CmpAmounts(s, t) \in {-1, 0, 1}
  BY DEF CmpAmounts, Parses, Halves

-------------------------------------------------------------------------------
LEMMA InitInv == Init => Inv
  <1> SUFFICES ASSUME Init PROVE Inv
    OBVIOUS
  <1>1. TypeOK
    <2>1. req \in Requests /\ pc = "fields" /\ outcome = "none" /\ now \in Start .. MaxNow
      BY ClockAssumption DEF Init
    <2>2. grants \in [Payers \X Grantees -> Grant] /\ balances \in [Payers \X Denoms -> Nat]
      BY TablesAssumption DEF Init
    <2>3. granted \in [limit : Nat, expires : Nat] /\ seen \subseteq Keys
      BY DEF Init
    <2>4. held \subseteq Rules /\ broken \subseteq Rules
      BY DEF Init, Conforming
    <2>5. NamedGrantEnds \in Nat
      <3>1. a.from \in Payers /\ a.denom \in Denoms /\ pr.facilitator \in Grantees
        BY <2>1, RequestTypes
      <3>2. GrantFor(pr.facilitator) \in Grant
        BY <2>2, <3>1 DEF GrantFor
      <3> QED BY <3>1, <3>2, ClockAssumption DEF Grant, NamedGrantEnds
    <2>6. soonest \in Nat
      BY <2>5 DEF Init
    <2> QED BY <2>1, <2>2, <2>3, <2>4, <2>6 DEF TypeOK
  <1>2. History
    <2>1. soonest = NamedGrantEnds /\ soonest \in Nat
      BY <1>1 DEF Init, TypeOK
    <2> QED BY <2>1 DEF Init, History
  <1>3. Ended /\ Passed
    BY DEF Init, Ended, Passed, Past, AfterFields, AfterNonce, AfterSignature, AfterGrant
  <1>4. CodesAreTruthful
    BY DEF Init, CodesAreTruthful, RulesOf
  <1> QED BY <1>1, <1>2, <1>3, <1>4 DEF Inv

\* A step of Verify leaves everything else as it is, and what is said of it.
LEMMA FrameStep ==
    ASSUME Frame
    PROVE  /\ UNCHANGED <<pp, pr, a, WellFormed, GrantHeld, held, broken, now, seen, soonest>>
           /\ Conforming' = Conforming
           /\ History => History'
  <1>1. \A rule \in Rules : Demands(rule)' = Demands(rule)
    BY DEF Frame, Demands, Suffices, GrantFor, Balance, pp, pr, a
  <1>2. NamedGrantEnds' = NamedGrantEnds
    BY DEF Frame, NamedGrantEnds, GrantFor, pp, pr, a
  <1> QED BY <1>1, <1>2 DEF Frame, Conforming, History, WellFormed, GrantHeld, pp, pr, a

\* A step that goes on to the next check.
LEMMA ContinueStep ==
    ASSUME Inv, NEW here, NEW next \in {"nonce", "signature", "grant", "expiry", "balance"},
           Continue(here, next), here # "done", granted' \in [limit : Nat, expires : Nat],
           Passed'
    PROVE  Inv'
  <1> USE DEF Inv, Continue
  <1>1. TypeOK'
    BY DEF TypeOK, Frame
  <1>2. History' /\ Ended'
    BY FrameStep DEF Ended
  <1>3. outcome' = "none" /\ outcome = "none"
    BY DEF Ended
  <1>4. CodesAreTruthful'
    BY <1>3 DEF CodesAreTruthful, RulesOf
  <1> QED BY <1>1, <1>2, <1>4

\* A step that ends the call with a code.
LEMMA AnswerStep ==
    ASSUME Inv, NEW here, NEW code \in Codes, Answer(here, code), here # "done",
           CodesAreTruthful'
    PROVE  Inv'
  <1> USE DEF Inv, Answer
  <1>1. TypeOK' /\ History' /\ Ended'
    BY FrameStep DEF TypeOK, Ended, Frame, Codes
  <1>2. Passed'
    BY DEF Passed, Past, Codes, AfterFields, AfterNonce, AfterSignature, AfterGrant
  <1> QED BY <1>1, <1>2

\* An answer is truthful if a rule its code stands for is known to be broken.
LEMMA TruthfulAnswer ==
    ASSUME NEW here, NEW code \in DOMAIN RulesOf, Answer(here, code),
           RulesOf[code] \cap broken # {}
    PROVE  CodesAreTruthful'
  BY DEF CodesAreTruthful, Answer, Frame

-------------------------------------------------------------------------------
LEMMA FieldsStep ==
    ASSUME Inv, CheckFields
    PROVE  Inv'
  <1> USE DEF Inv
  <1>1. CASE Matches(pp, pr) /\ InWindow(a, now, pr.maxTimeout) /\ Continue("fields", "nonce")
             /\ UNCHANGED granted
    <2>1. \A rule \in FieldRules : rule \in Rules /\ Demands(rule)
      BY <1>1, DemandsByName DEF FieldRules, Rules, Matches, InWindow, a, pp
    <2>2. FieldRules \subseteq held
      BY <2>1, HistoryOf
    <2>3. WellFormed => "amount" \in held
      <3>1. "amount" \in Rules
        BY DEF Rules
      <3>2. CmpAmounts(a.amount, pr.maxAmount) <= 0
        BY <1>1 DEF Matches, a, pp
      <3>3. WellFormed => Demands("amount")
        BY <3>2, RequestTypes, Comparison, DemandsByName DEF WellFormed, TypeOK
      <3> QED BY <3>1, <3>3, HistoryOf
    <2>4. a.validAfter <= now /\ a.validAfter < a.validBefore
      BY <1>1, RequestTypes, ClockAssumption DEF InWindow, TypeOK
    <2>5. pc' = "nonce" /\ outcome' = "none"
      BY <1>1 DEF Continue, Ended
    <2>6. Passed'
      BY <1>1, <2>2, <2>3, <2>4, <2>5, FrameStep
      DEF Passed, Past, Continue, AfterFields, AfterNonce, AfterSignature, AfterGrant
    <2> QED BY <1>1, <2>6, ContinueStep DEF TypeOK
  <1>2. CASE ~ Matches(pp, pr) /\ Answer("fields", "invalid_authorization")
    <2>1. CASE pr.scheme # Scheme \/ pr.network # pp.network
      <3>1. CodesAreTruthful'
        BY <1>2, <2>1, FrameStep DEF CodesAreTruthful, Answer
      <3> QED BY <1>2, <3>1, AnswerStep DEF Codes
    <2>2. CASE ~ (pr.scheme # Scheme \/ pr.network # pp.network)
      <3>1. \E rule \in {"scheme", "to", "denom", "amount", "resource", "chain"} : ~ Demands(rule)
        <4>1. CmpAmounts(a.amount, pr.maxAmount) > 0 => ~ Demands("amount")
          BY RequestTypes, Comparison, DemandsByName DEF TypeOK, Halves
        <4>2. CmpAmounts(a.amount, pr.maxAmount) \in {-1, 0, 1}
          BY RequestTypes, Comparison DEF TypeOK
        <4> QED BY <1>2, <2>2, <4>1, <4>2, DemandsByName DEF Matches, a, pp
      <3>2. RulesOf["invalid_authorization"] \cap broken # {}
        BY <3>1, HistoryOf DEF RulesOf, Rules
      <3> QED BY <1>2, <3>2, TruthfulAnswer, AnswerStep DEF Codes, RulesOf
    <2> QED BY <2>1, <2>2
  <1>3. CASE ~ (a.validAfter <= now /\ now < a.validBefore)
             /\ Answer("fields", "expired_authorization")
    <2>1. RulesOf["expired_authorization"] \cap broken # {}
      BY <1>3, DemandsByName, HistoryOf DEF RulesOf, Rules
    <2> QED BY <1>3, <2>1, TruthfulAnswer, AnswerStep DEF Codes, RulesOf
  <1>4. CASE /\ a.validAfter <= now /\ now < a.validBefore
             /\ ~ InWindow(a, now, pr.maxTimeout)
             /\ Answer("fields", "invalid_authorization")
    <2>1. ~ Demands("length")
      BY <1>4, RequestTypes, DemandsByName, ClockAssumption DEF InWindow, TypeOK
    <2>2. RulesOf["invalid_authorization"] \cap broken # {}
      BY <2>1, HistoryOf DEF RulesOf, Rules
    <2> QED BY <1>4, <2>2, TruthfulAnswer, AnswerStep DEF Codes, RulesOf
  <1> QED BY <1>1, <1>2, <1>3, <1>4 DEF CheckFields

LEMMA NonceStep ==
    ASSUME Inv, CheckNonce
    PROVE  Inv'
  <1> USE DEF Inv
  <1>1. CASE KeyOf(a) \notin seen /\ Continue("nonce", "signature") /\ UNCHANGED granted
    <2>1. "nonce" \in held
      BY <1>1, DemandsByName, HistoryOf DEF Rules
    <2>2. Passed'
      BY <1>1, <2>1, FrameStep
      DEF Passed, Past, Continue, Ended, AfterFields, AfterNonce, AfterSignature, AfterGrant
    <2> QED BY <1>1, <2>2, ContinueStep DEF TypeOK
  <1>2. CASE KeyOf(a) \in seen /\ Answer("nonce", "nonce_already_used")
    <2>1. RulesOf["nonce_already_used"] \cap broken # {}
      BY <1>2, DemandsByName, HistoryOf DEF RulesOf, Rules
    <2> QED BY <1>2, <2>1, TruthfulAnswer, AnswerStep DEF Codes, RulesOf
  <1> QED BY <1>1, <1>2 DEF CheckNonce

LEMMA SignatureStep ==
    ASSUME Inv, CheckSignature
    PROVE  Inv'
  <1> USE DEF Inv
  <1>1. CASE VerifyADR036(pp.publicKey, pp.signature, a) /\ Continue("signature", "grant")
             /\ UNCHANGED granted
    <2>1. {"signature", "payer"} \subseteq held
      BY <1>1, DemandsByName, HistoryOf DEF VerifyADR036, Rules
    <2>2. Passed'
      BY <1>1, <2>1, FrameStep
      DEF Passed, Past, Continue, Ended, AfterFields, AfterNonce, AfterSignature, AfterGrant
    <2> QED BY <1>1, <2>2, ContinueStep DEF TypeOK
  <1>2. CASE ~ VerifyADR036(pp.publicKey, pp.signature, a)
             /\ Answer("signature", "invalid_signature")
    <2>1. \E rule \in {"signature", "payer"} : ~ Demands(rule)
      BY <1>2, DemandsByName DEF VerifyADR036
    <2>2. RulesOf["invalid_signature"] \cap broken # {}
      BY <2>1, HistoryOf DEF RulesOf, Rules
    <2> QED BY <1>2, <2>2, TruthfulAnswer, AnswerStep DEF Codes, RulesOf
  <1> QED BY <1>1, <1>2 DEF CheckSignature

LEMMA GrantStep ==
    ASSUME Inv, QueryGrant
    PROVE  Inv'
  <1> USE DEF Inv
  <1> DEFINE limit == GrantFor(pr.facilitator).limit[a.denom]
             expires == GrantFor(pr.facilitator).expires
  <1>t. limit \in Nat /\ expires \in Nat /\ Halves(a.amount) \in Int
    BY RequestTypes, TableTypes DEF TypeOK, Halves
  <1>s. Suffices(GrantFor(pr.facilitator)) <=>
            limit > 0 /\ Halves(a.amount) <= 2 * limit /\ now < expires
    BY DEF Suffices
  <1>c. /\ CmpAmounts(Digits(limit), a.amount) < 0 => 2 * limit < Halves(a.amount)
        /\ a.amount.form = "digits" /\ CmpAmounts(Digits(limit), a.amount) >= 0
              => Halves(a.amount) <= 2 * limit
    <2>1. Digits(limit).value = limit /\ Digits(limit).form = "digits"
          /\ Halves(Digits(limit)) = 2 * limit
      BY DEF Digits, Halves
    <2> HIDE DEF limit
    <2> QED BY <1>t, <2>1, RequestTypes, Comparison DEF TypeOK
  <1> HIDE DEF limit, expires
  <1>1. CASE /\ limit > 0 /\ CmpAmounts(Digits(limit), a.amount) >= 0
             /\ Continue("grant", "expiry")
             /\ granted' = [limit |-> limit, expires |-> expires]
    <2>1. ASSUME WellFormed, expires > now
          PROVE  GrantHeld
      <3>1. Suffices(GrantFor(pr.facilitator))
        BY <1>t, <1>c, <1>s, <1>1, <2>1, ClockAssumption DEF WellFormed, TypeOK
      <3>2. Demands("named") /\ (pr.facilitator = Signer => Demands("grant"))
        BY <3>1, DemandsByName
      <3> QED BY <3>2, HistoryOf DEF Rules, GrantHeld
    <2>2. soonest' <= expires
      BY <1>1, FrameStep DEF Continue, History, NamedGrantEnds, limit, expires
    <2>3. granted'.expires = expires
      BY <1>1
    <2>4. Passed'
      BY <1>1, <2>1, <2>2, <2>3, FrameStep
      DEF Passed, Past, Continue, Ended, AfterFields, AfterNonce, AfterSignature, AfterGrant
    <2> QED BY <1>t, <1>1, <2>4, ContinueStep DEF TypeOK
  <1>2. CASE /\ limit = 0 \/ CmpAmounts(Digits(limit), a.amount) < 0
             /\ Answer("grant", "insufficient_grant")
    <2>1. limit = 0 \/ 2 * limit < Halves(a.amount)
      BY <1>2, <1>c
    <2>2. ~ Demands("named")
      BY <1>t, <1>s, <2>1, DemandsByName
    <2>3. RulesOf["insufficient_grant"] \cap broken # {}
      BY <2>2, HistoryOf DEF RulesOf, Rules
    <2> QED BY <1>2, <2>3, TruthfulAnswer, AnswerStep DEF Codes, RulesOf
  <1>3. CASE Answer("grant", "unexpected_settle_error")
    <2>1. CodesAreTruthful'
      BY <1>3 DEF CodesAreTruthful, Answer, RulesOf
    <2> QED BY <1>3, <2>1, AnswerStep DEF Codes
  <1> QED BY <1>1, <1>2, <1>3 DEF QueryGrant, limit, expires

LEMMA ExpiryStep ==
    ASSUME Inv, CheckExpiry
    PROVE  Inv'
  <1> USE DEF Inv
  <1>1. CASE granted.expires > now /\ Continue("expiry", "balance") /\ UNCHANGED granted
    <2>1. Passed'
      BY <1>1, FrameStep
      DEF Passed, Past, Continue, Ended, AfterFields, AfterNonce, AfterSignature, AfterGrant
    <2> QED BY <1>1, <2>1, ContinueStep DEF TypeOK
  <1>2. CASE granted.expires <= now /\ Answer("expiry", "insufficient_grant")
    <2>1. soonest \in Nat /\ granted.expires \in Nat /\ now \in Int
      BY ClockAssumption DEF TypeOK
    <2>2. soonest <= granted.expires
      BY <1>2 DEF Passed, Answer
    <2>3. soonest' <= now'
      BY <1>2, <2>1, <2>2, FrameStep DEF Answer
    <2>4. CodesAreTruthful'
      BY <1>2, <2>3 DEF CodesAreTruthful, Answer
    <2> QED BY <1>2, <2>4, AnswerStep DEF Codes
  <1> QED BY <1>1, <1>2 DEF CheckExpiry

LEMMA BalanceStep ==
    ASSUME Inv, CheckBalance
    PROVE  Inv'
  <1> USE DEF Inv
  <1>1. CASE CmpAmounts(Digits(Balance), a.amount) < 0 /\ Answer("balance", "insufficient_funds")
    <2>1. Balance \in Nat
      BY SignerAssumption, TableTypes
    <2>2. Digits(Balance).value = Balance /\ Halves(Digits(Balance)) = 2 * Balance
      BY DEF Digits, Halves
    <2>3. 2 * Balance < Halves(a.amount)
      BY <1>1, <2>1, <2>2, RequestTypes, Comparison DEF TypeOK
    <2>4. ~ Demands("funds")
      BY <2>1, <2>3, RequestTypes, DemandsByName DEF Halves, TypeOK
    <2>5. RulesOf["insufficient_funds"] \cap broken # {}
      BY <2>4, HistoryOf DEF RulesOf, Rules
    <2> QED BY <1>1, <2>5, TruthfulAnswer, AnswerStep DEF Codes, RulesOf
  <1>2. CASE Answer("balance", "valid")
    <2>1. TypeOK' /\ History' /\ Ended'
      BY <1>2, FrameStep DEF TypeOK, Ended, Frame, Answer
    <2>2. Passed'
      BY <1>2, FrameStep
      DEF Passed, Past, Answer, Ended, AfterFields, AfterNonce, AfterSignature, AfterGrant
    <2>3. CodesAreTruthful'
      BY <1>2 DEF CodesAreTruthful, Answer, RulesOf
    <2> QED BY <2>1, <2>2, <2>3
  <1> QED BY <1>1, <1>2 DEF CheckBalance

\* The clock only advances, and the histories only grow.
LEMMA EnvironmentStep ==
    ASSUME Inv, Environment
    PROVE  Inv'
  <1> USE DEF Inv
  <1>1. /\ UNCHANGED <<req, pc, outcome, granted, pp, pr, a, WellFormed>>
        /\ held \subseteq held' /\ broken \subseteq broken'
        /\ GrantHeld => GrantHeld'
    BY DEF Environment, pp, pr, a, WellFormed, GrantHeld
  <1>2. now \in Nat /\ now' \in Start .. MaxNow /\ now <= now' /\ now' \in Nat
    BY ClockAssumption DEF Environment, Elsewhere, TypeOK
  <1>c. grants' \in [Payers \X Grantees -> Grant] /\ balances' \in [Payers \X Denoms -> Nat]
    BY TablesAssumption DEF Environment, Elsewhere, TypeOK
  <1>n. NamedGrantEnds' \in Nat
    <2>1. a.from \in Payers /\ a.denom \in Denoms /\ pr.facilitator \in Grantees
      BY RequestTypes DEF TypeOK
    <2>2. GrantFor(pr.facilitator)' \in Grant
      BY <1>1, <1>c, <2>1 DEF GrantFor
    <2> QED BY <1>1, <2>1, <2>2, ClockAssumption DEF Grant, NamedGrantEnds
  <1>3. TypeOK'
    <2>1. seen' \subseteq Keys
      BY DEF Environment, Elsewhere, TypeOK
    <2>3. held' \subseteq Rules /\ broken' \subseteq Rules
      BY DEF Environment, TypeOK, Conforming
    <2>4. soonest' \in Nat
      BY <1>n DEF Environment, TypeOK
    <2> QED BY <1>1, <1>2, <1>c, <2>1, <2>3, <2>4 DEF TypeOK
  <1>s. soonest' <= soonest /\ soonest' <= NamedGrantEnds'
    <2>1. soonest \in Int /\ NamedGrantEnds' \in Int
      BY <1>n DEF TypeOK
    <2> QED BY <2>1 DEF Environment
  <1>4. History' /\ Ended'
    BY <1>1, <1>s DEF Environment, History, Ended
  <1>5. Passed'
    <2>1. a.validAfter \in Nat /\ a.validBefore \in Nat /\ pr.maxTimeout \in Nat /\ granted.expires \in Nat
      BY RequestTypes DEF TypeOK
    <2>2. \A steps : Past(steps)' = Past(steps)
      BY <1>1 DEF Past
    <2>3. pc' = "expiry" => soonest' <= granted'.expires
      <3>1. soonest \in Int /\ soonest' \in Int
        BY <1>3 DEF TypeOK
      <3> QED BY <1>1, <1>s, <2>1, <3>1 DEF Passed
    <2> QED BY <1>1, <1>2, <2>1, <2>2, <2>3 DEF Passed
  <1>6. CodesAreTruthful'
    BY <1>1 DEF CodesAreTruthful, Environment, Ended, RulesOf
  <1> QED BY <1>3, <1>4, <1>5, <1>6

\* Everything above, in every reachable state.
THEOREM VerifierInvariant == Spec => []Inv
  <1>1. ASSUME Inv, UNCHANGED vars PROVE Inv'
    <2>1. Frame /\ UNCHANGED <<pc, outcome, granted>>
      BY <1>1 DEF vars, Frame
    <2>2. TypeOK' /\ History' /\ Ended' /\ Passed' /\ CodesAreTruthful'
      BY <1>1, <2>1, FrameStep
      DEF Inv, TypeOK, Ended, Passed, Past, CodesAreTruthful, Frame
    <2> QED BY <2>2 DEF Inv
  <1>2. Inv /\ [Next]_vars => Inv'
    BY <1>1, FieldsStep, NonceStep, SignatureStep, GrantStep, ExpiryStep, BalanceStep,
       EnvironmentStep DEF Next
  <1> QED BY <1>2, InitInv, PTL DEF Spec

-------------------------------------------------------------------------------
\* Whatever the store, the chain and the clock do during the call, "valid" is
\* answered only if each rule held at some moment of it (Verify, verify.go), with
\* the grant to the facilitator that the requirements name.
THEOREM ValidIsVerified == Spec => []ValidMeansVerified
  <1>1. Inv => ValidMeansVerified
    BY DEF Inv, Passed, Past, GrantHeld, ValidMeansVerified, FieldRules, Rules
  <1> QED BY <1>1, VerifierInvariant, PTL

\* Whatever they do, an error code names a rule that was broken; or a grant, of
\* those there were during the call, has run out.
THEOREM CodesTellTheTruth == Spec => []CodesAreTruthful
  <1>1. Inv => CodesAreTruthful
    BY DEF Inv
  <1> QED BY <1>1, VerifierInvariant, PTL

\* The canonical form tells authorizations apart, if their windows end where
\* floats are exact.  One of the two is enough: rounding does not cross Exact.
LEMMA PreimageIsInjective ==
    ASSUME NEW x \in FullAuthorization, NEW y \in FullAuthorization,
           Preimage(x) = Preimage(y), x.validAfter < Exact, x.validBefore < Exact
    PROVE  x = y
  <1>0. Canonical(x) = Canonical(y)
    BY DEF Preimage
  <1>1. \A z \in FullAuthorization :
            /\ Canonical(z).from = z.from /\ Canonical(z).to = z.to /\ Canonical(z).denom = z.denom
            /\ Canonical(z).amount = z.amount /\ Canonical(z).nonce = z.nonce
            /\ Canonical(z).resource = z.resource /\ Canonical(z).chainId = z.chainId
            /\ Canonical(z).validAfter = Float64[z.validAfter]
            /\ Canonical(z).validBefore = Float64[z.validBefore]
    BY DEF Canonical, FullAuthorization
  <1>2. x.validAfter = y.validAfter /\ x.validBefore = y.validBefore
    <2>1. ASSUME NEW u \in UInt64, NEW w \in UInt64, u < Exact, Float64[u] = Float64[w]
          PROVE  u = w
      BY <2>1, WordAssumption, Float64Assumption DEF UInt64
    <2> QED BY <1>0, <1>1, <2>1 DEF FullAuthorization
  <1> QED BY <1>0, <1>1, <1>2 DEF FullAuthorization

\* What is valid is what the payer signed, field by field (VerifyADR036,
\* adr036.go).
THEOREM OnlySigned == Spec => []OnlySignedIsValid
  <1>1. Inv => OnlySignedIsValid
    <2> DEFINE signed == pp.signature.over
    <2> SUFFICES ASSUME Inv, outcome = "valid"
                 PROVE  /\ pp.signature.by = a.from
                        /\ a = [signed EXCEPT !.validAfter = a.validAfter, !.validBefore = a.validBefore]
                        /\ signed.validBefore < Exact => signed = a
      BY DEF OnlySignedIsValid
    <2>1. VerifyADR036(pp.publicKey, pp.signature, a) /\ a.validAfter < a.validBefore
      BY DEF Inv, Passed, Past
    <2>2. a \in FullAuthorization /\ signed \in FullAuthorization
      BY <2>1, RequestTypes DEF Inv, TypeOK, VerifyADR036, Payload, Signatures
    <2>3. Preimage(a) = Preimage(signed) /\ pp.signature.by = a.from
      BY <2>1 DEF VerifyADR036, VerifySignature
    <2> HIDE DEF signed
    <2>4. a = [signed EXCEPT !.validAfter = a.validAfter, !.validBefore = a.validBefore]
      BY <2>2, <2>3 DEF Preimage, Canonical, FullAuthorization
    <2>5. ASSUME signed.validBefore < Exact PROVE signed = a
      <3>1. Float64[a.validBefore] = Float64[signed.validBefore]
        BY <2>2, <2>3 DEF Preimage, Canonical, FullAuthorization
      <3>2. a.validBefore < Exact
        BY <2>2, <2>5, <3>1, WordAssumption, Float64Assumption DEF FullAuthorization, UInt64
      <3>3. a.validAfter < Exact
        BY <2>1, <2>2, <3>2, WordAssumption, Float64Assumption DEF FullAuthorization, UInt64
      <3> QED BY <2>2, <2>3, <3>2, <3>3, PreimageIsInjective
    <2> QED BY <2>3, <2>4, <2>5
  <1> QED BY <1>1, VerifierInvariant, PTL

\* What the payer builds from the server's requirements passes every check that
\* looks at the request alone.
LEMMA HonestPasses ==
    ASSUME req \in Requests, Honest
    PROVE  /\ Matches(pp, pr)
           /\ VerifyADR036(pp.publicKey, pp.signature, a)
           /\ pr.maxTimeout = 0 \/ a.validBefore - a.validAfter <= pr.maxTimeout
  <1> PICK cfg \in Configs, url \in Resources, payer \in Payers, nonce \in Nonces,
           time \in 0 .. MaxNow, w \in PayerWindows :
             /\ cfg.network = HomeChain
             /\ pr \in {BuildRequirements(cfg, url), FixtureRequirements(cfg, url)}
             /\ pp = PaymentFor(pr, payer, nonce, time, w)
             /\ pr.maxTimeout = 0 \/ w.back + w.ahead <= pr.maxTimeout
    BY DEF Honest
  <1> DEFINE signed == SignedFor(pr, payer, nonce, time, w)
  <1>1. a = signed /\ pp.signature = [by |-> payer, over |-> signed] /\ pp.publicKey = payer
        /\ pp.scheme = Scheme /\ pp.network = pr.network
    BY DEF PaymentFor, a, pp
  <1>2. /\ signed.from = payer /\ signed.to = pr.payTo /\ signed.denom = pr.asset
        /\ signed.amount = pr.maxAmount /\ signed.resource = pr.resource
        /\ signed.chainId = pr.chainId
        /\ signed.validAfter = time - w.back /\ signed.validBefore = time + w.ahead
    BY DEF SignedFor
  <1>3. pr.scheme = Scheme /\ pr.network = HomeChain /\ pr.chainId = HomeChain
    BY DEF BuildRequirements, FixtureRequirements, Stated
  <1>4. signed \in FullAuthorization
    BY <1>1, RequestTypes
  <1> HIDE DEF signed
  <1>5. Matches(pp, pr)
    <2>1. CmpAmounts(a.amount, pr.maxAmount) <= 0
      BY <1>1, <1>2 DEF CmpAmounts
    <2>2. pp.auth = a
      BY DEF pp, a
    <2> QED BY <1>1, <1>2, <1>3, <2>1, <2>2 DEF Matches
  <1>6. VerifyADR036(pp.publicKey, pp.signature, a)
    BY <1>1, <1>2, <1>4, MalformedAssumption DEF VerifyADR036, VerifySignature
  <1>7. pr.maxTimeout = 0 \/ a.validBefore - a.validAfter <= pr.maxTimeout
    <2>1. time \in Int /\ w.back \in Int /\ w.ahead \in Int /\ pr.maxTimeout \in Int
      BY HonestAssumption, ClockAssumption, RequestTypes DEF Windows
    <2> QED BY <1>1, <1>2, <2>1
  <1> QED BY <1>5, <1>6, <1>7

\* The middleware, a payer like the example client and Verify agree on what an
\* honest payment is.
THEOREM HonestPaymentsPass == Spec => []HonestPaymentsFit
  <1>1. Init => HonestPaymentsFit
    BY DEF Init, HonestPaymentsFit
  <1>2. ASSUME Inv, HonestPaymentsFit, [Next]_vars
        PROVE  HonestPaymentsFit'
    <2>1. req' = req /\ pp' = pp /\ pr' = pr /\ Honest' = Honest /\ req \in Requests
      BY <1>2 DEF Inv, TypeOK, Next, vars, CheckFields, CheckNonce, CheckSignature, QueryGrant,
                  CheckExpiry, CheckBalance, Environment, Continue, Answer, Frame, pp, pr, Honest
    <2> SUFFICES ASSUME Honest PROVE outcome' \notin {"invalid_authorization", "invalid_signature"}
      BY <2>1 DEF HonestPaymentsFit
    <2>2. /\ Matches(pp, pr) /\ VerifyADR036(pp.publicKey, pp.signature, a)
          /\ pr.maxTimeout = 0 \/ a.validBefore - a.validAfter <= pr.maxTimeout
      BY <2>1, HonestPasses
    <2>3. CASE UNCHANGED outcome
      BY <1>2, <2>3 DEF HonestPaymentsFit
    <2>4. CASE CheckFields
      <3>1. ~ (a.validAfter <= now /\ now < a.validBefore) \/ InWindow(a, now, pr.maxTimeout)
        BY <1>2, <2>1, <2>2, RequestTypes, ClockAssumption DEF InWindow, Inv, TypeOK
      <3> QED BY <1>2, <2>2, <2>3, <2>4, <3>1 DEF CheckFields, Answer, Continue
    <2>5. CASE CheckNonce \/ CheckSignature \/ QueryGrant \/ CheckExpiry \/ CheckBalance
      BY <2>2, <2>3, <2>5 DEF CheckNonce, CheckSignature, QueryGrant, CheckExpiry, CheckBalance,
                              Answer, Continue
    <2> QED BY <1>2, <2>3, <2>4, <2>5 DEF Next, Environment, vars
  <1> QED BY <1>1, <1>2, VerifierInvariant, PTL DEF Spec
=================================================================================
