----------------------------- MODULE PaidGateProofs -----------------------------
(***************************************************************************)
(* The gate's safety properties, for any visits, headers and configuration *)
(* and any facilitator that keeps SettlementContract.                      *)
(***************************************************************************)
EXTENDS PaidGate, TLAPS

\* What the contract has come to: a success was paid, a refusal cost nothing, and
\* of two effective pulls on a nonce one is in doubt.
ContractInv ==
    /\ \A v \in Visits : answer[v] = "ok" => pull[v] = "paid"
    /\ \A v \in Visits : answer[v] = "refused" => pull[v] = "none"
    /\ \A u, v \in Visits :
          /\ pull[u] \in {"live", "paid"} /\ pull[v] \in {"live", "paid"}
          /\ Key(u) = Key(v) /\ Key(u) \notin unsafe
          => u = v \/ answer[u] = "broadcast_failed" \/ answer[v] = "broadcast_failed"

\* How far the gate and the facilitator are apart: only calls pull, and the gate
\* says what the facilitator said, or that it does not know.
InStep(v) ==
    /\ pull[v] # "none" => Called(v) /\ Authorized(v)
    /\ gate[v] = "done" <=> response[v] # Unanswered
    /\ response[v].served => answer[v] = "ok"
    /\ response[v].receipt \in {"refused", "broadcast_failed"} => answer[v] = response[v].receipt
    /\ response[v].receipt \in {"none", "invalid_authorization"} /\ response[v] # Unanswered =>
          ~ Decodes(v)
    /\ response[v].receipt = "ok" => response[v].served

GateInv == \A v \in Visits : InStep(v)

Inv == TypeOK /\ ContractInv /\ GateInv

-------------------------------------------------------------------------------

LEMMA InitInv == Init => Inv
  BY DEF Init, Inv, TypeOK, ContractInv, GateInv, InStep, Responses,
         Unanswered, Facilitator!Init, Facilitator!ContractTypeOK

\* What a request says and what follows from it changes with neither party.
LEMMA Frame ==
    ASSUME UNCHANGED <<url, header>>, NEW v \in Visits
    PROVE  /\ Key(v)' = Key(v) /\ Decodes(v)' = Decodes(v) /\ Authorized(v)' = Authorized(v)
           /\ gate' = gate => Called(v)' = Called(v)
  BY DEF Key, Auth, Payment, Decodes, Authorized, Required, Called

\* The gate answers a visit.
LEMMA RespondStep ==
    ASSUME Inv, NEW v \in Visits, NEW here \in {"arrived", "settling"}, NEW what \in Responses,
           Respond(v, here, what), what # Unanswered,
           what.served => answer[v] = "ok",
           what.receipt \in {"refused", "broadcast_failed"} => answer[v] = what.receipt,
           what.receipt \in {"none", "invalid_authorization"} => ~ Decodes(v),
           what.receipt = "ok" => what.served
    PROVE  Inv'
  <1> USE DEF Inv, Respond
  <1>1. TypeOK'
    <2>1. Facilitator!ContractTypeOK'
      BY Frame DEF TypeOK, Facilitator!ContractTypeOK
    <2> QED BY <2>1 DEF TypeOK
  <1>2. ContractInv'
    BY Frame DEF ContractInv
  <1>3. GateInv'
    <2> SUFFICES ASSUME NEW u \in Visits PROVE InStep(u)'
      BY DEF GateInv
    <2>1. Called(u) => Called(u)'
      BY Frame DEF Called, TypeOK
    <2>2. CASE u = v
      BY <2>1, <2>2, Frame DEF GateInv, InStep, TypeOK
    <2>3. CASE u # v
      BY <2>1, <2>3, Frame DEF GateInv, InStep, TypeOK
    <2> QED BY <2>2, <2>3
  <1> QED BY <1>1, <1>2, <1>3

LEMMA GateStepInv ==
    ASSUME Inv, NEW v \in Visits, GateStep(v)
    PROVE  Inv'
  <1>1. CASE Quote(v)
    <2>1. Respond(v, "arrived", Quoted) /\ ~ Decodes(v)
      BY <1>1 DEF Quote, Decodes
    <2> QED BY <2>1, RespondStep DEF Responses, Quoted, Unanswered
  <1>2. CASE TurnAway(v)
    BY <1>2, RespondStep DEF TurnAway, Responses, Reasons, Failed, Unanswered
  <1>3. CASE CallSettle(v)
    <2> USE DEF Inv, CallSettle
    <2>1. TypeOK'
      <3>1. Facilitator!ContractTypeOK'
        BY <1>3, Frame DEF TypeOK, Facilitator!ContractTypeOK
      <3> QED BY <1>3, <3>1 DEF TypeOK
    <2>2. ContractInv'
      BY <1>3, Frame DEF ContractInv
    <2>3. \A u \in Visits : Called(u) => Called(u)'
      BY <1>3, Frame DEF Called, TypeOK
    <2>4. GateInv'
      BY <1>3, <2>3, Frame DEF GateInv, InStep, TypeOK
    <2> QED BY <2>1, <2>2, <2>4
  <1>4. CASE PassOn(v)
    <2>1. answer[v] \in {"refused", "broadcast_failed", "ok"}
      BY <1>4 DEF PassOn, Inv, TypeOK, Facilitator!ContractTypeOK
    <2> DEFINE what == IF answer[v] = "ok" THEN Admitted ELSE Failed(answer[v])
    <2>2. /\ what \in Responses /\ what # Unanswered
          /\ what.served => answer[v] = "ok"
          /\ what.receipt \in {"refused", "broadcast_failed"} => answer[v] = what.receipt
          /\ what.receipt \notin {"none", "invalid_authorization"}
          /\ what.receipt = "ok" => what.served
      BY <2>1 DEF Responses, Reasons, Admitted, Failed, Unanswered
    <2>3. Respond(v, "settling", what)
      BY <1>4 DEF PassOn
    <2> QED BY <2>2, <2>3, RespondStep
  <1>5. CASE GiveUp(v)
    BY <1>5, RespondStep DEF GiveUp, Responses, Reasons, Failed, Unanswered
  <1> QED BY <1>1, <1>2, <1>3, <1>4, <1>5 DEF GateStep

LEMMA FacilitatorStepInv ==
    ASSUME Inv, FacilitatorStep
    PROVE  Inv'
  <1> USE DEF Inv, gateVars
  <1>u. UNCHANGED <<url, header, gate, response>>
    BY DEF FacilitatorStep
  <1>f. \A v \in Visits : /\ Key(v)' = Key(v) /\ Decodes(v)' = Decodes(v)
                          /\ Authorized(v)' = Authorized(v) /\ Called(v)' = Called(v)
    BY <1>u, Frame
  <1>k. [v \in Visits |-> Key(v)]' = [v \in Visits |-> Key(v)]
    BY <1>f
  <1>1. CASE \E v \in Visits : Called(v) /\ Facilitator!StartPull(v)
    <2> PICK v \in Visits : Called(v) /\ Facilitator!StartPull(v)
      BY <1>1
    <2>1. /\ Authorized(v) /\ pull[v] = "none" /\ answer[v] = "none"
          /\ pull' = [pull EXCEPT ![v] = "live"] /\ UNCHANGED <<answer, unsafe>>
      BY DEF Facilitator!StartPull
    <2>2. ASSUME Key(v) \notin unsafe, NEW u \in Visits, Key(u) = Key(v),
                 pull[u] \in {"live", "paid"}
          PROVE  answer[u] = "broadcast_failed"
      BY <2>2 DEF Facilitator!StartPull, Facilitator!Effective, Facilitator!InDoubt
    <2>3. TypeOK'
      BY <1>u, <1>f, <2>1 DEF TypeOK, Facilitator!ContractTypeOK
    <2>4. ContractInv'
      BY <1>f, <2>1, <2>2 DEF ContractInv, TypeOK, Facilitator!ContractTypeOK
    <2>5. GateInv'
      BY <1>u, <1>f, <2>1 DEF GateInv, InStep, TypeOK, Facilitator!ContractTypeOK
    <2> QED BY <2>3, <2>4, <2>5
  <1>2. CASE \E S \in SUBSET {v \in Visits : Called(v)} : Facilitator!EndPulls(S)
    <2> PICK S \in SUBSET {v \in Visits : Called(v)} : Facilitator!EndPulls(S)
      BY <1>2
    <2>1. PICK end \in {"paid", "failed"} :
            /\ \A v \in S : pull[v] = "live"
            /\ pull' = [v \in Visits |-> IF v \in S THEN end ELSE pull[v]]
            /\ UNCHANGED <<answer, unsafe>>
      BY DEF Facilitator!EndPulls
    <2>2. TypeOK'
      BY <1>u, <1>f, <2>1 DEF TypeOK, Facilitator!ContractTypeOK
    <2>3. ContractInv'
      BY <1>f, <2>1 DEF ContractInv, TypeOK, Facilitator!ContractTypeOK
    <2>4. GateInv'
      BY <1>u, <1>f, <2>1 DEF GateInv, InStep, TypeOK, Facilitator!ContractTypeOK
    <2> QED BY <2>2, <2>3, <2>4
  <1>3. CASE \E v \in Visits, code \in {"refused", "broadcast_failed", "ok"} :
                Called(v) /\ Facilitator!Reply(v, code)
    <2> PICK v \in Visits, code \in {"refused", "broadcast_failed", "ok"} :
                Called(v) /\ Facilitator!Reply(v, code)
      BY <1>3
    <2>1. /\ answer[v] = "none" /\ answer' = [answer EXCEPT ![v] = code]
          /\ code = "ok" => pull[v] = "paid"
          /\ code = "refused" => pull[v] = "none"
          /\ UNCHANGED <<pull, unsafe>>
      BY DEF Facilitator!Reply
    <2>2. TypeOK'
      BY <1>u, <1>f, <2>1 DEF TypeOK, Facilitator!ContractTypeOK
    <2>3. ContractInv'
      BY <1>f, <2>1 DEF ContractInv, TypeOK, Facilitator!ContractTypeOK
    <2>4. GateInv'
      BY <1>u, <1>f, <2>1 DEF GateInv, InStep, TypeOK, Facilitator!ContractTypeOK
    <2> QED BY <2>2, <2>3, <2>4
  <1>4. CASE Facilitator!Endanger
    <2>1. unsafe \subseteq unsafe' /\ unsafe' \in SUBSET Keys /\ UNCHANGED <<pull, answer>>
      BY <1>4 DEF Facilitator!Endanger
    <2>2. TypeOK'
      BY <1>u, <1>f, <2>1 DEF TypeOK, Facilitator!ContractTypeOK
    <2>3. ContractInv' /\ GateInv'
      BY <1>u, <1>f, <2>1 DEF ContractInv, GateInv, InStep
    <2> QED BY <2>2, <2>3
  <1> QED BY <1>1, <1>2, <1>3, <1>4 DEF FacilitatorStep, Settle

THEOREM GateInvariant == Spec => []Inv
  <1>1. ASSUME Inv, UNCHANGED vars PROVE Inv'
    <2>1. UNCHANGED <<url, header, gate, response, pull, answer, unsafe>>
      BY <1>1 DEF vars, gateVars
    <2>2. TypeOK'
      BY <1>1, <2>1, Frame DEF Inv, TypeOK, Facilitator!ContractTypeOK
    <2> QED BY <1>1, <2>1, <2>2, Frame DEF Inv, ContractInv, GateInv, InStep
  <1>2. Inv /\ [Next]_vars => Inv'
    BY <1>1, GateStepInv, FacilitatorStepInv DEF Next
  <1> QED BY <1>2, InitInv, PTL DEF Spec

-------------------------------------------------------------------------------
\* A request that passes steps 1-6, 9 and 10 of Verify is one that its payer
\* signed for this resource and this server's price.
LEMMA AuthorizedIsSigned ==
    ASSUME TypeOK, NEW v \in Visits, Authorized(v)
    PROVE  SignedForThis(v)
  <1> DEFINE sig == Payment(v).signature
             signed == sig.over
             x == Auth(v)
  <1>1. /\ Payment(v) \in Payload /\ x \in FullAuthorization
        /\ sig # Malformed /\ sig \in Signatures /\ signed \in FullAuthorization
    BY GateAssumption DEF TypeOK, Payment, Auth, Payload, Authorized, VerifyADR036, Signatures
  <1>2. sig.by = x.from /\ Preimage(signed) = Preimage(x)
    BY DEF Authorized, VerifyADR036, VerifySignature
  <1>3. /\ signed.from = x.from /\ signed.to = x.to /\ signed.denom = x.denom
        /\ signed.amount = x.amount /\ signed.resource = x.resource /\ signed.chainId = x.chainId
    <2> HIDE DEF signed, x, sig
    <2>1. \A y \in FullAuthorization :
            /\ Canonical(y).from = y.from /\ Canonical(y).to = y.to /\ Canonical(y).denom = y.denom
            /\ Canonical(y).amount = y.amount /\ Canonical(y).resource = y.resource
            /\ Canonical(y).chainId = y.chainId
      BY DEF Canonical, FullAuthorization
    <2>2. Canonical(signed) = Canonical(x)
      BY <1>2 DEF Preimage
    <2> QED BY <1>1, <2>1, <2>2
  <1>4. /\ x.to = Server.payTo /\ x.denom = Server.asset /\ x.resource = url[v]
        /\ x.chainId = HomeChain /\ CmpAmounts(x.amount, Server.amount) <= 0
    BY DEF Authorized, Matches, Required, BuildRequirements, Stated, Auth
  <1>5. x.amount.value \in Int /\ Server.amount.value \in Int
    BY <1>1, GateAssumption DEF FullAuthorization, Amounts, Config
  <1>6. x.amount.form = "digits" /\ Server.amount.form = "digits"
            => x.amount.value <= Server.amount.value
    BY <1>4, <1>5 DEF CmpAmounts, Parses
  <1> HIDE DEF x
  <1> QED BY <1>2, <1>3, <1>4, <1>6 DEF SignedForThis

\* Whoever is served has paid, for what it is served and with its own signature
\* (Paid, middleware.go).
THEOREM ServiceIsPaid == Spec => []ServedIsPaid
  <1>1. Inv => ServedIsPaid
    <2> SUFFICES ASSUME Inv, NEW v \in Visits, Served(v)
                 PROVE  pull[v] = "paid" /\ SignedForThis(v)
      BY DEF ServedIsPaid
    <2>1. pull[v] = "paid" /\ Authorized(v)
      BY DEF Inv, GateInv, InStep, ContractInv, Served
    <2> QED BY <2>1, AuthorizedIsSigned DEF Inv
  <1> QED BY <1>1, GateInvariant, PTL

\* Deliveries of one payment, in parallel or one after the other, are served once
\* while the nonce is safe.
THEOREM ServiceIsOnce == Spec => []OneServicePerNonce
  <1>1. Inv => OneServicePerNonce
    BY DEF Inv, GateInv, InStep, ContractInv, OneServicePerNonce, Served
  <1> QED BY <1>1, GateInvariant, PTL

\* What the reason tells a visitor whose call pulls funds: it is served, or the
\* reason is one of the open two.
LEMMA OpenOrServed ==
    ASSUME Inv, NEW v \in Visits, Charged(v), response[v] # Unanswered
    PROVE  Served(v) \/ response[v].receipt \in OpenReasons
  <1>1. Decodes(v) /\ answer[v] # "refused" /\ response[v] \in Responses
    BY DEF Inv, TypeOK, GateInv, InStep, ContractInv, Charged, Called
  <1>2. response[v].receipt \notin {"none", "invalid_authorization", "refused"}
    BY <1>1 DEF Inv, GateInv, InStep
  <1>3. response[v].receipt = "ok" => Served(v)
    BY DEF Inv, GateInv, InStep, Served
  <1> QED BY <1>1, <1>2, <1>3 DEF Responses, Reasons, OpenReasons

\* Though every failure looks like a refusal to pay (writeFailure, middleware.go),
\* its reason leaves open whether the visitor is charged whenever it is; any
\* other reason, or none, is given only where nothing is pulled or will be.
THEOREM ReasonsTellCharges == Spec => []ReasonTellsCharge
  <1>1. Inv => ReasonTellsCharge
    BY OpenOrServed DEF ReasonTellsCharge
  <1> QED BY <1>1, GateInvariant, PTL

\* Of two charges on a safe nonce, one failed with an open reason.
THEOREM SecondChargesAreAnnounced == Spec => []SecondChargeIsAnnounced
  <1>1. Inv => SecondChargeIsAnnounced
    <2> SUFFICES ASSUME Inv, NEW u \in Visits, NEW v \in Visits, u # v,
                        Charged(u), Charged(v),
                        response[u] # Unanswered, response[v] # Unanswered,
                        Key(u) = Key(v), Key(u) \notin unsafe
                 PROVE  {response[u].receipt, response[v].receipt} \cap OpenReasons # {}
      BY DEF SecondChargeIsAnnounced
    <2>1. ASSUME NEW w \in {u, v}, answer[w] = "broadcast_failed"
          PROVE  response[w].receipt \in OpenReasons
      <3>1. ~ Served(w)
        BY <2>1 DEF Inv, GateInv, InStep, Served
      <3> QED BY <3>1, OpenOrServed
    <2>2. answer[u] = "broadcast_failed" \/ answer[v] = "broadcast_failed"
      BY DEF Inv, ContractInv, Charged
    <2> QED BY <2>1, <2>2
  <1> QED BY <1>1, GateInvariant, PTL
=================================================================================
