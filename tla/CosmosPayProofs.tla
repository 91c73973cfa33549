---------------------------- MODULE CosmosPayProofs ----------------------------
(***************************************************************************)
(* The gate and the facilitator together: the system is a Settlement, and  *)
(* seen from the gate it is a PaidGate.  What holds end to end follows     *)
(* from the invariants of the one and where the two meet.                  *)
(***************************************************************************)
EXTENDS CosmosPay, RefinementProofs

\* Where the two meet: the facilitator has what the gate sent, once it was sent,
\* and the gate says what the facilitator said, or that it does not know.
Joined(v) ==
    /\ url[v] \in Resources /\ header[v] \in Headers
    /\ gate[v] \in {"arrived", "settling", "done"}
    /\ payload[v] = SettleRequest(header[v], url[v])
    /\ pc[v] # "idle" => Gate!Called(v)
    /\ response[v] \in Gate!Responses
    /\ gate[v] = "done" <=> response[v] # Gate!Unanswered
    /\ response[v].served => reply[v] = "ok"
    /\ response[v].receipt \in {"refused", "broadcast_failed"} => reply[v] = response[v].receipt
    /\ response[v].receipt \in {"none", "invalid_authorization"} /\ response[v] # Gate!Unanswered =>
          ~ Gate!Decodes(v)
    /\ response[v].receipt = "ok" => response[v].served

GateTypes ==
    /\ url \in [Visits -> Resources] /\ header \in [Visits -> Headers]
    /\ gate \in [Visits -> {"arrived", "settling", "done"}]
    /\ response \in [Visits -> Gate!Responses]

JoinedInv == GateTypes /\ \A v \in Visits : Joined(v)

-------------------------------------------------------------------------------
\* Every step of the system is one of Settlement, or none.
LEMMA SystemStepSettles ==
    ASSUME [SystemNext]_systemVars
    PROVE  [Next]_vars
  <1>1. ASSUME NEW v \in Visits, Visit(v) PROVE UNCHANGED vars
    BY <1>1 DEF Visit
  <1>2. ASSUME Facilitate PROVE Next
    BY <1>2 DEF Facilitate, Call, Next
  <1>3. UNCHANGED systemVars => UNCHANGED vars
    BY DEF systemVars
  <1> QED BY <1>1, <1>2, <1>3 DEF SystemNext

\* The facilitator of the system is the one of Settlement: all that is proved of
\* it holds with the gate in front of it.
LEMMA SystemSettles == SystemSpec => Spec
  <1>1. SystemInit => Init
    BY DEF SystemInit
  <1>2. [SystemNext]_systemVars => [Next]_vars
    BY SystemStepSettles
  <1> QED BY <1>1, <1>2, PTL DEF SystemSpec, Spec

\* A request leaves "idle" by its call and has no other way back.
LEMMA CallsAreSent ==
    ASSUME TypeOK, Facilitate, NEW v \in Visits, pc[v] = "idle", pc'[v] # "idle"
    PROVE  Gate!Called(v)
  <1>1. ASSUME NEW r \in Requests, Call(r) PROVE Gate!Called(v)
    BY <1>1, VisitsAssumption DEF Call, Arrive, Goto, TypeOK
  <1>2. ASSUME NEW r \in Requests, Step(r) PROVE FALSE
    BY <1>2, VisitsAssumption DEF Step, CheckFields, CheckNonce, CheckGrant, CheckBalance, Reserve,
       QueryAccount, Broadcast, Wait, Commit, Release, Pass, Refuse, Answer, Goto, TypeOK
  <1>3. ASSUME GC \/ Tick \/ Restart \/ Environment PROVE FALSE
    BY <1>3, VisitsAssumption DEF GC, Tick, Restart, Environment, InFlight, Holding, TypeOK
  <1> QED BY <1>1, <1>2, <1>3 DEF Facilitate

\* A step of the gate keeps the two joined.
LEMMA VisitKeepsJoined ==
    ASSUME TypeOK, SentIsAuthorized, JoinedInv, NEW v \in Visits, Visit(v)
    PROVE  JoinedInv'
  <1>1. UNCHANGED <<payload, pc, reply, url, header>>
    BY DEF Visit, vars, Gate!GateStep, Gate!Quote, Gate!TurnAway, Gate!CallSettle, Gate!PassOn,
           Gate!GiveUp, Gate!Respond
  <1>2. PICK next \in {"settling", "done"}, what \in Gate!Responses :
            /\ gate' = [gate EXCEPT ![v] = next] /\ response' = [response EXCEPT ![v] = what]
            /\ gate[v] # "done"
            /\ next = "done" <=> what # Gate!Unanswered
            /\ next = "settling" => Gate!Decodes(v)
            /\ gate[v] = "arrived" /\ next = "done" => ~ Gate!Decodes(v)
            /\ what.served => reply[v] = "ok"
            /\ what.receipt \in {"refused", "broadcast_failed"} => reply[v] = what.receipt
            /\ next = "done" /\ what.receipt \in {"none", "invalid_authorization"} => ~ Gate!Decodes(v)
            /\ what.receipt = "ok" => what.served
    <2>1. CASE Gate!Quote(v) \/ Gate!TurnAway(v)
      <3>1. ~ Gate!Decodes(v)
        BY <2>1 DEF Gate!Quote, Gate!TurnAway, Gate!Decodes
      <3> DEFINE blame == Gate!Failed("invalid_authorization")
      <3>2. /\ Gate!Quoted \in Gate!Responses /\ Gate!Quoted # Gate!Unanswered
            /\ ~ Gate!Quoted.served /\ Gate!Quoted.receipt = "none"
            /\ blame \in Gate!Responses /\ blame # Gate!Unanswered
            /\ ~ blame.served /\ blame.receipt = "invalid_authorization"
        BY DEF Gate!Responses, Gate!Reasons, Gate!Quoted, Gate!Failed, Gate!Unanswered
      <3>3. Gate!Respond(v, "arrived", Gate!Quoted) \/ Gate!Respond(v, "arrived", blame)
        BY <2>1 DEF Gate!Quote, Gate!TurnAway
      <3> HIDE DEF blame
      <3>4. CASE Gate!Respond(v, "arrived", Gate!Quoted)
        BY <3>1, <3>2, <3>4 DEF Gate!Respond
      <3>5. CASE Gate!Respond(v, "arrived", blame)
        BY <3>1, <3>2, <3>5 DEF Gate!Respond
      <3> QED BY <3>3, <3>4, <3>5
    <2>2. CASE Gate!CallSettle(v)
      <3>1. Gate!Decodes(v) /\ gate[v] = "arrived" /\ gate' = [gate EXCEPT ![v] = "settling"]
        BY <2>2 DEF Gate!CallSettle
      <3>2. response' = [response EXCEPT ![v] = Gate!Unanswered]
        BY <2>2, <3>1 DEF Gate!CallSettle, JoinedInv, Joined, GateTypes
      <3>3. Gate!Unanswered \in Gate!Responses /\ ~ Gate!Unanswered.served
            /\ Gate!Unanswered.receipt = "none"
        BY DEF Gate!Responses, Gate!Unanswered
      <3> QED BY <3>1, <3>2, <3>3
    <2>3. CASE Gate!PassOn(v)
      <3>1. reply[v] \in {"refused", "broadcast_failed", "ok"}
        BY <2>3, VisitsAssumption DEF Gate!PassOn, TypeOK, Replies
      <3> DEFINE what == IF reply[v] = "ok" THEN Gate!Admitted ELSE Gate!Failed(reply[v])
      <3>2. /\ gate[v] = "settling" /\ gate' = [gate EXCEPT ![v] = "done"]
            /\ response' = [response EXCEPT ![v] = what]
        BY <2>3 DEF Gate!PassOn, Gate!Respond
      <3>3. /\ what \in Gate!Responses /\ what # Gate!Unanswered
            /\ what.served => reply[v] = "ok"
            /\ what.receipt \in {"refused", "broadcast_failed"} => reply[v] = what.receipt
            /\ what.receipt \notin {"none", "invalid_authorization"}
            /\ what.receipt = "ok" => what.served
        BY <3>1 DEF Gate!Responses, Gate!Reasons, Gate!Admitted, Gate!Failed, Gate!Unanswered
      <3> HIDE DEF what
      <3> QED BY <3>2, <3>3
    <2>4. CASE Gate!GiveUp(v)
      <3> DEFINE what == Gate!Failed("unexpected_settle_error")
      <3>1. /\ gate[v] = "settling" /\ gate' = [gate EXCEPT ![v] = "done"]
            /\ response' = [response EXCEPT ![v] = what]
        BY <2>4 DEF Gate!GiveUp, Gate!Respond
      <3>2. /\ what \in Gate!Responses /\ what # Gate!Unanswered
            /\ ~ what.served /\ what.receipt = "unexpected_settle_error"
        BY DEF Gate!Responses, Gate!Reasons, Gate!Failed, Gate!Unanswered
      <3> HIDE DEF what
      <3> QED BY <3>1, <3>2
    <2> QED BY <2>1, <2>2, <2>3, <2>4 DEF Visit, Gate!GateStep
  <1>3. \A u \in Visits : Gate!Decodes(u)' = Gate!Decodes(u)
    BY <1>1 DEF Gate!Decodes, Gate!Payment
  <1>4. \A u \in Visits : Gate!Called(u) => Gate!Called(u)'
    BY <1>2, <1>3 DEF Gate!Called, JoinedInv, GateTypes
  <1>5. GateTypes'
    BY <1>1, <1>2 DEF JoinedInv, GateTypes
  <1>6. ASSUME NEW u \in Visits PROVE Joined(u)'
    BY <1>1, <1>2, <1>3, <1>4 DEF JoinedInv, GateTypes, Joined
  <1> QED BY <1>5, <1>6 DEF JoinedInv

\* A step of the facilitator keeps the two joined.
LEMMA FacilitateKeepsJoined ==
    ASSUME TypeOK, SentIsAuthorized, JoinedInv, Facilitate
    PROVE  JoinedInv'
  <1>1. UNCHANGED <<url, header, gate, response>> /\ [Next]_vars
    BY SystemStepSettles DEF Facilitate, gateVars, SystemNext
  <1>2. payload' = payload
    BY <1>1, Frame
  <1>3. \A v \in Visits : Gate!Decodes(v)' = Gate!Decodes(v) /\ Gate!Called(v)' = Gate!Called(v)
    BY <1>1 DEF Gate!Decodes, Gate!Payment, Gate!Called
  <1>4. \A v \in Visits : reply[v] # "none" => reply'[v] = reply[v]
    BY <1>1, RepliesStay, VisitsAssumption
  <1>5. \A v \in Visits : pc'[v] # "idle" => Gate!Called(v)
    BY CallsAreSent DEF JoinedInv, Joined
  <1>6. GateTypes'
    BY <1>1 DEF JoinedInv, GateTypes
  <1>7. ASSUME NEW v \in Visits PROVE Joined(v)'
    BY <1>1, <1>2, <1>3, <1>4, <1>5 DEF JoinedInv, Joined
  <1> QED BY <1>6, <1>7 DEF JoinedInv

LEMMA JoinedHolds == SystemSpec => [](TypeOK /\ Verified /\ SentIsAuthorized /\ SequenceInv /\ JoinedInv)
  <1> DEFINE Base == TypeOK /\ Verified /\ SentIsAuthorized /\ SequenceInv
  <1>1. SystemInit => JoinedInv
    BY VisitsAssumption
    DEF SystemInit, Init, JoinedInv, GateTypes, Joined, Gate!Responses, Gate!Unanswered
  <1>2. Base /\ JoinedInv /\ [SystemNext]_systemVars => JoinedInv'
    <2>1. ASSUME JoinedInv, UNCHANGED systemVars PROVE JoinedInv'
      <3>1. UNCHANGED <<url, header, gate, response, payload, pc, reply>>
        BY <2>1 DEF systemVars, vars, gateVars
      <3>2. \A v \in Visits : Gate!Decodes(v)' = Gate!Decodes(v) /\ Gate!Called(v)' = Gate!Called(v)
        BY <3>1 DEF Gate!Decodes, Gate!Payment, Gate!Called
      <3> QED BY <2>1, <3>1, <3>2 DEF JoinedInv, GateTypes, Joined
    <2> QED BY <2>1, VisitKeepsJoined, FacilitateKeepsJoined DEF SystemNext
  <1>3. Spec => []Base
    BY TransactionsInvariant DEF Base
  <1> QED BY <1>1, <1>2, <1>3, SystemSettles, PTL DEF SystemSpec

-------------------------------------------------------------------------------
\* What the gate calls a payment, the facilitator does as well.
LEMMA SameRequest ==
    ASSUME NEW v \in Visits, payload[v] = SettleRequest(header[v], url[v])
    PROVE  /\ Gate!Key(v) = Key(v)
           /\ Gate!Authorized(v) = (payload[v].genuine /\ payload[v].matches)
  <1>1. /\ payload[v].auth = Core(Gate!Auth(v))
        /\ payload[v].genuine = Gate!VerifyADR036(Gate!Payment(v).publicKey, Gate!Payment(v).signature, Gate!Auth(v))
        /\ payload[v].matches = Gate!Matches(Gate!Payment(v), Gate!Required(v))
    BY DEF SettleRequest, Gate!Payment, Gate!Auth, Gate!Required, GateConfig
  <1>2. Gate!Key(v) = Key(v)
    BY <1>1 DEF Gate!Key, Gate!KeyOf, Key, KeyOf, Auth, Core
  <1>3. Gate!Authorized(v) = (payload[v].genuine /\ payload[v].matches)
    BY <1>1 DEF Gate!Authorized
  <1> QED BY <1>2, <1>3

LEMMA SystemInitRefines ==
    ASSUME SystemInit
    PROVE  Gate!Init
  <1>1. Init /\ TypeOK
    BY TypeInit DEF SystemInit
  <1>2. \A v \in Visits : /\ v \in Requests /\ Key(v) \in Keys
                          /\ PullOf(v) = "none" /\ reply[v] = "none"
                          /\ (payload[v].genuine /\ payload[v].matches) \in BOOLEAN
    BY <1>1, PayloadTypes, VisitsAssumption DEF Init, TypeOK, PullOf
  <1>3. \A v \in Visits : /\ Gate!Key(v) = Key(v)
                          /\ Gate!Authorized(v) = (payload[v].genuine /\ payload[v].matches)
    BY SameRequest DEF SystemInit
  <1>4. Gate!Facilitator!Init
    <2>1. [v \in Visits |-> Gate!Key(v)] \in [Visits -> Keys]
      BY <1>2, <1>3
    <2>2. [v \in Visits |-> Gate!Authorized(v)] \in [Visits -> BOOLEAN]
      BY <1>2, <1>3
    <2>3. [v \in Visits |-> PullOf(v)] = [v \in Visits |-> "none"]
      BY <1>2
    <2>4. [v \in Visits |-> reply[v]] = [v \in Visits |-> "none"]
      BY <1>2
    <2>5. Unsafe \in SUBSET Keys
      BY DEF Unsafe
    <2> QED BY <2>1, <2>2, <2>3, <2>4, <2>5 DEF Gate!Facilitator!Init, Gate!Keys, Keys
  <1> QED BY <1>4 DEF SystemInit, Gate!Init

\* A step of the facilitator is one that the contract with the gate allows: it
\* concerns calls the gate has made, or nothing that the gate can see.
LEMMA FacilitateRefines ==
    ASSUME Inv, Inv', JoinedInv, JoinedInv', Facilitate
    PROVE  Gate!FacilitatorStep
  <1>1. UNCHANGED <<url, header, gate, response>> /\ [Next]_vars
    BY SystemStepSettles DEF Facilitate, gateVars, SystemNext
  <1>2. Gate!gateVars' = Gate!gateVars
    BY <1>1 DEF Gate!gateVars
  <1>3. /\ payload' = payload /\ \A r \in Requests : Key(r)' = Key(r)
        /\ [r \in Requests |-> Key(r)]' = [r \in Requests |-> Key(r)]
    BY <1>1, Frame, MappedFrame DEF Inv
  <1>4. \A v \in Visits : /\ v \in Requests
                          /\ Gate!Key(v) = Key(v) /\ Gate!Key(v)' = Gate!Key(v)
                          /\ Gate!Authorized(v) = (payload[v].genuine /\ payload[v].matches)
                          /\ Gate!Authorized(v)' = Gate!Authorized(v)
    <2> SUFFICES ASSUME NEW v \in Visits
                 PROVE  /\ v \in Requests
                        /\ Gate!Key(v) = Key(v) /\ Gate!Key(v)' = Gate!Key(v)
                        /\ Gate!Authorized(v) = (payload[v].genuine /\ payload[v].matches)
                        /\ Gate!Authorized(v)' = Gate!Authorized(v)
      OBVIOUS
    <2>1. Gate!Auth(v)' = Gate!Auth(v) /\ Gate!Payment(v)' = Gate!Payment(v)
          /\ Gate!Required(v)' = Gate!Required(v)
      BY <1>1 DEF Gate!Auth, Gate!Payment, Gate!Required
    <2> QED BY <2>1, SameRequest, VisitsAssumption
            DEF JoinedInv, Joined, Gate!Key, Gate!Authorized
  <1>5. /\ [v \in Visits |-> Gate!Key(v)]' = [v \in Visits |-> Gate!Key(v)]
        /\ [v \in Visits |-> Gate!Authorized(v)]' = [v \in Visits |-> Gate!Authorized(v)]
    BY <1>4
  <1>6. ASSUME NEW v \in Visits, sent[v] # NoTx \/ sent'[v] # NoTx \/ reply'[v] # "none"
        PROVE  Gate!Called(v)
    <2>1. pc[v] # "idle" \/ pc'[v] # "idle"
      BY <1>6, VisitsAssumption DEF Inv, SentIsAuthorized
    <2>2. Gate!Called(v)' = Gate!Called(v)
      BY <1>1 DEF Gate!Called, Gate!Decodes, Gate!Payment
    <2> QED BY <2>1, <2>2 DEF JoinedInv, Joined
  <1>7. CASE \E r \in Requests : Contract!StartPull(r)
    <2> PICK r \in Requests : Contract!StartPull(r)
      BY <1>7
    <2>1. /\ payload[r].genuine /\ payload[r].matches
          /\ PullOf(r) = "none" /\ reply[r] = "none"
          /\ \A q \in Requests : PullOf(q)' = IF q = r THEN "live" ELSE PullOf(q)
          /\ reply' = reply /\ Unsafe' = Unsafe
      BY DEF Contract!StartPull
    <2>2. ASSUME Key(r) \notin Unsafe, NEW q \in Requests, Key(q) = Key(r), PullOf(q) \in {"live", "paid"}
          PROVE  reply[q] = "broadcast_failed"
      BY <2>2 DEF Contract!StartPull, Contract!Effective, Contract!InDoubt
    <2>3. CASE r \in Visits
      <3>1. Gate!Called(r)
        BY <1>6, <2>1, <2>3 DEF PullOf
      <3>2. Gate!Facilitator!StartPull(r)
        <4>1. [v \in Visits |-> PullOf(v)]' = [[v \in Visits |-> PullOf(v)] EXCEPT ![r] = "live"]
          BY <1>4, <2>1
        <4>2. [v \in Visits |-> reply[v]]' = [v \in Visits |-> reply[v]]
          BY <2>1
        <4>3. [v \in Visits |-> Gate!Authorized(v)][r]
          BY <1>4, <2>1, <2>3
        <4>4. ASSUME [v \in Visits |-> Gate!Key(v)][r] \notin Unsafe, NEW q \in Visits,
                     [v \in Visits |-> Gate!Key(v)][q] = [v \in Visits |-> Gate!Key(v)][r],
                     Gate!Facilitator!Effective(q)
              PROVE  Gate!Facilitator!InDoubt(q)
          BY <1>4, <2>2, <2>3, <4>4 DEF Gate!Facilitator!Effective, Gate!Facilitator!InDoubt
        <4> QED BY <1>5, <2>1, <2>3, <4>1, <4>2, <4>3, <4>4 DEF Gate!Facilitator!StartPull
      <3> QED BY <1>2, <2>3, <3>1, <3>2 DEF Gate!FacilitatorStep, Gate!Settle
    <2>4. CASE r \notin Visits
      <3>1. Gate!Facilitator!Endanger
        <4>1. [v \in Visits |-> PullOf(v)]' = [v \in Visits |-> PullOf(v)]
          BY <1>4, <2>1, <2>4
        <4>2. [v \in Visits |-> reply[v]]' = [v \in Visits |-> reply[v]]
          BY <2>1
        <4>3. Unsafe' \in SUBSET Gate!Keys
          BY DEF Unsafe, Gate!Keys, Keys
        <4> QED BY <1>5, <2>1, <4>1, <4>2, <4>3 DEF Gate!Facilitator!Endanger
      <3> QED BY <1>2, <3>1 DEF Gate!FacilitatorStep, Gate!Settle
    <2> QED BY <2>3, <2>4
  <1>8. CASE \E S \in SUBSET Requests : Contract!EndPulls(S)
    <2> PICK S \in SUBSET Requests : Contract!EndPulls(S)
      BY <1>8
    <2>1. PICK end \in {"paid", "failed"} :
            /\ \A r \in S : PullOf(r) = "live"
            /\ \A r \in Requests : PullOf(r)' = IF r \in S THEN end ELSE PullOf(r)
            /\ MayEvict \/ \A p, q \in S : p = q
            /\ reply' = reply /\ Unsafe' = Unsafe
      BY DEF Contract!EndPulls
    <2> DEFINE T == S \cap Visits
    <2>2. \A v \in T : Gate!Called(v)
      BY <1>6, <2>1 DEF PullOf
    <2>3. Gate!Facilitator!EndPulls(T)
      <3>1. [v \in Visits |-> PullOf(v)]'
                = [v \in Visits |-> IF v \in T THEN end ELSE [q \in Visits |-> PullOf(q)][v]]
        BY <1>4, <2>1
      <3>2. [v \in Visits |-> reply[v]]' = [v \in Visits |-> reply[v]]
        BY <2>1
      <3>3. \A v \in T : [q \in Visits |-> PullOf(q)][v] = "live"
        BY <2>1
      <3>4. MayEvict \/ \A p, q \in T : p = q
        BY <2>1
      <3> HIDE DEF T
      <3> QED BY <1>5, <2>1, <3>1, <3>2, <3>3, <3>4 DEF Gate!Facilitator!EndPulls
    <2> QED BY <1>2, <2>2, <2>3 DEF Gate!FacilitatorStep, Gate!Settle
  <1>9. CASE \E r \in Requests, code \in {"refused", "broadcast_failed", "ok"} : Contract!Reply(r, code)
    <2> PICK r \in Requests, code \in {"refused", "broadcast_failed", "ok"} : Contract!Reply(r, code)
      BY <1>9
    <2>1. /\ reply[r] = "none" /\ reply' = [reply EXCEPT ![r] = code]
          /\ code = "ok" => PullOf(r) = "paid"
          /\ code = "refused" => PullOf(r) = "none"
          /\ \A q \in Requests : PullOf(q)' = PullOf(q)
          /\ Unsafe' = Unsafe
      BY DEF Contract!Reply
    <2>2. [v \in Visits |-> PullOf(v)]' = [v \in Visits |-> PullOf(v)]
      BY <1>4, <2>1
    <2>3. CASE r \in Visits
      <3>1. Gate!Called(r)
        BY <1>6, <2>1, <2>3 DEF Inv, TypeOK
      <3>2. [v \in Visits |-> reply[v]]' = [[v \in Visits |-> reply[v]] EXCEPT ![r] = code]
        BY <1>4, <2>1 DEF Inv, TypeOK
      <3>3. Gate!Facilitator!Reply(r, code)
        BY <1>5, <2>1, <2>2, <2>3, <3>2 DEF Gate!Facilitator!Reply
      <3> QED BY <1>2, <2>3, <3>1, <3>3 DEF Gate!FacilitatorStep, Gate!Settle
    <2>4. CASE r \notin Visits
      <3>1. [v \in Visits |-> reply[v]]' = [v \in Visits |-> reply[v]]
        BY <1>4, <2>1, <2>4 DEF Inv, TypeOK
      <3>2. Unsafe' \in SUBSET Gate!Keys
        BY DEF Unsafe, Gate!Keys, Keys
      <3>3. Gate!Facilitator!Endanger
        BY <1>5, <2>1, <2>2, <3>1, <3>2 DEF Gate!Facilitator!Endanger
      <3> QED BY <1>2, <3>3 DEF Gate!FacilitatorStep, Gate!Settle
    <2> QED BY <2>3, <2>4
  <1>10. CASE Contract!Endanger
    <2>1. /\ \A q \in Requests : PullOf(q)' = PullOf(q)
          /\ reply' = reply /\ Unsafe \subseteq Unsafe'
      BY <1>10 DEF Contract!Endanger
    <2>2. [v \in Visits |-> PullOf(v)]' = [v \in Visits |-> PullOf(v)]
      BY <1>4, <2>1
    <2>3. [v \in Visits |-> reply[v]]' = [v \in Visits |-> reply[v]]
      BY <2>1
    <2>4. Unsafe' \in SUBSET Gate!Keys
      BY DEF Unsafe, Gate!Keys, Keys
    <2>5. Gate!Facilitator!Endanger
      BY <1>5, <2>1, <2>2, <2>3, <2>4 DEF Gate!Facilitator!Endanger
    <2> QED BY <1>2, <2>5 DEF Gate!FacilitatorStep, Gate!Settle
  <1> QED
    BY <1>1, <1>7, <1>8, <1>9, <1>10, StepRefines DEF Contract!Next

\* The gate with the real facilitator behind it behaves as the gate over the
\* contract, whoever else calls the facilitator, with whatever payments and
\* whatever maxTimeoutSeconds.
THEOREM SystemImplementsGate == SystemSpec => ImplementsGate
  <1>1. SystemInit => Gate!Init
    BY SystemInitRefines
  <1>2. Inv /\ Inv' /\ JoinedInv /\ JoinedInv' /\ [SystemNext]_systemVars => [Gate!Next]_(Gate!vars)
    <2> SUFFICES ASSUME Inv, Inv', JoinedInv, JoinedInv', [SystemNext]_systemVars
                 PROVE  [Gate!Next]_(Gate!vars)
      OBVIOUS
    <2>1. ASSUME NEW v \in Visits, Visit(v) PROVE Gate!Next
      BY <2>1 DEF Visit, Gate!Next
    <2>2. ASSUME Facilitate PROVE Gate!Next
      BY <2>2, FacilitateRefines DEF Gate!Next
    <2>3. ASSUME UNCHANGED systemVars PROVE UNCHANGED Gate!vars
      <3>1. UNCHANGED <<url, header, gate, response, sent, paid, failed, reply, payload, arrival, now, restarts>>
        BY <2>3 DEF systemVars, vars, gateVars, chainVars
      <3>2. [Next]_vars
        BY SystemStepSettles
      <3>3. Unsafe' = Unsafe
        BY <3>1, <3>2, SafeStays
      <3> QED BY <3>1, <3>3 DEF Gate!vars, Gate!gateVars, PullOf
    <2> QED BY <2>1, <2>2, <2>3 DEF SystemNext
  <1>3. Spec => []Inv
    BY ReachableInv
  <1>4. SystemSpec => []JoinedInv
    BY JoinedHolds, PTL
  <1> QED
    BY <1>1, <1>2, <1>3, <1>4, SystemSettles, PTL DEF SystemSpec, ImplementsGate, Gate!Spec

\* A request that the facilitator found in order is one that the owner of the payer's
\* key signed for this page, in this amount, to this server.
LEMMA AcceptedIsSigned ==
    ASSUME NEW v \in Visits, Joined(v), payload[v].genuine, payload[v].matches
    PROVE  /\ Gate!SignedForThis(v)
           /\ Auth(v).from = Signed(v).from
           /\ Auth(v).to = Server.payTo
           /\ Auth(v).denom = Signed(v).denom /\ Auth(v).amount = Signed(v).amount
           /\ Signed(v).denom = Server.asset
           /\ Signed(v).amount \in Amounts
  <1> DEFINE pp == header[v].payment
             x == pp.auth
             sig == pp.signature
             signed == sig.over
  <1>1. /\ pp \in Gate!Payload /\ x \in Gate!FullAuthorization /\ url[v] \in Resources
        /\ Gate!VerifyADR036(pp.publicKey, sig, x)
        /\ Gate!Matches(pp, Gate!BuildRequirements(Server, url[v]))
        /\ Auth(v) = Core(x)
    BY HeadersAssumption DEF Joined, SettleRequest, Auth, Gate!Payload
  <1>2. signed \in Gate!FullAuthorization /\ sig.by = x.from /\ Gate!Preimage(signed) = Gate!Preimage(x)
    BY <1>1 DEF Gate!Payload, Gate!Signatures, Gate!VerifyADR036, Gate!VerifySignature
  <1>3. /\ signed.from = x.from /\ signed.to = x.to /\ signed.denom = x.denom
        /\ signed.amount = x.amount /\ signed.resource = x.resource /\ signed.chainId = x.chainId
    <2> HIDE DEF signed, x, sig
    <2>1. \A y \in Gate!FullAuthorization :
            /\ Gate!Canonical(y).from = y.from /\ Gate!Canonical(y).to = y.to
            /\ Gate!Canonical(y).denom = y.denom /\ Gate!Canonical(y).amount = y.amount
            /\ Gate!Canonical(y).resource = y.resource /\ Gate!Canonical(y).chainId = y.chainId
      BY DEF Gate!Canonical, Gate!FullAuthorization
    <2>2. Gate!Canonical(signed) = Gate!Canonical(x)
      BY <1>2 DEF Gate!Preimage
    <2> QED BY <1>1, <1>2, <2>1, <2>2
  <1>4. /\ x.to = Server.payTo /\ x.denom = Server.asset /\ x.resource = url[v]
        /\ x.chainId = HomeChain /\ Gate!CmpAmounts(x.amount, Server.amount) <= 0
    BY <1>1 DEF Gate!Matches, Gate!BuildRequirements, Gate!Stated
  <1>5. x.amount.value \in Int /\ Server.amount.value \in Int
    BY <1>1, ServerAssumption DEF Gate!FullAuthorization, Gate!Amounts, Gate!Config
  <1>6. x.amount.form = "digits" /\ Server.amount.form = "digits"
            => x.amount.value <= Server.amount.value
    BY <1>4, <1>5 DEF Gate!CmpAmounts, Gate!Parses
  <1>7. Auth(v).from = x.from /\ Auth(v).to = x.to /\ Auth(v).denom = x.denom
        /\ Auth(v).amount = x.amount
    BY <1>1 DEF Core
  <1>a. signed.amount \in Amounts
    BY <1>2 DEF Gate!FullAuthorization, Gate!Amounts, Amounts
  <1>8. Gate!Payment(v) = pp
    BY DEF Gate!Payment
  <1> HIDE DEF x
  <1>9. Gate!SignedForThis(v)
    BY <1>2, <1>3, <1>4, <1>6, <1>8 DEF Gate!SignedForThis, GateConfig
  <1> QED BY <1>3, <1>4, <1>7, <1>9, <1>a DEF Signed

\* What the chain moved for a visit is what its payer signed.
LEMMA PaidIsReceived ==
    ASSUME SentIsAuthorized, TypeOK, NEW v \in Visits, Joined(v), sent[v] \in paid
    PROVE  Received(v)
  <1>1. sent[v] # NoTx
    BY NoTxAssumption DEF TypeOK, ChainTypeOK
  <1>2. payload[v].genuine /\ payload[v].matches /\ Transfers(sent[v], Auth(v))
    BY <1>1, VisitsAssumption DEF SentIsAuthorized
  <1>3. /\ Gate!SignedForThis(v) /\ Auth(v).from = Signed(v).from /\ Auth(v).to = Server.payTo
        /\ Auth(v).denom = Signed(v).denom /\ Auth(v).amount = Signed(v).amount
        /\ Signed(v).denom = Server.asset
    BY <1>2, AcceptedIsSigned
  <1>4. sent[v].coin = CoinFor(Signed(v))
    BY <1>2, <1>3 DEF Transfers, CoinFor
  <1>5. Signed(v).amount.form = "digits" /\ Server.amount.form = "digits" =>
            sent[v].coin.denom = Server.asset /\ sent[v].coin.amount <= Server.amount.value
    BY <1>3, <1>4 DEF CoinFor, CoinOf, HasCoin, Gate!SignedForThis, Signed, Gate!Payment, GateConfig
  <1> QED BY <1>2, <1>3, <1>4, <1>5 DEF Received, Transfers

LEMMA ServedHasPaid ==
    ASSUME SentIsAuthorized, NEW v \in Visits, Joined(v), Gate!Served(v)
    PROVE  reply[v] = "ok" /\ sent[v] \in paid
  BY VisitsAssumption DEF Joined, Gate!Served, SentIsAuthorized

\* Served visitors have paid on the chain what they signed for this page; in the
\* server's asset and up to its price if they signed, and it asks, digits.
THEOREM ServicesAreReceived == SystemSpec => []ServedIsReceived
  <1>1. TypeOK /\ SentIsAuthorized /\ JoinedInv => ServedIsReceived
    BY ServedHasPaid, PaidIsReceived DEF JoinedInv, ServedIsReceived
  <1> QED BY <1>1, JoinedHolds, PTL

\* No two services for one transfer, unless a mempool forgot it.
THEOREM ServicesHaveTransfers == SystemSpec => []ServicesAreSold
  <1>1. TypeOK /\ SentIsAuthorized /\ SequenceInv /\ JoinedInv => ServicesAreSold
    <2> SUFFICES ASSUME TypeOK, SentIsAuthorized, SequenceInv, JoinedInv, NEW u \in Visits, NEW v \in Visits,
                        Gate!Served(u), Gate!Served(v), sent[u] = sent[v]
                 PROVE  u = v \/ sent[u] \in evicted
      BY DEF ServicesAreSold
    <2>1. sent[u] \in paid
      BY ServedHasPaid DEF JoinedInv
    <2>2. sent[u] # NoTx
      BY <2>1, NoTxAssumption DEF TypeOK, ChainTypeOK
    <2> QED BY <2>2, VisitsAssumption DEF SequenceInv
  <1> QED BY <1>1, JoinedHolds, PTL

\* A visit whose transfer was executed is served, or the reason it reads leaves that
\* open; the price and success:false it reads in any case.
THEOREM ChargesAreAllExplained == SystemSpec => []ChargesAreExplained
  <1>1. TypeOK /\ SentIsAuthorized /\ JoinedInv => ChargesAreExplained
    <2> SUFFICES ASSUME TypeOK, SentIsAuthorized, JoinedInv, NEW v \in Visits, sent[v] \in paid
                 PROVE  /\ Received(v)
                        /\ \/ response[v] = Gate!Unanswered
                           \/ Gate!Served(v)
                           \/ response[v].receipt \in Gate!OpenReasons
      BY DEF ChargesAreExplained
    <2>1. sent[v] # NoTx
      BY NoTxAssumption DEF TypeOK, ChainTypeOK
    <2>2. pc[v] # "idle" /\ reply[v] # "refused"
      BY <2>1, VisitsAssumption DEF SentIsAuthorized
    <2>3. Gate!Decodes(v)
      BY <2>2 DEF JoinedInv, Joined, Gate!Called
    <2>4. /\ response[v] \in Gate!Responses
          /\ response[v].receipt \in {"none", "invalid_authorization"} => response[v] = Gate!Unanswered
          /\ response[v].receipt = "ok" => Gate!Served(v)
          /\ response[v].receipt # "refused"
      BY <2>2, <2>3 DEF JoinedInv, Joined, Gate!Served
    <2>5. \/ response[v] = Gate!Unanswered
          \/ Gate!Served(v)
          \/ response[v].receipt \in Gate!OpenReasons
      BY <2>4 DEF Gate!Responses, Gate!Reasons, Gate!OpenReasons
    <2> QED BY <2>5, PaidIsReceived DEF JoinedInv
  <1> QED BY <1>1, JoinedHolds, PTL

\* A run of the facilitator sells one service per live nonce.
THEOREM NoncesAreSoldOnce == SystemSpec => []SoldOncePerRun
  <1>1. TypeOK /\ SentIsAuthorized /\ SequenceInv /\ JoinedInv /\ AtMostOnePull => SoldOncePerRun
    <2> SUFFICES ASSUME TypeOK, SentIsAuthorized, SequenceInv, JoinedInv, AtMostOnePull,
                        NEW u \in Visits, NEW v \in Visits, Gate!Served(u), Gate!Served(v),
                        Key(u) = Key(v), Run(u) = Run(v), Live(Key(u))
                 PROVE  u = v
      BY DEF SoldOncePerRun
    <2>1. ASSUME NEW w \in {u, v} PROVE w \in Requests /\ Pulled(w) /\ ~ InDoubt(w)
      <3>1. reply[w] = "ok" /\ sent[w] \in paid
        BY ServedHasPaid DEF JoinedInv
      <3>2. sent[w] # NoTx /\ sent[w] \notin failed
        BY <3>1, NoTxAssumption DEF TypeOK, ChainTypeOK, SequenceInv
      <3> QED BY <3>1, <3>2, VisitsAssumption DEF Pulled, InDoubt
    <2> QED BY <2>1 DEF AtMostOnePull
  <1>2. Spec => []AtMostOnePull
    BY ReplayInvariant, PTL
  <1> QED BY <1>1, <1>2, JoinedHolds, SystemSettles, PTL

-------------------------------------------------------------------------------
(***************************************************************************)
(* What is proved of PaidGate over the contract holds of the system, whose *)
(* gate is the same.  PaidGateProofs is about an instance of PaidGate of   *)
(* its own, and supposes PaidGate's assumptions.                           *)
(***************************************************************************)
Proved == INSTANCE PaidGateProofs WITH
    Server   <- GateConfig,
    pull     <- [v \in Visits |-> PullOf(v)],
    answer   <- [v \in Visits |-> reply[v]],
    unsafe   <- Unsafe,
    MayShare <- MayEvict

LEMMA SameConstants ==
    /\ UInt64 = Proved!UInt64
    /\ Gate!Config = Proved!Config /\ Gate!Payload = Proved!Payload
    /\ Gate!FullAuthorization = Proved!FullAuthorization
  BY DEF Gate!UInt64, Proved!UInt64, UInt64, Gate!Amounts, Proved!Amounts,
         Gate!Config, Proved!Config, Gate!Payload, Proved!Payload,
         Gate!FullAuthorization, Proved!FullAuthorization, Gate!Signatures, Proved!Signatures

LEMMA SameSpec == Gate!Spec => Proved!Spec
  <1> USE DEF Gate!Payment, Proved!Payment, Gate!Auth, Proved!Auth, Gate!Key, Proved!Key,
              Gate!KeyOf, Proved!KeyOf, Gate!Keys, Proved!Keys, Gate!Scheme, Proved!Scheme,
              Gate!Decodes, Proved!Decodes, Gate!Called, Proved!Called,
              Gate!gateVars, Proved!gateVars
  <1>1. \A v \in Visits : Gate!Authorized(v) = Proved!Authorized(v)
    BY DEF Gate!Authorized, Proved!Authorized, Gate!Required, Proved!Required,
           Gate!BuildRequirements, Proved!BuildRequirements, Gate!Stated, Proved!Stated,
           Gate!TimeoutOf, Proved!TimeoutOf, Gate!Matches, Proved!Matches,
           Gate!CmpAmounts, Proved!CmpAmounts, Gate!Parses, Proved!Parses,
           Gate!VerifyADR036, Proved!VerifyADR036, Gate!VerifySignature, Proved!VerifySignature,
           Gate!Preimage, Proved!Preimage, Gate!Canonical, Proved!Canonical
  <1>2. Gate!Init => Proved!Init
    BY <1>1 DEF Gate!Init, Proved!Init, Gate!Facilitator!Init, Proved!Facilitator!Init,
                Gate!Unanswered, Proved!Unanswered
  <1>3. \A v \in Visits : Gate!GateStep(v) => Proved!GateStep(v)
    BY DEF Gate!GateStep, Proved!GateStep, Gate!Quote, Proved!Quote, Gate!TurnAway, Proved!TurnAway,
           Gate!CallSettle, Proved!CallSettle, Gate!PassOn, Proved!PassOn,
           Gate!GiveUp, Proved!GiveUp, Gate!Respond, Proved!Respond,
           Gate!Quoted, Proved!Quoted, Gate!Failed, Proved!Failed, Gate!Admitted, Proved!Admitted
  <1>4. Gate!FacilitatorStep => Proved!FacilitatorStep
    <2>1. (\A v \in Visits : Gate!Authorized(v) = Proved!Authorized(v))'
      BY <1>1, PTL
    <2>2. /\ [v \in Visits |-> Gate!Authorized(v)] = [v \in Visits |-> Proved!Authorized(v)]
          /\ [v \in Visits |-> Gate!Authorized(v)]' = [v \in Visits |-> Proved!Authorized(v)]'
      BY <1>1, <2>1
    <2> HIDE DEF Gate!Called, Proved!Called
    <2>3. \A v \in Visits : Gate!Called(v) = Proved!Called(v)
      BY DEF Gate!Called, Proved!Called
    <2> QED
      BY <2>2, <2>3
      DEF Gate!FacilitatorStep, Proved!FacilitatorStep, Gate!Settle, Proved!Settle,
          Gate!Facilitator!StartPull, Proved!Facilitator!StartPull,
          Gate!Facilitator!EndPulls, Proved!Facilitator!EndPulls,
          Gate!Facilitator!Reply, Proved!Facilitator!Reply,
          Gate!Facilitator!Endanger, Proved!Facilitator!Endanger,
          Gate!Facilitator!Effective, Proved!Facilitator!Effective,
          Gate!Facilitator!InDoubt, Proved!Facilitator!InDoubt
  <1>5. [Gate!Next]_(Gate!vars) => [Proved!Next]_(Proved!vars)
    BY <1>3, <1>4 DEF Gate!Next, Proved!Next, Gate!vars, Proved!vars
  <1> QED BY <1>2, <1>5, PTL DEF Gate!Spec, Proved!Spec

\* Served visitors have paid, one payment is served once, and whoever is charged, or
\* charged twice, can tell from the reason: with the real facilitator and chain.
THEOREM GateKeepsItsPromises ==
    SystemSpec => [](/\ Gate!ServedIsPaid /\ Gate!OneServicePerNonce
                     /\ Gate!ReasonTellsCharge /\ Gate!SecondChargeIsAnnounced)
  <1> USE SameConstants, VisitsAssumption, ServerAssumption, HeadersAssumption, SigningAssumption,
          WordAssumption, UnixMaxAssumption, MayEvictAssumption DEF GateConfig
  <1>1. Proved!Spec => []Proved!ServedIsPaid
    BY Proved!ServiceIsPaid, Zenon
  <1>2. Proved!Spec => []Proved!OneServicePerNonce
    BY Proved!ServiceIsOnce, Zenon
  <1>3. Proved!Spec => []Proved!ReasonTellsCharge
    BY Proved!ReasonsTellCharges, Zenon
  <1>4. Proved!Spec => []Proved!SecondChargeIsAnnounced
    BY Proved!SecondChargesAreAnnounced, Zenon
  <1>5. /\ Proved!ServedIsPaid => Gate!ServedIsPaid
        /\ Proved!OneServicePerNonce => Gate!OneServicePerNonce
        /\ Proved!ReasonTellsCharge => Gate!ReasonTellsCharge
        /\ Proved!SecondChargeIsAnnounced => Gate!SecondChargeIsAnnounced
    BY DEF Gate!ServedIsPaid, Proved!ServedIsPaid, Gate!SignedForThis, Proved!SignedForThis,
           Gate!OneServicePerNonce, Proved!OneServicePerNonce,
           Gate!ReasonTellsCharge, Proved!ReasonTellsCharge, Gate!Served, Proved!Served,
           Gate!Charged, Proved!Charged, Gate!Unanswered, Proved!Unanswered,
           Gate!OpenReasons, Proved!OpenReasons,
           Gate!SecondChargeIsAnnounced, Proved!SecondChargeIsAnnounced,
           Gate!Key, Proved!Key, Gate!KeyOf, Proved!KeyOf, Gate!Auth, Proved!Auth,
           Gate!Payment, Proved!Payment
  <1>6. SystemSpec => Proved!Spec
    BY SystemImplementsGate, SameSpec DEF ImplementsGate
  <1> QED BY <1>1, <1>2, <1>3, <1>4, <1>5, <1>6, PTL
================================================================================
