-------------------------------- MODULE PaidGate --------------------------------
(***************************************************************************)
(* The resource server's gate (middleware/middleware.go, Paid) and its     *)
(* visitors, over a facilitator of which nothing is known but its contract *)
(* (SettlementContract, which Settlement is shown to implement).           *)
(*                                                                         *)
(* A visit is one HTTP request that reaches the gate, in a goroutine of    *)
(* its own.  A payer that retries, and a transport that sends a GET again  *)
(* after a lost connection, make several visits with one payment.  The     *)
(* call of POST /settle that a visit makes has the visit's name.  It runs  *)
(* on in the facilitator after the gate has given up on it.                *)
(***************************************************************************)
EXTENDS Negotiation

CONSTANTS Visits,
          Server,    \* the gate's Config
          Headers,   \* what a visitor may send as PAYMENT-SIGNATURE
          MayShare   \* may two pulls turn out to be one transfer?

\* form "absent": no header; "garbled": not base64 or not JSON; payment counts
\* only if the form is "payload".
ASSUME GateAssumption ==
    /\ Server \in Config
    /\ MayShare \in BOOLEAN
    /\ Headers \subseteq [form : {"absent", "garbled", "payload"}, payment : Payload]

VARIABLES url,       \* the resource each visit asks for, as the server sees it
          header,    \* what it sends
          gate,      \* where its goroutine stands
          response,  \* what it is answered
          pull, answer, unsafe   \* the facilitator's, see SettlementContract

gateVars == <<url, header, gate, response>>
vars == <<gateVars, pull, answer, unsafe>>

Payment(v)   == header[v].payment
Auth(v)      == Payment(v).auth
Key(v)       == KeyOf(Auth(v))
Required(v)  == BuildRequirements(Server, url[v])

\* decodePayload: base64, JSON and the scheme.
Decodes(v) == header[v].form = "payload" /\ Payment(v).scheme = Scheme

\* What Verify asks of the request alone.
Authorized(v) ==
    /\ Matches(Payment(v), Required(v))
    /\ VerifyADR036(Payment(v).publicKey, Payment(v).signature, Auth(v))

Facilitator == INSTANCE SettlementContract WITH
    Requests   <- Visits,
    key        <- [v \in Visits |-> Key(v)],
    authorized <- [v \in Visits |-> Authorized(v)]

\* "refused" stands for every reason Settle gives but broadcast_failed.
Reasons == {"invalid_authorization", "refused", "broadcast_failed", "unexpected_settle_error"}

\* What a visitor reads: the inner handler's answer or not; the price or not, which
\* is status 402 with a PAYMENT-REQUIRED header; and in PAYMENT-RESPONSE success
\* ("ok") or the reason of a failure, if that header is there at all.
Responses == [served : BOOLEAN, price : BOOLEAN, receipt : {"none", "ok"} \cup Reasons]

Unanswered     == [served |-> FALSE, price |-> FALSE, receipt |-> "none"]
Quoted         == [served |-> FALSE, price |-> TRUE,  receipt |-> "none"]
Failed(reason) == [served |-> FALSE, price |-> TRUE,  receipt |-> reason]
Admitted       == [served |-> TRUE,  price |-> FALSE, receipt |-> "ok"]

TypeOK ==
    /\ Facilitator!ContractTypeOK
    /\ url \in [Visits -> Resources]
    /\ header \in [Visits -> Headers]
    /\ gate \in [Visits -> {"arrived", "settling", "done"}]
    /\ response \in [Visits -> Responses]

Init ==
    /\ url \in [Visits -> Resources]
    /\ header \in [Visits -> Headers]
    /\ gate = [v \in Visits |-> "arrived"]
    /\ response = [v \in Visits |-> Unanswered]
    /\ Facilitator!Init

-------------------------------------------------------------------------------
Respond(v, here, what) ==
    /\ gate[v] = here
    /\ gate' = [gate EXCEPT ![v] = "done"]
    /\ response' = [response EXCEPT ![v] = what]
    /\ UNCHANGED <<url, header, pull, answer, unsafe>>

\* writeRequired: the price, to a visitor that does not pay.
Quote(v) == header[v].form = "absent" /\ Respond(v, "arrived", Quoted)

\* A header that cannot be decoded is turned away without a call.
TurnAway(v) ==
    /\ header[v].form # "absent" /\ ~ Decodes(v)
    /\ Respond(v, "arrived", Failed("invalid_authorization"))

\* callSettle: the payload as it came, with the requirements of this request.
CallSettle(v) ==
    /\ Decodes(v)
    /\ gate[v] = "arrived"
    /\ gate' = [gate EXCEPT ![v] = "settling"]
    /\ UNCHANGED <<url, header, response, pull, answer, unsafe>>

\* Faulty variant: a nonce that was settled before counts as paid.
ServeAnswered(v) ==
    /\ answer[v] # "none"
    /\ Respond(v, "settling",
               IF answer[v] \in {"ok", "refused"} THEN Admitted ELSE Failed(answer[v]))

\* The settle response arrives: on success the inner handler is called, and every
\* other answer is passed on with its reason.
PassOn(v) ==
    /\ answer[v] # "none"
    /\ Respond(v, "settling", IF answer[v] = "ok" THEN Admitted ELSE Failed(answer[v]))

\* Faulty variants: a call that failed is put down to the header; the client that
\* calls has no timeout.
BlameHeader(v) == Respond(v, "settling", Failed("invalid_authorization"))
WaitForIt(v)   == answer[v] # "none" /\ Respond(v, "settling", Failed("unexpected_settle_error"))

\* callSettle returns an error: 30 seconds are over, the visitor has gone, the
\* connection broke, what came back is not JSON.  The facilitator may have
\* answered, may be at work, or may never have heard of the call.
GiveUp(v) == Respond(v, "settling", Failed("unexpected_settle_error"))

GateStep(v) == Quote(v) \/ TurnAway(v) \/ CallSettle(v) \/ PassOn(v) \/ GiveUp(v)

\* The facilitator has a request for each call, whatever became of the caller.
Called(v) == Decodes(v) /\ gate[v] # "arrived"

Settle ==
    \/ \E S \in SUBSET {v \in Visits : Called(v)} : Facilitator!EndPulls(S)
    \/ Facilitator!Endanger
    \/ \E v \in Visits :
        /\ Called(v)
        /\ \/ Facilitator!StartPull(v)
           \/ \E code \in {"refused", "broadcast_failed", "ok"} : Facilitator!Reply(v, code)

FacilitatorStep == UNCHANGED gateVars /\ Settle

Next == (\E v \in Visits : GateStep(v)) \/ FacilitatorStep

Spec == Init /\ [][Next]_vars

\* The gate's own goroutines run, and its client's timeout ends every call.  Of
\* the facilitator and the chain nothing is assumed.
FairSpec == Spec /\ \A v \in Visits : WF_vars(GateStep(v))

-------------------------------------------------------------------------------
\* The payer of the header put its own key to a payment for url[v] to this server,
\* at this server's price or less (in digits, which is all that is compared).
SignedForThis(v) ==
    LET signed == Payment(v).signature.over
    IN  /\ Payment(v).signature.by = signed.from
        /\ signed.resource = url[v]
        /\ signed.to = Server.payTo
        /\ signed.denom = Server.asset
        /\ signed.chainId = HomeChain
        /\ signed.amount.form = "digits" /\ Server.amount.form = "digits" =>
                signed.amount.value <= Server.amount.value

Served(v)  == response[v].served
Charged(v) == pull[v] \in {"live", "paid"}

\* The inner handler runs only for a visitor whose own call pulled a payment that was
\* executed, and that its payer signed for exactly this resource and server: not
\* for a payment to another URL, nor on the strength of another visitor's call.
ServedIsPaid == \A v \in Visits : Served(v) => pull[v] = "paid" /\ SignedForThis(v)

\* One payment buys one service, however often the visitor or its transport sends
\* it and whichever answers get lost, until its window ends or the facilitator
\* restarts after the payment.
OneServicePerNonce ==
    \A u, v \in Visits :
        /\ Served(u) /\ Served(v)
        /\ Key(u) = Key(v) /\ Key(u) \notin unsafe
        => u = v

\* Reasons that leave open whether the funds move.
OpenReasons == {"broadcast_failed", "unexpected_settle_error"}

\* Every failure tells the visitor the price again and success:false, also one whose
\* payment goes through (writeFailure, middleware.go:123): the reason alone can tell
\* them apart.  It does: a visitor whose call pulled funds is not answered yet, is
\* served, or reads one of the two open reasons.  The bare price, and every other
\* reason, mean that its own call has not pulled anything and never will.
ReasonTellsCharge ==
    \A v \in Visits : Charged(v) =>
        response[v] = Unanswered \/ Served(v) \/ response[v].receipt \in OpenReasons

\* Of two visits that charge a payer for one nonce, one has failed with an open reason
\* by the time both are answered: charges that are both served are for different
\* nonces.  (No other notice is given: the failure looks like any other but for
\* its reason.)
SecondChargeIsAnnounced ==
    \A u, v \in Visits :
        /\ Charged(u) /\ Charged(v)
        /\ response[u] # Unanswered /\ response[v] # Unanswered
        /\ Key(u) = Key(v) /\ Key(u) \notin unsafe
        => u = v \/ {response[u].receipt, response[v].receipt} \cap OpenReasons # {}

\* Every visitor is answered, though the facilitator may be down or the chain
\* stand still.
EveryVisitAnswered == \A v \in Visits : gate[v] = "arrived" ~> response[v] # Unanswered
=================================================================================
