------------------------------- MODULE CosmosPay -------------------------------
(***************************************************************************)
(* The whole system: a resource server whose gate is PaidGate, and the     *)
(* facilitator and the chain of Settlement behind it, instead of the       *)
(* contract that stands for them there.  The facilitator also serves       *)
(* others: anyone may call POST /settle without the gate, with a payment   *)
(* that a visitor presents as well, or any other.                          *)
(***************************************************************************)
EXTENDS SettlementRefinement

CONSTANTS Visits,    \* requests that the gate makes; the others are made by others
          Server, Headers,
          Schemes, Resources, ChainIds, Grantees, HomeChain,
          Float64, Exact, Malformed, DefaultTimeout

VARIABLES url, header, gate, response   \* the gate's, see PaidGate

gateVars   == <<url, header, gate, response>>
systemVars == <<vars, gateVars>>

\* The Config that Paid was called with.  (TLC evaluates a definition once.)
GateConfig == Server

\* What the gate sees of the facilitator is what became of its own calls.
Gate == INSTANCE PaidGate WITH
    Server   <- GateConfig,
    pull     <- [v \in Visits |-> PullOf(v)],
    answer   <- [v \in Visits |-> reply[v]],
    unsafe   <- Unsafe,
    MayShare <- MayEvict

\* The body of callSettle: the payment of header h with the requirements of a
\* request for u, as far as Settlement tells requests apart.  The authorization
\* without its resource and chain id, which matches is about:
Core(a) == [from |-> a.from, to |-> a.to, denom |-> a.denom, amount |-> a.amount, nonce |-> a.nonce,
            validAfter |-> a.validAfter, validBefore |-> a.validBefore]

SettleRequest(h, u) ==
    LET pp == h.payment
        pr == Gate!BuildRequirements(Server, u)
    IN  [auth    |-> Core(pp.auth),
         genuine |-> Gate!VerifyADR036(pp.publicKey, pp.signature, pp.auth),
         matches |-> Gate!Matches(pp, pr),
         max     |-> pr.maxTimeout]

\* PaidGate's assumptions, and that Payloads holds what the gate can send.  It may
\* hold anything else: what others send, under requirements of their own.
ASSUME VisitsAssumption == Visits \subseteq Requests
ASSUME ServerAssumption ==
    /\ Server \in Gate!Config
    /\ DefaultTimeout \in Nat \ {0}
ASSUME HeadersAssumption ==
    /\ Headers \subseteq [form : {"absent", "garbled", "payload"}, payment : Gate!Payload]
    /\ \A h \in Headers, u \in Resources : SettleRequest(h, u) \in Payloads
ASSUME SigningAssumption ==
    /\ HomeChain \in ChainIds
    /\ Exact \in Nat /\ Float64 \in [UInt64 -> Nat]
    /\ \A v \in UInt64 : IF v < Exact THEN Float64[v] = v ELSE Float64[v] >= Exact
    /\ Malformed \notin Payers /\ Malformed \notin [by : Payers, over : Gate!FullAuthorization]

SystemInit ==
    /\ Init
    /\ url \in [Visits -> Resources]
    /\ header \in [Visits -> Headers]
    /\ gate = [v \in Visits |-> "arrived"]
    /\ response = [v \in Visits |-> Gate!Unanswered]
    /\ \A v \in Visits : payload[v] = SettleRequest(header[v], url[v])

\* A step of the gate changes nothing in the facilitator.
Visit(v) == UNCHANGED vars /\ Gate!GateStep(v)

\* A visit's call reaches settleHandler once the gate has sent it, be it after the
\* gate has given up; every other request does at any time.
Call(r) == (r \in Visits => Gate!Called(r)) /\ Arrive(r)

Facilitate ==
    /\ \/ \E r \in Requests : Call(r) \/ Step(r)
       \/ GC
       \/ Tick
       \/ Restart
       \/ Environment
    /\ UNCHANGED gateVars

SystemNext == (\E v \in Visits : Visit(v)) \/ Facilitate

SystemSpec == SystemInit /\ [][SystemNext]_systemVars

-------------------------------------------------------------------------------
\* With the real facilitator behind it, the gate behaves as it does over the
\* contract, whoever else calls the facilitator and whenever it restarts: what holds
\* of PaidGate holds of the system.
ImplementsGate == Gate!Spec

\* What the owner of the key in v's header put it to.
Signed(v) == header[v].payment.signature.over

\* The transfer of v's own call is in a block.  It is from the account of the key
\* that signed for this page and this server, to this server, and of the coin that
\* was signed: if both amounts are in digits, of the server's asset, up to the price.
Received(v) ==
    LET coin == sent[v].coin
    IN  /\ sent[v] \in paid
        /\ Gate!SignedForThis(v)
        /\ sent[v].from = Signed(v).from
        /\ sent[v].to = Server.payTo
        /\ coin = CoinFor(Signed(v))
        /\ Signed(v).amount.form = "digits" /\ Server.amount.form = "digits" =>
                coin.denom = Server.asset /\ coin.amount <= Server.amount.value

\* Who is served has paid, on the chain, what it signed for this page at this server.
\* That is in the server's asset only if the amounts are in digits: one with
\* letters behind it passes the gate and Verify alike, and moves another denom.
ServedIsReceived == \A v \in Visits : Gate!Served(v) => Received(v)

\* As many services, as many transfers: two visitors, with one payment or with two
\* of equal content, are never served for one transfer, unless a mempool forgot it
\* in between.  This holds over restarts, retries and expired windows.
ServicesAreSold ==
    \A u, v \in Visits :
        Gate!Served(u) /\ Gate!Served(v) /\ sent[u] = sent[v] => u = v \/ sent[u] \in evicted

\* While a nonce is live, one run of the facilitator sells one service for it,
\* whatever was pulled on it before that run, and whoever else calls.
SoldOncePerRun ==
    \A u, v \in Visits :
        Gate!Served(u) /\ Gate!Served(v) /\ Key(u) = Key(v) /\ Run(u) = Run(v) /\ Live(Key(u)) => u = v

\* A transfer that a visit's call caused is what its payer signed for that page at
\* this server, and the visitor is served, still waiting, or reads one of the two
\* reasons that leave it open.  It also reads the price again and success:false
\* then, as after every failure.
ChargesAreExplained ==
    \A v \in Visits : sent[v] \in paid =>
        /\ Received(v)
        /\ \/ response[v] = Gate!Unanswered
           \/ Gate!Served(v)
           \/ response[v].receipt \in Gate!OpenReasons
================================================================================
