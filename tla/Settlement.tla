------------------------------ MODULE Settlement ------------------------------
(***************************************************************************)
(* Settling payments: Settler.Settle (facilitator/settle.go), with the     *)
(* Verifier.Verify it calls first (facilitator/verify.go) and the          *)
(* NobleClient.BroadcastAuthzSend it calls between Reserve and Commit      *)
(* (facilitator/chain_noble.go), run by one goroutine per POST /settle     *)
(* beside the garbage collector of facilitator/cmd/main.go, over one nonce *)
(* store and one chain, in a process that may stop and start again.        *)
(*                                                                         *)
(* A request's local state is where its goroutine stands: pc names the     *)
(* next step.  A request is one call: a client that retries, or a server   *)
(* that calls twice, is several requests with the same authorization.      *)
(***************************************************************************)
EXTENDS NonceStore, Chain

CONSTANTS Requests,     \* calls of POST /settle
          Payloads,     \* what they may carry
          MaxNow,       \* bound on the clock
          MaxRestarts,  \* bound on the restarts of the process
          NoTx          \* no transaction

\* genuine: the signature verifies and its key is From's (steps 9-10).
\* matches: scheme, network, payTo, asset, amount, resource and chain id agree
\* with the requirements sent along (steps 1-6).  max: the maxTimeoutSeconds of
\* those requirements, which every caller states for itself.
ASSUME PayloadsAssumption ==
    Payloads \subseteq [auth : Authorization, genuine : BOOLEAN, matches : BOOLEAN, max : Nat]
ASSUME BoundsAssumption   == MaxNow \in Nat /\ MaxRestarts \in Nat
ASSUME NoTxAssumption     == NoTx \notin Txs

VARIABLES payload,   \* what each request carries
          pc,        \* the next step of each request's goroutine
          accSeq,    \* the account sequence it read and signs with; 0 when out of scope
          sent,      \* the transaction a node accepted for it, or NoTx
          reply,     \* the response it wrote
          arrival,   \* history: how each request found the process
          now,       \* the clock, in seconds
          restarts   \* how often the process was restarted

vars == <<nonces, chainVars, payload, pc, accSeq, sent, reply, arrival, now, restarts>>

Auth(r) == payload[r].auth
Key(r)  == KeyOf(Auth(r))

Holding  == {"account", "broadcast", "wait", "commit", "release"}
InFlight == {"fields", "nonce", "grant", "balance", "reserve"} \cup Holding

\* The run of the process that took the request, and whether its authorization had
\* been answered with success in that run.  Before Arrive they mean nothing.
Arrivals == [run : 0 .. MaxRestarts, late : BOOLEAN]

Run(r)  == arrival[r].run
Late(r) == arrival[r].late

\* Holds(r): the goroutine is past Reserve and has not committed or released.
Holds(r) == pc[r] \in Holding

\* The responses; "refused" stands for every code but broadcast_failed.
Replies == {"none", "refused", "broadcast_failed", "ok"}

\* Every variable has the type the code gives it.
TypeOK ==
    /\ StoreTypeOK
    /\ ChainTypeOK
    /\ payload \in [Requests -> Payloads]
    /\ pc \in [Requests -> {"idle", "done", "dead"} \cup InFlight]
    /\ accSeq \in [Requests -> Nat]
    /\ sent \in [Requests -> Txs \cup {NoTx}]
    /\ reply \in [Requests -> Replies]
    /\ arrival \in [Requests -> Arrivals]
    /\ now \in 0 .. MaxNow
    /\ restarts \in 0 .. MaxRestarts

Init ==
    /\ StoreInit
    /\ ChainInit
    /\ payload \in [Requests -> Payloads]
    /\ pc = [r \in Requests |-> "idle"]
    /\ accSeq = [r \in Requests |-> 0]
    /\ sent = [r \in Requests |-> NoTx]
    /\ reply = [r \in Requests |-> "none"]
    /\ arrival = [r \in Requests |-> [run |-> 0, late |-> FALSE]]
    /\ now = 0
    /\ restarts = 0

-------------------------------------------------------------------------------

Goto(r, here, next) ==
    /\ pc[r] = here
    /\ pc' = [pc EXCEPT ![r] = next]

Answer(r, here, code) ==
    /\ Goto(r, here, "done")
    /\ reply' = [reply EXCEPT ![r] = code]

\* The error returns of Verify: nothing was changed.
Refuse(r, here) ==
    /\ Answer(r, here, "refused")
    /\ UNCHANGED <<nonces, chainVars, payload, accSeq, sent, arrival, now, restarts>>

\* A step of a goroutine that reads and goes on.
Pass(r, here, next) ==
    /\ Goto(r, here, next)
    /\ UNCHANGED <<nonces, chainVars, payload, accSeq, sent, reply, arrival, now, restarts>>

\* settleHandler is called.
Arrive(r) ==
    /\ Goto(r, "idle", "fields")
    /\ arrival' = [arrival EXCEPT ![r] =
           [run  |-> restarts,
            late |-> \E q \in Requests : reply[q] = "ok" /\ Auth(q) = Auth(r) /\ Run(q) = restarts]]
    /\ UNCHANGED <<nonces, chainVars, payload, accSeq, sent, reply, now, restarts>>

\* Faulty variant: the requirements are not compared with the authorization.
FieldsUnmatched(r) == InWindow(Auth(r), now, payload[r].max)

\* Verify, steps 1-7: the fields and the validity window, against one reading of
\* the clock.
FieldsOK(r) == payload[r].matches /\ InWindow(Auth(r), now, payload[r].max)

CheckFields(r) ==
    \/ FieldsOK(r) /\ Pass(r, "fields", "nonce")
    \/ ~ FieldsOK(r) /\ Refuse(r, "fields")

\* Faulty variant: the signature is not verified.
NonceOKUnsigned(r) == ~ Seen(Key(r))

\* Verify, steps 8-10: Exists, without reserving, then the signature.
NonceOK(r) == ~ Seen(Key(r)) /\ payload[r].genuine

CheckNonce(r) ==
    \/ NonceOK(r) /\ Pass(r, "nonce", "grant")
    \/ ~ NonceOK(r) /\ Refuse(r, "nonce")

\* Verify, step 11: the grant's limit is read and forgotten.  Refused also when
\* the query fails or the grant has expired.
Granted(r) ==
    LET left == GrantLimit(Auth(r).from, Auth(r).denom)
    IN  left > 0 /\ CmpAmounts(Digits(left), Auth(r).amount) >= 0

CheckGrant(r) ==
    \/ Granted(r) /\ Pass(r, "grant", "balance")
    \/ Refuse(r, "grant")

\* The balance, which is not modelled, or the query's error, which is ignored.
CheckBalance(r) == Pass(r, "balance", "reserve") \/ Refuse(r, "balance")

\* Faulty variant: the reservation is given the start of the window as its end.
ReserveUntilStart(r) ==
    \/ /\ Goto(r, "reserve", "account")
       /\ StoreReserve(Key(r), UnixTime(Auth(r).validAfter))
       /\ UNCHANGED <<chainVars, payload, accSeq, sent, reply, arrival, now, restarts>>
    \/ Seen(Key(r)) /\ Refuse(r, "reserve")

\* Settle: the nonce is reserved until the authorization's validBefore, or the
\* request is refused with ErrNonceUsed.
Reserve(r) ==
    \/ /\ Goto(r, "reserve", "account")
       /\ StoreReserve(Key(r), UnixTime(Auth(r).validBefore))
       /\ UNCHANGED <<chainVars, payload, accSeq, sent, reply, arrival, now, restarts>>
    \/ Seen(Key(r)) /\ Refuse(r, "reserve")

\* BroadcastAuthzSend up to queryAccountNumSeq, which may fail; an amount that is
\* no coin fails before.
QueryAccount(r) ==
    \/ /\ HasCoin(Auth(r).amount)
       /\ Goto(r, "account", "broadcast")
       /\ accSeq' = [accSeq EXCEPT ![r] = sequence]
       /\ UNCHANGED <<nonces, chainVars, payload, sent, reply, arrival, now, restarts>>
    \/ Pass(r, "account", "release")

\* The coin that an authorization makes move.
CoinFor(a) == CoinOf(a.amount, a.denom)

SignedTx(r) == [from |-> Auth(r).from, to |-> Auth(r).to,
                coin |-> CoinFor(Auth(r)), seq |-> accSeq[r]]

\* Faulty variant: the code CheckTx returns is not looked at, and a transaction
\* that was turned away is waited for all the same.
BroadcastUnchecked(r) ==
    /\ accSeq' = [accSeq EXCEPT ![r] = 0]
    /\ UNCHANGED <<nonces, payload, reply, arrival, now, restarts>>
    /\ sent' = [sent EXCEPT ![r] = SignedTx(r)]
    /\ Goto(r, "broadcast", "wait")
    /\ Submit(SignedTx(r)) \/ UNCHANGED chainVars

\* The transaction is built from the sequence read, signed and handed to
\* BroadcastTxSync: accepted; accepted and the answer lost; not accepted.
Broadcast(r) ==
    /\ accSeq' = [accSeq EXCEPT ![r] = 0]
    /\ UNCHANGED <<nonces, payload, reply, arrival, now, restarts>>
    /\ \/ /\ \E next \in {"wait", "release"} : Goto(r, "broadcast", next)
          /\ Submit(SignedTx(r))
          /\ sent' = [sent EXCEPT ![r] = SignedTx(r)]
       \/ /\ Goto(r, "broadcast", "release")
          /\ UNCHANGED <<chainVars, sent>>

\* Faulty variants: inclusion is success whatever the code; there is no deadline.
WaitAnyCode(r) ==
    \/ sent[r] \in paid \cup failed /\ Pass(r, "wait", "commit")
    \/ Pass(r, "wait", "release")
WaitForever(r) ==
    \/ sent[r] \in paid /\ Pass(r, "wait", "commit")
    \/ sent[r] \in failed /\ Pass(r, "wait", "release")

\* waitForTx: included with code 0; or an error, which is a transaction that
\* failed on chain, and just as well the 30 second deadline or the caller's
\* cancelled context, whatever becomes of the transaction (an RPC error counts
\* as "not yet included").
Wait(r) ==
    \/ sent[r] \in paid /\ Pass(r, "wait", "commit")
    \/ Pass(r, "wait", "release")

\* Settle: the nonce is committed; Commit's error is ignored.
Commit(r) ==
    /\ Answer(r, "commit", "ok")
    /\ StoreCommit(Key(r))
    /\ UNCHANGED <<chainVars, payload, accSeq, sent, arrival, now, restarts>>

\* Faulty variant: the error return forgets the reservation.
ReleaseForgotten(r) ==
    /\ Answer(r, "release", "broadcast_failed")
    /\ UNCHANGED <<nonces, chainVars, payload, accSeq, sent, arrival, now, restarts>>

\* Settle: any error of BroadcastAuthzSend releases the nonce.
Release(r) ==
    /\ Answer(r, "release", "broadcast_failed")
    /\ StoreRelease(Key(r))
    /\ UNCHANGED <<chainVars, payload, accSeq, sent, arrival, now, restarts>>

-------------------------------------------------------------------------------

Step(r) ==
    \/ CheckFields(r)
    \/ CheckNonce(r)
    \/ CheckGrant(r)
    \/ CheckBalance(r)
    \/ Reserve(r)
    \/ QueryAccount(r)
    \/ Broadcast(r)
    \/ Wait(r)
    \/ Commit(r)
    \/ Release(r)

\* The collector's ticker fires at any time.  The second now lasts until now + 1:
\* an instant in it may be after a validBefore equal to now.
GC ==
    /\ \E instant \in {now, now + 1} : StoreGC(instant)
    /\ UNCHANGED <<chainVars, payload, pc, accSeq, sent, reply, arrival, now, restarts>>

Tick ==
    /\ now < MaxNow
    /\ now' = now + 1
    /\ UNCHANGED <<nonces, chainVars, payload, pc, accSeq, sent, reply, arrival, restarts>>

\* The process stops and main starts it again: the store is empty, the calls in
\* flight are cut off, what they sent stays sent.
Restart ==
    /\ restarts < MaxRestarts
    /\ restarts' = restarts + 1
    /\ StoreReset
    /\ pc' = [r \in Requests |-> IF pc[r] \in InFlight THEN "dead" ELSE pc[r]]
    /\ accSeq' = [r \in Requests |-> 0]
    /\ UNCHANGED <<chainVars, payload, sent, reply, arrival, now>>

Environment ==
    /\ ChainStep
    /\ UNCHANGED <<nonces, payload, pc, accSeq, sent, reply, arrival, now, restarts>>

Next ==
    \/ \E r \in Requests : Arrive(r) \/ Step(r)
    \/ GC
    \/ Tick
    \/ Restart
    \/ Environment

Spec == Init /\ [][Next]_vars

\* A goroutine that can take its next step is run, every call it waits for
\* returns (at the latest when the caller's context ends), and waitForTx has a
\* deadline.  Nothing is assumed of the chain, the collector or the clock.
FairSpec == Spec /\ \A r \in Requests : WF_vars(Step(r))

-------------------------------------------------------------------------------
(***************************************************************************)
(* What the facilitator promises.                                          *)
(***************************************************************************)

\* r is a request, of whoever makes it, with what the payer signed for this nonce.
Claims(r, k) == payload[r].genuine /\ Key(r) = k

\* None of what the payer signed with this nonce has expired.
Open(k) == \A r \in Requests : Claims(r, k) => now < Auth(r).validBefore

\* Nor does it end after the last second a reservation can have.
Representable(k) == \A r \in Requests : Claims(r, k) => Auth(r).validBefore <= UnixMax

Live(k) == Open(k) /\ Representable(k)

\* The payer signed one authorization with this nonce.
SignedOnce(k) == \A p, q \in Requests : Claims(p, k) /\ Claims(q, k) => Auth(p) = Auth(q)

Transfers(tx, a) == tx.from = a.from /\ tx.to = a.to /\ tx.coin = CoinFor(a)

\* A node accepted a transaction for r that did not fail on chain.
Pulled(r) == sent[r] # NoTx /\ sent[r] \notin failed

\* It was answered that the payment failed, and it may still happen.
InDoubt(r) == reply[r] = "broadcast_failed" /\ Pulled(r)

\* While a nonce is live, whoever calls and whatever maxTimeoutSeconds the callers
\* state, the request that reserved it (settle.go, Reserve) owns it alone until it
\* commits or releases it: neither the collector nor another request takes the
\* reservation away.
ReservationIsExclusive ==
    \A r \in Requests : Holds(r) /\ Live(Key(r)) =>
        /\ Pending(Key(r))
        /\ \A q \in Requests : Holds(q) /\ Key(q) = Key(r) => q = r

\* Every reservation has an owner that will end it: a request in flight for that
\* nonce, whose payer signed it.  No error path of Settle forgets its
\* reservation, no forged request ever blocks a payer's nonce.
NoOrphanReservation ==
    \A k \in Keys : Pending(k) =>
        \E r \in Requests : Holds(r) /\ Key(r) = k /\ payload[r].genuine

\* Replay protection: while a nonce is live, no two transactions that can pay are
\* ever accepted for it in one run of the process, be it the first or one that
\* followed a restart, whatever the retries and races, and whoever calls beside
\* the gate, unless "broadcast_failed" was answered about one of them.
AtMostOnePull ==
    \A p, q \in Requests :
        Pulled(p) /\ Pulled(q) /\ Key(p) = Key(q) /\ Run(p) = Run(q) /\ Live(Key(p))
        => p = q \/ InDoubt(p) \/ InDoubt(q)

\* Settle writes "success" only for a transaction that the chain executed and
\* that transfers what this request's authorization says.
SuccessIsBacked ==
    \A r \in Requests : reply[r] = "ok" =>
        sent[r] \in paid /\ Transfers(sent[r], Auth(r))

\* Every payment the chain executed, in whatever denom, was asked for by a request
\* that carries a genuine authorization of exactly that transfer and agrees with
\* its requirements: neither requests in parallel nor evicted transactions that
\* come back mix up who pays what.
AuthorizedPullsOnly ==
    \A tx \in paid :
        \E r \in Requests : /\ sent[r] = tx /\ Transfers(tx, Auth(r))
                            /\ payload[r].genuine /\ payload[r].matches

\* One payment is the receipt of one settlement, as long as no mempool forgot
\* the transaction: two requests of equal content that read the same account
\* sequence build the same transaction, and CheckTx turns the second away.
ReceiptIsUnique ==
    \A p, q \in Requests :
        reply[p] = "ok" /\ reply[q] = "ok" /\ sent[p] = sent[q] => p = q \/ sent[p] \in evicted

\* Commit's ignored error loses nothing that matters while the nonce can still
\* be used: as long as it is live, a settlement answered with success is recorded in
\* the run of the process that settled it.
SuccessIsRecordedWhileOpen ==
    \A r \in Requests :
        reply[r] = "ok" /\ Run(r) = restarts /\ Live(Key(r)) => Committed(Key(r))

\* A request that arrives after its authorization was settled with success by the
\* same run of the process reserves and sends nothing, however late it is: before
\* expiry the nonce is committed, from then on the window rejects it, whatever
\* maxTimeoutSeconds this request states.
NoReplayAfterSuccess ==
    \A r \in Requests :
        Late(r) /\ SignedOnce(Key(r)) /\ Representable(Key(r)) => ~ Holds(r) /\ sent[r] = NoTx

\* A consumed nonce stays consumed in a run of the process: no Release of a
\* request that lost its reservation, and no collection, brings it back.
CommittedIsFinal ==
    [][\A k \in Keys : Committed(k) => Committed(k)' \/ restarts' # restarts]_vars

\* Every call of POST /settle is answered, unless the process goes down: whatever
\* the chain does with the transaction, no path waits for ever.
EveryRequestAnswered ==
    \A r \in Requests : pc[r] = "fields" ~> pc[r] \in {"done", "dead"}

\* No nonce stays reserved: without any help of the collector or of the chain, a
\* reservation is consumed or freed for a retry.
ReservationsEnd == \A k \in Keys : Pending(k) ~> ~ Pending(k)

-------------------------------------------------------------------------------
(***************************************************************************)
(* What documents and comments say of the facilitator, and it does not do. *)
(***************************************************************************)

\* specs/scheme_exact_cosmos_authz.md:202: the off-chain layer prevents the
\* facilitator from double-settling the same authorization.  Here without
\* restarts: a timed-out wait releases the nonce of a transaction that is
\* included afterwards, and the retry pays again.
NoDoubleSettlement ==
    restarts = 0 =>
        \A p, q \in Requests :
            Auth(p) = Auth(q) /\ sent[p] \in paid /\ sent[q] \in paid => sent[p] = sent[q]

\* specs/scheme_exact_cosmos_authz.md:185: on success the nonce is marked
\* consumed.  The collector takes the reservation of a settlement that is still
\* waiting for its block, and Commit finds nothing to promote.
SuccessIsRecorded ==
    restarts = 0 => \A r \in Requests : reply[r] = "ok" => Committed(Key(r))

\* specs/scheme_exact_cosmos_authz.md:116: a payment is invalid at or after
\* validBefore.  The window is checked once, before the broadcast and the wait.
PaidWithinWindow ==
    [][\A r \in Requests : sent[r] \in paid' \ paid => now < Auth(r).validBefore]_vars

\* store.go:100: the collector removes expired reservations.  A validBefore
\* that int64 or time.Time cannot hold has always expired.
ReservationOutlivesWindow ==
    \A r \in Requests : Holds(r) /\ Open(Key(r)) => Pending(Key(r))
===============================================================================
