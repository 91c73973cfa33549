-------------------------- MODULE SettlementInvariants --------------------------
(***************************************************************************)
(* The facts that make Settlement's properties inductive, named one by one *)
(* so that they can be model-checked and proved about.                     *)
(***************************************************************************)
EXTENDS Settlement

Signature == {"grant", "balance", "reserve"} \cup Holding

\* What Verify has established of a request that is past the step.
Verified ==
    \A r \in Requests :
        /\ pc[r] \in {"nonce"} \cup Signature => payload[r].matches
        /\ pc[r] \in Signature => payload[r].genuine

\* The entry of a pending nonce is the one some request in flight made.
PendingIsOwned ==
    \A k \in Keys : Pending(k) =>
        \E r \in Requests :
            /\ Holds(r) /\ Key(r) = k
            /\ nonces[k].validBefore = UnixTime(Auth(r).validBefore)

\* A transaction was accepted for verified requests only, after Reserve, and
\* transfers what the authorization says; commit and success come after inclusion.
SentIsAuthorized ==
    \A r \in Requests :
        /\ sent[r] # NoTx =>
            /\ pc[r] \in {"wait", "commit", "release", "done", "dead"}
            /\ reply[r] # "refused"
            /\ payload[r].genuine /\ payload[r].matches
            /\ Transfers(sent[r], Auth(r))
        /\ pc[r] = "wait" => sent[r] # NoTx
        /\ pc[r] = "commit" \/ reply[r] = "ok" => sent[r] \in paid
        /\ pc[r] = "done" <=> reply[r] # "none"

\* A request is in flight in the run of the process that took it, and only a restart
\* ends it without an answer.
RunInv ==
    \A r \in Requests :
        /\ Run(r) <= restarts
        /\ pc[r] \in InFlight => Run(r) = restarts
        /\ pc[r] = "dead" => Run(r) < restarts
        /\ pc[r] = "idle" => ~ Late(r)

\* A request that came too late has met a committed nonce or a closed window, or
\* will.
LateIsBarred ==
    \A r \in Requests : Late(r) /\ SignedOnce(Key(r)) /\ Representable(Key(r)) =>
        /\ ~ Holds(r) /\ sent[r] = NoTx
        /\ \/ pc[r] \in {"done", "dead"}
           \/ Committed(Key(r))
           \/ Auth(r).validBefore <= now /\ pc[r] = "fields"

\* One transaction at a time is in the mempool.  The account's sequence tells the
\* transactions in blocks from those to come; every transaction the chain knows was
\* sent for some request.
SequenceInv ==
    /\ \A tx \in pool : tx.seq = sequence
    /\ \A tx, u \in pool : tx = u
    /\ ~ MayEvict => evicted = {}
    /\ \A tx \in paid \cup failed : tx.seq < sequence
    /\ paid \cap failed = {}
    /\ \A tx \in pool \cup paid \cup failed \cup evicted : \E r \in Requests : sent[r] = tx
    /\ \A r \in Requests : sent[r] # NoTx => sent[r] \in pool \cup paid \cup failed \cup evicted
    /\ \A p, q \in Requests : sent[p] # NoTx /\ sent[p] = sent[q] => p = q \/ sent[p] \in evicted

ReservationInv == Verified /\ PendingIsOwned /\ ReservationIsExclusive

SettlementInv == SentIsAuthorized /\ RunInv /\ AtMostOnePull /\ SuccessIsRecordedWhileOpen /\ LateIsBarred
=================================================================================
