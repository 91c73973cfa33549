-------------------------- MODULE SettlementRefinement --------------------------
(***************************************************************************)
(* Settlement implements SettlementContract: the pull of a request is the  *)
(* transaction a node accepted for it.  Pulls may share a transaction that *)
(* a mempool forgot in between.                                            *)
(***************************************************************************)
EXTENDS Settlement

PullOf(r) ==
    IF sent[r] = NoTx THEN "none"
    ELSE IF sent[r] \in paid THEN "paid"
    ELSE IF sent[r] \in failed THEN "failed" ELSE "live"

\* A nonce is safe while it is live, from the first pull on it to the next restart
\* of the process.
Unsafe ==
    {k \in Keys : \/ ~ Live(k)
                  \/ \E r \in Requests : Key(r) = k /\ sent[r] # NoTx /\ Run(r) < restarts}

Contract == INSTANCE SettlementContract WITH
    key        <- [r \in Requests |-> Key(r)],
    authorized <- [r \in Requests |-> payload[r].genuine /\ payload[r].matches],
    pull       <- [r \in Requests |-> PullOf(r)],
    answer     <- reply,
    unsafe     <- Unsafe,
    MayShare   <- MayEvict

\* Every behaviour of verify, reserve, broadcast, wait, commit and release, with
\* the collector, the chain and restarts at any point (settle.go), is one the
\* contract allows.
ImplementsContract == Contract!Spec
=================================================================================
