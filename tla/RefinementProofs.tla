--------------------------- MODULE RefinementProofs ---------------------------
(***************************************************************************)
(* Settlement implements SettlementContract, for every value of the        *)
(* constants.                                                              *)
(***************************************************************************)
EXTENDS SettlementRefinement, SettlementProofs

USE NoTxAssumption

\* All that has been proved of the reachable states.
Inv ==
    /\ TypeOK /\ Verified /\ PendingIsOwned /\ ReservationIsExclusive
    /\ SentIsAuthorized /\ RunInv /\ SuccessIsRecordedWhileOpen /\ SequenceInv

\* The contract's key and authorized never change, and nonces only become unsafe.
LEMMA MappedFrame ==
    ASSUME Inv, [Next]_vars
    PROVE  /\ [r \in Requests |-> Key(r)]' = [r \in Requests |-> Key(r)]
           /\ [r \in Requests |-> payload[r].genuine /\ payload[r].matches]'
                  = [r \in Requests |-> payload[r].genuine /\ payload[r].matches]
           /\ Unsafe \subseteq Unsafe' /\ Unsafe' \in SUBSET Keys
  <1> USE DEF Inv
  <1>1. /\ payload' = payload /\ \A r \in Requests : Key(r)' = Key(r)
        /\ \A k \in Keys : ~ Live(k) => ~ Live(k)'
        /\ restarts \in Int /\ restarts' \in Int /\ restarts <= restarts'
    BY Frame, TypeStep DEF TypeOK
  <1>2. ASSUME NEW r \in Requests, sent[r] # NoTx, Run(r) < restarts
        PROVE  sent'[r] # NoTx /\ Run(r)' < restarts'
    <2>1. sent'[r] = sent[r] /\ pc[r] # "idle"
      BY <1>2, SentOnce DEF SentIsAuthorized
    <2>2. Run(r)' = Run(r) /\ Run(r) \in Int
      BY <2>1, RunIsKept DEF Run, TypeOK, Arrivals
    <2> QED BY <1>1, <1>2, <2>1, <2>2
  <1>3. Unsafe \subseteq Unsafe'
    <2> SUFFICES ASSUME NEW k \in Unsafe PROVE k \in Unsafe'
      OBVIOUS
    <2>1. CASE ~ Live(k)
      BY <1>1, <2>1 DEF Unsafe
    <2>2. CASE \E r \in Requests : Key(r) = k /\ sent[r] # NoTx /\ Run(r) < restarts
      BY <1>1, <1>2, <2>2 DEF Unsafe
    <2> QED BY <2>1, <2>2 DEF Unsafe
  <1> QED
    BY <1>1, <1>3 DEF Unsafe

\* It takes a new pull, the clock or a restart to make a nonce unsafe.
LEMMA SafeStays ==
    ASSUME Inv, [Next]_vars, UNCHANGED <<payload, arrival, now, restarts>>,
           \A r \in Requests : sent'[r] = sent[r] \/ Run(r) = restarts
    PROVE  Unsafe' = Unsafe
  <1>1. \A r \in Requests : Auth(r)' = Auth(r) /\ Key(r)' = Key(r) /\ Run(r)' = Run(r)
    BY DEF Auth, Key, Run
  <1>2. \A k \in Keys : Live(k)' = Live(k)
    BY <1>1 DEF Live, Open, Representable, Claims
  <1>3. restarts \in Int /\ \A r \in Requests : Run(r) < restarts => sent'[r] = sent[r]
    BY DEF Inv, TypeOK
  <1> QED
    BY <1>1, <1>2, <1>3 DEF Unsafe

\* A step that sends, includes and answers nothing at most ends a window.
LEMMA EndangerStep ==
    ASSUME Inv, [Next]_vars, UNCHANGED <<sent, paid, failed, reply>>
    PROVE  Contract!Endanger
  <1>1. [r \in Requests |-> PullOf(r)]' = [r \in Requests |-> PullOf(r)]
    BY DEF PullOf
  <1> QED
    BY <1>1, MappedFrame DEF Contract!Endanger

\* An answer is a reply of the contract: a refused request sent nothing, a
\* successful one was paid.
LEMMA ReplyStep ==
    ASSUME Inv, [Next]_vars, UNCHANGED <<sent, paid, failed, payload, arrival, now, restarts>>,
           NEW r \in Requests, NEW here, NEW code \in {"refused", "broadcast_failed", "ok"},
           Answer(r, here, code),
           here \in {"fields", "nonce", "grant", "balance", "reserve", "commit", "release"},
           code = "ok" => here = "commit",
           code = "refused" => here \notin {"commit", "release"}
    PROVE  Contract!Reply(r, code)
  <1>1. UNCHANGED <<[q \in Requests |-> Key(q)], [q \in Requests |-> payload[q].genuine /\ payload[q].matches],
                    [q \in Requests |-> PullOf(q)], Unsafe>>
    BY MappedFrame, SafeStays DEF PullOf
  <1>2. reply[r] = "none"
    BY DEF Inv, TypeOK, SentIsAuthorized, Answer, Goto
  <1>3. code = "ok" => PullOf(r) = "paid"
    BY DEF Inv, SentIsAuthorized, Answer, Goto, PullOf, TypeOK, ChainTypeOK
  <1>4. code = "refused" => PullOf(r) = "none"
    BY DEF Inv, SentIsAuthorized, Answer, Goto, PullOf
  <1> QED
    BY <1>1, <1>2, <1>3, <1>4 DEF Contract!Reply, Answer

\* A transaction accepted for r is a new live pull; that of another request of
\* a safe nonce is one its payer was told had failed.
LEMMA SubmitStep ==
    ASSUME Inv, [Next]_vars, NEW r \in Requests, Broadcast(r),
           Submit(SignedTx(r)), sent' = [sent EXCEPT ![r] = SignedTx(r)]
    PROVE  Contract!StartPull(r)
  <1> USE DEF Inv, TypeOK
  <1>1. /\ pc[r] = "broadcast" /\ sent[r] = NoTx /\ reply[r] = "none" /\ Run(r) = restarts
        /\ UNCHANGED <<paid, failed, payload, reply, arrival, now, restarts>>
    BY DEF Broadcast, Goto, Submit, SentIsAuthorized, RunInv, InFlight, Holding
  <1>2. SignedTx(r) \in Txs /\ SignedTx(r) # NoTx /\ SignedTx(r) \notin paid \cup failed
    BY SignedTxType DEF Submit, CheckTxOK, SequenceInv, ChainTypeOK, Txs
  <1>3. UNCHANGED <<[q \in Requests |-> Key(q)], [q \in Requests |-> payload[q].genuine /\ payload[q].matches],
                    Unsafe>>
    <2>1. \A q \in Requests : sent'[q] = sent[q] \/ Run(q) = restarts
      BY <1>1
    <2> HIDE DEF Inv, TypeOK
    <2> QED BY <1>1, <2>1, MappedFrame, SafeStays
  <1>4. PullOf(r) = "none" /\ PullOf(r)' = "live" /\ \A q \in Requests \ {r} : PullOf(q)' = PullOf(q)
    BY <1>1, <1>2 DEF PullOf
  <1>5. [q \in Requests |-> PullOf(q)]' = [[q \in Requests |-> PullOf(q)] EXCEPT ![r] = "live"]
    BY <1>4
  <1>6. ASSUME Key(r) \notin Unsafe, NEW q \in Requests, Key(q) = Key(r),
               PullOf(q) \in {"live", "paid"}
        PROVE  reply[q] = "broadcast_failed"
    <2>0. Live(Key(r))
      BY <1>6, PayloadTypes DEF Unsafe
    <2>1. Holds(r) /\ Pending(Key(r)) /\ (Holds(q) => q = r)
      BY <1>1, <1>6, <2>0 DEF Holds, Holding, ReservationIsExclusive
    <2>2. sent[q] # NoTx /\ q # r
      BY <1>4, <1>6 DEF PullOf
    <2>3. Run(q) = restarts
      <3>1. ~ (Run(q) < restarts) /\ Run(q) <= restarts
        BY <1>6, <2>2, PayloadTypes DEF Unsafe, RunInv
      <3>2. Run(q) \in Int /\ restarts \in Int
        BY BoundsAssumption DEF Run, Arrivals
      <3> QED BY <3>1, <3>2
    <2>4. pc[q] = "done" /\ reply[q] \in {"ok", "broadcast_failed"}
      BY <1>6, <2>1, <2>2, <2>3 DEF SentIsAuthorized, RunInv, Holds, Holding, Replies
    <2> QED
      BY <1>6, <2>0, <2>1, <2>3, <2>4 DEF SuccessIsRecordedWhileOpen, Pending, Committed
  <1>7. Key(r) \in Keys
    BY PayloadTypes
  <1>8. payload[r].genuine /\ payload[r].matches
    BY <1>1 DEF Verified, Signature, Holding
  <1>9. [q \in Requests |-> payload[q].genuine /\ payload[q].matches][r]
    BY <1>8, Zenon
  <1>10. ASSUME Key(r) \notin Unsafe, NEW q \in Requests, Key(q) = Key(r),
                PullOf(q) \in {"live", "paid"}
         PROVE  Contract!InDoubt(q)
    BY <1>6, <1>10 DEF Contract!Effective, Contract!InDoubt
  <1> HIDE DEF Inv, TypeOK
  <1> QED
    BY <1>1, <1>3, <1>4, <1>5, <1>9, <1>10
    DEF Contract!StartPull, Contract!Effective

\* A block that includes a transaction ends the pulls of the requests it was sent
\* for: one request, unless a mempool forgot it and it was sent again.
LEMMA IncludeStep ==
    ASSUME Inv, [Next]_vars, NEW tx \in pool \cup evicted,
           IncludePaid(tx) \/ IncludeFailed(tx),
           UNCHANGED <<sent, payload, reply, arrival, now, restarts>>
    PROVE  \E S \in SUBSET Requests : Contract!EndPulls(S)
  <1> USE DEF Inv, TypeOK, ChainTypeOK
  <1> DEFINE S == {r \in Requests : sent[r] = tx}
  <1>1. tx \in Txs /\ tx # NoTx /\ tx.seq = sequence /\ tx \notin paid \cup failed
    BY DEF IncludePaid, IncludeFailed, Consume, Includable, SequenceInv, Txs
  <1>2. MayEvict \/ \A p, q \in S : p = q
    BY <1>1 DEF SequenceInv
  <1>3. PICK end \in {"paid", "failed"} :
            /\ end = "paid" => paid' = paid \cup {tx} /\ failed' = failed
            /\ end = "failed" => paid' = paid /\ failed' = failed \cup {tx}
    BY DEF IncludePaid, IncludeFailed
  <1>4. \A r \in S : PullOf(r) = "live" /\ PullOf(r)' = end
    BY <1>1, <1>3 DEF PullOf
  <1>5. \A r \in Requests \ S : PullOf(r)' = PullOf(r)
    BY <1>3 DEF PullOf
  <1>6. [r \in Requests |-> PullOf(r)]'
            = [r \in Requests |-> IF r \in S THEN end ELSE [q \in Requests |-> PullOf(q)][r]]
    BY <1>4, <1>5
  <1>7. UNCHANGED <<[q \in Requests |-> Key(q)], [q \in Requests |-> payload[q].genuine /\ payload[q].matches],
                    Unsafe>>
    BY MappedFrame, SafeStays
  <1>8. \A r \in S : [q \in Requests |-> PullOf(q)][r] = "live"
    BY <1>4
  <1>9. Contract!EndPulls(S)
    <2> HIDE DEF S, Inv, TypeOK
    <2> QED BY <1>2, <1>6, <1>7, <1>8 DEF Contract!EndPulls
  <1> QED
    BY <1>9

\* The initial states are the contract's.
LEMMA InitRefines ==
    ASSUME Init
    PROVE  Contract!Init
  <1>1. TypeOK
    BY TypeInit
  <1>2. \A r \in Requests : Key(r) \in Keys /\ PullOf(r) = "none"
    BY <1>1, PayloadTypes DEF Init, TypeOK, PullOf
  <1>3. \A r \in Requests : (payload[r].genuine /\ payload[r].matches) \in BOOLEAN
    OBVIOUS
  <1> QED
    BY <1>1, <1>2, <1>3 DEF Init, Unsafe, Contract!Init

\* Every step is one of the contract's.
LEMMA StepRefines ==
    ASSUME Inv, [Next]_vars
    PROVE  Contract!Next
  <1> USE DEF Pass, Refuse
  <1>e. ASSUME UNCHANGED <<sent, paid, failed, reply>> PROVE Contract!Next
    BY <1>e, EndangerStep DEF Contract!Next
  <1>r. ASSUME NEW r \in Requests,
               NEW here \in {"fields", "nonce", "grant", "balance", "reserve"}, Refuse(r, here)
        PROVE  Contract!Next
    <2>1. Contract!Reply(r, "refused")
      BY <1>r, ReplyStep DEF chainVars
    <2> QED BY <2>1 DEF Contract!Next
  <1>1. ASSUME NEW r \in Requests, Arrive(r) PROVE Contract!Next
    BY <1>1, <1>e DEF Arrive, chainVars
  <1>2. ASSUME NEW r \in Requests, CheckFields(r) \/ CheckNonce(r) \/ CheckGrant(r)
                                    \/ CheckBalance(r) \/ Reserve(r)
        PROVE  Contract!Next
    <2>1. CASE \E here \in {"fields", "nonce", "grant", "balance", "reserve"} : Refuse(r, here)
      BY <2>1, <1>r
    <2>2. CASE UNCHANGED <<sent, chainVars, reply>>
      BY <2>2, <1>e DEF chainVars
    <2> QED
      BY <1>2, <2>1, <2>2 DEF CheckFields, CheckNonce, CheckGrant, CheckBalance, Reserve
  <1>3. ASSUME NEW r \in Requests, QueryAccount(r) \/ Wait(r) PROVE Contract!Next
    BY <1>3, <1>e DEF QueryAccount, Wait, chainVars
  <1>4. ASSUME NEW r \in Requests, Broadcast(r) PROVE Contract!Next
    <2>1. CASE UNCHANGED <<chainVars, sent>>
      BY <1>4, <2>1, <1>e DEF Broadcast, chainVars
    <2>2. CASE Submit(SignedTx(r)) /\ sent' = [sent EXCEPT ![r] = SignedTx(r)]
      BY <1>4, <2>2, SubmitStep DEF Contract!Next
    <2> QED BY <1>4, <2>1, <2>2 DEF Broadcast
  <1>5. ASSUME NEW r \in Requests, Commit(r) PROVE Contract!Next
    <2>1. Contract!Reply(r, "ok")
      BY <1>5, ReplyStep DEF Commit, chainVars
    <2> QED BY <2>1 DEF Contract!Next
  <1>6. ASSUME NEW r \in Requests, Release(r) PROVE Contract!Next
    <2>1. Contract!Reply(r, "broadcast_failed")
      BY <1>6, ReplyStep DEF Release, chainVars
    <2> QED BY <2>1 DEF Contract!Next
  <1>7. ASSUME GC \/ Tick \/ Restart \/ UNCHANGED vars PROVE Contract!Next
    BY <1>7, <1>e DEF GC, Tick, Restart, vars, chainVars
  <1>8. ASSUME Environment PROVE Contract!Next
    <2>1. ASSUME NEW tx \in pool \cup evicted, IncludePaid(tx) \/ IncludeFailed(tx)
          PROVE  Contract!Next
      BY <1>8, <2>1, IncludeStep DEF Environment, Contract!Next
    <2>2. ASSUME NEW tx \in pool \cup evicted, Evict(tx) PROVE Contract!Next
      BY <1>8, <2>2, <1>e DEF Environment, Evict
    <2>3. ASSUME NEW p \in Payers, Regrant(p) PROVE Contract!Next
      BY <1>8, <2>3, <1>e DEF Environment, Regrant
    <2> QED BY <1>8, <2>1, <2>2, <2>3 DEF Environment, ChainStep
  <1> QED
    BY <1>1, <1>2, <1>3, <1>4, <1>5, <1>6, <1>7, <1>8 DEF Next, Step

LEMMA ReachableInv == Spec => []Inv
  <1>1. /\ TypeOK /\ Verified /\ PendingIsOwned /\ ReservationIsExclusive
        /\ SentIsAuthorized /\ RunInv /\ AtMostOnePull /\ SuccessIsRecordedWhileOpen
        /\ SequenceInv
        => Inv
    BY DEF Inv
  <1> QED BY <1>1, ReplayInvariant, TransactionsInvariant, PTL

\* Settling payments keeps the contract: one effective pull per safe nonce, not
\* counting pulls the payer was told had failed, success only for executed pulls.
THEOREM SettlementImplementsContract == Spec => ImplementsContract
  <1>1. Init => Contract!Init
    BY InitRefines
  <1>2. Inv /\ [Next]_vars => [Contract!Next]_(Contract!vars)
    BY StepRefines
  <1> QED
    BY <1>1, <1>2, ReachableInv, PTL DEF Spec, ImplementsContract, Contract!Spec
===============================================================================
