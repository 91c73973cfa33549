--------------------------- MODULE SettlementProofs ---------------------------
(***************************************************************************)
(* Theorems about Settlement, for every set of requests, payloads, payers  *)
(* and nonces, every word size, and any number of restarts and clock ticks.*)
(***************************************************************************)
EXTENDS SettlementInvariants, TLAPS

USE PayloadsAssumption, BoundsAssumption, NoTxAssumption,
    LimitsAssumption, MayEvictAssumption, WordAssumption, UnixMaxAssumption

-------------------------------------------------------------------------------
(***************************************************************************)
(* Types.                                                                  *)
(***************************************************************************)

\* What a request carries is a well-formed authorization of a known key.
LEMMA PayloadTypes ==
    ASSUME payload \in [Requests -> Payloads], NEW r \in Requests
    PROVE  /\ Auth(r) \in Authorization
           /\ Key(r) \in Keys
           /\ payload[r].genuine \in BOOLEAN
           /\ payload[r].matches \in BOOLEAN /\ payload[r].max \in Nat
           /\ UnixTime(Auth(r).validBefore) \in Int
           /\ Auth(r).validBefore \in Int /\ Auth(r).validAfter \in Int
  <1>1. payload[r] \in [auth : Authorization, genuine : BOOLEAN, matches : BOOLEAN, max : Nat]
    OBVIOUS
  <1>2. Auth(r) \in Authorization
    BY <1>1 DEF Auth
  <1> QED
    BY <1>1, <1>2 DEF Key, KeyOf, Keys, Authorization, UnixTime, UInt64

\* What an authorization makes move is a coin, however its amount is written.
LEMMA CoinTypes ==
    ASSUME NEW a \in Authorization
    PROVE  CoinFor(a) \in Coins
  <1>1. a.amount \in Amounts /\ a.denom \in Denoms
    BY DEF Authorization
  <1>2. a.amount.form = "lettered" => a.amount.spells \in Denoms
    BY <1>1 DEF Amounts
  <1>3. HasCoin(a.amount) => a.amount.value \in Nat
    BY <1>1 DEF Amounts, HasCoin
  <1> QED
    BY <1>1, <1>2, <1>3 DEF CoinFor, CoinOf, Coins

\* The operations of the nonce store keep its type.
LEMMA StoreTypes ==
    ASSUME StoreTypeOK
    PROVE  /\ \A k \in Keys, t \in Int : StoreReserve(k, t) => StoreTypeOK'
           /\ \A k \in Keys : StoreCommit(k) \/ StoreRelease(k) => StoreTypeOK'
           /\ \A t \in Int : StoreGC(t) => StoreTypeOK'
           /\ StoreReset => StoreTypeOK'
  BY DEF StoreTypeOK, StoreReserve, StoreCommit, StoreRelease, StoreGC, StoreReset,
         EmptyStore, Absent, Entries, Pending, Seen

\* So do the chain's, for a transaction of the right type.
LEMMA ChainTypes ==
    ASSUME ChainTypeOK
    PROVE  /\ \A tx \in Txs : Submit(tx) => ChainTypeOK'
           /\ ChainStep => ChainTypeOK'
  <1>1. ASSUME NEW tx \in Txs, Submit(tx) PROVE ChainTypeOK'
    BY <1>1 DEF Submit, ChainTypeOK
  <1>2. ASSUME NEW tx \in pool \cup evicted, IncludePaid(tx) PROVE ChainTypeOK'
    <2>1. tx \in Txs /\ tx.from \in Payers /\ tx.coin.denom \in Denoms
      BY <1>2 DEF ChainTypeOK, Txs, Coins
    <2>2. limit[tx.from][tx.coin.denom] - tx.coin.amount \in Nat
      BY <1>2, <2>1 DEF ChainTypeOK, IncludePaid, Txs, Coins
    <2>3. limit' \in [Payers -> [Denoms -> Nat]]
      BY <1>2, <2>1, <2>2 DEF ChainTypeOK, IncludePaid
    <2> QED BY <1>2, <2>1, <2>3 DEF IncludePaid, Consume, ChainTypeOK
  <1>3. ASSUME NEW tx \in pool \cup evicted, IncludeFailed(tx) PROVE ChainTypeOK'
    BY <1>3 DEF IncludeFailed, Consume, ChainTypeOK
  <1>4. ASSUME NEW tx \in pool \cup evicted, Evict(tx) PROVE ChainTypeOK'
    BY <1>4 DEF Evict, ChainTypeOK
  <1>5. ASSUME NEW p \in Payers, Regrant(p) PROVE ChainTypeOK'
    BY <1>5 DEF Regrant, ChainTypeOK
  <1> QED
    BY <1>1, <1>2, <1>3, <1>4, <1>5 DEF ChainStep

\* No step of the system breaks a type.
LEMMA TypeStep ==
    ASSUME TypeOK, [Next]_vars
    PROVE  TypeOK'
  <1> USE DEF TypeOK, Goto, Answer, Pass, Refuse, InFlight, Holding, Replies
  <1>u. UNCHANGED nonces => StoreTypeOK'
    BY DEF StoreTypeOK
  <1>c. UNCHANGED chainVars => ChainTypeOK'
    BY DEF chainVars, ChainTypeOK
  <1>1. ASSUME NEW r \in Requests, Arrive(r) PROVE TypeOK'
    <2>1. arrival' \in [Requests -> Arrivals]
      <3> DEFINE found == \E q \in Requests :
                            reply[q] = "ok" /\ Auth(q) = Auth(r) /\ Run(q) = restarts
      <3>1. [run |-> restarts, late |-> found] \in Arrivals
        BY DEF Arrivals
      <3>2. arrival' = [arrival EXCEPT ![r] = [run |-> restarts, late |-> found]]
        BY <1>1 DEF Arrive
      <3> HIDE DEF found
      <3> QED BY <3>1, <3>2
    <2> QED BY <1>1, <1>u, <1>c, <2>1 DEF Arrive
  <1>2. ASSUME NEW r \in Requests, CheckFields(r) PROVE TypeOK'
    BY <1>2, <1>u, <1>c DEF CheckFields
  <1>3. ASSUME NEW r \in Requests, CheckNonce(r) PROVE TypeOK'
    BY <1>3, <1>u, <1>c DEF CheckNonce
  <1>4. ASSUME NEW r \in Requests, CheckGrant(r) PROVE TypeOK'
    BY <1>4, <1>u, <1>c DEF CheckGrant
  <1>5. ASSUME NEW r \in Requests, CheckBalance(r) PROVE TypeOK'
    BY <1>5, <1>u, <1>c DEF CheckBalance
  <1>6. ASSUME NEW r \in Requests, Reserve(r) PROVE TypeOK'
    BY <1>6, <1>u, <1>c, StoreTypes, PayloadTypes DEF Reserve
  <1>7. ASSUME NEW r \in Requests, QueryAccount(r) PROVE TypeOK'
    <2>1. accSeq' \in [Requests -> Nat]
      BY <1>7 DEF QueryAccount, ChainTypeOK
    <2> QED BY <1>7, <1>u, <1>c, <2>1 DEF QueryAccount
  <1>8. ASSUME NEW r \in Requests, Broadcast(r) PROVE TypeOK'
    <2>1. SignedTx(r) \in Txs
      BY PayloadTypes, CoinTypes DEF SignedTx, Txs, Authorization
    <2>2. ChainTypeOK'
      BY <1>8, <1>c, <2>1, ChainTypes DEF Broadcast
    <2>3. sent' \in [Requests -> Txs \cup {NoTx}]
      BY <1>8, <2>1 DEF Broadcast
    <2>4. accSeq' \in [Requests -> Nat]
      BY <1>8 DEF Broadcast
    <2>5. pc' \in [Requests -> {"idle", "done", "dead"} \cup InFlight]
      BY <1>8 DEF Broadcast
    <2> QED BY <1>8, <1>u, <2>2, <2>3, <2>4, <2>5 DEF Broadcast
  <1>9. ASSUME NEW r \in Requests, Wait(r) PROVE TypeOK'
    BY <1>9, <1>u, <1>c DEF Wait
  <1>10. ASSUME NEW r \in Requests, Commit(r) PROVE TypeOK'
    <2>1. StoreTypeOK'
      BY <1>10, StoreTypes, PayloadTypes DEF Commit
    <2> QED BY <1>10, <1>c, <2>1 DEF Commit
  <1>11. ASSUME NEW r \in Requests, Release(r) PROVE TypeOK'
    <2>1. StoreTypeOK'
      BY <1>11, StoreTypes, PayloadTypes DEF Release
    <2> QED BY <1>11, <1>c, <2>1 DEF Release
  <1>12. ASSUME GC PROVE TypeOK'
    <2>1. PICK t \in {now, now + 1} : StoreGC(t)
      BY <1>12 DEF GC
    <2>2. t \in Int
      OBVIOUS
    <2>3. ChainTypeOK'
      BY <1>12, <1>c DEF GC
    <2> QED BY <1>12, <2>1, <2>2, <2>3, StoreTypes DEF GC
  <1>13. ASSUME Tick PROVE TypeOK'
    BY <1>13, <1>u, <1>c DEF Tick
  <1>14. ASSUME Restart PROVE TypeOK'
    BY <1>14, <1>c, StoreTypes DEF Restart
  <1>15. ASSUME Environment PROVE TypeOK'
    BY <1>15, <1>u, ChainTypes DEF Environment
  <1>16. ASSUME UNCHANGED vars PROVE TypeOK'
    BY <1>16, <1>u, <1>c DEF vars
  <1> QED
    BY <1>1, <1>2, <1>3, <1>4, <1>5, <1>6, <1>7, <1>8, <1>9, <1>10, <1>11, <1>12, <1>13,
       <1>14, <1>15, <1>16 DEF Next, Step

\* The system starts with values of the right types.
LEMMA TypeInit ==
    ASSUME Init
    PROVE  TypeOK
  <1>1. StoreTypeOK
    BY DEF Init, StoreInit, StoreTypeOK, EmptyStore, Absent, Entries
  <1>2. ChainTypeOK
    BY DEF Init, ChainInit, ChainTypeOK
  <1>3. 0 \in 0 .. MaxNow /\ 0 \in 0 .. MaxRestarts
    OBVIOUS
  <1> QED
    BY <1>1, <1>2, <1>3 DEF Init, TypeOK, Replies, Arrivals

\* Every variable always has its type; in particular no grant's limit and no
\* clock ever leaves its range.
THEOREM TypeCorrect == Spec => []TypeOK
  <1>1. Init => TypeOK
    BY TypeInit
  <1>2. TypeOK /\ [Next]_vars => TypeOK'
    BY TypeStep
  <1> QED
    BY <1>1, <1>2, PTL DEF Spec

-------------------------------------------------------------------------------
(***************************************************************************)
(* Reservations.                                                           *)
(***************************************************************************)

\* What a request carries never changes, and time and restarts only grow: a live
\* nonce was live before.
LEMMA Frame ==
    ASSUME TypeOK, [Next]_vars
    PROVE  /\ payload' = payload
           /\ \A r \in Requests : Auth(r)' = Auth(r) /\ Key(r)' = Key(r)
           /\ now <= now' /\ restarts <= restarts'
           /\ \A k \in Keys : Live(k)' => Live(k)
           /\ \A k \in Keys : SignedOnce(k)' => SignedOnce(k)
           /\ \A k \in Keys : Representable(k)' => Representable(k)
  <1>1. payload' = payload /\ now <= now' /\ restarts <= restarts'
    BY DEF TypeOK, Next, Step, Arrive, CheckFields, CheckNonce, CheckGrant, CheckBalance,
           Reserve, QueryAccount, Broadcast, Wait, Commit, Release, GC, Tick, Restart,
           Environment, Pass, Refuse, vars
  <1>2. \A r \in Requests : Auth(r)' = Auth(r) /\ Key(r)' = Key(r)
    BY <1>1 DEF Auth, Key
  <1>3. now \in Int /\ now' \in Int /\ \A r \in Requests : Auth(r).validBefore \in Int
    BY TypeStep, PayloadTypes DEF TypeOK
  <1>4. \A r \in Requests, k \in Keys : Claims(r, k)' <=> Claims(r, k)
    BY <1>1, <1>2 DEF Claims
  <1>5. \A k \in Keys : Open(k)' => Open(k)
    BY <1>1, <1>2, <1>3, <1>4 DEF Open
  <1>6. \A k \in Keys : Representable(k)' => Representable(k)
    BY <1>2, <1>4 DEF Representable
  <1>7. \A k \in Keys : SignedOnce(k)' => SignedOnce(k)
    BY <1>2, <1>4 DEF SignedOnce
  <1> QED
    BY <1>1, <1>2, <1>5, <1>6, <1>7 DEF Live

\* A step that leaves the store and the set of the requests holding a
\* reservation as they are, and answers nobody with success.
Quiet ==
    /\ nonces' = nonces /\ restarts' = restarts
    /\ \A r \in Requests : Holds(r)' = Holds(r)
    /\ \A r \in Requests : reply'[r] = "ok" => reply[r] = "ok"

\* A request enters Holding by taking its reservation, and leaves it by Commit
\* or Release.
Take(r) ==
    /\ pc[r] = "reserve" /\ pc' = [pc EXCEPT ![r] = "account"]
    /\ StoreReserve(Key(r), UnixTime(Auth(r).validBefore))
    /\ UNCHANGED <<reply, restarts>>

\* Every step is one of these, as far as reservations are concerned.
LEMMA StepKinds ==
    ASSUME TypeOK, [Next]_vars
    PROVE  \/ Quiet
           \/ \E r \in Requests : Take(r) \/ Commit(r) \/ Release(r)
           \/ GC
           \/ Restart
  <1> USE DEF TypeOK, Goto, Answer, Pass, Refuse, Quiet, Holds, Holding
  <1>1. ASSUME NEW r \in Requests, Arrive(r) PROVE Quiet
    BY <1>1 DEF Arrive
  <1>2. ASSUME NEW r \in Requests, CheckFields(r) PROVE Quiet
    BY <1>2 DEF CheckFields
  <1>3. ASSUME NEW r \in Requests, CheckNonce(r) PROVE Quiet
    BY <1>3 DEF CheckNonce
  <1>4. ASSUME NEW r \in Requests, CheckGrant(r) PROVE Quiet
    BY <1>4 DEF CheckGrant
  <1>5. ASSUME NEW r \in Requests, CheckBalance(r) PROVE Quiet
    BY <1>5 DEF CheckBalance
  <1>6. ASSUME NEW r \in Requests, Reserve(r) PROVE Quiet \/ Take(r)
    BY <1>6 DEF Reserve, Take
  <1>7. ASSUME NEW r \in Requests, QueryAccount(r) PROVE Quiet
    BY <1>7 DEF QueryAccount
  <1>8. ASSUME NEW r \in Requests, Broadcast(r) PROVE Quiet
    BY <1>8 DEF Broadcast
  <1>9. ASSUME NEW r \in Requests, Wait(r) PROVE Quiet
    BY <1>9 DEF Wait
  <1>10. ASSUME Tick PROVE Quiet
    BY <1>10 DEF Tick
  <1>11. ASSUME Environment PROVE Quiet
    BY <1>11 DEF Environment
  <1>12. ASSUME UNCHANGED vars PROVE Quiet
    BY <1>12 DEF vars
  <1> QED
    BY <1>1, <1>2, <1>3, <1>4, <1>5, <1>6, <1>7, <1>8, <1>9, <1>10, <1>11, <1>12 DEF Next, Step

\* What Verify established stays true of the request, which does not change.
LEMMA VerifiedStep ==
    ASSUME TypeOK, Verified, [Next]_vars
    PROVE  Verified'
  <1> USE DEF TypeOK, Goto, Answer, Pass, Refuse, Signature, Holding
  <1>t. payload' = payload
    BY Frame
  <1>1. ASSUME NEW r \in Requests, CheckFields(r) PROVE Verified'
    BY <1>1, <1>t DEF CheckFields, FieldsOK, Verified
  <1>2. ASSUME NEW r \in Requests, CheckNonce(r) PROVE Verified'
    BY <1>2, <1>t DEF CheckNonce, NonceOK, Verified
  <1>3. ASSUME NEW r \in Requests, CheckGrant(r) \/ CheckBalance(r) \/ Reserve(r) PROVE Verified'
    BY <1>3, <1>t DEF CheckGrant, CheckBalance, Reserve, Verified
  <1>4. ASSUME NEW r \in Requests, Arrive(r) \/ QueryAccount(r) \/ Broadcast(r) PROVE Verified'
    BY <1>4, <1>t DEF Arrive, QueryAccount, Broadcast, Verified
  <1>5. ASSUME NEW r \in Requests, Wait(r) \/ Commit(r) \/ Release(r) PROVE Verified'
    BY <1>5, <1>t DEF Wait, Commit, Release, Verified
  <1>6. ASSUME Restart PROVE Verified'
    BY <1>6, <1>t DEF Restart, Verified
  <1>7. ASSUME GC \/ Tick \/ Environment \/ UNCHANGED vars PROVE Verified'
    <2>1. pc' = pc
      BY <1>7 DEF GC, Tick, Environment, vars
    <2> QED BY <1>t, <2>1 DEF Verified
  <1> QED
    BY <1>1, <1>2, <1>3, <1>4, <1>5, <1>6, <1>7 DEF Next, Step

\* A pending entry keeps its maker: whoever ends the reservation of a nonce ends
\* the only entry there is.
LEMMA PendingIsOwnedStep ==
    ASSUME TypeOK, PendingIsOwned, [Next]_vars
    PROVE  PendingIsOwned'
  <1> USE DEF TypeOK, StoreTypeOK, Entries, Holds, Holding, Pending, Seen
  <1>t. \A r \in Requests : Auth(r)' = Auth(r) /\ Key(r)' = Key(r) /\ Key(r) \in Keys
    BY Frame, PayloadTypes
  <1>1. CASE Quiet
    BY <1>1, <1>t DEF Quiet, PendingIsOwned
  <1>2. ASSUME NEW r \in Requests, Take(r) PROVE PendingIsOwned'
    BY <1>2, <1>t DEF Take, StoreReserve, PendingIsOwned
  <1>3. ASSUME NEW r \in Requests, Commit(r) PROVE PendingIsOwned'
    BY <1>3, <1>t DEF Commit, Answer, Goto, StoreCommit, PendingIsOwned
  <1>4. ASSUME NEW r \in Requests, Release(r) PROVE PendingIsOwned'
    BY <1>4, <1>t DEF Release, Answer, Goto, StoreRelease, Absent, PendingIsOwned
  <1>5. CASE GC
    BY <1>5, <1>t DEF GC, StoreGC, Absent, PendingIsOwned
  <1>6. CASE Restart
    BY <1>6 DEF Restart, StoreReset, EmptyStore, Absent, PendingIsOwned
  <1> QED
    BY <1>1, <1>2, <1>3, <1>4, <1>5, <1>6, StepKinds

\* The entry of a live nonce is not yet expired for the collector: its owner is one
\* of those whose windows are open.
LEMMA LiveIsKept ==
    ASSUME TypeOK, Verified, PendingIsOwned, NEW k \in Keys, Pending(k), Live(k)
    PROVE  now + 1 <= nonces[k].validBefore
  <1>1. PICK r \in Requests : /\ Holds(r) /\ Key(r) = k
                              /\ nonces[k].validBefore = UnixTime(Auth(r).validBefore)
    BY DEF PendingIsOwned
  <1>2. Auth(r).validBefore \in Int /\ now \in Int /\ now <= MaxNow
    BY PayloadTypes DEF TypeOK
  <1>3. Claims(r, k)
    BY <1>1 DEF Claims, Verified, Holds, Signature
  <1>4. now < Auth(r).validBefore /\ Auth(r).validBefore <= UnixMax
    BY <1>3 DEF Live, Open, Representable
  <1> QED
    BY <1>1, <1>2, <1>4 DEF UnixTime

\* No step takes the reservation of a live nonce from its owner.
LEMMA ExclusiveStep ==
    ASSUME TypeOK, Verified, PendingIsOwned, ReservationIsExclusive, [Next]_vars
    PROVE  ReservationIsExclusive'
  <1> USE DEF TypeOK, StoreTypeOK, Entries, Holds, Holding, Pending, Seen
  <1>t. /\ \A r \in Requests : Auth(r)' = Auth(r) /\ Key(r)' = Key(r) /\ Key(r) \in Keys
        /\ \A k \in Keys : Live(k)' => Live(k)
    BY Frame, PayloadTypes
  <1>1. CASE Quiet
    BY <1>1, <1>t DEF Quiet, ReservationIsExclusive
  <1>2. ASSUME NEW r \in Requests, Take(r) PROVE ReservationIsExclusive'
    BY <1>2, <1>t DEF Take, StoreReserve, ReservationIsExclusive
  <1>3. ASSUME NEW r \in Requests, Commit(r) PROVE ReservationIsExclusive'
    BY <1>3, <1>t DEF Commit, Answer, Goto, StoreCommit, ReservationIsExclusive
  <1>4. ASSUME NEW r \in Requests, Release(r) PROVE ReservationIsExclusive'
    BY <1>4, <1>t DEF Release, Answer, Goto, StoreRelease, ReservationIsExclusive
  <1>5. CASE GC
    <2>1. \A k \in Keys : Pending(k) /\ Live(k) => Pending(k)'
      BY <1>5, LiveIsKept DEF GC, StoreGC
    <2> QED BY <1>5, <1>t, <2>1 DEF GC, ReservationIsExclusive
  <1>6. CASE Restart
    BY <1>6 DEF Restart, InFlight, ReservationIsExclusive
  <1> QED
    BY <1>1, <1>2, <1>3, <1>4, <1>5, <1>6, StepKinds

\* Nothing is reserved to begin with.
LEMMA ReservationInit ==
    ASSUME Init
    PROVE  TypeOK /\ Verified /\ PendingIsOwned /\ ReservationIsExclusive
  BY TypeInit DEF Init, StoreInit, EmptyStore, Absent, Verified, PendingIsOwned, Pending,
     ReservationIsExclusive, Holds, Holding, Signature

\* While a nonce is live, the request that reserved it owns it alone, whoever else
\* calls and whatever windows and maxima the calls state.
THEOREM ReservationsAreExclusive == Spec => []ReservationIsExclusive
  <1> DEFINE Inv == TypeOK /\ Verified /\ PendingIsOwned /\ ReservationIsExclusive
  <1>1. Init => Inv
    BY ReservationInit
  <1>2. Inv /\ [Next]_vars => Inv'
    BY TypeStep, VerifiedStep, PendingIsOwnedStep, ExclusiveStep
  <1>3. Inv => ReservationIsExclusive
    OBVIOUS
  <1> QED
    BY <1>1, <1>2, <1>3, PTL DEF Spec

\* Every reservation has a living owner with a genuine signature, whatever the
\* windows: only requests in flight keep a nonce from being used.
THEOREM ReservationsAreOwned == Spec => []NoOrphanReservation
  <1> DEFINE Inv == TypeOK /\ Verified /\ PendingIsOwned
  <1>1. Init => Inv
    BY ReservationInit
  <1>2. Inv /\ [Next]_vars => Inv'
    BY TypeStep, VerifiedStep, PendingIsOwnedStep
  <1>3. Inv => NoOrphanReservation
    BY DEF Verified, PendingIsOwned, NoOrphanReservation, Holds, Signature
  <1> QED
    BY <1>1, <1>2, <1>3, PTL DEF Spec

-------------------------------------------------------------------------------
(***************************************************************************)
(* Transactions.                                                           *)
(***************************************************************************)

\* What is signed is a transaction, of the authorization's transfer.
LEMMA SignedTxType ==
    ASSUME TypeOK, NEW r \in Requests
    PROVE  /\ SignedTx(r) \in Txs /\ SignedTx(r) # NoTx
           /\ Transfers(SignedTx(r), Auth(r))
           /\ SignedTx(r).seq = accSeq[r]
  <1>1. SignedTx(r) \in Txs
    BY PayloadTypes, CoinTypes DEF TypeOK, SignedTx, Txs, Authorization
  <1> QED
    BY <1>1 DEF SignedTx, Transfers

\* The chain only ever adds to what it has paid.
LEMMA PaidGrows ==
    ASSUME [Next]_vars
    PROVE  paid \subseteq paid' /\ failed \subseteq failed' /\ evicted \subseteq evicted'
  <1>1. CASE UNCHANGED chainVars
    BY <1>1 DEF chainVars
  <1>2. CASE ChainStep
    BY <1>2 DEF ChainStep, IncludePaid, IncludeFailed, Evict, Regrant, Consume
  <1>3. ASSUME NEW tx, Submit(tx) PROVE UNCHANGED <<paid, failed, evicted>>
    BY <1>3 DEF Submit
  <1> QED
    BY <1>1, <1>2, <1>3
    DEF Next, Step, Arrive, CheckFields, CheckNonce, CheckGrant, CheckBalance,
        Reserve, QueryAccount, Broadcast, Wait, Commit, Release, GC, Tick, Restart,
        Environment, Pass, Refuse, vars

\* Whatever a request does next, what was sent for it was verified and says what
\* it signed, and success is only written after inclusion with code 0.
LEMMA SentIsAuthorizedStep ==
    ASSUME TypeOK, Verified, SentIsAuthorized, [Next]_vars
    PROVE  SentIsAuthorized'
  <1> USE DEF TypeOK, Goto, Answer, Pass, Refuse
  <1>t. /\ payload' = payload /\ paid \subseteq paid' /\ restarts <= restarts'
        /\ restarts \in Int /\ restarts' \in Int
        /\ \A r \in Requests : Auth(r)' = Auth(r)
    BY Frame, PaidGrows, TypeStep
  <1>1. ASSUME NEW r \in Requests, Arrive(r) PROVE SentIsAuthorized'
    BY <1>1, <1>t DEF Arrive, SentIsAuthorized
  <1>2. ASSUME NEW r \in Requests, CheckFields(r) PROVE SentIsAuthorized'
    BY <1>2, <1>t DEF CheckFields, SentIsAuthorized
  <1>3. ASSUME NEW r \in Requests, CheckNonce(r) PROVE SentIsAuthorized'
    BY <1>3, <1>t DEF CheckNonce, SentIsAuthorized
  <1>4. ASSUME NEW r \in Requests, CheckGrant(r) \/ CheckBalance(r) PROVE SentIsAuthorized'
    BY <1>4, <1>t DEF CheckGrant, CheckBalance, SentIsAuthorized
  <1>5. ASSUME NEW r \in Requests, Reserve(r) PROVE SentIsAuthorized'
    BY <1>5, <1>t DEF Reserve, SentIsAuthorized
  <1>6. ASSUME NEW r \in Requests, QueryAccount(r) PROVE SentIsAuthorized'
    BY <1>6, <1>t DEF QueryAccount, SentIsAuthorized
  <1>7. ASSUME NEW r \in Requests, Broadcast(r) PROVE SentIsAuthorized'
    <2>1. payload[r].genuine /\ payload[r].matches
      BY <1>7 DEF Broadcast, Verified, Signature, Holding
    <2> QED BY <1>7, <1>t, <2>1, SignedTxType DEF Broadcast, SentIsAuthorized, Transfers
  <1>8. ASSUME NEW r \in Requests, Wait(r) PROVE SentIsAuthorized'
    BY <1>8, <1>t DEF Wait, SentIsAuthorized
  <1>9. ASSUME NEW r \in Requests, Commit(r) \/ Release(r) PROVE SentIsAuthorized'
    BY <1>9, <1>t DEF Commit, Release, SentIsAuthorized
  <1>10. ASSUME Restart PROVE SentIsAuthorized'
    BY <1>10, <1>t DEF Restart, InFlight, Holding, SentIsAuthorized
  <1>11. ASSUME GC \/ Tick \/ Environment \/ UNCHANGED vars PROVE SentIsAuthorized'
    <2>1. UNCHANGED <<pc, sent, reply>>
      BY <1>11 DEF GC, Tick, Environment, vars
    <2> QED BY <1>t, <2>1 DEF SentIsAuthorized, Transfers
  <1> QED
    BY <1>1, <1>2, <1>3, <1>4, <1>5, <1>6, <1>7, <1>8, <1>9, <1>10, <1>11 DEF Next, Step

\* A request keeps the run that took it, and what it found there.
LEMMA RunIsKept ==
    ASSUME TypeOK, [Next]_vars, NEW r \in Requests
    PROVE  \/ Arrive(r) /\ pc[r] = "idle" /\ pc'[r] = "fields" /\ Run(r)' = restarts
           \/ pc[r] = "idle" /\ pc'[r] = "idle" /\ arrival'[r] = arrival[r]
           \/ pc[r] # "idle" /\ pc'[r] # "idle" /\ arrival'[r] = arrival[r]
  <1> USE DEF TypeOK, Goto, Answer, Pass, Refuse
  <1>1. ASSUME NEW q \in Requests, Arrive(q)
        PROVE  \/ q = r /\ pc[r] = "idle" /\ pc'[r] = "fields" /\ Run(r)' = restarts
               \/ pc'[r] = pc[r] /\ arrival'[r] = arrival[r]
    BY <1>1 DEF Arrive, Run
  <1>2. ASSUME NEW q \in Requests, Step(q)
        PROVE  arrival'[r] = arrival[r] /\ (pc'[r] = pc[r] \/ (pc[r] # "idle" /\ pc'[r] # "idle"))
    <2>1. CASE CheckFields(q) \/ CheckNonce(q) \/ CheckGrant(q) \/ CheckBalance(q)
      BY <2>1 DEF CheckFields, CheckNonce, CheckGrant, CheckBalance
    <2>2. CASE Reserve(q) \/ QueryAccount(q) \/ Broadcast(q)
      BY <2>2 DEF Reserve, QueryAccount, Broadcast
    <2>3. CASE Wait(q) \/ Commit(q) \/ Release(q)
      BY <2>3 DEF Wait, Commit, Release
    <2> QED BY <1>2, <2>1, <2>2, <2>3 DEF Step
  <1>3. ASSUME GC \/ Tick \/ Environment \/ UNCHANGED vars
        PROVE  arrival'[r] = arrival[r] /\ pc'[r] = pc[r]
    BY <1>3 DEF GC, Tick, Environment, vars
  <1>4. ASSUME Restart
        PROVE  arrival'[r] = arrival[r] /\ (pc'[r] = pc[r] \/ (pc[r] # "idle" /\ pc'[r] # "idle"))
    BY <1>4 DEF Restart, InFlight, Holding
  <1> QED
    BY <1>1, <1>2, <1>3, <1>4 DEF Next

\* Requests in flight are those of the current run: a restart ends them all.
LEMMA RunStep ==
    ASSUME TypeOK, RunInv, [Next]_vars
    PROVE  RunInv'
  <1> USE DEF TypeOK
  <1> SUFFICES ASSUME NEW r \in Requests
               PROVE  (/\ Run(r) <= restarts
                       /\ pc[r] \in InFlight => Run(r) = restarts
                       /\ pc[r] = "dead" => Run(r) < restarts
                       /\ pc[r] = "idle" => ~ Late(r))'
    BY DEF RunInv
  <1>1. /\ restarts \in Int /\ restarts' \in Int /\ restarts <= restarts' /\ Run(r) \in Int
        /\ Run(r) <= restarts
        /\ pc[r] \in InFlight => Run(r) = restarts
        /\ pc[r] = "dead" => Run(r) < restarts
        /\ pc[r] = "idle" => ~ Late(r)
    BY Frame, TypeStep DEF RunInv, Arrivals, Run
  <1>2. CASE Restart
    <2>1. restarts' = restarts + 1 /\ arrival' = arrival
          /\ pc'[r] = IF pc[r] \in InFlight THEN "dead" ELSE pc[r]
      BY <1>2 DEF Restart
    <2> QED BY <1>1, <2>1 DEF Run, Late, InFlight, Holding
  <1>3. CASE ~ Restart
    <2>1. restarts' = restarts /\ (pc'[r] = "dead" => pc[r] = "dead")
          /\ (pc'[r] \in InFlight => pc[r] \in InFlight \/ Arrive(r))
      BY <1>3
      DEF Next, Step, Arrive, CheckFields, CheckNonce, CheckGrant, CheckBalance, Reserve,
          QueryAccount, Broadcast, Wait, Commit, Release, GC, Tick, Environment, vars,
          Goto, Answer, Pass, Refuse, InFlight, Holding
    <2>2. CASE Arrive(r) /\ pc'[r] = "fields" /\ Run(r)' = restarts
      BY <1>1, <2>1, <2>2
    <2>3. CASE arrival'[r] = arrival[r] /\ (pc'[r] = "idle" => pc[r] = "idle") /\ ~ Arrive(r)
      BY <1>1, <2>1, <2>3 DEF Run, Late
    <2>4. CASE arrival'[r] = arrival[r] /\ pc[r] # "idle"
      <3>1. ~ Arrive(r)
        BY <2>4 DEF Arrive, Goto
      <3> QED BY <1>1, <2>1, <2>4, <3>1, RunIsKept DEF Run, Late
    <2>5. CASE arrival'[r] = arrival[r] /\ pc'[r] = "idle"
      BY <1>1, <2>1, <2>5, RunIsKept DEF Run, Late, InFlight, Holding
    <2> QED BY <2>2, <2>4, <2>5, RunIsKept
  <1> QED BY <1>2, <1>3

\* The sequence separates what is in blocks from what may still be included, and
\* CheckTx lets a transaction in twice only after a mempool forgot it.
LEMMA SequenceStep ==
    ASSUME TypeOK, SentIsAuthorized, SequenceInv, [Next]_vars
    PROVE  SequenceInv'
  <1> USE DEF TypeOK, ChainTypeOK, Txs
  <1>1. CASE UNCHANGED <<chainVars, sent>>
    BY <1>1 DEF chainVars, SequenceInv
  <1>2. ASSUME NEW r \in Requests, Broadcast(r) PROVE SequenceInv'
    <2>1. CASE UNCHANGED <<chainVars, sent>>
      BY <1>1, <2>1
    <2>2. CASE Submit(SignedTx(r)) /\ sent' = [sent EXCEPT ![r] = SignedTx(r)]
      <3>1. SignedTx(r) \in Txs /\ SignedTx(r) # NoTx
        BY SignedTxType
      <3>2. sent[r] = NoTx
        BY <1>2 DEF Broadcast, Goto, SentIsAuthorized
      <3>3. /\ pool = {} /\ pool' = {SignedTx(r)} /\ SignedTx(r).seq = sequence
            /\ UNCHANGED <<sequence, paid, failed, evicted>>
        BY <2>2 DEF Submit, CheckTxOK
      <3>4. SignedTx(r) \notin pool \cup paid \cup failed
        BY <3>3 DEF SequenceInv
      <3>5. \A q \in Requests \ {r} : sent'[q] = sent[q]
        BY <2>2
      <3>6. sent'[r] = SignedTx(r)
        BY <2>2
      <3>7. \A tx \in pool' \cup paid' \cup failed' \cup evicted' :
                \E q \in Requests : sent'[q] = tx
        <4> TAKE tx \in pool' \cup paid' \cup failed' \cup evicted'
        <4>1. CASE tx = SignedTx(r)
          BY <4>1, <3>6
        <4>2. CASE tx # SignedTx(r)
          <5>1. PICK q \in Requests : sent[q] = tx
            BY <4>2, <3>3 DEF SequenceInv
          <5>2. tx # NoTx
            BY <4>2, <3>3
          <5> QED BY <5>1, <5>2, <3>2, <3>5
        <4> QED BY <4>1, <4>2
      <3>8. \A p, q \in Requests :
                sent'[p] # NoTx /\ sent'[p] = sent'[q] => p = q \/ sent'[p] \in evicted'
        BY <3>1, <3>3, <3>4, <3>5, <3>6 DEF SequenceInv
      <3> QED
        BY <3>3, <3>4, <3>5, <3>6, <3>7, <3>8 DEF SequenceInv
    <2> QED BY <1>2, <2>1, <2>2 DEF Broadcast
  <1>3. ASSUME ChainStep, sent' = sent PROVE SequenceInv'
    <2>1. ASSUME NEW tx \in pool \cup evicted, IncludePaid(tx) \/ IncludeFailed(tx)
          PROVE  SequenceInv'
      <3>1. /\ tx \in Txs /\ tx.seq = sequence /\ sequence' = sequence + 1 /\ pool' = {}
            /\ evicted' = evicted \cup (pool \ {tx})
            /\ paid' \cup failed' = paid \cup failed \cup {tx}
        BY <2>1 DEF IncludePaid, IncludeFailed, Consume, Includable
      <3>2. \A t \in paid' \cup failed' : t.seq < sequence'
        BY <3>1 DEF SequenceInv
      <3>3. pool' \cup paid' \cup failed' \cup evicted' = pool \cup paid \cup failed \cup evicted
        BY <3>1
      <3>4. paid' \cap failed' = {}
        <4>1. tx \notin paid \cup failed
          BY <3>1 DEF SequenceInv
        <4> QED BY <2>1, <4>1 DEF IncludePaid, IncludeFailed, SequenceInv
      <3> QED
        BY <1>3, <3>1, <3>2, <3>3, <3>4 DEF SequenceInv
    <2>2. ASSUME NEW tx \in pool \cup evicted, Evict(tx) PROVE SequenceInv'
      BY <1>3, <2>2 DEF Evict, SequenceInv
    <2>3. ASSUME NEW q \in Payers, Regrant(q) PROVE SequenceInv'
      BY <1>3, <2>3 DEF Regrant, SequenceInv
    <2> QED BY <1>3, <2>1, <2>2, <2>3 DEF ChainStep
  <1> QED
    BY <1>1, <1>2, <1>3
    DEF Next, Step, Arrive, CheckFields, CheckNonce, CheckGrant, CheckBalance,
        Reserve, QueryAccount, Wait, Commit, Release, GC, Tick, Restart,
        Environment, Pass, Refuse, vars

\* Nothing was sent to begin with.
LEMMA SettlementInit ==
    ASSUME Init
    PROVE  SentIsAuthorized /\ SequenceInv /\ RunInv /\ AtMostOnePull
           /\ SuccessIsRecordedWhileOpen /\ LateIsBarred
  BY DEF Init, ChainInit, SentIsAuthorized, SequenceInv, RunInv, Run, Late, InFlight, Holding,
     AtMostOnePull, Pulled, SuccessIsRecordedWhileOpen, LateIsBarred

\* What the chain pays, what was asked for, and what is answered agree.
LEMMA TransactionsInvariant ==
    Spec => [](TypeOK /\ Verified /\ SentIsAuthorized /\ SequenceInv)
  <1> DEFINE Inv == TypeOK /\ Verified /\ SentIsAuthorized /\ SequenceInv
  <1>1. Init => Inv
    BY ReservationInit, SettlementInit
  <1>2. Inv /\ [Next]_vars => Inv'
    BY TypeStep, VerifiedStep, SentIsAuthorizedStep, SequenceStep
  <1> QED
    BY <1>1, <1>2, PTL DEF Spec

\* Success is written only for an executed transaction of the request's own
\* transfer.
THEOREM SuccessesAreBacked == Spec => []SuccessIsBacked
  <1>1. TypeOK /\ SentIsAuthorized => SuccessIsBacked
    BY DEF TypeOK, ChainTypeOK, SentIsAuthorized, SuccessIsBacked
  <1> QED
    BY <1>1, TransactionsInvariant, PTL

\* Every payment was asked for with a genuine authorization of that transfer.
THEOREM PullsAreAuthorized == Spec => []AuthorizedPullsOnly
  <1>1. TypeOK /\ SentIsAuthorized /\ SequenceInv => AuthorizedPullsOnly
    <2> SUFFICES ASSUME TypeOK, SentIsAuthorized, SequenceInv, NEW tx \in paid
                 PROVE  \E r \in Requests : /\ sent[r] = tx /\ Transfers(tx, Auth(r))
                                            /\ payload[r].genuine /\ payload[r].matches
      BY DEF AuthorizedPullsOnly
    <2>1. PICK r \in Requests : sent[r] = tx
      BY DEF SequenceInv
    <2>2. tx # NoTx
      BY DEF TypeOK, ChainTypeOK
    <2> QED BY <2>1, <2>2 DEF SentIsAuthorized
  <1> QED
    BY <1>1, TransactionsInvariant, PTL

\* A payment is the receipt of one settlement unless a mempool forgot it.
THEOREM ReceiptsAreUnique == Spec => []ReceiptIsUnique
  <1>1. TypeOK /\ SentIsAuthorized /\ SequenceInv => ReceiptIsUnique
    BY DEF TypeOK, ChainTypeOK, SentIsAuthorized, SequenceInv, ReceiptIsUnique
  <1> QED
    BY <1>1, TransactionsInvariant, PTL

-------------------------------------------------------------------------------
(***************************************************************************)
(* Replay protection.                                                      *)
(***************************************************************************)

\* A committed nonce leaves the store with the process only.
LEMMA CommittedStays ==
    ASSUME TypeOK, [Next]_vars, NEW k \in Keys, Committed(k), restarts' = restarts
    PROVE  Committed(k)'
  <1> USE DEF TypeOK, StoreTypeOK, Entries, Committed, Pending, Seen
  <1>1. CASE Quiet
    BY <1>1 DEF Quiet
  <1>2. ASSUME NEW r \in Requests, Take(r) PROVE Committed(k)'
    BY <1>2, PayloadTypes DEF Take, StoreReserve
  <1>3. ASSUME NEW r \in Requests, Commit(r) PROVE Committed(k)'
    BY <1>3, PayloadTypes DEF Commit, StoreCommit
  <1>4. ASSUME NEW r \in Requests, Release(r) PROVE Committed(k)'
    BY <1>4, PayloadTypes DEF Release, StoreRelease
  <1>5. CASE GC
    BY <1>5 DEF GC, StoreGC
  <1>6. CASE Restart
    BY <1>6 DEF Restart
  <1> QED
    BY <1>1, <1>2, <1>3, <1>4, <1>5, <1>6, StepKinds

\* A consumed nonce stays consumed in a run of the process.
THEOREM CommitsAreFinal == Spec => CommittedIsFinal
  <1>1. TypeOK /\ [Next]_vars =>
            [\A k \in Keys : Committed(k) => Committed(k)' \/ restarts' # restarts]_vars
    BY CommittedStays
  <1> QED
    BY <1>1, TypeCorrect, PTL DEF Spec, CommittedIsFinal

\* An answer is given once.
LEMMA RepliesStay ==
    ASSUME TypeOK, SentIsAuthorized, [Next]_vars, NEW r \in Requests, reply[r] # "none"
    PROVE  reply'[r] = reply[r]
  <1>1. pc[r] = "done"
    BY DEF SentIsAuthorized
  <1> QED
    BY <1>1
    DEF TypeOK, Next, Step, Arrive, CheckFields, CheckNonce, CheckGrant, CheckBalance, Reserve,
        QueryAccount, Broadcast, Wait, Commit, Release, GC, Tick, Restart, Environment, vars,
        Goto, Answer, Pass, Refuse

\* A transaction is sent for one request at a time, and once.
LEMMA SentOnce ==
    ASSUME TypeOK, SentIsAuthorized, [Next]_vars, NEW r \in Requests, sent'[r] # sent[r]
    PROVE  /\ pc[r] = "broadcast" /\ sent[r] = NoTx
           /\ \A q \in Requests \ {r} : sent'[q] = sent[q]
           /\ UNCHANGED <<failed, reply, arrival, restarts>>
  <1>1. PICK q \in Requests : Broadcast(q) /\ sent' = [sent EXCEPT ![q] = SignedTx(q)]
                              /\ Submit(SignedTx(q))
    BY DEF Next, Step, Arrive, CheckFields, CheckNonce, CheckGrant, CheckBalance, Reserve,
           QueryAccount, Broadcast, Wait, Commit, Release, GC, Tick, Restart, Environment, vars,
           Pass, Refuse
  <1>2. q = r
    BY <1>1 DEF TypeOK
  <1> QED
    BY <1>1, <1>2 DEF TypeOK, Broadcast, Submit, Goto, SentIsAuthorized

\* Commit finds the reservation of a live nonce, and nobody takes it back.
LEMMA RecordedStep ==
    ASSUME TypeOK, ReservationIsExclusive, SentIsAuthorized, RunInv,
           SuccessIsRecordedWhileOpen, [Next]_vars
    PROVE  SuccessIsRecordedWhileOpen'
  <1> USE DEF TypeOK
  <1> SUFFICES ASSUME NEW r \in Requests, (reply[r] = "ok")', (Run(r) = restarts)', Live(Key(r))'
               PROVE  Committed(Key(r))'
    BY DEF SuccessIsRecordedWhileOpen
  <1>t. Key(r)' = Key(r) /\ Key(r) \in Keys /\ Live(Key(r))
    BY Frame, PayloadTypes
  <1>1. CASE reply[r] = "ok"
    <2>1. pc[r] = "done" /\ Run(r) <= restarts
      BY <1>1 DEF SentIsAuthorized, RunInv
    <2>2. Run(r)' = Run(r)
      BY <2>1, RunIsKept DEF Run
    <2>3. restarts \in Int /\ restarts' \in Int /\ restarts <= restarts'
      BY Frame, TypeStep
    <2>4. Run(r) \in Int
      BY DEF Arrivals, Run
    <2>5. Run(r) = restarts'
      BY <2>2
    <2>6. restarts' = restarts /\ Run(r) = restarts
      BY <2>1, <2>3, <2>4, <2>5
    <2> QED
      BY <1>1, <1>t, <2>6, CommittedStays DEF SuccessIsRecordedWhileOpen
  <1>2. CASE reply[r] # "ok"
    <2>1. Commit(r)
      BY <1>2, StepKinds DEF Quiet, Take, Commit, Release, Answer, GC, Restart
    <2>2. Pending(Key(r))
      BY <1>t, <2>1 DEF Commit, Answer, Goto, Holds, Holding, ReservationIsExclusive
    <2> QED
      BY <1>t, <2>1, <2>2 DEF Commit, StoreCommit, StoreTypeOK, Entries, Committed, Pending, Seen
  <1> QED
    BY <1>1, <1>2

\* In the run that took it, an effective pull whose failure nobody was told of
\* belongs to a request that holds the nonce or was answered with success.
LEMMA EffectiveIsKnown ==
    ASSUME TypeOK, SentIsAuthorized, RunInv, NEW r \in Requests,
           Run(r) = restarts, Pulled(r), ~ InDoubt(r)
    PROVE  Holds(r) \/ reply[r] = "ok"
  <1>1. restarts \in Int
    BY DEF TypeOK
  <1>2. pc[r] # "dead"
    BY <1>1 DEF RunInv
  <1> QED
    BY <1>2 DEF TypeOK, Replies, SentIsAuthorized, Pulled, InDoubt, Holds, Holding

\* A new pull is sent by the owner of the nonce, beside whom no other request of
\* this run can have an effective one.
LEMMA OnePullStep ==
    ASSUME TypeOK, ReservationIsExclusive, SentIsAuthorized, RunInv,
           SuccessIsRecordedWhileOpen, AtMostOnePull, [Next]_vars
    PROVE  AtMostOnePull'
  <1> SUFFICES ASSUME NEW p \in Requests, NEW q \in Requests, (Key(p) = Key(q))',
                      (Run(p) = Run(q))', Live(Key(p))', Pulled(p)', Pulled(q)',
                      ~ InDoubt(p)', ~ InDoubt(q)'
               PROVE  p = q
    BY DEF AtMostOnePull
  <1>t. Key(p) = Key(q) /\ Live(Key(p))
    BY Frame, PayloadTypes DEF TypeOK
  <1>1. ASSUME NEW r \in Requests, Pulled(r)', ~ InDoubt(r)', sent'[r] = sent[r]
        PROVE  Pulled(r) /\ ~ InDoubt(r) /\ Run(r)' = Run(r)
    <2>1. Pulled(r)
      BY <1>1, PaidGrows DEF Pulled
    <2>2. ~ InDoubt(r)
      BY <1>1, <2>1, RepliesStay DEF InDoubt
    <2>3. pc[r] # "idle"
      BY <2>1 DEF Pulled, SentIsAuthorized
    <2> QED BY <2>1, <2>2, <2>3, RunIsKept DEF Run
  <1>2. ASSUME NEW r \in Requests, NEW o \in Requests, Key(r) = Key(p), Key(o) = Key(p),
               (Run(r) = Run(o))', sent'[r] # sent[r], Pulled(o)', ~ InDoubt(o)'
        PROVE  r = o
    <2> SUFFICES ASSUME r # o PROVE FALSE
      OBVIOUS
    <2>1. pc[r] = "broadcast" /\ sent'[o] = sent[o] /\ arrival' = arrival
      BY <1>2, SentOnce
    <2>2. Holds(r) /\ Run(r) = restarts
      BY <2>1 DEF Holds, Holding, RunInv, InFlight
    <2>3. Pulled(o) /\ ~ InDoubt(o) /\ Run(o) = restarts
      BY <1>1, <1>2, <2>1, <2>2 DEF Run
    <2>4. Holds(o) \/ reply[o] = "ok"
      BY <2>3, EffectiveIsKnown
    <2> QED
      BY <1>t, <1>2, <2>2, <2>3, <2>4
      DEF ReservationIsExclusive, SuccessIsRecordedWhileOpen, Pending, Committed
  <1> QED
    BY <1>t, <1>1, <1>2 DEF AtMostOnePull

\* The invariant behind replay protection.
LEMMA ReplayInvariant ==
    Spec => [](/\ TypeOK /\ Verified /\ PendingIsOwned /\ ReservationIsExclusive
               /\ SentIsAuthorized /\ RunInv /\ AtMostOnePull /\ SuccessIsRecordedWhileOpen)
  <1> DEFINE Inv == /\ TypeOK /\ Verified /\ PendingIsOwned /\ ReservationIsExclusive
                    /\ SentIsAuthorized /\ RunInv /\ AtMostOnePull /\ SuccessIsRecordedWhileOpen
  <1>1. Init => Inv
    BY ReservationInit, SettlementInit
  <1>2. Inv /\ [Next]_vars => Inv'
    BY TypeStep, VerifiedStep, PendingIsOwnedStep, ExclusiveStep, SentIsAuthorizedStep,
       RunStep, OnePullStep, RecordedStep
  <1> QED
    BY <1>1, <1>2, PTL DEF Spec

\* As long as the nonce is live, a settlement answered with success is recorded as
\* a consumed nonce in the run of the process that settled it.
THEOREM SuccessesAreRecorded == Spec => []SuccessIsRecordedWhileOpen
  BY ReplayInvariant, PTL

\* In each run of the process, at most one transaction that can pay is ever accepted
\* for a live nonce, not counting those it was answered had failed.
THEOREM PullsAreUnique == Spec => []AtMostOnePull
  BY ReplayInvariant, PTL

\* A request that was not late is only made so by arriving.
LEMMA LateGrows ==
    ASSUME TypeOK, [Next]_vars, NEW r \in Requests, Late(r)', ~ Late(r)
    PROVE  /\ pc[r] = "idle" /\ pc'[r] = "fields" /\ sent' = sent /\ nonces' = nonces
           /\ now' = now
           /\ \E q \in Requests : reply[q] = "ok" /\ Auth(q) = Auth(r) /\ Run(q) = restarts
  <1>1. Arrive(r) /\ pc[r] = "idle" /\ pc'[r] = "fields"
    BY RunIsKept DEF Late
  <1> QED
    BY <1>1 DEF TypeOK, Arrive, Late

\* A late request is refused at the window or at the nonce, and both stay shut.
LEMMA LateStep ==
    ASSUME TypeOK, SentIsAuthorized, RunInv, SuccessIsRecordedWhileOpen,
           LateIsBarred, [Next]_vars
    PROVE  LateIsBarred'
  <1> USE DEF TypeOK
  <1> SUFFICES ASSUME NEW r \in Requests, Late(r)', SignedOnce(Key(r))', Representable(Key(r))'
               PROVE  (/\ ~ Holds(r) /\ sent[r] = NoTx
                       /\ \/ pc[r] \in {"done", "dead"}
                          \/ Committed(Key(r))
                          \/ Auth(r).validBefore <= now /\ pc[r] = "fields")'
    BY DEF LateIsBarred
  <1>t. /\ now <= now'
        /\ now \in Int /\ now' \in Int /\ Auth(r).validBefore \in Int
        /\ Key(r) \in Keys /\ SignedOnce(Key(r)) /\ Representable(Key(r))
        /\ \A q \in Requests : Key(q)' = Key(q) /\ Auth(q)' = Auth(q)
    BY Frame, TypeStep, PayloadTypes
  <1>1. CASE ~ Late(r)
    <2>1. PICK q \in Requests : reply[q] = "ok" /\ Auth(q) = Auth(r) /\ Run(q) = restarts
      BY <1>1, LateGrows
    <2>2. Key(q) = Key(r) /\ Claims(q, Key(r))
      <3>1. payload[q].genuine
        BY <2>1 DEF SentIsAuthorized, ChainTypeOK
      <3> QED BY <2>1, <3>1 DEF Key, Claims
    <2>3. CASE Open(Key(r))
      BY <1>t, <1>1, <2>1, <2>2, <2>3, LateGrows
      DEF Live, SuccessIsRecordedWhileOpen, Committed, Holds, Holding, SentIsAuthorized
    <2>4. CASE ~ Open(Key(r))
      <3>1. PICK s \in Requests : Claims(s, Key(r)) /\ ~ (now < Auth(s).validBefore)
        BY <2>4 DEF Open
      <3>2. Auth(s) = Auth(r)
        BY <1>t, <2>1, <2>2, <3>1 DEF SignedOnce
      <3>3. Auth(r).validBefore <= now
        BY <1>t, <3>1, <3>2
      <3> QED
        BY <1>t, <1>1, <3>3, LateGrows DEF Holds, Holding, SentIsAuthorized
    <2> QED BY <2>3, <2>4
  <1>2. CASE Late(r)
    <2>1. /\ ~ Holds(r) /\ sent[r] = NoTx /\ pc[r] # "idle"
          /\ \/ pc[r] \in {"done", "dead"}
             \/ Committed(Key(r))
             \/ Auth(r).validBefore <= now /\ pc[r] = "fields"
      BY <1>t, <1>2 DEF LateIsBarred, RunInv
    <2>2. /\ sent'[r] = NoTx
          /\ \/ pc'[r] = pc[r]
             \/ pc'[r] = "dead"
             \/ CheckFields(r) \/ CheckNonce(r) \/ CheckGrant(r) \/ CheckBalance(r) \/ Reserve(r)
      BY <2>1
      DEF Next, Step, Arrive, Goto, Answer, CheckFields, CheckNonce, CheckGrant, CheckBalance,
          Reserve, QueryAccount, Broadcast, Wait, Commit, Release, GC, Tick, Restart,
          Environment, Pass, Refuse, vars, Holds, Holding
    <2>3. CASE pc'[r] \in {"done", "dead"}
      BY <2>2, <2>3 DEF Holds, Holding
    <2>4. CASE pc[r] \in {"done", "dead"}
      <3>1. pc'[r] \in {"done", "dead"}
        BY <2>2, <2>4 DEF CheckFields, CheckNonce, CheckGrant, CheckBalance, Reserve,
                          Pass, Refuse, Answer, Goto
      <3> QED BY <2>3, <3>1
    <2>5. CASE Committed(Key(r)) /\ pc'[r] \notin {"done", "dead"}
      <3>1. Seen(Key(r))
        BY <2>5 DEF Committed, Seen
      <3>2. pc'[r] # "idle" /\ ~ Holds(r)'
        BY <2>1, <2>2, <2>5, <3>1
        DEF CheckFields, CheckNonce, NonceOK, CheckGrant, CheckBalance, Reserve, StoreReserve,
            Pass, Refuse, Answer, Goto, Holds, Holding
      <3>3. CASE restarts' = restarts
        BY <1>t, <2>2, <2>5, <3>2, <3>3, CommittedStays
      <3>4. CASE restarts' # restarts
        <4>1. Restart
          BY <3>4, StepKinds DEF Quiet, Take, Commit, Release, GC
        <4> QED BY <2>1, <2>5, <3>2, <4>1 DEF Restart, InFlight, Holds, Holding
      <3> QED BY <3>3, <3>4
    <2>6. CASE Auth(r).validBefore <= now /\ pc[r] = "fields"
      <3>1. pc'[r] \in {"fields", "done", "dead"}
        BY <1>t, <2>2, <2>6
        DEF CheckFields, FieldsOK, InWindow, CheckNonce, CheckGrant, CheckBalance, Reserve,
            Pass, Refuse, Answer, Goto
      <3> QED BY <1>t, <2>2, <2>6, <3>1 DEF Holds, Holding
    <2> QED BY <2>1, <2>3, <2>4, <2>5, <2>6
  <1> QED
    BY <1>1, <1>2

\* A request that arrives after a success with its authorization never reserves
\* or sends, whatever its delays and whatever maximum it states, if the payer signed
\* the nonce once and time.Time can hold the end of that window.
THEOREM ReplaysAreBarred == Spec => []NoReplayAfterSuccess
  <1> DEFINE Inv == /\ TypeOK /\ Verified /\ PendingIsOwned /\ ReservationIsExclusive
                    /\ SentIsAuthorized /\ RunInv /\ AtMostOnePull /\ SuccessIsRecordedWhileOpen
  <1>1. Init => LateIsBarred
    BY SettlementInit
  <1>2. Inv /\ LateIsBarred /\ [Next]_vars => LateIsBarred'
    BY LateStep
  <1>3. LateIsBarred => NoReplayAfterSuccess
    BY DEF LateIsBarred, NoReplayAfterSuccess
  <1>4. Spec => []Inv
    BY ReplayInvariant
  <1> QED
    BY <1>1, <1>2, <1>3, <1>4, PTL DEF Spec
===============================================================================
