------------------------------ MODULE NonceStore ------------------------------
(***************************************************************************)
(* The facilitator's in-memory nonce store (facilitator/store.go).         *)
(* Every method of MemoryNonceStore runs under one mutex, so each is one   *)
(* atomic operation on the map.  The map is a total function here: a key   *)
(* that is not in it has status "absent".  The chain id is the same in     *)
(* every key (Verify admits one chain id per client), and the transaction  *)
(* hash Commit stores is never read, so neither is kept.                   *)
(***************************************************************************)
EXTENDS Authorizations

VARIABLE nonces     \* MemoryNonceStore.m

Entries == [status : {"absent", "pending", "committed"}, validBefore : Int]

Absent == [status |-> "absent", validBefore |-> 0]

EmptyStore == [k \in Keys |-> Absent]

Seen(k)      == nonces[k].status # "absent"
Pending(k)   == nonces[k].status = "pending"
Committed(k) == nonces[k].status = "committed"

StoreTypeOK == nonces \in [Keys -> Entries]

StoreInit == nonces = EmptyStore

\* Faulty variant: the key is not looked up again under the lock.
ReserveBlindly(k, validBefore) ==
    nonces' = [nonces EXCEPT ![k] = [status |-> "pending", validBefore |-> validBefore]]

\* Reserve when the key is free; a key that is present is ErrNonceUsed.
StoreReserve(k, validBefore) ==
    /\ ~ Seen(k)
    /\ nonces' = [nonces EXCEPT ![k] = [status |-> "pending", validBefore |-> validBefore]]

\* Faulty variant: the committed mark is not set.
CommitUnmarked(k) == nonces' = nonces

\* Commit: an absent key is the error "commit without reserve", nothing changes.
StoreCommit(k) ==
    nonces' = IF Seen(k) THEN [nonces EXCEPT ![k].status = "committed"] ELSE nonces

\* Faulty variant: a committed nonce is released like any other.
ReleaseCommitted(k) == nonces' = [nonces EXCEPT ![k] = Absent]

\* Release: absent is a no-op, committed is an error, pending is deleted.  The
\* entry is found by its key alone: it need not be the one the caller reserved.
StoreRelease(k) ==
    nonces' = IF Pending(k) THEN [nonces EXCEPT ![k] = Absent] ELSE nonces

\* GC(now): every uncommitted entry whose validBefore now is after.
StoreGC(now) ==
    nonces' = [k \in Keys |-> IF Pending(k) /\ now > nonces[k].validBefore
                              THEN Absent ELSE nonces[k]]

\* NewMemoryNonceStore in a new process: nothing was persisted.
StoreReset == nonces' = EmptyStore
===============================================================================
