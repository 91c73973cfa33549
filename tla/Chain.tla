--------------------------------- MODULE Chain ---------------------------------
(***************************************************************************)
(* The chain as facilitator/chain_noble.go uses it: the facilitator's      *)
(* account, one node's mempool, the transactions in blocks and the payers' *)
(* SendAuthorization grants.  External code, modelled from how NobleClient *)
(* calls it.                                                               *)
(*                                                                         *)
(* BroadcastAuthzSend signs deterministically, with a constant memo, gas   *)
(* and fee: the bytes of a transaction, and so its hash, are determined by *)
(* what it transfers and by the account sequence it was signed with.  A    *)
(* transaction is therefore the record of those values.                    *)
(***************************************************************************)
EXTENDS Authorizations

CONSTANTS Limits,    \* grants a payer may set: a limit per denom (0: not granted)
          MayEvict   \* may a mempool forget a transaction it accepted?

ASSUME LimitsAssumption   == Limits \subseteq [Denoms -> Nat]
ASSUME MayEvictAssumption == MayEvict \in BOOLEAN

VARIABLES sequence,  \* the facilitator account's committed sequence
          pool,      \* transactions in the mempool
          paid,      \* included, code 0
          failed,    \* included, code # 0
          evicted,   \* ever dropped from the mempool without being included
          limit      \* what is left of each payer's grant

chainVars == <<sequence, pool, paid, failed, evicted, limit>>

Txs == [from : Payers, to : Recipients, coin : Coins, seq : Nat]

ChainTypeOK ==
    /\ sequence \in Nat
    /\ pool \subseteq Txs
    /\ paid \subseteq Txs
    /\ failed \subseteq Txs
    /\ evicted \subseteq Txs
    /\ limit \in [Payers -> [Denoms -> Nat]]

ChainInit ==
    /\ sequence = 0
    /\ pool = {}
    /\ paid = {}
    /\ failed = {}
    /\ evicted = {}
    /\ limit \in [Payers -> Limits]

\* QuerySendAuthorization: the limit of the first grant in the payment's denom.
GrantLimit(p, denom) == limit[p][denom]

\* BroadcastTxSync answers after CheckTx.  The check state's sequence is the
\* committed one advanced by the account's transactions in the mempool, and the
\* signer always uses the committed one: a second transaction while one is in
\* the mempool fails with a sequence mismatch, or is already in the cache.
CheckTxOK(tx) == tx.seq = sequence /\ pool = {} /\ tx.coin.amount > 0

Submit(tx) ==
    /\ CheckTxOK(tx)
    /\ pool' = {tx}
    /\ UNCHANGED <<sequence, paid, failed, evicted, limit>>

\* The transactions a proposer may still hold: those of this node's mempool, and
\* those it forgot but gossiped to other nodes.
Includable == {tx \in pool \cup evicted : tx.seq = sequence}

\* A block includes tx; recheck then drops every other transaction that was
\* signed with the same sequence.
Consume(tx) ==
    /\ tx \in Includable
    /\ sequence' = sequence + 1
    /\ pool' = {}
    /\ evicted' = evicted \cup (pool \ {tx})

\* Faulty variant: the grant's limit does not bound what is pulled.
IncludeUnlimited(tx) ==
    /\ Consume(tx)
    /\ limit' = [limit EXCEPT ![tx.from][tx.coin.denom] = @ - tx.coin.amount]
    /\ paid' = paid \cup {tx}
    /\ UNCHANGED failed

\* MsgExec(MsgSend) within the grant: SendAuthorization.Accept takes the coin off
\* the limit in its denom; a limit of 0 is a deleted grant.
IncludePaid(tx) ==
    /\ Consume(tx)
    /\ tx.coin.amount <= limit[tx.from][tx.coin.denom]
    /\ limit' = [limit EXCEPT ![tx.from][tx.coin.denom] = @ - tx.coin.amount]
    /\ paid' = paid \cup {tx}
    /\ UNCHANGED failed

\* Included with a non-zero code: no grant, limit or balance too small, grant
\* expired, out of gas.  Balances are not modelled: it may always happen.
IncludeFailed(tx) ==
    /\ Consume(tx)
    /\ failed' = failed \cup {tx}
    /\ UNCHANGED <<paid, limit>>

\* A mempool may drop a transaction: its time to live, a full mempool, a node
\* that restarts, a load balancer that changes node.
Evict(tx) ==
    /\ MayEvict
    /\ tx \in pool
    /\ pool' = pool \ {tx}
    /\ evicted' = evicted \cup {tx}
    /\ UNCHANGED <<sequence, paid, failed, limit>>

\* tools/grant: MsgGrant replaces the payer's grant, whatever denoms it has a limit
\* in.  A limit of 0 stands for the MsgRevoke of any wallet, and for an expired grant.
Regrant(p) ==
    /\ limit' \in {[limit EXCEPT ![p] = l] : l \in Limits}
    /\ UNCHANGED <<sequence, pool, paid, failed, evicted>>

ChainStep ==
    \/ \E tx \in pool \cup evicted : IncludePaid(tx) \/ IncludeFailed(tx) \/ Evict(tx)
    \/ \E p \in Payers : Regrant(p)
================================================================================
