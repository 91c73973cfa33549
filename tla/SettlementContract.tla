--------------------------- MODULE SettlementContract ---------------------------
(***************************************************************************)
(* What settling payments promises to payers and resource servers, with    *)
(* nothing said of stores, mempools, clocks and crashes.  A request that   *)
(* the payer authorized may pull the funds once; a nonce is pulled on at   *)
(* most once while it is within its window, not counting pulls the payer   *)
(* was told had failed; success is answered only for a pull that was       *)
(* executed, a refusal only when nothing was pulled.  Pulls are transfers  *)
(* of their own, unless MayShare: then several may come to be one.         *)
(***************************************************************************)
CONSTANTS Requests,
          Keys,
          MayShare   \* may two pulls turn out to be one transfer?

VARIABLES key,         \* the nonce each request pays with
          authorized,  \* did the payer sign it, for what it is asked to pay?
          pull,        \* what became of each request's pull
          answer,      \* what each request was answered
          unsafe       \* nonces past their window, or pulled on before a restart

vars == <<key, authorized, pull, answer, unsafe>>

ContractTypeOK ==
    /\ key \in [Requests -> Keys]
    /\ authorized \in [Requests -> BOOLEAN]
    /\ pull \in [Requests -> {"none", "live", "paid", "failed"}]
    /\ answer \in [Requests -> {"none", "refused", "broadcast_failed", "ok"}]
    /\ unsafe \in SUBSET Keys

Init ==
    /\ key \in [Requests -> Keys]
    /\ authorized \in [Requests -> BOOLEAN]
    /\ pull = [r \in Requests |-> "none"]
    /\ answer = [r \in Requests |-> "none"]
    /\ unsafe \in SUBSET Keys

\* The pull has been executed, or may still be.
Effective(r) == pull[r] \in {"live", "paid"}

\* The payer was told that the payment failed, and it may yet happen.
InDoubt(r) == Effective(r) /\ answer[r] = "broadcast_failed"

StartPull(r) ==
    /\ authorized[r]
    /\ pull[r] = "none" /\ answer[r] = "none"
    /\ key[r] \notin unsafe =>
        \A q \in Requests : key[q] = key[r] /\ Effective(q) => InDoubt(q)
    /\ pull' = [pull EXCEPT ![r] = "live"]
    /\ UNCHANGED <<key, authorized, answer, unsafe>>

\* A transfer is executed or fails, and with it the pulls that share it.
EndPulls(S) ==
    /\ \A r \in S : pull[r] = "live"
    /\ MayShare \/ \A p, q \in S : p = q
    /\ \E end \in {"paid", "failed"} :
            pull' = [r \in Requests |-> IF r \in S THEN end ELSE pull[r]]
    /\ UNCHANGED <<key, authorized, answer, unsafe>>

Reply(r, code) ==
    /\ answer[r] = "none"
    /\ code = "ok" => pull[r] = "paid"
    /\ code = "refused" => pull[r] = "none"
    /\ answer' = [answer EXCEPT ![r] = code]
    /\ UNCHANGED <<key, authorized, pull, unsafe>>

Endanger ==
    /\ unsafe' \in SUBSET Keys
    /\ unsafe \subseteq unsafe'
    /\ UNCHANGED <<key, authorized, pull, answer>>

Next ==
    \/ \E r \in Requests :
        \/ StartPull(r)
        \/ \E code \in {"refused", "broadcast_failed", "ok"} : Reply(r, code)
    \/ \E S \in SUBSET Requests : EndPulls(S)
    \/ Endanger

Spec == Init /\ [][Next]_vars
=================================================================================
