# cosmos-pay: a verification of the payment facilitator

cosmos-pay implements the x402 scheme `exact_cosmos_authz`: a payer grants the
facilitator a `SendAuthorization` once, signs one ADR-036 authorization for each
payment, and the facilitator pulls the funds with `MsgExec(MsgSend)`. A resource
server sends the payment to the facilitator's `POST /settle` and serves the
resource on success. This directory models the facilitator and the resource
server's gate in TLA+, each alone and the two together, checks them with TLC on
small instances, and proves their safety properties with TLAPS for every instance.

## 1. Inventory

| Component | Source | State | Operations |
|---|---|---|---|
| Nonce store | `facilitator/store.go` | map from payer, chain and nonce to pending/committed and an expiry, under a mutex | Reserve, Commit, Release, Exists, GC |
| Settlement | `facilitator/settle.go` | none of its own; a goroutine's progress | Settle: verify, reserve, broadcast, commit or release |
| Verification | `facilitator/verify.go` | none; reads clock, store and chain | Verify, cmpAmounts |
| ADR-036 | `facilitator/adr036.go` | none | canonical JSON, sign bytes, verification |
| Chain client | `facilitator/chain_noble.go`, `chain.go` | connections and the signer's key | query grant, query balance, broadcast and wait |
| Process | `facilitator/cmd/main.go` | the store, created empty at each start | /settle, /verify, /supported; a GC goroutine every 30 s |
| Wire types | `facilitator/types.go` | none | the records and error codes |
| Middleware | `middleware/middleware.go` | none | answer 402, decode, call /settle once, serve |
| Grant tool | `tools/grant/main.go` | none | broadcast a MsgGrant and wait for it |
| Examples | `examples/client`, `examples/server` | none | the 402 round trip; windows, a fixed-nonce mode |
| Generators | `tools/keygen`, `tools/fixture` | none | print a key, print a signed request |

**Interaction.** Client → middleware → `POST /settle` → `Settler.Settle` →
`Verifier.Verify` (store `Exists`, chain queries) → store `Reserve` →
`BroadcastAuthzSend` (account query, sign, `BroadcastTxSync`, poll for inclusion) →
store `Commit` or `Release`. Every HTTP request is a goroutine; they share the
store, the facilitator's account on chain and the payers' grants. The collector's
goroutine shares the store. The chain runs on its own.

**What is hard.** Requests interleave at every call. The existence check and the
reservation are two critical sections. The clock is read before several slow
calls. The wait for inclusion ends by a deadline, a cancelled context or errors,
while the transaction lives on. The collector can take the reservation of a
request that is still at work, and reservations carry no owner. All transactions
use one account sequence. A restart forgets every nonce. The full list is
"hazards" in `PROJECT.json`, each at the line where it bites.

**What makes each part correct.** Store: a reservation has one owner until it
ends, a committed nonce stays committed. Settlement: one effective pull for a
nonce; success only for an executed payment of the right transfer; every
reservation ends; every call is answered. Verification: "valid" means that every
rule of the scheme held, an error code means that one it stands for did not, and
honest parties agree. ADR-036: what verifies is what the payer signed. Middleware:
served means paid for, once; every visitor is answered; of the failures, which all
look like a refusal to pay (the price again and `success:false`), the reason tells
which may have charged the visitor. Together: every service has a transfer of its own
behind it, of what that visitor's payer signed for that page, and no reason but the
two that leave it open is given for a visit whose transfer is executed.

## 2. Modules

| Module | What it models |
|---|---|
| `Amounts` | amounts as strings, by the form that tells their two readers apart: `cmpAmounts` and the coin of `ParseCoinNormalized` (`verify.go` 146-156, `chain_noble.go:214`) |
| `Authorizations` | the authorization, its key in the store, window and `time.Time` arithmetic (`types.go`, `settle.go:33`, `verify.go` step 7) |
| `NonceStore` | `MemoryNonceStore`, one operator per method |
| `Chain` | the account sequence, a mempool, blocks and grants, as `chain_noble.go` uses them (external code, except the grant query and the grant tool's effect) |
| `Settlement` | the composition: any number of `/settle` requests, the collector, clock, restarts and the chain; the properties |
| `SettlementContract` | the abstract specification: what settling promises |
| `SettlementRefinement` | the refinement mapping from `Settlement` |
| `Verification` | the stateless parts of `Verify`: the ADR-036 sign bytes, steps 1-6 (`verify.go`, `adr036.go`, `types.go`) |
| `Negotiation` | the requirements the middleware and the fixture tool state, and the payment a payer signs for them |
| `Verifier` | one call of `Verify` in a world that changes between its reads; all error codes; the scheme's rules as a reference |
| `PaidGate` | the middleware's handler for any number of visits, over `SettlementContract` |
| `CosmosPay` | the whole: the gate's actions beside those of `Settlement`, for some of the requests; the end-to-end properties |
| `SettlementInvariants` | the parts of the inductive invariants of `Settlement` |
| `SettlementProofs`, `RefinementProofs`, `VerifierProofs`, `PaidGateProofs`, `CosmosPayProofs` | theorems |
| `MCSettlement`, `MCVerifier`, `MCPaidGate`, `MCCosmosPay` | instances for TLC |

How they fit: `PaidGate` (server) is composed with `SettlementContract`, which
`Settlement` implements. `CosmosPay` puts `Settlement` in the contract's place and
is shown to implement `PaidGate`, so what is shown of the gate holds of the whole.
`Settlement` knows of a request only whether steps 1-6 hold
(`matches`) and whether the signature does (`genuine`); `Verification` says what
these two are (`Matches`, `VerifyADR036`), `PaidGate` uses them to say what a
payment must be for the contract to pull, `CosmosPay` computes the two Booleans from
them (`SettleRequest`), and `Verifier` shows what they are worth.

`Settlement`'s actions follow the code in order, one action from each call that
another actor could interleave with to the next:

| `pc` before | Action | Code |
|---|---|---|
| `idle` | `Arrive` | `settleHandler` |
| `fields` | `CheckFields` | `verify.go` steps 1-7, one clock reading |
| `nonce` | `CheckNonce` | steps 8-10: `Exists`, then the signature |
| `grant` | `CheckGrant` | step 11, may fail at any time |
| `balance` | `CheckBalance` | the balance, only its outcome |
| `reserve` | `Reserve` | `settle.go` 32-45 |
| `account` | `QueryAccount` | `queryAccountNumSeq` |
| `broadcast` | `Broadcast` | sign, `BroadcastTxSync`: accepted, accepted with the answer lost, or not accepted |
| `wait` | `Wait` | `waitForTx`: included with code 0, or any error |
| `commit` | `Commit` | `settle.go` 59-71, Commit's error ignored |
| `release` | `Release` | `settle.go` 49-56 |

`GC`, `Tick`, `Restart` and `Environment` are the other actors. `nonces` is the
store's map; `payload`, `pc`, `accSeq` and `reply` are a goroutine's inputs, local
state and response. `sent` records the transaction a node accepted for a request
even when the answer was lost; it is also the hash `waitForTx` polls for. `arrival`
records for each request which run of the process took it, and whether that run had
answered its authorization with success before: history, read by properties only.

`SettlementContract` says what is left of all this for a client: a request may start
one pull, pulls end, requests are answered. A nonce is *unsafe* when it is not `Live` (a
window that was signed for it is over, or ends later than `time.Time` can hold), or once
the process has restarted after a pull on it; on a safe nonce there is
one effective pull, not counting those the payer was told had failed. If a mempool
may forget (`MayShare`), several pulls may turn out to be one transfer: they end
together (`EndPulls`).

`Verifier` has one action per read of shared state: `CheckFields` (steps 1-7, the
clock), `CheckNonce` (step 8, the store), `CheckSignature` (9-10), `QueryGrant` (11,
the chain), `CheckExpiry` (the clock again), `CheckBalance`. `Environment` is
everything else: other settlements, the chain, the clock. `held` and `broken` record
which of the rules of `specs/scheme_exact_cosmos_authz.md` (156-172) held or failed
in some state of the call. Rule 11 is there twice: `named`, the grant to the
facilitator that the requirements name, which is what `Verify` looks up, and `grant`,
the one to the key that signs. `soonest` records when the first of the named grants
that the payer had during the call expires: `CheckExpiry` compares a grant that was read
earlier with a later reading of the clock, so its refusal is about one of those, not
always about the present one.

`PaidGate` has one action per path of `Paid`: `Quote` (no header), `TurnAway`
(`decodePayload` fails), `CallSettle`, then `PassOn` (the response arrived) or
`GiveUp` (`callSettle` failed for any reason, at any time). The settle call goes on
in the facilitator after `GiveUp`. A visit is one HTTP request that reaches the
server, so retries and duplicate deliveries are visits with equal headers. A response
says whether the inner handler answered, whether the price is in it (status 402 and
`PAYMENT-REQUIRED`: `writeRequired` and `writeFailure` alike), and what
`PAYMENT-RESPONSE` holds: nothing, success, or the reason of a failure.

In `CosmosPay`, `Visit` is a step of `PaidGate` and `Facilitate` one of `Settlement`.
They meet in two places: a visit's call can arrive (`Call`) once the gate has sent
it, even after the gate has given up, or never; and `PassOn` reads the reply. Requests
that are no visits are calls by others: `POST /settle` is open, and they may bring the
payment of a visit. Each caller states requirements of its own, a
`maxTimeoutSeconds` or none among them (`max` in a payload of `Settlement`).

Abstractions of `Settlement`: a signature is genuine or not, steps 1-6 are one
Boolean, the chain id is one, refusal codes are one reply; all but
the last are taken apart in `Verification`, the codes in `Verifier`. Amounts keep
their form and coins their denom, as the two readers of an amount disagree: what
`CheckGrant` compares need not be what `SignedTx` moves. The deadline of `waitForTx` is not a clock value: the wait may end
in an error at any time, which covers the 30 seconds, a cancelled context and
errors of the node, and is what every property must withstand. A transaction is
the record of what determines its bytes, because signing is deterministic and memo,
gas and fee are constant (`chain_noble.go` 236-245). A block includes the
transaction with the current sequence; execution may always fail, as balances and
grant expiry are not modelled. A failed transaction takes its sequence, as a failed
message does; one that fails before that is taken as never included. A mempool may
forget what it accepted if `MayEvict`, and a forgotten transaction may still be
included, since other nodes may hold it.

## 3. What the runs check

| Run | Instance | Shows |
|---|---|---|
| `Retries` | 3 requests, 1 nonce, windows [0,1) from callers with a maximum and [0,2) from callers without, clock to 2, 1 restart, eviction | exclusive reservations, at most one pull, no replay after success, commits final |
| `Payers` | 3 requests, 2 payers, 2 nonces, 5 payloads (one forged, one mismatched, one for later, one with an amount that spells another denom), grants 0 or 1, eviction, no restart | types, backing of successes, authorization of pulls, uniqueness of receipts |
| `Fair` | 2 requests, 1 nonce, 1 restart, eviction | every call answered, every reservation ended; `Settlement` implements `SettlementContract` |
| `Verify` | 32 requests (honest ones for 3 configurations and 3 windows, one from the fixture tool, one wrong in each field in turn, amounts of every form, far windows), 4 states of the grants, 2 of the balances, clock from 2 to 4 | verdicts and codes are truthful, only what was signed is valid, honest payments fit |
| `Gate` | 2 visits, 2 pages, 6 headers (none, garbled, two nonces, stolen, another scheme) | service, charges and the reasons of failures agree; every visit is answered |
| `System` | 2 visits to 2 pages with 2 nonces of equal content, each with its amount in digits or with letters behind it, clock to the end of their window (1), 1 restart, eviction | each service has its own transfer of what was signed for it; what a visitor is charged and the reason it reads agree; `CosmosPay` implements `PaidGate`. Callers of `/settle` beside the gate are not in the run; `CosmosPayProofs` covers any. |

Bounds. Three requests are the least that show a reservation lost to the
collector, taken by a second request and ended by the first while a third comes
in; two windows on one nonce are the least in which one reservation can be expired
and another not. The clock passes the end of both windows. One restart separates
two runs of the process; `Payers` has none, and that transfers are authorized over
restarts as well is the theorem `PullsAreAuthorized`. The safety runs use symmetry over requests, which are
interchangeable in `Init`, `Next` and the properties, and `System` over its two
nonces as well; the liveness runs do not.
`Word` is 8 and `UnixMax` is 4 instead of 2^64 and about 2^63, so that a window can
reach a time that does not fit. For `Verifier`, one call is enough because `Verify`
writes nothing; the clock passes the end of a window and of a grant during the
call; floats have three significant digits instead of 53, and three requests have
windows at or beyond their end. For `PaidGate`, two visits are the least for properties of pairs;
the theorems cover any number. `CosmosPay` has two requests where
`Settlement` alone has three: what a third request of the facilitator adds is checked
there and proved to carry over.

The collector compares instants, the model's clock counts seconds: second `now`
lasts until `now + 1`, and `GC` may run at its start or as if at its end, which
matters when `now` is exactly `validBefore`.

**Fairness.** Weak fairness of `Step(r)` for each request: a runnable goroutine is
run, a call it made returns (at the latest when the context of its HTTP request
ends, which the middleware's 30 second client sees to), and `waitForTx` has a
deadline. No fairness of the chain, the collector or the clock: that a reservation
ends needs none of them. A corollary is that the collector never finds an entry
whose owner is gone (`NoOrphanReservation`): all it can ever remove is the
reservation of a request in flight. For the gate, weak fairness of each visit's
own goroutine: `GiveUp` is always possible while a call is open, because the
default client has a timeout of 30 seconds (an injected `HTTPClient` without one
loses `EveryVisitAnswered`, as the property's mutant shows). Nothing is assumed of the
facilitator there.

### Where code and documents disagree

Each of these runs checks one statement of the repository and TLC refutes it:

- `DoubleSettlement`: the authorization is paid twice without a restart. The wait
  times out, `settle.go:50` releases the nonce, the transaction is included, the
  retry settles again. The specification says the off-chain layer prevents
  double-settling (line 202).
- `LostCommit`: success is answered and the nonce is not consumed (line 185 of the
  specification): the collector took the reservation during the wait.
- `LatePayment`: a payment is executed at or after `validBefore` (line 116).
- `WrappedExpiry`: the collector removes a reservation that has not expired
  (`store.go:100`). It takes a request without `maxTimeoutSeconds`, which the
  middleware always sets.
- `UnparsedAmount`: an amount that is no integer compares as equal to everything
  (`verify.go:152`), so it is answered valid whatever `maxAmountRequired`, the grant and
  the balance are. `BroadcastAuthzSend` parses it together with the denom: a fraction
  is cut off; `5x` before `uusdc` is 5 of the denom `xuusdc`. The comment says it is
  rejected elsewhere, the specification that the amount is at most
  `maxAmountRequired` (line 113). In the first case a payer pays more than was asked;
  in the second, if it has granted and holds the other denom, the resource server
  serves for a payment that is not in its asset. `ServedIsReceived` and
  `ChargesAreExplained` promise the asset for amounts in digits only.
- `OtherGrantee`: the grant is looked up for the address in the requirements, and
  the transaction is signed by the facilitator's own. The specification says a
  grant to a different address is rejected at verify (lines 73-75).

The properties of the passing runs are what holds in spite of these: they name the
conditions (`Live`, `InDoubt`, one and the same run of the process, `evicted`) under
which they are promised. `ValidMeansVerified` likewise is for amounts in digits, and
about the grant to the key that signs only if the requirements name it;
`OnlySignedIsValid` promises every field but the window without a condition, and the
window if the payer signed one that ends below 2^53.

Met on the way, and not made runs of their own:

- The sign bytes hold the window's two numbers as float64s (`adr036.go:53`), which
  above 2^53 are the same for several seconds: a window that was not signed
  verifies, though the specification says that the signature binds the payment to its
  window (lines 31-33). It takes a payer that signs such a window and a request
  without `maxTimeoutSeconds`; `OnlySignedIsValid` says that nothing else is lost.
- `cosmosPayload.from` is never compared with `authorization.from`, as its comment
  (`types.go:45`) says it must be; nothing reads it either.
- The amount has an upper bound only. A payer that signs less than the price is
  served: `SignedForThis` says "this price or less".
- The check for a window that is not positive (`verify.go:77`) is never reached: such
  a window is expired or not yet valid at any time.
- The fixture tool's `validity-seconds` is described as the total window, which is 5
  seconds longer; a value of 56 to 60 with the default maximum is refused.
  `HonestPaymentsFit` is stated for the real length.
- A visitor that is charged and not served reads what one that has not paid reads:
  402, the price again, `success:false` (`middleware.go` 123-131), which invites it to
  pay once more. Its only hint is the reason, `broadcast_failed` or
  `unexpected_settle_error` (`OpenReasons`), and the same two are given when nothing
  was sent. `ReasonTellsCharge` says that no other reason ever goes with a charge.
- A payment that somebody else brings to `/settle` first is refused to the visitor
  that presents it (`nonce_already_used`), though its payer was charged:
  `ChargesAreExplained` is about the transfers that a visit's own call caused.
- Nothing of an authorization but its transfer enters the transaction (the memo is
  constant, `chain_noble.go:245`), so two authorizations of equal content that read the
  same account sequence are signed into the same bytes. A node that has forgotten the
  first accepts the second, and both are answered with the one payment: hence
  `evicted` in `ReceiptIsUnique` and `ServicesAreSold`, and `MayShare` in the contract.
- A handler that fails after payment has no way to give it back.

## 4. What is proved

`SettlementProofs` and `RefinementProofs` prove, for any sets of requests, payers, nonces and payloads,
any word size, any number of restarts and any length of the clock, every safety
property of the runs `Retries` and `Payers`, and that `Settlement` implements
`SettlementContract`. No theorem needs more than the assumptions of the constants:

| Theorem | What it says of a nonce |
|---|---|
| `TypeCorrect`, `ReservationsAreOwned`, `CommitsAreFinal`, `SuccessesAreBacked`, `PullsAreAuthorized`, `ReceiptsAreUnique` | holds of every one |
| `ReservationsAreExclusive`, `SuccessesAreRecorded`, `PullsAreUnique` | holds while it is `Live` |
| `ReplaysAreBarred` | holds if it was signed once and is `Representable` |
| `SettlementImplementsContract` | one that is not `Live` is unsafe in the contract |

`Live` is `Open`, no window that was signed for the nonce has ended, and
`Representable`, none ends later than `UnixMax`: the expiry of its reservation is not
wrapped then. The condition is on the nonce, whoever calls: a caller that states no
`maxTimeoutSeconds` can spoil it only for a nonce whose payer signed such a window.
`WrappedExpiry` shows that it is needed.

The properties hold in every run of the process, not only in the first: they compare
requests that the same run took (`Run`), and say nothing of two pulls with a restart
between them, which the code does not prevent.

The argument. `ReservationIsExclusive` alone is not inductive. The collector could
remove the entry of an open nonce if that entry's expiry were an unrelated, earlier
time; `PendingIsOwned` says the entry was made by a request in flight for that
nonce, with that request's `validBefore`, and `Verified` that this is a time in
range, so an open nonce's entry is not expired. With exclusivity, a request that
commits finds its entry, so a success is recorded (`SuccessIsRecordedWhileOpen`).
`RunInv` ties requests to runs: whatever is in flight was taken by the present run,
and a restart ends all of it. A request of the present run with an effective pull is
then either holding the reservation, or answered with success and its nonce committed,
or in doubt (`EffectiveIsKnown`); two of the first two kinds exclude each other, and
when a third request broadcasts it holds the reservation itself: `OnePullStep`. The
requests of earlier runs send nothing any more, so what held between them stays.
`LateIsBarred` follows a late request from its arrival: either the nonce was
committed, or the window had closed. `SequenceInv` keeps apart, by the account's
sequence, the transactions in blocks from those to come; it gives the receipts'
uniqueness and, for the refinement, that an inclusion ends live pulls only: that of
one request, or those of several if a mempool forgot the transaction in between.

For the refinement each step is mapped: most change nothing the contract sees, or make
a nonce unsafe (`EndangerStep`), a broadcast starts a pull (`SubmitStep`, which needs
that a pull on a safe nonce is one of this run), an inclusion ends pulls
(`IncludeStep`), answers are answers (`ReplyStep`).

The steps are first sorted by what they do to reservations (`StepKinds`): most are
`Quiet`, and each invariant is then shown for the five kinds that are not.

`VerifierProofs` proves all four properties of the run `Verify` from the constants'
assumptions alone, for any requests, tables of grants and balances, and any
rounding that is exact below `Exact`. The invariant `Passed` lists what each check
leaves behind for the rest of the call. Its one subtle part is the grant: after
`QueryGrant`, *if the grant that was read has not run out by now*, the grant rules
held when it was read (`GrantHeld`), since the clock only advances; so reading the clock again
afterwards is enough, though grant and clock are never read together. For the codes,
each refusing step breaks a rule in the state in which it reads (`TruthfulAnswer`);
`CheckExpiry` alone refuses for a grant read before, and the invariant keeps
`soonest <= granted.expires` for it.
`PreimageIsInjective` needs one of two authorizations in the exact range only, as
rounding does not cross `Exact`: that is why the signed window alone decides.

`PaidGateProofs` proves the four safety properties of the run `Gate` for any number
of visits, any headers and configuration. `ContractInv` draws from the contract that
of two effective pulls on a safe nonce one is in doubt; `GateInv` says that only
calls pull, and that the gate either says what the facilitator said or that it does
not know; the properties are the two together (`OpenOrServed`). `AuthorizedIsSigned` leads from what
`Verify` compares to what the payer signed.

`CosmosPayProofs` proves the properties of the run `System`, from the constants'
assumptions, for any visits, headers and configuration, and any other callers with
any payments and any `maxTimeoutSeconds`: `SystemImplementsGate`,
`GateKeepsItsPromises`, `ServicesAreReceived`, `ServicesHaveTransfers`,
`ChargesAreAllExplained` and `NoncesAreSoldOnce`. The system's steps are steps of
`Settlement` or leave it alone (`SystemSettles`), so its theorems are at hand.
`JoinedInv` is where the two halves meet: the facilitator has the request that the
gate sent and only after it was sent, and the gate says what the facilitator said or
that it does not know. Every step of the facilitator is one of the contract
(`StepRefines`), and, as a pull or an answer belongs to a request that has arrived,
one that the gate allows, or one that concerns other callers and that the gate cannot
see (`FacilitateRefines`). `GateKeepsItsPromises` then carries the theorems of
`PaidGateProofs` over: that module is instantiated with the system's variables, its
assumptions are shown of the system's constants (`SameConstants`), and its gate is the
same (`SameSpec`). `AcceptedIsSigned` and the invariants of `Settlement` give the
three theorems about transfers directly.

Only model-checked: the liveness properties (fairness is out of the prover's
reach). The refutations are, by nature, TLC's.

## 5. Not modelled

- JSON, base64 and bech32 encoding, HTTP plumbing, log output, wording of messages;
  the cryptography (a signature remembers its key and what was signed).
- Building the codec, dialling and key derivation in `chain_noble.go`; a grant's
  allow list, which the chain enforces and `Verify` does not look at.
- The key generator, `/supported` and `/healthz`: they keep and read no state.
- The grant tool's own waiting and output; its effect is `Regrant`.
- The example client's exit paths and the demo server's handler.
- Several chain clients in one facilitator: `cmd/main.go` configures one.
- Errors of the nonce store: `MemoryNonceStore` has none but those modelled.

What could follow: the client's two requests as a process beside `PaidGate`, with a
quote that changes in between; `Verifier` shown to implement the verification steps
of `Settlement`; the grant tool racing settlements over an expiration; a persistent nonce store as an alternative to `StoreReset`.
