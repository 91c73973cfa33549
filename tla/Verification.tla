------------------------------ MODULE Verification ------------------------------
(***************************************************************************)
(* What Verifier.Verify (facilitator/verify.go) decides from a request     *)
(* alone: the requirements against the signed authorization, and the       *)
(* ADR-036 signature (facilitator/adr036.go).  Nothing here has state.     *)
(*                                                                         *)
(* A network "cosmos:<chain-id>" is its chain id: the only network the     *)
(* verifier knows is the prefix followed by the client's chain id, so a    *)
(* network without the prefix is a network it does not know.  An address   *)
(* is the key it is derived from.                                          *)
(***************************************************************************)
EXTENDS Authorizations

CONSTANTS Schemes, Resources, ChainIds, Grantees,
          HomeChain,   \* the chain id of the one chain client
          Float64,     \* uint64 values after a float64 has held them
          Exact,       \* floats hold every integer below Exact (2^53 in the code)
          Malformed    \* a key or a signature of the wrong length or encoding

ASSUME HomeChainAssumption == HomeChain \in ChainIds
ASSUME Float64Assumption ==
    /\ Exact \in Nat /\ Float64 \in [UInt64 -> Nat]
    /\ \A v \in UInt64 : IF v < Exact THEN Float64[v] = v ELSE Float64[v] >= Exact

Scheme == "exact_cosmos_authz"

-------------------------------------------------------------------------------
\* types.go: the authorization with all of its fields.
FullAuthorization ==
    [from : Payers, to : Recipients, denom : Denoms, amount : Amounts, nonce : Nonces,
     validAfter : UInt64, validBefore : UInt64, resource : Resources, chainId : ChainIds]

\* A signature remembers its key and what its owner meant to sign.
Signatures == [by : Payers, over : FullAuthorization] \cup {Malformed}

ASSUME MalformedAssumption ==
    Malformed \notin Payers /\ Malformed \notin [by : Payers, over : FullAuthorization]

Payload == [scheme : Schemes, network : ChainIds, publicKey : Payers \cup {Malformed},
            signature : Signatures, auth : FullAuthorization]

Requirements ==
    [scheme : Schemes, network : ChainIds, maxAmount : Amounts, asset : Denoms,
     payTo : Recipients, resource : Resources, maxTimeout : Nat, facilitator : Grantees,
     chainId : ChainIds]

\* CanonicalAuthorizationJSON.  sdk.SortJSON decodes the authorization into Go
\* values and encodes them again: every field survives but the numbers, which are
\* float64 in between.
Canonical(a) == [a EXCEPT !.validAfter = Float64[@], !.validBefore = Float64[@]]

\* The sign doc; the rest of it is constant.
Preimage(a) == [data |-> Canonical(a), signer |-> a.from]

VerifySignature(pk, preimage, sig) == sig.by = pk /\ Preimage(sig.over) = preimage

\* Faulty variant: the key is not bound to the payer's address.
VerifyUnbound(pk, sig, a) ==
    pk # Malformed /\ sig # Malformed /\ VerifySignature(pk, Preimage(a), sig)

VerifyADR036(pk, sig, a) ==
    /\ pk # Malformed
    /\ sig # Malformed
    /\ VerifySignature(pk, Preimage(a), sig)
    /\ pk = a.from

\* Faulty variant: the resource is not compared.
MatchesAnyResource(pp, pr) ==
    /\ pp.scheme = Scheme /\ pr.scheme = Scheme
    /\ pp.network = pr.network /\ pp.network = HomeChain
    /\ pp.auth.to = pr.payTo
    /\ pp.auth.denom = pr.asset
    /\ CmpAmounts(pp.auth.amount, pr.maxAmount) <= 0
    /\ pp.auth.chainId = pp.network

\* Steps 1-6 of Verify; every failure has the code invalid_authorization.
Matches(pp, pr) ==
    /\ pp.scheme = Scheme /\ pr.scheme = Scheme
    /\ pp.network = pr.network /\ pp.network = HomeChain
    /\ pp.auth.to = pr.payTo
    /\ pp.auth.denom = pr.asset
    /\ CmpAmounts(pp.auth.amount, pr.maxAmount) <= 0
    /\ pp.auth.resource = pr.resource
    /\ pp.auth.chainId = pp.network
=================================================================================
