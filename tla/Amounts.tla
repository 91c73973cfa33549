-------------------------------- MODULE Amounts --------------------------------
(***************************************************************************)
(* Amounts as the requests state them, in strings, and the coins the chain *)
(* moves.  Two readers take the strings apart, and they do not agree on    *)
(* all of them: cmpAmounts (facilitator/verify.go) with big.Int, and       *)
(* BroadcastAuthzSend (facilitator/chain_noble.go) with                    *)
(* sdk.ParseCoinNormalized, on the amount with the denom appended.         *)
(***************************************************************************)
EXTENDS Integers

CONSTANT Denoms

\* "digits", decimal; "decimal": digits with a fraction or in spaces, of which
\* value is the whole part; "signed": digits with a sign; "lettered": digits, maybe
\* with a fraction, and letters behind them, which with the authorization's denom
\* spell another denom; "other": anything else.
Amounts ==
    [form : {"digits", "decimal"}, value : Nat]
        \cup [form : {"signed"}, value : Int]
        \cup [form : {"lettered"}, value : Nat, spells : Denoms]
        \cup [form : {"other"}, value : {0}]

Digits(n) == [form |-> "digits", value |-> n]

\* What big.Int's SetString reads in base 10.
Parses(s) == s.form \in {"digits", "signed"}

\* An amount that does not parse equals every other.
CmpAmounts(s, t) ==
    IF ~ Parses(s) \/ ~ Parses(t) \/ s.value = t.value THEN 0
    ELSE IF s.value < t.value THEN -1 ELSE 1

-------------------------------------------------------------------------------
Coins == [denom : Denoms, amount : Nat]

\* ParseCoinNormalized finds a number and a denom; a sign is an error.
HasCoin(s) == s.form \in {"digits", "decimal", "lettered"}

\* The coin of amount + denom: a fraction is cut off.
CoinOf(s, denom) ==
    [denom  |-> IF s.form = "lettered" THEN s.spells ELSE denom,
     amount |-> IF HasCoin(s) THEN s.value ELSE 0]
================================================================================
