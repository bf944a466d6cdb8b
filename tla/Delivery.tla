------------------------------ MODULE Delivery ------------------------------
(***************************************************************************)
(* What a provider chain promises the caller: the output of one attempt at *)
(* one provider, in one piece, or an error and nothing.                    *)
(***************************************************************************)
EXTENDS Sequences

CONSTANT Messages   \* attempts, as the mark each message carries

VARIABLES out, result

Init == out = <<>> /\ result = "none"

Ask ==
    /\ result # "pending"
    /\ result' = "pending" /\ out' = <<>>

\* The caller may stop reading: "abandoned".
Answer ==
    /\ result = "pending"
    /\ result' \in {"ok", "abandoned"}
    /\ out' \in Seq(Messages)
    /\ \A i, j \in DOMAIN out' : out'[i] = out'[j]

Refuse ==
    /\ result = "pending"
    /\ result' \in {"error", "timeout"}
    /\ out' = <<>>

Spec == Init /\ [][Ask \/ Answer \/ Refuse]_<<out, result>>
=============================================================================
