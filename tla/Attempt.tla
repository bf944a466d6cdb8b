------------------------------ MODULE Attempt ------------------------------
(***************************************************************************)
(* What a provider promises the chain about one attempt: the messages the  *)
(* agent has said, in their order, and an end that tells success from      *)
(* failure.  ProviderChain's Receive and its two ends of a stream take     *)
(* this for granted.                                                       *)
(*                                                                         *)
(* A line that is longer than the reader's limit ends what can be read.    *)
(***************************************************************************)
EXTENDS Naturals, Sequences

VARIABLES
    said,   \* the lines the agent has written: "event", "blank", "bad" or "long"
    out,    \* the positions in it that were handed over
    how     \* "open", "ok", "error" or "cancelled"

attemptvars == <<said, out, how>>

\* A line that may be handed over: nothing before it stopped the reading.
Readable(i) ==
    /\ i \in DOMAIN said /\ said[i] = "event"
    /\ \A k \in 1 .. i - 1 : said[k] \notin {"bad", "long"}

Reached == IF out = <<>> THEN 0 ELSE out[Len(out)]
IsNext(i) ==
    /\ Readable(i) /\ i > Reached
    /\ \A k \in Reached + 1 .. i - 1 : ~Readable(k)

Init == said = <<>> /\ out = <<>> /\ how = "open"

Say ==
    /\ how # "ok"
    /\ \E kind \in {"event", "blank", "bad", "long"} : said' = Append(said, kind)
    /\ UNCHANGED <<out, how>>

HandOver ==
    /\ how = "open"
    /\ \E i \in DOMAIN said : IsNext(i) /\ out' = Append(out, i)
    /\ UNCHANGED <<said, how>>

\* Success means that there is nothing left to hand over and nothing was bad.
Succeed ==
    /\ how = "open"
    /\ \A i \in DOMAIN said : ~IsNext(i)
    /\ \A i \in DOMAIN said :
          said[i] = "bad" => \E k \in 1 .. i - 1 : said[k] = "long"
    /\ how' = "ok"
    /\ UNCHANGED <<said, out>>

Fail ==
    /\ how = "open"
    /\ how' \in {"error", "cancelled"}
    /\ UNCHANGED <<said, out>>

Next == Say \/ HandOver \/ Succeed \/ Fail
Spec == Init /\ [][Next]_attemptvars
=============================================================================
