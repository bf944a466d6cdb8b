-------------------------- MODULE ChainProperties --------------------------
(***************************************************************************)
(* What the provider chain and the breakers promise together.              *)
(***************************************************************************)
EXTENDS ProviderChain

Answers == INSTANCE Delivery WITH Messages <- Message

\* All or nothing (chain.py:166-201): whatever fails, times out or is given up
\* in between, the consumer gets the output of one attempt or none.
DeliverySpec == Answers!Spec

\* A provider whose last Threshold calls failed is left alone until Recovery
\* has passed since the last of them, by every role and in every retry
\* (circuit_breaker.py:77, chain.py:150).
FailingProviderRests ==
    st \in {"stream", "asleep"} /\ past[Provider].fails >= Threshold =>
        past[Provider].quiet >= Recovery

\* The chain falls back only past providers that rest, or that failed in each
\* of their attempts in this call.
FallbackIsLastResort ==
    st = "stream" =>
        \A i \in DOMAIN Chain : i < at.idx =>
            tries[i] = MaxRetries + 1 \/ (tries[i] = 0 /\ cb[Chain[i]].open)

\* An agent that has produced output has changed the project: no attempt is
\* made after it in the same call (chain.py:220-230).
OutputIsFinal ==
    [][buf # <<>> /\ st = "stream" => st' \in {"stream", "idle"} /\ tries' = tries]_vars

\* While messages are consumed, provider_kind names the provider they are from;
\* the normalizer is chosen by it (chain.py:134-144, 153; context.py:202).
KindMatchesMessages == \A i \in DOMAIN out : out[i].from = Chain[current[role]]

\* A call under a timeout ends, however the providers behave.
TimedCallEnds == (st # "idle" /\ role \in Timed) ~> st = "idle"

\* An open breaker lets calls through again.
BreakerRecovers == \A p \in Providers : cb[p].open ~> IsAvailable(cb[p])

(***************************************************************************)
(* What makes the safety properties inductive.                             *)
(***************************************************************************)

\* A breaker knows how its provider's calls went, and lets a call through for
\* as long as it lasts.
BreakersKnow ==
    /\ \A p \in Providers :
          /\ cb[p].open <=> cb[p].count >= Threshold
          /\ cb[p].count = past[p].fails /\ cb[p].age = past[p].quiet
    /\ st \in {"stream", "asleep"} => IsAvailable(cb[Provider])

\* Where the call is in the chain, and what it has tried.
TriesOK ==
    /\ st # "idle" =>
          \A i \in DOMAIN Chain :
              /\ i < at.idx => tries[i] = MaxRetries + 1 \/ (tries[i] = 0 /\ cb[Chain[i]].open)
              /\ i > at.idx => tries[i] = 0
    /\ st \in {"stream", "asleep"} => tries[at.idx] = at.try + 1 /\ current[role] = at.idx
    /\ st = "next" /\ at.idx \in DOMAIN Chain => tries[at.idx] = 0
    /\ st = "asleep" => at.try < MaxRetries

\* The buffer holds one attempt's output, and nothing is out before the end.
BufferOK ==
    /\ st = "idle" <=> result # "pending"
    /\ st # "idle" => out = <<>>
    /\ st # "stream" => buf = <<>>
    /\ \A i \in DOMAIN buf : buf[i] = [from |-> Provider, try |-> at.try]

ChainInv == TypeOK /\ BreakersKnow /\ TriesOK /\ BufferOK /\ KindMatchesMessages

(***************************************************************************)
(* A promise of a document that the code does not keep.                    *)
(***************************************************************************)

\* A provider whose breaker is open is probed with one call.
OneProbe ==
    st \in {"stream", "asleep"} /\ cb[Provider].open => at.try = 0
=============================================================================
