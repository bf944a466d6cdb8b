--------------------------- MODULE ProviderChain ---------------------------
(***************************************************************************)
(* Calls of an agent through a provider chain (tero2/providers/chain.py):  *)
(* retries with growing waits, fallback to the next provider, and one      *)
(* circuit breaker per provider (tero2/circuit_breaker.py), shared by the  *)
(* chains of all roles.                                                    *)
(*                                                                         *)
(* The runner is one coroutine, so calls follow one another.  Only the     *)
(* builder's run under a timeout (RunnerContext.run_agent), and only it    *)
(* stops reading in the middle; the players that collect a whole answer    *)
(* have no timeout.                                                        *)
(*                                                                         *)
(* Time is counted in ticks, and only as far as anything compares it: the  *)
(* age of a failure up to Recovery, the failures up to Threshold.  Nothing *)
(* in tero2 calls CircuitBreaker.check, the only way to HALF_OPEN, so that *)
(* state and its trial flag do not occur.                                  *)
(***************************************************************************)
EXTENDS Integers, Sequences

CONSTANTS
    Providers,    \* display names, the keys of the breakers
    Roles,
    ChainOf,      \* role -> its provider and the fallbacks
    Timed,        \* roles whose calls run under a timeout
    Timeout,      \* timeout_s, in ticks
    MaxRetries,   \* rate_limit_max_retries
    BaseWait,     \* rate_limit_wait_s, in ticks
    MaxWait,      \* rate_limit_max_wait_s
    Threshold,    \* failure_threshold
    Recovery,     \* recovery_timeout_s
    MaxLen        \* bound: messages of one stream

ASSUME ChainAssumption == ChainOf \in [Roles -> Seq(Providers)]
ASSUME TimedAssumption == Timed \subseteq Roles
ASSUME LimitAssumption ==
    /\ Timeout \in Nat /\ MaxRetries \in Nat
    /\ BaseWait \in Nat /\ MaxWait \in Nat
    /\ Threshold \in Nat \ {0} /\ Recovery \in Nat /\ MaxLen \in Nat

VARIABLES
    cb,       \* provider -> its breaker
    st,       \* where the call is
    role,     \* whose call it is
    at,       \* position in the chain, from 1, and the attempt there
    buf,      \* msg_buffer
    out,      \* what the consumer of the last call got
    result,   \* how it ended
    current,  \* role -> _current_provider_index of its chain, from 1
    sleep,    \* ticks until the wait is over
    left,     \* ticks until the role's timeout
    tries,    \* ghost: attempts of this call at each position
    past      \* ghost: how the calls of each provider went

wait  == <<sleep, left>>
given == <<out, result>>
vars  == <<cb, st, role, at, buf, given, current, wait, tries, past>>

Upto(n, bound) == IF n < bound THEN n ELSE bound

(***************************************************************************)
(* The breaker.                                                            *)
(***************************************************************************)
Breaker == [open : BOOLEAN, count : 0 .. Threshold, age : 0 .. Recovery]
NewBreaker == [open |-> FALSE, count |-> 0, age |-> Recovery]

\* A mutant of IsAvailable: open for good.
MutantNeverAgain(b) == ~b.open

IsAvailable(b) == ~b.open \/ b.age >= Recovery

RecordSuccess(p) == cb' = [cb EXCEPT ![p].open = FALSE, ![p].count = 0]

\* A mutant of RecordFailure: a failed probe does not keep it open for longer.
MutantKeepsTime(p) ==
    cb' = [cb EXCEPT ![p] = [open  |-> @.count + 1 >= Threshold,
                             count |-> Upto(@.count + 1, Threshold),
                             age   |-> IF @.open THEN @.age ELSE 0]]

RecordFailure(p) ==
    cb' = [cb EXCEPT ![p] = [open  |-> @.count + 1 >= Threshold,
                             count |-> Upto(@.count + 1, Threshold),
                             age   |-> 0]]

(***************************************************************************)
(* A call.                                                                 *)
(***************************************************************************)
Chain == ChainOf[role]
Provider == Chain[at.idx]
Message == [from : Providers, try : 0 .. MaxRetries]
History == [fails : 0 .. Threshold, quiet : 0 .. Recovery]

TypeOK ==
    /\ cb \in [Providers -> Breaker]
    /\ st \in {"idle", "next", "stream", "asleep"}
    /\ role \in Roles
    /\ at \in [idx : Nat \ {0}, try : 0 .. MaxRetries]
    /\ st \in {"stream", "asleep"} => at.idx \in DOMAIN Chain
    /\ buf \in Seq(Message) /\ out \in Seq(Message)
    /\ result \in {"none", "pending", "ok", "abandoned", "error", "timeout"}
    /\ current \in [Roles -> Nat \ {0}]
    /\ sleep \in Nat /\ left \in 0 .. Timeout
    /\ tries \in [DOMAIN Chain -> Nat]
    /\ past \in [Providers -> History]

Init ==
    /\ cb = [p \in Providers |-> NewBreaker]
    /\ st = "idle" /\ role \in Roles
    /\ at = [idx |-> 1, try |-> 0]
    /\ buf = <<>> /\ out = <<>> /\ result = "none"
    /\ current = [r \in Roles |-> 1]
    /\ sleep = 0 /\ left = Timeout
    /\ tries = [i \in DOMAIN Chain |-> 0]
    /\ past = [p \in Providers |-> [fails |-> 0, quiet |-> Recovery]]

\* A role asks its chain, which may be a new one.
Start(r) ==
    /\ st = "idle"
    /\ st' = "next" /\ role' = r
    /\ at' = [idx |-> 1, try |-> 0]
    /\ buf' = <<>> /\ out' = <<>> /\ result' = "pending"
    /\ current' = current \/ current' = [current EXCEPT ![r] = 1]
    /\ sleep' = 0 /\ left' = Timeout
    /\ tries' = [i \in DOMAIN ChainOf[r] |-> 0]
    /\ UNCHANGED <<cb, past>>

\* An attempt begins with an empty buffer.
Attempt(i, n) ==
    /\ st' = "stream"
    /\ at' = [idx |-> i, try |-> n]
    /\ buf' = <<>>
    /\ tries' = [tries EXCEPT ![i] = @ + 1]

\* The next provider of the chain whose breaker lets a call through.
IsNext(i) ==
    /\ i \in DOMAIN Chain /\ i >= at.idx
    /\ IsAvailable(cb[Chain[i]])
    /\ \A j \in at.idx .. i - 1 : ~IsAvailable(cb[Chain[j]])

\* A mutant of TryNext: a fallback does not become the current provider.
MutantKeepsCurrent(i) ==
    /\ st = "next"
    /\ IsNext(i)
    /\ Attempt(i, 0)
    /\ UNCHANGED <<cb, role, given, current, wait, past>>

TryNext(i) ==
    /\ st = "next"
    /\ IsNext(i)
    /\ Attempt(i, 0)
    /\ current' = [current EXCEPT ![role] = i]
    /\ UNCHANGED <<cb, role, given, wait, past>>

\* The call is over, and its consumer has got `messages`.
Ends(how, messages) ==
    /\ st' = "idle" /\ result' = how /\ out' = messages
    /\ buf' = <<>>
    /\ UNCHANGED <<role, at, wait, tries>>

\* No provider is left: CircuitOpenError when none was asked, else
\* RateLimitError.
NoneLeft ==
    /\ st = "next"
    /\ \A i \in DOMAIN Chain : ~IsNext(i)
    /\ Ends("error", <<>>)
    /\ current' = IF at.idx = 1 THEN current ELSE [current EXCEPT ![role] = 1]
    /\ UNCHANGED <<cb, past>>

\* A mutant of Receive: messages are forwarded as they come.
MutantForwards ==
    /\ st = "stream" /\ Len(buf) < MaxLen
    /\ buf' = Append(buf, [from |-> Provider, try |-> at.try])
    /\ out' = buf'
    /\ UNCHANGED <<cb, st, role, at, result, current, wait, tries, past>>

\* A message, which is not an error in the first place.
Receive ==
    /\ st = "stream" /\ Len(buf) < MaxLen
    /\ buf' = Append(buf, [from |-> Provider, try |-> at.try])
    /\ UNCHANGED <<cb, st, role, at, given, current, wait, tries, past>>

\* What the provider's own calls have been, whatever its breaker says.
Failed(p) == past' = [past EXCEPT ![p] = [fails |-> Upto(@.fails + 1, Threshold), quiet |-> 0]]
Succeeded(p) == past' = [past EXCEPT ![p].fails = 0]

\* The stream ends, and the consumer takes all of it.
Deliver ==
    /\ st = "stream"
    /\ Ends("ok", buf)
    /\ RecordSuccess(Provider)
    /\ Succeeded(Provider)
    /\ UNCHANGED current

\* run_agent returns while it reads (a limit of the stuck detection): the
\* generator is closed where it yields, and nothing is recorded.
Abandon(k) ==
    /\ st = "stream" /\ role \in Timed
    /\ k \in DOMAIN buf
    /\ Ends("abandoned", SubSeq(buf, 1, k))
    /\ UNCHANGED <<cb, past, current>>

\* The stream fails: a fault no retry helps against, or one after output.
Break ==
    /\ st = "stream"
    /\ Ends("error", <<>>)
    /\ RecordFailure(Provider)
    /\ Failed(Provider)
    /\ UNCHANGED current

\* The wait before attempt n; the jitter, below a tenth of BaseWait, may cost
\* a tick.
WaitBefore(n) ==
    LET w == Upto(BaseWait * 2 ^ (n - 1), MaxWait)
        jitter == IF BaseWait > 0 THEN 1 ELSE 0
    IN  { t \in 0 .. MaxWait + 1 : w <= t /\ t <= w + jitter }

\* Mutants of Retry: one retry too many, ...
MutantOneMore ==
    /\ st = "stream" /\ buf = <<>>
    /\ at.try <= MaxRetries
    /\ st' = "asleep" /\ sleep' \in WaitBefore(at.try + 1)
    /\ UNCHANGED <<cb, role, at, buf, given, current, left, tries, past>>

\* ... and output does not keep it from trying again.
MutantRetryAnyway ==
    /\ st = "stream"
    /\ at.try < MaxRetries
    /\ st' = "asleep" /\ sleep' \in WaitBefore(at.try + 1)
    /\ UNCHANGED <<cb, role, at, buf, given, current, left, tries, past>>

\* A recoverable failure without output, or with an error as the first
\* message: the same provider again, after a wait ...
Retry ==
    /\ st = "stream" /\ buf = <<>>
    /\ at.try < MaxRetries
    /\ st' = "asleep" /\ sleep' \in WaitBefore(at.try + 1)
    /\ UNCHANGED <<cb, role, at, buf, given, current, left, tries, past>>

Wake ==
    /\ st = "asleep" /\ sleep = 0
    /\ Attempt(at.idx, at.try + 1)
    /\ UNCHANGED <<cb, role, given, current, wait, past>>

\* A mutant of Exhausted: it does not wait for the last attempt.
MutantGivesUpEarly ==
    /\ st = "stream" /\ buf = <<>>
    /\ st' = "next" /\ at' = [idx |-> at.idx + 1, try |-> 0]
    /\ RecordFailure(Provider)
    /\ Failed(Provider)
    /\ UNCHANGED <<role, buf, given, current, wait, tries>>

\* ... and after the last attempt the next provider.
Exhausted ==
    /\ st = "stream" /\ buf = <<>>
    /\ at.try = MaxRetries
    /\ st' = "next" /\ at' = [idx |-> at.idx + 1, try |-> 0]
    /\ RecordFailure(Provider)
    /\ Failed(Provider)
    /\ UNCHANGED <<role, buf, given, current, wait, tries>>

\* A mutant of TimedOut: the timeout ends a wait, not a stream.
MutantWaitsForStream ==
    /\ st = "asleep"
    /\ role \in Timed /\ left = 0
    /\ Ends("timeout", <<>>)
    /\ UNCHANGED <<cb, past, current>>

\* The timeout of run_agent cancels the generator where it waits: that is no
\* Exception, and nothing is recorded.
TimedOut ==
    /\ st \in {"stream", "asleep"}
    /\ role \in Timed /\ left = 0
    /\ Ends("timeout", <<>>)
    /\ UNCHANGED <<cb, past, current>>

Down(n) == IF n > 0 THEN n - 1 ELSE 0

\* Time passes; a coroutine may get its turn later than it is due.
Tick ==
    /\ cb' = [p \in Providers |-> [cb[p] EXCEPT !.age = Upto(@ + 1, Recovery)]]
    /\ past' = [p \in Providers |-> [past[p] EXCEPT !.quiet = Upto(@ + 1, Recovery)]]
    /\ sleep' = Down(sleep)
    /\ left' = IF st # "idle" /\ role \in Timed THEN Down(left) ELSE left
    /\ UNCHANGED <<st, role, at, buf, given, current, tries>>

Go == (\E i \in DOMAIN Chain : TryNext(i)) \/ NoneLeft \/ Wake
Stream ==
    \/ Receive \/ Deliver \/ Break \/ Retry \/ Exhausted
    \/ \E k \in DOMAIN buf : Abandon(k)

Next == (\E r \in Roles : Start(r)) \/ Go \/ Stream \/ TimedOut \/ Tick

Spec == Init /\ [][Next]_vars

\* The event loop gets back to a coroutine that can go on, and time passes; no
\* provider has to answer, no role has to ask.
FairSpec == Spec /\ WF_vars(Go) /\ WF_vars(TimedOut) /\ WF_vars(Tick)
=============================================================================
