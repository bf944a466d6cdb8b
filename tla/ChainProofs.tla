----------------------------- MODULE ChainProofs ----------------------------
(***************************************************************************)
(* The provider chain, for all providers, chains, limits and waits.  The   *)
(* type invariant first; then the breakers, the place in the chain, and    *)
(* the buffer, each preserved by every step; then the properties.          *)
(***************************************************************************)
EXTENDS ChainProperties, SequenceTheorems, TLAPS

\* A chain is a sequence of providers.
LEMMA ChainType ==
  ASSUME NEW r \in Roles
  PROVE  /\ DOMAIN ChainOf[r] = 1 .. Len(ChainOf[r]) /\ DOMAIN ChainOf[r] \subseteq Nat \ {0}
         /\ \A i \in DOMAIN ChainOf[r] : ChainOf[r][i] \in Providers
  BY ChainAssumption

\* Counting up to a bound stays within it.
LEMMA UptoType ==
  ASSUME NEW b \in Nat, NEW n \in Nat
  PROVE  Upto(n, b) \in 0 .. b
  BY DEF Upto

\* Both counters start, and start again, at 0.
LEMMA LimitFacts ==
  /\ Threshold \in Nat /\ Recovery \in Nat /\ Timeout \in Nat
  /\ 0 \in 0 .. Threshold /\ 0 \in 0 .. Recovery
  BY LimitAssumption

\* What is recorded keeps the breakers in their type ...
LEMMA BreakerType ==
  ASSUME TypeOK, NEW p \in Providers, RecordSuccess(p) \/ RecordFailure(p)
  PROVE  cb' \in [Providers -> Breaker]
<1>1. cb \in [Providers -> Breaker] /\ cb[p].count + 1 \in Nat
  BY LimitAssumption DEF TypeOK, Breaker
<1>2. CASE RecordSuccess(p)
  <2>1. cb[p] \in Breaker /\ FALSE \in BOOLEAN
    BY <1>1
  <2>2. [cb[p] EXCEPT !.open = FALSE, !.count = 0] \in Breaker
    BY <2>1, LimitFacts DEF Breaker
  <2>3. cb' = [cb EXCEPT ![p] = [cb[p] EXCEPT !.open = FALSE, !.count = 0]]
    BY <1>1, <1>2 DEF RecordSuccess, Breaker
  <2> QED BY <1>1, <2>2, <2>3
<1>3. CASE RecordFailure(p)
  <2> DEFINE b == [open |-> cb[p].count + 1 >= Threshold,
                   count |-> Upto(cb[p].count + 1, Threshold), age |-> 0]
  <2>1. Upto(cb[p].count + 1, Threshold) \in 0 .. Threshold /\ 0 \in 0 .. Recovery
    BY <1>1, UptoType, LimitFacts
  <2>2. b \in Breaker
    BY <2>1 DEF Breaker
  <2>3. cb' = [cb EXCEPT ![p] = b]
    BY <1>3 DEF RecordFailure
  <2> QED BY <1>1, <2>2, <2>3
<1> QED BY <1>2, <1>3

\* ... and the history in its type.
LEMMA PastType ==
  ASSUME TypeOK, NEW p \in Providers, Failed(p) \/ Succeeded(p)
  PROVE  past' \in [Providers -> History]
<1>1. past \in [Providers -> History] /\ past[p].fails + 1 \in Nat
  BY LimitAssumption DEF TypeOK, History
<1>2. CASE Failed(p)
  <2>1. Upto(past[p].fails + 1, Threshold) \in 0 .. Threshold /\ 0 \in 0 .. Recovery
    BY <1>1, UptoType, LimitFacts
  <2>2. [fails |-> Upto(past[p].fails + 1, Threshold), quiet |-> 0] \in History
    BY <2>1 DEF History
  <2> QED BY <1>1, <1>2, <2>2 DEF Failed
<1>3. CASE Succeeded(p)
  <2>1. [past[p] EXCEPT !.fails = 0] \in History
    BY <1>1, LimitAssumption DEF History
  <2>2. past' = [past EXCEPT ![p] = [past[p] EXCEPT !.fails = 0]]
    BY <1>1, <1>3 DEF Succeeded, History
  <2> QED BY <1>1, <2>1, <2>2
<1> QED BY <1>2, <1>3

\* Time passing keeps both in their types.
LEMMA TickType ==
  ASSUME TypeOK, Tick
  PROVE  cb' \in [Providers -> Breaker] /\ past' \in [Providers -> History]
<1>1. ASSUME NEW p \in Providers
      PROVE  [cb[p] EXCEPT !.age = Upto(cb[p].age + 1, Recovery)] \in Breaker
  <2>1. cb[p] \in Breaker /\ cb[p].age + 1 \in Nat
    BY LimitAssumption DEF TypeOK, Breaker
  <2>2. Upto(cb[p].age + 1, Recovery) \in 0 .. Recovery
    BY <2>1, UptoType, LimitFacts
  <2> QED BY <2>1, <2>2 DEF Breaker
<1>2. ASSUME NEW p \in Providers
      PROVE  [past[p] EXCEPT !.quiet = Upto(past[p].quiet + 1, Recovery)] \in History
  <2>1. past[p] \in History /\ past[p].quiet + 1 \in Nat
    BY LimitAssumption DEF TypeOK, History
  <2>2. Upto(past[p].quiet + 1, Recovery) \in 0 .. Recovery
    BY <2>1, UptoType, LimitFacts
  <2> QED BY <2>1, <2>2 DEF History
<1> QED BY <1>1, <1>2 DEF Tick

\* Each step of a stream is at a provider of the chain.
LEMMA ProviderType ==
  ASSUME TypeOK, st \in {"stream", "asleep"}
  PROVE  Provider \in Providers /\ at.idx \in DOMAIN Chain /\ at.idx \in 1 .. Len(Chain)
  BY ChainType DEF TypeOK, Provider, Chain

\* Every step keeps the types.
LEMMA TypeStep == TypeOK /\ TriesOK /\ [Next]_vars => TypeOK'
<1> SUFFICES ASSUME TypeOK, TriesOK, [Next]_vars PROVE TypeOK'
  OBVIOUS
<1> USE LimitAssumption
<1>1. ASSUME NEW r \in Roles, Start(r) PROVE TypeOK'
  BY <1>1, ChainType DEF Start, TypeOK, Chain
<1>2. ASSUME NEW i \in DOMAIN Chain, TryNext(i) PROVE TypeOK'
  <2>1. i \in Nat \ {0} /\ role' = role
    BY <1>2, ChainType DEF TypeOK, Chain, TryNext
  <2>2. tries' \in [DOMAIN Chain -> Nat] /\ at' \in [idx : Nat \ {0}, try : 0 .. MaxRetries]
    BY <1>2, <2>1 DEF TryNext, Attempt, TypeOK
  <2> QED BY <1>2, <2>1, <2>2 DEF TryNext, Attempt, TypeOK, Chain, given, wait
<1>3. CASE NoneLeft
  BY <1>3 DEF NoneLeft, Ends, TypeOK, Chain, wait
<1>4. CASE Receive
  <2>1. [from |-> Provider, try |-> at.try] \in Message
    BY <1>4, ProviderType DEF Receive, Message, TypeOK
  <2> QED BY <1>4, <2>1 DEF Receive, TypeOK, Chain, given, wait
<1>5. CASE Deliver
  <2>1. cb' \in [Providers -> Breaker]
    BY <1>5, ProviderType, BreakerType DEF Deliver
  <2>2. past' \in [Providers -> History]
    BY <1>5, ProviderType, PastType DEF Deliver
  <2> QED BY <1>5, <2>1, <2>2 DEF Deliver, Ends, TypeOK, Chain, wait, History
<1>6. ASSUME NEW k \in DOMAIN buf, Abandon(k) PROVE TypeOK'
  <2>1. SubSeq(buf, 1, k) \in Seq(Message)
    BY DEF TypeOK
  <2> QED BY <1>6, <2>1 DEF Abandon, Ends, TypeOK, Chain, wait
<1>7. CASE Break \/ Exhausted
  <2>1. cb' \in [Providers -> Breaker]
    BY <1>7, ProviderType, BreakerType DEF Break, Exhausted
  <2>2. past' \in [Providers -> History]
    BY <1>7, ProviderType, PastType DEF Break, Exhausted
  <2>3. CASE Break
    BY <2>1, <2>2, <2>3 DEF Break, Ends, TypeOK, Chain, wait, History
  <2>4. CASE Exhausted
    BY <2>1, <2>2, <2>4 DEF Exhausted, TypeOK, Chain, given, wait, History
  <2> QED BY <1>7, <2>3, <2>4
<1>8. CASE Retry
  <2>1. sleep' \in Nat
    BY <1>8 DEF Retry, WaitBefore
  <2> QED BY <1>8, <2>1 DEF Retry, TypeOK, Chain, given
<1>9. CASE Wake
  <2>1. at.try + 1 \in 0 .. MaxRetries
    BY <1>9 DEF Wake, TriesOK, TypeOK
  <2>2. at' \in [idx : Nat \ {0}, try : 0 .. MaxRetries] /\ at'.idx = at.idx
    BY <1>9, <2>1 DEF Wake, Attempt, TypeOK
  <2>3. tries' \in [DOMAIN Chain -> Nat]
    BY <1>9, ProviderType DEF Wake, Attempt, TypeOK
  <2>4. at'.idx \in DOMAIN Chain /\ st' = "stream" /\ buf' = <<>> /\ UNCHANGED <<cb, role, given, current, wait, past>>
    BY <1>9, <2>2, ProviderType DEF Wake, Attempt
  <2> QED BY <2>2, <2>3, <2>4 DEF TypeOK, Chain, given, wait
<1>10. CASE TimedOut
  BY <1>10 DEF TimedOut, Ends, TypeOK, Chain, wait
<1>11. CASE Tick
  <2>1. \A n \in Nat : Down(n) \in Nat /\ Down(n) <= n
    BY DEF Down
  <2>2. sleep' = Down(sleep) /\ left' \in {left, Down(left)}
    BY <1>11 DEF Tick
  <2>3. sleep' \in Nat /\ left' \in 0 .. Timeout
    <3>1. sleep \in Nat /\ left \in 0 .. Timeout
      BY DEF TypeOK
    <3> QED BY <2>1, <2>2, <3>1
  <2> QED BY <1>11, <2>3, TickType DEF Tick, TypeOK, Chain, given, History
<1>12. CASE UNCHANGED vars
  BY <1>12 DEF vars, given, wait, TypeOK, Chain
<1> QED
  BY <1>1, <1>2, <1>3, <1>4, <1>5, <1>6, <1>7, <1>8, <1>9, <1>10, <1>11, <1>12
  DEF Next, Go, Stream

-----------------------------------------------------------------------------
(***************************************************************************)
(* The breakers know.                                                      *)
(***************************************************************************)

\* What recording an outcome does to a breaker and to the history alike.
LEMMA RecordsAgree ==
  ASSUME TypeOK, BreakersKnow, NEW p \in Providers,
         (RecordSuccess(p) /\ Succeeded(p)) \/ (RecordFailure(p) /\ Failed(p))
  PROVE  \A q \in Providers :
            /\ cb'[q].open <=> cb'[q].count >= Threshold
            /\ cb'[q].count = past'[q].fails /\ cb'[q].age = past'[q].quiet
<1> SUFFICES ASSUME NEW q \in Providers
             PROVE  /\ cb'[q].open <=> cb'[q].count >= Threshold
                    /\ cb'[q].count = past'[q].fails /\ cb'[q].age = past'[q].quiet
  OBVIOUS
<1>1. cb \in [Providers -> Breaker] /\ past \in [Providers -> History]
  BY DEF TypeOK, History
<1>2. CASE q # p
  <2>1. cb'[q] = cb[q] /\ past'[q] = past[q]
    BY <1>1, <1>2 DEF RecordSuccess, RecordFailure, Succeeded, Failed
  <2> QED BY <2>1 DEF BreakersKnow
<1>3. CASE q = p /\ RecordSuccess(p) /\ Succeeded(p)
  <2>1. cb'[p].open = FALSE /\ cb'[p].count = 0 /\ cb'[p].age = cb[p].age
    BY <1>1, <1>3 DEF RecordSuccess, Breaker
  <2>2. past'[p].fails = 0 /\ past'[p].quiet = past[p].quiet
    BY <1>1, <1>3 DEF Succeeded, History
  <2> QED BY <1>3, <2>1, <2>2, LimitAssumption DEF BreakersKnow
<1>4. CASE q = p /\ RecordFailure(p) /\ Failed(p)
  <2>1. /\ cb'[p].open = (cb[p].count + 1 >= Threshold)
        /\ cb'[p].count = Upto(cb[p].count + 1, Threshold) /\ cb'[p].age = 0
    BY <1>1, <1>4 DEF RecordFailure
  <2>2. past'[p].fails = Upto(past[p].fails + 1, Threshold) /\ past'[p].quiet = 0
    BY <1>1, <1>4 DEF Failed
  <2>3. cb[p].count + 1 \in Nat /\ cb[p].count = past[p].fails
    BY <1>1, LimitFacts DEF Breaker, BreakersKnow
  <2>4. cb[p].count + 1 >= Threshold <=> Upto(cb[p].count + 1, Threshold) >= Threshold
    BY <2>3, LimitFacts DEF Upto
  <2> QED BY <1>4, <2>1, <2>2, <2>3, <2>4
<1> QED BY <1>2, <1>3, <1>4

\* Every step leaves breaker and history in agreement.
LEMMA BreakersStep == TypeOK /\ BreakersKnow /\ [Next]_vars => BreakersKnow'
<1> SUFFICES ASSUME TypeOK, BreakersKnow, [Next]_vars PROVE BreakersKnow'
  OBVIOUS
<1>1. CASE UNCHANGED <<cb, past>> /\ st' \notin {"stream", "asleep"}
  BY <1>1 DEF BreakersKnow
<1>2. CASE UNCHANGED <<cb, past, role>> /\ at'.idx = at.idx /\ st \in {"stream", "asleep"}
  BY <1>2 DEF BreakersKnow, Provider, Chain, IsAvailable
<1>3. ASSUME NEW i \in DOMAIN Chain, TryNext(i) PROVE BreakersKnow'
  <2>1. IsAvailable(cb[Chain[i]]) /\ UNCHANGED <<cb, past, role>> /\ at'.idx = i
    BY <1>3 DEF TryNext, IsNext, Attempt
  <2> QED BY <2>1 DEF BreakersKnow, Provider, Chain, IsAvailable
<1>4. CASE Deliver \/ Break \/ Exhausted
  <2>1. Provider \in Providers
    BY <1>4, ProviderType DEF Deliver, Break, Exhausted
  <2>2. (RecordSuccess(Provider) /\ Succeeded(Provider))
        \/ (RecordFailure(Provider) /\ Failed(Provider))
    BY <1>4 DEF Deliver, Break, Exhausted
  <2>3. st' \notin {"stream", "asleep"}
    BY <1>4 DEF Deliver, Break, Exhausted, Ends
  <2> QED BY <2>1, <2>2, <2>3, RecordsAgree DEF BreakersKnow
<1>5. CASE Tick
  <2>1. ASSUME NEW p \in Providers
        PROVE  /\ cb'[p].open = cb[p].open /\ cb'[p].count = cb[p].count
               /\ past'[p].fails = past[p].fails /\ cb'[p].age = past'[p].quiet
               /\ cb[p].age >= Recovery => cb'[p].age >= Recovery
    <3>1. cb[p] \in Breaker /\ past[p] \in History /\ cb[p].age = past[p].quiet
      BY DEF TypeOK, BreakersKnow, History
    <3>2. cb'[p] = [cb[p] EXCEPT !.age = Upto(cb[p].age + 1, Recovery)]
          /\ past'[p] = [past[p] EXCEPT !.quiet = Upto(past[p].quiet + 1, Recovery)]
      BY <1>5 DEF Tick
    <3>3. cb[p].age \in Nat
      BY <3>1 DEF Breaker
    <3> QED BY <3>1, <3>2, <3>3, LimitFacts DEF Breaker, History, Upto
  <2>2. UNCHANGED <<st, role, at>>
    BY <1>5 DEF Tick
  <2>3. st \in {"stream", "asleep"} => Provider \in Providers /\ Provider' = Provider
    BY <2>2, ProviderType DEF Provider, Chain
  <2> QED BY <2>1, <2>2, <2>3 DEF BreakersKnow, IsAvailable
<1>6. CASE UNCHANGED vars
  BY <1>6 DEF vars, BreakersKnow, Provider, Chain, IsAvailable
<1>7. CASE (\E r \in Roles : Start(r)) \/ NoneLeft \/ TimedOut \/ \E k \in DOMAIN buf : Abandon(k)
  BY <1>1, <1>7 DEF Start, NoneLeft, TimedOut, Abandon, Ends
<1>8. CASE Receive \/ Retry \/ Wake
  BY <1>2, <1>8 DEF Receive, Retry, Wake, Attempt
<1> QED
  BY <1>3, <1>4, <1>5, <1>6, <1>7, <1>8 DEF Next, Go, Stream

-----------------------------------------------------------------------------
(***************************************************************************)
(* The place in the chain.                                                 *)
(***************************************************************************)

\* Every step keeps the account of the attempts.
LEMMA TriesStep == TypeOK /\ BreakersKnow /\ TriesOK /\ [Next]_vars => TriesOK'
<1> SUFFICES ASSUME TypeOK, BreakersKnow, TriesOK, [Next]_vars PROVE TriesOK'
  OBVIOUS
<1>1. CASE st' = "idle"
  BY <1>1 DEF TriesOK
<1>2. ASSUME NEW r \in Roles, Start(r) PROVE TriesOK'
  BY <1>2, ChainType DEF Start, TriesOK, Chain
<1>3. ASSUME NEW i \in DOMAIN Chain, TryNext(i) PROVE TriesOK'
  <2>1. \A j \in DOMAIN Chain : j \in Nat
    BY ChainType DEF TypeOK, Chain
  <2>2. at.idx \in Nat /\ i \in Nat
    BY <2>1 DEF TypeOK
  <2>3. \A j \in DOMAIN Chain : j >= at.idx /\ j < i => cb[Chain[j]].open
    BY <1>3, <2>1, <2>2 DEF TryNext, IsNext, IsAvailable
  <2>4. \A j \in DOMAIN Chain : j >= at.idx => tries[j] = 0
    BY <1>3, <2>1 DEF TryNext, TriesOK, TypeOK
  <2>5. i >= at.idx /\ at' = [idx |-> i, try |-> 0] /\ tries' = [tries EXCEPT ![i] = @ + 1]
        /\ st = "next" /\ st' = "stream" /\ current'[role] = i /\ UNCHANGED <<role, cb>>
    BY <1>3 DEF TryNext, IsNext, Attempt, TypeOK
  <2>6. tries' \in [DOMAIN Chain -> Nat] /\ tries'[i] = 1
        /\ \A j \in DOMAIN Chain : j # i => tries'[j] = tries[j]
    BY <2>4, <2>5 DEF TypeOK
  <2>7. \A j \in DOMAIN Chain : j < at.idx =>
            tries[j] = MaxRetries + 1 \/ (tries[j] = 0 /\ cb[Chain[j]].open)
    BY <2>5 DEF TriesOK
  <2>8. \A j \in DOMAIN Chain :
           /\ j < i => tries'[j] = MaxRetries + 1 \/ (tries'[j] = 0 /\ cb[Chain[j]].open)
           /\ j > i => tries'[j] = 0
    BY <2>1, <2>2, <2>4, <2>5, <2>6, <2>3, <2>7
  <2> QED BY <2>5, <2>6, <2>8 DEF TriesOK, Chain
<1>4. CASE Receive \/ Retry
  BY <1>4 DEF Receive, Retry, TriesOK, TypeOK, Chain
<1>5. CASE Wake
  <2>1. at.idx \in DOMAIN Chain /\ tries[at.idx] = at.try + 1 /\ current[role] = at.idx
    BY <1>5, ProviderType DEF Wake, TriesOK
  <2>2. at' = [idx |-> at.idx, try |-> at.try + 1] /\ st' = "stream" /\ UNCHANGED <<role, cb, current>>
        /\ tries' = [tries EXCEPT ![at.idx] = @ + 1]
    BY <1>5 DEF Wake, Attempt
  <2>3. tries'[at.idx] = at.try + 2 /\ \A j \in DOMAIN Chain : j # at.idx => tries'[j] = tries[j]
    BY <2>1, <2>2 DEF TypeOK
  <2>4. \A j \in DOMAIN Chain : j \in Nat
    BY ChainType DEF TypeOK, Chain
  <2> QED BY <1>5, <2>1, <2>2, <2>3, <2>4 DEF Wake, TriesOK, TypeOK, Chain
<1>6. CASE Exhausted
  <2>1. at.idx \in DOMAIN Chain /\ tries[at.idx] = MaxRetries + 1
    BY <1>6, ProviderType DEF Exhausted, TriesOK
  <2>2. at' = [idx |-> at.idx + 1, try |-> 0] /\ st' = "next" /\ UNCHANGED <<role, tries>>
    BY <1>6 DEF Exhausted
  <2>3. \A q \in Providers : cb[q].open => cb'[q].open
    <3>1. cb \in [Providers -> Breaker] /\ Provider \in Providers
      BY <1>6, ProviderType DEF TypeOK, Exhausted
    <3>2. cb[Provider].open => cb[Provider].count + 1 >= Threshold
      BY <3>1, LimitFacts DEF BreakersKnow, Breaker
    <3> QED BY <1>6, <3>1, <3>2 DEF Exhausted, RecordFailure
  <2>4. \A j \in DOMAIN Chain : j \in Nat /\ Chain[j] \in Providers
    BY ChainType DEF TypeOK, Chain
  <2>5. at.idx \in Nat /\ st = "stream"
    BY <1>6 DEF Exhausted, TypeOK
  <2>6. \A j \in DOMAIN Chain :
           /\ j < at.idx => tries[j] = MaxRetries + 1 \/ (tries[j] = 0 /\ cb[Chain[j]].open)
           /\ j > at.idx => tries[j] = 0
    BY <2>5 DEF TriesOK
  <2>7. \A j \in DOMAIN Chain :
           /\ j < at.idx + 1 => tries[j] = MaxRetries + 1 \/ (tries[j] = 0 /\ cb'[Chain[j]].open)
           /\ j >= at.idx + 1 => tries[j] = 0
    BY <2>1, <2>3, <2>4, <2>5, <2>6
  <2> QED BY <2>2, <2>4, <2>5, <2>7 DEF TriesOK, Chain
<1>7. CASE Tick
  <2>1. \A q \in Providers : cb'[q].open = cb[q].open
    BY <1>7 DEF Tick, TypeOK, Breaker
  <2>2. \A j \in DOMAIN Chain : Chain[j] \in Providers
    BY ChainType DEF TypeOK, Chain
  <2> QED BY <1>7, <2>1, <2>2 DEF Tick, TriesOK, TypeOK, Chain
<1>8. CASE UNCHANGED vars
  BY <1>8 DEF vars, TriesOK, Chain
<1>9. CASE NoneLeft \/ Deliver \/ Break \/ TimedOut \/ \E k \in DOMAIN buf : Abandon(k)
  BY <1>1, <1>9 DEF NoneLeft, Deliver, Break, TimedOut, Abandon, Ends
<1> QED
  BY <1>2, <1>3, <1>4, <1>5, <1>6, <1>7, <1>8, <1>9 DEF Next, Go, Stream

-----------------------------------------------------------------------------
(***************************************************************************)
(* The buffer and what the consumer gets.                                  *)
(***************************************************************************)

\* Every step keeps one attempt's output in the buffer.
LEMMA BufferStep == TypeOK /\ BufferOK /\ [Next]_vars => BufferOK'
<1> SUFFICES ASSUME TypeOK, BufferOK, [Next]_vars PROVE BufferOK'
  OBVIOUS
<1>1. CASE (\E r \in Roles : Start(r)) \/ Exhausted \/ Retry \/ Wake
  BY <1>1 DEF Start, Exhausted, Retry, Wake, Attempt, BufferOK, given
<1>2. ASSUME NEW i \in DOMAIN Chain, TryNext(i) PROVE BufferOK'
  BY <1>2 DEF TryNext, Attempt, BufferOK, given
<1>3. CASE NoneLeft \/ Deliver \/ Break \/ TimedOut \/ \E k \in DOMAIN buf : Abandon(k)
  BY <1>3 DEF NoneLeft, Deliver, Break, TimedOut, Abandon, Ends, BufferOK
<1>4. CASE Receive
  <2> DEFINE m == [from |-> Provider, try |-> at.try]
  <2>1. buf' = Append(buf, m) /\ buf \in Seq(Message) /\ UNCHANGED <<st, role, at, out, result>>
    BY <1>4 DEF Receive, TypeOK, given
  <2>2. m \in Message
    BY <1>4, ProviderType DEF Receive, Message, TypeOK
  <2>3. \A i \in DOMAIN buf' : buf'[i] = m
    BY <2>1, <2>2 DEF BufferOK
  <2>4. m' = m
    BY <2>1 DEF Provider, Chain
  <2> QED BY <1>4, <2>1, <2>3, <2>4 DEF Receive, BufferOK
<1>5. CASE Tick \/ UNCHANGED vars
  BY <1>5 DEF Tick, vars, given, BufferOK, Provider, Chain
<1> QED
  BY <1>1, <1>2, <1>3, <1>4, <1>5 DEF Next, Go, Stream

\* A consumer that stops in the middle has the beginning of the buffer.
LEMMA AbandonedPrefix ==
  ASSUME TypeOK, NEW k \in DOMAIN buf
  PROVE  /\ SubSeq(buf, 1, k) \in Seq(Message)
         /\ \A i \in DOMAIN SubSeq(buf, 1, k) : i \in DOMAIN buf /\ SubSeq(buf, 1, k)[i] = buf[i]
<1>1. buf \in Seq(Message) /\ k \in 1 .. Len(buf) /\ DOMAIN buf = 1 .. Len(buf)
  BY DEF TypeOK
<1>2. SubSeq(buf, 1, k) \in Seq(Message)
  BY <1>1
<1>3. Len(SubSeq(buf, 1, k)) = k /\ \A i \in 1 .. k : SubSeq(buf, 1, k)[i] = buf[i]
  BY <1>1
<1> QED BY <1>1, <1>2, <1>3

\* What leaves the buffer is from the provider that is the current one.
LEMMA KindStep ==
  TypeOK /\ TriesOK /\ BufferOK /\ KindMatchesMessages /\ [Next]_vars => KindMatchesMessages'
<1> SUFFICES ASSUME TypeOK, TriesOK, BufferOK, KindMatchesMessages, [Next]_vars
             PROVE  KindMatchesMessages'
  OBVIOUS
<1>1. CASE out' = <<>>
  BY <1>1 DEF KindMatchesMessages
<1>2. CASE Deliver \/ \E k \in DOMAIN buf : Abandon(k)
  <2>1. st = "stream" /\ UNCHANGED <<role, current>>
    BY <1>2 DEF Deliver, Abandon, Ends
  <2>2. \A i \in DOMAIN buf : buf[i].from = Chain[current[role]]
    BY <2>1 DEF BufferOK, TriesOK, Provider
  <2>3. \A i \in DOMAIN out' : i \in DOMAIN buf /\ out'[i] = buf[i]
    BY <1>2, AbandonedPrefix DEF Deliver, Abandon, Ends
  <2> QED BY <2>1, <2>2, <2>3 DEF KindMatchesMessages, Chain
<1>3. CASE UNCHANGED <<out, role, current>>
  BY <1>3 DEF KindMatchesMessages, Chain
<1>4. CASE (\E r \in Roles : Start(r)) \/ NoneLeft \/ Break \/ TimedOut
  BY <1>1, <1>4 DEF Start, NoneLeft, Break, TimedOut, Ends
<1>5. ASSUME NEW i \in DOMAIN Chain, TryNext(i) PROVE KindMatchesMessages'
  BY <1>1, <1>5 DEF TryNext, given, BufferOK
<1>6. CASE Receive \/ Retry \/ Exhausted \/ Wake \/ Tick \/ UNCHANGED vars
  BY <1>3, <1>6 DEF Receive, Retry, Exhausted, Wake, Tick, given, vars
<1> QED
  BY <1>2, <1>4, <1>5, <1>6 DEF Next, Go, Stream

-----------------------------------------------------------------------------
(***************************************************************************)
(* The theorems.                                                           *)
(***************************************************************************)

\* The inductive invariant, from which the rest follows.
LEMMA ChainInvariance == Spec => []ChainInv
<1>1. Init => ChainInv
  <2> SUFFICES ASSUME Init PROVE ChainInv
    OBVIOUS
  <2>1. TypeOK
    BY LimitFacts, LimitAssumption, ChainType DEF Init, TypeOK, NewBreaker, Breaker, Chain, History
  <2>2. BreakersKnow
    BY LimitAssumption DEF Init, BreakersKnow, NewBreaker
  <2> QED BY <2>1, <2>2 DEF Init, ChainInv, TriesOK, BufferOK, KindMatchesMessages
<1>2. ChainInv /\ [Next]_vars => ChainInv'
  BY TypeStep, BreakersStep, TriesStep, BufferStep, KindStep DEF ChainInv
<1> QED BY <1>1, <1>2, PTL DEF Spec

\* Every variable keeps its type; no attempt is made past the last retry.
THEOREM ChainTypes == Spec => []TypeOK
  BY ChainInvariance, PTL DEF ChainInv

\* A failing provider is left alone until the recovery time has passed.
THEOREM FailingProvidersRest == Spec => []FailingProviderRests
<1>1. ChainInv => FailingProviderRests
  BY ProviderType DEF ChainInv, BreakersKnow, FailingProviderRests, IsAvailable
<1> QED BY <1>1, ChainInvariance, PTL

\* The chain falls back only where nothing else is left to try.
THEOREM FallbacksAreLastResort == Spec => []FallbackIsLastResort
<1>1. ChainInv => FallbackIsLastResort
  BY DEF ChainInv, TriesOK, FallbackIsLastResort
<1> QED BY <1>1, ChainInvariance, PTL

\* provider_kind is that of the messages.
THEOREM KindsMatch == Spec => []KindMatchesMessages
  BY ChainInvariance, PTL DEF ChainInv

\* After output no attempt follows in the same call.
THEOREM NothingAfterOutput == Spec => OutputIsFinal
<1>1. ChainInv /\ [Next]_vars
        => [buf # <<>> /\ st = "stream" => st' \in {"stream", "idle"} /\ tries' = tries]_vars
  BY DEF ChainInv, Next, Go, Stream, Start, TryNext, NoneLeft, Wake, Receive, Deliver, Break, Retry,
     Exhausted, Abandon, TimedOut, Tick, Ends, vars, wait
<1> QED BY <1>1, ChainInvariance, PTL DEF Spec, OutputIsFinal

\* The chain implements Delivery: all of one attempt's output, or an error.
THEOREM AllOrNothing == Spec => DeliverySpec
<1>1. Init => Answers!Init
  BY DEF Init, Answers!Init
<1>2. ChainInv /\ [Next]_vars => [Answers!Ask \/ Answers!Answer \/ Answers!Refuse]_<<out, result>>
  <2> SUFFICES ASSUME ChainInv, [Next]_vars
               PROVE  Answers!Ask \/ Answers!Answer \/ Answers!Refuse \/ UNCHANGED <<out, result>>
    OBVIOUS
  <2> USE DEF ChainInv
  <2>1. CASE \E r \in Roles : Start(r)
    BY <2>1 DEF Start, BufferOK, Answers!Ask
  <2>2. CASE Deliver \/ \E k \in DOMAIN buf : Abandon(k)
    <3>1. st = "stream" /\ result = "pending" /\ result' \in {"ok", "abandoned"}
      BY <2>2 DEF Deliver, Abandon, Ends, BufferOK
    <3>2. out' \in Seq(Message) /\ \A i \in DOMAIN out' : i \in DOMAIN buf /\ out'[i] = buf[i]
      BY <2>2, AbandonedPrefix DEF Deliver, Abandon, Ends, TypeOK
    <3>3. \A i, j \in DOMAIN out' : out'[i] = out'[j]
      BY <3>2 DEF BufferOK
    <3> QED BY <3>1, <3>2, <3>3 DEF Answers!Answer
  <2>3. CASE NoneLeft \/ Break \/ TimedOut
    BY <2>3 DEF NoneLeft, Break, TimedOut, Ends, BufferOK, Answers!Refuse
  <2>4. CASE (\E i \in DOMAIN Chain : TryNext(i)) \/ Receive \/ Retry \/ Exhausted \/ Wake \/ Tick
             \/ UNCHANGED vars
    BY <2>4 DEF TryNext, Receive, Retry, Exhausted, Wake, Tick, given, vars
  <2> QED BY <2>1, <2>2, <2>3, <2>4 DEF Next, Go, Stream
<1> QED BY <1>1, <1>2, ChainInvariance, PTL DEF Spec, DeliverySpec, Answers!Spec

-----------------------------------------------------------------------------
(***************************************************************************)
(* The end of a call.  Three numbers bound what it has before it: places   *)
(* in the chain, attempts at this one, and what may still come of the      *)
(* attempt.  Read in this order they fall with every step but time's.      *)
(***************************************************************************)

PositionsLeft == Len(Chain) + 1 - at.idx
AttemptsLeft == MaxRetries - at.try
StagesLeft ==
    IF st = "next" THEN MaxLen + 2
    ELSE IF st = "stream" THEN MaxLen + 1 - Len(buf)
    ELSE 0

CallFalls ==
    \/ PositionsLeft' < PositionsLeft
    \/ /\ PositionsLeft' = PositionsLeft
       /\ \/ AttemptsLeft' < AttemptsLeft
          \/ AttemptsLeft' = AttemptsLeft /\ StagesLeft' < StagesLeft

\* The walk ends past the last provider; no stream is longer than MaxLen.
WalkOK ==
    /\ st # "idle" => at.idx <= Len(Chain) + 1
    /\ st = "next" => at.try = 0
    /\ Len(buf) <= MaxLen

\* What the numbers are made of.
LEMMA WalkTypes ==
  ASSUME TypeOK
  PROVE  /\ Len(Chain) \in Nat /\ Len(buf) \in Nat
         /\ at.idx \in Nat \ {0} /\ at.try \in Nat /\ at.try <= MaxRetries
         /\ at.idx \in DOMAIN Chain => at.idx <= Len(Chain)
  BY ChainType, LimitAssumption, LenProperties, ChainAssumption DEF TypeOK, Chain

\* Every step keeps the walk in its bounds.
LEMMA WalkStep ==
  ASSUME TypeOK, WalkOK, [Next]_vars PROVE WalkOK'
<1> USE LimitAssumption DEF WalkOK
<1>1. Len(<<>>) = 0
  BY EmptySeq
<1>2. ASSUME NEW r \in Roles, Start(r) PROVE WalkOK'
  <2>1. Len(ChainOf[r]) \in Nat
    BY ChainAssumption, LenProperties
  <2>2. at'.idx = 1 /\ at'.try = 0 /\ buf' = <<>> /\ Chain' = ChainOf[r]
    BY <1>2 DEF Start, Chain
  <2> QED BY <1>1, <2>1, <2>2
<1>3. CASE NoneLeft \/ Deliver \/ Break \/ TimedOut \/ \E k \in DOMAIN buf : Abandon(k)
  BY <1>1, <1>3 DEF NoneLeft, Deliver, Break, TimedOut, Abandon, Ends
<1>4. ASSUME NEW i \in DOMAIN Chain, TryNext(i) PROVE WalkOK'
  <2>1. i \in 1 .. Len(Chain) /\ Len(Chain) \in Nat
    BY ChainType, WalkTypes DEF TypeOK, Chain
  <2>2. at'.idx = i /\ buf' = <<>> /\ Chain' = Chain /\ st' = "stream"
    BY <1>4 DEF TryNext, Attempt, Chain
  <2> QED BY <1>1, <2>1, <2>2
<1>5. CASE Wake
  <2>1. at'.idx = at.idx /\ buf' = <<>> /\ Chain' = Chain /\ st' = "stream" /\ st = "asleep"
    BY <1>5 DEF Wake, Attempt, Chain
  <2> QED BY <1>1, <2>1
<1>6. CASE Receive
  <2>1. Len(buf') = Len(buf) + 1 /\ Len(buf) < MaxLen
    BY <1>6, ProviderType, AppendProperties DEF Receive, TypeOK, Message
  <2>2. at' = at /\ Chain' = Chain /\ st' = st
    BY <1>6 DEF Receive, Chain
  <2> QED BY <1>6, <2>1, <2>2, WalkTypes DEF Receive
<1>7. CASE Retry
  BY <1>7 DEF Retry, Chain
<1>8. CASE Exhausted
  <2>1. st = "stream" /\ at'.idx = at.idx + 1 /\ at'.try = 0 /\ buf' = buf /\ Chain' = Chain
    BY <1>8 DEF Exhausted, Chain
  <2>2. at.idx <= Len(Chain)
    BY <2>1, ProviderType
  <2> QED BY <2>1, <2>2, WalkTypes
<1>9. CASE Tick \/ UNCHANGED vars
  BY <1>9 DEF Tick, Chain, vars
<1> QED BY <1>2, <1>3, <1>4, <1>5, <1>6, <1>7, <1>8, <1>9 DEF Next, Go, Stream

\* A step of a call that does not end it brings the end nearer.
LEMMA CallStep ==
  ASSUME ChainInv, WalkOK, Go \/ Stream \/ TimedOut, st' # "idle" PROVE CallFalls
<1> USE LimitAssumption DEF ChainInv
<1>1. Len(<<>>) = 0
  BY EmptySeq
<1>2. ASSUME NEW i \in DOMAIN Chain, TryNext(i) PROVE CallFalls
  <2>1. i \in 1 .. Len(Chain) /\ i >= at.idx
    BY <1>2, ChainType DEF TryNext, IsNext, TypeOK, Chain
  <2>2. /\ at'.idx = i /\ at'.try = 0 /\ at.try = 0 /\ Chain' = Chain
        /\ st = "next" /\ st' = "stream" /\ buf' = <<>>
    BY <1>2 DEF TryNext, Attempt, Chain, WalkOK
  <2>3. StagesLeft' < StagesLeft /\ AttemptsLeft' = AttemptsLeft
    BY <1>1, <2>2 DEF StagesLeft, AttemptsLeft
  <2>4. PositionsLeft' < PositionsLeft \/ PositionsLeft' = PositionsLeft
    BY <2>1, <2>2, WalkTypes DEF PositionsLeft
  <2> QED BY <2>3, <2>4 DEF CallFalls
<1>3. CASE Wake
  <2>1. at'.idx = at.idx /\ at'.try = at.try + 1 /\ Chain' = Chain
    BY <1>3 DEF Wake, Attempt, Chain
  <2>2. PositionsLeft' = PositionsLeft /\ AttemptsLeft' < AttemptsLeft
    BY <2>1, WalkTypes DEF PositionsLeft, AttemptsLeft
  <2> QED BY <2>2 DEF CallFalls
<1>4. CASE Receive \/ Retry
  <2>1. at' = at /\ Chain' = Chain /\ st = "stream"
    BY <1>4 DEF Receive, Retry, Chain
  <2>2. PositionsLeft' = PositionsLeft /\ AttemptsLeft' = AttemptsLeft
    BY <2>1 DEF PositionsLeft, AttemptsLeft
  <2>3. CASE Receive
    <3>1. Len(buf') = Len(buf) + 1 /\ st' = "stream"
      BY <2>3, ProviderType, AppendProperties DEF Receive, TypeOK, Message
    <3>2. StagesLeft' < StagesLeft
      BY <2>1, <3>1, WalkTypes DEF StagesLeft
    <3> QED BY <2>2, <3>2 DEF CallFalls
  <2>4. CASE Retry
    <3>1. st' = "asleep" /\ buf = <<>>
      BY <2>4 DEF Retry
    <3>2. StagesLeft' < StagesLeft
      BY <1>1, <2>1, <3>1 DEF StagesLeft
    <3> QED BY <2>2, <3>2 DEF CallFalls
  <2> QED BY <1>4, <2>3, <2>4
<1>5. CASE Exhausted
  <2>1. at'.idx = at.idx + 1 /\ Chain' = Chain
    BY <1>5 DEF Exhausted, Chain
  <2>2. PositionsLeft' < PositionsLeft
    BY <2>1, WalkTypes DEF PositionsLeft
  <2> QED BY <2>2 DEF CallFalls
<1>6. ~(NoneLeft \/ Deliver \/ Break \/ TimedOut \/ \E k \in DOMAIN buf : Abandon(k))
  BY DEF NoneLeft, Deliver, Break, TimedOut, Abandon, Ends
<1> QED BY <1>2, <1>3, <1>4, <1>5, <1>6 DEF Go, Stream

\* A call ends after finitely many steps, however its providers fail and however
\* long the chain: no fallback starts a walk over again, no retry a count
\* (chain.py:136-270).  Only time may pass meanwhile.
THEOREM CallsRunOut ==
  Spec => /\ [](st # "idle" => /\ PositionsLeft \in Nat /\ AttemptsLeft \in Nat
                               /\ StagesLeft \in Nat)
          /\ [][st # "idle" /\ st' # "idle" => CallFalls \/ Tick]_vars
<1>1. Init => WalkOK
  BY EmptySeq, LimitAssumption DEF Init, WalkOK
<1>2. ChainInv /\ WalkOK /\ [Next]_vars => WalkOK'
  BY WalkStep DEF ChainInv
<1>3. ChainInv /\ WalkOK
        => (st # "idle" => PositionsLeft \in Nat /\ AttemptsLeft \in Nat /\ StagesLeft \in Nat)
  BY WalkTypes, LimitAssumption
  DEF ChainInv, WalkOK, PositionsLeft, AttemptsLeft, StagesLeft
<1>4. ChainInv /\ WalkOK /\ [Next]_vars => [st # "idle" /\ st' # "idle" => CallFalls \/ Tick]_vars
  <2>1. \A r \in Roles : Start(r) => st = "idle"
    BY DEF Start
  <2> QED BY <2>1, CallStep DEF Next
<1> QED BY <1>1, <1>2, <1>3, <1>4, ChainInvariance, PTL DEF Spec

\* The rest of an open breaker is never prolonged: no call of any role, no retry
\* and no failure elsewhere touches it, and each tick counts (circuit_breaker.py:
\* 34-77, chain.py:150).
THEOREM RestsAreNotProlonged ==
  Spec => [][\A p \in Providers :
                ~IsAvailable(cb[p]) =>
                    /\ cb'[p].open /\ cb'[p].age >= cb[p].age
                    /\ Tick => cb'[p].age = cb[p].age + 1]_vars
<1>1. ASSUME ChainInv, Next, NEW p \in Providers, ~IsAvailable(cb[p])
      PROVE  /\ cb'[p].open /\ cb'[p].age >= cb[p].age
             /\ Tick => cb'[p].age = cb[p].age + 1
  <2>1. cb \in [Providers -> Breaker] /\ cb[p] \in Breaker
    BY <1>1 DEF ChainInv, TypeOK
  <2>2. cb[p].age \in Nat /\ cb[p].age < Recovery /\ cb[p].open
    BY <1>1, <2>1, LimitAssumption DEF Breaker, IsAvailable
  <2>3. CASE Tick
    <3>1. cb'[p] = [cb[p] EXCEPT !.age = Upto(@ + 1, Recovery)]
      BY <2>3 DEF Tick
    <3>2. Upto(cb[p].age + 1, Recovery) = cb[p].age + 1
      BY <2>2, LimitAssumption DEF Upto
    <3>3. cb'[p].age = cb[p].age + 1 /\ cb'[p].open
      BY <2>1, <2>2, <3>1, <3>2 DEF Breaker
    <3> QED BY <2>2, <3>3
  <2>4. CASE Deliver \/ Break \/ Exhausted
    <3>1. p # Provider /\ Provider \in Providers
      BY <1>1, <2>4, ProviderType DEF ChainInv, BreakersKnow, Deliver, Break, Exhausted
    <3>2. RecordSuccess(Provider) \/ RecordFailure(Provider)
      BY <2>4 DEF Deliver, Break, Exhausted
    <3>3. cb'[p] = cb[p]
      BY <2>1, <3>1, <3>2 DEF RecordSuccess, RecordFailure
    <3>4. ~Tick
      BY <2>4 DEF Tick, Deliver, Break, Exhausted, Ends
    <3> QED BY <2>2, <3>3, <3>4
  <2>5. CASE cb' = cb /\ ~Tick
    BY <2>2, <2>5
  <2>6. ASSUME ~(Deliver \/ Break \/ Exhausted), ~Tick PROVE cb' = cb
    BY <1>1, <2>6 DEF Next, Go, Stream, Start, TryNext, NoneLeft, Wake, Receive, Retry, Abandon, TimedOut
  <2> QED BY <2>3, <2>4, <2>5, <2>6
<1>2. ChainInv /\ [Next]_vars
        => [\A p \in Providers :
               ~IsAvailable(cb[p]) =>
                   /\ cb'[p].open /\ cb'[p].age >= cb[p].age
                   /\ Tick => cb'[p].age = cb[p].age + 1]_vars
  BY <1>1
<1> QED BY <1>2, ChainInvariance, PTL DEF Spec
=============================================================================
