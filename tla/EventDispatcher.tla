-------------------------- MODULE EventDispatcher --------------------------
(***************************************************************************)
(* The fan-out of the runner's events (tero2/events.py): every subscriber  *)
(* has a queue of its own, which prefers to lose old unimportant events.   *)
(*                                                                         *)
(* emit never awaits, and the runner and its consumers share one event     *)
(* loop, so each call is one step.  Below the overflow limit a full queue  *)
(* is edited in place, past the asyncio interface.                         *)
(***************************************************************************)
EXTENDS Integers, Sequences, SequencesExt

CONSTANTS
    Subscribers,  \* who may subscribe, one queue at a time each
    Capacity,     \* maxsize of a queue
    Overflow,     \* MAX_OVERFLOW
    MaxEvents     \* bound: events emitted

ASSUME QueueAssumption == Capacity \in Nat \ {0} /\ Overflow \in Nat /\ MaxEvents \in Nat

VARIABLES
    subs,        \* whose queues are in _subscribers
    queue,       \* subscriber -> what is in its queue
    unfinished,  \* subscriber -> _unfinished_tasks of its queue
    sent,        \* ghost: all events emitted
    since,       \* ghost: how many before the subscription
    taken,       \* ghost: what the consumer got
    overfull     \* ghost: what came when the overflow was used up

ghosts == <<sent, since, taken, overfull>>
vars == <<subs, queue, unfinished, ghosts>>

Event == [id : Nat \ {0}, priority : BOOLEAN]

TypeOK ==
    /\ subs \subseteq Subscribers
    /\ queue \in [Subscribers -> Seq(Event)]
    /\ unfinished \in [Subscribers -> Nat]
    /\ sent \in Seq(Event)
    /\ since \in [Subscribers -> Nat]
    /\ taken \in [Subscribers -> SUBSET Event]
    /\ overfull \in [Subscribers -> SUBSET Event]
    /\ \A s \in Subscribers \ subs : queue[s] = <<>>

Init ==
    /\ subs = {}
    /\ queue = [s \in Subscribers |-> <<>>]
    /\ unfinished = [s \in Subscribers |-> 0]
    /\ sent = <<>>
    /\ since = [s \in Subscribers |-> 0]
    /\ taken = [s \in Subscribers |-> {}]
    /\ overfull = [s \in Subscribers |-> {}]

\* A new queue.
Subscribe(s) ==
    /\ s \notin subs
    /\ subs' = subs \union {s}
    /\ queue' = [queue EXCEPT ![s] = <<>>]
    /\ unfinished' = [unfinished EXCEPT ![s] = 0]
    /\ since' = [since EXCEPT ![s] = Len(sent)]
    /\ taken' = [taken EXCEPT ![s] = {}]
    /\ overfull' = [overfull EXCEPT ![s] = {}]
    /\ UNCHANGED sent

\* A mutant of Unsubscribe: what is in the queue stays there.
MutantLeavesEvents(s) ==
    /\ s \in subs
    /\ subs' = subs \ {s}
    /\ UNCHANGED <<queue, unfinished, ghosts>>

\* The queue is drained, then removed from the list.
Unsubscribe(s) ==
    /\ s \in subs
    /\ subs' = subs \ {s}
    /\ queue' = [queue EXCEPT ![s] = <<>>]
    /\ UNCHANGED <<unfinished, ghosts>>

\* Mutants of IsOldest: whatever is oldest, and the latest that may go.
MutantAnyOldest(q, i) == i = 1

MutantLatest(q, i) ==
    /\ i \in DOMAIN q /\ ~q[i].priority
    /\ \A j \in DOMAIN q : j > i => q[j].priority

IsOldest(q, i) ==
    /\ i \in DOMAIN q /\ ~q[i].priority
    /\ \A j \in DOMAIN q : j < i => q[j].priority

\* Position i is deleted for an event, 0 being none: a full queue gives up its
\* oldest non-priority event, if it has one.
Discards(q, i) ==
    IF Len(q) >= Capacity /\ \E j \in DOMAIN q : ~q[j].priority
    THEN IsOldest(q, i)
    ELSE i = 0

\* A mutant of HasRoom: a queue of priority events has no limit.
MutantNoLimit(q, e) == Len(q) < Capacity \/ e.priority

\* With nothing to delete, a full queue of priority events overflows for
\* another one.
HasRoom(q, e) == Len(q) < Capacity \/ (e.priority /\ Len(q) < Capacity + Overflow)

\* A mutant of Put: the event takes the place of the deleted one.
MutantInPlace(q, e, i) ==
    IF i > 0 THEN [q EXCEPT ![i] = e]
    ELSE IF HasRoom(q, e) THEN Append(q, e) ELSE q

Put(q, e, i) ==
    IF i > 0 THEN Append(RemoveAt(q, i), e)
    ELSE IF HasRoom(q, e) THEN Append(q, e) ELSE q

\* A mutant of Counted: the overflow is not counted.
MutantUncounted(q, e, i) == IF i = 0 /\ Len(q) < Capacity THEN 1 ELSE 0

\* put_nowait counts what it puts, and so does the overflow.
Counted(q, e, i) == IF i = 0 /\ HasRoom(q, e) THEN 1 ELSE 0

\* The event to every subscriber, from each of whose queues gone[s] is deleted.
Emit(e, gone) ==
    /\ \A s \in subs : Discards(queue[s], gone[s])
    /\ sent' = Append(sent, e)
    /\ queue' = [s \in Subscribers |-> IF s \in subs THEN Put(queue[s], e, gone[s]) ELSE queue[s]]
    /\ unfinished' = [s \in Subscribers |->
          IF s \in subs THEN unfinished[s] + Counted(queue[s], e, gone[s]) ELSE unfinished[s]]
    /\ overfull' = [s \in Subscribers |->
          IF s \in subs /\ Len(queue[s]) >= Capacity + Overflow THEN overfull[s] \union {e} ELSE overfull[s]]
    /\ UNCHANGED <<subs, since, taken>>

\* A consumer takes the oldest event; none calls task_done.
Take(s) ==
    /\ queue[s] # <<>>
    /\ queue' = [queue EXCEPT ![s] = Tail(@)]
    /\ taken' = [taken EXCEPT ![s] = @ \union {Head(queue[s])}]
    /\ UNCHANGED <<subs, unfinished, sent, since, overfull>>

EmitAny ==
    /\ Len(sent) < MaxEvents
    /\ \E p \in BOOLEAN, gone \in [Subscribers -> 0 .. Capacity + Overflow] :
          /\ \A s \in Subscribers \ subs : gone[s] = 0
          /\ Emit([id |-> Len(sent) + 1, priority |-> p], gone)

Next ==
    \/ \E s \in Subscribers : Subscribe(s) \/ Unsubscribe(s) \/ Take(s)
    \/ EmitAny

Spec == Init /\ [][Next]_vars
-----------------------------------------------------------------------------
\* Each consumer gets each event at most once, in the order they were emitted,
\* and none from before it subscribed (events.py:91-96).
InOrder ==
    \A s \in subs : \A i \in DOMAIN queue[s] :
        /\ queue[s][i] = sent[queue[s][i].id] /\ queue[s][i].id > since[s]
        /\ \A e \in taken[s] : e.id < queue[s][i].id
        /\ \A j \in DOMAIN queue[s] : i < j => queue[s][i].id < queue[s][j].id

\* A consumer that does not keep up costs bounded memory, and only priority
\* events may exceed the size of its queue (events.py:187-193).
MemoryBounded ==
    \A s \in Subscribers :
        /\ Len(queue[s]) <= Capacity + Overflow
        /\ Len(queue[s]) > Capacity => \A i \in DOMAIN queue[s] : queue[s][i].priority

\* A priority event is not lost while it has not been taken, unless it came
\* when the overflow was used up (events.py:99-105, 187-193).
PriorityIsKept ==
    \A s \in subs : \A n \in since[s] + 1 .. Len(sent) :
        sent[n].priority =>
            \/ sent[n] \in taken[s] \union overfull[s]
            \/ \E i \in DOMAIN queue[s] : queue[s][i] = sent[n]

\* What is lost is older than every non-priority event that is kept: no event
\* is given up for the sake of a less recent one (events.py:103, 198-202).
OldestGoFirst ==
    \A s \in subs, n \in 1 .. Len(sent) :
        (\E i \in DOMAIN queue[s] : ~queue[s][i].priority /\ queue[s][i].id < n) =>
            \E j \in DOMAIN queue[s] : queue[s][j] = sent[n]

\* Editing the queue in place keeps asyncio's account of the events put into
\* it, on which join relies (events.py:172-176).
CountIsKept ==
    \A s \in subs : unfinished[s] = Len(queue[s]) + Cardinality(taken[s])
=============================================================================
