--------------------------- MODULE TelegramInput ---------------------------
(***************************************************************************)
(* The Telegram bot (tero2/telegram_input.py): a poll loop that fetches     *)
(* updates, stores the offset and handles the batch, and a consumer that   *)
(* takes plans off a queue, makes a project of each (project_init.py) and  *)
(* launches a runner for it, which then has to get the project's lock.     *)
(*                                                                         *)
(* Both loops are coroutines of one event loop: an action is the code      *)
(* between two awaits.  An update is its position in `inbox`, all that was *)
(* ever sent; offsets are one less than Telegram's.  A plan is the name of *)
(* the project it makes.  Telegram is external: it keeps an update until a *)
(* request with a later offset reaches it.                                 *)
(***************************************************************************)
EXTENDS ProjectLock, Sequences, FiniteSets

CONSTANTS
    Manual,        \* the process a human may start on a project
    MaxUpdates,    \* bound: updates in a behaviour
    Commands,      \* commands a user may send
    MaxRunners,    \* bound: runners the bot launches
    FaultKinds,    \* faults that may happen
    MaxFaults      \* bound: faults in a behaviour

Kinds == {"crash", "save", "handler", "download", "init", "spawn", "runner"}

ASSUME BotAssumption ==
    /\ MaxUpdates \in Nat /\ MaxFaults \in Nat
    /\ MaxRunners \in Nat /\ Procs = 0 .. MaxRunners /\ Manual = 0
    /\ Commands \subseteq {"/pause", "/resume", "/stop"}
    /\ Projects \intersect {"/pause", "/resume", "/stop"} = {}
    /\ FaultKinds \subseteq Kinds

VARIABLES
    inbox,       \* every update sent, in order
    confirmed,   \* Telegram has deleted the updates up to here
    file,        \* the offset file
    made,        \* the project directories there are
    up,          \* the bot process is there
    poll,        \* where the poll loop is
    offset,      \* its offset
    batch,       \* fetched and not yet handled
    cons,        \* where the consumer is
    hand,        \* the update whose plan it has taken, or 0
    running,     \* _running
    paused,      \* _paused
    queue,       \* _plan_queue
    unfinished,  \* what its task_done may still count down
    faults,      \* faults so far
    disturbed,   \* ghost: one of them lost a batch or the whole queue
    launched,    \* ghost: the updates a runner was launched for, in order
    told,        \* ghost: updates this process answered with "it will not run"
    taken,       \* ghost: updates in the order this process took them
    moved        \* ghost: updates put back into the queue by a pause

net      == <<inbox, confirmed>>
poller   == <<poll, offset, batch>>
consumer == <<cons, hand>>
flags    == <<running, paused>>
plans    == <<queue, unfinished>>
hit      == <<faults, disturbed>>
ghosts   == <<launched, told, taken, moved>>
botvars  == <<net, file, made, up, poller, consumer, flags, plans, hit, ghosts>>
vars     == <<lockvars, botvars>>

Plan(i) == inbox[i]
IsPlan(i) == inbox[i] \in Projects
Updates == 1 .. MaxUpdates

\* Whether a fault costs more than its own plan.
Disturbs(kind) == kind \in {"crash", "handler"}
FaultHappens(kind) ==
    /\ kind \in FaultKinds /\ faults < MaxFaults
    /\ faults' = faults + 1
    /\ disturbed' = (disturbed \/ Disturbs(kind))

TypeOK ==
    /\ LockTypeOK
    /\ inbox \in Seq(Projects \union Commands) /\ Len(inbox) <= MaxUpdates
    /\ confirmed \in 0 .. Len(inbox) /\ file \in 0 .. Len(inbox)
    /\ made \subseteq Projects
    /\ up \in BOOLEAN /\ running \in BOOLEAN /\ paused \in BOOLEAN
    /\ poll \in {"poll", "handle", "done"}
    /\ offset \in 0 .. Len(inbox) /\ batch \in Seq(1 .. Len(inbox))
    /\ cons \in {"top", "get", "stale", "launch", "finish", "done"}
    /\ hand \in 0 .. Len(inbox)
    /\ queue \in Seq(1 .. Len(inbox)) /\ unfinished \in Nat
    /\ faults \in 0 .. MaxFaults /\ disturbed \in BOOLEAN
    /\ launched \in Seq(1 .. Len(inbox)) /\ told \subseteq 1 .. Len(inbox)
    /\ taken \in Seq(1 .. Len(inbox)) /\ moved \subseteq 1 .. Len(inbox)

\* A process that is not there.
Absent ==
    /\ up' = FALSE
    /\ poll' = "done" /\ offset' = 0 /\ batch' = <<>>
    /\ cons' = "done" /\ hand' = 0
    /\ running' = FALSE /\ paused' = FALSE
    /\ queue' = <<>> /\ unfinished' = 0
    /\ taken' = <<>> /\ moved' = {} /\ told' = {}

Init ==
    /\ LockInit /\ of = [p \in Procs |-> CHOOSE j \in Projects : TRUE]
    /\ inbox = <<>> /\ confirmed = 0 /\ file = 0 /\ made = {}
    /\ up = FALSE
    /\ poll = "done" /\ offset = 0 /\ batch = <<>>
    /\ cons = "done" /\ hand = 0
    /\ running = FALSE /\ paused = FALSE
    /\ queue = <<>> /\ unfinished = 0
    /\ faults = 0 /\ disturbed = FALSE
    /\ launched = <<>> /\ told = {} /\ taken = <<>> /\ moved = {}

-----------------------------------------------------------------------------
(***************************************************************************)
(* The poll loop.                                                          *)
(***************************************************************************)

\* start(): the offset file is read, both loops begin.
BotStarts ==
    /\ ~up
    /\ up' = TRUE /\ running' = TRUE
    /\ poll' = "poll" /\ offset' = file
    /\ cons' = "top"
    /\ UNCHANGED <<lockvars, net, file, made, batch, hand, paused, plans, hit, ghosts>>

\* A request tells Telegram that everything up to the offset is done with.
Confirms == confirmed' = IF offset > confirmed THEN offset ELSE confirmed

\* The answer is lost, not 200, or no JSON; an exception waits five seconds.
PollFails ==
    /\ up /\ poll = "poll" /\ running
    /\ Confirms
    /\ UNCHANGED <<lockvars, inbox, file, made, up, poller, consumer, flags, plans, hit, ghosts>>

\* A mutant of PollAnswered: the offset is one too far.
MutantSkipsOne ==
    /\ up /\ poll = "poll" /\ running
    /\ Confirms
    /\ confirmed' < Len(inbox)
    /\ batch' = [k \in 1 .. Len(inbox) - confirmed' - 1 |-> confirmed' + 1 + k]
    /\ offset' = Len(inbox)
    /\ file' = Len(inbox)
    /\ poll' = "handle"
    /\ UNCHANGED <<lockvars, inbox, made, up, consumer, flags, plans, hit, ghosts>>

\* All the updates there are; the new offset is saved before any is handled.  A
\* save that fails leaves the file as it was, or empty, which reads as 0.
PollAnswered ==
    /\ up /\ poll = "poll" /\ running
    /\ Confirms
    /\ confirmed' < Len(inbox)
    /\ batch' = [k \in 1 .. Len(inbox) - confirmed' |-> confirmed' + k]
    /\ offset' = Len(inbox)
    /\ \/ file' = Len(inbox) /\ UNCHANGED hit
       \/ FaultHappens("save") /\ file' \in {file, 0}
    /\ poll' = "handle"
    /\ UNCHANGED <<lockvars, inbox, made, up, consumer, flags, plans, ghosts>>

\* The process is killed while it writes the offset.
TornSave ==
    /\ up /\ poll = "poll" /\ running
    /\ Confirms
    /\ confirmed' < Len(inbox)
    /\ FaultHappens("crash")
    /\ file' = 0
    /\ Absent
    /\ UNCHANGED <<lockvars, inbox, made, launched>>

\* The while condition.
PollEnds ==
    /\ up /\ poll = "poll" /\ ~running
    /\ poll' = "done"
    /\ UNCHANGED <<lockvars, net, file, made, up, offset, batch, consumer, flags, plans, hit, ghosts>>

(* _handle_update, for the first update of the batch.                      *)
Handling == up /\ poll = "handle" /\ batch # <<>>
Update == inbox[Head(batch)]

\* The batch goes on, even after /stop.
Handled ==
    /\ batch' = Tail(batch)
    /\ poll' = IF Tail(batch) = <<>> THEN "poll" ELSE "handle"
    /\ UNCHANGED <<lockvars, net, file, made, up, offset>>

\* A mutant of HandlePlan: put before the plans that wait.
MutantPutsFirst ==
    /\ Handling /\ Update \in Projects
    /\ queue' = <<Head(batch)>> \o queue
    /\ unfinished' = unfinished + 1
    /\ Handled
    /\ UNCHANGED <<consumer, flags, hit, ghosts>>

\* A text, or a document once it is downloaded.
HandlePlan ==
    /\ Handling /\ Update \in Projects
    /\ queue' = Append(queue, Head(batch))
    /\ unfinished' = unfinished + 1
    /\ Handled
    /\ UNCHANGED <<consumer, flags, hit, ghosts>>

\* A document that is too large or cannot be downloaded.
HandleRefused ==
    /\ Handling /\ Update \in Projects
    /\ FaultHappens("download")
    /\ told' = told \union {Head(batch)}
    /\ Handled
    /\ UNCHANGED <<consumer, flags, plans, launched, taken, moved>>

HandlePause ==
    /\ Handling /\ Update \in {"/pause", "/resume"}
    /\ paused' = (Update = "/pause")
    /\ Handled
    /\ UNCHANGED <<consumer, running, plans, hit, ghosts>>

\* stop(): a new queue, while the consumer may be waiting on the old one, which
\* may hold a plan it was already woken for.
HandleStop ==
    /\ Handling /\ Update = "/stop"
    /\ running' = FALSE /\ paused' = FALSE
    /\ queue' = <<>> /\ unfinished' = 0
    /\ IF cons = "get"
       THEN cons' = "stale" /\ hand' = IF queue = <<>> THEN 0 ELSE Head(queue)
       ELSE UNCHANGED consumer
    /\ Handled
    /\ UNCHANGED <<hit, ghosts>>

\* An exception leaves the for loop: the rest of the batch is gone.
HandlerRaises ==
    /\ Handling /\ FaultHappens("handler")
    /\ batch' = <<>> /\ poll' = "poll"
    /\ UNCHANGED <<lockvars, net, file, made, up, offset, consumer, flags, plans, ghosts>>

Handle ==
    \/ HandlePlan \/ HandleRefused \/ HandlePause \/ HandleStop \/ HandlerRaises

-----------------------------------------------------------------------------
(***************************************************************************)
(* The consumer.                                                           *)
(***************************************************************************)

\* The while condition; the sleep of a paused bot ends here as well.
ConsumerEnds ==
    /\ up /\ cons = "top" /\ ~running
    /\ cons' = "done"
    /\ UNCHANGED <<lockvars, net, file, made, up, poller, hand, flags, plans, hit, ghosts>>

ConsumerWaits ==
    /\ up /\ cons = "top" /\ running /\ ~paused
    /\ cons' = "get"
    /\ UNCHANGED <<lockvars, net, file, made, up, poller, hand, flags, plans, hit, ghosts>>

\* wait_for gives up after half a second; what it waited for stays in the queue.
GetTimesOut ==
    /\ up
    /\ \/ cons = "get" /\ queue = <<>>
       \/ cons = "stale"
    /\ cons' = "top" /\ hand' = 0
    /\ UNCHANGED <<lockvars, net, file, made, up, poller, flags, plans, hit, ghosts>>

\* What get() returns, and the queue that leaves.
Gets(i) ==
    \/ cons = "get" /\ queue # <<>> /\ i = Head(queue)
    \/ cons = "stale" /\ hand # 0 /\ i = hand
Rest == IF cons = "get" THEN Tail(queue) ELSE queue

\* Paused since: the plan goes to the tail of the queue.
PutBack ==
    /\ up /\ paused
    /\ \E i \in Updates :
          /\ Gets(i)
          /\ queue' = Append(Rest, i)
          /\ moved' = moved \union {i}
    /\ cons' = "top" /\ hand' = 0
    /\ UNCHANGED <<lockvars, net, file, made, up, poller, flags, unfinished, hit, launched, told, taken>>

\* A plan is taken, and init_project runs before the next await.
Takes(i) ==
    /\ up /\ ~paused /\ Gets(i)
    /\ queue' = Rest
    /\ taken' = Append(taken, i)
    /\ UNCHANGED <<lockvars, net, file, up, poller, flags, unfinished, launched, moved>>

\* A mutant of Initialised: mkdir(exist_ok=True).
MutantInitialised(i) ==
    /\ made' = made \union {Plan(i)}
    /\ cons' = "launch" /\ hand' = i
    /\ UNCHANGED <<hit, told>>

\* mkdir decides whether the project is new.
Initialised(i) ==
    /\ Plan(i) \notin made
    /\ made' = made \union {Plan(i)}
    /\ cons' = "launch" /\ hand' = i
    /\ UNCHANGED <<hit, told>>

\* A mutant of TellsUser: the exception ends the consumer.
MutantConsumerDies(i) ==
    /\ told' = told \union {i}
    /\ cons' = "done" /\ hand' = 0

\* What an exception does: a message, and the next plan.
TellsUser(i) ==
    /\ told' = told \union {i}
    /\ cons' = "finish" /\ hand' = 0

\* FileExistsError, or a failure before or after the directory is made.
NotInitialised(i) ==
    /\ TellsUser(i)
    /\ \/ Plan(i) \in made /\ UNCHANGED <<made, hit>>
       \/ /\ Plan(i) \notin made
          /\ FaultHappens("init")
          /\ made' \in {made, made \union {Plan(i)}}

InitProject ==
    \E i \in Updates : Takes(i) /\ (Initialised(i) \/ NotInitialised(i))

\* The project is announced and a runner process created for it.
Launch ==
    /\ up /\ cons = "launch" /\ Len(launched) < MaxRunners
    /\ Spawn(Len(launched) + 1, Plan(hand))
    /\ launched' = Append(launched, hand)
    /\ cons' = "finish" /\ hand' = 0
    /\ UNCHANGED <<net, file, made, up, poller, flags, plans, hit, told, taken, moved>>

LaunchFails ==
    /\ up /\ cons = "launch"
    /\ FaultHappens("spawn")
    /\ TellsUser(hand)
    /\ UNCHANGED <<lockvars, net, file, made, up, poller, flags, plans, launched, taken, moved>>

\* A mutant of Finish: the count of the queue is not looked at.
MutantCountsBelowZero ==
    /\ up /\ cons = "finish"
    /\ unfinished' = unfinished - 1
    /\ cons' = "top"
    /\ UNCHANGED <<lockvars, net, file, made, up, poller, hand, flags, queue, hit, ghosts>>

\* task_done on whatever queue the bot has now.  After /stop that is a new one,
\* which may know of nothing unfinished: ValueError, and start() ends with it.
Finish ==
    /\ up /\ cons = "finish"
    /\ IF unfinished = 0
       THEN Absent
       ELSE /\ unfinished' = unfinished - 1
            /\ cons' = "top"
            /\ UNCHANGED <<up, poller, hand, flags, queue, taken, moved, told>>
    /\ UNCHANGED <<lockvars, net, file, made, hit, launched>>

Consumer ==
    \/ ConsumerEnds \/ ConsumerWaits \/ GetTimesOut \/ PutBack
    \/ InitProject \/ Launch \/ LaunchFails \/ Finish

-----------------------------------------------------------------------------
(***************************************************************************)
(* The process, its users, and the runners.                                *)
(***************************************************************************)

\* start() returns when both loops have.
BotEnds ==
    /\ up /\ poll = "done" /\ cons = "done"
    /\ Absent
    /\ UNCHANGED <<lockvars, net, file, made, hit, launched>>

\* The process is killed.
Crash ==
    /\ up /\ FaultHappens("crash")
    /\ Absent
    /\ UNCHANGED <<lockvars, net, file, made, launched>>

UserSends ==
    /\ Len(inbox) < MaxUpdates
    /\ \E u \in Projects \union Commands : inbox' = Append(inbox, u)
    /\ UNCHANGED <<lockvars, confirmed, file, made, up, poller, consumer, flags, plans, hit, ghosts>>

\* `tero2 run` by hand on a project that is there.
RunByHand ==
    /\ \E j \in made : Spawn(Manual, j)
    /\ UNCHANGED botvars

RunnerStep ==
    /\ \E p \in Procs : Step(p)
    /\ UNCHANGED botvars

RunnerFails ==
    /\ FaultHappens("runner")
    /\ \E p \in Procs : Fails(p)
    /\ UNCHANGED <<net, file, made, up, poller, consumer, flags, plans, ghosts>>

Next ==
    \/ BotStarts \/ PollFails \/ PollAnswered \/ TornSave \/ PollEnds \/ Handle
    \/ Consumer
    \/ BotEnds \/ Crash \/ UserSends \/ RunByHand \/ RunnerStep \/ RunnerFails

Spec == Init /\ [][Next]_vars

\* The event loop gets back to the consumer, and sending a message, git and the
\* creation of a process come to an end.  Telegram owes nobody an answer, and
\* nobody a start of the bot or a runner.
Fairness == WF_vars(Consumer)
FairSpec == Spec /\ Fairness

-----------------------------------------------------------------------------
(***************************************************************************)
(* Properties.                                                             *)
(***************************************************************************)

\* However often an update is delivered again (the offset was not saved, or the
\* bot was killed before it was), and however many plans have one name, at most
\* one runner is launched for a project (telegram_input.py:286-299, project_init.py:50-55).
NoProjectTwice ==
    \A a, b \in DOMAIN launched :
        a # b => Plan(launched[a]) # Plan(launched[b])

\* The consumer takes plans in the order they were sent, except for one that a
\* pause sent back to the tail of the queue after it was taken
\* (telegram_input.py:203-209, 271-284).
NotOvertaken ==
    \A a, b \in DOMAIN taken :
        a < b /\ taken[b] < taken[a] => taken[b] \in moved

\* Until a handler raises, the bot is killed or somebody sends /stop, every plan
\* below the offset is still to be handled, queued, being launched, launched, or
\* its user was told why not (telegram_input.py:117-133, 265-315).
Undisturbed ==
    ~disturbed /\ \A i \in DOMAIN inbox : inbox[i] # "/stop"
Accounted(i) ==
    \/ \E k \in DOMAIN batch : batch[k] = i
    \/ \E k \in DOMAIN queue : queue[k] = i
    \/ \E k \in DOMAIN launched : launched[k] = i
    \/ i = hand
    \/ i \in told
NothingVanishes ==
    Undisturbed => \A i \in 1 .. offset : IsPlan(i) => Accounted(i)

\* Plans do not stay in the queue for ever: in the end each is launched, refused or
\* dropped, unless the bot is paused or stopped then.  One plan that fails to start
\* does not keep the others back (telegram_input.py:265-315).
PlansAreStarted ==
    []<>((queue = <<>> /\ hand = 0) \/ paused \/ ~running)
=============================================================================
