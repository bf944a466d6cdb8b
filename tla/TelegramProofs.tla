---------------------------- MODULE TelegramProofs ----------------------------
(***************************************************************************)
(* Proofs about ProjectLock, for any number of processes and projects, and *)
(* about TelegramInput, for any number of updates, projects, faults and    *)
(* runners.                                                                *)
(***************************************************************************)
EXTENDS TelegramInput, SequenceTheorems, TLAPS

-----------------------------------------------------------------------------
(***************************************************************************)
(* The project lock.  LockInv is inductive, and implies LockIsExclusive.   *)
(***************************************************************************)

LEMMA LockInvInit == LockInit => LockInv
  BY LockAssumption
  DEF LockInit, LockInv, LockTypeOK, OwnersHold, NamedWhileRunning, Steps,
      Owning, InRun

\* A process that starts owns nothing yet.
LEMMA SpawnKeeps ==
  ASSUME LockInv, NEW p \in Procs, NEW j \in Projects, Spawn(p, j)
  PROVE  LockInv'
<1> USE LockAssumption DEF LockInv, LockTypeOK, Spawn, Goes
<1>1. LockTypeOK'
  BY DEF Steps
<1>2. OwnersHold'
  BY DEF OwnersHold, Owning
<1>3. NamedWhileRunning'
  BY DEF NamedWhileRunning, InRun
<1> QED BY <1>1, <1>2, <1>3 DEF LockInv

LEMMA AcquireKeeps ==
  ASSUME LockInv, NEW p \in Procs, Acquire(p) PROVE LockInv'
<1> USE LockAssumption DEF LockInv, LockTypeOK, Acquire, Goes
<1>1. LockTypeOK'
  BY DEF Steps
<1>2. OwnersHold'
  BY DEF OwnersHold, Owning
<1>3. NamedWhileRunning'
  BY DEF NamedWhileRunning, InRun
<1> QED BY <1>1, <1>2, <1>3 DEF LockInv

LEMMA RefuseKeeps ==
  ASSUME LockInv, NEW p \in Procs, Refuse(p) PROVE LockInv'
<1> USE LockAssumption DEF LockInv, LockTypeOK, Refuse, Goes
<1>1. LockTypeOK'
  BY DEF Steps
<1>2. OwnersHold'
  BY DEF OwnersHold, Owning
<1>3. NamedWhileRunning'
  BY DEF NamedWhileRunning, InRun
<1> QED BY <1>1, <1>2, <1>3 DEF LockInv

\* Only the owner writes its number, so nobody's who runs is overwritten.
LEMMA WritePidKeeps ==
  ASSUME LockInv, NEW p \in Procs, WritePid(p) PROVE LockInv'
<1> USE LockAssumption DEF LockInv, LockTypeOK, WritePid, Goes
<1>1. LockTypeOK'
  BY DEF Steps
<1>2. OwnersHold'
  BY DEF OwnersHold, Owning
<1>3. NamedWhileRunning'
  BY DEF NamedWhileRunning, InRun, OwnersHold, Owning
<1> QED BY <1>1, <1>2, <1>3 DEF LockInv

LEMMA ReleaseKeeps ==
  ASSUME LockInv, NEW p \in Procs, Release(p) PROVE LockInv'
<1> USE LockAssumption DEF LockInv, LockTypeOK, Release, Goes
<1>1. LockTypeOK'
  BY DEF Steps
<1>2. OwnersHold'
  BY DEF OwnersHold, Owning
<1>3. NamedWhileRunning'
  BY DEF NamedWhileRunning, InRun
<1> QED BY <1>1, <1>2, <1>3 DEF LockInv

\* Whatever a process leaves in the file when it dies, it is its own file: nobody
\* else runs on that project.
LEMMA FailsKeeps ==
  ASSUME LockInv, NEW p \in Procs, Fails(p) PROVE LockInv'
<1> USE LockAssumption DEF LockInv, LockTypeOK
<1>1. /\ at' = [at EXCEPT ![p] = "gone"] /\ of' = of
      /\ owner' = [owner EXCEPT ![of[p]] = IF owner[of[p]] = p THEN Nobody ELSE owner[of[p]]]
  BY DEF Fails
<1>2. \/ text' = text
      \/ /\ at[p] = "locked"
         /\ \E t \in Procs \union {Nobody, Mixed} : text' = [text EXCEPT ![of[p]] = t]
  BY DEF Fails
<1>3. LockTypeOK'
  BY <1>1, <1>2 DEF Steps
<1>4. OwnersHold'
  BY <1>1 DEF OwnersHold, Owning
<1>5. NamedWhileRunning'
  BY <1>1, <1>2 DEF NamedWhileRunning, InRun, OwnersHold, Owning
<1> QED BY <1>3, <1>4, <1>5 DEF LockInv

\* Every step of a process keeps LockInv.
LEMMA LockStep ==
  ASSUME LockInv, LockNext PROVE LockInv'
  BY SpawnKeeps, AcquireKeeps, RefuseKeeps, WritePidKeeps, ReleaseKeeps, FailsKeeps
  DEF LockNext, Step

LEMMA LockStutters ==
  ASSUME LockInv, UNCHANGED lockvars PROVE LockInv'
  BY DEF lockvars, LockInv, LockTypeOK, OwnersHold, NamedWhileRunning, InRun

LEMMA LockInvImplies == LockInv => LockIsExclusive
  BY DEF LockInv, LockTypeOK, OwnersHold, NamedWhileRunning, LockIsExclusive,
     InRun, Owning

\* No two processes run one project at a time, and the lock file names the one
\* that does (lock.py:18-49), for any number of processes and projects.
THEOREM LockExcludes == LockSpec => []LockIsExclusive
<1>1. LockInv /\ [LockNext]_lockvars => LockInv'
  BY LockStep, LockStutters
<1> QED BY LockInvInit, <1>1, LockInvImplies, PTL DEF LockSpec

-----------------------------------------------------------------------------
(***************************************************************************)
(* The bot.                                                                *)
(***************************************************************************)

BotTypeOK ==
    /\ inbox \in Seq(Projects \union Commands) /\ Len(inbox) <= MaxUpdates
    /\ confirmed \in 0 .. Len(inbox) /\ file \in 0 .. Len(inbox)
    /\ made \subseteq Projects
    /\ up \in BOOLEAN /\ running \in BOOLEAN /\ paused \in BOOLEAN
    /\ poll \in {"poll", "handle", "done"}
    /\ offset \in 0 .. Len(inbox) /\ batch \in Seq(1 .. Len(inbox))
    /\ cons \in {"top", "get", "stale", "launch", "finish", "done"}
    /\ hand \in 0 .. Len(inbox)
    /\ queue \in Seq(1 .. Len(inbox)) /\ unfinished \in Nat
    /\ faults \in 0 .. MaxFaults /\ disturbed \in BOOLEAN
    /\ launched \in Seq(1 .. Len(inbox)) /\ told \subseteq 1 .. Len(inbox)
    /\ taken \in Seq(1 .. Len(inbox)) /\ moved \subseteq 1 .. Len(inbox)

\* What waits or is in the consumer's hand is a plan, and the hand is empty
\* outside the launch, but for a queue that was left behind.
PlansWait ==
    /\ \A k \in DOMAIN queue : IsPlan(queue[k])
    /\ hand # 0 => IsPlan(hand) /\ cons \in {"launch", "stale"}
    /\ cons = "launch" => hand # 0
    /\ ~up => cons = "done"

\* A project is made before a runner is launched for it, and for the one in hand
\* none has been.
MadeFirst ==
    /\ \A a \in DOMAIN launched : Plan(launched[a]) \in made
    /\ cons = "launch" =>
          /\ Plan(hand) \in made
          /\ \A a \in DOMAIN launched : Plan(launched[a]) # Plan(hand)

\* Everything this process has seen is below its offset, and before what is left
\* of the batch.
Seen ==
    /\ \A k \in DOMAIN queue : queue[k] <= offset
    /\ \A k \in DOMAIN taken : taken[k] <= offset
    /\ \A k \in DOMAIN batch : batch[k] <= offset
    /\ cons = "stale" => hand <= offset
    /\ poll # "handle" => batch = <<>>
    /\ ~up => queue = <<>> /\ taken = <<>> /\ batch = <<>>
Ahead ==
    \A k \in DOMAIN batch :
        /\ \A j \in DOMAIN queue : queue[j] < batch[k]
        /\ \A j \in DOMAIN taken : taken[j] < batch[k]
        /\ cons = "stale" => hand < batch[k]
        /\ \A j \in DOMAIN batch : k < j => batch[k] < batch[j]

\* Only what a pause has moved is behind something later, in the queue, or after
\* something later was taken.
InTurn ==
    /\ \A a, b \in DOMAIN queue : a < b /\ queue[b] < queue[a] => queue[b] \in moved
    /\ \A a \in DOMAIN taken, b \in DOMAIN queue : queue[b] < taken[a] => queue[b] \in moved
    /\ cons = "stale" /\ hand # 0 =>
          /\ \A a \in DOMAIN taken : hand < taken[a] => hand \in moved
          /\ \A b \in DOMAIN queue : hand < queue[b]

\* No process has begun, or the first one works.
Fresh == ~up /\ offset = 0 /\ file = 0 /\ confirmed = 0 /\ unfinished = 0
Steady ==
    /\ up /\ running /\ poll # "done" /\ cons \notin {"stale", "done"}
    /\ confirmed <= offset
    /\ unfinished = Len(queue) + IF cons \in {"launch", "finish"} THEN 1 ELSE 0
AllAccounted == \A i \in 1 .. offset : IsPlan(i) => Accounted(i)
Complete == Undisturbed => (Fresh \/ Steady) /\ AllAccounted

BotInv ==
    /\ LockInv /\ BotTypeOK /\ PlansWait
    /\ MadeFirst /\ NoProjectTwice
    /\ Seen /\ Ahead /\ InTurn /\ NotOvertaken
    /\ Complete

-----------------------------------------------------------------------------
(***************************************************************************)
(* The lock, and types.                                                    *)
(***************************************************************************)

LEMMA TypeParts == TypeOK <=> LockTypeOK /\ BotTypeOK
  BY DEF TypeOK, BotTypeOK

\* The bot touches the lock's variables only where it starts a process.
LEMMA LockHolds ==
  ASSUME LockInv, BotTypeOK, PlansWait, Next PROVE LockInv'
<1>1. CASE Launch
  <2>1. /\ hand \in 1 .. Len(inbox) /\ IsPlan(hand)
    BY <1>1 DEF Launch, PlansWait, BotTypeOK
  <2>2. Len(launched) + 1 \in Procs /\ Plan(hand) \in Projects
    BY <1>1, <2>1, BotAssumption DEF Launch, IsPlan, Plan, BotTypeOK
  <2> QED BY <1>1, <2>2, SpawnKeeps DEF Launch
<1>2. CASE RunByHand
  <2>1. PICK j \in made : Spawn(Manual, j)
    BY <1>2 DEF RunByHand
  <2>2. Manual \in Procs /\ j \in Projects
    BY BotAssumption DEF BotTypeOK
  <2> QED BY <2>1, <2>2, SpawnKeeps
<1>3. CASE RunnerStep
  BY <1>3, LockStep DEF RunnerStep, LockNext
<1>4. CASE RunnerFails
  BY <1>4, LockStep DEF RunnerFails, LockNext
<1>5. CASE UNCHANGED lockvars
  BY <1>5, LockStutters
<1>6. CASE BotStarts \/ PollFails \/ PollAnswered \/ TornSave \/ PollEnds \/ UserSends
  BY <1>5, <1>6 DEF BotStarts, PollFails, PollAnswered, TornSave, PollEnds, UserSends
<1>7. CASE Handle
  BY <1>5, <1>7 DEF Handle, HandlePlan, HandleRefused, HandlePause, HandleStop,
                    HandlerRaises, Handled
<1>8. CASE Consumer /\ ~Launch
  BY <1>5, <1>8 DEF Consumer, ConsumerEnds, ConsumerWaits, GetTimesOut, PutBack,
                    InitProject, Takes, LaunchFails, Finish
<1>9. CASE BotEnds \/ Crash
  BY <1>5, <1>9 DEF BotEnds, Crash
<1> QED BY <1>1, <1>2, <1>3, <1>4, <1>6, <1>7, <1>8, <1>9 DEF Next

\* What the consumer can get is a plan.
LEMMA GetsAPlan ==
  ASSUME BotTypeOK, PlansWait, NEW i \in Updates, Gets(i)
  PROVE  /\ i \in 1 .. Len(inbox) /\ Plan(i) \in Projects
         /\ Rest \in Seq(1 .. Len(inbox))
<1>1. CASE cons = "get"
  BY <1>1 DEF Gets, Rest, BotTypeOK, PlansWait, IsPlan, Plan
<1>2. CASE cons = "stale"
  BY <1>2 DEF Gets, Rest, BotTypeOK, PlansWait, IsPlan, Plan
<1> QED BY <1>1, <1>2 DEF Gets

LEMMA FaultTypes ==
  ASSUME BotTypeOK, NEW kind, FaultHappens(kind)
  PROVE  faults' \in 0 .. MaxFaults /\ disturbed' \in BOOLEAN
  BY BotAssumption DEF BotTypeOK, FaultHappens, Disturbs

LEMMA AbsentTypes ==
  ASSUME BotTypeOK, Absent, inbox' = inbox, confirmed' \in 0 .. Len(inbox),
         file' \in 0 .. Len(inbox), made' = made, launched' = launched,
         faults' \in 0 .. MaxFaults, disturbed' \in BOOLEAN
  PROVE  BotTypeOK'
<1>1. /\ up' \in BOOLEAN /\ running' \in BOOLEAN /\ paused' \in BOOLEAN
      /\ poll' = "done" /\ offset' = 0 /\ cons' = "done" /\ hand' = 0 /\ unfinished' = 0
  BY DEF Absent
<1>2. /\ batch' \in Seq(1 .. Len(inbox)) /\ queue' \in Seq(1 .. Len(inbox))
      /\ taken' \in Seq(1 .. Len(inbox))
      /\ told' \subseteq 1 .. Len(inbox) /\ moved' \subseteq 1 .. Len(inbox)
  BY EmptySeq DEF Absent
<1>3. Len(inbox) \in Nat
  BY DEF BotTypeOK
<1> QED BY <1>1, <1>2, <1>3 DEF BotTypeOK

LEMMA PollTypes ==
  ASSUME BotTypeOK, PollFails \/ PollAnswered \/ TornSave \/ PollEnds \/ BotStarts
  PROVE  BotTypeOK'
<1>1. CASE PollFails
  BY <1>1 DEF PollFails, Confirms, poller, consumer, flags, plans, hit, ghosts, BotTypeOK
<1>2. CASE PollAnswered
  <2>0. USE <1>2 DEF PollAnswered, Confirms
  <2>1. confirmed' \in 0 .. Len(inbox) /\ Len(inbox) \in Nat
    BY DEF BotTypeOK
  <2>2. batch' \in Seq(1 .. Len(inbox))
    <3> DEFINE n == Len(inbox) - confirmed'
    <3>1. n \in Nat /\ \A k \in 1 .. n : confirmed' + k \in 1 .. Len(inbox)
      BY <2>1
    <3>2. [k \in 1 .. n |-> confirmed' + k] \in [1 .. n -> 1 .. Len(inbox)]
      BY <3>1
    <3>3. [k \in 1 .. n |-> confirmed' + k] \in Seq(1 .. Len(inbox))
      BY <3>1, <3>2
    <3> QED BY <3>3
  <2>3. file' \in 0 .. Len(inbox) /\ faults' \in 0 .. MaxFaults /\ disturbed' \in BOOLEAN
    BY FaultTypes, <2>1 DEF hit, BotTypeOK
  <2> QED BY <2>1, <2>2, <2>3 DEF consumer, flags, plans, ghosts, BotTypeOK
<1>3. CASE TornSave
  <2>1. confirmed' \in 0 .. Len(inbox) /\ file' \in 0 .. Len(inbox)
    BY <1>3 DEF TornSave, Confirms, BotTypeOK
  <2> QED BY <1>3, <2>1, FaultTypes, AbsentTypes DEF TornSave
<1>4. CASE PollEnds
  BY <1>4 DEF PollEnds, net, consumer, flags, plans, hit, ghosts, BotTypeOK
<1>5. CASE BotStarts
  BY <1>5 DEF BotStarts, net, plans, hit, ghosts, BotTypeOK
<1> QED BY <1>1, <1>2, <1>3, <1>4, <1>5

LEMMA HandleTypes == ASSUME BotTypeOK, Handle PROVE BotTypeOK'
<1>1. Head(batch) \in 1 .. Len(inbox) /\ Tail(batch) \in Seq(1 .. Len(inbox))
  <2>1. batch # <<>>
    BY DEF Handle, HandlePlan, HandleRefused, HandlePause, HandleStop, HandlerRaises, Handling
  <2> QED BY <2>1, HeadTailProperties DEF BotTypeOK
<1>2. CASE HandlePlan
  <2>1. queue' \in Seq(1 .. Len(inbox)) /\ unfinished' \in Nat
    BY <1>1, <1>2 DEF HandlePlan, BotTypeOK
  <2> QED BY <1>1, <1>2, <2>1
          DEF HandlePlan, Handled, net, consumer, flags, hit, ghosts, BotTypeOK
<1>3. CASE HandleRefused
  BY <1>1, <1>3, FaultTypes DEF HandleRefused, Handled, net, consumer, flags, plans, BotTypeOK
<1>4. CASE HandlePause
  BY <1>1, <1>4 DEF HandlePause, Handled, net, consumer, plans, hit, ghosts, BotTypeOK
<1>5. CASE HandleStop
  <2>1. /\ batch' \in Seq(1 .. Len(inbox)) /\ poll' \in {"poll", "handle"}
        /\ UNCHANGED <<net, file, made, up, offset, hit, ghosts>>
    BY <1>1, <1>5 DEF HandleStop, Handled
  <2>2. /\ queue' \in Seq(1 .. Len(inbox)) /\ unfinished' \in Nat
        /\ running' \in BOOLEAN /\ paused' \in BOOLEAN
    BY <1>5, EmptySeq DEF HandleStop
  <2>3. cons' \in {"top", "get", "stale", "launch", "finish", "done"}
    BY <1>5 DEF HandleStop, consumer, BotTypeOK
  <2>4. hand' \in 0 .. Len(inbox)
    BY <1>5 DEF HandleStop, consumer, BotTypeOK
  <2> QED BY <2>1, <2>2, <2>3, <2>4 DEF net, hit, ghosts, BotTypeOK
<1>6. CASE HandlerRaises
  BY <1>6, FaultTypes DEF HandlerRaises, net, consumer, flags, plans, ghosts, BotTypeOK
<1> QED BY <1>2, <1>3, <1>4, <1>5, <1>6 DEF Handle

LEMMA ConsumerTypes == ASSUME BotTypeOK, PlansWait, Consumer PROVE BotTypeOK'
<1>1. CASE ConsumerEnds \/ ConsumerWaits \/ GetTimesOut
  <2>1. /\ UNCHANGED <<net, file, made, up, poller, flags, plans, hit, ghosts>>
        /\ cons' \in {"done", "get", "top"} /\ hand' \in {0, hand}
    BY <1>1 DEF ConsumerEnds, ConsumerWaits, GetTimesOut
  <2> QED BY <2>1 DEF net, poller, flags, plans, hit, ghosts, BotTypeOK
<1>2. CASE PutBack
  <2>1. PICK i \in Updates : /\ Gets(i) /\ queue' = Append(Rest, i)
                             /\ moved' = moved \union {i}
    BY <1>2 DEF PutBack
  <2>2. i \in 1 .. Len(inbox) /\ Rest \in Seq(1 .. Len(inbox))
    BY <2>1, GetsAPlan
  <2>3. queue' \in Seq(1 .. Len(inbox))
    BY <2>1, <2>2
  <2>4. moved' \subseteq 1 .. Len(inbox)
    BY <2>1, <2>2 DEF BotTypeOK
  <2> QED BY <1>2, <2>3, <2>4 DEF PutBack, net, poller, flags, hit, BotTypeOK
<1>3. CASE InitProject
  <2>1. PICK i \in Updates : Takes(i) /\ (Initialised(i) \/ NotInitialised(i))
    BY <1>3 DEF InitProject
  <2>2. /\ i \in 1 .. Len(inbox) /\ Plan(i) \in Projects /\ Rest \in Seq(1 .. Len(inbox))
    BY <2>1, GetsAPlan DEF Takes
  <2>3. taken' \in Seq(1 .. Len(inbox)) /\ queue' \in Seq(1 .. Len(inbox))
    BY <2>1, <2>2 DEF Takes, BotTypeOK
  <2>4. /\ made' \subseteq Projects /\ cons' \in {"launch", "finish"}
        /\ hand' \in 0 .. Len(inbox) /\ told' \subseteq 1 .. Len(inbox)
    <3>1. told \subseteq 1 .. Len(inbox) /\ made \subseteq Projects /\ Len(inbox) \in Nat
      BY DEF BotTypeOK
    <3>2. CASE Initialised(i)
      BY <2>2, <3>1, <3>2 DEF Initialised
    <3>3. CASE NotInitialised(i)
      BY <2>2, <3>1, <3>3 DEF NotInitialised, TellsUser
    <3> QED BY <2>1, <3>2, <3>3
  <2>5. faults' \in 0 .. MaxFaults /\ disturbed' \in BOOLEAN
    BY <2>1, FaultTypes DEF Initialised, NotInitialised, hit, BotTypeOK
  <2> QED BY <2>1, <2>3, <2>4, <2>5 DEF Takes, net, poller, flags, BotTypeOK
<1>4. CASE Launch
  <2>1. launched' \in Seq(1 .. Len(inbox))
    BY <1>4 DEF Launch, PlansWait, BotTypeOK
  <2> QED BY <1>4, <2>1 DEF Launch, net, poller, flags, plans, hit, BotTypeOK
<1>5. CASE LaunchFails
  <2>1. told' \subseteq 1 .. Len(inbox)
    BY <1>5 DEF LaunchFails, TellsUser, PlansWait, BotTypeOK
  <2> QED BY <1>5, <2>1, FaultTypes
          DEF LaunchFails, TellsUser, net, poller, flags, plans, BotTypeOK
<1>6. CASE Finish
  <2>1. CASE unfinished = 0
    BY <1>6, <2>1, AbsentTypes DEF Finish, net, hit, BotTypeOK
  <2>2. CASE unfinished # 0
    <3>1. /\ UNCHANGED <<net, file, made, up, poller, hand, flags, queue, hit, launched,
                          taken, moved, told>>
          /\ cons' = "top" /\ unfinished' = unfinished - 1
      BY <1>6, <2>2 DEF Finish
    <3>2. unfinished' \in Nat
      BY <2>2, <3>1 DEF BotTypeOK
    <3> QED BY <3>1, <3>2 DEF net, poller, flags, hit, BotTypeOK
  <2> QED BY <2>1, <2>2
<1> QED BY <1>1, <1>2, <1>3, <1>4, <1>5, <1>6 DEF Consumer

\* The inbox only grows: what was an update stays one.
LEMMA Grows ==
  ASSUME BotTypeOK, UserSends
  PROVE  /\ inbox' \in Seq(Projects \union Commands) /\ Len(inbox) \in Nat
         /\ Len(inbox') = Len(inbox) + 1 /\ Len(inbox') <= MaxUpdates
         /\ 1 .. Len(inbox) \subseteq 1 .. Len(inbox')
         /\ \A i \in 1 .. Len(inbox) : inbox'[i] = inbox[i]
<1>1. PICK u \in Projects \union Commands : inbox' = Append(inbox, u)
  BY DEF UserSends
<1> QED BY <1>1, BotAssumption DEF UserSends, BotTypeOK

LEMMA UserTypes == ASSUME BotTypeOK, UserSends PROVE BotTypeOK'
<1>1. /\ batch \in Seq(1 .. Len(inbox')) /\ queue \in Seq(1 .. Len(inbox'))
      /\ launched \in Seq(1 .. Len(inbox')) /\ taken \in Seq(1 .. Len(inbox'))
  BY Grows, SeqMonotonic DEF BotTypeOK
<1>2. /\ UNCHANGED <<confirmed, file, made, up, poller, consumer, flags, plans, hit, ghosts>>
      /\ inbox' \in Seq(Projects \union Commands) /\ Len(inbox') <= MaxUpdates
      /\ Len(inbox) \in Nat /\ Len(inbox') = Len(inbox) + 1
  BY Grows DEF UserSends
<1>3. told \subseteq 1 .. Len(inbox') /\ moved \subseteq 1 .. Len(inbox')
  BY Grows DEF BotTypeOK
<1>4. /\ confirmed \in 0 .. Len(inbox') /\ file \in 0 .. Len(inbox')
      /\ offset \in 0 .. Len(inbox') /\ hand \in 0 .. Len(inbox')
  BY <1>2 DEF BotTypeOK
<1> QED BY <1>1, <1>2, <1>3, <1>4
        DEF poller, consumer, flags, plans, hit, ghosts, BotTypeOK

LEMMA BotTypes == ASSUME BotTypeOK, PlansWait, Next PROVE BotTypeOK'
<1>1. CASE BotEnds \/ Crash
  BY <1>1, FaultTypes, AbsentTypes DEF BotEnds, Crash, net, hit, BotTypeOK
<1>2. CASE RunByHand \/ RunnerStep
  BY <1>2 DEF RunByHand, RunnerStep, botvars, net, poller, consumer, flags, plans,
              hit, ghosts, BotTypeOK
<1>3. CASE RunnerFails
  BY <1>3, FaultTypes DEF RunnerFails, net, poller, consumer, flags, plans, ghosts, BotTypeOK
<1> QED BY <1>1, <1>2, <1>3, PollTypes, HandleTypes, ConsumerTypes, UserTypes DEF Next

-----------------------------------------------------------------------------
(***************************************************************************)
(* What waits is a plan, and no project is made or launched twice.         *)
(***************************************************************************)

\* The consumer gets the first plan of the queue, or the one a queue that was
\* left behind had given it.
LEMMA GetsFirst ==
  ASSUME BotTypeOK, NEW i, Gets(i)
  PROVE  \/ /\ cons = "get" /\ queue # <<>> /\ i = queue[1]
            /\ Rest \in Seq(1 .. Len(inbox)) /\ Len(Rest) = Len(queue) - 1
            /\ \A k \in 1 .. Len(Rest) : Rest[k] = queue[k + 1]
         \/ cons = "stale" /\ hand # 0 /\ i = hand /\ Rest = queue
<1>1. CASE cons = "get"
  <2>1. queue # <<>> /\ i = Head(queue) /\ Rest = Tail(queue)
    BY <1>1 DEF Gets, Rest
  <2>2. Rest \in Seq(1 .. Len(inbox)) /\ Len(Rest) = Len(queue) - 1
        /\ \A k \in 1 .. Len(Rest) : Rest[k] = queue[k + 1]
    BY <2>1, HeadTailProperties DEF BotTypeOK
  <2> QED BY <1>1, <2>1, <2>2 DEF BotTypeOK
<1>2. CASE cons # "get"
  BY <1>2 DEF Gets, Rest
<1> QED BY <1>1, <1>2

\* What is left was in the queue.
LEMMA RestWaited ==
  ASSUME BotTypeOK, NEW i, Gets(i)
  PROVE  /\ Rest \in Seq(1 .. Len(inbox))
         /\ \A k \in DOMAIN Rest : \E j \in DOMAIN queue : Rest[k] = queue[j]
<1>1. queue \in Seq(1 .. Len(inbox))
  BY DEF BotTypeOK
<1>2. CASE cons = "get"
  <2>1. /\ queue # <<>> /\ Rest \in Seq(1 .. Len(inbox)) /\ Len(Rest) = Len(queue) - 1
        /\ \A k \in 1 .. Len(Rest) : Rest[k] = queue[k + 1]
    BY <1>2, GetsFirst
  <2>2. \A k \in DOMAIN Rest : k \in 1 .. Len(Rest) /\ k + 1 \in DOMAIN queue
    BY <1>1, <2>1
  <2> QED BY <2>1, <2>2
<1>3. CASE cons # "get"
  BY <1>1, <1>3, GetsFirst
<1> QED BY <1>2, <1>3

PlanVars == <<inbox, up, queue, cons, hand>>

LEMMA PlansWaitStutters == ASSUME PlansWait, UNCHANGED PlanVars PROVE PlansWait'
  BY DEF PlansWait, PlanVars, IsPlan

LEMMA AbsentHoldsNothing == ASSUME Absent PROVE PlansWait'
  BY DEF PlansWait, Absent

LEMMA HandleKeepsPlans == ASSUME BotTypeOK, PlansWait, Handle PROVE PlansWait'
<1>1. inbox' = inbox /\ up /\ up' = up
  BY DEF Handle, HandlePlan, HandleRefused, HandlePause, HandleStop, HandlerRaises,
         Handling, Handled, net
<1>2. CASE HandlePlan
  <2>1. batch \in Seq(1 .. Len(inbox)) /\ batch # <<>> /\ IsPlan(Head(batch))
    BY <1>2 DEF HandlePlan, Handling, Update, IsPlan, BotTypeOK
  <2>2. queue \in Seq(1 .. Len(inbox)) /\ queue' = Append(queue, Head(batch))
    BY <1>2 DEF HandlePlan, BotTypeOK
  <2>3. \A k \in DOMAIN queue' : queue'[k] = Head(batch) \/ \E j \in DOMAIN queue : queue'[k] = queue[j]
    BY <2>2
  <2>4. cons' = cons /\ hand' = hand
    BY <1>2 DEF HandlePlan, consumer
  <2> QED BY <1>1, <2>1, <2>3, <2>4 DEF PlansWait, IsPlan
<1>3. CASE HandleStop
  <2>1. /\ queue' = <<>>
        /\ \/ cons' = cons /\ hand' = hand
           \/ /\ cons = "get" /\ cons' = "stale"
              /\ hand' = IF queue = <<>> THEN 0 ELSE Head(queue)
    BY <1>3 DEF HandleStop, consumer
  <2>2. queue # <<>> => 1 \in DOMAIN queue /\ Head(queue) = queue[1]
    BY DEF BotTypeOK
  <2> QED BY <1>1, <2>1, <2>2 DEF PlansWait, IsPlan
<1>4. CASE HandleRefused \/ HandlePause \/ HandlerRaises
  <2>1. UNCHANGED <<queue, cons, hand>>
    BY <1>4 DEF HandleRefused, HandlePause, HandlerRaises, plans, consumer
  <2> QED BY <1>1, <2>1, PlansWaitStutters DEF PlanVars
<1> QED BY <1>2, <1>3, <1>4 DEF Handle

LEMMA ConsumerKeepsPlans == ASSUME BotTypeOK, PlansWait, Consumer PROVE PlansWait'
<1>1. CASE ConsumerEnds \/ ConsumerWaits \/ GetTimesOut
  <2>1. /\ inbox' = inbox /\ queue' = queue /\ cons' \in {"done", "get", "top"} /\ up /\ up' = up
        /\ \/ hand' = 0
           \/ hand' = hand /\ cons = "top"
    BY <1>1 DEF ConsumerEnds, ConsumerWaits, GetTimesOut, net, plans
  <2> QED BY <2>1 DEF PlansWait, IsPlan
<1>2. CASE PutBack
  <2>1. PICK i \in Updates : Gets(i) /\ queue' = Append(Rest, i)
    BY <1>2 DEF PutBack
  <2>2. Rest \in Seq(1 .. Len(inbox)) /\ i \in 1 .. Len(inbox) /\ IsPlan(i)
    BY <2>1, GetsAPlan DEF IsPlan, Plan
  <2>3. \A k \in DOMAIN Rest : \E j \in DOMAIN queue : Rest[k] = queue[j]
    BY <2>1, RestWaited
  <2>4. \A k \in DOMAIN queue' : queue'[k] = i \/ \E j \in DOMAIN Rest : queue'[k] = Rest[j]
    BY <2>1, <2>2
  <2>5. inbox' = inbox /\ cons' = "top" /\ hand' = 0 /\ up /\ up' = up
    BY <1>2 DEF PutBack, net
  <2> QED BY <2>2, <2>3, <2>4, <2>5 DEF PlansWait, IsPlan
<1>3. CASE InitProject
  <2>1. PICK i \in Updates : Takes(i) /\ (Initialised(i) \/ NotInitialised(i))
    BY <1>3 DEF InitProject
  <2>2. Rest \in Seq(1 .. Len(inbox)) /\ i \in 1 .. Len(inbox) /\ IsPlan(i) /\ Gets(i)
    BY <2>1, GetsAPlan DEF IsPlan, Plan, Takes
  <2>3. \A k \in DOMAIN Rest : \E j \in DOMAIN queue : Rest[k] = queue[j]
    BY <2>2, RestWaited
  <2>4. inbox' = inbox /\ queue' = Rest /\ up /\ up' = up
    BY <2>1 DEF Takes, net
  <2>5. (cons' = "launch" /\ hand' = i) \/ (cons' = "finish" /\ hand' = 0)
    BY <2>1 DEF Initialised, NotInitialised, TellsUser
  <2> QED BY <2>2, <2>3, <2>4, <2>5 DEF PlansWait, IsPlan
<1>4. CASE Launch \/ LaunchFails
  <2>1. inbox' = inbox /\ queue' = queue /\ cons' = "finish" /\ hand' = 0 /\ up /\ up' = up
    BY <1>4 DEF Launch, LaunchFails, TellsUser, net, plans
  <2> QED BY <2>1 DEF PlansWait, IsPlan
<1>5. CASE Finish
  <2>1. CASE unfinished = 0
    BY <1>5, <2>1, AbsentHoldsNothing DEF Finish
  <2>2. CASE unfinished # 0
    <3>1. /\ inbox' = inbox /\ queue' = queue /\ cons = "finish" /\ cons' = "top" /\ hand' = hand
          /\ up /\ up' = up
      BY <1>5, <2>2 DEF Finish, net
    <3> QED BY <3>1 DEF PlansWait, IsPlan
  <2> QED BY <2>1, <2>2
<1> QED BY <1>1, <1>2, <1>3, <1>4, <1>5 DEF Consumer

LEMMA PlansStayPlans == ASSUME BotTypeOK, PlansWait, Next PROVE PlansWait'
<1>1. CASE PollFails \/ PollAnswered \/ PollEnds \/ RunByHand \/ RunnerStep \/ RunnerFails
  <2>1. UNCHANGED PlanVars
    BY <1>1 DEF PollFails, PollAnswered, PollEnds, RunByHand, RunnerStep, RunnerFails,
                botvars, net, consumer, plans, PlanVars
  <2> QED BY <2>1, PlansWaitStutters
<1>2. CASE BotStarts
  <2>1. inbox' = inbox /\ queue' = queue /\ hand' = hand /\ cons' = "top" /\ up'
    BY <1>2 DEF BotStarts, net, plans
  <2>2. hand = 0
    BY <1>2 DEF BotStarts, PlansWait
  <2> QED BY <2>1, <2>2 DEF PlansWait, IsPlan
<1>3. CASE TornSave \/ BotEnds \/ Crash
  BY <1>3, AbsentHoldsNothing DEF TornSave, BotEnds, Crash
<1>4. CASE UserSends
  <2>1. UNCHANGED <<up, queue, cons, hand>>
    BY <1>4 DEF UserSends, plans, consumer
  <2>2. \A k \in DOMAIN queue : queue[k] \in 1 .. Len(inbox)
    BY DEF BotTypeOK
  <2>3. hand # 0 => hand \in 1 .. Len(inbox)
    BY DEF BotTypeOK
  <2> QED BY <1>4, <2>1, <2>2, <2>3, Grows DEF PlansWait, IsPlan
<1> QED BY <1>1, <1>2, <1>3, <1>4, HandleKeepsPlans, ConsumerKeepsPlans DEF Next

OneLaunchEach == MadeFirst /\ NoProjectTwice

\* A step that launches nothing, and takes up nothing new.
LEMMA NoLaunch ==
  ASSUME OneLaunchEach, inbox' = inbox, launched' = launched, made \subseteq made',
         cons' # "launch" \/ (cons' = cons /\ hand' = hand)
  PROVE  OneLaunchEach'
  BY DEF OneLaunchEach, MadeFirst, NoProjectTwice, Plan

LEMMA PollLaunchesNothing ==
  ASSUME OneLaunchEach, PollFails \/ PollAnswered \/ TornSave \/ PollEnds \/ BotStarts \/ Handle
  PROVE  OneLaunchEach'
<1>1. inbox' = inbox /\ launched' = launched /\ made' = made
  BY DEF PollFails, PollAnswered, TornSave, PollEnds, BotStarts, Handle, HandlePlan,
         HandleRefused, HandlePause, HandleStop, HandlerRaises, Handled, net, ghosts
<1>2. CASE PollFails \/ PollAnswered \/ PollEnds
  BY <1>1, <1>2, NoLaunch DEF PollFails, PollAnswered, PollEnds, consumer
<1>3. CASE TornSave \/ BotStarts
  BY <1>1, <1>3, NoLaunch DEF TornSave, BotStarts, Absent
<1>4. CASE Handle
  BY <1>1, <1>4, NoLaunch DEF Handle, HandlePlan, HandleRefused, HandlePause, HandleStop,
                              HandlerRaises, Handled, consumer
<1> QED BY <1>2, <1>3, <1>4

LEMMA ConsumerLaunchesOnce ==
  ASSUME BotTypeOK, PlansWait, OneLaunchEach, Consumer PROVE OneLaunchEach'
<1>1. CASE ConsumerEnds \/ ConsumerWaits \/ GetTimesOut \/ PutBack
  <2>1. inbox' = inbox /\ launched' = launched /\ made' = made /\ cons' # "launch"
    BY <1>1 DEF ConsumerEnds, ConsumerWaits, GetTimesOut, PutBack, net, ghosts
  <2> QED BY <2>1, NoLaunch
<1>2. CASE InitProject
  <2>1. PICK i \in Updates : Takes(i) /\ (Initialised(i) \/ NotInitialised(i))
    BY <1>2 DEF InitProject
  <2>2. inbox' = inbox /\ launched' = launched
    BY <2>1 DEF Takes, net
  <2>3. CASE Initialised(i)
    BY <2>2, <2>3 DEF Initialised, OneLaunchEach, MadeFirst, NoProjectTwice, Plan
  <2>4. CASE NotInitialised(i)
    <3>1. made \subseteq made' /\ cons' # "launch"
      BY <2>4 DEF NotInitialised, TellsUser
    <3> QED BY <2>2, <3>1, NoLaunch
  <2> QED BY <2>1, <2>3, <2>4
<1>3. CASE Launch
  <2>1. /\ inbox' = inbox /\ made' = made /\ cons = "launch" /\ cons' = "finish"
        /\ launched' = Append(launched, hand)
    BY <1>3 DEF Launch, net
  <2>2. /\ DOMAIN launched' = 1 .. Len(launched) + 1 /\ Len(launched) \in Nat
        /\ launched'[Len(launched) + 1] = hand /\ DOMAIN launched = 1 .. Len(launched)
        /\ \A a \in DOMAIN launched : launched'[a] = launched[a]
    BY <1>3, <2>1 DEF PlansWait, BotTypeOK
  <2>3. \A a \in DOMAIN launched' : a \in DOMAIN launched \/ launched'[a] = hand
    BY <2>2
  <2>4. \A a, b \in DOMAIN launched' :
           a # b => a \in DOMAIN launched \/ b \in DOMAIN launched
    BY <2>2
  <2>5. MadeFirst'
    BY <2>1, <2>2, <2>3 DEF OneLaunchEach, MadeFirst, Plan
  <2>6. NoProjectTwice'
    BY <2>1, <2>2, <2>3, <2>4 DEF OneLaunchEach, MadeFirst, NoProjectTwice, Plan
  <2> QED BY <2>5, <2>6 DEF OneLaunchEach
<1>4. CASE LaunchFails \/ Finish
  <2>1. inbox' = inbox /\ launched' = launched /\ made' = made /\ cons' # "launch"
    BY <1>4 DEF LaunchFails, Finish, TellsUser, Absent, net, ghosts
  <2> QED BY <2>1, NoLaunch
<1> QED BY <1>1, <1>2, <1>3, <1>4 DEF Consumer

LEMMA LaunchesOnce ==
  ASSUME BotTypeOK, PlansWait, OneLaunchEach, Next PROVE OneLaunchEach'
<1>1. CASE UserSends
  <2>1. UNCHANGED <<made, launched, cons, hand>>
    BY <1>1 DEF UserSends, consumer, ghosts
  <2>2. \A a \in DOMAIN launched : launched[a] \in 1 .. Len(inbox)
    BY DEF BotTypeOK
  <2>3. cons = "launch" => hand \in 1 .. Len(inbox)
    BY DEF BotTypeOK, PlansWait
  <2> QED BY <1>1, <2>1, <2>2, <2>3, Grows
          DEF OneLaunchEach, MadeFirst, NoProjectTwice, Plan
<1>2. CASE BotEnds \/ Crash
  <2>1. inbox' = inbox /\ launched' = launched /\ made' = made /\ cons' # "launch"
    BY <1>2 DEF BotEnds, Crash, Absent, net
  <2> QED BY <2>1, NoLaunch
<1>3. CASE RunByHand \/ RunnerStep \/ RunnerFails
  <2>1. inbox' = inbox /\ launched' = launched /\ made' = made /\ cons' = cons /\ hand' = hand
    BY <1>3 DEF RunByHand, RunnerStep, RunnerFails, botvars, net, consumer, ghosts
  <2> QED BY <2>1, NoLaunch
<1> QED BY <1>1, <1>2, <1>3, PollLaunchesNothing, ConsumerLaunchesOnce DEF Next

-----------------------------------------------------------------------------
(***************************************************************************)
(* The order in which plans are taken.                                     *)
(***************************************************************************)

Order == Seen /\ Ahead /\ InTurn /\ NotOvertaken

OrderVars == <<up, queue, taken, batch, poll, offset, cons, hand, moved>>

LEMMA OrderStutters == ASSUME Order, UNCHANGED OrderVars PROVE Order'
  BY DEF Order, Seen, Ahead, InTurn, NotOvertaken, OrderVars

\* The consumer is elsewhere than at a queue that was left behind.
LEMMA OrderFrame ==
  ASSUME Order, UNCHANGED <<up, queue, taken, batch, poll, offset, moved>>,
         cons' # "stale" \/ (cons' = cons /\ hand' = hand)
  PROVE  Order'
  BY DEF Order, Seen, Ahead, InTurn, NotOvertaken

LEMMA AbsentOrder == ASSUME Absent PROVE Order'
<1>1. /\ queue' = <<>> /\ taken' = <<>> /\ batch' = <<>> /\ poll' = "done" /\ cons' = "done"
  BY DEF Absent
<1>2. \A k : k \notin DOMAIN <<>>
  OBVIOUS
<1> QED BY <1>1, <1>2 DEF Order, Seen, Ahead, InTurn, NotOvertaken

\* Updates are numbers, wherever they are.
LEMMA Numbers ==
  ASSUME BotTypeOK
  PROVE  /\ \A k \in DOMAIN queue : k \in Nat /\ queue[k] \in Nat
         /\ \A k \in DOMAIN taken : k \in Nat /\ taken[k] \in Nat
         /\ \A k \in DOMAIN batch : k \in Nat /\ batch[k] \in Nat
         /\ offset \in Nat /\ hand \in Nat /\ confirmed \in Nat /\ Len(inbox) \in Nat
  BY DEF BotTypeOK

LEMMA AfterHead ==
  ASSUME BotTypeOK, batch # <<>>
  PROVE  /\ 1 \in DOMAIN batch /\ Head(batch) = batch[1]
         /\ \A k \in DOMAIN Tail(batch) :
               k \in Nat /\ 0 < k /\ k + 1 \in DOMAIN batch /\ Tail(batch)[k] = batch[k + 1]
<1>1. batch \in Seq(1 .. Len(inbox))
  BY DEF BotTypeOK
<1> QED BY <1>1, HeadTailProperties

\* An element at the end.
LEMMA AtTheEnd ==
  ASSUME NEW S, NEW s \in Seq(S), NEW e
  PROVE  /\ \A k \in DOMAIN s : k \in DOMAIN Append(s, e) /\ Append(s, e)[k] = s[k]
                              /\ k < Len(s) + 1
         /\ \A k \in DOMAIN Append(s, e) :
               \/ k \in DOMAIN s /\ Append(s, e)[k] = s[k]
               \/ k = Len(s) + 1 /\ Append(s, e)[k] = e
         /\ Len(s) \in Nat
<1>1. /\ DOMAIN Append(s, e) = 1 .. Len(s) + 1 /\ Append(s, e)[Len(s) + 1] = e
      /\ \A k \in 1 .. Len(s) : Append(s, e)[k] = s[k]
      /\ DOMAIN s = 1 .. Len(s) /\ Len(s) \in Nat
  <2>1. s \in Seq(S \union {e})
    BY SeqMonotonic
  <2> QED BY <2>1
<1> QED BY <1>1

LEMMA AnswerInOrder == ASSUME BotTypeOK, Order, PollAnswered PROVE Order'
<1> USE DEF Order
<1>1. /\ UNCHANGED <<up, queue, taken, cons, hand, moved>> /\ up /\ poll' = "handle"
      /\ offset' = Len(inbox) /\ confirmed' >= offset
      /\ batch' = [k \in 1 .. Len(inbox) - confirmed' |-> confirmed' + k]
  BY DEF PollAnswered, Confirms, consumer, plans, ghosts, BotTypeOK
<1>2. /\ confirmed' \in Nat /\ Len(inbox) \in Nat /\ offset <= Len(inbox) /\ offset \in Nat
      /\ confirmed' >= offset
  BY DEF PollAnswered, Confirms, BotTypeOK
<1>3. \A k \in DOMAIN batch' : /\ k \in Nat /\ batch'[k] = confirmed' + k
                               /\ batch'[k] > offset /\ batch'[k] <= Len(inbox)
  <2>1. \A k \in 1 .. Len(inbox) - confirmed' :
           k \in Nat /\ confirmed' + k > offset /\ confirmed' + k <= Len(inbox)
    <3> DEFINE c == confirmed'
               n == Len(inbox)
    <3>1. c \in Nat /\ n \in Nat /\ offset \in Nat /\ c >= offset
      BY <1>2
    <3> HIDE DEF c, n
    <3>2. \A k \in 1 .. n - c : k \in Nat /\ c + k > offset /\ c + k <= n
      BY <3>1
    <3> QED BY <3>2 DEF c, n
  <2>2. /\ DOMAIN batch' = 1 .. Len(inbox) - confirmed'
        /\ \A k \in 1 .. Len(inbox) - confirmed' : batch'[k] = confirmed' + k
    BY <1>1, Zenon
  <2> QED BY <2>1, <2>2
<1>4. Seen'
  <2>1. \A k \in DOMAIN queue : queue[k] <= offset'
    BY <1>1, <1>2, Numbers DEF Seen
  <2>2. \A k \in DOMAIN taken : taken[k] <= offset'
    BY <1>1, <1>2, Numbers DEF Seen
  <2>3. cons = "stale" => hand <= offset'
    BY <1>1, <1>2, Numbers DEF Seen
  <2>4. \A k \in DOMAIN batch' : batch'[k] <= offset'
    BY <1>1, <1>3
  <2> QED BY <1>1, <2>1, <2>2, <2>3, <2>4 DEF Seen
<1>5. Ahead'
  <2> SUFFICES ASSUME NEW k \in DOMAIN batch'
               PROVE  /\ \A j \in DOMAIN queue' : queue'[j] < batch'[k]
                      /\ \A j \in DOMAIN taken' : taken'[j] < batch'[k]
                      /\ cons' = "stale" => hand' < batch'[k]
                      /\ \A j \in DOMAIN batch' : k < j => batch'[k] < batch'[j]
    BY DEF Ahead
  <2>1. batch'[k] > offset /\ batch'[k] \in Nat
    BY <1>2, <1>3
  <2>2. \A j \in DOMAIN queue : queue[j] < batch'[k]
    BY <1>2, <2>1, Numbers DEF Seen
  <2>3. \A j \in DOMAIN taken : taken[j] < batch'[k]
    BY <1>2, <2>1, Numbers DEF Seen
  <2>4. cons = "stale" => hand < batch'[k]
    BY <1>2, <2>1, Numbers DEF Seen
  <2>5. \A j \in DOMAIN batch' : k < j => batch'[k] < batch'[j]
    BY <1>2, <1>3
  <2> QED BY <1>1, <2>2, <2>3, <2>4, <2>5
<1> QED BY <1>1, <1>4, <1>5 DEF InTurn, NotOvertaken

LEMMA HandledInOrder ==
  ASSUME BotTypeOK, Order, Handling, Handled,
         UNCHANGED <<queue, taken, cons, hand, moved>>
  PROVE  Order'
<1> USE DEF Order
<1>1. /\ batch' = Tail(batch) /\ batch # <<>> /\ offset' = offset /\ up' = up /\ up
      /\ (poll' # "handle" => batch' = <<>>)
  BY DEF Handling, Handled
<1>2. \A k \in DOMAIN batch' : k \in Nat /\ k + 1 \in DOMAIN batch /\ batch'[k] = batch[k + 1]
  BY <1>1, AfterHead
<1>3. Seen'
  BY <1>1, <1>2 DEF Seen
<1>4. Ahead'
  BY <1>1, <1>2 DEF Ahead
<1> QED BY <1>3, <1>4 DEF InTurn, NotOvertaken

LEMMA PlanQueuesInOrder == ASSUME BotTypeOK, Order, HandlePlan PROVE Order'
<1> USE DEF Order
<1> DEFINE h == Head(batch)
<1>1. /\ batch' = Tail(batch) /\ batch # <<>> /\ offset' = offset /\ up' = up /\ up
      /\ (poll' # "handle" => batch' = <<>>) /\ queue' = Append(queue, h)
      /\ UNCHANGED <<taken, cons, hand, moved>>
  BY DEF HandlePlan, Handling, Handled, consumer, ghosts
<1>2. /\ 1 \in DOMAIN batch /\ h = batch[1] /\ h \in Nat
      /\ \A k \in DOMAIN batch' : /\ k \in Nat /\ 0 < k /\ k + 1 \in DOMAIN batch
                                  /\ batch'[k] = batch[k + 1]
  BY <1>1, AfterHead, Numbers
<1>3. /\ \A k \in DOMAIN queue : k < Len(queue) + 1
      /\ \A k \in DOMAIN queue' :
            \/ k \in DOMAIN queue /\ queue'[k] = queue[k]
            \/ k = Len(queue) + 1 /\ queue'[k] = h
      /\ Len(queue) \in Nat
  <2>1. queue \in Seq(1 .. Len(inbox))
    BY DEF BotTypeOK
  <2> QED BY <1>1, <2>1, AtTheEnd
<1> HIDE DEF h
<1>4. \A k \in DOMAIN queue : queue[k] < h
  BY <1>2 DEF Ahead
<1>5. \A k \in DOMAIN taken : taken[k] < h
  BY <1>2 DEF Ahead
<1>6. \A k \in DOMAIN batch' : h < batch'[k]
  BY <1>2, Numbers DEF Ahead
<1>7. Seen'
  BY <1>1, <1>2, <1>3 DEF Seen
<1>8. Ahead'
  BY <1>1, <1>2, <1>3, <1>6 DEF Ahead
<1>9. InTurn'
  <2>1. ASSUME NEW a \in DOMAIN queue', NEW b \in DOMAIN queue', a < b, queue'[b] < queue'[a]
        PROVE  queue'[b] \in moved'
    BY <1>1, <1>3, <1>4, <2>1, <1>2, Numbers DEF InTurn
  <2>2. ASSUME NEW a \in DOMAIN taken', NEW b \in DOMAIN queue', queue'[b] < taken'[a]
        PROVE  queue'[b] \in moved'
    BY <1>1, <1>2, <1>3, <1>5, <2>2, Numbers DEF InTurn
  <2>3. cons' = "stale" /\ hand' # 0 => \A b \in DOMAIN queue' : hand' < queue'[b]
    BY <1>1, <1>2, <1>3 DEF InTurn, Ahead
  <2> QED BY <1>1, <2>1, <2>2, <2>3 DEF InTurn
<1> QED BY <1>1, <1>7, <1>8, <1>9 DEF NotOvertaken

\* /stop: the plan a waiting consumer was already woken for was the first of the
\* queue, and all that comes now is later.
LEMMA StopKeepsOrder == ASSUME BotTypeOK, Order, HandleStop PROVE Order'
<1> USE DEF Order
<1>1. /\ batch' = Tail(batch) /\ batch # <<>> /\ offset' = offset /\ up' = up /\ up
      /\ (poll' # "handle" => batch' = <<>>) /\ queue' = <<>>
      /\ UNCHANGED <<taken, moved>>
  BY DEF HandleStop, Handling, Handled, ghosts
<1>2. \A k \in DOMAIN batch' : k \in Nat /\ k + 1 \in DOMAIN batch /\ batch'[k] = batch[k + 1]
  BY <1>1, AfterHead
<1>3. \A k : k \notin DOMAIN queue'
  BY <1>1
<1>4. \/ cons' = cons /\ hand' = hand
      \/ cons = "get" /\ cons' = "stale" /\ hand' = 0
      \/ cons = "get" /\ cons' = "stale" /\ 1 \in DOMAIN queue /\ hand' = queue[1]
  <2>1. queue # <<>> => 1 \in DOMAIN queue /\ Head(queue) = queue[1]
    BY DEF BotTypeOK
  <2> QED BY <2>1 DEF HandleStop, consumer
<1>5. cons' = "stale" => hand' <= offset
  BY <1>4, Numbers DEF Seen
<1>6. Seen'
  BY <1>1, <1>2, <1>3, <1>5 DEF Seen
<1>7. \A k \in DOMAIN batch : cons' = "stale" => hand' < batch[k]
  <2>1. \A k \in DOMAIN batch : batch[k] \in Nat \ {0}
    BY DEF BotTypeOK
  <2> QED BY <1>4, <2>1 DEF Ahead
<1>8. Ahead'
  BY <1>1, <1>2, <1>3, <1>7 DEF Ahead
<1>9. cons' = "stale" /\ hand' # 0 => \A a \in DOMAIN taken : hand' < taken[a] => hand' \in moved
  BY <1>4 DEF InTurn
<1>10. InTurn'
  BY <1>1, <1>3, <1>9 DEF InTurn
<1> QED BY <1>1, <1>6, <1>8, <1>10 DEF NotOvertaken

\* What the consumer gets is in its turn, and leaves the rest in its own.
LEMMA GetsInTurn ==
  ASSUME BotTypeOK, Order, NEW i \in Updates, Gets(i)
  PROVE  /\ i <= offset /\ i \in Nat
         /\ \A k \in DOMAIN batch : i < batch[k]
         /\ \A a \in DOMAIN taken : i < taken[a] => i \in moved
         /\ \A k \in DOMAIN Rest : Rest[k] < i => Rest[k] \in moved
         /\ \A a, b \in DOMAIN Rest : a < b /\ Rest[b] < Rest[a] => Rest[b] \in moved
         /\ Rest \in Seq(1 .. Len(inbox))
<1> USE DEF Order
<1>1. queue \in Seq(1 .. Len(inbox)) /\ Rest \in Seq(1 .. Len(inbox)) /\ i \in Nat
  BY RestWaited, BotAssumption DEF BotTypeOK, Updates
<1>2. CASE cons = "get"
  <2>1. /\ 1 \in DOMAIN queue /\ i = queue[1]
        /\ \A k \in DOMAIN Rest : k \in Nat /\ k + 1 \in DOMAIN queue /\ 1 < k + 1 /\ Rest[k] = queue[k + 1]
    <3>1. /\ queue # <<>> /\ i = queue[1] /\ Len(Rest) = Len(queue) - 1
          /\ \A k \in 1 .. Len(Rest) : Rest[k] = queue[k + 1]
      BY <1>2, GetsFirst
    <3> QED BY <1>1, <3>1
  <2>2. i <= offset /\ \A k \in DOMAIN batch : i < batch[k]
    BY <2>1 DEF Seen, Ahead
  <2>3. \A a \in DOMAIN taken : i < taken[a] => i \in moved
    BY <2>1 DEF InTurn
  <2>4. \A k \in DOMAIN Rest : Rest[k] < i => Rest[k] \in moved
    BY <2>1 DEF InTurn
  <2>5. \A a, b \in DOMAIN Rest : a < b /\ Rest[b] < Rest[a] => Rest[b] \in moved
    <3> SUFFICES ASSUME NEW a \in DOMAIN Rest, NEW b \in DOMAIN Rest, a < b, Rest[b] < Rest[a]
                 PROVE  Rest[b] \in moved
      OBVIOUS
    <3>1. a + 1 \in DOMAIN queue /\ b + 1 \in DOMAIN queue /\ a + 1 < b + 1
      BY <2>1
    <3> QED BY <2>1, <3>1 DEF InTurn
  <2> QED BY <1>1, <2>2, <2>3, <2>4, <2>5
<1>3. CASE cons # "get"
  <2>1. cons = "stale" /\ hand # 0 /\ i = hand /\ Rest = queue
    BY <1>3, GetsFirst
  <2>2. \A k \in DOMAIN Rest : ~(Rest[k] < i)
    BY <1>1, <2>1, Numbers DEF InTurn
  <2> QED BY <1>1, <2>1, <2>2 DEF Seen, Ahead, InTurn
<1> QED BY <1>2, <1>3

LEMMA PutBackIsMoved == ASSUME BotTypeOK, Order, PutBack PROVE Order'
<1> USE DEF Order
<1>1. PICK i \in Updates : /\ Gets(i) /\ queue' = Append(Rest, i)
                          /\ moved' = moved \union {i}
  BY DEF PutBack
<1>2. /\ UNCHANGED <<up, taken, batch, poll, offset>> /\ cons' = "top" /\ up
  BY DEF PutBack, poller
<1>3. /\ \A k \in DOMAIN queue' :
            \/ k \in DOMAIN Rest /\ queue'[k] = Rest[k]
            \/ k = Len(Rest) + 1 /\ queue'[k] = i
      /\ \A k \in DOMAIN Rest : k < Len(Rest) + 1
      /\ Len(Rest) \in Nat
  BY <1>1, GetsInTurn, AtTheEnd
<1>4. \A k \in DOMAIN Rest : \E j \in DOMAIN queue : Rest[k] = queue[j]
  BY <1>1, RestWaited
<1>5. Seen'
  BY <1>1, <1>2, <1>3, <1>4, GetsInTurn DEF Seen
<1>6. Ahead'
  BY <1>1, <1>2, <1>3, <1>4, GetsInTurn DEF Ahead
<1>7. \A a, b \in DOMAIN queue' : a < b /\ queue'[b] < queue'[a] => queue'[b] \in moved'
  <2> SUFFICES ASSUME NEW a \in DOMAIN queue', NEW b \in DOMAIN queue', a < b,
                      queue'[b] < queue'[a]
               PROVE  queue'[b] \in moved'
    OBVIOUS
  <2>1. CASE b \in DOMAIN Rest /\ queue'[b] = Rest[b]
    <3>1. a \in DOMAIN Rest /\ queue'[a] = Rest[a]
      BY <1>1, <1>3, <2>1, GetsInTurn
    <3> QED BY <1>1, <2>1, <3>1, GetsInTurn
  <2> QED BY <1>1, <1>3, <2>1
<1>8. \A a \in DOMAIN taken, b \in DOMAIN queue' : queue'[b] < taken[a] => queue'[b] \in moved'
  BY <1>1, <1>3, <1>4 DEF InTurn
<1>9. InTurn'
  BY <1>2, <1>7, <1>8 DEF InTurn
<1> QED BY <1>1, <1>2, <1>5, <1>6, <1>9 DEF NotOvertaken

LEMMA TakenInTurn ==
  ASSUME BotTypeOK, Order, NEW i \in Updates, Takes(i), cons' # "stale"
  PROVE  Order'
<1> USE DEF Order
<1>1. /\ UNCHANGED <<up, batch, poll, offset, moved>> /\ up /\ Gets(i)
      /\ queue' = Rest /\ taken' = Append(taken, i)
  BY DEF Takes, poller
<1>2. /\ \A k \in DOMAIN taken' :
            \/ k \in DOMAIN taken /\ taken'[k] = taken[k]
            \/ k = Len(taken) + 1 /\ taken'[k] = i
      /\ \A k \in DOMAIN taken : k < Len(taken) + 1
      /\ Len(taken) \in Nat
  <2>1. taken \in Seq(1 .. Len(inbox))
    BY DEF BotTypeOK
  <2> QED BY <1>1, <2>1, AtTheEnd
<1>3. \A k \in DOMAIN Rest : \E j \in DOMAIN queue : Rest[k] = queue[j]
  BY <1>1, RestWaited
<1>4. Seen'
  BY <1>1, <1>2, <1>3, GetsInTurn DEF Seen
<1>5. Ahead'
  BY <1>1, <1>2, <1>3, GetsInTurn DEF Ahead
<1>6. \A a \in DOMAIN taken', b \in DOMAIN queue' : queue'[b] < taken'[a] => queue'[b] \in moved
  BY <1>1, <1>2, <1>3, GetsInTurn DEF InTurn
<1>7. InTurn'
  BY <1>1, <1>6, GetsInTurn DEF InTurn
<1>8. NotOvertaken'
  <2> SUFFICES ASSUME NEW a \in DOMAIN taken', NEW b \in DOMAIN taken', a < b,
                      taken'[b] < taken'[a]
               PROVE  taken'[b] \in moved
    BY <1>1 DEF NotOvertaken
  <2>1. a \in DOMAIN taken /\ taken'[a] = taken[a]
    BY <1>2, Numbers
  <2> QED BY <1>1, <1>2, <2>1, GetsInTurn DEF NotOvertaken
<1> QED BY <1>4, <1>5, <1>7, <1>8

LEMMA TakesInOrder == ASSUME BotTypeOK, Order, Next PROVE Order'
<1>1. CASE UNCHANGED <<up, queue, taken, batch, poll, offset, moved>> /\ cons' # "stale"
  BY <1>1, OrderFrame
<1>2. CASE PollFails \/ UserSends \/ RunByHand \/ RunnerStep \/ RunnerFails
  <2>1. UNCHANGED OrderVars
    BY <1>2 DEF PollFails, UserSends, RunByHand, RunnerStep, RunnerFails, botvars, poller,
                consumer, plans, ghosts, OrderVars
  <2> QED BY <2>1, OrderStutters
<1>3. CASE BotStarts
  <2>1. /\ queue' = queue /\ taken' = taken /\ batch' = batch /\ moved' = moved
        /\ cons' = "top" /\ up' /\ ~up
    BY <1>3 DEF BotStarts, plans, ghosts
  <2>2. queue = <<>> /\ taken = <<>> /\ batch = <<>> /\ \A k : k \notin DOMAIN <<>>
    BY <2>1 DEF Order, Seen
  <2> QED BY <2>1, <2>2 DEF Order, Seen, Ahead, InTurn, NotOvertaken
<1>4. CASE TornSave \/ BotEnds \/ Crash
  BY <1>4, AbsentOrder DEF TornSave, BotEnds, Crash
<1>5. CASE PollEnds
  <2>1. UNCHANGED <<up, queue, taken, batch, offset, cons, hand, moved>> /\ poll = "poll"
    BY <1>5 DEF PollEnds, plans, ghosts, consumer
  <2> QED BY <2>1 DEF Order, Seen, Ahead, InTurn, NotOvertaken
<1>6. CASE HandleRefused \/ HandlePause
  <2>1. Handling /\ Handled /\ UNCHANGED <<queue, taken, cons, hand, moved>>
    BY <1>6 DEF HandleRefused, HandlePause, plans, consumer, ghosts
  <2> QED BY <2>1, HandledInOrder
<1>7. CASE HandlerRaises
  <2>1. UNCHANGED <<up, queue, taken, offset, cons, hand, moved>> /\ batch' = <<>> /\ poll' = "poll"
    BY <1>7 DEF HandlerRaises, plans, ghosts, consumer
  <2>2. \A k : k \notin DOMAIN batch'
    BY <2>1
  <2> QED BY <2>1, <2>2 DEF Order, Seen, Ahead, InTurn, NotOvertaken
<1>8. CASE ConsumerEnds \/ ConsumerWaits \/ GetTimesOut \/ Launch \/ LaunchFails
  BY <1>1, <1>8 DEF ConsumerEnds, ConsumerWaits, GetTimesOut, Launch, LaunchFails, TellsUser,
                    poller, plans, ghosts
<1>9. CASE InitProject
  <2>1. PICK i \in Updates : Takes(i) /\ (Initialised(i) \/ NotInitialised(i))
    BY <1>9 DEF InitProject
  <2>2. cons' # "stale"
    BY <2>1 DEF Initialised, NotInitialised, TellsUser
  <2> QED BY <2>1, <2>2, TakenInTurn
<1>10. CASE Finish
  <2>1. Absent \/ (UNCHANGED <<up, queue, taken, batch, poll, offset, moved>> /\ cons' = "top")
    BY <1>10 DEF Finish, poller
  <2> QED BY <1>1, <2>1, AbsentOrder
<1> QED BY <1>2, <1>3, <1>4, <1>5, <1>6, <1>7, <1>8, <1>9, <1>10, AnswerInOrder,
           PlanQueuesInOrder, StopKeepsOrder, PutBackIsMoved
        DEF Next, Handle, Consumer

-----------------------------------------------------------------------------
(***************************************************************************)
(* No plan vanishes unless something happened that may lose one.           *)
(***************************************************************************)

In(x, s) == \E k \in DOMAIN s : s[k] = x

LEMMA AccountedIn ==
  ASSUME NEW i
  PROVE  Accounted(i) <=> In(i, batch) \/ In(i, queue) \/ In(i, launched) \/ i = hand \/ i \in told
  BY DEF Accounted, In

LEMMA InAppend ==
  ASSUME NEW S, NEW s \in Seq(S), NEW e
  PROVE  /\ \A x : In(x, s) \/ x = e => In(x, Append(s, e))
         /\ Len(Append(s, e)) = Len(s) + 1
<1>1. /\ DOMAIN Append(s, e) = 1 .. Len(s) + 1 /\ Append(s, e)[Len(s) + 1] = e
      /\ \A k \in 1 .. Len(s) : Append(s, e)[k] = s[k]
      /\ DOMAIN s = 1 .. Len(s) /\ Len(s) \in Nat
      /\ Len(Append(s, e)) = Len(s) + 1
  <2>1. s \in Seq(S \union {e})
    BY SeqMonotonic
  <2> QED BY <2>1
<1> QED BY <1>1 DEF In

LEMMA InTail ==
  ASSUME NEW S, NEW s \in Seq(S), s # <<>>
  PROVE  /\ \A x : In(x, s) => x = Head(s) \/ In(x, Tail(s))
         /\ Head(s) = s[1] /\ Len(Tail(s)) = Len(s) - 1 /\ Len(s) \in Nat
<1>1. /\ Tail(s) \in Seq(S) /\ Len(Tail(s)) = Len(s) - 1
      /\ \A k \in 1 .. Len(Tail(s)) : Tail(s)[k] = s[k + 1]
  BY HeadTailProperties
<1>2. Head(s) = s[1] /\ Len(s) \in Nat
  OBVIOUS
<1>3. \A k \in DOMAIN s : k = 1 \/ (k - 1 \in DOMAIN Tail(s) /\ Tail(s)[k - 1] = s[k])
  <2>1. \A k \in DOMAIN s : k = 1 \/ (k - 1 \in 1 .. Len(Tail(s)) /\ k - 1 + 1 = k)
    BY <1>1, <1>2
  <2>2. DOMAIN Tail(s) = 1 .. Len(Tail(s))
    BY <1>1
  <2> QED BY <1>1, <2>1, <2>2
<1> QED BY <1>1, <1>2, <1>3 DEF In

\* What is left of the queue when its first plan is taken.
LEMMA SteadyGets ==
  ASSUME BotTypeOK, Steady, NEW i, Gets(i)
  PROVE  /\ cons = "get" /\ Len(Rest) = Len(queue) - 1 /\ Len(queue) \in Nat
         /\ \A x : In(x, queue) => x = i \/ In(x, Rest)
<1>1. cons = "get" /\ queue # <<>> /\ i = Head(queue) /\ Rest = Tail(queue)
  BY DEF Steady, Gets, Rest
<1> QED BY <1>1, InTail DEF BotTypeOK

LEMMA SteadyPolls ==
  ASSUME BotTypeOK, Seen, Steady, AllAccounted, PollFails \/ PollAnswered
  PROVE  Steady' /\ AllAccounted'
<1>1. /\ confirmed' = offset /\ UNCHANGED <<up, running, cons, hand, queue, unfinished>>
      /\ UNCHANGED <<inbox, launched, told>> /\ poll' # "done" /\ batch = <<>>
      /\ offset \in Nat /\ Len(inbox) \in Nat /\ offset <= Len(inbox)
  <2>1. offset \in Nat /\ confirmed \in Nat /\ Len(inbox) \in Nat /\ offset <= Len(inbox)
    BY DEF BotTypeOK
  <2>2. confirmed' = offset
    <3>1. confirmed' = IF offset > confirmed THEN offset ELSE confirmed
      BY DEF PollFails, PollAnswered, Confirms
    <3> QED BY <2>1, <3>1 DEF Steady
  <2>3. UNCHANGED <<inbox, up, running, cons, hand, queue, unfinished, launched, told>>
    BY DEF PollFails, PollAnswered, consumer, flags, plans, ghosts
  <2>4. poll = "poll" /\ poll' # "done"
    BY DEF PollFails, PollAnswered, poller
  <2>5. batch = <<>>
    BY <2>4 DEF Seen
  <2> QED BY <2>1, <2>2, <2>3, <2>4, <2>5
<1>2. CASE PollFails
  <2>1. batch' = batch /\ offset' = offset
    BY <1>2 DEF PollFails, poller
  <2>2. AllAccounted'
    BY <1>1, <2>1 DEF AllAccounted, Accounted, IsPlan
  <2> QED BY <1>1, <2>1, <2>2 DEF Steady
<1>3. CASE PollAnswered
  <2>1. offset' = Len(inbox) /\ batch' = [k \in 1 .. Len(inbox) - offset |-> offset + k]
    BY <1>1, <1>3 DEF PollAnswered
  <2>2. \A i \in offset + 1 .. Len(inbox) : In(i, batch')
    <3> SUFFICES ASSUME NEW i \in offset + 1 .. Len(inbox) PROVE In(i, batch')
      OBVIOUS
    <3>1. i - offset \in 1 .. Len(inbox) - offset /\ offset + (i - offset) = i
      BY <1>1
    <3> QED BY <2>1, <3>1 DEF In
  <2>3. \A i \in 1 .. offset : IsPlan(i) => In(i, queue) \/ In(i, launched) \/ i = hand \/ i \in told
    BY <1>1, AccountedIn DEF AllAccounted, In
  <2>4. AllAccounted'
    <3> SUFFICES ASSUME NEW i \in 1 .. Len(inbox), IsPlan(i) PROVE Accounted(i)'
      BY <1>1, <2>1 DEF AllAccounted, IsPlan
    <3>1. CASE i <= offset
      <4>1. i \in 1 .. offset
        BY <1>1, <3>1
      <4> QED BY <1>1, <2>3, <4>1 DEF Accounted, In
    <3>2. CASE ~(i <= offset)
      <4>1. i \in offset + 1 .. Len(inbox)
        BY <1>1, <3>2
      <4> QED BY <2>2, <4>1 DEF Accounted, In
    <3> QED BY <3>1, <3>2
  <2> QED BY <1>1, <2>1, <2>4 DEF Steady
<1> QED BY <1>2, <1>3

\* An update that is handled is in the queue, answered, or no plan.
LEMMA SteadyHandles ==
  ASSUME BotTypeOK, Steady, AllAccounted, HandlePlan \/ HandleRefused \/ HandlePause
  PROVE  Steady' /\ AllAccounted'
<1> DEFINE h == Head(batch)
<1>1. /\ batch' = Tail(batch) /\ batch # <<>> /\ poll' # "done"
      /\ UNCHANGED <<up, running, cons, hand, inbox, confirmed, offset, launched>>
  BY DEF HandlePlan, HandleRefused, HandlePause, Handling, Handled, consumer, flags, net, ghosts
<1>2. /\ \A x : In(x, batch) => x = h \/ In(x, batch')
      /\ h \in 1 .. Len(inbox)
  <2>1. batch \in Seq(1 .. Len(inbox))
    BY DEF BotTypeOK
  <2>2. h \in 1 .. Len(inbox)
    BY <1>1, <2>1, HeadTailProperties
  <2>3. \A x : In(x, batch) => x = h \/ In(x, Tail(batch))
    BY <1>1, <2>1, InTail
  <2>4. \A x : In(x, Tail(batch)) => In(x, batch')
    BY <1>1 DEF In
  <2> QED BY <2>2, <2>3, <2>4
<1>3. /\ \A x : In(x, queue) => In(x, queue')
      /\ told \subseteq told'
      /\ IsPlan(h) => In(h, queue') \/ h \in told'
      /\ unfinished' = Len(queue') + IF cons \in {"launch", "finish"} THEN 1 ELSE 0
  <2>1. CASE HandlePlan
    <3>1. queue' = Append(queue, h) /\ unfinished' = unfinished + 1 /\ told' = told
      BY <2>1 DEF HandlePlan, ghosts
    <3>2. queue \in Seq(1 .. Len(inbox)) /\ Len(queue) \in Nat
      BY DEF BotTypeOK
    <3>3. In(h, queue') /\ Len(queue') = Len(queue) + 1 /\ \A x : In(x, queue) => In(x, queue')
      BY <3>1, <3>2, InAppend
    <3> QED BY <3>1, <3>2, <3>3 DEF Steady
  <2>2. CASE HandleRefused
    BY <2>2 DEF HandleRefused, plans, Steady
  <2>3. CASE HandlePause
    <3>1. ~IsPlan(h)
      BY <2>3, BotAssumption DEF HandlePause, Update, IsPlan
    <3> QED BY <2>3, <3>1 DEF HandlePause, plans, ghosts, Steady
  <2> QED BY <2>1, <2>2, <2>3
<1> HIDE DEF h
<1>4. AllAccounted'
  <2> SUFFICES ASSUME NEW i \in 1 .. offset, IsPlan(i)
               PROVE  In(i, batch') \/ In(i, queue') \/ In(i, launched) \/ i = hand \/ i \in told'
    BY <1>1 DEF AllAccounted, IsPlan, Accounted, In
  <2>1. In(i, batch) \/ In(i, queue) \/ In(i, launched) \/ i = hand \/ i \in told
    BY AccountedIn DEF AllAccounted
  <2> QED BY <1>2, <1>3, <2>1
<1> QED BY <1>1, <1>3, <1>4 DEF Steady

LEMMA SteadyConsumes ==
  ASSUME BotTypeOK, PlansWait, Steady, AllAccounted,
         ConsumerWaits \/ GetTimesOut \/ PutBack \/ InitProject \/ Launch \/ LaunchFails \/ Finish
  PROVE  Steady' /\ AllAccounted'
<1>1. CASE ConsumerWaits \/ GetTimesOut
  <2>1. /\ UNCHANGED <<up, running, poll, confirmed, offset, unfinished, queue, inbox, batch,
                        launched, told>>
        /\ cons \in {"top", "get"} /\ cons' \in {"top", "get"} /\ (hand' = hand \/ hand' = 0)
    BY <1>1 DEF ConsumerWaits, GetTimesOut, Steady, net, poller, flags, plans, ghosts
  <2>2. hand' = hand
    BY <2>1 DEF PlansWait
  <2> QED BY <2>1, <2>2 DEF Steady, AllAccounted, Accounted, IsPlan
<1>2. CASE PutBack
  <2>1. PICK i \in Updates : Gets(i) /\ queue' = Append(Rest, i)
    BY <1>2 DEF PutBack
  <2>2. /\ UNCHANGED <<up, running, poll, confirmed, offset, unfinished, inbox, batch, launched, told>>
        /\ cons' = "top" /\ hand' = 0
    BY <1>2 DEF PutBack, net, poller, flags
  <2>3. hand = 0 /\ cons = "get"
    BY <2>1, SteadyGets DEF PlansWait
  <2>4. Len(queue') = Len(queue) /\ \A x : In(x, queue) => In(x, queue')
    <3>1. Rest \in Seq(1 .. Len(inbox))
      BY <2>1, RestWaited
    <3>2. Len(queue') = Len(Rest) + 1 /\ \A x : In(x, Rest) \/ x = i => In(x, queue')
      BY <2>1, <3>1, InAppend
    <3> QED BY <2>1, <3>2, SteadyGets
  <2>5. AllAccounted'
    BY <2>2, <2>3, <2>4 DEF AllAccounted, Accounted, In, IsPlan
  <2> QED BY <2>2, <2>3, <2>4, <2>5 DEF Steady
<1>3. CASE InitProject
  <2>1. PICK i \in Updates : Takes(i) /\ (Initialised(i) \/ NotInitialised(i))
    BY <1>3 DEF InitProject
  <2>2. /\ UNCHANGED <<up, running, poll, confirmed, offset, unfinished, inbox, batch, launched>>
        /\ queue' = Rest /\ Gets(i)
    BY <2>1 DEF Takes, net, poller, flags
  <2>3. /\ cons' \in {"launch", "finish"} /\ told \subseteq told'
        /\ hand' = i \/ i \in told'
    BY <2>1 DEF Initialised, NotInitialised, TellsUser
  <2>4. /\ hand = 0 /\ cons = "get" /\ Len(queue') = Len(queue) - 1 /\ Len(queue) \in Nat
        /\ \A x : In(x, queue) => x = i \/ In(x, queue')
    BY <2>2, SteadyGets DEF PlansWait
  <2>5. AllAccounted'
    <3> SUFFICES ASSUME NEW x \in 1 .. offset, IsPlan(x)
                 PROVE  In(x, batch) \/ In(x, queue') \/ In(x, launched) \/ x = hand' \/ x \in told'
      BY <2>2 DEF AllAccounted, IsPlan, Accounted, In
    <3>1. In(x, batch) \/ In(x, queue) \/ In(x, launched) \/ x = hand \/ x \in told
      BY AccountedIn DEF AllAccounted
    <3>2. x # 0
      BY DEF BotTypeOK
    <3> QED BY <2>3, <2>4, <3>1, <3>2
  <2> QED BY <2>2, <2>3, <2>4, <2>5 DEF Steady
<1>4. CASE Launch \/ LaunchFails
  <2>1. /\ UNCHANGED <<up, running, poll, confirmed, offset, unfinished, queue, inbox, batch>>
        /\ cons = "launch" /\ cons' = "finish" /\ hand' = 0
    BY <1>4 DEF Launch, LaunchFails, TellsUser, net, poller, flags, plans
  <2>2. /\ \A x : In(x, launched) => In(x, launched')
        /\ told \subseteq told'
        /\ In(hand, launched') \/ hand \in told'
    <3>1. CASE Launch
      <4>1. launched' = Append(launched, hand) /\ told' = told /\ launched \in Seq(1 .. Len(inbox))
        BY <3>1 DEF Launch, BotTypeOK
      <4>2. \A x : In(x, launched) \/ x = hand => In(x, Append(launched, hand))
        BY <4>1, InAppend
      <4> QED BY <4>1, <4>2 DEF In
    <3>2. CASE LaunchFails
      BY <3>2 DEF LaunchFails, TellsUser, In
    <3> QED BY <1>4, <3>1, <3>2
  <2>3. AllAccounted'
    <3> SUFFICES ASSUME NEW x \in 1 .. offset, IsPlan(x)
                 PROVE  In(x, batch) \/ In(x, queue) \/ In(x, launched') \/ x \in told'
      BY <2>1 DEF AllAccounted, IsPlan, Accounted, In
    <3>1. In(x, batch) \/ In(x, queue) \/ In(x, launched) \/ x = hand \/ x \in told
      BY AccountedIn DEF AllAccounted
    <3> QED BY <2>2, <3>1
  <2> QED BY <2>1, <2>3 DEF Steady
<1>5. CASE Finish
  <2>1. unfinished # 0 /\ cons = "finish" /\ Len(queue) \in Nat
    BY <1>5 DEF Finish, Steady, BotTypeOK
  <2>2. /\ UNCHANGED <<up, running, poll, confirmed, offset, queue, inbox, batch, hand, launched, told>>
        /\ cons' = "top" /\ unfinished' = unfinished - 1
    BY <1>5, <2>1 DEF Finish, net, poller, flags
  <2> QED BY <2>1, <2>2 DEF Steady, AllAccounted, Accounted, IsPlan
<1> QED BY <1>1, <1>2, <1>3, <1>4, <1>5

\* A disturbance is for ever.
LEMMA DisturbedForEver ==
  ASSUME BotTypeOK, Next, Undisturbed'
  PROVE  /\ Undisturbed
         /\ ~HandleStop /\ ~HandlerRaises /\ ~Crash /\ ~TornSave
<1>1. disturbed => disturbed'
  BY DEF Next, BotStarts, PollFails, PollAnswered, TornSave, PollEnds, Handle, HandlePlan,
         HandleRefused, HandlePause, HandleStop, HandlerRaises, Handled, Consumer, ConsumerEnds,
         ConsumerWaits, GetTimesOut, PutBack, InitProject, Takes, Initialised, NotInitialised,
         Launch, LaunchFails, Finish, BotEnds, Crash, UserSends, RunByHand, RunnerStep,
         RunnerFails, FaultHappens, Disturbs, hit, botvars
<1>2. /\ Len(inbox) \in Nat /\ DOMAIN inbox = 1 .. Len(inbox)
      /\ \A i \in DOMAIN inbox : i \in DOMAIN inbox' /\ inbox'[i] = inbox[i]
  <2>1. Len(inbox) \in Nat /\ DOMAIN inbox = 1 .. Len(inbox)
    BY DEF BotTypeOK
  <2>2. CASE UserSends
    <3>1. PICK u \in Projects \union Commands : inbox' = Append(inbox, u)
      BY <2>2 DEF UserSends
    <3>2. inbox \in Seq(Projects \union Commands)
      BY DEF BotTypeOK
    <3> QED BY <2>1, <3>1, <3>2
  <2>3. CASE ~UserSends
    <3>1. inbox' = inbox
      BY <2>3 DEF Next, BotStarts, PollFails, PollAnswered, TornSave, PollEnds, Handle, HandlePlan,
         HandleRefused, HandlePause, HandleStop, HandlerRaises, Handled, Consumer, ConsumerEnds,
         ConsumerWaits, GetTimesOut, PutBack, InitProject, Takes, Launch, LaunchFails, Finish,
         BotEnds, Crash, RunByHand, RunnerStep, RunnerFails, net, botvars
    <3> QED BY <2>1, <3>1
  <2> QED BY <2>2, <2>3
<1>3. Undisturbed
  BY <1>1, <1>2 DEF Undisturbed
<1>4. ~HandleStop
  <2> SUFFICES ASSUME HandleStop PROVE FALSE
    OBVIOUS
  <2>1. Head(batch) \in DOMAIN inbox /\ inbox[Head(batch)] = "/stop"
    <3>1. batch # <<>> /\ batch \in Seq(1 .. Len(inbox))
      BY DEF HandleStop, Handling, BotTypeOK
    <3>2. Head(batch) \in 1 .. Len(inbox)
      BY <3>1, HeadTailProperties
    <3> QED BY <1>2, <3>2 DEF HandleStop, Update
  <2> QED BY <1>3, <2>1 DEF Undisturbed
<1>5. ~HandlerRaises /\ ~Crash /\ ~TornSave
  BY DEF HandlerRaises, Crash, TornSave, FaultHappens, Disturbs, Undisturbed
<1> QED BY <1>3, <1>4, <1>5

LEMMA NothingGetsLost ==
  ASSUME BotTypeOK, PlansWait, Seen, Complete, Next PROVE Complete'
<1> SUFFICES ASSUME Undisturbed' PROVE (Fresh' \/ Steady') /\ AllAccounted'
  BY DEF Complete
<1>1. (Fresh \/ Steady) /\ AllAccounted /\ ~HandleStop /\ ~HandlerRaises /\ ~Crash /\ ~TornSave
  BY DisturbedForEver DEF Complete
<1>2. CASE BotStarts
  <2>1. Fresh /\ queue = <<>>
    BY <1>1, <1>2 DEF BotStarts, Steady, Seen
  <2>2. /\ UNCHANGED <<confirmed, queue, unfinished>> /\ offset' = file /\ up' /\ running'
        /\ poll' = "poll" /\ cons' = "top"
    BY <1>2 DEF BotStarts, net, plans
  <2> QED BY <2>1, <2>2 DEF Fresh, Steady, AllAccounted
<1>3. CASE UserSends
  <2>1. UNCHANGED <<up, running, poll, cons, hand, offset, confirmed, file, unfinished, queue, batch,
                    launched, told>>
    BY <1>3 DEF UserSends, poller, consumer, flags, plans, ghosts
  <2>2. \A i \in 1 .. offset : i \in 1 .. Len(inbox)
    BY DEF BotTypeOK
  <2>3. AllAccounted'
    BY <1>1, <1>3, <2>1, <2>2, Grows DEF AllAccounted, Accounted, IsPlan
  <2> QED BY <1>1, <2>1, <2>3 DEF Fresh, Steady
<1>4. CASE RunByHand \/ RunnerStep \/ RunnerFails
  <2>1. UNCHANGED <<up, running, poll, cons, hand, offset, confirmed, file, unfinished, queue, batch,
                    launched, told, inbox>>
    BY <1>4 DEF RunByHand, RunnerStep, RunnerFails, botvars, net, poller, consumer, flags, plans, ghosts
  <2> QED BY <1>1, <2>1 DEF Fresh, Steady, AllAccounted, Accounted, IsPlan
<1>5. CASE PollEnds \/ ConsumerEnds \/ BotEnds
  BY <1>1, <1>5 DEF PollEnds, ConsumerEnds, BotEnds, Fresh, Steady
<1>6. CASE PollFails \/ PollAnswered
  BY <1>1, <1>6, SteadyPolls DEF PollFails, PollAnswered, Fresh
<1>7. CASE HandlePlan \/ HandleRefused \/ HandlePause
  BY <1>1, <1>7, SteadyHandles DEF HandlePlan, HandleRefused, HandlePause, Handling, Fresh
<1>8. CASE ConsumerWaits \/ GetTimesOut \/ PutBack \/ InitProject \/ Launch \/ LaunchFails \/ Finish
  BY <1>1, <1>8, SteadyConsumes DEF ConsumerWaits, GetTimesOut, PutBack, InitProject, Takes,
                                    Launch, LaunchFails, Finish, Fresh
<1> QED BY <1>1, <1>2, <1>3, <1>4, <1>5, <1>6, <1>7, <1>8 DEF Next, Handle, Consumer

-----------------------------------------------------------------------------
(***************************************************************************)
(* The invariant and what follows from it.                                 *)
(***************************************************************************)

LEMMA BotInvInit == Init => BotInv
<1> SUFFICES ASSUME Init PROVE BotInv
  OBVIOUS
<1>1. LockInv
  BY LockInvInit DEF Init
<1>2. /\ \A k : k \notin DOMAIN <<>>
      /\ Len(<<>>) = 0 /\ \A S : <<>> \in Seq(S)
  BY EmptySeq
<1>3. BotTypeOK
  BY <1>2, BotAssumption DEF Init, BotTypeOK
<1>4. PlansWait /\ MadeFirst /\ NoProjectTwice
  BY <1>2 DEF Init, PlansWait, MadeFirst, NoProjectTwice
<1>5. Order
  BY <1>2 DEF Init, Order, Seen, Ahead, InTurn, NotOvertaken
<1>6. Complete
  BY <1>2 DEF Init, Complete, Fresh, AllAccounted
<1> QED BY <1>1, <1>3, <1>4, <1>5, <1>6 DEF BotInv, Order

LEMMA BotStutters == ASSUME BotInv, UNCHANGED vars PROVE BotInv'
<1>1. LockInv'
  BY LockStutters DEF BotInv, vars
<1>2. /\ UNCHANGED <<inbox, confirmed, file, made, up, poll, offset, batch, cons, hand>>
      /\ UNCHANGED <<running, paused, queue, unfinished, faults, disturbed>>
      /\ UNCHANGED <<launched, told, taken, moved>>
  BY DEF vars, botvars, net, poller, consumer, flags, plans, hit, ghosts
<1>3. BotTypeOK'
  BY <1>2 DEF BotInv, BotTypeOK
<1>4. PlansWait' /\ MadeFirst' /\ NoProjectTwice'
  BY <1>2 DEF BotInv, PlansWait, MadeFirst, NoProjectTwice, IsPlan, Plan
<1>5. Order'
  BY <1>2, OrderStutters DEF BotInv, Order, OrderVars
<1>6. Complete'
  BY <1>2 DEF BotInv, Complete, Undisturbed, Fresh, Steady, AllAccounted, Accounted, IsPlan
<1> QED BY <1>1, <1>3, <1>4, <1>5, <1>6 DEF BotInv, Order

LEMMA BotStep == BotInv /\ [Next]_vars => BotInv'
<1> SUFFICES ASSUME BotInv, Next PROVE BotInv'
  BY BotStutters
<1>1. LockInv' /\ BotTypeOK' /\ PlansWait'
  BY LockHolds, BotTypes, PlansStayPlans DEF BotInv
<1>2. OneLaunchEach'
  BY LaunchesOnce DEF BotInv, OneLaunchEach
<1>3. Order'
  BY TakesInOrder DEF BotInv, Order
<1>4. Complete'
  BY NothingGetsLost DEF BotInv
<1> QED BY <1>1, <1>2, <1>3, <1>4 DEF BotInv, OneLaunchEach, Order

\* The inductive invariant of the bot and the runners it starts.
LEMMA BotInvariance == Spec => []BotInv
  BY BotInvInit, BotStep, PTL DEF Spec

\* Types: among others, the account of the queue never falls below zero, although
\* /stop puts a new queue under the consumer's task_done (telegram_input.py:85-92, 315).
THEOREM BotTypeCorrect == Spec => []TypeOK
<1>1. BotInv => TypeOK
  BY TypeParts DEF BotInv, LockInv
<1> QED BY BotInvariance, <1>1, PTL

\* Two runners never work on one project, whether the bot or a human started them,
\* for any number of each (lock.py:18-49, telegram_input.py:318-341).
THEOREM RunnersExclude == Spec => []LockIsExclusive
<1>1. BotInv => LockIsExclusive
  BY LockInvImplies DEF BotInv
<1> QED BY BotInvariance, <1>1, PTL

\* No project gets a second runner from the bot, however often its plan is delivered
\* (telegram_input.py:286-299, project_init.py:50-55).
THEOREM ProjectsLaunchOnce == Spec => []NoProjectTwice
<1>1. BotInv => NoProjectTwice
  BY DEF BotInv
<1> QED BY BotInvariance, <1>1, PTL

\* Plans are taken in the order they were sent, but for those a pause has moved
\* (telegram_input.py:203-209, 271-284).
THEOREM PlansKeepOrder == Spec => []NotOvertaken
<1>1. BotInv => NotOvertaken
  BY DEF BotInv
<1> QED BY BotInvariance, <1>1, PTL

\* Without a handler's exception, a kill or a /stop no plan vanishes, whatever else
\* fails (telegram_input.py:117-133, 265-315).
THEOREM PlansAreAccountedFor == Spec => []NothingVanishes
<1>1. BotInv => NothingVanishes
  BY DEF BotInv, Complete, AllAccounted, NothingVanishes
<1> QED BY BotInvariance, <1>1, PTL
=============================================================================
