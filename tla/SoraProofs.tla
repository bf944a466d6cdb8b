----------------------------- MODULE SoraProofs -----------------------------
(***************************************************************************)
(* The safety theorems of SoraRunner.                                      *)
(***************************************************************************)
EXTENDS SoraTypeProofs

-----------------------------------------------------------------------------
(***************************************************************************)
(* What the operators on AgentState leave of phase and sora_phase.         *)
(***************************************************************************)

\* What mark_* leaves alone.
LEMMA MovedFields ==
  ASSUME NEW s \in State, NEW p
  PROVE  Moved(s, p).phase = p /\ Moved(s, p).sora = s.sora
  BY DEF Moved, State

\* What set_sora_phase leaves alone.
LEMMA SetSoraFields ==
  ASSUME NEW s \in State, NEW p
  PROVE  SetSora(s, p).sora = p /\ SetSora(s, p).phase = s.phase
  BY DEF SetSora, State

\* The sora_phase survives a start, unless the run before was complete.
LEMMA MarkStartedFields ==
  ASSUME NEW s \in State, NEW p
  PROVE  /\ MarkStarted(s, p).phase = "running"
         /\ MarkStarted(s, p).sora = IF s.phase = "completed" THEN "none" ELSE s.sora
  BY DEF MarkStarted, Fresh, State

\* The checkpoint at the start of a task is in EXECUTE and keeps the phase.
LEMMA TaskStartedFields ==
  ASSUME NEW s \in State, NEW t
  PROVE  TaskStarted(s, t).phase = s.phase /\ TaskStarted(s, t).sora = "execute"
  BY DEF TaskStarted, State

\* Counting a retry changes no phase, and nothing but the retry counter.
LEMMA RetriedFields ==
  ASSUME NEW s \in State
  PROVE  LET r == [s EXCEPT !.retry = @ + 1]
         IN  r.phase = s.phase /\ r.sora = s.sora /\ ForgetRetry(r) = ForgetRetry(s)
  BY DEF ForgetRetry, State

\* A message of the agent changes no phase.
LEMMA ToolResultFields ==
  ASSUME NEW s \in State, NEW same
  PROVE  /\ AfterTurnEnd(s).phase = s.phase /\ AfterTurnEnd(s).sora = s.sora
         /\ AfterToolResult(s, same).phase = s.phase
         /\ AfterToolResult(s, same).sora = s.sora
  BY DEF AfterTurnEnd, AfterToolResult, State

\* Only escalation to the human changes the phase.
LEMMA EscalatedFields ==
  ASSUME NEW s \in State, NEW l \in Level
  PROVE  /\ Escalated(s, l).sora = s.sora
         /\ l # HUMAN => Escalated(s, l).phase = s.phase
         /\ l = HUMAN => Escalated(s, l).phase = "paused"
  BY DEF Escalated, Moved, State, Level, NONE, DIVERSIFICATION, BACKTRACK_COACH, HUMAN

\* Equal but for the retry counter: the same phase and sora_phase.
LEMMA ForgetFields ==
  ASSUME NEW s \in State, NEW t \in State, ForgetRetry(s) = ForgetRetry(t)
  PROVE  s.phase = t.phase /\ s.sora = t.sora
<1>1. ForgetRetry(s).phase = s.phase /\ ForgetRetry(s).sora = s.sora
  BY DEF ForgetRetry, State
<1>2. ForgetRetry(t).phase = t.phase /\ ForgetRetry(t).sora = t.sora
  BY DEF ForgetRetry, State
<1> QED BY <1>1, <1>2

-----------------------------------------------------------------------------
(***************************************************************************)
(* Control is preserved: start-up and pipeline.                            *)
(***************************************************************************)

\* A run that starts has one object, saved and RUNNING.
LEMMA StartControl ==
  ASSUME TypeOK, NEW s \in State, s.phase = "running", StartsWith(s),
         run' = run, run.loop => run.at \in {"architect", "execute"}
  PROVE  Control'
  BY DEF StartsWith, SaveAndShare, Control, References, Progress, Executing, Together, InTask

\* A boot keeps Control: the objects are fresh copies of the file.
LEMMA BootControl ==
  ASSUME TypeOK, Control, Boot PROVE Control'
<1> USE DEF TypeOK, StatesOK
<1>1. CASE BootIdle
  BY <1>1 DEF BootIdle, Control, References, Progress, Executing, Together, InTask
<1>2. CASE BootStart
  <2>1. PICK p \in Plans \union {NoPlan} : StartsWith(MarkStarted(disk, p))
    BY <1>2, ConfigAssumption DEF BootStart
  <2> QED
    BY <1>2, <2>1, MarkStartedType, MarkStartedFields, StartControl
    DEF BootStart, Control, Progress
<1>3. CASE BootResume
  <2>1. Moved(disk, "running") \in State /\ Moved(disk, "running").phase = "running"
    BY MovedType, MovedFields DEF Phase
  <2> QED BY <1>3, <2>1, StartControl DEF BootResume, Control, Progress
<1> QED BY <1>1, <1>2, <1>3 DEF Boot

\* Entering a phase, draining commands and the steps around them keep Control.
LEMMA PipelineControl ==
  ASSUME TypeOK, Control,
         \/ \E p \in Pipeline : EnterPhase(p)
         \/ BeginPipeline \/ NothingDue \/ DrainCommands
  PROVE  Control'
<1> USE DEF TypeOK, StatesOK, Control, References, Progress, Executing, Together, InTask, mem, env
<1>1. ASSUME NEW p \in Pipeline, EnterPhase(p) PROVE Control'
  <2>1. /\ SetSora(rst, p).sora = p
        /\ SetSora(rst, p).phase = rst.phase
    BY SetSoraFields
  <2>2. run'.at = p /\ run'.loop = run.loop
    BY <1>1 DEF EnterPhase, PlaceOK, RunLocals
  <2>3. run.loop => p \in {"architect", "execute"}
    BY <1>1 DEF EnterPhase, NextDue, Due, Rank, Pipeline
  <2> QED BY <1>1, <2>1, <2>2, <2>3 DEF EnterPhase, SaveAndShare
<1>2. CASE BeginPipeline
  BY <1>2 DEF BeginPipeline, NoRun
<1>3. CASE NothingDue
  <2>1. rst.sora = "slice_done"
    <3>1. ~Due("execute") /\ Configured("execute") /\ Rank["execute"] >= Rank[run.at]
      BY <1>3 DEF NothingDue, Pipeline, Configured, RoleOf, Rank, PlaceOK, RunLocals
    <3>2. Rank["execute"] < Rank[rst.sora]
      BY <3>1 DEF Due, PhaseAlreadyDone
    <3> QED BY <3>2 DEF Rank, State, SoraPhase
  <2> QED BY <1>3, <2>1 DEF NothingDue
<1>4. CASE DrainCommands
  <2>1. \A p : Moved(rst, p).phase = p /\ Moved(rst, p).sora = rst.sora
    BY MovedFields
  <2> QED
    BY <1>4, <2>1 DEF DrainCommands, DrainStop, DrainPause, DrainHumanPause, DrainSteer,
       DrainSkip, DrainNewPlan, DrainOther, Drained, Draining, SaveRunner
<1> QED BY <1>1, <1>2, <1>3, <1>4

\* The phases before the execute phase keep Control.
LEMMA PhaseControl ==
  ASSUME TypeOK, Control,
         \/ HardenWrites \/ HardenDone \/ PhaseGivesUp \/ ScoutDone \/ CoachDone
         \/ LoopShutdown \/ ArchitectDone \/ LoopArchitectFails
  PROVE  Control'
<1> USE DEF TypeOK, StatesOK, Control, References, Progress, Executing, Together, InTask,
    mem, env, Working
<1>1. \A p : [run EXCEPT !.at = p].at = p /\ [run EXCEPT !.at = p].loop = run.loop
  BY DEF PlaceOK, RunLocals
<1>2. CASE HardenWrites \/ PhaseGivesUp \/ LoopShutdown
  BY <1>2 DEF HardenWrites, PhaseGivesUp, LoopShutdown
<1>3. CASE ScoutDone \/ CoachDone
  BY <1>1, <1>3 DEF ScoutDone, CoachDone
<1>4. CASE HardenDone
  BY <1>1, <1>4, SetSoraFields DEF HardenDone, SaveContext
<1>5. CASE ArchitectDone
  <2> DEFINE s == [cst EXCEPT !.slice = CurrentSlice(cst)]
  <2>1. s.sora = "architect" /\ s.phase = "running"
    BY <1>5 DEF ArchitectDone, State
  <2>2. /\ pc = "work" /\ pc' = "enter"
        /\ SaveContext(s) /\ run' = [run EXCEPT !.at = "execute"]
    BY <1>5 DEF ArchitectDone
  <2> HIDE DEF s
  <2> QED BY <1>1, <2>1, <2>2 DEF SaveContext
<1>6. CASE LoopArchitectFails
  BY <1>6 DEF LoopArchitectFails, SaveRunner
<1> QED BY <1>2, <1>3, <1>4, <1>5, <1>6

-----------------------------------------------------------------------------
(***************************************************************************)
(* Control is preserved: the execute phase, the slice loop and the rest.   *)
(***************************************************************************)

\* In a task both objects are RUNNING in EXECUTE, and the file is the context's
\* object but for the retry counter.
LEMMA InTaskFacts ==
  ASSUME TypeOK, Control, InTask
  PROVE  /\ rst.phase = "running" /\ rst.sora = "execute"
         /\ cst.phase = "running" /\ cst.sora = "execute"
         /\ disk.phase = "running" /\ disk.sora = "execute"
         /\ ForgetRetry(disk) = ForgetRetry(cst)
         /\ shared => rst = cst
         /\ pc \notin Together /\ pc \notin {"hardened", "enter", "idle", "execfail", "slice_done"}
  BY ForgetFields DEF TypeOK, StatesOK, Control, Executing, References, InTask, Together

\* A step inside the task loop that saves a RUNNING state in EXECUTE.
LEMMA TaskSaves ==
  ASSUME TypeOK, Control, InTask, InTask', run' = run,
         NEW s \in State, s.phase = "running", s.sora = "execute",
         SaveContext(s) \/ SaveCopy(s)
  PROVE  Control'
<1>1. pc' \notin Together /\ pc' \notin {"hardened", "enter", "idle", "execfail", "slice_done"}
  BY DEF InTask, Together
<1>2. rst'.phase = "running" /\ rst'.sora = "execute" /\ (shared' => rst' = cst')
      /\ disk' = s /\ cst' = s
  BY InTaskFacts DEF SaveContext, SaveCopy
<1>3. References'
  BY <1>1, <1>2 DEF References
<1>4. Progress'
  BY <1>1 DEF Progress, Control, InTask
<1>5. Executing'
  BY <1>1, <1>2 DEF Executing
<1> QED BY <1>3, <1>4, <1>5 DEF Control

\* A step inside the task loop, or out of it, that leaves the states alone.
LEMMA TaskStays ==
  ASSUME TypeOK, Control, InTask, InTask' \/ pc' = "execfail", UNCHANGED <<run, disk, mem>>
  PROVE  Control'
<1>1. pc' \notin Together /\ pc' \notin {"hardened", "enter", "idle", "slice_done"}
  BY DEF InTask, Together
<1>2. References' /\ Executing'
  BY <1>1, InTaskFacts DEF References, Executing, mem, ForgetRetry
<1>3. Progress'
  BY <1>1 DEF Progress, Control, InTask
<1> QED BY <1>2, <1>3 DEF Control

\* A step out of the task loop that writes a RUNNING or PAUSED state.
LEMMA TaskEnds ==
  ASSUME TypeOK, Control, InTask, pc' = "execfail", run' = run,
         NEW s \in State, s.phase \in {"running", "paused"}, s.sora = "execute",
         SaveContext(s) \/ SaveCopy(s) \/ TouchContext(s)
  PROVE  Control'
<1>1. References' /\ Executing'
  BY InTaskFacts
  DEF References, Executing, InTask, Together, SaveContext, SaveCopy, TouchContext
<1>2. Progress'
  BY DEF Progress, Control, InTask
<1> QED BY <1>1, <1>2 DEF Control

\* An attempt that failed: the retry counter goes up, in memory only.
LEMMA AttemptControl ==
  ASSUME TypeOK, Control, pc \in {"build", "verify"}, AttemptFails, run' = run
  PROVE  Control'
<1> DEFINE s == [cst EXCEPT !.retry = @ + 1]
<1>1. s.phase = cst.phase /\ s.sora = cst.sora /\ ForgetRetry(s) = ForgetRetry(cst)
  BY RetriedFields DEF TypeOK, StatesOK
<1>2. TouchContext(s) /\ pc' \in {"attempt", "taskend"}
  BY DEF AttemptFails
<1>3. InTask
  BY DEF InTask
<1> HIDE DEF s
<1>4. References' /\ Executing'
  BY <1>1, <1>2, <1>3, InTaskFacts DEF References, Executing, InTask, Together, TouchContext
<1>5. Progress'
  BY <1>2 DEF Progress, Control, InTask
<1> QED BY <1>4, <1>5 DEF Control

\* Every step of run_execute keeps Control.
LEMMA ExecuteControl ==
  ASSUME TypeOK, TaskBounds, Control, ExecuteNext PROVE Control'
<1> USE DEF TypeOK, StatesOK, mem, env
<1>1. CASE SkipDoneTask \/ ShutdownAtTask \/ SkipTask \/ BuilderDone \/ VerifierPass \/ TaskFailed
  BY <1>1, TaskStays DEF SkipDoneTask, ShutdownAtTask, SkipTask, AttemptStarts, BuilderDone,
     VerifierPass, TaskFailed, Fail, InTask
<1>2. CASE OverrideAtTask \/ OverrideAtAttempt
  <2>1. InTask /\ run' = run
    BY <1>2 DEF OverrideAtTask, OverrideAtAttempt, AttemptStarts, InTask
  <2>2. CASE OverrideStop
    BY <2>1, <2>2, TaskStays DEF OverrideStop, Fail
  <2>3. CASE OverridePause
    <3>1. Moved(cst, "paused").phase = "paused" /\ Moved(cst, "paused").sora = "execute"
      BY <2>1, MovedFields, InTaskFacts
    <3>2. Moved(cst, "paused") \in State
      BY MovedType DEF Phase
    <3> QED BY <2>1, <2>3, <3>1, <3>2, TaskEnds DEF OverridePause, Fail
  <2> QED BY <1>2, <2>2, <2>3 DEF OverrideAtTask, OverrideAtAttempt
<1>3. CASE BeginTask \/ BeginTaskFails
  <2> DEFINE s == TaskStarted(cst, ex.ti)
             u == [s EXCEPT !.sora = cst.sora, !.idx = cst.idx]
  <2>1. pc = "task" /\ InTask /\ run' = run
    BY <1>3 DEF BeginTask, BeginTaskFails, TaskReady, InTask
  <2>2. s \in State /\ u \in State
    <3>1. s \in State
      BY TaskStartedType DEF LocalsOK, ExLocals
    <3> QED BY <3>1 DEF State
  <2>3. s.phase = "running" /\ s.sora = "execute"
    BY <2>1, TaskStartedFields, InTaskFacts
  <2>4. u.phase = "running" /\ u.sora = "execute"
    BY <2>1, <2>2, <2>3, InTaskFacts DEF State
  <2>5. CASE BeginTask
    <3>1. InTask' /\ SaveContext(s)
      BY <2>5 DEF BeginTask, InTask
    <3> QED BY <2>1, <2>2, <2>3, <3>1, TaskSaves
  <2>6. CASE BeginTaskFails
    <3>1. pc' = "execfail" /\ TouchContext(u)
      BY <2>6 DEF BeginTaskFails, Fail
    <3> QED BY <2>1, <2>2, <2>4, <3>1, TaskEnds
  <2> QED BY <1>3, <2>5, <2>6
<1>4. CASE TasksEnd \/ TaskPassed
  <2>1. PICK n \in Nat : SaveContext([cst EXCEPT !.idx = n])
    <3>1. NumTasks \in Nat /\ ex.ti + 1 \in Nat
      BY BoundAssumption DEF LocalsOK, ExLocals
    <3> QED BY <1>4, <3>1 DEF TasksEnd, TaskPassed
  <2> DEFINE s == [cst EXCEPT !.idx = n]
  <2>2. InTask /\ run' = run /\ (InTask' \/ pc' = "execfail")
    BY <1>4 DEF TasksEnd, TaskPassed, InTask
  <2>3. s \in State /\ s.phase = "running" /\ s.sora = "execute"
    BY <2>2, InTaskFacts DEF State
  <2> HIDE DEF s
  <2> QED BY <2>1, <2>2, <2>3, TaskSaves, TaskEnds DEF s
<1>5. CASE EscalateToHuman \/ StartBuilder
  <2> DEFINE s == Escalated(cst, NextLevel)
  <2>1. NextLevel \in Level
    BY DecideType DEF NextLevel, LocalsOK, Context
  <2>2. InTask /\ run' = run
    BY <1>5 DEF EscalateToHuman, StartBuilder, AttemptReady, AttemptStarts, InTask
  <2>3. s \in State /\ s.sora = "execute"
    BY <2>1, <2>2, EscalatedType, EscalatedFields, InTaskFacts
  <2>4. CASE EscalateToHuman
    <3>1. s.phase = "paused" /\ SaveCopy(s) /\ pc' = "execfail"
      BY <2>1, <2>4, EscalatedFields DEF EscalateToHuman, Fail
    <3> QED BY <2>2, <2>3, <3>1, TaskEnds
  <2>5. CASE StartBuilder
    <3>1. s.phase = "running" /\ InTask'
      BY <2>1, <2>2, <2>5, EscalatedFields, InTaskFacts DEF StartBuilder, InTask
    <3>2. SaveCopy(s) \/ UNCHANGED <<disk, mem>>
      BY <2>5 DEF StartBuilder
    <3> QED BY <2>2, <2>3, <3>1, <3>2, TaskSaves, TaskStays
  <2> QED BY <1>5, <2>4, <2>5
<1>6. CASE AgentTurnEnd \/ AgentToolResult
  <2>1. InTask /\ InTask' /\ run' = run
    BY <1>6 DEF AgentTurnEnd, AgentToolResult, InTask
  <2>2. CASE AgentTurnEnd
    <3>1. SaveContext(AfterTurnEnd(cst)) /\ AfterTurnEnd(cst) \in State
      BY <2>2, AfterTurnEndType DEF AgentTurnEnd
    <3>2. AfterTurnEnd(cst).phase = "running" /\ AfterTurnEnd(cst).sora = "execute"
      BY <2>1, ToolResultFields, InTaskFacts
    <3> QED BY <2>1, <3>1, <3>2, TaskSaves
  <2>3. CASE AgentToolResult
    <3>1. PICK same \in BOOLEAN : SaveCopy(AfterToolResult(cst, same))
      BY <2>3 DEF AgentToolResult
    <3>2. AfterToolResult(cst, same) \in State
      BY AfterToolResultType
    <3>3. /\ AfterToolResult(cst, same).phase = "running"
          /\ AfterToolResult(cst, same).sora = "execute"
      BY <2>1, ToolResultFields, InTaskFacts
    <3> QED BY <2>1, <3>1, <3>2, <3>3, TaskSaves
  <2> QED BY <1>6, <2>2, <2>3
<1>7. CASE AgentStuck
  <2>1. PICK same \in BOOLEAN :
           /\ disk' = AfterToolResult(cst, same)
           /\ cst' = [AfterToolResult(cst, same) EXCEPT !.retry = @ + 1]
           /\ shared' = FALSE /\ rst' = rst
    BY <1>7 DEF AgentStuck
  <2> DEFINE s == AfterToolResult(cst, same)
  <2>2. InTask /\ run' = run /\ pc' \in {"attempt", "taskend"}
    BY <1>7 DEF AgentStuck, InTask
  <2>3. s \in State /\ s.phase = "running" /\ s.sora = "execute"
    BY <2>2, AfterToolResultType, ToolResultFields, InTaskFacts
  <2>4. disk' = s /\ cst' = [s EXCEPT !.retry = @ + 1]
    BY <2>1
  <2> HIDE DEF s
  <2>5. cst'.phase = "running" /\ cst'.sora = "execute" /\ ForgetRetry(disk') = ForgetRetry(cst')
    BY <2>3, <2>4, RetriedFields
  <2>6. References' /\ Executing'
    BY <2>1, <2>2, <2>5, InTaskFacts DEF References, Executing, InTask, Together, ForgetRetry
  <2>7. Progress'
    BY <2>2 DEF Progress, Control, InTask
  <2> QED BY <2>6, <2>7 DEF Control
<1>8. CASE BuilderFails \/ VerifierFail \/ VerifierAnomaly
  BY <1>8, AttemptControl DEF BuilderFails, VerifierFail, VerifierAnomaly
<1> QED BY <1>1, <1>2, <1>3, <1>4, <1>5, <1>6, <1>7, <1>8 DEF ExecuteNext

\* The slice loop, and the end of run_execute, keep Control.
LEMMA LoopControl ==
  ASSUME TypeOK, Control,
         \/ Execute \/ ExecuteFailed \/ ExecuteSucceeded
         \/ SliceDone \/ SliceCoach \/ ClaimSlice \/ AdoptSlice \/ Complete \/ SliceLimit
  PROVE  Control'
<1> USE DEF TypeOK, StatesOK, Control, References, Progress, Executing, Together, InTask, mem, env
<1>1. CASE Execute
  <2>1. rst = cst /\ disk = rst /\ rst.phase = "running" /\ rst.sora = "execute"
    BY <1>1 DEF Execute, Working
  <2>2. pc' \in {"task", "execfail"} /\ UNCHANGED <<run, disk, rst, cst, shared>>
    BY <1>1 DEF Execute, ExecuteRefused, ExecuteStarts, Fail
  <2> QED BY <2>1, <2>2
<1>2. CASE ExecuteFailed
  BY <1>2 DEF ExecuteFailed, SaveRunner
<1>3. CASE ExecuteSucceeded
  BY <1>3, InTaskFacts DEF ExecuteSucceeded
<1>4. CASE SliceDone
  BY <1>4, SetSoraFields DEF SliceDone, SaveAndShare
<1>5. CASE SliceCoach \/ SliceLimit
  BY <1>5 DEF SliceCoach, SliceLimit
<1>6. CASE ClaimSlice
  <2>1. run'.loop = run.loop /\ run'.at = run.at
    BY <1>6 DEF ClaimSlice, PlaceOK, RunLocals
  <2> QED BY <1>6, <2>1 DEF ClaimSlice
<1>7. CASE AdoptSlice
  <2>1. run'.loop = TRUE /\ run'.at = "architect"
    BY <1>7 DEF AdoptSlice
  <2> DEFINE s == [rst EXCEPT !.slice = run.nxt, !.idx = 0]
  <2>2. s.phase = rst.phase /\ s.sora = rst.sora
    BY DEF State
  <2>3. SaveRunner(s) /\ pc = "adopt" /\ pc' = "enter"
    BY <1>7 DEF AdoptSlice
  <2> HIDE DEF s
  <2> QED BY <2>1, <2>2, <2>3 DEF SaveRunner
<1>8. CASE Complete
  BY <1>8 DEF Complete, SaveRunner
<1> QED BY <1>1, <1>2, <1>3, <1>4, <1>5, <1>6, <1>7, <1>8

\* The idle loop keeps Control, although the runner's object may be behind
\* the file there.
LEMMA IdleControl ==
  ASSUME TypeOK, Control, Idle PROVE Control'
<1> USE DEF TypeOK, StatesOK
<1>1. CASE IdleExit \/ IdleTimeout
  BY <1>1 DEF IdleExit, IdleTimeout, Gone, NoRun, Control, References, Progress, Executing,
     Together, InTask
<1>2. CASE IdleNewPlan
  <2>1. Head1.plan \in Plans \union {NoPlan}
    BY <1>2, ConfigAssumption DEF IdleNewPlan, IdleTakes, Head1, EnvOK
  <2> QED
    BY <1>2, <2>1, MarkStartedType, MarkStartedFields, StartControl
    DEF IdleNewPlan, Control, Progress
<1>3. CASE IdleResume
  <2>1. Moved(disk, "running") \in State /\ Moved(disk, "running").phase = "running"
    BY MovedType, MovedFields DEF Phase
  <2> QED BY <1>3, <2>1, StartControl DEF IdleResume, Control, Progress
<1>4. CASE IdleDrops
  BY <1>4 DEF IdleDrops, mem, Control, References, Progress, Executing, Together, InTask,
     ForgetRetry
<1> QED BY <1>1, <1>2, <1>3, <1>4 DEF Idle

\* Commands, edits, signals and crashes keep Control.
LEMMA EnvironmentControl ==
  ASSUME TypeOK, Control, Environment \/ UNCHANGED vars PROVE Control'
<1> USE DEF Control, References, Progress, Executing, Together, InTask, ForgetRetry, mem
<1>1. CASE SendCommand \/ HumanWrites \/ Signal \/ UNCHANGED vars
  BY <1>1 DEF SendCommand, HumanWrites, Signal, vars
<1>2. CASE Crash \/ UnexpectedError
  BY <1>2 DEF Crash, UnexpectedError, Gone, NoRun
<1> QED BY <1>1, <1>2 DEF Environment

\* The inductive invariant: with types and bounds, where the two references are
\* one object and which phase each place in the code finds.  It holds at first ...
LEMMA InvInit == Init => IInv
<1>1. Init => Control
  BY DEF Init, NoRun, Control, References, Progress, Executing, Together, InTask
<1> QED BY <1>1, InitTypes DEF IInv

\* ... and every step keeps it.
LEMMA InvStep ==
  ASSUME IInv, [Next]_vars PROVE IInv'
<1>1. TypeOK' /\ TaskBounds'
  BY PlaceStep, StatesStep, LocalsStep, FilesStep, EnvStep, BoundsStep DEF TypeOK, IInv
<1>2. Control'
  BY BootControl, PipelineControl, PhaseControl, ExecuteControl, LoopControl, IdleControl,
     EnvironmentControl
  DEF Next, Runner, IInv
<1> QED BY <1>1, <1>2 DEF IInv

\* So every reachable state satisfies it.
THEOREM Invariance == Spec => []IInv
  BY InvInit, InvStep, PTL DEF Spec

-----------------------------------------------------------------------------
(***************************************************************************)
(* Consequences.                                                           *)
(***************************************************************************)

\* The phase the pipeline enters next is one that AgentState lets it enter.
LEMMA NextDueIsLegal ==
  ASSUME TypeOK, Progress, pc = "enter", NEW p \in Pipeline, NextDue(p)
  PROVE  MayAdvance(rst, p)
<1> USE DEF Pipeline, Rank
<1>1. rst.sora \in SoraPhase /\ run.at \in Pipeline
  BY DEF TypeOK, StatesOK, State, PlaceOK, RunLocals
<1>2. Configured("architect") /\ Configured("execute")
  BY DEF Configured, RoleOf
<1>3. Rank[p] >= Rank[run.at] /\ (Due("architect") => Rank[p] <= Rank["architect"])
  BY DEF NextDue, Due
<1>4. CASE run.loop
  <2>1. CASE run.at = "architect"
    <3>1. Due("architect")
      BY <1>2, <1>4, <2>1 DEF Due
    <3>2. p = "architect"
      BY <1>3, <2>1, <3>1
    <3> QED BY <1>4, <2>1, <3>2 DEF Progress, MayAdvance, SoraEdges
  <2>2. CASE run.at = "execute"
    <3>1. p = "execute"
      BY <1>3, <2>2
    <3> QED BY <1>4, <2>2, <3>1 DEF Progress, MayAdvance, SoraEdges
  <2> QED BY <1>4, <2>1, <2>2 DEF Progress
<1>5. CASE ~run.loop /\ run.at = "execute"
  <2>1. p = "execute"
    BY <1>3, <1>5
  <2> QED BY <1>5, <2>1 DEF Progress, MayAdvance, SoraEdges
<1>6. CASE ~run.loop /\ run.at # "execute"
  <2>1. Rank[p] >= Rank[rst.sora]
    BY <1>1, <1>6 DEF NextDue, Due, PhaseAlreadyDone, SoraPhase
  <2>2. CASE rst.sora \in {"execute", "slice_done"}
    BY <2>1, <2>2 DEF MayAdvance, SoraEdges, SoraPhase
  <2>3. CASE rst.sora \in {"none", "hardening", "scout", "coach", "architect"}
    <3>1. Due("architect")
      BY <1>1, <1>2, <1>6, <2>3 DEF Due, PhaseAlreadyDone
    <3>2. p \in {"hardening", "scout", "coach", "architect"}
      BY <1>3, <3>1
    <3> QED BY <2>1, <2>3, <3>2 DEF MayAdvance, SoraEdges, SoraPhase
  <2> QED BY <1>1, <2>2, <2>3 DEF SoraPhase
<1> QED BY <1>4, <1>5, <1>6

\* Where the invariant holds, each assignment about to be made is legal.
LEMMA LegalWhereItIsMade ==
  ASSUME IInv PROVE TransitionsNeverRaise
<1> USE DEF IInv, Control
<1>1. pc = "enter" => \A p \in Pipeline : NextDue(p) => MayAdvance(rst, p)
  BY NextDueIsLegal
<1>2. pc \in Together => MayMove(rst, "failed") /\ MayMove(rst, "paused")
                          /\ MayMove(rst, "completed")
  BY DEF References, MayMove, PhaseEdges
<1>3. pc = "hardened" => MayAdvance(cst, "scout")
  BY DEF References, Progress, Together, MayAdvance, SoraEdges
<1>4. pc \in {"task", "attempt"} => MayMove(cst, "paused") /\ MayAdvance(cst, "execute")
  BY DEF Executing, InTask, MayMove, PhaseEdges, MayAdvance, SoraEdges, SoraPhase
<1>5. pc = "execfail" => MayMove(rst, "failed")
  BY DEF Executing, MayMove, PhaseEdges
<1>6. pc = "slice_done" => MayAdvance(rst, "slice_done") /\ MayMove(rst, "completed")
  BY DEF Executing, MayMove, PhaseEdges, MayAdvance, SoraEdges, SoraPhase
<1> QED BY <1>1, <1>2, <1>3, <1>4, <1>5, <1>6 DEF TransitionsNeverRaise, Together

\* No assignment of phase or sora_phase raises StateTransitionError, for every
\* configuration, sequence of commands and fault.
THEOREM TransitionsAreLegal == Spec => []TransitionsNeverRaise
<1>1. IInv => TransitionsNeverRaise
  BY LegalWhereItIsMade
<1> QED BY <1>1, Invariance, PTL

\* A crash at any point finds in STATE.json what the live object held.
THEOREM CrashLosesNothing == Spec => []StateIsOnDisk
<1>1. IInv => StateIsOnDisk
  BY DEF IInv, Control, References, Executing, StateIsOnDisk
<1> QED BY <1>1, Invariance, PTL

-----------------------------------------------------------------------------
(***************************************************************************)
(* STATE.json implements RunLifecycle.                                     *)
(***************************************************************************)

\* The steps of RunLifecycle, and stuttering, on the two fields of the file.
FileStep ==
    LET same == disk'.sora = disk.sora
    IN  \/ disk'.phase = disk.phase /\ same
        \/ disk.phase \in {"idle", "failed", "paused"} /\ disk'.phase = "running" /\ same
        \/ disk.phase = "completed" /\ disk'.phase = "running" /\ disk'.sora = "none"
        \/ /\ disk.phase = "running" /\ disk'.phase = "running"
           /\ <<disk.sora, disk'.sora>> \in SoraEdges
        \/ /\ disk.phase = "running" /\ disk.sora \in {"execute", "slice_done"}
           /\ disk'.phase = "completed" /\ same
        \/ disk.phase = "running" /\ disk'.phase = "paused" /\ same
        \/ disk.phase \in {"running", "paused"} /\ disk'.phase = "failed" /\ same

\* FileStep says in terms of STATE.json what RunLifecycle allows.
LEMMA FileStepRefines ==
  ASSUME FileStep PROVE [Lifecycle!Next]_(Lifecycle!vars)
  BY DEF FileStep, Lifecycle!Next, Lifecycle!vars, Lifecycle!Start, Lifecycle!StartOver,
     Lifecycle!Advance, Lifecycle!Finish, Lifecycle!Pause, Lifecycle!Fail

\* A boot moves STATE.json as RunLifecycle allows ...
LEMMA BootFile ==
  ASSUME IInv, Boot PROVE FileStep
<1> USE DEF IInv, TypeOK, StatesOK, FileStep
<1>1. CASE BootIdle
  BY <1>1 DEF BootIdle
<1>2. CASE BootStart
  <2>1. PICK p : disk' = MarkStarted(disk, p)
    BY <1>2 DEF BootStart, StartsWith, SaveAndShare
  <2> QED BY <1>2, <2>1, MarkStartedFields DEF BootStart
<1>3. CASE BootResume
  BY <1>3, MovedFields DEF BootResume, StartsWith, SaveAndShare
<1> QED BY <1>1, <1>2, <1>3 DEF Boot

\* ... so do the steps between the phases ...
LEMMA PipelineFile ==
  ASSUME IInv,
         \/ \E p \in Pipeline : EnterPhase(p)
         \/ BeginPipeline \/ NothingDue \/ DrainCommands
         \/ HardenWrites \/ HardenDone \/ PhaseGivesUp \/ ScoutDone \/ CoachDone
         \/ LoopShutdown \/ ArchitectDone \/ LoopArchitectFails
  PROVE  FileStep
<1> USE DEF IInv, Control, TypeOK, StatesOK, FileStep
<1>1. \A p : Moved(rst, p).phase = p /\ Moved(rst, p).sora = rst.sora
  BY MovedFields
<1>2. pc \in Together => shared /\ disk = rst /\ cst = rst /\ rst.phase = "running"
  BY DEF References
<1>3. ASSUME NEW p \in Pipeline, EnterPhase(p) PROVE FileStep
  <2>1. MayAdvance(rst, p) /\ pc = "enter" /\ disk' = SetSora(rst, p)
    BY <1>3, NextDueIsLegal DEF EnterPhase, SaveAndShare
  <2>2. disk'.sora = p /\ disk'.phase = rst.phase
    BY <2>1, SetSoraFields
  <2> QED BY <1>2, <2>1, <2>2 DEF Together, MayAdvance
<1>4. CASE BeginPipeline \/ NothingDue \/ HardenWrites \/ PhaseGivesUp \/ ScoutDone \/ CoachDone
           \/ LoopShutdown
  BY <1>4 DEF BeginPipeline, NothingDue, HardenWrites, PhaseGivesUp, ScoutDone, CoachDone,
     LoopShutdown
<1>5. CASE DrainCommands
  BY <1>1, <1>2, <1>5 DEF DrainCommands, DrainStop, DrainPause, DrainHumanPause, DrainSteer,
     DrainSkip, DrainNewPlan, DrainOther, Drained, Draining, SaveRunner, Together
<1>6. CASE HardenDone
  <2>1. disk' = SetSora(cst, "scout") /\ pc = "hardened"
    BY <1>6 DEF HardenDone, SaveContext
  <2> QED BY <1>2, <2>1, SetSoraFields DEF Together, Progress, SoraEdges
<1>7. CASE ArchitectDone
  <2>1. pc = "work" /\ disk' = [cst EXCEPT !.slice = CurrentSlice(cst)]
    BY <1>7 DEF ArchitectDone, Working, SaveContext
  <2>2. disk'.phase = cst.phase /\ disk'.sora = cst.sora
    BY <2>1 DEF State
  <2> QED BY <1>2, <2>1, <2>2 DEF Together
<1>8. CASE LoopArchitectFails
  BY <1>1, <1>2, <1>8 DEF LoopArchitectFails, Working, SaveRunner, Together
<1> QED BY <1>3, <1>4, <1>5, <1>6, <1>7, <1>8

\* In run_execute the file is RUNNING or becomes PAUSED; this follows from the
\* invariant before and after the step.
LEMMA ExecuteFile ==
  ASSUME IInv, IInv', ExecuteNext PROVE FileStep
<1>1. InTask /\ (InTask' \/ pc' = "execfail")
  BY DEF ExecuteNext, SkipDoneTask, ShutdownAtTask, OverrideAtTask, OverrideStop, OverridePause,
     BeginTask, TaskReady, BeginTaskFails, TasksEnd, SkipTask, OverrideAtAttempt, EscalateToHuman,
     AttemptReady, AttemptStarts, StartBuilder, AgentTurnEnd, AgentToolResult, AgentStuck,
     BuilderFails, BuilderDone, VerifierPass, VerifierFail, VerifierAnomaly, TaskPassed,
     TaskFailed, AttemptFails, Fail, InTask
<1>2. disk.phase = "running" /\ disk.sora = "execute"
  BY <1>1, InTaskFacts DEF IInv
<1>3. CASE InTask'
  <2>1. /\ cst'.phase = "running" /\ cst'.sora = "execute"
        /\ ForgetRetry(disk') = ForgetRetry(cst')
    BY <1>3 DEF IInv, Control, Executing
  <2>2. disk'.phase = cst'.phase /\ disk'.sora = cst'.sora
    BY <2>1, ForgetFields DEF IInv, TypeOK, StatesOK
  <2> QED BY <1>2, <2>1, <2>2 DEF FileStep
<1>4. CASE pc' = "execfail"
  BY <1>2, <1>4 DEF IInv, Control, Executing, FileStep
<1> QED BY <1>1, <1>3, <1>4

\* ... so does the slice loop ...
LEMMA LoopFile ==
  ASSUME IInv,
         \/ Execute \/ ExecuteFailed \/ ExecuteSucceeded
         \/ SliceDone \/ SliceCoach \/ ClaimSlice \/ AdoptSlice \/ Complete \/ SliceLimit
  PROVE  FileStep
<1> USE DEF IInv, Control, TypeOK, StatesOK, FileStep
<1>1. \A p : Moved(rst, p).phase = p /\ Moved(rst, p).sora = rst.sora
  BY MovedFields
<1>2. CASE Execute \/ ExecuteSucceeded \/ SliceCoach \/ ClaimSlice \/ SliceLimit
  BY <1>2 DEF Execute, ExecuteRefused, ExecuteStarts, ExecuteSucceeded, SliceCoach, ClaimSlice,
     SliceLimit
<1>3. CASE ExecuteFailed
  BY <1>1, <1>3 DEF ExecuteFailed, SaveRunner, Executing
<1>4. CASE SliceDone
  BY <1>4, SetSoraFields DEF SliceDone, SaveAndShare, Executing, SoraEdges, SoraPhase
<1>5. CASE AdoptSlice
  <2>1. disk' = [rst EXCEPT !.slice = run.nxt, !.idx = 0] /\ pc = "adopt"
    BY <1>5 DEF AdoptSlice, SaveRunner
  <2>2. disk'.phase = rst.phase /\ disk'.sora = rst.sora
    BY <2>1 DEF State
  <2> QED BY <2>1, <2>2 DEF References, Together
<1>6. CASE Complete
  BY <1>1, <1>6 DEF Complete, SaveRunner, References, Progress, Executing, Together
<1> QED BY <1>2, <1>3, <1>4, <1>5, <1>6

\* ... so does the idle loop ...
LEMMA IdleFile ==
  ASSUME IInv, Idle PROVE FileStep
<1> USE DEF IInv, TypeOK, StatesOK, FileStep
<1>1. CASE IdleExit \/ IdleTimeout \/ IdleDrops
  BY <1>1 DEF IdleExit, IdleTimeout, IdleDrops
<1>2. CASE IdleNewPlan
  <2>1. disk' = MarkStarted(disk, Head1.plan)
    BY <1>2 DEF IdleNewPlan, StartsWith, SaveAndShare
  <2> QED BY <2>1, MarkStartedFields DEF State, Phase
<1>3. CASE IdleResume
  BY <1>3, MovedFields DEF IdleResume, CanResume, StartsWith, SaveAndShare
<1> QED BY <1>1, <1>2, <1>3 DEF Idle

\* ... and so does the environment.
LEMMA EnvironmentFile ==
  ASSUME IInv, Environment \/ UNCHANGED vars PROVE FileStep
<1> USE DEF IInv, TypeOK, StatesOK, FileStep
<1>1. CASE SendCommand \/ HumanWrites \/ Signal \/ Crash \/ UNCHANGED vars
  BY <1>1 DEF SendCommand, HumanWrites, Signal, Crash, vars
<1>2. CASE UnexpectedError
  <2>1. pc # "down" /\ (disk' = disk \/ (rst.phase = "running" /\ disk' = Moved(rst, "failed")))
    BY <1>2 DEF UnexpectedError
  <2>2. Moved(rst, "failed").phase = "failed" /\ Moved(rst, "failed").sora = rst.sora
    BY MovedFields
  <2>3. rst.phase = "running" =>
          disk.phase \in {"running", "paused"} /\ disk.sora = rst.sora
    BY <2>1, InTaskFacts DEF PlaceOK, PCs, Control, References, Executing, InTask, Together
  <2> QED BY <2>1, <2>2, <2>3
<1> QED BY <1>1, <1>2 DEF Environment

\* Whatever object the runner writes, an observer of STATE.json sees only legal
\* operations: a run that is started again where it left off, phases in order,
\* COMPLETED after the last execute, FAILED from a run that was alive.
THEOREM ImplementsLifecycle == Spec => LifecycleSpec
<1>1. Init => Lifecycle!Init
  BY DEF Init, Fresh, Lifecycle!Init
<1>2. IInv /\ IInv' /\ [Next]_vars => [Lifecycle!Next]_(Lifecycle!vars)
  <2> SUFFICES ASSUME IInv, IInv', [Next]_vars PROVE FileStep
    BY FileStepRefines
  <2> QED
    BY BootFile, PipelineFile, ExecuteFile, LoopFile, IdleFile, EnvironmentFile DEF Next, Runner
<1> QED BY <1>1, <1>2, Invariance, PTL DEF Spec, LifecycleSpec, Lifecycle!Spec

-----------------------------------------------------------------------------
(***************************************************************************)
(* The escalation ladder.                                                  *)
(***************************************************************************)

\* The inductive form of NoAgentAfterHuman and DiversificationsAreBounded: level
\* 3 is forgotten only by the next pipeline, and the attempts at level 1 are
\* counted from the first.
Ladder ==
    /\ ctx.lvl = HUMAN => pc \in {"execfail", "idle", "start"}
    /\ ctx.lvl = NONE => ctx.div = 0
    /\ DivLimit > 0 => ctx.div <= DivLimit

\* An escalation that leaves the levels in order.
LEMMA LevelFacts ==
  ASSUME TypeOK, Ladder, NEW signal, DecideEscalation(signal, ctx.lvl, ctx.div) # NONE
  PROVE  LET l == DecideEscalation(signal, ctx.lvl, ctx.div)
         IN  /\ l \in Level /\ DivAfter(l, ctx.div) \in Nat
             /\ DivLimit > 0 => DivAfter(l, ctx.div) <= DivLimit
<1> DEFINE l == DecideEscalation(signal, ctx.lvl, ctx.div)
<1>1. l \in Level /\ ctx.lvl \in Level /\ ctx.div \in Nat
  BY DecideType DEF TypeOK, LocalsOK, Context
<1>2. DivAfter(l, ctx.div) \in Nat
  BY <1>1, DivAfterType
<1>3. ASSUME DivLimit > 0 PROVE DivAfter(l, ctx.div) <= DivLimit
  <2>1. CASE l = DIVERSIFICATION
    <3>1. ctx.lvl = NONE \/ ctx.div < DivLimit
      BY <1>1, <1>3, <2>1, LimitsAssumption
      DEF DecideEscalation, Level, NONE, DIVERSIFICATION, BACKTRACK_COACH, HUMAN
    <3> QED BY <1>1, <1>3, <2>1, <3>1, LimitsAssumption DEF DivAfter, Ladder
  <2>2. CASE l # DIVERSIFICATION
    BY <1>1, <1>3, <2>2, LimitsAssumption DEF DivAfter, Ladder
  <2> QED BY <2>1, <2>2
<1> QED BY <1>1, <1>2, <1>3

\* A step keeps the ladder: one case per step that touches it.
LEMMA LadderStep ==
  ASSUME IInv, Ladder, [Next]_vars PROVE Ladder'
<1> USE LimitsAssumption DEF IInv, TypeOK, Ladder, mem, env
<1>1. NoCtx.lvl # HUMAN /\ NoCtx.div = 0
  BY DEF NoCtx, NONE, HUMAN
<1>2. CASE Boot
  BY <1>2 DEF Boot, BootIdle, BootStart, BootResume, StartsWith, References, Control
<1>3. CASE (\E p \in Pipeline : EnterPhase(p)) \/ NothingDue
  BY <1>3 DEF EnterPhase, NothingDue
<1>4. CASE BeginPipeline
  BY <1>1, <1>4 DEF BeginPipeline
<1>5. CASE DrainCommands
  <2>1. [ctx EXCEPT !.skip = TRUE].lvl = ctx.lvl /\ [ctx EXCEPT !.skip = TRUE].div = ctx.div
    BY DEF LocalsOK, Context
  <2> QED
    BY <1>5, <2>1 DEF DrainCommands, DrainStop, DrainPause, DrainHumanPause, DrainSteer,
       DrainSkip, DrainNewPlan, DrainOther, Drained, Draining
<1>6. CASE HardenWrites \/ HardenDone \/ PhaseGivesUp \/ ScoutDone \/ CoachDone
           \/ LoopShutdown \/ ArchitectDone \/ LoopArchitectFails
  BY <1>6 DEF HardenWrites, HardenDone, PhaseGivesUp, ScoutDone, CoachDone,
     LoopShutdown, ArchitectDone, LoopArchitectFails, Working
<1>7. CASE Execute \/ ExecuteFailed \/ ExecuteSucceeded
  BY <1>7 DEF Execute, ExecuteFailed, ExecuteSucceeded, ExecuteRefused, ExecuteStarts, Fail,
     Working
<1>8. CASE SkipTask
  <2>1. [ctx EXCEPT !.skip = FALSE].lvl = ctx.lvl /\ [ctx EXCEPT !.skip = FALSE].div = ctx.div
    BY DEF LocalsOK, Context
  <2> QED BY <1>8, <2>1 DEF SkipTask, AttemptStarts
<1>9. CASE EscalateToHuman
  <2>1. ctx'.lvl = HUMAN /\ ctx'.div = ctx.div /\ pc' = "execfail"
    BY <1>9 DEF EscalateToHuman, Fail, LocalsOK, Context
  <2> QED BY <2>1 DEF NONE, HUMAN
<1>10. CASE StartBuilder
  <2>1. CASE NextLevel = NONE
    BY <1>10, <2>1 DEF StartBuilder, AttemptReady, AttemptStarts
  <2>2. CASE NextLevel # NONE
    <3>1. ctx'.lvl = NextLevel /\ ctx'.div = DivAfter(NextLevel, ctx.div) /\ NextLevel # HUMAN
      BY <1>10, <2>2 DEF StartBuilder, LocalsOK, Context
    <3> QED BY <2>2, <3>1, LevelFacts DEF NextLevel
  <2> QED BY <2>1, <2>2
<1>11. CASE SkipDoneTask \/ ShutdownAtTask \/ OverrideAtTask \/ BeginTask \/ BeginTaskFails
            \/ TasksEnd \/ OverrideAtAttempt
  BY <1>11 DEF SkipDoneTask, ShutdownAtTask, OverrideAtTask, BeginTask, TaskReady,
     BeginTaskFails, TasksEnd, OverrideAtAttempt, AttemptStarts, OverrideStop, OverridePause, Fail
<1>12. CASE AgentTurnEnd \/ AgentToolResult \/ AgentStuck \/ BuilderFails \/ BuilderDone
            \/ VerifierPass \/ VerifierFail \/ VerifierAnomaly \/ TaskPassed \/ TaskFailed
  BY <1>12 DEF AgentTurnEnd, AgentToolResult, AgentStuck, BuilderFails, BuilderDone,
     VerifierPass, VerifierFail, VerifierAnomaly, TaskPassed, TaskFailed, AttemptFails
<1>13. CASE SliceDone \/ SliceCoach \/ ClaimSlice \/ Complete \/ SliceLimit
  BY <1>13 DEF SliceDone, SliceCoach, ClaimSlice, Complete, SliceLimit
<1>14. CASE AdoptSlice
  <2>1. ctx'.lvl = NONE /\ ctx'.div = 0
    BY <1>14 DEF AdoptSlice, LocalsOK, Context
  <2> QED BY <2>1 DEF NONE, HUMAN
<1>15. CASE Idle
  BY <1>1, <1>15 DEF Idle, IdleExit, IdleTimeout, IdleNewPlan, IdleResume, IdleDrops, IdleTakes,
     StartsWith, Gone
<1>16. CASE Environment
  BY <1>1, <1>16 DEF Environment, SendCommand, HumanWrites, Signal, Crash, UnexpectedError, Gone
<1>17. CASE UNCHANGED vars
  BY <1>17 DEF vars
<1> QED
  BY <1>2, <1>3, <1>4, <1>5, <1>6, <1>7, <1>8, <1>9, <1>10, <1>11, <1>12, <1>13, <1>14, <1>15,
     <1>16, <1>17
  DEF Next, Runner, ExecuteNext

\* It holds at first ...
LEMMA LadderInit == Init => Ladder
  BY LimitsAssumption DEF Init, Ladder, NoCtx, NONE, HUMAN

\* ... and in every reachable state.
LEMMA LadderInvariant == Spec => []Ladder
<1>1. Init => Ladder
  BY LadderInit
<1>2. IInv /\ Ladder /\ [Next]_vars => Ladder'
  BY LadderStep
<1> QED BY <1>1, <1>2, Invariance, PTL DEF Spec

\* After the escalation to the human no agent works on, for every threshold of
\* the stuck detection.
THEOREM HumanEndsTheSlice == Spec => []NoAgentAfterHuman
<1>1. Ladder => NoAgentAfterHuman
  BY DEF Ladder, NoAgentAfterHuman
<1> QED BY <1>1, LadderInvariant, PTL

\* The attempts at level 1 are bounded by the configuration, for every slice.
THEOREM DiversificationBound == Spec => []DiversificationsAreBounded
<1>1. Ladder => DiversificationsAreBounded
  BY DEF Ladder, DiversificationsAreBounded
<1> QED BY <1>1, LadderInvariant, PTL

-----------------------------------------------------------------------------
(***************************************************************************)
(* Completion.                                                             *)
(***************************************************************************)

\* COMPLETED is found on disk only by a process that idles or has not started.
LEMMA CompletedIsAtRest ==
  ASSUME TypeOK, Control, disk.phase = "completed" PROVE pc \in {"down", "idle"}
  BY InTaskFacts DEF TypeOK, PlaceOK, PCs, Control, References, Executing, InTask, Together

\* Only Complete makes the file COMPLETED.
LEMMA OnlyCompleteCompletes ==
  ASSUME IInv, IInv', [Next]_vars, disk'.phase = "completed"
  PROVE  Complete \/ (disk.phase = "completed" /\ UNCHANGED fs.queue)
<1> USE DEF IInv, TypeOK, StatesOK, mem, env
<1>1. pc' \in {"down", "idle"}
  <2>1. InTask' => disk'.phase = "running"
    BY ForgetFields DEF Control, Executing
  <2> QED BY <2>1 DEF PlaceOK, PCs, Control, References, Executing, InTask, Together
<1>2. \A s \in State, p \in {"running", "failed", "paused"} : Moved(s, p).phase # "completed"
  BY MovedFields
<1>3. pc \notin {"down", "idle"} => disk.phase # "completed"
  BY CompletedIsAtRest
<1>4. CASE Boot
  BY <1>1, <1>4 DEF Boot, BootIdle, BootStart, BootResume, StartsWith
<1>5. CASE (\E p \in Pipeline : EnterPhase(p)) \/ BeginPipeline \/ NothingDue
  BY <1>1, <1>5 DEF EnterPhase, BeginPipeline, NothingDue
<1>6. CASE DrainCommands
  BY <1>1, <1>2, <1>6 DEF DrainCommands, DrainStop, DrainPause, DrainHumanPause, DrainSteer,
     DrainSkip, DrainNewPlan, DrainOther, Drained, Draining, SaveRunner
<1>7. CASE HardenWrites \/ HardenDone \/ PhaseGivesUp \/ ScoutDone \/ CoachDone
           \/ LoopShutdown \/ ArchitectDone \/ LoopArchitectFails
  BY <1>1, <1>2, <1>3, <1>7 DEF HardenWrites, HardenDone, PhaseGivesUp, ScoutDone, CoachDone,
     LoopShutdown, ArchitectDone, LoopArchitectFails, Working, SaveRunner
<1>8. CASE Execute \/ ExecuteFailed \/ ExecuteSucceeded
  BY <1>1, <1>2, <1>8 DEF Execute, ExecuteFailed, ExecuteSucceeded, ExecuteRefused,
     ExecuteStarts, Fail, SaveRunner
<1>9. CASE ExecuteNext
  BY <1>1, <1>9 DEF ExecuteNext, SkipDoneTask, ShutdownAtTask, OverrideAtTask, OverrideStop,
     OverridePause, BeginTask, BeginTaskFails, TasksEnd, SkipTask, OverrideAtAttempt,
     EscalateToHuman, StartBuilder, AgentTurnEnd, AgentToolResult, AgentStuck, BuilderFails,
     BuilderDone, VerifierPass, VerifierFail, VerifierAnomaly, TaskPassed, TaskFailed,
     AttemptFails, Fail
<1>10. CASE SliceDone \/ SliceCoach \/ ClaimSlice \/ AdoptSlice \/ SliceLimit
  BY <1>1, <1>3, <1>10 DEF SliceDone, SliceCoach, ClaimSlice, AdoptSlice, SliceLimit
<1>11. CASE Complete
  BY <1>11
<1>12. CASE Idle
  BY <1>1, <1>12 DEF Idle, IdleExit, IdleTimeout, IdleNewPlan, IdleResume, IdleDrops, StartsWith
<1>13. CASE SendCommand \/ Signal \/ Crash \/ UNCHANGED vars
  BY <1>13 DEF SendCommand, Signal, Crash, vars
<1>14. CASE HumanWrites
  <2>1. UNCHANGED fs.queue
    BY <1>14 DEF HumanWrites, FilesOK, Files
  <2> QED BY <1>14, <2>1 DEF HumanWrites
<1>15. CASE UnexpectedError
  BY <1>2, <1>15 DEF UnexpectedError
<1> QED
  BY <1>4, <1>5, <1>6, <1>7, <1>8, <1>9, <1>10, <1>11, <1>12, <1>13, <1>14, <1>15
  DEF Next, Runner, Environment

\* A run that counts as complete leaves no slice of TASK_QUEUE.md behind.
THEOREM CompletionIsTotal == Spec => []CompletedLeavesNoneUnclaimed
<1>1. Init => CompletedLeavesNoneUnclaimed
  BY DEF Init, Fresh, CompletedLeavesNoneUnclaimed
<1>2. IInv /\ IInv' /\ CompletedLeavesNoneUnclaimed /\ [Next]_vars
        => CompletedLeavesNoneUnclaimed'
  <2> SUFFICES ASSUME IInv, IInv', CompletedLeavesNoneUnclaimed, [Next]_vars,
                      disk'.phase = "completed", MaxSlices > 1
               PROVE  NothingToClaim(fs'.queue)
    BY DEF CompletedLeavesNoneUnclaimed, NothingToClaim
  <2>1. CASE Complete
    BY <2>1, BoundAssumption DEF Complete
  <2>2. CASE disk.phase = "completed" /\ UNCHANGED fs.queue
    BY <2>2 DEF CompletedLeavesNoneUnclaimed
  <2> QED BY <2>1, <2>2, OnlyCompleteCompletes
<1> QED BY <1>1, <1>2, Invariance, PTL DEF Spec

-----------------------------------------------------------------------------
(***************************************************************************)
(* Where the steps start.                                                  *)
(***************************************************************************)

\* The steps of run_execute are steps of a task.
LEMMA ExecuteIsInTask ==
  ASSUME ExecuteNext PROVE InTask
  BY DEF ExecuteNext, SkipDoneTask, ShutdownAtTask, OverrideAtTask, BeginTask, BeginTaskFails,
     TaskReady, TasksEnd, SkipTask, OverrideAtAttempt, EscalateToHuman, StartBuilder, AttemptReady,
     AttemptStarts, AgentTurnEnd, AgentToolResult, AgentStuck, BuilderFails, BuilderDone,
     VerifierPass, VerifierFail, VerifierAnomaly, TaskPassed, TaskFailed, InTask

\* The steps of run_execute stay there, or fail the slice.
LEMMA ExecutePlaces ==
  ASSUME ExecuteNext PROVE InTask' \/ pc' = "execfail"
  BY DEF ExecuteNext, SkipDoneTask, ShutdownAtTask, OverrideAtTask, OverrideStop,
     OverridePause, BeginTask, BeginTaskFails, TasksEnd, SkipTask, OverrideAtAttempt,
     EscalateToHuman, StartBuilder, AgentTurnEnd, AgentToolResult, AgentStuck, BuilderFails,
     BuilderDone, VerifierPass, VerifierFail, VerifierAnomaly, TaskPassed, TaskFailed,
     AttemptFails, Fail, InTask

\* The steps of the pipeline are those of a process in it.
LEMMA RunnerIsBusy ==
  ASSUME Runner PROVE pc \notin {"down", "idle", "legacy"}
<1>1. CASE ExecuteNext
  BY <1>1, ExecuteIsInTask DEF InTask
<1>2. CASE DrainCommands
  BY <1>2 DEF DrainCommands, Draining, DrainStop, DrainPause, DrainHumanPause, DrainSteer,
     DrainSkip, DrainNewPlan, DrainOther, Drained
<1>3. CASE \/ BeginPipeline \/ (\E p \in Pipeline : EnterPhase(p)) \/ NothingDue
           \/ HardenWrites \/ HardenDone \/ PhaseGivesUp \/ ScoutDone \/ CoachDone
           \/ LoopShutdown \/ ArchitectDone \/ LoopArchitectFails \/ Execute
  BY <1>3 DEF BeginPipeline, EnterPhase, NothingDue, HardenWrites, HardenDone, PhaseGivesUp,
     ScoutDone, CoachDone, LoopShutdown, ArchitectDone, LoopArchitectFails, Execute, Working
<1>4. CASE \/ ExecuteFailed \/ ExecuteSucceeded \/ SliceDone \/ SliceCoach \/ ClaimSlice
           \/ AdoptSlice \/ Complete \/ SliceLimit
  BY <1>4 DEF ExecuteFailed, ExecuteSucceeded, SliceDone, SliceCoach, ClaimSlice, AdoptSlice,
     Complete, SliceLimit
<1> QED BY <1>1, <1>2, <1>3, <1>4 DEF Runner

-----------------------------------------------------------------------------
(***************************************************************************)
(* A pause.                                                                *)
(***************************************************************************)

\* A pause that STATE.json holds is answered with FAILED only where run_execute
\* has just returned: the pipeline's own pause, an idle runner, a restart and any
\* failure elsewhere keep it until something resumes the run.
THEOREM PauseIsKeptElsewhere ==
  Spec =>
    [][disk.phase = "paused" /\ pc \notin {"execfail", "legacy"} => disk'.phase # "failed"]_vars
<1>1. IInv /\ [Next]_vars
        => [disk.phase = "paused" /\ pc \notin {"execfail", "legacy"} => disk'.phase # "failed"]_vars
  <2> SUFFICES ASSUME IInv, [Next]_vars, disk.phase = "paused",
                      pc \notin {"execfail", "legacy"}
               PROVE  disk'.phase # "failed"
    OBVIOUS
  <2> USE DEF IInv, TypeOK, StatesOK, mem, env
  <2>1. pc \in {"down", "idle"}
    BY InTaskFacts DEF PlaceOK, PCs, Control, References, Executing, InTask, Together
  <2>2. CASE Boot \/ Idle
    BY <2>2, MovedFields, MarkStartedFields DEF Boot, BootIdle, BootStart, BootResume, StartsWith,
       SaveAndShare, Idle, IdleExit, IdleTimeout, IdleNewPlan, IdleResume, IdleDrops
  <2>3. CASE SendCommand \/ HumanWrites \/ Signal \/ Crash \/ UNCHANGED vars
    BY <2>3 DEF SendCommand, HumanWrites, Signal, Crash, vars
  <2>4. CASE UnexpectedError
    BY <2>1, <2>4 DEF UnexpectedError, Control, References
  <2>5. CASE Runner
    BY <2>1, <2>5, RunnerIsBusy
  <2> QED BY <2>2, <2>3, <2>4, <2>5 DEF Next, Environment
<1> QED BY <1>1, Invariance, PTL DEF Spec

-----------------------------------------------------------------------------
(***************************************************************************)
(* The command queue in the execute phase.                                 *)
(***************************************************************************)

\* A queue has its own commands, in their order.
LEMMA SameQueue == ASSUME NEW q PROVE SameForRunner(q, q)
<1> DEFINE f == [i \in Kept(q) |-> i]
<1>1. f \in [Kept(q) -> Kept(q)] /\ \A i \in Kept(q) : f[i] = i
  OBVIOUS
<1> HIDE DEF f
<1> QED BY <1>1 DEF SameForRunner

\* Positions chosen in increasing order and as many as there are commands to
\* keep: each of them is chosen, so nothing but skip_task is lost.
LEMMA SiftingKeeps ==
  ASSUME NEW q \in Seq(Commands), NEW r, Sifts(q, r) PROVE SameForRunner(q, r)
<1> DEFINE n == Cardinality(Kept(q))
<1>1. Kept(q) \subseteq 1 .. Len(q) /\ IsFiniteSet(Kept(q))
  BY FS_Interval, FS_Subset DEF Kept
<1>2. n \in Nat
  BY <1>1, FS_CardinalityType
<1>3. PICK f \in [1 .. n -> Kept(q)] :
         /\ \A i, j \in 1 .. n : i < j => f[i] < f[j]
         /\ r = [i \in 1 .. n |-> q[f[i]]]
  BY DEF Sifts
<1> HIDE DEF n
<1>4. Kept(r) = 1 .. n
  BY <1>3 DEF Kept
<1>5. f \in Injection(1 .. n, Kept(q))
  <2>1. ASSUME NEW i \in 1 .. n, NEW j \in 1 .. n, f[i] = f[j] PROVE i = j
    <3>1. f[i] \in Int /\ ~(f[i] < f[i])
      BY <1>1, <1>3
    <3>2. ~(i < j) /\ ~(j < i)
      BY <1>3, <2>1, <3>1
    <3> QED BY <1>2, <3>2
  <2> QED BY <1>3, <2>1 DEF Injection, IsInjective
<1>6. f \in Surjection(1 .. n, Kept(q))
  <2>1. Cardinality(1 .. n) = n
    BY <1>2, FS_Interval
  <2> QED BY <1>1, <1>5, <2>1, FS_Injection DEF n
<1>7. \A k \in Kept(q) : \E i \in 1 .. n : f[i] = k
  BY <1>6 DEF Surjection
<1> QED BY <1>3, <1>4, <1>7 DEF SameForRunner

\* What a step from inside run_execute does to the queue.
LEMMA QueueInTask ==
  ASSUME [Next]_vars, InTask, pc' \notin {"down", "idle"}
  PROVE  \/ cmdq' = cmdq
         \/ Sifts(cmdq, cmdq')
         \/ \E c \in Commands : cmdq' = Append(cmdq, c)
<1> USE DEF env
<1>1. CASE SkipTask
  BY <1>1 DEF SkipTask
<1>2. CASE \/ SkipDoneTask \/ ShutdownAtTask \/ OverrideAtTask \/ BeginTask \/ BeginTaskFails
           \/ TasksEnd \/ OverrideAtAttempt \/ EscalateToHuman \/ StartBuilder
           \/ AgentTurnEnd \/ AgentToolResult \/ AgentStuck \/ BuilderFails \/ BuilderDone
           \/ VerifierPass \/ VerifierFail \/ VerifierAnomaly \/ TaskPassed \/ TaskFailed
  BY <1>2 DEF SkipDoneTask, ShutdownAtTask, OverrideAtTask, BeginTask, BeginTaskFails, TasksEnd,
     OverrideAtAttempt, EscalateToHuman, StartBuilder, AgentTurnEnd, AgentToolResult, AgentStuck,
     BuilderFails, BuilderDone, VerifierPass, VerifierFail, VerifierAnomaly, TaskPassed, TaskFailed
<1>3. CASE ExecuteSucceeded
  BY <1>3 DEF ExecuteSucceeded
<1>4. CASE SendCommand
  BY <1>4 DEF SendCommand
<1>5. CASE HumanWrites \/ Signal \/ UNCHANGED vars
  BY <1>5 DEF HumanWrites, Signal, vars
<1>6. CASE Crash \/ UnexpectedError
  BY <1>6 DEF Crash, UnexpectedError, Gone
<1>7. CASE Boot \/ Idle
  BY <1>7 DEF Boot, BootIdle, BootStart, BootResume, Idle, IdleExit, IdleTimeout, IdleNewPlan,
     IdleResume, IdleDrops, IdleTakes, InTask
<1>8. CASE \/ BeginPipeline \/ (\E p \in Pipeline : EnterPhase(p)) \/ NothingDue \/ DrainCommands
           \/ HardenWrites \/ HardenDone \/ PhaseGivesUp \/ ScoutDone \/ CoachDone
           \/ LoopShutdown \/ ArchitectDone \/ LoopArchitectFails \/ Execute \/ ExecuteFailed
           \/ SliceDone \/ SliceCoach \/ ClaimSlice \/ AdoptSlice \/ Complete \/ SliceLimit
  BY <1>8 DEF BeginPipeline, EnterPhase, NothingDue, DrainCommands, DrainStop, DrainPause,
     DrainHumanPause, DrainSteer, DrainSkip, DrainNewPlan, DrainOther, Drained, Draining,
     HardenWrites, HardenDone, PhaseGivesUp, ScoutDone, CoachDone, LoopShutdown, ArchitectDone,
     LoopArchitectFails, Execute, ExecuteFailed, Working, SliceDone, SliceCoach, ClaimSlice,
     AdoptSlice, Complete, SliceLimit, InTask
<1> QED
  BY <1>1, <1>2, <1>3, <1>4, <1>5, <1>6, <1>7, <1>8
  DEF Next, Runner, ExecuteNext, Environment

\* A step from inside run_execute loses no command but skip_task, and leaves the
\* others in their order.
LEMMA CommandStep ==
  ASSUME EnvOK, [Next]_vars, InTask, pc' \notin {"down", "idle"}
  PROVE  \/ SameForRunner(cmdq, cmdq')
         \/ \E c \in Commands : SameForRunner(Append(cmdq, c), cmdq')
<1>1. CASE cmdq' = cmdq
  BY <1>1, SameQueue
<1>2. CASE Sifts(cmdq, cmdq')
  BY <1>2, SiftingKeeps DEF EnvOK
<1>3. ASSUME NEW c \in Commands, cmdq' = Append(cmdq, c)
      PROVE  SameForRunner(Append(cmdq, c), cmdq')
  BY <1>3, SameQueue
<1> QED BY <1>1, <1>2, <1>3, QueueInTask

\* The other commands wait for the runner, however many tasks and attempts they
\* wait, and for any commands sent meanwhile.
THEOREM CommandsAreKept == Spec => ExecuteKeepsCommands
<1>1. IInv /\ [Next]_vars
        => [InTask /\ pc' \notin {"down", "idle"} =>
               \/ SameForRunner(cmdq, cmdq')
               \/ \E c \in Commands : SameForRunner(Append(cmdq, c), cmdq')]_vars
  BY CommandStep DEF IInv, TypeOK
<1> QED BY <1>1, Invariance, PTL DEF Spec, ExecuteKeepsCommands
=============================================================================
