---------------------------- MODULE SoraTypeProofs ---------------------------
(***************************************************************************)
(* Type correctness of SoraRunner, with the bounds of the task index that  *)
(* its file types need.  One lemma for each part of TypeOK, one case for   *)
(* each action or group of actions in it.                                  *)
(***************************************************************************)
EXTENDS SoraProperties, FiniteSetTheorems, TLAPS

-----------------------------------------------------------------------------
(***************************************************************************)
(* The operators on AgentState return AgentStates.                         *)
(***************************************************************************)

\* The slices of TASK_QUEUE.md are slices.
LEMMA QueueSlicesAreSlices == QueueSlices \subseteq Slices
  BY SliceAssumption DEF QueueSlices

\* current_slice or "S01" is a slice.
LEMMA CurrentSliceType ==
  ASSUME NEW s \in State PROVE CurrentSlice(s) \in Slices
  BY SliceAssumption DEF State, CurrentSlice

\* A new AgentState is one.
LEMMA FreshType == Fresh \in State
  BY DEF Fresh, State, Phase, SoraPhase

\* Each checkpoint operation returns an AgentState: mark_* ...
LEMMA MovedType ==
  ASSUME NEW s \in State, NEW p \in Phase PROVE Moved(s, p) \in State
  BY DEF Moved, State

\* ... set_sora_phase ...
LEMMA SetSoraType ==
  ASSUME NEW s \in State, NEW p \in SoraPhase PROVE SetSora(s, p) \in State
  BY DEF SetSora, State

\* ... mark_started, from whatever the earlier run left ...
LEMMA MarkStartedType ==
  ASSUME NEW s \in State, NEW p \in Plans \union {NoPlan}
  PROVE  MarkStarted(s, p) \in State
  BY FreshType DEF MarkStarted, State, Phase

\* ... the checkpoint at the start of a task ...
LEMMA TaskStartedType ==
  ASSUME NEW s \in State, NEW t \in Nat PROVE TaskStarted(s, t) \in State
  BY DEF TaskStarted, State, SoraPhase

\* ... execute_escalation at every level ...
LEMMA EscalatedType ==
  ASSUME NEW s \in State, NEW l \in Level PROVE Escalated(s, l) \in State
<1>1. "paused" \in Phase
  BY DEF Phase
<1>2. Moved(s, "paused") \in State
  BY <1>1, MovedType
<1>3. [s EXCEPT !.rep = 0] \in State /\ [s EXCEPT !.steps = 0, !.retry = 0, !.rep = 0] \in State
  BY DEF State
<1> QED
  BY <1>2, <1>3 DEF Escalated, Level, NONE, DIVERSIFICATION, BACKTRACK_COACH, HUMAN

\* ... increment_step on a message of the agent, which stays below the bound ...
LEMMA AfterTurnEndType ==
  ASSUME NEW s \in State PROVE AfterTurnEnd(s) \in State
<1>1. s.steps + 1 \in Nat BY DEF State
<1> QED BY <1>1 DEF AfterTurnEnd, State

\* ... and on a tool result ...
LEMMA AfterToolResultType ==
  ASSUME NEW s \in State, NEW same \in BOOLEAN PROVE AfterToolResult(s, same) \in State
<1> DEFINE n == AfterTurnEnd(s)
<1>1. n \in State BY AfterTurnEndType
<1>2. n.rep + 1 \in Nat BY <1>1 DEF State
<1> HIDE DEF n
<1>3. [n EXCEPT !.rep = IF ~same THEN 0 ELSE IF @ < StepCap THEN @ + 1 ELSE @] \in State
  BY <1>1, <1>2 DEF State
<1> QED BY <1>3 DEF AfterToolResult, n

\* ... and retry_count += 1.
LEMMA RetriedType ==
  ASSUME NEW s \in State PROVE [s EXCEPT !.retry = @ + 1] \in State
<1>1. s.retry + 1 \in Nat BY DEF State
<1> QED BY <1>1 DEF State

-----------------------------------------------------------------------------
(***************************************************************************)
(* Saving keeps the types.                                                 *)
(***************************************************************************)

\* The four ways to save a state, and the assignment that does not save it,
\* keep the types of the objects and of the file.
LEMMA SaveTypes ==
  ASSUME StatesOK, NEW s \in State,
         SaveRunner(s) \/ SaveAndShare(s) \/ SaveContext(s) \/ SaveCopy(s) \/ TouchContext(s)
  PROVE  StatesOK'
  BY DEF StatesOK, SaveRunner, SaveAndShare, SaveContext, SaveCopy, TouchContext

-----------------------------------------------------------------------------
(***************************************************************************)
(* Type correctness: one lemma per part of TypeOK.                         *)
(***************************************************************************)

\* The values that a new process, pipeline or slice starts with.
LEMMA NoRunType == NoRun \in RunLocals
<1>1. 0 \in Nat /\ "hardening" \in Pipeline BY DEF Pipeline
<1> QED BY <1>1 DEF NoRun, RunLocals

\* ... so is the context of a run that has not begun ...
LEMMA NoCtxType == NoCtx \in Context
<1>1. 0 \in Nat /\ NONE \in Level BY DEF Level
<1> QED BY <1>1 DEF NoCtx, Context

\* ... and so are those of run_execute.
LEMMA ExIdleType == ExIdle \in ExLocals
  BY DEF ExIdle, ExLocals

\* A step leads to a place of the runner, with locals of the right type.
LEMMA PlaceStep ==
  ASSUME TypeOK, TaskBounds, [Next]_vars PROVE PlaceOK'
<1> USE NoRunType DEF TypeOK, PlaceOK, PCs, RunLocals, Pipeline, mem, env
<1>1. CASE Boot
  BY <1>1 DEF Boot, BootIdle, BootStart, BootResume, StartsWith
<1>2. CASE \E p \in Pipeline : EnterPhase(p)
  BY <1>2 DEF EnterPhase
<1>3. CASE BeginPipeline \/ NothingDue
  BY <1>3 DEF BeginPipeline, NothingDue
<1>4. CASE DrainCommands
  BY <1>4 DEF DrainCommands, DrainStop, DrainPause, DrainHumanPause, DrainSteer,
     DrainSkip, DrainNewPlan, DrainOther, Drained
<1>5. CASE HardenWrites \/ HardenDone \/ PhaseGivesUp \/ ScoutDone \/ CoachDone
           \/ LoopShutdown \/ ArchitectDone \/ LoopArchitectFails
  BY <1>5 DEF HardenWrites, HardenDone, PhaseGivesUp, ScoutDone, CoachDone,
     LoopShutdown, ArchitectDone, LoopArchitectFails
<1>6. CASE Execute \/ ExecuteFailed \/ ExecuteSucceeded
  BY <1>6 DEF Execute, ExecuteFailed, ExecuteSucceeded, ExecuteRefused, ExecuteStarts, Fail
<1>7. CASE ExecuteNext
  BY <1>7 DEF ExecuteNext, SkipDoneTask, ShutdownAtTask, OverrideAtTask, OverrideStop, OverridePause,
    BeginTask, BeginTaskFails, TasksEnd, SkipTask, OverrideAtAttempt, EscalateToHuman, StartBuilder,
    AgentTurnEnd, AgentToolResult, AgentStuck, BuilderFails, BuilderDone, VerifierPass, VerifierFail,
    VerifierAnomaly, TaskPassed, TaskFailed, AttemptFails, Fail
<1>8. CASE SliceDone \/ SliceCoach \/ Complete \/ SliceLimit
  BY <1>8 DEF SliceDone, SliceCoach, Complete, SliceLimit
<1>9. CASE ClaimSlice
  BY <1>9 DEF ClaimSlice
<1>10. CASE AdoptSlice
  <2>1. run.extra + 1 \in Nat
    OBVIOUS
  <2> QED BY <1>10, <2>1 DEF AdoptSlice
<1>11. CASE Idle
  BY <1>11 DEF Idle, IdleExit, IdleTimeout, IdleNewPlan, IdleResume, IdleDrops, IdleTakes, Gone, StartsWith
<1>12. CASE Environment
  BY <1>12 DEF Environment, SendCommand, HumanWrites, Signal, Crash, UnexpectedError, Gone
<1>13. CASE UNCHANGED vars
  BY <1>13 DEF vars
<1> QED BY <1>1, <1>2, <1>3, <1>4, <1>5, <1>6, <1>7, <1>8, <1>9, <1>10, <1>11, <1>12, <1>13 DEF Next, Runner

\* A decision is a level.
LEMMA DecideType ==
  ASSUME NEW signal, NEW l \in Level, NEW n \in Nat
  PROVE  DecideEscalation(signal, l, n) \in Level
  BY DEF DecideEscalation, Level

\* The count of diversified attempts stays a number.
LEMMA DivAfterType ==
  ASSUME NEW l \in Level, NEW n \in Nat PROVE DivAfter(l, n) \in Nat
  BY DEF DivAfter

\* A step keeps the types of the context and of run_execute's locals.
LEMMA LocalsStep ==
  ASSUME TypeOK, TaskBounds, [Next]_vars PROVE LocalsOK'
<1> USE NoCtxType, ExIdleType DEF TypeOK, LocalsOK, mem, env
<1>1. cst.idx \in Nat /\ ex.ti \in Nat /\ ex.ti + 1 \in Nat /\ ex.att + 1 \in Nat /\ 0 \in Nat
  BY DEF StatesOK, State, ExLocals
<1>2. CASE Boot
  BY <1>2 DEF Boot, BootIdle, BootStart, BootResume, StartsWith
<1>3. CASE \E p \in Pipeline : EnterPhase(p)
  BY <1>3 DEF EnterPhase
<1>4. CASE BeginPipeline \/ NothingDue
  BY <1>4 DEF BeginPipeline, NothingDue
<1>5. CASE DrainCommands
  BY <1>5 DEF DrainCommands, DrainStop, DrainPause, DrainHumanPause, DrainSteer,
     DrainSkip, DrainNewPlan, DrainOther, Drained, Context
<1>6. CASE HardenWrites \/ HardenDone \/ PhaseGivesUp \/ ScoutDone \/ CoachDone
           \/ LoopShutdown \/ ArchitectDone \/ LoopArchitectFails
  BY <1>6 DEF HardenWrites, HardenDone, PhaseGivesUp, ScoutDone, CoachDone,
     LoopShutdown, ArchitectDone, LoopArchitectFails
<1>7. CASE Execute \/ ExecuteFailed \/ ExecuteSucceeded
  BY <1>1, <1>7 DEF Execute, ExecuteFailed, ExecuteSucceeded, ExecuteRefused, ExecuteStarts,
     ExLocals
<1>8. CASE SkipDoneTask \/ ShutdownAtTask \/ OverrideAtTask \/ BeginTask \/ BeginTaskFails
           \/ TasksEnd \/ SkipTask \/ OverrideAtAttempt
  BY <1>1, <1>8 DEF SkipDoneTask, ShutdownAtTask, OverrideAtTask, BeginTask, BeginTaskFails,
     TasksEnd, SkipTask, OverrideAtAttempt, ExLocals, Context
<1>9. CASE EscalateToHuman \/ StartBuilder
  <2>1. NextLevel \in Level /\ DivAfter(NextLevel, ctx.div) \in Nat
    BY DecideType, DivAfterType DEF NextLevel, Context
  <2>2. CASE EscalateToHuman
    BY <2>2 DEF EscalateToHuman, Context, Level
  <2>3. CASE StartBuilder
    BY <2>1, <2>3 DEF StartBuilder, Context
  <2> QED BY <1>9, <2>2, <2>3
<1>10. CASE AgentTurnEnd \/ AgentToolResult \/ AgentStuck \/ BuilderFails \/ BuilderDone
            \/ VerifierPass \/ VerifierFail \/ VerifierAnomaly \/ TaskPassed \/ TaskFailed
  BY <1>1, <1>10 DEF AgentTurnEnd, AgentToolResult, AgentStuck, BuilderFails, BuilderDone,
     VerifierPass, VerifierFail, VerifierAnomaly, TaskPassed, TaskFailed, AttemptFails, ExLocals
<1>11. CASE SliceDone \/ SliceCoach \/ ClaimSlice \/ AdoptSlice \/ Complete \/ SliceLimit
  <2>1. CASE AdoptSlice
    <3>1. NONE \in Level
      BY DEF Level
    <3> QED BY <1>1, <2>1, <3>1 DEF AdoptSlice, Context
  <2>2. CASE ~AdoptSlice
    BY <1>11, <2>2 DEF SliceDone, SliceCoach, ClaimSlice, Complete, SliceLimit
  <2> QED BY <2>1, <2>2
<1>12. CASE Idle
  BY <1>12 DEF Idle, IdleExit, IdleTimeout, IdleNewPlan, IdleResume, IdleDrops, Gone
<1>13. CASE Environment
  BY <1>13 DEF Environment, SendCommand, HumanWrites, Signal, Crash, UnexpectedError, Gone
<1>14. CASE UNCHANGED vars
  BY <1>14 DEF vars
<1> QED
  BY <1>2, <1>3, <1>4, <1>5, <1>6, <1>7, <1>8, <1>9, <1>10, <1>11, <1>12, <1>13, <1>14
  DEF Next, Runner, ExecuteNext

\* A queue without its skip commands is a queue.
LEMMA SiftsType ==
  ASSUME NEW q \in Seq(Commands), NEW r, Sifts(q, r) PROVE r \in Seq(Commands)
<1>1. Kept(q) \subseteq 1 .. Len(q) /\ IsFiniteSet(Kept(q))
  BY FS_Interval, FS_Subset DEF Kept
<1>2. Cardinality(Kept(q)) \in Nat
  BY <1>1, FS_CardinalityType
<1>3. PICK f \in [1 .. Cardinality(Kept(q)) -> Kept(q)] : r = [i \in DOMAIN f |-> q[f[i]]]
  BY DEF Sifts
<1>4. \A i \in 1 .. Cardinality(Kept(q)) : q[f[i]] \in Commands
  BY <1>1, <1>3
<1> QED BY <1>2, <1>3, <1>4

\* A step keeps the queue a sequence of commands, and the rest of the
\* environment in its type.
LEMMA EnvStep ==
  ASSUME TypeOK, TaskBounds, [Next]_vars PROVE EnvOK'
<1> USE ConfigAssumption DEF TypeOK, EnvOK, mem, env
<1>1. sent + 1 \in Nat /\ faults + 1 \in Nat
  OBVIOUS
<1>2. cmdq # <<>> => Tail(cmdq) \in Seq(Commands) /\ Head1 \in Commands
  BY DEF Head1
<1>3. \A q \in Seq(Commands), c \in Commands : Append(q, c) \in Seq(Commands)
  OBVIOUS
<1>4. \A c \in Commands : c.plan \in Plans \union {NoPlan}
  OBVIOUS
<1>5. <<>> \in Seq(Commands)
  OBVIOUS
<1>6. CASE Boot
  BY <1>6 DEF Boot, BootIdle, BootStart, BootResume, StartsWith
<1>7. CASE (\E p \in Pipeline : EnterPhase(p)) \/ BeginPipeline \/ NothingDue
  BY <1>7 DEF EnterPhase, BeginPipeline, NothingDue
<1>8. CASE DrainCommands
  BY <1>2, <1>3, <1>8 DEF DrainCommands, DrainStop, DrainPause, DrainHumanPause, DrainSteer,
     DrainSkip, DrainNewPlan, DrainOther, Drained, Draining
<1>9. CASE HardenWrites \/ HardenDone \/ PhaseGivesUp \/ ScoutDone \/ CoachDone
           \/ LoopShutdown \/ ArchitectDone \/ LoopArchitectFails
  BY <1>9 DEF HardenWrites, HardenDone, PhaseGivesUp, ScoutDone, CoachDone,
     LoopShutdown, ArchitectDone, LoopArchitectFails
<1>10. CASE Execute \/ ExecuteFailed \/ ExecuteSucceeded
  BY <1>10 DEF Execute, ExecuteFailed, ExecuteSucceeded, ExecuteRefused, ExecuteStarts
<1>11. CASE SkipDoneTask \/ ShutdownAtTask \/ OverrideAtTask \/ BeginTask \/ BeginTaskFails
           \/ TasksEnd \/ OverrideAtAttempt \/ EscalateToHuman \/ StartBuilder
  BY <1>1, <1>11 DEF SkipDoneTask, ShutdownAtTask, OverrideAtTask, BeginTask, BeginTaskFails,
     TasksEnd, OverrideAtAttempt, EscalateToHuman, StartBuilder, FaultHappens
<1>12. CASE SkipTask
  <2>1. cmdq' \in Seq(Commands)
    BY <1>12, SiftsType DEF SkipTask
  <2> QED BY <1>12, <2>1 DEF SkipTask
<1>13. CASE AgentTurnEnd \/ AgentToolResult \/ AgentStuck \/ BuilderFails \/ BuilderDone
            \/ VerifierPass \/ VerifierFail \/ VerifierAnomaly \/ TaskPassed \/ TaskFailed
  BY <1>13 DEF AgentTurnEnd, AgentToolResult, AgentStuck, BuilderFails, BuilderDone,
     VerifierPass, VerifierFail, VerifierAnomaly, TaskPassed, TaskFailed
<1>14. CASE SliceDone \/ SliceCoach \/ ClaimSlice \/ AdoptSlice \/ Complete \/ SliceLimit
  BY <1>14 DEF SliceDone, SliceCoach, ClaimSlice, AdoptSlice, Complete, SliceLimit
<1>15. CASE Idle
  BY <1>2, <1>4, <1>5, <1>15 DEF Idle, IdleExit, IdleTimeout, IdleNewPlan, IdleResume, IdleDrops,
     IdleTakes, Gone
<1>16. CASE Environment
  BY <1>1, <1>3, <1>5, <1>16 DEF Environment, SendCommand, HumanWrites, Signal, Crash, UnexpectedError,
     FaultHappens, Gone
<1>17. CASE UNCHANGED vars
  BY <1>17 DEF vars
<1> QED
  BY <1>6, <1>7, <1>8, <1>9, <1>10, <1>11, <1>12, <1>13, <1>14, <1>15, <1>16, <1>17
  DEF Next, Runner, ExecuteNext

\* The ghost of a plan none of whose tasks was tried has its type.
LEMMA NoTasksTriedType == NoTasksTried \in [Slices \X Tasks -> Outcomes]
  BY DEF NoTasksTried, Outcomes

\* The task at hand is a task, and may be marked.
LEMMA HereType ==
  ASSUME TypeOK, TaskBounds, pc \in {"attempt", "build", "verify", "taskend"}
  PROVE  Here \in Slices \X Tasks
<1>1. ex.ti \in Tasks
  BY BoundAssumption DEF TypeOK, LocalsOK, ExLocals, TaskBounds, Tasks
<1>2. CurrentSlice(cst) \in Slices
  BY CurrentSliceType DEF TypeOK, StatesOK
<1> QED BY <1>1, <1>2 DEF Here

\* Noting an outcome keeps the type of the ghost.
LEMMA MarkType ==
  ASSUME TypeOK, NEW o \in Outcomes, Mark(o)
  PROVE  res' \in [Slices \X Tasks -> Outcomes]
  BY DEF Mark, TypeOK, FilesOK

\* A coach run leaves files of the right type.
LEMMA CoachFiles ==
  ASSUME fs \in Files, NEW g, CoachRuns(fs, g) PROVE g \in Files
<1>1. CASE g = fs
  BY <1>1
<1>2. ASSUME NEW q \in CoachSays(fs), g = [fs EXCEPT !.queue = q, !.steer = FALSE]
      PROVE  g \in Files
  <2>1. CoachQueues \subseteq Queue
    BY ConfigAssumption
  <2> QED BY <1>2, <2>1 DEF Files, CoachSays
<1> QED BY <1>1, <1>2 DEF CoachRuns

\* A step keeps the types of the files and of the ghost.
LEMMA FilesStep ==
  ASSUME TypeOK, TaskBounds, [Next]_vars PROVE FilesOK'
<1> USE NoTasksTriedType DEF TypeOK, FilesOK, mem, env
<1>1. CASE Boot
  BY <1>1 DEF Boot, BootIdle, BootStart, BootResume, StartsWith, ResAfterStart
<1>2. CASE (\E p \in Pipeline : EnterPhase(p)) \/ NothingDue
  BY <1>2 DEF EnterPhase, NothingDue
<1>3. CASE BeginPipeline
  BY <1>3 DEF BeginPipeline, EnvOK, Files
<1>4. CASE DrainCommands
  BY <1>4 DEF DrainCommands, DrainStop, DrainPause, DrainHumanPause, DrainSteer,
     DrainSkip, DrainNewPlan, DrainOther, Drained, Files
<1>5. CASE HardenWrites
  <2>1. HardenSource \in Plans \union {NoPlan}
    BY DEF HardenSource, StatesOK, State, Files
  <2> QED BY <1>5, <2>1 DEF HardenWrites, Files
<1>6. CASE HardenDone \/ PhaseGivesUp \/ ScoutDone \/ LoopShutdown \/ LoopArchitectFails
  BY <1>6 DEF HardenDone, PhaseGivesUp, ScoutDone, LoopShutdown, LoopArchitectFails
<1>7. CASE CoachDone \/ SliceCoach
  BY <1>7, CoachFiles DEF CoachDone, SliceCoach
<1>8. CASE ArchitectDone
  <2> DEFINE s == CurrentSlice(cst)
  <2>1. s \in Slices
    BY CurrentSliceType DEF StatesOK
  <2>2. PICK p \in {PlanSource(fs), fs.plans[s]} : fs' = [fs EXCEPT !.plans[s] = p]
    BY <1>8 DEF ArchitectDone, ArchitectPlans
  <2>3. p \in Plans \union {NoPlan}
    BY <2>1 DEF PlanSource, Files
  <2>4. fs' \in Files
    BY <2>1, <2>2, <2>3 DEF Files
  <2> QED BY <1>8, <2>4 DEF ArchitectDone
<1>9. CASE Execute \/ ExecuteFailed \/ ExecuteSucceeded
  BY <1>9 DEF Execute, ExecuteFailed, ExecuteSucceeded, ExecuteRefused, ExecuteStarts
<1>10. CASE SkipDoneTask \/ ShutdownAtTask \/ OverrideAtTask \/ BeginTask \/ BeginTaskFails
            \/ TasksEnd \/ OverrideAtAttempt
  BY <1>10 DEF SkipDoneTask, ShutdownAtTask, OverrideAtTask, OverrideAtAttempt, OverrideStop,
     OverridePause, BeginTask, BeginTaskFails, TasksEnd, Files
<1>11. CASE SkipTask \/ BuilderDone
  <2>1. Here \in Slices \X Tasks
    BY <1>11, HereType DEF SkipTask, BuilderDone, AttemptStarts
  <2>2. fs' \in Files
    BY <1>11, <2>1 DEF SkipTask, BuilderDone, Files
  <2>3. res' \in [Slices \X Tasks -> Outcomes]
    BY <1>11, MarkType DEF SkipTask, BuilderDone, Outcomes
  <2> QED BY <2>2, <2>3
<1>12. CASE StartBuilder \/ VerifierPass \/ TaskFailed
  BY <1>12, MarkType DEF StartBuilder, VerifierPass, TaskFailed, Outcomes
<1>13. CASE EscalateToHuman \/ AgentTurnEnd \/ AgentToolResult \/ AgentStuck \/ BuilderFails
            \/ VerifierFail \/ TaskPassed
  BY <1>13 DEF EscalateToHuman, AgentTurnEnd, AgentToolResult, AgentStuck, BuilderFails,
     VerifierFail, TaskPassed
<1>14. CASE VerifierAnomaly
  BY <1>14, CoachFiles DEF VerifierAnomaly
<1>15. CASE SliceDone \/ AdoptSlice \/ Complete \/ SliceLimit
  BY <1>15 DEF SliceDone, AdoptSlice, Complete, SliceLimit
<1>16. CASE ClaimSlice
  BY <1>16 DEF ClaimSlice, Files, Queue
<1>17. CASE Idle
  BY <1>17 DEF Idle, IdleExit, IdleTimeout, IdleNewPlan, IdleResume, IdleDrops, ResAfterStart
<1>18. CASE Environment
  <2>1. CASE SendCommand
    BY <2>1 DEF SendCommand
  <2>2. CASE HumanWrites
    BY <2>2, ConfigAssumption DEF HumanWrites, Files
  <2>3. CASE Signal
    BY <2>3 DEF Signal
  <2>4. CASE Crash
    BY <2>4 DEF Crash
  <2>5. CASE UnexpectedError
    BY <2>5 DEF UnexpectedError
  <2> QED BY <1>18, <2>1, <2>2, <2>3, <2>4, <2>5 DEF Environment
<1>19. CASE UNCHANGED vars
  BY <1>19 DEF vars
<1> QED
  BY <1>1, <1>2, <1>3, <1>4, <1>5, <1>6, <1>7, <1>8, <1>9, <1>10, <1>11, <1>12, <1>13, <1>14,
     <1>15, <1>16, <1>17, <1>18, <1>19
  DEF Next, Runner, ExecuteNext

\* A step of run_execute keeps the types of STATE.json and of both objects.
LEMMA ExecuteStates ==
  ASSUME TypeOK, TaskBounds, ExecuteNext PROVE StatesOK'
<1> USE DEF TypeOK, StatesOK, mem, env
<1>1. ex.ti \in Nat /\ ex.ti + 1 \in Nat /\ NumTasks \in Nat
  BY BoundAssumption DEF LocalsOK, ExLocals
<1>2. \A n \in Nat : [cst EXCEPT !.idx = n] \in State
  BY DEF State
<1>3. Moved(cst, "paused") \in State
  BY MovedType DEF Phase
<1>4. TaskStarted(cst, ex.ti) \in State
  BY <1>1, TaskStartedType
<1>5. [cst EXCEPT !.retry = @ + 1] \in State
  BY RetriedType
<1>6. CASE SkipDoneTask \/ ShutdownAtTask \/ SkipTask \/ BuilderDone \/ VerifierPass \/ TaskFailed
  BY <1>6 DEF SkipDoneTask, ShutdownAtTask, SkipTask, BuilderDone, VerifierPass, TaskFailed
<1>7. CASE OverrideAtTask \/ OverrideAtAttempt
  BY <1>3, <1>7, SaveTypes DEF OverrideAtTask, OverrideAtAttempt, OverrideStop, OverridePause
<1>8. CASE BeginTask
  BY <1>4, <1>8, SaveTypes DEF BeginTask
<1>9. CASE BeginTaskFails
  <2>1. [TaskStarted(cst, ex.ti) EXCEPT !.sora = cst.sora, !.idx = cst.idx] \in State
    BY <1>4 DEF State
  <2> QED BY <1>9, <2>1, SaveTypes DEF BeginTaskFails
<1>10. CASE TasksEnd \/ TaskPassed
  BY <1>1, <1>2, <1>10, SaveTypes DEF TasksEnd, TaskPassed
<1>11. CASE EscalateToHuman \/ StartBuilder
  <2>1. NextLevel \in Level
    BY DecideType DEF NextLevel, LocalsOK, Context
  <2>2. Escalated(cst, NextLevel) \in State
    BY <2>1, EscalatedType
  <2> QED BY <1>11, <2>2, SaveTypes DEF EscalateToHuman, StartBuilder
<1>12. CASE AgentTurnEnd
  BY <1>12, AfterTurnEndType, SaveTypes DEF AgentTurnEnd
<1>13. CASE AgentToolResult \/ AgentStuck
  <2>1. PICK same \in BOOLEAN :
           \/ SaveCopy(AfterToolResult(cst, same))
           \/ /\ disk' = AfterToolResult(cst, same)
              /\ cst' = [AfterToolResult(cst, same) EXCEPT !.retry = @ + 1]
              /\ shared' = FALSE /\ rst' = rst
    BY <1>13 DEF AgentToolResult, AgentStuck
  <2>2. AfterToolResult(cst, same) \in State
    BY AfterToolResultType
  <2>3. [AfterToolResult(cst, same) EXCEPT !.retry = @ + 1] \in State
    BY <2>2, RetriedType
  <2> QED BY <2>1, <2>2, <2>3, SaveTypes
<1>14. CASE BuilderFails \/ VerifierFail \/ VerifierAnomaly
  BY <1>5, <1>14, SaveTypes DEF BuilderFails, VerifierFail, VerifierAnomaly, AttemptFails
<1> QED
  BY <1>6, <1>7, <1>8, <1>9, <1>10, <1>11, <1>12, <1>13, <1>14 DEF ExecuteNext

\* So does any step.
LEMMA StatesStep ==
  ASSUME TypeOK, TaskBounds, [Next]_vars PROVE StatesOK'
<1> USE DEF TypeOK, StatesOK, mem, env
<1>1. \A s \in State, p \in Phase : Moved(s, p) \in State
  BY MovedType
<1>2. Phase = {"idle", "running", "paused", "completed", "failed"}
  BY DEF Phase
<1>3. CASE Boot
  <2>1. CASE BootIdle
    BY <2>1 DEF BootIdle
  <2>2. CASE BootStart
    <3>1. PICK p \in Plans \union {NoPlan} : SaveAndShare(MarkStarted(disk, p))
      BY <2>2, ConfigAssumption DEF BootStart, StartsWith
    <3> QED BY <3>1, MarkStartedType, SaveTypes
  <2>3. CASE BootResume
    BY <1>1, <1>2, <2>3, SaveTypes DEF BootResume, StartsWith
  <2> QED BY <1>3, <2>1, <2>2, <2>3 DEF Boot
<1>4. ASSUME NEW p \in Pipeline, EnterPhase(p) PROVE StatesOK'
  <2>1. SetSora(rst, p) \in State
    BY SetSoraType DEF Pipeline, SoraPhase
  <2> QED BY <1>4, <2>1, SaveTypes DEF EnterPhase
<1>5. CASE BeginPipeline \/ NothingDue
  BY <1>5 DEF BeginPipeline, NothingDue
<1>6. CASE DrainCommands
  BY <1>1, <1>2, <1>6, SaveTypes DEF DrainCommands, DrainStop, DrainPause, DrainHumanPause, DrainSteer,
     DrainSkip, DrainNewPlan, DrainOther, Drained
<1>7. CASE HardenWrites \/ PhaseGivesUp \/ ScoutDone \/ CoachDone \/ LoopShutdown
           \/ LoopArchitectFails
  BY <1>1, <1>2, <1>7, SaveTypes DEF HardenWrites, PhaseGivesUp, ScoutDone, CoachDone,
     LoopShutdown, LoopArchitectFails
<1>8. CASE HardenDone
  <2>1. SetSora(cst, "scout") \in State
    BY SetSoraType DEF SoraPhase
  <2> QED BY <1>8, <2>1, SaveTypes DEF HardenDone
<1>9. CASE ArchitectDone
  <2>1. [cst EXCEPT !.slice = CurrentSlice(cst)] \in State
    BY CurrentSliceType DEF State
  <2> QED BY <1>9, <2>1, SaveTypes DEF ArchitectDone
<1>10. CASE Execute \/ ExecuteFailed \/ ExecuteSucceeded
  BY <1>1, <1>2, <1>10, SaveTypes DEF Execute, ExecuteFailed, ExecuteSucceeded, ExecuteRefused,
     ExecuteStarts
<1>11. CASE ExecuteNext
  BY <1>11, ExecuteStates
<1>12. CASE SliceDone
  <2>1. SetSora(rst, "slice_done") \in State
    BY SetSoraType DEF SoraPhase
  <2> QED BY <1>12, <2>1, SaveTypes DEF SliceDone
<1>13. CASE AdoptSlice
  <2>1. [rst EXCEPT !.slice = run.nxt, !.idx = 0] \in State
    BY QueueSlicesAreSlices DEF PlaceOK, RunLocals, State
  <2> QED BY <1>13, <2>1, SaveTypes DEF AdoptSlice
<1>14. CASE SliceCoach \/ ClaimSlice \/ Complete \/ SliceLimit
  BY <1>1, <1>2, <1>14, SaveTypes DEF SliceCoach, ClaimSlice, Complete, SliceLimit
<1>15. CASE Idle
  <2>1. CASE IdleExit \/ IdleTimeout \/ IdleDrops
    BY <2>1, FreshType DEF IdleExit, IdleTimeout, IdleDrops, Gone
  <2>2. CASE IdleNewPlan
    <3>1. Head1.plan \in Plans \union {NoPlan}
      BY <2>2, ConfigAssumption DEF IdleNewPlan, IdleTakes, Head1, EnvOK
    <3> QED BY <2>2, <3>1, MarkStartedType, SaveTypes DEF IdleNewPlan, StartsWith
  <2>3. CASE IdleResume
    BY <1>1, <1>2, <2>3, SaveTypes DEF IdleResume, StartsWith
  <2> QED BY <1>15, <2>1, <2>2, <2>3 DEF Idle
<1>16. CASE Environment
  BY <1>1, <1>2, <1>16, FreshType DEF Environment, SendCommand, HumanWrites, Signal, Crash,
     UnexpectedError, Gone
<1>17. CASE UNCHANGED vars
  BY <1>17 DEF vars
<1> QED
  BY <1>3, <1>4, <1>5, <1>6, <1>7, <1>8, <1>9, <1>10, <1>11, <1>12, <1>13, <1>14, <1>15, <1>16,
     <1>17
  DEF Next, Runner

\* A step keeps the task index within the slice.
LEMMA BoundsStep ==
  ASSUME TypeOK, TaskBounds, [Next]_vars PROVE TaskBounds'
<1> USE BoundAssumption DEF TypeOK, TaskBounds, mem, env
<1>1. ex.ti \in Nat /\ ExIdle.ti = 0 /\ [ExIdle EXCEPT !.start = cst.idx].ti = 0
  BY DEF LocalsOK, ExLocals, ExIdle
<1>2. ex.ti < NumTasks => [ex EXCEPT !.ti = @ + 1].ti <= NumTasks
                          /\ [ex EXCEPT !.ti = @ + 1, !.ok = FALSE].ti <= NumTasks
  BY <1>1 DEF LocalsOK, ExLocals
<1>3. /\ [ex EXCEPT !.att = 0, !.passed = FALSE].ti = ex.ti
      /\ [ex EXCEPT !.att = @ + 1].ti = ex.ti
      /\ [ex EXCEPT !.passed = TRUE].ti = ex.ti
  BY DEF LocalsOK, ExLocals
<1>4. CASE Boot
  BY <1>4 DEF Boot, BootIdle, BootStart, BootResume, StartsWith
<1>5. CASE (\E p \in Pipeline : EnterPhase(p)) \/ BeginPipeline \/ NothingDue
  BY <1>5 DEF EnterPhase, BeginPipeline, NothingDue
<1>6. CASE DrainCommands
  BY <1>6 DEF DrainCommands, DrainStop, DrainPause, DrainHumanPause, DrainSteer,
     DrainSkip, DrainNewPlan, DrainOther, Drained, Draining
<1>7. CASE HardenWrites \/ HardenDone \/ PhaseGivesUp \/ ScoutDone \/ CoachDone
           \/ LoopShutdown \/ ArchitectDone \/ LoopArchitectFails
  BY <1>7 DEF HardenWrites, HardenDone, PhaseGivesUp, ScoutDone, CoachDone,
     LoopShutdown, ArchitectDone, LoopArchitectFails
<1>8. CASE Execute \/ ExecuteFailed \/ ExecuteSucceeded
  <2>1. CASE Execute
    <3>1. CASE ExecuteRefused
      BY <3>1 DEF ExecuteRefused, Fail
    <3>2. CASE ExecuteStarts
      BY <1>1, <3>2 DEF ExecuteStarts
    <3> QED BY <2>1, <3>1, <3>2 DEF Execute
  <2>2. CASE ExecuteFailed \/ ExecuteSucceeded
    BY <1>1, <2>2 DEF ExecuteFailed, ExecuteSucceeded
  <2> QED BY <1>8, <2>1, <2>2
<1>9. CASE SkipDoneTask \/ ShutdownAtTask \/ OverrideAtTask \/ TasksEnd \/ OverrideAtAttempt
           \/ EscalateToHuman \/ BeginTaskFails
  BY <1>1, <1>2, <1>9 DEF SkipDoneTask, ShutdownAtTask, OverrideAtTask, OverrideAtAttempt,
     OverrideStop, OverridePause, TasksEnd, EscalateToHuman, BeginTaskFails, Fail
<1>10. CASE BeginTask \/ SkipTask \/ StartBuilder \/ AgentTurnEnd \/ AgentToolResult \/ AgentStuck
            \/ BuilderFails \/ BuilderDone \/ VerifierPass \/ VerifierFail \/ VerifierAnomaly
  BY <1>1, <1>3, <1>10 DEF BeginTask, TaskReady, SkipTask, StartBuilder, AttemptReady,
     AttemptStarts, AgentTurnEnd, AgentToolResult, AgentStuck, BuilderFails, BuilderDone,
     VerifierPass, VerifierFail, VerifierAnomaly, AttemptFails
<1>11. CASE TaskPassed \/ TaskFailed
  BY <1>2, <1>11 DEF TaskPassed, TaskFailed
<1>12. CASE SliceDone \/ SliceCoach \/ ClaimSlice \/ AdoptSlice \/ Complete \/ SliceLimit
  BY <1>12 DEF SliceDone, SliceCoach, ClaimSlice, AdoptSlice, Complete, SliceLimit
<1>13. CASE Idle
  BY <1>1, <1>13 DEF Idle, IdleExit, IdleTimeout, IdleNewPlan, IdleResume, IdleDrops,
     IdleTakes, StartsWith, Gone
<1>14. CASE Environment
  BY <1>1, <1>14 DEF Environment, SendCommand, HumanWrites, Signal, Crash, UnexpectedError, Gone
<1>15. CASE UNCHANGED vars
  BY <1>15 DEF vars
<1> QED
  BY <1>4, <1>5, <1>6, <1>7, <1>8, <1>9, <1>10, <1>11, <1>12, <1>13, <1>14, <1>15
  DEF Next, Runner, ExecuteNext

\* The initial state has its types.
LEMMA InitTypes == Init => TypeOK /\ TaskBounds
<1> SUFFICES ASSUME Init PROVE TypeOK /\ TaskBounds
  OBVIOUS
<1>1. PlaceOK
  BY NoRunType DEF Init, PlaceOK, PCs
<1>2. StatesOK
  BY FreshType DEF Init, StatesOK
<1>3. LocalsOK
  BY NoCtxType, ExIdleType DEF Init, LocalsOK
<1>4. FilesOK
  <2>1. [q \in QueueSlices |-> "absent"] \in Queue /\ CoachQueues \subseteq Queue
    BY ConfigAssumption DEF Queue
  <2>2. fs \in Files
    BY <2>1 DEF Init, Files
  <2> QED BY <2>2, NoTasksTriedType DEF Init, FilesOK
<1>5. EnvOK
  <2>1. <<>> \in Seq(Commands) /\ 0 \in Nat
    OBVIOUS
  <2> QED BY <2>1 DEF Init, EnvOK
<1>6. TaskBounds
  BY BoundAssumption DEF Init, TaskBounds, ExIdle
<1> QED BY <1>1, <1>2, <1>3, <1>4, <1>5, <1>6 DEF TypeOK

\* Every variable of the runner keeps its type, whatever the commands, edits
\* and faults.
THEOREM TypeCorrect == Spec => []TypeOK
<1>1. Init => TypeOK /\ TaskBounds
  BY InitTypes
<1>2. TypeOK /\ TaskBounds /\ [Next]_vars => (TypeOK /\ TaskBounds)'
  BY PlaceStep, StatesStep, LocalsStep, FilesStep, EnvStep, BoundsStep DEF TypeOK
<1> QED BY <1>1, <1>2, PTL DEF Spec
=============================================================================
