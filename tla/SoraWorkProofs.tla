--------------------------- MODULE SoraWorkProofs ---------------------------
(***************************************************************************)
(* Theorems about the work a runner leaves: slices, tasks and the index    *)
(* that skips them; about how its pipeline comes to rest; and about the    *)
(* plans the tasks come from.                                              *)
(***************************************************************************)
EXTENDS SoraProofs, SlicePlanText, SequenceTheorems, WellFoundedInduction

-----------------------------------------------------------------------------
(***************************************************************************)
(* Slices that are left behind.  A slice is left only through slice_done,  *)
(* which a run reaches with a SUMMARY.md of every task, or finds in        *)
(* STATE.json after one that did.                                          *)
(***************************************************************************)

DoneWith(s) == fs.plans[s] # NoPlan => Summarised(s)

OthersDone == \A s \in Slices : s # CurrentSlice(disk) => DoneWith(s)

Resting == disk.phase = "completed" \/ disk.sora = "slice_done" \/ pc = "slice_done"
RestsDone == Resting => DoneWith(CurrentSlice(disk))

\* The runner's object may be stale, but not in its slice.
SameSlice == pc # "down" => rst.slice = disk.slice

\* The tasks behind the loop are summarised while none has failed.
TasksBehind ==
    /\ InTask /\ ex.ok => \A t \in Tasks : t < ex.ti => HasSummary(t)
    /\ pc \in {"attempt", "build", "verify", "taskend"} /\ ex.passed => Here \in fs.summ
    /\ pc = "verify" => Here \in fs.summ
    /\ pc = "execok" => ex.ok /\ ex.ti = NumTasks

SliceInv == OthersDone /\ RestsDone /\ SameSlice /\ TasksBehind

\* What the operators on AgentState leave of current_slice.
LEMMA SliceFields ==
  ASSUME NEW s \in State
  PROVE  /\ \A p : Moved(s, p).slice = s.slice /\ SetSora(s, p).slice = s.slice
         /\ \A t : TaskStarted(s, t).slice = s.slice
         /\ \A l \in Level : Escalated(s, l).slice = s.slice
         /\ AfterTurnEnd(s).slice = s.slice
         /\ \A same \in BOOLEAN : AfterToolResult(s, same).slice = s.slice
         /\ \A n : [s EXCEPT !.idx = n].slice = s.slice
         /\ \A n : [s EXCEPT !.retry = n].slice = s.slice
         /\ \A p : s.phase # "completed" => MarkStarted(s, p).slice = s.slice
  BY DEF Moved, SetSora, TaskStarted, Escalated, AfterTurnEnd, AfterToolResult, MarkStarted, State

\* In a task the three places agree on the slice.
LEMMA SliceInTask ==
  ASSUME TypeOK, Control, SameSlice, InTask
  PROVE  cst.slice = disk.slice /\ rst.slice = disk.slice
<1>1. ForgetRetry(disk).slice = disk.slice /\ ForgetRetry(cst).slice = cst.slice
  BY DEF ForgetRetry, TypeOK, StatesOK, State
<1>2. pc # "down"
  BY DEF InTask
<1> QED BY <1>1, <1>2, InTaskFacts DEF SameSlice

\* Only the architect writes plans, and no SUMMARY.md is ever removed.
FilesKept == fs'.plans = fs.plans /\ fs.summ \subseteq fs'.summ

\* A coach run writes neither plans nor summaries.
LEMMA CoachKeepsFiles ==
  ASSUME fs \in Files, NEW g, CoachRuns(fs, g)
  PROVE  g.plans = fs.plans /\ g.summ = fs.summ
  BY DEF CoachRuns, Files

\* No other step removes or rewrites them.
LEMMA FilesAreKept ==
  ASSUME IInv, [Next]_vars, ~ArchitectDone PROVE FilesKept
<1> USE DEF IInv, TypeOK, FilesOK, FilesKept, mem, env
<1>1. fs \in Files
  OBVIOUS
<1>2. CASE Boot \/ Idle \/ UNCHANGED vars
  BY <1>2 DEF Boot, BootIdle, BootStart, BootResume, Idle, IdleExit, IdleTimeout, IdleNewPlan,
     IdleResume, IdleDrops, vars
<1>3. CASE Environment
  BY <1>1, <1>3 DEF Environment, SendCommand, HumanWrites, Signal, Crash, UnexpectedError, Files
<1>4. CASE \/ BeginPipeline \/ (\E p \in Pipeline : EnterPhase(p)) \/ NothingDue
           \/ HardenWrites \/ HardenDone \/ PhaseGivesUp \/ ScoutDone
           \/ LoopShutdown \/ LoopArchitectFails
  BY <1>1, <1>4 DEF BeginPipeline, EnterPhase, NothingDue, HardenWrites, HardenDone,
     PhaseGivesUp, ScoutDone, LoopShutdown, LoopArchitectFails, Files
<1>5. CASE DrainCommands
  BY <1>1, <1>5 DEF DrainCommands, DrainStop, DrainPause, DrainHumanPause, DrainSteer,
     DrainSkip, DrainNewPlan, DrainOther, Drained, Files
<1>6. CASE CoachDone \/ SliceCoach \/ VerifierAnomaly
  BY <1>6, CoachKeepsFiles DEF CoachDone, SliceCoach, VerifierAnomaly
<1>7. CASE \/ Execute \/ ExecuteFailed \/ ExecuteSucceeded
           \/ SliceDone \/ AdoptSlice \/ Complete \/ SliceLimit
  BY <1>7 DEF Execute, ExecuteRefused, ExecuteStarts, ExecuteFailed, ExecuteSucceeded,
     SliceDone, AdoptSlice, Complete, SliceLimit
<1>8. CASE ClaimSlice
  <2>1. PICK s \in QueueSlices : fs' = [fs EXCEPT !.queue[s] = "claimed"]
    BY <1>8 DEF ClaimSlice
  <2> QED BY <2>1 DEF Files
<1>9. CASE \/ SkipDoneTask \/ ShutdownAtTask \/ TasksEnd \/ EscalateToHuman \/ StartBuilder
           \/ AgentTurnEnd \/ AgentToolResult \/ AgentStuck \/ BuilderFails
           \/ VerifierPass \/ VerifierFail \/ TaskPassed \/ TaskFailed
  BY <1>9 DEF SkipDoneTask, ShutdownAtTask, TasksEnd, EscalateToHuman, StartBuilder, AgentTurnEnd,
     AgentToolResult, AgentStuck, BuilderFails, VerifierPass, VerifierFail, TaskPassed, TaskFailed
<1>10. CASE \/ OverrideAtTask \/ BeginTask \/ BeginTaskFails \/ SkipTask \/ OverrideAtAttempt
            \/ BuilderDone
  BY <1>1, <1>10 DEF OverrideAtTask, OverrideStop, OverridePause, BeginTask, BeginTaskFails,
     SkipTask, OverrideAtAttempt, BuilderDone, Files
<1> QED
  BY <1>2, <1>3, <1>4, <1>5, <1>6, <1>7, <1>8, <1>9, <1>10 DEF Next, Runner, ExecuteNext

\* The slice in STATE.json changes with AdoptSlice, with the architect's S01 for
\* an empty one, and with a run that starts over.
SliceChange ==
    \/ disk'.slice = disk.slice
    \/ ArchitectDone /\ disk'.slice = CurrentSlice(disk)
    \/ AdoptSlice
    \/ disk.phase = "completed" /\ pc' = "start" /\ disk'.phase = "running" /\ disk'.sora = "none"

\* A run that starts goes on with the slice, or starts over.
LEMMA StartSlice ==
  ASSUME IInv, NEW p, StartsWith(MarkStarted(disk, p))
  PROVE  SameSlice' /\ SliceChange
<1>1. rst' = disk' /\ disk' = MarkStarted(disk, p) /\ pc' = "start" /\ disk \in State
  BY DEF StartsWith, SaveAndShare, IInv, TypeOK, StatesOK
<1>2. CASE disk.phase = "completed"
  BY <1>1, <1>2, MarkStartedFields DEF SameSlice, SliceChange
<1>3. CASE disk.phase # "completed"
  BY <1>1, <1>3, SliceFields DEF SameSlice, SliceChange
<1> QED BY <1>2, <1>3

\* A save through either reference keeps the slice.
LEMMA SavesKeepSlice ==
  ASSUME IInv, SameSlice, pc # "down", NEW s, s.slice = disk.slice,
         SaveRunner(s) \/ SaveAndShare(s) \/ SaveContext(s) \/ SaveCopy(s) \/ TouchContext(s)
  PROVE  SameSlice' /\ SliceChange
  BY DEF SameSlice, SliceChange, SaveRunner, SaveAndShare, SaveContext, SaveCopy, TouchContext

\* Nor does a step that leaves the states alone change it.
LEMMA SliceStays ==
  ASSUME IInv, SameSlice, pc # "down", UNCHANGED <<disk, mem>>
  PROVE  SameSlice' /\ SliceChange
  BY DEF SameSlice, SliceChange, mem

\* run_execute works on one slice.
LEMMA ExecuteSlice ==
  ASSUME IInv, SameSlice, ExecuteNext PROVE SameSlice' /\ SliceChange
<1> USE DEF IInv, TypeOK, StatesOK, env
<1>1. InTask /\ pc # "down"
  BY ExecuteIsInTask DEF InTask
<1>2. cst.slice = disk.slice /\ rst.slice = disk.slice
  BY <1>1, SliceInTask
<1>3. CASE SkipDoneTask \/ ShutdownAtTask \/ SkipTask \/ BuilderDone \/ VerifierPass \/ TaskFailed
  BY <1>1, <1>3, SliceStays DEF SkipDoneTask, ShutdownAtTask, SkipTask, BuilderDone, VerifierPass,
     TaskFailed
<1>4. CASE OverrideAtTask \/ OverrideAtAttempt
  BY <1>1, <1>2, <1>4, SliceFields, SavesKeepSlice, SliceStays
  DEF OverrideAtTask, OverrideAtAttempt, OverrideStop, OverridePause
<1>5. CASE BeginTask \/ BeginTaskFails
  <2> DEFINE s == TaskStarted(cst, ex.ti)
  <2>1. s \in State /\ s.slice = disk.slice
    BY <1>2, SliceFields, TaskStartedType DEF LocalsOK, ExLocals
  <2>2. [s EXCEPT !.sora = cst.sora, !.idx = cst.idx].slice = disk.slice
    BY <2>1 DEF State
  <2> HIDE DEF s
  <2> QED BY <1>1, <1>5, <2>1, <2>2, SavesKeepSlice DEF BeginTask, BeginTaskFails, s
<1>6. CASE TasksEnd \/ TaskPassed
  <2>1. PICK n : SaveContext([cst EXCEPT !.idx = n])
    BY <1>6 DEF TasksEnd, TaskPassed
  <2>2. [cst EXCEPT !.idx = n].slice = disk.slice
    BY <1>2 DEF State
  <2> QED BY <1>1, <2>1, <2>2, SavesKeepSlice
<1>7. CASE EscalateToHuman \/ StartBuilder
  <2>1. NextLevel \in Level
    BY DecideType DEF NextLevel, LocalsOK, Context
  <2>2. Escalated(cst, NextLevel).slice = disk.slice
    BY <1>2, <2>1, SliceFields
  <2>3. Escalated(cst, HUMAN).slice = disk.slice
    BY <1>2, SliceFields DEF Level, HUMAN
  <2> QED BY <1>1, <1>7, <2>2, <2>3, SavesKeepSlice, SliceStays DEF EscalateToHuman, StartBuilder
<1>8. CASE AgentTurnEnd
  BY <1>1, <1>2, <1>8, SliceFields, SavesKeepSlice DEF AgentTurnEnd
<1>9. CASE AgentToolResult
  <2>1. PICK same \in BOOLEAN : SaveCopy(AfterToolResult(cst, same))
    BY <1>9 DEF AgentToolResult
  <2> QED BY <1>1, <1>2, <2>1, SliceFields, SavesKeepSlice
<1>10. CASE AgentStuck
  <2>1. PICK same \in BOOLEAN : disk' = AfterToolResult(cst, same) /\ rst' = rst
    BY <1>10 DEF AgentStuck
  <2> QED BY <1>1, <1>2, <2>1, SliceFields DEF SameSlice, SliceChange
<1>11. CASE BuilderFails \/ VerifierFail \/ VerifierAnomaly
  <2>1. TouchContext([cst EXCEPT !.retry = @ + 1])
    BY <1>11 DEF BuilderFails, VerifierFail, VerifierAnomaly, AttemptFails
  <2>2. [cst EXCEPT !.retry = @ + 1].slice = disk.slice
    BY <1>2 DEF State
  <2> QED BY <1>1, <2>1, <2>2, SavesKeepSlice
<1> QED
  BY <1>3, <1>4, <1>5, <1>6, <1>7, <1>8, <1>9, <1>10, <1>11 DEF ExecuteNext

\* Every step keeps the two objects on one slice.
LEMMA SliceFieldStep ==
  ASSUME IInv, SameSlice, [Next]_vars PROVE SameSlice' /\ SliceChange
<1> USE DEF IInv, TypeOK, StatesOK, env
<1>1. pc # "down" => \A p : /\ Moved(rst, p).slice = disk.slice
                            /\ SetSora(rst, p).slice = disk.slice
  BY SliceFields DEF SameSlice
<1>2. \A p : Moved(disk, p).slice = disk.slice
  BY SliceFields
<1>3. CASE BootIdle
  BY <1>3 DEF BootIdle, SameSlice, SliceChange
<1>4. CASE BootStart \/ IdleNewPlan
  BY <1>4, StartSlice DEF BootStart, IdleNewPlan
<1>5. CASE BootResume \/ IdleResume
  <2>1. disk'.slice = disk.slice /\ rst' = disk'
    BY <1>2, <1>5 DEF BootResume, IdleResume, StartsWith, SaveAndShare
  <2> QED BY <2>1 DEF SameSlice, SliceChange
<1>6. CASE \E p \in Pipeline : EnterPhase(p)
  BY <1>1, <1>6, SavesKeepSlice DEF EnterPhase
<1>7. CASE \/ BeginPipeline \/ NothingDue \/ HardenWrites \/ PhaseGivesUp \/ ScoutDone \/ CoachDone
           \/ LoopShutdown
  BY <1>7, SliceStays DEF BeginPipeline, NothingDue, HardenWrites, PhaseGivesUp, ScoutDone,
     CoachDone, LoopShutdown, Working
<1>8. CASE DrainCommands
  BY <1>1, <1>8, SavesKeepSlice, SliceStays
  DEF DrainCommands, Draining, DrainStop, DrainPause, DrainHumanPause, DrainSteer, DrainSkip,
     DrainNewPlan, DrainOther, Drained
<1>9. CASE HardenDone
  <2>1. pc = "hardened" /\ SaveContext(SetSora(cst, "scout")) /\ cst = rst
    BY <1>9 DEF HardenDone, Control, References, Together
  <2> QED BY <1>1, <2>1, SavesKeepSlice
<1>10. CASE ArchitectDone
  <2> DEFINE s == [cst EXCEPT !.slice = CurrentSlice(cst)]
  <2>1. SaveContext(s) /\ cst = disk /\ pc' = "enter" /\ shared
    BY <1>10 DEF ArchitectDone, Working, Control, References, Together
  <2>2. s.slice = CurrentSlice(disk)
    BY <2>1 DEF State
  <2> HIDE DEF s
  <2> QED BY <1>10, <2>1, <2>2 DEF SameSlice, SliceChange, SaveContext
<1>11. CASE LoopArchitectFails
  BY <1>1, <1>11, SavesKeepSlice DEF LoopArchitectFails, Working
<1>12. CASE Execute \/ ExecuteSucceeded \/ SliceCoach \/ ClaimSlice \/ SliceLimit
  BY <1>12, SliceStays DEF Execute, Working, ExecuteRefused, ExecuteStarts, ExecuteSucceeded,
     SliceCoach, ClaimSlice, SliceLimit
<1>13. CASE ExecuteFailed \/ SliceDone \/ Complete
  BY <1>1, <1>13, SavesKeepSlice DEF ExecuteFailed, SliceDone, Complete
<1>14. CASE AdoptSlice
  BY <1>14 DEF AdoptSlice, SaveRunner, SameSlice, SliceChange
<1>15. CASE ExecuteNext
  BY <1>15, ExecuteSlice
<1>16. CASE IdleExit \/ IdleTimeout \/ Crash
  BY <1>16 DEF IdleExit, IdleTimeout, Crash, Gone, SameSlice, SliceChange
<1>17. CASE IdleDrops \/ SendCommand \/ HumanWrites \/ Signal
  BY <1>17 DEF IdleDrops, SendCommand, HumanWrites, Signal, mem, SameSlice, SliceChange
<1>18. CASE UnexpectedError
  BY <1>1, <1>18 DEF UnexpectedError, Gone, SameSlice, SliceChange
<1>19. CASE UNCHANGED vars
  BY <1>19 DEF vars, mem, SameSlice, SliceChange
<1> QED
  BY <1>3, <1>4, <1>5, <1>6, <1>7, <1>8, <1>9, <1>10, <1>11, <1>12, <1>13, <1>14, <1>15, <1>16,
     <1>17, <1>18, <1>19
  DEF Next, Boot, Runner, Idle, Environment

\* The first part of TasksBehind.
LoopBehind == ex.ok => \A t \in Tasks : t < ex.ti => HasSummary(t)

\* Between two states of one run_execute the slice is the same.
LEMMA TaskKeepsSlice ==
  ASSUME IInv, IInv', SameSlice, SliceChange, InTask, InTask'
  PROVE  CurrentSlice(cst') = CurrentSlice(cst)
<1>1. cst.slice = disk.slice
  BY SliceInTask DEF IInv
<1>2. cst'.slice = disk'.slice
  <2>1. ForgetRetry(disk)' = ForgetRetry(cst)'
    BY DEF IInv, Control, Executing
  <2>2. ForgetRetry(disk)'.slice = disk'.slice /\ ForgetRetry(cst)'.slice = cst'.slice
    BY DEF ForgetRetry, IInv, TypeOK, StatesOK, State
  <2> QED BY <2>1, <2>2
<1>3. disk'.slice = disk.slice
  <2>1. ~ArchitectDone /\ ~AdoptSlice /\ pc' # "start"
    BY DEF InTask, ArchitectDone, Working, AdoptSlice
  <2> QED BY <2>1 DEF SliceChange
<1> QED BY <1>1, <1>2, <1>3 DEF CurrentSlice

\* Nor is a summary lost.
LEMMA TaskKeepsSummaries ==
  ASSUME IInv, IInv', SliceInv, SliceChange, FilesKept, InTask, InTask'
  PROVE  CurrentSlice(cst') = CurrentSlice(cst) /\ \A t : HasSummary(t) => HasSummary(t)'
  BY TaskKeepsSlice DEF SliceInv, HasSummary, FilesKept

\* Inside run_execute the loop leaves no task without SUMMARY.md behind while
\* every one has passed.
LEMMA TasksBehindInside ==
  ASSUME IInv, IInv', SliceInv, SameSlice', SliceChange, FilesKept, ExecuteNext
  PROVE  TasksBehind'
<1> USE DEF IInv, TypeOK, StatesOK, LocalsOK, ExLocals, TaskBounds, SliceInv, mem, env
<1>1. ASSUME pc' = "execfail" PROVE TasksBehind'
  BY <1>1 DEF TasksBehind, InTask
<1>2. InTask
  BY ExecuteIsInTask DEF InTask
<1>3. /\ LoopBehind
      /\ pc \in {"attempt", "build", "verify", "taskend"} /\ ex.passed => HasSummary(ex.ti)
      /\ pc = "verify" => HasSummary(ex.ti)
  BY <1>2 DEF TasksBehind, LoopBehind, Here, HasSummary
<1>4. InTask' => \A t : HasSummary(t) => HasSummary(t)'
  BY <1>2, TaskKeepsSummaries
<1>5. ASSUME InTask', ex'.ti = ex.ti, ex'.ok = ex.ok PROVE LoopBehind'
  BY <1>3, <1>4, <1>5 DEF LoopBehind
<1>6. ASSUME InTask', ex'.ti = ex.ti + 1, ex'.ok = ex.ok, HasSummary(ex.ti) PROVE LoopBehind'
  <2>1. \A t \in Tasks : t < ex.ti + 1 => t < ex.ti \/ t = ex.ti
    BY BoundAssumption DEF Tasks
  <2> QED BY <1>3, <1>4, <1>6, <2>1 DEF LoopBehind
<1>7. ASSUME InTask', LoopBehind', pc' \in {"attempt", "build", "taskend"},
             ex'.passed => HasSummary(ex.ti)', ex'.ti = ex.ti
      PROVE  TasksBehind'
  BY <1>7 DEF TasksBehind, LoopBehind, Here, HasSummary
<1>8. CASE ShutdownAtTask \/ OverrideAtTask \/ OverrideAtAttempt \/ BeginTaskFails \/ EscalateToHuman
  BY <1>1, <1>8 DEF ShutdownAtTask, OverrideAtTask, OverrideAtAttempt, OverrideStop,
     OverridePause, BeginTaskFails, EscalateToHuman, Fail
<1>9. CASE SkipDoneTask \/ TaskPassed
  <2>1. /\ InTask' /\ pc' = "task" /\ ex'.ti = ex.ti + 1 /\ ex'.ok = ex.ok /\ HasSummary(ex.ti)
    BY <1>3, <1>9 DEF SkipDoneTask, TaskPassed, Passed, InTask
  <2> QED BY <1>6, <2>1 DEF TasksBehind, LoopBehind
<1>10. CASE TaskFailed
  <2>1. pc' = "task" /\ ~ex'.ok
    BY <1>10 DEF TaskFailed
  <2> QED BY <2>1 DEF TasksBehind
<1>11. CASE TasksEnd
  <2>1. (InTask' /\ LoopBehind') \/ pc' = "execfail"
    BY <1>5, <1>11 DEF TasksEnd, InTask
  <2> QED BY <1>1, <1>11, <2>1 DEF TasksEnd, TasksBehind, LoopBehind
<1>12. CASE BeginTask
  <2>1. InTask' /\ pc' = "attempt" /\ ex'.ti = ex.ti /\ ex'.ok = ex.ok /\ ~ex'.passed
    BY <1>12 DEF BeginTask, InTask
  <2> QED BY <1>5, <1>7, <2>1
<1>13. CASE StartBuilder \/ AgentTurnEnd \/ AgentToolResult
  <2>1. /\ InTask' /\ pc' = "build" /\ ex' = ex
        /\ pc \in {"attempt", "build"}
    BY <1>13 DEF StartBuilder, AttemptReady, AttemptStarts, AgentTurnEnd, AgentToolResult, InTask
  <2>2. ex'.passed => HasSummary(ex.ti)'
    BY <1>3, <1>4, <2>1
  <2> QED BY <1>5, <1>7, <2>1, <2>2
<1>14. CASE AgentStuck \/ BuilderFails \/ VerifierFail \/ VerifierAnomaly
  <2>1. /\ InTask' /\ pc' \in {"attempt", "taskend"} /\ pc \in {"build", "verify"}
        /\ ex'.ti = ex.ti /\ ex'.ok = ex.ok /\ ex'.passed = ex.passed
    BY <1>14 DEF AgentStuck, BuilderFails, VerifierFail, VerifierAnomaly, AttemptFails, InTask
  <2>2. ex'.passed => HasSummary(ex.ti)'
    BY <1>3, <1>4, <2>1
  <2> QED BY <1>5, <1>7, <2>1, <2>2
<1>15. CASE SkipTask \/ BuilderDone
  <2>1. /\ InTask' /\ pc' \in {"verify", "taskend"} /\ ex'.ti = ex.ti /\ ex'.ok = ex.ok
    BY <1>15 DEF SkipTask, BuilderDone, InTask
  <2>2. HasSummary(ex.ti)'
    <3>1. Here \in fs'.summ
      BY <1>15 DEF SkipTask, BuilderDone, FilesOK, Files
    <3>2. CurrentSlice(cst') = CurrentSlice(cst)
      BY <1>2, <2>1, TaskKeepsSummaries
    <3> QED BY <2>1, <3>1, <3>2 DEF HasSummary, Here
  <2> QED BY <1>5, <2>1, <2>2 DEF TasksBehind, LoopBehind, Here, HasSummary
<1>16. CASE VerifierPass
  <2>1. InTask' /\ pc' = "taskend" /\ pc = "verify" /\ ex'.ti = ex.ti /\ ex'.ok = ex.ok
    BY <1>16 DEF VerifierPass, InTask
  <2> QED BY <1>3, <1>4, <1>5, <1>7, <2>1
<1> QED
  BY <1>8, <1>9, <1>10, <1>11, <1>12, <1>13, <1>14, <1>15, <1>16 DEF ExecuteNext

\* Only Execute enters run_execute, and what happens around it does not leave it.
LEMMA StaysOutside ==
  ASSUME [Next]_vars,
         ~(ExecuteNext \/ Execute \/ SendCommand \/ HumanWrites \/ Signal \/ UNCHANGED vars)
  PROVE  ~InTask'
<1>1. CASE Crash \/ UnexpectedError
  BY <1>1 DEF Crash, UnexpectedError, Gone, InTask
<1>2. CASE Boot \/ Idle
  BY <1>2 DEF Boot, BootIdle, BootStart, BootResume, StartsWith, Idle, IdleExit, IdleTimeout,
     IdleNewPlan, IdleResume, IdleDrops, IdleTakes, Gone, InTask
<1>3. CASE \/ BeginPipeline \/ (\E p \in Pipeline : EnterPhase(p)) \/ NothingDue \/ DrainCommands
           \/ HardenWrites \/ HardenDone \/ PhaseGivesUp \/ ScoutDone \/ CoachDone
           \/ LoopShutdown \/ ArchitectDone \/ LoopArchitectFails
  BY <1>3 DEF BeginPipeline, EnterPhase, NothingDue, DrainCommands, DrainStop, DrainPause,
     DrainHumanPause, DrainSteer, DrainSkip, DrainNewPlan, DrainOther, Drained, Draining,
     HardenWrites, HardenDone, PhaseGivesUp, ScoutDone, CoachDone, LoopShutdown, ArchitectDone,
     LoopArchitectFails, InTask
<1>4. CASE \/ ExecuteFailed \/ ExecuteSucceeded \/ SliceDone \/ SliceCoach \/ ClaimSlice
           \/ AdoptSlice \/ Complete \/ SliceLimit
  BY <1>4 DEF ExecuteFailed, ExecuteSucceeded, SliceDone, SliceCoach, ClaimSlice,
     AdoptSlice, Complete, SliceLimit, InTask
<1> QED BY <1>1, <1>2, <1>3, <1>4 DEF Next, Runner, Environment

\* The steps outside run_execute enter its loop at the first task, if at all.
LEMMA TasksBehindStep ==
  ASSUME IInv, IInv', SliceInv, SameSlice', SliceChange, [Next]_vars PROVE TasksBehind'
<1> USE DEF mem, env
<1>1. ASSUME ~InTask' PROVE TasksBehind'
  BY <1>1 DEF TasksBehind, InTask
<1>2. CASE Execute
  <2>1. pc' = "execfail" \/ (pc' = "task" /\ ex'.ti = 0)
    BY <1>2 DEF Execute, ExecuteRefused, Fail, ExecuteStarts, ExIdle
  <2>2. \A t \in Tasks : ~(t < 0)
    BY BoundAssumption DEF Tasks
  <2> QED BY <1>1, <2>1, <2>2 DEF TasksBehind, InTask
<1>3. CASE ExecuteNext
  <2>1. FilesKept
    BY <1>3, ExecuteIsInTask, FilesAreKept DEF ArchitectDone, Working, InTask
  <2> QED BY <1>3, <2>1, TasksBehindInside
<1>4. CASE SendCommand \/ HumanWrites \/ Signal \/ UNCHANGED vars
  <2>1. pc' = pc /\ cst' = cst /\ ex' = ex
    BY <1>4 DEF SendCommand, HumanWrites, Signal, vars
  <2>2. InTask => FilesKept
    BY FilesAreKept DEF InTask, ArchitectDone, Working
  <2> QED BY <2>1, <2>2 DEF SliceInv, TasksBehind, InTask, FilesKept, Here, HasSummary
<1>5. CASE ~(ExecuteNext \/ Execute \/ SendCommand \/ HumanWrites \/ Signal \/ UNCHANGED vars)
  BY <1>1, <1>5, StaysOutside
<1> QED BY <1>2, <1>3, <1>4, <1>5

-----------------------------------------------------------------------------
\* What makes STATE.json rest on a slice: a step from a place where that slice
\* is done, or run_execute's success.
LEMMA WhatRests ==
  ASSUME IInv, IInv', SameSlice, [Next]_vars, Resting'
  PROVE  \/ Resting /\ (disk'.slice = disk.slice \/ AdoptSlice)
         \/ ExecuteSucceeded /\ disk'.slice = disk.slice
<1> USE DEF IInv, TypeOK, StatesOK, Control, References, Progress, Executing, Together, mem, env
<1>1. \A s \in State : \A p : Moved(s, p).phase = p /\ Moved(s, p).sora = s.sora
  BY MovedFields
<1>2. pc # "down" => \A p : Moved(rst, p).slice = disk.slice /\ SetSora(rst, p).slice = disk.slice
  BY SliceFields DEF SameSlice
<1>3. \A p : Moved(disk, p).slice = disk.slice
  BY SliceFields
<1>4. CASE Boot
  BY <1>1, <1>3, <1>4, MarkStartedFields, SliceFields
  DEF Boot, BootIdle, BootStart, BootResume, StartsWith, SaveAndShare, Resting
<1>5. CASE \E p \in Pipeline : EnterPhase(p)
  <2>1. PICK p \in Pipeline : EnterPhase(p)
    BY <1>5
  <2>2. disk' = SetSora(rst, p) /\ rst.phase = "running" /\ pc' = "drain"
    BY <2>1 DEF EnterPhase, SaveAndShare
  <2> QED BY <2>2, SetSoraFields DEF Resting, Pipeline
<1>6. CASE NothingDue
  <2>1. disk' = disk /\ Resting
    <3>1. ~Due("execute") /\ Configured("execute") /\ Rank["execute"] >= Rank[run.at]
      BY <1>6 DEF NothingDue, Pipeline, Configured, RoleOf, Rank, PlaceOK, RunLocals
    <3>2. Rank["execute"] < Rank[rst.sora]
      BY <3>1 DEF Due, PhaseAlreadyDone
    <3>3. rst.sora = "slice_done" /\ disk = rst
      BY <1>6, <3>2 DEF Rank, State, SoraPhase, NothingDue
    <3> QED BY <1>6, <3>3 DEF NothingDue, Resting
  <2> QED BY <2>1
<1>7. CASE \/ BeginPipeline \/ HardenWrites \/ PhaseGivesUp \/ ScoutDone \/ CoachDone
           \/ LoopShutdown \/ Execute \/ SliceCoach \/ ClaimSlice \/ SliceLimit
  BY <1>7 DEF BeginPipeline, HardenWrites, PhaseGivesUp, ScoutDone, CoachDone, LoopShutdown,
     Execute, ExecuteRefused, ExecuteStarts, Fail, SliceCoach, ClaimSlice, SliceLimit, Resting
<1>8. CASE DrainCommands
  BY <1>1, <1>2, <1>8 DEF DrainCommands, Draining, DrainStop, DrainPause, DrainHumanPause,
     DrainSteer, DrainSkip, DrainNewPlan, DrainOther, Drained, SaveRunner, Resting
<1>9. CASE HardenDone \/ ArchitectDone \/ LoopArchitectFails \/ ExecuteFailed
  <2>1. ~Resting'
    <3>1. CASE HardenDone
      BY <3>1, SetSoraFields DEF HardenDone, SaveContext, Resting
    <3>2. CASE ArchitectDone
      <4> DEFINE s == [cst EXCEPT !.slice = CurrentSlice(cst)]
      <4>1. s.sora = "architect" /\ s.phase = "running"
        BY <3>2 DEF ArchitectDone, Working, State
      <4>2. disk' = s /\ pc' = "enter"
        BY <3>2 DEF ArchitectDone, SaveContext
      <4> HIDE DEF s
      <4> QED BY <4>1, <4>2 DEF Resting
    <3>3. CASE LoopArchitectFails \/ ExecuteFailed
      BY <1>1, <3>3 DEF LoopArchitectFails, ExecuteFailed, Working, SaveRunner, Resting
    <3> QED BY <1>9, <3>1, <3>2, <3>3
  <2> QED BY <2>1
<1>10. CASE ExecuteNext
  <2>1. InTask' \/ pc' = "execfail"
    BY <1>10, ExecutePlaces
  <2>2. disk'.sora = "execute" /\ disk'.phase \in {"running", "paused"} /\ pc' # "slice_done"
    BY <2>1, ForgetFields DEF InTask
  <2> QED BY <2>2 DEF Resting
<1>11. CASE ExecuteSucceeded
  BY <1>11 DEF ExecuteSucceeded
<1>12. CASE SliceDone \/ Complete
  <2>1. Resting /\ pc # "down"
    BY <1>12 DEF SliceDone, Complete, Resting
  <2> QED BY <1>2, <1>12, <2>1 DEF SliceDone, Complete, SaveAndShare, SaveRunner
<1>13. CASE AdoptSlice
  BY <1>13 DEF AdoptSlice, Resting
<1>14. CASE Idle
  <2>1. CASE IdleNewPlan
    <3>1. disk' = MarkStarted(disk, Head1.plan) /\ pc' = "start"
      BY <2>1 DEF IdleNewPlan, StartsWith, SaveAndShare
    <3>2. disk.phase # "completed" /\ disk'.sora = disk.sora
      BY <3>1, MarkStartedFields DEF Resting
    <3> QED BY <3>1, <3>2, MarkStartedFields, SliceFields DEF Resting
  <2>2. CASE IdleResume
    BY <1>1, <1>3, <2>2 DEF IdleResume, StartsWith, SaveAndShare, Resting
  <2>3. CASE IdleExit \/ IdleTimeout \/ IdleDrops
    BY <2>3 DEF IdleExit, IdleTimeout, IdleDrops, Gone, Resting
  <2> QED BY <1>14, <2>1, <2>2, <2>3 DEF Idle
<1>15. CASE SendCommand \/ HumanWrites \/ Signal \/ Crash \/ UNCHANGED vars
  BY <1>15 DEF SendCommand, HumanWrites, Signal, Crash, Gone, vars, Resting
<1>16. CASE UnexpectedError
  <2>1. CASE disk' = disk
    BY <1>16, <2>1 DEF UnexpectedError, Gone, Resting
  <2>2. CASE disk' = Moved(rst, "failed") /\ rst.phase = "running"
    <3>1. rst.sora = "slice_done" /\ disk'.slice = disk.slice
      BY <1>1, <1>2, <1>16, <2>2 DEF UnexpectedError, Gone, Resting
    <3>2. pc = "slice_done" \/ disk.sora = rst.sora
      BY <1>16, <3>1, InTaskFacts DEF UnexpectedError, PlaceOK, PCs, InTask
    <3> QED BY <3>1, <3>2 DEF Resting
  <2> QED BY <1>16, <2>1, <2>2 DEF UnexpectedError
<1> QED
  BY <1>4, <1>5, <1>6, <1>7, <1>8, <1>9, <1>10, <1>11, <1>12, <1>13, <1>14, <1>15, <1>16
  DEF Next, Runner, Environment

\* A slice that is done stays done while the architect does not write.
LEMMA DoneStaysDone ==
  ASSUME FilesKept, NEW s, DoneWith(s) PROVE DoneWith(s)'
  BY DEF FilesKept, DoneWith, Summarised

\* run_execute succeeds on a slice each task of which has a SUMMARY.md.
LEMMA SuccessIsSummarised ==
  ASSUME IInv, SliceInv, ExecuteSucceeded PROVE Summarised(CurrentSlice(disk))
<1>1. pc = "execok" /\ InTask
  BY DEF ExecuteSucceeded, InTask
<1>2. CurrentSlice(cst) = CurrentSlice(disk)
  BY <1>1, SliceInTask DEF SliceInv, CurrentSlice, IInv
<1>3. \A t \in Tasks : t < NumTasks
  BY BoundAssumption DEF Tasks
<1> QED BY <1>1, <1>2, <1>3 DEF SliceInv, TasksBehind, HasSummary, Summarised

\* A step keeps the slices that are left behind done.
LEMMA SliceStep ==
  ASSUME IInv, IInv', SliceInv, [Next]_vars PROVE SliceInv'
<1> USE DEF IInv, TypeOK, StatesOK
<1>1. SameSlice' /\ SliceChange
  BY SliceFieldStep DEF SliceInv
<1>2. TasksBehind'
  BY <1>1, TasksBehindStep
<1>3. CurrentSlice(disk) \in Slices
  BY CurrentSliceType
<1>4. Resting => \A s \in Slices : DoneWith(s)
  BY DEF SliceInv, OthersDone, RestsDone
<1>5. CASE ArchitectDone
  <2>1. CurrentSlice(disk') = CurrentSlice(disk)
    BY <1>1, <1>3, <1>5, NoSliceAssumption, CompletedIsAtRest
    DEF SliceChange, CurrentSlice, ArchitectDone, AdoptSlice, Working
  <2>2. ~Resting'
    <3>1. ~Resting /\ ~ExecuteSucceeded
      BY <1>5 DEF ArchitectDone, Working, ExecuteSucceeded, Resting, Control, References,
         Progress, Together
    <3> QED BY <3>1, WhatRests DEF SliceInv
  <2>3. ASSUME NEW s \in Slices, s # CurrentSlice(disk) PROVE DoneWith(s)'
    <3>1. CurrentSlice(cst) = CurrentSlice(disk)
      BY <1>5 DEF ArchitectDone, Working, Control, References, Together
    <3>2. fs'.plans[s] = fs.plans[s] /\ fs'.summ = fs.summ
      BY <1>5, <2>3, <3>1 DEF ArchitectDone, FilesOK, Files
    <3>3. DoneWith(s)
      BY <2>3 DEF SliceInv, OthersDone
    <3> QED BY <3>2, <3>3 DEF DoneWith, Summarised
  <2> QED BY <1>1, <1>2, <2>1, <2>2, <2>3 DEF SliceInv, OthersDone, RestsDone
<1>6. CASE ~ArchitectDone
  <2>1. FilesKept
    BY <1>6, FilesAreKept
  <2>2. CASE disk'.slice = disk.slice /\ ~Resting'
    BY <1>1, <1>2, <2>1, <2>2, DoneStaysDone DEF SliceInv, OthersDone, RestsDone, CurrentSlice
  <2>3. CASE Resting
    <3>1. \A s \in Slices : DoneWith(s)'
      BY <1>4, <2>1, <2>3, DoneStaysDone
    <3>2. CurrentSlice(disk') \in Slices
      BY CurrentSliceType
    <3> QED BY <1>1, <1>2, <3>1, <3>2 DEF SliceInv, OthersDone, RestsDone
  <2>4. CASE ExecuteSucceeded
    <3>1. disk' = disk
      BY <2>4 DEF ExecuteSucceeded
    <3>2. Summarised(CurrentSlice(disk))
      BY <2>4, SuccessIsSummarised
    <3>3. \A s \in Slices : DoneWith(s)'
      BY <2>1, <3>2, DoneStaysDone DEF SliceInv, OthersDone, DoneWith
    <3> QED BY <1>1, <1>2, <1>3, <3>1, <3>3 DEF SliceInv, OthersDone, RestsDone
  <2>5. Resting \/ ExecuteSucceeded \/ (disk'.slice = disk.slice /\ ~Resting')
    <3>1. AdoptSlice => Resting
      BY DEF AdoptSlice, Resting, Control, References, Progress, Together
    <3>2. Resting' => Resting \/ ExecuteSucceeded
      BY WhatRests DEF SliceInv
    <3> QED BY <1>1, <1>6, <3>1, <3>2 DEF SliceChange, Resting
  <2> QED BY <2>2, <2>3, <2>4, <2>5
<1> QED BY <1>5, <1>6

\* The invariant of the slices.
LEMMA SliceInvariance == Spec => []SliceInv
<1>1. Init => SliceInv
  BY DEF Init, Fresh, SliceInv, OthersDone, RestsDone, Resting, SameSlice, TasksBehind, InTask,
     DoneWith
<1>2. IInv /\ IInv' /\ SliceInv /\ [Next]_vars => SliceInv'
  BY SliceStep
<1> QED BY <1>1, <1>2, Invariance, PTL DEF Spec

\* No slice that was planned is left behind, claimed over or completed, without
\* a SUMMARY.md of each of its tasks, for any number of slices, tasks, failures
\* and restarts.
THEOREM LeftSlicesAreDone == Spec => []LeftSlicesAreSummarised
<1>1. IInv /\ SliceInv => LeftSlicesAreSummarised
  BY CurrentSliceType
  DEF SliceInv, OthersDone, RestsDone, Resting, DoneWith, LeftSlicesAreSummarised,
      IInv, TypeOK, StatesOK
<1> QED BY <1>1, Invariance, SliceInvariance, PTL

-----------------------------------------------------------------------------
(***************************************************************************)
(* Claimed slices.  A claim is lost, and the slice with it, only when the  *)
(* process ends between the claim in TASK_QUEUE.md and the checkpoint that *)
(* names ARCHITECT; what is claimed is executed in a run that is not ended *)
(* there, whatever else ends it.                                           *)
(***************************************************************************)

\* STATE.json names the new slice, and still the phase of the old one.
InClaim == pc = "enter" /\ run.loop /\ disk.sora = "slice_done"

ClaimsUninterrupted == [][pc = "adopt" \/ InClaim => pc' # "down"]_vars

\* The coach lists slices to do.
CoachClaimsNothing == \A q \in CoachQueues : \A s \in QueueSlices : q[s] # "claimed"

ClaimsBehind ==
    \A s \in QueueSlices :
        fs.queue[s] = "claimed" =>
            Summarised(s) \/ s = CurrentSlice(disk) \/ (pc = "adopt" /\ s = run.nxt)
RestsSummarised == Resting => Summarised(CurrentSlice(disk)) \/ InClaim
ClaimInv == ClaimsBehind /\ RestsSummarised /\ (pc = "adopt" => run.nxt \in QueueSlices)

\* A new claim is ClaimSlice's.
LEMMA WhatClaims ==
  ASSUME IInv, [Next]_vars, CoachClaimsNothing,
         NEW s \in QueueSlices, fs'.queue[s] = "claimed"
  PROVE  fs.queue[s] = "claimed" \/ (ClaimSlice /\ run'.nxt = s)
<1> USE DEF IInv, TypeOK, FilesOK, mem, env
<1>1. fs \in Files
  OBVIOUS
<1>2. CASE Boot \/ Idle \/ UNCHANGED vars
  BY <1>2 DEF Boot, BootIdle, BootStart, BootResume, Idle, IdleExit, IdleTimeout, IdleNewPlan,
     IdleResume, IdleDrops, vars
<1>3. CASE Environment
  BY <1>1, <1>3 DEF Environment, SendCommand, HumanWrites, Signal, Crash, UnexpectedError, Files
<1>4. CASE \/ BeginPipeline \/ (\E p \in Pipeline : EnterPhase(p)) \/ NothingDue
           \/ HardenWrites \/ HardenDone \/ PhaseGivesUp \/ ScoutDone
           \/ LoopShutdown \/ LoopArchitectFails
  BY <1>1, <1>4 DEF BeginPipeline, EnterPhase, NothingDue, HardenWrites, HardenDone,
     PhaseGivesUp, ScoutDone, LoopShutdown, LoopArchitectFails, Files
<1>5. CASE DrainCommands
  BY <1>1, <1>5 DEF DrainCommands, DrainStop, DrainPause, DrainHumanPause, DrainSteer,
     DrainSkip, DrainNewPlan, DrainOther, Drained, Files
<1>6. CASE CoachDone \/ SliceCoach \/ VerifierAnomaly
  <2>1. CoachRuns(fs, fs')
    BY <1>6 DEF CoachDone, SliceCoach, VerifierAnomaly
  <2>2. fs' = fs \/ fs'.queue \in CoachQueues \union {fs.queue}
    BY <1>1, <2>1 DEF CoachRuns, CoachSays, Files
  <2> QED BY <2>2 DEF CoachClaimsNothing
<1>7. CASE \/ Execute \/ ExecuteFailed \/ ExecuteSucceeded
           \/ SliceDone \/ AdoptSlice \/ Complete \/ SliceLimit
  BY <1>7 DEF Execute, ExecuteRefused, ExecuteStarts, ExecuteFailed, ExecuteSucceeded,
     SliceDone, AdoptSlice, Complete, SliceLimit
<1>8. CASE ClaimSlice
  <2>1. PICK u \in QueueSlices : /\ fs' = [fs EXCEPT !.queue[u] = "claimed"]
                                 /\ run' = [run EXCEPT !.nxt = u]
    BY <1>8 DEF ClaimSlice
  <2>2. run'.nxt = u
    BY <2>1 DEF PlaceOK, RunLocals
  <2>3. s # u => fs'.queue[s] = fs.queue[s]
    BY <1>1, <2>1 DEF Files, Queue
  <2> QED BY <1>8, <2>2, <2>3
<1>9. CASE \/ SkipDoneTask \/ ShutdownAtTask \/ TasksEnd \/ EscalateToHuman \/ StartBuilder
           \/ AgentTurnEnd \/ AgentToolResult \/ AgentStuck \/ BuilderFails
           \/ VerifierPass \/ VerifierFail \/ TaskPassed \/ TaskFailed
  BY <1>9 DEF SkipDoneTask, ShutdownAtTask, TasksEnd, EscalateToHuman, StartBuilder, AgentTurnEnd,
     AgentToolResult, AgentStuck, BuilderFails, VerifierPass, VerifierFail, TaskPassed, TaskFailed
<1>10. CASE \/ OverrideAtTask \/ BeginTask \/ BeginTaskFails \/ SkipTask \/ OverrideAtAttempt
            \/ BuilderDone
  BY <1>1, <1>10 DEF OverrideAtTask, OverrideStop, OverridePause, BeginTask, BeginTaskFails,
     SkipTask, OverrideAtAttempt, BuilderDone, Files
<1>11. CASE ArchitectDone
  BY <1>1, <1>11 DEF ArchitectDone, Files
<1> QED
  BY <1>2, <1>3, <1>4, <1>5, <1>6, <1>7, <1>8, <1>9, <1>10, <1>11
  DEF Next, Runner, ExecuteNext

\* A claim is left by AdoptSlice, and the place that takes it up by entering
\* ARCHITECT, unless the process ends.
LEMMA ClaimLeaves ==
  ASSUME IInv, IInv', SameSlice, [Next]_vars, pc' # "down"
  PROVE  /\ pc = "adopt" => AdoptSlice \/ (pc' = "adopt" /\ run' = run)
         /\ pc' = "adopt" => (pc = "adopt" /\ run' = run) \/ ClaimSlice
         /\ InClaim => (InClaim' /\ disk'.slice = disk.slice) \/ ~Resting'
         /\ AdoptSlice => InClaim'
<1> USE DEF IInv, TypeOK, StatesOK, mem, env
<1>1. pc = "adopt" => disk.sora = "slice_done" /\ rst = disk
  BY DEF Control, References, Progress, Together
<1>2. InClaim => /\ run.at \in {"architect", "execute"} /\ rst = disk
                 /\ rst.phase = "running" /\ pc \notin {"adopt", "claim"}
  BY DEF InClaim, Control, References, Progress, Together
<1>3. CASE SendCommand \/ HumanWrites \/ Signal \/ UNCHANGED vars
  BY <1>3 DEF SendCommand, HumanWrites, Signal, vars, InClaim, AdoptSlice
<1>4. CASE Crash \/ UnexpectedError
  BY <1>4 DEF Crash, UnexpectedError, Gone
<1>5. CASE AdoptSlice
  <2> DEFINE s == [rst EXCEPT !.slice = run.nxt, !.idx = 0]
  <2>1. disk' = s /\ pc' = "enter" /\ pc = "adopt"
    BY <1>5 DEF AdoptSlice, SaveRunner
  <2>2. s.sora = "slice_done" /\ run'.loop
    BY <1>1, <1>5, <2>1 DEF AdoptSlice, State
  <2> HIDE DEF s
  <2> QED BY <1>5, <2>1, <2>2 DEF InClaim
<1>6. CASE \E p \in Pipeline : EnterPhase(p)
  <2>1. PICK p \in Pipeline : EnterPhase(p)
    BY <1>6
  <2>2. pc = "enter" /\ pc' = "drain" /\ disk' = SetSora(rst, p)
    BY <2>1 DEF EnterPhase, SaveAndShare
  <2>3. InClaim => ~Resting'
    BY <1>2, <2>2, SetSoraFields DEF Resting, Pipeline
  <2> QED BY <2>2, <2>3 DEF AdoptSlice
<1>7. CASE NothingDue
  <2>1. ~InClaim
    <3>1. ~Due("execute")
      BY <1>7 DEF NothingDue, Pipeline
    <3> QED BY <1>2, <3>1 DEF Due, Configured, RoleOf, Rank, InClaim
  <2> QED BY <1>7, <2>1 DEF NothingDue, AdoptSlice
<1>8. CASE ClaimSlice
  BY <1>8 DEF ClaimSlice, InClaim, AdoptSlice
<1>9. CASE \/ Boot \/ Idle \/ BeginPipeline \/ DrainCommands \/ HardenWrites \/ HardenDone
           \/ PhaseGivesUp \/ ScoutDone \/ CoachDone \/ LoopShutdown \/ ArchitectDone
           \/ LoopArchitectFails \/ Execute
  BY <1>9 DEF Boot, BootIdle, BootStart, BootResume, Idle, IdleExit, IdleTimeout, IdleNewPlan,
     IdleResume, IdleDrops, IdleTakes, StartsWith, Gone, BeginPipeline, DrainCommands, Draining,
     DrainStop, DrainPause, DrainHumanPause, DrainSteer, DrainSkip, DrainNewPlan, DrainOther,
     Drained, HardenWrites, HardenDone, PhaseGivesUp, ScoutDone, CoachDone, LoopShutdown,
     ArchitectDone, LoopArchitectFails, Execute, ExecuteRefused, ExecuteStarts, Fail, Working,
     InClaim, AdoptSlice
<1>10. CASE \/ ExecuteFailed \/ ExecuteSucceeded \/ SliceDone \/ SliceCoach \/ Complete \/ SliceLimit
  BY <1>10 DEF ExecuteFailed, ExecuteSucceeded, SliceDone, SliceCoach, Complete, SliceLimit,
     InClaim, AdoptSlice
<1>11. CASE ExecuteNext
  <2>1. InTask /\ (InTask' \/ pc' = "execfail")
    BY <1>11, ExecuteIsInTask, ExecutePlaces
  <2> QED BY <2>1 DEF InTask, InClaim, AdoptSlice
<1> QED
  BY <1>3, <1>4, <1>5, <1>6, <1>7, <1>8, <1>9, <1>10, <1>11 DEF Next, Runner, Environment

\* No step removes a SUMMARY.md.
LEMMA SummariesAreKept ==
  ASSUME IInv, [Next]_vars, NEW s, Summarised(s) PROVE Summarised(s)'
<1>1. fs.summ \subseteq fs'.summ
  <2>1. CASE ArchitectDone
    BY <2>1 DEF ArchitectDone, IInv, TypeOK, FilesOK, Files
  <2> QED BY <2>1, FilesAreKept DEF FilesKept
<1> QED BY <1>1 DEF Summarised

\* A step that does not end the process in a claim keeps the claimed slices
\* behind, or at hand.
LEMMA ClaimStep ==
  ASSUME IInv, IInv', SliceInv, ClaimInv, [Next]_vars, CoachClaimsNothing,
         pc = "adopt" \/ InClaim => pc' # "down"
  PROVE  ClaimInv'
<1> USE DEF IInv, TypeOK, StatesOK, SliceInv, ClaimInv
<1>1. SliceChange
  BY SliceFieldStep
<1>2. pc = "adopt" \/ InClaim =>
         /\ pc = "adopt" => AdoptSlice \/ (pc' = "adopt" /\ run' = run)
         /\ InClaim => (InClaim' /\ disk'.slice = disk.slice) \/ ~Resting'
         /\ AdoptSlice => InClaim'
  BY ClaimLeaves
<1>3. pc' = "adopt" => (pc = "adopt" /\ run' = run) \/ ClaimSlice
  BY ClaimLeaves
<1>4. AdoptSlice => /\ pc = "adopt" /\ disk'.slice = run.nxt
                    /\ Summarised(CurrentSlice(disk))
  <2>1. AdoptSlice => pc = "adopt" /\ Resting /\ ~InClaim
    BY DEF AdoptSlice, InClaim, Resting, Control, References, Progress, Together
  <2>2. AdoptSlice => disk'.slice = run.nxt
    <3> DEFINE s == [rst EXCEPT !.slice = run.nxt, !.idx = 0]
    <3>1. s.slice = run.nxt
      BY DEF State
    <3>2. AdoptSlice => disk' = s
      BY DEF AdoptSlice, SaveRunner
    <3> HIDE DEF s
    <3> QED BY <3>1, <3>2
  <2> QED BY <2>1, <2>2 DEF RestsSummarised
<1>5. RestsSummarised'
  <2> SUFFICES ASSUME Resting' PROVE Summarised(CurrentSlice(disk))' \/ InClaim'
    BY DEF RestsSummarised
  <2>1. CASE AdoptSlice
    BY <1>2, <1>4, <2>1
  <2>2. CASE Resting /\ disk'.slice = disk.slice
    <3>1. CASE Summarised(CurrentSlice(disk))
      BY <2>2, <3>1, SummariesAreKept DEF CurrentSlice
    <3>2. CASE InClaim
      BY <1>2, <3>2
    <3> QED BY <2>2, <3>1, <3>2 DEF RestsSummarised
  <2>3. CASE ExecuteSucceeded /\ disk'.slice = disk.slice
    BY <2>3, SuccessIsSummarised, SummariesAreKept DEF CurrentSlice
  <2> QED BY <2>1, <2>2, <2>3, WhatRests
<1>6. pc' = "adopt" => run'.nxt \in QueueSlices
  <2>1. ASSUME ClaimSlice PROVE run'.nxt \in QueueSlices
    BY <2>1 DEF ClaimSlice, PlaceOK, RunLocals
  <2> QED BY <1>3, <2>1
<1>7. ASSUME NEW s \in QueueSlices, (fs.queue[s] = "claimed")'
      PROVE  Summarised(s)' \/ s = CurrentSlice(disk)' \/ (pc' = "adopt" /\ s = run'.nxt)
  <2>1. s # NoSlice
    BY QueueSlicesAreSlices, NoSliceAssumption
  <2>2. CASE ClaimSlice /\ run'.nxt = s
    BY <2>2 DEF ClaimSlice
  <2>3. CASE Summarised(s)
    BY <2>3, SummariesAreKept
  <2>4. CASE s = CurrentSlice(disk)
    <3>1. CASE disk'.slice = disk.slice
      BY <2>4, <3>1 DEF CurrentSlice
    <3>2. CASE disk'.slice = CurrentSlice(disk)
      BY <2>1, <2>4, <3>2 DEF CurrentSlice
    <3>3. CASE AdoptSlice
      BY <1>4, <2>4, <3>3, SummariesAreKept
    <3>4. CASE disk.phase = "completed"
      BY <2>4, <3>4, CompletedIsAtRest, SummariesAreKept DEF RestsSummarised, Resting, InClaim
    <3> QED BY <1>1, <3>1, <3>2, <3>3, <3>4 DEF SliceChange
  <2>5. CASE pc = "adopt" /\ s = run.nxt
    <3>1. CASE AdoptSlice
      BY <1>4, <2>1, <2>5, <3>1 DEF CurrentSlice
    <3> QED BY <1>2, <2>5, <3>1
  <2> QED BY <1>7, <2>2, <2>3, <2>4, <2>5, WhatClaims DEF ClaimsBehind
<1> QED BY <1>5, <1>6, <1>7 DEF ClaimsBehind

\* The invariant, for a run that is not ended in a claim.
LEMMA ClaimInvariance ==
  ASSUME CoachClaimsNothing PROVE Spec /\ ClaimsUninterrupted => []ClaimInv
<1>1. Init => ClaimInv
  <2>1. ASSUME Init, NEW s \in QueueSlices PROVE fs.queue[s] # "claimed"
    <3>1. fs.queue \in CoachQueues \union {[u \in QueueSlices |-> "absent"]}
      BY <2>1 DEF Init
    <3>2. [u \in QueueSlices |-> "absent"][s] # "claimed"
      OBVIOUS
    <3> QED BY <2>1, <3>1, <3>2 DEF CoachClaimsNothing
  <2>2. Init => /\ pc = "down" /\ disk.phase = "idle" /\ disk.sora = "none"
    BY DEF Init, Fresh
  <2> QED BY <2>1, <2>2 DEF ClaimInv, ClaimsBehind, RestsSummarised, Resting
<1>2. /\ IInv /\ IInv' /\ SliceInv /\ ClaimInv /\ [Next]_vars
      /\ [pc = "adopt" \/ InClaim => pc' # "down"]_vars
      => ClaimInv'
  <2>1. UNCHANGED vars /\ (pc = "adopt" \/ InClaim) => pc' # "down"
    BY DEF vars, InClaim
  <2> QED BY <2>1, ClaimStep
<1> QED BY <1>1, <1>2, Invariance, SliceInvariance, PTL DEF Spec, ClaimsUninterrupted

\* A completed run executed every slice it claimed, for any number of slices,
\* coach runs, failures and restarts, if no process ends in the middle of a claim.
THEOREM ClaimsAreExecuted ==
  ASSUME CoachClaimsNothing
  PROVE  Spec /\ ClaimsUninterrupted => []ClaimedSlicesAreExecuted
<1>1. IInv /\ ClaimInv => ClaimedSlicesAreExecuted
  <2> SUFFICES ASSUME IInv, ClaimInv, disk.phase = "completed",
                      NEW s \in QueueSlices, fs.queue[s] = "claimed"
               PROVE  Summarised(s)
    BY DEF ClaimedSlicesAreExecuted
  <2>1. pc \in {"down", "idle"}
    BY CompletedIsAtRest DEF IInv
  <2>2. Summarised(CurrentSlice(disk))
    BY <2>1 DEF ClaimInv, RestsSummarised, Resting, InClaim
  <2> QED BY <2>1, <2>2 DEF ClaimInv, ClaimsBehind
<1> QED BY <1>1, ClaimInvariance, Invariance, PTL

\* Under the same condition a restart finds the phase to resume at: what keeps
\* RecoversAtTheRightPhase from holding is the gap in the claim and nothing else.
THEOREM RecoveryIsRightElsewhere ==
  ASSUME CoachClaimsNothing
  PROVE  Spec /\ ClaimsUninterrupted => []RecoversAtTheRightPhase
<1>1. IInv /\ SliceInv /\ ClaimInv => RecoversAtTheRightPhase
  BY DEF ClaimInv, RestsSummarised, Resting, InClaim, SliceInv, SameSlice, CurrentSlice,
     RecoversAtTheRightPhase
<1> QED BY <1>1, ClaimInvariance, Invariance, SliceInvariance, PTL

-----------------------------------------------------------------------------
(***************************************************************************)
(* What a run_execute that succeeds has seen.  It does not look at the     *)
(* verdict on a task below the index it found, only at the SUMMARY.md;     *)
(* every other task passed its verification in this run, or was skipped.   *)
(***************************************************************************)

Good(t) == res[<<CurrentSlice(cst), t>>] \in {"pass", "skipped"}

OwnTasksPassed == pc = "execok" => \A t \in Tasks : t >= ex.start => Good(t)

OwnLoop == ex.ok => \A t \in Tasks : t >= ex.start /\ t < ex.ti => Good(t)
OwnVerdict ==
    /\ pc \in {"attempt", "build", "verify"} => ~ex.passed
    /\ pc = "taskend" /\ ex.passed => Good(ex.ti)
OwnInv == (InTask => OwnLoop) /\ OwnVerdict

\* A step that leaves the loop's place and what came of the tasks alone.
LEMMA OwnLoopStays ==
  ASSUME OwnLoop, ex'.ok = ex.ok, ex'.start = ex.start, ex'.ti = ex.ti,
         CurrentSlice(cst') = CurrentSlice(cst), IInv,
         res' = res \/ \E o : Mark(o)
  PROVE  OwnLoop'
<1> USE DEF OwnLoop, Good
<1>1. CASE res' = res
  BY <1>1
<1>2. ASSUME NEW o, Mark(o) PROVE OwnLoop'
  <2>1. \A t \in Tasks : t # ex.ti => Good(t)' = Good(t)
    <3>1. Here = <<CurrentSlice(cst), ex.ti>> /\ res' = [res EXCEPT ![Here] = o]
      BY <1>2 DEF Mark, Here
    <3> SUFFICES ASSUME NEW t \in Tasks, t # ex.ti PROVE Good(t)' = Good(t)
      OBVIOUS
    <3>2. <<CurrentSlice(cst), t>> # Here /\ <<CurrentSlice(cst), t>> \in Slices \X Tasks
      BY <3>1, CurrentSliceType DEF IInv, TypeOK, StatesOK
    <3> QED BY <3>1, <3>2 DEF IInv, TypeOK, FilesOK
  <2>2. \A t \in Tasks : t < ex.ti => t # ex.ti
    BY BoundAssumption DEF Tasks
  <2> QED BY <2>1, <2>2
<1> QED BY <1>1, <1>2

\* What is marked is the verdict on the task at hand.
LEMMA MarkIsHere ==
  ASSUME IInv, TaskBounds, pc \in {"attempt", "build", "verify", "taskend"},
         NEW o, Mark(o), CurrentSlice(cst') = CurrentSlice(cst), ex'.ti = ex.ti
  PROVE  o \in {"pass", "skipped"} => Good(ex.ti)'
<1>1. Here \in Slices \X Tasks
  BY CurrentSliceType, BoundAssumption
  DEF Here, Tasks, IInv, TypeOK, StatesOK, LocalsOK, ExLocals, TaskBounds
<1>2. res'[Here] = o
  BY <1>1 DEF Mark, IInv, TypeOK, FilesOK
<1> QED BY <1>2 DEF Good, Here

\* Inside run_execute.
LEMMA OwnInside ==
  ASSUME IInv, IInv', SliceInv, SliceInv', SliceChange, OwnInv, ExecuteNext
  PROVE  OwnInv'
<1> USE DEF IInv, TypeOK, LocalsOK, ExLocals, TaskBounds, OwnInv, OwnVerdict, mem, env
<1>1. ASSUME pc' = "execfail" PROVE OwnInv'
  BY <1>1 DEF InTask
<1>2. InTask /\ OwnLoop
  BY ExecuteIsInTask DEF InTask
<1>3. InTask' => CurrentSlice(cst') = CurrentSlice(cst)
  BY <1>2, TaskKeepsSlice DEF SliceInv
<1>4. ASSUME InTask', ex'.ok = ex.ok, ex'.start = ex.start, ex'.ti = ex.ti,
             res' = res \/ \E o : Mark(o)
      PROVE  OwnLoop'
  BY <1>2, <1>3, <1>4, OwnLoopStays
<1>5. CASE ShutdownAtTask \/ OverrideAtTask \/ OverrideAtAttempt \/ BeginTaskFails \/ EscalateToHuman
  BY <1>1, <1>5 DEF ShutdownAtTask, OverrideAtTask, OverrideAtAttempt, OverrideStop,
     OverridePause, BeginTaskFails, EscalateToHuman, Fail
<1>6. CASE SkipDoneTask
  <2>1. /\ pc' = "task" /\ ex'.ti = ex.ti + 1 /\ ex'.start = ex.start /\ ex.ti < ex.start
    BY <1>6 DEF SkipDoneTask, Passed
  <2>2. \A t \in Tasks : ~(t >= ex.start /\ t < ex.ti + 1)
    BY <2>1, BoundAssumption DEF Tasks
  <2> QED BY <2>1, <2>2 DEF OwnLoop
<1>7. CASE TaskPassed
  <2>1. /\ pc = "taskend" /\ ex.passed /\ pc' = "task" /\ res' = res
        /\ ex'.ti = ex.ti + 1 /\ ex'.start = ex.start /\ ex'.ok = ex.ok
    BY <1>7 DEF TaskPassed
  <2>2. \A t : Good(t) => Good(t)'
    BY <1>3, <2>1 DEF Good, InTask
  <2>3. \A t \in Tasks : t < ex.ti + 1 => t < ex.ti \/ t = ex.ti
    BY BoundAssumption DEF Tasks
  <2> QED BY <1>2, <2>1, <2>2, <2>3 DEF OwnLoop
<1>8. CASE TaskFailed
  <2>1. pc' = "task" /\ ~ex'.ok
    BY <1>8 DEF TaskFailed
  <2> QED BY <2>1 DEF OwnLoop
<1>9. CASE TasksEnd
  <2>1. ex' = ex /\ res' = res /\ pc' \in {"execok", "execfail"}
    BY <1>9 DEF TasksEnd
  <2> QED BY <1>4, <2>1
<1>10. CASE BeginTask
  <2>1. /\ InTask' /\ pc' = "attempt" /\ ~ex'.passed /\ res' = res
        /\ ex'.ti = ex.ti /\ ex'.ok = ex.ok /\ ex'.start = ex.start
    BY <1>10 DEF BeginTask, InTask
  <2> QED BY <1>4, <2>1
<1>11. CASE StartBuilder \/ AgentTurnEnd \/ AgentToolResult
  <2>1. /\ InTask' /\ pc' = "build" /\ ex' = ex /\ pc \in {"attempt", "build"}
    BY <1>11 DEF StartBuilder, AttemptReady, AttemptStarts, AgentTurnEnd, AgentToolResult, InTask
  <2>2. res' = res \/ \E o : Mark(o)
    BY <1>11 DEF StartBuilder, AgentTurnEnd, AgentToolResult
  <2> QED BY <1>4, <2>1, <2>2
<1>12. CASE AgentStuck \/ BuilderFails \/ VerifierFail \/ VerifierAnomaly
  <2>1. /\ InTask' /\ pc' \in {"attempt", "taskend"} /\ pc \in {"build", "verify"}
        /\ ex'.ti = ex.ti /\ ex'.ok = ex.ok /\ ex'.passed = ex.passed /\ ex'.start = ex.start
        /\ res' = res
    BY <1>12 DEF AgentStuck, BuilderFails, VerifierFail, VerifierAnomaly, AttemptFails, InTask
  <2> QED BY <1>4, <2>1
<1>13. CASE SkipTask \/ BuilderDone \/ VerifierPass
  <2>1. /\ InTask' /\ pc' \in {"verify", "taskend"} /\ pc \in {"attempt", "build", "verify"}
        /\ ex'.ti = ex.ti /\ ex'.ok = ex.ok /\ ex'.start = ex.start
    BY <1>13 DEF SkipTask, AttemptStarts, BuilderDone, VerifierPass, InTask
  <2>2. \/ Mark("pass") \/ Mark("skipped")
        \/ res' = res /\ pc' = "verify" /\ ex' = ex
    BY <1>13 DEF SkipTask, BuilderDone, VerifierPass
  <2>3. OwnLoop'
    BY <1>4, <2>1, <2>2
  <2>4. Mark("pass") \/ Mark("skipped") => Good(ex.ti)'
    BY <1>3, <2>1, MarkIsHere
  <2>5. pc' = "verify" => ~ex'.passed
    BY <1>13 DEF SkipTask, BuilderDone, VerifierPass
  <2> QED BY <2>1, <2>2, <2>3, <2>4, <2>5
<1> QED
  BY <1>5, <1>6, <1>7, <1>8, <1>9, <1>10, <1>11, <1>12, <1>13 DEF ExecuteNext

\* run_execute is entered at the first task, and left for good.
LEMMA OwnStep ==
  ASSUME IInv, IInv', SliceInv, SliceInv', OwnInv, [Next]_vars PROVE OwnInv'
<1> USE DEF mem, env
<1>1. ASSUME ~InTask' PROVE OwnInv'
  BY <1>1 DEF OwnInv, OwnVerdict, InTask
<1>2. CASE ExecuteNext
  BY <1>2, SliceFieldStep, OwnInside DEF SliceInv
<1>3. CASE Execute
  <2>1. pc' = "execfail" \/ (pc' = "task" /\ ex'.ti = 0)
    BY <1>3 DEF Execute, ExecuteRefused, Fail, ExecuteStarts, ExIdle
  <2>2. \A t \in Tasks : ~(t < 0)
    BY BoundAssumption DEF Tasks
  <2> QED BY <1>1, <2>1, <2>2 DEF OwnInv, OwnLoop, OwnVerdict, InTask
<1>4. CASE SendCommand \/ HumanWrites \/ Signal \/ UNCHANGED vars
  <2>1. pc' = pc /\ cst' = cst /\ ex' = ex /\ res' = res
    BY <1>4 DEF SendCommand, HumanWrites, Signal, vars
  <2> QED BY <2>1 DEF OwnInv, OwnLoop, OwnVerdict, InTask, Good
<1>5. CASE ~(ExecuteNext \/ Execute \/ SendCommand \/ HumanWrites \/ Signal \/ UNCHANGED vars)
  BY <1>1, <1>5, StaysOutside
<1> QED BY <1>2, <1>3, <1>4, <1>5

\* A slice is reported as executed only when each of its tasks from the index on
\* has passed verification, or was skipped by the user, in this run: what keeps
\* SuccessMeansEveryTaskPassed from holding is the tasks that a restart skips.
THEOREM SuccessIsOwn == Spec => []OwnTasksPassed
<1>1. Init => OwnInv
  BY DEF Init, OwnInv, OwnVerdict, InTask
<1>2. IInv /\ IInv' /\ SliceInv /\ SliceInv' /\ OwnInv /\ [Next]_vars => OwnInv'
  BY OwnStep
<1>3. SliceInv /\ OwnInv => OwnTasksPassed
  <2>1. \A t \in Tasks : t < NumTasks
    BY BoundAssumption DEF Tasks
  <2> QED BY <2>1 DEF SliceInv, TasksBehind, OwnInv, OwnLoop, OwnTasksPassed, InTask
<1> QED BY <1>1, <1>2, <1>3, Invariance, SliceInvariance, PTL DEF Spec

\* A run that starts a slice at its first task reports success only if every
\* task passed.
THEOREM SuccessFromTheFirst ==
  Spec => [](ex.start = 0 => SuccessMeansEveryTaskPassed)
<1>1. OwnTasksPassed => (ex.start = 0 => SuccessMeansEveryTaskPassed)
  BY BoundAssumption DEF OwnTasksPassed, Good, SuccessMeansEveryTaskPassed, Tasks
<1> QED BY <1>1, SuccessIsOwn, PTL

-----------------------------------------------------------------------------
(***************************************************************************)
(* The persisted index, for a runner that is always given the plan p: the  *)
(* index of either object counts only tasks that were tried.               *)
(***************************************************************************)

OnlyPlan(p) ==
    /\ CliPlans \subseteq {p, NoPlan}
    /\ \A c \in Commands : c.kind = "new_plan" => c.plan = p

Tried(r, s, n) == \A t \in Tasks : t < n => r[<<s, t>>] # "none"

IndexSound(p, r, s) ==
    /\ s.plan \in {p, NoPlan}
    /\ s.plan = NoPlan => s.idx = 0
    /\ Tried(r, CurrentSlice(s), s.idx)

\* Both objects, and in a run both are of the plan.
BothSound(p) ==
    /\ IndexSound(p, res, disk)
    /\ pc # "down" => IndexSound(p, res, rst)
    /\ pc \notin {"down", "idle"} => disk.plan = p /\ rst.plan = p
    /\ disk.phase = "paused" => disk.plan = p

\* Inside run_execute the loop leaves no task behind that it has not tried.
LoopTried ==
    InTask =>
        /\ Tried(res, CurrentSlice(cst), ex.ti)
        /\ Tried(res, CurrentSlice(cst), ex.start)
        /\ pc \in {"build", "verify", "taskend"} => res[Here] # "none"

IndexInv(p) == BothSound(p) /\ LoopTried

\* A task that was tried stays so, in a run.
ResKept == \A k \in Slices \X Tasks : res[k] # "none" => res'[k] # "none"

\* The index counts for a later state of the same slice and plan.
LEMMA SoundCarries ==
  ASSUME NEW p, NEW s \in State, NEW u, IndexSound(p, res, s), ResKept,
         u.plan = s.plan, u.idx = s.idx, CurrentSlice(u) = CurrentSlice(s)
  PROVE  IndexSound(p, res', u)
<1>1. CurrentSlice(s) \in Slices
  BY CurrentSliceType
<1>2. \A t \in Tasks : <<CurrentSlice(s), t>> \in Slices \X Tasks
  BY <1>1
<1> QED BY <1>2 DEF IndexSound, Tried, ResKept

\* Index 0 counts nothing.
LEMMA ZeroIsSound ==
  ASSUME NEW p, NEW r, NEW u, u.plan \in {p, NoPlan}, u.idx = 0
  PROVE  IndexSound(p, r, u)
<1>1. \A t \in Tasks : ~(t < 0)
  BY BoundAssumption DEF Tasks
<1> QED BY <1>1 DEF IndexSound, Tried

\* What the operators on AgentState leave of plan_file and the index.
LEMMA IndexFields ==
  ASSUME NEW s \in State
  PROVE  /\ \A q : Moved(s, q).plan = s.plan /\ Moved(s, q).idx = s.idx
         /\ \A q : SetSora(s, q).plan = s.plan /\ SetSora(s, q).idx = s.idx
         /\ \A l \in Level : Escalated(s, l).plan = s.plan /\ Escalated(s, l).idx = s.idx
         /\ AfterTurnEnd(s).plan = s.plan /\ AfterTurnEnd(s).idx = s.idx
         /\ \A same \in BOOLEAN : /\ AfterToolResult(s, same).plan = s.plan
                                  /\ AfterToolResult(s, same).idx = s.idx
         /\ \A n : [s EXCEPT !.retry = n].plan = s.plan /\ [s EXCEPT !.retry = n].idx = s.idx
         /\ \A n : [s EXCEPT !.idx = n].plan = s.plan /\ [s EXCEPT !.idx = n].idx = n
         /\ \A t : TaskStarted(s, t).plan = s.plan /\ TaskStarted(s, t).idx = t
  BY DEF Moved, SetSora, TaskStarted, Escalated, AfterTurnEnd, AfterToolResult, State

\* A save of an object that is sound.
LEMMA SoundSaved ==
  ASSUME NEW p, IInv, BothSound(p), ResKept, pc \notin {"down", "idle"},
         NEW u, IndexSound(p, res', u), u.plan = p,
         SaveRunner(u) \/ SaveAndShare(u) \/ SaveContext(u) \/ SaveCopy(u) \/ TouchContext(u)
  PROVE  BothSound(p)'
<1>1. IndexSound(p, res', disk) /\ IndexSound(p, res', rst) /\ disk.plan = p /\ rst.plan = p
  BY SoundCarries DEF BothSound, IInv, TypeOK, StatesOK
<1> QED
  BY <1>1 DEF BothSound, SaveRunner, SaveAndShare, SaveContext, SaveCopy, TouchContext

\* A step that leaves the states alone.
LEMMA SoundStays ==
  ASSUME NEW p, IInv, BothSound(p), ResKept, disk' = disk,
         (rst' = rst /\ pc # "down") \/ pc' = "down",
         pc' \notin {"down", "idle"} => pc \notin {"down", "idle"}
  PROVE  BothSound(p)'
<1>1. IndexSound(p, res', disk) /\ (pc # "down" => IndexSound(p, res', rst))
  BY SoundCarries DEF BothSound, IInv, TypeOK, StatesOK
<1> QED BY <1>1 DEF BothSound

\* A run starts: with the index of the run before only under the same plan.
LEMMA SoundStart ==
  ASSUME NEW p, p # NoPlan, IInv, BothSound(p), StartsWith(MarkStarted(disk, p)),
         res' = ResAfterStart(disk, p)
  PROVE  BothSound(p)'
<1> DEFINE u == MarkStarted(disk, p)
<1>1. disk' = u /\ rst' = u /\ disk \in State
  BY DEF StartsWith, SaveAndShare, IInv, TypeOK, StatesOK
<1>2. u.plan = p
  BY <1>1 DEF MarkStarted, Fresh, State
<1>3. IndexSound(p, res', u)
  <2>1. CASE disk.phase = "completed"
    <3>1. u.idx = 0
      BY <2>1 DEF MarkStarted, Fresh
    <3> QED BY <1>2, <3>1, ZeroIsSound
  <2>2. CASE disk.phase # "completed" /\ disk.plan # p
    <3>1. u.idx = 0
      BY <1>1, <2>2 DEF MarkStarted, State, BothSound, IndexSound
    <3> QED BY <1>2, <3>1, ZeroIsSound
  <2>3. CASE disk.phase # "completed" /\ disk.plan = p
    <3>1. u.idx = disk.idx /\ u.slice = disk.slice /\ res' = res
      BY <1>1, <2>3 DEF MarkStarted, State, ResAfterStart
    <3> QED BY <1>1, <1>2, <2>3, <3>1, SoundCarries DEF BothSound, ResKept, CurrentSlice
  <2> QED BY <2>1, <2>2, <2>3
<1> HIDE DEF u
<1> QED BY <1>1, <1>2, <1>3 DEF BothSound

\* Only a start forgets what was tried.
LEMMA TriedIsKept ==
  ASSUME IInv, [Next]_vars, ~BootStart, ~BootResume, ~IdleNewPlan
  PROVE  ResKept
<1> USE DEF ResKept, env
<1>1. ASSUME NEW o \in Outcomes \ {"none"}, Mark(o) PROVE ResKept
  BY <1>1 DEF Mark, IInv, TypeOK, FilesOK
<1>2. \A o \in {"tried", "pass", "fail", "skipped"} : o \in Outcomes \ {"none"}
  BY DEF Outcomes
<1>3. CASE StartBuilder \/ SkipTask \/ BuilderDone \/ VerifierPass \/ TaskFailed
  BY <1>1, <1>2, <1>3 DEF StartBuilder, SkipTask, BuilderDone, VerifierPass, TaskFailed
<1>4. CASE \/ SkipDoneTask \/ ShutdownAtTask \/ OverrideAtTask \/ BeginTask \/ BeginTaskFails
           \/ TasksEnd \/ OverrideAtAttempt \/ EscalateToHuman \/ AgentTurnEnd \/ AgentToolResult
           \/ AgentStuck \/ BuilderFails \/ VerifierFail \/ VerifierAnomaly \/ TaskPassed
  BY <1>4 DEF SkipDoneTask, ShutdownAtTask, OverrideAtTask, BeginTask, BeginTaskFails, TasksEnd,
     OverrideAtAttempt, EscalateToHuman, AgentTurnEnd, AgentToolResult, AgentStuck, BuilderFails,
     VerifierFail, VerifierAnomaly, TaskPassed
<1>5. CASE \/ BeginPipeline \/ (\E p \in Pipeline : EnterPhase(p)) \/ NothingDue
           \/ HardenWrites \/ HardenDone \/ PhaseGivesUp \/ ScoutDone \/ CoachDone
           \/ LoopShutdown \/ ArchitectDone \/ LoopArchitectFails
  BY <1>5 DEF BeginPipeline, EnterPhase, NothingDue, HardenWrites, HardenDone, PhaseGivesUp,
     ScoutDone, CoachDone, LoopShutdown, ArchitectDone, LoopArchitectFails
<1>6. CASE DrainCommands
  BY <1>6 DEF DrainCommands, DrainStop, DrainPause, DrainHumanPause, DrainSteer, DrainSkip,
     DrainNewPlan, DrainOther, Drained
<1>7. CASE \/ Execute \/ ExecuteFailed \/ ExecuteSucceeded \/ SliceDone \/ SliceCoach
           \/ ClaimSlice \/ AdoptSlice \/ Complete \/ SliceLimit
  BY <1>7 DEF Execute, ExecuteRefused, ExecuteStarts, ExecuteFailed, ExecuteSucceeded, SliceDone,
     SliceCoach, ClaimSlice, AdoptSlice, Complete, SliceLimit
<1>8. CASE BootIdle \/ IdleExit \/ IdleTimeout \/ IdleResume \/ IdleDrops \/ Environment
           \/ UNCHANGED vars
  BY <1>8 DEF BootIdle, IdleExit, IdleTimeout, IdleResume, IdleDrops, Environment, SendCommand,
     HumanWrites, Signal, Crash, UnexpectedError, vars
<1> QED
  BY <1>3, <1>4, <1>5, <1>6, <1>7, <1>8 DEF Next, Boot, Runner, ExecuteNext, Idle

\* In a task the context's object counts as the file does.
LEMMA SoundInTask ==
  ASSUME NEW p, IInv, BothSound(p), InTask
  PROVE  /\ cst.plan = p /\ cst.idx = disk.idx /\ CurrentSlice(cst) = CurrentSlice(disk)
         /\ IndexSound(p, res, cst) /\ pc \notin {"down", "idle"}
<1>1. /\ ForgetRetry(disk).slice = disk.slice /\ ForgetRetry(cst).slice = cst.slice
      /\ ForgetRetry(disk).plan = disk.plan /\ ForgetRetry(cst).plan = cst.plan
      /\ ForgetRetry(disk).idx = disk.idx /\ ForgetRetry(cst).idx = cst.idx
  BY DEF ForgetRetry, IInv, TypeOK, StatesOK, State
<1>2. pc \notin {"down", "idle"} /\ ForgetRetry(disk) = ForgetRetry(cst)
  BY InTaskFacts DEF InTask, IInv
<1>3. cst.slice = disk.slice /\ cst.plan = disk.plan /\ cst.idx = disk.idx
  BY <1>1, <1>2
<1> QED BY <1>2, <1>3 DEF BothSound, IndexSound, CurrentSlice

\* run_execute moves the index only past what it tried.
LEMMA ExecuteSound ==
  ASSUME NEW p, p # NoPlan, IInv, IndexInv(p), ExecuteNext, ResKept
  PROVE  BothSound(p)'
<1> USE DEF IInv, TypeOK, StatesOK, LocalsOK, ExLocals, TaskBounds, env, IndexInv
<1>1. InTask
  BY ExecuteIsInTask DEF InTask
<1>2. /\ cst.plan = p /\ IndexSound(p, res, cst) /\ pc \notin {"down", "idle"}
  BY <1>1, SoundInTask
<1>3. ASSUME NEW u, u.plan = p, u.slice = cst.slice, u.idx = cst.idx
      PROVE  IndexSound(p, res', u)
  BY <1>2, <1>3, SoundCarries DEF CurrentSlice
<1>4. ASSUME NEW u, u.plan = p, u.slice = cst.slice, Tried(res, CurrentSlice(cst), u.idx)
      PROVE  IndexSound(p, res', u)
  <2>1. CurrentSlice(cst) \in Slices
    BY CurrentSliceType
  <2>2. Tried(res', CurrentSlice(cst), u.idx)
    BY <1>4, <2>1 DEF Tried, ResKept
  <2> QED BY <1>4, <2>2 DEF IndexSound, CurrentSlice
<1>5. CASE \/ SkipDoneTask \/ ShutdownAtTask \/ SkipTask \/ BuilderDone \/ VerifierPass
           \/ TaskFailed
  <2>1. disk' = disk /\ rst' = rst
    <3>1. UNCHANGED <<disk, mem>>
      BY <1>5, Zenon DEF SkipDoneTask, ShutdownAtTask, SkipTask, BuilderDone, VerifierPass, TaskFailed
    <3> QED BY <3>1 DEF mem
  <2> QED BY <1>2, <2>1, SoundStays
<1>6. CASE OverrideAtTask \/ OverrideAtAttempt
  <2>1. CASE OverrideStop
    BY <1>2, <1>6, <2>1, SoundStays DEF OverrideAtTask, OverrideAtAttempt, OverrideStop, mem
  <2>2. CASE OverridePause
    <3>1. /\ Moved(cst, "paused").plan = p /\ Moved(cst, "paused").slice = cst.slice
          /\ Moved(cst, "paused").idx = cst.idx
      BY <1>2, IndexFields, SliceFields
    <3> QED BY <1>2, <1>3, <2>2, <3>1, SoundSaved DEF OverridePause
  <2> QED BY <1>6, <2>1, <2>2 DEF OverrideAtTask, OverrideAtAttempt
<1>7. CASE BeginTask \/ BeginTaskFails
  <2> DEFINE s == TaskStarted(cst, ex.ti)
             u == [s EXCEPT !.sora = cst.sora, !.idx = cst.idx]
  <2>1. s \in State /\ s.plan = p /\ s.slice = cst.slice /\ s.idx = ex.ti
    <3>1. s \in State
      BY TaskStartedType
    <3>2. s.plan = cst.plan /\ s.idx = ex.ti /\ s.slice = cst.slice
      BY IndexFields, SliceFields
    <3> HIDE DEF s
    <3> QED BY <1>2, <3>1, <3>2
  <2>2. u.plan = p /\ u.slice = cst.slice /\ u.idx = cst.idx
    BY <2>1 DEF State
  <2>3. IndexSound(p, res', s) /\ IndexSound(p, res', u)
    <3>1. Tried(res, CurrentSlice(cst), s.idx)
      BY <1>1, <2>1 DEF LoopTried
    <3> HIDE DEF s, u
    <3> QED BY <1>3, <1>4, <2>1, <2>2, <3>1
  <2>4. SaveContext(s) \/ TouchContext(u)
    BY <1>7 DEF BeginTask, BeginTaskFails
  <2> HIDE DEF s, u
  <2> QED BY <1>2, <2>1, <2>2, <2>3, <2>4, SoundSaved
<1>8. CASE TasksEnd \/ TaskPassed
  <2>1. PICK n \in Nat : SaveContext([cst EXCEPT !.idx = n]) /\ Tried(res, CurrentSlice(cst), n)
    <3>1. CASE TasksEnd
      BY <1>1, <3>1, BoundAssumption DEF TasksEnd, LoopTried
    <3>2. CASE TaskPassed
      <4>1. \A t \in Tasks : t < ex.ti + 1 => t < ex.ti \/ t = ex.ti
        BY BoundAssumption DEF Tasks
      <4>2. Tried(res, CurrentSlice(cst), ex.ti + 1)
        BY <1>1, <3>2, <4>1 DEF TaskPassed, LoopTried, Tried, Here
      <4> QED BY <3>2, <4>2 DEF TaskPassed
    <3> QED BY <1>8, <3>1, <3>2
  <2> DEFINE u == [cst EXCEPT !.idx = n]
  <2>2. u.plan = p /\ u.slice = cst.slice /\ u.idx = n
    BY <1>2, IndexFields, SliceFields
  <2> HIDE DEF u
  <2>3. IndexSound(p, res', u)
    BY <1>4, <2>1, <2>2
  <2> QED BY <1>2, <2>1, <2>2, <2>3, SoundSaved DEF u
<1>9. CASE EscalateToHuman \/ StartBuilder
  <2>1. NextLevel \in Level
    BY DecideType DEF NextLevel, Context
  <2> DEFINE u == Escalated(cst, NextLevel)
  <2>2. u.plan = p /\ u.slice = cst.slice /\ u.idx = cst.idx
    BY <1>2, <2>1, IndexFields, SliceFields
  <2>3. (SaveCopy(u) /\ pc' \in {"execfail", "build"}) \/ (UNCHANGED <<disk, mem>> /\ pc' = "build")
    BY <1>9 DEF EscalateToHuman, StartBuilder, Fail
  <2> HIDE DEF u
  <2> QED BY <1>2, <1>3, <2>2, <2>3, SoundSaved, SoundStays DEF mem
<1>10. CASE AgentTurnEnd
  <2>1. SaveContext(AfterTurnEnd(cst))
    BY <1>10 DEF AgentTurnEnd
  <2>2. AfterTurnEnd(cst).plan = p /\ AfterTurnEnd(cst).slice = cst.slice /\ AfterTurnEnd(cst).idx = cst.idx
    BY <1>2, IndexFields, SliceFields
  <2> QED BY <1>2, <1>3, <2>1, <2>2, SoundSaved
<1>11. CASE AgentToolResult \/ AgentStuck
  <2>1. PICK same \in BOOLEAN :
           SaveCopy(AfterToolResult(cst, same)) \/ (disk' = AfterToolResult(cst, same) /\ rst' = rst)
    BY <1>11 DEF AgentToolResult, AgentStuck
  <2> DEFINE u == AfterToolResult(cst, same)
  <2>2. u.plan = p /\ u.slice = cst.slice /\ u.idx = cst.idx
    BY <1>2, IndexFields, SliceFields
  <2> HIDE DEF u
  <2>3. disk' = u /\ rst' = rst
    BY <2>1 DEF SaveCopy, u
  <2>4. IndexSound(p, res', u) /\ IndexSound(p, res', rst) /\ rst.plan = p
    BY <1>2, <1>3, <2>2, SoundCarries DEF BothSound
  <2> QED BY <2>2, <2>3, <2>4 DEF BothSound
<1>12. CASE BuilderFails \/ VerifierFail \/ VerifierAnomaly
  <2> DEFINE u == [cst EXCEPT !.retry = @ + 1]
  <2>1. TouchContext(u)
    BY <1>12 DEF BuilderFails, VerifierFail, VerifierAnomaly, AttemptFails
  <2>2. u.plan = p /\ u.slice = cst.slice /\ u.idx = cst.idx
    BY <1>2 DEF State
  <2> HIDE DEF u
  <2> QED BY <1>2, <1>3, <2>1, <2>2, SoundSaved
<1> QED
  BY <1>5, <1>6, <1>7, <1>8, <1>9, <1>10, <1>11, <1>12 DEF ExecuteNext

\* Every other step, for a runner that is only given the plan p.
LEMMA BothSoundStep ==
  ASSUME NEW p \in Plans, OnlyPlan(p), IInv, IndexInv(p), [Next]_vars
  PROVE  BothSound(p)'
<1> USE NoPlanAssumption DEF IInv, TypeOK, StatesOK, env, IndexInv
<1>1. p # NoPlan
  OBVIOUS
<1>2. CASE BootStart \/ IdleNewPlan
  <2>1. StartsWith(MarkStarted(disk, p)) /\ res' = ResAfterStart(disk, p)
    <3>1. CASE BootStart
      BY <3>1 DEF BootStart, OnlyPlan
    <3>2. CASE IdleNewPlan
      <4>1. Head1 \in Commands /\ Head1.kind = "new_plan"
        BY <3>2 DEF IdleNewPlan, IdleTakes, Head1, EnvOK
      <4> QED BY <3>2, <4>1 DEF IdleNewPlan, OnlyPlan
    <3> QED BY <1>2, <3>1, <3>2
  <2> QED BY <1>1, <2>1, SoundStart
<1>3. CASE BootResume \/ IdleResume
  <2>1. disk.plan = p /\ res' = res
    <3>1. CASE BootResume
      <4>1. disk.plan = p
        BY <3>1 DEF BootResume, BothSound, IndexSound
      <4> QED BY <3>1, <4>1 DEF BootResume, OnlyPlan
    <3>2. CASE IdleResume
      BY <3>2 DEF IdleResume, CanResume, BothSound
    <3> QED BY <1>3, <3>1, <3>2
  <2>2. disk'.plan = disk.plan /\ disk'.idx = disk.idx /\ disk'.slice = disk.slice /\ rst' = disk'
    BY <1>3, IndexFields, SliceFields DEF BootResume, IdleResume, StartsWith, SaveAndShare
  <2>3. IndexSound(p, res', disk')
    BY <2>1, <2>2, SoundCarries DEF BothSound, ResKept, CurrentSlice
  <2> QED BY <2>1, <2>2, <2>3 DEF BothSound
<1>4. CASE BootIdle
  BY <1>4 DEF BootIdle, BothSound
<1>5. ~BootStart /\ ~BootResume /\ ~IdleNewPlan => ResKept
  BY TriedIsKept
<1>6. CASE ExecuteNext /\ ResKept
  BY <1>1, <1>6, ExecuteSound
<1>7. ASSUME pc \notin {"down", "idle"}, ResKept, NEW u, u.plan = p, u.idx = rst.idx,
             u.slice = rst.slice, SaveRunner(u) \/ SaveAndShare(u) \/ SaveContext(u)
      PROVE  BothSound(p)'
  <2>1. IndexSound(p, res', u)
    BY <1>7, SoundCarries DEF BothSound, CurrentSlice
  <2> QED BY <1>7, <2>1, SoundSaved
<1>8. pc \notin {"down", "idle"} =>
         \A q : /\ Moved(rst, q).plan = p /\ Moved(rst, q).idx = rst.idx
                /\ Moved(rst, q).slice = rst.slice
                /\ SetSora(rst, q).plan = p /\ SetSora(rst, q).idx = rst.idx
                /\ SetSora(rst, q).slice = rst.slice
  BY IndexFields, SliceFields DEF BothSound
<1>9. CASE ResKept /\ \E q \in Pipeline : EnterPhase(q)
  BY <1>7, <1>8, <1>9 DEF EnterPhase
<1>10. CASE ResKept /\ DrainCommands
  BY <1>7, <1>8, <1>10, SoundStays
  DEF DrainCommands, Draining, DrainStop, DrainPause, DrainHumanPause, DrainSteer, DrainSkip,
     DrainNewPlan, DrainOther, Drained, mem
<1>11. CASE ResKept /\ (HardenDone \/ LoopArchitectFails \/ ExecuteFailed \/ SliceDone \/ Complete)
  <2>1. HardenDone => cst = rst
    BY DEF HardenDone, Control, References, Together
  <2> QED
    BY <1>7, <1>8, <1>11, <2>1 DEF HardenDone, LoopArchitectFails, Working, ExecuteFailed, SliceDone,
       Complete
<1>12. CASE ResKept /\ ArchitectDone
  <2> DEFINE u == [cst EXCEPT !.slice = CurrentSlice(cst)]
  <2>1. cst = rst /\ SaveContext(u) /\ pc \notin {"down", "idle"}
    BY <1>12 DEF ArchitectDone, Working, Control, References, Together
  <2>2. u.plan = p /\ u.idx = rst.idx /\ u.slice = CurrentSlice(rst)
    BY <2>1 DEF State, BothSound
  <2> HIDE DEF u
  <2>3. CurrentSlice(u) = CurrentSlice(rst)
    BY <2>2, CurrentSliceType, NoSliceAssumption DEF CurrentSlice
  <2>4. IndexSound(p, res', u)
    BY <1>12, <2>1, <2>2, <2>3, SoundCarries DEF BothSound
  <2> QED BY <1>12, <2>1, <2>2, <2>4, SoundSaved
<1>13. CASE ResKept /\ AdoptSlice
  <2> DEFINE u == [rst EXCEPT !.slice = run.nxt, !.idx = 0]
  <2>1. SaveRunner(u) /\ pc \notin {"down", "idle"}
    BY <1>13 DEF AdoptSlice
  <2>2. u.plan = p /\ u.idx = 0
    BY <2>1 DEF State, BothSound
  <2> HIDE DEF u
  <2>3. IndexSound(p, res', u)
    BY <2>2, ZeroIsSound
  <2> QED BY <1>13, <2>1, <2>2, <2>3, SoundSaved
<1>14. CASE ResKept /\ \/ BeginPipeline \/ NothingDue \/ HardenWrites \/ PhaseGivesUp
                       \/ ScoutDone \/ CoachDone \/ LoopShutdown \/ Execute \/ ExecuteSucceeded
                       \/ SliceCoach \/ ClaimSlice \/ SliceLimit
  <2>1. disk' = disk /\ rst' = rst /\ pc \notin {"down", "idle"}
    BY <1>14 DEF BeginPipeline, NothingDue, HardenWrites, PhaseGivesUp, ScoutDone, CoachDone,
       LoopShutdown, Execute, ExecuteRefused, ExecuteStarts, Working, ExecuteSucceeded,
       SliceCoach, ClaimSlice, SliceLimit, mem
  <2> QED BY <1>14, <2>1, SoundStays
<1>15. CASE ResKept /\ (IdleExit \/ IdleTimeout \/ IdleDrops \/ SendCommand \/ Signal \/ Crash)
  <2>1. /\ disk' = disk /\ pc # "down"
        /\ pc' = "down" \/ (rst' = rst /\ pc' = pc)
    BY <1>15 DEF IdleExit, IdleTimeout, IdleDrops, IdleTakes, SendCommand, Signal, Crash, Gone, mem
  <2> QED BY <1>15, <2>1, SoundStays
<1>16. CASE HumanWrites \/ UNCHANGED vars
  <2>1. disk' = disk /\ rst' = rst /\ pc' = pc /\ res' = res
    BY <1>16 DEF HumanWrites, vars, mem
  <2> QED BY <2>1 DEF BothSound
<1>17. CASE ResKept /\ UnexpectedError
  <2>1. CASE disk' = disk
    BY <1>17, <2>1, SoundStays DEF UnexpectedError, Gone
  <2>2. CASE disk' = Moved(rst, "failed")
    <3>1. /\ disk'.plan = rst.plan /\ disk'.idx = rst.idx /\ disk'.slice = rst.slice
          /\ disk'.phase = "failed" /\ pc # "down" /\ pc' = "down"
      BY <1>17, <2>2, IndexFields, SliceFields, MovedFields DEF UnexpectedError, Gone
    <3>2. IndexSound(p, res', disk')
      BY <1>17, <3>1, SoundCarries DEF BothSound, CurrentSlice
    <3> QED BY <3>1, <3>2 DEF BothSound
  <2> QED BY <1>17, <2>1, <2>2 DEF UnexpectedError
<1> QED
  BY <1>2, <1>3, <1>4, <1>5, <1>6, <1>9, <1>10, <1>11, <1>12, <1>13, <1>14, <1>15, <1>16, <1>17
  DEF Next, Boot, Runner, Idle, Environment

\* The loop of run_execute starts at the index and tries what it passes.
LEMMA LoopTriedInside ==
  ASSUME NEW p, IInv, IInv', IndexInv(p), SameSlice, SliceChange, ResKept, ExecuteNext
  PROVE  LoopTried'
<1> USE DEF IInv, TypeOK, StatesOK, LocalsOK, ExLocals, TaskBounds, FilesOK, env
<1>1. InTask
  BY ExecuteIsInTask DEF InTask
<1>2. /\ Tried(res, CurrentSlice(cst), ex.ti) /\ Tried(res, CurrentSlice(cst), ex.start)
      /\ pc \in {"build", "verify", "taskend"} => res[Here] # "none"
      /\ CurrentSlice(cst) \in Slices
  BY <1>1, CurrentSliceType DEF IndexInv, LoopTried
<1>3. InTask' => CurrentSlice(cst') = CurrentSlice(cst)
  BY <1>1, TaskKeepsSlice
<1>4. \A n : Tried(res, CurrentSlice(cst), n) => Tried(res', CurrentSlice(cst), n)
  BY <1>2 DEF Tried, ResKept
<1>5. pc \in {"build", "verify", "taskend"} => res'[Here] # "none"
  BY <1>2, HereType DEF ResKept
<1>6. ASSUME ex'.ti = ex.ti, ex'.start = ex.start,
             pc' \in {"build", "verify", "taskend"} => res'[Here] # "none"
      PROVE  LoopTried'
  BY <1>2, <1>3, <1>4, <1>6 DEF LoopTried, Here
<1>7. ASSUME ex'.ti = ex.ti + 1, ex'.start = ex.start, pc' = "task",
             \A t \in Tasks : t = ex.ti => res'[<<CurrentSlice(cst), t>>] # "none"
      PROVE  LoopTried'
  <2>1. \A t \in Tasks : t < ex.ti + 1 => t < ex.ti \/ t = ex.ti
    BY BoundAssumption DEF Tasks
  <2>2. Tried(res', CurrentSlice(cst), ex.ti + 1)
    BY <1>2, <1>4, <1>7, <2>1 DEF Tried
  <2> QED BY <1>2, <1>3, <1>4, <1>7, <2>2 DEF LoopTried
<1>8. CASE SkipDoneTask
  <2>1. ex'.ti = ex.ti + 1 /\ ex'.start = ex.start /\ pc' = "task" /\ ex.ti < ex.start
    BY <1>8 DEF SkipDoneTask, Passed
  <2> QED BY <1>2, <1>4, <1>7, <2>1 DEF Tried
<1>9. CASE TaskPassed \/ TaskFailed
  <2>1. ex'.ti = ex.ti + 1 /\ ex'.start = ex.start /\ pc' = "task" /\ pc = "taskend"
    BY <1>9 DEF TaskPassed, TaskFailed
  <2> QED BY <1>5, <1>7, <2>1 DEF Here
<1>10. CASE ShutdownAtTask \/ OverrideAtTask \/ OverrideAtAttempt \/ BeginTaskFails
            \/ EscalateToHuman \/ BeginTask \/ TasksEnd
  <2>1. /\ ex'.ti = ex.ti /\ ex'.start = ex.start
        /\ pc' \notin {"build", "verify", "taskend"}
    BY <1>10 DEF ShutdownAtTask, OverrideAtTask, OverrideAtAttempt, OverrideStop, OverridePause,
       BeginTaskFails, EscalateToHuman, BeginTask, TasksEnd, Fail
  <2> QED BY <1>6, <2>1
<1>11. CASE StartBuilder \/ SkipTask
  <2>1. ex'.ti = ex.ti /\ ex'.start = ex.start /\ (Mark("tried") \/ Mark("skipped")) /\ pc = "attempt"
    BY <1>11 DEF StartBuilder, AttemptReady, AttemptStarts, SkipTask
  <2>2. res'[Here] # "none"
    BY <2>1, HereType DEF Mark
  <2> QED BY <1>6, <2>1, <2>2
<1>12. CASE \/ AgentTurnEnd \/ AgentToolResult \/ AgentStuck \/ BuilderFails \/ BuilderDone
            \/ VerifierPass \/ VerifierFail \/ VerifierAnomaly
  <2>1. ex'.ti = ex.ti /\ ex'.start = ex.start /\ pc \in {"build", "verify"}
    BY <1>12 DEF AgentTurnEnd, AgentToolResult, AgentStuck, BuilderFails, BuilderDone,
       VerifierPass, VerifierFail, VerifierAnomaly, AttemptFails
  <2> QED BY <1>5, <1>6, <2>1
<1> QED
  BY <1>8, <1>9, <1>10, <1>11, <1>12 DEF ExecuteNext

\* The steps outside run_execute enter its loop with the index STATE.json has.
LEMMA LoopTriedStep ==
  ASSUME NEW p, IInv, IInv', IndexInv(p), SameSlice, SliceChange, [Next]_vars
  PROVE  LoopTried'
<1> USE DEF mem, env
<1>1. ASSUME ~InTask' PROVE LoopTried'
  BY <1>1 DEF LoopTried
<1>2. ~BootStart /\ ~BootResume /\ ~IdleNewPlan => ResKept
  BY TriedIsKept
<1>3. CASE ExecuteNext /\ ResKept
  BY <1>3, LoopTriedInside
<1>4. CASE Execute
  <2>1. pc' = "execfail" \/ (pc' = "task" /\ ex'.ti = 0 /\ ex'.start = cst.idx)
    BY <1>4 DEF Execute, ExecuteRefused, Fail, ExecuteStarts, ExIdle
  <2>2. \A t \in Tasks : ~(t < 0)
    BY BoundAssumption DEF Tasks
  <2>3. cst = disk /\ cst' = cst /\ res' = res
    BY <1>4 DEF Execute, ExecuteRefused, ExecuteStarts, Working, IInv, Control, References, Together
  <2>4. Tried(res, CurrentSlice(cst), cst.idx)
    BY <2>3 DEF IndexInv, BothSound, IndexSound
  <2> QED BY <1>1, <2>1, <2>2, <2>3, <2>4 DEF LoopTried, Tried, InTask
<1>5. CASE SendCommand \/ HumanWrites \/ Signal \/ UNCHANGED vars
  <2>1. pc' = pc /\ cst' = cst /\ ex' = ex /\ res' = res
    BY <1>5 DEF SendCommand, HumanWrites, Signal, vars
  <2> QED BY <2>1 DEF IndexInv, LoopTried, InTask, Here
<1>6. ExecuteNext => ResKept
  BY ExecuteIsInTask, TriedIsKept DEF BootStart, BootResume, IdleNewPlan, IdleTakes, InTask
<1>7. CASE ~(ExecuteNext \/ Execute \/ SendCommand \/ HumanWrites \/ Signal \/ UNCHANGED vars)
  BY <1>1, <1>7, StaysOutside
<1> QED BY <1>3, <1>4, <1>5, <1>6, <1>7

\* The invariant of the index.
LEMMA IndexInvariance ==
  ASSUME NEW p \in Plans, OnlyPlan(p) PROVE Spec => [](IndexInv(p) /\ SameSlice)
<1> DEFINE Inv == IndexInv(p) /\ SameSlice
<1>1. Init => Inv
  BY ZeroIsSound DEF Init, Fresh, IndexInv, BothSound, LoopTried, SameSlice, InTask
<1>2. IInv /\ IInv' /\ Inv /\ [Next]_vars => Inv'
  <2> SUFFICES ASSUME IInv, IInv', Inv, [Next]_vars PROVE Inv'
    OBVIOUS
  <2>1. SameSlice' /\ SliceChange
    BY SliceFieldStep
  <2>2. BothSound(p)'
    BY BothSoundStep
  <2>3. LoopTried'
    BY <2>1, LoopTriedStep
  <2> QED BY <2>1, <2>2, <2>3 DEF IndexInv
<1>3. Spec => []Inv
  <2> HIDE DEF Inv
  <2> QED BY <1>1, <1>2, Invariance, PTL DEF Spec
<1> QED BY <1>3

\* A runner that is only ever given one plan skips only work that was done or
\* tried, for any number of slices, tasks, crashes and restarts.
THEOREM IndexStaysBehind ==
  ASSUME NEW p \in Plans, OnlyPlan(p) PROVE Spec => []IndexBehindWork
<1> DEFINE Inv == IndexInv(p) /\ SameSlice
<1>1. Inv => IndexBehindWork
  BY DEF IndexInv, BothSound, IndexSound, Tried, IndexBehindWork
<1>2. Spec => []Inv
  BY IndexInvariance
<1> HIDE DEF Inv
<1> QED BY <1>1, <1>2, PTL

-----------------------------------------------------------------------------
(***************************************************************************)
(* The plan behind the work.  PLAN.md, ROADMAP.md and the slice plans      *)
(* outlive a change of plan; they are those of the run's plan for a runner *)
(* that is started and sent only one.                                      *)
(***************************************************************************)

FilesOf(p) ==
    /\ fs.roadmap \in {p, NoPlan} /\ fs.hardened \in {p, NoPlan}
    /\ \A s \in Slices : fs.plans[s] \in {p, NoPlan}
PlanInv(p) ==
    /\ FilesOf(p)
    /\ pc # "down" => planArg = p
    /\ InTask => fs.plans[CurrentSlice(cst)] # NoPlan

\* A runner that is given one plan has no other.
LEMMA PlanArgStep ==
  ASSUME NEW p \in Plans, OnlyPlan(p), NoPlan \notin CliPlans, IInv, PlanInv(p), [Next]_vars
  PROVE  pc' # "down" => planArg' = p
<1> USE DEF env, PlanInv
<1>1. CASE Boot
  BY <1>1 DEF Boot, BootIdle, BootStart, BootResume, OnlyPlan
<1>2. CASE IdleNewPlan
  <2>1. Head1 \in Commands /\ Head1.kind = "new_plan"
    BY <1>2 DEF IdleNewPlan, IdleTakes, Head1, IInv, TypeOK, EnvOK
  <2> QED BY <1>2, <2>1 DEF IdleNewPlan, OnlyPlan
<1>3. CASE IdleExit \/ IdleTimeout \/ IdleResume \/ IdleDrops
  BY <1>3 DEF IdleExit, IdleTimeout, IdleResume, IdleDrops, IdleTakes, Gone
<1>4. CASE Environment \/ UNCHANGED vars
  BY <1>4 DEF Environment, SendCommand, HumanWrites, Signal, Crash, UnexpectedError, Gone, vars
<1>5. CASE \/ BeginPipeline \/ (\E q \in Pipeline : EnterPhase(q)) \/ NothingDue \/ HardenWrites
           \/ HardenDone \/ PhaseGivesUp \/ ScoutDone \/ CoachDone \/ LoopShutdown \/ ArchitectDone
           \/ LoopArchitectFails \/ Execute \/ ExecuteFailed \/ ExecuteSucceeded \/ SliceDone
           \/ SliceCoach \/ ClaimSlice \/ AdoptSlice \/ Complete \/ SliceLimit
  BY <1>5 DEF BeginPipeline, EnterPhase, NothingDue, HardenWrites, HardenDone, PhaseGivesUp,
     ScoutDone, CoachDone, LoopShutdown, ArchitectDone, LoopArchitectFails, Working, Execute,
     ExecuteRefused, ExecuteStarts, ExecuteFailed, ExecuteSucceeded, SliceDone, SliceCoach,
     ClaimSlice, AdoptSlice, Complete, SliceLimit
<1>6. CASE DrainCommands
  BY <1>6 DEF DrainCommands, Draining, DrainStop, DrainPause, DrainHumanPause, DrainSteer,
     DrainSkip, DrainNewPlan, DrainOther, Drained
<1>7. CASE ExecuteNext
  <2>1. planArg' = planArg
    BY <1>7 DEF ExecuteNext, SkipDoneTask, ShutdownAtTask, OverrideAtTask, BeginTask,
       BeginTaskFails, TasksEnd, SkipTask, OverrideAtAttempt, EscalateToHuman, StartBuilder,
       AgentTurnEnd, AgentToolResult, AgentStuck, BuilderFails, BuilderDone, VerifierPass,
       VerifierFail, VerifierAnomaly, TaskPassed, TaskFailed
  <2> QED BY <1>7, <2>1, ExecuteIsInTask DEF InTask
<1> QED
  BY <1>1, <1>2, <1>3, <1>4, <1>5, <1>6, <1>7 DEF Next, Runner, Idle

\* A start copies the plan to ROADMAP.md, the reviewer turns that of the state
\* into PLAN.md, and the architect the one or the other into a slice plan.
LEMMA PlanFilesStep ==
  ASSUME NEW p \in Plans, IInv, BothSound(p), PlanInv(p), [Next]_vars PROVE FilesOf(p)'
<1> USE DEF IInv, TypeOK, FilesOK, PlanInv, FilesOf, mem, env
<1>1. fs \in Files
  OBVIOUS
<1>2. ASSUME fs'.roadmap = fs.roadmap, fs'.hardened = fs.hardened, fs'.plans = fs.plans
      PROVE  FilesOf(p)'
  BY <1>2
<1>3. CASE BeginPipeline
  BY <1>1, <1>3 DEF BeginPipeline, Files
<1>4. CASE HardenWrites
  <2>1. cst.plan = p
    BY <1>4 DEF HardenWrites, Working, Control, References, Together, BothSound
  <2>2. HardenSource \in {p, NoPlan}
    BY <2>1 DEF HardenSource
  <2>3. fs' = [fs EXCEPT !.hardened = HardenSource]
    BY <1>4 DEF HardenWrites
  <2> QED BY <1>1, <2>2, <2>3 DEF Files
<1>5. CASE ArchitectDone
  <2> DEFINE s == CurrentSlice(cst)
  <2>1. s \in Slices
    BY CurrentSliceType DEF StatesOK
  <2>2. PICK q \in ArchitectPlans(fs, s) : fs' = [fs EXCEPT !.plans[s] = q]
    BY <1>5 DEF ArchitectDone
  <2> HIDE DEF s
  <2>3. q \in {p, NoPlan}
    BY <2>1, <2>2 DEF ArchitectPlans, PlanSource
  <2>4. \A u \in Slices : fs'.plans[u] \in {p, NoPlan}
    BY <1>1, <2>1, <2>2, <2>3 DEF Files
  <2> QED BY <1>1, <2>2, <2>4 DEF Files
<1>6. CASE CoachDone \/ SliceCoach \/ VerifierAnomaly
  <2>1. CoachRuns(fs, fs')
    BY <1>6 DEF CoachDone, SliceCoach, VerifierAnomaly
  <2> QED BY <1>1, <1>2, <2>1 DEF CoachRuns, Files
<1>7. CASE ClaimSlice
  <2>1. PICK s \in QueueSlices : fs' = [fs EXCEPT !.queue[s] = "claimed"]
    BY <1>7 DEF ClaimSlice
  <2> QED BY <1>1, <1>2, <2>1 DEF Files
<1>8. CASE Boot \/ Idle \/ UNCHANGED vars
  BY <1>2, <1>8 DEF Boot, BootIdle, BootStart, BootResume, Idle, IdleExit, IdleTimeout,
     IdleNewPlan, IdleResume, IdleDrops, vars
<1>9. CASE Environment
  BY <1>1, <1>2, <1>9 DEF Environment, SendCommand, HumanWrites, Signal, Crash,
     UnexpectedError, Files
<1>10. CASE DrainCommands
  BY <1>1, <1>2, <1>10 DEF DrainCommands, DrainStop, DrainPause, DrainHumanPause, DrainSteer,
     DrainSkip, DrainNewPlan, DrainOther, Drained, Files
<1>11. CASE \/ (\E q \in Pipeline : EnterPhase(q)) \/ NothingDue \/ HardenDone \/ PhaseGivesUp
            \/ ScoutDone \/ LoopShutdown \/ LoopArchitectFails \/ Execute \/ ExecuteFailed
            \/ ExecuteSucceeded \/ SliceDone \/ AdoptSlice \/ Complete \/ SliceLimit
  BY <1>2, <1>11 DEF EnterPhase, NothingDue, HardenDone, PhaseGivesUp, ScoutDone, LoopShutdown,
     LoopArchitectFails, Execute, ExecuteRefused, ExecuteStarts, ExecuteFailed, ExecuteSucceeded,
     SliceDone, AdoptSlice, Complete, SliceLimit
<1>12. CASE \/ SkipDoneTask \/ ShutdownAtTask \/ TasksEnd \/ EscalateToHuman \/ StartBuilder
            \/ AgentTurnEnd \/ AgentToolResult \/ AgentStuck \/ BuilderFails
            \/ VerifierPass \/ VerifierFail \/ TaskPassed \/ TaskFailed
  BY <1>2, <1>12 DEF SkipDoneTask, ShutdownAtTask, TasksEnd, EscalateToHuman, StartBuilder,
     AgentTurnEnd, AgentToolResult, AgentStuck, BuilderFails, VerifierPass, VerifierFail,
     TaskPassed, TaskFailed
<1>13. CASE \/ OverrideAtTask \/ BeginTask \/ BeginTaskFails \/ SkipTask \/ OverrideAtAttempt
            \/ BuilderDone
  BY <1>1, <1>2, <1>13 DEF OverrideAtTask, OverrideStop, OverridePause, BeginTask,
     BeginTaskFails, SkipTask, OverrideAtAttempt, BuilderDone, Files
<1> QED
  BY <1>3, <1>4, <1>5, <1>6, <1>7, <1>8, <1>9, <1>10, <1>11, <1>12, <1>13
  DEF Next, Runner, ExecuteNext

\* run_execute refuses a slice without a plan, and nobody removes one.
LEMMA TaskHasPlan ==
  ASSUME IInv, IInv', SameSlice, [Next]_vars, InTask',
         InTask => fs.plans[CurrentSlice(cst)] # NoPlan
  PROVE  (fs.plans[CurrentSlice(cst)] # NoPlan)'
<1>1. CASE Execute
  BY <1>1 DEF Execute, ExecuteRefused, ExecuteStarts, Fail, InTask, mem
<1>2. CASE InTask /\ ~Execute
  <2>1. FilesKept
    BY <1>2, FilesAreKept DEF ArchitectDone, Working, InTask
  <2>2. CurrentSlice(cst') = CurrentSlice(cst)
    BY <1>2, SliceFieldStep, TaskKeepsSlice
  <2> QED BY <1>2, <2>1, <2>2 DEF FilesKept
<1>3. InTask \/ Execute
  <2>1. ASSUME SendCommand \/ HumanWrites \/ Signal \/ UNCHANGED vars PROVE pc' = pc
    BY <2>1 DEF SendCommand, HumanWrites, Signal, vars
  <2> QED BY <2>1, ExecuteIsInTask, StaysOutside DEF InTask
<1> QED BY <1>1, <1>2, <1>3

\* What a runner builds that is started with one plan and sent no other is that
\* plan, after any failures and restarts: what keeps ExecutesCurrentPlan from
\* holding is the change of plan.
THEOREM OnePlanIsExecuted ==
  ASSUME NEW p \in Plans, OnlyPlan(p), NoPlan \notin CliPlans
  PROVE  Spec => []ExecutesCurrentPlan
<1> DEFINE Inv == IndexInv(p) /\ SameSlice
           PInv == PlanInv(p)
<1>1. Init => PInv
  BY DEF Init, PlanInv, FilesOf, InTask
<1>2. IInv /\ IInv' /\ Inv /\ PInv /\ [Next]_vars => PInv'
  <2> SUFFICES ASSUME IInv, IInv', Inv, PInv, [Next]_vars PROVE PInv'
    OBVIOUS
  <2>1. FilesOf(p)'
    BY PlanFilesStep DEF IndexInv
  <2>2. pc' # "down" => planArg' = p
    BY PlanArgStep
  <2>3. InTask' => (fs.plans[CurrentSlice(cst)] # NoPlan)'
    BY TaskHasPlan DEF PlanInv
  <2> QED BY <2>1, <2>2, <2>3 DEF PlanInv
<1>3. IInv /\ PInv => ExecutesCurrentPlan
  BY CurrentSliceType DEF IInv, TypeOK, StatesOK, PlanInv, FilesOf, InTask, ExecutesCurrentPlan
<1>4. Spec => []Inv
  BY IndexInvariance
<1> HIDE DEF Inv, PInv
<1> QED BY <1>1, <1>2, <1>3, <1>4, Invariance, PTL DEF Spec

-----------------------------------------------------------------------------
(***************************************************************************)
(* Coming to rest.  Four numbers bound what a pipeline has before it:      *)
(* slices it may still claim, places before the end of this one, commands  *)
(* to drain or tasks to do at this place, and turns of the task at hand.   *)
(* Read in this order they fall with every step of the runner.             *)
(***************************************************************************)

TaskPlaces == {"task", "attempt", "build", "verify", "taskend"}

SlicesLeft == IF pc = "start" THEN MaxSlices + 1 ELSE MaxSlices - run.extra

\* Four places for each phase not yet left, before the slice is executed.
PhasesLeft == 4 * (7 - Rank[run.at])

PlacesLeft ==
    IF pc = "enter" THEN PhasesLeft + 3
    ELSE IF pc = "drain" THEN PhasesLeft + 2
    ELSE IF pc = "work" THEN PhasesLeft + 1
    ELSE IF pc = "hardened" THEN PhasesLeft
    ELSE IF pc \in TaskPlaces THEN 6
    ELSE IF pc \in {"execok", "execfail"} THEN 5
    ELSE IF pc = "slice_done" THEN 4
    ELSE IF pc = "slice_coach" THEN 3
    ELSE IF pc = "claim" THEN 2
    ELSE IF pc = "adopt" THEN 1
    ELSE 0

ItemsLeft ==
    IF pc = "drain" THEN Len(cmdq)
    ELSE IF pc \in TaskPlaces THEN NumTasks - ex.ti
    ELSE 0

\* Three turns for an attempt: its start, the builder, the verifier.
TurnsLeft ==
    IF pc = "task" THEN 3 * MaxCycles + 5
    ELSE IF pc = "attempt" THEN 3 * (MaxCycles - ex.att) + 4
    ELSE IF pc = "build" THEN 3 * (MaxCycles - ex.att) + 3
    ELSE IF pc = "verify" THEN 3 * (MaxCycles - ex.att) + 2
    ELSE 0

\* The limits of the configuration hold where the code counts.
LimitsHold ==
    /\ run.extra <= MaxSlices
    /\ pc \in {"slice_coach", "claim", "adopt"} => run.extra < MaxSlices - 1
    /\ pc \in {"attempt", "build", "verify"} => ex.att <= MaxCycles
    /\ pc # "legacy"

Falls ==
    \/ SlicesLeft' < SlicesLeft
    \/ /\ SlicesLeft' = SlicesLeft
       /\ \/ PlacesLeft' < PlacesLeft
          \/ /\ PlacesLeft' = PlacesLeft
             /\ \/ ItemsLeft' < ItemsLeft
                \/ ItemsLeft' = ItemsLeft /\ TurnsLeft' < TurnsLeft

\* The positions of the phases.
LEMMA RankOfPhase ==
  /\ \A p \in Pipeline : Rank[p] \in 1 .. 5
  /\ Rank["hardening"] = 1 /\ Rank["scout"] = 2 /\ Rank["coach"] = 3
  /\ Rank["architect"] = 4 /\ Rank["execute"] = 5
  BY DEF Rank, Pipeline

\* run_execute leaves the runner's locals alone.
LEMMA ExecuteKeepsRun ==
  ASSUME ExecuteNext PROVE run' = run
  BY DEF ExecuteNext, SkipDoneTask, ShutdownAtTask, OverrideAtTask, BeginTask, BeginTaskFails,
     TasksEnd, SkipTask, OverrideAtAttempt, EscalateToHuman, StartBuilder, AgentTurnEnd,
     AgentToolResult, AgentStuck, BuilderFails, BuilderDone, VerifierPass, VerifierFail,
     VerifierAnomaly, TaskPassed, TaskFailed

\* The limits of the configuration are kept.
LEMMA LimitsStep ==
  ASSUME IInv, LimitsHold, [Next]_vars PROVE LimitsHold'
<1> USE BoundAssumption DEF LimitsHold
<1>1. run \in RunLocals /\ run.extra \in Nat /\ ex \in ExLocals /\ ex.att \in Nat
  BY DEF IInv, TypeOK, PlaceOK, LocalsOK, RunLocals, ExLocals
<1>2. CASE Boot \/ Idle
  <2>1. run' = run \/ (run' = NoRun /\ pc' = "down")
    BY <1>2 DEF Boot, BootIdle, BootStart, BootResume, Idle, IdleExit, IdleTimeout, IdleNewPlan,
       IdleResume, IdleDrops, Gone
  <2>2. pc' \in {"idle", "start", "down"}
    BY <1>2 DEF Boot, BootIdle, BootStart, BootResume, StartsWith, Idle, IdleExit, IdleTimeout,
       IdleNewPlan, IdleResume, IdleDrops, IdleTakes, Gone
  <2> QED BY <1>1, <2>1, <2>2 DEF NoRun
<1>3. CASE Environment \/ UNCHANGED vars
  <2>1. UNCHANGED <<pc, run, ex>> \/ (run' = NoRun /\ pc' = "down")
    BY <1>3 DEF Environment, SendCommand, HumanWrites, Signal, Crash, UnexpectedError, Gone, vars
  <2> QED BY <1>1, <2>1 DEF NoRun
<1>4. CASE BeginPipeline
  BY <1>4 DEF BeginPipeline, NoRun
<1>5. ASSUME NEW p \in Pipeline, EnterPhase(p) PROVE LimitsHold'
  <2>1. run'.extra = run.extra /\ pc' = "drain"
    BY <1>1, <1>5 DEF EnterPhase, RunLocals
  <2> QED BY <1>1, <2>1
<1>6. CASE \/ NothingDue \/ DrainCommands \/ HardenWrites \/ PhaseGivesUp \/ LoopShutdown
           \/ LoopArchitectFails \/ Execute \/ ExecuteFailed \/ ExecuteSucceeded
           \/ Complete \/ SliceLimit
  <2>1. run' = run /\ pc' \in {"slice_done", "idle", "drain", "work", "hardened", "task", "execfail"}
    BY <1>6 DEF NothingDue, DrainCommands, DrainStop, DrainPause, DrainHumanPause, DrainSteer,
       DrainSkip, DrainNewPlan, DrainOther, Drained, Draining, HardenWrites, PhaseGivesUp,
       LoopShutdown, LoopArchitectFails, Execute, ExecuteRefused, ExecuteStarts, Fail,
       ExecuteFailed, ExecuteSucceeded, Complete, SliceLimit
  <2> QED BY <1>1, <2>1
<1>7. CASE HardenDone \/ ScoutDone \/ CoachDone \/ ArchitectDone
  <2>1. run'.extra = run.extra /\ pc' = "enter"
    BY <1>1, <1>7 DEF HardenDone, ScoutDone, CoachDone, ArchitectDone, RunLocals
  <2> QED BY <1>1, <2>1
<1>8. CASE SliceDone \/ SliceCoach
  <2>1. run' = run /\ pc' \in {"slice_coach", "claim", "idle"}
    BY <1>8 DEF SliceDone, SliceCoach
  <2>2. run.extra < MaxSlices - 1
    BY <1>8 DEF SliceDone, SliceCoach
  <2> QED BY <1>1, <2>1, <2>2
<1>9. CASE ClaimSlice
  <2>1. run'.extra = run.extra /\ pc' = "adopt" /\ pc = "claim"
    BY <1>1, <1>9 DEF ClaimSlice, RunLocals
  <2> QED BY <1>1, <2>1
<1>10. CASE AdoptSlice
  <2>1. run'.extra = run.extra + 1 /\ pc' = "enter" /\ pc = "adopt"
    BY <1>10 DEF AdoptSlice
  <2> QED BY <1>1, <2>1
<1>11. CASE ExecuteNext
  <2>1. run' = run /\ pc' \in TaskPlaces \union {"execok", "execfail"}
    BY <1>11, ExecuteKeepsRun, ExecutePlaces DEF TaskPlaces, InTask
  <2>2. pc' \in {"attempt", "build", "verify"} => ex'.att <= MaxCycles
    <3>1. CASE BeginTask
      <4>1. ex'.att = 0
        BY <1>1, <3>1 DEF BeginTask, ExLocals
      <4> QED BY <4>1
    <3>2. CASE AgentStuck \/ BuilderFails \/ VerifierFail \/ VerifierAnomaly
      <4>1. ex'.att = ex.att + 1 /\ (pc' = "attempt" => ex.att < MaxCycles)
            /\ pc' \in {"attempt", "taskend"}
        BY <1>1, <3>2 DEF AgentStuck, BuilderFails, VerifierFail, VerifierAnomaly, AttemptFails,
           ExLocals
      <4> QED BY <1>1, <4>1
    <3>3. CASE StartBuilder \/ AgentTurnEnd \/ AgentToolResult
      BY <3>3 DEF StartBuilder, AttemptReady, AttemptStarts, AgentTurnEnd, AgentToolResult
    <3>4. CASE BuilderDone
      BY <3>4 DEF BuilderDone
    <3>5. CASE \/ SkipDoneTask \/ ShutdownAtTask \/ OverrideAtTask \/ BeginTaskFails \/ TasksEnd
               \/ SkipTask \/ OverrideAtAttempt \/ EscalateToHuman
               \/ VerifierPass \/ TaskPassed \/ TaskFailed
      BY <3>5 DEF SkipDoneTask, ShutdownAtTask, OverrideAtTask, BeginTaskFails, TasksEnd, SkipTask,
         OverrideAtAttempt, OverrideStop, OverridePause, EscalateToHuman, VerifierPass, TaskPassed,
         TaskFailed, Fail
    <3> QED BY <1>11, <3>1, <3>2, <3>3, <3>4, <3>5 DEF ExecuteNext
  <2> QED BY <1>1, <2>1, <2>2 DEF TaskPlaces
<1> QED
  BY <1>2, <1>3, <1>4, <1>5, <1>6, <1>7, <1>8, <1>9, <1>10, <1>11 DEF Next, Runner

\* What the measure is made of.
LEMMA MeasureTypes ==
  ASSUME IInv, LimitsHold
  PROVE  SlicesLeft \in Nat /\ PlacesLeft \in Nat /\ ItemsLeft \in Nat /\ TurnsLeft \in Nat
<1> USE BoundAssumption
<1>1. run.extra \in Nat /\ run.at \in Pipeline /\ ex.ti \in Nat /\ ex.att \in Nat
  BY DEF IInv, TypeOK, PlaceOK, LocalsOK, RunLocals, ExLocals
<1>2. SlicesLeft \in Nat
  BY <1>1 DEF LimitsHold, SlicesLeft
<1>3. PlacesLeft \in Nat
  <2>1. PhasesLeft \in Nat
    BY <1>1, RankOfPhase DEF PhasesLeft
  <2> QED BY <2>1 DEF PlacesLeft
<1>4. ItemsLeft \in Nat
  <2>1. Len(cmdq) \in Nat
    BY LenProperties DEF IInv, TypeOK, EnvOK
  <2>2. ex.ti <= NumTasks
    BY DEF IInv, TaskBounds
  <2> QED BY <1>1, <2>1, <2>2 DEF ItemsLeft
<1>5. TurnsLeft \in Nat
  BY <1>1 DEF LimitsHold, TurnsLeft
<1> QED BY <1>2, <1>3, <1>4, <1>5

\* Steps that claim no slice and begin no pipeline.
LEMMA SlicesStay ==
  ASSUME run'.extra = run.extra, pc # "start", pc' # "start"
  PROVE  SlicesLeft' = SlicesLeft
  BY DEF SlicesLeft

\* Before the slice is executed, each step leaves a place behind or drains a
\* command.
LEMMA PhasesFall ==
  ASSUME IInv, LimitsHold,
         \/ BeginPipeline \/ (\E p \in Pipeline : EnterPhase(p)) \/ NothingDue \/ DrainCommands
         \/ HardenWrites \/ HardenDone \/ PhaseGivesUp \/ ScoutDone \/ CoachDone
         \/ LoopShutdown \/ ArchitectDone \/ LoopArchitectFails \/ Execute
  PROVE  Falls
<1> USE BoundAssumption DEF TaskPlaces
<1>1. run \in RunLocals /\ run.extra \in Nat /\ run.at \in Pipeline
  BY DEF IInv, TypeOK, PlaceOK, RunLocals
<1>2. PhasesLeft \in Nat /\ PhasesLeft >= 8
  BY <1>1, RankOfPhase DEF PhasesLeft
<1>3. CASE BeginPipeline
  <2>1. SlicesLeft = MaxSlices + 1 /\ SlicesLeft' = MaxSlices
    BY <1>3 DEF BeginPipeline, NoRun, SlicesLeft
  <2> QED BY <2>1 DEF Falls
<1>4. ASSUME NEW p \in Pipeline, EnterPhase(p) PROVE Falls
  <2>1. run'.extra = run.extra /\ run'.at = p /\ pc = "enter" /\ pc' = "drain"
    BY <1>1, <1>4 DEF EnterPhase, RunLocals
  <2>2. Rank[run.at] <= Rank[p]
    BY <1>1, <1>4, RankOfPhase DEF EnterPhase, NextDue, Due
  <2>3. PhasesLeft' <= PhasesLeft /\ PhasesLeft' \in Nat
    BY <1>1, <2>1, <2>2, RankOfPhase DEF PhasesLeft
  <2>4. PlacesLeft = PhasesLeft + 3 /\ PlacesLeft' = PhasesLeft' + 2
    BY <2>1 DEF PlacesLeft
  <2>5. \A a, b \in Nat : b <= a => b + 2 < a + 3
    OBVIOUS
  <2>6. PlacesLeft' < PlacesLeft
    BY <1>2, <2>3, <2>4, <2>5, Zenon
  <2> QED BY <2>1, <2>6, SlicesStay DEF Falls
<1>5. CASE NothingDue \/ HardenWrites \/ PhaseGivesUp \/ LoopShutdown \/ LoopArchitectFails \/ Execute
  <2>1. /\ run' = run /\ pc \in {"enter", "work"}
        /\ pc' \in {"slice_done", "hardened", "idle", "task", "execfail"}
        /\ pc' = "hardened" => pc = "work"
    BY <1>5 DEF NothingDue, HardenWrites, PhaseGivesUp, LoopShutdown, LoopArchitectFails, Execute,
       ExecuteRefused, ExecuteStarts, Fail, Working
  <2>2. PhasesLeft' = PhasesLeft
    BY <2>1 DEF PhasesLeft
  <2>3. PlacesLeft' < PlacesLeft
    BY <1>2, <2>1, <2>2 DEF PlacesLeft
  <2> QED BY <2>1, <2>3, SlicesStay DEF Falls
<1>6. CASE HardenDone \/ ScoutDone \/ CoachDone \/ ArchitectDone
  <2>1. run'.extra = run.extra /\ pc' = "enter" /\ pc \in {"hardened", "work"}
    BY <1>1, <1>6 DEF HardenDone, ScoutDone, CoachDone, ArchitectDone, RunLocals, Working
  <2>2. Rank[run'.at] = Rank[run.at] + 1
    <3>1. CASE HardenDone
      <4>1. run.at = "hardening" /\ run'.at = "scout"
        BY <1>1, <3>1 DEF HardenDone, RunLocals, IInv, Control, Progress
      <4> QED BY <4>1, RankOfPhase
    <3>2. CASE ScoutDone \/ CoachDone \/ ArchitectDone
      <4>1. <<run.at, run'.at>> \in {<<"scout", "coach">>, <<"coach", "architect">>,
                                      <<"architect", "execute">>}
        BY <1>1, <3>2 DEF ScoutDone, CoachDone, ArchitectDone, Working, RunLocals
      <4> QED BY <4>1, RankOfPhase
    <3> QED BY <1>6, <3>1, <3>2
  <2>3. PhasesLeft' = PhasesLeft - 4
    BY <1>1, <2>2, RankOfPhase DEF PhasesLeft
  <2>4. PlacesLeft' < PlacesLeft
    BY <1>2, <2>1, <2>3 DEF PlacesLeft
  <2> QED BY <2>1, <2>4, SlicesStay DEF Falls
<1>7. CASE DrainCommands
  <2>1. run' = run /\ pc = "drain" /\ pc' \in {"idle", "work", "drain"}
    BY <1>7 DEF DrainCommands, DrainStop, DrainPause, DrainHumanPause, DrainSteer, DrainSkip,
       DrainNewPlan, DrainOther, Drained, Draining
  <2>2. PhasesLeft' = PhasesLeft
    BY <2>1 DEF PhasesLeft
  <2>3. CASE pc' = "drain"
    <3>1. cmdq # <<>> /\ cmdq' = Tail(cmdq)
      BY <1>7, <2>3 DEF DrainCommands, DrainStop, DrainPause, DrainHumanPause, DrainSteer, DrainSkip,
         DrainNewPlan, DrainOther, Drained, Draining
    <3>2. Len(cmdq') < Len(cmdq)
      BY <3>1, HeadTailProperties, LenProperties, EmptySeq DEF IInv, TypeOK, EnvOK
    <3>3. PlacesLeft' = PlacesLeft /\ ItemsLeft' < ItemsLeft
      BY <2>1, <2>2, <2>3, <3>2 DEF PlacesLeft, ItemsLeft
    <3> QED BY <2>1, <2>3, <3>3, SlicesStay DEF Falls
  <2>4. CASE pc' # "drain"
    <3>1. PlacesLeft' < PlacesLeft
      BY <1>2, <2>1, <2>2, <2>4 DEF PlacesLeft
    <3> QED BY <2>1, <3>1, SlicesStay DEF Falls
  <2> QED BY <2>3, <2>4
<1> QED BY <1>3, <1>4, <1>5, <1>6, <1>7

\* After it, each step leaves a place behind, or claims a slice.
LEMMA LoopFalls ==
  ASSUME IInv, LimitsHold,
         \/ ExecuteFailed \/ ExecuteSucceeded \/ SliceDone \/ SliceCoach \/ ClaimSlice
         \/ AdoptSlice \/ Complete \/ SliceLimit
  PROVE  Falls
<1> USE BoundAssumption DEF TaskPlaces
<1>1. run \in RunLocals /\ run.extra \in Nat
  BY DEF IInv, TypeOK, PlaceOK, RunLocals
<1>2. CASE AdoptSlice
  <2>1. run'.extra = run.extra + 1 /\ pc = "adopt" /\ pc' = "enter"
    BY <1>2 DEF AdoptSlice
  <2>2. SlicesLeft' < SlicesLeft
    BY <1>1, <2>1 DEF SlicesLeft
  <2> QED BY <2>2 DEF Falls
<1>3. CASE \/ ExecuteFailed \/ ExecuteSucceeded \/ SliceDone \/ SliceCoach \/ ClaimSlice
           \/ Complete \/ SliceLimit
  <2>1. run'.extra = run.extra
    BY <1>1, <1>3 DEF ExecuteFailed, ExecuteSucceeded, SliceDone, SliceCoach, ClaimSlice,
       Complete, SliceLimit, RunLocals
  <2>2. <<pc, pc'>> \in {<<"execfail", "idle">>, <<"execok", "slice_done">>,
           <<"slice_done", "slice_coach">>, <<"slice_done", "claim">>, <<"slice_coach", "idle">>,
           <<"slice_coach", "claim">>, <<"claim", "adopt">>, <<"claim", "idle">>,
           <<"slice_done", "idle">>}
    BY <1>3 DEF ExecuteFailed, ExecuteSucceeded, SliceDone, SliceCoach, ClaimSlice,
       Complete, SliceLimit
  <2>3. PlacesLeft' < PlacesLeft
    BY <2>2 DEF PlacesLeft
  <2>4. pc # "start" /\ pc' # "start"
    BY <2>2
  <2> QED BY <2>1, <2>3, <2>4, SlicesStay DEF Falls
<1> QED BY <1>2, <1>3

AgentSays == AgentTurnEnd \/ AgentToolResult

\* Inside run_execute a task is left behind, or a turn of it.
LEMMA TasksFall ==
  ASSUME IInv, LimitsHold, ExecuteNext, ~AgentSays PROVE Falls
<1> USE BoundAssumption
<1>1. ex \in ExLocals /\ ex.ti \in Nat /\ ex.att \in Nat
  BY DEF IInv, TypeOK, LocalsOK, ExLocals
<1>2. run' = run
  BY ExecuteKeepsRun
<1>3. ASSUME pc \in TaskPlaces, pc' \in {"execok", "execfail"} PROVE Falls
  <2>1. PlacesLeft' < PlacesLeft
    BY <1>3 DEF PlacesLeft, TaskPlaces
  <2>2. pc # "start" /\ pc' # "start"
    BY <1>3 DEF TaskPlaces
  <2> QED BY <1>2, <2>1, <2>2, SlicesStay DEF Falls
<1>4. ASSUME pc \in TaskPlaces, pc' \in TaskPlaces,
             \/ ex'.ti = ex.ti + 1
             \/ ex'.ti = ex.ti /\ TurnsLeft' < TurnsLeft
      PROVE  Falls
  <2>1. PlacesLeft' = PlacesLeft
    BY <1>4 DEF PlacesLeft, TaskPlaces
  <2>2. ItemsLeft = NumTasks - ex.ti /\ ItemsLeft' = NumTasks - ex'.ti
    BY <1>4 DEF ItemsLeft, TaskPlaces
  <2>3. ItemsLeft' < ItemsLeft \/ (ItemsLeft' = ItemsLeft /\ TurnsLeft' < TurnsLeft)
    BY <1>1, <1>4, <2>2
  <2>4. pc # "start" /\ pc' # "start"
    BY <1>4 DEF TaskPlaces
  <2> QED BY <1>2, <2>1, <2>3, <2>4, SlicesStay DEF Falls
<1>5. CASE \/ ShutdownAtTask \/ OverrideAtTask \/ BeginTaskFails \/ TasksEnd
           \/ OverrideAtAttempt \/ EscalateToHuman
  <2>1. pc \in TaskPlaces /\ pc' \in {"execok", "execfail"}
    BY <1>5 DEF ShutdownAtTask, OverrideAtTask, BeginTaskFails, TaskReady, TasksEnd,
       OverrideAtAttempt, OverrideStop, OverridePause, EscalateToHuman, AttemptReady,
       AttemptStarts, Fail, TaskPlaces
  <2> QED BY <1>3, <2>1
<1>6. CASE SkipDoneTask \/ TaskPassed \/ TaskFailed
  <2>1. pc \in TaskPlaces /\ pc' \in TaskPlaces /\ ex'.ti = ex.ti + 1
    BY <1>1, <1>6 DEF SkipDoneTask, TaskPassed, TaskFailed, TaskPlaces, ExLocals
  <2> QED BY <1>4, <2>1
<1>7. CASE BeginTask
  <2>1. pc = "task" /\ pc' = "attempt" /\ ex'.ti = ex.ti /\ ex'.att = 0
    BY <1>1, <1>7 DEF BeginTask, TaskReady, ExLocals
  <2> QED BY <1>4, <2>1 DEF TurnsLeft, TaskPlaces
<1>8. CASE SkipTask \/ VerifierPass
  <2>1. pc \in {"attempt", "verify"} /\ pc' = "taskend" /\ ex'.ti = ex.ti
    BY <1>1, <1>8 DEF SkipTask, AttemptStarts, VerifierPass, ExLocals
  <2> QED BY <1>1, <1>4, <2>1 DEF TurnsLeft, TaskPlaces, LimitsHold
<1>9. CASE StartBuilder
  <2>1. pc = "attempt" /\ pc' = "build" /\ ex' = ex
    BY <1>9 DEF StartBuilder, AttemptReady, AttemptStarts
  <2> QED BY <1>1, <1>4, <2>1 DEF TurnsLeft, TaskPlaces, LimitsHold
<1>10. CASE BuilderDone
  <2>1. /\ pc = "build" /\ pc' \in {"verify", "taskend"}
        /\ ex'.ti = ex.ti /\ ex'.att = ex.att
    BY <1>1, <1>10 DEF BuilderDone, ExLocals
  <2> QED BY <1>1, <1>4, <2>1 DEF TurnsLeft, TaskPlaces, LimitsHold
<1>11. CASE AgentStuck \/ BuilderFails \/ VerifierFail \/ VerifierAnomaly
  <2>1. /\ pc \in {"build", "verify"} /\ pc' \in {"attempt", "taskend"}
        /\ ex'.ti = ex.ti /\ ex'.att = ex.att + 1
        /\ pc' = "attempt" => ex.att < MaxCycles
    BY <1>1, <1>11 DEF AgentStuck, BuilderFails, VerifierFail, VerifierAnomaly, AttemptFails,
       ExLocals
  <2> QED BY <1>1, <1>4, <2>1 DEF TurnsLeft, TaskPlaces, LimitsHold
<1> QED
  BY <1>5, <1>6, <1>7, <1>8, <1>9, <1>10, <1>11 DEF ExecuteNext, AgentSays

\* What the runner waits for, or is interrupted by: messages of an agent, which
\* its timeout ends; commands, edits and signals.  None sets the runner back; only
\* a command that arrives while the queue is drained adds one to drain.
Waits ==
    /\ AgentSays \/ SendCommand \/ HumanWrites \/ Signal
    /\ UNCHANGED <<SlicesLeft, PlacesLeft, TurnsLeft>>
    /\ ItemsLeft' = ItemsLeft \/ (SendCommand /\ ItemsLeft' = ItemsLeft + 1)

\* They are as defined.
LEMMA WaitsOnly ==
  ASSUME IInv, AgentSays \/ SendCommand \/ HumanWrites \/ Signal PROVE Waits
<1>1. pc' = pc /\ run' = run /\ ex' = ex
  BY DEF AgentSays, AgentTurnEnd, AgentToolResult, SendCommand, HumanWrites, Signal
<1>2. UNCHANGED <<SlicesLeft, PlacesLeft, TurnsLeft>>
  BY <1>1 DEF SlicesLeft, PlacesLeft, PhasesLeft, TurnsLeft
<1>3. CASE cmdq' = cmdq
  BY <1>1, <1>2, <1>3 DEF ItemsLeft, Waits
<1>4. CASE SendCommand
  <2>1. PICK c \in Commands : cmdq' = Append(cmdq, c)
    BY <1>4 DEF SendCommand
  <2>2. Len(cmdq') = Len(cmdq) + 1
    BY <2>1, AppendProperties, ConfigAssumption DEF IInv, TypeOK, EnvOK
  <2> QED BY <1>1, <1>2, <1>4, <2>2 DEF ItemsLeft, Waits
<1>5. SendCommand \/ cmdq' = cmdq
  BY DEF AgentSays, AgentTurnEnd, AgentToolResult, HumanWrites, Signal, env
<1> QED BY <1>3, <1>4, <1>5

\* Whatever its configuration, a pipeline that is not killed comes to rest after
\* finitely many steps, however often the coach adds slices, tasks fail and
\* commands come, as long as each agent's messages end and commands do not come
\* faster than they are drained (runner.py:649-830, execute_phase.py:139-510).
THEOREM PipelineRunsDown ==
  Spec => /\ [](/\ SlicesLeft \in Nat /\ PlacesLeft \in Nat
                /\ ItemsLeft \in Nat /\ TurnsLeft \in Nat)
          /\ [][Busy /\ pc' # "down" => Falls \/ Waits]_vars
<1>1. Init => LimitsHold
  BY BoundAssumption DEF Init, NoRun, LimitsHold
<1>2. IInv /\ LimitsHold /\ [Next]_vars => LimitsHold'
  BY LimitsStep
<1>3. IInv /\ LimitsHold
        => SlicesLeft \in Nat /\ PlacesLeft \in Nat /\ ItemsLeft \in Nat /\ TurnsLeft \in Nat
  BY MeasureTypes
<1>4. IInv /\ LimitsHold /\ [Next]_vars => [Busy /\ pc' # "down" => Falls \/ Waits]_vars
  <2> SUFFICES ASSUME IInv, LimitsHold, Next, Busy, pc' # "down" PROVE Falls \/ Waits
    OBVIOUS
  <2>1. ~Boot /\ ~Idle
    BY DEF Busy, Boot, BootIdle, BootStart, BootResume, Idle, IdleExit, IdleTimeout, IdleNewPlan,
       IdleResume, IdleDrops, IdleTakes
  <2>2. ~Crash /\ ~UnexpectedError
    BY DEF Crash, UnexpectedError, Gone
  <2>3. CASE Runner
    BY <2>3, PhasesFall, LoopFalls, TasksFall, WaitsOnly DEF Runner
  <2>4. CASE SendCommand \/ HumanWrites \/ Signal
    BY <2>4, WaitsOnly
  <2> QED BY <2>1, <2>2, <2>3, <2>4 DEF Next, Environment
<1> QED BY <1>1, <1>2, <1>3, <1>4, Invariance, PTL DEF Spec

-----------------------------------------------------------------------------
(***************************************************************************)
(* Never stuck.  A non-empty set of naturals has a least element, which is *)
(* what stands for induction here.                                         *)
(***************************************************************************)

\* The naturals are well-founded.
LEMMA LeastNatural ==
  ASSUME NEW T \in SUBSET Nat, T # {}
  PROVE  \E n \in T : \A m \in T : n <= m
<1> DEFINE R == OpToRel(<, Nat)
<1>1. IsWellFoundedOn(R, Nat)
  BY NatLessThanWellFounded
<1>2. \A m, n \in Nat : m < n => <<m, n>> \in R
  BY DEF OpToRel
<1> HIDE DEF R
<1>3. PICK n \in T : \A m \in T : ~ (<<m, n>> \in R)
  BY <1>1, WFMin
<1>4. ASSUME NEW m \in T PROVE n <= m
  <2>1. m \in Nat /\ n \in Nat
    OBVIOUS
  <2>2. ~(m < n)
    BY <1>2, <1>3, <2>1
  <2> QED BY <2>1, <2>2
<1> QED BY <1>4

\* The phase a pipeline enters next exists, or none is due.
LEMMA SomePhaseIsNext ==
  ASSUME \E p \in Pipeline : Due(p)
  PROVE  \E p \in Pipeline : NextDue(p)
<1> DEFINE T == { Rank[p] : p \in { q \in Pipeline : Due(q) } }
<1>1. T \in SUBSET Nat /\ T # {}
  BY RankOfPhase
<1>2. PICK n \in T : \A m \in T : n <= m
  BY <1>1, LeastNatural
<1>3. PICK p \in Pipeline : Due(p) /\ n = Rank[p]
  BY <1>2
<1>4. \A q \in Pipeline : Due(q) => Rank[p] <= Rank[q]
  BY <1>2, <1>3
<1> QED BY <1>3, <1>4 DEF NextDue

\* So does the line of TASK_QUEUE.md that is claimed next, unless none is open.
LEMMA SomeSliceIsNext ==
  ASSUME NEW q \in Queue, ~NothingToClaim(q)
  PROVE  \E s \in QueueSlices : IsNext(q, s)
<1> DEFINE T == { i \in DOMAIN Extra : q[Extra[i]] = "todo" }
<1>1. DOMAIN Extra = 1 .. Len(Extra) /\ Len(Extra) \in Nat
  BY SliceAssumption, LenProperties
<1>2. PICK s \in QueueSlices : q[s] = "todo"
  BY DEF NothingToClaim
<1>3. PICK i \in DOMAIN Extra : s = Extra[i]
  BY <1>2 DEF QueueSlices
<1>4. i \in T
  BY <1>2, <1>3
<1>5. T \in SUBSET Nat /\ T # {}
  BY <1>1, <1>4
<1>6. PICK n \in T : \A m \in T : n <= m
  BY <1>5, LeastNatural
<1>7. \A j \in 1 .. n - 1 : q[Extra[j]] # "todo"
  <2> SUFFICES ASSUME NEW j \in 1 .. n - 1, q[Extra[j]] = "todo" PROVE FALSE
    OBVIOUS
  <2>1. n \in 1 .. Len(Extra)
    BY <1>1
  <2>2. j \in DOMAIN Extra /\ j < n
    BY <1>1, <2>1
  <2> QED BY <1>6, <2>1, <2>2
<1>8. Extra[n] \in QueueSlices
  BY DEF QueueSlices
<1> QED BY <1>7, <1>8 DEF IsNext

\* The members of S in ascending order.
Ascends(f, S) ==
    /\ f \in [1 .. Cardinality(S) -> S]
    /\ \A i, j \in 1 .. Cardinality(S) : i < j => f[i] < f[j]

\* Every set of positions has one.
LEMMA PositionsAscend ==
  ASSUME NEW n \in Nat, NEW S \in SUBSET (1 .. n) PROVE \E f : Ascends(f, S)
<1> DEFINE T == { k \in Nat : \E U \in SUBSET (1 .. k) : ~ \E f : Ascends(f, U) }
<1>1. ASSUME T # {} PROVE FALSE
  <2>1. PICK k \in T : \A m \in T : k <= m
    BY <1>1, LeastNatural
  <2>2. PICK U \in SUBSET (1 .. k) : ~ \E f : Ascends(f, U)
    OBVIOUS
  <2>3. k # 0
    <3> SUFFICES ASSUME k = 0 PROVE FALSE
      OBVIOUS
    <3>1. U = {}
      BY <2>2
    <3>2. Cardinality(U) = 0
      BY <3>1, FS_EmptySet
    <3>3. Ascends([i \in 1 .. 0 |-> i], U)
      BY <3>1, <3>2 DEF Ascends
    <3> QED BY <2>2, <3>3
  <2>4. k \in Nat /\ k - 1 \in Nat /\ k - 1 \notin T
    <3>1. k \in Nat
      OBVIOUS
    <3>2. k - 1 \in Nat /\ ~(k <= k - 1)
      BY <2>3, <3>1
    <3> QED BY <2>1, <3>1, <3>2
  <2>5. U \ {k} \in SUBSET (1 .. k - 1)
    BY <2>4
  <2>6. PICK f : Ascends(f, U \ {k})
    BY <2>4, <2>5
  <2>7. k \in U
    <3> SUFFICES ASSUME k \notin U PROVE FALSE
      OBVIOUS
    <3>1. U \ {k} = U
      OBVIOUS
    <3> QED BY <2>2, <2>6, <3>1
  <2>8. IsFiniteSet(U)
    <3>1. IsFiniteSet(1 .. k)
      BY <2>4, FS_Interval
    <3> QED BY <3>1, FS_Subset
  <2> DEFINE c == Cardinality(U \ {k})
  <2>9. c \in Nat /\ Cardinality(U) = c + 1
    BY <2>7, <2>8, FS_RemoveElement, FS_CardinalityType, FS_Subset
  <2> DEFINE g == [i \in 1 .. c + 1 |-> IF i = c + 1 THEN k ELSE f[i]]
  <2>10. /\ \A i \in 1 .. c : f[i] \in U \ {k}
         /\ \A i, j \in 1 .. c : i < j => f[i] < f[j]
    BY <2>6 DEF Ascends
  <2> HIDE DEF c
  <2>11. g \in [1 .. c + 1 -> U]
    BY <2>7, <2>9, <2>10
  <2>12. ASSUME NEW i \in 1 .. c + 1, NEW j \in 1 .. c + 1, i < j PROVE g[i] < g[j]
    <3>1. i \in 1 .. c /\ g[i] = f[i]
      BY <2>9, <2>12
    <3>2. f[i] \in 1 .. k - 1
      BY <2>5, <2>10, <3>1
    <3>3. CASE j = c + 1
      BY <3>1, <3>2, <3>3, <2>4
    <3>4. CASE j # c + 1
      <4>1. j \in 1 .. c /\ g[j] = f[j]
        BY <2>9, <3>4
      <4> QED BY <2>10, <2>12, <3>1, <4>1
    <3> QED BY <3>3, <3>4
  <2>13. Ascends(g, U)
    BY <2>9, <2>11, <2>12 DEF Ascends
  <2> QED BY <2>2, <2>13
<1> QED BY <1>1

\* The command queue without its skip commands, which is what an attempt leaves.
LEMMA SomeSift ==
  ASSUME NEW q \in Seq(Commands) PROVE \E r : Sifts(q, r)
<1>1. DOMAIN q = 1 .. Len(q) /\ Len(q) \in Nat
  BY LenProperties
<1>2. Kept(q) \in SUBSET (1 .. Len(q))
  BY <1>1 DEF Kept
<1>3. PICK f : Ascends(f, Kept(q))
  BY <1>1, <1>2, PositionsAscend
<1>4. DOMAIN f = 1 .. Cardinality(Kept(q))
  BY <1>3 DEF Ascends
<1>5. Sifts(q, [i \in DOMAIN f |-> q[f[i]]])
  BY <1>3, <1>4 DEF Ascends, Sifts
<1> QED BY <1>5

\* What the actions of the runner wait for, by the place they are taken at; what
\* else they say is what they do.
RunnerGoes ==
    \/ pc \in {"start", "hardened", "build", "verify", "taskend", "execok", "execfail",
               "slice_done", "slice_coach", "adopt"}
    \/ pc = "enter" /\ \/ \E p \in Pipeline : NextDue(p)
                       \/ \A p \in Pipeline : ~Due(p)
    \/ pc = "drain" /\ (cmdq = <<>> \/ Head1.kind \in CommandKinds)
    \/ pc = "work" /\ run.at \in Pipeline
    \/ pc = "task" /\ ex.ti <= NumTasks
    \/ pc = "attempt" /\ ex.att <= MaxCycles /\ \E r : Sifts(cmdq, r)
    \/ pc = "claim" /\ \/ \E s \in QueueSlices : IsNext(fs.queue, s)
                       \/ NothingToClaim(fs.queue)

\* While the pipeline is busy the runner can go on: some phase is due or none is,
\* every command is handled by the drain, a slice is claimed or none is left, and
\* the queue can be sifted whatever is in it.
THEOREM PipelineIsNeverStuck == Spec => [](Busy => RunnerGoes)
<1>1. Init => LimitsHold
  BY BoundAssumption DEF Init, NoRun, LimitsHold
<1>2. IInv /\ LimitsHold /\ [Next]_vars => LimitsHold'
  BY LimitsStep
<1>3. ASSUME IInv, LimitsHold, Busy PROVE RunnerGoes
  <2>1. /\ pc \in PCs \ {"down", "idle", "legacy"} /\ run.at \in Pipeline
        /\ cmdq \in Seq(Commands) /\ fs.queue \in Queue /\ ex.ti <= NumTasks
    BY <1>3 DEF IInv, TypeOK, PlaceOK, EnvOK, FilesOK, Files, RunLocals, TaskBounds, Busy, LimitsHold
  <2>2. CASE pc = "enter"
    BY <2>2, SomePhaseIsNext DEF RunnerGoes
  <2>3. CASE pc = "drain"
    <3>1. cmdq # <<>> => Head1 \in Commands
      BY <2>1, HeadTailProperties DEF Head1
    <3>2. Head1 \in Commands => Head1.kind \in CommandKinds
      BY ConfigAssumption
    <3> QED BY <2>3, <3>1, <3>2 DEF RunnerGoes
  <2>4. CASE pc = "attempt"
    BY <1>3, <2>1, <2>4, SomeSift DEF RunnerGoes, LimitsHold
  <2>5. CASE pc = "claim"
    BY <2>1, <2>5, SomeSliceIsNext DEF RunnerGoes
  <2>6. CASE pc \notin {"enter", "drain", "attempt", "claim"}
    BY <2>1, <2>6 DEF RunnerGoes, PCs
  <2> QED BY <2>2, <2>3, <2>4, <2>5, <2>6
<1> QED BY <1>1, <1>2, <1>3, Invariance, PTL DEF Spec

-----------------------------------------------------------------------------
(***************************************************************************)
(* What the execute phase may rely on in a plan that the architect's       *)
(* validator let pass.                                                     *)
(***************************************************************************)

\* The sections of a plan are finitely many.
LEMMA ParsedFinite ==
  ASSUME NEW p \in Seq(Section)
  PROVE  Parsed(p) \subseteq 1 .. Len(p) /\ IsFiniteSet(Parsed(p))
<1>1. Parsed(p) \subseteq 1 .. Len(p)
  BY DEF Parsed
<1>2. IsFiniteSet(1 .. Len(p))
  BY FS_Interval
<1> QED BY <1>1, <1>2, FS_Subset

\* No two sections that become tasks have one index (architect.py:302-304).
LEMMA IndexesAreDistinct ==
  ASSUME NEW p \in Seq(Section), NEW i \in Parsed(p), NEW j \in Parsed(p), i # j
  PROVE  TaskIndex(p, i) # TaskIndex(p, j)
<1> DEFINE Before(k) == { l \in Parsed(p) : l < k }
<1>1. Parsed(p) \subseteq Int /\ IsFiniteSet(Parsed(p))
  BY ParsedFinite
<1>2. ASSUME NEW k \in Parsed(p), NEW l \in Parsed(p), k < l
      PROVE  TaskIndex(p, k) # TaskIndex(p, l)
  <2>1. IsFiniteSet(Before(l)) /\ Before(k) \in SUBSET Before(l)
    BY <1>1, <1>2, FS_Subset
  <2>2. k \in Before(l) /\ k \notin Before(k)
    BY <1>1, <1>2
  <2>3. Cardinality(Before(k)) # Cardinality(Before(l))
    BY <2>1, <2>2, FS_Subset
  <2> QED BY <2>3 DEF TaskIndex
<1>3. i < j \/ j < i
  BY <1>1
<1> QED BY <1>2, <1>3

\* The loop and the persisted index know a task by its index, SUMMARY.md by its id
\* (execute_phase.py:139-149).
NoSharedSummary(p) ==
    \A i, j \in Parsed(p) : p[i].id = p[j].id => TaskIndex(p, i) = TaskIndex(p, j)

\* The headers that only the parser takes for tasks repeat no id.
MentionsAreNew(p) ==
    \A i \in Parsed(p) \ TasksOf(p), j \in Parsed(p) : i # j => p[i].id # p[j].id

\* Two tasks of a plan that the validator let pass can share a SUMMARY.md, so that
\* one is skipped for what the other did, in one case and no other: a header that
\* the validator does not take for a task repeats an id (architect.py:276-281,
\* 338-348).  The validator's own check of ids covers the rest.
THEOREM SummariesNameTasks ==
  ASSUME NEW p \in Seq(Section), ValidPlan(p)
  PROVE  NoSharedSummary(p) <=> MentionsAreNew(p)
<1>1. TasksOf(p) \subseteq Parsed(p)
  BY DEF TasksOf, Parsed
<1>2. ASSUME NoSharedSummary(p) PROVE MentionsAreNew(p)
  BY <1>2, IndexesAreDistinct DEF NoSharedSummary, MentionsAreNew
<1>3. ASSUME MentionsAreNew(p), NEW i \in Parsed(p), NEW j \in Parsed(p), p[i].id = p[j].id
      PROVE  i = j
  <2>1. CASE i \in TasksOf(p) /\ j \in TasksOf(p)
    BY <1>3, <2>1 DEF ValidPlan
  <2>2. CASE i \notin TasksOf(p) \/ j \notin TasksOf(p)
    BY <1>3, <2>2 DEF MentionsAreNew
  <2> QED BY <2>1, <2>2
<1>4. ASSUME MentionsAreNew(p) PROVE NoSharedSummary(p)
  BY <1>3, <1>4 DEF NoSharedSummary
<1> QED BY <1>2, <1>4

\* A plan that passed the validator becomes between one and seven tasks with
\* distinct ids, provided that no other header mentions an id: then the parser
\* finds just the tasks the validator saw (architect.py:240-306, 312-355).
THEOREM ValidPlansParse ==
  ASSUME NEW p \in Seq(Section), ValidPlan(p),
         \A i \in DOMAIN p : p[i].head # "mention"
  PROVE  /\ Parsed(p) = TasksOf(p)
         /\ Cardinality(Parsed(p)) \in 1 .. MaxTasks
         /\ \A i, j \in Parsed(p) : i # j => p[i].id # p[j].id
<1>1. Parsed(p) = TasksOf(p)
  BY DEF Parsed, TasksOf
<1>2. IsFiniteSet(Parsed(p))
  BY ParsedFinite
<1>3. Cardinality(Parsed(p)) \in Nat /\ Cardinality(Parsed(p)) # 0
  BY <1>1, <1>2, FS_CardinalityType, FS_EmptySet DEF ValidPlan
<1>4. Cardinality(Parsed(p)) <= MaxTasks
  BY <1>1 DEF ValidPlan
<1>5. \A i, j \in Parsed(p) : i # j => p[i].id # p[j].id
  BY <1>1 DEF ValidPlan
<1> QED BY <1>1, <1>3, <1>4, <1>5 DEF MaxTasks

\* The block of the validator reaches from a task to the next header that names
\* one; where every header does, it is the section.
LEMMA OwnBlock ==
  ASSUME NEW p \in Seq(Section), \A i \in DOMAIN p : p[i].head = "task",
         NEW i \in DOMAIN p
  PROVE  Block(p, i) = {i}
<1>1. DOMAIN p \subseteq Nat /\ \A a, b \in DOMAIN p, k \in Nat : a < k /\ k <= b => k \in DOMAIN p
  OBVIOUS
<1>2. ASSUME NEW j \in Block(p, i), j # i PROVE FALSE
  <2>1. j \in DOMAIN p /\ j > i /\ j \in i + 1 .. j
    BY <1>1, <1>2 DEF Block
  <2>2. p[j].head # "task"
    BY <1>2, <2>1 DEF Block
  <2> QED BY <2>1, <2>2
<1>3. i \in Block(p, i)
  BY <1>1 DEF Block
<1> QED BY <1>2, <1>3

\* In a plan that passed the validator and has no headers but those of its tasks,
\* every task the execute phase gets has must-haves and a description of its own
\* (architect.py:287-302, 349-354).
THEOREM ValidTasksAreComplete ==
  ASSUME NEW p \in Seq(Section), ValidPlan(p),
         \A i \in DOMAIN p : p[i].head = "task"
  PROVE  \A i \in Parsed(p) : p[i].must # "none" /\ p[i].desc
<1> SUFFICES ASSUME NEW i \in Parsed(p) PROVE p[i].must # "none" /\ p[i].desc
  OBVIOUS
<1>1. i \in DOMAIN p /\ i \in TasksOf(p)
  BY DEF Parsed, TasksOf
<1>2. Block(p, i) = {i}
  BY <1>1, OwnBlock
<1> QED BY <1>1, <1>2 DEF ValidPlan, HasMust, HasDescription
=============================================================================
