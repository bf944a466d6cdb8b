---------------------------- MODULE ExecutePhase ----------------------------
(***************************************************************************)
(* run_execute (tero2/phases/execute_phase.py): the tasks of one slice,    *)
(* each with its builder and verifier attempts, the checks for a human     *)
(* OVERRIDE.md, a skip command and a stuck agent before every attempt, and *)
(* the checkpoint written when a task starts and when it passes.           *)
(*                                                                         *)
(* pc: task -> attempt -> build -> verify -> taskend -> task ... until     *)
(* "execok" or "execfail", the two results the runner sees.  An agent run  *)
(* is its messages ("build" steps) and then its end.                       *)
(***************************************************************************)
EXTENDS RunnerContext

ExIdle == [start |-> 0, ti |-> 0, att |-> 0, ok |-> TRUE, passed |-> FALSE]

\* The task at hand and its SUMMARY.md.
Here == <<CurrentSlice(cst), ex.ti>>
HasSummary(t) == <<CurrentSlice(cst), t>> \in fs.summ

Mark(outcome) == res' = [res EXCEPT ![Here] = outcome]

\* The two results.  The state is left as the last checkpoint wrote it.
Fail == pc' = "execfail"

-----------------------------------------------------------------------------
(***************************************************************************)
(* The head of run_execute, then the task loop.                            *)
(***************************************************************************)

\* No chain for a role, or a slice plan without tasks.
ExecuteRefused ==
    /\ Fail
    /\ UNCHANGED <<run, disk, mem, ctx, ex, fs, env, res>>

ExecuteStarts ==
    /\ fs.plans[CurrentSlice(cst)] # NoPlan /\ NumTasks > 0
    /\ pc' = "task"
    /\ ex' = [ExIdle EXCEPT !.start = cst.idx]
    /\ UNCHANGED <<run, disk, mem, ctx, fs, env, res>>

\* A task below the persisted index counts as done when its SUMMARY exists.
Passed(t) == t < ex.start /\ HasSummary(t)

SkipDoneTask ==
    /\ pc = "task" /\ ex.ti < NumTasks
    /\ Passed(ex.ti)
    /\ ex' = [ex EXCEPT !.ti = @ + 1]
    /\ UNCHANGED <<pc, run, disk, mem, ctx, fs, env, res>>

ShutdownAtTask ==
    /\ pc = "task" /\ ex.ti < NumTasks /\ ~Passed(ex.ti)
    /\ shutdown
    /\ Fail
    /\ UNCHANGED <<run, disk, mem, ctx, ex, fs, env, res>>

\* _check_override: STOP ends the slice, PAUSE also pauses the state; both
\* clear OVERRIDE.md.
OverrideStop ==
    /\ fs.override = "STOP"
    /\ fs' = [fs EXCEPT !.override = "none"]
    /\ Fail
    /\ UNCHANGED <<disk, mem>>

\* A mutant of OverridePause: paused, and on with the task.
MutantPauseGoesOn ==
    /\ fs.override = "PAUSE"
    /\ SaveContext(Moved(cst, "paused"))
    /\ fs' = [fs EXCEPT !.override = "none"]
    /\ UNCHANGED pc

OverridePause ==
    /\ fs.override = "PAUSE"
    /\ SaveContext(Moved(cst, "paused"))
    /\ fs' = [fs EXCEPT !.override = "none"]
    /\ Fail

OverrideAtTask ==
    /\ pc = "task" /\ ex.ti < NumTasks /\ ~Passed(ex.ti)
    /\ ~shutdown
    /\ OverrideStop \/ OverridePause
    /\ UNCHANGED <<run, ctx, ex, env, res>>

TaskReady ==
    /\ pc = "task" /\ ex.ti < NumTasks /\ ~Passed(ex.ti)
    /\ ~shutdown /\ fs.override = "none"

\* The state as the task-start checkpoint writes it.
TaskStarted(s, t) ==
    [s EXCEPT !.retry = 0, !.steps = 0, !.rep = 0, !.sora = "execute", !.idx = t]

\* A STEER.md is consumed: it becomes the hints of this and later tasks.
BeginTask ==
    /\ TaskReady
    /\ SaveContext(TaskStarted(cst, ex.ti))
    /\ fs' = [fs EXCEPT !.steer = FALSE]
    /\ ex' = [ex EXCEPT !.att = 0, !.passed = FALSE]
    /\ pc' = "attempt"
    /\ UNCHANGED <<run, ctx, env, res>>

\* The task-start checkpoint cannot be written: the phase and the index are put
\* back, the counters are not, and the slice fails.
BeginTaskFails ==
    /\ TaskReady /\ FaultHappens("disk")
    /\ TouchContext([TaskStarted(cst, ex.ti) EXCEPT !.sora = cst.sora, !.idx = cst.idx])
    /\ fs' = [fs EXCEPT !.steer = FALSE]
    /\ Fail
    /\ UNCHANGED <<run, ctx, ex, cmdq, shutdown, planArg, sent, res>>

\* After the last task.
TasksEnd ==
    /\ pc = "task" /\ ex.ti = NumTasks
    /\ SaveContext([cst EXCEPT !.idx = NumTasks])
    /\ pc' = IF ex.ok THEN "execok" ELSE "execfail"
    /\ UNCHANGED <<run, ctx, ex, fs, env, res>>

-----------------------------------------------------------------------------
(***************************************************************************)
(* One attempt: _drain_skip_commands, skip, override and escalation checks *)
(* run without a pause before the builder starts.                          *)
(***************************************************************************)

Kept(q) == { i \in DOMAIN q : q[i].kind # "skip_task" }
SkipAsked == ctx.skip \/ Kept(cmdq) # DOMAIN cmdq

\* A mutant of Sifts: put back in the reverse order.
MutantSiftsReversed(q, r) ==
    \E f \in [1 .. Cardinality(Kept(q)) -> Kept(q)] :
        /\ \A i, j \in DOMAIN f : i < j => f[i] > f[j]
        /\ r = [i \in DOMAIN f |-> q[f[i]]]

\* The queue without its skip commands; the others keep their order, which f
\* gives by their positions.
Sifts(q, r) ==
    \E f \in [1 .. Cardinality(Kept(q)) -> Kept(q)] :
        /\ \A i, j \in DOMAIN f : i < j => f[i] < f[j]
        /\ r = [i \in DOMAIN f |-> q[f[i]]]

AttemptStarts == pc = "attempt" /\ ex.att <= MaxCycles

SkipTask ==
    /\ AttemptStarts
    /\ SkipAsked
    /\ Sifts(cmdq, cmdq')
    /\ ctx' = [ctx EXCEPT !.skip = FALSE]
    /\ fs' = [fs EXCEPT !.summ = @ \union {Here}]
    /\ ex' = [ex EXCEPT !.passed = TRUE]
    /\ Mark("skipped")
    /\ pc' = "taskend"
    /\ UNCHANGED <<run, disk, mem, shutdown, planArg, sent, faults>>

OverrideAtAttempt ==
    /\ AttemptStarts /\ ~SkipAsked
    /\ OverrideStop \/ OverridePause
    /\ UNCHANGED <<run, ctx, ex, env, res>>

AttemptReady == AttemptStarts /\ ~SkipAsked /\ fs.override = "none"

NextLevel == DecideEscalation(CheckStuck(cst), ctx.lvl, ctx.div)

\* A mutant of EscalateToHuman: the agent is started although it should pause.
MutantHumanGoesOn ==
    /\ AttemptReady
    /\ NextLevel = HUMAN
    /\ SaveCopy(Escalated(cst, HUMAN))
    /\ ctx' = [ctx EXCEPT !.lvl = HUMAN]
    /\ pc' = "build"
    /\ UNCHANGED <<run, ex, fs, env, res>>

\* Level 3: STUCK_REPORT.md, paused, and the slice returns.
EscalateToHuman ==
    /\ AttemptReady
    /\ NextLevel = HUMAN
    /\ SaveCopy(Escalated(cst, HUMAN))
    /\ ctx' = [ctx EXCEPT !.lvl = HUMAN]
    /\ Fail
    /\ UNCHANGED <<run, ex, fs, env, res>>

\* Otherwise the builder runs, after a level 1 or 2 measure if one is due.
StartBuilder ==
    /\ AttemptReady
    /\ NextLevel # HUMAN
    /\ \/ NextLevel = NONE /\ UNCHANGED <<disk, mem, ctx>>
       \/ /\ NextLevel # NONE
          /\ SaveCopy(Escalated(cst, NextLevel))
          /\ ctx' = [ctx EXCEPT !.lvl = NextLevel, !.div = DivAfter(NextLevel, @)]
    /\ Mark("tried")
    /\ pc' = "build"
    /\ UNCHANGED <<run, ex, fs, env>>

-----------------------------------------------------------------------------
(***************************************************************************)
(* The agent run, the verifier, and the bookkeeping after a task.          *)
(***************************************************************************)

\* retry_count += 1 and on to the next attempt, or out of the attempt loop.
AttemptFails ==
    /\ TouchContext([cst EXCEPT !.retry = @ + 1])
    /\ ex' = [ex EXCEPT !.att = @ + 1]
    /\ pc' = IF ex.att < MaxCycles THEN "attempt" ELSE "taskend"

\* Messages of the agent, each saved by increment_step.
AgentTurnEnd ==
    /\ pc = "build" /\ cst.steps < StepCap
    /\ SaveContext(AfterTurnEnd(cst))
    /\ UNCHANGED <<pc, run, ctx, ex, fs, env, res>>

AgentToolResult ==
    /\ pc = "build"
    /\ \E same \in BOOLEAN :
          LET s == AfterToolResult(cst, same)
          IN  /\ s # cst
              /\ ~AgentAborts(s)
              /\ SaveCopy(s)
    /\ UNCHANGED <<pc, run, ctx, ex, fs, env, res>>

\* The tool result that makes run_agent give up the attempt.
AgentStuck ==
    /\ pc = "build"
    /\ \E same \in BOOLEAN :
          LET s == AfterToolResult(cst, same)
          IN  /\ AgentAborts(s)
              /\ disk' = s /\ cst' = [s EXCEPT !.retry = @ + 1]
              /\ shared' = FALSE /\ UNCHANGED rst
    /\ ex' = [ex EXCEPT !.att = @ + 1]
    /\ pc' = IF ex.att < MaxCycles THEN "attempt" ELSE "taskend"
    /\ UNCHANGED <<run, ctx, fs, env, res>>

\* A timeout, an error of every provider, or SUMMARY.md cannot be written.
BuilderFails ==
    /\ pc = "build"
    /\ AttemptFails
    /\ UNCHANGED <<run, ctx, fs, env, res>>

\* SUMMARY.md is written before the verifier has spoken.
BuilderDone ==
    /\ pc = "build"
    /\ fs' = [fs EXCEPT !.summ = @ \union {Here}]
    /\ IF "verifier" \in Roles
       THEN pc' = "verify" /\ UNCHANGED <<ex, res>>
       ELSE pc' = "taskend" /\ ex' = [ex EXCEPT !.passed = TRUE] /\ Mark("pass")
    /\ UNCHANGED <<run, disk, mem, ctx, env>>

VerifierPass ==
    /\ pc = "verify"
    /\ ex' = [ex EXCEPT !.passed = TRUE]
    /\ Mark("pass")
    /\ pc' = "taskend"
    /\ UNCHANGED <<run, disk, mem, ctx, fs, env>>

VerifierFail ==
    /\ pc = "verify"
    /\ AttemptFails
    /\ UNCHANGED <<run, ctx, fs, env, res>>

\* An ANOMALY may run the coach first (check_triggers).
VerifierAnomaly ==
    /\ pc = "verify"
    /\ CoachRuns(fs, fs')
    /\ AttemptFails
    /\ UNCHANGED <<run, ctx, env, res>>

\* A mutant of TaskPassed: the index of the task before.
MutantIndexBefore ==
    /\ pc = "taskend" /\ ex.passed
    /\ SaveContext([cst EXCEPT !.idx = ex.ti - 1])
    /\ ex' = [ex EXCEPT !.ti = @ + 1]
    /\ pc' = "task"
    /\ UNCHANGED <<run, ctx, fs, env, res>>

\* A mutant of TaskFailed: all_passed is not cleared.
MutantFailureForgotten ==
    /\ pc = "taskend" /\ ~ex.passed
    /\ Mark("fail")
    /\ ex' = [ex EXCEPT !.ti = @ + 1]
    /\ pc' = "task"
    /\ UNCHANGED <<run, disk, mem, ctx, fs, env>>

\* A passed task moves the persisted index past it; a failed one leaves the
\* state alone and the loop goes on.
TaskPassed ==
    /\ pc = "taskend" /\ ex.passed
    /\ SaveContext([cst EXCEPT !.idx = ex.ti + 1])
    /\ ex' = [ex EXCEPT !.ti = @ + 1]
    /\ pc' = "task"
    /\ UNCHANGED <<run, ctx, fs, env, res>>

TaskFailed ==
    /\ pc = "taskend" /\ ~ex.passed
    /\ Mark("fail")
    /\ ex' = [ex EXCEPT !.ti = @ + 1, !.ok = FALSE]
    /\ pc' = "task"
    /\ UNCHANGED <<run, disk, mem, ctx, fs, env>>

ExecuteNext ==
    \/ SkipDoneTask \/ ShutdownAtTask \/ OverrideAtTask
    \/ BeginTask \/ BeginTaskFails \/ TasksEnd
    \/ SkipTask \/ OverrideAtAttempt \/ EscalateToHuman \/ StartBuilder
    \/ AgentTurnEnd \/ AgentToolResult \/ AgentStuck
    \/ BuilderFails \/ BuilderDone
    \/ VerifierPass \/ VerifierFail \/ VerifierAnomaly
    \/ TaskPassed \/ TaskFailed
=============================================================================
