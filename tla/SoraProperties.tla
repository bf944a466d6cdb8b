--------------------------- MODULE SoraProperties ---------------------------
(***************************************************************************)
(* What the runner promises, stated over SoraRunner.                       *)
(***************************************************************************)
EXTENDS SoraRunner

-----------------------------------------------------------------------------
(***************************************************************************)
(* Safety: the state machine.                                              *)
(***************************************************************************)

\* AgentState.__setattr__ and the checkpoint manager raise StateTransitionError
\* on an illegal assignment, and an exception in the middle of the pipeline ends
\* the process (runner.py:174).  The runner assigns through two references that
\* may be different objects and that a resume may find in any phase; here each
\* assignment it is about to make is legal for the object it is made to.
TransitionsNeverRaise ==
    /\ pc = "enter" => \A p \in Pipeline : NextDue(p) => MayAdvance(rst, p)
    /\ pc = "drain" => MayMove(rst, "failed") /\ MayMove(rst, "paused")
    /\ pc = "hardened" => MayAdvance(cst, "scout")
    /\ pc = "work" /\ run.loop => MayMove(rst, "failed")
    /\ pc \in {"task", "attempt"} =>
          MayMove(cst, "paused") /\ MayAdvance(cst, "execute")
    /\ pc = "execfail" => MayMove(rst, "failed")
    /\ pc = "slice_done" => MayAdvance(rst, "slice_done")
    /\ pc \in {"slice_done", "claim"} => MayMove(rst, "completed")

\* STATE.json moves only as RunLifecycle allows, although it is written from
\* two objects of which one may be stale.
Lifecycle == INSTANCE RunLifecycle
    WITH phase <- disk.phase, sora <- disk.sora, Edges <- SoraEdges
LifecycleSpec == Lifecycle!Spec

\* A crash loses nothing but the retry counter: in the pipeline STATE.json is
\* the runner's state, inside run_execute the context's, whichever of the two
\* references the last step went through (runner.py:649-734, execute_phase.py:
\* 215, 320, 364, 483; context.py:218).
ForgetRetry(s) == [s EXCEPT !.retry = 0]
Together == {"start", "enter", "drain", "work", "hardened",
             "slice_coach", "claim", "adopt"}
InTask == pc \in {"task", "attempt", "build", "verify", "taskend", "execok"}
StateIsOnDisk ==
    /\ InTask => ForgetRetry(disk) = ForgetRetry(cst)
    /\ pc \in Together => disk = rst

-----------------------------------------------------------------------------
(***************************************************************************)
(* Safety: the work.                                                       *)
(***************************************************************************)

Summarised(s) == \A t \in Tasks : <<s, t>> \in fs.summ

\* A slice the architect planned is left behind only when each of its tasks
\* has a SUMMARY.md (execute_phase.py:139-163, 402, 504): by the claim of the
\* next slice, by a completion, or over any number of failures and restarts.
LeftSlicesAreSummarised ==
    \A s \in Slices :
        /\ fs.plans[s] # NoPlan
        /\ s # CurrentSlice(disk) \/ disk.phase = "completed"
        => Summarised(s)

\* COMPLETED means that no slice of TASK_QUEUE.md is left unclaimed
\* (runner.py:756-759, 822), unless a single slice was asked for.
CompletedLeavesNoneUnclaimed ==
    disk.phase = "completed" /\ MaxSlices > 1 => NothingToClaim(fs.queue)

\* A run is complete only when the slices it claimed were executed
\* (runner.py:743-803).  For a process that is not killed between the claim and
\* the checkpoint that names the slice.
ClaimedSlicesAreExecuted ==
    disk.phase = "completed" =>
        \A s \in QueueSlices : fs.queue[s] = "claimed" => Summarised(s)

\* Crash recovery skips only work that was done: every task of the slice below
\* the persisted index has been tried under this plan or skipped by the user
\* (execute_phase.py:139-150, runner.py:761-764).  For a runner that is always
\* given the same plan: the index outlives a change of plan.
IndexBehindWork ==
    disk.sora = "execute" =>
        \A t \in Tasks : t < disk.idx => res[<<CurrentSlice(disk), t>>] # "none"

\* While a slice is executed only skip_task leaves the queue: the other commands
\* stay for the runner, none lost and in the order they were sent
\* (execute_phase.py:512-535).  f says where in q each of those in r was.
SameForRunner(q, r) ==
    \E f \in [Kept(r) -> Kept(q)] :
        /\ \A i, j \in Kept(r) : i < j => f[i] < f[j]
        /\ \A k \in Kept(q) : \E i \in Kept(r) : f[i] = k
        /\ \A i \in Kept(r) : r[i] = q[f[i]]
ExecuteKeepsCommands ==
    [][InTask /\ pc' \notin {"down", "idle"} =>
          \/ SameForRunner(cmdq, cmdq')
          \/ \E c \in Commands : SameForRunner(Append(cmdq, c), cmdq')]_vars

\* The human is asked once (escalation.py:59-108): after escalation level 3 no
\* agent is started until the pipeline begins again with level 0.
NoAgentAfterHuman ==
    ctx.lvl = HUMAN => pc \notin {"task", "attempt", "build", "verify", "taskend"}

\* A slice gets at most diversification_max_steps diversified attempts before
\* the escalation goes on to level 2, counted over its tasks, whose stuck
\* counters are reset in between (execute_phase.py:196-199, 331-334).
DiversificationsAreBounded == DivLimit > 0 => ctx.div <= DivLimit

-----------------------------------------------------------------------------
(***************************************************************************)
(* Liveness.                                                               *)
(***************************************************************************)

Busy == pc \notin {"down", "idle"}

\* The pipeline comes to rest, even if every coach run adds slices to
\* TASK_QUEUE.md: max_slices bounds them (runner.py:743, 766).
Settles == Busy ~> ~Busy

\* A shutdown signal ends the process, wherever it finds it (runner.py:753,
\* 775, 794, 870; execute_phase.py:168).
ShutdownHeeded == shutdown ~> pc = "down"

\* No command stays in the queue for ever: a phase that does not handle it
\* puts it back only for one that does (execute_phase.py:512, runner.py:387).
CommandsAreTaken == cmdq # <<>> ~> cmdq = <<>>

-----------------------------------------------------------------------------
(***************************************************************************)
(* What makes the invariants inductive: where the two references are one   *)
(* object, and what sora_phase each place in the code finds.               *)
(***************************************************************************)

\* The task exists inside the attempt loop, and the index never runs past the
\* last task.
TaskBounds ==
    /\ ex.ti <= NumTasks
    /\ pc \in {"attempt", "build", "verify", "taskend"} => ex.ti < NumTasks

\* Between phases there is one object, saved and RUNNING.  In the idle loop the
\* runner's object may lag behind the file, after the slice limit.  The last part
\* is about a place of LegacyRunner alone.
References ==
    /\ shared => rst = cst
    /\ pc \in Together => shared /\ disk = rst /\ rst.phase = "running"
    /\ pc = "idle" => disk.phase = rst.phase /\ disk.sora = rst.sora
    /\ pc = "legacy" => disk.phase \in {"running", "paused"} /\ disk.sora = rst.sora

\* The sora_phase that each place between the phases finds.
Progress ==
    /\ pc \in {"drain", "work"} => rst.sora = run.at
    /\ run.loop => run.at \in {"architect", "execute"}
    /\ pc = "hardened" => run.at = "hardening" /\ rst.sora = "hardening"
    /\ pc = "enter" /\ run.loop =>
          <<run.at, rst.sora>> \in {<<"architect", "slice_done">>, <<"execute", "architect">>}
    /\ pc = "enter" /\ ~run.loop /\ run.at = "execute" => rst.sora = "architect"
    /\ pc \in {"slice_coach", "claim", "adopt"} => rst.sora = "slice_done"

\* In run_execute, and until the runner has recorded how it ended, the runner's
\* object may be stale, but not in its phases.
Executing ==
    /\ InTask => /\ rst.phase = "running" /\ rst.sora = "execute"
                 /\ cst.phase = "running" /\ cst.sora = "execute"
                 /\ ForgetRetry(disk) = ForgetRetry(cst)
    /\ pc = "execfail" => /\ rst.phase \in {"running", "paused"} /\ rst.sora = "execute"
                          /\ disk.phase \in {"running", "paused"} /\ disk.sora = "execute"
    /\ pc = "slice_done" => /\ rst.phase = "running" /\ disk.phase = "running"
                            /\ rst.sora \in {"execute", "slice_done"}
                            /\ disk.sora = rst.sora

Control == References /\ Progress /\ Executing
IInv == TypeOK /\ TaskBounds /\ Control

-----------------------------------------------------------------------------
(***************************************************************************)
(* Promises of comments and documents that the code does not keep.         *)
(***************************************************************************)

\* A pause asked for by OVERRIDE.md, or by escalation to the human, lasts
\* until something resumes or stops the run.
PauseIsKept == [][disk.phase = "paused" => disk'.phase # "failed"]_vars

\* run_execute succeeds only when every task passed verification.
SuccessMeansEveryTaskPassed ==
    pc = "execok" =>
        \A t \in Tasks : res[<<CurrentSlice(cst), t>>] # "fail"

\* The slice a run works on was planned from the plan the run was given.
ExecutesCurrentPlan ==
    pc = "build" => fs.plans[CurrentSlice(cst)] = planArg

\* The checkpoint names the phase to resume at: slice_done is a slice that is.
RecoversAtTheRightPhase ==
    pc = "slice_done" => Summarised(CurrentSlice(rst))
=============================================================================
