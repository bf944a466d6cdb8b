----------------------------- MODULE SoraRunner -----------------------------
(***************************************************************************)
(* The runner (tero2/runner.py): start-up and crash recovery, the SORA     *)
(* pipeline with its phase-boundary command drain, the slice loop and the  *)
(* idle loop, composed with the execute phase.                             *)
(*                                                                         *)
(* One action is the code between two suspension points.  It ends at a     *)
(* write to disk when a crash between that write and the next leaves what  *)
(* recovery tells from before and after: PLAN.md and the phase past it, a  *)
(* claimed slice and the state that names it, SUMMARY.md and the index past*)
(* its task.  The TUI, a human editing files, signals and crashes are the  *)
(* environment.                                                            *)
(***************************************************************************)
EXTENDS ExecutePhase

Pipeline == {"hardening", "scout", "coach", "architect", "execute"}

\* "legacy" is the whole of LegacyRunner, which none of the actions here enters.
PCs == {"down", "start", "enter", "drain", "work", "hardened", "task", "attempt",
        "build", "verify", "taskend", "execok", "execfail", "slice_done",
        "slice_coach", "claim", "adopt", "idle", "legacy"}

NoRun == [at |-> "hardening", loop |-> FALSE, extra |-> 0, nxt |-> NoSlice]
NoCtx == [lvl |-> NONE, div |-> 0, skip |-> FALSE]

Outcomes == {"none", "tried", "pass", "fail", "skipped"}
NoTasksTried == [k \in Slices \X Tasks |-> "none"]

Init ==
    /\ pc = "down"
    /\ run = NoRun
    /\ disk = Fresh /\ rst = Fresh /\ cst = Fresh /\ shared = TRUE
    /\ ctx = NoCtx
    /\ ex = ExIdle
    /\ fs \in [ roadmap : {NoPlan}, hardened : {NoPlan},
                plans : [Slices -> {NoPlan}], summ : {{}},
                queue : CoachQueues \union {[s \in QueueSlices |-> "absent"]},
                steer : {FALSE}, override : {"none"} ]
    /\ cmdq = <<>> /\ shutdown = FALSE /\ planArg = NoPlan
    /\ sent = 0 /\ faults = 0
    /\ res = NoTasksTried

RunLocals == [at : Pipeline, loop : BOOLEAN, extra : Nat,
              nxt : QueueSlices \union {NoSlice}]
Context   == [lvl : Level, div : Nat, skip : BOOLEAN]
ExLocals  == [start : Nat, ti : Nat, att : Nat, ok : BOOLEAN, passed : BOOLEAN]
Files     == [roadmap : Plans \union {NoPlan}, hardened : Plans \union {NoPlan},
              plans : [Slices -> Plans \union {NoPlan}],
              summ : SUBSET (Slices \X Tasks), queue : Queue,
              steer : BOOLEAN, override : {"none", "STOP", "PAUSE"}]

PlaceOK  == pc \in PCs /\ run \in RunLocals
StatesOK == disk \in State /\ rst \in State /\ cst \in State /\ shared \in BOOLEAN
LocalsOK == ctx \in Context /\ ex \in ExLocals
FilesOK  == fs \in Files /\ res \in [Slices \X Tasks -> Outcomes]
EnvOK ==
    /\ cmdq \in Seq(Commands) /\ shutdown \in BOOLEAN
    /\ planArg \in Plans \union {NoPlan}
    /\ sent \in Nat /\ faults \in Nat

TypeOK == PlaceOK /\ StatesOK /\ LocalsOK /\ FilesOK /\ EnvOK

-----------------------------------------------------------------------------
(***************************************************************************)
(* Start-up.                                                               *)
(***************************************************************************)

\* The ghost forgets the tasks of another plan.
ResAfterStart(prior, plan) ==
    IF prior.phase = "completed" \/ prior.plan # plan THEN NoTasksTried ELSE res

\* The state is saved as RUNNING, and a notification is sent before the
\* pipeline starts.
StartsWith(s) ==
    /\ SaveAndShare(s)
    /\ pc' = "start"

\* run(): the lock is taken, STATE.json restored.  A queue of the new process
\* is empty and its shutdown event clear, as the end of the old one left them.
BootIdle ==
    /\ pc = "down"
    /\ \E p \in CliPlans :
          /\ \/ disk.phase = "completed"
             \/ disk.phase \in {"idle", "failed"} /\ p = NoPlan
             \/ disk.phase \in {"running", "paused"} /\ disk.plan = NoPlan
          /\ planArg' = p
    /\ rst' = disk /\ cst' = disk /\ shared' = TRUE
    /\ pc' = "idle"
    /\ UNCHANGED <<run, disk, ctx, ex, fs, cmdq, shutdown, sent, faults, res>>

BootStart ==
    /\ pc = "down"
    /\ disk.phase \in {"idle", "failed"}
    /\ \E p \in CliPlans \ {NoPlan} :
          /\ planArg' = p
          /\ StartsWith(MarkStarted(disk, p))
          /\ res' = ResAfterStart(disk, p)
    /\ UNCHANGED <<run, ctx, ex, fs, cmdq, shutdown, sent, faults>>

BootResume ==
    /\ pc = "down"
    /\ disk.phase \in {"running", "paused"} /\ disk.plan # NoPlan
    /\ \E p \in CliPlans :
          /\ planArg' = p
          /\ StartsWith(IF disk.phase = "paused" THEN Moved(disk, "running") ELSE disk)
          /\ res' = IF p \notin {NoPlan, disk.plan} THEN NoTasksTried ELSE res
    /\ UNCHANGED <<run, ctx, ex, fs, cmdq, shutdown, sent, faults>>

\* _execute_sora begins: a new RunnerContext, and ROADMAP.md is a copy of the
\* plan file if there is one.
BeginPipeline ==
    /\ pc = "start"
    /\ fs' = [fs EXCEPT !.roadmap = IF planArg # NoPlan THEN planArg ELSE @]
    /\ ctx' = NoCtx
    /\ run' = NoRun
    /\ pc' = "enter"
    /\ UNCHANGED <<disk, mem, ex, env, res>>

-----------------------------------------------------------------------------
(***************************************************************************)
(* The pipeline.  Each phase is entered (set_sora_phase, saved), drains    *)
(* the command queue, and then works.                                      *)
(***************************************************************************)

RoleOf == [hardening |-> "reviewer", scout |-> "scout", coach |-> "coach"]
Configured(p) == p \in DOMAIN RoleOf => RoleOf[p] \in Roles

\* The phases still ahead: in the slice loop architect and execute always
\* run, before it a phase the persisted sora_phase is past is left out.
Due(p) ==
    /\ Rank[p] >= Rank[run.at]
    /\ Configured(p)
    /\ run.loop \/ ~PhaseAlreadyDone(rst.sora, p)

NextDue(p) == Due(p) /\ \A q \in Pipeline : Due(q) => Rank[p] <= Rank[q]

EnterPhase(p) ==
    /\ pc = "enter"
    /\ NextDue(p)
    /\ SaveAndShare(SetSora(rst, p))
    /\ run' = [run EXCEPT !.at = p]
    /\ pc' = "drain"
    /\ UNCHANGED <<ctx, ex, fs, env, res>>

\* Both architect and execute were done before a restart.
NothingDue ==
    /\ pc = "enter"
    /\ \A p \in Pipeline : ~Due(p)
    /\ pc' = "slice_done"
    /\ UNCHANGED <<run, disk, mem, ctx, ex, fs, env, res>>

(* _drain_commands, one command at a time.                                 *)
Head1 == Head(cmdq)
Draining(kind) == pc = "drain" /\ cmdq # <<>> /\ Head1.kind = kind

DrainStop ==
    /\ Draining("stop")
    /\ SaveRunner(Moved(rst, "failed"))
    /\ cmdq' = Tail(cmdq)
    /\ pc' = "idle"
    /\ UNCHANGED <<run, ctx, ex, fs, shutdown, planArg, sent, faults, res>>

DrainPause ==
    /\ Draining("pause")
    /\ SaveRunner(Moved(rst, "paused"))
    /\ cmdq' = Tail(cmdq)
    /\ pc' = "idle"
    /\ UNCHANGED <<run, ctx, ex, fs, shutdown, planArg, sent, faults, res>>

\* The stuck dialog's option 5 also leaves a hint in STEER.md.
DrainHumanPause ==
    /\ Draining("stuck_option_5")
    /\ fs' = [fs EXCEPT !.steer = TRUE]
    /\ SaveRunner(Moved(rst, "paused"))
    /\ cmdq' = Tail(cmdq)
    /\ pc' = "idle"
    /\ UNCHANGED <<run, ctx, ex, shutdown, planArg, sent, faults, res>>

DrainSteer ==
    /\ Draining("steer")
    /\ fs' = [fs EXCEPT !.steer = TRUE]
    /\ cmdq' = Tail(cmdq)
    /\ UNCHANGED <<pc, run, disk, mem, ctx, ex, shutdown, planArg, sent, faults, res>>

DrainSkip ==
    /\ Draining("skip_task")
    /\ ctx' = [ctx EXCEPT !.skip = TRUE]
    /\ cmdq' = Tail(cmdq)
    /\ UNCHANGED <<pc, run, disk, mem, ex, fs, shutdown, planArg, sent, faults, res>>

\* The command goes back to the tail of the queue for the idle loop.
DrainNewPlan ==
    /\ Draining("new_plan")
    /\ SaveRunner(Moved(rst, "failed"))
    /\ cmdq' = Append(Tail(cmdq), Head1)
    /\ pc' = "idle"
    /\ UNCHANGED <<run, ctx, ex, fs, shutdown, planArg, sent, faults, res>>

\* switch_provider has no effect here, the rest is dropped with a warning.
DrainOther ==
    /\ pc = "drain" /\ cmdq # <<>> /\ Head1.kind \in {"other", "resume"}
    /\ cmdq' = Tail(cmdq)
    /\ UNCHANGED <<pc, run, disk, mem, ctx, ex, fs, shutdown, planArg, sent, faults, res>>

Drained ==
    /\ pc = "drain" /\ cmdq = <<>>
    /\ pc' = "work"
    /\ UNCHANGED <<run, disk, mem, ctx, ex, fs, env, res>>

DrainCommands ==
    \/ DrainStop \/ DrainPause \/ DrainHumanPause \/ DrainSteer
    \/ DrainSkip \/ DrainNewPlan \/ DrainOther \/ Drained

(* The phases.                                                             *)
Working(p) == pc = "work" /\ run.at = p

\* run_harden reads PLAN.md, or the plan file when that is absent, and moves
\* sora_phase on itself.
HardenSource == IF fs.hardened # NoPlan THEN fs.hardened ELSE cst.plan

HardenWrites ==
    /\ Working("hardening") /\ ~shutdown
    /\ fs' = [fs EXCEPT !.hardened = HardenSource]
    /\ pc' = "hardened"
    /\ UNCHANGED <<run, disk, mem, ctx, ex, env, res>>

HardenDone ==
    /\ pc = "hardened"
    /\ SaveContext(SetSora(cst, "scout"))
    /\ run' = [run EXCEPT !.at = "scout"]
    /\ pc' = "enter"
    /\ UNCHANGED <<ctx, ex, fs, env, res>>

\* A failed harden or first architect returns without a checkpoint: STATE.json
\* stays RUNNING.
PhaseGivesUp ==
    /\ Working("hardening") \/ (Working("architect") /\ ~run.loop)
    /\ pc' = "idle"
    /\ UNCHANGED <<run, disk, mem, ctx, ex, fs, env, res>>

\* Scout and coach are not fatal.
ScoutDone ==
    /\ Working("scout")
    /\ run' = [run EXCEPT !.at = "coach"]
    /\ pc' = "enter"
    /\ UNCHANGED <<disk, mem, ctx, ex, fs, env, res>>

CoachDone ==
    /\ Working("coach")
    /\ CoachRuns(fs, fs')
    /\ run' = [run EXCEPT !.at = "architect"]
    /\ pc' = "enter"
    /\ UNCHANGED <<disk, mem, ctx, ex, env, res>>

\* In the slice loop the runner looks for a shutdown before it works.
LoopShutdown ==
    /\ pc = "work" /\ run.loop /\ shutdown
    /\ pc' = "idle"
    /\ UNCHANGED <<run, disk, mem, ctx, ex, fs, env, res>>

\* S0X-PLAN.md is written, then current_slice is saved.
ArchitectDone ==
    /\ Working("architect") /\ ~shutdown
    /\ LET s == CurrentSlice(cst)
       IN  /\ \E p \in ArchitectPlans(fs, s) :
                 fs' = [fs EXCEPT !.plans[s] = p]
           /\ SaveContext([cst EXCEPT !.slice = s])
    /\ run' = [run EXCEPT !.at = "execute"]
    /\ pc' = "enter"
    /\ UNCHANGED <<ctx, ex, env, res>>

LoopArchitectFails ==
    /\ Working("architect") /\ run.loop /\ ~shutdown
    /\ SaveRunner(Moved(rst, "failed"))
    /\ pc' = "idle"
    /\ UNCHANGED <<run, ctx, ex, fs, env, res>>

Execute ==
    /\ Working("execute") /\ ~(run.loop /\ shutdown)
    /\ ExecuteRefused \/ ExecuteStarts

\* A mutant of ExecuteFailed: failure is recorded through the context's state.
MutantFailsContext ==
    /\ pc = "execfail"
    /\ SaveContext(Moved(cst, "failed"))
    /\ ex' = ExIdle
    /\ pc' = "idle"
    /\ UNCHANGED <<run, ctx, fs, env, res>>

\* run_execute returned: failure is recorded through the runner's `state`.
ExecuteFailed ==
    /\ pc = "execfail"
    /\ SaveRunner(Moved(rst, "failed"))
    /\ ex' = ExIdle
    /\ pc' = "idle"
    /\ UNCHANGED <<run, ctx, fs, env, res>>

ExecuteSucceeded ==
    /\ pc = "execok"
    /\ ex' = ExIdle
    /\ pc' = "slice_done"
    /\ UNCHANGED <<run, disk, mem, ctx, fs, env, res>>

-----------------------------------------------------------------------------
(***************************************************************************)
(* The slice loop.                                                         *)
(***************************************************************************)

SliceDone ==
    /\ pc = "slice_done" /\ run.extra < MaxSlices - 1
    /\ SaveAndShare(SetSora(rst, "slice_done"))
    /\ pc' = IF "coach" \in Roles THEN "slice_coach" ELSE "claim"
    /\ UNCHANGED <<run, ctx, ex, fs, env, res>>

\* The END_OF_SLICE coach, then a look at the shutdown event.
SliceCoach ==
    /\ pc = "slice_coach"
    /\ CoachRuns(fs, fs')
    /\ pc' = IF shutdown THEN "idle" ELSE "claim"
    /\ UNCHANGED <<run, disk, mem, ctx, ex, env, res>>

\* _read_next_slice rewrites "[ ]" as "[~]" ...
ClaimSlice ==
    /\ pc = "claim"
    /\ \E s \in QueueSlices :
          /\ IsNext(fs.queue, s)
          /\ fs' = [fs EXCEPT !.queue[s] = "claimed"]
          /\ run' = [run EXCEPT !.nxt = s]
    /\ pc' = "adopt"
    /\ UNCHANGED <<disk, mem, ctx, ex, env, res>>

\* A mutant of AdoptSlice: current_task_index is not reset.
MutantKeepsIndex ==
    /\ pc = "adopt"
    /\ SaveRunner([rst EXCEPT !.slice = run.nxt])
    /\ ctx' = [ctx EXCEPT !.lvl = NONE, !.div = 0]
    /\ run' = [at |-> "architect", loop |-> TRUE,
               extra |-> run.extra + 1, nxt |-> NoSlice]
    /\ pc' = "enter"
    /\ UNCHANGED <<ex, fs, env, res>>

\* A mutant of AdoptSlice: extra_slices_done is not counted.
MutantUncounted ==
    /\ pc = "adopt"
    /\ SaveRunner([rst EXCEPT !.slice = run.nxt, !.idx = 0])
    /\ ctx' = [ctx EXCEPT !.lvl = NONE, !.div = 0]
    /\ run' = [run EXCEPT !.at = "architect", !.loop = TRUE, !.nxt = NoSlice]
    /\ pc' = "enter"
    /\ UNCHANGED <<ex, fs, env, res>>

\* ... and only then does STATE.json name the slice.
AdoptSlice ==
    /\ pc = "adopt"
    /\ SaveRunner([rst EXCEPT !.slice = run.nxt, !.idx = 0])
    /\ ctx' = [ctx EXCEPT !.lvl = NONE, !.div = 0]
    /\ run' = [at |-> "architect", loop |-> TRUE,
               extra |-> run.extra + 1, nxt |-> NoSlice]
    /\ pc' = "enter"
    /\ UNCHANGED <<ex, fs, env, res>>

\* A mutant of Complete: without a look at the queue.
MutantCompletesEarly ==
    /\ pc = "claim" \/ (pc = "slice_done" /\ MaxSlices <= 1)
    /\ SaveRunner(Moved(rst, "completed"))
    /\ pc' = "idle"
    /\ UNCHANGED <<run, ctx, ex, fs, env, res>>

\* No slice left, or a single slice was asked for: mark_completed.
Complete ==
    /\ \/ pc = "claim" /\ NothingToClaim(fs.queue)
       \/ pc = "slice_done" /\ MaxSlices <= 1
    /\ SaveRunner(Moved(rst, "completed"))
    /\ pc' = "idle"
    /\ UNCHANGED <<run, ctx, ex, fs, env, res>>

\* The while loop's else branch: only a message, STATE.json stays RUNNING.
SliceLimit ==
    /\ pc = "slice_done" /\ MaxSlices > 1 /\ run.extra >= MaxSlices - 1
    /\ pc' = "idle"
    /\ UNCHANGED <<run, disk, mem, ctx, ex, fs, env, res>>

-----------------------------------------------------------------------------
(***************************************************************************)
(* The idle loop.                                                          *)
(***************************************************************************)

\* The process is gone: what it kept in memory with it.
Gone ==
    /\ pc' = "down"
    /\ run' = NoRun /\ ctx' = NoCtx /\ ex' = ExIdle
    /\ rst' = Fresh /\ cst' = Fresh /\ shared' = TRUE
    /\ cmdq' = <<>> /\ shutdown' = FALSE /\ planArg' = NoPlan

\* A mutant of IdleExit: deaf to the shutdown event.
MutantDeaf ==
    /\ pc = "idle"
    /\ ~HasQueue \/ (cmdq # <<>> /\ Head1.kind = "stop")
    /\ Gone
    /\ UNCHANGED <<disk, fs, sent, faults, res>>

\* Without a queue the loop returns at once; with one it ends on a shutdown
\* request, a stop command or, where one is configured, the idle timeout.
IdleExit ==
    /\ pc = "idle"
    /\ \/ ~HasQueue
       \/ shutdown
       \/ cmdq # <<>> /\ Head1.kind = "stop"
    /\ Gone
    /\ UNCHANGED <<disk, fs, sent, faults, res>>

IdleTimeout ==
    /\ pc = "idle" /\ HasQueue /\ cmdq = <<>>
    /\ Gone
    /\ UNCHANGED <<disk, fs, sent, faults, res>>

IdleTakes(kinds) ==
    /\ pc = "idle" /\ HasQueue /\ ~shutdown
    /\ cmdq # <<>> /\ Head1.kind \in kinds
    /\ cmdq' = Tail(cmdq)

IdleNewPlan ==
    /\ IdleTakes({"new_plan"})
    /\ planArg' = Head1.plan
    /\ StartsWith(MarkStarted(disk, Head1.plan))
    /\ res' = ResAfterStart(disk, Head1.plan)
    /\ UNCHANGED <<run, ctx, ex, fs, shutdown, sent, faults>>

\* The pause key resumes a paused run.
CanResume == disk.phase = "paused" /\ planArg # NoPlan

IdleResume ==
    /\ IdleTakes({"pause", "resume"})
    /\ CanResume
    /\ StartsWith(Moved(disk, "running"))
    /\ UNCHANGED <<run, ctx, ex, fs, shutdown, planArg, sent, faults, res>>

\* A mutant of IdleDrops: what the loop does not handle goes back to the queue.
MutantRequeues ==
    /\ pc = "idle" /\ HasQueue /\ ~shutdown
    /\ cmdq # <<>>
    /\ Head1.kind \notin {"stop", "new_plan"}
    /\ Head1.kind \in {"pause", "resume"} => ~CanResume
    /\ cmdq' = Append(Tail(cmdq), Head1)
    /\ UNCHANGED <<pc, run, disk, mem, ctx, ex, fs, shutdown, planArg, sent, faults, res>>

IdleDrops ==
    /\ \/ IdleTakes(CommandKinds \ {"stop", "new_plan", "pause", "resume"})
       \/ IdleTakes({"pause", "resume"}) /\ ~CanResume
    /\ UNCHANGED <<pc, run, disk, mem, ctx, ex, fs, shutdown, planArg, sent, faults, res>>

-----------------------------------------------------------------------------
(***************************************************************************)
(* The environment.                                                        *)
(***************************************************************************)

\* The TUI puts a command into the queue, at any time.
SendCommand ==
    /\ pc # "down" /\ HasQueue /\ sent < MaxSent
    /\ \E c \in Commands : cmdq' = Append(cmdq, c)
    /\ sent' = sent + 1
    /\ UNCHANGED <<pc, run, disk, mem, ctx, ex, fs, shutdown, planArg, faults, res>>

\* A human writes OVERRIDE.md or STEER.md.
HumanWrites ==
    /\ sent < MaxSent
    /\ \/ \E o \in Overrides : fs' = [fs EXCEPT !.override = o]
       \/ HumanSteers /\ fs' = [fs EXCEPT !.steer = TRUE]
    /\ sent' = sent + 1
    /\ UNCHANGED <<pc, run, disk, mem, ctx, ex, cmdq, shutdown, planArg, faults, res>>

\* SIGTERM or SIGINT.
Signal ==
    /\ pc # "down" /\ ~shutdown /\ FaultHappens("signal")
    /\ shutdown' = TRUE
    /\ UNCHANGED <<pc, run, disk, mem, ctx, ex, fs, cmdq, planArg, sent, res>>

\* SIGKILL, a power failure, or the TUI cancelling the runner's task.
Crash ==
    /\ pc # "down" /\ FaultHappens("crash")
    /\ Gone
    /\ UNCHANGED <<disk, fs, sent, res>>

\* An exception that reaches run(): mark_failed on the runner's state if that
\* is RUNNING (and if the disk lets it), then the process ends.
UnexpectedError ==
    /\ pc # "down" /\ FaultHappens("error")
    /\ Gone
    /\ disk' \in IF rst.phase = "running" THEN {disk, Moved(rst, "failed")} ELSE {disk}
    /\ UNCHANGED <<fs, sent, res>>

-----------------------------------------------------------------------------
Boot == BootIdle \/ BootStart \/ BootResume

Runner ==
    \/ BeginPipeline
    \/ \E p \in Pipeline : EnterPhase(p)
    \/ NothingDue
    \/ DrainCommands
    \/ HardenWrites \/ HardenDone \/ PhaseGivesUp \/ ScoutDone \/ CoachDone
    \/ LoopShutdown \/ ArchitectDone \/ LoopArchitectFails
    \/ Execute \/ ExecuteNext \/ ExecuteFailed \/ ExecuteSucceeded
    \/ SliceDone \/ SliceCoach \/ ClaimSlice \/ AdoptSlice
    \/ Complete \/ SliceLimit

Idle == IdleExit \/ IdleTimeout \/ IdleNewPlan \/ IdleResume \/ IdleDrops

Environment == SendCommand \/ HumanWrites \/ Signal \/ Crash \/ UnexpectedError

Next == Boot \/ Runner \/ Idle \/ Environment

Spec == Init /\ [][Next]_vars

\* The event loop runs the runner's coroutine whenever it can run: calls of a
\* provider return or are ended by the role's timeout, and the idle loop polls.
\* An agent may produce messages as long as it likes, until that timeout.
\* Nobody owes the runner a start, a command, an edit, a signal or a fault, and
\* the idle timeout may be switched off.
Fairness ==
    /\ WF_vars(Runner)
    /\ WF_vars(BuilderFails)
    /\ WF_vars(IdleExit \/ IdleNewPlan \/ IdleResume \/ IdleDrops)

FairSpec == Spec /\ Fairness
=============================================================================
