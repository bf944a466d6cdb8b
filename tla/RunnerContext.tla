--------------------------- MODULE RunnerContext ---------------------------
(***************************************************************************)
(* What the runner and its phases share (tero2/phases/context.py and the   *)
(* attributes of Runner): the AgentState objects in memory and on disk,    *)
(* the files under .sora/ and the command queue.                           *)
(*                                                                         *)
(* STATE.json is `disk`.  In memory there are two references, the runner's *)
(* local `state` (rst) and RunnerContext.state (cst).  They start out as   *)
(* one object; dataclasses.replace makes cst a new one, and from then on   *)
(* what a phase writes to cst is not seen through rst.  `shared` says      *)
(* whether they are the same object.                                       *)
(***************************************************************************)
EXTENDS Escalation, Sequences, FiniteSets

CONSTANTS
    First,        \* the slice executed first, "S01"
    Extra,        \* TASK_QUEUE.md: the other slices in line order
    NumTasks,     \* tasks the architect puts into a slice
    MaxCycles,    \* reflexion.max_cycles: retries of a task
    MaxSlices,    \* config.max_slices
    Roles,        \* configured roles among reviewer, scout, coach, verifier
    HasQueue,     \* a command queue exists (tero2 go) or not (tero2 run)
    CliPlans,     \* plans a new process may be started with
    Commands,     \* commands the TUI may enqueue
    Overrides,    \* what a human may write to OVERRIDE.md
    HumanSteers,  \* whether a human may write STEER.md
    CoachQueues,  \* queues a coach run may write to TASK_QUEUE.md
    MaxSent,      \* bound: commands and human writes in a behaviour
    FaultKinds,   \* which faults may happen
    MaxFaults     \* bound: faults in a behaviour

Tasks == 0 .. NumTasks - 1

QueueSlices == { Extra[i] : i \in DOMAIN Extra }
\* TASK_QUEUE.md: which lines exist, and are "[ ]" or "[~]".
Queue == [QueueSlices -> {"absent", "todo", "claimed"}]

CommandKinds == {"stop", "pause", "resume", "skip_task", "steer",
                 "stuck_option_5", "new_plan", "other"}

ASSUME SliceAssumption ==
    /\ First \in Slices
    /\ Extra \in Seq(Slices \ {First})
ASSUME BoundAssumption ==
    /\ NumTasks \in Nat /\ MaxCycles \in Nat /\ MaxSlices \in Nat
    /\ MaxSent \in Nat /\ MaxFaults \in Nat
ASSUME ConfigAssumption ==
    /\ Roles \subseteq {"reviewer", "scout", "coach", "verifier"}
    /\ HasQueue \in BOOLEAN /\ HumanSteers \in BOOLEAN
    /\ CliPlans \subseteq Plans \union {NoPlan}
    /\ Overrides \subseteq {"STOP", "PAUSE"}
    /\ FaultKinds \subseteq {"signal", "crash", "error", "disk"}
    /\ CoachQueues \subseteq Queue
    /\ Commands \subseteq [kind : CommandKinds, plan : Plans \union {NoPlan}]

VARIABLES
    pc,        \* where the runner's coroutine is
    run,       \* the locals of _execute_sora
    disk,      \* STATE.json
    rst,       \* the runner's `state` (and Runner._current_state)
    cst,       \* RunnerContext.state
    shared,    \* rst and cst are one object
    ctx,       \* escalation_level, div_steps and skip_requested of the context
    ex,        \* the locals of run_execute
    fs,        \* the other files under .sora/
    cmdq,      \* the command queue
    shutdown,  \* the shutdown event
    planArg,   \* Runner.plan_file
    sent,      \* commands and human writes so far
    faults,    \* faults so far
    res        \* ghost: what became of each task under the current plan

mem  == <<rst, cst, shared>>
env  == <<cmdq, shutdown, planArg, sent, faults>>
vars == <<pc, run, disk, mem, ctx, ex, fs, env, res>>

(***************************************************************************)
(* Writing the state.  Every checkpoint operation saves before it returns, *)
(* and a save is atomic (temporary file and os.replace).                   *)
(***************************************************************************)

\* checkpoint.*(state): through the runner's reference.
SaveRunner(s) ==
    /\ rst' = s
    /\ disk' = s
    /\ cst' = IF shared THEN s ELSE cst
    /\ UNCHANGED shared

\* checkpoint.*(state) followed by ctx.state = state.
SaveAndShare(s) ==
    /\ rst' = s /\ cst' = s /\ disk' = s
    /\ shared' = TRUE

\* A mutant of SaveContext: the runner's reference is never the same object.
MutantSavesApart(s) ==
    /\ cst' = s
    /\ disk' = s
    /\ UNCHANGED <<rst, shared>>

\* checkpoint.*(ctx.state): through the context's reference.
SaveContext(s) ==
    /\ cst' = s
    /\ disk' = s
    /\ rst' = IF shared THEN s ELSE rst
    /\ UNCHANGED shared

\* A mutant of SaveCopy: replaced, and never saved.
MutantCopyUnsaved(s) ==
    /\ cst' = s
    /\ shared' = FALSE
    /\ UNCHANGED <<rst, disk>>

\* ctx.state = checkpoint.*(replace(ctx.state, ...)): a new object.
SaveCopy(s) ==
    /\ cst' = s /\ disk' = s
    /\ shared' = FALSE
    /\ UNCHANGED rst

\* ctx.state.field = ...: not saved.
TouchContext(s) ==
    /\ cst' = s
    /\ rst' = IF shared THEN s ELSE rst
    /\ UNCHANGED <<disk, shared>>

\* One fault of the given kind happens in this step.
FaultHappens(kind) ==
    /\ kind \in FaultKinds /\ faults < MaxFaults
    /\ faults' = faults + 1

(***************************************************************************)
(* Files.                                                                  *)
(***************************************************************************)

\* The slice the phases work on: state.current_slice or "S01".
CurrentSlice(s) == IF s.slice = NoSlice THEN First ELSE s.slice

\* What the architect decomposes: PLAN.md, or ROADMAP.md when it is absent.
PlanSource(f) == IF f.hardened # NoPlan THEN f.hardened ELSE f.roadmap

\* What it may write for a slice: an answer to that, or an earlier S0X-PLAN.md
\* when the answer held no tasks.
ArchitectPlans(f, s) == {PlanSource(f), f.plans[s]} \ {NoPlan}

\* _read_next_slice: the first "[ ]" line of TASK_QUEUE.md.
IsNext(q, s) ==
    \E i \in DOMAIN Extra :
        /\ Extra[i] = s
        /\ q[s] = "todo"
        /\ \A j \in 1 .. i - 1 : q[Extra[j]] # "todo"

NothingToClaim(q) == \A s \in QueueSlices : q[s] # "todo"

\* The task queue a coach's answer leaves: its own, or what there was.
CoachSays(f) == CoachQueues \union {f.queue}

\* A coach run rewrites TASK_QUEUE.md or leaves it; a run that wrote any
\* section also clears STEER.md.  Without the role, after a shutdown request
\* or on a provider failure it changes nothing.
CoachRuns(f, g) ==
    \/ g = f
    \/ /\ "coach" \in Roles /\ ~shutdown
       /\ \E q \in CoachSays(f) :
             g = [f EXCEPT !.queue = q, !.steer = FALSE]
=============================================================================
