----------------------------- MODULE AgentState -----------------------------
(***************************************************************************)
(* The persistent state of one run (tero2/state.py) and the operations of  *)
(* the checkpoint manager that change it (tero2/checkpoint.py).            *)
(*                                                                         *)
(* A value of State is one AgentState object.  STATE.json, the runner's    *)
(* local variable `state` and RunnerContext.state are three places that    *)
(* hold such a value; the modules that EXTEND this one say when they are   *)
(* the same object.  Times, messages and the escalation level kept for display *)
(* are left out: nothing branches on them.  So is task_in_progress, which  *)
(* only words the builder's prompt.                                        *)
(***************************************************************************)
EXTENDS Integers

CONSTANTS
    Slices,     \* slice identifiers (S01, S02, ...)
    NoSlice,    \* current_slice = ""
    Plans,      \* plan files a user may ask for
    NoPlan      \* plan_file = ""

ASSUME NoSliceAssumption == NoSlice \notin Slices
ASSUME NoPlanAssumption  == NoPlan \notin Plans

Phase == {"idle", "running", "paused", "completed", "failed"}

SoraPhase == {"none", "hardening", "scout", "coach", "architect",
              "execute", "slice_done"}

\* _VALID_TRANSITIONS of the checkpoint manager; _PHASE_VALID_NEXT, the guard
\* of AgentState.__setattr__, lists the same pairs.
PhaseEdges ==
    { <<"idle", "running">>,
      <<"running", "completed">>, <<"running", "failed">>, <<"running", "paused">>,
      <<"paused", "running">>, <<"paused", "failed">>,
      <<"failed", "running">> }

\* _SORA_VALID_NEXT.  Assigning the current value again is legal from every
\* phase but "none"; SLICE_DONE -> ARCHITECT is the only way back.
SoraEdges ==
    { <<p, p>> : p \in SoraPhase \ {"none"} } \union
    { <<"none", "hardening">>, <<"none", "scout">>, <<"none", "coach">>,
      <<"none", "architect">>,
      <<"hardening", "scout">>, <<"hardening", "coach">>, <<"hardening", "architect">>,
      <<"scout", "coach">>, <<"scout", "architect">>,
      <<"coach", "architect">>,
      <<"architect", "execute">>,
      <<"execute", "slice_done">>,
      <<"slice_done", "architect">> }

\* SORA_PHASE_ORDER as positions.  NONE is in no position: index() raises and
\* _phase_already_done answers False, which position 0 gives as well.
Rank == [none |-> 0, hardening |-> 1, scout |-> 2, coach |-> 3,
         architect |-> 4, execute |-> 5, slice_done |-> 6]

PhaseAlreadyDone(current, candidate) == Rank[candidate] < Rank[current]

State ==
    [ phase  : Phase,
      sora   : SoraPhase,
      plan   : Plans \union {NoPlan},      \* plan_file
      slice  : Slices \union {NoSlice},    \* current_slice
      idx    : Nat,                        \* current_task_index
      retry  : Nat,                        \* retry_count
      steps  : Nat,                        \* steps_in_task
      rep    : Nat ]                       \* tool_repeat_count

\* AgentState(): also what from_file returns when STATE.json is absent.
Fresh ==
    [ phase |-> "idle", sora |-> "none", plan |-> NoPlan, slice |-> NoSlice,
      idx |-> 0, retry |-> 0, steps |-> 0, rep |-> 0 ]

\* What assigning to `phase` (or `sora_phase`) does not reject with
\* StateTransitionError.
MayMove(s, target) == <<s.phase, target>> \in PhaseEdges
MayAdvance(s, p)   == <<s.sora, p>> \in SoraEdges

\* CheckpointManager._transition and the mark_* operations on it.  They are
\* applied where MayMove holds; that it always does is an invariant.
Moved(s, target) == [s EXCEPT !.phase = target]

\* A mutant of MarkStarted: COMPLETED keeps what the earlier run left as well.
MutantKeepsCompleted(prior, plan) ==
    [prior EXCEPT !.phase = "running", !.plan = plan]

\* mark_started: IDLE, FAILED and PAUSED keep everything the earlier run left
\* behind, RUNNING is staged through IDLE and keeps it too, COMPLETED is
\* replaced by a fresh state.
MarkStarted(prior, plan) ==
    LET kept == IF prior.phase = "completed" THEN Fresh ELSE prior
    IN  [kept EXCEPT !.phase = "running", !.plan = plan]

SetSora(s, p) == [s EXCEPT !.sora = p]
=============================================================================
