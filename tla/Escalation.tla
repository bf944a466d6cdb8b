----------------------------- MODULE Escalation -----------------------------
(***************************************************************************)
(* Stuck detection (tero2/stuck_detection.py) and the escalation ladder    *)
(* (tero2/escalation.py) as operators on an AgentState value.  The         *)
(* execute phase and the legacy retry loop both drive them.                *)
(***************************************************************************)
EXTENDS AgentState

CONSTANTS
    StuckRetries,   \* stuck_detection.max_retries
    StepLimit,      \* stuck_detection.max_steps_per_task
    RepeatLimit,    \* stuck_detection.tool_repeat_threshold, 0 = disabled
    DivLimit,       \* escalation.diversification_max_steps
    Backtrack,      \* escalation.backtrack_to_last_checkpoint
    MaxSteps,       \* retry.max_steps_per_task, a second limit on steps
    StepCap         \* bound of the model: steps are counted up to StepCap

ASSUME LimitsAssumption ==
    /\ StuckRetries \in Nat /\ StepLimit \in Nat /\ RepeatLimit \in Nat
    /\ DivLimit \in Nat /\ Backtrack \in BOOLEAN /\ MaxSteps \in Nat
    /\ StepCap \in Nat /\ StepLimit <= StepCap

\* EscalationLevel
NONE == 0
DIVERSIFICATION == 1
BACKTRACK_COACH == 2
HUMAN == 3
Level == {NONE, DIVERSIFICATION, BACKTRACK_COACH, HUMAN}

\* check_stuck: RETRY_EXHAUSTED hides STEP_LIMIT, which hides TOOL_REPEAT.
\* tool_hash_updated is not kept: tool_repeat_count > 0 implies it.
CheckStuck(s) ==
    IF s.retry >= StuckRetries THEN "retry_exhausted"
    ELSE IF s.steps >= StepLimit THEN "step_limit"
    ELSE IF s.rep > 0 /\ RepeatLimit > 0 /\ s.rep >= RepeatLimit THEN "tool_repeat"
    ELSE "none"

\* A mutant of DecideEscalation: one attempt too many at level 1.
MutantDecideLate(signal, current, div) ==
    IF signal = "none" THEN NONE
    ELSE IF current >= BACKTRACK_COACH THEN HUMAN
    ELSE IF current = DIVERSIFICATION /\ DivLimit > 0 /\ div > DivLimit
         THEN BACKTRACK_COACH
    ELSE DIVERSIFICATION

\* decide_escalation: the level to take, from the signal, the level reached so
\* far and the number of attempts already made at level 1.
DecideEscalation(signal, current, div) ==
    IF signal = "none" THEN NONE
    ELSE IF current >= BACKTRACK_COACH THEN HUMAN
    ELSE IF current = DIVERSIFICATION /\ DivLimit > 0 /\ div >= DivLimit
         THEN BACKTRACK_COACH
    ELSE DIVERSIFICATION

\* execute_escalation: the new AgentState (always a copy, see
\* dataclasses.replace) for each level above NONE.
Escalated(s, level) ==
    CASE level = DIVERSIFICATION -> [s EXCEPT !.rep = 0]
      [] level = BACKTRACK_COACH ->
            IF Backtrack
            THEN [s EXCEPT !.steps = 0, !.retry = 0, !.rep = 0]
            ELSE s
      [] level = HUMAN -> Moved(s, "paused")
      [] OTHER -> s

\* The caller's div_steps after taking `level`.
DivAfter(level, div) ==
    IF level = DIVERSIFICATION THEN div + 1
    ELSE IF level = BACKTRACK_COACH THEN 0
    ELSE div

\* One message of an agent run: turn_end counts a step, tool_result counts a
\* step and compares the tool hash (update_tool_hash).
AfterTurnEnd(s) ==
    [s EXCEPT !.steps = IF @ < StepCap THEN @ + 1 ELSE @]

AfterToolResult(s, same) ==
    [AfterTurnEnd(s) EXCEPT !.rep = IF ~same THEN 0
                                    ELSE IF @ < StepCap THEN @ + 1 ELSE @]

\* run_agent gives the attempt up after a tool_result that leaves this state.
\* RETRY_EXHAUSTED is not among its reasons, and it hides TOOL_REPEAT.
AgentAborts(s) ==
    \/ CheckStuck(s) \in {"step_limit", "tool_repeat"}
    \/ s.steps >= MaxSteps
=============================================================================
