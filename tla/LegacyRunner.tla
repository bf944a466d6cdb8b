---------------------------- MODULE LegacyRunner ----------------------------
(***************************************************************************)
(* The runner of a configuration without a builder role (tero2/runner.py,  *)
(* _execute_legacy): no phases and no slices, one agent that is run on the *)
(* whole plan until it succeeds, with its own retry loop, escalation and   *)
(* wait for OVERRIDE.md.  Start-up, idle loop, commands, files and crashes *)
(* are those of SoraRunner; which of the two runners _execute_plan calls   *)
(* is the configuration's choice, the same for all processes.              *)
(***************************************************************************)
EXTENDS SoraProperties

CONSTANT
    MaxRetries     \* retry.max_retries

ASSUME MaxRetriesAssumption == MaxRetries \in Nat

VARIABLES
    builder,    \* "builder" in config.roles
    lg          \* the place in _run_legacy_agent ("away" outside it) and its
                \* loop variable

legacyVars == <<vars, builder, lg>>

Away == [at |-> "away", att |-> 0]

Attempts == IF MaxRetries < MaxCycles + 1 THEN MaxRetries ELSE MaxCycles + 1

At(place) == pc = "legacy" /\ lg.at = place
GoTo(place) == lg' = [lg EXCEPT !.at = place] /\ UNCHANGED <<pc, builder>>

\* _run_legacy_agent returns, and the runner idles.
Return == pc' = "idle" /\ lg' = Away /\ UNCHANGED builder

\* state = checkpoint.*(replace(state, ...)): the context keeps the old object.
SaveRunnerCopy(s) ==
    /\ rst' = s /\ disk' = s
    /\ shared' = FALSE
    /\ UNCHANGED cst

Level0(c) == [c EXCEPT !.lvl = NONE, !.div = 0]

LegacyBegins ==
    /\ pc = "start" /\ ~builder
    /\ ctx' = NoCtx
    /\ pc' = "legacy" /\ lg' = [at |-> "loop", att |-> rst.retry]
    /\ UNCHANGED <<builder, run, disk, mem, ex, fs, env, res>>

LegacyPlanIsEmpty ==
    /\ pc = "start" /\ ~builder
    /\ SaveRunner(Moved(rst, "failed"))
    /\ Return
    /\ UNCHANGED <<run, ctx, ex, fs, env, res>>

\* What OVERRIDE.md says, STOP before PAUSE.
Directive == fs.override

\* A shutdown request at the top of the loop, in a retry's wait, or while the
\* run is paused: STATE.json stays as it is, RUNNING or PAUSED.
LegacyShutdown ==
    /\ \/ At("loop") /\ lg.att < Attempts
       \/ At("wait")
       \/ At("paused") /\ Directive # "STOP"
    /\ shutdown
    /\ Return
    /\ UNCHANGED <<run, disk, mem, ctx, ex, fs, env, res>>

\* A first attempt is made without a look at the stuck counters.
Retries == At("loop") /\ lg.att < Attempts /\ ~shutdown /\ lg.att > 0
LegacyLevel == DecideEscalation(CheckStuck(rst), ctx.lvl, ctx.div)

LegacyFirst ==
    /\ At("loop") /\ lg.att < Attempts /\ ~shutdown /\ lg.att = 0
    /\ GoTo("override")
    /\ UNCHANGED <<run, disk, mem, ctx, ex, fs, env, res>>

LegacyRetry ==
    /\ Retries /\ LegacyLevel = NONE
    /\ ctx' = Level0(ctx)
    /\ GoTo("wait")
    /\ UNCHANGED <<run, disk, mem, ex, fs, env, res>>

LegacyEscalates ==
    /\ Retries /\ LegacyLevel \in {DIVERSIFICATION, BACKTRACK_COACH}
    /\ SaveRunnerCopy(Escalated(rst, LegacyLevel))
    /\ ctx' = [ctx EXCEPT !.lvl = LegacyLevel, !.div = DivAfter(LegacyLevel, @)]
    /\ GoTo("wait")
    /\ UNCHANGED <<run, ex, fs, env, res>>

\* Level 3, or stuck after the last attempt, whatever the level then.
LegacyAsksHuman ==
    /\ \/ Retries /\ LegacyLevel = HUMAN
       \/ At("loop") /\ lg.att >= Attempts /\ CheckStuck(rst) # "none"
    /\ SaveRunnerCopy(Escalated(rst, HUMAN))
    /\ ctx' = [ctx EXCEPT !.lvl = HUMAN]
    /\ Return
    /\ UNCHANGED <<run, ex, fs, env, res>>

LegacyGivesUp ==
    /\ At("loop") /\ lg.att >= Attempts /\ CheckStuck(rst) = "none"
    /\ SaveRunner(Moved(rst, "failed"))
    /\ Return
    /\ UNCHANGED <<run, ctx, ex, fs, env, res>>

\* The last tick of the wait is not followed by a look at the shutdown event,
\* and a wait of no length has none.
LegacyWaited ==
    /\ At("wait")
    /\ GoTo("override")
    /\ UNCHANGED <<run, disk, mem, ctx, ex, fs, env, res>>

\* STOP ends the run, also while it is paused.  OVERRIDE.md is never cleared.
LegacyStopped ==
    /\ At("override") \/ At("paused")
    /\ Directive = "STOP"
    /\ SaveRunner(Moved(rst, "failed"))
    /\ Return
    /\ UNCHANGED <<run, ctx, ex, fs, env, res>>

LegacyPauses ==
    /\ At("override") /\ Directive = "PAUSE"
    /\ SaveRunner(Moved(rst, "paused"))
    /\ GoTo("paused")
    /\ UNCHANGED <<run, ctx, ex, fs, env, res>>

\* A mutant of StartsAgent: ctx.state keeps the object it had.
MutantStaleContext(s) ==
    /\ rst' = s /\ disk' = s
    /\ cst' = IF shared THEN s ELSE cst
    /\ UNCHANGED shared
    /\ GoTo("agent")

\* ctx.state = state, and run_agent.
StartsAgent(s) ==
    /\ SaveAndShare(s)
    /\ GoTo("agent")

LegacyRuns ==
    /\ At("override") /\ Directive = "none"
    /\ StartsAgent(rst)
    /\ UNCHANGED <<run, ctx, ex, fs, env, res>>

\* PAUSE is gone: mark_running, and the escalation starts again.
LegacyResumes ==
    /\ At("paused") /\ Directive = "none"
    /\ StartsAgent(Moved(rst, "running"))
    /\ ctx' = Level0(ctx)
    /\ UNCHANGED <<run, ex, fs, env, res>>

\* run_agent counts through the context.
LegacyTurnEnd ==
    /\ At("agent") /\ cst.steps < StepCap
    /\ SaveContext(AfterTurnEnd(cst))
    /\ UNCHANGED <<pc, builder, lg, run, ctx, ex, fs, env, res>>

LegacyToolResult ==
    /\ At("agent")
    /\ \E same \in BOOLEAN :
          LET s == AfterToolResult(cst, same)
          IN  s # cst /\ ~AgentAborts(s) /\ SaveCopy(s)
    /\ UNCHANGED <<pc, builder, lg, run, ctx, ex, fs, env, res>>

LegacySucceeds ==
    /\ At("agent")
    /\ SaveAndShare(Moved(cst, "completed"))
    /\ Return
    /\ UNCHANGED <<run, ctx, ex, fs, env, res>>

\* An error, the timeout, or a tool result that makes run_agent give up, whose
\* counts increment_retry sets back at once.
LegacyFails ==
    /\ At("agent")
    /\ SaveAndShare([cst EXCEPT !.retry = @ + 1, !.steps = 0, !.rep = 0])
    /\ lg' = [at |-> "loop", att |-> lg.att + 1]
    /\ UNCHANGED <<pc, builder, run, ctx, ex, fs, env, res>>

LegacyStep ==
    \/ LegacyBegins \/ LegacyPlanIsEmpty \/ LegacyShutdown
    \/ LegacyFirst \/ LegacyRetry \/ LegacyEscalates \/ LegacyAsksHuman
    \/ LegacyGivesUp \/ LegacyWaited \/ LegacyStopped \/ LegacyPauses
    \/ LegacyRuns \/ LegacyResumes
    \/ LegacyTurnEnd \/ LegacyToolResult \/ LegacySucceeds \/ LegacyFails

\* While this runner works a human may change OVERRIDE.md, and a signal arrive, at
\* any time, out of the bounds on what may happen to the other.
HumanDirects ==
    /\ pc = "legacy"
    /\ \E o \in {"none", "STOP", "PAUSE"} : fs' = [fs EXCEPT !.override = o]
    /\ UNCHANGED <<pc, builder, lg, run, disk, mem, ctx, ex, env, res>>

LegacySignal ==
    /\ pc = "legacy"
    /\ shutdown' = TRUE
    /\ UNCHANGED <<pc, builder, lg, run, disk, mem, ctx, ex, fs, cmdq, planArg,
                   sent, faults, res>>

\* What both runners share; the process may go anywhere in it.
Shared ==
    /\ Boot \/ (builder /\ Runner) \/ Idle \/ Environment
    /\ lg' = IF pc' = "legacy" THEN lg ELSE Away
    /\ UNCHANGED builder

DispatchInit == Init /\ builder \in BOOLEAN /\ lg = Away
DispatchNext == Shared \/ LegacyStep \/ HumanDirects \/ LegacySignal
DispatchSpec == DispatchInit /\ [][DispatchNext]_legacyVars

-----------------------------------------------------------------------------
\* The retry loop holds its own reference to the state, which escalation and
\* pause replace, while the agent counts through the context's.  Whenever the
\* process may be killed the file is the object in use, so a restart finds the
\* attempt it is at; and an agent runs only in a RUNNING state that has not
\* been handed to a human (runner.py:443-603, context.py:184-220).
LegacyAgentIsOnDisk ==
    pc = "legacy" =>
        IF lg.at = "agent"
        THEN disk = cst /\ cst.phase = "running" /\ ctx.lvl # HUMAN
        ELSE disk = rst
=============================================================================
