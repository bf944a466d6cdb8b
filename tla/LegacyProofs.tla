---------------------------- MODULE LegacyProofs ----------------------------
(***************************************************************************)
(* Theorems about the runner without a builder, and about a process that   *)
(* is given one of the two runners.  What both share takes steps of        *)
(* SoraRunner, so that what SoraTypeProofs and SoraProofs say of a step    *)
(* holds here too; only the steps of the legacy loop are new.              *)
(***************************************************************************)
EXTENDS SoraProofs, LegacyRunner

-----------------------------------------------------------------------------
(***************************************************************************)
(* The shared steps.                                                       *)
(***************************************************************************)

\* They are steps of SoraRunner.
LEMMA SharedIsNext ==
  ASSUME Shared PROVE Next
  BY DEF Shared, Next

\* None of which enters or leaves the legacy loop, but for the end of the process.
LEMMA SharedStaysOut ==
  ASSUME [Next]_vars
  PROVE  IF pc = "legacy" THEN pc' \in {"legacy", "down"} ELSE pc' # "legacy"
<1>1. CASE Runner /\ ~ExecuteNext
  <2>1. pc # "legacy"
    BY <1>1, RunnerIsBusy
  <2>2. CASE \/ BeginPipeline \/ (\E p \in Pipeline : EnterPhase(p)) \/ NothingDue \/ HardenWrites
             \/ HardenDone \/ PhaseGivesUp \/ ScoutDone \/ CoachDone \/ LoopShutdown
             \/ ArchitectDone \/ LoopArchitectFails \/ Execute
    BY <2>1, <2>2 DEF BeginPipeline, EnterPhase, NothingDue, HardenWrites, HardenDone,
       PhaseGivesUp, ScoutDone, CoachDone, LoopShutdown, ArchitectDone, LoopArchitectFails,
       Execute, ExecuteRefused, ExecuteStarts, Fail
  <2>3. CASE \/ ExecuteFailed \/ ExecuteSucceeded \/ SliceDone \/ SliceCoach \/ ClaimSlice
             \/ AdoptSlice \/ Complete \/ SliceLimit
    BY <2>1, <2>3 DEF ExecuteFailed, ExecuteSucceeded, SliceDone, SliceCoach, ClaimSlice,
       AdoptSlice, Complete, SliceLimit
  <2>4. CASE DrainCommands
    BY <2>1, <2>4 DEF DrainCommands, DrainStop, DrainPause, DrainHumanPause, DrainSteer,
       DrainSkip, DrainNewPlan, DrainOther, Drained
  <2> QED BY <1>1, <2>2, <2>3, <2>4 DEF Runner
<1>2. CASE ExecuteNext
  BY <1>2, ExecuteIsInTask, ExecutePlaces DEF InTask
<1>3. CASE Boot \/ Idle
  BY <1>3 DEF Boot, BootIdle, BootStart, BootResume, Idle, IdleExit, IdleTimeout, IdleNewPlan,
     IdleResume, IdleDrops, IdleTakes, StartsWith, Gone
<1>4. CASE Environment \/ UNCHANGED vars
  BY <1>4 DEF Environment, SendCommand, HumanWrites, Signal, Crash, UnexpectedError, Gone, vars
<1> QED BY <1>1, <1>2, <1>3, <1>4 DEF Next

\* The steps of the legacy loop are those of a process in it, or about to enter.
LEMMA LegacyIsInLoop ==
  ASSUME LegacyStep \/ HumanDirects \/ LegacySignal
  PROVE  pc = "legacy" \/ (pc = "start" /\ ~builder)
  BY DEF LegacyStep, LegacyBegins, LegacyPlanIsEmpty, LegacyShutdown, LegacyFirst, LegacyRetry,
     LegacyEscalates, LegacyAsksHuman, Retries, LegacyGivesUp, LegacyWaited, LegacyStopped,
     LegacyPauses, LegacyRuns, LegacyResumes, LegacyTurnEnd, LegacyToolResult, LegacySucceeds,
     LegacyFails, HumanDirects, LegacySignal, At

\* A process with a builder runs the pipeline and nothing else: every theorem
\* about Spec is one about it.
THEOREM BuilderRunsSora == DispatchSpec /\ builder => Spec
<1> DEFINE Sora == builder /\ pc # "legacy"
<1>1. DispatchInit /\ builder => Init /\ Sora
  BY DEF DispatchInit, Init
<1>2. Sora /\ [DispatchNext]_legacyVars => Sora' /\ [Next]_vars
  <2> SUFFICES ASSUME Sora, [DispatchNext]_legacyVars PROVE Sora' /\ [Next]_vars
    OBVIOUS
  <2>1. ~(LegacyStep \/ HumanDirects \/ LegacySignal)
    BY LegacyIsInLoop DEF LegacyStep, LegacyBegins, LegacyPlanIsEmpty, At
  <2>2. CASE Shared
    BY <2>2, SharedIsNext, SharedStaysOut DEF Shared
  <2>3. CASE UNCHANGED legacyVars
    BY <2>3 DEF legacyVars, vars
  <2> QED BY <2>1, <2>2, <2>3 DEF DispatchNext
<1> HIDE DEF Sora
<1> QED BY <1>1, <1>2, PTL DEF DispatchSpec, Spec

-----------------------------------------------------------------------------
(***************************************************************************)
(* The inductive invariant.  The retry loop holds the object that was saved *)
(* last, except while an agent runs: then the context's is newer.          *)
(***************************************************************************)

LegacyPlaces == {"away", "loop", "wait", "override", "paused", "agent"}

LegacyObjects ==
    /\ lg.at \in {"loop", "wait", "override"} => disk = rst /\ rst.phase = "running"
    /\ lg.at = "paused" => disk = rst /\ rst.phase = "paused"
    /\ lg.at = "agent" => /\ disk = cst /\ cst.phase = "running"
                          /\ rst.phase = "running" /\ cst.sora = rst.sora

LegacyBound == lg.at \in {"wait", "override", "paused", "agent"} => lg.att < Attempts

LegacyInv ==
    /\ lg \in [at : LegacyPlaces, att : Nat] /\ builder \in BOOLEAN
    /\ pc = "legacy" <=> lg.at # "away"
    /\ LegacyObjects
    /\ LegacyBound

DispatchInv == IInv /\ Ladder /\ LegacyInv

\* The shared steps keep it: within the legacy loop they leave the states alone
\* or end the process.
LEMMA SharedStep ==
  ASSUME DispatchInv, Shared PROVE DispatchInv'
<1> USE DEF DispatchInv
<1>1. [Next]_vars
  BY SharedIsNext
<1>2. IInv'
  BY <1>1, InvStep
<1>3. Ladder'
  BY <1>1, LadderStep
<1>4. LegacyInv'
  <2>1. CASE pc' # "legacy"
    <3>1. lg' = Away /\ builder' = builder
      BY <2>1 DEF Shared
    <3> QED
      BY <2>1, <3>1 DEF Away, LegacyInv, LegacyPlaces, LegacyObjects, LegacyBound
  <2>2. CASE pc' = "legacy"
    <3>1. pc = "legacy"
      BY <1>1, <2>2, SharedStaysOut
    <3>2. ~Boot /\ ~Runner /\ ~Idle
      BY <3>1, RunnerIsBusy DEF Boot, BootIdle, BootStart, BootResume, Idle, IdleExit,
         IdleTimeout, IdleNewPlan, IdleResume, IdleDrops, IdleTakes
    <3>3. UNCHANGED <<disk, mem>>
      BY <2>2, <3>2 DEF Shared, Environment, SendCommand, HumanWrites, Signal, Crash,
         UnexpectedError, Gone
    <3>4. lg' = lg /\ builder' = builder
      BY <2>2 DEF Shared
    <3> QED BY <2>2, <3>1, <3>3, <3>4 DEF LegacyInv, LegacyObjects, LegacyBound, Attempts, mem
  <2> QED BY <2>1, <2>2
<1> QED BY <1>2, <1>3, <1>4

-----------------------------------------------------------------------------
(***************************************************************************)
(* The steps of the legacy loop.                                           *)
(***************************************************************************)

\* What an attempt that failed hands to the next.
RetriedState(s) == [s EXCEPT !.retry = @ + 1, !.steps = 0, !.rep = 0]

\* It is a state in the same phases.
LEMMA RetriedStateFacts ==
  ASSUME NEW s \in State
  PROVE  RetriedState(s) \in State /\ RetriedState(s).phase = s.phase /\ RetriedState(s).sora = s.sora
<1>1. s.retry + 1 \in Nat /\ 0 \in Nat
  BY DEF State
<1> QED BY <1>1 DEF RetriedState, State

\* The level the legacy loop takes next, from the object it holds.
LEMMA LegacyLevelType ==
  ASSUME IInv PROVE LegacyLevel \in Level
  BY DecideType DEF LegacyLevel, IInv, TypeOK, LocalsOK, Context

\* The steps keep the types of the objects and of the file.
LEMMA LegacyStates ==
  ASSUME IInv, LegacyStep \/ HumanDirects \/ LegacySignal PROVE StatesOK'
<1> USE DEF IInv, TypeOK, StatesOK, mem, env
<1>1. \A p \in Phase : Moved(rst, p) \in State /\ Moved(cst, p) \in State
  BY MovedType
<1>2. {"failed", "paused", "running", "completed"} \subseteq Phase
  BY DEF Phase
<1>3. CASE \/ LegacyBegins \/ LegacyShutdown \/ LegacyFirst \/ LegacyRetry \/ LegacyWaited
           \/ HumanDirects \/ LegacySignal
  BY <1>3 DEF LegacyBegins, LegacyShutdown, LegacyFirst, LegacyRetry, LegacyWaited, HumanDirects,
     LegacySignal
<1>4. CASE LegacyPlanIsEmpty \/ LegacyGivesUp \/ LegacyStopped \/ LegacyPauses
  BY <1>1, <1>2, <1>4, SaveTypes DEF LegacyPlanIsEmpty, LegacyGivesUp, LegacyStopped, LegacyPauses
<1>5. CASE LegacyEscalates \/ LegacyAsksHuman
  <2>1. Escalated(rst, LegacyLevel) \in State /\ Escalated(rst, HUMAN) \in State
    BY EscalatedType, LegacyLevelType DEF Level, HUMAN
  <2> QED BY <1>5, <2>1 DEF LegacyEscalates, LegacyAsksHuman, SaveRunnerCopy
<1>6. CASE LegacyRuns \/ LegacyResumes \/ LegacySucceeds
  BY <1>1, <1>2, <1>6, SaveTypes DEF LegacyRuns, LegacyResumes, LegacySucceeds, StartsAgent
<1>7. CASE LegacyTurnEnd
  BY <1>7, AfterTurnEndType, SaveTypes DEF LegacyTurnEnd
<1>8. CASE LegacyToolResult
  <2>1. PICK same \in BOOLEAN : SaveCopy(AfterToolResult(cst, same))
    BY <1>8 DEF LegacyToolResult
  <2> QED BY <2>1, AfterToolResultType, SaveTypes
<1>9. CASE LegacyFails
  <2>1. SaveAndShare(RetriedState(cst))
    BY <1>9 DEF LegacyFails, RetriedState
  <2> QED BY <2>1, RetriedStateFacts, SaveTypes
<1> QED BY <1>3, <1>4, <1>5, <1>6, <1>7, <1>8, <1>9 DEF LegacyStep

\* They keep the ladder of escalation.
LEMMA LegacyLadder ==
  ASSUME IInv, Ladder, LegacyStep \/ HumanDirects \/ LegacySignal PROVE LocalsOK' /\ Ladder'
<1> USE LimitsAssumption DEF IInv, TypeOK, LocalsOK, Ladder, mem, env
<1>1. Level0(ctx) \in Context /\ Level0(ctx).lvl = NONE /\ Level0(ctx).div = 0
  BY DEF Level0, Context, Level
<1>2. NONE # HUMAN /\ {NONE, HUMAN} \subseteq Level
  BY DEF NONE, HUMAN, Level
<1>3. CASE LegacyBegins
  BY <1>2, <1>3, NoCtxType DEF LegacyBegins, NoCtx
<1>4. CASE \/ LegacyPlanIsEmpty \/ LegacyShutdown \/ LegacyFirst \/ LegacyGivesUp \/ LegacyWaited
           \/ LegacyStopped \/ LegacyPauses \/ LegacyRuns \/ LegacyTurnEnd \/ LegacyToolResult
           \/ LegacySucceeds \/ LegacyFails \/ HumanDirects \/ LegacySignal
  <2>1. ctx' = ctx /\ ex' = ex
    BY <1>4 DEF LegacyPlanIsEmpty, LegacyShutdown, LegacyFirst, LegacyGivesUp, LegacyWaited,
       LegacyStopped, LegacyPauses, LegacyRuns, LegacyTurnEnd, LegacyToolResult,
       LegacySucceeds, LegacyFails, HumanDirects, LegacySignal
  <2>2. pc' = pc \/ pc' \in {"idle", "legacy"}
    BY <1>4 DEF LegacyPlanIsEmpty, LegacyShutdown, LegacyFirst, LegacyGivesUp, LegacyWaited,
       LegacyStopped, LegacyPauses, LegacyRuns, LegacyTurnEnd, LegacyToolResult,
       LegacySucceeds, LegacyFails, HumanDirects, LegacySignal, GoTo, Return, StartsAgent
  <2>3. pc' # "legacy" \/ ctx.lvl # HUMAN
    <3>1. pc' = "legacy" => pc = "legacy"
      BY <1>4 DEF LegacyPlanIsEmpty, LegacyShutdown, LegacyFirst, LegacyGivesUp, LegacyWaited,
         LegacyStopped, LegacyPauses, LegacyRuns, LegacyTurnEnd, LegacyToolResult,
         LegacySucceeds, LegacyFails, HumanDirects, LegacySignal, At, Return
    <3> QED BY <3>1
  <2> QED BY <2>1, <2>2, <2>3
<1>5. CASE LegacyRetry \/ LegacyResumes
  BY <1>1, <1>2, <1>5 DEF LegacyRetry, LegacyResumes
<1>6. CASE LegacyAsksHuman
  <2>1. ctx' = [ctx EXCEPT !.lvl = HUMAN] /\ pc' = "idle" /\ ex' = ex
    BY <1>6 DEF LegacyAsksHuman, Return
  <2>2. ctx' \in Context /\ ctx'.lvl = HUMAN /\ ctx'.div = ctx.div
    BY <1>2, <2>1 DEF Context
  <2> QED BY <1>2, <2>1, <2>2
<1>7. CASE LegacyEscalates
  <2>1. /\ LegacyLevel \in {DIVERSIFICATION, BACKTRACK_COACH} /\ ex' = ex
        /\ ctx' = [ctx EXCEPT !.lvl = LegacyLevel, !.div = DivAfter(LegacyLevel, @)]
    BY <1>7 DEF LegacyEscalates
  <2>2. /\ DivAfter(LegacyLevel, ctx.div) \in Nat
        /\ DivLimit > 0 => DivAfter(LegacyLevel, ctx.div) <= DivLimit
    BY <2>1, LevelFacts DEF LegacyLevel, NONE, DIVERSIFICATION, BACKTRACK_COACH
  <2>3. /\ ctx' \in Context /\ ctx'.lvl = LegacyLevel
        /\ ctx'.div = DivAfter(LegacyLevel, ctx.div)
    BY <2>1, <2>2, LegacyLevelType DEF Context
  <2> QED BY <2>1, <2>2, <2>3 DEF NONE, DIVERSIFICATION, BACKTRACK_COACH, HUMAN
<1> QED BY <1>3, <1>4, <1>5, <1>6, <1>7 DEF LegacyStep

\* They keep the other types.
LEMMA LegacyTypes ==
  ASSUME IInv, LegacyStep \/ HumanDirects \/ LegacySignal
  PROVE  PlaceOK' /\ FilesOK' /\ EnvOK' /\ TaskBounds'
<1> USE DEF IInv, TypeOK, PlaceOK, FilesOK, EnvOK, TaskBounds, mem, env
<1>1. pc' \in {"legacy", "idle"}
  <2>1. pc = "legacy" \/ pc' \in {"legacy", "idle"}
    BY LegacyIsInLoop DEF LegacyStep, LegacyBegins, LegacyPlanIsEmpty, Return, HumanDirects,
       LegacySignal, At, LegacyShutdown, LegacyFirst, LegacyRetry, LegacyEscalates,
       LegacyAsksHuman, Retries, LegacyGivesUp, LegacyWaited, LegacyStopped, LegacyPauses,
       LegacyRuns, LegacyResumes, LegacyTurnEnd, LegacyToolResult, LegacySucceeds, LegacyFails
  <2>2. pc' = pc \/ pc' \in {"legacy", "idle"}
    BY DEF LegacyStep, LegacyBegins, LegacyPlanIsEmpty, Return, HumanDirects, LegacySignal,
       LegacyShutdown, LegacyFirst, LegacyRetry, LegacyEscalates, LegacyAsksHuman,
       LegacyGivesUp, LegacyWaited, LegacyStopped, LegacyPauses, LegacyRuns, LegacyResumes,
       LegacyTurnEnd, LegacyToolResult, LegacySucceeds, LegacyFails, GoTo, StartsAgent
  <2> QED BY <2>1, <2>2
<1>2. UNCHANGED <<run, ex, res>>
  BY DEF LegacyStep, LegacyBegins, LegacyPlanIsEmpty, LegacyShutdown, LegacyFirst, LegacyRetry,
     LegacyEscalates, LegacyAsksHuman, LegacyGivesUp, LegacyWaited, LegacyStopped, LegacyPauses,
     LegacyRuns, LegacyResumes, LegacyTurnEnd, LegacyToolResult, LegacySucceeds, LegacyFails,
     HumanDirects, LegacySignal
<1>3. CASE LegacyStep
  <2>1. UNCHANGED <<fs, env>>
    BY <1>3 DEF LegacyStep, LegacyBegins, LegacyPlanIsEmpty, LegacyShutdown, LegacyFirst,
       LegacyRetry, LegacyEscalates, LegacyAsksHuman, LegacyGivesUp, LegacyWaited, LegacyStopped,
       LegacyPauses, LegacyRuns, LegacyResumes, LegacyTurnEnd, LegacyToolResult,
       LegacySucceeds, LegacyFails
  <2> QED BY <1>1, <1>2, <2>1 DEF PCs
<1>4. CASE HumanDirects
  <2>1. fs' \in Files
    BY <1>4 DEF HumanDirects, Files
  <2> QED BY <1>1, <1>2, <1>4, <2>1 DEF HumanDirects, PCs
<1>5. CASE LegacySignal
  BY <1>1, <1>2, <1>5 DEF LegacySignal, PCs
<1> QED BY <1>3, <1>4, <1>5

\* A return leaves the idle loop an object that agrees with the file.
LEMMA LegacyReturns ==
  ASSUME DispatchInv, Return, run' = run,
         disk'.phase = rst'.phase, disk'.sora = rst'.sora, shared' => rst' = cst'
  PROVE  Control' /\ LegacyInv'
<1>1. pc' = "idle" /\ lg' = Away /\ builder' = builder
  BY DEF Return
<1>2. Control'
  BY <1>1 DEF DispatchInv, IInv, Control, References, Progress, Executing, Together, InTask
<1>3. LegacyInv'
  BY <1>1 DEF DispatchInv, LegacyInv, LegacyPlaces, LegacyObjects, LegacyBound, Away
<1> QED BY <1>2, <1>3

\* A step within the loop.
LEMMA LegacyGoesOn ==
  ASSUME DispatchInv, pc' = "legacy", builder' = builder, run' = run,
         lg' \in [at : LegacyPlaces \ {"away"}, att : Nat],
         shared' => rst' = cst', disk'.sora = rst'.sora, LegacyObjects', LegacyBound'
  PROVE  Control' /\ LegacyInv'
<1>1. disk'.phase \in {"running", "paused"}
  BY DEF LegacyObjects, LegacyPlaces
<1>2. Control'
  BY <1>1 DEF DispatchInv, IInv, Control, References, Progress, Executing, Together, InTask
<1>3. LegacyInv'
  BY DEF DispatchInv, LegacyInv, LegacyPlaces
<1> QED BY <1>2, <1>3

\* Where the loop goes next.
LEMMA GoToFacts ==
  ASSUME LegacyInv, pc = "legacy", NEW p \in LegacyPlaces \ {"away"}, GoTo(p)
  PROVE  /\ lg' \in [at : LegacyPlaces \ {"away"}, att : Nat] /\ lg'.at = p /\ lg'.att = lg.att
         /\ pc' = "legacy" /\ builder' = builder
  BY DEF LegacyInv, GoTo

\* The steps of the loop keep the objects in their places.
LEMMA LegacyObjectsStep ==
  ASSUME DispatchInv, LegacyStep \/ HumanDirects \/ LegacySignal PROVE Control' /\ LegacyInv'
<1> USE DEF DispatchInv, IInv, TypeOK, StatesOK, mem, env
<1>1. /\ \A p : Moved(rst, p).phase = p /\ Moved(rst, p).sora = rst.sora
      /\ \A p : Moved(cst, p).phase = p /\ Moved(cst, p).sora = cst.sora
  BY MovedFields
<1>2. shared => rst = cst
  BY DEF Control, References
<1>3. lg.at \in {"loop", "wait", "override"} => disk = rst /\ rst.phase = "running" /\ pc = "legacy"
  BY DEF LegacyInv, LegacyObjects
<1>4. lg.at = "paused" => disk = rst /\ rst.phase = "paused" /\ pc = "legacy"
  BY DEF LegacyInv, LegacyObjects
<1>5. lg.at = "agent" => /\ disk = cst /\ cst.phase = "running" /\ pc = "legacy"
                         /\ rst.phase = "running" /\ cst.sora = rst.sora
  BY DEF LegacyInv, LegacyObjects
<1>6. lg.at \in {"wait", "override", "paused", "agent"} => lg.att < Attempts
  BY DEF LegacyInv, LegacyBound
<1>7. {"loop", "wait", "override", "paused", "agent"} = LegacyPlaces \ {"away"}
  BY DEF LegacyPlaces
<1>8. CASE LegacyBegins
  <2>1. disk = rst /\ rst.phase = "running"
    BY <1>8 DEF LegacyBegins, Control, References, Together
  <2>2. rst.retry \in Nat
    BY DEF State
  <2>3. /\ lg' = [at |-> "loop", att |-> rst.retry] /\ pc' = "legacy" /\ builder' = builder
        /\ UNCHANGED <<run, disk, mem>>
    BY <1>8 DEF LegacyBegins
  <2>4. lg' \in [at : LegacyPlaces \ {"away"}, att : Nat] /\ lg'.at = "loop"
    BY <1>7, <2>2, <2>3
  <2> QED BY <1>2, <2>1, <2>3, <2>4, LegacyGoesOn DEF LegacyObjects, LegacyBound
<1>9. CASE LegacyShutdown
  <2>1. Return /\ UNCHANGED <<run, disk, mem>> /\ disk = rst
    BY <1>3, <1>4, <1>9 DEF LegacyShutdown, At
  <2> QED BY <1>2, <2>1, LegacyReturns
<1>10. CASE LegacyFirst \/ LegacyWaited
  <2>1. /\ GoTo("override") /\ UNCHANGED <<run, disk, mem>> /\ disk = rst /\ rst.phase = "running"
        /\ pc = "legacy" /\ lg.att < Attempts
    BY <1>3, <1>6, <1>10 DEF LegacyFirst, LegacyWaited, At
  <2>2. lg'.att < Attempts' /\ lg'.at = "override"
    BY <1>7, <2>1, GoToFacts DEF Attempts
  <2> QED BY <1>2, <1>7, <2>1, <2>2, GoToFacts, LegacyGoesOn DEF LegacyObjects, LegacyBound
<1>11. CASE LegacyRetry
  <2>1. /\ GoTo("wait") /\ UNCHANGED <<run, disk, mem>> /\ disk = rst /\ rst.phase = "running"
        /\ pc = "legacy" /\ lg.att < Attempts
    BY <1>3, <1>11 DEF LegacyRetry, Retries, At
  <2>2. lg'.att < Attempts' /\ lg'.at = "wait"
    BY <1>7, <2>1, GoToFacts DEF Attempts
  <2> QED BY <1>2, <1>7, <2>1, <2>2, GoToFacts, LegacyGoesOn DEF LegacyObjects, LegacyBound
<1>12. CASE LegacyEscalates
  <2> DEFINE s == Escalated(rst, LegacyLevel)
  <2>1. /\ GoTo("wait") /\ run' = run /\ rst' = s /\ disk' = s /\ shared' = FALSE
        /\ rst.phase = "running" /\ pc = "legacy" /\ lg.att < Attempts
    BY <1>3, <1>12 DEF LegacyEscalates, Retries, At, SaveRunnerCopy
  <2>2. s.phase = "running"
    BY <1>12, <2>1, EscalatedFields, LegacyLevelType
    DEF LegacyEscalates, DIVERSIFICATION, BACKTRACK_COACH, HUMAN
  <2>3. lg'.att < Attempts' /\ lg'.at = "wait"
    BY <1>7, <2>1, GoToFacts DEF Attempts
  <2> HIDE DEF s
  <2> QED BY <1>7, <2>1, <2>2, <2>3, GoToFacts, LegacyGoesOn DEF LegacyObjects, LegacyBound
<1>13. CASE LegacyAsksHuman
  <2>1. Return /\ run' = run /\ disk' = rst' /\ shared' = FALSE
    BY <1>13 DEF LegacyAsksHuman, SaveRunnerCopy
  <2> QED BY <2>1, LegacyReturns
<1>14. CASE LegacyPlanIsEmpty \/ LegacyGivesUp \/ LegacyStopped
  <2>1. Return /\ run' = run /\ SaveRunner(Moved(rst, "failed"))
    BY <1>14 DEF LegacyPlanIsEmpty, LegacyGivesUp, LegacyStopped
  <2> QED BY <1>2, <2>1, LegacyReturns DEF SaveRunner
<1>15. CASE LegacyPauses
  <2>1. /\ GoTo("paused") /\ run' = run /\ SaveRunner(Moved(rst, "paused"))
        /\ pc = "legacy" /\ lg.att < Attempts
    BY <1>3, <1>6, <1>15 DEF LegacyPauses, At
  <2>2. lg'.att < Attempts' /\ lg'.at = "paused"
    BY <1>7, <2>1, GoToFacts DEF Attempts
  <2>3. disk' = rst' /\ rst'.phase = "paused" /\ (shared' => rst' = cst')
    BY <1>1, <1>2, <2>1 DEF SaveRunner
  <2> QED BY <1>7, <2>1, <2>2, <2>3, GoToFacts, LegacyGoesOn DEF LegacyObjects, LegacyBound
<1>16. CASE LegacyRuns \/ LegacyResumes
  <2>1. PICK s : GoTo("agent") /\ run' = run /\ SaveAndShare(s) /\ s.phase = "running"
    BY <1>1, <1>3, <1>16 DEF LegacyRuns, LegacyResumes, StartsAgent, At
  <2>2. pc = "legacy" /\ lg.att < Attempts
    BY <1>3, <1>4, <1>6, <1>16 DEF LegacyRuns, LegacyResumes, At
  <2>3. lg'.att < Attempts' /\ lg'.at = "agent"
    BY <1>7, <2>1, <2>2, GoToFacts DEF Attempts
  <2> QED
    BY <1>7, <2>1, <2>2, <2>3, GoToFacts, LegacyGoesOn DEF SaveAndShare, LegacyObjects, LegacyBound
<1>17. CASE LegacyTurnEnd \/ LegacyToolResult
  <2>1. /\ At("agent") /\ UNCHANGED <<pc, builder, lg, run>>
        /\ \E s : (SaveContext(s) \/ SaveCopy(s)) /\ s.phase = cst.phase /\ s.sora = cst.sora
    <3>1. CASE LegacyTurnEnd
      BY <3>1, ToolResultFields DEF LegacyTurnEnd
    <3>2. CASE LegacyToolResult
      BY <3>2, ToolResultFields DEF LegacyToolResult
    <3> QED BY <1>17, <3>1, <3>2
  <2>2. PICK s : (SaveContext(s) \/ SaveCopy(s)) /\ s.phase = cst.phase /\ s.sora = cst.sora
    BY <2>1
  <2>3. lg.at = "agent" /\ pc = "legacy"
    BY <2>1 DEF At
  <2>4. LegacyObjects' /\ (shared' => rst' = cst') /\ disk'.sora = rst'.sora
    BY <1>2, <1>5, <2>1, <2>2, <2>3 DEF SaveContext, SaveCopy, LegacyObjects
  <2>5. lg \in [at : LegacyPlaces \ {"away"}, att : Nat]
    BY <1>7, <2>3 DEF LegacyInv
  <2>6. LegacyBound'
    BY <2>1 DEF LegacyInv, LegacyBound, Attempts
  <2> QED BY <2>1, <2>3, <2>4, <2>5, <2>6, LegacyGoesOn
<1>18. CASE LegacySucceeds
  <2>1. Return /\ run' = run /\ disk' = rst' /\ cst' = rst'
    BY <1>18 DEF LegacySucceeds, SaveAndShare
  <2> QED BY <2>1, LegacyReturns
<1>19. CASE LegacyFails
  <2>1. /\ At("agent") /\ UNCHANGED <<pc, builder, run>> /\ SaveAndShare(RetriedState(cst))
        /\ lg' = [at |-> "loop", att |-> lg.att + 1]
    BY <1>19 DEF LegacyFails, RetriedState
  <2>2. pc = "legacy" /\ cst.phase = "running" /\ lg.att \in Nat
    BY <1>5, <2>1 DEF At, LegacyInv
  <2>3. lg' \in [at : LegacyPlaces \ {"away"}, att : Nat] /\ lg'.at = "loop"
    BY <1>7, <2>1, <2>2
  <2>4. disk' = rst' /\ cst' = rst' /\ rst'.phase = "running"
    BY <2>1, <2>2, RetriedStateFacts DEF SaveAndShare
  <2> QED BY <2>1, <2>2, <2>3, <2>4, LegacyGoesOn DEF LegacyObjects, LegacyBound
<1>20. CASE HumanDirects \/ LegacySignal
  <2>1. UNCHANGED <<pc, builder, lg, run, disk, mem>> /\ pc = "legacy"
    BY <1>20 DEF HumanDirects, LegacySignal
  <2> QED
    BY <2>1 DEF Control, References, Progress, Executing, Together, InTask,
       LegacyInv, LegacyObjects, LegacyBound, Attempts
<1> QED
  BY <1>8, <1>9, <1>10, <1>11, <1>12, <1>13, <1>14, <1>15, <1>16, <1>17, <1>18, <1>19, <1>20
  DEF LegacyStep

\* The invariant of a process that has one of the two runners.
THEOREM DispatchInvariance == DispatchSpec => []DispatchInv
<1>1. DispatchInit => DispatchInv
  <2> SUFFICES ASSUME DispatchInit PROVE DispatchInv
    OBVIOUS
  <2>1. IInv /\ Ladder
    BY InvInit, LadderInit DEF DispatchInit
  <2>2. LegacyInv
    BY DEF DispatchInit, Init, Away, LegacyInv, LegacyPlaces, LegacyObjects, LegacyBound
  <2> QED BY <2>1, <2>2 DEF DispatchInv
<1>2. DispatchInv /\ [DispatchNext]_legacyVars => DispatchInv'
  <2> SUFFICES ASSUME DispatchInv, [DispatchNext]_legacyVars PROVE DispatchInv'
    OBVIOUS
  <2>1. CASE Shared
    BY <2>1, SharedStep
  <2>2. CASE LegacyStep \/ HumanDirects \/ LegacySignal
    <3>1. StatesOK' /\ LocalsOK' /\ Ladder' /\ PlaceOK' /\ FilesOK' /\ EnvOK' /\ TaskBounds'
      BY <2>2, LegacyStates, LegacyLadder, LegacyTypes DEF DispatchInv
    <3>2. Control' /\ LegacyInv'
      BY <2>2, LegacyObjectsStep
    <3> QED BY <3>1, <3>2 DEF DispatchInv, IInv, TypeOK
  <2>3. CASE UNCHANGED legacyVars
    <3>1. UNCHANGED vars /\ lg' = lg /\ builder' = builder
      BY <2>3 DEF legacyVars
    <3>2. IInv' /\ Ladder'
      BY <3>1, InvStep, LadderStep DEF DispatchInv
    <3>3. LegacyInv'
      BY <3>1 DEF DispatchInv, LegacyInv, LegacyObjects, LegacyBound, Attempts, vars, mem
    <3> QED BY <3>2, <3>3 DEF DispatchInv
  <2> QED BY <2>1, <2>2, <2>3 DEF DispatchNext
<1> QED BY <1>1, <1>2, PTL DEF DispatchSpec

-----------------------------------------------------------------------------
(***************************************************************************)
(* What follows.                                                           *)
(***************************************************************************)

\* Types, bounds and control of the pipeline hold whichever runner a process has.
THEOREM BothRunnersAreTyped == DispatchSpec => []IInv
<1>1. DispatchInv => IInv
  BY DEF DispatchInv
<1> QED BY <1>1, DispatchInvariance, PTL

\* The human is asked once, by either runner.
THEOREM HumanEndsEither == DispatchSpec => []NoAgentAfterHuman
<1>1. DispatchInv => NoAgentAfterHuman
  BY DEF DispatchInv, Ladder, NoAgentAfterHuman
<1> QED BY <1>1, DispatchInvariance, PTL

\* Neither makes more diversified attempts than the configuration allows.
THEOREM EitherDiversificationIsBounded == DispatchSpec => []DiversificationsAreBounded
<1>1. DispatchInv => DiversificationsAreBounded
  BY DEF DispatchInv, Ladder, DiversificationsAreBounded
<1> QED BY <1>1, DispatchInvariance, PTL

\* Whenever a process of the legacy runner may be killed, STATE.json is the
\* object in use; and an agent runs in a RUNNING state that no human was asked
\* about.
THEOREM LegacyAgentFindsItsState == DispatchSpec => []LegacyAgentIsOnDisk
<1>1. DispatchInv => LegacyAgentIsOnDisk
  BY DEF DispatchInv, Ladder, LegacyInv, LegacyPlaces, LegacyObjects, LegacyAgentIsOnDisk
<1> QED BY <1>1, DispatchInvariance, PTL

\* Nor is a command lost in the execute phase of either.
THEOREM EitherKeepsCommands == DispatchSpec => ExecuteKeepsCommands
<1>1. DispatchInv /\ [DispatchNext]_legacyVars
        => [InTask /\ pc' \notin {"down", "idle"} =>
               \/ SameForRunner(cmdq, cmdq')
               \/ \E c \in Commands : SameForRunner(Append(cmdq, c), cmdq')]_vars
  <2> SUFFICES ASSUME DispatchInv, [DispatchNext]_legacyVars, InTask,
                      pc' \notin {"down", "idle"}
               PROVE  \/ SameForRunner(cmdq, cmdq')
                      \/ \E c \in Commands : SameForRunner(Append(cmdq, c), cmdq')
    OBVIOUS
  <2>1. [Next]_vars
    <3>1. ~(LegacyStep \/ HumanDirects \/ LegacySignal)
      BY LegacyIsInLoop DEF InTask
    <3> QED BY <3>1, SharedIsNext DEF DispatchNext, legacyVars
  <2> QED BY <2>1, CommandStep DEF DispatchInv, IInv, TypeOK
<1> QED BY <1>1, DispatchInvariance, PTL DEF DispatchSpec, ExecuteKeepsCommands

\* The assignments to `phase` that the legacy loop is about to make, to the
\* runner's object and after an agent's run to the context's (runner.py:443-603).
LegacyNeverRaises ==
    /\ pc = "start" /\ ~builder => MayMove(rst, "failed")
    /\ lg.at = "loop" => MayMove(rst, "failed") /\ MayMove(rst, "paused")
    /\ lg.at = "override" => MayMove(rst, "failed") /\ MayMove(rst, "paused")
    /\ lg.at = "paused" => MayMove(rst, "failed") /\ MayMove(rst, "running")
    /\ lg.at = "agent" => MayMove(cst, "completed")

\* Each is legal for the object it is made to, in both runners.
THEOREM EitherMovesLegally == DispatchSpec => [](TransitionsNeverRaise /\ LegacyNeverRaises)
<1>1. DispatchInv => TransitionsNeverRaise
  BY LegalWhereItIsMade DEF DispatchInv
<1>2. DispatchInv => LegacyNeverRaises
  <2>1. IInv /\ pc = "start" => rst.phase = "running"
    BY DEF IInv, Control, References, Together
  <2> QED
    BY <2>1 DEF DispatchInv, LegacyInv, LegacyObjects, LegacyNeverRaises, MayMove, PhaseEdges
<1> QED BY <1>1, <1>2, DispatchInvariance, PTL

\* A legacy run completes without having been through a phase.
LegacyCompletes ==
    /\ pc = "legacy" /\ disk.phase = "running"
    /\ disk' = Moved(cst, "completed") /\ disk'.sora = disk.sora

\* The steps of the legacy loop write nothing else that RunLifecycle does not allow.
LEMMA LegacyFile ==
  ASSUME DispatchInv, LegacyStep \/ HumanDirects \/ LegacySignal
  PROVE  FileStep \/ LegacyCompletes
<1> USE DEF DispatchInv, IInv, TypeOK, StatesOK, LegacyInv, LegacyObjects, FileStep
<1>1. /\ \A p : Moved(rst, p).phase = p /\ Moved(rst, p).sora = rst.sora
      /\ \A p : Moved(cst, p).phase = p /\ Moved(cst, p).sora = cst.sora
  BY MovedFields
<1>2. pc = "start" => disk = rst /\ rst.phase = "running"
  BY DEF Control, References, Together
<1>3. CASE \/ LegacyBegins \/ LegacyShutdown \/ LegacyFirst \/ LegacyRetry \/ LegacyWaited
           \/ HumanDirects \/ LegacySignal
  BY <1>3 DEF LegacyBegins, LegacyShutdown, LegacyFirst, LegacyRetry, LegacyWaited, HumanDirects,
     LegacySignal
<1>4. CASE LegacyPlanIsEmpty \/ LegacyGivesUp \/ LegacyStopped
  <2>1. disk' = Moved(rst, "failed") /\ disk = rst /\ rst.phase \in {"running", "paused"}
    BY <1>2, <1>4
    DEF LegacyPlanIsEmpty, LegacyGivesUp, LegacyStopped, At, SaveRunner
  <2> QED BY <1>1, <2>1
<1>5. CASE LegacyEscalates \/ LegacyAsksHuman
  <2>1. PICK l \in {DIVERSIFICATION, BACKTRACK_COACH, HUMAN} : disk' = Escalated(rst, l)
    BY <1>5 DEF LegacyEscalates, LegacyAsksHuman, SaveRunnerCopy
  <2>2. disk = rst /\ rst.phase = "running"
    BY <1>5 DEF LegacyEscalates, LegacyAsksHuman, Retries, At
  <2>3. disk'.sora = rst.sora /\ disk'.phase \in {"running", "paused"}
    BY <2>1, <2>2, EscalatedFields DEF Level, DIVERSIFICATION, BACKTRACK_COACH, HUMAN
  <2> QED BY <2>2, <2>3
<1>6. CASE LegacyPauses \/ LegacyRuns \/ LegacyResumes
  <2>1. disk = rst /\ disk' \in {rst, Moved(rst, "paused"), Moved(rst, "running")}
    BY <1>6 DEF LegacyPauses, LegacyRuns, LegacyResumes, StartsAgent, At, SaveRunner, SaveAndShare
  <2>2. \/ LegacyPauses /\ rst.phase = "running" /\ disk' = Moved(rst, "paused")
        \/ LegacyRuns /\ disk' = rst
        \/ LegacyResumes /\ rst.phase = "paused" /\ disk' = Moved(rst, "running")
    BY <1>6 DEF LegacyPauses, LegacyRuns, LegacyResumes, StartsAgent, At, SaveRunner, SaveAndShare
  <2> QED BY <1>1, <2>1, <2>2
<1>7. CASE LegacyTurnEnd
  BY <1>7, ToolResultFields DEF LegacyTurnEnd, At, SaveContext
<1>8. CASE LegacyToolResult
  <2>1. PICK same \in BOOLEAN : disk' = AfterToolResult(cst, same)
    BY <1>8 DEF LegacyToolResult, SaveCopy
  <2> QED BY <1>8, <2>1, ToolResultFields DEF LegacyToolResult, At
<1>9. CASE LegacySucceeds
  BY <1>1, <1>9 DEF LegacySucceeds, LegacyCompletes, SaveAndShare, At
<1>10. CASE LegacyFails
  BY <1>10, RetriedStateFacts DEF LegacyFails, RetriedState, SaveAndShare, At
<1> QED BY <1>3, <1>4, <1>5, <1>6, <1>7, <1>8, <1>9, <1>10 DEF LegacyStep

\* What an observer of STATE.json sees is RunLifecycle's, whichever runner
\* writes it, except that the legacy runner completes without an execute phase.
THEOREM EitherFollowsLifecycle ==
  DispatchSpec => Lifecycle!Init /\ [][Lifecycle!Next \/ LegacyCompletes]_(Lifecycle!vars)
<1>1. DispatchInit => Lifecycle!Init
  BY DEF DispatchInit, Init, Fresh, Lifecycle!Init
<1>2. DispatchInv /\ DispatchInv' /\ [DispatchNext]_legacyVars
        => [Lifecycle!Next \/ LegacyCompletes]_(Lifecycle!vars)
  <2> SUFFICES ASSUME DispatchInv, DispatchInv', [DispatchNext]_legacyVars
               PROVE  FileStep \/ LegacyCompletes
    BY FileStepRefines
  <2>1. CASE Shared \/ UNCHANGED legacyVars
    <3>1. [Next]_vars
      BY <2>1, SharedIsNext DEF legacyVars
    <3> QED
      BY <3>1, BootFile, PipelineFile, ExecuteFile, LoopFile, IdleFile, EnvironmentFile
      DEF Next, Runner, DispatchInv
  <2> QED BY <2>1, LegacyFile DEF DispatchNext
<1> QED BY <1>1, <1>2, DispatchInvariance, PTL DEF DispatchSpec

\* An agent is started at most as often as the two limits on retries allow, for
\* any counter a restart finds in STATE.json.
THEOREM LegacyAttemptsAreBounded ==
  DispatchSpec => [](lg.at = "agent" => lg.att < MaxRetries /\ lg.att <= MaxCycles)
<1>1. DispatchInv => (lg.at = "agent" => lg.att < MaxRetries /\ lg.att <= MaxCycles)
  BY MaxRetriesAssumption, BoundAssumption DEF DispatchInv, LegacyInv, LegacyBound, Attempts
<1> QED BY <1>1, DispatchInvariance, PTL

=============================================================================
