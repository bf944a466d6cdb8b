# A verification project for tero2

tero2 (`src/tero2/`) runs coding agents unattended.  A plan is hardened,
decomposed into slices of tasks, and every task is built by one agent and
verified by another, for hours, across crashes, provider failures and the
commands of a human.  This directory holds TLA+ modules of its control, the TLC
runs that check them on small instances, and proofs checked by TLAPS.

Contents: 1 inventory, 2 modules and how they correspond to the code, 3 runs,
bounds and fairness, 4 proofs, 5 disagreements found, 6 what is left out, 7 plan.

## 1. Inventory

| part | code | state | operations | why it is hard |
|---|---|---|---|---|
| persistent state | `state.py`, `checkpoint.py` | `AgentState` = STATE.json: phase, sora_phase, plan_file, current_slice, current_task_index, retry and stuck counters | `mark_started/failed/completed/paused/running`, `set_sora_phase`, `save`, `restore` | read by the next process after a crash at any point; two in-memory objects may hold different versions of it |
| runner | `runner.py` | where the coroutine is, `state`, the context, the shutdown event, the command queue | `run`, `_execute_sora`, `_drain_commands`, the slice loop, `_idle_loop` | commands, signals, file edits and crashes between any two awaits |
| execute phase | `phases/execute_phase.py`, `players/builder.py`, `players/verifier.py` | index, attempt, `ctx.escalation_level`, `ctx.div_steps`, SUMMARY.md files | `run_execute` with its skip, pause, steer and escalation branches | resume in the middle of a slice; partial failure of a slice |
| stuck detection, escalation | `stuck_detection.py`, `escalation.py` | retry, step and tool-repeat counters; level | `check_stuck`, `update_tool_hash`, `decide_escalation`, `execute_escalation` | state spread over three objects with three lifetimes |
| planning phases | `phases/harden,scout,coach,architect_phase.py` and their players | PLAN.md, ROADMAP.md, TASK_QUEUE.md, STEER.md, S0x-PLAN.md | `run_harden`, `run_scout`, `run_coach`, `run_architect` | files written before the checkpoint that says so |
| context | `phases/context.py` | `RunnerContext`: `state`, escalation, skip flag | `run_agent`, `claim_next_slice` ... | `dataclasses.replace` breaks the sharing of the state object |
| provider chain | `providers/chain.py`, `circuit_breaker.py` | one breaker per provider, shared by all chains of a process | `run`, `run_prompt_collected`; `is_available`, `record_success`, `record_failure` | retry, fallback and recovery time against partial output |
| event dispatcher | `events.py` | a bounded queue per subscriber | `subscribe`, `unsubscribe`, `emit` | full queues, priorities, order |
| stream bus | `stream_bus.py` | a ring per subscriber, the captured event loop | `publish`, `subscribe`, iteration | publishers on threads; nothing subscribes |
| command channel | `events.Command`, `tui/commands.py` | an asyncio queue | put, get_nowait, put back | three readers that each handle a part of the commands |
| Telegram input | `telegram_input.py`, `project_init.py` | offset and its file, plan queue, paused and running flags | `_poll_loop`, `_handle_update`, `_consume_plans`, `_launch_runner` | lost or repeated updates; two loops over one queue that a third handler replaces |
| project lock | `lock.py`, `project_lock.py` | a flock and the PID in its file | acquire, release, is_held | two processes, killed anywhere |
| legacy runner | `runner.py` 427 ff., `reflexion.py` | as the runner, but no slices | `_execute_legacy`, `_run_legacy_agent` | escalation and pause replace the state object the agent does not count through |
| CLI providers | `providers/cli.py` | a child process, its three pipes, a pump task and its queue | `run`, `_stream_events` | full pipes, cancellation, a child that exits early |
| slice plans | `players/architect.py`, `players/verifier.py` | the text of S0x-PLAN.md | `validate_plan`, `_parse_slice_plan`, the must-haves | two functions cut one text in different places |
| HTTP provider, normalizers, TUI, notifier, config, CLI | `providers/zai.py`, `tui/`, `notifier.py`, `config.py` ... | - | conversions, display, network I/O | not control |

How they interact: `Runner` owns one `RunnerContext` per pipeline and hands it
to each phase function.  The phases call players, which call a provider chain
through the context.  A chain calls a provider's `run` for each attempt.  A
configuration without a builder role has the legacy runner instead of the pipeline.
The TUI puts `Command`s into the queue that the runner
reads at phase boundaries, the execute phase between tasks and attempts, and the
idle loop while no plan runs.  Everything a later process needs goes through
the files under `.sora/`.  The Telegram bot is a process of its own: it makes a project
of each plan it is sent and starts a runner on it, which first takes the project's lock.

What makes each part correct:

- *state*: no assignment is ever refused; the file moves only along legal
  operations; the file holds what recovery needs at every suspension point.
- *runner*: no slice is skipped or abandoned half done; COMPLETED means
  complete; the pipeline ends; signals and commands get through.
- *execute phase*: skipping by index or by SUMMARY.md skips only work that was
  done; a failed task makes the slice fail; no agent runs after the human was asked.
- *provider chain*: output is delivered whole and once; a failing provider
  rests; every call ends.
- *dispatcher, bus*: order kept, memory bounded, what is dropped is what may be.
- *Telegram input*: no plan lost, run twice, or run before an earlier one.
- *lock*: one runner per project, named by the lock file.
- *legacy runner*: a restart finds the attempt it was at; no agent after the human was asked.
- *CLI provider*: what the child wrote is what the caller gets; success only for an
  answer that was handed over up to its end, or to a line the reader cannot take
  (section 5); the attempt ends and leaves no process behind.
- *slice plan*: what passed the validator is what is executed and verified.

PROJECT.json lists the components with their status and the hazards, each at its
line with the properties that would catch it.

## 2. Modules

```
AgentState  <-  Escalation  <-  RunnerContext  <-  ExecutePhase  <-  SoraRunner
                                                                        |
RunLifecycle  <- (refined by) ---------------------------------  SoraProperties
                                                                        |
                            +--------------------+----------------------+
                            |                    |                      |
SlicePlanText  <-  MCSoraRunner           LegacyRunner           SoraTypeProofs
      |                     |                |      |                   |
      |                     +--  MCLegacy  --+      |              SoraProofs
      |                                             |               |      |
      |                                             +- LegacyProofs +      |
      +---------------------------------------------------- SoraWorkProofs +

ProviderChain  <-  ChainProperties  <-  MCChain, ChainProofs
Delivery       <- (refined by) ChainProperties

Attempt        <- (refined by) CliProvider  <-  CliProofs

EventDispatcher  <-  MCEvents, EventProofs

ProjectLock  <-  TelegramInput  <-  TelegramProofs
```

The three levels of an agent's answer meet in their abstract specifications: CliProvider
implements Attempt, which is what ProviderChain assumes of one attempt (messages, then an
end that tells success from failure); ProviderChain implements Delivery, which is what a
player assumes of a call.

- **AgentState**: a state object as a record, the two transition tables, and the
  checkpoint operations as functions from record to record.
- **Escalation**: `check_stuck`, `decide_escalation` and the state an escalation
  leaves.
- **RunnerContext**: the variables.  `disk` is STATE.json, `rst` the runner's local
  `state`, `cst` the context's, and `shared` tells whether these two are the same
  Python object.  `checkpoint.f(ctx.state)` mutates and saves (`SaveContext`);
  `ctx.state = checkpoint.f(replace(ctx.state, ...))` makes a new object
  (`SaveCopy`), and from then on the runner's reference is stale.  Also the files under
  .sora/ (`fs`), claiming a slice, and a coach run.
- **ExecutePhase**: `run_execute`, one action per branch between two awaits: skipping a
  done task, a shutdown, OVERRIDE.md, skip_task, the task-start checkpoint and its
  failure, an attempt, the messages of the builder, the verifier, the four
  escalation levels, the end of a task, the end of the slice.
- **SoraRunner**: start-up and recovery, the phases with their command drain, the slice
  loop, the idle loop, and the environment: the TUI's commands, a human's edits,
  signals, crashes, exceptions.  `Spec` has no fairness, `FairSpec` adds it.
- **RunLifecycle**: the abstract specification: what an observer of STATE.json may
  see.  SoraRunner implements it with `phase <- disk.phase, sora <- disk.sora`.
- **SoraProperties**: the properties and the inductive invariant.
- **MCSoraRunner**: constants for TLC.

In these modules an action is the code between two suspension points.  It ends earlier, at a
write to disk, wherever a crash between that write and the next would leave what
recovery tells apart.  `pc` names the place in the code, `run` and `ex` are the
locals of `_execute_sora` and `run_execute`; `res` is a ghost that remembers what
became of each task.

Abstractions there.  Times, messages, prompts, the escalation level kept in the state
for display and `task_in_progress` (it words the builder's prompt) are left out.
An agent run ends in any way its provider chain may end.  The coach on an ANOMALY
may or may not run: the four trigger conditions read logs that are not modelled.  A
failing disk write is modelled at the task-start checkpoint, the one place that
handles it; elsewhere it is the exception that ends the process.  `steer` and
`new_plan` commands with empty text do what an unknown command does.  One runner
works on a project at a time, which is what the project lock is for.

- **ProviderChain**: one call after another through the chains of the roles (the
  runner is one coroutine), each a walk along the chain (`at`): `TryNext` skips
  providers whose breaker refuses, `Receive` fills the buffer, `Deliver` hands it over,
  `Retry`, `Wake` and `Exhausted` are the retry loop, `Break` the failures no retry
  follows.  `TimedOut` and `Abandon` are what `run_agent` does to the generator; neither
  touches a breaker.  `cb` is the registry, shared by all roles; `current` belongs to a
  chain, which a role keeps for a slice or builds anew.  Time is in ticks; ages and
  counts are kept as far as the code compares them.  `tries` and `past` are ghosts: what
  this call tried where, and how each provider's calls went, whatever its breaker says.
  `CircuitBreaker.check` has no caller, so HALF_OPEN does not occur.
- **Delivery**: the abstract specification of a call: all of one attempt's output, or an
  error and nothing.  A caller that stops reading gets a prefix.  **ChainProperties**
  states the properties and the refinement.
- **EventDispatcher**: a queue per subscriber.  `emit`, `subscribe` and `unsubscribe`
  never await and run in one event loop, so each is one step.  `Discards` says which
  position a full queue gives up, `Put` what the queue is afterwards, `Counted` what
  asyncio's counter for `join` gains.  Ghosts: all events emitted, what each consumer
  took, and what came when the overflow was used up.

- **LegacyRunner**: `_execute_legacy` and `_run_legacy_agent` on SoraRunner's variables, with
  `lg` for the place in the retry loop and its loop variable.  `builder` is the
  configuration's choice of runner, the same for all processes.  `SaveRunnerCopy` is
  `state = checkpoint.f(replace(state, ...))`: the context keeps the old object;
  `StartsAgent` is the `ctx.state = state` that ends this.  Start-up, idle loop, commands and
  crashes are `Shared` with SoraRunner.  A human may change OVERRIDE.md and a signal
  arrive at any time while it works, without a bound.
- **SlicePlanText**: pure operators.  A plan is the sequence of its sections, each with
  what the two regular expressions tell apart in its header.  `ValidPlan` is what
  `validate_plan` lets pass, `Parsed` and `TaskIndex` what `_parse_slice_plan` makes of
  it, `VerifiedBy` where the verifier takes its commands from.  MCSoraRunner extends it
  so that TLC evaluates its two examples; in the runner's model a plan is a value.
- **ProjectLock**: `ProjectLock.acquire` and `release` in any number of runner processes,
  one action per system call; a process may die between any two.  The kernel's flock is
  external: one owner per file, released when the owner closes it or dies.
- **TelegramInput**: the poll loop (a request confirms the offset to Telegram; the new
  offset is written, perhaps torn, before the batch is handled), the handlers
  (a plan is queued; `/pause`, `/resume`, `/stop`, the last of which replaces the
  queue), the consumer (top of its loop, the `get` with its timeout, the launch, the
  end), `init_project`, and runners as processes of ProjectLock, whether the bot or a
  human started them.  Telegram is external and delivers what is not confirmed again.
  `cons = "stale"` is a get on a queue that `/stop` or a pause left behind.  Ghosts: the
  updates in the order they were taken, launched, refused or moved.
- **CliProvider**: `CLIProvider.run` and `_stream_events`.  The pipes hold `InRoom`,
  `OutRoom` and `ErrRoom` pieces; a child that starts to write does nothing else
  until there is room.  The pump moves lines into `fifo` (stdout_queue) from the moment
  the prompt is written; `TakeLine` is the loop that yields them.  A line is an event,
  blank, bad (JSON that is no object), or longer than the stream reader's limit.  The ghost
  `cut` remembers that an exception `run` has no handler for ended the writing of the
  prompt.  **Attempt** is its abstract specification.

## 3. Runs

| run | question |
|---|---|
| SoraPipeline | the whole pipeline over two slices: is the state machine ever asked for an illegal step, is the disk what recovery needs, is a slice left half done, does COMPLETED mean complete, does STATE.json follow RunLifecycle |
| SoraExecute | both runners through the full escalation ladder, the execute phase on one slice of two tasks and the legacy loop: the inductive invariant where the two state objects differ, no agent after the human, bounded diversification, commands kept, and what STATE.json holds while the legacy agent works or waits |
| SoraLiveness | under fairness: the pipeline settles, a signal ends the process, the queue empties, claimed slices are executed |
| ProviderChain | two roles share a provider: is output whole, do failing providers rest and come back, is fallback the last resort, does a timed call end, does the chain implement Delivery |
| EventDispatcher | two consumers, queues that fill, overflow and drain: order, memory, which events are lost, the account for join |
| TelegramBot | polling, queueing, launching and locking with every fault and command: one runner per project, plans in order, none lost, none left waiting |
| CliProvider | one attempt at an agent CLI with full pipes and a cancellation at any moment: what is handed over, when it is called a success, does it end, what is left behind |
| OneProbe | a promise about the breaker the code does not keep (section 5) |
| PauseIsKept, SuccessMeansPassed, CurrentPlan, RightPhase | one promise of a document or a comment each, which the code does not keep (section 5) |

Bounds, all named constants:

- SoraPipeline: two slices (S01 and one in TASK_QUEUE.md) of one task, all four
  optional roles, every command, two commands or human edits (`MaxSent`), one fault
  of any of the kinds signal, crash, exception, disk (`MaxFaults`), no retry of a task
  (`MaxCycles = 0`).  Two slices are the least where a claim, an adoption and the second
  round of the slice loop happen; a crash and two commands are enough for every
  pair of "interrupted there, resumed so".  The retry and escalation branches are the
  other run's.
- SoraExecute: one slice of two tasks, so that index, div_steps and level pass from
  one task to the next; `MaxCycles = 3` (four attempts) with `StuckRetries = 2`, `StepLimit = 2`,
  `RepeatLimit = 1`, `DivLimit = 1`, so that each detection and each level is
  reached and the ladder is climbed to the end inside one task and across two; at
  most three messages per agent run (`MaxSteps`), counted up to `StepCap`; stop, pause
  and skip commands, `MaxSent = 3`; one crash.  The legacy loop gets `MaxRetries = 4` attempts for
  the same reason.
- SoraLiveness: two slices of one task, a coach that may add slices each time, four
  attempts at a task, one signal, two commands.  No crash: liveness across a crash
  would need the human to start the process again.
- ProviderChain: the chains P1,P2 (builder, timed) and P2,P3 (scout), the least with a
  fallback, a shared provider, and one only one role has.  `MaxRetries = 3` as in the
  code; waits of 1, 2 and 2 ticks reach `MaxWait`; a `Timeout` of 5 may end in each of
  them and in any stream; `Threshold = 2` needs failures of two calls, `Recovery = 3` may
  pass inside a call and between calls; streams of up to two messages (`MaxLen`).
- EventDispatcher: queues of two with an overflow of one and six events (`MaxEvents`):
  enough to fill a queue, use up the overflow, drain it below its size and fill it again.
  Consumers are symmetric, and the run checks invariants only.

- TelegramBot: three updates for two projects or commands, the least where a plan is
  overtaken or repeated with another behind it; one fault of any kind (a crash, a failed
  save, a handler's exception, a failed download, init, launch, or a runner that dies
  anywhere); two runners of the bot and one by hand, so that two meet at one lock.
- CliProvider: a prompt of three pieces through pipes that hold one, so that each of
  the three can be full while another waits; three lines, each of any kind; two writes
  to stderr.

Deadlock is checked in every run but CliProvider, where an attempt comes to its end, and
where a child that was cut off may stay blocked for good.

Fairness of SoraRunner's `FairSpec`: weak fairness of the runner's own steps (it is a
coroutine of an event loop that always gets back to it), of the end of an agent run,
and of the idle loop's polling.  For the builder the end of an agent run is the
code's doing: `run_agent` runs under `asyncio.timeout(timeout_s)` (context.py:181), and
ProviderChain shows that the timeout gets through (TimedCallEnds).  The planning players
and the verifier collect their answer with no timeout (players/base.py:62): that their
provider processes end is an assumption about the environment, and without it a shutdown
signal is not heeded.  None for the start of a process, for commands, faults, human
edits, or the idle timeout: nobody promises those.

Fairness of ProviderChain's `FairSpec`: the event loop resumes the coroutine where it
can go on without a provider (`Go`), the timeout fires (`TimedOut`), time passes (`Tick`).
No provider has to answer, no role has to ask.

Fairness of TelegramInput's `FairSpec`: of the consumer, all of whose awaits end (a message
to Telegram, git, the creation of a process, a get with a timeout).  Telegram
owes no answer, and nobody has to start the bot or send anything.

Fairness of CliProvider's `FairSpec`: of the caller, the pump and the reader of stderr, which are
tasks of one event loop, of the transport that writes the prompt, and of the child: one
that nothing blocks goes on and in the end exits.  A real agent may hang; then the
timeout of ProviderChain is what ends the attempt, and Cancel says what it does here.

Every property of a passing run has a mutant in PROJECT.json: a plausible change
of one definition (an index one too low, a dropped rollback, a forgotten failure, a
requeued command) under which TLC finds that property violated.

## 4. Proofs

Every safety property that a passing run checks is a theorem, for every value of the
constants that satisfies the named assumptions of the modules; what is left to TLC is
liveness, and for most of that the half that is safety is proved too (see the end
of this section).

**Runner.**  `SoraTypeProofs` (types), `SoraProofs` (control) and `SoraWorkProofs` (slices,
tasks and progress) hold for every set of slices and plans and all values of the limits,
for every queue length, number of tasks, faults and commands.

1. **TypeCorrect**: `Spec => []TypeOK`.  Not only a formality: it includes that the
   queue stays a sequence of commands when the execute phase sifts it.
2. **Invariance**: `Spec => []IInv`, with `IInv == TypeOK /\ TaskBounds /\ Control`.
   `TransitionsNeverRaise` is not inductive: whether an assignment is legal
   depends on the phase the object has, and that on the code that ran before, possibly in an
   earlier process.  `Control` says so for each place in the code:
   `References` (between phases the two references are one object, saved and
   RUNNING), `Progress` (the sora_phase each place finds) and `Executing` (inside
   run_execute the runner's object may be stale, but not in its phases).  The proof has one
   lemma per group of actions, each with a step per action.
3. From it: **TransitionsAreLegal** (`[]TransitionsNeverRaise`), **CrashLosesNothing**
   (`[]StateIsOnDisk`) and **ImplementsLifecycle** (`Spec => LifecycleSpec`: each
   step is one of RunLifecycle or leaves the file's phases alone).
4. **HumanEndsTheSlice** (`[]NoAgentAfterHuman`) and **DiversificationBound**
   (`[]DiversificationsAreBounded`), by an invariant on the escalation ladder.
5. **CompletionIsTotal** (`[]CompletedLeavesNoneUnclaimed`): COMPLETED is saved
   where nothing is left to claim, and while the process rests TASK_QUEUE.md does not change.
6. **LeftSlicesAreDone** (`[]LeftSlicesAreSummarised`), by `SliceInv`: every slice but the
   current one is done (`OthersDone`), and so is the current one where STATE.json rests on it,
   completed or in SLICE_DONE (`RestsDone`); the stale object is never stale in its slice
   (`SameSlice`); and the task loop, until a task fails, has a SUMMARY.md of each task behind
   it (`TasksBehind`).
7. **CommandsAreKept** (`ExecuteKeepsCommands`, an action property): sifting is a relation
   between the queue before and after, by a map that keeps the order of what stays, so
   that no induction over the queue is needed.
8. **ClaimsAreExecuted** (`[]ClaimedSlicesAreExecuted`), under two hypotheses: the coach lists no
   slice as claimed (`CoachClaimsNothing`), and no process ends between a claim and the checkpoint
   that leaves SLICE_DONE (`ClaimsUninterrupted`, a condition on behaviours).  The coach is asked
   for proposals (prompts/coach.md:28) and the mark of a claim is the runner's own; TLC's
   instances have no other coach.  Without the second the property fails in the way of the
   finding RightPhase; the run that checks it has no crash.
9. **PipelineRunsDown** and **PipelineIsNeverStuck**.  Four numbers bound what a busy pipeline has
   before it: slices it may still claim, places before the end of this one, commands
   to drain or tasks to do here, turns of this task.  They are naturals, and
   every step that is not an agent's message, a command, an edit or a signal
   lowers them, read in this order; those raise at most the number of commands to
   drain.  And at every place the condition some action waits for holds.  Where this needs a least phase,
   slice or position (there is a first slice to claim, any queue can be sifted) the
   proof takes the least element of a set of naturals from the library's well-foundedness of <
   (`LeastNatural`), and so needs no induction rule.

Four theorems mark out the findings of section 5, each saying that the promise the code breaks
is kept wherever the quoted cause is absent:

- **PauseIsKeptElsewhere**: PAUSED becomes FAILED in no step but the one after `run_execute`.
- **SuccessIsOwn** and **SuccessFromTheFirst**: success is reported only if each task from the
  starting index on passed or was skipped by a human *in this process*; so only an index or
  a SUMMARY.md of an earlier one can let a failed task pass.
- **IndexStaysBehind** (`[]IndexBehindWork`) and **OnePlanIsExecuted**: if only one plan is ever asked
  for (`OnlyPlan(p)`; for the second also at every start), the index counts only tasks that
  were tried, whichever object was saved last (`BothSound`, `LoopTried`), and each slice executed
  is that plan's.
- **RecoveryIsRightElsewhere**: under the hypotheses of ClaimsAreExecuted a restart finds the
  right phase.

**Legacy runner.**  `LegacyProofs` is about `DispatchSpec`, both runners on one STATE.json.
With a builder it is the pipeline's (**BuilderRunsSora**).  In general `DispatchSpec => []DispatchInv`,
with `DispatchInv == IInv /\ Ladder /\ LegacyInv`: the pipeline's two invariants survive the legacy
loop, because `LegacyObjects` says at each of its places which of the two state objects is the
one on disk and in what phase.  From it **BothRunnersAreTyped**, **HumanEndsEither**,
**EitherDiversificationIsBounded**, **EitherKeepsCommands**, **LegacyAgentFindsItsState**
(`[]LegacyAgentIsOnDisk`), **LegacyAttemptsAreBounded**, **EitherMovesLegally** (no illegal transition
of either runner) and **EitherFollowsLifecycle**: STATE.json follows RunLifecycle but for one
step, the legacy runner's completion without an execute phase, which the theorem names.

**Provider chain.**  `ChainProofs`, for any providers, roles, chains (repeated
providers included) and limits.  `Spec => []ChainInv`, with `ChainInv == TypeOK /\
BreakersKnow /\ TriesOK /\ BufferOK /\ KindMatchesMessages`: the breakers agree with what
the providers' calls were, so that **FailingProvidersRest** is about the providers and
not only about the breaker's own fields; `TriesOK` accounts for every attempt of the
call, from which **FallbacksAreLastResort** and the bound on attempts in **ChainTypes**;
`BufferOK` says that the buffer is one attempt's and that nothing is out before the end,
from which **AllOrNothing** (`Spec => DeliverySpec`) and **KindsMatch**.
**NothingAfterOutput** is an action property: each step from a non-empty buffer stays in
the attempt or ends the call.  **CallsRunOut**: positions, attempts and messages that are left
fall, read in this order, with every step of a call but time's (`WalkOK` bounds them).
**RestsAreNotProlonged**: nothing that any role does touches a breaker that is open and
resting, and each tick counts.

**Event dispatcher.**  `EventProofs`, for any subscribers, sizes and number of events.
First what one `emit` does to one queue (`PutCases`: swap, append or nothing), then what
that keeps (`PutInOrder`, `PutKeeps`, `PutIsBounded`), then the four properties and
`Numbered` together as the inductive invariant: **MemoryIsBounded**,
**EventsStayInOrder**, **PrioritiesAreKept**, **OldestAreLostFirst**, **EventTypes**.
**CountOfAQueue** rests on it: no consumer takes an event it already has (`InOrder`), so that a
`Take` moves one from the queue to the taken ones and the count stays (`CountStep`).

**Project lock.**  The first part of `TelegramProofs`, for any number of processes and projects.
`LockInv`: who is past `flock` owns the lock of its project, and while it runs the file names
it; from it **LockExcludes**.  Each action is one lemma.

**Telegram bot.**  The rest of `TelegramProofs`, for any projects, updates, faults and runners.
`Spec => []BotInv`, where `BotInv` has, besides types and `LockInv`: `PlansWait` (what is queued or
in hand is a plan), `MadeFirst` (a project is made before its runner is launched, and not
twice; with it **ProjectsLaunchOnce** is inductive, because `mkdir` is the one test that survives a
crash), `Seen` and `Ahead` (what this process holds is below its offset and before what is
left of the batch) and `InTurn` (in the queue, and between queue and what was taken, only what a
pause has moved is behind something later), from which **PlansKeepOrder**; `Complete`
accounts for every update below the offset, from which **PlansAreAccountedFor**.  **RunnersExclude**
is the lock's theorem with the bot as one of those who start runners.

**CLI provider.**  `CliProofs`, for any prompt, pipes and child.  `CliInv` says what the queue is:
the numbers of consecutive lines up to the last one pumped, perhaps followed by None
(`InOrder`); that None is there only when nothing can be read any more (`Places`); and
that what was taken was yielded or blank (`Front`).  With it each step is one of
Attempt's or leaves it alone: **AttemptsKeepTheirPromise** (`Spec => AttemptSpec`).
**AttemptsCleanUp** is `NothingLeftBehind`.  **AttemptsRunOut**: every step lowers `Remaining`, a
weighted sum of what is still to be written, read, pumped and handed over.
**AttemptsAreNeverStuck**: until the attempt is over, an action that fairness promises has
what it waits for, except after an overlong line or where stderr blocks the prompt,
which are the two cases AttemptEnds excepts.

**Slice plans.**  The last part of `SoraWorkProofs`, for every plan.  The loop and the
persisted index know a task by its position, SUMMARY.md by its id; the runner's model has the
position for both.  **SummariesNameTasks** says when that is right for a valid plan: exactly if no
header that only the parser takes for a task repeats an id.  **ValidPlansParse** (a
plan the validator lets pass becomes one to seven tasks with distinct ids, if no other
header mentions one) and **ValidTasksAreComplete** (each has must-haves and a description of
its own, if there are no other headers).  The hypotheses are needed: section 5.

Only model-checked: the liveness properties `Settles`, `ShutdownHeeded`, `CommandsAreTaken`,
`TimedCallEnds`, `BreakerRecovers`, `PlansAreStarted` and `AttemptEnds`.  Fairness and ENABLED are out of the
prover's reach.  For four of them the argument's safety half is proved: a measure falls (PipelineRunsDown,
CallsRunOut, AttemptsRunOut; RestsAreNotProlonged for the breaker) and some guard holds
(PipelineIsNeverStuck, AttemptsAreNeverStuck); what the proofs leave out is that a guard that
holds makes the action ENABLED, and that fairness then takes it.  Nor is it stated as a
theorem that an order read number by number has no infinite descent.

The five properties of the violation runs are false; the four theorems above say how far.

## 5. Where the code and its documents disagree

- **A pause during a slice becomes a failure** (PauseIsKept).  `run_execute` saves
  PAUSED and returns no success; the runner answers every such result with
  `mark_failed`.  specs/mvp2-strategist.md:1276-1278 promise a run that stays paused and
  resumes.
- **A failed task passes on the next start** (SuccessMeansPassed).  SUMMARY.md is written
  before the verifier judges and the index runs to the end, so a restart of the
  failed slice skips all its tasks as done (execute_phase.py:89 says otherwise).
- **A new plan runs the old plan's tasks** (CurrentPlan).  `mark_started` keeps phase, slice
  and index of a FAILED state (the comment at runner.py:366 says "fresh").
- **A slice can be lost between two checkpoints** (RightPhase).  The adopted slice is
  saved under SLICE_DONE; a crash before ARCHITECT is saved makes recovery take it for done.
- **An open breaker is probed with a whole retry loop** (OneProbe).  The chain asks
  `is_available`, which changes nothing, and nobody calls `check`, so HALF_OPEN and its
  single probe (specs/mvp0-immortal-runner.md:865) never happen.

Seen while modelling, without a run of its own:

*Dispatcher.*  events.py:99 says that priority events are never dropped, but `emit` drops them
once the overflow of 100 is used up; PriorityIsKept states what the code does keep.

*Slice plans.*  The header `## Notes on (T01)` is no task for the validator and a second T01 for
the parser, although architect.py:341 says the two agree; its SUMMARY.md is the first one's.
Must-haves under a `## Must-haves` header satisfy the validator and are lost to the task,
which ruff and pytest then verify.  Both are examples TLC evaluates (`PlanExamples`).

*CLI provider.*
- A child that exits before its prompt is written makes `drain` raise
  ConnectionResetError.  Only BrokenPipeError is handled (cli.py:268), so the attempt ends
  with an exception the chain takes for non-recoverable: no retry, no fallback.
- A cancellation while the prompt is written leaves child and pump running, against
  cli.py:313-315; `NothingLeftBehind` excepts both.
- A line over 64 KiB ends the pump without a word.  What follows is not delivered, and the
  attempt is a success if the child exits with 0, or blocks if it goes on writing.
- stderr is read only after the prompt is written: a child that fills it first is
  never fed (`ErrBlocksPrompt`).  `proc_utils.kill_and_wait` has no caller.

*Telegram.*
- `/stop` replaces the queue.  The consumer's `task_done()` then counts on the new one, raises
  ValueError, and `start()` ends with it.  Plans queued by then are dropped, plans behind
  it in its batch are acknowledged and never consumed.
- The offset is saved before the batch is handled: an exception of one handler, or a
  crash, loses the rest of the batch.  Its file is not replaced atomically.
- A plan whose project was made when the bot died is refused the second time and its
  runner never launched.

*Legacy runner.*  `mark_started` keeps the retry count of a FAILED state, so a restart after the
last attempt runs no agent.  Commands are not read while it works, OVERRIDE.md is never
cleared, and a shutdown in the pause leaves PAUSED on disk.  `increment_retry` resets the steps,
so between attempts only RETRY_EXHAUSTED is ever seen.

*Files.*  context.py:311 says that `write_file` replaces the file; `disk_layer.write_file` writes
in place, so a kill may leave a torn TASK_QUEUE.md.  The model writes it in one step.

## 6. Not modelled

- HTTP provider (`zai.py`), `shell.py`, the command lines of the CLIs, and an attempt with an
  empty prompt (stdin is then DEVNULL and there is no pump).
- Stream normalizers, the TUI's screens, notifications, history, usage and metrics,
  configuration, personas, prompt assembly, the command line: conversions and output, on
  which no control in the pipeline depends.
- The stream bus: `run_agent` publishes and nothing in the repository subscribes.
- Of the bot: `/status`, chats that are not allowed, voice output, and the tasks that watch a launched
  runner and drain its stderr.  (`/stop` cancels them, after which that pipe may fill.)
- Of the runner: the rounds of the harden loop, the hot-swap of providers, the conditions
  under which an ANOMALY calls the coach, and the identity of a directive in STEER.md.
  That the verifier runs its commands with a blocking `subprocess.run` is not
  modelled either; nothing else of the process moves meanwhile.
- Texts: TASK_QUEUE.md and verdicts are represented by their outcomes.

## 7. Plan

Done: the runner with its execute phase and the legacy loop, the provider chain with its breakers,
one attempt at a CLI, the event dispatcher, the Telegram bot with the project lock, and slice
plans, each with its proofs.  Left, in this order:

1. Proofs: a measure for the Telegram consumer (the safety half of PlansAreStarted), and one
   for a signal and for the command queue (ShutdownHeeded, CommandsAreTaken).
2. The rounds of the harden loop, and STEER.md with the identity of a directive.
3. The watchers of launched runners, and the pipe `/stop` leaves undrained.
4. A chain of CliProviders instead of the attempts ProviderChain assumes: which
   exceptions of an attempt are retried.
