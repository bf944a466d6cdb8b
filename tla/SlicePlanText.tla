--------------------------- MODULE SlicePlanText ---------------------------
(***************************************************************************)
(* The text of a slice plan (tero2/players/architect.py): what            *)
(* validate_plan lets pass, what _parse_slice_plan makes of it for the     *)
(* execute phase, and what a task is then verified with.  The two cut the  *)
(* text in different places: the validator at the headers that name a      *)
(* task, the parser at every "## " header.                                 *)
(*                                                                         *)
(* A plan is the sequence of its sections; what comes before the first     *)
(* header counts as a plain one.                                           *)
(***************************************************************************)
EXTENDS Integers, Sequences, FiniteSets

MaxTasks == 7         \* _MAX_TASKS
Ids == 0 .. 99        \* T00 .. T99

Section ==
    [ head : {"task",       \* the header names an id and a colon or space follows
              "mention",    \* it holds an id in another way
              "plain"},     \* it holds none
      id   : Ids,           \* the first id in the header
      desc : BOOLEAN,       \* the body says something before its must-haves
      must : {"none", "words", "commands"},   \* the must-haves in the body
      headMust : BOOLEAN,   \* the header itself says "must-have"
      refs : SUBSET Ids ]   \* ids the section says it depends on

-----------------------------------------------------------------------------
(***************************************************************************)
(* validate_plan.                                                          *)
(***************************************************************************)

TasksOf(p) == { i \in DOMAIN p : p[i].head = "task" }
TaskIds(p) == { p[i].id : i \in TasksOf(p) }

\* The sections the validator takes for the body of a task: up to the next task.
Block(p, i) == { j \in DOMAIN p : j >= i /\ \A k \in i + 1 .. j : p[k].head # "task" }

HasMust(p, i) ==
    \/ p[i].must # "none"
    \/ \E j \in Block(p, i) \ {i} : p[j].headMust \/ p[j].must # "none"

\* Any text before the first must-have, a later header included.
HasDescription(p, i) == p[i].desc \/ (p[i].must = "none" /\ Block(p, i) # {i})

ValidPlan(p) ==
    /\ TasksOf(p) # {} /\ Cardinality(TasksOf(p)) <= MaxTasks
    /\ \A i \in DOMAIN p : p[i].refs \subseteq TaskIds(p)
    /\ \A i, j \in TasksOf(p) : i # j => p[i].id # p[j].id
    /\ \A i \in TasksOf(p) : HasMust(p, i) /\ HasDescription(p, i)

-----------------------------------------------------------------------------
(***************************************************************************)
(* _parse_slice_plan, when the plan is written and when it is read back.   *)
(***************************************************************************)

\* The sections that become tasks: those with an id anywhere in the header.
Parsed(p) == { i \in DOMAIN p : p[i].head \in {"task", "mention"} }

\* The index a task gets, its place among them.
TaskIndex(p, i) == Cardinality({ j \in Parsed(p) : j < i })

\* _load_slice_plan_from_disk parses what is there, and does not validate it.
Loaded(p) == IF p = <<>> THEN {} ELSE Parsed(p)

\* What a task is verified with: the configured commands, those in its own
\* must-haves, or ruff and pytest.
VerifiedBy(p, i, configured) ==
    IF configured THEN "config"
    ELSE IF p[i].must = "commands" THEN "must-haves" ELSE "fallback"

-----------------------------------------------------------------------------
\* Two plans that pass the validator.  "## Notes on (T01)" becomes a second T01,
\* whose SUMMARY is the first one's; and must-haves under a header of their own
\* are lost to the task above it, which the fallback verifies.
Example(head, id, desc, must, headMust) ==
    [head |-> head, id |-> id, desc |-> desc, must |-> must,
     headMust |-> headMust, refs |-> {}]
TwiceT01 ==
    <<Example("task", 1, TRUE, "words", FALSE), Example("mention", 1, TRUE, "none", FALSE)>>
MustsApart ==
    <<Example("task", 1, TRUE, "none", FALSE), Example("plain", 0, FALSE, "commands", TRUE)>>

ASSUME PlanExamples ==
    /\ ValidPlan(TwiceT01)
    /\ \E i, j \in Parsed(TwiceT01) : i # j /\ TwiceT01[i].id = TwiceT01[j].id
    /\ ValidPlan(MustsApart)
    /\ VerifiedBy(MustsApart, 1, FALSE) = "fallback"
=============================================================================
