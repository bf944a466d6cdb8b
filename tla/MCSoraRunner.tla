---------------------------- MODULE MCSoraRunner ----------------------------
(***************************************************************************)
(* Values of SoraRunner's constants that a .cfg cannot write.              *)
(***************************************************************************)
EXTENDS SoraProperties, SlicePlanText

CONSTANTS S1, S2, S3, P1, P2

TwoSlices == {S1, S2}
ThenS2 == <<S2>>
ThreeSlices == {S1, S2, S3}
ThenS2S3 == <<S2, S3>>
NoneElse == <<>>

\* TASK_QUEUE.md with every other slice to do, and with none listed.
AllTodo   == [s \in QueueSlices |-> "todo"]
AllAbsent == [s \in QueueSlices |-> "absent"]
CoachMayAdd == {AllTodo}
CoachMayAddOrDrop == {AllTodo, AllAbsent}

Cmd(kind) == [kind |-> kind, plan |-> NoPlan]
NewPlan(p) == [kind |-> "new_plan", plan |-> p]

EveryCommand == {Cmd(k) : k \in CommandKinds \ {"new_plan"}} \union {NewPlan(P1)}
StopPauseNew == {Cmd("stop"), Cmd("pause"), NewPlan(P1)}
StopPauseSkip == {Cmd("stop"), Cmd("pause"), Cmd("skip_task")}
NewPlans == {NewPlan(P2)}
NoCommands == {}
=============================================================================
