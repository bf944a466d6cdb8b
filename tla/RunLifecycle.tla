---------------------------- MODULE RunLifecycle ----------------------------
(***************************************************************************)
(* What STATE.json promises an observer: `tero2 status`, the TUI, and the  *)
(* next process that restores it.  Whatever object the runner happens to   *)
(* write, the file moves only along these steps; each is one legal         *)
(* operation of the checkpoint manager, or AgentState's own guard on       *)
(* sora_phase.                                                             *)
(*                                                                         *)
(* SoraRunner implements it with phase and sora of its variable `disk`.    *)
(***************************************************************************)
VARIABLES
    phase,   \* Phase of the file
    sora     \* SoraPhase of the file

vars == <<phase, sora>>

CONSTANT
    Edges    \* legal moves of sora

Init == phase = "idle" /\ sora = "none"

\* A run starts again, where the last one left off ...
Start ==
    /\ phase \in {"idle", "failed", "paused"}
    /\ phase' = "running"
    /\ UNCHANGED sora

\* ... unless that one was complete: then from the beginning.
StartOver ==
    /\ phase = "completed"
    /\ phase' = "running" /\ sora' = "none"

\* The pipeline advances in a running state only.
Advance ==
    /\ phase = "running"
    /\ \E e \in Edges : e = <<sora, sora'>>
    /\ UNCHANGED phase

\* Only a run whose last slice has been executed is complete.
Finish ==
    /\ phase = "running" /\ sora \in {"execute", "slice_done"}
    /\ phase' = "completed"
    /\ UNCHANGED sora

Pause ==
    /\ phase = "running"
    /\ phase' = "paused"
    /\ UNCHANGED sora

Fail ==
    /\ phase \in {"running", "paused"}
    /\ phase' = "failed"
    /\ UNCHANGED sora

Next == Start \/ StartOver \/ Advance \/ Finish \/ Pause \/ Fail

Spec == Init /\ [][Next]_vars
=============================================================================
