---------------------------- MODULE ProjectLock ----------------------------
(***************************************************************************)
(* One runner per project (tero2/lock.py, tero2/project_lock.py and their  *)
(* use in Runner.run): a flock on .sora/runtime/auto.lock, whose text names *)
(* the process that holds it.                                              *)
(*                                                                         *)
(* The kernel's part is external: a flock belongs to one open file at a    *)
(* time and is gone when its process closes the file or dies.  The file    *)
(* itself stays for ever.  An action is one system call, since a process   *)
(* may be killed and others may look between any two.                      *)
(***************************************************************************)
EXTENDS Integers

CONSTANTS
    Procs,      \* runner processes
    Projects,
    Nobody,     \* no owner, and an empty lock file
    Mixed       \* a lock file that holds the rest of a longer number

ASSUME LockAssumption == Nobody \notin Procs /\ Mixed \notin Procs

VARIABLES
    at,         \* where each process is in Runner.run
    of,         \* the project it was started on
    owner,      \* the process that holds the flock of each project
    text        \* what the lock file of each project names

lockvars == <<at, of, owner, text>>

Steps == {"none",      \* not started
          "start",     \* before lock.acquire
          "locked",    \* flock succeeded
          "running",   \* acquire has returned
          "gone"}

LockTypeOK ==
    /\ at \in [Procs -> Steps]
    /\ of \in [Procs -> Projects]
    /\ owner \in [Projects -> Procs \union {Nobody}]
    /\ text \in [Projects -> Procs \union {Nobody, Mixed}]

LockInit ==
    /\ at = [p \in Procs |-> "none"]
    /\ of \in [Procs -> Projects]
    /\ owner = [j \in Projects |-> Nobody]
    /\ text = [j \in Projects |-> Nobody]

Goes(p, from, to) == at[p] = from /\ at' = [at EXCEPT ![p] = to]

\* A process is started on a project.
Spawn(p, j) ==
    /\ Goes(p, "none", "start")
    /\ of' = [of EXCEPT ![p] = j]
    /\ UNCHANGED <<owner, text>>

\* A mutant of Acquire: the lock is taken for granted.
MutantTakesLock(p) ==
    /\ Goes(p, "start", "locked")
    /\ owner' = [owner EXCEPT ![of[p]] = p]
    /\ UNCHANGED <<of, text>>

\* flock(LOCK_EX | LOCK_NB).
Acquire(p) ==
    /\ owner[of[p]] = Nobody
    /\ Goes(p, "start", "locked")
    /\ owner' = [owner EXCEPT ![of[p]] = p]
    /\ UNCHANGED <<of, text>>

\* LockHeldError: the process exits with EXIT_LOCK_HELD.  It names whoever the
\* file names, and frees nothing, since it has no file descriptor.
Refuse(p) ==
    /\ owner[of[p]] # Nobody
    /\ Goes(p, "start", "gone")
    /\ UNCHANGED <<of, owner, text>>

\* The number is written over what was there, and what is left of that cut off.
\* Then acquire returns.
WritePid(p) ==
    /\ Goes(p, "locked", "running")
    /\ text' = [text EXCEPT ![of[p]] = p]
    /\ UNCHANGED <<of, owner>>

\* release: the file keeps the number.
Release(p) ==
    /\ Goes(p, "running", "gone")
    /\ owner' = [owner EXCEPT ![of[p]] = Nobody]
    /\ UNCHANGED <<of, text>>

\* The process is killed, and the kernel closes its files; or writing the number
\* raises OSError, and acquire closes the file.  Both free the lock, and between
\* write and truncate they leave a mixture.
Fails(p) ==
    /\ at[p] \notin {"none", "gone"}
    /\ at' = [at EXCEPT ![p] = "gone"]
    /\ owner' = [owner EXCEPT ![of[p]] = IF @ = p THEN Nobody ELSE @]
    /\ IF at[p] = "locked"
       THEN \E t \in {text[of[p]], p, Mixed} : text' = [text EXCEPT ![of[p]] = t]
       ELSE UNCHANGED text
    /\ UNCHANGED of

Step(p) == Acquire(p) \/ Refuse(p) \/ WritePid(p) \/ Release(p)

LockNext ==
    \E p \in Procs :
        \/ \E j \in Projects : Spawn(p, j)
        \/ Step(p)
        \/ Fails(p)

LockSpec == LockInit /\ [][LockNext]_lockvars

-----------------------------------------------------------------------------
(***************************************************************************)
(* Properties.                                                             *)
(***************************************************************************)

InRun(p) == at[p] = "running"

\* No two processes run one project at a time, over any kills, failed writes and
\* refused starts, and while a process runs the lock file names it and nobody
\* else, whatever was left in the file before (lock.py:24-48, runner.py:137, 180).
LockIsExclusive ==
    \A p \in Procs : InRun(p) =>
        /\ text[of[p]] = p
        /\ \A q \in Procs \ {p} : InRun(q) => of[q] # of[p]

\* A process owns the lock of its project, and no other, from flock to release.
Owning == {"locked", "running"}
OwnersHold ==
    \A p \in Procs, j \in Projects :
        owner[j] = p <=> (at[p] \in Owning /\ of[p] = j)
NamedWhileRunning ==
    \A p \in Procs : InRun(p) => text[of[p]] = p

LockInv == LockTypeOK /\ OwnersHold /\ NamedWhileRunning
=============================================================================
