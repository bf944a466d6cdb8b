---------------------------- MODULE CliProvider ----------------------------
(***************************************************************************)
(* One attempt at an agent CLI (CLIProvider.run and _stream_events in      *)
(* tero2/providers/cli.py): a child process whose three pipes have room    *)
(* for so much and block the child, or the caller, beyond that.            *)
(*                                                                         *)
(* The caller writes the prompt while a pump moves the child's lines into  *)
(* a queue of its own; then it takes them from there, while stderr is read *)
(* on the side; at the end it waits for the child, or kills it.  An action *)
(* is the code between two awaits.                                         *)
(*                                                                         *)
(* The child and the kernel's pipes are external.  A child does what it    *)
(* likes, but only so much, keeps its pipes until it exits, and only what  *)
(* is written in whole lines counts.                                       *)
(***************************************************************************)
EXTENDS Naturals, Sequences

CONSTANTS
    Prompt,      \* the prompt, in pieces of what the stdin pipe holds
    InRoom, OutRoom, ErrRoom,   \* what pipe and reader buffer hold
    LineKinds,   \* kinds of lines a child may write
    MaxLines,    \* bound: lines it writes to stdout
    MaxErrs      \* bound: what it writes to stderr

ASSUME CliAssumption ==
    /\ Prompt \in Nat \ {0}
    /\ InRoom \in Nat \ {0} /\ OutRoom \in Nat \ {0} /\ ErrRoom \in Nat \ {0}
    /\ LineKinds \subseteq {"event", "blank", "bad", "long"}
    /\ MaxLines \in Nat /\ MaxErrs \in Nat

VARIABLES
    call,     \* where the caller is
    cut,      \* ghost: an exception that run does not handle cut the writing off
    buffer,   \* of the prompt, still with the caller
    inpipe,   \* of the prompt, in the pipe
    child,    \* what the child does
    code,     \* its exit code
    lines,    \* the lines it has written to stdout
    pump,     \* the pump
    pumped,   \* lines the pump has read
    fifo,     \* stdout_queue: numbers of lines, and 0 for None
    errs,     \* what the child has written to stderr
    errpipe,  \* of it, not yet read
    out       \* the lines that were yielded, by number

callervars == <<call, cut, out>>
stdin  == <<buffer, inpipe>>
stdout == <<lines, pump, pumped, fifo>>
stderr == <<errs, errpipe>>
vars   == <<callervars, stdin, child, code, stdout, stderr>>

Over == {"ok", "error", "cancelled"}
Calls == {"none",    \* no process yet
          "feed",    \* writing the prompt, then closing stdin
          "unwind",  \* cancelled in that, still closing stdin
          "stream",  \* _stream_events, in its loop
          "tail",    \* stdout has ended
          "fail"}    \* a line was no object: waiting for stderr
         \union Over

TypeOK ==
    /\ call \in Calls /\ cut \in BOOLEAN
    /\ buffer \in 0 .. Prompt /\ inpipe \in 0 .. InRoom
    /\ child \in {"none", "free", "out", "err", "gone"} /\ code \in 0 .. 1
    /\ lines \in Seq(LineKinds) /\ Len(lines) <= MaxLines
    /\ pump \in {"off", "on", "done"} /\ pumped \in 0 .. Len(lines)
    /\ fifo \in Seq(0 .. Len(lines))
    /\ errs \in 0 .. MaxErrs /\ errpipe \in 0 .. ErrRoom
    /\ out \in Seq(1 .. Len(lines))

Init ==
    /\ call = "none" /\ cut = FALSE /\ out = <<>>
    /\ buffer = 0 /\ inpipe = 0
    /\ child = "none" /\ code = 0
    /\ lines = <<>> /\ pump = "off" /\ pumped = 0 /\ fifo = <<>>
    /\ errs = 0 /\ errpipe = 0

-----------------------------------------------------------------------------
(***************************************************************************)
(* The caller.                                                             *)
(***************************************************************************)

\* The process is created, the pump started, the prompt given to the transport.
Start ==
    /\ call = "none"
    /\ call' = "feed"
    /\ child' = "free"
    /\ buffer' = Prompt
    /\ pump' = "on"
    /\ UNCHANGED <<cut, out, inpipe, code, lines, pumped, fifo, stderr>>

\* The transport fills the pipe whenever there is room.
Flush ==
    /\ buffer > 0 /\ inpipe < InRoom /\ child # "gone"
    /\ buffer' = buffer - 1 /\ inpipe' = inpipe + 1
    /\ UNCHANGED <<callervars, child, code, stdout, stderr>>

\* drain and wait_closed have returned.
Fed ==
    /\ call = "feed" /\ buffer = 0
    /\ call' = "stream"
    /\ UNCHANGED <<cut, out, stdin, child, code, stdout, stderr>>

\* The child is gone before it has the prompt.  drain raises BrokenPipeError, and
\* that becomes an error, or ConnectionResetError if nothing could be written,
\* which leaves run as it is; or wait_closed raises, and nobody notices.
FeedBreaks ==
    /\ call = "feed" /\ buffer > 0 /\ child = "gone"
    /\ buffer' = 0
    /\ \/ call' = "error" /\ pump' = "done" /\ UNCHANGED cut
       \/ buffer = Prompt /\ call' = "error" /\ cut' = TRUE /\ UNCHANGED pump
       \/ call' = "stream" /\ UNCHANGED <<cut, pump>>
    /\ UNCHANGED <<out, inpipe, child, code, lines, pumped, fifo, stderr>>

\* A mutant of ReapChild: the process is left alone.
MutantLeavesChild == pump' = "done" /\ UNCHANGED <<child, code>>

\* run's finally: the pump is cancelled, the child killed if it still runs.
ReapChild ==
    /\ pump' = "done"
    /\ child' = "gone"
    /\ code' = IF child = "gone" THEN code ELSE 1

TakeLine ==
    /\ call = "stream" /\ fifo # <<>> /\ Head(fifo) # 0
    /\ fifo' = Tail(fifo)
    /\ CASE lines[Head(fifo)] = "event" -> out' = Append(out, Head(fifo)) /\ UNCHANGED call
         [] lines[Head(fifo)] = "bad"   -> call' = "fail" /\ UNCHANGED out
         [] OTHER                       -> UNCHANGED <<call, out>>
    /\ UNCHANGED <<cut, stdin, child, code, lines, pump, pumped, stderr>>

TakeEnd ==
    /\ call = "stream" /\ fifo # <<>> /\ Head(fifo) = 0
    /\ fifo' = Tail(fifo)
    /\ call' = "tail"
    /\ UNCHANGED <<cut, out, stdin, child, code, lines, pump, pumped, stderr>>

\* stderr_task, from the beginning of _stream_events on.
ReadErr ==
    /\ call \in {"stream", "tail", "fail"} /\ errpipe > 0
    /\ errpipe' = errpipe - 1
    /\ UNCHANGED <<callervars, stdin, child, code, stdout, errs>>

\* stderr has ended and the child exited: turn_end, or ProviderError.
Finish ==
    /\ call = "tail" /\ child = "gone" /\ errpipe = 0
    /\ call' = IF code = 0 THEN "ok" ELSE "error"
    /\ UNCHANGED <<cut, out, stdin, child, code, stdout, stderr>>

\* Up to five seconds are given to stderr, then ProviderError leaves run.
FailEnds ==
    /\ call = "fail"
    /\ call' = "error"
    /\ ReapChild
    /\ UNCHANGED <<cut, out, stdin, lines, pumped, fifo, stderr>>

\* A timeout, a cancelled task, or a consumer that reads no further.  While the
\* prompt is written no handler kills the child.
Cancel ==
    \/ /\ call \in {"stream", "tail", "fail"}
       /\ call' = "cancelled"
       /\ ReapChild
       /\ UNCHANGED <<cut, out, stdin, lines, pumped, fifo, stderr>>
    \/ /\ call = "feed"
       /\ call' = "unwind" /\ cut' = TRUE
       /\ UNCHANGED <<out, stdin, child, code, stdout, stderr>>

\* wait_closed returns when the prompt is written or the pipe broken.
Unwind ==
    /\ call = "unwind" /\ (buffer = 0 \/ child = "gone")
    /\ call' = "cancelled"
    /\ UNCHANGED <<cut, out, stdin, child, code, stdout, stderr>>

Caller == Fed \/ FeedBreaks \/ TakeLine \/ TakeEnd \/ Finish \/ FailEnds \/ Unwind

-----------------------------------------------------------------------------
(***************************************************************************)
(* The pump.                                                               *)
(***************************************************************************)

\* A mutant of PumpLine: only once the prompt is written.
MutantPumpsLate ==
    /\ pump = "on" /\ pumped < Len(lines) /\ lines[pumped + 1] # "long"
    /\ call # "feed"
    /\ pumped' = pumped + 1
    /\ fifo' = Append(fifo, pumped')
    /\ UNCHANGED <<callervars, stdin, child, code, lines, pump, stderr>>

\* A mutant of PumpLine: what is read while the prompt is written is discarded.
MutantDiscards ==
    /\ pump = "on" /\ pumped < Len(lines) /\ lines[pumped + 1] # "long"
    /\ pumped' = pumped + 1
    /\ fifo' = IF call = "feed" THEN fifo ELSE Append(fifo, pumped')
    /\ UNCHANGED <<callervars, stdin, child, code, lines, pump, stderr>>

\* A mutant of PumpLine: a line is counted twice.
MutantCountsTwice ==
    /\ pump = "on" /\ pumped < Len(lines) /\ lines[pumped + 1] # "long"
    /\ pumped' = pumped + 2
    /\ fifo' = Append(fifo, pumped')
    /\ UNCHANGED <<callervars, stdin, child, code, lines, pump, stderr>>

PumpLine ==
    /\ pump = "on" /\ pumped < Len(lines) /\ lines[pumped + 1] # "long"
    /\ pumped' = pumped + 1
    /\ fifo' = Append(fifo, pumped')
    /\ UNCHANGED <<callervars, stdin, child, code, lines, pump, stderr>>

\* The end of stdout, or the ValueError of a line over the limit, which nobody
\* asks the task for.  Either way the loop below sees None.
PumpEnds ==
    /\ pump = "on"
    /\ IF pumped < Len(lines) THEN lines[pumped + 1] = "long" ELSE child = "gone"
    /\ pump' = "done"
    /\ fifo' = Append(fifo, 0)
    /\ UNCHANGED <<callervars, stdin, child, code, lines, pumped, stderr>>

Pump == PumpLine \/ PumpEnds

-----------------------------------------------------------------------------
(***************************************************************************)
(* The child.                                                              *)
(***************************************************************************)

ChildReads ==
    /\ child = "free" /\ inpipe > 0
    /\ inpipe' = inpipe - 1
    /\ UNCHANGED <<callervars, buffer, child, code, stdout, stderr>>

\* It starts to write, and can do nothing else until that is done.
ChildWrites ==
    /\ child = "free"
    /\ \/ child' = "out" /\ Len(lines) < MaxLines
       \/ child' = "err" /\ errs < MaxErrs
    /\ UNCHANGED <<callervars, stdin, code, stdout, stderr>>

WritesLine ==
    /\ child = "out" /\ Len(lines) - pumped < OutRoom
    /\ child' = "free"
    /\ \E kind \in LineKinds : lines' = Append(lines, kind)
    /\ UNCHANGED <<callervars, stdin, code, pump, pumped, fifo, stderr>>

WritesErr ==
    /\ child = "err" /\ errpipe < ErrRoom
    /\ child' = "free"
    /\ errs' = errs + 1 /\ errpipe' = errpipe + 1
    /\ UNCHANGED <<callervars, stdin, code, stdout>>

ChildExits ==
    /\ child = "free"
    /\ child' = "gone"
    /\ code' \in 0 .. 1
    /\ UNCHANGED <<callervars, stdin, stdout, stderr>>

Child == ChildReads \/ ChildWrites \/ WritesLine \/ WritesErr \/ ChildExits

Next == Start \/ Flush \/ Caller \/ ReadErr \/ Cancel \/ Pump \/ Child

Spec == Init /\ [][Next]_vars

\* The event loop gets back to each of its tasks, the kernel moves what fits, and
\* a child that nothing blocks comes to its end.  Nobody owes a timeout.
Fairness ==
    /\ WF_vars(Flush) /\ WF_vars(Caller) /\ WF_vars(ReadErr)
    /\ WF_vars(Pump) /\ WF_vars(Child)
FairSpec == Spec /\ Fairness

-----------------------------------------------------------------------------
(***************************************************************************)
(* Properties.                                                             *)
(***************************************************************************)

\* An attempt is one of Attempt's: what is yielded is what the child wrote, in
\* order and nothing twice, and turn_end comes only when every line that could be
\* read was yielded and the child exited with 0 (cli.py:144-203, 247-257, 289-307).
Promise == INSTANCE Attempt WITH
    said <- lines,
    how <- IF call \in Over THEN call ELSE "open"
AttemptSpec == Promise!Spec

\* When the attempt is over, however it ended, its child is gone and its pump has
\* stopped, unless an exception nothing handles, a cancellation or a reset connection,
\* cut the writing of the prompt off (cli.py:265-284, 308-324).
NothingLeftBehind ==
    call \in Over /\ ~cut => child = "gone" /\ pump # "on"

\* An attempt ends by itself, however much the child writes before it reads its
\* prompt, except that a line over the reader's limit ends the reading and may block
\* the child for good, and that stderr is not read while the prompt is written
\* (cli.py:158, 239-246, 259-284).
Overlong == \E i \in DOMAIN lines : lines[i] = "long"
ErrBlocksPrompt == call \in {"feed", "unwind"} /\ child = "err" /\ errpipe = ErrRoom
AttemptEnds ==
    call # "none" ~> (call \in Over \/ Overlong \/ ErrBlocksPrompt)
=============================================================================
