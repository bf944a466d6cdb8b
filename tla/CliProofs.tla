----------------------------- MODULE CliProofs -----------------------------
(***************************************************************************)
(* What an attempt at an agent CLI keeps, whatever its child writes and    *)
(* however little its pipes hold.                                          *)
(***************************************************************************)
EXTENDS CliProvider, SequenceTheorems, TLAPS

\* stdout_queue: the numbers of consecutive lines up to the last one pumped, and
\* after them perhaps None.
Ended == fifo # <<>> /\ fifo[Len(fifo)] = 0
Left  == IF Ended THEN Len(fifo) - 1 ELSE Len(fifo)
Taken == pumped - Left

\* Nothing more can be read.
Exhausted ==
    \/ pumped = Len(lines) /\ child = "gone"
    \/ pumped < Len(lines) /\ lines[pumped + 1] = "long"

Places ==
    /\ child = "out" => Len(lines) < MaxLines
    /\ child = "err" => errs < MaxErrs
    /\ call = "none" => pump = "off" /\ child = "none"
    /\ call = "unwind" => cut
    /\ call = "ok" => child = "gone"
    /\ call = "tail" => fifo = <<>>
    /\ Ended \/ call = "tail" => pump = "done" /\ Exhausted

InOrder ==
    /\ Left <= pumped
    /\ \A k \in 1 .. Left : fifo[k] = Taken + k
    /\ \A k \in 1 .. pumped : lines[k] # "long"

\* What was taken from the queue was an event and yielded, or blank.
LastOut == IF out = <<>> THEN 0 ELSE out[Len(out)]
Working == call \notin Over \union {"fail"}
Front ==
    Working =>
        /\ LastOut <= Taken
        /\ \A k \in 1 .. Taken : lines[k] # "bad"
        /\ \A k \in LastOut + 1 .. Taken : lines[k] # "event"

CliInv == TypeOK /\ Places /\ InOrder /\ Front /\ NothingLeftBehind

-----------------------------------------------------------------------------
(***************************************************************************)
(* Types.                                                                  *)
(***************************************************************************)

CallerTypes ==
    /\ call \in Calls /\ cut \in BOOLEAN
    /\ buffer \in 0 .. Prompt /\ inpipe \in 0 .. InRoom
ChildTypes ==
    /\ child \in {"none", "free", "out", "err", "gone"} /\ code \in 0 .. 1
    /\ errs \in 0 .. MaxErrs /\ errpipe \in 0 .. ErrRoom
LineTypes ==
    /\ lines \in Seq(LineKinds) /\ Len(lines) <= MaxLines
    /\ pump \in {"off", "on", "done"} /\ pumped \in 0 .. Len(lines)
    /\ fifo \in Seq(0 .. Len(lines))
    /\ out \in Seq(1 .. Len(lines))

LEMMA TypeParts == TypeOK <=> CallerTypes /\ ChildTypes /\ LineTypes
  BY DEF TypeOK, CallerTypes, ChildTypes, LineTypes

LEMMA CliInit == Init => CliInv
<1> SUFFICES ASSUME Init PROVE CliInv
  OBVIOUS
<1>1. Len(<<>>) = 0 /\ \A S : <<>> \in Seq(S)
  BY EmptySeq
<1>2. CallerTypes
  <2>1. cut \in BOOLEAN
    BY DEF Init
  <2> QED BY <2>1, CliAssumption DEF Init, CallerTypes, Calls
<1>3. ChildTypes
  BY CliAssumption DEF Init, ChildTypes
<1>4. lines = <<>> /\ fifo = <<>> /\ out = <<>> /\ pumped = 0 /\ pump = "off" /\ call = "none"
      /\ child = "none"
  BY DEF Init
<1>5. Len(lines) = 0 /\ Len(fifo) = 0
  BY <1>1, <1>4
<1>6. LineTypes
  BY <1>1, <1>4, <1>5, CliAssumption DEF LineTypes
<1>7. ~Ended /\ Left = 0
  BY <1>4, <1>5 DEF Ended, Left
<1>8. Taken = 0 /\ LastOut = 0
  BY <1>4, <1>7 DEF Taken, LastOut
<1>9. Places /\ InOrder /\ Front /\ NothingLeftBehind
  BY <1>4, <1>7, <1>8 DEF Places, InOrder, Front, NothingLeftBehind, Over
<1> QED BY <1>2, <1>3, <1>6, <1>9, TypeParts DEF CliInv

LEMMA CallerTypeStep ==
  ASSUME TypeOK, [Next]_vars PROVE CallerTypes'
<1> USE CliAssumption, TypeParts
      DEF CallerTypes, callervars, stdin, stdout, stderr, Calls, Over
<1>1. CASE Start BY <1>1 DEF Start
<1>2. CASE Flush BY <1>2 DEF Flush
<1>3. CASE Fed BY <1>3 DEF Fed
<1>4. CASE FeedBreaks
  <2>1. call' \in {"error", "stream"} /\ buffer' = 0 /\ inpipe' = inpipe
    BY <1>4 DEF FeedBreaks
  <2>2. cut' \in BOOLEAN
    BY <1>4 DEF FeedBreaks
  <2> QED BY <2>1, <2>2
<1>5. CASE TakeLine
  <2>1. call' \in {call, "fail"} /\ cut' = cut /\ buffer' = buffer /\ inpipe' = inpipe
    BY <1>5 DEF TakeLine
  <2> QED BY <2>1
<1>6. CASE TakeEnd BY <1>6 DEF TakeEnd
<1>7. CASE ReadErr BY <1>7 DEF ReadErr
<1>8. CASE Finish BY <1>8 DEF Finish
<1>9. CASE FailEnds BY <1>9 DEF FailEnds, ReapChild
<1>10. CASE Cancel BY <1>10 DEF Cancel, ReapChild
<1>11. CASE Unwind BY <1>11 DEF Unwind
<1>12. CASE Pump BY <1>12 DEF Pump, PumpLine, PumpEnds
<1>13. CASE Child
  BY <1>13 DEF Child, ChildReads, ChildWrites, WritesLine, WritesErr, ChildExits
<1>14. CASE UNCHANGED vars BY <1>14 DEF vars
<1> QED BY <1>1, <1>2, <1>3, <1>4, <1>5, <1>6, <1>7, <1>8, <1>9, <1>10, <1>11,
           <1>12, <1>13, <1>14 DEF Next, Caller

LEMMA ChildTypeStep ==
  ASSUME TypeOK, Places, [Next]_vars PROVE ChildTypes'
<1> USE CliAssumption, TypeParts
      DEF ChildTypes, callervars, stdin, stdout, stderr
<1>1. CASE Start BY <1>1 DEF Start
<1>2. CASE Flush BY <1>2 DEF Flush
<1>3. CASE Fed BY <1>3 DEF Fed
<1>4. CASE FeedBreaks BY <1>4 DEF FeedBreaks
<1>5. CASE TakeLine BY <1>5 DEF TakeLine
<1>6. CASE TakeEnd BY <1>6 DEF TakeEnd
<1>7. CASE ReadErr BY <1>7 DEF ReadErr
<1>8. CASE Finish BY <1>8 DEF Finish
<1>9. CASE FailEnds BY <1>9 DEF FailEnds, ReapChild
<1>10. CASE Cancel BY <1>10 DEF Cancel, ReapChild
<1>11. CASE Unwind BY <1>11 DEF Unwind
<1>12. CASE Pump BY <1>12 DEF Pump, PumpLine, PumpEnds
<1>13. CASE ChildReads BY <1>13 DEF ChildReads
<1>14. CASE ChildWrites BY <1>14 DEF ChildWrites
<1>15. CASE WritesLine BY <1>15 DEF WritesLine
<1>16. CASE WritesErr
  <2>1. child' = "free" /\ code' = code /\ errs' = errs + 1 /\ errpipe' = errpipe + 1
        /\ errpipe < ErrRoom
    BY <1>16 DEF WritesErr
  <2>2. errs < MaxErrs
    BY <1>16 DEF WritesErr, Places
  <2> QED BY <2>1, <2>2
<1>17. CASE ChildExits BY <1>17 DEF ChildExits
<1>18. CASE UNCHANGED vars BY <1>18 DEF vars
<1> QED BY <1>1, <1>2, <1>3, <1>4, <1>5, <1>6, <1>7, <1>8, <1>9, <1>10, <1>11,
           <1>12, <1>13, <1>14, <1>15, <1>16, <1>17, <1>18 DEF Next, Caller, Child

\* The lines, the queue and what was yielded change in four actions only.
LineActions == TakeLine \/ TakeEnd \/ Pump \/ WritesLine
Streams == <<lines, pumped, fifo, out>>

LEMMA OthersKeepStreams ==
  ASSUME [Next]_vars, ~LineActions PROVE UNCHANGED Streams
  BY DEF Next, Caller, Child, LineActions, Streams, vars, callervars, stdin, stdout,
     stderr, Start, Flush, Fed, FeedBreaks, ReadErr, Finish, FailEnds, Cancel,
     ReapChild, Unwind, ChildReads, ChildWrites, WritesErr, ChildExits

LEMMA PumpSteps ==
  ASSUME TypeOK, [Next]_vars PROVE pump' \in {pump, "on", "done"}
  BY DEF Next, Caller, Child, vars, callervars, stdin, stdout,
     stderr, Start, Flush, Fed, FeedBreaks, ReadErr, Finish, FailEnds, Cancel, Pump,
     PumpLine, PumpEnds, TakeLine, TakeEnd, WritesLine,
     ReapChild, Unwind, ChildReads, ChildWrites, WritesErr, ChildExits

LEMMA LineTypeStep ==
  ASSUME TypeOK, Places, [Next]_vars PROVE LineTypes'
<1> USE CliAssumption, TypeParts DEF LineTypes
<1>1. pump' \in {"off", "on", "done"}
  BY PumpSteps
<1>2. CASE ~LineActions
  BY <1>1, <1>2, OthersKeepStreams DEF Streams
<1>3. CASE TakeLine
  <2>1. /\ fifo # <<>> /\ Head(fifo) # 0 /\ fifo' = Tail(fifo)
        /\ out' \in {out, Append(out, Head(fifo))}
        /\ UNCHANGED <<lines, pumped>>
    BY <1>3 DEF TakeLine
  <2>2. Head(fifo) \in 0 .. Len(lines) /\ fifo' \in Seq(0 .. Len(lines))
    BY <2>1, HeadTailProperties
  <2>3. Head(fifo) \in 1 .. Len(lines)
    BY <2>1, <2>2, LenProperties
  <2>4. Append(out, Head(fifo)) \in Seq(1 .. Len(lines))
    BY <2>3, AppendProperties
  <2>5. out' \in Seq(1 .. Len(lines))
    BY <2>1, <2>4
  <2> QED BY <1>1, <2>1, <2>2, <2>5
<1>4. CASE TakeEnd
  <2>1. fifo # <<>> /\ fifo' = Tail(fifo) /\ UNCHANGED <<lines, pumped, out>>
    BY <1>4 DEF TakeEnd, stdout
  <2>2. fifo' \in Seq(0 .. Len(lines))
    BY <2>1, HeadTailProperties
  <2> QED BY <1>1, <2>1, <2>2
<1>5. CASE PumpLine
  <2>1. /\ pumped < Len(lines) /\ pumped' = pumped + 1
        /\ fifo' = Append(fifo, pumped + 1) /\ UNCHANGED <<lines, out>>
    BY <1>5 DEF PumpLine, callervars
  <2>2. pumped + 1 \in 0 .. Len(lines)
    BY <2>1, LenProperties
  <2>3. fifo' \in Seq(0 .. Len(lines))
    BY <2>1, <2>2, AppendProperties
  <2> QED BY <1>1, <2>1, <2>2, <2>3
<1>6. CASE PumpEnds
  <2>1. fifo' = Append(fifo, 0) /\ UNCHANGED <<lines, pumped, out>>
    BY <1>6 DEF PumpEnds, callervars
  <2>2. fifo' \in Seq(0 .. Len(lines))
    BY <2>1, AppendProperties, LenProperties
  <2> QED BY <1>1, <2>1, <2>2
<1>7. CASE WritesLine
  <2>1. PICK kind \in LineKinds : lines' = Append(lines, kind)
    BY <1>7 DEF WritesLine
  <2>2. UNCHANGED <<pumped, fifo, out>>
    BY <1>7 DEF WritesLine, callervars
  <2>3. lines' \in Seq(LineKinds) /\ Len(lines') = Len(lines) + 1
    BY <2>1, AppendProperties
  <2>4. Len(lines') <= MaxLines
    BY <1>7, <2>3, LenProperties DEF WritesLine, CliInv, Places
  <2>5. 0 .. Len(lines) \subseteq 0 .. Len(lines') /\ 1 .. Len(lines) \subseteq 1 .. Len(lines')
    BY <2>3, LenProperties
  <2>6. fifo' \in Seq(0 .. Len(lines')) /\ out' \in Seq(1 .. Len(lines'))
    BY <2>2, <2>5, SeqMonotonic
  <2> QED BY <1>1, <2>2, <2>3, <2>4, <2>5, <2>6
<1> QED BY <1>2, <1>3, <1>4, <1>5, <1>6, <1>7 DEF LineActions, Pump
-----------------------------------------------------------------------------
(***************************************************************************)
(* The queue.                                                              *)
(***************************************************************************)

LEMMA QueueShape ==
  ASSUME TypeOK
  PROVE  /\ Len(fifo) \in Nat /\ Len(lines) \in Nat /\ Left \in Nat /\ pumped \in Nat
         /\ pumped <= Len(lines)
         /\ Taken \in Int /\ LastOut \in Nat /\ LastOut <= Len(lines)
         /\ Ended => Len(fifo) = Left + 1 /\ fifo[Left + 1] = 0
         /\ ~Ended => Len(fifo) = Left
<1>1. Len(fifo) \in Nat /\ Len(lines) \in Nat /\ Len(out) \in Nat /\ pumped \in 0 .. Len(lines)
  BY LenProperties DEF TypeOK
<1>2. fifo # <<>> => Len(fifo) \in Nat \ {0}
  BY EmptySeq DEF TypeOK
<1>3. LastOut \in 0 .. Len(lines)
  <2>1. CASE out = <<>>
    BY <1>1, <2>1 DEF LastOut
  <2>2. CASE out # <<>>
    <3>1. Len(out) \in 1 .. Len(out)
      BY <2>2, EmptySeq DEF TypeOK
    <3>2. out[Len(out)] \in 1 .. Len(lines)
      BY <3>1, ElementOfSeq DEF TypeOK
    <3> QED BY <2>2, <3>2, <1>1 DEF LastOut
  <2> QED BY <2>1, <2>2
<1>4. Left \in Nat /\ (Ended => Len(fifo) = Left + 1 /\ fifo[Left + 1] = 0)
      /\ (~Ended => Len(fifo) = Left)
  BY <1>1, <1>2 DEF Ended, Left
<1> QED BY <1>1, <1>3, <1>4 DEF Taken

\* Taking a line is taking the next one.
LEMMA TakesNext ==
  ASSUME TypeOK, InOrder, fifo # <<>>, Head(fifo) # 0,
         fifo' = Tail(fifo), pumped' = pumped
  PROVE  /\ Head(fifo) = Taken + 1 /\ Taken + 1 \in 1 .. pumped
         /\ Ended' <=> Ended
         /\ Left' = Left - 1 /\ Taken' = Taken + 1
         /\ \A k \in 1 .. Left' : fifo'[k] = Taken' + k
<1>1. /\ Len(fifo') = Len(fifo) - 1
      /\ \A i \in 1 .. Len(fifo') : fifo'[i] = fifo[i + 1]
      /\ Head(fifo) = fifo[1]
  BY HeadTailProperties DEF TypeOK
<1>2. fifo' \in Seq(0 .. Len(lines))
  BY HeadTailProperties DEF TypeOK
<1>3. Len(fifo) > 0
  BY EmptySeq DEF TypeOK
<1>4. Left > 0
  BY <1>1, <1>3, QueueShape
<1>5. Head(fifo) = Taken + 1 /\ Taken + 1 \in 1 .. pumped
  BY <1>1, <1>4, QueueShape DEF InOrder, Taken
<1>6. \A k \in 1 .. Left - 1 : fifo'[k] = (Taken + 1) + k
  <2> SUFFICES ASSUME NEW k \in 1 .. Left - 1 PROVE fifo'[k] = (Taken + 1) + k
    OBVIOUS
  <2>1. Left \in Nat /\ Taken \in Int /\ (Len(fifo) = Left \/ Len(fifo) = Left + 1)
    BY QueueShape
  <2>2. k + 1 \in 1 .. Left
    BY <2>1
  <2>3. k \in 1 .. Len(fifo')
    <3>1. Len(fifo') = Len(fifo) - 1
      BY <1>1
    <3>2. CASE Len(fifo) = Left
      BY <2>1, <3>1, <3>2
    <3>3. CASE Len(fifo) = Left + 1
      BY <2>1, <3>1, <3>3
    <3> QED BY <2>1, <3>2, <3>3
  <2>4. fifo'[k] = fifo[k + 1] /\ fifo[k + 1] = Taken + (k + 1)
    BY <1>1, <2>2, <2>3 DEF InOrder
  <2> QED BY <2>1, <2>4
<1>7. Left' = Left - 1 => Taken' = Taken + 1
  <2>1. pumped \in Int /\ Left \in Int
    BY QueueShape
  <2> QED BY <2>1 DEF Taken
<1>8. fifo' # <<>> <=> Len(fifo') > 0
  <2>1. fifo' # <<>> => Len(fifo') > 0
    BY <1>2, EmptySeq
  <2>2. fifo' = <<>> => Len(fifo') = 0
    BY EmptySeq
  <2> QED BY <2>1, <2>2
<1>9. CASE Ended
  <2>1. Len(fifo) = Left + 1 /\ fifo[Left + 1] = 0
    BY <1>9, QueueShape
  <2>2. Len(fifo') = Left /\ fifo'[Left] = 0
    BY <1>1, <1>4, <2>1, QueueShape
  <2>3. Ended'
    BY <1>4, <1>8, <2>2, QueueShape DEF Ended
  <2>4. Left' = Left - 1
    BY <2>2, <2>3 DEF Left
  <2> QED BY <1>5, <1>6, <1>7, <1>9, <2>3, <2>4
<1>10. CASE ~Ended
  <2>1. Len(fifo) = Left
    BY <1>10, QueueShape
  <2>2. ~Ended'
    <3>1. SUFFICES ASSUME Len(fifo') > 0 PROVE fifo'[Len(fifo')] # 0
      BY <1>8 DEF Ended
    <3>2. fifo'[Len(fifo')] = fifo[Left]
      BY <1>1, <2>1, <3>1, QueueShape
    <3>3. fifo[Left] = pumped
      BY <1>4, QueueShape DEF InOrder, Taken
    <3>4. Taken \in Int /\ pumped \in Nat
      BY QueueShape
    <3>5. pumped # 0
      BY <1>5, <3>4
    <3> QED BY <3>2, <3>3, <3>5
  <2>3. Left' = Left - 1
    BY <1>1, <2>1, <2>2 DEF Left
  <2> QED BY <1>5, <1>6, <1>7, <1>10, <2>2, <2>3
<1> QED BY <1>9, <1>10

\* None comes when nothing is left.
LEMMA TakesLast ==
  ASSUME TypeOK, InOrder, fifo # <<>>, Head(fifo) = 0,
         fifo' = Tail(fifo), pumped' = pumped
  PROVE  /\ Ended /\ Left = 0 /\ fifo' = <<>>
         /\ ~Ended' /\ Left' = 0 /\ Taken' = Taken
<1>1. /\ Len(fifo') = Len(fifo) - 1 /\ Head(fifo) = fifo[1]
      /\ fifo' \in Seq(0 .. Len(lines))
  BY HeadTailProperties DEF TypeOK
<1>2. Len(fifo) > 0
  BY EmptySeq DEF TypeOK
<1>3. ~(Left >= 1)
  <2>1. SUFFICES ASSUME Left >= 1 PROVE fifo[1] # 0
    BY <1>1
  <2> QED BY <2>1, QueueShape DEF InOrder, Taken
<1>4. Left = 0 /\ Ended /\ Len(fifo) = 1
  <2>1. Left = 0
    BY <1>3, QueueShape
  <2>2. Ended
    BY <1>2, <2>1, QueueShape
  <2> QED BY <2>1, <2>2, QueueShape
<1>5. fifo' = <<>>
  BY <1>1, <1>4, EmptySeq
<1>6. ~Ended' /\ Left' = 0
  BY <1>1, <1>4, <1>5 DEF Ended, Left
<1> QED BY <1>4, <1>5, <1>6 DEF Taken

LEMMA PutsLine ==
  ASSUME TypeOK, InOrder, ~Ended, pumped < Len(lines),
         pumped' = pumped + 1, fifo' = Append(fifo, pumped + 1)
  PROVE  /\ ~Ended' /\ fifo' # <<>>
         /\ Left' = Left + 1 /\ Taken' = Taken
         /\ \A k \in 1 .. Left' : fifo'[k] = Taken' + k
<1>1. pumped + 1 \in 0 .. Len(lines)
  BY QueueShape
<1>2. /\ fifo' # <<>> /\ Len(fifo') = Len(fifo) + 1
      /\ \A i \in 1 .. Len(fifo) : fifo'[i] = fifo[i]
      /\ fifo'[Len(fifo) + 1] = pumped + 1
  <2>1. fifo \in Seq(0 .. Len(lines))
    BY DEF TypeOK
  <2> QED BY <1>1, <2>1, AppendProperties
<1>3. Len(fifo) = Left
  BY QueueShape
<1>4. ~Ended'
  BY <1>2, QueueShape DEF Ended
<1>5. Left' = Left + 1
  <2>1. Left' = Len(fifo')
    BY <1>4 DEF Left
  <2> QED BY <1>2, <1>3, <2>1
<1>6. Taken' = Taken
  <2>1. pumped \in Int /\ Left \in Int
    BY QueueShape
  <2> QED BY <1>5, <2>1 DEF Taken
<1>7. \A k \in 1 .. Left + 1 : fifo'[k] = Taken + k
  <2> SUFFICES ASSUME NEW k \in 1 .. Left + 1 PROVE fifo'[k] = Taken + k
    OBVIOUS
  <2>1. CASE k = Left + 1
    <3>1. pumped \in Int /\ Left \in Int
      BY QueueShape
    <3> QED BY <1>2, <1>3, <2>1, <3>1 DEF Taken
  <2>2. CASE k # Left + 1
    <3>1. Left \in Nat
      BY QueueShape
    <3>2. k \in 1 .. Left
      BY <2>2, <3>1
    <3> QED BY <1>2, <1>3, <3>2 DEF InOrder
  <2> QED BY <2>1, <2>2
<1> QED BY <1>2, <1>4, <1>5, <1>6, <1>7

LEMMA PutsNone ==
  ASSUME TypeOK, InOrder, ~Ended, pumped' = pumped, fifo' = Append(fifo, 0)
  PROVE  /\ Ended' /\ fifo' # <<>>
         /\ Left' = Left /\ Taken' = Taken
         /\ \A k \in 1 .. Left' : fifo'[k] = Taken' + k
<1>1. 0 \in 0 .. Len(lines)
  BY QueueShape
<1>2. /\ fifo' # <<>> /\ Len(fifo') = Len(fifo) + 1
      /\ \A i \in 1 .. Len(fifo) : fifo'[i] = fifo[i]
      /\ fifo'[Len(fifo) + 1] = 0
  <2>1. fifo \in Seq(0 .. Len(lines))
    BY DEF TypeOK
  <2> QED BY <1>1, <2>1, AppendProperties
<1>3. Len(fifo) = Left
  BY QueueShape
<1>4. Ended'
  BY <1>2 DEF Ended
<1>5. Left' = Left
  <2>1. Left' = Len(fifo') - 1
    BY <1>4 DEF Left
  <2> QED BY <1>2, <1>3, <2>1, QueueShape
<1>6. Taken' = Taken
  BY <1>5 DEF Taken
<1> QED BY <1>2, <1>3, <1>4, <1>5, <1>6 DEF InOrder

-----------------------------------------------------------------------------
(***************************************************************************)
(* What one step can do to the caller, the child and the pump.             *)
(***************************************************************************)

LEMMA GoneStaysGone ==
  ASSUME Places, [Next]_vars
  PROVE  /\ child = "gone" => child' = "gone"
         /\ pump = "done" => pump' = "done"
  BY DEF Places, Next, Caller, Child, vars, callervars, stdin, stdout,
     stderr, Start, Flush, Fed, FeedBreaks, ReadErr, Finish, FailEnds, Cancel, Pump,
     PumpLine, PumpEnds, TakeLine, TakeEnd, WritesLine,
     ReapChild, Unwind, ChildReads, ChildWrites, WritesErr, ChildExits

LEMMA CallSteps ==
  ASSUME Places, [Next]_vars
  PROVE  /\ Working' => Working
         /\ call \in Over => call' = call
         /\ call' = "none" => call = "none" /\ pump' = "off" /\ child' = "none"
         /\ call' = "tail" => call = "tail" \/ TakeEnd
         /\ call' = "ok" => call = "ok" \/ Finish
         /\ call' = "unwind" => (call = "unwind" /\ cut' = cut) \/ cut' = TRUE
  BY DEF Places, Working, Over, Next, Caller, Child, vars, callervars, stdin, stdout,
     stderr, Start, Flush, Fed, FeedBreaks, ReadErr, Finish, FailEnds, Cancel, Pump,
     PumpLine, PumpEnds, TakeLine, TakeEnd, WritesLine,
     ReapChild, Unwind, ChildReads, ChildWrites, WritesErr, ChildExits

LEMMA ChildStarts ==
  ASSUME [Next]_vars
  PROVE  /\ child' = "out" => \/ child = "out" /\ lines' = lines
                              \/ lines' = lines /\ Len(lines) < MaxLines
         /\ child' = "err" => \/ child = "err" /\ errs' = errs
                              \/ errs' = errs /\ errs < MaxErrs
  BY DEF Next, Caller, Child, vars, callervars, stdin, stdout,
     stderr, Start, Flush, Fed, FeedBreaks, ReadErr, Finish, FailEnds, Cancel, Pump,
     PumpLine, PumpEnds, TakeLine, TakeEnd, WritesLine,
     ReapChild, Unwind, ChildReads, ChildWrites, WritesErr, ChildExits

LEMMA WritesOneLine ==
  ASSUME TypeOK, WritesLine
  PROVE  /\ UNCHANGED <<call, cut, pump, pumped, fifo, out>> /\ child = "out"
         /\ Len(lines') = Len(lines) + 1
         /\ \A k \in 1 .. Len(lines) : lines'[k] = lines[k]
<1>1. PICK kind \in LineKinds : lines' = Append(lines, kind)
  BY DEF WritesLine
<1>2. UNCHANGED <<call, cut, pump, pumped, fifo, out>> /\ child = "out"
  BY DEF WritesLine, callervars
<1>3. lines \in Seq(LineKinds)
  BY DEF TypeOK
<1> QED BY <1>1, <1>2, <1>3, AppendProperties

-----------------------------------------------------------------------------
(***************************************************************************)
(* Each part of the invariant.                                             *)
(***************************************************************************)

LEMMA EndsStep ==
  ASSUME CliInv, [Next]_vars PROVE Ended' \/ call' = "tail" => pump' = "done" /\ Exhausted'
<1> USE DEF CliInv
<1>1. CASE ~LineActions
  <2>1. (Ended' => Ended) /\ (call' = "tail" => call = "tail")
    BY <1>1, OthersKeepStreams, CallSteps DEF Streams, Ended, LineActions
  <2>2. Exhausted => Exhausted'
    BY <1>1, OthersKeepStreams, GoneStaysGone DEF Streams, Exhausted
  <2> QED BY <2>1, <2>2, GoneStaysGone DEF Places
<1>2. CASE TakeLine
  <2>1. /\ fifo # <<>> /\ Head(fifo) # 0 /\ fifo' = Tail(fifo) /\ call = "stream"
        /\ UNCHANGED <<lines, pumped, pump, child>> /\ ~TakeEnd
    BY <1>2 DEF TakeLine, TakeEnd
  <2>2. (Ended' => Ended) /\ call' # "tail"
    BY <2>1, TakesNext, CallSteps
  <2> QED BY <2>1, <2>2 DEF Places, Exhausted
<1>3. CASE TakeEnd
  <2>1. /\ fifo # <<>> /\ Head(fifo) = 0 /\ fifo' = Tail(fifo)
        /\ UNCHANGED <<lines, pumped, pump, child>>
    BY <1>3 DEF TakeEnd
  <2>2. Ended
    BY <2>1, TakesLast
  <2> QED BY <2>1, <2>2 DEF Places, Exhausted
<1>4. CASE PumpLine
  <2>1. /\ pump = "on" /\ pumped < Len(lines) /\ pumped' = pumped + 1
        /\ fifo' = Append(fifo, pumped + 1) /\ call' = call
    BY <1>4 DEF PumpLine, callervars
  <2>2. ~Ended /\ call # "tail"
    BY <2>1 DEF Places
  <2>3. ~Ended'
    BY <2>1, <2>2, PutsLine
  <2> QED BY <2>1, <2>2, <2>3
<1>5. CASE PumpEnds
  <2>1. /\ IF pumped < Len(lines) THEN lines[pumped + 1] = "long" ELSE child = "gone"
        /\ pump' = "done" /\ UNCHANGED <<lines, pumped, child>>
    BY <1>5 DEF PumpEnds
  <2>2. Exhausted
    BY <2>1, QueueShape DEF Exhausted
  <2> QED BY <2>1, <2>2 DEF Exhausted
<1>6. CASE WritesLine
  <2>1. Ended' = Ended
    BY <1>6, WritesOneLine DEF Ended
  <2>2. Exhausted => Exhausted'
    <3> SUFFICES ASSUME Exhausted PROVE Exhausted'
      OBVIOUS
    <3>1. child # "gone"
      BY <1>6, WritesOneLine
    <3>2. pumped < Len(lines) /\ lines[pumped + 1] = "long"
      BY <3>1 DEF Exhausted
    <3>3. pumped + 1 \in 1 .. Len(lines)
      BY <3>2, QueueShape
    <3>4. lines'[pumped + 1] = "long" /\ Len(lines') = Len(lines) + 1 /\ pumped' = pumped
      BY <1>6, <3>2, <3>3, WritesOneLine
    <3>5. pumped' < Len(lines')
      BY <3>2, <3>4, QueueShape
    <3> QED BY <3>4, <3>5 DEF Exhausted
  <2> QED BY <1>6, <2>1, <2>2, WritesOneLine DEF Places
<1> QED BY <1>1, <1>2, <1>3, <1>4, <1>5, <1>6 DEF LineActions, Pump

LEMMA PlacesStep ==
  ASSUME CliInv, [Next]_vars PROVE Places'
<1> USE DEF CliInv
<1>1. /\ child' = "out" => Len(lines') < MaxLines
      /\ child' = "err" => errs' < MaxErrs
  BY ChildStarts DEF Places
<1>2. call' = "none" => pump' = "off" /\ child' = "none"
  BY CallSteps
<1>3. call' = "unwind" => cut'
  BY CallSteps DEF Places
<1>4. call' = "ok" => child' = "gone"
  BY CallSteps, GoneStaysGone DEF Places, Finish
<1>5. call' = "tail" => fifo' = <<>>
  <2>1. CASE TakeEnd
    <3>1. fifo # <<>> /\ Head(fifo) = 0 /\ fifo' = Tail(fifo) /\ pumped' = pumped
      BY <2>1 DEF TakeEnd
    <3> QED BY <3>1, TakesLast
  <2>2. CASE call = "tail" /\ ~TakeEnd
    <3>1. fifo = <<>> /\ pump = "done"
      BY <2>2 DEF Places
    <3>2. ~TakeLine /\ ~Pump
      BY <2>2, <3>1 DEF TakeLine, Pump, PumpLine, PumpEnds
    <3>3. fifo' = fifo
      BY <2>2, <3>2, OthersKeepStreams, WritesOneLine DEF LineActions, Streams
    <3> QED BY <3>1, <3>3
  <2> QED BY <2>1, <2>2, CallSteps
<1> QED BY <1>1, <1>2, <1>3, <1>4, <1>5, EndsStep DEF Places

LEMMA InOrderStep ==
  ASSUME CliInv, [Next]_vars PROVE InOrder'
<1> USE DEF CliInv
<1>1. CASE ~LineActions
  BY <1>1, OthersKeepStreams DEF Streams, InOrder, Taken, Left, Ended
<1>2. CASE TakeLine
  <2>1. /\ fifo # <<>> /\ Head(fifo) # 0 /\ fifo' = Tail(fifo)
        /\ UNCHANGED <<lines, pumped>>
    BY <1>2 DEF TakeLine
  <2>2. Left' = Left - 1 /\ \A k \in 1 .. Left' : fifo'[k] = Taken' + k
    BY <2>1, TakesNext
  <2>3. Left' <= pumped'
    <3>1. Left <= pumped /\ Left \in Int /\ pumped \in Int
      BY QueueShape DEF InOrder
    <3> QED BY <2>1, <2>2, <3>1
  <2> QED BY <2>1, <2>2, <2>3 DEF InOrder
<1>3. CASE TakeEnd
  <2>1. /\ fifo # <<>> /\ Head(fifo) = 0 /\ fifo' = Tail(fifo)
        /\ UNCHANGED <<lines, pumped>>
    BY <1>3 DEF TakeEnd
  <2>2. Left' = 0 /\ pumped \in Nat
    BY <2>1, TakesLast, QueueShape
  <2> QED BY <2>1, <2>2 DEF InOrder
<1>4. CASE PumpLine
  <2>1. /\ pump = "on" /\ pumped < Len(lines) /\ pumped' = pumped + 1
        /\ lines[pumped + 1] # "long"
        /\ fifo' = Append(fifo, pumped + 1) /\ lines' = lines
    BY <1>4 DEF PumpLine
  <2>2. Left' = Left + 1 /\ \A k \in 1 .. Left' : fifo'[k] = Taken' + k
    BY <2>1, PutsLine DEF Places
  <2>3. Left <= pumped /\ Left \in Nat /\ pumped \in Nat
    BY QueueShape DEF InOrder
  <2>4. Left' <= pumped'
    BY <2>1, <2>2, <2>3
  <2>5. \A k \in 1 .. pumped' : lines'[k] # "long"
    BY <2>1, <2>3 DEF InOrder
  <2> QED BY <2>2, <2>4, <2>5 DEF InOrder
<1>5. CASE PumpEnds
  <2>1. /\ pump = "on" /\ fifo' = Append(fifo, 0) /\ UNCHANGED <<lines, pumped>>
    BY <1>5 DEF PumpEnds
  <2>2. Left' = Left /\ \A k \in 1 .. Left' : fifo'[k] = Taken' + k
    BY <2>1, PutsNone DEF Places
  <2> QED BY <2>1, <2>2 DEF InOrder
<1>6. CASE WritesLine
  <2>1. UNCHANGED <<pumped, fifo>> /\ \A k \in 1 .. Len(lines) : lines'[k] = lines[k]
    BY <1>6, WritesOneLine
  <2>2. Left' = Left /\ Taken' = Taken
    BY <2>1 DEF Left, Taken, Ended
  <2>3. \A k \in 1 .. pumped : k \in 1 .. Len(lines)
    BY QueueShape
  <2> QED BY <2>1, <2>2, <2>3 DEF InOrder
<1> QED BY <1>1, <1>2, <1>3, <1>4, <1>5, <1>6 DEF LineActions, Pump

\* A line that is taken is yielded if it is an event.
LEMMA TakeLineDoes ==
  ASSUME CliInv, TakeLine
  PROVE  /\ Taken + 1 \in 1 .. pumped /\ Taken' = Taken + 1
         /\ UNCHANGED <<lines, pumped>> /\ call = "stream"
         /\ \/ /\ lines[Taken + 1] = "event" /\ out' = Append(out, Taken + 1)
               /\ LastOut' = Taken + 1 /\ call' = call
            \/ lines[Taken + 1] = "bad" /\ call' = "fail" /\ out' = out
            \/ lines[Taken + 1] \notin {"event", "bad"} /\ call' = call /\ out' = out
<1> USE DEF CliInv
<1>1. /\ fifo # <<>> /\ Head(fifo) # 0 /\ fifo' = Tail(fifo) /\ call = "stream"
      /\ UNCHANGED <<lines, pumped>>
  BY DEF TakeLine
<1>2. Head(fifo) = Taken + 1 /\ Taken + 1 \in 1 .. pumped /\ Taken' = Taken + 1
  BY <1>1, TakesNext
<1>3. \/ lines[Taken + 1] = "event" /\ out' = Append(out, Taken + 1) /\ call' = call
      \/ lines[Taken + 1] = "bad" /\ call' = "fail" /\ out' = out
      \/ lines[Taken + 1] \notin {"event", "bad"} /\ call' = call /\ out' = out
  BY <1>2 DEF TakeLine
<1>4. out' = Append(out, Taken + 1) => LastOut' = Taken + 1
  <2> SUFFICES ASSUME out' = Append(out, Taken + 1) PROVE LastOut' = Taken + 1
    OBVIOUS
  <2>1. Taken + 1 \in 1 .. Len(lines)
    BY <1>2, QueueShape
  <2>2. out \in Seq(1 .. Len(lines))
    BY DEF TypeOK
  <2>3. out' # <<>> /\ Len(out') = Len(out) + 1 /\ out'[Len(out) + 1] = Taken + 1
    BY <2>1, <2>2, AppendProperties
  <2> QED BY <2>3 DEF LastOut
<1> QED BY <1>1, <1>2, <1>3, <1>4

LEMMA FrontStep ==
  ASSUME CliInv, [Next]_vars PROVE Front'
<1> SUFFICES ASSUME Working' PROVE
        /\ LastOut' <= Taken'
        /\ \A k \in 1 .. Taken' : lines'[k] # "bad"
        /\ \A k \in LastOut' + 1 .. Taken' : lines'[k] # "event"
  BY DEF Front
<1>0. /\ LastOut <= Taken
      /\ \A k \in 1 .. Taken : lines[k] # "bad"
      /\ \A k \in LastOut + 1 .. Taken : lines[k] # "event"
  BY CallSteps DEF CliInv, Front
<1>a. Taken \in Int /\ LastOut \in Nat
  BY QueueShape DEF CliInv
<1>1. CASE ~LineActions
  BY <1>0, <1>1, OthersKeepStreams DEF Streams, Taken, Left, Ended, LastOut
<1>2. CASE TakeLine
  <2>1. /\ Taken' = Taken + 1 /\ lines' = lines
        /\ \/ lines[Taken + 1] = "event" /\ LastOut' = Taken + 1
           \/ lines[Taken + 1] \notin {"event", "bad"} /\ LastOut' = LastOut
    BY <1>2, TakeLineDoes DEF Working, LastOut
  <2>2. lines[Taken + 1] # "bad"
    BY <2>1
  <2>3. CASE lines[Taken + 1] = "event" /\ LastOut' = Taken + 1
    BY <1>0, <1>a, <2>1, <2>2, <2>3
  <2>4. CASE lines[Taken + 1] \notin {"event", "bad"} /\ LastOut' = LastOut
    BY <1>0, <1>a, <2>1, <2>2, <2>4
  <2> QED BY <2>1, <2>3, <2>4
<1>3. CASE TakeEnd
  <2>1. /\ fifo # <<>> /\ Head(fifo) = 0 /\ fifo' = Tail(fifo)
        /\ UNCHANGED <<lines, pumped, out>>
    BY <1>3 DEF TakeEnd
  <2>2. Taken' = Taken
    BY <2>1, TakesLast DEF CliInv
  <2> QED BY <1>0, <2>1, <2>2 DEF LastOut
<1>4. CASE PumpLine
  <2>1. /\ pump = "on" /\ pumped < Len(lines) /\ pumped' = pumped + 1
        /\ fifo' = Append(fifo, pumped + 1) /\ UNCHANGED <<lines, out>>
    BY <1>4 DEF PumpLine, callervars
  <2>2. Taken' = Taken
    BY <2>1, PutsLine DEF Places, CliInv
  <2> QED BY <1>0, <2>1, <2>2 DEF LastOut
<1>5. CASE PumpEnds
  <2>1. pump = "on" /\ fifo' = Append(fifo, 0) /\ UNCHANGED <<lines, pumped, out>>
    BY <1>5 DEF PumpEnds, callervars
  <2>2. Taken' = Taken
    BY <2>1, PutsNone DEF Places, CliInv
  <2> QED BY <1>0, <2>1, <2>2 DEF LastOut
<1>6. CASE WritesLine
  <2>1. /\ UNCHANGED <<pumped, fifo, out>>
        /\ \A k \in 1 .. Len(lines) : lines'[k] = lines[k]
    BY <1>6, WritesOneLine DEF CliInv
  <2>2. Taken' = Taken /\ LastOut' = LastOut
    BY <2>1 DEF Left, Taken, Ended, LastOut
  <2>3. \A k \in 1 .. Taken : k \in 1 .. Len(lines)
    <3>1. Taken <= Len(lines) /\ Len(lines) \in Nat
      BY QueueShape DEF CliInv, Taken
    <3> QED BY <1>a, <3>1
  <2>4. \A k \in LastOut + 1 .. Taken : k \in 1 .. Taken
    BY <1>a
  <2> QED BY <1>0, <2>1, <2>2, <2>3, <2>4
<1> QED BY <1>1, <1>2, <1>3, <1>4, <1>5, <1>6 DEF LineActions, Pump

\* A handler leaves nothing running behind it, and nothing is started after it.
LEMMA NothingLeftStep ==
  ASSUME CliInv, [Next]_vars PROVE NothingLeftBehind'
<1> SUFFICES ASSUME call' \in Over, ~cut' PROVE child' = "gone" /\ pump' # "on"
  BY DEF NothingLeftBehind
<1> USE DEF CliInv
<1>1. CASE call \in Over
  <2>1. ~cut
    BY <1>1 DEF Over, Next, Caller, Child, vars, callervars, stdin, stdout,
       stderr, Start, Flush, Fed, FeedBreaks, ReadErr, Finish, FailEnds, Cancel, Pump,
       PumpLine, PumpEnds, TakeLine, TakeEnd, WritesLine,
       ReapChild, Unwind, ChildReads, ChildWrites, WritesErr, ChildExits
  <2>2. child = "gone" /\ pump # "on"
    BY <1>1, <2>1 DEF NothingLeftBehind
  <2>3. pump' # "on"
    BY <1>1, <2>2 DEF Over, Next, Caller, Child, vars, callervars, stdin, stdout,
       stderr, Start, Flush, Fed, FeedBreaks, ReadErr, Finish, FailEnds, Cancel, Pump,
       PumpLine, PumpEnds, TakeLine, TakeEnd, WritesLine,
       ReapChild, Unwind, ChildReads, ChildWrites, WritesErr, ChildExits
  <2> QED BY <2>2, <2>3, GoneStaysGone
<1>2. CASE call \notin Over
  <2>1. \/ FeedBreaks \/ Finish \/ FailEnds \/ Cancel \/ Unwind
    BY <1>2 DEF Over, Next, Caller, Child, vars, callervars, stdin, stdout,
       stderr, Start, Flush, Fed, ReadErr, Pump,
       PumpLine, PumpEnds, TakeLine, TakeEnd, WritesLine,
       ChildReads, ChildWrites, WritesErr, ChildExits
  <2>2. CASE FeedBreaks
    BY <2>2, <1>2 DEF FeedBreaks, Over
  <2>3. CASE Finish
    BY <2>3 DEF Finish, Places, stdout
  <2>4. CASE FailEnds
    BY <2>4 DEF FailEnds, ReapChild
  <2>5. CASE Cancel
    BY <2>5 DEF Cancel, ReapChild, Over
  <2>6. CASE Unwind
    BY <2>6 DEF Unwind, Places
  <2> QED BY <2>1, <2>2, <2>3, <2>4, <2>5, <2>6
<1> QED BY <1>1, <1>2

-----------------------------------------------------------------------------
(***************************************************************************)
(* An attempt is one of Attempt's.                                         *)
(***************************************************************************)

LEMMA TakenIsNext ==
  ASSUME CliInv, call = "stream", Taken + 1 \in 1 .. pumped, lines[Taken + 1] = "event"
  PROVE  Promise!IsNext(Taken + 1)
<1>1. /\ LastOut <= Taken
      /\ \A k \in 1 .. Taken : lines[k] # "bad"
      /\ \A k \in LastOut + 1 .. Taken : lines[k] # "event"
  BY DEF CliInv, Front, Working, Over
<1>2. /\ Taken \in Int /\ LastOut \in Nat /\ pumped \in Nat /\ pumped <= Len(lines)
      /\ DOMAIN lines = 1 .. Len(lines) /\ Len(lines) \in Nat
  BY QueueShape, LenProperties DEF CliInv, TypeOK
<1>3. \A k \in 1 .. Taken : lines[k] \notin {"bad", "long"}
  BY <1>1, <1>2 DEF CliInv, InOrder
<1>4. Promise!Readable(Taken + 1)
  BY <1>2, <1>3 DEF Promise!Readable
<1>5. \A k \in LastOut + 1 .. Taken : ~Promise!Readable(k)
  BY <1>1 DEF Promise!Readable
<1>6. Promise!Reached = LastOut
  BY DEF Promise!Reached, LastOut
<1> QED BY <1>1, <1>2, <1>4, <1>5, <1>6 DEF Promise!IsNext

LEMMA NothingIsLeft ==
  ASSUME CliInv, call = "tail"
  PROVE  /\ \A i \in DOMAIN lines : ~Promise!IsNext(i)
         /\ \A i \in DOMAIN lines :
               lines[i] = "bad" => \E k \in 1 .. i - 1 : lines[k] = "long"
<1>1. fifo = <<>> /\ Exhausted
  BY DEF CliInv, Places
<1>2. Left = 0
  <2>1. ~Ended
    BY <1>1 DEF Ended
  <2>2. Left = Len(fifo) /\ Len(fifo) = 0
    BY <1>1, <2>1, EmptySeq DEF Left
  <2> QED BY <2>2
<1>3. Taken = pumped /\ pumped \in Nat /\ LastOut \in Nat /\ Len(lines) \in Nat
      /\ pumped <= Len(lines) /\ DOMAIN lines = 1 .. Len(lines)
  BY <1>2, QueueShape, LenProperties DEF CliInv, TypeOK, Taken
<1>4. /\ LastOut <= pumped
      /\ \A k \in 1 .. pumped : lines[k] # "bad"
      /\ \A k \in LastOut + 1 .. pumped : lines[k] # "event"
  BY <1>3 DEF CliInv, Front, Working, Over
<1>5. \A i \in DOMAIN lines : i > pumped =>
         \/ lines[i] = "long"
         \/ \E k \in 1 .. i - 1 : lines[k] = "long"
  <2> SUFFICES ASSUME NEW i \in DOMAIN lines, i > pumped
               PROVE  \/ lines[i] = "long"
                      \/ \E k \in 1 .. i - 1 : lines[k] = "long"
    OBVIOUS
  <2>1. lines[pumped + 1] = "long"
    <3>1. i \in 1 .. Len(lines)
      BY <1>3
    <3>2. Len(lines) \in Int /\ pumped \in Int
      BY <1>3
    <3>3. pumped # Len(lines)
      BY <3>1, <3>2
    <3> QED BY <1>1, <3>3 DEF Exhausted
  <2>2. CASE i = pumped + 1
    BY <2>1, <2>2
  <2>3. CASE i # pumped + 1
    <3>1. pumped + 1 \in 1 .. i - 1
      BY <1>3, <2>3
    <3> QED BY <2>1, <3>1
  <2> QED BY <2>2, <2>3
<1>6. \A i \in DOMAIN lines : i > pumped => ~Promise!Readable(i)
  BY <1>5 DEF Promise!Readable
<1>7. \A i \in DOMAIN lines : i > LastOut /\ ~(i > pumped) => lines[i] # "event"
  BY <1>3, <1>4
<1>8. Promise!Reached = LastOut
  BY DEF Promise!Reached, LastOut
<1>9. \A i \in DOMAIN lines : ~Promise!IsNext(i)
  BY <1>6, <1>7, <1>8 DEF Promise!IsNext, Promise!Readable
<1>10. \A i \in DOMAIN lines :
          lines[i] = "bad" => \E k \in 1 .. i - 1 : lines[k] = "long"
  <2> SUFFICES ASSUME NEW i \in DOMAIN lines, lines[i] = "bad"
               PROVE  \E k \in 1 .. i - 1 : lines[k] = "long"
    OBVIOUS
  <2>1. i > pumped
    BY <1>3, <1>4
  <2> QED BY <1>5, <2>1
<1> QED BY <1>9, <1>10

LEMMA StepsAreAttempts ==
  ASSUME CliInv, [Next]_vars
  PROVE  [Promise!Next]_(Promise!attemptvars)
<1> DEFINE How == IF call \in Over THEN call ELSE "open"
<1>1. CASE TakeLine
  <2>1. /\ lines' = lines /\ call = "stream" /\ call' \in {"stream", "fail"}
        /\ \/ Promise!IsNext(Taken + 1) /\ out' = Append(out, Taken + 1)
              /\ Taken + 1 \in DOMAIN lines
           \/ out' = out
    <3>1. /\ lines' = lines /\ call = "stream" /\ call' \in {"stream", "fail"}
          /\ \/ lines[Taken + 1] = "event" /\ out' = Append(out, Taken + 1)
             \/ out' = out
      BY <1>1, TakeLineDoes
    <3>2. Taken + 1 \in 1 .. pumped
      BY <1>1, TakeLineDoes
    <3>3. lines[Taken + 1] = "event" =>
             Promise!IsNext(Taken + 1) /\ Taken + 1 \in DOMAIN lines
      BY <3>1, <3>2, TakenIsNext DEF Promise!IsNext, Promise!Readable
    <3> QED BY <3>1, <3>3
  <2>2. How = "open" /\ How' = "open"
    BY <2>1 DEF Over
  <2> QED BY <2>1, <2>2 DEF Promise!Next, Promise!HandOver, Promise!attemptvars
<1>2. CASE Finish
  <2>1. call = "tail" /\ call' \in {"ok", "error"} /\ UNCHANGED <<lines, out>>
    BY <1>2 DEF Finish, stdout
  <2>2. How = "open" /\ How' = call'
    BY <2>1 DEF Over
  <2>3. CASE call' = "ok"
    BY <2>1, <2>2, <2>3, NothingIsLeft DEF Promise!Next, Promise!Succeed
  <2>4. CASE call' = "error"
    BY <2>1, <2>2, <2>4 DEF Promise!Next, Promise!Fail
  <2> QED BY <2>1, <2>3, <2>4
<1>3. CASE FailEnds \/ Cancel \/ Unwind \/ FeedBreaks
  <2>1. /\ call \in {"feed", "unwind", "stream", "tail", "fail"}
        /\ call' \in {"error", "cancelled", "unwind", "stream"}
        /\ UNCHANGED <<lines, out>>
    BY <1>3 DEF FailEnds, Cancel, Unwind, FeedBreaks, stdout
  <2>2. How = "open" /\ How' \in {"open", "error", "cancelled"}
    BY <2>1 DEF Over
  <2> QED BY <2>1, <2>2 DEF Promise!Next, Promise!Fail, Promise!attemptvars
<1>4. CASE WritesLine
  <2>1. PICK kind \in LineKinds : lines' = Append(lines, kind)
    BY <1>4 DEF WritesLine
  <2>2. UNCHANGED <<call, out>> /\ How' = How
    BY <1>4 DEF WritesLine, callervars
  <2>3. How # "ok"
    BY <1>4 DEF WritesLine, CliInv, Places, Over
  <2>4. kind \in {"event", "blank", "bad", "long"}
    BY <2>1, CliAssumption
  <2> QED BY <2>1, <2>2, <2>3, <2>4 DEF Promise!Next, Promise!Say
<1>5. CASE Start \/ Flush \/ Fed \/ TakeEnd \/ ReadErr \/ Pump \/ ChildReads \/ ChildWrites
           \/ WritesErr \/ ChildExits \/ UNCHANGED vars
  <2>1. UNCHANGED <<lines, out>> /\ How' = How
    BY <1>5 DEF Over, Start, Flush, Fed, TakeEnd, ReadErr, Pump, PumpLine, PumpEnds,
       ChildReads, ChildWrites, WritesErr, ChildExits, vars, callervars, stdin, stdout,
       stderr
  <2> QED BY <2>1 DEF Promise!attemptvars
<1> QED BY <1>1, <1>2, <1>3, <1>4, <1>5 DEF Next, Caller, Child

-----------------------------------------------------------------------------
(***************************************************************************)
(* The theorems.                                                           *)
(***************************************************************************)

LEMMA CliInvariance == Spec => []CliInv
<1>1. CliInv /\ [Next]_vars => CliInv'
  <2> SUFFICES ASSUME CliInv, [Next]_vars PROVE CliInv'
    OBVIOUS
  <2>1. TypeOK'
    <3>1. CallerTypes' /\ ChildTypes' /\ LineTypes'
      BY CallerTypeStep, ChildTypeStep, LineTypeStep DEF CliInv
    <3> QED BY <3>1 DEF TypeOK, CallerTypes, ChildTypes, LineTypes
  <2> QED BY <2>1, PlacesStep, InOrderStep, FrontStep, NothingLeftStep DEF CliInv
<1> QED BY CliInit, <1>1, PTL DEF Spec

\* Pipes and queue never hold more than there is room for, and every number in
\* the queue is a line the child has written (cli.py:239-262, 289-303).
THEOREM CliTypeCorrect == Spec => []TypeOK
  BY CliInvariance, PTL DEF CliInv

\* Once run has returned or raised, its child and its pump are gone, except where
\* an exception nothing handles cut the writing of the prompt off (cli.py:265-324).
THEOREM AttemptsCleanUp == Spec => []NothingLeftBehind
  BY CliInvariance, PTL DEF CliInv

\* The caller gets the child's lines, all that can be read of them in order and
\* none twice, and turn_end only after the last one (cli.py:144-203).
THEOREM AttemptsKeepTheirPromise == Spec => AttemptSpec
<1>1. Init => Promise!Init
  BY DEF Init, Promise!Init, Over
<1>2. CliInv /\ [Next]_vars => [Promise!Next]_(Promise!attemptvars)
  BY StepsAreAttempts
<1> QED BY <1>1, <1>2, CliInvariance, PTL DEF Spec, AttemptSpec, Promise!Spec

-----------------------------------------------------------------------------
(***************************************************************************)
(* An attempt ends.  Fairness is beyond these proofs, but not what it rests *)
(* on: each step leaves less to do, and short of the end, or of the two     *)
(* places where the code does block, there is a step to take.              *)
(***************************************************************************)

CallsLeft ==
    IF call = "none" THEN 2 * Prompt + 9
    ELSE IF call = "feed" THEN 4
    ELSE IF call = "stream" THEN 3
    ELSE IF call \in {"tail", "fail"} THEN 2
    ELSE IF call = "unwind" THEN 1 ELSE 0

ChildLeft ==
    IF child = "free" THEN 2 ELSE IF child \in {"out", "err"} THEN 1 ELSE 0

PumpLeft == IF pump = "on" THEN 2 ELSE 0

\* A piece of the prompt counts twice, for the two ends of the pipe; a line four
\* times, to be written, read, queued and taken; and so on.
PromptLeft == 2 * buffer + inpipe
LinesLeft  == 4 * (MaxLines - Len(lines)) + 2 * (Len(lines) - pumped) + Len(fifo)
ErrsLeft   == 3 * (MaxErrs - errs) + errpipe

Remaining == CallsLeft + ChildLeft + PumpLeft + PromptLeft + LinesLeft + ErrsLeft

\* All that is counted is a number.
Counted ==
    /\ CallsLeft \in Int /\ ChildLeft \in Int /\ PumpLeft \in Int
    /\ PromptLeft \in Int /\ LinesLeft \in Int /\ ErrsLeft \in Int
Counters ==
    /\ Len(fifo) \in Int /\ Len(lines) \in Int /\ pumped \in Int
    /\ buffer \in Int /\ inpipe \in Int /\ errs \in Int /\ errpipe \in Int
    /\ MaxLines \in Int /\ MaxErrs \in Int /\ Prompt \in Int

LEMMA CountedTypes ==
  ASSUME TypeOK PROVE Counted /\ Counters /\ Remaining \in Nat
<1>1. /\ Len(fifo) \in Nat /\ Len(lines) \in Nat /\ pumped \in 0 .. Len(lines)
      /\ buffer \in Nat /\ inpipe \in Nat /\ errpipe \in Nat /\ errs \in 0 .. MaxErrs
      /\ Len(lines) <= MaxLines /\ MaxLines \in Nat /\ MaxErrs \in Nat /\ Prompt \in Nat
  BY LenProperties, CliAssumption DEF TypeOK
<1>2. CallsLeft \in Nat /\ ChildLeft \in Nat /\ PumpLeft \in Nat
  BY <1>1 DEF CallsLeft, ChildLeft, PumpLeft
<1>3. PromptLeft \in Nat /\ LinesLeft \in Nat /\ ErrsLeft \in Nat
  BY <1>1 DEF PromptLeft, LinesLeft, ErrsLeft
<1> QED BY <1>1, <1>2, <1>3 DEF Counted, Counters, Remaining

\* A sum falls where one of its parts does and none rises.
LEMMA SumFalls ==
  ASSUME NEW a \in Int, NEW b \in Int, NEW c \in Int, NEW d \in Int, NEW e \in Int, NEW f \in Int,
         NEW a1 \in Int, NEW b1 \in Int, NEW c1 \in Int, NEW d1 \in Int, NEW e1 \in Int,
         NEW f1 \in Int,
         a1 <= a, b1 <= b, c1 <= c, d1 <= d, e1 <= e, f1 <= f,
         a1 < a \/ b1 < b \/ e1 < e
  PROVE  a1 + b1 + c1 + d1 + e1 + f1 < a + b + c + d + e + f
  OBVIOUS

\* That sum is Remaining.
LEMMA RemainingFalls ==
  ASSUME Counted, Counted',
         CallsLeft' <= CallsLeft, ChildLeft' <= ChildLeft, PumpLeft' <= PumpLeft,
         PromptLeft' <= PromptLeft, LinesLeft' <= LinesLeft, ErrsLeft' <= ErrsLeft,
         CallsLeft' < CallsLeft \/ ChildLeft' < ChildLeft \/ LinesLeft' < LinesLeft
  PROVE  Remaining' < Remaining
  BY SumFalls, Zenon DEF Counted, Remaining

\* A step of the caller's: the queue loses what it takes, and the call goes on.
LEMMA CallerDescends ==
  ASSUME TypeOK, Places, Counted, Counted', Counters, Start \/ Caller \/ Cancel
  PROVE  Remaining' < Remaining
<1>1. CASE Start
  <2>1. CallsLeft = 2 * Prompt + 9 /\ CallsLeft' = 4
    BY <1>1 DEF Start, CallsLeft
  <2>2. ChildLeft = 0 /\ ChildLeft' = 2 /\ PumpLeft = 0 /\ PumpLeft' = 2
    BY <1>1 DEF Start, Places, ChildLeft, PumpLeft
  <2>3. PromptLeft' = PromptLeft + 2 * Prompt - 2 * buffer
    BY <1>1 DEF Start, PromptLeft, Counters
  <2>4. LinesLeft' = LinesLeft /\ ErrsLeft' = ErrsLeft
    BY <1>1 DEF Start, stderr, LinesLeft, ErrsLeft
  <2>5. buffer \in Nat
    BY CliAssumption DEF TypeOK
  <2> QED BY <2>1, <2>2, <2>3, <2>4, <2>5 DEF Counted, Counters, Remaining
<1>2. CASE Fed \/ TakeEnd \/ TakeLine
  <2>1. UNCHANGED <<child, pump>> /\ call' \in {call, "stream", "tail", "fail"}
        /\ (Fed => call = "feed" /\ call' = "stream") /\ (~Fed => call = "stream")
    BY <1>2 DEF Fed, TakeEnd, TakeLine, stdout
  <2>2. /\ UNCHANGED <<buffer, inpipe, lines, pumped, errs, errpipe>>
        /\ \/ Fed /\ fifo' = fifo
           \/ fifo # <<>> /\ fifo' = Tail(fifo)
    BY <1>2 DEF Fed, TakeEnd, TakeLine, stdin, stdout, stderr
  <2>3. /\ ChildLeft' = ChildLeft /\ PumpLeft' = PumpLeft
        /\ CallsLeft' <= CallsLeft /\ (Fed => CallsLeft' < CallsLeft)
    BY <2>1 DEF CallsLeft, ChildLeft, PumpLeft
  <2>4. PromptLeft' = PromptLeft /\ ErrsLeft' = ErrsLeft
    BY <2>2 DEF PromptLeft, ErrsLeft
  <2>5. CASE fifo # <<>> /\ fifo' = Tail(fifo)
    <3>1. Len(fifo') = Len(fifo) - 1
      BY <2>5, HeadTailProperties DEF TypeOK
    <3>2. LinesLeft' = LinesLeft - 1
      BY <2>2, <3>1 DEF LinesLeft, Counters
    <3> QED BY <2>3, <2>4, <3>2, RemainingFalls DEF Counted
  <2>6. CASE Fed /\ fifo' = fifo
    <3>1. LinesLeft' = LinesLeft
      BY <2>2, <2>6 DEF LinesLeft
    <3> QED BY <2>3, <2>4, <2>6, <3>1, RemainingFalls DEF Counted
  <2> QED BY <2>2, <2>5, <2>6
<1>3. CASE FeedBreaks \/ Finish \/ FailEnds \/ Cancel \/ Unwind
  <2>1. CallsLeft' < CallsLeft
    BY <1>3 DEF FeedBreaks, Finish, FailEnds, Cancel, Unwind, CallsLeft
  <2>2. ChildLeft' <= ChildLeft /\ PumpLeft' <= PumpLeft
    BY <1>3 DEF FeedBreaks, Finish, FailEnds, Cancel, Unwind, ReapChild, ChildLeft, PumpLeft,
       stdout
  <2>3. UNCHANGED <<inpipe, lines, pumped, fifo, errs, errpipe>> /\ buffer' \in {buffer, 0}
    BY <1>3 DEF FeedBreaks, Finish, FailEnds, Cancel, Unwind, ReapChild, stdin, stdout, stderr
  <2>4. PromptLeft' <= PromptLeft
    <3>1. buffer \in Nat
      BY CliAssumption DEF TypeOK
    <3>2. CASE buffer' = buffer
      BY <2>3, <3>2 DEF PromptLeft, Counted
    <3>3. CASE buffer' = 0
      BY <2>3, <3>1, <3>3 DEF PromptLeft, Counters
    <3> QED BY <2>3, <3>2, <3>3
  <2>5. LinesLeft' = LinesLeft /\ ErrsLeft' = ErrsLeft
    BY <2>3 DEF LinesLeft, ErrsLeft
  <2> QED BY <2>1, <2>2, <2>4, <2>5, RemainingFalls DEF Counted
<1> QED BY <1>1, <1>2, <1>3 DEF Caller

\* A step of the pump's, of the kernel's or of the reader of stderr.
LEMMA PipesDescend ==
  ASSUME TypeOK, Counted, Counted', Counters, Flush \/ ReadErr \/ Pump
  PROVE  Remaining' < Remaining
<1>1. CallsLeft' = CallsLeft /\ ChildLeft' = ChildLeft
  BY DEF Flush, ReadErr, Pump, PumpLine, PumpEnds, callervars, CallsLeft, ChildLeft
<1>2. CASE Flush
  <2>1. PumpLeft' = PumpLeft /\ LinesLeft' = LinesLeft /\ ErrsLeft' = ErrsLeft
    BY <1>2 DEF Flush, stdout, stderr, PumpLeft, LinesLeft, ErrsLeft
  <2>2. PromptLeft' = PromptLeft - 1
    BY <1>2 DEF Flush, PromptLeft, Counters
  <2> QED BY <1>1, <2>1, <2>2 DEF Counted, Remaining
<1>3. CASE ReadErr
  <2>1. PumpLeft' = PumpLeft /\ LinesLeft' = LinesLeft /\ PromptLeft' = PromptLeft
    BY <1>3 DEF ReadErr, stdin, stdout, PumpLeft, LinesLeft, PromptLeft
  <2>2. ErrsLeft' = ErrsLeft - 1
    BY <1>3 DEF ReadErr, ErrsLeft, Counters
  <2> QED BY <1>1, <2>1, <2>2 DEF Counted, Remaining
<1>4. CASE Pump
  <2>1. PromptLeft' = PromptLeft /\ ErrsLeft' = ErrsLeft /\ lines' = lines
    BY <1>4 DEF Pump, PumpLine, PumpEnds, stdin, stderr, PromptLeft, ErrsLeft
  <2>2. CASE PumpLine
    <3>1. pumped < Len(lines) /\ pumped' = pumped + 1 /\ fifo' = Append(fifo, pumped + 1)
          /\ pump' = pump
      BY <2>2 DEF PumpLine
    <3>2. pumped + 1 \in 0 .. Len(lines)
      BY <3>1, LenProperties DEF TypeOK
    <3>3. Len(fifo') = Len(fifo) + 1
      BY <3>1, <3>2, AppendProperties DEF TypeOK
    <3>4. LinesLeft' = LinesLeft - 1
      BY <2>1, <3>1, <3>3 DEF LinesLeft, Counters
    <3>5. PumpLeft' = PumpLeft
      BY <3>1 DEF PumpLeft
    <3> QED BY <1>1, <2>1, <3>4, <3>5 DEF Counted, Remaining
  <2>3. CASE PumpEnds
    <3>1. pumped' = pumped /\ fifo' = Append(fifo, 0)
      BY <2>3 DEF PumpEnds
    <3>2. 0 \in 0 .. Len(lines)
      BY LenProperties DEF TypeOK
    <3>3. Len(fifo') = Len(fifo) + 1
      BY <3>1, <3>2, AppendProperties DEF TypeOK
    <3>4. LinesLeft' = LinesLeft + 1
      BY <2>1, <3>1, <3>3 DEF LinesLeft, Counters
    <3>5. PumpLeft' = 0 /\ PumpLeft = 2
      BY <2>3 DEF PumpEnds, PumpLeft
    <3> QED BY <1>1, <2>1, <3>4, <3>5 DEF Counted, Remaining
  <2> QED BY <1>4, <2>2, <2>3 DEF Pump
<1> QED BY <1>2, <1>3, <1>4

\* A step of the child's.
LEMMA ChildDescends ==
  ASSUME TypeOK, Counted, Counted', Counters, Child PROVE Remaining' < Remaining
<1>1. CallsLeft' = CallsLeft /\ PumpLeft' = PumpLeft
  BY DEF Child, ChildReads, ChildWrites, WritesLine, WritesErr, ChildExits, callervars, stdout,
     CallsLeft, PumpLeft
<1>2. CASE ChildReads
  <2>1. ChildLeft' = ChildLeft /\ LinesLeft' = LinesLeft /\ ErrsLeft' = ErrsLeft
    BY <1>2 DEF ChildReads, stdout, stderr, ChildLeft, LinesLeft, ErrsLeft
  <2>2. PromptLeft' = PromptLeft - 1
    BY <1>2 DEF ChildReads, PromptLeft, Counters
  <2> QED BY <1>1, <2>1, <2>2 DEF Counted, Remaining
<1>3. CASE ChildWrites \/ ChildExits
  <2>1. ChildLeft' < ChildLeft
    BY <1>3 DEF ChildWrites, ChildExits, ChildLeft
  <2>2. PromptLeft' = PromptLeft /\ LinesLeft' = LinesLeft /\ ErrsLeft' = ErrsLeft
    BY <1>3 DEF ChildWrites, ChildExits, stdin, stdout, stderr, PromptLeft, LinesLeft, ErrsLeft
  <2> QED BY <1>1, <2>1, <2>2, RemainingFalls DEF Counted
<1>4. CASE WritesLine
  <2>1. Len(lines') = Len(lines) + 1 /\ pumped' = pumped /\ fifo' = fifo
    BY <1>4, WritesOneLine
  <2>2. LinesLeft' = LinesLeft - 2
    BY <2>1 DEF LinesLeft, Counters
  <2>3. PromptLeft' = PromptLeft /\ ErrsLeft' = ErrsLeft
    BY <1>4 DEF WritesLine, stdin, stderr, PromptLeft, ErrsLeft
  <2>4. ChildLeft' = 2 /\ ChildLeft = 1
    BY <1>4 DEF WritesLine, ChildLeft
  <2> QED BY <1>1, <2>2, <2>3, <2>4 DEF Counted, Remaining
<1>5. CASE WritesErr
  <2>1. ErrsLeft' = ErrsLeft - 2
    BY <1>5 DEF WritesErr, ErrsLeft, Counters
  <2>2. PromptLeft' = PromptLeft /\ LinesLeft' = LinesLeft
    BY <1>5 DEF WritesErr, stdin, stdout, PromptLeft, LinesLeft
  <2>3. ChildLeft' = 2 /\ ChildLeft = 1
    BY <1>5 DEF WritesErr, ChildLeft
  <2> QED BY <1>1, <2>1, <2>2, <2>3 DEF Counted, Remaining
<1> QED BY <1>2, <1>3, <1>4, <1>5 DEF Child

\* So an attempt cannot go on for ever: whatever its child and its caller do, it
\* is over after at most so many steps as were left at its beginning (cli.py:144-324).
THEOREM AttemptsRunOut ==
  Spec => [](Remaining \in Nat) /\ [][Remaining' < Remaining]_vars
<1>1. CliInv => Counted /\ Counters /\ Remaining \in Nat
  BY CountedTypes DEF CliInv
<1>2. CliInv /\ Counted /\ Counters /\ Counted' /\ [Next]_vars => [Remaining' < Remaining]_vars
  <2> SUFFICES ASSUME CliInv, Counted, Counters, Counted', Next PROVE Remaining' < Remaining
    OBVIOUS
  <2> QED BY CallerDescends, PipesDescend, ChildDescends DEF Next, CliInv
<1> QED BY <1>1, <1>2, CliInvariance, PTL DEF Spec

\* While the call goes on there is a child, and the pump runs or has said None.
Running ==
    /\ call # "none" => child # "none"
    /\ call \in {"feed", "unwind", "stream"} => pump = "on" \/ Ended

LEMMA RunningStep ==
  ASSUME CliInv, Running, [Next]_vars PROVE Running'
<1> USE DEF CliInv
<1>1. call' # "none" => child' # "none"
  BY DEF Running, Next, Caller, Child, vars, callervars, stdin, stdout,
     stderr, Start, Flush, Fed, FeedBreaks, ReadErr, Finish, FailEnds, Cancel, Pump,
     PumpLine, PumpEnds, TakeLine, TakeEnd, WritesLine,
     ReapChild, Unwind, ChildReads, ChildWrites, WritesErr, ChildExits
<1>2. ASSUME call' \in {"feed", "unwind", "stream"} PROVE pump' = "on" \/ Ended'
  <2>1. CASE ~LineActions
    <3>1. pump' = "on" \/ (call \in {"feed", "unwind", "stream"} /\ pump' = pump)
      BY <1>2, <2>1 DEF LineActions, Next, Caller, Child, vars, callervars, stdin, stdout,
         stderr, Start, Flush, Fed, FeedBreaks, ReadErr, Finish, FailEnds, Cancel, Over,
         ReapChild, Unwind, ChildReads, ChildWrites, WritesErr, ChildExits
    <3>2. Ended' = Ended
      BY <2>1, OthersKeepStreams DEF Streams, Ended
    <3> QED BY <3>1, <3>2 DEF Running
  <2>2. CASE TakeLine
    <3>1. /\ fifo # <<>> /\ Head(fifo) # 0 /\ fifo' = Tail(fifo) /\ call = "stream"
          /\ UNCHANGED <<pumped, pump>>
      BY <2>2 DEF TakeLine
    <3>2. Ended' <=> Ended
      BY <3>1, TakesNext
    <3> QED BY <3>1, <3>2 DEF Running
  <2>3. CASE TakeEnd
    BY <1>2, <2>3 DEF TakeEnd
  <2>4. CASE PumpLine
    BY <2>4 DEF PumpLine
  <2>5. CASE PumpEnds
    <3>1. pump = "on" /\ pumped' = pumped /\ fifo' = Append(fifo, 0)
      BY <2>5 DEF PumpEnds
    <3>2. ~Ended
      BY <3>1 DEF Places
    <3> QED BY <3>1, <3>2, PutsNone
  <2>6. CASE WritesLine
    <3>1. UNCHANGED <<call, pump, fifo>>
      BY <2>6, WritesOneLine
    <3> QED BY <1>2, <3>1 DEF Running, Ended
  <2> QED BY <2>1, <2>2, <2>3, <2>4, <2>5, <2>6 DEF LineActions, Pump
<1> QED BY <1>1, <1>2 DEF Running

\* What each of the fair actions waits for; all else in it is what it does.
CallerGoes ==
    \/ call = "feed" /\ (buffer = 0 \/ child = "gone")
    \/ call = "stream" /\ fifo # <<>>
    \/ call = "tail" /\ child = "gone" /\ errpipe = 0
    \/ call = "fail"
    \/ call = "unwind" /\ (buffer = 0 \/ child = "gone")
PipesGo ==
    \/ buffer > 0 /\ inpipe < InRoom /\ child # "gone"
    \/ call \in {"stream", "tail", "fail"} /\ errpipe > 0
    \/ pump = "on" /\ (pumped < Len(lines) \/ child = "gone")
ChildGoes ==
    \/ child = "free"
    \/ child = "out" /\ Len(lines) - pumped < OutRoom /\ LineKinds # {}
    \/ child = "err" /\ errpipe < ErrRoom

\* An attempt that is not over can always go on, by a step that fairness promises,
\* however small the pipes and however much the child writes into them before it
\* reads; only an overlong line, or stderr that fills before the prompt is
\* written, can stop it (cli.py:158, 239-246, 259-284).
THEOREM AttemptsAreNeverStuck ==
  ASSUME LineKinds # {}
  PROVE  Spec => [](call \notin Over \union {"none"} /\ ~Overlong /\ ~ErrBlocksPrompt
                      => CallerGoes \/ PipesGo \/ ChildGoes)
<1>1. Init => Running
  BY DEF Init, Running
<1>2. CliInv /\ Running /\ [Next]_vars => Running'
  BY RunningStep
<1>3. ASSUME CliInv, Running, call \notin Over \union {"none"}, ~Overlong, ~ErrBlocksPrompt
      PROVE  CallerGoes \/ PipesGo \/ ChildGoes
  <2>1. /\ call \in {"feed", "unwind", "stream", "tail", "fail"}
        /\ child \in {"free", "out", "err", "gone"}
        /\ errpipe \in Nat /\ errpipe <= ErrRoom /\ ErrRoom \in Nat \ {0}
        /\ OutRoom \in Nat \ {0} /\ Len(lines) \in Nat /\ pumped \in Nat /\ pumped <= Len(lines)
    BY <1>3, QueueShape, CliAssumption DEF CliInv, TypeOK, Calls, Over, Running
  <2>2. pump = "on" \/ (Ended /\ fifo # <<>>) \/ call \in {"tail", "fail"}
    BY <1>3, <2>1 DEF Running, Ended
  <2>3. CASE child = "gone"
    BY <2>1, <2>2, <2>3 DEF CallerGoes, PipesGo
  <2>4. CASE child = "out"
    <3>1. CASE Len(lines) - pumped < OutRoom
      BY <2>4, <3>1 DEF ChildGoes
    <3>2. CASE ~(Len(lines) - pumped < OutRoom)
      <4>1. pumped < Len(lines)
        BY <2>1, <3>2
      <4>2. pump = "on" \/ call = "fail"
        <5>1. CASE Ended \/ call = "tail"
          <6>1. Exhausted
            BY <1>3, <5>1 DEF CliInv, Places
          <6>2. pumped + 1 \in DOMAIN lines
            BY <1>3, <2>1, <4>1, LenProperties DEF CliInv, TypeOK
          <6> QED BY <1>3, <2>4, <6>1, <6>2 DEF Exhausted, Overlong
        <5> QED BY <2>2, <5>1
      <4> QED BY <4>1, <4>2 DEF PipesGo, CallerGoes
    <3> QED BY <3>1, <3>2
  <2>5. CASE child = "err"
    <3>1. CASE errpipe < ErrRoom
      BY <2>5, <3>1 DEF ChildGoes
    <3>2. CASE errpipe = ErrRoom
      <4>1. call \in {"stream", "tail", "fail"}
        BY <1>3, <2>1, <2>5, <3>2 DEF ErrBlocksPrompt
      <4> QED BY <2>1, <3>2, <4>1 DEF PipesGo
    <3> QED BY <2>1, <3>1, <3>2
  <2> QED BY <2>1, <2>3, <2>4, <2>5 DEF ChildGoes
<1> QED BY <1>1, <1>2, <1>3, CliInvariance, PTL DEF Spec
=============================================================================
