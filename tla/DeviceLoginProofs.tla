--------------------------- MODULE DeviceLoginProofs ---------------------------
(***************************************************************************)
(* What DeviceLogin promises, proved for every timeout, every limit of the *)
(* queue and every number of calls and of lines.                           *)
(***************************************************************************)
EXTENDS DeviceLogin, SequenceTheorems, TLAPS

--------------------------------------------------------------------------------
(* Types, the booleans apart *)

Flags ==
  /\ cancelled \in BOOLEAN /\ handshake \in BOOLEAN
  /\ alive \in BOOLEAN /\ signedIn \in BOOLEAN /\ torn \in BOOLEAN
  /\ approved \in BOOLEAN /\ fresh \in BOOLEAN /\ heard \in BOOLEAN

\* Requests are numbered no faster than calls are made: a call sends at most
\* one, and a poll has not sent its own while it waits for a note. A line that is
\* still being written is on the wire.
Typed ==
  /\ next_id \in 0..MaxCalls /\ queued \in Seq(Notes) /\ Len(queued) <= MaxQueued
  /\ call \in {"none", "start", "poll", "account"}
  /\ stage \in {"idle", "reply", "note"}
  /\ timer \in 0..CallTimeout
  /\ elapsed \in Nat
  /\ result \in Results
  /\ asked \subseteq Requests
  /\ pipe \in Seq(Frames)
  /\ calls \in 0..MaxCalls /\ frames \in 0..MaxFrames
  /\ next_id <= calls
  /\ stage = "note" => next_id < calls
  /\ call = "none" => stage = "idle"
  /\ torn => Len(pipe) > 0

\* Nothing queued, nothing written.
LEMMA EmptyType ==
  /\ <<>> \in Seq(Notes) /\ <<>> \in Seq(Frames)
  /\ Len(<<>>) = 0
OBVIOUS

\* One more note in a queue that is not full, and one note less.
LEMMA QueueType ==
  ASSUME NEW q \in Seq(Notes), Len(q) <= MaxQueued, NEW f \in Notes
  PROVE  /\ Len(q) < MaxQueued => Append(q, f) \in Seq(Notes) /\ Len(Append(q, f)) <= MaxQueued
         /\ q # <<>> => /\ Tail(q) \in Seq(Notes) /\ Len(Tail(q)) <= MaxQueued
                        /\ Head(q) \in Notes
BY LoginConstants DEF LoginConstants

\* What a line that is read, or abandoned, leaves of the output.
LEMMA PipeType ==
  ASSUME pipe \in Seq(Frames)
  PROVE  /\ Abandoned \in Seq(Frames) /\ Len(Abandoned) = Len(pipe)
         /\ pipe # <<>> =>
              /\ Tail(pipe) \in Seq(Frames) /\ Head(pipe) \in Frames
              /\ Len(pipe) > 1 => Len(Tail(pipe)) > 0
         /\ Len(pipe) > 0 =>
              /\ [pipe EXCEPT ![Len(pipe)] = Garbage] \in Seq(Frames)
              /\ Len([pipe EXCEPT ![Len(pipe)] = Garbage]) = Len(pipe)
<1>1. Garbage \in Frames
  BY DEF Frames
<1>2. ASSUME NEW k \in 1..Len(pipe)
      PROVE  /\ [pipe EXCEPT ![k] = Garbage] \in Seq(Frames)
             /\ Len([pipe EXCEPT ![k] = Garbage]) = Len(pipe)
  BY <1>1, ExceptSeq
<1>3. Abandoned \in Seq(Frames) /\ Len(Abandoned) = Len(pipe)
  <2>1. CASE pipe = <<>>
    BY <2>1 DEF Abandoned
  <2>2. CASE pipe # <<>>
    <3>1. 1 \in 1..Len(pipe)
      BY <2>2
    <3>2. QED BY <1>2, <2>2, <3>1 DEF Abandoned
  <2>3. QED BY <2>1, <2>2
<1>4. ASSUME pipe # <<>>
      PROVE  /\ Tail(pipe) \in Seq(Frames) /\ Head(pipe) \in Frames
             /\ Len(pipe) > 1 => Len(Tail(pipe)) > 0
  BY <1>4
<1>5. Len(pipe) > 0 => Len(pipe) \in 1..Len(pipe)
  OBVIOUS
<1>6. QED BY <1>2, <1>3, <1>4, <1>5

\* The end of a helper leaves nothing of what was queued or written.
LEMMA KillType ==
  ASSUME Kill
  PROVE  /\ next_id' = 0 /\ queued' \in Seq(Notes) /\ Len(queued') = 0
         /\ asked' = {} /\ pipe' \in Seq(Frames) /\ ~torn'
BY EmptyType DEF Kill

\* A call that fails.
LEMMA FailType ==
  ASSUME Typed, NEW e \in Results, NEW rest \in Seq(Frames), Fail(e, rest),
         torn => Len(rest) > 0, UNCHANGED <<cancelled, bounds, history>>
  PROVE  Typed'
<1> USE LoginConstants DEF LoginConstants, Typed, Fail, Return, bounds
<1>1. CASE call = "start"
  BY <1>1, KillType
<1>2. CASE call # "start"
  BY <1>2
<1>3. QED BY <1>1, <1>2

\* What a note may do to a poll.
LEMMA NoteType ==
  ASSUME Typed, NEW f, TakeNote(f), stage = "note"
  PROVE  /\ next_id' \in 0..MaxCalls /\ next_id' <= calls
         /\ stage' = "note" => next_id' < calls
         /\ call' = call /\ stage' \in {"idle", "reply", "note"}
         /\ timer' \in 0..CallTimeout /\ elapsed' = elapsed
         /\ result' \in Results /\ asked' \subseteq Requests
<1> USE LoginConstants DEF LoginConstants, Typed, Results
<1>1. CASE UNCHANGED <<next_id, asked>>
  BY <1>1 DEF TakeNote, Await, Return, NextWait, Least
<1>2. CASE Ask /\ (Await("reply", CallTimeout) \/ Return("closed"))
  BY <1>2 DEF Ask, Await, Return, Requests
<1>3. QED BY <1>1, <1>2 DEF TakeNote

\* A line of the helper.
LEMMA WriteType ==
  ASSUME Typed, NEW f \in Frames, Write(f)
  PROVE  /\ pipe' \in Seq(Frames) /\ Len(pipe') > 0 /\ frames' \in 0..MaxFrames
         /\ torn' \in BOOLEAN
BY LoginConstants DEF LoginConstants, Typed, Write

\* Booleans stay booleans.
LEMMA FlagsStep == Flags /\ [Next]_vars => Flags'
<1> SUFFICES ASSUME Flags, [Next]_vars PROVE Flags'
  OBVIOUS
<1>1. ASSUME NEW e, NEW rest, Fail(e, rest), UNCHANGED <<cancelled, bounds, history>>
      PROVE  Flags'
  BY <1>1 DEF Flags, Fail, Kill, bounds, history
<1>2. CASE Application
  BY ZenonT(60), <1>1, <1>2
     DEF Application, StartFails, Refused, Start, Poll, Account, Cancel, DropCall,
         Called, Ask, Kill, Waiting, Flags, driver, helper, output, history, bounds
<1>3. CASE CallStep
  <2>2. CASE ReadReply
    BY <1>1, <2>2
       DEF ReadReply, Answered, Queue, Return, Flags, caller, helper, history, bounds
  <2>3. CASE PollQueued \/ PollLine
    BY <2>3 DEF PollQueued, PollLine, Flags, output, bounds, history
  <2>4. CASE ReadEnd \/ TimerFires
    BY <1>1, <2>4 DEF ReadEnd, TimerFires
  <2>5. QED BY <1>3, <2>2, <2>3, <2>4 DEF CallStep
<1>4. CASE Tick
  BY <1>4 DEF Tick, Flags, driver, helper, output, bounds, history
<1>5. CASE Helper
  BY ZenonT(60), <1>5
     DEF Helper, HelperAnswers, HelperApproves, HelperNotifies, HelperFinishesLine,
         HelperExits, AccountChanges, Write, Flags, driver, helper, output, history
<1>6. CASE UNCHANGED vars
  BY <1>6 DEF Flags, vars, driver, caller, helper, output, bounds, history
<1>7. QED BY <1>2, <1>3, <1>4, <1>5, <1>6 DEF Next

\* Types are kept by the calls as the application makes them.
LEMMA TypedApplication == Typed /\ Application => Typed'
<1> SUFFICES ASSUME Typed, Application PROVE Typed'
  OBVIOUS
<1> USE LoginConstants DEF LoginConstants
<1>1. ASSUME NEW e \in {"cancelled", "spawn"}, StartFails(e) PROVE Typed'
  <2>1. CASE cancelled
    BY <1>1, <2>1 DEF StartFails, Called, Typed, Results
  <2>2. CASE ~cancelled
    BY <1>1, <2>2, KillType DEF StartFails, Called, Typed, Results
  <2>3. QED BY <2>1, <2>2
<1>2. CASE Start
  BY <1>2, EmptyType DEF Start, Called, Typed, Requests
<1>3. ASSUME NEW c \in {"poll", "account"}, Refused(c) PROVE Typed'
  BY <1>3 DEF Refused, Called, Typed, Results, driver, helper, output
<1>4. CASE Poll
  BY <1>4 DEF Poll, Called, Least, Typed, driver, helper, output
<1>5. CASE Account
  BY <1>5 DEF Account, Ask, Called, Typed, Results, Requests, output
<1>6. CASE Cancel
  BY <1>6, KillType DEF Cancel, Typed, Idle, caller, bounds, history
<1>7. ASSUME NEW read \in BOOLEAN, DropCall(read) PROVE Typed'
  <2> DEFINE rest == IF read /\ ~LineReady THEN Abandoned ELSE pipe
  <2>1. rest \in Seq(Frames) /\ (torn => Len(rest) > 0)
    BY PipeType DEF Typed
  <2>2. Fail("dropped", rest) /\ "dropped" \in Results
    BY <1>7 DEF DropCall, Results
  <2>3. QED BY <1>7, <2>1, <2>2, FailType DEF DropCall
<1>8. QED BY <1>1, <1>2, <1>3, <1>4, <1>5, <1>6, <1>7 DEF Application

\* And by what they then read, or wait for.
LEMMA TypedCallStep == Typed /\ (CallStep \/ Tick) => Typed'
<1> SUFFICES ASSUME Typed, CallStep \/ Tick PROVE Typed'
  OBVIOUS
<1> USE LoginConstants DEF LoginConstants
<1>1. CASE ReadReply
  <2>1. /\ pipe # <<>> /\ Head(pipe) \in Frames /\ Tail(pipe) \in Seq(Frames)
        /\ torn => Len(Tail(pipe)) > 0
    BY <1>1, PipeType DEF ReadReply, LineReady, Typed
  <2>2. UNCHANGED <<cancelled, bounds, history>>
    BY <1>1 DEF ReadReply
  <2>3. ASSUME NEW e \in {"protocol", "invalid"}, Fail(e, Tail(pipe)) PROVE Typed'
    BY <2>1, <2>2, <2>3, FailType DEF Results
  <2>4. ASSUME Answered(Head(pipe).body) PROVE Typed'
    <3>1. CASE call = "start" /\ Return("challenge") /\ pipe' = Tail(pipe)
               /\ UNCHANGED <<next_id, queued, helper, torn>>
      BY <2>1, <2>2, <3>1 DEF Return, Typed, Results, helper, bounds
    <3>2. ASSUME NEW r \in {"authenticated", "failed", "connected", "signed_out"},
                 Return(r), pipe' = Tail(pipe),
                 UNCHANGED <<handshake, next_id, queued, helper, torn>>
          PROVE  Typed'
      BY <2>1, <2>2, <3>2 DEF Return, Typed, Results, helper, bounds
    <3>3. CASE call \in {"poll", "account"}
      BY <2>3, <2>4, <3>2, <3>3 DEF Answered
    <3>4. CASE call = "start"
      BY <2>3, <2>4, <3>1, <3>4 DEF Answered
    <3>5. CASE call = "none"
      BY <1>1, <3>5 DEF ReadReply, Typed
    <3>6. QED BY <3>3, <3>4, <3>5 DEF Typed
  <2>5. CASE /\ Head(pipe) \in Notes /\ ~Full /\ Queue(Head(pipe)) /\ pipe' = Tail(pipe)
             /\ UNCHANGED <<caller, handshake, next_id, helper, torn>>
    BY <2>1, <2>2, <2>5, QueueType DEF Full, Queue, Typed, caller, helper, bounds
  <2>6. CASE pipe' = Tail(pipe)
             /\ UNCHANGED <<caller, handshake, next_id, queued, helper, torn>>
    BY <2>1, <2>2, <2>6 DEF Typed, caller, helper, bounds
  <2>7. QED BY <1>1, <2>3, <2>4, <2>5, <2>6 DEF ReadReply
<1>2. CASE PollQueued
  BY <1>2, NoteType, QueueType DEF PollQueued, Typed, output, bounds
<1>3. CASE PollLine
  <2>1. /\ Tail(pipe) \in Seq(Frames) /\ (torn => Len(Tail(pipe)) > 0)
    BY <1>3, PipeType DEF PollLine, LineReady, Typed
  <2>2. CASE Return("protocol") /\ UNCHANGED <<next_id, asked>>
    BY <1>3, <2>1, <2>2 DEF PollLine, Return, Typed, Results, bounds
  <2>3. CASE TakeNote(Head(pipe))
    BY <1>3, <2>1, <2>3, NoteType DEF PollLine, Typed, bounds
  <2>4. QED BY <1>3, <2>2, <2>3 DEF PollLine
<1>4. CASE ReadEnd
  BY <1>4, FailType DEF ReadEnd, Typed, Results
<1>5. CASE TimerFires
  BY <1>5, FailType, PipeType DEF TimerFires, Typed, Results
<1>6. CASE Tick
  BY <1>6 DEF Tick, Typed, driver, helper, output, bounds
<1>7. QED BY <1>1, <1>2, <1>3, <1>4, <1>5, <1>6 DEF CallStep

\* And by whatever the helper does.
LEMMA TypedHelper == Typed /\ Flags /\ Helper => Typed'
<1> SUFFICES ASSUME Typed, Flags, Helper PROVE Typed'
  OBVIOUS
<1>1. ASSUME NEW f \in Frames, Write(f), asked' \subseteq asked,
             UNCHANGED <<driver, caller, calls>>
      PROVE  Typed'
  BY <1>1, WriteType DEF Typed, driver, caller
<1>2. /\ \A id \in Requests, b \in Bodies : Reply(id, b) \in Frames
      /\ \A l \in {"mine", "another"}, s \in BOOLEAN : Done(l, s) \in Frames
      /\ Other \in Frames /\ Garbage \in Frames
  BY DEF Frames, Notes
<1>3. CASE HelperAnswers
  BY <1>1, <1>2, <1>3 DEF HelperAnswers, Bodies, Typed
<1>4. CASE HelperApproves
  BY <1>1, <1>2, <1>4 DEF HelperApproves
<1>5. CASE HelperNotifies
  BY <1>1, <1>2, <1>5 DEF HelperNotifies, helper
<1>6. CASE HelperFinishesLine
  BY <1>6 DEF HelperFinishesLine, Typed, driver, caller, helper, bounds
<1>7. CASE HelperExits
  BY <1>7, PipeType DEF HelperExits, Typed, driver, caller, bounds
<1>8. CASE AccountChanges
  BY <1>8 DEF AccountChanges, Typed, driver, caller, output, bounds
<1>9. QED BY <1>3, <1>4, <1>5, <1>6, <1>7, <1>8 DEF Helper

\* The types are an invariant.
LEMMA TypesHold == Spec => [](Flags /\ Typed)
<1>1. Init => Flags /\ Typed
  <2>1. Init => Flags
    BY DEF Init, Flags
  <2>2. Init => Typed
    BY LoginConstants, EmptyType DEF LoginConstants, Init, Typed, Results
  <2>3. QED BY <2>1, <2>2
<1>2. Flags /\ Typed /\ [Next]_vars => (Flags /\ Typed)'
  <2>1. Typed /\ UNCHANGED vars => Typed'
    BY DEF Typed, vars, driver, caller, helper, output, bounds
  <2>2. QED
    BY <2>1, FlagsStep, TypedApplication, TypedCallStep, TypedHelper DEF Next
<1>3. QED BY <1>1, <1>2, PTL DEF Spec

\* Every reachable state is well typed, the queue within its limit and the
\* request numbers within the calls.
THEOREM LoginTypeCorrect == Spec => []TypeOK
<1>1. Flags /\ Typed => TypeOK
  BY DEF Flags, Typed, TypeOK
<1>2. QED BY <1>1, TypesHold, PTL

--------------------------------------------------------------------------------
(* Every call is bounded *)

\* What the running call has spent, and what its timer still allows, stay within
\* its bound; a poll that waits for a note is within the approval deadline.
Budget ==
  /\ stage = "note" => call = "poll" /\ elapsed + timer <= ApprovalDeadline
  /\ stage = "reply" =>
       elapsed + timer <= IF call = "poll" THEN ApprovalDeadline + CallTimeout
                                           ELSE CallTimeout

\* A note does not stretch the wait of a poll.
LEMMA NoteBudget ==
  ASSUME Typed, Budget, NEW f, TakeNote(f), stage = "note"
  PROVE  Budget'
<1> USE LoginConstants DEF LoginConstants, Typed, Budget
<1>1. ASSUME NEW r, Return(r) PROVE Budget'
  BY <1>1 DEF Return
<1>2. CASE elapsed < ApprovalDeadline /\ Await("note", NextWait)
  BY <1>2 DEF Await, NextWait, Least
<1>3. CASE Await("reply", CallTimeout)
  BY <1>3 DEF Await
<1>4. QED BY <1>1, <1>2, <1>3 DEF TakeNote

\* A call that ends, with whatever result, has no budget to keep.
LEMMA EndBudget ==
  ASSUME stage' = "idle" PROVE Budget'
BY DEF Budget

\* No step takes a call over its budget.
LEMMA BudgetHolds == Spec => []Budget
<1>1. Init => Budget
  BY DEF Init, Budget
<1>2. Flags /\ Typed /\ Budget /\ [Next]_vars => Budget'
  <2> SUFFICES ASSUME Typed, Budget, [Next]_vars PROVE Budget'
    OBVIOUS
  <2> USE LoginConstants DEF LoginConstants
  <2>1. ASSUME UNCHANGED caller PROVE Budget'
    BY <2>1 DEF Budget, caller
  <2>2. ASSUME NEW e, NEW rest, Fail(e, rest) PROVE Budget'
    BY <2>2, EndBudget DEF Fail, Return
  <2>3. CASE Application
    <3>1. ASSUME NEW e \in {"cancelled", "spawn"}, StartFails(e) PROVE Budget'
      BY <3>1, EndBudget DEF StartFails
    <3>2. CASE Start
      BY <3>2 DEF Start, Called, Budget
    <3>3. ASSUME NEW c \in {"poll", "account"}, Refused(c) PROVE Budget'
      BY <3>3, EndBudget DEF Refused
    <3>4. CASE Poll
      BY <3>4 DEF Poll, Called, Least, Budget
    <3>5. CASE Account
      BY <3>5 DEF Account, Called, Budget
    <3>6. QED BY <2>1, <2>2, <2>3, <3>1, <3>2, <3>3, <3>4, <3>5
              DEF Application, Cancel, DropCall
  <2>4. CASE ReadReply
    <3>1. ASSUME Answered(Head(pipe).body) PROVE Budget'
      BY <2>2, <3>1, EndBudget DEF Answered, Return
    <3>2. QED BY <2>1, <2>2, <2>4, <3>1 DEF ReadReply
  <2>5. CASE PollQueued \/ PollLine
    BY <2>5, NoteBudget, EndBudget DEF PollQueued, PollLine, Return
  <2>6. CASE ReadEnd \/ TimerFires
    BY <2>2, <2>6 DEF ReadEnd, TimerFires
  <2>7. CASE Tick
    BY <2>7 DEF Tick, Typed, Budget
  <2>8. CASE Helper
    BY <2>1, <2>8 DEF Helper, HelperAnswers, HelperApproves, HelperNotifies,
                      HelperFinishesLine, HelperExits, AccountChanges
  <2>9. CASE UNCHANGED vars
    BY <2>1, <2>9 DEF vars
  <2>10. QED BY <2>3, <2>4, <2>5, <2>6, <2>7, <2>8, <2>9 DEF Next, CallStep
<1>3. QED BY <1>1, <1>2, TypesHold, PTL DEF Spec

\* "Set the per-call deadline for helper requests" (codex.rs:125): no call takes
\* longer than its timeouts, however much else the helper writes.
THEOREM CallsStayBounded == Spec => []CallsAreBounded
<1>1. Typed /\ Budget => CallsAreBounded
  BY LoginConstants DEF LoginConstants, Typed, Budget, CallsAreBounded, Idle
<1>2. QED BY <1>1, TypesHold, BudgetHolds, PTL

--------------------------------------------------------------------------------
(* What lies on the wire *)

\* x is not among the lines, or notes, of s.
Free(s, x) == \A i \in 1..Len(s) : s[i] # x

\* Nothing becomes part of a sequence but what is appended or put into it.
LEMMA FreeKept ==
  ASSUME NEW S, NEW s \in Seq(S), NEW x, Free(s, x)
  PROVE  /\ s # <<>> => Free(Tail(s), x) /\ Head(s) # x
         /\ \A y \in S : y # x => Free(Append(s, y), x)
         /\ \A y \in S, k \in 1..Len(s) : y # x => Free([s EXCEPT ![k] = y], x)
<1>1. s # <<>> => Free(Tail(s), x) /\ Head(s) # x
  BY DEF Free
<1>2. ASSUME NEW y \in S, y # x PROVE Free(Append(s, y), x)
  BY <1>2 DEF Free
<1>3. ASSUME NEW y \in S, NEW k \in 1..Len(s), y # x PROVE Free([s EXCEPT ![k] = y], x)
  BY <1>3, ExceptSeq DEF Free
<1>4. QED BY <1>1, <1>2, <1>3

\* A broken line says nothing.
LEMMA BrokenFree ==
  ASSUME pipe \in Seq(Frames), NEW x, x # Garbage, Free(pipe, x)
  PROVE  /\ Free(Abandoned, x)
         /\ Len(pipe) > 0 => Free([pipe EXCEPT ![Len(pipe)] = Garbage], x)
<1>1. Garbage \in Frames
  BY DEF Frames
<1>2. CASE pipe = <<>>
  BY <1>2 DEF Abandoned
<1>3. CASE pipe # <<>>
  <2>1. 1 \in 1..Len(pipe) /\ Len(pipe) \in 1..Len(pipe)
    BY <1>3
  <2>2. QED BY <1>1, <1>3, <2>1, FreeKept DEF Abandoned
<1>4. QED BY <1>2, <1>3

--------------------------------------------------------------------------------
(* Approvals are of this login *)

Mine == Done("mine", TRUE)

\* As long as the person has not approved this login, no approval of it is on the
\* wire or queued, and no poll has taken one.
Approval ==
  ~approved =>
    /\ Free(pipe, Mine) /\ Free(queued, Mine)
    /\ ~(call = "poll" /\ stage = "reply")
    /\ ~(Idle /\ result = "authenticated")

\* What fails, fails without an approval.
LEMMA FailApproval ==
  ASSUME Approval, NEW e, e # "authenticated", NEW rest, Fail(e, rest),
         UNCHANGED approved, Free(pipe, Mine) => Free(rest, Mine)
  PROVE  Approval'
<1>1. Free(<<>>, Mine)
  BY DEF Free
<1>2. CASE call = "start"
  BY <1>1, <1>2 DEF Fail, Kill, Return, Approval, Idle
<1>3. CASE call # "start"
  BY <1>3 DEF Fail, Return, Approval, Idle
<1>4. QED BY <1>2, <1>3

\* A poll goes on only with an approval of this login.
LEMMA NoteApproval ==
  ASSUME ~approved, NEW f, f # Mine, f \in Frames, TakeNote(f), call = "poll"
  PROVE  stage' # "reply" /\ (stage' = "idle" => result' # "authenticated")
<1>1. ~(Wanted(f) /\ f.success)
  BY DEF Wanted, Frames, Notes, Done, Mine, Other, Garbage, Reply
<1>2. QED BY <1>1 DEF TakeNote, Return, Await

\* Authenticated: "the vendor reports a connected account" (mod.rs:184), and only
\* after the person approved the login of this attempt.
THEOREM ApprovalsAreMine == Spec => []ApprovedIsMine
<1>1. Init => Approval
  BY DEF Init, Approval, Free, Idle
<1>2. Flags /\ Typed /\ Budget /\ Approval /\ [Next]_vars => Approval'
  <2> SUFFICES ASSUME Flags, Typed, Budget, Approval, [Next]_vars PROVE Approval'
    OBVIOUS
  <2>1. Free(<<>>, Mine) /\ Mine # Garbage
    BY DEF Free, Mine, Done, Garbage
  <2>2. pipe \in Seq(Frames) /\ queued \in Seq(Notes)
    BY DEF Typed
  <2>3. CASE Application
    <3>1. ASSUME NEW e \in {"cancelled", "spawn"}, StartFails(e) PROVE Approval'
      BY <2>1, <3>1 DEF StartFails, Called, Kill, Approval, Idle
    <3>2. CASE Start
      BY <2>1, <3>2 DEF Start, Called, Approval, Idle
    <3>3. ASSUME NEW c \in {"poll", "account"}, Refused(c) PROVE Approval'
      BY <3>3 DEF Refused, Called, Approval, Idle, driver, output
    <3>4. CASE Poll
      BY <3>4 DEF Poll, Called, Approval, Idle, driver, output
    <3>5. CASE Account
      BY <3>5 DEF Account, Called, Approval, Idle, output
    <3>6. CASE Cancel
      BY <2>1, <3>6 DEF Cancel, Kill, Approval, Idle, caller, history
    <3>7. ASSUME NEW read \in BOOLEAN, DropCall(read) PROVE Approval'
      BY <2>1, <2>2, <3>7, FailApproval, BrokenFree DEF DropCall, history
    <3>8. QED BY <2>3, <3>1, <3>2, <3>3, <3>4, <3>5, <3>6, <3>7 DEF Application
  <2>4. CASE ReadReply
    <3>1. pipe # <<>> /\ Head(pipe) \in Frames /\ UNCHANGED approved
      BY <2>2, <2>4 DEF ReadReply, LineReady, history
    <3>2. Free(pipe, Mine) => Free(Tail(pipe), Mine) /\ Head(pipe) # Mine
      BY <2>2, <3>1, FreeKept
    <3>3. ASSUME NEW e, e # "authenticated", Fail(e, Tail(pipe)) PROVE Approval'
      BY <3>1, <3>2, <3>3, FailApproval
    <3>4. ASSUME Answered(Head(pipe).body) PROVE Approval'
      <4>1. CASE call = "start"
        BY <2>4, <3>1, <3>2, <3>3, <3>4, <4>1 DEF Answered, Return, Approval, Idle, ReadReply
      <4>2. CASE call = "poll"
        BY <2>4, <3>1, <3>2, <3>3, <3>4, <4>2 DEF Approval, ReadReply
      <4>3. CASE call \notin {"start", "poll"}
        BY <2>4, <3>1, <3>2, <3>3, <3>4, <4>3
           DEF Answered, Return, Approval, Idle, ReadReply, Typed
      <4>4. QED BY <4>1, <4>2, <4>3
    <3>5. CASE Head(pipe) \in Notes /\ Queue(Head(pipe)) /\ pipe' = Tail(pipe)
               /\ UNCHANGED caller
      BY <2>2, <3>1, <3>2, <3>5, FreeKept DEF Queue, Approval, Idle, caller
    <3>6. CASE pipe' = Tail(pipe) /\ UNCHANGED <<caller, queued>>
      BY <3>1, <3>2, <3>6 DEF Approval, Idle, caller
    <3>7. QED BY <2>4, <3>3, <3>4, <3>5, <3>6 DEF ReadReply
  <2>5. CASE PollQueued
    <3>1. Head(queued) \in Notes /\ Notes \subseteq Frames /\ call = "poll"
      BY <2>2, <2>5 DEF PollQueued, Frames, Budget
    <3>2. Free(queued, Mine) => Free(Tail(queued), Mine) /\ Head(queued) # Mine
      BY <2>2, <2>5, FreeKept DEF PollQueued
    <3>3. QED BY <2>5, <3>1, <3>2, NoteApproval
              DEF PollQueued, Approval, Idle, output, history
  <2>6. CASE PollLine
    <3>1. pipe # <<>> /\ Head(pipe) \in Frames /\ call = "poll"
      BY <2>2, <2>6 DEF PollLine, LineReady, Budget
    <3>2. Free(pipe, Mine) => Free(Tail(pipe), Mine) /\ Head(pipe) # Mine
      BY <2>2, <3>1, FreeKept
    <3>3. QED BY <2>6, <3>1, <3>2, NoteApproval
              DEF PollLine, Return, Approval, Idle, history
  <2>7. CASE ReadEnd \/ TimerFires
    BY <2>1, <2>2, <2>7, FailApproval, BrokenFree DEF ReadEnd, TimerFires, history
  <2>8. CASE Tick
    BY <2>8 DEF Tick, Approval, Idle, driver, output, history
  <2>9. CASE Helper
    <3>1. ASSUME NEW f \in Frames, f # Mine, Write(f), UNCHANGED <<driver, caller, approved>>
          PROVE  Approval'
      BY <2>2, <3>1, FreeKept DEF Write, Approval, Idle, driver, caller
    <3>2. CASE HelperAnswers
      <4>1. PICK id \in asked, b \in Bodies : Write(Reply(id, b))
        BY <3>2 DEF HelperAnswers, Bodies
      <4>2. Reply(id, b) \in Frames /\ Reply(id, b) # Mine
        BY DEF Typed, Frames, Reply, Mine, Done
      <4>3. QED BY <3>1, <3>2, <4>1, <4>2 DEF HelperAnswers, history
    <3>3. CASE HelperApproves
      BY <3>3 DEF HelperApproves, Approval
    <3>4. CASE HelperNotifies
      <4>1. \A f \in {Done("mine", FALSE), Done("another", TRUE), Other, Garbage} :
              f \in Frames /\ f # Mine
        <5>1. Done("mine", FALSE) # Mine
          <6>1. Done("mine", FALSE).success = FALSE /\ Mine.success = TRUE
            BY DEF Done, Mine
          <6>2. QED BY <6>1
        <5>2. Done("another", TRUE) # Mine
          BY DEF Done, Mine
        <5>3. Other # Mine /\ Garbage # Mine
          BY DEF Done, Mine, Other, Garbage
        <5>4. /\ Done("mine", FALSE) \in Frames /\ Done("another", TRUE) \in Frames
              /\ Other \in Frames /\ Garbage \in Frames
          <6>1. /\ \A l \in {"mine", "another"}, b \in BOOLEAN : Done(l, b) \in Frames
                /\ Other \in Frames /\ Garbage \in Frames
            BY DEF Frames, Notes
          <6>2. QED BY <6>1
        <5>5. QED BY <5>1, <5>2, <5>3, <5>4
      <4>2. QED BY <3>1, <3>4, <4>1 DEF HelperNotifies, history
    <3>5. CASE HelperFinishesLine
      BY <3>5 DEF HelperFinishesLine, Approval, Idle, driver, caller, history
    <3>6. CASE HelperExits
      <4>1. torn => Len(pipe) > 0
        BY DEF Typed
      <4>2. Free(pipe, Mine) => Free(pipe', Mine)
        BY <2>1, <2>2, <3>6, <4>1, BrokenFree DEF HelperExits
      <4>3. QED BY <3>6, <4>2
                DEF HelperExits, Approval, Idle, driver, caller, history
    <3>7. CASE AccountChanges
      BY <3>7 DEF AccountChanges, Approval, Idle, driver, caller, output
    <3>8. QED BY <2>9, <3>2, <3>3, <3>4, <3>5, <3>6, <3>7 DEF Helper
  <2>10. CASE UNCHANGED vars
    BY <2>10 DEF vars, Approval, Idle, driver, caller, output, history
  <2>11. QED BY <2>3, <2>4, <2>5, <2>6, <2>7, <2>8, <2>9, <2>10 DEF Next, CallStep
<1>3. Approval => ApprovedIsMine
  BY DEF Approval, ApprovedIsMine
<1>4. QED BY <1>1, <1>2, <1>3, TypesHold, BudgetHolds, PTL DEF Spec

--------------------------------------------------------------------------------
(* Presences are fresh *)

\* Requests still open, and answers on the wire, have the numbers of requests that
\* were made; and an answer to the running request that says the account is
\* connected is from a time at which it was, during the call.
Freshness ==
  /\ asked \subseteq 0..next_id
  /\ \A id \in Requests, b \in Bodies : id > next_id => Free(pipe, Reply(id, b))
  /\ ~Idle /\ signedIn => fresh
  /\ stage = "reply" /\ ~fresh => Free(pipe, Reply(next_id, "label"))
  /\ PresenceIsFresh

\* What ends a call without a presence ends it fresh.
LEMMA FailFreshness ==
  ASSUME Typed, Freshness, NEW e \in Results \ {"authenticated", "connected"}, NEW rest,
         Fail(e, rest),
         \A id \in Requests, b \in Bodies : Free(pipe, Reply(id, b)) => Free(rest, Reply(id, b))
  PROVE  Freshness'
<1>1. \A x : Free(<<>>, x)
  BY DEF Free
<1>2. CASE call = "start"
  BY <1>1, <1>2 DEF Fail, Kill, Return, Freshness, PresenceIsFresh, Idle
<1>3. CASE call # "start"
  BY <1>3 DEF Fail, Return, Freshness, PresenceIsFresh, Idle
<1>4. QED BY <1>2, <1>3

\* Answers are told apart by their ids, and from all other lines.
LEMMA RepliesDiffer ==
  ASSUME NEW id, NEW b
  PROVE  /\ \A id2, b2 : Reply(id, b) = Reply(id2, b2) => id = id2 /\ b = b2
         /\ Reply(id, b) # Garbage
         /\ \A f \in Notes : Reply(id, b) # f
<1>1. \A id2, b2 : Reply(id, b) = Reply(id2, b2) => id = id2 /\ b = b2
  BY DEF Reply
<1>2. Reply(id, b) # Garbage
  BY DEF Reply, Garbage
<1>3. \A f \in Notes : Reply(id, b) # f
  BY DEF Reply, Notes, Done, Other
<1>4. QED BY <1>1, <1>2, <1>3

\* A new request has a number that is on nothing yet.
LEMMA AskFreshness ==
  ASSUME Typed, Freshness, Ask, next_id' \in Requests
  PROVE  /\ asked' \subseteq 0..next_id'
         /\ Free(pipe, Reply(next_id', "label"))
         /\ \A id \in Requests, b \in Bodies : id > next_id' => Free(pipe, Reply(id, b))
<1>1. next_id \in Nat /\ next_id' = next_id + 1
  BY DEF Typed, Ask
<1>2. asked' \subseteq 0..next_id'
  BY <1>1 DEF Ask, Freshness
<1>3. QED BY <1>1, <1>2 DEF Freshness, Bodies

\* What is read of the output, or broken, adds no answer to it.
LEMMA AnswersLeave ==
  ASSUME Typed, NEW id, NEW b, Free(pipe, Reply(id, b))
  PROVE  /\ pipe # <<>> => Free(Tail(pipe), Reply(id, b)) /\ Head(pipe) # Reply(id, b)
         /\ Free(Abandoned, Reply(id, b))
         /\ Len(pipe) > 0 => Free([pipe EXCEPT ![Len(pipe)] = Garbage], Reply(id, b))
<1>1. pipe \in Seq(Frames) /\ Reply(id, b) # Garbage
  BY RepliesDiffer DEF Typed
<1>2. pipe # <<>> => Free(Tail(pipe), Reply(id, b)) /\ Head(pipe) # Reply(id, b)
  BY <1>1, FreeKept
<1>3. QED BY <1>1, <1>2, BrokenFree

\* A presence that is reported was the vendor's at some time during the call
\* ("Re-read vendor presence", codex.rs:484).
THEOREM PresencesAreFresh == Spec => []PresenceIsFresh
<1>1. Init => Freshness
  BY DEF Init, Freshness, Free, PresenceIsFresh, Idle
<1>2. Flags /\ Typed /\ Typed' /\ Budget /\ Freshness /\ [Next]_vars => Freshness'
  <2> SUFFICES ASSUME Flags, Typed, Typed', Budget, Freshness, [Next]_vars
               PROVE  Freshness'
    OBVIOUS
  <2>1. /\ pipe \in Seq(Frames) /\ queued \in Seq(Notes) /\ next_id \in Nat
        /\ asked \subseteq Requests
    BY DEF Typed
  <2>2. \A x : Free(<<>>, x)
    BY DEF Free
  <2>3. CASE Application
    <3>1. ASSUME NEW e \in {"cancelled", "spawn"}, StartFails(e) PROVE Freshness'
      BY <2>2, <3>1 DEF StartFails, Called, Kill, Freshness, PresenceIsFresh, Idle
    <3>2. CASE Start
      BY <2>2, <3>2 DEF Start, Called, Freshness, PresenceIsFresh, Idle
    <3>3. ASSUME NEW c \in {"poll", "account"}, Refused(c) PROVE Freshness'
      BY <3>3 DEF Refused, Called, Freshness, PresenceIsFresh, Idle, driver, helper, output
    <3>4. CASE Poll
      BY <3>4 DEF Poll, Called, Freshness, PresenceIsFresh, Idle, driver, helper, output
    <3>5. CASE Account
      <4>1. next_id' \in Requests /\ Ask
        BY <2>1, <3>5 DEF Account, Ask, Typed, Requests
      <4>2. QED BY <3>5, <4>1, AskFreshness
                DEF Account, Called, Freshness, PresenceIsFresh, Idle, output
    <3>6. CASE Cancel
      BY <2>2, <3>6 DEF Cancel, Kill, Freshness, PresenceIsFresh, Idle, caller, history
    <3>7. ASSUME NEW read \in BOOLEAN, DropCall(read) PROVE Freshness'
      BY <3>7, FailFreshness, AnswersLeave DEF DropCall, Results
    <3>8. QED BY <2>3, <3>1, <3>2, <3>3, <3>4, <3>5, <3>6, <3>7 DEF Application
  <2>4. CASE ReadReply
    <3>1. pipe # <<>> /\ Head(pipe) \in Frames /\ UNCHANGED <<bounds, history>>
      BY <2>1, <2>4 DEF ReadReply, LineReady
    <3>2. \A id, b : Free(pipe, Reply(id, b)) =>
                       Free(Tail(pipe), Reply(id, b)) /\ Head(pipe) # Reply(id, b)
      BY <3>1, AnswersLeave
    <3>3. ASSUME NEW e \in {"protocol", "invalid"}, Fail(e, Tail(pipe)) PROVE Freshness'
      BY <3>2, <3>3, FailFreshness DEF Results
    <3>4. CASE IsAnswer(Head(pipe)) /\ Answered(Head(pipe).body)
      <4>1. PICK b : Head(pipe) = Reply(next_id, b)
        BY <3>1, <3>4
           DEF IsAnswer, Frames, Notes, Done, Other, Garbage, Reply
      <4>2. Head(pipe).body = b
        BY <4>1 DEF Reply
      <4>3. b = "label" => fresh
        BY <2>4, <3>2, <4>1 DEF Freshness, ReadReply
      <4>4. CASE b # "label"
        <5>1. ASSUME NEW r \in {"challenge", "failed", "signed_out"}, Return(r),
                     pipe' = Tail(pipe), UNCHANGED <<next_id, helper>>
              PROVE  Freshness'
          BY <3>1, <3>2, <5>1
             DEF Return, Freshness, PresenceIsFresh, Idle, helper, history
        <5>2. call # "none"
          BY <2>4 DEF ReadReply, Typed
        <5>3. QED BY <3>3, <3>4, <4>2, <4>4, <5>1, <5>2 DEF Answered, Typed, helper
      <4>5. CASE b = "label"
        BY <3>1, <3>2, <3>4, <4>2, <4>3, <4>5
           DEF Answered, Return, Freshness, PresenceIsFresh, Idle, helper, history
      <4>6. QED BY <4>4, <4>5
    <3>5. CASE pipe' = Tail(pipe) /\ UNCHANGED <<caller, next_id, helper>>
      BY <3>1, <3>2, <3>5 DEF Freshness, PresenceIsFresh, Idle, caller, helper, history
    <3>6. QED BY <2>4, <3>3, <3>4, <3>5 DEF ReadReply
  <2>5. ASSUME NEW f, TakeNote(f), stage = "note", alive' = alive, signedIn' = signedIn,
               UNCHANGED history,
               \A id, b : Free(pipe, Reply(id, b)) => Free(pipe', Reply(id, b))
        PROVE  Freshness'
    <3>1. CASE UNCHANGED <<next_id, asked>> /\ (stage' # "idle" => stage' = "note")
                 /\ (stage' = "idle" => result' \notin {"authenticated", "connected"})
      BY <2>5, <3>1 DEF Freshness, PresenceIsFresh, Idle, history
    <3>2. CASE Ask /\ (Await("reply", CallTimeout) \/ Return("closed"))
      <4>1. next_id' \in Requests
        BY <2>1, <3>2 DEF Ask, Typed, Requests
      <4>2. QED BY <2>5, <3>2, <4>1, AskFreshness
                DEF Await, Return, Freshness, PresenceIsFresh, Idle, history
    <3>3. QED BY <2>5, <3>1, <3>2 DEF TakeNote, Await, Return
  <2>6. CASE PollQueued
    BY <2>5, <2>6 DEF PollQueued, output
  <2>7. CASE PollLine
    <3>1. \A id, b : Free(pipe, Reply(id, b)) => Free(Tail(pipe), Reply(id, b))
      BY <2>7, AnswersLeave DEF PollLine, LineReady
    <3>2. CASE Return("protocol") /\ UNCHANGED <<next_id, asked>>
      BY <2>7, <3>1, <3>2
         DEF PollLine, Return, Freshness, PresenceIsFresh, Idle, history
    <3>3. CASE TakeNote(Head(pipe))
      BY <2>5, <2>7, <3>1, <3>3 DEF PollLine
    <3>4. QED BY <2>7, <3>2, <3>3 DEF PollLine
  <2>8. CASE ReadEnd \/ TimerFires
    BY <2>8, FailFreshness, AnswersLeave DEF ReadEnd, TimerFires, Results
  <2>9. CASE Tick
    BY <2>9 DEF Tick, Freshness, PresenceIsFresh, Idle, driver, helper, output, history
  <2>10. CASE Helper
    <3>1. ASSUME NEW f \in Frames, Write(f), asked' \subseteq asked, UNCHANGED <<driver, caller>>,
                 \A id, b : f = Reply(id, b) => id <= next_id /\ (b = "label" => signedIn),
                 ~Idle /\ (signedIn' \/ fresh) => fresh', Idle => fresh' = fresh
          PROVE  Freshness'
      <4>1. ASSUME NEW x, x # f, Free(pipe, x) PROVE Free(pipe', x)
        BY <2>1, <3>1, <4>1, FreeKept DEF Write
      <4>2. ASSUME stage = "reply", ~fresh' PROVE Free(pipe', Reply(next_id, "label"))
        <5>1. ~Idle /\ ~fresh /\ ~signedIn
          BY <3>1, <4>2 DEF Freshness, Idle
        <5>2. Free(pipe, Reply(next_id, "label"))
          BY <4>2, <5>1 DEF Freshness
        <5>3. f # Reply(next_id, "label")
          BY <3>1, <5>1
        <5>4. QED BY <4>1, <5>2, <5>3
      <4>3. ASSUME NEW id \in Requests, NEW b \in Bodies, id > next_id
            PROVE  Free(pipe', Reply(id, b))
        <5>1. ~(id <= next_id)
          BY <2>1, <4>3 DEF Requests
        <5>2. QED BY <3>1, <4>1, <4>3, <5>1 DEF Freshness
      <4>4. next_id' = next_id /\ stage' = stage /\ result' = result
        BY <3>1 DEF driver, caller
      <4>5. PresenceIsFresh'
        BY <3>1, <4>4 DEF Freshness, PresenceIsFresh, Idle
      <4>6. asked' \subseteq 0..next_id' /\ (~Idle /\ signedIn => fresh)'
        BY <3>1, <4>4 DEF Freshness, Idle
      <4>7. QED BY <4>2, <4>3, <4>4, <4>5, <4>6 DEF Freshness
    <3>2. CASE HelperAnswers
      <4>1. PICK id \in asked, b \in Bodies :
              /\ Write(Reply(id, b)) /\ (b = "label" => signedIn)
              /\ asked' = asked \ {id}
              /\ UNCHANGED <<driver, caller, alive, signedIn, calls, history>>
        BY <3>2 DEF HelperAnswers, Bodies
      <4>2. Reply(id, b) \in Frames
        BY <2>1 DEF Frames
      <4>3. \A id2, b2 : Reply(id, b) = Reply(id2, b2) =>
              id2 <= next_id /\ (b2 = "label" => signedIn)
        BY <2>1, <4>1, RepliesDiffer DEF Freshness
      <4>4. ~Idle /\ (signedIn' \/ fresh) => fresh'
        BY <4>1 DEF Freshness, history
      <4>5. QED BY <3>1, <4>1, <4>2, <4>3, <4>4 DEF history
    <3>3. /\ \A l \in {"mine", "another"}, s \in BOOLEAN : Done(l, s) \in Notes
          /\ Other \in Notes /\ Garbage \in Frames /\ Notes \subseteq Frames
      BY DEF Frames, Notes
    <3>4. CASE HelperApproves
      <4>1. \A id, b : Done("mine", TRUE) # Reply(id, b)
        BY <3>3, RepliesDiffer
      <4>2. QED BY <3>1, <3>3, <3>4, <4>1 DEF HelperApproves, Flags
    <3>5. CASE HelperNotifies
      <4>1. PICK f \in {Done("mine", FALSE), Done("another", TRUE), Other, Garbage} : Write(f)
        BY <3>5 DEF HelperNotifies
      <4>2. f \in Frames /\ \A id, b : f # Reply(id, b)
        <5>1. f \in Notes \/ f = Garbage
          BY <3>3
        <5>2. QED BY <3>3, <5>1, RepliesDiffer
      <4>3. ~Idle /\ (signedIn' \/ fresh) => fresh'
        BY <3>5 DEF HelperNotifies, Freshness, helper, history
      <4>4. QED BY <3>1, <3>5, <4>1, <4>2, <4>3 DEF HelperNotifies, helper, history
    <3>6. CASE HelperFinishesLine
      BY <3>6 DEF HelperFinishesLine, Freshness, PresenceIsFresh, Idle,
                  driver, caller, helper, history
    <3>7. CASE HelperExits
      <4>1. \A id, b : Free(pipe, Reply(id, b)) => Free(pipe', Reply(id, b))
        BY <3>7, AnswersLeave DEF HelperExits, Typed
      <4>2. QED BY <3>7, <4>1
                DEF HelperExits, Freshness, PresenceIsFresh, Idle, driver, caller, history
    <3>8. CASE AccountChanges
      BY <3>8 DEF AccountChanges, Freshness, PresenceIsFresh, Idle, Flags,
                  driver, caller, output
    <3>9. QED BY <2>10, <3>2, <3>4, <3>5, <3>6, <3>7, <3>8 DEF Helper
  <2>11. CASE UNCHANGED vars
    BY <2>11 DEF vars, Freshness, PresenceIsFresh, Idle, driver, caller, helper, output, history
  <2>12. QED BY <2>3, <2>4, <2>6, <2>7, <2>8, <2>9, <2>10, <2>11 DEF Next, CallStep
<1>3. Freshness => PresenceIsFresh
  BY DEF Freshness
<1>4. QED BY <1>1, <1>2, <1>3, TypesHold, BudgetHolds, PTL DEF Spec

--------------------------------------------------------------------------------
(* Approvals are not overlooked *)

Endings == {Done("mine", s) : s \in BOOLEAN}

\* The end of this login is among the notes of q.
Told(q) == \E i \in 1..Len(q) : q[i] \in Endings

\* It is on the wire l, whose last line is torn or not, for a reader to come upon.
Legible(l, t) ==
  \E i \in 1..Len(l) :
    /\ l[i] \in Endings
    /\ ~(t /\ i = Len(l))
    /\ \A j \in 1..(i - 1) : l[j] # Garbage

\* Nothing but its own reading takes the end of the login from the queue.
LEMMA QueueTells ==
  ASSUME NEW q \in Seq(Notes)
  PROVE  /\ Told(q) => q # <<>> /\ (Head(q) \in Endings \/ Told(Tail(q)))
         /\ \A f \in Notes : Told(q) \/ f \in Endings => Told(Append(q, f))
<1>1. Len(q) \in Nat
  OBVIOUS
<1>2. ASSUME Told(q) PROVE q # <<>> /\ (Head(q) \in Endings \/ Told(Tail(q)))
  <2>1. PICK i \in 1..Len(q) : q[i] \in Endings
    BY <1>2 DEF Told
  <2>2. q # <<>>
    BY <2>1
  <2>3. CASE i = 1
    BY <2>1, <2>2, <2>3
  <2>4. CASE i # 1
    <3>1. i - 1 \in 1..Len(Tail(q)) /\ Tail(q)[i - 1] = q[i]
      BY <2>1, <2>2, <2>4
    <3>2. QED BY <2>1, <2>2, <3>1 DEF Told
  <2>5. QED BY <2>3, <2>4
<1>3. ASSUME NEW f \in Notes, Told(q) \/ f \in Endings PROVE Told(Append(q, f))
  <2>1. /\ Len(Append(q, f)) = Len(q) + 1 /\ Append(q, f)[Len(q) + 1] = f
        /\ \A i \in 1..Len(q) : Append(q, f)[i] = q[i]
    OBVIOUS
  <2>2. /\ Len(q) + 1 \in 1..Len(Append(q, f))
        /\ \A i \in 1..Len(q) : i \in 1..Len(Append(q, f))
    BY <1>1, <2>1
  <2>3. QED BY <1>3, <2>1, <2>2 DEF Told
<1>4. QED BY <1>2, <1>3

\* What the helper may announce is a line of its output.
LEMMA Lines ==
  /\ \A l \in {"mine", "another"}, s \in BOOLEAN : Done(l, s) \in Frames
  /\ Other \in Frames /\ Garbage \in Frames
<1>1. \A l \in {"mine", "another"}, s \in BOOLEAN : Done(l, s) \in Notes
  BY DEF Notes, Done
<1>2. Other \in Notes
  BY DEF Notes
<1>3. QED BY <1>1, <1>2 DEF Frames

\* Neither a further line nor the end of the helper hides it; a reader takes the lines
\* before it, then itself, and is not held up.
LEMMA WireTells ==
  ASSUME NEW l \in Seq(Frames), NEW t \in BOOLEAN, Legible(l, t)
  PROVE  /\ l # <<>> /\ (Len(l) > 1 \/ ~t) /\ Head(l) # Garbage
         /\ Head(l) \in Endings \/ Legible(Tail(l), t)
         /\ Legible(l, FALSE)
         /\ \A f \in Frames, u \in BOOLEAN : Legible(Append(l, f), u)
         /\ \A u \in BOOLEAN : Legible([l EXCEPT ![Len(l)] = Garbage], u) \/ ~t
<1>1. PICK i \in 1..Len(l) :
        /\ l[i] \in Endings
        /\ ~(t /\ i = Len(l))
        /\ \A j \in 1..(i - 1) : l[j] # Garbage
  BY DEF Legible
<1>2. Garbage \notin Endings /\ Len(l) \in Nat /\ Garbage \in Frames
  <2>1. Garbage \in Frames
    BY Lines
  <2>2. Garbage.kind = "garbage" /\ \A f \in Endings : f.kind = "done"
    BY DEF Endings, Done, Garbage
  <2>3. QED BY <2>1, <2>2
<1>3. l # <<>> /\ (Len(l) > 1 \/ ~t)
  BY <1>1
<1>4. Head(l) # Garbage
  <2>1. Head(l) = l[1]
    BY <1>3
  <2>2. CASE i = 1
    BY <1>1, <1>2, <2>1, <2>2
  <2>3. CASE i # 1
    <3>1. 1 \in 1..(i - 1)
      BY <1>1, <2>3
    <3>2. QED BY <1>1, <2>1, <3>1
  <2>4. QED BY <2>2, <2>3
<1>5. Head(l) \in Endings \/ Legible(Tail(l), t)
  <2>1. CASE i = 1
    BY <1>1, <1>3, <2>1
  <2>2. CASE i # 1
    <3>1. /\ i - 1 \in 1..Len(Tail(l)) /\ Tail(l)[i - 1] = l[i]
          /\ Len(Tail(l)) = Len(l) - 1
          /\ \A j \in 1..(i - 1) - 1 : j + 1 \in 1..(i - 1) /\ Tail(l)[j] = l[j + 1]
      BY <1>1, <1>3, <2>2
    <3>2. ~(t /\ i - 1 = Len(Tail(l)))
      <4>1. i - 1 = Len(Tail(l)) => i = Len(l)
        BY <1>2, <3>1
      <4>2. QED BY <1>1, <4>1
    <3>3. QED BY <1>1, <3>1, <3>2 DEF Legible
  <2>3. QED BY <2>1, <2>2
<1>6. Legible(l, FALSE)
  BY <1>1 DEF Legible
<1>7. ASSUME NEW f \in Frames, NEW u \in BOOLEAN PROVE Legible(Append(l, f), u)
  <2>1. /\ Len(Append(l, f)) = Len(l) + 1
        /\ \A j \in 1..Len(l) : Append(l, f)[j] = l[j]
    OBVIOUS
  <2>2. /\ i \in 1..Len(Append(l, f)) /\ i # Len(Append(l, f))
        /\ \A j \in 1..(i - 1) : j \in 1..Len(l)
    BY <1>1, <1>2, <2>1
  <2>3. QED BY <1>1, <2>1, <2>2 DEF Legible
<1>8. ASSUME NEW u \in BOOLEAN, t PROVE Legible([l EXCEPT ![Len(l)] = Garbage], u)
  <2> DEFINE m == [l EXCEPT ![Len(l)] = Garbage]
  <2>1. i # Len(l) /\ i \in 1..Len(l) /\ Len(l) \in 1..Len(l)
    BY <1>1, <1>2, <1>8
  <2>2. m \in Seq(Frames) /\ Len(m) = Len(l)
    BY <1>2, <2>1, ExceptSeq
  <2>3. \A j \in 1..Len(l) : j # Len(l) => m[j] = l[j]
    OBVIOUS
  <2>4. \A j \in 1..(i - 1) : j \in 1..Len(l) /\ j # Len(l)
    BY <1>2, <2>1
  <2> HIDE DEF m
  <2>5. Legible(m, u)
    BY <1>1, <2>1, <2>2, <2>3, <2>4 DEF Legible
  <2>6. QED BY <2>5 DEF m
<1>9. QED BY <1>3, <1>4, <1>5, <1>6, <1>7, <1>8

\* What is there to be read is in the queue or on the wire.
LEMMA WaitingIs == Waiting <=> Told(queued) \/ Legible(pipe, torn)
BY DEF Waiting, Told, Legible, Endings

\* What may become of it in a step: it stays, the helper goes, a poll ends its wait, or
\* a full queue has no room for it.
Stays ==
  \/ Waiting'
  \/ ~handshake' /\ stage' # "note"
  \/ stage = "note" /\ stage' # "note"
  \/ stage = "reply" /\ Full /\ result' = "protocol" /\ stage' # "note"

\* Where queue and wire stand, it stays.
LEMMA StandsStays ==
  ASSUME Waiting, UNCHANGED <<queued, output>>
  PROVE  Stays
BY DEF Waiting, Stays, output

\* A failed call leaves it where it was, or leaves no helper.
LEMMA FailStays ==
  ASSUME Waiting, ~Idle, stage \in {"reply", "note"}, NEW e, NEW rest, Fail(e, rest),
         Told(queued) \/ Legible(rest, torn)
  PROVE  Stays
<1>1. CASE call = "start"
  BY <1>1 DEF Fail, Kill, Return, Stays
<1>2. CASE call # "start"
  <2>1. queued' = queued /\ pipe' = rest /\ torn' = torn
    BY <1>2 DEF Fail
  <2>2. (Told(queued) \/ Legible(pipe, torn))'
    BY <2>1
  <2>3. Waiting'
    BY <2>2 DEF Waiting, Told, Legible, Endings
  <2>4. QED BY <2>3 DEF Stays
<1>3. QED BY <1>1, <1>2

\* A poll goes on with its wait only past a note that is not the end of this login.
LEMMA NoteStays ==
  ASSUME NEW f \in Frames, TakeNote(f), f \in Endings
  PROVE  stage' # "note"
<1>1. Wanted(f)
  BY DEF Wanted, Endings, Done
<1>2. QED BY <1>1 DEF TakeNote, Return, Await

\* Each step keeps it, but for the ways it is meant to go.
LEMMA ApprovalStays ==
  ASSUME Flags, Typed, Waiting, [Next]_vars
  PROVE  Stays
<1>0. pipe \in Seq(Frames) /\ queued \in Seq(Notes) /\ torn \in BOOLEAN
      /\ stage \in {"idle", "reply", "note"} /\ (Told(queued) \/ Legible(pipe, torn))
  BY WaitingIs DEF Typed, Flags
<1>1. CASE Application
  <2>1. ASSUME NEW e \in {"cancelled", "spawn"}, StartFails(e) PROVE Stays
    <3>1. CASE cancelled
      BY <2>1, <3>1, StandsStays DEF StartFails, output
    <3>2. CASE ~cancelled
      BY <2>1, <3>2 DEF StartFails, Kill, Stays
    <3>3. QED BY <3>1, <3>2
  <2>2. CASE Start
    BY <2>2 DEF Start, Stays
  <2>3. ASSUME NEW c \in {"poll", "account"}, Refused(c) PROVE Stays
    BY <2>3, StandsStays DEF Refused, driver
  <2>4. CASE Poll
    BY <2>4, StandsStays DEF Poll, driver
  <2>5. CASE Account
    BY <2>5, StandsStays DEF Account
  <2>6. CASE Cancel
    BY <2>6 DEF Cancel, Kill, Stays, Idle, caller
  <2>7. ASSUME NEW read \in BOOLEAN, DropCall(read) PROVE Stays
    <3>1. ~Idle /\ stage \in {"reply", "note"}
      BY <1>0, <2>7 DEF DropCall, Idle
    <3>2. CASE read /\ ~LineReady
      <4>1. ~Legible(pipe, torn)
        BY <1>0, <3>2, WireTells DEF LineReady
      <4>2. QED BY <1>0, <2>7, <3>1, <4>1, FailStays DEF DropCall
    <3>3. CASE ~(read /\ ~LineReady)
      <4>1. Fail("dropped", pipe)
        BY <2>7, <3>3 DEF DropCall
      <4>2. QED BY <1>0, <3>1, <4>1, FailStays
    <3>4. QED BY <3>2, <3>3
  <2>8. QED BY <1>1, <2>1, <2>2, <2>3, <2>4, <2>5, <2>6, <2>7 DEF Application
<1>2. CASE ReadReply
  <2>0. /\ pipe # <<>> /\ Head(pipe) \in Frames /\ stage = "reply" /\ ~Idle
        /\ Legible(pipe, torn) =>
             Head(pipe) # Garbage /\ (Head(pipe) \in Endings \/ Legible(Tail(pipe), torn))
    <3>1. pipe # <<>> /\ stage = "reply" /\ ~Idle
      BY <1>2 DEF ReadReply, LineReady, Idle
    <3>2. Head(pipe) \in Frames
      BY <1>0, <3>1
    <3>3. Legible(pipe, torn) =>
            Head(pipe) # Garbage /\ (Head(pipe) \in Endings \/ Legible(Tail(pipe), torn))
      BY <1>0, WireTells
    <3>4. QED BY <3>1, <3>2, <3>3
  <2>1. ASSUME NEW e, Fail(e, Tail(pipe)), Head(pipe) \notin Endings PROVE Stays
    BY <1>0, <2>0, <2>1, FailStays
  <2>2. ASSUME pipe' = Tail(pipe), UNCHANGED <<queued, torn>>, Head(pipe) \notin Endings
        PROVE  Stays
    <3>1. (Told(queued) \/ Legible(pipe, torn))'
      BY <1>0, <2>0, <2>2
    <3>2. Waiting'
      BY <3>1 DEF Waiting, Told, Legible, Endings
    <3>3. QED BY <3>2 DEF Stays
  <2>3. CASE Head(pipe) = Garbage /\ Fail("protocol", Tail(pipe))
    BY <2>1, <2>3 DEF Endings, Done, Garbage
  <2>4. CASE IsAnswer(Head(pipe)) /\ Answered(Head(pipe).body)
    <3>1. Head(pipe) \notin Endings
      BY <2>4 DEF IsAnswer, Endings, Done
    <3>2. QED BY <2>1, <2>2, <2>4, <3>1 DEF Answered
  <2>5. CASE Head(pipe) \in Notes /\ Full /\ Fail("protocol", Tail(pipe))
    BY <2>0, <2>5 DEF Fail, Return, Stays
  <2>6. CASE /\ Head(pipe) \in Notes /\ Queue(Head(pipe)) /\ pipe' = Tail(pipe)
             /\ UNCHANGED torn
    <3>1. queued' = Append(queued, Head(pipe))
      BY <2>6 DEF Queue
    <3>2. Told(Append(queued, Head(pipe))) \/ Legible(Tail(pipe), torn)
      BY <1>0, <2>0, <2>6, QueueTells
    <3>3. (Told(queued) \/ Legible(pipe, torn))'
      BY <2>6, <3>1, <3>2
    <3>4. Waiting'
      BY <3>3 DEF Waiting, Told, Legible, Endings
    <3>5. QED BY <3>4 DEF Stays
  <2>7. CASE /\ Head(pipe).kind = "reply" /\ pipe' = Tail(pipe)
             /\ UNCHANGED <<queued, torn>>
    <3>1. Head(pipe) \notin Endings
      BY <2>7 DEF Endings, Done
    <3>2. QED BY <2>2, <2>7, <3>1
  <2>8. QED BY <1>2, <2>3, <2>4, <2>5, <2>6, <2>7 DEF ReadReply
<1>3. CASE PollQueued
  <2>1. CASE stage' # "note"
    BY <1>3, <2>1 DEF PollQueued, Stays
  <2>2. CASE stage' = "note"
    <3>1. Head(queued) \in Notes /\ Head(queued) \in Frames
      BY <1>0, <1>3 DEF PollQueued, Frames
    <3>2. Head(queued) \notin Endings
      BY <1>3, <2>2, <3>1, NoteStays DEF PollQueued
    <3>3. Told(Tail(queued)) \/ Legible(pipe, torn)
      BY <1>0, <3>2, QueueTells
    <3>4. (Told(queued) \/ Legible(pipe, torn))'
      BY <1>3, <3>3 DEF PollQueued, output
    <3>5. Waiting'
      BY <3>4 DEF Waiting, Told, Legible, Endings
    <3>6. QED BY <3>5 DEF Stays
  <2>3. QED BY <2>1, <2>2
<1>4. CASE PollLine
  <2>1. CASE stage' # "note"
    BY <1>4, <2>1 DEF PollLine, Stays
  <2>2. CASE stage' = "note"
    <3>1. Head(pipe) \in Frames /\ Head(pipe) # Garbage /\ TakeNote(Head(pipe))
      BY <1>0, <1>4, <2>2 DEF PollLine, LineReady, Return
    <3>2. Head(pipe) \notin Endings
      BY <2>2, <3>1, NoteStays
    <3>3. Told(queued) \/ Legible(Tail(pipe), torn)
      BY <1>0, <3>2, WireTells
    <3>4. (Told(queued) \/ Legible(pipe, torn))'
      BY <1>4, <3>3 DEF PollLine
    <3>5. Waiting'
      BY <3>4 DEF Waiting, Told, Legible, Endings
    <3>6. QED BY <3>5 DEF Stays
  <2>3. QED BY <2>1, <2>2
<1>5. CASE ReadEnd
  BY <1>0, <1>5, FailStays DEF ReadEnd, Idle
<1>6. CASE TimerFires
  <2>1. ~Legible(pipe, torn)
    BY <1>0, <1>6, WireTells DEF TimerFires, Ready, LineReady
  <2>2. QED BY <1>0, <1>6, <2>1, FailStays DEF TimerFires, Idle
<1>7. CASE Tick
  BY <1>7, StandsStays DEF Tick, driver
<1>8. CASE Helper
  <2>1. ASSUME NEW f \in Frames, Write(f), UNCHANGED queued PROVE Stays
    <3>1. ~torn /\ pipe' = Append(pipe, f) /\ torn' \in BOOLEAN
      BY <2>1 DEF Write
    <3>2. Legible(pipe, torn) => Legible(Append(pipe, f), torn')
      BY <1>0, <3>1, WireTells
    <3>3. Told(queued) \/ Legible(Append(pipe, f), torn')
      BY <1>0, <3>2
    <3>4. (Told(queued) \/ Legible(pipe, torn))'
      BY <2>1, <3>1, <3>3
    <3>5. Waiting'
      BY <3>4 DEF Waiting, Told, Legible, Endings
    <3>6. QED BY <3>5 DEF Stays
  <2>2. CASE HelperAnswers
    <3>1. PICK id \in Requests, b \in Bodies : Write(Reply(id, b))
      BY <2>2 DEF HelperAnswers, Typed, Bodies
    <3>2. QED BY <2>1, <2>2, <3>1 DEF HelperAnswers, Frames, driver
  <2>3. CASE HelperApproves
    <3>1. Done("mine", TRUE) \in Frames
      BY Lines
    <3>2. Write(Done("mine", TRUE)) /\ UNCHANGED queued
      BY <2>3 DEF HelperApproves, driver
    <3>3. QED BY <2>1, <3>1, <3>2
  <2>4. CASE HelperNotifies
    <3>1. {Done("mine", FALSE), Done("another", TRUE), Other, Garbage} \subseteq Frames
      BY Lines
    <3>2. PICK f \in {Done("mine", FALSE), Done("another", TRUE), Other, Garbage} : Write(f)
      BY <2>4 DEF HelperNotifies
    <3>3. UNCHANGED queued
      BY <2>4 DEF HelperNotifies, driver
    <3>4. QED BY <2>1, <3>1, <3>2, <3>3
  <2>5. ASSUME UNCHANGED queued, torn' = FALSE,
               pipe' = IF torn THEN [pipe EXCEPT ![Len(pipe)] = Garbage] ELSE pipe
        PROVE  Stays
    <3>1. Told(queued) \/ Legible(pipe', FALSE)
      BY <1>0, <2>5, WireTells
    <3>2. (Told(queued) \/ Legible(pipe, torn))'
      BY <2>5, <3>1
    <3>3. Waiting'
      BY <3>2 DEF Waiting, Told, Legible, Endings
    <3>4. QED BY <3>3 DEF Stays
  <2>6. CASE HelperExits
    BY <2>5, <2>6 DEF HelperExits, driver
  <2>7. CASE HelperFinishesLine
    <3>1. Told(queued) \/ Legible(pipe, FALSE)
      BY <1>0, WireTells
    <3>2. (Told(queued) \/ Legible(pipe, torn))'
      BY <2>7, <3>1 DEF HelperFinishesLine, driver
    <3>3. Waiting'
      BY <3>2 DEF Waiting, Told, Legible, Endings
    <3>4. QED BY <3>3 DEF Stays
  <2>8. CASE AccountChanges
    BY <2>8, StandsStays DEF AccountChanges, driver
  <2>9. QED BY <1>8, <2>2, <2>3, <2>4, <2>6, <2>7, <2>8 DEF Helper
<1>9. CASE UNCHANGED vars
  BY <1>9, StandsStays DEF vars, driver
<1>10. QED
  BY <1>1, <1>2, <1>3, <1>4, <1>5, <1>6, <1>7, <1>8, <1>9 DEF Next, CallStep

\* A completion of this login is never lost while its helper is kept: it stays, whatever
\* call times out, is dropped or reads other things, until a poll ends its wait or the full
\* queue has no room (codex.rs:322).
THEOREM ApprovalsAreKept == Spec => ApprovalIsKept
<1>1. Flags /\ Typed /\ [Next]_vars =>
        (Waiting /\ handshake /\ handshake' =>
           \/ Waiting'
           \/ stage = "note" /\ stage' # "note"
           \/ stage = "reply" /\ Full /\ result' = "protocol")
  BY ApprovalStays DEF Stays
<1>2. QED BY <1>1, TypesHold, PTL DEF Spec, ApprovalIsKept

\* A poll that began with an end of the login to be read has it still, and spent no time.
Heard == stage = "note" /\ heard => Waiting /\ elapsed = 0

\* With it there to be read, a poll has something to do.
LEMMA WaitingIsReady ==
  ASSUME Flags, Typed, Waiting, stage = "note"
  PROVE  Ready
<1>1. pipe \in Seq(Frames) /\ queued \in Seq(Notes) /\ torn \in BOOLEAN
  BY DEF Typed, Flags
<1>2. CASE Told(queued)
  BY <1>1, <1>2, QueueTells DEF Ready
<1>3. CASE Legible(pipe, torn)
  BY <1>1, <1>3, WireTells DEF Ready, LineReady
<1>4. QED BY <1>2, <1>3, WaitingIs

\* What a step leaves of the wait of a poll: its clock stands unless the step waits, and
\* what it heard is what it heard.
LEMMA PollGoesOn ==
  ASSUME Typed, [Next]_vars, stage' = "note"
  PROVE  \/ Poll
         \/ stage = "note" /\ heard' = heard /\ (Tick \/ elapsed' = elapsed)
<1>1. ASSUME Application PROVE Poll
  <2>1. ASSUME NEW e, NEW rest, Fail(e, rest) PROVE FALSE
    BY <2>1 DEF Fail, Return
  <2>2. ~Start /\ ~Cancel /\ ~Account
    BY DEF Start, Cancel, Idle, caller, Account
  <2>3. \A e \in {"cancelled", "spawn"} : ~StartFails(e)
    BY DEF StartFails
  <2>4. \A c \in {"poll", "account"} : ~Refused(c)
    BY DEF Refused
  <2>5. \A read \in BOOLEAN : ~DropCall(read)
    BY <2>1 DEF DropCall
  <2>6. QED BY <1>1, <2>2, <2>3, <2>4, <2>5 DEF Application
<1>2. ASSUME ReadReply PROVE FALSE
  BY <1>2 DEF ReadReply, Answered, Fail, Return, caller
<1>3. ASSUME ReadEnd \/ TimerFires PROVE FALSE
  BY <1>3 DEF ReadEnd, TimerFires, Fail, Return
<1>4. ASSUME PollQueued \/ PollLine PROVE stage = "note" /\ heard' = heard /\ elapsed' = elapsed
  BY <1>4 DEF PollQueued, PollLine, TakeNote, Return, Await, history
<1>5. ASSUME Tick PROVE stage = "note" /\ heard' = heard
  BY <1>5 DEF Tick, history
<1>6. ASSUME Helper PROVE stage = "note" /\ heard' = heard /\ elapsed' = elapsed
  BY <1>6 DEF Helper, HelperAnswers, HelperApproves, HelperNotifies, HelperFinishesLine,
              HelperExits, AccountChanges, caller, history
<1>7. ASSUME UNCHANGED vars PROVE stage = "note" /\ heard' = heard /\ elapsed' = elapsed
  BY <1>7 DEF vars, caller, history
<1>8. QED BY <1>1, <1>2, <1>3, <1>4, <1>5, <1>6, <1>7 DEF Next, CallStep

\* A poll only gives up after its whole wait: not with the queue or the wire telling the
\* end of the login since it began.
LEMMA TimeoutMissesNothing ==
  ASSUME Flags, Typed, Heard, [Next]_vars,
         stage = "note", stage' = "idle", result' = "timeout"
  PROVE  ~heard
<1> SUFFICES ASSUME heard PROVE FALSE
  OBVIOUS
<1>1. Waiting /\ elapsed = 0 /\ Ready /\ ~Idle
  BY WaitingIsReady DEF Heard, Idle
<1>2. ApprovalDeadline > 0 /\ ~(elapsed >= ApprovalDeadline)
  BY <1>1, LoginConstants DEF LoginConstants
<1>3. ASSUME NEW f, TakeNote(f) PROVE FALSE
  BY <1>2, <1>3 DEF TakeNote, Return, Await
<1>4. ASSUME Application PROVE FALSE
  <2>1. ASSUME NEW read \in BOOLEAN, DropCall(read) PROVE FALSE
    BY <2>1 DEF DropCall, Fail, Return
  <2>2. QED BY <1>1, <1>4, <2>1
            DEF Application, StartFails, Start, Refused, Poll, Account, Cancel, Called
<1>5. ~ReadReply /\ ~TimerFires /\ ~Tick
  BY <1>1 DEF ReadReply, TimerFires, Tick
<1>6. ~PollQueued
  BY <1>3 DEF PollQueued
<1>7. ~PollLine
  BY <1>3 DEF PollLine, Return
<1>8. ~ReadEnd
  BY DEF ReadEnd, Fail, Return
<1>9. ASSUME Helper \/ UNCHANGED vars PROVE FALSE
  BY <1>9 DEF Helper, HelperAnswers, HelperApproves, HelperNotifies, HelperFinishesLine,
              HelperExits, AccountChanges, caller, vars
<1>10. QED BY <1>4, <1>5, <1>6, <1>7, <1>8, <1>9 DEF Next, CallStep

\* A poll that found no approval in time has not overlooked one that was there when it
\* began: the queue is looked at first, and time stands while there is something to read.
THEOREM ApprovalsAreSeen == Spec => ApprovalIsNotMissed
<1>1. Init => Heard
  BY DEF Init, Heard
<1>2. Flags /\ Typed /\ Heard /\ [Next]_vars => Heard'
  <2> SUFFICES ASSUME Flags, Typed, Heard, [Next]_vars, stage' = "note", heard'
               PROVE  Waiting' /\ elapsed' = 0
    BY DEF Heard
  <2>1. CASE Poll
    BY <2>1 DEF Poll, Called, Waiting, driver, output
  <2>2. CASE stage = "note" /\ heard' = heard /\ (Tick \/ elapsed' = elapsed)
    <3>1. heard /\ Waiting /\ elapsed = 0
      BY <2>2 DEF Heard
    <3>2. ~Tick
      BY <2>2, <3>1, WaitingIsReady DEF Tick
    <3>3. Stays
      BY <3>1, ApprovalStays
    <3>4. QED BY <2>2, <3>1, <3>2, <3>3 DEF Stays
  <2>3. QED BY <2>1, <2>2, PollGoesOn
<1>3. Flags /\ Typed /\ Heard /\ [Next]_vars =>
        (stage = "note" /\ stage' = "idle" /\ result' = "timeout" => ~heard)
  BY TimeoutMissesNothing
<1>4. QED BY <1>1, <1>2, <1>3, TypesHold, PTL DEF Spec, ApprovalIsNotMissed
===============================================================================
