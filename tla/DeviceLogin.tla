------------------------------ MODULE DeviceLogin ------------------------------
(***************************************************************************)
(* The device-code login (src/native/drivers/codex.rs): a driver that      *)
(* talks JSON-RPC lines with a helper process. The driver runs one call at *)
(* a time, and the application may drop a call at any await. The helper is *)
(* the environment: it answers in any order, late or never, sends          *)
(* notifications of this login and of others, lines that are no JSON and   *)
(* lines it has not finished writing, and may exit.                        *)
(*                                                                         *)
(* Time passes in ticks, and only while the running call has nothing to    *)
(* do: the runtime is quick compared with the seconds of the timeouts.     *)
(***************************************************************************)
EXTENDS Integers, Sequences, FiniteSets

CONSTANTS
  CallTimeout,       \* call_timeout, in ticks
  ApprovalDeadline,  \* approval_deadline, in ticks
  MaxQueued,         \* MAX_QUEUED_NOTES
  MaxCalls,          \* bound: calls of the application, cancel apart
  MaxFrames          \* bound: lines the helper writes

ASSUME LoginConstants ==
  /\ CallTimeout \in Nat \ {0} /\ ApprovalDeadline \in Nat \ {0}
  /\ MaxQueued \in Nat /\ MaxCalls \in Nat /\ MaxFrames \in Nat

VARIABLES
  cancelled,
  handshake,  \* a helper is installed: start succeeded since the last shutdown
  next_id, queued,          \* of the live helper
  call, stage, timer,       \* the running call, what it awaits, what is left
  elapsed, result,          \* ticks since it began; what the last one returned
  alive, signedIn, asked,   \* the helper, the vendor's account, open requests
  pipe, torn,               \* its output; the last line is still being written
  calls, frames,            \* what counts against the bounds
  approved, fresh, heard    \* history, read by the properties alone

driver  == <<cancelled, handshake, next_id, queued>>
caller  == <<call, stage, timer, elapsed, result>>
helper  == <<alive, signedIn, asked>>
output  == <<pipe, torn>>
bounds  == <<calls, frames>>
history == <<approved, fresh, heard>>
vars    == <<driver, caller, helper, output, bounds, history>>

Requests == 1..MaxCalls
Reply(id, body)      == [kind |-> "reply", id |-> id, body |-> body]
Done(login, success) == [kind |-> "done", login |-> login, success |-> success]
Other   == [kind |-> "note"]     \* any other notification
Garbage == [kind |-> "garbage"]  \* not JSON, or the rest of a line half read
Bodies  == {"challenge", "unfit", "label", "blank", "error"}
Notes   == {Done(l, s) : l \in {"mine", "another"}, s \in BOOLEAN} \cup {Other}
Frames  == Notes \cup {Garbage} \cup {Reply(id, b) : id \in Requests, b \in Bodies}
Results == {"none", "cancelled", "closed", "spawn", "timeout", "protocol",
            "invalid", "dropped", "challenge", "authenticated", "failed",
            "connected", "signed_out"}

Init ==
  /\ cancelled = FALSE /\ handshake = FALSE /\ next_id = 0 /\ queued = <<>>
  /\ call = "none" /\ stage = "idle" /\ timer = 0 /\ elapsed = 0 /\ result = "none"
  /\ alive = FALSE /\ signedIn = FALSE /\ asked = {}
  /\ pipe = <<>> /\ torn = FALSE /\ calls = 0 /\ frames = 0
  /\ approved = FALSE /\ fresh = FALSE /\ heard = FALSE

--------------------------------------------------------------------------------
(* What calls share *)

Idle == stage = "idle"

\* The helper's next line can be read, or the end of its output. What it wrote
\* before it exited is read first.
LineReady == pipe # <<>> /\ (Len(pipe) > 1 \/ ~torn)
AtEnd     == pipe = <<>> /\ ~alive
Ready     == LineReady \/ AtEnd \/ (stage = "note" /\ queued # <<>>)

Least(a, b) == IF a < b THEN a ELSE b

\* The call returns r; nothing runs until the next one.
Return(r) ==
  /\ stage' = "idle" /\ result' = r /\ timer' = 0
  /\ UNCHANGED <<call, elapsed>>

\* The call waits for the next of what, for at most limit.
Await(what, limit) ==
  /\ stage' = what /\ timer' = limit
  /\ UNCHANGED <<call, elapsed, result>>

\* A reader that gives up half way through a line loses what it read of it.
Abandoned == IF pipe = <<>> THEN pipe ELSE [pipe EXCEPT ![1] = Garbage]

\* shutdown, and kill_on_drop for a helper that start never installed.
Kill ==
  /\ handshake' = FALSE /\ next_id' = 0 /\ queued' = <<>>
  /\ alive' = FALSE /\ asked' = {} /\ pipe' = <<>> /\ torn' = FALSE
  /\ UNCHANGED signedIn

\* An error ends the call; start then also ends the helper it spawned.
Fail(e, rest) ==
  /\ Return(e)
  /\ IF call = "start" THEN Kill
     ELSE /\ pipe' = rest
          /\ UNCHANGED <<handshake, next_id, queued, alive, signedIn, asked, torn>>

\* The first thing a call does: begin it, whatever comes of it.
Called(c) ==
  /\ Idle /\ calls < MaxCalls /\ calls' = calls + 1
  /\ call' = c /\ elapsed' = 0
  /\ fresh' = signedIn

\* A completion of this login is there to be read.
Waiting ==
  \/ \E i \in 1..Len(queued) : queued[i] \in {Done("mine", s) : s \in BOOLEAN}
  \/ \E i \in 1..Len(pipe) :
       /\ pipe[i] \in {Done("mine", s) : s \in BOOLEAN}
       /\ ~(torn /\ i = Len(pipe))
       /\ \A j \in 1..(i - 1) : pipe[j] # Garbage

--------------------------------------------------------------------------------
(* The calls *)

\* start of a cancelled driver, or a helper that cannot be launched.
StartFails(e) ==
  /\ Called("start")
  /\ (e = "cancelled") = cancelled
  /\ stage' = "idle" /\ timer' = 0 /\ result' = e
  /\ IF cancelled
     THEN UNCHANGED <<handshake, next_id, queued, alive, signedIn, asked, pipe, torn>>
     ELSE Kill
  /\ UNCHANGED <<cancelled, frames, approved, heard>>

\* start ends the previous helper, spawns one and asks it for a challenge.
Start ==
  /\ Called("start") /\ ~cancelled
  /\ handshake' = FALSE /\ next_id' = 1 /\ queued' = <<>>
  /\ alive' = TRUE /\ asked' = {1} /\ pipe' = <<>> /\ torn' = FALSE
  /\ stage' = "reply" /\ timer' = CallTimeout
  /\ approved' = FALSE
  /\ UNCHANGED <<cancelled, result, signedIn, frames, heard>>

\* poll and account of a cancelled driver, or of one without a helper.
Refused(c) ==
  /\ Called(c)
  /\ cancelled \/ ~handshake
  /\ stage' = "idle" /\ timer' = 0
  /\ result' = IF cancelled THEN "cancelled" ELSE "closed"
  /\ UNCHANGED <<driver, helper, output, frames, approved, heard>>

\* mutant of Poll: notes that earlier calls read are taken for stale
PollAfresh ==
  /\ Called("poll") /\ ~cancelled /\ handshake
  /\ stage' = "note" /\ timer' = Least(ApprovalDeadline, CallTimeout)
  /\ queued' = <<>>
  /\ heard' = Waiting
  /\ UNCHANGED <<cancelled, handshake, next_id, helper, output, result, frames,
                 approved>>

Poll ==
  /\ Called("poll") /\ ~cancelled /\ handshake
  /\ stage' = "note" /\ timer' = Least(ApprovalDeadline, CallTimeout)
  /\ heard' = Waiting
  /\ UNCHANGED <<driver, helper, output, result, frames, approved>>

\* The request of account/read, and the wait for its answer. A helper that is
\* gone refuses the write.
Ask ==
  /\ next_id' = next_id + 1
  /\ asked' = IF alive THEN asked \cup {next_id + 1} ELSE asked

Account ==
  /\ Called("account") /\ ~cancelled /\ handshake
  /\ Ask
  /\ IF alive THEN stage' = "reply" /\ timer' = CallTimeout /\ UNCHANGED result
              ELSE stage' = "idle" /\ timer' = 0 /\ result' = "closed"
  /\ UNCHANGED <<cancelled, handshake, queued, alive, signedIn, output, frames,
                 approved, heard>>

\* The application cancels; it has no call under way then.
Cancel ==
  /\ Idle /\ ~cancelled
  /\ cancelled' = TRUE
  /\ Kill
  /\ UNCHANGED <<caller, bounds, history>>

\* The application drops a running call, with what the call had read of a line
\* when it got to read it. A start takes its helper with it.
DropCall(read) ==
  /\ ~Idle
  /\ Fail("dropped", IF read /\ ~LineReady THEN Abandoned ELSE pipe)
  /\ UNCHANGED <<cancelled, bounds, history>>

--------------------------------------------------------------------------------
(* round_trip: lines are read until the answer with the right id *)

IsAnswerAny(f) == f.kind = "reply"  \* mutant of IsAnswer: the id is not compared
IsAnswer(f) == f.kind = "reply" /\ f.id = next_id

Answered(body) ==
  \/ /\ body = "error" /\ Fail("protocol", Tail(pipe))
  \/ /\ call = "start" /\ body = "unfit" /\ Fail("invalid", Tail(pipe))
  \/ /\ call = "start" /\ body = "challenge"
     /\ Return("challenge")
     /\ handshake' = TRUE
     /\ pipe' = Tail(pipe)
     /\ UNCHANGED <<next_id, queued, helper, torn>>
  \/ /\ call # "start" /\ body \in {"label", "blank"}
     /\ Return(CASE call = "poll"    /\ body = "label" -> "authenticated"
                 [] call = "poll"    /\ body = "blank" -> "failed"
                 [] call = "account" /\ body = "label" -> "connected"
                 [] call = "account" /\ body = "blank" -> "signed_out")
     /\ pipe' = Tail(pipe)
     /\ UNCHANGED <<handshake, next_id, queued, helper, torn>>

QueueNothing(f) == UNCHANGED queued  \* mutant of Queue: a round trip skips notes
Queue(f) == queued' = Append(queued, f)

FullLate == Len(queued) > MaxQueued  \* mutant of Full: off by one
Full == Len(queued) >= MaxQueued

ReadReply ==
  /\ stage = "reply" /\ LineReady
  /\ LET f == Head(pipe) IN
     \/ f = Garbage /\ Fail("protocol", Tail(pipe))
     \/ IsAnswer(f) /\ Answered(f.body)
     \/ f \in Notes /\ Full /\ Fail("protocol", Tail(pipe))
     \/ /\ f \in Notes /\ ~Full
        /\ Queue(f)
        /\ pipe' = Tail(pipe)
        /\ UNCHANGED <<caller, handshake, next_id, helper, torn>>
     \/ /\ f.kind = "reply" /\ ~IsAnswer(f)   \* late: of a call that gave up
        /\ pipe' = Tail(pipe)
        /\ UNCHANGED <<caller, handshake, next_id, queued, helper, torn>>
  /\ UNCHANGED <<cancelled, bounds, history>>

--------------------------------------------------------------------------------
(* poll: notes are taken, those in the queue first, until one completes the login *)

WantedAny(f) == f.kind = "done"  \* mutant of Wanted: whatever login it is of
Wanted(f) == f.kind = "done" /\ f.login = "mine"

\* Round again: to the deadline, but for one note no longer than CallTimeout.
NextWaitFull == CallTimeout  \* mutant of NextWait: the deadline is not its limit
NextWait == Least(ApprovalDeadline - elapsed, CallTimeout)

TakeNote(f) ==
  \/ /\ ~Wanted(f)
     /\ IF elapsed >= ApprovalDeadline THEN Return("timeout") ELSE Await("note", NextWait)
     /\ UNCHANGED <<next_id, asked>>
  \/ /\ Wanted(f) /\ ~f.success
     /\ Return("failed")
     /\ UNCHANGED <<next_id, asked>>
  \/ /\ Wanted(f) /\ f.success
     /\ Ask
     /\ IF alive THEN Await("reply", CallTimeout) ELSE Return("closed")

PollQueued ==
  /\ stage = "note" /\ queued # <<>>
  /\ TakeNote(Head(queued))
  /\ queued' = Tail(queued)
  /\ UNCHANGED <<cancelled, handshake, alive, signedIn, output, bounds, history>>

PollLine ==
  /\ stage = "note" /\ queued = <<>> /\ LineReady
  /\ \/ Head(pipe) = Garbage /\ Return("protocol") /\ UNCHANGED <<next_id, asked>>
     \/ Head(pipe) # Garbage /\ TakeNote(Head(pipe))
  /\ pipe' = Tail(pipe)
  /\ UNCHANGED <<cancelled, handshake, queued, alive, signedIn, torn, bounds, history>>

--------------------------------------------------------------------------------
(* The end of the helper's output, and time *)

ReadEnd ==
  /\ ~Idle /\ AtEnd /\ ~(stage = "note" /\ queued # <<>>)
  /\ Fail("closed", pipe)
  /\ UNCHANGED <<cancelled, bounds, history>>

TimerFires ==
  /\ ~Idle /\ timer = 0 /\ ~Ready
  /\ Fail("timeout", Abandoned)
  /\ UNCHANGED <<cancelled, bounds, history>>

Tick ==
  /\ ~Idle /\ timer > 0 /\ ~Ready
  /\ timer' = timer - 1 /\ elapsed' = elapsed + 1
  /\ UNCHANGED <<driver, call, stage, result, helper, output, bounds, history>>

--------------------------------------------------------------------------------
(* The helper *)

\* A line, or the beginning of one.
Write(f) ==
  /\ alive /\ ~torn /\ frames < MaxFrames
  /\ frames' = frames + 1
  /\ pipe' = Append(pipe, f)
  /\ torn' \in BOOLEAN

\* A presence it reports is the vendor's at that time.
HelperAnswers ==
  \E id \in asked :
    /\ \E b \in IF id = 1 THEN {"challenge", "unfit", "error"}
                ELSE {"blank", "error"} \cup (IF signedIn THEN {"label"} ELSE {}) :
         Write(Reply(id, b))
    /\ asked' = asked \ {id}
    /\ UNCHANGED <<driver, caller, alive, signedIn, calls, history>>

\* A login is approved by the person and announced.
HelperApproves ==
  /\ Write(Done("mine", TRUE))
  /\ signedIn' = TRUE /\ approved' = TRUE
  /\ fresh' = (fresh \/ ~Idle)
  /\ UNCHANGED <<driver, caller, alive, asked, calls, heard>>

HelperNotifies ==
  /\ \E f \in {Done("mine", FALSE), Done("another", TRUE), Other, Garbage} : Write(f)
  /\ UNCHANGED <<driver, caller, helper, calls, history>>

HelperFinishesLine ==
  /\ alive /\ torn
  /\ torn' = FALSE
  /\ UNCHANGED <<driver, caller, helper, pipe, bounds, history>>

\* What it had not finished is no line.
HelperExits ==
  /\ alive
  /\ alive' = FALSE /\ asked' = {}
  /\ torn' = FALSE
  /\ pipe' = IF torn THEN [pipe EXCEPT ![Len(pipe)] = Garbage] ELSE pipe
  /\ UNCHANGED <<driver, caller, signedIn, bounds, history>>

\* The account is connected or disconnected elsewhere.
AccountChanges ==
  /\ signedIn' = ~signedIn
  /\ fresh' = (fresh \/ (~Idle /\ signedIn'))
  /\ UNCHANGED <<driver, caller, alive, asked, output, bounds, approved, heard>>

--------------------------------------------------------------------------------
CallStep == ReadReply \/ PollQueued \/ PollLine \/ ReadEnd \/ TimerFires

Application ==
  \/ \E e \in {"cancelled", "spawn"} : StartFails(e)
  \/ \E c \in {"poll", "account"} : Refused(c)
  \/ Start \/ Poll \/ Account \/ Cancel
  \/ \E read \in BOOLEAN : DropCall(read)

Helper ==
  \/ HelperAnswers \/ HelperApproves \/ HelperNotifies
  \/ HelperFinishesLine \/ HelperExits \/ AccountChanges

Next == CallStep \/ Tick \/ Application \/ Helper

Spec == Init /\ [][Next]_vars

\* The runtime runs the call whenever it can go on, and its timers are served.
\* Nothing is assumed of the helper or of the application.
LiveSpec == Spec /\ WF_vars(CallStep) /\ WF_vars(Tick)

--------------------------------------------------------------------------------
(* Properties *)

TypeOK ==
  /\ cancelled \in BOOLEAN /\ handshake \in BOOLEAN
  /\ next_id \in 0..MaxCalls /\ queued \in Seq(Notes) /\ Len(queued) <= MaxQueued
  /\ call \in {"none", "start", "poll", "account"}
  /\ stage \in {"idle", "reply", "note"}
  /\ timer \in 0..CallTimeout
  /\ elapsed \in Nat
  /\ result \in Results
  /\ alive \in BOOLEAN /\ signedIn \in BOOLEAN /\ asked \subseteq Requests
  /\ pipe \in Seq(Frames) /\ torn \in BOOLEAN
  /\ calls \in 0..MaxCalls /\ frames \in 0..MaxFrames
  /\ approved \in BOOLEAN /\ fresh \in BOOLEAN /\ heard \in BOOLEAN

\* poll reports Authenticated ("the vendor reports a connected account",
\* mod.rs:184) only when the person approved the login of this very attempt,
\* whatever the helper announced of other logins and of earlier attempts.
ApprovedIsMine == Idle /\ result = "authenticated" => approved

\* The presence poll and account report was the vendor's at some time during
\* the call: never the answer to a read that an earlier call gave up on.
PresenceIsFresh == Idle /\ result \in {"authenticated", "connected"} => fresh

\* The timeouts bound the call as a whole, however many other lines the helper
\* writes meanwhile: one call_timeout for start and account (codex.rs:125-128),
\* the approval deadline and one more call_timeout for poll.
CallsAreBounded ==
  ~Idle => elapsed <= IF call = "poll" THEN ApprovalDeadline + CallTimeout
                                       ELSE CallTimeout

\* A poll that found no approval in time has not overlooked one that was there
\* when it began: the queue holds what earlier calls read, and is looked at.
ApprovalIsNotMissed ==
  [][stage = "note" /\ stage' = "idle" /\ result' = "timeout" => ~heard]_vars

\* A complete line that announces the end of this login stays to be read until a
\* poll takes it, as long as the helper is kept: calls that time out, are dropped
\* or read other things leave it there. Lost is only the notification for which
\* the full queue has no room.
ApprovalIsKept ==
  [][Waiting /\ handshake /\ handshake' =>
       \/ Waiting'
       \/ stage = "note" /\ stage' # "note"
       \/ stage = "reply" /\ Full /\ result' = "protocol"]_vars

\* Every call returns, whatever the helper does or does not do.
EveryCallReturns == ~Idle ~> Idle

\* with_approval_deadline sets "how long poll waits for browser approval"
\* (codex.rs:134), and call_timeout does not apply to that wait
\* (codex.rs:127-128): a poll that waits in vain waits that long.
PollWaitsForApproval ==
  [][stage = "note" /\ stage' = "idle" /\ result' = "timeout"
       => elapsed = ApprovalDeadline]_vars
===============================================================================
