------------------------------- MODULE Client -------------------------------
(***************************************************************************)
(* A client running on a connection: client.rs, client/logic.rs and the    *)
(* run loops of client/conn/sync.rs and client/conn/tokio.rs, with the     *)
(* time limits of client/conn/time.rs.  It composes the handler table      *)
(* (Handlers) and the rate-limited queue (Queue).                          *)
(*                                                                         *)
(* `sync` tells the flavour, which never changes: a blocking connection    *)
(* whose read timeout is a setting of the socket that stays until it is    *)
(* changed, or a Tokio one where the timeout is part of each read.         *)
(*                                                                         *)
(* A server message is two fragments, 2m-1 and 2m, so that a read can end  *)
(* in the middle of it: 2m-1 is any part of its line without the end, in   *)
(* any number of pieces, and 2m is the rest.  On the wire, n is the whole  *)
(* line of message n, and Part(n) a part of it without the end.  Queue     *)
(* guards are opened, used and dropped within one call of a handler, which *)
(* is one step.                                                            *)
(***************************************************************************)
EXTENDS Integers, Sequences

CONSTANTS
  Handler, Delays, Bursts, MaxInstant, MaxDuration, MaxTime, MaxMsgs,
  Owning,       \* what wants_owning may say, which changes no step of run
  Flavours,     \* the values of sync, a subset of BOOLEAN
  ReadLimits,   \* the read timeouts that are set, Options
  WriteLimits,  \* the write timeouts that are set, Options
  ClockRuns,    \* "always", or only "waiting", while something waits for it
  CancelAt,     \* where the future of `run_tokio` may be dropped
  MaxIn,        \* bound: server messages, one fewer on each later connection
  MaxConns,     \* bound: connections
  MaxWire       \* bound: length of wire after a write is dropped

VARIABLES
  \* Handlers
  handlers, yielded, finished, wants_owning, pc, i, finished_at, present, log,
  \* Queue
  queue, delay, sub, timepoint, labeler, labelers, adjuster, guards, pushed,
  now, panicked,
  \* Client and TimeLimits
  read_limit, write_limit, update_write, on_timeout, buf_i, buf_o,
  sync,            \* TRUE: `run`, FALSE: `run_tokio`
  \* locals of run, flush_partial and TimeLimitedSync
  at,              \* where the program is; "out" is outside of run
  trailing,        \* whether flush_partial is the one before returning
  wait_for, deadline, rto_from_queue,
  until,           \* when the thread wakes up by itself, an Option
  began,           \* history: when the current read began
  \* the connection
  sock_rto, sock_wto,  \* the socket's timeouts
  taken,           \* fragments taken from it
  wire,            \* the lines, and parts of lines, written to it
  conns, dead,     \* how many there were; whether this one has failed
  handled,         \* history: messages of this connection given to handlers
  base             \* history: messages pushed before this connection

Q == INSTANCE Queue WITH MaxGuards <- 0, MaxLabelers <- 0, Adjusting <- {},
                         LabelModulus <- 2
H == INSTANCE Handlers

hvars == <<handlers, yielded, finished, wants_owning, pc, i, finished_at,
           present, log>>
qvars == <<queue, delay, sub, timepoint, labeler, labelers, adjuster, guards,
           pushed, now, panicked>>
cvars == <<read_limit, write_limit, update_write, on_timeout, sync>>
bufs == <<buf_i, buf_o>>
locals == <<at, trailing, wait_for, deadline, rto_from_queue, until, began>>
conn == <<sock_rto, sock_wto, taken, wire, conns, dead, handled, base>>
vars == <<hvars, qvars, cvars, bufs, locals, conn>>

None == << >>
Some(x) == <<x>>
Part(n) == -n
-----------------------------------------------------------------------------
Init ==
  /\ H!Init
  /\ Q!Init
  /\ read_limit = None /\ write_limit = None
  /\ update_write = FALSE /\ on_timeout = FALSE
  /\ sync \in Flavours
  /\ buf_i = << >> /\ buf_o = << >>
  /\ at = "out" /\ trailing = FALSE
  /\ wait_for = None /\ deadline = None /\ rto_from_queue = FALSE
  /\ until = None /\ began = 0
  /\ sock_rto = None /\ sock_wto = None
  /\ taken = 0
  /\ wire = << >>
  /\ conns = 1 /\ dead = FALSE
  /\ handled = 0 /\ base = 0

(* What a handler, or anyone else with a guard, may do to the queue. *)
Queueing == Q!Extend \/ UNCHANGED qvars

(* Between runs the user owns the client. *)
Idle == at = "out" /\ ~dead

(* add_with_sender: make_handler may queue messages, then the handler is   *)
(* added.                                                                  *)
AddHandler == Queueing /\ \E h \in Handler, owning \in Owning : H!Add(h, owning)
AddWithSender ==
  /\ Idle
  /\ AddHandler
  /\ UNCHANGED <<cvars, bufs, locals, conn>>

(* queue_mut, or a make_handler that fails after it has queued messages. *)
QueueMut ==
  /\ Idle
  /\ \/ Q!Extend
     \/ \E d \in Delays, b \in Bursts : Q!SetRateLimit(d, b)
  /\ UNCHANGED <<hvars, cvars, bufs, locals, conn>>

(* TimeLimits: a limit below a second, the unit of time, is a second. *)
Clamp(limit) == IF limit = Some(0) THEN Some(1) ELSE limit

SetReadTimeout(r) ==
  /\ Idle
  /\ read_limit' = Clamp(r)
  /\ UNCHANGED <<hvars, qvars, write_limit, update_write, on_timeout, sync, bufs,
                 locals, conn>>

SetWriteTimeout(w) ==
  /\ Idle
  /\ write_limit' = Clamp(w)
  /\ update_write' = TRUE
  /\ UNCHANGED <<hvars, qvars, read_limit, on_timeout, sync, bufs, locals, conn>>

SetTimeoutFn(f) ==
  /\ Idle
  /\ on_timeout' = f
  /\ UNCHANGED <<hvars, qvars, read_limit, write_limit, update_write, sync, bufs,
                 locals, conn>>

(* reset_with_conn: a new connection, and what MsgIo::reset and            *)
(* ClientLogic::reset forget.                                              *)
ResetWithConnTo(bi, bo) ==
  /\ at = "out"
  /\ conns < MaxConns
  /\ H!Cancel
  /\ Q!Reset
  /\ update_write' = TRUE
  /\ buf_i' = bi /\ buf_o' = bo
  /\ sock_rto' = None /\ sock_wto' = None
  /\ taken' = 0
  /\ wire' = << >>
  /\ conns' = conns + 1 /\ dead' = FALSE
  /\ handled' = 0 /\ base' = pushed
  /\ UNCHANGED <<read_limit, write_limit, on_timeout, sync, locals>>
ResetWithConn == ResetWithConnTo(<< >>, << >>)
-----------------------------------------------------------------------------
(* Steps within run.  `Goto` leaves the other locals alone. *)
Goto(l) ==
  /\ at' = l
  /\ UNCHANGED <<trailing, wait_for, deadline, rto_from_queue, until, began>>

StartFlush(last) ==
  /\ at' = "flush"
  /\ trailing' = last
  /\ wait_for' = None /\ deadline' = None /\ rto_from_queue' = FALSE
  /\ until' = None /\ began' = 0

(* run returns; its locals are gone. *)
Leave ==
  /\ at' = "out"
  /\ trailing' = FALSE
  /\ wait_for' = None /\ deadline' = None /\ rto_from_queue' = FALSE
  /\ until' = None /\ began' = 0

Run ==
  /\ Idle
  /\ StartFlush(FALSE)
  /\ UNCHANGED <<hvars, qvars, cvars, bufs, conn>>

AfterFlush == IF trailing THEN "return" ELSE "check"

(* flush_partial returns early, without writing, when nothing is queued. *)
FlushEnter ==
  /\ at = "flush"
  /\ Goto(IF queue = << >> THEN AfterFlush ELSE "popping")
  /\ UNCHANGED <<hvars, qvars, cvars, bufs, conn>>

FlushPop(t) ==
  /\ at = "popping"
  /\ Q!Pop(t)
  /\ buf_o' = Append(buf_o, Head(queue).n)
  /\ UNCHANGED <<hvars, cvars, buf_i, locals, conn>>

(* pop yields nothing more and tells how long to wait, if for anything. *)
FlushStopWith(wait) ==
  /\ at = "popping"
  /\ Q!PopRefused \/ (queue = << >> /\ UNCHANGED qvars)
  /\ at' = "writing"
  /\ wait_for' = wait
  /\ UNCHANGED <<trailing, deadline, rto_from_queue, until, began>>
  /\ UNCHANGED <<hvars, cvars, bufs, conn>>
FlushStopForgets == FlushStopWith(None)  \* mutated: the wait is dropped
FlushStop ==
  FlushStopWith(IF queue = << >> THEN None ELSE Some(Q!WaitAt(now)))

WriteAll ==
  /\ at = "writing"
  /\ wire' = wire \o buf_o
  /\ buf_o' = << >>
  /\ Goto("flushing")
  /\ UNCHANGED <<hvars, qvars, cvars, buf_i>>
  /\ UNCHANGED <<sock_rto, sock_wto, taken, conns, dead, handled, base>>

(* flush of the connection: what it has buffered is still on the wire of   *)
(* the model, as no later write can come before it.                        *)
Flush ==
  /\ at = "flushing"
  /\ Goto(AfterFlush)
  /\ UNCHANGED <<hvars, qvars, cvars, bufs, conn>>

(* write_all or flush fails: what was popped is lost, by contract, and so  *)
(* are results that were about to be returned.                             *)
WriteFails ==
  /\ at \in {"writing", "flushing"}
  /\ buf_o' = << >>
  /\ dead' = TRUE
  /\ Leave
  /\ IF trailing THEN H!TakeResults ELSE UNCHANGED hvars
  /\ UNCHANGED <<qvars, cvars, buf_i>>
  /\ UNCHANGED <<sock_rto, sock_wto, taken, wire, conns, handled, base>>
-----------------------------------------------------------------------------
(* No handlers: sleep until the queue may move, or return. *)
FinishFlush ==
  /\ at = "check"
  /\ handlers = << >>
  /\ wait_for = None
  /\ Leave
  /\ UNCHANGED <<hvars, qvars, cvars, bufs, conn>>

Sleep ==
  /\ at = "check"
  /\ handlers = << >>
  /\ wait_for # None
  /\ at' = "sleep"
  /\ until' = Some(now + wait_for[1])
  /\ UNCHANGED <<trailing, wait_for, deadline, rto_from_queue, began>>
  /\ UNCHANGED <<hvars, qvars, cvars, bufs, conn>>

WakeUp ==
  /\ at = "sleep"
  /\ now >= until[1]
  /\ StartFlush(FALSE)
  /\ UNCHANGED <<hvars, qvars, cvars, bufs, conn>>

(* timeout_fallback: the queue's wait takes the place of the read limit. *)
Fallback == IF wait_for # None THEN wait_for ELSE read_limit
ConstrainedNever == FALSE  \* mutated: every timeout is a read timeout
Constrained == wait_for # None

(* TimeLimitedSync::new, and what timed_io does before it first polls.  A  *)
(* deadline beyond what an Instant can hold is none: checked_add fails, and *)
(* Tokio puts it decades away.                                             *)
DeadlineFrom(limit) ==
  IF limit = None \/ now + limit[1] > MaxInstant THEN None
  ELSE Some(now + limit[1])
BeginRead ==
  /\ at = "check"
  /\ handlers # << >>
  /\ at' = "reading"
  /\ deadline' = DeadlineFrom(Fallback)
  /\ rto_from_queue' = Constrained
  /\ began' = now
  /\ sock_wto' = IF sync /\ update_write THEN write_limit ELSE sock_wto
  /\ update_write' = (update_write /\ ~sync)
  /\ UNCHANGED <<trailing, wait_for, until>>
  /\ UNCHANGED <<hvars, qvars, read_limit, write_limit, on_timeout, sync, bufs>>
  /\ UNCHANGED <<sock_rto, taken, wire, conns, dead, handled, base>>

(* set_write_timeout fails in TimeLimitedSync::new: it is still to be set. *)
BeginReadFails ==
  /\ at = "check"
  /\ handlers # << >>
  /\ sync /\ update_write
  /\ dead' = TRUE
  /\ Leave
  /\ UNCHANGED <<hvars, qvars, cvars, bufs>>
  /\ UNCHANGED <<sock_rto, sock_wto, taken, wire, conns, handled, base>>

(* update_timeout: no deadline leaves the socket's timeout as it is, and   *)
(* one that has passed is an error at once.  Tokio polls, then waits.      *)
Expired == sync /\ deadline # None /\ now >= deadline[1]
NewSockRto ==
  IF sync /\ deadline # None THEN Some(deadline[1] - now) ELSE sock_rto
PollUntil(limit) ==
  /\ at = "reading"
  /\ ~Expired
  /\ deadline' = limit
  /\ sock_rto' = NewSockRto
  /\ until' = IF ~sync THEN limit
              ELSE IF NewSockRto = None THEN None
              ELSE Some(now + NewSockRto[1])
  /\ at' = "blocked"
  /\ UNCHANGED <<trailing, wait_for, rto_from_queue, began>>
  /\ UNCHANGED <<hvars, qvars, cvars, bufs>>
  /\ UNCHANGED <<sock_wto, taken, wire, conns, dead, handled, base>>
PollRestarts ==        \* mutated: the limit is for each piece that is read
  PollUntil(DeadlineFrom(Fallback))
Poll == PollUntil(deadline)

ReadExpires ==
  /\ at = "reading"
  /\ Expired
  /\ Goto("timedout")
  /\ UNCHANGED <<hvars, qvars, cvars, bufs, conn>>

(* external: bytes arrive.  The end of a line ends the read, anything else *)
(* is kept in buf_i and read_until asks for more.                          *)
ReadFragment ==
  /\ at = "blocked"
  /\ taken < 2 * (MaxIn + 1 - conns)
  /\ taken' = taken + 1
  /\ buf_i' = Append(buf_i, taken + 1)
  /\ Goto(IF (taken + 1) % 2 = 0 THEN "dispatch" ELSE "reading")
  /\ UNCHANGED <<hvars, qvars, cvars, buf_o>>
  /\ UNCHANGED <<sock_rto, sock_wto, wire, conns, dead, handled, base>>

(* More of the line that is in buf_i, or, if there is none, an empty line, *)
(* which read_buf drops: the read goes on, as often as the server likes.   *)
ReadMore ==
  /\ at = "blocked"
  /\ Goto("reading")
  /\ UNCHANGED <<hvars, qvars, cvars, bufs, conn>>

ReadTimesOut ==
  /\ at = "blocked"
  /\ until # None
  /\ now >= until[1]
  /\ Goto("timedout")
  /\ UNCHANGED <<hvars, qvars, cvars, bufs, conn>>

(* The connection is closed or broken, or the line does not parse; or the  *)
(* socket refuses the read timeout.                                        *)
ReadFails ==
  /\ at = "blocked" \/ (at = "reading" /\ sync /\ deadline # None /\ ~Expired)
  /\ dead' = TRUE
  /\ Leave
  /\ UNCHANGED <<hvars, qvars, cvars, bufs>>
  /\ UNCHANGED <<sock_rto, sock_wto, taken, wire, conns, handled, base>>
-----------------------------------------------------------------------------
QueueTurn ==
  /\ at = "timedout"
  /\ rto_from_queue
  /\ StartFlush(FALSE)
  /\ UNCHANGED <<hvars, qvars, cvars, bufs, conn>>

(* Ok(None), as there is no on_timeout. *)
ReturnTimeout ==
  /\ at = "timedout"
  /\ ~rto_from_queue
  /\ ~on_timeout
  /\ Leave
  /\ UNCHANGED <<hvars, qvars, cvars, bufs, conn>>

(* on_timeout has the logic in its hands, and says to continue or not. *)
CallOnTimeout ==
  /\ at = "timedout"
  /\ ~rto_from_queue
  /\ on_timeout
  /\ AddHandler \/ (Queueing /\ UNCHANGED hvars)
  /\ StartFlush(FALSE) \/ Leave
  /\ UNCHANGED <<cvars, bufs, conn>>

(* ClientLogic::run_once and what follows it; here without an adjuster. *)
RunOnce ==
  /\ at = "dispatch"
  /\ H!HandleBegin
  /\ Goto("handling")
  /\ UNCHANGED <<qvars, cvars, bufs, conn>>

RunHandler ==
  /\ at = "handling"
  /\ \/ \E yields \in BOOLEAN, owning \in Owning : H!HandleKeep(yields, owning)
     \/ \E yields \in BOOLEAN : H!HandleDone(yields)
  /\ Queueing
  /\ UNCHANGED <<cvars, bufs, locals, conn>>

RunOnceLeaving(bi) ==
  /\ at = "handling"
  /\ H!HandleEnd
  /\ buf_i' = bi
  /\ handled' = handled + 1
  /\ Goto("handled")
  /\ UNCHANGED <<qvars, cvars, buf_o>>
  /\ UNCHANGED <<sock_rto, sock_wto, taken, wire, conns, dead, base>>
RunOnceKeepsInput == RunOnceLeaving(buf_i)  \* mutated: buf_i is not cleared
RunOnceEnds == RunOnceLeaving(<< >>)

NoResults ==
  /\ at = "handled"
  /\ ~H!HasResults
  /\ H!TakeResults
  /\ StartFlush(FALSE)
  /\ UNCHANGED <<qvars, cvars, bufs, conn>>

HaveResults ==
  /\ at = "handled"
  /\ H!HasResults
  /\ StartFlush(TRUE)
  /\ UNCHANGED <<hvars, qvars, cvars, bufs, conn>>

ReturnResults ==
  /\ at = "return"
  /\ H!TakeResults
  /\ Leave
  /\ UNCHANGED <<qvars, cvars, bufs, conn>>

(* The caller drops the future of run_tokio while it awaits.  A write that *)
(* is dropped may have sent any number of the bytes of buf_o, and may have *)
(* stopped inside a line; buf_o is not cleared.                            *)
Unfinished ==
  {SubSeq(buf_o, 1, k) : k \in 0 .. Len(buf_o)}
    \cup {Append(SubSeq(buf_o, 1, k - 1), Part(buf_o[k])) : k \in DOMAIN buf_o}
CancelLeaving(left) ==
  /\ ~sync
  /\ at \in CancelAt \cap {"writing", "flushing", "sleep", "blocked"}
  /\ \E sent \in IF at = "writing" THEN Unfinished ELSE {<< >>} :
       wire' = wire \o sent
  /\ Len(wire') <= MaxWire
  /\ buf_o' = left
  /\ Leave
  /\ IF trailing THEN H!TakeResults ELSE UNCHANGED hvars
  /\ UNCHANGED <<qvars, cvars, buf_i>>
  /\ UNCHANGED <<sock_rto, sock_wto, taken, conns, dead, handled, base>>
CancelClears == CancelLeaving(<< >>)  \* mutated: buf_o is cleared first
Cancel == CancelLeaving(buf_o)
-----------------------------------------------------------------------------
(* external: the clock. *)
Waiting ==
  \/ at \in {"sleep", "blocked"} /\ until # None /\ now < until[1]
  \/ at = "reading" /\ deadline # None /\ now < deadline[1]
Tick ==
  /\ now < MaxTime
  /\ ClockRuns = "waiting" => Waiting
  /\ Q!Tick(now + 1)
  /\ UNCHANGED <<hvars, cvars, bufs, locals, conn>>

UserStep ==
  \/ AddWithSender
  \/ QueueMut
  \/ \E r \in ReadLimits : SetReadTimeout(r)
  \/ \E w \in WriteLimits : SetWriteTimeout(w)
  \/ \E f \in BOOLEAN : SetTimeoutFn(f)
  \/ ResetWithConn
  \/ Run

(* What run does by itself, failures aside. *)
RunStep ==
  \/ FlushEnter
  \/ \E t \in now .. (IF ClockRuns = "always" THEN MaxTime ELSE now) : FlushPop(t)
  \/ FlushStop \/ WriteAll \/ Flush
  \/ FinishFlush \/ Sleep \/ WakeUp
  \/ BeginRead \/ Poll \/ ReadExpires \/ ReadTimesOut
  \/ QueueTurn \/ ReturnTimeout \/ CallOnTimeout
  \/ RunOnce \/ RunHandler \/ RunOnceEnds
  \/ NoResults \/ HaveResults \/ ReturnResults

(* What the server, the socket and the caller of run_tokio do to it. *)
Environment ==
  \/ ReadFragment \/ ReadMore
  \/ WriteFails \/ BeginReadFails \/ ReadFails
  \/ Cancel

Next == UserStep \/ RunStep \/ Environment \/ Tick

Spec == Init /\ [][Next]_vars

(* The thread or task that called run is scheduled, a write that can       *)
(* complete does, and time passes.  A timeout that is due is noticed       *)
(* between the pieces the server sends, sooner or later: a task that       *)
(* always finds bytes to read exhausts its budget, and Tokio's timeout     *)
(* then looks at its timer.                                                *)
FairSpec ==
  Spec /\ WF_vars(RunStep) /\ WF_vars(Tick) /\ SF_vars(ReadTimesOut)
-----------------------------------------------------------------------------
Numbers == [k \in DOMAIN queue |-> queue[k].n]
Option == {None} \cup {Some(t) : t \in 0 .. MaxDuration}

(* Every variable has its type. *)
TypeOK ==
  /\ H!TypeOK /\ Q!TypeOK
  /\ {read_limit, write_limit, wait_for, deadline, until, sock_rto, sock_wto}
       \subseteq Option
  /\ {update_write, on_timeout, sync, trailing, rto_from_queue, dead}
       \subseteq BOOLEAN
  /\ at \in {"out", "flush", "popping", "writing", "flushing", "check",
             "sleep", "reading", "blocked", "timedout", "dispatch", "handling",
             "handled", "return"}
  /\ taken \in 0 .. 2 * MaxIn

(* Handlers are given every message of the connection, whole, once and in  *)
(* order, although a read may time out within a line (codec.rs:7-25,       *)
(* conn/sync.rs:306-329), and nothing of an earlier connection after       *)
(* reset_with_conn.                                                        *)
MessagesInOrder ==
  at = "dispatch" => buf_i = <<2 * handled + 1, 2 * handled + 2>>

(* Until a blocking connection fails, every message pushed since the last  *)
(* reset is in the queue, in buf_o or on the wire, once and in order:      *)
(* nothing is lost or sent twice between pop and write_all                 *)
(* (conn/sync.rs:344-360).                                                 *)
NothingLost ==
  sync /\ ~dead => wire \o buf_o \o Numbers = [k \in 1 .. pushed - base |-> base + k]

(* A future of run_tokio that is dropped while it writes may send messages *)
(* again, but none is forgotten: until the connection fails each is on the *)
(* wire, in buf_o or in the queue, and none is before an older one that is *)
(* there for the first time (conn/tokio.rs:216-234).  A line that was cut  *)
(* short is joined with the one that is written next, and both are lost to *)
(* the server; a message of which no copy is, or is going to be, a line of *)
(* its own is one whose own line was cut short.                            *)
NothingForgotten ==
  LET sends == wire \o buf_o \o Numbers
      OwnLine(k) == k = 1 \/ sends[k - 1] > 0
  IN ~dead =>
    \A n \in base + 1 .. pushed :
      /\ \E k \in DOMAIN sends :
           /\ sends[k] = n
           /\ \A m \in base + 1 .. n - 1 : \E j \in 1 .. k : sends[j] = m
      /\ \/ \E k \in DOMAIN sends : sends[k] = n /\ OwnLine(k)
         \/ \E k \in DOMAIN wire : wire[k] = Part(n)

(* run never sleeps or waits for the server without an end while messages  *)
(* are queued (conn/sync.rs:296-305), and with no handlers it returns only *)
(* once the queue is flushed (conn/sync.rs:292).                           *)
WakesForQueue ==
  /\ at \in {"blocked", "sleep"} /\ queue # << >> => until # None
  /\ at = "check" => (wait_for = None <=> queue = << >>)

(* When the queue's wait has ended a read or a sleep, the next message can *)
(* be popped at once: the loop does not spin (conn/sync.rs:312-316, "we're *)
(* ready to write another message").                                       *)
QueueTurnIsReady ==
  /\ at = "timedout" /\ rto_from_queue => Q!WaitAt(now) = 0
  /\ at = "sleep" /\ now >= until[1] => Q!WaitAt(now) = 0

(* run reports a read timeout, or calls on_timeout, only once the read     *)
(* limit has elapsed since the read began, whatever an earlier read has    *)
(* left on the socket, and with no limit, or one that overflows the clock, *)
(* only on a blocking connection, where update_timeout keeps the timeout   *)
(* of an earlier wait for the queue (conn/time.rs:152-168).                *)
ReadTimeoutHonest ==
  at = "timedout" /\ ~rto_from_queue =>
    \/ read_limit # None /\ now >= began + read_limit[1]
    \/ sync /\ (read_limit = None \/ began + read_limit[1] > MaxInstant)

(* While the client waits for the server, the socket of a blocking         *)
(* connection has the write timeout that was configured, also on a new     *)
(* connection (time.rs:147-150, client.rs:177).                            *)
WriteLimitSynced ==
  sync /\ at \in {"reading", "blocked"} => sock_wto = write_limit

(* Every message pushed is sent or still to be sent: once on a blocking    *)
(* connection, at least once if futures are dropped, and in the order of   *)
(* pushing.                                                                *)
SentAsPushed == NothingLost /\ NothingForgotten

(* The loop in every state: it wakes up for the queue and finds it ready,  *)
(* and the socket has the timeouts that were asked for (conn/sync.rs,      *)
(* conn/time.rs).                                                          *)
LoopSound == TypeOK /\ WakesForQueue /\ QueueTurnIsReady /\ WriteLimitSynced

(* A message that is queued while run waits is sent, or run returns, even  *)
(* if the server stays silent and no read timeout is set.                  *)
QueueDrains ==
  (at \in {"blocked", "sleep"} /\ queue # << >>)
    ~> (queue = << >> \/ at = "out" \/ now = MaxTime)

(* A read with a time limit ends, however the server trickles its bytes:   *)
(* the limit is for the whole message, not for each piece of it            *)
(* (conn/time.rs:152-168, 295-310).                                        *)
LimitedReadEnds ==
  (at \in {"reading", "blocked"} /\ deadline # None /\ deadline[1] <= MaxTime)
    ~> at \notin {"reading", "blocked"}
=============================================================================
