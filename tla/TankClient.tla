----------------------------- MODULE TankClient -----------------------------
(***************************************************************************)
(* The client library of the tank game (GAME_HW/clients/tankclient.py):    *)
(* one calling thread, the background reader thread, the connection, and   *)
(* the server as GAME_HW/README.md (The Protocol) describes it to clients. *)
(*                                                                         *)
(* A line of the protocol is a record: a command carries its number, a     *)
(* reply the number of the command it answers (which the wire does not     *)
(* carry: no definition of the client reads it).  CHAT lines are left out: *)
(* the reader only queues them for the GUI.  Time passes as steps that end *)
(* a wait; a wait may end early or late.                                   *)
(***************************************************************************)
EXTENDS Integers, Sequences

CONSTANTS
  KeepModes,    (* the values of keep_replies clients are made with        *)
  SockBuf,      (* commands the connection holds before sendall blocks     *)
  MaxCmds,      (* bound: commands a caller sends                          *)
  MaxTick       (* bound: frames the server sends                          *)

ASSUME TankClientAssumption ==
  /\ KeepModes \subseteq BOOLEAN
  /\ SockBuf \in Nat \ {0} /\ MaxCmds \in Nat /\ MaxTick \in Nat

VARIABLES
  (* the connection and the server                                         *)
  up,           (* commands on their way to the server                     *)
  down,         (* lines on their way to the client                        *)
  sock,         (* the client's end: "open" or "closed"                    *)
  server,       (* "up" or "closed"                                        *)
  answered,     (* commands the server has answered                        *)
  tick,         (* the last frame it has sent; 0 before the first          *)
  over,         (* it has sent GAMEOVER                                    *)
  (* what the two threads of the client share                              *)
  replies,      (* self.replies                                            *)
  reply_count, lines_sent,
  frame,        (* tick of self.frame; 0 for None                          *)
  gameover,     (* self.gameover is not None                               *)
  game_over,    (* the event self.game_over                                *)
  closed,       (* the event self.closed                                   *)
  my_id,        (* map, tick_rate and my_id are set                        *)
  keep_replies, (* self.keep_replies, never assigned again                 *)
  (* the reader thread                                                     *)
  reader,       (* where _read_loop is                                     *)
  current,      (* the reply it is delivering                              *)
  (* the calling thread                                                    *)
  call,         (* the call in progress                                    *)
  outcome,      (* what the last call returned or raised                   *)
  (* history                                                               *)
  issued,       (* commands handed to sendall                              *)
  taken,        (* replies next_reply has returned                         *)
  expired       (* some next_reply has given up                            *)

wire     == <<up, down, sock, server, answered, tick, over>>
shared   == <<replies, reply_count, lines_sent, frame, gameover, game_over,
              closed, my_id, keep_replies>>
thread   == <<reader, current>>
caller   == <<call, outcome, issued, taken, expired>>
vars     == <<wire, shared, thread, caller>>

-----------------------------------------------------------------------------
CmdKinds   == {"JOIN", "ACT", "QUIT"}
ReplyKinds == {"WELCOME", "OK", "ERR", "BYE"}

Cmd   == [id : Nat, kind : CmdKinds]
Reply == [to : Nat, kind : ReplyKinds]

Msg == [type : {"FRAME"}, tick : Nat] \cup [type : {"REPLY"}, reply : Reply]
       \cup [type : {"GAMEOVER", "GARBAGE"}]

FrameMsg(t) == [type |-> "FRAME", tick |-> t]
ReplyMsg(r) == [type |-> "REPLY", reply |-> r]
GameOver    == [type |-> "GAMEOVER"]
Garbage     == [type |-> "GARBAGE"]

NoReply == [to |-> 0, kind |-> "ERR"]

(* A call: the method, how far it is, the command it sends, the frame it   *)
(* wants to be newer than (0: any), and whether its time is up.            *)
Ops    == {"send", "request", "sync", "wait_frame", "quit", "close"}
Points == {"idle", "sendall", "count", "get", "expired", "check", "asleep",
           "close"}
Call   == [op : Ops, at : Points, cmd : CmdKinds, after : Nat, late : BOOLEAN]

Idle == call.at = "idle"

NoCall == [op |-> "close", at |-> "idle", cmd |-> "ACT", after |-> 0, late |-> FALSE]

(* How a call ends: with a value or with an exception.                     *)
Done       == [is |-> "done"]
Raised(e)  == [is |-> e]
Got(r)     == [is |-> "reply", reply |-> r]
Saw(t, a)  == [is |-> "frame", tick |-> t, after |-> a]
Synced(b)  == [is |-> "synced", all |-> b]

Errors == {"OSError", "ConnectionError", "TimeoutError"}

(* Where _read_loop is: in its loop, in its finally clause, gone.          *)
Reading == {"read", "flag", "put", "count"}
Ending  == {"closing", "wake_frames", "wake_replies"}

Outcome == [is : {"done"} \cup Errors] \cup [is : {"reply"}, reply : Reply]
           \cup [is : {"frame"}, tick : Nat \ {0}, after : Nat]
           \cup [is : {"synced"}, all : BOOLEAN]

Failed == outcome.is \in Errors

(* A call ends; quit still has its finally clause to run.                  *)
Return(o) ==
  /\ outcome' = o
  /\ call' = [call EXCEPT !.at = IF call.op = "quit" THEN "close" ELSE "idle"]

Init ==
  /\ up = <<>> /\ down = <<>> /\ sock = "open" /\ server = "up"
  /\ answered = 0 /\ tick = 0 /\ over = FALSE
  /\ replies = <<>> /\ reply_count = 0 /\ lines_sent = 0
  /\ frame = 0 /\ gameover = FALSE /\ game_over = FALSE
  /\ closed = FALSE /\ my_id = FALSE /\ keep_replies \in KeepModes
  /\ reader = "read" /\ current = NoReply
  /\ call = NoCall /\ outcome = Done
  /\ issued = 0 /\ taken = 0 /\ expired = FALSE

-----------------------------------------------------------------------------
(* The server: every command gets one reply, in order; frames and one      *)
(* GAMEOVER come in between; it may close, or send a malformed line.       *)

Answers(kind) ==
  CASE kind = "JOIN" -> {"WELCOME", "ERR"}
    [] kind = "ACT"  -> {"OK", "ERR"}
    [] kind = "QUIT" -> {"BYE"}

Serve ==
  /\ server = "up" /\ up # <<>>
  /\ \E k \in Answers(Head(up).kind) :
       down' = Append(down, ReplyMsg([to |-> Head(up).id, kind |-> k]))
  /\ answered' = answered + 1
  /\ IF Head(up).kind = "QUIT"
     THEN up' = <<>> /\ server' = "closed"
     ELSE up' = Tail(up) /\ UNCHANGED server
  /\ UNCHANGED <<sock, tick, over, shared, thread, caller>>

SendFrame ==
  /\ server = "up" /\ tick < MaxTick
  /\ tick' = tick + 1
  /\ down' = Append(down, FrameMsg(tick + 1))
  /\ UNCHANGED <<up, sock, server, answered, over, shared, thread, caller>>

EndMatch ==
  /\ server = "up" /\ ~ over
  /\ over' = TRUE
  /\ down' = Append(down, GameOver)
  /\ UNCHANGED <<up, sock, server, answered, tick, shared, thread, caller>>

(* A line that does not follow the protocol: one is enough, the reader     *)
(* stops at it.                                                            *)
Garble ==
  /\ server = "up"
  /\ reader \in Reading
  /\ \A j \in DOMAIN down : down[j] # Garbage
  /\ down' = Append(down, Garbage)
  /\ UNCHANGED <<up, sock, server, answered, tick, over, shared, thread, caller>>

(* The server goes away, at any moment.                                    *)
CloseServer ==
  /\ server = "up"
  /\ server' = "closed" /\ up' = <<>>
  /\ UNCHANGED <<down, sock, answered, tick, over, shared, thread, caller>>

Server == Serve \/ SendFrame \/ EndMatch \/ Garble \/ CloseServer

-----------------------------------------------------------------------------
(* The reader thread.  Reading a line touches nothing shared, so a step    *)
(* reads a whole message and does the first thing that others can see.     *)

Reads(type) == reader = "read" /\ down # <<>> /\ Head(down).type = type

Consume == down' = Tail(down) /\ UNCHANGED <<up, sock, server, answered, tick, over>>

(* notify_all on the condition the calls in S wait on.                     *)
ForFrames  == {"wait_frame"}
ForReplies == {"sync", "quit"}

\* Mutant: nobody is notified.
WakesNobody(S) == UNCHANGED call

Wakes(S) ==
  call' = IF call.at = "asleep" /\ call.op \in S
          THEN [call EXCEPT !.at = "check"] ELSE call

(* FRAME: stored and announced under _frame_cond.                          *)
ReadFrame ==
  /\ Reads("FRAME")
  /\ Consume
  /\ frame' = Head(down).tick
  /\ Wakes(ForFrames)
  /\ UNCHANGED <<replies, reply_count, lines_sent, gameover, game_over, closed,
                 my_id, keep_replies, thread, outcome, issued, taken, expired>>

(* GAMEOVER: the score table, then the event.                              *)
\* Mutant: the score block is taken for a reply.
ReadGameOverAsReply ==
  /\ Reads("GAMEOVER")
  /\ Consume
  /\ current' = NoReply /\ reader' = "put"
  /\ UNCHANGED <<shared, caller>>

ReadGameOver ==
  /\ Reads("GAMEOVER")
  /\ Consume
  /\ gameover' = TRUE /\ UNCHANGED game_over
  /\ reader' = "flag"
  /\ UNCHANGED <<replies, reply_count, lines_sent, frame, closed, my_id,
                 keep_replies, current, caller>>

SetGameOver ==
  /\ reader = "flag"
  /\ game_over' = TRUE
  /\ reader' = "read"
  /\ UNCHANGED <<wire, replies, reply_count, lines_sent, frame, gameover,
                 closed, my_id, keep_replies, current, caller>>

(* A reply; WELCOME stores map, tick_rate and my_id before it is delivered.*)
ReadReply ==
  /\ Reads("REPLY")
  /\ Consume
  /\ my_id' = (my_id \/ Head(down).reply.kind = "WELCOME")
  /\ current' = Head(down).reply
  /\ reader' = "put"
  /\ UNCHANGED <<replies, reply_count, lines_sent, frame, gameover, game_over,
                 closed, keep_replies, caller>>

(* _deliver: the reply is queued, if replies are kept, then counted.       *)
\* Mutant: the reply goes to the front of the queue.
Lifo(q, r) == IF keep_replies THEN <<r>> \o q ELSE q

Kept(q, r) == IF keep_replies THEN Append(q, r) ELSE q

PutReply ==
  /\ reader = "put"
  /\ replies' = Kept(replies, current)
  /\ reader' = "count"
  /\ UNCHANGED <<wire, reply_count, lines_sent, frame, gameover, game_over,
                 closed, my_id, keep_replies, current, caller>>

CountReply ==
  /\ reader = "count"
  /\ reply_count' = reply_count + 1
  /\ Wakes(ForReplies)
  /\ reader' = "read"
  /\ UNCHANGED <<wire, replies, lines_sent, frame, gameover, game_over, closed,
                 my_id, keep_replies, current, outcome, issued, taken, expired>>

(* The loop ends: at end of file (the server has gone, or close() shut the *)
(* socket down; a reset may swallow the lines still in transit), or at a   *)
(* line that is not protocol.  The finally clause follows: the flag first,  *)
(* then each condition.                                                    *)
\* Mutant: an end of file leaves without the finally clause.
ReadEndQuietly ==
  /\ reader = "read"
  /\ server = "closed" \/ sock = "closed"
  /\ reader' = "gone"
  /\ UNCHANGED <<wire, shared, current, caller>>

ReadEnd ==
  /\ reader = "read"
  /\ \/ server = "closed"
     \/ sock = "closed"
     \/ down # <<>> /\ Head(down) = Garbage
  /\ reader' = "closing"
  /\ UNCHANGED <<wire, shared, current, caller>>

SetClosed ==
  /\ reader = "closing"
  /\ closed' = TRUE
  /\ reader' = "wake_frames"
  /\ UNCHANGED <<wire, replies, reply_count, lines_sent, frame, gameover,
                 game_over, my_id, keep_replies, current, caller>>

WakeFrames ==
  /\ reader = "wake_frames"
  /\ Wakes(ForFrames)
  /\ reader' = "wake_replies"
  /\ UNCHANGED <<wire, shared, current, outcome, issued, taken, expired>>

WakeReplies ==
  /\ reader = "wake_replies"
  /\ Wakes(ForReplies)
  /\ reader' = "gone"
  /\ UNCHANGED <<wire, shared, current, outcome, issued, taken, expired>>

Reader ==
  \/ ReadFrame \/ ReadGameOver \/ SetGameOver
  \/ ReadReply \/ PutReply \/ CountReply
  \/ ReadEnd \/ SetClosed \/ WakeFrames \/ WakeReplies

-----------------------------------------------------------------------------
(* The calling thread.                                                     *)

Begin(op, at, cmd, after) ==
  /\ Idle
  /\ call' = [op |-> op, at |-> at, cmd |-> cmd, after |-> after, late |-> FALSE]
  /\ UNCHANGED <<wire, shared, thread, outcome, issued, taken, expired>>

CallSend(cmd)    == Begin("send", "sendall", cmd, 0)
CallRequest(cmd) == Begin("request", "sendall", cmd, 0)
CallSync         == Begin("sync", "check", "ACT", 0)
CallWaitFrame(t) == Begin("wait_frame", "check", "ACT", t)
CallQuit         == Begin("quit", "sendall", "QUIT", 0)
CallClose        == Begin("close", "close", "ACT", 0)

(* send: sendall under _send_lock; the bytes are lost once the server has  *)
(* closed.                                                                 *)
Sendall ==
  /\ call.at = "sendall" /\ sock = "open" /\ Len(up) < SockBuf
  /\ issued' = issued + 1
  /\ up' = IF server = "up" THEN Append(up, [id |-> issued + 1, kind |-> call.cmd])
           ELSE up
  /\ call' = [call EXCEPT !.at = "count"]
  /\ UNCHANGED <<down, sock, server, answered, tick, over, shared, thread,
                 outcome, taken, expired>>

SendallRaises ==
  /\ call.at = "sendall"
  /\ sock = "closed" \/ server = "closed"
  /\ Return(Raised("OSError"))
  /\ UNCHANGED <<wire, shared, thread, issued, taken, expired>>

(* ... then lines_sent; request and quit go on to wait for the answer.     *)
CountLine ==
  /\ call.at = "count"
  /\ lines_sent' = lines_sent + 1
  /\ CASE call.op = "send" -> Return(Done)
       [] call.op = "request" \/ (call.op = "quit" /\ keep_replies) ->
            call' = [call EXCEPT !.at = "get"] /\ UNCHANGED outcome
       [] call.op = "quit" /\ ~ keep_replies ->
            call' = [call EXCEPT !.at = "check"] /\ UNCHANGED outcome
  /\ UNCHANGED <<wire, replies, reply_count, frame, gameover, game_over, closed,
                 my_id, keep_replies, thread, issued, taken, expired>>

(* next_reply: the oldest reply, or, when there is none in time, an        *)
(* exception that depends on the flag as it is a moment later.             *)
GetReply ==
  /\ call.at = "get" /\ replies # <<>>
  /\ Return(Got(Head(replies)))
  /\ replies' = Tail(replies)
  /\ taken' = taken + 1
  /\ UNCHANGED <<wire, reply_count, lines_sent, frame, gameover, game_over,
                 closed, my_id, keep_replies, thread, issued, expired>>

GetExpires ==
  /\ call.at = "get" /\ replies = <<>>
  /\ call' = [call EXCEPT !.at = "expired"]
  /\ expired' = TRUE
  /\ UNCHANGED <<wire, shared, thread, outcome, issued, taken>>

NoReplyCame ==
  /\ call.at = "expired"
  /\ Return(Raised(IF closed THEN "ConnectionError" ELSE "TimeoutError"))
  /\ UNCHANGED <<wire, shared, thread, issued, taken, expired>>

(* wait_for, of sync and of wait_frame: the predicate is looked at and, if *)
(* false, the thread is registered as a waiter, under the condition's      *)
(* lock; woken or out of time, it looks again.                             *)
AllAnswered == closed \/ reply_count >= lines_sent
NewFrame == closed \/ frame > call.after

Condition == IF call.op = "wait_frame" THEN NewFrame ELSE AllAnswered

(* What a wait that ended returns: wait_frame the frame there is, if any,  *)
(* sync whether everything was answered.                                   *)
\* Mutant: sync returns what wait_for did.
SyncDone == Synced(TRUE)

FrameOrError == IF frame > 0 THEN Saw(frame, call.after) ELSE Raised("TimeoutError")

SyncResult == Synced(reply_count >= lines_sent)

WaitEnds ==
  /\ call.at = "check" /\ Condition
  /\ Return(IF call.op = "wait_frame" THEN FrameOrError ELSE SyncResult)
  /\ UNCHANGED <<wire, shared, thread, issued, taken, expired>>

WaitGivesUp ==
  /\ call.at = "check" /\ ~ Condition /\ call.late
  /\ Return(Raised("TimeoutError"))
  /\ UNCHANGED <<wire, shared, thread, issued, taken, expired>>

Sleep ==
  /\ call.at = "check" /\ ~ Condition /\ ~ call.late
  /\ call' = [call EXCEPT !.at = "asleep"]
  /\ UNCHANGED <<wire, shared, thread, outcome, issued, taken, expired>>

SleepExpires ==
  /\ call.at = "asleep"
  /\ call' = [call EXCEPT !.at = "check", !.late = TRUE]
  /\ UNCHANGED <<wire, shared, thread, outcome, issued, taken, expired>>

(* close, and the finally clause of quit, which keeps quit's outcome.      *)
Close ==
  /\ call.at = "close"
  /\ sock' = "closed"
  /\ call' = [call EXCEPT !.at = "idle"]
  /\ outcome' = IF call.op = "close" THEN Done ELSE outcome
  /\ UNCHANGED <<up, down, server, answered, tick, over, shared, thread,
                 issued, taken, expired>>

(* What the calling thread does by itself, and what only time does.        *)
Proceed ==
  \/ Sendall \/ SendallRaises \/ CountLine
  \/ GetReply \/ NoReplyCame
  \/ WaitEnds \/ WaitGivesUp \/ Sleep
  \/ Close

Expire == GetExpires \/ SleepExpires

(* Any sequence of calls a client can make: JOIN first; a client that      *)
(* keeps replies waits for each one, the other kind only counts them.      *)
NextCmd == IF issued = 0 THEN "JOIN" ELSE "ACT"

Caller ==
  \/ issued < MaxCmds /\ keep_replies /\ CallRequest(NextCmd)
  \/ issued < MaxCmds /\ ~ keep_replies /\ CallSend(NextCmd)
  \/ issued < MaxCmds /\ CallQuit
  \/ CallSync \/ CallClose
  \/ \E t \in {0, frame} : CallWaitFrame(t)

Next == Server \/ Reader \/ Proceed \/ Expire \/ Caller

Spec == Init /\ [][Next]_vars

-----------------------------------------------------------------------------
(* Properties.                                                             *)

TypeOK ==
  /\ up \in Seq(Cmd) /\ sock \in {"open", "closed"} /\ server \in {"up", "closed"}
  /\ down \in Seq(Msg)
  /\ answered \in Nat /\ tick \in Nat /\ over \in BOOLEAN
  /\ replies \in Seq(Reply) /\ reply_count \in Nat /\ lines_sent \in Nat
  /\ frame \in Nat /\ gameover \in BOOLEAN /\ game_over \in BOOLEAN
  /\ closed \in BOOLEAN /\ my_id \in BOOLEAN /\ keep_replies \in BOOLEAN
  /\ reader \in Reading \cup Ending \cup {"gone"} /\ current \in Reply
  /\ call \in Call
  /\ outcome \in Outcome
  /\ issued \in Nat /\ taken \in Nat /\ expired \in BOOLEAN

(* The replies the reader has taken off the connection.                    *)
Received == reply_count + (IF reader \in {"put", "count"} THEN 1 ELSE 0)

IsReply(m) == m.type = "REPLY"

(* Replies come back in the order of the commands (tankclient.py:14): the  *)
(* n-th reply that next_reply returns answers the n-th command, whatever   *)
(* comes in between on the connection.  And why: every command is in one   *)
(* place of the round trip, in the order of sending - on its way, or       *)
(* answered and in transit, with the reader, queued, or taken.             *)
InOrder ==
  /\ answered <= issued
  /\ server = "up" =>
       /\ Len(up) = issued - answered
       /\ \A j \in DOMAIN up : up[j].id = answered + j
  /\ server = "closed" => up = <<>>
  /\ \A j, k \in DOMAIN down :
       IsReply(down[j]) /\ IsReply(down[k]) /\ j < k =>
         down[j].reply.to < down[k].reply.to
  /\ \A j \in DOMAIN down : IsReply(down[j]) =>
         down[j].reply.to \in Received + 1 .. answered
  /\ \A n \in Received + 1 .. answered :
       \E j \in DOMAIN down : IsReply(down[j]) /\ down[j].reply.to = n
  /\ Received <= answered
  /\ reader \in {"put", "count"} => current.to = Received
  /\ keep_replies =>
       /\ taken + Len(replies) = reply_count + (IF reader = "count" THEN 1 ELSE 0)
       /\ \A j \in DOMAIN replies : replies[j].to = taken + j
  /\ ~ keep_replies => replies = <<>> /\ taken = 0
  /\ outcome.is = "reply" => outcome.reply.to = taken

(* As long as no call has timed out, a request returns the reply to its    *)
(* own command: no caller is one reply behind.                             *)
InStep ==
  (Idle /\ outcome.is = "reply" /\ ~ expired) => outcome.reply.to = issued

(* When sync reports that everything was answered, the server has          *)
(* processed every command sent, and a client that keeps replies has all   *)
(* of them at hand: none is counted before it is queued.                   *)
SyncMeansAnswered ==
  (Idle /\ outcome = Synced(TRUE)) =>
     /\ answered = issued /\ up = <<>>
     /\ keep_replies => taken + Len(replies) = issued

(* No wake-up is lost: a thread that sleeps in sync or wait_frame although *)
(* its condition has come true - frames, replies or the end of the         *)
(* connection came while it went to sleep - is one that the reader is      *)
(* about to notify; no time-out has to save it (tankclient.py:219, 271).   *)
NoLostWakeup ==
  (call.at = "asleep" /\ Condition) =>
     reader \in (IF call.op \in ForFrames THEN {"wake_frames"}
                 ELSE {"wake_frames", "wake_replies"})
=============================================================================
