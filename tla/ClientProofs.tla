------------------------------ MODULE ClientProofs ------------------------------
(***************************************************************************)
(* Proofs about the tank client's two threads and about a bot that calls   *)
(* it, for every number of commands and frames and every size of the       *)
(* connection.  The first part is about the client alone: its invariant    *)
(* TankInv holds for any program that calls it.  The second is about both  *)
(* kinds of bot: what is added there is where the bot is while a call      *)
(* runs, and what a time-out makes it do.                                  *)
(***************************************************************************)
EXTENDS Bot, SequenceTheorems, TLAPS

-----------------------------------------------------------------------------
(* Where a call of each kind can be, and who keeps replies.                *)
Shape ==
  /\ call.at = "sendall" => call.op \in {"send", "request", "quit"}
  /\ call.at = "count" => call.op \in {"send", "request", "quit"}
  /\ call.at \in {"get", "expired"} => call.op \in {"request", "quit"} /\ keep_replies
  /\ call.at \in {"check", "asleep"} => call.op \in {"sync", "wait_frame", "quit"}
  /\ call.at = "close" => call.op \in {"quit", "close"}
  /\ call.op = "request" => keep_replies
  /\ call.op = "send" => ~ keep_replies
  /\ outcome.is = "reply" => keep_replies

(* Every command is counted, but the one that is just sent; a caller that  *)
(* has never given up has the reply to each but the one it waits for.      *)
Counted ==
  /\ issued = lines_sent + (IF call.at = "count" THEN 1 ELSE 0)
  /\ call.at = "expired" => expired
  /\ keep_replies /\ ~ expired =>
       issued = taken + (IF call.at \in {"count", "get"} THEN 1 ELSE 0)

(* A call has just ended, or it is quit, which still has to close.         *)
Ended == Idle \/ (call.at = "close" /\ call.op = "quit")

(* What sync has reported stays true until the next call.                  *)
Settled == Ended /\ outcome = Synced(TRUE) => reply_count = issued

TankInv == TypeOK /\ Shape /\ Counted /\ InOrder /\ Settled /\ NoLostWakeup

(* The calls that a program makes, whatever it sends and in whatever order:*)
(* the invariant holds for each such program, Caller being one.            *)
AnyCall ==
  \/ keep_replies /\ \E cmd \in CmdKinds : CallRequest(cmd)
  \/ ~ keep_replies /\ \E cmd \in CmdKinds : CallSend(cmd)
  \/ CallQuit \/ CallSync \/ CallClose
  \/ \E t \in Nat : CallWaitFrame(t)

AnyNext == Server \/ Reader \/ Proceed \/ Expire \/ AnyCall

-----------------------------------------------------------------------------
(* Type correctness.                                                       *)

LEMMA InitTypes ==
  ASSUME Init, TankClientAssumption
  PROVE  TypeOK
<1>1. NoCall \in Call
  BY DEF NoCall, Call, Ops, Points, CmdKinds
<1>2. NoReply \in Reply
  BY DEF NoReply, Reply, ReplyKinds
<1>3. Done \in Outcome
  BY DEF Done, Outcome
<1>4. keep_replies \in BOOLEAN
  BY DEF Init, TankClientAssumption
<1>5. up \in Seq(Cmd) /\ down \in Seq(Msg) /\ replies \in Seq(Reply)
  BY DEF Init
<1>6. call \in Call /\ current \in Reply /\ outcome \in Outcome
  BY <1>1, <1>2, <1>3 DEF Init
<1>7. /\ {answered, tick, reply_count, lines_sent, frame, issued, taken} \subseteq Nat
      /\ sock \in {"open", "closed"} /\ server \in {"up", "closed"}
      /\ reader \in Reading
  BY DEF Init, Reading
<1>8. /\ over \in BOOLEAN /\ gameover \in BOOLEAN /\ game_over \in BOOLEAN
      /\ closed \in BOOLEAN /\ my_id \in BOOLEAN /\ expired \in BOOLEAN
  BY Zenon DEF Init
<1> QED
  BY <1>4, <1>5, <1>6, <1>7, <1>8 DEF TypeOK

LEMMA ServerTypes ==
  ASSUME TypeOK, Server
  PROVE  TypeOK'
<1> USE DEF TypeOK, shared, thread, caller
<1>1. CASE Serve
  <2>1. Head(up) \in Cmd /\ Tail(up) \in Seq(Cmd) /\ << >> \in Seq(Cmd)
    BY <1>1 DEF Serve
  <2>2. PICK k \in Answers(Head(up).kind) :
          down' = Append(down, ReplyMsg([to |-> Head(up).id, kind |-> k]))
    BY <1>1 DEF Serve
  <2>3. k \in ReplyKinds
    BY <2>1 DEF Answers, ReplyKinds, Cmd, CmdKinds
  <2>4. ReplyMsg([to |-> Head(up).id, kind |-> k]) \in Msg
    <3>1. [to |-> Head(up).id, kind |-> k] \in Reply
      BY <2>1, <2>3 DEF Reply, Cmd
    <3> QED
      BY <3>1 DEF ReplyMsg, Msg
  <2>5. down' \in Seq(Msg)
    BY <2>2, <2>4, AppendProperties
  <2>6. up' \in Seq(Cmd) /\ server' \in {"up", "closed"}
    BY <1>1, <2>1 DEF Serve
  <2>7. answered' \in Nat /\ UNCHANGED <<sock, tick, over, shared, thread, caller>>
    BY <1>1 DEF Serve
  <2> QED
    BY <2>5, <2>6, <2>7
<1>2. CASE SendFrame
  <2>1. FrameMsg(tick + 1) \in Msg
    BY DEF FrameMsg, Msg
  <2> QED
    BY <1>2, <2>1, AppendProperties DEF SendFrame
<1>3. CASE EndMatch
  BY <1>3, AppendProperties DEF EndMatch, GameOver, Msg
<1>4. CASE Garble
  BY <1>4, AppendProperties DEF Garble, Garbage, Msg
<1>5. CASE CloseServer
  BY <1>5 DEF CloseServer
<1> QED
  BY <1>1, <1>2, <1>3, <1>4, <1>5 DEF Server

LEMMA WakesTypes ==
  ASSUME NEW S, Wakes(S), call \in Call
  PROVE  call' \in Call
BY DEF Wakes, Call, Points

LEMMA ReaderTypes ==
  ASSUME TypeOK, Reader
  PROVE  TypeOK'
<1> USE DEF TypeOK, shared, wire, thread, caller, Reading, Ending
<1>a. ASSUME NEW type, Reads(type)
      PROVE  Head(down) \in Msg /\ Tail(down) \in Seq(Msg)
  BY <1>a DEF Reads
<1>1. CASE ReadFrame
  <2>1. Head(down) \in Msg /\ Tail(down) \in Seq(Msg) /\ Head(down).type = "FRAME"
    BY <1>1, <1>a DEF ReadFrame, Reads
  <2>2. Head(down).tick \in Nat
    BY <2>1 DEF Msg
  <2>3. call' \in Call
    BY <1>1, WakesTypes DEF ReadFrame
  <2> QED
    BY <1>1, <2>1, <2>2, <2>3 DEF ReadFrame, Consume
<1>2. CASE ReadGameOver
  BY <1>2, <1>a DEF ReadGameOver, Consume
<1>3. CASE SetGameOver
  BY <1>3 DEF SetGameOver
<1>4. CASE ReadReply
  <2>1. Head(down) \in Msg /\ Tail(down) \in Seq(Msg) /\ Head(down).type = "REPLY"
    BY <1>4, <1>a DEF ReadReply, Reads
  <2>2. Head(down).reply \in Reply
    BY <2>1 DEF Msg
  <2> QED
    BY <1>4, <2>1, <2>2 DEF ReadReply, Consume
<1>5. CASE PutReply
  BY <1>5, AppendProperties DEF PutReply, Kept
<1>6. CASE CountReply
  BY <1>6, WakesTypes DEF CountReply
<1>7. CASE ReadEnd
  BY <1>7 DEF ReadEnd
<1>8. CASE SetClosed
  BY <1>8 DEF SetClosed
<1>9. CASE WakeFrames
  BY <1>9, WakesTypes DEF WakeFrames
<1>10. CASE WakeReplies
  BY <1>10, WakesTypes DEF WakeReplies
<1> QED
  BY <1>1, <1>2, <1>3, <1>4, <1>5, <1>6, <1>7, <1>8, <1>9, <1>10 DEF Reader

\* A call that moves on is still a call.
LEMMA CallMoves ==
  ASSUME call \in Call, NEW p \in Points
  PROVE  [call EXCEPT !.at = p] \in Call
BY DEF Call

LEMMA ReturnTypes ==
  ASSUME call \in Call, NEW o \in Outcome, Return(o)
  PROVE  call' \in Call /\ outcome' \in Outcome
BY CallMoves DEF Return, Points

LEMMA CallTypes ==
  ASSUME TypeOK, AnyCall
  PROVE  TypeOK'
<1>1. ASSUME NEW op \in Ops, NEW point \in Points, NEW cmd \in CmdKinds, NEW after \in Nat,
             Begin(op, point, cmd, after)
      PROVE  TypeOK'
  BY <1>1 DEF Begin, TypeOK, wire, shared, thread, Call
<1>3. "QUIT" \in CmdKinds /\ "ACT" \in CmdKinds /\ 0 \in Nat /\ frame \in Nat
  BY DEF CmdKinds, TypeOK
<1>4. /\ {"send", "request", "sync", "wait_frame", "quit", "close"} \subseteq Ops
      /\ {"sendall", "check", "close"} \subseteq Points
  BY DEF Ops, Points
<1>5. CASE \E cmd \in CmdKinds : CallRequest(cmd)
  BY <1>1, <1>3, <1>4, <1>5 DEF CallRequest
<1>6. CASE \E cmd \in CmdKinds : CallSend(cmd)
  BY <1>1, <1>3, <1>4, <1>6 DEF CallSend
<1>7. CASE CallQuit
  BY <1>1, <1>3, <1>4, <1>7 DEF CallQuit
<1>8. CASE CallSync
  BY <1>1, <1>3, <1>4, <1>8 DEF CallSync
<1>9. CASE CallClose
  BY <1>1, <1>3, <1>4, <1>9 DEF CallClose
<1>10. CASE \E t \in Nat : CallWaitFrame(t)
  BY <1>1, <1>3, <1>4, <1>10 DEF CallWaitFrame
<1> QED
  BY <1>5, <1>6, <1>7, <1>8, <1>9, <1>10 DEF AnyCall

LEMMA ProceedTypes ==
  ASSUME TypeOK, Shape, Proceed \/ Expire
  PROVE  TypeOK'
<1> USE DEF TypeOK, shared, wire, thread
<1>a. {"count", "get", "check", "asleep", "expired", "idle"} \subseteq Points
  BY DEF Points
<1>1. CASE Sendall
  <2>1. [id |-> issued + 1, kind |-> call.cmd] \in Cmd
    BY DEF Cmd, Call
  <2>2. up' \in Seq(Cmd)
    BY <1>1, <2>1, AppendProperties DEF Sendall
  <2>3. call' \in Call
    BY <1>1, <1>a, CallMoves DEF Sendall
  <2> QED
    BY <1>1, <2>2, <2>3 DEF Sendall
<1>2. CASE SendallRaises
  <2>1. Raised("OSError") \in Outcome
    BY DEF Raised, Outcome, Errors
  <2> QED
    BY <1>2, <2>1, ReturnTypes DEF SendallRaises
<1>3. CASE CountLine
  <2>1. call' \in Call /\ outcome' \in Outcome
    <3>1. Done \in Outcome
      BY DEF Done, Outcome
    <3>2. call.op \in {"send", "request", "quit"}
      BY <1>3 DEF CountLine, Shape
    <3>3. \/ Return(Done)
          \/ call' = [call EXCEPT !.at = "get"] /\ UNCHANGED outcome
          \/ call' = [call EXCEPT !.at = "check"] /\ UNCHANGED outcome
      BY <1>3, <3>2 DEF CountLine
    <3> QED
      BY <1>a, <3>1, <3>3, CallMoves, ReturnTypes
  <2> QED
    BY <1>3, <2>1 DEF CountLine
<1>4. CASE GetReply
  <2>1. Head(replies) \in Reply /\ Tail(replies) \in Seq(Reply)
    BY <1>4 DEF GetReply
  <2>2. Got(Head(replies)) \in Outcome
    BY <2>1 DEF Got, Outcome
  <2>3. call' \in Call /\ outcome' \in Outcome
    BY <1>4, <2>2, ReturnTypes DEF GetReply
  <2> QED
    BY <1>4, <2>1, <2>3 DEF GetReply
<1>5. CASE NoReplyCame
  <2>1. Raised(IF closed THEN "ConnectionError" ELSE "TimeoutError") \in Outcome
    BY DEF Raised, Outcome, Errors
  <2> QED
    BY <1>5, <2>1, ReturnTypes DEF NoReplyCame
<1>6. CASE WaitEnds
  <2>1. FrameOrError \in Outcome
    BY DEF FrameOrError, Saw, Raised, Outcome, Errors, Call
  <2>2. SyncResult \in Outcome
    BY DEF SyncResult, Synced, Outcome
  <2> QED
    BY <1>6, <2>1, <2>2, ReturnTypes DEF WaitEnds
<1>7. CASE WaitGivesUp
  <2>1. Raised("TimeoutError") \in Outcome
    BY DEF Raised, Outcome, Errors
  <2> QED
    BY <1>7, <2>1, ReturnTypes DEF WaitGivesUp
<1>8. CASE Sleep
  BY <1>8, <1>a, CallMoves DEF Sleep
<1>9. CASE Close
  <2>1. Done \in Outcome
    BY DEF Done, Outcome
  <2> QED
    BY <1>9, <1>a, <2>1, CallMoves DEF Close
<1>10. CASE GetExpires
  BY <1>10, <1>a, CallMoves DEF GetExpires
<1>11. CASE SleepExpires
  <2> DEFINE c == [call EXCEPT !.at = "check"]
             d == [c EXCEPT !.late = TRUE]
  <2>1. c \in Call
    BY <1>a, CallMoves
  <2>2. call' = d
    BY <1>11 DEF SleepExpires, Call
  <2> HIDE DEF c
  <2>3. d \in Call
    BY <2>1 DEF Call
  <2> QED
    BY <1>11, <2>2, <2>3 DEF SleepExpires
<1> QED
  BY <1>1, <1>2, <1>3, <1>4, <1>5, <1>6, <1>7, <1>8, <1>9, <1>10, <1>11 DEF Proceed, Expire

-----------------------------------------------------------------------------
(* The calling thread.                                                     *)

\* A call begins where its method says.
LEMMA CallBegins ==
  ASSUME AnyCall
  PROVE  /\ Idle /\ UNCHANGED <<wire, shared, thread, outcome, issued, taken, expired>>
         /\ \/ call'.at = "sendall" /\ call'.op \in {"send", "request", "quit"}
            \/ call'.at = "check" /\ call'.op \in {"sync", "wait_frame"}
            \/ call'.at = "close" /\ call'.op = "close"
         /\ call'.op = "request" => keep_replies
         /\ call'.op = "send" => ~ keep_replies
<1>1. CASE keep_replies /\ \E cmd \in CmdKinds : CallRequest(cmd)
  BY <1>1 DEF CallRequest, Begin
<1>2. CASE ~ keep_replies /\ \E cmd \in CmdKinds : CallSend(cmd)
  BY <1>2 DEF CallSend, Begin
<1>3. CASE CallQuit
  BY <1>3 DEF CallQuit, Begin
<1>4. CASE CallSync
  BY <1>4 DEF CallSync, Begin
<1>5. CASE CallClose
  BY <1>5 DEF CallClose, Begin
<1>6. ASSUME NEW t, CallWaitFrame(t)
      PROVE  /\ Idle /\ UNCHANGED <<wire, shared, thread, outcome, issued, taken, expired>>
             /\ call'.at = "check" /\ call'.op = "wait_frame"
  BY <1>6 DEF CallWaitFrame, Begin
<1> QED
  BY <1>1, <1>2, <1>3, <1>4, <1>5, <1>6 DEF AnyCall

LEMMA ShapeStep ==
  ASSUME TypeOK, Shape, AnyNext
  PROVE  Shape'
<1> USE DEF Shape, TypeOK, Call, Ops, Points
<1>1. CASE Server
  BY <1>1 DEF Server, Serve, SendFrame, EndMatch, Garble, CloseServer, shared, caller
<1>2. CASE Reader
  <2>1. /\ UNCHANGED <<keep_replies, outcome>>
        /\ \/ UNCHANGED call
           \/ \E S \in {ForFrames, ForReplies} : Wakes(S)
    BY <1>2 DEF Reader, ReadFrame, ReadGameOver, SetGameOver, ReadReply, PutReply, CountReply,
                ReadEnd, SetClosed, WakeFrames, WakeReplies, shared, caller
  <2> QED
    BY <2>1 DEF Wakes
<1>3. CASE AnyCall
  BY <1>3, CallBegins DEF shared
<1>4. CASE Proceed \/ Expire
  <2>1. UNCHANGED keep_replies
    BY <1>4 DEF Proceed, Expire, Sendall, SendallRaises, CountLine, GetReply, NoReplyCame,
                WaitEnds, WaitGivesUp, Sleep, Close, GetExpires, SleepExpires, shared
  <2>2. ASSUME NEW o, Return(o), o.is = "reply" => keep_replies
        PROVE  Shape'
    <3>1. /\ outcome' = o /\ call'.op = call.op
          /\ call'.at = IF call.op = "quit" THEN "close" ELSE "idle"
      BY <2>2 DEF Return
    <3>2. CASE call.op = "quit"
      BY <2>1, <2>2, <3>1, <3>2
    <3>3. CASE call.op # "quit"
      BY <2>1, <2>2, <3>1, <3>3
    <3> QED
      BY <3>2, <3>3
  <2>3. CASE Sendall
    BY <2>1, <2>3 DEF Sendall
  <2>4. CASE CountLine /\ ~ Return(Done)
    <3>1. call.at = "count" /\ call.op \in {"request", "quit"} /\ keep_replies \in BOOLEAN
      BY <2>4 DEF CountLine
    <3>2. /\ UNCHANGED outcome
          /\ \/ call' = [call EXCEPT !.at = "get"] /\ keep_replies
             \/ call' = [call EXCEPT !.at = "check"] /\ call.op = "quit"
      <4>1. CASE call.op = "request"
        BY <2>4, <4>1 DEF CountLine
      <4>2. CASE call.op = "quit" /\ keep_replies
        BY <2>4, <4>2 DEF CountLine
      <4>3. CASE call.op = "quit" /\ ~ keep_replies
        BY <2>4, <4>3 DEF CountLine
      <4> QED
        BY <3>1, <4>1, <4>2, <4>3
    <3> QED
      BY <2>1, <3>1, <3>2
  <2>5. CASE Sleep
    BY <2>1, <2>5 DEF Sleep, Condition
  <2>6. CASE Close
    BY <2>1, <2>6 DEF Close, Done
  <2>7. CASE GetExpires
    BY <2>1, <2>7 DEF GetExpires
  <2>8. CASE SleepExpires
    BY <2>1, <2>8 DEF SleepExpires
  <2>9. CASE SendallRaises \/ NoReplyCame \/ WaitGivesUp \/ (CountLine /\ Return(Done))
    <3>1. \E o \in {Done, Raised("OSError"), Raised("ConnectionError"), Raised("TimeoutError")} :
            Return(o)
      BY <2>9 DEF SendallRaises, NoReplyCame, WaitGivesUp
    <3> QED
      BY <2>2, <3>1 DEF Done, Raised
  <2>10. CASE GetReply
    BY <2>2, <2>10 DEF GetReply, Got
  <2>11. CASE WaitEnds
    <3>1. FrameOrError.is # "reply" /\ SyncResult.is # "reply"
      BY DEF FrameOrError, SyncResult, Saw, Raised, Synced
    <3> QED
      BY <2>2, <2>11, <3>1 DEF WaitEnds
  <2> QED
    BY <1>4, <2>3, <2>4, <2>5, <2>6, <2>7, <2>8, <2>9, <2>10, <2>11 DEF Proceed, Expire
<1> QED
  BY <1>1, <1>2, <1>3, <1>4 DEF AnyNext

LEMMA CountedStep ==
  ASSUME TypeOK, Shape, Counted, AnyNext
  PROVE  Counted'
<1> USE DEF Counted, TypeOK, Call
<1>1. CASE Server
  BY <1>1 DEF Server, Serve, SendFrame, EndMatch, Garble, CloseServer, shared, caller
<1>2. CASE Reader
  <2>1. /\ UNCHANGED <<keep_replies, lines_sent, issued, taken, expired>>
        /\ \/ UNCHANGED call
           \/ \E S \in {ForFrames, ForReplies} : Wakes(S)
    BY <1>2 DEF Reader, ReadFrame, ReadGameOver, SetGameOver, ReadReply, PutReply, CountReply,
                ReadEnd, SetClosed, WakeFrames, WakeReplies, shared, caller
  <2>2. call'.at = call.at \/ (call.at = "asleep" /\ call'.at = "check")
    BY <2>1 DEF Wakes
  <2> QED
    BY <2>1, <2>2
<1>3. CASE AnyCall
  BY <1>3, CallBegins DEF shared, Idle
<1>4. CASE Sendall
  BY <1>4 DEF Sendall, shared
<1>5. CASE CountLine
  <2>1. call.op \in {"send", "request", "quit"} /\ (call.op = "send" => ~ keep_replies)
    BY <1>5 DEF CountLine, Shape
  <2>2. /\ call'.at \in {"idle", "close", "get", "check"}
        /\ keep_replies => call'.at = "get"
    BY <1>5, <2>1 DEF CountLine, Return
  <2>3. call.at = "count" /\ lines_sent' = lines_sent + 1
        /\ UNCHANGED <<keep_replies, issued, taken, expired>>
    BY <1>5 DEF CountLine
  <2> QED
    BY <2>2, <2>3
<1>6. CASE GetReply
  BY <1>6 DEF GetReply, Return
<1>7. CASE GetExpires
  BY <1>7 DEF GetExpires, shared
<1>8. CASE SendallRaises \/ NoReplyCame \/ WaitEnds \/ WaitGivesUp \/ Sleep \/ Close \/ SleepExpires
  <2>1. /\ UNCHANGED <<keep_replies, lines_sent, issued, taken, expired>>
        /\ call.at \notin {"count", "get"}
        /\ call'.at \notin {"count", "get", "expired"}
    BY <1>8 DEF SendallRaises, NoReplyCame, WaitEnds, WaitGivesUp, Sleep, Close, SleepExpires,
                Return, shared
  <2> QED
    BY <2>1
<1> QED
  BY <1>1, <1>2, <1>3, <1>4, <1>5, <1>6, <1>7, <1>8 DEF AnyNext, Proceed, Expire

\* Nobody who should be awake sleeps on, but whom the reader is about to notify.
LEMMA WakeStep ==
  ASSUME TypeOK, Shape, NoLostWakeup, AnyNext
  PROVE  NoLostWakeup'
<1> USE DEF NoLostWakeup, Condition, NewFrame, AllAnswered, ForFrames, ForReplies, TypeOK, Call
<1>1. CASE Server
  BY <1>1 DEF Server, Serve, SendFrame, EndMatch, Garble, CloseServer, shared, thread, caller
<1>2. CASE ReadFrame
  BY <1>2 DEF ReadFrame, Reads, thread, Wakes, Shape
<1>3. CASE ReadGameOver \/ SetGameOver \/ ReadReply \/ PutReply \/ ReadEnd
  BY <1>3 DEF ReadGameOver, SetGameOver, ReadReply, PutReply, ReadEnd, Reads, shared, caller
<1>4. CASE CountReply
  BY <1>4 DEF CountReply, Wakes, Shape
<1>5. CASE SetClosed
  BY <1>5 DEF SetClosed, caller, Shape
<1>6. CASE WakeFrames
  BY <1>6 DEF WakeFrames, shared, Wakes, Shape
<1>7. CASE WakeReplies
  BY <1>7 DEF WakeReplies, shared, Wakes, Shape
<1>8. CASE AnyCall
  BY <1>8, CallBegins
<1>9. CASE Sleep
  BY <1>9 DEF Sleep, shared
<1>10. CASE (Proceed \/ Expire) /\ ~ Sleep
  <2>1. call'.at # "asleep"
    BY <1>10 DEF Proceed, Expire, Sendall, SendallRaises, CountLine, GetReply,
       NoReplyCame, WaitEnds, WaitGivesUp, Close, GetExpires, SleepExpires, Return, Shape
  <2> QED
    BY <2>1
<1> QED
  BY <1>1, <1>2, <1>3, <1>4, <1>5, <1>6, <1>7, <1>8, <1>9, <1>10 DEF AnyNext, Reader

-----------------------------------------------------------------------------
(* The order of replies.                                                   *)

\* The parts of InOrder, by the state that they are about.
Sent ==
  /\ answered <= issued
  /\ server = "up" =>
       /\ Len(up) = issued - answered
       /\ \A j \in DOMAIN up : up[j].id = answered + j
  /\ server = "closed" => up = << >>

Transit(msgs, from, upto) ==
  /\ \A j, k \in DOMAIN msgs :
       IsReply(msgs[j]) /\ IsReply(msgs[k]) /\ j < k => msgs[j].reply.to < msgs[k].reply.to
  /\ \A j \in DOMAIN msgs : IsReply(msgs[j]) => msgs[j].reply.to \in from + 1 .. upto
  /\ \A n \in from + 1 .. upto : \E j \in DOMAIN msgs : IsReply(msgs[j]) /\ msgs[j].reply.to = n

Delivered ==
  /\ Received <= answered
  /\ reader \in {"put", "count"} => current.to = Received
  /\ keep_replies =>
       /\ taken + Len(replies) = reply_count + (IF reader = "count" THEN 1 ELSE 0)
       /\ \A j \in DOMAIN replies : replies[j].to = taken + j
  /\ ~ keep_replies => replies = << >> /\ taken = 0
  /\ outcome.is = "reply" => outcome.reply.to = taken

LEMMA InOrderIs == InOrder <=> Sent /\ Transit(down, Received, answered) /\ Delivered
BY DEF InOrder, Sent, Transit, Delivered

\* A message that is no reply does not disturb the order of replies.
LEMMA OtherSent ==
  ASSUME NEW msgs \in Seq(Msg), NEW m \in Msg, ~ IsReply(m),
         NEW from \in Nat, NEW upto \in Nat, Transit(msgs, from, upto)
  PROVE  Transit(Append(msgs, m), from, upto)
<1> DEFINE q == Append(msgs, m)
<1>1. /\ q \in Seq(Msg) /\ Len(q) = Len(msgs) + 1 /\ q[Len(msgs) + 1] = m
      /\ \A j \in 1 .. Len(msgs) : q[j] = msgs[j]
  BY AppendProperties
<1> HIDE DEF q
<1>2. \A j \in DOMAIN q : IsReply(q[j]) => j \in DOMAIN msgs /\ q[j] = msgs[j]
  BY <1>1
<1>3. DOMAIN msgs \subseteq DOMAIN q
  BY <1>1
<1>4. \A j \in DOMAIN msgs : q[j] = msgs[j]
  BY <1>1
<1>5. Transit(q, from, upto)
  BY <1>2, <1>3, <1>4 DEF Transit
<1> QED
  BY <1>5 DEF q

\* The reply to the next command goes behind the others.
LEMMA ReplySent ==
  ASSUME NEW msgs \in Seq(Msg), NEW m \in Msg, IsReply(m),
         NEW from \in Nat, NEW upto \in Nat, from <= upto, m.reply.to = upto + 1,
         Transit(msgs, from, upto)
  PROVE  Transit(Append(msgs, m), from, upto + 1)
<1> DEFINE q == Append(msgs, m)
           l == Len(msgs) + 1
<1>1. /\ q \in Seq(Msg) /\ Len(q) = l /\ q[l] = m /\ l \in Nat
      /\ \A j \in 1 .. Len(msgs) : q[j] = msgs[j]
  BY AppendProperties
<1>2. DOMAIN q = 1 .. l /\ DOMAIN msgs = 1 .. l - 1 /\ l - 1 = Len(msgs)
  BY <1>1
<1> HIDE DEF q, l
<1>3. ASSUME NEW j \in DOMAIN q, NEW k \in DOMAIN q, IsReply(q[j]), IsReply(q[k]), j < k
      PROVE  q[j].reply.to < q[k].reply.to
  <2>1. j \in DOMAIN msgs /\ q[j] = msgs[j]
    BY <1>1, <1>2, <1>3
  <2>2. CASE k = l
    <3>1. msgs[j].reply.to \in from + 1 .. upto
      BY <1>3, <2>1 DEF Transit
    <3> QED
      BY <1>1, <2>1, <2>2, <3>1
  <2>3. CASE k # l
    <3>1. k \in DOMAIN msgs /\ q[k] = msgs[k]
      BY <1>1, <1>2, <2>3
    <3> QED
      BY <1>3, <2>1, <3>1 DEF Transit
  <2> QED
    BY <2>2, <2>3
<1>4. ASSUME NEW j \in DOMAIN q, IsReply(q[j])
      PROVE  q[j].reply.to \in from + 1 .. upto + 1
  <2>1. CASE j = l
    BY <1>1, <2>1
  <2>2. CASE j # l
    <3>1. j \in DOMAIN msgs /\ q[j] = msgs[j]
      BY <1>1, <1>2, <2>2
    <3>2. msgs[j].reply.to \in from + 1 .. upto
      BY <1>4, <3>1 DEF Transit
    <3> QED
      BY <3>1, <3>2
  <2> QED
    BY <2>1, <2>2
<1>5. ASSUME NEW n \in from + 1 .. upto + 1
      PROVE  \E j \in DOMAIN q : IsReply(q[j]) /\ q[j].reply.to = n
  <2>1. CASE n = upto + 1
    <3>1. l \in DOMAIN q
      BY <1>1, <1>2
    <3> QED
      BY <1>1, <2>1, <3>1
  <2>2. CASE n # upto + 1
    <3>1. n \in from + 1 .. upto
      BY <2>2
    <3>2. PICK j \in DOMAIN msgs : IsReply(msgs[j]) /\ msgs[j].reply.to = n
      BY <3>1 DEF Transit
    <3>3. j \in DOMAIN q /\ q[j] = msgs[j]
      BY <1>1, <1>2
    <3> QED
      BY <3>2, <3>3
  <2> QED
    BY <2>1, <2>2
<1>6. Transit(q, from, upto + 1)
  BY <1>3, <1>4, <1>5 DEF Transit
<1> QED
  BY <1>6 DEF q

\* The rest of the messages, once the first has been read.
LEMMA TailIs ==
  ASSUME NEW S, NEW msgs \in Seq(S), msgs # << >>
  PROVE  /\ Len(msgs) \in Nat \ {0} /\ DOMAIN msgs = 1 .. Len(msgs)
         /\ DOMAIN Tail(msgs) = 1 .. Len(msgs) - 1
         /\ \A j \in 1 .. Len(msgs) - 1 : Tail(msgs)[j] = msgs[j + 1]
         /\ Head(msgs) = msgs[1] /\ 1 \in DOMAIN msgs
<1>1. Len(msgs) \in Nat \ {0} /\ DOMAIN msgs = 1 .. Len(msgs)
  BY EmptySeq
<1>2. /\ Tail(msgs) \in Seq(S) /\ Len(Tail(msgs)) = Len(msgs) - 1
      /\ \A j \in 1 .. Len(Tail(msgs)) : Tail(msgs)[j] = msgs[j + 1]
      /\ Head(msgs) = msgs[1]
  BY HeadTailProperties
<1>3. DOMAIN Tail(msgs) = 1 .. Len(Tail(msgs))
  BY <1>2
<1> QED
  BY <1>1, <1>2, <1>3

LEMMA OtherRead ==
  ASSUME NEW msgs \in Seq(Msg), msgs # << >>, ~ IsReply(Head(msgs)),
         NEW from \in Nat, NEW upto \in Nat, Transit(msgs, from, upto)
  PROVE  Transit(Tail(msgs), from, upto)
<1> DEFINE q == Tail(msgs)
           l == Len(msgs)
<1>1. /\ l \in Nat \ {0} /\ DOMAIN msgs = 1 .. l /\ DOMAIN q = 1 .. l - 1
      /\ \A j \in 1 .. l - 1 : q[j] = msgs[j + 1]
      /\ ~ IsReply(msgs[1])
  BY TailIs
<1> HIDE DEF q, l
<1>2. \A j \in DOMAIN q : j + 1 \in DOMAIN msgs /\ q[j] = msgs[j + 1] /\ j \in Nat
  BY <1>1
<1>3. \A j \in DOMAIN msgs : IsReply(msgs[j]) => j - 1 \in DOMAIN q /\ q[j - 1] = msgs[j]
  BY <1>1
<1>4. Transit(q, from, upto)
  <2>1. ASSUME NEW j \in DOMAIN q, NEW k \in DOMAIN q, IsReply(q[j]), IsReply(q[k]), j < k
        PROVE  q[j].reply.to < q[k].reply.to
    <3>1. j + 1 < k + 1
      BY <1>2, <2>1
    <3> QED
      BY <1>2, <2>1, <3>1 DEF Transit
  <2>2. ASSUME NEW j \in DOMAIN q, IsReply(q[j])
        PROVE  q[j].reply.to \in from + 1 .. upto
    BY <1>2, <2>2 DEF Transit
  <2>3. ASSUME NEW n \in from + 1 .. upto
        PROVE  \E j \in DOMAIN q : IsReply(q[j]) /\ q[j].reply.to = n
    <3>1. PICK j \in DOMAIN msgs : IsReply(msgs[j]) /\ msgs[j].reply.to = n
      BY DEF Transit
    <3> QED
      BY <1>3, <3>1
  <2> QED
    BY <2>1, <2>2, <2>3 DEF Transit
<1> QED
  BY <1>4 DEF q

\* The first reply in transit is the next one.
LEMMA ReplyRead ==
  ASSUME NEW msgs \in Seq(Msg), msgs # << >>, IsReply(Head(msgs)),
         NEW from \in Nat, NEW upto \in Nat, Transit(msgs, from, upto)
  PROVE  /\ Head(msgs).reply.to = from + 1 /\ from + 1 <= upto
         /\ Transit(Tail(msgs), from + 1, upto)
<1> DEFINE q == Tail(msgs)
           l == Len(msgs)
<1>1. /\ l \in Nat \ {0} /\ DOMAIN msgs = 1 .. l /\ DOMAIN q = 1 .. l - 1
      /\ \A j \in 1 .. l - 1 : q[j] = msgs[j + 1]
      /\ IsReply(msgs[1]) /\ Head(msgs) = msgs[1] /\ 1 \in DOMAIN msgs
  BY TailIs
<1> HIDE DEF q, l
<1>2. msgs[1].reply.to \in from + 1 .. upto
  BY <1>1 DEF Transit
<1>3. msgs[1].reply.to = from + 1
  <2>1. from + 1 \in from + 1 .. upto
    BY <1>2
  <2>2. PICK j \in DOMAIN msgs : IsReply(msgs[j]) /\ msgs[j].reply.to = from + 1
    BY <2>1 DEF Transit
  <2>3. CASE j = 1
    BY <2>2, <2>3
  <2>4. CASE j # 1
    <3>1. 1 < j
      BY <1>1, <2>4
    <3>2. msgs[1].reply.to < msgs[j].reply.to
      BY <1>1, <2>2, <3>1 DEF Transit
    <3> QED
      BY <1>2, <2>2, <3>2
  <2> QED
    BY <2>3, <2>4
<1>4. \A j \in DOMAIN q : j + 1 \in DOMAIN msgs /\ q[j] = msgs[j + 1] /\ j \in Nat \ {0}
  BY <1>1
<1>5. \A j \in DOMAIN msgs : j # 1 => j - 1 \in DOMAIN q /\ q[j - 1] = msgs[j]
  BY <1>1
<1>6. Transit(q, from + 1, upto)
  <2>1. ASSUME NEW j \in DOMAIN q, NEW k \in DOMAIN q, IsReply(q[j]), IsReply(q[k]), j < k
        PROVE  q[j].reply.to < q[k].reply.to
    <3>1. j + 1 < k + 1
      BY <1>4, <2>1
    <3> QED
      BY <1>4, <2>1, <3>1 DEF Transit
  <2>2. ASSUME NEW j \in DOMAIN q, IsReply(q[j])
        PROVE  q[j].reply.to \in from + 2 .. upto
    <3>1. 1 < j + 1 /\ j + 1 \in DOMAIN msgs /\ q[j] = msgs[j + 1]
      BY <1>4
    <3>2. msgs[j + 1].reply.to \in from + 1 .. upto /\ msgs[1].reply.to < msgs[j + 1].reply.to
      BY <1>1, <2>2, <3>1 DEF Transit
    <3> QED
      BY <1>3, <3>1, <3>2
  <2>3. ASSUME NEW n \in from + 2 .. upto
        PROVE  \E j \in DOMAIN q : IsReply(q[j]) /\ q[j].reply.to = n
    <3>1. n \in from + 1 .. upto
      OBVIOUS
    <3>2. PICK j \in DOMAIN msgs : IsReply(msgs[j]) /\ msgs[j].reply.to = n
      BY <3>1 DEF Transit
    <3>3. j # 1
      BY <1>3, <3>2
    <3> QED
      BY <1>5, <3>2, <3>3
  <2>4. (from + 1) + 1 = from + 2
    OBVIOUS
  <2> QED
    BY <2>1, <2>2, <2>3, <2>4 DEF Transit
<1> QED
  BY <1>1, <1>2, <1>3, <1>6 DEF q

LEMMA ReceivedIs ==
  ASSUME TypeOK
  PROVE  Received \in Nat
BY DEF TypeOK, Received

LEMMA OrderServer ==
  ASSUME TypeOK, Sent, Transit(down, Received, answered), Delivered, Server
  PROVE  Sent' /\ Transit(down, Received, answered)' /\ Delivered'
<1> USE DEF shared, thread, caller
<1>a. Received \in Nat
  BY ReceivedIs
<1>b. Received <= answered
  BY DEF Delivered
<1>c. down \in Seq(Msg) /\ answered \in Nat /\ up \in Seq(Cmd) /\ issued \in Nat
  BY DEF TypeOK
<1>d. UNCHANGED <<shared, thread, caller>>
  BY DEF Server, Serve, SendFrame, EndMatch, Garble, CloseServer
<1>e. Received' = Received
  BY <1>d DEF Received
<1>f. ASSUME answered' = answered \/ answered' = answered + 1
      PROVE  Delivered'
  <2>1. Received' <= answered'
    BY <1>a, <1>b, <1>c, <1>e, <1>f
  <2>2. UNCHANGED <<replies, reply_count, keep_replies, reader, current, outcome, taken>>
    BY <1>d
  <2> QED
    BY <1>e, <2>1, <2>2 DEF Delivered
<1>1. CASE Serve
  <2>1. /\ answered' = answered + 1 /\ server = "up" /\ up # << >>
        /\ IF Head(up).kind = "QUIT" THEN up' = << >> /\ server' = "closed"
           ELSE up' = Tail(up) /\ server' = "up"
    BY <1>1 DEF Serve
  <2>2. /\ Len(up) \in Nat \ {0} /\ DOMAIN up = 1 .. Len(up)
        /\ DOMAIN Tail(up) = 1 .. Len(up) - 1
        /\ \A j \in 1 .. Len(up) - 1 : Tail(up)[j] = up[j + 1]
        /\ Head(up) = up[1] /\ 1 \in DOMAIN up
    BY <1>c, <2>1, TailIs
  <2>3. Len(up) = issued - answered /\ \A j \in DOMAIN up : up[j].id = answered + j
    BY <2>1 DEF Sent
  <2>4. Head(up).id = answered + 1
    BY <2>2, <2>3
  <2>5. Sent'
    <3>a. issued' = issued
      BY <1>d
    <3>1. answered' <= issued'
      BY <1>c, <2>1, <2>2, <2>3, <3>a
    <3>2. CASE Head(up).kind = "QUIT"
      BY <2>1, <3>1, <3>2 DEF Sent
    <3>3. CASE Head(up).kind # "QUIT"
      <4>1. Len(Tail(up)) = Len(up) - 1
        BY <1>c, <2>1, HeadTailProperties
      <4>2. Len(up') = issued' - answered'
        <5>1. up' = Tail(up) /\ answered' = answered + 1
          BY <2>1, <3>3
        <5>2. Len(Tail(up)) = issued - (answered + 1)
          BY <1>c, <2>2, <2>3, <4>1
        <5> QED
          BY <3>a, <5>1, <5>2
      <4>3. ASSUME NEW j \in DOMAIN up'
            PROVE  up'[j].id = answered' + j
        <5>1. j \in 1 .. Len(up) - 1 /\ up'[j] = up[j + 1] /\ j + 1 \in DOMAIN up
          BY <2>1, <2>2, <3>3, <4>3
        <5>2. up[j + 1].id = answered + (j + 1)
          BY <2>3, <5>1
        <5> QED
          BY <1>c, <2>1, <2>2, <5>1, <5>2
      <4> QED
        BY <2>1, <3>1, <3>3, <4>2, <4>3 DEF Sent
    <3> QED
      BY <3>2, <3>3
  <2>6. Transit(down', Received, answered + 1)
    <3>1. PICK k \in Answers(Head(up).kind) :
            down' = Append(down, ReplyMsg([to |-> Head(up).id, kind |-> k]))
      BY <1>1 DEF Serve
    <3> DEFINE m == ReplyMsg([to |-> Head(up).id, kind |-> k])
    <3>2. Head(up) \in Cmd
      BY <1>c, <2>1
    <3>3. m \in Msg
      <4>1. k \in ReplyKinds
        BY <3>2 DEF Answers, ReplyKinds, Cmd, CmdKinds
      <4>2. [to |-> Head(up).id, kind |-> k] \in Reply
        BY <3>2, <4>1 DEF Reply, Cmd
      <4> QED
        BY <4>2 DEF ReplyMsg, Msg
    <3>4. IsReply(m) /\ m.reply.to = answered + 1
      BY <2>4 DEF ReplyMsg, IsReply
    <3> HIDE DEF m
    <3>5. Transit(Append(down, m), Received, answered + 1)
      BY <1>a, <1>b, <1>c, <3>3, <3>4, ReplySent
    <3> QED
      BY <3>1, <3>5 DEF m
  <2>7. Delivered'
    BY <1>f, <2>1
  <2> QED
    BY <1>e, <2>1, <2>5, <2>6, <2>7 DEF Transit
<1>2. CASE SendFrame \/ EndMatch \/ Garble
  <2>1. \E m \in {FrameMsg(tick + 1), GameOver, Garbage} : down' = Append(down, m)
    BY <1>2 DEF SendFrame, EndMatch, Garble
  <2>2. PICK m \in {FrameMsg(tick + 1), GameOver, Garbage} : down' = Append(down, m)
    BY <2>1
  <2>3. m \in Msg /\ ~ IsReply(m)
    BY DEF FrameMsg, GameOver, Garbage, Msg, IsReply, TypeOK
  <2>4. Transit(down', Received, answered)
    BY <1>a, <1>c, <2>2, <2>3, OtherSent
  <2>5. UNCHANGED <<up, server, answered>>
    BY <1>2 DEF SendFrame, EndMatch, Garble
  <2> QED
    BY <1>c, <1>d, <1>e, <1>f, <2>4, <2>5 DEF Sent, Transit
<1>3. CASE CloseServer
  <2>1. UNCHANGED <<down, answered>> /\ server' = "closed" /\ up' = << >>
    BY <1>3 DEF CloseServer
  <2> QED
    BY <1>c, <1>d, <1>e, <1>f, <2>1 DEF Sent, Transit
<1> QED
  BY <1>1, <1>2, <1>3 DEF Server

LEMMA OrderReader ==
  ASSUME TypeOK, Sent, Transit(down, Received, answered), Delivered, Reader
  PROVE  Sent' /\ Transit(down, Received, answered)' /\ Delivered'
<1>a. Received \in Nat /\ Received <= answered
  BY ReceivedIs DEF Delivered
<1>b. /\ down \in Seq(Msg) /\ answered \in Nat /\ reply_count \in Nat /\ taken \in Nat
      /\ replies \in Seq(Reply)
  BY DEF TypeOK
<1>c. UNCHANGED <<up, server, answered, issued, taken, keep_replies, outcome>>
  BY DEF Reader, ReadFrame, ReadGameOver, SetGameOver, ReadReply, PutReply, CountReply, ReadEnd,
         SetClosed, WakeFrames, WakeReplies, Consume, wire, shared, caller
<1>d. Sent'
  BY <1>c DEF Sent
<1>1. CASE ReadFrame \/ ReadGameOver
  <2>1. /\ down # << >> /\ ~ IsReply(Head(down)) /\ down' = Tail(down) /\ reader = "read"
        /\ reader' \in {"read", "flag"} /\ UNCHANGED <<reply_count, replies, current>>
    BY <1>1 DEF ReadFrame, ReadGameOver, Reads, Consume, IsReply, thread
  <2>2. Transit(Tail(down), Received, answered)
    BY <1>a, <1>b, <2>1, OtherRead
  <2>3. Received' = Received
    BY <2>1 DEF Received
  <2>4. Delivered'
    BY <1>c, <2>1, <2>3 DEF Delivered
  <2> QED
    BY <1>c, <1>d, <2>1, <2>2, <2>3, <2>4 DEF Transit
<1>2. CASE ReadReply
  <2>1. /\ down # << >> /\ IsReply(Head(down)) /\ down' = Tail(down)
        /\ reader = "read" /\ reader' = "put" /\ current' = Head(down).reply
        /\ UNCHANGED <<reply_count, replies>>
    BY <1>2 DEF ReadReply, Reads, Consume, IsReply
  <2>2. /\ Head(down).reply.to = Received + 1 /\ Received + 1 <= answered
        /\ Transit(Tail(down), Received + 1, answered)
    BY <1>a, <1>b, <2>1, ReplyRead
  <2>3. Received' = Received + 1
    BY <1>b, <2>1 DEF Received
  <2>4. Delivered'
    BY <1>c, <2>1, <2>2, <2>3 DEF Delivered
  <2> QED
    BY <1>c, <1>d, <2>1, <2>2, <2>3, <2>4 DEF Transit
<1>3. CASE PutReply
  <2>1. /\ reader = "put" /\ reader' = "count" /\ replies' = Kept(replies, current)
        /\ UNCHANGED <<down, reply_count, current>>
    BY <1>3 DEF PutReply, wire
  <2>2. Received' = Received /\ Received = reply_count + 1 /\ current.to = Received
    BY <2>1 DEF Received, Delivered
  <2>3. CASE keep_replies
    <3>1. taken + Len(replies) = reply_count /\ \A j \in DOMAIN replies : replies[j].to = taken + j
      BY <1>b, <2>1, <2>3 DEF Delivered
    <3>2. /\ replies' = Append(replies, current) /\ current \in Reply
      BY <2>1, <2>3 DEF Kept, TypeOK
    <3>3. /\ Len(replies') = Len(replies) + 1 /\ replies'[Len(replies) + 1] = current
          /\ \A j \in 1 .. Len(replies) : replies'[j] = replies[j]
          /\ replies' \in Seq(Reply)
      BY <1>b, <3>2, AppendProperties
    <3>4. ASSUME NEW j \in DOMAIN replies'
          PROVE  replies'[j].to = taken + j
      <4>1. CASE j = Len(replies) + 1
        BY <1>b, <2>2, <3>1, <3>3, <4>1
      <4>2. CASE j # Len(replies) + 1
        <5>1. j \in 1 .. Len(replies) /\ j \in DOMAIN replies
          BY <1>b, <3>3, <3>4, <4>2
        <5> QED
          BY <3>1, <3>3, <5>1
      <4> QED
        BY <4>1, <4>2
    <3>5. taken + Len(replies') = reply_count + 1
      BY <1>b, <3>1, <3>3
    <3> QED
      BY <1>a, <1>c, <1>d, <2>1, <2>2, <2>3, <3>4, <3>5 DEF Delivered, Transit
  <2>4. CASE ~ keep_replies
    <3>1. replies' = replies
      BY <2>1, <2>4 DEF Kept
    <3> QED
      BY <1>a, <1>c, <1>d, <2>1, <2>2, <2>4, <3>1 DEF Delivered, Transit
  <2> QED
    BY <2>3, <2>4
<1>4. CASE CountReply
  <2>1. /\ reader = "count" /\ reader' = "read" /\ reply_count' = reply_count + 1
        /\ UNCHANGED <<down, replies, current>>
    BY <1>4 DEF CountReply, wire
  <2>2. Received' = Received
    BY <1>b, <2>1 DEF Received
  <2>3. Delivered'
    BY <1>b, <1>c, <2>1, <2>2 DEF Delivered
  <2> QED
    BY <1>c, <1>d, <2>1, <2>2, <2>3 DEF Transit
<1>5. CASE SetGameOver \/ ReadEnd \/ SetClosed \/ WakeFrames \/ WakeReplies
  <2>1. /\ UNCHANGED <<down, replies, reply_count, current>>
        /\ reader \notin {"put", "count"} /\ reader' \notin {"put", "count"}
    BY <1>5 DEF SetGameOver, ReadEnd, SetClosed, WakeFrames, WakeReplies, wire, shared
  <2>2. Received' = Received
    BY <2>1 DEF Received
  <2>3. Delivered'
    BY <1>b, <1>c, <2>1, <2>2 DEF Delivered
  <2> QED
    BY <1>c, <1>d, <2>1, <2>2, <2>3 DEF Transit
<1> QED
  BY <1>1, <1>2, <1>3, <1>4, <1>5 DEF Reader

LEMMA OrderCaller ==
  ASSUME TypeOK, Shape, Sent, Transit(down, Received, answered), Delivered,
         AnyCall \/ Proceed \/ Expire
  PROVE  Sent' /\ Transit(down, Received, answered)' /\ Delivered'
<1>a. /\ answered \in Nat /\ issued \in Nat /\ taken \in Nat /\ up \in Seq(Cmd)
      /\ replies \in Seq(Reply)
  BY DEF TypeOK
<1>b. UNCHANGED <<down, answered, reader, current, reply_count, keep_replies>>
  <2>1. CASE AnyCall
    BY <2>1, CallBegins DEF wire, shared, thread
  <2>2. CASE Proceed \/ Expire
    BY <2>2 DEF Proceed, Expire, Sendall, SendallRaises, CountLine, GetReply, NoReplyCame,
                WaitEnds, WaitGivesUp, Sleep, Close, GetExpires, SleepExpires, wire, shared, thread
  <2> QED
    BY <2>1, <2>2
<1>c. Received' = Received /\ Transit(down, Received, answered)'
  BY <1>b DEF Received, Transit
<1>1. CASE GetReply
  <2>1. /\ replies # << >> /\ Return(Got(Head(replies))) /\ replies' = Tail(replies)
        /\ taken' = taken + 1 /\ UNCHANGED <<up, server, issued>> /\ keep_replies
    BY <1>1 DEF GetReply, wire, Shape
  <2>2. outcome' = Got(Head(replies))
    BY <2>1 DEF Return
  <2>3. /\ Len(replies) \in Nat \ {0} /\ DOMAIN replies = 1 .. Len(replies)
        /\ DOMAIN Tail(replies) = 1 .. Len(replies) - 1
        /\ \A j \in 1 .. Len(replies) - 1 : Tail(replies)[j] = replies[j + 1]
        /\ Head(replies) = replies[1] /\ 1 \in DOMAIN replies
    BY <1>a, <2>1, TailIs
  <2>4. Len(Tail(replies)) = Len(replies) - 1
    BY <1>a, <2>1, HeadTailProperties
  <2>5. \A j \in DOMAIN replies : replies[j].to = taken + j
    BY <2>1 DEF Delivered
  <2>6. outcome'.reply.to = taken'
    BY <2>1, <2>2, <2>3, <2>5 DEF Got
  <2>7. ASSUME NEW j \in DOMAIN replies'
        PROVE  replies'[j].to = taken' + j
    <3>1. j \in 1 .. Len(replies) - 1 /\ replies'[j] = replies[j + 1] /\ j + 1 \in DOMAIN replies
      BY <2>1, <2>3, <2>7
    <3>2. replies[j + 1].to = taken + (j + 1)
      BY <2>5, <3>1
    <3> QED
      BY <1>a, <2>1, <2>3, <3>1, <3>2
  <2>8. taken + Len(replies) = reply_count + (IF reader = "count" THEN 1 ELSE 0)
    BY <2>1 DEF Delivered
  <2>9. taken' + Len(replies') = taken + Len(replies)
    BY <1>a, <2>1, <2>3, <2>4
  <2>10. Delivered'
    BY <1>b, <1>c, <2>1, <2>6, <2>7, <2>8, <2>9 DEF Delivered
  <2>11. Sent'
    BY <1>b, <2>1 DEF Sent
  <2> QED
    BY <1>c, <2>10, <2>11
<1>2. CASE ~ GetReply
  <2>1. UNCHANGED <<taken, replies>>
    <3>1. CASE AnyCall
      BY <3>1, CallBegins DEF shared
    <3>2. CASE Proceed \/ Expire
      BY <1>2, <3>2 DEF Proceed, Expire, Sendall, SendallRaises, CountLine, NoReplyCame,
                        WaitEnds, WaitGivesUp, Sleep, Close, GetExpires, SleepExpires, shared
    <3> QED
      BY <3>1, <3>2
  <2>2. outcome' = outcome \/ outcome'.is # "reply"
    <3>1. CASE AnyCall
      BY <3>1, CallBegins
    <3>2. ASSUME NEW o, Return(o), o.is # "reply"
          PROVE  outcome'.is # "reply"
      BY <3>2 DEF Return
    <3>3. FrameOrError.is # "reply" /\ SyncResult.is # "reply"
      BY DEF FrameOrError, SyncResult, Saw, Raised, Synced
    <3>4. CASE WaitEnds
      BY <3>2, <3>3, <3>4 DEF WaitEnds
    <3>5. CASE SendallRaises \/ NoReplyCame \/ WaitGivesUp
      BY <3>2, <3>5 DEF SendallRaises, NoReplyCame, WaitGivesUp, Raised
    <3>6. CASE CountLine
      <4>1. call.op \in {"send", "request", "quit"}
        BY <3>6 DEF CountLine, Shape
      <4>2. UNCHANGED outcome \/ Return(Done)
        BY <3>6, <4>1 DEF CountLine, TypeOK
      <4> QED
        BY <3>2, <4>2 DEF Done
    <3>7. CASE Sendall \/ Sleep \/ Close \/ Expire
      BY <3>7 DEF Sendall, Sleep, Close, Expire, GetExpires, SleepExpires, Done
    <3> QED
      BY <1>2, <3>1, <3>4, <3>5, <3>6, <3>7 DEF Proceed
  <2>3. Delivered'
    BY <1>b, <1>c, <2>1, <2>2 DEF Delivered
  <2>4. CASE Sendall
    <3>1. /\ issued' = issued + 1 /\ server' = server
          /\ up' = IF server = "up" THEN Append(up, [id |-> issued + 1, kind |-> call.cmd]) ELSE up
      BY <2>4 DEF Sendall
    <3>2. CASE server = "up"
      <4> DEFINE c == [id |-> issued + 1, kind |-> call.cmd]
      <4>1. c \in Cmd /\ c.id = issued + 1
        BY <1>a DEF Cmd, TypeOK, Call
      <4>2. up' = Append(up, c)
        BY <3>1, <3>2
      <4> HIDE DEF c
      <4>3. /\ Len(up') = Len(up) + 1 /\ up'[Len(up) + 1] = c /\ up' \in Seq(Cmd)
            /\ \A j \in 1 .. Len(up) : up'[j] = up[j]
        BY <1>a, <4>1, <4>2, AppendProperties
      <4>4. Len(up) = issued - answered /\ \A j \in DOMAIN up : up[j].id = answered + j
        BY <3>2 DEF Sent
      <4>5. ASSUME NEW j \in DOMAIN up'
            PROVE  up'[j].id = answered + j
        <5>1. CASE j = Len(up) + 1
          BY <1>a, <4>1, <4>3, <4>4, <5>1
        <5>2. CASE j # Len(up) + 1
          <6>1. j \in 1 .. Len(up) /\ j \in DOMAIN up
            BY <1>a, <4>3, <4>5, <5>2
          <6> QED
            BY <4>3, <4>4, <6>1
        <5> QED
          BY <5>1, <5>2
      <4>6. Len(up') = issued' - answered
        BY <1>a, <3>1, <4>3, <4>4
      <4>7. answered <= issued'
        BY <1>a, <3>1 DEF Sent
      <4> QED
        BY <1>b, <1>c, <2>3, <3>1, <3>2, <4>5, <4>6, <4>7 DEF Sent
    <3>3. CASE server # "up"
      BY <1>a, <1>b, <1>c, <2>3, <3>1, <3>3 DEF Sent
    <3> QED
      BY <3>2, <3>3
  <2>5. CASE ~ Sendall
    <3>1. UNCHANGED <<up, server, issued>>
      <4>1. CASE AnyCall
        BY <4>1, CallBegins DEF wire
      <4>2. CASE Proceed \/ Expire
        BY <1>2, <2>5, <4>2 DEF Proceed, Expire, SendallRaises, CountLine, NoReplyCame,
                        WaitEnds, WaitGivesUp, Sleep, Close, GetExpires, SleepExpires, wire
      <4> QED
        BY <4>1, <4>2
    <3> QED
      BY <1>b, <1>c, <2>3, <3>1 DEF Sent
  <2> QED
    BY <2>4, <2>5
<1> QED
  BY <1>1, <1>2

LEMMA OrderStep ==
  ASSUME TypeOK, Shape, InOrder, AnyNext
  PROVE  InOrder'
<1>1. Sent /\ Transit(down, Received, answered) /\ Delivered
  BY InOrderIs
<1>2. Sent' /\ Transit(down, Received, answered)' /\ Delivered'
  BY <1>1, OrderServer, OrderReader, OrderCaller DEF AnyNext
<1>3. InOrder' <=> Sent' /\ Transit(down, Received, answered)' /\ Delivered'
  BY InOrderIs, PTL
<1> QED
  BY <1>2, <1>3

-----------------------------------------------------------------------------
(* What sync has reported.                                                 *)

\* When every command has been answered and read, nothing is on its way.
LEMMA AllRead ==
  ASSUME TypeOK, InOrder, reply_count = issued
  PROVE  /\ answered = issued /\ up = << >> /\ Received = reply_count
         /\ reader \notin {"put", "count"}
         /\ \A j \in DOMAIN down : ~ IsReply(down[j])
<1>1. /\ reply_count \in Nat /\ answered \in Nat /\ issued \in Nat /\ up \in Seq(Cmd)
      /\ server \in {"up", "closed"} /\ Received \in Nat
  BY ReceivedIs DEF TypeOK
<1>2. Received <= answered /\ answered <= issued
  BY DEF InOrder
<1>3. Received = reply_count + (IF reader \in {"put", "count"} THEN 1 ELSE 0)
  BY DEF Received
<1>4. answered = issued /\ Received = reply_count /\ reader \notin {"put", "count"}
  BY <1>1, <1>2, <1>3
<1>5. up = << >>
  <2>1. server = "up" => Len(up) = 0
    BY <1>1, <1>4 DEF InOrder
  <2>2. Len(up) = 0 => up = << >>
    BY <1>1, EmptySeq
  <2> QED
    BY <1>1, <2>1, <2>2 DEF InOrder
<1>6. ASSUME NEW j \in DOMAIN down, IsReply(down[j])
      PROVE  FALSE
  <2>1. down[j].reply.to \in Received + 1 .. answered
    BY <1>6 DEF InOrder
  <2> QED
    BY <1>1, <1>4, <2>1
<1> QED
  BY <1>4, <1>5, <1>6

LEMMA SettledStep ==
  ASSUME TypeOK, Shape, Counted, InOrder, Settled, AnyNext
  PROVE  Settled'
<1>1. CASE Server
  BY <1>1 DEF Server, Serve, SendFrame, EndMatch, Garble, CloseServer, shared, caller, Settled,
              Ended, Idle
<1>2. CASE Reader
  <2>1. /\ UNCHANGED <<outcome, issued>>
        /\ \/ UNCHANGED call
           \/ \E S \in {ForFrames, ForReplies} : Wakes(S)
    BY <1>2 DEF Reader, ReadFrame, ReadGameOver, SetGameOver, ReadReply, PutReply, CountReply,
                ReadEnd, SetClosed, WakeFrames, WakeReplies, shared, caller
  <2>2. Ended' => Ended
    BY <2>1 DEF Wakes, Ended, Idle, TypeOK, Call
  <2>3. CASE CountReply
    <3>1. reader = "count"
      BY <2>3 DEF CountReply
    <3>2. reply_count # issued
      BY <3>1, AllRead
    <3> QED
      BY <2>1, <2>2, <3>2 DEF Settled
  <2>4. CASE ~ CountReply
    <3>1. UNCHANGED reply_count
      BY <1>2, <2>4 DEF Reader, ReadFrame, ReadGameOver, SetGameOver, ReadReply, PutReply,
                ReadEnd, SetClosed, WakeFrames, WakeReplies, shared
    <3> QED
      BY <2>1, <2>2, <3>1 DEF Settled
  <2> QED
    BY <2>3, <2>4
<1>3. CASE AnyCall
  BY <1>3, CallBegins DEF Settled, Ended, Idle
<1>4. CASE WaitEnds
  <2>1. CASE call.op = "wait_frame"
    <3>1. outcome' = FrameOrError
      BY <1>4, <2>1 DEF WaitEnds, Return
    <3>2. FrameOrError.is # "synced" /\ Synced(TRUE).is = "synced"
      BY DEF FrameOrError, Saw, Raised, Synced
    <3> QED
      BY <3>1, <3>2 DEF Settled
  <2>2. CASE call.op # "wait_frame"
    <3>1. outcome' = Synced(reply_count >= lines_sent) /\ UNCHANGED <<reply_count, issued>>
          /\ call.at = "check"
      BY <1>4, <2>2 DEF WaitEnds, Return, SyncResult, shared
    <3>2. issued = lines_sent /\ issued \in Nat /\ reply_count \in Nat
      BY <3>1 DEF Counted, TypeOK
    <3>3. reply_count <= issued
      BY <3>2, ReceivedIs DEF InOrder, Received, TypeOK
    <3>4. outcome' = Synced(TRUE) => reply_count >= lines_sent
      BY <3>1 DEF Synced
    <3>5. reply_count >= issued => reply_count = issued
      BY <3>2, <3>3
    <3>6. outcome' = Synced(TRUE) => reply_count' = issued'
      BY <3>1, <3>2, <3>4, <3>5
    <3> QED
      BY <3>6 DEF Settled
  <2> QED
    BY <2>1, <2>2
<1>5. CASE (Proceed \/ Expire) /\ ~ WaitEnds
  <2>a. \A e \in Errors : Raised(e).is # "synced"
    BY DEF Raised, Errors
  <2>b. Got(Head(replies)).is # "synced"
    BY DEF Got
  <2>c. Synced(TRUE).is = "synced" /\ Done.is # "synced"
    BY DEF Synced, Done
  <2>1. /\ Synced(TRUE).is = "synced" /\ Done.is # "synced" /\ Got(Head(replies)).is # "synced"
        /\ \A e \in Errors : Raised(e).is # "synced"
    BY <2>a, <2>b, <2>c
  <2>2. CASE SendallRaises \/ NoReplyCame \/ WaitGivesUp \/ GetReply
    <3>1. outcome'.is # "synced"
      BY <2>1, <2>2 DEF SendallRaises, NoReplyCame, WaitGivesUp, GetReply, Return, Errors
    <3> QED
      BY <2>1, <3>1 DEF Settled
  <2>3. CASE CountLine
    <3>1. call.op \in {"send", "request", "quit"} /\ call \in Call /\ keep_replies \in BOOLEAN
      BY <2>3 DEF CountLine, Shape, TypeOK
    <3>2. \/ outcome' = Done
          \/ call' = [call EXCEPT !.at = "get"]
          \/ call' = [call EXCEPT !.at = "check"]
      BY <2>3, <3>1 DEF CountLine, Return
    <3> QED
      BY <2>1, <3>1, <3>2 DEF Settled, Ended, Idle, Call
  <2>4. CASE Close
    <3>1. CASE call.op = "close"
      BY <2>1, <2>4, <3>1 DEF Close, Settled
    <3>2. CASE call.op # "close"
      BY <2>4, <3>2 DEF Close, Settled, Ended, Shape, shared
    <3> QED
      BY <3>1, <3>2
  <2>5. CASE Sendall \/ Sleep \/ GetExpires \/ SleepExpires
    BY <2>5 DEF Sendall, Sleep, GetExpires, SleepExpires, Settled, Ended, Idle, TypeOK, Call
  <2> QED
    BY <1>5, <2>2, <2>3, <2>4, <2>5 DEF Proceed, Expire
<1> QED
  BY <1>1, <1>2, <1>3, <1>4, <1>5 DEF AnyNext

-----------------------------------------------------------------------------
(* The invariant.                                                          *)

LEMMA InitInv == Init => TankInv
<1> SUFFICES ASSUME Init PROVE TankInv
  OBVIOUS
<1>1. TypeOK
  BY InitTypes, TankClientAssumption
<1>2. Shape /\ Counted /\ Settled /\ NoLostWakeup
  BY <1>1 DEF Init, Shape, Counted, Settled, NoLostWakeup, NoCall, Done, Synced
<1>3. InOrder
  BY DEF Init, InOrder, Received, Done
<1> QED
  BY <1>1, <1>2, <1>3 DEF TankInv

LEMMA AnyStepInv == TankInv /\ [AnyNext]_vars => TankInv'
<1> SUFFICES ASSUME TankInv, [AnyNext]_vars PROVE TankInv'
  OBVIOUS
<1> USE DEF TankInv
<1>1. CASE AnyNext
  <2>1. TypeOK'
    BY <1>1, ServerTypes, ReaderTypes, CallTypes, ProceedTypes DEF AnyNext
  <2> QED
    BY <1>1, <2>1, ShapeStep, CountedStep, OrderStep, SettledStep, WakeStep
<1>2. CASE UNCHANGED vars
  <2>1. UNCHANGED <<up, down, sock, server, answered, tick, over, replies, reply_count,
                    lines_sent, frame, gameover, game_over, closed, my_id, keep_replies,
                    reader, current, call, outcome, issued, taken, expired>>
    BY <1>2 DEF vars, wire, shared, thread, caller
  <2>2. TypeOK' /\ Shape' /\ Counted'
    BY <2>1 DEF TypeOK, Shape, Counted
  <2>3. Settled' /\ NoLostWakeup'
    BY <2>1 DEF Settled, Ended, Idle, NoLostWakeup, Condition, NewFrame, AllAnswered
  <2>4. InOrder'
    BY <2>1 DEF InOrder, Received
  <2> QED
    BY <2>2, <2>3, <2>4
<1> QED
  BY <1>1, <1>2

\* The calls of Caller are among them.
LEMMA CallerCalls == TypeOK /\ Next => AnyNext
<1>1. TypeOK => NextCmd \in CmdKinds /\ {0, frame} \subseteq Nat
  BY DEF NextCmd, CmdKinds, TypeOK
<1>2. TypeOK /\ Caller => AnyCall
  BY <1>1 DEF Caller, AnyCall
<1> QED
  BY <1>2 DEF Next, AnyNext

LEMMA StepInv == TankInv /\ [Next]_vars => TankInv'
BY AnyStepInv, CallerCalls DEF TankInv

LEMMA Invariant == Spec => []TankInv
  BY InitInv, StepInv, PTL DEF Spec

(* Whatever the server sends and whenever it goes away, the shared state   *)
(* and the calls stay in their ranges (tankclient.py).                     *)
THEOREM TypeCorrect == Spec => []TypeOK
  BY Invariant, PTL DEF TankInv

(* For every number of commands and every capacity of the connection, the  *)
(* n-th reply that a caller gets answers the n-th command, whatever comes  *)
(* in between and however the connection ends (tankclient.py:14, _deliver, *)
(* next_reply).                                                            *)
THEOREM RepliesComeInOrder == Spec => []InOrder
  BY Invariant, PTL DEF TankInv

(* A caller that has never given up is never one reply behind              *)
(* (tankclient.py:request).                                                *)
THEOREM RequestsStayInStep == Spec => []InStep
<1>1. ASSUME TankInv, Idle, outcome.is = "reply", ~ expired
      PROVE  outcome.reply.to = issued
  <2>1. keep_replies /\ outcome.reply.to = taken /\ call.at = "idle"
    BY <1>1 DEF TankInv, Shape, InOrder, Idle
  <2>2. issued = taken + 0 /\ taken \in Nat
    BY <1>1, <2>1 DEF TankInv, Counted, TypeOK
  <2> QED
    BY <2>1, <2>2
<1>2. TankInv => InStep
  BY <1>1 DEF InStep
<1> QED
  BY <1>2, Invariant, PTL

(* When sync returns True, the server has answered everything that was     *)
(* sent, and every reply has been counted and queued (tankclient.py:sync,  *)
(* _deliver).                                                              *)
THEOREM SyncIsHonest == Spec => []SyncMeansAnswered
<1>1. ASSUME TankInv
      PROVE  SyncMeansAnswered
  <2> SUFFICES ASSUME Idle, outcome = Synced(TRUE)
               PROVE  /\ answered = issued /\ up = << >>
                      /\ keep_replies => taken + Len(replies) = issued
    BY DEF SyncMeansAnswered
  <2>1. TypeOK /\ InOrder /\ reply_count = issued
    BY <1>1 DEF TankInv, Settled, Ended
  <2>2. answered = issued /\ up = << >> /\ reader \notin {"put", "count"}
    BY <2>1, AllRead
  <2>3. keep_replies => taken + Len(replies) = reply_count + 0
    BY <2>1, <2>2 DEF InOrder
  <2> QED
    BY <2>1, <2>2, <2>3 DEF TypeOK
<1> QED
  BY <1>1, Invariant, PTL

(* No thread sleeps in sync or wait_frame once its condition holds, unless *)
(* the reader is about to notify it: the flag and the counters are set     *)
(* before the conditions are notified (tankclient.py:_read_loop, sync,     *)
(* wait_frame).                                                            *)
THEOREM WakeupsAreNotLost == Spec => []NoLostWakeup
  BY Invariant, PTL DEF TankInv

-----------------------------------------------------------------------------
(* The bot.                                                                *)

-----------------------------------------------------------------------------
(* The points of run at which no call is in progress, those at which one   *)
(* may be, and the method that was called there.                           *)
Resting == {"start", "join", "joined", "loop", "stopped", "finally", "shutdown", "done"}
Calling == {"joining", "join_sync", "frame", "acting", "spamming", "sync", "quitting",
            "closing"}

Method ==
  [joining |-> IF Spammer THEN "send" ELSE "request", join_sync |-> "sync",
   frame |-> "wait_frame", acting |-> "request", spamming |-> "send", sync |-> "sync",
   quitting |-> "quit", closing |-> "close"]

Where ==
  /\ at \in Resting \cup Calling /\ last_tick \in Nat
  /\ at \in Resting => Idle
  /\ at \in Calling /\ ~ Idle => call.op = Method[at]
  /\ at \in {"frame", "acting"} => ~ Spammer
  /\ at \in {"join_sync", "spamming", "sync"} => Spammer

(* A player that gave up on a reply does not play on.                      *)
Patient ==
  ~ Spammer =>
    /\ at \in {"start", "join", "joined", "loop", "frame", "stopped"} => ~ expired
    /\ at \in {"joining", "acting"} /\ expired => call.at = "expired" \/ (Idle /\ Failed)
    /\ at \in {"joining", "acting"} /\ Idle => Failed \/ outcome.is = "reply"

(* The end of run.                                                         *)
Leaving ==
  /\ at \in {"shutdown", "quitting", "closing", "done"} => joined /\ idle
  /\ at \in {"quitting", "closing"} /\ Idle => sock = "closed"
  /\ at = "done" /\ connected => sock = "closed" \/ closed

(* Why the reader has left its loop: an end of the connection is closed,   *)
(* or the line it would read next is malformed.  closed says that it has.  *)
Stopped ==
  /\ closed => reader \in {"wake_frames", "wake_replies", "gone"}
  /\ reader \in Ending \cup {"gone"} =>
       server = "closed" \/ sock = "closed" \/ StuckAtMalformed

BotInv == TankInv /\ Where /\ Patient /\ Leaving /\ Stopped

-----------------------------------------------------------------------------
(* What a step of the client does, seen from the bot.                      *)

\* While no call is in progress, nothing of the caller changes.
LEMMA QuietClient ==
  ASSUME TypeOK, Shape, Server \/ Reader \/ Proceed \/ Expire, Idle
  PROVE  UNCHANGED <<call, outcome, expired>>
<1> USE DEF Idle
<1>1. CASE Server
  BY <1>1 DEF Server, Serve, SendFrame, EndMatch, Garble, CloseServer, caller
<1>2. CASE Reader
  <2>1. UNCHANGED <<outcome, expired>>
    BY <1>2 DEF Reader, ReadFrame, ReadGameOver, SetGameOver, ReadReply, PutReply, CountReply,
                ReadEnd, SetClosed, WakeFrames, WakeReplies, caller
  <2>2. \/ UNCHANGED call
        \/ \E S \in {ForFrames, ForReplies} : Wakes(S)
    BY <1>2 DEF Reader, ReadFrame, ReadGameOver, SetGameOver, ReadReply, PutReply, CountReply,
                ReadEnd, SetClosed, WakeFrames, WakeReplies, caller
  <2> QED
    BY <2>1, <2>2 DEF Wakes
<1>3. CASE Proceed
  BY <1>3 DEF Proceed, Sendall, SendallRaises, CountLine, GetReply, NoReplyCame, WaitEnds,
              WaitGivesUp, Sleep, Close
<1>4. CASE Expire
  BY <1>4 DEF Expire, GetExpires, SleepExpires
<1> QED
  BY <1>1, <1>2, <1>3, <1>4

\* A call keeps its method; it ends with what its method returns or raises, and quit
\* and close end with a closed socket.
LEMMA ClientStep ==
  ASSUME TypeOK, Shape, Server \/ Reader \/ Proceed \/ Expire
  PROVE  /\ call'.op = call.op /\ keep_replies' = keep_replies
         /\ closed => closed'
         /\ sock = "closed" => sock' = "closed"
         /\ ~ Idle /\ Idle' => /\ call.op \in {"quit", "close"} => sock' = "closed"
                               /\ call.op = "request" =>
                                    outcome'.is \in Errors \cup {"reply"}
         /\ expired' => expired \/ (call'.at = "expired" /\ call.op \in {"request", "quit"})
         /\ call.at = "expired" /\ call'.at # "expired" /\ call.op = "request"
              => Idle' /\ outcome'.is \in Errors
<1> USE DEF Idle, TypeOK, Call
<1>1. CASE Server
  BY <1>1 DEF Server, Serve, SendFrame, EndMatch, Garble, CloseServer, caller, shared
<1>2. CASE Reader
  <2>1. UNCHANGED <<outcome, expired, keep_replies, sock>>
    BY <1>2 DEF Reader, ReadFrame, ReadGameOver, SetGameOver, ReadReply, PutReply, CountReply,
                ReadEnd, SetClosed, WakeFrames, WakeReplies, caller, shared, wire, Consume
  <2>2. \/ UNCHANGED call
        \/ \E S \in {ForFrames, ForReplies} : Wakes(S)
    BY <1>2 DEF Reader, ReadFrame, ReadGameOver, SetGameOver, ReadReply, PutReply, CountReply,
                ReadEnd, SetClosed, WakeFrames, WakeReplies, caller
  <2>3. closed => closed'
    BY <1>2 DEF Reader, ReadFrame, ReadGameOver, SetGameOver, ReadReply, PutReply, CountReply,
                ReadEnd, SetClosed, WakeFrames, WakeReplies, shared
  <2>4. /\ call'.op = call.op
        /\ ~ Idle => ~ Idle'
        /\ call.at = "expired" => call'.at = "expired"
    BY <2>2 DEF Wakes
  <2> QED
    BY <2>1, <2>3, <2>4
<1>3. CASE Proceed \/ Expire
  <2>1. UNCHANGED <<closed, keep_replies>>
    BY <1>3 DEF Proceed, Expire, Sendall, SendallRaises, CountLine, GetReply, NoReplyCame,
                WaitEnds, WaitGivesUp, Sleep, Close, GetExpires, SleepExpires, shared
  <2>2. CASE Sendall \/ Sleep \/ GetExpires \/ SleepExpires
    <3>1. /\ call'.at \in {"count", "asleep", "expired", "check"} /\ call'.op = call.op
          /\ sock' = sock /\ call.at # "expired"
          /\ UNCHANGED expired \/ (call'.at = "expired" /\ call.at = "get")
      BY <2>2 DEF Sendall, Sleep, GetExpires, SleepExpires, wire
    <3>2. ~ Idle' /\ (call.at = "get" => call.op \in {"request", "quit"})
      BY <3>1 DEF Shape
    <3>3. expired' => expired \/ (call'.at = "expired" /\ call.op \in {"request", "quit"})
      BY <3>1, <3>2
    <3> QED
      BY <2>1, <3>1, <3>2, <3>3
  <2>3. CASE SendallRaises
    BY <2>1, <2>3 DEF SendallRaises, Return, Raised, Errors, wire, Shape
  <2>4. CASE CountLine
    <3>1. call.at = "count" /\ call.op \in {"send", "request", "quit"} /\ UNCHANGED <<sock, expired>>
      BY <2>4 DEF CountLine, Shape, wire
    <3>2. \/ Return(Done) /\ call.op = "send"
          \/ call' = [call EXCEPT !.at = "get"]
          \/ call' = [call EXCEPT !.at = "check"]
      BY <2>4, <3>1 DEF CountLine
    <3>3. call'.op = call.op /\ (Idle' => call.op = "send")
      BY <3>2 DEF Return
    <3> QED
      BY <2>1, <3>1, <3>3
  <2>5. CASE GetReply
    BY <2>1, <2>5 DEF GetReply, Return, Got, wire, Shape
  <2>6. CASE NoReplyCame
    BY <2>1, <2>6 DEF NoReplyCame, Return, Raised, Errors, wire, Shape
  <2>7. CASE WaitEnds \/ WaitGivesUp
    BY <2>1, <2>7 DEF WaitEnds, WaitGivesUp, Return, wire, Shape
  <2>8. CASE Close
    BY <2>1, <2>8 DEF Close, Shape
  <2> QED
    BY <1>3, <2>2, <2>3, <2>4, <2>5, <2>6, <2>7, <2>8 DEF Proceed, Expire
<1> QED
  BY <1>1, <1>2, <1>3

\* What the bot's control says of its calls, and what the client does meanwhile.
LEMMA ClientKeeps ==
  ASSUME TankInv, Where, Patient, Leaving, connected,
         Server \/ Reader \/ Proceed \/ Expire, UNCHANGED bot
  PROVE  Where' /\ Patient' /\ Leaving'
<1> USE DEF TankInv, bot
<1>1. /\ call'.op = call.op /\ keep_replies' = keep_replies
      /\ closed => closed'
      /\ sock = "closed" => sock' = "closed"
      /\ ~ Idle /\ Idle' => /\ call.op \in {"quit", "close"} => sock' = "closed"
                            /\ call.op = "request" => outcome'.is \in Errors \cup {"reply"}
      /\ expired' => expired \/ (call'.at = "expired" /\ call.op \in {"request", "quit"})
      /\ call.at = "expired" /\ call'.at # "expired" /\ call.op = "request"
           => Idle' /\ outcome'.is \in Errors
  BY ClientStep
<1>2. Idle => UNCHANGED <<call, outcome, expired>>
  BY QuietClient
<1>3. Where'
  BY <1>1, <1>2 DEF Where, Method, Spammer, Idle, Calling, Resting
<1>4. Patient'
  <2>1. Spammer' = Spammer /\ at' = at
    BY <1>1 DEF Spammer
  <2>2. CASE Idle
    BY <1>2, <2>1, <2>2 DEF Patient, Idle, Failed
  <2>3. CASE ~ Idle /\ ~ Spammer
    <3>1. at \in Calling /\ call.op = Method[at]
      BY <2>3 DEF Where
    <3>2. at \in {"joining", "acting"} => call.op = "request"
      BY <2>3, <3>1 DEF Method
    <3>3. at = "frame" => call.op = "wait_frame"
      BY <3>1 DEF Method
    <3>4. at \in {"start", "join", "joined", "loop", "frame", "stopped"} => at = "frame"
      BY <3>1 DEF Calling
    <3>5. at = "frame" => ~ expired'
      BY <1>1, <2>3, <3>3 DEF Patient
    <3>6. at \in {"joining", "acting"} /\ expired' =>
            call'.at = "expired" \/ (Idle' /\ outcome'.is \in Errors)
      BY <1>1, <2>3, <3>2 DEF Patient
    <3>7. at \in {"joining", "acting"} /\ Idle' => outcome'.is \in Errors \cup {"reply"}
      BY <1>1, <2>3, <3>2
    <3> QED
      BY <2>1, <3>4, <3>5, <3>6, <3>7 DEF Patient, Failed
  <2>4. CASE Spammer
    BY <2>1, <2>4 DEF Patient
  <2> QED
    BY <2>2, <2>3, <2>4
<1>5. Leaving'
  <2>1. at \in {"quitting", "closing"} /\ Idle' => sock' = "closed"
    BY <1>1, <1>2 DEF Leaving, Where, Method, Calling, Idle
  <2> QED
    BY <1>1, <2>1 DEF Leaving
<1> QED
  BY <1>3, <1>4, <1>5

-----------------------------------------------------------------------------
(* What a step of the bot does.                                            *)

\* The step is a call that a program can make, or leaves the client alone.
LEMMA BotCalls ==
  ASSUME TypeOK, Where, Run
  PROVE  AnyCall \/ UNCHANGED vars
<1> USE DEF AnyCall, Spammer, CmdKinds, NoCallMade
<1>1. CASE Join
  BY <1>1 DEF Join
<1>2. CASE JoinSync
  BY <1>2 DEF JoinSync
<1>3. CASE LoopEnds
  BY <1>3 DEF LoopEnds
<1>4. CASE AwaitFrame
  BY <1>4 DEF AwaitFrame, Where
<1>5. CASE Decide
  <2>1. keep_replies
    BY <1>5 DEF Decide, After, Where
  <2> QED
    BY <1>5, <2>1 DEF Decide
<1>6. CASE Spam
  BY <1>6 DEF Spam
<1>7. CASE Shutdown
  BY <1>7 DEF Shutdown
<1>8. CASE QuitReturned
  BY <1>8 DEF QuitReturned
<1>9. CASE \/ Connect \/ JoinSynced \/ JoinAnswered \/ SetJoined \/ NoFrame \/ Acted
           \/ Spammed \/ SpamSynced \/ SetIdle \/ Except \/ Finally \/ Closed
  BY <1>9 DEF Connect, JoinSynced, JoinAnswered, SetJoined, NoFrame, Acted, Spammed,
              SpamSynced, SetIdle, Except, Finally, Closed
<1> QED
  BY <1>1, <1>2, <1>3, <1>4, <1>5, <1>6, <1>7, <1>8, <1>9 DEF Run

\* A call begins at the bot's next point, and is not over there.
LEMMA Calls ==
  ASSUME NEW op, NEW p, NEW cmd, NEW after, Begin(op, p, cmd, after), p # "idle"
  PROVE  /\ call'.op = op /\ ~ Idle' /\ call'.at = p
         /\ UNCHANGED <<outcome, expired, sock, closed, keep_replies>>
BY DEF Begin, Idle, wire, shared, thread

\* A step of the bot that makes no call goes from where a call is over to its next point.
LEMMA RunStep ==
  ASSUME TypeOK, Where, Patient, Leaving, Run
  PROVE  Where' /\ Patient' /\ Leaving'
<1> USE DEF Where, Patient, Leaving, Resting, Calling, Method, Spammer, After, Goto
<1> DEFINE Same == UNCHANGED <<call, outcome, expired, sock, closed, keep_replies>>
<1>0. NoCallMade => Same
  BY DEF NoCallMade, vars, wire, shared, thread, caller
<1>00. Same => (Idle' <=> Idle) /\ (Failed' <=> Failed)
  BY DEF Idle, Failed
<1>1. CASE Connect
  <2>1. Same /\ at = "start" /\ at' \in {"join", "finally"} /\ UNCHANGED last_tick
    BY <1>0, <1>1 DEF Connect
  <2> QED
    BY <1>00, <2>1
<1>2. CASE Join
  <2>1. /\ at = "join" /\ at' = "joining" /\ UNCHANGED <<last_tick, joined, idle, connected>>
        /\ IF Spammer THEN CallSend("JOIN") ELSE CallRequest("JOIN")
    BY <1>2 DEF Join
  <2>2. call'.op = (IF Spammer THEN "send" ELSE "request") /\ ~ Idle' /\ call'.at # "expired"
        /\ UNCHANGED <<outcome, expired, sock, closed, keep_replies>>
    BY <2>1, Calls DEF CallSend, CallRequest
  <2> QED
    BY <2>1, <2>2
<1>3. CASE JoinSync
  <2>1. /\ at = "joining" /\ Idle /\ outcome = Done /\ at' = "join_sync"
        /\ UNCHANGED <<last_tick, joined, idle, connected>>
    BY <1>3 DEF JoinSync
  <2>2. call'.op = "sync" /\ ~ Idle' /\ UNCHANGED <<outcome, expired, sock, closed, keep_replies>>
    BY <1>3, Calls DEF JoinSync, CallSync
  <2>3. ~ Failed /\ outcome.is # "reply"
    BY <2>1 DEF Failed, Errors, Done
  <2>4. Spammer
    BY <2>1, <2>3
  <2> QED
    BY <2>1, <2>2, <2>4
<1>4. CASE JoinSynced \/ JoinAnswered
  <2>1. /\ at \in {"join_sync", "joining"} /\ Idle /\ ~ Failed /\ at' = "joined" /\ Same
        /\ UNCHANGED <<last_tick, joined, idle, connected>>
    BY <1>0, <1>4 DEF JoinSynced, JoinAnswered, Failed, Errors
  <2>2. call.at # "expired"
    BY <2>1 DEF Idle
  <2> QED
    BY <1>00, <2>1, <2>2
<1>5. CASE SetJoined
  <2>1. /\ at = "joined" /\ at' \in {"finally", "loop"} /\ Same
        /\ UNCHANGED <<last_tick, idle, connected>>
    BY <1>0, <1>5 DEF SetJoined
  <2> QED
    BY <1>00, <2>1
<1>6. CASE LoopEnds /\ Spammer
  <2>1. at = "loop" /\ at' = "sync" /\ UNCHANGED <<last_tick, joined, idle, connected>>
    BY <1>6 DEF LoopEnds
  <2>2. call'.op = "sync" /\ ~ Idle' /\ UNCHANGED <<outcome, expired, sock, closed, keep_replies>>
    BY <1>6, Calls DEF LoopEnds, CallSync
  <2> QED
    BY <1>6, <2>1, <2>2
<1>7. CASE LoopEnds /\ ~ Spammer
  <2>1. /\ at = "loop" /\ at' = "stopped" /\ Same
        /\ UNCHANGED <<last_tick, joined, idle, connected>>
    BY <1>0, <1>7 DEF LoopEnds
  <2> QED
    BY <1>00, <2>1
<1>8. CASE AwaitFrame
  <2>1. at = "loop" /\ at' = "frame" /\ ~ Spammer /\ UNCHANGED <<last_tick, joined, idle, connected>>
    BY <1>8 DEF AwaitFrame
  <2>2. call'.op = "wait_frame" /\ ~ Idle'
        /\ UNCHANGED <<outcome, expired, sock, closed, keep_replies>>
    BY <1>8, Calls DEF AwaitFrame, CallWaitFrame
  <2> QED
    BY <2>1, <2>2
<1>9. CASE NoFrame
  <2>1. /\ at = "frame" /\ Idle /\ at' = "loop" /\ Same
        /\ UNCHANGED <<last_tick, joined, idle, connected>>
    BY <1>0, <1>9 DEF NoFrame
  <2> QED
    BY <1>00, <2>1
<1>10. CASE Decide
  <2>1. /\ at = "frame" /\ Idle /\ ~ Spammer /\ UNCHANGED <<joined, idle, connected>>
        /\ last_tick' = outcome.tick /\ outcome.is = "frame"
    BY <1>10 DEF Decide
  <2>2. last_tick' \in Nat
    BY <2>1 DEF TypeOK, Outcome, Errors
  <2>3. CASE NoCallMade /\ at' = "loop"
    BY <1>0, <1>00, <2>1, <2>2, <2>3
  <2>4. CASE CallRequest("ACT") /\ at' = "acting"
    <3>1. call'.op = "request" /\ ~ Idle'
          /\ UNCHANGED <<outcome, expired, sock, closed, keep_replies>>
      BY <2>4, Calls DEF CallRequest
    <3> QED
      BY <2>1, <2>2, <2>4, <3>1
  <2> QED
    BY <1>10, <2>3, <2>4 DEF Decide
<1>11. CASE Acted
  <2>1. /\ at = "acting" /\ Idle /\ ~ Failed /\ at' = "loop" /\ Same
        /\ UNCHANGED <<last_tick, joined, idle, connected>>
    BY <1>0, <1>11 DEF Acted, Failed, Errors
  <2>2. call.at # "expired"
    BY <2>1 DEF Idle
  <2> QED
    BY <1>00, <2>1, <2>2
<1>12. CASE Spam
  <2>1. at = "loop" /\ at' = "spamming" /\ Spammer /\ UNCHANGED <<last_tick, joined, idle, connected>>
    BY <1>12 DEF Spam
  <2>2. call'.op = "send" /\ ~ Idle' /\ UNCHANGED <<outcome, expired, sock, closed, keep_replies>>
    BY <1>12, Calls DEF Spam, CallSend
  <2> QED
    BY <2>1, <2>2
<1>13. CASE Spammed \/ SpamSynced
  <2>1. /\ at \in {"spamming", "sync"} /\ Idle /\ at' \in {"loop", "stopped"} /\ Same
        /\ UNCHANGED <<last_tick, joined, idle, connected>>
    BY <1>0, <1>13 DEF Spammed, SpamSynced
  <2> QED
    BY <1>00, <2>1
<1>14. CASE SetIdle \/ Except
  <2>1. at \notin {"shutdown", "quitting", "closing", "done"} /\ Idle /\ at' = "finally"
        /\ Same /\ UNCHANGED <<last_tick, connected>>
    BY <1>0, <1>14 DEF SetIdle, Except
  <2> QED
    BY <1>00, <2>1
<1>15. CASE Finally
  <2>1. /\ at = "finally" /\ at' = (IF connected THEN "shutdown" ELSE "done") /\ joined' /\ idle'
        /\ Same /\ UNCHANGED <<last_tick, connected>>
    BY <1>0, <1>15 DEF Finally
  <2> QED
    BY <1>00, <2>1
<1>16. CASE Shutdown /\ closed
  <2>1. /\ at = "shutdown" /\ at' = "done" /\ Same
        /\ UNCHANGED <<last_tick, joined, idle, connected>>
    BY <1>0, <1>16 DEF Shutdown
  <2> QED
    BY <1>00, <1>16, <2>1
<1>17. CASE Shutdown /\ ~ closed
  <2>1. at = "shutdown" /\ at' = "quitting" /\ UNCHANGED <<last_tick, joined, idle, connected>>
    BY <1>17 DEF Shutdown
  <2>2. call'.op = "quit" /\ ~ Idle' /\ UNCHANGED <<outcome, expired, sock, closed, keep_replies>>
    BY <1>17, Calls DEF Shutdown, CallQuit
  <2> QED
    BY <2>1, <2>2
<1>18. CASE QuitReturned /\ Failed
  <2>1. at = "quitting" /\ at' = "closing" /\ UNCHANGED <<last_tick, joined, idle, connected>>
    BY <1>18 DEF QuitReturned
  <2>2. call'.op = "close" /\ ~ Idle' /\ UNCHANGED <<outcome, expired, sock, closed, keep_replies>>
    BY <1>18, Calls DEF QuitReturned, CallClose
  <2> QED
    BY <2>1, <2>2
<1>19. CASE (QuitReturned /\ ~ Failed) \/ Closed
  <2>1. /\ at \in {"quitting", "closing"} /\ Idle /\ at' = "done" /\ Same
        /\ UNCHANGED <<last_tick, joined, idle, connected>>
    BY <1>0, <1>19 DEF QuitReturned, Closed
  <2> QED
    BY <1>00, <2>1
<1> QED
  BY <1>1, <1>2, <1>3, <1>4, <1>5, <1>6, <1>7, <1>8, <1>9, <1>10, <1>11, <1>12, <1>13, <1>14,
     <1>15, <1>16, <1>17, <1>18, <1>19 DEF Run

-----------------------------------------------------------------------------
(* Why the reader has stopped.                                             *)

\* What is first in transit stays first, whatever the server sends.
LEMMA FirstStays ==
  ASSUME down \in Seq(Msg), down # <<>>, NEW m \in Msg, down' = Append(down, m)
  PROVE  down' # <<>> /\ Head(down') = Head(down)
<1>1. PICK n \in Nat : n = Len(down)
  BY LenProperties
<1>2. n > 0
  BY <1>1, EmptySeq
<1>3. Len(down') = n + 1 /\ down'[1] = down[1]
  BY <1>1, <1>2, AppendProperties
<1> QED
  BY <1>1, <1>2, <1>3, AppendProperties, HeadTailProperties

LEMMA StoppedStep ==
  ASSUME TypeOK, Stopped, [AnyNext]_vars
  PROVE  Stopped'
<1> USE DEF Stopped, StuckAtMalformed
<1>1. CASE Server
  <2>1. UNCHANGED <<closed, reader, sock>>
    BY <1>1 DEF Server, Serve, SendFrame, EndMatch, Garble, CloseServer, shared, thread
  <2>2. server = "closed" => server' = "closed"
    BY <1>1 DEF Server, Serve, SendFrame, EndMatch, Garble, CloseServer
  <2>3. down' = down \/ \E m \in Msg : down' = Append(down, m)
    <3>1. CASE Serve
      <4>1. PICK k \in Answers(Head(up).kind) :
              down' = Append(down, ReplyMsg([to |-> Head(up).id, kind |-> k]))
        BY <3>1 DEF Serve
      <4>2. Head(up) \in Cmd
        BY <3>1 DEF Serve, TypeOK
      <4>3. [to |-> Head(up).id, kind |-> k] \in Reply
        BY <4>1, <4>2 DEF Answers, ReplyKinds, Cmd, CmdKinds, Reply
      <4> QED
        BY <4>1, <4>3 DEF ReplyMsg, Msg
    <3>2. CASE SendFrame
      <4>1. FrameMsg(tick + 1) \in Msg
        BY DEF FrameMsg, Msg, TypeOK
      <4> QED
        BY <3>2, <4>1 DEF SendFrame
    <3>3. CASE EndMatch \/ Garble
      <4>1. GameOver \in Msg /\ Garbage \in Msg
        BY DEF GameOver, Garbage, Msg
      <4> QED
        BY <3>3, <4>1 DEF EndMatch, Garble
    <3>4. CASE CloseServer
      BY <3>4 DEF CloseServer
    <3> QED
      BY <1>1, <3>1, <3>2, <3>3, <3>4 DEF Server
  <2>4. StuckAtMalformed => StuckAtMalformed'
    BY <2>3, FirstStays DEF TypeOK
  <2> QED
    BY <2>1, <2>2, <2>4
<1>2. CASE Reader
  <2>1. CASE ReadFrame \/ ReadGameOver \/ ReadReply
    <3>1. reader = "read" /\ closed' = closed /\ reader' \in {"read", "flag", "put"}
      BY <2>1 DEF ReadFrame, ReadGameOver, ReadReply, Reads, thread, shared
    <3> QED
      BY <3>1 DEF Ending
  <2>2. CASE SetGameOver \/ PutReply \/ CountReply
    <3>1. reader \in {"flag", "put", "count"} /\ closed' = closed /\ reader' \in {"read", "count"}
      BY <2>2 DEF SetGameOver, PutReply, CountReply
    <3> QED
      BY <3>1 DEF Ending
  <2>3. CASE ReadEnd
    BY <2>3 DEF ReadEnd, wire, shared
  <2>4. CASE SetClosed \/ WakeFrames \/ WakeReplies
    BY <2>4 DEF SetClosed, WakeFrames, WakeReplies, wire, shared, Ending
  <2> QED
    BY <1>2, <2>1, <2>2, <2>3, <2>4 DEF Reader
<1>3. CASE Proceed \/ Expire
  <2>1. UNCHANGED <<closed, reader, server, down>>
    BY <1>3 DEF Proceed, Expire, Sendall, SendallRaises, CountLine, GetReply, NoReplyCame,
                WaitEnds, WaitGivesUp, Sleep, Close, GetExpires, SleepExpires, shared, thread, wire
  <2>2. sock = "closed" => sock' = "closed"
    BY <1>3 DEF Proceed, Expire, Sendall, SendallRaises, CountLine, GetReply, NoReplyCame,
                WaitEnds, WaitGivesUp, Sleep, Close, GetExpires, SleepExpires, wire
  <2> QED
    BY <2>1, <2>2
<1>4. CASE AnyCall
  BY <1>4 DEF AnyCall, CallRequest, CallSend, CallQuit, CallSync, CallClose, CallWaitFrame,
              Begin, wire, shared, thread
<1>5. CASE UNCHANGED vars
  BY <1>5 DEF vars, wire, shared, thread
<1> QED
  BY <1>1, <1>2, <1>3, <1>4, <1>5 DEF AnyNext

-----------------------------------------------------------------------------
LEMMA BotInitInv == BotInit => BotInv
<1> SUFFICES ASSUME BotInit PROVE BotInv
  OBVIOUS
<1>1. TankInv
  BY InitInv DEF BotInit
<1>2. Where
  BY DEF BotInit, Init, NoCall, Where, Resting, Calling, Idle
<1>3. Patient /\ Leaving
  BY DEF BotInit, Init, Patient, Leaving
<1>4. Stopped
  BY DEF BotInit, Init, Stopped, Ending
<1> QED
  BY <1>1, <1>2, <1>3, <1>4 DEF BotInv

LEMMA BotStepInv == BotInv /\ [BotNext]_botvars => BotInv'
<1> SUFFICES ASSUME BotInv, [BotNext]_botvars PROVE BotInv'
  OBVIOUS
<1> USE DEF BotInv
<1>1. TypeOK
  BY DEF TankInv
<1>2. CASE Run
  <2>1. [AnyNext]_vars
    BY <1>1, <1>2, BotCalls DEF AnyNext
  <2>2. TankInv' /\ Stopped'
    BY <1>1, <2>1, AnyStepInv, StoppedStep
  <2> QED
    BY <1>1, <1>2, <2>2, RunStep
<1>3. CASE connected /\ (Server \/ Reader \/ Proceed \/ Expire) /\ UNCHANGED bot
  <2>1. TankInv' /\ Stopped'
    BY <1>1, <1>3, AnyStepInv, StoppedStep DEF AnyNext
  <2> QED
    BY <1>3, <2>1, ClientKeeps
<1>4. CASE UNCHANGED <<vars, at, connected, joined, idle, last_tick>>
  <2>1. TankInv' /\ Stopped'
    BY <1>1, <1>4, AnyStepInv, StoppedStep
  <2>2. UNCHANGED <<sock, closed, keep_replies, call, outcome, expired>>
    BY <1>4 DEF vars, wire, shared, thread, caller
  <2>3. Where' /\ Patient' /\ Leaving'
    BY <1>4, <2>2 DEF Where, Patient, Leaving, Method, Spammer, Idle, Failed
  <2> QED
    BY <2>1, <2>3
<1> QED
  BY <1>2, <1>3, <1>4 DEF BotNext, Client, SetStop, botvars, bot

LEMMA BotInvariant == BotSpec => []BotInv
BY BotInitInv, BotStepInv, PTL DEF BotSpec

\* A player that has not given up, and waits for no reply, has them all.
LEMMA NothingInFlight ==
  ASSUME TankInv, keep_replies, ~ expired, call.at \notin {"count", "get"}
  PROVE  taken = issued /\ replies = << >> /\ up = << >>
<1>1. /\ issued \in Nat /\ taken \in Nat /\ reply_count \in Nat /\ answered \in Nat
      /\ Len(replies) \in Nat /\ Len(up) \in Nat /\ server \in {"up", "closed"}
  BY DEF TankInv, TypeOK
<1>2. issued = taken
  BY <1>1 DEF TankInv, Counted
<1>3. /\ taken + Len(replies) <= Received /\ Received <= answered /\ answered <= issued
      /\ Received \in Nat
  BY <1>1 DEF TankInv, InOrder, Received
<1>4. Len(replies) = 0 /\ answered = issued
  BY <1>1, <1>2, <1>3
<1>5. Len(up) = 0
  BY <1>1, <1>4 DEF TankInv, InOrder
<1> QED
  BY <1>2, <1>4, <1>5, EmptySeq DEF TankInv, TypeOK

(* For every number of commands and every behaviour of the server: a       *)
(* player is never a reply behind, because it stops playing at the first   *)
(* time-out (bot_client.py:_play, tankclient.py:request).                  *)
THEOREM PlaysInStep == BotSpec => []PlayInStep
<1>1. BotInv => PlayInStep
  <2> SUFFICES ASSUME BotInv, ~ Spammer
               PROVE  /\ at \in {"joined", "loop", "frame", "stopped"} =>
                           taken = issued /\ replies = <<>> /\ up = <<>>
                      /\ (After("acting") /\ ~ Failed) => outcome.reply.to = issued
    BY DEF PlayInStep
  <2> USE DEF BotInv
  <2>1. ASSUME at \in {"joined", "loop", "frame", "stopped"}
        PROVE  taken = issued /\ replies = <<>> /\ up = <<>>
    <3>1. keep_replies /\ ~ expired
      BY <2>1 DEF Patient, Spammer
    <3>2. Idle \/ call.op = "wait_frame"
      BY <2>1 DEF Where, Resting, Calling, Method
    <3>3. call.at \notin {"count", "get"}
      BY <3>2 DEF Idle, TankInv, Shape
    <3> QED
      BY <3>1, <3>3, NothingInFlight
  <2>2. ASSUME After("acting"), ~ Failed
        PROVE  outcome.reply.to = issued
    <3>1. at = "acting" /\ Idle /\ ~ Failed
      BY <2>2 DEF After
    <3>2. ~ expired /\ outcome.is = "reply"
      BY <3>1 DEF Patient, Idle
    <3>3. outcome.reply.to = taken
      BY <3>2 DEF TankInv, InOrder
    <3>4. taken = issued
      BY <3>1, <3>2, NothingInFlight DEF Idle, Spammer
    <3> QED
      BY <3>3, <3>4
  <2> QED
    BY <2>1, <2>2
<1> QED
  BY <1>1, BotInvariant, PTL

(* Whichever call failed on the way: a bot that is done has set both       *)
(* events, and its connection is closed at one end, unless its reader      *)
(* stopped at a malformed line (bot_client.py:run, shutdown).              *)
THEOREM AlwaysLeavesCleanly == BotSpec => []LeavesCleanly
<1>1. BotInv => LeavesCleanly
  <2> SUFFICES ASSUME BotInv, at = "done"
               PROVE  /\ joined /\ idle
                      /\ connected => \/ sock = "closed" \/ server = "closed"
                                      \/ closed /\ StuckAtMalformed
    BY DEF LeavesCleanly
  <2>1. joined /\ idle /\ (connected => sock = "closed" \/ closed)
    BY DEF BotInv, Leaving
  <2>2. closed => server = "closed" \/ sock = "closed" \/ StuckAtMalformed
    BY DEF BotInv, Stopped, Ending
  <2> QED
    BY <2>1, <2>2
<1> QED
  BY <1>1, BotInvariant, PTL
=============================================================================
