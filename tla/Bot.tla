--------------------------------- MODULE Bot ---------------------------------
(***************************************************************************)
(* One bot of GAME_HW/clients/bot_client.py: the thread that runs Bot.run, *)
(* making calls on a TankClient.  A spammer keeps no replies; the other    *)
(* strategies play frame by frame, and what they decide to do is left open.*)
(* quit_when_done has its default value, the only one main uses.           *)
(***************************************************************************)
EXTENDS TankClient

VARIABLES
  at,          (* where the bot's thread is in run                         *)
  connected,   (* self.client is not None                                  *)
  stop,        (* the event shared by all bots: Ctrl-C, time up, game over *)
  joined, idle,
  join_error,  (* self.join_error is not None                              *)
  exception,   (* self.exception is not None                               *)
  last_tick    (* the frame _play saw last; 0 for None                     *)

bot     == <<at, connected, stop, joined, idle, join_error, exception, last_tick>>
botvars == <<vars, bot>>

Spammer == ~ keep_replies

BotInit ==
  /\ Init
  /\ at = "start" /\ connected = FALSE /\ stop = FALSE
  /\ joined = FALSE /\ idle = FALSE
  /\ join_error = FALSE /\ exception = FALSE /\ last_tick = 0

Goto(there) == at' = there

(* The bot is at a point of run, and the call it made there has ended.     *)
After(here) == at = here /\ Idle

(* Steps that make no call, and steps that do.                             *)
NoCallMade == UNCHANGED vars

-----------------------------------------------------------------------------
(* TankClient(host, port) connects, or raises an OSError that is reported. *)
Connect ==
  /\ at = "start"
  /\ \/ connected' = TRUE /\ Goto("join") /\ UNCHANGED exception
     \/ UNCHANGED connected /\ Goto("finally") /\ exception' = TRUE
  /\ NoCallMade /\ UNCHANGED <<stop, joined, idle, join_error, last_tick>>

Join ==
  /\ After("join")
  /\ IF Spammer THEN CallSend("JOIN") ELSE CallRequest("JOIN")
  /\ Goto("joining")
  /\ UNCHANGED <<connected, stop, joined, idle, join_error, exception, last_tick>>

(* A spammer learns from my_id whether it is in, once all is answered ...  *)
JoinSync ==
  /\ After("joining") /\ outcome = Done
  /\ CallSync
  /\ Goto("join_sync")
  /\ UNCHANGED <<connected, stop, joined, idle, join_error, exception, last_tick>>

NotIn == ~ my_id

JoinSynced ==
  /\ After("join_sync") /\ ~ Failed
  /\ join_error' = NotIn
  /\ Goto("joined")
  /\ NoCallMade /\ UNCHANGED <<connected, stop, joined, idle, exception, last_tick>>

(* ... the others from the reply.                                          *)
JoinAnswered ==
  /\ After("joining") /\ outcome.is = "reply"
  /\ join_error' = (outcome.reply.kind # "WELCOME")
  /\ Goto("joined")
  /\ NoCallMade /\ UNCHANGED <<connected, stop, joined, idle, exception, last_tick>>

SetJoined ==
  /\ at = "joined"
  /\ joined' = TRUE
  /\ Goto(IF join_error THEN "finally" ELSE "loop")
  /\ NoCallMade /\ UNCHANGED <<connected, stop, idle, join_error, exception, last_tick>>

(* The loops of _play and _spam end; _spam then waits for the answers.     *)
\* Mutants: the loop looks at one of the two only.
OverWhenStopped == stop
OverWhenClosed  == closed

Over == stop \/ closed

LoopEnds ==
  /\ After("loop") /\ Over
  /\ IF Spammer THEN CallSync /\ Goto("sync") ELSE NoCallMade /\ Goto("stopped")
  /\ UNCHANGED <<connected, stop, joined, idle, join_error, exception, last_tick>>

(* _play: the next frame; nothing to do, or one command and its reply.     *)
AwaitFrame ==
  /\ After("loop") /\ ~ Over /\ ~ Spammer
  /\ CallWaitFrame(last_tick)
  /\ Goto("frame")
  /\ UNCHANGED <<connected, stop, joined, idle, join_error, exception, last_tick>>

NoFrame ==
  /\ After("frame") /\ outcome.is = "TimeoutError"
  /\ Goto("loop")
  /\ NoCallMade
  /\ UNCHANGED <<connected, stop, joined, idle, join_error, exception, last_tick>>

Decide ==
  /\ After("frame") /\ outcome.is = "frame"
  /\ last_tick' = outcome.tick
  /\ \/ NoCallMade /\ Goto("loop")
     \/ issued < MaxCmds /\ CallRequest("ACT") /\ Goto("acting")
  /\ UNCHANGED <<connected, stop, joined, idle, join_error, exception>>

(* A reply, ERR or not (errors are counted by code, and only printed).     *)
Acted ==
  /\ After("acting") /\ outcome.is = "reply"
  /\ Goto("loop")
  /\ NoCallMade
  /\ UNCHANGED <<connected, stop, joined, idle, join_error, exception, last_tick>>

(* _spam: commands one after the other.                                    *)
Spam ==
  /\ After("loop") /\ ~ Over /\ Spammer /\ issued < MaxCmds
  /\ CallSend("ACT")
  /\ Goto("spamming")
  /\ UNCHANGED <<connected, stop, joined, idle, join_error, exception, last_tick>>

Spammed ==
  /\ After("spamming") /\ outcome = Done
  /\ Goto("loop")
  /\ NoCallMade
  /\ UNCHANGED <<connected, stop, joined, idle, join_error, exception, last_tick>>

SpamSynced ==
  /\ After("sync") /\ ~ Failed
  /\ Goto("stopped")
  /\ NoCallMade
  /\ UNCHANGED <<connected, stop, joined, idle, join_error, exception, last_tick>>

SetIdle ==
  /\ at = "stopped"
  /\ idle' = TRUE
  /\ Goto("finally")
  /\ NoCallMade
  /\ UNCHANGED <<connected, stop, joined, join_error, exception, last_tick>>

(* A call raised: out of run's try block, except that _play goes on after  *)
(* a wait_frame that timed out.  It is reported unless the connection is   *)
(* closed by now.                                                          *)
\* Mutant: _play passes over a request that timed out, like a frame that did.
ExceptPlaysOn ==
  /\ at \in {"joining", "join_sync", "frame", "acting", "spamming", "sync"} /\ Idle
  /\ Failed /\ ~ (at = "frame" /\ outcome.is = "TimeoutError")
  /\ IF at = "acting" /\ outcome.is = "TimeoutError"
     THEN Goto("loop") /\ UNCHANGED exception
     ELSE Goto("finally") /\ exception' = (exception \/ ~ closed)
  /\ NoCallMade /\ UNCHANGED <<connected, stop, joined, idle, join_error, last_tick>>

Except ==
  /\ at \in {"joining", "join_sync", "frame", "acting", "spamming", "sync"} /\ Idle
  /\ Failed /\ ~ (at = "frame" /\ outcome.is = "TimeoutError")
  /\ exception' = (exception \/ ~ closed)
  /\ Goto("finally")
  /\ NoCallMade /\ UNCHANGED <<connected, stop, joined, idle, join_error, last_tick>>

(* run's finally clause, then shutdown.                                    *)
\* Mutant: no shutdown after an exception.
FinallyHangsOn ==
  /\ at = "finally"
  /\ joined' = TRUE /\ idle' = TRUE
  /\ Goto(IF connected /\ ~ exception THEN "shutdown" ELSE "done")
  /\ NoCallMade /\ UNCHANGED <<connected, stop, join_error, exception, last_tick>>

Finally ==
  /\ at = "finally"
  /\ joined' = TRUE /\ idle' = TRUE
  /\ Goto(IF connected THEN "shutdown" ELSE "done")
  /\ NoCallMade /\ UNCHANGED <<connected, stop, join_error, exception, last_tick>>

Shutdown ==
  /\ After("shutdown")
  /\ IF closed THEN NoCallMade /\ Goto("done") ELSE CallQuit /\ Goto("quitting")
  /\ UNCHANGED <<connected, stop, joined, idle, join_error, exception, last_tick>>

QuitReturned ==
  /\ After("quitting")
  /\ IF Failed THEN CallClose /\ Goto("closing") ELSE NoCallMade /\ Goto("done")
  /\ UNCHANGED <<connected, stop, joined, idle, join_error, exception, last_tick>>

Closed ==
  /\ After("closing")
  /\ Goto("done")
  /\ NoCallMade
  /\ UNCHANGED <<connected, stop, joined, idle, join_error, exception, last_tick>>

Run ==
  \/ Connect \/ Join \/ JoinSync \/ JoinSynced \/ JoinAnswered \/ SetJoined
  \/ LoopEnds \/ AwaitFrame \/ NoFrame \/ Decide \/ Acted
  \/ Spam \/ Spammed \/ SpamSynced \/ SetIdle
  \/ Except \/ Finally \/ Shutdown \/ QuitReturned \/ Closed

(* main, or the SIGINT handler, sets the event, at any time.               *)
SetStop ==
  /\ ~ stop
  /\ stop' = TRUE
  /\ UNCHANGED <<vars, at, connected, joined, idle, join_error, exception, last_tick>>

Client(A) == connected /\ A /\ UNCHANGED bot

BotNext ==
  \/ Run \/ SetStop
  \/ Client(Server) \/ Client(Reader) \/ Client(Proceed) \/ Client(Expire)

BotSpec == BotInit /\ [][BotNext]_botvars

(* The threads run, and time passes: every wait has a time-out, so it ends.*)
ThreadsRun ==
  /\ WF_botvars(Run)
  /\ WF_botvars(Client(Reader))
  /\ WF_botvars(Client(Proceed))
  /\ WF_botvars(Client(Expire))

(* A spammer's sendall has no time-out: the server must go on reading.     *)
(* Nothing is assumed of the server of a player.                           *)
ServesSpammer == Client(Spammer /\ Serve)

FairBotSpec == BotSpec /\ ThreadsRun /\ WF_botvars(ServesSpammer)

-----------------------------------------------------------------------------
(* Properties.                                                             *)

(* While it plays, a bot that waits for replies is never one reply behind: *)
(* between two commands nothing it sent is unanswered, and the reply it    *)
(* looks at answers the command it just sent, because the first time-out   *)
(* ends the game for it.                                                   *)
PlayInStep ==
  ~ Spammer =>
    /\ at \in {"joined", "loop", "frame", "stopped"} =>
         taken = issued /\ replies = <<>> /\ up = <<>>
    /\ (After("acting") /\ ~ Failed) => outcome.reply.to = issued

(* The line the reader stopped at is malformed: it never takes that line,  *)
(* which stays first in transit.                                           *)
StuckAtMalformed == down # <<>> /\ Head(down) = Garbage

(* A bot that is done has said so (main may be waiting for either event),  *)
(* and one end has closed its connection, whichever call failed on the     *)
(* way.  The one exception: after a malformed line the reader sets closed  *)
(* while both ends are open, and shutdown then neither quits nor closes    *)
(* (bot_client.py:149).                                                    *)
LeavesCleanly ==
  at = "done" =>
    /\ joined /\ idle
    /\ connected => \/ sock = "closed" \/ server = "closed"
                    \/ closed /\ StuckAtMalformed

(* Once the event is set the bot ends, whatever the server does: hangs,    *)
(* closes, or keeps sending frames.  When the server closes the connection *)
(* the bot ends by itself.                                                 *)
BotEnds == (stop \/ (connected /\ server = "closed")) ~> at = "done"
=============================================================================
