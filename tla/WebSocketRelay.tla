----------------------------- MODULE WebSocketRelay -----------------------------
(***************************************************************************)
(* One WebSocket of a client through the API server to a browser or its    *)
(* display: _session_ws_proxy and session_websockify_proxy of              *)
(* routes/session.py, cdp_browser_proxy of routes/browser.py.  A handler   *)
(* connects both ends, starts a task each way, waits for the first of them *)
(* to end, cancels the other and closes what is open.                      *)
(*                                                                         *)
(* Either end may stop reading, close or die at any time.                  *)
(***************************************************************************)
EXTENDS Integers, Sequences

CONSTANTS
  MaxMsgs,  \* bound: messages that each end sends
  Window    \* messages that an end takes before it has read them

ASSUME RelayAssumption ==
  /\ MaxMsgs \in Nat
  /\ Window \in Nat \ {0}

VARIABLES
  route,    \* which of the handlers this is
  handler,  \* how far it is
  failed,   \* it ended with an exception other than WebSocketDisconnect
  link,     \* per end: the state of its connection
  task,     \* per way: what its task does
  sent,     \* per way: how many messages the source has sent
  taken,    \* per way: how many of them the task has received
  hand,     \* per way: the message it is sending, 0 if none
  fwd,      \* per way: the messages it has sent
  read      \* per way: how many of them the sink has read

endVars == <<sent, read>>
pumpVars == <<task, taken, hand, fwd>>
handlerVars == <<route, handler, failed>>
relayVars == <<handlerVars, link, endVars, pumpVars>>

Route == {"session", "websockify", "cdp"}
End == {"client", "upstream"}
Dir == {"up", "down"}
Source(d) == IF d = "up" THEN "client" ELSE "upstream"
Sink(d) == IF d = "up" THEN "upstream" ELSE "client"

\* connect, accept: it connects upstream, it accepts the client; relay: it
\* waits for the tasks; tell, close: it closes the client with code 1011, it
\* closes upstream.
Handler == {"connect", "accept", "relay", "tell", "close", "ended"}

\* new: not connected or accepted; clean, broken: the end closed it, or died;
\* told: the server closed it with 1011; closed: otherwise.
Link == {"new", "open", "clean", "broken", "told", "closed"}

\* waiting, sending: it awaits a message, or that one is sent; ok, error, left:
\* it returned, raised, or raised WebSocketDisconnect.
Task == {"none", "waiting", "sending", "ok", "error", "left", "cancelled"}
Alive(d) == task[d] \in {"waiting", "sending"}
Done(d) == task[d] \in {"ok", "error", "left"}

RelayTypeOK ==
  /\ route \in Route
  /\ handler \in Handler
  /\ failed \in BOOLEAN
  /\ link \in [End -> Link]
  /\ task \in [Dir -> Task]
  /\ sent \in [Dir -> 0..MaxMsgs]
  /\ hand \in [Dir -> 0..MaxMsgs]
  /\ fwd \in [Dir -> Seq(1..MaxMsgs)]
  /\ taken \in [Dir -> Nat]
  /\ read \in [Dir -> Nat]
  /\ \A d \in Dir : taken[d] <= sent[d] /\ read[d] <= Len(fwd[d])

RelayInit ==
  /\ route \in Route
  /\ handler = IF route = "session" THEN "connect" ELSE "accept"
  /\ failed = FALSE
  /\ link = [e \in End |-> "new"]
  /\ task = [d \in Dir |-> "none"]
  /\ sent = [d \in Dir |-> 0]
  /\ taken = [d \in Dir |-> 0]
  /\ hand = [d \in Dir |-> 0]
  /\ fwd = [d \in Dir |-> <<>>]
  /\ read = [d \in Dir |-> 0]

-----------------------------------------------------------------------------
(* The two ends.                                                           *)

EndSends(d) ==
  /\ link[Source(d)] = "open"
  /\ sent[d] < MaxMsgs
  /\ sent' = [sent EXCEPT ![d] = @ + 1]
  /\ UNCHANGED <<handlerVars, link, read, pumpVars>>

EndReads(d) ==
  /\ link[Sink(d)] = "open"
  /\ read[d] < Len(fwd[d])
  /\ read' = [read EXCEPT ![d] = @ + 1]
  /\ UNCHANGED <<handlerVars, link, sent, pumpVars>>

EndCloses(e) ==
  /\ link[e] = "open"
  /\ link' = [link EXCEPT ![e] = "clean"]
  /\ UNCHANGED <<handlerVars, endVars, pumpVars>>

\* It dies, or does not answer a ping in time; a client also before it was
\* accepted.
EndBreaks(e) ==
  /\ \/ link[e] = "open"
     \/ e = "client" /\ link[e] = "new" /\ handler # "ended"
  /\ link' = [link EXCEPT ![e] = "broken"]
  /\ UNCHANGED <<handlerVars, endVars, pumpVars>>

\* It takes no more messages.
Stalled(e) ==
  \E d \in Dir : /\ Sink(d) = e
                 /\ link[e] = "open"
                 /\ Len(fwd[d]) - read[d] >= Window

-----------------------------------------------------------------------------
(* client_to_upstream and upstream_to_client.                              *)

\* Variant: the message that tells of a disconnect is sent on as any other.
PumpReceivesAll(d) ==
  /\ task[d] = "waiting"
  /\ hand' = [hand EXCEPT ![d] = sent[d]]
  /\ taken' = [taken EXCEPT ![d] = @ + 1]
  /\ task' = [task EXCEPT ![d] = "sending"]
  /\ taken[d] < sent[d] \/ link[Source(d)] # "open"
  /\ UNCHANGED <<handlerVars, link, endVars, fwd>>

\* Variant: of several messages that have come the last is taken.
PumpReceivesLatest(d) ==
  /\ task[d] = "waiting"
  /\ taken[d] < sent[d]
  /\ taken' = [taken EXCEPT ![d] = sent[d]]
  /\ hand' = [hand EXCEPT ![d] = taken'[d]]
  /\ task' = [task EXCEPT ![d] = "sending"]
  /\ UNCHANGED <<handlerVars, link, endVars, fwd>>

\* The next message that the source sent.
PumpReceives(d) ==
  /\ task[d] = "waiting"
  /\ taken[d] < sent[d]
  /\ taken' = [taken EXCEPT ![d] = @ + 1]
  /\ hand' = [hand EXCEPT ![d] = taken'[d]]
  /\ task' = [task EXCEPT ![d] = "sending"]
  /\ UNCHANGED <<handlerVars, link, endVars, fwd>>

\* The sink takes the message.
PumpSends(d) ==
  /\ task[d] = "sending"
  /\ link[Sink(d)] = "open"
  /\ Len(fwd[d]) - read[d] < Window
  /\ fwd' = [fwd EXCEPT ![d] = Append(@, hand[d])]
  /\ hand' = [hand EXCEPT ![d] = 0]
  /\ task' = [task EXCEPT ![d] = "waiting"]
  /\ UNCHANGED <<handlerVars, link, endVars, taken>>

\* The sink is gone: websockets raises ConnectionClosed, Starlette
\* WebSocketDisconnect.
PumpFails(d) ==
  /\ task[d] = "sending"
  /\ link[Sink(d)] # "open"
  /\ task' = [task EXCEPT ![d] = IF d = "up" THEN "error" ELSE "left"]
  /\ UNCHANGED <<handlerVars, link, endVars, taken, hand, fwd>>

\* Variant: the task ends as soon as its source is gone.
PumpEndsEarly(d) ==
  /\ task[d] = "waiting"
  /\ link[Source(d)] # "open"
  /\ task' = [task EXCEPT ![d] =
       IF d = "down" /\ link["upstream"] = "broken" THEN "error" ELSE "ok"]
  /\ UNCHANGED <<handlerVars, link, endVars, taken, hand, fwd>>

\* Variant: the end of upstream is a normal end, whatever ended it.
PumpEndsQuietly(d) ==
  /\ task[d] = "waiting"
  /\ taken[d] = sent[d]
  /\ link[Source(d)] # "open"
  /\ task' = [task EXCEPT ![d] = "ok"]
  /\ UNCHANGED <<handlerVars, link, endVars, taken, hand, fwd>>

\* The source is gone and what it sent before has been received.  A client's
\* end is a message like any other; upstream's raises if it was not closed.
PumpEnds(d) ==
  /\ task[d] = "waiting"
  /\ taken[d] = sent[d]
  /\ link[Source(d)] # "open"
  /\ task' = [task EXCEPT ![d] =
       IF d = "down" /\ link["upstream"] = "broken" THEN "error" ELSE "ok"]
  /\ UNCHANGED <<handlerVars, link, endVars, taken, hand, fwd>>

-----------------------------------------------------------------------------
(* The handler.                                                            *)

\* The tasks are created when both ends are connected.
Proceeds(phase) ==
  /\ handler' = phase
  /\ task' = IF phase = "relay" THEN [d \in Dir |-> "waiting"] ELSE task

\* websockets.connect.  session connects before it accepts, the others after.
Connects ==
  /\ handler = "connect"
  /\ link' = [link EXCEPT !["upstream"] = "open"]
  /\ Proceeds(IF route = "session" THEN "accept" ELSE "relay")
  /\ UNCHANGED <<route, failed, endVars, taken, hand, fwd>>

\* It fails, or times out; cdp may find no browser to connect to.
ConnectFails ==
  /\ handler = "connect"
  /\ handler' = "tell"
  /\ failed' = TRUE
  /\ UNCHANGED <<route, link, endVars, pumpVars>>

\* websocket.accept.  That a client has gone shows now or later.
Accepts ==
  /\ handler = "accept"
  /\ link' = [link EXCEPT !["client"] = IF @ = "new" THEN "open" ELSE @]
  /\ Proceeds(IF route = "session" THEN "relay" ELSE "connect")
  /\ UNCHANGED <<route, failed, endVars, taken, hand, fwd>>

AcceptFails ==
  /\ handler = "accept"
  /\ link["client"] = "broken"
  /\ handler' = IF route = "session" THEN "close" ELSE "ended"
  /\ UNCHANGED <<route, failed, link, endVars, pumpVars>>

\* Variant: the tasks are waited for until both are done.
WaitsForBoth ==
  /\ handler = "relay"
  /\ \A d \in Dir : Done(d)
  /\ failed' = (\E d \in Dir : task[d] = "error")
  /\ handler' = IF failed' /\ route # "cdp" THEN "tell" ELSE "close"
  /\ UNCHANGED <<route, link, endVars, pumpVars>>

\* Variant: the other task is left alone.
WaitReturnsOnly ==
  /\ handler = "relay"
  /\ \E d \in Dir :
       /\ Done(d)
       /\ task[d] = "ok" => \A e \in Dir : Done(e) => task[e] = "ok"
       /\ failed' = (task[d] = "error")
  /\ handler' = IF failed' /\ route # "cdp" THEN "tell" ELSE "close"
  /\ UNCHANGED <<route, link, endVars, pumpVars>>

\* asyncio.wait returns: a task that is not done is cancelled, and the results
\* of the others are read in any order up to one that raises.
WaitReturns ==
  /\ handler = "relay"
  /\ \E d \in Dir :
       /\ Done(d)
       /\ task[d] = "ok" => \A e \in Dir : Done(e) => task[e] = "ok"
       /\ failed' = (task[d] = "error")
  /\ task' = [d \in Dir |-> IF Done(d) THEN task[d] ELSE "cancelled"]
  /\ handler' = IF failed' /\ route # "cdp" THEN "tell" ELSE "close"
  /\ UNCHANGED <<route, link, endVars, taken, hand, fwd>>

\* The server closes a client's connection when the handler has ended.
Ends(next, clientLink) ==
  /\ handler' = next
  /\ link' = [e \in End |->
       IF e = "upstream" THEN IF handler = "close" /\ link[e] = "open"
                                THEN "closed" ELSE link[e]
       ELSE IF next = "ended" /\ clientLink \in {"new", "open"}
              THEN "closed" ELSE clientLink]
  /\ UNCHANGED <<route, failed, endVars, pumpVars>>

\* websocket.close(1011); it does nothing, or raises, if the client has gone.
Tells ==
  /\ handler = "tell"
  /\ Ends(IF route = "cdp" \/ link["upstream"] = "new" THEN "ended" ELSE "close",
          IF link["client"] \in {"new", "open"} THEN "told" ELSE link["client"])

\* upstream.close, or the end of its async with, which is inside the try.
Closes ==
  /\ handler = "close"
  /\ Ends(IF route = "cdp" /\ failed THEN "tell" ELSE "ended", link["client"])

-----------------------------------------------------------------------------

PumpStep(d) ==
  PumpReceives(d) \/ PumpSends(d) \/ PumpFails(d) \/ PumpEnds(d)

HandlerStep ==
  \/ Connects \/ ConnectFails
  \/ Accepts \/ AcceptFails
  \/ WaitReturns \/ Tells \/ Closes

RelayNext ==
  \/ \E d \in Dir : EndSends(d) \/ EndReads(d) \/ PumpStep(d)
  \/ \E e \in End : EndCloses(e) \/ EndBreaks(e)
  \/ HandlerStep

RelaySpec == RelayInit /\ [][RelayNext]_relayVars

-----------------------------------------------------------------------------
(* Properties.                                                             *)

\* Whichever way a handler ends, it leaves no task running and no connection
\* open, at either end.
NothingLeftRunning ==
  handler = "ended" =>
    /\ \A e \in End : link[e] # "open"
    /\ \A d \in Dir : ~Alive(d)

\* client_to_upstream and upstream_to_client: an end that closes has its last
\* messages passed on first, unless the other end has gone or been cancelled
\* before them.
LastMessagesPassed ==
  \A d \in Dir : task[d] = "ok" => Len(fwd[d]) = sent[d]

\* A client that is there to the end is told with code 1011 that upstream
\* failed, whichever task noticed it.
FailureTold ==
  handler = "ended" /\ link["upstream"] = "broken" => link["client"] # "closed"

\* The tasks and the handler implement a relay: in order, without gaps, and
\* nothing after the handler has ended.
Promise == INSTANCE MessageRelay WITH over <- handler = "ended"
RelaysInOrder == Promise!Spec

\* An end that goes, in whichever way, lets the whole relay go.
GoneReleases ==
  (\E e \in End : link[e] \in {"clean", "broken"}) ~> handler = "ended"
================================================================================
