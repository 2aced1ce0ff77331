----------------------------- MODULE RelayProofs -----------------------------
(***************************************************************************)
(* Theorems about WebSocketRelay for any number of messages and any window,*)
(* about ClipboardPage for any number of transfers and texts, and about    *)
(* both beside Sessions and HandoffBridge.                                 *)
(***************************************************************************)
EXTENDS ClientsMC, SessionsProofs, BridgeProofs

-----------------------------------------------------------------------------
(* Type correctness.                                                       *)

\* The numbers of the relay are numbers.
LEMMA CountFacts ==
  ASSUME RelayTypeOK, NEW d \in Dir
  PROVE  /\ sent[d] \in Nat /\ taken[d] \in Nat /\ read[d] \in Nat
         /\ hand[d] \in Nat /\ Len(fwd[d]) \in Nat
         /\ sent[d] <= MaxMsgs
BY RelayAssumption DEF RelayTypeOK

\* Every step of an end keeps the types.
LEMMA EndTypeStep ==
  ASSUME RelayTypeOK
  PROVE  /\ \A d \in Dir : EndSends(d) \/ EndReads(d) => RelayTypeOK'
         /\ \A e \in End : EndCloses(e) \/ EndBreaks(e) => RelayTypeOK'
<1> USE RelayAssumption DEF RelayTypeOK, handlerVars, endVars, pumpVars
<1>1. ASSUME NEW d \in Dir, EndSends(d) PROVE RelayTypeOK'
  BY <1>1, CountFacts DEF EndSends
<1>2. ASSUME NEW d \in Dir, EndReads(d) PROVE RelayTypeOK'
  BY <1>2, CountFacts DEF EndReads
<1>3. ASSUME NEW e \in End, EndCloses(e) PROVE RelayTypeOK'
  BY <1>3 DEF EndCloses, Link
<1>4. ASSUME NEW e \in End, EndBreaks(e) PROVE RelayTypeOK'
  BY <1>4 DEF EndBreaks, Link
<1> QED BY <1>1, <1>2, <1>3, <1>4

\* What a task has received and not passed on is the one message it is sending.
\* A task that ended well has passed on all there will ever be.
PumpInv ==
  \A d \in Dir :
    /\ task[d] \in {"none", "waiting", "ok"} => taken[d] = Len(fwd[d])
    /\ task[d] = "sending" =>
         /\ taken[d] = Len(fwd[d]) + 1
         /\ hand[d] = taken[d]
    /\ task[d] = "ok" =>
         /\ taken[d] = sent[d]
         /\ link[Source(d)] \notin {"new", "open"}

\* Every step of a task keeps the types: what it sends was received.
LEMMA PumpTypeStep ==
  ASSUME RelayTypeOK, PumpInv, NEW d \in Dir, PumpStep(d)
  PROVE  RelayTypeOK'
<1> USE RelayAssumption DEF RelayTypeOK, handlerVars, endVars
<1>1. CASE PumpReceives(d)
  BY <1>1, CountFacts DEF PumpReceives, Task
<1>2. CASE PumpSends(d)
  <2>1. hand[d] \in 1..MaxMsgs
    BY <1>2, CountFacts DEF PumpSends, PumpInv
  <2>2. fwd'[d] \in Seq(1..MaxMsgs) /\ Len(fwd'[d]) = Len(fwd[d]) + 1
    BY <1>2, <2>1 DEF PumpSends
  <2>3. fwd' = [fwd EXCEPT ![d] = fwd'[d]]
    BY <1>2 DEF PumpSends
  <2>4. fwd' \in [Dir -> Seq(1..MaxMsgs)]
    BY <2>2, <2>3
  <2>5. \A e \in Dir : read[e] <= Len(fwd'[e])
    <3>1. read[d] <= Len(fwd'[d])
      BY <2>2, CountFacts
    <3>2. \A e \in Dir \ {d} : fwd'[e] = fwd[e]
      BY <2>3
    <3> QED BY <3>1, <3>2
  <2> QED BY <1>2, <2>4, <2>5 DEF PumpSends, Task
<1>3. CASE PumpFails(d)
  BY <1>3 DEF PumpFails, Task
<1>4. CASE PumpEnds(d)
  BY <1>4 DEF PumpEnds, Task
<1> QED BY <1>1, <1>2, <1>3, <1>4 DEF PumpStep

\* Every step of the handler keeps the types.
LEMMA HandlerTypeStep ==
  ASSUME RelayTypeOK, HandlerStep
  PROVE  RelayTypeOK'
<1> USE DEF RelayTypeOK, Handler, Task, Link, endVars, pumpVars
<1>1. CASE Connects
  BY <1>1 DEF Connects, Proceeds
<1>2. CASE ConnectFails
  BY <1>2 DEF ConnectFails
<1>3. CASE Accepts
  BY <1>3 DEF Accepts, Proceeds
<1>4. CASE AcceptFails
  BY <1>4 DEF AcceptFails
<1>5. CASE WaitReturns
  BY <1>5 DEF WaitReturns
<1>6. CASE Tells
  BY <1>6 DEF Tells, Ends, End
<1>7. CASE Closes
  BY <1>7 DEF Closes, Ends, End
<1> QED BY <1>1, <1>2, <1>3, <1>4, <1>5, <1>6, <1>7 DEF HandlerStep

-----------------------------------------------------------------------------
(* The invariant.                                                          *)

Linked == {"open", "clean", "broken"}
Gone == {"clean", "broken"}

\* Where the handler is, what it has opened, and why a task has ended: only while
\* it waits do tasks run, and it closes quietly only if the client has gone or
\* upstream has closed.
HandlerInv ==
  /\ handler \in {"connect", "accept"} => ~failed /\ \A d \in Dir : task[d] = "none"
  /\ \A d \in Dir : Alive(d) => handler = "relay"
  /\ handler = "connect" =>
       /\ link["upstream"] = "new"
       /\ link["client"] \in IF route = "session" THEN {"new", "broken"} ELSE Linked
  /\ handler = "accept" =>
       /\ link["client"] \in {"new", "broken"}
       /\ IF route = "session" THEN link["upstream"] \in Linked
                               ELSE link["upstream"] = "new"
  /\ handler = "relay" =>
       /\ ~failed
       /\ \A e \in End : link[e] \in Linked
       /\ task["up"] # "left"
       /\ task["up"] = "ok" => link["client"] \in Gone
       /\ task["down"] = "ok" => link["upstream"] = "clean"
       /\ task["down"] = "left" => link["client"] \in Gone
  /\ handler = "tell" => failed /\ (route = "cdp" => link["upstream"] # "open")
  /\ handler = "close" /\ ~failed =>
       link["client"] \in Gone \/ link["upstream"] = "clean"
  /\ handler = "close" /\ failed /\ route # "cdp" =>
       link["client"] \in Gone \cup {"told"}
  /\ handler # "ended" => link["client"] # "closed"
  /\ handler = "ended" =>
       /\ \A e \in End : link[e] # "open"
       /\ link["upstream"] = "broken" => link["client"] # "closed"

RelayInv == RelayTypeOK /\ PumpInv /\ HandlerInv

\* Steps of the ends keep the invariant.
LEMMA EndInvStep ==
  ASSUME RelayInv
  PROVE  /\ \A d \in Dir : EndSends(d) \/ EndReads(d) => RelayInv'
         /\ \A e \in End : EndCloses(e) \/ EndBreaks(e) => RelayInv'
<1> USE DEF RelayInv, RelayTypeOK, handlerVars, endVars, pumpVars, Alive
<1>1. ASSUME NEW d \in Dir, EndSends(d) PROVE PumpInv' /\ HandlerInv'
  BY <1>1 DEF EndSends, PumpInv, HandlerInv
<1>2. ASSUME NEW d \in Dir, EndReads(d) PROVE PumpInv' /\ HandlerInv'
  BY <1>2 DEF EndReads, PumpInv, HandlerInv
<1>3. ASSUME NEW e \in End, EndCloses(e) \/ EndBreaks(e)
      PROVE  PumpInv' /\ HandlerInv'
  <2>1. \A x \in End : \/ link'[x] = link[x]
                       \/ link[x] = "open" /\ link'[x] \in Gone
                       \/ /\ x = "client" /\ link[x] = "new"
                          /\ link'[x] = "broken" /\ handler # "ended"
    BY <1>3 DEF EndCloses, EndBreaks, Gone
  <2>2. UNCHANGED <<handlerVars, endVars, pumpVars>>
    BY <1>3 DEF EndCloses, EndBreaks
  <2>3. PumpInv'
    BY <2>1, <2>2 DEF PumpInv, Source, End, Gone
  <2>4. HandlerInv'
    BY <2>1, <2>2 DEF HandlerInv, End, Gone, Linked
  <2> QED BY <2>3, <2>4
<1> QED BY <1>1, <1>2, <1>3, EndTypeStep

\* Steps of the tasks keep the invariant.
LEMMA PumpInvStep ==
  ASSUME RelayInv, NEW d \in Dir, PumpStep(d)
  PROVE  RelayInv'
<1>0. RelayTypeOK'
  BY PumpTypeStep DEF RelayInv
<1> USE DEF RelayInv, RelayTypeOK
<1>1. UNCHANGED <<handlerVars, link, endVars>> /\ Alive(d)
  BY DEF PumpStep, PumpReceives, PumpSends, PumpFails, PumpEnds, Alive
<1>2. handler = "relay"
  BY <1>1 DEF HandlerInv
<1>3. \A x \in Dir \ {d} : /\ task'[x] = task[x] /\ taken'[x] = taken[x]
                          /\ hand'[x] = hand[x] /\ fwd'[x] = fwd[x]
  BY DEF PumpStep, PumpReceives, PumpSends, PumpFails, PumpEnds
<1>4. PumpInv'
  <2>1. CASE PumpReceives(d)
    BY <1>1, <1>3, <2>1, CountFacts DEF PumpReceives, PumpInv, endVars
  <2>2. CASE PumpSends(d)
    <3>1. Len(fwd'[d]) = Len(fwd[d]) + 1
      BY <2>2 DEF PumpSends
    <3> QED BY <1>1, <1>3, <2>2, <3>1 DEF PumpSends, PumpInv, endVars
  <2>3. CASE PumpFails(d)
    BY <1>1, <1>3, <2>3 DEF PumpFails, PumpInv, endVars
  <2>4. CASE PumpEnds(d)
    <3>1. link[Source(d)] \notin {"new", "open"}
      BY <1>2, <2>4 DEF PumpEnds, HandlerInv, Linked, Source, End, Dir
    <3> QED BY <1>1, <1>3, <2>4, <3>1 DEF PumpEnds, PumpInv, endVars
  <2> QED BY <2>1, <2>2, <2>3, <2>4 DEF PumpStep
<1>5. HandlerInv'
  <2>1. CASE PumpReceives(d) \/ PumpSends(d)
    <3>1. Alive(d)' /\ task'[d] \notin {"ok", "left", "error"}
      BY <2>1 DEF PumpReceives, PumpSends, Alive
    <3> QED BY <1>1, <1>2, <1>3, <3>1 DEF HandlerInv, handlerVars, Alive, Dir
  <2>2. CASE PumpFails(d)
    <3>1. d = "down" => link["client"] \in Gone
      BY <1>2, <2>2 DEF PumpFails, HandlerInv, Sink, End, Linked, Gone
    <3>2. task'[d] = IF d = "up" THEN "error" ELSE "left"
      BY <2>2 DEF PumpFails
    <3> QED BY <1>1, <1>2, <1>3, <3>1, <3>2 DEF HandlerInv, handlerVars, Alive, Dir
  <2>3. CASE PumpEnds(d)
    <3>1. link[Source(d)] \in Gone
      BY <1>2, <2>3 DEF PumpEnds, HandlerInv, Source, End, Linked, Gone
    <3>2. task'[d] = IF d = "down" /\ link["upstream"] = "broken" THEN "error" ELSE "ok"
      BY <2>3 DEF PumpEnds
    <3> QED
      BY <1>1, <1>2, <1>3, <3>1, <3>2
      DEF HandlerInv, handlerVars, Alive, Dir, Source, Gone
  <2> QED BY <2>1, <2>2, <2>3 DEF PumpStep
<1> QED BY <1>0, <1>4, <1>5

\* Steps of the handler keep the invariant.
LEMMA HandlerInvStep ==
  ASSUME RelayInv, HandlerStep
  PROVE  RelayInv'
<1>0. RelayTypeOK'
  BY HandlerTypeStep DEF RelayInv
<1> USE DEF RelayInv, RelayTypeOK, endVars, pumpVars
<1>1. ASSUME Proceeds(handler'), handler \in {"connect", "accept"},
             UNCHANGED <<endVars, taken, hand, fwd>>
      PROVE  PumpInv'
  <2>1. \A d \in Dir : task[d] = "none" /\ task'[d] \in {"none", "waiting"}
    BY <1>1 DEF HandlerInv, Proceeds
  <2> QED BY <1>1, <2>1 DEF PumpInv
<1>2. ASSUME UNCHANGED <<endVars, taken, hand, fwd>>,
             \A d \in Dir : task'[d] = task[d] \/ task'[d] = "cancelled",
             \A e \in End : link'[e] = link[e] \/ link'[e] \in {"told", "closed"}
      PROVE  PumpInv'
  BY <1>2 DEF PumpInv, Source, End
<1>3. CASE Connects
  <2>1. PumpInv'
    BY <1>1, <1>3 DEF Connects, Proceeds
  <2>2. HandlerInv'
    BY <1>3 DEF Connects, Proceeds, HandlerInv, Alive, End, Dir, Linked, Gone
  <2> QED BY <1>0, <2>1, <2>2
<1>4. CASE ConnectFails
  <2>1. PumpInv'
    BY <1>2, <1>4 DEF ConnectFails
  <2>2. HandlerInv'
    BY <1>4 DEF ConnectFails, HandlerInv, Alive, Linked
  <2> QED BY <1>0, <2>1, <2>2
<1>5. CASE Accepts
  <2>1. PumpInv'
    BY <1>1, <1>5 DEF Accepts, Proceeds
  <2>2. link'["client"] \in Linked /\ link'["upstream"] = link["upstream"]
    BY <1>5 DEF Accepts, HandlerInv, Link, Linked, End
  <2>3. HandlerInv'
    BY <1>5, <2>2 DEF Accepts, Proceeds, HandlerInv, Alive, End, Dir, Linked, Gone
  <2> QED BY <1>0, <2>1, <2>3
<1>6. CASE AcceptFails
  <2>1. PumpInv'
    BY <1>2, <1>6 DEF AcceptFails
  <2>2. HandlerInv'
    BY <1>6 DEF AcceptFails, HandlerInv, Alive, End, Linked, Gone
  <2> QED BY <1>0, <2>1, <2>2
<1>7. CASE WaitReturns
  <2>1. PumpInv'
    BY <1>2, <1>7 DEF WaitReturns
  <2>2. \A d \in Dir : task'[d] = (IF Done(d) THEN task[d] ELSE "cancelled")
    BY <1>7 DEF WaitReturns
  <2>3. \A d \in Dir : ~Alive(d)'
    BY <2>2 DEF Alive, Done
  <2>4. ~failed' => link["client"] \in Gone \/ link["upstream"] = "clean"
    BY <1>7 DEF WaitReturns, HandlerInv, Done, Dir
  <2>5. UNCHANGED <<link, route>> /\ failed' \in BOOLEAN
    BY <1>0, <1>7 DEF WaitReturns
  <2>6. handler' = IF failed' /\ route # "cdp" THEN "tell" ELSE "close"
    BY <1>7 DEF WaitReturns
  <2>7. HandlerInv'
    BY <1>7, <2>3, <2>4, <2>5, <2>6 DEF WaitReturns, HandlerInv, End, Linked
  <2> QED BY <1>0, <2>1, <2>7
<1>8. CASE Tells
  <2>1. \A d \in Dir : task'[d] = task[d] /\ ~Alive(d)
    BY <1>8 DEF Tells, Ends, HandlerInv
  <2>2. handler' \in {"ended", "close"} /\ UNCHANGED <<route, failed>> /\ failed
    BY <1>8 DEF Tells, Ends, HandlerInv
  <2>3. /\ link'["upstream"] = link["upstream"]
        /\ link["client"] # "closed"
        /\ link'["client"] \in {"told", "clean", "broken"}
    BY <1>8 DEF Tells, Ends, HandlerInv, End, Link
  <2>4. handler' = "ended" => link["upstream"] # "open"
    BY <1>8 DEF Tells, Ends, HandlerInv
  <2>5. handler' = "close" => route # "cdp"
    BY <1>8 DEF Tells, Ends
  <2>6. PumpInv'
    BY <1>2, <1>8, <2>1, <2>3 DEF Tells, Ends, End, Link
  <2>7. HandlerInv'
    BY <2>1, <2>2, <2>3, <2>4, <2>5 DEF HandlerInv, Alive, End, Gone
  <2> QED BY <1>0, <2>6, <2>7
<1>9. CASE Closes
  <2>1. \A d \in Dir : task'[d] = task[d] /\ ~Alive(d)
    BY <1>9 DEF Closes, Ends, HandlerInv
  <2>2. UNCHANGED <<route, failed>>
    BY <1>9 DEF Closes, Ends
  <2>3. handler' = IF route = "cdp" /\ failed THEN "tell" ELSE "ended"
    BY <1>9 DEF Closes, Ends
  <2>4. link'["upstream"] =
          IF link["upstream"] = "open" THEN "closed" ELSE link["upstream"]
    BY <1>9 DEF Closes, Ends, End
  <2>5. link'["client"] = IF handler' = "ended" /\ link["client"] \in {"new", "open"}
                            THEN "closed" ELSE link["client"]
    BY <1>9 DEF Closes, Ends, End
  <2>6. PumpInv'
    BY <1>2, <1>9, <2>1, <2>4, <2>5 DEF Closes, Ends, End
  <2>7. HandlerInv'
    BY <1>9, <2>1, <2>2, <2>3, <2>4, <2>5 DEF Closes, HandlerInv, Alive, End, Gone
  <2> QED BY <1>0, <2>6, <2>7
<1> QED
  BY <1>3, <1>4, <1>5, <1>6, <1>7, <1>8, <1>9 DEF HandlerStep

\* The invariant always holds.
LEMMA RelayInvariant == RelaySpec => []RelayInv
<1>1. RelayInit => RelayInv
  <2> SUFFICES ASSUME RelayInit PROVE RelayInv
    OBVIOUS
  <2>1. RelayTypeOK
    <3>1. fwd \in [Dir -> Seq(1..MaxMsgs)]
      BY DEF RelayInit
    <3>2. \A d \in Dir : sent[d] = 0 /\ taken[d] = 0 /\ read[d] = 0 /\ Len(fwd[d]) = 0
      BY DEF RelayInit
    <3>3. 0 \in 0..MaxMsgs
      BY RelayAssumption
    <3>4. /\ handler \in Handler /\ route \in Route /\ failed \in BOOLEAN
          /\ link \in [End -> Link] /\ task \in [Dir -> Task]
      BY DEF RelayInit, Route, Handler, Link, Task
    <3>5. /\ sent \in [Dir -> 0..MaxMsgs] /\ hand \in [Dir -> 0..MaxMsgs]
          /\ taken \in [Dir -> Nat] /\ read \in [Dir -> Nat]
      BY <3>3 DEF RelayInit
    <3>6. \A d \in Dir : taken[d] <= sent[d] /\ read[d] <= Len(fwd[d])
      BY <3>2
    <3> QED BY <3>1, <3>4, <3>5, <3>6 DEF RelayTypeOK
  <2>2. PumpInv
    BY DEF RelayInit, PumpInv
  <2>3. HandlerInv
    BY DEF RelayInit, HandlerInv, Alive, Linked, Route, End
  <2> QED BY <2>1, <2>2, <2>3 DEF RelayInv
<1>2. RelayInv /\ [RelayNext]_relayVars => RelayInv'
  <2> SUFFICES ASSUME RelayInv, [RelayNext]_relayVars PROVE RelayInv'
    OBVIOUS
  <2>1. CASE RelayNext
    BY <2>1, EndInvStep, PumpInvStep, HandlerInvStep DEF RelayNext
  <2>2. CASE UNCHANGED relayVars
    BY <2>2 DEF relayVars, handlerVars, endVars, pumpVars, RelayInv, RelayTypeOK,
                PumpInv, HandlerInv, Alive
  <2> QED BY <2>1, <2>2
<1> QED BY <1>1, <1>2, PTL DEF RelaySpec

-----------------------------------------------------------------------------
(* The theorems.                                                           *)

\* Every variable always has its type, and nothing is received that was not sent
\* nor read that was not passed on.
THEOREM RelayTypeCorrect == RelaySpec => []RelayTypeOK
<1>1. RelayInv => RelayTypeOK
  BY DEF RelayInv
<1> QED BY <1>1, RelayInvariant, PTL

\* A handler that has ended has left no task running and no connection open.
THEOREM NothingIsLeft == RelaySpec => []NothingLeftRunning
<1>1. RelayInv => NothingLeftRunning
  BY DEF RelayInv, HandlerInv, NothingLeftRunning
<1> QED BY <1>1, RelayInvariant, PTL

\* A task that ended well has passed on everything its source ever sent.
THEOREM LastMessagesArePassed == RelaySpec => []LastMessagesPassed
<1>1. RelayInv => LastMessagesPassed
  BY DEF RelayInv, PumpInv, LastMessagesPassed
<1> QED BY <1>1, RelayInvariant, PTL

\* A client that stays to the end is told that upstream failed.
THEOREM FailureIsTold == RelaySpec => []FailureTold
<1>1. RelayInv => FailureTold
  BY DEF RelayInv, HandlerInv, FailureTold
<1> QED BY <1>1, RelayInvariant, PTL

\* Every step of a relay is a step of MessageRelay or a stutter.
LEMMA RelayStepMaps ==
  ASSUME RelayInv, [RelayNext]_relayVars
  PROVE  [Promise!Next]_(Promise!vars)
<1> DEFINE Mapped == [Promise!Next]_(Promise!vars)
<1> USE DEF Promise!Next, Promise!vars
<1>1. ASSUME NEW d \in Dir, EndSends(d) PROVE Mapped
  BY <1>1 DEF EndSends, Promise!Send, pumpVars, handlerVars
<1>2. ASSUME NEW d \in Dir, PumpSends(d) PROVE Mapped
  <2>1. handler = "relay" /\ hand[d] = Len(fwd[d]) + 1 /\ Len(fwd[d]) < sent[d]
    BY <1>2, CountFacts
    DEF PumpSends, RelayInv, RelayTypeOK, PumpInv, HandlerInv, Alive
  <2>2. fwd' = [fwd EXCEPT ![d] = Append(@, Len(@) + 1)]
    BY <1>2, <2>1 DEF PumpSends
  <2> QED
    BY <1>2, <2>1, <2>2 DEF PumpSends, Promise!PassOn, handlerVars, endVars
<1>3. ASSUME UNCHANGED <<sent, fwd>>, handler = "ended" => handler' = "ended"
      PROVE  Mapped
  BY <1>3 DEF Promise!End
<1>4. ASSUME NEW d \in Dir, EndReads(d) PROVE Mapped
  BY <1>3, <1>4 DEF EndReads, handlerVars, pumpVars
<1>5. ASSUME NEW d \in Dir, PumpStep(d) PROVE Mapped
  BY <1>2, <1>3, <1>5
  DEF PumpStep, PumpReceives, PumpFails, PumpEnds, handlerVars, endVars
<1>6. ASSUME NEW e \in End, EndCloses(e) \/ EndBreaks(e) PROVE Mapped
  BY <1>3, <1>6 DEF EndCloses, EndBreaks, handlerVars, endVars, pumpVars
<1>7. CASE HandlerStep
  BY <1>3, <1>7
  DEF HandlerStep, Connects, ConnectFails, Accepts, AcceptFails, WaitReturns,
      Tells, Closes, Ends, Proceeds, endVars, pumpVars
<1>8. CASE UNCHANGED relayVars
  BY <1>3, <1>8 DEF relayVars, handlerVars, endVars, pumpVars
<1> QED BY <1>1, <1>4, <1>5, <1>6, <1>7, <1>8 DEF RelayNext

\* The tasks and the handler implement a relay: what is passed on is, in order
\* and without a gap, what was sent, and nothing is passed on after the end.
THEOREM RelayImplementsPromise == RelaySpec => RelaysInOrder
<1>1. RelayInit => Promise!Init
  BY DEF RelayInit, Promise!Init
<1>2. RelayInv /\ [RelayNext]_relayVars => [Promise!Next]_(Promise!vars)
  BY RelayStepMaps
<1> QED
  BY <1>1, <1>2, RelayInvariant, PTL DEF RelaySpec, RelaysInOrder, Promise!Spec

-----------------------------------------------------------------------------
(* The clipboard page.                                                     *)

\* What a transfer sends is what is to be pasted, and the dialog it came from
\* still shows it; while it runs nothing else has one open.  What it has written
\* is there unless somebody else wrote since.
TransferInv(t) ==
  /\ step[t] \in {"post", "written", "delay"} =>
       /\ text[t] = wanted
       /\ IF via[t] = "dialog" THEN dialog = "paste" /\ box = wanted ELSE dialog = "none"
  /\ step[t] \in {"local", "get", "put"} => wanted = NoText
  /\ step[t] = "local" => via[t] = "button" /\ dialog = "none"
  /\ step[t] \in {"written", "delay"} /\ calm => remote = text[t]

ClipboardInv ==
  /\ ClipboardTypeOK
  /\ OneTransfer
  /\ TextKept
  /\ PastesItsText
  /\ \A t \in Transfer : TransferInv(t)

\* A transfer that starts is alone, and its text is what is to be pasted.
LEMMA BeginInvStep ==
  ASSUME ClipboardInv, NEW t \in Transfer,
         ClicksPaste(t) \/ ClicksCopy(t) \/ DialogActs(t)
  PROVE  ClipboardInv'
<1> USE DEF ClipboardInv, ClipboardTypeOK, AnyText, Step, dialogVars, remoteVars, Begins
<1>1. /\ \A u \in Transfer : step[u] = "idle"
      /\ \A u \in Transfer \ {t} : step'[u] = "idle"
      /\ step'[t] # "idle" /\ busy'
  BY DEF ClicksPaste, ClicksCopy, DialogActs
<1>2. OneTransfer' /\ TextKept' /\ PastesItsText'
  BY <1>1 DEF OneTransfer, TextKept, PastesItsText, ClicksPaste, ClicksCopy, DialogActs
<1>3. ClipboardTypeOK'
  BY <1>1 DEF ClicksPaste, ClicksCopy, DialogActs
<1>4. TransferInv(t)'
  BY DEF TransferInv, TextKept, ClicksPaste, ClicksCopy, DialogActs
<1>5. \A u \in Transfer \ {t} : TransferInv(u)'
  BY <1>1 DEF TransferInv
<1> QED BY <1>2, <1>3, <1>4, <1>5

\* A transfer that goes on to another step keeps the invariant.
LEMMA GoesOnInvStep ==
  ASSUME ClipboardInv, NEW t \in Transfer,
         step[t] # "idle", step'[t] \in Step \ {"idle"}, Awaits(t, step'[t]),
         text' = [text EXCEPT ![t] = text'[t]], text'[t] \in AnyText,
         UNCHANGED <<vnc, dialogVars, local, late, keys>>,
         remote' \in AnyText, calm' \in BOOLEAN, wanted' \in AnyText,
         TransferInv(t)'
  PROVE  ClipboardInv'
<1> USE DEF ClipboardInv, ClipboardTypeOK, dialogVars, Awaits
<1>1. \A u \in Transfer \ {t} : step[u] = "idle" /\ step'[u] = "idle"
  BY DEF OneTransfer
<1>2. ClipboardTypeOK'
  BY <1>1
<1>3. OneTransfer' /\ TextKept' /\ PastesItsText'
  BY <1>1 DEF OneTransfer, TextKept, PastesItsText
<1>4. \A u \in Transfer \ {t} : TransferInv(u)'
  BY <1>1 DEF TransferInv
<1> QED BY <1>2, <1>3, <1>4

\* A transfer that ends leaves none, and its text in the dialog if it is still to
\* be pasted.
LEMMA SettleInvStep ==
  ASSUME ClipboardInv, NEW t \in Transfer, step[t] # "idle", Settles(t),
         UNCHANGED vnc, dialog' \in {"none", "paste", "copy"}, box' \in AnyText,
         local' \in AnyText, remote' \in AnyText, late' \in SUBSET Text,
         calm' \in BOOLEAN, wanted' \in AnyText,
         keys' \in [text : AnyText, saw : AnyText, calm : BOOLEAN],
         wanted' # NoText => dialog' = "paste" /\ box' = wanted',
         PastesItsText'
  PROVE  ClipboardInv'
<1> USE DEF ClipboardInv, ClipboardTypeOK, AnyText, Step, Settles
<1>1. \A u \in Transfer : step'[u] = "idle"
  BY DEF OneTransfer
<1>2. ClipboardTypeOK'
  BY <1>1
<1>3. OneTransfer' /\ TextKept'
  BY <1>1 DEF OneTransfer, TextKept
<1>4. \A u \in Transfer : TransferInv(u)'
  BY <1>1 DEF TransferInv
<1> QED BY <1>2, <1>3, <1>4

\* Every step of a transfer keeps the invariant.
LEMMA TransferInvStep ==
  ASSUME ClipboardInv, NEW t \in Transfer, TransferStep(t)
  PROVE  ClipboardInv'
<1> USE DEF dialogVars, remoteVars
<1>0. ClipboardTypeOK /\ TextKept /\ PastesItsText /\ TransferInv(t)
  BY DEF ClipboardInv
<1>1. CASE ClicksPaste(t) \/ ClicksCopy(t) \/ DialogActs(t)
  BY <1>1, BeginInvStep
<1>2. CASE ReadsLocal(t)
  <2>1. CASE local = NoText
    BY <1>0, <1>2, <2>1, SettleInvStep
    DEF ReadsLocal, Settles, ClipboardTypeOK, TransferInv, PastesItsText
  <2>2. CASE local # NoText
    <3>1. step'[t] = "post" /\ text'[t] = local /\ wanted' = local /\ via' = via
      BY <1>0, <1>2, <2>2 DEF ReadsLocal, Awaits, ClipboardTypeOK
    <3>2. TransferInv(t)'
      BY <1>0, <1>2, <2>2, <3>1 DEF ReadsLocal, TransferInv
    <3> QED
      BY <1>0, <1>2, <2>2, <3>1, <3>2, GoesOnInvStep DEF ReadsLocal, ClipboardTypeOK, Step
  <2> QED BY <2>1, <2>2
<1>3. CASE LocalDenied(t)
  BY <1>0, <1>3, SettleInvStep
  DEF LocalDenied, Shows, ClipboardTypeOK, TransferInv, PastesItsText, AnyText
<1>4. CASE WritesRemote(t)
  <2>1. step'[t] = "written" /\ text' = text /\ via' = via /\ remote' = text[t]
    BY <1>0, <1>4 DEF WritesRemote, Awaits, ClipboardTypeOK
  <2>2. TransferInv(t)'
    BY <1>0, <1>4, <2>1 DEF WritesRemote, TransferInv
  <2> QED BY <1>0, <1>4, <2>1, <2>2, GoesOnInvStep DEF WritesRemote, ClipboardTypeOK, Step
<1>5. CASE Acknowledged(t)
  <2>1. step'[t] = "delay" /\ text' = text /\ via' = via
    BY <1>0, <1>5 DEF Acknowledged, Awaits, ClipboardTypeOK
  <2>2. TransferInv(t)'
    BY <1>0, <1>5, <2>1 DEF Acknowledged, TransferInv
  <2> QED BY <1>0, <1>5, <2>1, <2>2, GoesOnInvStep DEF Acknowledged, ClipboardTypeOK, Step
<1>6. ASSUME PasteFails(t), step[t] \in {"post", "written", "delay"},
             UNCHANGED <<remote, calm>>, late' \in SUBSET Text
      PROVE  ClipboardInv'
  <2>1. wanted' # NoText => dialog' = "paste" /\ box' = wanted'
    BY <1>0, <1>6 DEF PasteFails, Shows, TransferInv, ClipboardTypeOK
  <2>2. dialog' \in {"none", "paste", "copy"} /\ box' \in AnyText
    BY <1>0, <1>6 DEF PasteFails, Shows, ClipboardTypeOK
  <2> QED
    BY <1>0, <1>6, <2>1, <2>2, SettleInvStep DEF PasteFails, ClipboardTypeOK, PastesItsText
<1>7. CASE WriteFails(t)
  BY <1>0, <1>6, <1>7 DEF WriteFails, ClipboardTypeOK
<1>8. CASE WriteAbandoned(t)
  BY <1>0, <1>6, <1>8 DEF WriteAbandoned, ClipboardTypeOK, AnyText
<1>9. CASE CannotPress(t)
  BY <1>0, <1>6, <1>9 DEF CannotPress, ClipboardTypeOK
<1>10. CASE PressesPaste(t)
  <2>1. /\ keys' \in [text : AnyText, saw : AnyText, calm : BOOLEAN]
        /\ PastesItsText'
    BY <1>0, <1>10 DEF PressesPaste, ClipboardTypeOK, PastesItsText, TransferInv
  <2>2. /\ dialog' \in {"none", "paste", "copy"} /\ box' \in AnyText
        /\ wanted' = NoText /\ wanted' \in AnyText
    BY <1>0, <1>10 DEF PressesPaste, Hides, ClipboardTypeOK, AnyText
  <2> QED BY <1>0, <1>10, <2>1, <2>2, SettleInvStep DEF PressesPaste, ClipboardTypeOK
<1>11. CASE ReadsRemote(t)
  <2>1. CASE Settles(t)
    BY <1>0, <1>11, <2>1, SettleInvStep
    DEF ReadsRemote, ClipboardTypeOK, TransferInv, PastesItsText
  <2>2. CASE text' = [text EXCEPT ![t] = remote] /\ Awaits(t, "put")
    <3>1. step'[t] = "put" /\ text'[t] = remote
      BY <1>0, <2>2 DEF Awaits, ClipboardTypeOK
    <3>2. TransferInv(t)'
      BY <1>0, <1>11, <3>1 DEF ReadsRemote, TransferInv
    <3> QED
      BY <1>0, <1>11, <2>2, <3>1, <3>2, GoesOnInvStep
      DEF ReadsRemote, ClipboardTypeOK, Step
  <2> QED BY <1>11, <2>1, <2>2 DEF ReadsRemote
<1>12. CASE WritesLocal(t)
  <2>1. dialog' \in {"none", "paste", "copy"} /\ box' \in AnyText
    BY <1>0, <1>12 DEF WritesLocal, Hides, ClipboardTypeOK
  <2> QED
    BY <1>0, <1>12, <2>1, SettleInvStep
    DEF WritesLocal, ClipboardTypeOK, TransferInv, PastesItsText
<1>13. CASE WriteLocalDenied(t)
  <2>1. dialog' \in {"none", "paste", "copy"} /\ box' \in AnyText
    BY <1>0, <1>13 DEF WriteLocalDenied, Shows, ClipboardTypeOK
  <2> QED
    BY <1>0, <1>13, <2>1, SettleInvStep
    DEF WriteLocalDenied, ClipboardTypeOK, TransferInv, PastesItsText
<1> QED
  BY <1>1, <1>2, <1>3, <1>4, <1>5, <1>7, <1>8, <1>9, <1>10, <1>11, <1>12, <1>13
  DEF TransferStep

\* So does every other step: the page does not let the person touch the dialog
\* while a transfer runs.
LEMMA PersonInvStep ==
  ASSUME ClipboardInv, PersonStep
  PROVE  ClipboardInv'
<1> USE DEF ClipboardInv, ClipboardTypeOK, AnyText, Step, transferVars, dialogVars,
            remoteVars, TransferInv, OneTransfer, TextKept, PastesItsText
<1>1. CASE Cancels
  BY <1>1 DEF Cancels, Hides
<1>2. CASE Edits
  BY <1>2 DEF Edits
<1>3. CASE CopiesLocally
  BY <1>3 DEF CopiesLocally
<1>4. CASE OthersCopy
  BY <1>4 DEF OthersCopy
<1>5. CASE WriteArrivesLate
  <2>1. PICK x \in late : remote' \in {x, remote} /\ late' = late \ {x} /\ calm' = FALSE
    BY <1>5 DEF WriteArrivesLate
  <2>2. remote' \in Text \cup {NoText} /\ late' \in SUBSET Text
    BY <2>1
  <2>3. UNCHANGED <<vnc, dialogVars, transferVars, local, wanted, keys>>
    BY <1>5 DEF WriteArrivesLate
  <2> QED BY <2>1, <2>2, <2>3
<1>6. CASE RfbConnects \/ RfbDisconnects
  BY <1>6 DEF RfbConnects, RfbDisconnects
<1> QED BY <1>1, <1>2, <1>3, <1>4, <1>5, <1>6 DEF PersonStep

\* The invariant always holds.
LEMMA ClipboardInvariant == ClipboardSpec => []ClipboardInv
<1>1. ClipboardInit => ClipboardInv
  <2> SUFFICES ASSUME ClipboardInit PROVE ClipboardInv
    OBVIOUS
  <2>1. \A t \in Transfer : step[t] = "idle"
    BY DEF ClipboardInit
  <2>2. ClipboardTypeOK
    BY <2>1 DEF ClipboardInit, ClipboardTypeOK, AnyText, Step
  <2>3. OneTransfer /\ TextKept /\ \A t \in Transfer : TransferInv(t)
    BY <2>1 DEF ClipboardInit, OneTransfer, TextKept, TransferInv
  <2>4. PastesItsText
    BY DEF ClipboardInit, PastesItsText
  <2> QED BY <2>2, <2>3, <2>4 DEF ClipboardInv
<1>2. ClipboardInv /\ [ClipboardNext]_clipboardVars => ClipboardInv'
  <2> SUFFICES ASSUME ClipboardInv, [ClipboardNext]_clipboardVars PROVE ClipboardInv'
    OBVIOUS
  <2>1. CASE ClipboardNext
    BY <2>1, TransferInvStep, PersonInvStep DEF ClipboardNext
  <2>2. CASE UNCHANGED clipboardVars
    BY <2>2
    DEF clipboardVars, dialogVars, transferVars, remoteVars, ClipboardInv,
        ClipboardTypeOK, OneTransfer, TextKept, PastesItsText, TransferInv
  <2> QED BY <2>1, <2>2
<1> QED BY <1>1, <1>2, PTL DEF ClipboardSpec

\* Every variable of the page always has its type, and it is busy exactly while a
\* transfer runs.
THEOREM ClipboardTypeCorrect == ClipboardSpec => []ClipboardTypeOK
<1>1. ClipboardInv => ClipboardTypeOK
  BY DEF ClipboardInv
<1> QED BY <1>1, ClipboardInvariant, PTL

\* However the person clicks, at most one transfer runs.
THEOREM OneTransferAtATime == ClipboardSpec => []OneTransfer
<1>1. ClipboardInv => OneTransfer
  BY DEF ClipboardInv
<1> QED BY <1>1, ClipboardInvariant, PTL

\* A text that was to be pasted is not lost by any failure.
THEOREM TextIsKept == ClipboardSpec => []TextKept
<1>1. ClipboardInv => TextKept
  BY DEF ClipboardInv
<1> QED BY <1>1, ClipboardInvariant, PTL

\* Ctrl+V meets the text of its transfer, unless another write came in between.
THEOREM PasteMeetsItsText == ClipboardSpec => []PastesItsText
<1>1. ClipboardInv => PastesItsText
  BY DEF ClipboardInv
<1> QED BY <1>1, ClipboardInvariant, PTL

-----------------------------------------------------------------------------
(* Sessions, bridge, relays and clipboard page side by side, as TLC checks     *)
(* them.                                                                       *)

\* Each of them is in ClientsMC what it is alone.
LEMMA ClientParts == MCSpec => Spec /\ BridgeSpec /\ RelaySpec /\ ClipboardSpec
<1>1. MCInit => Init /\ BridgeInit /\ RelayInit /\ ClipboardInit
  BY DEF MCInit
<1>2. [MCNext]_allVars => /\ [Next]_vars /\ [BridgeNext]_bridgeVars
                          /\ [RelayNext]_relayVars /\ [ClipboardNext]_clipboardVars
  BY DEF MCNext, OfSessions, OfBridge, OfRelay, OfClipboard, Over, allVars
<1> QED
  BY <1>1, <1>2, PTL DEF MCSpec, Spec, BridgeSpec, RelaySpec, ClipboardSpec

\* The variables of all four have their types, whichever of them moves.
THEOREM ClientsTypeCorrect == MCSpec => []TypesOK
<1>1. TypeOK /\ BridgeTypeOK /\ RelayTypeOK /\ ClipboardTypeOK => TypesOK
  BY DEF TypesOK
<1> QED
  BY <1>1, ClientParts, TypeCorrect, BridgeTypes, RelayTypeCorrect,
     ClipboardTypeCorrect, PTL

\* What is proved of each alone holds of the four: a one-time ticket opens once
\* and for its sandbox, a person is not disturbed by automation, relays leave
\* nothing running and lose no last message, and pasted text is not lost.
THEOREM ClientsAreSafe ==
  ASSUME MaxStall < 2
  PROVE  MCSpec =>
           /\ [](/\ OneTimeOnce /\ OneSessionPerTicket /\ AccessWithinGrant
                 /\ PersonUndisturbed /\ DoubtBlocks /\ ClosedLetsGo
                 /\ NothingLeftRunning /\ LastMessagesPassed /\ FailureTold
                 /\ OneTransfer /\ TextKept /\ PastesItsText)
           /\ KeepsPageControl
           /\ RelaysInOrder
BY ClientParts, UsedOnce, OneSession, AccessGranted, PersonLeftAlone,
   DoubtIsBlocked, CloseIsFinal, NothingIsLeft, LastMessagesArePassed,
   FailureIsTold, OneTransferAtATime, TextIsKept, PasteMeetsItsText,
   BridgeImplementsPageControl, RelayImplementsPromise, PTL
================================================================================
