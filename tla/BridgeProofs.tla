----------------------------- MODULE BridgeProofs -----------------------------
(***************************************************************************)
(* Theorems about HandoffBridge for any number of tool calls: a person is  *)
(* left alone, a page command in doubt blocks automation, a closed bridge  *)
(* has let go, and the bridge implements PageControl.                      *)
(***************************************************************************)
EXTENDS HandoffBridge, TLAPS

-----------------------------------------------------------------------------
(* The inductive invariant.                                                *)

\* The promise chain runs one call at a time.
Serial == \A c, d \in Call : stage[c] \in Running /\ stage[d] \in Running => c = d

\* What the call that runs knows of the bridge, from what it checked before it
\* was suspended: nothing else has changed the state meanwhile.
Phases ==
  \A c \in Call :
    /\ stage[c] \in Running /\ tool[c] \notin Control => state # "handoff"
    /\ stage[c] \in {"connecting", "acting"} => tool[c] = "act"
    /\ stage[c] = "cleaning" => state = "interrupted"
    /\ stage[c] \in {"handing", "ticketing"} =>
         tool[c] = "verge_handoff" /\ state = "handoff"
    /\ stage[c] = "ticketing" => ~attached /\ ~driving

\* From the answer of the session link to a resume nothing is connected.
HandedOff == handed => state = "handoff" /\ ~attached /\ ~driving

\* A closed bridge has let go and runs no call.
Closed ==
  closing = "closed" =>
    /\ ~handle /\ ~attached /\ ~driving
    /\ \A c \in Call : stage[c] \notin Running

BridgeInv == BridgeTypeOK /\ Serial /\ Phases /\ HandedOff /\ DoubtBlocks /\ Closed

-----------------------------------------------------------------------------
(* Every step keeps it.                                                     *)

\* The catch of call() keeps the types.
LEMMA ThrowsType ==
  ASSUME BridgeTypeOK, NEW c \in Call,
         NEW now \in {"automation", "handoff", "interrupted"}, Throws(c, now)
  PROVE  /\ state' \in {"automation", "handoff", "interrupted"}
         /\ stage' \in [Call -> Running \cup {"idle", "waiting"}]
         /\ aborted' \subseteq {d \in Call : stage'[d] # "idle"}
         /\ handle' \in BOOLEAN
BY DEF BridgeTypeOK, Running, Throws, Goes, DropHandles, Answered

\* By Serial only the call that runs, or the listener it set, changes the state;
\* so what a call checked before it was suspended still holds when it goes on.
LEMMA BridgeStep ==
  ASSUME BridgeInv, [BridgeNext]_bridgeVars
  PROVE  BridgeInv'
<1> USE DEF BridgeInv, BridgeTypeOK, Serial, Phases, HandedOff, DoubtBlocks, Closed,
        Running, Tool, Control, bridgeVars, pageVars, historyVars
<1>1. ASSUME NEW c \in Call, Refused(c) PROVE BridgeInv'
  BY <1>1 DEF Refused, TailSettled, Stopped, Answered
<1>2. ASSUME NEW c \in Call, Begin(c) PROVE BridgeInv'
  BY <1>2 DEF Begin, TailSettled, Stopped, Goes
<1>3. ASSUME NEW c \in Call, RequestFails(c) PROVE BridgeInv'
  <2> USE <1>3 DEF RequestFails, Throws, Goes, DropHandles, Answered,
        HandoffFails
  <2>1. BridgeTypeOK'
    BY ThrowsType
  <2>2. Serial'
    OBVIOUS
  <2>3. Phases'
    OBVIOUS
  <2>4. HandedOff'
    OBVIOUS
  <2>5. DoubtBlocks'
    OBVIOUS
  <2>6. Closed'
    OBVIOUS
  <2>. QED
    BY <2>1, <2>2, <2>3, <2>4, <2>5, <2>6
<1>4. ASSUME NEW c \in Call, RequestAnswered(c) PROVE BridgeInv'
  BY <1>4 DEF RequestAnswered, Answered
<1>5. ASSUME NEW c \in Call, HandoffChecked(c) PROVE BridgeInv'
  BY <1>5 DEF HandoffChecked, DropHandles, Goes
<1>6. ASSUME NEW c \in Call, HandoffDisconnected(c) PROVE BridgeInv'
  <2> USE <1>6 DEF HandoffDisconnected, Disconnected, Goes, Answered,
        HandoffFails
  <2>1. BridgeTypeOK'
    OBVIOUS
  <2>2. Serial'
    OBVIOUS
  <2>3. Phases'
    OBVIOUS
  <2>4. HandedOff'
    OBVIOUS
  <2>5. DoubtBlocks'
    OBVIOUS
  <2>6. Closed'
    OBVIOUS
  <2>. QED
    BY <2>1, <2>2, <2>3, <2>4, <2>5, <2>6
<1>7. ASSUME NEW c \in Call, HandedOver(c) PROVE BridgeInv'
  BY <1>7 DEF HandedOver, Answered
<1>8. ASSUME NEW c \in Call, ResumeChecked(c) PROVE BridgeInv'
  BY <1>8 DEF ResumeChecked, DropHandles, Goes
<1>9. ASSUME NEW c \in Call, Resumed(c) PROVE BridgeInv'
  BY <1>9 DEF Resumed, Disconnected, Answered
<1>10. ASSUME NEW c \in Call, ResumeFails(c) PROVE BridgeInv'
  <2> USE <1>10 DEF ResumeFails, Disconnected, Throws, Goes, DropHandles,
        Answered
  <2>1. BridgeTypeOK'
    BY ThrowsType
  <2>2. Serial'
    OBVIOUS
  <2>3. Phases'
    OBVIOUS
  <2>4. HandedOff'
    OBVIOUS
  <2>5. DoubtBlocks'
    OBVIOUS
  <2>6. Closed'
    OBVIOUS
  <2>. QED
    BY <2>1, <2>2, <2>3, <2>4, <2>5, <2>6
<1>11. ASSUME NEW c \in Call, LookChecked(c) PROVE BridgeInv'
  BY <1>11 DEF LookChecked, Goes
<1>12. ASSUME NEW c \in Call, CommandChecked(c) PROVE BridgeInv'
  BY <1>12 DEF CommandChecked, Sends, Goes
<1>13. ASSUME NEW c \in Call, ActChecked(c) PROVE BridgeInv'
  <2> USE <1>13 DEF ActChecked, Stopped, Sends, Throws, Goes, DropHandles,
        Answered
  <2>1. BridgeTypeOK'
    OBVIOUS
  <2>2. Serial'
    OBVIOUS
  <2>3. Phases'
    OBVIOUS
  <2>4. HandedOff'
    OBVIOUS
  <2>5. DoubtBlocks'
    OBVIOUS
  <2>6. Closed'
    OBVIOUS
  <2>. QED
    BY <2>1, <2>2, <2>3, <2>4, <2>5, <2>6
<1>14. ASSUME NEW c \in Call, Connected(c) PROVE BridgeInv'
  BY <1>14 DEF Connected, Stopped, Sends, Goes
<1>15. ASSUME NEW c \in Call, ConnectingFails(c) PROVE BridgeInv'
  <2> USE <1>15 DEF ConnectingFails, Throws, Goes, DropHandles, Answered
  <2>1. BridgeTypeOK'
    BY ThrowsType
  <2>2. Serial'
    OBVIOUS
  <2>3. Phases'
    OBVIOUS
  <2>4. HandedOff'
    OBVIOUS
  <2>5. DoubtBlocks'
    OBVIOUS
  <2>6. Closed'
    OBVIOUS
  <2>. QED
    BY <2>1, <2>2, <2>3, <2>4, <2>5, <2>6
<1>16. ASSUME NEW c \in Call, ActReturns(c) PROVE BridgeInv'
  BY <1>16 DEF ActReturns, Stopped, Answered
<1>17. ASSUME NEW c \in Call, ActFails(c) PROVE BridgeInv'
  <2> USE <1>17 DEF ActFails, Throws, Goes, DropHandles, Answered
  <2>1. BridgeTypeOK'
    BY ThrowsType
  <2>2. Serial'
    OBVIOUS
  <2>3. Phases'
    OBVIOUS
  <2>4. HandedOff'
    OBVIOUS
  <2>5. DoubtBlocks'
    OBVIOUS
  <2>6. Closed'
    OBVIOUS
  <2>. QED
    BY <2>1, <2>2, <2>3, <2>4, <2>5, <2>6
<1>18. ASSUME NEW c \in Call, Cleaned(c) PROVE BridgeInv'
  BY <1>18 DEF Cleaned, Disconnected, Answered
<1>19. ASSUME NEW c \in Call, Abort(c) PROVE BridgeInv'
  BY <1>19 DEF Abort, Stopped, Listener
<1>20. ASSUME NEW c \in Call, NEW t \in Tool, CallTool(c, t) PROVE BridgeInv'
  BY <1>20 DEF CallTool, Goes
<1>21. CASE LinkDrops
  BY <1>21 DEF LinkDrops
<1>22. CASE BeginClose
  BY <1>22 DEF BeginClose, Listener
<1>23. CASE FinishClose
  BY <1>23 DEF FinishClose, DropHandles, Disconnected
<1>24. CASE UNCHANGED bridgeVars
  BY <1>24
<1>. QED
  BY <1>1, <1>2, <1>3, <1>4, <1>5, <1>6, <1>7, <1>8, <1>9, <1>10, <1>11, <1>12,
        <1>13, <1>14, <1>15, <1>16, <1>17, <1>18, <1>19, <1>20, <1>21, <1>22,
        <1>23, <1>24
     DEF BridgeNext, CallStep, Execute

\* The initial states satisfy it.
LEMMA BridgeStarts ==
  ASSUME BridgeInit
  PROVE  BridgeInv
BY DEF BridgeInit, BridgeInv, BridgeTypeOK, Serial, Phases, HandedOff, DoubtBlocks,
       Closed, Running, Tool, Control

\* The invariant holds in every reachable state.
LEMMA BridgeInvariant == BridgeSpec => []BridgeInv
<1>1. BridgeInit => BridgeInv
  BY BridgeStarts
<1>2. BridgeInv /\ [BridgeNext]_bridgeVars => BridgeInv'
  BY BridgeStep
<1>. QED
  BY <1>1, <1>2, PTL DEF BridgeSpec

-----------------------------------------------------------------------------
(* The theorems.                                                           *)

\* Every variable keeps its type.
THEOREM BridgeTypes == BridgeSpec => []BridgeTypeOK
<1>1. BridgeInv => BridgeTypeOK
  BY DEF BridgeInv
<1>. QED
  BY <1>1, BridgeInvariant, PTL

\* disconnect() before the session link, and the state checked by call(): a
\* person who was given the link is left alone until a resume succeeds.
THEOREM PersonLeftAlone == BridgeSpec => []PersonUndisturbed
<1>1. BridgeInv => PersonUndisturbed
  BY DEF BridgeInv, HandedOff, Phases, Running, Control, PersonUndisturbed
<1>. QED
  BY <1>1, BridgeInvariant, PTL

\* The catches of call() and execute(): automation stays blocked after a page
\* command in doubt.
THEOREM DoubtIsBlocked == BridgeSpec => []DoubtBlocks
<1>1. BridgeInv => DoubtBlocks
  BY DEF BridgeInv
<1>. QED
  BY <1>1, BridgeInvariant, PTL

\* close(): a closed bridge is connected to nothing and drives nothing.
THEOREM CloseIsFinal == BridgeSpec => []ClosedLetsGo
<1>1. BridgeInv => ClosedLetsGo
  BY DEF BridgeInv, Closed, ClosedLetsGo
<1>. QED
  BY <1>1, BridgeInvariant, PTL

-----------------------------------------------------------------------------
(* The bridge implements PageControl.                                      *)

\* Every step of the bridge drives the page, lets it go, hands it over or takes
\* it back, or is none of these.
LEMMA PageStep ==
  ASSUME BridgeInv, [BridgeNext]_bridgeVars
  PROVE  [Page!Next]_(Page!vars)
<1> DEFINE Simulated == [Page!Next]_(Page!vars)
<1> USE DEF Page!vars, Page!Next
<1>1. ASSUME NEW c \in Call, CommandChecked(c) \/ ActChecked(c) \/ Connected(c)
      PROVE  Simulated
  <2>1. ~handed
    BY <1>1 DEF BridgeInv, Phases, HandedOff, CommandChecked, ActChecked,
                Connected, Running, Control
  <2>2. UNCHANGED <<handed, driving>> \/ (driving' = TRUE /\ UNCHANGED handed)
    BY <1>1 DEF CommandChecked, ActChecked, Connected, Sends, historyVars
  <2>. QED
    BY <2>1, <2>2 DEF Page!Drive
<1>2. ASSUME NEW c \in Call, HandedOver(c) PROVE Simulated
  BY <1>2 DEF BridgeInv, Phases, HandedOver, pageVars, Page!HandOver
<1>3. ASSUME NEW c \in Call, Resumed(c) PROVE Simulated
  BY <1>3 DEF BridgeInv, BridgeTypeOK, HandedOff, Resumed, Disconnected,
              Page!LetGo, Page!TakeBack
<1>4. ASSUME UNCHANGED handed, driving' \in {driving, FALSE} PROVE Simulated
  BY <1>4 DEF Page!LetGo
<1>5. ASSUME NEW c \in Call,
             \/ RequestFails(c) \/ RequestAnswered(c) \/ LookChecked(c)
             \/ HandoffChecked(c) \/ HandoffDisconnected(c) \/ ResumeChecked(c)
             \/ ResumeFails(c) \/ ConnectingFails(c) \/ ActReturns(c)
             \/ ActFails(c) \/ Cleaned(c)
      PROVE  Simulated
  BY <1>4, <1>5 DEF RequestFails, RequestAnswered, LookChecked, HandoffChecked,
       HandoffDisconnected, ResumeChecked, ResumeFails, ConnectingFails, ActReturns,
       ActFails, Cleaned, Disconnected, pageVars, historyVars, BridgeInv, BridgeTypeOK
<1>6. ASSUME NEW c \in Call,
             \/ Refused(c) \/ Begin(c) \/ Abort(c)
             \/ \E t \in Tool : CallTool(c, t)
      PROVE  Simulated
  BY <1>4, <1>6 DEF Refused, Begin, Abort, CallTool, pageVars, historyVars
<1>7. CASE LinkDrops \/ BeginClose \/ FinishClose \/ UNCHANGED bridgeVars
  BY <1>4, <1>7 DEF LinkDrops, BeginClose, FinishClose, Disconnected,
                    bridgeVars, pageVars, historyVars
<1>. QED
  BY <1>1, <1>2, <1>3, <1>5, <1>6, <1>7 DEF BridgeNext, CallStep, Execute

\* AttachedBrowser keeps what the plugin promises of a shared page: it drives
\* the page only while it owns it, and lets go before a person gets it.
THEOREM BridgeImplementsPageControl == BridgeSpec => KeepsPageControl
<1>1. BridgeInit => Page!Init
  BY DEF BridgeInit, Page!Init
<1>2. BridgeInv /\ [BridgeNext]_bridgeVars => [Page!Next]_(Page!vars)
  BY PageStep
<1>. QED
  BY <1>1, <1>2, BridgeInvariant, PTL DEF BridgeSpec, KeepsPageControl, Page!Spec
===============================================================================
