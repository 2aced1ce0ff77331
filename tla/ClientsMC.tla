-------------------------------- MODULE ClientsMC --------------------------------
(* What clients reach sandboxes through, for TLC: Sessions, HandoffBridge,     *)
(* WebSocketRelay and ClipboardPage.  They share no state, and no property is  *)
(* about two of them: in a behaviour only one of them moves.                   *)
EXTENDS Sessions, HandoffBridge, WebSocketRelay, ClipboardPage

VARIABLE part   \* the one that moves

allVars == <<vars, bridgeVars, relayVars, clipboardVars, part>>

MCInit ==
  /\ Init
  /\ BridgeInit
  /\ RelayInit
  /\ ClipboardInit
  /\ part \in {"sessions", "bridge", "relay", "clipboard"}
  /\ part # "bridge" => engine = "cdp"
  /\ part # "relay" => route = "session"
  /\ part # "clipboard" => local = NoText /\ remote = NoText

\* Every relay ends, and need not go on then.
Over == part = "relay" /\ handler = "ended" /\ UNCHANGED allVars

OfSessions(A) ==
  part = "sessions" /\ A /\ UNCHANGED <<bridgeVars, relayVars, clipboardVars, part>>
OfBridge(A) ==
  part = "bridge" /\ A /\ UNCHANGED <<vars, relayVars, clipboardVars, part>>
OfRelay(A) ==
  part = "relay" /\ A /\ UNCHANGED <<vars, bridgeVars, clipboardVars, part>>
OfClipboard(A) ==
  part = "clipboard" /\ A /\ UNCHANGED <<vars, bridgeVars, relayVars, part>>

MCNext ==
  \/ OfSessions(Next)
  \/ OfBridge(BridgeNext)
  \/ OfRelay(RelayNext)
  \/ OfClipboard(ClipboardNext)
  \/ Over

\* The fairness of LiveSpec and of BridgeLiveSpec.  Of a relay, the event loop
\* runs what can run, the time limits of connecting and closing included, and an
\* end that takes no more is given up when it answers no ping.
Fairness ==
  /\ WF_allVars(OfSessions(Tick)) /\ WF_allVars(OfSessions(PruneLoop))
  /\ \A c \in Call :
       /\ WF_allVars(OfBridge(Execute(c)))
       /\ SF_allVars(OfBridge(Refused(c) \/ Begin(c)))
  /\ SF_allVars(OfBridge(FinishClose))
  /\ WF_allVars(OfRelay(HandlerStep))
  /\ \A d \in Dir : WF_allVars(OfRelay(PumpStep(d)))
  /\ \A e \in End : WF_allVars(OfRelay(Stalled(e) /\ EndBreaks(e)))

MCSpec == MCInit /\ [][MCNext]_allVars /\ Fairness

\* The types of all four: among others that only one-time tickets are remembered
\* as used, that only a call that is not answered yet is aborted, that nothing is
\* received that was not sent, and that the page is busy exactly while a transfer
\* runs.
TypesOK == TypeOK /\ BridgeTypeOK /\ RelayTypeOK /\ ClipboardTypeOK
================================================================================
