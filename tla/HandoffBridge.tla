----------------------------- MODULE HandoffBridge -----------------------------
(***************************************************************************)
(* AttachedBrowser of packages/dsh-plugin/src/browser.ts: one bridge to    *)
(* one sandbox.  Tool calls arrive at any time, wait on the promise chain  *)
(* `tail`, and go through several awaits; each action is what happens      *)
(* between two of them.  Any request may fail, any call may be aborted by  *)
(* its client or its time limit, and the connection to the browser may     *)
(* drop at any time.                                                       *)
(***************************************************************************)
CONSTANT Call   \* slots for tool calls that were made and not answered yet

VARIABLES
  engine,    \* "cdp" (chromium, cloakbrowser) or "camoufox", of the sandbox
  state,     \* this.state
  tool,      \* [Call -> Tool]: what a call asks for
  stage,     \* [Call -> ...]: where a call is
  aborted,   \* calls whose AbortSignal has fired
  handle,    \* this.mcp and this.browser are set
  attached,  \* Playwright is connected to the browser over CDP
  driving,   \* a page command of the bridge is on its way or at work, and
             \* its sender still waits for it or is still connected
  closing,   \* "open", "closing" (lifetime aborted), "closed"
  handed,    \* history: a session link was answered, no resume succeeded since
  doubt,     \* history: a page command was sent whose call then failed, and no
             \* resume succeeded since
  unhanded   \* history: a handoff call failed, and no resume succeeded since

pageVars == <<state, handle, attached, driving, closing>>
historyVars == <<handed, doubt, unhanded>>
bridgeVars == <<engine, tool, stage, aborted, pageVars, historyVars>>

\* act: a tool named browser_* on CDP engines; on Camoufox a command that
\* changes the page (browser.ts:229).  look: the other Camoufox commands,
\* screenshots and files.
Control == {"verge_status", "verge_handoff", "verge_resume"}
Tool == Control \cup {"act", "look"}

\* waiting: on tail.  status, checking: on GET sandbox.  handing, resuming,
\* cleaning: on disconnect.  ticketing: on the session ticket.  looking: on a
\* request.  connecting: on connect.  acting: on the page command.
Running == {"status", "checking", "handing", "ticketing", "resuming",
            "looking", "connecting", "acting", "cleaning"}

BridgeTypeOK ==
  /\ engine \in {"cdp", "camoufox"}
  /\ state \in {"automation", "handoff", "interrupted"}
  /\ tool \in [Call -> Tool]
  /\ stage \in [Call -> Running \cup {"idle", "waiting"}]
  /\ aborted \subseteq {c \in Call : stage[c] # "idle"}
  /\ {handle, attached, driving, handed, doubt, unhanded} \subseteq BOOLEAN
  /\ closing \in {"open", "closing", "closed"}

BridgeInit ==
  /\ engine \in {"cdp", "camoufox"}
  /\ state = "automation"
  /\ tool \in [Call -> {"verge_status"}]
  /\ stage = [c \in Call |-> "idle"]
  /\ aborted = {}
  /\ handle = FALSE /\ attached = FALSE /\ driving = FALSE
  /\ closing = "open"
  /\ handed = FALSE /\ doubt = FALSE /\ unhanded = FALSE

-----------------------------------------------------------------------------

Goes(c, where) == stage' = [stage EXCEPT ![c] = where]

\* The call's own signal or the bridge's lifetime has ended.
Stopped(c) == c \in aborted \/ closing # "open"

\* Variant: calls run beside each other.
TailIgnored(c) == TRUE

\* The previous call of the promise chain has settled; calls that wait are
\* taken in any order.
TailSettled(c) == \A d \in Call \ {c} : stage[d] \notin Running

\* The handles are forgotten before they are closed.
DropHandles == handle' = FALSE

\* All closes have settled, with or without an error: the client is no longer
\* connected, so nothing it drove goes on.
Disconnected == attached' = FALSE /\ driving' = FALSE

\* call() answers.
Answered(c) ==
  /\ stage' = [stage EXCEPT ![c] = "idle"]
  /\ aborted' = aborted \ {c}

\* The catch of call(), when this.state is now: after a page command over CDP,
\* or if interrupted, the client disconnects before the error is answered.
Throws(c, now) ==
  IF (engine = "cdp" /\ tool[c] = "act") \/ now = "interrupted"
  THEN /\ state' = "interrupted"
       /\ Goes(c, "cleaning")
       /\ DropHandles
       /\ UNCHANGED aborted
  ELSE /\ state' = now
       /\ Answered(c)
       /\ UNCHANGED handle

HandoffFails(c) == unhanded' = (unhanded \/ tool[c] = "verge_handoff")

-----------------------------------------------------------------------------
(* The queue.  Calls with unknown names or invalid arguments are left out. *)

CallTool(c, t) ==
  /\ stage[c] = "idle"
  /\ Goes(c, "waiting")
  /\ tool' = [tool EXCEPT ![c] = t]
  /\ UNCHANGED <<engine, aborted, pageVars, historyVars>>

\* Variant: a call that comes during a handoff waits for the resume.
RefusedIfStopped(c) ==
  /\ stage[c] = "waiting" /\ TailSettled(c)
  /\ Stopped(c)
  /\ Answered(c)
  /\ UNCHANGED <<engine, tool, pageVars, historyVars>>

\* The call is refused before execute: nothing changes but its answer.
Refused(c) ==
  /\ stage[c] = "waiting" /\ TailSettled(c)
  /\ Stopped(c) \/ (state # "automation" /\ tool[c] \notin Control)
  /\ Answered(c)
  /\ UNCHANGED <<engine, tool, pageVars, historyVars>>

Begin(c) ==
  /\ stage[c] = "waiting" /\ TailSettled(c)
  /\ ~Stopped(c)
  /\ state = "automation" \/ tool[c] \in Control
  /\ Goes(c, IF tool[c] = "verge_status" THEN "status" ELSE "checking")
  /\ UNCHANGED <<engine, tool, aborted, pageVars, historyVars>>

\* The signal of a call fires.  During a page command over CDP the listener
\* interrupts automation and begins to close the connection.
Listener(S) ==
  IF engine = "cdp" /\ \E c \in S : stage[c] = "acting"
  THEN state' = "interrupted" /\ attached' \in {attached, FALSE}
  ELSE UNCHANGED <<state, attached>>

Abort(c) ==
  /\ stage[c] # "idle" /\ ~Stopped(c)
  /\ aborted' = aborted \cup {c}
  /\ Listener({c})
  /\ UNCHANGED <<engine, tool, stage, handle, driving, closing, historyVars>>

-----------------------------------------------------------------------------
(* execute.                                                                *)

\* A request of a call fails, or what it answers is refused: status, current,
\* the session ticket, a screenshot, a file.
RequestFails(c) ==
  /\ stage[c] \in {"status", "checking", "ticketing", "looking"}
  /\ Throws(c, state)
  /\ HandoffFails(c)
  /\ UNCHANGED <<engine, tool, attached, driving, closing, handed, doubt>>

\* A request that ends the call.
RequestAnswered(c) ==
  /\ stage[c] \in {"status", "looking"}
  /\ Answered(c)
  /\ UNCHANGED <<engine, tool, pageVars, historyVars>>

\* Variant: handing over forgets the handles without closing them.
HandoffCheckedOnly(c) ==
  /\ stage[c] = "checking" /\ tool[c] = "verge_handoff"
  /\ state' = "handoff"
  /\ DropHandles
  /\ Goes(c, "ticketing")
  /\ UNCHANGED <<engine, tool, aborted, attached, driving, closing, historyVars>>

\* current(): the sandbox runs, with the same engine.
HandoffChecked(c) ==
  /\ stage[c] = "checking" /\ tool[c] = "verge_handoff"
  /\ state' = "handoff"
  /\ DropHandles
  /\ Goes(c, "handing")
  /\ UNCHANGED <<engine, tool, aborted, attached, driving, closing, historyVars>>

ResumeChecked(c) ==
  /\ stage[c] = "checking" /\ tool[c] = "verge_resume"
  /\ DropHandles
  /\ Goes(c, "resuming")
  /\ UNCHANGED <<engine, tool, aborted, state, attached, driving, closing,
                 historyVars>>

LookChecked(c) ==
  /\ stage[c] = "checking" /\ tool[c] = "look"
  /\ Goes(c, "looking")
  /\ UNCHANGED <<engine, tool, aborted, pageVars, historyVars>>

\* A page command is sent.
Sends(c) == Goes(c, "acting") /\ driving' = TRUE

CommandChecked(c) ==
  /\ stage[c] = "checking" /\ tool[c] = "act" /\ engine = "camoufox"
  /\ Sends(c)
  /\ UNCHANGED <<engine, tool, aborted, state, handle, attached, closing,
                 historyVars>>

\* connect(): the connection is reused, made, or refused because it dropped.
ActChecked(c) ==
  /\ stage[c] = "checking" /\ tool[c] = "act" /\ engine = "cdp"
  /\ \/ /\ handle /\ attached /\ ~Stopped(c)
        /\ Sends(c)
        /\ UNCHANGED <<aborted, state, handle>>
     \/ /\ handle /\ (~attached \/ Stopped(c))
        /\ Throws(c, state)
        /\ UNCHANGED driving
     \/ /\ ~handle
        /\ Goes(c, "connecting")
        /\ UNCHANGED <<aborted, state, handle, driving>>
  /\ UNCHANGED <<engine, tool, attached, closing, historyVars>>

\* connectOverCDP returned: only now is the signal looked at.
Connected(c) ==
  /\ stage[c] = "connecting" /\ ~Stopped(c)
  /\ handle' = TRUE /\ attached' = TRUE
  /\ Sends(c)
  /\ UNCHANGED <<engine, tool, aborted, state, closing, historyVars>>

ConnectingFails(c) ==
  /\ stage[c] = "connecting"
  /\ attached' \in BOOLEAN
  /\ Throws(c, state)
  /\ UNCHANGED <<engine, tool, driving, closing, historyVars>>

ActReturns(c) ==
  /\ stage[c] = "acting"
  /\ engine = "cdp" => ~Stopped(c)
  /\ Answered(c)
  /\ driving' = FALSE
  /\ UNCHANGED <<engine, tool, state, handle, attached, closing, historyVars>>

\* Variant: a lost answer of a Camoufox command does not interrupt automation.
ActFailsQuietly(c) ==
  /\ stage[c] = "acting"
  /\ Throws(c, state)
  /\ driving' = (driving /\ engine = "cdp")
  /\ doubt' = TRUE
  /\ UNCHANGED <<engine, tool, attached, closing, handed, unhanded>>

\* The tool reports an error, times out, or is aborted; a Camoufox command is
\* refused, or its answer lost while the server goes on with it.
ActFails(c) ==
  /\ stage[c] = "acting"
  /\ Throws(c, "interrupted")
  /\ driving' = (driving /\ engine = "cdp")
  /\ doubt' = TRUE
  /\ UNCHANGED <<engine, tool, attached, closing, handed, unhanded>>

HandoffDisconnected(c) ==
  /\ stage[c] = "handing"
  /\ Disconnected
  /\ \/ Goes(c, "ticketing") /\ UNCHANGED <<aborted, unhanded>>
     \/ Answered(c) /\ HandoffFails(c)
  /\ UNCHANGED <<engine, tool, state, handle, closing, handed, doubt>>

\* The one-time session link is answered.
HandedOver(c) ==
  /\ stage[c] = "ticketing"
  /\ Answered(c)
  /\ handed' = TRUE
  /\ UNCHANGED <<engine, tool, pageVars, doubt, unhanded>>

Resumed(c) ==
  /\ stage[c] = "resuming"
  /\ Disconnected
  /\ state' = "automation"
  /\ Answered(c)
  /\ handed' = FALSE /\ doubt' = FALSE /\ unhanded' = FALSE
  /\ UNCHANGED <<engine, tool, handle, closing>>

\* A close reported an error: automation stays what it was.
ResumeFails(c) ==
  /\ stage[c] = "resuming"
  /\ Disconnected
  /\ Throws(c, state)
  /\ UNCHANGED <<engine, tool, closing, historyVars>>

Cleaned(c) ==
  /\ stage[c] = "cleaning"
  /\ Disconnected
  /\ Answered(c)
  /\ UNCHANGED <<engine, tool, state, handle, closing, historyVars>>

Execute(c) ==
  \/ RequestFails(c) \/ RequestAnswered(c)
  \/ HandoffChecked(c) \/ HandoffDisconnected(c) \/ HandedOver(c)
  \/ ResumeChecked(c) \/ Resumed(c) \/ ResumeFails(c)
  \/ LookChecked(c) \/ CommandChecked(c) \/ ActChecked(c)
  \/ Connected(c) \/ ConnectingFails(c) \/ ActReturns(c) \/ ActFails(c)
  \/ Cleaned(c)

-----------------------------------------------------------------------------
(* The browser's end, and the end of the bridge.                           *)

\* The sandbox is paused or restarted, or the network fails.
LinkDrops ==
  /\ attached
  /\ attached' = FALSE
  /\ driving' = FALSE
  /\ UNCHANGED <<engine, tool, stage, aborted, state, handle, closing,
                 historyVars>>

BeginClose ==
  /\ closing = "open"
  /\ closing' = "closing"
  /\ Listener(Call)
  /\ UNCHANGED <<engine, tool, stage, aborted, handle, driving, historyVars>>

\* Variant: close() does not wait for the running call.
FinishCloseEarly ==
  /\ closing = "closing"
  /\ closing' = "closed"
  /\ DropHandles
  /\ Disconnected
  /\ UNCHANGED <<engine, tool, stage, aborted, state, historyVars>>

\* close() awaited tail and disconnects.
FinishClose ==
  /\ closing = "closing"
  /\ \A c \in Call : stage[c] \notin Running
  /\ closing' = "closed"
  /\ DropHandles
  /\ Disconnected
  /\ UNCHANGED <<engine, tool, stage, aborted, state, historyVars>>

CallStep(c) == Refused(c) \/ Begin(c) \/ Execute(c)

BridgeNext ==
  \/ \E c \in Call : CallStep(c) \/ Abort(c) \/ \E t \in Tool : CallTool(c, t)
  \/ LinkDrops \/ BeginClose \/ FinishClose

BridgeSpec == BridgeInit /\ [][BridgeNext]_bridgeVars

\* The chain goes on in some order of its calls, every await of a call ends
\* (requests and connecting have time limits), and close() gets its turn.
BridgeLiveSpec ==
  /\ BridgeSpec
  /\ \A c \in Call : WF_bridgeVars(Execute(c)) /\ SF_bridgeVars(Refused(c) \/ Begin(c))
  /\ SF_bridgeVars(FinishClose)

-----------------------------------------------------------------------------
(* Properties.                                                             *)

\* A person who was given the session link has the page alone, as far as this
\* bridge is concerned, until a resume succeeds: no connection, no command at
\* work and none that could still be sent by a call that began earlier.
PersonUndisturbed ==
  handed => /\ state = "handoff"
            /\ ~attached /\ ~driving
            /\ \A c \in Call : stage[c] \notin {"connecting", "acting"}

\* After a page command whose outcome the agent does not know, whether it timed
\* out, was aborted, failed or lost its answer, automation stays blocked until
\* an explicit resume.
DoubtBlocks == doubt => state # "automation"

\* A bridge that closed holds no connection and drives nothing, whatever was
\* connecting or waiting when it began to close.
ClosedLetsGo ==
  closing = "closed" => ~handle /\ ~attached /\ ~driving

\* The bridge keeps what PageControl promises, where the page belongs to the
\* person from the moment the session link is answered.
Page == INSTANCE PageControl
  WITH owner <- IF handed THEN "person" ELSE "program"

KeepsPageControl == Page!Spec

\* Every call is answered, and a bridge that begins to close closes: the chain
\* of calls never waits for itself.
CallsAnswered == \A c \in Call : stage[c] # "idle" ~> stage[c] = "idle"

\* README.md of the plugin: "A failed handoff keeps automation blocked until
\* explicit resume."
FailedHandoffBlocks == unhanded => state # "automation"
================================================================================
