----------------------------- MODULE CamoufoxWorker -----------------------------
(***************************************************************************)
(* Camoufox inside one container: the worker that owns the browser         *)
(* (runtime-common/camoufox_worker.py) and serves one command after        *)
(* another over a Unix socket, the processes that docker exec runs to send *)
(* it one command each (camoufox_control.py), and the API server's removal *)
(* and restart of the browser, which first stop it (services/lifecycle.py, *)
(* services/docker_adapter.py).                                            *)
(*                                                                         *)
(* A caller that waits no longer leaves its command to be read; a worker   *)
(* that is killed may leave its browser and its socket behind.             *)
(***************************************************************************)
EXTENDS Integers

CONSTANTS
  Caller,    \* slots of commands under way
  NoCaller,  \* no slot
  MaxWorker  \* bound: how often a worker is started

ASSUME WorkerAssumption ==
  /\ NoCaller \notin Caller
  /\ MaxWorker \in Nat \ {0}

VARIABLES
  worker,   \* the number of the last worker
  life,     \* how far it is
  running,  \* its loop is to go on
  serving,  \* the caller whose command it executes
  result,   \* what came of that command
  browsers, \* workers whose browser has the profile open
  sock,     \* camoufox.sock: the worker that bound it, 0 if there is none
  want,     \* per caller: its command
  call,     \* per caller: how far it is
  peer,     \* per caller: the worker it is connected to, 0 if none
  heard,    \* per caller: its last answer
  op,       \* what the server is about to do, and how far it is
  stopper   \* the caller that its stop is

processVars == <<worker, life, running, serving, result, browsers, sock>>
callVars == <<want, call, peer, heard>>
opVars == <<op, stopper>>
workerVars == <<processVars, callVars, opVars>>

\* shell: waits for the input method; launch: starts the browser; open: loads
\* the first page; loop, serve, reply: of the loop; leave: has left it.
Life == {"down", "shell", "launch", "open", "loop", "serve", "reply", "leave"}
\* act is any command but stop.
Want == {"act", "stop"}
\* asked: not connected; sent: waits; gone: does not wait for the answer to
\* what it sent.
Call == {"idle", "asked", "sent", "gone"}
Result == {"none", "ok", "error"}
\* removed: the container has been removed.
Op == [goal : {"none", "remove", "restart"},
       step : {"idle", "look", "ask", "wait", "act", "starting", "removed"}]
Idle == [goal |-> "none", step |-> "idle"]

WorkerTypeOK ==
  /\ worker \in 1..MaxWorker
  /\ life \in Life
  /\ running \in BOOLEAN
  /\ serving \in Caller \cup {NoCaller}
  /\ result \in Result
  /\ browsers \subseteq 1..MaxWorker
  /\ sock \in 0..MaxWorker
  /\ want \in [Caller -> Want]
  /\ call \in [Caller -> Call]
  /\ peer \in [Caller -> 0..MaxWorker]
  /\ heard \in [Caller -> Result]
  /\ op \in Op
  /\ stopper \in Caller \cup {NoCaller}
  /\ life \in {"serve", "reply"} => serving # NoCaller
  /\ op.step = "wait" => stopper # NoCaller

\* supervisor starts the worker when the container starts.
WorkerInit ==
  /\ worker = 1
  /\ life = "shell"
  /\ running = TRUE
  /\ serving = NoCaller
  /\ result = "none"
  /\ browsers = {}
  /\ sock = 0
  /\ want = [c \in Caller |-> "act"]
  /\ call = [c \in Caller |-> "idle"]
  /\ peer = [c \in Caller |-> 0]
  /\ heard = [c \in Caller |-> "none"]
  /\ op = Idle
  /\ stopper = NoCaller

-----------------------------------------------------------------------------
(* The worker.                                                             *)

\* main begins and removes the socket that a killed worker may have left.
WorkerBegins ==
  /\ life = "shell"
  /\ life' = "launch"
  /\ sock' = 0
  /\ UNCHANGED <<worker, running, serving, result, browsers, callVars, opVars>>

\* The browser opens the profile, or fails to.
BrowserOpens ==
  /\ life = "launch"
  /\ \/ life' = "open" /\ browsers' = browsers \cup {worker}
     \/ life' = "down" /\ UNCHANGED browsers
  /\ UNCHANGED <<worker, running, serving, result, sock, callVars, opVars>>

\* Its first page is loaded and the socket bound, or either fails.
Binds ==
  /\ life = "open"
  /\ \/ sock = 0 /\ sock' = worker /\ life' = "loop"
     \/ life' = "leave" /\ UNCHANGED sock
  /\ UNCHANGED <<worker, running, serving, result, browsers, callVars, opVars>>

\* accept: one of those that connected, also if it waits no longer.
Accepts(c) ==
  /\ life = "loop"
  /\ running
  /\ call[c] \in {"sent", "gone"}
  /\ peer[c] = worker
  /\ life' = "serve"
  /\ serving' = c
  /\ UNCHANGED <<worker, running, result, browsers, sock, callVars, opVars>>

Yields(r) == result' = r /\ life' = "reply"

\* stop: the browser is closed, and the loop is not to go on; or close raises,
\* whatever has become of the browser.
ServesStop ==
  /\ life = "serve"
  /\ want[serving] = "stop"
  /\ \/ /\ Yields("ok")
        /\ running' = FALSE
        /\ browsers' = browsers \ {worker}
     \/ /\ Yields("error")
        /\ browsers' \in {browsers, browsers \ {worker}}
        /\ UNCHANGED running
  /\ UNCHANGED <<worker, serving, sock, callVars, opVars>>

ServesCommand ==
  /\ life = "serve"
  /\ want[serving] = "act"
  /\ \E r \in {"ok", "error"} : Yields(r)
  /\ UNCHANGED <<worker, running, serving, browsers, sock, callVars, opVars>>

\* The loop is left: the socket is removed and closed.
Leaves == life' = "leave" /\ sock' = 0

\* sendall: the caller has its answer.  If it has gone, sendall raises, and
\* the worker ends.
SendsReply ==
  /\ life = "reply"
  /\ \/ /\ call[serving] = "sent"
        /\ heard' = [heard EXCEPT ![serving] = result]
        /\ life' = "loop"
        /\ UNCHANGED sock
     \/ /\ call[serving] = "gone"
        /\ Leaves
        /\ UNCHANGED heard
  /\ call' = [call EXCEPT ![serving] = "idle"]
  /\ peer' = [peer EXCEPT ![serving] = 0]
  /\ serving' = NoCaller
  /\ UNCHANGED <<worker, running, result, browsers, want, opVars>>

\* The loop ends when it was told to, or waiting for events raises because the
\* browser has gone.
LoopEnds ==
  /\ life = "loop"
  /\ ~running \/ worker \notin browsers
  /\ Leaves
  /\ UNCHANGED <<worker, running, serving, result, browsers, callVars, opVars>>

\* Leaving the context manager closes the browser, and the process ends.
WorkerEnds ==
  /\ life = "leave"
  /\ life' = "down"
  /\ browsers' = browsers \ {worker}
  /\ UNCHANGED <<worker, running, serving, result, sock, callVars, opVars>>

\* A person closes the last window, or the browser crashes; one whose worker
\* was killed ends by itself.
BrowserCloses(w) ==
  /\ browsers' = browsers \ {w}
  /\ w \in browsers
  /\ UNCHANGED <<worker, life, running, serving, result, sock, callVars, opVars>>

\* SIGKILL, from the kernel or from a supervisor that waited for ten seconds.
WorkerKilled ==
  /\ life # "down"
  /\ life' = "down"
  /\ serving' = NoCaller
  /\ UNCHANGED <<worker, running, result, browsers, sock, callVars, opVars>>

-----------------------------------------------------------------------------
(* Callers.                                                                *)

CallEnds(c, r) ==
  /\ call' = [call EXCEPT ![c] = "idle"]
  /\ peer' = [peer EXCEPT ![c] = 0]
  /\ heard' = [heard EXCEPT ![c] = r]

Calls(c, w) ==
  /\ call[c] = "idle"
  /\ call' = [call EXCEPT ![c] = "asked"]
  /\ want' = [want EXCEPT ![c] = w]
  /\ heard' = [heard EXCEPT ![c] = "none"]
  /\ UNCHANGED peer

\* docker exec camoufox_control.py for a command or a health check of the API.
\* The slot of the server's stop keeps its answer until it is read.
SendsCommand(c) ==
  /\ op.step # "removed"
  /\ op.step = "wait" => c # stopper
  /\ Calls(c, "act")
  /\ UNCHANGED <<processVars, opVars>>

Listening == sock = worker /\ life \in {"loop", "serve", "reply"}

\* connect and sendall, to a worker that listens.
Connects(c) ==
  /\ call[c] = "asked"
  /\ Listening
  /\ call' = [call EXCEPT ![c] = "sent"]
  /\ peer' = [peer EXCEPT ![c] = worker]
  /\ UNCHANGED <<want, heard, processVars, opVars>>

\* Nobody listens, or the worker it is connected to has closed the socket.
ConnectionFails(c) ==
  /\ \/ call[c] = "asked" /\ ~Listening
     \/ /\ call[c] \in {"sent", "gone"}
        /\ peer[c] # worker \/ life \in {"down", "leave"}
  /\ CallEnds(c, IF call[c] = "gone" THEN heard[c] ELSE "error")
  /\ UNCHANGED <<want, processVars, opVars>>

\* settimeout(30): it ends, what it sent stays.
TimesOut(c) ==
  /\ call[c] = "sent"
  /\ call' = [call EXCEPT ![c] = "gone"]
  /\ heard' = [heard EXCEPT ![c] = "error"]
  /\ UNCHANGED <<want, peer, processVars, opVars>>

-----------------------------------------------------------------------------
(* The server.  It handles one removal or restart at a time.               *)

Steps(step) == op' = [op EXCEPT !.step = step]

\* _remove_runtime, _restart: the container is there.
Begins(goal) ==
  /\ op.step = "idle"
  /\ op' = [goal |-> goal, step |-> "look"]
  /\ UNCHANGED <<stopper, processVars, callVars>>

\* Variant: what supervisor says is believed.
LooksAtSupervisor ==
  /\ op.step = "look"
  /\ Steps(IF life = "down" THEN "act" ELSE "ask")
  /\ UNCHANGED <<stopper, processVars, callVars>>

\* camoufox_exited: supervisor's program is down, and neither a browser nor a
\* worker is found.  Its three looks are one step here, because only the server
\* starts a worker: what the first finds gone stays gone.
Looks ==
  /\ op.step = "look"
  /\ Steps(IF life = "down" /\ browsers = {} THEN "act" ELSE "ask")
  /\ UNCHANGED <<stopper, processVars, callVars>>

AsksToStop(c) ==
  /\ op.step = "ask"
  /\ Calls(c, "stop")
  /\ stopper' = c
  /\ Steps("wait")
  /\ UNCHANGED processVars

\* _stop_camoufox: without an acknowledgement the operation fails with 409.
StopAnswered ==
  /\ op.step = "wait"
  /\ heard[stopper] # "none"
  /\ IF heard[stopper] = "ok" THEN Steps("act") ELSE op' = Idle
  /\ stopper' = NoCaller
  /\ UNCHANGED <<processVars, callVars>>

\* docker exec takes more than 35 seconds, or the server dies: what it ran in
\* the container goes on.
ServerGivesUp ==
  /\ op.step \in {"look", "ask", "wait", "act"}
  /\ op' = Idle
  /\ stopper' = NoCaller
  /\ UNCHANGED <<processVars, callVars>>

\* docker rm, or it fails.
Removes ==
  /\ op = [goal |-> "remove", step |-> "act"]
  /\ \/ /\ Steps("removed")
        /\ life' = "down"
        /\ serving' = NoCaller
        /\ browsers' = {}
        /\ sock' = 0
        /\ call' = [c \in Caller |-> "idle"]
        /\ peer' = [c \in Caller |-> 0]
        /\ heard' = [c \in Caller |-> "error"]
        /\ UNCHANGED <<worker, running, result, want>>
     \/ op' = Idle /\ UNCHANGED <<processVars, callVars>>
  /\ UNCHANGED stopper

\* supervisorctl restart signals the worker, which goes on to its loop and leaves
\* it, unless it has not begun;
SignalsWorker ==
  /\ op = [goal |-> "restart", step |-> "act"]
  /\ Steps("starting")
  /\ running' = FALSE
  /\ life' = IF life = "shell" THEN "down" ELSE life
  /\ UNCHANGED <<worker, serving, result, browsers, sock, stopper, callVars>>

StartsWorker ==
  /\ worker < MaxWorker
  /\ worker' = worker + 1
  /\ life' = "shell"
  /\ running' = TRUE
  /\ op' = Idle
  /\ UNCHANGED <<serving, result, browsers, sock, stopper, callVars>>

\* it waits for its end and starts another, or fails to.
Restarts ==
  /\ op.step = "starting"
  /\ life = "down"
  /\ \/ StartsWorker
     \/ op' = Idle /\ UNCHANGED <<stopper, processVars, callVars>>

\* resume, in a new container.
Resumes ==
  /\ op.step = "removed"
  /\ StartsWorker

WorkerStep ==
  \/ WorkerBegins
  \/ BrowserOpens
  \/ Binds
  \/ \E c \in Caller : Accepts(c)
  \/ ServesStop
  \/ ServesCommand
  \/ SendsReply
  \/ LoopEnds
  \/ WorkerEnds
  \/ WorkerKilled
  \/ \E w \in browsers : BrowserCloses(w)

CallerStep ==
  \E c \in Caller : SendsCommand(c) \/ Connects(c) \/ ConnectionFails(c) \/ TimesOut(c)

ServerStep ==
  \/ \E goal \in {"remove", "restart"} : Begins(goal)
  \/ Looks
  \/ \E c \in Caller : AsksToStop(c)
  \/ StopAnswered
  \/ ServerGivesUp
  \/ Removes
  \/ SignalsWorker
  \/ Restarts
  \/ Resumes

WorkerNext == WorkerStep \/ CallerStep \/ ServerStep

WorkerSpec == WorkerInit /\ [][WorkerNext]_workerVars

-----------------------------------------------------------------------------
(* Properties.                                                             *)

\* _remove_runtime, _restart: docs/guides/camoufox.md says "Stop waits for the
\* browser context to close before container removal. If the API cannot confirm
\* closure, it fails".  The container is removed and another worker started only
\* over a closed profile, whatever became of earlier stops, of their callers, of
\* workers that were killed and of the browsers they left.
ProfileClosedFirst ==
  [][op'.step = "removed" \/ worker' # worker => browsers = {}]_workerVars
================================================================================
