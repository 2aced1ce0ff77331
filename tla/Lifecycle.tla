------------------------------ MODULE Lifecycle -------------------------------
(***************************************************************************)
(* The sandbox lifecycle of the API server: the records of                 *)
(* models/sandbox.py, the registry and its meta.json files                 *)
(* (services/registry.py) and SandboxLifecycleService                      *)
(* (services/lifecycle.py) over the Docker host.                           *)
(*                                                                         *)
(* The server is one asyncio event loop, so the code between two awaits is *)
(* one action.  update, pause and destroy never await; create, resume and  *)
(* restart_browser run to the first await of _wait_until_ready and go on   *)
(* as a waiter, one action per await.  A record is a mutable object shared *)
(* by everything that looked it up: status, cid and alias outlive the      *)
(* record's registration.                                                  *)
(***************************************************************************)
EXTENDS DockerHost

CONSTANTS
  Engine,    \* [Sandbox -> engine], fixed when a sandbox is created
  Kind,      \* [Sandbox -> kind], fixed when a sandbox is created
  Alias,     \* the aliases that requests ask for
  Call       \* slots for requests that wait for readiness inline (bound)

ASSUME LifecycleAssumption ==
  /\ Engine \in [Sandbox -> {"chromium", "cloakbrowser", "camoufox"}]
  /\ Kind \in [Sandbox -> {"xvfb_vnc", "xpra"}]
  /\ None \notin Alias \cup Sandbox
  /\ Call \cap Sandbox = {}

VARIABLES
  up,        \* the API process runs and has finished its startup
  reg,       \* sandboxes in registry._items
  meta,      \* sandboxes whose meta.json is on disk
  profile,   \* sandboxes whose profile directory holds the user's data
  status,    \* record.status
  cid,       \* record.container_id
  alias,     \* record.alias, also the alias in meta.json
  pc,        \* where each waiter is suspended
  on,        \* [Call -> the sandbox an inline waiter waits for]
  creating,  \* inline waiters started by create
  deleted    \* history: sandboxes a DELETE was acknowledged for

recordVars == <<status, cid, alias>>
waiterVars == <<pc, on, creating>>
lifeVars == <<up, reg, meta, profile, recordVars, waiterVars, deleted>>

Status == {"STARTING", "RUNNING", "STOPPED", "FAILED", "DEGRADED"}

\* The slot of a background probe (_readiness_tasks[s]) is s itself.
Waiter == Sandbox \cup Call
Suspended == {"new", "version", "session", "sleep", "final"}
Target(w) == IF w \in Sandbox THEN w ELSE on[w]

LifecycleTypeOK ==
  /\ up \in BOOLEAN
  /\ reg \subseteq Sandbox
  /\ meta \subseteq Sandbox
  /\ profile \subseteq Sandbox
  /\ status \in [Sandbox -> Status]
  /\ cid \in [Sandbox -> CtrId \cup {None}]
  /\ alias \in [Sandbox -> Alias \cup {None}]
  /\ pc \in [Waiter -> Suspended \cup {"idle"}]
  /\ on \in [Call -> Sandbox \cup {None}]
  /\ creating \subseteq Call
  /\ deleted \subseteq Sandbox
  /\ \A w \in Call : pc[w] = "idle" <=> on[w] = None
  /\ up \/ \A w \in Waiter : pc[w] = "idle"

LifecycleInit ==
  /\ up = TRUE
  /\ reg = {} /\ meta = {} /\ profile = {} /\ deleted = {}
  /\ status = [s \in Sandbox |-> "STOPPED"]
  /\ cid = [s \in Sandbox |-> None]
  /\ alias = [s \in Sandbox |-> None]
  /\ pc = [w \in Waiter |-> "idle"]
  /\ on = [w \in Call |-> None]
  /\ creating = {}

-----------------------------------------------------------------------------
(* Records, registry and health checks.                                    *)

Managed(s) == Engine[s] # "chromium"

\* Variant: put without _write_meta.
PutInMemory(s) == reg' = reg \cup {s} /\ UNCHANGED meta

Put(s) == reg' = reg \cup {s} /\ meta' = meta \cup {s}
PutIf(changed, s) == IF changed THEN Put(s) ELSE UNCHANGED <<reg, meta>>
SetStatus(s, st) == status' = [status EXCEPT ![s] = st]

\* Variant: only create looks for a conflict.
AliasFreeAtCreate(s, a) == a = None \/ s \in reg \/ \A t \in reg : alias[t] # a

\* _normalize_alias: neither the id nor the alias of another sandbox.
AliasFree(s, a) == a = None \/ \A t \in reg \ {s} : a \notin {t, alias[t]}

\* check_cloak_health and check_camoufox_health, called on a record that reads
\* RUNNING: whatever is wrong with the browser, the record becomes DEGRADED
\* and is put back.
CheckHealth(s, st, out) ==
  IF Managed(s) /\ cid[s] # None /\ st = "RUNNING"
  THEN out = "DEGRADED" \/ (ContainerExists(s, cid[s]) /\ out = st)
  ELSE out = st

\* Variant: the probe trusts the session port alone.
DisplayAssumed(s) == daemon

DisplayReady(s) == ContainerExists(s, cid[s])

\* Variant: every engine ignores a removal that fails, as Chromium does.
RemoveRuntimeUnchecked(s, res, d) ==
  /\ res = "done"
  /\ IF cid[s] = None THEN d = ctr[s]
     ELSE \E ok \in BOOLEAN : RemoveContainer(ctr[s], cid[s], ok, d)

\* Variant: a browser that refuses to stop is given up on.
RemoveRuntimeUnstopped(s, res, d) ==
  \/ cid[s] = None /\ res = "done" /\ d = ctr[s]
  \/ /\ cid[s] # None
     /\ \E ok \in BOOLEAN :
          /\ RemoveContainer(ctr[s], cid[s], ok, d)
          /\ res = IF ok \/ ~Managed(s) THEN "done" ELSE "kept"
  \/ "stop" \in Faults /\ ContainerExists(s, cid[s]) /\ res = "done" /\ d = ctr[s]

\* _remove_runtime: Chromium ignores a removal that fails; Cloak and Camoufox
\* stop the browser first and raise 409 when either step fails.
RemoveRuntime(s, res, d) ==
  \/ cid[s] = None /\ res = "done" /\ d = ctr[s]
  \/ /\ cid[s] # None
     /\ \E ok \in BOOLEAN :
          /\ RemoveContainer(ctr[s], cid[s], ok, d)
          /\ res = IF ok \/ ~Managed(s) THEN "done" ELSE "kept"
  \/ /\ "stop" \in Faults
     /\ Managed(s) /\ ContainerExists(s, cid[s])
     /\ res = "refused" /\ d = ctr[s]

-----------------------------------------------------------------------------
(* Waiters: the readiness loop _wait_until_ready.                          *)

\* The slice of an iteration before its first await, on a registered record.
\* A Cloak container that answers may already report a fatal diagnosis.
PollBegins(s, answers, st, next, out) ==
  \/ next = "version" /\ out = st
  \/ Engine[s] = "cloakbrowser" /\ answers /\ next = "idle" /\ out = "DEGRADED"

SuspendAt(w, where) ==
  /\ pc' = [pc EXCEPT ![w] = where]
  /\ UNCHANGED <<on, creating>>

\* Variant: a finished request leaves its entry behind.
ReleaseForgotten(w) ==
  /\ pc' = [pc EXCEPT ![w] = "idle"]
  /\ creating' = creating \ {w}
  /\ UNCHANGED on

Release(w) ==
  /\ pc' = [pc EXCEPT ![w] = "idle"]
  /\ on' = [c \in Call |-> IF c = w THEN None ELSE on[c]]
  /\ creating' = creating \ {w}

\* A request reaches _wait_until_ready for s, whose container id is set.
Awaits(s, isCreate) ==
  \E w \in Call, next \in {"version", "idle"}, out \in Status :
    /\ pc[w] = "idle"
    /\ PollBegins(s, TRUE, "STARTING", next, out)
    /\ SetStatus(s, out)
    /\ IF next = "idle" THEN UNCHANGED waiterVars
       ELSE /\ pc' = [pc EXCEPT ![w] = next]
            /\ on' = [on EXCEPT ![w] = s]
            /\ creating' = IF isCreate THEN creating \cup {w} ELSE creating

\* The waiter returns leaving status st.  A create goes on without awaiting
\* to enrich its response from the record, registered or not.
Finish(w, s, st, put) ==
  \E out \in Status :
    /\ IF w \in creating THEN CheckHealth(s, st, out) ELSE out = st
    /\ SetStatus(s, out)
    /\ PutIf(put \/ out # st, s)
    /\ Release(w)

WaiterRest == <<dockerVars, up, profile, cid, alias, deleted>>

\* Top of the loop with time left: runner() starts, or sleep(1) is over.
PollAgain(w) ==
  /\ up /\ pc[w] \in {"new", "sleep"}
  /\ LET s == Target(w) IN
     IF s \notin reg THEN Finish(w, s, status[s], FALSE)
     ELSE \E next \in {"version", "idle"}, out \in Status :
            /\ PollBegins(s, ContainerExists(s, cid[s]), status[s], next, out)
            /\ IF next = "idle" THEN Finish(w, s, out, TRUE)
               ELSE SuspendAt(w, next) /\ UNCHANGED <<status, reg, meta>>
  /\ UNCHANGED WaiterRest

\* browser_version answered (possibly for an earlier container); the viewport
\* is then read inside the container the record names now.
VersionAnswered(w) ==
  /\ up /\ pc[w] = "version"
  /\ \/ DisplayReady(Target(w)) /\ SuspendAt(w, "session")
     \/ SuspendAt(w, "sleep")
  /\ UNCHANGED <<status, reg, meta>>
  /\ UNCHANGED WaiterRest

\* The session port answered: the display is checked before RUNNING is set.
SessionAnswered(w) ==
  /\ up /\ pc[w] = "session"
  /\ \/ /\ DisplayReady(Target(w))
        /\ Finish(w, Target(w), "RUNNING", TRUE)
     \/ SuspendAt(w, "sleep") /\ UNCHANGED <<status, reg, meta>>
  /\ UNCHANGED WaiterRest

\* Top of the loop after the deadline: DEGRADED, whatever the record says now.
DeadlinePasses(w) ==
  /\ up /\ pc[w] = "sleep"
  /\ LET s == Target(w) IN
     \/ s \notin reg /\ Finish(w, s, status[s], FALSE)
     \/ s \in reg /\ Finish(w, s, "DEGRADED", TRUE)
     \/ /\ s \in reg /\ DisplayReady(s)
        /\ SetStatus(s, "DEGRADED")
        /\ SuspendAt(w, "final")
        /\ UNCHANGED <<reg, meta>>
  /\ UNCHANGED WaiterRest

\* The last _session_ready of a timeout answered; the record is put back.
TimeoutRecorded(w) ==
  /\ up /\ pc[w] = "final"
  /\ Finish(w, Target(w), status[Target(w)], TRUE)
  /\ UNCHANGED WaiterRest

\* A probe raises.  Only the background runner turns that into a status.
ProbeRaises(w) ==
  /\ "probe" \in Faults
  /\ up /\ pc[w] \in {"version", "session"}
  /\ IF w \in Sandbox /\ w \in reg /\ status[w] = "STARTING"
     THEN SetStatus(w, "DEGRADED") /\ Put(w)
     ELSE UNCHANGED <<status, reg, meta>>
  /\ Release(w)
  /\ UNCHANGED WaiterRest

WaiterStep(w) ==
  \/ PollAgain(w)
  \/ VersionAnswered(w)
  \/ SessionAnswered(w)
  \/ DeadlinePasses(w)
  \/ TimeoutRecorded(w)
  \/ ProbeRaises(w)

-----------------------------------------------------------------------------
(* The operations of the service.                                          *)

\* Variant: the probe goes on.
CancelNothing(s) == UNCHANGED waiterVars

\* _cancel_readiness_task reaches the background probe, never a request.
CancelProbe(s) ==
  /\ pc' = [pc EXCEPT ![s] = "idle"]
  /\ UNCHANGED <<on, creating>>

\* What follows a docker run that answered id; lost is container_id after a
\* failure.
RunAnswered(s, id, lost, isCreate) ==
  IF id = None
  THEN /\ SetStatus(s, "FAILED")
       /\ cid' = [cid EXCEPT ![s] = lost]
       /\ UNCHANGED waiterVars
  ELSE /\ cid' = [cid EXCEPT ![s] = id]
       /\ IF isCreate /\ Kind[s] = "xpra"
          THEN /\ SetStatus(s, "STARTING")
               /\ pc' = [pc EXCEPT ![s] = "new"]
               /\ UNCHANGED <<on, creating>>
          ELSE Awaits(s, isCreate)

\* cloak_unavailable_reason and camoufox_unavailable_reason inspect the image,
\* so without a daemon these engines are refused with 409 and nothing changes.
EngineAvailable(s) == Managed(s) => daemon

\* A new random id: nothing anywhere refers to it.
Unused(s) ==
  /\ s \notin reg \cup meta \cup profile
  /\ ctr[s] = NoContainer
  /\ \A w \in Waiter : pc[w] # "idle" => Target(w) # s

Create(s) ==
  /\ up /\ Unused(s) /\ EngineAvailable(s)
  /\ \E a \in Alias \cup {None} :
       AliasFree(s, a) /\ alias' = [alias EXCEPT ![s] = a]
  /\ profile' = profile \cup {s}
  /\ \E id \in CtrId \cup {None}, d \in Container :
       /\ CreateContainer(NoContainer, None, id, d)
       /\ ctr' = [ctr EXCEPT ![s] = d]
       /\ RunAnswered(s, id, None, TRUE)
  /\ Put(s)
  /\ deleted' = deleted \ {s}
  /\ UNCHANGED <<daemon, up>>

\* PATCH: update of the alias or of the metadata only, then the response is
\* enriched in the same slice.
Update(s) ==
  /\ up /\ s \in reg
  /\ \/ \E a \in Alias : AliasFree(s, a) /\ alias' = [alias EXCEPT ![s] = a]
     \/ UNCHANGED alias
  /\ Put(s)
  /\ \E out \in Status : CheckHealth(s, status[s], out) /\ SetStatus(s, out)
  /\ UNCHANGED <<dockerVars, up, profile, cid, waiterVars, deleted>>

\* A browser that refuses to stop leaves the container and the profile alone.
StopRefused(s) == SetStatus(s, "DEGRADED") /\ Put(s) /\ UNCHANGED cid

Pause(s) ==
  /\ up /\ s \in reg
  /\ CancelProbe(s)
  /\ \E res \in {"done", "kept", "refused"}, d \in Container :
       /\ RemoveRuntime(s, res, d)
       /\ ctr' = [ctr EXCEPT ![s] = d]
       /\ \/ /\ res = "done"
             /\ cid' = [cid EXCEPT ![s] = None]
             /\ SetStatus(s, "STOPPED")
             /\ Put(s)
          \/ res = "refused" /\ StopRefused(s)
          \/ res = "kept" /\ UNCHANGED <<cid, status, reg, meta>>
  /\ UNCHANGED <<daemon, up, profile, alias, deleted>>

\* Variant: the profile's directory only, not the one that meta.json is in.
RemoveProfile(s) ==
  /\ profile' = profile \ {s}
  /\ UNCHANGED meta

\* shutil.rmtree(root, ignore_errors=True): a failing one leaves any part.
RemoveTree(s) ==
  \/ meta' = meta \ {s} /\ profile' = profile \ {s}
  \/ /\ "rmtree" \in Faults
     /\ meta' \in {meta, meta \ {s}}
     /\ profile' \in {profile, profile \ {s}}

Destroy(s) ==
  /\ up /\ s \in reg
  /\ CancelProbe(s)
  /\ \E res \in {"done", "kept", "refused"}, d \in Container :
       /\ RemoveRuntime(s, res, d)
       /\ ctr' = [ctr EXCEPT ![s] = d]
       /\ \/ /\ res = "done"
             /\ reg' = reg \ {s}
             /\ RemoveTree(s)
             /\ deleted' = deleted \cup {s}
             /\ UNCHANGED <<cid, status>>
          \/ res = "refused" /\ StopRefused(s) /\ UNCHANGED <<profile, deleted>>
          \/ res = "kept" /\ UNCHANGED <<cid, status, reg, meta, profile, deleted>>
  /\ UNCHANGED <<daemon, up, alias>>

\* Cloak and Camoufox first remove the container a FAILED record still names;
\* Chromium goes straight to docker run under the same container name.
Resume(s) ==
  /\ up /\ s \in reg
  /\ status[s] \in {"STOPPED", "FAILED"} /\ EngineAvailable(s)
  /\ \E res \in {"done", "kept", "refused"}, c \in Container :
       /\ IF Managed(s) THEN RemoveRuntime(s, res, c) ELSE res = "done" /\ c = ctr[s]
       /\ \/ /\ res = "done"
             /\ \E id \in CtrId \cup {None}, d \in Container :
                  LET held == IF Managed(s) THEN None ELSE cid[s] IN
                  /\ CreateContainer(c, held, id, d)
                  /\ ctr' = [ctr EXCEPT ![s] = d]
                  /\ RunAnswered(s, id, held, FALSE)
             /\ Put(s)
          \/ /\ res = "refused"
             /\ StopRefused(s)
             /\ ctr' = [ctr EXCEPT ![s] = c]
             /\ UNCHANGED waiterVars
          \/ /\ res = "kept"
             /\ ctr' = [ctr EXCEPT ![s] = c]
             /\ UNCHANGED <<cid, status, reg, meta, waiterVars>>
  /\ UNCHANGED <<daemon, up, profile, alias, deleted>>

\* The container runs: the browser inside it is stopped and started.
RestartInPlace(s) ==
  /\ UNCHANGED <<ctr, cid>>
  /\ \/ Awaits(s, FALSE)
     \/ /\ ("stop" \in Faults /\ Managed(s)) \/ "start" \in Faults
        /\ SetStatus(s, "DEGRADED")
        /\ UNCHANGED waiterVars

\* The container is gone or exited: what is left of it goes, a new one comes.
Recreate(s) ==
  \/ /\ ~daemon
     /\ SetStatus(s, "FAILED")
     /\ UNCHANGED <<ctr, cid, waiterVars>>
  \/ /\ daemon
     /\ \E c \in Container :
          \/ /\ RemoveRuntime(s, "kept", c)
             /\ ctr' = [ctr EXCEPT ![s] = c]
             /\ SetStatus(s, "STARTING")
             /\ UNCHANGED <<cid, waiterVars>>
          \/ /\ RemoveRuntime(s, "done", c)
             /\ \E id \in CtrId \cup {None}, d \in Container :
                  /\ CreateContainer(c, None, id, d)
                  /\ ctr' = [ctr EXCEPT ![s] = d]
                  /\ RunAnswered(s, id, None, FALSE)

RestartBrowser(s) ==
  /\ up /\ s \in reg /\ EngineAvailable(s)
  /\ Put(s)
  /\ IF ContainerExists(s, cid[s]) THEN RestartInPlace(s) ELSE Recreate(s)
  /\ UNCHANGED <<daemon, up, profile, alias, deleted>>

Operation(s) ==
  \/ Create(s)
  \/ Update(s)
  \/ Pause(s)
  \/ Destroy(s)
  \/ Resume(s)
  \/ RestartBrowser(s)

=============================================================================
