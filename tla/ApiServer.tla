------------------------------ MODULE ApiServer ------------------------------
(***************************************************************************)
(* The API server process around the lifecycle service: startup with       *)
(* load_from_disk and _reconcile_runtime_state, the health loop, the read  *)
(* handlers that enrich their responses, crashes, and the environment.     *)
(* This is the specification the configurations check and the proofs are   *)
(* about.                                                                  *)
(***************************************************************************)
EXTENDS Lifecycle

CONSTANT Reader   \* slots for GET /sandbox and GET /sandbox/{id} requests

VARIABLE held     \* [Reader -> records the request looked up, not yet enriched]

vars == <<dockerVars, lifeVars, held>>

TypeOK ==
  /\ DockerTypeOK
  /\ LifecycleTypeOK
  /\ held \in [Reader -> SUBSET Sandbox]
  /\ up \/ \A r \in Reader : held[r] = {}

Init ==
  /\ DockerInit
  /\ LifecycleInit
  /\ held = [r \in Reader |-> {}]

-----------------------------------------------------------------------------
(* Requests that read.                                                     *)

EnrichRest == <<dockerVars, up, profile, cid, alias, waiterVars, deleted>>

\* _enrich_response up to its first await: the record may have left the
\* registry since it was looked up; an unhealthy one is put back.
Enrich(s) ==
  /\ \E out \in Status :
       /\ CheckHealth(s, status[s], out)
       /\ SetStatus(s, out)
       /\ PutIf(out # status[s], s)
  /\ UNCHANGED EnrichRest

\* GET /sandbox takes a snapshot and awaits between two records.
ListBegins(r) ==
  /\ up /\ held[r] = {}
  /\ \E s \in reg : Enrich(s) /\ held' = [held EXCEPT ![r] = reg \ {s}]

\* GET /sandbox/{id}: require_sandbox runs in a worker thread before the
\* handler does.
GetLooksUp(r) ==
  /\ up /\ held[r] = {}
  /\ \E s \in reg : held' = [held EXCEPT ![r] = {s}]
  /\ UNCHANGED <<dockerVars, lifeVars>>

EnrichNext(r) ==
  /\ up
  /\ \E s \in held[r] : Enrich(s) /\ held' = [held EXCEPT ![r] = @ \ {s}]

ReaderStep(r) == ListBegins(r) \/ GetLooksUp(r) \/ EnrichNext(r)

-----------------------------------------------------------------------------
(* _check_container_health, one slice over the whole registry.             *)

HealthTick ==
  /\ up
  /\ LET checked == {s \in reg : status[s] \in {"RUNNING", "STARTING"} /\ cid[s] # None}
         exited  == {s \in checked : ~ContainerExists(s, cid[s])}
         probed  == {s \in checked \ exited : Managed(s) /\ status[s] = "RUNNING"}
     IN \E ill \in SUBSET probed :
          /\ status' = [s \in Sandbox |-> IF s \in exited \cup ill THEN "DEGRADED"
                                          ELSE status[s]]
          /\ meta' = meta \cup exited \cup ill
  /\ UNCHANGED <<dockerVars, up, reg, profile, cid, alias, waiterVars, deleted, held>>

-----------------------------------------------------------------------------
(* The process stops and starts.                                           *)

\* Everything in memory is lost: registry, records, requests, tasks.
MemoryLost ==
  /\ up' = FALSE
  /\ reg' = {}
  /\ status' = [s \in Sandbox |-> "STOPPED"]
  /\ cid' = [s \in Sandbox |-> None]
  /\ pc' = [w \in Waiter |-> "idle"]
  /\ on' = [w \in Call |-> None]
  /\ creating' = {}
  /\ held' = [r \in Reader |-> {}]

Crash ==
  /\ "crash" \in Faults
  /\ up
  /\ MemoryLost
  /\ UNCHANGED <<dockerVars, meta, profile, alias, deleted>>

\* In create, between docker run and the first meta.json.
CrashInCreate(s) ==
  /\ "crash" \in Faults
  /\ up /\ Unused(s) /\ EngineAvailable(s)
  /\ \E id \in CtrId, d \in Container :
       CreateContainer(NoContainer, None, id, d) /\ ctr' = [ctr EXCEPT ![s] = d]
  /\ profile' = profile \cup {s}
  /\ MemoryLost
  /\ UNCHANGED <<daemon, meta, alias, deleted>>

\* In destroy, between the removal of the container and the end of rmtree,
\* which deletes in no particular order.
CrashInDestroy(s) ==
  /\ "crash" \in Faults
  /\ up /\ s \in reg
  /\ \E d \in Container :
       RemoveRuntime(s, "done", d) /\ ctr' = [ctr EXCEPT ![s] = d]
  /\ meta' \in {meta, meta \ {s}}
  /\ profile' \in {profile, profile \ {s}}
  /\ MemoryLost
  /\ UNCHANGED <<daemon, alias, deleted>>

\* Variant: no probe is scheduled at startup.
ProbedNever(s) == FALSE

\* Engines whose adopted sandboxes wait for a probe again; an adopted
\* Chromium is declared RUNNING as it stands.
ProbedAtStartup(s) == Managed(s)

\* Variant: only exited containers are removed.
StaleExited(listed) == {s \in listed : ~ctr[s].running}

\* Containers of unknown sandboxes, and containers that do not run, are removed.
Stale(listed) == {s \in listed : s \notin meta \/ ~ctr[s].running}

\* load_from_disk: every readable meta.json becomes a STOPPED record; what the
\* directory of a sandbox holds besides is not looked at.
LoadFromDisk == reg' = meta /\ UNCHANGED <<meta, profile, alias>>

Startup ==
  /\ ~up
  /\ daemon \/ "list" \in Faults
  /\ \E listed \in SUBSET Sandbox :
       /\ ListsManaged(listed)
       /\ \E kept \in SUBSET Stale(listed) :
            /\ "rm" \notin Faults => kept = {}
            /\ ctr' = [s \in Sandbox |-> IF s \in Stale(listed) \ kept
                                         THEN NoContainer ELSE ctr[s]]
       /\ LET adopted == listed \ Stale(listed) IN
            /\ cid' = [s \in Sandbox |-> IF s \in adopted THEN ctr[s].id ELSE None]
            /\ status' = [s \in Sandbox |-> IF s \notin adopted THEN "STOPPED"
                                            ELSE IF Managed(s) THEN "STARTING"
                                            ELSE "RUNNING"]
            /\ pc' = [w \in Waiter |-> IF w \in adopted /\ ProbedAtStartup(w)
                                       THEN "new" ELSE "idle"]
  /\ up' = TRUE
  /\ LoadFromDisk
  /\ UNCHANGED <<daemon, on, creating, deleted, held>>

-----------------------------------------------------------------------------

\* A slot whose id is still held by a reader is not drawn again.
NotHeld(s) == \A r \in Reader : s \notin held[r]

ServiceStep ==
  /\ \/ \E s \in Sandbox : (s \in reg \/ NotHeld(s)) /\ Operation(s)
     \/ \E w \in Waiter : WaiterStep(w)
  /\ UNCHANGED held

ProcessStep ==
  \/ HealthTick
  \/ \E r \in Reader : ReaderStep(r)
  \/ Crash
  \/ \E s \in Sandbox : CrashInCreate(s) /\ NotHeld(s)
  \/ \E s \in Sandbox : CrashInDestroy(s)
  \/ Startup

HostStep ==
  /\ \/ \E s \in Sandbox : ContainerExits(s) \/ OperatorRemoves(s)
     \/ DaemonFlips
  /\ UNCHANGED <<lifeVars, held>>

Next == ServiceStep \/ ProcessStep \/ HostStep

Spec == Init /\ [][Next]_vars

\* The event loop runs every task whose await completed, sleep(1) and the
\* requests of a poll all return, and every poll takes at least a second of
\* the fixed deadline: it passes if it can be reached again and again.  The
\* health loop ticks every two minutes.
Fairness ==
  /\ \A w \in Waiter : WF_vars(WaiterStep(w) /\ UNCHANGED held)
  /\ \A w \in Waiter : SF_vars(DeadlinePasses(w) /\ UNCHANGED held)
  /\ WF_vars(HealthTick)

LiveSpec == Spec /\ Fairness

-----------------------------------------------------------------------------
(* Safety.                                                                 *)

\* A record that reads STOPPED names no container and one that reads RUNNING
\* names one, although a readiness probe may wake up after the sandbox was
\* paused under it (lifecycle.py: pause against _wait_until_ready).
StatusMatchesContainer ==
  \A s \in Sandbox : /\ status[s] = "STOPPED" => cid[s] = None
                     /\ status[s] = "RUNNING" => cid[s] # None

\* The registry or some unfinished request can still reach the record of s.
Known(s) ==
  \/ s \in reg
  \/ \E w \in Waiter : pc[w] # "idle" /\ Target(w) = s
  \/ \E r \in Reader : s \in held[r]

\* The running container of a Cloak or Camoufox sandbox is the one its record
\* names for as long as anything can reach, and put back, that record: every
\* later pause, delete or resume finds the container, whichever stops,
\* removals, docker runs and restarts failed before.
LiveIsRecorded ==
  \A s \in Sandbox : Known(s) /\ Managed(s) /\ ctr[s].running => cid[s] = ctr[s].id

\* The profile of a Cloak or Camoufox sandbox is never deleted while a
\* container that mounts it runs (_remove_runtime raises 409 instead).
ProfileKeptUnderBrowser ==
  [][\A s \in profile \ profile' : Managed(s) => ~ctr'[s].running]_vars

\* A record is on disk, or the registry or some request can put it there.
Reachable(s) == s \in meta \/ Known(s)

\* What runs for s can be stopped: by its record, or after the next startup.
InCustody(s) == IF up THEN Known(s) /\ cid[s] = ctr[s].id ELSE s \in meta

Phase(s) ==
  IF ctr[s].running THEN IF InCustody(s) THEN "running" ELSE "stray"
  ELSE IF Reachable(s) THEN "idle" ELSE "absent"

ManagedSandbox == {s \in Sandbox : Managed(s)}

Custody == INSTANCE SandboxCustody
  WITH Sandbox <- ManagedSandbox,
       phase   <- [s \in ManagedSandbox |-> Phase(s)],
       kept    <- profile \cap ManagedSandbox

\* Crashes, restarts, requests that hold old records and commands that fail
\* halfway do not show: the server never loses a running Cloak or Camoufox
\* browser, never deletes data under one, takes no stray container for a
\* sandbox, and a sandbox that nothing can reach any more never comes back.
KeepsCustody == Custody!Spec

\* Every sandbox the server answers for survives a restart, and without a
\* failing rmtree the disk holds no sandbox the server does not answer for.
RegistryMatchesDisk ==
  up => /\ reg \subseteq meta
        /\ "rmtree" \notin Faults => meta \subseteq reg

\* Two sandboxes of the registry never share an alias, unless a deleted one
\* came back (see DeletedStaysDeleted).
AliasUnique ==
  \A s, t \in reg \ deleted : alias[s] = alias[t] => alias[s] = None \/ s = t

\* While Docker answers and removes what it is told to, a running container
\* belongs to a registered sandbox that names it: crashes between two steps
\* of create or destroy leave orphans only until the next startup.
NoOrphanContainers ==
  up => \A s \in Sandbox : ctr[s].running => s \in reg /\ cid[s] = ctr[s].id

\* A Cloak or Camoufox sandbox that may be resumed finds its container name
\* free, or taken by the container that resume removes first.
ResumeFindsNameFree ==
  \A s \in reg : Managed(s) /\ status[s] \in {"STOPPED", "FAILED"} =>
                   ctr[s] = NoContainer \/ ctr[s].id = cid[s]

\* A paused sandbox stays paused until it is resumed or restarted, whatever
\* probes were cancelled, records read and put back, and health checks under
\* way; only a request that was waiting for it inline may still change it (see
\* PausedStaysResumable).
PausedUntilResumed ==
  [][\A s \in reg \cap reg' :
       status[s] = "STOPPED" /\ (\A w \in Call : on[w] # s) =>
         status'[s] = "STOPPED" \/ Resume(s) \/ RestartBrowser(s)]_vars

\* A deletion is final once the last request that looked the record up has
\* ended and meta.json is gone: nothing but the create of a new sandbox brings a
\* record back (DeletedStaysDeleted is about the time before).
DeletedForGood ==
  [][\A s \in Sandbox : Reachable(s)' => Reachable(s) \/ Create(s)]_vars

Starting(s) == up /\ s \in reg /\ status[s] = "STARTING"

\* Whenever a sandbox reads STARTING, somebody is going to decide: a waiter
\* that has not given up yet, or the health loop, which finds no container.
\* Restarts, pauses and deletes cancel, overtake and outlive their waiters.
StartingWatched ==
  \A s \in Sandbox : Starting(s) =>
    \/ \E w \in Waiter : pc[w] \in Suspended \ {"final"} /\ Target(w) = s
    \/ cid[s] # None /\ ~ContainerExists(s, cid[s])

-----------------------------------------------------------------------------
(* Liveness.                                                               *)

\* A sandbox does not stay STARTING: some waiter or the health loop decides,
\* also after crashes, exits, pauses and deletes racing the probe.
StartingSettles == \A s \in Sandbox : Starting(s) ~> ~Starting(s)

-----------------------------------------------------------------------------
(* What the documentation, messages and tests promise and the code breaks. *)

\* docs/guides/persistent-profiles.md: `sandbox rm` removes the runtime and
\* sandbox record.
DeletedStaysDeleted == deleted \cap reg = {}

\* The 409 of resume says to call pause and wait for STOPPED: a paused sandbox
\* leaves STOPPED only through resume or restart (STARTING or FAILED).
PausedStaysResumable ==
  [][\A s \in reg \cap reg' : status[s] = "STOPPED" =>
        status'[s] \in {"STOPPED", "STARTING", "FAILED"}]_vars

=============================================================================
