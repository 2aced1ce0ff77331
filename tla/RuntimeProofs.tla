---------------------------- MODULE RuntimeProofs -----------------------------
(***************************************************************************)
(* Containers and the records that name them, for any number of sandboxes  *)
(* and requests: the runtime of a Cloak or Camoufox sandbox is never lost  *)
(* and its profile never deleted under it; a resume does not meet its own  *)
(* container's name; no container runs that the server does not know.      *)
(* Each theorem names the faults it cannot allow.                          *)
(***************************************************************************)
EXTENDS ApiServerProofs

-----------------------------------------------------------------------------
(* What removing and creating a container leaves under the name.           *)

\* A removal that _remove_runtime does not refuse leaves nothing running,
\* provided the record named whatever ran.
LEMMA RemovalStops ==
  ASSUME TypeOK, NEW s \in Sandbox, Managed(s), NEW d \in Container,
         RemoveRuntime(s, "done", d),
         ctr[s].running => cid[s] = ctr[s].id
  PROVE  ~d.running
<1>1. ctr[s] \in Container
  BY DEF TypeOK, DockerTypeOK
<1>2. CASE cid[s] = None
  BY <1>1, <1>2 DEF RemoveRuntime, Container
<1>3. CASE cid[s] # None
  <2>1. RemoveContainer(ctr[s], cid[s], TRUE, d)
    BY <1>3 DEF RemoveRuntime
  <2>2. d = Without(ctr[s], cid[s])
    BY <2>1 DEF RemoveContainer
  <2> QED BY <1>1, <2>2 DEF Without, NoContainer, Container
<1> QED BY <1>2, <1>3

\* A removal that is refused or fails leaves what ran, or nothing, running.
LEMMA RefusalKeeps ==
  ASSUME NEW s \in Sandbox, NEW res \in {"kept", "refused"},
         NEW d \in Container, RemoveRuntime(s, res, d), d.running
  PROVE  d = ctr[s]
BY DEF RemoveRuntime, RemoveContainer, Without, NoContainer

\* What runs after docker run runs under the id it answered.
LEMMA CreationNames ==
  ASSUME NEW s \in Sandbox, NEW c \in Container, ~c.running,
         NEW held_id, NEW id, NEW d \in Container,
         CreateContainer(c, held_id, id, d), d.running
  PROVE  d.id = id
BY DEF CreateContainer

-----------------------------------------------------------------------------
(* A known record names the container that runs.                           *)

\* A step that changes no container and makes no new record known.
LEMMA StillRecorded ==
  ASSUME LiveIsRecorded, UNCHANGED <<ctr, cid>>,
         \A t \in Sandbox : Known(t)' => Known(t)
  PROVE  LiveIsRecorded'
BY DEF LiveIsRecorded

\* A step about sandbox s, which is accounted for on its own.
LEMMA RecordedElsewhere ==
  ASSUME TypeOK, LiveIsRecorded, NEW s \in Sandbox,
         NEW d \in Container, ctr' = [ctr EXCEPT ![s] = d],
         NEW id \in CtrId \cup {None}, cid' = [cid EXCEPT ![s] = id],
         Managed(s) /\ d.running => id = d.id,
         \A t \in Sandbox \ {s} : Known(t)' => Known(t)
  PROVE  LiveIsRecorded'
BY DEF LiveIsRecorded, TypeOK, DockerTypeOK, LifecycleTypeOK, Managed

\* Waiters that stop, or that start waiting for s, make no other record known.
LEMMA KnownByWaiters ==
  ASSUME TypeOK, NEW s \in Sandbox, UNCHANGED held, reg' \subseteq reg \cup {s},
         \A w \in Waiter : pc'[w] # "idle" =>
           \/ pc[w] # "idle" /\ Target(w)' = Target(w)
           \/ Target(w)' = s
  PROVE  \A t \in Sandbox \ {s} : Known(t)' => Known(t)
BY DEF Known

\* Inline and background waits begin for s alone.
LEMMA RunAnsweredWaits ==
  ASSUME TypeOK, NEW s \in Sandbox, NEW id, NEW lost, NEW isCreate \in BOOLEAN,
         RunAnswered(s, id, lost, isCreate) \/ Awaits(s, isCreate)
           \/ UNCHANGED waiterVars \/ CancelProbe(s)
  PROVE  \A w \in Waiter : pc'[w] # "idle" =>
           \/ pc[w] # "idle" /\ Target(w)' = Target(w)
           \/ Target(w)' = s
<1> USE LifecycleAssumption DEF TypeOK, LifecycleTypeOK, Waiter, Target
<1>1. CASE UNCHANGED waiterVars
  BY <1>1 DEF waiterVars
<1>2. CASE CancelProbe(s)
  BY <1>2 DEF CancelProbe
<1>3. CASE Awaits(s, isCreate)
  <2>1. CASE UNCHANGED waiterVars
    BY <2>1 DEF waiterVars
  <2>2. CASE ~UNCHANGED waiterVars
    <3>1. PICK w \in Call, next \in {"version", "idle"} :
            /\ pc' = [pc EXCEPT ![w] = next]
            /\ on' = [on EXCEPT ![w] = s]
      BY <1>3, <2>2 DEF Awaits
    <3> QED BY <3>1
  <2> QED BY <2>1, <2>2
<1>4. CASE RunAnswered(s, id, lost, isCreate)
  <2>1. CASE pc' = [pc EXCEPT ![s] = "new"] /\ UNCHANGED <<on, creating>>
    BY <2>1
  <2> QED BY <1>4, <2>1, <1>1, <1>3 DEF RunAnswered
<1> QED BY <1>1, <1>2, <1>3, <1>4

\* A slice of a readiness waiter puts back only the record it waited for.
LEMMA WaiterRecorded ==
  ASSUME TypeOK, LiveIsRecorded, NEW w \in Waiter, WaiterStep(w), UNCHANGED held
  PROVE  LiveIsRecorded'
<1> DEFINE s == Target(w)
<1>1. /\ pc[w] # "idle"
      /\ UNCHANGED <<ctr, cid>>
  BY DEF WaiterStep, PollAgain, VersionAnswered, SessionAnswered,
         DeadlinePasses, TimeoutRecorded, ProbeRaises, WaiterRest, dockerVars
<1>2. s \in Sandbox /\ Known(s)
  BY <1>1, TargetType DEF Known
<1>3. \A st, put : Finish(w, s, st, put) =>
        (Put(s) \/ UNCHANGED reg) /\ Release(w)
  BY DEF Finish, PutIf
<1>4. /\ Put(s) \/ UNCHANGED reg
      /\ Release(w) \/ \E where : SuspendAt(w, where)
  <2>a. CASE PollAgain(w)
    BY <2>a, <1>3 DEF PollAgain
  <2>b. CASE VersionAnswered(w)
    BY <2>b DEF VersionAnswered
  <2>c. CASE SessionAnswered(w)
    BY <2>c, <1>3 DEF SessionAnswered
  <2>d. CASE DeadlinePasses(w)
    BY <2>d, <1>3 DEF DeadlinePasses
  <2>e. CASE TimeoutRecorded(w)
    BY <2>e, <1>3 DEF TimeoutRecorded
  <2>f. CASE ProbeRaises(w)
    BY <2>f DEF ProbeRaises, Target
  <2> QED BY <2>a, <2>b, <2>c, <2>d, <2>e, <2>f DEF WaiterStep
<1>5. reg' \subseteq reg \cup {s}
  BY <1>4 DEF Put
<1>6. \A v \in Waiter : pc'[v] # "idle" => pc[v] # "idle" /\ Target(v)' = Target(v)
  BY <1>1, <1>4, LifecycleAssumption
  DEF Release, SuspendAt, TypeOK, LifecycleTypeOK, Waiter, Target
<1>7. \A t \in Sandbox : Known(t)' => Known(t)
  BY <1>2, <1>5, <1>6 DEF Known
<1> QED
  BY <1>1, <1>7, StillRecorded

\* docker run over a name whose occupant does not run: whatever runs then
\* bears the id the record is given.
LEMMA RunRecorded ==
  ASSUME TypeOK, LiveIsRecorded, NEW s \in Sandbox, UNCHANGED held,
         reg' \subseteq reg \cup {s},
         NEW c \in Container, Managed(s) => ~c.running,
         NEW lost \in CtrId \cup {None}, NEW id \in CtrId \cup {None},
         NEW d \in Container, NEW isCreate \in BOOLEAN,
         CreateContainer(c, lost, id, d), ctr' = [ctr EXCEPT ![s] = d],
         RunAnswered(s, id, lost, isCreate)
  PROVE  LiveIsRecorded'
<1>1. Managed(s) /\ d.running => d.id = id
  BY CreationNames
<1>2. id = None /\ Managed(s) => ~d.running
  BY <1>1 DEF Container
<1>3. PICK got \in {id, lost} : cid' = [cid EXCEPT ![s] = got] /\ (got = id \/ id = None)
  BY DEF RunAnswered
<1>4. \A t \in Sandbox \ {s} : Known(t)' => Known(t)
  BY RunAnsweredWaits, KnownByWaiters
<1> QED
  BY <1>1, <1>2, <1>3, <1>4, RecordedElsewhere

\* pause, destroy and resume stop at a removal that does not come through.
LEMMA RefusalRecorded ==
  ASSUME TypeOK, LiveIsRecorded, NEW s \in Sandbox, s \in reg, UNCHANGED <<held, cid>>,
         reg' \subseteq reg, CancelProbe(s) \/ UNCHANGED waiterVars,
         NEW res \in {"kept", "refused"}, NEW d \in Container,
         RemoveRuntime(s, res, d), ctr' = [ctr EXCEPT ![s] = d]
  PROVE  LiveIsRecorded'
<1>1. \A t \in Sandbox \ {s} : Known(t)' => Known(t)
  BY RunAnsweredWaits, KnownByWaiters
<1>2. Managed(s) /\ d.running => cid[s] = d.id
  BY RefusalKeeps DEF LiveIsRecorded, Known
<1>3. cid[s] \in CtrId \cup {None} /\ cid' = [cid EXCEPT ![s] = cid[s]]
  BY DEF TypeOK, LifecycleTypeOK
<1> QED
  BY <1>1, <1>2, <1>3, RecordedElsewhere

\* Every operation of the service leaves the running container recorded.
LEMMA OperationRecorded ==
  ASSUME TypeOK, LiveIsRecorded, NEW s \in Sandbox, Operation(s), UNCHANGED held
  PROVE  LiveIsRecorded'
<1>1. /\ ctr[s] \in Container /\ cid[s] \in CtrId \cup {None}
      /\ NoContainer \in Container /\ ~NoContainer.running
  BY DEF TypeOK, DockerTypeOK, LifecycleTypeOK, NoContainer, Container
<1>2. s \in reg /\ Managed(s) /\ ctr[s].running => cid[s] = ctr[s].id
  BY DEF LiveIsRecorded, Known
<1>3. ASSUME NEW d \in Container, s \in reg, Managed(s),
             RemoveRuntime(s, "done", d)
      PROVE  ~d.running
  BY <1>2, <1>3, RemovalStops
<1>a. CASE Create(s)
  <2>1. PICK id \in CtrId \cup {None}, d \in Container :
          /\ CreateContainer(NoContainer, None, id, d)
          /\ ctr' = [ctr EXCEPT ![s] = d]
          /\ RunAnswered(s, id, None, TRUE)
    BY <1>a DEF Create
  <2>2. reg' \subseteq reg \cup {s}
    BY <1>a DEF Create, Put
  <2> QED BY <2>1, <2>2, <1>1, RunRecorded
<1>b. CASE Update(s)
  <2>1. \A t \in Sandbox : Known(t)' => Known(t)
    BY <1>b DEF Update, Put, Known, Target, waiterVars
  <2> QED BY <1>b, <2>1, StillRecorded DEF Update, dockerVars
<1>c. CASE Pause(s)
  <2>1. PICK res \in {"done", "kept", "refused"}, d \in Container :
          /\ RemoveRuntime(s, res, d)
          /\ ctr' = [ctr EXCEPT ![s] = d]
          /\ \/ res = "done" /\ cid' = [cid EXCEPT ![s] = None] /\ Put(s)
             \/ res = "refused" /\ StopRefused(s)
             \/ res = "kept" /\ UNCHANGED <<cid, reg>>
    BY <1>c DEF Pause
  <2>2. s \in reg /\ CancelProbe(s) /\ reg' \subseteq reg
    BY <1>c, <2>1 DEF Pause, Put, StopRefused
  <2>3. CASE res = "done"
    <3>1. Managed(s) => ~d.running
      BY <2>1, <2>2, <2>3, <1>3
    <3>2. \A t \in Sandbox \ {s} : Known(t)' => Known(t)
      BY <2>2, RunAnsweredWaits, KnownByWaiters
    <3> QED BY <2>1, <2>3, <3>1, <3>2, RecordedElsewhere
  <2>4. CASE res # "done"
    BY <2>1, <2>2, <2>4, RefusalRecorded DEF StopRefused
  <2> QED BY <2>3, <2>4
<1>d. CASE Destroy(s)
  <2>1. PICK res \in {"done", "kept", "refused"}, d \in Container :
          /\ RemoveRuntime(s, res, d)
          /\ ctr' = [ctr EXCEPT ![s] = d]
          /\ \/ res = "done" /\ reg' = reg \ {s} /\ UNCHANGED cid
             \/ res = "refused" /\ StopRefused(s)
             \/ res = "kept" /\ UNCHANGED <<cid, reg>>
    BY <1>d DEF Destroy
  <2>2. s \in reg /\ CancelProbe(s) /\ reg' \subseteq reg /\ UNCHANGED cid
    BY <1>d, <2>1 DEF Destroy, Put, StopRefused
  <2>3. CASE res = "done"
    <3>1. Managed(s) => ~d.running
      BY <2>1, <2>2, <2>3, <1>3
    <3>2. \A t \in Sandbox \ {s} : Known(t)' => Known(t)
      BY <2>2, RunAnsweredWaits, KnownByWaiters
    <3>3. cid' = [cid EXCEPT ![s] = cid[s]]
      BY <2>2 DEF TypeOK, LifecycleTypeOK
    <3> QED BY <2>1, <2>3, <3>1, <3>2, <3>3, <1>1, RecordedElsewhere
  <2>4. CASE res # "done"
    BY <2>1, <2>2, <2>4, RefusalRecorded
  <2> QED BY <2>3, <2>4
<1>e. CASE Resume(s)
  <2> DEFINE lost == IF Managed(s) THEN None ELSE cid[s]
  <2>1. PICK res \in {"done", "kept", "refused"}, c \in Container :
          /\ IF Managed(s) THEN RemoveRuntime(s, res, c)
                           ELSE res = "done" /\ c = ctr[s]
          /\ \/ /\ res = "done"
                /\ \E id \in CtrId \cup {None}, d \in Container :
                     /\ CreateContainer(c, lost, id, d)
                     /\ ctr' = [ctr EXCEPT ![s] = d]
                     /\ RunAnswered(s, id, lost, FALSE)
                /\ Put(s)
             \/ /\ res = "refused"
                /\ StopRefused(s)
                /\ ctr' = [ctr EXCEPT ![s] = c]
                /\ UNCHANGED waiterVars
             \/ /\ res = "kept"
                /\ ctr' = [ctr EXCEPT ![s] = c]
                /\ UNCHANGED <<cid, reg, waiterVars>>
    BY <1>e DEF Resume
  <2>2. s \in reg /\ reg' \subseteq reg
    BY <1>e, <2>1 DEF Resume, Put, StopRefused
  <2>3. CASE res = "done"
    <3>1. Managed(s) => ~c.running
      BY <2>1, <2>2, <2>3, <1>3
    <3>2. PICK id \in CtrId \cup {None}, d \in Container :
            /\ CreateContainer(c, lost, id, d)
            /\ ctr' = [ctr EXCEPT ![s] = d]
            /\ RunAnswered(s, id, lost, FALSE)
      BY <2>1, <2>3
    <3>3. lost \in CtrId \cup {None}
      BY <1>1
    <3> HIDE DEF lost
    <3> QED BY <2>2, <3>1, <3>2, <3>3, RunRecorded
  <2>4. CASE res # "done"
    <3>1. Managed(s) /\ RemoveRuntime(s, res, c) /\ ctr' = [ctr EXCEPT ![s] = c]
      BY <2>1, <2>4
    <3>2. UNCHANGED cid /\ UNCHANGED waiterVars
      BY <2>1, <2>4 DEF StopRefused
    <3> QED BY <2>2, <2>4, <3>1, <3>2, RefusalRecorded
  <2> QED BY <2>3, <2>4
<1>f. CASE RestartBrowser(s)
  <2>1. s \in reg /\ reg' \subseteq reg
    BY <1>f DEF RestartBrowser, Put
  <2>2. CASE RestartInPlace(s)
    <3>1. \A t \in Sandbox \ {s} : Known(t)' => Known(t)
      BY <2>1, <2>2, RunAnsweredWaits, KnownByWaiters DEF RestartInPlace
    <3>2. UNCHANGED <<ctr, cid>> /\ Known(s)
      BY <2>1, <2>2 DEF RestartInPlace, Known
    <3> QED BY <3>1, <3>2, StillRecorded
  <2>3. CASE Recreate(s)
    <3>1. CASE UNCHANGED <<ctr, cid, waiterVars>>
      <4>1. \A t \in Sandbox \ {s} : Known(t)' => Known(t)
        BY <2>1, <3>1, RunAnsweredWaits, KnownByWaiters
      <4> QED BY <2>1, <3>1, <4>1, StillRecorded DEF Known
    <3>2. ASSUME NEW c \in Container, RemoveRuntime(s, "kept", c),
                 ctr' = [ctr EXCEPT ![s] = c], UNCHANGED <<cid, waiterVars>>
          PROVE  LiveIsRecorded'
      BY <2>1, <3>2, RefusalRecorded
    <3>3. ASSUME NEW c \in Container, RemoveRuntime(s, "done", c),
                 NEW id \in CtrId \cup {None}, NEW d \in Container,
                 CreateContainer(c, None, id, d), ctr' = [ctr EXCEPT ![s] = d],
                 RunAnswered(s, id, None, FALSE)
          PROVE  LiveIsRecorded'
      <4>1. Managed(s) => ~c.running
        BY <2>1, <3>3, <1>3
      <4> QED BY <2>1, <3>3, <4>1, RunRecorded
    <3> QED BY <2>3, <3>1, <3>2, <3>3 DEF Recreate
  <2> QED BY <1>f, <2>2, <2>3 DEF RestartBrowser
<1> QED
  BY <1>a, <1>b, <1>c, <1>d, <1>e, <1>f DEF Operation

\* At startup the server adopts every running container of a sandbox it has
\* on disk, which takes a list of the managed containers that does not fail.
LEMMA StartupRecorded ==
  ASSUME TypeOK, "list" \notin Faults, Startup
  PROVE  LiveIsRecorded'
<1>1. PICK listed \in SUBSET Sandbox :
        /\ ListsManaged(listed)
        /\ \E kept \in SUBSET Stale(listed) :
             ctr' = [s \in Sandbox |-> IF s \in Stale(listed) \ kept
                                       THEN NoContainer ELSE ctr[s]]
        /\ cid' = [s \in Sandbox |-> IF s \in listed \ Stale(listed)
                                     THEN ctr[s].id ELSE None]
        /\ pc' = [w \in Waiter |-> IF /\ w \in listed \ Stale(listed)
                                      /\ ProbedAtStartup(w)
                                   THEN "new" ELSE "idle"]
  BY DEF Startup
<1>2. listed = {s \in Sandbox : ctr[s] # NoContainer}
  BY <1>1 DEF Startup, ListsManaged
<1>3. \A s \in Sandbox : Known(s)' => s \in meta
  <2>1. \A r \in Reader : held'[r] = {}
    BY DEF Startup, TypeOK
  <2>2. \A w \in Waiter : pc'[w] # "idle" => w \in meta /\ Target(w)' = w
    BY <1>1 DEF Stale, Target, TypeOK, LifecycleTypeOK
  <2>3. reg' = meta
    BY DEF Startup, LoadFromDisk
  <2> QED BY <2>1, <2>2, <2>3 DEF Known
<1>4. ASSUME NEW s \in Sandbox, Known(s)', ctr'[s].running
      PROVE  cid'[s] = ctr'[s].id
  <2>1. ctr'[s] = ctr[s]
    BY <1>1, <1>4 DEF NoContainer
  <2>2. s \in listed \ Stale(listed)
    BY <1>2, <1>3, <1>4, <2>1 DEF Stale, NoContainer
  <2> QED BY <1>1, <2>1, <2>2
<1> QED
  BY <1>4 DEF LiveIsRecorded

\* The health loop, the readers, crashes and the startup leave the running
\* container recorded.
LEMMA ProcessRecorded ==
  ASSUME TypeOK, LiveIsRecorded, "list" \notin Faults, ProcessStep
  PROVE  LiveIsRecorded'
<1>1. MemoryLost => LiveIsRecorded'
  BY DEF MemoryLost, LiveIsRecorded, Known
<1>a. CASE HealthTick
  <2>1. \A t \in Sandbox : Known(t)' => Known(t)
    BY <1>a DEF HealthTick, Known, Target, waiterVars
  <2> QED BY <1>a, <2>1, StillRecorded DEF HealthTick, dockerVars
<1>b. ASSUME NEW r \in Reader, ReaderStep(r)
      PROVE  LiveIsRecorded'
  <2>1. UNCHANGED <<ctr, cid, waiterVars>>
    BY <1>b DEF ReaderStep, ListBegins, GetLooksUp, EnrichNext, Enrich,
                EnrichRest, dockerVars, lifeVars, recordVars
  <2>2. PICK s \in Sandbox : Known(s) /\ reg' \subseteq reg \cup {s}
    <3>1. CASE ListBegins(r)
      BY <3>1 DEF ListBegins, Enrich, PutIf, Put, Known, TypeOK, LifecycleTypeOK
    <3>2. CASE GetLooksUp(r)
      BY <3>2 DEF GetLooksUp, lifeVars, Known, TypeOK, LifecycleTypeOK
    <3>3. CASE EnrichNext(r)
      BY <3>3 DEF EnrichNext, Enrich, PutIf, Put, Known, TypeOK
    <3> QED BY <1>b, <3>1, <3>2, <3>3 DEF ReaderStep
  <2>3. \A q \in Reader : held'[q] \subseteq held[q] \cup reg
    BY <1>b DEF ReaderStep, ListBegins, GetLooksUp, EnrichNext, TypeOK
  <2>4. \A t \in Sandbox : Known(t)' => Known(t)
    BY <2>1, <2>2, <2>3 DEF Known, Target, waiterVars
  <2> QED BY <2>1, <2>4, StillRecorded
<1> QED
  BY <1>1, <1>a, <1>b, StartupRecorded
  DEF ProcessStep, Crash, CrashInCreate, CrashInDestroy

\* Exits and removals behind the server's back, and a daemon that goes away.
LEMMA HostRecorded ==
  ASSUME TypeOK, LiveIsRecorded, HostStep
  PROVE  LiveIsRecorded'
<1>1. UNCHANGED cid /\ \A t \in Sandbox : Known(t)' => Known(t)
  BY DEF HostStep, lifeVars, recordVars, waiterVars, Known, Target
<1>2. \A t \in Sandbox : ctr'[t].running => ctr'[t] = ctr[t]
  <2>1. ASSUME NEW s \in Sandbox, ContainerExits(s)
        PROVE  \A t \in Sandbox : ctr'[t].running => ctr'[t] = ctr[t]
    <3>1. ctr[s] \in Container
      BY DEF TypeOK, DockerTypeOK
    <3>2. ~[ctr[s] EXCEPT !.running = FALSE].running
      BY <3>1 DEF Container
    <3> QED BY <2>1, <3>2 DEF ContainerExits, TypeOK, DockerTypeOK
  <2>2. ASSUME NEW s \in Sandbox, OperatorRemoves(s)
        PROVE  \A t \in Sandbox : ctr'[t].running => ctr'[t] = ctr[t]
    BY <2>2 DEF OperatorRemoves, NoContainer, TypeOK, DockerTypeOK
  <2> QED BY <2>1, <2>2 DEF HostStep, DaemonFlips
<1> QED
  BY <1>1, <1>2 DEF LiveIsRecorded

\* Every step of the system leaves the running container recorded.
LEMMA NextRecorded ==
  ASSUME TypeOK, LiveIsRecorded, "list" \notin Faults, [Next]_vars
  PROVE  LiveIsRecorded'
<1>1. CASE UNCHANGED vars
  BY <1>1, StillRecorded
  DEF vars, dockerVars, lifeVars, recordVars, waiterVars, Known, Target
<1> QED
  BY <1>1, OperationRecorded, WaiterRecorded, ProcessRecorded, HostRecorded
  DEF Next, ServiceStep

\* The running container of a Cloak or Camoufox sandbox is the one its record
\* names for as long as any request or the registry can reach that record,
\* whichever stops, removals, docker runs and restarts failed before.
THEOREM RuntimeRecorded ==
  ASSUME "list" \notin Faults
  PROVE  Spec => []LiveIsRecorded
<1>1. Init => LiveIsRecorded
  BY DEF Init, DockerInit, NoContainer, LiveIsRecorded
<1>2. TypeOK /\ LiveIsRecorded /\ [Next]_vars => LiveIsRecorded'
  BY NextRecorded
<1> QED
  BY <1>1, <1>2, TypeCorrect, PTL DEF Spec

-----------------------------------------------------------------------------
(* The profile is never deleted under a running browser.                   *)

\* Only destroy, finished or cut off by a crash, deletes a profile, and both
\* have removed the container the record names first.
LEMMA OnlyDestroyDeletes ==
  ASSUME TypeOK, [Next]_vars, NEW s \in profile \ profile'
  PROVE  /\ s \in reg
         /\ \E d \in Container : RemoveRuntime(s, "done", d)
                                 /\ ctr' = [ctr EXCEPT ![s] = d]
<1>1. UNCHANGED vars \/ HostStep => UNCHANGED profile
  BY DEF vars, lifeVars, HostStep
<1>2. ASSUME NEW w \in Waiter, WaiterStep(w)
      PROVE  UNCHANGED profile
  BY <1>2 DEF WaiterStep, PollAgain, VersionAnswered, SessionAnswered,
              DeadlinePasses, TimeoutRecorded, ProbeRaises, WaiterRest
<1>3. ASSUME NEW t \in Sandbox, Operation(t)
      PROVE  profile \subseteq profile' \/ (t = s /\ Destroy(s))
  <2>1. Destroy(t) => profile \ {t} \subseteq profile'
    BY DEF Destroy, RemoveTree
  <2>2. ~Destroy(t) => profile \subseteq profile'
    BY <1>3 DEF Operation, Create, Update, Pause, Resume, RestartBrowser
  <2> QED BY <2>1, <2>2
<1>4. CASE ProcessStep
  <2>1. ASSUME NEW t \in Sandbox, CrashInDestroy(t)
        PROVE  profile \subseteq profile' \/ (t = s /\ CrashInDestroy(s))
    BY <2>1 DEF CrashInDestroy
  <2>2. HealthTick \/ Crash \/ Startup => UNCHANGED profile
    BY DEF HealthTick, Crash, Startup, LoadFromDisk
  <2>3. \A r \in Reader : ReaderStep(r) => UNCHANGED profile
    BY DEF ReaderStep, ListBegins, GetLooksUp, EnrichNext, Enrich, EnrichRest,
           lifeVars
  <2>4. \A t \in Sandbox : CrashInCreate(t) => profile \subseteq profile'
    BY DEF CrashInCreate
  <2>5. CrashInDestroy(s)
    BY <1>4, <2>1, <2>2, <2>3, <2>4 DEF ProcessStep
  <2> QED BY <2>5 DEF CrashInDestroy
<1>5. CASE ServiceStep
  <2>1. Destroy(s)
    BY <1>2, <1>3, <1>5 DEF ServiceStep
  <2>2. PICK res \in {"done", "kept", "refused"}, d \in Container :
          /\ RemoveRuntime(s, res, d)
          /\ ctr' = [ctr EXCEPT ![s] = d]
          /\ res = "done" \/ UNCHANGED profile
    BY <2>1 DEF Destroy
  <2> QED BY <2>1, <2>2 DEF Destroy
<1> QED
  BY <1>1, <1>4, <1>5 DEF Next

\* The profile of a Cloak or Camoufox sandbox is never deleted while a
\* container that mounts it runs.
THEOREM ProfileSafe ==
  ASSUME "list" \notin Faults
  PROVE  Spec => ProfileKeptUnderBrowser
<1> DEFINE Kept == \A s \in profile \ profile' : Managed(s) => ~ctr'[s].running
<1>1. TypeOK /\ LiveIsRecorded /\ [Next]_vars => [Kept]_vars
  <2> SUFFICES ASSUME TypeOK, LiveIsRecorded, [Next]_vars,
                      NEW s \in profile \ profile', Managed(s)
               PROVE  ~ctr'[s].running
    OBVIOUS
  <2>1. s \in Sandbox /\ s \in reg
    BY OnlyDestroyDeletes DEF TypeOK, LifecycleTypeOK
  <2>2. PICK d \in Container :
          RemoveRuntime(s, "done", d) /\ ctr' = [ctr EXCEPT ![s] = d]
    BY OnlyDestroyDeletes
  <2>3. ctr[s].running => cid[s] = ctr[s].id
    BY <2>1 DEF LiveIsRecorded, Known
  <2>4. ~d.running
    BY <2>1, <2>2, <2>3, RemovalStops
  <2> QED BY <2>1, <2>2, <2>4 DEF TypeOK, DockerTypeOK
<1> QED
  BY <1>1, TypeCorrect, RuntimeRecorded, PTL DEF Spec, ProfileKeptUnderBrowser

-----------------------------------------------------------------------------
(* What an operation does to the container and the record of its sandbox.  *)

\* The container the record names is removed, or there is none.
Removes(s) ==
  /\ s \in reg
  /\ \E d \in Container : RemoveRuntime(s, "done", d) /\ ctr'[s] = d
  /\ cid'[s] \in {None, cid[s]}

\* The browser refuses to stop, or the removal fails.
Refuses(s) ==
  /\ s \in reg /\ s \in reg'
  /\ \E res \in {"kept", "refused"}, d \in Container :
       RemoveRuntime(s, res, d) /\ ctr'[s] = d
  /\ cid'[s] = cid[s]

\* docker run answers id over an occupant c of the name.
Runs(s, c, lost) ==
  /\ s \in reg'
  /\ \E id \in CtrId \cup {None}, d \in Container :
       /\ CreateContainer(c, lost, id, d)
       /\ ctr'[s] = d
       /\ cid'[s] = IF id = None THEN lost ELSE id

\* A new sandbox, one whose container was removed first, or a Chromium one
\* that is resumed under the name of whatever is left.
RunsAnew(s) ==
  \/ ctr[s] = NoContainer /\ Runs(s, NoContainer, None)
  \/ /\ s \in reg
     /\ \E c \in Container : RemoveRuntime(s, "done", c) /\ Runs(s, c, None)
  \/ s \in reg /\ ~Managed(s) /\ Runs(s, ctr[s], cid[s])

Untouched(s) == s \in reg /\ s \in reg' /\ UNCHANGED <<ctr, cid>>

\* The answer to docker run is what the record remembers.
LEMMA RunNames ==
  ASSUME TypeOK, NEW s \in Sandbox, NEW c \in Container,
         NEW lost \in CtrId \cup {None}, NEW id \in CtrId \cup {None},
         NEW d \in Container, NEW isCreate \in BOOLEAN,
         CreateContainer(c, lost, id, d), ctr' = [ctr EXCEPT ![s] = d],
         RunAnswered(s, id, lost, isCreate), s \in reg'
  PROVE  Runs(s, c, lost)
<1>1. ctr'[s] = d
  BY DEF TypeOK, DockerTypeOK
<1>2. cid'[s] = IF id = None THEN lost ELSE id
  BY DEF RunAnswered, TypeOK, LifecycleTypeOK
<1> QED BY <1>1, <1>2 DEF Runs

\* Every operation leaves its sandbox in one of four ways.
LEMMA OperationOutcome ==
  ASSUME TypeOK, NEW s \in Sandbox, Operation(s)
  PROVE  Untouched(s) \/ Removes(s) \/ Refuses(s) \/ RunsAnew(s)
<1>1. /\ ctr[s] \in Container /\ cid[s] \in CtrId \cup {None}
      /\ NoContainer \in Container
  BY DEF TypeOK, DockerTypeOK, LifecycleTypeOK, NoContainer, Container
<1>2. \A d \in Container : ctr' = [ctr EXCEPT ![s] = d] => ctr'[s] = d
  BY DEF TypeOK, DockerTypeOK
<1>3. /\ UNCHANGED cid => cid'[s] = cid[s]
      /\ cid' = [cid EXCEPT ![s] = None] => cid'[s] = None
  BY DEF TypeOK, LifecycleTypeOK
<1>a. CASE Create(s)
  <2>1. PICK id \in CtrId \cup {None}, d \in Container :
          /\ CreateContainer(NoContainer, None, id, d)
          /\ ctr' = [ctr EXCEPT ![s] = d]
          /\ RunAnswered(s, id, None, TRUE)
    BY <1>a DEF Create
  <2>2. s \in reg' /\ ctr[s] = NoContainer
    BY <1>a DEF Create, Put, Unused
  <2>3. Runs(s, NoContainer, None)
    BY <2>1, <2>2, <1>1, RunNames
  <2> QED BY <2>2, <2>3 DEF RunsAnew
<1>b. CASE Update(s)
  BY <1>b DEF Update, Put, dockerVars, Untouched
<1>c. CASE Pause(s)
  <2>1. PICK res \in {"done", "kept", "refused"}, d \in Container :
          /\ RemoveRuntime(s, res, d)
          /\ ctr' = [ctr EXCEPT ![s] = d]
          /\ \/ res = "done" /\ cid' = [cid EXCEPT ![s] = None]
             \/ res # "done" /\ UNCHANGED cid
    BY <1>c DEF Pause, StopRefused
  <2>2. s \in reg /\ s \in reg'
    BY <1>c DEF Pause, Put, StopRefused
  <2> QED BY <2>1, <2>2, <1>2, <1>3 DEF Removes, Refuses
<1>d. CASE Destroy(s)
  <2>1. PICK res \in {"done", "kept", "refused"}, d \in Container :
          /\ RemoveRuntime(s, res, d)
          /\ ctr' = [ctr EXCEPT ![s] = d]
          /\ res = "done" \/ reg \subseteq reg'
          /\ UNCHANGED cid
    BY <1>d DEF Destroy, StopRefused, Put
  <2>2. s \in reg
    BY <1>d DEF Destroy
  <2> QED BY <2>1, <2>2, <1>2, <1>3 DEF Removes, Refuses
<1>e. CASE Resume(s)
  <2> DEFINE lost == IF Managed(s) THEN None ELSE cid[s]
  <2>1. PICK res \in {"done", "kept", "refused"}, c \in Container :
          /\ IF Managed(s) THEN RemoveRuntime(s, res, c)
                           ELSE res = "done" /\ c = ctr[s]
          /\ \/ /\ res = "done"
                /\ \E id \in CtrId \cup {None}, d \in Container :
                     /\ CreateContainer(c, lost, id, d)
                     /\ ctr' = [ctr EXCEPT ![s] = d]
                     /\ RunAnswered(s, id, lost, FALSE)
             \/ /\ res # "done"
                /\ ctr' = [ctr EXCEPT ![s] = c]
                /\ UNCHANGED cid
    BY <1>e DEF Resume, StopRefused
  <2>2. s \in reg /\ s \in reg'
    BY <1>e DEF Resume, Put, StopRefused
  <2>3. CASE res = "done"
    <3>1. PICK id \in CtrId \cup {None}, d \in Container :
            /\ CreateContainer(c, lost, id, d)
            /\ ctr' = [ctr EXCEPT ![s] = d]
            /\ RunAnswered(s, id, lost, FALSE)
      BY <2>1, <2>3
    <3>2. lost \in CtrId \cup {None}
      BY <1>1
    <3>3. Runs(s, c, lost)
      <4> HIDE DEF lost
      <4> QED BY <2>2, <3>1, <3>2, RunNames
    <3> QED BY <2>1, <2>2, <2>3, <3>3 DEF RunsAnew
  <2>4. CASE res # "done"
    BY <2>1, <2>2, <2>4, <1>2, <1>3 DEF Refuses
  <2> QED BY <2>3, <2>4
<1>f. CASE RestartBrowser(s)
  <2>1. s \in reg /\ s \in reg'
    BY <1>f DEF RestartBrowser, Put
  <2>2. CASE RestartInPlace(s)
    BY <2>1, <2>2 DEF RestartInPlace, Untouched
  <2>3. CASE Recreate(s)
    <3>1. CASE UNCHANGED <<ctr, cid>>
      BY <2>1, <3>1 DEF Untouched
    <3>2. ASSUME NEW c \in Container, RemoveRuntime(s, "kept", c),
                 ctr' = [ctr EXCEPT ![s] = c], UNCHANGED cid
          PROVE  Refuses(s)
      BY <2>1, <3>2, <1>2, <1>3 DEF Refuses
    <3>3. ASSUME NEW c \in Container, RemoveRuntime(s, "done", c),
                 NEW id \in CtrId \cup {None}, NEW d \in Container,
                 CreateContainer(c, None, id, d), ctr' = [ctr EXCEPT ![s] = d],
                 RunAnswered(s, id, None, FALSE)
          PROVE  RunsAnew(s)
      <4>1. Runs(s, c, None)
        BY <2>1, <3>3, RunNames
      <4> QED BY <2>1, <3>3, <4>1 DEF RunsAnew
    <3> QED BY <2>3, <3>1, <3>2, <3>3 DEF Recreate
  <2> QED BY <1>f, <2>2, <2>3 DEF RestartBrowser
<1> QED
  BY <1>a, <1>b, <1>c, <1>d, <1>e, <1>f DEF Operation

\* What a step leaves alone about a sandbox it is not about.
Elsewhere(t) ==
  /\ ctr'[t] = ctr[t] /\ cid'[t] = cid[t]
  /\ t \in reg <=> t \in reg'
  /\ Known(t)' => Known(t)

\* An operation of the service is about its own sandbox.
LEMMA OperationElsewhere ==
  ASSUME TypeOK, NEW s \in Sandbox, Operation(s), UNCHANGED held,
         NEW t \in Sandbox \ {s}
  PROVE  Elsewhere(t)
<1>1. \A d : ctr' = [ctr EXCEPT ![s] = d] => ctr'[t] = ctr[t]
  BY DEF TypeOK, DockerTypeOK
<1>2. \A id : cid' = [cid EXCEPT ![s] = id] => cid'[t] = cid[t]
  BY DEF TypeOK, LifecycleTypeOK
<1>3. Put(s) \/ UNCHANGED reg \/ reg' = reg \ {s} =>
        (t \in reg <=> t \in reg') /\ reg' \subseteq reg \cup {s}
  BY DEF Put
<1>4. ASSUME NEW id, NEW lost, NEW isCreate \in BOOLEAN, reg' \subseteq reg \cup {s},
             RunAnswered(s, id, lost, isCreate) \/ Awaits(s, isCreate)
               \/ UNCHANGED waiterVars \/ CancelProbe(s)
      PROVE  Known(t)' => Known(t)
  BY <1>4, RunAnsweredWaits, KnownByWaiters
<1>5. \A id, lost, isCreate : RunAnswered(s, id, lost, isCreate) => cid'[t] = cid[t]
  BY <1>2 DEF RunAnswered
<1>6. UNCHANGED ctr => ctr'[t] = ctr[t]
  OBVIOUS
<1>7. UNCHANGED cid => cid'[t] = cid[t]
  OBVIOUS
<1>a. CASE Create(s)
  <2>1. PICK id \in CtrId \cup {None}, d \in Container :
          /\ ctr' = [ctr EXCEPT ![s] = d]
          /\ RunAnswered(s, id, None, TRUE)
    BY <1>a DEF Create
  <2>2. Put(s)
    BY <1>a DEF Create
  <2> QED BY <2>1, <2>2, <1>1, <1>3, <1>4, <1>5 DEF Elsewhere
<1>b. CASE Update(s)
  BY <1>b, <1>3, <1>4, <1>6, <1>7 DEF Update, dockerVars, Elsewhere
<1>c. CASE Pause(s)
  <2>1. Put(s) \/ UNCHANGED reg
    BY <1>c DEF Pause, StopRefused
  <2>2. CancelProbe(s) /\ cid'[t] = cid[t] /\ ctr'[t] = ctr[t]
    BY <1>c, <1>1, <1>2, <1>7 DEF Pause, StopRefused
  <2> QED BY <2>1, <2>2, <1>3, <1>4 DEF Elsewhere
<1>d. CASE Destroy(s)
  <2>1. Put(s) \/ UNCHANGED reg \/ reg' = reg \ {s}
    BY <1>d DEF Destroy, StopRefused
  <2>2. CancelProbe(s) /\ cid'[t] = cid[t] /\ ctr'[t] = ctr[t]
    BY <1>d, <1>1, <1>7 DEF Destroy, StopRefused
  <2> QED BY <2>1, <2>2, <1>3, <1>4 DEF Elsewhere
<1>e. CASE Resume(s)
  <2>1. Put(s) \/ UNCHANGED reg
    BY <1>e DEF Resume, StopRefused
  <2>2. ctr'[t] = ctr[t]
    BY <1>e, <1>1 DEF Resume
  <2>3. \/ \E id, lost : RunAnswered(s, id, lost, FALSE)
        \/ UNCHANGED <<cid, waiterVars>>
    BY <1>e DEF Resume, StopRefused
  <2> QED BY <2>1, <2>2, <2>3, <1>3, <1>4, <1>5, <1>7 DEF Elsewhere
<1>f. CASE RestartBrowser(s)
  <2>1. Put(s)
    BY <1>f DEF RestartBrowser
  <2>2. ctr'[t] = ctr[t]
    BY <1>f, <1>1, <1>6 DEF RestartBrowser, RestartInPlace, Recreate
  <2>3. \/ \E id, lost : RunAnswered(s, id, lost, FALSE)
        \/ UNCHANGED cid /\ (Awaits(s, FALSE) \/ UNCHANGED waiterVars)
    BY <1>f DEF RestartBrowser, RestartInPlace, Recreate
  <2> QED BY <2>1, <2>2, <2>3, <1>3, <1>4, <1>5, <1>7 DEF Elsewhere
<1> QED
  BY <1>a, <1>b, <1>c, <1>d, <1>e, <1>f DEF Operation

\* What waiters, readers and the health loop leave alone: they start and stop
\* no container, and reach, or put back, only what they already held.
Observes ==
  /\ up /\ UNCHANGED <<daemon, up, ctr, profile, cid, alias, deleted>>
  /\ reg \subseteq reg'
  /\ meta \subseteq meta' /\ meta' \subseteq meta \cup reg'
  /\ \A t \in Sandbox : t \in reg' \/ Known(t)' => Known(t)

\* A slice of a readiness waiter.
LEMMA WaiterObserves ==
  ASSUME TypeOK, NEW w \in Waiter, WaiterStep(w), UNCHANGED held
  PROVE  Observes
<1> DEFINE s == Target(w)
<1>1. /\ pc[w] # "idle"
      /\ up /\ UNCHANGED <<daemon, up, ctr, profile, cid, alias, deleted>>
  BY DEF WaiterStep, PollAgain, VersionAnswered, SessionAnswered,
         DeadlinePasses, TimeoutRecorded, ProbeRaises, WaiterRest, dockerVars
<1>2. s \in Sandbox /\ Known(s)
  BY <1>1, TargetType DEF Known
<1>3. \A st, put : Finish(w, s, st, put) =>
        (Put(s) \/ UNCHANGED <<reg, meta>>) /\ Release(w)
  BY DEF Finish, PutIf
<1>4. /\ Put(s) \/ UNCHANGED <<reg, meta>>
      /\ Release(w) \/ \E where : SuspendAt(w, where)
  <2>a. CASE PollAgain(w)
    BY <2>a, <1>3 DEF PollAgain
  <2>b. CASE VersionAnswered(w)
    BY <2>b DEF VersionAnswered
  <2>c. CASE SessionAnswered(w)
    BY <2>c, <1>3 DEF SessionAnswered
  <2>d. CASE DeadlinePasses(w)
    BY <2>d, <1>3 DEF DeadlinePasses
  <2>e. CASE TimeoutRecorded(w)
    BY <2>e, <1>3 DEF TimeoutRecorded
  <2>f. CASE ProbeRaises(w)
    BY <2>f DEF ProbeRaises, Target
  <2> QED BY <2>a, <2>b, <2>c, <2>d, <2>e, <2>f DEF WaiterStep
<1>5. /\ reg \subseteq reg' /\ reg' \subseteq reg \cup {s}
      /\ meta \subseteq meta' /\ meta' \subseteq meta \cup reg'
  BY <1>4 DEF Put
<1>6. \A v \in Waiter : pc'[v] # "idle" => pc[v] # "idle" /\ Target(v)' = Target(v)
  BY <1>1, <1>4, LifecycleAssumption
  DEF Release, SuspendAt, TypeOK, LifecycleTypeOK, Waiter, Target
<1>7. \A t \in Sandbox : t \in reg' \/ Known(t)' => Known(t)
  BY <1>2, <1>5, <1>6 DEF Known
<1> QED
  BY <1>1, <1>5, <1>7 DEF Observes

\* The health loop and the readers.
LEMMA ReadObserves ==
  ASSUME TypeOK, HealthTick \/ \E r \in Reader : ReaderStep(r)
  PROVE  Observes
<1>a. CASE HealthTick
  <2>1. /\ up
        /\ UNCHANGED <<reg, waiterVars, held, daemon, up, ctr, profile, cid,
                       alias, deleted>>
    BY <1>a DEF HealthTick, dockerVars
  <2>2. meta \subseteq meta' /\ meta' \subseteq meta \cup reg
    BY <1>a DEF HealthTick
  <2> QED BY <2>1, <2>2 DEF Observes, Known, Target, waiterVars
<1>b. ASSUME NEW r \in Reader, ReaderStep(r)
      PROVE  Observes
  <2>1. /\ up
        /\ UNCHANGED <<daemon, up, ctr, profile, cid, alias, deleted, waiterVars>>
    BY <1>b DEF ReaderStep, ListBegins, GetLooksUp, EnrichNext, Enrich,
                EnrichRest, dockerVars, lifeVars, recordVars
  <2>2. PICK s \in Sandbox : Known(s) /\ (Put(s) \/ UNCHANGED <<reg, meta>>)
    <3>1. CASE ListBegins(r)
      BY <3>1 DEF ListBegins, Enrich, PutIf, Known, TypeOK, LifecycleTypeOK
    <3>2. CASE GetLooksUp(r)
      BY <3>2 DEF GetLooksUp, lifeVars, Known, TypeOK, LifecycleTypeOK
    <3>3. CASE EnrichNext(r)
      BY <3>3 DEF EnrichNext, Enrich, PutIf, Known, TypeOK
    <3> QED BY <1>b, <3>1, <3>2, <3>3 DEF ReaderStep
  <2>3. \A q \in Reader : held'[q] \subseteq held[q] \cup reg
    BY <1>b DEF ReaderStep, ListBegins, GetLooksUp, EnrichNext, TypeOK
  <2>4. /\ reg \subseteq reg' /\ reg' \subseteq reg \cup {s}
        /\ meta \subseteq meta' /\ meta' \subseteq meta \cup reg'
    BY <2>2 DEF Put
  <2>5. \A t \in Sandbox : t \in reg' \/ Known(t)' => Known(t)
    BY <2>1, <2>2, <2>3, <2>4 DEF Known, Target, waiterVars
  <2> QED BY <2>1, <2>4, <2>5 DEF Observes
<1> QED BY <1>a, <1>b

\* A process that stopped reaches no record.
LEMMA StoppedKnowsNothing ==
  ASSUME MemoryLost
  PROVE  reg' = {} /\ \A t \in Sandbox : ~Known(t)'
BY DEF MemoryLost, Known

\* A server that starts reaches exactly what it found on disk.
LEMMA StartupReaches ==
  ASSUME TypeOK, Startup
  PROVE  reg' = meta /\ \A s \in Sandbox : Known(s)' => s \in meta
<1>1. \A r \in Reader : held'[r] = {}
  BY DEF Startup, TypeOK
<1>2. \A w \in Waiter : pc'[w] # "idle" => w \in meta /\ Target(w)' = w
  BY DEF Startup, Stale, Target, TypeOK, LifecycleTypeOK
<1>3. reg' = meta
  BY DEF Startup, LoadFromDisk
<1> QED BY <1>1, <1>2, <1>3 DEF Known

\* If containers can be listed and removed, the startup leaves those that run
\* and whose sandbox is on disk, and records them.
LEMMA StartupRepairs ==
  ASSUME TypeOK, Startup, "list" \notin Faults, "rm" \notin Faults,
         NEW s \in Sandbox
  PROVE  \/ ctr'[s] = NoContainer
         \/ s \in meta /\ cid'[s] = ctr'[s].id
<1>1. PICK listed \in SUBSET Sandbox :
        /\ ListsManaged(listed)
        /\ ctr' = [t \in Sandbox |-> IF t \in Stale(listed)
                                     THEN NoContainer ELSE ctr[t]]
        /\ cid' = [t \in Sandbox |-> IF t \in listed \ Stale(listed)
                                     THEN ctr[t].id ELSE None]
  <2>1. PICK listed \in SUBSET Sandbox :
          /\ ListsManaged(listed)
          /\ \E kept \in SUBSET Stale(listed) :
               /\ kept = {}
               /\ ctr' = [t \in Sandbox |-> IF t \in Stale(listed) \ kept
                                            THEN NoContainer ELSE ctr[t]]
          /\ cid' = [t \in Sandbox |-> IF t \in listed \ Stale(listed)
                                       THEN ctr[t].id ELSE None]
    BY DEF Startup
  <2> QED BY <2>1
<1>2. listed = {t \in Sandbox : ctr[t] # NoContainer}
  BY <1>1 DEF Startup, ListsManaged
<1> QED BY <1>1, <1>2 DEF Stale

\* Behind the server's back a container only exits or goes.
LEMMA HostOnlyStops ==
  ASSUME TypeOK, HostStep, NEW s \in Sandbox
  PROVE  /\ UNCHANGED <<lifeVars, held>>
         /\ \/ ctr'[s] \in {ctr[s], NoContainer}
            \/ ctr'[s].id = ctr[s].id /\ ~ctr'[s].running /\ ctr[s].running
<1>1. ctr[s] \in Container
  BY DEF TypeOK, DockerTypeOK
<1>2. LET c == [ctr[s] EXCEPT !.running = FALSE]
      IN  c.id = ctr[s].id /\ ~c.running
  BY <1>1 DEF Container
<1>3. ASSUME NEW t \in Sandbox, ContainerExits(t)
      PROVE  \/ ctr'[s] = ctr[s]
             \/ ctr'[s].id = ctr[s].id /\ ~ctr'[s].running /\ ctr[s].running
  BY <1>2, <1>3 DEF ContainerExits, TypeOK, DockerTypeOK
<1>4. ASSUME NEW t \in Sandbox, OperatorRemoves(t)
      PROVE  ctr'[s] \in {ctr[s], NoContainer}
  BY <1>4 DEF OperatorRemoves, TypeOK, DockerTypeOK
<1> QED
  BY <1>3, <1>4 DEF HostStep, DaemonFlips

-----------------------------------------------------------------------------
(* A resume never meets its own container's name.                          *)

Named(s) == ctr[s] = NoContainer \/ ctr[s].id = cid[s]

\* While removals do what they answer and docker run leaves nothing behind,
\* the name of a Cloak or Camoufox sandbox is free or bears what the record
\* names, for every record that can be reached.
NameRecorded == \A s \in Sandbox : Known(s) /\ Managed(s) => Named(s)

\* A removal that is done frees the name; one that is not changes nothing.
LEMMA RemovalFrees ==
  ASSUME TypeOK, "rm" \notin Faults, NEW s \in Sandbox, Managed(s), Named(s),
         NEW res \in {"done", "kept", "refused"}, NEW d \in Container,
         RemoveRuntime(s, res, d)
  PROVE  IF res = "done" THEN d = NoContainer ELSE d = ctr[s]
<1>1. ctr[s] \in Container
  BY DEF TypeOK, DockerTypeOK
<1>2. ctr[s].id = None => ctr[s] = NoContainer
  BY <1>1 DEF Container, NoContainer
<1>3. ASSUME cid[s] # None, NEW ok \in BOOLEAN,
             RemoveContainer(ctr[s], cid[s], ok, d),
             res = IF ok \/ ~Managed(s) THEN "done" ELSE "kept"
      PROVE  IF res = "done" THEN d = NoContainer ELSE d = ctr[s]
  BY <1>3 DEF RemoveContainer, Without, Named, NoContainer
<1> QED BY <1>2, <1>3 DEF RemoveRuntime, Named

\* An operation leaves the name of its sandbox free or recorded.
LEMMA OperationNames ==
  ASSUME TypeOK, {"rm", "run"} \cap Faults = {}, NEW s \in Sandbox, Managed(s),
         s \in reg => Named(s), Operation(s)
  PROVE  Named(s)'
<1>1. ASSUME NEW c \in Container, c = NoContainer, Runs(s, c, None)
      PROVE  Named(s)'
  BY <1>1 DEF Runs, CreateContainer, Named
<1>2. NoContainer \in Container
  BY DEF NoContainer, Container
<1>a. CASE Untouched(s)
  BY <1>a DEF Untouched, Named
<1>b. CASE Removes(s)
  BY <1>b, RemovalFrees DEF Removes, Named
<1>c. CASE Refuses(s)
  BY <1>c, RemovalFrees DEF Refuses, Named
<1>d. CASE RunsAnew(s)
  <2>1. CASE ctr[s] = NoContainer /\ Runs(s, NoContainer, None)
    BY <2>1, <1>1, <1>2
  <2>2. ASSUME s \in reg, NEW c \in Container, RemoveRuntime(s, "done", c),
               Runs(s, c, None)
        PROVE  Named(s)'
    BY <2>2, <1>1, RemovalFrees
  <2> QED BY <1>d, <2>1, <2>2 DEF RunsAnew
<1> QED BY <1>a, <1>b, <1>c, <1>d, OperationOutcome

\* Every step of the system leaves the names free or recorded.
LEMMA NextNames ==
  ASSUME TypeOK, NameRecorded, {"rm", "run", "list"} \cap Faults = {}, [Next]_vars
  PROVE  NameRecorded'
<1>1. CASE ServiceStep
  <2>1. ASSUME NEW s \in Sandbox, Operation(s), UNCHANGED held
        PROVE  NameRecorded'
    <3>1. Managed(s) => Named(s)'
      BY <2>1, OperationNames DEF NameRecorded, Known
    <3>2. \A t \in Sandbox \ {s} : Elsewhere(t)
      BY <2>1, OperationElsewhere
    <3> QED BY <3>1, <3>2 DEF NameRecorded, Named, Elsewhere, Managed
  <2>2. ASSUME NEW w \in Waiter, WaiterStep(w), UNCHANGED held
        PROVE  NameRecorded'
    BY <2>2, WaiterObserves DEF Observes, NameRecorded, Named, Managed
  <2> QED BY <1>1, <2>1, <2>2 DEF ServiceStep
<1>2. CASE ProcessStep
  <2>1. MemoryLost => NameRecorded'
    BY StoppedKnowsNothing DEF NameRecorded
  <2>2. HealthTick \/ (\E r \in Reader : ReaderStep(r)) => NameRecorded'
    BY ReadObserves DEF Observes, NameRecorded, Named, Managed
  <2>3. Startup => NameRecorded'
    BY StartupReaches, StartupRepairs DEF NameRecorded, Named
  <2> QED
    BY <1>2, <2>1, <2>2, <2>3 DEF ProcessStep, Crash, CrashInCreate, CrashInDestroy
<1>3. CASE HostStep
  <2>1. UNCHANGED <<cid, reg, waiterVars, held>>
    BY <1>3 DEF HostStep, lifeVars, recordVars
  <2>2. \A s \in Sandbox : Known(s)' => Known(s)
    BY <2>1 DEF Known, Target, waiterVars
  <2>3. ASSUME NEW s \in Sandbox, Named(s)
        PROVE  Named(s)'
    <3>1. CASE ctr'[s] \in {ctr[s], NoContainer}
      BY <2>1, <2>3, <3>1 DEF Named
    <3>2. CASE ctr'[s].id = ctr[s].id /\ ctr[s].running
      BY <2>1, <2>3, <3>2 DEF Named, NoContainer
    <3> QED BY <1>3, <3>1, <3>2, HostOnlyStops
  <2> QED BY <2>2, <2>3 DEF NameRecorded, Managed
<1>4. CASE UNCHANGED vars
  BY <1>4 DEF vars, dockerVars, lifeVars, recordVars, waiterVars, NameRecorded,
              Named, Known, Target, Managed
<1> QED BY <1>1, <1>2, <1>3, <1>4 DEF Next

\* A Cloak or Camoufox sandbox that may be resumed finds its container name
\* free, or taken by the container that resume removes first, unless a
\* removal, a docker run or the listing of the containers did half its work.
THEOREM ResumesFindTheNameFree ==
  ASSUME {"rm", "run", "list"} \cap Faults = {}
  PROVE  Spec => []ResumeFindsNameFree
<1>1. Init => NameRecorded
  BY DEF Init, DockerInit, NameRecorded, Named
<1>2. TypeOK /\ NameRecorded /\ [Next]_vars => NameRecorded'
  BY NextNames
<1>3. TypeOK /\ NameRecorded => ResumeFindsNameFree
  BY DEF NameRecorded, Named, Known, ResumeFindsNameFree, TypeOK, LifecycleTypeOK
<1> QED
  BY <1>1, <1>2, <1>3, TypeCorrect, PTL DEF Spec

-----------------------------------------------------------------------------
(* No container runs that the server does not know.                        *)

Owned(s) == ctr[s].running => s \in reg /\ cid[s] = ctr[s].id

\* Cloak and Camoufox raise 409 when a removal fails; of a Chromium sandbox a
\* container is lost if the daemon does not answer.
DaemonNeeded == "daemon" \notin Faults \/ \A s \in Sandbox : Managed(s)

NoneLost == ("daemon" \notin Faults => daemon) /\ NoOrphanContainers

\* A removal that is not refused stops what runs, of a Chromium sandbox if
\* Docker carries it out.
LEMMA RemovalDone ==
  ASSUME TypeOK, NEW s \in Sandbox, Managed(s) \/ (daemon /\ "rm" \notin Faults),
         Owned(s),
         NEW d \in Container, RemoveRuntime(s, "done", d)
  PROVE  ~d.running
<1>1. ctr[s] \in Container
  BY DEF TypeOK, DockerTypeOK
<1>2. CASE cid[s] = None
  BY <1>1, <1>2 DEF RemoveRuntime, Owned, Container
<1>3. CASE cid[s] # None
  <2>1. CASE Managed(s)
    BY <2>1, RemovalStops DEF Owned
  <2>2. CASE daemon /\ "rm" \notin Faults
    <3>1. d = Without(ctr[s], cid[s])
      BY <1>3, <2>2 DEF RemoveRuntime, RemoveContainer
    <3> QED BY <3>1 DEF Without, NoContainer, Owned
  <2> QED BY <2>1, <2>2
<1> QED BY <1>2, <1>3

\* An operation leaves what runs for its sandbox registered and recorded.
LEMMA OperationOwns ==
  ASSUME TypeOK, NEW s \in Sandbox, Managed(s) \/ (daemon /\ "rm" \notin Faults),
         Owned(s), Operation(s)
  PROVE  Owned(s)'
<1>1. ASSUME NEW c \in Container, ~c.running, Runs(s, c, None)
      PROVE  Owned(s)'
  BY <1>1 DEF Runs, CreateContainer, Owned
<1>2. NoContainer \in Container /\ ~NoContainer.running /\ ctr[s] \in Container
  BY DEF NoContainer, Container, TypeOK, DockerTypeOK
<1>a. CASE Untouched(s)
  BY <1>a DEF Untouched, Owned
<1>b. CASE Removes(s)
  BY <1>b, RemovalDone DEF Removes, Owned
<1>c. CASE Refuses(s)
  BY <1>c, RefusalKeeps DEF Refuses, Owned
<1>d. CASE RunsAnew(s)
  <2>1. CASE ctr[s] = NoContainer /\ Runs(s, NoContainer, None)
    BY <2>1, <1>1, <1>2
  <2>2. ASSUME s \in reg, NEW c \in Container, RemoveRuntime(s, "done", c),
               Runs(s, c, None)
        PROVE  Owned(s)'
    BY <2>2, <1>1, RemovalDone
  <2>3. CASE s \in reg /\ Runs(s, ctr[s], cid[s])
    BY <2>3, <1>2, DockerAssumption DEF Runs, CreateContainer, Owned
  <2> QED BY <1>d, <2>1, <2>2, <2>3 DEF RunsAnew
<1> QED BY <1>a, <1>b, <1>c, <1>d, OperationOutcome

\* Nobody else than the environment stops or starts the Docker daemon.
LEMMA DaemonAnswers ==
  ASSUME TypeOK, "daemon" \notin Faults, [Next]_vars
  PROVE  UNCHANGED daemon
<1>1. \A s \in Sandbox : Operation(s) => UNCHANGED daemon
  BY DEF Operation, Create, Update, Pause, Destroy, Resume, RestartBrowser,
         dockerVars
<1>2. \A w \in Waiter : WaiterStep(w) => UNCHANGED daemon
  BY DEF WaiterStep, PollAgain, VersionAnswered, SessionAnswered,
         DeadlinePasses, TimeoutRecorded, ProbeRaises, WaiterRest, dockerVars
<1>3. ProcessStep => UNCHANGED daemon
  BY ReadObserves DEF Observes, ProcessStep, Crash, CrashInCreate,
     CrashInDestroy, Startup, dockerVars
<1> QED
  BY <1>1, <1>2, <1>3 DEF Next, ServiceStep, HostStep, ContainerExits,
     OperatorRemoves, DaemonFlips, vars, dockerVars

\* Every step of the system leaves what runs registered and recorded.
LEMMA NextOwns ==
  ASSUME TypeOK, NoneLost, {"rm", "list"} \cap Faults = {}, DaemonNeeded, [Next]_vars
  PROVE  NoneLost'
<1>1. "daemon" \notin Faults => UNCHANGED daemon
  BY DaemonAnswers
<1>2. Observes => NoneLost'
  BY DEF Observes, NoneLost, NoOrphanContainers
<1>3. ~up' => NoneLost'
  BY <1>1 DEF NoneLost, NoOrphanContainers
<1>4. ASSUME NEW s \in Sandbox, Operation(s), UNCHANGED held
      PROVE  NoneLost'
  <2>1. up
    BY <1>4 DEF Operation, Create, Update, Pause, Destroy, Resume, RestartBrowser
  <2>2. Owned(s) /\ (Managed(s) \/ (daemon /\ "rm" \notin Faults))
    BY <2>1 DEF NoneLost, NoOrphanContainers, Owned, DaemonNeeded
  <2>3. \A t \in Sandbox \ {s} : Elsewhere(t)
    BY <1>4, OperationElsewhere
  <2>4. Owned(s)'
    BY <1>4, <2>2, OperationOwns
  <2> QED
    BY <1>1, <2>1, <2>3, <2>4 DEF Owned, Elsewhere, NoneLost, NoOrphanContainers
<1>5. CASE ProcessStep
  <2>1. Startup => NoneLost'
    BY <1>1, StartupReaches, StartupRepairs
    DEF NoneLost, NoOrphanContainers, NoContainer
  <2> QED
    BY <1>5, <1>2, <1>3, <2>1, ReadObserves
    DEF ProcessStep, Crash, CrashInCreate, CrashInDestroy, MemoryLost
<1>6. CASE HostStep
  <2>1. UNCHANGED <<up, reg, cid>>
    BY <1>6 DEF HostStep, lifeVars, recordVars
  <2> QED
    BY <1>1, <1>6, <2>1, HostOnlyStops DEF NoneLost, NoOrphanContainers, NoContainer
<1>7. CASE UNCHANGED vars
  BY <1>7 DEF vars, dockerVars, lifeVars, recordVars, NoneLost, NoOrphanContainers
<1> QED
  BY <1>2, <1>4, <1>5, <1>6, <1>7, WaiterObserves DEF Next, ServiceStep

\* While containers can be listed and removed, a running container belongs to a
\* registered sandbox that names it, for every engine: what a crash between two
\* steps of create or destroy left is gone after startup.  Chromium, whose
\* failing removals are ignored, needs a daemon that answers besides.
THEOREM OrphansAreRemoved ==
  ASSUME {"rm", "list"} \cap Faults = {}, DaemonNeeded
  PROVE  Spec => []NoOrphanContainers
<1>1. Init => NoneLost
  BY DEF Init, DockerInit, NoContainer, NoneLost, NoOrphanContainers
<1>2. TypeOK /\ NoneLost /\ [Next]_vars => NoneLost'
  BY NextOwns
<1>3. NoneLost => NoOrphanContainers
  BY DEF NoneLost
<1> QED
  BY <1>1, <1>2, <1>3, TypeCorrect, PTL DEF Spec

=============================================================================
