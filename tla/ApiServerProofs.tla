--------------------------- MODULE ApiServerProofs ---------------------------
(***************************************************************************)
(* Theorems about ApiServer for any number of sandboxes, requests, readers *)
(* and aliases, and any set of environment faults.                         *)
(***************************************************************************)
EXTENDS ApiServer, TLAPS

-----------------------------------------------------------------------------
(* Type correctness.                                                       *)

\* A server that has never run is well typed.
LEMMA InitType == Init => TypeOK
BY DockerAssumption, LifecycleAssumption
DEF Init, DockerInit, LifecycleInit, TypeOK, DockerTypeOK, LifecycleTypeOK,
    Container, NoContainer, Status, Waiter

\* A suspended waiter waits for some sandbox.
LEMMA TargetType ==
  ASSUME TypeOK, NEW w \in Waiter, pc[w] # "idle"
  PROVE  Target(w) \in Sandbox
BY DEF TypeOK, LifecycleTypeOK, Waiter, Target

\* Releasing a waiter keeps the waiters' part of the type invariant.
LEMMA ReleaseType ==
  ASSUME TypeOK, NEW w \in Waiter, Release(w)
  PROVE  /\ pc' \in [Waiter -> Suspended \cup {"idle"}]
         /\ on' \in [Call -> Sandbox \cup {None}]
         /\ creating' \subseteq Call
         /\ \A c \in Call : pc'[c] = "idle" <=> on'[c] = None
BY DEF TypeOK, LifecycleTypeOK, Release, Waiter

\* The same for a waiter that goes on to its next await.
LEMMA SuspendType ==
  ASSUME TypeOK, NEW w \in Waiter, pc[w] # "idle",
         NEW where \in Suspended, SuspendAt(w, where)
  PROVE  /\ pc' \in [Waiter -> Suspended \cup {"idle"}]
         /\ on' \in [Call -> Sandbox \cup {None}]
         /\ creating' \subseteq Call
         /\ \A c \in Call : pc'[c] = "idle" <=> on'[c] = None
BY DEF TypeOK, LifecycleTypeOK, SuspendAt, Suspended, Waiter

\* A waiter that returns, with or without putting its record back.
LEMMA FinishType ==
  ASSUME TypeOK, NEW w \in Waiter, NEW s \in Sandbox, NEW st \in Status,
         NEW put \in BOOLEAN, up, Finish(w, s, st, put),
         UNCHANGED WaiterRest, UNCHANGED held
  PROVE  TypeOK'
<1>1. /\ reg' \subseteq Sandbox
      /\ meta' \subseteq Sandbox
      /\ status' \in [Sandbox -> Status]
  BY DEF TypeOK, LifecycleTypeOK, Finish, SetStatus, PutIf, Put
<1>2. Release(w)
  BY DEF Finish
<1> QED
  BY <1>1, <1>2, ReleaseType
  DEF TypeOK, DockerTypeOK, LifecycleTypeOK, WaiterRest, dockerVars

\* Every slice of _wait_until_ready keeps the type invariant.
LEMMA WaiterStepType ==
  ASSUME TypeOK, NEW w \in Waiter, WaiterStep(w), UNCHANGED held
  PROVE  TypeOK'
<1> DEFINE s == Target(w)
<1>1. pc[w] # "idle"
  BY DEF WaiterStep, PollAgain, VersionAnswered, SessionAnswered,
         DeadlinePasses, TimeoutRecorded, ProbeRaises
<1>2. s \in Sandbox
  BY <1>1, TargetType
<1>3. status[s] \in Status /\ {"RUNNING", "DEGRADED"} \subseteq Status
  BY <1>2 DEF TypeOK, LifecycleTypeOK, Status
<1>4. up /\ UNCHANGED WaiterRest
  BY DEF WaiterStep, PollAgain, VersionAnswered, SessionAnswered,
         DeadlinePasses, TimeoutRecorded, ProbeRaises
<1>5. ASSUME NEW where \in Suspended, SuspendAt(w, where),
             UNCHANGED <<reg, meta>>, status' \in [Sandbox -> Status]
      PROVE  TypeOK'
  BY <1>1, <1>4, <1>5, SuspendType
  DEF TypeOK, DockerTypeOK, LifecycleTypeOK, WaiterRest, dockerVars
<1>6. {"version", "session", "sleep", "final"} \subseteq Suspended
  BY DEF Suspended
<1>7. UNCHANGED status => status' \in [Sandbox -> Status]
  BY DEF TypeOK, LifecycleTypeOK
<1>a. CASE PollAgain(w)
  <2>1. CASE s \notin reg
    BY <1>a, <2>1, <1>2, <1>3, <1>4, FinishType DEF PollAgain
  <2>2. CASE s \in reg
    <3>1. PICK next \in {"version", "idle"}, out \in Status :
            IF next = "idle" THEN Finish(w, s, out, TRUE)
            ELSE SuspendAt(w, next) /\ UNCHANGED <<status, reg, meta>>
      BY <1>a, <2>2 DEF PollAgain
    <3>2. CASE next = "idle"
      BY <3>1, <3>2, <1>2, <1>4, FinishType
    <3>3. CASE next = "version"
      BY <3>1, <3>3, <1>5, <1>6, <1>7
    <3> QED BY <3>2, <3>3
  <2> QED BY <2>1, <2>2
<1>b. CASE VersionAnswered(w)
  BY <1>b, <1>5, <1>6, <1>7 DEF VersionAnswered
<1>c. CASE SessionAnswered(w)
  BY <1>c, <1>2, <1>3, <1>4, <1>5, <1>6, <1>7, FinishType DEF SessionAnswered
<1>d. CASE DeadlinePasses(w)
  <2>1. CASE Finish(w, s, status[s], FALSE)
    BY <2>1, <1>2, <1>3, <1>4, FinishType
  <2>2. CASE Finish(w, s, "DEGRADED", TRUE)
    BY <2>2, <1>2, <1>3, <1>4, FinishType
  <2>3. CASE SetStatus(s, "DEGRADED") /\ SuspendAt(w, "final") /\ UNCHANGED <<reg, meta>>
    <3>1. status' \in [Sandbox -> Status]
      BY <2>3, <1>2, <1>3 DEF SetStatus, TypeOK, LifecycleTypeOK
    <3> QED BY <2>3, <3>1, <1>5, <1>6
  <2> QED BY <1>d, <2>1, <2>2, <2>3 DEF DeadlinePasses
<1>e. CASE TimeoutRecorded(w)
  BY <1>e, <1>2, <1>3, <1>4, FinishType DEF TimeoutRecorded
<1>f. CASE ProbeRaises(w)
  <2>1. /\ reg' \subseteq Sandbox
        /\ meta' \subseteq Sandbox
        /\ status' \in [Sandbox -> Status]
    BY <1>f, <1>3 DEF ProbeRaises, SetStatus, Put, TypeOK, LifecycleTypeOK
  <2>2. Release(w)
    BY <1>f DEF ProbeRaises
  <2> QED
    BY <2>1, <2>2, <1>4, ReleaseType
    DEF TypeOK, DockerTypeOK, LifecycleTypeOK, WaiterRest, dockerVars
<1> QED
  BY <1>a, <1>b, <1>c, <1>d, <1>e, <1>f DEF WaiterStep

\* Going on to wait inline for s keeps the waiters' part of the invariant.
LEMMA AwaitsType ==
  ASSUME TypeOK, NEW s \in Sandbox, NEW isCreate \in BOOLEAN,
         Awaits(s, isCreate)
  PROVE  /\ status' \in [Sandbox -> Status]
         /\ pc' \in [Waiter -> Suspended \cup {"idle"}]
         /\ on' \in [Call -> Sandbox \cup {None}]
         /\ creating' \subseteq Call
         /\ \A c \in Call : pc'[c] = "idle" <=> on'[c] = None
<1>1. PICK w \in Call, next \in {"version", "idle"}, out \in Status :
         /\ SetStatus(s, out)
         /\ IF next = "idle" THEN UNCHANGED waiterVars
            ELSE /\ pc' = [pc EXCEPT ![w] = next]
                 /\ on' = [on EXCEPT ![w] = s]
                 /\ creating' = IF isCreate THEN creating \cup {w} ELSE creating
  BY DEF Awaits
<1>2. status' \in [Sandbox -> Status]
  BY <1>1 DEF SetStatus, TypeOK, LifecycleTypeOK
<1>3. CASE next = "idle"
  BY <1>1, <1>2, <1>3 DEF waiterVars, TypeOK, LifecycleTypeOK
<1>4. CASE next = "version"
  BY <1>1, <1>2, <1>4, LifecycleAssumption
  DEF TypeOK, LifecycleTypeOK, Waiter, Suspended
<1> QED BY <1>3, <1>4

\* What follows docker run keeps the record and the waiters well typed.
LEMMA RunAnsweredType ==
  ASSUME TypeOK, NEW s \in Sandbox, NEW id \in CtrId \cup {None},
         NEW lost \in CtrId \cup {None}, NEW isCreate \in BOOLEAN,
         RunAnswered(s, id, lost, isCreate)
  PROVE  /\ status' \in [Sandbox -> Status]
         /\ cid' \in [Sandbox -> CtrId \cup {None}]
         /\ pc' \in [Waiter -> Suspended \cup {"idle"}]
         /\ on' \in [Call -> Sandbox \cup {None}]
         /\ creating' \subseteq Call
         /\ \A c \in Call : pc'[c] = "idle" <=> on'[c] = None
<1>1. cid' \in [Sandbox -> CtrId \cup {None}]
  BY DEF RunAnswered, TypeOK, LifecycleTypeOK
<1>2. CASE id = None
  BY <1>1, <1>2
  DEF RunAnswered, SetStatus, Status, waiterVars, TypeOK, LifecycleTypeOK
<1>3. CASE id # None /\ isCreate /\ Kind[s] = "xpra"
  BY <1>1, <1>3, LifecycleAssumption
  DEF RunAnswered, SetStatus, Status, Suspended, Waiter, TypeOK, LifecycleTypeOK
<1>4. CASE id # None /\ ~(isCreate /\ Kind[s] = "xpra")
  BY <1>1, <1>4, AwaitsType DEF RunAnswered
<1> QED BY <1>2, <1>3, <1>4

\* Cancelling a background probe leaves the inline waiters alone.
LEMMA CancelType ==
  ASSUME TypeOK, NEW s \in Sandbox, CancelProbe(s)
  PROVE  /\ pc' \in [Waiter -> Suspended \cup {"idle"}]
         /\ on' \in [Call -> Sandbox \cup {None}]
         /\ creating' \subseteq Call
         /\ \A c \in Call : pc'[c] = "idle" <=> on'[c] = None
BY LifecycleAssumption DEF TypeOK, LifecycleTypeOK, CancelProbe, Waiter

\* Every operation of the lifecycle service keeps the type invariant.
LEMMA OperationType ==
  ASSUME TypeOK, NEW s \in Sandbox, Operation(s), UNCHANGED held
  PROVE  TypeOK'
<1> USE DEF TypeOK, DockerTypeOK, LifecycleTypeOK
<1>1. {"STOPPED", "STARTING", "FAILED", "DEGRADED"} \subseteq Status
  BY DEF Status
<1>2. NoContainer \in Container
  BY DEF NoContainer, Container
<1>a. CASE Create(s)
  <2>1. PICK id \in CtrId \cup {None}, d \in Container :
          /\ ctr' = [ctr EXCEPT ![s] = d]
          /\ RunAnswered(s, id, None, TRUE)
    BY <1>a DEF Create
  <2>2. alias' \in [Sandbox -> Alias \cup {None}]
    BY <1>a DEF Create
  <2> QED
    BY <1>a, <2>1, <2>2, RunAnsweredType DEF Create, Put
<1>b. CASE Update(s)
  <2>1. alias' \in [Sandbox -> Alias \cup {None}]
    BY <1>b DEF Update
  <2>2. status' \in [Sandbox -> Status]
    BY <1>b DEF Update, SetStatus
  <2> QED
    BY <1>b, <2>1, <2>2 DEF Update, Put, dockerVars, waiterVars
<1>c. CASE Pause(s)
  <2>1. PICK res \in {"done", "kept", "refused"}, d \in Container :
          /\ ctr' = [ctr EXCEPT ![s] = d]
          /\ \/ /\ cid' = [cid EXCEPT ![s] = None]
                /\ SetStatus(s, "STOPPED")
                /\ Put(s)
             \/ StopRefused(s)
             \/ UNCHANGED <<cid, status, reg, meta>>
    BY <1>c DEF Pause
  <2>2. /\ cid' \in [Sandbox -> CtrId \cup {None}]
        /\ status' \in [Sandbox -> Status]
        /\ reg' \subseteq Sandbox /\ meta' \subseteq Sandbox
    BY <2>1, <1>1 DEF SetStatus, StopRefused, Put
  <2> QED
    BY <1>c, <2>1, <2>2, CancelType DEF Pause
<1>d. CASE Destroy(s)
  <2>1. PICK res \in {"done", "kept", "refused"}, d \in Container :
          /\ ctr' = [ctr EXCEPT ![s] = d]
          /\ \/ /\ reg' = reg \ {s}
                /\ RemoveTree(s)
                /\ deleted' = deleted \cup {s}
                /\ UNCHANGED <<cid, status>>
             \/ StopRefused(s) /\ UNCHANGED <<profile, deleted>>
             \/ UNCHANGED <<cid, status, reg, meta, profile, deleted>>
    BY <1>d DEF Destroy
  <2>2. /\ cid' \in [Sandbox -> CtrId \cup {None}]
        /\ status' \in [Sandbox -> Status]
        /\ reg' \subseteq Sandbox /\ meta' \subseteq Sandbox
        /\ profile' \subseteq Sandbox /\ deleted' \subseteq Sandbox
    BY <2>1, <1>1 DEF SetStatus, StopRefused, Put, RemoveTree
  <2> QED
    BY <1>d, <2>1, <2>2, CancelType DEF Destroy
<1>e. CASE Resume(s)
  <2>1. PICK res \in {"done", "kept", "refused"}, c \in Container :
          \/ /\ res = "done"
             /\ \E id \in CtrId \cup {None}, d \in Container :
                  LET h == IF Managed(s) THEN None ELSE cid[s] IN
                  /\ CreateContainer(c, h, id, d)
                  /\ ctr' = [ctr EXCEPT ![s] = d]
                  /\ RunAnswered(s, id, h, FALSE)
             /\ Put(s)
          \/ /\ res = "refused"
             /\ StopRefused(s)
             /\ ctr' = [ctr EXCEPT ![s] = c]
             /\ UNCHANGED waiterVars
          \/ /\ res = "kept"
             /\ ctr' = [ctr EXCEPT ![s] = c]
             /\ UNCHANGED <<cid, status, reg, meta, waiterVars>>
    BY <1>e DEF Resume
  <2>2. up /\ UNCHANGED <<daemon, up, profile, alias, deleted>>
    BY <1>e DEF Resume
  <2>3. CASE res = "done"
    <3>1. PICK id \in CtrId \cup {None}, d \in Container :
            /\ ctr' = [ctr EXCEPT ![s] = d]
            /\ RunAnswered(s, id, IF Managed(s) THEN None ELSE cid[s], FALSE)
      BY <2>1, <2>3
    <3> QED BY <2>1, <2>2, <2>3, <3>1, RunAnsweredType DEF Put
  <2>4. CASE res = "refused"
    BY <2>1, <2>2, <2>4, <1>1 DEF StopRefused, SetStatus, Put, waiterVars
  <2>5. CASE res = "kept"
    BY <2>1, <2>2, <2>5 DEF waiterVars
  <2> QED BY <2>1, <2>3, <2>4, <2>5
<1>f. CASE RestartBrowser(s)
  <2>1. /\ reg' \subseteq Sandbox /\ meta' \subseteq Sandbox
        /\ up /\ UNCHANGED <<daemon, up, profile, alias, deleted>>
    BY <1>f DEF RestartBrowser, Put
  <2>2. CASE RestartInPlace(s)
    <3>1. CASE Awaits(s, FALSE)
      BY <2>1, <2>2, <3>1, AwaitsType DEF RestartInPlace
    <3>2. CASE SetStatus(s, "DEGRADED") /\ UNCHANGED waiterVars
      BY <2>1, <2>2, <3>2, <1>1 DEF RestartInPlace, SetStatus, waiterVars
    <3> QED BY <2>2, <3>1, <3>2 DEF RestartInPlace
  <2>3. CASE Recreate(s)
    <3>1. CASE /\ SetStatus(s, "FAILED")
               /\ UNCHANGED <<ctr, cid, waiterVars>>
      BY <2>1, <3>1, <1>1 DEF SetStatus, waiterVars
    <3>2. ASSUME NEW c \in Container,
                 ctr' = [ctr EXCEPT ![s] = c],
                 SetStatus(s, "STARTING"),
                 UNCHANGED <<cid, waiterVars>>
          PROVE  TypeOK'
      BY <2>1, <3>2, <1>1 DEF SetStatus, waiterVars
    <3>3. ASSUME NEW id \in CtrId \cup {None}, NEW d \in Container,
                 ctr' = [ctr EXCEPT ![s] = d],
                 RunAnswered(s, id, None, FALSE)
          PROVE  TypeOK'
      BY <2>1, <3>3, RunAnsweredType
    <3> QED BY <2>3, <3>1, <3>2, <3>3 DEF Recreate
  <2> QED BY <1>f, <2>2, <2>3 DEF RestartBrowser
<1> QED
  BY <1>a, <1>b, <1>c, <1>d, <1>e, <1>f DEF Operation

\* Enriching a response changes a status and the registry, nothing else.
LEMMA EnrichType ==
  ASSUME TypeOK, NEW s \in Sandbox, Enrich(s)
  PROVE  /\ status' \in [Sandbox -> Status]
         /\ reg' \subseteq Sandbox
         /\ meta' \subseteq Sandbox
         /\ UNCHANGED EnrichRest
BY DEF TypeOK, LifecycleTypeOK, Enrich, SetStatus, PutIf, Put

\* What the process forgets when it stops is well typed.
LEMMA MemoryLostType ==
  ASSUME TypeOK, MemoryLost, DockerTypeOK',
         meta' \subseteq Sandbox, profile' \subseteq Sandbox,
         UNCHANGED <<alias, deleted>>
  PROVE  TypeOK'
BY DEF TypeOK, LifecycleTypeOK, MemoryLost, Status, Waiter

\* The health loop, the readers, crashes and the startup keep the type
\* invariant.
LEMMA ProcessStepType ==
  ASSUME TypeOK, ProcessStep
  PROVE  TypeOK'
<1> USE DEF TypeOK, DockerTypeOK, LifecycleTypeOK
<1>a. CASE HealthTick
  <2>1. meta' \subseteq Sandbox /\ status' \in [Sandbox -> Status]
    BY <1>a DEF HealthTick, Status
  <2> QED
    BY <1>a, <2>1 DEF HealthTick, dockerVars, waiterVars
<1>b. ASSUME NEW r \in Reader, ReaderStep(r)
      PROVE  TypeOK'
  <2>1. ASSUME NEW s \in Sandbox, up, Enrich(s),
               held' \in [Reader -> SUBSET Sandbox]
        PROVE  TypeOK'
    BY <2>1, EnrichType DEF EnrichRest, dockerVars, waiterVars
  <2>2. CASE ListBegins(r)
    BY <2>1, <2>2 DEF ListBegins
  <2>3. CASE GetLooksUp(r)
    BY <2>3 DEF GetLooksUp, dockerVars, lifeVars, recordVars, waiterVars
  <2>4. CASE EnrichNext(r)
    BY <2>1, <2>4 DEF EnrichNext
  <2> QED BY <1>b, <2>2, <2>3, <2>4 DEF ReaderStep
<1>c. CASE Crash
  BY <1>c, MemoryLostType DEF Crash, dockerVars
<1>d. ASSUME NEW s \in Sandbox, CrashInCreate(s)
      PROVE  TypeOK'
  BY <1>d, MemoryLostType DEF CrashInCreate
<1>e. ASSUME NEW s \in Sandbox, CrashInDestroy(s)
      PROVE  TypeOK'
  BY <1>e, MemoryLostType DEF CrashInDestroy
<1>f. CASE Startup
  <2>1. ctr' \in [Sandbox -> Container]
    BY <1>f DEF Startup, Container, NoContainer
  <2>2. PICK adopted \in SUBSET Sandbox :
          /\ cid' = [s \in Sandbox |-> IF s \in adopted THEN ctr[s].id ELSE None]
          /\ status' = [s \in Sandbox |-> IF s \notin adopted THEN "STOPPED"
                                          ELSE IF Managed(s) THEN "STARTING"
                                          ELSE "RUNNING"]
          /\ pc' = [w \in Waiter |-> IF w \in adopted /\ ProbedAtStartup(w)
                                     THEN "new" ELSE "idle"]
    BY <1>f DEF Startup, Stale
  <2>3. cid' \in [Sandbox -> CtrId \cup {None}] /\ status' \in [Sandbox -> Status]
    BY <2>2 DEF Container, Status
  <2>4. pc' \in [Waiter -> Suspended \cup {"idle"}] /\ \A c \in Call : pc'[c] = "idle"
    BY <2>2, LifecycleAssumption DEF Suspended, Waiter
  <2>5. on' \in [Call -> Sandbox \cup {None}] /\ \A c \in Call : on'[c] = None
    BY <1>f DEF Startup, Waiter
  <2> QED BY <1>f, <2>1, <2>3, <2>4, <2>5 DEF Startup, LoadFromDisk
<1> QED
  BY <1>a, <1>b, <1>c, <1>d, <1>e, <1>f DEF ProcessStep

\* Every step of the system keeps the type invariant.
LEMMA NextType ==
  ASSUME TypeOK, [Next]_vars
  PROVE  TypeOK'
<1> USE DEF TypeOK, DockerTypeOK, LifecycleTypeOK
<1>1. CASE ServiceStep
  BY <1>1, OperationType, WaiterStepType DEF ServiceStep
<1>2. CASE ProcessStep
  BY <1>2, ProcessStepType
<1>3. CASE HostStep
  <2>1. daemon' \in BOOLEAN /\ ctr' \in [Sandbox -> Container]
    <3>1. ASSUME NEW s \in Sandbox, ContainerExits(s)
          PROVE  ctr' \in [Sandbox -> Container]
      <4>1. ctr[s] \in Container
        OBVIOUS
      <4>2. [ctr[s] EXCEPT !.running = FALSE] \in Container
        BY <4>1 DEF Container
      <4> QED BY <3>1, <4>2 DEF ContainerExits
    <3>2. ASSUME NEW s \in Sandbox, OperatorRemoves(s)
          PROVE  ctr' \in [Sandbox -> Container]
      BY <3>2 DEF OperatorRemoves, Container, NoContainer
    <3> QED
      BY <1>3, <3>1, <3>2
      DEF HostStep, ContainerExits, OperatorRemoves, DaemonFlips
  <2> QED
    BY <1>3, <2>1 DEF HostStep, lifeVars, recordVars, waiterVars
<1>4. CASE UNCHANGED vars
  BY <1>4 DEF vars, dockerVars, lifeVars, recordVars, waiterVars
<1> QED
  BY <1>1, <1>2, <1>3, <1>4 DEF Next

\* The variables of the server always have their types; in particular a slot
\* of an inline waiter names a sandbox exactly while it is suspended.
THEOREM TypeCorrect == Spec => []TypeOK
<1>1. Init => TypeOK
  BY InitType
<1>2. TypeOK /\ [Next]_vars => TypeOK'
  BY NextType
<1> QED
  BY <1>1, <1>2, PTL DEF Spec

=============================================================================
