----------------------------- MODULE RecordProofs -----------------------------
(***************************************************************************)
(* What a record says of its container, the registry of its files, and     *)
(* aliases of each other, for any number of sandboxes and requests and any *)
(* set of environment faults.                                              *)
(***************************************************************************)
EXTENDS RuntimeProofs

-----------------------------------------------------------------------------
(* STOPPED names no container, RUNNING names one.                          *)

\* Writing a status that agrees with the container id of the record keeps
\* every record consistent.
LEMMA ConsistentStatus ==
  ASSUME TypeOK, StatusMatchesContainer, NEW s \in Sandbox, NEW out \in Status,
         SetStatus(s, out), UNCHANGED cid,
         out = "STOPPED" => cid[s] = None,
         out = "RUNNING" => cid[s] # None
  PROVE  StatusMatchesContainer'
BY DEF TypeOK, LifecycleTypeOK, StatusMatchesContainer, SetStatus

\* A health check leaves a status alone or answers DEGRADED.
LEMMA ConsistentHealth ==
  ASSUME TypeOK, StatusMatchesContainer, NEW s \in Sandbox, NEW out \in Status,
         CheckHealth(s, status[s], out), SetStatus(s, out), UNCHANGED cid
  PROVE  StatusMatchesContainer'
<1>1. out \in {status[s], "DEGRADED"}
  BY DEF CheckHealth
<1>2. status[s] \in Status
  BY DEF TypeOK, LifecycleTypeOK
<1> QED
  BY <1>1, <1>2, ConsistentStatus DEF StatusMatchesContainer

\* A waiter may return the status it found, DEGRADED, or RUNNING once the
\* record names a container.
LEMMA ConsistentFinish ==
  ASSUME TypeOK, StatusMatchesContainer, NEW w \in Waiter, NEW s \in Sandbox,
         NEW st \in Status, NEW put \in BOOLEAN, Finish(w, s, st, put),
         UNCHANGED cid,
         st \in {status[s], "DEGRADED"} \/ (st = "RUNNING" /\ cid[s] # None)
  PROVE  StatusMatchesContainer'
<1>1. PICK out \in Status : out \in {st, "DEGRADED"} /\ SetStatus(s, out)
  BY DEF Finish, CheckHealth
<1> QED
  BY <1>1, ConsistentStatus DEF StatusMatchesContainer

\* A slice of _wait_until_ready, however late it comes: before it declares
\* the sandbox RUNNING it looks into the container the record names now.
LEMMA ConsistentWaiter ==
  ASSUME TypeOK, StatusMatchesContainer, NEW w \in Waiter, WaiterStep(w)
  PROVE  StatusMatchesContainer'
<1> DEFINE s == Target(w)
<1>1. pc[w] # "idle" /\ UNCHANGED cid
  BY DEF WaiterStep, PollAgain, VersionAnswered, SessionAnswered,
         DeadlinePasses, TimeoutRecorded, ProbeRaises, WaiterRest
<1>2. s \in Sandbox
  BY <1>1, TargetType
<1>3. status[s] \in Status /\ {"RUNNING", "DEGRADED"} \subseteq Status
  BY <1>2 DEF TypeOK, LifecycleTypeOK, Status
<1>4. UNCHANGED status => StatusMatchesContainer'
  BY <1>1 DEF StatusMatchesContainer
<1>5. ASSUME NEW st \in {status[s], "DEGRADED"}, NEW put \in BOOLEAN,
             Finish(w, s, st, put)
      PROVE  StatusMatchesContainer'
  BY <1>1, <1>2, <1>3, <1>5, ConsistentFinish
<1>6. SetStatus(s, "DEGRADED") => StatusMatchesContainer'
  BY <1>1, <1>2, <1>3, ConsistentStatus
<1>a. CASE PollAgain(w)
  BY <1>a, <1>4, <1>5 DEF PollAgain, PollBegins
<1>b. CASE VersionAnswered(w)
  BY <1>b, <1>4 DEF VersionAnswered
<1>c. CASE SessionAnswered(w)
  <2>1. DisplayReady(s) => cid[s] # None
    BY DEF DisplayReady, ContainerExists
  <2> QED
    BY <1>c, <2>1, <1>1, <1>2, <1>3, <1>4, ConsistentFinish DEF SessionAnswered
<1>d. CASE DeadlinePasses(w)
  BY <1>d, <1>5, <1>6 DEF DeadlinePasses
<1>e. CASE TimeoutRecorded(w)
  BY <1>e, <1>5 DEF TimeoutRecorded
<1>f. CASE ProbeRaises(w)
  BY <1>f, <1>4, <1>6 DEF ProbeRaises, Target
<1> QED
  BY <1>a, <1>b, <1>c, <1>d, <1>e, <1>f DEF WaiterStep

\* docker run leaves the record FAILED, STARTING or, when a Cloak browser
\* already reports a fatal diagnosis, DEGRADED.
LEMMA ConsistentRun ==
  ASSUME TypeOK, StatusMatchesContainer, NEW s \in Sandbox,
         NEW id \in CtrId \cup {None}, NEW lost \in CtrId \cup {None},
         NEW isCreate \in BOOLEAN, RunAnswered(s, id, lost, isCreate)
  PROVE  StatusMatchesContainer'
<1>1. PICK st \in {"FAILED", "STARTING", "DEGRADED"} : SetStatus(s, st)
  BY DEF RunAnswered, Awaits, PollBegins
<1>2. PICK got \in CtrId \cup {None} : cid' = [cid EXCEPT ![s] = got]
  BY DEF RunAnswered
<1> QED
  BY <1>1, <1>2 DEF SetStatus, StatusMatchesContainer, TypeOK, LifecycleTypeOK

\* Every operation of the lifecycle service keeps the records consistent.
LEMMA ConsistentOperation ==
  ASSUME TypeOK, StatusMatchesContainer, NEW s \in Sandbox, Operation(s)
  PROVE  StatusMatchesContainer'
<1>1. UNCHANGED <<cid, status>> => StatusMatchesContainer'
  BY DEF StatusMatchesContainer
<1>2. ASSUME NEW st \in {"STARTING", "FAILED", "DEGRADED"}, SetStatus(s, st),
             UNCHANGED cid
      PROVE  StatusMatchesContainer'
  BY <1>2, ConsistentStatus DEF Status
<1>3. StopRefused(s) => StatusMatchesContainer'
  BY <1>2 DEF StopRefused
<1>4. cid[s] \in CtrId \cup {None}
  BY DEF TypeOK, LifecycleTypeOK
<1>a. CASE Create(s)
  BY <1>a, ConsistentRun DEF Create
<1>b. CASE Update(s)
  BY <1>b, ConsistentHealth DEF Update
<1>c. CASE Pause(s)
  <2>1. CASE cid' = [cid EXCEPT ![s] = None] /\ SetStatus(s, "STOPPED")
    BY <2>1 DEF SetStatus, StatusMatchesContainer, TypeOK, LifecycleTypeOK
  <2> QED BY <1>c, <2>1, <1>1, <1>3 DEF Pause
<1>d. CASE Destroy(s)
  BY <1>d, <1>1, <1>3 DEF Destroy
<1>e. CASE Resume(s)
  <2>1. ASSUME NEW id \in CtrId \cup {None},
               RunAnswered(s, id, IF Managed(s) THEN None ELSE cid[s], FALSE)
        PROVE  StatusMatchesContainer'
    BY <2>1, <1>4, ConsistentRun
  <2> QED BY <1>e, <2>1, <1>1, <1>3 DEF Resume
<1>f. CASE RestartBrowser(s)
  <2>1. CASE RestartInPlace(s)
    BY <2>1, <1>2 DEF RestartInPlace, Awaits, PollBegins
  <2>2. CASE Recreate(s)
    BY <2>2, <1>2, ConsistentRun DEF Recreate
  <2> QED BY <1>f, <2>1, <2>2 DEF RestartBrowser
<1> QED
  BY <1>a, <1>b, <1>c, <1>d, <1>e, <1>f DEF Operation

\* The health loop, the readers, crashes and the startup keep the records
\* consistent.
LEMMA ConsistentProcess ==
  ASSUME TypeOK, StatusMatchesContainer, ProcessStep
  PROVE  StatusMatchesContainer'
<1>1. MemoryLost => StatusMatchesContainer'
  BY DEF MemoryLost, StatusMatchesContainer
<1>2. \A s \in Sandbox : Enrich(s) => StatusMatchesContainer'
  BY ConsistentHealth DEF Enrich, EnrichRest
<1>a. CASE HealthTick
  BY <1>a DEF HealthTick, StatusMatchesContainer
<1>b. ASSUME NEW r \in Reader, ReaderStep(r)
      PROVE  StatusMatchesContainer'
  <2>1. CASE GetLooksUp(r)
    BY <2>1 DEF GetLooksUp, lifeVars, recordVars, StatusMatchesContainer
  <2> QED
    BY <1>b, <1>2, <2>1
    DEF ReaderStep, ListBegins, EnrichNext, TypeOK, LifecycleTypeOK
<1>c. CASE Startup
  <2>1. PICK adopted \in SUBSET Sandbox :
          /\ \A s \in adopted : ctr[s].running
          /\ cid' = [s \in Sandbox |-> IF s \in adopted THEN ctr[s].id ELSE None]
          /\ status' = [s \in Sandbox |-> IF s \notin adopted THEN "STOPPED"
                                          ELSE IF Managed(s) THEN "STARTING"
                                          ELSE "RUNNING"]
    BY <1>c DEF Startup, Stale
  <2>2. \A s \in adopted : ctr[s].id # None
    BY <2>1 DEF TypeOK, DockerTypeOK, Container
  <2> QED BY <2>1, <2>2 DEF StatusMatchesContainer
<1> QED
  BY <1>1, <1>a, <1>b, <1>c DEF ProcessStep, Crash, CrashInCreate, CrashInDestroy

\* A record that reads STOPPED names no container and one that reads RUNNING
\* names one, in every interleaving of requests, stale readiness waiters,
\* health checks, crashes and restarts.
THEOREM RecordsConsistent == Spec => []StatusMatchesContainer
<1>1. Init => StatusMatchesContainer
  BY DEF Init, LifecycleInit, StatusMatchesContainer
<1>2. TypeOK /\ StatusMatchesContainer /\ [Next]_vars => StatusMatchesContainer'
  <2> SUFFICES ASSUME TypeOK, StatusMatchesContainer, [Next]_vars
               PROVE  StatusMatchesContainer'
    OBVIOUS
  <2>1. UNCHANGED <<cid, status>> => StatusMatchesContainer'
    BY DEF StatusMatchesContainer
  <2>2. HostStep \/ UNCHANGED vars => UNCHANGED <<cid, status>>
    BY DEF HostStep, vars, lifeVars, recordVars
  <2> QED
    BY <2>1, <2>2, ConsistentOperation, ConsistentWaiter, ConsistentProcess
    DEF Next, ServiceStep
<1> QED
  BY <1>1, <1>2, TypeCorrect, PTL DEF Spec

-----------------------------------------------------------------------------
(* The registry and the meta.json files.                                   *)

\* put writes meta.json with the registration, so it keeps the two in step.
LEMMA PutKeepsDisk ==
  ASSUME RegistryMatchesDisk, up, NEW s \in Sandbox,
         Put(s) \/ UNCHANGED <<reg, meta>>
  PROVE  RegistryMatchesDisk'
BY DEF RegistryMatchesDisk, Put

\* No slice of _wait_until_ready separates the registry from the files, not
\* even one that brings a deleted sandbox back.
LEMMA WaiterKeepsDisk ==
  ASSUME TypeOK, RegistryMatchesDisk, NEW w \in Waiter, WaiterStep(w)
  PROVE  RegistryMatchesDisk'
<1>1. up /\ pc[w] # "idle"
  BY DEF WaiterStep, PollAgain, VersionAnswered, SessionAnswered,
         DeadlinePasses, TimeoutRecorded, ProbeRaises
<1>2. Target(w) \in Sandbox
  BY <1>1, TargetType
<1>3. \A st, put : Finish(w, Target(w), st, put) =>
        Put(Target(w)) \/ UNCHANGED <<reg, meta>>
  BY DEF Finish, PutIf
<1>4. Put(Target(w)) \/ UNCHANGED <<reg, meta>>
  <2>1. PollAgain(w) => Put(Target(w)) \/ UNCHANGED <<reg, meta>>
    BY <1>3 DEF PollAgain
  <2>2. SessionAnswered(w) \/ DeadlinePasses(w) \/ TimeoutRecorded(w)
          => Put(Target(w)) \/ UNCHANGED <<reg, meta>>
    BY <1>3 DEF SessionAnswered, DeadlinePasses, TimeoutRecorded
  <2>3. VersionAnswered(w) \/ ProbeRaises(w)
          => Put(Target(w)) \/ UNCHANGED <<reg, meta>>
    BY DEF VersionAnswered, ProbeRaises, Target
  <2> QED BY <2>1, <2>2, <2>3 DEF WaiterStep
<1> QED
  BY <1>1, <1>2, <1>4, PutKeepsDisk

\* Every operation registers with its file or removes both.
LEMMA OperationKeepsDisk ==
  ASSUME RegistryMatchesDisk, NEW s \in Sandbox, Operation(s)
  PROVE  RegistryMatchesDisk'
<1>1. up
  BY DEF Operation, Create, Update, Pause, Destroy, Resume, RestartBrowser
<1>a. CASE Create(s) \/ Update(s) \/ RestartBrowser(s)
  BY <1>a, <1>1, PutKeepsDisk DEF Create, Update, RestartBrowser
<1>b. CASE Pause(s) \/ Resume(s)
  BY <1>b, <1>1, PutKeepsDisk DEF Pause, Resume, StopRefused
<1>c. CASE Destroy(s)
  <2>1. CASE reg' = reg \ {s} /\ RemoveTree(s)
    BY <2>1, <1>1 DEF RegistryMatchesDisk, RemoveTree
  <2> QED BY <1>c, <1>1, <2>1, PutKeepsDisk DEF Destroy, StopRefused
<1> QED
  BY <1>a, <1>b, <1>c DEF Operation

\* Every sandbox the server answers for survives a restart, and without a
\* failing rmtree the disk holds no sandbox the server does not answer for,
\* wherever create and destroy were cut off by a crash.
THEOREM RegistryOnDisk == Spec => []RegistryMatchesDisk
<1>1. Init => RegistryMatchesDisk
  BY DEF Init, LifecycleInit, RegistryMatchesDisk
<1>2. TypeOK /\ RegistryMatchesDisk /\ [Next]_vars => RegistryMatchesDisk'
  <2> SUFFICES ASSUME TypeOK, RegistryMatchesDisk, [Next]_vars
               PROVE  RegistryMatchesDisk'
    OBVIOUS
  <2>1. UNCHANGED <<up, reg, meta>> => RegistryMatchesDisk'
    BY DEF RegistryMatchesDisk
  <2>2. HostStep \/ UNCHANGED vars => UNCHANGED <<up, reg, meta>>
    BY DEF HostStep, vars, lifeVars
  <2>3. CASE ProcessStep
    <3>1. ~up' => RegistryMatchesDisk'
      BY DEF RegistryMatchesDisk
    <3>2. Crash \/ (\E s \in Sandbox : CrashInCreate(s) \/ CrashInDestroy(s)) => ~up'
      BY DEF Crash, CrashInCreate, CrashInDestroy, MemoryLost
    <3>3. HealthTick => RegistryMatchesDisk'
      BY DEF HealthTick, RegistryMatchesDisk
    <3>4. ASSUME NEW r \in Reader, ReaderStep(r)
          PROVE  RegistryMatchesDisk'
      <4>1. UNCHANGED up
        BY <3>4 DEF ReaderStep, ListBegins, GetLooksUp, EnrichNext, Enrich,
                    EnrichRest, lifeVars
      <4>2. up
        BY <3>4 DEF ReaderStep, ListBegins, GetLooksUp, EnrichNext
      <4>3. \A s : Enrich(s) => Put(s) \/ UNCHANGED <<reg, meta>>
        BY DEF Enrich, PutIf
      <4>4. UNCHANGED <<reg, meta>> \/ \E s \in Sandbox : Put(s)
        BY <3>4, <4>3 DEF ReaderStep, ListBegins, GetLooksUp, EnrichNext,
                          lifeVars, TypeOK, LifecycleTypeOK
      <4> QED BY <4>2, <4>4, <2>1, <4>1, PutKeepsDisk
    <3>5. Startup => RegistryMatchesDisk'
      BY DEF Startup, LoadFromDisk, RegistryMatchesDisk
    <3> QED BY <2>3, <3>1, <3>2, <3>3, <3>4, <3>5 DEF ProcessStep
  <2> QED
    BY <2>1, <2>2, <2>3, OperationKeepsDisk, WaiterKeepsDisk
    DEF Next, ServiceStep
<1> QED
  BY <1>1, <1>2, TypeCorrect, PTL DEF Spec

-----------------------------------------------------------------------------
(* Aliases.                                                                *)

\* A record that anything can reach is registered or was deleted: only a
\* deleted sandbox can come back past the alias check.
ReachedIsListed == \A s \in Sandbox : Known(s) => s \in reg \cup deleted

\* Nothing on disk is missing in a running server but what was deleted.
DiskIsListed == up => meta \ deleted \subseteq reg

\* No two sandboxes that were not deleted share an alias, in memory or on
\* disk, from where the next process takes them.
AliasesDiffer ==
  \A s, t \in (reg \cup meta) \ deleted :
    alias[s] = alias[t] => alias[s] = None \/ s = t

AliasInv == ReachedIsListed /\ DiskIsListed /\ AliasesDiffer

\* A step that lists no other sandbox and gives no alias.
LEMMA AliasesStill ==
  ASSUME AliasesDiffer, UNCHANGED alias,
         (reg' \cup meta') \ deleted' \subseteq (reg \cup meta) \ deleted
  PROVE  AliasesDiffer'
BY DEF AliasesDiffer

\* An operation lists its sandbox or counts it as deleted.
LEMMA OperationLists ==
  ASSUME TypeOK, NEW s \in Sandbox, Operation(s)
  PROVE  /\ up /\ up'
         /\ s \in reg' \cup deleted'
         /\ reg \ {s} \subseteq reg' /\ reg' \subseteq reg \cup {s}
         /\ meta' \subseteq meta \cup {s}
         /\ deleted \ {s} \subseteq deleted' /\ deleted' \subseteq deleted \cup {s}
         /\ s \in deleted' \/ s \in reg'
<1>a. CASE Create(s)
  BY <1>a DEF Create, Put
<1>b. CASE Update(s)
  BY <1>b DEF Update, Put
<1>c. CASE Pause(s)
  BY <1>c DEF Pause, Put, StopRefused
<1>d. CASE Destroy(s)
  BY <1>d DEF Destroy, Put, StopRefused, RemoveTree
<1>e. CASE Resume(s)
  BY <1>e DEF Resume, Put, StopRefused
<1>f. CASE RestartBrowser(s)
  BY <1>f DEF RestartBrowser, Put
<1> QED
  BY <1>a, <1>b, <1>c, <1>d, <1>e, <1>f DEF Operation

\* An operation gives an alias only after it looked at all others.
LEMMA OperationAliases ==
  ASSUME TypeOK, AliasInv, NEW s \in Sandbox, Operation(s)
  PROVE  AliasesDiffer'
<1>1. up /\ meta \ deleted \subseteq reg
  BY OperationLists DEF AliasInv, DiskIsListed
<1>2. ASSUME NEW a \in Alias \cup {None}, AliasFree(s, a),
             alias' = [alias EXCEPT ![s] = a],
             deleted \ {s} \subseteq deleted'
      PROVE  AliasesDiffer'
  <2>1. \A t \in (reg' \cup meta') \ deleted' :
          t # s => t \in reg \ deleted /\ alias'[t] = alias[t]
    BY <1>1, <1>2, OperationLists DEF TypeOK, LifecycleTypeOK
  <2>2. alias'[s] = a
    BY <1>2 DEF TypeOK, LifecycleTypeOK
  <2>3. \A t \in reg \ {s} : a = None \/ alias[t] # a
    BY <1>2 DEF AliasFree
  <2> QED BY <2>1, <2>2, <2>3 DEF AliasInv, AliasesDiffer
<1>3. CASE s \in reg /\ UNCHANGED alias /\ deleted \subseteq deleted'
  BY <1>1, <1>3, OperationLists, AliasesStill DEF AliasInv
<1>a. CASE Create(s)
  BY <1>a, <1>2, OperationLists DEF Create
<1>b. CASE Update(s)
  BY <1>b, <1>2, <1>3, OperationLists DEF Update
<1>c. CASE Pause(s)
  BY <1>c, <1>3 DEF Pause
<1>d. CASE Destroy(s)
  BY <1>d, <1>3 DEF Destroy
<1>e. CASE Resume(s)
  BY <1>e, <1>3 DEF Resume
<1>f. CASE RestartBrowser(s)
  BY <1>f, <1>3 DEF RestartBrowser
<1> QED
  BY <1>a, <1>b, <1>c, <1>d, <1>e, <1>f DEF Operation

\* Every step of the system keeps the aliases apart.
LEMMA NextAliases ==
  ASSUME TypeOK, AliasInv, [Next]_vars
  PROVE  AliasInv'
<1>1. CASE Observes
  <2>1. \A s \in Sandbox : s \in reg' => s \in reg \cup deleted
    BY <1>1 DEF Observes, AliasInv, ReachedIsListed
  <2>2. reg' \subseteq Sandbox /\ meta' \subseteq Sandbox
    BY NextType DEF TypeOK, LifecycleTypeOK
  <2>3. ReachedIsListed'
    BY <1>1 DEF Observes, AliasInv, ReachedIsListed
  <2>4. DiskIsListed'
    BY <1>1 DEF Observes, AliasInv, DiskIsListed
  <2>5. AliasesDiffer'
    BY <1>1, <2>1, <2>2, AliasesStill DEF Observes, AliasInv
  <2> QED BY <2>3, <2>4, <2>5 DEF AliasInv
<1>2. ASSUME NEW s \in Sandbox, Operation(s), UNCHANGED held
      PROVE  AliasInv'
  <2>1. \A t \in Sandbox \ {s} : Known(t)' => Known(t)
    BY <1>2, OperationElsewhere DEF Elsewhere
  <2>2. ReachedIsListed'
    BY <1>2, <2>1, OperationLists DEF AliasInv, ReachedIsListed
  <2>3. DiskIsListed'
    BY <1>2, OperationLists DEF AliasInv, DiskIsListed
  <2> QED BY <1>2, <2>2, <2>3, OperationAliases DEF AliasInv
<1>3. ASSUME MemoryLost, UNCHANGED <<alias, deleted>>, meta' \subseteq meta
      PROVE  AliasInv'
  <2>1. reg' = {} /\ ~up'
    BY <1>3 DEF MemoryLost
  <2>2. AliasesDiffer'
    BY <1>3, <2>1, AliasesStill DEF AliasInv
  <2> QED
    BY <1>3, <2>1, <2>2, StoppedKnowsNothing
    DEF AliasInv, ReachedIsListed, DiskIsListed
<1>4. CASE Startup
  <2>1. reg' = meta /\ UNCHANGED <<meta, alias, deleted>>
    BY <1>4 DEF Startup, LoadFromDisk
  <2>2. AliasesDiffer'
    BY <2>1, AliasesStill DEF AliasInv
  <2> QED
    BY <1>4, <2>1, <2>2, StartupReaches DEF AliasInv, ReachedIsListed, DiskIsListed
<1>5. CASE ProcessStep
  BY <1>1, <1>3, <1>4, <1>5, ReadObserves
  DEF ProcessStep, Crash, CrashInCreate, CrashInDestroy
<1>6. CASE HostStep \/ UNCHANGED vars
  <2>1. UNCHANGED <<lifeVars, held>>
    BY <1>6 DEF HostStep, vars
  <2> QED
    BY <2>1 DEF lifeVars, recordVars, waiterVars, AliasInv, ReachedIsListed,
                DiskIsListed, AliasesDiffer, Known, Target
<1> QED
  BY <1>1, <1>2, <1>5, <1>6, WaiterObserves DEF Next, ServiceStep

\* Two sandboxes that were not deleted never share an alias, across creates,
\* updates, late readers and waiters that put records back, and restarts that
\* load what a destroy left on disk.
THEOREM AliasesUnique == Spec => []AliasUnique
<1>1. Init => AliasInv
  BY DEF Init, LifecycleInit, AliasInv, ReachedIsListed, DiskIsListed,
         AliasesDiffer, Known
<1>2. TypeOK /\ AliasInv /\ [Next]_vars => AliasInv'
  BY NextAliases
<1>3. AliasInv => AliasUnique
  BY DEF AliasInv, AliasesDiffer, AliasUnique
<1> QED
  BY <1>1, <1>2, <1>3, TypeCorrect, PTL DEF Spec

-----------------------------------------------------------------------------
(* What is promised of a Cloak or Camoufox sandbox.                        *)

\* Nothing runs for a sandbox that left the registry, as long as its files or
\* some request could bring its record back.
GoneIsStopped ==
  /\ up \/ reg = {}
  /\ up => \A s \in Sandbox \ reg : Managed(s) /\ Reachable(s) => ~ctr[s].running

CustodyInv == LiveIsRecorded /\ RegistryMatchesDisk /\ GoneIsStopped

Gains(s) == s \notin profile /\ s \in profile'

\* What a step may do to one sandbox: who reaches it, whether something runs
\* for it, and its data.
Orderly(s) ==
  /\ ~Reachable(s) /\ Reachable(s)' => ~ctr[s].running /\ Gains(s)
  /\ Reachable(s) /\ ~Reachable(s)' => ~ctr'[s].running
  /\ ctr'[s].running /\ ~Reachable(s)' => ctr[s].running \/ Gains(s)
  /\ s \in profile \ profile' => Reachable(s) /\ ~ctr'[s].running
  /\ Gains(s) =>
       ~Reachable(s) /\ ~ctr[s].running /\ (Reachable(s)' \/ ctr'[s].running)

\* Whatever runs is held by whoever can reach its record, and by nobody else.
LEMMA PhaseByReach ==
  ASSUME TypeOK, CustodyInv, NEW s \in Sandbox, Managed(s)
  PROVE  Phase(s) =
           IF ctr[s].running THEN IF Reachable(s) THEN "running" ELSE "stray"
           ELSE IF Reachable(s) THEN "idle" ELSE "absent"
<1>1. CASE up
  BY <1>1 DEF CustodyInv, GoneIsStopped, RegistryMatchesDisk, LiveIsRecorded,
              Phase, InCustody, Reachable, Known
<1>2. CASE ~up
  <2>1. ~Known(s)
    BY <1>2 DEF CustodyInv, GoneIsStopped, TypeOK, LifecycleTypeOK, Known
  <2> QED BY <1>2, <2>1 DEF Phase, InCustody, Reachable
<1> QED BY <1>1, <1>2

\* An orderly step is one of the steps that are promised.
LEMMA OrderlyIsPromised ==
  ASSUME TypeOK, CustodyInv, TypeOK', CustodyInv',
         \A s \in ManagedSandbox : Orderly(s)
  PROVE  Custody!Next
<1>1. profile' \subseteq Sandbox
  BY DEF TypeOK, LifecycleTypeOK
<1>2. ASSUME NEW s \in ManagedSandbox
      PROVE  Custody!Step(s)
  <2> DEFINE phase == [t \in ManagedSandbox |-> Phase(t)]
             kept == profile \cap ManagedSandbox
  <2>1. s \in Sandbox /\ Managed(s)
    BY DEF ManagedSandbox
  <2>2. Phase(s) =
          IF ctr[s].running THEN IF Reachable(s) THEN "running" ELSE "stray"
          ELSE IF Reachable(s) THEN "idle" ELSE "absent"
    BY <2>1, PhaseByReach
  <2>3. (Phase(s) =
          IF ctr[s].running THEN IF Reachable(s) THEN "running" ELSE "stray"
          ELSE IF Reachable(s) THEN "idle" ELSE "absent")'
    <3>1. CASE up'
      BY <2>1, <3>1 DEF CustodyInv, GoneIsStopped, RegistryMatchesDisk,
            LiveIsRecorded, Phase, InCustody, Reachable, Known, Managed
    <3>2. CASE ~up'
      <4>1. ~Known(s)'
        BY <2>1, <3>2 DEF CustodyInv, GoneIsStopped, TypeOK, LifecycleTypeOK, Known
      <4> QED BY <3>2, <4>1 DEF Phase, InCustody, Reachable
    <3> QED BY <3>1, <3>2
  <2>4. phase[s] = Phase(s) /\ phase'[s] = Phase(s)'
    BY DEF ManagedSandbox, Managed
  <2>5. (s \in kept <=> s \in profile) /\ (s \in kept' <=> s \in profile')
    BY DEF ManagedSandbox, Managed
  <2> HIDE DEF phase, kept
  <2>6. Orderly(s)
    OBVIOUS
  <2> QED
    BY <2>2, <2>3, <2>4, <2>5, <2>6
    DEF phase, kept, Orderly, Gains, Custody!Step, Custody!Create, Custody!Stray, Custody!Start,
        Custody!Stop, Custody!Delete, Custody!Forget, Custody!Stay,
        Custody!Moves, Custody!GetsData, Custody!KeepsData
<1> QED
  BY <1>1, <1>2 DEF Custody!Next, ManagedSandbox, Managed

\* An operation leaves the files of other sandboxes alone.
LEMMA OperationFiles ==
  ASSUME NEW s \in Sandbox, Operation(s), NEW t \in Sandbox \ {s}
  PROVE  /\ t \in meta <=> t \in meta'
         /\ t \in profile <=> t \in profile'
<1>a. CASE Create(s)
  BY <1>a DEF Create, Put
<1>b. CASE Update(s)
  BY <1>b DEF Update, Put
<1>c. CASE Pause(s)
  BY <1>c DEF Pause, Put, StopRefused
<1>d. CASE Destroy(s)
  BY <1>d DEF Destroy, Put, StopRefused, RemoveTree
<1>e. CASE Resume(s)
  BY <1>e DEF Resume, Put, StopRefused
<1>f. CASE RestartBrowser(s)
  BY <1>f DEF RestartBrowser, Put
<1> QED
  BY <1>a, <1>b, <1>c, <1>d, <1>e, <1>f DEF Operation

\* A step that loses a profile is about a sandbox of the registry and leaves
\* nothing running for it.
LEMMA LosesInOrder ==
  ASSUME TypeOK, LiveIsRecorded, [Next]_vars,
         NEW s \in profile \ profile', Managed(s)
  PROVE  s \in reg /\ ~ctr'[s].running
<1>1. s \in Sandbox /\ s \in reg
  BY OnlyDestroyDeletes DEF TypeOK, LifecycleTypeOK
<1>2. PICK d \in Container :
        RemoveRuntime(s, "done", d) /\ ctr' = [ctr EXCEPT ![s] = d]
  BY OnlyDestroyDeletes
<1>3. ~d.running
  BY <1>1, <1>2, RemovalStops DEF LiveIsRecorded, Known
<1> QED BY <1>1, <1>2, <1>3 DEF TypeOK, DockerTypeOK

\* An operation, about its own sandbox and about another.
LEMMA OperationOrderly ==
  ASSUME TypeOK, CustodyInv, [Next]_vars,
         NEW t \in Sandbox, t \in reg \/ NotHeld(t), Operation(t), UNCHANGED held,
         NEW s \in Sandbox, Managed(s)
  PROVE  /\ Orderly(s)
         /\ s \notin reg' /\ Reachable(s)' => ~ctr'[s].running
<1>1. up
  BY OperationLists
<1>2. s \in profile \ profile' => s \in reg /\ ~ctr'[s].running
  BY LosesInOrder DEF CustodyInv
<1>3. s \notin reg /\ Reachable(s) => ~ctr[s].running
  BY <1>1 DEF CustodyInv, GoneIsStopped
<1>4. CASE s # t
  <2>1. Elsewhere(s)
    BY <1>4, OperationElsewhere
  <2>2. (s \in meta <=> s \in meta') /\ (s \in profile <=> s \in profile')
    BY <1>4, OperationFiles
  <2>3. Reachable(s)' => Reachable(s)
    BY <2>1, <2>2 DEF Elsewhere, Reachable
  <2>4. s \in reg => Reachable(s)'
    BY <2>1 DEF Elsewhere, Reachable, Known
  <2> QED
    BY <1>3, <2>1, <2>2, <2>3, <2>4 DEF Elsewhere, Orderly, Gains
<1>5. CASE s = t /\ Create(s)
  <2>1. ~Reachable(s) /\ ~ctr[s].running /\ Gains(s)
    BY <1>5 DEF Create, Unused, NotHeld, Reachable, Known, Gains, NoContainer
  <2>2. s \in reg'
    BY <1>5 DEF Create, Put
  <2> QED BY <2>1, <2>2 DEF Orderly, Reachable, Known, Gains
<1>6. CASE s = t /\ ~Create(s)
  <2>1. s \in reg /\ profile' \subseteq profile
    BY <1>6 DEF Operation, Create, Update, Pause, Destroy, Resume,
                RestartBrowser, RemoveTree
  <2>2. s \notin reg' => ~ctr'[s].running
    <3>1. Removes(s) => ~ctr'[s].running
      BY <2>1, RemovalStops DEF Removes, CustodyInv, LiveIsRecorded, Known
    <3> QED
      BY <1>6, <3>1, OperationOutcome DEF Untouched, Refuses, RunsAnew, Runs
  <2>3. Reachable(s) /\ (s \in reg' => Reachable(s)')
    BY <2>1 DEF Reachable, Known
  <2> QED BY <1>2, <2>1, <2>2, <2>3 DEF Orderly, Gains
<1> QED BY <1>4, <1>5, <1>6

\* When the process stops, only what is on disk can still be reached; nothing
\* runs for the rest.
LEMMA CrashOrderly ==
  ASSUME TypeOK, CustodyInv, up, MemoryLost, NEW s \in Sandbox, Managed(s),
         UNCHANGED <<ctr[s], s \in meta, s \in profile>>
  PROVE  Orderly(s)
<1>1. Reachable(s)' <=> s \in meta
  BY StoppedKnowsNothing DEF Reachable
<1>2. s \in reg => s \in meta
  BY DEF CustodyInv, RegistryMatchesDisk
<1>3. Reachable(s) /\ ~Reachable(s)' => ~ctr[s].running
  BY <1>1, <1>2 DEF CustodyInv, GoneIsStopped
<1> QED BY <1>1, <1>3 DEF Orderly, Gains, Reachable

\* Crashes and restarts of the process.
LEMMA ProcessOrderly ==
  ASSUME TypeOK, CustodyInv, [Next]_vars, NEW s \in Sandbox, Managed(s),
         \/ Crash
         \/ \E t \in Sandbox : CrashInCreate(t) /\ NotHeld(t)
         \/ \E t \in Sandbox : CrashInDestroy(t)
         \/ Startup
  PROVE  Orderly(s)
<1>1. CASE Crash
  BY <1>1, CrashOrderly DEF Crash, dockerVars
<1>2. ASSUME NEW t \in Sandbox, CrashInCreate(t), NotHeld(t)
      PROVE  Orderly(s)
  <2>1. up /\ MemoryLost /\ UNCHANGED meta /\ profile' = profile \cup {t}
    BY <1>2 DEF CrashInCreate
  <2>2. CASE s = t
    <3>1. ~Reachable(s) /\ ~ctr[s].running /\ s \notin profile
      BY <1>2, <2>2 DEF CrashInCreate, Unused, NotHeld, Reachable, Known, NoContainer
    <3>2. ctr'[s].running
      <4>1. PICK id \in CtrId, d \in Container :
              /\ CreateContainer(NoContainer, None, id, d)
              /\ ctr' = [ctr EXCEPT ![s] = d]
        BY <1>2, <2>2 DEF CrashInCreate
      <4>2. d.running
        BY <4>1, DockerAssumption DEF CreateContainer
      <4> QED BY <4>1, <4>2 DEF TypeOK, DockerTypeOK
    <3>3. ~Reachable(s)'
      BY <2>1, <3>1, StoppedKnowsNothing DEF Reachable
    <3> QED BY <2>1, <2>2, <3>1, <3>2, <3>3 DEF Orderly, Gains
  <2>3. CASE s # t
    <3>1. ctr'[s] = ctr[s]
      BY <1>2, <2>3 DEF CrashInCreate, TypeOK, DockerTypeOK
    <3> QED BY <2>1, <2>3, <3>1, CrashOrderly
  <2> QED BY <2>2, <2>3
<1>3. ASSUME NEW t \in Sandbox, CrashInDestroy(t)
      PROVE  Orderly(s)
  <2>1. PICK d \in Container :
          RemoveRuntime(t, "done", d) /\ ctr' = [ctr EXCEPT ![t] = d]
    BY <1>3 DEF CrashInDestroy
  <2>2. /\ up /\ MemoryLost /\ t \in reg
        /\ meta' \in {meta, meta \ {t}} /\ profile' \in {profile, profile \ {t}}
    BY <1>3 DEF CrashInDestroy
  <2>3. CASE s = t
    <3>1. Reachable(s)
      BY <2>2, <2>3 DEF Reachable, Known
    <3>2. ~ctr'[s].running
      <4>1. ~d.running
        BY <2>1, <2>2, <2>3, RemovalStops DEF CustodyInv, LiveIsRecorded, Known
      <4> QED BY <2>1, <2>3, <4>1 DEF TypeOK, DockerTypeOK
    <3> QED BY <2>2, <3>1, <3>2 DEF Orderly, Gains
  <2>4. CASE s # t
    <3>1. ctr'[s] = ctr[s]
      BY <2>1, <2>4 DEF TypeOK, DockerTypeOK
    <3> QED BY <2>2, <2>4, <3>1, CrashOrderly
  <2> QED BY <2>3, <2>4
<1>4. CASE Startup
  <2>1. UNCHANGED <<meta, profile>> /\ ~up
    BY <1>4 DEF Startup, LoadFromDisk
  <2>2. ~Known(s)
    BY <2>1 DEF CustodyInv, GoneIsStopped, TypeOK, LifecycleTypeOK, Known
  <2>3. Reachable(s) <=> Reachable(s)'
    BY <1>4, <2>1, <2>2, StartupReaches DEF Reachable
  <2>4. ctr'[s].running => ctr[s].running
    BY <1>4 DEF Startup, NoContainer
  <2> QED BY <2>1, <2>3, <2>4 DEF Orderly, Gains
<1> QED BY <1>1, <1>2, <1>3, <1>4

\* Every step deals with every sandbox in order.
LEMMA NextOrderly ==
  ASSUME TypeOK, CustodyInv, [Next]_vars, NEW s \in Sandbox, Managed(s)
  PROVE  /\ Orderly(s)
         /\ up' /\ s \notin reg' /\ Reachable(s)' => ~ctr'[s].running
<1>1. CASE Observes
  <2>1. UNCHANGED <<ctr, profile>> /\ up
    BY <1>1 DEF Observes
  <2>2. Reachable(s)' => Reachable(s)
    BY <1>1 DEF Observes, Reachable, Known
  <2>3. s \in reg => s \in reg' /\ Reachable(s)'
    BY <1>1 DEF Observes, Reachable, Known
  <2>4. s \notin reg /\ Reachable(s) => ~ctr[s].running
    BY <2>1 DEF CustodyInv, GoneIsStopped
  <2> QED BY <2>1, <2>2, <2>3, <2>4 DEF Orderly, Gains
<1>2. CASE ServiceStep
  BY <1>1, <1>2, WaiterObserves, OperationOrderly DEF ServiceStep
<1>3. CASE ProcessStep
  <2>1. CASE HealthTick \/ \E r \in Reader : ReaderStep(r)
    BY <1>1, <2>1, ReadObserves
  <2>2. CASE \/ Crash \/ Startup
             \/ \E t \in Sandbox : CrashInCreate(t) /\ NotHeld(t)
             \/ \E t \in Sandbox : CrashInDestroy(t)
    <3>1. Orderly(s)
      BY <2>2, ProcessOrderly
    <3>2. Startup => (Reachable(s)' => s \in reg')
      BY StartupReaches DEF Reachable, Startup, LoadFromDisk
    <3>3. ~Startup => ~up'
      BY <2>2 DEF Crash, CrashInCreate, CrashInDestroy, MemoryLost
    <3> QED BY <3>1, <3>2, <3>3
  <2> QED BY <1>3, <2>1, <2>2 DEF ProcessStep
<1>4. CASE HostStep \/ UNCHANGED vars
  <2>1. UNCHANGED <<lifeVars, held>>
    BY <1>4 DEF HostStep, vars
  <2>2. ctr'[s].running => ctr[s].running
    BY <1>4, HostOnlyStops DEF vars, dockerVars, NoContainer
  <2>3. Reachable(s)' <=> Reachable(s)
    BY <2>1 DEF lifeVars, waiterVars, Reachable, Known, Target
  <2>4. up /\ s \notin reg /\ Reachable(s) => ~ctr[s].running
    BY DEF CustodyInv, GoneIsStopped
  <2> QED BY <2>1, <2>2, <2>3, <2>4 DEF lifeVars, Orderly, Gains
<1> QED BY <1>2, <1>3, <1>4 DEF Next

\* A process that does not run has an empty registry.
LEMMA NextLists ==
  ASSUME TypeOK, up \/ reg = {}, [Next]_vars
  PROVE  up' \/ reg' = {}
<1>1. CASE MemoryLost
  BY <1>1 DEF MemoryLost
<1>2. CASE ~MemoryLost
  <2>1. Observes => up'
    BY DEF Observes
  <2>2. \A s \in Sandbox : Operation(s) => up'
    BY OperationLists
  <2>3. HostStep \/ UNCHANGED vars => UNCHANGED <<up, reg>>
    BY DEF HostStep, vars, lifeVars
  <2>4. Startup => up'
    BY DEF Startup
  <2> QED
    BY <1>2, <2>1, <2>2, <2>3, <2>4, WaiterObserves, ReadObserves
    DEF Next, ServiceStep, ProcessStep, Crash, CrashInCreate, CrashInDestroy
<1> QED BY <1>1, <1>2

\* Every step leaves nothing running for what left the registry.
LEMMA NextStopsGone ==
  ASSUME TypeOK, CustodyInv, [Next]_vars
  PROVE  GoneIsStopped'
<1>1. \A s \in Sandbox \ reg' :
        up' /\ Managed(s)' /\ Reachable(s)' => ~ctr'[s].running
  BY NextOrderly DEF Managed
<1>2. up' \/ reg' = {}
  BY NextLists DEF CustodyInv, GoneIsStopped
<1> QED BY <1>1, <1>2 DEF GoneIsStopped

\* Nothing runs for a sandbox that a DELETE took out of the registry, while
\* its files or an unfinished request could bring its record back.
LEMMA GoneStaysStopped ==
  ASSUME "list" \notin Faults
  PROVE  Spec => []CustodyInv
<1>1. Init => GoneIsStopped
  BY DEF Init, DockerInit, LifecycleInit, NoContainer, GoneIsStopped
<1>2. /\ TypeOK /\ LiveIsRecorded /\ RegistryMatchesDisk /\ GoneIsStopped
      /\ [Next]_vars
      => GoneIsStopped'
  BY NextStopsGone DEF CustodyInv
<1>3. LiveIsRecorded /\ RegistryMatchesDisk /\ GoneIsStopped => CustodyInv
  BY DEF CustodyInv
<1> QED
  BY <1>1, <1>2, <1>3, TypeCorrect, RuntimeRecorded, RegistryOnDisk, PTL DEF Spec

\* The server keeps what SandboxCustody promises of every Cloak and Camoufox
\* sandbox, through crashes, restarts, late requests and commands that fail
\* halfway, if the containers can be listed at startup.
THEOREM ServerKeepsCustody ==
  ASSUME "list" \notin Faults
  PROVE  Spec => KeepsCustody
<1>1. Init => Custody!Init
  <2> SUFFICES ASSUME Init
               PROVE  Custody!Init
    OBVIOUS
  <2>1. \A s \in ManagedSandbox : Phase(s) = "absent"
    BY DEF Init, DockerInit, LifecycleInit, NoContainer, ManagedSandbox, Phase,
           Reachable, Known
  <2> QED BY <2>1 DEF Init, LifecycleInit, Custody!Init
<1>2. TypeOK /\ CustodyInv /\ TypeOK' /\ CustodyInv' /\ [Next]_vars
      => [Custody!Next]_(Custody!vars)
  <2> SUFFICES ASSUME TypeOK, CustodyInv, TypeOK', CustodyInv', [Next]_vars
               PROVE  Custody!Next
    OBVIOUS
  <2>1. \A s \in ManagedSandbox : Orderly(s)
    BY NextOrderly DEF ManagedSandbox
  <2> QED BY <2>1, OrderlyIsPromised
<1> QED
  BY <1>1, <1>2, TypeCorrect, GoneStaysStopped, PTL
  DEF Spec, KeepsCustody, Custody!Spec

\* No step reaches a record that nothing could reach, but a create.
LEMMA NextReaches ==
  ASSUME TypeOK, [Next]_vars, NEW s \in Sandbox, Reachable(s)', ~Reachable(s)
  PROVE  Create(s)
<1>1. Observes => Reachable(s)
  BY DEF Observes, Reachable, Known
<1>2. MemoryLost => s \in meta'
  BY StoppedKnowsNothing DEF Reachable
<1>3. CASE ServiceStep
  <2>1. ASSUME NEW t \in Sandbox, t \in reg \/ NotHeld(t), Operation(t), UNCHANGED held
        PROVE  Create(s)
    <3>1. CASE t # s
      BY <2>1, <3>1, OperationElsewhere, OperationFiles DEF Elsewhere, Reachable
    <3>2. CASE t = s
      BY <2>1, <3>2 DEF Operation, Update, Pause, Destroy, Resume, RestartBrowser,
                        Reachable, Known
    <3> QED BY <3>1, <3>2
  <2> QED BY <1>1, <1>3, <2>1, WaiterObserves DEF ServiceStep
<1>4. CASE ProcessStep
  <2>1. CrashInDestroy(s) \/ Crash \/ (\E t \in Sandbox : CrashInCreate(t))
        => MemoryLost /\ meta' \subseteq meta
    BY DEF Crash, CrashInCreate, CrashInDestroy
  <2>2. \A t \in Sandbox : CrashInDestroy(t) => MemoryLost /\ meta' \subseteq meta
    BY DEF CrashInDestroy
  <2>3. Startup => UNCHANGED meta
    BY DEF Startup, LoadFromDisk
  <2>4. Startup => Reachable(s)
    BY <2>3, StartupReaches DEF Reachable
  <2> QED
    BY <1>1, <1>2, <1>4, <2>1, <2>2, <2>4, ReadObserves DEF ProcessStep, Reachable
<1>5. CASE HostStep \/ UNCHANGED vars
  BY <1>5 DEF HostStep, vars, lifeVars, waiterVars, Reachable, Known, Target
<1> QED BY <1>3, <1>4, <1>5 DEF Next

\* Of every engine and under every fault: a deleted sandbox comes back only
\* through its meta.json or a request that had looked it up before.
THEOREM DeletionsAreFinal == Spec => DeletedForGood
<1>1. TypeOK /\ [Next]_vars
      => [\A s \in Sandbox : Reachable(s)' => Reachable(s) \/ Create(s)]_vars
  BY NextReaches
<1> QED BY <1>1, TypeCorrect, PTL DEF Spec, DeletedForGood

-----------------------------------------------------------------------------
(* Who decides about a record, and who may not.                            *)

\* An operation decides about its own sandbox only, and stops nobody who waits
\* for another.
LEMMA OperationDecides ==
  ASSUME TypeOK, NEW s \in Sandbox, Operation(s), NEW t \in Sandbox \ {s}
  PROVE  /\ status'[t] = status[t] /\ pc'[t] = pc[t]
         /\ \A w \in Waiter : pc[w] # "idle" /\ Target(w) = t =>
                                pc'[w] = pc[w] /\ Target(w)' = t
<1> USE LifecycleAssumption DEF TypeOK, LifecycleTypeOK, Waiter, Target
<1> DEFINE Stays == /\ pc'[t] = pc[t]
                    /\ \A w \in Waiter : pc[w] # "idle" /\ Target(w) = t =>
                                           pc'[w] = pc[w] /\ Target(w)' = t
<1> SUFFICES Stays /\ status'[t] = status[t]
  OBVIOUS
<1>1. \A st : SetStatus(s, st) => status'[t] = status[t]
  BY DEF SetStatus
<1>2. UNCHANGED status => status'[t] = status[t]
  OBVIOUS
<1>3. UNCHANGED waiterVars => Stays
  BY DEF waiterVars
<1>4. CancelProbe(s) => Stays
  BY DEF CancelProbe
<1>5. ASSUME NEW isCreate, Awaits(s, isCreate)
      PROVE  Stays /\ status'[t] = status[t]
  <2>1. PICK w \in Call, next \in {"version", "idle"}, out \in Status :
          /\ pc[w] = "idle"
          /\ SetStatus(s, out)
          /\ IF next = "idle" THEN UNCHANGED waiterVars
             ELSE /\ pc' = [pc EXCEPT ![w] = next]
                  /\ on' = [on EXCEPT ![w] = s]
    BY <1>5 DEF Awaits
  <2>2. CASE next = "idle"
    BY <2>1, <2>2, <1>1, <1>3
  <2>3. CASE next # "idle"
    BY <2>1, <2>3, <1>1
  <2> QED BY <2>2, <2>3
<1>6. ASSUME NEW id, NEW lost, NEW isCreate, RunAnswered(s, id, lost, isCreate)
      PROVE  Stays /\ status'[t] = status[t]
  <2>1. CASE SetStatus(s, "FAILED") /\ UNCHANGED waiterVars
    BY <2>1, <1>1, <1>3
  <2>2. CASE SetStatus(s, "STARTING") /\ pc' = [pc EXCEPT ![s] = "new"]
             /\ UNCHANGED <<on, creating>>
    BY <2>2, <1>1
  <2>3. CASE Awaits(s, isCreate)
    BY <2>3, <1>5
  <2> QED BY <1>6, <2>1, <2>2, <2>3 DEF RunAnswered
<1> HIDE DEF Stays
<1>a. CASE Create(s)
  BY <1>a, <1>6 DEF Create
<1>b. CASE Update(s)
  BY <1>b, <1>1, <1>3 DEF Update
<1>c. CASE Pause(s)
  BY <1>c, <1>1, <1>2, <1>4 DEF Pause, StopRefused
<1>d. CASE Destroy(s)
  BY <1>d, <1>1, <1>2, <1>4 DEF Destroy, StopRefused
<1>e. CASE Resume(s)
  BY <1>e, <1>1, <1>2, <1>3, <1>6 DEF Resume, StopRefused
<1>f. CASE RestartBrowser(s)
  BY <1>f, <1>1, <1>2, <1>3, <1>5, <1>6 DEF RestartBrowser, RestartInPlace, Recreate
<1> QED
  BY <1>a, <1>b, <1>c, <1>d, <1>e, <1>f DEF Operation

\* A slice of a waiter decides about the sandbox it waits for, or goes on
\* waiting, or ends because the sandbox is gone, it gave up before, or raised.
LEMMA WaiterDecides ==
  ASSUME TypeOK, NEW w \in Waiter, WaiterStep(w)
  PROVE  /\ pc[w] # "idle"
         /\ \A v \in Waiter \ {w} : pc'[v] = pc[v] /\ Target(v)' = Target(v)
         /\ \A t \in Sandbox \ {Target(w)} : status'[t] = status[t]
         /\ status'[Target(w)] \in {status[Target(w)], "RUNNING", "DEGRADED"}
         /\ \/ status'[Target(w)] \in {"RUNNING", "DEGRADED"}
            \/ /\ pc'[w] \in {"version", "session", "sleep"}
               /\ Target(w)' = Target(w)
               /\ pc[w] # "final"
            \/ Target(w) \notin reg
            \/ pc[w] = "final"
            \/ "probe" \in Faults
<1> USE LifecycleAssumption DEF TypeOK, LifecycleTypeOK, Waiter, Target
<1> DEFINE s == Target(w)
<1>0. pc[w] # "idle"
  BY DEF WaiterStep, PollAgain, VersionAnswered, SessionAnswered,
         DeadlinePasses, TimeoutRecorded, ProbeRaises
<1>1. s \in Sandbox
  BY <1>0, TargetType
<1> DEFINE Others == /\ \A v \in Waiter \ {w} : pc'[v] = pc[v] /\ Target(v)' = Target(v)
                     /\ \A t \in Sandbox \ {s} : status'[t] = status[t]
<1>2. ASSUME NEW where, SuspendAt(w, where)
      PROVE  /\ \A v \in Waiter \ {w} : pc'[v] = pc[v] /\ Target(v)' = Target(v)
             /\ pc'[w] = where /\ Target(w)' = Target(w)
  BY <1>2 DEF SuspendAt
<1>3. Release(w) => \A v \in Waiter \ {w} : pc'[v] = pc[v] /\ Target(v)' = Target(v)
  BY DEF Release
<1>4. ASSUME NEW st \in Status, NEW put, Finish(w, s, st, put)
      PROVE  Others /\ status'[s] \in {st, "DEGRADED"}
  <2>1. PICK out \in Status : (out \in {st, "DEGRADED"}) /\ SetStatus(s, out) /\ Release(w)
    BY <1>4 DEF Finish, CheckHealth
  <2> QED BY <2>1, <1>1, <1>3 DEF SetStatus
<1>5. ASSUME NEW st, SetStatus(s, st)
      PROVE  /\ \A t \in Sandbox \ {s} : status'[t] = status[t]
             /\ status'[s] = st
  BY <1>5, <1>1 DEF SetStatus
<1>6. status[s] \in Status /\ {"RUNNING", "DEGRADED"} \subseteq Status
  BY <1>1 DEF Status
<1>a. CASE PollAgain(w)
  <2>1. CASE s \notin reg
    BY <1>a, <2>1, <1>0, <1>4, <1>6 DEF PollAgain
  <2>2. CASE s \in reg
    <3>1. PICK next \in {"version", "idle"}, out \in Status :
            /\ PollBegins(s, ContainerExists(s, cid[s]), status[s], next, out)
            /\ IF next = "idle" THEN Finish(w, s, out, TRUE)
               ELSE SuspendAt(w, next) /\ UNCHANGED <<status, reg, meta>>
      BY <1>a, <2>2 DEF PollAgain
    <3>2. CASE next = "idle"
      <4>1. out = "DEGRADED"
        BY <3>1, <3>2 DEF PollBegins
      <4> QED BY <1>0, <3>1, <3>2, <4>1, <1>4
    <3>3. CASE next = "version"
      BY <1>a, <1>0, <3>1, <3>3, <1>2 DEF PollAgain
    <3> QED BY <3>2, <3>3
  <2> QED BY <2>1, <2>2
<1>b. CASE VersionAnswered(w)
  BY <1>b, <1>0, <1>2 DEF VersionAnswered
<1>c. CASE SessionAnswered(w)
  BY <1>c, <1>0, <1>2, <1>4, <1>6 DEF SessionAnswered
<1>d. CASE DeadlinePasses(w)
  BY <1>d, <1>0, <1>2, <1>4, <1>5, <1>6 DEF DeadlinePasses
<1>e. CASE TimeoutRecorded(w)
  BY <1>e, <1>0, <1>4, <1>6 DEF TimeoutRecorded
<1>f. CASE ProbeRaises(w)
  <2>1. "probe" \in Faults /\ Release(w)
    BY <1>f DEF ProbeRaises
  <2>2. UNCHANGED status \/ SetStatus(s, "DEGRADED")
    BY <1>f DEF ProbeRaises
  <2> QED BY <1>0, <2>1, <2>2, <1>3, <1>5
<1> QED
  BY <1>a, <1>b, <1>c, <1>d, <1>e, <1>f DEF WaiterStep

\* Enriching a response changes a status to DEGRADED only, and never one that
\* reads STOPPED.
LEMMA EnrichDecides ==
  ASSUME TypeOK, NEW s \in Sandbox, NEW t \in Sandbox, Enrich(s)
  PROVE  /\ UNCHANGED waiterVars
         /\ status'[t] \in {status[t], "DEGRADED"}
         /\ status[t] # "RUNNING" => status'[t] = status[t]
BY DEF TypeOK, LifecycleTypeOK, Enrich, EnrichRest, CheckHealth, SetStatus

\* A reader enriches one record at a time.
LEMMA ReaderDecides ==
  ASSUME TypeOK, NEW r \in Reader, ReaderStep(r), NEW t \in Sandbox
  PROVE  /\ UNCHANGED waiterVars
         /\ status'[t] \in {status[t], "DEGRADED"}
         /\ status[t] # "RUNNING" => status'[t] = status[t]
<1>1. CASE GetLooksUp(r)
  BY <1>1 DEF GetLooksUp, lifeVars, recordVars
<1>2. CASE ListBegins(r) \/ EnrichNext(r)
  <2>1. PICK s \in Sandbox : Enrich(s)
    BY <1>2 DEF ListBegins, EnrichNext, TypeOK, LifecycleTypeOK
  <2> QED BY <2>1, EnrichDecides
<1> QED BY <1>1, <1>2 DEF ReaderStep

\* No background probe runs for a sandbox that reads STOPPED: pause cancels it
\* before it writes the status, and a new probe comes with STARTING.
PausedInv ==
  /\ up \/ reg = {}
  /\ \A s \in Sandbox : status[s] = "STOPPED" => pc[s] = "idle"

\* An operation that leaves its sandbox STOPPED leaves it without a probe.
LEMMA OperationPauses ==
  ASSUME TypeOK, PausedInv, NEW s \in Sandbox, Operation(s), status'[s] = "STOPPED"
  PROVE  pc'[s] = "idle"
<1> USE DEF TypeOK, LifecycleTypeOK, Waiter
<1>1. \A st : SetStatus(s, st) => st = "STOPPED"
  BY DEF SetStatus
<1>2. UNCHANGED <<status, waiterVars>> => pc'[s] = "idle"
  BY DEF PausedInv, waiterVars
<1>3. CancelProbe(s) => pc'[s] = "idle"
  BY DEF CancelProbe
<1>4. ~StopRefused(s)
  BY <1>1 DEF StopRefused
<1>5. \A isCreate : ~Awaits(s, isCreate)
  BY <1>1 DEF Awaits, PollBegins
<1>6. \A id, lost, isCreate : ~RunAnswered(s, id, lost, isCreate)
  BY <1>1, <1>5 DEF RunAnswered
<1>a. CASE Create(s)
  BY <1>a, <1>6 DEF Create
<1>b. CASE Update(s)
  <2>1. PICK out \in Status : CheckHealth(s, status[s], out) /\ SetStatus(s, out)
    BY <1>b DEF Update
  <2>2. status[s] = "STOPPED" /\ UNCHANGED waiterVars
    BY <1>b, <2>1, <1>1 DEF CheckHealth, Update
  <2> QED BY <2>2 DEF PausedInv, waiterVars
<1>c. CASE Pause(s) \/ Destroy(s)
  BY <1>c, <1>3 DEF Pause, Destroy
<1>d. CASE Resume(s)
  BY <1>d, <1>2, <1>4, <1>6 DEF Resume
<1>e. CASE RestartBrowser(s)
  BY <1>e, <1>1, <1>5, <1>6 DEF RestartBrowser, RestartInPlace, Recreate
<1> QED
  BY <1>a, <1>b, <1>c, <1>d, <1>e DEF Operation

\* A waiter stops probing when it gives up, and never writes STOPPED.
LEMMA WaiterPauses ==
  ASSUME TypeOK, PausedInv, NEW w \in Waiter, WaiterStep(w), NEW s \in Sandbox,
         status'[s] = "STOPPED"
  PROVE  pc'[s] = "idle"
<1>1. status[s] = "STOPPED"
  BY WaiterDecides
<1>2. s # w
  BY <1>1, WaiterDecides DEF PausedInv
<1> QED
  BY <1>1, <1>2, WaiterDecides DEF PausedInv, Waiter

\* Every step keeps the probes of paused sandboxes cancelled.
LEMMA NextPauses ==
  ASSUME TypeOK, PausedInv, [Next]_vars
  PROVE  PausedInv'
<1> SUFFICES ASSUME NEW s \in Sandbox, status'[s] = "STOPPED"
             PROVE  pc'[s] = "idle"
  BY NextLists DEF PausedInv
<1>1. UNCHANGED pc /\ status[s] = "STOPPED" => pc'[s] = "idle"
  BY DEF PausedInv
<1>2. CASE ServiceStep
  <2>1. ASSUME NEW t \in Sandbox, Operation(t), t # s
        PROVE  pc'[s] = "idle"
    BY <2>1, OperationDecides DEF PausedInv
  <2> QED BY <1>2, <2>1, OperationPauses, WaiterPauses DEF ServiceStep
<1>3. CASE ProcessStep
  <2>1. MemoryLost => pc'[s] = "idle"
    BY DEF MemoryLost, Waiter
  <2>2. CASE HealthTick
    BY <2>2, <1>1 DEF HealthTick, waiterVars
  <2>3. ASSUME NEW r \in Reader, ReaderStep(r)
        PROVE  pc'[s] = "idle"
    BY <2>3, <1>1, ReaderDecides DEF waiterVars
  <2>4. CASE Startup
    BY <2>4 DEF Startup, ProbedAtStartup, Waiter
  <2> QED
    BY <1>3, <2>1, <2>2, <2>3, <2>4
    DEF ProcessStep, Crash, CrashInCreate, CrashInDestroy
<1>4. CASE HostStep \/ UNCHANGED vars
  BY <1>4, <1>1 DEF HostStep, vars, lifeVars, recordVars, waiterVars
<1> QED BY <1>2, <1>3, <1>4 DEF Next

\* A pause or delete of a paused sandbox finds no container to stop, so it
\* cannot be refused.
LEMMA OperationKeepsPaused ==
  ASSUME TypeOK, StatusMatchesContainer, NEW s \in Sandbox, Operation(s),
         s \in reg, s \in reg', status[s] = "STOPPED"
  PROVE  status'[s] = "STOPPED" \/ Resume(s) \/ RestartBrowser(s)
<1>1. cid[s] = None
  BY DEF StatusMatchesContainer
<1>2. \A d : ~RemoveRuntime(s, "refused", d)
  BY <1>1 DEF RemoveRuntime, ContainerExists
<1>3. ~Create(s)
  BY DEF Create, Unused
<1>4. CASE Update(s)
  BY <1>4 DEF Update, CheckHealth, SetStatus, TypeOK, LifecycleTypeOK
<1>5. CASE Pause(s)
  BY <1>5, <1>2 DEF Pause, SetStatus, TypeOK, LifecycleTypeOK
<1>6. CASE Destroy(s)
  BY <1>6, <1>2 DEF Destroy
<1> QED
  BY <1>3, <1>4, <1>5, <1>6 DEF Operation

\* A paused sandbox stays paused until it is resumed or restarted, whatever
\* probes were cancelled, readers and health checks under way, or faults occur;
\* only a request that was already waiting for it inline can still change it.
THEOREM PausesLast == Spec => PausedUntilResumed
<1>1. Init => PausedInv
  BY DEF Init, LifecycleInit, PausedInv, Waiter
<1>2. TypeOK /\ PausedInv /\ [Next]_vars => PausedInv'
  BY NextPauses
<1>3. TypeOK /\ PausedInv /\ StatusMatchesContainer /\ [Next]_vars
      => [\A s \in reg \cap reg' :
            status[s] = "STOPPED" /\ (\A w \in Call : on[w] # s) =>
              status'[s] = "STOPPED" \/ Resume(s) \/ RestartBrowser(s)]_vars
  <2> SUFFICES ASSUME TypeOK, PausedInv, StatusMatchesContainer, Next,
                      NEW s \in reg \cap reg', status[s] = "STOPPED",
                      \A w \in Call : on[w] # s
               PROVE  status'[s] = "STOPPED" \/ Resume(s) \/ RestartBrowser(s)
    OBVIOUS
  <2>0. s \in Sandbox
    BY DEF TypeOK, LifecycleTypeOK
  <2>1. CASE ServiceStep
    <3>1. ASSUME NEW t \in Sandbox, Operation(t), t # s
          PROVE  status'[s] = "STOPPED"
      BY <3>1, <2>0, OperationDecides
    <3>2. ASSUME NEW w \in Waiter, WaiterStep(w)
          PROVE  status'[s] = "STOPPED"
      <4>1. Target(w) # s
        BY <3>2, <2>0, WaiterDecides DEF PausedInv, Waiter, Target
      <4> QED BY <4>1, <3>2, <2>0, WaiterDecides
    <3> QED BY <2>1, <2>0, <3>1, <3>2, OperationKeepsPaused DEF ServiceStep
  <2>2. CASE ProcessStep
    <3>1. ~MemoryLost /\ ~Startup
      BY DEF MemoryLost, Startup, PausedInv
    <3>2. CASE HealthTick
      BY <3>2, <2>0 DEF HealthTick
    <3>3. ASSUME NEW r \in Reader, ReaderStep(r)
          PROVE  status'[s] = "STOPPED"
      BY <3>3, <2>0, ReaderDecides
    <3> QED
      BY <2>2, <3>1, <3>2, <3>3
      DEF ProcessStep, Crash, CrashInCreate, CrashInDestroy
  <2>3. CASE HostStep
    BY <2>3 DEF HostStep, lifeVars, recordVars
  <2> QED BY <2>1, <2>2, <2>3 DEF Next
<1> QED
  BY <1>1, <1>2, <1>3, TypeCorrect, RecordsConsistent, PTL
  DEF Spec, PausedUntilResumed

-----------------------------------------------------------------------------
(* A sandbox that reads STARTING has somebody who decides.                 *)

\* Somebody waits for s who has not given up.
Waits(s) == \E w \in Waiter : pc[w] \in Suspended \ {"final"} /\ Target(w) = s

Watched(s) == Waits(s) \/ ~ContainerExists(s, cid[s])

\* A STARTING record names a container and is watched by whoever can put it
\* back, and the container of a deleted sandbox does not run.
WatchInv ==
  /\ daemon
  /\ \A s \in Sandbox : status[s] = "STARTING" => cid[s] # None
  /\ up => \A s \in Sandbox : Known(s) =>
              /\ s \notin reg => ~ContainerExists(s, cid[s])
              /\ status[s] = "STARTING" => Watched(s)

\* Docker answers, and a removal that it reports as failed removed nothing.
RemovalsWork == {"rm", "daemon"} \cap Faults = {}

\* A removal is done, and nothing runs under the id, or a browser refused it.
LEMMA RemovalWorks ==
  ASSUME RemovalsWork, daemon, NEW s \in Sandbox, NEW res, NEW d,
         RemoveRuntime(s, res, d)
  PROVE  /\ res \in {"done", "refused"}
         /\ res = "done" => cid[s] = None \/ d # [id |-> cid[s], running |-> TRUE]
BY DockerAssumption
DEF RemovalsWork, RemoveRuntime, RemoveContainer, Without, NoContainer

\* An operation that leaves its sandbox STARTING leaves it watched.
LEMMA OperationWatched ==
  ASSUME TypeOK, WatchInv, RemovalsWork, NEW s \in Sandbox, Operation(s),
         status'[s] = "STARTING"
  PROVE  cid'[s] # None /\ Watched(s)'
<1> USE LifecycleAssumption DEF TypeOK, LifecycleTypeOK, Waiter
<1> DEFINE Good == cid'[s] # None /\ Watched(s)'
<1>1. \A st : SetStatus(s, st) => st = "STARTING"
  BY DEF SetStatus
<1>2. ASSUME NEW isCreate, Awaits(s, isCreate)
      PROVE  Waits(s)'
  <2>1. PICK w \in Call : /\ pc' = [pc EXCEPT ![w] = "version"]
                          /\ on' = [on EXCEPT ![w] = s]
    BY <1>1, <1>2 DEF Awaits, PollBegins
  <2> QED BY <2>1 DEF Waits, Target, Suspended
<1>3. ASSUME NEW id, NEW lost, NEW isCreate, RunAnswered(s, id, lost, isCreate)
      PROVE  Good
  <2>1. id # None /\ cid'[s] = id
    BY <1>1, <1>3 DEF RunAnswered
  <2>2. CASE pc' = [pc EXCEPT ![s] = "new"]
    BY <2>1, <2>2 DEF Watched, Waits, Target, Suspended
  <2> QED BY <1>2, <1>3, <2>1, <2>2 DEF RunAnswered, Watched
<1>4. ASSUME s \in reg, up, UNCHANGED <<ctr, cid, daemon, waiterVars>>,
             status[s] = "STARTING"
      PROVE  Good
  BY <1>4 DEF WatchInv, Known, Watched, Waits, Target, waiterVars, ContainerExists
<1>5. ~StopRefused(s)
  BY <1>1 DEF StopRefused
<1>6. \A d : ~RemoveRuntime(s, "kept", d)
  BY RemovalWorks DEF WatchInv
<1>a. CASE Create(s)
  BY <1>a, <1>3 DEF Create
<1>b. CASE Update(s)
  <2>1. status[s] = "STARTING"
    BY <1>b, <1>1 DEF Update, CheckHealth
  <2> QED BY <1>b, <2>1, <1>4 DEF Update, dockerVars
<1>c. CASE Pause(s)
  BY <1>c, <1>1, <1>5, <1>6 DEF Pause
<1>d. CASE Destroy(s)
  <2>1. PICK d \in Container :
          /\ RemoveRuntime(s, "done", d)
          /\ ctr' = [ctr EXCEPT ![s] = d]
          /\ cid' = cid /\ status' = status
    <3> HIDE DEF TypeOK, LifecycleTypeOK
    <3> QED BY <1>d, <1>5, <1>6 DEF Destroy
  <2>2. ~ContainerExists(s, cid[s])'
    BY <2>1, RemovalWorks DEF ContainerExists, WatchInv, DockerTypeOK
  <2> QED BY <2>1, <2>2 DEF Watched, WatchInv
<1>e. CASE Resume(s)
  BY <1>e, <1>3, <1>5, <1>6 DEF Resume
<1>f. CASE RestartBrowser(s)
  <2>1. CASE ContainerExists(s, cid[s]) /\ RestartInPlace(s)
    BY <2>1, <1>1, <1>2 DEF RestartInPlace, ContainerExists, Watched
  <2>2. CASE Recreate(s)
    BY <2>2, <1>1, <1>3, <1>6 DEF Recreate
  <2> QED BY <1>f, <2>1, <2>2 DEF RestartBrowser
<1> QED
  BY <1>a, <1>b, <1>c, <1>d, <1>e, <1>f DEF Operation

\* An operation that leaves its sandbox out of the registry is a delete, which
\* stopped the container.
LEMMA OperationLeavesNothing ==
  ASSUME TypeOK, WatchInv, RemovalsWork, NEW s \in Sandbox, Operation(s), s \notin reg'
  PROVE  ~ContainerExists(s, cid[s])'
<1>1. CASE Destroy(s)
  <2>1. PICK d \in Container :
          /\ RemoveRuntime(s, "done", d)
          /\ ctr' = [ctr EXCEPT ![s] = d]
          /\ UNCHANGED cid
    BY <1>1, RemovalWorks DEF Destroy, StopRefused, Put, WatchInv
  <2> QED
    BY <2>1, RemovalWorks DEF ContainerExists, WatchInv, TypeOK, DockerTypeOK
<1>2. ~Destroy(s) => s \in reg'
  BY DEF Operation, Create, Update, Pause, Resume, RestartBrowser, Put, StopRefused
<1> QED BY <1>1, <1>2

\* A slice of a waiter decides, goes on, or found the sandbox deleted.
LEMMA WaiterWatches ==
  ASSUME TypeOK, WatchInv, "probe" \notin Faults, NEW w \in Waiter, WaiterStep(w),
         UNCHANGED held, NEW s \in Sandbox, Known(s)', status'[s] = "STARTING"
  PROVE  status[s] = "STARTING" /\ Watched(s)'
<1>1. up /\ UNCHANGED <<daemon, ctr, cid>> /\ Known(s)
  BY WaiterObserves DEF Observes
<1>2. status[s] = "STARTING"
  BY WaiterDecides
<1>3. ContainerExists(s, cid[s])' <=> ContainerExists(s, cid[s])
  BY <1>1 DEF ContainerExists
<1>4. pc[w] # "idle" /\ \A v \in Waiter \ {w} : pc'[v] = pc[v] /\ Target(v)' = Target(v)
  BY WaiterDecides
<1>5. CASE Target(w) = s
  <2>1. CASE s \notin reg
    BY <1>1, <1>2, <1>3, <2>1 DEF WatchInv, Watched
  <2>2. CASE pc[w] = "final"
    BY <1>1, <1>2, <1>3, <1>4, <2>2 DEF WatchInv, Watched, Waits
  <2>3. CASE s \in reg /\ pc[w] # "final"
    <3>1. pc'[w] \in {"version", "session", "sleep"} /\ Target(w)' = s
      BY <1>5, <2>3, WaiterDecides
    <3> QED BY <1>2, <3>1 DEF Watched, Waits, Suspended
  <2> QED BY <2>1, <2>2, <2>3
<1>6. CASE Target(w) # s
  <2>1. Watched(s)
    BY <1>1, <1>2 DEF WatchInv
  <2>2. Waits(s) => Waits(s)'
    BY <1>4, <1>6 DEF Waits
  <2> QED BY <1>2, <1>3, <2>1, <2>2 DEF Watched
<1> QED BY <1>5, <1>6

\* Startup schedules a probe for whatever it calls STARTING.
LEMMA StartupWatches ==
  ASSUME TypeOK, daemon, Startup
  PROVE  WatchInv'
<1> USE DEF TypeOK, LifecycleTypeOK, Waiter
<1>1. PICK adopted \in SUBSET Sandbox :
        /\ \A s \in adopted : ctr[s].running
        /\ cid' = [s \in Sandbox |-> IF s \in adopted THEN ctr[s].id ELSE None]
        /\ status' = [s \in Sandbox |-> IF s \notin adopted THEN "STOPPED"
                                        ELSE IF Managed(s) THEN "STARTING"
                                        ELSE "RUNNING"]
        /\ pc' = [w \in Waiter |-> IF w \in adopted /\ Managed(w) THEN "new" ELSE "idle"]
  BY DEF Startup, Stale, ProbedAtStartup
<1>2. \A s \in adopted : ctr[s].id # None
  BY <1>1 DEF DockerTypeOK, Container
<1>3. \A s \in Sandbox : Known(s)' => s \in reg'
  BY StartupReaches
<1>4. ASSUME NEW s \in Sandbox, status'[s] = "STARTING"
      PROVE  cid'[s] # None /\ Waits(s)'
  <2>1. s \in adopted /\ pc'[s] = "new"
    BY <1>1, <1>4
  <2> QED BY <1>1, <1>2, <2>1 DEF Waits, Target, Suspended
<1>5. daemon'
  BY DEF Startup
<1> QED BY <1>3, <1>4, <1>5 DEF WatchInv, Watched

\* What reads, exits or goes leaves the watchers of a STARTING record alone.
LEMMA StillWatched ==
  ASSUME WatchInv, daemon', UNCHANGED <<up, cid, pc, on>>, reg \subseteq reg',
         NEW s \in Sandbox,
         Known(s)' => Known(s),
         status'[s] = "STARTING" => status[s] = "STARTING",
         ContainerExists(s, cid[s])' => ContainerExists(s, cid[s])
  PROVE  /\ status'[s] = "STARTING" => cid'[s] # None
         /\ up' /\ Known(s)' =>
              /\ s \notin reg' => ~ContainerExists(s, cid[s])'
              /\ status'[s] = "STARTING" => Watched(s)'
BY DEF WatchInv, Watched, Waits, Target

\* Every step keeps whatever is STARTING watched.
LEMMA NextWatches ==
  ASSUME TypeOK, WatchInv, RemovalsWork, "probe" \notin Faults, [Next]_vars
  PROVE  WatchInv'
<1>1. daemon'
  BY DaemonAnswers DEF RemovalsWork, WatchInv
<1>2. MemoryLost => WatchInv'
  BY <1>1 DEF MemoryLost, WatchInv
<1> DEFINE Good(s) == /\ status'[s] = "STARTING" => cid'[s] # None
                      /\ up' /\ Known(s)' =>
                           /\ s \notin reg' => ~ContainerExists(s, cid[s])'
                           /\ status'[s] = "STARTING" => Watched(s)'
<1>3. (\A s \in Sandbox : Good(s)) => WatchInv'
  BY <1>1 DEF WatchInv
<1>4. CASE ServiceStep
  <2> SUFFICES ASSUME NEW s \in Sandbox
               PROVE  Good(s)
    BY <1>3
  <2>1. ASSUME NEW t \in Sandbox, Operation(t), t \in reg \/ NotHeld(t)
        PROVE  Good(s)
    <3>1. CASE t = s
      BY <2>1, <3>1, OperationWatched, OperationLeavesNothing
    <3>2. CASE t # s
      <4>1. Elsewhere(s)
        BY <1>4, <2>1, <3>2, OperationElsewhere DEF ServiceStep
      <4>2. up /\ status'[s] = status[s] /\ (Waits(s) => Waits(s)')
        BY <2>1, <3>2, OperationLists, OperationDecides DEF Waits, Suspended
      <4>3. ContainerExists(s, cid[s])' => ContainerExists(s, cid[s])
        BY <4>1 DEF Elsewhere, ContainerExists, WatchInv
      <4> QED BY <4>1, <4>2, <4>3 DEF Elsewhere, WatchInv, Watched
    <3> QED BY <3>1, <3>2
  <2>2. ASSUME NEW w \in Waiter, WaiterStep(w), UNCHANGED held
        PROVE  Good(s)
    <3>1. Observes
      BY <2>2, WaiterObserves
    <3>2. status'[s] = "STARTING" => status[s] = "STARTING"
      BY <2>2, WaiterDecides
    <3>3. s \notin reg' /\ Known(s)' => ~ContainerExists(s, cid[s])'
      BY <3>1 DEF Observes, ContainerExists, WatchInv
    <3> QED
      BY <2>2, <3>1, <3>2, <3>3, WaiterWatches DEF Observes, WatchInv
  <2> QED BY <1>4, <2>1, <2>2 DEF ServiceStep
<1>5. CASE ProcessStep
  <2>1. Startup => WatchInv'
    BY StartupWatches DEF WatchInv
  <2>2. ASSUME HealthTick \/ \E r \in Reader : ReaderStep(r), NEW s \in Sandbox
        PROVE  Good(s)
    <3>1. Observes
      BY <2>2, ReadObserves
    <3>2. UNCHANGED waiterVars /\ (status'[s] = "STARTING" => status[s] = "STARTING")
      BY <2>2, ReaderDecides DEF HealthTick
    <3> QED
      BY <1>1, <3>1, <3>2, StillWatched DEF Observes, ContainerExists, waiterVars
  <2> QED
    BY <1>2, <1>3, <1>5, <2>1, <2>2 DEF ProcessStep, Crash, CrashInCreate, CrashInDestroy
<1>6. CASE HostStep \/ UNCHANGED vars
  <2> SUFFICES ASSUME NEW s \in Sandbox
               PROVE  Good(s)
    BY <1>3
  <2>1. UNCHANGED <<lifeVars, held>>
    BY <1>6 DEF HostStep, vars
  <2>2. ContainerExists(s, cid[s])' => ContainerExists(s, cid[s])
    BY <1>6, <2>1, HostOnlyStops, DockerAssumption
    DEF vars, dockerVars, lifeVars, recordVars, WatchInv, ContainerExists, NoContainer
  <2> QED
    BY <1>1, <2>1, <2>2, StillWatched
    DEF lifeVars, recordVars, waiterVars, Known, Target
<1> QED BY <1>4, <1>5, <1>6 DEF Next

\* Whenever a sandbox reads STARTING there is a waiter that has not given up,
\* or its container is gone and the health loop says so, through pauses and
\* deletes that cancel a probe, late waiters, crashes and restarts, while
\* Docker answers, removes what it is told to, and no probe raises.
THEOREM StartsAreWatched ==
  ASSUME {"probe", "rm", "daemon"} \cap Faults = {}
  PROVE  Spec => []StartingWatched
<1>1. Init => WatchInv
  BY DEF Init, DockerInit, LifecycleInit, WatchInv, Known
<1>2. TypeOK /\ WatchInv /\ [Next]_vars => WatchInv'
  BY NextWatches DEF RemovalsWork
<1>3. WatchInv => StartingWatched
  BY DEF WatchInv, StartingWatched, Starting, Known, Watched, Waits
<1> QED
  BY <1>1, <1>2, <1>3, TypeCorrect, PTL DEF Spec

=============================================================================
