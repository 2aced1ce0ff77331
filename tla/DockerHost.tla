------------------------------ MODULE DockerHost ------------------------------
(***************************************************************************)
(* The Docker daemon as docker_adapter.py sees it through the docker CLI.  *)
(*                                                                         *)
(* `docker run` names the container of sandbox s "verge-sandbox-<s>", and  *)
(* Docker keeps names unique, so there is at most one container per        *)
(* sandbox: ctr[s] is what bears that name, running or exited.  Container  *)
(* ids are compared only for equality with the id a record remembers, so   *)
(* an id is fresh when neither the name nor the record holds it.           *)
(***************************************************************************)
CONSTANTS
  Sandbox,   \* sandbox ids (secrets.token_hex); one id is one container name
  CtrId,     \* container ids of one sandbox; recycled once nothing holds them
  None,      \* Python's None
  Faults     \* the faults of the environment that this instance allows

\* exit: a container exits.  extrm: an operator removes one.  daemon: the
\* daemon stops answering (containers may live on).  rm: `docker rm -f` fails
\* or times out.  run: `docker run` fails after creating the container.
\* image: image missing or `docker run` fails outright.  list: listing the
\* managed containers fails.  stop: a managed browser refuses to close.
\* start: supervisorctl fails.  probe: a readiness probe raises.  rmtree:
\* rmtree leaves files behind.  crash: the API process dies or is restarted.
FaultNames == {"exit", "extrm", "daemon", "rm", "run", "image", "list",
               "stop", "start", "probe", "rmtree", "crash"}

ASSUME DockerAssumption ==
  /\ None \notin CtrId
  /\ Faults \subseteq FaultNames

VARIABLES
  daemon,    \* does `docker info` succeed
  ctr        \* [Sandbox -> Container]: the container bearing the name

dockerVars == <<daemon, ctr>>

Container == {c \in [id : CtrId \cup {None}, running : BOOLEAN] :
                c.running => c.id # None}
NoContainer == [id |-> None, running |-> FALSE]

DockerTypeOK ==
  /\ daemon \in BOOLEAN
  /\ ctr \in [Sandbox -> Container]

DockerInit ==
  /\ daemon = TRUE
  /\ ctr = [s \in Sandbox |-> NoContainer]

-----------------------------------------------------------------------------
(* What the adapter's calls answer and leave behind.                       *)

\* container_exists: State.Running of exactly this id.
ContainerExists(s, id) ==
  /\ daemon
  /\ id # None
  /\ ctr[s] = [id |-> id, running |-> TRUE]

\* Variant: `docker rm` without -f.
WithoutUnforced(c, id) == IF c.id = id /\ ~c.running THEN NoContainer ELSE c

Without(c, id) == IF c.id = id THEN NoContainer ELSE c

\* remove_container(id) turns the occupant c of the name into d.  A missing
\* container counts as removed; a timeout may hide a removal that happened.
RemoveContainer(c, id, ok, d) ==
  \/ daemon /\ ok /\ d = Without(c, id)
  \/ "rm" \in Faults /\ daemon /\ ~ok /\ d \in {c, Without(c, id)}
  \/ ~daemon /\ ~ok /\ d = c

\* create_container turns the occupant c of the name into d and answers id
\* (None: failure).  held is the id the record still remembers.
CreateContainer(c, held, id, d) ==
  \/ /\ daemon /\ c = NoContainer
     /\ id \in CtrId \ {held}
     /\ d = [id |-> id, running |-> TRUE]
  \/ /\ "run" \in Faults /\ daemon /\ c = NoContainer
     /\ id = None
     /\ \E left \in CtrId \ {held} : d = [id |-> left, running |-> FALSE]
  \/ /\ ~daemon \/ c # NoContainer \/ "image" \in Faults
     /\ id = None
     /\ d = c

\* list_managed_container_refs: `docker ps -a` by label, or nothing at all.
ListsManaged(listed) ==
  \/ daemon /\ listed = {s \in Sandbox : ctr[s] # NoContainer}
  \/ (~daemon \/ "list" \in Faults) /\ listed = {}

-----------------------------------------------------------------------------
(* What happens to Docker behind the API server's back.                    *)

ContainerExits(s) ==
  /\ "exit" \in Faults
  /\ ctr[s].running
  /\ ctr' = [ctr EXCEPT ![s].running = FALSE]
  /\ UNCHANGED daemon

OperatorRemoves(s) ==
  /\ "extrm" \in Faults
  /\ ctr[s] # NoContainer
  /\ ctr' = [ctr EXCEPT ![s] = NoContainer]
  /\ UNCHANGED daemon

DaemonFlips ==
  /\ "daemon" \in Faults
  /\ daemon' = ~daemon
  /\ UNCHANGED ctr

=============================================================================
