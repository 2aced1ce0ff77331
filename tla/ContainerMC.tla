------------------------------- MODULE ContainerMC -------------------------------
(* What runs inside a container, for TLC: CloakProfile, CloakControl and       *)
(* CamoufoxWorker; and SessionProxy, which runs outside the server as they do. *)
(* They share no state, and no property is about two of them: in a behaviour   *)
(* only one of them moves.                                                     *)
EXTENDS CloakProfile, CloakControl, CamoufoxWorker, SessionProxy, TLC

VARIABLE part   \* the one that moves

allVars == <<vars, controlVars, workerVars, proxyVars, part>>

MCInit ==
  /\ Init
  /\ ControlInit
  /\ WorkerInit
  /\ ProxyInit
  /\ part \in {"profile", "control", "worker", "proxy"}
  /\ part # "proxy" => page = "xpra"

\* Bound: the last container may have been removed.
Over == op.step = "removed" /\ worker = MaxWorker

MCNext ==
  \/ part = "profile" /\ Next /\ UNCHANGED <<controlVars, workerVars, proxyVars, part>>
  \/ part = "control" /\ ControlNext /\ UNCHANGED <<vars, workerVars, proxyVars, part>>
  \/ part = "worker" /\ WorkerNext /\ UNCHANGED <<vars, controlVars, proxyVars, part>>
  \/ part = "worker" /\ Over /\ UNCHANGED allVars
  \/ part = "proxy" /\ ProxyNext /\ UNCHANGED <<vars, controlVars, workerVars, part>>

MCSpec == MCInit /\ [][MCNext]_allVars

Interchangeable == Permutations(Ctl)

\* The types of all four: among others that a launch has an identity, that a
\* process exists exactly while supervisor's program is up, that who is served
\* or waited for exists, and that a cookie in use was given out by the server.
TypesOK == TypeOK /\ ControlTypeOK /\ WorkerTypeOK /\ ProxyTypeOK
================================================================================
