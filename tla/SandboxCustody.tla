---------------------------- MODULE SandboxCustody ----------------------------
(***************************************************************************)
(* What is promised of a Cloak or Camoufox sandbox, without registry,      *)
(* disk, requests, crashes or restarts: whoever created it can reach it    *)
(* until it is deleted, whatever runs for it can be stopped, its data go   *)
(* only when nothing runs, and once it is gone it stays gone.  Of a server *)
(* that dies while it creates a sandbox, a container may be left that      *)
(* belongs to no record; it is never taken for a sandbox.                  *)
(***************************************************************************)
CONSTANT Sandbox

VARIABLES
  phase,   \* per sandbox: absent, idle (a record, but nothing runs), running
           \* (and its record names what runs), stray (it runs without one)
  kept     \* sandboxes whose data are kept

vars == <<phase, kept>>

Init ==
  /\ phase = [s \in Sandbox |-> "absent"]
  /\ kept = {}

Moves(s, from, to) == phase[s] \in from /\ phase'[s] \in to

KeepsData(s) == s \in kept' <=> s \in kept
GetsData(s) == s \notin kept /\ s \in kept'

\* A sandbox is created, and its container runs or not.
Create(s) == Moves(s, {"absent"}, {"idle", "running"}) /\ GetsData(s)

\* The server dies before there is a record.
Stray(s) == Moves(s, {"absent"}, {"stray"}) /\ GetsData(s)

Start(s) == Moves(s, {"idle"}, {"running"}) /\ KeepsData(s)

Stop(s) ==
  /\ Moves(s, {"running"}, {"idle"}) \/ Moves(s, {"stray"}, {"absent"})
  /\ KeepsData(s)

\* Data may be left behind, and the record where requests still hold it.
Delete(s) ==
  /\ Moves(s, {"idle", "running"}, {"idle", "absent"})
  /\ s \in kept' => s \in kept

\* The last request that holds the record of a deleted sandbox ends.
Forget(s) == Moves(s, {"idle"}, {"absent"}) /\ KeepsData(s)

Stay(s) == phase'[s] = phase[s] /\ KeepsData(s)

Step(s) ==
  \/ Create(s) \/ Stray(s) \/ Start(s) \/ Stop(s)
  \/ Delete(s) \/ Forget(s) \/ Stay(s)

\* Sandboxes are independent of each other.
Next ==
  /\ DOMAIN phase' = Sandbox /\ kept' \subseteq Sandbox
  /\ \A s \in Sandbox : Step(s)

Spec == Init /\ [][Next]_vars
===============================================================================
