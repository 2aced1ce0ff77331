------------------------------ MODULE CloakInstall ------------------------------
(***************************************************************************)
(* The explicit installer of Cloak builds (runtime-common/install_cloak.py)*)
(* on the volume that all sandboxes share.  A build is prepared in a       *)
(* staging directory, appears under releases/ by one rename, and becomes   *)
(* the default of new profiles by one atomic write of current.json.        *)
(*                                                                         *)
(* Each installer is a process of its own; between any two of its steps it *)
(* may fail or be killed, and others may run beside it.                    *)
(***************************************************************************)
EXTENDS FiniteSets, Integers

CONSTANTS
  Build,      \* artifact ids
  Installer,  \* installer processes
  None,       \* no build
  Faults      \* what operators may damage, see FaultNames

ASSUME InstallAssumption ==
  /\ None \notin Build

VARIABLES
  release,  \* the directories releases/<id>
  current,  \* the build that current.json names
  inst,     \* per installer: the build it installs and how far it is
  outcome,  \* per installer: what it reported last
  wrote     \* history: installers whose last run wrote current.json

installVars == <<release, current, inst, outcome, wrote>>

\* changed: the executable's hash is not the manifest's; missing: it is gone.
ReleaseState == {"absent", "good", "changed", "missing"}

\* Where an installer is: nothing under way; build prepared in staging; the
\* release found to be absent; the release in place; staging removed.
Phase == {"idle", "staged", "absent", "published", "cleaned"}

InstallTypeOK ==
  /\ release \in [Build -> ReleaseState]
  /\ current \in Build \cup {None}
  /\ inst \in [Installer -> [at : Phase, build : Build \cup {None}]]
  /\ \A i \in Installer : inst[i].at # "idle" => inst[i].build # None
  /\ outcome \in [Installer -> {"none", "failed", "done"}]
  /\ wrote \subseteq Installer

InstallInit ==
  /\ release = [b \in Build |-> "absent"]
  /\ current = None
  /\ inst = [i \in Installer |-> [at |-> "idle", build |-> None]]
  /\ outcome = [i \in Installer |-> "none"]
  /\ wrote = {}

\* Variant: that nothing is installed is not refused.
InstalledOrNone(b) == b = None \/ release[b] \in {"good", "changed"}

\* installed_build accepts a build: its release is there, with an executable.
\* The contents of the executable are another question.
Installed(b) == b # None /\ release[b] \in {"good", "changed"}

\* The executable of a build has the hash that its manifest records.
Unchanged(b) == release[b] = "good"

-----------------------------------------------------------------------------

Goes(i, phase) == inst' = [inst EXCEPT ![i].at = phase]

\* Variant: current.json names the build as soon as it is known.
StagePublishes(i, b) ==
  /\ inst[i].at = "idle"
  /\ inst' = [inst EXCEPT ![i] = [at |-> "staged", build |-> b]]
  /\ outcome' = [outcome EXCEPT ![i] = "none"]
  /\ wrote' = wrote \ {i}
  /\ current' = b
  /\ UNCHANGED release

\* The license is validated and a build of the official service's choice is
\* downloaded, verified and prepared in a staging directory of this installer.
Stage(i, b) ==
  /\ inst[i].at = "idle"
  /\ inst' = [inst EXCEPT ![i] = [at |-> "staged", build |-> b]]
  /\ outcome' = [outcome EXCEPT ![i] = "none"]
  /\ wrote' = wrote \ {i}
  /\ UNCHANGED <<release, current>>

\* destination.exists() is false.
FindsAbsent(i) ==
  /\ inst[i].at = "staged"
  /\ release[inst[i].build] = "absent"
  /\ Goes(i, "absent")
  /\ UNCHANGED <<release, current, outcome, wrote>>

\* The build is there already and its executable is what was downloaded.
Reuses(i) ==
  /\ inst[i].at = "staged"
  /\ Installed(inst[i].build)
  /\ Unchanged(inst[i].build)
  /\ Goes(i, "published")
  /\ UNCHANGED <<release, current, outcome, wrote>>

\* The prepared directory is renamed; the rename fails if another installer's
\* release has appeared there since.
Renames(i) ==
  /\ inst[i].at = "absent"
  /\ release[inst[i].build] = "absent"
  /\ release' = [release EXCEPT ![inst[i].build] = "good"]
  /\ Goes(i, "published")
  /\ UNCHANGED <<current, outcome, wrote>>

\* Variant: current.json is written before staging is removed, which may fail.
CleansLate(i) ==
  /\ inst[i].at = "published"
  /\ Installed(inst[i].build)
  /\ current' = inst[i].build
  /\ wrote' = wrote \cup {i}
  /\ Goes(i, "cleaned")
  /\ UNCHANGED <<release, outcome>>

\* The release is looked at once more and the staging directory removed.
Cleans(i) ==
  /\ inst[i].at = "published"
  /\ Installed(inst[i].build)
  /\ Goes(i, "cleaned")
  /\ UNCHANGED <<release, current, outcome, wrote>>

\* write_json(current.json), and the installer is done.
Publishes(i) ==
  /\ inst[i].at = "cleaned"
  /\ current' = inst[i].build
  /\ wrote' = wrote \cup {i}
  /\ outcome' = [outcome EXCEPT ![i] = "done"]
  /\ Goes(i, "idle")
  /\ UNCHANGED release

\* Whatever is under way raises: failure.json goes to the staging directory.
InstallFails(i) ==
  /\ inst[i].at # "idle"
  /\ outcome' = [outcome EXCEPT ![i] = "failed"]
  /\ Goes(i, "idle")
  /\ UNCHANGED <<release, current, wrote>>

\* The installer's container is killed and reports nothing.
InstallerDies(i) ==
  /\ inst[i].at # "idle"
  /\ Goes(i, "idle")
  /\ UNCHANGED <<release, current, outcome, wrote>>

\* Fault "build": an operator changes or deletes an installed executable.
DamagesBuild(b) ==
  /\ "build" \in Faults
  /\ release[b] = "good"
  /\ \E state \in {"changed", "missing"} : release' = [release EXCEPT ![b] = state]
  /\ UNCHANGED <<current, inst, outcome, wrote>>

InstallStep ==
  \/ \E i \in Installer :
       \/ \E b \in Build : Stage(i, b)
       \/ FindsAbsent(i)
       \/ Reuses(i)
       \/ Renames(i)
       \/ Cleans(i)
       \/ Publishes(i)
       \/ InstallFails(i)
       \/ InstallerDies(i)
  \/ \E b \in Build : DamagesBuild(b)
================================================================================
