------------------------------ MODULE CloakProfile ------------------------------
(***************************************************************************)
(* The identity of a Cloak profile (runtime-common/cloak_runtime.py): a    *)
(* build and a fingerprint seed, drawn once when the sandbox's container   *)
(* first starts, kept in two files, and used by every later launch.  The   *)
(* seed file lies in the profile directory of the workspace, the record    *)
(* verge-profile.json in the sandbox's private state.                      *)
(*                                                                         *)
(* A container may die between any two steps.  Its files stay; a new       *)
(* container is started on them.                                           *)
(***************************************************************************)
EXTENDS CloakInstall

CONSTANTS
  Seed   \* fingerprint seeds

ASSUME ProfileAssumption ==
  /\ None \notin Seed
  /\ "empty" \notin Seed
  /\ None \notin [build : Build, seed : Seed]

VARIABLES
  saved,     \* verge-profile.json: an identity or None
  seedFile,  \* .cloakbrowser-seed: None, "empty" while being written, a seed
  box,       \* how far the sandbox's container has come
  plan,      \* the identity that prepare or launch is working with
  data,      \* history: the identity that the browser's data belongs to
  tampered   \* history: a file of the profile was changed from outside

profileVars == <<saved, seedFile, box, plan, data, tampered>>
vars == <<installVars, profileVars>>

FaultNames == {"build", "record", "seed", "profile"}

Identity == [build : Build, seed : Seed]

\* The container: not running; about to prepare; the seed file created, and
\* written; supervisor runs without a browser; about to execute the browser;
\* the browser runs.
Box == {"off", "prepare", "seed", "record", "up", "launch", "browser"}

TypeOK ==
  /\ InstallTypeOK
  /\ saved \in Identity \cup {None}
  /\ seedFile \in Seed \cup {None, "empty"}
  /\ box \in Box
  /\ plan \in Identity \cup {None}
  /\ box \in {"seed", "record", "launch", "browser"} => plan # None
  /\ data \in Identity \cup {None}
  /\ tampered \in BOOLEAN

Init ==
  /\ InstallInit
  /\ saved = None
  /\ seedFile = None
  /\ box = "off"
  /\ plan = None
  /\ data = None
  /\ tampered = FALSE

-----------------------------------------------------------------------------
(* start_all.sh: prepare.                                                  *)

\* profile_state accepts the record: the seed file says the same.
ProfileState == saved # None /\ seedFile = saved.seed

\* The profile directory has no entry.
ProfileEmpty == seedFile = None /\ data = None

ContainerStarts ==
  /\ box = "off"
  /\ box' = "prepare"
  /\ UNCHANGED <<installVars, saved, seedFile, plan, data, tampered>>

\* prepare_profile finds the record, and its build is installed.
PrepareKeeps ==
  /\ box = "prepare"
  /\ ProfileState
  /\ Installed(saved.build)
  /\ box' = "up"
  /\ UNCHANGED <<installVars, saved, seedFile, plan, data, tampered>>

\* There is no record: an empty profile gets the current build and a new seed,
\* whose file is created.
PrepareChooses(seed) ==
  /\ box = "prepare"
  /\ saved = None
  /\ ProfileEmpty
  /\ Installed(current)
  /\ plan' = [build |-> current, seed |-> seed]
  /\ seedFile' = "empty"
  /\ box' = "seed"
  /\ UNCHANGED <<installVars, saved, data, tampered>>

\* Variant: the record is saved before the seed file is written.
SavesRecordFirst ==
  /\ box = "seed"
  /\ saved' = plan
  /\ box' = "record"
  /\ UNCHANGED <<installVars, seedFile, plan, data, tampered>>

\* The seed is written and synced.
WritesSeed ==
  /\ box = "seed"
  /\ seedFile' = plan.seed
  /\ box' = "record"
  /\ UNCHANGED <<installVars, saved, plan, data, tampered>>

\* write_json(verge-profile.json): the file appears at once or not at all.
SavesRecord ==
  /\ box = "record"
  /\ saved' = plan
  /\ box' = "up"
  /\ UNCHANGED <<installVars, seedFile, plan, data, tampered>>

-----------------------------------------------------------------------------
(* launch, from start_browser.sh under supervisor.                         *)

\* Variant: the browser is the current build, not the one of the profile.
LaunchReadsCurrent ==
  /\ box = "up"
  /\ ProfileState
  /\ Installed(current)
  /\ Unchanged(current)
  /\ plan' = [build |-> current, seed |-> saved.seed]
  /\ box' = "launch"
  /\ UNCHANGED <<installVars, saved, seedFile, data, tampered>>

\* The record and the build it names are read and the executable is hashed.
LaunchReads ==
  /\ box = "up"
  /\ ProfileState
  /\ Installed(saved.build)
  /\ Unchanged(saved.build)
  /\ plan' = saved
  /\ box' = "launch"
  /\ UNCHANGED <<installVars, saved, seedFile, data, tampered>>

\* execve: from here on the browser writes the profile.
Executes ==
  /\ box = "launch"
  /\ box' = "browser"
  /\ data' = IF data = None THEN plan ELSE data
  /\ UNCHANGED <<installVars, saved, seedFile, plan, tampered>>

\* The launch raises, or the browser ends.
BrowserEnds ==
  /\ box \in {"launch", "browser"}
  /\ box' = "up"
  /\ UNCHANGED <<installVars, saved, seedFile, plan, data, tampered>>

\* The container dies at any point, also because prepare refused: start_all.sh
\* ends with its first failing command.
ContainerDies ==
  /\ box # "off"
  /\ box' = "off"
  /\ plan' = None
  /\ UNCHANGED <<installVars, saved, seedFile, data, tampered>>

\* While the container is off, operators or users lose the record, lose or
\* change the seed, or empty the profile directory.
Tampers ==
  /\ box = "off"
  /\ \/ /\ "record" \in Faults
        /\ saved' = None
        /\ UNCHANGED <<seedFile, data>>
     \/ /\ "seed" \in Faults
        /\ seedFile' \in Seed \cup {None}
        /\ UNCHANGED <<saved, data>>
     \/ /\ "profile" \in Faults
        /\ seedFile' = None
        /\ data' = None
        /\ UNCHANGED saved
  /\ tampered' = TRUE
  /\ UNCHANGED <<installVars, box, plan>>

ProfileStep ==
  \/ ContainerStarts
  \/ PrepareKeeps
  \/ \E seed \in Seed : PrepareChooses(seed)
  \/ WritesSeed
  \/ SavesRecord
  \/ LaunchReads
  \/ Executes
  \/ BrowserEnds
  \/ ContainerDies
  \/ Tampers

Next ==
  \/ InstallStep /\ UNCHANGED profileVars
  \/ ProfileStep

Spec == Init /\ [][Next]_vars

-----------------------------------------------------------------------------
(* Properties.                                                             *)

\* prepare_profile and launch: the browser that runs on a profile is of the
\* build, and shows the seed, that the profile's data was made with, whatever
\* was installed since, wherever a container died, and whichever of the files
\* was lost: then the launch is refused.  docs/guides/cloak-experimental.md
\* says "The fixture does not rotate the identity."
IdentityKept ==
  box = "browser" => plan = data

\* prepare_profile: a profile that was prepared can be prepared and launched
\* again, unless somebody changed its files: the record is never there without
\* the seed it names and the release it names.
PreparedStaysUsable ==
  saved # None =>
    /\ ~tampered => ProfileState
    /\ release[saved.build] # "absent"

\* install: what current.json names is a complete release, also while two
\* installers overlap or one is killed.
CurrentIsReleased ==
  current # None => release[current] # "absent"

\* install, in its own words: "Commit last so every reported installation
\* failure leaves current intact."
FailureLeavesCurrent ==
  \A i \in Installer : outcome[i] = "failed" => i \notin wrote
================================================================================
