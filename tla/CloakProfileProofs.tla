-------------------------- MODULE CloakProfileProofs --------------------------
(***************************************************************************)
(* Theorems about CloakProfile for any number of builds, installers and    *)
(* seeds, and for any faults.                                              *)
(***************************************************************************)
EXTENDS CloakProfile, TLAPS

-----------------------------------------------------------------------------
(* Type correctness.                                                       *)

\* A step of an installer, or of the volume, keeps the types.
LEMMA InstallTypeStep ==
  ASSUME InstallTypeOK, InstallStep
  PROVE  InstallTypeOK'
<1> USE InstallAssumption DEF InstallTypeOK, Goes, Phase, ReleaseState
<1>1. ASSUME NEW i \in Installer, NEW b \in Build, Stage(i, b)
      PROVE  InstallTypeOK'
  BY <1>1 DEF Stage
<1>2. ASSUME NEW i \in Installer, FindsAbsent(i) PROVE InstallTypeOK'
  BY <1>2 DEF FindsAbsent
<1>3. ASSUME NEW i \in Installer, Reuses(i) PROVE InstallTypeOK'
  BY <1>3 DEF Reuses
<1>4. ASSUME NEW i \in Installer, Renames(i) PROVE InstallTypeOK'
  BY <1>4 DEF Renames
<1>5. ASSUME NEW i \in Installer, Cleans(i) PROVE InstallTypeOK'
  BY <1>5 DEF Cleans
<1>6. ASSUME NEW i \in Installer, Publishes(i) PROVE InstallTypeOK'
  BY <1>6 DEF Publishes
<1>7. ASSUME NEW i \in Installer, InstallFails(i) PROVE InstallTypeOK'
  BY <1>7 DEF InstallFails
<1>8. ASSUME NEW i \in Installer, InstallerDies(i) PROVE InstallTypeOK'
  BY <1>8 DEF InstallerDies
<1>9. ASSUME NEW b \in Build, DamagesBuild(b) PROVE InstallTypeOK'
  BY <1>9 DEF DamagesBuild
<1> QED
  BY <1>1, <1>2, <1>3, <1>4, <1>5, <1>6, <1>7, <1>8, <1>9 DEF InstallStep

\* A step of the sandbox leaves the installation alone.
LEMMA ProfileStepLocal == ProfileStep => UNCHANGED installVars
BY DEF ProfileStep, ContainerStarts, PrepareKeeps, PrepareChooses, WritesSeed,
       SavesRecord, LaunchReads, Executes, BrowserEnds, ContainerDies, Tampers

\* A step of the sandbox keeps the types: what it works with is an identity.
LEMMA ProfileTypeStep ==
  ASSUME TypeOK, ProfileStep
  PROVE  TypeOK'
<1> USE InstallAssumption, ProfileAssumption DEF TypeOK, Box, Identity
<1>0. InstallTypeOK'
  BY ProfileStepLocal DEF installVars, InstallTypeOK
<1>1. CASE ContainerStarts
  BY <1>0, <1>1 DEF ContainerStarts
<1>2. CASE PrepareKeeps
  BY <1>0, <1>2 DEF PrepareKeeps
<1>3. ASSUME NEW seed \in Seed, PrepareChooses(seed) PROVE TypeOK'
  <2>1. current \in Build
    BY <1>3 DEF PrepareChooses, Installed, InstallTypeOK
  <2>2. plan' \in Identity /\ plan' # None
    BY <1>3, <2>1 DEF PrepareChooses
  <2> QED BY <1>0, <1>3, <2>2 DEF PrepareChooses
<1>4. CASE WritesSeed
  BY <1>0, <1>4 DEF WritesSeed
<1>5. CASE SavesRecord
  BY <1>0, <1>5 DEF SavesRecord
<1>6. CASE LaunchReads
  BY <1>0, <1>6 DEF LaunchReads, ProfileState
<1>7. CASE Executes
  BY <1>0, <1>7 DEF Executes
<1>8. CASE BrowserEnds
  BY <1>0, <1>8 DEF BrowserEnds
<1>9. CASE ContainerDies
  BY <1>0, <1>9 DEF ContainerDies
<1>10. CASE Tampers
  BY <1>0, <1>10 DEF Tampers
<1> QED
  BY <1>1, <1>2, <1>3, <1>4, <1>5, <1>6, <1>7, <1>8, <1>9, <1>10 DEF ProfileStep

\* Every variable always has its type: an installer that is under way, and a
\* container that prepares or launches, know the build they are about.
THEOREM TypeCorrect == Spec => []TypeOK
<1>1. Init => TypeOK
  <2> SUFFICES ASSUME Init PROVE TypeOK
    OBVIOUS
  <2>1. InstallTypeOK
    BY DEF Init, InstallInit, InstallTypeOK, Phase, ReleaseState
  <2> QED BY <2>1 DEF Init, TypeOK, Box
<1>2. TypeOK /\ [Next]_vars => TypeOK'
  <2> SUFFICES ASSUME TypeOK, [Next]_vars PROVE TypeOK'
    OBVIOUS
  <2>1. CASE InstallStep /\ UNCHANGED profileVars
    <3>1. InstallTypeOK'
      BY <2>1, InstallTypeStep DEF TypeOK
    <3> QED BY <2>1, <3>1 DEF TypeOK, profileVars, Box, Identity
  <2>2. CASE ProfileStep
    BY <2>2, ProfileTypeStep
  <2>3. CASE UNCHANGED vars
    BY <2>3 DEF vars, installVars, profileVars, TypeOK, InstallTypeOK, Box,
                Identity
  <2> QED BY <2>1, <2>2, <2>3 DEF Next
<1> QED BY <1>1, <1>2, PTL DEF Spec

-----------------------------------------------------------------------------
(* Installation.                                                           *)

\* A release, once renamed into place, is never absent again.
Released(b) == release[b] # "absent"

\* What makes CurrentIsReleased and FailureLeavesCurrent inductive: an
\* installer that has published its build has found it released, and one that
\* is under way has not written current.json yet.
InstallInv ==
  /\ current # None => Released(current)
  /\ \A i \in Installer :
       /\ inst[i].at \in {"published", "cleaned"} => Released(inst[i].build)
       /\ inst[i].at # "idle" => i \notin wrote
       /\ outcome[i] = "failed" => i \notin wrote

\* No step of an installer, or of the volume, undoes a release.
LEMMA ReleaseStays ==
  ASSUME InstallTypeOK, InstallStep, NEW b \in Build, Released(b)
  PROVE  Released(b)'
BY DEF InstallTypeOK, InstallStep, Released, Stage, FindsAbsent, Reuses, Renames,
       Cleans, Publishes, InstallFails, InstallerDies, DamagesBuild

\* Every step keeps InstallInv.
LEMMA InstallInvStep ==
  ASSUME InstallTypeOK, InstallInv, InstallStep
  PROVE  InstallInv'
<1> USE DEF InstallTypeOK, InstallInv, Goes, Phase
<1>1. \A b \in Build : Released(b) => Released(b)'
  BY ReleaseStays
<1>2. ASSUME NEW i \in Installer, NEW b \in Build, Stage(i, b)
      PROVE  InstallInv'
  BY <1>1, <1>2 DEF Stage
<1>3. ASSUME NEW i \in Installer, FindsAbsent(i) PROVE InstallInv'
  BY <1>1, <1>3 DEF FindsAbsent
<1>4. ASSUME NEW i \in Installer, Reuses(i) PROVE InstallInv'
  <2>1. Released(inst[i].build)
    BY <1>4 DEF Reuses, Installed, Released
  <2> QED BY <1>1, <1>4, <2>1 DEF Reuses
<1>5. ASSUME NEW i \in Installer, Renames(i) PROVE InstallInv'
  <2>1. Released(inst[i].build)'
    BY <1>5 DEF Renames, Released
  <2> QED BY <1>1, <1>5, <2>1 DEF Renames
<1>6. ASSUME NEW i \in Installer, Cleans(i) PROVE InstallInv'
  BY <1>1, <1>6 DEF Cleans
<1>7. ASSUME NEW i \in Installer, Publishes(i) PROVE InstallInv'
  BY <1>1, <1>7 DEF Publishes
<1>8. ASSUME NEW i \in Installer, InstallFails(i) PROVE InstallInv'
  BY <1>1, <1>8 DEF InstallFails
<1>9. ASSUME NEW i \in Installer, InstallerDies(i) PROVE InstallInv'
  BY <1>1, <1>9 DEF InstallerDies
<1>10. ASSUME NEW b \in Build, DamagesBuild(b) PROVE InstallInv'
  BY <1>1, <1>10 DEF DamagesBuild
<1> QED
  BY <1>2, <1>3, <1>4, <1>5, <1>6, <1>7, <1>8, <1>9, <1>10 DEF InstallStep

\* InstallInv always holds.
LEMMA InstallInvariant == Spec => []InstallInv
<1>1. Init => InstallInv
  BY DEF Init, InstallInit, InstallInv
<1>2. TypeOK /\ InstallInv /\ [Next]_vars => InstallInv'
  <2> SUFFICES ASSUME TypeOK, InstallInv, [Next]_vars PROVE InstallInv'
    OBVIOUS
  <2>1. CASE InstallStep
    BY <2>1, InstallInvStep DEF TypeOK
  <2>2. CASE UNCHANGED installVars
    BY <2>2 DEF installVars, InstallInv, Released
  <2> QED BY <2>1, <2>2, ProfileStepLocal DEF Next, vars
<1> QED BY <1>1, <1>2, TypeCorrect, PTL DEF Spec

\* What current.json names is a complete release, however many installers
\* overlap, fail or are killed.
THEOREM CurrentReleased == Spec => []CurrentIsReleased
<1>1. InstallInv => CurrentIsReleased
  BY DEF InstallInv, Released, CurrentIsReleased
<1> QED BY <1>1, InstallInvariant, PTL

\* An installation that reports a failure has not written current.json.
THEOREM FailuresLeaveCurrent == Spec => []FailureLeavesCurrent
<1>1. InstallInv => FailureLeavesCurrent
  BY DEF InstallInv, FailureLeavesCurrent
<1> QED BY <1>1, InstallInvariant, PTL

-----------------------------------------------------------------------------
(* The profile.                                                            *)

\* What makes IdentityKept inductive.  Data exist only with the record they were
\* made with, or, if it was lost, without any; so prepare, which wants neither,
\* never invents a second identity for them.  And what launch has read is still
\* what the record says when it executes the browser.
IdentityInv ==
  /\ data # None => saved \in {None, data}
  /\ box \in {"seed", "record"} => data = None /\ saved = None
  /\ box = "launch" => plan = saved
  /\ box = "browser" => plan = data

\* Every step of the sandbox keeps IdentityInv.
LEMMA IdentityStep ==
  ASSUME TypeOK, IdentityInv, ProfileStep
  PROVE  IdentityInv'
<1> USE DEF TypeOK, IdentityInv
<1>1. CASE ContainerStarts
  BY <1>1 DEF ContainerStarts
<1>2. CASE PrepareKeeps
  BY <1>2 DEF PrepareKeeps
<1>3. ASSUME NEW seed \in Seed, PrepareChooses(seed) PROVE IdentityInv'
  BY <1>3 DEF PrepareChooses, ProfileEmpty
<1>4. CASE WritesSeed
  BY <1>4 DEF WritesSeed
<1>5. CASE SavesRecord
  BY <1>5 DEF SavesRecord
<1>6. CASE LaunchReads
  BY <1>6 DEF LaunchReads
<1>7. CASE Executes
  BY <1>7 DEF Executes
<1>8. CASE BrowserEnds
  BY <1>8 DEF BrowserEnds
<1>9. CASE ContainerDies
  BY <1>9 DEF ContainerDies
<1>10. CASE Tampers
  BY <1>10 DEF Tampers
<1> QED
  BY <1>1, <1>2, <1>3, <1>4, <1>5, <1>6, <1>7, <1>8, <1>9, <1>10 DEF ProfileStep

\* The browser that runs on a profile is the build, with the seed, that its data
\* were made with, whatever was installed, lost or changed in between.
THEOREM IdentityIsKept == Spec => []IdentityKept
<1>1. Init => IdentityInv
  BY DEF Init, IdentityInv
<1>2. TypeOK /\ IdentityInv /\ [Next]_vars => IdentityInv'
  <2> SUFFICES ASSUME TypeOK, IdentityInv, [Next]_vars PROVE IdentityInv'
    OBVIOUS
  <2>1. CASE ProfileStep
    BY <2>1, IdentityStep
  <2>2. CASE UNCHANGED profileVars
    BY <2>2 DEF profileVars, IdentityInv
  <2> QED BY <2>1, <2>2 DEF Next, vars
<1>3. IdentityInv => IdentityKept
  BY DEF IdentityInv, IdentityKept
<1> QED BY <1>1, <1>2, <1>3, TypeCorrect, PTL DEF Spec

\* What makes PreparedStaysUsable inductive: a container that prepares has found
\* its build released, and saves the record after the seed.
UsableInv ==
  /\ PreparedStaysUsable
  /\ box \in {"seed", "record"} => Released(plan.build)
  /\ box = "record" => seedFile = plan.seed
  /\ box = "seed" => saved = None

\* Every step of the sandbox keeps UsableInv.
LEMMA UsableStep ==
  ASSUME TypeOK, UsableInv, ProfileStep
  PROVE  UsableInv'
<1> USE DEF UsableInv, PreparedStaysUsable, ProfileState, Released
<1>0. UNCHANGED release
  BY ProfileStepLocal DEF installVars
<1>1. CASE ContainerStarts
  BY <1>0, <1>1 DEF ContainerStarts
<1>2. CASE PrepareKeeps
  BY <1>0, <1>2 DEF PrepareKeeps
<1>3. ASSUME NEW seed \in Seed, PrepareChooses(seed) PROVE UsableInv'
  BY <1>0, <1>3 DEF PrepareChooses, Installed
<1>4. CASE WritesSeed
  BY <1>0, <1>4 DEF WritesSeed
<1>5. CASE SavesRecord
  BY <1>0, <1>5 DEF SavesRecord
<1>6. CASE LaunchReads
  BY <1>0, <1>6 DEF LaunchReads
<1>7. CASE Executes
  BY <1>0, <1>7 DEF Executes
<1>8. CASE BrowserEnds
  BY <1>0, <1>8 DEF BrowserEnds
<1>9. CASE ContainerDies
  BY <1>0, <1>9 DEF ContainerDies
<1>10. CASE Tampers
  BY <1>0, <1>10 DEF Tampers
<1> QED
  BY <1>1, <1>2, <1>3, <1>4, <1>5, <1>6, <1>7, <1>8, <1>9, <1>10 DEF ProfileStep

\* A profile that was prepared can be prepared and launched again, wherever its
\* container died, unless somebody changed its files or the shared volume.
THEOREM PreparedUsable == Spec => []PreparedStaysUsable
<1>1. Init => UsableInv
  BY DEF Init, UsableInv, PreparedStaysUsable
<1>2. TypeOK /\ UsableInv /\ [Next]_vars => UsableInv'
  <2> SUFFICES ASSUME TypeOK, UsableInv, [Next]_vars PROVE UsableInv'
    OBVIOUS
  <2>1. CASE InstallStep /\ UNCHANGED profileVars
    <3>1. \A b \in Build : Released(b) => Released(b)'
      BY <2>1, ReleaseStays DEF TypeOK
    <3>2. saved # None => saved.build \in Build
      BY DEF TypeOK, Identity
    <3>3. box \in {"seed", "record"} => plan.build \in Build
      BY DEF TypeOK, Identity
    <3> QED
      BY <2>1, <3>1, <3>2, <3>3
      DEF UsableInv, PreparedStaysUsable, ProfileState, profileVars, Released
  <2>2. CASE ProfileStep
    BY <2>2, UsableStep
  <2>3. CASE UNCHANGED vars
    BY <2>3 DEF vars, installVars, profileVars, UsableInv, PreparedStaysUsable,
                ProfileState, Released
  <2> QED BY <2>1, <2>2, <2>3 DEF Next
<1>3. UsableInv => PreparedStaysUsable
  BY DEF UsableInv
<1> QED BY <1>1, <1>2, <1>3, TypeCorrect, PTL DEF Spec
===============================================================================
