----------------------------- MODULE ControlProofs -----------------------------
(***************************************************************************)
(* Theorems about CloakControl for any number of controllers and spawns,   *)
(* about CamoufoxWorker for any number of callers and workers, about       *)
(* SessionProxy for any number of requests, cookies and restarts, and      *)
(* about the three beside CloakProfile.                                    *)
(***************************************************************************)
EXTENDS ContainerMC, CloakProfileProofs, FiniteSetTheorems

-----------------------------------------------------------------------------
(* Type correctness.                                                       *)

\* An error that is diagnosed is that of a spawn, or none.
LEMMA DiagnosedType ==
  ASSUME ControlTypeOK, NEW info \in Info
  PROVE  Diagnosed(info) \in 0..MaxSpawn
BY ControlAssumption DEF ControlTypeOK, Diagnosed, Info

\* The number of the current spawn is that of a spawn.
LEMMA SpawnNumber == ControlTypeOK => proc.n \in 1..MaxSpawn
BY ControlAssumption DEF ControlTypeOK, Info

\* Every step of the browser's process keeps the types.
LEMMA ProcTypeStep ==
  ASSUME ControlTypeOK, ProcStep
  PROVE  ControlTypeOK'
<1> USE ControlAssumption
    DEF ControlTypeOK, Info, State, Down, Code, ProcStage, procVars, ctlVars,
        pastVars
<1>1. CASE LaunchBegins
  BY <1>1 DEF LaunchBegins
<1>2. CASE LaunchFails
  BY <1>2 DEF LaunchFails
<1>3. CASE LaunchRecords
  BY <1>3 DEF LaunchRecords
<1>4. CASE Execs
  <2>1. launched' \subseteq 1..MaxSpawn
    BY <1>4, SpawnNumber DEF Execs
  <2> QED BY <1>4, <2>1 DEF Execs
<1>5. CASE Denies
  <2>1. denied' \subseteq 1..MaxSpawn
    BY <1>5, SpawnNumber DEF Denies
  <2> QED BY <1>5, <2>1 DEF Denies
<1>6. ASSUME NEW code \in Code, Exits(code) PROVE ControlTypeOK'
  <2>1. proc' \in Info /\ proc'.n = proc.n /\ proc'.state \in {"STOPPED", "EXITED"}
    BY <1>6 DEF Exits
  <2>2. stage' = "none" /\ UNCHANGED <<fileVars, ctlVars, pastVars>>
    BY <1>6 DEF Exits
  <2> QED BY <2>1, <2>2 DEF fileVars
<1> QED BY <1>1, <1>2, <1>3, <1>4, <1>5, <1>6 DEF ProcStep

\* A controller that exits knows nothing, which has a type.
LEMMA EndsType ==
  ASSUME ControlTypeOK, NEW c \in Ctl, Ends(c)
  PROVE  /\ cmd' \in [Ctl -> Command]
         /\ at' \in [Ctl -> Place]
         /\ seen' \in [Ctl -> Info]
<1>1. Unread \in Info
  BY ControlAssumption DEF Unread, Info, State, Down, Code
<1> HIDE DEF Unread
<1> QED BY <1>1 DEF ControlTypeOK, Ends, Proceeds, Place, Command

\* Every step of a controller keeps the types.
LEMMA CtlTypeStep ==
  ASSUME ControlTypeOK, NEW c \in Ctl, CtlStep(c)
  PROVE  ControlTypeOK'
<1> USE ControlAssumption
    DEF ControlTypeOK, Proceeds, Reads, Place, procVars, fileVars, pastVars
<1>1. CASE ReadsForReport(c)
  BY <1>1 DEF ReadsForReport
<1>2. CASE FindsItUp(c)
  BY <1>2 DEF FindsItUp
<1>3. CASE AsksToClose(c)
  BY <1>3 DEF AsksToClose
<1>4. CASE PollsDown(c)
  BY <1>4 DEF PollsDown
<1>5. CASE PollDeadline(c)
  BY <1>5 DEF PollDeadline
<1>6. CASE StopProcess(c)
  BY <1>6 DEF StopProcess, Info, State, Down
<1>7. CASE StopReturns(c)
  BY <1>7 DEF StopReturns
<1>8. CASE Verifies(c)
  BY <1>8 DEF Verifies
<1>9. CASE Answers(c)
  <2> DEFINE said == [stopped |-> cmd[c] = "stop", graceful |-> Graceful(c),
                      error |-> Diagnosed(seen[c]), state |-> seen[c].state,
                      n |-> seen[c].n, launched |-> seen[c].n \in launched]
  <2>1. Graceful(c) \in BOOLEAN
    BY DEF Graceful
  <2>2. said \in Answer
    BY <2>1, DiagnosedType DEF Info, Answer
  <2> HIDE DEF said
  <2>3. answer' = [answer EXCEPT ![c] = said]
    BY <1>9 DEF Answers, said
  <2>4. /\ cmd' \in [Ctl -> Command]
        /\ at' \in [Ctl -> Place]
        /\ seen' \in [Ctl -> Info]
    BY <1>9, EndsType DEF Answers
  <2>5. UNCHANGED <<procVars, fileVars, pastVars>>
    BY <1>9 DEF Answers
  <2>6. answer' \in [Ctl -> Answer \cup {NoAnswer}]
    BY <2>2, <2>3
  <2> QED BY <2>4, <2>5, <2>6
<1>10. CASE StartChecks(c)
  BY <1>10 DEF StartChecks
<1>11. CASE Clears(c)
  <2>1. seen[c].n \in 0..MaxSpawn
    BY <1>11 DEF Clears, Info
  <2>2. cleared' \subseteq 0..MaxSpawn
    BY <1>11, <2>1 DEF Clears
  <2>3. /\ at' \in [Ctl -> Place]
        /\ launchFile' = 0 /\ errorFile' = 0
        /\ UNCHANGED <<procVars, denied, cmd, seen, answer, launched, overlapped>>
    BY <1>11 DEF Clears
  <2> QED BY <2>2, <2>3
<1>12. CASE StartProcess(c)
  <2>1. proc.n + 1 \in 0..MaxSpawn /\ proc.n + 1 # 0
    BY <1>12 DEF StartProcess, Info
  <2>2. /\ proc'.state \in Down <=> stage' = "none"
        /\ proc' \in Info /\ proc'.n = proc.n + 1
        /\ stage' \in ProcStage
    BY <1>12, <2>1 DEF StartProcess, Info, State, Down, Code, ProcStage
  <2>3. /\ cmd' \in [Ctl -> Command]
        /\ at' \in [Ctl -> Place]
        /\ seen' \in [Ctl -> Info]
    BY <1>12, EndsType DEF StartProcess
  <2>4. UNCHANGED <<launchFile, errorFile, denied, answer, cleared, launched, overlapped>>
    BY <1>12 DEF StartProcess
  <2> QED BY <2>1, <2>2, <2>3, <2>4
<1>13. CASE Refuses(c)
  BY <1>13, EndsType DEF Refuses
<1> QED
  BY <1>1, <1>2, <1>3, <1>4, <1>5, <1>6, <1>7, <1>8, <1>9, <1>10, <1>11, <1>12,
     <1>13 DEF CtlStep

\* Every variable always has its type, and supervisor's program is down exactly
\* while the process it spawned has ended.
THEOREM ControlTypeCorrect == ControlSpec => []ControlTypeOK
<1>1. ControlInit => ControlTypeOK
  <2>1. Unread \in Info
    BY ControlAssumption DEF Unread, Info, State, Down, Code
  <2> HIDE DEF Unread
  <2>2. ControlInit => seen \in [Ctl -> Info]
    BY <2>1 DEF ControlInit
  <2>3. ControlInit => proc \in Info /\ cmd \in [Ctl -> Command]
                       /\ at \in [Ctl -> Place]
    BY ControlAssumption DEF ControlInit, Info, State, Down, Code, Place, Command
  <2>4. ControlInit => overlapped \in BOOLEAN
    BY DEF ControlInit
  <2> QED
    BY <2>2, <2>3, <2>4, ControlAssumption
    DEF ControlInit, ControlTypeOK, Down, ProcStage
<1>2. ControlTypeOK /\ [ControlNext]_controlVars => ControlTypeOK'
  <2> SUFFICES ASSUME ControlTypeOK, [ControlNext]_controlVars
               PROVE  ControlTypeOK'
    OBVIOUS
  <2>1. CASE ProcStep
    BY <2>1, ProcTypeStep
  <2>2. ASSUME NEW c \in Ctl, CtlStep(c) PROVE ControlTypeOK'
    BY <2>2, CtlTypeStep
  <2>3. ASSUME NEW c \in Ctl, ControlFails(c) PROVE ControlTypeOK'
    BY <2>3, EndsType DEF ControlFails, ControlTypeOK, procVars, fileVars, pastVars
  <2>4. ASSUME NEW c \in Ctl, NEW command \in Command, Ask(c, command)
        PROVE  ControlTypeOK'
    BY <2>4 DEF Ask, Proceeds, ControlTypeOK, Place, procVars, fileVars
  <2>5. CASE UNCHANGED controlVars
    BY <2>5 DEF controlVars, procVars, fileVars, ctlVars, pastVars, ControlTypeOK
  <2> QED BY <2>1, <2>2, <2>3, <2>4, <2>5 DEF ControlNext
<1> QED BY <1>1, <1>2, PTL DEF ControlSpec

-----------------------------------------------------------------------------
(* A stop that is confirmed.                                               *)

\* What was read of the process, or answered, is of this spawn or an earlier one,
\* and a spawn that was down stays down.
Past(info) ==
  /\ info.n <= proc.n
  /\ info.n = proc.n /\ info.state \in Down => proc.state \in Down

\* What makes StopConfirmed inductive: it holds of what a controller has read,
\* from when it reads until it answers.
SeenInv ==
  \A c \in Ctl :
    /\ Past(seen[c])
    /\ at[c] = "closed" => seen[c].state \in Down
    /\ at[c] = "report" /\ cmd[c] = "stop" => seen[c].state \in Down
    /\ Answered(c) => /\ Past(answer[c])
                      /\ answer[c].stopped => answer[c].state \in Down

\* supervisor's program goes forward only: to its end, or to the next spawn.
Forward ==
  \/ proc'.n = proc.n /\ (proc.state \in Down => proc'.state \in Down)
  \/ proc'.n = proc.n + 1

LEMMA EveryStepForward ==
  ASSUME ControlTypeOK, ControlNext
  PROVE  Forward
<1> USE DEF ControlTypeOK, Info, Forward, procVars, Down
<1>1. CASE ProcStep
  BY <1>1 DEF ProcStep, LaunchBegins, LaunchFails, LaunchRecords, Execs, Denies,
              Exits
<1>2. ASSUME NEW c \in Ctl, CtlStep(c) PROVE Forward
  <2>1. CASE StopProcess(c)
    BY <2>1 DEF StopProcess
  <2>2. CASE StartProcess(c)
    BY <2>2 DEF StartProcess
  <2>3. CASE ~StopProcess(c) /\ ~StartProcess(c)
    BY <1>2, <2>3
    DEF CtlStep, ReadsForReport, FindsItUp, AsksToClose, PollsDown,
        PollDeadline, StopReturns, Verifies, Answers, StartChecks, Clears,
        Refuses, Reads
  <2> QED BY <2>1, <2>2, <2>3
<1>3. ASSUME NEW c \in Ctl, ControlFails(c) \/ \E command \in Command : Ask(c, command)
      PROVE  Forward
  BY <1>3 DEF ControlFails, Ask
<1> QED BY <1>1, <1>2, <1>3 DEF ControlNext

\* What is past stays past.
LEMMA PastStays ==
  ASSUME ControlTypeOK, ControlTypeOK', ControlNext
  PROVE  /\ \A c \in Ctl : Past(seen[c]) /\ seen'[c] = seen[c] => Past(seen[c])'
         /\ \A c \in Ctl : /\ Answered(c) /\ Past(answer[c])
                         /\ answer'[c] = answer[c] => Past(answer[c])'
<1>1. Forward
  BY EveryStepForward
<1>2. proc.n \in Nat /\ proc'.n \in Nat
  BY ControlAssumption DEF ControlTypeOK, Info
<1>3. \A c \in Ctl : seen[c].n \in Nat
  BY ControlAssumption DEF ControlTypeOK, Info
<1>4. \A c \in Ctl : Answered(c) => answer[c].n \in Nat
  BY ControlAssumption DEF ControlTypeOK, Answered, Answer
<1> QED BY <1>1, <1>2, <1>3, <1>4 DEF Forward, Past

\* A controller's step keeps SeenInv for it; for the others nothing changes but
\* the process.
LEMMA SeenStep ==
  ASSUME ControlTypeOK, ControlTypeOK', SeenInv, ControlNext
  PROVE  SeenInv'
<1> USE DEF ControlTypeOK, SeenInv, Answered
<1>1. ASSUME UNCHANGED ctlVars PROVE SeenInv'
  BY <1>1, PastStays DEF ctlVars
<1>2. ASSUME NEW c \in Ctl, NEW place, place # "closed", place # "report",
             Proceeds(c, place), UNCHANGED <<cmd, seen, answer>>
      PROVE  SeenInv'
  BY <1>2, PastStays DEF Proceeds
<1>3. ASSUME NEW c \in Ctl, NEW place, Reads(c, place),
             place = "closed" => proc.state \in Down,
             place = "report" /\ cmd[c] = "stop" => proc.state \in Down
      PROVE  SeenInv'
  <2>1. UNCHANGED <<proc, cmd, answer>>
    BY <1>3 DEF Reads, procVars
  <2>2. seen'[c] = proc
    BY <1>3 DEF Reads
  <2>3. Past(seen[c])'
    BY <2>1, <2>2 DEF Past, Info
  <2>4. \A d \in Ctl \ {c} : seen'[d] = seen[d] /\ at'[d] = at[d]
    BY <1>3 DEF Reads, Proceeds
  <2>5. at'[c] = place
    BY <1>3 DEF Reads, Proceeds
  <2> QED BY <1>3, <2>1, <2>2, <2>3, <2>4, <2>5, PastStays
<1>4. ASSUME NEW c \in Ctl, NEW command \in Command, Ask(c, command)
      PROVE  SeenInv'
  BY <1>4, PastStays DEF Ask, Proceeds
<1>5. ASSUME NEW c \in Ctl, Answers(c) PROVE SeenInv'
  <2>1. UNCHANGED proc /\ at'[c] = "idle" /\ seen'[c].n = 0
    BY <1>5 DEF Answers, Ends, Proceeds, Unread, procVars
  <2>2. /\ answer'[c].n = seen[c].n
        /\ answer'[c].state = seen[c].state
        /\ answer'[c].stopped = (cmd[c] = "stop")
    BY <1>5 DEF Answers
  <2>3. Past(answer[c])'
    BY <2>1, <2>2 DEF Past
  <2>4. Past(seen[c])'
    BY <2>1, ControlAssumption DEF Past, Info
  <2>5. \A d \in Ctl \ {c} : /\ answer'[d] = answer[d] /\ at'[d] = at[d]
                             /\ cmd'[d] = cmd[d] /\ seen'[d] = seen[d]
    BY <1>5 DEF Answers, Ends, Proceeds
  <2>6. answer'[c].stopped => answer'[c].state \in Down
    BY <1>5, <2>2 DEF Answers
  <2> QED BY <2>1, <2>2, <2>3, <2>4, <2>5, <2>6, PastStays
<1>6. ASSUME NEW c \in Ctl, Ends(c), UNCHANGED answer PROVE SeenInv'
  <2>1. at'[c] = "idle" /\ seen'[c].n = 0
    BY <1>6 DEF Ends, Proceeds, Unread
  <2>2. \A d \in Ctl \ {c} : /\ seen'[d] = seen[d] /\ at'[d] = at[d]
                             /\ cmd'[d] = cmd[d]
    BY <1>6 DEF Ends, Proceeds
  <2>3. Past(seen[c])'
    BY <2>1, ControlAssumption DEF Past, Info
  <2> QED BY <1>6, <2>1, <2>2, <2>3, PastStays
<1>7. CASE ProcStep
  BY <1>1, <1>7 DEF ProcStep, LaunchBegins, LaunchFails, LaunchRecords, Execs,
                    Denies, Exits
<1>8. ASSUME NEW c \in Ctl, CtlStep(c) PROVE SeenInv'
  <2>1. CASE ReadsForReport(c)
    BY <1>3, <2>1 DEF ReadsForReport
  <2>2. CASE FindsItUp(c)
    BY <1>2, <2>2 DEF FindsItUp
  <2>3. CASE AsksToClose(c)
    BY <1>2, <2>3 DEF AsksToClose
  <2>4. CASE PollsDown(c)
    BY <1>3, <2>4 DEF PollsDown
  <2>5. CASE PollDeadline(c)
    BY <1>2, <2>5 DEF PollDeadline
  <2>6. CASE StopProcess(c)
    BY <1>2, <2>6 DEF StopProcess
  <2>7. CASE StopReturns(c)
    BY <1>2, <2>7 DEF StopReturns
  <2>8. CASE Verifies(c)
    BY <1>3, <2>8 DEF Verifies
  <2>9. CASE Answers(c)
    BY <1>5, <2>9
  <2>10. CASE StartChecks(c)
    BY <1>3, <2>10 DEF StartChecks
  <2>11. CASE Clears(c)
    BY <1>2, <2>11 DEF Clears
  <2>12. CASE StartProcess(c)
    BY <1>6, <2>12 DEF StartProcess
  <2>13. CASE Refuses(c)
    BY <1>6, <2>13 DEF Refuses
  <2> QED
    BY <1>8, <2>1, <2>2, <2>3, <2>4, <2>5, <2>6, <2>7, <2>8, <2>9, <2>10, <2>11,
       <2>12, <2>13 DEF CtlStep
<1>9. ASSUME NEW c \in Ctl, ControlFails(c) PROVE SeenInv'
  BY <1>6, <1>9 DEF ControlFails
<1> QED BY <1>4, <1>7, <1>8, <1>9 DEF ControlNext

\* SeenInv always holds.
LEMMA SeenInvariant == ControlSpec => []SeenInv
<1>1. ControlInit => SeenInv
  <2> SUFFICES ASSUME ControlInit, NEW c \in Ctl
               PROVE  Past(seen[c]) /\ at[c] = "idle" /\ ~Answered(c)
    BY DEF SeenInv
  <2>1. seen[c].n = 0 /\ proc.n = 1
    BY DEF ControlInit, Unread
  <2> QED BY <2>1 DEF ControlInit, Past, Answered
<1>2. ControlTypeOK /\ ControlTypeOK' /\ SeenInv /\ [ControlNext]_controlVars
        => SeenInv'
  <2>1. CASE ControlNext
    BY <2>1, SeenStep
  <2>2. CASE UNCHANGED controlVars
    BY <2>2 DEF controlVars, procVars, ctlVars, SeenInv, Past, Answered
  <2> QED BY <2>1, <2>2
<1> QED BY <1>1, <1>2, ControlTypeCorrect, PTL DEF ControlSpec

\* A spawn that a stop calls stopped has ended, whatever other controllers stop
\* and start, abandoned ones included.
THEOREM StopIsConfirmed == ControlSpec => []StopConfirmed
<1>1. SeenInv => StopConfirmed
  BY DEF SeenInv, StopConfirmed, Past
<1> QED BY <1>1, SeenInvariant, PTL

-----------------------------------------------------------------------------
(* Diagnoses of a launch that became the browser, whatever starts overlap.  *)

\* The files, where they are, are not of an earlier spawn than one that became
\* the browser: it removed the error, and its own launch file replaced any.
LaunchedInv ==
  /\ launchFile <= proc.n
  /\ stage \in {"exec", "browser"} => launchFile \in {0, proc.n}
  /\ \A k \in launched :
       /\ k <= proc.n
       /\ errorFile # 0 => errorFile >= k
       /\ launchFile # 0 => launchFile >= k
  /\ \A c \in Ctl :
       /\ Answered(c)
       /\ answer[c].launched
       /\ answer[c].error # 0
       => answer[c].error >= answer[c].n

\* Every step keeps LaunchedInv.
LEMMA LaunchedStep ==
  ASSUME ControlTypeOK, LaunchedInv, ControlNext
  PROVE  LaunchedInv'
<1>0. /\ proc.n \in Nat /\ proc.n # 0 /\ launchFile \in Nat /\ errorFile \in Nat
      /\ \A k \in launched : k \in Nat
  BY ControlAssumption DEF ControlTypeOK, Info
<1> USE <1>0 DEF LaunchedInv, Answered
<1>1. ASSUME NEW c \in Ctl, Answers(c) PROVE LaunchedInv'
  <2>1. /\ answer'[c].launched = (seen[c].n \in launched)
        /\ answer'[c].error = Diagnosed(seen[c])
        /\ answer'[c].n = seen[c].n
    BY <1>1 DEF Answers, ControlTypeOK
  <2>2. \A d \in Ctl \ {c} : answer'[d] = answer[d]
    BY <1>1 DEF Answers, ControlTypeOK
  <2>3. seen[c].n \in launched /\ Diagnosed(seen[c]) # 0 =>
          Diagnosed(seen[c]) >= seen[c].n
    BY DEF Diagnosed
  <2> QED BY <1>1, <2>1, <2>2, <2>3 DEF Answers, procVars, fileVars, pastVars
<1>2. ASSUME UNCHANGED <<proc, stage, errorFile, launchFile, launched>>,
             NEW c \in Ctl, \A d \in Ctl : answer'[d] \in {answer[d], NoAnswer}
      PROVE  LaunchedInv'
  BY <1>2
<1>3. CASE ProcStep
  <2>1. CASE LaunchBegins
    BY <2>1 DEF LaunchBegins, ctlVars, pastVars
  <2>2. CASE LaunchFails
    BY <2>2 DEF LaunchFails, ctlVars, pastVars
  <2>3. CASE LaunchRecords
    BY <2>3 DEF LaunchRecords, ctlVars, pastVars
  <2>4. CASE Execs
    BY <2>4 DEF Execs, ctlVars
  <2>5. CASE Denies
    BY <2>5 DEF Denies, procVars, ctlVars, pastVars
  <2>6. ASSUME NEW code \in Code, Exits(code) PROVE LaunchedInv'
    <3>1. proc'.n = proc.n
      BY <2>6 DEF Exits, ControlTypeOK, Info
    <3>2. stage' = "none" /\ UNCHANGED <<fileVars, ctlVars, pastVars>>
      BY <2>6 DEF Exits
    <3> QED BY <3>1, <3>2 DEF fileVars, ctlVars, pastVars
  <2> QED BY <1>3, <2>1, <2>2, <2>3, <2>4, <2>5, <2>6 DEF ProcStep
<1>4. ASSUME NEW c \in Ctl, CtlStep(c) PROVE LaunchedInv'
  <2>1. CASE StopProcess(c)
    <3>1. proc'.n = proc.n
      BY <2>1 DEF StopProcess, ControlTypeOK, Info
    <3> QED BY <2>1, <3>1 DEF StopProcess, fileVars, pastVars
  <2>2. CASE Clears(c)
    BY <2>2 DEF Clears, procVars
  <2>3. CASE StartProcess(c)
    <3>1. proc'.n = proc.n + 1 /\ stage' \in {stage, "shell"} /\ stage = "none"
      BY <2>3 DEF StartProcess, ControlTypeOK
    <3> QED BY <2>3, <3>1 DEF StartProcess, fileVars, pastVars
  <2>4. CASE ~(Answers(c) \/ StopProcess(c) \/ Clears(c) \/ StartProcess(c))
    BY <1>2, <1>4, <2>4
    DEF CtlStep, ReadsForReport, FindsItUp, AsksToClose, PollsDown, PollDeadline,
        StopReturns, Verifies, StartChecks, Refuses, Reads, procVars, fileVars,
        pastVars
  <2> QED BY <1>1, <2>1, <2>2, <2>3, <2>4
<1>5. ASSUME NEW c \in Ctl, ControlFails(c) PROVE LaunchedInv'
  BY <1>2, <1>5 DEF ControlFails, procVars, fileVars, pastVars
<1>6. ASSUME NEW c \in Ctl, NEW command \in Command, Ask(c, command)
      PROVE  LaunchedInv'
  BY <1>2, <1>6 DEF Ask, procVars, fileVars, ControlTypeOK
<1> QED BY <1>3, <1>4, <1>5, <1>6 DEF ControlNext

\* LaunchedInv always holds.
LEMMA LaunchedInvariant == ControlSpec => []LaunchedInv
<1>1. ControlInit => LaunchedInv
  BY DEF ControlInit, LaunchedInv, Answered
<1>2. ControlTypeOK /\ LaunchedInv /\ [ControlNext]_controlVars => LaunchedInv'
  <2>1. CASE UNCHANGED controlVars
    BY <2>1 DEF controlVars, procVars, fileVars, ctlVars, pastVars, LaunchedInv,
                Answered
  <2> QED BY <2>1, LaunchedStep
<1> QED BY <1>1, <1>2, ControlTypeCorrect, PTL DEF ControlSpec

-----------------------------------------------------------------------------
(* Diagnoses, as long as starts have not overlapped.                        *)

\* What makes the properties of diagnoses inductive: one start at a time; the
\* files are of the current spawn, or gone; a denial that no start has cleared
\* is of the current spawn, and its launch file is still there to name it; and
\* while a start is between its look and its spawn, no process runs that could
\* write a file.
FileInv ==
  /\ \A c, d \in Ctl : Starting(c) /\ Starting(d) => c = d
  /\ launchFile \in {0, proc.n}
  /\ errorFile \in {0, proc.n}
  /\ stage \in {"exec", "browser"} => launchFile = proc.n
  /\ stage \in {"shell", "launch", "failing", "exec"} => proc.n \notin denied
  /\ \A k \in denied : k <= proc.n
  /\ \A k \in denied \ cleared : k = proc.n /\ launchFile = k
  /\ \A k \in 1..MaxSpawn : k < proc.n => k \in cleared
  /\ \A c \in Ctl : at[c] \in {"clear", "start"} =>
       cmd[c] = "start" /\ stage = "none"
  /\ \A c \in Ctl : at[c] = "clear" => seen[c].n = proc.n
  /\ \A c \in Ctl : at[c] = "start" =>
       launchFile = 0 /\ errorFile = 0 /\ proc.n \in cleared

\* Steps of the browser's process keep FileInv.
LEMMA FileProcStep ==
  ASSUME ControlTypeOK, FileInv, ProcStep
  PROVE  FileInv'
<1>0. proc.n \in Nat /\ proc.n # 0
  BY ControlAssumption DEF ControlTypeOK, Info
<1> USE <1>0 DEF FileInv, Starting, ctlVars, pastVars
<1>1. CASE LaunchBegins
  BY <1>1 DEF LaunchBegins
<1>2. CASE LaunchFails
  BY <1>2 DEF LaunchFails
<1>3. CASE LaunchRecords
  BY <1>3 DEF LaunchRecords
<1>4. CASE Execs
  BY <1>4 DEF Execs
<1>5. CASE Denies
  BY <1>5 DEF Denies, procVars
<1>6. ASSUME NEW code \in Code, Exits(code) PROVE FileInv'
  <2>1. proc'.n = proc.n
    BY <1>6 DEF Exits, ControlTypeOK, Info
  <2>2. stage' = "none" /\ UNCHANGED <<fileVars, ctlVars, pastVars>>
    BY <1>6 DEF Exits
  <2> QED BY <2>1, <2>2 DEF fileVars
<1> QED BY <1>1, <1>2, <1>3, <1>4, <1>5, <1>6 DEF ProcStep

\* A controller that neither clears nor starts keeps FileInv.
LEMMA FileQuietStep ==
  ASSUME ControlTypeOK, FileInv, UNCHANGED <<stage, fileVars, cleared>>,
         proc'.n = proc.n, NEW c \in Ctl,
         \A d \in Ctl \ {c} :
           cmd'[d] = cmd[d] /\ at'[d] = at[d] /\ seen'[d] = seen[d],
         at'[c] # "start", Starting(c)' => Starting(c),
         at'[c] = "clear" =>
           cmd'[c] = "start" /\ stage = "none" /\ seen'[c].n = proc.n
  PROVE  FileInv'
BY DEF FileInv, Starting, fileVars

\* The steps of a start keep FileInv: nobody else is starting.
LEMMA FileStartStep ==
  ASSUME ControlTypeOK, FileInv, NEW c \in Ctl
  PROVE  /\ Clears(c) => FileInv'
         /\ StartProcess(c) => FileInv'
<1>0. proc.n \in Nat /\ proc.n # 0
  BY ControlAssumption DEF ControlTypeOK, Info
<1>1. ASSUME Clears(c) PROVE FileInv'
  <2>1. /\ seen[c].n = proc.n /\ cleared' = cleared \cup {proc.n}
        /\ launchFile' = 0 /\ errorFile' = 0
        /\ UNCHANGED <<proc, stage, denied, cmd, seen>>
        /\ at' = [at EXCEPT ![c] = "start"]
    BY <1>1 DEF Clears, FileInv, Proceeds, procVars
  <2>2. at[c] = "clear" /\ Starting(c)
    BY <1>1 DEF Clears, FileInv, Starting
  <2>3. \A d \in Ctl : Starting(d)' <=> Starting(d)
    BY <2>1, <2>2 DEF Starting, ControlTypeOK
  <2>4. denied' \ cleared' = {}
    BY <2>1 DEF FileInv
  <2> QED BY <1>0, <2>1, <2>2, <2>3, <2>4 DEF FileInv, ControlTypeOK
<1>2. ASSUME StartProcess(c) PROVE FileInv'
  <2>1. /\ proc'.n = proc.n + 1
        /\ stage' \in {"none", "shell"}
        /\ at[c] = "start" /\ at' = [at EXCEPT ![c] = "idle"]
        /\ cmd' = [cmd EXCEPT ![c] = "status"]
        /\ UNCHANGED <<launchFile, errorFile, denied, cleared>>
    BY <1>2 DEF StartProcess, Ends, Proceeds, fileVars, pastVars, FileInv
  <2>2. /\ launchFile = 0 /\ errorFile = 0 /\ proc.n \in cleared
        /\ Starting(c)
    BY <2>1 DEF FileInv, Starting
  <2>3. denied \ cleared = {}
    BY <2>2 DEF FileInv
  <2>4. proc'.n \notin denied
    BY <1>0, <2>1 DEF FileInv, ControlTypeOK
  <2>5. \A d \in Ctl : ~Starting(d)' /\ at'[d] \notin {"clear", "start"}
    BY <2>1, <2>2 DEF FileInv, Starting, ControlTypeOK
  <2>6. \A k \in 1..MaxSpawn : k < proc'.n => k \in cleared'
    BY <1>0, <2>1, <2>2 DEF FileInv
  <2>7. \A k \in denied' : k <= proc'.n
    BY <1>0, <2>1 DEF FileInv, ControlTypeOK
  <2> QED BY <2>1, <2>2, <2>3, <2>4, <2>5, <2>6, <2>7 DEF FileInv
<1> QED BY <1>1, <1>2

\* Every step keeps FileInv, unless it is the second of two starts.
LEMMA FileStep ==
  ASSUME ControlTypeOK, FileInv, ControlNext, ~overlapped'
  PROVE  FileInv'
<1>1. CASE ProcStep
  BY <1>1, FileProcStep
<1>2. ASSUME NEW c \in Ctl, Ends(c), UNCHANGED <<stage, fileVars, cleared>>,
             proc'.n = proc.n
      PROVE  FileInv'
  BY <1>2, FileQuietStep DEF Ends, Proceeds, Starting, ControlTypeOK
<1>3. ASSUME NEW c \in Ctl, NEW place \in Place \ {"clear", "start"},
             Proceeds(c, place), at[c] # "idle",
             UNCHANGED <<stage, fileVars, cmd, cleared>>, proc'.n = proc.n,
             \A d \in Ctl \ {c} : seen'[d] = seen[d]
      PROVE  FileInv'
  BY <1>3, FileQuietStep DEF Proceeds, Starting, ControlTypeOK
<1>4. ASSUME NEW c \in Ctl, CtlStep(c) PROVE FileInv'
  <2> USE DEF Reads, procVars, pastVars, Place, ControlTypeOK
  <2>1. CASE ReadsForReport(c)
    BY <1>3, <2>1 DEF ReadsForReport
  <2>2. CASE FindsItUp(c)
    BY <1>3, <2>2 DEF FindsItUp
  <2>3. CASE AsksToClose(c)
    BY <1>3, <2>3 DEF AsksToClose
  <2>4. CASE PollsDown(c)
    BY <1>3, <2>4 DEF PollsDown
  <2>5. CASE PollDeadline(c)
    BY <1>3, <2>5 DEF PollDeadline
  <2>6. CASE StopProcess(c)
    <3>1. proc'.n = proc.n
      BY <2>6 DEF StopProcess, Info
    <3> QED BY <1>3, <2>6, <3>1 DEF StopProcess
  <2>7. CASE StopReturns(c)
    BY <1>3, <2>7 DEF StopReturns
  <2>8. CASE Verifies(c)
    BY <1>3, <2>8 DEF Verifies
  <2>9. CASE Answers(c)
    BY <1>2, <2>9 DEF Answers
  <2>10. CASE StartChecks(c)
    BY <2>10, FileQuietStep DEF StartChecks, Proceeds, Starting
  <2>11. CASE Clears(c)
    BY <2>11, FileStartStep
  <2>12. CASE StartProcess(c)
    BY <2>12, FileStartStep
  <2>13. CASE Refuses(c)
    BY <1>2, <2>13 DEF Refuses
  <2> QED
    BY <1>4, <2>1, <2>2, <2>3, <2>4, <2>5, <2>6, <2>7, <2>8, <2>9, <2>10, <2>11,
       <2>12, <2>13 DEF CtlStep
<1>5. ASSUME NEW c \in Ctl, ControlFails(c) PROVE FileInv'
  BY <1>2, <1>5 DEF ControlFails, procVars, pastVars
<1>6. ASSUME NEW c \in Ctl, NEW command \in Command, Ask(c, command)
      PROVE  FileInv'
  <2>1. command = "start" => \A d \in Ctl : ~Starting(d)
    BY <1>6 DEF Ask
  <2>2. /\ at[c] = "idle" /\ at' = [at EXCEPT ![c] = "asked"]
        /\ cmd' = [cmd EXCEPT ![c] = command]
        /\ UNCHANGED <<proc, stage, launchFile, errorFile, denied, cleared, seen>>
    BY <1>6 DEF Ask, Proceeds, procVars, fileVars
  <2>3. \A d \in Ctl : Starting(d)' => Starting(d) \/ (d = c /\ command = "start")
    BY <2>2 DEF Starting, ControlTypeOK
  <2>4. \A d, e \in Ctl : Starting(d)' /\ Starting(e)' => d = e
    BY <2>1, <2>3 DEF FileInv
  <2>5. \A d \in Ctl : at'[d] \in {"clear", "start"} =>
          at'[d] = at[d] /\ cmd'[d] = cmd[d]
    BY <2>2 DEF ControlTypeOK
  <2> QED BY <2>2, <2>4, <2>5 DEF FileInv
<1> QED BY <1>1, <1>4, <1>5, <1>6 DEF ControlNext

\* An answer reports no failure of an earlier spawn than its own, reports a denial
\* that no start has cleared, and is graceful only without an error.
AnswerInv ==
  \A c \in Ctl : Answered(c) =>
    /\ answer[c].error # 0 => answer[c].error >= answer[c].n
    /\ answer[c].state \in Down /\ answer[c].n \in denied \ cleared
         => answer[c].error # 0
    /\ answer[c].graceful => answer[c].error = 0 /\ answer[c].state = "EXITED"

\* What is diagnosed is of the spawn that was read or of a later one, and a
\* denial that no start has cleared is not overlooked.
LEMMA DiagnosedFacts ==
  ASSUME ControlTypeOK, FileInv, SeenInv, NEW c \in Ctl
  PROVE  /\ Diagnosed(seen[c]) # 0 => Diagnosed(seen[c]) >= seen[c].n
         /\ seen[c].n \in denied \ cleared => Diagnosed(seen[c]) # 0
<1>1. proc.n \in Nat /\ seen[c].n \in Nat /\ seen[c].n <= proc.n
  BY ControlAssumption DEF ControlTypeOK, Info, SeenInv, Past
<1>2. 0 \notin denied
  BY DEF ControlTypeOK
<1> QED BY <1>1, <1>2 DEF Diagnosed, FileInv

\* Every step keeps AnswerInv: a denial comes only of a process that runs.
LEMMA AnswerStep ==
  ASSUME ControlTypeOK, FileInv, SeenInv, AnswerInv, ControlNext
  PROVE  AnswerInv'
<1> USE DEF AnswerInv, Answered
<1>1. ASSUME NEW c \in Ctl, Answers(c) PROVE AnswerInv'
  <2>1. /\ answer'[c].error = Diagnosed(seen[c])
        /\ answer'[c].n = seen[c].n
        /\ answer'[c].state = seen[c].state
        /\ answer'[c].graceful = Graceful(c)
    BY <1>1 DEF Answers, ControlTypeOK
  <2>2. \A d \in Ctl \ {c} : answer'[d] = answer[d]
    BY <1>1 DEF Answers, ControlTypeOK
  <2>3. UNCHANGED <<denied, cleared>>
    BY <1>1 DEF Answers, fileVars, pastVars
  <2>4. Graceful(c) => Diagnosed(seen[c]) = 0 /\ seen[c].state = "EXITED"
    BY DEF Graceful
  <2> QED BY <2>1, <2>2, <2>3, <2>4, DiagnosedFacts
<1>2. CASE Denies
  <2>1. \A c \in Ctl : Answered(c) /\ answer[c].state \in Down =>
          answer[c].n # proc.n
    BY <1>2 DEF Denies, SeenInv, Past, ControlTypeOK
  <2> QED BY <1>2, <2>1 DEF Denies, ctlVars, pastVars
<1>3. ASSUME UNCHANGED <<answer, denied>>, cleared \subseteq cleared'
      PROVE  AnswerInv'
  BY <1>3
<1>4. ASSUME NEW c \in Ctl, NEW command \in Command, Ask(c, command)
      PROVE  AnswerInv'
  BY <1>4 DEF Ask, fileVars, ControlTypeOK
<1>5. CASE ProcStep
  BY <1>2, <1>3, <1>5
  DEF ProcStep, LaunchBegins, LaunchFails, LaunchRecords, Execs, Exits, fileVars,
      ctlVars, pastVars
<1>6. ASSUME NEW c \in Ctl, CtlStep(c) PROVE AnswerInv'
  BY <1>1, <1>3, <1>6
  DEF CtlStep, ReadsForReport, FindsItUp, AsksToClose, PollsDown, PollDeadline,
      StopProcess, StopReturns, Verifies, StartChecks, Clears, StartProcess,
      Refuses, Reads, fileVars, pastVars
<1>7. ASSUME NEW c \in Ctl, ControlFails(c) PROVE AnswerInv'
  BY <1>3, <1>7 DEF ControlFails, fileVars, pastVars
<1> QED BY <1>4, <1>5, <1>6, <1>7 DEF ControlNext

\* That starts overlapped is not forgotten.
LEMMA OverlapStays ==
  ASSUME [ControlNext]_controlVars, overlapped
  PROVE  overlapped'
BY DEF ControlNext, ProcStep, LaunchBegins, LaunchFails, LaunchRecords, Execs, Denies,
       Exits, CtlStep, ReadsForReport, FindsItUp, AsksToClose, PollsDown,
       PollDeadline, StopProcess, StopReturns, Verifies, Answers, StartChecks,
       Clears, StartProcess, Refuses, ControlFails, Ask, Reads, pastVars, controlVars

\* FileInv and AnswerInv hold as long as starts have not overlapped.
LEMMA DiagnosisInvariant == ControlSpec => [](overlapped \/ (FileInv /\ AnswerInv))
<1>1. ControlInit => FileInv /\ AnswerInv
  <2> SUFFICES ASSUME ControlInit PROVE FileInv /\ AnswerInv
    OBVIOUS
  <2>1. AnswerInv
    BY DEF ControlInit, AnswerInv, Answered
  <2>2. proc.n = 1 /\ denied = {} /\ cleared = {} /\ stage = "shell"
    BY DEF ControlInit
  <2>3. \A k \in 1..MaxSpawn : ~(k < proc.n)
    BY <2>2, ControlAssumption
  <2> QED BY <2>1, <2>2, <2>3 DEF ControlInit, FileInv, Starting
<1>2. /\ ControlTypeOK /\ SeenInv /\ (overlapped \/ (FileInv /\ AnswerInv))
      /\ [ControlNext]_controlVars
      => (overlapped \/ (FileInv /\ AnswerInv))'
  <2> SUFFICES ASSUME ControlTypeOK, SeenInv, FileInv, AnswerInv,
                      [ControlNext]_controlVars, ~overlapped'
               PROVE  (FileInv /\ AnswerInv)'
    BY OverlapStays
  <2>1. CASE ControlNext
    BY <2>1, FileStep, AnswerStep
  <2>2. CASE UNCHANGED controlVars
    BY <2>2 DEF controlVars, procVars, fileVars, ctlVars, pastVars, FileInv,
                Starting, AnswerInv, Answered
  <2> QED BY <2>1, <2>2
<1> QED BY <1>1, <1>2, ControlTypeCorrect, SeenInvariant, PTL DEF ControlSpec

\* A failure that is reported of a launch that became the browser is not that of
\* an earlier spawn, whatever starts overlap; of others, unless starts overlap.
THEOREM DiagnosesCurrent == ControlSpec => []DiagnosisCurrent
<1>1. LaunchedInv /\ (overlapped \/ AnswerInv) => DiagnosisCurrent
  BY DEF LaunchedInv, AnswerInv, DiagnosisCurrent
<1> QED BY <1>1, LaunchedInvariant, DiagnosisInvariant, PTL

\* As long as starts have not overlapped, a license denial is reported, also after
\* the browser has ended, until a start, and a stop that met one is not called
\* graceful.
THEOREM DenialsAreTold == ControlSpec => []DenialToldAlone
<1>1. overlapped \/ AnswerInv => DenialToldAlone
  BY DEF AnswerInv, DenialToldAlone, DenialTold, Down
<1> QED BY <1>1, DiagnosisInvariant, PTL

-----------------------------------------------------------------------------
(* The Camoufox worker: types.                                             *)

\* Every step of the worker keeps the types.
LEMMA WorkerTypeStep ==
  ASSUME WorkerTypeOK, WorkerStep
  PROVE  WorkerTypeOK'
<1> USE WorkerAssumption DEF WorkerTypeOK, Life, Result, callVars, opVars
<1>1. CASE WorkerBegins
  BY <1>1 DEF WorkerBegins
<1>2. CASE BrowserOpens
  BY <1>2 DEF BrowserOpens
<1>3. CASE Binds
  BY <1>3 DEF Binds
<1>4. ASSUME NEW c \in Caller, Accepts(c) PROVE WorkerTypeOK'
  BY <1>4 DEF Accepts
<1>5. CASE ServesStop
  BY <1>5 DEF ServesStop, Yields
<1>6. CASE ServesCommand
  BY <1>6 DEF ServesCommand, Yields
<1>7. CASE SendsReply
  BY <1>7 DEF SendsReply, Leaves, Call
<1>8. CASE LoopEnds
  BY <1>8 DEF LoopEnds, Leaves
<1>9. CASE WorkerEnds
  BY <1>9 DEF WorkerEnds
<1>10. CASE WorkerKilled
  BY <1>10 DEF WorkerKilled
<1>11. ASSUME NEW w \in browsers, BrowserCloses(w) PROVE WorkerTypeOK'
  BY <1>11 DEF BrowserCloses
<1> QED
  BY <1>1, <1>2, <1>3, <1>4, <1>5, <1>6, <1>7, <1>8, <1>9, <1>10, <1>11
  DEF WorkerStep

\* Every step of a caller keeps the types.
LEMMA CallerTypeStep ==
  ASSUME WorkerTypeOK, CallerStep
  PROVE  WorkerTypeOK'
<1> USE WorkerAssumption DEF WorkerTypeOK, Call, Want, Result, processVars, opVars
<1>1. ASSUME NEW c \in Caller, SendsCommand(c) PROVE WorkerTypeOK'
  BY <1>1 DEF SendsCommand, Calls
<1>2. ASSUME NEW c \in Caller, Connects(c) PROVE WorkerTypeOK'
  BY <1>2 DEF Connects
<1>3. ASSUME NEW c \in Caller, ConnectionFails(c) PROVE WorkerTypeOK'
  BY <1>3 DEF ConnectionFails, CallEnds
<1>4. ASSUME NEW c \in Caller, TimesOut(c) PROVE WorkerTypeOK'
  BY <1>4 DEF TimesOut
<1> QED BY <1>1, <1>2, <1>3, <1>4 DEF CallerStep

\* Every step of the server keeps the types.
LEMMA ServerTypeStep ==
  ASSUME WorkerTypeOK, ServerStep
  PROVE  WorkerTypeOK'
<1> USE WorkerAssumption DEF WorkerTypeOK, Op, Idle, Steps, processVars, callVars
<1>1. ASSUME NEW goal \in {"remove", "restart"}, Begins(goal) PROVE WorkerTypeOK'
  BY <1>1 DEF Begins
<1>2. CASE Looks
  BY <1>2 DEF Looks
<1>3. ASSUME NEW c \in Caller, AsksToStop(c) PROVE WorkerTypeOK'
  BY <1>3 DEF AsksToStop, Calls, Call, Want, Result
<1>4. CASE StopAnswered
  BY <1>4 DEF StopAnswered
<1>5. CASE ServerGivesUp
  BY <1>5 DEF ServerGivesUp
<1>6. CASE Removes
  BY <1>6 DEF Removes, Life, Call, Result
<1>7. CASE SignalsWorker
  BY <1>7 DEF SignalsWorker, Life
<1>8. CASE Restarts
  <2>1. CASE StartsWorker
    BY <1>8, <2>1 DEF Restarts, StartsWorker, Life
  <2>2. CASE op' = Idle /\ UNCHANGED <<stopper, processVars, callVars>>
    BY <2>2
  <2> QED BY <1>8, <2>1, <2>2 DEF Restarts
<1>9. CASE Resumes
  BY <1>9 DEF Resumes, StartsWorker, Life
<1> QED
  BY <1>1, <1>2, <1>3, <1>4, <1>5, <1>6, <1>7, <1>8, <1>9 DEF ServerStep

\* Every variable of the worker, its callers and the server always has its type;
\* a worker that executes a command knows whose it is.
THEOREM WorkerTypeCorrect == WorkerSpec => []WorkerTypeOK
<1>1. WorkerInit => WorkerTypeOK
  BY WorkerAssumption
  DEF WorkerInit, WorkerTypeOK, Life, Result, Want, Call, Op, Idle
<1>2. WorkerTypeOK /\ [WorkerNext]_workerVars => WorkerTypeOK'
  <2> SUFFICES ASSUME WorkerTypeOK, [WorkerNext]_workerVars
               PROVE  WorkerTypeOK'
    OBVIOUS
  <2>1. CASE UNCHANGED workerVars
    BY <2>1 DEF workerVars, processVars, callVars, opVars, WorkerTypeOK
  <2> QED BY <2>1, WorkerTypeStep, CallerTypeStep, ServerTypeStep DEF WorkerNext
<1> QED BY <1>1, <1>2, PTL DEF WorkerSpec

-----------------------------------------------------------------------------
(* The Camoufox worker: the profile is closed before anything else is done.*)

\* Nothing has the profile open, or is about to open it.
Closed == browsers = {} /\ life \notin {"shell", "launch"}

\* The last worker's browser only.
OneBrowser == browsers \subseteq {worker} /\ (life \in {"shell", "launch"} => browsers = {})

\* The command being executed is that of a caller connected to this worker.
Served ==
  life \in {"serve", "reply"} => call[serving] \in {"sent", "gone"} /\ peer[serving] = worker

\* A stop that went well closed the browser.
StopDone ==
  life = "reply" /\ want[serving] = "stop" /\ result = "ok" => browsers = {}

\* What the server waits for is a stop, and its acknowledgement can be relied on.
Confirmed ==
  op.step = "wait" => want[stopper] = "stop" /\ (heard[stopper] = "ok" => Closed)

\* It acts on a closed profile.
Acting == op.step \in {"act", "starting", "removed"} => Closed

WorkerInv == OneBrowser /\ Served /\ StopDone /\ Confirmed /\ Acting

\* Every step of the worker keeps the invariant: only a worker that has just
\* started opens a browser, and a stop that went well has closed it.
LEMMA WorkerInvStep ==
  ASSUME WorkerTypeOK, WorkerInv, WorkerStep
  PROVE  WorkerInv'
<1> USE DEF WorkerTypeOK, WorkerInv, OneBrowser, Served, StopDone, Confirmed,
            Acting, Closed, callVars, opVars
<1>1. CASE WorkerBegins
  BY <1>1 DEF WorkerBegins
<1>2. CASE BrowserOpens
  BY <1>2 DEF BrowserOpens
<1>3. CASE Binds
  BY <1>3 DEF Binds
<1>4. ASSUME NEW c \in Caller, Accepts(c) PROVE WorkerInv'
  BY <1>4 DEF Accepts
<1>5. CASE ServesStop
  BY <1>5 DEF ServesStop, Yields
<1>6. CASE ServesCommand
  BY <1>6 DEF ServesCommand, Yields
<1>7. CASE SendsReply
  BY <1>7 DEF SendsReply, Leaves
<1>8. CASE LoopEnds
  BY <1>8 DEF LoopEnds, Leaves
<1>9. CASE WorkerEnds
  BY <1>9 DEF WorkerEnds
<1>10. CASE WorkerKilled
  BY <1>10 DEF WorkerKilled
<1>11. ASSUME NEW w \in browsers, BrowserCloses(w) PROVE WorkerInv'
  BY <1>11 DEF BrowserCloses
<1> QED
  BY <1>1, <1>2, <1>3, <1>4, <1>5, <1>6, <1>7, <1>8, <1>9, <1>10, <1>11
  DEF WorkerStep

\* Every step of a caller keeps it: no caller hears of a stop but from the worker.
LEMMA CallerInvStep ==
  ASSUME WorkerTypeOK, WorkerInv, CallerStep
  PROVE  WorkerInv'
<1> USE DEF WorkerTypeOK, WorkerInv, OneBrowser, Served, StopDone, Confirmed,
            Acting, Closed, processVars, opVars
<1>1. ASSUME NEW c \in Caller, SendsCommand(c) PROVE WorkerInv'
  BY <1>1 DEF SendsCommand, Calls
<1>2. ASSUME NEW c \in Caller, Connects(c) PROVE WorkerInv'
  BY <1>2 DEF Connects
<1>3. ASSUME NEW c \in Caller, ConnectionFails(c) PROVE WorkerInv'
  BY <1>3 DEF ConnectionFails, CallEnds
<1>4. ASSUME NEW c \in Caller, TimesOut(c) PROVE WorkerInv'
  BY <1>4 DEF TimesOut
<1> QED BY <1>1, <1>2, <1>3, <1>4 DEF CallerStep

\* Every step of the server keeps it: it acts on what it saw or was told.
LEMMA ServerInvStep ==
  ASSUME WorkerTypeOK, WorkerInv, ServerStep
  PROVE  WorkerInv'
<1> USE DEF WorkerTypeOK, WorkerInv, OneBrowser, Served, StopDone, Confirmed,
            Acting, Closed, Steps, Idle, Op, processVars, callVars
<1>1. ASSUME NEW goal \in {"remove", "restart"}, Begins(goal) PROVE WorkerInv'
  BY <1>1 DEF Begins
<1>2. CASE Looks
  BY <1>2 DEF Looks
<1>3. ASSUME NEW c \in Caller, AsksToStop(c) PROVE WorkerInv'
  BY <1>3 DEF AsksToStop, Calls
<1>4. CASE StopAnswered
  BY <1>4 DEF StopAnswered
<1>5. CASE ServerGivesUp
  BY <1>5 DEF ServerGivesUp
<1>6. CASE Removes
  BY <1>6 DEF Removes
<1>7. CASE SignalsWorker
  BY <1>7 DEF SignalsWorker
<1>8. CASE Restarts
  <2>1. CASE StartsWorker
    <3>1. browsers = {}
      BY <1>8 DEF Restarts
    <3> QED BY <2>1, <3>1 DEF StartsWorker
  <2>2. CASE op' = Idle /\ UNCHANGED <<stopper, processVars, callVars>>
    BY <2>2
  <2> QED BY <1>8, <2>1, <2>2 DEF Restarts
<1>9. CASE Resumes
  BY <1>9 DEF Resumes, StartsWorker
<1> QED
  BY <1>1, <1>2, <1>3, <1>4, <1>5, <1>6, <1>7, <1>8, <1>9 DEF ServerStep

\* The invariant holds in every reachable state.
LEMMA WorkerInvariant == WorkerSpec => []WorkerInv
<1>1. WorkerInit => WorkerInv
  BY DEF WorkerInit, WorkerInv, OneBrowser, Served, StopDone, Confirmed, Acting,
         Closed, Idle
<1>2. WorkerTypeOK /\ WorkerInv /\ [WorkerNext]_workerVars => WorkerInv'
  <2> SUFFICES ASSUME WorkerTypeOK, WorkerInv, [WorkerNext]_workerVars
               PROVE  WorkerInv'
    OBVIOUS
  <2>1. CASE UNCHANGED workerVars
    BY <2>1 DEF workerVars, processVars, callVars, opVars, WorkerInv, OneBrowser,
                Served, StopDone, Confirmed, Acting, Closed
  <2> QED BY <2>1, WorkerInvStep, CallerInvStep, ServerInvStep DEF WorkerNext
<1> QED BY <1>1, <1>2, WorkerTypeCorrect, PTL DEF WorkerSpec

\* The container is removed, and another worker started, only when no browser has
\* the profile open, whatever callers gave up and whichever worker was killed.
THEOREM ProfileIsClosedFirst == WorkerSpec => ProfileClosedFirst
<1>1. /\ WorkerTypeOK /\ WorkerInv /\ [WorkerNext]_workerVars
      => [op'.step = "removed" \/ worker' # worker => browsers = {}]_workerVars
  <2> SUFFICES ASSUME WorkerTypeOK, WorkerInv, WorkerNext,
                      op'.step = "removed" \/ worker' # worker
               PROVE  browsers = {}
    BY DEF workerVars
  <2>1. CASE op.step \in {"act", "starting", "removed"}
    BY <2>1 DEF WorkerInv, Acting, Closed
  <2>2. ASSUME op.step \notin {"act", "starting", "removed"} PROVE FALSE
    <3>1. CASE WorkerStep
      BY <3>1, <2>2
      DEF WorkerStep, WorkerBegins, BrowserOpens, Binds, Accepts, ServesStop,
          ServesCommand, SendsReply, LoopEnds, WorkerEnds, WorkerKilled,
          BrowserCloses, opVars
    <3>2. CASE CallerStep
      BY <3>2, <2>2
      DEF CallerStep, SendsCommand, Connects, ConnectionFails, TimesOut, opVars,
          processVars
    <3>3. CASE ServerStep
      BY <3>3, <2>2
      DEF ServerStep, Begins, Looks, AsksToStop, StopAnswered, ServerGivesUp,
          Removes, SignalsWorker, Restarts, Resumes, Steps, Idle, Op,
          WorkerTypeOK, processVars
    <3> QED BY <3>1, <3>2, <3>3 DEF WorkerNext
  <2> QED BY <2>1, <2>2
<1> QED BY <1>1, WorkerTypeCorrect, WorkerInvariant, PTL
        DEF WorkerSpec, ProfileClosedFirst

-----------------------------------------------------------------------------
(* The session proxy.                                                      *)

\* What makes ExpiredTwice inductive.  A request that has used up its replacement
\* holds the one cookie that was rejected, and the one it uses now is another:
\* the server knew the first when it drew the second.
RequestInv(r) ==
  /\ phase[r] = "idle" => rejected[r] = {} /\ reply[r] = "none"
  /\ phase[r] = "hop" => kind[r] = "page"
  /\ kind[r] = "upgrade" => rejected[r] = {} /\ ~refresh[r] /\ reply[r] # "401"
  /\ kind[r] # "upgrade" /\ ~refresh[r] /\ phase[r] # "idle" =>
       /\ \E k \in Key : rejected[r] = {k}
       /\ phase[r] # "open"
       /\ phase[r] # "apply" => key[r] \notin rejected[r]
  /\ \A k \in rejected[r] : table[k] # "free"

ProxyInv ==
  /\ ProxyTypeOK
  /\ ExpiredTwice
  /\ cached # NoKey => table[cached] # "free"
  /\ \A r \in Request : RequestInv(r)

\* The rejections that are counted: one, or one more than the one before.
LEMMA CountRejections ==
  /\ Cardinality({}) = 0
  /\ \A k \in Key : Cardinality({} \cup {k}) = 1
  /\ \A j, k \in Key : j # k => Cardinality({j} \cup {k}) = 2
<1>1. Cardinality({}) = 0
  BY FS_EmptySet
<1>2. \A k : Cardinality({k}) = 1 /\ IsFiniteSet({k})
  BY FS_Singleton
<1>3. ASSUME NEW j \in Key, NEW k \in Key, j # k
      PROVE  Cardinality({j} \cup {k}) = 2
  <2>1. k \notin {j}
    BY <1>3
  <2>2. Cardinality({j} \cup {k}) = Cardinality({j}) + 1
    BY <1>2, <2>1, FS_AddElement
  <2>3. Cardinality({j}) = 1
    BY <1>2
  <2> QED BY <2>2, <2>3
<1>4. ASSUME NEW k \in Key PROVE Cardinality({} \cup {k}) = 1
  <2>1. {} \cup {k} = {k}
    OBVIOUS
  <2> QED BY <1>2, <2>1
<1> QED BY <1>1, <1>3, <1>4

\* Steps of the server keep the invariant: it never forgets a cookie that a
\* request still holds, or has had rejected.
LEMMA ProxyServerStep ==
  ASSUME ProxyInv, SessionServerStep
  PROVE  ProxyInv'
<1> USE DEF ProxyInv, ProxyTypeOK, requestVars, RequestInv, ExpiredTwice, Entry
<1>1. ASSUME NEW k \in Key, Expires(k) PROVE ProxyInv'
  BY <1>1 DEF Expires
<1>2. ASSUME NEW k \in Key, Forgotten(k) PROVE ProxyInv'
  BY <1>2 DEF Forgotten
<1>3. CASE OthersPrune
  BY <1>3 DEF OthersPrune, Pruned
<1>4. CASE ServerRestarts
  <2>1. crashes' \in 0..MaxCrashes
    BY <1>4, ProxyAssumption DEF ServerRestarts
  <2> QED BY <1>4, <2>1 DEF ServerRestarts
<1> QED BY <1>1, <1>2, <1>3, <1>4 DEF SessionServerStep

\* What the browser is answered is well-typed and expired only after two
\* rejections.
LEMMA FinishStep ==
  ASSUME ProxyInv, NEW r \in Request, UNCHANGED serverVars,
         cached' \in {cached, NoKey}, NEW out \in Reply,
         NEW rejections, Finishes(r, out, rejections),
         Cardinality(rejections) \in 0..2,
         out = "401" => Cardinality(rejections) = 2
  PROVE  ProxyInv'
<1> USE DEF ProxyInv, ProxyTypeOK, serverVars, Finishes, MovesTo, RequestPhase,
            Kind, Reply
<1>1. \A q \in Request \ {r} :
        /\ RequestInv(q)'
        /\ response'[q].out = "401" => response'[q].rejections = 2
  BY DEF RequestInv, ExpiredTwice
<1>2. RequestInv(r)'
  BY DEF RequestInv
<1>3. /\ response'[r].out = "401" => response'[r].rejections = 2
      /\ response' \in [Request -> Response]
  BY DEF Response
<1>4. ProxyTypeOK'
  BY <1>3
<1> QED BY <1>1, <1>2, <1>3, <1>4 DEF ExpiredTwice

\* Steps of a request keep the invariant.
LEMMA RequestInvStep ==
  ASSUME ProxyInv, NEW r \in Request, RequestStep(r)
  PROVE  ProxyInv'
<1> USE ProxyAssumption
    DEF ProxyInv, ProxyTypeOK, serverVars, requestVars, MovesTo, RequestPhase, Kind,
        Reply, Entry
<1>1. CASE Opens(r)
  BY <1>1 DEF Opens, RequestInv, ExpiredTwice
<1>2. ASSUME NEW k \in Key, Enters(r, k) PROVE ProxyInv'
  BY <1>2 DEF Enters, Pruned, RequestInv, ExpiredTwice
<1>3. CASE Caches(r)
  BY <1>3 DEF Caches, RequestInv, ExpiredTwice
<1>4. CASE Replies(r)
  BY <1>4 DEF Replies, Validated, Pruned, RequestInv, ExpiredTwice
<1>5. CASE Hops(r)
  BY <1>5 DEF Hops, Validated, Pruned, RequestInv, ExpiredTwice
<1>6. CASE Replaces(r)
  BY <1>6 DEF Replaces, RequestInv, ExpiredTwice
<1>7. CASE Relays(r)
  <2>1. key[r] \in Key /\ kind[r] # "upgrade" => key[r] \notin rejected[r] \/ refresh[r]
    BY <1>7 DEF Relays, RequestInv
  <2>2. CASE kind[r] = "upgrade" \/ ~Rejection(reply[r])
    <3>1. /\ Finishes(r, "other", {})
          /\ cached' = cached \/ cached' = NoKey
          /\ UNCHANGED serverVars
      BY <1>7, <2>2 DEF Relays, Rejection
    <3> QED BY <3>1, FinishStep, CountRejections
  <2>3. CASE kind[r] # "upgrade" /\ Rejection(reply[r])
    BY <1>7, <2>1, <2>3, FinishStep, CountRejections DEF Relays, RequestInv, Rejection
  <2> QED BY <2>2, <2>3
<1>8. CASE Fails(r)
  BY <1>8, FinishStep, CountRejections DEF Fails
<1> QED
  BY <1>1, <1>2, <1>3, <1>4, <1>5, <1>6, <1>7, <1>8 DEF RequestStep

\* A new request keeps it: it has had nothing rejected, and may replace one
\* cookie unless it is a WebSocket.
LEMMA AsksInvStep ==
  ASSUME ProxyInv, NEW r \in Request, NEW what \in Kind, Asks(r, what)
  PROVE  ProxyInv'
<1> USE DEF ProxyInv, ProxyTypeOK, serverVars, MovesTo, RequestPhase, Kind, Reply
<1>1. response' \in [Request -> Response] /\ response'[r].out = "none"
  BY DEF Asks, Unanswered, Response
<1>2. \A q \in Request \ {r} : RequestInv(q)' /\ response'[q] = response[q]
  BY DEF Asks, RequestInv
<1>3. RequestInv(r)'
  <2>1. rejected'[r] = {} /\ phase'[r] = "open" /\ kind'[r] = what
    BY DEF Asks, RequestInv
  <2>2. refresh'[r] = (what # "upgrade") /\ reply'[r] = reply[r]
    BY DEF Asks
  <2>3. what = "upgrade" => reply'[r] # "401"
    BY <2>2 DEF Asks, RequestInv
  <2> QED BY <2>1, <2>2, <2>3 DEF RequestInv
<1>4. ProxyTypeOK'
  BY <1>1, <1>3 DEF Asks, RequestInv
<1> QED BY <1>1, <1>2, <1>3, <1>4 DEF Asks, ExpiredTwice

\* The invariant always holds.
LEMMA ProxyInvariant == ProxySpec => []ProxyInv
<1>1. ProxyInit => ProxyInv
  BY ProxyAssumption
  DEF ProxyInit, ProxyInv, ProxyTypeOK, RequestInv, ExpiredTwice, Unanswered,
      Entry, Kind, RequestPhase, Reply, Response
<1>2. ProxyInv /\ [ProxyNext]_proxyVars => ProxyInv'
  <2> SUFFICES ASSUME ProxyInv, [ProxyNext]_proxyVars PROVE ProxyInv'
    OBVIOUS
  <2>1. CASE ProxyNext
    BY <2>1, ProxyServerStep, RequestInvStep, AsksInvStep DEF ProxyNext
  <2>2. CASE UNCHANGED proxyVars
    BY <2>2
    DEF proxyVars, serverVars, requestVars, ProxyInv, ProxyTypeOK, RequestInv,
        ExpiredTwice
  <2> QED BY <2>1, <2>2
<1> QED BY <1>1, <1>2, PTL DEF ProxySpec

\* Every variable of the session proxy always has its type, and a cookie that a
\* request uses is one that the server gave out.
THEOREM ProxyTypeCorrect == ProxySpec => []ProxyTypeOK
<1>1. ProxyInv => ProxyTypeOK
  BY DEF ProxyInv
<1> QED BY <1>1, ProxyInvariant, PTL

\* A browser is told that its session expired only when two different cookies
\* were rejected for its request.
THEOREM ExpiredOnlyTwice == ProxySpec => []ExpiredTwice
<1>1. ProxyInv => ExpiredTwice
  BY DEF ProxyInv
<1> QED BY <1>1, ProxyInvariant, PTL

-----------------------------------------------------------------------------
(* Profile, controllers, worker and session proxy side by side, as TLC checks  *)
(* them.                                                                       *)

\* Each of them is in ContainerMC what it is alone.
LEMMA ContainerParts == MCSpec => Spec /\ ControlSpec /\ WorkerSpec /\ ProxySpec
<1>1. MCInit => Init /\ ControlInit /\ WorkerInit /\ ProxyInit
  BY DEF MCInit
<1>2. [MCNext]_allVars => /\ [Next]_vars /\ [ControlNext]_controlVars
                          /\ [WorkerNext]_workerVars /\ [ProxyNext]_proxyVars
  BY DEF MCNext, allVars
<1> QED
  BY <1>1, <1>2, PTL DEF MCSpec, Spec, ControlSpec, WorkerSpec, ProxySpec

\* The variables of all four have their types, whichever of them moves.
THEOREM ContainerTypeCorrect == MCSpec => []TypesOK
<1>1. TypeOK /\ ControlTypeOK /\ WorkerTypeOK /\ ProxyTypeOK => TypesOK
  BY DEF TypesOK
<1> QED
  BY <1>1, ContainerParts, TypeCorrect, ControlTypeCorrect, WorkerTypeCorrect,
     ProxyTypeCorrect, PTL

\* What the theorems above say of each alone holds of the four, without an
\* assumption on who starts what when: profiles keep their identity, stops are
\* confirmed, diagnoses are those of the current spawn and, while starts do not
\* overlap, tell of its denial, no profile is open when its container goes, and a
\* session is expired after two rejections only.
THEOREM ContainerIsSafe ==
  MCSpec =>
    /\ [](/\ CurrentIsReleased /\ FailureLeavesCurrent
          /\ IdentityKept /\ PreparedStaysUsable
          /\ StopConfirmed /\ DiagnosisCurrent /\ DenialToldAlone
          /\ ExpiredTwice)
    /\ ProfileClosedFirst
BY ContainerParts, CurrentReleased, FailuresLeaveCurrent, IdentityIsKept,
   PreparedUsable, StopIsConfirmed, DiagnosesCurrent, DenialsAreTold,
   ProfileIsClosedFirst, ExpiredOnlyTwice, PTL
===============================================================================
