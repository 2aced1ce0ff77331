------------------------------ MODULE CloakControl ------------------------------
(***************************************************************************)
(* Cloak control inside one container (runtime-common/cloak_control.py):   *)
(* controllers that the API server runs with docker exec to stop, start    *)
(* and diagnose the browser, over supervisor, which runs it.  Diagnoses    *)
(* are read from files in /run/sandbox that the launcher of                *)
(* cloak_runtime.py and the browser leave there.                           *)
(*                                                                         *)
(* The server runs one controller at a time, but gives up on one that is   *)
(* slow (8 seconds, 45 for a stop), while it goes on in the container: so  *)
(* controllers overlap, also two starts, since a restart of the browser    *)
(* that was given up on can be asked for again.                            *)
(***************************************************************************)
EXTENDS Integers

CONSTANTS
  Ctl,       \* slots of running controllers
  NoAnswer,  \* no answer
  MaxSpawn   \* bound: how often the browser is spawned

ASSUME ControlAssumption == MaxSpawn \in Nat \ {0}

VARIABLES
  proc,        \* supervisor's program "chromium": state, spawns so far, exit code
  stage,       \* what the spawned process is doing
  launchFile,  \* cloak-launch.json: the spawn that wrote it, 0 if there is none
  errorFile,   \* cloak-error.json: the same
  denied,      \* spawns whose cloak-denial-<launch_id>.json exists
  cmd, at,     \* per controller: its command and how far it is
  seen,        \* the process information that it goes by
  answer,      \* its last answer, if it had one that says something
  cleared,     \* history: spawns that a start found down before it removed files
  launched,    \* history: spawns that became the browser
  overlapped   \* history: a start was asked for while another one ran

procVars == <<proc, stage>>
fileVars == <<launchFile, errorFile, denied>>
ctlVars == <<cmd, at, seen, answer>>
pastVars == <<cleared, launched, overlapped>>
controlVars == <<procVars, fileVars, ctlVars, pastVars>>

\* startsecs=0 and no restarts: STARTING and BACKOFF do not last.
Down == {"STOPPED", "EXITED", "FATAL"}
State == Down \cup {"RUNNING", "STOPPING"}

\* The shell script waits for the input method; the launcher reads the profile
\* and has removed cloak-launch.json; it failed; it has written the file; it
\* became the browser.
ProcStage == {"none", "shell", "launch", "failing", "exec", "browser"}

\* 1 stands for a crash, "denied" for the exit codes of DENIALS.
Code == {"0", "1", "denied"}

Info == [state : State, n : 0..MaxSpawn, code : Code]

Unread == [state |-> "STOPPED", n |-> 0, code |-> "0"]

\* stopped, graceful: what a stop says; state, n: the process it is about;
\* error: the spawn whose failure it reports, 0 for none; launched is history:
\* by then this process had become the browser.
Answer == [stopped : BOOLEAN, graceful : BOOLEAN, error : 0..MaxSpawn,
           state : State, n : 0..MaxSpawn, launched : BOOLEAN]

\* Where a controller is.  closing: it asks the browser over CDP to close;
\* polling: it waits for that; stopProcess: it calls supervisor; stopping: it
\* waits for supervisor; verify: it looks whether that helped; closed, report:
\* it has read the process it reports on, after a close or otherwise; clear: a
\* start found the browser down; start: it has removed the files.
Place == {"idle", "asked", "closing", "polling", "stopProcess", "stopping",
          "verify", "closed", "report", "clear", "start"}
Command == {"status", "stop", "start"}

ControlTypeOK ==
  /\ proc \in Info
  /\ stage \in ProcStage
  /\ launchFile \in 0..MaxSpawn
  /\ errorFile \in 0..MaxSpawn
  /\ denied \subseteq 1..MaxSpawn
  /\ cleared \subseteq 0..MaxSpawn
  /\ launched \subseteq 1..MaxSpawn
  /\ overlapped \in BOOLEAN
  /\ cmd \in [Ctl -> Command]
  /\ at \in [Ctl -> Place]
  /\ seen \in [Ctl -> Info]
  /\ answer \in [Ctl -> Answer \cup {NoAnswer}]
  /\ proc.n # 0
  /\ proc.state \in Down <=> stage = "none"

\* supervisor starts the browser when the container starts.
ControlInit ==
  /\ proc = [state |-> "RUNNING", n |-> 1, code |-> "0"]
  /\ stage = "shell"
  /\ launchFile = 0
  /\ errorFile = 0
  /\ denied = {}
  /\ cleared = {}
  /\ launched = {}
  /\ overlapped = FALSE
  /\ cmd = [c \in Ctl |-> "status"]
  /\ at = [c \in Ctl |-> "idle"]
  /\ seen = [c \in Ctl |-> Unread]
  /\ answer = [c \in Ctl |-> NoAnswer]

-----------------------------------------------------------------------------
(* The browser's process.                                                  *)

\* launch begins and removes the previous launch's file.
LaunchBegins ==
  /\ stage = "shell"
  /\ stage' = "launch"
  /\ launchFile' = 0
  /\ UNCHANGED <<proc, errorFile, denied, ctlVars, pastVars>>

\* It raises, before or after it recorded this launch, and main writes
\* cloak-error.json.
LaunchFails ==
  /\ stage \in {"launch", "exec"}
  /\ stage' = "failing"
  /\ errorFile' = proc.n
  /\ UNCHANGED <<proc, launchFile, denied, ctlVars, pastVars>>

\* It records this launch,
LaunchRecords ==
  /\ stage = "launch"
  /\ stage' = "exec"
  /\ launchFile' = proc.n
  /\ UNCHANGED <<proc, errorFile, denied, ctlVars, pastVars>>

\* removes the error of an earlier one and becomes the browser.
Execs ==
  /\ stage = "exec"
  /\ stage' = "browser"
  /\ errorFile' = 0
  /\ launched' = launched \cup {proc.n}
  /\ UNCHANGED <<proc, launchFile, denied, ctlVars, cleared, overlapped>>

\* The license is denied: the browser leaves its signal, and may run on.
Denies ==
  /\ stage = "browser"
  /\ denied' = denied \cup {proc.n}
  /\ UNCHANGED <<procVars, launchFile, errorFile, ctlVars, pastVars>>

\* The process ends.  A failed launch exits with 1; a browser whose license is
\* denied exits with the code of the denial or, closed over CDP, with 0.
Exits(code) ==
  /\ stage # "none"
  /\ stage = "failing" => code = "1"
  /\ code = "denied" => proc.n \in denied
  /\ code = "0" => stage = "browser" \/ proc.state = "STOPPING"
  /\ proc' = [proc EXCEPT
       !.state = IF @ = "STOPPING" THEN "STOPPED" ELSE "EXITED",
       !.code = code]
  /\ stage' = "none"
  /\ UNCHANGED <<fileVars, ctlVars, pastVars>>

-----------------------------------------------------------------------------
(* Diagnosis.                                                              *)

\* The exit status alone is an error.
FailedExit(info) ==
  \/ info.state = "FATAL"
  \/ info.state = "EXITED" /\ info.code # "0"
  \/ info.state = "STOPPED" /\ info.code = "denied"

\* Variant: the signal of a denial counts while the browser runs only.
DiagnosedRunning(info) ==
  IF errorFile # 0 THEN errorFile
  ELSE IF launchFile \in denied /\ info.state = "RUNNING" THEN launchFile
  ELSE IF FailedExit(info) THEN info.n ELSE 0

\* diagnostics: the spawn whose failure is reported.  A launcher's error
\* overrides a denial, and the exit status counts if there is neither.
Diagnosed(info) ==
  IF errorFile # 0 THEN errorFile
  ELSE IF launchFile \in denied THEN launchFile
  ELSE IF FailedExit(info) THEN info.n ELSE 0

-----------------------------------------------------------------------------
(* Controllers.                                                            *)

Proceeds(c, place) == at' = [at EXCEPT ![c] = place]

\* The controller exits, and what it knew is gone.
Ends(c) ==
  /\ Proceeds(c, "idle")
  /\ cmd' = [cmd EXCEPT ![c] = "status"]
  /\ seen' = [seen EXCEPT ![c] = Unread]

\* getProcessInfo, and on to the next place.
Reads(c, place) ==
  /\ seen' = [seen EXCEPT ![c] = proc]
  /\ Proceeds(c, place)
  /\ UNCHANGED <<procVars, fileVars, cmd, answer, pastVars>>

\* A start is on its way.
Starting(c) == cmd[c] = "start" /\ at[c] # "idle"

\* docker exec cloak_control.py.
Ask(c, command) ==
  /\ at[c] = "idle"
  /\ cmd' = [cmd EXCEPT ![c] = command]
  /\ answer' = [answer EXCEPT ![c] = NoAnswer]
  /\ overlapped' = (overlapped \/ (command = "start" /\ \E d \in Ctl : Starting(d)))
  /\ Proceeds(c, "asked")
  /\ UNCHANGED <<procVars, fileVars, seen, cleared, launched>>

\* status, or a stop that finds the browser down.
ReadsForReport(c) ==
  /\ at[c] = "asked"
  /\ \/ cmd[c] = "status"
     \/ cmd[c] = "stop" /\ proc.state \in Down
  /\ Reads(c, "report")

\* A stop that finds it up, or on its way down.
FindsItUp(c) ==
  /\ at[c] = "asked"
  /\ cmd[c] = "stop"
  /\ proc.state \notin Down
  /\ Proceeds(c, "closing")
  /\ UNCHANGED <<procVars, fileVars, cmd, seen, answer, pastVars>>

\* Browser.close over CDP: sent, and the controller polls for up to seven
\* seconds, or not, and it goes to supervisor at once.
AsksToClose(c) ==
  /\ at[c] = "closing"
  /\ \/ stage = "browser" /\ Proceeds(c, "polling")
     \/ Proceeds(c, "stopProcess")
  /\ UNCHANGED <<procVars, fileVars, cmd, seen, answer, pastVars>>

PollsDown(c) ==
  /\ at[c] = "polling"
  /\ proc.state \in Down
  /\ Reads(c, "closed")

PollDeadline(c) ==
  /\ at[c] = "polling"
  /\ Proceeds(c, "stopProcess")
  /\ UNCHANGED <<procVars, fileVars, cmd, seen, answer, pastVars>>

\* supervisor.stopProcess signals the process and waits for its end.  One that
\* is not RUNNING is refused, which the controller takes for a normal exit.
StopProcess(c) ==
  /\ at[c] = "stopProcess"
  /\ IF proc.state = "RUNNING"
       THEN proc' = [proc EXCEPT !.state = "STOPPING"] /\ Proceeds(c, "stopping")
       ELSE Proceeds(c, "verify") /\ UNCHANGED proc
  /\ UNCHANGED <<stage, fileVars, cmd, seen, answer, pastVars>>

StopReturns(c) ==
  /\ at[c] = "stopping"
  /\ proc.state # "STOPPING"
  /\ Proceeds(c, "verify")
  /\ UNCHANGED <<procVars, fileVars, cmd, seen, answer, pastVars>>

\* Variant: after supervisor's answer the browser is taken to be down.
VerifiesNothing(c) ==
  /\ at[c] = "verify"
  /\ Reads(c, "report")

\* The process is read again; if it is not down, STOP_FAILED is raised.
Verifies(c) ==
  /\ at[c] = "verify"
  /\ proc.state \in Down
  /\ Reads(c, "report")

\* The browser closed when asked, exited with 0, and there is no error.
Graceful(c) ==
  /\ at[c] = "closed"
  /\ seen[c].state = "EXITED"
  /\ seen[c].code = "0"
  /\ Diagnosed(seen[c]) = 0

\* The answer, with the diagnosis; a stop says that the browser is down.
Answers(c) ==
  /\ at[c] \in {"closed", "report"}
  /\ answer' = [answer EXCEPT ![c] =
       [stopped |-> cmd[c] = "stop", graceful |-> Graceful(c),
        error |-> Diagnosed(seen[c]), state |-> seen[c].state, n |-> seen[c].n,
        launched |-> seen[c].n \in launched]]
  /\ Ends(c)
  /\ UNCHANGED <<procVars, fileVars, pastVars>>

\* start refuses unless the browser is down.
StartChecks(c) ==
  /\ at[c] = "asked"
  /\ cmd[c] = "start"
  /\ proc.state \in Down
  /\ Reads(c, "clear")

\* Variant: start leaves the files of the previous launch.
ClearsNothing(c) ==
  /\ at[c] = "clear"
  /\ cleared' = cleared
  /\ Proceeds(c, "start")
  /\ UNCHANGED <<procVars, fileVars, cmd, seen, answer, launched, overlapped>>

\* It removes the files that are there, to clear those of the launch it found
\* down,
Clears(c) ==
  /\ at[c] = "clear"
  /\ launchFile' = 0
  /\ errorFile' = 0
  /\ cleared' = cleared \cup {seen[c].n}
  /\ Proceeds(c, "start")
  /\ UNCHANGED <<procVars, denied, cmd, seen, answer, launched, overlapped>>

\* and supervisor spawns the browser, or fails to and says FATAL.
StartProcess(c) ==
  /\ at[c] = "start"
  /\ proc.state \in Down
  /\ proc.n < MaxSpawn
  /\ \/ /\ proc' = [state |-> "RUNNING", n |-> proc.n + 1, code |-> "0"]
        /\ stage' = "shell"
     \/ /\ proc' = [state |-> "FATAL", n |-> proc.n + 1, code |-> "0"]
        /\ UNCHANGED stage
  /\ Ends(c)
  /\ UNCHANGED <<fileVars, answer, pastVars>>

\* ALREADY_RUNNING, supervisor's refusal of a start, and STOP_FAILED: the
\* browser is not down where it must be.  Bound: so is a start at MaxSpawn.
Refuses(c) ==
  /\ \/ /\ proc.state \notin Down
        /\ \/ at[c] = "asked" /\ cmd[c] = "start"
           \/ at[c] \in {"start", "verify"}
     \/ at[c] = "start" /\ proc.n = MaxSpawn
  /\ Ends(c)
  /\ UNCHANGED <<procVars, fileVars, answer, pastVars>>

\* CONTROL_FAILED at any point, as when supervisor does not answer.
ControlFails(c) ==
  /\ at[c] # "idle"
  /\ Ends(c)
  /\ UNCHANGED <<procVars, fileVars, answer, pastVars>>

CtlStep(c) ==
  \/ ReadsForReport(c)
  \/ FindsItUp(c)
  \/ AsksToClose(c)
  \/ PollsDown(c)
  \/ PollDeadline(c)
  \/ StopProcess(c)
  \/ StopReturns(c)
  \/ Verifies(c)
  \/ Answers(c)
  \/ StartChecks(c)
  \/ Clears(c)
  \/ StartProcess(c)
  \/ Refuses(c)

ProcStep ==
  \/ LaunchBegins
  \/ LaunchFails
  \/ LaunchRecords
  \/ Execs
  \/ Denies
  \/ \E code \in Code : Exits(code)

ControlNext ==
  \/ ProcStep
  \/ \E c \in Ctl : CtlStep(c) \/ ControlFails(c) \/ \E command \in Command : Ask(c, command)

ControlSpec == ControlInit /\ [][ControlNext]_controlVars

-----------------------------------------------------------------------------
(* Properties.                                                             *)

Answered(c) == answer[c] # NoAnswer

\* stop_browser: a spawn that a stop calls stopped has ended, whatever other
\* controllers stopped or started meanwhile.  What is left of a browser when its
\* container is removed loses data.
StopConfirmed ==
  \A c \in Ctl :
    Answered(c) /\ answer[c].stopped /\ proc.n = answer[c].n =>
      proc.state \in Down

\* diagnostics, start and launch: an error that is reported is not of an earlier
\* spawn than the one reported on, because a start removes the files before it
\* spawns.  Where starts overlap, one can spawn again after the other's launch
\* has failed, without removing its error; it is gone once the launch has become
\* the browser.
DiagnosisCurrent ==
  \A c \in Ctl :
    /\ Answered(c)
    /\ answer[c].error # 0
    /\ answer[c].launched \/ ~overlapped
    => answer[c].error >= answer[c].n

\* diagnostics and stop_browser: docs/guides/cloak-experimental.md says "An
\* already-stopped process does not erase the error", and of graceful=true
\* "Zero-code browser exit, without a denial or launcher error."  As long as no
\* start has found it down and removed its files, a denied spawn that has ended
\* is reported with an error, and is never called gracefully stopped.  The code
\* breaks this: a start that was given up on finds one spawn down, and removes
\* the files of the next, which another start has begun meanwhile.
DenialTold ==
  \A c \in Ctl : Answered(c) /\ answer[c].n \in denied \ cleared =>
    /\ ~answer[c].graceful
    /\ answer[c].state \in Down => answer[c].error # 0

\* The same where starts do not overlap, whatever stops and diagnoses do.
DenialToldAlone == ~overlapped => DenialTold
================================================================================
