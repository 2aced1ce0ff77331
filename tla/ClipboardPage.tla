------------------------------ MODULE ClipboardPage ------------------------------
(***************************************************************************)
(* Text between a person's clipboard and that of a sandbox: the session    *)
(* page (app/static/vnc_session.html) with its two buttons and its dialog, *)
(* the API server (services/clipboard.py) and xclip in the container.      *)
(*                                                                         *)
(* A transfer is a chain of awaits, during which the person clicks, types  *)
(* and presses Escape, the VNC connection ends, others change the          *)
(* clipboards, and writes that the server gave up on arrive late.          *)
(***************************************************************************)
EXTENDS FiniteSets, Naturals

CONSTANTS
  Transfer,  \* slots of transfers under way
  Text,      \* texts
  NoText     \* the empty text

ASSUME ClipboardAssumption == NoText \notin Text

VARIABLES
  vnc,        \* the VNC connection, which the page makes once
  busy,       \* transferBusy
  dialog,     \* fallbackMode, which is none while the dialog is hidden
  box,        \* fallbackTextEl.value
  step,       \* per transfer: what it awaits
  via,        \* per transfer: whether a button or the dialog began it
  text,       \* per transfer: its text
  local,      \* the person's clipboard
  remote,     \* the X11 selection CLIPBOARD
  late,       \* texts that abandoned writes may still put there
  wanted,     \* history: the text to be pasted, until it is or the person changes it
  calm,       \* history: nobody else wrote there since a write of this page
  keys        \* history: the last Ctrl+V, with what it was to paste and what it met

dialogVars == <<dialog, box>>
transferVars == <<busy, step, via, text>>
remoteVars == <<remote, late, calm>>
clipboardVars == <<vnc, dialogVars, transferVars, local, remoteVars, wanted, keys>>

AnyText == Text \cup {NoText}
\* local, put: it reads or writes the person's clipboard; post, written: it
\* writes the sandbox's, and has written it; delay: 80 ms later it presses
\* Ctrl+V; get: it reads the sandbox's.
Step == {"idle", "local", "post", "written", "delay", "get", "put"}

ClipboardTypeOK ==
  /\ vnc \in {"new", "up", "lost"}
  /\ busy \in BOOLEAN
  /\ dialog \in {"none", "paste", "copy"}
  /\ box \in AnyText
  /\ step \in [Transfer -> Step]
  /\ via \in [Transfer -> {"button", "dialog"}]
  /\ text \in [Transfer -> AnyText]
  /\ local \in AnyText
  /\ remote \in AnyText
  /\ late \subseteq Text
  /\ wanted \in AnyText
  /\ calm \in BOOLEAN
  /\ keys \in [text : AnyText, saw : AnyText, calm : BOOLEAN]
  /\ busy <=> \E t \in Transfer : step[t] # "idle"

ClipboardInit ==
  /\ vnc = "new"
  /\ busy = FALSE
  /\ dialog = "none"
  /\ box = NoText
  /\ step = [t \in Transfer |-> "idle"]
  /\ via = [t \in Transfer |-> "button"]
  /\ text = [t \in Transfer |-> NoText]
  /\ local \in AnyText
  /\ remote \in AnyText
  /\ late = {}
  /\ wanted = NoText
  /\ calm = FALSE
  /\ keys = [text |-> NoText, saw |-> NoText, calm |-> FALSE]

-----------------------------------------------------------------------------
(* Steps of a transfer.                                                    *)

Awaits(t, place) == step' = [step EXCEPT ![t] = place] /\ UNCHANGED <<busy, via>>

\* The finally of both handlers.
Settles(t) ==
  /\ busy' = FALSE
  /\ step' = [step EXCEPT ![t] = "idle"]
  /\ via' = [via EXCEPT ![t] = "button"]
  /\ text' = [text EXCEPT ![t] = NoText]

Shows(mode, value) == dialog' = mode /\ box' = value
Hides == dialog' = "none" /\ UNCHANGED box

Begins(t, how, place, value) ==
  /\ step[t] = "idle"
  /\ busy' = TRUE
  /\ step' = [step EXCEPT ![t] = place]
  /\ via' = [via EXCEPT ![t] = how]
  /\ text' = [text EXCEPT ![t] = value]

\* A click on one of the buttons.
ClicksPaste(t) ==
  /\ ~busy
  /\ dialog = "none"
  /\ vnc = "up"
  /\ Begins(t, "button", "local", NoText)
  /\ UNCHANGED <<vnc, dialogVars, local, remoteVars, wanted, keys>>

ClicksCopy(t) ==
  /\ ~busy
  /\ dialog = "none"
  /\ vnc = "up"
  /\ Begins(t, "button", "get", NoText)
  /\ UNCHANGED <<vnc, dialogVars, local, remoteVars, wanted, keys>>

\* A click on the dialog's button, also when disconnected.
DialogActs(t) ==
  /\ ~busy
  /\ dialog # "none"
  /\ Begins(t, "dialog", IF dialog = "paste" THEN "post" ELSE "put", box)
  /\ wanted' = IF dialog = "paste" THEN box ELSE wanted
  /\ UNCHANGED <<vnc, dialogVars, local, remoteVars, keys>>

\* pasteLocalClipboard has read the person's clipboard.
ReadsLocal(t) ==
  /\ step[t] = "local"
  /\ IF local = NoText
       THEN Settles(t) /\ UNCHANGED wanted
       ELSE /\ Awaits(t, "post")
            /\ text' = [text EXCEPT ![t] = local]
            /\ wanted' = local
  /\ UNCHANGED <<vnc, dialogVars, local, remoteVars, keys>>

\* It may not read it, and asks for the text.
LocalDenied(t) ==
  /\ step[t] = "local"
  /\ Shows("paste", NoText)
  /\ Settles(t)
  /\ UNCHANGED <<vnc, local, remoteVars, wanted, keys>>

\* write_text: xclip takes the text.
WritesRemote(t) ==
  /\ step[t] = "post"
  /\ text[t] # NoText
  /\ remote' = text[t]
  /\ calm' = TRUE
  /\ Awaits(t, "written")
  /\ UNCHANGED <<vnc, dialogVars, text, local, late, wanted, keys>>

Acknowledged(t) ==
  /\ step[t] = "written"
  /\ Awaits(t, "delay")
  /\ UNCHANGED <<vnc, dialogVars, text, local, remoteVars, wanted, keys>>

\* The text is shown in the dialog, or still is, and the transfer ends.
PasteFails(t) ==
  /\ IF via[t] = "button" THEN Shows("paste", text[t]) ELSE UNCHANGED dialogVars
  /\ Settles(t)
  /\ UNCHANGED <<vnc, local, wanted, keys>>

\* Variant: a failed write is not noticed.
WriteFailsSilently(t) ==
  /\ step[t] \in {"post", "written"}
  /\ Awaits(t, "delay")
  /\ UNCHANGED <<vnc, dialogVars, text, local, remoteVars, wanted, keys>>

\* The server refuses, the command fails, or the answer is lost, whether or not
\* the text was written.
WriteFails(t) ==
  /\ step[t] \in {"post", "written"}
  /\ PasteFails(t)
  /\ UNCHANGED remoteVars

\* The server waits for docker exec no longer; the command goes on.
WriteAbandoned(t) ==
  /\ step[t] = "post"
  /\ text[t] # NoText
  /\ late' = late \cup {text[t]}
  /\ PasteFails(t)
  /\ UNCHANGED <<remote, calm>>

\* sendRemotePasteShortcut.
PressesPaste(t) ==
  /\ step[t] = "delay"
  /\ vnc = "up"
  /\ keys' = [text |-> text[t], saw |-> remote, calm |-> calm]
  /\ wanted' = NoText
  /\ IF via[t] = "dialog" THEN Hides ELSE UNCHANGED dialogVars
  /\ Settles(t)
  /\ UNCHANGED <<vnc, local, remoteVars>>

CannotPress(t) ==
  /\ step[t] = "delay"
  /\ vnc # "up"
  /\ PasteFails(t)
  /\ UNCHANGED remoteVars

\* copyRemoteClipboard has the sandbox's text, or an error, as when there is none.
ReadsRemote(t) ==
  /\ step[t] = "get"
  /\ \/ /\ remote # NoText
        /\ text' = [text EXCEPT ![t] = remote]
        /\ Awaits(t, "put")
     \/ Settles(t)
  /\ UNCHANGED <<vnc, dialogVars, local, remoteVars, wanted, keys>>

WritesLocal(t) ==
  /\ step[t] = "put"
  /\ local' = text[t]
  /\ IF via[t] = "dialog" THEN Hides ELSE UNCHANGED dialogVars
  /\ Settles(t)
  /\ UNCHANGED <<vnc, remoteVars, wanted, keys>>

\* It may not write it, and shows what it read.
WriteLocalDenied(t) ==
  /\ step[t] = "put"
  /\ IF via[t] = "button" THEN Shows("copy", text[t]) ELSE UNCHANGED dialogVars
  /\ Settles(t)
  /\ UNCHANGED <<vnc, local, remoteVars, wanted, keys>>

-----------------------------------------------------------------------------
(* The person and everybody else.                                          *)

\* Variant: Escape closes the dialog at any time.
CancelsAnyway ==
  /\ dialog # "none"
  /\ Hides
  /\ wanted' = IF busy THEN wanted ELSE NoText
  /\ UNCHANGED <<vnc, transferVars, local, remoteVars, keys>>

\* Cancel, Close or Escape: hideFallback does nothing while a transfer runs.
Cancels ==
  /\ dialog # "none"
  /\ ~busy
  /\ Hides
  /\ wanted' = NoText
  /\ UNCHANGED <<vnc, transferVars, local, remoteVars, keys>>

\* The text of a copy is read-only, and so is any while a transfer runs.
Edits ==
  /\ dialog = "paste"
  /\ ~busy
  /\ box' \in AnyText
  /\ wanted' = NoText
  /\ UNCHANGED <<vnc, dialog, transferVars, local, remoteVars, keys>>

CopiesLocally ==
  /\ local' \in AnyText
  /\ UNCHANGED <<vnc, dialogVars, transferVars, remoteVars, wanted, keys>>

\* A program in the sandbox, or another session.
OthersCopy ==
  /\ remote' \in AnyText
  /\ calm' = FALSE
  /\ UNCHANGED <<vnc, dialogVars, transferVars, local, late, wanted, keys>>

WriteArrivesLate ==
  \E x \in late :
    /\ remote' \in {x, remote}
    /\ late' = late \ {x}
    /\ calm' = FALSE
    /\ UNCHANGED <<vnc, dialogVars, transferVars, local, wanted, keys>>

RfbConnects ==
  /\ vnc = "new"
  /\ vnc' = "up"
  /\ UNCHANGED <<dialogVars, transferVars, local, remoteVars, wanted, keys>>

RfbDisconnects ==
  /\ vnc # "lost"
  /\ vnc' = "lost"
  /\ UNCHANGED <<dialogVars, transferVars, local, remoteVars, wanted, keys>>

TransferStep(t) ==
  \/ ClicksPaste(t)
  \/ ClicksCopy(t)
  \/ DialogActs(t)
  \/ ReadsLocal(t)
  \/ LocalDenied(t)
  \/ WritesRemote(t)
  \/ Acknowledged(t)
  \/ WriteFails(t)
  \/ WriteAbandoned(t)
  \/ PressesPaste(t)
  \/ CannotPress(t)
  \/ ReadsRemote(t)
  \/ WritesLocal(t)
  \/ WriteLocalDenied(t)

PersonStep ==
  \/ Cancels
  \/ Edits
  \/ CopiesLocally
  \/ OthersCopy
  \/ WriteArrivesLate
  \/ RfbConnects
  \/ RfbDisconnects

ClipboardNext == (\E t \in Transfer : TransferStep(t)) \/ PersonStep

ClipboardSpec == ClipboardInit /\ [][ClipboardNext]_clipboardVars

-----------------------------------------------------------------------------
(* Properties.                                                             *)

\* transferBusy, shared by three handlers: docs/vnc_clipboard.md says that a page
\* performs one transfer at a time.
OneTransfer ==
  \A t, u \in Transfer : step[t] # "idle" /\ step[u] # "idle" => t = u

\* showRemotePasteFailure, hideFallback: docs/vnc_clipboard.md says that after a
\* failure the text is kept.  A text that was to be pasted is pasted, or being
\* sent, or in the open dialog until the person changes it or closes that.
TextKept ==
  ~busy /\ wanted # NoText => dialog = "paste" /\ box = wanted

\* pasteTextIntoRemote: docs/vnc_clipboard.md says that the page writes first and
\* then presses Ctrl+V, and that it does not after a failed write.  The key meets
\* the text it is to paste, unless somebody else, or an abandoned write of this
\* page, has written since.
PastesItsText == keys.calm => keys.saw = keys.text
================================================================================
