------------------------------ MODULE SessionProxy ------------------------------
(***************************************************************************)
(* The session proxy of the DSH plugin (packages/dsh-plugin/src/           *)
(* session.ts): it serves the session page of a sandbox to browsers with a *)
(* cookie of its own, which it obtains from the API server with a reusable *)
(* ticket, caches, and replaces when it is rejected.                       *)
(*                                                                         *)
(* Of the server it keeps the sessions and tickets that this proxy opens   *)
(* (routes/session.py; module Sessions has the whole of it, with the clock *)
(* that expiry stands for here).  A request that was sent and its response *)
(* are separate steps, so that requests overlap.                           *)
(***************************************************************************)
EXTENDS FiniteSets, Naturals

CONSTANTS
  Request,    \* slots of browsers' requests
  Key,        \* cookies, each with its ticket; one is used again once forgotten
  NoKey,      \* no cookie
  Pages,      \* kinds of sandboxes: "xpra", "xvfb_vnc"
  MaxCrashes  \* bound: restarts of the server

ASSUME ProxyAssumption ==
  /\ NoKey \notin Key
  /\ Pages \subseteq {"xpra", "xvfb_vnc"}
  /\ MaxCrashes \in Nat

VARIABLES
  page,     \* the sandbox's kind
  table,    \* per cookie: what the server knows of its session
  tickets,  \* cookies whose ticket has not expired
  crashes,  \* history: restarts of the server
  cached,   \* SessionProxy.session: a cookie or NoKey
  kind,     \* per request: what it asks for
  phase,    \* per request: how far it is
  key,      \* per request: the cookie it uses
  refresh,  \* per request: a rejected cookie may still be replaced
  reply,    \* per request: the server's response
  rejected, \* history: per request, the cookies that were rejected
  response  \* per request: how the browser was answered; a rejection, after how many

serverVars == <<page, table, tickets, crashes>>
requestVars == <<kind, key, refresh, rejected>>
proxyVars == <<serverVars, cached, requestVars, phase, reply, response>>

\* free: not in _sessions, and not because it was dropped there.
Entry == {"free", "live", "expired", "dropped"}
\* The page, one of its assets, or its WebSocket.
Kind == {"page", "asset", "upgrade"}
\* open: about to look for a session; apply: the ticket is requested; entered:
\* the server has opened the session; sent, replied: the request proper; hop:
\* the page answered a redirect, which is followed.
RequestPhase == {"idle", "open", "apply", "entered", "sent", "replied", "hop"}
\* other: anything but a rejection, good or bad.
Reply == {"none", "401", "403", "other"}
Response == [out : Reply, rejections : 0..2]
Unanswered == [out |-> "none", rejections |-> 0]

ProxyTypeOK ==
  /\ page \in Pages
  /\ table \in [Key -> Entry]
  /\ tickets \subseteq Key
  /\ crashes \in 0..MaxCrashes
  /\ cached \in Key \cup {NoKey}
  /\ kind \in [Request -> Kind]
  /\ phase \in [Request -> RequestPhase]
  /\ key \in [Request -> Key \cup {NoKey}]
  /\ refresh \in [Request -> BOOLEAN]
  /\ reply \in [Request -> Reply]
  /\ response \in [Request -> Response]
  /\ rejected \in [Request -> SUBSET Key]
  /\ \A r \in Request : phase[r] \in {"entered", "sent", "replied", "hop"} =>
       key[r] # NoKey /\ table[key[r]] # "free"
  /\ \A r \in Request : refresh[r] => rejected[r] = {}

ProxyInit ==
  /\ page \in Pages
  /\ table = [k \in Key |-> "free"]
  /\ tickets = {}
  /\ crashes = 0
  /\ cached = NoKey
  /\ kind = [r \in Request |-> "page"]
  /\ phase = [r \in Request |-> "idle"]
  /\ key = [r \in Request |-> NoKey]
  /\ refresh = [r \in Request |-> FALSE]
  /\ reply = [r \in Request |-> "none"]
  /\ response = [r \in Request |-> Unanswered]
  /\ rejected = [r \in Request |-> {}]

-----------------------------------------------------------------------------
(* The API server.                                                         *)

\* _prune_sessions
Pruned == [k \in Key |-> IF table[k] = "expired" THEN "dropped" ELSE table[k]]

\* _validate_session: an expired session is dropped and answered with 401, one
\* that is not in the table with 403.
Validated(k) ==
  IF table[k] = "live" THEN "other"
  ELSE IF table[k] = "expired" THEN "401" ELSE "403"

\* A ticket and its session, which end within a second of each other.
Expires(k) ==
  /\ k \in tickets
  /\ tickets' = tickets \ {k}
  /\ table' = [table EXCEPT ![k] = IF @ = "live" THEN "expired" ELSE @]
  /\ UNCHANGED <<page, crashes, cached, requestVars, phase, reply, response>>

\* The requests of others prune the table too.
OthersPrune ==
  /\ table' = Pruned
  /\ UNCHANGED <<page, tickets, crashes, cached, requestVars, phase, reply, response>>

ServerRestarts ==
  /\ crashes < MaxCrashes
  /\ crashes' = crashes + 1
  /\ table' = [k \in Key |-> IF table[k] = "free" THEN "free" ELSE "dropped"]
  /\ UNCHANGED <<page, tickets, cached, requestVars, phase, reply, response>>

\* Bound: a cookie that nobody holds may be drawn again.
Forgotten(k) ==
  /\ table[k] \in {"expired", "dropped"}
  /\ k # cached
  /\ \A r \in Request : key[r] # k /\ k \notin rejected[r]
  /\ table' = [table EXCEPT ![k] = "free"]
  /\ tickets' = tickets \ {k}
  /\ UNCHANGED <<page, crashes, cached, requestVars, phase, reply, response>>

-----------------------------------------------------------------------------
(* Requests.                                                               *)

MovesTo(r, place) == phase' = [phase EXCEPT ![r] = place]

Asks(r, what) ==
  /\ phase[r] = "idle"
  /\ kind' = [kind EXCEPT ![r] = what]
  /\ refresh' = [refresh EXCEPT ![r] = what # "upgrade"]
  /\ response' = [response EXCEPT ![r] = Unanswered]
  /\ MovesTo(r, "open")
  /\ UNCHANGED <<serverVars, cached, key, rejected, reply>>

\* open: the cached session, or one to be obtained; two requests that both
\* find none obtain one each.
Opens(r) ==
  /\ phase[r] = "open"
  /\ key' = [key EXCEPT ![r] = cached]
  /\ MovesTo(r, IF cached = NoKey THEN "apply" ELSE "sent")
  /\ UNCHANGED <<serverVars, cached, kind, refresh, rejected, reply, response>>

\* createSessionTicket, and the entry page of the ticket at the server.
Enters(r, k) ==
  /\ phase[r] = "apply"
  /\ table[k] = "free"
  /\ table' = [Pruned EXCEPT ![k] = "live"]
  /\ tickets' = tickets \cup {k}
  /\ key' = [key EXCEPT ![r] = k]
  /\ MovesTo(r, "entered")
  /\ UNCHANGED <<page, crashes, cached, kind, refresh, rejected, reply, response>>

\* Its cookie arrives; the session that was cached in between is replaced.
Caches(r) ==
  /\ phase[r] = "entered"
  /\ cached' = key[r]
  /\ MovesTo(r, "sent")
  /\ UNCHANGED <<serverVars, requestVars, reply, response>>

\* The request proper at the server.  The page comes with the ticket and opens
\* a session that nobody will use; an xpra sandbox answers the page itself, the
\* other a redirect.  The WebSocket exists for xpra only, and every refusal
\* before it is accepted is a 403.
Replies(r) ==
  /\ phase[r] = "sent"
  /\ \E out \in
       IF kind[r] = "page"
         THEN IF key[r] \notin tickets THEN {"401"}
              ELSE IF page = "xpra" THEN {"other"} ELSE {"none"}
       ELSE IF kind[r] = "asset"
         THEN {Validated(key[r])}
       ELSE IF page = "xpra" /\ Validated(key[r]) = "other" THEN {"other", "403"}
       ELSE {"403"} :
         /\ reply' = [reply EXCEPT ![r] = out]
         /\ MovesTo(r, IF out = "none" THEN "hop" ELSE "replied")
  /\ table' = IF \/ kind[r] = "page" /\ key[r] \notin tickets
                 \/ kind[r] = "upgrade" /\ page = "xvfb_vnc"
              THEN table ELSE Pruned
  /\ UNCHANGED <<page, tickets, crashes, cached, requestVars, response>>

\* The redirect goes to vnc.html, for the session of the cookie.
Hops(r) ==
  /\ phase[r] = "hop"
  /\ reply' = [reply EXCEPT ![r] = Validated(key[r])]
  /\ table' = Pruned
  /\ MovesTo(r, "replied")
  /\ UNCHANGED <<page, tickets, crashes, cached, requestVars, response>>

Rejection(out) == out \in {"401", "403"}

\* Variant: the cached session is kept.
ReplacesKeeping(r) ==
  /\ phase[r] = "replied"
  /\ reply[r] = "401"
  /\ refresh[r]
  /\ refresh' = [refresh EXCEPT ![r] = FALSE]
  /\ rejected' = [rejected EXCEPT ![r] = @ \cup {key[r]}]
  /\ key' = [key EXCEPT ![r] = NoKey]
  /\ reply' = [reply EXCEPT ![r] = "none"]
  /\ MovesTo(r, "open")
  /\ UNCHANGED <<serverVars, cached, kind, response>>

\* 401, the first time: the cached session is forgotten, whichever it is now,
\* and without an await in between another is obtained.
Replaces(r) ==
  /\ phase[r] = "replied"
  /\ reply[r] = "401"
  /\ refresh[r]
  /\ cached' = NoKey
  /\ refresh' = [refresh EXCEPT ![r] = FALSE]
  /\ rejected' = [rejected EXCEPT ![r] = @ \cup {key[r]}]
  /\ key' = [key EXCEPT ![r] = NoKey]
  /\ reply' = [reply EXCEPT ![r] = "none"]
  /\ MovesTo(r, "apply")
  /\ UNCHANGED <<serverVars, kind, response>>

\* The browser is answered; of the request nothing else is kept.
Finishes(r, out, rejections) ==
  /\ response' = [response EXCEPT ![r] =
       [out |-> out, rejections |-> Cardinality(rejections)]]
  /\ kind' = [kind EXCEPT ![r] = "page"]
  /\ rejected' = [rejected EXCEPT ![r] = {}]
  /\ key' = [key EXCEPT ![r] = NoKey]
  /\ refresh' = [refresh EXCEPT ![r] = FALSE]
  /\ reply' = [reply EXCEPT ![r] = "none"]
  /\ MovesTo(r, "idle")

\* Otherwise the response is relayed.  A WebSocket that was refused makes the
\* proxy forget the session.
Relays(r) ==
  /\ phase[r] = "replied"
  /\ ~(reply[r] = "401" /\ refresh[r])
  /\ IF kind[r] = "upgrade" /\ reply[r] # "other"
       THEN cached' = NoKey /\ Finishes(r, "other", {})
       ELSE /\ UNCHANGED cached
            /\ IF Rejection(reply[r])
                 THEN Finishes(r, reply[r], rejected[r] \cup {key[r]})
                 ELSE Finishes(r, "other", {})
  /\ UNCHANGED serverVars

\* The server does not answer, or not with a cookie: 502, or for a WebSocket
\* the end of the connection.
Fails(r) ==
  /\ phase[r] \in {"apply", "entered", "sent", "hop"}
  /\ Finishes(r, "other", {})
  /\ UNCHANGED <<serverVars, cached>>

RequestStep(r) ==
  \/ Opens(r)
  \/ \E k \in Key : Enters(r, k)
  \/ Caches(r)
  \/ Replies(r)
  \/ Hops(r)
  \/ Replaces(r)
  \/ Relays(r)
  \/ Fails(r)

SessionServerStep ==
  \/ \E k \in Key : Expires(k) \/ Forgotten(k)
  \/ OthersPrune
  \/ ServerRestarts

ProxyNext ==
  \/ SessionServerStep
  \/ \E r \in Request : RequestStep(r) \/ \E what \in Kind : Asks(r, what)

ProxySpec == ProxyInit /\ [][ProxyNext]_proxyVars

-----------------------------------------------------------------------------
(* Properties.                                                             *)

\* forward and entry: a browser sees "expired" only if two different sessions
\* were rejected for its request, however many requests open and drop sessions
\* beside it.
ExpiredTwice ==
  \A r \in Request : response[r].out = "401" => response[r].rejections = 2

\* session.ts says of http "a rejected cookie is replaced once before giving
\* up": whichever way the server rejects it.
RejectedTwice ==
  \A r \in Request : Rejection(response[r].out) => response[r].rejections = 2
================================================================================
