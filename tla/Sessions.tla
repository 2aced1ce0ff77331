-------------------------------- MODULE Sessions --------------------------------
(***************************************************************************)
(* What a ticket opens: the sessions of routes/session.py, with their      *)
(* cookies, and the CDP connections of routes/browser.py.  Handlers run on *)
(* one event loop, so a handler is one step up to its first await, but the *)
(* clock it reads several times goes on meanwhile, by at most MaxStall.    *)
(***************************************************************************)
EXTENDS Tickets

CONSTANTS
  Sid,          \* session ids; one is drawn again once nobody knows it
  Xpras,        \* the sandboxes of kind xpra; the others are xvfb_vnc
  MaxRestarts   \* bound: restarts of the server

ASSUME SessionsAssumption ==
  /\ Xpras \subseteq Sandbox
  /\ MaxRestarts \in Nat

VARIABLES
  session,   \* routes/session.py _sessions: None, or the session
  opening,   \* sessions whose entry page is being fetched from xpra
  cookies,   \* session ids that some browser holds as its cookie
  access,    \* history: what the last step let through, and when
  restarts   \* history: restarts of the server so far

sessionVars == <<session, opening, cookies>>
vars == <<ticketVars, sessionVars, access, restarts>>

\* ticket is history: the session does not know it.  expires_at is in half
\* seconds, and means nothing for a session that does not expire.
SessionRecord == [sandbox : Sandbox, ticket : Ticket,
                  endless : BOOLEAN, expires_at : Nat]
Access == [sandbox : Sandbox, ticket : Ticket, scope : Scope, at : Nat]

TypeOK ==
  /\ clock \in 0..MaxClock
  /\ ticket \in [Ticket -> Payload \cup {None}]
  /\ \A t \in consumed : t \in Ticket /\ Consumable(t)
  /\ spent \in [Ticket -> Nat]
  /\ uses \in [Ticket -> Nat]
  /\ session \in [Sid -> SessionRecord \cup {None}]
  /\ opening \subseteq Sid
  /\ cookies \subseteq Sid
  /\ access \subseteq Access
  /\ restarts \in 0..MaxRestarts

Init ==
  /\ TicketsInit
  /\ session = [k \in Sid |-> None]
  /\ opening = {}
  /\ cookies = {}
  /\ access = {}
  /\ restarts = 0

-----------------------------------------------------------------------------
(* The session table.                                                      *)

\* The readings of the clock that a handler may take next.
Later(at) == {e \in at..MaxClock : e <= clock + MaxStall}

Expired(k, at) ==
  /\ session[k] # None
  /\ ~session[k].endless
  /\ at > session[k].expires_at

\* _prune_sessions
PruneSessions(at) ==
  [k \in Sid |-> IF Expired(k, at) THEN None ELSE session[k]]

\* Variant: the expiry of the ticket is taken for the lifetime of its session.
SessionTTLWhole(t, at) == ticket[t].exp

\* The lifetime of the session that a ticket opens: what is left of the ticket
\* in whole seconds, and at least one.
SessionTTL(t, at) ==
  LET left == (2 * ticket[t].exp - at) \div 2
  IN  IF left < 1 THEN 1 ELSE left

\* _create_session, at the given times of computing the lifetime and of adding
\* it to the clock.
CreateSession(k, t, at, now) ==
  /\ session[k] = None
  /\ k \notin cookies \cup opening
  /\ session' = [PruneSessions(now) EXCEPT ![k] =
       [sandbox |-> ticket[t].sandbox, ticket |-> t,
        endless |-> ticket[t].mode = "permanent",
        expires_at |-> IF ticket[t].mode = "permanent" THEN 0
                       ELSE now + 2 * SessionTTL(t, at)]]

Granted(t, s, scope) ==
  access' = {[ticket |-> t, sandbox |-> s, scope |-> scope, at |-> clock]}

-----------------------------------------------------------------------------
(* Requests.                                                               *)

\* GET session/?ticket=...: xvfb_vnc answers a redirect at once, xpra first
\* fetches the entry page.
SessionEntry(t, s, k) ==
  \E used \in Later(clock) : \E at \in Later(used) : \E now \in Later(at) :
    /\ Accept(t, s, "session", used)
    /\ CreateSession(k, t, at, now)
    /\ clock' = now
    /\ Granted(t, s, "session")
    /\ IF s \in Xpras
         THEN opening' = opening \cup {k} /\ UNCHANGED cookies
         ELSE cookies' = cookies \cup {k} /\ UNCHANGED opening
    /\ UNCHANGED restarts

\* The entry page arrives and the response sets the cookie, or it does not and
\* the client gets 502 for a ticket that is used up.
EntryPageFetched(k) ==
  /\ k \in opening
  /\ opening' = opening \ {k}
  /\ cookies' \in {cookies, cookies \cup {k}}
  /\ access' = {}
  /\ UNCHANGED <<ticketVars, session, restarts>>

\* WebSocket cdp/browser?ticket=...
CdpConnect(t, s) ==
  \E used \in Later(clock) :
    /\ s \notin Camoufoxes
    /\ Accept(t, s, "cdp", used)
    /\ clock' = used
    /\ Granted(t, s, "cdp")
    /\ UNCHANGED <<sessionVars, restarts>>

\* Either of the two, with a one-time ticket that was used.
TicketRefused(t, s, scope) ==
  \E used \in Later(clock) :
    /\ RefuseUsed(t, s, scope, used)
    /\ clock' = used
    /\ access' = {}
    /\ UNCHANGED <<sessionVars, restarts>>

\* _validate_session
Valid(k, s) ==
  /\ session[k] # None
  /\ session[k].sandbox = s
  /\ ~Expired(k, clock)

\* GET session/<asset> or the session's WebSocket: the session is valid.
SessionRequest(k, s) ==
  \E now \in Later(clock) :
    /\ k \in cookies
    /\ Valid(k, s)
    /\ session' = PruneSessions(now)
    /\ clock' = now
    /\ Granted(session[k].ticket, s, "session")
    /\ UNCHANGED <<ticket, consumed, useVars, opening, cookies, restarts>>

\* The session is unknown, of another sandbox, or expired.
SessionRefused(k, s) ==
  \E now \in Later(clock) :
    /\ k \in cookies
    /\ ~Valid(k, s)
    /\ session' = PruneSessions(now)
    /\ clock' = now
    /\ access' = {}
    /\ UNCHANGED <<ticket, consumed, useVars, opening, cookies, restarts>>

-----------------------------------------------------------------------------
(* The clock, the clients' browsers and the server process.                *)

Tick ==
  /\ clock < MaxClock
  /\ clock' = clock + 1
  /\ access' = {}
  /\ UNCHANGED <<ticket, consumed, useVars, sessionVars, restarts>>

PruneLoop == PruneTickets /\ access' = {} /\ UNCHANGED <<sessionVars, restarts>>

IssueTicket(t, s, scope, mode, ttl) ==
  /\ Issue(t, s, scope, mode, ttl)
  /\ access' = {}
  /\ UNCHANGED <<sessionVars, restarts>>

\* A browser drops a cookie.
CookieDropped(k) ==
  /\ k \in cookies
  /\ cookies' = cookies \ {k}
  /\ access' = {}
  /\ UNCHANGED <<ticketVars, session, opening, restarts>>

\* The server stops and starts again: nothing of this is on disk, and the
\* signing secret is configuration.
Restart ==
  /\ restarts < MaxRestarts
  /\ restarts' = restarts + 1
  /\ consumed' = {}
  /\ spent' = [t \in Ticket |-> 0]
  /\ session' = [k \in Sid |-> None]
  /\ opening' = {}
  /\ access' = {}
  /\ UNCHANGED <<clock, ticket, uses, cookies>>

TicketStep ==
  \E t \in Ticket, s \in Sandbox :
    \/ \E scope \in Scope, mode \in Mode, ttl \in TTL :
         IssueTicket(t, s, scope, mode, ttl)
    \/ \E k \in Sid : SessionEntry(t, s, k)
    \/ CdpConnect(t, s)
    \/ \E scope \in Scope : TicketRefused(t, s, scope)

SessionStep ==
  \E k \in Sid :
    \/ EntryPageFetched(k)
    \/ \E s \in Sandbox : SessionRequest(k, s)
    \/ \E s \in Sandbox : SessionRefused(k, s)
    \/ CookieDropped(k)

Next == TicketStep \/ SessionStep \/ Tick \/ PruneLoop \/ Restart

Spec == Init /\ [][Next]_vars

\* Time passes, and the prune loop takes its turns.
LiveSpec == Spec /\ WF_vars(Tick) /\ WF_vars(PruneLoop)

-----------------------------------------------------------------------------
(* Properties.                                                             *)

\* verify_ticket and consume: one server process accepts a one-time ticket at
\* most once, although it forgets used tickets as soon as they expire, and
\* although one expiry is compared with the exact clock and the other with
\* whole seconds that are read later.  It needs MaxStall < 2: after a stall of a
\* second between the two readings, a ticket checked before it expired is looked
\* up after its use was pruned.
OneTimeOnce ==
  \A t \in Ticket : spent[t] <= 1

\* docs/api.md says of a one-time ticket "Consumed on first use. Cannot be
\* reused.", and docs/guides/human-handoff.md of its URL that it "cannot be used
\* again".  The code breaks this: TicketStore is in memory only, so a server
\* that was started again accepts a ticket once more while it is valid.
NeverReused ==
  \A t \in Ticket : uses[t] <= 1

\* session_entry: two sessions that both exist were never opened with the same
\* one-time ticket, whatever was pruned or restarted in between.
OneSessionPerTicket ==
  \A k, l \in Sid :
    /\ session[k] # None
    /\ session[l] # None
    /\ session[k].ticket = session[l].ticket
    /\ ticket[session[k].ticket].mode = "one_time"
    => k = l

\* verify_ticket, _create_session and _validate_session: whatever is let
\* through was granted by a ticket of this sandbox and kind, and not later than
\* a second, plus a stall of the handler, after that ticket expired (the second
\* is the least lifetime of a session).
AccessWithinGrant ==
  \A a \in access : LET p == ticket[a.ticket] IN
    /\ p # None
    /\ p.sandbox = a.sandbox
    /\ p.scope = a.scope
    /\ p.mode # "permanent" => a.at <= 2 * p.exp + 2 + MaxStall

\* _ticket_prune_loop: the memory of a used ticket does not stay for ever, even
\* if no further ticket is ever used.
UsedTicketsDrain ==
  \A t \in Ticket : t \in consumed ~> t \notin consumed
================================================================================
