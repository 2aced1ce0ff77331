---------------------------- MODULE SessionsProofs ----------------------------
(***************************************************************************)
(* Theorems about Sessions for any number of tickets, sandboxes, sessions  *)
(* and restarts, any lifetimes and any length of a run.                    *)
(***************************************************************************)
EXTENDS Sessions, TLAPS

\* Whole seconds are monotone and lose less than a second.
LEMMA SecondsFacts ==
  ASSUME NEW a \in Nat, NEW b \in Nat, a <= b
  PROVE  /\ Seconds(a) \in Nat
         /\ Seconds(a) <= Seconds(b)
         /\ 2 * Seconds(a) <= a
         /\ a < 2 * Seconds(a) + 2
BY DEF Seconds

\* The clock only goes on, and never beyond the bound.
LEMMA LaterFacts ==
  ASSUME TypeOK, NEW a \in clock..MaxClock, NEW e \in Later(a)
  PROVE  /\ e \in clock..MaxClock
         /\ a <= e
         /\ e <= clock + MaxStall
BY TicketsAssumption DEF Later, TypeOK

-----------------------------------------------------------------------------
(* Type correctness.                                                       *)

\* Pruning keeps the session table a session table.
LEMMA PruneType ==
  ASSUME TypeOK, NEW at
  PROVE  PruneSessions(at) \in [Sid -> SessionRecord \cup {None}]
BY DEF TypeOK, PruneSessions

\* Accepting a ticket keeps the types of what tickets are about, and says what
\* is remembered afterwards.
LEMMA AcceptType ==
  ASSUME TypeOK, NEW t \in Ticket, NEW s \in Sandbox, NEW scope \in Scope,
         NEW at, Accept(t, s, scope, at)
  PROVE  /\ ticket' \in [Ticket -> Payload \cup {None}]
         /\ \A u \in consumed' : u \in Ticket /\ Consumable(u)'
         /\ spent' \in [Ticket -> Nat]
         /\ uses' \in [Ticket -> Nat]
BY DEF TypeOK, Accept, Verified, Consume, Spends, Consumable, Unexpired,
       useVars

\* A session that is created is a session.
LEMMA CreateType ==
  ASSUME TypeOK, NEW k \in Sid, NEW t \in Ticket, ticket[t] # None,
         NEW at \in Nat, NEW now \in Nat, CreateSession(k, t, at, now)
  PROVE  session' \in [Sid -> SessionRecord \cup {None}]
<1>1. ticket[t] \in Payload
  BY DEF TypeOK
<1>2. SessionTTL(t, at) \in Nat
  BY <1>1 DEF SessionTTL, Payload
<1> DEFINE e == IF ticket[t].mode = "permanent" THEN 0
                ELSE now + 2 * SessionTTL(t, at)
           new == [sandbox |-> ticket[t].sandbox, ticket |-> t,
                   endless |-> ticket[t].mode = "permanent",
                   expires_at |-> e]
<1>3. new \in SessionRecord
  BY <1>1, <1>2 DEF SessionRecord, Payload
<1>4. session' = [PruneSessions(now) EXCEPT ![k] = new]
  BY DEF CreateSession
<1> HIDE DEF new
<1> QED BY <1>3, <1>4, PruneType

\* Every variable always has its type, and only uses of one-time tickets that
\* were issued are remembered.
THEOREM TypeCorrect == Spec => []TypeOK
<1>1. Init => TypeOK
  BY TicketsAssumption, SessionsAssumption DEF Init, TicketsInit, TypeOK
<1>2. TypeOK /\ [Next]_vars => TypeOK'
  <2> SUFFICES ASSUME TypeOK, [Next]_vars PROVE TypeOK'
    OBVIOUS
  <2> USE TicketsAssumption, SessionsAssumption
  <2>1. ASSUME NEW t \in Ticket, NEW s \in Sandbox, NEW scope \in Scope,
               NEW mode \in Mode, NEW ttl \in TTL,
               IssueTicket(t, s, scope, mode, ttl)
        PROVE  TypeOK'
    <3>1. Seconds(clock) + ttl \in Nat
      BY SecondsFacts DEF TypeOK
    <3>2. PICK e \in Nat : ticket' = [ticket EXCEPT ![t] =
            [sandbox |-> s, scope |-> scope, mode |-> mode, exp |-> e]]
      BY <2>1, <3>1 DEF IssueTicket, Issue
    <3>3. ticket' \in [Ticket -> Payload \cup {None}]
      BY <3>2 DEF TypeOK, Payload
    <3>4. \A u \in consumed' : u \in Ticket /\ Consumable(u)'
      BY <2>1, <3>2 DEF TypeOK, IssueTicket, Issue, Consumable
    <3> QED BY <2>1, <3>3, <3>4
            DEF TypeOK, IssueTicket, Issue, useVars, sessionVars
  <2>2. ASSUME NEW t \in Ticket, NEW s \in Sandbox, NEW k \in Sid,
               SessionEntry(t, s, k)
        PROVE  TypeOK'
    <3>1. PICK used \in Later(clock) : \E at \in Later(used) :
            \E now \in Later(at) : /\ Accept(t, s, "session", used)
                                  /\ CreateSession(k, t, at, now)
                                  /\ clock' = now
      BY <2>2 DEF SessionEntry
    <3>2. PICK at \in Later(used) : \E now \in Later(at) :
            /\ CreateSession(k, t, at, now)
            /\ clock' = now
      BY <3>1
    <3>3. PICK now \in Later(at) : CreateSession(k, t, at, now) /\ clock' = now
      BY <3>2
    <3>4. used \in clock..MaxClock /\ at \in clock..MaxClock
          /\ now \in clock..MaxClock
      BY LaterFacts DEF TypeOK
    <3>5. clock' \in 0..MaxClock /\ at \in Nat /\ now \in Nat
      BY <3>3, <3>4 DEF TypeOK
    <3>6. session' \in [Sid -> SessionRecord \cup {None}]
      BY <3>1, <3>3, <3>5, CreateType DEF Accept, Verified
    <3>7. access' \subseteq Access
      BY <2>2 DEF SessionEntry, Granted, Access, Scope, TypeOK
    <3> QED BY <2>2, <3>1, <3>5, <3>6, <3>7, AcceptType
            DEF SessionEntry, TypeOK, Scope
  <2>3. ASSUME NEW k \in Sid, EntryPageFetched(k)
        PROVE  TypeOK'
    BY <2>3 DEF EntryPageFetched, TypeOK, ticketVars, useVars, Consumable
  <2>4. ASSUME NEW t \in Ticket, NEW s \in Sandbox, CdpConnect(t, s)
        PROVE  TypeOK'
    <3>1. PICK used \in Later(clock) :
            Accept(t, s, "cdp", used) /\ clock' = used
      BY <2>4 DEF CdpConnect
    <3>2. clock' \in 0..MaxClock
      BY <3>1, LaterFacts DEF TypeOK
    <3>3. access' \subseteq Access
      BY <2>4 DEF CdpConnect, Granted, Access, Scope, TypeOK
    <3> QED BY <2>4, <3>1, <3>2, <3>3, AcceptType
            DEF CdpConnect, TypeOK, Scope, sessionVars
  <2>5. ASSUME NEW t \in Ticket, NEW s \in Sandbox, NEW scope \in Scope,
               TicketRefused(t, s, scope)
        PROVE  TypeOK'
    <3>1. PICK used \in Later(clock) :
            RefuseUsed(t, s, scope, used) /\ clock' = used
      BY <2>5 DEF TicketRefused
    <3>2. clock' \in 0..MaxClock
      BY <3>1, LaterFacts DEF TypeOK
    <3>3. \A u \in consumed' : u \in Ticket /\ Consumable(u)'
      BY <3>1 DEF RefuseUsed, Unexpired, TypeOK, Consumable
    <3> QED BY <2>5, <3>1, <3>2, <3>3
            DEF TicketRefused, RefuseUsed, TypeOK, useVars, sessionVars
  <2>6. ASSUME NEW k \in Sid, NEW s \in Sandbox,
               SessionRequest(k, s) \/ SessionRefused(k, s)
        PROVE  TypeOK'
    <3>1. PICK now \in Later(clock) :
            session' = PruneSessions(now) /\ clock' = now
      BY <2>6 DEF SessionRequest, SessionRefused
    <3>2. clock' \in 0..MaxClock
      BY <3>1, LaterFacts DEF TypeOK
    <3>3. session' \in [Sid -> SessionRecord \cup {None}]
      BY <3>1, PruneType
    <3>4. access' \subseteq Access
      BY <2>6 DEF SessionRequest, SessionRefused, Granted, Valid, Access,
                  Scope, TypeOK, SessionRecord
    <3> QED BY <2>6, <3>2, <3>3, <3>4
            DEF SessionRequest, SessionRefused, TypeOK, useVars, Consumable
  <2>7. ASSUME NEW k \in Sid, CookieDropped(k)
        PROVE  TypeOK'
    BY <2>7 DEF CookieDropped, TypeOK, ticketVars, useVars, Consumable
  <2>8. Tick => TypeOK'
    BY DEF Tick, TypeOK, useVars, sessionVars, Consumable
  <2>9. PruneLoop => TypeOK'
    BY DEF PruneLoop, PruneTickets, Unexpired, TypeOK, useVars, sessionVars,
           Consumable
  <2>10. Restart => TypeOK'
    BY DEF Restart, TypeOK, Consumable
  <2>11. UNCHANGED vars => TypeOK'
    BY DEF vars, ticketVars, useVars, sessionVars, TypeOK, Consumable
  <2> QED
    BY <2>1, <2>2, <2>3, <2>4, <2>5, <2>6, <2>7, <2>8, <2>9, <2>10, <2>11
    DEF Next, TicketStep, SessionStep
<1> QED
  BY <1>1, <1>2, PTL DEF Spec

-----------------------------------------------------------------------------
(* One-time tickets.                                                       *)

\* A ticket that will not be accepted any more by this server: its use is
\* remembered, or it expired a whole second ago.
Settled(t) ==
  \/ t \in consumed
  \/ ticket[t] # None /\ ticket[t].exp < Seconds(clock)

\* A use settles the ticket.
Remembered ==
  \A t \in Ticket : spent[t] <= IF Settled(t) THEN 1 ELSE 0

\* A session of a one-time ticket keeps its ticket settled.
SessionSettles ==
  \A k \in Sid :
    session[k] # None /\ Consumable(session[k].ticket)
      => Settled(session[k].ticket)

OneTimeInv == Remembered /\ SessionSettles /\ OneSessionPerTicket

\* What every step but a restart does to the tickets: those issued stay as they
\* are, time does not run backwards, and what is forgotten has expired.
Forward ==
  /\ clock <= clock'
  /\ \A t \in Ticket : ticket[t] # None => ticket'[t] = ticket[t]
  /\ \A t \in consumed : t \in consumed' \/ ticket[t].exp < Seconds(clock')

\* No session but those of K is new.
OnlyNew(K) ==
  \A l \in Sid \ K : session'[l] = None \/ session'[l] = session[l]

\* A step that uses no ticket.
Quiet == Forward /\ OnlyNew({}) /\ UNCHANGED spent

\* Used tickets that are dropped at a time not after the step have expired by
\* the end of the step.
LEMMA PruneForward ==
  ASSUME TypeOK, NEW at \in Nat, at <= clock', clock' \in Nat,
         Unexpired(at) \subseteq consumed'
  PROVE  \A t \in consumed : t \in consumed' \/ ticket[t].exp < Seconds(clock')
<1> SUFFICES ASSUME NEW t \in consumed, t \notin consumed'
             PROVE  ticket[t].exp < Seconds(clock')
  OBVIOUS
<1>1. ticket[t].exp \in Nat
  BY DEF TypeOK, Consumable, Payload
<1>2. ticket[t].exp < Seconds(at)
  BY <1>1, SecondsFacts DEF Unexpired
<1> QED BY <1>1, <1>2, SecondsFacts

\* A settled ticket stays settled.
LEMMA SettledStays ==
  ASSUME TypeOK, TypeOK', Forward, NEW t \in Ticket, Settled(t)
  PROVE  Settled(t)'
<1>1. ticket[t] # None /\ ticket[t].exp \in Nat /\ ticket'[t] = ticket[t]
  BY DEF TypeOK, Settled, Consumable, Payload, Forward
<1>2. Seconds(clock) <= Seconds(clock') /\ Seconds(clock) \in Nat
      /\ Seconds(clock') \in Nat
  BY SecondsFacts DEF TypeOK, Forward
<1> QED BY <1>1, <1>2 DEF Settled, Forward

\* The crux: between the exact check of the expiry and the pruning in whole
\* seconds less than a second passes, so a use that counts is not forgotten.
LEMMA FreshUse ==
  ASSUME MaxStall < 2, TypeOK, NEW t \in Ticket, NEW s, NEW scope,
         NEW used \in Later(clock), Accept(t, s, scope, used), Consumable(t)
  PROVE  ~Settled(t) /\ t \in consumed'
<1>1. ticket[t].exp \in Nat /\ clock <= 2 * ticket[t].exp
  BY DEF TypeOK, Consumable, Payload, Accept, Verified
<1>2. used \in Nat /\ used <= clock + MaxStall /\ clock \in Nat
  BY LaterFacts DEF TypeOK
<1>3. Seconds(clock) <= ticket[t].exp
  BY <1>1, <1>2, SecondsFacts
<1>4. Seconds(used) <= ticket[t].exp
  <2>1. used <= 2 * ticket[t].exp + 1
    BY <1>1, <1>2, TicketsAssumption
  <2> QED BY <2>1, <1>1, <1>2, SecondsFacts
<1>5. t \notin Unexpired(used) /\ t \in consumed'
  BY DEF Accept, Consume
<1>6. Seconds(clock) \in Nat
  BY <1>2, SecondsFacts
<1> QED BY <1>1, <1>3, <1>4, <1>5, <1>6 DEF Unexpired, Settled

\* Accepting a ticket that is not to be consumed changes nothing.
LEMMA AcceptForward ==
  ASSUME TypeOK, NEW t \in Ticket, NEW s, NEW scope,
         NEW used \in Later(clock), Accept(t, s, scope, used),
         clock' \in Nat, used <= clock'
  PROVE  /\ Forward
         /\ spent' = IF Consumable(t) THEN [spent EXCEPT ![t] = @ + 1]
                     ELSE spent
<1>1. used \in Nat /\ clock <= used /\ clock \in Nat
  BY LaterFacts DEF TypeOK
<1>2. Unexpired(used) \subseteq consumed'
  BY DEF Accept, Consume, Unexpired
<1> QED BY <1>1, <1>2, PruneForward DEF Accept, Consume, Spends, Forward, useVars

-----------------------------------------------------------------------------
(* What a step is: a restart, a use of a ticket, or quiet.                 *)

\* Pruning opens no session.
LEMMA PruneKeeps ==
  ASSUME NEW at, NEW l \in Sid
  PROVE  PruneSessions(at)[l] \in {None, session[l]}
BY DEF PruneSessions

\* A step that is neither a restart nor a use of a ticket is quiet.
LEMMA QuietStep ==
  ASSUME TypeOK, TypeOK', [Next]_vars
  PROVE  \/ Restart
         \/ Quiet
         \/ \E t \in Ticket, s \in Sandbox : CdpConnect(t, s)
         \/ \E t \in Ticket, s \in Sandbox, k \in Sid : SessionEntry(t, s, k)
<1> USE DEF Quiet, OnlyNew
<1>1. clock \in Nat /\ clock' \in Nat
  BY TicketsAssumption DEF TypeOK
<1>2. UNCHANGED <<ticketVars, session>> => Quiet
  BY <1>1 DEF ticketVars, useVars, Forward
<1>3. ASSUME NEW t \in Ticket, NEW s \in Sandbox, NEW scope \in Scope,
             NEW mode \in Mode, NEW ttl \in TTL,
             IssueTicket(t, s, scope, mode, ttl)
      PROVE  Quiet
  BY <1>1, <1>3 DEF IssueTicket, Issue, Forward, TypeOK, useVars, sessionVars
<1>4. ASSUME NEW t \in Ticket, NEW s \in Sandbox, NEW scope \in Scope,
             TicketRefused(t, s, scope)
      PROVE  Quiet
  <2>1. PICK used \in Later(clock) :
          RefuseUsed(t, s, scope, used) /\ clock' = used
    BY <1>4 DEF TicketRefused
  <2>2. used \in Nat /\ clock <= used
    BY LaterFacts DEF TypeOK
  <2>3. Forward
    BY <1>1, <2>1, <2>2, PruneForward DEF RefuseUsed, Forward
  <2> QED BY <1>4, <2>1, <2>3 DEF TicketRefused, RefuseUsed, useVars, sessionVars
<1>5. ASSUME NEW k \in Sid, NEW s \in Sandbox,
             SessionRequest(k, s) \/ SessionRefused(k, s)
      PROVE  Quiet
  <2>1. PICK now \in Later(clock) :
          session' = PruneSessions(now) /\ clock' = now
    BY <1>5 DEF SessionRequest, SessionRefused
  <2>2. clock <= clock'
    BY <2>1, LaterFacts DEF TypeOK
  <2>3. Forward
    BY <1>1, <1>5, <2>2 DEF SessionRequest, SessionRefused, Forward
  <2> QED BY <1>5, <2>1, <2>3, PruneKeeps
          DEF SessionRequest, SessionRefused, useVars
<1>6. ASSUME NEW k \in Sid, EntryPageFetched(k) \/ CookieDropped(k)
      PROVE  Quiet
  BY <1>2, <1>6 DEF EntryPageFetched, CookieDropped
<1>7. Tick => Quiet
  BY <1>1 DEF Tick, Forward, useVars, sessionVars
<1>8. PruneLoop => Quiet
  BY <1>1, PruneForward
  DEF PruneLoop, PruneTickets, Forward, useVars, sessionVars
<1>9. UNCHANGED vars => Quiet
  BY <1>2 DEF vars, sessionVars
<1> QED
  BY <1>3, <1>4, <1>5, <1>6, <1>7, <1>8, <1>9
  DEF Next, TicketStep, SessionStep

\* The uses of a ticket: through the entry page, which opens session k.
LEMMA EntryStep ==
  ASSUME TypeOK, TypeOK', NEW t \in Ticket, NEW s \in Sandbox, NEW k \in Sid,
         SessionEntry(t, s, k)
  PROVE  /\ Forward
         /\ OnlyNew({k})
         /\ spent' = IF Consumable(t) THEN [spent EXCEPT ![t] = @ + 1] ELSE spent
         /\ Verified(t, s, "session")
         /\ MaxStall < 2 /\ Consumable(t) => ~Settled(t) /\ t \in consumed'
         /\ \E at \in clock..clock', now \in {clock'} :
              clock' <= clock + MaxStall /\ CreateSession(k, t, at, now)
<1>1. PICK used \in Later(clock) : \E at \in Later(used) :
        \E now \in Later(at) : /\ Accept(t, s, "session", used)
                              /\ CreateSession(k, t, at, now)
                              /\ clock' = now
  BY DEF SessionEntry
<1>2. PICK at \in Later(used) : \E now \in Later(at) :
        CreateSession(k, t, at, now) /\ clock' = now
  BY <1>1
<1>3. PICK now \in Later(at) : CreateSession(k, t, at, now) /\ clock' = now
  BY <1>2
<1>4. used \in clock..MaxClock /\ at \in clock..MaxClock
      /\ used <= at /\ at <= now /\ now <= clock + MaxStall
  BY LaterFacts DEF TypeOK
<1>5. clock' \in Nat /\ used <= clock' /\ at \in clock..clock'
  BY <1>3, <1>4, TicketsAssumption DEF TypeOK
<1>6. OnlyNew({k})
  BY <1>3, PruneKeeps, PruneType DEF CreateSession, OnlyNew
<1> QED
  BY <1>1, <1>3, <1>4, <1>5, <1>6, AcceptForward, FreshUse DEF Accept

\* Or through the CDP proxy, which opens none.
LEMMA CdpStep ==
  ASSUME TypeOK, TypeOK', NEW t \in Ticket, NEW s \in Sandbox, CdpConnect(t, s)
  PROVE  /\ Forward
         /\ OnlyNew({})
         /\ spent' = IF Consumable(t) THEN [spent EXCEPT ![t] = @ + 1] ELSE spent
         /\ Verified(t, s, "cdp")
         /\ MaxStall < 2 /\ Consumable(t) => ~Settled(t) /\ t \in consumed'
<1>1. PICK used \in Later(clock) : Accept(t, s, "cdp", used) /\ clock' = used
  BY DEF CdpConnect
<1>2. clock' \in Nat /\ used <= clock'
  BY <1>1, TicketsAssumption DEF TypeOK
<1> QED
  BY <1>1, <1>2, AcceptForward, FreshUse
  DEF CdpConnect, sessionVars, OnlyNew, Accept

-----------------------------------------------------------------------------
(* What is let through was granted.                                        *)

\* A session says what its ticket granted, and ends soon after it.
SessionGrants ==
  \A k \in Sid : session[k] # None =>
    LET p == ticket[session[k].ticket] IN
    /\ p # None
    /\ p.sandbox = session[k].sandbox
    /\ p.scope = "session"
    /\ session[k].endless => p.mode = "permanent"
    /\ ~session[k].endless => session[k].expires_at <= 2 * p.exp + 2 + MaxStall

\* A session that was there before keeps what its ticket granted.
LEMMA OldSession ==
  ASSUME TypeOK, SessionGrants, Forward, NEW l \in Sid, session'[l] # None,
         session'[l] = session[l]
  PROVE  /\ session[l].ticket \in Ticket
         /\ ticket[session[l].ticket] # None
         /\ ticket'[session[l].ticket] = ticket[session[l].ticket]
BY DEF TypeOK, SessionRecord, SessionGrants, Forward

\* A new session lasts at most as long as its ticket, or a second from a moment
\* at which the ticket had been checked.
LEMMA NewSession ==
  ASSUME TypeOK, NEW t \in Ticket, NEW s \in Sandbox, NEW k \in Sid,
         Verified(t, s, "session"), ticket'[t] = ticket[t],
         NEW at \in clock..clock', clock' \in Nat, clock' <= clock + MaxStall,
         CreateSession(k, t, at, clock')
  PROVE  LET p == ticket'[t] IN
         /\ session'[k].ticket = t
         /\ p # None
         /\ p.sandbox = session'[k].sandbox
         /\ p.scope = "session"
         /\ session'[k].endless => p.mode = "permanent"
         /\ ~session'[k].endless =>
              session'[k].expires_at <= 2 * p.exp + 2 + MaxStall
<1>1. ticket[t] \in Payload /\ clock \in Nat
  BY DEF TypeOK, Verified
<1> DEFINE end == clock' + 2 * SessionTTL(t, at)
<1>2. ticket[t].mode # "permanent" => end <= 2 * ticket[t].exp + 2 + MaxStall
  <2> SUFFICES ASSUME ticket[t].mode # "permanent"
               PROVE  end <= 2 * ticket[t].exp + 2 + MaxStall
    OBVIOUS
  <2>1. clock <= 2 * ticket[t].exp /\ ticket[t].exp \in Nat
    BY <1>1 DEF Verified, Payload
  <2>2. SessionTTL(t, at) \in Nat
        /\ (SessionTTL(t, at) = 1 \/ 2 * SessionTTL(t, at) <= 2 * ticket[t].exp - at)
    BY <1>1, <2>1 DEF SessionTTL
  <2> QED BY <1>1, <2>1, <2>2, TicketsAssumption
<1> HIDE DEF end
<1> DEFINE new == [sandbox |-> ticket[t].sandbox, ticket |-> t,
                   endless |-> ticket[t].mode = "permanent",
                   expires_at |-> IF ticket[t].mode = "permanent" THEN 0
                                  ELSE end]
<1>3. session'[k] = new
  BY PruneType DEF CreateSession, end
<1>4. /\ session'[k].ticket = t
      /\ session'[k].sandbox = ticket[t].sandbox
      /\ session'[k].endless = (ticket[t].mode = "permanent")
      /\ ticket[t].mode # "permanent" => session'[k].expires_at = end
  BY <1>3
<1> QED BY <1>2, <1>4, ticket'[t] = ticket[t] DEF Verified

\* Every session that exists was opened by a session ticket of its sandbox, and
\* a session that does not expire by a permanent one.
THEOREM SessionsGranted == Spec => []SessionGrants
<1>1. Init => SessionGrants
  BY DEF Init, SessionGrants
<1>2. TypeOK /\ TypeOK' /\ SessionGrants /\ [Next]_vars => SessionGrants'
  <2> SUFFICES ASSUME TypeOK, TypeOK', SessionGrants, [Next]_vars
               PROVE  SessionGrants'
    OBVIOUS
  <2>1. ASSUME Forward, NEW l \in Sid, session'[l] # None,
               session'[l] = session[l]
        PROVE  LET p == ticket'[session'[l].ticket] IN
               /\ p # None
               /\ p.sandbox = session'[l].sandbox
               /\ p.scope = "session"
               /\ session'[l].endless => p.mode = "permanent"
               /\ ~session'[l].endless =>
                    session'[l].expires_at <= 2 * p.exp + 2 + MaxStall
    BY <2>1, OldSession DEF SessionGrants
  <2>2. Forward /\ OnlyNew({}) => SessionGrants'
    BY <2>1 DEF OnlyNew, SessionGrants
  <2>3. ASSUME NEW t \in Ticket, NEW s \in Sandbox, NEW k \in Sid,
               SessionEntry(t, s, k)
        PROVE  SessionGrants'
    <3>1. /\ Forward
          /\ OnlyNew({k})
          /\ Verified(t, s, "session")
          /\ clock' <= clock + MaxStall
      BY <2>3, EntryStep
    <3>2. PICK at \in clock..clock' : CreateSession(k, t, at, clock')
      BY <2>3, EntryStep
    <3>3. ticket'[t] = ticket[t] /\ clock' \in Nat
      BY <3>1, TicketsAssumption DEF Forward, Verified, TypeOK
    <3>4. session'[k] # None => LET p == ticket'[session'[k].ticket] IN
               /\ p # None
               /\ p.sandbox = session'[k].sandbox
               /\ p.scope = "session"
               /\ session'[k].endless => p.mode = "permanent"
               /\ ~session'[k].endless =>
                    session'[k].expires_at <= 2 * p.exp + 2 + MaxStall
      BY <3>1, <3>2, <3>3, NewSession
    <3> QED BY <2>1, <3>1, <3>4 DEF OnlyNew, SessionGrants
  <2>4. Restart => SessionGrants'
    BY DEF Restart, SessionGrants
  <2> QED BY <2>2, <2>3, <2>4, QuietStep, CdpStep DEF Quiet
<1> QED
  BY <1>1, <1>2, TypeCorrect, PTL DEF Spec

\* Whatever the server lets through was granted by a ticket of that sandbox and
\* kind, and in time.
THEOREM AccessGranted == Spec => []AccessWithinGrant
<1>1. Init => AccessWithinGrant
  BY DEF Init, AccessWithinGrant
<1>2. /\ TypeOK /\ TypeOK' /\ SessionGrants /\ AccessWithinGrant /\ [Next]_vars
      => AccessWithinGrant'
  <2> SUFFICES ASSUME TypeOK, TypeOK', SessionGrants, AccessWithinGrant,
                      [Next]_vars
               PROVE  AccessWithinGrant'
    OBVIOUS
  <2>1. ASSUME NEW t \in Ticket, NEW s \in Sandbox, NEW scope \in Scope,
               Granted(t, s, scope), Forward, ticket[t] # None,
               ticket[t].sandbox = s, ticket[t].scope = scope,
               ticket[t].mode # "permanent" =>
                 clock <= 2 * ticket[t].exp + 2 + MaxStall
        PROVE  AccessWithinGrant'
    BY <2>1 DEF Granted, Forward, AccessWithinGrant
  <2>2. ASSUME NEW t \in Ticket, NEW s \in Sandbox, NEW scope \in Scope,
               Granted(t, s, scope), Forward, Verified(t, s, scope)
        PROVE  AccessWithinGrant'
    <3>1. ticket[t] \in Payload /\ clock \in Nat
      BY <2>2 DEF TypeOK, Verified
    <3>2. ticket[t].mode # "permanent" =>
            clock <= 2 * ticket[t].exp + 2 + MaxStall
      BY <2>2, <3>1, TicketsAssumption DEF Verified, Payload
    <3> QED BY <2>1, <2>2, <3>2 DEF Verified
  <2>3. ASSUME NEW t \in Ticket, NEW s \in Sandbox,
               CdpConnect(t, s) \/ \E k \in Sid : SessionEntry(t, s, k)
        PROVE  AccessWithinGrant'
    BY <2>2, <2>3, CdpStep, EntryStep DEF CdpConnect, SessionEntry, Scope
  <2>4. ASSUME NEW k \in Sid, NEW s \in Sandbox, SessionRequest(k, s)
        PROVE  AccessWithinGrant'
    <3>1. session[k] \in SessionRecord /\ ~Expired(k, clock)
          /\ session[k].sandbox = s /\ session[k] # None
          /\ Granted(session[k].ticket, s, "session")
      BY <2>4 DEF SessionRequest, Valid, TypeOK
    <3>2. ticket' = ticket /\ ticket[session[k].ticket] \in Payload
          /\ clock \in Nat
      BY <2>4, <3>1 DEF SessionRequest, SessionGrants, TypeOK, SessionRecord
    <3>3. ticket[session[k].ticket].mode # "permanent" =>
            clock <= 2 * ticket[session[k].ticket].exp + 2 + MaxStall
      BY <3>1, <3>2, TicketsAssumption
      DEF Expired, SessionGrants, SessionRecord, Payload
    <3> QED BY <3>1, <3>2, <3>3
            DEF Granted, AccessWithinGrant, SessionGrants
  <2>5. access' = {} => AccessWithinGrant'
    BY DEF AccessWithinGrant
  <2>6. UNCHANGED vars => AccessWithinGrant'
    BY DEF vars, ticketVars, AccessWithinGrant
  <2> QED
    BY <2>3, <2>4, <2>5, <2>6
    DEF Next, TicketStep, SessionStep, IssueTicket, TicketRefused,
        EntryPageFetched, SessionRefused, CookieDropped, Tick, PruneLoop, Restart
<1> QED
  BY <1>1, <1>2, TypeCorrect, SessionsGranted, PTL DEF Spec

-----------------------------------------------------------------------------
(* One use, and one session, per one-time ticket.                          *)

\* After a step that goes forward, old sessions still have settled tickets.
LEMMA OldSettled ==
  ASSUME TypeOK, TypeOK', SessionGrants, SessionSettles, Forward,
         NEW l \in Sid, NEW u \in Ticket,
         session[l] # None, session[l].ticket = u, Consumable(u)'
  PROVE  Consumable(u) /\ Settled(u) /\ Settled(u)'
<1>1. ticket[u] # None /\ ticket'[u] = ticket[u]
  BY DEF SessionGrants, Forward
<1>2. Consumable(u)
  BY <1>1 DEF Consumable
<1>3. Settled(u)
  BY <1>2 DEF SessionSettles
<1> QED BY <1>2, <1>3, SettledStays

\* A step keeps the invariant if the sessions it opens, if any, are the session
\* of one ticket, which is fresh before and settled after the step if it is a
\* one-time ticket.
LEMMA SessionsStep ==
  ASSUME TypeOK, TypeOK', SessionGrants, SessionGrants', SessionSettles,
         OneSessionPerTicket, Forward, NEW K \in SUBSET Sid, OnlyNew(K), NEW t \in Ticket,
         \A k, l \in K : k = l,
         \A k \in K : session'[k] # None => session'[k].ticket = t,
         K # {} /\ Consumable(t)' => ~Settled(t) /\ Settled(t)'
  PROVE  SessionSettles' /\ OneSessionPerTicket'
<1>1. ASSUME NEW l \in Sid, session'[l] # None, NEW u \in Ticket,
             session'[l].ticket = u, Consumable(u)'
      PROVE  /\ Settled(u)'
             /\ l \notin K =>
                  /\ Settled(u) /\ Consumable(u)
                  /\ session[l] # None /\ session[l].ticket = u
             /\ l \in K => u = t /\ ~Settled(u)
  <2>1. CASE l \in K
    BY <1>1, <2>1
  <2>2. CASE l \notin K
    <3>1. session'[l] = session[l]
      BY <1>1, <2>2 DEF OnlyNew
    <3> QED BY <1>1, <2>2, <3>1, OldSettled
  <2> QED BY <2>1, <2>2
<1>2. \A l \in Sid : session'[l] # None => session'[l].ticket \in Ticket
  BY DEF TypeOK, SessionRecord
<1>3. SessionSettles'
  <2> SUFFICES ASSUME NEW l \in Sid, NEW u \in Ticket, session'[l] # None,
                      session'[l].ticket = u, Consumable(u)'
               PROVE  Settled(u)'
    BY <1>2 DEF SessionSettles, Settled, Consumable
  <2> QED BY <1>1
<1>4. OneSessionPerTicket'
  <2> SUFFICES ASSUME NEW k \in Sid, NEW l \in Sid, NEW u \in Ticket,
                      session'[k] # None, session'[l] # None,
                      session'[k].ticket = u, session'[l].ticket = u,
                      Consumable(u)'
               PROVE  k = l
    <3>1. \A l \in Sid : session'[l] # None => ticket'[session'[l].ticket] # None
      BY DEF SessionGrants
    <3> QED BY <1>2, <3>1 DEF OneSessionPerTicket, Consumable
  <2>1. CASE k \in K /\ l \in K
    BY <2>1
  <2>2. CASE k \in K <=> l \notin K
    BY <1>1, <2>2
  <2>3. CASE k \notin K /\ l \notin K
    BY <1>1, <2>3 DEF OneSessionPerTicket, Consumable
  <2> QED BY <2>1, <2>2, <2>3
<1> QED BY <1>3, <1>4

\* Counting a use is justified by the ticket being settled by it.
LEMMA RememberedStep ==
  ASSUME TypeOK, TypeOK', Remembered, Forward,
         NEW t \in Ticket,
         \/ spent' = spent
         \/ /\ spent' = [spent EXCEPT ![t] = @ + 1]
            /\ ~Settled(t)
            /\ Settled(t)'
  PROVE  Remembered'
<1> SUFFICES ASSUME NEW u \in Ticket
             PROVE  spent'[u] <= IF Settled(u)' THEN 1 ELSE 0
  BY DEF Remembered
<1>1. spent[u] <= (IF Settled(u) THEN 1 ELSE 0) /\ spent[u] \in Nat
  BY DEF Remembered, TypeOK
<1>2. CASE spent'[u] = spent[u]
  BY <1>1, <1>2, SettledStays
<1>3. CASE spent'[u] # spent[u]
  <2>1. u = t /\ spent'[u] = spent[u] + 1 /\ ~Settled(u) /\ Settled(u)'
    BY <1>3 DEF TypeOK
  <2> QED BY <1>1, <2>1
<1> QED BY <1>2, <1>3

\* What a one-time ticket opened, while the handlers stall less than a second.
THEOREM OneTimeHolds ==
  ASSUME MaxStall < 2
  PROVE  Spec => []OneTimeInv
<1>1. Init => OneTimeInv
  BY SessionsAssumption
  DEF Init, TicketsInit, OneTimeInv, Remembered, SessionSettles,
      OneSessionPerTicket
<1>2. /\ TypeOK /\ TypeOK' /\ SessionGrants /\ SessionGrants' /\ OneTimeInv
      /\ [Next]_vars
      => OneTimeInv'
  <2> SUFFICES ASSUME TypeOK, TypeOK', SessionGrants, SessionGrants',
                      OneTimeInv, [Next]_vars
               PROVE  OneTimeInv'
    OBVIOUS
  <2> USE DEF OneTimeInv
  <2>1. ASSUME NEW t \in Ticket, Forward, OnlyNew({}),
               \/ UNCHANGED spent
               \/ /\ spent' = [spent EXCEPT ![t] = @ + 1]
                  /\ ~Settled(t)
                  /\ Settled(t)'
        PROVE  OneTimeInv'
    BY <2>1, RememberedStep, SessionsStep
  <2>2. ASSUME Quiet
        PROVE  OneTimeInv'
    <3>1. Forward /\ OnlyNew({}) /\ spent' = spent
      BY <2>2 DEF Quiet
    <3>2. CASE Ticket = {}
      <4>1. Sid = {} \/ \A k \in Sid : session'[k] = None
        BY <3>2 DEF TypeOK, SessionRecord
      <4> QED BY <3>2, <4>1 DEF Remembered, SessionSettles, OneSessionPerTicket
    <3>3. CASE Ticket # {}
      BY <2>1, <3>1, <3>3
    <3> QED BY <3>2, <3>3
  <2>3. ASSUME NEW t \in Ticket, NEW s \in Sandbox, CdpConnect(t, s)
        PROVE  OneTimeInv'
    BY <2>1, <2>3, CdpStep DEF CdpConnect, Settled
  <2>4. ASSUME NEW t \in Ticket, NEW s \in Sandbox, NEW k \in Sid,
               SessionEntry(t, s, k)
        PROVE  OneTimeInv'
    <3>1. /\ Forward
          /\ OnlyNew({k})
          /\ spent' = IF Consumable(t) THEN [spent EXCEPT ![t] = @ + 1] ELSE spent
          /\ ticket[t] # None
          /\ Consumable(t) => ~Settled(t) /\ Settled(t)'
      BY <2>4, EntryStep DEF Settled, Verified
    <3>2. session'[k] # None => session'[k].ticket = t
      <4>1. PICK at : CreateSession(k, t, at, clock')
        BY <2>4, EntryStep
      <4> QED BY <4>1, PruneType DEF CreateSession
    <3>3. Consumable(t)' <=> Consumable(t)
      BY <3>1 DEF Forward, Consumable
    <3>4. Remembered'
      BY <3>1, RememberedStep
    <3>5. SessionSettles' /\ OneSessionPerTicket'
      BY <3>1, <3>2, <3>3, SessionsStep
    <3> QED BY <3>4, <3>5
  <2>5. Restart => OneTimeInv'
    <3> SUFFICES ASSUME Restart PROVE OneTimeInv'
      OBVIOUS
    <3>1. SessionSettles' /\ OneSessionPerTicket'
      BY DEF Restart, SessionSettles, OneSessionPerTicket
    <3>2. Remembered'
      BY DEF Restart, Remembered
    <3> QED BY <3>1, <3>2
  <2> QED BY <2>2, <2>3, <2>4, <2>5, QuietStep
<1> QED
  BY <1>1, <1>2, TypeCorrect, SessionsGranted, PTL DEF Spec

\* One server process accepts a one-time ticket at most once, whatever earlier
\* ones accepted.
THEOREM UsedOnce ==
  ASSUME MaxStall < 2
  PROVE  Spec => []OneTimeOnce
<1>1. TypeOK /\ OneTimeInv => OneTimeOnce
  <2> SUFFICES ASSUME TypeOK, Remembered, NEW t \in Ticket
               PROVE  spent[t] <= 1
    BY DEF OneTimeInv, OneTimeOnce
  <2> QED BY DEF Remembered, TypeOK
<1> QED
  BY <1>1, TypeCorrect, OneTimeHolds, PTL

\* No two sessions that exist were opened with the same one-time ticket, however
\* often the server was restarted.
THEOREM OneSession ==
  ASSUME MaxStall < 2
  PROVE  Spec => []OneSessionPerTicket
<1>1. OneTimeInv => OneSessionPerTicket
  BY DEF OneTimeInv
<1> QED
  BY <1>1, OneTimeHolds, PTL

================================================================================
