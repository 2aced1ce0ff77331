-------------------------------- MODULE Tickets --------------------------------
(***************************************************************************)
(* The signed tickets of auth/tickets.py.  A ticket carries its sandbox,   *)
(* kind, mode and expiry under a signature, so it survives the server that *)
(* issued it; that a one-time ticket was used is remembered in memory only.*)
(*                                                                         *)
(* Time is counted in half seconds, because the code mixes the exact clock *)
(* (expiry of a ticket at use) with its whole seconds (expiry of the       *)
(* memory of its use).  The clock does not run backwards.                  *)
(***************************************************************************)
EXTENDS Integers

CONSTANTS
  Ticket,      \* ticket ids (jti)
  Sandbox,     \* sandbox ids
  Camoufoxes,  \* the sandboxes whose browser speaks no CDP
  None,        \* Python's None
  TTL,         \* the lifetimes in seconds that clients ask for
  MaxClock,    \* bound: half seconds that an instance lasts
  MaxStall     \* half seconds that may pass inside one request handler

ASSUME TicketsAssumption ==
  /\ TTL \subseteq Nat
  /\ MaxClock \in Nat
  /\ MaxStall \in Nat
  /\ Camoufoxes \subseteq Sandbox

VARIABLES
  clock,     \* datetime.now(), in half seconds
  ticket,    \* what was signed for each ticket id, None before it is issued
  consumed,  \* the keys of TicketStore._consumed; the value is the expiry
  spent,     \* history: how often this server process accepted each one-time ticket
  uses       \* history: how often any process did

useVars == <<spent, uses>>
ticketVars == <<clock, ticket, consumed, useVars>>

Scope == {"session", "cdp"}
Mode == {"one_time", "reusable", "permanent"}

\* exp is in seconds, and 0 stands for the None of a permanent ticket.
Payload == [sandbox : Sandbox, scope : Scope, mode : Mode, exp : Nat]

TicketsInit ==
  /\ clock = 0
  /\ ticket = [t \in Ticket |-> None]
  /\ consumed = {}
  /\ spent = [t \in Ticket |-> 0]
  /\ uses = [t \in Ticket |-> 0]

\* int(datetime.timestamp())
Seconds(at) == at \div 2

-----------------------------------------------------------------------------

\* POST session/apply and cdp/apply.  Camoufox is refused CDP tickets.  Bound:
\* a ticket is issued only if the instance lasts until it has expired.
Issue(t, s, scope, mode, ttl) ==
  LET exp == Seconds(clock) + ttl IN
  /\ ticket[t] = None
  /\ scope = "cdp" => s \notin Camoufoxes
  /\ 2 * exp + 2 <= MaxClock
  /\ ticket' = [ticket EXCEPT ![t] =
       [sandbox |-> s, scope |-> scope, mode |-> mode,
        exp |-> IF mode = "permanent" THEN 0 ELSE exp]]
  /\ UNCHANGED <<clock, consumed, useVars>>

\* The checks of verify_ticket on what the ticket says, at the exact clock.
Verified(t, s, scope) ==
  /\ ticket[t] # None
  /\ ticket[t].sandbox = s
  /\ ticket[t].scope = scope
  /\ ticket[t].mode # "permanent" => clock <= 2 * ticket[t].exp

\* A ticket whose use is to be remembered.
Consumable(t) == ticket[t] # None /\ ticket[t].mode = "one_time"

\* Variant: pruning drops a used ticket in the last second of its validity.
UnexpiredStrictly(at) == {t \in consumed : ticket[t].exp > Seconds(at)}

\* What pruning at a given time keeps of the used tickets: in whole seconds.
Unexpired(at) == {t \in consumed : ticket[t].exp >= Seconds(at)}

\* A one-time ticket is accepted.
Spends(t) ==
  /\ spent' = [spent EXCEPT ![t] = @ + 1]
  /\ uses' = [uses EXCEPT ![t] = @ + 1]

\* Variant: consuming refuses a used ticket but does not remember this use.
ConsumeUnrecorded(t, at) ==
  /\ t \notin Unexpired(at)
  /\ consumed' = Unexpired(at)
  /\ Spends(t)

\* TicketStore.consume, whose clock is read after that of verify_ticket.
Consume(t, at) ==
  /\ t \notin Unexpired(at)
  /\ consumed' = Unexpired(at) \cup {t}
  /\ Spends(t)

\* verify_ticket(consume=True) accepts the ticket.
Accept(t, s, scope, at) ==
  /\ Verified(t, s, scope)
  /\ IF Consumable(t) THEN Consume(t, at) ELSE UNCHANGED <<consumed, useVars>>
  /\ UNCHANGED ticket

\* It refuses a one-time ticket whose use it remembers, having pruned.
RefuseUsed(t, s, scope, at) ==
  /\ Verified(t, s, scope)
  /\ Consumable(t)
  /\ t \in Unexpired(at)
  /\ consumed' = Unexpired(at)
  /\ UNCHANGED <<ticket, useVars>>

\* Variant: the loop is there, but nothing is pruned.
PruneTicketsNever ==
  /\ consumed' = consumed
  /\ UNCHANGED <<clock, ticket, useVars>>

\* One turn of _ticket_prune_loop.
PruneTickets ==
  /\ consumed' = Unexpired(clock)
  /\ UNCHANGED <<clock, ticket, useVars>>
================================================================================
