------------------------------ MODULE MessageRelay ------------------------------
(***************************************************************************)
(* What a WebSocket proxy promises: while it is open it passes on, each    *)
(* way, what the one end sent to the other, in order and without a gap,    *)
(* and once it is over it passes on nothing more.                          *)
(***************************************************************************)
EXTENDS Naturals, Sequences

CONSTANT Dir   \* the ways

VARIABLES
  sent,  \* per way: how many messages its source has sent; they are numbered
  fwd,   \* per way: the messages passed on
  over   \* the proxy is over

vars == <<sent, fwd, over>>

Init ==
  /\ sent = [d \in Dir |-> 0]
  /\ fwd = [d \in Dir |-> <<>>]
  /\ over = FALSE

Send(d) ==
  /\ sent' = [sent EXCEPT ![d] = @ + 1]
  /\ UNCHANGED <<fwd, over>>

PassOn(d) ==
  /\ ~over
  /\ Len(fwd[d]) < sent[d]
  /\ fwd' = [fwd EXCEPT ![d] = Append(@, Len(@) + 1)]
  /\ UNCHANGED <<sent, over>>

End ==
  /\ over' = TRUE
  /\ UNCHANGED <<sent, fwd>>

Next == End \/ \E d \in Dir : Send(d) \/ PassOn(d)

Spec == Init /\ [][Next]_vars
================================================================================
