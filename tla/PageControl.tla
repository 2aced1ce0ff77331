------------------------------ MODULE PageControl ------------------------------
(***************************************************************************)
(* What the DSH plugin promises of a shared page (packages/dsh-plugin,     *)
(* README.md, "Hand off to a person"): the program drives the page only    *)
(* while it owns it, and a person gets it only when the program has let go.*)
(***************************************************************************)
VARIABLES
  owner,    \* whom the page belongs to
  driving   \* the program is driving it

vars == <<owner, driving>>

TypeOK == owner \in {"program", "person"} /\ driving \in BOOLEAN

Init == owner = "program" /\ driving = FALSE

Drive == owner = "program" /\ driving' = TRUE /\ UNCHANGED owner

LetGo == driving' = FALSE /\ UNCHANGED owner

HandOver == ~driving /\ owner' = "person" /\ UNCHANGED driving

TakeBack == owner' = "program" /\ UNCHANGED driving

Next == Drive \/ LetGo \/ HandOver \/ TakeBack

Spec == Init /\ [][Next]_vars
================================================================================
