----------------------------- MODULE ApiServerMC -----------------------------
(* Instances of ApiServer for TLC: each configuration names the sandboxes of *)
(* each engine and kind; the others are Chromium, or xvfb_vnc.               *)
EXTENDS ApiServer, TLC

CONSTANTS Cloaks, Camoufoxes, Xpras

MCEngine == [s \in Sandbox |-> IF s \in Cloaks THEN "cloakbrowser"
                               ELSE IF s \in Camoufoxes THEN "camoufox"
                               ELSE "chromium"]
MCKind == [s \in Sandbox |-> IF s \in Xpras THEN "xpra" ELSE "xvfb_vnc"]

\* Container ids and request slots are interchangeable.
Interchangeable == Permutations(CtrId) \cup Permutations(Call)

==============================================================================
