--------------------------- MODULE MCLensProcess ---------------------------
(***************************************************************************)
(* LensProcess for TLC: two lens sessions share three process ids, so that *)
(* an id is left when one is held by an orphan.                            *)
(***************************************************************************)
EXTENDS LensProcess

(* What the documentation says and the code does not do *)

(* docs/CLARIFICATIONS.md:77: "stop: Terminate process".  Once no session  *)
(* runs and no call is in progress, no program launched by one is alive.   *)
StopTerminates ==
  pc = "idle" /\ (\A h \in Handles : ~running[h]) =>
    \A p \in Pids : proc[p] # "lens"

=============================================================================
