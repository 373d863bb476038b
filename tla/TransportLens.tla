---------------------------- MODULE TransportLens ----------------------------
(***************************************************************************)
(* What lenses/lens.h promises the layer above it.  A lens session is      *)
(* created, started, stopped and destroyed through its operations; a       *)
(* started session owns one transport process, a session that is not       *)
(* running owns none.  A start that fails leaves no trace, so it is a      *)
(* stuttering step here.                                                   *)
(*                                                                         *)
(* LensProcess shows that the fork/exec implementation keeps this promise, *)
(* TelescopeSession that the session layer uses lenses only in this way.   *)
(***************************************************************************)
CONSTANT Handles    (* struct lens_session pointers a caller may hold *)

VARIABLES
  lens,             (* lens[h]: "absent", "ready" (created) or "running" *)
  process           (* process[h]: "none", "up", or "dead" (not yet reaped) *)

vars == <<lens, process>>

LensStates == {"absent", "ready", "running"}
ProcessStates == {"none", "up", "dead"}

Init ==
  /\ lens = [h \in Handles |-> "absent"]
  /\ process = [h \in Handles |-> "none"]

(* lens_session_create succeeds. *)
Create(h) ==
  /\ lens[h] = "absent"
  /\ lens' = [lens EXCEPT ![h] = "ready"]
  /\ UNCHANGED process

(* lens_session_start succeeds.  The program it started may be gone again  *)
(* by the time the call returns.                                           *)
Start(h) ==
  /\ lens[h] = "ready"
  /\ lens' = [lens EXCEPT ![h] = "running"]
  /\ \E now \in {"up", "dead"} : process' = [process EXCEPT ![h] = now]

(* lens_session_stop of a running session: its process is gone. *)
Stop(h) ==
  /\ lens[h] = "running"
  /\ lens' = [lens EXCEPT ![h] = "ready"]
  /\ process' = [process EXCEPT ![h] = "none"]

(* lens_session_destroy frees a session that no longer runs. *)
Destroy(h) ==
  /\ lens[h] = "ready"
  /\ lens' = [lens EXCEPT ![h] = "absent"]
  /\ UNCHANGED process

(* The transport process exits; nobody above the lens is told. *)
Exit(h) ==
  /\ process[h] = "up"
  /\ process' = [process EXCEPT ![h] = "dead"]
  /\ UNCHANGED lens

Next ==
  \E h \in Handles : Create(h) \/ Start(h) \/ Stop(h) \/ Destroy(h) \/ Exit(h)

Spec == Init /\ [][Next]_vars

=============================================================================
