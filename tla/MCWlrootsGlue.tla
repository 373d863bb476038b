--------------------------- MODULE MCWlrootsGlue ---------------------------
(***************************************************************************)
(* WlrootsGlue for TLC: two pointers, between which nothing distinguishes, *)
(* a surface, and what a comment says of cleanup.                          *)
(***************************************************************************)
EXTENDS WlrootsGlue, TLC

Symmetry == Permutations(Pointers)

(* compositor/wl_input.c:125: "wlroots event callbacks are cleaned up by   *)
(* compositor_wlroots_cleanup()"; wl_surface.c:88 says so of surfaces.     *)
(* After it each signal notifies the listeners of the host alone.          *)
CallbacksCleanedUp ==
  Defined /\ ~up => \A h \in live : Notifies(h, attached[h])

=============================================================================
