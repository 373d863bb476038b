----------------------------- MODULE MCCompositor -----------------------------
(***************************************************************************)
(* Compositor for TLC: the objects of the heap are interchangeable.        *)
(***************************************************************************)
EXTENDS Compositor, TLC

Symmetry == Permutations(Objects)

(* docs/CLARIFICATIONS.md:121-123: on presentation the code "Calculates    *)
(* latency (presentation - creation)" of the frame that was committed.     *)
ShownFramesWereCommitted ==
  [][total' # total /\ dropped' = dropped =>
       \E s \in registered : \E f \in inFlight[s] \ inFlight'[s] :
         f.byCommit /\ delay' <= f.age]_vars

=============================================================================
