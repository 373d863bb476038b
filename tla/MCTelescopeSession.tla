------------------------- MODULE MCTelescopeSession -------------------------
(***************************************************************************)
(* TelescopeSession for TLC: one session with every configuration whose    *)
(* fallback list has at most three entries, two sessions with the few      *)
(* configurations that make them interfere, and what the documentation     *)
(* says of sessions.                                                       *)
(***************************************************************************)
EXTENDS TelescopeSession, SequencesExt

EveryConfig ==
  [type: LensTypes, application: Applications,
   fallback: BoundedSeq(LensTypes, 3), metrics: {TRUE}]

PairConfigs ==
  [type: {"moonlight"}, application: {"none"},
   fallback: {<<>>, <<"sunshine", "waypipe">>}, metrics: BOOLEAN]

(* core/telescope.h:196: "Get current session metrics".  What get_metrics  *)
(* returns for a running session that enabled metrics is the session's.    *)
MetricsAreTheSessions ==
  \A s \in Sessions \ {cur} :
    running[s] /\ config[s].metrics /\ s \notin denied => collector = s

=============================================================================
