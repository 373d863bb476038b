-------------------------- MODULE TelescopeSession --------------------------
(***************************************************************************)
(* Session management of core/telescope.c over the lens API, with the      *)
(* process-wide metrics collector of core/metrics.c that every session     *)
(* initialises on start and cleans up on stop.                             *)
(*                                                                         *)
(* One thread of the host makes the calls, so one call is in progress at a *)
(* time; transport processes exit on their own beside it.  A lens is seen  *)
(* as TransportLens promises it, one lens session per telescope session at *)
(* a time.  Calls that change nothing (EINVAL, EBUSY, ENOMEM, a stop of a  *)
(* session that does not run, get_metrics) are stuttering steps.           *)
(***************************************************************************)
EXTENDS LensSelection

CONSTANTS
  Sessions,         (* struct telescope_session pointers                  *)
  Configs,          (* the configurations callers create sessions with    *)
  ArraySize,        (* room in candidates[]: 8                            *)
  MaxFrames,        (* bound on the frames presented while a session runs *)
  NoSession, NoConfig

ASSUME SessionAssumption ==
  /\ NoSession \notin Sessions
  /\ Configs \subseteq ConfigType
  /\ NoConfig \notin Configs
  /\ ArraySize \in Nat /\ ArraySize >= 4
  /\ MaxFrames \in Nat

VARIABLES
  \* struct telescope_session
  config,           (* the borrowed configuration; NoConfig: no such session *)
  running,
  lensType,
  attached,         (* whether lens_session is not NULL                      *)
  \* the lens session made for s, and its process, as in TransportLens
  lens, process,
  \* g_collector
  collector,        (* the session that initialised it, or NoSession         *)
  frames,           (* frames_total of the collector                         *)
  \* the call in progress and its locals
  pc, op, cur,
  candidates,
  i,                (* index of both loops of start                          *)
  \* history, for the properties only
  tried,            (* lens types this start has tried, in order             *)
  presented,        (* frames presented since s started                      *)
  shared,           (* running sessions that ever ran beside another one     *)
  denied            (* running sessions whose collector met ENOMEM           *)

sessionVars == <<config, running, lensType, attached>>
lensVars == <<lens, process>>
metricsVars == <<collector, frames>>
callVars == <<pc, op, cur, candidates, i>>
history == <<tried, presented, shared, denied>>
vars == <<sessionVars, lensVars, metricsVars, callVars, history>>

Init ==
  /\ config = [s \in Sessions |-> NoConfig]
  /\ running = [s \in Sessions |-> FALSE]
  /\ lensType = [s \in Sessions |-> "waypipe"]
  /\ attached = [s \in Sessions |-> FALSE]
  /\ lens = [s \in Sessions |-> "absent"]
  /\ process = [s \in Sessions |-> "none"]
  /\ collector = NoSession /\ frames = 0
  /\ pc = "idle" /\ op = "none" /\ cur = NoSession
  /\ candidates = <<>> /\ i = 0
  /\ tried = <<>> /\ presented = [s \in Sessions |-> 0]
  /\ shared = {} /\ denied = {}

Begin(s, operation, at) ==
  /\ pc = "idle"
  /\ config[s] # NoConfig
  /\ pc' = at /\ op' = operation /\ cur' = s

Return ==
  /\ pc' = "idle" /\ op' = "none" /\ cur' = NoSession
  /\ candidates' = <<>> /\ i' = 0 /\ tried' = <<>>

CreateSession(s, c) ==
  /\ pc = "idle"
  /\ config[s] = NoConfig
  /\ config' = [config EXCEPT ![s] = c]
  /\ running' = [running EXCEPT ![s] = FALSE]
  /\ lensType' = [lensType EXCEPT ![s] = "waypipe"]
  /\ attached' = [attached EXCEPT ![s] = FALSE]
  /\ UNCHANGED <<lensVars, metricsVars, callVars, history>>

-----------------------------------------------------------------------------
(* telescope_session_start: the candidates *)

(* Faulty: a session that runs can be started once more. *)
BeginStartTwice(s) ==
  /\ Begin(s, "start", "collect")
  /\ candidates' = <<SelectLens(config[s])>>
  /\ i' = 1
  /\ UNCHANGED <<sessionVars, lensVars, metricsVars, history>>

BeginStart(s) ==
  /\ Begin(s, "start", "collect")
  /\ ~running[s]
  /\ candidates' = <<SelectLens(config[s])>>
  /\ i' = 1
  /\ UNCHANGED <<sessionVars, lensVars, metricsVars, history>>

HasRoom == Len(candidates) < ArraySize

(* Faulty: fallbacks are copied as configured. *)
AddAlways(type) == Append(candidates, type)

AddIfNew(type) ==
  IF type \in Elements(candidates) THEN candidates ELSE Append(candidates, type)

CollectFallback ==
  /\ pc = "collect"
  /\ i <= Len(config[cur].fallback) /\ HasRoom
  /\ candidates' = AddIfNew(config[cur].fallback[i])
  /\ i' = i + 1
  /\ UNCHANGED <<sessionVars, lensVars, metricsVars, pc, op, cur, history>>

(* The loop is over; waypipe is appended if no candidate is waypipe yet. *)
EnsureWaypipe ==
  /\ pc = "collect"
  /\ ~(i <= Len(config[cur].fallback) /\ HasRoom)
  /\ candidates' = IF HasRoom THEN AddIfNew("waypipe") ELSE candidates
  /\ i' = 1
  /\ pc' = "attempt"
  /\ UNCHANGED <<sessionVars, lensVars, metricsVars, op, cur, history>>

-----------------------------------------------------------------------------
(* telescope_session_start: the attempts *)

Try ==
  /\ pc = "attempt"
  /\ i <= Len(candidates)
  /\ tried' = Append(tried, candidates[i])
  /\ UNCHANGED <<sessionVars, process, metricsVars, op, cur, candidates,
                 presented, shared, denied>>

CreateLensFails == Try /\ i' = i + 1 /\ UNCHANGED <<pc, lens>>

CreateLens ==
  /\ Try
  /\ lens' = [lens EXCEPT ![cur] = "ready"]
  /\ pc' = "start"
  /\ UNCHANGED i

StartLensFails ==
  /\ pc = "start"
  /\ pc' = "drop"
  /\ UNCHANGED <<sessionVars, lensVars, metricsVars, op, cur, candidates, i,
                 history>>

(* Faulty: the loop goes on with the candidate after next. *)
DropLensSkips ==
  /\ pc = "drop"
  /\ lens' = [lens EXCEPT ![cur] = "absent"]
  /\ i' = i + 2
  /\ pc' = "attempt"
  /\ UNCHANGED <<sessionVars, process, metricsVars, op, cur, candidates,
                 history>>

(* Faulty: a lens session that failed to start is not destroyed. *)
DropLensLeaks ==
  /\ pc = "drop"
  /\ i' = i + 1
  /\ pc' = "attempt"
  /\ UNCHANGED <<sessionVars, lensVars, metricsVars, op, cur, candidates,
                 history>>

DropLens ==
  /\ pc = "drop"
  /\ lens' = [lens EXCEPT ![cur] = "absent"]
  /\ i' = i + 1
  /\ pc' = "attempt"
  /\ UNCHANGED <<sessionVars, process, metricsVars, op, cur, candidates,
                 history>>

StartLens ==
  /\ pc = "start"
  /\ lens' = [lens EXCEPT ![cur] = "running"]
  /\ \E now \in {"up", "dead"} : process' = [process EXCEPT ![cur] = now]
  /\ lensType' = [lensType EXCEPT ![cur] = candidates[i]]
  /\ attached' = [attached EXCEPT ![cur] = TRUE]
  /\ pc' = "metrics"
  /\ UNCHANGED <<config, running, metricsVars, op, cur, candidates, i,
                 history>>

(* metrics_collector_init, whose result start ignores.  It succeeds        *)
(* without a collector if metrics are disabled, and fails if there is one  *)
(* already (EBUSY) or memory is short.                                     *)
InitCollector(s) ==
  IF config[s].metrics /\ collector = NoSession
  THEN \/ collector' = s /\ frames' = 0 /\ denied' = denied \ {s}
       \/ UNCHANGED <<collector, frames>> /\ denied' = denied \cup {s}
  ELSE UNCHANGED <<collector, frames>> /\ denied' = denied \ {s}

StartMetrics ==
  /\ pc = "metrics"
  /\ running' = [running EXCEPT ![cur] = TRUE]
  /\ InitCollector(cur)
  /\ presented' = [presented EXCEPT ![cur] = 0]
  /\ LET others == {s \in Sessions \ {cur} : running[s]}
     IN  shared' = IF others = {} THEN shared \ {cur}
                                  ELSE shared \cup others \cup {cur}
  /\ Return
  /\ UNCHANGED <<config, lensType, attached, lensVars>>

(* Faulty: the loop is over only at the end of candidates[]. *)
GiveUpAtArrayEnd ==
  /\ pc = "attempt"
  /\ i > ArraySize
  /\ attached' = [attached EXCEPT ![cur] = FALSE]
  /\ Return
  /\ UNCHANGED <<config, running, lensType, lensVars, metricsVars, presented,
                 shared, denied>>

(* Faulty: a start that fails cleans up the collector. *)
GiveUpCleansUp ==
  /\ pc = "attempt"
  /\ i > Len(candidates)
  /\ attached' = [attached EXCEPT ![cur] = FALSE]
  /\ collector' = NoSession /\ frames' = 0
  /\ Return
  /\ UNCHANGED <<config, running, lensType, lensVars, presented, shared,
                 denied>>

(* Every candidate failed: start returns the last error. *)
GiveUp ==
  /\ pc = "attempt"
  /\ i > Len(candidates)
  /\ attached' = [attached EXCEPT ![cur] = FALSE]
  /\ Return
  /\ UNCHANGED <<config, running, lensType, lensVars, metricsVars, presented,
                 shared, denied>>

-----------------------------------------------------------------------------
(* telescope_session_stop and telescope_session_destroy *)

(* Faulty: the lens is destroyed while it runs. *)
BeginStopUnstopped(s, operation) ==
  /\ Begin(s, operation, IF attached[s] THEN "destroy" ELSE "cleanup")
  /\ running[s]
  /\ UNCHANGED <<sessionVars, lensVars, metricsVars, candidates, i, history>>

BeginStop(s, operation) ==
  /\ Begin(s, operation, IF attached[s] THEN "stop" ELSE "cleanup")
  /\ running[s]
  /\ UNCHANGED <<sessionVars, lensVars, metricsVars, candidates, i, history>>

StopLens ==
  /\ pc = "stop"
  /\ lens' = [lens EXCEPT ![cur] = "ready"]
  /\ process' = [process EXCEPT ![cur] = "none"]
  /\ pc' = "destroy"
  /\ UNCHANGED <<sessionVars, metricsVars, op, cur, candidates, i, history>>

DestroyLens ==
  /\ pc = "destroy"
  /\ lens' = [lens EXCEPT ![cur] = "absent"]
  /\ attached' = [attached EXCEPT ![cur] = FALSE]
  /\ pc' = "cleanup"
  /\ UNCHANGED <<config, running, lensType, process, metricsVars, op, cur,
                 candidates, i, history>>

(* Faulty: stop leaves the collector to the next session. *)
CleanupForgotten == UNCHANGED <<collector, frames>>

(* metrics_collector_cleanup, whoever initialised the collector. *)
CleanupCollector == collector' = NoSession /\ frames' = 0

CleanupMetrics ==
  /\ pc = "cleanup"
  /\ running' = [running EXCEPT ![cur] = FALSE]
  /\ CleanupCollector
  /\ config' = IF op = "destroy" THEN [config EXCEPT ![cur] = NoConfig]
                                 ELSE config
  /\ presented' = [presented EXCEPT ![cur] = 0]
  /\ shared' = shared \ {cur} /\ denied' = denied \ {cur}
  /\ Return
  /\ UNCHANGED <<lensType, attached, lensVars>>

(* destroy of a session that does not run only frees it. *)
FreeSession(s) ==
  /\ pc = "idle"
  /\ config[s] # NoConfig /\ ~running[s]
  /\ config' = [config EXCEPT ![s] = NoConfig]
  /\ UNCHANGED <<running, lensType, attached, lensVars, metricsVars, callVars,
                 history>>

-----------------------------------------------------------------------------
(* Around the session layer *)

(* Faulty: while all sessions run the frame is recorded a second time. *)
PresentFrameTwice ==
  /\ pc = "idle"
  /\ frames < MaxFrames /\ \A s \in Sessions : presented[s] < MaxFrames
  /\ frames' = IF collector = NoSession THEN frames
               ELSE IF \A s \in Sessions : running[s] THEN frames + 2
               ELSE frames + 1
  /\ presented' = [s \in Sessions |->
                     IF running[s] THEN presented[s] + 1 ELSE presented[s]]
  /\ UNCHANGED <<sessionVars, lensVars, collector, callVars, tried, shared,
                 denied>>

(* The compositor calls metrics_record_frame for a presented frame. *)
PresentFrame ==
  /\ pc = "idle"
  /\ frames < MaxFrames /\ \A s \in Sessions : presented[s] < MaxFrames
  /\ frames' = IF collector = NoSession THEN frames ELSE frames + 1
  /\ presented' = [s \in Sessions |->
                     IF running[s] THEN presented[s] + 1 ELSE presented[s]]
  /\ UNCHANGED <<sessionVars, lensVars, collector, callVars, tried, shared,
                 denied>>

ProcessExits(s) ==
  /\ process[s] = "up"
  /\ process' = [process EXCEPT ![s] = "dead"]
  /\ UNCHANGED <<sessionVars, lens, metricsVars, callVars, history>>

CallStep ==
  \/ CollectFallback \/ EnsureWaypipe
  \/ CreateLensFails \/ CreateLens \/ StartLensFails \/ DropLens \/ StartLens
  \/ StartMetrics \/ GiveUp
  \/ StopLens \/ DestroyLens \/ CleanupMetrics

Next ==
  \/ \E s \in Sessions, c \in Configs : CreateSession(s, c)
  \/ \E s \in Sessions : BeginStart(s) \/ FreeSession(s) \/ ProcessExits(s)
  \/ \E s \in Sessions, operation \in {"stop", "destroy"} :
       BeginStop(s, operation)
  \/ CallStep
  \/ PresentFrame

(* A call in progress goes on: the lens operations it waits for return     *)
(* (LensProcess!CallsReturn).  Nothing makes a caller begin one.           *)
Spec == Init /\ [][Next]_vars /\ WF_vars(CallStep)

-----------------------------------------------------------------------------
(* Properties *)

PcStates ==
  {"idle", "collect", "attempt", "start", "drop", "metrics", "stop", "destroy",
   "cleanup"}

(* Every variable has its type; candidates[] never overflows.              *)
TypeOK ==
  /\ config \in [Sessions -> Configs \cup {NoConfig}]
  /\ running \in [Sessions -> BOOLEAN]
  /\ lensType \in [Sessions -> LensTypes]
  /\ attached \in [Sessions -> BOOLEAN]
  /\ lens \in [Sessions -> {"absent", "ready", "running"}]
  /\ process \in [Sessions -> {"none", "up", "dead"}]
  /\ collector \in Sessions \cup {NoSession} /\ frames \in 0 .. MaxFrames
  /\ pc \in PcStates
  /\ op \in {"none", "start", "stop", "destroy"}
  /\ cur \in Sessions \cup {NoSession}
  /\ candidates \in Seq(LensTypes) /\ Len(candidates) <= ArraySize
  /\ i \in Nat
  /\ tried \in Seq(LensTypes)
  /\ presented \in [Sessions -> 0 .. MaxFrames]
  /\ shared \subseteq Sessions /\ denied \subseteq Sessions

(* The list start goes through is right for every configuration: the       *)
(* selected lens first, every configured fallback and waypipe on it, no    *)
(* lens twice and none that was not asked for.                             *)
CandidatesComplete ==
  pc \in {"attempt", "start", "drop", "metrics"} =>
    LET primary == SelectLens(config[cur])
        wanted == {primary, "waypipe"} \cup Elements(config[cur].fallback)
    IN  /\ candidates # <<>> /\ candidates[1] = primary
        /\ Elements(candidates) = wanted
        /\ \A j, k \in DOMAIN candidates :
             j # k => candidates[j] # candidates[k]

(* What a configuration asks for, in the order telescope_session_start     *)
(* documents: the primary, the fallbacks and waypipe.                      *)
Wishes(c) == <<SelectLens(c)>> \o c.fallback \o <<"waypipe">>

(* Each lens that is tried is the first one asked for that was not tried   *)
(* before, whatever the failures were; start gives up only after it has    *)
(* tried them all; and the lens recorded for a session that starts is the  *)
(* one tried last.                                                         *)
AttemptsFollowPlan ==
  pc \in {"attempt", "start", "drop", "metrics"} =>
    LET wishes == Wishes(config[cur])
        before(n) == {tried[m] : m \in 1 .. n - 1}
    IN
    /\ \A n \in DOMAIN tried : tried[n] \notin before(n) /\
         \E k \in DOMAIN wishes :
           wishes[k] = tried[n] /\ \A j \in 1 .. k - 1 : wishes[j] \in before(n)
    /\ pc = "attempt" /\ i > Len(candidates) => Elements(tried) = Elements(wishes)
    /\ pc = "metrics" => lensType[cur] = tried[Len(tried)]

(* Outside the call that is working on it, a session runs exactly if it    *)
(* holds a started lens session; otherwise, also once it is destroyed or   *)
(* after a start that failed, no lens session and no process are left.     *)
SessionOwnsItsLens ==
  \A s \in Sessions \ {cur} :
    /\ running[s] => config[s] # NoConfig /\ attached[s] /\ lens[s] = "running"
    /\ ~running[s] => /\ lens[s] = "absent" /\ process[s] = "none"
                      /\ config[s] # NoConfig => ~attached[s]

(* A collector never outlives the session that initialised it, so it is    *)
(* never fed or read after the last session has stopped.                   *)
CollectorOwnerRuns ==
  collector # NoSession =>
    running[collector] /\ config[collector].metrics

(* A session with metrics enabled, which never ran beside another one and  *)
(* whose collector could be allocated, is metered by a collector of its    *)
(* own that has counted each frame since its start.  Other sessions may    *)
(* come and go before it and fail to start meanwhile.                      *)
MeteredUnlessShared ==
  \A s \in Sessions :
    running[s] /\ config[s].metrics /\ s \notin shared \cup denied =>
      collector = s /\ frames = presented[s]

(* While a session runs and nobody stops it, its lens stays the same one   *)
(* and its process is never replaced: all that can happen is that it dies. *)
RunningLensStable ==
  [][\A s \in Sessions :
       running[s] /\ running'[s] /\ (cur # s \/ op = "start") =>
         /\ lensType'[s] = lensType[s] /\ attached'[s] = attached[s]
         /\ lens'[s] = lens[s] /\ process'[s] \in {process[s], "dead"}]_vars

(* Start and stop return: the attempts of start come to an end.            *)
CallsReturn == pc # "idle" ~> pc = "idle"

(* The session layer calls a lens only as lens.h allows: it starts only    *)
(* what it created, destroys what failed to start before it goes on, and   *)
(* destroys what it stopped.                                               *)
TL == INSTANCE TransportLens WITH Handles <- Sessions

UsesLensAsPromised == TL!Spec

=============================================================================
