------------------------------ MODULE InputProxy ------------------------------
(***************************************************************************)
(* The predictive input proxy of input/input_proxy.c: events it predicts   *)
(* are kept on a list until a frame is acknowledged or they are a second   *)
(* old, and who frees an event depends on whether the caller asked for it. *)
(*                                                                         *)
(* The host's event loop makes the calls, one at a time.  Every malloc()   *)
(* may fail.  The list is a set: no two entries have the same frame id     *)
(* (UniqueFrames), so the first match is the only one.  Deltas, and with   *)
(* them whether a prediction was correct, change nothing that is kept.     *)
(***************************************************************************)
EXTENDS Naturals

CONSTANTS
  Objects,          (* the memory malloc() hands out                       *)
  NoObject,         (* NULL                                                *)
  MaxFrame,         (* bound on the frame ids of one proxy                 *)
  StaleAfter,       (* a second, in ticks of the clock                     *)
  CounterSize       (* 2^32, the values of the statistics' counters        *)

ASSUME ProxyAssumption ==
  /\ NoObject \notin Objects
  /\ MaxFrame \in Nat /\ StaleAfter \in Nat
  /\ CounterSize \in Nat /\ CounterSize >= 2

VARIABLES
  alive,            (* the proxy exists                                    *)
  features,         (* what was enabled on creation                        *)
  parts,            (* its scroll smoother and its Rust predictor          *)
  pending,          (* pending_predictions                                 *)
  nextFrame,        (* next_frame_id                                       *)
  predicted, reconciled,  (* events_predicted, events_reconciled           *)
  heap,             (* allocated objects                                   *)
  held,             (* events returned to callers, who free them           *)
  lost              (* history: objects nobody will free                   *)

vars ==
  <<alive, features, parts, pending, nextFrame, predicted, reconciled, heap,
    held, lost>>
stats == <<predicted, reconciled>>

Features == {"prediction", "smoothing"}
Frames == 1 .. MaxFrame

(* struct pending_prediction; the age stops counting when it is too old.   *)
Predictions ==
  [frame: Frames, event: Objects \cup {NoObject}, age: 0 .. StaleAfter + 1]

EventsOf(list) == {p.event : p \in list} \ {NoObject}
FramesOf(list) == {p.frame : p \in list}

Init ==
  /\ alive = FALSE /\ features = {} /\ parts = {}
  /\ pending = {} /\ nextFrame = 1 /\ predicted = 0 /\ reconciled = 0
  /\ heap = {} /\ held = {} /\ lost = {}

Unused == Objects \ heap
OrNull(objects) == objects \cup {NoObject}

-----------------------------------------------------------------------------
(* input_proxy_create *)

(* The predictor is optional, the smoother is not. *)
MakeParts(enabled) ==
  \E predictor \in IF "prediction" \in enabled THEN OrNull(Unused) ELSE {NoObject},
     smoother \in IF "smoothing" \in enabled THEN Unused ELSE {NoObject} :
    /\ predictor = smoother => predictor = NoObject
    /\ parts' = {predictor, smoother} \ {NoObject}
    /\ heap' = heap \cup parts'

(* Faulty: next_frame_id keeps the zero of calloc(). *)
CreateFromZero(enabled) ==
  /\ ~alive
  /\ MakeParts(enabled)
  /\ alive' = TRUE /\ features' = enabled
  /\ pending' = {} /\ nextFrame' = 0 /\ predicted' = 0 /\ reconciled' = 0
  /\ UNCHANGED <<held, lost>>

Create(enabled) ==
  /\ ~alive
  /\ MakeParts(enabled)
  /\ alive' = TRUE /\ features' = enabled
  /\ pending' = {} /\ nextFrame' = 1 /\ predicted' = 0 /\ reconciled' = 0
  /\ UNCHANGED <<held, lost>>

(* The smoother cannot be allocated: the proxy is freed, its predictor not. *)
CreateFails(predictor) ==
  /\ ~alive
  /\ predictor \in Unused
  /\ heap' = heap \cup {predictor}
  /\ lost' = lost \cup {predictor}
  /\ UNCHANGED <<alive, features, parts, pending, nextFrame, stats, held>>

Destroy ==
  /\ alive
  /\ alive' = FALSE /\ features' = {} /\ parts' = {} /\ pending' = {}
  /\ heap' = heap \ (parts \cup EventsOf(pending))
  /\ UNCHANGED <<nextFrame, stats, held, lost>>

-----------------------------------------------------------------------------
(* input_proxy_process *)

(* Faulty: a new prediction takes the id of the last one. *)
PredictSameFrame ==
  /\ alive /\ "prediction" \in features
  /\ nextFrame <= MaxFrame
  /\ nextFrame' = nextFrame
  /\ predicted' = (predicted + 1) % CounterSize

(* Pointer motion; the prediction gets a frame id, tracked or not. *)
Predict ==
  /\ alive /\ "prediction" \in features
  /\ nextFrame <= MaxFrame
  /\ nextFrame' = nextFrame + 1
  /\ predicted' = (predicted + 1) % CounterSize

Track(event) ==
  pending' = pending \cup {[frame |-> nextFrame, event |-> event, age |-> 0]}

(* Faulty: the caller and the list share one event. *)
PredictShared(event) ==
  /\ Predict
  /\ event \in Unused
  /\ Track(event)
  /\ heap' = heap \cup {event}
  /\ held' = held \cup {event}
  /\ UNCHANGED <<alive, features, parts, reconciled, lost>>

(* predicted_out is given: the caller gets the event, the list a copy, or  *)
(* an entry without one if it cannot be allocated.                         *)
PredictForCaller(event) ==
  /\ Predict
  /\ event \in Unused
  /\ \/ \E copy \in OrNull(Unused \ {event}) :
          Track(copy) /\ heap' = heap \cup ({event, copy} \ {NoObject})
     \/ UNCHANGED pending /\ heap' = heap \cup {event}
  /\ held' = held \cup {event}
  /\ UNCHANGED <<alive, features, parts, reconciled, lost>>

(* predicted_out is NULL: the list gets the event, or it is freed. *)
PredictForList(event) ==
  /\ Predict
  /\ event \in Unused
  /\ \/ Track(event) /\ heap' = heap \cup {event}
     \/ UNCHANGED <<pending, heap>>
  /\ UNCHANGED <<alive, features, parts, reconciled, held, lost>>

(* Scroll: a smoothed event goes to the caller; one that nobody asked for  *)
(* is not freed.                                                           *)
Smooth(event) ==
  /\ alive /\ "smoothing" \in features
  /\ event \in Unused
  /\ heap' = heap \cup {event}
  /\ UNCHANGED <<alive, features, parts, pending, nextFrame, stats>>

SmoothForCaller(event) ==
  Smooth(event) /\ held' = held \cup {event} /\ UNCHANGED lost

SmoothForNobody(event) ==
  Smooth(event) /\ lost' = lost \cup {event} /\ UNCHANGED held

-----------------------------------------------------------------------------
(* input_proxy_reconcile *)

Keep(list) ==
  /\ pending' = list
  /\ heap' = heap \ EventsOf(pending \ list)
  /\ reconciled' = (reconciled + 1) % CounterSize
  /\ UNCHANGED <<alive, features, parts, nextFrame, predicted, held, lost>>

(* Faulty: stale predictions are looked for only if the frame was found. *)
ReconcileFound(frame) ==
  /\ alive
  /\ Keep({p \in pending : /\ p.frame # frame
                           /\ frame \in FramesOf(pending) => p.age <= StaleAfter})

(* Faulty: the loop ends at the first stale prediction it removes. *)
ReconcileOneStale(frame) ==
  /\ alive
  /\ LET stale == {p \in pending : p.frame # frame /\ p.age > StaleAfter}
     IN  Keep({p \in pending : /\ p.frame # frame
                               /\ p \in stale => \E q \in stale : q.frame > p.frame})

(* The prediction of this frame is resolved, whether or not it was right,  *)
(* and every prediction older than a second is given up.                   *)
Reconcile(frame) ==
  /\ alive
  /\ Keep({p \in pending : p.frame # frame /\ p.age <= StaleAfter})

-----------------------------------------------------------------------------
(* The caller frees an event it was given. *)
Release(event) ==
  /\ event \in held
  /\ held' = held \ {event} /\ heap' = heap \ {event}
  /\ UNCHANGED <<alive, features, parts, pending, nextFrame, stats, lost>>

Older(p) == [p EXCEPT !.age = IF @ > StaleAfter THEN @ ELSE @ + 1]

Tick ==
  /\ pending' = {Older(p) : p \in pending}
  /\ UNCHANGED <<alive, features, parts, nextFrame, stats, heap, held, lost>>

Acknowledge == \E frame \in Frames : Reconcile(frame)

Next ==
  \/ \E enabled \in SUBSET Features : Create(enabled)
  \/ \E o \in Objects :
       \/ CreateFails(o) \/ PredictForCaller(o) \/ PredictForList(o)
       \/ SmoothForCaller(o) \/ SmoothForNobody(o) \/ Release(o)
  \/ Acknowledge \/ Destroy \/ Tick

(* Time passes; nothing makes a caller call. *)
Spec == Init /\ [][Next]_vars /\ WF_vars(Tick)

-----------------------------------------------------------------------------
(* Properties *)

(* Every variable has its type. *)
TypeOK ==
  /\ alive \in BOOLEAN /\ features \subseteq Features /\ parts \subseteq Objects
  /\ pending \subseteq Predictions
  /\ nextFrame \in 1 .. MaxFrame + 1
  /\ predicted \in 0 .. CounterSize - 1 /\ reconciled \in 0 .. CounterSize - 1
  /\ heap \subseteq Objects /\ held \subseteq Objects /\ lost \subseteq Objects

(* Every allocated object has one owner: the proxy, one entry of its list, *)
(* or the caller, and there are no others.  So nothing is freed twice or   *)
(* used after the caller freed it, and nothing leaks but the objects two   *)
(* paths of the code lose.                                                 *)
OwnedOnce ==
  /\ heap = held \cup EventsOf(pending) \cup parts \cup lost
  /\ held \cap EventsOf(pending) = {}
  /\ parts \cap (held \cup EventsOf(pending)) = {}
  /\ lost \cap (held \cup EventsOf(pending) \cup parts) = {}
  /\ \A p, q \in pending :
       p # q /\ p.event = q.event => p.event = NoObject

(* A frame id of the proxy names one prediction, and later ids name later  *)
(* predictions, so the acknowledgment of such an id resolves exactly the   *)
(* prediction that has it.  It says nothing of the surfaces' own ids, the  *)
(* ones the compositor acknowledges (wl_surface.c:139).                    *)
UniqueFrames ==
  /\ \A p \in pending : p.frame < nextFrame
  /\ \A p, q \in pending : /\ p.frame = q.frame => p = q
                           /\ p.frame < q.frame => p.age >= q.age

(* Once an acknowledgment has been handled, whatever its id, nothing older *)
(* than a second is left, and nothing else was given up.                   *)
AcknowledgmentExpires ==
  [][reconciled' # reconciled /\ alive =>
       /\ \A p \in pending' : p.age <= StaleAfter
       /\ \E frame \in Frames : \A p \in pending :
            p.age <= StaleAfter /\ p.frame # frame => p \in pending']_vars

(* As long as frames are acknowledged, of whatever id, every prediction is *)
(* resolved or given up: the list is not a leak.                           *)
PredictionsResolve ==
  []<><<Acknowledge>>_vars =>
    \A frame \in Frames :
      frame \in FramesOf(pending) ~> frame \notin FramesOf(pending)

=============================================================================
