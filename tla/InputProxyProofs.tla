--------------------------- MODULE InputProxyProofs ---------------------------
(***************************************************************************)
(* Theorems of InputProxy, for any memory, any number of frame ids and any *)
(* age at which predictions become stale.                                  *)
(***************************************************************************)
EXTENDS InputProxy, TLAPS

(* A proxy that does not exist owns nothing. *)
GoneInv == ~alive => parts = {} /\ pending = {}

IInv == TypeOK /\ OwnedOnce /\ UniqueFrames /\ GoneInv

(* IInv holds initially. *)
LEMMA Initially == Init => IInv
<1> SUFFICES ASSUME Init
             PROVE  IInv
  OBVIOUS
<1>1. EventsOf(pending) = {}
  BY DEF Init, EventsOf
<1>2. 1 \in 1 .. MaxFrame + 1 /\ 0 \in 0 .. CounterSize - 1
  BY ProxyAssumption
<1>3. TypeOK
  BY <1>2 DEF Init, TypeOK
<1> QED
  BY <1>1, <1>3 DEF Init, IInv, OwnedOnce, UniqueFrames, GoneInv

(* The events of a list with one more entry, and with some entries gone. *)
LEMMA EventsOfMore ==
  ASSUME NEW list, NEW p
  PROVE  EventsOf(list \cup {p}) = EventsOf(list) \cup ({p.event} \ {NoObject})
  BY DEF EventsOf

(* Tracking a prediction keeps frame ids unique and later ones younger. *)
LEMMA TrackKeeps ==
  ASSUME IInv, Predict, NEW event \in Objects \cup {NoObject}, Track(event)
  PROVE  /\ pending' \subseteq Predictions
         /\ UniqueFrames'
         /\ EventsOf(pending') = EventsOf(pending) \cup ({event} \ {NoObject})
         /\ \A p \in pending : p.frame < nextFrame
<1> DEFINE new == [frame |-> nextFrame, event |-> event, age |-> 0]
<1> USE ProxyAssumption DEF IInv, TypeOK, UniqueFrames, Predict, Track
<1>1. new \in Predictions
  BY DEF Predictions, Frames
<1>2. pending' = pending \cup {new} /\ nextFrame' = nextFrame + 1
  OBVIOUS
<1>3. EventsOf(pending') = EventsOf(pending) \cup ({event} \ {NoObject})
  <2>1. new.event = event
    OBVIOUS
  <2> HIDE DEF new, IInv
  <2> QED
    BY <1>2, <2>1, EventsOfMore
<1>4. UniqueFrames'
  BY <1>1, <1>2 DEF Predictions, Frames
<1> QED
  BY <1>1, <1>2, <1>3, <1>4

(* Some entries are dropped from the list and their events freed. *)
LEMMA KeepKeeps ==
  ASSUME IInv, alive, NEW list \in SUBSET pending, Keep(list)
  PROVE  IInv'
<1> USE ProxyAssumption DEF IInv, TypeOK, Keep
<1>1. EventsOf(pending) = EventsOf(list) \cup EventsOf(pending \ list)
  BY DEF EventsOf
<1>2. EventsOf(list) \cap EventsOf(pending \ list) = {}
  BY DEF EventsOf, OwnedOnce
<1>3. TypeOK'
  OBVIOUS
<1>4. OwnedOnce'
  BY <1>1, <1>2 DEF OwnedOnce
<1>5. UniqueFrames'
  BY DEF UniqueFrames
<1>6. GoneInv'
  BY DEF GoneInv
<1> QED
  BY <1>3, <1>4, <1>5, <1>6

(* Every call and every tick of the clock preserves IInv. *)
LEMMA Inductive == IInv /\ [Next]_vars => IInv'
<1> SUFFICES ASSUME IInv, [Next]_vars
             PROVE  IInv'
  OBVIOUS
<1> USE ProxyAssumption DEF IInv, TypeOK, GoneInv, stats, Unused, OrNull
<1>1. ASSUME NEW enabled \in SUBSET Features, Create(enabled)
      PROVE  IInv'
  <2>1. PICK predictor \in IF "prediction" \in enabled THEN OrNull(Unused) ELSE {NoObject},
             smoother \in IF "smoothing" \in enabled THEN Unused ELSE {NoObject} :
               /\ parts' = {predictor, smoother} \ {NoObject}
               /\ heap' = heap \cup parts'
    BY <1>1 DEF Create, MakeParts
  <2>2. parts' \subseteq Unused
    BY <2>1
  <2>3. TypeOK'
    BY <1>1, <2>1, <2>2 DEF Create
  <2>4. OwnedOnce'
    BY <1>1, <2>1, <2>2 DEF Create, OwnedOnce, EventsOf
  <2>5. UniqueFrames' /\ GoneInv'
    BY <1>1 DEF Create, UniqueFrames
  <2> QED
    BY <2>3, <2>4, <2>5
<1>2. ASSUME NEW o \in Objects, CreateFails(o)
      PROVE  IInv'
  BY <1>2 DEF CreateFails, OwnedOnce, UniqueFrames
<1>3. ASSUME NEW o \in Objects, PredictForCaller(o)
      PROVE  IInv'
  <2>1. CASE UNCHANGED pending /\ heap' = heap \cup {o}
    <3>1. TypeOK' /\ GoneInv'
      BY <1>3, <2>1 DEF PredictForCaller, Predict
    <3>2. OwnedOnce'
      BY <1>3, <2>1 DEF PredictForCaller, OwnedOnce
    <3>3. UniqueFrames'
      <4>1. \A p \in pending : p.frame \in Nat
        BY DEF Predictions, Frames
      <4> QED
        BY <1>3, <2>1, <4>1 DEF PredictForCaller, Predict, UniqueFrames
    <3> QED
      BY <3>1, <3>2, <3>3
  <2>2. ASSUME NEW copy \in OrNull(Unused \ {o}), Track(copy),
               heap' = heap \cup ({o, copy} \ {NoObject})
        PROVE  IInv'
    <3>1. Predict
      BY <1>3 DEF PredictForCaller
    <3>2. /\ pending' \subseteq Predictions /\ UniqueFrames'
          /\ EventsOf(pending') = EventsOf(pending) \cup ({copy} \ {NoObject})
          /\ \A p \in pending : p.frame < nextFrame
      BY <2>2, <3>1, TrackKeeps
    <3>3. TypeOK' /\ GoneInv'
      BY <1>3, <2>2, <3>2 DEF PredictForCaller, Predict
    <3>4. OwnedOnce'
      <4>1. \A p, q \in pending' :
              p # q /\ p.event = q.event => p.event = NoObject
        BY <2>2 DEF Track, OwnedOnce, EventsOf
      <4> QED
        BY <1>3, <2>2, <3>2, <4>1 DEF PredictForCaller, OwnedOnce
    <3> QED
      BY <3>2, <3>3, <3>4
  <2> QED
    BY <1>3, <2>1, <2>2 DEF PredictForCaller
<1>4. ASSUME NEW o \in Objects, PredictForList(o)
      PROVE  IInv'
  <2>1. CASE UNCHANGED <<pending, heap>>
    <3>1. \A p \in pending : p.frame \in Nat
      BY DEF Predictions, Frames
    <3> QED
      BY <1>4, <2>1, <3>1 DEF PredictForList, Predict, OwnedOnce, UniqueFrames
  <2>2. CASE Track(o) /\ heap' = heap \cup {o}
    <3>1. Predict
      BY <1>4 DEF PredictForList
    <3>2. /\ pending' \subseteq Predictions /\ UniqueFrames'
          /\ EventsOf(pending') = EventsOf(pending) \cup ({o} \ {NoObject})
          /\ \A p \in pending : p.frame < nextFrame
      BY <2>2, <3>1, TrackKeeps
    <3>3. TypeOK' /\ GoneInv'
      BY <1>4, <2>2, <3>2 DEF PredictForList, Predict
    <3>4. OwnedOnce'
      <4>1. \A p, q \in pending' :
              p # q /\ p.event = q.event => p.event = NoObject
        BY <1>4, <2>2 DEF PredictForList, Track, OwnedOnce, EventsOf
      <4> QED
        BY <1>4, <2>2, <3>2, <4>1 DEF PredictForList, OwnedOnce
    <3> QED
      BY <3>2, <3>3, <3>4
  <2> QED
    BY <1>4, <2>1, <2>2 DEF PredictForList
<1>5. ASSUME NEW o \in Objects, SmoothForCaller(o)
      PROVE  IInv'
  BY <1>5 DEF SmoothForCaller, Smooth, OwnedOnce, UniqueFrames
<1>10. ASSUME NEW o \in Objects, SmoothForNobody(o)
      PROVE  IInv'
  BY <1>10 DEF SmoothForNobody, Smooth, OwnedOnce, UniqueFrames
<1>6. ASSUME NEW o \in Objects, Release(o)
      PROVE  IInv'
  BY <1>6 DEF Release, OwnedOnce, UniqueFrames
<1>7. ASSUME NEW frame \in Frames, Reconcile(frame)
      PROVE  IInv'
  <2> DEFINE list == {p \in pending : p.frame # frame /\ p.age <= StaleAfter}
  <2>1. alive /\ list \in SUBSET pending /\ Keep(list)
    BY <1>7 DEF Reconcile
  <2> QED
    BY <2>1, KeepKeeps
<1>8. ASSUME Destroy
      PROVE  IInv'
  <2>1. OwnedOnce'
    BY <1>8 DEF Destroy, OwnedOnce, EventsOf
  <2> QED
    BY <1>8, <2>1 DEF Destroy, UniqueFrames
<1>9. ASSUME Tick
      PROVE  IInv'
  <2>1. \A p \in pending : /\ Older(p) \in Predictions
                           /\ Older(p).frame = p.frame /\ Older(p).event = p.event
                           /\ p.age \in Nat /\ p.frame \in Nat
                           /\ Older(p).age = IF p.age > StaleAfter THEN p.age ELSE p.age + 1
    BY DEF Older, Predictions, Frames
  <2>2. EventsOf(pending') = EventsOf(pending)
    BY <1>9, <2>1 DEF Tick, EventsOf
  <2>3. TypeOK' /\ GoneInv'
    BY <1>9, <2>1 DEF Tick
  <2>4. \A r, s \in pending' : \E p, q \in pending : r = Older(p) /\ s = Older(q)
    BY <1>9 DEF Tick
  <2>5. OwnedOnce'
    <3>1. \A r, s \in pending' : r # s /\ r.event = s.event => r.event = NoObject
      BY <2>1, <2>4 DEF OwnedOnce
    <3> QED
      BY <1>9, <2>2, <3>1 DEF Tick, OwnedOnce
  <2>6. UniqueFrames'
    BY <1>9, <2>1, <2>4 DEF Tick, UniqueFrames
  <2> QED
    BY <2>3, <2>5, <2>6
<1>11. CASE UNCHANGED vars
  BY <1>11 DEF vars, OwnedOnce, UniqueFrames
<1> QED
  BY <1>1, <1>2, <1>3, <1>4, <1>5, <1>6, <1>7, <1>8, <1>9, <1>11, <1>10 DEF Next, Acknowledge

(* The inductive invariant holds in every reachable state. *)
THEOREM Invariance == Spec => []IInv
  BY Initially, Inductive, PTL DEF Spec

-----------------------------------------------------------------------------
(* Every variable keeps its type. *)
THEOREM TypeCorrect == Spec => []TypeOK
<1>1. IInv => TypeOK
  BY DEF IInv
<1> QED
  BY <1>1, Invariance, PTL

(* Every event, entry and part of the proxy has exactly one owner: nothing *)
(* is freed twice, used after it is freed, or lost beyond what lost holds. *)
THEOREM OwnershipSafety == Spec => []OwnedOnce
<1>1. IInv => OwnedOnce
  BY DEF IInv
<1> QED
  BY <1>1, Invariance, PTL

(* A frame id names at most one pending prediction. *)
THEOREM FrameSafety == Spec => []UniqueFrames
<1>1. IInv => UniqueFrames
  BY DEF IInv
<1> QED
  BY <1>1, Invariance, PTL

(* An acknowledgment leaves nothing stale and drops nothing but its frame. *)
THEOREM ExpirySafety == Spec => AcknowledgmentExpires
<1>1. ASSUME IInv, [Next]_vars, reconciled' # reconciled, alive
      PROVE  /\ \A p \in pending' : p.age <= StaleAfter
             /\ \E frame \in Frames : \A p \in pending :
                  p.age <= StaleAfter /\ p.frame # frame => p \in pending'
  <2>1. PICK frame \in Frames : Reconcile(frame)
    BY <1>1 DEF Next, Acknowledge, vars, Create, CreateFails, PredictForCaller,
                PredictForList, Predict, SmoothForCaller, SmoothForNobody,
                Smooth, Release, Destroy, Tick, stats
  <2> QED
    BY <2>1 DEF Reconcile, Keep
<1>2. IInv /\ [Next]_vars =>
        [reconciled' # reconciled /\ alive =>
           /\ \A p \in pending' : p.age <= StaleAfter
           /\ \E frame \in Frames : \A p \in pending :
                p.age <= StaleAfter /\ p.frame # frame => p \in pending']_vars
  BY <1>1
<1> QED
  BY <1>2, Invariance, PTL DEF Spec, AcknowledgmentExpires

=============================================================================
