---------------------------- MODULE CompositorProofs ----------------------------
(***************************************************************************)
(* Theorems of Compositor, for any surfaces, devices and memory: the proxy *)
(* inside the compositor keeps the invariant it has on its own, and the    *)
(* arrays of time stamps agree with the frames in flight.                  *)
(***************************************************************************)
EXTENDS Compositor, TLAPS

P == INSTANCE InputProxyProofs

(***************************************************************************)
(* Surface tracking.                                                       *)
(***************************************************************************)

(* Frames belong to registered surfaces and were numbered before; a        *)
(* surface that never lacked memory has a slot for each number so far.     *)
FramesInv ==
  \A s \in Surfaces :
    /\ inFlight[s] # {} => s \in registered
    /\ \A f \in inFlight[s] : f.id <= lastId[s]
    /\ s \in registered \ denied => lastId[s] < capacity[s]

SurfInv ==
  /\ Surf!TypeOK /\ Surf!StampsMatchFrames /\ FramesInv
  /\ DOMAIN inFlight = Surfaces

USE CompositorAssumption DEF Surf!surfaceVars, Surf!counters, Surf!surfaceHistory

LEMMA SurfInitially == Surf!Init => SurfInv
<1> SUFFICES ASSUME Surf!Init
             PROVE  SurfInv
  OBVIOUS
<1> USE DEF Surf!Init, Surf!None
<1>1. Surf!TypeOK
  BY DEF Surf!TypeOK
<1>2. Surf!StampsMatchFrames /\ FramesInv /\ DOMAIN inFlight = Surfaces
  BY DEF Surf!StampsMatchFrames, FramesInv
<1> QED
  BY <1>1, <1>2 DEF SurfInv

LEMMA RegisterKeeps ==
  ASSUME SurfInv, NEW s \in Surfaces, Surf!Register(s)
  PROVE  SurfInv'
<1> USE DEF SurfInv, Surf!Register, Surf!None
<1>1. Surf!TypeOK'
  BY DEF Surf!TypeOK
<1>2. Surf!StampsMatchFrames'
  BY DEF Surf!TypeOK, Surf!StampsMatchFrames, FramesInv
<1>3. FramesInv' /\ DOMAIN inFlight' = Surfaces
  BY DEF Surf!TypeOK, FramesInv
<1> QED
  BY <1>1, <1>2, <1>3

LEMMA UnregisterKeeps ==
  ASSUME SurfInv, NEW s \in Surfaces, Surf!Unregister(s)
  PROVE  SurfInv'
<1> USE DEF SurfInv, Surf!Unregister
<1>1. Surf!TypeOK'
  BY DEF Surf!TypeOK
<1>2. Surf!StampsMatchFrames'
  BY DEF Surf!TypeOK, Surf!StampsMatchFrames
<1>3. FramesInv' /\ DOMAIN inFlight' = Surfaces
  BY DEF Surf!TypeOK, FramesInv
<1> QED
  BY <1>1, <1>2, <1>3

(* The new number is that of no frame in flight, and gets a slot unless    *)
(* the array cannot grow now, or could not before.                         *)
LEMMA GenerateKeeps ==
  ASSUME SurfInv, NEW s, NEW byCommit \in BOOLEAN, Surf!Generate(s, byCommit)
  PROVE  SurfInv'
<1> DEFINE id == lastId[s] + 1
           new == [id |-> id, age |-> 0, byCommit |-> byCommit]
<1>1. /\ s \in registered /\ s \in Surfaces
      /\ lastId[s] \in Nat /\ id \in 1 .. MaxId
      /\ capacity[s] \in Nat \ {0}
  BY DEF SurfInv, Surf!TypeOK, Surf!Generate
<1>2. PICK room \in Surf!Grow(s, id) :
        /\ capacity' = [capacity EXCEPT ![s] = room]
        /\ stamps' = [stamps EXCEPT ![s] = Surf!Store(s, id, room)]
        /\ denied' = IF 2 * capacity[s] \in Surf!Grow(s, id) /\ room = capacity[s]
                     THEN denied \cup {s} ELSE denied
  BY DEF Surf!Generate
<1>3. /\ lastId' = [lastId EXCEPT ![s] = id]
      /\ inFlight' = [inFlight EXCEPT ![s] = @ \cup {new}]
      /\ UNCHANGED <<registered, total, dropped, delay>>
  BY DEF Surf!Generate
<1>4. /\ room \in Nat \ {0} /\ room >= capacity[s]
      /\ s \notin denied' => id < room /\ s \notin denied
      /\ s \in denied => s \in denied'
      /\ \A t \in Surfaces \ {s} : t \in denied' <=> t \in denied
      /\ denied' \subseteq Surfaces
  BY <1>1, <1>2 DEF SurfInv, FramesInv, Surf!TypeOK, Surf!Grow
<1>5. /\ stamps'[s] = Surf!Store(s, id, room) /\ DOMAIN stamps' = Surfaces
      /\ \A t \in Surfaces \ {s} : stamps'[t] = stamps[t]
      /\ inFlight'[s] = inFlight[s] \cup {new} /\ DOMAIN inFlight' = Surfaces
      /\ \A t \in Surfaces \ {s} : inFlight'[t] = inFlight[t]
      /\ capacity'[s] = room /\ lastId'[s] = id
      /\ \A t \in Surfaces \ {s} : capacity'[t] = capacity[t] /\ lastId'[t] = lastId[t]
  BY <1>1, <1>2, <1>3 DEF SurfInv, Surf!TypeOK
<1>6. \A f \in inFlight[s] : f.id # id /\ f.id \in Nat /\ f.id <= lastId[s]
  BY <1>1 DEF SurfInv, FramesInv, Surf!TypeOK, Surf!InFlightFrames
<1>7. /\ DOMAIN Surf!Store(s, id, room) =
           DOMAIN stamps[s] \cup (IF id < room THEN {id} ELSE {})
      /\ id < room => Surf!Store(s, id, room)[id] = 0
      /\ \A k \in DOMAIN stamps[s] : k # id => Surf!Store(s, id, room)[k] = stamps[s][k]
  BY DEF Surf!Store
<1>8. \A k \in DOMAIN stamps[s] :
        k # id /\ k \in 0 .. capacity[s] - 1 /\ stamps[s][k] \in 0 .. MaxAge
  BY <1>1, <1>6 DEF SurfInv, Surf!StampsMatchFrames, Surf!TypeOK
<1>9. new \in Surf!InFlightFrames /\ new.id = id /\ new.age = 0
  BY <1>1 DEF Surf!InFlightFrames
<1> HIDE DEF id, new
<1>10. Surf!TypeOK'
  <2>1. lastId' \in [Surfaces -> 0 .. MaxId] /\ capacity' \in [Surfaces -> Nat \ {0}]
    BY <1>1, <1>2, <1>3, <1>4 DEF SurfInv, Surf!TypeOK
  <2>2. \A k \in DOMAIN stamps'[s] :
          k \in 0 .. capacity'[s] - 1 /\ stamps'[s][k] \in 0 .. MaxAge
    BY <1>1, <1>4, <1>5, <1>7, <1>8
  <2>3. \A t \in Surfaces : \A k \in DOMAIN stamps'[t] :
          k \in 0 .. capacity'[t] - 1 /\ stamps'[t][k] \in 0 .. MaxAge
    BY <1>5, <2>2 DEF SurfInv, Surf!TypeOK
  <2>4. \A t \in Surfaces : inFlight'[t] \subseteq Surf!InFlightFrames
    BY <1>5, <1>9 DEF SurfInv, Surf!TypeOK
  <2> QED
    BY <1>3, <1>4, <1>5, <2>1, <2>3, <2>4 DEF SurfInv, Surf!TypeOK, Surf!InFlightFrames
<1>11. Surf!StampsMatchFrames'
  <2>1. ASSUME NEW t \in registered, t # s
        PROVE  /\ \A k \in DOMAIN stamps'[t] :
                    \E f \in inFlight'[t] : f.id = k /\ f.age = stamps'[t][k]
               /\ \A f \in inFlight'[t] : f.id \in DOMAIN stamps'[t] \/ t \in denied'
               /\ \A f, g \in inFlight'[t] : f.id = g.id => f = g
    <3>1. t \in Surfaces
      BY DEF SurfInv, Surf!TypeOK
    <3> QED
      BY <1>4, <1>5, <2>1, <3>1 DEF SurfInv, Surf!StampsMatchFrames
  <2>2. ASSUME NEW k \in DOMAIN stamps'[s]
        PROVE  \E f \in inFlight'[s] : f.id = k /\ f.age = stamps'[s][k]
    BY <1>1, <1>5, <1>7, <1>8, <1>9 DEF SurfInv, Surf!StampsMatchFrames
  <2>3. ASSUME NEW f \in inFlight'[s]
        PROVE  f.id \in DOMAIN stamps'[s] \/ s \in denied'
    BY <1>1, <1>4, <1>5, <1>7, <1>9 DEF SurfInv, Surf!StampsMatchFrames
  <2>4. ASSUME NEW f \in inFlight'[s], NEW g \in inFlight'[s], f.id = g.id
        PROVE  f = g
    BY <1>1, <1>5, <1>6, <1>9, <2>4 DEF SurfInv, Surf!StampsMatchFrames
  <2> QED
    BY <1>3, <2>1, <2>2, <2>3, <2>4 DEF Surf!StampsMatchFrames
<1>12. FramesInv'
  <2>1. id = lastId[s] + 1
    BY DEF id
  <2>2. \A f \in inFlight'[s] : f.id <= lastId'[s]
    BY <1>1, <1>5, <1>6, <1>9, <2>1
  <2> QED
    BY <1>1, <1>3, <1>4, <1>5, <2>2 DEF SurfInv, FramesInv
<1> QED
  BY <1>5, <1>10, <1>11, <1>12 DEF SurfInv

(* A frame that is presented leaves its slot, whoever presents it and      *)
(* however often; a delay is a word.                                       *)
LEMMA PresentKeeps ==
  ASSUME SurfInv, NEW s, NEW id, NEW ago \in 0 .. MaxAge, Surf!Present(s, id, ago)
  PROVE  SurfInv'
<1>1. /\ s \in registered /\ s \in Surfaces
      /\ inFlight' = [inFlight EXCEPT ![s] = {f \in @ : f.id # id}]
      /\ UNCHANGED <<registered, lastId, capacity, denied>>
  BY DEF Surf!Present, SurfInv, Surf!TypeOK
<1>2. /\ inFlight'[s] = {f \in inFlight[s] : f.id # id} /\ DOMAIN inFlight' = Surfaces
      /\ \A t \in Surfaces \ {s} : inFlight'[t] = inFlight[t]
  BY <1>1 DEF SurfInv
<1>3. /\ total' = total + 1 /\ total' \in 0 .. MaxPresented /\ dropped' \in 0 .. total'
      /\ delay' \in 0 .. Word - 1
  <2>1. CASE id \in DOMAIN stamps[s]
    <3>1. stamps[s][id] \in 0 .. MaxAge
      BY <1>1, <2>1 DEF SurfInv, Surf!TypeOK
    <3>2. Surf!Latency(stamps[s][id], ago) \in 0 .. Word - 1
      BY <3>1 DEF Surf!Latency
    <3> QED
      BY <2>1, <3>2 DEF Surf!Present, Surf!Record, SurfInv, Surf!TypeOK
  <2>2. CASE id \notin DOMAIN stamps[s]
    BY <2>2 DEF Surf!Present, Surf!Record, SurfInv, Surf!TypeOK
  <2> QED
    BY <2>1, <2>2
<1>4. /\ DOMAIN stamps' = Surfaces
      /\ \A t \in Surfaces \ {s} : stamps'[t] = stamps[t]
      /\ DOMAIN stamps'[s] = DOMAIN stamps[s] \ {id}
      /\ \A k \in DOMAIN stamps'[s] : stamps'[s][k] = stamps[s][k]
  <2>1. CASE id \in DOMAIN stamps[s]
    <3>1. stamps' = [stamps EXCEPT ![s] = Surf!Clear(s, id)]
      BY <2>1 DEF Surf!Present
    <3>2. stamps'[s] = Surf!Clear(s, id)
      BY <1>1, <3>1 DEF SurfInv, Surf!TypeOK
    <3>3. /\ DOMAIN Surf!Clear(s, id) = DOMAIN stamps[s] \ {id}
          /\ \A k \in DOMAIN Surf!Clear(s, id) : Surf!Clear(s, id)[k] = stamps[s][k]
      BY DEF Surf!Clear
    <3> QED
      BY <1>1, <3>1, <3>2, <3>3 DEF SurfInv, Surf!TypeOK
  <2>2. CASE id \notin DOMAIN stamps[s]
    BY <1>1, <2>2 DEF Surf!Present, SurfInv, Surf!TypeOK
  <2> QED
    BY <2>1, <2>2
<1>5. Surf!TypeOK'
  <2>1. \A t \in Surfaces : \A k \in DOMAIN stamps'[t] :
          k \in 0 .. capacity'[t] - 1 /\ stamps'[t][k] \in 0 .. MaxAge
    BY <1>1, <1>4 DEF SurfInv, Surf!TypeOK
  <2>2. \A t \in Surfaces : inFlight'[t] \subseteq Surf!InFlightFrames
    BY <1>1, <1>2 DEF SurfInv, Surf!TypeOK
  <2> QED
    BY <1>1, <1>3, <1>4, <2>1, <2>2 DEF SurfInv, Surf!TypeOK, Surf!InFlightFrames
<1>6. Surf!StampsMatchFrames'
  <2>1. ASSUME NEW t \in registered
        PROVE  /\ \A k \in DOMAIN stamps'[t] :
                    \E f \in inFlight'[t] : f.id = k /\ f.age = stamps'[t][k]
               /\ \A f \in inFlight'[t] : f.id \in DOMAIN stamps'[t] \/ t \in denied'
               /\ \A f, g \in inFlight'[t] : f.id = g.id => f = g
    <3>1. t \in Surfaces
      BY DEF SurfInv, Surf!TypeOK
    <3>2. CASE t = s
      BY <1>1, <1>2, <1>4, <3>2 DEF SurfInv, Surf!StampsMatchFrames
    <3>3. CASE t # s
      BY <1>1, <1>2, <1>4, <3>1, <3>3 DEF SurfInv, Surf!StampsMatchFrames
    <3> QED
      BY <3>2, <3>3
  <2> QED
    BY <1>1, <2>1 DEF Surf!StampsMatchFrames
<1>7. FramesInv'
  BY <1>1, <1>2 DEF SurfInv, FramesInv
<1> QED
  BY <1>2, <1>5, <1>6, <1>7 DEF SurfInv

(* Frames and their slots age together. *)
LEMMA TickKeeps ==
  ASSUME SurfInv, Surf!Tick
  PROVE  SurfInv'
<1>1. /\ stamps' = [s \in Surfaces |-> [k \in DOMAIN stamps[s] |-> Surf!Aged(stamps[s][k])]]
      /\ inFlight' = [s \in Surfaces |->
                        {[f EXCEPT !.age = Surf!Aged(@)] : f \in inFlight[s]}]
      /\ UNCHANGED <<registered, lastId, capacity, total, dropped, delay, denied>>
  BY DEF Surf!Tick
<1>2. \A age \in 0 .. MaxAge : Surf!Aged(age) \in 0 .. MaxAge
  BY DEF Surf!Aged
<1>3. ASSUME NEW s \in Surfaces
      PROVE  /\ DOMAIN stamps'[s] = DOMAIN stamps[s]
             /\ \A k \in DOMAIN stamps[s] : stamps'[s][k] = Surf!Aged(stamps[s][k])
             /\ \A f \in inFlight[s] : [f EXCEPT !.age = Surf!Aged(@)] \in inFlight'[s]
             /\ \A g \in inFlight'[s] : \E f \in inFlight[s] :
                  g = [f EXCEPT !.age = Surf!Aged(@)]
  BY <1>1
<1>4. ASSUME NEW s \in Surfaces, NEW f \in inFlight[s]
      PROVE  LET g == [f EXCEPT !.age = Surf!Aged(@)]
             IN  g \in Surf!InFlightFrames /\ g.id = f.id /\ g.age = Surf!Aged(f.age)
  <2>1. f \in Surf!InFlightFrames
    BY DEF SurfInv, Surf!TypeOK
  <2> QED
    BY <1>2, <2>1 DEF Surf!InFlightFrames
<1>5. Surf!TypeOK'
  <2>1. \A s \in Surfaces : \A k \in DOMAIN stamps'[s] :
          k \in 0 .. capacity'[s] - 1 /\ stamps'[s][k] \in 0 .. MaxAge
    BY <1>1, <1>2, <1>3 DEF SurfInv, Surf!TypeOK
  <2>2. \A s \in Surfaces : inFlight'[s] \subseteq Surf!InFlightFrames
    BY <1>3, <1>4
  <2> QED
    BY <1>1, <2>1, <2>2 DEF SurfInv, Surf!TypeOK, Surf!InFlightFrames
<1>6. Surf!StampsMatchFrames'
  <2>1. ASSUME NEW s \in registered
        PROVE  /\ \A k \in DOMAIN stamps'[s] :
                    \E g \in inFlight'[s] : g.id = k /\ g.age = stamps'[s][k]
               /\ \A g \in inFlight'[s] : g.id \in DOMAIN stamps'[s] \/ s \in denied
               /\ \A g, h \in inFlight'[s] : g.id = h.id => g = h
    <3>1. s \in Surfaces
      BY DEF SurfInv, Surf!TypeOK
    <3>2. ASSUME NEW k \in DOMAIN stamps'[s]
          PROVE  \E g \in inFlight'[s] : g.id = k /\ g.age = stamps'[s][k]
      <4>1. PICK f \in inFlight[s] : f.id = k /\ f.age = stamps[s][k]
        BY <1>3, <3>1, <3>2 DEF SurfInv, Surf!StampsMatchFrames
      <4> QED
        <5>1. [f EXCEPT !.age = Surf!Aged(@)] \in inFlight'[s]
          BY <1>3, <3>1
        <5>2. stamps'[s][k] = Surf!Aged(f.age)
          BY <1>3, <3>1, <3>2, <4>1
        <5> QED
          BY <1>4, <3>1, <4>1, <5>1, <5>2
    <3>3. ASSUME NEW g \in inFlight'[s]
          PROVE  g.id \in DOMAIN stamps'[s] \/ s \in denied
      <4>1. PICK f \in inFlight[s] : g = [f EXCEPT !.age = Surf!Aged(@)]
        BY <1>3, <3>1, <3>3
      <4> QED
        BY <1>3, <1>4, <3>1, <4>1 DEF SurfInv, Surf!StampsMatchFrames
    <3>4. ASSUME NEW g \in inFlight'[s], NEW h \in inFlight'[s], g.id = h.id
          PROVE  g = h
      <4>1. PICK f \in inFlight[s] : g = [f EXCEPT !.age = Surf!Aged(@)]
        BY <1>3, <3>1, <3>4
      <4>2. PICK e \in inFlight[s] : h = [e EXCEPT !.age = Surf!Aged(@)]
        BY <1>3, <3>1, <3>4
      <4>3. f.id = e.id
        BY <1>4, <3>1, <3>4, <4>1, <4>2
      <4>4. f = e
        BY <4>3 DEF SurfInv, Surf!StampsMatchFrames
      <4> QED
        BY <4>1, <4>2, <4>4
    <3> QED
      BY <3>2, <3>3, <3>4
  <2> QED
    BY <1>1, <2>1 DEF Surf!StampsMatchFrames
<1>7. FramesInv'
  <2>1. ASSUME NEW s \in Surfaces
        PROVE  /\ inFlight'[s] # {} => inFlight[s] # {}
               /\ \A g \in inFlight'[s] : \E f \in inFlight[s] : g.id = f.id
    <3>1. ASSUME NEW g \in inFlight'[s]
          PROVE  \E f \in inFlight[s] : g.id = f.id
      <4>1. PICK f \in inFlight[s] : g = [f EXCEPT !.age = Surf!Aged(@)]
        BY <1>3, <3>1
      <4>2. g.id = f.id
        BY <1>4, <4>1
      <4> QED
        BY <4>2
    <3> QED
      BY <3>1
  <2> QED
    BY <1>1, <2>1 DEF SurfInv, FramesInv
<1> QED
  BY <1>1, <1>5, <1>6, <1>7 DEF SurfInv

(***************************************************************************)
(* The proxy: what the compositor does to it are the operations the        *)
(* theorems of InputProxy are about.                                       *)
(***************************************************************************)

LEMMA ProxyIsProxy == P!ProxyAssumption
  BY CompositorAssumption DEF P!ProxyAssumption

LEMMA ProxyInitially == Proxy!Init => P!IInv
<1>1. Proxy!Init => P!Init
  BY DEF Proxy!Init, P!Init
<1> QED
  BY <1>1, ProxyIsProxy, CompositorAssumption, P!Initially

LEMMA CreateKeeps ==
  ASSUME P!IInv, NEW enabled \in SUBSET Proxy!Features, Proxy!Create(enabled)
  PROVE  P!IInv'
<1>1. P!Create(enabled) /\ enabled \in SUBSET P!Features
  BY DEF Proxy!Create, P!Create, Proxy!MakeParts, P!MakeParts, Proxy!OrNull,
         P!OrNull, Proxy!Unused, P!Unused, Proxy!Features, P!Features
<1>2. P!Next
  BY <1>1 DEF P!Next
<1> QED
  BY <1>2, ProxyIsProxy, CompositorAssumption, P!Inductive

LEMMA ObjectKeeps ==
  ASSUME P!IInv, NEW o \in Objects,
         \/ Proxy!CreateFails(o) \/ Proxy!PredictForCaller(o)
         \/ Proxy!SmoothForCaller(o) \/ Proxy!Release(o)
  PROVE  P!IInv'
<1> USE DEF Proxy!Unused, P!Unused, Proxy!OrNull, P!OrNull, Proxy!stats, P!stats
<1>1. Proxy!CreateFails(o) => P!CreateFails(o)
  BY DEF Proxy!CreateFails, P!CreateFails
<1>2. Proxy!PredictForCaller(o) => P!PredictForCaller(o)
  BY DEF Proxy!PredictForCaller, P!PredictForCaller, Proxy!Predict, P!Predict,
         Proxy!Track, P!Track
<1>3. Proxy!SmoothForCaller(o) => P!SmoothForCaller(o)
  BY DEF Proxy!SmoothForCaller, P!SmoothForCaller, Proxy!Smooth, P!Smooth
<1>4. Proxy!Release(o) => P!Release(o)
  BY DEF Proxy!Release, P!Release
<1>5. P!Next
  BY <1>1, <1>2, <1>3, <1>4 DEF P!Next
<1> QED
  BY <1>5, ProxyIsProxy, CompositorAssumption, P!Inductive

LEMMA DestroyKeeps ==
  ASSUME P!IInv, Proxy!Destroy
  PROVE  P!IInv'
<1>1. P!Destroy
  BY DEF Proxy!Destroy, P!Destroy, Proxy!EventsOf, P!EventsOf, Proxy!stats, P!stats
<1>2. P!Next
  BY <1>1 DEF P!Next
<1> QED
  BY <1>2, ProxyIsProxy, CompositorAssumption, P!Inductive

(* The number of a frame need not be one of a prediction. *)
LEMMA ReconcileKeeps ==
  ASSUME P!IInv, NEW frame, Proxy!Reconcile(frame)
  PROVE  P!IInv'
<1> DEFINE list == {p \in pending : p.frame # frame /\ p.age <= StaleAfter}
<1>1. alive /\ P!Keep(list) /\ list \in SUBSET pending
  BY DEF Proxy!Reconcile, Proxy!Keep, P!Keep, Proxy!EventsOf, P!EventsOf
<1> HIDE DEF list
<1> QED
  BY <1>1, ProxyIsProxy, CompositorAssumption, P!KeepKeeps

LEMMA AgeKeeps ==
  ASSUME P!IInv, Proxy!Tick
  PROVE  P!IInv'
<1>1. P!Tick
  BY DEF Proxy!Tick, P!Tick, Proxy!Older, P!Older, Proxy!stats, P!stats
<1>2. P!Next
  BY <1>1 DEF P!Next
<1> QED
  BY <1>2, ProxyIsProxy, CompositorAssumption, P!Inductive

LEMMA ProxyUnchanged == P!IInv /\ UNCHANGED proxyVars => P!IInv'
<1>1. UNCHANGED proxyVars => UNCHANGED P!vars
  BY DEF proxyVars, P!vars
<1> QED
  BY <1>1, ProxyIsProxy, CompositorAssumption, P!Inductive

LEMMA SurfUnchanged == SurfInv /\ UNCHANGED surfaceVars => SurfInv'
  BY DEF surfaceVars, SurfInv, Surf!TypeOK, Surf!StampsMatchFrames, FramesInv

(***************************************************************************)
(* The hooks.                                                              *)
(***************************************************************************)

(* The proxy is there while the hooks are; the callback in progress holds  *)
(* the one event it has to free, and no other callback holds any.          *)
HookInv ==
  /\ hooks \in BOOLEAN /\ devices \subseteq Devices
  /\ pc \in {"idle", "free", "generate", "notify"}
  /\ surface \in Surfaces \cup {NoSurface} /\ shown \in 0 .. MaxAge
  /\ hooks <=> alive
  /\ devices # {} => hooks
  /\ pc = "free" => \E e : held = {e}
  /\ pc # "free" => held = {}

IInv == P!IInv /\ SurfInv /\ HookInv

LEMMA Initially == Init => IInv
<1> SUFFICES ASSUME Init
             PROVE  IInv
  OBVIOUS
<1>1. P!IInv /\ SurfInv
  BY ProxyInitially, SurfInitially DEF Init
<1>2. hooks = FALSE /\ alive = FALSE /\ held = {} /\ devices = {}
  BY DEF Init, Proxy!Init
<1>3. hooks \in BOOLEAN /\ (hooks <=> alive)
  BY <1>2
<1>4. /\ pc = "idle" /\ surface = NoSurface /\ shown = 0
      /\ 0 \in 0 .. MaxAge
  BY DEF Init
<1>5. HookInv
  BY <1>2, <1>3, <1>4 DEF HookInv
<1> QED
  BY <1>1, <1>5 DEF IInv

LEMMA NotifyKeeps ==
  ASSUME P!IInv, SurfInv, NEW s, NEW id, NEW ago \in 0 .. MaxAge, Notify(s, id, ago)
  PROVE  /\ P!IInv' /\ SurfInv'
         /\ UNCHANGED <<alive, held, lost>>
<1>1. SurfInv'
  BY PresentKeeps DEF Notify
<1>2. P!IInv' /\ UNCHANGED <<alive, held, lost>>
  BY ReconcileKeeps, ProxyUnchanged DEF Notify, Proxy!Reconcile, Proxy!Keep, proxyVars
<1> QED
  BY <1>1, <1>2

(* Every call, every step of a callback and every tick preserves IInv. *)
LEMMA Inductive == IInv /\ [Next]_vars => IInv'
<1> SUFFICES ASSUME IInv, [Next]_vars
             PROVE  IInv'
  OBVIOUS
<1> USE DEF HookInv, hookVars, callVars
<1>1. ASSUME HooksInit
      PROVE  IInv'
  <2>1. P!IInv'
    BY <1>1, CreateKeeps DEF HooksInit, IInv
  <2>2. SurfInv'
    BY <1>1, SurfUnchanged DEF HooksInit, IInv
  <2>3. HookInv'
    BY <1>1 DEF HooksInit, Proxy!Create, IInv
  <2> QED
    BY <2>1, <2>2, <2>3 DEF IInv
<1>2. ASSUME NEW o \in Objects, HooksInitFails(o)
      PROVE  IInv'
  <2>1. P!IInv'
    BY <1>2, ObjectKeeps DEF HooksInitFails, IInv
  <2>2. SurfInv'
    BY <1>2, SurfUnchanged DEF HooksInitFails, IInv
  <2>3. HookInv'
    BY <1>2 DEF HooksInitFails, Proxy!CreateFails, IInv
  <2> QED
    BY <2>1, <2>2, <2>3 DEF IInv
<1>3. ASSUME HooksCleanup
      PROVE  IInv'
  <2>1. P!IInv'
    BY <1>3, DestroyKeeps DEF HooksCleanup, IInv
  <2>2. SurfInv'
    BY <1>3, SurfUnchanged DEF HooksCleanup, IInv
  <2>3. HookInv'
    BY <1>3 DEF HooksCleanup, Proxy!Destroy, IInv
  <2> QED
    BY <2>1, <2>2, <2>3 DEF IInv
<1>4. ASSUME NEW d \in Devices, RegisterDevice(d) \/ UnregisterDevice(d)
      PROVE  IInv'
  <2>1. P!IInv'
    BY <1>4, ProxyUnchanged DEF RegisterDevice, UnregisterDevice, IInv
  <2>2. SurfInv'
    BY <1>4, SurfUnchanged DEF RegisterDevice, UnregisterDevice, IInv
  <2>3. HookInv'
    BY <1>4 DEF RegisterDevice, UnregisterDevice, proxyVars, IInv
  <2> QED
    BY <2>1, <2>2, <2>3 DEF IInv
<1>5. ASSUME NEW o \in Objects, InterceptMotion(o)
      PROVE  IInv'
  <2>1. P!IInv'
    BY <1>5, ObjectKeeps DEF InterceptMotion, IInv
  <2>2. SurfInv'
    BY <1>5, SurfUnchanged DEF InterceptMotion, IInv
  <2>3. HookInv'
    BY <1>5 DEF InterceptMotion, Proxy!PredictForCaller, IInv
  <2> QED
    BY <2>1, <2>2, <2>3 DEF IInv
<1>6. ASSUME NEW o \in Objects, InterceptScroll(o)
      PROVE  IInv'
  <2>1. P!IInv'
    BY <1>6, ObjectKeeps DEF InterceptScroll, IInv
  <2>2. SurfInv'
    BY <1>6, SurfUnchanged DEF InterceptScroll, IInv
  <2>3. HookInv'
    BY <1>6 DEF InterceptScroll, Proxy!SmoothForCaller, Proxy!Smooth, IInv
  <2> QED
    BY <2>1, <2>2, <2>3 DEF IInv
<1>7. ASSUME NEW o \in Objects, FreeEvent(o)
      PROVE  IInv'
  <2>1. P!IInv'
    BY <1>7, ObjectKeeps DEF FreeEvent, IInv
  <2>2. SurfInv'
    BY <1>7, SurfUnchanged DEF FreeEvent, IInv
  <2>3. HookInv'
    BY <1>7 DEF FreeEvent, Proxy!Release, IInv
  <2> QED
    BY <2>1, <2>2, <2>3 DEF IInv
<1>8. ASSUME NEW s \in Surfaces, RegisterSurface(s) \/ UnregisterSurface(s) \/ Commit(s)
      PROVE  IInv'
  <2>1. P!IInv'
    BY <1>8, ProxyUnchanged DEF RegisterSurface, UnregisterSurface, Commit, IInv
  <2>2. SurfInv'
    BY <1>8, RegisterKeeps, UnregisterKeeps, GenerateKeeps
    DEF RegisterSurface, UnregisterSurface, Commit, IInv
  <2>3. HookInv'
    <3>1. UNCHANGED <<hooks, devices, pc, surface, shown, alive, held>>
      BY <1>8 DEF RegisterSurface, UnregisterSurface, Commit, proxyVars
    <3> QED
      BY <3>1 DEF IInv
  <2> QED
    BY <2>1, <2>2, <2>3 DEF IInv
<1>9. ASSUME NEW s \in Surfaces, FrameDone(s)
      PROVE  IInv'
  <2>1. P!IInv'
    BY <1>9, ProxyUnchanged DEF FrameDone, IInv
  <2>2. SurfInv'
    BY <1>9, SurfUnchanged DEF FrameDone, IInv
  <2>3. HookInv'
    BY <1>9 DEF FrameDone, proxyVars, IInv
  <2> QED
    BY <2>1, <2>2, <2>3 DEF IInv
<1>10. ASSUME FrameDoneGenerates
      PROVE  IInv'
  <2>1. P!IInv'
    BY <1>10, ProxyUnchanged DEF FrameDoneGenerates, IInv
  <2>2. SurfInv'
    BY <1>10, GenerateKeeps DEF FrameDoneGenerates, IInv
  <2>3. HookInv'
    BY <1>10 DEF FrameDoneGenerates, proxyVars, IInv
  <2> QED
    BY <2>1, <2>2, <2>3 DEF IInv
<1>11. ASSUME NEW s \in Surfaces, NEW id \in 0 .. MaxId, HostPresents(s, id)
      PROVE  IInv'
  <2>1. P!IInv'
    BY <1>11, NotifyKeeps DEF HostPresents, IInv
  <2>2. SurfInv'
    BY <1>11, NotifyKeeps DEF HostPresents, IInv
  <2>3. HookInv'
    BY <1>11, NotifyKeeps DEF HostPresents, IInv
  <2> QED
    BY <2>1, <2>2, <2>3 DEF IInv
<1>12. ASSUME FrameDoneNotifies
      PROVE  IInv'
  <2>1. P!IInv'
    BY <1>12, NotifyKeeps DEF FrameDoneNotifies, IInv, HookInv
  <2>2. SurfInv'
    BY <1>12, NotifyKeeps DEF FrameDoneNotifies, IInv, HookInv
  <2>3. HookInv'
    BY <1>12, NotifyKeeps DEF FrameDoneNotifies, IInv
  <2> QED
    BY <2>1, <2>2, <2>3 DEF IInv
<1>13. ASSUME Tick
      PROVE  IInv'
  <2>1. P!IInv'
    BY <1>13, AgeKeeps DEF Tick, IInv
  <2>2. SurfInv'
    BY <1>13, TickKeeps DEF Tick, IInv
  <2>3. HookInv'
    BY <1>13 DEF Tick, Proxy!Tick, Surf!Aged, IInv
  <2> QED
    BY <2>1, <2>2, <2>3 DEF IInv
<1>14. ASSUME UNCHANGED vars
      PROVE  IInv'
  <2>1. P!IInv'
    BY <1>14, ProxyUnchanged DEF vars, IInv
  <2>2. SurfInv'
    BY <1>14, SurfUnchanged DEF vars, IInv
  <2>3. HookInv'
    BY <1>14 DEF vars, proxyVars, hookVars, callVars, IInv
  <2> QED
    BY <2>1, <2>2, <2>3 DEF IInv
<1> QED
  BY <1>1, <1>2, <1>3, <1>4, <1>5, <1>6, <1>7, <1>8, <1>9, <1>10, <1>11, <1>12,
     <1>13, <1>14 DEF Next

(* The inductive invariant holds in every reachable state. *)
THEOREM Invariance == Spec => []IInv
  BY Initially, Inductive, PTL DEF Spec

-----------------------------------------------------------------------------
(* Every variable of the three components keeps its type, and the hooks    *)
(* and their devices are there exactly while the global proxy is.          *)
THEOREM TypeCorrect == Spec => []TypeOK
<1>1. P!IInv => Proxy!TypeOK
  BY DEF P!IInv, P!TypeOK, Proxy!TypeOK, P!Features, Proxy!Features,
         P!Predictions, Proxy!Predictions, P!Frames, Proxy!Frames
<1>2. IInv => TypeOK
  BY <1>1 DEF IInv, SurfInv, HookInv, TypeOK
<1> QED
  BY <1>2, Invariance, PTL

(* Slots and frames in flight agree, for any number of surfaces, any first *)
(* size of the array and any frame numbers.                                *)
THEOREM StampsSafety == Spec => []StampsMatchFrames
<1>1. IInv => StampsMatchFrames
  BY DEF IInv, SurfInv, StampsMatchFrames
<1> QED
  BY <1>1, Invariance, PTL

(* Between callbacks the hooks hold no event, and everything allocated has *)
(* one owner, however frames, hosts and callbacks interleave.              *)
THEOREM HooksSafety == Spec => []HooksLoseNothing
<1>1. P!IInv => Proxy!OwnedOnce
  BY DEF P!IInv, P!OwnedOnce, Proxy!OwnedOnce, P!EventsOf, Proxy!EventsOf
<1>2. IInv => HooksLoseNothing
  BY <1>1 DEF IInv, HookInv, HooksLoseNothing
<1> QED
  BY <1>2, Invariance, PTL

(* Only hooks that could not be initialised lose memory. *)
THEOREM LossSafety == Spec => OnlyInitLoses
<1>1. ASSUME IInv, [Next]_vars, lost' # lost
      PROVE  ~hooks /\ ~hooks'
  <2>1. ASSUME NEW o \in Objects, HooksInitFails(o)
        PROVE  ~hooks /\ ~hooks'
    BY <2>1 DEF HooksInitFails, hookVars
  <2>2. \E o \in Objects : HooksInitFails(o)
    BY <1>1, NotifyKeeps
    DEF Next, vars, HooksInit, HooksCleanup, RegisterDevice, UnregisterDevice,
        InterceptMotion, InterceptScroll, FreeEvent, RegisterSurface,
        UnregisterSurface, Commit, FrameDone, HostPresents, FrameDoneGenerates,
        FrameDoneNotifies, Notify, Tick, Proxy!Create, Proxy!Destroy,
        Proxy!PredictForCaller, Proxy!SmoothForCaller, Proxy!Release,
        Proxy!Reconcile, Proxy!Keep, Proxy!Tick, proxyVars
  <2> QED
    BY <2>1, <2>2
<1>2. IInv /\ [Next]_vars => [lost' # lost => ~hooks /\ ~hooks']_vars
  BY <1>1
<1> QED
  BY <1>2, Invariance, PTL DEF Spec, OnlyInitLoses

(* The counters change only when a frame is presented: in the callback of  *)
(* the glue, or by the host, which knows of a frame no later than it was.  *)
LEMMA CountedIsPresented ==
  ASSUME IInv, [Next]_vars, total' # total
  PROVE  \/ pc # "idle" /\ Notify(surface, lastId[surface], shown)
         \/ \E s \in Surfaces, id \in 0 .. MaxId : \E ago \in 0 .. MaxAge :
              /\ Notify(s, id, ago)
              /\ \A f \in inFlight[s] : f.id = id => ago <= f.age
<1>1. FrameDoneNotifies \/ \E s \in Surfaces : \E id \in 0 .. MaxId : HostPresents(s, id)
  BY DEF Next, vars, HooksInit, HooksInitFails, HooksCleanup, RegisterDevice,
         UnregisterDevice, InterceptMotion, InterceptScroll, FreeEvent,
         RegisterSurface, UnregisterSurface, Commit, FrameDone,
         FrameDoneGenerates, Tick, surfaceVars, Surf!Register,
         Surf!Unregister, Surf!Generate, Surf!Tick
<1>2. FrameDoneNotifies => pc # "idle" /\ Notify(surface, lastId[surface], shown)
  BY DEF FrameDoneNotifies
<1>3. ASSUME NEW s \in Surfaces, NEW id \in 0 .. MaxId, HostPresents(s, id)
      PROVE  \E ago \in 0 .. MaxAge :
               Notify(s, id, ago) /\ \A f \in inFlight[s] : f.id = id => ago <= f.age
  BY <1>3 DEF HostPresents
<1> QED
  BY <1>1, <1>2, <1>3

(* A frame ends its flight, while its surface is registered, only when it  *)
(* is presented: time and other frames leave it its number.                *)
LEMMA EndOfFlight ==
  ASSUME IInv, [Next]_vars, pc = "idle", NEW s \in registered \cap registered',
         NEW f \in inFlight[s], Presented(s, f)
  PROVE  \E ago \in 0 .. MaxAge : Notify(s, f.id, ago) /\ ago <= f.age
<1>1. DOMAIN inFlight = Surfaces /\ registered \subseteq Surfaces
  BY DEF IInv, SurfInv, Surf!TypeOK
<1>2. inFlight'[s] # inFlight[s] /\ ~\E g \in inFlight'[s] : g.id = f.id
  BY DEF Presented
<1>3. ASSUME Surf!Tick PROVE FALSE
  <2>1. inFlight'[s] = {[g EXCEPT !.age = Surf!Aged(@)] : g \in inFlight[s]}
    BY <1>1, <1>3 DEF Surf!Tick
  <2>2. f \in Surf!InFlightFrames
    BY <1>1 DEF IInv, SurfInv, Surf!TypeOK
  <2>3. [f EXCEPT !.age = Surf!Aged(@)] \in inFlight'[s]
        /\ [f EXCEPT !.age = Surf!Aged(@)].id = f.id
    BY <2>1, <2>2 DEF Surf!InFlightFrames
  <2> QED
    BY <1>2, <2>3
<1>4. ASSUME NEW t, NEW byCommit, Surf!Generate(t, byCommit) PROVE FALSE
  <2>1. inFlight[s] \subseteq inFlight'[s]
    BY <1>1, <1>4 DEF Surf!Generate
  <2> QED
    BY <1>2, <2>1
<1>5. ASSUME NEW t, Surf!Unregister(t) PROVE FALSE
  <2>1. t # s
    BY <1>5 DEF Surf!Unregister
  <2>2. inFlight'[s] = inFlight[s]
    BY <1>1, <1>5, <2>1 DEF Surf!Unregister
  <2> QED
    BY <1>2, <2>2
<1>6. inFlight' # inFlight
  BY <1>2
<1>7. \E t \in Surfaces : \E id \in 0 .. MaxId : HostPresents(t, id)
  BY <1>3, <1>4, <1>5, <1>6 DEF Next, vars, HooksInit, HooksInitFails, HooksCleanup,
         RegisterDevice, UnregisterDevice, InterceptMotion, InterceptScroll, FreeEvent,
         RegisterSurface, UnregisterSurface, Commit, FrameDone, FrameDoneGenerates,
         FrameDoneNotifies, Tick, surfaceVars, Surf!Register, Surf!surfaceHistory
<1>8. PICK t \in Surfaces, id \in 0 .. MaxId, ago \in 0 .. MaxAge :
        Notify(t, id, ago) /\ \A g \in inFlight[t] : g.id = id => ago <= g.age
  BY <1>7 DEF HostPresents
<1>9. inFlight' = [inFlight EXCEPT ![t] = {g \in inFlight[t] : g.id # id}]
  BY <1>8 DEF Notify, Surf!Present
<1>10. t = s
  BY <1>1, <1>2, <1>9
<1>11. f.id = id
  BY <1>1, <1>2, <1>9, <1>10
<1> QED
  BY <1>8, <1>10, <1>11

(* What the host presents is measured rightly: a frame with a stamp is     *)
(* shown, with its latency, and nothing else is.                           *)
LEMMA Measured ==
  ASSUME IInv, NEW s, NEW id, NEW ago \in 0 .. MaxAge, Notify(s, id, ago),
         \A f \in inFlight[s] : f.id = id => ago <= f.age
  PROVE  /\ s \in registered /\ total' = total + 1
         /\ id \in DOMAIN stamps[s] <=> dropped' = dropped
         /\ dropped' = dropped =>
              \E f \in inFlight[s] :
                f.id = id /\ Presented(s, f) /\ delay' \in 0 .. f.age
<1>1. /\ s \in registered /\ total' = total + 1
      /\ inFlight' = [inFlight EXCEPT ![s] = {f \in inFlight[s] : f.id # id}]
      /\ id \in DOMAIN stamps[s] =>
           dropped' = dropped /\ delay' = Surf!Latency(stamps[s][id], ago)
      /\ id \notin DOMAIN stamps[s] => dropped' = dropped + 1
  BY DEF Notify, Surf!Present, Surf!Record
<1>2. dropped \in Nat /\ DOMAIN inFlight = Surfaces /\ s \in Surfaces
  BY <1>1 DEF IInv, SurfInv, Surf!TypeOK
<1>3. ASSUME id \in DOMAIN stamps[s]
      PROVE  \E f \in inFlight[s] :
               f.id = id /\ Presented(s, f) /\ delay' \in 0 .. f.age
  <2>1. PICK f \in inFlight[s] : f.id = id /\ f.age = stamps[s][id]
    BY <1>1, <1>3 DEF IInv, SurfInv, Surf!StampsMatchFrames
  <2>2. f.age \in 0 .. MaxAge /\ ago <= f.age
    BY <1>2, <1>3, <2>1 DEF IInv, SurfInv, Surf!TypeOK
  <2>3. delay' = f.age - ago
    BY <1>1, <1>3, <2>1, <2>2 DEF Surf!Latency
  <2>4. delay' \in 0 .. f.age
    BY <2>2, <2>3
  <2>5. Presented(s, f)
    BY <1>1, <1>2, <2>1 DEF Presented
  <2> QED
    BY <2>1, <2>4, <2>5
<1> QED
  BY <1>1, <1>2, <1>3

(* A frame the host commits and presents is counted, as shown with its     *)
(* latency if it has a stamp, and nothing else the host presents is shown. *)
THEOREM MeasureSafety == Spec => HostFramesMeasured
<1> DEFINE Kept ==
             \A s \in registered \cap registered' : \A f \in inFlight[s] :
               Presented(s, f) =>
                 /\ total' = total + 1
                 /\ f.id \in DOMAIN stamps[s] \/ s \notin denied =>
                      dropped' = dropped /\ delay' \in 0 .. f.age
           Only ==
             total' # total /\ dropped' = dropped =>
               \E s \in registered : \E f \in inFlight[s] :
                 Presented(s, f) /\ delay' \in 0 .. f.age
<1>1. ASSUME IInv, [Next]_vars, pc = "idle" PROVE Kept
  <2>1. SUFFICES ASSUME NEW s \in registered \cap registered', NEW f \in inFlight[s],
                        Presented(s, f)
                 PROVE  /\ total' = total + 1
                        /\ f.id \in DOMAIN stamps[s] \/ s \notin denied =>
                             dropped' = dropped /\ delay' \in 0 .. f.age
    OBVIOUS
  <2>2. PICK ago \in 0 .. MaxAge : Notify(s, f.id, ago) /\ ago <= f.age
    BY <1>1, <2>1, EndOfFlight
  <2>3. /\ f.id \in DOMAIN stamps[s] \/ s \in denied
        /\ \A g \in inFlight[s] : g.id = f.id => g = f
    BY <1>1, <2>1, <2>2 DEF IInv, SurfInv, Surf!StampsMatchFrames
  <2>4. /\ total' = total + 1
        /\ f.id \in DOMAIN stamps[s] <=> dropped' = dropped
        /\ dropped' = dropped =>
             \E g \in inFlight[s] : g.id = f.id /\ delay' \in 0 .. g.age
    BY <1>1, <2>2, <2>3, Measured
  <2> QED
    BY <2>3, <2>4
<1>2. ASSUME IInv, [Next]_vars, pc = "idle" PROVE Only
  <2>1. SUFFICES ASSUME total' # total, dropped' = dropped
                 PROVE  \E s \in registered : \E f \in inFlight[s] :
                          Presented(s, f) /\ delay' \in 0 .. f.age
    OBVIOUS
  <2>2. PICK s \in Surfaces, id \in 0 .. MaxId, ago \in 0 .. MaxAge :
          Notify(s, id, ago) /\ \A f \in inFlight[s] : f.id = id => ago <= f.age
    BY <1>2, <2>1, CountedIsPresented
  <2> QED
    BY <1>2, <2>1, <2>2, Measured
<1>3. IInv /\ [Next]_vars => [pc = "idle" => Kept /\ Only]_vars
  BY <1>1, <1>2
<1> QED
  BY <1>3, Invariance, PTL DEF Spec, HostFramesMeasured

(* A frame that is acknowledged while the hooks are there expires          *)
(* predictions, whether or not the frame is known.                         *)
THEOREM ExpirySafety == Spec => FramesExpirePredictions
<1>1. ASSUME IInv, [Next]_vars, total' # total, hooks
      PROVE  \A p \in pending' : p.age <= StaleAfter
  <2>1. PICK s, id, ago : Notify(s, id, ago)
    BY <1>1, CountedIsPresented
  <2> QED
    BY <1>1, <2>1 DEF Notify, Proxy!Reconcile, Proxy!Keep
<1>2. IInv /\ [Next]_vars =>
        [total' # total /\ hooks => \A p \in pending' : p.age <= StaleAfter]_vars
  BY <1>1
<1> QED
  BY <1>2, Invariance, PTL DEF Spec, FramesExpirePredictions

=============================================================================
