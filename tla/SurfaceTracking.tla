--------------------------- MODULE SurfaceTracking ---------------------------
(***************************************************************************)
(* The surfaces of compositor/wl_surface.c: each numbers its frames, keeps *)
(* the time each was generated in an array that grows with the numbers,    *)
(* and turns a presentation into a latency for the metrics collector.      *)
(*                                                                         *)
(* A time stamp is its age; a slot of the array that is 0 is not in the    *)
(* domain of stamps.  The frame counters are those of a collector that is  *)
(* there all the time (TelescopeSession says when it is).                  *)
(*                                                                         *)
(* This module has the operations; Compositor is the program around them,  *)
(* and states what the constants are.                                      *)
(***************************************************************************)
EXTENDS Naturals

CONSTANTS
  Surfaces,         (* struct wl_surface pointers                          *)
  InitialCapacity,  (* slots of a new array: 64                            *)
  MaxId,            (* bound on the frame ids of a surface                 *)
  MaxAge,           (* bound on ages: an older stamp ages no more          *)
  MaxPresented,     (* bound on the frames counted                         *)
  Word              (* 2^32, the values of a latency                       *)

VARIABLES
  registered,       (* surfaces on the list g_surfaces                     *)
  lastId,           (* frame_id_counter of each                            *)
  capacity,         (* frame_capacity                                      *)
  stamps,           (* frame_timestamps: the age in each slot that is used *)
  total, dropped,   (* frames_total and frames_dropped of the collector    *)
  delay,            (* frame_delay_ms                                      *)
  \* history, for the properties only
  inFlight,         (* frames of a surface generated and not yet presented *)
  denied            (* surfaces that once could not enlarge their array    *)

surfaceVars == <<registered, lastId, capacity, stamps>>
counters == <<total, dropped, delay>>
surfaceHistory == <<inFlight, denied>>

None == [id \in {} |-> 0]       (* an array without a time stamp *)

Init ==
  /\ registered = {}
  /\ lastId = [s \in Surfaces |-> 0]
  /\ capacity = [s \in Surfaces |-> InitialCapacity]
  /\ stamps = [s \in Surfaces |-> None]
  /\ total = 0 /\ dropped = 0 /\ delay = 0
  /\ inFlight = [s \in Surfaces |-> {}]
  /\ denied = {}

(* compositor_register_surface of a surface that is not registered yet. *)
Register(s) ==
  /\ s \notin registered
  /\ registered' = registered \cup {s}
  /\ lastId' = [lastId EXCEPT ![s] = 0]
  /\ capacity' = [capacity EXCEPT ![s] = InitialCapacity]
  /\ stamps' = [stamps EXCEPT ![s] = None]
  /\ UNCHANGED <<counters, surfaceHistory>>

Unregister(s) ==
  /\ s \in registered
  /\ registered' = registered \ {s}
  /\ inFlight' = [inFlight EXCEPT ![s] = {}]
  /\ denied' = denied \ {s}
  /\ UNCHANGED <<lastId, capacity, stamps, counters>>

-----------------------------------------------------------------------------
(* compositor_generate_frame_id *)

(* Faulty: the array grows only when the number is past its end. *)
GrowLate(s, id) ==
  IF id > capacity[s] THEN {capacity[s], 2 * capacity[s]} ELSE {capacity[s]}

(* The capacities with which the stamp may be stored: realloc() can fail,  *)
(* and the code then goes on with the array it has.                        *)
Grow(s, id) ==
  IF id >= capacity[s] THEN {capacity[s], 2 * capacity[s]} ELSE {capacity[s]}

Store(s, id, room) ==
  IF id < room
  THEN [k \in DOMAIN stamps[s] \cup {id} |-> IF k = id THEN 0 ELSE stamps[s][k]]
  ELSE stamps[s]

(* byCommit says whether a commit of the surface asked for the number. *)
Generate(s, byCommit) ==
  /\ s \in registered
  /\ lastId[s] < MaxId
  /\ LET id == lastId[s] + 1
     IN  /\ lastId' = [lastId EXCEPT ![s] = id]
         /\ \E room \in Grow(s, id) :
              /\ capacity' = [capacity EXCEPT ![s] = room]
              /\ stamps' = [stamps EXCEPT ![s] = Store(s, id, room)]
              /\ denied' =
                   IF 2 * capacity[s] \in Grow(s, id) /\ room = capacity[s]
                   THEN denied \cup {s} ELSE denied
         /\ inFlight' = [inFlight EXCEPT ![s] =
                           @ \cup {[id |-> id, age |-> 0, byCommit |-> byCommit]}]
  /\ UNCHANGED <<registered, counters>>

-----------------------------------------------------------------------------
(* compositor_notify_frame_presented, without the reconciliation *)

(* An unsigned subtraction of the time stamps, given their ages. *)
Latency(generated, shown) ==
  IF shown <= generated THEN generated - shown ELSE Word + generated - shown

Clear(s, id) == [k \in DOMAIN stamps[s] \ {id} |-> stamps[s][k]]

(* metrics_record_frame *)
Record(latency, isDropped) ==
  /\ total < MaxPresented
  /\ total' = total + 1
  /\ dropped' = IF isDropped THEN dropped + 1 ELSE dropped
  /\ delay' = latency

(* Faulty: only the stamp of the latest frame is looked up. *)
PresentLatest(s, id, shown) ==
  /\ s \in registered
  /\ IF id \in DOMAIN stamps[s] /\ id = lastId[s]
     THEN /\ Record(Latency(stamps[s][id], shown), FALSE)
          /\ stamps' = [stamps EXCEPT ![s] = Clear(s, id)]
     ELSE /\ Record(0, TRUE)
          /\ UNCHANGED stamps
  /\ inFlight' = [inFlight EXCEPT ![s] = {f \in @ : f.id # id}]
  /\ UNCHANGED <<registered, lastId, capacity, denied>>

(* The host says frame id was shown at a time that is shown ticks ago. *)
Present(s, id, shown) ==
  /\ s \in registered
  /\ IF id \in DOMAIN stamps[s]
     THEN /\ Record(Latency(stamps[s][id], shown), FALSE)
          /\ stamps' = [stamps EXCEPT ![s] = Clear(s, id)]
     ELSE /\ Record(0, TRUE)
          /\ UNCHANGED stamps
  /\ inFlight' = [inFlight EXCEPT ![s] = {f \in @ : f.id # id}]
  /\ UNCHANGED <<registered, lastId, capacity, denied>>

-----------------------------------------------------------------------------
Aged(age) == IF age < MaxAge THEN age + 1 ELSE age

Tick ==
  /\ stamps' = [s \in Surfaces |-> [k \in DOMAIN stamps[s] |-> Aged(stamps[s][k])]]
  /\ inFlight' = [s \in Surfaces |->
                    {[f EXCEPT !.age = Aged(@)] : f \in inFlight[s]}]
  /\ UNCHANGED <<registered, lastId, capacity, counters, denied>>

-----------------------------------------------------------------------------
(* Properties *)

InFlightFrames == [id: 1 .. MaxId, age: 0 .. MaxAge, byCommit: BOOLEAN]

(* Every variable has its type, and no stamp is outside of its array. *)
TypeOK ==
  /\ registered \subseteq Surfaces
  /\ lastId \in [Surfaces -> 0 .. MaxId]
  /\ capacity \in [Surfaces -> Nat \ {0}]
  /\ DOMAIN stamps = Surfaces
  /\ \A s \in Surfaces : \A id \in DOMAIN stamps[s] :
       id \in 0 .. capacity[s] - 1 /\ stamps[s][id] \in 0 .. MaxAge
  /\ total \in 0 .. MaxPresented /\ dropped \in 0 .. total
  /\ delay \in 0 .. Word - 1
  /\ \A s \in Surfaces : inFlight[s] \subseteq InFlightFrames
  /\ denied \subseteq Surfaces

(* The array is right: a slot holds the time of the one frame in flight    *)
(* with this number, whatever was presented twice, late or out of order,   *)
(* and a frame without a slot is on a surface that ran out of memory once. *)
StampsMatchFrames ==
  \A s \in registered :
    /\ \A id \in DOMAIN stamps[s] :
         \E f \in inFlight[s] : f.id = id /\ f.age = stamps[s][id]
    /\ \A f \in inFlight[s] : f.id \in DOMAIN stamps[s] \/ s \in denied
    /\ \A f, g \in inFlight[s] : f.id = g.id => f = g

=============================================================================
