------------------------------ MODULE Compositor ------------------------------
(***************************************************************************)
(* The compositor integration: the input hooks of compositor/wl_input.c,   *)
(* which own the global input proxy, surface tracking, which acknowledges  *)
(* frames to it, and the callbacks of compositor/wlroots_glue.c.           *)
(*                                                                         *)
(* A host drives it through compositor.h, or through the glue on wlroots,  *)
(* from one thread: a callback in progress is not interrupted, but time    *)
(* passes in it.                                                           *)
(***************************************************************************)
EXTENDS Naturals

CONSTANTS
  Objects, NoObject, MaxFrame, StaleAfter, CounterSize,
  Surfaces, InitialCapacity, MaxId, MaxAge, MaxPresented, Word,
  Devices,          (* struct wl_input_device pointers                     *)
  NoSurface

ASSUME CompositorAssumption ==
  /\ NoObject \notin Objects /\ NoSurface \notin Surfaces
  /\ MaxFrame \in Nat /\ StaleAfter \in Nat
  /\ CounterSize \in Nat /\ CounterSize >= 2
  /\ InitialCapacity \in Nat \ {0}
  /\ MaxId \in Nat /\ MaxAge \in Nat /\ MaxPresented \in Nat
  /\ Word \in Nat /\ Word > MaxAge

VARIABLES
  \* the global input proxy
  alive, features, parts, pending, nextFrame, predicted, reconciled, heap,
  held, lost,
  \* surface tracking
  registered, lastId, capacity, stamps, total, dropped, delay, inFlight, denied,
  \* wl_input.c
  hooks,            (* g_hooks_initialized                                 *)
  devices,          (* g_input_devices                                     *)
  \* the callback in progress
  pc,               (* "idle", "free", "generate" or "notify"              *)
  surface,          (* the surface frame_done was called for               *)
  shown             (* how long ago frame_done read the clock              *)

Proxy == INSTANCE InputProxy
Surf == INSTANCE SurfaceTracking

proxyVars == <<alive, features, parts, pending, nextFrame, predicted,
               reconciled, heap, held, lost>>
surfaceVars == <<registered, lastId, capacity, stamps, total, dropped, delay,
                 inFlight, denied>>
hookVars == <<hooks, devices>>
callVars == <<pc, surface, shown>>
vars == <<proxyVars, surfaceVars, hookVars, callVars>>

Init ==
  /\ Proxy!Init /\ Surf!Init
  /\ hooks = FALSE /\ devices = {}
  /\ pc = "idle" /\ surface = NoSurface /\ shown = 0

-----------------------------------------------------------------------------
(* wl_input.c *)

(* compositor_hooks_init; the proxy predicts and smooths. *)
HooksInit ==
  /\ pc = "idle" /\ ~hooks
  /\ Proxy!Create(Proxy!Features)
  /\ hooks' = TRUE
  /\ UNCHANGED <<surfaceVars, devices, callVars>>

HooksInitFails(predictor) ==
  /\ pc = "idle" /\ ~hooks
  /\ Proxy!CreateFails(predictor)
  /\ UNCHANGED <<surfaceVars, hookVars, callVars>>

(* Faulty: the devices stay on the list. *)
HooksCleanupKeepsDevices ==
  /\ pc = "idle" /\ hooks
  /\ hooks' = FALSE
  /\ Proxy!Destroy
  /\ UNCHANGED <<surfaceVars, devices, callVars>>

HooksCleanup ==
  /\ pc = "idle" /\ hooks
  /\ hooks' = FALSE /\ devices' = {}
  /\ Proxy!Destroy
  /\ UNCHANGED <<surfaceVars, callVars>>

RegisterDevice(d) ==
  /\ pc = "idle" /\ hooks
  /\ devices' = devices \cup {d}
  /\ UNCHANGED <<proxyVars, surfaceVars, hooks, callVars>>

UnregisterDevice(d) ==
  /\ pc = "idle" /\ hooks
  /\ devices' = devices \ {d}
  /\ UNCHANGED <<proxyVars, surfaceVars, hooks, callVars>>

(* A hook passes the event to the proxy and frees the event it gets back.  *)
(* The device need not be registered.  Buttons change nothing.             *)
InterceptMotion(event) ==
  /\ pc = "idle" /\ hooks
  /\ Proxy!PredictForCaller(event)
  /\ pc' = "free"
  /\ UNCHANGED <<surfaceVars, hookVars, surface, shown>>

(* Faulty: the hook does not ask for the smoothed event. *)
InterceptScrollUnasked(event) ==
  /\ pc = "idle" /\ hooks
  /\ Proxy!SmoothForNobody(event)
  /\ UNCHANGED <<surfaceVars, hookVars, callVars>>

InterceptScroll(event) ==
  /\ pc = "idle" /\ hooks
  /\ Proxy!SmoothForCaller(event)
  /\ pc' = "free"
  /\ UNCHANGED <<surfaceVars, hookVars, surface, shown>>

(* Faulty: the hook returns without freeing the event. *)
FreeEventForgotten(event) ==
  /\ pc = "free"
  /\ event \in held
  /\ pc' = "idle"
  /\ UNCHANGED <<proxyVars, surfaceVars, hookVars, surface, shown>>

FreeEvent(event) ==
  /\ pc = "free"
  /\ Proxy!Release(event)
  /\ pc' = "idle"
  /\ UNCHANGED <<surfaceVars, hookVars, surface, shown>>

-----------------------------------------------------------------------------
(* wl_surface.c *)

RegisterSurface(s) ==
  pc = "idle" /\ Surf!Register(s) /\ UNCHANGED <<proxyVars, hookVars, callVars>>

UnregisterSurface(s) ==
  pc = "idle" /\ Surf!Unregister(s) /\ UNCHANGED <<proxyVars, hookVars, callVars>>

(* A commit, seen by the host or by the glue, generates a frame number. *)
Commit(s) ==
  /\ pc = "idle"
  /\ Surf!Generate(s, TRUE)
  /\ UNCHANGED <<proxyVars, hookVars, callVars>>

(* Faulty: frames are acknowledged only if they were tracked. *)
NotifyTracked(s, id, ago) ==
  /\ Surf!Present(s, id, ago)
  /\ IF hooks /\ id \in DOMAIN stamps[s] THEN Proxy!Reconcile(id)
                                         ELSE UNCHANGED proxyVars

(* compositor_notify_frame_presented. *)
Notify(s, id, ago) ==
  /\ Surf!Present(s, id, ago)
  /\ IF hooks THEN Proxy!Reconcile(id) ELSE UNCHANGED proxyVars

(* The host knows the number of a frame it committed, and when it was      *)
(* shown, which is after the commit; it may say so twice, in any order, or *)
(* for a frame long gone.                                                  *)
HostPresents(s, id) ==
  /\ pc = "idle"
  /\ id <= lastId[s]
  /\ \E ago \in 0 .. MaxAge :
       /\ \A f \in inFlight[s] : f.id = id => ago <= f.age
       /\ Notify(s, id, ago)
  /\ UNCHANGED <<hookVars, callVars>>

-----------------------------------------------------------------------------
(* wlroots_glue.c: handle_surface_frame_done reads the clock, generates a   *)
(* frame number, and presents it.  For a surface that is not registered it *)
(* changes nothing.                                                        *)

FrameDone(s) ==
  /\ pc = "idle" /\ s \in registered
  /\ pc' = "generate" /\ surface' = s /\ shown' = 0
  /\ UNCHANGED <<proxyVars, surfaceVars, hookVars>>

FrameDoneGenerates ==
  /\ pc = "generate"
  /\ Surf!Generate(surface, FALSE)
  /\ pc' = "notify"
  /\ UNCHANGED <<proxyVars, hookVars, surface, shown>>

FrameDoneNotifies ==
  /\ pc = "notify"
  /\ Notify(surface, lastId[surface], shown)
  /\ pc' = "idle" /\ surface' = NoSurface /\ shown' = 0
  /\ UNCHANGED hookVars

-----------------------------------------------------------------------------
Tick ==
  /\ Proxy!Tick /\ Surf!Tick
  /\ shown' = IF pc \in {"generate", "notify"} THEN Surf!Aged(shown) ELSE shown
  /\ UNCHANGED <<hookVars, pc, surface>>

Next ==
  \/ HooksInit \/ HooksCleanup
  \/ \E d \in Devices : RegisterDevice(d) \/ UnregisterDevice(d)
  \/ \E o \in Objects :
       \/ HooksInitFails(o) \/ InterceptMotion(o) \/ InterceptScroll(o)
       \/ FreeEvent(o)
  \/ \E s \in Surfaces :
       \/ RegisterSurface(s) \/ UnregisterSurface(s) \/ Commit(s)
       \/ FrameDone(s)
       \/ \E id \in 0 .. MaxId : HostPresents(s, id)
  \/ FrameDoneGenerates \/ FrameDoneNotifies
  \/ Tick

Spec == Init /\ [][Next]_vars

-----------------------------------------------------------------------------
(* Properties *)

(* Every variable has its type; the hooks are there exactly as long as the *)
(* global proxy is, and so are the devices that point to it.               *)
TypeOK ==
  /\ Proxy!TypeOK /\ Surf!TypeOK
  /\ hooks \in BOOLEAN /\ devices \subseteq Devices
  /\ pc \in {"idle", "free", "generate", "notify"}
  /\ surface \in Surfaces \cup {NoSurface} /\ shown \in 0 .. MaxAge
  /\ hooks <=> alive
  /\ devices # {} => hooks

(* Slots and frames agree whatever surfaces and hosts do: see the property *)
(* of this name in SurfaceTracking.                                        *)
StampsMatchFrames == Surf!StampsMatchFrames

(* The hooks lose no memory: between callbacks the events they were given  *)
(* are freed, and all that is allocated is the proxy's, but for predictors *)
(* lost when the hooks could not be initialised.                           *)
HooksLoseNothing ==
  /\ Proxy!OwnedOnce
  /\ pc # "free" => held = {}

(* Nothing else ever loses memory: the hooks always ask for the event that *)
(* the proxy makes of a motion or a scroll.                                *)
OnlyInitLoses == [][lost' # lost => ~hooks /\ ~hooks']_vars

(* A frame the host commits and then presents is counted: as shown, with a *)
(* delay between zero and the time since its commit, if it has a stamp,    *)
(* which only a surface that once ran out of memory can have denied it.    *)
(* And no presentation of the host counts as shown but that of a frame in  *)
(* flight, which it ends: none does twice (wl_surface.c:117-131).          *)
Presented(s, f) == \A g \in inFlight'[s] : g.id # f.id

HostFramesMeasured ==
  [][pc = "idle" =>
       /\ \A s \in registered \cap registered' : \A f \in inFlight[s] :
            Presented(s, f) =>
              /\ total' = total + 1
              /\ f.id \in DOMAIN stamps[s] \/ s \notin denied =>
                   dropped' = dropped /\ delay' \in 0 .. f.age
       /\ total' # total /\ dropped' = dropped =>
            \E s \in registered : \E f \in inFlight[s] :
              Presented(s, f) /\ delay' \in 0 .. f.age]_vars

(* Each frame acknowledged while the hooks are there, known or not, lets   *)
(* the proxy give up the predictions that are older than a second.         *)
FramesExpirePredictions ==
  [][total' # total /\ hooks => \A p \in pending' : p.age <= StaleAfter]_vars

=============================================================================
