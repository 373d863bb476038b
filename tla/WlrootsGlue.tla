----------------------------- MODULE WlrootsGlue -----------------------------
(***************************************************************************)
(* compositor/wlroots_glue.c: the listeners it hangs on wlroots signals.   *)
(*                                                                         *)
(* A signal is a circular wl_list; its head lives in the backend, a        *)
(* pointer or a surface, which the host creates and destroys, and its      *)
(* other elements are listeners.  The glue has one listener for each kind  *)
(* of signal, in memory that compositor_wlroots_init() allocates and       *)
(* compositor_wlroots_cleanup() frees.  The three signals of a pointer,    *)
(* each with its listener, are treated alike: one stands for them.         *)
(*                                                                         *)
(* The model follows the links.  Once a list operation reads or writes     *)
(* memory that is freed, links.corrupt holds and nothing more is said.     *)
(***************************************************************************)
EXTENDS Naturals, Sequences, FiniteSets

CONSTANTS
  Pointers,         (* struct wlr_pointer addresses                        *)
  Surfaces,         (* struct wlr_surface addresses                        *)
  Backend,
  HostListeners,    (* listeners of the host itself                        *)
  MaxInits,         (* bound on the calls of compositor_wlroots_init       *)
  MaxAttached,      (* bound on registrations of one surface               *)
  NULL

VARIABLES
  links,            (* next and prev of heads and listeners; corrupt       *)
  live,             (* heads whose object exists                           *)
  up, inits,        (* whether g_wlroots_state is set, and how often it was *)
  registered,       (* surfaces the compositor tracks                      *)
  \* history, for the properties only
  attached,         (* by signal: the listeners it should notify, in order *)
  tangled           (* signals whose glue listener was added to a signal   *)
                    (* again, or freed, and such listeners                 *)

vars == <<links, live, up, inits, registered, attached, tangled>>

Kinds == {"new_input", "pointer", "commit"}
Heads == {Backend} \cup Pointers \cup Surfaces
GlueListeners == Kinds \X (1 .. MaxInits)
Nodes == Heads \cup GlueListeners \cup HostListeners

(* Different objects have different addresses. *)
ASSUME GlueAssumption ==
  /\ Backend \notin Pointers \cup Surfaces /\ Pointers \cap Surfaces = {}
  /\ Heads \cap GlueListeners = {}
  /\ HostListeners \cap (Heads \cup GlueListeners) = {}
  /\ NULL \notin Nodes
  /\ MaxInits \in Nat /\ MaxAttached \in Nat

(* The glue's listener of a kind, in the memory it has now. *)
Glue(kind) == <<kind, inits>>

(* The memory of heads and listeners that is not freed. *)
Memory == live \cup HostListeners \cup (IF up THEN Kinds \X {inits} ELSE {})

-----------------------------------------------------------------------------
(* wl_list.  An operation maps links to links. *)

(* wl_list_init of the signal of a new object *)
Empty(ls, head) == [ls EXCEPT !.next[head] = head, !.prev[head] = head]

(* wl_list_insert, assignment by assignment: element may be on a list, and *)
(* may even be inserted behind itself; its old neighbours are not told.    *)
Insert(ls, list, element) ==
  LET pulled == [ls EXCEPT !.prev[element] = list,
                           !.next[element] = ls.next[list]]
      pushed == [pulled EXCEPT !.next[list] = element]
  IN  [pushed EXCEPT !.prev[pushed.next[element]] = element]

(* wl_signal_add: at the end of the list. *)
SignalAdd(ls, head, listener, memory) ==
  LET tail == ls.prev[head]
  IN  IF tail \in memory /\ ls.next[tail] \in memory
      THEN Insert(ls, tail, listener)
      ELSE [ls EXCEPT !.corrupt = TRUE]

(* wl_list_remove: the neighbours meet, and the element's links are cleared. *)
Remove(ls, listener, memory) ==
  LET before == ls.prev[listener]
      after == ls.next[listener]
  IN  IF before \in memory /\ after \in memory
      THEN [ls EXCEPT !.next = [@ EXCEPT ![before] = after, ![listener] = NULL],
                      !.prev = [@ EXCEPT ![after] = before, ![listener] = NULL]]
      ELSE [ls EXCEPT !.corrupt = TRUE]

Init ==
  /\ links = [next |-> [n \in Nodes |-> IF n = Backend THEN n ELSE NULL],
              prev |-> [n \in Nodes |-> IF n = Backend THEN n ELSE NULL],
              corrupt |-> FALSE]
  /\ live = {Backend}
  /\ up = FALSE /\ inits = 0
  /\ registered = {}
  /\ attached = [h \in Heads |-> <<>>]
  /\ tangled = {}

Elements(seq) == {seq[k] : k \in DOMAIN seq}

SignalsOf(listener) == {h \in Heads : listener \in Elements(attached[h])}

IsAttached(listener) == SignalsOf(listener) # {}

Attach(head, listener) ==
  attached' = [attached EXCEPT ![head] = Append(@, listener)]

(* A list without the listeners that are gone. *)
Without(seq, gone) ==
  LET kept == {k \in DOMAIN seq : seq[k] \notin gone}
      rank(k) == Cardinality({j \in kept : j <= k})
  IN  [i \in 1 .. Cardinality(kept) |-> seq[CHOOSE k \in kept : rank(k) = i]]

Detach(listeners) ==
  attached' = [h \in Heads |-> Without(attached[h], listeners)]

Defined == ~links.corrupt

-----------------------------------------------------------------------------
(* The glue *)

(* compositor_wlroots_init with a backend; EBUSY if it is initialised.     *)
GlueInit ==
  /\ Defined /\ ~up /\ inits < MaxInits
  /\ up' = TRUE /\ inits' = inits + 1
  /\ LET listener == <<"new_input", inits + 1>>
     IN  /\ links' = SignalAdd(links, Backend, listener, Memory)
         /\ Attach(Backend, listener)
  /\ UNCHANGED <<live, registered, tangled>>

(* Faulty: no listener is removed. *)
RemoveNone(ls) == ls

RemoveListeners(ls) == Remove(ls, Glue("new_input"), Memory)

(* compositor_wlroots_cleanup: one listener is removed, all are freed.     *)
GlueCleanup ==
  /\ Defined /\ up
  /\ up' = FALSE
  /\ links' = RemoveListeners(links)
  /\ Detach(Kinds \X {inits})
  /\ tangled' = tangled \cup SignalsOf(Glue("pointer"))
                        \cup SignalsOf(Glue("commit"))
  /\ UNCHANGED <<live, inits, registered>>

(* Faulty: a listener that was added before is first taken off its list.   *)
Relink(ls, head, listener, memory) ==
  IF ls.next[listener] = NULL
  THEN SignalAdd(ls, head, listener, memory)
  ELSE SignalAdd(Remove(ls, listener, memory), head, listener, memory)

Link(ls, head, listener, memory) == SignalAdd(ls, head, listener, memory)

(* A glue listener is added to a signal of an object: the signals it is on *)
(* already get entangled with that one, and so does what is added later.   *)
GlueAdds(head, listener, ls) ==
  /\ links' = Link(ls, head, listener, Memory \cup {head})
  /\ Attach(head, listener)
  /\ tangled' = IF IsAttached(listener) \/ {head, listener} \cap tangled # {}
                THEN tangled \cup SignalsOf(listener) \cup {head, listener}
                ELSE tangled

(* A pointer is plugged in.  If the glue is up, the backend's signal calls *)
(* handle_new_input, which adds its listener to the pointer's signals.     *)
PlugPointer(p) ==
  /\ Defined /\ p \notin live
  /\ live' = live \cup {p}
  /\ IF up THEN GlueAdds(p, Glue("pointer"), Empty(links, p))
           ELSE links' = Empty(links, p) /\ UNCHANGED <<attached, tangled>>
  /\ UNCHANGED <<up, inits, registered>>

(* compositor_wlroots_register_surface.  That surface tracking knows the   *)
(* surface already is no error, and the listener is added once more.       *)
RegisterSurface(s) ==
  /\ Defined /\ s \in live /\ Len(attached[s]) < MaxAttached
  /\ registered' = registered \cup {s}
  /\ IF up THEN GlueAdds(s, Glue("commit"), links)
           ELSE UNCHANGED <<links, attached, tangled>>
  /\ UNCHANGED <<live, up, inits>>

(* compositor_unregister_surface leaves the listener where it is. *)
UnregisterSurface(s) ==
  /\ Defined /\ s \in registered
  /\ registered' = registered \ {s}
  /\ UNCHANGED <<links, live, up, inits, attached, tangled>>

-----------------------------------------------------------------------------
(* The host *)

CreateSurface(s) ==
  /\ Defined /\ s \notin live
  /\ live' = live \cup {s}
  /\ links' = Empty(links, s)
  /\ UNCHANGED <<up, inits, registered, attached, tangled>>

(* Before the host destroys an object it takes its own listeners off it,   *)
(* and unregisters a surface.                                              *)
Destroy(head) ==
  /\ Defined /\ head \in live \ registered
  /\ Elements(attached[head]) \cap HostListeners = {}
  /\ live' = live \ {head}
  /\ attached' = [attached EXCEPT ![head] = <<>>]
  /\ UNCHANGED <<links, up, inits, registered, tangled>>

HostAdd(head, listener) ==
  /\ Defined /\ head \in live /\ ~IsAttached(listener)
  /\ links' = SignalAdd(links, head, listener, Memory)
  /\ Attach(head, listener)
  /\ UNCHANGED <<live, up, inits, registered, tangled>>

HostRemove(listener) ==
  /\ Defined /\ IsAttached(listener)
  /\ links' = Remove(links, listener, Memory)
  /\ Detach({listener})
  /\ UNCHANGED <<live, up, inits, registered, tangled>>

(* Anything may happen now: nothing is said of it. *)
Undefined == links.corrupt /\ UNCHANGED vars

Next ==
  \/ GlueInit \/ GlueCleanup
  \/ \E p \in Pointers : PlugPointer(p)
  \/ \E s \in Surfaces :
       RegisterSurface(s) \/ UnregisterSurface(s) \/ CreateSurface(s)
  \/ \E h \in Pointers \cup Surfaces : Destroy(h)
  \/ \E l \in HostListeners : HostRemove(l) \/ \E h \in Heads : HostAdd(h, l)
  \/ Undefined

Spec == Init /\ [][Next]_vars

-----------------------------------------------------------------------------
(* Properties *)

(* wl_signal_emit notifies listeners and comes back to the head, in either *)
(* direction of the links.                                                 *)
Notifies(head, listeners) ==
  LET ring == <<head>> \o listeners
      after == listeners \o <<head>>
  IN  \A k \in DOMAIN ring : /\ links.next[ring[k]] = after[k]
                             /\ links.prev[after[k]] = ring[k]

(* The glue has one listener for all pointers and one for all surfaces.    *)
(* What it ruins by adding one that is on a signal, or by freeing it there, *)
(* is only the signals it is on: all others notify what is attached to     *)
(* them, whatever was plugged, destroyed, registered and initialised again *)
(* before; and freed memory is used only once something is ruined.  The    *)
(* links a listener keeps of an object that is gone do no harm, since      *)
(* adding it only overwrites them.                                         *)
SignalsSoundUnlessTangled ==
  /\ tangled = {} => Defined
  /\ Defined => \A h \in live \ tangled : Notifies(h, attached[h])

(* The backend's signal, the only one that cleanup takes its listener off, *)
(* is sound even then: hot-plugging is noticed while the glue is up.      *)
HotplugSound ==
  Defined => Notifies(Backend, attached[Backend])

=============================================================================
