# Lunar Telescope: specifications and proofs

Lunar Telescope runs a remote-display transport (Waypipe, Sunshine or
Moonlight) as a child process, falls back from one to the next, predicts input
locally and measures frames. It is a C library, driven from one thread by a
command-line program or a compositor. This directory holds TLA+ models of the
parts of it that keep state, TLC configurations that check small instances, and
TLAPS proofs of the results that hold for every size.

1. [The system](#1-the-system)
2. [Modules](#2-modules)
3. [What is model-checked](#3-what-is-model-checked)
4. [Fairness](#4-fairness)
5. [What is proved](#5-what-is-proved)
6. [Where documents and code differ](#6-where-documents-and-code-differ)
7. [What is not modelled](#7-what-is-not-modelled)
8. [Plan](#8-plan)

Paths below are relative to the root of the repository.

## 1. The system

| component | state it keeps | operations | hard behaviour | correct means |
|---|---|---|---|---|
| lens contract (`lenses/lens.h`) | a handle and its operations | create, start, stop, destroy | order of calls, failed starts | a running session has one process, another has none |
| transport lenses (`lenses/lens_{waypipe,sunshine,moonlight}.c`) | `pid`, `running`, argv; a pipe during `start` | the four, through `fork`, `execvp`, `kill`, `waitpid` | parent and child interleave; each system call can fail; EINTR; pid reuse | success means exec; no descriptor, zombie or argv is left; only the own child is signalled |
| session layer (`core/telescope.c`) | the lens, its type, `running` | create, start with fallback, stop, destroy, get_metrics | each candidate fails in its own way; `candidates[8]` | every configured lens is tried once, in order; a session owns a lens exactly while it runs |
| lens selection (`core/profiles.c`) | none | `telescope_select_lens` | none | |
| metrics collector (`core/metrics.c`) | one global `g_collector`, a list of bandwidth samples with running totals | init, cleanup, record, get, flush | shared by all sessions; a sample that cannot be allocated; unsigned windows and counters | belongs to a running session; the totals are those of the samples, the samples those of the window |
| configuration (`core/schema.c`, `core/profiles.c`) | strings, arrays, fallback list, profile | parse, load, free, apply a profile | documents that leave things out; an error or a failed allocation half-way | nothing leaks or crashes; what is executed is what was configured last |
| argument vectors (`build_*_argv()` of the lenses) | an array that doubles | build, free | NULL strings, growth that fails | in bounds; the whole command of the configuration |
| input proxy (`input/input_proxy.c`) | pending predictions, next frame id, smoother, predictor | create, process, reconcile, destroy | who owns an event; lost and repeated acknowledgments; a list without a bound | each event has one owner; the right prediction is resolved, and every one in the end |
| scroll smoother (`input/scroll_smoother.c`), predictor (`rust/input_predictor`) | velocities, last time stamps | process, reset | time steps of zero, decay | bounded, settling output |
| surface tracking (`compositor/wl_surface.c`) | surfaces, each with a frame counter and an array of time stamps | register, unregister, generate, notify presented | the array grows or cannot; presentations out of order, repeated | a slot is the time of the one frame in flight with that id |
| input hooks (`compositor/wl_input.c`) | `g_hooks_initialized`, devices, the global proxy | init, cleanup, register, intercept | life of the proxy that devices and surfaces use | no device outlives the proxy; events are freed |
| wlroots glue (`compositor/wlroots_glue.c`) | one listener per kind of signal | init, cleanup, new input, pointer events, commit, frame done | one listener on several signals; memory freed while linked; ids generated twice | each signal notifies what was added to it; a presentation is that of the committed frame |

How they interact:

- The session layer calls the lens only through `lens_session_*()`
  (`lenses/lens_waypipe.c:311-344`); the process runs beside it and can die at
  any time.
- Sessions, and surface tracking, share the collector `g_collector`.
- The hooks own the global input proxy; surface tracking acknowledges each
  presented frame to it, `compositor_get_global_input_proxy()`.
- The glue calls hooks and surface tracking from callbacks of the host.
- The builders read the strings of the configuration the session was given; the
  forked child passes the result to `execvp()`.

No code takes a lock. What runs concurrently is the child process, the program
in it, signals, the clock, and the host, which calls any operation of any
session, device and surface in any order.

## 2. Modules

    TransportLens            what a lens promises (abstract specification)
      ^ implemented by  LensProcess        fork/exec handshake, stop, destroy
      ^ respected by    TelescopeSession   sessions, fallback, collector
                          EXTENDS LensSelection
    Configuration            load, defaults, presets, release
                               EXTENDS LensSelection
    ConfiguredLaunch         from a configuration to the process image
                               EXTENDS Configuration
    MetricsCollector         counters, frame rate, the bandwidth window
    InputProxy               predictions, ownership of events
    SurfaceTracking          frame ids, time stamps, latency (operations only)
    Compositor               hooks and callbacks; composes InputProxy and
                               SurfaceTracking by INSTANCE
    WlrootsGlue              the links between signals and listeners
    *Proofs                  TLAPS proofs about LensProcess, TelescopeSession,
                               ConfiguredLaunch, MetricsCollector, WlrootsGlue,
                               InputProxy and Compositor (which uses those of
                               InputProxy)
    MC*                      constants and documented claims for TLC

**TransportLens.** `lens[h]` is *absent*, *ready* or *running*, `process[h]`
*none*, *up* or *dead*. A start that fails is a stuttering step: it leaves no
trace. `LensProcess` is shown to implement it (`ImplementsTransportLens`), and
the session layer is shown to use lenses only as it allows
(`UsesLensAsPromised`). `TelescopeSession` relies on nothing else of a lens.

**LensProcess.** The three lenses have one control flow, which differs only in
the arguments they build; the module is that flow for sessions of any of them.
One call is in progress at a time (`pc`, `cur`, `op`), as a thread of the host;
each system call is a step of it. `proc[p]` says where a child is between
`fork()` and its end; `readers`, `writers` and
`parentFds` say which processes hold each end of the handshake pipe, so that `read()` returns end of file
exactly when no one holds a write end. `pipe`, `fcntl`, `fork` and allocation
fail at will (`PipeFails`, `LaunchFails`), `execvp` too, `waitpid` can end with
EINTR, a child can be killed before it executes anything, and an id that has
been reaped can be given to a new child. `owner`, `execed`, `killedEarly` and
`interrupted` are history for the properties.

**TelescopeSession.** One action per stage of `telescope_session_start()`: the
candidate list (selected lens, each fallback, waypipe; repetitions left out; at
most `ArraySize`), then for each candidate create, start and, if that fails,
destroy, then the collector. `stop` and `destroy` stop the lens, destroy it and
clean up the collector whoever made it. `PresentFrame` is
`metrics_record_frame()`. `Wishes(c)` is what a configuration asks for, in order
and with repetitions, the list that `AttemptsFollowPlan` compares the attempts
with. `LensSelection` holds the types of a configuration and
`telescope_select_lens()`.

**InputProxy.** The list of pending predictions is a set of records *(frame,
event, age)*; `UniqueFrames` says why the first match is the only one. Memory is
explicit: `heap` is what is allocated, `held` what callers were given and have
to free, `parts` the smoother and the predictor, `lost` what nobody will free.
Every `malloc()` that succeeds takes an unused object; the alternatives of an
action are the allocations that fail. One action stands for one call of
`input_proxy_process()` or `input_proxy_reconcile()` with its stale cleanup.

**SurfaceTracking** and **Compositor.** `stamps[s]` is the array of time stamps:
a slot that is not zero is in its domain, and holds the age of the stamp. An
allocation that fails leaves the array as it is, as the code does. `Compositor`
adds the hooks, which own the proxy, and the callbacks. Interception is two
steps, the proxy's work and the free of the event. `FrameDone`,
`FrameDoneGenerates`, `FrameDoneNotifies` are the three steps of
`handle_surface_frame_done()`, between which time passes. `inFlight` is history:
the frames generated and not presented.

**MetricsCollector.** The collector while it exists, from `init` to `cleanup`.
`metrics_record_bandwidth()` is a first step that reads the clock and puts a
sample on the list, if it gets memory, a step `RemoveOld` for each sample
outside the window, and `FinishBandwidth`; time may pass in between. Totals,
rates and the start of the window are numbers of the width `Word` and wrap
around as the code's do, the other counters have the width `CounterSize`.
`recorded` (what a collector without a window would have), `starved` (the latest
call got no memory) and `wrapped` are history. Who makes and cleans up the
collector is in `TelescopeSession`, its use by surfaces in `SurfaceTracking`.

**Configuration** and **ConfiguredLaunch.** A document is a function from the
sections it has to the keys it has. The loader checks no type, so a document is
modelled by what json-c's getters return for it, `Returned(key)`: an int, a
boolean, a text or a list of texts, whatever stands in the file. NULL is the
text of a JSON null, and the list of a value that is no list. Each of the five
`parse_*()` functions is an action (`ParseConnection` ... `ParseLens`), `ReadNull`
the crash of any of them at a NULL (a section that is not `Readable`), `Reject`
the `-EINVAL` of the first two, then `ApplyProfile` and `FreeConfig`. `Unsigned` is
what becomes of an int in a `uint32_t` field. `live` counts
heap blocks; any allocation may fail, at most `MaxShortages` of them in a
behaviour, and a write through the pointer that `calloc()` did not return is
`pc = "crashed"`. `BeginArgv` is a builder up to its loop over the application's
arguments, `AppendArg` and `GrowthFails` one turn of the loop, `Exec` the final
NULL, the child's `putenv()`, `chdir()` and `execvp()`, and the release of the
vector. A `chdir()` may fail (`stays`): the child goes on in the directory of its
parent. `NoVector` is the vector of a
builder that has not begun, the word `Missing` one whose `strdup()` failed.
`launched` is history: the words
the program saw, which end at the first NULL, its environment and its directory.

**WlrootsGlue.** The links `next` and `prev` of `wl_list`, followed assignment by
assignment: `Insert` and `Remove` are `wl_list_insert()` and `wl_list_remove()`,
which clears the links of the element it takes out.
`live` and `up` say which heads and listeners are in memory that is not freed; an
operation that touches freed memory sets `links.corrupt`, after which nothing is
said. `attached` and `tangled` are history. `attached` is what the signals should
notify. `tangled` has the signals that the glue's one listener per kind has
ruined: when a listener is added that is on a signal already, the signals it is
on, the one it is added to, and the listener, so that later ones are added; when
it is freed, the signals it is on. The three signals of
a pointer are treated alike and one stands for them. wlroots itself, outside
of the repository, is modelled from how the glue uses it. What the callbacks do when they
are called is in `Compositor`.

Operators whose comment begins with *Faulty* are mistakes the code does not
make. They stand before the definition they could replace, and for each property
one of them has been tried in its place and refutes the property.

## 3. What is model-checked

| run | instance | shows |
|---|---|---|
| `lens_process` | 2 sessions, 3 process ids | no descriptor or argv leak, no inherited pipe end, no foreign pid, success means exec, no untracked child, calls return, the contract of `lens.h` |
| `session_fallback` | 1 session, all 1020 configurations with up to 3 fallbacks | candidates complete, tried in the order of the plan, start returns |
| `session_pair` | 2 sessions that share the collector | ownership of lens and collector, metering, lens never exchanged, lenses used as promised |
| `input_proxy` | 4 objects of heap, frame ids to 3 | ownership, unique frames, expiry, every prediction resolved |
| `compositor` | 4 objects, 1 surface, 1 device, an array of 2 slots that grows | stamps match frames, nothing lost by the hooks, host frames measured, each acknowledgment expires predictions |
| `metrics` | a clock of 5 ticks, 2 of them a second; 4 calls per collector, of 0 or 3 bytes | totals match the samples, samples are the window's, rates are current, readings agree |
| `launch` | 16 documents, 2 loads, 2 failing allocations, a `chdir()` that may fail | no crash without a failed allocation or a null in the document, nothing leaks but by rejected documents, vectors in bounds, what is executed is what was configured last |
| `wlroots_glue` | 2 pointers, 1 surface, 1 listener of the host, 2 initialisations | a glue listener reused or freed while linked ruins no signal but those it is on, all others notify what was added to them; hot-plugging is always noticed |
| `lens_doc_stop`, `session_doc_metrics`, `compositor_doc_latency`, `glue_doc_cleanup` | as above (`lens_doc_stop` with 2 process ids, `session_doc_metrics` with 1 counted frame) | a documented claim that the code does not keep, see section 6 |

Why these bounds are enough to meet the interesting cases:

- *Three process ids for two sessions*: a third session cannot exist, but an
  id can be held by an orphan (EINTR in `waitpid()`), and one must then be left
  to be used again.
- *Three fallbacks*: with four lens types, auto included, a list of three has every relation of a fallback to the primary, to
  waypipe and to another fallback: new, repeated, in any order. Lists of any
  length are covered by the proofs of `CandidatesComplete` and `AttemptsFollowPlan`.
- *Two sessions*: every interference is between the session that made the
  collector and another. `MaxFrames` bounds the frames counted.
- *Four objects*: a proxy with smoother and predictor, an event of the caller and
  its copy; with fewer features, several predictions. `MaxFrame` bounds the frame
  ids of a proxy, `StaleAfter` is the second in ticks, `CounterSize` the width of
  its counters (2^32), so that they wrap around.
- *Two slots and frame ids up to two*: the second id is the first that does not
  fit. Doubling succeeds or fails. `MaxId`, `MaxAge`, `MaxPresented` bound ids,
  ages and counted frames; `Word` is the number of values of a latency, so that
  a negative difference is a huge one.

- *A clock of five ticks* that starts at one or two: the first second, where the
  start of the window wraps around (`Word` is 256), and samples younger, exactly
  as old and older than a window. `MaxCalls` of four lets counters of
  `CounterSize` 3 wrap. Byte counts
  this small do not wrap a word; the proofs cover any width and any count.
- *Sixteen documents* (`MCConfiguredLaunch`) leave out each section and each
  required key, have names that do not exist, a null for a required text, an
  optional one, an element of a list or a list, a negative rate, and empty, short
  and long argument lists. `MaxInt` is 2^19 - 1 in place
  of 2^31 - 1, for the arithmetic of TLC. `InitialSlots` is 12 where the code has 32: the 16 arguments then make
  the vector grow twice. The words before them are at most eleven, which
  `SlotsAssumption` is about. `MaxLoads` of two lets one configuration follow
  another, `MaxShortages` of two lets an allocation fail and a second one behind
  it. `MediaApps` are the executables that automatic selection takes for media.
- *Two pointers*: a listener can be on two signals. `MaxInits` of two lets the
  glue come back in new memory while the old is still linked, `MaxAttached` of two
  lets a surface be registered twice. Of 336,158 states many have one signal
  tangled and others not.

In `compositor`, objects of the heap are symmetric, and pointers are in
`wlroots_glue`: nothing depends on which `malloc()` returned. No liveness is
checked in these runs. Deadlock is checked in all runs but `launch`, where a
crashed program stops.

## 4. Fairness

- `LensProcess`: the host's thread takes its next step if it can, and so does a
  child until it executes the program; a program that was sent SIGTERM exits.
  That is what `stop()` itself relies on: it waits without a timeout. Nothing
  else is fair: no call has to be made, no program has to exit by itself,
  nothing has to fail or be interrupted.
- `TelescopeSession`: the call in progress goes on; the lens operations it
  calls return, which is `CallsReturn` of `LensProcess`.
- `InputProxy`: time passes. That frames are acknowledged is not assumed of the
  program but is the premise of the property `PredictionsResolve`.
- `Compositor`, `MetricsCollector`, `ConfiguredLaunch` and `WlrootsGlue` assume no
  fairness: their properties are safety properties.

## 5. What is proved

The proofs hold for any number of sessions, process ids, fallbacks, frames,
objects, surfaces, devices, samples, documents, arguments, listeners and failing
allocations, and for any width of the counters. They cover the type invariants and
all safety and action properties of the passing runs.

| module | theorems |
|---|---|
| LensProcessProofs | `TypeCorrect`, `DescriptorSafety`, `InheritanceSafety`, `PidSafety`, `HandshakeSafety`, `TrackingSafety`, `Refinement` |
| TelescopeSessionProofs | `TypeCorrect`, `CandidatesCorrect`, `OwnershipSafety`, `CollectorSafety`, `MeteringSafety`, `StabilitySafety`, `ProtocolSafety`, `AttemptsSafety` |
| InputProxyProofs | `TypeCorrect`, `OwnershipSafety`, `FrameSafety`, `ExpirySafety` |
| CompositorProofs | `TypeCorrect`, `StampsSafety`, `HooksSafety`, `LossSafety`, `MeasureSafety`, `ExpirySafety` |
| MetricsCollectorProofs | `TypeCorrect`, `WindowKept`, `RatesCurrent`, `TotalsExact`, `ReadingsAgree` |
| ConfiguredLaunchProofs | `TypeCorrect`, `ArgvBounded`, `NoCrashUnlessShort`, `Balance`, `NoLeak`, `Faithful` |
| WlrootsGlueProofs | `Invariance`, `SignalsSafety`, `HotplugSafety` |

Each module proves of an inductive invariant, `IInv`, that it holds initially and
that every step preserves it (lemma `Inductive`, one step per action), and
concludes that it always holds; the theorems follow from it.

- *LensProcess.* The properties speak of the moments between calls, or of one
  variable, so none is inductive. `CallInv` says, for each `pc`, what the call in
  progress has open; `ChildInv` who the child of a call is and what it holds;
  `PipeInv` ties the report in the pipe to the state of the child; `SessionInv`
  ties `pid` to processes; `TrackInv` accounts for every child. The refinement
  maps an unfinished start to *ready*: only `ReadEof` makes it *running*. Its
  lemma `HiddenStutters` disposes of all actions the contract does not see.
- *TelescopeSession.* `ListInv` says, while the list is built, which
  configured lenses it already has. That the list never loses one to the end of
  the array is lemma `FullListIsComplete`: the entries are different and there
  are only so many lens types, so a full list has them all. `MeterInv` says which
  session can own the collector; `RestInv`, that nothing is left between calls.
  `AttemptsFollowPlan` needs `OrderInv` as well: each candidate is the first wish
  that no candidate before it is (`Ordered`), and the lenses tried are a prefix of
  the candidates. `AddOrdered` says that the stages of building the list keep
  it in order, the ones that find it full included: then it already has
  everything that is still wished for.
- *InputProxy.* `OwnedOnce` and `UniqueFrames` are inductive together with
  `GoneInv` (a proxy that is gone has nothing). Lemmas `TrackKeeps` and
  `KeepKeeps` say what adding to and removing from the list preserve.

- *Compositor.* `IInv` is the conjunction of the proxy's own `IInv`, taken from
  `InputProxyProofs` by INSTANCE, of `SurfInv` and of `HookInv`. Each operation on
  the proxy is shown to be one of `InputProxy`, so the lemma `Inductive` of
  that module carries over; the acknowledgment of a frame number that is no
  prediction's needs its lemma `KeepKeeps`. `StampsMatchFrames` needs `FramesInv`:
  a frame in flight has a number that was given out, so the next one is new, and
  a surface that was never denied memory has a slot for every number so far.
  `HookInv` says that a callback in progress holds exactly the event it will
  free. `HostFramesMeasured` has two directions. `EndOfFlight` says that only a
  presentation ends a flight while the surface is registered, so a frame that is no
  longer in flight was presented, and by `StampsMatchFrames` its slot has its age, so
  it is counted as shown;
  `CountedIsPresented` disposes of all steps that are no presentation.
- *MetricsCollector.* `KeptIsWindow` speaks of the end of a call. While the list is
  swept, `SweepInv` says that it still has every sample inside the window, and only
  samples that the sweep before kept or the new one; `HistoryInv`, that the clock
  did not run backwards, so what was dropped once stays outside. `EarlyInv` is
  about the first second: no sample stays, so no rate is made of one, and
  `RatesCurrent` needs no sums. `ReadingsAgree` has an invariant of its own,
  `ReadingInv`. `TotalsExact` is about the sum of the bytes over a finite set.
  What a sum gains or loses by one sample is proved by a minimal counterexample:
  of the sets that would refute it, one has the fewest elements, since the sizes are
  well-founded (`WFMin`), and taking an element from it leaves a smaller one.
- *ConfiguredLaunch.* For `ArgvInBounds`: the words before the arguments are at
  most eleven, so they fit the first array, and doubling a full one leaves room.
  For `CrashOnlyIfShortOrNull`: `CleanInv` says that while no allocation has failed
  each string a builder reads without looking is there, since a section that was
  parsed was readable. `Gathered` says so of a
  configuration half loaded, by its stage, with `Linked` for the connection and
  `Runnable` for the application. `NoLeakUnlessRejected` needs `BalanceInv`: every
  live block belongs to the configuration, to the vector under construction or to what
  rejected documents left behind. The first is a number for each
  section, zero before its section is parsed (`Unparsed`), so that each `parse_*()`
  is a lemma that adds the blocks it got, and `FreeConfig` takes what they are all
  together (`HeldIsNat`). For `LaunchAsConfigured`, `AskedInv` says that as long as
  no allocation failed, what is loaded is what the document and the profile ask for
  (`Asked`), and that the words of a builder are the beginning of the image this
  makes (`Spelt`). The image is a concatenation; how it grows by a turn
  of the loop is `ImageStep`. The theorem's invariant is `Sound`, the conjunction
  of the three.
- *WlrootsGlue.* The invariant speaks of each signal apart, since others may be in
  any state. Of one that is not tangled, following the links of its head meets what
  was attached to it, in order (`Ring`), and no link of other memory leads into that
  ring (`Clear`). An exception are listeners the glue may still add to a signal
  without harm (`Loose`): they may have links of an object that is gone, which
  adding them overwrites, and nothing else leads to them (`Alone`). A listener of
  the host may be on a ruined signal, and is reached only by the links it answers
  (`Answered`). `AddOrderly` and `RemoveOrderly` say that `wl_signal_add()` and
  `wl_list_remove()` keep all of this, whatever the signal they are applied to has
  become; they follow from lemmas on links inside and outside a ring. What removing
  elements does to a ring is proved from the positions that stay (`Rank`).
  `SignalsSafety` is then about every signal that is not tangled, and `HotplugSafety`
  follows from it because nothing ever tangles the backend's. No theorem says
  anything of a tangled signal but that its damage stays there, and outputs, which
  the glue does nothing with, are not in the model.

The assumptions are those on the constants, and TLC evaluates them in the runs:
`NullAssumption` (NULL is not a session or pid), `SessionAssumption` (the array
of candidates holds at least as many entries as there are lens types; the code
has 8 and 4), `ProxyAssumption` and `CompositorAssumption` (NULL is no object or
surface, bounds are numbers, a word holds an age), `MetricsAssumption` (a second
and the clock fit into a word), `DocumentAssumption` (the values of a document are
what json-c's getters can return), `NullAssumption` of `Configuration` (NULL is no
string, number or list, nor the name of a profile or a default), `IntAssumption` (an
int is wider than a port), `SlotsAssumption` (the first array has 12 slots or more) and
`GlueAssumption` (pointers, surfaces and the backend, the glue's listeners, the
host's, and NULL are different things; bounds are numbers).

`DocumentAssumption` leaves no document out: a document of other JSON types than
the schema's is one whose getters return something else, a null among them. That
such a document can crash the loader is said by `CrashOnlyIfShortOrNull` itself.

Only model-checked: liveness (`CallsReturn` twice, `PredictionsResolve`), since the
prover has no rule for fairness and ENABLED here.

## 6. Where documents and code differ

- `lens_doc_stop`: `docs/CLARIFICATIONS.md:77` says stop terminates the process.
  When a signal interrupts `waitpid()`, stop forgets a process that is still
  alive. `NoUntrackedChild` is what does hold.
- `session_doc_metrics`: `core/telescope.h:196` says the metrics are those of the
  current session. With two sessions they may be the other's, or nobody's.
  `MeteredUnlessShared` is what does hold.
- `compositor_doc_latency`: `docs/CLARIFICATIONS.md:121-123` has a latency run
  from the commit to the presentation of a frame. The frame-done callback
  generates a new number and presents that. For a host that presents the number
  its commit got, `HostFramesMeasured` does hold.
- `glue_doc_cleanup`: the comments at `compositor/wl_surface.c:88` and
  `compositor/wl_input.c:125` say that `compositor_wlroots_cleanup()` cleans up the
  callbacks. It takes one listener of five off its signal and frees all.
  `SignalsSoundUnlessTangled` and `HotplugSound` are what does hold.

Read from the code, without a run of their own:

- `docs/SSOT.md:50` says start succeeds only if `execvp()` does. A child killed
  between `fork()` and `execvp()` closes the pipe without a report, which start
  reads as success (`killedEarly` in `LensProcess`). `StartMeansExec` does hold.
- The comment at `core/telescope.c:89` says waypipe is always last. It is not if it
  was selected, or listed before another; `AttemptsFollowPlan` does hold.
- A `profile` in a document is stored, but its preset is not applied
  (`core/schema.c:121-172`): only `telescope_config_apply_profile()` does that, and
  only tests call it. `LaunchAsConfigured` compares the command with the document
  or with the profile applied last.
- `ssh_key_path` and `bandwidth_limit` never reach a command, and `remote_port` does
  not reach that of waypipe. The default port 22 reaches those of Sunshine and
  Moonlight as `--port`.
- A fallback `"auto"` or of an unknown name becomes waypipe, the lens numbered zero.
- Pointers and surfaces share the glue's one listener of their kind, so a second
  one cuts the first's signal (`tangled` in `WlrootsGlue`): no property says that it
  does not. `SignalsSoundUnlessTangled` says that nothing else is hurt.
- `docs/CLARIFICATIONS.md:117-124` has a frame id link input to the frame it
  affects, and its presentation trigger the reconciliation of that id. A frame
  number acknowledged to the proxy is a surface's, which is counted apart from those
  of predictions; the proxy resolves the prediction that happens to have it
  (`compositor/wl_surface.c:139`). `UniqueFrames` is about the proxy's own ids.
- `core/telescope.h:137`, `docs/ARCHITECTURE.md:251` and `IMPLEMENTATION_STATUS.md:63`
  document `bandwidth_rx_bps` and `bandwidth_tx_bps` as bytes per second. The code
  (`core/metrics.c:202-206`) multiplies by eight: they are bits per second. `Rate` is
  what the code computes. `StaleOnlyIfStarved` says that rates are current, in that
  unit; it is no evidence for the documented one.
- In all three lenses the child ignores a `chdir()` that fails and executes the
  program in the directory of the parent (`lenses/lens_waypipe.c:187-191`), and
  start succeeds. The comment there expects `execvp()` to fail next, but it finds
  the transport through PATH in any directory. `LaunchAsConfigured` speaks of the
  directory only if `chdir()` succeeded.
- A negative `frame_rate` becomes a huge number in its `uint32_t`
  (`core/schema.c:148`), which Sunshine and Moonlight are given as `--fps`.
- A JSON null, or a value that is no list where a list is read, crashes the loader:
  `strdup()`, `strcmp()` and `strlen()` are given what the getter returned
  (`core/schema.c:22`, `:80`, `:100`, `:126`), and `json_object_array_length()` and
  the loop over `env` what stands in the file (`:74`, `:89`).

## 7. What is not modelled

- The scroll smoother and the predictor (`input/scroll_smoother.c`,
  `rust/input_predictor`): floating-point arithmetic over one caller's record. No
  control depends on its results, and TLA+ has no floating-point numbers; a model
  over scaled integers would be one of another program. Who makes and frees them
  is in `InputProxy`.
- json-c, libc and wlroots, but for what the code uses of them. A document that
  cannot be read: the load then changes nothing.
- Input coordinates, log messages and the lines of the metrics file: what is kept
  does not depend on them.
- `compositor_intercept_button()`, `metrics_collector_get()`, `_flush()` and
  `*_get_*()`: they change nothing that is kept.
- Logging, string helpers, scripts, the JSON schema, build and tests.
- Out of memory for the small list entries of devices and surfaces: the
  operation then changes nothing.
- Calls from several threads: the code has no locks and documents no such use.

## 8. Plan

Done: the lenses with their contract, sessions, the configuration and what it
makes of a command, the collector, the input proxy, surface tracking with the hooks,
and the links of the glue; proofs of every safety and action property that is
checked of them.

Next, in this order:

1. An abstract latency meter that `Compositor` implements for hosts that present
   the frames they commit, with the refinement proved.
2. `TelescopeSession` with `MetricsCollector` in place of its frame count, so that a
   reading of one session's window over another's samples is a state of the model.
