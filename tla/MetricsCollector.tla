-------------------------- MODULE MetricsCollector --------------------------
(***************************************************************************)
(* The metrics collector of core/metrics.c while it exists: the counters   *)
(* of frames and input events, the frame rate, and the bandwidth over a    *)
(* window of one second, kept as a list of samples with running totals.    *)
(* When sessions make and clean up the collector is TelescopeSession.      *)
(*                                                                         *)
(* The list is a set: its order, newest first, decides nothing.  A sample  *)
(* is told from others by the call that made it.  What is only stored and  *)
(* handed out again (latencies, the file) is left out; flush and get read. *)
(***************************************************************************)
EXTENDS Integers, FiniteSets, Folds

CONSTANTS
  Word,             (* 2^64, the values of times, byte counts and rates    *)
  CounterSize,      (* 2^32, the values of the other counters              *)
  Second,           (* ticks of the clock in a second, 10^6                *)
  Sizes,            (* the byte counts that are reported                   *)
  StartTimes,       (* what CLOCK_MONOTONIC may show at first              *)
  MaxTime,          (* bound on the clock                                  *)
  MaxCalls          (* bound on the calls a collector gets                 *)

ASSUME MetricsAssumption ==
  /\ Word \in Nat /\ CounterSize \in Nat \ {0}
  /\ Second \in Nat \ {0} /\ Second < Word
  /\ MaxTime \in Nat /\ MaxTime < Word
  /\ StartTimes \subseteq 1 .. MaxTime
  /\ Sizes \subseteq 0 .. Word - 1
  /\ MaxCalls \in Nat

VARIABLES
  now,              (* CLOCK_MONOTONIC                                     *)
  \* struct metrics_collector
  up,               (* whether g_collector is not NULL                     *)
  frames, dropped, fps, lastFrame,
  events, predicted, reconciled,
  samples, count,   (* bandwidth_samples and bandwidth_sample_count        *)
  totalRx, totalTx,
  rateRx, rateTx,
  last,             (* bandwidth_last_update_us                            *)
  \* metrics_record_bandwidth in progress
  pc, at,           (* at: its now_us                                      *)
  \* history, for the properties only
  calls,            (* recordings of this collector                        *)
  recorded,         (* samples it could allocate                           *)
  starved,          (* whether the latest bandwidth call could allocate none *)
  wrapped           (* whether a counter has wrapped around                *)

frameVars == <<frames, dropped, fps, lastFrame>>
eventVars == <<events, predicted, reconciled>>
listVars == <<samples, count, totalRx, totalTx>>
rateVars == <<rateRx, rateTx, last>>
vars == <<now, up, frameVars, eventVars, listVars, rateVars, pc, at, calls,
          recorded, starved, wrapped>>

Window == Second        (* bandwidth_window_us *)

Init ==
  /\ now \in StartTimes
  /\ up = FALSE
  /\ frames = 0 /\ dropped = 0 /\ fps = 0 /\ lastFrame = 0
  /\ events = 0 /\ predicted = 0 /\ reconciled = 0
  /\ samples = {} /\ count = 0 /\ totalRx = 0 /\ totalTx = 0
  /\ rateRx = 0 /\ rateTx = 0 /\ last = 0
  /\ pc = "idle" /\ at = 0
  /\ calls = 0 /\ recorded = {} /\ starved = FALSE /\ wrapped = FALSE

(* metrics_collector_init with metrics enabled and memory for it; with a   *)
(* collector there already it is EBUSY.  metrics_collector_cleanup has     *)
(* freed the samples of the one before.                                    *)
CollectorInit ==
  /\ ~up
  /\ up' = TRUE
  /\ UNCHANGED <<now, frameVars, eventVars, listVars, rateVars, pc, at, calls,
                 recorded, starved, wrapped>>

(* What calloc() makes of the next collector. *)
ClearCounters ==
  /\ frames' = 0 /\ dropped' = 0 /\ fps' = 0 /\ lastFrame' = 0
  /\ events' = 0 /\ predicted' = 0 /\ reconciled' = 0
  /\ samples' = {} /\ count' = 0 /\ totalRx' = 0 /\ totalTx' = 0
  /\ calls' = 0 /\ recorded' = {} /\ starved' = FALSE /\ wrapped' = FALSE

ClearRates == rateRx' = 0 /\ rateTx' = 0 /\ last' = 0

CollectorCleanup ==
  /\ up /\ pc = "idle"
  /\ up' = FALSE
  /\ ClearCounters /\ ClearRates
  /\ UNCHANGED <<now, pc, at>>

Recording == up /\ pc = "idle" /\ calls < MaxCalls /\ calls' = calls + 1

(* Faulty: the counters are taken to have no width. *)
CountWide(counter, if) == IF if THEN counter + 1 ELSE counter

Count(counter, if) == IF if THEN (counter + 1) % CounterSize ELSE counter

-----------------------------------------------------------------------------
(* metrics_record_frame *)

(* Faulty: the first frame is measured against a time stamp of zero. *)
FrameRateAlways ==
  IF now > lastFrame THEN Second \div (now - lastFrame) ELSE fps

(* Whole frames per second over the time since the frame before; of two    *)
(* frames at the same time the second leaves the rate as it was.           *)
FrameRate ==
  IF lastFrame > 0 /\ now > lastFrame THEN Second \div (now - lastFrame)
                                      ELSE fps

RecordFrame(drop) ==
  /\ Recording
  /\ frames' = Count(frames, TRUE)
  /\ dropped' = Count(dropped, drop)
  /\ fps' = FrameRate
  /\ lastFrame' = now
  /\ wrapped' = (wrapped \/ frames' = 0)
  /\ UNCHANGED <<now, up, eventVars, listVars, rateVars, pc, at, recorded,
                 starved>>

(* metrics_record_input_event *)
RecordInputEvent(wasPredicted, wasReconciled) ==
  /\ Recording
  /\ events' = Count(events, TRUE)
  /\ predicted' = Count(predicted, wasPredicted)
  /\ reconciled' = Count(reconciled, wasReconciled)
  /\ wrapped' = (wrapped \/ events' = 0)
  /\ UNCHANGED <<now, up, frameVars, listVars, rateVars, pc, at, recorded,
                 starved>>

-----------------------------------------------------------------------------
(* metrics_record_bandwidth *)

(* Faulty: bytes are counted although there is no sample for them. *)
BeginBandwidthUncounted(rx, tx) ==
  /\ Recording
  /\ \/ /\ LET sample == [call |-> calls, time |-> now, rx |-> rx, tx |-> tx]
           IN  /\ samples' = samples \cup {sample}
               /\ recorded' = recorded \cup {sample}
        /\ count' = count + 1
        /\ starved' = FALSE
     \/ /\ starved' = TRUE
        /\ UNCHANGED <<samples, count, recorded>>
  /\ totalRx' = (totalRx + rx) % Word
  /\ totalTx' = (totalTx + tx) % Word
  /\ pc' = "sweep" /\ at' = now
  /\ UNCHANGED <<now, up, frameVars, eventVars, rateVars, wrapped>>

(* The clock is read, then a sample allocated, or not, and put on the list. *)
BeginBandwidth(rx, tx) ==
  /\ Recording
  /\ \/ /\ LET sample == [call |-> calls, time |-> now, rx |-> rx, tx |-> tx]
           IN  /\ samples' = samples \cup {sample}
               /\ recorded' = recorded \cup {sample}
        /\ count' = count + 1
        /\ totalRx' = (totalRx + rx) % Word
        /\ totalTx' = (totalTx + tx) % Word
        /\ starved' = FALSE
     \/ /\ starved' = TRUE
        /\ UNCHANGED <<listVars, recorded>>
  /\ pc' = "sweep" /\ at' = now
  /\ UNCHANGED <<now, up, frameVars, eventVars, rateVars, wrapped>>

(* window_start_us, an unsigned difference: in the first second of the     *)
(* clock it is later than any time.                                        *)
WindowStart == (at - Window + Word) % Word

(* Faulty: a sample exactly as old as the window is removed, too. *)
IsOldEarly(sample) == sample.time <= WindowStart

IsOld(sample) == sample.time < WindowStart

(* Faulty: the sample's bytes sent stay in the total. *)
RemoveOldForgetsTx(sample) ==
  /\ pc = "sweep"
  /\ IsOld(sample)
  /\ samples' = samples \ {sample}
  /\ count' = count - 1
  /\ totalRx' = (totalRx - sample.rx) % Word
  /\ UNCHANGED <<now, up, frameVars, eventVars, totalTx, rateVars, pc, at,
                 calls, recorded, starved, wrapped>>

(* One sample outside the window is unlinked and freed. *)
RemoveOld(sample) ==
  /\ pc = "sweep"
  /\ IsOld(sample)
  /\ samples' = samples \ {sample}
  /\ count' = count - 1
  /\ totalRx' = (totalRx - sample.rx) % Word
  /\ totalTx' = (totalTx - sample.tx) % Word
  /\ UNCHANGED <<now, up, frameVars, eventVars, rateVars, pc, at, calls,
                 recorded, starved, wrapped>>

(* Bits per second, as metrics.c:202-206 has it, where telescope.h:137     *)
(* documents bytes: the product wraps around, the quotient does not.       *)
Rate(bytes) == ((bytes * 8 * Second) % Word) \div Window

(* Faulty: the rates are those of a window with more than one sample. *)
FinishBandwidthLate ==
  /\ pc = "sweep"
  /\ \A sample \in samples : ~IsOld(sample)
  /\ rateRx' = IF count > 1 THEN Rate(totalRx) ELSE rateRx
  /\ rateTx' = IF count > 1 THEN Rate(totalTx) ELSE rateTx
  /\ last' = at
  /\ pc' = "idle" /\ at' = 0
  /\ UNCHANGED <<now, up, frameVars, eventVars, listVars, calls, recorded,
                 starved, wrapped>>

(* Only old samples are gone; the rates are new if a sample is left.       *)
FinishBandwidth ==
  /\ pc = "sweep"
  /\ \A sample \in samples : ~IsOld(sample)
  /\ rateRx' = IF count > 0 THEN Rate(totalRx) ELSE rateRx
  /\ rateTx' = IF count > 0 THEN Rate(totalTx) ELSE rateTx
  /\ last' = at
  /\ pc' = "idle" /\ at' = 0
  /\ UNCHANGED <<now, up, frameVars, eventVars, listVars, calls, recorded,
                 starved, wrapped>>

Tick ==
  /\ now < MaxTime
  /\ now' = now + 1
  /\ UNCHANGED <<up, frameVars, eventVars, listVars, rateVars, pc, at, calls,
                 recorded, starved, wrapped>>

Next ==
  \/ CollectorInit \/ CollectorCleanup
  \/ \E drop \in BOOLEAN : RecordFrame(drop)
  \/ \E p, r \in BOOLEAN : RecordInputEvent(p, r)
  \/ \E rx, tx \in Sizes : BeginBandwidth(rx, tx)
  \/ \E sample \in samples : RemoveOld(sample)
  \/ FinishBandwidth
  \/ Tick

Spec == Init /\ [][Next]_vars

-----------------------------------------------------------------------------
(* Properties *)

Counters == 0 .. CounterSize - 1
Words == 0 .. Word - 1
Samples == [call : 0 .. MaxCalls - 1, time : 1 .. MaxTime, rx : Sizes, tx : Sizes]

(* Every variable has its type; no counter leaves its width.               *)
TypeOK ==
  /\ now \in 1 .. MaxTime /\ up \in BOOLEAN
  /\ frames \in Counters /\ dropped \in Counters
  /\ fps \in 0 .. Second /\ lastFrame \in 0 .. MaxTime
  /\ events \in Counters /\ predicted \in Counters /\ reconciled \in Counters
  /\ samples \subseteq Samples /\ count \in Int
  /\ totalRx \in Words /\ totalTx \in Words
  /\ rateRx \in Words /\ rateTx \in Words
  /\ last \in 0 .. MaxTime
  /\ pc \in {"idle", "sweep"} /\ at \in 0 .. MaxTime
  /\ calls \in 0 .. MaxCalls
  /\ recorded \subseteq Samples
  /\ starved \in BOOLEAN /\ wrapped \in BOOLEAN

(* The bytes, received or sent as key says, of the samples in S.           *)
Add(m, n) == m + n
Bytes(key, S) == MapThenFoldSet(Add, 0, LAMBDA s : s[key],
                                LAMBDA T : CHOOSE s \in T : TRUE, S)

(* The running totals and the number of samples are those of the samples   *)
(* on the list, whatever was added, removed or not allocated: they are     *)
(* never recomputed, so one slip would stay for good.                      *)
TotalsMatchSamples ==
  /\ count = Cardinality(samples)
  /\ totalRx = Bytes("rx", samples) % Word
  /\ totalTx = Bytes("tx", samples) % Word

(* After each call the list has exactly the samples of this collector that *)
(* are at most a window old, but none of the first second of the clock,    *)
(* where the start of the window is a wrapped-around time.                 *)
KeptIsWindow ==
  pc = "idle" =>
    samples = {s \in recorded : s.time >= Window /\ s.time + Window >= last}

(* The rates are as recent as the totals: both are of the samples on the   *)
(* list, unless the latest call could not allocate one, when an empty      *)
(* window leaves the rates it found.  Their unit is the one the code uses, *)
(* bits per second; the documented one is bytes (telescope.h:137).         *)
StaleOnlyIfStarved ==
  pc = "idle" /\ ~starved => rateRx = Rate(totalRx) /\ rateTx = Rate(totalTx)

(* What a reading says agrees with itself while no counter has wrapped: no *)
(* more frames dropped than presented, no more events predicted or         *)
(* reconciled than there were, a frame rate only after a second frame.     *)
ReadingAgrees ==
  ~wrapped => /\ dropped <= frames
              /\ predicted <= events /\ reconciled <= events
              /\ fps > 0 => frames >= 2

=============================================================================
