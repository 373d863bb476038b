------------------------ MODULE MetricsCollectorProofs ------------------------
(***************************************************************************)
(* Theorems of MetricsCollector, for any width of its counters, any clock  *)
(* and any byte counts.                                                    *)
(***************************************************************************)
EXTENDS MetricsCollector, FiniteSetTheorems, WellFoundedInduction, TLAPS

(***************************************************************************)
(* Arithmetic with a width.                                                *)
(***************************************************************************)
LEMMA ModRange ==
  ASSUME NEW n \in Nat \ {0}, NEW x \in Int PROVE x % n \in 0 .. n - 1
  OBVIOUS

LEMMA ModSmall ==
  ASSUME NEW n \in Nat \ {0}, NEW x \in 0 .. n - 1 PROVE x % n = x
  OBVIOUS

(* A remainder taken early makes no difference to a sum. *)
LEMMA ModOfQuotient ==
  ASSUME NEW n \in Nat \ {0}, NEW q \in Int, NEW r \in 0 .. n - 1
  PROVE  (n * q + r) % n = r
  OBVIOUS

LEMMA ModSum ==
  ASSUME NEW n \in Nat \ {0}, NEW x \in Int, NEW y \in Int
  PROVE  ((x % n) + y) % n = (x + y) % n
<1> DEFINE r == x % n
           q == x \div n
           s == (r + y) % n
           t == (r + y) \div n
<1>1. r \in 0 .. n - 1 /\ q \in Int /\ x = n * q + r
  OBVIOUS
<1> HIDE DEF r, q
<1>2. s \in 0 .. n - 1 /\ t \in Int /\ r + y = n * t + s
  BY <1>1
<1> HIDE DEF s, t
<1>3. x + y = n * (q + t) + s
  BY <1>1, <1>2
<1>4. (n * (q + t) + s) % n = s
  BY <1>1, <1>2, ModOfQuotient
<1> QED
  BY <1>3, <1>4 DEF s, r

LEMMA ModNext ==
  ASSUME NEW n \in Nat \ {0}, NEW x \in 0 .. n - 1
  PROVE  (x + 1) % n = IF x + 1 = n THEN 0 ELSE x + 1
  OBVIOUS

LEMMA ModWrap ==
  ASSUME NEW n \in Nat \ {0}, NEW x \in 0 .. n - 1 PROVE (x + n) % n = x
  OBVIOUS

LEMMA DivRange ==
  ASSUME NEW d \in Nat \ {0}, NEW x \in Nat PROVE x \div d \in 0 .. x
  OBVIOUS

LEMMA DivZero ==
  ASSUME NEW d \in Nat \ {0} PROVE 0 \div d = 0
  OBVIOUS

(* A rate has the width of a word, and no bytes have the rate zero. *)
LEMMA RateType ==
  ASSUME NEW bytes \in Words
  PROVE  Rate(bytes) \in Words
<1> DEFINE product == (bytes * 8 * Second) % Word
<1>1. product \in 0 .. Word - 1
  <2>1. bytes \in Int /\ 8 \in Int /\ Second \in Int
    BY MetricsAssumption DEF Words
  <2>2. \A m, n \in Int : m * n \in Int
    OBVIOUS
  <2>3. bytes * 8 * Second \in Int
    BY ONLY <2>1, <2>2
  <2> HIDE DEF product
  <2>4. product = (bytes * 8 * Second) % Word
    BY DEF product
  <2>5. ASSUME NEW x \in Int PROVE x % Word \in 0 .. Word - 1
    BY MetricsAssumption, ModRange
  <2> QED
    BY <2>3, <2>4, <2>5
<1>2. Rate(bytes) = product \div Second
  BY DEF Rate, Window
<1> HIDE DEF product
<1>3. product \div Second \in 0 .. product
  BY <1>1, MetricsAssumption, DivRange
<1> QED
  BY <1>1, <1>2, <1>3, MetricsAssumption DEF Words

LEMMA RateZero == Rate(0) = 0
<1> USE MetricsAssumption
<1>1. 0 * 8 * Second = 0
  OBVIOUS
<1>2. 0 % Word = 0
  BY ModSmall
<1> QED
  BY <1>1, <1>2, DivZero DEF Rate, Window

(* A counter keeps its width; it counts unless it wraps around to zero. *)
LEMMA CountType ==
  ASSUME NEW counter \in Counters, NEW if \in BOOLEAN
  PROVE  /\ Count(counter, if) \in Counters
         /\ Count(counter, if) # 0 => Count(counter, if) = counter + IF if THEN 1 ELSE 0
         /\ Count(counter, if) <= counter + IF if THEN 1 ELSE 0
  BY MetricsAssumption, ModNext DEF Counters, Count

LEMMA FrameRateType ==
  ASSUME TypeOK
  PROVE  FrameRate \in 0 .. Second
<1> USE MetricsAssumption DEF TypeOK
<1>1. CASE lastFrame > 0 /\ now > lastFrame
  <2>1. now - lastFrame \in Nat \ {0}
    BY <1>1
  <2>2. Second \div (now - lastFrame) \in 0 .. Second
    BY <2>1, DivRange
  <2> QED
    BY <1>1, <2>2 DEF FrameRate
<1>2. CASE ~(lastFrame > 0 /\ now > lastFrame)
  BY <1>2 DEF FrameRate
<1> QED
  BY <1>1, <1>2

(***************************************************************************)
(* Bytes, which folds a finite set of samples in an order nobody knows, is *)
(* the sum its name says.  The induction over the set is an argument from  *)
(* a least counterexample: strict inclusion is well-founded on the subsets *)
(* of a finite set.                                                        *)
(***************************************************************************)
LEMMA LeastSubset ==
  ASSUME NEW S, IsFiniteSet(S), NEW Bad \in SUBSET SUBSET S, Bad # {}
  PROVE  \E T \in Bad : \A U \in SUBSET T : U # T => U \notin Bad
<1>1. IsWellFoundedOn(StrictSubsetOrdering(S), SUBSET S)
  BY FS_FiniteSubsetsOfFinite, FS_StrictSubsetOrderingWellFounded
<1>2. PICK T \in Bad : \A U \in Bad : <<U, T>> \notin StrictSubsetOrdering(S)
  BY <1>1, WFMin
<1>3. ASSUME NEW U \in SUBSET T, U # T PROVE U \notin Bad
  BY <1>2, <1>3 DEF StrictSubsetOrdering
<1> QED
  BY <1>3

(* The sample that is added up first, and the function Bytes is made of.   *)
First(T) == CHOOSE s \in T : TRUE

IsBytes(key, S, f) ==
  f = [T \in SUBSET S |->
         IF T = {} THEN 0 ELSE First(T)[key] + f[T \ {First(T)}]]

LEMMA FirstIn == ASSUME NEW T, T # {} PROVE First(T) \in T
  BY DEF First

LEMMA BytesDef ==
  ASSUME NEW key, NEW S
  PROVE  Bytes(key, S) = (CHOOSE f : IsBytes(key, S, f))[S]
  BY DEF Bytes, MapThenFoldSet, IsBytes, First, Add

(* Two such functions agree where both are defined. *)
LEMMA BytesUnique ==
  ASSUME NEW key, NEW S, NEW R, NEW f, NEW g,
         IsFiniteSet(S), IsBytes(key, S, f), IsBytes(key, R, g)
  PROVE  \A T \in SUBSET (S \cap R) : f[T] = g[T]
<1> DEFINE Bad == {T \in SUBSET S : T \subseteq R /\ f[T] # g[T]}
<1>1. SUFFICES ASSUME Bad # {} PROVE FALSE
  OBVIOUS
<1>2. PICK T \in Bad : \A U \in SUBSET T : U # T => U \notin Bad
  <2> Bad \in SUBSET SUBSET S
    OBVIOUS
  <2> HIDE DEF Bad
  <2> QED
    BY <1>1, LeastSubset
<1>3. T \in SUBSET S /\ T \in SUBSET R /\ f[T] # g[T]
  BY <1>2
<1>4. /\ f[T] = IF T = {} THEN 0 ELSE First(T)[key] + f[T \ {First(T)}]
      /\ g[T] = IF T = {} THEN 0 ELSE First(T)[key] + g[T \ {First(T)}]
  BY <1>3 DEF IsBytes
<1>5. T # {} /\ f[T \ {First(T)}] # g[T \ {First(T)}]
  BY <1>3, <1>4
<1>6. T \ {First(T)} \in SUBSET T /\ T \ {First(T)} # T
  BY <1>5, FirstIn
<1> QED
  BY <1>2, <1>3, <1>5, <1>6

(* There is such a function for every finite set of samples. *)
LEMMA BytesExists ==
  ASSUME NEW key, NEW S, IsFiniteSet(S)
  PROVE  \E f : IsBytes(key, S, f)
<1> DEFINE Bad == {T \in SUBSET S : ~\E f : IsBytes(key, T, f)}
<1>1. SUFFICES ASSUME Bad # {} PROVE FALSE
  OBVIOUS
<1>2. PICK T \in Bad : \A U \in SUBSET T : U # T => U \notin Bad
  <2> Bad \in SUBSET SUBSET S
    OBVIOUS
  <2> HIDE DEF Bad
  <2> QED
    BY <1>1, LeastSubset
<1> DEFINE of(U) == CHOOSE f : IsBytes(key, U, f)
           h == [U \in SUBSET T |->
                   IF U = {} THEN 0 ELSE First(U)[key] + of(U \ {First(U)})[U \ {First(U)}]]
<1>3. ASSUME NEW U \in SUBSET T, U # T
      PROVE  IsBytes(key, U, of(U))
  BY <1>2, <1>3
<1>4. ASSUME NEW U \in SUBSET T, U # T
      PROVE  h[U] = of(U)[U]
  <2>1. of(U)[U] = IF U = {} THEN 0
                   ELSE First(U)[key] + of(U)[U \ {First(U)}]
    <3> HIDE DEF of
    <3> QED
      BY <1>3, <1>4 DEF IsBytes
  <2>2. CASE U = {}
    BY <2>1, <2>2
  <2>3. CASE U # {}
    <3> DEFINE V == U \ {First(U)}
    <3>1. V \in SUBSET U /\ V \in SUBSET T /\ V # T
      BY <1>4
    <3>2. IsBytes(key, U, of(U)) /\ IsBytes(key, V, of(V))
      BY <3>1, <1>3, <1>4
    <3>3. IsFiniteSet(U)
      BY <1>2, FS_Subset
    <3>4. of(U)[V] = of(V)[V]
      <4> HIDE DEF of, V
      <4> QED
        BY <3>1, <3>2, <3>3, BytesUnique
    <3>5. h[U] = First(U)[key] + of(V)[V]
      BY <2>3
    <3> QED
      BY <2>1, <2>3, <3>4, <3>5
  <2> QED
    BY <2>2, <2>3
<1>5. IsBytes(key, T, h)
  <2>1. ASSUME NEW U \in SUBSET T, U # {}
        PROVE  h[U] = First(U)[key] + h[U \ {First(U)}]
    <3>1. U \ {First(U)} \in SUBSET T /\ U \ {First(U)} # T
      BY <2>1, FirstIn
    <3>2. h[U \ {First(U)}] = of(U \ {First(U)})[U \ {First(U)}]
      <4> HIDE DEF h, of
      <4> QED
        BY <3>1, <1>4
    <3>3. h[U] = First(U)[key] + of(U \ {First(U)})[U \ {First(U)}]
      BY <2>1
    <3> QED
      BY <3>2, <3>3
  <2>2. h[{}] = 0
    OBVIOUS
  <2>3. h = [U \in SUBSET T |-> h[U]]
    OBVIOUS
  <2> HIDE DEF h
  <2>4. [U \in SUBSET T |-> h[U]]
        = [U \in SUBSET T |->
             IF U = {} THEN 0 ELSE First(U)[key] + h[U \ {First(U)}]]
    BY <2>1, <2>2
  <2> QED
    BY <2>3, <2>4 DEF IsBytes
<1> QED
  BY <1>2, <1>5

(* So Bytes is what its recursion says.                                    *)
LEMMA BytesRecursion ==
  ASSUME NEW key, NEW S, IsFiniteSet(S)
  PROVE  Bytes(key, S) = IF S = {} THEN 0
                         ELSE First(S)[key] + Bytes(key, S \ {First(S)})
<1> DEFINE of(U) == CHOOSE f : IsBytes(key, U, f)
           R == S \ {First(S)}
<1>1. IsFiniteSet(R) /\ R \in SUBSET (S \cap R)
  BY FS_RemoveElement
<1>2. IsBytes(key, S, of(S)) /\ IsBytes(key, R, of(R))
  BY <1>1, BytesExists
<1>3. Bytes(key, S) = of(S)[S] /\ Bytes(key, R) = of(R)[R]
  BY BytesDef
<1> HIDE DEF of
<1>4. of(S)[S] = IF S = {} THEN 0 ELSE First(S)[key] + of(S)[R]
  BY <1>2 DEF IsBytes
<1>5. of(S)[R] = of(R)[R]
  <2> HIDE DEF R
  <2> QED
    BY <1>1, <1>2, BytesUnique
<1> QED
  BY <1>3, <1>4, <1>5

LEMMA BytesType ==
  ASSUME NEW key, NEW S, IsFiniteSet(S), \A s \in S : s[key] \in Int
  PROVE  Bytes(key, S) \in Int
<1> DEFINE Bad == {T \in SUBSET S : Bytes(key, T) \notin Int}
<1>1. SUFFICES ASSUME Bad # {} PROVE FALSE
  OBVIOUS
<1>2. PICK T \in Bad : \A U \in SUBSET T : U # T => U \notin Bad
  <2> Bad \in SUBSET SUBSET S
    OBVIOUS
  <2> HIDE DEF Bad
  <2> QED
    BY <1>1, LeastSubset
<1>3. IsFiniteSet(T) /\ T \in SUBSET S
  BY <1>2, FS_Subset
<1>4. Bytes(key, T) = IF T = {} THEN 0
                      ELSE First(T)[key] + Bytes(key, T \ {First(T)})
  BY <1>3, BytesRecursion
<1>5. CASE T # {}
  <2>1. First(T) \in T /\ First(T)[key] \in Int
    BY <1>3, <1>5, FirstIn
  <2>2. Bytes(key, T \ {First(T)}) \in Int
    BY <1>2, <1>3, <2>1
  <2> QED
    BY <1>2, <1>4, <1>5, <2>1, <2>2
<1> QED
  BY <1>2, <1>4, <1>5

(* The order does not matter: any sample may be taken out first.           *)
LEMMA BytesRemove ==
  ASSUME NEW key, NEW S, IsFiniteSet(S), \A s \in S : s[key] \in Int,
         NEW x \in S
  PROVE  Bytes(key, S) = x[key] + Bytes(key, S \ {x})
<1> DEFINE Bad == {T \in SUBSET S : \E y \in T : Bytes(key, T) # y[key] + Bytes(key, T \ {y})}
<1>1. SUFFICES ASSUME Bad # {} PROVE FALSE
  OBVIOUS
<1>2. PICK T \in Bad : \A U \in SUBSET T : U # T => U \notin Bad
  <2> Bad \in SUBSET SUBSET S
    OBVIOUS
  <2> HIDE DEF Bad
  <2> QED
    BY <1>1, LeastSubset
<1>3. PICK y \in T : Bytes(key, T) # y[key] + Bytes(key, T \ {y})
  BY <1>2
<1> DEFINE p == First(T)
<1>4. /\ T \in SUBSET S /\ p \in T /\ p[key] \in Int /\ y[key] \in Int
      /\ IsFiniteSet(T)
  BY <1>2, FirstIn, FS_Subset
<1>5. Bytes(key, T) = p[key] + Bytes(key, T \ {p})
  BY <1>4, BytesRecursion
<1>6. p # y
  BY <1>3, <1>5
<1>7. Bytes(key, T \ {p}) = y[key] + Bytes(key, (T \ {p}) \ {y})
  <2>1. T \ {p} \in SUBSET T /\ T \ {p} # T /\ y \in T \ {p}
    BY <1>4, <1>6
  <2> QED
    BY <1>2, <1>4, <2>1
<1>8. Bytes(key, T \ {y}) = p[key] + Bytes(key, (T \ {y}) \ {p})
  <2>1. T \ {y} \in SUBSET T /\ T \ {y} # T /\ p \in T \ {y}
    BY <1>4, <1>6
  <2> QED
    BY <1>2, <1>4, <2>1
<1>9. (T \ {y}) \ {p} = (T \ {p}) \ {y}
  OBVIOUS
<1>10. Bytes(key, (T \ {p}) \ {y}) \in Int
  <2>1. IsFiniteSet((T \ {p}) \ {y})
    BY <1>4, FS_RemoveElement
  <2> QED
    BY <1>4, <2>1, BytesType
<1> DEFINE rest == Bytes(key, (T \ {p}) \ {y})
<1>11. Bytes(key, T \ {p}) = y[key] + rest
  BY <1>7
<1>12. Bytes(key, T \ {y}) = p[key] + rest
  BY <1>8, <1>9
<1>13. rest \in Int
  BY <1>10
<1> HIDE DEF p, rest, Bad
<1>14. p[key] + (y[key] + rest) = y[key] + (p[key] + rest)
  BY <1>4, <1>13
<1> QED
  BY <1>3, <1>5, <1>11, <1>12, <1>14

(***************************************************************************)
(* The inductive invariant.                                                *)
(***************************************************************************)

(* The samples that are inside the window at time t. *)
Fresh(t) == {s \in recorded : s.time >= Window /\ s.time + Window >= t}

(* Recorded times are in the past; a sample on the list was recorded.      *)
HistoryInv ==
  /\ samples \subseteq recorded
  /\ \A s \in recorded : s.call < calls /\ s.time <= now
  /\ last <= now

(* During the sweep the list still has every sample inside the window, and *)
(* otherwise those that were inside the one before, and the new one.       *)
SweepInv ==
  pc = "sweep" =>
    /\ last <= at /\ at <= now
    /\ Fresh(at) \subseteq samples
    /\ \A s \in recorded : s.time <= at
    /\ \A s \in samples : s.time >= Window \/ s.time = at
    /\ ~starved => \E s \in recorded : s.time = at

CountInv == IsFiniteSet(samples) /\ count = Cardinality(samples)

(* In the first second of the clock no sample stays on the list.           *)
EarlyInv ==
  last < Window =>
    /\ rateRx = 0 /\ rateTx = 0
    /\ pc = "idle" => samples = {} /\ totalRx = 0 /\ totalTx = 0
    /\ pc = "sweep" /\ at < Window =>
         \/ samples = {} /\ totalRx = 0 /\ totalTx = 0
         \/ \E s \in samples : samples = {s} /\ totalRx = s.rx /\ totalTx = s.tx

IInv ==
  /\ TypeOK /\ HistoryInv /\ SweepInv /\ CountInv /\ EarlyInv
  /\ KeptIsWindow /\ StaleOnlyIfStarved

(* IInv holds before the first collector. *)
LEMMA Initially == Init => IInv
<1> SUFFICES ASSUME Init
             PROVE  IInv
  OBVIOUS
<1> USE MetricsAssumption DEF Init
<1>1. TypeOK
  <2>1. now \in 1 .. MaxTime /\ 0 \in Counters /\ 0 \in Words
    BY DEF Counters, Words
  <2>2. samples \subseteq Samples /\ recorded \subseteq Samples
    OBVIOUS
  <2>3. up \in BOOLEAN /\ starved \in BOOLEAN /\ wrapped \in BOOLEAN
    OBVIOUS
  <2>4. /\ fps \in 0 .. Second /\ lastFrame \in 0 .. MaxTime
        /\ count \in Int /\ last \in 0 .. MaxTime /\ at \in 0 .. MaxTime
        /\ calls \in 0 .. MaxCalls
    OBVIOUS
  <2> HIDE MetricsAssumption
  <2> QED
    BY <2>1, <2>2, <2>3, <2>4 DEF TypeOK
<1>2. HistoryInv
  BY <1>1 DEF HistoryInv, TypeOK
<1>3. CountInv
  BY FS_EmptySet DEF CountInv
<1>4. StaleOnlyIfStarved
  BY RateZero DEF StaleOnlyIfStarved
<1> QED
  BY <1>1, <1>2, <1>3, <1>4 DEF IInv, SweepInv, EarlyInv, KeptIsWindow

(* Which samples a sweep removes: in the first second of the clock all of  *)
(* them, then those outside the window.                                    *)
LEMMA OldMeans ==
  ASSUME TypeOK, NEW s \in Samples, s.time <= at
  PROVE  IsOld(s) <=> at < Window \/ s.time + Window < at
<1> USE MetricsAssumption DEF TypeOK, Window
<1>1. at \in 0 .. Word - 1 /\ s.time \in Nat
  BY DEF Samples
<1>2. CASE at < Window
  <2>1. WindowStart = at - Window + Word
    BY <1>1, <1>2, ModSmall DEF WindowStart
  <2> QED
    BY <1>1, <1>2, <2>1 DEF IsOld
<1>3. CASE at >= Window
  <2>1. WindowStart = at - Window
    BY <1>1, <1>3, ModWrap DEF WindowStart
  <2> QED
    BY <1>1, <1>3, <2>1 DEF IsOld
<1> QED
  BY <1>1, <1>2, <1>3

(* A call, or a tick of the clock, that leaves the list and the rates alone *)
(* keeps what is said of them.                                             *)
LEMMA ListUntouched ==
  ASSUME IInv, TypeOK', UNCHANGED <<listVars, rateVars, pc, at, recorded, starved>>,
         calls' >= calls, now' >= now
  PROVE  IInv'
<1> USE DEF listVars, rateVars
<1>1. HistoryInv'
  <2>1. /\ recorded \subseteq Samples /\ calls \in Int /\ now \in Int
        /\ calls' \in Int /\ now' \in Int /\ last \in Int
    BY DEF IInv, TypeOK
  <2>2. \A s \in recorded : s.call \in Int /\ s.time \in Int
    BY <2>1 DEF Samples
  <2>3. HistoryInv
    BY DEF IInv
  <2> QED
    BY <2>1, <2>2, <2>3 DEF HistoryInv
<1>2. SweepInv'
  <2>1. at \in Int /\ now \in Int /\ now' \in Int
    BY DEF IInv, TypeOK
  <2> QED
    BY <2>1 DEF IInv, SweepInv, Fresh
<1>3. CountInv' /\ EarlyInv' /\ KeptIsWindow' /\ StaleOnlyIfStarved'
  BY DEF IInv, CountInv, EarlyInv, KeptIsWindow, StaleOnlyIfStarved, Rate
<1> QED
  BY <1>1, <1>2, <1>3 DEF IInv

(* A call for bytes keeps the invariant, whether it finds memory or not.   *)
LEMMA BeginKeeps ==
  ASSUME IInv, NEW rx \in Sizes, NEW tx \in Sizes, BeginBandwidth(rx, tx)
  PROVE  IInv'
<1> DEFINE sample == [call |-> calls, time |-> now, rx |-> rx, tx |-> tx]
<1>1. /\ pc = "idle" /\ pc' = "sweep" /\ at' = now /\ calls < MaxCalls
      /\ calls' = calls + 1
      /\ UNCHANGED <<now, up, frameVars, eventVars, rateVars, wrapped>>
  BY DEF BeginBandwidth, Recording
<1>2. /\ TypeOK /\ HistoryInv /\ CountInv /\ EarlyInv
      /\ samples = Fresh(last)
  BY <1>1 DEF IInv, KeptIsWindow, Fresh
<1>3. calls \in Nat /\ now \in Nat /\ last \in Nat
  BY <1>2, MetricsAssumption DEF TypeOK
<1>4. \A s \in recorded : s.time \in Nat /\ s.call \in Nat
  BY <1>2, MetricsAssumption DEF TypeOK, Samples
<1>5. \A s \in samples : s.time >= Window
  BY <1>2 DEF Fresh
<1>6. Fresh(now) \subseteq samples
  BY <1>2, <1>3, <1>4, MetricsAssumption DEF Fresh, HistoryInv, Window
<1>7. CASE /\ samples' = samples \cup {sample}
           /\ recorded' = recorded \cup {sample}
           /\ count' = count + 1
           /\ totalRx' = (totalRx + rx) % Word
           /\ totalTx' = (totalTx + tx) % Word
           /\ starved' = FALSE
  <2>1. sample \in Samples
    BY <1>1, <1>2, <1>3, MetricsAssumption DEF TypeOK, Samples
  <2>2. TypeOK'
    <3>1. totalRx' \in Words /\ totalTx' \in Words
      <4>1. \A x \in Words, y \in Sizes : (x + y) % Word \in Words
        BY MetricsAssumption, ModRange DEF Words
      <4> QED
        BY <4>1, <1>2, <1>7 DEF TypeOK
    <3>2. calls' \in 0 .. MaxCalls /\ at' \in 0 .. MaxTime /\ count' \in Int
      BY <1>1, <1>2, <1>3, <1>7, MetricsAssumption DEF TypeOK
    <3>3. samples' \subseteq Samples /\ recorded' \subseteq Samples
      BY <1>2, <1>7, <2>1 DEF TypeOK
    <3> HIDE DEF sample
    <3> QED
      BY <1>1, <1>2, <1>7, <3>1, <3>2, <3>3
      DEF TypeOK, frameVars, eventVars, rateVars
  <2>3. HistoryInv'
    BY <1>1, <1>2, <1>3, <1>4, <1>7 DEF HistoryInv, rateVars
  <2>4. sample \notin samples
    BY <1>2, <1>3, <1>4 DEF HistoryInv
  <2>5. CountInv'
    <3> HIDE DEF sample
    <3> QED
      BY <1>2, <1>7, <2>4, FS_AddElement DEF CountInv
  <2>6. SweepInv'
    <3>1. last' <= at' /\ at' <= now'
      BY <1>1, <1>2, <1>3 DEF HistoryInv, rateVars
    <3>2. Fresh(at)' \subseteq samples'
      BY <1>1, <1>6, <1>7 DEF Fresh
    <3>3. \A s \in recorded' : s.time <= at'
      BY <1>1, <1>2, <1>3, <1>7 DEF HistoryInv
    <3>4. \A s \in samples' : s.time >= Window \/ s.time = at'
      BY <1>1, <1>5, <1>7
    <3>5. sample \in recorded' /\ sample.time = at'
      BY <1>1, <1>7
    <3> QED
      BY <3>1, <3>2, <3>3, <3>4, <3>5 DEF SweepInv
  <2>7. EarlyInv'
    <3>1. SUFFICES ASSUME last < Window, at' < Window
                   PROVE  \E s \in samples' : /\ samples' = {s}
                                              /\ totalRx' = s.rx
                                              /\ totalTx' = s.tx
      BY <1>1, <1>2 DEF EarlyInv, rateVars
    <3>2. samples = {} /\ totalRx = 0 /\ totalTx = 0
      BY <1>1, <1>2, <3>1 DEF EarlyInv
    <3>3. \A x \in Sizes : (0 + x) % Word = x
      BY MetricsAssumption, ModSmall
    <3>4. samples' = {sample} /\ totalRx' = sample.rx /\ totalTx' = sample.tx
      BY <1>7, <3>2, <3>3
    <3> QED
      BY <3>4
  <2> QED
    BY <1>1, <2>2, <2>3, <2>5, <2>6, <2>7
    DEF IInv, KeptIsWindow, StaleOnlyIfStarved
<1>8. CASE UNCHANGED <<listVars, recorded>> /\ starved' = TRUE
  <2>1. TypeOK'
    <3>1. calls' \in 0 .. MaxCalls /\ at' \in 0 .. MaxTime
      BY <1>1, <1>2, <1>3, MetricsAssumption DEF TypeOK
    <3> QED
      BY <1>1, <1>2, <1>8, <3>1 DEF TypeOK, frameVars, eventVars, rateVars, listVars
  <2>2. HistoryInv'
    BY <1>1, <1>2, <1>3, <1>4, <1>8 DEF HistoryInv, rateVars, listVars
  <2>3. SweepInv'
    <3>1. last' <= at' /\ at' <= now'
      BY <1>1, <1>2, <1>3 DEF HistoryInv, rateVars
    <3>2. Fresh(at)' \subseteq samples'
      BY <1>1, <1>6, <1>8 DEF Fresh, listVars
    <3>3. \A s \in recorded' : s.time <= at'
      BY <1>1, <1>2, <1>8 DEF HistoryInv
    <3> QED
      BY <1>5, <1>8, <3>1, <3>2, <3>3 DEF SweepInv, listVars
  <2>4. CountInv' /\ EarlyInv'
    BY <1>1, <1>2, <1>8 DEF CountInv, EarlyInv, listVars, rateVars
  <2> QED
    BY <1>1, <2>1, <2>2, <2>3, <2>4 DEF IInv, KeptIsWindow, StaleOnlyIfStarved
<1> QED
  BY <1>7, <1>8 DEF BeginBandwidth

(* Unlinking a sample that is old keeps every one inside the window.       *)
LEMMA RemoveKeeps ==
  ASSUME IInv, NEW sample \in samples, RemoveOld(sample)
  PROVE  IInv'
<1>1. /\ pc = "sweep" /\ IsOld(sample)
      /\ samples' = samples \ {sample}
      /\ count' = count - 1
      /\ totalRx' = (totalRx - sample.rx) % Word
      /\ totalTx' = (totalTx - sample.tx) % Word
      /\ UNCHANGED <<now, up, frameVars, eventVars, rateVars, pc, at, calls,
                     recorded, starved, wrapped>>
  BY DEF RemoveOld
<1>2. TypeOK /\ HistoryInv /\ SweepInv /\ CountInv /\ EarlyInv
  BY DEF IInv
<1>3. sample \in Samples /\ sample.time <= at
  BY <1>1, <1>2 DEF TypeOK, HistoryInv, SweepInv
<1>4. at < Window \/ sample.time + Window < at
  BY <1>1, <1>2, <1>3, OldMeans
<1>5. TypeOK'
  <2>1. totalRx' \in Words /\ totalTx' \in Words
    <3>1. \A x \in Words, y \in Sizes : (x - y) % Word \in Words
      BY MetricsAssumption, ModRange DEF Words
    <3> QED
      BY <3>1, <1>1, <1>2, <1>3 DEF TypeOK, Samples
  <2>2. count' \in Int
    BY <1>1, <1>2 DEF TypeOK
  <2> QED
    BY <1>1, <1>2, <2>1, <2>2 DEF TypeOK, frameVars, eventVars, rateVars
<1>6. HistoryInv'
  BY <1>1, <1>2 DEF HistoryInv, rateVars
<1>7. SweepInv'
  <2>1. sample.time \in Nat /\ at \in Nat
    BY <1>2, <1>3, MetricsAssumption DEF TypeOK, Samples
  <2>2. sample \notin Fresh(at)
    BY <1>4, <2>1, <1>3, MetricsAssumption DEF Fresh, Window
  <2>3. Fresh(at)' \subseteq samples'
    BY <1>1, <1>2, <2>2 DEF SweepInv, Fresh
  <2> QED
    BY <1>1, <1>2, <2>3 DEF SweepInv, rateVars
<1>8. CountInv'
  BY <1>1, <1>2, FS_RemoveElement DEF CountInv
<1>9. EarlyInv'
  <2>1. SUFFICES ASSUME last < Window, at < Window
                 PROVE  samples' = {} /\ totalRx' = 0 /\ totalTx' = 0
    BY <1>1, <1>2 DEF EarlyInv, rateVars
  <2>2. samples = {sample} /\ totalRx = sample.rx /\ totalTx = sample.tx
    BY <1>1, <1>2, <2>1 DEF EarlyInv
  <2>3. \A x \in Sizes : (x - x) % Word = 0
    BY MetricsAssumption, ModSmall
  <2> QED
    BY <1>1, <1>3, <2>2, <2>3 DEF Samples
<1> QED
  BY <1>1, <1>5, <1>6, <1>7, <1>8, <1>9 DEF IInv, KeptIsWindow, StaleOnlyIfStarved

(* When nothing old is left, the list is the window; and if the new sample *)
(* is on it, as it is after the first second, the rates are computed.      *)
LEMMA FinishKeeps ==
  ASSUME IInv, FinishBandwidth
  PROVE  IInv'
<1>1. /\ pc = "sweep" /\ pc' = "idle" /\ last' = at /\ at' = 0
      /\ \A s \in samples : ~IsOld(s)
      /\ rateRx' = IF count > 0 THEN Rate(totalRx) ELSE rateRx
      /\ rateTx' = IF count > 0 THEN Rate(totalTx) ELSE rateTx
      /\ UNCHANGED <<now, up, frameVars, eventVars, listVars, calls, recorded,
                     starved, wrapped>>
  BY DEF FinishBandwidth
<1>2. TypeOK /\ HistoryInv /\ SweepInv /\ CountInv /\ EarlyInv
  BY DEF IInv
<1>3. /\ at \in Nat /\ at \in 0 .. MaxTime /\ now \in Nat /\ last \in Nat
      /\ Window \in Nat
  BY <1>2, MetricsAssumption DEF TypeOK, Window
<1>4. \A s \in recorded : s \in Samples /\ s.time \in Nat /\ s.time <= at
  BY <1>1, <1>2, MetricsAssumption DEF TypeOK, SweepInv, Samples
<1>5. \A s \in samples : at >= Window /\ s.time + Window >= at
  <2>1. TAKE s \in samples
  <2>2. s \in Samples /\ s.time \in Nat /\ s.time <= at
    BY <1>2, <1>4 DEF HistoryInv
  <2>3. ~(at < Window \/ s.time + Window < at)
    BY <1>1, <1>2, <2>2, OldMeans
  <2> QED
    BY <1>3, <2>2, <2>3
<1>6. TypeOK'
  <2>1. rateRx' \in Words /\ rateTx' \in Words
    BY <1>1, <1>2, RateType DEF TypeOK
  <2>2. last' \in 0 .. MaxTime /\ at' \in 0 .. MaxTime
    BY <1>1, <1>3, MetricsAssumption
  <2> QED
    BY <1>1, <1>2, <2>1, <2>2 DEF TypeOK, frameVars, eventVars, listVars
<1>7. HistoryInv'
  BY <1>1, <1>2 DEF HistoryInv, SweepInv, listVars
<1>8. SweepInv' /\ CountInv'
  BY <1>1, <1>2 DEF SweepInv, CountInv, listVars
<1>9. KeptIsWindow'
  <2>1. samples \subseteq Fresh(at)
    BY <1>1, <1>2, <1>3, <1>4, <1>5 DEF HistoryInv, SweepInv, Fresh
  <2> QED
    BY <1>1, <1>2, <2>1 DEF KeptIsWindow, SweepInv, Fresh, listVars
<1>10. at < Window => samples = {} /\ count = 0
  BY <1>2, <1>3, <1>5, FS_EmptySet DEF CountInv
<1>11. at < Window => last < Window
  BY <1>1, <1>2, <1>3 DEF SweepInv
<1>12. at < Window => totalRx = 0 /\ totalTx = 0 /\ rateRx = 0 /\ rateTx = 0
  BY <1>1, <1>2, <1>10, <1>11 DEF EarlyInv
<1>13. EarlyInv'
  BY <1>1, <1>10, <1>12 DEF EarlyInv, listVars
<1>14. StaleOnlyIfStarved'
  <2>1. SUFFICES ASSUME ~starved
                 PROVE  rateRx' = Rate(totalRx) /\ rateTx' = Rate(totalTx)
    BY <1>1 DEF StaleOnlyIfStarved, listVars, Rate
  <2>2. CASE at < Window
    BY <1>1, <1>10, <1>12, <2>2, RateZero
  <2>3. CASE at >= Window
    <3>1. PICK s \in recorded : s.time = at
      BY <1>1, <1>2, <2>1 DEF SweepInv
    <3>2. s \in Fresh(at)
      BY <1>3, <2>3, <3>1 DEF Fresh
    <3>3. samples # {}
      BY <1>1, <1>2, <3>2 DEF SweepInv
    <3>4. count > 0
      BY <1>2, <3>3, FS_EmptySet, FS_CardinalityType DEF CountInv
    <3> QED
      BY <1>1, <3>4
  <2> QED
    BY <1>3, <2>2, <2>3
<1> QED
  BY <1>6, <1>7, <1>8, <1>9, <1>13, <1>14 DEF IInv

(* Every step preserves IInv. *)
LEMMA Inductive == IInv /\ [Next]_vars => IInv'
<1> SUFFICES ASSUME IInv, [Next]_vars
             PROVE  IInv'
  OBVIOUS
<1>0. TypeOK /\ now \in Int /\ calls \in Int
  BY DEF IInv, TypeOK
<1>1. CASE CollectorInit
  <2>1. TypeOK'
    BY <1>0, <1>1 DEF CollectorInit, TypeOK, frameVars, eventVars, listVars, rateVars
  <2> QED
    BY <1>0, <1>1, <2>1, ListUntouched DEF CollectorInit
<1>2. CASE CollectorCleanup
  <2> USE <1>2 DEF CollectorCleanup, ClearCounters, ClearRates
  <2>1. TypeOK'
    <3>1. 0 \in Counters /\ 0 \in Words /\ 0 \in 0 .. Second
          /\ 0 \in 0 .. MaxTime /\ 0 \in 0 .. MaxCalls
      BY MetricsAssumption DEF Counters, Words
    <3>2. samples' \subseteq Samples /\ recorded' \subseteq Samples
      OBVIOUS
    <3>3. up' = FALSE /\ starved' = FALSE /\ wrapped' = FALSE /\ count' = 0
      OBVIOUS
    <3>4. /\ frames' \in Counters /\ dropped' \in Counters
          /\ events' \in Counters /\ predicted' \in Counters
          /\ reconciled' \in Counters
          /\ totalRx' \in Words /\ totalTx' \in Words
          /\ rateRx' \in Words /\ rateTx' \in Words
      BY <3>1
    <3>5. /\ fps' \in 0 .. Second /\ lastFrame' \in 0 .. MaxTime
          /\ last' \in 0 .. MaxTime /\ calls' \in 0 .. MaxCalls
      BY <3>1
    <3>6. /\ now' \in 1 .. MaxTime /\ at' \in 0 .. MaxTime
          /\ pc' \in {"idle", "sweep"}
      BY <1>0 DEF TypeOK
    <3>7. up' \in BOOLEAN /\ starved' \in BOOLEAN /\ wrapped' \in BOOLEAN
      BY ONLY <3>3, Zenon
    <3>8. count' \in Int
      BY ONLY <3>3
    <3> QED
      BY ONLY <3>2, <3>4, <3>5, <3>6, <3>7, <3>8, Zenon DEF TypeOK
  <2>2. HistoryInv' /\ SweepInv'
    BY <1>0, MetricsAssumption DEF TypeOK, HistoryInv, SweepInv
  <2>3. CountInv' /\ EarlyInv' /\ KeptIsWindow'
    BY FS_EmptySet DEF CountInv, EarlyInv, KeptIsWindow
  <2>4. StaleOnlyIfStarved'
    BY RateZero DEF StaleOnlyIfStarved, Rate
  <2> QED
    BY <2>1, <2>2, <2>3, <2>4 DEF IInv
<1>3. ASSUME NEW drop \in BOOLEAN, RecordFrame(drop)
      PROVE  IInv'
  <2> USE <1>3 DEF RecordFrame, Recording
  <2>1. TypeOK'
    <3>1. frames' \in Counters /\ dropped' \in Counters
      BY <1>0, CountType DEF TypeOK
    <3>2. fps' \in 0 .. Second
      BY <1>0, FrameRateType
    <3>3. lastFrame' \in 0 .. MaxTime /\ calls' \in 0 .. MaxCalls
          /\ wrapped' \in BOOLEAN
      BY <1>0, MetricsAssumption DEF TypeOK
    <3> QED
      BY <1>0, <3>1, <3>2, <3>3 DEF TypeOK, eventVars, listVars, rateVars
  <2> QED
    BY <1>0, <2>1, ListUntouched
<1>4. ASSUME NEW p \in BOOLEAN, NEW r \in BOOLEAN, RecordInputEvent(p, r)
      PROVE  IInv'
  <2> USE <1>4 DEF RecordInputEvent, Recording
  <2>1. TypeOK'
    <3>1. events' \in Counters /\ predicted' \in Counters /\ reconciled' \in Counters
      BY <1>0, CountType DEF TypeOK
    <3>2. calls' \in 0 .. MaxCalls /\ wrapped' \in BOOLEAN
      BY <1>0, MetricsAssumption DEF TypeOK
    <3> QED
      BY <1>0, <3>1, <3>2 DEF TypeOK, frameVars, listVars, rateVars
  <2> QED
    BY <1>0, <2>1, ListUntouched
<1>5. ASSUME NEW rx \in Sizes, NEW tx \in Sizes, BeginBandwidth(rx, tx)
      PROVE  IInv'
  BY <1>5, BeginKeeps
<1>6. ASSUME NEW sample \in samples, RemoveOld(sample)
      PROVE  IInv'
  BY <1>6, RemoveKeeps
<1>7. CASE FinishBandwidth
  BY <1>7, FinishKeeps
<1>8. CASE Tick
  <2>1. TypeOK'
    BY <1>0, <1>8, MetricsAssumption
    DEF Tick, TypeOK, frameVars, eventVars, listVars, rateVars
  <2> QED
    BY <1>0, <1>8, <2>1, ListUntouched DEF Tick
<1>9. CASE UNCHANGED vars
  <2>1. TypeOK'
    BY <1>0, <1>9 DEF vars, TypeOK, frameVars, eventVars, listVars, rateVars
  <2> QED
    BY <1>0, <1>9, <2>1, ListUntouched DEF vars
<1> QED
  BY <1>1, <1>2, <1>3, <1>4, <1>5, <1>6, <1>7, <1>8, <1>9 DEF Next

(* The samples on the list are finitely many, and their bytes numbers.     *)
LEMMA ListTypes ==
  ASSUME IInv, NEW key \in {"rx", "tx"}
  PROVE  /\ IsFiniteSet(samples)
         /\ \A s \in samples : s[key] \in Int
         /\ Bytes(key, samples) \in Int
         /\ Word \in Nat \ {0}
         /\ \A x \in Sizes : x \in Int
<1>1. \A x \in Sizes : x \in Int
  BY MetricsAssumption
<1>2. \A s \in samples : s.rx \in Int /\ s.tx \in Int
  BY <1>1 DEF IInv, TypeOK, Samples
<1>3. \A s \in samples : s[key] \in Int
  BY <1>2
<1>4. IsFiniteSet(samples)
  BY DEF IInv, CountInv
<1> QED
  BY <1>1, <1>3, <1>4, BytesType, MetricsAssumption

(* What is added to a total is added to the bytes of the list, ...         *)
LEMMA TotalAdds ==
  ASSUME IInv, NEW key \in {"rx", "tx"}, NEW x, x \notin samples, x[key] \in Int
  PROVE  ((Bytes(key, samples) % Word) + x[key]) % Word
         = Bytes(key, samples \cup {x}) % Word
<1> DEFINE S == samples \cup {x}
<1>1. IsFiniteSet(S) /\ x \in S /\ \A s \in S : s[key] \in Int
  BY ListTypes, FS_AddElement
<1>2. S \ {x} = samples
  OBVIOUS
<1> HIDE DEF S
<1>3. Bytes(key, S) = x[key] + Bytes(key, samples)
  BY <1>1, <1>2, BytesRemove
<1>4. ((Bytes(key, samples) % Word) + x[key]) % Word = (Bytes(key, samples) + x[key]) % Word
  BY ListTypes, ModSum
<1>5. Bytes(key, samples) + x[key] = x[key] + Bytes(key, samples)
  BY ListTypes
<1> QED
  BY <1>3, <1>4, <1>5 DEF S

(* ... and what is taken off it is taken off them.                         *)
LEMMA TotalRemoves ==
  ASSUME IInv, NEW key \in {"rx", "tx"}, NEW x \in samples
  PROVE  ((Bytes(key, samples) % Word) - x[key]) % Word
         = Bytes(key, samples \ {x}) % Word
<1> DEFINE R == samples \ {x}
<1>1. /\ IsFiniteSet(samples) /\ \A s \in samples : s[key] \in Int
      /\ Bytes(key, samples) \in Int /\ Word \in Nat \ {0}
  BY ListTypes
<1>2. IsFiniteSet(R) /\ \A s \in R : s[key] \in Int
  BY <1>1, FS_RemoveElement
<1>3. Bytes(key, samples) = x[key] + Bytes(key, R)
  BY <1>1, BytesRemove
<1> HIDE DEF R
<1>4. Bytes(key, R) \in Int /\ x[key] \in Int
  BY <1>1, <1>2, BytesType
<1>5. Bytes(key, samples) + (-x[key]) = Bytes(key, R)
  BY <1>1, <1>3, <1>4
<1>6. ((Bytes(key, samples) % Word) + (-x[key])) % Word
      = (Bytes(key, samples) + (-x[key])) % Word
  <2>1. -x[key] \in Int
    BY <1>4
  <2> QED
    BY <1>1, <2>1, ModSum
<1>7. (Bytes(key, samples) % Word) - x[key] = (Bytes(key, samples) % Word) + (-x[key])
  <2>1. Bytes(key, samples) % Word \in Int
    BY <1>1
  <2> QED
    BY <1>4, <2>1
<1> QED
  BY <1>5, <1>6, <1>7 DEF R

LEMMA NoBytes == Bytes("rx", {}) % Word = 0 /\ Bytes("tx", {}) % Word = 0
<1>1. Bytes("rx", {}) = 0 /\ Bytes("tx", {}) = 0
  BY BytesRecursion, FS_EmptySet
<1>2. 0 % Word = 0
  BY ModSmall, MetricsAssumption
<1> QED
  BY <1>1, <1>2

(* Every step keeps the totals those of the samples on the list.           *)
LEMMA TotalsInductive == IInv /\ TotalsMatchSamples /\ IInv' /\ [Next]_vars => TotalsMatchSamples'
<1> SUFFICES ASSUME IInv, TotalsMatchSamples, IInv', [Next]_vars
             PROVE  TotalsMatchSamples'
  OBVIOUS
<1>0. count' = Cardinality(samples')
  BY DEF IInv, CountInv
<1>1. CASE UNCHANGED listVars
  BY <1>1 DEF TotalsMatchSamples, listVars
<1>2. CASE CollectorCleanup
  BY <1>0, <1>2, NoBytes DEF CollectorCleanup, ClearCounters, TotalsMatchSamples
<1>3. ASSUME NEW rx \in Sizes, NEW tx \in Sizes, BeginBandwidth(rx, tx)
      PROVE  TotalsMatchSamples'
  <2> DEFINE sample == [call |-> calls, time |-> now, rx |-> rx, tx |-> tx]
  <2>1. SUFFICES ASSUME samples' = samples \cup {sample},
                        totalRx' = (totalRx + rx) % Word,
                        totalTx' = (totalTx + tx) % Word
                 PROVE  TotalsMatchSamples'
    BY <1>1, <1>3 DEF BeginBandwidth
  <2>2. sample \notin samples
    <3>1. \A s \in samples : s.call < calls /\ s.call \in Int
      BY DEF IInv, HistoryInv, TypeOK, Samples
    <3>2. calls \in Int /\ sample.call = calls
      BY DEF IInv, TypeOK
    <3> QED
      BY <3>1, <3>2
  <2>3. /\ sample["rx"] = rx /\ sample["tx"] = tx
        /\ sample["rx"] \in Int /\ sample["tx"] \in Int
    BY ListTypes
  <2> HIDE DEF sample
  <2>4. totalRx' = Bytes("rx", samples') % Word
    BY <2>1, <2>2, <2>3, TotalAdds DEF TotalsMatchSamples
  <2>5. totalTx' = Bytes("tx", samples') % Word
    BY <2>1, <2>2, <2>3, TotalAdds DEF TotalsMatchSamples
  <2> QED
    BY <1>0, <2>4, <2>5 DEF TotalsMatchSamples
<1>4. ASSUME NEW sample \in samples, RemoveOld(sample)
      PROVE  TotalsMatchSamples'
  <2>1. /\ samples' = samples \ {sample}
        /\ totalRx' = (totalRx - sample["rx"]) % Word
        /\ totalTx' = (totalTx - sample["tx"]) % Word
    BY <1>4 DEF RemoveOld
  <2>2. totalRx' = Bytes("rx", samples') % Word
    BY <2>1, TotalRemoves DEF TotalsMatchSamples
  <2>3. totalTx' = Bytes("tx", samples') % Word
    BY <2>1, TotalRemoves DEF TotalsMatchSamples
  <2> QED
    BY <1>0, <2>2, <2>3 DEF TotalsMatchSamples
<1>5. CASE CollectorInit \/ FinishBandwidth \/ Tick \/ UNCHANGED vars
  BY <1>1, <1>5 DEF CollectorInit, FinishBandwidth, Tick, vars
<1>6. ASSUME NEW drop \in BOOLEAN, RecordFrame(drop)
      PROVE  TotalsMatchSamples'
  BY <1>1, <1>6 DEF RecordFrame
<1>7. ASSUME NEW p \in BOOLEAN, NEW r \in BOOLEAN, RecordInputEvent(p, r)
      PROVE  TotalsMatchSamples'
  BY <1>1, <1>7 DEF RecordInputEvent
<1> QED
  BY <1>2, <1>3, <1>4, <1>5, <1>6, <1>7 DEF Next

(* What a reading says agrees with itself, and a collector that has seen   *)
(* no frame has neither a frame rate nor the time of one.                  *)
ReadingInv ==
  /\ TypeOK /\ ReadingAgrees
  /\ ~wrapped /\ frames = 0 => fps = 0 /\ lastFrame = 0

LEMMA ReadingInductive == ReadingInv /\ TypeOK' /\ [Next]_vars => ReadingInv'
<1> SUFFICES ASSUME ReadingInv, TypeOK', [Next]_vars
             PROVE  ReadingInv'
  OBVIOUS
<1> USE DEF ReadingInv, ReadingAgrees
<1>0. /\ frames \in Nat /\ dropped \in Nat
      /\ events \in Nat /\ predicted \in Nat /\ reconciled \in Nat
  BY MetricsAssumption DEF TypeOK, Counters
<1>1. ASSUME NEW drop \in BOOLEAN, RecordFrame(drop)
      PROVE  ReadingInv'
  <2>1. SUFFICES ASSUME ~wrapped, frames' # 0
                 PROVE  ReadingInv'
    BY <1>1 DEF RecordFrame, TypeOK
  <2>2. frames' = frames + 1 /\ dropped' <= dropped + 1
    <3>1. \A c \in Counters, if \in BOOLEAN : Count(c, if) <= c + 1
      BY CountType, MetricsAssumption DEF Counters
    <3> QED
      BY <1>1, <2>1, <3>1, CountType DEF RecordFrame, TypeOK
  <2>3. dropped' <= frames'
    <3>1. dropped' \in Int
      BY MetricsAssumption DEF TypeOK, Counters
    <3> QED
      BY <1>0, <2>1, <2>2, <3>1
  <2>4. frames = 0 => fps' = 0
    BY <1>1, <2>1 DEF RecordFrame, FrameRate, TypeOK
  <2>5. predicted' <= events' /\ reconciled' <= events'
    BY <1>1, <2>1 DEF RecordFrame, eventVars
  <2> QED
    BY <1>0, <2>1, <2>2, <2>3, <2>4, <2>5 DEF TypeOK
<1>2. ASSUME NEW p \in BOOLEAN, NEW r \in BOOLEAN, RecordInputEvent(p, r)
      PROVE  ReadingInv'
  <2>1. SUFFICES ASSUME ~wrapped, events' # 0
                 PROVE  ReadingInv'
    BY <1>2 DEF RecordInputEvent, TypeOK, frameVars
  <2>2. /\ events' = events + 1
        /\ predicted' <= predicted + 1 /\ reconciled' <= reconciled + 1
    <3>1. \A c \in Counters, if \in BOOLEAN : Count(c, if) <= c + 1
      BY CountType, MetricsAssumption DEF Counters
    <3> QED
      BY <1>2, <2>1, <3>1, CountType DEF RecordInputEvent, TypeOK
  <2>3. predicted' <= events' /\ reconciled' <= events'
    <3>1. predicted' \in Int /\ reconciled' \in Int
      BY MetricsAssumption DEF TypeOK, Counters
    <3> QED
      BY <1>0, <2>1, <2>2, <3>1
  <2> QED
    BY <1>2, <2>1, <2>3 DEF RecordInputEvent, frameVars
<1>3. CASE CollectorInit
  BY <1>3 DEF CollectorInit, frameVars, eventVars
<1>4. CASE CollectorCleanup
  BY <1>4 DEF CollectorCleanup, ClearCounters
<1>5. ASSUME NEW rx \in Sizes, NEW tx \in Sizes, BeginBandwidth(rx, tx)
      PROVE  ReadingInv'
  BY <1>5 DEF BeginBandwidth, frameVars, eventVars
<1>6. ASSUME NEW sample \in samples, RemoveOld(sample)
      PROVE  ReadingInv'
  BY <1>6 DEF RemoveOld, frameVars, eventVars
<1>7. CASE FinishBandwidth
  BY <1>7 DEF FinishBandwidth, frameVars, eventVars
<1>8. CASE Tick
  BY <1>8 DEF Tick, frameVars, eventVars
<1>9. CASE UNCHANGED vars
  BY <1>9 DEF vars, frameVars, eventVars
<1> QED
  BY <1>1, <1>2, <1>3, <1>4, <1>5, <1>6, <1>7, <1>8, <1>9 DEF Next

(***************************************************************************)
(* Theorems.                                                               *)
(***************************************************************************)

(* The inductive invariant holds in every reachable state. *)
THEOREM Invariance == Spec => []IInv
<1>1. Init => IInv
  BY Initially
<1>2. IInv /\ [Next]_vars => IInv'
  BY Inductive
<1> QED
  BY <1>1, <1>2, PTL DEF Spec

(* Counters and words keep their widths, whatever is recorded and however  *)
(* often: no rate and no total leaves them (core/metrics.c:109-212).       *)
THEOREM TypeCorrect == Spec => []TypeOK
<1>1. IInv => TypeOK
  BY DEF IInv
<1> QED
  BY <1>1, Invariance, PTL

(* After each call the list is the window, for any clock and any window,   *)
(* the wrapped-around start of the first second included                   *)
(* (core/metrics.c:181-196).                                               *)
THEOREM WindowKept == Spec => []KeptIsWindow
<1>1. IInv => KeptIsWindow
  BY DEF IInv
<1> QED
  BY <1>1, Invariance, PTL

(* Rates, in the bits per second of the code, disagree with the totals     *)
(* only after a call that got no memory (core/metrics.c:199-209).          *)
THEOREM RatesCurrent == Spec => []StaleOnlyIfStarved
<1>1. IInv => StaleOnlyIfStarved
  BY DEF IInv
<1> QED
  BY <1>1, Invariance, PTL

(* The running totals, never recomputed, are the sums of the bytes of the  *)
(* samples on the list, for a list of any length and totals that wrap      *)
(* around any number of times (core/metrics.c:157-212).                    *)
THEOREM TotalsExact == Spec => []TotalsMatchSamples
<1>1. Init => TotalsMatchSamples
  BY NoBytes, FS_EmptySet DEF Init, TotalsMatchSamples
<1>2. IInv /\ TotalsMatchSamples /\ IInv' /\ [Next]_vars => TotalsMatchSamples'
  BY TotalsInductive
<1> QED
  BY <1>1, <1>2, Invariance, PTL DEF Spec

(* Until a counter wraps around, what a reading says agrees with itself    *)
(* (core/metrics.c:109-155).                                               *)
THEOREM ReadingsAgree == Spec => []ReadingAgrees
<1>1. Init => ReadingInv
  <2>1. Init => TypeOK
    BY Initially DEF IInv
  <2> QED
    BY <2>1 DEF Init, ReadingInv, ReadingAgrees
<1>2. ReadingInv /\ TypeOK' /\ [Next]_vars => ReadingInv'
  BY ReadingInductive
<1>3. ReadingInv => ReadingAgrees
  BY DEF ReadingInv
<1> QED
  BY <1>1, <1>2, <1>3, TypeCorrect, PTL DEF Spec

=============================================================================
