----------------------- MODULE TelescopeSessionProofs -----------------------
(***************************************************************************)
(* Theorems of TelescopeSession, for any set of sessions, any set of       *)
(* configurations with fallback lists of any length, and any room of at    *)
(* least four in candidates[].                                             *)
(***************************************************************************)
EXTENDS TelescopeSession, TLAPS

StartStates == {"collect", "attempt", "start", "drop", "metrics"}
StopStates == {"stop", "destroy", "cleanup"}

(* What the call in progress has done to the session it works on. *)
CallInv ==
  /\ pc = "idle" <=> cur = NoSession
  /\ cur \in Sessions => config[cur] # NoConfig
  /\ pc \in StartStates => op = "start" /\ ~running[cur]
  /\ pc \in StopStates => op \in {"stop", "destroy"} /\ running[cur]
  /\ pc \in {"collect", "attempt", "cleanup"} =>
       lens[cur] = "absent" /\ process[cur] = "none" /\ ~attached[cur]
  /\ pc \in {"start", "drop"} =>
       lens[cur] = "ready" /\ process[cur] = "none" /\ ~attached[cur]
  /\ pc \in {"metrics", "stop"} => lens[cur] = "running" /\ attached[cur]
  /\ pc = "destroy" =>
       lens[cur] = "ready" /\ process[cur] = "none" /\ attached[cur]

(* Every other session is running or has nothing. *)
RestInv ==
  \A s \in Sessions \ {cur} :
    /\ running[s] => config[s] # NoConfig /\ attached[s] /\ lens[s] = "running"
    /\ ~running[s] => ~attached[s] /\ lens[s] = "absent" /\ process[s] = "none"

Wanted(c) == {SelectLens(c), "waypipe"} \cup Elements(c.fallback)

(* The candidates found so far, and where the loops of start are. *)
ListInv ==
  pc \in StartStates =>
    /\ Len(candidates) >= 1 /\ candidates[1] = SelectLens(config[cur])
    /\ \A j, k \in 1 .. Len(candidates) : j # k => candidates[j] # candidates[k]
    /\ \A k \in 1 .. Len(candidates) : candidates[k] \in Wanted(config[cur])
    /\ i >= 1
    /\ pc = "collect" =>
         \A k \in 1 .. Len(config[cur].fallback) :
           k < i => config[cur].fallback[k] \in Elements(candidates)
    /\ pc # "collect" => Wanted(config[cur]) \subseteq Elements(candidates)
    /\ pc \in {"start", "drop", "metrics"} => i <= Len(candidates)

(* The collector belongs to a running session; a session that never ran    *)
(* beside another one runs alone and has it.                               *)
MeterInv ==
  /\ CollectorOwnerRuns
  /\ \A s, r \in Sessions : running[s] /\ running[r] /\ s \notin shared => r = s
  /\ MeteredUnlessShared

IInv == TypeOK /\ CallInv /\ RestInv /\ ListInv /\ MeterInv

-----------------------------------------------------------------------------
(* The lens selected for a configuration, and all it asks for, are lenses. *)
LEMMA SelectLensType ==
  ASSUME NEW c \in ConfigType
  PROVE  SelectLens(c) \in LensTypes /\ Wanted(c) \subseteq LensTypes
<1>1. SelectLens(c) \in LensTypes
  BY DEF ConfigType, SelectLens, LensTypes
<1> QED
  BY <1>1 DEF ConfigType, Wanted, Elements, LensTypes

(* The elements of a list, by their places. *)
LEMMA ElementsAt ==
  ASSUME NEW list \in Seq(LensTypes)
  PROVE  /\ \A k \in 1 .. Len(list) : list[k] \in Elements(list)
         /\ \A e \in Elements(list) : \E k \in 1 .. Len(list) : e = list[k]
<1>1. DOMAIN list = 1 .. Len(list)
  OBVIOUS
<1> QED
  BY <1>1 DEF Elements

(* There are four lens types: a list of four without a repetition holds    *)
(* them all, so candidates[] cannot be full before waypipe is on it.       *)
LEMMA FullListIsComplete ==
  ASSUME NEW list \in Seq(LensTypes), Len(list) >= 4,
         \A j, k \in 1 .. Len(list) : j # k => list[j] # list[k]
  PROVE  LensTypes \subseteq Elements(list)
<1>1. /\ list[1] \in LensTypes /\ list[2] \in LensTypes
      /\ list[3] \in LensTypes /\ list[4] \in LensTypes
  OBVIOUS
<1>2. /\ list[1] # list[2] /\ list[1] # list[3] /\ list[1] # list[4]
      /\ list[2] # list[3] /\ list[2] # list[4] /\ list[3] # list[4]
  OBVIOUS
<1>3. \A type \in LensTypes : type \in {list[1], list[2], list[3], list[4]}
  BY <1>1, <1>2 DEF LensTypes
<1> QED
  BY <1>3 DEF Elements

(* What appending a lens that may be on the list already does. *)
LEMMA Adding ==
  ASSUME candidates \in Seq(LensTypes), NEW type \in LensTypes,
         \A j, k \in 1 .. Len(candidates) : j # k => candidates[j] # candidates[k]
  PROVE  /\ AddIfNew(type) \in Seq(LensTypes)
         /\ \A j, k \in 1 .. Len(AddIfNew(type)) :
              j # k => AddIfNew(type)[j] # AddIfNew(type)[k]
         /\ Elements(AddIfNew(type)) = Elements(candidates) \cup {type}
         /\ Len(AddIfNew(type)) \in {Len(candidates), Len(candidates) + 1}
         /\ Len(candidates) >= 1 => AddIfNew(type)[1] = candidates[1]
<1>1. CASE type \in Elements(candidates)
  BY <1>1 DEF AddIfNew
<1>2. CASE type \notin Elements(candidates)
  <2> DEFINE new == Append(candidates, type)
  <2>1. AddIfNew(type) = new
    BY <1>2 DEF AddIfNew
  <2>2. /\ new \in Seq(LensTypes) /\ Len(new) = Len(candidates) + 1
        /\ \A k \in 1 .. Len(candidates) : new[k] = candidates[k]
        /\ new[Len(candidates) + 1] = type
    OBVIOUS
  <2>3. \A k \in 1 .. Len(candidates) : candidates[k] # type
    BY <1>2 DEF Elements
  <2>4. DOMAIN new = 1 .. Len(candidates) + 1 /\ DOMAIN candidates = 1 .. Len(candidates)
    BY <2>2
  <2> HIDE DEF new
  <2>5. Elements(new) = Elements(candidates) \cup {type}
    <3>1. ASSUME NEW k \in 1 .. Len(candidates) + 1
          PROVE  new[k] \in Elements(candidates) \cup {type}
      BY <2>2, <2>4 DEF Elements
    <3>2. ASSUME NEW e \in Elements(candidates)
          PROVE  e \in Elements(new)
      BY <2>2, <2>4 DEF Elements
    <3>3. type \in Elements(new)
      BY <2>2, <2>4 DEF Elements
    <3> QED
      BY <2>4, <3>1, <3>2, <3>3 DEF Elements
  <2> QED
    BY <2>1, <2>2, <2>3, <2>5
<1> QED
  BY <1>1, <1>2

(* IInv holds initially. *)
LEMMA Initially == Init => IInv
  BY SessionAssumption DEF Init, IInv, TypeOK, PcStates, CallInv, RestInv, ListInv,
     MeterInv, StartStates, StopStates, CollectorOwnerRuns, MeteredUnlessShared,
     LensTypes

(* Every step of a call, a process or the compositor preserves IInv. *)
LEMMA Inductive == IInv /\ [Next]_vars => IInv'
<1> SUFFICES ASSUME IInv, [Next]_vars
             PROVE  IInv'
  OBVIOUS
<1> USE SessionAssumption DEF IInv, TypeOK, CallInv, RestInv, ListInv, MeterInv,
        PcStates, StartStates, StopStates, CollectorOwnerRuns,
        MeteredUnlessShared, sessionVars, lensVars, metricsVars, callVars,
        history
<1>1. ASSUME NEW s \in Sessions, NEW c \in Configs, CreateSession(s, c)
      PROVE  IInv'
  <2>1. TypeOK'
    BY <1>1 DEF CreateSession, LensTypes
  <2>2. CallInv'
    BY <1>1 DEF CreateSession
  <2>3. RestInv'
    BY <1>1 DEF CreateSession
  <2>4. ListInv'
    BY <1>1 DEF CreateSession
  <2>5. MeterInv'
    BY <1>1 DEF CreateSession
  <2> QED
    BY <2>1, <2>2, <2>3, <2>4, <2>5
<1>2. ASSUME NEW s \in Sessions, BeginStart(s)
      PROVE  IInv'
  <2>0. config[s] \in ConfigType /\ SelectLens(config[s]) \in LensTypes
    BY <1>2, SelectLensType DEF BeginStart, Begin
  <2>1. TypeOK'
    BY <1>2, <2>0 DEF BeginStart, Begin
  <2>2. CallInv'
    BY <1>2 DEF BeginStart, Begin
  <2>3. RestInv'
    BY <1>2 DEF BeginStart, Begin
  <2>4. ListInv'
    BY <1>2, <2>0 DEF BeginStart, Begin, Wanted
  <2>5. MeterInv'
    BY <1>2 DEF BeginStart, Begin
  <2> QED
    BY <2>1, <2>2, <2>3, <2>4, <2>5
<1>3. ASSUME CollectFallback
      PROVE  IInv'
  <2> DEFINE fallback == config[cur].fallback
  <2>a. config[cur] \in ConfigType
    BY <1>3 DEF CollectFallback
  <2>b. fallback \in Seq(LensTypes) /\ i \in 1 .. Len(fallback)
    BY <1>3, <2>a DEF CollectFallback, ConfigType
  <2>c. fallback[i] \in LensTypes /\ fallback[i] \in Wanted(config[cur])
    BY <2>b DEF Wanted, Elements
  <2>d. /\ candidates' \in Seq(LensTypes)
        /\ \A j, k \in 1 .. Len(candidates') :
             j # k => candidates'[j] # candidates'[k]
        /\ Elements(candidates') = Elements(candidates) \cup {fallback[i]}
        /\ Len(candidates') \in {Len(candidates), Len(candidates) + 1}
        /\ candidates'[1] = candidates[1]
    <3>1. PICK type \in LensTypes : type = fallback[i]
      BY <2>c
    <3>2. candidates' = AddIfNew(type)
      BY <1>3, <3>1 DEF CollectFallback
    <3>3. /\ candidates \in Seq(LensTypes) /\ Len(candidates) >= 1
          /\ \A j, k \in 1 .. Len(candidates) :
               j # k => candidates[j] # candidates[k]
      BY <1>3 DEF CollectFallback
    <3> HIDE DEF IInv, TypeOK, CallInv, RestInv, ListInv, MeterInv
    <3> QED
      BY <3>1, <3>2, <3>3, Adding
  <2>1. TypeOK'
    BY <1>3, <2>d DEF CollectFallback, HasRoom
  <2>2. CallInv'
    BY <1>3 DEF CollectFallback
  <2>3. RestInv'
    BY <1>3 DEF CollectFallback
  <2>4. ListInv'
    <3>1. \A k \in 1 .. Len(candidates') : candidates'[k] \in Wanted(config[cur])
      <4>1. \A e \in Elements(candidates) : e \in Wanted(config[cur])
        <5>1. /\ candidates \in Seq(LensTypes)
              /\ \A k \in 1 .. Len(candidates) :
                   candidates[k] \in Wanted(config[cur])
          BY <1>3 DEF CollectFallback
        <5> HIDE DEF IInv, TypeOK, CallInv, RestInv, ListInv, MeterInv
        <5> QED
          BY <5>1, ElementsAt
      <4> QED
        BY <2>c, <2>d, <4>1, ElementsAt
    <3>2. \A k \in 1 .. Len(fallback) :
            k < i + 1 => fallback[k] \in Elements(candidates')
      BY <1>3, <2>d DEF CollectFallback
    <3> QED
      BY <1>3, <2>d, <3>1, <3>2 DEF CollectFallback
  <2>5. MeterInv'
    BY <1>3 DEF CollectFallback
  <2> QED
    BY <2>1, <2>2, <2>3, <2>4, <2>5
<1>4. ASSUME EnsureWaypipe
      PROVE  IInv'
  <2> DEFINE c == config[cur]
  <2>a. c \in ConfigType
    BY <1>4 DEF EnsureWaypipe
  <2>b. /\ candidates' \in Seq(LensTypes) /\ Len(candidates') <= ArraySize
        /\ \A j, k \in 1 .. Len(candidates') :
             j # k => candidates'[j] # candidates'[k]
        /\ Elements(candidates') \in {Elements(candidates),
                                    Elements(candidates) \cup {"waypipe"}}
        /\ HasRoom => "waypipe" \in Elements(candidates')
        /\ Len(candidates') >= 1 /\ candidates'[1] = candidates[1]
    <3>1. CASE HasRoom
      BY <1>4, <3>1, Adding DEF EnsureWaypipe, LensTypes, HasRoom
    <3>2. CASE ~HasRoom
      BY <1>4, <3>2 DEF EnsureWaypipe
    <3> QED
      BY <3>1, <3>2
  <2>1. TypeOK'
    BY <1>4, <2>b DEF EnsureWaypipe
  <2>2. CallInv'
    BY <1>4 DEF EnsureWaypipe
  <2>3. RestInv'
    BY <1>4 DEF EnsureWaypipe
  <2>4. ListInv'
    <3>1. \A e \in Elements(candidates) : e \in Wanted(c)
      BY <1>4, ElementsAt DEF EnsureWaypipe
    <3>2. \A k \in 1 .. Len(candidates') : candidates'[k] \in Wanted(c)
      BY <2>b, <3>1, ElementsAt DEF Wanted
    <3>3. Wanted(c) \subseteq Elements(candidates')
      <4>1. CASE HasRoom
        <5>1. \A k \in 1 .. Len(c.fallback) : c.fallback[k] \in Elements(candidates)
          BY <1>4, <2>a, <4>1 DEF EnsureWaypipe, ConfigType
        <5>2. SelectLens(c) \in Elements(candidates)
          BY <1>4 DEF EnsureWaypipe, Elements
        <5>3. Elements(c.fallback) \subseteq Elements(candidates)
          <6>1. c.fallback \in Seq(LensTypes)
            BY <2>a DEF ConfigType
          <6>2. \A e \in Elements(c.fallback) :
                  \E k \in 1 .. Len(c.fallback) : e = c.fallback[k]
            BY <6>1, ElementsAt
          <6> HIDE DEF IInv, TypeOK, CallInv, RestInv, ListInv, MeterInv
          <6> QED
            BY <5>1, <6>2
        <5> QED
          BY <2>b, <4>1, <5>2, <5>3 DEF Wanted
      <4>2. CASE ~HasRoom
        <5>1. LensTypes \subseteq Elements(candidates)
          <6>1. /\ candidates \in Seq(LensTypes) /\ Len(candidates) >= 4
                /\ \A j, k \in 1 .. Len(candidates) :
                     j # k => candidates[j] # candidates[k]
            BY <1>4, <4>2 DEF EnsureWaypipe, HasRoom
          <6> HIDE DEF IInv, TypeOK, CallInv, RestInv, ListInv, MeterInv
          <6> QED
            BY <6>1, FullListIsComplete
        <5> QED
          BY <2>a, <2>b, <5>1, SelectLensType
      <4> QED
        BY <4>1, <4>2
    <3> QED
      BY <1>4, <2>b, <3>2, <3>3 DEF EnsureWaypipe
  <2>5. MeterInv'
    BY <1>4 DEF EnsureWaypipe
  <2> QED
    BY <2>1, <2>2, <2>3, <2>4, <2>5
<1>5. ASSUME CreateLensFails
      PROVE  IInv'
  <2>1. TypeOK'
    BY <1>5 DEF CreateLensFails, Try
  <2>2. CallInv'
    BY <1>5 DEF CreateLensFails, Try
  <2>3. RestInv'
    BY <1>5 DEF CreateLensFails, Try
  <2>4. ListInv'
    BY <1>5 DEF CreateLensFails, Try
  <2>5. MeterInv'
    BY <1>5 DEF CreateLensFails, Try
  <2> QED
    BY <2>1, <2>2, <2>3, <2>4, <2>5
<1>6. ASSUME CreateLens
      PROVE  IInv'
  <2>1. TypeOK'
    BY <1>6 DEF CreateLens, Try
  <2>2. CallInv'
    BY <1>6 DEF CreateLens, Try
  <2>3. RestInv'
    BY <1>6 DEF CreateLens, Try
  <2>4. ListInv'
    BY <1>6 DEF CreateLens, Try
  <2>5. MeterInv'
    BY <1>6 DEF CreateLens, Try
  <2> QED
    BY <2>1, <2>2, <2>3, <2>4, <2>5
<1>7. ASSUME StartLensFails
      PROVE  IInv'
  <2>1. TypeOK'
    BY <1>7 DEF StartLensFails
  <2>2. CallInv'
    BY <1>7 DEF StartLensFails
  <2>3. RestInv'
    BY <1>7 DEF StartLensFails
  <2>4. ListInv'
    BY <1>7 DEF StartLensFails
  <2>5. MeterInv'
    BY <1>7 DEF StartLensFails
  <2> QED
    BY <2>1, <2>2, <2>3, <2>4, <2>5
<1>8. ASSUME DropLens
      PROVE  IInv'
  <2>1. TypeOK'
    BY <1>8 DEF DropLens
  <2>2. CallInv'
    BY <1>8 DEF DropLens
  <2>3. RestInv'
    BY <1>8 DEF DropLens
  <2>4. ListInv'
    BY <1>8 DEF DropLens
  <2>5. MeterInv'
    BY <1>8 DEF DropLens
  <2> QED
    BY <2>1, <2>2, <2>3, <2>4, <2>5
<1>9. ASSUME StartLens
      PROVE  IInv'
  <2>1. TypeOK'
    BY <1>9 DEF StartLens
  <2>2. CallInv'
    BY <1>9 DEF StartLens
  <2>3. RestInv'
    BY <1>9 DEF StartLens
  <2>4. ListInv'
    BY <1>9 DEF StartLens
  <2>5. MeterInv'
    BY <1>9 DEF StartLens
  <2> QED
    BY <2>1, <2>2, <2>3, <2>4, <2>5
<1>10. ASSUME StartMetrics
      PROVE  IInv'
  <2>1. TypeOK'
    BY <1>10 DEF StartMetrics, InitCollector, Return
  <2>2. CallInv'
    BY <1>10 DEF StartMetrics, InitCollector, Return
  <2>3. RestInv'
    BY <1>10 DEF StartMetrics, InitCollector, Return
  <2>4. ListInv'
    BY <1>10 DEF StartMetrics, InitCollector, Return
  <2>5. MeterInv'
    BY <1>10 DEF StartMetrics, InitCollector, Return
  <2> QED
    BY <2>1, <2>2, <2>3, <2>4, <2>5
<1>11. ASSUME GiveUp
      PROVE  IInv'
  <2>1. TypeOK'
    BY <1>11 DEF GiveUp, Return
  <2>2. CallInv'
    BY <1>11 DEF GiveUp, Return
  <2>3. RestInv'
    BY <1>11 DEF GiveUp, Return
  <2>4. ListInv'
    BY <1>11 DEF GiveUp, Return
  <2>5. MeterInv'
    BY <1>11 DEF GiveUp, Return
  <2> QED
    BY <2>1, <2>2, <2>3, <2>4, <2>5
<1>12. ASSUME NEW s \in Sessions, NEW operation \in {"stop", "destroy"}, BeginStop(s, operation)
      PROVE  IInv'
  <2>1. TypeOK'
    BY <1>12 DEF BeginStop, Begin
  <2>2. CallInv'
    BY <1>12 DEF BeginStop, Begin
  <2>3. RestInv'
    BY <1>12 DEF BeginStop, Begin
  <2>4. ListInv'
    BY <1>12 DEF BeginStop, Begin
  <2>5. MeterInv'
    BY <1>12 DEF BeginStop, Begin
  <2> QED
    BY <2>1, <2>2, <2>3, <2>4, <2>5
<1>13. ASSUME StopLens
      PROVE  IInv'
  <2>1. TypeOK'
    BY <1>13 DEF StopLens
  <2>2. CallInv'
    BY <1>13 DEF StopLens
  <2>3. RestInv'
    BY <1>13 DEF StopLens
  <2>4. ListInv'
    BY <1>13 DEF StopLens
  <2>5. MeterInv'
    BY <1>13 DEF StopLens
  <2> QED
    BY <2>1, <2>2, <2>3, <2>4, <2>5
<1>14. ASSUME DestroyLens
      PROVE  IInv'
  <2>1. TypeOK'
    BY <1>14 DEF DestroyLens
  <2>2. CallInv'
    BY <1>14 DEF DestroyLens
  <2>3. RestInv'
    BY <1>14 DEF DestroyLens
  <2>4. ListInv'
    BY <1>14 DEF DestroyLens
  <2>5. MeterInv'
    BY <1>14 DEF DestroyLens
  <2> QED
    BY <2>1, <2>2, <2>3, <2>4, <2>5
<1>15. ASSUME CleanupMetrics
      PROVE  IInv'
  <2>1. TypeOK'
    BY <1>15 DEF CleanupMetrics, CleanupCollector, Return
  <2>2. CallInv'
    BY <1>15 DEF CleanupMetrics, CleanupCollector, Return
  <2>3. RestInv'
    BY <1>15 DEF CleanupMetrics, CleanupCollector, Return
  <2>4. ListInv'
    BY <1>15 DEF CleanupMetrics, CleanupCollector, Return
  <2>5. MeterInv'
    BY <1>15 DEF CleanupMetrics, CleanupCollector, Return
  <2> QED
    BY <2>1, <2>2, <2>3, <2>4, <2>5
<1>16. ASSUME NEW s \in Sessions, FreeSession(s)
      PROVE  IInv'
  <2>1. TypeOK'
    BY <1>16 DEF FreeSession
  <2>2. CallInv'
    BY <1>16 DEF FreeSession
  <2>3. RestInv'
    BY <1>16 DEF FreeSession
  <2>4. ListInv'
    BY <1>16 DEF FreeSession
  <2>5. MeterInv'
    BY <1>16 DEF FreeSession
  <2> QED
    BY <2>1, <2>2, <2>3, <2>4, <2>5
<1>17. ASSUME NEW s \in Sessions, ProcessExits(s)
      PROVE  IInv'
  <2>1. TypeOK'
    BY <1>17 DEF ProcessExits
  <2>2. CallInv'
    BY <1>17 DEF ProcessExits
  <2>3. RestInv'
    BY <1>17 DEF ProcessExits
  <2>4. ListInv'
    BY <1>17 DEF ProcessExits
  <2>5. MeterInv'
    BY <1>17 DEF ProcessExits
  <2> QED
    BY <2>1, <2>2, <2>3, <2>4, <2>5
<1>18. ASSUME PresentFrame
      PROVE  IInv'
  <2>1. TypeOK'
    BY <1>18 DEF PresentFrame
  <2>2. CallInv'
    BY <1>18 DEF PresentFrame
  <2>3. RestInv'
    BY <1>18 DEF PresentFrame
  <2>4. ListInv'
    BY <1>18 DEF PresentFrame
  <2>5. MeterInv'
    BY <1>18 DEF PresentFrame
  <2> QED
    BY <2>1, <2>2, <2>3, <2>4, <2>5
<1>19. CASE UNCHANGED vars
  BY <1>19 DEF vars
<1> HIDE DEF IInv
<1> QED
  BY <1>1, <1>2, <1>3, <1>4, <1>5, <1>6, <1>7, <1>8, <1>9, <1>10, <1>11,
     <1>12, <1>13, <1>14, <1>15, <1>16, <1>17, <1>18, <1>19
     DEF Next, CallStep

(* The inductive invariant holds in every reachable state. *)
THEOREM Invariance == Spec => []IInv
  BY Initially, Inductive, PTL DEF Spec

-----------------------------------------------------------------------------
(* Every variable keeps its type, and candidates[] never overflows. *)
THEOREM TypeCorrect == Spec => []TypeOK
<1>1. IInv => TypeOK
  BY DEF IInv
<1> QED
  BY <1>1, Invariance, PTL

(* For every configuration, start tries the selected lens first, and every *)
(* configured fallback and waypipe, each once and no other.                *)
THEOREM CandidatesCorrect == Spec => []CandidatesComplete
<1>1. ASSUME IInv
      PROVE  CandidatesComplete
  <2> SUFFICES ASSUME pc \in {"attempt", "start", "drop", "metrics"}
               PROVE  LET wanted == {SelectLens(config[cur]), "waypipe"}
                                      \cup Elements(config[cur].fallback)
                      IN  /\ candidates # <<>>
                          /\ candidates[1] = SelectLens(config[cur])
                          /\ Elements(candidates) = wanted
                          /\ \A j, k \in DOMAIN candidates :
                               j # k => candidates[j] # candidates[k]
    BY DEF CandidatesComplete
  <2>1. candidates \in Seq(LensTypes) /\ DOMAIN candidates = 1 .. Len(candidates)
    BY <1>1 DEF IInv, TypeOK
  <2>2. /\ Len(candidates) >= 1 /\ candidates[1] = SelectLens(config[cur])
        /\ \A j, k \in 1 .. Len(candidates) : j # k => candidates[j] # candidates[k]
        /\ \A k \in 1 .. Len(candidates) : candidates[k] \in Wanted(config[cur])
        /\ Wanted(config[cur]) \subseteq Elements(candidates)
    BY <1>1 DEF IInv, ListInv, StartStates
  <2>3. Elements(candidates) \subseteq Wanted(config[cur])
    BY <2>1, <2>2, ElementsAt
  <2>4. candidates # <<>>
    BY <2>1, <2>2
  <2> QED
    BY <2>1, <2>2, <2>3, <2>4 DEF Wanted
<1>2. IInv => CandidatesComplete
  BY <1>1
<1> QED
  BY <1>2, Invariance, PTL

(* A session that does not run, was destroyed or failed to start has left  *)
(* no lens session and no process behind.                                  *)
THEOREM OwnershipSafety == Spec => []SessionOwnsItsLens
<1>1. IInv => SessionOwnsItsLens
  BY DEF IInv, RestInv, SessionOwnsItsLens
<1> QED
  BY <1>1, Invariance, PTL

(* The collector is gone with the last session. *)
THEOREM CollectorSafety == Spec => []CollectorOwnerRuns
<1>1. IInv => CollectorOwnerRuns
  BY DEF IInv, MeterInv
<1> QED
  BY <1>1, Invariance, PTL

(* A session that never ran beside another one is metered. *)
THEOREM MeteringSafety == Spec => []MeteredUnlessShared
<1>1. IInv => MeteredUnlessShared
  BY DEF IInv, MeterInv
<1> QED
  BY <1>1, Invariance, PTL

-----------------------------------------------------------------------------
(* What a step does to the sessions *)

KeepsLens(r) ==
  /\ lensType'[r] = lensType[r] /\ attached'[r] = attached[r]
  /\ lens'[r] = lens[r] /\ process'[r] \in {process[r], "dead"}

(* While it runs and is not being stopped, a session keeps its lens. *)
LEMMA StepKeepsLens ==
  ASSUME IInv, [Next]_vars, NEW r \in Sessions, running[r], running'[r],
         cur # r \/ op = "start"
  PROVE  KeepsLens(r)
<1> USE SessionAssumption DEF IInv, TypeOK, CallInv, RestInv, StartStates, StopStates,
        KeepsLens
<1>1. ASSUME NEW s \in Sessions, NEW c \in Configs, CreateSession(s, c)
      PROVE  KeepsLens(r)
  BY <1>1 DEF CreateSession, lensVars, callVars
<1>2. ASSUME NEW s \in Sessions, BeginStart(s)
      PROVE  KeepsLens(r)
  BY <1>2 DEF BeginStart, Begin, sessionVars, lensVars
<1>3. ASSUME CollectFallback
      PROVE  KeepsLens(r)
  BY <1>3 DEF CollectFallback, sessionVars, lensVars
<1>4. ASSUME EnsureWaypipe
      PROVE  KeepsLens(r)
  BY <1>4 DEF EnsureWaypipe, sessionVars, lensVars
<1>5. ASSUME CreateLensFails
      PROVE  KeepsLens(r)
  BY <1>5 DEF CreateLensFails, Try, sessionVars
<1>6. ASSUME CreateLens
      PROVE  KeepsLens(r)
  BY <1>6 DEF CreateLens, Try, sessionVars
<1>7. ASSUME StartLensFails
      PROVE  KeepsLens(r)
  BY <1>7 DEF StartLensFails, sessionVars, lensVars
<1>8. ASSUME DropLens
      PROVE  KeepsLens(r)
  BY <1>8 DEF DropLens, sessionVars
<1>9. ASSUME StartLens
      PROVE  KeepsLens(r)
  BY <1>9 DEF StartLens
<1>10. ASSUME StartMetrics
      PROVE  KeepsLens(r)
  BY <1>10 DEF StartMetrics, lensVars
<1>11. ASSUME GiveUp
      PROVE  KeepsLens(r)
  BY <1>11 DEF GiveUp, lensVars
<1>12. ASSUME NEW s \in Sessions, NEW operation \in {"stop", "destroy"}, BeginStop(s, operation)
      PROVE  KeepsLens(r)
  BY <1>12 DEF BeginStop, Begin, sessionVars, lensVars
<1>13. ASSUME StopLens
      PROVE  KeepsLens(r)
  BY <1>13 DEF StopLens, sessionVars
<1>14. ASSUME DestroyLens
      PROVE  KeepsLens(r)
  BY <1>14 DEF DestroyLens
<1>15. ASSUME CleanupMetrics
      PROVE  KeepsLens(r)
  BY <1>15 DEF CleanupMetrics, lensVars
<1>16. ASSUME NEW s \in Sessions, FreeSession(s)
      PROVE  KeepsLens(r)
  BY <1>16 DEF FreeSession, lensVars
<1>17. ASSUME NEW s \in Sessions, ProcessExits(s)
      PROVE  KeepsLens(r)
  BY <1>17 DEF ProcessExits, sessionVars
<1>18. ASSUME PresentFrame
      PROVE  KeepsLens(r)
  BY <1>18 DEF PresentFrame, sessionVars, lensVars
<1>19. CASE UNCHANGED vars
  BY <1>19 DEF vars, sessionVars, lensVars
<1> HIDE DEF IInv, KeepsLens
<1> QED
  BY <1>1, <1>2, <1>3, <1>4, <1>5, <1>6, <1>7, <1>8, <1>9, <1>10, <1>11,
     <1>12, <1>13, <1>14, <1>15, <1>16, <1>17, <1>18, <1>19
     DEF Next, CallStep

(* The lens of a running session is never exchanged. *)
THEOREM StabilitySafety == Spec => RunningLensStable
<1>1. IInv /\ [Next]_vars =>
        [\A s \in Sessions :
           running[s] /\ running'[s] /\ (cur # s \/ op = "start") =>
             /\ lensType'[s] = lensType[s] /\ attached'[s] = attached[s]
             /\ lens'[s] = lens[s] /\ process'[s] \in {process[s], "dead"}]_vars
  BY StepKeepsLens DEF KeepsLens
<1> QED
  BY <1>1, Invariance, PTL DEF Spec, RunningLensStable

(* The session layer drives each lens through the steps lens.h allows. *)
LEMMA StepUsesLens ==
  ASSUME IInv, [Next]_vars
  PROVE  [TL!Next]_(TL!vars)
<1> USE SessionAssumption DEF IInv, TypeOK, CallInv, RestInv, StartStates, StopStates
<1>1. ASSUME NEW s \in Sessions, NEW c \in Configs, CreateSession(s, c)
      PROVE  UNCHANGED TL!vars
  BY <1>1 DEF CreateSession, lensVars, TL!vars
<1>2. ASSUME NEW s \in Sessions, BeginStart(s)
      PROVE  UNCHANGED TL!vars
  BY <1>2 DEF BeginStart, lensVars, TL!vars
<1>3. ASSUME CollectFallback
      PROVE  UNCHANGED TL!vars
  BY <1>3 DEF CollectFallback, lensVars, TL!vars
<1>4. ASSUME EnsureWaypipe
      PROVE  UNCHANGED TL!vars
  BY <1>4 DEF EnsureWaypipe, lensVars, TL!vars
<1>5. ASSUME CreateLensFails
      PROVE  UNCHANGED TL!vars
  BY <1>5 DEF CreateLensFails, Try, lensVars, TL!vars
<1>6. ASSUME CreateLens
      PROVE  TL!Create(cur) /\ cur \in Sessions
  BY <1>6 DEF CreateLens, Try, sessionVars, TL!Create
<1>7. ASSUME StartLensFails
      PROVE  UNCHANGED TL!vars
  BY <1>7 DEF StartLensFails, lensVars, TL!vars
<1>8. ASSUME DropLens
      PROVE  TL!Destroy(cur) /\ cur \in Sessions
  BY <1>8 DEF DropLens, sessionVars, TL!Destroy
<1>9. ASSUME StartLens
      PROVE  TL!Start(cur) /\ cur \in Sessions
  BY <1>9 DEF StartLens, TL!Start
<1>10. ASSUME StartMetrics
      PROVE  UNCHANGED TL!vars
  BY <1>10 DEF StartMetrics, lensVars, TL!vars
<1>11. ASSUME GiveUp
      PROVE  UNCHANGED TL!vars
  BY <1>11 DEF GiveUp, lensVars, TL!vars
<1>12. ASSUME NEW s \in Sessions, NEW operation \in {"stop", "destroy"}, BeginStop(s, operation)
      PROVE  UNCHANGED TL!vars
  BY <1>12 DEF BeginStop, lensVars, TL!vars
<1>13. ASSUME StopLens
      PROVE  TL!Stop(cur) /\ cur \in Sessions
  BY <1>13 DEF StopLens, sessionVars, TL!Stop
<1>14. ASSUME DestroyLens
      PROVE  TL!Destroy(cur) /\ cur \in Sessions
  BY <1>14 DEF DestroyLens, TL!Destroy
<1>15. ASSUME CleanupMetrics
      PROVE  UNCHANGED TL!vars
  BY <1>15 DEF CleanupMetrics, lensVars, TL!vars
<1>16. ASSUME NEW s \in Sessions, FreeSession(s)
      PROVE  UNCHANGED TL!vars
  BY <1>16 DEF FreeSession, lensVars, TL!vars
<1>17. ASSUME NEW s \in Sessions, ProcessExits(s)
      PROVE  TL!Exit(s)
  BY <1>17 DEF ProcessExits, sessionVars, TL!Exit
<1>18. ASSUME PresentFrame
      PROVE  UNCHANGED TL!vars
  BY <1>18 DEF PresentFrame, lensVars, TL!vars
<1>19. CASE UNCHANGED vars
  BY <1>19 DEF vars, lensVars, TL!vars
<1> HIDE DEF IInv
<1> QED
  BY <1>1, <1>2, <1>3, <1>4, <1>5, <1>6, <1>7, <1>8, <1>9, <1>10, <1>11,
     <1>12, <1>13, <1>14, <1>15, <1>16, <1>17, <1>18, <1>19
     DEF Next, CallStep, TL!Next

(* The session layer implements what TransportLens lets its user do. *)
THEOREM ProtocolSafety == Spec => UsesLensAsPromised
<1>1. Init => TL!Init
  BY DEF Init, TL!Init
<1>2. IInv /\ [Next]_vars => [TL!Next]_(TL!vars)
  BY StepUsesLens
<1> QED
  BY <1>1, <1>2, Invariance, PTL DEF Spec, UsesLensAsPromised, TL!Spec


-----------------------------------------------------------------------------
(* The order of the attempts.                                              *)

(* Every lens on the list is asked for, at a place before which nothing is *)
(* asked for that is not on the list before it.                            *)
Ordered(list, wishes) ==
  \A n \in 1 .. Len(list) :
    \E k \in 1 .. Len(wishes) :
      /\ wishes[k] = list[n]
      /\ \A j \in 1 .. k - 1 : \E m \in 1 .. n - 1 : list[m] = wishes[j]

Attempting == {"attempt", "start", "drop", "metrics"}

(* The candidates are in order, and the lenses tried are the first ones.   *)
OrderInv ==
  /\ pc \notin Attempting => tried = <<>>
  /\ pc \in StartStates => Ordered(candidates, Wishes(config[cur]))
  /\ pc \in Attempting =>
       /\ Len(tried) = (IF pc = "attempt" THEN i - 1 ELSE i)
       /\ Len(tried) <= Len(candidates)
       /\ \A n \in 1 .. Len(tried) : tried[n] = candidates[n]
  /\ pc = "metrics" => lensType[cur] = candidates[i]

LEMMA WishesAt ==
  ASSUME NEW c \in ConfigType
  PROVE  /\ Wishes(c) \in Seq(LensTypes) /\ Len(Wishes(c)) = Len(c.fallback) + 2
         /\ Len(c.fallback) \in Nat
         /\ Wishes(c)[1] = SelectLens(c)
         /\ \A k \in 1 .. Len(c.fallback) : Wishes(c)[k + 1] = c.fallback[k]
         /\ Wishes(c)[Len(c.fallback) + 2] = "waypipe"
<1> DEFINE f == c.fallback
           p == SelectLens(c)
<1>1. f \in Seq(LensTypes) /\ p \in LensTypes /\ "waypipe" \in LensTypes
  BY SelectLensType DEF ConfigType, LensTypes
<1>2. Wishes(c) = <<p>> \o f \o <<"waypipe">>
  BY DEF Wishes
<1> HIDE DEF f, p
<1>3. /\ <<p>> \o f \in Seq(LensTypes) /\ Len(<<p>> \o f) = Len(f) + 1
      /\ (<<p>> \o f)[1] = p
      /\ \A k \in 1 .. Len(f) : (<<p>> \o f)[k + 1] = f[k]
  BY <1>1
<1> DEFINE g == <<p>> \o f
<1>4. g \in Seq(LensTypes) /\ Len(g) = Len(f) + 1 /\ Len(f) \in Nat
  BY <1>1, <1>3
<1> HIDE DEF g
<1>5. /\ g \o <<"waypipe">> \in Seq(LensTypes) /\ Len(g \o <<"waypipe">>) = Len(f) + 2
      /\ \A k \in 1 .. Len(f) + 1 : (g \o <<"waypipe">>)[k] = g[k]
      /\ (g \o <<"waypipe">>)[Len(f) + 2] = "waypipe"
  BY <1>1, <1>4
<1>6. /\ Wishes(c) \in Seq(LensTypes) /\ Len(Wishes(c)) = Len(f) + 2
      /\ \A k \in 1 .. Len(f) + 1 : Wishes(c)[k] = g[k]
      /\ Wishes(c)[Len(f) + 2] = "waypipe"
  BY <1>2, <1>5 DEF g
<1>7. g[1] = p /\ \A k \in 1 .. Len(f) : g[k + 1] = f[k]
  BY <1>3 DEF g
<1>8. Wishes(c)[1] = p
  <2>1. 1 \in 1 .. Len(f) + 1
    BY <1>4
  <2> QED
    BY <1>6, <1>7, <2>1
<1>9. ASSUME NEW k \in 1 .. Len(f) PROVE Wishes(c)[k + 1] = f[k]
  <2>1. k + 1 \in 1 .. Len(f) + 1
    BY <1>4
  <2> QED
    BY <1>6, <1>7, <2>1
<1> QED
  BY <1>4, <1>6, <1>8, <1>9 DEF f, p

LEMMA WishesWanted ==
  ASSUME NEW c \in ConfigType
  PROVE  Elements(Wishes(c)) = Wanted(c)
<1> DEFINE f == c.fallback
           w == Wishes(c)
<1>1. /\ w \in Seq(LensTypes) /\ Len(w) = Len(f) + 2 /\ Len(f) \in Nat
      /\ w[1] = SelectLens(c)
      /\ \A k \in 1 .. Len(f) : w[k + 1] = f[k]
      /\ w[Len(f) + 2] = "waypipe"
  BY WishesAt
<1>2. f \in Seq(LensTypes)
  BY DEF ConfigType
<1>3. DOMAIN f = 1 .. Len(f) /\ DOMAIN w = 1 .. Len(f) + 2
  BY <1>1, <1>2
<1> HIDE DEF f, w
<1>4. ASSUME NEW k \in 1 .. Len(f) + 2
      PROVE  w[k] \in {SelectLens(c), "waypipe"} \cup Elements(f)
  <2>1. CASE k = 1 \/ k = Len(f) + 2
    BY <1>1, <2>1
  <2>2. CASE ~(k = 1 \/ k = Len(f) + 2)
    <3>1. PICK j \in 1 .. Len(f) : k = j + 1
      <4>1. k - 1 \in 1 .. Len(f) /\ k = (k - 1) + 1
        BY <1>1, <2>2
      <4> QED
        BY <4>1
    <3>2. w[k] = f[j]
      BY <1>1, <3>1
    <3> QED
      BY <1>3, <3>2 DEF Elements
  <2> QED
    BY <2>1, <2>2
<1>5. ASSUME NEW k \in 1 .. Len(f) PROVE f[k] \in Elements(w)
  <2>1. k + 1 \in 1 .. Len(f) + 2 /\ w[k + 1] = f[k]
    BY <1>1
  <2> QED
    BY <1>3, <2>1 DEF Elements
<1>6. SelectLens(c) \in Elements(w) /\ "waypipe" \in Elements(w)
  <2>1. 1 \in DOMAIN w /\ Len(f) + 2 \in DOMAIN w
    BY <1>1, <1>3
  <2> QED
    BY <1>1, <2>1 DEF Elements
<1>7. Elements(w) \subseteq {SelectLens(c), "waypipe"} \cup Elements(f)
  BY <1>3, <1>4 DEF Elements
<1>8. Elements(f) \subseteq Elements(w)
  BY <1>3, <1>5 DEF Elements
<1>9. Elements(w) = {SelectLens(c), "waypipe"} \cup Elements(f)
  BY <1>6, <1>7, <1>8
<1> QED
  BY <1>9 DEF Wanted, f, w

(* Appending the next lens that is asked for keeps the order.              *)
LEMMA AddOrdered ==
  ASSUME NEW list \in Seq(LensTypes), NEW wishes \in Seq(LensTypes),
         Ordered(list, wishes), NEW k \in 1 .. Len(wishes),
         \A j \in 1 .. k - 1 : \E m \in 1 .. Len(list) : list[m] = wishes[j]
  PROVE  Ordered(Append(list, wishes[k]), wishes)
<1> DEFINE new == Append(list, wishes[k])
           len == Len(list)
<1>1. /\ len \in Nat /\ Len(new) = len + 1 /\ new[len + 1] = wishes[k]
      /\ \A m \in 1 .. len : new[m] = list[m]
  OBVIOUS
<1> HIDE DEF new, len
<1>2. ASSUME NEW n \in 1 .. len + 1
      PROVE  \E p \in 1 .. Len(wishes) :
               /\ wishes[p] = new[n]
               /\ \A j \in 1 .. p - 1 : \E m \in 1 .. n - 1 : new[m] = wishes[j]
  <2>1. CASE n = len + 1
    <3>1. n - 1 = len
      BY <1>1, <2>1
    <3>2. \A j \in 1 .. k - 1 : \E m \in 1 .. n - 1 : new[m] = wishes[j]
      BY <1>1, <3>1 DEF len
    <3> QED
      BY <1>1, <2>1, <3>2
  <2>2. CASE n # len + 1
    <3>1. n \in 1 .. len /\ \A m \in 1 .. n - 1 : m \in 1 .. len
      BY <1>1, <2>2
    <3>2. PICK p \in 1 .. Len(wishes) :
            /\ wishes[p] = list[n]
            /\ \A j \in 1 .. p - 1 : \E m \in 1 .. n - 1 : list[m] = wishes[j]
      BY <3>1 DEF Ordered, len
    <3>3. wishes[p] = new[n]
      BY <1>1, <3>1, <3>2
    <3>4. \A j \in 1 .. p - 1 : \E m \in 1 .. n - 1 : new[m] = wishes[j]
      BY <1>1, <3>1, <3>2
    <3> QED
      BY <3>3, <3>4
  <2> QED
    BY <2>1, <2>2
<1>3. Ordered(new, wishes)
  BY <1>1, <1>2 DEF Ordered
<1> QED
  BY <1>3 DEF new

(* So does adding a lens that may be on the list already.                  *)
LEMMA AddingOrdered ==
  ASSUME candidates \in Seq(LensTypes), NEW wishes \in Seq(LensTypes),
         Ordered(candidates, wishes), NEW k \in 1 .. Len(wishes),
         \A j \in 1 .. k - 1 : wishes[j] \in Elements(candidates)
  PROVE  Ordered(AddIfNew(wishes[k]), wishes)
<1>1. CASE wishes[k] \in Elements(candidates)
  BY <1>1 DEF AddIfNew
<1>2. CASE wishes[k] \notin Elements(candidates)
  <2>1. \A j \in 1 .. k - 1 : \E m \in 1 .. Len(candidates) : candidates[m] = wishes[j]
    BY ElementsAt
  <2>2. Ordered(Append(candidates, wishes[k]), wishes)
    BY <2>1, AddOrdered
  <2> QED
    BY <1>2, <2>2 DEF AddIfNew
<1> QED
  BY <1>1, <1>2

LEMMA OrderKept == IInv /\ OrderInv /\ [Next]_vars => OrderInv'
<1> SUFFICES ASSUME IInv, OrderInv, [Next]_vars
             PROVE  OrderInv'
  OBVIOUS
<1> DEFINE c == config[cur]
           Same == UNCHANGED <<pc, i, candidates, tried>>
<1>0. /\ TypeOK
      /\ cur \in Sessions => config[cur] # NoConfig
      /\ pc = "idle" <=> cur = NoSession
  BY DEF IInv, CallInv
<1>1. ASSUME pc \in StartStates
      PROVE  c \in ConfigType /\ Wishes(c) \in Seq(LensTypes) /\ cur \in Sessions
  <2>1. cur \in Sessions /\ c \in Configs
    BY <1>0, <1>1, SessionAssumption DEF TypeOK, StartStates
  <2> QED
    BY <2>1, SessionAssumption, WishesAt
\* Outside the start of a session.
<1>2. ASSUME pc \notin StartStates, pc' \notin StartStates, tried' \in {tried, <<>>}
      PROVE  OrderInv'
  BY <1>2 DEF OrderInv, StartStates, Attempting
\* A step of somebody else while a session starts, which keeps its locals.
<1>3. ASSUME UNCHANGED <<callVars, tried>>, pc \in StartStates => config'[cur] = config[cur],
             pc = "metrics" => lensType'[cur] = lensType[cur]
      PROVE  OrderInv'
  BY <1>3 DEF OrderInv, callVars, StartStates, Attempting
<1>4. CASE \E s \in Sessions, d \in Configs : CreateSession(s, d)
  BY <1>4, <1>2 DEF CreateSession, callVars, history, StartStates
<1>5. ASSUME NEW s \in Sessions, BeginStart(s)
      PROVE  OrderInv'
  <2>1. /\ pc' = "collect" /\ candidates' = <<SelectLens(config[s])>> /\ cur' = s
        /\ config' = config /\ tried' = tried /\ pc = "idle"
    BY <1>5 DEF BeginStart, Begin, sessionVars, history
  <2>2. config[s] \in ConfigType
    BY <1>0, <1>5, SessionAssumption DEF BeginStart, Begin, TypeOK
  <2>3. Wishes(config[s])[1] = SelectLens(config[s]) /\ 1 \in 1 .. Len(Wishes(config[s]))
    BY <2>2, WishesAt
  <2>4. Ordered(<<SelectLens(config[s])>>, Wishes(config[s]))
    BY <2>3 DEF Ordered
  <2>5. tried' = <<>>
    BY <2>1 DEF OrderInv, Attempting
  <2> QED
    BY <2>1, <2>4, <2>5 DEF OrderInv, Attempting, StartStates
<1>6. CASE CollectFallback
  <2>1. /\ pc = "collect" /\ pc' = "collect" /\ tried' = tried /\ c' = c
        /\ i <= Len(c.fallback) /\ candidates' = AddIfNew(c.fallback[i])
    BY <1>6 DEF CollectFallback, sessionVars, history
  <2>2. /\ c \in ConfigType /\ Wishes(c) \in Seq(LensTypes) /\ candidates \in Seq(LensTypes)
        /\ i \in Nat /\ i >= 1
    BY <1>0, <1>1, <2>1 DEF IInv, ListInv, StartStates, TypeOK
  <2>3. i \in 1 .. Len(c.fallback) /\ Len(c.fallback) \in Nat
    BY <2>1, <2>2, WishesAt
  <2>4. /\ Wishes(c)[i + 1] = c.fallback[i] /\ i + 1 \in 1 .. Len(Wishes(c))
    BY <2>2, <2>3, WishesAt
  <2>5. ASSUME NEW j \in 1 .. (i + 1) - 1 PROVE Wishes(c)[j] \in Elements(candidates)
    <3>1. CASE j = 1
      <4>1. Wishes(c)[1] = candidates[1] /\ 1 \in 1 .. Len(candidates)
        BY <2>1, <2>2, WishesAt DEF IInv, ListInv, StartStates
      <4> QED
        BY <2>2, <3>1, <4>1, ElementsAt
    <3>2. CASE j # 1
      <4>1. PICK k \in 1 .. Len(c.fallback) : j = k + 1 /\ k < i
        <5>1. j - 1 \in 1 .. Len(c.fallback) /\ j = (j - 1) + 1 /\ j - 1 < i
          BY <2>3, <3>2
        <5> QED
          BY <5>1
      <4>2. c.fallback[k] \in Elements(candidates)
        BY <2>1, <4>1 DEF IInv, ListInv, StartStates
      <4>3. Wishes(c)[k + 1] = c.fallback[k]
        BY <2>2, WishesAt
      <4> QED
        BY <4>1, <4>2, <4>3
    <3> QED
      BY <3>1, <3>2
  <2>6. Ordered(candidates, Wishes(c))
    BY <2>1 DEF OrderInv, StartStates
  <2> HIDE DEF c
  <2>7. Ordered(AddIfNew(Wishes(c)[i + 1]), Wishes(c))
    BY <2>2, <2>4, <2>5, <2>6, AddingOrdered
  <2>8. Ordered(candidates', Wishes(c'))
    BY <2>1, <2>4, <2>7
  <2> QED
    BY <2>1, <2>8 DEF OrderInv, StartStates, Attempting, c
<1>7. CASE EnsureWaypipe
  <2>1. /\ pc = "collect" /\ pc' = "attempt" /\ tried' = tried /\ c' = c /\ i' = 1
        /\ ~(i <= Len(c.fallback) /\ HasRoom)
        /\ candidates' = IF HasRoom THEN AddIfNew("waypipe") ELSE candidates
    BY <1>7 DEF EnsureWaypipe, sessionVars, history
  <2>2. /\ c \in ConfigType /\ Wishes(c) \in Seq(LensTypes) /\ candidates \in Seq(LensTypes)
        /\ i \in Nat
    BY <1>0, <1>1, <2>1 DEF StartStates, TypeOK
  <2>3. Ordered(candidates, Wishes(c)) /\ tried = <<>>
    BY <2>1 DEF OrderInv, StartStates, Attempting
  <2>4. Ordered(candidates', Wishes(c))
    <3>1. CASE HasRoom
      <4> DEFINE n == Len(c.fallback) + 2
      <4>1. /\ Wishes(c)[n] = "waypipe" /\ n \in 1 .. Len(Wishes(c))
            /\ Len(c.fallback) \in Nat
        BY <2>2, WishesAt
      <4>2. ASSUME NEW j \in 1 .. n - 1 PROVE Wishes(c)[j] \in Elements(candidates)
        <5>1. CASE j = 1
          <6>1. Wishes(c)[1] = candidates[1] /\ 1 \in 1 .. Len(candidates)
            BY <2>1, <2>2, WishesAt DEF IInv, ListInv, StartStates
          <6> QED
            BY <2>2, <5>1, <6>1, ElementsAt
        <5>2. CASE j # 1
          <6>1. PICK k \in 1 .. Len(c.fallback) : j = k + 1 /\ k < i
            <7>1. j - 1 \in 1 .. Len(c.fallback) /\ j = (j - 1) + 1 /\ j - 1 < i
              BY <2>1, <2>2, <3>1, <4>1, <5>2
            <7> QED
              BY <7>1
          <6>2. c.fallback[k] \in Elements(candidates)
            BY <2>1, <6>1 DEF IInv, ListInv, StartStates
          <6>3. Wishes(c)[k + 1] = c.fallback[k]
            BY <2>2, WishesAt
          <6> QED
            BY <6>1, <6>2, <6>3
        <5> QED
          BY <5>1, <5>2
      <4> HIDE DEF c, n
      <4>3. Ordered(AddIfNew(Wishes(c)[n]), Wishes(c))
        BY <2>2, <2>3, <4>1, <4>2, AddingOrdered
      <4> QED
        BY <2>1, <3>1, <4>1, <4>3
    <3>2. CASE ~HasRoom
      BY <2>1, <2>3, <3>2
    <3> QED
      BY <3>1, <3>2
  <2>5. Len(tried') = 0 /\ Len(candidates') \in Nat /\ i' - 1 = 0
    <3>1. TypeOK'
      BY Inductive DEF IInv
    <3> QED
      BY <2>1, <2>3, <3>1 DEF TypeOK
  <2> QED
    BY <2>1, <2>4, <2>5 DEF OrderInv, StartStates, Attempting
<1>8. CASE CreateLensFails \/ CreateLens
  <2>1. /\ pc = "attempt" /\ i <= Len(candidates) /\ tried' = Append(tried, candidates[i])
        /\ candidates' = candidates /\ c' = c
        /\ \/ pc' = "attempt" /\ i' = i + 1
           \/ pc' = "start" /\ i' = i
    BY <1>8 DEF CreateLensFails, CreateLens, Try, sessionVars
  <2>2. /\ Ordered(candidates, Wishes(c)) /\ Len(tried) = i - 1
        /\ \A n \in 1 .. Len(tried) : tried[n] = candidates[n]
    BY <2>1 DEF OrderInv, StartStates, Attempting
  <2>3. /\ i \in Nat /\ i >= 1 /\ tried \in Seq(LensTypes) /\ candidates \in Seq(LensTypes)
    BY <1>0, <2>1 DEF IInv, ListInv, StartStates, TypeOK
  <2>4. candidates[i] \in LensTypes
    BY <2>1, <2>3
  <2>5. /\ Len(tried') = i /\ tried'[i] = candidates[i]
        /\ \A n \in 1 .. i - 1 : tried'[n] = tried[n]
    BY <2>1, <2>2, <2>3, <2>4
  <2>6. \A n \in 1 .. i : tried'[n] = candidates[n]
    <3> TAKE n \in 1 .. i
    <3>1. n = i \/ n \in 1 .. i - 1
      BY <2>3
    <3> QED
      BY <2>2, <2>5, <3>1
  <2>7. Len(tried') = (IF pc' = "attempt" THEN i' - 1 ELSE i')
    BY <2>1, <2>3, <2>5
  <2>8. pc' \in {"attempt", "start"} /\ Len(tried') <= Len(candidates')
    BY <2>1, <2>5
  <2> QED
    BY <2>1, <2>2, <2>5, <2>6, <2>7, <2>8 DEF OrderInv, StartStates, Attempting
<1>9. CASE StartLensFails \/ DropLens
  <2>1. /\ candidates' = candidates /\ c' = c /\ tried' = tried
        /\ \/ pc = "start" /\ pc' = "drop" /\ i' = i
           \/ pc = "drop" /\ pc' = "attempt" /\ i' = i + 1
    BY <1>9 DEF StartLensFails, DropLens, sessionVars, history
  <2>2. /\ Ordered(candidates, Wishes(c)) /\ Len(tried) = i /\ Len(tried) <= Len(candidates)
        /\ \A n \in 1 .. Len(tried) : tried[n] = candidates[n]
    BY <2>1 DEF OrderInv, StartStates, Attempting
  <2>3. i \in Nat
    BY <1>0 DEF TypeOK
  <2>4. Len(tried') = (IF pc' = "attempt" THEN i' - 1 ELSE i')
    BY <2>1, <2>2, <2>3
  <2> QED
    BY <2>1, <2>2, <2>4 DEF OrderInv, StartStates, Attempting
<1>10. CASE StartLens
  <2>1. /\ candidates' = candidates /\ config' = config /\ cur' = cur /\ tried' = tried
        /\ pc = "start" /\ pc' = "metrics" /\ i' = i
        /\ lensType' = [lensType EXCEPT ![cur] = candidates[i]]
    BY <1>10 DEF StartLens, history
  <2>2. lensType'[cur'] = candidates'[i']
    BY <1>0, <1>1, <2>1 DEF TypeOK, StartStates
  <2> QED
    BY <2>1, <2>2 DEF OrderInv, StartStates, Attempting
<1>11. CASE StartMetrics \/ GiveUp \/ CleanupMetrics
  BY <1>11 DEF StartMetrics, GiveUp, CleanupMetrics, Return, OrderInv, StartStates, Attempting
<1>12. CASE StopLens \/ DestroyLens
  BY <1>2, <1>12 DEF StopLens, DestroyLens, history, StartStates
<1>13. CASE \E s \in Sessions : FreeSession(s)
  BY <1>2, <1>13 DEF FreeSession, callVars, history, StartStates
<1>14. CASE \E s \in Sessions : ProcessExits(s)
  BY <1>3, <1>14 DEF ProcessExits, sessionVars, history
<1>15. CASE PresentFrame
  BY <1>3, <1>15 DEF PresentFrame, sessionVars
<1>16. CASE \E s \in Sessions, operation \in {"stop", "destroy"} : BeginStop(s, operation)
  BY <1>2, <1>16 DEF BeginStop, Begin, history, StartStates
<1>17. CASE UNCHANGED vars
  BY <1>3, <1>17 DEF vars, sessionVars, history
<1> QED
  BY <1>4, <1>5, <1>6, <1>7, <1>8, <1>9, <1>10, <1>11, <1>12, <1>13, <1>14, <1>15, <1>16,
     <1>17 DEF Next, CallStep

(* For any fallback list, and whichever lenses fail to be created or to    *)
(* start, each lens asked for is tried once, in the order of the           *)
(* configuration, none is skipped before start gives up, and the lens      *)
(* recorded is the one that started (telescope.c:66-126).                  *)
THEOREM AttemptsSafety == Spec => []AttemptsFollowPlan
<1>1. Init => OrderInv
  BY DEF Init, OrderInv, StartStates, Attempting
<1>2. IInv /\ OrderInv => AttemptsFollowPlan
  <2> SUFFICES ASSUME IInv, OrderInv, pc \in Attempting
               PROVE  AttemptsFollowPlan
    BY DEF AttemptsFollowPlan, Attempting
  <2> DEFINE c == config[cur]
             wishes == Wishes(c)
             before(n) == {tried[m] : m \in 1 .. n - 1}
  <2>1. c \in ConfigType
    BY SessionAssumption DEF IInv, CallInv, TypeOK, Attempting, PcStates
  <2>2. /\ tried \in Seq(LensTypes) /\ candidates \in Seq(LensTypes) /\ i \in Nat
        /\ wishes \in Seq(LensTypes)
    BY <2>1, WishesAt DEF IInv, TypeOK
  <2>3. /\ Len(tried) = (IF pc = "attempt" THEN i - 1 ELSE i)
        /\ Len(tried) <= Len(candidates)
        /\ \A n \in 1 .. Len(tried) : tried[n] = candidates[n]
        /\ Ordered(candidates, wishes)
        /\ pc = "metrics" => lensType[cur] = candidates[i]
    BY DEF OrderInv, Attempting, StartStates
  <2>4. /\ \A j, k \in 1 .. Len(candidates) : j # k => candidates[j] # candidates[k]
        /\ \A k \in 1 .. Len(candidates) : candidates[k] \in Wanted(c)
        /\ Wanted(c) \subseteq Elements(candidates) /\ i >= 1
    BY DEF IInv, ListInv, Attempting, StartStates
  <2> HIDE DEF wishes
  <2>5. ASSUME NEW n \in 1 .. Len(tried)
        PROVE  tried[n] \notin before(n) /\
               \E k \in DOMAIN wishes :
                 wishes[k] = tried[n] /\ \A j \in 1 .. k - 1 : wishes[j] \in before(n)
    <3>1. /\ n \in 1 .. Len(candidates) /\ tried[n] = candidates[n]
          /\ \A m \in 1 .. n - 1 : m \in 1 .. Len(candidates) /\ tried[m] = candidates[m] /\ m # n
      BY <2>2, <2>3
    <3>2. tried[n] \notin before(n)
      BY <2>4, <3>1
    <3>3. PICK k \in 1 .. Len(wishes) :
            /\ wishes[k] = candidates[n]
            /\ \A j \in 1 .. k - 1 : \E m \in 1 .. n - 1 : candidates[m] = wishes[j]
      BY <2>3, <3>1 DEF Ordered
    <3>4. k \in DOMAIN wishes /\ wishes[k] = tried[n]
      BY <2>2, <3>1, <3>3
    <3>5. \A j \in 1 .. k - 1 : wishes[j] \in before(n)
      BY <3>1, <3>3
    <3> QED
      BY <3>2, <3>4, <3>5
  <2>6. ASSUME pc = "attempt", i > Len(candidates)
        PROVE  Elements(tried) = Elements(wishes)
    <3>1. Len(tried) = Len(candidates)
      BY <2>2, <2>3, <2>6
    <3>2. Elements(tried) = Elements(candidates)
      BY <2>2, <2>3, <3>1 DEF Elements
    <3>3. Elements(candidates) = Wanted(c)
      BY <2>2, <2>4, ElementsAt
    <3> QED
      BY <2>1, <3>2, <3>3, WishesWanted DEF wishes
  <2>7. pc = "metrics" => lensType[cur] = tried[Len(tried)]
    BY <2>2, <2>3, <2>4
  <2>8. DOMAIN tried = 1 .. Len(tried)
    BY <2>2
  <2> QED
    BY <2>5, <2>6, <2>7, <2>8 DEF AttemptsFollowPlan, wishes
<1> QED
  BY <1>1, <1>2, OrderKept, Invariance, PTL DEF Spec

=============================================================================
