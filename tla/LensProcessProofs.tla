-------------------------- MODULE LensProcessProofs --------------------------
(***************************************************************************)
(* Theorems of LensProcess, for any set of handles and of process ids: the *)
(* safety properties of the transport lenses, and that they implement      *)
(* TransportLens.  All follow from one inductive invariant.                *)
(***************************************************************************)
EXTENDS LensProcess, TLAPS

StartStates == {"argv", "pipe", "cloexec", "parent", "read", "reap"}
ChildStates == {"parent", "read", "reap"}

(* What the call in progress holds at each of its steps. *)
CallInv ==
  /\ pc = "idle" <=> cur = NoHandle
  /\ cur # NoHandle => cur \in allocated
  /\ pc \in StartStates => op = "start" /\ ~running[cur]
  /\ pc \in {"kill", "wait"} => op \in {"stop", "destroy"} /\ running[cur]
  /\ pc = "dealloc" => op = "destroy" /\ ~running[cur]
  /\ pc = "idle" => op = "none"
  /\ argv <=> pc \in {"argv", "pipe", "cloexec", "parent"}
  /\ parentFds = IF pc \in {"pipe", "cloexec", "parent"} THEN {"read", "write"}
                 ELSE IF pc = "read" THEN {"read"} ELSE {}

(* How far the child of the start in progress can be, and what the pipe    *)
(* tells of it: an empty pipe without writers means that it did exec.      *)
ChildInv ==
  /\ pc \in {"pipe", "cloexec"} => ~message
  /\ pc \in ChildStates =>
       /\ owner[child] = cur /\ child \notin interrupted
       /\ proc[child] # "free"
  /\ pc \in {"parent", "read"} =>
       /\ message <=> /\ proc[child] \in {"reported", "zombie"}
                      /\ child \notin execed \cup killedEarly
       /\ proc[child] = "lens" => child \in execed
       /\ proc[child] \in PreExec \cup {"reported"} =>
            child \notin execed \cup killedEarly
  /\ pc = "reap" => proc[child] \in {"reported", "zombie"}

(* Who may hold an end of the pipe, and who is between fork and exec. *)
PipeInv ==
  \A p \in Pids :
    /\ proc[p] \in PreExec => p \in writers /\ p = child /\ pc \in {"parent", "read"}
    /\ p \in writers => proc[p] \in PreExec \cup {"reported"}
    /\ p \in readers => proc[p] = "forked"

(* A running session holds the id of its own child. *)
SessionInv ==
  \A h \in Handles :
    /\ running[h] =>
         /\ h \in allocated
         /\ pid[h] \in Pids \ interrupted
         /\ owner[pid[h]] = h
         /\ proc[pid[h]] \in {"lens", "zombie"}
         /\ pid[h] \in execed \cup killedEarly
    /\ ~running[h] => pid[h] = NoPid

(* A process that has not been reaped is accounted for, and nothing is     *)
(* remembered of an id that is free.                                       *)
TrackInv ==
  \A p \in Pids :
    /\ proc[p] # "free" =>
         \/ p \in interrupted
         \/ pc \in ChildStates /\ p = child
         \/ owner[p] \in Handles /\ running[owner[p]] /\ pid[owner[p]] = p
    /\ proc[p] = "free" => p \notin execed \cup killedEarly \cup interrupted

IInv == TypeOK /\ CallInv /\ ChildInv /\ PipeInv /\ SessionInv /\ TrackInv

(* IInv holds initially. *)
LEMMA Initially == Init => IInv
  BY NullAssumption DEF Init, IInv, TypeOK, CallInv, ChildInv, PipeInv, SessionInv,
     TrackInv, PcStates, ProcStates, PreExec, StartStates, ChildStates

(* Every step of a call, a child, a program or a signal preserves IInv. *)
LEMMA Inductive == IInv /\ [Next]_vars => IInv'
<1> SUFFICES ASSUME IInv, [Next]_vars
             PROVE  IInv'
  OBVIOUS
<1> USE NullAssumption DEF IInv, TypeOK, CallInv, ChildInv, PipeInv, SessionInv,
        TrackInv, PcStates, ProcStates, PreExec, StartStates, ChildStates,
        session, call, kernel, history
<1>1. ASSUME NEW h \in Handles, Create(h)
      PROVE  IInv'
  BY <1>1 DEF Create
<1>2. ASSUME NEW h \in Handles, BeginStart(h)
      PROVE  IInv'
  BY <1>2 DEF BeginStart, Begin
<1>3. ASSUME NEW h \in Handles, BeginDestroy(h)
      PROVE  IInv'
  BY <1>3 DEF BeginDestroy, Begin
<1>4. ASSUME NEW h \in Handles, NEW operation \in {"stop", "destroy"}, BeginStop(h, operation)
      PROVE  IInv'
  BY <1>4 DEF BeginStop, Begin
<1>5. ASSUME MakePipe
      PROVE  IInv'
  BY <1>5 DEF MakePipe
<1>6. ASSUME PipeFails
      PROVE  IInv'
  BY <1>6 DEF PipeFails, Return
<1>7. ASSUME SetCloexec
      PROVE  IInv'
  BY <1>7 DEF SetCloexec
<1>8. ASSUME LaunchFails
      PROVE  IInv'
  BY <1>8 DEF LaunchFails, Return
<1>9. ASSUME NEW p \in Pids, Fork(p)
      PROVE  IInv'
  <2>1. TypeOK'
    BY <1>9 DEF Fork
  <2>2. CallInv'
    BY <1>9 DEF Fork
  <2>3. ChildInv'
    BY <1>9 DEF Fork
  <2>4. PipeInv'
    BY <1>9 DEF Fork
  <2>5. SessionInv'
    BY <1>9 DEF Fork
  <2>6. TrackInv'
    BY <1>9 DEF Fork
  <2> QED
    BY <2>1, <2>2, <2>3, <2>4, <2>5, <2>6
<1>10. ASSUME CloseWriteEnd
      PROVE  IInv'
  <2>1. TypeOK'
    BY <1>10 DEF CloseWriteEnd
  <2>2. CallInv'
    BY <1>10 DEF CloseWriteEnd
  <2>3. ChildInv'
    BY <1>10 DEF CloseWriteEnd
  <2>4. PipeInv'
    BY <1>10 DEF CloseWriteEnd
  <2>5. SessionInv'
    BY <1>10 DEF CloseWriteEnd
  <2>6. TrackInv'
    BY <1>10 DEF CloseWriteEnd
  <2> QED
    BY <2>1, <2>2, <2>3, <2>4, <2>5, <2>6
<1>11. ASSUME ReadReport
      PROVE  IInv'
  <2>1. TypeOK'
    BY <1>11 DEF ReadReport
  <2>2. CallInv'
    BY <1>11 DEF ReadReport
  <2>3. ChildInv'
    BY <1>11 DEF ReadReport
  <2>4. PipeInv'
    BY <1>11 DEF ReadReport
  <2>5. SessionInv'
    BY <1>11 DEF ReadReport
  <2>6. TrackInv'
    BY <1>11 DEF ReadReport
  <2> QED
    BY <2>1, <2>2, <2>3, <2>4, <2>5, <2>6
<1>12. ASSUME ReadEof
      PROVE  IInv'
  BY <1>12 DEF ReadEof, Return
<1>13. ASSUME ReapFailedChild
      PROVE  IInv'
  BY <1>13 DEF ReapFailedChild, FailedStartReturns, Return, Reap
<1>14. ASSUME ReapInterrupted
      PROVE  IInv'
  BY <1>14 DEF ReapInterrupted, FailedStartReturns, Return, Interrupt
<1>15. ASSUME SendTerm
      PROVE  IInv'
  BY <1>15 DEF SendTerm
<1>16. ASSUME ReapStopped
      PROVE  IInv'
  BY <1>16 DEF ReapStopped, FinishStop, Return, Reap
<1>17. ASSUME StopInterrupted
      PROVE  IInv'
  BY <1>17 DEF StopInterrupted, FinishStop, Return, Interrupt
<1>18. ASSUME Deallocate
      PROVE  IInv'
  BY <1>18 DEF Deallocate, Return
<1>19. ASSUME NEW p \in Pids, ChildCloseRead(p)
      PROVE  IInv'
  BY <1>19 DEF ChildCloseRead
<1>20. ASSUME NEW p \in Pids, ChildExec(p)
      PROVE  IInv'
  BY <1>20 DEF ChildExec
<1>21. ASSUME NEW p \in Pids, ChildExecFails(p)
      PROVE  IInv'
  BY <1>21 DEF ChildExecFails
<1>22. ASSUME NEW p \in Pids, ChildReport(p)
      PROVE  IInv'
  BY <1>22 DEF ChildReport
<1>23. ASSUME NEW p \in Pids, ChildExit(p)
      PROVE  IInv'
  BY <1>23 DEF ChildExit, Die
<1>24. ASSUME NEW p \in Pids, LensExit(p)
      PROVE  IInv'
  BY <1>24 DEF LensExit, Die
<1>25. ASSUME NEW p \in Pids, KilledBeforeExec(p)
      PROVE  IInv'
  BY <1>25 DEF KilledBeforeExec, Die
<1>26. CASE UNCHANGED vars
  BY <1>26 DEF vars
<1> HIDE DEF IInv
<1> QED
  BY <1>1, <1>2, <1>3, <1>4, <1>5, <1>6, <1>7, <1>8, <1>9, <1>10, <1>11, <1>12,
     <1>13, <1>14, <1>15, <1>16, <1>17, <1>18, <1>19, <1>20, <1>21, <1>22, <1>23,
     <1>24, <1>25, <1>26
     DEF Next, CallStep, ChildStep

(* The inductive invariant holds in every reachable state. *)
THEOREM Invariance == Spec => []IInv
  BY Initially, Inductive, PTL DEF Spec

-----------------------------------------------------------------------------
(* Every variable keeps its type. *)
THEOREM TypeCorrect == Spec => []TypeOK
<1>1. IInv => TypeOK
  BY DEF IInv
<1> QED
  BY <1>1, Invariance, PTL

(* No operation of a lens, however it ends, leaves an end of the handshake *)
(* pipe open or its argument vector allocated.                             *)
THEOREM DescriptorSafety == Spec => []NoDescriptorLeak
<1>1. IInv => NoDescriptorLeak
  BY DEF IInv, CallInv, NoDescriptorLeak
<1> QED
  BY <1>1, Invariance, PTL

(* No transport program inherits an end of the handshake pipe. *)
THEOREM InheritanceSafety == Spec => []LensInheritsNothing
<1>1. IInv => LensInheritsNothing
  BY DEF IInv, PipeInv, LensInheritsNothing, PreExec
<1> QED
  BY <1>1, Invariance, PTL

(* The id stop sends SIGTERM to is never one the kernel may have reused. *)
THEOREM PidSafety == Spec => []PidIsOwnChild
<1>1. IInv => PidIsOwnChild
  BY DEF IInv, SessionInv, PidIsOwnChild
<1> QED
  BY <1>1, Invariance, PTL

(* start reports success only for a child that did exec, or that was       *)
(* killed from outside before it could.                                    *)
THEOREM HandshakeSafety == Spec => []StartMeansExec
<1>1. IInv => StartMeansExec
  BY DEF IInv, SessionInv, StartMeansExec
<1> QED
  BY <1>1, Invariance, PTL

(* Between calls only a process whose waitpid() met EINTR is untracked. *)
THEOREM TrackingSafety == Spec => []NoUntrackedChild
<1>1. IInv => NoUntrackedChild
  BY DEF IInv, TrackInv, NoUntrackedChild, ChildStates
<1> QED
  BY <1>1, Invariance, PTL

-----------------------------------------------------------------------------
(* Refinement *)

(* Seen through the mapping, a session that does not run has no process,   *)
(* and one that runs has the one it keeps the id of.                       *)
LEMMA Mapping ==
  ASSUME IInv, NEW h \in Handles
  PROVE  ProcessOf(h) = IF ~running[h] THEN "none"
                        ELSE IF proc[pid[h]] = "zombie" THEN "dead" ELSE "up"
<1> DEFINE kept == {p \in Pids : /\ owner[p] = h /\ proc[p] # "free"
                                /\ p \notin interrupted}
<1> USE NullAssumption DEF IInv, TypeOK, CallInv, ChildInv, SessionInv, TrackInv
<1>1. CASE ~running[h]
  <2>1. (cur = h /\ op = "start") \/ kept = {}
    <3> SUFFICES ASSUME NEW p \in kept
                 PROVE  cur = h /\ op = "start"
      OBVIOUS
    <3>1. pc \in ChildStates /\ p = child
      BY <1>1
    <3> QED
      BY <3>1 DEF StartStates, ChildStates
  <2> QED
    BY <1>1, <2>1 DEF ProcessOf
<1>2. CASE running[h]
  <2>1. ~(cur = h /\ op = "start")
    BY <1>2 DEF StartStates, PcStates
  <2>2. kept = {pid[h]}
    <3>1. pid[h] \in kept
      BY <1>2
    <3>2. ASSUME NEW p \in kept
          PROVE  p = pid[h]
      BY <1>2, <3>2 DEF StartStates, ChildStates
    <3> QED
      BY <3>1, <3>2
  <2> QED
    BY <1>2, <2>1, <2>2 DEF ProcessOf
<1> QED
  BY <1>1, <1>2

(* ProcessOf as Mapping gives it. *)
ProcessIn(h) ==
  IF ~running[h] THEN "none"
  ELSE IF proc[pid[h]] = "zombie" THEN "dead" ELSE "up"

MapInv == \A h \in Handles : ProcessOf(h) = ProcessIn(h)

(* What a step must keep for TransportLens to see none of it. *)
Hidden ==
  /\ UNCHANGED <<allocated, running>>
  /\ \A h \in Handles : running[h] =>
       /\ pid'[h] = pid[h]
       /\ proc'[pid[h]] = "zombie" <=> proc[pid[h]] = "zombie"

(* A step that keeps them is a stuttering step of TransportLens. *)
LEMMA HiddenStutters ==
  ASSUME MapInv, MapInv', Hidden
  PROVE  UNCHANGED TL!vars
<1>1. \A h \in Handles : LensOf(h)' = LensOf(h)
  BY DEF Hidden, LensOf
<1>2. \A h \in Handles : ProcessOf(h)' = ProcessOf(h)
  BY DEF Hidden, MapInv, ProcessIn
<1> QED
  BY <1>1, <1>2 DEF TL!vars

(* A step on one session is seen as a step on this session. *)
LEMMA StepRefines ==
  ASSUME IInv, IInv', MapInv, MapInv', [Next]_vars
  PROVE  [TL!Next]_(TL!vars)
<1> USE NullAssumption DEF IInv, TypeOK, CallInv, ChildInv, PipeInv, SessionInv
<1>a. \A h \in Handles : ProcessOf(h) = ProcessIn(h) /\ ProcessOf(h)' = ProcessIn(h)'
  BY DEF MapInv
<1>b. ASSUME Hidden
      PROVE  [TL!Next]_(TL!vars)
  BY <1>b, HiddenStutters
<1>1. ASSUME NEW h \in Handles, Create(h)
      PROVE  TL!Create(h)
  <2>1. LensOf(h) = "absent" /\ h \in Handles
    BY <1>1 DEF Create, session, call, kernel, history, LensOf, StartStates
  <2>2. \A g \in Handles : LensOf(g)' = IF g = h THEN "ready" ELSE LensOf(g)
    BY <1>1 DEF Create, session, call, kernel, history, LensOf, StartStates
  <2>3. \A g \in Handles : ProcessOf(g)' = ProcessOf(g)
    BY <1>a, <1>1, <2>1 DEF Create, session, call, kernel, history, LensOf, ProcessIn, StartStates, PreExec
  <2> HIDE NullAssumption DEF IInv, TypeOK, CallInv, ChildInv, PipeInv, SessionInv
  <2> QED
    BY <2>1, <2>2, <2>3 DEF TL!Create
<1>2. ASSUME ReadEof
      PROVE  TL!Start(cur)
  <2>1. PICK h \in Handles : h = cur
    BY <1>2 DEF ReadEof
  <2>2. LensOf(h) = "ready"
    BY <1>2, <2>1 DEF ReadEof, LensOf, StartStates
  <2>3. \A g \in Handles : LensOf(g)' = IF g = h THEN "running" ELSE LensOf(g)
    BY <1>2, <2>1 DEF ReadEof, session, LensOf
  <2>4. \A g \in Handles : g # h => ProcessOf(g)' = ProcessOf(g)
    BY <1>a, <1>2, <2>1 DEF ReadEof, kernel, ProcessIn
  <2>5. ProcessOf(h)' \in {"up", "dead"}
    BY <1>a, <1>2, <2>1 DEF ReadEof, kernel, ProcessIn
  <2> HIDE NullAssumption DEF IInv, TypeOK, CallInv, ChildInv, PipeInv, SessionInv
  <2>6. PICK now \in {"up", "dead"} : ProcessOf(h)' = now
    BY <2>5
  <2>7. [g \in Handles |-> ProcessOf(g)]'
          = [[g \in Handles |-> ProcessOf(g)] EXCEPT ![h] = now]
    BY <2>4, <2>6
  <2>8. TL!Start(h)
    BY <2>2, <2>3, <2>7 DEF TL!Start
  <2> QED
    BY <2>1, <2>8 DEF TL!Start
<1>3. ASSUME ReapStopped
      PROVE  TL!Stop(cur)
  <2>1. LensOf(cur) = "running" /\ cur \in Handles
    BY <1>3 DEF ReapStopped, FinishStop, Return, Reap, LensOf, StartStates
  <2>2. \A g \in Handles : LensOf(g)' = IF g = cur THEN "ready" ELSE LensOf(g)
    BY <1>3 DEF ReapStopped, FinishStop, Return, Reap, LensOf, StartStates
  <2>3. \A g \in Handles : ProcessOf(g)' = IF g = cur THEN "none" ELSE ProcessOf(g)
    BY <1>a, <1>3, <2>1 DEF ReapStopped, FinishStop, Return, Reap, LensOf, ProcessIn, StartStates, PreExec
  <2> HIDE NullAssumption DEF IInv, TypeOK, CallInv, ChildInv, PipeInv, SessionInv
  <2> QED
    BY <2>1, <2>2, <2>3 DEF TL!Stop
<1>4. ASSUME StopInterrupted
      PROVE  TL!Stop(cur)
  <2>1. LensOf(cur) = "running" /\ cur \in Handles
    BY <1>4 DEF StopInterrupted, FinishStop, Return, Interrupt, kernel, LensOf, StartStates
  <2>2. \A g \in Handles : LensOf(g)' = IF g = cur THEN "ready" ELSE LensOf(g)
    BY <1>4 DEF StopInterrupted, FinishStop, Return, Interrupt, kernel, LensOf, StartStates
  <2>3. \A g \in Handles : ProcessOf(g)' = IF g = cur THEN "none" ELSE ProcessOf(g)
    BY <1>a, <1>4, <2>1 DEF StopInterrupted, FinishStop, Return, Interrupt, kernel, LensOf, ProcessIn, StartStates, PreExec
  <2> HIDE NullAssumption DEF IInv, TypeOK, CallInv, ChildInv, PipeInv, SessionInv
  <2> QED
    BY <2>1, <2>2, <2>3 DEF TL!Stop
<1>5. ASSUME Deallocate
      PROVE  TL!Destroy(cur)
  <2>1. LensOf(cur) = "ready" /\ cur \in Handles
    BY <1>5 DEF Deallocate, Return, kernel, LensOf, StartStates
  <2>2. \A g \in Handles : LensOf(g)' = IF g = cur THEN "absent" ELSE LensOf(g)
    BY <1>5 DEF Deallocate, Return, kernel, LensOf, StartStates
  <2>3. \A g \in Handles : ProcessOf(g)' = ProcessOf(g)
    BY <1>a, <1>5, <2>1 DEF Deallocate, Return, kernel, LensOf, ProcessIn, StartStates, PreExec
  <2> HIDE NullAssumption DEF IInv, TypeOK, CallInv, ChildInv, PipeInv, SessionInv
  <2> QED
    BY <2>1, <2>2, <2>3 DEF TL!Destroy
<1>6. ASSUME NEW p \in Pids, LensExit(p)
      PROVE  [TL!Next]_(TL!vars)
  <2>1. CASE \E h \in Handles : running[h] /\ pid[h] = p
    <3>1. PICK h \in Handles : running[h] /\ pid[h] = p
      BY <2>1
    <3>2. \A g \in Handles : running[g] /\ pid[g] = p => g = h
      BY <3>1
    <3>3. \A g \in Handles : LensOf(g)' = LensOf(g)
      BY <1>6 DEF LensExit, Die, session, LensOf
    <3>4. ProcessOf(h) = "up"
      BY <1>a, <1>6, <3>1 DEF LensExit, ProcessIn
    <3>5. \A g \in Handles :
            ProcessOf(g)' = IF g = h THEN "dead" ELSE ProcessOf(g)
      BY <1>a, <1>6, <3>1, <3>2 DEF LensExit, Die, session, ProcessIn
    <3> HIDE NullAssumption DEF IInv, TypeOK, CallInv, ChildInv, PipeInv, SessionInv
    <3>6. TL!Exit(h)
      BY <3>3, <3>4, <3>5 DEF TL!Exit
    <3> QED
      BY <3>6 DEF TL!Next
  <2>2. CASE ~\E h \in Handles : running[h] /\ pid[h] = p
    <3>1. Hidden
      BY <1>6, <2>2 DEF LensExit, Die, session, call, Hidden
    <3> QED
      BY <1>b, <3>1
  <2> QED
    BY <2>1, <2>2
<1>7. ASSUME NEW h \in Handles, BeginStart(h)
      PROVE  Hidden
  BY <1>7 DEF BeginStart, Begin, Hidden, session, call, kernel,
     history, StartStates, ChildStates, PreExec
<1>8. ASSUME NEW h \in Handles, BeginDestroy(h)
      PROVE  Hidden
  BY <1>8 DEF BeginDestroy, Begin, Hidden, session, call, kernel,
     history, StartStates, ChildStates, PreExec
<1>9. ASSUME NEW h \in Handles, NEW operation \in {"stop", "destroy"}, BeginStop(h, operation)
      PROVE  Hidden
  BY <1>9 DEF BeginStop, Begin, Hidden, session, call, kernel,
     history, StartStates, ChildStates, PreExec
<1>10. ASSUME MakePipe
      PROVE  Hidden
  BY <1>10 DEF MakePipe, Hidden, session, call, kernel,
     history, StartStates, ChildStates, PreExec
<1>11. ASSUME PipeFails
      PROVE  Hidden
  BY <1>11 DEF PipeFails, Return, Hidden, session, call, kernel,
     history, StartStates, ChildStates, PreExec
<1>12. ASSUME SetCloexec
      PROVE  Hidden
  BY <1>12 DEF SetCloexec, Hidden, session, call, kernel,
     history, StartStates, ChildStates, PreExec
<1>13. ASSUME LaunchFails
      PROVE  Hidden
  BY <1>13 DEF LaunchFails, Return, Hidden, session, call, kernel,
     history, StartStates, ChildStates, PreExec
<1>14. ASSUME NEW p \in Pids, Fork(p)
      PROVE  Hidden
  BY <1>14 DEF Fork, Hidden, session, call, kernel,
     history, StartStates, ChildStates, PreExec
<1>15. ASSUME CloseWriteEnd
      PROVE  Hidden
  BY <1>15 DEF CloseWriteEnd, Hidden, session, call, kernel,
     history, StartStates, ChildStates, PreExec
<1>16. ASSUME ReadReport
      PROVE  Hidden
  BY <1>16 DEF ReadReport, Hidden, session, call, kernel,
     history, StartStates, ChildStates, PreExec
<1>17. ASSUME ReapFailedChild
      PROVE  Hidden
  BY <1>17 DEF ReapFailedChild, FailedStartReturns, Reap, Hidden, session, call, kernel,
     history, StartStates, ChildStates, PreExec
<1>18. ASSUME ReapInterrupted
      PROVE  Hidden
  BY <1>18 DEF ReapInterrupted, FailedStartReturns, Interrupt, Hidden, session, call, kernel,
     history, StartStates, ChildStates, PreExec
<1>19. ASSUME SendTerm
      PROVE  Hidden
  BY <1>19 DEF SendTerm, Hidden, session, call, kernel,
     history, StartStates, ChildStates, PreExec
<1>20. ASSUME NEW p \in Pids, ChildCloseRead(p)
      PROVE  Hidden
  BY <1>20 DEF ChildCloseRead, Hidden, session, call, kernel,
     history, StartStates, ChildStates, PreExec
<1>21. ASSUME NEW p \in Pids, ChildExec(p)
      PROVE  Hidden
  BY <1>21 DEF ChildExec, Hidden, session, call, kernel,
     history, StartStates, ChildStates, PreExec
<1>22. ASSUME NEW p \in Pids, ChildExecFails(p)
      PROVE  Hidden
  BY <1>22 DEF ChildExecFails, Hidden, session, call, kernel,
     history, StartStates, ChildStates, PreExec
<1>23. ASSUME NEW p \in Pids, ChildReport(p)
      PROVE  Hidden
  BY <1>23 DEF ChildReport, Hidden, session, call, kernel,
     history, StartStates, ChildStates, PreExec
<1>24. ASSUME NEW p \in Pids, ChildExit(p)
      PROVE  Hidden
  BY <1>24 DEF ChildExit, Die, Hidden, session, call, kernel,
     history, StartStates, ChildStates, PreExec
<1>25. ASSUME NEW p \in Pids, KilledBeforeExec(p)
      PROVE  Hidden
  BY <1>25 DEF KilledBeforeExec, Die, Hidden, session, call, kernel,
     history, StartStates, ChildStates, PreExec
<1>26. CASE UNCHANGED vars
  <2>1. Hidden
    BY <1>26 DEF vars, session, kernel, Hidden
  <2> QED
    BY <1>b, <2>1
<1> HIDE DEF IInv
<1>c. cur \in Handles \/ pc = "idle"
  BY DEF IInv, TypeOK, CallInv
<1> QED
  BY <1>b, <1>c, <1>1, <1>2, <1>3, <1>4, <1>5, <1>6, <1>7, <1>8, <1>9, <1>10, <1>11,
     <1>12, <1>13, <1>14, <1>15, <1>16, <1>17, <1>18, <1>19, <1>20, <1>21,
     <1>22, <1>23, <1>24, <1>25, <1>26
     DEF Next, CallStep, ChildStep, TL!Next, ReadEof, ReapStopped,
         StopInterrupted, FinishStop, Deallocate

(* The fork/exec implementation keeps the promise of lens.h. *)
THEOREM Refinement == Spec => ImplementsTransportLens
<1>1. Init => TL!Init
  BY DEF Init, TL!Init, LensOf, ProcessOf
<1>2. IInv => MapInv
  BY Mapping DEF MapInv, ProcessIn
<1>3. IInv /\ IInv' /\ MapInv /\ MapInv' /\ [Next]_vars => [TL!Next]_(TL!vars)
  BY StepRefines
<1> QED
  BY <1>1, <1>2, <1>3, Invariance, PTL DEF Spec, ImplementsTransportLens, TL!Spec

=============================================================================
