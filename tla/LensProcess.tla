----------------------------- MODULE LensProcess -----------------------------
(***************************************************************************)
(* The transport lenses of lenses/lens_waypipe.c, lens_sunshine.c and      *)
(* lens_moonlight.c, whose start, stop and destroy differ only in the      *)
(* argument vector they build: one process is forked per running lens      *)
(* session, and a close-on-exec pipe tells the parent whether execvp()     *)
(* worked.                                                                 *)
(*                                                                         *)
(* One thread of the host calls the operations, so at most one call is in  *)
(* progress; the children, the started programs and signals run beside it. *)
(* The kernel hands out any pid that no unreaped child holds.              *)
(*                                                                         *)
(* Calls that return without changing anything (EINVAL, EBUSY, ENOMEM, a   *)
(* stop of a session that does not run) are stuttering steps.              *)
(***************************************************************************)
CONSTANTS
  Handles,          (* struct lens_session pointers               *)
  Pids,             (* process ids the kernel can hand out        *)
  NoHandle, NoPid   (* no call in progress; waypipe_pid = -1      *)

ASSUME NullAssumption == NoHandle \notin Handles /\ NoPid \notin Pids

VARIABLES
  \* heap and lens session fields
  allocated,        (* handles created and not yet destroyed                *)
  running,          (* ws->running and session->running, set together       *)
  pid,              (* ws->waypipe_pid and session->process_pid             *)
  \* the call in progress and its locals
  pc,               (* where the call is; "idle" between calls              *)
  op,               (* "start", "stop", "destroy" or "none"                 *)
  cur,              (* the handle it was called with                        *)
  child,            (* local pid of start, while the child is not yet owned *)
  argv,             (* whether the argument vector is allocated             *)
  parentFds,        (* ends of exec_pipe the parent has open                *)
  \* the kernel
  proc,             (* proc[p]: stage of the process with id p              *)
  writers, readers, (* children with the write / read end of exec_pipe open *)
  message,          (* an errno is in the pipe                              *)
  term,             (* processes with SIGTERM delivered                     *)
  \* history, for the properties only
  owner,            (* owner[p]: the handle whose start forked p            *)
  execed,           (* processes that became the transport program          *)
  killedEarly,      (* processes killed from outside before execvp()        *)
  interrupted       (* processes whose waitpid() ended with EINTR           *)

session == <<allocated, running, pid>>
call == <<pc, op, cur, child, argv, parentFds>>
kernel == <<proc, writers, readers, message, term>>
history == <<owner, execed, killedEarly, interrupted>>
vars == <<session, call, kernel, history>>

PcStates ==
  {"idle", "argv", "pipe", "cloexec", "parent", "read", "reap", "kill", "wait",
   "dealloc"}

\* Between fork() and execvp(); "failed" is after an execvp() that returned.
PreExec == {"forked", "preexec", "failed"}
ProcStates == PreExec \cup {"free", "reported", "lens", "zombie"}

Init ==
  /\ allocated = {}
  /\ running = [h \in Handles |-> FALSE]
  /\ pid = [h \in Handles |-> NoPid]
  /\ pc = "idle" /\ op = "none" /\ cur = NoHandle /\ child = NoPid
  /\ argv = FALSE /\ parentFds = {}
  /\ proc = [p \in Pids |-> "free"]
  /\ writers = {} /\ readers = {} /\ message = FALSE /\ term = {}
  /\ owner = [p \in Pids |-> NoHandle]
  /\ execed = {} /\ killedEarly = {} /\ interrupted = {}

-----------------------------------------------------------------------------
(* Calls begin and end *)

Begin(h, operation, at) ==
  /\ pc = "idle"
  /\ h \in allocated
  /\ pc' = at /\ op' = operation /\ cur' = h

Return == pc' = "idle" /\ op' = "none" /\ cur' = NoHandle /\ child' = NoPid

(* create: both allocations succeed. *)
Create(h) ==
  /\ pc = "idle"
  /\ h \notin allocated
  /\ allocated' = allocated \cup {h}
  /\ UNCHANGED <<running, pid, call, kernel, history>>

-----------------------------------------------------------------------------
(* start *)

BeginStart(h) ==
  /\ ~running[h]
  /\ Begin(h, "start", "argv")
  /\ argv' = TRUE
  /\ UNCHANGED <<session, child, parentFds, kernel, history>>

(* An earlier child may still hold the pipe of its own handshake; these    *)
(* variables describe the pipe made here.                                  *)
MakePipe ==
  /\ pc = "argv"
  /\ pc' = "pipe"
  /\ parentFds' = {"read", "write"}
  /\ writers' = {} /\ readers' = {} /\ message' = FALSE
  /\ UNCHANGED <<session, op, cur, child, argv, proc, term, history>>

PipeFails ==
  /\ pc = "argv"
  /\ argv' = FALSE
  /\ Return
  /\ UNCHANGED <<session, parentFds, kernel, history>>

SetCloexec ==
  /\ pc = "pipe"
  /\ pc' = "cloexec"
  /\ UNCHANGED <<session, op, cur, child, argv, parentFds, kernel, history>>

(* Faulty: the result of fork() is not checked, -1 is taken for a child. *)
LaunchFailsUnchecked ==
  /\ pc \in {"pipe", "cloexec"}
  /\ pc' = "parent"
  /\ UNCHANGED <<session, op, cur, child, argv, parentFds, kernel, history>>

(* Faulty: the error path frees the arguments only. *)
LaunchFailsLeaks ==
  /\ pc \in {"pipe", "cloexec"}
  /\ argv' = FALSE
  /\ Return
  /\ UNCHANGED <<session, parentFds, kernel, history>>

(* fcntl() or fork() failed: both ends and the arguments are released. *)
LaunchFails ==
  /\ pc \in {"pipe", "cloexec"}
  /\ parentFds' = {}
  /\ argv' = FALSE
  /\ Return
  /\ UNCHANGED <<session, kernel, history>>

Fork(p) ==
  /\ pc = "cloexec"
  /\ proc[p] = "free"
  /\ pc' = "parent"
  /\ child' = p
  /\ proc' = [proc EXCEPT ![p] = "forked"]
  /\ writers' = writers \cup {p} /\ readers' = readers \cup {p}
  /\ owner' = [owner EXCEPT ![p] = cur]
  /\ UNCHANGED <<session, op, cur, argv, parentFds, message, term, execed,
                 killedEarly, interrupted>>

(* Faulty: the parent keeps its write end while it reads. *)
CloseWriteEndForgotten ==
  /\ pc = "parent"
  /\ pc' = "read"
  /\ argv' = FALSE
  /\ UNCHANGED <<session, op, cur, child, parentFds, kernel, history>>

CloseWriteEnd ==
  /\ pc = "parent"
  /\ pc' = "read"
  /\ parentFds' = parentFds \ {"write"}
  /\ argv' = FALSE
  /\ UNCHANGED <<session, op, cur, child, kernel, history>>

(* read() returned an errno: the child reported that execvp() failed. *)
ReadReport ==
  /\ pc = "read"
  /\ message
  /\ message' = FALSE
  /\ pc' = "reap"
  /\ parentFds' = parentFds \ {"read"}
  /\ UNCHANGED <<session, op, cur, child, argv, proc, writers, readers, term,
                 history>>

(* read() returned 0, every write end is closed: start reports success. *)
ReadEof ==
  /\ pc = "read"
  /\ ~message /\ writers = {} /\ "write" \notin parentFds
  /\ parentFds' = parentFds \ {"read"}
  /\ pid' = [pid EXCEPT ![cur] = child]
  /\ running' = [running EXCEPT ![cur] = TRUE]
  /\ Return
  /\ UNCHANGED <<allocated, argv, kernel, history>>

-----------------------------------------------------------------------------
(* waitpid() *)

(* The kernel forgets a process that waitpid() has reaped. *)
Reap(p) ==
  /\ proc[p] = "zombie"
  /\ proc' = [proc EXCEPT ![p] = "free"]
  /\ owner' = [owner EXCEPT ![p] = NoHandle]
  /\ term' = term \ {p}
  /\ execed' = execed \ {p}
  /\ killedEarly' = killedEarly \ {p}
  /\ UNCHANGED <<writers, readers, message, interrupted>>

(* A signal handler of the host ran: waitpid() fails with EINTR, and the   *)
(* code goes on as if the process were gone.                               *)
Interrupt(p) ==
  /\ proc[p] # "zombie"
  /\ interrupted' = interrupted \cup {p}
  /\ UNCHANGED <<kernel, owner, execed, killedEarly>>

FailedStartReturns ==
  /\ pc = "reap"
  /\ Return
  /\ UNCHANGED <<session, argv, parentFds>>

(* Faulty: a failed start returns without waiting for its child. *)
ReapForgotten == FailedStartReturns /\ UNCHANGED <<kernel, history>>

ReapFailedChild == FailedStartReturns /\ Reap(child)

ReapInterrupted == FailedStartReturns /\ Interrupt(child)

-----------------------------------------------------------------------------
(* stop and destroy *)

(* Faulty: destroy does not stop a running session first. *)
BeginStopSkipped(h, operation) ==
  /\ running[h]
  /\ Begin(h, operation, IF operation = "destroy" THEN "dealloc" ELSE "kill")
  /\ UNCHANGED <<session, child, argv, parentFds, kernel, history>>

BeginStop(h, operation) ==
  /\ running[h]
  /\ Begin(h, operation, "kill")
  /\ UNCHANGED <<session, child, argv, parentFds, kernel, history>>

(* kill() reaches whatever process has this id now. *)
SendTerm ==
  /\ pc = "kill"
  /\ pc' = "wait"
  /\ term' = term \cup {p \in {pid[cur]} : proc[p] = "lens"}
  /\ UNCHANGED <<session, op, cur, child, argv, parentFds, proc, writers,
                 readers, message, history>>

(* Faulty: stop forgets to reset running and the pid. *)
FinishStopKeepsPid ==
  /\ pc = "wait"
  /\ IF op = "destroy" THEN pc' = "dealloc" /\ UNCHANGED <<op, cur, child>>
                       ELSE Return
  /\ UNCHANGED <<session, argv, parentFds>>

(* What follows the wait, however it ended. *)
FinishStop ==
  /\ pc = "wait"
  /\ pid' = [pid EXCEPT ![cur] = NoPid]
  /\ running' = [running EXCEPT ![cur] = FALSE]
  /\ IF op = "destroy" THEN pc' = "dealloc" /\ UNCHANGED <<op, cur, child>>
                       ELSE Return
  /\ UNCHANGED <<allocated, argv, parentFds>>

ReapStopped == FinishStop /\ Reap(pid[cur])

StopInterrupted == FinishStop /\ Interrupt(pid[cur])

BeginDestroy(h) ==
  /\ ~running[h]
  /\ Begin(h, "destroy", "dealloc")
  /\ UNCHANGED <<session, child, argv, parentFds, kernel, history>>

Deallocate ==
  /\ pc = "dealloc"
  /\ allocated' = allocated \ {cur}
  /\ Return
  /\ UNCHANGED <<running, pid, argv, parentFds, kernel, history>>

-----------------------------------------------------------------------------
(* The child, until execvp() or _exit(), and the started program *)

ChildCloseRead(p) ==
  /\ proc[p] = "forked"
  /\ proc' = [proc EXCEPT ![p] = "preexec"]
  /\ readers' = readers \ {p}
  /\ UNCHANGED <<session, call, writers, message, term, history>>

(* Faulty: FD_CLOEXEC is not set. *)
ChildExecInherits(p) ==
  /\ proc[p] = "preexec"
  /\ proc' = [proc EXCEPT ![p] = "lens"]
  /\ execed' = execed \cup {p}
  /\ UNCHANGED <<session, call, writers, readers, message, term, owner,
                 killedEarly, interrupted>>

(* The write end is close-on-exec. *)
ChildExec(p) ==
  /\ proc[p] = "preexec"
  /\ proc' = [proc EXCEPT ![p] = "lens"]
  /\ writers' = writers \ {p}
  /\ execed' = execed \cup {p}
  /\ UNCHANGED <<session, call, readers, message, term, owner, killedEarly,
                 interrupted>>

ChildExecFails(p) ==
  /\ proc[p] = "preexec"
  /\ proc' = [proc EXCEPT ![p] = "failed"]
  /\ UNCHANGED <<session, call, writers, readers, message, term, history>>

(* Faulty: the child exits without writing errno. *)
ChildReportSilent(p) ==
  /\ proc[p] = "failed"
  /\ proc' = [proc EXCEPT ![p] = "reported"]
  /\ UNCHANGED <<session, call, writers, readers, message, term, history>>

ChildReport(p) ==
  /\ proc[p] = "failed"
  /\ proc' = [proc EXCEPT ![p] = "reported"]
  /\ message' = TRUE
  /\ UNCHANGED <<session, call, writers, readers, term, history>>

(* The kernel closes what a dying process has open. *)
Die(p) ==
  /\ proc' = [proc EXCEPT ![p] = "zombie"]
  /\ writers' = writers \ {p} /\ readers' = readers \ {p}
  /\ UNCHANGED <<session, call, message, term, owner, execed, interrupted>>

ChildExit(p) == proc[p] = "reported" /\ Die(p) /\ UNCHANGED killedEarly

LensExit(p) == proc[p] = "lens" /\ Die(p) /\ UNCHANGED killedEarly

(* Something outside the program kills the child before it could exec. *)
KilledBeforeExec(p) ==
  /\ proc[p] \in PreExec
  /\ Die(p)
  /\ killedEarly' = killedEarly \cup {p}

-----------------------------------------------------------------------------
(* What the call in progress does next, signals apart *)
CallStep ==
  \/ MakePipe \/ PipeFails \/ SetCloexec \/ LaunchFails
  \/ \E p \in Pids : Fork(p)
  \/ CloseWriteEnd \/ ReadReport \/ ReadEof \/ ReapFailedChild
  \/ SendTerm \/ ReapStopped \/ Deallocate

ChildStep(p) ==
  ChildCloseRead(p) \/ ChildExec(p) \/ ChildExecFails(p) \/ ChildReport(p)
    \/ ChildExit(p)

Next ==
  \/ \E h \in Handles : Create(h) \/ BeginStart(h) \/ BeginDestroy(h)
  \/ \E h \in Handles, operation \in {"stop", "destroy"} :
       BeginStop(h, operation)
  \/ CallStep
  \/ ReapInterrupted \/ StopInterrupted
  \/ \E p \in Pids : ChildStep(p) \/ LensExit(p) \/ KilledBeforeExec(p)

(* The host's thread and the children are scheduled, and a transport       *)
(* program exits once it has SIGTERM.  Nothing makes it exit before, and   *)
(* nothing makes a caller begin an operation.                              *)
Fairness ==
  /\ WF_vars(CallStep)
  /\ \A p \in Pids : WF_vars(ChildStep(p))
  /\ \A p \in Pids : WF_vars(p \in term /\ LensExit(p))

Spec == Init /\ [][Next]_vars /\ Fairness

-----------------------------------------------------------------------------
(* Properties *)

(* Every variable has its type, and the child is remembered exactly from   *)
(* fork() until start has handed it to the session or waited for it.       *)
TypeOK ==
  /\ allocated \subseteq Handles
  /\ running \in [Handles -> BOOLEAN]
  /\ pid \in [Handles -> Pids \cup {NoPid}]
  /\ pc \in PcStates
  /\ op \in {"none", "start", "stop", "destroy"}
  /\ cur \in Handles \cup {NoHandle}
  /\ child \in Pids \cup {NoPid}
  /\ argv \in BOOLEAN
  /\ parentFds \subseteq {"read", "write"}
  /\ proc \in [Pids -> ProcStates]
  /\ writers \subseteq Pids /\ readers \subseteq Pids /\ message \in BOOLEAN
  /\ term \subseteq Pids
  /\ owner \in [Pids -> Handles \cup {NoHandle}]
  /\ execed \subseteq Pids /\ killedEarly \subseteq Pids
  /\ interrupted \subseteq Pids
  /\ (child # NoPid) <=> (pc \in {"parent", "read", "reap"})

(* Whichever way an operation ends (error paths, failed execvp, success,   *)
(* EINTR), the parent has closed both ends of the handshake pipe and freed *)
(* the argument vector.                                                    *)
NoDescriptorLeak == pc = "idle" => parentFds = {} /\ ~argv

(* A transport program runs without an end of the handshake pipe: holding  *)
(* the write end it would keep start waiting for its whole life.           *)
LensInheritsNothing ==
  \A p \in Pids : proc[p] = "lens" => p \notin writers \cup readers

(* The id a running session keeps, and will send SIGTERM to, is that of a  *)
(* process its own start forked and nobody has reaped since, so the kernel *)
(* cannot have given it to a stranger or to another session's process.     *)
PidIsOwnChild ==
  \A h \in Handles : running[h] =>
    /\ pid[h] \in Pids
    /\ owner[pid[h]] = h
    /\ proc[pid[h]] \in {"lens", "zombie"}

(* The handshake is right: start reported success only if its child became *)
(* the transport program, or was killed from outside before it could.      *)
StartMeansExec ==
  \A h \in Handles : running[h] => pid[h] \in execed \cup killedEarly

(* Between calls every process forked and not reaped belongs to a running  *)
(* session that can stop it, unless EINTR ended the waitpid() for it.      *)
NoUntrackedChild ==
  pc = "idle" =>
    \A p \in Pids : proc[p] # "free" =>
      p \in interrupted \/ \E h \in Handles : running[h] /\ pid[h] = p

(* Every operation returns: the handshake cannot wait for a pipe end that  *)
(* nobody will close, and stop waits for a process that has SIGTERM.       *)
CallsReturn == pc # "idle" ~> pc = "idle"

(* The implementation keeps lens.h's promise.  While start runs, its child *)
(* is not yet the session's; a child lost to EINTR no longer is.           *)
LensOf(h) ==
  IF h \notin allocated THEN "absent"
  ELSE IF running[h] THEN "running" ELSE "ready"

ProcessOf(h) ==
  LET kept == {p \in Pids : /\ owner[p] = h /\ proc[p] # "free"
                            /\ p \notin interrupted}
  IN  IF (cur = h /\ op = "start") \/ kept = {} THEN "none"
      ELSE IF \E p \in kept : proc[p] # "zombie" THEN "up" ELSE "dead"

TL == INSTANCE TransportLens WITH
        lens <- [h \in Handles |-> LensOf(h)],
        process <- [h \in Handles |-> ProcessOf(h)]

ImplementsTransportLens == TL!Spec

=============================================================================
