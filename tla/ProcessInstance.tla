--------------------------- MODULE ProcessInstance ---------------------------
(***************************************************************************)
(* The life of the server processes (memcached, rogers, chronos, dnsmasq)  *)
(* that a test program starts and stops through ProcessInstance objects    *)
(* (processinstance.cpp).                                                  *)
(*                                                                         *)
(* A test program is itself a process: fork() duplicates it, with its      *)
(* ProcessInstance objects, and the duplicate goes on running the tests    *)
(* when execute_process() fails.  Every private member is therefore kept   *)
(* per process: pid[h][i] and running[h][i] are _pid and _running of       *)
(* instance i in the memory of process h.                                  *)
(*                                                                         *)
(* A call is not atomic: fork() and the saving of the pid, kill(2) and     *)
(* waitpid(2), and the attempts to connect are steps of their own,         *)
(* interleaved with the steps of the servers and of other programs.        *)
(* Process identifiers are not recycled.                                   *)
(***************************************************************************)
EXTENDS Naturals

CONSTANTS
  Instances,    (* the ProcessInstance objects of a test program           *)
  Pids,         (* process identifiers: bounds the number of fork() calls  *)
  Roots,        (* the test programs launched by a user                    *)
  None,         (* no process, no instance                                 *)
  MaxAttempts,  (* connection attempts of wait_for_instance: 5 in the code *)
  ExecMayFail,  (* whether execlp may return, e.g. a missing binary        *)
  AnyPid        (* whether fork() returns any unused pid, or a fixed one   *)
                (* of them, as they are interchangeable                    *)

ASSUME ProcessAssumption ==
  /\ Roots \subseteq Pids
  /\ None \notin Pids
  /\ None \notin Instances
  /\ Instances # {}
  /\ MaxAttempts \in Nat \ {0}
  /\ ExecMayFail \in BOOLEAN
  /\ AnyPid \in BOOLEAN

VARIABLES
  (* The kernel.                                                           *)
  status,    (* state of each process                                      *)
  parent,    (* the process that forked it                                 *)
  role,      (* the instance whose execute_process it was forked to run    *)
  sigterm,   (* processes with a SIGTERM they have not yet acted on        *)
  listener,  (* the process that listens on the ip and port of an instance *)
  (* Memory of each program.                                               *)
  pid,       (* _pid                                                       *)
  running,   (* _running                                                   *)
  (* The call a program is executing.                                      *)
  pc,        (* where it is                                                *)
  arg,       (* the instance it was called on                              *)
  fresh,     (* the pid returned by fork(), not yet saved                  *)
  attempts,  (* attempts made by wait_for_instance                         *)
  result     (* what the last call returned                                *)

kernelVars == <<status, parent, role, sigterm, listener>>
memberVars == <<pid, running>>
callVars   == <<pc, arg, fresh, attempts, result>>
vars       == <<kernelVars, memberVars, callVars>>

Statuses == {"unused", "program", "server", "zombie", "reaped"}
Waiting  == {"kill_wait", "restart_wait"}
Calls    == {"idle", "fork", "forked", "exec", "connect"} \cup Waiting

(* A process that kill(2) finds: a zombie still counts.                    *)
Exists(p)  == status[p] \in {"program", "server", "zombie"}
Alive(p)   == status[p] \in {"program", "server"}

Init ==
  /\ status   = [p \in Pids |-> IF p \in Roots THEN "program" ELSE "unused"]
  /\ parent   = [p \in Pids |-> None]
  /\ role     = [p \in Pids |-> None]
  /\ sigterm  = {}
  /\ listener = [i \in Instances |-> None]
  /\ pid      = [h \in Pids |-> [i \in Instances |-> None]]
  /\ running  = [h \in Pids |-> [i \in Instances |-> FALSE]]
  /\ pc       = [h \in Pids |-> "idle"]
  /\ arg      = [h \in Pids |-> None]
  /\ fresh    = [h \in Pids |-> None]
  /\ attempts = [h \in Pids |-> 0]
  /\ result   = [h \in Pids |-> TRUE]

(* The _pid of instance i is no unreaped child of h: waitpid fails.        *)
NoChild(h, i) == parent[pid[h][i]] # h \/ ~Exists(pid[h][i])

(* Program h, with no call in progress, may call a method.                 *)
Ready(h) == status[h] = "program" /\ pc[h] = "idle"

(* Program h is at step s of a call.                                       *)
At(h, s) == status[h] = "program" /\ pc[h] = s

(* The call of h ends and returns r.                                       *)
Return(h, r) ==
  /\ pc'     = [pc EXCEPT ![h] = "idle"]
  /\ result' = [result EXCEPT ![h] = r]

-----------------------------------------------------------------------------
(* start_instance *)

(* Entry of start_instance.                                                *)
Start(h, i) ==
  /\ Ready(h)
  /\ pc'  = [pc EXCEPT ![h] = "fork"]
  /\ arg' = [arg EXCEPT ![h] = i]
  /\ UNCHANGED <<kernelVars, memberVars, fresh, attempts, result>>

(* fork() succeeds: the child c is a copy of the program, its members      *)
(* included, and goes to execute_process; the parent has c in a local      *)
(* variable only.                                                          *)
Fork(h) ==
  /\ At(h, "fork")
  /\ \E c \in Pids :
       /\ status[c] = "unused"
       /\ AnyPid \/ c = CHOOSE d \in Pids : status[d] = "unused"
       /\ status'  = [status EXCEPT ![c] = "program"]
       /\ parent'  = [parent EXCEPT ![c] = h]
       /\ role'    = [role EXCEPT ![c] = arg[h]]
       /\ pid'     = [pid EXCEPT ![c] = pid[h]]
       /\ running' = [running EXCEPT ![c] = running[h]]
       /\ pc'      = [pc EXCEPT ![h] = "forked", ![c] = "exec"]
       /\ arg'     = [arg EXCEPT ![c] = arg[h]]
       /\ fresh'   = [fresh EXCEPT ![h] = c]
  /\ UNCHANGED <<sigterm, listener, attempts, result>>

(* fork() returns -1.                                                      *)
ForkFails(h) ==
  /\ At(h, "fork")
  /\ Return(h, FALSE)
  /\ UNCHANGED <<kernelVars, memberVars, arg, fresh, attempts>>

(* Mutant: the pid is saved, but not that the instance is running.         *)
SaveOffPidOnly(h) ==
  /\ At(h, "forked")
  /\ pid'   = [pid EXCEPT ![h][arg[h]] = fresh[h]]
  /\ fresh' = [fresh EXCEPT ![h] = None]
  /\ Return(h, TRUE)
  /\ UNCHANGED <<kernelVars, running, arg, attempts>>

(* The original process saves off the new pid and returns true.            *)
SaveOffPid(h) ==
  /\ At(h, "forked")
  /\ pid'     = [pid EXCEPT ![h][arg[h]] = fresh[h]]
  /\ running' = [running EXCEPT ![h][arg[h]] = TRUE]
  /\ fresh'   = [fresh EXCEPT ![h] = None]
  /\ Return(h, TRUE)
  /\ UNCHANGED <<kernelVars, arg, attempts>>

(* execute_process in the child: execlp replaces the program ...           *)
Exec(c) ==
  /\ At(c, "exec")
  /\ status' = [status EXCEPT ![c] = "server"]
  /\ UNCHANGED <<parent, role, sigterm, listener, memberVars, callVars>>

(* ... or returns, and start_instance returns false in the child, which    *)
(* then runs the rest of the tests as a second program.                    *)
ExecFails(c) ==
  /\ ExecMayFail
  /\ At(c, "exec")
  /\ Return(c, FALSE)
  /\ UNCHANGED <<kernelVars, memberVars, arg, fresh, attempts>>

-----------------------------------------------------------------------------
(* kill_instance and restart_instance *)

(* Nothing to kill: kill_instance returns true at once.                    *)
KillNotRunning(h, i) ==
  /\ Ready(h)
  /\ ~running[h][i]
  /\ Return(h, TRUE)
  /\ UNCHANGED <<kernelVars, memberVars, arg, fresh, attempts>>

(* kill(_pid, SIGTERM) fails with ESRCH: kill_instance returns false.      *)
KillNoProcess(h, i) ==
  /\ Ready(h)
  /\ running[h][i]
  /\ ~Exists(pid[h][i])
  /\ Return(h, FALSE)
  /\ UNCHANGED <<kernelVars, memberVars, arg, fresh, attempts>>

(* Mutant: waitpid is entered although no signal was sent.                 *)
NoSigterm(h, i, w) ==
  /\ Ready(h)
  /\ running[h][i]
  /\ Exists(pid[h][i])
  /\ pc'  = [pc EXCEPT ![h] = w]
  /\ arg' = [arg EXCEPT ![h] = i]
  /\ UNCHANGED <<kernelVars, memberVars, fresh, attempts, result>>

(* kill(_pid, SIGTERM) succeeds and the caller enters waitpid, as part of  *)
(* kill_instance (w = "kill_wait") or restart_instance ("restart_wait").   *)
SendSigterm(h, i, w) ==
  /\ Ready(h)
  /\ running[h][i]
  /\ Exists(pid[h][i])
  /\ sigterm' = sigterm \cup {p \in Pids : p = pid[h][i] /\ Alive(p)}
  /\ pc'      = [pc EXCEPT ![h] = w]
  /\ arg'     = [arg EXCEPT ![h] = i]
  /\ UNCHANGED <<status, parent, role, listener, memberVars, fresh, attempts, result>>

Kill(h, i) ==
  \/ KillNotRunning(h, i)
  \/ KillNoProcess(h, i)
  \/ SendSigterm(h, i, "kill_wait")

(* Mutant: restart_instance signals the old process and starts the new     *)
(* one at once.                                                            *)
RestartWithoutWait(h, i) ==
  \/ ~running[h][i] /\ Start(h, i)
  \/ KillNoProcess(h, i)
  \/ SendSigterm(h, i, "fork")

(* restart_instance: kill_instance() && start_instance().                  *)
Restart(h, i) ==
  \/ ~running[h][i] /\ Start(h, i)
  \/ KillNoProcess(h, i)
  \/ SendSigterm(h, i, "restart_wait")

(* Mutant: _running is not updated.                                        *)
AfterWaitStillRunning(h, exited) ==
  /\ UNCHANGED running
  /\ result' = [result EXCEPT ![h] = exited]
  /\ pc' = [pc EXCEPT ![h] = IF @ = "restart_wait" /\ exited THEN "fork" ELSE "idle"]

(* The return of waitpid in kill_instance: _running = !exited, and a       *)
(* restart goes on to start_instance if the process exited.                *)
AfterWait(h, exited) ==
  /\ running' = [running EXCEPT ![h][arg[h]] = ~exited]
  /\ result'  = [result EXCEPT ![h] = exited]
  /\ pc' = [pc EXCEPT ![h] = IF @ = "restart_wait" /\ exited THEN "fork" ELSE "idle"]

(* Mutant: waitpid(_pid, &status, WNOHANG), with its result taken for an   *)
(* exit.                                                                   *)
ReapNoHang(h) ==
  /\ status[h] = "program" /\ pc[h] \in Waiting
  /\ parent[pid[h][arg[h]]] = h
  /\ AfterWait(h, TRUE)
  /\ UNCHANGED <<kernelVars, pid, arg, fresh, attempts>>

(* waitpid(_pid) blocks until the child has ended, and reaps it.           *)
Reap(h) ==
  LET p == pid[h][arg[h]] IN
  /\ status[h] = "program" /\ pc[h] \in Waiting
  /\ parent[p] = h
  /\ status[p] = "zombie"
  /\ status' = [status EXCEPT ![p] = "reaped"]
  /\ AfterWait(h, TRUE)
  /\ UNCHANGED <<parent, role, sigterm, listener, pid, arg, fresh, attempts>>

(* waitpid fails at once with ECHILD.  Its result is not checked: the code *)
(* reads the uninitialised status, so exited may be either value.          *)
WaitNoChild(h) ==
  /\ status[h] = "program" /\ pc[h] \in Waiting
  /\ NoChild(h, arg[h])
  /\ \E exited \in BOOLEAN : AfterWait(h, exited)
  /\ UNCHANGED <<kernelVars, pid, arg, fresh, attempts>>

-----------------------------------------------------------------------------
(* wait_for_instance *)

(* socket() succeeds and the loop starts.                                  *)
WaitFor(h, i) ==
  /\ Ready(h)
  /\ pc'       = [pc EXCEPT ![h] = "connect"]
  /\ arg'      = [arg EXCEPT ![h] = i]
  /\ attempts' = [attempts EXCEPT ![h] = 0]
  /\ UNCHANGED <<kernelVars, memberVars, fresh, result>>

(* socket() fails.                                                         *)
SocketFails(h) ==
  /\ Ready(h)
  /\ Return(h, FALSE)
  /\ UNCHANGED <<kernelVars, memberVars, arg, fresh, attempts>>

(* connect() succeeds: some process listens on the ip and port.            *)
ConnectSucceeds(h) ==
  /\ At(h, "connect") /\ attempts[h] < MaxAttempts
  /\ listener[arg[h]] # None
  /\ Return(h, TRUE)
  /\ UNCHANGED <<kernelVars, memberVars, arg, fresh, attempts>>

(* Mutant: an off-by-one in the bound of the loop.                         *)
OneAttemptTooMany(h) ==
  /\ At(h, "connect") /\ attempts[h] <= MaxAttempts
  /\ listener[arg[h]] = None
  /\ attempts' = [attempts EXCEPT ![h] = @ + 1]
  /\ UNCHANGED <<kernelVars, memberVars, pc, arg, fresh, result>>

(* Mutant: the attempts are not counted.                                   *)
AttemptNotCounted(h) ==
  /\ At(h, "connect") /\ attempts[h] < MaxAttempts
  /\ listener[arg[h]] = None
  /\ UNCHANGED vars

(* connect() is refused: sleep before the next attempt.                    *)
ConnectRefused(h) ==
  /\ At(h, "connect") /\ attempts[h] < MaxAttempts
  /\ listener[arg[h]] = None
  /\ attempts' = [attempts EXCEPT ![h] = @ + 1]
  /\ UNCHANGED <<kernelVars, memberVars, pc, arg, fresh, result>>

(* The attempts are used up.                                               *)
CallOff(h) ==
  /\ At(h, "connect") /\ attempts[h] = MaxAttempts
  /\ Return(h, FALSE)
  /\ UNCHANGED <<kernelVars, memberVars, arg, fresh, attempts>>

-----------------------------------------------------------------------------
(* The kernel and the servers (external) *)

(* Process p ends.  It stays a zombie while its parent lives; the zombies  *)
(* it leaves behind are reaped by init.                                    *)
Exits(p) ==
  /\ status' = [q \in Pids |->
       CASE q = p -> IF parent[p] \in Pids /\ status[parent[p]] = "program"
                       THEN "zombie" ELSE "reaped"
         [] q # p /\ parent[q] = p /\ status[q] = "zombie" -> "reaped"
         [] OTHER -> status[q]]
  /\ listener' = [i \in Instances |-> IF listener[i] = p THEN None ELSE listener[i]]
  /\ sigterm'  = sigterm \ {p}
  /\ UNCHANGED <<parent, role, memberVars, callVars>>

(* A server comes up on its ip and port.                                   *)
Listen(p) ==
  /\ status[p] = "server"
  /\ listener[role[p]] = None
  /\ listener' = [listener EXCEPT ![role[p]] = p]
  /\ UNCHANGED <<status, parent, role, sigterm, memberVars, callVars>>

(* A server ends on its own, for one because it finds its address taken by *)
(* another process.                                                        *)
Crash(p) == status[p] = "server" /\ Exits(p)

(* SIGTERM ends a server, and a program too: the tests do not catch it.    *)
Terminate(p) == p \in sigterm /\ Alive(p) /\ Exits(p)

(* A program that is in no call ends: main returns.                        *)
Quit(h) == Ready(h) /\ Exits(h)

-----------------------------------------------------------------------------
(* Every caller starts an instance it has just constructed (Site::start,   *)
(* create_and_start_dns) or has called kill_instance for (fix_failure),    *)
(* which leaves an instance running only where its process is no child of  *)
(* the caller: in a copy that runs on.                                     *)
Call(h) ==
  \E i \in Instances :
    \/ (running[h][i] => NoChild(h, i)) /\ Start(h, i)
    \/ Kill(h, i)
    \/ Restart(h, i)
    \/ WaitFor(h, i)

(* The steps of a call in progress.                                        *)
Proceed(h) ==
  \/ ForkFails(h) \/ SaveOffPid(h)
  \/ Exec(h) \/ ExecFails(h)
  \/ Reap(h) \/ WaitNoChild(h)
  \/ ConnectSucceeds(h) \/ ConnectRefused(h) \/ CallOff(h)

Step(h) == Fork(h) \/ Proceed(h)

Server(p) == Listen(p) \/ Crash(p) \/ Terminate(p)

Next == \E p \in Pids : Call(p) \/ SocketFails(p) \/ Step(p) \/ Server(p) \/ Quit(p)

Spec == Init /\ [][Next]_vars

(* Programs are scheduled, and a process acts on SIGTERM in the end.       *)
Fairness == \A p \in Pids : WF_vars(Step(p)) /\ WF_vars(Terminate(p))

FairSpec == Spec /\ Fairness

-----------------------------------------------------------------------------
TypeOK ==
  /\ status   \in [Pids -> Statuses]
  /\ parent   \in [Pids -> Pids \cup {None}]
  /\ role     \in [Pids -> Instances \cup {None}]
  /\ sigterm  \in SUBSET Pids
  /\ listener \in [Instances -> Pids \cup {None}]
  /\ pid      \in [Pids -> [Instances -> Pids \cup {None}]]
  /\ running  \in [Pids -> [Instances -> BOOLEAN]]
  /\ pc       \in [Pids -> Calls]
  /\ arg      \in [Pids -> Instances \cup {None}]
  /\ fresh    \in [Pids -> Pids \cup {None}]
  /\ attempts \in [Pids -> 0..MaxAttempts]
  /\ result   \in [Pids -> BOOLEAN]

(* No process is ever lost: as long as a program lives, each process it    *)
(* forked and has not reaped is the _pid of the instance it was forked     *)
(* for, with _running set, so that a later kill_instance, restart_instance *)
(* or destructor (processinstance.h:22) ends it.                           *)
NoLostProcess ==
  \A h, c \in Pids :
    (status[h] = "program" /\ parent[c] = h /\ Exists(c)) =>
      \/ pc[h] = "forked" /\ fresh[h] = c
      \/ running[h][role[c]] /\ pid[h][role[c]] = c

(* A program launched by the user signals and waits for its own unreaped   *)
(* children only: kill(2) cannot hit a stranger that was given a recycled  *)
(* pid, waitpid(2) does not fail, and the uninitialised status of          *)
(* kill_instance (processinstance.cpp:58) is never read.                   *)
SignalsOwnChildren ==
  \A h \in Roots : \A i \in Instances :
    (status[h] = "program" /\ running[h][i]) =>
      parent[pid[h][i]] = h /\ Exists(pid[h][i])

(* restart_instance and fix_failure never overlap two generations of a     *)
(* server: a program has at most one unreaped process per instance.        *)
OneProcessPerInstance ==
  \A c, d \in Pids :
    (Exists(c) /\ Exists(d) /\ parent[c] = parent[d] /\ role[c] = role[d]
       /\ parent[c] \in Pids /\ status[parent[c]] = "program") => c = d

(* "Whether the processes have all started successfully" (site.h:118):     *)
(* when wait_for_instance returns true, the process that accepted the      *)
(* connection is the one that start_instance last forked for the instance. *)
WaitFindsOwnProcess ==
  [][\A h \in Roots :
       (pc[h] = "connect" /\ pc'[h] = "idle" /\ result'[h]) =>
         /\ running[h][arg[h]]
         /\ listener[arg[h]] = pid[h][arg[h]]]_vars

(* The same for the instances the program has started only, as every       *)
(* caller of wait_for_instances does: true means that what answered is the *)
(* process this program started, not another program's.                    *)
WaitReportsOwnStart ==
  [][\A h \in Roots :
       (/\ pc[h] = "connect" /\ pc'[h] = "idle" /\ result'[h]
        /\ running[h][arg[h]]) => listener[arg[h]] = pid[h][arg[h]]]_vars

(* Every call returns: waitpid is reached with a SIGTERM on its way to a   *)
(* child, and the connection loop is bounded.                              *)
CallsReturn == \A h \in Roots : pc[h] # "idle" ~> pc[h] = "idle"
=============================================================================
