------------------------ MODULE ProcessInstanceProofs ------------------------
(***************************************************************************)
(* Theorems of ProcessInstance, for any number of instances, processes,    *)
(* test programs and connection attempts.                                  *)
(***************************************************************************)
EXTENDS ProcessInstance, TLAPS

(* The action of Next a step took, its quantifiers and disjunctions undone *)
(* once: every invariance proof below splits on it.                        *)
LEMMA NextCases ==
  ASSUME NEW p \in Pids, Call(p) \/ SocketFails(p) \/ Step(p) \/ Server(p) \/ Quit(p)
  PROVE  \/ \E i \in Instances : (running[p][i] => NoChild(p, i)) /\ Start(p, i)
         \/ \E i \in Instances : KillNotRunning(p, i)
         \/ \E i \in Instances : KillNoProcess(p, i)
         \/ \E i \in Instances, w \in Waiting : SendSigterm(p, i, w)
         \/ \E i \in Instances : WaitFor(p, i)
         \/ SocketFails(p)
         \/ Fork(p) \/ ForkFails(p) \/ SaveOffPid(p)
         \/ Exec(p) \/ ExecFails(p)
         \/ Reap(p) \/ WaitNoChild(p)
         \/ ConnectSucceeds(p) \/ ConnectRefused(p) \/ CallOff(p)
         \/ Listen(p)
         \/ status[p] = "server" /\ Exits(p)
         \/ p \in sigterm /\ Alive(p) /\ Exits(p)
         \/ Ready(p) /\ Exits(p)
<1>1. CASE Call(p)
  BY <1>1 DEF Call, Kill, Restart, Waiting
<1>2. CASE Step(p)
  BY <1>2 DEF Step, Proceed
<1>3. CASE Server(p)
  BY <1>3 DEF Server, Crash, Terminate
<1>4. CASE Quit(p)
  BY <1>4 DEF Quit
<1> QED
  BY <1>1, <1>2, <1>3, <1>4

-----------------------------------------------------------------------------
(* Type correctness *)

(* A step keeps every variable in its type.                                *)
LEMMA TypeStep ==
  ASSUME TypeOK, [Next]_vars
  PROVE  TypeOK'
<1> USE ProcessAssumption DEF TypeOK, Statuses, Calls, Waiting
<1>1. CASE UNCHANGED vars
  BY <1>1 DEF vars, kernelVars, memberVars, callVars
<1>2. ASSUME NEW p \in Pids, Call(p) \/ SocketFails(p) \/ Step(p) \/ Server(p) \/ Quit(p)
      PROVE  TypeOK'
  <2> USE DEF vars, kernelVars, memberVars, callVars, Return, Ready, At
  <2>1. CASE \E i \in Instances : (running[p][i] => NoChild(p, i)) /\ Start(p, i)
    BY <2>1 DEF Start
  <2>2. CASE \E i \in Instances : KillNotRunning(p, i)
    BY <2>2 DEF KillNotRunning
  <2>3. CASE \E i \in Instances : KillNoProcess(p, i)
    BY <2>3 DEF KillNoProcess
  <2>4. CASE \E i \in Instances, w \in Waiting : SendSigterm(p, i, w)
    BY <2>4 DEF SendSigterm
  <2>5. CASE \E i \in Instances : WaitFor(p, i)
    BY <2>5 DEF WaitFor
  <2>6. CASE SocketFails(p)
    BY <2>6 DEF SocketFails
  <2>7. CASE Fork(p)
    <3>1. PICK c \in Pids :
            /\ status'  = [status EXCEPT ![c] = "program"]
            /\ parent'  = [parent EXCEPT ![c] = p]
            /\ role'    = [role EXCEPT ![c] = arg[p]]
            /\ pid'     = [pid EXCEPT ![c] = pid[p]]
            /\ running' = [running EXCEPT ![c] = running[p]]
            /\ pc'      = [pc EXCEPT ![p] = "forked", ![c] = "exec"]
            /\ arg'     = [arg EXCEPT ![c] = arg[p]]
            /\ fresh'   = [fresh EXCEPT ![p] = c]
      BY <2>7 DEF Fork
    <3> QED
      BY <3>1, <2>7 DEF Fork
  <2>8. CASE ForkFails(p)
    BY <2>8 DEF ForkFails
  <2>9. CASE SaveOffPid(p)
    BY <2>9 DEF SaveOffPid
  <2>10. CASE Exec(p)
    BY <2>10 DEF Exec
  <2>11. CASE ExecFails(p)
    BY <2>11 DEF ExecFails
  <2>12. CASE Reap(p)
    BY <2>12 DEF Reap, AfterWait
  <2>13. CASE WaitNoChild(p)
    <3>1. PICK exited \in BOOLEAN : AfterWait(p, exited)
      BY <2>13 DEF WaitNoChild
    <3>2. p \in Pids /\ pc[p] \in Waiting
      BY <2>13 DEF WaitNoChild
    <3>3. /\ running' \in [Pids -> [Instances -> BOOLEAN]]
          /\ result' \in [Pids -> BOOLEAN]
          /\ pc' \in [Pids -> Calls]
      BY <3>1 DEF AfterWait
    <3> QED
      BY <3>3, <2>13 DEF WaitNoChild
  <2>14. CASE ConnectSucceeds(p)
    BY <2>14 DEF ConnectSucceeds
  <2>15. CASE ConnectRefused(p)
    <3>1. attempts[p] + 1 \in 0..MaxAttempts
      BY <2>15 DEF ConnectRefused
    <3> QED
      BY <3>1, <2>15 DEF ConnectRefused
  <2>16. CASE Listen(p)
    BY <2>16 DEF Listen
  <2>17. CASE Exits(p)
    BY <2>17 DEF Exits
  <2>18. CASE CallOff(p)
    BY <2>18 DEF CallOff
  <2> QED
    BY NextCases, <1>2, <2>1, <2>2, <2>3, <2>4, <2>5, <2>6, <2>7, <2>8, <2>9,
       <2>10, <2>11, <2>12, <2>13, <2>14, <2>15, <2>16, <2>17, <2>18
<1> QED
  BY <1>1, <1>2 DEF Next

(* Every variable of the model keeps its type.                             *)
THEOREM TypeCorrect == Spec => []TypeOK
<1>1. Init => TypeOK
  BY ProcessAssumption DEF Init, TypeOK, Statuses, Calls, Waiting
<1> QED
  BY <1>1, TypeStep, PTL DEF Spec

-----------------------------------------------------------------------------
(* The inductive invariant *)

(* An identifier not in use has no family.                                 *)
UnusedInv ==
  \A p \in Pids : status[p] = "unused" =>
    parent[p] = None /\ \A q \in Pids : parent[q] # p

(* The programs of the user are never signalled.                           *)
RootInv ==
  \A r \in Roots :
    status[r] \in {"program", "reaped"} /\ parent[r] = None /\ r \notin sigterm

(* What a program knows at each step of a call: start_instance runs on an  *)
(* instance whose process, if it is running, is no child of the program,   *)
(* and holds a child of its own; waitpid on an instance that is running.   *)
CallInv ==
  \A h \in Pids : status[h] = "program" =>
    /\ pc[h] # "idle" => arg[h] \in Instances
    /\ pc[h] \in {"fork", "forked"} /\ running[h][arg[h]] => NoChild(h, arg[h])
    /\ pc[h] \in Waiting => running[h][arg[h]]
    /\ pc[h] = "exec" => parent[h] \in Pids
    /\ pc[h] = "forked" =>
         /\ fresh[h] \in Pids
         /\ parent[fresh[h]] = h
         /\ role[fresh[h]] = arg[h]
         /\ Exists(fresh[h])

(* A running instance has the pid of a process forked for it, by the       *)
(* program itself or by the one it is a copy of.                           *)
MemberInv ==
  \A h \in Pids : \A i \in Instances :
    (status[h] = "program" /\ running[h][i]) =>
      /\ pid[h][i] \in Pids
      /\ parent[pid[h][i]] \in Pids
      /\ role[pid[h][i]] = i

IInv ==
  /\ TypeOK
  /\ UnusedInv
  /\ RootInv
  /\ CallInv
  /\ MemberInv
  /\ SignalsOwnChildren

(* Program h has lost no process.  This is kept apart from the invariant,  *)
(* as a program that abandons a call may lose one without harm to others.  *)
NoneLost(h) ==
  \A c \in Pids :
    (status[h] = "program" /\ parent[c] = h /\ Exists(c)) =>
      \/ pc[h] = "forked" /\ fresh[h] = c
      \/ running[h][role[c]] /\ pid[h][role[c]] = c

LosesNone == \A h \in Pids : NoneLost(h) => NoneLost(h)'

(* The initial state satisfies the inductive invariant.                    *)
LEMMA InitIInv == Init => IInv /\ \A h \in Pids : NoneLost(h)
<1> SUFFICES ASSUME Init PROVE IInv /\ \A h \in Pids : NoneLost(h)
  OBVIOUS
<1>1. TypeOK
  BY ProcessAssumption DEF Init, TypeOK, Statuses, Calls, Waiting
<1> QED
  BY <1>1, ProcessAssumption
     DEF Init, IInv, UnusedInv, RootInv, CallInv, MemberInv, NoneLost,
         SignalsOwnChildren, Waiting, Exists

(* A step that changes neither the processes nor the members, and starts   *)
(* no call that holds a process, keeps the inductive invariant.            *)
LEMMA QuietStep ==
  ASSUME IInv, TypeOK', NEW p \in Pids,
         UNCHANGED <<status, parent, role, sigterm, pid, running, fresh>>,
         \/ UNCHANGED <<pc, arg>>
         \/ pc' = [pc EXCEPT ![p] = "idle"] /\ UNCHANGED arg /\ pc[p] # "forked"
         \/ \E i \in Instances :
              /\ pc[p] # "forked"
              /\ arg' = [arg EXCEPT ![p] = i]
              /\ \/ pc' = [pc EXCEPT ![p] = "connect"]
                 \/ pc' = [pc EXCEPT ![p] = "fork"] /\ (running[p][i] => NoChild(p, i))
  PROVE  IInv' /\ LosesNone
<1> USE DEF IInv, TypeOK
<1>1. UnusedInv' /\ RootInv' /\ MemberInv' /\ SignalsOwnChildren'
  BY DEF UnusedInv, RootInv, MemberInv, SignalsOwnChildren, Exists
<1>2. CallInv'
  <2>1. /\ \A q \in Pids : Exists(q)' <=> Exists(q)
        /\ \A h \in Pids, i \in Instances : NoChild(h, i)' <=> NoChild(h, i)
    BY DEF NoChild, Exists
  <2> QED
    BY <2>1 DEF CallInv, Waiting
<1>3. LosesNone
  BY DEF LosesNone, NoneLost, Exists
<1> QED
  BY <1>1, <1>2, <1>3

(* fork() and the pid saved after it.                                      *)
LEMMA ForkStep ==
  ASSUME IInv, TypeOK', NEW h \in Pids, Fork(h)
  PROVE  IInv' /\ LosesNone
<1> USE DEF IInv, TypeOK
<1>1. PICK c \in Pids :
        /\ status[c] = "unused"
        /\ status'  = [status EXCEPT ![c] = "program"]
        /\ parent'  = [parent EXCEPT ![c] = h]
        /\ role'    = [role EXCEPT ![c] = arg[h]]
        /\ pid'     = [pid EXCEPT ![c] = pid[h]]
        /\ running' = [running EXCEPT ![c] = running[h]]
        /\ pc'      = [pc EXCEPT ![h] = "forked", ![c] = "exec"]
        /\ arg'     = [arg EXCEPT ![c] = arg[h]]
        /\ fresh'   = [fresh EXCEPT ![h] = c]
        /\ status[h] = "program" /\ pc[h] = "fork"
        /\ UNCHANGED sigterm
  BY DEF Fork, At
<1>2. h # c /\ c \notin Roots /\ parent[c] = None /\ \A q \in Pids : parent[q] # c
  BY <1>1 DEF UnusedInv, RootInv
<1>3. UnusedInv'
  BY <1>1, <1>2 DEF UnusedInv
<1>4. RootInv'
  BY <1>1, <1>2 DEF RootInv
<1>5. CallInv'
  <2>1. \A g \in Pids : status'[g] = "program" => g = c \/ (g # c /\ status[g] = "program")
    BY <1>1
  <2>2. ASSUME NEW g \in Pids, g # c, status[g] = "program", NEW i \in Instances,
               running[g][i], NoChild(g, i)
        PROVE  NoChild(g, i)'
    <3>1. pid[g][i] # c /\ pid[g][i] \in Pids
      BY <1>2, <2>2, ProcessAssumption DEF MemberInv
    <3> QED
      BY <1>1, <2>2, <3>1 DEF NoChild, Exists
  <2>3. ASSUME NEW g \in Pids, g # c, status[g] = "program"
        PROVE  /\ pc'[g] # "idle" => arg'[g] \in Instances
               /\ pc'[g] \in {"fork", "forked"} /\ running'[g][arg'[g]] => NoChild(g, arg[g])'
               /\ pc'[g] \in Waiting => running'[g][arg'[g]]
               /\ pc'[g] = "exec" => parent'[g] \in Pids
    BY <1>1, <2>2, <2>3 DEF CallInv, Waiting
  <2>4. ASSUME NEW g \in Pids, g # c, status[g] = "program", pc'[g] = "forked"
        PROVE  /\ fresh'[g] \in Pids /\ parent'[fresh'[g]] = g
               /\ role'[fresh'[g]] = arg'[g] /\ Exists(fresh[g])'
    BY <1>1, <1>2, <2>4 DEF CallInv, Exists
  <2>5. arg'[c] \in Instances /\ pc'[c] = "exec" /\ parent'[c] \in Pids
    BY <1>1, <1>2 DEF CallInv
  <2>6. \A g \in Pids : g # c => arg'[g] = arg[g]
    BY <1>1
  <2> QED
    BY <2>1, <2>3, <2>4, <2>5, <2>6 DEF CallInv, NoChild, Waiting
<1>6. MemberInv'
  BY <1>1, <1>2, ProcessAssumption DEF MemberInv
<1>7. LosesNone
  BY <1>1, <1>2 DEF LosesNone, NoneLost, Exists
<1>8. SignalsOwnChildren'
  BY <1>1, <1>2 DEF SignalsOwnChildren, MemberInv, RootInv, Exists
<1> QED
  BY <1>3, <1>4, <1>5, <1>6, <1>7, <1>8

LEMMA SaveStep ==
  ASSUME IInv, TypeOK', NEW h \in Pids, SaveOffPid(h)
  PROVE  IInv' /\ LosesNone
<1> USE DEF IInv, TypeOK
<1>1. /\ status[h] = "program" /\ pc[h] = "forked"
      /\ pid'     = [pid EXCEPT ![h][arg[h]] = fresh[h]]
      /\ running' = [running EXCEPT ![h][arg[h]] = TRUE]
      /\ fresh'   = [fresh EXCEPT ![h] = None]
      /\ pc'      = [pc EXCEPT ![h] = "idle"]
      /\ UNCHANGED <<status, parent, role, sigterm, listener, arg>>
  BY DEF SaveOffPid, At, Return, kernelVars
<1>2. /\ arg[h] \in Instances
      /\ running[h][arg[h]] => NoChild(h, arg[h])
      /\ fresh[h] \in Pids
      /\ parent[fresh[h]] = h
      /\ role[fresh[h]] = arg[h]
      /\ Exists(fresh[h])
  BY <1>1 DEF CallInv
<1>3. UnusedInv' /\ RootInv'
  BY <1>1 DEF UnusedInv, RootInv
<1>4. CallInv'
  BY <1>1, <1>2 DEF CallInv, NoChild, Exists, Waiting
<1>5. MemberInv'
  BY <1>1, <1>2 DEF MemberInv
<1>6. LosesNone
  BY <1>1, <1>2 DEF LosesNone, NoneLost, NoChild, Exists
<1>7. SignalsOwnChildren'
  BY <1>1, <1>2 DEF SignalsOwnChildren, Exists
<1> QED
  BY <1>3, <1>4, <1>5, <1>6, <1>7

(* execlp, and the end of a process.                                       *)
LEMMA ExecStep ==
  ASSUME IInv, TypeOK', NEW c \in Pids, Exec(c)
  PROVE  IInv' /\ LosesNone
<1> USE DEF IInv, TypeOK
<1>1. /\ status[c] = "program" /\ pc[c] = "exec"
      /\ status' = [status EXCEPT ![c] = "server"]
      /\ UNCHANGED <<parent, role, sigterm, listener, pid, running, pc, arg, fresh>>
  BY DEF Exec, At, memberVars, callVars
<1>2. c \notin Roots
  BY <1>1, ProcessAssumption DEF CallInv, RootInv
<1>3. UnusedInv' /\ RootInv' /\ MemberInv'
  BY <1>1, <1>2 DEF UnusedInv, RootInv, MemberInv
<1>4. CallInv'
  BY <1>1 DEF CallInv, NoChild, Exists, Waiting
<1>5. LosesNone /\ SignalsOwnChildren'
  BY <1>1, <1>2 DEF LosesNone, NoneLost, SignalsOwnChildren, MemberInv, RootInv, Exists
<1> QED
  BY <1>3, <1>4, <1>5

LEMMA ExitsStep ==
  ASSUME IInv, TypeOK', NEW p \in Pids, Exits(p),
         status[p] = "server" \/ (p \in sigterm /\ Alive(p)) \/ Ready(p)
  PROVE  IInv' /\ LosesNone
<1> USE DEF IInv, TypeOK
<1>1. /\ status' = [q \in Pids |->
           CASE q = p -> IF parent[p] \in Pids /\ status[parent[p]] = "program"
                           THEN "zombie" ELSE "reaped"
             [] q # p /\ parent[q] = p /\ status[q] = "zombie" -> "reaped"
             [] OTHER -> status[q]]
      /\ sigterm'  = sigterm \ {p}
      /\ UNCHANGED <<parent, role, pid, running, pc, arg, fresh>>
  BY DEF Exits, memberVars, callVars
<1>2. p \in Roots => parent[p] \notin Pids
  BY ProcessAssumption DEF RootInv
<1>3. \A q \in Pids : status'[q] \in {"unused", "program"} => q # p /\ status'[q] = status[q]
  BY <1>1
<1>4. \A q \in Pids : q # p /\ status[q] = "program" => status'[q] = "program"
  BY <1>1
<1>5. \A h, q \in Pids :
        (status'[h] = "program" /\ parent[q] = h) => (Exists(q)' <=> Exists(q) \/ q = p)
  BY <1>1, <1>3 DEF Exists
<1>6. UnusedInv' /\ RootInv' /\ MemberInv'
  <2>1. UnusedInv'
    BY <1>1, <1>3 DEF UnusedInv
  <2>2. RootInv'
    BY <1>1, <1>2, <1>4, ProcessAssumption DEF RootInv
  <2>3. MemberInv'
    BY <1>1, <1>3 DEF MemberInv
  <2> QED
    BY <2>1, <2>2, <2>3
<1>8. Exists(p)
  BY DEF Alive, Ready, Exists
<1>7. CallInv'
  <2>1. ASSUME NEW h \in Pids, NEW i \in Instances, status'[h] = "program",
               running[h][i], NoChild(h, i)
        PROVE  NoChild(h, i)'
    <3>1. PICK q \in Pids : q = pid[h][i] /\ (parent[q] # h \/ ~Exists(q))
      BY <1>3, <2>1 DEF MemberInv, NoChild
    <3>2. parent[q] # h \/ ~Exists(q)'
      BY <1>5, <1>8, <2>1, <3>1
    <3> QED
      BY <1>1, <3>1, <3>2 DEF NoChild, Exists
  <2> QED
    BY <1>1, <1>3, <1>5, <2>1 DEF CallInv, Waiting
<1>9. LosesNone
  BY <1>1, <1>3, <1>5, <1>8 DEF LosesNone, NoneLost
<1>10. SignalsOwnChildren'
  <2> SUFFICES ASSUME NEW r \in Roots, NEW i \in Instances, running[r][i],
                      status'[r] = "program"
               PROVE  parent[pid[r][i]] = r /\ Exists(pid[r][i])'
    BY <1>1 DEF SignalsOwnChildren
  <2>1. r \in Pids /\ status[r] = "program"
    BY <1>3, ProcessAssumption
  <2>2. pid[r][i] \in Pids /\ parent[pid[r][i]] = r /\ Exists(pid[r][i])
    BY <2>1 DEF MemberInv, SignalsOwnChildren
  <2> QED
    BY <2>1, <2>2, <1>1, <1>5
<1> QED
  BY <1>6, <1>7, <1>9, <1>10

(* kill(2), and the return of waitpid(2).                                  *)
LEMMA SendStep ==
  ASSUME IInv, TypeOK', NEW h \in Pids, NEW i \in Instances, NEW w \in Waiting,
         SendSigterm(h, i, w)
  PROVE  IInv' /\ LosesNone
<1> USE DEF IInv, TypeOK
<1>1. /\ status[h] = "program" /\ pc[h] = "idle"
      /\ running[h][i]
      /\ sigterm' = sigterm \cup {p \in Pids : p = pid[h][i] /\ Alive(p)}
      /\ pc'      = [pc EXCEPT ![h] = w]
      /\ arg'     = [arg EXCEPT ![h] = i]
      /\ UNCHANGED <<status, parent, role, pid, running, fresh>>
  BY DEF SendSigterm, Ready, memberVars
<1>2. pid[h][i] \notin Roots
  BY <1>1, ProcessAssumption DEF MemberInv, RootInv
<1>3. UnusedInv' /\ MemberInv' /\ SignalsOwnChildren'
  BY <1>1 DEF UnusedInv, MemberInv, SignalsOwnChildren, Exists
<1>4. RootInv'
  BY <1>1, <1>2 DEF RootInv
<1>5. CallInv'
  BY <1>1 DEF CallInv, NoChild, Exists, Waiting
<1>6. LosesNone
  BY <1>1 DEF LosesNone, NoneLost, Exists, Waiting
<1> QED
  BY <1>3, <1>4, <1>5, <1>6

LEMMA ReapStep ==
  ASSUME IInv, TypeOK', NEW h \in Pids, Reap(h)
  PROVE  IInv' /\ LosesNone
<1> USE DEF IInv, TypeOK
<1> DEFINE p == pid[h][arg[h]]
<1>1. /\ status[h] = "program" /\ pc[h] \in Waiting
      /\ parent[p] = h /\ status[p] = "zombie"
      /\ status'  = [status EXCEPT ![p] = "reaped"]
      /\ running' = [running EXCEPT ![h][arg[h]] = FALSE]
      /\ pc' = [pc EXCEPT ![h] = IF @ = "restart_wait" THEN "fork" ELSE "idle"]
      /\ UNCHANGED <<parent, role, sigterm, pid, arg, fresh>>
  BY DEF Reap, AfterWait
<1>2. /\ arg[h] \in Instances /\ running[h][arg[h]]
      /\ p \in Pids /\ role[p] = arg[h] /\ p \notin Roots
  BY <1>1, ProcessAssumption DEF CallInv, MemberInv, RootInv, Waiting
<1>3. UnusedInv' /\ RootInv' /\ MemberInv'
  BY <1>1, <1>2 DEF UnusedInv, RootInv, MemberInv
<1>4. CallInv'
  BY <1>1, <1>2 DEF CallInv, NoChild, Exists, Waiting
<1>5. LosesNone
  BY <1>1, <1>2 DEF LosesNone, NoneLost, Exists, Waiting
<1>6. SignalsOwnChildren'
  BY <1>1, <1>2, ProcessAssumption DEF SignalsOwnChildren, MemberInv, RootInv, Exists
<1> QED
  BY <1>3, <1>4, <1>5, <1>6

LEMMA WaitNoChildStep ==
  ASSUME IInv, TypeOK', NEW h \in Pids, WaitNoChild(h)
  PROVE  IInv' /\ LosesNone
<1> USE DEF IInv, TypeOK
<1> DEFINE p == pid[h][arg[h]]
<1>1. PICK exited \in BOOLEAN :
      /\ status[h] = "program" /\ pc[h] \in Waiting
      /\ parent[p] # h \/ ~Exists(p)
      /\ running' = [running EXCEPT ![h][arg[h]] = ~exited]
      /\ pc' = [pc EXCEPT ![h] = IF @ = "restart_wait" /\ exited THEN "fork" ELSE "idle"]
      /\ UNCHANGED <<status, parent, role, sigterm, pid, arg, fresh>>
  BY DEF WaitNoChild, NoChild, AfterWait, kernelVars
<1>2. arg[h] \in Instances /\ running[h][arg[h]]
  BY <1>1 DEF CallInv, Waiting
<1>3. \A g \in Pids : \A i \in Instances : running'[g][i] => running[g][i]
  BY <1>1, <1>2
<1>4. UnusedInv' /\ RootInv' /\ MemberInv' /\ SignalsOwnChildren'
  <2>1. UnusedInv' /\ RootInv'
    BY <1>1 DEF UnusedInv, RootInv
  <2>2. MemberInv'
    BY <1>1, <1>3 DEF MemberInv
  <2>3. SignalsOwnChildren'
    BY <1>1, <1>3, ProcessAssumption DEF SignalsOwnChildren, Exists
  <2> QED
    BY <2>1, <2>2, <2>3
<1>5. CallInv'
  <2>1. CASE exited
    <3>1. running' = [running EXCEPT ![h][arg[h]] = FALSE]
      BY <1>1, <2>1
    <3>2. pc' = [pc EXCEPT ![h] = IF @ = "restart_wait" THEN "fork" ELSE "idle"]
      BY <1>1, <2>1
    <3> QED
      BY <1>1, <1>2, <3>1, <3>2 DEF CallInv, NoChild, Exists, Waiting
  <2>2. CASE ~exited
    <3>1. pc' = [pc EXCEPT ![h] = "idle"]
      BY <1>1, <2>2
    <3>2. running' = [running EXCEPT ![h][arg[h]] = TRUE]
      BY <1>1, <2>2
    <3>3. running' = running
      BY <1>2, <3>2
    <3> QED
      BY <1>1, <1>2, <3>1, <3>3 DEF CallInv, NoChild, Exists, Waiting
  <2> QED
    BY <2>1, <2>2
<1>6. LosesNone
  BY <1>1, <1>2 DEF LosesNone, NoneLost, Exists, Waiting
<1> QED
  BY <1>4, <1>5, <1>6

-----------------------------------------------------------------------------
(* Every step keeps the inductive invariant.                               *)
LEMMA IInvStep ==
  ASSUME IInv, [Next]_vars
  PROVE  IInv' /\ LosesNone
<1>1. TypeOK'
  BY TypeStep DEF IInv
<1>2. CASE UNCHANGED vars
  <2>1. IInv /\ UNCHANGED <<pc, arg>>
    BY <1>2 DEF vars, callVars
  <2>2. UNCHANGED <<status, parent, role, sigterm, pid, running, fresh>>
    BY <1>2 DEF vars, kernelVars, memberVars, callVars
  <2>3. CASE Pids # {}
    BY <1>1, <2>1, <2>2, <2>3, QuietStep
  <2>4. CASE Pids = {}
    BY <1>1, <2>1, <2>2, <2>4, ProcessAssumption
       DEF IInv, UnusedInv, RootInv, CallInv, MemberInv, SignalsOwnChildren, LosesNone
  <2> QED
    BY <2>3, <2>4
<1>3. ASSUME NEW p \in Pids, Call(p) \/ SocketFails(p) \/ Step(p) \/ Server(p) \/ Quit(p)
      PROVE  IInv' /\ LosesNone
  <2>1. CASE \E i \in Instances : (running[p][i] => NoChild(p, i)) /\ Start(p, i)
    <3>1. PICK i \in Instances : (running[p][i] => NoChild(p, i)) /\ Start(p, i)
      BY <2>1
    <3> QED
      BY <1>1, <3>1, QuietStep DEF Start, Ready, kernelVars, memberVars
  <2>2. CASE \/ \E i \in Instances : KillNotRunning(p, i) \/ KillNoProcess(p, i)
             \/ SocketFails(p) \/ ForkFails(p) \/ ExecFails(p)
             \/ ConnectSucceeds(p) \/ CallOff(p)
    BY <1>1, <2>2, QuietStep
       DEF KillNotRunning, KillNoProcess, SocketFails, ForkFails, ExecFails,
           ConnectSucceeds, CallOff, Ready, At, Return, kernelVars, memberVars
  <2>3. CASE \E i \in Instances : WaitFor(p, i)
    BY <1>1, <2>3, QuietStep DEF WaitFor, Ready, kernelVars, memberVars
  <2>4. CASE ConnectRefused(p) \/ Listen(p)
    BY <1>1, <2>4, QuietStep DEF ConnectRefused, Listen, kernelVars, memberVars, callVars
  <2> QED
    BY NextCases, <1>1, <1>3, <2>1, <2>2, <2>3, <2>4, SendStep, ForkStep, SaveStep,
       ExecStep, ReapStep, WaitNoChildStep, ExitsStep
<1> QED
  BY <1>2, <1>3 DEF Next

LEMMA Inductive == Spec => [](IInv /\ NoLostProcess)
<1>1. NoLostProcess <=> \A h \in Pids : NoneLost(h)
  BY DEF NoLostProcess, NoneLost
<1>2. NoLostProcess' <=> \A h \in Pids : NoneLost(h)'
  BY DEF NoLostProcess, NoneLost
<1>3. IInv /\ NoLostProcess /\ [Next]_vars => IInv' /\ NoLostProcess'
  BY <1>1, <1>2, IInvStep DEF LosesNone
<1> QED
  BY <1>1, <1>3, InitIInv, PTL DEF Spec

(* No process is ever lost: kill_instance and the destructor can still     *)
(* reach every process start_instance forked.                              *)
THEOREM NoProcessLost == Spec => []NoLostProcess
  BY Inductive, PTL

(* A user's program signals and waits for its own children only, so that   *)
(* kill_instance never reads its status uninitialised there.               *)
THEOREM OwnChildrenSignalled == Spec => []SignalsOwnChildren
<1>1. IInv => SignalsOwnChildren
  BY DEF IInv
<1> QED
  BY <1>1, Inductive, PTL

(* Two generations of one server never overlap.                            *)
THEOREM OneGeneration == Spec => []OneProcessPerInstance
<1>1. IInv /\ NoLostProcess => OneProcessPerInstance
  <2> SUFFICES ASSUME IInv, NoLostProcess,
                      NEW c \in Pids, NEW d \in Pids, Exists(c), Exists(d),
                      parent[c] = parent[d], role[c] = role[d],
                      parent[c] \in Pids, status[parent[c]] = "program"
               PROVE  c = d
    BY DEF OneProcessPerInstance
  <2> DEFINE h == parent[c]
  <2>1. \A q \in {c, d} : \/ pc[h] = "forked" /\ fresh[h] = q
                          \/ running[h][role[q]] /\ pid[h][role[q]] = q
    BY DEF NoLostProcess
  <2>2. pc[h] = "forked" => /\ running[h][arg[h]] => NoChild(h, arg[h])
                            /\ role[fresh[h]] = arg[h]
    BY DEF IInv, CallInv
  <2> QED
    BY <2>1, <2>2 DEF NoChild
<1> QED
  BY <1>1, Inductive, PTL

-----------------------------------------------------------------------------
(* wait_for_instance with one test program and no failing execlp *)

(* Only the user's program runs tests and forks, and only servers it       *)
(* forked listen, each on the address of its instance.                     *)
SoleProgram ==
  /\ \A p \in Pids \ Roots : status[p] = "program" => pc[p] = "exec"
  /\ \A p \in Pids : parent[p] = None \/ (parent[p] \in Roots /\ role[p] \in Instances)
  /\ \A p \in Pids : status[p] = "server" => parent[p] \in Roots
  /\ \A i \in Instances : listener[i] \in Pids =>
       status[listener[i]] = "server" /\ role[listener[i]] = i

LEMMA SoleProgramStep ==
  ASSUME ExecMayFail = FALSE, IInv, TypeOK', SoleProgram, [Next]_vars
  PROVE  SoleProgram'
<1> USE ProcessAssumption DEF IInv, TypeOK
<1>1. CASE UNCHANGED vars
  BY <1>1 DEF SoleProgram, vars, kernelVars, memberVars, callVars
<1>2. ASSUME NEW p \in Pids, Call(p) \/ SocketFails(p) \/ Step(p) \/ Server(p) \/ Quit(p)
      PROVE  SoleProgram'
  <2>1. CASE \E i \in Instances : \/ (running[p][i] => NoChild(p, i)) /\ Start(p, i)
                                 \/ KillNotRunning(p, i) \/ KillNoProcess(p, i)
                                 \/ WaitFor(p, i)
                                 \/ \E w \in Waiting : SendSigterm(p, i, w)
    <3>1. /\ status[p] = "program" /\ pc[p] = "idle"
          /\ UNCHANGED <<status, parent, role, listener>>
          /\ \A q \in Pids \ {p} : pc'[q] = pc[q]
      BY <2>1 DEF Start, KillNotRunning, KillNoProcess, WaitFor, SendSigterm, Ready,
           Return, kernelVars
    <3> QED
      BY <3>1 DEF SoleProgram
  <2>2. CASE \/ SocketFails(p) \/ ForkFails(p) \/ SaveOffPid(p) \/ WaitNoChild(p)
             \/ ConnectSucceeds(p) \/ ConnectRefused(p) \/ CallOff(p)
    <3>1. /\ status[p] = "program" /\ pc[p] # "exec"
          /\ UNCHANGED <<status, parent, role, listener>>
          /\ \A q \in Pids \ {p} : pc'[q] = pc[q]
      BY <2>2 DEF SocketFails, ForkFails, SaveOffPid, WaitNoChild, AfterWait, Waiting,
           ConnectSucceeds, ConnectRefused, CallOff, Ready, At, Return, kernelVars
    <3> QED
      BY <3>1 DEF SoleProgram
  <2>3. CASE Fork(p)
    <3>1. PICK c \in Pids :
            /\ status[c] = "unused" /\ status[p] = "program" /\ pc[p] = "fork"
            /\ status' = [status EXCEPT ![c] = "program"]
            /\ parent' = [parent EXCEPT ![c] = p]
            /\ role'   = [role EXCEPT ![c] = arg[p]]
            /\ pc'     = [pc EXCEPT ![p] = "forked", ![c] = "exec"]
            /\ UNCHANGED listener
      BY <2>3 DEF Fork, At
    <3>2. p \in Roots /\ arg[p] \in Instances
      BY <3>1 DEF SoleProgram, CallInv
    <3> QED
      BY <3>1, <3>2 DEF SoleProgram
  <2>4. CASE Exec(p)
    BY <2>4 DEF Exec, At, CallInv, SoleProgram, callVars
  <2>5. CASE ExecFails(p)
    BY <2>5 DEF ExecFails
  <2>6. CASE Reap(p)
    <3> DEFINE q == pid[p][arg[p]]
    <3>1. /\ status[p] = "program" /\ pc[p] \in Waiting
          /\ status[q] = "zombie"
          /\ status' = [status EXCEPT ![q] = "reaped"]
          /\ UNCHANGED <<parent, role, listener>>
          /\ \A g \in Pids \ {p} : pc'[g] = pc[g]
      BY <2>6 DEF Reap, AfterWait
    <3>2. p \in Roots
      BY <3>1 DEF SoleProgram, Waiting
    <3> QED
      BY <3>1, <3>2 DEF SoleProgram
  <2>7. CASE Listen(p)
    BY <2>7 DEF Listen, SoleProgram, callVars
  <2>8. CASE Exits(p)
    <3>1. /\ \A q \in Pids : status'[q] \in {"program", "server"} =>
                 q # p /\ status'[q] = status[q]
          /\ \A q \in Pids : q # p /\ status[q] = "server" => status'[q] = "server"
          /\ listener' = [i \in Instances |-> IF listener[i] = p THEN None ELSE listener[i]]
          /\ UNCHANGED <<parent, role, pc>>
      BY <2>8 DEF Exits, callVars
    <3> QED
      BY <3>1 DEF SoleProgram
  <2> QED
    BY NextCases, <1>2, <2>1, <2>2, <2>3, <2>4, <2>5, <2>6, <2>7, <2>8
<1> QED
  BY <1>1, <1>2 DEF Next

(* wait_for_instance returns true by connecting, and in no other way.      *)
LEMMA ReturnFromConnect ==
  ASSUME IInv, [Next]_vars, NEW h \in Roots,
         pc[h] = "connect", pc'[h] = "idle", result'[h]
  PROVE  ConnectSucceeds(h)
<1> USE ProcessAssumption DEF IInv, TypeOK
<1>1. status[h] # "unused" /\ h \in Pids
  BY DEF RootInv
<1>2. ~UNCHANGED vars
  BY DEF vars, callVars
<1>3. ASSUME NEW p \in Pids, Call(p) \/ SocketFails(p) \/ Step(p) \/ Server(p) \/ Quit(p)
      PROVE  ConnectSucceeds(h)
  <2>1. CASE Exits(p) \/ Listen(p) \/ Exec(p) \/ ConnectRefused(p)
    BY <2>1 DEF Exits, Listen, Exec, ConnectRefused, callVars
  <2>2. CASE Fork(p)
    BY <2>2, <1>1 DEF Fork, At
  <2>3. CASE \E i \in Instances : \/ (running[p][i] => NoChild(p, i)) /\ Start(p, i)
                                 \/ KillNotRunning(p, i) \/ KillNoProcess(p, i)
                                 \/ WaitFor(p, i)
                                 \/ \E w \in Waiting : SendSigterm(p, i, w)
    BY <2>3, ZenonT(60) DEF Start, KillNotRunning, KillNoProcess, WaitFor, SendSigterm, Ready, Return
  <2>4. CASE SocketFails(p) \/ ForkFails(p) \/ SaveOffPid(p) \/ ExecFails(p)
    BY <2>4 DEF SocketFails, ForkFails, SaveOffPid, ExecFails, Ready, At, Return
  <2>5. CASE Reap(p) \/ WaitNoChild(p)
    BY <2>5 DEF Reap, WaitNoChild, AfterWait, Waiting
  <2>6. CASE CallOff(p)
    BY <2>6 DEF CallOff, At, Return
  <2>7. CASE ConnectSucceeds(p)
    BY <2>7 DEF ConnectSucceeds, At, Return
  <2> QED
    BY NextCases, <1>3, <2>1, <2>2, <2>3, <2>4, <2>5, <2>6, <2>7
<1> QED
  BY <1>2, <1>3 DEF Next

(* With one test program and no failing execlp, a wait_for_instance that   *)
(* returns true has connected to the process of that very instance.        *)
THEOREM WaitIsForOwnProcess ==
  ASSUME NEW r, Roots = {r}, ExecMayFail = FALSE
  PROVE  Spec => WaitFindsOwnProcess
<1> DEFINE A == \A h \in Roots :
       (pc[h] = "connect" /\ pc'[h] = "idle" /\ result'[h]) =>
         /\ running[h][arg[h]]
         /\ listener[arg[h]] = pid[h][arg[h]]
<1>1. Init => SoleProgram
  BY ProcessAssumption DEF Init, SoleProgram
<1>2. IInv /\ SoleProgram /\ [Next]_vars => SoleProgram'
  BY SoleProgramStep, IInvStep DEF IInv
<1>3. IInv /\ NoLostProcess /\ SoleProgram /\ [Next]_vars => [A]_vars
  <2> SUFFICES ASSUME IInv, NoLostProcess, SoleProgram, [Next]_vars, NEW h \in Roots,
                      pc[h] = "connect", pc'[h] = "idle", result'[h]
               PROVE  running[h][arg[h]] /\ listener[arg[h]] = pid[h][arg[h]]
    OBVIOUS
  <2> DEFINE p == listener[arg[h]]
  <2>1. status[h] = "program" /\ h \in Pids /\ h = r /\ arg[h] \in Instances
    BY ReturnFromConnect, ProcessAssumption DEF ConnectSucceeds, At, IInv, CallInv
  <2>2. p # None
    BY ReturnFromConnect DEF ConnectSucceeds
  <2>3. p \in Pids /\ status[p] = "server" /\ role[p] = arg[h] /\ parent[p] = h
    BY <2>1, <2>2 DEF SoleProgram, IInv, TypeOK
  <2> QED
    BY <2>1, <2>3 DEF NoLostProcess, Exists
<1> QED
  BY <1>1, <1>2, <1>3, Inductive, PTL DEF Spec, WaitFindsOwnProcess
=============================================================================
