--------------------------- MODULE TestFixtureProofs ---------------------------
(***************************************************************************)
(* Lemmas about the steps of TestFixture, for the proof modules of the     *)
(* fixtures that extend it.                                                *)
(*                                                                         *)
(* A fixture's invariants speak of its list: what the steps it has left    *)
(* will do, given what its servers are now.  On is the set of what a step  *)
(* may be on, and staticOf a function that gives the static pointer that   *)
(* holds an instance.                                                      *)
(***************************************************************************)
EXTENDS TestFixture, ProcessInstanceProofs, SequenceTheorems

-----------------------------------------------------------------------------
(* Lists of steps *)

(* Where the steps of two lists are in their concatenation.                *)
LEMMA Joined ==
  ASSUME NEW S, NEW s \in Seq(S), NEW t \in Seq(S), NEW u, u = s \o t
  PROVE  /\ Len(s) \in Nat /\ Len(t) \in Nat
         /\ u \in Seq(S) /\ Len(u) = Len(s) + Len(t)
         /\ \A k \in 1..Len(s) : k \in 1..Len(u) /\ u[k] = s[k]
         /\ \A k \in 1..Len(t) : Len(s) + k \in 1..Len(u) /\ u[Len(s) + k] = t[k]
         /\ \A k \in 1..Len(u) : k > Len(s) => k - Len(s) \in 1..Len(t) /\ u[k] = t[k - Len(s)]
<1>1. /\ Len(s) \in Nat /\ Len(t) \in Nat
      /\ u \in Seq(S) /\ Len(u) = Len(s) + Len(t)
      /\ \A k \in 1..(Len(s) + Len(t)) : u[k] = IF k <= Len(s) THEN s[k] ELSE t[k - Len(s)]
  BY ConcatProperties, LenProperties
<1>2. \A k \in 1..Len(t) : (Len(s) + k) - Len(s) = k /\ Len(s) + k > Len(s)
  BY <1>1
<1>3. \A k \in 1..Len(t) : u[Len(s) + k] = t[(Len(s) + k) - Len(s)]
  BY <1>1
<1> QED
  BY <1>1, <1>2, <1>3

-----------------------------------------------------------------------------
(* The invariant *)

(* What TearDownTestCase and exit() never do.                              *)
TestOnly == {"start", "restart", "wait", "wait_for_instances", "return_unless_ok",
             "body", "done", "own", "teardown", "create_tmp", "new_site", "new_dnsmasq",
             "new_s4_sites", "delete_s4_sites"}

(* What the tests never do.                                                *)
Removals == {"disown", "remove_cfg", "remove_chronos", "remove_site", "remove_tmp"}

Kinds == TestOnly \cup Removals \cup {"kill"}

Steps(On) == [do : Kinds, on : On, judge : {"nobody", "site", "test"}]

Starts(step, i) == step.do \in {"start", "restart"} /\ step.on = i

(* The calls on the list of h are on instances.                            *)
ListInv(h) ==
  \A k \in 1..Len(todo[h]) :
    todo[h][k].do \in {"start", "kill", "restart", "wait"} => todo[h][k].on \in Instances

(* Instance i will be running when the call that h is in has returned.     *)
WillRun(h, i) ==
  \/ running[h][i] /\ ~(pc[h] = "kill_wait" /\ arg[h] = i)
  \/ pc[h] \in {"fork", "forked", "restart_wait"} /\ arg[h] = i

(* start_instance is called on an instance that was just killed, or was    *)
(* not running and is not started before.                                  *)
FreshInv(h) ==
  \A k \in 1..Len(todo[h]) : todo[h][k].do = "start" =>
    \/ k > 1 /\ todo[h][k - 1].do = "kill" /\ todo[h][k - 1].on = todo[h][k].on
    \/ /\ ~WillRun(h, todo[h][k].on)
       /\ \A j \in 1..(k - 1) : ~Starts(todo[h][j], todo[h][k].on)

(* Until the tests end, an instance that is running or being started is    *)
(* held by a static that is set, or will be before it is started.          *)
OwnedInv(h, staticOf) ==
  /\ Len(todo[h]) > 0
  /\ todo[h][Len(todo[h])].do = "teardown"
  /\ \A i \in Instances : running[h][i] \/ WillRun(h, i) => staticOf[i] \in owned[h]
  /\ \A k \in 1..Len(todo[h]) :
       /\ todo[h][k].do \notin Removals
       /\ todo[h][k].do \in {"start", "restart"} =>
            \/ staticOf[todo[h][k].on] \in owned[h]
            \/ \E j \in 1..(k - 1) :
                 todo[h][j].do = "own" /\ todo[h][j].on = staticOf[todo[h][k].on]
       /\ todo[h][k].do = "own" =>
            \A j \in 1..k : todo[h][j].do # "return_unless_ok"

(* In TearDownTestCase and in exit() there are kills only, and whatever    *)
(* runs is killed, but for the signals that leave a server behind.         *)
KillsInv(h) ==
  /\ pc[h] \in {"idle", "kill_wait"}
  /\ \A k \in 1..Len(todo[h]) : todo[h][k].do \notin TestOnly
  /\ signalled[h] \notin LeftBehind =>
       \A i \in Instances : WillRun(h, i) =>
         \E k \in 1..Len(todo[h]) : todo[h][k].do = "kill" /\ todo[h][k].on = i

Childless(h) == \A c \in Pids : parent[c] = h => ~Exists(c)

(* A program that lives has lost none of its servers, and one that has     *)
(* ended has none.                                                         *)
ServersInv(h) ==
  signalled[h] \notin LeftBehind => NoneLost(h) /\ (status[h] = "reaped" => Childless(h))

ProgramInv(h, staticOf) ==
  /\ ListInv(h)
  /\ FreshInv(h)
  /\ phase[h] = "tests" => OwnedInv(h, staticOf) /\ signalled[h] = "nowhere"
  /\ phase[h] # "tests" => KillsInv(h)
  /\ ServersInv(h)

FixtureInv(On, staticOf) ==
  /\ IInv
  /\ SoleProgram
  /\ FixtureTypeOK
  /\ todo \in [Roots -> Seq(Steps(On))]
  /\ \A h \in Roots : ProgramInv(h, staticOf)

-----------------------------------------------------------------------------
(* Steps of processes, as a user's program h sees them *)

(* The members and the call of h stay as they are.                         *)
Untouched(h) ==
  /\ pc'[h] = pc[h] /\ arg'[h] = arg[h] /\ fresh'[h] = fresh[h]
  /\ result'[h] = result[h] /\ running'[h] = running[h] /\ pid'[h] = pid[h]

(* Whatever runs or will run did so before.                                *)
Eases(h) ==
  /\ \A i \in Instances : WillRun(h, i)' => WillRun(h, i)
  /\ \A i \in Instances :
       running'[h][i] \/ WillRun(h, i)' => running[h][i] \/ WillRun(h, i)
  /\ pc[h] \in {"idle", "kill_wait"} => pc'[h] \in {"idle", "kill_wait"}

LEMMA UntouchedEases ==
  ASSUME NEW h \in Roots, Untouched(h)
  PROVE  Eases(h)
BY DEF Untouched, Eases, WillRun

(* Servers, other programs, and the end of h leave the members and the     *)
(* call of h alone.                                                        *)
LEMMA OthersLeaveAlone ==
  ASSUME IInv, NEW h \in Roots, NEW p \in Pids,
         \/ p # h /\ (Call(p) \/ SocketFails(p) \/ Step(p))
         \/ Server(p) \/ Quit(p)
  PROVE  Untouched(h)
<1> USE ProcessAssumption DEF IInv, TypeOK, Untouched
<1>1. h \in Pids /\ status[h] # "unused"
  BY DEF RootInv
<1>2. CASE Exits(p) \/ Listen(p)
  BY <1>2 DEF Exits, Listen, memberVars, callVars
<1>3. ASSUME p # h, Call(p) \/ SocketFails(p) \/ Step(p)
      PROVE  Untouched(h)
  <2>1. CASE \E i \in Instances : \/ (running[p][i] => NoChild(p, i)) /\ Start(p, i)
                                 \/ KillNotRunning(p, i) \/ KillNoProcess(p, i)
                                 \/ WaitFor(p, i)
                                 \/ \E w \in Waiting : SendSigterm(p, i, w)
    BY <2>1, <1>1, <1>3 DEF Start, KillNotRunning, KillNoProcess, WaitFor, SendSigterm, Return,
       memberVars
  <2>2. CASE SocketFails(p) \/ ForkFails(p) \/ ExecFails(p) \/ ConnectSucceeds(p)
             \/ ConnectRefused(p) \/ CallOff(p) \/ Exec(p)
    BY <2>2, <1>1, <1>3 DEF SocketFails, ForkFails, ExecFails, ConnectSucceeds, ConnectRefused,
       CallOff, Exec, Return, memberVars, callVars
  <2>3. CASE Fork(p)
    BY <2>3, <1>1, <1>3 DEF Fork
  <2>4. CASE SaveOffPid(p)
    BY <2>4, <1>1, <1>3 DEF SaveOffPid, Return
  <2>5. CASE Reap(p) \/ WaitNoChild(p)
    BY <2>5, <1>1, <1>3 DEF Reap, WaitNoChild, AfterWait
  <2> QED
    BY NextCases, <1>2, <1>3, <2>1, <2>2, <2>3, <2>4, <2>5
<1> QED
  BY <1>2, <1>3 DEF Server, Quit, Crash, Terminate

(* The step of a call that h is in.                                        *)
LEMMA OwnStepEases ==
  ASSUME IInv, NEW h \in Roots, Step(h)
  PROVE  Eases(h)
<1> USE ProcessAssumption DEF IInv, TypeOK
<1>1. /\ h \in Pids /\ status[h] = "program" /\ pc[h] # "exec"
      /\ pc[h] # "idle" => arg[h] \in Instances
  <2>1. status[h] = "program"
    BY DEF Step, Proceed, Fork, ForkFails, SaveOffPid, Exec, ExecFails, Reap, WaitNoChild,
       ConnectSucceeds, ConnectRefused, CallOff, At
  <2> QED
    BY <2>1 DEF RootInv, CallInv
<1>2. ~WaitNoChild(h)
  BY <1>1 DEF WaitNoChild, NoChild, CallInv, Waiting, SignalsOwnChildren
<1>3. CASE Fork(h)
  <2>1. status[h] = "program" /\ pc[h] = "fork" /\ pc'[h] = "forked" /\ arg'[h] = arg[h]
        /\ running'[h] = running[h]
    BY <1>1, <1>3 DEF Fork, At
  <2> QED
    BY <2>1 DEF Eases, WillRun
<1>4. CASE ForkFails(h) \/ ConnectSucceeds(h) \/ CallOff(h)
  <2>1. pc[h] \in {"fork", "connect"} /\ pc'[h] = "idle" /\ arg' = arg /\ running' = running
    BY <1>1, <1>4 DEF ForkFails, ConnectSucceeds, CallOff, At, Return, memberVars
  <2> QED
    BY <2>1 DEF Eases, WillRun
<1>5. CASE SaveOffPid(h)
  <2>1. /\ status[h] = "program" /\ pc[h] = "forked" /\ pc'[h] = "idle" /\ arg' = arg
        /\ running' = [running EXCEPT ![h][arg[h]] = TRUE]
    BY <1>1, <1>5 DEF SaveOffPid, At, Return
  <2> QED
    BY <1>1, <2>1 DEF Eases, WillRun
<1>6. CASE Reap(h)
  <2>1. /\ status[h] = "program" /\ pc[h] \in Waiting /\ arg' = arg
        /\ pc'[h] = IF pc[h] = "restart_wait" THEN "fork" ELSE "idle"
        /\ running' = [running EXCEPT ![h][arg[h]] = FALSE]
    BY <1>1, <1>6 DEF Reap, AfterWait
  <2> QED
    BY <1>1, <2>1 DEF Eases, WillRun, Waiting
<1>7. CASE ConnectRefused(h)
  BY <1>7 DEF ConnectRefused, At, Eases, WillRun, memberVars
<1>8. ~Exec(h) /\ ~ExecFails(h)
  BY <1>1 DEF Exec, ExecFails, At
<1> QED
  BY <1>2, <1>3, <1>4, <1>5, <1>6, <1>7, <1>8 DEF Step, Proceed

(* A program of the user only ends by itself, and gets no child after it   *)
(* has ended.                                                              *)
LEMMA OnlyQuits ==
  ASSUME IInv, NEW h \in Roots, NEW p \in Pids,
         Call(p) \/ SocketFails(p) \/ Step(p) \/ Server(p) \/ Quit(p),
         ~(p = h /\ Quit(p))
  PROVE  /\ status'[h] = status[h]
         /\ status[h] = "reaped" /\ Childless(h) => Childless(h)'
<1> USE ProcessAssumption DEF IInv, TypeOK
<1>1. h \in Pids /\ status[h] \in {"program", "reaped"} /\ h \notin sigterm
      /\ parent[h] = None
  BY DEF RootInv
<1>2. CASE \/ \E i \in Instances : \/ (running[p][i] => NoChild(p, i)) /\ Start(p, i)
                                   \/ KillNotRunning(p, i) \/ KillNoProcess(p, i)
                                   \/ WaitFor(p, i)
                                   \/ \E w \in Waiting : SendSigterm(p, i, w)
           \/ SocketFails(p) \/ ForkFails(p) \/ ExecFails(p) \/ ConnectSucceeds(p)
           \/ ConnectRefused(p) \/ CallOff(p) \/ SaveOffPid(p) \/ WaitNoChild(p) \/ Listen(p)
  <2>1. UNCHANGED <<status, parent>>
    BY <1>2 DEF Start, KillNotRunning, KillNoProcess, WaitFor, SendSigterm, SocketFails,
       ForkFails, ExecFails, ConnectSucceeds, ConnectRefused, CallOff, SaveOffPid, WaitNoChild,
       Listen, kernelVars
  <2> QED
    BY <2>1 DEF Childless, Exists
<1>3. CASE Fork(p)
  <2>1. PICK c \in Pids :
          /\ status[c] = "unused" /\ status[p] = "program"
          /\ status' = [status EXCEPT ![c] = "program"]
          /\ parent' = [parent EXCEPT ![c] = p]
    BY <1>3 DEF Fork, At
  <2> QED
    BY <1>1, <2>1 DEF Childless, Exists
<1>4. CASE Exec(p)
  <2>1. status[p] = "program" /\ pc[p] = "exec" /\ p # h
        /\ status' = [status EXCEPT ![p] = "server"] /\ parent' = parent
    BY <1>1, <1>4 DEF Exec, At, CallInv
  <2> QED
    BY <1>1, <2>1 DEF Childless, Exists
<1>5. CASE Reap(p)
  <2> DEFINE q == pid[p][arg[p]]
  <2>1. status[q] = "zombie" /\ status' = [status EXCEPT ![q] = "reaped"] /\ parent' = parent
    BY <1>5 DEF Reap
  <2> QED
    BY <1>1, <2>1 DEF Childless, Exists
<1>6. CASE Exits(p) /\ (status[p] = "server" \/ (p \in sigterm /\ Alive(p)) \/ Ready(p))
  <2>1. p # h /\ Exists(p)
    BY <1>1, <1>6 DEF Quit, Alive, Exists, Ready
  <2>2. /\ status'[h] = status[h] /\ parent' = parent
        /\ \A q \in Pids : Exists(q)' => Exists(q)
    BY <1>1, <1>6, <2>1 DEF Exits, Exists
  <2> QED
    BY <2>2 DEF Childless
<1> QED
  BY NextCases, <1>2, <1>3, <1>4, <1>5, <1>6

-----------------------------------------------------------------------------
(* Steps that leave the list of a program alone *)

LEMMA KeepsServers ==
  ASSUME IInv, LosesNone, NEW h \in Roots, NEW p \in Pids,
         Call(p) \/ SocketFails(p) \/ Step(p) \/ Server(p) \/ Quit(p),
         ~(p = h /\ Quit(p)),
         ServersInv(h), signalled'[h] = signalled[h]
  PROVE  ServersInv(h)'
<1>1. NoneLost(h) => NoneLost(h)'
  BY ProcessAssumption DEF LosesNone
<1> QED
  BY <1>1, OnlyQuits DEF ServersInv

SameList(h) ==
  /\ todo'[h] = todo[h] /\ phase'[h] = phase[h]
  /\ owned'[h] = owned[h] /\ signalled'[h] = signalled[h]

LEMMA KeepsProgram ==
  ASSUME NEW h \in Roots, NEW staticOf, ProgramInv(h, staticOf),
         SameList(h), Eases(h), ServersInv(h)'
  PROVE  ProgramInv(h, staticOf)'
<1> USE DEF ProgramInv, SameList, Eases
<1>1. ListInv(h)'
  BY DEF ListInv
<1>2. FreshInv(h)'
  BY DEF FreshInv, ListInv
<1>3. phase[h] = "tests" => OwnedInv(h, staticOf)'
  BY DEF OwnedInv
<1>4. phase[h] # "tests" => KillsInv(h)'
  BY DEF KillsInv
<1> QED
  BY <1>1, <1>2, <1>3, <1>4

-----------------------------------------------------------------------------
(* Steps that take the head of a list *)

LEMMA TailFacts ==
  ASSUME NEW S, NEW s \in Seq(S), s # << >>
  PROVE  /\ Head(s) = s[1] /\ Head(s) \in S
         /\ Tail(s) \in Seq(S)
         /\ Len(s) \in Nat \ {0} /\ Len(Tail(s)) = Len(s) - 1
         /\ \A k \in 1..(Len(s) - 1) : Tail(s)[k] = s[k + 1]
BY HeadTailProperties, LenProperties, EmptySeq

(* What the step s of h does to its servers at once: it starts the         *)
(* instance it starts, and does not leave the one it kills.                *)
TakesEffect(h, s) ==
  /\ \A i \in Instances : WillRun(h, i)' => WillRun(h, i) \/ Starts(s, i)
  /\ \A i \in Instances :
       running'[h][i] \/ WillRun(h, i)' => running[h][i] \/ WillRun(h, i) \/ Starts(s, i)
  /\ s.do = "kill" => \A i \in Instances : s.on = i => ~WillRun(h, i)'
  /\ pc'[h] \in {"idle", "kill_wait"} \/ s.do \in TestOnly

(* The list of h is one step shorter.                                      *)
Shorter(h) ==
  /\ Len(todo[h]) \in Nat /\ Len(todo[h])' = Len(todo[h]) - 1 /\ Len(todo[h]) > 0
  /\ \A k \in 1..Len(todo[h])' : k + 1 \in 1..Len(todo[h]) /\ todo'[h][k] = todo[h][k + 1]

LEMMA AdvanceFresh ==
  ASSUME NEW h \in Roots, Shorter(h), ListInv(h), FreshInv(h), TakesEffect(h, todo[h][1])
  PROVE  FreshInv(h)'
<1> SUFFICES ASSUME NEW k \in 1..Len(todo'[h]), todo'[h][k].do = "start"
             PROVE  (\/ k > 1 /\ todo[h][k - 1].do = "kill"
                              /\ todo[h][k - 1].on = todo[h][k].on
                     \/ /\ ~WillRun(h, todo[h][k].on)
                        /\ \A j \in 1..(k - 1) : ~Starts(todo[h][j], todo[h][k].on))'
  BY DEF FreshInv
<1>1. k \in Nat /\ k >= 1
  BY DEF Shorter
<1>2. /\ k + 1 \in 1..Len(todo[h]) /\ todo'[h][k] = todo[h][k + 1]
      /\ k > 1 => todo'[h][k - 1] = todo[h][k]
      /\ \A j \in 1..(k - 1) : todo'[h][j] = todo[h][j + 1] /\ j + 1 \in 1..k
  <2>1. \A j \in 1..Len(todo'[h]) :
          j + 1 \in 1..Len(todo[h]) /\ todo'[h][j] = todo[h][j + 1]
    BY DEF Shorter
  <2>2. Len(todo'[h]) \in Nat
    BY DEF Shorter
  <2>3. \A j \in 1..(k - 1) : j \in 1..Len(todo'[h]) /\ j + 1 \in 1..k
    BY <1>1, <2>2
  <2>4. k > 1 => k - 1 \in 1..Len(todo'[h]) /\ (k - 1) + 1 = k
    BY <1>1, <2>2
  <2>5. k > 1 => todo'[h][k - 1] = todo[h][k]
    BY <2>1, <2>4
  <2> QED
    BY <2>1, <2>3, <2>5
<1> DEFINE i == todo[h][k + 1].on
<1>3. i \in Instances /\ 1 \in 1..k
  BY <1>1, <1>2 DEF ListInv
<1>4. CASE todo[h][k].do = "kill" /\ todo[h][k].on = i
  BY <1>1, <1>2, <1>3, <1>4 DEF TakesEffect
<1>5. CASE ~WillRun(h, i) /\ \A j \in 1..k : ~Starts(todo[h][j], i)
  BY <1>1, <1>2, <1>3, <1>5 DEF TakesEffect
<1>6. \/ todo[h][k].do = "kill" /\ todo[h][k].on = i
      \/ ~WillRun(h, i) /\ \A j \in 1..k : ~Starts(todo[h][j], i)
  <2> DEFINE P(m, n) == todo[h][m].do = "start" =>
               \/ todo[h][n].do = "kill" /\ todo[h][n].on = todo[h][m].on
               \/ /\ ~WillRun(h, todo[h][m].on)
                  /\ \A j \in 1..n : ~Starts(todo[h][j], todo[h][m].on)
  <2>1. (k + 1) - 1 = k /\ todo[h][k + 1].do = "start"
    BY <1>1, <1>2
  <2>2. \A m \in 1..Len(todo[h]) : P(m, m - 1)
    BY DEF FreshInv
  <2> HIDE DEF P
  <2>3. P(k + 1, k)
    BY <1>2, <2>1, <2>2
  <2> QED
    BY <2>1, <2>3 DEF P
<1> QED
  BY <1>4, <1>5, <1>6

LEMMA AdvanceOwned ==
  ASSUME NEW h \in Roots, NEW staticOf, Shorter(h), OwnedInv(h, staticOf),
         TakesEffect(h, todo[h][1]), ListInv(h),
         todo[h][1].do # "teardown",
         owned[h] \subseteq owned'[h],
         todo[h][1].do = "own" => todo[h][1].on \in owned'[h]
  PROVE  OwnedInv(h, staticOf)'
<1> USE DEF OwnedInv
<1>1. Len(todo'[h]) > 0 /\ todo'[h][Len(todo'[h])].do = "teardown"
  <2>1. Len(todo[h]) # 1
    BY DEF Shorter
  <2> QED
    BY <2>1 DEF Shorter
<1>2. 1 \in 1..Len(todo[h])
  BY DEF Shorter
<1>3. ASSUME NEW i \in Instances, Starts(todo[h][1], i)
      PROVE  staticOf[i] \in owned[h]
  BY <1>2, <1>3 DEF Starts
<1>4. \A i \in Instances : running'[h][i] \/ WillRun(h, i)' => staticOf[i] \in owned'[h]
  BY <1>3 DEF TakesEffect
<1>5. ASSUME NEW k \in 1..Len(todo'[h])
      PROVE  (/\ todo[h][k].do \notin Removals
              /\ todo[h][k].do \in {"start", "restart"} =>
                   \/ staticOf[todo[h][k].on] \in owned[h]
                   \/ \E j \in 1..(k - 1) :
                        todo[h][j].do = "own" /\ todo[h][j].on = staticOf[todo[h][k].on]
              /\ todo[h][k].do = "own" =>
                   \A j \in 1..k : todo[h][j].do # "return_unless_ok")'
  <2>1. /\ k \in Nat /\ k >= 1 /\ k + 1 \in 1..Len(todo[h])
        /\ todo'[h][k] = todo[h][k + 1]
        /\ \A j \in 1..k : j + 1 \in 1..(k + 1) /\ todo'[h][j] = todo[h][j + 1]
    BY DEF Shorter
  <2>2. ASSUME todo[h][k + 1].do \in {"start", "restart"}
        PROVE  \/ staticOf[todo[h][k + 1].on] \in owned'[h]
               \/ \E j \in 1..(k - 1) :
                    todo[h][j + 1].do = "own" /\ todo[h][j + 1].on = staticOf[todo[h][k + 1].on]
    <3>1. CASE staticOf[todo[h][k + 1].on] \in owned[h]
      BY <3>1
    <3>2. ASSUME NEW j \in 1..k,
                 todo[h][j].do = "own", todo[h][j].on = staticOf[todo[h][k + 1].on]
          PROVE  \/ staticOf[todo[h][k + 1].on] \in owned'[h]
                 \/ \E m \in 1..(k - 1) :
                      todo[h][m + 1].do = "own"
                        /\ todo[h][m + 1].on = staticOf[todo[h][k + 1].on]
      <4>1. CASE j = 1
        BY <3>2, <4>1
      <4>2. CASE j # 1
        <5>1. j - 1 \in 1..(k - 1) /\ (j - 1) + 1 = j
          BY <2>1, <4>2
        <5> QED
          BY <3>2, <5>1
      <4> QED
        BY <4>1, <4>2
    <3> QED
      BY <2>1, <2>2, <3>1, <3>2
  <2>3. ASSUME todo'[h][k].do \in {"start", "restart"}
        PROVE  \/ staticOf[todo'[h][k].on] \in owned'[h]
               \/ \E j \in 1..(k - 1) :
                    todo'[h][j].do = "own" /\ todo'[h][j].on = staticOf[todo'[h][k].on]
    <3>1. CASE staticOf[todo[h][k + 1].on] \in owned'[h]
      BY <2>1, <3>1
    <3>2. ASSUME NEW j \in 1..(k - 1), todo[h][j + 1].do = "own",
                 todo[h][j + 1].on = staticOf[todo[h][k + 1].on]
          PROVE  todo'[h][j].do = "own" /\ todo'[h][j].on = staticOf[todo'[h][k].on]
      <4>1. todo'[h][j] = todo[h][j + 1]
        BY <2>1
      <4> QED
        BY <2>1, <3>2, <4>1
    <3> QED
      BY <2>1, <2>2, <2>3, <3>1, <3>2
  <2>4. todo'[h][k].do \notin Removals
        /\ (todo'[h][k].do = "own" => \A j \in 1..k : todo'[h][j].do # "return_unless_ok")
    BY <2>1
  <2> QED
    BY <2>3, <2>4
<1> QED
  BY <1>1, <1>4, <1>5

LEMMA AdvanceKills ==
  ASSUME NEW h \in Roots, Shorter(h), KillsInv(h), TakesEffect(h, todo[h][1]),
         signalled'[h] = signalled[h]
  PROVE  KillsInv(h)'
<1> USE DEF KillsInv, TestOnly
<1>1. 1 \in 1..Len(todo[h])
  BY DEF Shorter
<1>2. pc'[h] \in {"idle", "kill_wait"} /\ \A i \in Instances : ~Starts(todo[h][1], i)
  BY <1>1 DEF TakesEffect, Starts
<1>3. \A k \in 1..Len(todo'[h]) : todo'[h][k].do \notin TestOnly
  BY DEF Shorter
<1>4. ASSUME signalled[h] \notin LeftBehind, NEW i \in Instances, WillRun(h, i)'
      PROVE  \E k \in 1..Len(todo'[h]) : todo'[h][k].do = "kill" /\ todo'[h][k].on = i
  <2>1. PICK k \in 1..Len(todo[h]) : todo[h][k].do = "kill" /\ todo[h][k].on = i
    BY <1>2, <1>4 DEF TakesEffect
  <2>2. k # 1
    BY <1>4, <2>1 DEF TakesEffect
  <2>3. k - 1 \in 1..Len(todo'[h]) /\ todo'[h][k - 1] = todo[h][k]
    BY <2>2 DEF Shorter
  <2> QED
    BY <2>1, <2>3
<1> QED
  BY <1>2, <1>3, <1>4

LEMMA AdvanceProgram ==
  ASSUME NEW h \in Roots, NEW On, NEW staticOf, todo[h] \in Seq(Steps(On)),
         ProgramInv(h, staticOf),
         todo[h] # << >>, todo'[h] = Tail(todo[h]), Head(todo[h]).do # "teardown",
         phase'[h] = phase[h], signalled'[h] = signalled[h],
         TakesEffect(h, Head(todo[h])),
         phase[h] = "tests" =>
           /\ owned[h] \subseteq owned'[h]
           /\ Head(todo[h]).do = "own" => Head(todo[h]).on \in owned'[h],
         ServersInv(h)'
  PROVE  ProgramInv(h, staticOf)'
<1>1. Head(todo[h]) = todo[h][1] /\ Shorter(h)
  BY TailFacts DEF Shorter
<1>2. TakesEffect(h, todo[h][1])
  BY <1>1
<1>3. ListInv(h)'
  BY <1>1 DEF ProgramInv, ListInv, Shorter
<1>4. FreshInv(h)'
  BY <1>1, <1>2, AdvanceFresh DEF ProgramInv
<1>5. phase[h] = "tests" => OwnedInv(h, staticOf)'
  BY <1>1, <1>2, AdvanceOwned DEF ProgramInv
<1>6. phase[h] # "tests" => KillsInv(h)'
  BY <1>1, <1>2, AdvanceKills DEF ProgramInv
<1> QED
  BY <1>3, <1>4, <1>5, <1>6 DEF ProgramInv

-----------------------------------------------------------------------------
(* The calls of the tests *)

LEMMA HeadFacts ==
  ASSUME NEW h \in Roots, NEW On, todo[h] \in Seq(Steps(On)), todo[h] # << >>
  PROVE  Head(todo[h]) = todo[h][1] /\ 1 \in 1..Len(todo[h]) /\ Head(todo[h]) \in Steps(On)
BY TailFacts

(* A start_instance that comes next is on an instance that is not running. *)
LEMMA FreshStart ==
  ASSUME NEW h \in Roots, FreshInv(h), 1 \in 1..Len(todo[h]), todo[h][1].do = "start"
  PROVE  ~WillRun(h, todo[h][1].on)
<1>1. ~(1 > 1)
  OBVIOUS
<1> QED
  BY <1>1, SMTT(20) DEF FreshInv

(* A call of a test is one its ProcessInstance allows, and starts and ends *)
(* what its name says.                                                     *)
LEMMA MakesCall ==
  ASSUME IInv, NEW h \in Roots, NEW On, todo[h] \in Seq(Steps(On)),
         ListInv(h), FreshInv(h), MakeCall(h)
  PROVE  /\ Call(h) \/ SocketFails(h)
         /\ todo[h] # << >> /\ Head(todo[h]).do \in {"start", "kill", "restart", "wait"}
         /\ TakesEffect(h, Head(todo[h]))
<1> USE ProcessAssumption DEF IInv, TypeOK
<1> DEFINE i == Head(todo[h]).on
<1>1. /\ todo[h] # << >> /\ status[h] = "program" /\ pc[h] = "idle" /\ h \in Pids
      /\ Head(todo[h]).do \in {"start", "kill", "restart", "wait"}
  BY DEF MakeCall, Comes, Ready
<1>2. Head(todo[h]) = todo[h][1] /\ 1 \in 1..Len(todo[h])
  BY <1>1, HeadFacts
<1>3. i \in Instances
  BY <1>1, <1>2 DEF ListInv
<1>4. ASSUME Head(todo[h]).do = "start" PROVE ~running[h][i]
  <2>1. ~WillRun(h, todo[h][1].on)
    BY <1>2, <1>4, FreshStart
  <2> QED
    BY <1>1, <1>2, <2>1 DEF WillRun
<1>5. running[h][i] => Exists(pid[h][i])
  BY <1>1, <1>3 DEF SignalsOwnChildren
<1>6. CASE Head(todo[h]).do = "start"
  <2>1. Start(h, i)
    BY <1>6 DEF MakeCall, Comes
  <2>2. pc'[h] = "fork" /\ arg'[h] = i /\ running' = running
    BY <1>1, <1>3, <2>1 DEF Start, memberVars
  <2> QED
    BY <1>1, <1>3, <1>4, <1>6, <2>1, <2>2 DEF Call, TakesEffect, Starts, WillRun, TestOnly
<1>7. CASE Head(todo[h]).do = "kill"
  <2>1. Kill(h, i)
    BY <1>7 DEF MakeCall, Comes
  <2>2. running' = running
        /\ \/ ~running[h][i] /\ pc'[h] = "idle"
           \/ pc'[h] = "kill_wait" /\ arg'[h] = i
    BY <1>1, <1>3, <1>5, <2>1 DEF Kill, KillNotRunning, KillNoProcess, SendSigterm, Return,
       memberVars
  <2> QED
    BY <1>1, <1>3, <1>7, <2>1, <2>2 DEF Call, TakesEffect, WillRun
<1>8. CASE Head(todo[h]).do = "restart"
  <2>1. Restart(h, i)
    BY <1>8 DEF MakeCall, Comes
  <2>2. /\ running' = running
        /\ pc'[h] \in {"fork", "restart_wait"} /\ arg'[h] = i
    BY <1>1, <1>3, <1>5, <2>1, ZenonT(60) DEF Restart, Start, KillNoProcess, SendSigterm, memberVars
  <2> QED
    BY <1>1, <1>3, <1>8, <2>1, <2>2 DEF Call, TakesEffect, Starts, WillRun, TestOnly
<1>9. CASE Head(todo[h]).do = "wait"
  <2>1. WaitFor(h, i) \/ SocketFails(h)
    BY <1>9 DEF MakeCall, Comes
  <2>2. running' = running /\ pc'[h] \in {"connect", "idle"}
    BY <1>1, <2>1 DEF WaitFor, SocketFails, Return, memberVars
  <2> QED
    BY <1>1, <1>3, <1>9, <2>1, <2>2 DEF Call, TakesEffect, Starts, WillRun, TestOnly
<1> QED
  BY <1>1, <1>6, <1>7, <1>8, <1>9

-----------------------------------------------------------------------------
(* Steps that replace the list *)

(* The rest of the list of h from step k on, a body, when the head is the  *)
(* return of a wait_for_instances that has failed.                         *)
LEMMA SkipProgram ==
  ASSUME NEW h \in Roots, NEW On, NEW staticOf, todo[h] \in Seq(Steps(On)),
         ProgramInv(h, staticOf), phase[h] = "tests",
         todo[h] # << >>, todo[h][1].do = "return_unless_ok",
         NEW k \in 1..Len(todo[h]), todo[h][k].do = "body",
         todo'[h] = SubSeq(todo[h], k, Len(todo[h])),
         phase'[h] = phase[h], signalled'[h] = signalled[h], owned'[h] = owned[h],
         pc'[h] = pc[h], arg'[h] = arg[h], running'[h] = running[h],
         ServersInv(h)'
  PROVE  todo'[h] \in Seq(Steps(On)) /\ ProgramInv(h, staticOf)'
<1> DEFINE n == Len(todo[h])
<1>1. n \in Nat \ {0} /\ \A j \in 1..n : todo[h][j] \in Steps(On)
  BY EmptySeq, LenProperties
<1>2. /\ todo'[h] \in Seq(Steps(On))
      /\ Len(todo'[h]) = n - k + 1
      /\ \A j \in 1..(n - k + 1) : todo'[h][j] = todo[h][k + j - 1]
  <2>1. k \in Int /\ n \in Int /\ k <= n /\ \A j \in k..n : todo[h][j] \in Steps(On)
    BY <1>1
  <2> QED
    BY <2>1, SubSeqProperties
<1>3. \A i \in Instances : WillRun(h, i)' <=> WillRun(h, i)
  BY DEF WillRun
<1>4. OwnedInv(h, staticOf) /\ FreshInv(h) /\ ListInv(h)
  BY DEF ProgramInv
<1>5. ASSUME NEW j \in 1..Len(todo'[h])
      PROVE  /\ j \in Nat /\ k + j - 1 \in 1..n /\ todo'[h][j] = todo[h][k + j - 1]
             /\ todo[h][k + j - 1].do \notin Removals \cup {"own"}
  <2>1. k \in Nat /\ k >= 1 /\ k <= n /\ n \in Nat
    BY <1>1
  <2>2. j \in 1..(n - k + 1)
    BY <1>2
  <2>3. j \in Nat /\ k + j - 1 \in 1..n /\ 1 \in 1..(k + j - 1)
    BY <2>1, <2>2
  <2>4. todo'[h][j] = todo[h][k + j - 1]
    BY <1>2, <2>2
  <2> QED
    BY <2>3, <2>4, <1>4 DEF OwnedInv
<1>6. ListInv(h)'
  BY <1>4, <1>5 DEF ListInv
<1>7. FreshInv(h)'
  <2> SUFFICES ASSUME NEW j \in 1..Len(todo'[h]), todo'[h][j].do = "start"
               PROVE  (\/ j > 1 /\ todo[h][j - 1].do = "kill"
                                /\ todo[h][j - 1].on = todo[h][j].on
                       \/ /\ ~WillRun(h, todo[h][j].on)
                          /\ \A m \in 1..(j - 1) : ~Starts(todo[h][m], todo[h][j].on))'
    BY DEF FreshInv
  <2> DEFINE i == todo[h][k + j - 1].on
  <2>1. todo[h][k + j - 1].do = "start" /\ i \in Instances /\ todo'[h][j].on = i
    BY <1>4, <1>5 DEF ListInv
  <2>2. j > 1
    BY <1>5, <2>1
  <2>3. j - 1 \in 1..Len(todo'[h]) /\ todo'[h][j - 1] = todo[h][(k + j - 1) - 1]
    BY <1>1, <1>2, <1>5, <2>2
  <2>4. CASE todo[h][(k + j - 1) - 1].do = "kill" /\ todo[h][(k + j - 1) - 1].on = i
    BY <2>1, <2>2, <2>3, <2>4
  <2>5. CASE /\ ~WillRun(h, i)
             /\ \A m \in 1..((k + j - 1) - 1) : ~Starts(todo[h][m], i)
    <3>1. ASSUME NEW m \in 1..(j - 1) PROVE ~Starts(todo'[h][m], i)
      <4>1. m \in 1..Len(todo'[h]) /\ k + m - 1 \in 1..((k + j - 1) - 1)
        BY <1>1, <1>2
      <4> QED
        BY <1>5, <2>5, <4>1
    <3> QED
      BY <1>3, <2>1, <2>5, <3>1
  <2> QED
    BY <1>4, <1>5, <2>1, <2>4, <2>5 DEF FreshInv
<1>8. OwnedInv(h, staticOf)'
  <2>1. Len(todo'[h]) > 0 /\ todo'[h][Len(todo'[h])] = todo[h][n]
    BY <1>1, <1>2
  <2>2. todo[h][n].do = "teardown"
    BY <1>4 DEF OwnedInv
  <2>3. \A i \in Instances : running'[h][i] \/ WillRun(h, i)' => staticOf[i] \in owned'[h]
    BY <1>3, <1>4 DEF OwnedInv
  <2>4. ASSUME NEW j \in 1..Len(todo'[h]), todo'[h][j].do \in {"start", "restart"}
        PROVE  staticOf[todo'[h][j].on] \in owned'[h]
    <3>1. \A m \in 1..((k + j - 1) - 1) : todo[h][m].do # "own"
      <4> SUFFICES ASSUME NEW m \in 1..((k + j - 1) - 1), todo[h][m].do = "own"
                   PROVE  FALSE
        OBVIOUS
      <4>1. m \in 1..n /\ 1 \in 1..m
        BY <1>1, <1>5
      <4> QED
        BY <1>4, <4>1 DEF OwnedInv
    <3>2. staticOf[todo[h][k + j - 1].on] \in owned[h]
      BY <1>4, <1>5, <2>4, <3>1 DEF OwnedInv
    <3> QED
      BY <1>5, <3>2
  <2> QED
    BY <1>5, <2>1, <2>2, <2>3, <2>4 DEF OwnedInv
<1> QED
  BY <1>2, <1>6, <1>7, <1>8 DEF ProgramInv

(* The steps of a TearDownTestCase: kills and steps of the fixture, that   *)
(* kill all that the statics which are set hold.                           *)
TearsDown(steps, statics, On, staticOf) ==
  /\ steps \in Seq(Steps(On))
  /\ \A k \in 1..Len(steps) :
       steps[k].do \notin TestOnly /\ (steps[k].do = "kill" => steps[k].on \in Instances)
  /\ \A i \in Instances : staticOf[i] \in statics =>
       \E k \in 1..Len(steps) : steps[k].do = "kill" /\ steps[k].on = i

LEMMA TearDownProgram ==
  ASSUME NEW h \in Roots, NEW On, NEW staticOf, NEW steps,
         ProgramInv(h, staticOf),
         TearsDown(steps, owned[h], On, staticOf),
         todo'[h] = steps, pc'[h] = "idle", running'[h] = running[h],
         phase'[h] # "tests",
         phase[h] = "tests" \/ signalled'[h] \in LeftBehind,
         ServersInv(h)'
  PROVE  todo'[h] \in Seq(Steps(On)) /\ ProgramInv(h, staticOf)'
<1> USE DEF TearsDown
<1>1. todo'[h] \in Seq(Steps(On)) /\ ListInv(h)' /\ FreshInv(h)'
  BY DEF ListInv, FreshInv, TestOnly
<1>2. ASSUME phase[h] = "tests", NEW i \in Instances, WillRun(h, i)'
      PROVE  \E k \in 1..Len(todo'[h]) : todo'[h][k].do = "kill" /\ todo'[h][k].on = i
  BY <1>2 DEF ProgramInv, OwnedInv, WillRun
<1>3. KillsInv(h)'
  BY <1>2 DEF KillsInv
<1> QED
  BY <1>1, <1>3 DEF ProgramInv

LEMMA FinishServers ==
  ASSUME IInv, SoleProgram, NEW h \in Roots, NEW staticOf, ProgramInv(h, staticOf),
         todo[h] = << >>, Quit(h), signalled'[h] = signalled[h]
  PROVE  ServersInv(h)'
<1> USE ProcessAssumption DEF IInv, TypeOK
<1>1. Len(todo[h]) = 0
  OBVIOUS
<1>2. /\ h \in Pids /\ status[h] = "program" /\ pc[h] = "idle" /\ parent[h] = None
      /\ \A i \in Instances : running[h][i] => WillRun(h, i)
  BY DEF Quit, Ready, RootInv, WillRun
<1>3. ASSUME signalled[h] \notin LeftBehind, NEW c \in Pids, parent[c] = h
      PROVE  ~Exists(c)
  <2>1. \A i \in Instances : ~running[h][i]
    BY <1>1, <1>2, <1>3 DEF ProgramInv, OwnedInv, KillsInv
  <2> QED
    BY <1>2, <1>3, <2>1 DEF ProgramInv, ServersInv, NoneLost, SoleProgram
<1>4. /\ parent' = parent /\ status'[h] # "program"
      /\ \A c \in Pids : c # h /\ Exists(c)' => Exists(c)
  BY DEF Quit, Exits, Exists
<1>5. \A c \in Pids : parent[c] = h => c # h
  BY <1>2
<1> QED
  BY <1>3, <1>4, <1>5 DEF ServersInv, NoneLost, Childless

-----------------------------------------------------------------------------
(* The steps of the fixture *)

LEMMA ProcessKeepsProgram ==
  ASSUME IInv, LosesNone, NEW g \in Roots, NEW p \in Pids, NEW staticOf,
         \/ Step(p) \/ Server(p)
         \/ p # g /\ (Call(p) \/ SocketFails(p) \/ Quit(p)),
         ProgramInv(g, staticOf), SameList(g)
  PROVE  ProgramInv(g, staticOf)'
<1>1. ASSUME p = g PROVE ~Quit(p) /\ (Step(p) \/ ~Server(p))
  <2>1. status[p] # "server" /\ p \notin sigterm
    BY <1>1 DEF IInv, RootInv
  <2>2. Step(p) => pc[p] # "idle"
    BY DEF Step, Proceed, Fork, ForkFails, SaveOffPid, Exec, ExecFails, Reap, WaitNoChild,
       Waiting, ConnectSucceeds, ConnectRefused, CallOff, At
  <2>3. ~Server(p)
    BY <2>1 DEF Server, Listen, Crash, Terminate
  <2> QED
    BY <1>1, <2>2, <2>3 DEF Quit, Ready
<1>2. Eases(g)
  BY <1>1, OthersLeaveAlone, UntouchedEases, OwnStepEases
<1>3. ServersInv(g)'
  BY <1>1, KeepsServers DEF ProgramInv, SameList
<1> QED
  BY <1>2, <1>3, KeepsProgram

(* A step of a process, in a call or of a server.                          *)
LEMMA ProcessKeeps ==
  ASSUME NEW On, NEW staticOf, FixtureInv(On, staticOf),
         NEW p \in Pids, Step(p) \/ Server(p), UNCHANGED fixtureVars
  PROVE  FixtureInv(On, staticOf)'
<1> USE DEF FixtureInv
<1>1. [Next]_vars
  BY DEF Next
<1>2. IInv' /\ LosesNone
  BY <1>1, IInvStep
<1>3. SoleProgram'
  BY <1>1, <1>2, SoleProgramStep, FixtureAssumption, ProcessAssumption DEF IInv
<1>4. FixtureTypeOK' /\ todo' \in [Roots -> Seq(Steps(On))]
  BY <1>2 DEF FixtureTypeOK, IInv, fixtureVars, judgeVars
<1>5. \A g \in Roots : ProgramInv(g, staticOf)'
  BY <1>2, ProcessKeepsProgram DEF fixtureVars, judgeVars, SameList
<1> QED
  BY <1>2, <1>3, <1>4, <1>5

(* A step of program h leaves the others and the kernel well.              *)
LEMMA ProgramFrame ==
  ASSUME NEW On, NEW staticOf, FixtureInv(On, staticOf), NEW h \in Roots,
         UNCHANGED vars \/ Call(h) \/ SocketFails(h) \/ Quit(h),
         signalled'[h] = signalled[h]
  PROVE  /\ [Next]_vars /\ IInv' /\ SoleProgram'
         /\ \A g \in Roots : g # h /\ SameList(g) => ProgramInv(g, staticOf)'
         /\ ~Quit(h) => ServersInv(h)'
<1> USE DEF FixtureInv
<1>1. [Next]_vars
  BY ProcessAssumption DEF Next
<1>2. IInv' /\ LosesNone
  BY <1>1, IInvStep
<1>3. SoleProgram'
  BY <1>1, <1>2, SoleProgramStep, FixtureAssumption, ProcessAssumption DEF IInv
<1>4. ASSUME UNCHANGED vars, NEW g \in Roots, signalled'[g] = signalled[g]
      PROVE  Untouched(g) /\ ServersInv(g)'
  BY <1>4 DEF vars, kernelVars, memberVars, callVars, Untouched, ServersInv, NoneLost,
     Childless, Exists, ProgramInv
<1>5. ASSUME NEW g \in Roots, g # h, SameList(g)
      PROVE  ProgramInv(g, staticOf)'
  <2>1. CASE UNCHANGED vars
    BY <1>4, <1>5, <2>1, UntouchedEases, KeepsProgram DEF SameList
  <2> QED
    BY <1>2, <1>5, <2>1, ProcessKeepsProgram, ProcessAssumption
<1>6. ~Quit(h) => ServersInv(h)'
  BY <1>2, <1>4, KeepsServers, ProcessAssumption DEF ProgramInv
<1> QED
  BY <1>1, <1>2, <1>3, <1>5, <1>6

(* A step that makes no call.                                              *)
LEMMA QuietAdvance ==
  ASSUME NEW On, NEW staticOf, FixtureInv(On, staticOf), NEW h \in Roots,
         Ready(h), todo[h] # << >>,
         Head(todo[h]).do \notin {"start", "kill", "restart", "wait", "teardown"},
         UNCHANGED <<vars, phase, signalled>>, FixtureTypeOK',
         todo' = [todo EXCEPT ![h] = Tail(@)],
         \A g \in Roots : g # h => owned'[g] = owned[g],
         phase[h] = "tests" =>
           /\ owned[h] \subseteq owned'[h]
           /\ Head(todo[h]).do = "own" => Head(todo[h]).on \in owned'[h]
  PROVE  FixtureInv(On, staticOf)'
<1> USE DEF FixtureInv
<1>1. /\ IInv' /\ SoleProgram' /\ ServersInv(h)'
      /\ \A g \in Roots : g # h /\ SameList(g) => ProgramInv(g, staticOf)'
  <2>1. ~Quit(h)
    BY ProcessAssumption DEF Quit, Ready, Exits, vars, kernelVars, IInv, TypeOK
  <2> QED
    BY <2>1, ProgramFrame
<1>2. todo[h] \in Seq(Steps(On)) /\ todo' \in [Roots -> Seq(Steps(On))]
      /\ todo'[h] = Tail(todo[h])
  BY TailFacts
<1>3. \A g \in Roots : g # h => SameList(g)
  BY DEF SameList
<1>4. TakesEffect(h, Head(todo[h]))
  BY DEF TakesEffect, WillRun, Ready, vars, kernelVars, memberVars, callVars
<1>5. ProgramInv(h, staticOf)'
  BY <1>1, <1>2, <1>4, AdvanceProgram
<1> QED
  BY <1>1, <1>2, <1>3, <1>5

(* Advance keeps the types, whatever the step.                             *)
LEMMA AdvanceTypes ==
  ASSUME NEW On, FixtureTypeOK, todo \in [Roots -> Seq(Steps(On))], NEW h \in Roots,
         todo[h] # << >>, Advance(h), TypeOK'
  PROVE  /\ judge'  \in [Roots -> {"nobody", "site", "test"}]
         /\ siteOk' \in [Roots -> BOOLEAN]
         /\ failed' \in [Roots -> BOOLEAN]
<1>1. Head(todo[h]).judge \in {"nobody", "site", "test"}
  <2>1. Head(todo[h]) \in Steps(On)
    BY HeadFacts
  <2> QED
    BY <2>1 DEF Steps
<1>2. result[h] \in BOOLEAN
  BY ProcessAssumption DEF FixtureTypeOK, TypeOK
<1>3. Failed(h) \in BOOLEAN
  BY DEF Failed
<1>4. SiteOk(h) \in BOOLEAN
  BY DEF SiteOk
<1> QED
  BY <1>1, <1>3, <1>4 DEF FixtureTypeOK, Advance

LEMMA StutterKeeps ==
  ASSUME NEW On, NEW staticOf, FixtureInv(On, staticOf), UNCHANGED <<vars, fixtureVars>>
  PROVE  FixtureInv(On, staticOf)'
<1>1. IInv'
  BY DEF FixtureInv, IInv, TypeOK, UnusedInv, RootInv, CallInv, NoChild, MemberInv,
     SignalsOwnChildren, Exists, vars, kernelVars, memberVars, callVars
<1>2. SoleProgram'
  BY DEF FixtureInv, SoleProgram, vars, kernelVars, memberVars, callVars
<1>3. FixtureTypeOK' /\ (todo \in [Roots -> Seq(Steps(On))])'
  BY <1>1 DEF IInv, FixtureInv, FixtureTypeOK, fixtureVars, judgeVars
<1>4. ASSUME NEW h \in Roots
      PROVE  ProgramInv(h, staticOf)'
  <2>1. ProgramInv(h, staticOf)
    BY DEF FixtureInv
  <2> QED
    BY <2>1 DEF ProgramInv, ListInv, FreshInv, OwnedInv, KillsInv, ServersInv, NoneLost,
       Childless, WillRun, Exists, vars, kernelVars, memberVars, callVars, fixtureVars, judgeVars
<1> QED
  BY <1>1, <1>2, <1>3, <1>4 DEF FixtureInv

LEMMA MakeCallKeeps ==
  ASSUME NEW On, NEW staticOf, FixtureInv(On, staticOf), NEW h \in Roots, MakeCall(h)
  PROVE  FixtureInv(On, staticOf)'
<1> USE DEF FixtureInv
<1>1. /\ Call(h) \/ SocketFails(h)
      /\ todo[h] # << >> /\ Head(todo[h]).do \in {"start", "kill", "restart", "wait"}
      /\ TakesEffect(h, Head(todo[h]))
  BY MakesCall DEF ProgramInv
<1>2. /\ Advance(h) /\ UNCHANGED <<phase, owned, signalled>>
      /\ todo' = [todo EXCEPT ![h] = Tail(@)]
  BY DEF MakeCall, Advance
<1>3. ~Quit(h)
  <2>1. status[h] = "program" /\ status' = status
    BY <1>1 DEF Call, Start, Kill, KillNotRunning, KillNoProcess, SendSigterm, Restart, WaitFor,
       SocketFails, Ready, kernelVars
  <2> QED
    BY <2>1, ProcessAssumption DEF Quit, Exits, IInv, TypeOK
<1>4. /\ IInv' /\ SoleProgram' /\ ServersInv(h)'
      /\ \A g \in Roots : g # h /\ SameList(g) => ProgramInv(g, staticOf)'
  BY <1>1, <1>2, <1>3, ProgramFrame
<1>5. FixtureTypeOK'
  BY <1>1, <1>2, <1>4, AdvanceTypes DEF FixtureTypeOK, IInv
<1>6. todo[h] \in Seq(Steps(On)) /\ todo' \in [Roots -> Seq(Steps(On))]
      /\ todo'[h] = Tail(todo[h])
  BY <1>1, <1>2, TailFacts
<1>7. \A g \in Roots : g # h => SameList(g)
  BY <1>2 DEF SameList
<1>8. ProgramInv(h, staticOf)'
  BY <1>1, <1>2, <1>4, <1>6, AdvanceProgram
<1> QED
  BY <1>4, <1>5, <1>6, <1>7, <1>8

LEMMA SiteNotUpKeeps ==
  ASSUME NEW On, NEW staticOf, FixtureInv(On, staticOf), NEW h \in Roots, SiteNotUp(h)
  PROVE  FixtureInv(On, staticOf)'
<1> USE DEF FixtureInv
<1>1. /\ todo[h] # << >> /\ Head(todo[h]).do = "return_unless_ok" /\ Ready(h)
      /\ UNCHANGED <<vars, phase, owned, siteOk, signalled>>
      /\ judge'  = [judge EXCEPT ![h] = "nobody"]
      /\ failed' = [failed EXCEPT ![h] = TRUE]
  BY DEF SiteNotUp, Comes
<1>2. todo[h] \in Seq(Steps(On)) /\ todo[h][1].do = "return_unless_ok" /\ 1 \in 1..Len(todo[h])
      /\ DOMAIN todo[h] = 1..Len(todo[h])
  BY <1>1, HeadFacts, LenProperties
<1>3. PICK k \in 1..Len(todo[h]) :
        /\ todo[h][k].do = "body"
        /\ todo' = [todo EXCEPT ![h] = SubSeq(@, k, Len(@))]
  BY <1>2 DEF SiteNotUp
<1>4. phase[h] = "tests"
  BY <1>2 DEF ProgramInv, KillsInv, TestOnly
<1>5. /\ IInv' /\ SoleProgram' /\ ServersInv(h)'
      /\ \A g \in Roots : g # h /\ SameList(g) => ProgramInv(g, staticOf)'
  <2>1. ~Quit(h)
    BY <1>1, ProcessAssumption DEF Quit, Ready, Exits, vars, kernelVars, IInv, TypeOK
  <2> QED
    BY <1>1, <2>1, ProgramFrame
<1>6. \A g \in Roots : g # h => SameList(g)
  BY <1>1, <1>3 DEF SameList
<1>7. todo'[h] \in Seq(Steps(On)) /\ ProgramInv(h, staticOf)'
  BY <1>1, <1>2, <1>3, <1>4, <1>5, SkipProgram DEF vars, memberVars, callVars
<1>8. todo' \in [Roots -> Seq(Steps(On))]
  BY <1>3, <1>7
<1>9. FixtureTypeOK'
  BY <1>1, <1>5 DEF FixtureTypeOK, IInv
<1> QED
  BY <1>5, <1>6, <1>7, <1>8, <1>9

LEMMA FinishKeeps ==
  ASSUME NEW On, NEW staticOf, FixtureInv(On, staticOf), NEW h \in Roots, Finish(h)
  PROVE  FixtureInv(On, staticOf)'
<1> USE DEF FixtureInv
<1>1. todo[h] = << >> /\ Quit(h) /\ UNCHANGED fixtureVars
  BY DEF Finish
<1>2. \A g \in Roots : SameList(g)
  BY <1>1 DEF fixtureVars, SameList
<1>3. ServersInv(h)'
  BY <1>1, FinishServers DEF fixtureVars
<1>4. Eases(h)
  BY <1>1, OthersLeaveAlone, UntouchedEases, ProcessAssumption
<1>5. ProgramInv(h, staticOf)'
  BY <1>2, <1>3, <1>4, KeepsProgram
<1>6. /\ IInv' /\ SoleProgram'
      /\ \A g \in Roots : g # h => ProgramInv(g, staticOf)'
  BY <1>1, <1>2, ProgramFrame DEF fixtureVars
<1>7. FixtureTypeOK' /\ todo' \in [Roots -> Seq(Steps(On))]
  BY <1>1, <1>6 DEF FixtureTypeOK, fixtureVars, judgeVars, IInv
<1> QED
  BY <1>5, <1>6, <1>7

(* Every step of the fixture keeps the invariant, and is one that module   *)
(* ProcessInstance allows.                                                 *)
LEMMA FixtureStepKeeps ==
  ASSUME NEW On, NEW staticOf, FixtureInv(On, staticOf), NEW h \in Roots, FixtureStep(h)
  PROVE  FixtureInv(On, staticOf)' /\ [Next]_vars /\ phase' = phase
<1> USE DEF FixtureInv
<1>1. CASE MakeCall(h)
  <2>1. Call(h) \/ SocketFails(h)
    BY <1>1, MakesCall DEF ProgramInv
  <2> QED
    BY <1>1, <2>1, MakeCallKeeps, ProcessAssumption DEF Next, MakeCall
<1>2. CASE BeginWait(h) \/ SiteIsUp(h) \/ TestBoundary(h)
           \/ \E static \in Statics : Own(h, static) \/ Disown(h, static)
  <2>1. /\ Ready(h) /\ todo[h] # << >>
        /\ Head(todo[h]).do \in {"wait_for_instances", "return_unless_ok", "body", "done",
                                 "own", "disown"}
        /\ UNCHANGED <<vars, phase, signalled>>
        /\ todo' = [todo EXCEPT ![h] = Tail(@)]
    BY <1>2 DEF BeginWait, SiteIsUp, TestBoundary, Own, Disown, Comes, Advance
  <2>2. /\ judge'  \in [Roots -> {"nobody", "site", "test"}]
        /\ siteOk' \in [Roots -> BOOLEAN]
        /\ failed' \in [Roots -> BOOLEAN]
    <3>1. CASE BeginWait(h)
      <4>1. Failed(h) \in BOOLEAN
        BY DEF Failed
      <4> QED
        BY <3>1, <4>1 DEF BeginWait, FixtureTypeOK
    <3>2. CASE ~BeginWait(h)
      <4>1. Advance(h) /\ TypeOK'
        BY <1>2, <3>2, <2>1 DEF SiteIsUp, TestBoundary, Own, Disown, FixtureTypeOK, TypeOK, vars,
           kernelVars, memberVars, callVars
      <4> QED
        BY <2>1, <4>1, AdvanceTypes
    <3> QED
      BY <3>1, <3>2
  <2>3. /\ owned' \in [Roots -> SUBSET Statics]
        /\ \A g \in Roots : g # h => owned'[g] = owned[g]
        /\ Head(todo[h]).do # "disown" => owned[h] \subseteq owned'[h]
        /\ Head(todo[h]).do = "own" => Head(todo[h]).on \in owned'[h]
    <3>1. CASE BeginWait(h) \/ SiteIsUp(h) \/ TestBoundary(h)
      <4>1. owned' = owned /\ Head(todo[h]).do # "own"
        BY <3>1 DEF BeginWait, SiteIsUp, TestBoundary, Comes
      <4> QED
        BY <4>1 DEF FixtureTypeOK
    <3>2. ASSUME NEW static \in Statics, Own(h, static) \/ Disown(h, static)
          PROVE  /\ owned' \in [Roots -> SUBSET Statics]
                 /\ \A g \in Roots : g # h => owned'[g] = owned[g]
                 /\ Head(todo[h]).do # "disown" => owned[h] \subseteq owned'[h]
                 /\ Head(todo[h]).do = "own" => Head(todo[h]).on \in owned'[h]
      <4>1. CASE Own(h, static)
        BY <4>1 DEF Own, FixtureTypeOK
      <4>2. CASE Disown(h, static)
        <5>1. Head(todo[h]).do = "disown" /\ owned' = [owned EXCEPT ![h] = @ \ {static}]
          BY <4>2 DEF Disown, Comes
        <5> QED
          BY <5>1 DEF FixtureTypeOK
      <4> QED
        BY <3>2, <4>1, <4>2
    <3> QED
      BY <1>2, <3>1, <3>2
  <2>4. FixtureTypeOK'
    BY <2>1, <2>2, <2>3 DEF FixtureTypeOK, TypeOK, vars, kernelVars, memberVars, callVars
  <2>5. phase[h] = "tests" => Head(todo[h]).do # "disown"
    BY <2>1, HeadFacts DEF ProgramInv, OwnedInv, Removals
  <2> QED
    BY <2>1, <2>3, <2>4, <2>5, QuietAdvance
<1>3. CASE SiteNotUp(h)
  BY <1>3, SiteNotUpKeeps DEF SiteNotUp
<1>4. CASE Finish(h)
  BY <1>4, FinishKeeps, ProcessAssumption DEF Finish, Next, fixtureVars
<1> QED
  BY <1>1, <1>2, <1>3, <1>4 DEF FixtureStep

(* TearDownTestCase.                                                       *)
LEMMA BeginTearDownKeeps ==
  ASSUME NEW On, NEW staticOf, FixtureInv(On, staticOf), NEW h \in Roots, NEW steps,
         TearsDown(steps, owned[h], On, staticOf), BeginTearDown(h, steps)
  PROVE  FixtureInv(On, staticOf)'
<1> USE DEF FixtureInv
<1>1. /\ todo[h] # << >> /\ todo[h][1].do = "teardown" /\ 1 \in 1..Len(todo[h]) /\ Ready(h)
      /\ phase' = [phase EXCEPT ![h] = "teardown"]
      /\ todo'  = [todo EXCEPT ![h] = steps]
      /\ UNCHANGED <<vars, owned, judgeVars, signalled>>
  BY HeadFacts DEF BeginTearDown, Comes
<1>2. phase[h] = "tests"
  BY <1>1 DEF ProgramInv, KillsInv, TestOnly
<1>3. /\ IInv' /\ SoleProgram' /\ ServersInv(h)'
      /\ \A g \in Roots : g # h /\ SameList(g) => ProgramInv(g, staticOf)'
  <2>1. ~Quit(h)
    BY <1>1, ProcessAssumption DEF Quit, Ready, Exits, vars, kernelVars, IInv, TypeOK
  <2> QED
    BY <1>1, <2>1, ProgramFrame
<1>4. \A g \in Roots : g # h => SameList(g)
  BY <1>1 DEF SameList
<1>5. phase'[h] = "teardown"
  BY <1>1 DEF FixtureTypeOK
<1>6. todo'[h] \in Seq(Steps(On)) /\ ProgramInv(h, staticOf)'
  BY <1>1, <1>2, <1>3, <1>5, TearDownProgram DEF vars, memberVars, callVars, Ready
<1>7. todo' \in [Roots -> Seq(Steps(On))]
  BY <1>1, <1>6
<1>8. FixtureTypeOK'
  BY <1>1, <1>3 DEF FixtureTypeOK, IInv, judgeVars, Phases
<1> QED
  BY <1>3, <1>4, <1>6, <1>7, <1>8

(* exit(), from an object of a test.                                       *)
LEMMA ExitKeeps ==
  ASSUME NEW On, NEW staticOf, FixtureInv(On, staticOf), NEW h \in Roots, NEW steps,
         TearsDown(steps, owned[h], On, staticOf),
         Comes(h, "new_s4_sites") \/ Comes(h, "delete_s4_sites"),
         phase'  = [phase EXCEPT ![h] = "exit"],
         todo'   = [todo EXCEPT ![h] = steps],
         judge'  = [judge EXCEPT ![h] = "nobody"],
         failed' = [failed EXCEPT ![h] = TRUE],
         UNCHANGED <<vars, owned, siteOk, signalled>>
  PROVE  FixtureInv(On, staticOf)' /\ phase[h] = "tests"
<1> USE DEF FixtureInv
<1>1. /\ todo[h] # << >> /\ todo[h][1].do \in {"new_s4_sites", "delete_s4_sites"}
      /\ 1 \in 1..Len(todo[h]) /\ Ready(h)
  BY HeadFacts DEF Comes
<1>2. phase[h] = "tests"
  BY <1>1 DEF ProgramInv, KillsInv, TestOnly
<1>3. /\ IInv' /\ SoleProgram' /\ ServersInv(h)'
      /\ \A g \in Roots : g # h /\ SameList(g) => ProgramInv(g, staticOf)'
  <2>1. ~Quit(h)
    BY <1>1, ProcessAssumption DEF Quit, Ready, Exits, vars, kernelVars, IInv, TypeOK
  <2> QED
    BY <2>1, ProgramFrame
<1>4. \A g \in Roots : g # h => SameList(g)
  BY DEF SameList
<1>5. phase'[h] = "exit"
  BY DEF FixtureTypeOK
<1>6. todo'[h] \in Seq(Steps(On)) /\ ProgramInv(h, staticOf)'
  BY <1>1, <1>2, <1>3, <1>5, TearDownProgram DEF vars, memberVars, callVars, Ready
<1>7. todo' \in [Roots -> Seq(Steps(On))]
  BY <1>6
<1>8. FixtureTypeOK'
  BY <1>3 DEF FixtureTypeOK, IInv, Phases
<1> QED
  BY <1>2, <1>3, <1>4, <1>6, <1>7, <1>8

(* std::terminate, from a removal.                                         *)
LEMMA AbortKeeps ==
  ASSUME NEW On, NEW staticOf, FixtureInv(On, staticOf), NEW h \in Roots,
         Comes(h, "remove_chronos") \/ Comes(h, "remove_tmp"),
         todo'      = [todo EXCEPT ![h] = << >>],
         judge'     = [judge EXCEPT ![h] = "nobody"],
         signalled' = [signalled EXCEPT ![h] = "aborted"],
         UNCHANGED <<vars, phase, owned, siteOk, failed>>
  PROVE  FixtureInv(On, staticOf)' /\ phase[h] # "tests"
<1> USE DEF FixtureInv
<1>1. /\ todo[h] # << >> /\ todo[h][1].do \in Removals /\ 1 \in 1..Len(todo[h]) /\ Ready(h)
  BY HeadFacts DEF Comes, Removals
<1>2. phase[h] # "tests"
  BY <1>1 DEF ProgramInv, OwnedInv
<1>3. signalled'[h] = "aborted" /\ "aborted" \in LeftBehind
  BY DEF FixtureTypeOK, LeftBehind
<1>4. IInv' /\ SoleProgram'
  <2>1. [Next]_vars
    OBVIOUS
  <2>2. IInv'
    BY <2>1, IInvStep
  <2> QED
    BY <2>1, <2>2, SoleProgramStep, FixtureAssumption, ProcessAssumption DEF IInv
<1>5. ProgramInv(h, staticOf)'
  <2>1. Len(<< >>) = 0 /\ todo'[h] = << >>
    OBVIOUS
  <2>2. ListInv(h)' /\ FreshInv(h)'
    BY <2>1 DEF ListInv, FreshInv
  <2>3. KillsInv(h)'
    <3>1. pc'[h] = "idle"
      BY <1>1 DEF Ready, vars, callVars
    <3> QED
      BY <1>3, <2>1, <3>1 DEF KillsInv
  <2>4. ServersInv(h)'
    BY <1>3 DEF ServersInv
  <2> QED
    BY <1>2, <2>2, <2>3, <2>4 DEF ProgramInv
<1>6. ASSUME NEW g \in Roots, g # h
      PROVE  ProgramInv(g, staticOf)'
  <2>1. SameList(g) /\ Untouched(g)
    BY <1>6 DEF SameList, Untouched, vars, memberVars, callVars
  <2>2. ServersInv(g)'
    BY <2>1 DEF ProgramInv, ServersInv, SameList, NoneLost, Childless, Exists, vars, kernelVars,
       memberVars, callVars
  <2> QED
    BY <2>1, <2>2, UntouchedEases, KeepsProgram
<1>7. todo' \in [Roots -> Seq(Steps(On))]
  BY EmptySeq
<1>8. FixtureTypeOK'
  BY <1>4 DEF FixtureTypeOK, IInv
<1> QED
  BY <1>2, <1>4, <1>5, <1>6, <1>7, <1>8

(* A signal that starts the handler.                                       *)
LEMMA SignalKeeps ==
  ASSUME NEW On, NEW staticOf, FixtureInv(On, staticOf), NEW h \in Roots, NEW steps,
         TearsDown(steps, owned[h], On, staticOf), SignalHandler(h, steps)
  PROVE  FixtureInv(On, staticOf)'
<1> USE DEF FixtureInv
<1>1. /\ status[h] = "program" /\ phase[h] # "nested"
      /\ SignalPoint(h) \in SignalPoints
      /\ signalled' = [signalled EXCEPT ![h] = SignalPoint(h)]
      /\ phase' = [phase EXCEPT ![h] = IF @ = "handler" THEN "nested" ELSE "handler"]
      /\ todo'  = [todo EXCEPT ![h] = steps]
      /\ judge' = [judge EXCEPT ![h] = "nobody"]
      /\ pc'    = [pc EXCEPT ![h] = "idle"]
      /\ fresh' = [fresh EXCEPT ![h] = None]
      /\ UNCHANGED <<status, parent, role, sigterm, listener, pid, running, arg, attempts,
                     result, owned, siteOk, failed>>
  BY DEF SignalHandler, kernelVars, memberVars
<1>2. h \in Pids /\ phase'[h] \in {"handler", "nested"}
      /\ pc'[h] = "idle" /\ signalled'[h] = SignalPoint(h)
  BY <1>1, ProcessAssumption DEF FixtureTypeOK, TypeOK, Phases
<1>3. TypeOK'
  BY <1>1 DEF FixtureTypeOK, TypeOK, Calls
<1>4. IInv'
  <2>1. UnusedInv' /\ RootInv' /\ MemberInv' /\ SignalsOwnChildren'
    BY <1>1 DEF IInv, UnusedInv, RootInv, MemberInv, SignalsOwnChildren, Exists
  <2>2. CallInv'
    BY <1>1, <1>2 DEF IInv, TypeOK, CallInv, Exists, Waiting, NoChild
  <2> QED
    BY <1>3, <2>1, <2>2 DEF IInv
<1>5. SoleProgram'
  BY <1>1, <1>2 DEF SoleProgram, IInv, TypeOK
<1>6. phase[h] = "tests" \/ signalled'[h] \in LeftBehind
  BY <1>2 DEF SignalPoint, LeftBehind
<1>7. ServersInv(h)'
  <2> SUFFICES ASSUME signalled'[h] \notin LeftBehind
               PROVE  NoneLost(h)'
    BY <1>1 DEF ServersInv
  <2>1. phase[h] = "tests" /\ pc[h] # "forked"
    BY <1>2, <1>6 DEF SignalPoint, LeftBehind
  <2>2. NoneLost(h)
    BY <2>1 DEF ProgramInv, ServersInv, LeftBehind
  <2> QED
    BY <1>1, <2>1, <2>2 DEF NoneLost, Exists
<1>8. todo'[h] \in Seq(Steps(On)) /\ ProgramInv(h, staticOf)'
  BY <1>1, <1>2, <1>6, <1>7, TearDownProgram
<1>9. todo' \in [Roots -> Seq(Steps(On))]
  BY <1>1, <1>8
<1>10. FixtureTypeOK'
  BY <1>1, <1>2, <1>3 DEF FixtureTypeOK, Phases
<1>11. ASSUME NEW g \in Roots, g # h
       PROVE  ProgramInv(g, staticOf)'
  <2>1. SameList(g) /\ Untouched(g)
    BY <1>1, <1>11 DEF SameList, Untouched
  <2>2. ServersInv(g)'
    BY <1>1, <2>1 DEF ProgramInv, ServersInv, SameList, Untouched, NoneLost, Childless, Exists
  <2> QED
    BY <2>1, <2>2, UntouchedEases, KeepsProgram
<1> QED
  BY <1>4, <1>5, <1>8, <1>9, <1>10, <1>11

(* A program whose signal did not leave a server behind has no child left  *)
(* when it has ended.                                                      *)
LEMMA NothingLeft ==
  ASSUME NEW On, NEW staticOf, FixtureInv(On, staticOf)
  PROVE  NoOrphans /\ FixtureTypeOK
<1>1. ASSUME NEW h \in Roots, status[h] = "reaped", signalled[h] \notin LeftBehind
      PROVE  Childless(h)
  BY <1>1 DEF FixtureInv, ProgramInv, ServersInv, LeftBehind
<1> QED
  BY <1>1 DEF NoOrphans, Childless, Exists, Alive, FixtureInv
=============================================================================
