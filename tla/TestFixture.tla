----------------------------- MODULE TestFixture -----------------------------
(***************************************************************************)
(* What the fixtures of the solution tests have in common: a test program  *)
(* that starts servers, waits for them, breaks and mends them, and ends    *)
(* them in TearDownTestCase or in its signal handler                       *)
(* (test_memcachedsolution.cpp, test_s4solution.cpp, site.cpp).            *)
(*                                                                         *)
(* A program is the list of what it still has to do: calls on its          *)
(* ProcessInstance objects, which take the steps of module                 *)
(* ProcessInstance, and steps of the fixture's own.  The lists are those   *)
(* of the module that extends this one, as is the next-state relation.     *)
(* execlp is taken to succeed, so that a forked child never gets to its    *)
(* copy of the list.                                                       *)
(***************************************************************************)
EXTENDS ProcessInstance, Sequences

CONSTANTS
  Statics,      (* the static pointers of the fixture                      *)
  SignalPoints  (* where a SIGINT or SIGSEGV may reach the test program    *)

ASSUME FixtureAssumption ==
  /\ ~ExecMayFail
  /\ SignalPoints \subseteq {"between_calls", "in_call", "unassigned", "forked", "teardown"}

VARIABLES
  todo,       (* what each program still has to do                         *)
  phase,      (* running tests, in TearDownTestCase, in signal_handler, in *)
              (* a handler that interrupted another one, or in exit()      *)
  owned,      (* the statics that are set                                  *)
  judge,      (* who looks at the result of the last call: nobody, the     *)
              (* local ok of Site::wait_for_instances, or an EXPECT_TRUE   *)
  siteOk,     (* that ok                                                   *)
  failed,     (* an expectation of the test case has failed                *)
  signalled   (* where a signal last hit the program, "nowhere", or        *)
              (* "aborted" by std::terminate: kept for the properties only *)

judgeVars   == <<judge, siteOk, failed>>
fixtureVars == <<todo, phase, owned, judgeVars, signalled>>

-----------------------------------------------------------------------------
(* The calls and steps of the tests *)

Do(what, i)         == [do |-> what, on |-> i, judge |-> "nobody"]
ExpectTrue(what, i) == [do |-> what, on |-> i, judge |-> "test"]
Mark(what)          == Do(what, None)

(* Site::for_each_instance, for start, restart and kill, which drop the    *)
(* results of their calls ...                                              *)
ForEachInstance(what, instances) == [k \in DOMAIN instances |-> Do(what, instances[k])]

(* ... and Site::wait_for_instances, which keeps them in its ok.           *)
WaitForSite(instances) ==
  <<Mark("wait_for_instances")>>
    \o [k \in DOMAIN instances |-> [do |-> "wait", on |-> instances[k], judge |-> "site"]]
    \o <<Mark("return_unless_ok")>>

-----------------------------------------------------------------------------
FixtureInit ==
  /\ Init
  /\ phase     = [h \in Roots |-> "tests"]
  /\ owned     = [h \in Roots |-> {}]
  /\ judge     = [h \in Roots |-> "nobody"]
  /\ siteOk    = [h \in Roots |-> TRUE]
  /\ failed    = [h \in Roots |-> FALSE]
  /\ signalled = [h \in Roots |-> "nowhere"]

(* Program h is in no call and comes to a step of the kind what.           *)
Comes(h, what) == Ready(h) /\ todo[h] # << >> /\ Head(todo[h]).do = what

(* failed and ok once the result of the call just returned is looked at.   *)
Failed(h) == failed[h] \/ (judge[h] = "test" /\ ~result[h])
SiteOk(h) == siteOk[h] /\ (judge[h] = "site" => result[h])

(* The step at the head of the list is taken.                              *)
Advance(h) ==
  /\ todo'   = [todo EXCEPT ![h] = Tail(@)]
  /\ judge'  = [judge EXCEPT ![h] = Head(todo[h]).judge]
  /\ failed' = [failed EXCEPT ![h] = Failed(h)]
  /\ siteOk' = [siteOk EXCEPT ![h] = SiteOk(h)]

(* A call on the instance of the step.                                     *)
MakeCall(h) ==
  LET i == Head(todo[h]).on IN
  /\ \/ Comes(h, "start")   /\ Start(h, i)
     \/ Comes(h, "kill")    /\ Kill(h, i)
     \/ Comes(h, "restart") /\ Restart(h, i)
     \/ Comes(h, "wait")    /\ (WaitFor(h, i) \/ SocketFails(h))
  /\ Advance(h)
  /\ UNCHANGED <<phase, owned, signalled>>

(* Site::wait_for_instances begins with ok = true ...                      *)
BeginWait(h) ==
  /\ Comes(h, "wait_for_instances")
  /\ todo'   = [todo EXCEPT ![h] = Tail(@)]
  /\ judge'  = [judge EXCEPT ![h] = "nobody"]
  /\ failed' = [failed EXCEPT ![h] = Failed(h)]
  /\ siteOk' = [siteOk EXCEPT ![h] = TRUE]
  /\ UNCHANGED <<vars, phase, owned, signalled>>

(* ... and the fixture's goes on to the next server when the site is up.   *)
SiteIsUp(h) ==
  /\ Comes(h, "return_unless_ok")
  /\ SiteOk(h)
  /\ Advance(h)
  /\ UNCHANGED <<vars, phase, owned, signalled>>

(* If it is not, it returns false at once, EXPECT_TRUE fails and the body  *)
(* of the test begins.                                                     *)
SiteNotUp(h) ==
  /\ Comes(h, "return_unless_ok")
  /\ ~SiteOk(h)
  /\ \E k \in DOMAIN todo[h] :
       /\ todo[h][k].do = "body" /\ \A j \in 1..(k - 1) : todo[h][j].do # "body"
       /\ todo' = [todo EXCEPT ![h] = SubSeq(@, k, Len(@))]
  /\ judge'  = [judge EXCEPT ![h] = "nobody"]
  /\ failed' = [failed EXCEPT ![h] = TRUE]
  /\ UNCHANGED <<vars, phase, owned, siteOk, signalled>>

(* The body of a test begins, or ends: no call, the results are judged.    *)
TestBoundary(h) ==
  /\ Comes(h, "body") \/ Comes(h, "done")
  /\ Advance(h)
  /\ UNCHANGED <<vars, phase, owned, signalled>>

(* A static is set before its servers are started ...                      *)
Own(h, static) ==
  /\ Comes(h, "own") /\ Head(todo[h]).on = static
  /\ owned' = [owned EXCEPT ![h] = @ \cup {static}]
  /\ Advance(h)
  /\ UNCHANGED <<vars, phase, signalled>>

(* ... and reset before they are killed.                                   *)
Disown(h, static) ==
  /\ Comes(h, "disown") /\ Head(todo[h]).on = static
  /\ owned' = [owned EXCEPT ![h] = @ \ {static}]
  /\ Advance(h)
  /\ UNCHANGED <<vars, phase, signalled>>

(* TearDownTestCase, with the steps it will take.                          *)
BeginTearDown(h, steps) ==
  /\ Comes(h, "teardown")
  /\ phase' = [phase EXCEPT ![h] = "teardown"]
  /\ todo'  = [todo EXCEPT ![h] = steps]
  /\ UNCHANGED <<vars, owned, judgeVars, signalled>>

(* Where program h would be hit by a signal: an object that is built is    *)
(* unassigned until its static is set.  The tear-down that a signal may    *)
(* interrupt is that of TearDownTestCase, of another handler or of exit(). *)
SignalPoint(h) ==
  IF phase[h] # "tests" THEN "teardown"
  ELSE IF pc[h] = "forked" THEN "forked"
  ELSE IF Comes(h, "own")  THEN "unassigned"
  ELSE IF pc[h] = "idle"   THEN "between_calls"
  ELSE "in_call"

(* SIGINT or SIGSEGV: signal_handler runs TearDownTestCase and raises the  *)
(* signal again, so that what was interrupted is never resumed.  Each of   *)
(* the two is blocked while its own handler runs, so that a handler may be *)
(* interrupted once, by the other.                                         *)
SignalHandler(h, steps) ==
  /\ status[h] = "program"
  /\ phase[h] # "nested" /\ (todo[h] # << >> \/ pc[h] # "idle")
  /\ SignalPoint(h) \in SignalPoints
  /\ signalled' = [signalled EXCEPT ![h] = SignalPoint(h)]
  /\ phase' = [phase EXCEPT ![h] = IF @ = "handler" THEN "nested" ELSE "handler"]
  /\ todo'  = [todo EXCEPT ![h] = steps]
  /\ judge' = [judge EXCEPT ![h] = "nobody"]
  /\ pc'    = [pc EXCEPT ![h] = "idle"]
  /\ fresh' = [fresh EXCEPT ![h] = None]
  /\ UNCHANGED <<kernelVars, memberVars, arg, attempts, result, owned, siteOk, failed>>

(* Nothing is left to do: main returns, or the raised signal ends h.       *)
Finish(h) ==
  /\ todo[h] = << >>
  /\ Quit(h)
  /\ UNCHANGED fixtureVars

(* The steps of the fixture.                                               *)
FixtureStep(h) ==
  \/ MakeCall(h) \/ BeginWait(h) \/ SiteIsUp(h) \/ SiteNotUp(h) \/ TestBoundary(h)
  \/ \E static \in Statics : Own(h, static) \/ Disown(h, static)
  \/ Finish(h)

-----------------------------------------------------------------------------
Phases == {"tests", "teardown", "handler", "nested", "exit"}

FixtureTypeOK ==
  /\ TypeOK
  /\ phase     \in [Roots -> Phases]
  /\ owned     \in [Roots -> SUBSET Statics]
  /\ judge     \in [Roots -> {"nobody", "site", "test"}]
  /\ siteOk    \in [Roots -> BOOLEAN]
  /\ failed    \in [Roots -> BOOLEAN]
  /\ signalled \in [Roots -> SignalPoints \cup {"nowhere", "aborted"}]

(* "This calls their destructors which will kill the underlying processes" *)
(* (test_memcachedsolution.cpp:206, test_s4solution.cpp:340): a test       *)
(* program that ends, by itself or by a signal, leaves none of its servers *)
(* behind unsignalled ...                                                  *)
HandlerKillsServers ==
  \A h \in Roots : status[h] = "reaped" =>
    \A c \in Pids : parent[c] = h /\ Alive(c) => c \in sigterm

(* ... unless a signal hit it after a fork() whose pid was not yet saved,  *)
(* or in a tear-down, or the tear-down was aborted by an exception.        *)
LeftBehind == {"forked", "teardown", "aborted"}

NoOrphans ==
  \A h \in Roots : status[h] = "reaped" /\ signalled[h] \notin LeftBehind =>
    \A c \in Pids : parent[c] = h /\ Alive(c) => c \in sigterm

(* The tests use ProcessInstance as its module assumes: every step but a   *)
(* signal, which may abandon a call, is one of that module, and so         *)
(* start_instance is only called on an instance that is not running (none  *)
(* of a user's program runs without being its child: SignalsOwnChildren).  *)
UsesProcessInstance ==
  Init /\ [][Next \/ \E h \in Roots : /\ phase'[h] # phase[h]
                                      /\ phase'[h] \in {"handler", "nested"}]_vars

(* The test program ends, whatever fails.                                  *)
SuiteEnds == \A h \in Roots : <>(status[h] = "reaped")
=============================================================================
