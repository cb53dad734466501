------------------------ MODULE MemcachedSolutionTest ------------------------
(***************************************************************************)
(* One test case of the memcached solution tests: the fixture starts a     *)
(* site of memcached and rogers instances and a dnsmasq, and each test may *)
(* break and mend the site as its scenario says                            *)
(* (test_memcachedsolution.cpp, site.cpp).  What the tests do with the     *)
(* data in the store is in module MemcachedStoreTests, as it changes no    *)
(* process, and what the files say is in module Site: here a file is there *)
(* or not.                                                                 *)
(***************************************************************************)
EXTENDS TestFixture, SequencesExt

CONSTANTS
  Memcacheds,    (* sequence of the site's memcached instances             *)
  Rogerses,      (* sequence of the site's rogers instances                *)
  Dnsmasq,       (* the dnsmasq instance                                   *)
  Scenarios,     (* the scenarios the test case may be instantiated with   *)
  NumTests,      (* tests in the test case                                 *)
  NumRounds      (* failures in a test: 1, or 10 in the one with a loop    *)

SiteInstances == Memcacheds \o Rogerses

ASSUME SuiteAssumption ==
  /\ Memcacheds \in Seq(Instances) /\ Memcacheds # << >>
  /\ Rogerses   \in Seq(Instances) /\ Rogerses # << >>
  /\ Dnsmasq \in Instances \ Range(SiteInstances)
  /\ \A j, k \in DOMAIN SiteInstances : SiteInstances[j] = SiteInstances[k] => j = k
  /\ Statics = {"dbs", "dnsmasq"}
  /\ Scenarios \subseteq {"NoFailures", "MemcachedFails", "MemcachedRestarts",
                          "RogersFails", "RogersRestarts"}
  /\ NumTests \in Nat \ {0}
  /\ NumRounds \in Nat \ {0}

(* Both return back(), the last instance created, and not the first as the *)
(* comments of site.h:93-97 say.                                           *)
GetFirstMemcached == Last(Memcacheds)
GetFirstRogers    == Last(Rogerses)

VARIABLE files   (* what each program, in a directory of its own, has made *)

CreateAndStartDatabases ==
  <<Mark("new_site"), Do("own", "dbs")>> \o ForEachInstance("start", SiteInstances)
CreateAndStartDns ==
  <<Mark("new_dnsmasq"), Do("own", "dnsmasq"), Do("start", Dnsmasq)>>

SetUpTestCase == <<Mark("create_tmp")>> \o CreateAndStartDatabases \o CreateAndStartDns

(* EXPECT_TRUE(wait_for_instances()): all of the site, then dnsmasq unless *)
(* the site did not come up.                                               *)
SetUp == WaitForSite(SiteInstances) \o <<ExpectTrue("wait", Dnsmasq), Mark("body")>>

Victim(sc) ==
  IF sc \in {"RogersFails", "RogersRestarts"} THEN GetFirstRogers ELSE GetFirstMemcached

(* Mutant: the victim is started again without having been killed.         *)
TriggerByStart(sc) ==
  IF sc = "NoFailures" THEN << >> ELSE <<ExpectTrue("start", Victim(sc))>>

TriggerFailure(sc) ==
  CASE sc = "NoFailures" -> << >>
    [] sc \in {"MemcachedFails", "RogersFails"} -> <<ExpectTrue("kill", Victim(sc))>>
    [] OTHER -> <<ExpectTrue("restart", Victim(sc)), ExpectTrue("wait", Victim(sc))>>

(* Mutant: the fix of a failed server is left empty, as that of a          *)
(* restarted one.                                                          *)
NoFix(sc) == << >>

FixFailure(sc) ==
  IF sc \in {"MemcachedFails", "RogersFails"}
  THEN <<ExpectTrue("start", Victim(sc)), ExpectTrue("wait", Victim(sc))>>
  ELSE << >>

Repeat(n, steps) ==
  [k \in 1..(n * Len(steps)) |-> steps[((k - 1) % Len(steps)) + 1]]

Test(sc) ==
  SetUp \o Repeat(NumRounds, TriggerFailure(sc) \o FixFailure(sc)) \o <<Mark("done")>>

TestCase(sc) == SetUpTestCase \o Repeat(NumTests, Test(sc)) \o <<Mark("teardown")>>

(* TearDownTestCase resets the statics that are set.  A shared_ptr is      *)
(* empty before the destructor of what it held runs; ~DnsmasqInstance      *)
(* removes its file, ~Site clears its vectors in order and removes its     *)
(* directory, and each ~ProcessInstance calls kill_instance.               *)
ResetDnsmasq(statics) ==
  IF "dnsmasq" \in statics
  THEN <<Do("disown", "dnsmasq"), Mark("remove_cfg"), Do("kill", Dnsmasq)>> ELSE << >>

ResetDbs(statics) ==
  IF "dbs" \in statics
  THEN <<Do("disown", "dbs")>> \o ForEachInstance("kill", SiteInstances)
         \o <<Mark("remove_site")>>
  ELSE << >>

(* Mutant: dnsmasq is forgotten.                                           *)
TearDownForgetsDnsmasq(statics) == ResetDbs(statics) \o <<Mark("remove_tmp")>>

(* Mutant: the directory tmp is left.                                      *)
TearDownLeavesTmp(statics) == ResetDnsmasq(statics) \o ResetDbs(statics)

TearDownTestCase(statics) ==
  ResetDnsmasq(statics) \o ResetDbs(statics) \o <<Mark("remove_tmp")>>

-----------------------------------------------------------------------------
SuiteInit ==
  /\ FixtureInit
  /\ \E sc \in Scenarios : todo = [h \in Roots |-> TestCase(sc)]
  /\ files = [h \in Roots |-> {}]

allVars == <<vars, fixtureVars, files>>

(* A step that makes files or removes them.  The site's cluster_settings   *)
(* is in its directory under tmp, the configuration of dnsmasq is not.     *)
Makes(kind) ==
  CASE kind = "create_tmp"  -> {"tmp"}
    [] kind = "new_site"    -> {"site"}
    [] kind = "new_dnsmasq" -> {"cfg"}
    [] OTHER -> {}

Removes(kind) ==
  CASE kind = "remove_cfg"  -> {"cfg"}
    [] kind = "remove_site" -> {"site"}
    [] kind = "remove_tmp"  -> {"tmp", "site"}
    [] OTHER -> {}

FileStep(h) ==
  LET kind == Head(todo[h]).do IN
  /\ \E file \in {"create_tmp", "new_site", "new_dnsmasq",
                  "remove_cfg", "remove_site", "remove_tmp"} : Comes(h, file)
  /\ files' = [files EXCEPT ![h] = (@ \cup Makes(kind)) \ Removes(kind)]
  /\ Advance(h)
  /\ UNCHANGED <<vars, phase, owned, signalled>>

Program(h) ==
  \/ FixtureStep(h) /\ UNCHANGED files
  \/ FileStep(h)
  \/ BeginTearDown(h, TearDownTestCase(owned[h])) /\ UNCHANGED files

(* The next step of a call, in a program or in a child of it.              *)
ProcessStep(p) == Step(p) /\ UNCHANGED <<fixtureVars, files>>

SuiteNext ==
  \/ \E h \in Roots :
       \/ Program(h)
       \/ SignalHandler(h, TearDownTestCase(owned[h])) /\ UNCHANGED files
  \/ \E p \in Pids : ProcessStep(p) \/ (Server(p) /\ UNCHANGED <<fixtureVars, files>>)

SuiteSpec == SuiteInit /\ [][SuiteNext]_allVars

(* Programs are scheduled, and a server ends on SIGTERM.                   *)
SuiteFairness ==
  /\ \A h \in Roots : WF_allVars(Program(h))
  /\ \A p \in Pids : WF_allVars(ProcessStep(p))
                      /\ WF_allVars(Terminate(p) /\ UNCHANGED <<fixtureVars, files>>)

FairSuiteSpec == SuiteSpec /\ SuiteFairness

-----------------------------------------------------------------------------
(* "Any killed instances should be restarted at the end of the previous    *)
(* test, and the new test will assume this"                                *)
(* (test_memcachedsolution.cpp:70): unless an expectation failed, each     *)
(* test begins and ends with every instance started, though Site::start    *)
(* and create_and_start_dns drop the results of start_instance.            *)
TestsLeaveAllStarted ==
  \A h \in Roots :
    (Comes(h, "body") \/ Comes(h, "done")) /\ ~Failed(h) =>
      \A i \in Range(SiteInstances) \cup {Dnsmasq} : running[h][i]

(* However the program ends, by itself or by a signal wherever it hits,    *)
(* its remove_all("tmp") leaves nothing there; the configuration of        *)
(* dnsmasq, which is not under tmp, is left at most by a signal that hit   *)
(* between its constructor and the assignment of the static pointer, or in *)
(* a tear-down.                                                            *)
FilesGone ==
  \A h \in Roots : status[h] = "reaped" =>
    /\ files[h] \subseteq {"cfg"}
    /\ files[h] = {} \/ signalled[h] \in {"unassigned", "teardown"}
=============================================================================
