---------------------------- MODULE S4SolutionTest ----------------------------
(***************************************************************************)
(* The test case of the S4 solution tests: two sites with their files and  *)
(* servers, a dnsmasq, and the two tests (test_s4solution.cpp).  The       *)
(* servers take the steps of module ProcessInstance and their files those  *)
(* of module Site, so that this is where a server meets the configuration  *)
(* it is started with.  Of the S4Site objects there is what they do to the *)
(* test program, to end it when their HTTP stack fails: S4 itself, its     *)
(* timers and its data are external and left out.                          *)
(***************************************************************************)
EXTENDS TestFixture, FiniteSets

CONSTANTS
  Names,       (* the names of the sites                                   *)
  Prefix,      (* the IP prefix given to each site                         *)
  Site1, Site2,
  Memcacheds,  (* for each site the sequence of its memcached instances,   *)
  Rogerses,    (* of its rogers instances                                  *)
  Chronoses,   (* and of its chronos instances                             *)
  Dnsmasq      (* the dnsmasq instance                                     *)

SiteInstances(n) == Memcacheds[n] \o Rogerses[n] \o Chronoses[n]
AllServers == SiteInstances(Site1) \o SiteInstances(Site2) \o <<Dnsmasq>>

(* Every server is an object of its own.                                   *)
ASSUME S4Assumption ==
  /\ Names = {Site1, Site2} /\ Site1 # Site2 /\ "dnsmasq" \notin Names
  /\ Statics = Names \cup {"dnsmasq"}
  /\ \A f \in {Memcacheds, Rogerses, Chronoses} : f \in [Names -> Seq(Instances)]
  /\ \A n \in Names : Len(Chronoses[n]) <= 2
  /\ Dnsmasq \in Instances
  /\ \A j, k \in DOMAIN AllServers : AllServers[j] = AllServers[k] => j = k
  /\ \E h \in Roots : Roots = {h}

(* The test program: the one that its user launched.                       *)
Host == CHOOSE h \in Roots : TRUE

VARIABLES topology, site, dns, files, stage   (* as in module Site         *)

configVars == <<topology, site, dns, files, stage>>
allVars    == <<vars, fixtureVars, configVars>>

Config == INSTANCE Site WITH MaxCount <- 2, NoTopology <- FALSE, held <- owned[Host]

-----------------------------------------------------------------------------
(* What the tests do *)

(* Mutant: a site is started before its configuration is written.          *)
StartAndCreateSite(n) ==
  ForEachInstance("start", SiteInstances(n)) \o <<Do("new_site", n), Do("own", n)>>

CreateAndStartSite(n) ==
  <<Do("new_site", n), Do("own", n)>> \o ForEachInstance("start", SiteInstances(n))

CreateAndStartDns ==
  <<Mark("new_dnsmasq"), Do("own", "dnsmasq"), Do("start", Dnsmasq)>>

SetUpTestCase ==
  <<Mark("create_tmp")>>
    \o CreateAndStartSite(Site1) \o CreateAndStartSite(Site2) \o CreateAndStartDns

SetUp ==
  <<Mark("new_s4_sites")>>
    \o WaitForSite(SiteInstances(Site1)) \o WaitForSite(SiteInstances(Site2))
    \o <<ExpectTrue("wait", Dnsmasq), Mark("body")>>

TearDown == <<Mark("done"), Mark("delete_s4_sites")>>

TimerTracerBullet == SetUp \o TearDown

(* _site1->kill(): nobody starts site 1 again.                             *)
TracerBullet == SetUp \o ForEachInstance("kill", SiteInstances(Site1)) \o TearDown

(* Mutant: the tests are in the other order.                               *)
TracerBulletFirst == SetUpTestCase \o TracerBullet \o TimerTracerBullet \o <<Mark("teardown")>>

TestCase == SetUpTestCase \o TimerTracerBullet \o TracerBullet \o <<Mark("teardown")>>

(* ~Site: memcached, rogers, chronos, and then the directory.  The         *)
(* destructor of a chronos removes its directory before that of its base   *)
(* class kills it.                                                         *)
DestroyChronoses(n, k) ==
  IF k \in DOMAIN Chronoses[n]
  THEN <<Do("remove_chronos", <<n, k>>), Do("kill", Chronoses[n][k])>> ELSE << >>

DestroySite(n) ==
  ForEachInstance("kill", Memcacheds[n] \o Rogerses[n])
    \o DestroyChronoses(n, 1) \o DestroyChronoses(n, 2)
    \o <<Do("remove_site", n)>>

ResetSite(n, statics) ==
  IF n \in statics THEN <<Do("disown", n)>> \o DestroySite(n) ELSE << >>

(* ~DnsmasqInstance removes its file before its base class kills it.       *)
ResetDnsmasq(statics) ==
  IF "dnsmasq" \in statics
  THEN <<Do("disown", "dnsmasq"), Mark("remove_cfg"), Do("kill", Dnsmasq)>> ELSE << >>

(* Mutant: the directory tmp is left.                                      *)
TmpLeft(statics) ==
  ResetDnsmasq(statics) \o ResetSite(Site1, statics) \o ResetSite(Site2, statics)

TearDownTestCase(statics) ==
  ResetDnsmasq(statics) \o ResetSite(Site1, statics) \o ResetSite(Site2, statics)
    \o <<Mark("remove_tmp")>>

(* Mutant: the constructor and destructor of S4Site call _exit().          *)
NoDestructors(statics) == << >>

(* exit() destroys the static pointers in the reverse order of their       *)
(* definition (335-338), and does not call TearDownTestCase.               *)
StaticDestructors(statics) ==
  ResetSite(Site2, statics) \o ResetSite(Site1, statics) \o ResetDnsmasq(statics)

-----------------------------------------------------------------------------
S4Init ==
  /\ FixtureInit
  /\ Config!Init
  /\ todo = [h \in Roots |-> TestCase]

(* The S4Site objects of a test are made, or deleted ...                   *)
S4Sites(h) ==
  /\ Comes(h, "new_s4_sites") \/ Comes(h, "delete_s4_sites")
  /\ Advance(h)
  /\ UNCHANGED <<vars, phase, owned, signalled, configVars>>

(* ... or an HTTP stack of theirs throws, which makes them call exit(1),   *)
(* or exit(2).                                                             *)
HttpStackFails(h) ==
  /\ Comes(h, "new_s4_sites") \/ Comes(h, "delete_s4_sites")
  /\ phase'  = [phase EXCEPT ![h] = "exit"]
  /\ todo'   = [todo EXCEPT ![h] = StaticDestructors(owned[h])]
  /\ judge'  = [judge EXCEPT ![h] = "nobody"]
  /\ failed' = [failed EXCEPT ![h] = TRUE]
  /\ UNCHANGED <<vars, owned, siteOk, signalled>>
  /\ Config!TearDownTestCase

(* A step that builds or removes files.                                    *)
FileStep(h) ==
  LET on == Head(todo[h]).on IN
  /\ todo[h] # << >>
  /\ Advance(h)
  /\ UNCHANGED <<vars, phase, owned, signalled>>
  /\ \/ Comes(h, "create_tmp")  /\ Config!SetUpTestCase
     \/ Comes(h, "new_site")
        /\ Config!BuildSite(on, topology,
                            Len(Memcacheds[on]), Len(Rogerses[on]), Len(Chronoses[on]))
     \/ Comes(h, "new_dnsmasq") /\ Config!CreateDns
     \/ Comes(h, "remove_cfg")  /\ Config!ResetDns
     \/ Comes(h, "remove_chronos") /\ Config!ResetChronos(on[1], on[2])
     \/ Comes(h, "remove_site") /\ Config!ResetSite(on)
     \/ Comes(h, "remove_tmp")  /\ Config!RemoveTmp

(* Chronos k of site n runs, or is about to, and keeps its log directory.  *)
Writes(n, k) == \E c \in Pids : Alive(c) /\ role[c] = Chronoses[n][k]

(* remove_all throws because of one that writes there, and the program is  *)
(* aborted at once.                                                        *)
RemoveAborts(h) ==
  LET on == Head(todo[h]).on IN
  /\ todo'      = [todo EXCEPT ![h] = << >>]
  /\ judge'     = [judge EXCEPT ![h] = "nobody"]
  /\ signalled' = [signalled EXCEPT ![h] = "aborted"]
  /\ UNCHANGED <<vars, phase, owned, siteOk, failed>>
  /\ \/ /\ Comes(h, "remove_chronos") /\ Writes(on[1], on[2])
        /\ Config!ResetChronosFails(on[1], on[2])
     \/ /\ Comes(h, "remove_tmp")
        /\ \E n \in Names : \E k \in DOMAIN Chronoses[n] :
             Writes(n, k) /\ Config!RemoveTmpFails(n, k)

Program(h) ==
  \/ FixtureStep(h) /\ UNCHANGED configVars
  \/ S4Sites(h)
  \/ HttpStackFails(h)
  \/ FileStep(h)
  \/ RemoveAborts(h)
  \/ BeginTearDown(h, TearDownTestCase(owned[h])) /\ Config!TearDownTestCase

(* A chronos that has been forked opens its log files, if their directory  *)
(* is there, and then becomes a server.                                    *)
OpensLog(p) ==
  \E n \in Names : \E k \in DOMAIN Chronoses[n] :
    pc[p] = "exec" /\ role[p] = Chronoses[n][k] /\ Config!LogDir(n, k) \in files

ProcessStep(p) ==
  /\ Step(p)
  /\ UNCHANGED fixtureVars
  /\ IF OpensLog(p)
     THEN \E n \in Names : \E k \in DOMAIN Chronoses[n] :
            role[p] = Chronoses[n][k] /\ Config!WriteLog(n, k)
     ELSE UNCHANGED configVars

S4Next ==
  \/ \E h \in Roots :
       \/ Program(h)
       \/ SignalHandler(h, TearDownTestCase(owned[h])) /\ Config!TearDownTestCase
  \/ \E p \in Pids : ProcessStep(p) \/ (Server(p) /\ UNCHANGED <<fixtureVars, configVars>>)

S4Spec == S4Init /\ [][S4Next]_allVars

(* Programs are scheduled, and a server ends on SIGTERM.                   *)
S4Fairness ==
  /\ \A h \in Roots : WF_allVars(Program(h))
  /\ \A p \in Pids : WF_allVars(ProcessStep(p))
                      /\ WF_allVars(Terminate(p) /\ UNCHANGED <<fixtureVars, configVars>>)

FairS4Spec == S4Spec /\ S4Fairness

-----------------------------------------------------------------------------
(* What execute_process gives each server to read: rogers its cluster      *)
(* settings, ...                                                           *)
RogersReads(i) ==
  {Config!ClusterSettings(n) : n \in {m \in Names : i \in Config!Elements(Rogerses[m])}}

(* ... chronos its log directory and three configuration files, ...        *)
ChronosReads(i) ==
  UNION {{Config!LogDir(q[1], q[2]), Config!LocalConfFile(q[1], q[2]),
          Config!ClusterConfFile(q[1]), Config!SharedConfFile(q[1])} :
    q \in {p \in Names \X (1..2) : p[2] \in DOMAIN Chronoses[p[1]] /\ Chronoses[p[1]][p[2]] = i}}

(* ... and dnsmasq its configuration.                                      *)
DnsmasqReads(i) == IF i = Dnsmasq THEN {Config!DnsmasqCfg} ELSE {}

FilesRead(i) == RogersReads(i) \cup ChronosReads(i) \cup DnsmasqReads(i)

(* A server is forked when the files it will read are written, and they    *)
(* stay until the very call that kills it: the destructors remove the      *)
(* files of a dnsmasq and of a chronos that still run, but the next thing  *)
(* the program does is to kill them.  That is so when the tests are over,  *)
(* when the program exits, and when a signal interrupts the tests between  *)
(* calls, in a call or before an assignment; it is not so after a signal   *)
(* that hit between a fork() and the saving of the pid, or in a tear-down, *)
(* where a server may have lost its files and is not killed next, and not  *)
(* after an abort.                                                         *)
ServersKeepTheirFiles ==
  \A h \in Roots, c \in Pids :
    (/\ parent[c] = h /\ Alive(c) /\ signalled[h] \notin LeftBehind
     /\ ~(FilesRead(role[c]) \subseteq files)) =>
      \/ c \in sigterm
      \/ todo[h] # << >> /\ Head(todo[h]) = Do("kill", role[c])

(* No test waits for a server that an earlier one killed for good: a       *)
(* server that is not running when SetUp waits for it has never been       *)
(* forked.                                                                 *)
NoTestWaitsForTheDead ==
  \A h \in Roots :
    Comes(h, "wait") => LET i == Head(todo[h]).on IN running[h][i] \/ pid[h][i] = None

(* What a test program leaves behind when it ends.  It is nothing, but for *)
(* the directory tmp, empty, when an S4Site called exit(); for the         *)
(* configuration of dnsmasq, which is not under tmp, when a signal hit     *)
(* before it was assigned to its pointer or in a tear-down; and for        *)
(* anything when a remove_all threw.                                       *)
FilesGone ==
  \A h \in Roots : status[h] = "reaped" =>
    \/ files = {}
    \/ phase[h] = "exit" /\ files = {Config!TmpDir}
    \/ signalled[h] \in {"unassigned", "teardown"} /\ files = {Config!DnsmasqCfg}
    \/ signalled[h] = "aborted"
=============================================================================
