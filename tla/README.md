# Verification of the Clearwater FV tests

TLA+ models of the functional verification tests in `src/`, checked with TLC and proved with
TLAPS.

The repository is a test program. It starts real servers (memcached, rogers, chronos,
dnsmasq), breaks some of them, and checks that the Clearwater stores, timers and statistics
still answer. A test program that loses a server process, waits for the wrong one, races
with the replication it tests, or depends on when it was started gives wrong verdicts about
the programs it tests: that is what these models are about.

Line numbers below are of the files in `src/src/`.

## Inventory

| Component | State | Operations | What makes it correct |
|---|---|---|---|
| `ProcessInstance` and its four subclasses (`processinstance.*`) | `_pid`, `_running`, and in the kernel the processes and who listens where | `start_instance`, `kill_instance`, `restart_instance`, `wait_for_instance`, destructor | no process is lost, no stranger is signalled, two generations of a server do not overlap, a wait finds the right server, calls return |
| `Site` (`site.*`) | vectors of instances, topology, directory | constructor, destructor, `start`, `restart`, `kill`, `wait_for_instances`, `get_first_*` | addresses do not clash, configuration files agree with the servers and outlive them, nothing is left behind |
| memcached fixture and scenarios (`test_memcachedsolution.cpp:35-312`) | statics `_dbs`, `_dnsmasq_instance` | `SetUpTestCase`, `SetUp`, `trigger_failure`, `fix_failure`, `TearDownTestCase`, `signal_handler` | each test starts with every server up; no server outlives the program |
| memcached functional tests (`test_memcachedsolution.cpp:333-1000`) | keys in the replicated store, the store object | set, get, delete with CAS, pauses | a correct store passes; a wrong one is noticed |
| thrash test (`test_memcachedsolution.cpp:1003-1116`) | ten keys, ten threads | GET and SET until the CAS fits | no increment lost or made twice, all threads join |
| S4 fixture (`test_s4solution.cpp:205-345`) | two sites, their topology and files, dnsmasq | `SetUpTestCase`, `wait_for_instances`, `TearDownTestCase`, `signal_handler` | servers have their files; nothing is left behind, files included |
| S4 tests (`test_s4solution.cpp:60-203, 347-470`) | an S4 and a timer sink for each site | put, get, timer pop, `Site::kill` | timers pop; a dead site is replaced by the other |
| statistics tests (`test_snmp.cpp`) | controlled time, a table | accumulate, increment, add and remove an IP address, advance time | the verdict does not depend on the time of day |
| DNS test (`test_dns.cpp`), `main` | - | one query; seeding | - |

How they interact. A fixture holds `Site`s and a `DnsmasqInstance` by shared pointers; a
`Site` holds its instances and passes each call on to them in a fixed order
(`for_each_instance`). Servers are child processes; instances talk to them by signals,
`waitpid` and TCP. Servers find each other by configuration files and by dnsmasq's host
records. A signal handler may run the tear-down at any point. Tests follow one another
and share the servers.

What is hard: calls are several system calls long and interleave with servers that come
up, crash or die; `fork` copies the whole test program, and the copy runs on when `execlp`
fails; signals hit between any two steps, those of another signal's handler included; `exit`
skips the tear-down; results are dropped; destructors remove files of servers that still run,
and may throw as they do; a failure races with the copies of a record; ten threads race on a
key; time-based tables have period boundaries. `PROJECT.json` lists each such place with
the properties that cover it.

## Modules

| Module | Models | Correspondence |
|---|---|---|
| `ProcessInstance` | `processinstance.*` and the kernel as it uses it | `pid[h][i]`, `running[h][i]` are `_pid`, `_running` in the memory of process `h`. `Start`, `Fork`, `ForkFails`, `SaveOffPid`, `Exec`, `ExecFails` are `start_instance`; `KillNotRunning`, `KillNoProcess`, `SendSigterm`, `Reap`, `WaitNoChild` are `kill_instance`; `Restart` goes from `Reap` to `Fork`; `WaitFor`, `ConnectSucceeds`, `ConnectRefused`, `CallOff` are `wait_for_instance`. `Listen`, `Crash`, `Terminate`, `Exits` are the external servers and kernel |
| `TestFixture` | what the two fixtures share, extending `ProcessInstance` | a program is the list `todo` of what it still has to do; `MakeCall` takes a step of `ProcessInstance`, `BeginWait`, `SiteIsUp` and `SiteNotUp` are `wait_for_instances`, `Own` and `Disown` set and reset a static pointer, `BeginTearDown` and `SignalHandler` replace the list |
| `MemcachedSolutionTest` | memcached fixture, scenarios and test case, extending `TestFixture` | operators named after the code's functions build the list; a test is its scenario's failures and fixes |
| `S4SolutionTest` | S4 fixture and what the two tests do to servers, extending `TestFixture`, with an instance of `Site` | the list alternates calls on servers with steps on files (`FileStep`), which are actions of `Site` |
| `Site` | constructors and destructors of `Site` and the instances: addresses, files, host records | `BuildSite` is `Site::Site`, `TopologyMissing` its exception, `CreateDns` the constructor of `DnsmasqInstance`, `Hold` the assignment of a static pointer and `Release` its reset, `ResetDns`, `ResetChronos`, `ResetSite` the destructors, `WriteLog` what chronos writes when it starts, `RemoveTmp` the end of the tear-down, `RemoveFails` a `remove_all` that throws |
| `MemcachedStoreTests` | the 22 functional tests over the store | each test is an operator that lists its steps; one action per kind of step; `Replicate` is the store's own |
| `ThrashTest` | `thrash_thread_fn` and the test around it | one action per outcome of GET and of SET; `key`, `inc`, `value`, `cas` are the locals and the position in the loops |
| `AtomicCounters` | abstract: counters that threads increment atomically, and that a store that has failed may spoil | implemented by `ThrashTest` (`ImplementsCounters`) |
| `SNMPTest` | sixteen statistics tests and `jump_to_next_periodstart` | as `MemcachedStoreTests`; the tables are external |
| `ProcessInstanceProofs`, `ThrashTestProofs`, `SiteProofs` | theorems and proofs | - |
| `TestFixtureProofs` | the inductive invariant of the two fixtures and its lemmas | extends `ProcessInstanceProofs` |
| `MemcachedSolutionTestProofs`, `S4SolutionTestProofs` | theorems and proofs, extending `TestFixtureProofs` | - |
| `MemcachedStoreTestsProofs` | theorems and proofs on the functional tests and the store | - |
| `SNMPTestProofs` | one theorem, on `jump_to_next_periodstart` | - |
| `MC...` | constants for TLC | - |

How they compose. `TestFixture` extends `ProcessInstance` and takes its actions, so what is
proved of `ProcessInstance` holds of the tests as far as they use it as it assumes. That is
`UsesProcessInstance`, a property of every step, proved of both fixtures: but for a signal,
a step of the tests is a step of `ProcessInstance` or leaves its variables alone. A handler
that abandons a call is no step of `ProcessInstance`, and is dealt with in the runs and the
proofs of the tests themselves.
`S4SolutionTest` takes every step on files from `Site`, and is where a server meets the
files it is started with (`ServersKeepTheirFiles`). `MemcachedSolutionTest` only needs to know
which files there are, and has its own set of them.

How a program ends:

- by itself, after `TearDownTestCase`;
- by a signal. The handler runs `TearDownTestCase` on what the static pointers hold and
  raises the signal again. A handler blocks its own signal only, so that SIGSEGV may interrupt
  the handler of SIGINT, or the other way round, once: the phases are `tests`, `teardown`,
  `handler` and `nested`. A pointer is empty before the destructor of its object runs, and
  holds an object only some time after its constructor did its work, so that a signal at
  either point keeps the handler from the object (`Lost`);
- by `exit(1)` or `exit(2)`, when the HTTP stack of an `S4Site` throws in its constructor or
  destructor (lines 150-154, 174-178). The static destructors then run, in the reverse order of
  the definitions, and `TearDownTestCase` does not: the phase is `exit`;
- by `std::terminate`. `remove_all` throws when a chronos that still runs makes a file in its
  log directory meanwhile, and neither a destructor nor the handler lets the exception pass
  (`RemoveAborts`). `~ChronosInstance` removes that directory before its base class kills the
  chronos, so this is not far-fetched.

Abstractions worth knowing:

- Process identifiers are not recycled. `SignalsOwnChildren` is what makes that sound for
  the user's program: it holds a pid only of a child it has not reaped, and the kernel does
  not recycle those. A copy of the program that runs on after a failed `execlp` does hold
  pids of processes that are not its own; what a recycled pid would do to it is left out.
- `kill_instance` reads an uninitialised `status` when `waitpid` fails (line 65). The model
  takes both values of `exited`. `thrash_thread_fn` goes on with an uninitialised `cas`
  after a failed GET, which takes a value of the constant `UninitCas`, any set of numbers: also
  one that is not the key's CAS yet, and will be when the SET is made.
- `a_records[domain]` is assigned, not added to: when two sites give one domain, the last
  assignment stays (`HostRecord`).
- `getaddrinfo` is given literal addresses and taken to succeed. Sleeps are no steps,
  except where a functional test relies on one.
- The test fixtures take `execlp` to succeed (`FixtureAssumption`); `pi_execfails` is about
  its failure.
- In `ThrashTest` an operation of the store is atomic, and may return an error before or
  after it has stored. The test runs without failures and the CAS is checked by one
  memcached, so this is what the test relies on. The SETs that give the keys their first value,
  and the GETs of the final check, may return errors too; a key whose SET failed may be absent,
  and has the CAS 0 then.
- The store of `MemcachedStoreTests` is external and modelled as the tests use it. A key has
  a primary and a backup memcached, any two of the site's. A SET is decided at the first
  that is up and copied to the other later, in the order of the SETs; each server gives a
  record a CAS value of its own. A DELETE is made at both, after the SETs before it. A GET
  asks the primary and then the backup, and one that finds nothing leaves `cas` at 0. A
  pause is long enough for the copies to arrive, and a two-second sleep for a record of one
  second to expire. A memcached that is killed or restarted comes back empty; what is on
  its way to it, or from a rogers that is killed, may be lost; a copy that is lost on the way
  to a memcached goes on to `Nowhere`, in its place among the others. The victim is the last
  memcached, as `get_first_memcached` returns it.
- In `SNMPTest` time is in whole seconds; the code's remark that a jump is accurate to
  within a second is thereby left out. The numbers of rows that `snmp_walk` finds are checked,
  their order and names are not. The loop of line 262 goes over the statistics 3 to 7, of which
  3 to 5 are columns of the table (147-154: HWM, LWM, COUNT); that 6 and 7 read as 0 is the
  agent's doing, and left out, and the mean and the variance are not looked at there, as in the
  code. Rows of an IP address live until its last reference is removed: that is the table's
  promise, modelled as the tests use it.

## Runs

The bounds are small since the interesting cases need few actors: a lost process needs two
forks for an instance, an overlap two generations, a lost update two threads, a clash two
sites, an overtaken copy one key.

| Run | Bounds | Shows |
|---|---|---|
| `pi_safety` | 1 program, 2 instances, 3 forks, 2 attempts | type, `NoLostProcess`, `SignalsOwnChildren`, `OneProcessPerInstance`, `WaitFindsOwnProcess`, `CallsReturn` |
| `pi_execfails` | 2 instances, 2 forks, `execlp` may fail | the three invariants when a copy of the program runs on and signals servers that are not its children |
| `pi_tworoots` | 2 programs, 1 instance, 2 forks | *violation* of `WaitReportsOwnStart` |
| `ms_tests` | memcached, rogers, dnsmasq; 5 forks (3 servers and 2 replacements); 2 tests; 5 scenarios; signals at every point, two in a row included | `TestsLeaveAllStarted`, `NoOrphans`, `FilesGone`, `UsesProcessInstance`, `SuiteEnds` |
| `ms_signals` | 3 forks, no failures, signals after a fork or in the tear-down | *violation* of `HandlerKillsServers` |
| `s4_tests` | 2 sites, a chronos at the one that is killed and a rogers at the other, dnsmasq; 3 forks; both tests; signals at every point, two in a row included; `exit()`; aborts | `NoOrphans`, `ServersKeepTheirFiles`, `NoTestWaitsForTheDead`, `FilesGone`, `SuiteEnds` |
| `store_tests` | 22 tests, each under all its scenarios and with every placement of its keys; 2 rounds of the loop; 2 kinds of store | `FailsOnlyIfOvertaken`, `WrongStoreNoticed`, `ContentionIfPrimaryKilled` |
| `store_contention` | the two tests with the comment, every placement, a correct store | *violation* of `ContentionAfterRead` |
| `th_safety` | 3 threads, 2 keys, 2 increments, 2 errors of the store, an uninitialised `cas` of 0 or 3 | `NoLostIncrement`, `NeverOvercounts`, `TestPasses`, `ImplementsCounters`, `ThreadsJoin` |
| `site_config` | 2 sites, 0 to 2 instances of each kind, empty topologies, repeated test cases, signals in the tear-down | `AddressesDiffer`, `ChronosFindsOthers`, `StoresReachTheirSite`, `ConfigsExist`, `NothingLeft` |
| `snmp_tests` | 16 tests, each started at all 300 seconds of a period | `StartDoesNotMatter`, `OnlyLateStartsFail`, `JumpLandsOnPeriodStart` |
| `snmp_ageout` | the same starts, one test | *violation*: a test that depends on its start |

The bounds by name:

- `MaxAttempts`: the code makes five attempts to connect; one or two are enough, since the
  attempts differ in their number only.
- `Pids`: when the process identifiers of a run are used up, `fork` can only fail, as it
  may at any time.
- `AnyPid`: whether `fork` takes any unused identifier or the next one. The tests' runs
  take the next, since nothing compares identifiers.
- `SignalPoints`: where a signal may hit. It is `between_calls`, `in_call`, `unassigned`
  (an object is built and its static not yet set), `forked` (the pid not yet saved) or
  `teardown` (a second signal in a handler included). `ms_tests` and `s4_tests` have all five,
  and their properties say what they do not claim of which; `ms_signals` has the two at which a
  server is left behind.
- `UninitCas`: 0, which an absent key has, and 3, which a key's CAS reaches later.
- `NumTests`, `NumRounds`: two tests, so that one follows another under the same scenario.
- `Rounds`: the rounds of `AddKillSetSetDataContentionSet`, ten in the code. Each uses a key
  of its own, so that two show what one leaves for the next.
- `Stores`: a correct store, and one that reports contention but stores all the same, which
  is the fault a test of contention is there to find.
- `MaxErrors`: two, one for a thread to meet and one for another to meet while it recovers.
- `MaxCount`, `NoTopology`: instances of one kind in a site, and whether a site may be built
  with the default topology.

Deadlock is not checked where a program ends: a state in which every program has ended and
no server acts is where the system stops. `site_config` turns it off because of the
exception. `Permutations` are taken of the interchangeable process identifiers and
instances in `pi_execfails`, which has no liveness property.

## What the tests of the store depend on

`FailsOnlyIfOvertaken`: with a correct store a functional test fails only if the failure was
triggered while a copy was on its way. `AddKillGet` and those like it kill a memcached right
after the SET and wait for nothing (line 726), so that they do depend on the copy being
faster than the kill; the tests that delete by a TTL of zero pause (470, 884) and do not.

`ContentionIfPrimaryKilled`: the comment at line 755 says an update after a failure is
sometimes refused, "depending on whether the primary or backup memcached for this key has
been killed". It is refused exactly if the primary was.

The same is said of `AddKillCASDelete` (855) and `AddKillGetSet` (964), and is not so: those
read the key after the kill, and with a correct store their update is never refused for it.
`store_contention` shows it (`ContentionAfterRead`), and `FailsOnlyIfOvertaken` that the tests,
which have no retry, need none.

`WrongStoreNoticed`: a store that refuses a SET and stores its data all the same is noticed
by every test that meets it but three. `AddDeleteSetDataContention` does not read
afterwards. `AddSetSetDataContentionSet` was to set `failed_data_in`, and sets `data_in`
again (416-417). `AddSetCASDeleteDataContentionCASDelete` reads without a pause (458), and
may find the record at the backup.

## Fairness

- `Step(p)` and `Program(p)`, weakly: the operating system schedules a program that can
  take a step. Whether it then makes a call or not is its own choice in `ProcessInstance`;
  in the fixtures it runs its list.
- `Terminate(p)`, weakly: a server that has been sent SIGTERM ends. memcached, rogers,
  chronos and dnsmasq do; the code relies on it by calling `waitpid` without a timeout.
- `Thread(t)` and `Check` of the thrash test, weakly: the scheduler.

No server is assumed to come up (`Listen`) or to stay up, and `CallsReturn` and `SuiteEnds`
hold nevertheless. `ThreadsJoin` holds for a store that stops returning errors at
some point (`MaxErrors`): a thread whose every GET fails would go round its loop for ever.

## Theorems

All hold for every number of programs, instances, process identifiers, attempts, tests,
rounds, threads, keys, increments, errors and sites, from the named assumptions on the
constants only, and from what the theorem itself assumes.

`ProcessInstanceProofs`. `TypeCorrect` is inductive as it stands. The two safety
properties are not: `NoLostProcess` speaks of instances, and to see that `SaveOffPid` does
not overwrite a pid one must know that the instance was not running when `fork` was called.
The inductive invariant `IInv` adds to `TypeOK` and `SignalsOwnChildren`:

- `UnusedInv`: an unused process identifier has no family;
- `RootInv`: the programs of the user have no parent, and are never signalled;
- `CallInv`: in a call the instance is set; it is not running while it is forked for, and
  running while it is waited for; the pid that `fork` returned is a child forked for it;
- `MemberInv`: the pid of a running instance was forked for that instance, by the program
  or by the one it is a copy of.

That a program has lost no process, `NoneLost(h)`, is kept apart for each program `h`: a
signal that abandons a call may lose a process of that program, and `IInv` and `NoneLost` of
the others survive it, which the proofs of the fixtures need. From both follow
`NoProcessLost`, `OwnChildrenSignalled` and `OneGeneration`.
`WaitIsForOwnProcess` (an action property) needs one program and no failing `execlp`, the
conditions without which `pi_tworoots` refutes its weaker form, and the further invariant
`SoleProgram`: only the user's program runs tests, and whoever listens is a server it
forked.

`TestFixtureProofs`. What a fixture will do is a list, so that an invariant must say of
what is left of the list that it does the right thing. Such a statement usually takes an
induction over lists; here it is a statement about every position of `todo[h]`, relative to
which servers `WillRun` once the call in progress is over, so that a step that takes the
head of the list needs only a shift of positions. `FixtureInv` is `IInv`, `SoleProgram`,
`FixtureTypeOK` and, for each program:

- `ListInv`: calls are made on instances;
- `FreshInv`: an instance is started only if it is not running then: no start of it comes
  before, or a kill of it comes just before;
- `OwnedInv`, while tests run: every server that runs, or will be started, belongs to a
  static that is set, or that will be set before; no return from a failed wait skips the
  setting of a static; and the list ends in the tear-down. So the tear-down sees them all;
- `KillsInv`, from the tear-down on: what is left does nothing but kill, and kills every
  server that runs;
- `ServersInv`: the program has lost no process, and has no child when it ends, unless a
  signal hit it where `LeftBehind` says one may.

It is stated over the static of each instance and the parameters of the steps, which the two
test cases instantiate; a step that the fixtures share is dealt with here once. The list
invariants say nothing of the call under way, and the process invariants nothing of the
list: each is inductive only with the other.

`MemcachedSolutionTestProofs`. Lemmas on the operators that build the lists (`ForEachFacts`,
`RepeatFacts`, `ScenarioIsTest`, `TestCaseFacts`, `TearDownFacts`) show that the lists of
this test case and its tear-down satisfy the invariant. `FixtureTypeCorrect`,
`NoServerLeftBehind` and `ProcessInstanceUsed` follow, all for signals at every point.
`DirectoryCleanedUp` rests on `DirInv`: what is in `tmp` is removed by the step that ends the
list, and the file of dnsmasq is held, or about to be, or will be removed, or was lost to a
signal.
`AllStartedAtBoundaries` needs a further invariant, `UpInv`: before each boundary of a test
in the list, and for each server, either the list still contains a wait for it whose failure
somebody looks at, with nothing after that stops it (`WaitedFor`), or the server is running,
or the wait in progress decides it (`IsUp`); or the test case has failed. It is proved for one
program (`Roots = {r}`): with two, a wait is answered by the other's server, which is what
`pi_tworoots` shows.

`S4SolutionTestProofs`. `S4TypeCorrect`, `S4NoServerLeftBehind` and `S4UsesProcessInstance`
are as above. Three more invariants are about the servers, their files and their order:

- `DeadInv`, for `DeadNotWaitedFor`: no kill comes before a wait in the list, nothing is
  restarted, and while there is a wait to come nothing has been killed. This rests on the
  order of the two tests: `TracerBullet` kills a site, does not restart it, and is the last;
- `FilesInv`, for `ServersKeepFiles`. Until the tear-down it is `WrittenInv`: what a server
  reads is written before its static is set, and nothing is removed. From then on, unless
  a signal hit where `LeftBehind` says a server may be left, it is `KeptInv`: a server that is
  not being killed has its files, or a destructor has just removed them and kills it next; and
  what is left of the list removes the files of a server
  only after its kill or right before it (`Guarded`), which the lemmas on paths show of the
  destructors. `WaitInv` adds that the process that is waited for has had its SIGTERM, or
  died;
- `TmpInv`, for `NoFileLeftBehind`: every file is under `tmp`, or is the configuration of a
  dnsmasq that exists or is `Lost`. While tests run each file but `tmp` belongs to a static
  that is set, or will be next (`HeldFiles`); from an `exit()` on, to one whose destructor,
  which is still in the list, removes it (`ExitInv`); and in a tear-down removing `tmp` is what
  the program does last (`RemovesLast`). So a signal in an `exit()` finds a list that it may
  replace.

All three hold for signals at every point, and say in their statements what they do not
claim: see `LeftBehind` for `NoOrphans` and `ServersKeepTheirFiles`, and `FilesGone` itself.

`ThrashTestProofs`. `IInv` adds to the properties `ThreadInv`: a thread's CAS is never newer
than the key's, and as long as the two are equal the value the thread is about to set is
one more than the key's (or 1 after a failed GET). `Finished(k)` counts the increments done;
`NextKeyFinishesOne` is the lemma that leaving the retry loop adds exactly one element to
it. From the invariant follow `NoIncrementLost`, `NeverOvercounted`, `ThrashTestPasses` and
the refinement `ThrashImplementsCounters`. The refinement assumes nothing of the store: an
error maps to a step of the counters that marks them faulty, and only then may an increment
be spoilt.

`SiteProofs`. None of the properties is inductive: that two addresses differ depends on how
a site was built, which its state no longer says once `~Site` has begun to destroy it. The
inductive invariant `IInv` therefore remembers how each site was built:

- `TopologyInv`: from the first `SetUpTestCase` on, the topology is that of all sites;
- `SiteInv`: each site is absent or `AsBuilt` by the constructor for some numbers of
  instances, but for the chronos instances already destroyed;
- `DnsInv`: while tests run, the host records of every site are its servers' addresses;
- `FileInv`: every file is under `tmp`, or is the configuration of a dnsmasq that exists or
  is `Lost`;
- `ConfigsExist`, which together with the lemmas on paths (`SharedPaths`,
  `InstancePaths`, `UnderDirs`: what `remove_all` of one directory takes) is preserved when
  another site or instance is torn down.

From it follow `TypeCorrect`, `NoAddressClash`, `OthersFound`, `SitesReached`, `FilesStay`
and `NoFileLeft`.

`MemcachedStoreTestsProofs`. That every test passes is proved as one proves a program with
assertions between its statements. `TypeInv` types the steps, the records, the copies and
the CAS values, and says that at most the victim is down; `Types` follows from it. For the
rest, a *belief* (`Belief`) is what a step of a test may take for granted about one key:

- the record is absent; or a GET finds it whatever copies arrive (`held`); or the primary has
  it and the backup has it too, or will (`synced`); or it is on its way out after a TTL of zero
  (`gone`); and which data it has;
- the test's CAS value is zero, current, stale, or unknown;
- whether the record is short-lived, which servers are up and what the store connects to.

`Holds(k, b)` says that belief `b` is true of key `k` in a state, the order of the copies in
flight included: the last one for a key, wherever it is in the queue, decides what the key's
other server will have (`Settles`). `Rule(k, s, b, c)` says that step `s` passes from belief
`b` and leads to belief `c`, and each kind of step has a lemma that its rule is sound, the
arrival of a copy at any moment (`ReplicateHolds`) among them. `Triple(k, todo, b, c)`
chains the rules along what is left of a test; a step takes the head of the chain off, and
a refused SET puts its retry before it. The invariant `PassesInv` is that with a correct
store and no overtaken copy nothing has failed, and for each key some belief holds from which
there is a chain through `todo`. It is no more than that: no belief is stored in the state,
and no position in a test is numbered. That it holds at first is a lemma for each of the 22
tests (`...Leads`), composed as the test is; the rounds of `AddKillSetSetDataContentionSet`,
whose number is a constant, are glued by `TripleRounds` for each key, before, in and after
the round that is its own. From the invariant follow `TestsPass`, and
`ContentionAsExpected`, because the rule for a SET that may be refused decides which of the
two happens: after the failure the CAS value is stale exactly if the primary was killed.

`WrongStoreIsNoticed` is about the other kind of store, in which those beliefs are false. It
rests on `NoticedInv`: with a store that keeps what it refuses, and in every test but the
three named, a test has failed; or it has met no refusal and every refusal still ahead of it
is one it takes for an error (`IsSure`, kept by the steps because what is left of a sure
script is sure); or it is on its way to a GET that will see the refused data (`WillNotice`),
which is in one of seven positions counted back from that GET (`ReadNext` to `AddNext`). What
must hold on the way is about the copies in flight: before the refusal none has the data the
GET expects (`Unseen`), after it any that has goes to the server that does not answer
(`Aimed`), and before the GET the server that answers has other data (`Spoilt`). Every copy
that arrives keeps these. In the test with rounds the first round already shows the fault.

`SNMPTestProofs`. `JumpsLand` is about a test started at any time, where the run has the
seconds of one period. It rests on `ScriptIsScript`: every test's script is a sequence of
well-formed steps, which advance by whole seconds and jump by five minutes; the clock then
stays a natural number (`ClockInv`).

The assumptions on the constants say what the code's constructors guarantee. In
`SuiteAssumption` and `S4Assumption` every server is an object of its own (`emplace_back(new
...)`, `site.cpp`), and dnsmasq is none of a site's. `S4Assumption` further has one program,
as its files are at fixed paths that two programs would both write, and at most two chronos
instances a site (as many as the code has, and the `MaxCount` of `Site`). It does not restrict
the `SignalPoints`.

Only model-checked:

- the liveness properties (`CallsReturn`, `SuiteEnds`, `ThreadsJoin`): fairness and ENABLED
  are out of the prover's reach;
- `StartDoesNotMatter` and `OnlyLateStartsFail` of `SNMPTest`. Each test is a fixed script of
  waits, and whether it passes is found by carrying it out, which is what TLC does, for every
  start within a period. The tables depend on the start by its remainder only, so that a
  later period shows nothing new;
- `TypeOK` of `SNMPTest`: that a reference count is not negative is found in the same way,
  and what `SelectSeq` leaves of the samples takes an induction over data.

## Findings

Four places where the code and what is said of it disagree are in `PROJECT.json`, each
with a run that shows it: a wait satisfied by another program's server (`site.h:118`); a
signal during a fork or the tear-down that leaves a server behind
(`test_memcachedsolution.cpp:206`; the same is said at `test_s4solution.cpp:340`); two tests whose comments
speak of a contention, and a retry, that they do not have (`test_memcachedsolution.cpp:855`,
964); and a statistics test that
waits five seconds more than its comment says and fails when started at the end of a
five-minute period (`test_snmp.cpp:872`).

More were met without a violated run of their own. A signal between the constructor of
`DnsmasqInstance` and the assignment of its pointer (`test_s4solution.cpp:296-297`) leaves its
file, which the handler was to clean up (345); `FilesGone` says so. A site cannot be built with
its default topology, although `site.cpp:104` sees no harm in that: `at` throws (line 36), which
is `TopologyMissing`; googletest would report it as a failed test. `get_first_*` return the last instance
and not the first (`site.h:90-97`, `site.cpp:249-261`); the tests only need some instance.
Eight statistics tests, the ageing test among them, never move to the start of a period, and
each may fail when started in its last ten seconds: `OnlyLateStartsFail` is the bound that
holds. A declared and never written `failed_data_in` makes one test blind to the fault it is
there for (above). The exits of `S4Site` leave `tmp` behind, empty, and a `remove_all` that
throws in `~ChronosInstance` leaves everything (see "Modules"); the next run makes and
truncates its files again.

## Not modelled

- S4, chronos and their timers, and the data of the two S4 tests: S4 is in a submodule, and
  the source says of the timers only what one mock expects (`test_s4solution.cpp:417`), so
  that a model of them would be invented. What the tests do to the servers is modelled.
- `ScalarValue`, `TableOrdering` and `IPCountTable` of the statistics tests, which take no
  control of time and look at a table at once; and what a failed ASSERT, which leaves time
  controlled and the table registered (`test_snmp.cpp:293`), does to later tests, as that
  depends on the SNMP agent.
- `main`'s seeding, the DNS test (it starts one instance and asks one question), the build
  files.
- `Site::restart`, which no test calls.
- The servers, the Clearwater libraries, Net-SNMP and googletest, in submodules or
  installed: external, and modelled only as the tests use them.

## Plan

Done, in this order: `ProcessInstance` and its proofs; `ThrashTest` with `AtomicCounters`
and its proofs; `Site` and its proofs; `TestFixture` with `MemcachedSolutionTest` and
`S4SolutionTest`, the latter composed with `Site`; `MemcachedStoreTests`; `SNMPTest`; the
proofs of `TestFixture`, `MemcachedSolutionTest` and `S4SolutionTest`; the jump of `SNMPTest`;
the proofs of `MemcachedStoreTests`.

What would come next: a proof that the refinement of `ThrashTest` survives the scenarios of
`MemcachedStoreTests`, should the thrash test be given one; and, if the sources of S4 and
chronos are put beside this repository, their timers, composed with `S4SolutionTest`.
