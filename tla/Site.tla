--------------------------------- MODULE Site ---------------------------------
(***************************************************************************)
(* The configuration of a deployment: what the constructors of Site and of *)
(* the process instances write for the servers to read, and what the       *)
(* fixtures build from it (site.cpp, processinstance.cpp,                  *)
(* test_s4solution.cpp).  Module ProcessInstance has the processes.        *)
(*                                                                         *)
(* An address is a pair of an IP prefix and an index, with a port.  A file *)
(* is the sequence of the names on its path, the name "instance3" being    *)
(* two of them; the text of a configuration file is the set of what its    *)
(* lines say.                                                              *)
(***************************************************************************)
EXTENDS Naturals, Sequences, FiniteSets

CONSTANTS
  Names,        (* the names of the sites                                  *)
  Prefix,       (* the IP prefix given to each site                        *)
  MaxCount,     (* bound on the instances of one kind in a site            *)
  NoTopology    (* whether a site may be built with the default, empty map *)

ASSUME SiteAssumption ==
  /\ IsFiniteSet(Names) /\ "dnsmasq" \notin Names
  /\ DOMAIN Prefix = Names
  /\ \A m, n \in Names : Prefix[m] = Prefix[n] => m = n
  /\ MaxCount \in Nat
  /\ NoTopology \in BOOLEAN

VARIABLES
  topology,  (* _deployment_topology of the fixture: a map by site name    *)
  site,      (* the Site object of each name                               *)
  dns,       (* the host records of the dnsmasq instance                   *)
  files,     (* the files and directories that exist                       *)
  stage,     (* what the test program is doing, or how it ended            *)
  held       (* the objects that the static pointers of the fixture hold   *)

vars == <<topology, site, dns, files, stage, held>>

NoSite == [built |-> FALSE]
NoDns  == [built |-> FALSE]

(* An object that no static pointer holds when TearDownTestCase begins: it *)
(* is never destroyed.                                                     *)
Lost   == [built |-> FALSE, lost |-> TRUE]

-----------------------------------------------------------------------------
(* Mutant: with_rogers gives every site the same domain.                   *)
OneRogersDomain(n) ==
  [prefix |-> Prefix[n], chronos |-> <<"chronos", n>>, rogers |-> <<"rogers", "site">>]

(* Site::Topology, with its domains set by with_chronos and with_rogers.   *)
Topology(n) ==
  [prefix |-> Prefix[n], chronos |-> <<"chronos", n>>, rogers |-> <<"rogers", n>>]

(* site_ip, with the port of the server that listens there.                *)
Address(prefix, index, port) == [prefix |-> prefix, index |-> index, port |-> port]
MEMCACHED_PORT == 33333
ROGERS_PORT    == 11311
CHRONOS_PORT   == 7253

(* Mutant: every instance listens on the first IP of the site.             *)
InstancesOnOneIp(prefix, count, port) == [k \in 1..count |-> Address(prefix, 1, port)]

(* Mutant: the loop makes one instance too many.                           *)
OneInstanceTooMany(prefix, count, port) == [k \in 1..(count + 1) |-> Address(prefix, k, port)]

(* create_..._instances: one instance on each of the first IPs of the site.*)
CreateInstances(prefix, count, port) == [k \in 1..count |-> Address(prefix, k, port)]

Elements(s) == {s[k] : k \in DOMAIN s}

(* get_rogers_ips and get_chronos_ips.                                     *)
Ips(s)      == {<<a.prefix, a.index>> : a \in Elements(s)}

(* Mutant: each remote site is given the domain of this one.               *)
OwnDomainForAll(n, tplg) ==
  [local  |-> {m \in DOMAIN tplg : m = n},
   remote |-> {<<m, tplg[n].chronos>> : m \in DOMAIN tplg \ {n}}]

(* chronos_shared.conf: the other sites by name and domain.                *)
SharedConf(n, tplg) ==
  [local  |-> {m \in DOMAIN tplg : m = n},
   remote |-> {<<m, tplg[m].chronos>> : m \in DOMAIN tplg \ {n}}]

(* What Site(n, ...) holds after its constructor, with the configuration   *)
(* files that it hands to its instances.                                   *)
NewSite(n, tplg, numMemcached, numRogers, numChronos) ==
  LET prefix    == tplg[n].prefix
      memcached == CreateInstances(prefix, numMemcached, MEMCACHED_PORT)
      chronos   == CreateInstances(prefix, numChronos, CHRONOS_PORT)
  IN [built           |-> TRUE,
      memcached       |-> memcached,
      rogers          |-> CreateInstances(prefix, numRogers, ROGERS_PORT),
      chronos         |-> chronos,
      clusterSettings |-> Elements(memcached),
      chronosCluster  |-> Elements(chronos),
      chronosShared   |-> SharedConf(n, tplg)]

(* Mutant: all sites are built in the same directory.                      *)
OneSiteDir(n) == <<"tmp", "site">>

TmpDir     == <<"tmp">>
SiteDir(n) == <<"tmp", n>>
DnsmasqCfg == <<"dnsmasq.cfg">>

ClusterSettings(n) == SiteDir(n) \o <<"cluster_settings">>
ChronosDir(n)      == SiteDir(n) \o <<"chronos">>
SharedConfFile(n)  == SiteDir(n) \o <<"chronos", "chronos_shared.conf">>
ClusterConfFile(n) == SiteDir(n) \o <<"chronos", "chronos_cluster.conf">>
InstanceDir(n, k)  == SiteDir(n) \o <<"chronos", "instance", k>>
LogDir(n, k)       == SiteDir(n) \o <<"chronos", "instance", k, "log">>
ConfDir(n, k)      == SiteDir(n) \o <<"chronos", "instance", k, "conf">>
LocalConfFile(n, k) == SiteDir(n) \o <<"chronos", "instance", k, "conf", "chronos.conf">>
LogFiles(n, k) == {LogDir(n, k) \o <<f>> : f \in {"chronos_stdout.txt", "chronos_stderr.txt"}}

Under(dir, f)  == \A j \in DOMAIN dir : j \in DOMAIN f /\ f[j] = dir[j]
RemoveAll(dir) == {f \in files : ~Under(dir, f)}

(* What the servers of a site share, and what is one chronos instance's.   *)
SharedFiles(n) ==
  {SiteDir(n), ClusterSettings(n), ChronosDir(n), SharedConfFile(n), ClusterConfFile(n)}
InstanceFiles(n, k) ==
  {InstanceDir(n, k), LogDir(n, k), ConfDir(n, k), LocalConfFile(n, k)}

-----------------------------------------------------------------------------
Init ==
  /\ topology = << >>
  /\ site  = [n \in Names |-> NoSite]
  /\ dns   = NoDns
  /\ files = {}
  /\ stage = "start"
  /\ held  = {}

(* SetUpTestCase: the directory and the topology of every site.  emplace   *)
(* leaves an entry of an earlier test case as it is.                       *)
SetUpTestCase ==
  /\ stage = "start"
  /\ files'    = files \cup {TmpDir}
  /\ topology' = [n \in Names |-> IF n \in DOMAIN topology THEN topology[n] ELSE Topology(n)]
  /\ stage'    = "sites"
  /\ UNCHANGED <<site, dns, held>>

(* The map given to the constructor: that of the fixture, or the default.  *)
TopologiesGiven == {topology} \cup (IF NoTopology THEN {<< >>} ELSE {})

(* new Site(n, tplg, ...)                                                  *)
BuildSite(n, tplg, numMemcached, numRogers, numChronos) ==
  /\ stage = "sites"
  /\ ~site[n].built
  /\ n \in DOMAIN tplg
  /\ site'  = [site EXCEPT ![n] = NewSite(n, tplg, numMemcached, numRogers, numChronos)]
  /\ files' = files \cup SharedFiles(n) \cup UNION {InstanceFiles(n, k) : k \in 1..numChronos}
  /\ UNCHANGED <<topology, dns, stage, held>>

(* at(n) throws out_of_range in the initialisation of _ip_addr_prefix when *)
(* the map does not have n: the site is not built.                         *)
TopologyMissing(n, tplg) ==
  /\ stage = "sites"
  /\ ~site[n].built
  /\ n \notin DOMAIN tplg
  /\ stage' = "out_of_range"
  /\ UNCHANGED <<topology, site, dns, files, held>>

(* What is assigned to a_records[domain]: the last assignment stays, and as*)
(* Names has no order any one of them may be the last.                     *)
Assigned(domain) ==
  {Ips(site[n].rogers) : n \in {m \in Names : topology[m].rogers = domain}}
    \cup {Ips(site[n].chronos) : n \in {m \in Names : topology[m].chronos = domain}}

HostRecord(domain) == CHOOSE ips \in Assigned(domain) : TRUE

(* The records of every site's rogers and chronos domain, and the          *)
(* constructor of the dnsmasq instance that serves them.                   *)
CreateDns ==
  /\ stage = "sites"
  /\ \A n \in Names : site[n].built /\ n \in held
  /\ dns' = [built   |-> TRUE,
             records |-> [domain \in UNION {{topology[n].rogers, topology[n].chronos} : n \in Names} |->
                           HostRecord(domain)]]
  /\ files' = files \cup {DnsmasqCfg}
  /\ stage' = "tests"
  /\ UNCHANGED <<topology, site, held>>

(* The object just constructed is assigned to its static pointer.          *)
Hold(x) ==
  /\ stage \in {"sites", "tests"}
  /\ IF x = "dnsmasq" THEN dns.built ELSE site[x].built
  /\ held' = held \cup {x}
  /\ UNCHANGED <<topology, site, dns, files, stage>>

(* A chronos that is started opens its log files.                          *)
WriteLog(n, k) ==
  /\ LogDir(n, k) \in files
  /\ files' = files \cup LogFiles(n, k)
  /\ UNCHANGED <<topology, site, dns, stage, held>>

(* TearDownTestCase, at the end of the tests or from the signal handler at *)
(* any time before, and a second time when the handler is interrupted by   *)
(* the other signal.  What no static pointer holds is out of its reach:    *)
(* what was built but not assigned yet, and what the TearDownTestCase that *)
(* was interrupted was destroying.                                         *)
TearDownTestCase ==
  /\ stage \in {"sites", "tests", "teardown"}
  /\ stage' = "teardown"
  /\ site'  = [n \in Names |-> IF site[n].built /\ n \notin held THEN Lost ELSE site[n]]
  /\ dns'   = IF dns.built /\ "dnsmasq" \notin held THEN Lost ELSE dns
  /\ UNCHANGED <<topology, files, held>>

(* A static pointer is reset: it is empty before the destructor runs.      *)
Release(x) ==
  /\ stage = "teardown" /\ x \in held
  /\ held' = held \ {x}
  /\ UNCHANGED <<topology, site, dns, files, stage>>

(* The destructors, of objects that no pointer holds any more.             *)
DestroysDns  == stage = "teardown" /\ dns.built /\ "dnsmasq" \notin held
Destroys(n)  == stage = "teardown" /\ site[n].built /\ n \notin held

(* Mutant: ~DnsmasqInstance leaves its configuration.                      *)
DnsmasqCfgLeft ==
  /\ DestroysDns
  /\ dns' = NoDns
  /\ UNCHANGED <<topology, site, files, stage, held>>

(* ~DnsmasqInstance                                                        *)
ResetDns ==
  /\ DestroysDns
  /\ dns'   = NoDns
  /\ files' = files \ {DnsmasqCfg}
  /\ UNCHANGED <<topology, site, stage, held>>

(* ~ChronosInstance                                                        *)
ResetChronos(n, k) ==
  /\ Destroys(n) /\ k \in DOMAIN site[n].chronos
  /\ site'  = [site EXCEPT ![n].chronos = [j \in DOMAIN @ \ {k} |-> @[j]]]
  /\ files' = RemoveAll(InstanceDir(n, k))
  /\ UNCHANGED <<topology, dns, stage, held>>

(* The end of ~Site, when its instances are gone.                          *)
ResetSite(n) ==
  /\ Destroys(n) /\ DOMAIN site[n].chronos = {}
  /\ site'  = [site EXCEPT ![n] = NoSite]
  /\ files' = RemoveAll(SiteDir(n))
  /\ UNCHANGED <<topology, dns, stage, held>>

(* A TearDownTestCase that left an object behind was that of a signal.     *)
RemoveTmp ==
  /\ stage = "teardown" /\ held = {}
  /\ ~dns.built /\ (\A n \in Names : ~site[n].built)
  /\ files' = RemoveAll(TmpDir)
  /\ stage' = IF dns = Lost \/ (\E n \in Names : site[n] = Lost) THEN "over" ELSE "start"
  /\ UNCHANGED <<topology, site, dns, held>>

(* remove_all throws when a chronos that runs makes a file in its log      *)
(* directory meanwhile, so that the directory is not empty in the end.  The*)
(* destructors and the signal handler do not let the exception pass: the   *)
(* program is aborted, with at best nothing of dir removed and at worst    *)
(* everything but the way to the log directory.                            *)
RemoveFails(dir, n, k) ==
  /\ LogDir(n, k) \in files
  /\ files' \in {files, RemoveAll(dir) \cup
       {f \in files : Under(f, LogDir(n, k)) \/ Under(LogDir(n, k), f)}}
  /\ stage' = "aborted"
  /\ UNCHANGED <<topology, site, dns, held>>

ResetChronosFails(n, k) ==
  /\ Destroys(n) /\ k \in DOMAIN site[n].chronos
  /\ RemoveFails(InstanceDir(n, k), n, k)

RemoveTmpFails(n, k) ==
  /\ stage = "teardown" /\ held = {}
  /\ ~dns.built /\ (\A m \in Names : ~site[m].built)
  /\ RemoveFails(TmpDir, n, k)

Next ==
  \/ SetUpTestCase \/ CreateDns \/ TearDownTestCase \/ ResetDns \/ RemoveTmp
  \/ \E n \in Names, tplg \in TopologiesGiven :
       \/ \E nm, nr, nc \in 0..MaxCount : BuildSite(n, tplg, nm, nr, nc)
       \/ TopologyMissing(n, tplg)
  \/ \E x \in Names \cup {"dnsmasq"} : Hold(x) \/ Release(x)
  \/ \E n \in Names : ResetSite(n)
  \/ \E n \in Names, k \in 1..MaxCount :
       \/ WriteLog(n, k) \/ ResetChronos(n, k)
       \/ ResetChronosFails(n, k) \/ RemoveTmpFails(n, k)

Spec == Init /\ [][Next]_vars

-----------------------------------------------------------------------------
Built == {n \in Names : site[n].built}
Kinds == {"memcached", "rogers", "chronos"}

TypeOK ==
  /\ DOMAIN topology \subseteq Names
  /\ DOMAIN site = Names
  /\ \A n \in Built :
       \A kind \in Kinds : DOMAIN site[n][kind] \subseteq 1..MaxCount
  /\ dns.built \in BOOLEAN
  /\ stage \in {"start", "sites", "tests", "teardown", "over", "aborted", "out_of_range"}
  /\ held \subseteq Names \cup {"dnsmasq"}

(* "the IP addresses used by different sites cannot clash" (site.h:42), and*)
(* the servers that share an IP within a site differ in their port: no two *)
(* instances of a deployment would bind the same address.                  *)
AllInstances ==
  UNION {{<<n, kind, k>> : k \in DOMAIN site[n][kind]} :
           n \in Built, kind \in Kinds}

AddressesDiffer ==
  \A a, b \in AllInstances :
    site[a[1]][a[2]][a[3]] = site[b[1]][b[2]][b[3]] => a = b

(* While tests run, every chronos node finds its cluster and the nodes of  *)
(* every other site: its site is the one local site, every other site is   *)
(* in chronos_shared.conf, and the domain given there has a host record    *)
(* for each chronos of that site and nothing else.                         *)
ChronosFindsOthers ==
  stage = "tests" =>
    \A n \in Names :
      LET conf == site[n].chronosShared IN
      /\ conf.local = {n}
      /\ {r[1] : r \in conf.remote} = Names \ {n}
      /\ \A r \in conf.remote :
           dns.records[r[2]] = {<<a.prefix, a.index>> : a \in site[r[1]].chronosCluster}

(* A rogers listens on the domain that an S4 store of any site resolves    *)
(* for it (S4Site, test_s4solution.cpp:85-122), and the memcached servers  *)
(* of its site are those in its cluster_settings.                          *)
StoresReachTheirSite ==
  stage = "tests" =>
    \A n \in Names :
      /\ dns.records[topology[n].rogers] = Ips(site[n].rogers)
      /\ site[n].clusterSettings = Elements(site[n].memcached)

(* The files the servers of a site share exist until its last instance is  *)
(* gone, and those of a chronos as long as the instance, whatever other    *)
(* sites and instances are torn down, unless the program was aborted.      *)
ConfigsExist ==
  stage # "aborted" =>
    \A n \in Built :
      /\ SharedFiles(n) \subseteq files
      /\ \A k \in DOMAIN site[n].chronos : InstanceFiles(n, k) \subseteq files

(* A TearDownTestCase that gets to its end leaves no file, although each   *)
(* destructor removes its own, but that of a dnsmasq instance that was out *)
(* of its reach: the file is not under tmp.                                *)
NothingLeft ==
  /\ stage = "start" => files = {}
  /\ stage = "over"  => files = IF dns = Lost THEN {DnsmasqCfg} ELSE {}
=============================================================================
