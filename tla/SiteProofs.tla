------------------------------ MODULE SiteProofs ------------------------------
(***************************************************************************)
(* Theorems of Site, for any finite set of sites and any number of         *)
(* instances, through any number of test cases.                            *)
(***************************************************************************)
EXTENDS Site, TLAPS

-----------------------------------------------------------------------------
(* Paths *)

(* A file of a site is under tmp and under the directory of that site, and *)
(* only those of a chronos instance have a fifth name, its number.         *)
LEMMA SharedPaths ==
  ASSUME NEW n, NEW f \in SharedFiles(n)
  PROVE  /\ 1 \in DOMAIN f /\ f[1] = "tmp"
         /\ 2 \in DOMAIN f /\ f[2] = n
         /\ 5 \notin DOMAIN f
<1>1. CASE f = SiteDir(n)
  BY <1>1 DEF SiteDir
<1>2. CASE f = ClusterSettings(n)
  BY <1>2 DEF ClusterSettings, SiteDir
<1>3. CASE f = ChronosDir(n)
  BY <1>3 DEF ChronosDir, SiteDir
<1>4. CASE f = SharedConfFile(n)
  BY <1>4 DEF SharedConfFile, SiteDir
<1>5. CASE f = ClusterConfFile(n)
  BY <1>5 DEF ClusterConfFile, SiteDir
<1> QED
  BY <1>1, <1>2, <1>3, <1>4, <1>5 DEF SharedFiles

LEMMA InstancePaths ==
  ASSUME NEW n, NEW k, NEW f \in InstanceFiles(n, k)
  PROVE  /\ 1 \in DOMAIN f /\ f[1] = "tmp"
         /\ 2 \in DOMAIN f /\ f[2] = n
         /\ 5 \in DOMAIN f /\ f[5] = k
<1>1. CASE f = InstanceDir(n, k)
  BY <1>1 DEF InstanceDir, SiteDir
<1>2. CASE f = LogDir(n, k)
  BY <1>2 DEF LogDir, SiteDir
<1>3. CASE f = ConfDir(n, k)
  BY <1>3 DEF ConfDir, SiteDir
<1>4. CASE f = LocalConfFile(n, k)
  BY <1>4 DEF LocalConfFile, SiteDir
<1> QED
  BY <1>1, <1>2, <1>3, <1>4 DEF InstanceFiles

(* What remove_all of a directory of site n, or of its instance k, takes.  *)
LEMMA UnderDirs ==
  ASSUME NEW n, NEW k, NEW f
  PROVE  /\ Under(SiteDir(n), f) => f[1] = "tmp" /\ f[2] = n
         /\ Under(InstanceDir(n, k), f) =>
              f[1] = "tmp" /\ f[2] = n /\ 5 \in DOMAIN f /\ f[5] = k
         /\ Under(TmpDir, f) <=> 1 \in DOMAIN f /\ f[1] = "tmp"
<1>1. Under(SiteDir(n), f) => f[1] = "tmp" /\ f[2] = n
  BY DEF Under, SiteDir
<1>2. Under(InstanceDir(n, k), f) =>
        f[1] = "tmp" /\ f[2] = n /\ 5 \in DOMAIN f /\ f[5] = k
  BY DEF Under, InstanceDir, SiteDir
<1>3. Under(TmpDir, f) <=> 1 \in DOMAIN f /\ f[1] = "tmp"
  BY DEF Under, TmpDir
<1> QED
  BY <1>1, <1>2, <1>3

(* The logs of a chronos are under tmp.                                    *)
LEMMA LogPaths ==
  ASSUME NEW n, NEW k
  PROVE  /\ Under(TmpDir, LogDir(n, k))
         /\ \A f \in LogFiles(n, k) : Under(TmpDir, f)
<1>1. 1 \in DOMAIN LogDir(n, k) /\ LogDir(n, k)[1] = "tmp"
  BY DEF LogDir, SiteDir
<1>2. ASSUME NEW f \in LogFiles(n, k)
      PROVE  1 \in DOMAIN f /\ f[1] = "tmp"
  <2>1. PICK g \in {"chronos_stdout.txt", "chronos_stderr.txt"} : f = LogDir(n, k) \o <<g>>
    BY <1>2 DEF LogFiles
  <2> QED
    BY <2>1 DEF LogDir, SiteDir
<1> QED
  BY <1>1, <1>2, UnderDirs

(* The configuration of the dnsmasq instance is not under tmp.             *)
LEMMA DnsmasqCfgNotUnder ==
  /\ ~Under(TmpDir, DnsmasqCfg)
  /\ \A n : ~Under(SiteDir(n), DnsmasqCfg)
  /\ \A n, k : ~Under(InstanceDir(n, k), DnsmasqCfg)
<1>1. 1 \in DOMAIN DnsmasqCfg /\ DnsmasqCfg[1] # "tmp"
  BY DEF DnsmasqCfg
<1> QED
  BY <1>1, UnderDirs

-----------------------------------------------------------------------------
(* The inductive invariant *)

AllTopologies == [n \in Names |-> Topology(n)]

(* The topology is that of all sites from the first SetUpTestCase on.      *)
TopologyInv ==
  /\ stage \in {"start", "sites", "tests", "teardown", "over", "aborted", "out_of_range"}
  /\ topology \in {<< >>, AllTopologies}
  /\ stage # "start" => topology = AllTopologies

(* Site n is as it was built, but for the chronos instances that ~Site has *)
(* already destroyed: those of the set left remain.                        *)
AsBuilt(n, nm, nr, nc, left) ==
  /\ DOMAIN site[n] = {"built", "memcached", "rogers", "chronos",
                       "clusterSettings", "chronosCluster", "chronosShared"}
  /\ site[n].built
  /\ site[n].memcached = CreateInstances(Prefix[n], nm, MEMCACHED_PORT)
  /\ site[n].rogers    = CreateInstances(Prefix[n], nr, ROGERS_PORT)
  /\ site[n].chronos   = [k \in left |-> Address(Prefix[n], k, CHRONOS_PORT)]
  /\ site[n].clusterSettings = Elements(CreateInstances(Prefix[n], nm, MEMCACHED_PORT))
  /\ site[n].chronosCluster  = Elements(CreateInstances(Prefix[n], nc, CHRONOS_PORT))
  /\ site[n].chronosShared   = SharedConf(n, AllTopologies)

SiteInv ==
  /\ site = [n \in Names |-> site[n]]
  /\ \A n \in Names :
       \/ site[n] \in {NoSite, Lost}
       \/ \E nm, nr, nc \in 0..MaxCount : \E left \in SUBSET (1..nc) :
            /\ AsBuilt(n, nm, nr, nc, left)
            /\ stage \in {"sites", "tests"} => left = 1..nc
  /\ stage = "start" => \A n \in Names : site[n] = NoSite

(* dnsmasq serves the addresses of every site while tests run.             *)
DnsInv ==
  /\ dns.built \in BOOLEAN
  /\ stage \in {"start", "sites"} => ~dns.built
  /\ stage = "tests" =>
       \A n \in Names :
         /\ site[n].built
         /\ dns.records[<<"rogers", n>>]  = Ips(site[n].rogers)
         /\ dns.records[<<"chronos", n>>] = Ips(site[n].chronos)

(* Every file is under tmp, or is the configuration of a dnsmasq instance  *)
(* that has not been destroyed; and that exists until it is destroyed.     *)
FileInv ==
  /\ \A f \in files : Under(TmpDir, f) \/ (f = DnsmasqCfg /\ (dns.built \/ dns = Lost))
  /\ dns.built \/ dns = Lost => stage = "aborted" \/ DnsmasqCfg \in files
  /\ stage = "start" => files = {}
  /\ stage = "over"  => ~dns.built /\ \A f \in files : ~Under(TmpDir, f)

HeldInv == held \subseteq Names \cup {"dnsmasq"}

IInv == TopologyInv /\ SiteInv /\ DnsInv /\ FileInv /\ HeldInv /\ ConfigsExist

LEMMA InitIInv == Init => IInv
<1> SUFFICES ASSUME Init PROVE IInv
  OBVIOUS
<1> USE DEF Init, NoSite, NoDns, Lost
<1>1. TopologyInv /\ DnsInv /\ FileInv /\ HeldInv /\ ConfigsExist
  BY DEF TopologyInv, DnsInv, FileInv, HeldInv, ConfigsExist, Built
<1>2. SiteInv
  BY DEF SiteInv
<1> QED
  BY <1>1, <1>2 DEF IInv

(* What the constructor makes of the topology of all sites.                *)
LEMMA NewSiteAsBuilt ==
  ASSUME NEW n \in Names, NEW nm \in 0..MaxCount, NEW nr \in 0..MaxCount, NEW nc \in 0..MaxCount,
         site'[n] = NewSite(n, AllTopologies, nm, nr, nc)
  PROVE  AsBuilt(n, nm, nr, nc, 1..nc)'
<1>1. AllTopologies[n].prefix = Prefix[n]
  BY DEF AllTopologies, Topology
<1>2. AllTopologies' = AllTopologies
  BY DEF AllTopologies
<1>3. CreateInstances(Prefix[n], nc, CHRONOS_PORT)
       = [k \in 1..nc |-> Address(Prefix[n], k, CHRONOS_PORT)]
  BY DEF CreateInstances
<1> QED
  BY <1>1, <1>2, <1>3 DEF NewSite, AsBuilt

(* A site that is not touched stays as it was built.                       *)
LEMMA StillAsBuilt ==
  ASSUME NEW n \in Names, site'[n] = site[n], NEW nm, NEW nr, NEW nc, NEW left,
         AsBuilt(n, nm, nr, nc, left)
  PROVE  AsBuilt(n, nm, nr, nc, left)'
<1>1. AllTopologies' = AllTopologies
  BY DEF AllTopologies
<1> QED
  BY <1>1 DEF AsBuilt

LEMMA SiteInvUnchanged ==
  ASSUME SiteInv, UNCHANGED site, stage' = "start" => stage = "start",
         stage' \in {"sites", "tests"} => stage \in {"sites", "tests"}
  PROVE  SiteInv'
  BY StillAsBuilt DEF SiteInv

LEMMA SetUpStep ==
  ASSUME IInv, SetUpTestCase
  PROVE  IInv'
<1> USE DEF IInv, SetUpTestCase
<1>1. topology' = AllTopologies
  BY DEF TopologyInv, AllTopologies
<1>2. TopologyInv' /\ DnsInv'
  BY <1>1 DEF TopologyInv, DnsInv, AllTopologies
<1>3. SiteInv' /\ HeldInv' /\ ConfigsExist'
  BY DEF SiteInv, HeldInv, ConfigsExist, Built, NoSite
<1>4. FileInv'
  <2>1. Under(TmpDir, TmpDir)
    BY DEF Under, TmpDir
  <2> QED
    BY <2>1 DEF FileInv
<1> QED
  BY <1>2, <1>3, <1>4

LEMMA BuildStep ==
  ASSUME IInv, NEW n \in Names, NEW tplg \in TopologiesGiven,
         NEW nm \in 0..MaxCount, NEW nr \in 0..MaxCount, NEW nc \in 0..MaxCount,
         BuildSite(n, tplg, nm, nr, nc)
  PROVE  IInv'
<1> USE DEF IInv, BuildSite
<1>1. tplg = AllTopologies
  BY DEF TopologiesGiven, TopologyInv
<1>2. /\ site' = [site EXCEPT ![n] = NewSite(n, AllTopologies, nm, nr, nc)]
      /\ AsBuilt(n, nm, nr, nc, 1..nc)'
      /\ stage = "sites" /\ UNCHANGED <<topology, dns, stage, held>>
      /\ files' = files \cup SharedFiles(n) \cup UNION {InstanceFiles(n, k) : k \in 1..nc}
  <2>1. site' = [site EXCEPT ![n] = NewSite(n, AllTopologies, nm, nr, nc)]
    BY <1>1
  <2>2. site'[n] = NewSite(n, AllTopologies, nm, nr, nc)
    BY <2>1 DEF SiteInv
  <2> QED
    BY <1>1, <2>1, <2>2, NewSiteAsBuilt
<1>3. TopologyInv' /\ DnsInv' /\ HeldInv'
  BY <1>2 DEF TopologyInv, DnsInv, HeldInv, AllTopologies
<1>4. SiteInv'
  <2>1. site' = [m \in Names |-> site'[m]]
    BY <1>2 DEF SiteInv
  <2>2. \A m \in Names \ {n} : site'[m] = site[m]
    BY <1>2 DEF SiteInv
  <2>3. 1..nc \in SUBSET (1..nc)
    OBVIOUS
  <2> QED
    BY <1>2, <2>1, <2>2, <2>3, StillAsBuilt DEF SiteInv
<1>5. FileInv'
  <2>1. \A f \in files' \ files : Under(TmpDir, f)
    BY <1>2, SharedPaths, InstancePaths, UnderDirs
  <2> QED
    BY <1>2, <2>1 DEF FileInv
<1>6. ConfigsExist'
  <2> SUFFICES ASSUME NEW m \in Names, site'[m].built
               PROVE  /\ SharedFiles(m) \subseteq files'
                      /\ \A k \in DOMAIN site'[m].chronos : InstanceFiles(m, k) \subseteq files'
    BY DEF ConfigsExist, Built
  <2>1. CASE m = n
    <3>1. DOMAIN site'[n].chronos = 1..nc
      BY <1>2 DEF AsBuilt
    <3> QED
      BY <1>2, <2>1, <3>1
  <2>2. CASE m # n
    <3>1. site'[m] = site[m] /\ files \subseteq files'
      BY <1>2, <2>2 DEF SiteInv
    <3> QED
      BY <3>1 DEF ConfigsExist, Built
  <2> QED
    BY <2>1, <2>2
<1> QED
  BY <1>3, <1>4, <1>5, <1>6

(* One assignment to a domain is what its host record holds.               *)
LEMMA AssignedOnce ==
  ASSUME NEW domain, NEW ips, Assigned(domain) = {ips}
  PROVE  HostRecord(domain) = ips
  BY DEF HostRecord

(* When every site is built with all its instances, the host records are   *)
(* those of their addresses.                                               *)
LEMMA CreateDnsStep ==
  ASSUME IInv, CreateDns
  PROVE  IInv'
<1> USE DEF IInv, CreateDns
<1>1. /\ topology = AllTopologies
      /\ \A n \in Names : topology[n].rogers = <<"rogers", n>> /\ topology[n].chronos = <<"chronos", n>>
  BY DEF TopologyInv, AllTopologies, Topology
<1>2. TopologyInv' /\ SiteInv'
  BY SiteInvUnchanged DEF TopologyInv, AllTopologies
<1>3. dns'.built
  OBVIOUS
<1>4. ASSUME NEW n \in Names
      PROVE  /\ dns'.records[<<"rogers", n>>]  = Ips(site[n].rogers)
             /\ dns'.records[<<"chronos", n>>] = Ips(site[n].chronos)
  <2>1. /\ {m \in Names : topology[m].rogers = <<"rogers", n>>} = {n}
        /\ {m \in Names : topology[m].chronos = <<"rogers", n>>} = {}
        /\ {m \in Names : topology[m].chronos = <<"chronos", n>>} = {n}
        /\ {m \in Names : topology[m].rogers = <<"chronos", n>>} = {}
    BY <1>1
  <2>2. HostRecord(<<"rogers", n>>) = Ips(site[n].rogers)
    <3>1. Assigned(<<"rogers", n>>) = {Ips(site[n].rogers)}
      BY <2>1 DEF Assigned
    <3> QED
      BY <3>1, AssignedOnce
  <2>3. HostRecord(<<"chronos", n>>) = Ips(site[n].chronos)
    <3>1. Assigned(<<"chronos", n>>) = {Ips(site[n].chronos)}
      BY <2>1 DEF Assigned
    <3> QED
      BY <3>1, AssignedOnce
  <2>4. \A d \in {<<"rogers", n>>, <<"chronos", n>>} : dns'.records[d] = HostRecord(d)
    BY <1>1
  <2> QED
    BY <2>2, <2>3, <2>4
<1>5. DnsInv'
  BY <1>3, <1>4 DEF DnsInv
<1>6. FileInv' /\ HeldInv' /\ ConfigsExist'
  BY <1>3 DEF FileInv, HeldInv, ConfigsExist, Built
<1> QED
  BY <1>2, <1>5, <1>6

(* A step that changes held alone, and one that adds files under tmp.      *)
LEMMA HoldStep ==
  ASSUME IInv, NEW x \in Names \cup {"dnsmasq"}, Hold(x) \/ Release(x)
  PROVE  IInv'
<1>1. UNCHANGED <<topology, site, dns, files, stage>> /\ held' \subseteq held \cup {x}
  BY DEF Hold, Release
<1> QED
  BY <1>1, SiteInvUnchanged
     DEF IInv, TopologyInv, DnsInv, FileInv, HeldInv, ConfigsExist, Built, AllTopologies

LEMMA WriteLogStep ==
  ASSUME IInv, NEW n, NEW k, WriteLog(n, k)
  PROVE  IInv'
<1> USE DEF IInv, WriteLog
<1>1. TopologyInv' /\ SiteInv' /\ DnsInv' /\ HeldInv' /\ ConfigsExist'
  BY SiteInvUnchanged DEF TopologyInv, DnsInv, HeldInv, ConfigsExist, Built, AllTopologies
<1>2. stage # "start" /\ stage # "over"
  BY LogPaths DEF FileInv
<1>3. FileInv'
  BY <1>2, LogPaths DEF FileInv
<1> QED
  BY <1>1, <1>3

(* What is not held is lost, and the rest is as it was.                    *)
LEMMA TearDownStep ==
  ASSUME IInv, TearDownTestCase
  PROVE  IInv'
<1> USE DEF IInv, TearDownTestCase
<1>1. site' = [n \in Names |-> site'[n]]
      /\ \A n \in Names : site'[n] = site[n] \/ site'[n] = Lost
  OBVIOUS
<1>2. TopologyInv' /\ HeldInv'
  BY DEF TopologyInv, HeldInv, AllTopologies
<1>3. DnsInv' /\ FileInv'
  BY DEF DnsInv, FileInv, Lost
<1>4. SiteInv'
  BY <1>1, StillAsBuilt DEF SiteInv
<1>5. ConfigsExist'
  BY <1>1 DEF ConfigsExist, Built, Lost
<1> QED
  BY <1>2, <1>3, <1>4, <1>5

LEMMA ResetDnsStep ==
  ASSUME IInv, ResetDns
  PROVE  IInv'
<1> USE DEF IInv, ResetDns, DestroysDns
<1>1. TopologyInv' /\ SiteInv' /\ DnsInv' /\ FileInv' /\ HeldInv'
  BY SiteInvUnchanged DEF TopologyInv, DnsInv, FileInv, HeldInv, AllTopologies, NoDns, Lost
<1>2. ConfigsExist'
  <2>1. \A n : DnsmasqCfg \notin SharedFiles(n) /\ \A k : DnsmasqCfg \notin InstanceFiles(n, k)
    BY SharedPaths, InstancePaths, UnderDirs, DnsmasqCfgNotUnder
  <2> QED
    BY <2>1 DEF ConfigsExist, Built
<1> QED
  BY <1>1, <1>2

(* Destroying something of site n leaves the other sites as they are.      *)
LEMMA ResetChronosStep ==
  ASSUME IInv, NEW n \in Names, NEW k, ResetChronos(n, k)
  PROVE  IInv'
<1> USE DEF IInv, ResetChronos, Destroys
<1>0. PICK nm \in 0..MaxCount, nr \in 0..MaxCount, nc \in 0..MaxCount :
        \E left \in SUBSET (1..nc) : AsBuilt(n, nm, nr, nc, left)
  BY DEF SiteInv, NoSite, Lost
<1>1. PICK left \in SUBSET (1..nc) : AsBuilt(n, nm, nr, nc, left)
  BY <1>0
<1>2. AsBuilt(n, nm, nr, nc, left \ {k})'
  <2>1. site'[n] = [site[n] EXCEPT !.chronos = [j \in DOMAIN @ \ {k} |-> @[j]]]
    BY DEF SiteInv
  <2>2. site'[n].chronos = [j \in left \ {k} |-> Address(Prefix[n], j, CHRONOS_PORT)]
    BY <1>1, <2>1 DEF AsBuilt
  <2>3. AllTopologies' = AllTopologies
    BY DEF AllTopologies
  <2> QED
    BY <1>1, <2>1, <2>2, <2>3 DEF AsBuilt
<1>3. site' = [m \in Names |-> site'[m]] /\ \A m \in Names \ {n} : site'[m] = site[m]
  BY DEF SiteInv
<1>4. TopologyInv' /\ DnsInv' /\ FileInv' /\ HeldInv'
  <2>1. TopologyInv' /\ DnsInv' /\ HeldInv'
    BY DEF TopologyInv, DnsInv, HeldInv, AllTopologies
  <2>2. FileInv'
    BY DnsmasqCfgNotUnder DEF FileInv, RemoveAll
  <2> QED
    BY <2>1, <2>2
<1>5. SiteInv'
  <2>1. left \ {k} \in SUBSET (1..nc) /\ stage' = "teardown"
    OBVIOUS
  <2>2. \E nm2, nr2, nc2 \in 0..MaxCount : \E left2 \in SUBSET (1..nc2) :
          AsBuilt(n, nm2, nr2, nc2, left2)'
    BY <1>2, <2>1
  <2>3. \A m \in Names \ {n} : site'[m] \in {NoSite, Lost}
          \/ \E nm2, nr2, nc2 \in 0..MaxCount : \E left2 \in SUBSET (1..nc2) :
               AsBuilt(m, nm2, nr2, nc2, left2)'
    BY <1>3, StillAsBuilt DEF SiteInv
  <2> QED
    BY <1>3, <2>1, <2>2, <2>3 DEF SiteInv
<1>6. ConfigsExist'
  <2>1. \A m, j : /\ \A f \in SharedFiles(m) : ~Under(InstanceDir(n, k), f)
                  /\ m # n \/ j # k => \A f \in InstanceFiles(m, j) : ~Under(InstanceDir(n, k), f)
    BY SharedPaths, InstancePaths, UnderDirs
  <2>2. DOMAIN site'[n].chronos = DOMAIN site[n].chronos \ {k}
    BY <1>1, <1>2 DEF AsBuilt
  <2>3. site[n].built
    OBVIOUS
  <2> QED
    BY <1>3, <2>1, <2>2, <2>3 DEF ConfigsExist, Built, RemoveAll
<1> QED
  BY <1>4, <1>5, <1>6

LEMMA ResetSiteStep ==
  ASSUME IInv, NEW n \in Names, ResetSite(n)
  PROVE  IInv'
<1> USE DEF IInv, ResetSite, Destroys
<1>1. site' = [m \in Names |-> site'[m]] /\ site'[n] = NoSite
      /\ \A m \in Names \ {n} : site'[m] = site[m]
  BY DEF SiteInv
<1>2. TopologyInv' /\ DnsInv' /\ FileInv' /\ HeldInv'
  BY DnsmasqCfgNotUnder DEF TopologyInv, DnsInv, FileInv, HeldInv, AllTopologies, RemoveAll
<1>3. SiteInv'
  BY <1>1, StillAsBuilt DEF SiteInv
<1>4. ConfigsExist'
  <2>1. \A m \in Names \ {n} :
           /\ \A f \in SharedFiles(m) : ~Under(SiteDir(n), f)
           /\ \A k : \A f \in InstanceFiles(m, k) : ~Under(SiteDir(n), f)
    <3>1. \A f : Under(SiteDir(n), f) => f[2] = n
      BY UnderDirs
    <3>2. \A m \in Names \ {n} : \A f \in SharedFiles(m) : f[2] # n
      BY SharedPaths
    <3>3. \A m \in Names \ {n} : \A k : \A f \in InstanceFiles(m, k) : f[2] # n
      BY InstancePaths
    <3> QED
      BY <3>1, <3>2, <3>3
  <2> QED
    BY <1>1, <2>1 DEF ConfigsExist, Built, RemoveAll, NoSite
<1> QED
  BY <1>2, <1>3, <1>4

LEMMA RemoveTmpStep ==
  ASSUME IInv, RemoveTmp
  PROVE  IInv'
<1> USE DEF IInv, RemoveTmp
<1>1. /\ \A f \in files' : ~Under(TmpDir, f) /\ f \in files
      /\ DnsmasqCfg \in files => DnsmasqCfg \in files'
  BY DnsmasqCfgNotUnder DEF RemoveAll
<1>2. \A n \in Names : site[n] \in {NoSite, Lost}
  BY DEF SiteInv, AsBuilt
<1>3. TopologyInv' /\ SiteInv' /\ HeldInv'
  BY <1>2 DEF TopologyInv, SiteInv, HeldInv, AllTopologies
<1>4. DnsInv' /\ FileInv'
  BY <1>1 DEF DnsInv, FileInv, TopologyInv
<1>5. ConfigsExist'
  BY DEF ConfigsExist, Built
<1> QED
  BY <1>3, <1>4, <1>5

(* A remove_all that fails leaves at most what there was.                  *)
LEMMA RemoveFailsStep ==
  ASSUME IInv, NEW n, NEW k, ResetChronosFails(n, k) \/ RemoveTmpFails(n, k)
  PROVE  IInv'
<1> USE DEF IInv
<1>1. stage' = "aborted" /\ files' \subseteq files /\ UNCHANGED <<topology, site, dns, held>>
      /\ stage = "teardown"
  BY DEF ResetChronosFails, RemoveTmpFails, RemoveFails, RemoveAll, Destroys
<1>2. TopologyInv' /\ SiteInv' /\ HeldInv'
  BY <1>1, SiteInvUnchanged DEF TopologyInv, HeldInv, AllTopologies
<1>3. DnsInv' /\ FileInv' /\ ConfigsExist'
  BY <1>1 DEF DnsInv, FileInv, ConfigsExist
<1> QED
  BY <1>2, <1>3

LEMMA IInvStep ==
  ASSUME IInv, [Next]_vars
  PROVE  IInv'
<1>1. CASE UNCHANGED vars
  BY <1>1, SiteInvUnchanged
     DEF IInv, TopologyInv, DnsInv, FileInv, HeldInv, ConfigsExist, Built, AllTopologies, vars
<1>2. ASSUME NEW n \in Names, NEW tplg \in TopologiesGiven, TopologyMissing(n, tplg)
      PROVE  IInv'
  BY <1>2, SiteInvUnchanged
     DEF TopologyMissing, IInv, TopologyInv, DnsInv, FileInv, HeldInv, ConfigsExist, Built,
         AllTopologies
<1> QED
  BY <1>1, <1>2, SetUpStep, BuildStep, CreateDnsStep, HoldStep, WriteLogStep, TearDownStep,
     ResetDnsStep, ResetChronosStep, ResetSiteStep, RemoveTmpStep, RemoveFailsStep DEF Next

LEMMA Inductive == Spec => []IInv
  BY InitIInv, IInvStep, PTL DEF Spec

-----------------------------------------------------------------------------
(* Theorems *)

(* The type invariant, for any number of sites and instances.              *)
THEOREM TypeCorrect == Spec => []TypeOK
<1>1. IInv => TypeOK
  <2> SUFFICES ASSUME IInv PROVE TypeOK
    OBVIOUS
  <2>1. DOMAIN topology \subseteq Names
    BY DEF IInv, TopologyInv, AllTopologies
  <2>2. ASSUME NEW n \in Built, NEW kind \in Kinds
        PROVE  DOMAIN site[n][kind] \subseteq 1..MaxCount
    <3>1. PICK nm \in 0..MaxCount, nr \in 0..MaxCount, nc \in 0..MaxCount :
            \E left \in SUBSET (1..nc) : AsBuilt(n, nm, nr, nc, left)
      BY DEF IInv, SiteInv, Built, NoSite, Lost
    <3>2. PICK left \in SUBSET (1..nc) : AsBuilt(n, nm, nr, nc, left)
      BY <3>1
    <3>3. 1..nm \subseteq 1..MaxCount /\ 1..nr \subseteq 1..MaxCount /\ left \subseteq 1..MaxCount
      BY SiteAssumption
    <3> QED
      BY <3>2, <3>3 DEF AsBuilt, CreateInstances, Kinds
  <2>3. DOMAIN site = Names /\ dns.built \in BOOLEAN
        /\ stage \in {"start", "sites", "tests", "teardown", "over", "aborted", "out_of_range"}
        /\ held \subseteq Names \cup {"dnsmasq"}
    BY DEF IInv, SiteInv, TopologyInv, DnsInv, HeldInv
  <2> QED
    BY <2>1, <2>2, <2>3 DEF TypeOK
<1> QED
  BY <1>1, Inductive, PTL

(* The address of an instance tells its site, its kind and its index.      *)
Port(kind) ==
  CASE kind = "memcached" -> MEMCACHED_PORT
    [] kind = "rogers"    -> ROGERS_PORT
    [] kind = "chronos"   -> CHRONOS_PORT

LEMMA InstanceAddress ==
  ASSUME IInv, NEW n \in Built, NEW kind \in Kinds, NEW k \in DOMAIN site[n][kind]
  PROVE  site[n][kind][k] = Address(Prefix[n], k, Port(kind))
<1>1. PICK nm \in 0..MaxCount, nr \in 0..MaxCount, nc \in 0..MaxCount :
        \E left \in SUBSET (1..nc) : AsBuilt(n, nm, nr, nc, left)
  BY DEF IInv, SiteInv, Built, NoSite, Lost
<1>2. PICK left \in SUBSET (1..nc) : AsBuilt(n, nm, nr, nc, left)
  BY <1>1
<1>3. CASE kind = "memcached"
  BY <1>2, <1>3 DEF AsBuilt, CreateInstances, Port
<1>4. CASE kind = "rogers"
  BY <1>2, <1>4 DEF AsBuilt, CreateInstances, Port
<1>5. CASE kind = "chronos"
  BY <1>2, <1>5 DEF AsBuilt, Port
<1> QED
  BY <1>3, <1>4, <1>5 DEF Kinds

LEMMA AddressesTell ==
  ASSUME NEW p, NEW i, NEW q, NEW pp, NEW ii, NEW qq,
         Address(p, i, q) = Address(pp, ii, qq)
  PROVE  p = pp /\ i = ii /\ q = qq
  BY DEF Address

LEMMA PortsTell ==
  ASSUME NEW j \in Kinds, NEW k \in Kinds, Port(j) = Port(k)
  PROVE  j = k
  BY DEF Kinds, Port, MEMCACHED_PORT, ROGERS_PORT, CHRONOS_PORT

(* No two instances of a deployment have the same address.                 *)
THEOREM NoAddressClash == Spec => []AddressesDiffer
<1>1. IInv => AddressesDiffer
  <2> SUFFICES ASSUME IInv,
                      NEW m \in Built, NEW mkind \in Kinds, NEW j \in DOMAIN site[m][mkind],
                      NEW n \in Built, NEW nkind \in Kinds, NEW k \in DOMAIN site[n][nkind],
                      site[m][mkind][j] = site[n][nkind][k]
               PROVE  m = n /\ mkind = nkind /\ j = k
    BY DEF AddressesDiffer, AllInstances
  <2>1. Address(Prefix[m], j, Port(mkind)) = Address(Prefix[n], k, Port(nkind))
    BY InstanceAddress, ZenonT(60)
  <2>2. Prefix[m] = Prefix[n] /\ j = k /\ Port(mkind) = Port(nkind)
    BY <2>1, AddressesTell
  <2>3. m \in Names /\ n \in Names
    BY DEF Built
  <2> QED
    BY <2>2, <2>3, PortsTell, SiteAssumption
<1> QED
  BY <1>1, Inductive, PTL

(* While tests run every site is built, with the chronos cluster and the   *)
(* cluster settings of all its instances.                                  *)
LEMMA BuiltInTests ==
  ASSUME IInv, stage = "tests", NEW n \in Names
  PROVE  /\ site[n].clusterSettings = Elements(site[n].memcached)
         /\ site[n].chronosCluster = Elements(site[n].chronos)
         /\ site[n].chronosShared = SharedConf(n, AllTopologies)
<1>1. site[n].built
  BY DEF IInv, DnsInv
<1>2. PICK nm \in 0..MaxCount, nr \in 0..MaxCount, nc \in 0..MaxCount :
        \E left \in SUBSET (1..nc) : AsBuilt(n, nm, nr, nc, left) /\ left = 1..nc
  BY <1>1 DEF IInv, SiteInv, NoSite, Lost
<1>3. AsBuilt(n, nm, nr, nc, 1..nc)
  BY <1>2
<1> QED
  BY <1>3 DEF AsBuilt, CreateInstances

(* Every chronos finds its cluster and those of the other sites.           *)
THEOREM OthersFound == Spec => []ChronosFindsOthers
<1>1. IInv => ChronosFindsOthers
  <2> SUFFICES ASSUME IInv, stage = "tests", NEW n \in Names
               PROVE  /\ site[n].chronosShared.local = {n}
                      /\ {r[1] : r \in site[n].chronosShared.remote} = Names \ {n}
                      /\ \A r \in site[n].chronosShared.remote :
                           dns.records[r[2]] =
                             {<<a.prefix, a.index>> : a \in site[r[1]].chronosCluster}
    BY DEF ChronosFindsOthers
  <2>1. site[n].chronosShared.local = {m \in Names : m = n}
        /\ site[n].chronosShared.remote = {<<m, <<"chronos", m>>>> : m \in Names \ {n}}
    <3>1. SharedConf(n, AllTopologies).local = {m \in Names : m = n}
      BY DEF SharedConf, AllTopologies
    <3>2. \A m \in Names : AllTopologies[m].chronos = <<"chronos", m>>
      BY DEF AllTopologies, Topology
    <3>3. SharedConf(n, AllTopologies).remote
            = {<<m, AllTopologies[m].chronos>> : m \in Names \ {n}}
      BY DEF SharedConf, AllTopologies
    <3> QED
      BY <3>1, <3>2, <3>3, BuiltInTests
  <2>2. ASSUME NEW m \in Names
        PROVE  dns.records[<<"chronos", m>>] =
                 {<<a.prefix, a.index>> : a \in site[m].chronosCluster}
    BY BuiltInTests DEF IInv, DnsInv, Ips
  <2>3. site[n].chronosShared.local = {n}
    BY <2>1
  <2>4. {r[1] : r \in site[n].chronosShared.remote} = Names \ {n}
    <3>1. \A r \in site[n].chronosShared.remote : r[1] \in Names \ {n}
      BY <2>1
    <3>2. ASSUME NEW m \in Names \ {n}
          PROVE  \E r \in site[n].chronosShared.remote : r[1] = m
      <4>1. <<m, <<"chronos", m>>>> \in site[n].chronosShared.remote
        BY <2>1
      <4>2. <<m, <<"chronos", m>>>>[1] = m
        OBVIOUS
      <4> QED
        BY <4>1, <4>2
    <3> QED
      BY <3>1, <3>2
  <2>5. ASSUME NEW r \in site[n].chronosShared.remote
        PROVE  dns.records[r[2]] = {<<a.prefix, a.index>> : a \in site[r[1]].chronosCluster}
    BY <2>1, <2>2
  <2> QED
    BY <2>3, <2>4, <2>5
<1> QED
  BY <1>1, Inductive, PTL

(* Every S4 store finds the rogers of its site, and they its memcacheds.   *)
THEOREM SitesReached == Spec => []StoresReachTheirSite
<1>1. IInv => StoresReachTheirSite
  <2> SUFFICES ASSUME IInv, stage = "tests", NEW n \in Names
               PROVE  /\ dns.records[topology[n].rogers] = Ips(site[n].rogers)
                      /\ site[n].clusterSettings = Elements(site[n].memcached)
    BY DEF StoresReachTheirSite
  <2>1. topology[n].rogers = <<"rogers", n>>
    BY DEF IInv, TopologyInv, AllTopologies, Topology
  <2> QED
    BY <2>1, BuiltInTests DEF IInv, DnsInv
<1> QED
  BY <1>1, Inductive, PTL

(* The files of a site and its chronos instances exist as long as it does  *)
(* (~Site, ~ChronosInstance), unless a remove_all aborted the program.     *)
THEOREM FilesStay == Spec => []ConfigsExist
<1>1. IInv => ConfigsExist
  BY DEF IInv
<1> QED
  BY <1>1, Inductive, PTL

(* Wherever TearDownTestCase began, and began again, once it has got to its*)
(* end the only file left is dnsmasq.cfg, and that exactly when the dnsmasq*)
(* instance had no pointer or was being destroyed.                         *)
THEOREM NoFileLeft == Spec => []NothingLeft
<1>1. IInv => NothingLeft
  BY DEF IInv, FileInv, NothingLeft
<1> QED
  BY <1>1, Inductive, PTL
=============================================================================
