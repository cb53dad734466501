-------------------------- MODULE MemcachedStoreTests --------------------------
(***************************************************************************)
(* What the functional tests of the memcached solution do with the data in *)
(* the store (test_memcachedsolution.cpp): each test sets, gets and        *)
(* deletes records and expects a status and a value, around a failure that *)
(* its scenario triggers and fixes.                                        *)
(*                                                                         *)
(* The store is external: it is modelled as the tests use it.  A key has a *)
(* primary and a backup memcached.  A SET is decided, and made, at one     *)
(* server and copied to the other while the test goes on; each server      *)
(* gives a record a CAS value of its own.  A DELETE is made at both at     *)
(* once.  A pause is long enough for the copies to arrive, as the comments *)
(* at lines 467 and 881 say, and two seconds for a record of one second to *)
(* expire.                                                                 *)
(***************************************************************************)
EXTENDS Naturals, Sequences

CONSTANTS
  Tests,    (* the tests that may be run                                   *)
  Rounds,   (* rounds of the test with a loop, ten in the code             *)
  Stores    (* how the store may treat a SET that it refuses               *)

SimpleTests ==
  {"AddGet", "AddGetTwoKeys", "AddGetExpire", "AddSetSetDataContentionSet",
   "AddSetCASDeleteDataContentionCASDelete", "AddAddDataContention", "AddDelete", "Delete",
   "AddDeleteAdd", "AddDeleteSetDataContention", "ConnectUsingIpAddress", "BadDomainName",
   "DomainAndPort"}
FailureTests ==
  {"KillAddGet", "AddKillGet", "AddKillGetExpire", "AddKillSetSetDataContentionSet",
   "AddDeleteKill", "AddKillCASDelete"}
LargerClustersTests == {"Larger.AddGet", "Larger.AddKillGet", "Larger.AddKillGetSet"}

(* A "contention_stored" store reports contention but stores all the same. *)
ASSUME StoreAssumption ==
  /\ Tests \subseteq SimpleTests \cup FailureTests \cup LargerClustersTests
  /\ Rounds \in Nat \ {0}
  /\ Stores \subseteq {"correct", "contention_stored"}

Keys == 1..(IF Rounds > 2 THEN Rounds ELSE 2)

(* The scenarios of a test, and the memcached servers of its site.         *)
ScenariosOf(t) ==
  CASE t \in SimpleTests         -> {"NoFailures"}
    [] t \in FailureTests        -> {"MemcachedFails", "MemcachedRestarts",
                                     "RogersFails", "RogersRestarts"}
    [] t \in LargerClustersTests -> {"MemcachedFails", "MemcachedRestarts"}
ServersOf(t) == 1..(IF t \in LargerClustersTests THEN 3 ELSE 2)

VARIABLES
  test, scenario, store,  (* which of each                                 *)
  place,      (* the primary and the backup memcached of each key          *)
  todo,       (* the steps the test has left                               *)
  host,       (* what _store connects to                                   *)
  up,         (* the memcached servers that run                            *)
  item,       (* the record of a key at a server, or None                  *)
  lastCas,    (* CAS values given so far                                   *)
  inFlight,   (* copies on their way to a server                           *)
  cas,        (* the test's CAS value for each key                         *)
  failed,     (* an EXPECT has failed                                      *)
  contended,  (* a SET has been refused                                    *)
  overtaken   (* a failure was triggered while a copy was on its way       *)

choice == <<test, scenario, store, place>>
ghosts == <<contended, overtaken>>
vars   == <<choice, todo, host, up, item, lastCas, inFlight, cas, failed, ghosts>>

None == [data |-> "none"]

-----------------------------------------------------------------------------
(* The steps of a test *)

SetAs(k, data, ttl, from, rcs, retry) ==
  <<[op |-> "set", key |-> k, data |-> data, ttl |-> ttl, from |-> from, rcs |-> rcs,
     retry |-> retry]>>

(* rc = set_data(data, cas); EXPECT_EQ(rc, ...)                            *)
Set(k, data)       == SetAs(k, data, "long", "cas", {"OK"}, << >>)
SetShort(k, data)  == SetAs(k, data, "short", "cas", {"OK"}, << >>)
SetGone(k)         == SetAs(k, "DELETE", "zero", "cas", {"OK"}, << >>)
Refused(k, data)   == SetAs(k, data, "long", "cas", {"DATA_CONTENTION"}, << >>)
RefusedGone(k, data) == SetAs(k, data, "zero", "cas", {"DATA_CONTENTION"}, << >>)
RefusedNewCas(k, data) == SetAs(k, data, "long", "zero", {"DATA_CONTENTION"}, << >>)
SetErrors(k, data) == SetAs(k, data, "long", "cas", {"ERROR"}, << >>)

(* The SET that may be refused, and what the test does if it is.           *)
SetEither(k, data, retry) ==
  SetAs(k, data, "long", "cas", {"OK", "DATA_CONTENTION"}, retry)

GetAs(k, rc, values) == <<[op |-> "get", key |-> k, rc |-> rc, values |-> values]>>
Data == {"in", "in_new1", "in_new2", "DELETE", "FAIL"}

Get(k, data)      == GetAs(k, "OK", {data})
GetOther(k, data) == GetAs(k, "OK", Data \ {data})
NotFound(k)       == GetAs(k, "NOT_FOUND", {})
GetErrors(k)      == GetAs(k, "ERROR", {})

DeleteKey(k)    == <<[op |-> "delete", key |-> k, rc |-> "OK"]>>
DeleteErrors(k) == <<[op |-> "delete", key |-> k, rc |-> "ERROR"]>>
Connect(h)      == <<[op |-> "connect", host |-> h]>>
Pause           == <<[op |-> "usleep"]>>
Sleep2          == <<[op |-> "sleep"]>>
Trigger         == <<[op |-> "trigger"]>>
Fix             == <<[op |-> "fix"]>>

-----------------------------------------------------------------------------
(* The tests *)

AddGet        == Set(1, "in") \o Get(1, "in")
AddGetTwoKeys == Set(1, "in") \o Set(2, "in_new1") \o Get(1, "in") \o Get(2, "in_new1")
AddGetExpire  == SetShort(1, "in") \o Get(1, "in") \o Sleep2 \o NotFound(1)

(* The SET that is to be refused carries data_in and not failed_data_in.   *)
AddSetSetDataContentionSet ==
  AddGet \o Set(1, "in_new1") \o Refused(1, "in_new1") \o Get(1, "in_new1")
    \o Set(1, "in_new2") \o Get(1, "in_new2")

AddSetCASDeleteDataContentionCASDelete ==
  AddGet \o Set(1, "in_new1") \o RefusedGone(1, "in_new1") \o Get(1, "in_new1")
    \o SetGone(1) \o Pause \o NotFound(1)

(* Mutant: the second ADD carries the data of the first.                   *)
AddAddSameData == Set(1, "in") \o RefusedNewCas(1, "in") \o Get(1, "in")

AddAddDataContention == Set(1, "in") \o RefusedNewCas(1, "in_new1") \o Get(1, "in")

AddDelete    == AddGet \o DeleteKey(1) \o NotFound(1)
AddDeleteAdd == AddDelete \o AddGet
AddDeleteSetDataContention == AddGet \o DeleteKey(1) \o Refused(1, "in_new1")

(* The body that ConnectUsingIpAddress and DomainAndPort share.            *)
UseStore == AddGet \o Set(1, "in_new1") \o Get(1, "in_new1") \o DeleteKey(1) \o NotFound(1)

ConnectUsingIpAddress == Connect("ip") \o UseStore
DomainAndPort         == Connect("rogers.local:11311") \o UseStore
BadDomainName ==
  Connect("bad.domain.name") \o SetErrors(1, "in") \o GetErrors(1) \o DeleteErrors(1)

KillAddGet       == Trigger \o AddGet \o Fix
AddKillGet       == Set(1, "in") \o Trigger \o Get(1, "in") \o Fix
AddKillGetExpire == SetShort(1, "in") \o Trigger \o Sleep2 \o NotFound(1) \o Fix
AddDeleteKill    == AddGet \o DeleteKey(1) \o Trigger \o NotFound(1) \o Fix

SetSetSet(k) ==
  SetEither(k, "in_new1", GetOther(k, "in_new1") \o Set(k, "in_new1"))
    \o Refused(k, "FAIL") \o Get(k, "in_new1") \o Set(k, "in_new2") \o Get(k, "in_new2")

(* Mutant: the key is read again before it is updated.                     *)
ReadAfterKill(k) ==
  Set(k, "in") \o Get(k, "in") \o Trigger \o Get(k, "in") \o SetSetSet(k) \o Fix
    \o Connect("rogers.local")

AddKillSetSetRound(k) ==
  Set(k, "in") \o Get(k, "in") \o Trigger \o SetSetSet(k) \o Fix \o Connect("rogers.local")

(* get_new_key: each round has a key of its own.                           *)
RoundLength == Len(AddKillSetSetRound(1))
AddKillSetSetDataContentionSet ==
  [n \in 1..(RoundLength * Rounds) |->
     AddKillSetSetRound(((n - 1) \div RoundLength) + 1)[((n - 1) % RoundLength) + 1]]

(* Mutant: the "delete" is given no time.                                  *)
CASDeleteNoPause ==
  Set(1, "in") \o Trigger \o Get(1, "in") \o SetGone(1) \o NotFound(1) \o Fix

AddKillCASDelete ==
  Set(1, "in") \o Trigger \o Get(1, "in") \o SetGone(1) \o Pause \o NotFound(1) \o Fix

AddKillGetSet ==
  Set(1, "in") \o Trigger \o Get(1, "in") \o Set(1, "in_new1") \o Get(1, "in_new1") \o Fix

Script(t) ==
  CASE t \in {"AddGet", "Larger.AddGet"}              -> AddGet
    [] t = "AddGetTwoKeys"                            -> AddGetTwoKeys
    [] t = "AddGetExpire"                             -> AddGetExpire
    [] t = "AddSetSetDataContentionSet"               -> AddSetSetDataContentionSet
    [] t = "AddSetCASDeleteDataContentionCASDelete"   -> AddSetCASDeleteDataContentionCASDelete
    [] t = "AddAddDataContention"                     -> AddAddDataContention
    [] t = "AddDelete"                                -> AddDelete
    [] t = "Delete"                                   -> DeleteKey(1)
    [] t = "AddDeleteAdd"                             -> AddDeleteAdd
    [] t = "AddDeleteSetDataContention"               -> AddDeleteSetDataContention
    [] t = "ConnectUsingIpAddress"                    -> ConnectUsingIpAddress
    [] t = "BadDomainName"                            -> BadDomainName
    [] t = "DomainAndPort"                            -> DomainAndPort
    [] t = "KillAddGet"                               -> KillAddGet
    [] t \in {"AddKillGet", "Larger.AddKillGet"}      -> AddKillGet
    [] t = "AddKillGetExpire"                         -> AddKillGetExpire
    [] t = "AddKillSetSetDataContentionSet"           -> AddKillSetSetDataContentionSet
    [] t = "AddDeleteKill"                            -> AddDeleteKill
    [] t = "AddKillCASDelete"                         -> AddKillCASDelete
    [] t = "Larger.AddKillGetSet"                     -> AddKillGetSet

-----------------------------------------------------------------------------
(* SetUp: the key is new, the store connects to the host name of rogers.   *)
Init ==
  /\ test \in Tests
  /\ scenario \in ScenariosOf(test)
  /\ store \in Stores
  /\ place \in [Keys -> {p \in ServersOf(test) \X ServersOf(test) : p[1] # p[2]}]
  /\ todo = Script(test)
  /\ host = "rogers.local"
  /\ up = ServersOf(test)
  /\ item = [k \in Keys |-> [s \in ServersOf(test) |-> None]]
  /\ lastCas = 0
  /\ inFlight = << >>
  /\ cas = [k \in Keys |-> 0]
  /\ failed = FALSE
  /\ contended = FALSE
  /\ overtaken = FALSE

AtStep(op) == todo # << >> /\ Head(todo).op = op
Current    == Head(todo)
Resolves   == host # "bad.domain.name"

(* The server that decides and takes a SET, the one it is copied to, and   *)
(* the one that answers a GET or holds the record a CAS value is compared  *)
(* with.                                                                   *)
Primary(k)    == place[k][1]
Backup(k)     == place[k][2]
FirstUp(k)    == IF Primary(k) \in up THEN Primary(k) ELSE Backup(k)
Second(k)     == IF Primary(k) \in up THEN Backup(k) ELSE Primary(k)
Holders(k)    == {s \in {Primary(k), Backup(k)} \cap up : item[k][s] # None}
Holder(k)     == IF Primary(k) \in Holders(k) THEN Primary(k) ELSE Backup(k)
Accepts(k, c) ==
  IF c = 0 THEN item[k][FirstUp(k)] = None
           ELSE Holders(k) # {} /\ item[k][Holder(k)].cas = c

(* Mutant: a CAS value may be given again.                                 *)
WriteNoNewCas(k, s, data, ttl) ==
  /\ item' = [item EXCEPT ![k][s] =
       IF ttl = "zero" THEN None ELSE [data |-> data, ttl |-> ttl, cas |-> lastCas + 1]]
  /\ UNCHANGED lastCas

(* A record is written with a new CAS value; a TTL of zero removes it.     *)
WriteAt(k, s, data, ttl) ==
  /\ item' = [item EXCEPT ![k][s] =
       IF ttl = "zero" THEN None ELSE [data |-> data, ttl |-> ttl, cas |-> lastCas + 1]]
  /\ lastCas' = lastCas + 1

Store(k, data, ttl) ==
  /\ WriteAt(k, FirstUp(k), data, ttl)
  /\ inFlight' = Append(inFlight, [key |-> k, to |-> Second(k), data |-> data, ttl |-> ttl])

(* set_data: add if the CAS value is zero, else compare and swap.          *)
SetStatus(k, c) ==
  CASE ~Resolves     -> "ERROR"
    [] Resolves /\ Accepts(k, c)  -> "OK"
    [] Resolves /\ ~Accepts(k, c) -> "DATA_CONTENTION"

SetData ==
  /\ AtStep("set")
  /\ LET k  == Current.key
         rc == SetStatus(k, IF Current.from = "zero" THEN 0 ELSE cas[k])
     IN /\ IF rc = "OK" \/ (rc = "DATA_CONTENTION" /\ store = "contention_stored")
             THEN Store(k, Current.data, Current.ttl) ELSE UNCHANGED <<item, lastCas, inFlight>>
        /\ failed' = (failed \/ rc \notin Current.rcs)
        /\ contended' = (contended \/ rc = "DATA_CONTENTION")
        /\ todo' = (IF rc = "DATA_CONTENTION" THEN Current.retry ELSE << >>) \o Tail(todo)
  /\ UNCHANGED <<choice, host, up, cas, overtaken>>

(* get_data: of the first server that has the record.                      *)
GetStatus(k) ==
  CASE ~Resolves -> "ERROR"
    [] Resolves /\ Holders(k) # {} -> "OK"
    [] Resolves /\ Holders(k) = {} -> "NOT_FOUND"

GetData ==
  /\ AtStep("get")
  /\ LET k  == Current.key
         rc == GetStatus(k)
     IN /\ failed' = (failed \/ rc # Current.rc
                        \/ (rc = "OK" /\ item[k][Holder(k)].data \notin Current.values))
        /\ cas' = [cas EXCEPT ![k] = CASE rc = "OK"        -> item[k][Holder(k)].cas
                                       [] rc = "NOT_FOUND" -> 0
                                       [] rc = "ERROR"     -> @]
  /\ todo' = Tail(todo)
  /\ UNCHANGED <<choice, host, up, item, lastCas, inFlight, ghosts>>

(* delete_data: at every server, after the SETs that were made before.     *)
DeleteData ==
  /\ AtStep("delete")
  /\ inFlight = << >>
  /\ item' = IF Resolves THEN [item EXCEPT ![Current.key] = [s \in DOMAIN @ |-> None]] ELSE item
  /\ failed' = (failed \/ Current.rc # (IF Resolves THEN "OK" ELSE "ERROR"))
  /\ todo' = Tail(todo)
  /\ UNCHANGED <<choice, host, up, lastCas, inFlight, cas, ghosts>>

(* delete _store; _store = new TopologyNeutralMemcachedStore(...)          *)
ConnectTo ==
  /\ AtStep("connect")
  /\ host' = Current.host
  /\ todo' = Tail(todo)
  /\ UNCHANGED <<choice, up, item, lastCas, inFlight, cas, failed, ghosts>>

(* usleep: long enough for every copy to arrive.                           *)
Wait ==
  /\ AtStep("usleep")
  /\ inFlight = << >>
  /\ todo' = Tail(todo)
  /\ UNCHANGED <<choice, host, up, item, lastCas, inFlight, cas, failed, ghosts>>

(* sleep(2): records with an expiry of one second are gone.                *)
Expire ==
  /\ AtStep("sleep")
  /\ inFlight = << >>
  /\ item' = [k \in Keys |-> [s \in ServersOf(test) |->
                IF item[k][s] # None /\ item[k][s].ttl = "short" THEN None ELSE item[k][s]]]
  /\ todo' = Tail(todo)
  /\ UNCHANGED <<choice, host, up, lastCas, inFlight, cas, failed, ghosts>>

(* get_first_memcached() is the last memcached.                            *)
Victim == CHOOSE s \in ServersOf(test) : \A r \in ServersOf(test) : r <= s

(* A copy that is on its way to nowhere is lost.                           *)
Nowhere    == 0
LoseCopies == [n \in DOMAIN inFlight |->
                 IF inFlight[n].to = Victim THEN [inFlight[n] EXCEPT !.to = Nowhere]
                                            ELSE inFlight[n]]

EmptyVictim == [k \in Keys |-> [item[k] EXCEPT ![Victim] = None]]

(* trigger_failure.  What is on its way to a memcached that restarts may   *)
(* be lost, and so may what is on its way from a rogers that is killed.    *)
TriggerFailure ==
  /\ AtStep("trigger")
  /\ overtaken' = (overtaken \/ inFlight # << >>)
  /\ todo' = Tail(todo)
  /\ \/ /\ scenario = "MemcachedFails"
        /\ up' = up \ {Victim}
        /\ item' = EmptyVictim
        /\ UNCHANGED inFlight
     \/ /\ scenario = "MemcachedRestarts"
        /\ item' = EmptyVictim
        /\ inFlight' \in {inFlight, LoseCopies}
        /\ UNCHANGED up
     \/ /\ scenario \in {"RogersFails", "RogersRestarts"}
        /\ inFlight' \in {inFlight, << >>}
        /\ UNCHANGED <<up, item>>
  /\ UNCHANGED <<choice, host, lastCas, cas, failed, contended>>

(* fix_failure starts a memcached that was killed.                         *)
FixFailure ==
  /\ AtStep("fix")
  /\ up' = ServersOf(test)
  /\ todo' = Tail(todo)
  /\ UNCHANGED <<choice, host, item, lastCas, inFlight, cas, failed, ghosts>>

(* The oldest copy arrives, or is lost if its server is down.              *)
Replicate ==
  /\ inFlight # << >>
  /\ inFlight' = Tail(inFlight)
  /\ LET w == Head(inFlight)
     IN IF w.to \in up THEN WriteAt(w.key, w.to, w.data, w.ttl) ELSE UNCHANGED <<item, lastCas>>
  /\ UNCHANGED <<choice, todo, host, up, cas, failed, ghosts>>

Next ==
  \/ SetData \/ GetData \/ DeleteData \/ ConnectTo \/ Wait \/ Expire
  \/ TriggerFailure \/ FixFailure \/ Replicate

Spec == Init /\ [][Next]_vars

-----------------------------------------------------------------------------
Item == [data : Data, ttl : {"long", "short"}, cas : 1..lastCas]

TypeOK ==
  /\ up \subseteq ServersOf(test)
  /\ \A k \in Keys : \A s \in ServersOf(test) :
       /\ item[k][s] # None => item[k][s] \in Item
       /\ s \notin up => item[k][s] = None
  /\ \A k \in Keys : cas[k] \in 0..lastCas
  /\ \A n \in DOMAIN inFlight : inFlight[n].to \in {Primary(inFlight[n].key), Backup(inFlight[n].key), Nowhere}

(* A store that keeps to its contract passes every test, unless the        *)
(* failure overtook the copy of a record: AddKillGet and the tests like it *)
(* kill a memcached right after the SET and wait for nothing               *)
(* (test_memcachedsolution.cpp:726), where the tests that "delete" with a  *)
(* TTL of zero wait (470, 884).  In particular it is never refused the     *)
(* updates of lines 878 and 985, which are made without a retry, whatever  *)
(* the comments above their tests say.                                     *)
FailsOnlyIfOvertaken == store = "correct" /\ failed => overtaken

(* "This sometimes result in data contention depending on whether the      *)
(* primary or backup memcached for this key has been killed."              *)
(* (test_memcachedsolution.cpp:755): the first update after the failure is *)
(* refused in the one case and only in it.                                 *)
ContentionIfPrimaryKilled ==
  [][\A k \in Keys : AtStep("set") /\ Current.key = k /\ Current.retry # << >>
       /\ SetData /\ store = "correct" /\ ~overtaken =>
         (Len(todo') >= Len(todo) <=>
            scenario \in {"MemcachedFails", "MemcachedRestarts"} /\ place[k][1] = Victim)]_vars

(* "Retrieve the key and update it [...].  This sometimes result in data   *)
(* contention depending on whether the primary or backup memcached for     *)
(* this key has been killed." (test_memcachedsolution.cpp:855-857, and     *)
(* 964-965): as said of the test above, it is refused if the primary was.  *)
ContentionAfterRead ==
  [][SetData /\ cas[1] # 0 /\ test \in {"AddKillCASDelete", "Larger.AddKillGetSet"}
       /\ scenario \in {"MemcachedFails", "MemcachedRestarts"} /\ place[1][1] = Victim =>
         contended']_vars

(* A store that reports contention and yet stores the data is noticed by   *)
(* every test that meets it but three: AddDeleteSetDataContention does not *)
(* read afterwards; AddSetSetDataContentionSet sets data_in again where it *)
(* was to set failed_data_in (test_memcachedsolution.cpp:416-417); and     *)
(* AddSetCASDeleteDataContentionCASDelete has no pause before the GET at   *)
(* line 458, which may find the record at the backup.                      *)
WrongStoreNoticed ==
  todo = << >> /\ store = "contention_stored" /\ contended /\ ~failed =>
    test \in {"AddDeleteSetDataContention", "AddSetSetDataContentionSet",
              "AddSetCASDeleteDataContentionCASDelete"}
=============================================================================
