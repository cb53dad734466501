------------------------------ MODULE ThrashTest ------------------------------
(***************************************************************************)
(* The thrash test of test_memcachedsolution.cpp: threads that share a     *)
(* store increment each of its keys, by a GET and a SET that succeeds only *)
(* if the CAS of the GET is still the key's.  The main thread joins them   *)
(* and checks that no increment was lost.                                  *)
(*                                                                         *)
(* The store itself (TopologyNeutralMemcachedStore, rogers and memcached)  *)
(* is external; it is seen here as the test uses it, under its only        *)
(* scenario, NoFailures: one value and one CAS for each key, each          *)
(* operation atomic; a key that is not in the store has the CAS 0, which a *)
(* GET then returns (line 547 adds with it).  An operation may also return *)
(* an error, after which the SET has or has not been done.                 *)
(***************************************************************************)
EXTENDS Naturals, FiniteSets

CONSTANTS
  Threads,      (* the threads: 10 in the code                             *)
  NumKeys,      (* the keys: 10 in the code                                *)
  NumIncr,      (* NUM_INCR_PER_KEY_PER_THREAD: 10 in the code             *)
  MaxErrors,    (* bound on the errors the store returns                   *)
  UninitCas     (* what a cas may hold that no GET has set                 *)

ASSUME ThrashAssumption ==
  /\ IsFiniteSet(Threads)
  /\ NumKeys \in Nat \ {0}
  /\ NumIncr \in Nat \ {0}
  /\ MaxErrors \in Nat
  /\ UninitCas \subseteq Nat

Keys == 1..NumKeys

VARIABLES
  data,    (* the value of each key in the store                           *)
  casid,   (* the CAS of each key in the store                             *)
  pc,      (* what a thread does next: get_data, set_data, or nothing      *)
  inc,     (* the increment it is making, from 1                           *)
  key,     (* the key it is incrementing                                   *)
  value,   (* its local value, after value++                               *)
  cas,     (* its local cas                                                *)
  errors,  (* the errors the store has returned                            *)
  failed,  (* an EXPECT has failed                                         *)
  main     (* the main thread: waiting in join, or done with its checks    *)

storeVars  == <<data, casid>>
threadVars == <<pc, inc, key, value, cas>>
vars       == <<storeVars, threadVars, errors, failed, main>>

(* The threads have been spawned.  Each key has been set to "0", but where *)
(* an EXPECT failed as the store returned an error; it may then be absent. *)
Init ==
  /\ \E bad \in SUBSET Keys :
       /\ Cardinality(bad) <= MaxErrors
       /\ errors = Cardinality(bad)
       /\ failed = (bad # {})
       /\ casid \in [Keys -> {0, 1}]
       /\ \A k \in Keys \ bad : casid[k] = 1
  /\ data   = [k \in Keys |-> 0]
  /\ pc     = [t \in Threads |-> "get"]
  /\ inc    = [t \in Threads |-> 1]
  /\ key    = [t \in Threads |-> 1]
  /\ value  = [t \in Threads |-> 0]
  /\ cas    = [t \in Threads |-> 0]
  /\ main   = "join"

-----------------------------------------------------------------------------
(* The loops of thrash_thread_fn *)

(* The store returns an error.                                             *)
StoreError ==
  /\ errors < MaxErrors
  /\ errors' = errors + 1

(* get_data returns OK: the local value is one more than what it read.     *)
(* For an absent key it does not, and the value counts as 0.               *)
Get(t) ==
  /\ pc[t] = "get"
  /\ value' = [value EXCEPT ![t] = data[key[t]] + 1]
  /\ cas'   = [cas EXCEPT ![t] = casid[key[t]]]
  /\ pc'    = [pc EXCEPT ![t] = "set"]
  /\ failed' = (failed \/ casid[key[t]] = 0)
  /\ UNCHANGED <<storeVars, inc, key, errors, main>>

(* Mutant: no EXPECT looks at the result of get_data.                      *)
GetFailureMissed(t) ==
  /\ StoreError
  /\ pc[t] = "get"
  /\ value' = [value EXCEPT ![t] = 1]
  /\ \E c \in UninitCas : cas' = [cas EXCEPT ![t] = c]
  /\ pc' = [pc EXCEPT ![t] = "set"]
  /\ UNCHANGED <<storeVars, inc, key, failed, main>>

(* get_data returns anything else: an EXPECT fails, but the thread goes on *)
(* with an empty string, which counts as 0, and an uninitialised cas: what *)
(* it holds may be the key's CAS, now or later.                            *)
GetFails(t) ==
  /\ StoreError
  /\ pc[t] = "get"
  /\ value' = [value EXCEPT ![t] = 1]
  /\ \E c \in UninitCas : cas' = [cas EXCEPT ![t] = c]
  /\ pc'     = [pc EXCEPT ![t] = "set"]
  /\ failed' = TRUE
  /\ UNCHANGED <<storeVars, inc, key, main>>

(* Mutant: the loop runs past keys.end().                                  *)
NextKeyPastEnd(t) ==
  LET last == key[t] = NumKeys + 1 IN
  /\ key' = [key EXCEPT ![t] = IF last THEN 1 ELSE @ + 1]
  /\ inc' = [inc EXCEPT ![t] = IF last THEN @ + 1 ELSE @]
  /\ pc'  = [pc EXCEPT ![t] = IF last /\ inc[t] = NumIncr THEN "done" ELSE "get"]

(* The do loop is left: on to the next key, or the next increment of all.  *)
NextKey(t) ==
  LET last == key[t] = NumKeys IN
  /\ key' = [key EXCEPT ![t] = IF last THEN 1 ELSE @ + 1]
  /\ inc' = [inc EXCEPT ![t] = IF last THEN @ + 1 ELSE @]
  /\ pc'  = [pc EXCEPT ![t] = IF last /\ inc[t] = NumIncr THEN "done" ELSE "get"]

(* Mutant: the CAS is not compared.                                        *)
StoreUnchecked(t) ==
  /\ data'  = [data EXCEPT ![key[t]] = value[t]]
  /\ casid' = [casid EXCEPT ![key[t]] = @ + 1]

(* The store accepts the SET of t.                                         *)
Store(t) ==
  /\ cas[t] = casid[key[t]]
  /\ data'  = [data EXCEPT ![key[t]] = value[t]]
  /\ casid' = [casid EXCEPT ![key[t]] = @ + 1]

(* set_data returns OK.                                                    *)
SetOK(t) ==
  /\ pc[t] = "set"
  /\ Store(t)
  /\ NextKey(t)
  /\ UNCHANGED <<value, cas, errors, failed, main>>

(* Mutant: contention ends the do loop as success does.                    *)
ContentionGivesUp(t) ==
  /\ pc[t] = "set"
  /\ cas[t] # casid[key[t]]
  /\ NextKey(t)
  /\ UNCHANGED <<storeVars, value, cas, errors, failed, main>>

(* Mutant: the SET is tried again without another GET.                     *)
ContentionSameCas(t) ==
  /\ pc[t] = "set"
  /\ cas[t] # casid[key[t]]
  /\ UNCHANGED vars

(* set_data returns DATA_CONTENTION: again from get_data.                  *)
SetContention(t) ==
  /\ pc[t] = "set"
  /\ cas[t] # casid[key[t]]
  /\ pc' = [pc EXCEPT ![t] = "get"]
  /\ UNCHANGED <<storeVars, inc, key, value, cas, errors, failed, main>>

(* Mutant: an error is retried as contention is.                           *)
ErrorRetried(t) ==
  /\ StoreError
  /\ pc[t] = "set"
  /\ Store(t) \/ UNCHANGED storeVars
  /\ pc'     = [pc EXCEPT ![t] = "get"]
  /\ failed' = TRUE
  /\ UNCHANGED <<inc, key, value, cas, main>>

(* set_data returns an error, whether or not the store was changed: an     *)
(* EXPECT fails and the increment is not tried again.                      *)
SetError(t) ==
  /\ StoreError
  /\ pc[t] = "set"
  /\ Store(t) \/ UNCHANGED storeVars
  /\ NextKey(t)
  /\ failed' = TRUE
  /\ UNCHANGED <<value, cas, main>>

(* The main thread has joined the threads and compares each key with       *)
(* NUM_INCR_PER_KEY_PER_THREAD * threads.size(); its GETs may fail.        *)
ExpectedValue == NumIncr * Cardinality(Threads)

Check ==
  /\ main = "join"
  /\ \A t \in Threads : pc[t] = "done"
  /\ main'   = "checked"
  /\ \/ StoreError /\ failed' = TRUE
     \/ /\ failed' = (failed \/ \E k \in Keys : casid[k] = 0 \/ data[k] # ExpectedValue)
        /\ UNCHANGED errors
  /\ UNCHANGED <<storeVars, threadVars>>

Thread(t) ==
  Get(t) \/ GetFails(t) \/ SetOK(t) \/ SetContention(t) \/ SetError(t)

Next == Check \/ \E t \in Threads : Thread(t)

Spec == Init /\ [][Next]_vars

(* The threads are scheduled by the operating system.                      *)
FairSpec == Spec /\ WF_vars(Check) /\ \A t \in Threads : WF_vars(Thread(t))

-----------------------------------------------------------------------------
TypeOK ==
  /\ data   \in [Keys -> Nat]
  /\ casid  \in [Keys -> Nat]
  /\ pc     \in [Threads -> {"get", "set", "done"}]
  /\ inc    \in [Threads -> 1..(NumIncr + 1)]
  /\ key    \in [Threads -> Keys]
  /\ value  \in [Threads -> Nat]
  /\ cas    \in [Threads -> Nat]
  /\ errors \in 0..MaxErrors
  /\ failed \in BOOLEAN
  /\ main   \in {"join", "checked"}

(* The increments of key k that the threads are done with.                 *)
Finished(k) ==
  {p \in Threads \X (1..NumIncr) :
     p[2] < inc[p[1]] \/ (p[2] = inc[p[1]] /\ k < key[p[1]])}

(* No increment is lost and none is made twice: while no EXPECT has        *)
(* failed, each key counts exactly the increments finished so far, in any  *)
(* interleaving of the threads' GETs and SETs.                             *)
NoLostIncrement == ~failed => \A k \in Keys : data[k] = Cardinality(Finished(k))

(* "It then checks that the value of each key is 100"                      *)
(* (test_memcachedsolution.cpp:1066): as long as the store has returned no *)
(* error, no EXPECT fails, that of the main thread included.               *)
TestPasses == errors = 0 => ~failed

(* Even when the store fails, an increment is never made twice, as the     *)
(* loop retries after DATA_CONTENTION only.                                *)
NeverOvercounts == \A k \in Keys : data[k] <= Cardinality(Finished(k))

(* All threads can be joined, whatever fails: a retry means that another   *)
(* thread succeeded.                                                       *)
ThreadsJoin == <>(main = "checked")

(* The abstract specification: counters incremented atomically, but for    *)
(* the increments a faulty store spoils.                                   *)
Made == [t \in Threads |-> [k \in Keys |-> inc[t] - 1 + (IF k < key[t] THEN 1 ELSE 0)]]

Counters == INSTANCE AtomicCounters
              WITH count <- data, made <- Made, faulty <- (errors # 0)

(* The threads' GETs and SETs implement the counters, and a store that has *)
(* returned no error has spoilt none.                                      *)
ImplementsCounters == Counters!CounterSpec
=============================================================================
