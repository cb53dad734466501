---------------------------- MODULE AtomicCounters ----------------------------
(***************************************************************************)
(* What the thrash test expects of the store: counters that every thread   *)
(* increments NumIncr times, no increment made twice, and none lost by a   *)
(* store that has not failed.                                              *)
(***************************************************************************)
EXTENDS Naturals

CONSTANTS Threads, Keys, NumIncr

VARIABLES
  count,  (* the value of each key                                         *)
  made,   (* the increments each thread has made to each key               *)
  faulty  (* whether the store has failed                                  *)

CounterInit ==
  /\ count  = [k \in Keys |-> 0]
  /\ made   = [t \in Threads |-> [k \in Keys |-> 0]]
  /\ faulty \in BOOLEAN

(* Thread t has made one more increment of key k ...                       *)
Make(t, k) ==
  /\ made[t][k] < NumIncr
  /\ made' = [made EXCEPT ![t][k] = @ + 1]

(* ... which counts ...                                                    *)
Increment(t, k) ==
  /\ Make(t, k)
  /\ count' = [count EXCEPT ![k] = @ + 1]
  /\ UNCHANGED faulty

(* ... or is spoilt, earlier ones with it, by a store that has failed.     *)
Spoil(t, k) ==
  /\ faulty' = TRUE
  /\ Make(t, k)
  /\ \E n \in 0..(count[k] + 1) : count' = [count EXCEPT ![k] = n]

Fail ==
  /\ faulty' = TRUE
  /\ UNCHANGED <<count, made>>

CounterNext ==
  \/ Fail
  \/ \E t \in Threads, k \in Keys : Increment(t, k) \/ Spoil(t, k)

CounterSpec == CounterInit /\ [][CounterNext]_<<count, made, faulty>>
=============================================================================
