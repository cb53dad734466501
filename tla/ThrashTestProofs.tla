--------------------------- MODULE ThrashTestProofs ---------------------------
(***************************************************************************)
(* Theorems of ThrashTest, for any finite set of threads and any number of *)
(* keys and increments.                                                    *)
(***************************************************************************)
EXTENDS ThrashTest, FiniteSetTheorems, TLAPS

-----------------------------------------------------------------------------
(* The finished increments *)

(* What is finished of a key is a finite set of at most all increments.    *)
LEMMA FinishedFinite ==
  ASSUME NEW k \in Keys
  PROVE  /\ IsFiniteSet(Finished(k))
         /\ Cardinality(Finished(k)) \in Nat
<1>1. IsFiniteSet(1..NumIncr)
  BY FS_Interval, ThrashAssumption
<1>2. IsFiniteSet(Threads \X (1..NumIncr))
  BY <1>1, FS_Product, ThrashAssumption, Zenon
<1>3. Finished(k) \in SUBSET (Threads \X (1..NumIncr))
  BY DEF Finished
<1>4. IsFiniteSet(Finished(k))
  BY <1>2, <1>3, FS_Subset, Zenon
<1> QED
  BY <1>4, FS_CardinalityType, Zenon

(* When every thread is past its last increment, all are finished.         *)
LEMMA AllFinished ==
  ASSUME \A t \in Threads : inc[t] = NumIncr + 1, NEW k \in Keys
  PROVE  Cardinality(Finished(k)) = ExpectedValue
<1>1. IsFiniteSet(1..NumIncr) /\ Cardinality(1..NumIncr) = NumIncr
  BY FS_Interval, ThrashAssumption
<1>2. Cardinality(Threads \X (1..NumIncr)) = Cardinality(Threads) * Cardinality(1..NumIncr)
  BY <1>1, FS_Product, ThrashAssumption, Zenon
<1>3. Finished(k) = Threads \X (1..NumIncr)
  BY ThrashAssumption DEF Finished
<1>4. Cardinality(Threads) \in Nat
  BY FS_CardinalityType, ThrashAssumption, Zenon
<1> QED
  BY <1>1, <1>2, <1>3, <1>4, ThrashAssumption DEF ExpectedValue

-----------------------------------------------------------------------------
(* The inductive invariant *)

(* Where a thread is, and what its local variables are worth: after a GET  *)
(* its cas is no newer than the key's, and as long as it is the key's, the *)
(* value it is about to set is one more than the key's; after a failed GET *)
(* the cas may be anything, and the value is 1.                            *)
ThreadInv ==
  \A t \in Threads :
    /\ pc[t] # "done" => inc[t] <= NumIncr
    /\ pc[t] = "done" => inc[t] = NumIncr + 1
    /\ pc[t] = "set" =>
         \/ failed /\ value[t] = 1
         \/ cas[t] < casid[key[t]]
         \/ cas[t] = casid[key[t]] /\ value[t] = data[key[t]] + 1

(* A key is absent only if the store has returned an error.                *)
AbsentInv == errors = 0 => \A k \in Keys : casid[k] # 0

IInv ==
  /\ TypeOK
  /\ AbsentInv
  /\ ThreadInv
  /\ NoLostIncrement
  /\ NeverOvercounts
  /\ TestPasses

LEMMA InitIInv == Init => IInv
<1> SUFFICES ASSUME Init PROVE IInv
  OBVIOUS
<1> USE ThrashAssumption DEF Init
<1>0. 1 \in 1..NumKeys /\ 1 \in 1..(NumIncr + 1)
  OBVIOUS
<1>6. PICK bad \in SUBSET Keys :
        /\ Cardinality(bad) <= MaxErrors
        /\ errors = Cardinality(bad)
        /\ failed = (bad # {})
        /\ casid \in [Keys -> {0, 1}]
        /\ \A k \in Keys \ bad : casid[k] = 1
  OBVIOUS
<1>7. IsFiniteSet(Keys)
  BY FS_Interval DEF Keys
<1>8. IsFiniteSet(bad) /\ Cardinality(bad) \in Nat
  BY <1>7, FS_Subset, FS_CardinalityType, Zenon
<1>9. errors = 0 => bad = {}
  BY <1>6, <1>8, FS_EmptySet, Zenon
<1>1. TypeOK
  <2>1. errors \in 0..MaxErrors
    BY <1>6, <1>8
  <2>2. failed \in BOOLEAN /\ casid \in [Keys -> Nat]
    BY <1>6
  <2> QED
    BY <1>0, <2>1, <2>2 DEF TypeOK, Keys
<1>5. ThreadInv /\ TestPasses /\ AbsentInv
  <2>1. ASSUME errors = 0
        PROVE  ~failed /\ \A k \in Keys : casid[k] # 0
    <3>1. bad = {}
      BY <1>9, <2>1
    <3>2. ~failed
      BY <1>6, <3>1
    <3>3. \A k \in Keys : casid[k] = 1
      BY <1>6, <3>1, Zenon
    <3> QED
      BY <3>2, <3>3
  <2>4. TestPasses /\ AbsentInv
    BY <2>1 DEF TestPasses, AbsentInv
  <2>2. ThreadInv
    BY DEF ThreadInv, Keys
  <2> QED
    BY <2>4, <2>2
<1>2. \A k \in Keys : Finished(k) = {}
  BY DEF Finished, Keys
<1>3. \A k \in Keys : data[k] = 0 /\ Cardinality(Finished(k)) = 0
  BY <1>2, FS_EmptySet
<1>4. NoLostIncrement /\ NeverOvercounts
  BY <1>3 DEF NoLostIncrement, NeverOvercounts
<1> QED
  BY <1>1, <1>4, <1>5 DEF IInv

(* Leaving the do loop finishes exactly one increment, of the key the      *)
(* thread was at.                                                          *)
LEMMA NextKeyFinishesOne ==
  ASSUME IInv, NEW t \in Threads, pc[t] = "set", NextKey(t), NEW k \in Keys
  PROVE  /\ k = key[t] => Cardinality(Finished(k)') = Cardinality(Finished(k)) + 1
         /\ k # key[t] => Finished(k)' = Finished(k)
<1> USE ThrashAssumption DEF IInv, TypeOK, Keys
<1>1. inc[t] \in 1..NumIncr
  BY DEF ThreadInv
<1>2. /\ \A u \in Threads \ {t} : inc'[u] = inc[u] /\ key'[u] = key[u]
      /\ \/ inc'[t] = inc[t] /\ key'[t] = key[t] + 1 /\ key[t] < NumKeys
         \/ inc'[t] = inc[t] + 1 /\ key'[t] = 1 /\ key[t] = NumKeys
  BY DEF NextKey
<1>3. \A u \in Threads, n \in 1..NumIncr :
        \/ n < inc'[u] \/ (n = inc'[u] /\ k < key'[u])
        <=> \/ n < inc[u] \/ (n = inc[u] /\ k < key[u])
            \/ k = key[t] /\ u = t /\ n = inc[t]
  <2> SUFFICES ASSUME NEW n \in 1..NumIncr
               PROVE  (n < inc'[t] \/ (n = inc'[t] /\ k < key'[t]))
                      <=> (\/ n < inc[t] \/ (n = inc[t] /\ k < key[t])
                           \/ k = key[t] /\ n = inc[t])
    BY <1>2
  <2>1. /\ n \in Nat /\ inc[t] \in Nat /\ k \in Nat /\ key[t] \in Nat /\ NumKeys \in Nat
        /\ 1 <= k /\ k <= NumKeys
    BY <1>1
  <2> HIDE DEF IInv, TypeOK, Keys
  <2>2. CASE inc'[t] = inc[t] /\ key'[t] = key[t] + 1
    <3>1. k < key[t] + 1 <=> k < key[t] \/ k = key[t]
      BY <2>1
    <3> QED
      BY <2>2, <3>1
  <2>3. CASE inc'[t] = inc[t] + 1 /\ key'[t] = 1 /\ key[t] = NumKeys
    BY <2>1, <2>3
  <2> QED
    BY <1>2, <2>2, <2>3
<1>4. k # key[t] => Finished(k)' = Finished(k)
  BY <1>3 DEF Finished
<1>5. ASSUME k = key[t]
      PROVE  Cardinality(Finished(k)') = Cardinality(Finished(k)) + 1
  <2>1. Finished(k)' = Finished(k) \cup {<<t, inc[t]>>}
    <3>1. <<t, inc[t]>> \in Threads \X (1..NumIncr)
      BY <1>1
    <3>2. ASSUME NEW u \in Threads, NEW n \in 1..NumIncr
          PROVE  <<u, n>> \in Finished(k)' <=>
                   <<u, n>> \in Finished(k) \/ (u = t /\ n = inc[t])
      BY <1>3, <1>5 DEF Finished
    <3>3. Finished(k) \subseteq Threads \X (1..NumIncr)
          /\ Finished(k)' \subseteq Threads \X (1..NumIncr)
      BY DEF Finished
    <3> HIDE DEF IInv, TypeOK, Keys
    <3> QED
      BY <3>1, <3>2, <3>3
  <2>2. <<t, inc[t]>> \notin Finished(k)
    BY <1>5 DEF Finished
  <2> QED
    BY <2>1, <2>2, FinishedFinite, FS_AddElement
<1> QED
  BY <1>4, <1>5

(* The types and places of the threads after NextKey.                      *)
LEMMA NextKeyTypes ==
  ASSUME IInv, NEW t \in Threads, pc[t] = "set", NextKey(t)
  PROVE  /\ pc'  \in [Threads -> {"get", "set", "done"}]
         /\ inc' \in [Threads -> 1..(NumIncr + 1)]
         /\ key' \in [Threads -> Keys]
         /\ pc'[t] \in {"get", "done"}
         /\ pc'[t] # "done" => inc'[t] <= NumIncr
         /\ pc'[t] = "done" => inc'[t] = NumIncr + 1
         /\ \A u \in Threads \ {t} :
              pc'[u] = pc[u] /\ inc'[u] = inc[u] /\ key'[u] = key[u]
<1> USE ThrashAssumption DEF IInv, TypeOK, Keys, NextKey
<1>1. inc[t] \in 1..NumIncr
  BY DEF ThreadInv
<1>2. inc' \in [Threads -> 1..(NumIncr + 1)] /\ key' \in [Threads -> Keys]
  <2>1. 1 \in Keys /\ (key[t] # NumKeys => key[t] + 1 \in Keys)
    OBVIOUS
  <2>2. inc[t] \in 1..(NumIncr + 1) /\ inc[t] + 1 \in 1..(NumIncr + 1)
    BY <1>1
  <2> QED
    BY <2>1, <2>2
<1>3. pc' \in [Threads -> {"get", "set", "done"}] /\ pc'[t] \in {"get", "done"}
  OBVIOUS
<1>4. /\ pc'[t] # "done" => inc'[t] <= NumIncr
      /\ pc'[t] = "done" => inc'[t] = NumIncr + 1
  BY <1>1
<1> QED
  BY <1>2, <1>3, <1>4

(* A GET, a SET that lost the race and the final check leave the store and *)
(* what is finished alone.                                                 *)
LEMMA FinishedUnchanged ==
  ASSUME UNCHANGED <<inc, key>>, NEW k \in Keys
  PROVE  Finished(k)' = Finished(k)
  BY DEF Finished

LEMMA GetStep ==
  ASSUME IInv, NEW t \in Threads, Get(t) \/ GetFails(t)
  PROVE  IInv'
<1> USE ThrashAssumption DEF IInv, Get, GetFails, StoreError, storeVars
<1>1. TypeOK'
  <2>1. data[key[t]] \in Nat /\ casid[key[t]] \in Nat
    BY DEF TypeOK
  <2>2. CASE Get(t)
    BY <2>1, <2>2 DEF TypeOK
  <2>3. CASE GetFails(t)
    <3>1. PICK c \in UninitCas : cas' = [cas EXCEPT ![t] = c]
      BY <2>3
    <3>2. c \in Nat
      OBVIOUS
    <3> QED
      BY <2>3, <3>1, <3>2 DEF TypeOK
  <2> QED
    BY <2>2, <2>3
<1>2. ThreadInv'
  <2>1. CASE Get(t)
    BY <2>1 DEF TypeOK, ThreadInv
  <2>2. CASE GetFails(t)
    <3>1. failed' /\ value'[t] = 1
      BY <2>2 DEF TypeOK
    <3> QED
      BY <2>2, <3>1 DEF TypeOK, ThreadInv
  <2> QED
    BY <2>1, <2>2
<1>3. NoLostIncrement' /\ NeverOvercounts'
  BY FinishedUnchanged DEF NoLostIncrement, NeverOvercounts
<1>4. TestPasses' /\ AbsentInv'
  <2>1. key[t] \in Keys /\ errors \in 0..MaxErrors
    BY DEF TypeOK
  <2>2. CASE Get(t)
    <3>1. errors = 0 => ~failed /\ \A k \in Keys : casid[k] # 0
      BY DEF TestPasses, AbsentInv
    <3>2. errors' = errors /\ casid' = casid /\ failed' = (failed \/ casid[key[t]] = 0)
      BY <2>2
    <3> QED
      BY <2>1, <3>1, <3>2 DEF TestPasses, AbsentInv
  <2>3. CASE GetFails(t)
    BY <2>1, <2>3 DEF TestPasses, AbsentInv
  <2> QED
    BY <2>2, <2>3
<1> QED
  BY <1>1, <1>2, <1>3, <1>4

LEMMA ContentionStep ==
  ASSUME IInv, NEW t \in Threads, SetContention(t)
  PROVE  IInv'
<1> USE DEF IInv, SetContention, storeVars
<1>1. TypeOK' /\ ThreadInv' /\ TestPasses' /\ AbsentInv'
  BY DEF TypeOK, ThreadInv, TestPasses, AbsentInv
<1>2. NoLostIncrement' /\ NeverOvercounts'
  BY FinishedUnchanged DEF NoLostIncrement, NeverOvercounts
<1> QED
  BY <1>1, <1>2

(* A SET that the store accepts or loses finishes the increment.           *)
LEMMA SetStep ==
  ASSUME IInv, NEW t \in Threads, pc[t] = "set", NextKey(t),
         UNCHANGED <<value, cas, main>>,
         \/ Store(t) /\ (failed' = failed \/ failed' = TRUE)
         \/ UNCHANGED storeVars /\ failed' = TRUE,
         \/ errors' = errors /\ failed' = failed
         \/ errors' \in 1..MaxErrors
  PROVE  IInv'
<1> DEFINE k == key[t]
<1>1. /\ k \in Keys /\ data[k] \in Nat /\ casid[k] \in Nat
      /\ value[t] \in Nat /\ cas[t] \in Nat
  BY DEF IInv, TypeOK, ThreadInv
<1>2. \A j \in Keys :
        /\ Cardinality(Finished(j)) \in Nat
        /\ j = k => Cardinality(Finished(j)') = Cardinality(Finished(j)) + 1
        /\ j # k => Finished(j)' = Finished(j)
  BY FinishedFinite, NextKeyFinishesOne
<1>3. TypeOK'
  <2>1. data' \in [Keys -> Nat] /\ casid' \in [Keys -> Nat]
    BY <1>1 DEF IInv, TypeOK, Store, storeVars
  <2>2. failed' \in BOOLEAN
    BY Zenon DEF IInv, TypeOK
  <2>3. errors \in 0..MaxErrors
    BY DEF IInv, TypeOK
  <2>4. errors' \in 0..MaxErrors
    BY <2>3
  <2> QED
    <3>1. /\ pc'  \in [Threads -> {"get", "set", "done"}]
          /\ inc' \in [Threads -> 1..(NumIncr + 1)]
          /\ key' \in [Threads -> Keys]
      BY NextKeyTypes
    <3>2. /\ value' \in [Threads -> Nat] /\ cas' \in [Threads -> Nat]
          /\ main' \in {"join", "checked"}
      BY DEF IInv, TypeOK
    <3> QED
      BY <2>1, <2>2, <2>4, <3>1, <3>2, Zenon DEF TypeOK
<1>4. ASSUME Store(t)
      PROVE  value[t] = data[k] + 1 \/ (failed /\ value[t] = 1)
  BY <1>1, <1>4 DEF IInv, ThreadInv, Store
<1>5. ThreadInv'
  <2> SUFFICES ASSUME NEW u \in Threads \ {t}, pc[u] = "set"
               PROVE  \/ failed' /\ value[u] = 1
                      \/ cas[u] < casid'[key[u]]
                      \/ cas[u] = casid'[key[u]] /\ value[u] = data'[key[u]] + 1
    BY NextKeyTypes, SMTT(30) DEF IInv, TypeOK, ThreadInv
  <2>1. /\ key[u] \in Keys /\ cas[u] \in Nat /\ casid[key[u]] \in Nat
        /\ \/ failed /\ value[u] = 1
           \/ cas[u] < casid[key[u]]
           \/ cas[u] = casid[key[u]] /\ value[u] = data[key[u]] + 1
    BY DEF IInv, TypeOK, ThreadInv
  <2>2. \/ UNCHANGED <<data, casid>>
        \/ key[u] = k /\ casid'[k] = casid[k] + 1
        \/ key[u] # k /\ casid'[key[u]] = casid[key[u]] /\ data'[key[u]] = data[key[u]]
    BY <1>1, <2>1 DEF Store, storeVars, IInv, TypeOK
  <2> QED
    BY <2>1, <2>2
<1>6. NeverOvercounts'
  <2> SUFFICES ASSUME NEW j \in Keys
               PROVE  data'[j] <= Cardinality(Finished(j)')
    BY DEF NeverOvercounts
  <2>1. data[j] \in Nat /\ data[j] <= Cardinality(Finished(j))
    BY DEF IInv, TypeOK, NeverOvercounts
  <2>2. data'[j] = data[j] \/ (j = k /\ data'[j] = value[t] /\ Store(t))
    BY <2>1 DEF Store, storeVars, IInv, TypeOK
  <2> QED
    BY <1>1, <1>2, <1>4, <2>1, <2>2
<1>7. NoLostIncrement'
  <2> SUFFICES ASSUME ~failed', NEW j \in Keys
               PROVE  data'[j] = Cardinality(Finished(j)')
    BY DEF NoLostIncrement
  <2>1. ~failed /\ Store(t) /\ data[j] = Cardinality(Finished(j))
    BY DEF IInv, NoLostIncrement
  <2>2. value[t] = data[k] + 1
    BY <1>4, <2>1
  <2>3. IF j = k THEN data'[j] = value[t] ELSE data'[j] = data[j]
    BY <2>1 DEF Store, IInv, TypeOK
  <2> QED
    BY <1>2, <2>1, <2>2, <2>3
<1>8. TestPasses' /\ AbsentInv'
  <2>1. \A j \in Keys : casid[j] # 0 => casid'[j] # 0
    BY <1>1 DEF Store, storeVars, IInv, TypeOK
  <2>2. errors' = 0 => errors = 0
    BY DEF IInv, TypeOK
  <2> QED
    BY <2>1, <2>2 DEF IInv, TestPasses, AbsentInv
<1> QED
  BY <1>3, <1>5, <1>6, <1>7, <1>8 DEF IInv

(* When every thread is done, every key has its expected value.            *)
LEMMA DoneMeansExpected ==
  ASSUME IInv, ~failed, \A t \in Threads : pc[t] = "done", NEW k \in Keys
  PROVE  data[k] = ExpectedValue
<1>1. \A t \in Threads : inc[t] = NumIncr + 1
  BY DEF IInv, ThreadInv
<1> QED
  BY <1>1, AllFinished DEF IInv, NoLostIncrement

LEMMA CheckStep ==
  ASSUME IInv, Check
  PROVE  IInv'
<1>1. errors' = 0 => errors = 0 /\ ~failed'
  <2>1. errors \in 0..MaxErrors
    BY DEF IInv, TypeOK
  <2>2. errors = 0 => ~failed /\ \A k \in Keys : casid[k] # 0 /\ data[k] = ExpectedValue
    BY DoneMeansExpected DEF Check, IInv, TestPasses, AbsentInv
  <2>3. CASE StoreError
    BY <2>1, <2>3 DEF StoreError
  <2>4. CASE ~StoreError
    BY <2>2, <2>4 DEF Check
  <2> QED
    BY <2>3, <2>4
<1>2. TypeOK' /\ ThreadInv' /\ TestPasses' /\ AbsentInv'
  <2>1. errors \in 0..MaxErrors /\ errors' \in 0..MaxErrors
    BY ThrashAssumption DEF Check, StoreError, IInv, TypeOK
  <2>2. UNCHANGED <<storeVars, threadVars>> /\ main' = "checked"
    BY DEF Check
  <2>3. failed' \in BOOLEAN /\ (failed => failed')
    BY Zenon DEF Check, IInv, TypeOK
  <2>4. TypeOK' /\ ThreadInv'
    BY <2>1, <2>2, <2>3 DEF IInv, TypeOK, ThreadInv, storeVars, threadVars
  <2>5. TestPasses' /\ AbsentInv'
    BY <1>1, <2>2 DEF IInv, TestPasses, AbsentInv, storeVars
  <2> QED
    BY <2>4, <2>5
<1>3. NoLostIncrement' /\ NeverOvercounts'
  BY FinishedUnchanged DEF Check, IInv, NoLostIncrement, NeverOvercounts, storeVars, threadVars
<1> QED
  BY <1>2, <1>3 DEF IInv

LEMMA IInvStep ==
  ASSUME IInv, [Next]_vars
  PROVE  IInv'
<1>1. CASE UNCHANGED vars
  <2>1. TypeOK' /\ ThreadInv' /\ TestPasses' /\ AbsentInv'
    BY <1>1 DEF IInv, TypeOK, ThreadInv, TestPasses, AbsentInv, vars, storeVars, threadVars
  <2>2. NoLostIncrement' /\ NeverOvercounts'
    BY <1>1, FinishedUnchanged DEF IInv, NoLostIncrement, NeverOvercounts, vars, storeVars, threadVars
  <2> QED
    BY <2>1, <2>2 DEF IInv
<1>2. ASSUME NEW t \in Threads, SetOK(t) \/ SetError(t)
      PROVE  IInv'
  <2>1. SetError(t) => errors' \in 1..MaxErrors
    BY ThrashAssumption DEF SetError, StoreError, IInv, TypeOK
  <2> QED
    BY <1>2, <2>1, SetStep DEF SetOK, SetError
<1> QED
  BY <1>1, <1>2, GetStep, ContentionStep, CheckStep DEF Next, Thread

LEMMA Inductive == Spec => []IInv
  BY InitIInv, IInvStep, PTL DEF Spec

-----------------------------------------------------------------------------
(* Theorems *)

(* Every variable of the model keeps its type.                             *)
THEOREM TypeCorrect == Spec => []TypeOK
<1>1. IInv => TypeOK
  BY DEF IInv
<1> QED
  BY <1>1, Inductive, PTL

(* While no operation of the store fails, each key counts exactly the      *)
(* increments finished so far.                                             *)
THEOREM NoIncrementLost == Spec => []NoLostIncrement
<1>1. IInv => NoLostIncrement
  BY DEF IInv
<1> QED
  BY <1>1, Inductive, PTL

(* Even when the store fails, no increment is made twice.                  *)
THEOREM NeverOvercounted == Spec => []NeverOvercounts
<1>1. IInv => NeverOvercounts
  BY DEF IInv
<1> QED
  BY <1>1, Inductive, PTL

(* As long as the store returns no error, no EXPECT of the thrash test     *)
(* fails: the main thread finds NumIncr times the number of threads in     *)
(* every key.                                                              *)
THEOREM ThrashTestPasses == Spec => []TestPasses
<1>1. IInv => TestPasses
  BY DEF IInv
<1> QED
  BY <1>1, Inductive, PTL

-----------------------------------------------------------------------------
(* Refinement *)

(* Leaving the do loop is one increment of the key the thread was at.      *)
LEMMA NextKeyMakes ==
  ASSUME IInv, NEW t \in Threads, pc[t] = "set", NextKey(t)
  PROVE  /\ Made[t][key[t]] < NumIncr
         /\ Made' = [Made EXCEPT ![t][key[t]] = @ + 1]
<1> USE ThrashAssumption
<1> DEFINE k == key[t]
           M(u, j)  == inc[u] - 1 + (IF j < key[u] THEN 1 ELSE 0)
           MM(u, j) == inc'[u] - 1 + (IF j < key'[u] THEN 1 ELSE 0)
<1>1. k \in Keys /\ inc[t] \in 1..NumIncr
  BY DEF IInv, TypeOK, ThreadInv
<1>2. Made[t][k] < NumIncr
  BY <1>1 DEF Made, Keys
<1>3. \A u \in Threads : inc[u] \in Nat /\ key[u] \in 1..NumKeys
  BY DEF IInv, TypeOK, Keys
<1>4. /\ \A u \in Threads \ {t} : inc'[u] = inc[u] /\ key'[u] = key[u]
      /\ \/ inc'[t] = inc[t] /\ key'[t] = k + 1 /\ k < NumKeys
         \/ inc'[t] = inc[t] + 1 /\ key'[t] = 1 /\ k = NumKeys
  BY <1>3 DEF NextKey, IInv, TypeOK
<1>5. ASSUME NEW u \in Threads, NEW j \in Keys
      PROVE  MM(u, j) = IF u = t /\ j = k THEN M(u, j) + 1 ELSE M(u, j)
  <2>1. CASE u # t
    BY <1>4, <2>1
  <2>2. CASE u = t /\ inc'[t] = inc[t] /\ key'[t] = k + 1
    BY <1>3, <2>2 DEF Keys
  <2>3. CASE u = t /\ inc'[t] = inc[t] + 1 /\ key'[t] = 1 /\ k = NumKeys
    BY <1>3, <2>3 DEF Keys
  <2> QED
    BY <1>4, <2>1, <2>2, <2>3
<1>6. Made = [u \in Threads |-> [j \in Keys |-> M(u, j)]]
  BY DEF Made
<1>7. Made' = [u \in Threads |-> [j \in Keys |-> MM(u, j)]]
  BY DEF Made
<1>8. Made' = [Made EXCEPT ![t][k] = @ + 1]
  <2> HIDE DEF M, MM
  <2> QED
    BY <1>5, <1>6, <1>7, <1>1
<1> QED
  BY <1>2, <1>8

(* What an accepted SET stores: one more than the value of the key, or 1   *)
(* after a failed GET, when the store has returned an error.               *)
LEMMA StoredValue ==
  ASSUME IInv, NEW t \in Threads, pc[t] = "set", Store(t)
  PROVE  /\ key[t] \in Keys /\ data[key[t]] \in Nat
         /\ data' = [data EXCEPT ![key[t]] = value[t]]
         /\ \/ value[t] = data[key[t]] + 1
            \/ errors # 0 /\ value[t] \in 0..(data[key[t]] + 1)
  BY DEF IInv, TypeOK, ThreadInv, TestPasses, Store

(* The threads' GETs and SETs implement atomic increments, and only a      *)
(* store that has returned an error spoils one.                            *)
THEOREM ThrashImplementsCounters == Spec => ImplementsCounters
<1> USE ThrashAssumption
<1>1. Init => Counters!CounterInit
  <2> SUFFICES ASSUME Init PROVE Counters!CounterInit
    OBVIOUS
  <2>1. Made = [t \in Threads |-> [k \in Keys |-> 0]]
    BY DEF Init, Made, Keys
  <2>2. (errors # 0) \in BOOLEAN
    OBVIOUS
  <2> QED
    BY <2>1, <2>2 DEF Init, Counters!CounterInit
<1>2. IInv /\ [Next]_vars => [Counters!CounterNext]_<<data, Made, errors # 0>>
  <2> SUFFICES ASSUME IInv, [Next]_vars
               PROVE  Counters!CounterNext \/ UNCHANGED <<data, Made, errors # 0>>
    OBVIOUS
  <2>1. CASE UNCHANGED <<data, inc, key, errors>>
    BY <2>1 DEF Made
  <2>5. CASE Check /\ StoreError
    <3>1. (errors # 0)' = TRUE
      BY <2>5 DEF StoreError, IInv, TypeOK
    <3>2. UNCHANGED <<data, Made>>
      BY <2>5 DEF Check, storeVars, threadVars, Made
    <3> QED
      BY <3>1, <3>2 DEF Counters!Fail, Counters!CounterNext
  <2>2. ASSUME NEW t \in Threads, GetFails(t)
        PROVE  Counters!Fail
    <3>1. (errors # 0)' = TRUE
      BY <2>2 DEF GetFails, StoreError, IInv, TypeOK
    <3>2. UNCHANGED <<data, Made>>
      BY <2>2 DEF GetFails, storeVars, Made
    <3> QED
      BY <3>1, <3>2 DEF Counters!Fail
  <2>3. ASSUME NEW t \in Threads, SetOK(t)
        PROVE  Counters!Increment(t, key[t]) \/ Counters!Spoil(t, key[t])
    <3>1. UNCHANGED errors
      BY <2>3 DEF SetOK
    <3>2. /\ Made[t][key[t]] < NumIncr
          /\ Made' = [Made EXCEPT ![t][key[t]] = @ + 1]
      BY <2>3, NextKeyMakes DEF SetOK
    <3>3. pc[t] = "set" /\ Store(t)
      BY <2>3 DEF SetOK
    <3>4. CASE value[t] = data[key[t]] + 1
      BY <3>1, <3>2, <3>3, <3>4, StoredValue DEF Counters!Increment, Counters!Make
    <3>5. CASE errors # 0 /\ value[t] \in 0..(data[key[t]] + 1)
      BY <3>1, <3>2, <3>3, <3>5, StoredValue DEF Counters!Spoil, Counters!Make
    <3> QED
      BY <3>3, <3>4, <3>5, StoredValue
  <2>4. ASSUME NEW t \in Threads, SetError(t)
        PROVE  Counters!Spoil(t, key[t])
    <3>1. (errors # 0)' = TRUE
      BY <2>4 DEF SetError, StoreError, IInv, TypeOK
    <3>2. /\ Made[t][key[t]] < NumIncr
          /\ Made' = [Made EXCEPT ![t][key[t]] = @ + 1]
      BY <2>4, NextKeyMakes DEF SetError
    <3>3. \E n \in 0..(data[key[t]] + 1) : data' = [data EXCEPT ![key[t]] = n]
      <4>1. CASE Store(t)
        BY <2>4, <4>1, StoredValue DEF SetError
      <4>2. CASE UNCHANGED storeVars
        BY <4>2 DEF IInv, TypeOK, storeVars
      <4> QED
        BY <2>4, <4>1, <4>2 DEF SetError
    <3> QED
      BY <3>1, <3>2, <3>3 DEF Counters!Spoil, Counters!Make
  <2> QED
    BY <2>1, <2>2, <2>3, <2>4, <2>5
       DEF Next, Thread, Get, SetContention, Check, IInv, TypeOK,
           Counters!CounterNext, vars, storeVars, threadVars
<1> QED
  BY <1>1, <1>2, Inductive, PTL
     DEF Spec, ImplementsCounters, Counters!CounterSpec
=============================================================================
