----------------------- MODULE MemcachedStoreTestsProofs -----------------------
(***************************************************************************)
(* That a test passes with a correct store is proved the way a program is  *)
(* proved with assertions between its statements: what is believed of a    *)
(* key between two steps, one rule for each kind of step, and a proof of   *)
(* each test that follows the way it is put together from its steps.       *)
(***************************************************************************)
EXTENDS MemcachedStoreTests, SequenceTheorems, TLAPS

-----------------------------------------------------------------------------
(* The steps of a test *)

Ttl      == {"long", "short", "zero"}
Statuses == {"OK", "DATA_CONTENTION", "ERROR", "NOT_FOUND"}
Hosts    == {"rogers.local", "rogers.local:11311", "ip", "bad.domain.name"}
KeyOps   == {"set", "get", "delete"}

SetSteps(retries) ==
  [op : {"set"}, key : Keys, data : Data, ttl : Ttl, from : {"cas", "zero"},
   rcs : SUBSET Statuses, retry : retries]
GetSteps    == [op : {"get"}, key : Keys, rc : Statuses, values : SUBSET Data]
DeleteSteps == [op : {"delete"}, key : Keys, rc : Statuses]
OtherSteps  == [op : {"connect"}, host : Hosts] \cup [op : {"usleep", "sleep", "trigger", "fix"}]

(* A test that retries does so in two steps.                               *)
PlainStep == SetSteps({<< >>}) \cup GetSteps \cup DeleteSteps \cup OtherSteps
Step      == PlainStep \cup SetSteps(PlainStep \X PlainStep)

IsOn(k, s)  == s.op \in KeyOps /\ s.key = k
HasRetry(s) == s.op = "set" /\ s.retry # << >>

LEMMA TwoKeys == 1 \in Keys /\ 2 \in Keys /\ Keys \subseteq Nat /\ \A k \in 1..Rounds : k \in Keys
BY StoreAssumption DEF Keys

LEMMA DataWords ==
  /\ "in" \in Data /\ "in_new1" \in Data /\ "in_new2" \in Data /\ "DELETE" \in Data
  /\ "FAIL" \in Data /\ "none" \notin Data
BY DEF Data

LEMMA PlainIsStep ==
  /\ PlainStep \subseteq Step
  /\ \A s \in PlainStep : ~HasRetry(s)
  /\ \A s \in Step : HasRetry(s) => s \in SetSteps(PlainStep \X PlainStep)
  /\ \A s \in Step : ~HasRetry(s) => s \in PlainStep
BY DEF Step, PlainStep, HasRetry, SetSteps, GetSteps, DeleteSteps, OtherSteps

LEMMA StepTypes ==
  ASSUME NEW s \in Step
  PROVE  /\ s.op \in {"set", "get", "delete", "connect", "usleep", "sleep", "trigger", "fix"}
         /\ s.op \in KeyOps => s.key \in Keys
         /\ s.op = "set" => s \in SetSteps({<< >>} \cup (PlainStep \X PlainStep))
         /\ s.op = "get" => s \in GetSteps
         /\ s.op = "delete" => s \in DeleteSteps
         /\ s.op = "connect" => s.host \in Hosts
BY DEF Step, PlainStep, SetSteps, GetSteps, DeleteSteps, OtherSteps, KeyOps

(* What a test that uses one key only is made of.                          *)
StepsOn(k)  == {s \in PlainStep : s.op \in KeyOps => s.key = k}
ScriptOn(k) == Seq(StepsOn(k))

LEMMA OneStep == \A k, s : s \in StepsOn(k) => <<s>> \in ScriptOn(k)
BY DEF ScriptOn

LEMMA Joined == \A k, s, t : s \in ScriptOn(k) /\ t \in ScriptOn(k) => s \o t \in ScriptOn(k)
BY ConcatProperties DEF ScriptOn

LEMMA SetTypes ==
  ASSUME NEW k \in Keys, NEW data \in Data, NEW ttl \in Ttl, NEW from \in {"cas", "zero"},
         NEW rcs \in SUBSET Statuses
  PROVE  SetAs(k, data, ttl, from, rcs, << >>) \in ScriptOn(k)
<1> DEFINE s == [op |-> "set", key |-> k, data |-> data, ttl |-> ttl, from |-> from,
                 rcs |-> rcs, retry |-> << >>]
<1>1. s \in SetSteps({<< >>})
  BY DEF SetSteps
<1>2. s \in StepsOn(k)
  BY <1>1 DEF StepsOn, PlainStep
<1> QED
  BY <1>2, OneStep DEF SetAs

LEMMA GetTypes ==
  ASSUME NEW k \in Keys, NEW rc \in Statuses, NEW values \in SUBSET Data
  PROVE  GetAs(k, rc, values) \in ScriptOn(k)
<1> DEFINE s == [op |-> "get", key |-> k, rc |-> rc, values |-> values]
<1>1. s \in StepsOn(k)
  BY DEF StepsOn, PlainStep, GetSteps
<1> QED
  BY <1>1, OneStep DEF GetAs

LEMMA SetScripts ==
  \A k \in Keys, data \in Data :
    /\ Set(k, data) \in ScriptOn(k)      /\ SetShort(k, data) \in ScriptOn(k)
    /\ SetGone(k) \in ScriptOn(k)        /\ Refused(k, data) \in ScriptOn(k)
    /\ RefusedGone(k, data) \in ScriptOn(k) /\ RefusedNewCas(k, data) \in ScriptOn(k)
    /\ SetErrors(k, data) \in ScriptOn(k)
BY SetTypes, DataWords
   DEF Set, SetShort, SetGone, Refused, RefusedGone, RefusedNewCas, SetErrors, Ttl, Statuses

LEMMA GetScripts ==
  \A k \in Keys, data \in Data :
    /\ Get(k, data) \in ScriptOn(k)  /\ GetOther(k, data) \in ScriptOn(k)
    /\ NotFound(k) \in ScriptOn(k)   /\ GetErrors(k) \in ScriptOn(k)
BY GetTypes DEF Get, GetOther, NotFound, GetErrors, Statuses

LEMMA DeleteScripts ==
  \A k \in Keys : DeleteKey(k) \in ScriptOn(k) /\ DeleteErrors(k) \in ScriptOn(k)
<1> SUFFICES ASSUME NEW k \in Keys PROVE DeleteKey(k) \in ScriptOn(k) /\ DeleteErrors(k) \in ScriptOn(k)
  OBVIOUS
<1>1. \A rc \in Statuses : [op |-> "delete", key |-> k, rc |-> rc] \in StepsOn(k)
  BY DEF StepsOn, PlainStep, DeleteSteps
<1> QED
  BY <1>1, OneStep DEF DeleteKey, DeleteErrors, Statuses

LEMMA OtherScripts ==
  \A k \in Keys :
    /\ \A h \in Hosts : Connect(h) \in ScriptOn(k)
    /\ Pause \in ScriptOn(k)   /\ Sleep2 \in ScriptOn(k)
    /\ Trigger \in ScriptOn(k) /\ Fix \in ScriptOn(k)
<1> SUFFICES ASSUME NEW k \in Keys
             PROVE  /\ \A h \in Hosts : Connect(h) \in ScriptOn(k)
                    /\ Pause \in ScriptOn(k)   /\ Sleep2 \in ScriptOn(k)
                    /\ Trigger \in ScriptOn(k) /\ Fix \in ScriptOn(k)
  OBVIOUS
<1>1. \A h \in Hosts : [op |-> "connect", host |-> h] \in StepsOn(k)
  BY DEF StepsOn, PlainStep, OtherSteps, KeyOps
<1>2. \A op \in {"usleep", "sleep", "trigger", "fix"} : [op |-> op] \in StepsOn(k)
  BY DEF StepsOn, PlainStep, OtherSteps, KeyOps
<1> QED
  BY <1>1, <1>2, OneStep DEF Connect, Pause, Sleep2, Trigger, Fix

-----------------------------------------------------------------------------
(* The tests *)

LEMMA OneKeyScripts ==
  /\ AddGet \in ScriptOn(1) /\ AddGetExpire \in ScriptOn(1)
  /\ AddSetSetDataContentionSet \in ScriptOn(1)
  /\ AddSetCASDeleteDataContentionCASDelete \in ScriptOn(1)
  /\ AddAddDataContention \in ScriptOn(1)
  /\ AddDelete \in ScriptOn(1) /\ AddDeleteAdd \in ScriptOn(1)
  /\ AddDeleteSetDataContention \in ScriptOn(1)
<1> USE TwoKeys, DataWords
<1>1. AddGet \in ScriptOn(1)
  BY Joined, SetScripts, GetScripts DEF AddGet
<1>2. AddGetExpire \in ScriptOn(1)
  BY Joined, SetScripts, GetScripts, OtherScripts DEF AddGetExpire
<1>3. AddSetSetDataContentionSet \in ScriptOn(1)
  BY <1>1, Joined, SetScripts, GetScripts DEF AddSetSetDataContentionSet
<1>4. AddSetCASDeleteDataContentionCASDelete \in ScriptOn(1)
  BY <1>1, Joined, SetScripts, GetScripts, OtherScripts
     DEF AddSetCASDeleteDataContentionCASDelete
<1>5. AddAddDataContention \in ScriptOn(1)
  BY Joined, SetScripts, GetScripts DEF AddAddDataContention
<1>6. AddDelete \in ScriptOn(1)
  BY <1>1, Joined, GetScripts, DeleteScripts DEF AddDelete
<1>7. AddDeleteAdd \in ScriptOn(1)
  BY <1>1, <1>6, Joined DEF AddDeleteAdd
<1>8. AddDeleteSetDataContention \in ScriptOn(1)
  BY <1>1, Joined, SetScripts, DeleteScripts DEF AddDeleteSetDataContention
<1> QED
  BY <1>1, <1>2, <1>3, <1>4, <1>5, <1>6, <1>7, <1>8

LEMMA StoreAndFailureScripts ==
  /\ ConnectUsingIpAddress \in ScriptOn(1) /\ DomainAndPort \in ScriptOn(1)
  /\ BadDomainName \in ScriptOn(1)
  /\ KillAddGet \in ScriptOn(1) /\ AddKillGet \in ScriptOn(1)
  /\ AddKillGetExpire \in ScriptOn(1) /\ AddDeleteKill \in ScriptOn(1)
  /\ AddKillCASDelete \in ScriptOn(1) /\ AddKillGetSet \in ScriptOn(1)
<1> USE TwoKeys, DataWords
<1>1. UseStore \in ScriptOn(1)
  BY OneKeyScripts, Joined, SetScripts, GetScripts, DeleteScripts DEF UseStore
<1>2. ConnectUsingIpAddress \in ScriptOn(1) /\ DomainAndPort \in ScriptOn(1)
  BY <1>1, Joined, OtherScripts DEF ConnectUsingIpAddress, DomainAndPort, Hosts
<1>3. BadDomainName \in ScriptOn(1)
  BY Joined, SetScripts, GetScripts, DeleteScripts, OtherScripts DEF BadDomainName, Hosts
<1>4. KillAddGet \in ScriptOn(1)
  BY OneKeyScripts, Joined, OtherScripts DEF KillAddGet
<1>5. AddKillGet \in ScriptOn(1)
  BY Joined, SetScripts, GetScripts, OtherScripts DEF AddKillGet
<1>6. AddKillGetExpire \in ScriptOn(1)
  BY Joined, SetScripts, GetScripts, OtherScripts DEF AddKillGetExpire
<1>7. AddDeleteKill \in ScriptOn(1)
  BY OneKeyScripts, Joined, GetScripts, DeleteScripts, OtherScripts DEF AddDeleteKill
<1>8. AddKillCASDelete \in ScriptOn(1)
  BY Joined, SetScripts, GetScripts, OtherScripts DEF AddKillCASDelete
<1>9. AddKillGetSet \in ScriptOn(1)
  BY Joined, SetScripts, GetScripts, OtherScripts DEF AddKillGetSet
<1> QED
  BY <1>2, <1>3, <1>4, <1>5, <1>6, <1>7, <1>8, <1>9

LEMMA StepsOfAKey == \A k \in Keys : StepsOn(k) \subseteq Step /\ ScriptOn(k) \subseteq Seq(Step)
BY DEF StepsOn, ScriptOn, Step

LEMMA JoinedSteps == \A s, t : s \in Seq(Step) /\ t \in Seq(Step) =>
                        s \o t \in Seq(Step) /\ Len(s \o t) = Len(s) + Len(t)
BY ConcatProperties

(* The retry of SetEither, and the step itself.                            *)
Retry(k) == <<[op |-> "get", key |-> k, rc |-> "OK", values |-> Data \ {"in_new1"}],
              [op |-> "set", key |-> k, data |-> "in_new1", ttl |-> "long", from |-> "cas",
               rcs |-> {"OK"}, retry |-> << >>]>>
Either(k) == [op |-> "set", key |-> k, data |-> "in_new1", ttl |-> "long", from |-> "cas",
              rcs |-> {"OK", "DATA_CONTENTION"}, retry |-> Retry(k)]

LEMMA PairIsSeq ==
  ASSUME NEW S, NEW a \in S, NEW b \in S
  PROVE  <<a, b>> \in Seq(S)
OBVIOUS

LEMMA PairIs ==
  ASSUME NEW S, NEW a \in S, NEW b \in S
  PROVE  <<a>> \o <<b>> = <<a, b>>
<1>1. <<a>> \in Seq(S) /\ <<b>> \in Seq(S) /\ <<a, b>> \in Seq(S)
  OBVIOUS
<1>2. /\ <<a>> \o <<b>> \in Seq(S) /\ Len(<<a>> \o <<b>>) = 2
      /\ (<<a>> \o <<b>>)[1] = a /\ (<<a>> \o <<b>>)[2] = b
  BY <1>1, ConcatProperties
<1>3. Len(<<a, b>>) = 2 /\ <<a, b>>[1] = a /\ <<a, b>>[2] = b
  OBVIOUS
<1>4. \A i \in 1..2 : (<<a>> \o <<b>>)[i] = <<a, b>>[i]
  <2> SUFFICES ASSUME NEW i \in 1..2 PROVE (<<a>> \o <<b>>)[i] = <<a, b>>[i]
    OBVIOUS
  <2>1. i = 1 \/ i = 2
    OBVIOUS
  <2> QED
    BY <1>2, <1>3, <2>1
<1> DEFINE s == <<a>> \o <<b>>  t == <<a, b>>
<1>5. s \in Seq(S) /\ t \in Seq(S) /\ Len(s) = 2 /\ Len(t) = 2 /\ \A i \in 1..2 : s[i] = t[i]
  BY <1>1, <1>2, <1>3, <1>4
<1> HIDE DEF s, t
<1>6. s = t
  BY <1>5, SeqEqual
<1> QED
  BY <1>6 DEF s, t

LEMMA StepsOfScript == \A k \in Keys : \A s \in ScriptOn(k) : s \in Seq(Step)
BY StepsOfAKey

(* A part of a script, of so many steps.                                   *)
IsPart(s, n) == s \in Seq(Step) /\ n \in Nat /\ Len(s) = n

LEMMA OnePart == \A k \in Keys : \A s \in ScriptOn(k) : Len(s) = 1 => IsPart(s, 1)
BY StepsOfScript DEF IsPart

LEMMA PartsJoin == \A s, t, m, n : IsPart(s, m) /\ IsPart(t, n) => IsPart(s \o t, m + n)
BY JoinedSteps DEF IsPart

LEMMA FiveParts ==
  ASSUME NEW a, NEW b, NEW c, NEW d, NEW e, NEW i, NEW j, NEW l, NEW m, NEW n,
         IsPart(a, i), IsPart(b, j), IsPart(c, l), IsPart(d, m), IsPart(e, n)
  PROVE  IsPart(a \o b \o c \o d \o e, i + j + l + m + n)
<1>1. IsPart(a \o b, i + j)
  BY PartsJoin
<1>2. IsPart(a \o b \o c, i + j + l)
  BY <1>1, PartsJoin
<1>3. IsPart(a \o b \o c \o d, i + j + l + m)
  BY <1>2, PartsJoin
<1> QED
  BY <1>3, PartsJoin

LEMMA RetryIs ==
  ASSUME NEW k \in Keys
  PROVE  /\ GetOther(k, "in_new1") \o Set(k, "in_new1") = Retry(k)
         /\ Retry(k) \in PlainStep \X PlainStep
         /\ Retry(k) # << >>
         /\ IsOn(k, Retry(k)[1]) /\ IsOn(k, Retry(k)[2])
<1> DEFINE g == [op |-> "get", key |-> k, rc |-> "OK", values |-> Data \ {"in_new1"}]
           s == [op |-> "set", key |-> k, data |-> "in_new1", ttl |-> "long", from |-> "cas",
                 rcs |-> {"OK"}, retry |-> << >>]
<1>1. g \in PlainStep
  BY DEF PlainStep, GetSteps, Statuses
<1>2. s \in PlainStep
  BY DataWords DEF PlainStep, SetSteps, Statuses, Ttl
<1>3. GetOther(k, "in_new1") = <<g>> /\ Set(k, "in_new1") = <<s>> /\ Retry(k) = <<g, s>>
  BY DEF GetOther, GetAs, Set, SetAs, Retry
<1>4. IsOn(k, g) /\ IsOn(k, s)
  BY DEF IsOn, KeyOps
<1>5. <<g>> \o <<s>> = <<g, s>>
  BY <1>1, <1>2, PairIs
<1>6. <<g, s>> \in PlainStep \X PlainStep /\ <<g, s>> # << >>
  BY <1>1, <1>2
<1>7. <<g, s>>[1] = g /\ <<g, s>>[2] = s
  OBVIOUS
<1> HIDE DEF g, s
<1> QED
  BY <1>3, <1>4, <1>5, <1>6, <1>7

LEMMA EitherIs ==
  ASSUME NEW k \in Keys
  PROVE  /\ SetEither(k, "in_new1", GetOther(k, "in_new1") \o Set(k, "in_new1")) = <<Either(k)>>
         /\ Either(k) \in Step /\ HasRetry(Either(k)) /\ IsOn(k, Either(k))
<1>1. Either(k) \in SetSteps(PlainStep \X PlainStep)
  BY RetryIs, DataWords DEF Either, SetSteps, Statuses, Ttl
<1> QED
  BY <1>1, RetryIs DEF SetEither, SetAs, Either, Step, HasRetry, IsOn, KeyOps

LEMMA OneLong ==
  \A k \in Keys, d \in Data :
    /\ Len(Set(k, d)) = 1 /\ Len(Get(k, d)) = 1 /\ Len(Refused(k, d)) = 1
BY DEF Set, SetAs, Get, GetAs, Refused

LEMMA RoundTypes ==
  ASSUME NEW k \in Keys
  PROVE  AddKillSetSetRound(k) \in Seq(Step) /\ Len(AddKillSetSetRound(k)) = 10
<1> DEFINE e == SetEither(k, "in_new1", GetOther(k, "in_new1") \o Set(k, "in_new1"))
<1>1. \A d \in Data : IsPart(Set(k, d), 1) /\ IsPart(Get(k, d), 1) /\ IsPart(Refused(k, d), 1)
  <2> SUFFICES ASSUME NEW d \in Data
               PROVE  IsPart(Set(k, d), 1) /\ IsPart(Get(k, d), 1) /\ IsPart(Refused(k, d), 1)
    OBVIOUS
  <2>1. Set(k, d) \in ScriptOn(k) /\ Get(k, d) \in ScriptOn(k) /\ Refused(k, d) \in ScriptOn(k)
    BY SetScripts, GetScripts
  <2>2. Len(Set(k, d)) = 1 /\ Len(Get(k, d)) = 1 /\ Len(Refused(k, d)) = 1
    BY OneLong
  <2> QED
    BY <2>1, <2>2, OnePart
<1>2. IsPart(Trigger, 1) /\ IsPart(Fix, 1)
  <2>1. /\ Trigger \in ScriptOn(k) /\ Fix \in ScriptOn(k)
        /\ Len(Trigger) = 1 /\ Len(Fix) = 1
    BY OtherScripts DEF Trigger, Fix
  <2> QED
    BY <2>1, OnePart
<1>3. IsPart(Connect("rogers.local"), 1)
  <2>1. "rogers.local" \in Hosts
    BY DEF Hosts
  <2>2. Connect("rogers.local") \in ScriptOn(k) /\ Len(Connect("rogers.local")) = 1
    BY <2>1, OtherScripts DEF Connect
  <2> QED
    BY <2>2, OnePart
<1>4. IsPart(e, 1)
  <2>1. Either(k) \in Step /\ e = <<Either(k)>>
    BY EitherIs
  <2>2. IsPart(<<Either(k)>>, 1)
    BY <2>1 DEF IsPart
  <2> QED
    BY <2>1, <2>2
<1>5. SetSetSet(k) = e \o Refused(k, "FAIL") \o Get(k, "in_new1")
                       \o Set(k, "in_new2") \o Get(k, "in_new2")
  BY DEF SetSetSet
<1> HIDE DEF e
<1>6. IsPart(SetSetSet(k), 5)
  <2>1. IsPart(SetSetSet(k), 1 + 1 + 1 + 1 + 1)
    BY <1>1, <1>4, <1>5, FiveParts, DataWords
  <2> QED
    BY <2>1
<1> DEFINE s == Set(k, "in") \o Get(k, "in") \o Trigger \o SetSetSet(k) \o Fix
<1>7. AddKillSetSetRound(k) = s \o Connect("rogers.local")
  BY DEF AddKillSetSetRound
<1>8. IsPart(s, 1 + 1 + 1 + 5 + 1)
  BY <1>1, <1>2, <1>6, FiveParts, DataWords
<1> HIDE DEF s
<1>9. IsPart(AddKillSetSetRound(k), 1 + 1 + 1 + 5 + 1 + 1)
  BY <1>3, <1>7, <1>8, PartsJoin
<1> QED
  BY <1>9 DEF IsPart

LEMMA RoundLengthIs == RoundLength = 10
BY RoundTypes, TwoKeys DEF RoundLength

(* The n-th step of the rounds is a step of a round.                       *)
LEMMA RoundsIndex ==
  ASSUME NEW R \in Nat, NEW n \in 1..(10 * R)
  PROVE  /\ ((n - 1) \div 10) + 1 \in 1..R
         /\ ((n - 1) % 10) + 1 \in 1..10
         /\ n = 10 * ((n - 1) \div 10) + ((n - 1) % 10) + 1
OBVIOUS

LEMMA RoundsTypes ==
  /\ AddKillSetSetDataContentionSet \in Seq(Step)
  /\ Len(AddKillSetSetDataContentionSet) = 10 * Rounds
  /\ \A n \in 1..(10 * Rounds) :
       AddKillSetSetDataContentionSet[n]
         = AddKillSetSetRound(((n - 1) \div 10) + 1)[((n - 1) % 10) + 1]
<1> DEFINE f == [n \in 1..(10 * Rounds) |->
                   AddKillSetSetRound(((n - 1) \div 10) + 1)[((n - 1) % 10) + 1]]
<1>1. AddKillSetSetDataContentionSet = f
  BY RoundLengthIs DEF AddKillSetSetDataContentionSet
<1>2. \A n \in 1..(10 * Rounds) : f[n] \in Step
  <2> SUFFICES ASSUME NEW n \in 1..(10 * Rounds) PROVE f[n] \in Step
    OBVIOUS
  <2>1. ((n - 1) \div 10) + 1 \in Keys /\ ((n - 1) % 10) + 1 \in 1..10
    BY RoundsIndex, TwoKeys, StoreAssumption
  <2> QED
    BY <2>1, RoundTypes
<1> QED
  BY <1>1, <1>2, StoreAssumption

LEMMA TwoKeyTypes == AddGetTwoKeys \in Seq(Step)
BY TwoKeys, DataWords, SetScripts, GetScripts, StepsOfAKey, JoinedSteps DEF AddGetTwoKeys

OneKeyTests ==
  (SimpleTests \cup FailureTests \cup LargerClustersTests)
    \ {"AddGetTwoKeys", "AddKillSetSetDataContentionSet"}

LEMMA OneKeyTestTypes == \A t \in OneKeyTests : Script(t) \in ScriptOn(1)
BY OneKeyScripts, StoreAndFailureScripts, DeleteScripts, TwoKeys
   DEF OneKeyTests, SimpleTests, FailureTests, LargerClustersTests, Script

LEMMA ScriptTypes == \A t \in Tests : Script(t) \in Seq(Step)
<1> SUFFICES ASSUME NEW t \in Tests PROVE Script(t) \in Seq(Step)
  OBVIOUS
<1>1. CASE t \in OneKeyTests
  BY <1>1, OneKeyTestTypes, StepsOfAKey, TwoKeys
<1>2. CASE t = "AddGetTwoKeys"
  BY <1>2, TwoKeyTypes DEF Script
<1>3. CASE t = "AddKillSetSetDataContentionSet"
  BY <1>3, RoundsTypes DEF Script
<1> QED
  BY <1>1, <1>2, <1>3, StoreAssumption DEF OneKeyTests

-----------------------------------------------------------------------------
(* The types of the variables *)

Copy == [key : Keys, to : Nat, data : Data, ttl : Ttl]
Places(t) == {p \in ServersOf(t) \X ServersOf(t) : p[1] # p[2]}

ChoiceOK ==
  /\ test \in Tests /\ scenario \in ScenariosOf(test) /\ store \in Stores
  /\ place \in [Keys -> Places(test)]
UpOK ==
  /\ up \subseteq ServersOf(test)
  /\ \A s \in ServersOf(test) : s # Victim => s \in up
ItemsOK ==
  /\ lastCas \in Nat
  /\ item \in [Keys -> [ServersOf(test) -> Item \cup {None}]]
  /\ \A k \in Keys, s \in ServersOf(test) : s \notin up => item[k][s] = None
  /\ cas \in [Keys -> 0..lastCas]
FlightOK ==
  /\ inFlight \in Seq(Copy)
  /\ \A n \in 1..Len(inFlight) :
       inFlight[n].to \in {Primary(inFlight[n].key), Backup(inFlight[n].key), Nowhere}

TypeInv ==
  /\ ChoiceOK /\ UpOK /\ ItemsOK /\ FlightOK
  /\ todo \in Seq(Step)
  /\ failed \in BOOLEAN /\ contended \in BOOLEAN /\ overtaken \in BOOLEAN

LEMMA Servers ==
  /\ ServersOf(test) = 1..2 \/ ServersOf(test) = 1..3
  /\ ServersOf(test) \subseteq Nat \ {0}
  /\ Victim \in ServersOf(test)
<1>1. ServersOf(test) = 1..2 \/ ServersOf(test) = 1..3
  BY DEF ServersOf
<1>2. \E s \in ServersOf(test) : \A r \in ServersOf(test) : r <= s
  BY <1>1
<1>3. Victim \in ServersOf(test)
  BY <1>2 DEF Victim
<1> QED
  BY <1>1, <1>3

LEMMA Placed ==
  ASSUME ChoiceOK, NEW k \in Keys
  PROVE  /\ Primary(k) \in ServersOf(test) /\ Backup(k) \in ServersOf(test)
         /\ Primary(k) # Backup(k)
         /\ Primary(k) \in Nat \ {0} /\ Backup(k) \in Nat \ {0}
BY Servers DEF ChoiceOK, Places, Primary, Backup

(* One server at the most is down, so that one of the two of a key is up.  *)
LEMMA OneIsUp ==
  ASSUME ChoiceOK, UpOK, NEW k \in Keys
  PROVE  /\ FirstUp(k) \in up /\ FirstUp(k) \in {Primary(k), Backup(k)}
         /\ Second(k) \in {Primary(k), Backup(k)} /\ FirstUp(k) # Second(k)
BY Placed DEF UpOK, FirstUp, Second

LEMMA NoneIs == None.data = "none" /\ None \notin Item /\ \A i \in Item : i.data # "none"
BY DataWords DEF None, Item

LEMMA ItemIs ==
  ASSUME ChoiceOK, ItemsOK, NEW k \in Keys, NEW s \in ServersOf(test)
  PROVE  /\ item[k][s] = None \/ item[k][s] \in Item
         /\ item[k][s] # None => /\ item[k][s].data \in Data
                                 /\ item[k][s].ttl \in {"long", "short"}
                                 /\ item[k][s].cas \in 1..lastCas
         /\ item[k][s] = None <=> item[k][s].data = "none"
BY NoneIs DEF ItemsOK, Item

LEMMA HolderIs ==
  ASSUME ChoiceOK, NEW k \in Keys, Holders(k) # {}
  PROVE  /\ Holder(k) \in {Primary(k), Backup(k)} /\ Holder(k) \in up
         /\ Holder(k) \in ServersOf(test)
         /\ item[k][Holder(k)] # None
BY Placed DEF Holders, Holder

LEMMA HeadTail ==
  ASSUME todo \in Seq(Step), todo # << >>
  PROVE  Head(todo) \in Step /\ Tail(todo) \in Seq(Step)
OBVIOUS

LEMMA InitTypes == Init => TypeInv
<1> SUFFICES ASSUME Init PROVE TypeInv
  OBVIOUS
<1>1. ChoiceOK
  BY DEF Init, ChoiceOK, Places
<1>2. UpOK
  BY DEF Init, UpOK
<1>3. ItemsOK
  BY DEF Init, ItemsOK
<1>4. FlightOK
  BY DEF Init, FlightOK
<1>5. todo \in Seq(Step)
  BY ScriptTypes DEF Init
<1> QED
  BY <1>1, <1>2, <1>3, <1>4, <1>5 DEF Init, TypeInv

(* The test, its scenario, its store and the places of its keys stay.      *)
LEMMA ChoiceStays ==
  ASSUME UNCHANGED choice
  PROVE  /\ ChoiceOK => ChoiceOK'
         /\ ServersOf(test)' = ServersOf(test) /\ Victim' = Victim
         /\ \A k : Primary(k)' = Primary(k) /\ Backup(k)' = Backup(k)
BY DEF choice, ChoiceOK, ServersOf, Victim, Primary, Backup, Places

LEMMA UpStays == UpOK /\ UNCHANGED <<choice, up>> => UpOK'
BY ChoiceStays DEF UpOK

LEMMA FlightStays == FlightOK /\ UNCHANGED <<choice, inFlight>> => FlightOK'
BY ChoiceStays DEF FlightOK, Nowhere

LEMMA WriteTypes ==
  ASSUME TypeInv, NEW k \in Keys, NEW s \in up, NEW data \in Data, NEW ttl \in Ttl,
         WriteAt(k, s, data, ttl), UNCHANGED <<choice, up, cas>>
  PROVE  ItemsOK'
<1>1. s \in ServersOf(test)
  BY DEF TypeInv, UpOK
<1>2. lastCas \in Nat /\ lastCas' = lastCas + 1 /\ lastCas' \in Nat
  BY DEF TypeInv, ItemsOK, WriteAt
<1>3. Item \subseteq Item'
  BY <1>2 DEF Item
<1>4. ttl # "zero" => [data |-> data, ttl |-> ttl, cas |-> lastCas + 1] \in Item'
  BY <1>2 DEF Item, Ttl
<1> DEFINE new == IF ttl = "zero" THEN None ELSE [data |-> data, ttl |-> ttl, cas |-> lastCas + 1]
<1>5. new \in Item' \cup {None}
  BY <1>4
<1>6. item' = [item EXCEPT ![k][s] = new]
  BY DEF WriteAt
<1> HIDE DEF new
<1>7. item \in [Keys -> [ServersOf(test) -> Item' \cup {None}]]
  BY <1>3 DEF TypeInv, ItemsOK
<1>8. item' \in [Keys -> [ServersOf(test) -> Item' \cup {None}]]
  BY <1>1, <1>5, <1>6, <1>7
<1>9. \A j \in Keys, r \in ServersOf(test) : r \notin up => item'[j][r] = None
  BY <1>1, <1>6, <1>7 DEF TypeInv, ItemsOK
<1>10. cas \in [Keys -> 0..lastCas']
  BY <1>2 DEF TypeInv, ItemsOK
<1> QED
  BY <1>2, <1>8, <1>9, <1>10, ChoiceStays DEF ItemsOK, None

LEMMA StoreTypes ==
  ASSUME TypeInv, NEW k \in Keys, NEW data \in Data, NEW ttl \in Ttl,
         Store(k, data, ttl), UNCHANGED <<choice, up, cas>>
  PROVE  ItemsOK' /\ FlightOK'
<1>1. ItemsOK'
  BY WriteTypes, OneIsUp DEF Store, TypeInv
<1> DEFINE w == [key |-> k, to |-> Second(k), data |-> data, ttl |-> ttl]
<1>2. w \in Copy /\ w.to \in {Primary(w.key), Backup(w.key), Nowhere}
  BY OneIsUp, Placed DEF TypeInv, Copy
<1>3. inFlight' = Append(inFlight, w)
  BY DEF Store
<1> HIDE DEF w
<1>4. inFlight' \in Seq(Copy)
  BY <1>2, <1>3 DEF TypeInv, FlightOK
<1>5. \A n \in 1..Len(inFlight') : inFlight'[n] = w \/ (n \in 1..Len(inFlight) /\ inFlight'[n] = inFlight[n])
  BY <1>2, <1>3, AppendProperties DEF TypeInv, FlightOK
<1>6. \A n \in 1..Len(inFlight') :
        inFlight'[n].to \in {Primary(inFlight'[n].key), Backup(inFlight'[n].key), Nowhere}
  BY <1>2, <1>5 DEF TypeInv, FlightOK
<1> QED
  BY <1>1, <1>4, <1>6, ChoiceStays DEF FlightOK, Nowhere

LEMMA AtStepIs ==
  ASSUME TypeInv, NEW op, AtStep(op)
  PROVE  todo # << >> /\ Current = Head(todo) /\ Current.op = op /\ Current \in Step
         /\ Tail(todo) \in Seq(Step)
BY HeadTail DEF TypeInv, AtStep, Current

LEMMA SetStepIs ==
  ASSUME TypeInv, AtStep("set")
  PROVE  /\ Current.key \in Keys /\ Current.data \in Data /\ Current.ttl \in Ttl
         /\ Current.from \in {"cas", "zero"} /\ Current.rcs \subseteq Statuses
         /\ Current.retry \in Seq(Step)
<1>1. Current \in SetSteps({<< >>} \cup (PlainStep \X PlainStep))
  BY AtStepIs, StepTypes
<1>2. \A p \in PlainStep \X PlainStep : p \in Seq(Step)
  <2> SUFFICES ASSUME NEW p \in PlainStep \X PlainStep PROVE p \in Seq(Step)
    OBVIOUS
  <2>1. p[1] \in PlainStep /\ p[2] \in PlainStep /\ p = <<p[1], p[2]>>
    OBVIOUS
  <2>2. p[1] \in Step /\ p[2] \in Step
    BY <2>1, PlainIsStep
  <2>3. <<p[1], p[2]>> \in Seq(Step)
    BY <2>2, PairIsSeq
  <2> QED
    BY <2>1, <2>3
<1>3. Current.retry = << >> \/ Current.retry \in PlainStep \X PlainStep
  BY <1>1 DEF SetSteps
<1>4. Current.retry \in Seq(Step)
  BY <1>2, <1>3, EmptySeq
<1> QED
  BY <1>1, <1>4 DEF SetSteps

LEMMA SetTyped == TypeInv /\ SetData => TypeInv'
<1> SUFFICES ASSUME TypeInv, SetData PROVE TypeInv'
  OBVIOUS
<1> DEFINE k == Current.key
           rc == SetStatus(k, IF Current.from = "zero" THEN 0 ELSE cas[k])
<1>1. UNCHANGED <<choice, host, up, cas, overtaken>>
  BY DEF SetData
<1>2. CASE Store(k, Current.data, Current.ttl)
  <2>1. ItemsOK' /\ FlightOK'
    BY <1>1, <1>2, StoreTypes, SetStepIs DEF SetData
  <2>2. todo' \in Seq(Step)
    BY AtStepIs, SetStepIs, EmptySeq, ConcatProperties DEF SetData
  <2> QED
    BY <1>1, <2>1, <2>2, ChoiceStays, UpStays DEF TypeInv, SetData
<1>3. CASE UNCHANGED <<item, lastCas, inFlight>>
  <2>1. ItemsOK' /\ FlightOK'
    BY <1>1, <1>3, ChoiceStays, FlightStays DEF TypeInv, ItemsOK, Item, None
  <2>2. todo' \in Seq(Step)
    BY AtStepIs, SetStepIs, EmptySeq, ConcatProperties DEF SetData
  <2> QED
    BY <1>1, <2>1, <2>2, ChoiceStays, UpStays DEF TypeInv, SetData
<1> QED
  BY <1>2, <1>3 DEF SetData

LEMMA GetTyped == TypeInv /\ GetData => TypeInv'
<1> SUFFICES ASSUME TypeInv, GetData PROVE TypeInv'
  OBVIOUS
<1> DEFINE k == Current.key
<1>1. UNCHANGED <<choice, host, up, item, lastCas, inFlight, ghosts>>
  BY DEF GetData
<1>2. Holders(k) # {} => item[k][Holder(k)].cas \in 1..lastCas
  <2>1. k \in Keys
    BY AtStepIs, StepTypes DEF GetData, KeyOps
  <2> QED
    BY <2>1, HolderIs, ItemIs DEF TypeInv
<1> DEFINE rc  == GetStatus(k)
           now == CASE rc = "OK"        -> item[k][Holder(k)].cas
                    [] rc = "NOT_FOUND" -> 0
                    [] rc = "ERROR"     -> cas[k]
<1>3. cas' \in [Keys -> 0..lastCas]
  <2>1. k \in Keys
    BY AtStepIs, StepTypes DEF GetData, KeyOps
  <2>2. cas \in [Keys -> 0..lastCas] /\ lastCas \in Nat
    BY DEF TypeInv, ItemsOK
  <2>3. cas' = [cas EXCEPT ![k] = now]
    BY DEF GetData
  <2>4. now \in 0..lastCas
    BY <1>2, <2>1, <2>2 DEF GetStatus
  <2> HIDE DEF now
  <2> QED
    BY <2>1, <2>2, <2>3, <2>4
<1>4. ItemsOK'
  BY <1>1, <1>3, ChoiceStays DEF TypeInv, ItemsOK, Item, None
<1>5. todo' \in Seq(Step)
  BY AtStepIs DEF GetData
<1> QED
  BY <1>1, <1>4, <1>5, ChoiceStays, UpStays, FlightStays DEF TypeInv, GetData, ghosts

LEMMA DeleteTyped == TypeInv /\ DeleteData => TypeInv'
<1> SUFFICES ASSUME TypeInv, DeleteData PROVE TypeInv'
  OBVIOUS
<1>1. UNCHANGED <<choice, host, up, lastCas, inFlight, cas, ghosts>>
  BY DEF DeleteData
<1>2. ItemsOK'
  BY <1>1, ChoiceStays DEF DeleteData, TypeInv, ItemsOK, Item, None
<1>3. todo' \in Seq(Step)
  BY AtStepIs DEF DeleteData
<1> QED
  BY <1>1, <1>2, <1>3, ChoiceStays, UpStays, FlightStays DEF TypeInv, DeleteData, ghosts

LEMMA ExpireTyped == TypeInv /\ Expire => TypeInv'
<1> SUFFICES ASSUME TypeInv, Expire PROVE TypeInv'
  OBVIOUS
<1>1. UNCHANGED <<choice, host, up, lastCas, inFlight, cas, failed, ghosts>>
  BY DEF Expire
<1>2. ItemsOK'
  BY <1>1, ChoiceStays DEF Expire, TypeInv, ItemsOK, Item, None
<1>3. todo' \in Seq(Step)
  BY AtStepIs DEF Expire
<1> QED
  BY <1>1, <1>2, <1>3, ChoiceStays, UpStays, FlightStays DEF TypeInv, Expire, ghosts

LEMMA SkipTyped == TypeInv /\ (ConnectTo \/ Wait) => TypeInv'
<1> SUFFICES ASSUME TypeInv, ConnectTo \/ Wait PROVE TypeInv'
  OBVIOUS
<1>1. UNCHANGED <<choice, up, item, lastCas, inFlight, cas, failed, ghosts>>
  BY DEF ConnectTo, Wait
<1>2. ItemsOK'
  BY <1>1, ChoiceStays DEF TypeInv, ItemsOK, Item, None
<1>3. todo' \in Seq(Step)
  BY AtStepIs DEF ConnectTo, Wait
<1> QED
  BY <1>1, <1>2, <1>3, ChoiceStays, UpStays, FlightStays DEF TypeInv, ghosts

LEMMA TriggerTyped == TypeInv /\ TriggerFailure => TypeInv'
<1> SUFFICES ASSUME TypeInv, TriggerFailure PROVE TypeInv'
  OBVIOUS
<1>1. UNCHANGED <<choice, host, lastCas, cas, failed, contended>>
  BY DEF TriggerFailure
<1>2. todo' \in Seq(Step) /\ overtaken' \in BOOLEAN
  BY AtStepIs DEF TriggerFailure, TypeInv
<1>3. UpOK' /\ up' \subseteq up
  BY <1>1, ChoiceStays DEF TriggerFailure, TypeInv, UpOK
<1>4. EmptyVictim \in [Keys -> [ServersOf(test) -> Item \cup {None}]]
  BY Servers DEF TypeInv, ItemsOK, EmptyVictim
<1>5. /\ item' \in [Keys -> [ServersOf(test) -> Item \cup {None}]]
      /\ \A k \in Keys, s \in ServersOf(test) : s \notin up' => item'[k][s] = None
  <2>1. CASE up' = up \ {Victim} /\ item' = EmptyVictim
    BY <1>4, <2>1, Servers DEF TypeInv, ItemsOK, EmptyVictim
  <2>2. CASE up' = up /\ item' = EmptyVictim
    BY <1>4, <2>2, Servers DEF TypeInv, ItemsOK, EmptyVictim
  <2>3. CASE up' = up /\ item' = item
    BY <2>3 DEF TypeInv, ItemsOK
  <2> QED
    BY <2>1, <2>2, <2>3 DEF TriggerFailure
<1>6. ItemsOK'
  BY <1>1, <1>5, ChoiceStays DEF TypeInv, ItemsOK, Item, None
<1>7. LoseCopies \in Seq(Copy) /\ Len(LoseCopies) = Len(inFlight)
      /\ \A n \in 1..Len(inFlight) :
           /\ LoseCopies[n].key = inFlight[n].key
           /\ LoseCopies[n].to \in {inFlight[n].to, Nowhere}
  <2>1. \A n \in 1..Len(inFlight) : inFlight[n] \in Copy
    BY ElementOfSeq DEF TypeInv, FlightOK
  <2>2. DOMAIN inFlight = 1..Len(inFlight) /\ Len(inFlight) \in Nat
    BY LenProperties DEF TypeInv, FlightOK
  <2>3. \A n \in 1..Len(inFlight) :
          /\ LoseCopies[n] \in Copy /\ LoseCopies[n].key = inFlight[n].key
          /\ LoseCopies[n].to \in {inFlight[n].to, Nowhere}
    BY <2>1, <2>2 DEF LoseCopies, Copy, Nowhere
  <2>4. LoseCopies \in [1..Len(inFlight) -> Copy]
    BY <2>2, <2>3 DEF LoseCopies
  <2> QED
    BY <2>2, <2>3, <2>4
<1>8. FlightOK'
  <2>1. CASE inFlight' = inFlight
    BY <1>1, <2>1, FlightStays DEF TypeInv, FlightOK, Nowhere, ChoiceOK, choice, Primary, Backup
  <2>2. CASE inFlight' = LoseCopies
    BY <1>1, <1>7, <2>2, ChoiceStays DEF TypeInv, FlightOK, Nowhere
  <2>3. CASE inFlight' = << >>
    BY <2>3 DEF FlightOK
  <2> QED
    BY <2>1, <2>2, <2>3 DEF TriggerFailure
<1> QED
  BY <1>1, <1>2, <1>3, <1>6, <1>8, ChoiceStays DEF TypeInv

LEMMA FixTyped == TypeInv /\ FixFailure => TypeInv'
<1> SUFFICES ASSUME TypeInv, FixFailure PROVE TypeInv'
  OBVIOUS
<1>1. UNCHANGED <<choice, host, item, lastCas, inFlight, cas, failed, ghosts>>
  BY DEF FixFailure
<1>2. UpOK'
  BY <1>1, ChoiceStays DEF UpOK, FixFailure
<1>3. ItemsOK'
  BY <1>1, ChoiceStays DEF FixFailure, TypeInv, ItemsOK, Item, None
<1>4. todo' \in Seq(Step)
  BY AtStepIs DEF FixFailure
<1> QED
  BY <1>1, <1>2, <1>3, <1>4, ChoiceStays, FlightStays DEF TypeInv, ghosts

(* The copy that is at the head, and the ones that stay.                   *)
LEMMA HeadCopyIs ==
  ASSUME FlightOK, inFlight # << >>
  PROVE  /\ Head(inFlight) \in Copy
         /\ Head(inFlight).key \in Keys /\ Head(inFlight).data \in Data
         /\ Head(inFlight).ttl \in Ttl
         /\ Head(inFlight).to \in {Primary(Head(inFlight).key), Backup(Head(inFlight).key), Nowhere}
         /\ Tail(inFlight) \in Seq(Copy) /\ Len(Tail(inFlight)) = Len(inFlight) - 1
         /\ \A n \in 1..Len(Tail(inFlight)) : Tail(inFlight)[n] = inFlight[n + 1]
<1>1. Head(inFlight) = inFlight[1] /\ Len(inFlight) \in Nat \ {0}
  BY EmptySeq DEF FlightOK
<1>2. Head(inFlight) \in Copy
  BY HeadTailProperties DEF FlightOK
<1> QED
  BY <1>1, <1>2, HeadTailProperties DEF FlightOK, Copy

LEMMA ReplicateTyped == TypeInv /\ Replicate => TypeInv'
<1> SUFFICES ASSUME TypeInv, Replicate PROVE TypeInv'
  OBVIOUS
<1> DEFINE w == Head(inFlight)
<1>1. UNCHANGED <<choice, todo, host, up, cas, failed, ghosts>>
  BY DEF Replicate
<1>2. ItemsOK'
  <2>1. CASE w.to \in up
    BY <1>1, <2>1, HeadCopyIs, WriteTypes DEF Replicate, TypeInv
  <2>2. CASE w.to \notin up
    BY <1>1, <2>2, ChoiceStays DEF Replicate, TypeInv, ItemsOK, Item, None
  <2> QED
    BY <2>1, <2>2
<1>3. FlightOK'
  <2>1. Tail(inFlight) \in Seq(Copy)
    BY HeadCopyIs DEF Replicate, TypeInv
  <2>2. \A n \in 1..Len(Tail(inFlight)) :
          Tail(inFlight)[n].to \in {Primary(Tail(inFlight)[n].key), Backup(Tail(inFlight)[n].key), Nowhere}
    BY HeadCopyIs DEF Replicate, TypeInv, FlightOK
  <2> QED
    BY <1>1, <2>1, <2>2, ChoiceStays DEF Replicate, FlightOK, Nowhere
<1> QED
  BY <1>1, <1>2, <1>3, ChoiceStays, UpStays DEF TypeInv, ghosts

LEMMA StutterTyped == TypeInv /\ UNCHANGED vars => TypeInv'
BY DEF vars, choice, ghosts, TypeInv, ChoiceOK, UpOK, ItemsOK, FlightOK, Places, ServersOf, Victim,
       Primary, Backup, Nowhere, Item, None

LEMMA NextTyped == TypeInv /\ [Next]_vars => TypeInv'
BY SetTyped, GetTyped, DeleteTyped, ExpireTyped, SkipTyped, TriggerTyped, FixTyped, ReplicateTyped,
   StutterTyped DEF Next

THEOREM SpecTypeInv == Spec => []TypeInv
BY InitTypes, NextTyped, PTL DEF Spec

(* Every record at a server has been given one of the CAS values so far,   *)
(* no record is at a server that is down, and a copy goes to one of the    *)
(* two servers of its key (test_memcachedsolution.cpp:139).                *)
THEOREM Types == Spec => []TypeOK
<1>1. TypeInv => TypeOK
  <2> SUFFICES ASSUME TypeInv PROVE TypeOK
    OBVIOUS
  <2>1. up \subseteq ServersOf(test)
    BY DEF TypeInv, UpOK
  <2>2. \A k \in Keys : \A s \in ServersOf(test) :
          /\ item[k][s] # None => item[k][s] \in Item
          /\ s \notin up => item[k][s] = None
    BY ItemIs DEF TypeInv, ItemsOK
  <2>3. \A k \in Keys : cas[k] \in 0..lastCas
    BY DEF TypeInv, ItemsOK
  <2>4. \A n \in DOMAIN inFlight :
          inFlight[n].to \in {Primary(inFlight[n].key), Backup(inFlight[n].key), Nowhere}
    BY DEF TypeInv, FlightOK
  <2> QED
    BY <2>1, <2>2, <2>3, <2>4 DEF TypeOK
<1> QED
  BY <1>1, SpecTypeInv, PTL

-----------------------------------------------------------------------------
(* What is believed of a key between two steps of a test *)

(* The copies of a key that are on their way.                              *)
NoneFor(q, k)  == \A n \in 1..Len(q) : q[n].key # k
AllTo(q, k, s) == \A n \in 1..Len(q) : q[n].key = k => q[n].to = s
ShortFor(q, k) == \A n \in 1..Len(q) : q[n].key = k => q[n].ttl = "short"
IsLast(q, k, n) ==
  /\ n \in 1..Len(q)
  /\ q[n].key = k
  /\ \A m \in 1..Len(q) : m > n => q[m].key # k

(* What the last of them leaves at a server that has "now" now.            *)
Value(w) == IF w.ttl = "zero" THEN "none" ELSE w.data
Settles(q, k, now, v) ==
  \/ NoneFor(q, k) /\ now = v
  \/ \E n \in 1..Len(q) : IsLast(q, k, n) /\ Value(q[n]) = v

(* There is no record of the key, and there will be none.                  *)
Absent(k) == NoneFor(inFlight, k) /\ item[k][Primary(k)] = None /\ item[k][Backup(k)] = None

(* A GET finds the data, whatever copies arrive.                           *)
AtPrimary(k, d) ==
  /\ Primary(k) \in up /\ item[k][Primary(k)].data = d
  /\ AllTo(inFlight, k, Backup(k))
AtBackup(k, d) ==
  /\ Primary(k) \notin up /\ Backup(k) \in up /\ item[k][Backup(k)].data = d
  /\ AllTo(inFlight, k, Primary(k))
AtBackupOnly(k, d) ==
  /\ Primary(k) \in up /\ item[k][Primary(k)] = None
  /\ Backup(k) \in up /\ item[k][Backup(k)].data = d
  /\ NoneFor(inFlight, k)
Held(k, d) == AtPrimary(k, d) \/ AtBackup(k, d) \/ AtBackupOnly(k, d)

(* The primary has the data and the backup will have it, each with a CAS   *)
(* value of its own.                                                       *)
Synced(k, d) ==
  /\ up = ServersOf(test)
  /\ item[k][Primary(k)].data = d
  /\ AllTo(inFlight, k, Backup(k))
  /\ Settles(inFlight, k, item[k][Backup(k)].data, d)
  /\ item[k][Backup(k)] # None => item[k][Backup(k)].cas # item[k][Primary(k)].cas

(* The key has been "deleted" with a TTL of zero.                          *)
Gone(k) ==
  /\ item[k][FirstUp(k)] = None
  /\ AllTo(inFlight, k, Second(k))
  /\ Settles(inFlight, k, item[k][Second(k)].data, "none")

(* Every record of the key, and every copy, expires after a second.        *)
AllShort(k) ==
  /\ \A s \in {Primary(k), Backup(k)} : item[k][s] # None => item[k][s].ttl = "short"
  /\ ShortFor(inFlight, k)

(* The test's CAS value is the one of the record a SET compares it with.   *)
IsCurrent(k) == Holders(k) # {} /\ item[k][Holder(k)].cas = cas[k]

Bel(rec, data, c, short, u, h) ==
  [rec |-> rec, data |-> data, cas |-> c, short |-> short, up |-> u, host |-> h]
Nothing == Bel("nothing", "in", "any", FALSE, "some", "good")

Belief ==
  {b \in [rec : {"absent", "synced", "held", "gone", "nothing"}, data : Data,
          cas : {"zero", "current", "stale", "any"}, short : BOOLEAN,
          up : {"all", "some"}, host : {"good", "bad"}] :
     /\ b.cas = "current" => b.rec \in {"synced", "held"}
     /\ b.cas = "stale" => b.rec \in {"absent", "synced", "held"}
     /\ b.rec = "nothing" => b = Nothing}

HoldsRec(k, b) ==
  /\ b.rec = "absent" => Absent(k)
  /\ b.rec = "synced" => Synced(k, b.data)
  /\ b.rec = "held"   => Held(k, b.data)
  /\ b.rec = "gone"   => Gone(k)
HoldsCas(k, b) ==
  /\ b.cas = "zero"    => cas[k] = 0
  /\ b.cas = "current" => cas[k] # 0 /\ IsCurrent(k)
  /\ b.cas = "stale"   => cas[k] # 0 /\ ~IsCurrent(k)
HoldsRest(k, b) ==
  /\ b.short => AllShort(k)
  /\ b.up = "all" => up = ServersOf(test)
  /\ b.host = "good" <=> Resolves
Holds(k, b) == b.rec # "nothing" => HoldsRec(k, b) /\ HoldsCas(k, b) /\ HoldsRest(k, b)

-----------------------------------------------------------------------------
(* The rules: what is believed after a step *)

(* The first update after the failure meets the backup's CAS value.        *)
PrimaryKilled(k) ==
  scenario \in {"MemcachedFails", "MemcachedRestarts"} /\ place[k][1] = Victim

Takes(s, b) ==
  \/ s.from = "cas" /\ b.cas = "current"
  \/ b.rec = "absent" /\ b.cas = "zero"
Refuses(s, b) ==
  \/ s.from = "cas" /\ b.cas = "stale"
  \/ b.rec = "synced" /\ b.cas = "zero"

(* The step meets what the test expects.                                   *)
SetFits(s, b) ==
  IF b.host = "bad" THEN "ERROR" \in s.rcs
  ELSE \/ Takes(s, b) /\ "OK" \in s.rcs
       \/ Refuses(s, b) /\ "DATA_CONTENTION" \in s.rcs
GetFits(s, b) ==
  IF b.host = "bad" THEN s.rc = "ERROR"
  ELSE \/ b.rec \in {"synced", "held"} /\ s.rc = "OK" /\ b.data \in s.values
       \/ b.rec = "absent" /\ s.rc = "NOT_FOUND"
DeleteFits(s, b) == s.rc = IF b.host = "bad" THEN "ERROR" ELSE "OK"

AfterSet(s, b) ==
  IF b.host = "bad" \/ Refuses(s, b) THEN b
  ELSE IF s.ttl = "zero" THEN Bel("gone", b.data, "any", FALSE, b.up, b.host)
  ELSE Bel(IF b.rec = "synced" \/ (b.rec = "absent" /\ b.up = "all") THEN "synced" ELSE "held",
           s.data,
           IF b.cas = "zero" THEN "zero" ELSE "stale",
           b.rec = "absent" /\ s.ttl = "short",
           b.up, b.host)
AfterGet(b) ==
  IF b.host = "bad" THEN b
  ELSE Bel(b.rec, b.data, IF b.rec = "absent" THEN "zero" ELSE "current", b.short, b.up, b.host)
AfterDelete(b) ==
  IF b.host = "bad" THEN b
  ELSE Bel("absent", b.data, IF b.cas = "current" THEN "stale" ELSE b.cas, FALSE, b.up, b.host)
AfterConnect(h, b) ==
  Bel(b.rec, b.data, b.cas, b.short, b.up, IF h = "bad.domain.name" THEN "bad" ELSE "good")
AfterPause(b) ==
  Bel(IF b.rec = "gone" THEN "absent" ELSE b.rec, b.data, b.cas, b.short, b.up, b.host)
AfterSleep(b) ==
  IF b.rec = "absent" THEN b ELSE Bel("absent", b.data, "any", b.short, b.up, b.host)
AfterTrigger(k, b) ==
  IF b.rec = "absent" THEN Bel("absent", b.data, b.cas, b.short, "some", b.host)
  ELSE IF b.rec = "synced" /\ b.cas # "stale" THEN
    Bel("held", b.data, IF b.cas = "current" /\ PrimaryKilled(k) THEN "stale" ELSE b.cas,
        b.short, "some", b.host)
  ELSE Nothing
AfterFix(b) ==
  IF b.rec = "absent" THEN Bel("absent", b.data, b.cas, b.short, "all", b.host) ELSE Nothing

After(k, s, b) ==
  CASE s.op = "set"     -> AfterSet(s, b)
    [] s.op = "get"     -> AfterGet(b)
    [] s.op = "delete"  -> AfterDelete(b)
    [] s.op = "connect" -> AfterConnect(s.host, b)
    [] s.op = "usleep"  -> AfterPause(b)
    [] s.op = "sleep"   -> AfterSleep(b)
    [] s.op = "trigger" -> AfterTrigger(k, b)
    [] s.op = "fix"     -> AfterFix(b)

Fits(s, b) ==
  /\ s.op = "set" => SetFits(s, b)
  /\ s.op = "get" => GetFits(s, b)
  /\ s.op = "delete" => DeleteFits(s, b)
  /\ s.op = "sleep" => b.short \/ b.rec = "absent"

(* A step on another key changes nothing; nothing is believed for free of  *)
(* a key that the step is not on.                                          *)
PlainRule(k, s, b, c) ==
  \/ ~IsOn(k, s) /\ c = Nothing
  \/ ~IsOn(k, s) /\ s.op \in KeyOps /\ c = b
  \/ /\ b.rec # "nothing"
     /\ IsOn(k, s) \/ s.op \notin KeyOps
     /\ Fits(s, b) /\ c = After(k, s, b)

(* A SET with a retry is refused if the primary has been killed, and then  *)
(* the retry leads to what is believed after the SET; else it is made.     *)
Rule(k, s, b, c) ==
  \/ ~HasRetry(s) /\ PlainRule(k, s, b, c)
  \/ HasRetry(s) /\ ~IsOn(k, s) /\ ~IsOn(k, s.retry[1]) /\ ~IsOn(k, s.retry[2]) /\ c \in {b, Nothing}
       /\ s.retry[1].op \in KeyOps /\ s.retry[2].op \in KeyOps
  \/ /\ HasRetry(s) /\ IsOn(k, s) /\ b.rec # "nothing" /\ b.host = "good" /\ s.from = "cas"
     /\ {"OK", "DATA_CONTENTION"} \subseteq s.rcs
     /\ IF PrimaryKilled(k)
          THEN b.cas = "stale"
               /\ \E m \in Belief : PlainRule(k, s.retry[1], b, m) /\ PlainRule(k, s.retry[2], m, c)
          ELSE b.cas = "current" /\ c = AfterSet(s, b)

(* From b, the script s leads to c.                                        *)
Triple(k, s, b, c) ==
  \E bs \in [1..(Len(s) + 1) -> Belief] :
    /\ bs[1] = b /\ bs[Len(s) + 1] = c
    /\ \A n \in 1..Len(s) : Rule(k, s[n], bs[n], bs[n + 1])

(* With a correct store, unless a failure overtook a copy, no test fails   *)
(* and what is believed of a key takes it through what is left to do.      *)
PassesInv ==
  store = "correct" /\ ~overtaken =>
    /\ ~failed
    /\ \A k \in Keys : \E b, c \in Belief : Holds(k, b) /\ Triple(k, todo, b, c)

-----------------------------------------------------------------------------
(* Copies that are sent, and copies that arrive *)

LEMMA SentIs ==
  ASSUME NEW q \in Seq(Copy), NEW w \in Copy
  PROVE  /\ Append(q, w) \in Seq(Copy) /\ Len(Append(q, w)) = Len(q) + 1
         /\ Append(q, w)[Len(q) + 1] = w /\ Len(q) \in Nat
         /\ \A n \in 1..Len(q) : Append(q, w)[n] = q[n]
         /\ \A n \in 1..(Len(q) + 1) : n \in 1..Len(q) \/ n = Len(q) + 1
BY AppendProperties, LenProperties

(* A copy of another key makes no difference to a key.                     *)
LEMMA OtherSent ==
  ASSUME NEW q \in Seq(Copy), NEW w \in Copy, NEW k, w.key # k
  PROVE  /\ NoneFor(q, k) => NoneFor(Append(q, w), k)
         /\ \A s : AllTo(q, k, s) => AllTo(Append(q, w), k, s)
         /\ ShortFor(q, k) => ShortFor(Append(q, w), k)
         /\ \A now, v : Settles(q, k, now, v) => Settles(Append(q, w), k, now, v)
<1> DEFINE r == Append(q, w)
<1>1. /\ Len(r) = Len(q) + 1 /\ r[Len(q) + 1] = w /\ Len(q) \in Nat
      /\ \A n \in 1..Len(q) : r[n] = q[n]
      /\ \A n \in 1..Len(r) : n \in 1..Len(q) \/ n = Len(q) + 1
  BY SentIs
<1> HIDE DEF r
<1>2. NoneFor(q, k) => NoneFor(r, k)
  BY <1>1 DEF NoneFor
<1>3. \A s : AllTo(q, k, s) => AllTo(r, k, s)
  BY <1>1 DEF AllTo
<1>4. ShortFor(q, k) => ShortFor(r, k)
  BY <1>1 DEF ShortFor
<1>5. ASSUME NEW n \in 1..Len(q), IsLast(q, k, n) PROVE n \in 1..Len(r) /\ IsLast(r, k, n)
  BY <1>1, <1>5 DEF IsLast
<1>6. ASSUME NEW now, NEW v, Settles(q, k, now, v) PROVE Settles(r, k, now, v)
  <2>1. CASE NoneFor(q, k) /\ now = v
    BY <1>2, <2>1 DEF Settles
  <2>2. CASE \E n \in 1..Len(q) : IsLast(q, k, n) /\ Value(q[n]) = v
    <3>1. PICK n \in 1..Len(q) : IsLast(q, k, n) /\ Value(q[n]) = v
      BY <2>2
    <3>2. r[n] = q[n]
      BY <1>1
    <3> QED
      BY <1>5, <3>1, <3>2 DEF Settles
  <2> QED
    BY <1>6, <2>1, <2>2 DEF Settles
<1> QED
  BY <1>2, <1>3, <1>4, <1>6 DEF r

(* What a copy of the key itself will leave is what it carries.            *)
LEMMA OwnSent ==
  ASSUME NEW q \in Seq(Copy), NEW w \in Copy, NEW k, w.key = k
  PROVE  /\ \A s : AllTo(q, k, s) /\ w.to = s => AllTo(Append(q, w), k, s)
         /\ \A now : Settles(Append(q, w), k, now, Value(w))
         /\ ShortFor(q, k) /\ w.ttl = "short" => ShortFor(Append(q, w), k)
<1> DEFINE r == Append(q, w)
<1>1. /\ Len(r) = Len(q) + 1 /\ r[Len(q) + 1] = w /\ Len(q) \in Nat
      /\ \A n \in 1..Len(q) : r[n] = q[n]
      /\ \A n \in 1..Len(r) : n \in 1..Len(q) \/ n = Len(q) + 1
  BY SentIs
<1> HIDE DEF r
<1>2. \A s : AllTo(q, k, s) /\ w.to = s => AllTo(r, k, s)
  BY <1>1 DEF AllTo
<1>3. ShortFor(q, k) /\ w.ttl = "short" => ShortFor(r, k)
  BY <1>1 DEF ShortFor
<1>4. IsLast(r, k, Len(q) + 1)
  BY <1>1 DEF IsLast
<1>5. \A now : Settles(r, k, now, Value(w))
  BY <1>1, <1>4 DEF Settles
<1> QED
  BY <1>2, <1>3, <1>5 DEF r

LEMMA ArrivedIs ==
  ASSUME NEW q \in Seq(Copy), q # << >>
  PROVE  /\ Head(q) = q[1] /\ Head(q) \in Copy /\ Len(q) \in Nat \ {0}
         /\ Tail(q) \in Seq(Copy) /\ Len(Tail(q)) = Len(q) - 1
         /\ \A n \in 1..(Len(q) - 1) : Tail(q)[n] = q[n + 1]
BY HeadTailProperties, EmptySeq, LenProperties

LEMMA CopyArrived ==
  ASSUME NEW q \in Seq(Copy), q # << >>, NEW k
  PROVE  /\ NoneFor(q, k) => NoneFor(Tail(q), k) /\ Head(q).key # k
         /\ \A s : AllTo(q, k, s) => AllTo(Tail(q), k, s) /\ (Head(q).key = k => Head(q).to = s)
         /\ ShortFor(q, k) => ShortFor(Tail(q), k) /\ (Head(q).key = k => Head(q).ttl = "short")
<1> DEFINE t == Tail(q)
<1>1. /\ Head(q) = q[1] /\ Len(q) \in Nat \ {0} /\ 1 \in 1..Len(q) /\ Len(t) = Len(q) - 1
      /\ \A n \in 1..Len(t) : t[n] = q[n + 1] /\ n + 1 \in 1..Len(q)
  BY ArrivedIs
<1> HIDE DEF t
<1>2. NoneFor(q, k) => NoneFor(t, k) /\ Head(q).key # k
  BY <1>1 DEF NoneFor
<1>3. \A s : AllTo(q, k, s) => AllTo(t, k, s) /\ (Head(q).key = k => Head(q).to = s)
  BY <1>1 DEF AllTo
<1>4. ShortFor(q, k) => ShortFor(t, k) /\ (Head(q).key = k => Head(q).ttl = "short")
  BY <1>1 DEF ShortFor
<1> QED
  BY <1>2, <1>3, <1>4 DEF t

(* The last copy stays the last until it arrives.                          *)
LEMMA SettlesOn ==
  ASSUME NEW q \in Seq(Copy), q # << >>, NEW k, NEW now, NEW v, Settles(q, k, now, v)
  PROVE  /\ Head(q).key # k => Settles(Tail(q), k, now, v)
         /\ Head(q).key = k => \A then : then = Value(Head(q)) \/ then = v => Settles(Tail(q), k, then, v)
<1> DEFINE t == Tail(q)
<1>1. /\ Head(q) = q[1] /\ Len(q) \in Nat \ {0} /\ Len(t) = Len(q) - 1
      /\ \A n \in 1..Len(t) : t[n] = q[n + 1] /\ n + 1 \in 1..Len(q)
      /\ \A n \in 1..Len(q) : n # 1 => n - 1 \in 1..Len(t) /\ t[n - 1] = q[n]
  BY ArrivedIs
<1>2. NoneFor(q, k) => NoneFor(t, k) /\ Head(q).key # k
  BY CopyArrived
<1> HIDE DEF t
<1>3. ASSUME NEW n \in 1..Len(q), IsLast(q, k, n), n # 1 PROVE IsLast(t, k, n - 1)
  BY <1>1, <1>3 DEF IsLast
<1>4. IsLast(q, k, 1) => NoneFor(t, k) /\ Head(q).key = k
  <2> SUFFICES ASSUME IsLast(q, k, 1) PROVE NoneFor(t, k) /\ Head(q).key = k
    OBVIOUS
  <2>1. \A n \in 1..Len(t) : n + 1 > 1
    OBVIOUS
  <2> QED
    BY <1>1, <2>1 DEF IsLast, NoneFor
<1>5. CASE NoneFor(q, k) /\ now = v
  BY <1>2, <1>5 DEF Settles, t
<1>6. CASE \E n \in 1..Len(q) : IsLast(q, k, n) /\ Value(q[n]) = v
  <2>1. PICK n \in 1..Len(q) : IsLast(q, k, n) /\ Value(q[n]) = v
    BY <1>6
  <2>2. CASE n # 1
    <3>1. IsLast(t, k, n - 1) /\ n - 1 \in 1..Len(t) /\ Value(t[n - 1]) = v
      BY <1>1, <1>3, <2>1, <2>2
    <3>2. \A then : Settles(t, k, then, v)
      BY <3>1 DEF Settles
    <3> QED
      BY <3>2 DEF t
  <2>3. CASE n = 1
    <3>1. NoneFor(t, k) /\ Head(q).key = k /\ Value(Head(q)) = v
      BY <1>1, <1>4, <2>1, <2>3
    <3>2. \A then : then = v => Settles(t, k, then, v)
      BY <3>1 DEF Settles
    <3> QED
      BY <3>1, <3>2 DEF t
  <2> QED
    BY <2>2, <2>3
<1> QED
  BY <1>5, <1>6 DEF Settles

-----------------------------------------------------------------------------
(* Scripts, step by step *)

Chain(k, s, b, c, bs) ==
  /\ bs \in [1..(Len(s) + 1) -> Belief]
  /\ bs[1] = b /\ bs[Len(s) + 1] = c
  /\ \A n \in 1..Len(s) : Rule(k, s[n], bs[n], bs[n + 1])

LEMMA TripleChain == \A k, s, b, c : Triple(k, s, b, c) <=> \E bs : Chain(k, s, b, c, bs)
BY DEF Triple, Chain

LEMMA TripleOne ==
  \A k, s : \A b, c \in Belief : Rule(k, s, b, c) => Triple(k, <<s>>, b, c)
<1> SUFFICES ASSUME NEW k, NEW s, NEW b \in Belief, NEW c \in Belief, Rule(k, s, b, c)
             PROVE  Triple(k, <<s>>, b, c)
  OBVIOUS
<1> DEFINE bs == [n \in 1..2 |-> IF n = 1 THEN b ELSE c]
<1>1. Len(<<s>>) = 1 /\ <<s>>[1] = s
  OBVIOUS
<1>2. bs \in [1..2 -> Belief] /\ bs[1] = b /\ bs[2] = c
  OBVIOUS
<1> HIDE DEF bs
<1>3. Chain(k, <<s>>, b, c, bs)
  BY <1>1, <1>2 DEF Chain
<1> QED
  BY <1>3, TripleChain

LEMMA TripleEnds == \A k, b, c : \A s \in Seq(Step) : Triple(k, s, b, c) => b \in Belief /\ c \in Belief
BY LenProperties DEF Triple

LEMMA TripleJoin ==
  \A k, b, m, c : \A s, t \in Seq(Step) :
    Triple(k, s, b, m) /\ Triple(k, t, m, c) => Triple(k, s \o t, b, c)
<1> SUFFICES ASSUME NEW k, NEW b, NEW m, NEW c, NEW s \in Seq(Step), NEW t \in Seq(Step),
                    Triple(k, s, b, m), Triple(k, t, m, c)
             PROVE  Triple(k, s \o t, b, c)
  OBVIOUS
<1>1. PICK bs : Chain(k, s, b, m, bs)
  BY TripleChain
<1>2. PICK cs : Chain(k, t, m, c, cs)
  BY TripleChain
<1> DEFINE i == Len(s)  j == Len(t)  u == s \o t
           ds == [n \in 1..(i + j + 1) |-> IF n <= i THEN bs[n] ELSE cs[n - i]]
<1>3. /\ i \in Nat /\ j \in Nat /\ Len(u) = i + j
      /\ \A n \in 1..(i + j) : u[n] = IF n <= i THEN s[n] ELSE t[n - i]
  BY ConcatProperties, LenProperties
<1>4. /\ bs \in [1..(i + 1) -> Belief] /\ bs[1] = b /\ bs[i + 1] = m
      /\ \A n \in 1..i : Rule(k, s[n], bs[n], bs[n + 1])
  BY <1>1 DEF Chain
<1>5. /\ cs \in [1..(j + 1) -> Belief] /\ cs[1] = m /\ cs[j + 1] = c
      /\ \A n \in 1..j : Rule(k, t[n], cs[n], cs[n + 1])
  BY <1>2 DEF Chain
<1> HIDE DEF i, j, u
<1>6. ds \in [1..(i + j + 1) -> Belief]
  <2> SUFFICES ASSUME NEW n \in 1..(i + j + 1) PROVE ds[n] \in Belief
    OBVIOUS
  <2>1. CASE n <= i
    BY <1>3, <1>4, <2>1
  <2>2. CASE ~(n <= i)
    <3>1. n - i \in 1..(j + 1)
      BY <1>3, <2>2
    <3> QED
      BY <1>5, <2>2, <3>1
  <2> QED
    BY <2>1, <2>2
<1>7. \A n \in 1..(i + 1) : ds[n] = bs[n]
  <2> SUFFICES ASSUME NEW n \in 1..(i + 1) PROVE ds[n] = bs[n]
    OBVIOUS
  <2>1. n \in 1..(i + j + 1) /\ (n <= i \/ n = i + 1)
    BY <1>3
  <2>2. n = i + 1 => n - i = 1 /\ ~(n <= i)
    BY <1>3
  <2> QED
    BY <1>4, <1>5, <2>1, <2>2
<1>8. \A n \in 1..(j + 1) : ds[i + n] = cs[n]
  <2> SUFFICES ASSUME NEW n \in 1..(j + 1) PROVE ds[i + n] = cs[n]
    OBVIOUS
  <2>1. i + n \in 1..(i + j + 1) /\ ~(i + n <= i) /\ (i + n) - i = n
    BY <1>3
  <2> QED
    BY <2>1
<1> HIDE DEF ds
<1>9. ds[1] = b /\ ds[i + j + 1] = c
  <2>1. 1 \in 1..(i + 1) /\ j + 1 \in 1..(j + 1) /\ i + (j + 1) = i + j + 1
    BY <1>3
  <2> QED
    BY <1>4, <1>5, <1>7, <1>8, <2>1
<1>10. ASSUME NEW n \in 1..(i + j) PROVE Rule(k, u[n], ds[n], ds[n + 1])
  <2>1. CASE n <= i
    <3>1. n \in 1..i /\ n \in 1..(i + 1) /\ n + 1 \in 1..(i + 1)
      BY <1>3, <2>1
    <3>2. u[n] = s[n] /\ ds[n] = bs[n] /\ ds[n + 1] = bs[n + 1]
      BY <1>3, <1>7, <2>1, <3>1
    <3> QED
      BY <1>4, <3>1, <3>2
  <2>2. CASE ~(n <= i)
    <3> DEFINE l == n - i
    <3>1. l \in 1..j /\ l \in 1..(j + 1) /\ l + 1 \in 1..(j + 1) /\ i + l = n /\ i + (l + 1) = n + 1
      BY <1>3, <2>2
    <3>2. u[n] = t[l]
      BY <1>3, <2>2
    <3> HIDE DEF l
    <3>3. ds[n] = cs[l] /\ ds[n + 1] = cs[l + 1]
      BY <1>8, <3>1
    <3> QED
      BY <1>5, <3>1, <3>2, <3>3
  <2> QED
    BY <2>1, <2>2
<1>11. Chain(k, u, b, c, ds)
  BY <1>3, <1>6, <1>9, <1>10 DEF Chain
<1> QED
  BY <1>11, TripleChain DEF u

LEMMA TripleHead ==
  ASSUME NEW k, NEW b, NEW c, NEW s \in Seq(Step), s # << >>, Triple(k, s, b, c)
  PROVE  \E m \in Belief : Rule(k, Head(s), b, m) /\ Triple(k, Tail(s), m, c)
<1>1. PICK bs : Chain(k, s, b, c, bs)
  BY TripleChain
<1> DEFINE i == Len(s)  t == Tail(s)
           cs == [n \in 1..i |-> bs[n + 1]]
<1>2. /\ i \in Nat \ {0} /\ Len(t) = i - 1 /\ Head(s) = s[1]
      /\ \A n \in 1..(i - 1) : t[n] = s[n + 1]
  BY HeadTailProperties, EmptySeq
<1>3. /\ bs \in [1..(i + 1) -> Belief] /\ bs[1] = b /\ bs[i + 1] = c
      /\ \A n \in 1..i : Rule(k, s[n], bs[n], bs[n + 1])
  BY <1>1 DEF Chain
<1> HIDE DEF i, t
<1>4. cs \in [1..i -> Belief] /\ cs[1] = bs[2] /\ cs[i] = c
  BY <1>2, <1>3
<1>5. \A n \in 1..i : cs[n] = bs[n + 1]
  OBVIOUS
<1> HIDE DEF cs
<1>6. ASSUME NEW n \in 1..(i - 1) PROVE Rule(k, t[n], cs[n], cs[n + 1])
  <2>1. n \in 1..i /\ n + 1 \in 1..i
    BY <1>2
  <2>2. t[n] = s[n + 1] /\ cs[n] = bs[n + 1] /\ cs[n + 1] = bs[(n + 1) + 1]
    BY <1>2, <1>5, <2>1
  <2> QED
    BY <1>3, <2>1, <2>2
<1>7. (i - 1) + 1 = i
  BY <1>2
<1>8. Chain(k, t, bs[2], c, cs)
  BY <1>2, <1>4, <1>6, <1>7 DEF Chain
<1>9. Rule(k, Head(s), b, bs[2]) /\ bs[2] \in Belief
  <2>1. 1 \in 1..i /\ 1 + 1 = 2 /\ 2 \in 1..(i + 1)
    BY <1>2
  <2> QED
    BY <1>2, <1>3, <2>1
<1> QED
  BY <1>8, <1>9, TripleChain DEF t

(* Nothing need be believed of a key that no step is on.                   *)
LEMMA TripleIdle ==
  ASSUME NEW k, NEW s \in Seq(Step), \A n \in 1..Len(s) : Rule(k, s[n], Nothing, Nothing)
  PROVE  Triple(k, s, Nothing, Nothing)
<1> DEFINE bs == [n \in 1..(Len(s) + 1) |-> Nothing]
<1>1. Nothing \in Belief
  BY DataWords DEF Nothing, Bel, Belief
<1>2. Len(s) \in Nat
  BY LenProperties
<1>3. Chain(k, s, Nothing, Nothing, bs)
  BY <1>1, <1>2 DEF Chain
<1> QED
  BY <1>3, TripleChain

(* The rounds, one after the other.                                        *)
LEMMA TripleRounds ==
  ASSUME NEW k, NEW bb \in [1..(Rounds + 1) -> Belief],
         \A r \in 1..Rounds : Triple(k, AddKillSetSetRound(r), bb[r], bb[r + 1])
  PROVE  Triple(k, AddKillSetSetDataContentionSet, bb[1], bb[Rounds + 1])
<1> DEFINE R == Rounds
           s == AddKillSetSetDataContentionSet
           f == [r \in 1..R |-> CHOOSE bs : Chain(k, AddKillSetSetRound(r), bb[r], bb[r + 1], bs)]
           row(n) == ((n - 1) \div 10) + 1
           col(n) == ((n - 1) % 10) + 1
           ds == [n \in 1..(10 * R + 1) |-> IF n = 10 * R + 1 THEN bb[R + 1] ELSE f[row(n)][col(n)]]
<1>1. R \in Nat \ {0}
  BY StoreAssumption
<1>2. ASSUME NEW r \in 1..R
      PROVE  /\ f[r] \in [1..11 -> Belief] /\ f[r][1] = bb[r] /\ f[r][11] = bb[r + 1]
             /\ \A i \in 1..10 : Rule(k, AddKillSetSetRound(r)[i], f[r][i], f[r][i + 1])
  <2>1. \E bs : Chain(k, AddKillSetSetRound(r), bb[r], bb[r + 1], bs)
    BY TripleChain
  <2>2. Chain(k, AddKillSetSetRound(r), bb[r], bb[r + 1], f[r])
    BY <2>1
  <2>3. Len(AddKillSetSetRound(r)) = 10 /\ 10 + 1 = 11
    BY RoundTypes, TwoKeys
  <2> HIDE DEF f
  <2> QED
    BY <2>2, <2>3 DEF Chain
<1>3. /\ Len(s) = 10 * R
      /\ \A n \in 1..(10 * R) : s[n] = AddKillSetSetRound(row(n))[col(n)]
  BY RoundsTypes
<1>4. \A n \in 1..(10 * R) : row(n) \in 1..R /\ col(n) \in 1..10 /\ n = 10 * (row(n) - 1) + col(n)
  BY <1>1, RoundsIndex
<1>5. \A n \in 1..(10 * R) : n < 10 * R /\ col(n) # 10 => row(n + 1) = row(n) /\ col(n + 1) = col(n) + 1
  BY <1>1
<1>6. \A n \in 1..(10 * R) : n < 10 * R /\ col(n) = 10 => row(n + 1) = row(n) + 1 /\ col(n + 1) = 1
  BY <1>1
<1>7. \A n \in 1..(10 * R) : n = 10 * R => row(n) = R /\ col(n) = 10
  BY <1>1
<1> HIDE DEF f, row, col, s
<1>8. ds \in [1..(10 * R + 1) -> Belief]
  <2> SUFFICES ASSUME NEW n \in 1..(10 * R + 1) PROVE ds[n] \in Belief
    OBVIOUS
  <2>1. CASE n = 10 * R + 1
    BY <1>1, <2>1
  <2>2. CASE n # 10 * R + 1
    <3>1. n \in 1..(10 * R)
      BY <1>1, <2>2
    <3>2. row(n) \in 1..R /\ col(n) \in 1..11
      BY <1>4, <3>1
    <3>3. f[row(n)][col(n)] \in Belief
      BY <1>2, <3>2
    <3> QED
      BY <2>2, <3>3
  <2> QED
    BY <2>1, <2>2
<1>9. ASSUME NEW n \in 1..(10 * R)
      PROVE  ds[n] = f[row(n)][col(n)] /\ ds[n + 1] = f[row(n)][col(n) + 1]
  <2>1. /\ n \in 1..(10 * R + 1) /\ n + 1 \in 1..(10 * R + 1) /\ n # 10 * R + 1
        /\ n + 1 = 10 * R + 1 <=> n = 10 * R
    BY <1>1
  <2>2. row(n) \in 1..R /\ col(n) \in 1..10
    BY <1>4
  <2>3. ds[n] = f[row(n)][col(n)]
    BY <2>1
  <2>4. CASE n = 10 * R
    <3>1. row(n) = R /\ col(n) + 1 = 11
      BY <1>7, <2>4
    <3>2. ds[n + 1] = bb[R + 1]
      BY <2>1, <2>4
    <3> QED
      BY <1>2, <2>2, <2>3, <3>1, <3>2
  <2>5. CASE n # 10 * R /\ col(n) # 10
    <3>1. row(n + 1) = row(n) /\ col(n + 1) = col(n) + 1
      BY <1>1, <1>5, <2>5
    <3>2. ds[n + 1] = f[row(n + 1)][col(n + 1)]
      BY <2>1, <2>5
    <3> QED
      BY <2>3, <3>1, <3>2
  <2>6. CASE n # 10 * R /\ col(n) = 10
    <3>1. row(n + 1) = row(n) + 1 /\ col(n + 1) = 1 /\ col(n) + 1 = 11
      BY <1>1, <1>6, <2>6
    <3>2. ds[n + 1] = f[row(n) + 1][1]
      BY <2>1, <2>6, <3>1
    <3>3. row(n) + 1 \in 1..R
      <4>1. n + 1 \in 1..(10 * R)
        BY <1>1, <2>6
      <4> QED
        BY <1>4, <3>1, <4>1
    <3>4. f[row(n) + 1][1] = bb[row(n) + 1] /\ f[row(n)][11] = bb[row(n) + 1]
      BY <1>2, <2>2, <3>3
    <3> QED
      BY <2>3, <3>1, <3>2, <3>4
  <2> QED
    BY <2>4, <2>5, <2>6
<1>10. ds[1] = bb[1]
  <2>1. row(1) = 1 /\ col(1) = 1
    BY DEF row, col
  <2>2. 1 \in 1..(10 * R) /\ 1 \in 1..R
    BY <1>1
  <2>3. ds[1] = f[1][1]
    BY <1>9, <2>1, <2>2
  <2> QED
    BY <1>2, <2>2, <2>3
<1>11. ds[10 * R + 1] = bb[R + 1]
  BY <1>1
<1> HIDE DEF ds
<1>12. ASSUME NEW n \in 1..(10 * R) PROVE Rule(k, s[n], ds[n], ds[n + 1])
  <2>1. row(n) \in 1..R /\ col(n) \in 1..10
    BY <1>4
  <2>2. Rule(k, AddKillSetSetRound(row(n))[col(n)], f[row(n)][col(n)], f[row(n)][col(n) + 1])
    BY <1>2, <2>1
  <2> QED
    BY <1>3, <1>9, <2>2
<1>13. Chain(k, s, bb[1], bb[R + 1], ds)
  BY <1>3, <1>8, <1>10, <1>11, <1>12 DEF Chain
<1> QED
  BY <1>13, TripleChain DEF s

-----------------------------------------------------------------------------
(* The rules are sound: steps on another key *)

(* Nothing of the key changes, and no copy of it is sent.                  *)
Same(k) ==
  /\ UNCHANGED <<choice, host, up>>
  /\ item'[k] = item[k] /\ cas'[k] = cas[k]
  /\ inFlight' = inFlight \/ \E w \in Copy : w.key # k /\ inFlight' = Append(inFlight, w)

LEMMA SameServers ==
  ASSUME UNCHANGED <<choice, up>>, NEW k, item'[k] = item[k]
  PROVE  /\ Primary(k)' = Primary(k) /\ Backup(k)' = Backup(k)
         /\ FirstUp(k)' = FirstUp(k) /\ Second(k)' = Second(k)
         /\ Holders(k)' = Holders(k) /\ Holder(k)' = Holder(k)
         /\ ServersOf(test)' = ServersOf(test)
<1>1. Primary(k)' = Primary(k) /\ Backup(k)' = Backup(k) /\ ServersOf(test)' = ServersOf(test)
  BY ChoiceStays
<1>2. Holders(k)' = Holders(k)
  BY <1>1 DEF Holders, None
<1> QED
  BY <1>1, <1>2 DEF FirstUp, Second, Holder

LEMMA SameHolds ==
  ASSUME TypeInv, NEW k \in Keys, NEW b \in Belief, Same(k), Holds(k, b)
  PROVE  Holds(k, b)'
<1> SUFFICES ASSUME b.rec # "nothing" PROVE (HoldsRec(k, b) /\ HoldsCas(k, b) /\ HoldsRest(k, b))'
  BY DEF Holds
<1>1. HoldsRec(k, b) /\ HoldsCas(k, b) /\ HoldsRest(k, b)
  BY DEF Holds
<1>2. /\ NoneFor(inFlight, k) => NoneFor(inFlight, k)'
      /\ \A s : AllTo(inFlight, k, s) => AllTo(inFlight', k, s)
      /\ ShortFor(inFlight, k) => ShortFor(inFlight, k)'
      /\ \A now, v : Settles(inFlight, k, now, v) => Settles(inFlight', k, now, v)
  <2>1. CASE inFlight' = inFlight
    BY <2>1
  <2>2. CASE \E w \in Copy : w.key # k /\ inFlight' = Append(inFlight, w)
    BY <2>2, OtherSent DEF TypeInv, FlightOK
  <2> QED
    BY <2>1, <2>2 DEF Same
<1>3. UNCHANGED <<choice, host, up>> /\ item'[k] = item[k] /\ cas'[k] = cas[k]
  BY DEF Same
<1>4. /\ Primary(k)' = Primary(k) /\ Backup(k)' = Backup(k)
      /\ FirstUp(k)' = FirstUp(k) /\ Second(k)' = Second(k)
      /\ Holders(k)' = Holders(k) /\ Holder(k)' = Holder(k)
      /\ ServersOf(test)' = ServersOf(test)
  BY <1>3, SameServers
<1>5. Absent(k) => Absent(k)'
  BY <1>2, <1>3, <1>4 DEF Absent, None
<1>6. \A d : AtPrimary(k, d) => AtPrimary(k, d)'
  BY <1>2, <1>3, <1>4 DEF AtPrimary
<1>7. \A d : AtBackup(k, d) => AtBackup(k, d)'
  BY <1>2, <1>3, <1>4 DEF AtBackup
<1>8. \A d : AtBackupOnly(k, d) => AtBackupOnly(k, d)'
  BY <1>2, <1>3, <1>4 DEF AtBackupOnly, None
<1>9. \A d : Synced(k, d) => Synced(k, d)'
  BY <1>2, <1>3, <1>4 DEF Synced, None
<1>10. Gone(k) => Gone(k)'
  BY <1>2, <1>3, <1>4 DEF Gone, None
<1>11. HoldsRec(k, b)'
  BY <1>1, <1>5, <1>6, <1>7, <1>8, <1>9, <1>10 DEF HoldsRec, Held
<1>12. HoldsCas(k, b)'
  BY <1>1, <1>3, <1>4 DEF HoldsCas, IsCurrent
<1>13. HoldsRest(k, b)'
  BY <1>1, <1>2, <1>3, <1>4 DEF HoldsRest, AllShort, Resolves, None
<1> QED
  BY <1>11, <1>12, <1>13

-----------------------------------------------------------------------------
(* The rules are sound: SET *)

LEMMA BeliefIs ==
  ASSUME NEW b \in Belief
  PROVE  /\ b.rec \in {"absent", "synced", "held", "gone", "nothing"} /\ b.data \in Data
         /\ b.cas \in {"zero", "current", "stale", "any"} /\ b.short \in BOOLEAN
         /\ b.up \in {"all", "some"} /\ b.host \in {"good", "bad"}
         /\ b.cas = "current" => b.rec \in {"synced", "held"}
         /\ b.cas = "stale" => b.rec \in {"absent", "synced", "held"}
         /\ b.rec = "nothing" => b = Nothing
BY DEF Belief

LEMMA DataIsThere ==
  ASSUME TypeInv, NEW k \in Keys, NEW s \in ServersOf(test), NEW d \in Data
  PROVE  item[k][s].data = d => item[k][s] # None
BY DataWords, NoneIs

(* The store accepts the SET, or refuses it, as the rules say.             *)
LEMMA TakesIsRight ==
  ASSUME TypeInv, NEW k \in Keys, NEW b \in Belief, NEW s \in Step, s.op = "set",
         b.rec # "nothing", Holds(k, b)
  PROVE  /\ Takes(s, b) => Accepts(k, IF s.from = "zero" THEN 0 ELSE cas[k])
         /\ Refuses(s, b) => ~Accepts(k, IF s.from = "zero" THEN 0 ELSE cas[k])
<1> DEFINE c == IF s.from = "zero" THEN 0 ELSE cas[k]
<1>1. HoldsRec(k, b) /\ HoldsCas(k, b)
  BY DEF Holds
<1>2. ChoiceOK /\ UpOK
  BY DEF TypeInv
<1>3. CASE s.from = "cas" /\ b.cas = "current"
  BY <1>1, <1>3 DEF HoldsCas, IsCurrent, Accepts, Takes, Refuses
<1>4. CASE b.rec = "absent" /\ b.cas = "zero"
  <2>1. c = 0 /\ item[k][FirstUp(k)] = None
    BY <1>1, <1>2, <1>4, Placed, OneIsUp DEF HoldsRec, HoldsCas, Absent
  <2> QED
    BY <1>4, <2>1 DEF Accepts, Takes, Refuses
<1>5. CASE s.from = "cas" /\ b.cas = "stale"
  BY <1>1, <1>5 DEF HoldsCas, IsCurrent, Accepts, Takes, Refuses
<1>6. CASE b.rec = "synced" /\ b.cas = "zero"
  <2>1. c = 0 /\ up = ServersOf(test) /\ item[k][Primary(k)].data \in Data
    BY <1>1, <1>6, BeliefIs DEF HoldsRec, HoldsCas, Synced
  <2>2. item[k][FirstUp(k)] # None
    BY <1>2, <2>1, Placed, DataIsThere DEF FirstUp
  <2> QED
    BY <1>6, <2>1, <2>2 DEF Accepts, Takes, Refuses
<1> QED
  BY <1>3, <1>4, <1>5, <1>6 DEF Takes, Refuses

(* A SET that the belief foresees.                                         *)
LEMMA SetOutcome ==
  ASSUME TypeInv, SetData, store = "correct", NEW b \in Belief, b.rec # "nothing",
         Holds(Current.key, b), ~failed
  PROVE  /\ b.host = "bad" /\ "ERROR" \in Current.rcs
              => /\ UNCHANGED <<item, lastCas, inFlight>> /\ ~failed' /\ todo' = Tail(todo)
         /\ b.host = "good" /\ Refuses(Current, b) /\ "DATA_CONTENTION" \in Current.rcs
              => /\ UNCHANGED <<item, lastCas, inFlight>> /\ ~failed'
                 /\ todo' = Current.retry \o Tail(todo)
         /\ b.host = "good" /\ Takes(Current, b) /\ "OK" \in Current.rcs
              => /\ Store(Current.key, Current.data, Current.ttl) /\ ~failed' /\ todo' = Tail(todo)
<1> DEFINE k  == Current.key
           c  == IF Current.from = "zero" THEN 0 ELSE cas[k]
           rc == SetStatus(k, c)
<1>1. AtStep("set")
  BY DEF SetData
<1>2. Current \in Step /\ Current.op = "set" /\ k \in Keys /\ Tail(todo) \in Seq(Step)
  BY <1>1, AtStepIs, SetStepIs
<1>3. << >> \o Tail(todo) = Tail(todo)
  BY <1>2, ConcatEmptySeq
<1>4. b.host = "good" <=> Resolves
  BY DEF Holds, HoldsRest
<1>5. /\ Takes(Current, b) => Accepts(k, c)
      /\ Refuses(Current, b) => ~Accepts(k, c)
  BY <1>2, TakesIsRight
<1> HIDE DEF c
<1>6. /\ b.host = "bad" => rc = "ERROR"
      /\ b.host = "good" /\ Refuses(Current, b) => rc = "DATA_CONTENTION"
      /\ b.host = "good" /\ Takes(Current, b) => rc = "OK"
  BY <1>4, <1>5 DEF SetStatus
<1>7. /\ IF rc = "OK" \/ (rc = "DATA_CONTENTION" /\ store = "contention_stored")
           THEN Store(k, Current.data, Current.ttl) ELSE UNCHANGED <<item, lastCas, inFlight>>
      /\ failed' = (failed \/ rc \notin Current.rcs)
      /\ todo' = (IF rc = "DATA_CONTENTION" THEN Current.retry ELSE << >>) \o Tail(todo)
  BY DEF SetData, c
<1> HIDE DEF rc, k
<1>8. CASE rc = "ERROR"
  BY <1>3, <1>6, <1>7, <1>8 DEF k
<1>9. CASE rc = "DATA_CONTENTION"
  BY <1>3, <1>6, <1>7, <1>9 DEF k
<1>10. CASE rc = "OK"
  BY <1>3, <1>6, <1>7, <1>10 DEF k
<1> QED
  BY <1>6, <1>8, <1>9, <1>10, BeliefIs

(* Before a SET is made, every copy of the key goes to the second server.  *)
LEMMA CopiesToSecond ==
  ASSUME TypeInv, NEW k \in Keys, NEW b \in Belief, b.rec \in {"absent", "synced", "held"},
         HoldsRec(k, b)
  PROVE  AllTo(inFlight, k, Second(k))
<1>1. NoneFor(inFlight, k) => AllTo(inFlight, k, Second(k))
  BY DEF NoneFor, AllTo
<1>2. CASE b.rec = "absent"
  BY <1>1, <1>2 DEF HoldsRec, Absent
<1>3. CASE b.rec = "synced"
  BY <1>3, Placed DEF HoldsRec, Synced, Second, TypeInv
<1>4. CASE b.rec = "held"
  BY <1>1, <1>4 DEF HoldsRec, Held, AtPrimary, AtBackup, AtBackupOnly, Second
<1> QED
  BY <1>2, <1>3, <1>4

(* What a SET leaves at the first server and sends to the second.          *)
LEMMA StoredIs ==
  ASSUME TypeInv, NEW k \in Keys, NEW d \in Data, NEW ttl \in Ttl, Store(k, d, ttl),
         UNCHANGED <<choice, up>>
  PROVE  /\ FirstUp(k)' = FirstUp(k) /\ Second(k)' = Second(k)
         /\ Primary(k)' = Primary(k) /\ Backup(k)' = Backup(k)
         /\ item'[k][FirstUp(k)] = IF ttl = "zero" THEN None
                                     ELSE [data |-> d, ttl |-> ttl, cas |-> lastCas + 1]
         /\ \A s \in ServersOf(test) : s # FirstUp(k) => item'[k][s] = item[k][s]
         /\ \A j \in Keys : j # k => item'[j] = item[j]
<1> DEFINE new == IF ttl = "zero" THEN None ELSE [data |-> d, ttl |-> ttl, cas |-> lastCas + 1]
<1>1. FirstUp(k) \in ServersOf(test)
  BY OneIsUp, Placed DEF TypeInv
<1>2. item \in [Keys -> [ServersOf(test) -> Item \cup {None}]]
  BY DEF TypeInv, ItemsOK
<1>3. item' = [item EXCEPT ![k][FirstUp(k)] = new]
  BY DEF Store, WriteAt
<1>4. Primary(k)' = Primary(k) /\ Backup(k)' = Backup(k)
  BY ChoiceStays
<1>5. FirstUp(k)' = FirstUp(k) /\ Second(k)' = Second(k)
  BY <1>4 DEF FirstUp, Second
<1> HIDE DEF new
<1>6. /\ item'[k][FirstUp(k)] = new
      /\ \A s \in ServersOf(test) : s # FirstUp(k) => item'[k][s] = item[k][s]
      /\ \A j \in Keys : j # k => item'[j] = item[j]
  BY <1>1, <1>2, <1>3
<1> QED
  BY <1>4, <1>5, <1>6 DEF new

LEMMA SentIsCopy ==
  ASSUME TypeInv, NEW k \in Keys, NEW d \in Data, NEW ttl \in Ttl, Store(k, d, ttl)
  PROVE  \E w \in Copy : /\ w.key = k /\ w.to = Second(k) /\ w.data = d /\ w.ttl = ttl
                         /\ inFlight' = Append(inFlight, w)
<1> DEFINE w == [key |-> k, to |-> Second(k), data |-> d, ttl |-> ttl]
<1>1. w \in Copy /\ inFlight' = Append(inFlight, w)
  BY OneIsUp, Placed DEF TypeInv, Store, Copy
<1> QED
  BY <1>1

LEMMA StoreHolds ==
  ASSUME TypeInv, NEW k \in Keys, NEW b \in Belief, NEW s \in Step, s.op = "set",
         b.rec # "nothing", Holds(k, b), b.host = "good", Takes(s, b),
         Store(k, s.data, s.ttl), UNCHANGED <<choice, host, up, cas>>
  PROVE  Holds(k, AfterSet(s, b))'
<1> DEFINE F == FirstUp(k)  S == Second(k)  c == AfterSet(s, b)
<1>1. s.data \in Data /\ s.ttl \in Ttl
  BY StepTypes DEF SetSteps
<1>2. HoldsRec(k, b) /\ HoldsCas(k, b) /\ HoldsRest(k, b)
  BY DEF Holds
<1>3. /\ \/ b.cas = "current" /\ b.rec \in {"synced", "held"}
         \/ b.cas = "zero" /\ b.rec = "absent"
      /\ ~Refuses(s, b) /\ b.rec \in {"absent", "synced", "held"}
  BY BeliefIs DEF Takes, Refuses
<1>4. /\ F' = F /\ S' = S /\ Primary(k)' = Primary(k) /\ Backup(k)' = Backup(k)
      /\ item'[k][F] = IF s.ttl = "zero" THEN None
                         ELSE [data |-> s.data, ttl |-> s.ttl, cas |-> lastCas + 1]
      /\ \A r \in ServersOf(test) : r # F => item'[k][r] = item[k][r]
  BY <1>1, StoredIs
<1>5. /\ F \in up /\ F \in {Primary(k), Backup(k)} /\ F # S /\ S \in {Primary(k), Backup(k)}
      /\ F \in ServersOf(test) /\ S \in ServersOf(test)
      /\ \/ F = Primary(k) /\ S = Backup(k)
         \/ F = Backup(k) /\ S = Primary(k) /\ Primary(k) \notin up
      /\ Primary(k) # Backup(k)
  BY OneIsUp, Placed DEF TypeInv, FirstUp, Second
<1>6. /\ AllTo(inFlight', k, S)
      /\ \A now : Settles(inFlight', k, now, IF s.ttl = "zero" THEN "none" ELSE s.data)
      /\ NoneFor(inFlight, k) /\ s.ttl = "short" => ShortFor(inFlight', k)
  <2>1. PICK w \in Copy : /\ w.key = k /\ w.to = S /\ w.data = s.data /\ w.ttl = s.ttl
                          /\ inFlight' = Append(inFlight, w)
    BY <1>1, SentIsCopy
  <2>2. AllTo(inFlight, k, S)
    BY <1>2, <1>3, CopiesToSecond
  <2>3. NoneFor(inFlight, k) => ShortFor(inFlight, k)
    BY DEF NoneFor, ShortFor
  <2> QED
    BY <2>1, <2>2, <2>3, OwnSent DEF Value, TypeInv, FlightOK
<1>7. UNCHANGED <<choice, host, up, cas>> /\ ServersOf(test)' = ServersOf(test)
  BY ChoiceStays
<1>8. lastCas \in Nat /\ cas[k] \in 0..lastCas
  BY DEF TypeInv, ItemsOK
<1> HIDE DEF F, S
<1>9. CASE s.ttl = "zero"
  <2>1. c.rec = "gone" /\ c.cas = "any" /\ c.short = FALSE /\ c.up = b.up /\ c.host = b.host
    BY <1>3, <1>9 DEF AfterSet, Bel
  <2>2. Gone(k)'
    BY <1>4, <1>6, <1>9 DEF Gone, F, S, None
  <2>3. HoldsRest(k, c)'
    BY <1>2, <1>7, <2>1 DEF HoldsRest, Resolves
  <2> HIDE DEF c
  <2> QED
    BY <2>1, <2>2, <2>3 DEF Holds, HoldsRec, HoldsCas, c
<1>10. CASE s.ttl # "zero"
  <2>1. /\ c.rec = (IF b.rec = "synced" \/ (b.rec = "absent" /\ b.up = "all") THEN "synced" ELSE "held")
        /\ c.data = s.data /\ c.cas = (IF b.cas = "zero" THEN "zero" ELSE "stale")
        /\ c.short = (b.rec = "absent" /\ s.ttl = "short")
        /\ c.up = b.up /\ c.host = b.host
    BY <1>3, <1>10 DEF AfterSet, Bel
  <2>2. item'[k][F].data = s.data /\ item'[k][F].cas = lastCas + 1 /\ item'[k][F].ttl = s.ttl
    BY <1>4, <1>10
  <2>3. item'[k][F] # None
    BY <1>1, <2>2, NoneIs, DataWords
  <2>4. Held(k, s.data)'
    BY <1>4, <1>5, <1>6, <1>7, <2>2 DEF Held, AtPrimary, AtBackup
  <2>5. c.rec = "synced" => Synced(k, s.data)'
    <3> SUFFICES ASSUME c.rec = "synced" PROVE Synced(k, s.data)'
      OBVIOUS
    <3>1. up = ServersOf(test)
      BY <1>2, <2>1 DEF HoldsRec, HoldsRest, Synced
    <3>2. F = Primary(k) /\ S = Backup(k)
      BY <1>5, <3>1
    <3>3. item'[k][S] # None => item'[k][S].cas # lastCas + 1
      <4>1. item'[k][S] = item[k][S]
        BY <1>4, <1>5
      <4>2. item[k][S] # None => item[k][S].cas \in 1..lastCas
        BY <1>5, ItemIs DEF TypeInv
      <4> QED
        BY <1>8, <4>1, <4>2
    <3>4. Settles(inFlight', k, item'[k][S].data, s.data)
      BY <1>6, <1>10
    <3> QED
      BY <1>4, <1>6, <1>7, <2>2, <3>1, <3>2, <3>3, <3>4 DEF Synced, None
  <2>6. Holder(k)' = F /\ F \in Holders(k)'
    <3>1. F \in Holders(k)'
      BY <1>4, <1>5, <1>7, <2>3 DEF Holders, None
    <3>2. Primary(k) \notin up => Primary(k) \notin Holders(k)'
      BY <1>4, <1>7 DEF Holders
    <3> QED
      BY <1>4, <1>5, <3>1, <3>2 DEF Holder
  <2>7. ~IsCurrent(k)'
    BY <1>7, <1>8, <2>2, <2>6 DEF IsCurrent
  <2>8. HoldsCas(k, c)'
    BY <1>2, <1>3, <1>7, <2>1, <2>7 DEF HoldsCas
  <2>9. c.short => AllShort(k)'
    <3> SUFFICES ASSUME b.rec = "absent", s.ttl = "short" PROVE AllShort(k)'
      BY <2>1
    <3>1. NoneFor(inFlight, k) /\ item[k][F] = None /\ item[k][S] = None
      BY <1>2, <1>5 DEF HoldsRec, Absent
    <3>2. \A r \in {F, S} : item'[k][r] # None => item'[k][r].ttl = "short"
      BY <1>4, <1>5, <2>2, <3>1
    <3>3. {F, S} = {Primary(k), Backup(k)}
      BY <1>5
    <3> QED
      BY <1>4, <1>6, <3>1, <3>2, <3>3 DEF AllShort, None
  <2>10. HoldsRest(k, c)'
    BY <1>2, <1>7, <2>1, <2>9 DEF HoldsRest, Resolves
  <2> HIDE DEF c
  <2>11. HoldsRec(k, c)'
    BY <2>1, <2>4, <2>5 DEF HoldsRec
  <2> QED
    BY <2>8, <2>10, <2>11 DEF Holds, c
<1> QED
  BY <1>9, <1>10

-----------------------------------------------------------------------------
(* The rules are sound: a copy arrives between two steps *)

LEMMA HeldHolder ==
  ASSUME TypeInv, NEW k \in Keys, NEW d \in Data
  PROVE  /\ AtPrimary(k, d) => Holders(k) # {} /\ Holder(k) = Primary(k)
         /\ AtBackup(k, d) => Holders(k) # {} /\ Holder(k) = Backup(k)
         /\ AtBackupOnly(k, d) => Holders(k) # {} /\ Holder(k) = Backup(k)
         /\ Synced(k, d) => AtPrimary(k, d)
         /\ Held(k, d) => Holders(k) # {} /\ item[k][Holder(k)].data = d
         /\ Absent(k) => Holders(k) = {}
<1>1. Primary(k) \in ServersOf(test) /\ Backup(k) \in ServersOf(test)
  BY Placed DEF TypeInv
<1>2. /\ item[k][Primary(k)].data = d => item[k][Primary(k)] # None
      /\ item[k][Backup(k)].data = d => item[k][Backup(k)] # None
  BY <1>1, DataIsThere
<1>3. AtPrimary(k, d) => Holders(k) # {} /\ Holder(k) = Primary(k)
  BY <1>1, <1>2 DEF AtPrimary, Holders, Holder
<1>4. AtBackup(k, d) => Holders(k) # {} /\ Holder(k) = Backup(k)
  BY <1>1, <1>2 DEF AtBackup, Holders, Holder
<1>5. AtBackupOnly(k, d) => Holders(k) # {} /\ Holder(k) = Backup(k)
  BY <1>1, <1>2 DEF AtBackupOnly, Holders, Holder
<1>6. Synced(k, d) => AtPrimary(k, d)
  BY <1>1 DEF Synced, AtPrimary
<1>7. Held(k, d) => Holders(k) # {} /\ item[k][Holder(k)].data = d
  BY <1>3, <1>4, <1>5 DEF Held, AtPrimary, AtBackup, AtBackupOnly
<1>8. Absent(k) => Holders(k) = {}
  BY <1>1 DEF Absent, Holders
<1> QED
  BY <1>3, <1>4, <1>5, <1>6, <1>7, <1>8

LEMMA ArrivalIs ==
  ASSUME TypeInv, Replicate, NEW k \in Keys
  PROVE  LET w == Head(inFlight)
         IN  /\ w.key # k \/ w.to \notin up => item'[k] = item[k]
             /\ w.key = k /\ w.to \in up =>
                  /\ item'[k][w.to].data = Value(w)
                  /\ item'[k][w.to] = None
                       \/ (item'[k][w.to].cas = lastCas + 1 /\ item'[k][w.to].ttl = w.ttl)
                  /\ \A s \in ServersOf(test) : s # w.to => item'[k][s] = item[k][s]
<1> DEFINE w == Head(inFlight)
           new == IF w.ttl = "zero" THEN None ELSE [data |-> w.data, ttl |-> w.ttl, cas |-> lastCas + 1]
<1>1. w.key \in Keys
  BY HeadCopyIs DEF Replicate, TypeInv
<1>2. item \in [Keys -> [ServersOf(test) -> Item \cup {None}]] /\ up \subseteq ServersOf(test)
  BY DEF TypeInv, ItemsOK, UpOK
<1>3. /\ new.data = Value(w)
      /\ new = None \/ (new.cas = lastCas + 1 /\ new.ttl = w.ttl)
  BY NoneIs DEF Value
<1>4. IF w.to \in up THEN item' = [item EXCEPT ![w.key][w.to] = new] ELSE item' = item
  BY DEF Replicate, WriteAt
<1> HIDE DEF w, new
<1>5. w.key # k \/ w.to \notin up => item'[k] = item[k]
  BY <1>1, <1>2, <1>4
<1>6. w.key = k /\ w.to \in up =>
        item'[k][w.to] = new /\ \A s \in ServersOf(test) : s # w.to => item'[k][s] = item[k][s]
  BY <1>1, <1>2, <1>4
<1>7. w.key = k /\ w.to \in up =>
        /\ item'[k][w.to].data = Value(w)
        /\ item'[k][w.to] = None
             \/ (item'[k][w.to].cas = lastCas + 1 /\ item'[k][w.to].ttl = w.ttl)
        /\ \A s \in ServersOf(test) : s # w.to => item'[k][s] = item[k][s]
  BY <1>3, <1>6
<1> QED
  BY <1>5, <1>7 DEF w

LEMMA ReplicateHolds ==
  ASSUME TypeInv, Replicate, NEW k \in Keys, NEW b \in Belief, Holds(k, b)
  PROVE  Holds(k, b)'
<1> SUFFICES ASSUME b.rec # "nothing" PROVE (HoldsRec(k, b) /\ HoldsCas(k, b) /\ HoldsRest(k, b))'
  BY DEF Holds
<1> DEFINE w == Head(inFlight)  P == Primary(k)  B == Backup(k)  F == FirstUp(k)  S == Second(k)
<1>1. HoldsRec(k, b) /\ HoldsCas(k, b) /\ HoldsRest(k, b) /\ b.data \in Data
  BY BeliefIs DEF Holds
<1>2. /\ UNCHANGED <<choice, host, up, cas>> /\ inFlight' = Tail(inFlight)
      /\ inFlight \in Seq(Copy) /\ inFlight # << >>
  BY DEF Replicate, TypeInv, FlightOK
<1>3. /\ w.key # k \/ w.to \notin up => item'[k] = item[k]
      /\ w.key = k /\ w.to \in up =>
           /\ item'[k][w.to].data = Value(w)
           /\ item'[k][w.to] = None
                \/ (item'[k][w.to].cas = lastCas + 1 /\ item'[k][w.to].ttl = w.ttl)
           /\ \A s \in ServersOf(test) : s # w.to => item'[k][s] = item[k][s]
  BY ArrivalIs
<1>4. /\ NoneFor(inFlight, k) => NoneFor(inFlight', k) /\ w.key # k
      /\ \A s : AllTo(inFlight, k, s) => AllTo(inFlight', k, s) /\ (w.key = k => w.to = s)
      /\ ShortFor(inFlight, k) => ShortFor(inFlight', k) /\ (w.key = k => w.ttl = "short")
  BY <1>2, CopyArrived
<1>5. \A now, v : Settles(inFlight, k, now, v) =>
        /\ w.key # k => Settles(inFlight', k, now, v)
        /\ w.key = k => \A then : then = Value(w) \/ then = v => Settles(inFlight', k, then, v)
  BY <1>2, SettlesOn
<1>6. /\ P' = P /\ B' = B /\ F' = F /\ S' = S /\ ServersOf(test)' = ServersOf(test)
      /\ P \in ServersOf(test) /\ B \in ServersOf(test) /\ P # B
      /\ F \in {P, B} /\ S \in {P, B} /\ F # S
  <2>1. P' = P /\ B' = B /\ ServersOf(test)' = ServersOf(test)
    BY <1>2, ChoiceStays
  <2> QED
    BY <1>2, <2>1, Placed, OneIsUp DEF TypeInv, FirstUp, Second
<1>7. \A s \in ServersOf(test) : s \notin up => item[k][s].data = "none"
  BY ItemIs DEF TypeInv, ItemsOK
<1> HIDE DEF w, P, B, F, S
<1>8. Absent(k) => Absent(k)' /\ item'[k] = item[k]
  BY <1>2, <1>3, <1>4, <1>6 DEF Absent, None, P, B
<1>9. \A d : AtPrimary(k, d) => AtPrimary(k, d)' /\ item'[k][P] = item[k][P]
  <2> SUFFICES ASSUME NEW d, AtPrimary(k, d) PROVE AtPrimary(k, d)' /\ item'[k][P] = item[k][P]
    OBVIOUS
  <2>1. AllTo(inFlight', k, B) /\ (w.key = k => w.to = B)
    BY <1>4 DEF AtPrimary, B
  <2>2. item'[k][P] = item[k][P]
    BY <1>3, <1>6, <2>1
  <2> QED
    BY <1>2, <1>6, <2>1, <2>2 DEF AtPrimary, P, B
<1>10. \A d : AtBackup(k, d) => AtBackup(k, d)' /\ item'[k][B] = item[k][B]
  <2> SUFFICES ASSUME NEW d, AtBackup(k, d) PROVE AtBackup(k, d)' /\ item'[k][B] = item[k][B]
    OBVIOUS
  <2>1. AllTo(inFlight', k, P) /\ (w.key = k => w.to = P)
    BY <1>4 DEF AtBackup, P
  <2>2. item'[k] = item[k]
    BY <1>3, <2>1 DEF AtBackup, P
  <2> QED
    BY <1>2, <1>6, <2>1, <2>2 DEF AtBackup, P, B
<1>11. \A d : AtBackupOnly(k, d) => AtBackupOnly(k, d)' /\ item'[k][B] = item[k][B]
  BY <1>2, <1>3, <1>4, <1>6 DEF AtBackupOnly, None, P, B
<1>12. \A d \in Data : Synced(k, d) => Synced(k, d)'
  <2> SUFFICES ASSUME NEW d \in Data, Synced(k, d) PROVE Synced(k, d)'
    OBVIOUS
  <2>1. /\ AllTo(inFlight', k, B) /\ (w.key = k => w.to = B)
        /\ Settles(inFlight, k, item[k][B].data, d) /\ up = ServersOf(test)
        /\ item[k][P].data = d
        /\ item[k][B] # None => item[k][B].cas # item[k][P].cas
    BY <1>4 DEF Synced, P, B
  <2>2. item'[k][P] = item[k][P]
    BY <1>3, <1>6, <2>1
  <2>3. CASE w.key # k
    <3>1. item'[k] = item[k] /\ Settles(inFlight', k, item[k][B].data, d)
      BY <1>3, <1>5, <2>1, <2>3
    <3> QED
      BY <1>2, <1>6, <2>1, <3>1 DEF Synced, None, P, B
  <2>4. CASE w.key = k
    <3>1. item'[k][B].data = Value(w) /\ (item'[k][B] = None \/ item'[k][B].cas = lastCas + 1)
      BY <1>3, <1>6, <2>1, <2>4
    <3>2. Settles(inFlight', k, item'[k][B].data, d)
      BY <1>5, <2>1, <2>4, <3>1
    <3>3. item'[k][B] # None => item'[k][B].cas # item'[k][P].cas
      <4>1. item[k][P] = None \/ item[k][P].cas \in 1..lastCas
        BY <1>6, ItemIs DEF TypeInv
      <4>2. lastCas \in Nat
        BY DEF TypeInv, ItemsOK
      <4>3. item[k][P] # None
        BY <1>6, <2>1, DataIsThere
      <4> QED
        BY <2>2, <3>1, <4>1, <4>2, <4>3
    <3> QED
      BY <1>2, <1>6, <2>1, <2>2, <3>2, <3>3 DEF Synced, None, P, B
  <2> QED
    BY <2>3, <2>4
<1>13. Gone(k) => Gone(k)'
  <2> SUFFICES ASSUME Gone(k) PROVE Gone(k)'
    OBVIOUS
  <2>1. /\ AllTo(inFlight', k, S) /\ (w.key = k => w.to = S)
        /\ Settles(inFlight, k, item[k][S].data, "none") /\ item[k][F] = None
    BY <1>4 DEF Gone, S, F
  <2>2. item'[k][F] = None
    BY <1>3, <1>6, <2>1
  <2>3. Settles(inFlight', k, item'[k][S].data, "none")
    <3>1. CASE w.key # k
      BY <1>3, <1>5, <2>1, <3>1
    <3>2. CASE w.key = k /\ S \in up
      BY <1>3, <1>5, <2>1, <3>2
    <3>3. CASE w.key = k /\ S \notin up
      <4>1. item'[k][S].data = "none"
        BY <1>3, <1>6, <1>7, <2>1, <3>3
      <4> QED
        BY <1>5, <2>1, <3>3, <4>1
    <3> QED
      BY <3>1, <3>2, <3>3
  <2> QED
    BY <1>6, <2>1, <2>2, <2>3 DEF Gone, None, S, F
<1>14. HoldsRec(k, b)'
  BY <1>1, <1>8, <1>9, <1>10, <1>11, <1>12, <1>13 DEF HoldsRec, Held
<1>15. b.rec \in {"absent", "synced", "held"} =>
         /\ Holders(k)' = {} <=> Holders(k) = {}
         /\ Holders(k) # {} => item'[k][Holder(k)'] = item[k][Holder(k)]
  <2> DEFINE d == b.data
  <2>1. CASE b.rec = "absent"
    <3>1. Absent(k) /\ Absent(k)'
      BY <1>1, <1>8, <2>1 DEF HoldsRec
    <3>2. Holders(k) = {}
      BY <1>1, <3>1, HeldHolder
    <3>3. Holders(k)' = {}
      BY <1>2, <1>6, <3>1 DEF Absent, Holders, None, P, B
    <3> QED
      BY <3>2, <3>3
  <2>2. ASSUME AtPrimary(k, d)
        PROVE  Holders(k) # {} /\ Holders(k)' # {} /\ item'[k][Holder(k)'] = item[k][Holder(k)]
    <3>1. Holders(k) # {} /\ Holder(k) = P
      BY <1>1, <2>2, HeldHolder DEF P
    <3>2. P \in Holders(k)'
      BY <1>2, <1>6, <1>9, <2>2, <1>1, DataIsThere DEF AtPrimary, Holders, None, P, B
    <3>3. Holder(k)' = P
      BY <1>6, <3>2 DEF Holder, P
    <3> QED
      BY <1>9, <2>2, <3>1, <3>2, <3>3
  <2>3. ASSUME AtBackup(k, d)
        PROVE  Holders(k) # {} /\ Holders(k)' # {} /\ item'[k][Holder(k)'] = item[k][Holder(k)]
    <3>1. Holders(k) # {} /\ Holder(k) = B
      BY <1>1, <2>3, HeldHolder DEF B
    <3>2. B \in Holders(k)' /\ P \notin Holders(k)'
      BY <1>2, <1>6, <1>10, <2>3, <1>1, DataIsThere DEF AtBackup, Holders, None, P, B
    <3>3. Holder(k)' = B
      BY <1>6, <3>2 DEF Holder, P, B
    <3> QED
      BY <1>10, <2>3, <3>1, <3>2, <3>3
  <2>4. ASSUME AtBackupOnly(k, d)
        PROVE  Holders(k) # {} /\ Holders(k)' # {} /\ item'[k][Holder(k)'] = item[k][Holder(k)]
    <3>1. Holders(k) # {} /\ Holder(k) = B
      BY <1>1, <2>4, HeldHolder DEF B
    <3>2. B \in Holders(k)' /\ P \notin Holders(k)'
      BY <1>2, <1>6, <1>11, <2>4, <1>1, DataIsThere DEF AtBackupOnly, Holders, None, P, B
    <3>3. Holder(k)' = B
      BY <1>6, <3>2 DEF Holder, P, B
    <3> QED
      BY <1>11, <2>4, <3>1, <3>2, <3>3
  <2>5. b.rec = "synced" => AtPrimary(k, d)
    BY <1>1, HeldHolder DEF HoldsRec
  <2>6. b.rec = "held" => AtPrimary(k, d) \/ AtBackup(k, d) \/ AtBackupOnly(k, d)
    BY <1>1 DEF HoldsRec, Held
  <2> QED
    BY <2>1, <2>2, <2>3, <2>4, <2>5, <2>6
<1>16. b.rec \in {"absent", "synced", "held"} => (IsCurrent(k)' <=> IsCurrent(k))
  BY <1>2, <1>15 DEF IsCurrent
<1>17. HoldsCas(k, b)'
  BY <1>1, <1>2, <1>16, BeliefIs DEF HoldsCas
<1>18. AllShort(k) => AllShort(k)'
  <2> SUFFICES ASSUME AllShort(k) PROVE AllShort(k)'
    OBVIOUS
  <2>1. ShortFor(inFlight', k) /\ (w.key = k => w.ttl = "short")
    BY <1>4 DEF AllShort
  <2>2. \A s \in {P, B} : item'[k][s] # None => item'[k][s].ttl = "short"
    BY <1>3, <1>6, <2>1 DEF AllShort, P, B
  <2> QED
    BY <1>6, <2>1, <2>2 DEF AllShort, None, P, B
<1>19. HoldsRest(k, b)'
  BY <1>1, <1>2, <1>6, <1>18 DEF HoldsRest, Resolves
<1> QED
  BY <1>14, <1>17, <1>19

-----------------------------------------------------------------------------
(* The rules are sound: GET and DELETE *)

LEMMA RecStays ==
  ASSUME UNCHANGED <<choice, up, item, inFlight>>, NEW k
  PROVE  /\ \A b : HoldsRec(k, b) => HoldsRec(k, b)'
         /\ AllShort(k) => AllShort(k)'
         /\ Holders(k)' = Holders(k) /\ Holder(k)' = Holder(k)
         /\ ServersOf(test)' = ServersOf(test)
<1>1. /\ Primary(k)' = Primary(k) /\ Backup(k)' = Backup(k)
      /\ FirstUp(k)' = FirstUp(k) /\ Second(k)' = Second(k)
      /\ Holders(k)' = Holders(k) /\ Holder(k)' = Holder(k)
      /\ ServersOf(test)' = ServersOf(test)
  BY SameServers
<1>2. Absent(k) => Absent(k)'
  BY <1>1 DEF Absent, None
<1>3. \A d : Held(k, d) => Held(k, d)'
  BY <1>1 DEF Held, AtPrimary, AtBackup, AtBackupOnly, None
<1>4. \A d : Synced(k, d) => Synced(k, d)'
  BY <1>1 DEF Synced, None
<1>5. Gone(k) => Gone(k)'
  BY <1>1 DEF Gone, None
<1>6. AllShort(k) => AllShort(k)'
  BY <1>1 DEF AllShort, None
<1>7. \A b : HoldsRec(k, b) => HoldsRec(k, b)'
  BY <1>2, <1>3, <1>4, <1>5 DEF HoldsRec
<1> QED
  BY <1>1, <1>6, <1>7

LEMMA GetHolds ==
  ASSUME TypeInv, GetData, NEW k \in Keys, NEW s \in Step, s = Current, s.key = k,
         NEW b \in Belief, b.rec # "nothing", Holds(k, b), GetFits(s, b), ~failed
  PROVE  ~failed' /\ Holds(k, AfterGet(b))'
<1> DEFINE c == AfterGet(b)  rc == GetStatus(k)
<1>2. HoldsRec(k, b) /\ HoldsCas(k, b) /\ HoldsRest(k, b) /\ b.data \in Data
  BY BeliefIs DEF Holds
<1>3. UNCHANGED <<choice, host, up, item, lastCas, inFlight, ghosts>>
  BY DEF GetData
<1>4. /\ failed' = (failed \/ rc # s.rc
                      \/ (rc = "OK" /\ item[k][Holder(k)].data \notin s.values))
      /\ cas' = [cas EXCEPT ![k] = CASE rc = "OK"        -> item[k][Holder(k)].cas
                                     [] rc = "NOT_FOUND" -> 0
                                     [] rc = "ERROR"     -> cas[k]]
  BY DEF GetData
<1>5. cas \in [Keys -> 0..lastCas]
  BY DEF TypeInv, ItemsOK
<1>6. /\ \A e : HoldsRec(k, e) => HoldsRec(k, e)'
      /\ AllShort(k) => AllShort(k)'
      /\ Holders(k)' = Holders(k) /\ Holder(k)' = Holder(k)
      /\ ServersOf(test)' = ServersOf(test)
  BY <1>3, RecStays
<1> HIDE DEF rc
<1>7. CASE b.host = "bad"
  <2>1. rc = "ERROR" /\ s.rc = "ERROR"
    BY <1>2, <1>7 DEF HoldsRest, GetStatus, GetFits, rc
  <2>2. ~failed' /\ cas' = cas
    BY <1>4, <1>5, <2>1
  <2>3. Same(k)
    BY <1>3, <2>2 DEF Same
  <2>4. Holds(k, b)'
    BY <2>3, SameHolds
  <2>5. c = b
    BY <1>7 DEF AfterGet
  <2> QED
    BY <2>2, <2>4, <2>5
<1>8. CASE b.host = "good" /\ b.rec \in {"synced", "held"}
  <2>1. Holders(k) # {} /\ item[k][Holder(k)].data = b.data
    BY <1>2, <1>8, HeldHolder DEF HoldsRec, Held
  <2>2. rc = "OK" /\ s.rc = "OK" /\ b.data \in s.values
    BY <1>2, <1>8, <2>1 DEF HoldsRest, GetStatus, GetFits, rc
  <2>3. ~failed' /\ cas'[k] = item[k][Holder(k)].cas
    BY <1>4, <1>5, <2>1, <2>2
  <2>4. item[k][Holder(k)].cas \in 1..lastCas /\ lastCas \in Nat
    BY <2>1, HolderIs, ItemIs DEF TypeInv, ItemsOK
  <2>5. /\ c.rec = b.rec /\ c.data = b.data /\ c.cas = "current"
        /\ c.short = b.short /\ c.up = b.up /\ c.host = b.host
    BY <1>8 DEF AfterGet, Bel
  <2>6. HoldsRec(k, c)'
    <3>1. HoldsRec(k, c)
      BY <1>2, <2>5 DEF HoldsRec
    <3> QED
      BY <1>6, <3>1
  <2>7. HoldsCas(k, c)'
    BY <1>3, <1>6, <2>1, <2>3, <2>4, <2>5 DEF HoldsCas, IsCurrent
  <2>8. HoldsRest(k, c)'
    BY <1>2, <1>3, <1>6, <2>5 DEF HoldsRest, Resolves
  <2> QED
    BY <2>3, <2>6, <2>7, <2>8 DEF Holds
<1>9. CASE b.host = "good" /\ b.rec = "absent"
  <2>1. Holders(k) = {}
    BY <1>2, <1>9, HeldHolder DEF HoldsRec
  <2>2. rc = "NOT_FOUND" /\ s.rc = "NOT_FOUND"
    BY <1>2, <1>9, <2>1 DEF HoldsRest, GetStatus, GetFits, rc
  <2>3. ~failed' /\ cas'[k] = 0
    BY <1>4, <1>5, <2>2
  <2>4. /\ c.rec = b.rec /\ c.data = b.data /\ c.cas = "zero"
        /\ c.short = b.short /\ c.up = b.up /\ c.host = b.host
    BY <1>9 DEF AfterGet, Bel
  <2>5. HoldsRec(k, c)'
    <3>1. HoldsRec(k, c)
      BY <1>2, <2>4 DEF HoldsRec
    <3> QED
      BY <1>6, <3>1
  <2>6. HoldsCas(k, c)'
    BY <2>3, <2>4 DEF HoldsCas
  <2>7. HoldsRest(k, c)'
    BY <1>2, <1>3, <1>6, <2>4 DEF HoldsRest, Resolves
  <2> QED
    BY <2>3, <2>5, <2>6, <2>7 DEF Holds
<1> QED
  BY <1>7, <1>8, <1>9, BeliefIs DEF GetFits

LEMMA DeleteHolds ==
  ASSUME TypeInv, DeleteData, NEW k \in Keys, NEW s \in Step, s = Current, s.key = k,
         NEW b \in Belief, b.rec # "nothing", Holds(k, b), DeleteFits(s, b), ~failed
  PROVE  ~failed' /\ Holds(k, AfterDelete(b))'
<1> DEFINE c == AfterDelete(b)
<1>2. HoldsRec(k, b) /\ HoldsCas(k, b) /\ HoldsRest(k, b)
  BY BeliefIs DEF Holds
<1>3. /\ UNCHANGED <<choice, host, up, lastCas, inFlight, cas, ghosts>> /\ inFlight = << >>
      /\ item' = IF Resolves THEN [item EXCEPT ![k] = [r \in DOMAIN item[k] |-> None]] ELSE item
      /\ failed' = (failed \/ s.rc # (IF Resolves THEN "OK" ELSE "ERROR"))
  BY DEF DeleteData
<1>4. item \in [Keys -> [ServersOf(test) -> Item \cup {None}]]
  BY DEF TypeInv, ItemsOK
<1>5. ~failed'
  BY <1>2, <1>3, BeliefIs DEF DeleteFits, HoldsRest
<1>6. CASE b.host = "bad"
  <2>1. Same(k)
    BY <1>2, <1>3, <1>6 DEF Same, HoldsRest
  <2>2. Holds(k, b)'
    BY <2>1, SameHolds
  <2>3. c = b
    BY <1>6 DEF AfterDelete
  <2> QED
    BY <1>5, <2>2, <2>3
<1>7. CASE b.host = "good"
  <2>1. \A r \in ServersOf(test) : item'[k][r] = None
    BY <1>2, <1>3, <1>4, <1>7 DEF HoldsRest
  <2>2. /\ c.rec = "absent" /\ c.cas = (IF b.cas = "current" THEN "stale" ELSE b.cas)
        /\ c.short = FALSE /\ c.up = b.up /\ c.host = b.host
    BY <1>7 DEF AfterDelete, Bel
  <2>3. /\ Primary(k)' = Primary(k) /\ Backup(k)' = Backup(k) /\ ServersOf(test)' = ServersOf(test)
        /\ Primary(k) \in ServersOf(test) /\ Backup(k) \in ServersOf(test)
    BY <1>3, ChoiceStays, Placed DEF TypeInv
  <2>4. Absent(k)' /\ Holders(k)' = {}
    BY <1>3, <2>1, <2>3 DEF Absent, Holders, None, NoneFor
  <2>5. HoldsCas(k, c)'
    BY <1>2, <1>3, <2>2, <2>4, BeliefIs DEF HoldsCas, IsCurrent
  <2>6. HoldsRest(k, c)'
    BY <1>2, <1>3, <2>2, <2>3 DEF HoldsRest, Resolves
  <2> QED
    BY <1>5, <2>2, <2>4, <2>5, <2>6 DEF Holds, HoldsRec
<1> QED
  BY <1>6, <1>7, BeliefIs

-----------------------------------------------------------------------------
(* The rules are sound: the steps that are on no key *)

LEMMA NothingHolds == \A k : Holds(k, Nothing) /\ Holds(k, Nothing)'
BY DEF Holds, Nothing, Bel

LEMMA ConnectHolds ==
  ASSUME TypeInv, ConnectTo, NEW k \in Keys, NEW s \in Step, s = Current,
         NEW b \in Belief, b.rec # "nothing", Holds(k, b)
  PROVE  Holds(k, AfterConnect(s.host, b))'
<1> DEFINE c == AfterConnect(s.host, b)
<1>1. HoldsRec(k, b) /\ HoldsCas(k, b) /\ HoldsRest(k, b)
  BY DEF Holds
<1>2. UNCHANGED <<choice, up, item, inFlight, cas>> /\ host' = s.host
  BY DEF ConnectTo
<1>3. /\ c.rec = b.rec /\ c.data = b.data /\ c.cas = b.cas /\ c.short = b.short /\ c.up = b.up
      /\ c.host = IF s.host = "bad.domain.name" THEN "bad" ELSE "good"
  BY DEF AfterConnect, Bel
<1>4. /\ \A e : HoldsRec(k, e) => HoldsRec(k, e)'
      /\ AllShort(k) => AllShort(k)'
      /\ Holders(k)' = Holders(k) /\ Holder(k)' = Holder(k)
      /\ ServersOf(test)' = ServersOf(test)
  BY <1>2, RecStays
<1> HIDE DEF c
<1>5. HoldsRec(k, c)'
  <2>1. HoldsRec(k, c)
    BY <1>1, <1>3 DEF HoldsRec
  <2> QED
    BY <1>4, <2>1
<1>6. HoldsCas(k, c)'
  BY <1>1, <1>2, <1>3, <1>4 DEF HoldsCas, IsCurrent
<1>7. HoldsRest(k, c)'
  BY <1>1, <1>2, <1>3, <1>4 DEF HoldsRest, Resolves
<1> QED
  BY <1>5, <1>6, <1>7 DEF Holds, c

(* When no copy is on its way, what was to settle has settled.             *)
LEMMA Quiet ==
  ASSUME inFlight = << >>
  PROVE  /\ \A k : NoneFor(inFlight, k) /\ ShortFor(inFlight, k)
         /\ \A k, now, v : Settles(inFlight, k, now, v) => now = v
         /\ \A k, s : AllTo(inFlight, k, s)
BY DEF NoneFor, ShortFor, Settles, AllTo

LEMMA AbsentHolds ==
  ASSUME TypeInv, NEW k \in Keys, NEW b \in Belief, b.rec = "absent", Holds(k, b),
         UNCHANGED <<choice, host, cas>>, NEW c \in Belief,
         c.rec = "absent", c.cas \in {b.cas, "any"}, c.short = b.short, c.host = b.host,
         c.up = "all" => up' = ServersOf(test),
         NoneFor(inFlight', k), item'[k][Primary(k)] = None, item'[k][Backup(k)] = None
  PROVE  Holds(k, c)'
<1>1. HoldsRec(k, b) /\ HoldsCas(k, b) /\ HoldsRest(k, b)
  BY DEF Holds
<1>2. Primary(k)' = Primary(k) /\ Backup(k)' = Backup(k) /\ ServersOf(test)' = ServersOf(test)
  BY ChoiceStays
<1>3. ShortFor(inFlight', k)
  BY DEF NoneFor, ShortFor
<1>4. Absent(k)' /\ Holders(k)' = {} /\ AllShort(k)'
  BY <1>2, <1>3 DEF Absent, Holders, AllShort, None
<1>5. HoldsRec(k, c)'
  BY <1>4 DEF HoldsRec
<1>6. HoldsCas(k, c)'
  BY <1>1, <1>4, BeliefIs DEF HoldsCas, IsCurrent
<1>7. HoldsRest(k, c)'
  BY <1>1, <1>2, <1>4 DEF HoldsRest, Resolves
<1> QED
  BY <1>5, <1>6, <1>7 DEF Holds

LEMMA WaitHolds ==
  ASSUME TypeInv, Wait, NEW k \in Keys, NEW b \in Belief, b.rec # "nothing", Holds(k, b)
  PROVE  Holds(k, AfterPause(b))'
<1> DEFINE c == AfterPause(b)
<1>1. HoldsRec(k, b) /\ HoldsCas(k, b) /\ HoldsRest(k, b)
  BY DEF Holds
<1>2. UNCHANGED <<choice, host, up, item, inFlight, cas>> /\ inFlight = << >>
  BY DEF Wait
<1>3. /\ c.rec = (IF b.rec = "gone" THEN "absent" ELSE b.rec)
      /\ c.data = b.data /\ c.cas = b.cas /\ c.short = b.short /\ c.up = b.up /\ c.host = b.host
  BY DEF AfterPause, Bel
<1>4. /\ \A e : HoldsRec(k, e) => HoldsRec(k, e)'
      /\ AllShort(k) => AllShort(k)'
      /\ Holders(k)' = Holders(k) /\ Holder(k)' = Holder(k)
      /\ ServersOf(test)' = ServersOf(test)
  BY <1>2, RecStays
<1>5. Gone(k) => Absent(k)
  <2> SUFFICES ASSUME Gone(k) PROVE Absent(k)
    OBVIOUS
  <2>1. /\ FirstUp(k) \in {Primary(k), Backup(k)} /\ Second(k) \in {Primary(k), Backup(k)}
        /\ FirstUp(k) # Second(k) /\ Second(k) \in ServersOf(test)
    BY OneIsUp, Placed DEF TypeInv
  <2>2. item[k][FirstUp(k)] = None /\ item[k][Second(k)].data = "none"
    BY <1>2, Quiet DEF Gone
  <2>3. item[k][Second(k)] = None
    BY <2>1, <2>2, ItemIs DEF TypeInv
  <2> QED
    BY <1>2, <2>1, <2>2, <2>3, Quiet DEF Absent
<1> HIDE DEF c
<1>6. HoldsRec(k, c)'
  <2>1. HoldsRec(k, c)
    BY <1>1, <1>3, <1>5 DEF HoldsRec
  <2> QED
    BY <1>4, <2>1
<1>7. HoldsCas(k, c)'
  BY <1>1, <1>2, <1>3, <1>4 DEF HoldsCas, IsCurrent
<1>8. HoldsRest(k, c)'
  BY <1>1, <1>2, <1>3, <1>4 DEF HoldsRest, Resolves
<1> QED
  BY <1>6, <1>7, <1>8 DEF Holds, c

LEMMA ExpireHolds ==
  ASSUME TypeInv, Expire, NEW k \in Keys, NEW b \in Belief, b.rec # "nothing", Holds(k, b),
         b.short \/ b.rec = "absent"
  PROVE  Holds(k, AfterSleep(b))'
<1> DEFINE c == AfterSleep(b)
<1>1. HoldsRec(k, b) /\ HoldsCas(k, b) /\ HoldsRest(k, b)
  BY DEF Holds
<1>2. /\ UNCHANGED <<choice, host, up, inFlight, cas>> /\ inFlight = << >> /\ inFlight' = << >>
      /\ item' = [j \in Keys |-> [r \in ServersOf(test) |->
            IF item[j][r] # None /\ item[j][r].ttl = "short" THEN None ELSE item[j][r]]]
  BY DEF Expire
<1>3. Primary(k) \in ServersOf(test) /\ Backup(k) \in ServersOf(test)
  BY Placed DEF TypeInv
<1>4. \A r \in {Primary(k), Backup(k)} :
        item'[k][r] = IF item[k][r] # None /\ item[k][r].ttl = "short" THEN None ELSE item[k][r]
  BY <1>2, <1>3
<1>5. item'[k][Primary(k)] = None /\ item'[k][Backup(k)] = None
  <2>1. CASE b.rec = "absent"
    BY <1>1, <1>4, <2>1 DEF HoldsRec, Absent
  <2>2. CASE b.short
    BY <1>1, <1>4, <2>2 DEF HoldsRest, AllShort
  <2> QED
    BY <2>1, <2>2
<1>6. CASE b.rec = "absent"
  <2>1. c = b
    BY <1>6 DEF AfterSleep
  <2>2. b.up = "all" => up' = ServersOf(test)
    BY <1>1, <1>2 DEF HoldsRest
  <2>3. NoneFor(inFlight', k)
    BY <1>2 DEF NoneFor
  <2>4. Holds(k, b)'
    BY <1>2, <1>5, <1>6, <2>2, <2>3, AbsentHolds
  <2> QED
    BY <2>1, <2>4
<1>7. CASE b.rec # "absent"
  <2>1. /\ c.rec = "absent" /\ c.cas = "any" /\ c.short = b.short /\ c.up = b.up /\ c.host = b.host
    BY <1>7 DEF AfterSleep, Bel
  <2> HIDE DEF c
  <2>2. Primary(k)' = Primary(k) /\ Backup(k)' = Backup(k) /\ ServersOf(test)' = ServersOf(test)
    BY <1>2, ChoiceStays
  <2>3. NoneFor(inFlight', k) /\ ShortFor(inFlight', k)
    BY <1>2 DEF NoneFor, ShortFor
  <2>4. Absent(k)' /\ AllShort(k)'
    BY <1>5, <2>2, <2>3 DEF Absent, AllShort, None
  <2>5. HoldsRec(k, c)' /\ HoldsCas(k, c)'
    BY <2>1, <2>4 DEF HoldsRec, HoldsCas
  <2>6. HoldsRest(k, c)'
    BY <1>1, <1>2, <2>1, <2>2, <2>4 DEF HoldsRest, Resolves
  <2> QED
    BY <2>5, <2>6 DEF Holds, c
<1> QED
  BY <1>6, <1>7

-----------------------------------------------------------------------------
(* The rules are sound: a failure that overtakes no copy *)

LEMMA FailureIs ==
  ASSUME TypeInv, TriggerFailure, ~overtaken', NEW k \in Keys
  PROVE  /\ UNCHANGED <<choice, host, cas>> /\ ~overtaken
         /\ inFlight = << >> /\ inFlight' = << >>
         /\ \A s \in ServersOf(test) :
              item'[k][s] = IF scenario \in {"MemcachedFails", "MemcachedRestarts"} /\ s = Victim
                              THEN None ELSE item[k][s]
         /\ up' = IF scenario = "MemcachedFails" THEN up \ {Victim} ELSE up
<1>1. UNCHANGED <<choice, host, cas>> /\ inFlight = << >> /\ ~overtaken
  BY DEF TriggerFailure
<1>2. item \in [Keys -> [ServersOf(test) -> Item \cup {None}]]
  BY DEF TypeInv, ItemsOK
<1>3. LoseCopies = << >>
  <2>1. DOMAIN inFlight = {} /\ DOMAIN LoseCopies = {} /\ LoseCopies = [n \in {} |-> 0]
    BY <1>1 DEF LoseCopies
  <2>2. << >> = [n \in {} |-> 0]
    OBVIOUS
  <2> QED
    BY <2>1, <2>2
<1>4. inFlight' = << >>
  BY <1>1, <1>3 DEF TriggerFailure
<1>5. \A s \in ServersOf(test) :
        EmptyVictim[k][s] = IF s = Victim THEN None ELSE item[k][s]
  BY <1>2, Servers DEF EmptyVictim
<1>6. \A s \in ServersOf(test) :
        item'[k][s] = IF scenario \in {"MemcachedFails", "MemcachedRestarts"} /\ s = Victim
                        THEN None ELSE item[k][s]
  BY <1>5 DEF TriggerFailure
<1>7. up' = IF scenario = "MemcachedFails" THEN up \ {Victim} ELSE up
  BY DEF TriggerFailure
<1> QED
  BY <1>1, <1>4, <1>6, <1>7

LEMMA TriggerHolds ==
  ASSUME TypeInv, TriggerFailure, ~overtaken', NEW k \in Keys, NEW b \in Belief,
         b.rec # "nothing", Holds(k, b), NEW c \in Belief, c = AfterTrigger(k, b)
  PROVE  Holds(k, c)'
<1> DEFINE P == Primary(k)  B == Backup(k)  d == b.data
<1>1. HoldsRec(k, b) /\ HoldsCas(k, b) /\ HoldsRest(k, b) /\ b.data \in Data
  BY BeliefIs DEF Holds
<1>2. /\ UNCHANGED <<choice, host, cas>> /\ inFlight = << >> /\ inFlight' = << >>
      /\ \A s \in ServersOf(test) :
           item'[k][s] = IF scenario \in {"MemcachedFails", "MemcachedRestarts"} /\ s = Victim
                           THEN None ELSE item[k][s]
      /\ up' = IF scenario = "MemcachedFails" THEN up \ {Victim} ELSE up
  BY FailureIs
<1>3. /\ P \in ServersOf(test) /\ B \in ServersOf(test) /\ P # B
      /\ P' = P /\ B' = B /\ ServersOf(test)' = ServersOf(test) /\ P = place[k][1]
  BY <1>2, Placed, ChoiceStays DEF TypeInv, Primary
<1>5. CASE b.rec = "absent"
  <2>1. c = Bel("absent", b.data, b.cas, b.short, "some", b.host)
    BY <1>5 DEF AfterTrigger
  <2>2. /\ c.rec = "absent" /\ c.cas = b.cas /\ c.short = b.short /\ c.host = b.host /\ c.up = "some"
    BY <1>5, <2>1 DEF Bel
  <2>3. item'[k][P] = None /\ item'[k][B] = None
    BY <1>1, <1>2, <1>3, <1>5 DEF HoldsRec, Absent
  <2> QED
    <3>1. NoneFor(inFlight', k)
      BY <1>2 DEF NoneFor
    <3> QED
      BY <1>2, <1>5, <2>2, <2>3, <3>1, AbsentHolds DEF P, B
<1>6. CASE b.rec = "synced" /\ b.cas # "stale"
  <2> DEFINE killed == PrimaryKilled(k)
  <2>1. /\ up = ServersOf(test) /\ item[k][P].data = d /\ item[k][B].data = d
        /\ item[k][B] # None => item[k][B].cas # item[k][P].cas
    BY <1>1, <1>2, <1>6, Quiet DEF HoldsRec, Synced, P, B
  <2>2. item[k][P] # None /\ item[k][B] # None /\ item[k][B].cas # item[k][P].cas
    BY <1>1, <1>3, <2>1, DataIsThere
  <2>3. \A s : AllTo(inFlight', k, s)
    BY <1>2 DEF AllTo
  <2>4. NoneFor(inFlight', k) /\ ShortFor(inFlight', k)
    BY <1>2 DEF NoneFor, ShortFor
  <2>5. killed <=> scenario \in {"MemcachedFails", "MemcachedRestarts"} /\ P = Victim
    BY DEF PrimaryKilled, P, Primary
  <2>6. P \in Holders(k) /\ Holder(k) = P
    BY <1>3, <2>1, <2>2 DEF Holders, Holder, P
  <2> HIDE DEF killed, P, B, d
  <2>7. ASSUME killed
        PROVE  Held(k, d)' /\ (b.cas = "current" => cas'[k] # 0 /\ ~IsCurrent(k)')
    <3>1. item'[k][B] = item[k][B] /\ item'[k][P] = None /\ B \in up'
      BY <1>2, <1>3, <2>1, <2>5, <2>7
    <3>2. Held(k, d)'
      <4>1. CASE P \in up'
        BY <1>3, <2>1, <2>4, <3>1, <4>1 DEF Held, AtBackupOnly, None, P, B, d
      <4>2. CASE P \notin up'
        BY <1>3, <2>1, <2>3, <3>1, <4>2 DEF Held, AtBackup, P, B, d
      <4> QED
        BY <4>1, <4>2
    <3>3. Holders(k)' = {B} /\ Holder(k)' = B
      <4>1. Holders(k)' = {s \in {P, B} \cap up' : item'[k][s] # None}
        BY <1>3 DEF Holders, None, P, B
      <4>2. Holders(k)' = {B}
        BY <1>3, <2>2, <3>1, <4>1
      <4>3. Holder(k)' = IF P \in Holders(k)' THEN P ELSE B
        BY <1>3 DEF Holder, P, B
      <4> QED
        BY <1>3, <4>2, <4>3
    <3>4. b.cas = "current" => cas'[k] # 0 /\ ~IsCurrent(k)'
      BY <1>1, <1>2, <2>2, <2>6, <3>1, <3>3 DEF HoldsCas, IsCurrent
    <3> QED
      BY <3>2, <3>4
  <2>8. ASSUME ~killed
        PROVE  Held(k, d)' /\ (b.cas = "current" => cas'[k] # 0 /\ IsCurrent(k)')
    <3>1. item'[k][P] = item[k][P] /\ P \in up'
      BY <1>2, <1>3, <2>1, <2>5, <2>8
    <3>2. Held(k, d)'
      BY <1>3, <2>1, <2>3, <3>1 DEF Held, AtPrimary, P, B, d
    <3>3. P \in Holders(k)' /\ Holder(k)' = P
      <4>1. Holders(k)' = {s \in {P, B} \cap up' : item'[k][s] # None}
        BY <1>3 DEF Holders, None, P, B
      <4>2. P \in Holders(k)'
        BY <2>2, <3>1, <4>1
      <4>3. Holder(k)' = IF P \in Holders(k)' THEN P ELSE B
        BY <1>3 DEF Holder, P, B
      <4> QED
        BY <4>2, <4>3
    <3>4. b.cas = "current" => cas'[k] # 0 /\ IsCurrent(k)'
      BY <1>1, <1>2, <2>2, <2>6, <3>1, <3>3 DEF HoldsCas, IsCurrent
    <3> QED
      BY <3>2, <3>4
  <2>9. AllShort(k) => AllShort(k)'
    <3>1. \A s \in {P, B} : item'[k][s] = None \/ item'[k][s] = item[k][s]
      BY <1>2, <1>3
    <3> QED
      BY <1>3, <2>4, <3>1 DEF AllShort, None, P, B
  <2>10. c = Bel("held", d, IF b.cas = "current" /\ killed THEN "stale" ELSE b.cas,
                 b.short, "some", b.host)
    BY <1>6 DEF AfterTrigger, killed, d
  <2>11. Held(k, d)' /\ (b.cas = "current" => cas'[k] # 0 /\ (IsCurrent(k)' <=> ~killed))
    BY <2>7, <2>8
  <2>12. /\ c.rec = "held" /\ c.data = d /\ c.short = b.short /\ c.up = "some" /\ c.host = b.host
         /\ c.cas = IF b.cas = "current" /\ killed THEN "stale" ELSE b.cas
    BY <2>10 DEF Bel
  <2>13. HoldsRec(k, c)'
    BY <2>11, <2>12 DEF HoldsRec, d
  <2>14. HoldsCas(k, c)'
    BY <1>1, <1>2, <1>6, <2>11, <2>12, BeliefIs DEF HoldsCas
  <2>15. HoldsRest(k, c)'
    BY <1>1, <1>2, <2>9, <2>12 DEF HoldsRest, Resolves
  <2> QED
    BY <2>13, <2>14, <2>15 DEF Holds
<1>7. CASE ~(b.rec = "absent") /\ ~(b.rec = "synced" /\ b.cas # "stale")
  <2>1. c = Nothing
    BY <1>7 DEF AfterTrigger
  <2> QED
    BY <2>1, NothingHolds
<1> QED
  BY <1>5, <1>6, <1>7

LEMMA FixHolds ==
  ASSUME TypeInv, FixFailure, NEW k \in Keys, NEW b \in Belief,
         b.rec # "nothing", Holds(k, b), NEW c \in Belief, c = AfterFix(b)
  PROVE  Holds(k, c)'
<1>1. HoldsRec(k, b)
  BY DEF Holds
<1>2. UNCHANGED <<choice, host, item, inFlight, cas>> /\ up' = ServersOf(test)
  BY DEF FixFailure
<1>3. CASE b.rec = "absent"
  <2>1. /\ c.rec = "absent" /\ c.cas = b.cas /\ c.short = b.short /\ c.host = b.host
    BY <1>3 DEF AfterFix, Bel
  <2>2. /\ NoneFor(inFlight', k)
        /\ item'[k][Primary(k)] = None /\ item'[k][Backup(k)] = None
    BY <1>1, <1>2, <1>3 DEF HoldsRec, Absent
  <2> QED
    BY <1>2, <1>3, <2>1, <2>2, AbsentHolds
<1>4. CASE b.rec # "absent"
  <2>1. c = Nothing
    BY <1>4 DEF AfterFix
  <2> QED
    BY <2>1, NothingHolds
<1> QED
  BY <1>3, <1>4

-----------------------------------------------------------------------------
(* One step of a test *)

Consumes ==
  \/ SetData \/ GetData \/ DeleteData \/ ConnectTo \/ Wait \/ Expire
  \/ TriggerFailure \/ FixFailure

LEMMA StepIs ==
  ASSUME TypeInv, Consumes
  PROVE  /\ todo # << >> /\ Current = Head(todo) /\ Current \in Step /\ Tail(todo) \in Seq(Step)
         /\ UNCHANGED choice
         /\ Current.op \in {"set", "get", "delete", "connect", "usleep", "sleep", "trigger", "fix"}
         /\ Current.op = "set"     => SetData
         /\ Current.op = "get"     => GetData
         /\ Current.op = "delete"  => DeleteData
         /\ Current.op = "connect" => ConnectTo
         /\ Current.op = "usleep"  => Wait
         /\ Current.op = "sleep"   => Expire
         /\ Current.op = "trigger" => TriggerFailure
         /\ Current.op = "fix"     => FixFailure
<1>1. PICK op \in {"set", "get", "delete", "connect", "usleep", "sleep", "trigger", "fix"} :
        /\ AtStep(op)
        /\ op = "set"     => SetData
        /\ op = "get"     => GetData
        /\ op = "delete"  => DeleteData
        /\ op = "connect" => ConnectTo
        /\ op = "usleep"  => Wait
        /\ op = "sleep"   => Expire
        /\ op = "trigger" => TriggerFailure
        /\ op = "fix"     => FixFailure
  BY DEF Consumes, SetData, GetData, DeleteData, ConnectTo, Wait, Expire, TriggerFailure, FixFailure
<1>2. /\ todo # << >> /\ Current = Head(todo) /\ Current.op = op /\ Current \in Step
      /\ Tail(todo) \in Seq(Step)
  BY <1>1, AtStepIs
<1>3. UNCHANGED choice
  BY DEF Consumes, SetData, GetData, DeleteData, ConnectTo, Wait, Expire, TriggerFailure, FixFailure
<1> QED
  BY <1>1, <1>2, <1>3

LEMMA TodoIs ==
  ASSUME TypeInv, Consumes
  PROVE  /\ Current.op # "set" => todo' = Tail(todo)
         /\ ~HasRetry(Current) => todo' = Tail(todo)
         /\ Current.op \notin KeyOps => failed' = failed
<1>1. CASE Current.op = "set"
  <2>1. SetData
    BY <1>1, StepIs
  <2>2. /\ todo' = Tail(todo) \/ todo' = Current.retry \o Tail(todo)
        /\ << >> \o Tail(todo) = Tail(todo)
    BY <2>1, StepIs, ConcatEmptySeq DEF SetData
  <2> QED
    BY <1>1, <2>2 DEF HasRetry, KeyOps
<1>2. CASE Current.op # "set"
  <2>1. todo' = Tail(todo)
    BY <1>2, StepIs DEF GetData, DeleteData, ConnectTo, Wait, Expire, TriggerFailure, FixFailure
  <2>2. Current.op \notin KeyOps => failed' = failed
    BY <1>2, StepIs DEF KeyOps, ConnectTo, Wait, Expire, TriggerFailure, FixFailure
  <2> QED
    BY <1>2, <2>1, <2>2
<1> QED
  BY <1>1, <1>2

LEMMA OtherKey ==
  ASSUME TypeInv, Consumes, Current.op \in KeyOps, NEW k \in Keys, Current.key # k
  PROVE  Same(k)
<1> DEFINE j == Current.key
<1>1. Current \in Step /\ j \in Keys /\ j # k
  BY StepIs, StepTypes
<1>2. item \in [Keys -> [ServersOf(test) -> Item \cup {None}]] /\ cas \in [Keys -> 0..lastCas]
  BY DEF TypeInv, ItemsOK
<1>3. CASE Current.op = "set"
  <2>1. SetData
    BY <1>3, StepIs
  <2>2. UNCHANGED <<choice, host, up, cas>>
    BY <2>1 DEF SetData
  <2>3. Store(j, Current.data, Current.ttl) \/ UNCHANGED <<item, lastCas, inFlight>>
    BY <2>1 DEF SetData
  <2>4. CASE Store(j, Current.data, Current.ttl)
    <3>1. Current.data \in Data /\ Current.ttl \in Ttl
      BY <2>1, SetStepIs DEF SetData
    <3>2. \A i \in Keys : i # j => item'[i] = item[i]
      BY <1>1, <2>2, <2>4, <3>1, StoredIs
    <3>3. \E w \in Copy : w.key = j /\ inFlight' = Append(inFlight, w)
      BY <1>1, <2>4, <3>1, SentIsCopy
    <3> QED
      BY <1>1, <2>2, <3>2, <3>3 DEF Same
  <2>5. CASE UNCHANGED <<item, lastCas, inFlight>>
    BY <2>2, <2>5 DEF Same
  <2> QED
    BY <2>3, <2>4, <2>5
<1>4. CASE Current.op = "get"
  <2>1. GetData
    BY <1>4, StepIs
  <2> DEFINE v == CASE GetStatus(j) = "OK"        -> item[j][Holder(j)].cas
                    [] GetStatus(j) = "NOT_FOUND" -> 0
                    [] GetStatus(j) = "ERROR"     -> cas[j]
  <2>2. cas' = [cas EXCEPT ![j] = v] /\ UNCHANGED <<choice, host, up, item, inFlight>>
    BY <2>1 DEF GetData
  <2> HIDE DEF v
  <2>3. cas'[k] = cas[k]
    BY <1>1, <1>2, <2>2
  <2> QED
    BY <2>2, <2>3 DEF Same
<1>5. CASE Current.op = "delete"
  <2>1. DeleteData
    BY <1>5, StepIs
  <2> DEFINE v == [s \in DOMAIN item[j] |-> None]
  <2>2. /\ item' = (IF Resolves THEN [item EXCEPT ![j] = v] ELSE item)
        /\ UNCHANGED <<choice, host, up, cas, inFlight>>
    BY <2>1 DEF DeleteData
  <2> HIDE DEF v
  <2>3. item'[k] = item[k]
    BY <1>1, <1>2, <2>2
  <2> QED
    BY <2>2, <2>3 DEF Same
<1> QED
  BY <1>3, <1>4, <1>5 DEF KeyOps

(* A step that a test does not retry does what its rule says.              *)
LEMMA PlainStepHolds ==
  ASSUME TypeInv, store = "correct", ~failed, ~overtaken', Consumes,
         NEW k \in Keys, NEW s \in Step, s = Current, ~HasRetry(s),
         NEW b \in Belief, NEW c \in Belief, Holds(k, b), PlainRule(k, s, b, c)
  PROVE  Holds(k, c)' /\ todo' = Tail(todo) /\ (IsOn(k, s) => ~failed')
<1>1. todo' = Tail(todo)
  BY TodoIs
<1>2. CASE c = Nothing /\ ~IsOn(k, s)
  BY <1>1, <1>2, NothingHolds
<1>3. CASE ~IsOn(k, s) /\ s.op \in KeyOps /\ c = b
  BY <1>1, <1>3, OtherKey, SameHolds DEF IsOn
<1>4. CASE b.rec # "nothing" /\ (IsOn(k, s) \/ s.op \notin KeyOps) /\ Fits(s, b) /\ c = After(k, s, b)
  <2>1. /\ s.op = "set"     => SetData
        /\ s.op = "get"     => GetData
        /\ s.op = "delete"  => DeleteData
        /\ s.op = "connect" => ConnectTo
        /\ s.op = "usleep"  => Wait
        /\ s.op = "sleep"   => Expire
        /\ s.op = "trigger" => TriggerFailure
        /\ s.op = "fix"     => FixFailure
    BY StepIs
  <2>2. s.op \in KeyOps => s.key = k
    BY <1>4 DEF IsOn
  <2>3. CASE s.op = "set"
    <3>1. c = AfterSet(s, b) /\ SetFits(s, b) /\ SetData /\ s.key = k
      BY <1>4, <2>1, <2>2, <2>3 DEF After, Fits, KeyOps
    <3>2. UNCHANGED <<choice, host, up, cas>>
      BY <3>1 DEF SetData
    <3>3. /\ b.host = "bad" /\ "ERROR" \in s.rcs => UNCHANGED <<item, inFlight>> /\ ~failed'
          /\ b.host = "good" /\ Refuses(s, b) /\ "DATA_CONTENTION" \in s.rcs
                => UNCHANGED <<item, inFlight>> /\ ~failed'
          /\ b.host = "good" /\ Takes(s, b) /\ "OK" \in s.rcs
                => Store(k, s.data, s.ttl) /\ ~failed'
      BY <1>4, <3>1, SetOutcome
    <3>4. CASE b.host = "good" /\ Takes(s, b) /\ "OK" \in s.rcs
      <4>1. Holds(k, AfterSet(s, b))'
        BY <1>4, <2>3, <3>2, <3>3, <3>4, StoreHolds
      <4> QED
        BY <1>1, <3>1, <3>3, <3>4, <4>1
    <3>5. CASE UNCHANGED <<item, inFlight>> /\ ~failed' /\ (b.host = "bad" \/ Refuses(s, b))
      <4>1. Same(k) /\ c = b
        BY <3>1, <3>2, <3>5 DEF Same, AfterSet
      <4> QED
        BY <1>1, <3>5, <4>1, SameHolds
    <3> QED
      BY <3>1, <3>3, <3>4, <3>5, BeliefIs DEF SetFits
  <2>4. CASE s.op = "get"
    <3>1. c = AfterGet(b) /\ GetFits(s, b) /\ GetData /\ s.key = k
      BY <1>4, <2>1, <2>2, <2>4 DEF After, Fits, KeyOps
    <3>2. ~failed' /\ Holds(k, AfterGet(b))'
      BY <1>4, <3>1, GetHolds
    <3> QED
      BY <1>1, <3>1, <3>2
  <2>5. CASE s.op = "delete"
    <3>1. c = AfterDelete(b) /\ DeleteFits(s, b) /\ DeleteData /\ s.key = k
      BY <1>4, <2>1, <2>2, <2>5 DEF After, Fits, KeyOps
    <3>2. ~failed' /\ Holds(k, AfterDelete(b))'
      BY <1>4, <3>1, DeleteHolds
    <3> QED
      BY <1>1, <3>1, <3>2
  <2>6. CASE s.op = "connect"
    <3>1. c = AfterConnect(s.host, b)
      BY <1>4, <2>6 DEF After
    <3>2. Holds(k, AfterConnect(s.host, b))'
      BY <1>4, <2>1, <2>6, ConnectHolds
    <3> QED
      BY <1>1, <2>6, <3>1, <3>2 DEF IsOn, KeyOps
  <2>7. CASE s.op = "usleep"
    <3>1. c = AfterPause(b)
      BY <1>4, <2>7 DEF After
    <3>2. Holds(k, AfterPause(b))'
      BY <1>4, <2>1, <2>7, WaitHolds
    <3> QED
      BY <1>1, <2>7, <3>1, <3>2 DEF IsOn, KeyOps
  <2>8. CASE s.op = "sleep"
    <3>1. c = AfterSleep(b) /\ (b.short \/ b.rec = "absent")
      BY <1>4, <2>8 DEF After, Fits
    <3>2. Holds(k, AfterSleep(b))'
      BY <1>4, <2>1, <2>8, <3>1, ExpireHolds
    <3> QED
      BY <1>1, <2>8, <3>1, <3>2 DEF IsOn, KeyOps
  <2>9. CASE s.op = "trigger"
    <3>1. c = AfterTrigger(k, b)
      BY <1>4, <2>9 DEF After
    <3> QED
      BY <1>1, <1>4, <2>1, <2>9, <3>1, TriggerHolds DEF IsOn, KeyOps
  <2>10. CASE s.op = "fix"
    <3>1. c = AfterFix(b)
      BY <1>4, <2>10 DEF After
    <3> QED
      BY <1>1, <1>4, <2>1, <2>10, <3>1, FixHolds DEF IsOn, KeyOps
  <2> QED
    BY <2>3, <2>4, <2>5, <2>6, <2>7, <2>8, <2>9, <2>10, StepTypes
<1> QED
  BY <1>2, <1>3, <1>4 DEF PlainRule

LEMMA RetrySteps ==
  ASSUME NEW s \in Step, HasRetry(s)
  PROVE  /\ s.op = "set" /\ s.key \in Keys
         /\ s.retry[1] \in Step /\ s.retry[2] \in Step
         /\ ~HasRetry(s.retry[1]) /\ ~HasRetry(s.retry[2])
         /\ s.retry \in Seq(Step) /\ Len(s.retry) = 2
         /\ s.retry = <<s.retry[1]>> \o <<s.retry[2]>>
<1> DEFINE p == s.retry
<1>1. s.op = "set" /\ s.key \in Keys /\ p \in PlainStep \X PlainStep
  BY PlainIsStep DEF HasRetry, SetSteps
<1> HIDE DEF p
<1>2. p[1] \in PlainStep /\ p[2] \in PlainStep /\ p = <<p[1], p[2]>>
  BY <1>1
<1>3. p[1] \in Step /\ p[2] \in Step /\ ~HasRetry(p[1]) /\ ~HasRetry(p[2])
  BY <1>2, PlainIsStep
<1>4. <<p[1], p[2]>> \in Seq(Step) /\ Len(<<p[1], p[2]>>) = 2
  BY <1>3, PairIsSeq
<1>5. <<p[1]>> \o <<p[2]>> = <<p[1], p[2]>>
  BY <1>3, PairIs
<1> QED
  BY <1>1, <1>2, <1>3, <1>4, <1>5 DEF p

LEMMA TripleRetry ==
  ASSUME NEW k, NEW s \in Step, HasRetry(s), NEW t \in Seq(Step),
         NEW b \in Belief, NEW m \in Belief, NEW c \in Belief, NEW d,
         PlainRule(k, s.retry[1], b, m), PlainRule(k, s.retry[2], m, c), Triple(k, t, c, d)
  PROVE  Triple(k, s.retry \o t, b, d)
<1> DEFINE x == s.retry[1]  y == s.retry[2]
<1>1. /\ x \in Step /\ y \in Step /\ s.retry = <<x>> \o <<y>> /\ s.retry \in Seq(Step)
      /\ <<x>> \in Seq(Step) /\ <<y>> \in Seq(Step)
  BY RetrySteps
<1>2. Rule(k, x, b, m) /\ Rule(k, y, m, c)
  BY RetrySteps DEF Rule
<1> HIDE DEF x, y
<1>3. Triple(k, <<x>>, b, m) /\ Triple(k, <<y>>, m, c)
  BY <1>2, TripleOne
<1>4. Triple(k, <<x>> \o <<y>>, b, c)
  BY <1>1, <1>3, TripleJoin
<1> QED
  BY <1>1, <1>4, TripleJoin

(* A SET that a test retries is refused just when the primary has been     *)
(* killed.                                                                 *)
LEMMA RetryOutcome ==
  ASSUME TypeInv, store = "correct", ~failed, Consumes,
         NEW k \in Keys, NEW s \in Step, s = Current, HasRetry(s), IsOn(k, s),
         NEW b \in Belief, NEW c \in Belief, Holds(k, b), Rule(k, s, b, c)
  PROVE  /\ ~failed'
         /\ PrimaryKilled(k) =>
              /\ todo' = s.retry \o Tail(todo) /\ Holds(k, b)'
              /\ \E m \in Belief : PlainRule(k, s.retry[1], b, m) /\ PlainRule(k, s.retry[2], m, c)
         /\ ~PrimaryKilled(k) => todo' = Tail(todo) /\ Holds(k, c)'
<1>1. SetData /\ s.op = "set" /\ s.key = k
  BY StepIs, RetrySteps DEF IsOn
<1>2. /\ b.rec # "nothing" /\ b.host = "good" /\ s.from = "cas"
      /\ {"OK", "DATA_CONTENTION"} \subseteq s.rcs
      /\ IF PrimaryKilled(k)
           THEN b.cas = "stale"
                /\ \E m \in Belief : PlainRule(k, s.retry[1], b, m) /\ PlainRule(k, s.retry[2], m, c)
           ELSE b.cas = "current" /\ c = AfterSet(s, b)
  BY DEF Rule
<1>3. UNCHANGED <<choice, host, up, cas>>
  BY <1>1 DEF SetData
<1>4. CASE PrimaryKilled(k)
  <2>1. Refuses(s, b)
    BY <1>2, <1>4 DEF Refuses
  <2>2. UNCHANGED <<item, inFlight>> /\ ~failed' /\ todo' = s.retry \o Tail(todo)
    BY <1>1, <1>2, <2>1, SetOutcome
  <2>3. Same(k)
    BY <1>3, <2>2 DEF Same
  <2> QED
    BY <1>2, <1>4, <2>2, <2>3, SameHolds
<1>5. CASE ~PrimaryKilled(k)
  <2>1. Takes(s, b)
    BY <1>2, <1>5 DEF Takes
  <2>2. Store(k, s.data, s.ttl) /\ ~failed' /\ todo' = Tail(todo)
    BY <1>1, <1>2, <2>1, SetOutcome
  <2>3. Holds(k, AfterSet(s, b))'
    BY <1>1, <1>2, <1>3, <2>1, <2>2, StoreHolds
  <2> QED
    BY <1>2, <1>5, <2>2, <2>3
<1> QED
  BY <1>4, <1>5

(* After every step of a test, something that holds of a key takes it      *)
(* through what is left of the test.                                       *)
LEMMA StepHolds ==
  ASSUME TypeInv, store = "correct", ~failed, ~overtaken', Consumes,
         NEW k \in Keys, NEW b \in Belief, NEW d \in Belief, Holds(k, b), Triple(k, todo, b, d)
  PROVE  /\ Current.op \in KeyOps /\ Current.key = k => ~failed'
         /\ \E e \in Belief : Holds(k, e)' /\ Triple(k, todo', e, d)
<1> DEFINE t == Tail(todo)
<1>1. /\ todo # << >> /\ todo \in Seq(Step) /\ Current = Head(todo) /\ Current \in Step
      /\ t \in Seq(Step)
  BY StepIs DEF TypeInv
<1>2. PICK c \in Belief : Rule(k, Head(todo), b, c) /\ Triple(k, t, c, d)
  BY <1>1, TripleHead
<1>3. PICK s \in Step : s = Current
  BY <1>1
<1>4. Rule(k, s, b, c)
  BY <1>1, <1>2, <1>3
<1> SUFFICES /\ IsOn(k, s) => ~failed'
             /\ \E e \in Belief : Holds(k, e)' /\ Triple(k, todo', e, d)
  BY <1>3 DEF IsOn
<1>5. CASE ~HasRetry(s)
  <2>1. PlainRule(k, s, b, c)
    BY <1>4, <1>5 DEF Rule
  <2>2. Holds(k, c)' /\ todo' = t /\ (IsOn(k, s) => ~failed')
    BY <1>3, <1>5, <2>1, PlainStepHolds
  <2> QED
    BY <1>2, <2>2
<1>6. CASE HasRetry(s) /\ IsOn(k, s)
  <2>1. /\ ~failed'
        /\ PrimaryKilled(k) =>
             /\ todo' = s.retry \o t /\ Holds(k, b)'
             /\ \E m \in Belief : PlainRule(k, s.retry[1], b, m) /\ PlainRule(k, s.retry[2], m, c)
        /\ ~PrimaryKilled(k) => todo' = t /\ Holds(k, c)'
    BY <1>3, <1>4, <1>6, RetryOutcome
  <2>2. CASE PrimaryKilled(k)
    <3>1. PICK m \in Belief : PlainRule(k, s.retry[1], b, m) /\ PlainRule(k, s.retry[2], m, c)
      BY <2>1, <2>2
    <3>2. Triple(k, s.retry \o t, b, d)
      BY <1>1, <1>2, <1>6, <3>1, TripleRetry
    <3> QED
      BY <2>1, <2>2, <3>2
  <2>3. CASE ~PrimaryKilled(k)
    BY <1>2, <2>1, <2>3
  <2> QED
    BY <2>2, <2>3
<1>7. CASE HasRetry(s) /\ ~IsOn(k, s)
  <2>1. /\ ~IsOn(k, s.retry[1]) /\ ~IsOn(k, s.retry[2]) /\ c \in {b, Nothing}
        /\ s.retry[1].op \in KeyOps /\ s.retry[2].op \in KeyOps
    BY <1>4, <1>7 DEF Rule
  <2>2. SetData /\ s.op = "set" /\ s.key # k
    BY <1>3, <1>7, StepIs, RetrySteps DEF IsOn, KeyOps
  <2>3. Same(k)
    BY <1>3, <2>2, OtherKey DEF KeyOps
  <2>4. Holds(k, b)' /\ Holds(k, c)'
    BY <2>1, <2>3, SameHolds, NothingHolds
  <2>5. PlainRule(k, s.retry[1], b, b) /\ PlainRule(k, s.retry[2], b, c)
    BY <2>1 DEF PlainRule
  <2>6. Triple(k, s.retry \o t, b, d)
    BY <1>1, <1>2, <1>7, <2>5, TripleRetry
  <2>7. todo' = t \/ todo' = s.retry \o t
    <3>1. << >> \o t = t
      BY <1>1, ConcatEmptySeq
    <3> QED
      BY <1>3, <2>2, <3>1 DEF SetData
  <2> QED
    BY <1>2, <1>7, <2>4, <2>6, <2>7
<1> QED
  BY <1>5, <1>6, <1>7

(* The rules depend on the test's choices only.                            *)
LEMMA TripleStays ==
  ASSUME UNCHANGED choice
  PROVE  \A k, b, c : Triple(k, todo', b, c) => Triple(k, todo, b, c)'
<1>1. \A k : PrimaryKilled(k)' = PrimaryKilled(k)
  BY DEF PrimaryKilled, choice, Victim, ServersOf
<1>2. \A k, b : AfterTrigger(k, b)' = AfterTrigger(k, b)
  BY <1>1 DEF AfterTrigger
<1>3. \A k, s, b : After(k, s, b)' = After(k, s, b)
  BY <1>2 DEF After
<1>4. \A k, s, b, c : PlainRule(k, s, b, c)' <=> PlainRule(k, s, b, c)
  BY <1>3 DEF PlainRule
<1>5. \A k, s, b, c : Rule(k, s, b, c)' <=> Rule(k, s, b, c)
  BY <1>1, <1>4 DEF Rule
<1>6. ASSUME NEW k, NEW b, NEW c, Triple(k, todo', b, c) PROVE Triple(k, todo, b, c)'
  BY <1>5, <1>6 DEF Triple
<1> QED
  BY <1>6

LEMMA ChoiceIsKept ==
  ASSUME TypeInv, [Next]_vars
  PROVE  UNCHANGED choice /\ store' = store /\ (overtaken => overtaken')
<1>1. overtaken \in BOOLEAN /\ (overtaken' = overtaken => (overtaken => overtaken'))
  BY DEF TypeInv
<1>2. UNCHANGED choice => store' = store
  BY DEF choice
<1>3. CASE UNCHANGED vars \/ Replicate
  <2>1. UNCHANGED <<choice, ghosts>>
    BY <1>3 DEF vars, Replicate
  <2>2. overtaken' = overtaken /\ UNCHANGED choice
    BY <2>1 DEF ghosts
  <2> QED
    BY <1>1, <1>2, <2>2
<1>4. CASE SetData \/ GetData \/ DeleteData \/ ConnectTo \/ Wait \/ Expire \/ FixFailure
  <2>1. UNCHANGED <<choice, overtaken>>
    BY <1>4 DEF ghosts, SetData, GetData, DeleteData, ConnectTo, Wait, Expire, FixFailure
  <2>2. overtaken' = overtaken /\ UNCHANGED choice
    BY <2>1
  <2> QED
    BY <1>1, <1>2, <2>2
<1>5. CASE TriggerFailure
  <2>1. overtaken' = (overtaken \/ inFlight # << >>) /\ UNCHANGED choice
    BY <1>5 DEF TriggerFailure
  <2> QED
    BY <1>1, <1>2, <2>1
<1> QED
  BY <1>3, <1>4, <1>5 DEF Next

LEMMA NextPasses == TypeInv /\ PassesInv /\ [Next]_vars => PassesInv'
<1> SUFFICES ASSUME TypeInv, PassesInv, [Next]_vars, store' = "correct", ~overtaken'
             PROVE  /\ ~failed'
                    /\ \A k \in Keys : \E b, c \in Belief : Holds(k, b)' /\ Triple(k, todo, b, c)'
  BY DEF PassesInv, Holds
<1>1. store = "correct" /\ ~overtaken /\ UNCHANGED choice
  BY ChoiceIsKept
<1>2. ~failed /\ \A k \in Keys : \E b, c \in Belief : Holds(k, b) /\ Triple(k, todo, b, c)
  BY <1>1 DEF PassesInv
<1>3. CASE UNCHANGED vars
  <2>1. ~failed' /\ todo' = todo
    BY <1>2, <1>3 DEF vars
  <2>2. ASSUME NEW k \in Keys PROVE \E b, c \in Belief : Holds(k, b)' /\ Triple(k, todo, b, c)'
    <3>1. PICK b \in Belief, c \in Belief : Holds(k, b) /\ Triple(k, todo, b, c)
      BY <1>2
    <3>2. Same(k)
      BY <1>3 DEF Same, vars
    <3>3. Holds(k, b)'
      BY <3>1, <3>2, SameHolds
    <3> QED
      BY <1>1, <2>1, <3>1, <3>3, TripleStays
  <2> QED
    BY <2>1, <2>2
<1>4. CASE Replicate
  <2>1. ~failed' /\ todo' = todo
    BY <1>2, <1>4 DEF Replicate
  <2>2. ASSUME NEW k \in Keys PROVE \E b, c \in Belief : Holds(k, b)' /\ Triple(k, todo, b, c)'
    <3>1. PICK b \in Belief, c \in Belief : Holds(k, b) /\ Triple(k, todo, b, c)
      BY <1>2
    <3>2. Holds(k, b)'
      BY <1>4, <3>1, ReplicateHolds
    <3> QED
      BY <1>1, <2>1, <3>1, <3>2, TripleStays
  <2> QED
    BY <2>1, <2>2
<1>5. CASE Consumes
  <2>1. ASSUME NEW k \in Keys
        PROVE  /\ Current.op \in KeyOps /\ Current.key = k => ~failed'
               /\ \E b, c \in Belief : Holds(k, b)' /\ Triple(k, todo, b, c)'
    <3>1. PICK b \in Belief, c \in Belief : Holds(k, b) /\ Triple(k, todo, b, c)
      BY <1>2
    <3>2. /\ Current.op \in KeyOps /\ Current.key = k => ~failed'
          /\ \E e \in Belief : Holds(k, e)' /\ Triple(k, todo', e, c)
      BY <1>1, <1>2, <1>5, <3>1, StepHolds
    <3> QED
      BY <1>1, <3>2, TripleStays
  <2>2. ~failed'
    <3>1. CASE Current.op \in KeyOps
      <4>1. Current.key \in Keys
        BY <1>5, <3>1, StepIs, StepTypes
      <4> QED
        BY <2>1, <3>1, <4>1
    <3>2. CASE Current.op \notin KeyOps
      BY <1>2, <1>5, <3>2, TodoIs
    <3> QED
      BY <3>1, <3>2
  <2> QED
    BY <2>1, <2>2
<1> QED
  BY <1>3, <1>4, <1>5 DEF Next, Consumes

-----------------------------------------------------------------------------
(* What each step of the tests leads to *)

Leads(k, s, b, c) == s \in Seq(Step) /\ Triple(k, s, b, c)

LEMMA LeadsJoin ==
  \A k, s, t, b, m, c : Leads(k, s, b, m) /\ Leads(k, t, m, c) => Leads(k, s \o t, b, c)
BY TripleJoin, JoinedSteps DEF Leads

LEMMA LeadsOne ==
  ASSUME NEW k, NEW s \in PlainStep, NEW b \in Belief, NEW c \in Belief, PlainRule(k, s, b, c)
  PROVE  Leads(k, <<s>>, b, c)
<1>1. s \in Step /\ <<s>> \in Seq(Step) /\ Rule(k, s, b, c)
  BY PlainIsStep DEF Rule
<1> QED
  BY <1>1, TripleOne DEF Leads

LEMMA BelIs ==
  \A rec \in {"absent", "synced", "held", "gone"}, d \in Data, h \in {"good", "bad"},
     c \in {"zero", "current", "stale", "any"}, short \in BOOLEAN, u \in {"all", "some"} :
    (c = "current" => rec \in {"synced", "held"}) /\ (c = "stale" => rec # "gone")
      => Bel(rec, d, c, short, u, h) \in Belief
BY DEF Bel, Belief

LEMMA SetIs ==
  ASSUME NEW k \in Keys, NEW d \in Data, NEW ttl \in Ttl, NEW from \in {"cas", "zero"},
         NEW rcs \in SUBSET Statuses
  PROVE  \E s \in PlainStep :
           /\ s.op = "set" /\ s.key = k /\ s.data = d /\ s.ttl = ttl /\ s.from = from
           /\ s.rcs = rcs /\ SetAs(k, d, ttl, from, rcs, << >>) = <<s>>
<1> DEFINE s == [op |-> "set", key |-> k, data |-> d, ttl |-> ttl, from |-> from, rcs |-> rcs,
                 retry |-> << >>]
<1>1. s \in PlainStep
  BY DEF PlainStep, SetSteps
<1> QED
  BY <1>1 DEF SetAs

(* A SET that is made, and one that is not.                                *)
LEMMA MadeLeads ==
  ASSUME NEW k \in Keys, NEW d \in Data, NEW ttl \in Ttl, NEW b \in Belief, NEW c \in Belief,
         b.host = "good", b.cas = "current" \/ (b.rec = "absent" /\ b.cas = "zero"),
         b.rec # "nothing",
         c = IF ttl = "zero" THEN Bel("gone", b.data, "any", FALSE, b.up, b.host)
             ELSE Bel(IF b.rec = "synced" \/ (b.rec = "absent" /\ b.up = "all")
                        THEN "synced" ELSE "held",
                      d, IF b.cas = "zero" THEN "zero" ELSE "stale",
                      b.rec = "absent" /\ ttl = "short", b.up, b.host)
  PROVE  Leads(k, SetAs(k, d, ttl, "cas", {"OK"}, << >>), b, c)
<1>1. {"OK"} \in SUBSET Statuses
  BY DEF Statuses
<1>2. PICK s \in PlainStep :
        /\ s.op = "set" /\ s.key = k /\ s.data = d /\ s.ttl = ttl /\ s.from = "cas"
        /\ s.rcs = {"OK"} /\ SetAs(k, d, ttl, "cas", {"OK"}, << >>) = <<s>>
  BY <1>1, SetIs
<1>3. IsOn(k, s)
  BY <1>2 DEF IsOn, KeyOps
<1>4. Takes(s, b) /\ ~Refuses(s, b)
  BY <1>2, BeliefIs DEF Takes, Refuses
<1>5. Fits(s, b)
  BY <1>2, <1>4 DEF Fits, SetFits
<1>6. c = AfterSet(s, b)
  BY <1>2, <1>4 DEF AfterSet
<1>7. PlainRule(k, s, b, c)
  BY <1>2, <1>3, <1>5, <1>6 DEF PlainRule, After
<1>8. Leads(k, <<s>>, b, c)
  BY <1>7, LeadsOne
<1> QED
  BY <1>2, <1>8

LEMMA RefusedLeads ==
  ASSUME NEW k \in Keys, NEW d \in Data, NEW ttl \in Ttl, NEW from \in {"cas", "zero"},
         NEW rcs \in SUBSET Statuses, NEW b \in Belief, b.rec # "nothing",
         \/ b.host = "bad" /\ "ERROR" \in rcs
         \/ /\ b.host = "good" /\ "DATA_CONTENTION" \in rcs
            /\ (from = "cas" /\ b.cas = "stale") \/ (b.rec = "synced" /\ b.cas = "zero")
  PROVE  Leads(k, SetAs(k, d, ttl, from, rcs, << >>), b, b)
<1>1. PICK s \in PlainStep :
        /\ s.op = "set" /\ s.key = k /\ s.data = d /\ s.ttl = ttl /\ s.from = from
        /\ s.rcs = rcs /\ SetAs(k, d, ttl, from, rcs, << >>) = <<s>>
  BY SetIs
<1>2. IsOn(k, s)
  BY <1>1 DEF IsOn, KeyOps
<1>3. b.host = "bad" \/ Refuses(s, b)
  BY <1>1 DEF Refuses
<1>4. Fits(s, b)
  BY <1>1, <1>3 DEF Fits, SetFits
<1>5. b = AfterSet(s, b)
  BY <1>1, <1>3 DEF AfterSet
<1>6. PlainRule(k, s, b, b)
  BY <1>1, <1>2, <1>4, <1>5 DEF PlainRule, After
<1> QED
  BY <1>1, <1>6, LeadsOne

(* The key is added.                                                       *)
LEMMA AddLeads ==
  ASSUME NEW k \in Keys, NEW d \in Data, NEW ttl \in {"long", "short"}, NEW x \in Data,
         NEW u \in {"all", "some"}
  PROVE  Leads(k, SetAs(k, d, ttl, "cas", {"OK"}, << >>),
               Bel("absent", x, "zero", FALSE, u, "good"),
               Bel(IF u = "all" THEN "synced" ELSE "held", d, "zero", ttl = "short", u, "good"))
<1> DEFINE b == Bel("absent", x, "zero", FALSE, u, "good")
           c == Bel(IF u = "all" THEN "synced" ELSE "held", d, "zero", ttl = "short", u, "good")
<1>1. ttl \in Ttl /\ ttl # "zero"
  BY DEF Ttl
<1>2. b \in Belief /\ c \in Belief
  BY BelIs
<1>3. b.rec = "absent" /\ b.cas = "zero" /\ b.up = u /\ b.host = "good"
  BY DEF Bel
<1> HIDE DEF b
<1>4. c = IF ttl = "zero" THEN Bel("gone", b.data, "any", FALSE, b.up, b.host)
          ELSE Bel(IF b.rec = "synced" \/ (b.rec = "absent" /\ b.up = "all")
                     THEN "synced" ELSE "held",
                   d, IF b.cas = "zero" THEN "zero" ELSE "stale",
                   b.rec = "absent" /\ ttl = "short", b.up, b.host)
  BY <1>1, <1>3 DEF Bel
<1> HIDE DEF c
<1>5. Leads(k, SetAs(k, d, ttl, "cas", {"OK"}, << >>), b, c)
  BY <1>1, <1>2, <1>3, <1>4, MadeLeads
<1> QED
  BY <1>5 DEF b, c

(* The record of the test's CAS value is replaced or "deleted".            *)
LEMMA UpdateLeads ==
  ASSUME NEW k \in Keys, NEW d \in Data, NEW ttl \in {"long", "zero"}, NEW x \in Data,
         NEW r \in {"synced", "held"}, NEW u \in {"all", "some"}
  PROVE  Leads(k, SetAs(k, d, ttl, "cas", {"OK"}, << >>),
               Bel(r, x, "current", FALSE, u, "good"),
               IF ttl = "zero" THEN Bel("gone", x, "any", FALSE, u, "good")
                               ELSE Bel(r, d, "stale", FALSE, u, "good"))
<1> DEFINE b == Bel(r, x, "current", FALSE, u, "good")
           c == IF ttl = "zero" THEN Bel("gone", x, "any", FALSE, u, "good")
                                ELSE Bel(r, d, "stale", FALSE, u, "good")
<1>1. ttl \in Ttl
  BY DEF Ttl
<1>2. b \in Belief /\ c \in Belief
  BY BelIs
<1>3. b.rec = r /\ b.data = x /\ b.cas = "current" /\ b.up = u /\ b.host = "good"
  BY DEF Bel
<1> HIDE DEF b
<1>4. c = IF ttl = "zero" THEN Bel("gone", b.data, "any", FALSE, b.up, b.host)
          ELSE Bel(IF b.rec = "synced" \/ (b.rec = "absent" /\ b.up = "all")
                     THEN "synced" ELSE "held",
                   d, IF b.cas = "zero" THEN "zero" ELSE "stale",
                   b.rec = "absent" /\ ttl = "short", b.up, b.host)
  BY <1>3 DEF Bel
<1> HIDE DEF c
<1>5. Leads(k, SetAs(k, d, ttl, "cas", {"OK"}, << >>), b, c)
  BY <1>1, <1>2, <1>3, <1>4, MadeLeads
<1> QED
  BY <1>5 DEF b, c

LEMMA GetLeads ==
  ASSUME NEW k \in Keys, NEW values \in SUBSET Data, NEW x \in values, NEW r \in {"synced", "held"},
         NEW c \in {"zero", "current", "stale", "any"}, NEW short \in BOOLEAN,
         NEW u \in {"all", "some"}
  PROVE  Leads(k, GetAs(k, "OK", values), Bel(r, x, c, short, u, "good"),
               Bel(r, x, "current", short, u, "good"))
<1> DEFINE b == Bel(r, x, c, short, u, "good")
           m == Bel(r, x, "current", short, u, "good")
           s == [op |-> "get", key |-> k, rc |-> "OK", values |-> values]
<1>1. b \in Belief /\ m \in Belief
  BY BelIs
<1>2. s \in PlainStep /\ GetAs(k, "OK", values) = <<s>>
  BY DEF PlainStep, GetSteps, Statuses, GetAs
<1>3. /\ b.rec = r /\ b.data = x /\ b.short = short /\ b.up = u /\ b.host = "good"
      /\ r # "nothing" /\ r # "absent"
  BY DEF Bel
<1> HIDE DEF b
<1>4. IsOn(k, s) /\ Fits(s, b) /\ After(k, s, b) = AfterGet(b)
  BY <1>3 DEF IsOn, KeyOps, Fits, GetFits, After
<1>5. m = AfterGet(b)
  BY <1>3 DEF AfterGet
<1> HIDE DEF s, m
<1>6. PlainRule(k, s, b, m)
  BY <1>3, <1>4, <1>5 DEF PlainRule
<1>7. Leads(k, <<s>>, b, m)
  BY <1>1, <1>2, <1>6, LeadsOne
<1> QED
  BY <1>2, <1>7 DEF b, m

LEMMA NotFoundLeads ==
  ASSUME NEW k \in Keys, NEW x \in Data, NEW c \in {"zero", "stale", "any"}, NEW short \in BOOLEAN,
         NEW u \in {"all", "some"}
  PROVE  Leads(k, NotFound(k), Bel("absent", x, c, short, u, "good"),
               Bel("absent", x, "zero", short, u, "good"))
<1> DEFINE b == Bel("absent", x, c, short, u, "good")
           m == Bel("absent", x, "zero", short, u, "good")
           s == [op |-> "get", key |-> k, rc |-> "NOT_FOUND", values |-> {}]
<1>1. b \in Belief /\ m \in Belief
  BY BelIs
<1>2. s \in PlainStep /\ NotFound(k) = <<s>>
  BY DEF PlainStep, GetSteps, Statuses, NotFound, GetAs
<1>3. b.rec = "absent" /\ b.data = x /\ b.short = short /\ b.up = u /\ b.host = "good"
  BY DEF Bel
<1> HIDE DEF b
<1>4. IsOn(k, s) /\ Fits(s, b) /\ After(k, s, b) = AfterGet(b)
  BY <1>3 DEF IsOn, KeyOps, Fits, GetFits, After
<1>5. m = AfterGet(b)
  BY <1>3 DEF AfterGet
<1> HIDE DEF s, m
<1>6. PlainRule(k, s, b, m)
  BY <1>3, <1>4, <1>5 DEF PlainRule
<1>7. Leads(k, <<s>>, b, m)
  BY <1>1, <1>2, <1>6, LeadsOne
<1> QED
  BY <1>2, <1>7 DEF b, m

LEMMA DeleteLeads ==
  ASSUME NEW k \in Keys, NEW x \in Data, NEW r \in {"absent", "synced"},
         NEW c \in {"zero", "current"}, c = "current" => r = "synced"
  PROVE  Leads(k, DeleteKey(k), Bel(r, x, c, FALSE, "all", "good"),
               Bel("absent", x, IF c = "current" THEN "stale" ELSE c, FALSE, "all", "good"))
<1> DEFINE b == Bel(r, x, c, FALSE, "all", "good")
           m == Bel("absent", x, IF c = "current" THEN "stale" ELSE c, FALSE, "all", "good")
           s == [op |-> "delete", key |-> k, rc |-> "OK"]
<1>1. b \in Belief /\ m \in Belief
  BY BelIs
<1>2. s \in PlainStep /\ DeleteKey(k) = <<s>>
  BY DEF PlainStep, DeleteSteps, Statuses, DeleteKey
<1>3. b.rec # "nothing" /\ b.data = x /\ b.cas = c /\ b.up = "all" /\ b.host = "good"
  BY DEF Bel
<1> HIDE DEF b
<1>4. IsOn(k, s) /\ Fits(s, b) /\ After(k, s, b) = AfterDelete(b)
  BY <1>3 DEF IsOn, KeyOps, Fits, DeleteFits, After
<1>5. m = AfterDelete(b)
  BY <1>3 DEF AfterDelete
<1> HIDE DEF s, m
<1>6. PlainRule(k, s, b, m)
  BY <1>3, <1>4, <1>5 DEF PlainRule
<1>7. Leads(k, <<s>>, b, m)
  BY <1>1, <1>2, <1>6, LeadsOne
<1> QED
  BY <1>2, <1>7 DEF b, m

(* A step that is on no key.                                               *)
LEMMA OtherLeads ==
  ASSUME NEW k \in Keys, NEW s \in OtherSteps, NEW b \in Belief, NEW m \in Belief,
         b.rec # "nothing", s.op = "sleep" => b.short \/ b.rec = "absent", m = After(k, s, b)
  PROVE  Leads(k, <<s>>, b, m)
<1>1. s \in PlainStep /\ s.op \notin KeyOps
  BY DEF PlainStep, OtherSteps, KeyOps
<1>2. Fits(s, b)
  BY <1>1 DEF Fits, KeyOps
<1>3. PlainRule(k, s, b, m)
  BY <1>1, <1>2 DEF PlainRule
<1> QED
  BY <1>1, <1>3, LeadsOne

LEMMA NothingLeads ==
  ASSUME NEW k \in Keys, NEW s \in OtherSteps
  PROVE  Leads(k, <<s>>, Nothing, Nothing)
<1>1. s \in PlainStep /\ ~IsOn(k, s) /\ Nothing \in Belief
  BY DataWords DEF PlainStep, OtherSteps, KeyOps, IsOn, Nothing, Bel, Belief
<1>2. PlainRule(k, s, Nothing, Nothing)
  BY <1>1 DEF PlainRule
<1> QED
  BY <1>1, <1>2, LeadsOne

LEMMA ConnectLeads ==
  ASSUME NEW k \in Keys, NEW h \in Hosts
  PROVE  /\ Leads(k, Connect(h), Bel("absent", "in", "zero", FALSE, "all", "good"),
                  Bel("absent", "in", "zero", FALSE, "all",
                      IF h = "bad.domain.name" THEN "bad" ELSE "good"))
         /\ Leads(k, Connect(h), Nothing, Nothing)
<1> DEFINE b == Bel("absent", "in", "zero", FALSE, "all", "good")
           m == Bel("absent", "in", "zero", FALSE, "all",
                    IF h = "bad.domain.name" THEN "bad" ELSE "good")
           s == [op |-> "connect", host |-> h]
<1>1. b \in Belief /\ m \in Belief
  BY BelIs, DataWords
<1>2. s \in OtherSteps /\ Connect(h) = <<s>>
  BY DEF OtherSteps, Connect
<1>3. b.rec # "nothing" /\ m = After(k, s, b)
  BY DEF Bel, After, AfterConnect
<1> HIDE DEF b, m, s
<1>4. s.op # "sleep"
  BY DEF s
<1>5. Leads(k, <<s>>, b, m) /\ Leads(k, <<s>>, Nothing, Nothing)
  BY <1>1, <1>2, <1>3, <1>4, OtherLeads, NothingLeads
<1> QED
  BY <1>2, <1>5 DEF b, m

LEMMA PauseLeads ==
  ASSUME NEW k \in Keys, NEW x \in Data, NEW u \in {"all", "some"}
  PROVE  Leads(k, Pause, Bel("gone", x, "any", FALSE, u, "good"),
               Bel("absent", x, "any", FALSE, u, "good"))
<1> DEFINE b == Bel("gone", x, "any", FALSE, u, "good")
           m == Bel("absent", x, "any", FALSE, u, "good")
           s == [op |-> "usleep"]
<1>1. b \in Belief /\ m \in Belief
  BY BelIs
<1>2. s \in OtherSteps /\ Pause = <<s>>
  BY DEF OtherSteps, Pause
<1>3. b.rec # "nothing" /\ m = After(k, s, b)
  BY DEF Bel, After, AfterPause
<1> HIDE DEF b, m, s
<1>4. s.op # "sleep"
  BY DEF s
<1>5. Leads(k, <<s>>, b, m)
  BY <1>1, <1>2, <1>3, <1>4, OtherLeads
<1> QED
  BY <1>2, <1>5 DEF b, m

LEMMA SleepLeads ==
  ASSUME NEW k \in Keys, NEW x \in Data, NEW r \in {"synced", "held"},
         NEW c \in {"zero", "current"}, NEW u \in {"all", "some"}
  PROVE  Leads(k, Sleep2, Bel(r, x, c, TRUE, u, "good"),
               Bel("absent", x, "any", TRUE, u, "good"))
<1> DEFINE b == Bel(r, x, c, TRUE, u, "good")
           m == Bel("absent", x, "any", TRUE, u, "good")
           s == [op |-> "sleep"]
<1>1. b \in Belief /\ m \in Belief
  BY BelIs
<1>2. s \in OtherSteps /\ Sleep2 = <<s>>
  BY DEF OtherSteps, Sleep2
<1>3. b.rec # "nothing" /\ b.short /\ m = After(k, s, b)
  BY DEF Bel, After, AfterSleep
<1> HIDE DEF b, m, s
<1>4. Leads(k, <<s>>, b, m)
  BY <1>1, <1>2, <1>3, OtherLeads
<1> QED
  BY <1>2, <1>4 DEF b, m

(* What has become of the CAS value that the test read before the failure. *)
AfterKill(k) == IF PrimaryKilled(k) THEN "stale" ELSE "current"

LEMMA TriggerLeads ==
  ASSUME NEW k \in Keys, NEW x \in Data, NEW short \in BOOLEAN
  PROVE  /\ Leads(k, Trigger, Bel("synced", x, "zero", short, "all", "good"),
                  Bel("held", x, "zero", short, "some", "good"))
         /\ Leads(k, Trigger, Bel("synced", x, "current", short, "all", "good"),
                  Bel("held", x, AfterKill(k), short, "some", "good"))
         /\ \A c \in {"zero", "stale"} :
              Leads(k, Trigger, Bel("absent", x, c, short, "all", "good"),
                    Bel("absent", x, c, short, "some", "good"))
<1> DEFINE s == [op |-> "trigger"]
<1>1. s \in OtherSteps /\ Trigger = <<s>> /\ s.op # "sleep" /\ \A b : After(k, s, b) = AfterTrigger(k, b)
  BY DEF OtherSteps, Trigger, After
<1>2. AfterKill(k) \in {"stale", "current"}
  BY DEF AfterKill
<1> HIDE DEF s
<1>3. Leads(k, Trigger, Bel("synced", x, "zero", short, "all", "good"),
            Bel("held", x, "zero", short, "some", "good"))
  <2> DEFINE b == Bel("synced", x, "zero", short, "all", "good")
             m == Bel("held", x, "zero", short, "some", "good")
  <2>1. b \in Belief /\ m \in Belief
    BY BelIs
  <2>2. b.rec # "nothing" /\ m = AfterTrigger(k, b)
    BY DEF Bel, AfterTrigger
  <2> HIDE DEF b, m
  <2>3. Leads(k, <<s>>, b, m)
    BY <1>1, <2>1, <2>2, OtherLeads
  <2> QED
    BY <1>1, <2>3 DEF b, m
<1>4. Leads(k, Trigger, Bel("synced", x, "current", short, "all", "good"),
            Bel("held", x, AfterKill(k), short, "some", "good"))
  <2> DEFINE b == Bel("synced", x, "current", short, "all", "good")
             m == Bel("held", x, AfterKill(k), short, "some", "good")
  <2>1. b \in Belief /\ m \in Belief
    BY <1>2, BelIs
  <2>2. b.rec # "nothing" /\ m = AfterTrigger(k, b)
    BY DEF Bel, AfterTrigger, AfterKill
  <2> HIDE DEF b, m
  <2>3. Leads(k, <<s>>, b, m)
    BY <1>1, <2>1, <2>2, OtherLeads
  <2> QED
    BY <1>1, <2>3 DEF b, m
<1>5. ASSUME NEW c \in {"zero", "stale"}
      PROVE  Leads(k, Trigger, Bel("absent", x, c, short, "all", "good"),
                   Bel("absent", x, c, short, "some", "good"))
  <2> DEFINE b == Bel("absent", x, c, short, "all", "good")
             m == Bel("absent", x, c, short, "some", "good")
  <2>1. b \in Belief /\ m \in Belief
    BY BelIs
  <2>2. b.rec # "nothing" /\ m = AfterTrigger(k, b)
    BY DEF Bel, AfterTrigger
  <2> HIDE DEF b, m
  <2>3. Leads(k, <<s>>, b, m)
    BY <1>1, <2>1, <2>2, OtherLeads
  <2> QED
    BY <1>1, <2>3 DEF b, m
<1> QED
  BY <1>3, <1>4, <1>5

LEMMA FixLeads ==
  ASSUME NEW k \in Keys, NEW x \in Data, NEW short \in BOOLEAN
  PROVE  /\ Leads(k, Fix, Bel("absent", x, "zero", short, "some", "good"),
                  Bel("absent", x, "zero", short, "all", "good"))
         /\ \A c \in {"zero", "current", "stale"} :
              Leads(k, Fix, Bel("held", x, c, short, "some", "good"), Nothing)
<1> DEFINE s == [op |-> "fix"]
<1>1. s \in OtherSteps /\ Fix = <<s>> /\ s.op # "sleep" /\ \A b : After(k, s, b) = AfterFix(b)
  BY DEF OtherSteps, Fix, After
<1> HIDE DEF s
<1>2. Leads(k, Fix, Bel("absent", x, "zero", short, "some", "good"),
            Bel("absent", x, "zero", short, "all", "good"))
  <2> DEFINE b == Bel("absent", x, "zero", short, "some", "good")
             m == Bel("absent", x, "zero", short, "all", "good")
  <2>1. b \in Belief /\ m \in Belief
    BY BelIs
  <2>2. b.rec # "nothing" /\ m = AfterFix(b)
    BY DEF Bel, AfterFix
  <2> HIDE DEF b, m
  <2>3. Leads(k, <<s>>, b, m)
    BY <1>1, <2>1, <2>2, OtherLeads
  <2> QED
    BY <1>1, <2>3 DEF b, m
<1>3. ASSUME NEW c \in {"zero", "current", "stale"}
      PROVE  Leads(k, Fix, Bel("held", x, c, short, "some", "good"), Nothing)
  <2> DEFINE b == Bel("held", x, c, short, "some", "good")
  <2>1. b \in Belief /\ Nothing \in Belief
    BY BelIs, DataWords DEF Nothing, Bel, Belief
  <2>2. b.rec # "nothing" /\ Nothing = AfterFix(b)
    BY DEF Bel, AfterFix
  <2> HIDE DEF b
  <2>3. Leads(k, <<s>>, b, Nothing)
    BY <1>1, <2>1, <2>2, OtherLeads
  <2> QED
    BY <1>1, <2>3 DEF b
<1> QED
  BY <1>2, <1>3

-----------------------------------------------------------------------------
(* What each test of one key leads to *)

Fresh(x, c, u) == Bel("absent", x, c, FALSE, u, "good")
Sync(x, c)     == Bel("synced", x, c, FALSE, "all", "good")
Hold(x, c)     == Bel("held", x, c, FALSE, "some", "good")
Start          == Fresh("in", "zero", "all")

LEMMA SetsLead ==
  ASSUME NEW k \in Keys, NEW d \in Data, NEW x \in Data
  PROVE  /\ Leads(k, Set(k, d), Fresh(x, "zero", "all"), Sync(d, "zero"))
         /\ Leads(k, Set(k, d), Fresh(x, "zero", "some"), Hold(d, "zero"))
         /\ Leads(k, Set(k, d), Sync(x, "current"), Sync(d, "stale"))
         /\ Leads(k, Set(k, d), Hold(x, "current"), Hold(d, "stale"))
         /\ Leads(k, SetGone(k), Sync(x, "current"), Bel("gone", x, "any", FALSE, "all", "good"))
         /\ Leads(k, SetGone(k), Hold(x, "current"), Bel("gone", x, "any", FALSE, "some", "good"))
         /\ Leads(k, SetShort(k, d), Fresh(x, "zero", "all"), Bel("synced", d, "zero", TRUE, "all", "good"))
<1>1. /\ Leads(k, Set(k, d), Fresh(x, "zero", "all"), Sync(d, "zero"))
      /\ Leads(k, Set(k, d), Fresh(x, "zero", "some"), Hold(d, "zero"))
      /\ Leads(k, SetShort(k, d), Fresh(x, "zero", "all"),
               Bel("synced", d, "zero", TRUE, "all", "good"))
  <2>1. \A u \in {"all", "some"}, ttl \in {"long", "short"} :
          Leads(k, SetAs(k, d, ttl, "cas", {"OK"}, << >>),
                Bel("absent", x, "zero", FALSE, u, "good"),
                Bel(IF u = "all" THEN "synced" ELSE "held", d, "zero", ttl = "short", u, "good"))
    BY AddLeads
  <2>2. /\ Bel(IF "all" = "all" THEN "synced" ELSE "held", d, "zero", "long" = "short", "all", "good")
             = Sync(d, "zero")
        /\ Bel(IF "some" = "all" THEN "synced" ELSE "held", d, "zero", "long" = "short", "some", "good")
             = Hold(d, "zero")
        /\ Bel(IF "all" = "all" THEN "synced" ELSE "held", d, "zero", "short" = "short", "all", "good")
             = Bel("synced", d, "zero", TRUE, "all", "good")
    BY DEF Sync, Hold, Bel
  <2> QED
    BY <2>1, <2>2 DEF Set, SetShort, Fresh
<1>2. \A r \in {"synced", "held"}, u \in {"all", "some"}, e \in Data, ttl \in {"long", "zero"} :
        Leads(k, SetAs(k, e, ttl, "cas", {"OK"}, << >>), Bel(r, x, "current", FALSE, u, "good"),
              IF ttl = "zero" THEN Bel("gone", x, "any", FALSE, u, "good")
                              ELSE Bel(r, e, "stale", FALSE, u, "good"))
  BY UpdateLeads
<1>3. /\ Leads(k, Set(k, d), Sync(x, "current"), Sync(d, "stale"))
      /\ Leads(k, Set(k, d), Hold(x, "current"), Hold(d, "stale"))
  BY <1>2 DEF Set, Sync, Hold
<1>4. /\ Leads(k, SetGone(k), Sync(x, "current"), Bel("gone", x, "any", FALSE, "all", "good"))
      /\ Leads(k, SetGone(k), Hold(x, "current"), Bel("gone", x, "any", FALSE, "some", "good"))
  BY <1>2, DataWords DEF SetGone, Sync, Hold
<1> QED
  BY <1>1, <1>3, <1>4

LEMMA RefusalsLead ==
  ASSUME NEW k \in Keys, NEW d \in Data, NEW x \in Data
  PROVE  /\ Leads(k, Refused(k, d), Sync(x, "stale"), Sync(x, "stale"))
         /\ Leads(k, Refused(k, d), Hold(x, "stale"), Hold(x, "stale"))
         /\ Leads(k, Refused(k, d), Fresh(x, "stale", "all"), Fresh(x, "stale", "all"))
         /\ Leads(k, RefusedGone(k, d), Sync(x, "stale"), Sync(x, "stale"))
         /\ Leads(k, RefusedNewCas(k, d), Sync(x, "zero"), Sync(x, "zero"))
<1>1. "long" \in Ttl /\ "zero" \in Ttl /\ {"DATA_CONTENTION"} \in SUBSET Statuses
  BY DEF Ttl, Statuses
<1>2. /\ Sync(x, "stale") \in Belief /\ Hold(x, "stale") \in Belief
      /\ Fresh(x, "stale", "all") \in Belief /\ Sync(x, "zero") \in Belief
  BY BelIs DEF Sync, Hold, Fresh
<1>3. \A b \in Belief : b \in {Sync(x, "stale"), Hold(x, "stale"), Fresh(x, "stale", "all")} =>
        b.rec # "nothing" /\ b.host = "good" /\ b.cas = "stale"
  BY DEF Sync, Hold, Fresh, Bel
<1>4. \A b \in Belief : b = Sync(x, "zero") =>
        b.rec = "synced" /\ b.host = "good" /\ b.cas = "zero" /\ b.rec # "nothing"
  BY DEF Sync, Bel
<1>5. \A b \in Belief : b \in {Sync(x, "stale"), Hold(x, "stale"), Fresh(x, "stale", "all")} =>
        /\ Leads(k, SetAs(k, d, "long", "cas", {"DATA_CONTENTION"}, << >>), b, b)
        /\ Leads(k, SetAs(k, d, "zero", "cas", {"DATA_CONTENTION"}, << >>), b, b)
  BY <1>1, <1>3, RefusedLeads
<1>6. \A b \in Belief : b = Sync(x, "zero") =>
        Leads(k, SetAs(k, d, "long", "zero", {"DATA_CONTENTION"}, << >>), b, b)
  BY <1>1, <1>4, RefusedLeads
<1> QED
  BY <1>2, <1>5, <1>6 DEF Refused, RefusedGone, RefusedNewCas

LEMMA GetsLead ==
  ASSUME NEW k \in Keys, NEW x \in Data
  PROVE  /\ \A c \in {"zero", "current", "stale", "any"} :
              /\ Leads(k, Get(k, x), Sync(x, c), Sync(x, "current"))
              /\ Leads(k, Get(k, x), Hold(x, c), Hold(x, "current"))
         /\ \A c \in {"zero", "stale", "any"}, u \in {"all", "some"} :
              Leads(k, NotFound(k), Fresh(x, c, u), Fresh(x, "zero", u))
         /\ Leads(k, DeleteKey(k), Sync(x, "current"), Fresh(x, "stale", "all"))
         /\ Leads(k, DeleteKey(k), Fresh(x, "zero", "all"), Fresh(x, "zero", "all"))
<1>1. \A c \in {"zero", "current", "stale", "any"} :
        /\ Leads(k, Get(k, x), Sync(x, c), Sync(x, "current"))
        /\ Leads(k, Get(k, x), Hold(x, c), Hold(x, "current"))
  BY GetLeads DEF Get, Sync, Hold
<1>2. \A c \in {"zero", "stale", "any"}, u \in {"all", "some"} :
        Leads(k, NotFound(k), Fresh(x, c, u), Fresh(x, "zero", u))
  BY NotFoundLeads DEF Fresh
<1>3. Leads(k, DeleteKey(k), Sync(x, "current"), Fresh(x, "stale", "all"))
  BY DeleteLeads DEF Sync, Fresh
<1>4. Leads(k, DeleteKey(k), Fresh(x, "zero", "all"), Fresh(x, "zero", "all"))
  BY DeleteLeads DEF Fresh
<1> QED
  BY <1>1, <1>2, <1>3, <1>4

LEMMA FailuresLead ==
  ASSUME NEW k \in Keys, NEW x \in Data
  PROVE  /\ Leads(k, Trigger, Sync(x, "zero"), Hold(x, "zero"))
         /\ Leads(k, Trigger, Sync(x, "current"), Hold(x, AfterKill(k)))
         /\ \A c \in {"zero", "stale"} : Leads(k, Trigger, Fresh(x, c, "all"), Fresh(x, c, "some"))
         /\ Leads(k, Fix, Fresh(x, "zero", "some"), Fresh(x, "zero", "all"))
         /\ \A c \in {"zero", "current", "stale"} : Leads(k, Fix, Hold(x, c), Nothing)
BY TriggerLeads, FixLeads DEF Sync, Hold, Fresh

LEMMA AddGetLeads ==
  /\ Leads(1, AddGet, Start, Sync("in", "current"))
  /\ Leads(1, AddGet, Fresh("in", "zero", "some"), Hold("in", "current"))
<1>1. Leads(1, Set(1, "in"), Start, Sync("in", "zero"))
  BY TwoKeys, DataWords, SetsLead DEF Start
<1>2. Leads(1, Set(1, "in"), Fresh("in", "zero", "some"), Hold("in", "zero"))
  BY TwoKeys, DataWords, SetsLead
<1>3. /\ Leads(1, Get(1, "in"), Sync("in", "zero"), Sync("in", "current"))
      /\ Leads(1, Get(1, "in"), Hold("in", "zero"), Hold("in", "current"))
  BY TwoKeys, DataWords, GetsLead
<1> QED
  BY <1>1, <1>2, <1>3, LeadsJoin DEF AddGet

LEMMA AddSetSetLeads ==
  Leads(1, AddSetSetDataContentionSet, Start, Sync("in_new2", "current"))
<1>1. Leads(1, AddGet, Start, Sync("in", "current"))
  BY AddGetLeads
<1>2. Leads(1, Set(1, "in_new1"), Sync("in", "current"), Sync("in_new1", "stale"))
  BY TwoKeys, DataWords, SetsLead
<1>3. Leads(1, Refused(1, "in_new1"), Sync("in_new1", "stale"), Sync("in_new1", "stale"))
  BY TwoKeys, DataWords, RefusalsLead
<1>4. Leads(1, Get(1, "in_new1"), Sync("in_new1", "stale"), Sync("in_new1", "current"))
  BY TwoKeys, DataWords, GetsLead
<1>5. Leads(1, Set(1, "in_new2"), Sync("in_new1", "current"), Sync("in_new2", "stale"))
  BY TwoKeys, DataWords, SetsLead
<1>6. Leads(1, Get(1, "in_new2"), Sync("in_new2", "stale"), Sync("in_new2", "current"))
  BY TwoKeys, DataWords, GetsLead
<1> QED
  BY <1>1, <1>2, <1>3, <1>4, <1>5, <1>6, LeadsJoin DEF AddSetSetDataContentionSet

LEMMA AddSetCASDeleteLeads ==
  Leads(1, AddSetCASDeleteDataContentionCASDelete, Start, Fresh("in_new1", "zero", "all"))
<1>1. Leads(1, AddGet, Start, Sync("in", "current"))
  BY AddGetLeads
<1>2. Leads(1, Set(1, "in_new1"), Sync("in", "current"), Sync("in_new1", "stale"))
  BY TwoKeys, DataWords, SetsLead
<1>3. Leads(1, RefusedGone(1, "in_new1"), Sync("in_new1", "stale"), Sync("in_new1", "stale"))
  BY TwoKeys, DataWords, RefusalsLead
<1>4. Leads(1, Get(1, "in_new1"), Sync("in_new1", "stale"), Sync("in_new1", "current"))
  BY TwoKeys, DataWords, GetsLead
<1>5. Leads(1, SetGone(1), Sync("in_new1", "current"),
           Bel("gone", "in_new1", "any", FALSE, "all", "good"))
  BY TwoKeys, DataWords, SetsLead
<1>6. Leads(1, Pause, Bel("gone", "in_new1", "any", FALSE, "all", "good"),
           Fresh("in_new1", "any", "all"))
  BY TwoKeys, DataWords, PauseLeads DEF Fresh
<1>7. Leads(1, NotFound(1), Fresh("in_new1", "any", "all"), Fresh("in_new1", "zero", "all"))
  BY TwoKeys, DataWords, GetsLead
<1> QED
  BY <1>1, <1>2, <1>3, <1>4, <1>5, <1>6, <1>7, LeadsJoin DEF AddSetCASDeleteDataContentionCASDelete

LEMMA AddAddLeads ==
  Leads(1, AddAddDataContention, Start, Sync("in", "current"))
<1>1. Leads(1, Set(1, "in"), Start, Sync("in", "zero"))
  BY TwoKeys, DataWords, SetsLead DEF Start
<1>2. Leads(1, RefusedNewCas(1, "in_new1"), Sync("in", "zero"), Sync("in", "zero"))
  BY TwoKeys, DataWords, RefusalsLead
<1>3. Leads(1, Get(1, "in"), Sync("in", "zero"), Sync("in", "current"))
  BY TwoKeys, DataWords, GetsLead
<1> QED
  BY <1>1, <1>2, <1>3, LeadsJoin DEF AddAddDataContention

LEMMA AddDeleteLeads ==
  Leads(1, AddDelete, Start, Fresh("in", "zero", "all"))
<1>1. Leads(1, AddGet, Start, Sync("in", "current"))
  BY AddGetLeads
<1>2. Leads(1, DeleteKey(1), Sync("in", "current"), Fresh("in", "stale", "all"))
  BY TwoKeys, DataWords, GetsLead
<1>3. Leads(1, NotFound(1), Fresh("in", "stale", "all"), Fresh("in", "zero", "all"))
  BY TwoKeys, DataWords, GetsLead
<1> QED
  BY <1>1, <1>2, <1>3, LeadsJoin DEF AddDelete

LEMMA AddDeleteAddLeads ==
  Leads(1, AddDeleteAdd, Start, Sync("in", "current"))
<1>1. Leads(1, AddDelete, Start, Start)
  BY AddDeleteLeads DEF Start
<1> QED
  BY <1>1, AddGetLeads, LeadsJoin DEF AddDeleteAdd

LEMMA AddDeleteSetLeads ==
  Leads(1, AddDeleteSetDataContention, Start, Fresh("in", "stale", "all"))
<1>1. Leads(1, AddGet, Start, Sync("in", "current"))
  BY AddGetLeads
<1>2. Leads(1, DeleteKey(1), Sync("in", "current"), Fresh("in", "stale", "all"))
  BY TwoKeys, DataWords, GetsLead
<1>3. Leads(1, Refused(1, "in_new1"), Fresh("in", "stale", "all"), Fresh("in", "stale", "all"))
  BY TwoKeys, DataWords, RefusalsLead
<1> QED
  BY <1>1, <1>2, <1>3, LeadsJoin DEF AddDeleteSetDataContention

LEMMA UseStoreLeads ==
  Leads(1, UseStore, Start, Fresh("in_new1", "zero", "all"))
<1>1. Leads(1, AddGet, Start, Sync("in", "current"))
  BY AddGetLeads
<1>2. Leads(1, Set(1, "in_new1"), Sync("in", "current"), Sync("in_new1", "stale"))
  BY TwoKeys, DataWords, SetsLead
<1>3. Leads(1, Get(1, "in_new1"), Sync("in_new1", "stale"), Sync("in_new1", "current"))
  BY TwoKeys, DataWords, GetsLead
<1>4. Leads(1, DeleteKey(1), Sync("in_new1", "current"), Fresh("in_new1", "stale", "all"))
  BY TwoKeys, DataWords, GetsLead
<1>5. Leads(1, NotFound(1), Fresh("in_new1", "stale", "all"), Fresh("in_new1", "zero", "all"))
  BY TwoKeys, DataWords, GetsLead
<1> QED
  BY <1>1, <1>2, <1>3, <1>4, <1>5, LeadsJoin DEF UseStore

LEMMA ConnectedLeads ==
  /\ Leads(1, ConnectUsingIpAddress, Start, Fresh("in_new1", "zero", "all"))
  /\ Leads(1, DomainAndPort, Start, Fresh("in_new1", "zero", "all"))
<1>1. \A h \in {"ip", "rogers.local:11311"} : Leads(1, Connect(h), Start, Start)
  BY TwoKeys, ConnectLeads DEF Start, Fresh, Hosts
<1> QED
  BY <1>1, UseStoreLeads, LeadsJoin DEF ConnectUsingIpAddress, DomainAndPort

(* Every request of a store that cannot resolve its domain fails.          *)
LEMMA BadDomainLeads ==
  Leads(1, BadDomainName, Start, Bel("absent", "in", "zero", FALSE, "all", "bad"))
<1> DEFINE b == Bel("absent", "in", "zero", FALSE, "all", "bad")
           g == [op |-> "get", key |-> 1, rc |-> "ERROR", values |-> {}]
           d == [op |-> "delete", key |-> 1, rc |-> "ERROR"]
<1>1. b \in Belief /\ b.rec # "nothing" /\ b.host = "bad"
  BY BelIs, DataWords DEF Bel
<1>2. Leads(1, Connect("bad.domain.name"), Start, b)
  BY TwoKeys, ConnectLeads DEF Start, Fresh, Hosts
<1>3. /\ g \in PlainStep /\ d \in PlainStep
      /\ GetErrors(1) = <<g>> /\ DeleteErrors(1) = <<d>>
  BY TwoKeys DEF PlainStep, GetSteps, DeleteSteps, Statuses, GetErrors, GetAs, DeleteErrors
<1> HIDE DEF b
<1>4. Leads(1, SetErrors(1, "in"), b, b)
  <2>1. "long" \in Ttl /\ {"ERROR"} \in SUBSET Statuses
    BY DEF Ttl, Statuses
  <2> QED
    BY <1>1, <2>1, TwoKeys, DataWords, RefusedLeads DEF SetErrors
<1>5. Leads(1, GetErrors(1), b, b)
  <2>1. PlainRule(1, g, b, b)
    BY <1>1 DEF PlainRule, IsOn, KeyOps, Fits, GetFits, After, AfterGet
  <2> HIDE DEF g
  <2> QED
    BY <1>1, <1>3, <2>1, LeadsOne
<1>6. Leads(1, DeleteErrors(1), b, b)
  <2>1. PlainRule(1, d, b, b)
    BY <1>1 DEF PlainRule, IsOn, KeyOps, Fits, DeleteFits, After, AfterDelete
  <2> HIDE DEF d
  <2> QED
    BY <1>1, <1>3, <2>1, LeadsOne
<1>7. Leads(1, BadDomainName, Start, b)
  BY <1>2, <1>4, <1>5, <1>6, LeadsJoin DEF BadDomainName
<1> QED
  BY <1>7 DEF b

LEMMA AddGetExpireLeads ==
  Leads(1, AddGetExpire, Start, Bel("absent", "in", "zero", TRUE, "all", "good"))
<1>1. Leads(1, SetShort(1, "in"), Start, Bel("synced", "in", "zero", TRUE, "all", "good"))
  BY TwoKeys, DataWords, SetsLead DEF Start
<1>2. Leads(1, Get(1, "in"), Bel("synced", "in", "zero", TRUE, "all", "good"),
           Bel("synced", "in", "current", TRUE, "all", "good"))
  BY TwoKeys, DataWords, GetLeads DEF Get
<1>3. Leads(1, Sleep2, Bel("synced", "in", "current", TRUE, "all", "good"),
           Bel("absent", "in", "any", TRUE, "all", "good"))
  BY TwoKeys, DataWords, SleepLeads
<1>4. Leads(1, NotFound(1), Bel("absent", "in", "any", TRUE, "all", "good"),
           Bel("absent", "in", "zero", TRUE, "all", "good"))
  BY TwoKeys, DataWords, NotFoundLeads
<1> QED
  BY <1>1, <1>2, <1>3, <1>4, LeadsJoin DEF AddGetExpire

LEMMA AddKillGetExpireLeads ==
  Leads(1, AddKillGetExpire, Start, Bel("absent", "in", "zero", TRUE, "all", "good"))
<1>1. Leads(1, SetShort(1, "in"), Start, Bel("synced", "in", "zero", TRUE, "all", "good"))
  BY TwoKeys, DataWords, SetsLead DEF Start
<1>2. Leads(1, Trigger, Bel("synced", "in", "zero", TRUE, "all", "good"),
           Bel("held", "in", "zero", TRUE, "some", "good"))
  BY TwoKeys, DataWords, TriggerLeads
<1>3. Leads(1, Sleep2, Bel("held", "in", "zero", TRUE, "some", "good"),
           Bel("absent", "in", "any", TRUE, "some", "good"))
  BY TwoKeys, DataWords, SleepLeads
<1>4. Leads(1, NotFound(1), Bel("absent", "in", "any", TRUE, "some", "good"),
           Bel("absent", "in", "zero", TRUE, "some", "good"))
  BY TwoKeys, DataWords, NotFoundLeads
<1>5. Leads(1, Fix, Bel("absent", "in", "zero", TRUE, "some", "good"),
           Bel("absent", "in", "zero", TRUE, "all", "good"))
  BY TwoKeys, DataWords, FixLeads
<1>6. Leads(1, SetShort(1, "in") \o Trigger \o Sleep2, Start,
            Bel("absent", "in", "any", TRUE, "some", "good"))
  BY <1>1, <1>2, <1>3, LeadsJoin
<1> QED
  BY <1>4, <1>5, <1>6, LeadsJoin DEF AddKillGetExpire

LEMMA KillAddGetLeads ==
  Leads(1, KillAddGet, Start, Nothing)
<1>1. Leads(1, Trigger, Start, Fresh("in", "zero", "some"))
  BY TwoKeys, DataWords, FailuresLead DEF Start
<1>2. Leads(1, Fix, Hold("in", "current"), Nothing)
  BY TwoKeys, DataWords, FailuresLead
<1> QED
  BY <1>1, <1>2, AddGetLeads, LeadsJoin DEF KillAddGet

LEMMA AddKillGetLeads ==
  Leads(1, AddKillGet, Start, Nothing)
<1>1. Leads(1, Set(1, "in"), Start, Sync("in", "zero"))
  BY TwoKeys, DataWords, SetsLead DEF Start
<1>2. Leads(1, Trigger, Sync("in", "zero"), Hold("in", "zero"))
  BY TwoKeys, DataWords, FailuresLead
<1>3. Leads(1, Get(1, "in"), Hold("in", "zero"), Hold("in", "current"))
  BY TwoKeys, DataWords, GetsLead
<1>4. Leads(1, Fix, Hold("in", "current"), Nothing)
  BY TwoKeys, DataWords, FailuresLead
<1> QED
  BY <1>1, <1>2, <1>3, <1>4, LeadsJoin DEF AddKillGet

LEMMA AddDeleteKillLeads ==
  Leads(1, AddDeleteKill, Start, Fresh("in", "zero", "all"))
<1>1. Leads(1, AddGet, Start, Sync("in", "current"))
  BY AddGetLeads
<1>2. Leads(1, DeleteKey(1), Sync("in", "current"), Fresh("in", "stale", "all"))
  BY TwoKeys, DataWords, GetsLead
<1>3. Leads(1, Trigger, Fresh("in", "stale", "all"), Fresh("in", "stale", "some"))
  BY TwoKeys, DataWords, FailuresLead
<1>4. Leads(1, NotFound(1), Fresh("in", "stale", "some"), Fresh("in", "zero", "some"))
  BY TwoKeys, DataWords, GetsLead
<1>5. Leads(1, Fix, Fresh("in", "zero", "some"), Fresh("in", "zero", "all"))
  BY TwoKeys, DataWords, FailuresLead
<1> QED
  BY <1>1, <1>2, <1>3, <1>4, <1>5, LeadsJoin DEF AddDeleteKill

LEMMA AddKillCASDeleteLeads ==
  Leads(1, AddKillCASDelete, Start, Fresh("in", "zero", "all"))
<1>1. Leads(1, Set(1, "in"), Start, Sync("in", "zero"))
  BY TwoKeys, DataWords, SetsLead DEF Start
<1>2. Leads(1, Trigger, Sync("in", "zero"), Hold("in", "zero"))
  BY TwoKeys, DataWords, FailuresLead
<1>3. Leads(1, Get(1, "in"), Hold("in", "zero"), Hold("in", "current"))
  BY TwoKeys, DataWords, GetsLead
<1>4. Leads(1, SetGone(1), Hold("in", "current"), Bel("gone", "in", "any", FALSE, "some", "good"))
  BY TwoKeys, DataWords, SetsLead
<1>5. Leads(1, Pause, Bel("gone", "in", "any", FALSE, "some", "good"), Fresh("in", "any", "some"))
  BY TwoKeys, DataWords, PauseLeads DEF Fresh
<1>6. Leads(1, NotFound(1), Fresh("in", "any", "some"), Fresh("in", "zero", "some"))
  BY TwoKeys, DataWords, GetsLead
<1>7. Leads(1, Fix, Fresh("in", "zero", "some"), Fresh("in", "zero", "all"))
  BY TwoKeys, DataWords, FailuresLead
<1> QED
  BY <1>1, <1>2, <1>3, <1>4, <1>5, <1>6, <1>7, LeadsJoin DEF AddKillCASDelete

LEMMA AddKillGetSetLeads ==
  Leads(1, AddKillGetSet, Start, Nothing)
<1>1. Leads(1, Set(1, "in"), Start, Sync("in", "zero"))
  BY TwoKeys, DataWords, SetsLead DEF Start
<1>2. Leads(1, Trigger, Sync("in", "zero"), Hold("in", "zero"))
  BY TwoKeys, DataWords, FailuresLead
<1>3. Leads(1, Get(1, "in"), Hold("in", "zero"), Hold("in", "current"))
  BY TwoKeys, DataWords, GetsLead
<1>4. Leads(1, Set(1, "in_new1"), Hold("in", "current"), Hold("in_new1", "stale"))
  BY TwoKeys, DataWords, SetsLead
<1>5. Leads(1, Get(1, "in_new1"), Hold("in_new1", "stale"), Hold("in_new1", "current"))
  BY TwoKeys, DataWords, GetsLead
<1>6. Leads(1, Fix, Hold("in_new1", "current"), Nothing)
  BY TwoKeys, DataWords, FailuresLead
<1> QED
  BY <1>1, <1>2, <1>3, <1>4, <1>5, <1>6, LeadsJoin DEF AddKillGetSet

LEMMA OneKeyLeads == \A t \in OneKeyTests : \E c : Leads(1, Script(t), Start, c)
<1>1. Leads(1, DeleteKey(1), Start, Start)
  BY TwoKeys, DataWords, GetsLead DEF Start
<1>2. \A t \in {"AddGet", "AddGetExpire", "AddSetSetDataContentionSet",
                "AddSetCASDeleteDataContentionCASDelete", "AddAddDataContention"} :
        \E c : Leads(1, Script(t), Start, c)
  BY AddGetLeads, AddGetExpireLeads, AddSetSetLeads, AddSetCASDeleteLeads, AddAddLeads DEF Script
<1>3. \A t \in {"AddDelete", "Delete", "AddDeleteAdd", "AddDeleteSetDataContention"} :
        \E c : Leads(1, Script(t), Start, c)
  BY <1>1, AddDeleteLeads, AddDeleteAddLeads, AddDeleteSetLeads DEF Script
<1>4. \A t \in {"ConnectUsingIpAddress", "BadDomainName", "DomainAndPort"} :
        \E c : Leads(1, Script(t), Start, c)
  BY ConnectedLeads, BadDomainLeads DEF Script
<1>5. \A t \in {"KillAddGet", "AddKillGet", "AddKillGetExpire"} :
        \E c : Leads(1, Script(t), Start, c)
  BY KillAddGetLeads, AddKillGetLeads, AddKillGetExpireLeads DEF Script
<1>6. \A t \in {"AddDeleteKill", "AddKillCASDelete"} : \E c : Leads(1, Script(t), Start, c)
  BY AddDeleteKillLeads, AddKillCASDeleteLeads DEF Script
<1>7. \A t \in LargerClustersTests : \E c : Leads(1, Script(t), Start, c)
  BY AddGetLeads, AddKillGetLeads, AddKillGetSetLeads DEF LargerClustersTests, Script
<1> QED
  BY <1>2, <1>3, <1>4, <1>5, <1>6, <1>7
  DEF OneKeyTests, SimpleTests, FailureTests

-----------------------------------------------------------------------------
(* Every key of every test *)

LEMMA IdleLeads ==
  ASSUME NEW k \in Keys, k # 1, NEW s \in ScriptOn(1)
  PROVE  Leads(k, s, Nothing, Nothing)
<1>1. s \in Seq(Step) /\ Len(s) \in Nat
  BY TwoKeys, StepsOfAKey, LenProperties
<1>2. ASSUME NEW n \in 1..Len(s) PROVE Rule(k, s[n], Nothing, Nothing)
  <2>1. s[n] \in StepsOn(1)
    BY ElementOfSeq DEF ScriptOn
  <2>2. s[n] \in PlainStep /\ ~IsOn(k, s[n])
    BY <2>1 DEF StepsOn, IsOn
  <2> QED
    BY <2>2, PlainIsStep DEF Rule, PlainRule
<1> QED
  BY <1>1, <1>2, TripleIdle DEF Leads

(* A step on another key leaves a belief alone.                            *)
LEMMA OthersLead ==
  ASSUME NEW k \in Keys, NEW j \in Keys, j # k, NEW d \in Data, NEW b \in Belief
  PROVE  /\ Leads(k, Set(j, d), b, b) /\ Leads(k, Get(j, d), b, b) /\ Leads(k, Refused(j, d), b, b)
         /\ Leads(k, <<Either(j)>>, b, b)
<1>1. \A s \in PlainStep : s.op \in KeyOps /\ s.key = j => Leads(k, <<s>>, b, b)
  BY LeadsOne DEF PlainRule, IsOn
<1>2. \A rcs \in SUBSET Statuses : Leads(k, SetAs(j, d, "long", "cas", rcs, << >>), b, b)
  <2> SUFFICES ASSUME NEW rcs \in SUBSET Statuses
               PROVE  Leads(k, SetAs(j, d, "long", "cas", rcs, << >>), b, b)
    OBVIOUS
  <2>1. "long" \in Ttl
    BY DEF Ttl
  <2>2. PICK s \in PlainStep :
          s.op = "set" /\ s.key = j /\ SetAs(j, d, "long", "cas", rcs, << >>) = <<s>>
    BY <2>1, SetIs
  <2> QED
    BY <1>1, <2>2 DEF KeyOps
<1>3. Leads(k, Set(j, d), b, b) /\ Leads(k, Refused(j, d), b, b)
  <2>1. {"OK"} \in SUBSET Statuses /\ {"DATA_CONTENTION"} \in SUBSET Statuses
    BY DEF Statuses
  <2> QED
    BY <1>2, <2>1 DEF Set, Refused
<1>4. Leads(k, Get(j, d), b, b)
  <2> DEFINE s == [op |-> "get", key |-> j, rc |-> "OK", values |-> {d}]
  <2>1. s \in PlainStep /\ s.op \in KeyOps /\ s.key = j /\ Get(j, d) = <<s>>
    BY DEF PlainStep, GetSteps, Statuses, Get, GetAs, KeyOps
  <2> QED
    BY <1>1, <2>1
<1>5. Leads(k, <<Either(j)>>, b, b)
  <2>1. /\ Either(j) \in Step /\ HasRetry(Either(j)) /\ IsOn(j, Either(j))
        /\ Either(j).retry = Retry(j) /\ IsOn(j, Retry(j)[1]) /\ IsOn(j, Retry(j)[2])
    BY EitherIs, RetryIs DEF Either
  <2>2. Rule(k, Either(j), b, b)
    BY <2>1 DEF Rule, IsOn
  <2>3. <<Either(j)>> \in Seq(Step)
    BY <2>1
  <2> QED
    BY <2>2, <2>3, TripleOne DEF Leads
<1> QED
  BY <1>3, <1>4, <1>5

LEMMA BeliefsAre ==
  /\ Start \in Belief /\ Nothing \in Belief
  /\ \A x \in Data : Fresh(x, "zero", "some") \in Belief
BY BelIs, DataWords DEF Start, Fresh, Nothing, Bel, Belief

LEMMA TwoKeysLead == \A k \in Keys : \E c : Leads(k, AddGetTwoKeys, Start, c)
<1> DEFINE a == Set(1, "in")  b == Set(2, "in_new1")  c == Get(1, "in")  d == Get(2, "in_new1")
<1>1. AddGetTwoKeys = a \o b \o c \o d
  BY DEF AddGetTwoKeys
<1>2. /\ Sync("in", "zero") \in Belief /\ Sync("in", "current") \in Belief
      /\ Start = Fresh("in", "zero", "all")
  BY BelIs, DataWords DEF Sync, Start
<1> DEFINE Idle(k, s) == \A e \in Belief : Leads(k, s, e, e)
<1>9. ASSUME NEW k \in Keys
      PROVE  /\ k # 1 => Idle(k, a) /\ Idle(k, c)
             /\ k # 2 => Idle(k, b) /\ Idle(k, d)
  BY TwoKeys, DataWords, OthersLead
<1>3. Leads(1, a \o b \o c \o d, Start, Sync("in", "current"))
  <2>1. /\ Leads(1, a, Start, Sync("in", "zero"))
        /\ Leads(1, c, Sync("in", "zero"), Sync("in", "current"))
    BY <1>2, TwoKeys, DataWords, SetsLead, GetsLead
  <2>2. /\ Leads(1, b, Sync("in", "zero"), Sync("in", "zero"))
        /\ Leads(1, d, Sync("in", "current"), Sync("in", "current"))
    BY <1>2, <1>9, TwoKeys
  <2> HIDE DEF a, b, c, d
  <2> QED
    BY <2>1, <2>2, LeadsJoin
<1>4. Leads(2, a \o b \o c \o d, Start, Sync("in_new1", "current"))
  <2>1. /\ Leads(2, b, Start, Sync("in_new1", "zero"))
        /\ Leads(2, d, Sync("in_new1", "zero"), Sync("in_new1", "current"))
    BY <1>2, TwoKeys, DataWords, SetsLead, GetsLead
  <2>2. Sync("in_new1", "zero") \in Belief
    BY BelIs, DataWords DEF Sync
  <2>3. /\ Leads(2, a, Start, Start)
        /\ Leads(2, c, Sync("in_new1", "zero"), Sync("in_new1", "zero"))
    BY <2>2, <1>9, TwoKeys, BeliefsAre
  <2> HIDE DEF a, b, c, d
  <2> QED
    BY <2>1, <2>3, LeadsJoin
<1>5. ASSUME NEW k \in Keys, k # 1, k # 2 PROVE Leads(k, a \o b \o c \o d, Start, Start)
  <2>1. Leads(k, a, Start, Start) /\ Leads(k, b, Start, Start)
    BY <1>5, TwoKeys, DataWords, BeliefsAre, OthersLead
  <2>2. Leads(k, c, Start, Start) /\ Leads(k, d, Start, Start)
    BY <1>5, TwoKeys, DataWords, BeliefsAre, OthersLead
  <2> HIDE DEF a, b, c, d
  <2> QED
    BY <2>1, <2>2, LeadsJoin
<1> HIDE DEF a, b, c, d
<1> QED
  BY <1>1, <1>3, <1>4, <1>5

(* The first update after the failure.                                     *)
LEMMA EitherLeads ==
  ASSUME NEW k \in Keys
  PROVE  Leads(k, <<Either(k)>>, Hold("in", AfterKill(k)), Hold("in_new1", "stale"))
<1> DEFINE b == Hold("in", "stale")  m == Hold("in", "current")  c == Hold("in_new1", "stale")
           s == Either(k)  x == Retry(k)[1]  y == Retry(k)[2]
<1>1. b \in Belief /\ m \in Belief /\ c \in Belief
  BY BelIs, DataWords DEF Hold
<1>2. /\ s \in Step /\ HasRetry(s) /\ IsOn(k, s) /\ s.retry = Retry(k)
      /\ s.op = "set" /\ s.from = "cas" /\ s.data = "in_new1" /\ s.ttl = "long"
      /\ {"OK", "DATA_CONTENTION"} \subseteq s.rcs
  BY EitherIs DEF Either
<1>3. /\ IsOn(k, x) /\ x.op = "get" /\ x.rc = "OK" /\ x.values = Data \ {"in_new1"}
      /\ IsOn(k, y) /\ y.op = "set" /\ y.from = "cas" /\ y.data = "in_new1" /\ y.ttl = "long"
      /\ y.rcs = {"OK"}
  BY RetryIs DEF Retry
<1>4. /\ b.rec = "held" /\ b.data = "in" /\ b.cas = "stale" /\ b.short = FALSE /\ b.up = "some"
      /\ b.host = "good"
      /\ m.rec = "held" /\ m.data = "in" /\ m.cas = "current" /\ m.short = FALSE /\ m.up = "some"
      /\ m.host = "good"
  BY DEF Hold, Bel
<1>5. m = AfterGet(b) /\ c = AfterSet(s, m) /\ c = AfterSet(y, m)
  BY <1>2, <1>3, <1>4 DEF AfterGet, AfterSet, Refuses, Hold, Bel
<1> HIDE DEF b, m, c, s, x, y
<1>6. PlainRule(k, x, b, m)
  <2>1. "in" \in Data \ {"in_new1"}
    BY DataWords
  <2> QED
    BY <1>3, <1>4, <1>5, <2>1 DEF PlainRule, Fits, GetFits, After
<1>7. PlainRule(k, y, m, c)
  BY <1>3, <1>4, <1>5 DEF PlainRule, Fits, SetFits, Takes, After
<1>8. ASSUME NEW e \in Belief, e = IF PrimaryKilled(k) THEN b ELSE m PROVE Leads(k, <<s>>, e, c)
  <2>1. Rule(k, s, e, c)
    <3>1. CASE PrimaryKilled(k)
      BY <1>1, <1>2, <1>4, <1>6, <1>7, <1>8, <3>1 DEF Rule, x, y
    <3>2. CASE ~PrimaryKilled(k)
      BY <1>1, <1>2, <1>4, <1>5, <1>8, <3>2 DEF Rule
    <3> QED
      BY <3>1, <3>2
  <2>2. <<s>> \in Seq(Step)
    BY <1>2
  <2> QED
    BY <1>1, <2>1, <2>2, TripleOne DEF Leads
<1>9. Hold("in", AfterKill(k)) = IF PrimaryKilled(k) THEN b ELSE m
  BY DEF AfterKill, b, m
<1> QED
  BY <1>1, <1>8, <1>9 DEF s, c

LEMMA RoundLeads ==
  ASSUME NEW k \in Keys
  PROVE  Leads(k, AddKillSetSetRound(k), Start, Nothing)
<1>1. /\ Leads(k, Set(k, "in"), Start, Sync("in", "zero"))
      /\ Leads(k, Get(k, "in"), Sync("in", "zero"), Sync("in", "current"))
      /\ Leads(k, Trigger, Sync("in", "current"), Hold("in", AfterKill(k)))
  BY DataWords, SetsLead, GetsLead, FailuresLead DEF Start
<1>2. Leads(k, SetSetSet(k), Hold("in", AfterKill(k)), Hold("in_new2", "current"))
  <2>1. Leads(k, <<Either(k)>>, Hold("in", AfterKill(k)), Hold("in_new1", "stale"))
    BY EitherLeads
  <2>2. Leads(k, Refused(k, "FAIL"), Hold("in_new1", "stale"), Hold("in_new1", "stale"))
    BY DataWords, RefusalsLead
  <2>3. Leads(k, Get(k, "in_new1"), Hold("in_new1", "stale"), Hold("in_new1", "current"))
    BY DataWords, GetsLead
  <2>4. Leads(k, Set(k, "in_new2"), Hold("in_new1", "current"), Hold("in_new2", "stale"))
    BY DataWords, SetsLead
  <2>5. Leads(k, Get(k, "in_new2"), Hold("in_new2", "stale"), Hold("in_new2", "current"))
    BY DataWords, GetsLead
  <2>6. SetSetSet(k) = <<Either(k)>> \o Refused(k, "FAIL") \o Get(k, "in_new1")
                         \o Set(k, "in_new2") \o Get(k, "in_new2")
    BY EitherIs DEF SetSetSet
  <2> QED
    BY <2>1, <2>2, <2>3, <2>4, <2>5, <2>6, LeadsJoin
<1>3. Leads(k, Fix, Hold("in_new2", "current"), Nothing)
  BY DataWords, FailuresLead
<1>4. Leads(k, Connect("rogers.local"), Nothing, Nothing)
  BY ConnectLeads DEF Hosts
<1> QED
  BY <1>1, <1>2, <1>3, <1>4, LeadsJoin DEF AddKillSetSetRound

LEMMA OtherRoundLeads ==
  ASSUME NEW k \in Keys, NEW j \in Keys, j # k
  PROVE  /\ Leads(k, AddKillSetSetRound(j), Start, Start)
         /\ Leads(k, AddKillSetSetRound(j), Nothing, Nothing)
<1> DEFINE F == Fresh("in", "zero", "some")
<1>1. F \in Belief /\ Start \in Belief /\ Nothing \in Belief
  BY DataWords, BeliefsAre
<1>2. \A b \in Belief : Leads(k, SetSetSet(j), b, b)
  <2> SUFFICES ASSUME NEW b \in Belief PROVE Leads(k, SetSetSet(j), b, b)
    OBVIOUS
  <2>1. /\ Leads(k, <<Either(j)>>, b, b) /\ Leads(k, Refused(j, "FAIL"), b, b)
        /\ Leads(k, Get(j, "in_new1"), b, b) /\ Leads(k, Set(j, "in_new2"), b, b)
        /\ Leads(k, Get(j, "in_new2"), b, b)
    BY DataWords, OthersLead
  <2>2. SetSetSet(j) = <<Either(j)>> \o Refused(j, "FAIL") \o Get(j, "in_new1")
                         \o Set(j, "in_new2") \o Get(j, "in_new2")
    BY EitherIs DEF SetSetSet
  <2> QED
    BY <2>1, <2>2, LeadsJoin
<1>3. \A b \in Belief : Leads(k, Set(j, "in"), b, b) /\ Leads(k, Get(j, "in"), b, b)
  BY DataWords, OthersLead
<1>4. /\ Leads(k, Trigger, Start, F) /\ Leads(k, Fix, F, Start)
      /\ Leads(k, Connect("rogers.local"), Start, Start)
  BY DataWords, FailuresLead, ConnectLeads DEF Start, Fresh, Hosts
<1>5. /\ Leads(k, Trigger, Nothing, Nothing) /\ Leads(k, Fix, Nothing, Nothing)
      /\ Leads(k, Connect("rogers.local"), Nothing, Nothing)
  <2>1. [op |-> "trigger"] \in OtherSteps /\ [op |-> "fix"] \in OtherSteps
    BY DEF OtherSteps
  <2> QED
    BY <2>1, NothingLeads, ConnectLeads DEF Trigger, Fix, Hosts
<1> HIDE DEF F
<1>6. Leads(k, AddKillSetSetRound(j), Start, Start)
  BY <1>1, <1>2, <1>3, <1>4, LeadsJoin DEF AddKillSetSetRound
<1>7. Leads(k, AddKillSetSetRound(j), Nothing, Nothing)
  BY <1>1, <1>2, <1>3, <1>5, LeadsJoin DEF AddKillSetSetRound
<1> QED
  BY <1>6, <1>7

(* A key is new until its round and of no interest afterwards.             *)
LEMMA RoundsLead == \A k \in Keys : \E c : Triple(k, AddKillSetSetDataContentionSet, Start, c)
<1> SUFFICES ASSUME NEW k \in Keys PROVE \E c : Triple(k, AddKillSetSetDataContentionSet, Start, c)
  OBVIOUS
<1> DEFINE bb == [r \in 1..(Rounds + 1) |-> IF r <= k THEN Start ELSE Nothing]
<1>1. Rounds \in Nat \ {0} /\ k \in Nat \ {0}
  BY StoreAssumption DEF Keys
<1>2. bb \in [1..(Rounds + 1) -> Belief] /\ bb[1] = Start
  BY <1>1, BeliefsAre
<1>3. ASSUME NEW r \in 1..Rounds PROVE Triple(k, AddKillSetSetRound(r), bb[r], bb[r + 1])
  <2>1. r \in Keys /\ r \in 1..(Rounds + 1) /\ r + 1 \in 1..(Rounds + 1)
    BY <1>1, TwoKeys
  <2>2. CASE r = k
    <3>1. bb[r] = Start /\ bb[r + 1] = Nothing
      BY <1>1, <2>1, <2>2
    <3> QED
      BY <2>2, <3>1, RoundLeads DEF Leads
  <2>3. CASE r < k
    <3>1. bb[r] = Start /\ bb[r + 1] = Start /\ r # k
      BY <1>1, <2>1, <2>3
    <3> QED
      BY <2>1, <3>1, OtherRoundLeads DEF Leads
  <2>4. CASE r > k
    <3>1. bb[r] = Nothing /\ bb[r + 1] = Nothing /\ r # k
      BY <1>1, <2>1, <2>4
    <3> QED
      BY <2>1, <3>1, OtherRoundLeads DEF Leads
  <2> QED
    BY <1>1, <2>2, <2>3, <2>4
<1> HIDE DEF bb
<1>4. Triple(k, AddKillSetSetDataContentionSet, bb[1], bb[Rounds + 1])
  BY <1>2, <1>3, TripleRounds
<1> QED
  BY <1>2, <1>4

LEMMA ScriptLeads ==
  ASSUME NEW t \in Tests, NEW k \in Keys
  PROVE  \E b \in {Start, Nothing} : \E c : Triple(k, Script(t), b, c)
<1>1. CASE t \in OneKeyTests
  <2>1. CASE k = 1
    BY <1>1, <2>1, OneKeyLeads DEF Leads
  <2>2. CASE k # 1
    BY <1>1, <2>2, OneKeyTestTypes, IdleLeads DEF Leads
  <2> QED
    BY <2>1, <2>2
<1>2. CASE t = "AddGetTwoKeys"
  BY <1>2, TwoKeysLead DEF Leads, Script
<1>3. CASE t = "AddKillSetSetDataContentionSet"
  BY <1>3, RoundsLead DEF Script
<1> QED
  BY <1>1, <1>2, <1>3, StoreAssumption DEF OneKeyTests

-----------------------------------------------------------------------------
(* The theorems about a store that keeps to its contract *)

LEMMA InitPasses == Init => PassesInv
<1> SUFFICES ASSUME Init PROVE PassesInv
  OBVIOUS
<1>1. TypeInv
  BY InitTypes
<1>2. ASSUME NEW k \in Keys PROVE \E b, c \in Belief : Holds(k, b) /\ Triple(k, todo, b, c)
  <2>1. PICK b \in {Start, Nothing} : \E c : Triple(k, todo, b, c)
    BY ScriptLeads DEF Init
  <2>2. PICK c : Triple(k, todo, b, c)
    BY <2>1
  <2>3. b \in Belief /\ c \in Belief
    BY <1>1, <2>2, TripleEnds DEF TypeInv
  <2>4. Holds(k, Start)
    <3>1. /\ Start.rec = "absent" /\ Start.cas = "zero" /\ ~Start.short /\ Start.host = "good"
      BY DEF Start, Fresh, Bel
    <3>2. Absent(k)
      BY <1>1, Placed DEF Init, Absent, NoneFor, TypeInv
    <3>3. cas[k] = 0 /\ Resolves /\ up = ServersOf(test)
      BY DEF Init, Resolves
    <3> QED
      BY <3>1, <3>2, <3>3 DEF Holds, HoldsRec, HoldsCas, HoldsRest
  <2>5. Holds(k, b)
    BY <2>4, NothingHolds
  <2> QED
    BY <2>2, <2>3, <2>5
<1> QED
  BY <1>2 DEF Init, PassesInv

THEOREM SpecPassesInv == Spec => [](TypeInv /\ PassesInv)
<1>1. Init => TypeInv /\ PassesInv
  BY InitTypes, InitPasses
<1>2. TypeInv /\ PassesInv /\ [Next]_vars => (TypeInv /\ PassesInv)'
  BY NextTyped, NextPasses
<1> QED
  BY <1>1, <1>2, PTL DEF Spec

(* With a store that keeps to its contract no EXPECT of any test fails,    *)
(* for any number of rounds and whatever copies arrive when, unless the    *)
(* failure overtook a copy (test_memcachedsolution.cpp:726).               *)
THEOREM TestsPass == Spec => []FailsOnlyIfOvertaken
<1>1. TypeInv /\ PassesInv => FailsOnlyIfOvertaken
  BY DEF TypeInv, PassesInv, FailsOnlyIfOvertaken
<1> QED
  BY <1>1, SpecPassesInv, PTL

LEMMA TailLength ==
  ASSUME NEW S, NEW q \in Seq(S), q # << >>
  PROVE  Tail(q) \in Seq(S) /\ Len(Tail(q)) = Len(q) - 1 /\ Len(q) \in Nat
<1>1. Tail(q) \in Seq(S) /\ Len(Tail(q)) = Len(q) - 1
  BY HeadTailProperties
<1>2. Len(q) \in Nat
  BY LenProperties
<1> QED
  BY <1>1, <1>2

LEMMA ConcatLength ==
  ASSUME NEW S, NEW p \in Seq(S), NEW q \in Seq(S)
  PROVE  Len(p \o q) = Len(p) + Len(q)
  BY ConcatProperties

LEMMA LongerAndShorter ==
  ASSUME NEW n \in Nat, NEW m, m = n - 1, NEW l, l = 2 + m
  PROVE  l >= n /\ ~(m >= n)
  OBVIOUS

(* A test that retries has more steps left, one that does not has fewer.   *)
LEMMA RetryIsLonger ==
  ASSUME NEW s \in Step, HasRetry(s), NEW q \in Seq(Step), q # << >>
  PROVE  Len(s.retry \o Tail(q)) >= Len(q) /\ ~(Len(Tail(q)) >= Len(q))
<1>1. Tail(q) \in Seq(Step) /\ Len(Tail(q)) = Len(q) - 1 /\ Len(q) \in Nat
  BY TailLength
<1>2. s.retry \in Seq(Step) /\ Len(s.retry) = 2
  BY RetrySteps
<1>3. Len(s.retry \o Tail(q)) = Len(s.retry) + Len(Tail(q))
  BY <1>1, <1>2, ConcatLength
<1>4. Len(s.retry \o Tail(q)) = 2 + Len(Tail(q))
  BY <1>2, <1>3
<1> QED
  BY <1>1, <1>4, LongerAndShorter

(* The first update after the failure is refused if the primary has been   *)
(* killed, and only then (test_memcachedsolution.cpp:755): the backup has  *)
(* given the record a CAS value of its own.                                *)
THEOREM ContentionAsExpected == Spec => ContentionIfPrimaryKilled
<1>1. TypeInv /\ PassesInv /\ [Next]_vars =>
        [\A k \in Keys : AtStep("set") /\ Current.key = k /\ Current.retry # << >>
           /\ SetData /\ store = "correct" /\ ~overtaken =>
             (Len(todo') >= Len(todo) <=>
                scenario \in {"MemcachedFails", "MemcachedRestarts"} /\ place[k][1] = Victim)]_vars
  <2> SUFFICES ASSUME TypeInv, PassesInv, NEW k \in Keys, AtStep("set"), Current.key = k,
                      Current.retry # << >>, SetData, store = "correct", ~overtaken
               PROVE  Len(todo') >= Len(todo) <=> PrimaryKilled(k)
    BY DEF PrimaryKilled
  <2>1. Consumes /\ ~overtaken' /\ ~failed
    BY DEF Consumes, SetData, PassesInv
  <2>2. /\ todo # << >> /\ todo \in Seq(Step) /\ Current = Head(todo) /\ Current \in Step
        /\ Tail(todo) \in Seq(Step) /\ Current.op = "set"
    BY <2>1, StepIs, AtStepIs DEF TypeInv
  <2>3. PICK s \in Step : s = Current
    BY <2>2
  <2>4. HasRetry(s) /\ IsOn(k, s)
    BY <2>2, <2>3 DEF HasRetry, IsOn, KeyOps
  <2>5. PICK b \in Belief, d \in Belief : Holds(k, b) /\ Triple(k, todo, b, d)
    BY DEF PassesInv
  <2>6. PICK c \in Belief : Rule(k, Head(todo), b, c)
    BY <2>2, <2>5, TripleHead
  <2>7. /\ PrimaryKilled(k) => todo' = s.retry \o Tail(todo)
        /\ ~PrimaryKilled(k) => todo' = Tail(todo)
    BY <2>1, <2>2, <2>3, <2>4, <2>5, <2>6, RetryOutcome
  <2>8. /\ Len(s.retry \o Tail(todo)) >= Len(todo)
        /\ ~(Len(Tail(todo)) >= Len(todo))
    BY <2>2, <2>4, RetryIsLonger
  <2>9. CASE PrimaryKilled(k)
    <3>1. todo' = s.retry \o Tail(todo)
      BY <2>7, <2>9
    <3> QED
      BY <2>8, <2>9, <3>1, Zenon
  <2>10. CASE ~PrimaryKilled(k)
    <3>1. todo' = Tail(todo)
      BY <2>7, <2>10
    <3> QED
      BY <2>8, <2>10, <3>1, Zenon
  <2> QED
    BY <2>9, <2>10
<1> QED
  BY <1>1, SpecPassesInv, PTL DEF ContentionIfPrimaryKilled, Spec

-----------------------------------------------------------------------------
(* A store that stores what it refuses *)

(* A step that is not to be refused, so that a test of such steps notices  *)
(* the first contention at once.                                           *)
SureStep == {s \in PlainStep : s.op = "set" => "DATA_CONTENTION" \notin s.rcs}
IsSure(q) == q \in Seq(SureStep)

LEMMA SureJoined == \A p, q : IsSure(p) /\ IsSure(q) => IsSure(p \o q)
BY ConcatProperties DEF IsSure

LEMMA SureOne ==
  ASSUME NEW k \in Keys, NEW q \in ScriptOn(k), Len(q) = 1,
         q[1].op = "set" => "DATA_CONTENTION" \notin q[1].rcs
  PROVE  IsSure(q)
<1>1. q[1] \in SureStep
  BY DEF ScriptOn, StepsOn, SureStep
<1>2. q = <<q[1]>>
  BY DEF ScriptOn
<1>3. <<q[1]>> \in Seq(SureStep)
  BY <1>1
<1> QED
  BY <1>2, <1>3 DEF IsSure

LEMMA SureSets ==
  \A k \in Keys, d \in Data :
    IsSure(Set(k, d)) /\ IsSure(SetShort(k, d)) /\ IsSure(SetGone(k)) /\ IsSure(SetErrors(k, d))
<1> SUFFICES ASSUME NEW k \in Keys, NEW d \in Data
             PROVE  /\ IsSure(Set(k, d)) /\ IsSure(SetShort(k, d))
                    /\ IsSure(SetGone(k)) /\ IsSure(SetErrors(k, d))
  OBVIOUS
<1>1. IsSure(Set(k, d))
  BY SetScripts, SureOne DEF Set, SetAs
<1>2. IsSure(SetShort(k, d))
  BY SetScripts, SureOne DEF SetShort, SetAs
<1>3. IsSure(SetGone(k))
  BY SetScripts, SureOne DEF SetGone, SetAs
<1>4. IsSure(SetErrors(k, d))
  BY SetScripts, SureOne DEF SetErrors, SetAs
<1> QED
  BY <1>1, <1>2, <1>3, <1>4

LEMMA SureGets ==
  \A k \in Keys, d \in Data : IsSure(Get(k, d)) /\ IsSure(NotFound(k)) /\ IsSure(GetErrors(k))
<1> SUFFICES ASSUME NEW k \in Keys, NEW d \in Data
             PROVE  IsSure(Get(k, d)) /\ IsSure(NotFound(k)) /\ IsSure(GetErrors(k))
  OBVIOUS
<1>1. IsSure(Get(k, d))
  BY GetScripts, SureOne DEF Get, GetAs
<1>2. IsSure(NotFound(k))
  BY GetScripts, SureOne DEF NotFound, GetAs
<1>3. IsSure(GetErrors(k))
  BY GetScripts, SureOne DEF GetErrors, GetAs
<1> QED
  BY <1>1, <1>2, <1>3

LEMMA SureDeletes == IsSure(DeleteKey(1)) /\ IsSure(DeleteErrors(1))
<1>1. IsSure(DeleteKey(1))
  BY TwoKeys, DeleteScripts, SureOne DEF DeleteKey
<1>2. IsSure(DeleteErrors(1))
  BY TwoKeys, DeleteScripts, SureOne DEF DeleteErrors
<1> QED
  BY <1>1, <1>2

LEMMA SureOthers ==
  /\ IsSure(Pause) /\ IsSure(Sleep2) /\ IsSure(Trigger) /\ IsSure(Fix)
  /\ \A h \in Hosts : IsSure(Connect(h))
<1>1. IsSure(Pause)
  BY TwoKeys, OtherScripts, SureOne DEF Pause
<1>2. IsSure(Sleep2)
  BY TwoKeys, OtherScripts, SureOne DEF Sleep2
<1>3. IsSure(Trigger)
  BY TwoKeys, OtherScripts, SureOne DEF Trigger
<1>4. IsSure(Fix)
  BY TwoKeys, OtherScripts, SureOne DEF Fix
<1>5. \A h \in Hosts : IsSure(Connect(h))
  BY TwoKeys, OtherScripts, SureOne DEF Connect
<1> QED
  BY <1>1, <1>2, <1>3, <1>4, <1>5

SureTests ==
  (SimpleTests \cup FailureTests \cup LargerClustersTests)
    \ {"AddSetSetDataContentionSet", "AddSetCASDeleteDataContentionCASDelete",
       "AddDeleteSetDataContention", "AddAddDataContention", "AddKillSetSetDataContentionSet"}

LEMMA SureScripts == \A t \in SureTests : IsSure(Script(t))
<1> USE TwoKeys, DataWords
<1>1. IsSure(AddGet)
  BY SureJoined, SureSets, SureGets DEF AddGet
<1>2. IsSure(AddGetTwoKeys)
  BY SureJoined, SureSets, SureGets DEF AddGetTwoKeys
<1>3. IsSure(AddGetExpire)
  BY SureJoined, SureSets, SureGets, SureOthers DEF AddGetExpire
<1>4. IsSure(AddDelete)
  BY <1>1, SureJoined, SureGets, SureDeletes DEF AddDelete
<1>5. IsSure(AddDeleteAdd)
  BY <1>1, <1>4, SureJoined DEF AddDeleteAdd
<1>6. IsSure(UseStore)
  BY <1>1, SureJoined, SureSets, SureGets, SureDeletes DEF UseStore
<1>7. IsSure(ConnectUsingIpAddress) /\ IsSure(DomainAndPort)
  BY <1>6, SureJoined, SureOthers DEF ConnectUsingIpAddress, DomainAndPort, Hosts
<1>8. IsSure(BadDomainName)
  BY SureJoined, SureSets, SureGets, SureDeletes, SureOthers DEF BadDomainName, Hosts
<1>9. IsSure(KillAddGet)
  BY <1>1, SureJoined, SureOthers DEF KillAddGet
<1>10. IsSure(AddKillGet)
  BY SureJoined, SureSets, SureGets, SureOthers DEF AddKillGet
<1>11. IsSure(AddKillGetExpire)
  BY SureJoined, SureSets, SureGets, SureOthers DEF AddKillGetExpire
<1>12. IsSure(AddDeleteKill)
  BY <1>1, SureJoined, SureGets, SureDeletes, SureOthers DEF AddDeleteKill
<1>13. IsSure(AddKillCASDelete)
  BY SureJoined, SureSets, SureGets, SureOthers DEF AddKillCASDelete
<1>14. IsSure(AddKillGetSet)
  BY SureJoined, SureSets, SureGets, SureOthers DEF AddKillGetSet
<1> QED
  BY <1>1, <1>2, <1>3, <1>4, <1>5, <1>7, <1>8, <1>9, <1>10, <1>11, <1>12, <1>13, <1>14, SureDeletes
     DEF SureTests, SimpleTests, FailureTests, LargerClustersTests, Script

(* The other tests meet a contention on purpose.  They notice the store by *)
(* a GET that expects data d of key 1 after a SET of other data that was   *)
(* refused: what is left of a test until then.                             *)
SetsKey(s) == s.op = "set" /\ s.key = 1 /\ s.ttl = "long"

ReadNext(d, q) ==
  /\ q # << >> /\ Head(q).op = "get" /\ Head(q).key = 1
  /\ Head(q).rc = "OK" /\ Head(q).values = {d}
RefuseNext(d, q) ==
  /\ q # << >> /\ SetsKey(Head(q)) /\ Head(q).retry = << >>
  /\ Head(q).data # d /\ Head(q).rcs = {"DATA_CONTENTION"}
  /\ ReadNext(d, Tail(q))
SetNext(d, q) ==
  q # << >> /\ SetsKey(Head(q)) /\ Head(q).retry = << >> /\ RefuseNext(d, Tail(q))
RetryNext(d, q) ==
  q # << >> /\ Head(q).op = "get" /\ SetNext(d, Tail(q))

(* Before the failure, no copy of the data is sent.                        *)
EitherNext(d, q) ==
  q # << >> /\ Head(q) = Either(1) /\ RefuseNext(d, Tail(q))
TriggerNext(d, q) == q # << >> /\ Head(q).op = "trigger" /\ EitherNext(d, Tail(q))
GetNext(d, q)     == q # << >> /\ Head(q).op = "get" /\ TriggerNext(d, Tail(q))
AddNext(d, q) ==
  /\ q # << >> /\ SetsKey(Head(q)) /\ Head(q).retry = << >> /\ Head(q).data # d
  /\ GetNext(d, Tail(q))

(* The copies of the key: none has the data; or none that has it goes to   *)
(* the server that answers.                                                *)
Unlike(d) == {w \in Copy : w.key = 1 => w.data # d /\ w.ttl # "zero"}
Misses(d) == {w \in Copy : w.key = 1 => (w.data = d => w.to # FirstUp(1)) /\ w.ttl # "zero"}

Unseen(d) == inFlight \in Seq(Unlike(d))
Aimed(d)  == inFlight \in Seq(Misses(d))
Spoilt(d) == Aimed(d) /\ item[1][FirstUp(1)].data \notin {d, "none"}

WillNotice(d) ==
  \/ Spoilt(d) /\ ReadNext(d, todo)
  \/ Aimed(d)  /\ (RefuseNext(d, todo) \/ SetNext(d, todo) \/ RetryNext(d, todo))
  \/ Unseen(d) /\ (EitherNext(d, todo) \/ TriggerNext(d, todo) \/ GetNext(d, todo)
                     \/ AddNext(d, todo))

NotNoticed == {"AddDeleteSetDataContention", "AddSetSetDataContentionSet",
               "AddSetCASDeleteDataContentionCASDelete"}

(* With such a store a test has failed, or it has met no contention and    *)
(* will notice the first one, or it is on its way to the GET.              *)
NoticedInv ==
  store = "contention_stored" =>
    \/ failed
    \/ test \in NotNoticed
    \/ ~contended /\ IsSure(todo)
    \/ \E d \in Data : WillNotice(d)

LEMMA SeqOfPart ==
  ASSUME NEW S, NEW T, S \subseteq T, NEW q \in Seq(S)
  PROVE  q \in Seq(T)
OBVIOUS

LEMMA UnseenIsAimed == \A d : Unseen(d) => Aimed(d)
<1> SUFFICES ASSUME NEW d, Unseen(d) PROVE Aimed(d)
  OBVIOUS
<1>1. Unlike(d) \subseteq Misses(d)
  BY DEF Unlike, Misses
<1> QED
  BY <1>1, SeqOfPart DEF Unseen, Aimed

LEMMA AimStays ==
  ASSUME UNCHANGED <<choice, up, inFlight>>, NEW d
  PROVE  /\ Unseen(d) <=> Unseen(d)'
         /\ Aimed(d) <=> Aimed(d)'
         /\ Spoilt(d) /\ item' = item => Spoilt(d)'
<1>1. FirstUp(1)' = FirstUp(1)
  BY ChoiceStays DEF FirstUp
<1>2. Unlike(d)' = Unlike(d) /\ Misses(d)' = Misses(d)
  BY <1>1 DEF Unlike, Misses
<1>3. Unseen(d) <=> Unseen(d)'
  BY <1>2 DEF Unseen
<1>4. Aimed(d) <=> Aimed(d)'
  BY <1>2 DEF Aimed
<1>5. Spoilt(d) /\ item' = item => Spoilt(d)'
  BY <1>1, <1>4 DEF Spoilt
<1> QED
  BY <1>3, <1>4, <1>5

LEMMA ArrivalKeeps ==
  ASSUME TypeInv, Replicate, NEW d \in Data
  PROVE  /\ Unseen(d) => Unseen(d)'
         /\ Aimed(d)  => Aimed(d)'
         /\ Spoilt(d) => Spoilt(d)'
<1> DEFINE w == Head(inFlight)
<1>1. inFlight # << >> /\ inFlight' = Tail(inFlight) /\ UNCHANGED <<choice, up>>
  BY DEF Replicate
<1>2. FirstUp(1)' = FirstUp(1)
  BY <1>1, ChoiceStays DEF FirstUp
<1>3. \A S : inFlight \in Seq(S) => w \in S /\ inFlight' \in Seq(S)
  BY <1>1, HeadTailProperties
<1>4. Unlike(d)' = Unlike(d) /\ Misses(d)' = Misses(d)
  BY <1>2 DEF Unlike, Misses
<1>5. Unseen(d) => Unseen(d)'
  BY <1>3, <1>4 DEF Unseen
<1>6. Aimed(d) => Aimed(d)' /\ w \in Misses(d)
  BY <1>3, <1>4 DEF Aimed
<1>7. ASSUME Spoilt(d) PROVE item'[1][FirstUp(1)].data \notin {d, "none"}
  <2>1. FirstUp(1) \in ServersOf(test) /\ 1 \in Keys
    BY TwoKeys, OneIsUp, Placed DEF TypeInv
  <2>2. item[1][FirstUp(1)].data \notin {d, "none"} /\ w \in Misses(d)
    BY <1>6, <1>7 DEF Spoilt
  <2>3. CASE w.key # 1 \/ w.to \notin up
    <3>1. item'[1] = item[1]
      BY <2>1, <2>3, ArrivalIs
    <3> QED
      BY <2>2, <3>1
  <2>4. CASE w.key = 1 /\ w.to \in up /\ w.to # FirstUp(1)
    <3>1. item'[1][FirstUp(1)] = item[1][FirstUp(1)]
      BY <2>1, <2>4, ArrivalIs
    <3> QED
      BY <2>2, <3>1
  <2>5. CASE w.key = 1 /\ w.to \in up /\ w.to = FirstUp(1)
    <3>1. item'[1][FirstUp(1)].data = Value(w)
      BY <2>1, <2>5, ArrivalIs
    <3>2. w.data # d /\ w.ttl # "zero" /\ w.data \in Data
      BY <2>2, <2>5 DEF Misses, Copy
    <3> QED
      BY <3>1, <3>2, DataWords DEF Value
  <2> QED
    BY <2>3, <2>4, <2>5
<1>8. Spoilt(d) => Aimed(d)
  BY DEF Spoilt
<1>9. Spoilt(d) => Spoilt(d)'
  BY <1>2, <1>6, <1>7, <1>8 DEF Spoilt
<1> QED
  BY <1>5, <1>6, <1>9

(* A SET sends its copy to the second server.                              *)
LEMMA StoreKeeps ==
  ASSUME TypeInv, NEW e \in Data, Store(1, e, "long"), UNCHANGED <<choice, up>>, NEW d \in Data
  PROVE  /\ Unseen(d) /\ e # d => Unseen(d)'
         /\ Aimed(d) => Aimed(d)'
         /\ Aimed(d) /\ e # d => Spoilt(d)'
<1>1. 1 \in Keys /\ "long" \in Ttl
  BY TwoKeys DEF Ttl
<1>2. PICK w \in Copy : /\ w.key = 1 /\ w.to = Second(1) /\ w.data = e /\ w.ttl = "long"
                        /\ inFlight' = Append(inFlight, w)
  BY <1>1, SentIsCopy
<1>3. /\ FirstUp(1)' = FirstUp(1)
      /\ item'[1][FirstUp(1)] = [data |-> e, ttl |-> "long", cas |-> lastCas + 1]
  BY <1>1, StoredIs
<1>4. Unlike(d)' = Unlike(d) /\ Misses(d)' = Misses(d)
  BY <1>3 DEF Unlike, Misses
<1>5. FirstUp(1) # Second(1)
  BY <1>1, OneIsUp DEF TypeInv
<1>6. w \in Misses(d) /\ (e # d => w \in Unlike(d))
  BY <1>2, <1>5 DEF Misses, Unlike
<1>7. \A S : inFlight \in Seq(S) /\ w \in S => inFlight' \in Seq(S)
  BY <1>2, AppendProperties
<1>8. Aimed(d) => Aimed(d)'
  BY <1>4, <1>6, <1>7 DEF Aimed
<1>9. Unseen(d) /\ e # d => Unseen(d)'
  BY <1>4, <1>6, <1>7 DEF Unseen
<1>10. item'[1][FirstUp(1)].data = e
  BY <1>3
<1>11. Aimed(d) /\ e # d => Spoilt(d)'
  BY <1>3, <1>8, <1>10, DataWords DEF Spoilt
<1> QED
  BY <1>8, <1>9, <1>11

LEMMA SetKeeps ==
  ASSUME TypeInv, SetData, SetsKey(Current), store = "contention_stored", NEW d \in Data
  PROVE  /\ Unseen(d) /\ Current.data # d => Unseen(d)'
         /\ Aimed(d) => Aimed(d)'
         /\ Aimed(d) /\ Current.data # d /\ Current.rcs = {"DATA_CONTENTION"} =>
              failed' \/ Spoilt(d)'
<1> DEFINE rc == SetStatus(Current.key, IF Current.from = "zero" THEN 0 ELSE cas[Current.key])
<1>1. Current.key = 1 /\ Current.ttl = "long" /\ Current.data \in Data
  BY SetStepIs DEF SetsKey, SetData
<1>2. UNCHANGED <<choice, up>> /\ failed' = (failed \/ rc \notin Current.rcs)
  BY DEF SetData
<1>3. /\ rc = "OK" \/ rc = "DATA_CONTENTION" => Store(1, Current.data, "long")
      /\ ~(rc = "OK" \/ rc = "DATA_CONTENTION") => inFlight' = inFlight
  BY <1>1 DEF SetData
<1> HIDE DEF rc
<1>4. CASE Store(1, Current.data, "long")
  <2>1. /\ Unseen(d) /\ Current.data # d => Unseen(d)'
        /\ Aimed(d) => Aimed(d)'
        /\ Aimed(d) /\ Current.data # d => Spoilt(d)'
    BY <1>1, <1>2, <1>4, StoreKeeps
  <2> QED
    BY <2>1
<1>5. CASE ~(rc = "OK" \/ rc = "DATA_CONTENTION")
  <2>1. (Unseen(d) <=> Unseen(d)') /\ (Aimed(d) <=> Aimed(d)')
    BY <1>2, <1>3, <1>5, AimStays
  <2>2. Current.rcs = {"DATA_CONTENTION"} => rc \notin Current.rcs
    BY <1>5
  <2>3. Current.rcs = {"DATA_CONTENTION"} => failed'
    BY <1>2, <2>2
  <2> QED
    BY <2>1, <2>3
<1> QED
  BY <1>3, <1>4, <1>5

LEMMA GetKeeps ==
  ASSUME TypeInv, GetData, NEW d \in Data
  PROVE  /\ Unseen(d) => Unseen(d)'
         /\ Aimed(d) => Aimed(d)'
         /\ Spoilt(d) /\ Current.key = 1 /\ Current.rc = "OK" /\ Current.values = {d} => failed'
<1>1. UNCHANGED <<choice, up, inFlight>>
  BY DEF GetData
<1>2. (Unseen(d) => Unseen(d)') /\ (Aimed(d) => Aimed(d)')
  BY <1>1, AimStays
<1>3. ASSUME Spoilt(d), Current.key = 1, Current.rc = "OK", Current.values = {d} PROVE failed'
  <2>1. 1 \in Keys /\ item[1][FirstUp(1)].data \notin {d, "none"}
    BY <1>3, TwoKeys DEF Spoilt
  <2>2. /\ FirstUp(1) \in up /\ FirstUp(1) \in {Primary(1), Backup(1)}
        /\ FirstUp(1) \in ServersOf(test)
    BY <2>1, OneIsUp, Placed DEF TypeInv
  <2>3. item[1][FirstUp(1)] # None
    BY <2>1, NoneIs
  <2>4. FirstUp(1) \in Holders(1)
    BY <2>2, <2>3 DEF Holders
  <2>5. Holder(1) = FirstUp(1)
    BY <2>2, <2>4 DEF Holder, FirstUp, Holders
  <2>6. item[1][Holder(1)].data \notin Current.values
    BY <1>3, <2>1, <2>5
  <2>7. GetStatus(1) = "OK" \/ GetStatus(1) = "ERROR"
    BY <2>4 DEF GetStatus
  <2>8. failed' = (failed \/ GetStatus(1) # Current.rc
                     \/ (GetStatus(1) = "OK" /\ item[1][Holder(1)].data \notin Current.values))
    BY <1>3 DEF GetData
  <2> QED
    BY <1>3, <2>6, <2>7, <2>8
<1> QED
  BY <1>2, <1>3

LEMMA TriggerKeeps ==
  ASSUME TypeInv, TriggerFailure, NEW d \in Data
  PROVE  Unseen(d) => Unseen(d)'
<1> SUFFICES ASSUME Unseen(d) PROVE inFlight' \in Seq(Unlike(d))
  BY DEF Unseen, Unlike
<1>1. inFlight \in Seq(Unlike(d)) /\ DOMAIN inFlight = 1..Len(inFlight) /\ Len(inFlight) \in Nat
  BY DEF Unseen
<1>2. \A n \in 1..Len(inFlight) : LoseCopies[n] \in Unlike(d)
  <2> SUFFICES ASSUME NEW n \in 1..Len(inFlight) PROVE LoseCopies[n] \in Unlike(d)
    OBVIOUS
  <2>1. inFlight[n] \in Unlike(d)
    BY <1>1
  <2>2. LoseCopies[n] \in {inFlight[n], [inFlight[n] EXCEPT !.to = Nowhere]}
    BY <1>1 DEF LoseCopies
  <2> QED
    BY <2>1, <2>2 DEF Unlike, Copy, Nowhere
<1>3. LoseCopies \in [1..Len(inFlight) -> Unlike(d)]
  BY <1>1, <1>2 DEF LoseCopies
<1>4. LoseCopies \in Seq(Unlike(d))
  BY <1>1, <1>3
<1>5. inFlight' \in {inFlight, LoseCopies, << >>}
  BY DEF TriggerFailure
<1>6. << >> \in Seq(Unlike(d))
  BY EmptySeq
<1> QED
  BY <1>1, <1>4, <1>5, <1>6

LEMMA FailedStays == [Next]_vars /\ failed => failed'
<1> SUFFICES ASSUME [Next]_vars, failed PROVE failed'
  OBVIOUS
<1>1. CASE SetData
  BY <1>1 DEF SetData
<1>2. CASE GetData
  BY <1>2 DEF GetData
<1>3. CASE DeleteData
  BY <1>3 DEF DeleteData
<1>4. CASE ConnectTo \/ Wait \/ Expire \/ FixFailure
  BY <1>4 DEF ConnectTo, Wait, Expire, FixFailure
<1>5. CASE TriggerFailure
  BY <1>5 DEF TriggerFailure
<1>6. CASE Replicate
  BY <1>6 DEF Replicate
<1>7. CASE UNCHANGED vars
  BY <1>7 DEF vars
<1> QED
  BY <1>1, <1>2, <1>3, <1>4, <1>5, <1>6, <1>7 DEF Next

LEMMA TwoAhead ==
  ASSUME NEW a, NEW b, NEW S, a \in S, b \in S, NEW q \in Seq(S)
  PROVE  /\ <<a, b>> \o q # << >>
         /\ Head(<<a, b>> \o q) = a /\ Tail(<<a, b>> \o q) = <<b>> \o q
         /\ <<b>> \o q # << >>
         /\ Head(<<b>> \o q) = b /\ Tail(<<b>> \o q) = q
OBVIOUS

(* The SET that may be refused: if it is, the test reads and sets again.   *)
LEMMA EitherKeeps ==
  ASSUME TypeInv, SetData, store = "contention_stored", NEW d \in Data, Unseen(d),
         EitherNext(d, todo)
  PROVE  WillNotice(d)'
<1> DEFINE q == Tail(todo)
           g == Retry(1)[1]
           s == Retry(1)[2]
<1>1. todo # << >> /\ Current = Either(1) /\ RefuseNext(d, q) /\ q \in Seq(Step)
  BY HeadTail DEF EitherNext, Current, TypeInv
<1>2. SetsKey(Current)
  BY <1>1 DEF SetsKey, Either
<1>3. Aimed(d)'
  BY <1>2, SetKeeps, UnseenIsAimed
<1>4. todo' = q \/ todo' = Retry(1) \o q
  <2>1. << >> \o q = q
    BY <1>1, ConcatEmptySeq
  <2>2. Current.retry = Retry(1)
    BY <1>1 DEF Either
  <2> QED
    BY <2>1, <2>2 DEF SetData
<1>5. g \in Step /\ s \in Step /\ Retry(1) = <<g, s>>
  BY RetryIs, TwoKeys, PlainIsStep DEF Retry
<1>6. g.op = "get" /\ SetsKey(s) /\ s.retry = << >>
  BY DEF Retry, SetsKey
<1> HIDE DEF g, s, q
<1>7. RetryNext(d, Retry(1) \o q)
  <2>1. /\ <<g, s>> \o q # << >> /\ Head(<<g, s>> \o q) = g /\ Tail(<<g, s>> \o q) = <<s>> \o q
        /\ <<s>> \o q # << >> /\ Head(<<s>> \o q) = s /\ Tail(<<s>> \o q) = q
    <3>1. g \in Step /\ s \in Step /\ q \in Seq(Step)
      BY <1>1, <1>5
    <3> QED
      BY ONLY <3>1, TwoAhead
  <2>2. SetNext(d, <<s>> \o q)
    BY <1>1, <1>6, <2>1 DEF SetNext
  <2> QED
    BY <1>5, <1>6, <2>1, <2>2 DEF RetryNext
<1>8. RefuseNext(d, todo') \/ RetryNext(d, todo')
  BY <1>1, <1>4, <1>7
<1>9. Aimed(d)' /\ (RefuseNext(d, todo') \/ SetNext(d, todo') \/ RetryNext(d, todo'))
  BY <1>3, <1>8
<1> QED
  BY <1>9 DEF WillNotice

LEMMA NoticeStays ==
  ASSUME TypeInv, Consumes, store = "contention_stored", NEW d \in Data, WillNotice(d)
  PROVE  failed' \/ WillNotice(d)'
<1>1. /\ todo # << >> /\ Current = Head(todo)
      /\ Current.op = "set" => SetData
      /\ Current.op = "get" => GetData
      /\ Current.op = "trigger" => TriggerFailure
  BY StepIs
<1>2. ~HasRetry(Current) => todo' = Tail(todo)
  BY TodoIs
<1>3. Current.op # "set" => todo' = Tail(todo)
  BY TodoIs
<1>4. CASE Spoilt(d) /\ ReadNext(d, todo)
  BY <1>1, <1>4, GetKeeps DEF ReadNext
<1>5. CASE Aimed(d) /\ RefuseNext(d, todo)
  <2>1. /\ SetData /\ SetsKey(Current) /\ Current.data # d /\ Current.rcs = {"DATA_CONTENTION"}
        /\ ~HasRetry(Current) /\ ReadNext(d, Tail(todo))
    BY <1>1, <1>5 DEF RefuseNext, SetsKey, HasRetry
  <2>2. failed' \/ Spoilt(d)'
    BY <1>5, <2>1, SetKeeps
  <2>3. ReadNext(d, todo')
    BY <1>2, <2>1
  <2> QED
    BY <2>2, <2>3 DEF WillNotice
<1>6. CASE Aimed(d) /\ SetNext(d, todo)
  <2>1. SetData /\ SetsKey(Current) /\ ~HasRetry(Current) /\ RefuseNext(d, Tail(todo))
    BY <1>1, <1>6 DEF SetNext, SetsKey, HasRetry
  <2>2. Aimed(d)'
    BY <1>6, <2>1, SetKeeps
  <2>3. RefuseNext(d, todo')
    BY <1>2, <2>1
  <2> QED
    BY <2>2, <2>3 DEF WillNotice
<1>7. CASE Aimed(d) /\ RetryNext(d, todo)
  <2>1. GetData /\ SetNext(d, todo')
    BY <1>1, <1>3, <1>7 DEF RetryNext
  <2>2. Aimed(d)'
    BY <1>7, <2>1, GetKeeps
  <2> QED
    BY <2>1, <2>2 DEF WillNotice
<1>8. CASE Unseen(d) /\ EitherNext(d, todo)
  <2>1. SetData
    BY <1>1, <1>8 DEF EitherNext, Either
  <2> QED
    BY <1>8, <2>1, EitherKeeps
<1>9. CASE Unseen(d) /\ TriggerNext(d, todo)
  <2>1. TriggerFailure /\ EitherNext(d, todo')
    BY <1>1, <1>3, <1>9 DEF TriggerNext
  <2>2. Unseen(d)'
    BY <1>9, <2>1, TriggerKeeps
  <2> QED
    BY <2>1, <2>2 DEF WillNotice
<1>10. CASE Unseen(d) /\ GetNext(d, todo)
  <2>1. GetData /\ TriggerNext(d, todo')
    BY <1>1, <1>3, <1>10 DEF GetNext
  <2>2. Unseen(d)'
    BY <1>10, <2>1, GetKeeps
  <2> QED
    BY <2>1, <2>2 DEF WillNotice
<1>11. CASE Unseen(d) /\ AddNext(d, todo)
  <2>1. /\ SetData /\ SetsKey(Current) /\ Current.data # d
        /\ ~HasRetry(Current) /\ GetNext(d, Tail(todo))
    BY <1>1, <1>11 DEF AddNext, SetsKey, HasRetry
  <2>2. Unseen(d)'
    BY <1>11, <2>1, SetKeeps
  <2>3. GetNext(d, todo')
    BY <1>2, <2>1
  <2> QED
    BY <2>2, <2>3 DEF WillNotice
<1> QED
  BY <1>4, <1>5, <1>6, <1>7, <1>8, <1>9, <1>10, <1>11 DEF WillNotice

(* A test of sure steps has failed when it meets a contention.             *)
LEMMA SureStays ==
  ASSUME TypeInv, Consumes, IsSure(todo), ~contended
  PROVE  failed' \/ (~contended' /\ IsSure(todo'))
<1>1. todo # << >> /\ Current = Head(todo)
  BY StepIs
<1>2. Current \in SureStep /\ Tail(todo) \in Seq(SureStep)
  BY <1>1, HeadTailProperties DEF IsSure
<1>3. ~HasRetry(Current)
  BY <1>2, PlainIsStep DEF SureStep
<1>4. IsSure(todo')
  BY <1>2, <1>3, TodoIs DEF IsSure
<1>5. CASE Current.op = "set"
  <2> DEFINE rc == SetStatus(Current.key, IF Current.from = "zero" THEN 0 ELSE cas[Current.key])
  <2>1. failed' = (failed \/ rc \notin Current.rcs)
        /\ contended' = (contended \/ rc = "DATA_CONTENTION")
    BY <1>5, StepIs DEF SetData
  <2>2. "DATA_CONTENTION" \notin Current.rcs
    BY <1>2, <1>5 DEF SureStep
  <2> HIDE DEF rc
  <2>3. CASE rc = "DATA_CONTENTION"
    BY <2>1, <2>2, <2>3
  <2>4. CASE rc # "DATA_CONTENTION"
    BY <1>4, <2>1, <2>4
  <2> QED
    BY <2>3, <2>4
<1>6. CASE Current.op # "set"
  <2>1. contended' = contended
    BY <1>6, StepIs DEF GetData, DeleteData, ConnectTo, Wait, Expire, TriggerFailure, FixFailure, ghosts
  <2> QED
    BY <1>4, <2>1
<1> QED
  BY <1>5, <1>6

LEMMA NextNoticed == TypeInv /\ NoticedInv /\ [Next]_vars => NoticedInv'
<1> SUFFICES ASSUME TypeInv, NoticedInv, [Next]_vars, store' = "contention_stored"
             PROVE  \/ failed'
                    \/ test' \in NotNoticed
                    \/ ~contended' /\ IsSure(todo')
                    \/ \E d \in Data : WillNotice(d)'
  BY DEF NoticedInv, NotNoticed, Data
<1>1. UNCHANGED choice
  BY ChoiceIsKept
<1>2. store = "contention_stored" /\ test' = test
  BY <1>1 DEF choice
<1>3. CASE failed
  BY <1>3, FailedStays
<1>4. CASE test \in NotNoticed
  BY <1>2, <1>4
<1>5. CASE ~contended /\ IsSure(todo)
  <2>1. CASE Consumes
    BY <1>5, <2>1, SureStays
  <2>2. CASE Replicate \/ UNCHANGED vars
    <3>1. contended' = contended /\ todo' = todo
      BY <2>2 DEF Replicate, ghosts, vars
    <3> QED
      BY <1>5, <3>1
  <2> QED
    BY <2>1, <2>2 DEF Next, Consumes
<1>6. ASSUME NEW d \in Data, WillNotice(d) PROVE failed' \/ WillNotice(d)'
  <2>1. CASE Consumes
    BY <1>2, <1>6, <2>1, NoticeStays
  <2>2. CASE Replicate
    <3>1. todo' = todo
      BY <2>2 DEF Replicate
    <3>2. /\ Unseen(d) => Unseen(d)'
          /\ Aimed(d)  => Aimed(d)'
          /\ Spoilt(d) => Spoilt(d)'
      BY <2>2, ArrivalKeeps
    <3> QED
      BY <1>6, <3>1, <3>2 DEF WillNotice
  <2>3. CASE UNCHANGED vars
    <3>1. todo' = todo /\ item' = item /\ UNCHANGED <<choice, up, inFlight>>
      BY <2>3 DEF vars
    <3>2. /\ Unseen(d) => Unseen(d)'
          /\ Aimed(d)  => Aimed(d)'
          /\ Spoilt(d) => Spoilt(d)'
      BY <3>1, AimStays
    <3> QED
      BY <1>6, <3>1, <3>2 DEF WillNotice
  <2> QED
    BY <2>1, <2>2, <2>3 DEF Next, Consumes
<1> QED
  BY <1>2, <1>3, <1>4, <1>5, <1>6 DEF NoticedInv

(* Where the steps of a part are in a script.                              *)
Joins(p, q) == p \o q

LEMMA JoinsAt ==
  ASSUME NEW p, NEW q, NEW m, NEW n, IsPart(p, m), IsPart(q, n)
  PROVE  /\ IsPart(Joins(p, q), m + n)
         /\ \A i \in 1..m : Joins(p, q)[i] = p[i]
         /\ \A i \in 1..n : Joins(p, q)[m + i] = q[i]
<1>1. p \in Seq(Step) /\ q \in Seq(Step) /\ Len(p) = m /\ Len(q) = n /\ m \in Nat /\ n \in Nat
  BY DEF IsPart
<1>2. IsPart(p \o q, m + n)
  BY PartsJoin
<1>3. \A i \in 1..m : (p \o q)[i] = p[i]
  BY <1>1, ConcatProperties
<1>4. ASSUME NEW i \in 1..n PROVE (p \o q)[m + i] = q[i]
  <2>1. m + i \in Len(p) + 1 .. Len(p) + Len(q) /\ (m + i) - Len(p) = i
    BY <1>1
  <2>2. (p \o q)[m + i] = q[(m + i) - Len(p)]
    BY <1>1, <2>1, ConcatProperties
  <2> QED
    BY <2>1, <2>2
<1> QED
  BY <1>2, <1>3, <1>4 DEF Joins

LEMMA OneMore ==
  ASSUME NEW p, NEW q, NEW m \in Nat, NEW n, IsPart(p, m), IsPart(q, 1), n = m + 1
  PROVE  /\ IsPart(Joins(p, q), n) /\ Joins(p, q)[n] = q[1]
         /\ \A i \in 1..m : Joins(p, q)[i] = p[i]
<1> DEFINE r == Joins(p, q)
<1>1. IsPart(r, m + 1) /\ (\A i \in 1..m : r[i] = p[i]) /\ \A i \in 1..1 : r[m + i] = q[1]
  BY JoinsAt
<1> HIDE DEF r
<1>2. 1 \in 1..1
  OBVIOUS
<1>3. r[m + 1] = q[1]
  BY <1>1, <1>2
<1>4. IsPart(r, n) /\ r[n] = q[1] /\ \A i \in 1..m : r[i] = p[i]
  BY <1>1, <1>3
<1> QED
  BY <1>4 DEF r

(* What is n steps ahead.                                                  *)
Ahead(t, q, n) ==
  t \in Seq(Step) /\ Len(t) = Len(q) - n /\ \A i \in 1..Len(t) : t[i] = q[i + n]

LEMMA OneAhead ==
  ASSUME NEW q \in Seq(Step), NEW n \in Nat, NEW t, Ahead(t, q, n), n < Len(q)
  PROVE  t # << >> /\ Head(t) = q[n + 1] /\ Ahead(Tail(t), q, n + 1)
<1> DEFINE u == Tail(t)
<1>1. t \in Seq(Step) /\ Len(t) = Len(q) - n /\ Len(q) \in Nat /\ Len(t) \in Nat
      /\ \A i \in 1..Len(t) : t[i] = q[i + n]
  BY DEF Ahead
<1>2. t # << >>
  BY <1>1, EmptySeq
<1>3. Head(t) = t[1] /\ u \in Seq(Step) /\ Len(u) = Len(t) - 1
      /\ \A i \in 1..(Len(t) - 1) : u[i] = t[i + 1]
  BY <1>1, <1>2, HeadTailProperties
<1> HIDE DEF u
<1>4. Head(t) = q[n + 1]
  <2>1. 1 \in 1..Len(t) /\ 1 + n = n + 1
    BY <1>1
  <2> QED
    BY <1>1, <1>3, <2>1
<1>5. Len(u) = Len(q) - (n + 1)
  BY <1>1, <1>3
<1>6. ASSUME NEW i \in 1..Len(u) PROVE u[i] = q[i + (n + 1)]
  <2>1. i \in 1..(Len(t) - 1) /\ i + 1 \in 1..Len(t) /\ (i + 1) + n = i + (n + 1)
    BY <1>1, <1>3
  <2>2. u[i] = t[i + 1] /\ t[i + 1] = q[(i + 1) + n]
    BY <1>1, <1>3, <2>1
  <2> QED
    BY <2>1, <2>2
<1> QED
  BY <1>2, <1>3, <1>4, <1>5, <1>6 DEF Ahead, u

LEMMA OneStepParts ==
  /\ \A d \in Data : IsPart(Set(1, d), 1) /\ IsPart(Get(1, d), 1) /\ IsPart(Refused(1, d), 1)
  /\ IsPart(Trigger, 1) /\ IsPart(Fix, 1) /\ IsPart(Connect("rogers.local"), 1)
  /\ IsPart(<<Either(1)>>, 1)
<1>1. \A d \in Data : IsPart(Set(1, d), 1) /\ IsPart(Get(1, d), 1) /\ IsPart(Refused(1, d), 1)
  BY TwoKeys, SetScripts, GetScripts, OneLong, OnePart
<1>2. IsPart(Trigger, 1) /\ IsPart(Fix, 1)
  BY TwoKeys, OtherScripts, OnePart DEF Trigger, Fix
<1>3. IsPart(Connect("rogers.local"), 1)
  BY TwoKeys, OtherScripts, OnePart DEF Connect, Hosts
<1>4. IsPart(<<Either(1)>>, 1)
  BY TwoKeys, EitherIs DEF IsPart
<1> QED
  BY <1>1, <1>2, <1>3, <1>4

LEMMA AddAddHas ==
  LET q == AddAddDataContention
  IN  /\ IsPart(q, 3) /\ q[1] = Set(1, "in")[1]
      /\ q[2] = RefusedNewCas(1, "in_new1")[1] /\ q[3] = Get(1, "in")[1]
<1> DEFINE a == Set(1, "in")
           b == RefusedNewCas(1, "in_new1")
           c == Get(1, "in")
           p2 == Joins(a, b)
           p3 == Joins(p2, c)
<1>1. IsPart(a, 1) /\ IsPart(b, 1) /\ IsPart(c, 1)
  <2>1. IsPart(a, 1) /\ IsPart(c, 1)
    BY OneStepParts, DataWords
  <2>2. b \in ScriptOn(1) /\ Len(b) = 1
    BY TwoKeys, DataWords, SetScripts DEF RefusedNewCas, SetAs
  <2> HIDE DEF b
  <2>3. IsPart(b, 1)
    BY <2>2, TwoKeys, OnePart
  <2> QED
    BY <2>1, <2>3
<1>2. AddAddDataContention = p3
  BY DEF AddAddDataContention, Joins
<1> HIDE DEF a, b, c
<1>3. IsPart(p2, 2) /\ p2[2] = b[1] /\ \A i \in 1..1 : p2[i] = a[i]
  BY <1>1, OneMore
<1> HIDE DEF p2
<1>4. IsPart(p3, 3) /\ p3[3] = c[1] /\ \A i \in 1..2 : p3[i] = p2[i]
  BY <1>1, <1>3, OneMore
<1> HIDE DEF p3
<1>5. IsPart(p3, 3) /\ p3[1] = a[1] /\ p3[2] = b[1] /\ p3[3] = c[1]
  BY <1>3, <1>4
<1> QED
  BY <1>2, <1>5 DEF a, b, c

LEMMA ThreeAndFive ==
  ASSUME NEW p, NEW q, NEW m, NEW n, IsPart(p, m), IsPart(q, n), m = 3, n = 5
  PROVE  /\ IsPart(Joins(p, q), 8)
         /\ \A i \in 1..3 : Joins(p, q)[i] = p[i]
         /\ Joins(p, q)[4] = q[1] /\ Joins(p, q)[5] = q[2] /\ Joins(p, q)[6] = q[3]
<1> DEFINE u == Joins(p, q)
<1>2. m = 3 /\ n = 5
  OBVIOUS
<1>3. /\ IsPart(u, m + n)
      /\ \A i \in 1..m : u[i] = p[i]
      /\ \A i \in 1..n : u[m + i] = q[i]
  BY JoinsAt
<1> HIDE DEF u
<1>4. m + n = 8 /\ m + 1 = 4 /\ m + 2 = 5 /\ m + 3 = 6 /\ 1 \in 1..n /\ 2 \in 1..n /\ 3 \in 1..n
  BY <1>2
<1>5. IsPart(u, 8)
  BY <1>3, <1>4
<1>6. \A i \in 1..3 : u[i] = p[i]
  BY <1>2, <1>3
<1>7. u[m + 1] = q[1] /\ u[m + 2] = q[2] /\ u[m + 3] = q[3]
  BY <1>3, <1>4
<1>8. u[4] = q[1] /\ u[5] = q[2] /\ u[6] = q[3]
  BY <1>4, <1>7
<1> QED
  BY <1>5, <1>6, <1>8 DEF u

(* How a round begins: up to the GET that comes after the refused SET.     *)
LEMMA RoundHas ==
  LET r == AddKillSetSetRound(1)
  IN  /\ r[1] = Set(1, "in")[1] /\ r[2] = Get(1, "in")[1] /\ r[3] = Trigger[1]
      /\ r[4] = Either(1) /\ r[5] = Refused(1, "FAIL")[1] /\ r[6] = Get(1, "in_new1")[1]
<1> DEFINE a == Set(1, "in")
           b == Get(1, "in")
           e == <<Either(1)>>
           f == Refused(1, "FAIL")
           g == Get(1, "in_new1")
           x == Set(1, "in_new2")
           y == Get(1, "in_new2")
           z == Connect("rogers.local")
           two   == Joins(a, b)
           three == Joins(two, Trigger)
           p2    == Joins(e, f)
           p3    == Joins(p2, g)
           p4    == Joins(p3, x)
           five  == Joins(p4, y)
           u     == Joins(three, five)
           t     == Joins(u, Fix)
           r     == Joins(t, z)
<1>1. /\ IsPart(a, 1) /\ IsPart(b, 1) /\ IsPart(e, 1) /\ IsPart(f, 1) /\ IsPart(g, 1)
      /\ IsPart(x, 1) /\ IsPart(y, 1) /\ IsPart(z, 1)
  BY OneStepParts, DataWords
<1>2. IsPart(Trigger, 1) /\ IsPart(Fix, 1)
  BY OneStepParts
<1>3. e[1] = Either(1)
  OBVIOUS
<1>4. AddKillSetSetRound(1) = r
  <2>1. SetEither(1, "in_new1", GetOther(1, "in_new1") \o Set(1, "in_new1")) = e
    BY TwoKeys, EitherIs
  <2> HIDE DEF a, b, e, f, g, x, y, z
  <2>2. SetSetSet(1) = five
    BY <2>1 DEF SetSetSet, Joins, f, g, x, y
  <2> QED
    BY <2>2 DEF AddKillSetSetRound, Joins, a, b, z
<1> HIDE DEF a, b, e, f, g, x, y, z
<1>5. IsPart(two, 2) /\ two[2] = b[1] /\ \A i \in 1..1 : two[i] = a[i]
  BY <1>1, OneMore
<1> HIDE DEF two
<1>6. IsPart(three, 3) /\ three[3] = Trigger[1] /\ \A i \in 1..2 : three[i] = two[i]
  BY <1>2, <1>5, OneMore
<1>7. IsPart(p2, 2) /\ p2[2] = f[1] /\ \A i \in 1..1 : p2[i] = e[i]
  BY <1>1, OneMore
<1> HIDE DEF p2
<1>8. IsPart(p3, 3) /\ p3[3] = g[1] /\ \A i \in 1..2 : p3[i] = p2[i]
  BY <1>1, <1>7, OneMore
<1> HIDE DEF p3
<1>9. IsPart(p4, 4) /\ \A i \in 1..3 : p4[i] = p3[i]
  BY <1>1, <1>8, OneMore
<1> HIDE DEF p4
<1>10. IsPart(five, 5) /\ \A i \in 1..4 : five[i] = p4[i]
  BY <1>1, <1>9, OneMore
<1> HIDE DEF three, five
<1>11. /\ IsPart(u, 8)
       /\ \A i \in 1..3 : u[i] = three[i]
       /\ u[4] = five[1] /\ u[5] = five[2] /\ u[6] = five[3]
  BY <1>6, <1>10, ThreeAndFive
<1> HIDE DEF u
<1>13. /\ IsPart(u, 8) /\ u[1] = a[1] /\ u[2] = b[1] /\ u[3] = Trigger[1]
       /\ u[4] = e[1] /\ u[5] = f[1] /\ u[6] = g[1]
  BY <1>5, <1>6, <1>7, <1>8, <1>9, <1>10, <1>11
<1>14. IsPart(t, 9) /\ \A i \in 1..8 : t[i] = u[i]
  BY <1>2, <1>13, OneMore
<1> HIDE DEF t
<1>15. \A i \in 1..9 : r[i] = t[i]
  BY <1>1, <1>14, OneMore
<1> HIDE DEF r
<1>16. /\ r[1] = a[1] /\ r[2] = b[1] /\ r[3] = Trigger[1]
       /\ r[4] = e[1] /\ r[5] = f[1] /\ r[6] = g[1]
  BY <1>13, <1>14, <1>15
<1> QED
  BY <1>3, <1>4, <1>16 DEF a, b, f, g

LEMMA AllAhead == \A q \in Seq(Step) : Ahead(q, q, 0)
BY DEF Ahead

LEMMA AddAddNotices == SetNext("in", AddAddDataContention)
<1> DEFINE q  == AddAddDataContention
           q1 == Tail(q)
           q2 == Tail(q1)
           a  == Set(1, "in")[1]
           b  == RefusedNewCas(1, "in_new1")[1]
           c  == Get(1, "in")[1]
<1>1. q \in Seq(Step) /\ Len(q) = 3 /\ q[1] = a /\ q[2] = b /\ q[3] = c
  BY AddAddHas DEF IsPart
<1>2. /\ SetsKey(a) /\ a.retry = << >>
      /\ SetsKey(b) /\ b.retry = << >> /\ b.data # "in" /\ b.rcs = {"DATA_CONTENTION"}
      /\ c.op = "get" /\ c.key = 1 /\ c.rc = "OK" /\ c.values = {"in"}
  BY DEF Set, SetAs, RefusedNewCas, Get, GetAs, SetsKey
<1> HIDE DEF a, b, c, q
<1>3. q # << >> /\ Head(q) = a /\ Ahead(q1, q, 1)
  <2>1. Ahead(q, q, 0) /\ 0 + 1 = 1 /\ 0 < Len(q)
    BY <1>1, AllAhead
  <2>2. q # << >> /\ Head(q) = q[0 + 1] /\ Ahead(q1, q, 0 + 1)
    BY <1>1, <2>1, OneAhead
  <2> QED
    BY <1>1, <2>1, <2>2
<1> HIDE DEF q1
<1>4. q1 # << >> /\ Head(q1) = b /\ Ahead(q2, q, 2)
  <2>1. 1 + 1 = 2 /\ 1 < Len(q)
    BY <1>1
  <2>2. q1 # << >> /\ Head(q1) = q[1 + 1] /\ Ahead(q2, q, 1 + 1)
    BY <1>1, <1>3, <2>1, OneAhead
  <2> QED
    BY <1>1, <2>1, <2>2
<1> HIDE DEF q2
<1>5. q2 # << >> /\ Head(q2) = c
  <2>1. 2 + 1 = 3 /\ 2 < Len(q)
    BY <1>1
  <2>2. q2 # << >> /\ Head(q2) = q[2 + 1]
    BY <1>1, <1>4, <2>1, OneAhead
  <2> QED
    BY <1>1, <2>1, <2>2
<1>6. ReadNext("in", q2)
  BY <1>2, <1>5 DEF ReadNext
<1>7. RefuseNext("in", q1)
  BY <1>2, <1>4, <1>6 DEF RefuseNext, q2
<1>8. SetNext("in", q)
  BY <1>2, <1>3, <1>7 DEF SetNext, q1
<1> QED
  BY <1>8 DEF q

LEMMA RoundsHave ==
  LET q == AddKillSetSetDataContentionSet
  IN  /\ q \in Seq(Step) /\ Len(q) \in Nat /\ Len(q) > 5
      /\ \A n \in 1..6 : q[n] = AddKillSetSetRound(1)[n]
<1> DEFINE q == AddKillSetSetDataContentionSet
           r(k) == AddKillSetSetRound(k)
<1>1. q \in Seq(Step) /\ Len(q) = 10 * Rounds
      /\ \A n \in 1..(10 * Rounds) : q[n] = r(((n - 1) \div 10) + 1)[((n - 1) % 10) + 1]
  BY RoundsTypes
<1> HIDE DEF q, r
<1>2. Rounds \in Nat /\ Rounds >= 1
  BY StoreAssumption
<1>3. Len(q) \in Nat /\ Len(q) > 5
  BY <1>1, <1>2
<1>4. ASSUME NEW n \in 1..6 PROVE q[n] = r(1)[n]
  <2>1. n \in 1..(10 * Rounds)
    BY <1>2
  <2>2. ((n - 1) \div 10) + 1 = 1 /\ ((n - 1) % 10) + 1 = n
    <3>1. n = 1 \/ n = 2 \/ n = 3 \/ n = 4 \/ n = 5 \/ n = 6
      OBVIOUS
    <3> QED
      BY <3>1
  <2>3. q[n] = r(((n - 1) \div 10) + 1)[((n - 1) % 10) + 1]
    BY <1>1, <2>1
  <2> QED
    BY <2>2, <2>3
<1> QED
  BY <1>1, <1>3, <1>4 DEF q, r

LEMMA RoundsNotice == AddNext("in_new1", AddKillSetSetDataContentionSet)
<1> DEFINE q  == AddKillSetSetDataContentionSet
           q1 == Tail(q)
           q2 == Tail(q1)
           q3 == Tail(q2)
           q4 == Tail(q3)
           q5 == Tail(q4)
           a  == Set(1, "in")[1]
           b  == Get(1, "in")[1]
           c  == Trigger[1]
           e  == Either(1)
           f  == Refused(1, "FAIL")[1]
           g  == Get(1, "in_new1")[1]
<1>1. q \in Seq(Step) /\ Len(q) \in Nat /\ Len(q) > 5
  BY RoundsHave
<1>2. q[1] = a /\ q[2] = b /\ q[3] = c /\ q[4] = e /\ q[5] = f /\ q[6] = g
  <2>1. 1 \in 1..6 /\ 2 \in 1..6 /\ 3 \in 1..6 /\ 4 \in 1..6 /\ 5 \in 1..6 /\ 6 \in 1..6
    OBVIOUS
  <2> HIDE DEF q, a, b, c, e, f, g
  <2>2. \A n \in 1..6 : q[n] = AddKillSetSetRound(1)[n]
    BY RoundsHave DEF q
  <2> QED
    BY <2>1, <2>2, RoundHas DEF a, b, c, e, f, g
<1>3. /\ SetsKey(a) /\ a.retry = << >> /\ a.data # "in_new1"
      /\ b.op = "get" /\ c.op = "trigger"
      /\ SetsKey(f) /\ f.retry = << >> /\ f.data # "in_new1" /\ f.rcs = {"DATA_CONTENTION"}
      /\ g.op = "get" /\ g.key = 1 /\ g.rc = "OK" /\ g.values = {"in_new1"}
  BY DEF Set, SetAs, Refused, Get, GetAs, SetsKey, Trigger
<1> HIDE DEF a, b, c, e, f, g, q
<1>4. q # << >> /\ Head(q) = a /\ Ahead(q1, q, 1)
  <2>1. Ahead(q, q, 0) /\ 0 + 1 = 1 /\ 0 < Len(q)
    BY <1>1, AllAhead
  <2>2. q # << >> /\ Head(q) = q[0 + 1] /\ Ahead(q1, q, 0 + 1)
    BY <1>1, <2>1, OneAhead
  <2> QED
    BY <1>2, <2>1, <2>2
<1> HIDE DEF q1
<1>5. q1 # << >> /\ Head(q1) = b /\ Ahead(q2, q, 2)
  <2>1. 1 + 1 = 2 /\ 1 < Len(q)
    BY <1>1
  <2>2. q1 # << >> /\ Head(q1) = q[1 + 1] /\ Ahead(q2, q, 1 + 1)
    BY <1>1, <1>4, <2>1, OneAhead
  <2> QED
    BY <1>2, <2>1, <2>2
<1> HIDE DEF q2
<1>6. q2 # << >> /\ Head(q2) = c /\ Ahead(q3, q, 3)
  <2>1. 2 + 1 = 3 /\ 2 < Len(q)
    BY <1>1
  <2>2. q2 # << >> /\ Head(q2) = q[2 + 1] /\ Ahead(q3, q, 2 + 1)
    BY <1>1, <1>5, <2>1, OneAhead
  <2> QED
    BY <1>2, <2>1, <2>2
<1> HIDE DEF q3
<1>7. q3 # << >> /\ Head(q3) = e /\ Ahead(q4, q, 4)
  <2>1. 3 + 1 = 4 /\ 3 < Len(q)
    BY <1>1
  <2>2. q3 # << >> /\ Head(q3) = q[3 + 1] /\ Ahead(q4, q, 3 + 1)
    BY <1>1, <1>6, <2>1, OneAhead
  <2> QED
    BY <1>2, <2>1, <2>2
<1> HIDE DEF q4
<1>8. q4 # << >> /\ Head(q4) = f /\ Ahead(q5, q, 5)
  <2>1. 4 + 1 = 5 /\ 4 < Len(q)
    BY <1>1
  <2>2. q4 # << >> /\ Head(q4) = q[4 + 1] /\ Ahead(q5, q, 4 + 1)
    BY <1>1, <1>7, <2>1, OneAhead
  <2> QED
    BY <1>2, <2>1, <2>2
<1> HIDE DEF q5
<1>9. q5 # << >> /\ Head(q5) = g
  <2>1. 5 + 1 = 6 /\ 5 < Len(q)
    BY <1>1
  <2>2. q5 # << >> /\ Head(q5) = q[5 + 1]
    BY <1>1, <1>8, <2>1, OneAhead
  <2> QED
    BY <1>2, <2>1, <2>2
<1>10. ReadNext("in_new1", q5)
  BY <1>3, <1>9 DEF ReadNext
<1>11. RefuseNext("in_new1", q4)
  BY <1>3, <1>8, <1>10 DEF RefuseNext, q5
<1>12. EitherNext("in_new1", q3)
  BY <1>7, <1>11 DEF EitherNext, q4, e
<1>13. TriggerNext("in_new1", q2)
  BY <1>3, <1>6, <1>12 DEF TriggerNext, q3
<1>14. GetNext("in_new1", q1)
  BY <1>3, <1>5, <1>13 DEF GetNext, q2
<1>15. AddNext("in_new1", q)
  BY <1>3, <1>4, <1>14 DEF AddNext, q1
<1> QED
  BY <1>15 DEF q

LEMMA StartsEmpty == ASSUME NEW S PROVE << >> \in Seq(S)
OBVIOUS

LEMMA InitNoticed == Init => NoticedInv
<1> SUFFICES ASSUME Init
             PROVE  \/ test \in NotNoticed
                    \/ ~contended /\ IsSure(todo)
                    \/ \E d \in Data : WillNotice(d)
  BY DEF NoticedInv
<1>1. /\ test \in SimpleTests \cup FailureTests \cup LargerClustersTests
      /\ todo = Script(test) /\ inFlight = << >> /\ contended = FALSE
  BY StoreAssumption DEF Init
<1>2. \A d : Unseen(d)
  BY <1>1, StartsEmpty DEF Unseen
<1>3. CASE test \in SureTests
  BY <1>1, <1>3, SureScripts
<1>4. CASE test \in NotNoticed
  BY <1>4
<1>5. CASE test = "AddAddDataContention"
  <2>1. todo = AddAddDataContention
    BY <1>1, <1>5 DEF Script
  <2>2. SetNext("in", todo)
    BY <2>1, AddAddNotices
  <2>3. Aimed("in")
    BY <1>2, UnseenIsAimed
  <2>4. WillNotice("in")
    BY <2>2, <2>3 DEF WillNotice
  <2> QED
    BY <2>4, DataWords
<1>6. CASE test = "AddKillSetSetDataContentionSet"
  <2>1. todo = AddKillSetSetDataContentionSet
    BY <1>1, <1>6 DEF Script
  <2>2. AddNext("in_new1", todo)
    BY <2>1, RoundsNotice
  <2>3. WillNotice("in_new1")
    BY <1>2, <2>2 DEF WillNotice
  <2> QED
    BY <2>3, DataWords
<1> QED
  BY <1>1, <1>3, <1>4, <1>5, <1>6 DEF SureTests, NotNoticed

THEOREM SpecNoticedInv == Spec => [](TypeInv /\ NoticedInv)
<1>1. Init => TypeInv /\ NoticedInv
  BY InitTypes, InitNoticed
<1>2. TypeInv /\ NoticedInv /\ [Next]_vars => (TypeInv /\ NoticedInv)'
  BY NextTyped, NextNoticed
<1> QED
  BY <1>1, <1>2, PTL DEF Spec

(* A store that refuses a SET and stores its data all the same is noticed  *)
(* by every test that meets a refusal but three, for any number of rounds  *)
(* and whatever copies arrive when (test_memcachedsolution.cpp:416, 458).  *)
THEOREM WrongStoreIsNoticed == Spec => []WrongStoreNoticed
<1>1. TypeInv /\ NoticedInv => WrongStoreNoticed
  <2> SUFFICES ASSUME NoticedInv, todo = << >>, store = "contention_stored", contended, ~failed
               PROVE  test \in NotNoticed
    BY DEF WrongStoreNoticed, NotNoticed
  <2>1. \A d : ~WillNotice(d)
    BY DEF WillNotice, ReadNext, RefuseNext, SetNext, RetryNext, EitherNext, TriggerNext,
           GetNext, AddNext
  <2> QED
    BY <2>1 DEF NoticedInv
<1> QED
  BY <1>1, SpecNoticedInv, PTL

=============================================================================
