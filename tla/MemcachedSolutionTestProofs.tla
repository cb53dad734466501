---------------------- MODULE MemcachedSolutionTestProofs ----------------------
(***************************************************************************)
(* Theorems of MemcachedSolutionTest, for any site, scenario, number of    *)
(* tests and rounds, and any number of test programs.                      *)
(***************************************************************************)
EXTENDS MemcachedSolutionTest, TestFixtureProofs

-----------------------------------------------------------------------------
(* The lists of the test case *)

On == Instances \cup Statics \cup {None}

(* The static that holds an instance, if it is one of the test case.       *)
StaticOf ==
  [i \in Instances |-> IF i = Dnsmasq THEN "dnsmasq"
                       ELSE IF i \in Range(SiteInstances) THEN "dbs" ELSE "no static"]

LEMMA Division ==
  ASSUME NEW m \in Nat \ {0}, NEW x \in Nat
  PROVE  x % m \in 0..(m - 1) /\ x \div m \in Nat /\ x = m * (x \div m) + (x % m)
<1>1. x % m \in 0..(m - 1)
  OBVIOUS
<1>2. x \div m \in Nat
  OBVIOUS
<1>3. x = m * (x \div m) + (x % m)
  OBVIOUS
<1> QED
  BY <1>1, <1>2, <1>3

LEMMA Remainder ==
  ASSUME NEW m \in Nat \ {0}, NEW q \in Nat, NEW r \in 0..(m - 1)
  PROVE  (m * q + r) % m = r
OBVIOUS

(* The step before step k of a repeated list is the one before it in the   *)
(* list, unless step k is the first of the list.                           *)
LEMMA StepBefore ==
  ASSUME NEW m \in Nat \ {0}, NEW k \in Nat, k > 0, (k - 1) % m > 0
  PROVE  k > 1 /\ ((k - 1) - 1) % m = ((k - 1) % m) - 1
<1> DEFINE x == k - 1
           q == x \div m
           r == x % m
<1>1. x \in Nat /\ q \in Nat /\ r \in 0..(m - 1) /\ x = m * q + r
  <2>1. x \in Nat
    OBVIOUS
  <2> HIDE DEF x
  <2> QED
    BY <2>1, Division
<1>2. r - 1 \in 0..(m - 1) /\ x - 1 = m * q + (r - 1)
  BY <1>1
<1>3. (x - 1) % m = r - 1
  BY <1>1, <1>2, Remainder
<1>4. k > 1
  <2>1. CASE k = 1
    BY <2>1, <1>1, <1>3
  <2> QED
    BY <2>1
<1> QED
  BY <1>3, <1>4

LEMMA SiteFacts ==
  /\ SiteInstances \in Seq(Instances)
  /\ Len(SiteInstances) \in Nat \ {0}
  /\ DOMAIN SiteInstances = 1..Len(SiteInstances)
  /\ \A k \in 1..Len(SiteInstances) : SiteInstances[k] \in Instances \ {Dnsmasq}
  /\ \A k \in 1..Len(SiteInstances) : SiteInstances[k] \in Range(SiteInstances)
  /\ Dnsmasq \in Instances
<1>1. SiteInstances \in Seq(Instances) /\ Len(SiteInstances) = Len(Memcacheds) + Len(Rogerses)
  BY SuiteAssumption, ConcatProperties DEF SiteInstances
<1>2. Len(Memcacheds) \in Nat \ {0} /\ Len(Rogerses) \in Nat
  BY SuiteAssumption, EmptySeq, LenProperties
<1>3. DOMAIN SiteInstances = 1..Len(SiteInstances)
      /\ \A k \in 1..Len(SiteInstances) : SiteInstances[k] \in Instances
  BY <1>1, LenProperties
<1>4. \A k \in 1..Len(SiteInstances) : SiteInstances[k] \in Range(SiteInstances)
  BY <1>3 DEF Range
<1> QED
  BY <1>1, <1>2, <1>3, <1>4, SuiteAssumption

(* The steps of a test, which starts an instance only after it has killed  *)
(* it.                                                                     *)
IsTest(t) ==
  /\ t \in Seq(Steps(On))
  /\ \A k \in 1..Len(t) :
       /\ t[k].do \in {"start", "kill", "restart", "wait", "wait_for_instances",
                       "return_unless_ok", "body", "done"}
       /\ t[k].do \in {"start", "kill", "restart", "wait"} => t[k].on \in Instances
       /\ t[k].do \in {"start", "restart"} => t[k].on \in Range(SiteInstances)
       /\ t[k].do = "start" => k > 1 /\ t[k - 1].do = "kill" /\ t[k - 1].on = t[k].on

LEMMA ConcatIsTest ==
  ASSUME NEW s, NEW t, IsTest(s), IsTest(t)
  PROVE  IsTest(s \o t)
<1> USE DEF IsTest
<1>1. s \in Seq(Steps(On)) /\ t \in Seq(Steps(On)) /\ Len(s) \in Nat /\ Len(t) \in Nat
  BY LenProperties
<1>2. /\ s \o t \in Seq(Steps(On))
      /\ Len(s \o t) = Len(s) + Len(t)
      /\ \A k \in 1..(Len(s) + Len(t)) :
           (s \o t)[k] = IF k <= Len(s) THEN s[k] ELSE t[k - Len(s)]
  BY <1>1, ConcatProperties
<1> DEFINE u == s \o t
<1> HIDE DEF u
<1>3. /\ u \in Seq(Steps(On)) /\ Len(u) = Len(s) + Len(t)
      /\ \A k \in 1..Len(u) : k <= Len(s) => k \in 1..Len(s) /\ u[k] = s[k]
      /\ \A k \in 1..Len(u) : k > Len(s) => k - Len(s) \in 1..Len(t) /\ u[k] = t[k - Len(s)]
  BY <1>1, <1>2 DEF u
<1>4. ASSUME NEW k \in 1..Len(u), k <= Len(s)
      PROVE  /\ u[k].do \in {"start", "kill", "restart", "wait", "wait_for_instances",
                             "return_unless_ok", "body", "done"}
             /\ u[k].do \in {"start", "kill", "restart", "wait"} => u[k].on \in Instances
             /\ u[k].do \in {"start", "restart"} => u[k].on \in Range(SiteInstances)
             /\ u[k].do = "start" => k > 1 /\ u[k - 1].do = "kill" /\ u[k - 1].on = u[k].on
  <2>1. k \in 1..Len(s) /\ u[k] = s[k] /\ (k > 1 => u[k - 1] = s[k - 1])
    BY <1>1, <1>3, <1>4
  <2> QED
    BY <2>1
<1>5. ASSUME NEW k \in 1..Len(u), k > Len(s)
      PROVE  /\ u[k].do \in {"start", "kill", "restart", "wait", "wait_for_instances",
                             "return_unless_ok", "body", "done"}
             /\ u[k].do \in {"start", "kill", "restart", "wait"} => u[k].on \in Instances
             /\ u[k].do \in {"start", "restart"} => u[k].on \in Range(SiteInstances)
             /\ u[k].do = "start" => k > 1 /\ u[k - 1].do = "kill" /\ u[k - 1].on = u[k].on
  <2> DEFINE j == k - Len(s)
  <2>1. j \in 1..Len(t) /\ u[k] = t[j] /\ (j > 1 => k > 1 /\ u[k - 1] = t[j - 1])
    BY <1>1, <1>3, <1>5
  <2> HIDE DEF j
  <2> QED
    BY <2>1
<1>6. IsTest(u)
  BY <1>1, <1>3, <1>4, <1>5
<1> QED
  BY <1>6 DEF u

LEMMA RepeatFacts ==
  ASSUME NEW S, NEW t \in Seq(S), NEW n \in Nat
  PROVE  /\ Repeat(n, t) \in Seq(S)
         /\ Len(Repeat(n, t)) = n * Len(t)
         /\ \A k \in 1..(n * Len(t)) :
              /\ Len(t) \in Nat \ {0}
              /\ ((k - 1) % Len(t)) + 1 \in 1..Len(t)
              /\ Repeat(n, t)[k] = t[((k - 1) % Len(t)) + 1]
<1> DEFINE m == Len(t)
<1>1. m \in Nat /\ \A j \in 1..m : t[j] \in S
  BY LenProperties
<1>2. n * m \in Nat
  BY <1>1
<1>3. ASSUME NEW k \in 1..(n * m)
      PROVE  m # 0 /\ ((k - 1) % m) + 1 \in 1..m
  <2>1. m # 0
    BY <1>1, <1>3
  <2>2. (k - 1) \in Nat
    BY <1>2
  <2> HIDE DEF m
  <2> QED
    BY <1>1, <2>1, <2>2, Division
<1>4. Repeat(n, t) = [k \in 1..(n * m) |-> t[((k - 1) % m) + 1]]
  BY DEF Repeat
<1>5. Repeat(n, t) \in [1..(n * m) -> S]
  BY <1>1, <1>3, <1>4
<1>6. Repeat(n, t) \in Seq(S) /\ Len(Repeat(n, t)) = n * m
  BY <1>2, <1>5
<1> QED
  BY <1>1, <1>3, <1>4, <1>6

LEMMA RepeatIsTest ==
  ASSUME NEW t, IsTest(t), NEW n \in Nat
  PROVE  IsTest(Repeat(n, t))
<1> DEFINE m == Len(t)
           u == Repeat(n, t)
           i(k) == ((k - 1) % m) + 1
<1>1. /\ t \in Seq(Steps(On)) /\ u \in Seq(Steps(On)) /\ Len(u) = n * m
      /\ \A k \in 1..Len(u) : m \in Nat \ {0} /\ i(k) \in 1..m /\ u[k] = t[i(k)]
  <2>1. t \in Seq(Steps(On))
    BY DEF IsTest
  <2> QED
    BY <2>1, RepeatFacts
<1>2. ASSUME NEW k \in 1..Len(u), i(k) > 1
      PROVE  k > 1 /\ u[k - 1] = t[i(k) - 1]
  <2>1. k \in Nat /\ k > 0 /\ m \in Nat \ {0} /\ (k - 1) % m > 0 /\ n * m \in Nat
    BY <1>1, <1>2
  <2>2. k > 1 /\ ((k - 1) - 1) % m = ((k - 1) % m) - 1
    BY <2>1, StepBefore
  <2>3. k - 1 \in 1..Len(u)
    BY <1>1, <2>1, <2>2
  <2> QED
    BY <1>1, <2>1, <2>2, <2>3
<1> HIDE DEF i, u, m
<1>3. ASSUME NEW k \in 1..Len(u)
      PROVE  /\ u[k].do \in {"start", "kill", "restart", "wait", "wait_for_instances",
                             "return_unless_ok", "body", "done"}
             /\ u[k].do \in {"start", "kill", "restart", "wait"} => u[k].on \in Instances
             /\ u[k].do \in {"start", "restart"} => u[k].on \in Range(SiteInstances)
             /\ u[k].do = "start" => k > 1 /\ u[k - 1].do = "kill" /\ u[k - 1].on = u[k].on
  <2>1. i(k) \in 1..Len(t) /\ u[k] = t[i(k)]
    BY <1>1 DEF m
  <2> DEFINE j == i(k)
  <2>2. /\ t[j].do \in {"start", "kill", "restart", "wait", "wait_for_instances",
                        "return_unless_ok", "body", "done"}
        /\ t[j].do \in {"start", "kill", "restart", "wait"} => t[j].on \in Instances
        /\ t[j].do \in {"start", "restart"} => t[j].on \in Range(SiteInstances)
        /\ t[j].do = "start" => j > 1 /\ t[j - 1].do = "kill" /\ t[j - 1].on = t[j].on
    BY <2>1 DEF IsTest
  <2>3. j > 1 => k > 1 /\ u[k - 1] = t[j - 1]
    BY <1>2
  <2> HIDE DEF j
  <2>4. u[k] = t[j]
    BY <2>1 DEF j
  <2> QED
    BY <2>2, <2>3, <2>4
<1> QED
  BY <1>1, <1>3 DEF IsTest, u

LEMMA VictimFacts ==
  ASSUME NEW sc \in Scenarios
  PROVE  Victim(sc) \in Range(SiteInstances) /\ Victim(sc) \in Instances
<1>1. /\ Memcacheds \in Seq(Instances) /\ Len(Memcacheds) \in Nat \ {0}
      /\ Rogerses \in Seq(Instances) /\ Len(Rogerses) \in Nat \ {0}
  BY SuiteAssumption, EmptySeq
<1>2. /\ Len(SiteInstances) = Len(Memcacheds) + Len(Rogerses)
      /\ SiteInstances[Len(Memcacheds)] = Last(Memcacheds)
      /\ SiteInstances[Len(SiteInstances)] = Last(Rogerses)
  BY <1>1, ConcatProperties DEF SiteInstances, Last
<1>3. Last(Memcacheds) \in Range(SiteInstances) /\ Last(Rogerses) \in Range(SiteInstances)
  BY <1>1, <1>2, SiteFacts
<1>4. Range(SiteInstances) \subseteq Instances
  BY SiteFacts DEF Range
<1> QED
  BY <1>3, <1>4 DEF Victim, GetFirstMemcached, GetFirstRogers

(* One step of a test that starts nothing, or starts an instance it has    *)
(* just killed.                                                            *)
LEMMA OneStepIsTest ==
  ASSUME NEW a \in Steps(On),
         a.do \in {"kill", "restart", "wait", "wait_for_instances", "return_unless_ok",
                   "body", "done"},
         a.do \in {"kill", "restart", "wait"} => a.on \in Instances,
         a.do = "restart" => a.on \in Range(SiteInstances)
  PROVE  IsTest(<<a>>)
<1>1. <<a>> \in Seq(Steps(On)) /\ Len(<<a>>) = 1 /\ <<a>>[1] = a
  OBVIOUS
<1> QED
  BY <1>1 DEF IsTest

LEMMA KillThenStartIsTest ==
  ASSUME NEW a \in Steps(On), NEW b \in Steps(On),
         a.do = "kill", b.do = "start", a.on = b.on,
         a.on \in Instances, a.on \in Range(SiteInstances)
  PROVE  IsTest(<<a, b>>)
<1> DEFINE t == <<a, b>>
<1>1. t \in Seq(Steps(On)) /\ Len(t) = 2 /\ t[1] = a /\ t[2] = b
  OBVIOUS
<1> HIDE DEF t
<1>2. \A k \in 1..2 : k = 1 \/ (k = 2 /\ k - 1 = 1)
  OBVIOUS
<1>3. IsTest(t)
  BY <1>1, <1>2 DEF IsTest
<1> QED
  BY <1>3 DEF t

LEMMA Pair ==
  ASSUME NEW S, NEW x \in S, NEW y \in S
  PROVE  <<x, y>> = <<x>> \o <<y>>
<1> DEFINE s == <<x>>
           t == <<y>>
<1>1. s \in Seq(S) /\ t \in Seq(S) /\ Len(s) = 1 /\ Len(t) = 1 /\ s[1] = x /\ t[1] = y
  OBVIOUS
<1> HIDE DEF s, t
<1>2. /\ s \o t \in Seq(S) /\ Len(s \o t) = 2
      /\ (s \o t)[1] = x /\ (s \o t)[2] = y
  BY <1>1, ConcatProperties
<1>3. <<x, y>> \in Seq(S) /\ Len(<<x, y>>) = 2 /\ <<x, y>>[1] = x /\ <<x, y>>[2] = y
  OBVIOUS
<1> DEFINE u == s \o t
           v == <<x, y>>
<1> HIDE DEF u, v
<1>4. u \in Seq(S) /\ v \in Seq(S) /\ Len(u) = 2 /\ Len(v) = 2 /\ u[1] = v[1] /\ u[2] = v[2]
  BY <1>2, <1>3 DEF u, v
<1>5. \A i \in 1..2 : i = 1 \/ i = 2
  OBVIOUS
<1>6. \A i \in 1..Len(u) : u[i] = v[i]
  BY <1>4, <1>5
<1>7. u = v
  BY <1>4, <1>6, SeqEqual
<1> QED
  BY <1>7 DEF s, t, u, v

LEMMA StepFacts ==
  ASSUME NEW what \in Kinds, NEW i \in On, NEW j \in {"nobody", "site", "test"}
  PROVE  LET a == [do |-> what, on |-> i, judge |-> j]
         IN  a \in Steps(On) /\ a.do = what /\ a.on = i /\ a.judge = j
BY DEF Steps

LEMMA MarkFacts ==
  ASSUME NEW what \in {"wait_for_instances", "return_unless_ok", "body", "done", "teardown",
                       "create_tmp", "new_site", "new_dnsmasq",
                       "remove_cfg", "remove_site", "remove_tmp"}
  PROVE  Mark(what) \in Steps(On) /\ Mark(what).do = what
<1>1. what \in Kinds /\ None \in On
  BY DEF Kinds, TestOnly, Removals, On
<1> QED
  BY <1>1, StepFacts DEF Mark, Do

LEMMA ExpectFacts ==
  ASSUME NEW what \in {"start", "kill", "restart", "wait"}, NEW i \in Instances
  PROVE  /\ ExpectTrue(what, i) \in Steps(On)
         /\ ExpectTrue(what, i).do = what /\ ExpectTrue(what, i).on = i
<1>1. what \in Kinds /\ i \in On
  BY DEF Kinds, TestOnly, On
<1> QED
  BY <1>1, StepFacts DEF ExpectTrue

LEMMA SetUpIsTest == IsTest(SetUp)
<1> DEFINE waits == [k \in DOMAIN SiteInstances |->
                       [do |-> "wait", on |-> SiteInstances[k], judge |-> "site"]]
           n == Len(SiteInstances)
<1>1. ASSUME NEW what \in {"wait_for_instances", "return_unless_ok", "body"}
      PROVE  IsTest(<<Mark(what)>>)
  BY MarkFacts, OneStepIsTest
<1>2. IsTest(<<ExpectTrue("wait", Dnsmasq)>>)
  BY ExpectFacts, OneStepIsTest, SiteFacts
<1>3. <<ExpectTrue("wait", Dnsmasq), Mark("body")>>
        = <<ExpectTrue("wait", Dnsmasq)>> \o <<Mark("body")>>
  BY Pair, MarkFacts, ExpectFacts, SiteFacts
<1>4. IsTest(waits)
  <2>1. waits = [k \in 1..n |-> [do |-> "wait", on |-> SiteInstances[k], judge |-> "site"]]
    BY SiteFacts
  <2>2. \A k \in 1..n : [do |-> "wait", on |-> SiteInstances[k], judge |-> "site"] \in Steps(On)
    BY SiteFacts, StepFacts DEF Kinds, TestOnly, On
  <2>3. waits \in Seq(Steps(On)) /\ Len(waits) = n
    BY <2>1, <2>2, SiteFacts
  <2> QED
    BY <2>1, <2>3, SiteFacts DEF IsTest
<1>5. IsTest(WaitForSite(SiteInstances))
  BY <1>1, <1>4, ConcatIsTest DEF WaitForSite
<1> QED
  BY <1>1, <1>2, <1>3, <1>5, ConcatIsTest DEF SetUp

LEMMA ScenarioIsTest ==
  ASSUME NEW sc \in Scenarios
  PROVE  IsTest(TriggerFailure(sc) \o FixFailure(sc))
<1> DEFINE v == Victim(sc)
           Expect(what) == ExpectTrue(what, v)
<1>1. IsTest(<< >>)
  BY EmptySeq DEF IsTest
<1>2. v \in Instances /\ v \in Range(SiteInstances)
  BY VictimFacts
<1>3. ASSUME NEW what \in {"kill", "start", "restart", "wait"}
      PROVE  Expect(what) \in Steps(On) /\ Expect(what).do = what /\ Expect(what).on = v
  BY <1>2, ExpectFacts
<1> HIDE DEF v, Expect
<1>4. IsTest(<<Expect("wait")>>) /\ IsTest(<<Expect("restart")>>)
      /\ IsTest(<<Expect("kill"), Expect("start")>>)
  BY <1>2, <1>3, OneStepIsTest, KillThenStartIsTest
<1>5. CASE sc = "NoFailures"
  <2>1. TriggerFailure(sc) = << >> /\ FixFailure(sc) = << >>
    BY <1>5 DEF TriggerFailure, FixFailure
  <2> QED
    BY <1>1, <2>1, ConcatIsTest
<1>6. CASE sc \in {"MemcachedFails", "RogersFails"}
  <2>1. /\ TriggerFailure(sc) = <<Expect("kill")>>
        /\ FixFailure(sc) = <<Expect("start"), Expect("wait")>>
    BY <1>6 DEF TriggerFailure, FixFailure, v, Expect
  <2>2. TriggerFailure(sc) \o FixFailure(sc)
          = <<Expect("kill"), Expect("start")>> \o <<Expect("wait")>>
    <3> DEFINE a == Expect("kill")
               b == Expect("start")
               c == Expect("wait")
    <3>1. a \in Steps(On) /\ b \in Steps(On) /\ c \in Steps(On)
      BY <1>3
    <3> HIDE DEF a, b, c
    <3>2. <<b, c>> = <<b>> \o <<c>> /\ <<a, b>> = <<a>> \o <<b>>
      BY <3>1, Pair
    <3>3. <<a>> \o (<<b>> \o <<c>>) = (<<a>> \o <<b>>) \o <<c>>
      <4>1. <<a>> \in Seq(Steps(On)) /\ <<b>> \in Seq(Steps(On)) /\ <<c>> \in Seq(Steps(On))
        BY <3>1
      <4> QED
        BY <4>1, ConcatAssociative
    <3>4. <<a>> \o <<b, c>> = <<a, b>> \o <<c>>
      BY <3>2, <3>3, Zenon
    <3> QED
      BY <2>1, <3>4 DEF a, b, c
  <2> QED
    BY <1>4, <2>2, ConcatIsTest
<1>7. CASE sc \in {"MemcachedRestarts", "RogersRestarts"}
  <2>1. /\ TriggerFailure(sc) = <<Expect("restart"), Expect("wait")>>
        /\ FixFailure(sc) = << >>
    BY <1>7 DEF TriggerFailure, FixFailure, v, Expect
  <2>2. TriggerFailure(sc) = <<Expect("restart")>> \o <<Expect("wait")>>
    BY <1>3, <2>1, Pair
  <2> QED
    BY <1>1, <1>4, <2>1, <2>2, ConcatIsTest
<1> QED
  BY <1>5, <1>6, <1>7, SuiteAssumption

LEMMA TestIsTest ==
  ASSUME NEW sc \in Scenarios
  PROVE  IsTest(Test(sc))
<1>1. IsTest(Repeat(NumRounds, TriggerFailure(sc) \o FixFailure(sc)))
  BY ScenarioIsTest, RepeatIsTest, SuiteAssumption
<1>2. IsTest(<<Mark("done")>>)
  BY MarkFacts, OneStepIsTest
<1> QED
  BY <1>1, <1>2, SetUpIsTest, ConcatIsTest DEF Test

LEMMA ForEachFacts ==
  ASSUME NEW what \in Kinds
  PROVE  LET s == ForEachInstance(what, SiteInstances) IN
         /\ s \in Seq(Steps(On)) /\ Len(s) = Len(SiteInstances)
         /\ \A k \in 1..Len(SiteInstances) :
              s[k] \in Steps(On) /\ s[k].do = what /\ s[k].on = SiteInstances[k]
<1> DEFINE n == Len(SiteInstances)
           s == ForEachInstance(what, SiteInstances)
<1>1. s = [k \in 1..n |-> [do |-> what, on |-> SiteInstances[k], judge |-> "nobody"]]
  BY SiteFacts DEF ForEachInstance, Do
<1>2. ASSUME NEW k \in 1..n
      PROVE  s[k] \in Steps(On) /\ s[k].do = what /\ s[k].on = SiteInstances[k]
  <2>1. SiteInstances[k] \in On
    BY SiteFacts DEF On
  <2> DEFINE a == [do |-> what, on |-> SiteInstances[k], judge |-> "nobody"]
  <2>2. s[k] = a
    BY <1>1
  <2>3. a \in Steps(On) /\ a.do = what /\ a.on = SiteInstances[k]
    BY <2>1, StepFacts, Zenon
  <2> QED
    BY <2>2, <2>3
<1>3. s \in [1..n -> Steps(On)] /\ n \in Nat
  BY <1>1, <1>2, SiteFacts
<1>4. s \in Seq(Steps(On)) /\ Len(s) = n
  BY <1>3
<1> QED
  BY <1>2, <1>4

(* SetUpTestCase makes the site, owns it and starts it, then dnsmasq.      *)
LEMMA SetUpTestCaseFacts ==
  LET n == Len(SiteInstances)
      s == SetUpTestCase
  IN  /\ s \in Seq(Steps(On)) /\ Len(s) = n + 6
      /\ s[1].do = "create_tmp" /\ s[2].do = "new_site"
      /\ s[3].do = "own" /\ s[3].on = "dbs"
      /\ \A k \in 4..(n + 3) : s[k].do = "start" /\ s[k].on = SiteInstances[k - 3]
      /\ s[n + 4].do = "new_dnsmasq"
      /\ s[n + 5].do = "own" /\ s[n + 5].on = "dnsmasq"
      /\ s[n + 6].do = "start" /\ s[n + 6].on = Dnsmasq
<1> DEFINE n == Len(SiteInstances)
           z == Mark("create_tmp")
           y == Mark("new_site")
           a == Do("own", "dbs")
           b == ForEachInstance("start", SiteInstances)
           w == Mark("new_dnsmasq")
           c == Do("own", "dnsmasq")
           d == Do("start", Dnsmasq)
           m == <<z>>
           p == <<y, a>>
           f == <<w, c, d>>
           g == p \o b
           e == m \o g
           s == e \o f
<1>1. /\ z \in Steps(On) /\ z.do = "create_tmp" /\ y \in Steps(On) /\ y.do = "new_site"
      /\ a \in Steps(On) /\ a.do = "own" /\ a.on = "dbs"
      /\ w \in Steps(On) /\ w.do = "new_dnsmasq"
      /\ c \in Steps(On) /\ c.do = "own" /\ c.on = "dnsmasq"
      /\ d \in Steps(On) /\ d.do = "start" /\ d.on = Dnsmasq
  <2>1. "dbs" \in On /\ "dnsmasq" \in On /\ Dnsmasq \in On
    BY SuiteAssumption, SiteFacts DEF On
  <2>2. "own" \in Kinds /\ "start" \in Kinds
    BY DEF Kinds, TestOnly
  <2> QED
    BY <2>1, <2>2, StepFacts, MarkFacts DEF Do
<1>2. /\ b \in Seq(Steps(On)) /\ Len(b) = n /\ n \in Nat
      /\ \A k \in 1..n : b[k].do = "start" /\ b[k].on = SiteInstances[k]
  BY ForEachFacts, SiteFacts DEF Kinds, TestOnly
<1>3. SetUpTestCase = s
  BY DEF SetUpTestCase, CreateAndStartDatabases, CreateAndStartDns
<1> HIDE DEF a, b, c, d, w, y, z, n
<1>4. /\ m \in Seq(Steps(On)) /\ Len(m) = 1 /\ m[1] = z
      /\ p \in Seq(Steps(On)) /\ Len(p) = 2 /\ p[1] = y /\ p[2] = a
      /\ f \in Seq(Steps(On)) /\ Len(f) = 3 /\ f[1] = w /\ f[2] = c /\ f[3] = d
  BY <1>1
<1> HIDE DEF m, p, f
<1>5. /\ g \in Seq(Steps(On)) /\ Len(g) = n + 2 /\ g[1] = y /\ g[2] = a
      /\ \A k \in 1..n : g[2 + k] = b[k]
  <2> DEFINE S == Steps(On)
  <2>0. p \in Seq(S) /\ b \in Seq(S) /\ g = p \o b
    BY <1>2, <1>4
  <2> HIDE DEF g, S
  <2>1. /\ g \in Seq(S) /\ Len(g) = Len(p) + Len(b)
        /\ \A k \in 1..Len(p) : g[k] = p[k]
        /\ \A k \in 1..Len(b) : g[Len(p) + k] = b[k]
    BY <2>0, Joined
  <2> QED
    BY <1>2, <1>4, <2>1 DEF S
<1> HIDE DEF g
<1>6. /\ e \in Seq(Steps(On)) /\ Len(e) = n + 3 /\ e[1] = z /\ e[2] = y /\ e[3] = a
      /\ \A k \in 1..n : e[3 + k] = b[k]
  <2> DEFINE S == Steps(On)
  <2>0. m \in Seq(S) /\ g \in Seq(S) /\ e = m \o g
    BY <1>4, <1>5
  <2> HIDE DEF e, S
  <2>1. /\ e \in Seq(S) /\ Len(e) = Len(m) + Len(g)
        /\ \A k \in 1..Len(m) : e[k] = m[k]
        /\ \A k \in 1..Len(g) : e[Len(m) + k] = g[k]
    BY <2>0, Joined
  <2>2. \A k \in 1..(n + 2) : e[1 + k] = g[k]
    BY <1>4, <1>5, <2>1
  <2>3. 1 \in 1..(n + 2) /\ 2 \in 1..(n + 2) /\ 1 + 1 = 2 /\ 1 + 2 = 3
        /\ \A k \in 1..n : 2 + k \in 1..(n + 2) /\ 1 + (2 + k) = 3 + k
    BY <1>2
  <2>4. e[2] = y /\ e[3] = a
    BY <1>5, <2>2, <2>3
  <2>5. \A k \in 1..n : e[3 + k] = b[k]
    BY <1>5, <2>2, <2>3
  <2> QED
    BY <1>2, <1>4, <1>5, <2>1, <2>4, <2>5 DEF S
<1> HIDE DEF e
<1>7. /\ s \in Seq(Steps(On)) /\ Len(s) = n + 6
      /\ \A k \in 1..(n + 3) : s[k] = e[k]
      /\ \A k \in 1..3 : s[(n + 3) + k] = f[k]
  <2> DEFINE S == Steps(On)
  <2>0. e \in Seq(S) /\ f \in Seq(S) /\ s = e \o f
    BY <1>4, <1>6
  <2> HIDE DEF s, S
  <2>1. /\ s \in Seq(S) /\ Len(s) = Len(e) + Len(f)
        /\ \A k \in 1..Len(e) : s[k] = e[k]
        /\ \A k \in 1..Len(f) : s[Len(e) + k] = f[k]
    BY <2>0, Joined
  <2> QED
    BY <1>2, <1>4, <1>6, <2>1 DEF S
<1> HIDE DEF s
<1>8. s[1] = z /\ s[2] = y /\ s[3] = a
  <2>1. 1 \in 1..(n + 3) /\ 2 \in 1..(n + 3) /\ 3 \in 1..(n + 3)
    BY <1>2
  <2> QED
    BY <1>6, <1>7, <2>1
<1>9. \A k \in 4..(n + 3) : s[k] = b[k - 3] /\ k - 3 \in 1..n
  <2>1. \A k \in 4..(n + 3) : k \in 1..(n + 3) /\ k - 3 \in 1..n /\ 3 + (k - 3) = k
    BY <1>2
  <2>2. \A k \in 4..(n + 3) : e[3 + (k - 3)] = b[k - 3]
    BY <1>6, <2>1
  <2> QED
    BY <1>7, <2>1, <2>2
<1>10. s[n + 4] = w /\ s[n + 5] = c /\ s[n + 6] = d
  <2>1. (n + 3) + 1 = n + 4 /\ (n + 3) + 2 = n + 5 /\ (n + 3) + 3 = n + 6
        /\ 1 \in 1..3 /\ 2 \in 1..3 /\ 3 \in 1..3
    BY <1>2
  <2> QED
    BY <1>4, <1>7, <2>1
<1> QED
  BY <1>1, <1>2, <1>3, <1>7, <1>8, <1>9, <1>10 DEF n

(* Then come the tests, and TearDownTestCase.                              *)
LEMMA TestCaseFacts ==
  ASSUME NEW sc \in Scenarios
  PROVE  LET n == Len(SiteInstances)
             s == SetUpTestCase
             l == TestCase(sc)
         IN  /\ l \in Seq(Steps(On)) /\ Len(l) \in Nat /\ Len(l) > n + 6
             /\ \A k \in 1..(n + 6) : l[k] = s[k]
             /\ \A k \in (n + 7)..(Len(l) - 1) :
                  /\ l[k].do \in {"start", "kill", "restart", "wait", "wait_for_instances",
                                  "return_unless_ok", "body", "done"}
                  /\ l[k].do \in {"start", "kill", "restart", "wait"} => l[k].on \in Instances
                  /\ l[k].do \in {"start", "restart"} => l[k].on \in Range(SiteInstances)
                  /\ l[k].do = "start" => l[k - 1].do = "kill" /\ l[k - 1].on = l[k].on
             /\ l[Len(l)].do = "teardown"
<1> DEFINE n == Len(SiteInstances)
           s == SetUpTestCase
           t == Repeat(NumTests, Test(sc))
           a == Mark("teardown")
           e == s \o t
           f == <<a>>
           l == e \o f
<1>1. l = TestCase(sc)
  BY DEF TestCase
<1>2. IsTest(t)
  BY TestIsTest, RepeatIsTest, SuiteAssumption
<1>3. s \in Seq(Steps(On)) /\ Len(s) = n + 6 /\ n \in Nat
  BY SetUpTestCaseFacts, SiteFacts
<1>4. a \in Steps(On) /\ a.do = "teardown"
  BY MarkFacts
<1>5. t \in Seq(Steps(On)) /\ Len(t) \in Nat
  BY <1>2, LenProperties DEF IsTest
<1> HIDE DEF s, t, a, n
<1>6. f \in Seq(Steps(On)) /\ Len(f) = 1 /\ f[1] = a
  BY <1>4
<1> HIDE DEF f
<1>7. /\ e \in Seq(Steps(On)) /\ Len(e) = n + 6 + Len(t)
      /\ \A k \in 1..(n + 6) : e[k] = s[k]
      /\ \A k \in 1..Len(e) : k > n + 6 => k - (n + 6) \in 1..Len(t) /\ e[k] = t[k - (n + 6)]
  <2> DEFINE S == Steps(On)
  <2>0. s \in Seq(S) /\ t \in Seq(S) /\ e = s \o t
    BY <1>3, <1>5
  <2> HIDE DEF e, S
  <2>1. /\ e \in Seq(S) /\ Len(e) = Len(s) + Len(t)
        /\ \A k \in 1..Len(s) : e[k] = s[k]
        /\ \A k \in 1..Len(e) : k > Len(s) => k - Len(s) \in 1..Len(t) /\ e[k] = t[k - Len(s)]
    BY <2>0, Joined
  <2> QED
    BY <1>3, <2>1 DEF S
<1> HIDE DEF e
<1>8. /\ l \in Seq(Steps(On)) /\ Len(l) = Len(e) + 1
      /\ \A k \in 1..Len(e) : l[k] = e[k]
      /\ l[Len(e) + 1] = f[1]
  <2>1. /\ l \in Seq(Steps(On)) /\ Len(l) = Len(e) + Len(f)
        /\ \A k \in 1..Len(e) : l[k] = e[k]
        /\ \A k \in 1..Len(f) : l[Len(e) + k] = f[k]
    <3>1. e \in Seq(Steps(On)) /\ f \in Seq(Steps(On))
      BY <1>6, <1>7
    <3> QED
      BY <3>1, Joined
  <2> HIDE DEF l
  <2> QED
    BY <1>6, <2>1
<1> HIDE DEF l
<1>9. \A k \in 1..(n + 6) : l[k] = s[k]
  BY <1>3, <1>5, <1>7, <1>8
<1>10. ASSUME NEW k \in (n + 7)..(Len(l) - 1)
       PROVE  /\ l[k].do \in {"start", "kill", "restart", "wait", "wait_for_instances",
                              "return_unless_ok", "body", "done"}
              /\ l[k].do \in {"start", "kill", "restart", "wait"} => l[k].on \in Instances
              /\ l[k].do \in {"start", "restart"} => l[k].on \in Range(SiteInstances)
              /\ l[k].do = "start" => l[k - 1].do = "kill" /\ l[k - 1].on = l[k].on
  <2> DEFINE j == k - (n + 6)
  <2>1. k \in 1..Len(e) /\ k > n + 6 /\ (j > 1 => k - 1 \in 1..Len(e) /\ k - 1 > n + 6)
        /\ (k - 1) - (n + 6) = j - 1
    BY <1>3, <1>5, <1>7, <1>8
  <2>2. j \in 1..Len(t) /\ l[k] = t[j] /\ (j > 1 => l[k - 1] = t[j - 1])
    BY <1>7, <1>8, <2>1
  <2> HIDE DEF j
  <2> QED
    BY <1>2, <2>2 DEF IsTest
<1>11. Len(l) \in Nat /\ Len(l) > n + 6 /\ l[Len(l)] = a
  BY <1>3, <1>5, <1>6, <1>7, <1>8
<1> QED
  BY <1>1, <1>4, <1>8, <1>9, <1>10, <1>11 DEF n, s

(* The program has started nothing yet, and its list is fit to be begun.   *)
LEMMA InitProgram ==
  ASSUME SuiteInit, NEW h \in Roots
  PROVE  ProgramInv(h, StaticOf)
<1> DEFINE n == Len(SiteInstances)
           s == SetUpTestCase
           l == todo[h]
<1>1. /\ l \in Seq(Steps(On)) /\ Len(l) \in Nat /\ Len(l) > n + 6
      /\ \A k \in 1..(n + 6) : l[k] = s[k]
      /\ \A k \in (n + 7)..(Len(l) - 1) :
           /\ l[k].do \in {"start", "kill", "restart", "wait", "wait_for_instances",
                           "return_unless_ok", "body", "done"}
           /\ l[k].do \in {"start", "kill", "restart", "wait"} => l[k].on \in Instances
           /\ l[k].do \in {"start", "restart"} => l[k].on \in Range(SiteInstances)
           /\ l[k].do = "start" => l[k - 1].do = "kill" /\ l[k - 1].on = l[k].on
      /\ l[Len(l)].do = "teardown"
  <2>1. PICK sc \in Scenarios : todo = [g \in Roots |-> TestCase(sc)]
    BY DEF SuiteInit
  <2>2. l = TestCase(sc)
    BY <2>1
  <2> HIDE DEF l
  <2> QED
    BY <2>2, TestCaseFacts
<1>2. /\ s[1].do = "create_tmp" /\ s[2].do = "new_site"
      /\ s[3].do = "own" /\ s[3].on = "dbs"
      /\ \A k \in 4..(n + 3) : s[k].do = "start" /\ s[k].on = SiteInstances[k - 3]
      /\ s[n + 4].do = "new_dnsmasq"
      /\ s[n + 5].do = "own" /\ s[n + 5].on = "dnsmasq"
      /\ s[n + 6].do = "start" /\ s[n + 6].on = Dnsmasq
  BY SetUpTestCaseFacts
<1>3. n \in Nat \ {0} /\ Dnsmasq \in Instances
      /\ \A k \in 1..n : /\ SiteInstances[k] \in Instances \ {Dnsmasq}
                         /\ SiteInstances[k] \in Range(SiteInstances)
  BY SiteFacts
<1>4. \A j, k \in 1..n : SiteInstances[j] = SiteInstances[k] => j = k
  BY SiteFacts, SuiteAssumption
<1>5. /\ \A k \in 1..n : StaticOf[SiteInstances[k]] = "dbs"
      /\ \A i \in Instances : i \in Range(SiteInstances) => StaticOf[i] = "dbs"
      /\ StaticOf[Dnsmasq] = "dnsmasq"
  <2>1. Dnsmasq \notin Range(SiteInstances)
    BY SuiteAssumption
  <2> QED
    BY <1>3, <2>1 DEF StaticOf
<1> HIDE DEF n, s, l
<1>6. /\ l[1].do = "create_tmp" /\ l[2].do = "new_site"
      /\ l[3].do = "own" /\ l[3].on = "dbs"
      /\ \A k \in 4..(n + 3) : k - 3 \in 1..n /\ l[k].do = "start" /\ l[k].on = SiteInstances[k - 3]
      /\ l[n + 4].do = "new_dnsmasq"
      /\ l[n + 5].do = "own" /\ l[n + 5].on = "dnsmasq"
      /\ l[n + 6].do = "start" /\ l[n + 6].on = Dnsmasq
  <2>1. /\ {1, 2, 3, n + 4, n + 5, n + 6} \subseteq 1..(n + 6)
        /\ \A k \in 4..(n + 3) : k \in 1..(n + 6) /\ k - 3 \in 1..n
    BY <1>3
  <2>2. \A k \in 4..(n + 3) : k - 3 \in 1..n /\ l[k].do = "start" /\ l[k].on = SiteInstances[k - 3]
    BY <1>1, <1>2, <2>1
  <2>3. /\ l[1] = s[1] /\ l[2] = s[2] /\ l[3] = s[3]
        /\ l[n + 4] = s[n + 4] /\ l[n + 5] = s[n + 5] /\ l[n + 6] = s[n + 6]
    BY <1>1, <2>1
  <2> QED
    BY <1>2, <2>2, <2>3
<1>7. \A k \in 1..Len(l) : \/ k = 1 \/ k = 2 \/ k = 3 \/ k = n + 4 \/ k \in 4..(n + 3) \/ k = n + 5 \/ k = n + 6
                          \/ k \in (n + 7)..(Len(l) - 1) \/ k = Len(l)
  BY <1>1, <1>3
<1>8. /\ h \in Pids /\ status[h] = "program" /\ pc[h] = "idle"
      /\ \A i \in Instances : running[h][i] = FALSE
      /\ phase[h] = "tests" /\ signalled[h] = "nowhere"
      /\ \A c \in Pids : parent[c] # h
  BY ProcessAssumption DEF SuiteInit, FixtureInit, Init
<1>9. \A i \in Instances : ~running[h][i] /\ ~WillRun(h, i)
  BY <1>8 DEF WillRun
<1>10. ListInv(h)
  <2> SUFFICES ASSUME NEW k \in 1..Len(l)
               PROVE  l[k].do \in {"start", "kill", "restart", "wait"} => l[k].on \in Instances
    BY DEF ListInv, l
  <2> QED
    BY <1>1, <1>3, <1>6, <1>7
<1>11. FreshInv(h)
  <2> SUFFICES ASSUME NEW k \in 1..Len(l), l[k].do = "start"
               PROVE  \/ k > 1 /\ l[k - 1].do = "kill" /\ l[k - 1].on = l[k].on
                      \/ /\ ~WillRun(h, l[k].on)
                         /\ \A j \in 1..(k - 1) : ~Starts(l[j], l[k].on)
    BY DEF FreshInv, l
  <2>1. CASE k \in 4..(n + 3)
    <3>1. ASSUME NEW j \in 1..(k - 1)
          PROVE  ~Starts(l[j], l[k].on)
      <4>1. j = 1 \/ j = 2 \/ j = 3 \/ (j \in 4..(n + 3) /\ j - 3 # k - 3)
        BY <1>3, <2>1
      <4> QED
        BY <1>4, <1>6, <2>1, <4>1 DEF Starts
    <3> QED
      BY <1>3, <1>6, <1>9, <2>1, <3>1
  <2>2. CASE k = n + 6
    <3>1. ASSUME NEW j \in 1..(k - 1)
          PROVE  ~Starts(l[j], l[k].on)
      <4>1. j = 1 \/ j = 2 \/ j = 3 \/ j \in 4..(n + 3) \/ j = n + 4 \/ j = n + 5
        BY <1>3, <2>2
      <4> QED
        BY <1>3, <1>6, <2>2, <4>1 DEF Starts
    <3> QED
      BY <1>3, <1>6, <1>9, <2>2, <3>1
  <2>3. CASE k \in (n + 7)..(Len(l) - 1)
    BY <1>1, <1>3, <2>3
  <2> QED
    BY <1>1, <1>6, <1>7, <2>1, <2>2, <2>3
<1>12. OwnedInv(h, StaticOf)
  <2>1. ASSUME NEW k \in 1..Len(l)
        PROVE  l[k].do \notin Removals
    BY <1>1, <1>6, <1>7 DEF Removals
  <2>2. ASSUME NEW k \in 1..Len(l), l[k].do \in {"start", "restart"}
        PROVE  \E j \in 1..(k - 1) : l[j].do = "own" /\ l[j].on = StaticOf[l[k].on]
    <3>1. CASE k \in 4..(n + 3)
      <4>1. 3 \in 1..(k - 1) /\ StaticOf[l[k].on] = "dbs"
        BY <1>3, <1>5, <1>6, <3>1
      <4> QED
        BY <1>6, <4>1
    <3>2. CASE k = n + 6
      <4>1. n + 5 \in 1..(k - 1) /\ StaticOf[l[k].on] = "dnsmasq"
        BY <1>3, <1>5, <1>6, <3>2
      <4> QED
        BY <1>6, <4>1
    <3>3. CASE k \in (n + 7)..(Len(l) - 1)
      <4>1. l[k].on \in Instances /\ l[k].on \in Range(SiteInstances)
        BY <1>1, <2>2, <3>3
      <4>2. 3 \in 1..(k - 1) /\ StaticOf[l[k].on] = "dbs"
        BY <1>3, <1>5, <3>3, <4>1
      <4> QED
        BY <1>6, <4>2
    <3> QED
      BY <1>1, <1>6, <1>7, <2>2, <3>1, <3>2, <3>3
  <2>3. ASSUME NEW k \in 1..Len(l), l[k].do = "own", NEW j \in 1..k
        PROVE  l[j].do # "return_unless_ok"
    <3>1. k = 3 \/ k = n + 5
      BY <1>1, <1>6, <1>7, <2>3
    <3>2. j = 1 \/ j = 2 \/ j = 3 \/ j \in 4..(n + 3) \/ j = n + 4 \/ j = n + 5
      BY <1>3, <3>1
    <3> QED
      BY <1>6, <3>2
  <2> QED
    BY <1>1, <1>3, <1>9, <2>1, <2>2, <2>3 DEF OwnedInv, l
<1>13. ServersInv(h)
  BY <1>8 DEF ServersInv, NoneLost
<1> QED
  BY <1>8, <1>10, <1>11, <1>12, <1>13 DEF ProgramInv

LEMMA InitFixture == SuiteInit => FixtureInv(On, StaticOf)
<1> SUFFICES ASSUME SuiteInit PROVE FixtureInv(On, StaticOf)
  OBVIOUS
<1>1. Init /\ IInv
  BY InitIInv DEF SuiteInit, FixtureInit
<1>2. SoleProgram
  BY <1>1, ProcessAssumption DEF Init, SoleProgram
<1>3. FixtureTypeOK
  BY <1>1 DEF SuiteInit, FixtureInit, FixtureTypeOK, IInv, Phases
<1>4. todo \in [Roots -> Seq(Steps(On))]
  <2>1. PICK sc \in Scenarios : todo = [h \in Roots |-> TestCase(sc)]
    BY DEF SuiteInit
  <2>2. TestCase(sc) \in Seq(Steps(On))
    BY TestCaseFacts
  <2> QED
    BY <2>1, <2>2
<1> QED
  BY <1>1, <1>2, <1>3, <1>4, InitProgram DEF FixtureInv

-----------------------------------------------------------------------------
(* TearDownTestCase *)

(* Steps of a tear-down, and one of them.                                  *)
GoesDown(l) ==
  /\ l \in Seq(Steps(On))
  /\ \A k \in 1..Len(l) : /\ l[k].do \in Removals \cup {"kill"}
                          /\ l[k].do = "kill" => l[k].on \in Instances

Has(l, what, i) == \E k \in 1..Len(l) : l[k].do = what /\ l[k].on = i

LEMMA ConcatGoesDown ==
  ASSUME NEW s, NEW t, GoesDown(s), GoesDown(t)
  PROVE  /\ GoesDown(s \o t)
         /\ \A what, i : Has(s, what, i) \/ Has(t, what, i) => Has(s \o t, what, i)
<1> DEFINE u == s \o t
<1>1. /\ Len(s) \in Nat /\ u \in Seq(Steps(On)) /\ Len(u) = Len(s) + Len(t)
      /\ \A k \in 1..Len(s) : k \in 1..Len(u) /\ u[k] = s[k]
      /\ \A k \in 1..Len(t) : Len(s) + k \in 1..Len(u) /\ u[Len(s) + k] = t[k]
      /\ \A k \in 1..Len(u) : k > Len(s) => k - Len(s) \in 1..Len(t) /\ u[k] = t[k - Len(s)]
  BY Joined DEF GoesDown
<1> HIDE DEF u
<1>2. GoesDown(u)
  <2> SUFFICES ASSUME NEW k \in 1..Len(u)
               PROVE  /\ u[k].do \in Removals \cup {"kill"}
                      /\ u[k].do = "kill" => u[k].on \in Instances
    BY <1>1 DEF GoesDown
  <2>1. CASE k <= Len(s)
    <3>1. k \in 1..Len(s) /\ u[k] = s[k]
      BY <1>1, <2>1
    <3> QED
      BY <3>1 DEF GoesDown
  <2>2. CASE k > Len(s)
    <3>1. k - Len(s) \in 1..Len(t) /\ u[k] = t[k - Len(s)]
      BY <1>1, <2>2
    <3> QED
      BY <3>1 DEF GoesDown
  <2> QED
    BY <1>1, <2>1, <2>2
<1>3. ASSUME NEW what, NEW i, Has(s, what, i) \/ Has(t, what, i)
      PROVE  Has(u, what, i)
  BY <1>1, <1>3 DEF Has
<1> QED
  BY <1>2, <1>3 DEF u

LEMMA OneGoesDown ==
  ASSUME NEW a \in Steps(On), a.do \in Removals \cup {"kill"},
         a.do = "kill" => a.on \in Instances
  PROVE  GoesDown(<<a>>) /\ Has(<<a>>, a.do, a.on)
<1> DEFINE l == <<a>>
<1>1. l \in Seq(Steps(On)) /\ Len(l) = 1 /\ l[1] = a
  OBVIOUS
<1> HIDE DEF l
<1>2. GoesDown(l) /\ Has(l, a.do, a.on)
  BY <1>1 DEF GoesDown, Has
<1> QED
  BY <1>2 DEF l

LEMMA NoneGoesDown == GoesDown(<< >>)
BY EmptySeq DEF GoesDown

(* TearDownTestCase kills all that the statics hold, and removes dnsmasq's *)
(* configuration if it holds one, and tmp.                                 *)
LEMMA TearDownFacts ==
  ASSUME NEW statics \in SUBSET Statics
  PROVE  LET l == TearDownTestCase(statics) IN
         /\ TearsDown(l, statics, On, StaticOf)
         /\ Has(l, "remove_tmp", None)
         /\ "dnsmasq" \in statics => Has(l, "remove_cfg", None)
<1> DEFINE a == Do("disown", "dnsmasq")
           x == Mark("remove_cfg")
           b == Do("kill", Dnsmasq)
           c == Do("disown", "dbs")
           d == ForEachInstance("kill", SiteInstances)
           y == Mark("remove_site")
           z == Mark("remove_tmp")
           s == ResetDnsmasq(statics)
           t == ResetDbs(statics)
           u == TearDownTestCase(statics)
<1>1. /\ GoesDown(<<a>>) /\ GoesDown(<<x>>) /\ Has(<<x>>, "remove_cfg", None)
      /\ GoesDown(<<b>>) /\ Has(<<b>>, "kill", Dnsmasq)
      /\ GoesDown(<<c>>) /\ GoesDown(<<y>>)
      /\ GoesDown(<<z>>) /\ Has(<<z>>, "remove_tmp", None)
      /\ a \in Steps(On) /\ x \in Steps(On) /\ b \in Steps(On)
  <2>1. /\ "dbs" \in On /\ "dnsmasq" \in On /\ Dnsmasq \in On /\ None \in On
        /\ Dnsmasq \in Instances
    BY SuiteAssumption, SiteFacts DEF On
  <2>2. "disown" \in Kinds /\ "kill" \in Kinds /\ "remove_cfg" \in Kinds /\ "remove_tmp" \in Kinds
        /\ "remove_site" \in Kinds
    BY DEF Kinds, Removals
  <2>3. /\ a \in Steps(On) /\ a.do = "disown" /\ c \in Steps(On) /\ c.do = "disown"
        /\ x \in Steps(On) /\ x.do = "remove_cfg" /\ x.on = None
        /\ y \in Steps(On) /\ y.do = "remove_site"
        /\ z \in Steps(On) /\ z.do = "remove_tmp" /\ z.on = None
        /\ b \in Steps(On) /\ b.do = "kill" /\ b.on = Dnsmasq
    BY <2>1, <2>2, StepFacts DEF Do, Mark
  <2> HIDE DEF a, b, c, x, y, z
  <2>4. {"disown", "remove_cfg", "remove_site", "remove_tmp"} \subseteq Removals
    BY DEF Removals
  <2>5. \A e \in Steps(On) : e.do \in Removals \/ (e.do = "kill" /\ e.on \in Instances) =>
          GoesDown(<<e>>) /\ Has(<<e>>, e.do, e.on)
    BY OneGoesDown DEF Removals
  <2> QED
    BY <2>1, <2>3, <2>4, <2>5
<1>2. GoesDown(d) /\ \A i \in Range(SiteInstances) : Has(d, "kill", i)
  <2>1. /\ d \in Seq(Steps(On)) /\ Len(d) = Len(SiteInstances)
        /\ \A k \in 1..Len(SiteInstances) : d[k].do = "kill" /\ d[k].on = SiteInstances[k]
    BY ForEachFacts DEF Kinds
  <2> HIDE DEF d
  <2>2. GoesDown(d)
    BY <2>1, SiteFacts DEF GoesDown
  <2>3. ASSUME NEW i \in Range(SiteInstances) PROVE Has(d, "kill", i)
    <3>1. PICK k \in 1..Len(SiteInstances) : SiteInstances[k] = i
      BY SiteFacts DEF Range
    <3> QED
      BY <2>1, <3>1 DEF Has
  <2> QED
    BY <2>2, <2>3
<1>3. /\ "dnsmasq" \in statics => s = <<a, x, b>>
      /\ "dnsmasq" \notin statics => s = << >>
      /\ "dbs" \in statics => t = (<<c>> \o d) \o <<y>>
      /\ "dbs" \notin statics => t = << >>
      /\ u = (s \o t) \o <<z>>
  BY DEF ResetDnsmasq, ResetDbs, TearDownTestCase
<1> HIDE DEF a, b, c, d, x, y, z, s, t, u
<1>4. GoesDown(s) /\ ("dnsmasq" \in statics => Has(s, "kill", Dnsmasq) /\ Has(s, "remove_cfg", None))
  <2>1. GoesDown(<<a, x, b>>) /\ Has(<<a, x, b>>, "kill", Dnsmasq)
        /\ Has(<<a, x, b>>, "remove_cfg", None)
    <3> DEFINE l == <<a, x, b>>
    <3>1. l \in Seq(Steps(On)) /\ Len(l) = 3 /\ l[1] = a /\ l[2] = x /\ l[3] = b
      BY <1>1
    <3> HIDE DEF l
    <3>2. \A e : /\ Len(<<e>>) = 1 /\ <<e>>[1] = e
      OBVIOUS
    <3>3. /\ a.do \in Removals \cup {"kill"} /\ (a.do = "kill" => a.on \in Instances)
          /\ x.do = "remove_cfg" /\ x.on = None
          /\ b.do = "kill" /\ b.on = Dnsmasq /\ b.on \in Instances
      <4>1. ASSUME NEW e, GoesDown(<<e>>)
            PROVE  e.do \in Removals \cup {"kill"} /\ (e.do = "kill" => e.on \in Instances)
        BY <3>2, <4>1 DEF GoesDown
      <4>2. ASSUME NEW e, NEW what, NEW i, Has(<<e>>, what, i)
            PROVE  e.do = what /\ e.on = i
        <5> DEFINE m == <<e>>
        <5>1. Len(m) = 1 /\ m[1] = e
          BY <3>2
        <5> HIDE DEF m
        <5>2. \A k \in 1..1 : k = 1
          OBVIOUS
        <5>3. Has(m, what, i)
          BY <4>2 DEF m
        <5> QED
          BY <5>1, <5>2, <5>3 DEF Has
      <4> QED
        BY <1>1, <4>1, <4>2
    <3>4. \A k \in 1..3 : k = 1 \/ k = 2 \/ k = 3
      OBVIOUS
    <3>5. GoesDown(l)
      BY <3>1, <3>3, <3>4 DEF GoesDown, Removals
    <3>6. Has(l, "kill", Dnsmasq) /\ Has(l, "remove_cfg", None)
      <4>1. 2 \in 1..Len(l) /\ 3 \in 1..Len(l)
        BY <3>1
      <4> QED
        BY <3>1, <3>3, <4>1 DEF Has
    <3> QED
      BY <3>5, <3>6 DEF l
  <2> QED
    BY <1>3, <2>1, NoneGoesDown
<1>5. GoesDown(t) /\ ("dbs" \in statics => \A i \in Range(SiteInstances) : Has(t, "kill", i))
  <2>1. GoesDown(<<c>> \o d) /\ \A i \in Range(SiteInstances) : Has(<<c>> \o d, "kill", i)
    BY <1>1, <1>2, ConcatGoesDown
  <2>2. /\ GoesDown((<<c>> \o d) \o <<y>>)
        /\ \A i \in Range(SiteInstances) : Has((<<c>> \o d) \o <<y>>, "kill", i)
    <3> DEFINE l == <<c>> \o d
    <3> HIDE DEF l
    <3>1. GoesDown(l) /\ \A i \in Range(SiteInstances) : Has(l, "kill", i)
      BY <2>1 DEF l
    <3>2. GoesDown(l \o <<y>>) /\ \A i \in Range(SiteInstances) : Has(l \o <<y>>, "kill", i)
      BY <1>1, <3>1, ConcatGoesDown
    <3> QED
      BY <3>2 DEF l
  <2> QED
    BY <1>3, <2>2, NoneGoesDown
<1>6. /\ GoesDown(u)
      /\ \A what, i : Has(s, what, i) \/ Has(t, what, i) \/ Has(<<z>>, what, i) => Has(u, what, i)
  <2> DEFINE l == s \o t
  <2>1. GoesDown(l) /\ \A what, i : Has(s, what, i) \/ Has(t, what, i) => Has(l, what, i)
    BY <1>4, <1>5, ConcatGoesDown
  <2> HIDE DEF l
  <2>2. GoesDown(l \o <<z>>)
        /\ \A what, i : Has(l, what, i) \/ Has(<<z>>, what, i) => Has(l \o <<z>>, what, i)
    BY <1>1, <2>1, ConcatGoesDown
  <2>3. u = l \o <<z>>
    BY <1>3 DEF l
  <2> QED
    BY <2>1, <2>2, <2>3
<1>7. \A i \in Instances : StaticOf[i] \in statics => Has(u, "kill", i)
  <2>1. statics \subseteq {"dbs", "dnsmasq"}
    BY SuiteAssumption
  <2> QED
    BY <1>4, <1>5, <1>6, <2>1 DEF StaticOf
<1>8. TearsDown(u, statics, On, StaticOf)
  BY <1>6, <1>7 DEF TearsDown, GoesDown, Has, TestOnly, Removals
<1> QED
  BY <1>1, <1>4, <1>6, <1>8 DEF u

-----------------------------------------------------------------------------
(* The theorems *)

FileKinds == {"create_tmp", "new_site", "new_dnsmasq", "remove_cfg", "remove_site", "remove_tmp"}

(* A step that makes or removes files changes nothing else.                *)
LEMMA FileStepKeeps ==
  ASSUME FixtureInv(On, StaticOf), NEW h \in Roots, FileStep(h)
  PROVE  FixtureInv(On, StaticOf)' /\ UNCHANGED vars
<1> USE DEF FixtureInv
<1>1. /\ Ready(h) /\ todo[h] # << >> /\ Head(todo[h]).do \in FileKinds
      /\ UNCHANGED <<vars, phase, owned, signalled>> /\ Advance(h)
      /\ todo' = [todo EXCEPT ![h] = Tail(@)]
  BY DEF FileStep, Comes, FileKinds, Advance
<1>2. TypeOK'
  BY <1>1 DEF FixtureTypeOK, TypeOK, vars, kernelVars, memberVars, callVars
<1>3. FixtureTypeOK'
  BY <1>1, <1>2, AdvanceTypes DEF FixtureTypeOK
<1> QED
  BY <1>1, <1>3, QuietAdvance DEF FileKinds

(* A step of the suite keeps the invariant, and only a signal is not a     *)
(* step of module ProcessInstance.                                         *)
LEMMA SuiteStep ==
  ASSUME FixtureInv(On, StaticOf), [SuiteNext]_allVars
  PROVE  /\ FixtureInv(On, StaticOf)'
         /\ \/ [Next]_vars
            \/ \E h \in Roots : phase'[h] # phase[h] /\ phase'[h] \in {"handler", "nested"}
<1>1. CASE UNCHANGED allVars
  BY <1>1, StutterKeeps DEF allVars
<1>2. CASE \E h \in Roots : FixtureStep(h)
  BY <1>2, FixtureStepKeeps
<1>3. ASSUME NEW h \in Roots
      PROVE  TearsDown(TearDownTestCase(owned[h]), owned[h], On, StaticOf)
  BY TearDownFacts DEF FixtureInv, FixtureTypeOK
<1>4. ASSUME NEW h \in Roots, BeginTearDown(h, TearDownTestCase(owned[h]))
      PROVE  FixtureInv(On, StaticOf)' /\ UNCHANGED vars
  BY <1>3, <1>4, BeginTearDownKeeps DEF BeginTearDown
<1>5. ASSUME NEW h \in Roots, SignalHandler(h, TearDownTestCase(owned[h]))
      PROVE  /\ FixtureInv(On, StaticOf)'
             /\ phase'[h] # phase[h] /\ phase'[h] \in {"handler", "nested"}
  <2>1. phase'[h] # phase[h] /\ phase'[h] \in {"handler", "nested"}
    BY <1>5 DEF SignalHandler, FixtureInv, FixtureTypeOK
  <2> QED
    BY <1>3, <1>5, <2>1, SignalKeeps
<1>6. CASE \E p \in Pids : ProcessStep(p) \/ (Server(p) /\ UNCHANGED <<fixtureVars, files>>)
  BY <1>6, ProcessKeeps DEF ProcessStep, Next
<1>7. ASSUME NEW h \in Roots, FileStep(h)
      PROVE  FixtureInv(On, StaticOf)' /\ UNCHANGED vars
  BY <1>7, FileStepKeeps
<1> QED
  BY <1>1, <1>2, <1>4, <1>5, <1>6, <1>7 DEF SuiteNext, Program

SuiteInv == FixtureInv(On, StaticOf)

LEMMA SuiteInductive ==
  SuiteSpec => [](SuiteInv /\ NoOrphans /\ FixtureTypeOK)
<1>1. SuiteInit => SuiteInv
  BY InitFixture DEF SuiteInv
<1>2. SuiteInv /\ [SuiteNext]_allVars => SuiteInv'
  BY SuiteStep DEF SuiteInv
<1>3. SuiteInv => NoOrphans /\ FixtureTypeOK
  BY NothingLeft DEF SuiteInv
<1> QED
  BY <1>1, <1>2, <1>3, PTL DEF SuiteSpec

(* The variables of the fixture have their types.                          *)
THEOREM FixtureTypeCorrect == SuiteSpec => []FixtureTypeOK
  BY SuiteInductive, PTL

(* A test program that has ended, by itself or by a signal, leaves none of *)
(* its servers behind, unless the signal hit it between a fork() and the   *)
(* saving of its pid or in TearDownTestCase.                               *)
THEOREM NoServerLeftBehind == SuiteSpec => []NoOrphans
  BY SuiteInductive, PTL

(* The tests call start_instance on an instance that is not running only,  *)
(* and all they do but for a signal is what ProcessInstance allows.        *)
THEOREM ProcessInstanceUsed == SuiteSpec => UsesProcessInstance
<1>1. SuiteInit => Init
  BY DEF SuiteInit, FixtureInit
<1>2. SuiteInv /\ [SuiteNext]_allVars =>
        [Next \/ \E h \in Roots : /\ phase'[h] # phase[h]
                                  /\ phase'[h] \in {"handler", "nested"}]_vars
  BY SuiteStep DEF SuiteInv
<1> QED
  BY <1>1, <1>2, SuiteInductive, PTL DEF SuiteSpec, UsesProcessInstance

-----------------------------------------------------------------------------
(* Each test begins and ends with every instance started *)

Servers == Range(SiteInstances) \cup {Dnsmasq}

Changes(step, i) == step.do \in {"start", "kill", "restart"} /\ step.on = i

(* The list l waits for i before its step k, looks at the result, and then *)
(* leaves i alone.                                                         *)
WaitedFor(l, k, i) ==
  \E j \in 1..(k - 1) :
    /\ l[j].do = "wait" /\ l[j].on = i
    /\ \/ l[j].judge = "test"
       \/ /\ l[j].judge = "site"
          /\ \E r \in (j + 1)..(k - 1) :
               /\ l[r].do = "return_unless_ok"
               /\ \A q \in (j + 1)..(r - 1) : l[q].do # "wait_for_instances"
    /\ \A q \in (j + 1)..(k - 1) : ~Changes(l[q], i)

(* At step k of the list of h, instance i will be running, or the wait for *)
(* it that is in progress or just ended will have failed the test.         *)
IsUp(h, k, i) ==
  /\ \A q \in 1..(k - 1) : ~Changes(todo[h][q], i)
  /\ \/ running[h][i] /\ ~(pc[h] \in Waiting /\ arg[h] = i)
     \/ pc[h] = "connect" /\ arg[h] = i /\ judge[h] = "test"
     \/ /\ \/ ~siteOk[h]
           \/ judge[h] = "site" /\ pc[h] = "idle" /\ ~result[h]
           \/ judge[h] = "site" /\ pc[h] = "connect" /\ arg[h] = i
        /\ \E r \in 1..(k - 1) :
             /\ todo[h][r].do = "return_unless_ok"
             /\ \A q \in 1..(r - 1) : todo[h][q].do # "wait_for_instances"

HasFailed(h) == failed[h] \/ (pc[h] = "idle" /\ judge[h] = "test" /\ ~result[h])

UpInv(h) ==
  phase[h] = "tests" =>
    \/ HasFailed(h)
    \/ \A k \in 1..Len(todo[h]) : todo[h][k].do \in {"body", "done"} =>
         \A i \in Servers : WaitedFor(todo[h], k, i) \/ IsUp(h, k, i)

(* What a step does to a call in progress: a wait that has connected found *)
(* the instance running, and otherwise returns false.                      *)
CallGoesOn(h) ==
  /\ \A i \in Instances : running[h][i] /\ ~(pc[h] \in Waiting /\ arg[h] = i) =>
       running'[h][i] /\ ~(pc'[h] \in Waiting /\ arg'[h] = i)
  /\ pc[h] = "connect" =>
       \/ pc'[h] = "connect" /\ arg'[h] = arg[h]
       \/ pc'[h] = "idle" /\ ~result'[h]
       \/ pc'[h] = "idle" /\ running'[h][arg[h]]
  /\ pc[h] = "idle" => pc'[h] = "idle" /\ result'[h] = result[h]

LEMMA CallKeepsUp ==
  ASSUME NEW h \in Roots, UpInv(h), CallGoesOn(h), Servers \subseteq Instances,
         phase'[h] = phase[h], todo'[h] = todo[h],
         judge'[h] = judge[h], siteOk'[h] = siteOk[h], failed'[h] = failed[h]
  PROVE  UpInv(h)'
<1> SUFFICES ASSUME phase[h] = "tests", ~HasFailed(h)',
                    NEW k \in 1..Len(todo[h]), todo[h][k].do \in {"body", "done"},
                    NEW i \in Servers
             PROVE  (WaitedFor(todo[h], k, i) \/ IsUp(h, k, i))'
  BY DEF UpInv
<1>1. ~HasFailed(h)
  BY DEF HasFailed, CallGoesOn
<1>2. CASE WaitedFor(todo[h], k, i)
  BY <1>2 DEF WaitedFor
<1>3. CASE IsUp(h, k, i)
  <2>1. CASE pc[h] = "connect" /\ arg[h] = i /\ judge[h] = "test"
    <3>1. \/ pc'[h] = "connect" /\ arg'[h] = i /\ judge'[h] = "test"
          \/ pc'[h] = "idle" /\ running'[h][i]
      BY <2>1 DEF CallGoesOn, HasFailed
    <3> QED
      BY <1>3, <3>1 DEF IsUp, Waiting
  <2>2. CASE running[h][i] /\ ~(pc[h] \in Waiting /\ arg[h] = i)
    BY <1>3, <2>2 DEF IsUp, CallGoesOn
  <2>3. CASE /\ \/ ~siteOk[h]
                \/ judge[h] = "site" /\ pc[h] = "idle" /\ ~result[h]
                \/ judge[h] = "site" /\ pc[h] = "connect" /\ arg[h] = i
             /\ \E r \in 1..(k - 1) :
                  /\ todo[h][r].do = "return_unless_ok"
                  /\ \A q \in 1..(r - 1) : todo[h][q].do # "wait_for_instances"
    <3>1. \/ ~siteOk'[h]
          \/ judge'[h] = "site" /\ pc'[h] = "idle" /\ ~result'[h]
          \/ judge'[h] = "site" /\ pc'[h] = "connect" /\ arg'[h] = i
          \/ pc'[h] = "idle" /\ running'[h][i]
      BY <2>3 DEF CallGoesOn
    <3> QED
      BY <1>3, <2>3, <3>1 DEF IsUp, Waiting
  <2> QED
    BY <1>3, <2>1, <2>2, <2>3 DEF IsUp
<1> QED
  BY <1>1, <1>2, <1>3 DEF UpInv

(* The head of the list of h is taken, and its call begins.                *)
HeadTaken(h) ==
  LET s == todo[h][1] IN
  /\ pc[h] = "idle" /\ Shorter(h)
  /\ failed'[h] = Failed(h)
  /\ s.do # "wait_for_instances" => siteOk'[h] = SiteOk(h)
  /\ s.do = "return_unless_ok" => SiteOk(h)
  /\ running'[h] = running[h]
  /\ pc'[h] \in Waiting => Changes(s, arg'[h])
  /\ s.do = "wait" =>
       /\ judge'[h] = s.judge
       /\ \/ pc'[h] = "connect" /\ arg'[h] = s.on
          \/ pc'[h] = "idle" /\ ~result'[h]

LEMMA HeadTakenKeepsUp ==
  ASSUME NEW h \in Roots, UpInv(h), HeadTaken(h), phase'[h] = phase[h]
  PROVE  UpInv(h)'
<1> SUFFICES ASSUME phase[h] = "tests", ~HasFailed(h)',
                    NEW k \in 1..Len(todo'[h]), todo'[h][k].do \in {"body", "done"},
                    NEW i \in Servers
             PROVE  (WaitedFor(todo[h], k, i) \/ IsUp(h, k, i))'
  BY DEF UpInv
<1> DEFINE l == todo[h]
           m == todo'[h]
<1>1. ~HasFailed(h)
  BY DEF HasFailed, HeadTaken, Failed
<1>2. /\ k \in Nat /\ k >= 1 /\ k + 1 \in 1..Len(l) /\ m[k] = l[k + 1]
      /\ \A q \in 1..k : m[q] = l[q + 1]
  BY DEF HeadTaken, Shorter
<1>3. WaitedFor(l, k + 1, i) \/ IsUp(h, k + 1, i)
  BY <1>1, <1>2 DEF UpInv
<1>4. ASSUME WaitedFor(l, k + 1, i)
      PROVE  WaitedFor(m, k, i) \/ IsUp(h, k, i)'
  <2>1. PICK j \in 1..k :
          /\ l[j].do = "wait" /\ l[j].on = i
          /\ \/ l[j].judge = "test"
             \/ /\ l[j].judge = "site"
                /\ \E r \in (j + 1)..k :
                     /\ l[r].do = "return_unless_ok"
                     /\ \A q \in (j + 1)..(r - 1) : l[q].do # "wait_for_instances"
          /\ \A q \in (j + 1)..k : ~Changes(l[q], i)
    <3>1. (k + 1) - 1 = k
      BY <1>2
    <3> QED
      BY <1>4, <3>1 DEF WaitedFor
  <2>2. \A q \in j..(k - 1) : ~Changes(m[q], i)
    <3>1. \A q \in j..(k - 1) : m[q] = l[q + 1] /\ q + 1 \in (j + 1)..k
      BY <1>2
    <3> QED
      BY <2>1, <3>1
  <2>3. l[j].judge = "site" =>
          \E r \in j..(k - 1) :
            /\ m[r].do = "return_unless_ok"
            /\ \A q \in j..(r - 1) : m[q].do # "wait_for_instances"
    <3> SUFFICES ASSUME l[j].judge = "site"
                 PROVE  \E r \in j..(k - 1) :
                          /\ m[r].do = "return_unless_ok"
                          /\ \A q \in j..(r - 1) : m[q].do # "wait_for_instances"
      OBVIOUS
    <3>1. PICK r \in (j + 1)..k :
            /\ l[r].do = "return_unless_ok"
            /\ \A q \in (j + 1)..(r - 1) : l[q].do # "wait_for_instances"
      BY <2>1
    <3>2. r - 1 \in j..(k - 1) /\ m[r - 1] = l[r]
      BY <1>2, <3>1
    <3>3. \A q \in j..((r - 1) - 1) : m[q] = l[q + 1] /\ q + 1 \in (j + 1)..(r - 1)
      BY <1>2, <3>1
    <3> QED
      BY <3>1, <3>2, <3>3
  <2>4. CASE j > 1
    <3>1. j - 1 \in 1..(k - 1) /\ m[j - 1] = l[j] /\ (j - 1) + 1 = j
      <4>1. j - 1 \in 1..(k - 1) /\ j - 1 \in 1..k /\ (j - 1) + 1 = j
        BY <1>2, <2>4
      <4> QED
        BY <1>2, <4>1
    <3> QED
      BY <2>1, <2>2, <2>3, <3>1 DEF WaitedFor
  <2>5. CASE j = 1
    <3>1. /\ \A q \in 1..(k - 1) : ~Changes(m[q], i)
          /\ l[1].do = "wait" /\ l[1].on = i
          /\ \/ l[1].judge = "test"
             \/ /\ l[1].judge = "site"
                /\ \E r \in 1..(k - 1) :
                     /\ m[r].do = "return_unless_ok"
                     /\ \A q \in 1..(r - 1) : m[q].do # "wait_for_instances"
      BY <2>1, <2>2, <2>3, <2>5
    <3>2. /\ judge'[h] = l[1].judge
          /\ \/ pc'[h] = "connect" /\ arg'[h] = i
             \/ pc'[h] = "idle" /\ ~result'[h]
      BY <3>1 DEF HeadTaken
    <3> QED
      BY <3>1, <3>2 DEF IsUp, HasFailed
  <2> QED
    BY <1>2, <2>4, <2>5
<1>5. ASSUME IsUp(h, k + 1, i)
      PROVE  IsUp(h, k, i)'
  <2>1. /\ \A q \in 1..k : ~Changes(l[q], i)
        /\ \A q \in 1..(k - 1) : ~Changes(m[q], i)
        /\ 1 \in 1..k
    BY <1>2, <1>5 DEF IsUp
  <2>2. CASE running[h][i]
    BY <2>1, <2>2 DEF HeadTaken, IsUp
  <2>3. CASE ~running[h][i]
    <3>1. PICK r \in 1..k : /\ l[r].do = "return_unless_ok"
                            /\ \A q \in 1..(r - 1) : l[q].do # "wait_for_instances"
      BY <1>2, <1>5, <2>3 DEF IsUp, HeadTaken
    <3>2. ~SiteOk(h)
      BY <1>5, <2>3 DEF IsUp, HeadTaken, SiteOk
    <3>3. r > 1 /\ l[1].do # "wait_for_instances" /\ ~siteOk'[h]
      BY <3>1, <3>2 DEF HeadTaken
    <3>4. r - 1 \in 1..(k - 1) /\ m[r - 1] = l[r]
          /\ \A q \in 1..((r - 1) - 1) : m[q] = l[q + 1] /\ q + 1 \in 1..(r - 1)
      BY <1>2, <3>1, <3>3
    <3> QED
      BY <2>1, <3>1, <3>3, <3>4 DEF IsUp
  <2> QED
    BY <2>2, <2>3
<1> QED
  BY <1>3, <1>4, <1>5

LEMMA UntouchedGoesOn ==
  ASSUME NEW h \in Roots, Untouched(h)
  PROVE  CallGoesOn(h)
BY DEF Untouched, CallGoesOn

(* A wait_for_instance only connects to the process of its own instance,   *)
(* as there is one program.                                                *)
LEMMA OwnCallGoesOn ==
  ASSUME IInv, SoleProgram, NEW h \in Roots, Roots = {h}, NoneLost(h), Step(h)
  PROVE  CallGoesOn(h)
<1> USE ProcessAssumption DEF IInv, TypeOK
<1>1. /\ h \in Pids /\ status[h] = "program" /\ pc[h] # "exec"
      /\ pc[h] # "idle" => arg[h] \in Instances
  <2>1. status[h] = "program"
    BY DEF Step, Proceed, Fork, ForkFails, SaveOffPid, Exec, ExecFails, Reap, WaitNoChild,
       ConnectSucceeds, ConnectRefused, CallOff, At
  <2> QED
    BY <2>1 DEF RootInv, CallInv
<1>2. ~WaitNoChild(h)
  BY <1>1 DEF WaitNoChild, NoChild, CallInv, Waiting, SignalsOwnChildren
<1>3. CASE Fork(h)
  <2>1. PICK c \in Pids :
          /\ status[c] = "unused" /\ pc[h] = "fork"
          /\ running' = [running EXCEPT ![c] = running[h]]
          /\ pc' = [pc EXCEPT ![h] = "forked", ![c] = "exec"]
    BY <1>3 DEF Fork, At
  <2>2. c # h
    BY <1>1, <2>1
  <2> QED
    BY <1>1, <2>1, <2>2 DEF CallGoesOn, Waiting
<1>4. CASE ForkFails(h)
  BY <1>1, <1>4 DEF ForkFails, At, Return, memberVars, CallGoesOn, Waiting
<1>5. CASE SaveOffPid(h)
  <2>1. /\ pc[h] = "forked" /\ pc' = [pc EXCEPT ![h] = "idle"]
        /\ running' = [running EXCEPT ![h][arg[h]] = TRUE]
    BY <1>5 DEF SaveOffPid, At, Return
  <2> QED
    BY <1>1, <2>1 DEF CallGoesOn, Waiting
<1>6. CASE Reap(h)
  <2>1. /\ pc[h] \in Waiting /\ arg' = arg
        /\ pc'[h] \notin Waiting
        /\ running' = [running EXCEPT ![h][arg[h]] = FALSE]
    BY <1>1, <1>6 DEF Reap, AfterWait, Waiting
  <2> QED
    BY <1>1, <2>1 DEF CallGoesOn, Waiting
<1>7. CASE ConnectSucceeds(h)
  <2> DEFINE p == listener[arg[h]]
  <2>1. pc[h] = "connect" /\ p # None /\ running' = running /\ pc'[h] = "idle"
    BY <1>1, <1>7 DEF ConnectSucceeds, At, Return, memberVars
  <2>2. p \in Pids /\ status[p] = "server" /\ role[p] = arg[h] /\ parent[p] = h
    BY <1>1, <2>1 DEF SoleProgram
  <2>3. running[h][arg[h]]
    BY <1>1, <2>1, <2>2 DEF NoneLost, Exists
  <2> QED
    BY <2>1, <2>3 DEF CallGoesOn, Waiting
<1>8. CASE ConnectRefused(h) \/ CallOff(h)
  BY <1>1, <1>8 DEF ConnectRefused, CallOff, At, Return, memberVars, CallGoesOn, Waiting
<1>9. ~Exec(h) /\ ~ExecFails(h)
  BY <1>1 DEF Exec, ExecFails, At
<1> QED
  BY <1>2, <1>3, <1>4, <1>5, <1>6, <1>7, <1>8, <1>9 DEF Step, Proceed

(* A step of a call or of a server.                                        *)
LEMMA ProcessKeepsUp ==
  ASSUME SuiteInv, NEW h \in Roots, Roots = {h}, UpInv(h),
         NEW p \in Pids, Step(p) \/ Server(p), UNCHANGED fixtureVars
  PROVE  UpInv(h)'
<1>1. Servers \subseteq Instances
  BY SiteFacts DEF Servers, Range
<1>2. IInv /\ SoleProgram /\ (phase[h] = "tests" => NoneLost(h))
  BY DEF SuiteInv, FixtureInv, ProgramInv, ServersInv, LeftBehind
<1>3. phase[h] = "tests" => CallGoesOn(h)
  BY <1>2, OwnCallGoesOn, OthersLeaveAlone, UntouchedGoesOn
<1>4. CASE phase[h] = "tests"
  BY <1>1, <1>3, <1>4, CallKeepsUp DEF fixtureVars, judgeVars
<1> QED
  BY <1>4 DEF fixtureVars, UpInv

(* A step of the program's own.                                            *)
LEMMA FixtureStepKeepsUp ==
  ASSUME SuiteInv, NEW h \in Roots, UpInv(h), FixtureStep(h)
  PROVE  UpInv(h)'
<1>1. FixtureTypeOK /\ todo[h] \in Seq(Steps(On)) /\ h \in Pids
  BY ProcessAssumption DEF SuiteInv, FixtureInv
<1>2. phase' = phase
  BY FixtureStepKeeps DEF SuiteInv
<1>3. ASSUME todo[h] # << >>, Ready(h), todo' = [todo EXCEPT ![h] = Tail(@)]
      PROVE  Head(todo[h]) = todo[h][1] /\ pc[h] = "idle" /\ Shorter(h)
  <2>1. todo'[h] = Tail(todo[h])
    BY <1>3 DEF SuiteInv, FixtureInv
  <2>2. /\ Head(todo[h]) = todo[h][1] /\ Len(todo[h]) \in Nat \ {0}
        /\ Len(Tail(todo[h])) = Len(todo[h]) - 1
        /\ \A k \in 1..(Len(todo[h]) - 1) : Tail(todo[h])[k] = todo[h][k + 1]
    BY <1>1, <1>3, TailFacts
  <2>3. /\ Len(todo'[h]) = Len(todo[h]) - 1 /\ Len(todo[h]) \in Nat \ {0}
        /\ \A k \in 1..(Len(todo[h]) - 1) : todo'[h][k] = todo[h][k + 1]
    BY <2>1, <2>2
  <2>4. Shorter(h)
    BY <2>3 DEF Shorter
  <2> QED
    BY <1>3, <2>2, <2>4 DEF Ready
<1>4. ASSUME Advance(h)
      PROVE  /\ todo' = [todo EXCEPT ![h] = Tail(@)]
             /\ judge'[h] = Head(todo[h]).judge
             /\ failed'[h] = Failed(h) /\ siteOk'[h] = SiteOk(h)
  <2>1. /\ todo' = [todo EXCEPT ![h] = Tail(@)]
        /\ judge'  = [judge EXCEPT ![h] = Head(todo[h]).judge]
        /\ failed' = [failed EXCEPT ![h] = Failed(h)]
        /\ siteOk' = [siteOk EXCEPT ![h] = SiteOk(h)]
    BY <1>4 DEF Advance
  <2> QED
    BY <1>1, <2>1 DEF FixtureTypeOK
<1>5. CASE MakeCall(h)
  <2>1. Advance(h) /\ todo[h] # << >> /\ Ready(h)
    BY <1>5 DEF MakeCall, Comes
  <2> DEFINE s == todo[h][1]
  <2>2. /\ Head(todo[h]) = s /\ pc[h] = "idle" /\ Shorter(h)
        /\ judge'[h] = s.judge /\ failed'[h] = Failed(h) /\ siteOk'[h] = SiteOk(h)
    BY <1>3, <1>4, <2>1
  <2> HIDE DEF s
  <2>3. /\ s.do \in {"start", "kill", "restart", "wait"}
        /\ running' = running
        /\ pc'[h] \in Waiting => Changes(s, arg'[h])
        /\ s.do = "wait" => \/ pc'[h] = "connect" /\ arg'[h] = s.on
                            \/ pc'[h] = "idle" /\ ~result'[h]
    <3>1. pc \in [Pids -> Calls] /\ arg \in [Pids -> Instances \cup {None}]
          /\ result \in [Pids -> BOOLEAN]
      BY <1>1 DEF FixtureTypeOK, TypeOK
    <3>2. CASE s.do = "start" /\ Start(h, s.on)
      BY <1>1, <3>1, <3>2 DEF Start, memberVars, Waiting
    <3>3. CASE s.do = "kill" /\ Kill(h, s.on)
      BY <1>1, <3>1, <3>3 DEF Kill, KillNotRunning, KillNoProcess, SendSigterm, Return, memberVars,
         Waiting, Changes
    <3>4. CASE s.do = "restart" /\ Restart(h, s.on)
      BY <1>1, <3>1, <3>4 DEF Restart, Start, KillNoProcess, SendSigterm, Return, memberVars,
         Waiting, Changes
    <3>5. CASE s.do = "wait" /\ (WaitFor(h, s.on) \/ SocketFails(h))
      BY <1>1, <3>1, <3>5 DEF WaitFor, SocketFails, Return, memberVars, Waiting
    <3> QED
      BY <1>5, <2>2, <3>2, <3>3, <3>4, <3>5 DEF MakeCall, Comes
  <2>4. HeadTaken(h)
    BY <2>2, <2>3 DEF HeadTaken, s
  <2> QED
    BY <1>2, <2>4, HeadTakenKeepsUp
<1>6. CASE BeginWait(h) \/ SiteIsUp(h) \/ TestBoundary(h)
           \/ \E static \in Statics : Own(h, static) \/ Disown(h, static)
  <2> DEFINE s == todo[h][1]
  <2>1. /\ todo[h] # << >> /\ Ready(h) /\ UNCHANGED vars
        /\ todo' = [todo EXCEPT ![h] = Tail(@)]
        /\ failed'[h] = Failed(h)
        /\ Head(todo[h]).do # "wait"
        /\ Head(todo[h]).do # "wait_for_instances" => siteOk'[h] = SiteOk(h)
        /\ Head(todo[h]).do = "return_unless_ok" => SiteOk(h)
    BY <1>1, <1>4, <1>6 DEF BeginWait, SiteIsUp, TestBoundary, Own, Disown, Comes, FixtureTypeOK
  <2>2. Head(todo[h]) = s /\ pc[h] = "idle" /\ Shorter(h)
    BY <1>3, <2>1
  <2>3. HeadTaken(h)
    BY <2>1, <2>2 DEF HeadTaken, vars, memberVars, callVars, Waiting
  <2> QED
    BY <1>2, <2>3, HeadTakenKeepsUp
<1>7. CASE SiteNotUp(h)
  BY <1>1, <1>7 DEF SiteNotUp, UpInv, HasFailed, FixtureTypeOK
<1>8. CASE Finish(h)
  <2>1. Len(todo[h]) = 0
    BY <1>8 DEF Finish
  <2>2. phase[h] # "tests"
    BY <2>1 DEF SuiteInv, FixtureInv, ProgramInv, OwnedInv
  <2> QED
    BY <1>2, <2>2 DEF UpInv
<1> QED
  BY <1>5, <1>6, <1>7, <1>8 DEF FixtureStep

LEMMA FileStepKeepsUp ==
  ASSUME SuiteInv, NEW h \in Roots, UpInv(h), NEW g \in Roots, FileStep(g), Roots = {h}
  PROVE  UpInv(h)'
<1>1. /\ Ready(h) /\ todo[h] # << >> /\ Head(todo[h]).do \in FileKinds
      /\ UNCHANGED <<vars, phase>> /\ Advance(h)
  BY DEF FileStep, Comes, FileKinds
<1>2. FixtureTypeOK /\ todo \in [Roots -> Seq(Steps(On))]
  BY DEF SuiteInv, FixtureInv
<1>3. todo'[h] = Tail(todo[h]) /\ failed'[h] = Failed(h) /\ siteOk'[h] = SiteOk(h)
  BY <1>1, <1>2 DEF Advance, FixtureTypeOK
<1>4. Shorter(h) /\ todo[h][1] = Head(todo[h])
  BY <1>1, <1>2, <1>3, TailFacts DEF Shorter
<1>5. HeadTaken(h)
  BY <1>1, <1>3, <1>4 DEF HeadTaken, Ready, FileKinds, vars, memberVars, callVars, Waiting
<1> QED
  BY <1>1, <1>5, HeadTakenKeepsUp

LEMMA SuiteKeepsUp ==
  ASSUME SuiteInv, [SuiteNext]_allVars, NEW h \in Roots, Roots = {h}, UpInv(h)
  PROVE  UpInv(h)'
<1>1. CASE UNCHANGED allVars
  <2>1. UNCHANGED <<todo, phase, judge, siteOk, failed>> /\ Untouched(h)
    BY <1>1 DEF allVars, vars, memberVars, callVars, fixtureVars, judgeVars, Untouched
  <2>2. Servers \subseteq Instances
    BY SiteFacts DEF Servers, Range
  <2> QED
    BY <2>1, <2>2, CallKeepsUp, UntouchedGoesOn
<1>2. CASE BeginTearDown(h, TearDownTestCase(owned[h]))
           \/ SignalHandler(h, TearDownTestCase(owned[h]))
  <2>1. phase \in [Roots -> Phases]
    BY DEF SuiteInv, FixtureInv, FixtureTypeOK
  <2> QED
    BY <1>2, <2>1 DEF BeginTearDown, SignalHandler, UpInv
<1> QED
  BY <1>1, <1>2, FixtureStepKeepsUp, FileStepKeepsUp, ProcessKeepsUp DEF SuiteNext, Program,
     ProcessStep

LEMMA UpAtBoundaries ==
  ASSUME SuiteInv, NEW h \in Roots, Roots = {h}, UpInv(h)
  PROVE  TestsLeaveAllStarted
<1> SUFFICES ASSUME Comes(h, "body") \/ Comes(h, "done"), ~Failed(h), NEW i \in Servers
             PROVE  running[h][i]
  BY DEF TestsLeaveAllStarted, Servers
<1>1. /\ todo[h] \in Seq(Steps(On)) /\ todo[h] # << >> /\ pc[h] = "idle"
      /\ 1 \in 1..Len(todo[h]) /\ todo[h][1].do \in {"body", "done"}
  BY HeadFacts DEF Comes, Ready, SuiteInv, FixtureInv
<1>2. phase[h] = "tests"
  BY <1>1 DEF SuiteInv, FixtureInv, ProgramInv, KillsInv, TestOnly
<1>3. ~HasFailed(h)
  BY DEF HasFailed, Failed
<1>4. WaitedFor(todo[h], 1, i) \/ IsUp(h, 1, i)
  BY <1>1, <1>2, <1>3 DEF UpInv
<1>5. 1..(1 - 1) = {}
  OBVIOUS
<1> QED
  BY <1>1, <1>4, <1>5 DEF WaitedFor, IsUp

(* The lists: each test waits for every instance before its body, and once *)
(* more for the one it has broken and mended before it is done.            *)
AllWaited(l) ==
  \A k \in 1..Len(l) : l[k].do \in {"body", "done"} =>
    \A i \in Servers : WaitedFor(l, k, i)

NoBoundary(l) == \A k \in 1..Len(l) : l[k].do \notin {"body", "done"}

LEMMA WaitedShifted ==
  ASSUME NEW l, NEW m, NEW d \in Nat, NEW k \in Nat, NEW i,
         \A q \in 1..(k - 1) : m[d + q] = l[q],
         WaitedFor(l, k, i)
  PROVE  WaitedFor(m, d + k, i)
<1>1. PICK j \in 1..(k - 1) :
        /\ l[j].do = "wait" /\ l[j].on = i
        /\ \/ l[j].judge = "test"
           \/ /\ l[j].judge = "site"
              /\ \E r \in (j + 1)..(k - 1) :
                   /\ l[r].do = "return_unless_ok"
                   /\ \A q \in (j + 1)..(r - 1) : l[q].do # "wait_for_instances"
        /\ \A q \in (j + 1)..(k - 1) : ~Changes(l[q], i)
  BY DEF WaitedFor
<1>2. \A q \in (d + j + 1)..(d + k - 1) :
        q - d \in (j + 1)..(k - 1) /\ q - d \in 1..(k - 1) /\ d + (q - d) = q
  OBVIOUS
<1>3. \A q \in (d + j + 1)..(d + k - 1) : m[q] = l[q - d]
  BY <1>2
<1>4. d + j \in 1..(d + k - 1) /\ m[d + j] = l[j]
  OBVIOUS
<1>5. \A q \in (d + j + 1)..(d + k - 1) : ~Changes(m[q], i)
  BY <1>1, <1>2, <1>3
<1>6. ASSUME l[j].judge = "site"
      PROVE  \E r \in (d + j + 1)..(d + k - 1) :
               /\ m[r].do = "return_unless_ok"
               /\ \A q \in (d + j + 1)..(r - 1) : m[q].do # "wait_for_instances"
  <2>1. PICK r \in (j + 1)..(k - 1) :
          /\ l[r].do = "return_unless_ok"
          /\ \A q \in (j + 1)..(r - 1) : l[q].do # "wait_for_instances"
    BY <1>1, <1>6
  <2>2. d + r \in (d + j + 1)..(d + k - 1) /\ m[d + r] = l[r]
    OBVIOUS
  <2>3. \A q \in (d + j + 1)..((d + r) - 1) : m[q] = l[q - d] /\ q - d \in (j + 1)..(r - 1)
    BY <1>3
  <2> QED
    BY <2>1, <2>2, <2>3
<1> QED
  BY <1>1, <1>4, <1>5, <1>6 DEF WaitedFor

LEMMA WaitedStays ==
  ASSUME NEW l, NEW k \in Nat, NEW n \in Nat, k <= n, NEW i,
         WaitedFor(l, k, i), \A q \in k..(n - 1) : ~Changes(l[q], i)
  PROVE  WaitedFor(l, n, i)
<1>1. PICK j \in 1..(k - 1) :
        /\ l[j].do = "wait" /\ l[j].on = i
        /\ \/ l[j].judge = "test"
           \/ /\ l[j].judge = "site"
              /\ \E r \in (j + 1)..(k - 1) :
                   /\ l[r].do = "return_unless_ok"
                   /\ \A q \in (j + 1)..(r - 1) : l[q].do # "wait_for_instances"
        /\ \A q \in (j + 1)..(k - 1) : ~Changes(l[q], i)
  BY DEF WaitedFor
<1>2. /\ j \in 1..(n - 1)
      /\ \A r \in (j + 1)..(k - 1) : r \in (j + 1)..(n - 1)
      /\ \A q \in (j + 1)..(n - 1) : q \in (j + 1)..(k - 1) \/ q \in k..(n - 1)
  OBVIOUS
<1> QED
  BY <1>1, <1>2 DEF WaitedFor

LEMMA AllWaitedConcat ==
  ASSUME NEW S, NEW s \in Seq(S), NEW t \in Seq(S), AllWaited(s), AllWaited(t)
  PROVE  AllWaited(s \o t)
<1> DEFINE u == s \o t
<1>1. /\ Len(s) \in Nat /\ Len(t) \in Nat /\ Len(u) = Len(s) + Len(t)
      /\ \A k \in 1..Len(s) : u[k] = s[k]
      /\ \A k \in 1..Len(t) : u[Len(s) + k] = t[k]
      /\ \A k \in 1..Len(u) : k > Len(s) => k - Len(s) \in 1..Len(t) /\ u[k] = t[k - Len(s)]
  BY Joined
<1> HIDE DEF u
<1>2. ASSUME NEW k \in 1..Len(u), u[k].do \in {"body", "done"}, NEW i \in Servers
      PROVE  WaitedFor(u, k, i)
  <2>1. CASE k <= Len(s)
    <3>1. k \in 1..Len(s) /\ WaitedFor(s, k, i)
      BY <1>1, <1>2, <2>1 DEF AllWaited
    <3>2. \A q \in 1..(k - 1) : u[0 + q] = s[q]
      BY <1>1, <3>1
    <3>3. 0 \in Nat /\ k \in Nat /\ 0 + k = k
      BY <1>1
    <3>4. WaitedFor(u, 0 + k, i)
      BY <3>1, <3>2, <3>3, WaitedShifted
    <3> QED
      BY <3>3, <3>4
  <2>2. CASE k > Len(s)
    <3> DEFINE j == k - Len(s)
    <3>1. j \in 1..Len(t) /\ u[k] = t[j]
      BY <1>1, <2>2
    <3>2. WaitedFor(t, j, i)
      BY <1>2, <3>1 DEF AllWaited
    <3>3. \A q \in 1..(j - 1) : u[Len(s) + q] = t[q]
      BY <1>1, <3>1
    <3>4. Len(s) + j = k /\ j \in Nat
      BY <1>1, <3>1
    <3> HIDE DEF j
    <3>5. WaitedFor(u, Len(s) + j, i)
      BY <1>1, <3>2, <3>3, <3>4, WaitedShifted
    <3> QED
      BY <3>4, <3>5
  <2> QED
    BY <1>1, <2>1, <2>2
<1>3. AllWaited(u)
  BY <1>2 DEF AllWaited
<1> QED
  BY <1>3 DEF u

LEMMA AllWaitedRepeat ==
  ASSUME NEW S, NEW t \in Seq(S), AllWaited(t), NEW n \in Nat
  PROVE  AllWaited(Repeat(n, t))
<1> DEFINE m == Len(t)
           u == Repeat(n, t)
<1>1. /\ Len(u) = n * m /\ n * m \in Nat
      /\ \A k \in 1..(n * m) : /\ m \in Nat \ {0}
                               /\ ((k - 1) % m) + 1 \in 1..m
                               /\ u[k] = t[((k - 1) % m) + 1]
  BY RepeatFacts, LenProperties
<1> HIDE DEF u, m
<1>2. ASSUME NEW k \in 1..Len(u), u[k].do \in {"body", "done"}, NEW i \in Servers
      PROVE  WaitedFor(u, k, i)
  <2> DEFINE x == k - 1
             r == x % m
             d == m * (x \div m)
  <2>1. x \in Nat /\ k = x + 1 /\ m \in Nat \ {0} /\ k \in 1..(n * m)
    BY <1>1
  <2>2. u[k] = t[r + 1]
    BY <1>1, <2>1
  <2> HIDE DEF x
  <2>3. r \in 0..(m - 1) /\ (x \div m) \in Nat /\ x = d + r
    BY <2>1, Division
  <2>4. d \in Nat
    BY <2>1, <2>3
  <2>5. ASSUME NEW q \in 1..r
        PROVE  u[d + q] = t[q]
    <3>1. q - 1 \in 0..(m - 1) /\ (d + q) - 1 = d + (q - 1) /\ d + q \in 1..(n * m)
      BY <1>1, <2>1, <2>3, <2>4
    <3>2. (d + (q - 1)) % m = q - 1
      BY <2>1, <2>3, <3>1, Remainder
    <3>3. u[d + q] = t[(((d + q) - 1) % m) + 1]
      BY <1>1, <3>1
    <3> QED
      BY <3>1, <3>2, <3>3
  <2>6. WaitedFor(t, r + 1, i)
    <3>1. r + 1 \in 1..m
      BY <2>1, <2>3
    <3> QED
      BY <1>2, <2>2, <3>1 DEF AllWaited, m
  <2>7. r + 1 \in Nat /\ (r + 1) - 1 = r /\ d + (r + 1) = k
    BY <2>1, <2>3, <2>4
  <2> HIDE DEF r, d
  <2>8. WaitedFor(u, d + (r + 1), i)
    BY <2>4, <2>5, <2>6, <2>7, WaitedShifted
  <2> QED
    BY <2>7, <2>8
<1> QED
  BY <1>2 DEF AllWaited, u

(* SetUp waits for all: the instances of the site, whose results the       *)
(* fixture looks at before it goes on, and dnsmasq.                        *)
LEMMA SetUpFacts ==
  LET n == Len(SiteInstances)
      s == SetUp
  IN  /\ s \in Seq(Steps(On)) /\ Len(s) = n + 4
      /\ s[1].do = "wait_for_instances"
      /\ \A k \in 1..n : /\ s[1 + k].do = "wait" /\ s[1 + k].on = SiteInstances[k]
                         /\ s[1 + k].judge = "site"
      /\ s[n + 2].do = "return_unless_ok"
      /\ s[n + 3].do = "wait" /\ s[n + 3].on = Dnsmasq /\ s[n + 3].judge = "test"
      /\ s[n + 4].do = "body"
<1> DEFINE n == Len(SiteInstances)
           S == Steps(On)
           a == Mark("wait_for_instances")
           w == [k \in DOMAIN SiteInstances |->
                   [do |-> "wait", on |-> SiteInstances[k], judge |-> "site"]]
           b == Mark("return_unless_ok")
           c == ExpectTrue("wait", Dnsmasq)
           d == Mark("body")
           u == <<a>> \o w
           v == u \o <<b>>
           s == v \o <<c, d>>
<1>1. /\ a \in S /\ a.do = "wait_for_instances"
      /\ b \in S /\ b.do = "return_unless_ok"
      /\ c \in S /\ c.do = "wait" /\ c.on = Dnsmasq /\ c.judge = "test"
      /\ d \in S /\ d.do = "body"
  BY MarkFacts, ExpectFacts, SiteFacts DEF ExpectTrue
<1>2. /\ w \in Seq(S) /\ Len(w) = n /\ n \in Nat
      /\ \A k \in 1..n : /\ w[k].do = "wait" /\ w[k].on = SiteInstances[k]
                         /\ w[k].judge = "site"
  <2>1. w = [k \in 1..n |-> [do |-> "wait", on |-> SiteInstances[k], judge |-> "site"]]
    BY SiteFacts
  <2>2. \A k \in 1..n : [do |-> "wait", on |-> SiteInstances[k], judge |-> "site"] \in S
    BY SiteFacts, StepFacts DEF Kinds, TestOnly, On
  <2> QED
    BY <2>1, <2>2, SiteFacts
<1>3. s = SetUp
  BY DEF SetUp, WaitForSite
<1> HIDE DEF a, b, c, d, w, n, S
<1>4. /\ <<a>> \in Seq(S) /\ Len(<<a>>) = 1 /\ <<a>>[1] = a
      /\ <<b>> \in Seq(S) /\ Len(<<b>>) = 1 /\ <<b>>[1] = b
      /\ <<c, d>> \in Seq(S) /\ Len(<<c, d>>) = 2 /\ <<c, d>>[1] = c /\ <<c, d>>[2] = d
  BY <1>1
<1> DEFINE x == <<a>>
           y == <<b>>
           z == <<c, d>>
<1> HIDE DEF x, y, z
<1>5. /\ x \in Seq(S) /\ Len(x) = 1 /\ x[1] = a
      /\ y \in Seq(S) /\ Len(y) = 1 /\ y[1] = b
      /\ z \in Seq(S) /\ Len(z) = 2 /\ z[1] = c /\ z[2] = d
  BY <1>4 DEF x, y, z
<1>6. /\ u \in Seq(S) /\ Len(u) = n + 1
      /\ u[1] = a /\ \A k \in 1..n : u[1 + k] = w[k]
  <2> DEFINE t == x \o w
  <2>1. /\ t \in Seq(S) /\ Len(t) = Len(x) + Len(w)
        /\ \A k \in 1..Len(x) : t[k] = x[k]
        /\ \A k \in 1..Len(w) : t[Len(x) + k] = w[k]
    <3>1. x \in Seq(S) /\ w \in Seq(S)
      BY <1>2, <1>5
    <3> QED
      BY <3>1, Joined
  <2>2. t = u
    BY DEF x
  <2> HIDE DEF t, u
  <2> QED
    BY <1>2, <1>5, <2>1, <2>2
<1> HIDE DEF u
<1>7. /\ v \in Seq(S) /\ Len(v) = n + 2
      /\ \A k \in 1..(n + 1) : v[k] = u[k]
      /\ v[n + 2] = b
  <2> DEFINE t == u \o y
  <2>1. /\ t \in Seq(S) /\ Len(t) = Len(u) + Len(y)
        /\ \A k \in 1..Len(u) : t[k] = u[k]
        /\ \A k \in 1..Len(y) : t[Len(u) + k] = y[k]
    <3>1. u \in Seq(S) /\ y \in Seq(S)
      BY <1>5, <1>6
    <3> QED
      BY <3>1, Joined
  <2>2. t = v
    BY DEF y
  <2>3. (n + 1) + 1 = n + 2 /\ 1 \in 1..1
    BY <1>2
  <2> HIDE DEF t, v
  <2> QED
    BY <1>2, <1>5, <1>6, <2>1, <2>2, <2>3
<1> HIDE DEF v
<1>8. /\ s \in Seq(S) /\ Len(s) = n + 4
      /\ \A k \in 1..(n + 2) : s[k] = v[k]
      /\ s[n + 3] = c /\ s[n + 4] = d
  <2> DEFINE t == v \o z
  <2>1. /\ t \in Seq(S) /\ Len(t) = Len(v) + Len(z)
        /\ \A k \in 1..Len(v) : t[k] = v[k]
        /\ \A k \in 1..Len(z) : t[Len(v) + k] = z[k]
    <3>1. v \in Seq(S) /\ z \in Seq(S)
      BY <1>5, <1>7
    <3> QED
      BY <3>1, Joined
  <2>2. t = s
    BY DEF z
  <2>3. (n + 2) + 1 = n + 3 /\ (n + 2) + 2 = n + 4 /\ 1 \in 1..2 /\ 2 \in 1..2
    BY <1>2
  <2> HIDE DEF t, s
  <2> QED
    BY <1>2, <1>5, <1>7, <2>1, <2>2, <2>3
<1> HIDE DEF s
<1>9. /\ s[1] = a /\ s[n + 2] = b
      /\ \A k \in 1..n : s[1 + k] = w[k]
  BY <1>2, <1>6, <1>7, <1>8
<1>10. s \in Seq(Steps(On)) /\ Len(s) = Len(SiteInstances) + 4
  BY <1>8 DEF S, n
<1> QED
  BY <1>1, <1>2, <1>3, <1>8, <1>9, <1>10 DEF n

LEMMA SetUpWaits ==
  /\ AllWaited(SetUp)
  /\ \A i \in Servers : WaitedFor(SetUp, Len(SetUp) + 1, i)
<1> DEFINE n == Len(SiteInstances)
           s == SetUp
<1>1. /\ Len(s) = n + 4 /\ n \in Nat
      /\ s[1].do = "wait_for_instances"
      /\ \A k \in 1..n : /\ s[1 + k].do = "wait" /\ s[1 + k].on = SiteInstances[k]
                         /\ s[1 + k].judge = "site"
      /\ s[n + 2].do = "return_unless_ok"
      /\ s[n + 3].do = "wait" /\ s[n + 3].on = Dnsmasq /\ s[n + 3].judge = "test"
      /\ s[n + 4].do = "body"
  BY SetUpFacts, SiteFacts
<1>2. \A i \in Servers : i = Dnsmasq \/ \E k \in 1..n : SiteInstances[k] = i
  BY SiteFacts DEF Servers, Range
<1> HIDE DEF s, n
<1>3. ASSUME NEW k \in 2..(n + 1)
      PROVE  s[k].do = "wait"
  <2>1. k - 1 \in 1..n /\ 1 + (k - 1) = k
    BY <1>1
  <2>2. s[1 + (k - 1)].do = "wait"
    BY <1>1, <2>1
  <2> QED
    BY <2>1, <2>2
<1>4. /\ \A q \in 1..(n + 4) : s[q].do \notin {"start", "kill", "restart"}
      /\ \A q \in 1..(n + 3) : s[q].do \notin {"body", "done"}
      /\ \A q \in 2..(n + 4) : s[q].do # "wait_for_instances"
  <2>1. \A q \in 1..(n + 4) : q = 1 \/ q \in 2..(n + 1) \/ q = n + 2 \/ q = n + 3 \/ q = n + 4
    BY <1>1
  <2>2. ASSUME NEW q \in 1..(n + 4)
        PROVE  /\ s[q].do \notin {"start", "kill", "restart"}
               /\ q # n + 4 => s[q].do \notin {"body", "done"}
               /\ q # 1 => s[q].do # "wait_for_instances"
    <3>1. q = 1 \/ q \in 2..(n + 1) \/ q = n + 2 \/ q = n + 3 \/ q = n + 4
      BY <2>1
    <3> QED
      BY <1>1, <1>3, <3>1
  <2> QED
    BY <1>1, <2>2
<1>5. ASSUME NEW i \in Servers
      PROVE  WaitedFor(s, n + 4, i)
  <2>1. CASE i = Dnsmasq
    <3>1. n + 3 \in 1..((n + 4) - 1) /\ \A q \in ((n + 3) + 1)..((n + 4) - 1) : FALSE
      BY <1>1
    <3> QED
      BY <1>1, <2>1, <3>1 DEF WaitedFor
  <2>2. ASSUME NEW k \in 1..n, SiteInstances[k] = i
        PROVE  WaitedFor(s, n + 4, i)
    <3> DEFINE j == 1 + k
    <3>1. /\ j \in 1..((n + 4) - 1) /\ n + 2 \in (j + 1)..((n + 4) - 1)
          /\ \A q \in (j + 1)..((n + 4) - 1) : q \in 1..(n + 4) /\ q \in 2..(n + 4)
          /\ \A q \in (j + 1)..((n + 2) - 1) : q \in 2..(n + 4)
      BY <1>1
    <3>2. s[j].do = "wait" /\ s[j].on = i /\ s[j].judge = "site"
      BY <1>1, <2>2
    <3> HIDE DEF j
    <3>3. \A q \in (j + 1)..((n + 4) - 1) : ~Changes(s[q], i)
      BY <1>4, <3>1 DEF Changes
    <3>4. /\ s[n + 2].do = "return_unless_ok"
          /\ \A q \in (j + 1)..((n + 2) - 1) : s[q].do # "wait_for_instances"
      BY <1>1, <1>4, <3>1
    <3> QED
      BY <3>1, <3>2, <3>3, <3>4 DEF WaitedFor
  <2> QED
    BY <1>2, <2>1, <2>2
<1>6. \A i \in Servers : WaitedFor(s, n + 5, i)
  <2>1. n + 4 \in Nat /\ n + 5 \in Nat /\ n + 4 <= n + 5
        /\ \A q \in (n + 4)..((n + 5) - 1) : q \in 1..(n + 4)
    BY <1>1
  <2>2. \A i : \A q \in (n + 4)..((n + 5) - 1) : ~Changes(s[q], i)
    BY <1>4, <2>1 DEF Changes
  <2> QED
    BY <1>5, <2>1, <2>2, WaitedStays
<1>7. AllWaited(s)
  <2>1. \A k \in 1..Len(s) : k \in 1..(n + 3) \/ k = n + 4
    BY <1>1
  <2> QED
    BY <1>4, <1>5, <2>1 DEF AllWaited
<1>8. Len(s) + 1 = n + 5
  BY <1>1
<1> QED
  BY <1>6, <1>7, <1>8 DEF s

(* What breaks and mends the site is on one instance, and ends by waiting  *)
(* for it; or it is empty.                                                 *)
Mends(l, v) ==
  /\ l \in Seq(Steps(On))
  /\ NoBoundary(l)
  /\ \A k \in 1..Len(l) : l[k].on = v
  /\ l # << >> => /\ l[Len(l)].do = "wait" /\ l[Len(l)].judge = "test"

LEMMA ScenarioMends ==
  ASSUME NEW sc \in Scenarios
  PROVE  Mends(TriggerFailure(sc) \o FixFailure(sc), Victim(sc))
<1> DEFINE v == Victim(sc)
           S == Steps(On)
           Expect(what) == ExpectTrue(what, v)
<1>1. v \in Instances
  BY VictimFacts
<1>2. ASSUME NEW what \in {"start", "kill", "restart", "wait"}
      PROVE  /\ Expect(what) \in S /\ Expect(what).do = what /\ Expect(what).on = v
             /\ Expect(what).judge = "test"
  BY <1>1, ExpectFacts DEF ExpectTrue
<1> HIDE DEF v, S
<1>3. CASE sc = "NoFailures"
  <2>1. TriggerFailure(sc) \o FixFailure(sc) = << >>
    BY <1>3 DEF TriggerFailure, FixFailure
  <2>2. << >> \in Seq(S) /\ Len(<< >>) = 0
    OBVIOUS
  <2> QED
    BY <2>1, <2>2 DEF Mends, NoBoundary, S
<1>4. CASE sc \in {"MemcachedFails", "RogersFails"}
  <2> DEFINE a == Expect("kill")
             b == Expect("start")
             c == Expect("wait")
             x == <<a>>
             y == <<b, c>>
             l == x \o y
  <2>1. TriggerFailure(sc) \o FixFailure(sc) = l
    BY <1>4 DEF TriggerFailure, FixFailure, v
  <2>2. /\ a \in S /\ a.do = "kill" /\ a.on = v
        /\ b \in S /\ b.do = "start" /\ b.on = v
        /\ c \in S /\ c.do = "wait" /\ c.on = v /\ c.judge = "test"
    BY <1>2
  <2> HIDE DEF a, b, c
  <2>3. x \in Seq(S) /\ Len(x) = 1 /\ x[1] = a
        /\ y \in Seq(S) /\ Len(y) = 2 /\ y[1] = b /\ y[2] = c
    BY <2>2
  <2> HIDE DEF x, y
  <2>4. /\ l \in Seq(S) /\ Len(l) = Len(x) + Len(y)
        /\ \A k \in 1..Len(x) : l[k] = x[k]
        /\ \A k \in 1..Len(y) : l[Len(x) + k] = y[k]
    <3>1. x \in Seq(S) /\ y \in Seq(S)
      BY <2>3
    <3> QED
      BY <3>1, Joined
  <2> HIDE DEF l
  <2>5. /\ l \in Seq(S) /\ Len(l) = 3 /\ l[1] = a /\ l[2] = b /\ l[3] = c
        /\ \A k \in 1..3 : k = 1 \/ k = 2 \/ k = 3
    BY <2>3, <2>4
  <2>6. Mends(l, v)
    BY <2>2, <2>5 DEF Mends, NoBoundary, S
  <2> QED
    BY <2>1, <2>6 DEF v
<1>5. CASE sc \in {"MemcachedRestarts", "RogersRestarts"}
  <2> DEFINE a == Expect("restart")
             b == Expect("wait")
             l == <<a, b>>
  <2>1. TriggerFailure(sc) = l /\ FixFailure(sc) = << >>
    BY <1>5 DEF TriggerFailure, FixFailure, v
  <2>2. /\ a \in S /\ a.do = "restart" /\ a.on = v
        /\ b \in S /\ b.do = "wait" /\ b.on = v /\ b.judge = "test"
    BY <1>2
  <2> HIDE DEF a, b
  <2>3. /\ l \in Seq(S) /\ Len(l) = 2 /\ l[1] = a /\ l[2] = b
        /\ \A k \in 1..2 : k = 1 \/ k = 2
    BY <2>2
  <2> HIDE DEF l
  <2>4. Mends(l, v)
    BY <2>2, <2>3 DEF Mends, NoBoundary, S
  <2>5. l \o << >> = l
    BY <2>3, ConcatEmptySeq
  <2> QED
    BY <2>1, <2>4, <2>5 DEF v
<1> QED
  BY <1>3, <1>4, <1>5, SuiteAssumption

LEMMA RepeatMends ==
  ASSUME NEW l, NEW v, Mends(l, v), NEW n \in Nat \ {0}
  PROVE  Mends(Repeat(n, l), v)
<1> DEFINE m == Len(l)
           u == Repeat(n, l)
<1>1. l \in Seq(Steps(On)) /\ m \in Nat
  BY LenProperties DEF Mends
<1>2. /\ u \in Seq(Steps(On)) /\ Len(u) = n * m
      /\ \A k \in 1..(n * m) : /\ m \in Nat \ {0}
                               /\ ((k - 1) % m) + 1 \in 1..m
                               /\ u[k] = l[((k - 1) % m) + 1]
  BY <1>1, RepeatFacts
<1> HIDE DEF u
<1>3. NoBoundary(u) /\ \A k \in 1..Len(u) : u[k].on = v
  BY <1>2 DEF Mends, NoBoundary
<1>4. ASSUME u # << >>
      PROVE  u[Len(u)] = l[m] /\ l # << >>
  <2>1. Len(u) \in 1..(n * m) /\ m \in Nat \ {0}
    <3>1. Len(u) # 0 /\ Len(u) \in Nat
      BY <1>2, <1>4, EmptySeq, LenProperties
    <3>2. Len(u) \in 1..(n * m)
      BY <1>2, <3>1
    <3> QED
      BY <1>2, <3>2
  <2>2. (n * m - 1) % m = m - 1
    <3> DEFINE q == n - 1
    <3>1. q \in Nat /\ m - 1 \in 0..(m - 1)
      BY <2>1
    <3>2. n * m - 1 = m * q + (m - 1)
      BY <2>1
    <3> HIDE DEF q, m
    <3> QED
      BY <2>1, <3>1, <3>2, Remainder
  <2>3. u[n * m] = l[((n * m - 1) % m) + 1]
    BY <1>2, <2>1
  <2>4. ((n * m - 1) % m) + 1 = m
    BY <2>1, <2>2
  <2>5. l # << >>
    BY <2>1
  <2> QED
    BY <1>2, <2>3, <2>4, <2>5
<1>5. Mends(u, v)
  BY <1>2, <1>3, <1>4 DEF Mends
<1> QED
  BY <1>5 DEF u

LEMMA TestWaits ==
  ASSUME NEW sc \in Scenarios
  PROVE  AllWaited(Test(sc))
<1> DEFINE S == Steps(On)
           v == Victim(sc)
           s == SetUp
           t == Repeat(NumRounds, TriggerFailure(sc) \o FixFailure(sc))
           a == Mark("done")
           u == s \o t
           x == <<a>>
           l == u \o x
<1>1. Mends(t, v)
  BY ScenarioMends, RepeatMends, SuiteAssumption
<1>2. /\ s \in Seq(S) /\ AllWaited(s)
      /\ \A i \in Servers : WaitedFor(s, Len(s) + 1, i)
  BY SetUpFacts, SetUpWaits
<1>3. Test(sc) = l
  BY DEF Test
<1> HIDE DEF s, t, v
<1>4. t \in Seq(S) /\ AllWaited(t)
  BY <1>1 DEF Mends, NoBoundary, AllWaited
<1>5. /\ Len(s) \in Nat /\ Len(t) \in Nat
      /\ u \in Seq(S) /\ Len(u) = Len(s) + Len(t)
      /\ \A k \in 1..Len(s) : k \in 1..Len(u) /\ u[k] = s[k]
      /\ \A k \in 1..Len(t) : Len(s) + k \in 1..Len(u) /\ u[Len(s) + k] = t[k]
      /\ \A k \in 1..Len(u) : k > Len(s) => k - Len(s) \in 1..Len(t) /\ u[k] = t[k - Len(s)]
  BY <1>2, <1>4, Joined
<1>6. AllWaited(u)
  BY <1>2, <1>4, AllWaitedConcat
<1> HIDE DEF u
<1>7. ASSUME NEW i \in Servers
      PROVE  WaitedFor(u, Len(u) + 1, i)
  <2>1. WaitedFor(u, Len(s) + 1, i)
    <3>1. 0 \in Nat /\ Len(s) + 1 \in Nat /\ 0 + (Len(s) + 1) = Len(s) + 1
          /\ \A q \in 1..((Len(s) + 1) - 1) : u[0 + q] = s[q]
      BY <1>5
    <3>2. WaitedFor(u, 0 + (Len(s) + 1), i)
      BY <1>2, <3>1, WaitedShifted
    <3> QED
      BY <3>1, <3>2
  <2>2. CASE i = v /\ t # << >>
    <3>1. Len(t) \in 1..Len(t) /\ t[Len(t)].do = "wait" /\ t[Len(t)].judge = "test"
          /\ t[Len(t)].on = v
      <4>1. Len(t) # 0
        BY <1>4, <2>2, EmptySeq
      <4>2. Len(t) \in 1..Len(t)
        BY <1>5, <4>1
      <4> QED
        BY <1>1, <2>2, <4>2 DEF Mends
    <3>2. u[Len(u)] = t[Len(t)] /\ Len(u) \in 1..((Len(u) + 1) - 1)
          /\ \A q \in (Len(u) + 1)..((Len(u) + 1) - 1) : FALSE
      BY <1>5, <3>1
    <3> QED
      BY <2>2, <3>1, <3>2 DEF WaitedFor
  <2>3. CASE ~(i = v /\ t # << >>)
    <3>1. \A q \in 1..Len(t) : ~Changes(t[q], i)
      <4>1. CASE t = << >>
        <5>1. Len(t) = 0
          BY <4>1
        <5> QED
          BY <5>1
      <4> QED
        BY <1>1, <2>3, <4>1 DEF Mends, Changes
    <3>2. \A q \in (Len(s) + 1)..((Len(u) + 1) - 1) : ~Changes(u[q], i)
      <4>1. \A q \in (Len(s) + 1)..((Len(u) + 1) - 1) : q \in 1..Len(u) /\ q > Len(s)
        BY <1>5
      <4> QED
        BY <1>5, <3>1, <4>1
    <3>3. Len(s) + 1 \in Nat /\ Len(u) + 1 \in Nat /\ Len(s) + 1 <= Len(u) + 1
      BY <1>5
    <3> QED
      BY <2>1, <3>2, <3>3, WaitedStays
  <2> QED
    BY <2>2, <2>3
<1>8. a \in S /\ a.do = "done"
  BY MarkFacts
<1> HIDE DEF a
<1>9. x \in Seq(S) /\ Len(x) = 1 /\ x[1] = a
  BY <1>8
<1> HIDE DEF x, S
<1>10. /\ l \in Seq(S) /\ Len(l) = Len(u) + 1
       /\ \A k \in 1..Len(u) : l[k] = u[k]
  <2>1. u \in Seq(S) /\ x \in Seq(S)
    BY <1>5, <1>9
  <2>2. /\ l \in Seq(S) /\ Len(l) = Len(u) + Len(x)
        /\ \A k \in 1..Len(u) : l[k] = u[k]
    BY <2>1, Joined
  <2> QED
    BY <1>9, <2>2
<1> HIDE DEF l
<1>11. ASSUME NEW k \in 1..Len(l), l[k].do \in {"body", "done"}, NEW i \in Servers
       PROVE  WaitedFor(l, k, i)
  <2>1. k \in Nat /\ k <= Len(u) + 1 /\ Len(u) \in Nat /\ 0 + k = k /\ 0 \in Nat
    BY <1>5, <1>10
  <2>2. WaitedFor(u, k, i)
    <3>1. CASE k = Len(u) + 1
      BY <1>7, <3>1
    <3>2. CASE k # Len(u) + 1
      <4>1. k \in 1..Len(u) /\ l[k] = u[k]
        BY <1>10, <2>1, <3>2
      <4> QED
        BY <1>6, <1>11, <4>1 DEF AllWaited
    <3> QED
      BY <3>1, <3>2
  <2>3. \A q \in 1..(k - 1) : l[0 + q] = u[q]
    BY <1>10, <2>1
  <2>4. WaitedFor(l, 0 + k, i)
    BY <2>1, <2>2, <2>3, WaitedShifted
  <2> QED
    BY <2>1, <2>4
<1> QED
  BY <1>3, <1>11 DEF AllWaited

LEMMA TestCaseWaits ==
  ASSUME NEW sc \in Scenarios
  PROVE  AllWaited(TestCase(sc))
<1> DEFINE s == SetUpTestCase
           t == Repeat(NumTests, Test(sc))
           x == <<Mark("teardown")>>
<1>1. s \in Seq(Steps(On)) /\ AllWaited(s)
  <2> DEFINE n == Len(SiteInstances)
  <2>1. /\ s \in Seq(Steps(On)) /\ Len(s) = n + 6 /\ n \in Nat
        /\ s[1].do = "create_tmp" /\ s[2].do = "new_site" /\ s[3].do = "own"
        /\ \A k \in 4..(n + 3) : s[k].do = "start"
        /\ s[n + 4].do = "new_dnsmasq" /\ s[n + 5].do = "own" /\ s[n + 6].do = "start"
    BY SetUpTestCaseFacts, SiteFacts
  <2> HIDE DEF s, n
  <2>2. \A k \in 1..Len(s) : \/ k = 1 \/ k = 2 \/ k = 3 \/ k \in 4..(n + 3)
                             \/ k = n + 4 \/ k = n + 5 \/ k = n + 6
    BY <2>1
  <2>3. \A k \in 1..Len(s) : s[k].do \in {"create_tmp", "new_site", "new_dnsmasq", "own", "start"}
    BY <2>1, <2>2
  <2> QED
    BY <2>1, <2>3 DEF AllWaited
<1>2. t \in Seq(Steps(On)) /\ AllWaited(t)
  <2>1. Test(sc) \in Seq(Steps(On))
    BY TestIsTest DEF IsTest
  <2> QED
    BY <2>1, TestWaits, AllWaitedRepeat, RepeatFacts, SuiteAssumption
<1>3. x \in Seq(Steps(On)) /\ AllWaited(x)
  <2> DEFINE a == Mark("teardown")
  <2>1. a \in Steps(On) /\ a.do = "teardown"
    BY MarkFacts
  <2> HIDE DEF a
  <2>2. <<a>> \in Seq(Steps(On)) /\ Len(<<a>>) = 1 /\ <<a>>[1] = a
    BY <2>1
  <2>3. \A k \in 1..Len(<<a>>) : <<a>>[k].do = "teardown"
    BY <2>1, <2>2
  <2> QED
    BY <2>2, <2>3 DEF AllWaited, a
<1>4. TestCase(sc) = (s \o t) \o x
  BY DEF TestCase
<1> HIDE DEF s, t, x
<1>5. s \o t \in Seq(Steps(On)) /\ AllWaited(s \o t)
  BY <1>1, <1>2, AllWaitedConcat, Joined
<1>6. AllWaited((s \o t) \o x)
  <2> DEFINE u == s \o t
  <2> HIDE DEF u
  <2>1. u \in Seq(Steps(On)) /\ AllWaited(u)
    BY <1>5 DEF u
  <2>2. AllWaited(u \o x)
    BY <1>3, <2>1, AllWaitedConcat
  <2> QED
    BY <2>2 DEF u
<1> QED
  BY <1>4, <1>6

(* With one test program, each test begins and ends with every instance    *)
(* started, unless an expectation failed.                                  *)
THEOREM AllStartedAtBoundaries ==
  ASSUME NEW r, Roots = {r}
  PROVE  SuiteSpec => []TestsLeaveAllStarted
<1> DEFINE Up == \A h \in Roots : UpInv(h)
<1>1. SuiteInit => Up
  <2> SUFFICES ASSUME SuiteInit, NEW h \in Roots
               PROVE  AllWaited(todo[h])
    BY DEF UpInv, AllWaited
  <2>1. PICK sc \in Scenarios : todo = [g \in Roots |-> TestCase(sc)]
    BY DEF SuiteInit
  <2> QED
    BY <2>1, TestCaseWaits
<1>2. SuiteInv /\ Up /\ [SuiteNext]_allVars => Up'
  <2>1. ASSUME SuiteInv, Up, [SuiteNext]_allVars, NEW h \in Roots
        PROVE  UpInv(h)'
    BY <2>1, SuiteKeepsUp
  <2> QED
    BY <2>1
<1>3. SuiteInv /\ Up => TestsLeaveAllStarted
  BY UpAtBoundaries
<1> QED
  BY <1>1, <1>2, <1>3, SuiteInductive, PTL DEF SuiteSpec

-----------------------------------------------------------------------------
(* What a test program leaves in its directory *)

Creations == {"create_tmp", "new_site", "new_dnsmasq"}

(* Step k of the list l is the assignment of the dnsmasq instance.         *)
AssignsDns(l, k) == k \in 1..Len(l) /\ l[k].do = "own" /\ l[k].on = "dnsmasq"

(* The dnsmasq instance is assigned as soon as it has been constructed.    *)
AssignedNext(l) == \A k \in 1..Len(l) : l[k].do = "new_dnsmasq" => AssignsDns(l, k + 1)

(* The configuration of dnsmasq is there in the tests when the instance is *)
(* held or assigned next, and in TearDownTestCase when it will be removed, *)
(* as is whatever is in tmp.                                               *)
DirInv(h) ==
  /\ files[h] \subseteq {"tmp", "site", "cfg"}
  /\ status[h] = "reaped" => todo[h] = << >> /\ phase[h] # "tests"
  /\ phase[h] = "tests" =>
       /\ AssignedNext(todo[h])
       /\ "cfg" \in files[h] =>
            "dnsmasq" \in owned[h] \/ (pc[h] = "idle" /\ AssignsDns(todo[h], 1))
  /\ phase[h] # "tests" =>
       /\ files[h] \cap {"tmp", "site"} # {} => Has(todo[h], "remove_tmp", None)
       /\ "cfg" \in files[h] =>
            signalled[h] \in {"unassigned", "teardown"} \/ Has(todo[h], "remove_cfg", None)

(* A step of others, and one of a call of h.                               *)
LEMMA SameDir ==
  ASSUME NEW h \in Roots, DirInv(h), SameList(h), files'[h] = files[h],
         status'[h] = status[h], pc[h] = "idle" => pc'[h] = "idle"
  PROVE  DirInv(h)'
BY DEF DirInv, SameList, AssignedNext, AssignsDns, Has

LEMMA NotReaped ==
  ASSUME SuiteInv, NEW h \in Roots, NEW p \in Pids,
         \/ Step(p) \/ Server(p)
         \/ p # h /\ (Call(p) \/ SocketFails(p) \/ Quit(p))
  PROVE  status'[h] = status[h] /\ (pc[h] = "idle" => pc'[h] = "idle")
<1>1. IInv
  BY DEF SuiteInv, FixtureInv
<1>2. ASSUME p = h PROVE ~Server(p) /\ (pc[h] = "idle" => ~Step(p))
  <2>1. status[p] # "server" /\ p \notin sigterm
    BY <1>1, <1>2 DEF IInv, RootInv
  <2>2. Step(p) => pc[p] # "idle"
    BY DEF Step, Proceed, Fork, ForkFails, SaveOffPid, Exec, ExecFails, Reap, WaitNoChild,
       Waiting, ConnectSucceeds, ConnectRefused, CallOff, At
  <2> QED
    BY <1>2, <2>1, <2>2 DEF Server, Listen, Crash, Terminate
<1>3. Step(p) => ~Quit(p)
  BY DEF Quit, Ready, Step, Proceed, Fork, ForkFails, SaveOffPid, Exec, ExecFails, Reap,
     WaitNoChild, Waiting, ConnectSucceeds, ConnectRefused, CallOff, At
<1>4. status'[h] = status[h]
  BY <1>1, <1>2, <1>3, OnlyQuits
<1>5. p # h => Untouched(h)
  BY <1>1, OthersLeaveAlone
<1> QED
  BY <1>2, <1>4, <1>5 DEF Untouched

(* The head of the list is taken, and the files it makes or removes are    *)
(* made or removed.                                                        *)
LEMMA AdvanceDir ==
  ASSUME SuiteInv, NEW h \in Roots, DirInv(h), Shorter(h), status[h] = "program",
         status'[h] = status[h], phase'[h] = phase[h], signalled'[h] = signalled[h],
         files'[h] = (files[h] \cup Makes(todo[h][1].do)) \ Removes(todo[h][1].do),
         todo[h][1].do = "new_dnsmasq" => pc'[h] = "idle",
         phase[h] = "tests" => owned[h] \subseteq owned'[h],
         todo[h][1].do = "own" => todo[h][1].on \in owned'[h]
  PROVE  DirInv(h)'
<1> DEFINE l == todo[h]
           m == todo'[h]
           kind == todo[h][1].do
<1>1. /\ Len(l) \in Nat \ {0} /\ Len(m) = Len(l) - 1 /\ 1 \in 1..Len(l)
      /\ \A k \in 1..Len(m) : k + 1 \in 1..Len(l) /\ m[k] = l[k + 1]
  <2>1. Len(l) \in Nat /\ Len(m) = Len(l) - 1 /\ Len(l) > 0
    BY DEF Shorter
  <2>2. \A k \in 1..Len(m) : k + 1 \in 1..Len(l) /\ m[k] = l[k + 1]
    BY DEF Shorter
  <2> HIDE DEF l, m
  <2> QED
    BY <2>1, <2>2
<1>2. files'[h] \subseteq {"tmp", "site", "cfg"}
  BY DEF DirInv, Makes
<1>3. /\ "cfg" \in files'[h] => "cfg" \in files[h] \/ kind = "new_dnsmasq"
      /\ "cfg" \in files'[h] => kind # "remove_cfg"
      /\ files'[h] \cap {"tmp", "site"} # {} =>
           files[h] \cap {"tmp", "site"} # {} \/ kind \in Creations
      /\ files'[h] \cap {"tmp", "site"} # {} => kind # "remove_tmp"
  BY DEF Makes, Removes, Creations
<1>4. ASSUME phase[h] = "tests"
      PROVE  /\ AssignedNext(m)
             /\ "cfg" \in files'[h] =>
                  "dnsmasq" \in owned'[h] \/ (pc'[h] = "idle" /\ AssignsDns(m, 1))
  <2>1. AssignedNext(l)
    BY <1>4 DEF DirInv
  <2>2. ASSUME NEW k \in 1..Len(m), m[k].do = "new_dnsmasq"
        PROVE  AssignsDns(m, k + 1)
    <3>1. k + 1 \in 1..Len(l) /\ l[k + 1].do = "new_dnsmasq"
      BY <1>1, <2>2
    <3>2. AssignsDns(l, (k + 1) + 1)
      BY <2>1, <3>1 DEF AssignedNext
    <3>3. k + 1 \in 1..Len(m)
      BY <1>1, <3>2 DEF AssignsDns
    <3> QED
      BY <1>1, <3>2, <3>3 DEF AssignsDns
  <2>3. ASSUME "cfg" \in files'[h]
        PROVE  "dnsmasq" \in owned'[h] \/ (pc'[h] = "idle" /\ AssignsDns(m, 1))
    <3>1. CASE kind = "new_dnsmasq"
      <4>1. AssignsDns(l, 1 + 1)
        BY <1>1, <2>1, <3>1 DEF AssignedNext
      <4>2. 1 \in 1..Len(m)
        BY <1>1, <4>1 DEF AssignsDns
      <4> QED
        BY <1>1, <3>1, <4>1, <4>2 DEF AssignsDns
    <3>2. CASE kind # "new_dnsmasq"
      <4>1. "dnsmasq" \in owned[h] \/ AssignsDns(l, 1)
        BY <1>3, <1>4, <2>3, <3>2 DEF DirInv
      <4> QED
        BY <1>4, <4>1 DEF AssignsDns
    <3> QED
      BY <3>1, <3>2
  <2> QED
    BY <2>2, <2>3 DEF AssignedNext
<1>5. ASSUME phase[h] # "tests"
      PROVE  /\ files'[h] \cap {"tmp", "site"} # {} => Has(m, "remove_tmp", None)
             /\ "cfg" \in files'[h] =>
                  signalled'[h] \in {"unassigned", "teardown"} \/ Has(m, "remove_cfg", None)
  <2>1. kind \notin Creations
    BY <1>1, <1>5 DEF SuiteInv, FixtureInv, ProgramInv, KillsInv, TestOnly, Creations
  <2>2. ASSUME NEW what, kind # what, Has(l, what, None)
        PROVE  Has(m, what, None)
    <3>1. PICK k \in 1..Len(l) : l[k].do = what /\ l[k].on = None
      BY <2>2 DEF Has
    <3>2. k # 1
      BY <2>2, <3>1
    <3>3. k - 1 \in 1..Len(m) /\ (k - 1) + 1 = k
      BY <1>1, <3>2
    <3> QED
      BY <1>1, <3>1, <3>3 DEF Has
  <2>3. files'[h] \cap {"tmp", "site"} # {} => Has(m, "remove_tmp", None)
    BY <1>3, <1>5, <2>1, <2>2 DEF DirInv
  <2>4. "cfg" \in files'[h] =>
          signalled[h] \in {"unassigned", "teardown"} \/ Has(m, "remove_cfg", None)
    BY <1>3, <1>5, <2>1, <2>2 DEF DirInv, Creations
  <2> QED
    BY <2>3, <2>4
<1> QED
  BY <1>2, <1>4, <1>5 DEF DirInv

(* TearDownTestCase begins, with what is held.                             *)
LEMMA TearDownDir ==
  ASSUME SuiteInv, NEW h \in Roots, DirInv(h), status[h] = "program", status'[h] = status[h],
         todo'[h] = TearDownTestCase(owned[h]), phase'[h] # "tests", files'[h] = files[h],
         \/ signalled'[h] \in {"unassigned", "teardown"}
         \/ phase[h] = "tests" /\ ~(pc[h] = "idle" /\ AssignsDns(todo[h], 1))
  PROVE  DirInv(h)'
<1>1. owned[h] \in SUBSET Statics
  BY DEF SuiteInv, FixtureInv, FixtureTypeOK
<1>2. /\ Has(todo'[h], "remove_tmp", None)
      /\ "dnsmasq" \in owned[h] => Has(todo'[h], "remove_cfg", None)
  BY <1>1, TearDownFacts
<1> QED
  BY <1>2 DEF DirInv

(* The steps of h itself.                                                  *)
LEMMA ProgramKeepsDir ==
  ASSUME SuiteInv, NEW h \in Roots, DirInv(h), Program(h), DOMAIN files = Roots
  PROVE  DirInv(h)'
<1>1. /\ todo \in [Roots -> Seq(Steps(On))] /\ todo[h] \in Seq(Steps(On)) /\ FixtureTypeOK
      /\ TypeOK /\ IInv /\ h \in Pids /\ ListInv(h) /\ FreshInv(h)
  BY ProcessAssumption DEF SuiteInv, FixtureInv, FixtureTypeOK, ProgramInv
<1>2. ASSUME todo[h] # << >>, Ready(h), todo' = [todo EXCEPT ![h] = Tail(@)]
      PROVE  Head(todo[h]) = todo[h][1] /\ Shorter(h) /\ status[h] = "program"
  <2>1. todo'[h] = Tail(todo[h])
    BY <1>1, <1>2
  <2> QED
    BY <1>1, <1>2, <2>1, TailFacts DEF Shorter, Ready
<1>3. CASE FileStep(h)
  <2>1. /\ Ready(h) /\ todo[h] # << >> /\ Head(todo[h]).do \in FileKinds
        /\ UNCHANGED <<vars, phase, owned, signalled>>
        /\ todo' = [todo EXCEPT ![h] = Tail(@)]
        /\ files' = [files EXCEPT ![h] =
             (@ \cup Makes(Head(todo[h]).do)) \ Removes(Head(todo[h]).do)]
    BY <1>3 DEF FileStep, Comes, FileKinds, Advance
  <2>2. files'[h] = (files[h] \cup Makes(Head(todo[h]).do)) \ Removes(Head(todo[h]).do)
    BY <2>1
  <2> QED
    BY <1>2, <2>1, <2>2, AdvanceDir DEF FileKinds, Ready, vars, kernelVars, callVars
<1>4. CASE MakeCall(h) /\ UNCHANGED files
  <2>1. /\ Call(h) \/ SocketFails(h)
        /\ todo[h] # << >> /\ Head(todo[h]).do \in {"start", "kill", "restart", "wait"}
        /\ Ready(h) /\ UNCHANGED <<phase, owned, signalled>>
        /\ todo' = [todo EXCEPT ![h] = Tail(@)]
    BY <1>1, <1>4, MakesCall DEF MakeCall, Comes, Advance
  <2>2. status' = status
    BY <2>1 DEF Call, Start, Kill, KillNotRunning, KillNoProcess, SendSigterm, Restart, WaitFor,
       SocketFails, kernelVars
  <2>3. Makes(Head(todo[h]).do) = {} /\ Removes(Head(todo[h]).do) = {}
    BY <2>1 DEF Makes, Removes
  <2> QED
    BY <1>2, <1>4, <2>1, <2>2, <2>3, AdvanceDir
<1>5. CASE /\ BeginWait(h) \/ SiteIsUp(h) \/ TestBoundary(h)
                \/ \E static \in Statics : Own(h, static) \/ Disown(h, static)
           /\ UNCHANGED files
  <2>1. /\ Ready(h) /\ todo[h] # << >>
        /\ Head(todo[h]).do \in {"wait_for_instances", "return_unless_ok", "body", "done",
                                 "own", "disown"}
        /\ UNCHANGED <<vars, phase, signalled>>
        /\ todo' = [todo EXCEPT ![h] = Tail(@)]
    BY <1>5 DEF BeginWait, SiteIsUp, TestBoundary, Own, Disown, Comes, Advance
  <2>2. /\ Head(todo[h]).do # "disown" => owned[h] \subseteq owned'[h]
        /\ Head(todo[h]).do = "own" => Head(todo[h]).on \in owned'[h]
    <3>1. CASE BeginWait(h) \/ SiteIsUp(h) \/ TestBoundary(h)
      BY <3>1 DEF BeginWait, SiteIsUp, TestBoundary, Comes
    <3>2. ASSUME NEW static \in Statics, Own(h, static) \/ Disown(h, static)
          PROVE  /\ Head(todo[h]).do # "disown" => owned[h] \subseteq owned'[h]
                 /\ Head(todo[h]).do = "own" => Head(todo[h]).on \in owned'[h]
      BY <1>1, <3>2 DEF Own, Disown, Comes, FixtureTypeOK
    <3> QED
      BY <1>5, <3>1, <3>2
  <2>3. phase[h] = "tests" => Head(todo[h]).do # "disown"
    BY <1>1, <2>1, HeadFacts DEF SuiteInv, FixtureInv, ProgramInv, OwnedInv, Removals
  <2>4. Makes(Head(todo[h]).do) = {} /\ Removes(Head(todo[h]).do) = {}
    BY <2>1 DEF Makes, Removes
  <2> QED
    BY <1>2, <1>5, <2>1, <2>2, <2>3, <2>4, AdvanceDir DEF vars, kernelVars
<1>6. CASE SiteNotUp(h) /\ UNCHANGED files
  <2>1. /\ Ready(h) /\ todo[h] # << >> /\ Head(todo[h]).do = "return_unless_ok"
        /\ UNCHANGED <<vars, phase, owned, signalled>>
    BY <1>6 DEF SiteNotUp, Comes
  <2> DEFINE l == todo[h]
             n == Len(l)
  <2>2. Head(l) = l[1] /\ 1 \in 1..n /\ DOMAIN l = 1..n /\ n \in Nat
    BY <1>1, <2>1, HeadFacts, LenProperties
  <2>3. PICK k \in 1..n : todo'[h] = SubSeq(l, k, n)
    BY <1>1, <1>6, <2>2 DEF SiteNotUp
  <2>4. /\ Len(todo'[h]) = n - k + 1
        /\ \A j \in 1..(n - k + 1) : todo'[h][j] = l[k + j - 1]
    <3>1. k \in Int /\ n \in Int /\ k <= n /\ \A j \in k..n : l[j] \in Steps(On)
      BY <1>1, <2>2, LenProperties
    <3> QED
      BY <2>3, <3>1, SubSeqProperties
  <2>5. phase[h] = "tests"
    BY <2>1, <2>2 DEF SuiteInv, FixtureInv, ProgramInv, KillsInv, TestOnly
  <2>6. AssignedNext(l) /\ ("cfg" \in files[h] => "dnsmasq" \in owned[h])
    BY <2>1, <2>2, <2>5 DEF DirInv, AssignsDns
  <2> HIDE DEF l, n
  <2>7. ASSUME NEW j \in 1..Len(todo'[h]), todo'[h][j].do = "new_dnsmasq"
        PROVE  AssignsDns(todo'[h], j + 1)
    <3>1. /\ k + j - 1 \in 1..n /\ l[k + j - 1].do = "new_dnsmasq"
          /\ (k + j - 1) + 1 = k + (j + 1) - 1
      BY <2>2, <2>4, <2>7
    <3>2. AssignsDns(l, k + (j + 1) - 1)
      BY <2>6, <3>1 DEF AssignedNext, n
    <3>3. j + 1 \in 1..(n - k + 1)
      BY <2>2, <3>2 DEF AssignsDns, n
    <3>4. todo'[h][j + 1] = l[k + (j + 1) - 1]
      BY <2>4, <3>3
    <3> QED
      BY <2>4, <3>2, <3>3, <3>4 DEF AssignsDns
  <2> QED
    BY <1>6, <2>1, <2>5, <2>6, <2>7 DEF DirInv, AssignedNext, Ready, vars, kernelVars
<1>7. CASE Finish(h) /\ UNCHANGED files
  <2>1. todo[h] = << >> /\ UNCHANGED fixtureVars /\ Len(<< >>) = 0
    BY <1>7 DEF Finish
  <2>2. phase[h] # "tests"
    BY <2>1 DEF SuiteInv, FixtureInv, ProgramInv, OwnedInv
  <2> QED
    BY <1>7, <2>1, <2>2 DEF DirInv, fixtureVars, Has
<1>8. CASE BeginTearDown(h, TearDownTestCase(owned[h])) /\ UNCHANGED files
  <2>1. /\ Ready(h) /\ todo[h] # << >> /\ Head(todo[h]).do = "teardown" /\ UNCHANGED vars
        /\ todo'[h] = TearDownTestCase(owned[h]) /\ phase'[h] = "teardown"
    BY <1>1, <1>8 DEF BeginTearDown, Comes, FixtureTypeOK
  <2>2. Head(todo[h]) = todo[h][1] /\ 1 \in 1..Len(todo[h])
    BY <1>1, <2>1, HeadFacts
  <2>3. phase[h] = "tests"
    BY <2>1, <2>2 DEF SuiteInv, FixtureInv, ProgramInv, KillsInv, TestOnly
  <2> QED
    BY <1>8, <2>1, <2>2, <2>3, TearDownDir DEF AssignsDns, Ready, vars, kernelVars
<1> QED
  BY <1>3, <1>4, <1>5, <1>6, <1>7, <1>8 DEF Program, FixtureStep

(* A step of program g leaves the directory of another one alone.          *)
LEMMA OthersKeepDir ==
  ASSUME SuiteInv, NEW h \in Roots, DirInv(h), NEW g \in Roots, g # h, DOMAIN files = Roots,
         Program(g) \/ (SignalHandler(g, TearDownTestCase(owned[g])) /\ UNCHANGED files)
  PROVE  DirInv(h)'
<1>1. /\ FixtureTypeOK /\ TypeOK /\ g \in Pids /\ h \in Pids
      /\ todo \in [Roots -> Seq(Steps(On))]
  BY ProcessAssumption DEF SuiteInv, FixtureInv, FixtureTypeOK
<1>2. CASE SignalHandler(g, TearDownTestCase(owned[g])) /\ UNCHANGED files
  <2>1. SameList(h)
    BY <1>1, <1>2 DEF SignalHandler, SameList, FixtureTypeOK
  <2>2. status'[h] = status[h] /\ pc'[h] = pc[h] /\ files'[h] = files[h]
    BY <1>1, <1>2 DEF SignalHandler, kernelVars, TypeOK
  <2> QED
    BY <2>1, <2>2, SameDir
<1>3. CASE Program(g)
  <2>1. SameList(h)
    <3>1. todo'[h] = todo[h]
      BY <1>1, <1>3 DEF Program, FixtureStep, MakeCall, BeginWait, SiteIsUp, SiteNotUp,
         TestBoundary, Own, Disown, Finish, FileStep, BeginTearDown, Advance, fixtureVars
    <3>2. phase'[h] = phase[h] /\ signalled'[h] = signalled[h]
      BY <1>1, <1>3 DEF Program, FixtureStep, MakeCall, BeginWait, SiteIsUp, SiteNotUp,
         TestBoundary, Own, Disown, Finish, FileStep, BeginTearDown, fixtureVars, FixtureTypeOK
    <3>3. owned'[h] = owned[h]
      BY <1>1, <1>3 DEF Program, FixtureStep, MakeCall, BeginWait, SiteIsUp, SiteNotUp,
         TestBoundary, Own, Disown, Finish, FileStep, BeginTearDown, fixtureVars, FixtureTypeOK
    <3> QED
      BY <3>1, <3>2, <3>3 DEF SameList
  <2>2. files'[h] = files[h]
    BY <1>3 DEF Program, FileStep
  <2>3. UNCHANGED vars \/ Call(g) \/ SocketFails(g) \/ Quit(g)
    <3>1. CASE MakeCall(g)
      BY <3>1, MakesCall DEF SuiteInv, FixtureInv, ProgramInv
    <3> QED
      BY <1>3, <3>1 DEF Program, FixtureStep, BeginWait, SiteIsUp, SiteNotUp, TestBoundary,
         Own, Disown, Finish, FileStep, BeginTearDown
  <2>4. status'[h] = status[h] /\ (pc[h] = "idle" => pc'[h] = "idle")
    <3>1. CASE UNCHANGED vars
      BY <3>1 DEF vars, kernelVars, callVars
    <3> QED
      BY <1>1, <2>3, <3>1, NotReaped
  <2> QED
    BY <2>1, <2>2, <2>4, SameDir
<1> QED
  BY <1>2, <1>3

LEMMA SuiteKeepsDir ==
  ASSUME SuiteInv, \A g \in Roots : DirInv(g), DOMAIN files = Roots,
         [SuiteNext]_allVars, NEW h \in Roots
  PROVE  DirInv(h)'
<1>1. CASE UNCHANGED allVars
  BY <1>1, SameDir DEF allVars, vars, kernelVars, callVars, fixtureVars, judgeVars, SameList
<1>2. ASSUME SignalHandler(h, TearDownTestCase(owned[h])) /\ UNCHANGED files
      PROVE  DirInv(h)'
  <2>1. FixtureTypeOK /\ todo \in [Roots -> Seq(Steps(On))]
    BY DEF SuiteInv, FixtureInv
  <2>2. /\ status[h] = "program" /\ status' = status
        /\ todo'[h] = TearDownTestCase(owned[h]) /\ phase'[h] # "tests"
        /\ signalled'[h] = SignalPoint(h)
    BY <1>2, <2>1 DEF SignalHandler, FixtureTypeOK, kernelVars
  <2>3. \/ SignalPoint(h) \in {"unassigned", "teardown"}
        \/ phase[h] = "tests" /\ ~(pc[h] = "idle" /\ AssignsDns(todo[h], 1))
    <3> SUFFICES ASSUME phase[h] = "tests", pc[h] = "idle", AssignsDns(todo[h], 1)
                 PROVE  SignalPoint(h) = "unassigned"
      BY DEF SignalPoint
    <3>1. todo[h] \in Seq(Steps(On)) /\ todo[h] # << >>
      BY EmptySeq DEF SuiteInv, FixtureInv, AssignsDns
    <3>2. Head(todo[h]).do = "own"
      BY <3>1, HeadFacts DEF AssignsDns
    <3> QED
      BY <2>2, <3>1, <3>2 DEF SignalPoint, Comes, Ready
  <2> QED
    BY <1>2, <2>2, <2>3, TearDownDir
<1>3. ASSUME NEW p \in Pids, Step(p) \/ Server(p), UNCHANGED <<fixtureVars, files>>
      PROVE  DirInv(h)'
  BY <1>3, NotReaped, SameDir DEF fixtureVars, SameList
<1> QED
  BY <1>1, <1>2, <1>3, ProgramKeepsDir, OthersKeepDir DEF SuiteNext, ProcessStep

LEMMA InitDir ==
  ASSUME SuiteInit, NEW h \in Roots
  PROVE  DirInv(h)
<1>1. /\ status[h] = "program" /\ phase[h] = "tests" /\ files[h] = {}
  BY ProcessAssumption DEF SuiteInit, FixtureInit, Init
<1>2. PICK sc \in Scenarios : todo = [g \in Roots |-> TestCase(sc)]
  BY DEF SuiteInit
<1> DEFINE n == Len(SiteInstances)
           s == SetUpTestCase
           l == TestCase(sc)
<1>3. /\ Len(l) \in Nat /\ Len(l) > n + 6 /\ n \in Nat
      /\ \A k \in 1..(n + 6) : l[k] = s[k]
      /\ \A k \in (n + 7)..(Len(l) - 1) :
           l[k].do \in {"start", "kill", "restart", "wait", "wait_for_instances",
                        "return_unless_ok", "body", "done"}
      /\ l[Len(l)].do = "teardown"
  BY TestCaseFacts, SiteFacts
<1>4. /\ s[1].do = "create_tmp" /\ s[2].do = "new_site" /\ s[3].do = "own"
      /\ \A k \in 4..(n + 3) : s[k].do = "start"
      /\ s[n + 5].do = "own" /\ s[n + 5].on = "dnsmasq"
      /\ s[n + 6].do = "start"
  BY SetUpTestCaseFacts
<1> HIDE DEF n, s, l
<1>5. ASSUME NEW k \in 1..Len(l), l[k].do = "new_dnsmasq"
      PROVE  AssignsDns(l, k + 1)
  <2>1. \/ k \in {1, 2, 3, n + 5, n + 6} \/ k \in 4..(n + 3) \/ k = n + 4
        \/ k \in (n + 7)..(Len(l) - 1) \/ k = Len(l)
    BY <1>3
  <2>2. {1, 2, 3, n + 5, n + 6} \subseteq 1..(n + 6) /\ \A j \in 4..(n + 3) : j \in 1..(n + 6)
    BY <1>3
  <2>3. k \notin {1, 2, 3, n + 5, n + 6} /\ k \notin 4..(n + 3)
    BY <1>3, <1>4, <1>5, <2>2
  <2>4. k = n + 4
    BY <1>3, <1>5, <2>1, <2>3
  <2>5. k + 1 = n + 5 /\ n + 5 \in 1..Len(l) /\ l[n + 5] = s[n + 5]
    BY <1>3, <2>2, <2>4
  <2> QED
    BY <1>4, <2>5 DEF AssignsDns
<1> QED
  BY <1>1, <1>2, <1>5 DEF DirInv, AssignedNext, l

(* A test program that has ended, however and wherever a signal hit it,    *)
(* has left nothing in tmp, and the configuration of dnsmasq only if a     *)
(* signal hit it before the instance was assigned or in a tear-down.       *)
THEOREM DirectoryCleanedUp == SuiteSpec => []FilesGone
<1> DEFINE Dirs == (\A h \in Roots : DirInv(h)) /\ DOMAIN files = Roots
<1>1. SuiteInit => Dirs
  BY InitDir DEF SuiteInit
<1>2. SuiteInv /\ Dirs /\ [SuiteNext]_allVars => Dirs'
  <2> SUFFICES ASSUME SuiteInv, Dirs, [SuiteNext]_allVars
               PROVE  Dirs'
    OBVIOUS
  <2>1. \A h \in Roots : DirInv(h)'
    BY SuiteKeepsDir
  <2>2. DOMAIN files' = Roots
    BY DEF SuiteNext, Program, ProcessStep, FileStep, allVars
  <2> QED
    BY <2>1, <2>2
<1>3. Dirs => FilesGone
  <2> SUFFICES ASSUME NEW h \in Roots, DirInv(h), status[h] = "reaped"
               PROVE  /\ files[h] \subseteq {"cfg"}
                      /\ files[h] = {} \/ signalled[h] \in {"unassigned", "teardown"}
    BY DEF FilesGone
  <2>1. todo[h] = << >> /\ phase[h] # "tests" /\ Len(<< >>) = 0
    BY DEF DirInv
  <2>2. ~Has(todo[h], "remove_tmp", None) /\ ~Has(todo[h], "remove_cfg", None)
    BY <2>1 DEF Has
  <2> QED
    BY <2>1, <2>2 DEF DirInv
<1> QED
  BY <1>1, <1>2, <1>3, SuiteInductive, PTL DEF SuiteSpec
=============================================================================
