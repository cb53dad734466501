------------------------- MODULE S4SolutionTestProofs -------------------------
(***************************************************************************)
(* Theorems of S4SolutionTest, for any two sites, with any memcached and   *)
(* rogers instances and up to two chronos instances each.                  *)
(***************************************************************************)
EXTENDS S4SolutionTest, TestFixtureProofs

-----------------------------------------------------------------------------
(* The servers and the statics that hold them *)

On == Instances \cup Statics \cup {None} \cup (Names \X (1..2))

InSite(i, n) == \E k \in 1..Len(SiteInstances(n)) : SiteInstances(n)[k] = i

(* What holds an instance that is not one of the test case.                *)
NoStatic == {s \in Statics : s \notin s}

StaticOf ==
  [i \in Instances |-> IF i = Dnsmasq THEN "dnsmasq"
                       ELSE IF InSite(i, Site1) THEN Site1
                       ELSE IF InSite(i, Site2) THEN Site2 ELSE NoStatic]

LEMMA NoStaticIsNone == NoStatic \notin Statics
  BY DEF NoStatic

LEMMA SiteFacts ==
  ASSUME NEW n \in Names
  PROVE  /\ Memcacheds[n] \in Seq(Instances) /\ Rogerses[n] \in Seq(Instances)
         /\ Chronoses[n] \in Seq(Instances) /\ Len(Chronoses[n]) \in 0..2
         /\ Memcacheds[n] \o Rogerses[n] \in Seq(Instances)
         /\ SiteInstances(n) \in Seq(Instances)
         /\ Len(SiteInstances(n)) \in Nat
         /\ DOMAIN SiteInstances(n) = 1..Len(SiteInstances(n))
         /\ \A k \in 1..Len(SiteInstances(n)) : SiteInstances(n)[k] \in Instances
<1>1. /\ Memcacheds[n] \in Seq(Instances) /\ Rogerses[n] \in Seq(Instances)
      /\ Chronoses[n] \in Seq(Instances) /\ Len(Chronoses[n]) <= 2
  BY S4Assumption
<1>2. Len(Chronoses[n]) \in 0..2
  <2> DEFINE m == Len(Chronoses[n])
  <2>1. m \in Nat /\ m <= 2
    BY <1>1, LenProperties
  <2> HIDE DEF m
  <2>2. m \in 0..2
    BY <2>1
  <2> QED
    BY <2>2 DEF m
<1>3. Memcacheds[n] \o Rogerses[n] \in Seq(Instances)
  BY <1>1, ConcatProperties
<1>4. SiteInstances(n) \in Seq(Instances)
  BY <1>1, <1>3, ConcatProperties DEF SiteInstances
<1> QED
  BY <1>1, <1>2, <1>3, <1>4, LenProperties

(* The servers of the sites are different objects, and none is dnsmasq.    *)
LEMMA ServersDiffer ==
  /\ \A n \in Names : \A j, k \in 1..Len(SiteInstances(n)) :
       SiteInstances(n)[j] = SiteInstances(n)[k] => j = k
  /\ \A i : ~(InSite(i, Site1) /\ InSite(i, Site2))
  /\ \A n \in Names : ~InSite(Dnsmasq, n)
<1> DEFINE s == SiteInstances(Site1)
           t == SiteInstances(Site2)
           u == s \o t
           x == <<Dnsmasq>>
           l == u \o x
<1>1. s \in Seq(Instances) /\ t \in Seq(Instances)
  BY SiteFacts, S4Assumption
<1>2. x \in Seq(Instances) /\ Len(x) = 1 /\ x[1] = Dnsmasq
  BY S4Assumption
<1>3. \A j, k \in DOMAIN l : l[j] = l[k] => j = k
  BY S4Assumption DEF AllServers
<1> HIDE DEF s, t, x
<1>4. /\ Len(s) \in Nat /\ Len(t) \in Nat
      /\ u \in Seq(Instances) /\ Len(u) = Len(s) + Len(t)
      /\ \A k \in 1..Len(s) : k \in 1..Len(u) /\ u[k] = s[k]
      /\ \A k \in 1..Len(t) : Len(s) + k \in 1..Len(u) /\ u[Len(s) + k] = t[k]
  BY <1>1, Joined
<1> HIDE DEF u
<1>5. /\ l \in Seq(Instances)
      /\ \A k \in 1..Len(u) : k \in 1..Len(l) /\ l[k] = u[k]
      /\ \A k \in 1..Len(x) : Len(u) + k \in 1..Len(l) /\ l[Len(u) + k] = x[k]
  <2>1. u \in Seq(Instances) /\ x \in Seq(Instances)
    BY <1>2, <1>4
  <2> QED
    BY <2>1, Joined
<1>6. DOMAIN l = 1..Len(l)
  BY <1>5, LenProperties
<1> HIDE DEF l
<1>7. \A j, k \in 1..Len(l) : l[j] = l[k] => j = k
  BY <1>3, <1>6
<1>8. \A j, k \in 1..Len(u) : u[j] = u[k] => j = k
  BY <1>5, <1>7
<1>9. \A j \in 1..Len(u) : u[j] # Dnsmasq
  <2>1. Len(u) + 1 \in 1..Len(l) /\ l[Len(u) + 1] = Dnsmasq
    BY <1>2, <1>5
  <2>2. \A j \in 1..Len(u) : j # Len(u) + 1
    BY <1>4
  <2> QED
    BY <1>5, <1>7, <2>1, <2>2
<1>10. \A j, k \in 1..Len(s) : s[j] = s[k] => j = k
  BY <1>4, <1>8
<1>11. \A j, k \in 1..Len(t) : t[j] = t[k] => j = k
  <2> SUFFICES ASSUME NEW j \in 1..Len(t), NEW k \in 1..Len(t), t[j] = t[k]
               PROVE  j = k
    OBVIOUS
  <2>1. Len(s) + j = Len(s) + k
    BY <1>4, <1>8
  <2> QED
    BY <1>4, <2>1
<1>12. \A j \in 1..Len(s), k \in 1..Len(t) : s[j] # t[k]
  <2>1. \A j \in 1..Len(s), k \in 1..Len(t) : j # Len(s) + k
    BY <1>4
  <2> QED
    BY <1>4, <1>8, <2>1
<1>13. (\A j \in 1..Len(s) : s[j] # Dnsmasq) /\ (\A j \in 1..Len(t) : t[j] # Dnsmasq)
  BY <1>4, <1>9
<1>14. \A n \in Names : n = Site1 \/ n = Site2
  BY S4Assumption
<1> QED
  BY <1>10, <1>11, <1>12, <1>13, <1>14 DEF InSite, s, t

LEMMA StaticFacts ==
  /\ Site1 \in Names /\ Site2 \in Names /\ Site1 # Site2
  /\ "dnsmasq" \notin Names /\ Statics = Names \cup {"dnsmasq"}
  /\ Dnsmasq \in Instances /\ StaticOf[Dnsmasq] = "dnsmasq"
  /\ \A n \in Names : \A i : InSite(i, n) => i \in Instances /\ StaticOf[i] = n
  /\ \A i \in Instances : StaticOf[i] \in Statics =>
       \/ i = Dnsmasq
       \/ StaticOf[i] \in Names /\ InSite(i, StaticOf[i])
<1>1. /\ Site1 \in Names /\ Site2 \in Names /\ Site1 # Site2
      /\ \A n \in Names : n = Site1 \/ n = Site2
      /\ "dnsmasq" \notin Names /\ Statics = Names \cup {"dnsmasq"}
      /\ Dnsmasq \in Instances
  BY S4Assumption
<1>2. \A n \in Names : \A i : InSite(i, n) => i \in Instances
  BY SiteFacts DEF InSite
<1>3. \A n \in Names : \A i : InSite(i, n) => StaticOf[i] = n
  BY <1>1, <1>2, ServersDiffer DEF StaticOf
<1>4. StaticOf[Dnsmasq] = "dnsmasq"
  BY <1>1 DEF StaticOf
<1>5. \A i \in Instances : StaticOf[i] \in Statics =>
        \/ i = Dnsmasq
        \/ StaticOf[i] \in Names /\ InSite(i, StaticOf[i])
  BY <1>1, NoStaticIsNone DEF StaticOf
<1> QED
  BY <1>1, <1>2, <1>3, <1>4, <1>5

-----------------------------------------------------------------------------
(* Lists of steps of given kinds *)

Calling == {"start", "kill", "restart", "wait"}

(* What each kind of step is on.                                           *)
Fits(what, i) ==
  /\ what \in Calling => i \in Instances
  /\ what \in {"new_site", "remove_site"} => i \in Names
  /\ what = "remove_chronos" => i \in Names \X (1..2)

StepsOf(kinds) == {s \in Steps(On) : s.do \in kinds /\ Fits(s.do, s.on)}

LEMMA MoreKinds ==
  ASSUME NEW K, NEW L, K \subseteq L
  PROVE  Seq(StepsOf(K)) \subseteq Seq(StepsOf(L)) /\ Seq(StepsOf(K)) \subseteq Seq(Steps(On))
<1>1. StepsOf(K) \subseteq StepsOf(L) /\ StepsOf(K) \subseteq Steps(On)
  BY DEF StepsOf
<1> DEFINE A == StepsOf(K)
           B == StepsOf(L)
           C == Steps(On)
<1> HIDE DEF A, B, C
<1>2. A \subseteq B /\ A \subseteq C
  BY <1>1 DEF A, B, C
<1>3. Seq(A) \subseteq Seq(B) /\ Seq(A) \subseteq Seq(C)
  BY <1>2
<1> QED
  BY <1>3 DEF A, B, C

LEMMA KindsFacts ==
  ASSUME NEW K, NEW l \in Seq(StepsOf(K))
  PROVE  /\ Len(l) \in Nat /\ l \in Seq(Steps(On))
         /\ \A k \in 1..Len(l) :
              /\ l[k] \in Steps(On) /\ l[k].do \in K /\ Fits(l[k].do, l[k].on)
              /\ l[k].do \in Calling => l[k].on \in Instances
<1>1. Len(l) \in Nat /\ \A k \in 1..Len(l) : l[k] \in StepsOf(K)
  BY LenProperties
<1>2. l \in Seq(Steps(On))
  BY MoreKinds
<1> QED
  BY <1>1, <1>2 DEF StepsOf, Fits

LEMMA JoinedKinds ==
  ASSUME NEW K, NEW s \in Seq(StepsOf(K)), NEW t \in Seq(StepsOf(K))
  PROVE  s \o t \in Seq(StepsOf(K))
BY ConcatProperties

LEMMA DoFacts ==
  ASSUME NEW what \in Kinds, NEW i \in On, Fits(what, i)
  PROVE  /\ Do(what, i) \in StepsOf({what})
         /\ Do(what, i).do = what /\ Do(what, i).on = i
BY DEF Do, Steps, StepsOf

LEMMA MarkFacts ==
  ASSUME NEW what \in Kinds \ Calling, what \notin {"new_site", "remove_site", "remove_chronos"}
  PROVE  Mark(what) \in StepsOf({what}) /\ Mark(what).do = what
BY DoFacts DEF Mark, On, Fits

LEMMA OneStep ==
  ASSUME NEW K, NEW what \in K, NEW a \in StepsOf({what})
  PROVE  <<a>> \in Seq(StepsOf(K)) /\ Len(<<a>>) = 1 /\ <<a>>[1] = a
<1>1. a \in StepsOf(K)
  BY DEF StepsOf
<1> QED
  BY <1>1

LEMMA EachFacts ==
  ASSUME NEW what \in {"start", "kill"}, NEW s \in Seq(Instances)
  PROVE  LET l == ForEachInstance(what, s) IN
         /\ l \in Seq(StepsOf({what})) /\ Len(l) = Len(s) /\ Len(s) \in Nat
         /\ \A k \in 1..Len(s) : l[k].do = what /\ l[k].on = s[k] /\ s[k] \in Instances
<1> DEFINE l == ForEachInstance(what, s)
<1>1. Len(s) \in Nat /\ DOMAIN s = 1..Len(s) /\ \A k \in 1..Len(s) : s[k] \in Instances
  BY LenProperties
<1>2. l = [k \in 1..Len(s) |-> Do(what, s[k])]
  BY <1>1 DEF ForEachInstance
<1>3. ASSUME NEW k \in 1..Len(s)
      PROVE  /\ Do(what, s[k]) \in StepsOf({what})
             /\ Do(what, s[k]).do = what /\ Do(what, s[k]).on = s[k]
  BY <1>1, DoFacts DEF Kinds, TestOnly, On, Fits
<1>4. l \in Seq(StepsOf({what})) /\ Len(l) = Len(s)
  <2> DEFINE S == StepsOf({what})
             d(k) == Do(what, s[k])
  <2>1. \A k \in 1..Len(s) : d(k) \in S
    BY <1>3
  <2>2. l = [k \in 1..Len(s) |-> d(k)]
    BY <1>2
  <2> HIDE DEF S, d, l
  <2>3. l \in [1..Len(s) -> S]
    BY <2>1, <2>2
  <2>4. l \in Seq(S) /\ Len(l) = Len(s)
    BY <1>1, <2>3
  <2> QED
    BY <2>4 DEF S
<1> QED
  BY <1>1, <1>2, <1>3, <1>4

-----------------------------------------------------------------------------
(* What the list of a test case has to be *)

Builds(step, static) ==
  \/ step.do = "new_site" /\ step.on = static
  \/ step.do = "new_dnsmasq" /\ static = "dnsmasq"

Owns(step, static) == step.do = "own" /\ step.on = static

(* A list starts an instance once, when its static is set, which in turn   *)
(* is built before.  Statics is those of the instances that it starts.     *)
Ordered(l, statics) ==
  \A k \in 1..Len(l) :
    /\ l[k].do = "start" =>
         /\ StaticOf[l[k].on] \in statics
         /\ \A j \in 1..(k - 1) : ~Starts(l[j], l[k].on)
         /\ \E j \in 1..(k - 1) : Owns(l[j], StaticOf[l[k].on])
    /\ l[k].do = "own" => \E j \in 1..(k - 1) : Builds(l[j], l[k].on)

(* What is built is assigned to its static next.                           *)
AssignedNext(l) ==
  \A k \in 1..Len(l) : \A static \in Statics :
    Builds(l[k], static) => k + 1 \in 1..Len(l) /\ Owns(l[k + 1], static)

(* It waits for no server once it has killed one.                          *)
KillsLast(l) ==
  \A j, k \in 1..Len(l) : l[j].do = "kill" /\ l[k].do = "wait" => k < j

StartKinds == {"create_tmp", "new_site", "new_dnsmasq", "own", "start"}
WaitKinds  == {"new_s4_sites", "wait", "wait_for_instances", "return_unless_ok", "body", "done",
               "delete_s4_sites"}
TestKinds  == WaitKinds \cup {"kill", "teardown"}

LEMMA JoinedOrdered ==
  ASSUME NEW s \in Seq(StepsOf(StartKinds)), NEW t \in Seq(StepsOf(StartKinds)), NEW M, NEW N,
         Ordered(s, M), Ordered(t, N), M \cap N = {}
  PROVE  Ordered(s \o t, M \cup N)
<1> DEFINE u == s \o t
           S == StepsOf(StartKinds)
<1>1. \A a \in S : ~(a.do = "restart")
  BY DEF StepsOf, StartKinds
<1>2. s \in Seq(S) /\ t \in Seq(S)
  OBVIOUS
<1> HIDE DEF S
<1>3. /\ Len(s) \in Nat /\ Len(t) \in Nat
      /\ u \in Seq(S) /\ Len(u) = Len(s) + Len(t)
      /\ \A k \in 1..Len(s) : k \in 1..Len(u) /\ u[k] = s[k]
      /\ \A k \in 1..Len(t) : Len(s) + k \in 1..Len(u) /\ u[Len(s) + k] = t[k]
      /\ \A k \in 1..Len(u) : k > Len(s) => k - Len(s) \in 1..Len(t) /\ u[k] = t[k - Len(s)]
  BY <1>2, Joined
<1>4. \A k \in 1..Len(s) : s[k] \in S
  BY <1>2, LenProperties
<1> HIDE DEF u
<1>5. ASSUME NEW k \in 1..Len(s)
      PROVE  /\ u[k].do = "start" =>
                  /\ StaticOf[u[k].on] \in M
                  /\ \A j \in 1..(k - 1) : ~Starts(u[j], u[k].on)
                  /\ \E j \in 1..(k - 1) : Owns(u[j], StaticOf[u[k].on])
             /\ u[k].do = "own" => \E j \in 1..(k - 1) : Builds(u[j], u[k].on)
  <2>1. u[k] = s[k] /\ \A j \in 1..(k - 1) : u[j] = s[j]
    BY <1>3
  <2> QED
    BY <2>1 DEF Ordered
<1>6. ASSUME NEW k \in 1..Len(t)
      PROVE  LET m == Len(s) + k IN
             /\ u[m].do = "start" =>
                  /\ StaticOf[u[m].on] \in N
                  /\ \A j \in 1..(m - 1) : ~Starts(u[j], u[m].on)
                  /\ \E j \in 1..(m - 1) : Owns(u[j], StaticOf[u[m].on])
             /\ u[m].do = "own" => \E j \in 1..(m - 1) : Builds(u[j], u[m].on)
  <2> DEFINE m == Len(s) + k
  <2>1. /\ u[m] = t[k]
        /\ \A j \in 1..(k - 1) : Len(s) + j \in 1..(m - 1) /\ u[Len(s) + j] = t[j]
        /\ \A j \in 1..(m - 1) : \/ j \in 1..Len(s) /\ u[j] = s[j]
                                 \/ j - Len(s) \in 1..(k - 1) /\ u[j] = t[j - Len(s)]
    <3>1. \A j \in 1..(k - 1) : j \in 1..Len(t) /\ Len(s) + j \in 1..(m - 1)
      BY <1>3
    <3>2. ASSUME NEW j \in 1..(m - 1)
          PROVE  \/ j \in 1..Len(s)
                 \/ j \in 1..Len(u) /\ j > Len(s) /\ j - Len(s) \in 1..(k - 1)
      BY <1>3
    <3> HIDE DEF m
    <3>3. u[m] = t[k]
      BY <1>3 DEF m
    <3>4. \A j \in 1..(k - 1) : Len(s) + j \in 1..(m - 1) /\ u[Len(s) + j] = t[j]
      BY <1>3, <3>1
    <3>5. \A j \in 1..(m - 1) : \/ j \in 1..Len(s) /\ u[j] = s[j]
                                \/ j - Len(s) \in 1..(k - 1) /\ u[j] = t[j - Len(s)]
      <4> SUFFICES ASSUME NEW j \in 1..(m - 1)
                   PROVE  \/ j \in 1..Len(s) /\ u[j] = s[j]
                          \/ j - Len(s) \in 1..(k - 1) /\ u[j] = t[j - Len(s)]
        OBVIOUS
      <4>1. CASE j \in 1..Len(s)
        BY <1>3, <4>1
      <4>2. CASE j \in 1..Len(u) /\ j > Len(s) /\ j - Len(s) \in 1..(k - 1)
        BY <1>3, <4>2
      <4> QED
        BY <3>2, <4>1, <4>2
    <3> QED
      BY <3>3, <3>4, <3>5
  <2> HIDE DEF m
  <2>2. ASSUME t[k].do = "start"
        PROVE  /\ StaticOf[u[m].on] \in N
               /\ \A j \in 1..(m - 1) : ~Starts(u[j], u[m].on)
               /\ \E j \in 1..(m - 1) : Owns(u[j], StaticOf[u[m].on])
    <3>1. /\ StaticOf[t[k].on] \in N
          /\ \A j \in 1..(k - 1) : ~Starts(t[j], t[k].on)
          /\ \E j \in 1..(k - 1) : Owns(t[j], StaticOf[t[k].on])
      BY <2>2 DEF Ordered
    <3>2. \A j \in 1..Len(s) : ~Starts(s[j], t[k].on)
      <4> SUFFICES ASSUME NEW j \in 1..Len(s), Starts(s[j], t[k].on)
                   PROVE  FALSE
        OBVIOUS
      <4>1. s[j].do = "start" /\ s[j].on = t[k].on
        BY <1>1, <1>4 DEF Starts
      <4>2. StaticOf[s[j].on] \in M
        BY <4>1 DEF Ordered
      <4> QED
        BY <3>1, <4>1, <4>2
    <3>3. \A j \in 1..(m - 1) : ~Starts(u[j], u[m].on)
      BY <2>1, <3>1, <3>2
    <3> QED
      BY <2>1, <3>1, <3>3
  <2>3. u[m].do = "own" => \E j \in 1..(m - 1) : Builds(u[j], u[m].on)
    <3>1. t[k].do = "own" => \E j \in 1..(k - 1) : Builds(t[j], t[k].on)
      BY DEF Ordered
    <3> QED
      BY <2>1, <3>1
  <2> QED
    BY <2>1, <2>2, <2>3 DEF m
<1>7. ASSUME NEW k \in 1..Len(u)
      PROVE  /\ u[k].do = "start" =>
                  /\ StaticOf[u[k].on] \in M \cup N
                  /\ \A j \in 1..(k - 1) : ~Starts(u[j], u[k].on)
                  /\ \E j \in 1..(k - 1) : Owns(u[j], StaticOf[u[k].on])
             /\ u[k].do = "own" => \E j \in 1..(k - 1) : Builds(u[j], u[k].on)
  <2>1. CASE k <= Len(s)
    <3>1. k \in 1..Len(s)
      BY <2>1
    <3> QED
      BY <1>5, <3>1
  <2>2. CASE k > Len(s)
    <3> DEFINE j == k - Len(s)
    <3>1. j \in 1..Len(t) /\ k = Len(s) + j
      BY <1>3, <2>2
    <3> HIDE DEF j
    <3> QED
      BY <1>6, <3>1
  <2> QED
    BY <1>3, <2>1, <2>2
<1>8. Ordered(u, M \cup N)
  BY <1>7 DEF Ordered
<1> QED
  BY <1>8 DEF u

LEMMA JoinedAssigned ==
  ASSUME NEW S, NEW s \in Seq(S), NEW t \in Seq(S), AssignedNext(s), AssignedNext(t)
  PROVE  AssignedNext(s \o t)
<1> DEFINE u == s \o t
<1>1. /\ Len(s) \in Nat /\ Len(t) \in Nat
      /\ Len(u) = Len(s) + Len(t)
      /\ \A k \in 1..Len(s) : k \in 1..Len(u) /\ u[k] = s[k]
      /\ \A k \in 1..Len(t) : Len(s) + k \in 1..Len(u) /\ u[Len(s) + k] = t[k]
      /\ \A k \in 1..Len(u) : k > Len(s) => k - Len(s) \in 1..Len(t) /\ u[k] = t[k - Len(s)]
  BY Joined
<1> HIDE DEF u
<1>2. ASSUME NEW k \in 1..Len(u), NEW static \in Statics, Builds(u[k], static)
      PROVE  k + 1 \in 1..Len(u) /\ Owns(u[k + 1], static)
  <2>1. CASE k <= Len(s)
    <3>1. k \in 1..Len(s) /\ u[k] = s[k]
      BY <1>1, <2>1
    <3>2. k + 1 \in 1..Len(s) /\ Owns(s[k + 1], static)
      BY <1>2, <3>1 DEF AssignedNext
    <3> QED
      BY <1>1, <3>2
  <2>2. CASE k > Len(s)
    <3> DEFINE m == k - Len(s)
    <3>1. m \in 1..Len(t) /\ u[k] = t[m] /\ k + 1 = Len(s) + (m + 1)
      BY <1>1, <2>2
    <3> HIDE DEF m
    <3>2. m + 1 \in 1..Len(t) /\ Owns(t[m + 1], static)
      BY <1>2, <3>1 DEF AssignedNext
    <3> QED
      BY <1>1, <3>1, <3>2
  <2> QED
    BY <1>1, <2>1, <2>2
<1>3. AssignedNext(u)
  BY <1>2 DEF AssignedNext
<1> QED
  BY <1>3 DEF u

(* A list that builds nothing.                                             *)
LEMMA NothingBuilt ==
  ASSUME NEW l, \A k \in 1..Len(l) : l[k].do \notin {"new_site", "new_dnsmasq"}
  PROVE  AssignedNext(l)
BY DEF AssignedNext, Builds

LEMMA JoinedKillsLast ==
  ASSUME NEW S, NEW s \in Seq(S), NEW t \in Seq(S), KillsLast(s), KillsLast(t),
         \/ \A k \in 1..Len(s) : s[k].do # "kill"
         \/ \A k \in 1..Len(t) : t[k].do # "wait"
  PROVE  KillsLast(s \o t)
<1> DEFINE u == s \o t
<1>1. /\ Len(s) \in Nat /\ Len(t) \in Nat
      /\ Len(u) = Len(s) + Len(t)
      /\ \A k \in 1..Len(s) : u[k] = s[k]
      /\ \A k \in 1..Len(u) : k > Len(s) => k - Len(s) \in 1..Len(t) /\ u[k] = t[k - Len(s)]
  BY Joined
<1> HIDE DEF u
<1>2. ASSUME NEW j \in 1..Len(u), NEW k \in 1..Len(u), u[j].do = "kill", u[k].do = "wait"
      PROVE  k < j
  <2>1. (j <= Len(s) => j \in 1..Len(s)) /\ (k <= Len(s) => k \in 1..Len(s))
    OBVIOUS
  <2>2. CASE j <= Len(s) /\ k <= Len(s)
    BY <1>1, <1>2, <2>1, <2>2 DEF KillsLast
  <2>3. CASE j > Len(s) /\ k > Len(s)
    <3>1. k - Len(s) < j - Len(s)
      BY <1>1, <1>2, <2>3 DEF KillsLast
    <3> QED
      BY <1>1, <3>1
  <2>4. CASE j > Len(s) /\ k <= Len(s)
    BY <1>1, <2>4
  <2>5. CASE j <= Len(s) /\ k > Len(s)
    BY <1>1, <1>2, <2>1, <2>5
  <2> QED
    BY <1>1, <2>2, <2>3, <2>4, <2>5
<1>3. KillsLast(u)
  BY <1>2 DEF KillsLast
<1> QED
  BY <1>3 DEF u

-----------------------------------------------------------------------------
(* The list of the test case *)

LEMMA Triple ==
  ASSUME NEW S, NEW a \in S, NEW b \in S, NEW c \in S
  PROVE  /\ <<a, b, c>> \in Seq(S) /\ Len(<<a, b, c>>) = 3
         /\ <<a, b, c>>[1] = a /\ <<a, b, c>>[2] = b /\ <<a, b, c>>[3] = c
         /\ \A k \in 1..3 : k = 1 \/ k = 2 \/ k = 3
OBVIOUS

LEMMA Pair ==
  ASSUME NEW S, NEW a \in S, NEW b \in S
  PROVE  /\ <<a, b>> \in Seq(S) /\ Len(<<a, b>>) = 2
         /\ <<a, b>>[1] = a /\ <<a, b>>[2] = b
         /\ \A k \in 1..2 : k = 1 \/ k = 2
OBVIOUS

LEMMA DnsOrdered ==
  /\ CreateAndStartDns \in Seq(StepsOf(StartKinds)) /\ Ordered(CreateAndStartDns, {"dnsmasq"})
  /\ AssignedNext(CreateAndStartDns)
<1> DEFINE a == Mark("new_dnsmasq")
           b == Do("own", "dnsmasq")
           c == Do("start", Dnsmasq)
           S == StepsOf(StartKinds)
           l == <<a, b, c>>
<1>1. /\ a \in S /\ a.do = "new_dnsmasq"
      /\ b \in S /\ b.do = "own" /\ b.on = "dnsmasq"
      /\ c \in S /\ c.do = "start" /\ c.on = Dnsmasq
  <2>1. "dnsmasq" \in On /\ Dnsmasq \in Instances /\ Dnsmasq \in On
    BY StaticFacts DEF On
  <2>2. {"new_dnsmasq", "own", "start"} \subseteq Kinds
    BY DEF Kinds, TestOnly
  <2>3. "new_dnsmasq" \notin Calling /\ "own" \notin Calling
    BY DEF Calling
  <2> QED
    BY <2>1, <2>2, <2>3, DoFacts, MarkFacts DEF StepsOf, StartKinds, Fits
<1>2. l = CreateAndStartDns
  BY DEF CreateAndStartDns
<1> HIDE DEF a, b, c, S
<1>3. /\ l \in Seq(S) /\ Len(l) = 3 /\ l[1] = a /\ l[2] = b /\ l[3] = c
      /\ \A k \in 1..3 : k = 1 \/ k = 2 \/ k = 3
  BY <1>1, Triple
<1>4. 1 \in 1..(2 - 1) /\ 2 \in 1..(3 - 1) /\ \A j \in 1..(3 - 1) : j = 1 \/ j = 2
  OBVIOUS
<1> HIDE DEF l
<1>5. Ordered(l, {"dnsmasq"})
  <2> SUFFICES ASSUME NEW k \in 1..Len(l)
               PROVE  /\ l[k].do = "start" =>
                           /\ StaticOf[l[k].on] = "dnsmasq"
                           /\ \A j \in 1..(k - 1) : ~Starts(l[j], l[k].on)
                           /\ \E j \in 1..(k - 1) : Owns(l[j], StaticOf[l[k].on])
                      /\ l[k].do = "own" => \E j \in 1..(k - 1) : Builds(l[j], l[k].on)
    BY DEF Ordered
  <2> QED
    BY <1>1, <1>3, <1>4, StaticFacts DEF Starts, Owns, Builds
<1>6. AssignedNext(l)
  <2>1. 1 + 1 = 2 /\ 2 \in 1..Len(l)
    BY <1>3
  <2> QED
    BY <1>1, <1>3, <2>1 DEF AssignedNext, Owns, Builds
<1> QED
  BY <1>2, <1>3, <1>5, <1>6 DEF S

LEMMA SiteOrdered ==
  ASSUME NEW n \in Names
  PROVE  /\ CreateAndStartSite(n) \in Seq(StepsOf(StartKinds))
         /\ Ordered(CreateAndStartSite(n), {n})
         /\ AssignedNext(CreateAndStartSite(n))
<1> DEFINE a == Do("new_site", n)
           b == Do("own", n)
           w == SiteInstances(n)
           f == ForEachInstance("start", w)
           S == StepsOf(StartKinds)
           e == <<a, b>>
           l == e \o f
<1>1. /\ a \in S /\ a.do = "new_site" /\ a.on = n
      /\ b \in S /\ b.do = "own" /\ b.on = n
  <2>1. n \in On
    BY StaticFacts DEF On
  <2>2. {"new_site", "own"} \subseteq Kinds
    BY DEF Kinds, TestOnly
  <2>3. "new_site" \notin Calling /\ "own" \notin Calling
    BY DEF Calling
  <2> QED
    BY <2>1, <2>2, <2>3, DoFacts DEF StepsOf, StartKinds, Fits
<1>2. /\ f \in Seq(S) /\ Len(f) = Len(w) /\ Len(w) \in Nat
      /\ \A k \in 1..Len(w) : f[k].do = "start" /\ f[k].on = w[k]
  <2>1. w \in Seq(Instances) /\ {"start"} \subseteq StartKinds
    BY SiteFacts DEF StartKinds
  <2>2. Seq(StepsOf({"start"})) \subseteq Seq(StepsOf(StartKinds))
    BY <2>1, MoreKinds
  <2> QED
    BY <2>1, <2>2, EachFacts
<1>3. l = CreateAndStartSite(n)
  BY DEF CreateAndStartSite
<1>4. /\ \A j, k \in 1..Len(w) : w[j] = w[k] => j = k
      /\ \A k \in 1..Len(w) : StaticOf[w[k]] = n
  BY ServersDiffer, StaticFacts DEF InSite
<1> HIDE DEF a, b, f, w, S
<1>5. e \in Seq(S) /\ Len(e) = 2 /\ e[1] = a /\ e[2] = b
  BY <1>1, Pair
<1> HIDE DEF e
<1>6. /\ l \in Seq(S) /\ Len(l) = 2 + Len(w)
      /\ \A k \in 1..2 : l[k] = e[k]
      /\ \A k \in 1..Len(w) : l[2 + k] = f[k]
  <2>1. /\ l \in Seq(S) /\ Len(l) = Len(e) + Len(f)
        /\ \A k \in 1..Len(e) : l[k] = e[k]
        /\ \A k \in 1..Len(f) : l[Len(e) + k] = f[k]
    <3>1. e \in Seq(S) /\ f \in Seq(S)
      BY <1>2, <1>5
    <3> QED
      BY <3>1, Joined
  <2> HIDE DEF l
  <2> QED
    BY <1>2, <1>5, <2>1
<1> HIDE DEF l
<1>7. l[1] = a /\ l[2] = b
  BY <1>5, <1>6
<1>8. Ordered(l, {n})
  <2> SUFFICES ASSUME NEW k \in 1..Len(l)
               PROVE  /\ l[k].do = "start" =>
                           /\ StaticOf[l[k].on] = n
                           /\ \A j \in 1..(k - 1) : ~Starts(l[j], l[k].on)
                           /\ \E j \in 1..(k - 1) : Owns(l[j], StaticOf[l[k].on])
                      /\ l[k].do = "own" => \E j \in 1..(k - 1) : Builds(l[j], l[k].on)
    BY DEF Ordered
  <2>1. CASE k = 1 \/ k = 2
    <3>1. 1 \in 1..(2 - 1)
      OBVIOUS
    <3> QED
      BY <1>1, <1>7, <2>1, <3>1 DEF Builds
  <2>2. CASE k > 2
    <3> DEFINE m == k - 2
    <3>1. m \in 1..Len(w) /\ k = 2 + m
      BY <1>2, <1>6, <2>2
    <3> HIDE DEF m
    <3>2. l[k].do = "start" /\ l[k].on = w[m] /\ StaticOf[w[m]] = n
      BY <1>2, <1>4, <1>6, <3>1
    <3>3. ASSUME NEW j \in 1..(k - 1)
          PROVE  ~Starts(l[j], w[m])
      <4>1. CASE j = 1 \/ j = 2
        BY <1>1, <1>7, <4>1 DEF Starts
      <4>2. CASE j > 2
        <5>1. j - 2 \in 1..Len(w) /\ j - 2 # m /\ j = 2 + (j - 2)
          BY <3>1, <4>2
        <5>2. l[j].on = w[j - 2]
          BY <1>2, <1>6, <5>1
        <5> QED
          BY <1>4, <3>1, <5>1, <5>2 DEF Starts
      <4> QED
        BY <4>1, <4>2
    <3>4. 2 \in 1..(k - 1)
      BY <2>2
    <3> QED
      BY <1>1, <1>7, <3>2, <3>3, <3>4 DEF Owns
  <2> QED
    BY <2>1, <2>2
<1>9. AssignedNext(l)
  <2> SUFFICES ASSUME NEW k \in 1..Len(l), NEW static \in Statics, Builds(l[k], static)
               PROVE  k + 1 \in 1..Len(l) /\ Owns(l[k + 1], static)
    BY DEF AssignedNext
  <2>1. CASE k = 1
    <3>1. k + 1 = 2 /\ 2 \in 1..Len(l)
      BY <1>2, <1>6, <2>1
    <3> QED
      BY <1>1, <1>7, <2>1, <3>1 DEF Builds, Owns
  <2>2. CASE k = 2
    BY <1>1, <1>7, <2>2 DEF Builds
  <2>3. CASE k > 2
    <3> DEFINE m == k - 2
    <3>1. m \in 1..Len(w) /\ k = 2 + m
      BY <1>2, <1>6, <2>3
    <3> HIDE DEF m
    <3>2. l[k].do = "start"
      BY <1>2, <1>6, <3>1
    <3> QED
      BY <3>2 DEF Builds
  <2> QED
    BY <2>1, <2>2, <2>3
<1> QED
  BY <1>3, <1>6, <1>8, <1>9 DEF S

LEMMA SetUpTestCaseOrdered ==
  /\ SetUpTestCase \in Seq(StepsOf(StartKinds)) /\ Ordered(SetUpTestCase, Statics)
  /\ AssignedNext(SetUpTestCase)
<1> DEFINE a == <<Mark("create_tmp")>>
           s == CreateAndStartSite(Site1)
           t == CreateAndStartSite(Site2)
           d == CreateAndStartDns
           S == Seq(StepsOf(StartKinds))
<1>1. a \in S /\ Ordered(a, {}) /\ AssignedNext(a)
  <2> DEFINE m == Mark("create_tmp")
  <2>1. m \in StepsOf({"create_tmp"}) /\ m.do = "create_tmp"
    BY MarkFacts DEF Kinds, TestOnly, Calling
  <2>2. "create_tmp" \in StartKinds
    BY DEF StartKinds
  <2> HIDE DEF m
  <2>3. <<m>> \in S /\ Len(<<m>>) = 1 /\ <<m>>[1] = m
    BY <2>1, <2>2, OneStep
  <2> DEFINE l == <<m>>
  <2> HIDE DEF l
  <2>4. l \in S /\ Len(l) = 1 /\ l[1] = m
    BY <2>3 DEF l
  <2>5. Ordered(l, {}) /\ AssignedNext(l)
    BY <2>1, <2>4, NothingBuilt DEF Ordered
  <2> QED
    BY <2>4, <2>5 DEF l, m
<1>2. /\ s \in S /\ Ordered(s, {Site1}) /\ t \in S /\ Ordered(t, {Site2})
      /\ AssignedNext(s) /\ AssignedNext(t)
  BY SiteOrdered, StaticFacts
<1>3. d \in S /\ Ordered(d, {"dnsmasq"}) /\ AssignedNext(d)
  BY DnsOrdered
<1>4. SetUpTestCase = ((a \o s) \o t) \o d
  BY DEF SetUpTestCase
<1> HIDE DEF a, s, t, d
<1>5. a \o s \in S /\ Ordered(a \o s, {} \cup {Site1}) /\ AssignedNext(a \o s)
  BY <1>1, <1>2, JoinedKinds, JoinedOrdered, JoinedAssigned
<1>6. /\ (a \o s) \o t \in S /\ Ordered((a \o s) \o t, ({} \cup {Site1}) \cup {Site2})
      /\ AssignedNext((a \o s) \o t)
  <2> DEFINE u == a \o s
             M == {} \cup {Site1}
  <2>1. u \in S /\ Ordered(u, M) /\ M \cap {Site2} = {} /\ AssignedNext(u)
    BY <1>5, StaticFacts
  <2> HIDE DEF u, M
  <2>2. u \o t \in S /\ Ordered(u \o t, M \cup {Site2}) /\ AssignedNext(u \o t)
    BY <1>2, <2>1, JoinedKinds, JoinedOrdered, JoinedAssigned
  <2> QED
    BY <2>2 DEF u, M
<1>7. /\ ((a \o s) \o t) \o d \in S
      /\ Ordered(((a \o s) \o t) \o d, (({} \cup {Site1}) \cup {Site2}) \cup {"dnsmasq"})
      /\ AssignedNext(((a \o s) \o t) \o d)
  <2> DEFINE u == (a \o s) \o t
             M == ({} \cup {Site1}) \cup {Site2}
  <2>1. u \in S /\ Ordered(u, M) /\ M \cap {"dnsmasq"} = {} /\ AssignedNext(u)
    BY <1>6, StaticFacts
  <2> HIDE DEF u, M
  <2>2. u \o d \in S /\ Ordered(u \o d, M \cup {"dnsmasq"}) /\ AssignedNext(u \o d)
    BY <1>3, <2>1, JoinedKinds, JoinedOrdered, JoinedAssigned
  <2> QED
    BY <2>2 DEF u, M
<1>8. (({} \cup {Site1}) \cup {Site2}) \cup {"dnsmasq"} = Statics
  BY S4Assumption
<1> QED
  BY <1>4, <1>7, <1>8

LEMMA SetUpWaits == SetUp \in Seq(StepsOf(WaitKinds))
<1> DEFINE S == StepsOf(WaitKinds)
           Waits(n) == [k \in DOMAIN SiteInstances(n) |->
                          [do |-> "wait", on |-> SiteInstances(n)[k], judge |-> "site"]]
<1>1. ASSUME NEW what \in {"new_s4_sites", "wait_for_instances", "return_unless_ok", "body"}
      PROVE  Mark(what) \in S
  <2>1. what \in Kinds \ Calling /\ what \in WaitKinds
    BY DEF Kinds, TestOnly, Calling, WaitKinds
  <2>2. Mark(what) \in StepsOf({what})
    BY <2>1, MarkFacts
  <2> QED
    BY <2>1, <2>2 DEF StepsOf
<1>2. ASSUME NEW i \in Instances, NEW j \in {"site", "test"}
      PROVE  [do |-> "wait", on |-> i, judge |-> j] \in S
  <2>1. "wait" \in Kinds /\ "wait" \in WaitKinds /\ i \in On
    BY DEF Kinds, TestOnly, WaitKinds, On
  <2> QED
    BY <2>1 DEF StepsOf, Steps, Fits
<1>3. ASSUME NEW n \in Names
      PROVE  WaitForSite(SiteInstances(n)) \in Seq(S)
  <2> DEFINE w == SiteInstances(n)
             d(k) == [do |-> "wait", on |-> w[k], judge |-> "site"]
             l == [k \in DOMAIN w |-> d(k)]
             a == <<Mark("wait_for_instances")>>
             b == <<Mark("return_unless_ok")>>
  <2>1. DOMAIN w = 1..Len(w) /\ Len(w) \in Nat
        /\ \A k \in 1..Len(w) : d(k) \in S
    BY <1>2, SiteFacts
  <2>2. a \in Seq(S) /\ b \in Seq(S)
    <3>1. Mark("wait_for_instances") \in S /\ Mark("return_unless_ok") \in S
      BY <1>1
    <3> HIDE DEF S
    <3> QED
      BY <3>1
  <2>3. WaitForSite(w) = (a \o l) \o b
    BY DEF WaitForSite
  <2> HIDE DEF w, S, d, a, b
  <2>4. l \in Seq(S)
    BY <2>1
  <2> HIDE DEF l
  <2>5. (a \o l) \o b \in Seq(S)
    <3>1. a \o l \in Seq(S)
      BY <2>2, <2>4, ConcatProperties
    <3> QED
      BY <2>2, <3>1, ConcatProperties
  <2> QED
    BY <2>3, <2>5 DEF w
<1>4. ExpectTrue("wait", Dnsmasq) \in S /\ Mark("body") \in S
  BY <1>1, <1>2, StaticFacts DEF ExpectTrue
<1> DEFINE n == Mark("new_s4_sites")
           s == WaitForSite(SiteInstances(Site1))
           t == WaitForSite(SiteInstances(Site2))
           a == ExpectTrue("wait", Dnsmasq)
           b == Mark("body")
<1>5. n \in S /\ s \in Seq(S) /\ t \in Seq(S) /\ a \in S /\ b \in S
  BY <1>1, <1>3, <1>4, StaticFacts
<1>6. SetUp = ((<<n>> \o s) \o t) \o <<a, b>>
  BY DEF SetUp
<1> HIDE DEF n, s, t, a, b, S
<1>7. <<n>> \in Seq(S) /\ <<a, b>> \in Seq(S)
  BY <1>5
<1>8. <<n>> \o s \in Seq(S)
  BY <1>5, <1>7, ConcatProperties
<1>10. (<<n>> \o s) \o t \in Seq(S)
  BY <1>5, <1>8, ConcatProperties
<1>9. ((<<n>> \o s) \o t) \o <<a, b>> \in Seq(S)
  BY <1>7, <1>10, ConcatProperties
<1> QED
  BY <1>6, <1>9 DEF S

(* After SetUpTestCase come the two tests and TearDownTestCase.            *)
TwoTests == (TimerTracerBullet \o TracerBullet) \o <<Mark("teardown")>>

LEMMA TwoTestsFacts ==
  /\ TimerTracerBullet \in Seq(StepsOf(TestKinds))
  /\ TracerBullet \in Seq(StepsOf(TestKinds))
  /\ Mark("teardown") \in StepsOf(TestKinds)
  /\ TwoTests \in Seq(StepsOf(TestKinds))
  /\ Len(TwoTests) \in Nat \ {0} /\ TwoTests[Len(TwoTests)].do = "teardown"
  /\ KillsLast(TwoTests)
<1> DEFINE S == Seq(StepsOf(TestKinds))
           s == SetUp
           w == SiteInstances(Site1)
           f == ForEachInstance("kill", w)
           d == TearDown
           m == Mark("teardown")
           x == <<m>>
           t == s \o d
           v == (s \o f) \o d
           u == t \o v
           l == u \o x
           NoKill(r) == \A k \in 1..Len(r) : r[k].do # "kill"
           NoWait(r) == \A k \in 1..Len(r) : r[k].do # "wait"
<1>1. TwoTests = l /\ TimerTracerBullet = t /\ TracerBullet = v
  BY DEF TwoTests, TimerTracerBullet, TracerBullet
<1>0. m \in StepsOf(TestKinds)
  <2>1. "teardown" \in Kinds \ Calling /\ "teardown" \in TestKinds
    BY DEF Kinds, TestOnly, Calling, TestKinds
  <2>2. m \in StepsOf({"teardown"})
    BY <2>1, MarkFacts
  <2> QED
    BY <2>1, <2>2 DEF StepsOf
<1>2. ASSUME NEW r, NoKill(r) \/ NoWait(r)
      PROVE  KillsLast(r)
  BY <1>2 DEF KillsLast
<1>3. s \in S /\ NoKill(s)
  <2>1. WaitKinds \subseteq TestKinds /\ "kill" \notin WaitKinds
    BY DEF TestKinds, WaitKinds
  <2>2. s \in Seq(StepsOf(WaitKinds))
    BY SetUpWaits
  <2> HIDE DEF s
  <2>3. ASSUME NEW k \in 1..Len(s)
        PROVE  s[k].do # "kill"
    BY <2>1, <2>2, KindsFacts
  <2> QED
    BY <2>1, <2>2, <2>3, MoreKinds
<1>4. f \in S /\ NoWait(f)
  <2>1. w \in Seq(Instances)
    BY SiteFacts, StaticFacts
  <2>2. {"kill"} \subseteq TestKinds
    BY DEF TestKinds
  <2>3. f \in Seq(StepsOf({"kill"}))
    BY <2>1, EachFacts
  <2> HIDE DEF f
  <2>4. ASSUME NEW k \in 1..Len(f)
        PROVE  f[k].do = "kill"
    BY <2>3, KindsFacts
  <2> QED
    BY <2>2, <2>3, <2>4, MoreKinds
<1>5. ASSUME NEW what \in {"done", "delete_s4_sites", "teardown"}
      PROVE  /\ Mark(what) \in StepsOf(TestKinds)
             /\ <<Mark(what)>> \in S /\ Len(<<Mark(what)>>) = 1
             /\ NoKill(<<Mark(what)>>) /\ NoWait(<<Mark(what)>>)
             /\ Mark(what).do = what
  <2> DEFINE a == Mark(what)
  <2>1. what \in Kinds \ Calling /\ what \in TestKinds /\ what \notin {"kill", "wait"}
    BY DEF Kinds, TestOnly, Calling, TestKinds, WaitKinds
  <2>2. a \in StepsOf({what}) /\ a.do = what
    BY <2>1, MarkFacts
  <2> HIDE DEF a
  <2> DEFINE y == <<a>>
  <2>3. y \in S /\ Len(y) = 1 /\ y[1] = a
    BY <2>1, <2>2, OneStep
  <2> HIDE DEF y
  <2>4. NoKill(y) /\ NoWait(y)
    BY <2>1, <2>2, <2>3
  <2>5. a \in StepsOf(TestKinds)
    BY <2>1, <2>2 DEF StepsOf
  <2> QED
    BY <2>2, <2>3, <2>4, <2>5 DEF y, a
<1>14. d \in S /\ NoKill(d) /\ NoWait(d)
  <2> DEFINE a == Mark("done")
             b == Mark("delete_s4_sites")
             y == <<a, b>>
  <2>1. /\ a \in StepsOf(TestKinds) /\ a.do = "done"
        /\ b \in StepsOf(TestKinds) /\ b.do = "delete_s4_sites"
    BY <1>5
  <2>2. d = y
    BY DEF TearDown
  <2> HIDE DEF a, b, d
  <2>3. y \in S /\ Len(y) = 2 /\ y[1] = a /\ y[2] = b /\ \A k \in 1..2 : k = 1 \/ k = 2
    BY <2>1, Pair
  <2> HIDE DEF y
  <2> QED
    BY <2>1, <2>2, <2>3
<1>6. d \in S /\ NoKill(d) /\ NoWait(d)
      /\ x \in S /\ Len(x) = 1 /\ x[1] = m /\ NoKill(x) /\ NoWait(x) /\ m.do = "teardown"
  BY <1>5, <1>14
<1> HIDE DEF s, f, d, m, x, NoKill, NoWait, S
<1> DEFINE R == StepsOf(TestKinds)
<1>7. S = Seq(R)
  BY DEF S
<1> HIDE DEF R
<1>8. t \in S /\ KillsLast(t)
  BY <1>2, <1>3, <1>6, <1>7, JoinedKillsLast, ConcatProperties DEF NoKill
<1>9. v \in S /\ KillsLast(v)
  <2> DEFINE y == s \o f
  <2>1. y \in S /\ KillsLast(y)
    BY <1>2, <1>3, <1>4, <1>7, JoinedKillsLast, ConcatProperties DEF NoKill
  <2> HIDE DEF y
  <2>2. y \o d \in S /\ KillsLast(y \o d)
    BY <1>2, <1>6, <1>7, <2>1, JoinedKillsLast, ConcatProperties DEF NoWait
  <2> QED
    BY <2>2 DEF y
<1>10. NoKill(t)
  <2>1. /\ \A k \in 1..Len(s) : t[k] = s[k]
        /\ \A k \in 1..Len(t) : k > Len(s) => k - Len(s) \in 1..Len(d) /\ t[k] = d[k - Len(s)]
        /\ Len(s) \in Nat
    BY <1>3, <1>6, <1>7, Joined
  <2> HIDE DEF t
  <2>2. ASSUME NEW k \in 1..Len(t)
        PROVE  t[k].do # "kill"
    <3>1. k \in 1..Len(s) \/ k > Len(s)
      BY <2>1
    <3> QED
      BY <1>3, <1>6, <2>1, <3>1 DEF NoKill
  <2> QED
    BY <2>2 DEF NoKill
<1> HIDE DEF t, v
<1>11. u \in S /\ KillsLast(u)
  BY <1>7, <1>8, <1>9, <1>10, JoinedKillsLast, ConcatProperties DEF NoKill
<1> HIDE DEF u
<1>12. l \in S /\ KillsLast(l)
  BY <1>2, <1>6, <1>7, <1>11, JoinedKillsLast, ConcatProperties DEF NoWait
<1>13. Len(l) \in Nat \ {0} /\ l[Len(l)] = m
  <2>1. Len(u) \in Nat /\ Len(l) = Len(u) + 1 /\ l[Len(u) + 1] = x[1]
    <3>1. /\ Len(u) \in Nat /\ Len(l) = Len(u) + Len(x)
          /\ \A k \in 1..Len(x) : l[Len(u) + k] = x[k]
      <4>1. u \in Seq(R) /\ x \in Seq(R)
        BY <1>6, <1>7, <1>11
      <4> QED
        BY <4>1, Joined
    <3> HIDE DEF l
    <3> QED
      BY <1>6, <3>1
  <2> HIDE DEF l
  <2> QED
    BY <1>6, <2>1
<1> QED
  BY <1>0, <1>1, <1>6, <1>8, <1>9, <1>12, <1>13 DEF S, m

LEMMA TestCaseFacts ==
  /\ TestCase \in Seq(StepsOf(StartKinds \cup TestKinds))
  /\ Len(SetUpTestCase) \in Nat
  /\ Len(TestCase) \in Nat /\ Len(TestCase) > Len(SetUpTestCase)
  /\ \A k \in 1..Len(SetUpTestCase) : TestCase[k] = SetUpTestCase[k]
  /\ \A k \in 1..Len(TestCase) : k > Len(SetUpTestCase) => TestCase[k].do \in TestKinds
  /\ TestCase[Len(TestCase)].do = "teardown"
  /\ KillsLast(TestCase)
  /\ AssignedNext(TestCase)
<1> DEFINE K == StartKinds \cup TestKinds
           S == StepsOf(K)
           s == SetUpTestCase
           a == TimerTracerBullet
           b == TracerBullet
           c == <<Mark("teardown")>>
           t == TwoTests
           l == s \o t
<1>1. s \in Seq(S) /\ a \in Seq(S) /\ b \in Seq(S) /\ c \in Seq(S) /\ t \in Seq(S)
  <2>1. Seq(StepsOf(StartKinds)) \subseteq Seq(S) /\ Seq(StepsOf(TestKinds)) \subseteq Seq(S)
    BY MoreKinds
  <2>2. c \in Seq(StepsOf(TestKinds))
    BY TwoTestsFacts
  <2> QED
    BY <2>1, <2>2, SetUpTestCaseOrdered, TwoTestsFacts
<1>2. TestCase = ((s \o a) \o b) \o c /\ t = (a \o b) \o c
  BY DEF TestCase, TwoTests
<1>3. \A k \in 1..Len(s) : s[k].do \in StartKinds
  BY SetUpTestCaseOrdered, KindsFacts
<1>4. /\ \A k \in 1..Len(t) : t[k].do \in TestKinds
      /\ Len(t) \in Nat \ {0} /\ t[Len(t)].do = "teardown" /\ KillsLast(t)
  BY TwoTestsFacts, KindsFacts
<1> HIDE DEF s, a, b, c, t, S, K
<1>5. TestCase = l
  <2>1. a \o b \in Seq(S)
    BY <1>1, ConcatProperties
  <2>2. (s \o a) \o b = s \o (a \o b)
    BY <1>1, ConcatAssociative, SMTT(60)
  <2>3. (s \o (a \o b)) \o c = s \o ((a \o b) \o c)
    <3> DEFINE d == a \o b
    <3>1. d \in Seq(S)
      BY <2>1
    <3> HIDE DEF d
    <3>2. (s \o d) \o c = s \o (d \o c)
      BY <1>1, <3>1, ConcatAssociative, SMTT(60)
    <3> QED
      BY <3>2 DEF d
  <2> QED
    BY <1>2, <2>2, <2>3, Zenon
<1>6. /\ Len(s) \in Nat /\ Len(t) \in Nat
      /\ l \in Seq(S) /\ Len(l) = Len(s) + Len(t)
      /\ \A k \in 1..Len(s) : k \in 1..Len(l) /\ l[k] = s[k]
      /\ \A k \in 1..Len(t) : Len(s) + k \in 1..Len(l) /\ l[Len(s) + k] = t[k]
      /\ \A k \in 1..Len(l) : k > Len(s) => k - Len(s) \in 1..Len(t) /\ l[k] = t[k - Len(s)]
  BY <1>1, Joined
<1>7. KillsLast(l)
  <2>1. \A k \in 1..Len(s) : s[k].do # "kill"
    BY <1>3 DEF StartKinds
  <2>2. KillsLast(s)
    BY <2>1 DEF KillsLast
  <2> QED
    BY <1>1, <1>4, <2>1, <2>2, JoinedKillsLast
<1>10. AssignedNext(l)
  <2>1. AssignedNext(s)
    BY SetUpTestCaseOrdered DEF s
  <2>2. AssignedNext(t)
    BY <1>4, NothingBuilt DEF TestKinds, WaitKinds
  <2> QED
    BY <1>1, <2>1, <2>2, JoinedAssigned
<1> HIDE DEF l
<1>8. \A k \in 1..Len(l) : k > Len(s) => l[k].do \in TestKinds
  BY <1>4, <1>6
<1>9. l[Len(l)].do = "teardown"
  <2>1. Len(t) \in 1..Len(t)
    BY <1>4
  <2> QED
    BY <1>4, <1>6, <2>1
<1> QED
  BY <1>4, <1>5, <1>6, <1>7, <1>8, <1>9, <1>10 DEF s, S, K

(* The program has started nothing yet, and its list is fit to be begun.   *)
LEMMA InitProgram ==
  ASSUME S4Init, NEW h \in Roots
  PROVE  ProgramInv(h, StaticOf)
<1> DEFINE n == Len(SetUpTestCase)
           l == todo[h]
<1>1. /\ l \in Seq(StepsOf(StartKinds \cup TestKinds))
      /\ n \in Nat /\ Len(l) \in Nat /\ Len(l) > n
      /\ \A k \in 1..n : l[k] = SetUpTestCase[k]
      /\ \A k \in 1..Len(l) : k > n => l[k].do \in TestKinds
      /\ l[Len(l)].do = "teardown"
  <2>1. l = TestCase
    BY DEF S4Init
  <2> HIDE DEF l
  <2> QED
    BY <2>1, TestCaseFacts
<1>2. \A k \in 1..n : SetUpTestCase[k].do \in StartKinds
  BY SetUpTestCaseOrdered, KindsFacts
<1>3. \A k \in 1..Len(l) : l[k].do \in Calling => l[k].on \in Instances
  BY <1>1, KindsFacts
<1>4. \A k \in 1..n :
        /\ l[k].do = "start" =>
             /\ StaticOf[l[k].on] \in Statics
             /\ \A j \in 1..(k - 1) : ~Starts(l[j], l[k].on)
             /\ \E j \in 1..(k - 1) : Owns(l[j], StaticOf[l[k].on])
        /\ l[k].do = "own" => \E j \in 1..(k - 1) : Builds(l[j], l[k].on)
  <2> SUFFICES ASSUME NEW k \in 1..n
               PROVE  /\ l[k].do = "start" =>
                           /\ StaticOf[l[k].on] \in Statics
                           /\ \A j \in 1..(k - 1) : ~Starts(l[j], l[k].on)
                           /\ \E j \in 1..(k - 1) : Owns(l[j], StaticOf[l[k].on])
                      /\ l[k].do = "own" => \E j \in 1..(k - 1) : Builds(l[j], l[k].on)
    OBVIOUS
  <2>1. l[k] = SetUpTestCase[k] /\ \A j \in 1..(k - 1) : l[j] = SetUpTestCase[j]
    BY <1>1
  <2> QED
    BY <2>1, SetUpTestCaseOrdered DEF Ordered
<1>5. /\ h \in Pids /\ status[h] = "program" /\ pc[h] = "idle"
      /\ \A i \in Instances : running[h][i] = FALSE
      /\ phase[h] = "tests" /\ signalled[h] = "nowhere"
      /\ \A c \in Pids : parent[c] # h
  BY ProcessAssumption DEF S4Init, FixtureInit, Init
<1> HIDE DEF n, l
<1>6. \A k \in 1..Len(l) : (k <= n => k \in 1..n) /\ (k > n => l[k].do \in TestKinds)
  BY <1>1
<1>7. \A k \in 1..Len(l) : /\ l[k].do \in {"start", "own"} => k \in 1..n
                           /\ l[k].do \notin Removals \cup {"restart"}
                           /\ k \in 1..n => l[k].do # "return_unless_ok"
  BY <1>1, <1>2, <1>6 DEF StartKinds, TestKinds, WaitKinds, Removals
<1>8. \A i \in Instances : ~running[h][i] /\ ~WillRun(h, i)
  BY <1>5 DEF WillRun
<1>9. ListInv(h)
  BY <1>3 DEF ListInv, Calling, l
<1>10. FreshInv(h)
  BY <1>3, <1>4, <1>7, <1>8 DEF FreshInv, Calling, l
<1>11. OwnedInv(h, StaticOf)
  <2>1. ASSUME NEW k \in 1..Len(l), l[k].do = "own", NEW j \in 1..k
        PROVE  l[j].do # "return_unless_ok"
    <3>1. j \in 1..n /\ j \in 1..Len(l)
      BY <1>1, <1>7, <2>1
    <3> QED
      BY <1>7, <3>1
  <2> QED
    BY <1>1, <1>4, <1>7, <1>8, <2>1 DEF OwnedInv, Owns, l
<1>12. ServersInv(h)
  BY <1>5 DEF ServersInv, NoneLost
<1> QED
  BY <1>5, <1>9, <1>10, <1>11, <1>12 DEF ProgramInv

LEMMA InitFixture == S4Init => FixtureInv(On, StaticOf)
<1> SUFFICES ASSUME S4Init PROVE FixtureInv(On, StaticOf)
  OBVIOUS
<1>1. Init /\ IInv
  BY InitIInv DEF S4Init, FixtureInit
<1>2. SoleProgram
  BY <1>1, ProcessAssumption DEF Init, SoleProgram
<1>3. FixtureTypeOK
  BY <1>1 DEF S4Init, FixtureInit, FixtureTypeOK, Phases, IInv
<1>4. todo \in [Roots -> Seq(Steps(On))]
  <2>1. TestCase \in Seq(Steps(On))
    BY TestCaseFacts, KindsFacts
  <2> QED
    BY <2>1 DEF S4Init
<1> QED
  BY <1>1, <1>2, <1>3, <1>4, InitProgram DEF FixtureInv

-----------------------------------------------------------------------------
(* The list of TearDownTestCase *)

ResetKinds == {"disown", "kill", "remove_cfg", "remove_chronos", "remove_site"}
TearKinds  == ResetKinds \cup {"remove_tmp"}

(* Some step kills instance i.                                             *)
KillsSome(l, i) == \E k \in 1..Len(l) : l[k] = Do("kill", i)

(* The step removes a file that instance i may read.                       *)
Removes(step, i) ==
  \/ step.do = "remove_cfg" /\ i = Dnsmasq
  \/ step.do = "remove_chronos"
       /\ \E n \in Names : \E k \in 1..Len(Chronoses[n]) :
            step.on = <<n, k>> /\ Chronoses[n][k] = i
  \/ step.do = "remove_site" /\ \E n \in Names : step.on = n /\ InSite(i, n)
  \/ step.do = "remove_tmp"

(* The files of an instance that is not gone are removed when it has been  *)
(* killed, or just before it is killed.                                    *)
Guarded(l, gone) ==
  \A k \in 1..Len(l), i \in Instances : Removes(l[k], i) =>
    \/ i \in gone
    \/ \E j \in 1..(k - 1) : l[j] = Do("kill", i)
    \/ k + 1 \in 1..Len(l) /\ l[k + 1] = Do("kill", i)

LEMMA JoinedGuarded ==
  ASSUME NEW S, NEW s \in Seq(S), NEW t \in Seq(S), NEW M, NEW N,
         Guarded(s, M), Guarded(t, N),
         \A i \in Instances : i \in N => i \in M \/ KillsSome(s, i)
  PROVE  /\ Guarded(s \o t, M)
         /\ \A i : KillsSome(s, i) \/ KillsSome(t, i) => KillsSome(s \o t, i)
<1> DEFINE u == s \o t
<1>1. /\ Len(s) \in Nat /\ Len(t) \in Nat
      /\ Len(u) = Len(s) + Len(t)
      /\ \A k \in 1..Len(s) : k \in 1..Len(u) /\ u[k] = s[k]
      /\ \A k \in 1..Len(t) : Len(s) + k \in 1..Len(u) /\ u[Len(s) + k] = t[k]
      /\ \A k \in 1..Len(u) : k > Len(s) => k - Len(s) \in 1..Len(t) /\ u[k] = t[k - Len(s)]
  BY Joined
<1> HIDE DEF u
<1>2. \A i : KillsSome(s, i) \/ KillsSome(t, i) => KillsSome(u, i)
  BY <1>1 DEF KillsSome
<1>3. ASSUME NEW k \in 1..Len(u), NEW i \in Instances, Removes(u[k], i)
      PROVE  \/ i \in M
             \/ \E j \in 1..(k - 1) : u[j] = Do("kill", i)
             \/ k + 1 \in 1..Len(u) /\ u[k + 1] = Do("kill", i)
  <2>1. CASE k <= Len(s)
    <3>1. k \in 1..Len(s) /\ u[k] = s[k] /\ \A j \in 1..(k - 1) : u[j] = s[j]
      BY <1>1, <2>1
    <3>2. \/ i \in M
          \/ \E j \in 1..(k - 1) : s[j] = Do("kill", i)
          \/ k + 1 \in 1..Len(s) /\ s[k + 1] = Do("kill", i)
      BY <1>3, <3>1 DEF Guarded
    <3> QED
      BY <1>1, <3>1, <3>2
  <2>2. CASE k > Len(s)
    <3> DEFINE m == k - Len(s)
    <3>1. m \in 1..Len(t) /\ u[k] = t[m]
      BY <1>1, <2>2
    <3>2. k = Len(s) + m /\ k + 1 = Len(s) + (m + 1) /\ m \in Nat
      BY <1>1, <3>1
    <3> HIDE DEF m
    <3>3. \/ i \in N
          \/ \E j \in 1..(m - 1) : t[j] = Do("kill", i)
          \/ m + 1 \in 1..Len(t) /\ t[m + 1] = Do("kill", i)
      BY <1>3, <3>1 DEF Guarded
    <3>4. CASE i \in N
      <4>1. CASE KillsSome(s, i)
        <5>1. PICK j \in 1..Len(s) : s[j] = Do("kill", i)
          BY <4>1 DEF KillsSome
        <5>2. j \in 1..(k - 1) /\ u[j] = s[j]
          BY <1>1, <2>2
        <5> QED
          BY <5>1, <5>2
      <4> QED
        BY <3>4, <4>1
    <3>5. CASE \E j \in 1..(m - 1) : t[j] = Do("kill", i)
      <4>1. PICK j \in 1..(m - 1) : t[j] = Do("kill", i)
        BY <3>5
      <4>2. j \in 1..Len(t) /\ Len(s) + j \in 1..(k - 1)
        BY <1>1, <3>1, <3>2
      <4>3. u[Len(s) + j] = t[j]
        BY <1>1, <4>2
      <4> QED
        BY <4>1, <4>2, <4>3
    <3>6. CASE m + 1 \in 1..Len(t) /\ t[m + 1] = Do("kill", i)
      <4>1. Len(s) + (m + 1) \in 1..Len(u) /\ u[Len(s) + (m + 1)] = t[m + 1]
        BY <1>1, <3>6
      <4> QED
        BY <3>2, <3>6, <4>1
    <3> QED
      BY <3>3, <3>4, <3>5, <3>6
  <2> QED
    BY <1>1, <2>1, <2>2
<1>4. Guarded(u, M)
  BY <1>3 DEF Guarded
<1> QED
  BY <1>2, <1>4 DEF u

LEMMA NothingGuarded ==
  ASSUME NEW S
  PROVE  << >> \in Seq(S) /\ Guarded(<< >>, {})
<1>1. << >> \in Seq(S) /\ Len(<< >>) = 0
  BY EmptySeq
<1> QED
  BY <1>1 DEF Guarded

(* A step that removes nothing.                                            *)
LEMMA Harmless ==
  ASSUME NEW l, \A k \in 1..Len(l) : l[k].do \in {"disown", "kill"}
  PROVE  Guarded(l, {})
BY DEF Guarded, Removes

LEMMA ResetStep ==
  ASSUME NEW what \in TearKinds, NEW i \in On, Fits(what, i)
  PROVE  /\ Do(what, i) \in StepsOf(TearKinds)
         /\ what # "remove_tmp" => Do(what, i) \in StepsOf(ResetKinds)
         /\ Do(what, i).do = what /\ Do(what, i).on = i
<1>1. what \in Kinds
  BY DEF TearKinds, ResetKinds, Kinds, Removals
<1>2. Do(what, i) \in StepsOf({what}) /\ Do(what, i).do = what /\ Do(what, i).on = i
  BY <1>1, DoFacts
<1> QED
  BY <1>2 DEF StepsOf, TearKinds

LEMMA DestroyChronosesFacts ==
  ASSUME NEW n \in Names, NEW k \in 1..2
  PROVE  /\ DestroyChronoses(n, k) \in Seq(StepsOf(ResetKinds))
         /\ Guarded(DestroyChronoses(n, k), {})
         /\ k \in 1..Len(Chronoses[n]) => KillsSome(DestroyChronoses(n, k), Chronoses[n][k])
<1>1. DOMAIN Chronoses[n] = 1..Len(Chronoses[n])
      /\ \A j \in 1..Len(Chronoses[n]) : Chronoses[n][j] \in Instances
  BY SiteFacts, LenProperties
<1>2. CASE k \in 1..Len(Chronoses[n])
  <2> DEFINE i == Chronoses[n][k]
             a == Do("remove_chronos", <<n, k>>)
             b == Do("kill", i)
             l == <<a, b>>
  <2>1. /\ a \in StepsOf(ResetKinds) /\ a.do = "remove_chronos" /\ a.on = <<n, k>>
        /\ b \in StepsOf(ResetKinds) /\ b.do = "kill" /\ i \in Instances
    <3>1. <<n, k>> \in On /\ i \in On /\ i \in Instances
      BY <1>1, <1>2 DEF On
    <3>2. {"remove_chronos", "kill"} \subseteq TearKinds
      BY DEF TearKinds, ResetKinds
    <3> QED
      BY <3>1, <3>2, ResetStep DEF Fits, Calling
  <2>2. DestroyChronoses(n, k) = l
    BY <1>1, <1>2 DEF DestroyChronoses
  <2>3. \A j \in Instances : Removes(a, j) => j = i
    BY <2>1 DEF Removes
  <2>4. b = Do("kill", i) /\ \A j : ~Removes(b, j)
    BY <2>1 DEF Removes
  <2> HIDE DEF a, b, i
  <2>5. l \in Seq(StepsOf(ResetKinds)) /\ Len(l) = 2 /\ l[1] = a /\ l[2] = b
        /\ \A j \in 1..2 : j = 1 \/ j = 2
    BY <2>1, Pair
  <2> HIDE DEF l
  <2>6. Guarded(l, {})
    <3>1. 1 + 1 = 2 /\ 2 \in 1..2
      OBVIOUS
    <3> QED
      BY <2>3, <2>4, <2>5, <3>1 DEF Guarded
  <2>7. KillsSome(l, i)
    <3>1. 2 \in 1..Len(l)
      BY <2>5
    <3> QED
      BY <2>4, <2>5, <3>1 DEF KillsSome
  <2> QED
    BY <2>2, <2>5, <2>6, <2>7 DEF i
<1>3. CASE k \notin 1..Len(Chronoses[n])
  <2>1. DestroyChronoses(n, k) = << >>
    BY <1>1, <1>3 DEF DestroyChronoses
  <2> QED
    BY <1>3, <2>1, NothingGuarded
<1> QED
  BY <1>2, <1>3

LEMMA DestroySiteFacts ==
  ASSUME NEW n \in Names
  PROVE  /\ DestroySite(n) \in Seq(StepsOf(ResetKinds))
         /\ Guarded(DestroySite(n), {})
         /\ \A i : InSite(i, n) => KillsSome(DestroySite(n), i)
<1> DEFINE S == StepsOf(ResetKinds)
           w == Memcacheds[n] \o Rogerses[n]
           x == Chronoses[n]
           f == ForEachInstance("kill", w)
           c == DestroyChronoses(n, 1)
           d == DestroyChronoses(n, 2)
           m == Do("remove_site", n)
           e == <<m>>
<1>1. DestroySite(n) = ((f \o c) \o d) \o e
  BY DEF DestroySite
<1>2. /\ w \in Seq(Instances) /\ x \in Seq(Instances) /\ Len(x) \in 0..2
      /\ SiteInstances(n) = w \o x
  BY SiteFacts DEF SiteInstances
<1>3. f \in Seq(S) /\ Guarded(f, {}) /\ \A k \in 1..Len(w) : KillsSome(f, w[k])
  <2>1. /\ f \in Seq(StepsOf({"kill"})) /\ Len(f) = Len(w) /\ Len(w) \in Nat
        /\ \A k \in 1..Len(w) : f[k].do = "kill"
    BY <1>2, EachFacts
  <2>2. {"kill"} \subseteq ResetKinds
    BY DEF ResetKinds
  <2>3. f \in Seq(S)
    BY <2>1, <2>2, MoreKinds
  <2>4. \A k \in 1..Len(w) : f[k] = Do("kill", w[k])
    <3>1. DOMAIN w = 1..Len(w)
      BY <1>2, LenProperties
    <3> QED
      BY <3>1 DEF ForEachInstance
  <2> HIDE DEF f, w
  <2>5. Guarded(f, {})
    BY <2>1, Harmless
  <2> QED
    BY <2>1, <2>3, <2>4, <2>5 DEF KillsSome
<1>4. /\ c \in Seq(S) /\ Guarded(c, {}) /\ d \in Seq(S) /\ Guarded(d, {})
      /\ \A k \in 1..Len(x) : KillsSome(c, x[k]) \/ KillsSome(d, x[k])
  <2>1. 1 \in 1..2 /\ 2 \in 1..2 /\ \A k \in 1..Len(x) : k = 1 \/ k = 2
    <3> DEFINE q == Len(x)
    <3>1. q \in 0..2
      BY <1>2
    <3> HIDE DEF q
    <3>2. 1 \in 1..2 /\ 2 \in 1..2 /\ \A k \in 1..q : k = 1 \/ k = 2
      BY <3>1
    <3> QED
      BY <3>2 DEF q
  <2> QED
    BY <2>1, DestroyChronosesFacts
<1>5. e \in Seq(S) /\ Len(e) = 1 /\ e[1] = m /\ m.do = "remove_site" /\ m.on = n
  <2>1. n \in On /\ "remove_site" \in TearKinds
    BY StaticFacts DEF On, TearKinds, ResetKinds
  <2>2. m \in S /\ m.do = "remove_site" /\ m.on = n
    BY <2>1, ResetStep DEF Fits, Calling
  <2> HIDE DEF m, S
  <2> QED
    BY <2>2
<1>6. \A i : InSite(i, n) => \/ \E k \in 1..Len(w) : w[k] = i
                             \/ \E k \in 1..Len(x) : x[k] = i
  <2> DEFINE u == w \o x
  <2> HIDE DEF w, x
  <2>1. /\ \A k \in 1..Len(w) : u[k] = w[k]
        /\ \A k \in 1..Len(u) : k > Len(w) => k - Len(w) \in 1..Len(x) /\ u[k] = x[k - Len(w)]
        /\ Len(w) \in Nat
    BY <1>2, Joined
  <2>2. u = SiteInstances(n)
    BY <1>2
  <2> HIDE DEF u
  <2>3. ASSUME NEW k \in 1..Len(u)
        PROVE  (\E j \in 1..Len(w) : w[j] = u[k]) \/ (\E j \in 1..Len(x) : x[j] = u[k])
    <3>1. k \in 1..Len(w) \/ k > Len(w)
      BY <2>1
    <3> QED
      BY <2>1, <3>1
  <2> QED
    BY <2>2, <2>3 DEF InSite
<1>7. \A i : Removes(m, i) => InSite(i, n)
  BY <1>5 DEF Removes
<1> HIDE DEF f, c, d, m, w, x, S
<1> DEFINE g == f \o c
           p == g \o d
<1>8. /\ g \in Seq(S) /\ Guarded(g, {})
      /\ \A i : KillsSome(f, i) \/ KillsSome(c, i) => KillsSome(g, i)
  BY <1>3, <1>4, ConcatProperties, JoinedGuarded
<1> HIDE DEF g
<1>9. /\ p \in Seq(S) /\ Guarded(p, {})
      /\ \A i : KillsSome(g, i) \/ KillsSome(d, i) => KillsSome(p, i)
  BY <1>4, <1>8, ConcatProperties, JoinedGuarded
<1> HIDE DEF p, e
<1>10. \A i : InSite(i, n) => KillsSome(p, i)
  BY <1>3, <1>4, <1>6, <1>8, <1>9
<1> DEFINE N == {i \in Instances : InSite(i, n)}
<1>11. Guarded(e, N)
  BY <1>5, <1>7 DEF Guarded
<1>12. \A i \in Instances : i \in N => i \in {} \/ KillsSome(p, i)
  BY <1>10
<1> HIDE DEF N
<1>13. /\ p \o e \in Seq(S) /\ Guarded(p \o e, {})
       /\ \A i : KillsSome(p, i) => KillsSome(p \o e, i)
  BY <1>5, <1>9, <1>11, <1>12, ConcatProperties, JoinedGuarded
<1> QED
  BY <1>1, <1>10, <1>13 DEF p, g, S

LEMMA ResetSiteFacts ==
  ASSUME NEW n \in Names, NEW statics
  PROVE  /\ ResetSite(n, statics) \in Seq(StepsOf(ResetKinds))
         /\ Guarded(ResetSite(n, statics), {})
         /\ n \in statics => \A i : InSite(i, n) => KillsSome(ResetSite(n, statics), i)
<1>1. CASE n \in statics
  <2> DEFINE S == StepsOf(ResetKinds)
             m == Do("disown", n)
             s == <<m>>
             t == DestroySite(n)
  <2>1. ResetSite(n, statics) = s \o t
    BY <1>1 DEF ResetSite
  <2>2. m \in S /\ m.do = "disown"
    <3>1. n \in On /\ "disown" \in TearKinds
      BY StaticFacts DEF On, TearKinds, ResetKinds
    <3> QED
      BY <3>1, ResetStep DEF Fits, Calling
  <2>3. t \in Seq(S) /\ Guarded(t, {}) /\ \A i : InSite(i, n) => KillsSome(t, i)
    BY DestroySiteFacts
  <2> HIDE DEF m, S, t
  <2>4. s \in Seq(S) /\ Len(s) = 1 /\ s[1] = m
    BY <2>2
  <2> HIDE DEF s
  <2>5. Guarded(s, {})
    BY <2>2, <2>4, Harmless
  <2>6. /\ s \o t \in Seq(S) /\ Guarded(s \o t, {})
        /\ \A i : KillsSome(t, i) => KillsSome(s \o t, i)
    BY <2>3, <2>4, <2>5, ConcatProperties, JoinedGuarded
  <2> QED
    BY <2>1, <2>3, <2>6 DEF S
<1>2. CASE n \notin statics
  BY <1>2, NothingGuarded DEF ResetSite
<1> QED
  BY <1>1, <1>2

LEMMA ResetDnsmasqFacts ==
  ASSUME NEW statics
  PROVE  /\ ResetDnsmasq(statics) \in Seq(StepsOf(ResetKinds))
         /\ Guarded(ResetDnsmasq(statics), {})
         /\ "dnsmasq" \in statics => KillsSome(ResetDnsmasq(statics), Dnsmasq)
<1>1. CASE "dnsmasq" \in statics
  <2> DEFINE S == StepsOf(ResetKinds)
             a == Do("disown", "dnsmasq")
             b == Mark("remove_cfg")
             c == Do("kill", Dnsmasq)
             l == <<a, b, c>>
  <2>1. /\ a \in S /\ a.do = "disown"
        /\ b \in S /\ b.do = "remove_cfg"
        /\ c \in S /\ c.do = "kill"
    <3>1. "dnsmasq" \in On /\ None \in On /\ Dnsmasq \in On /\ Dnsmasq \in Instances
      BY StaticFacts DEF On
    <3>2. {"disown", "remove_cfg", "kill"} \subseteq TearKinds
      BY DEF TearKinds, ResetKinds
    <3> QED
      BY <3>1, <3>2, ResetStep DEF Mark, Fits, Calling
  <2>2. c = Do("kill", Dnsmasq)
    OBVIOUS
  <2>3. \A j : ~Removes(a, j) /\ (Removes(b, j) => j = Dnsmasq) /\ ~Removes(c, j)
    BY <2>1 DEF Removes
  <2> HIDE DEF a, b, c, S
  <2>4. /\ l \in Seq(S) /\ Len(l) = 3 /\ l[1] = a /\ l[2] = b /\ l[3] = c
        /\ \A k \in 1..3 : k = 1 \/ k = 2 \/ k = 3
    BY <2>1, Triple
  <2>5. ResetDnsmasq(statics) = l
    BY <1>1 DEF ResetDnsmasq, a, b, c
  <2> HIDE DEF l
  <2>6. 3 \in 1..Len(l) /\ 2 + 1 = 3
    BY <2>4
  <2>7. Guarded(l, {})
    BY <2>2, <2>3, <2>4, <2>6 DEF Guarded
  <2>8. KillsSome(l, Dnsmasq)
    BY <2>2, <2>4, <2>6 DEF KillsSome
  <2> QED
    BY <2>4, <2>5, <2>7, <2>8 DEF S
<1>2. CASE "dnsmasq" \notin statics
  BY <1>2, NothingGuarded DEF ResetDnsmasq
<1> QED
  BY <1>1, <1>2

(* A destructor removes the files of its static.                           *)
RemovesOf(l, static) ==
  \E k \in 1..Len(l) : IF static = "dnsmasq" THEN l[k].do = "remove_cfg"
                       ELSE l[k].do = "remove_site" /\ l[k].on = static

LEMMA ResetRemoves ==
  ASSUME NEW statics, NEW static \in Statics, static \in statics
  PROVE  RemovesOf(IF static = "dnsmasq" THEN ResetDnsmasq(statics)
                   ELSE ResetSite(static, statics), static)
<1>1. CASE static = "dnsmasq"
  <2> DEFINE a == Do("disown", "dnsmasq")
             b == Mark("remove_cfg")
             c == Do("kill", Dnsmasq)
             l == <<a, b, c>>
  <2>1. ResetDnsmasq(statics) = l
    BY <1>1 DEF ResetDnsmasq
  <2>2. b.do = "remove_cfg"
    BY DEF Mark, Do
  <2> HIDE DEF a, b, c
  <2>3. Len(l) = 3 /\ l[2] = b
    OBVIOUS
  <2> HIDE DEF l
  <2>4. 2 \in 1..Len(l)
    BY <2>3
  <2> QED
    BY <1>1, <2>1, <2>2, <2>3, <2>4 DEF RemovesOf
<1>2. CASE static # "dnsmasq"
  <2> DEFINE S == StepsOf(ResetKinds)
             m == Do("remove_site", static)
             a == <<Do("disown", static)>>
             v == (ForEachInstance("kill", Memcacheds[static] \o Rogerses[static])
                     \o DestroyChronoses(static, 1)) \o DestroyChronoses(static, 2)
             l == a \o (v \o <<m>>)
  <2>1. static \in Names
    BY <1>2, StaticFacts
  <2>2. ResetSite(static, statics) = l
    BY DEF ResetSite, DestroySite
  <2>3. m \in S /\ m.do = "remove_site" /\ m.on = static
    <3>1. static \in On /\ "remove_site" \in TearKinds
      BY <2>1, StaticFacts DEF On, TearKinds, ResetKinds
    <3> QED
      BY <2>1, <3>1, ResetStep DEF Fits, Calling
  <2>4. a \in Seq(S)
    <3>1. static \in On /\ "disown" \in TearKinds
      BY <2>1, StaticFacts DEF On, TearKinds, ResetKinds
    <3>2. Do("disown", static) \in S
      BY <3>1, ResetStep DEF Fits, Calling
    <3> HIDE DEF S
    <3> QED
      BY <3>2
  <2>5. v \in Seq(S)
    <3> DEFINE f == ForEachInstance("kill", Memcacheds[static] \o Rogerses[static])
               c == DestroyChronoses(static, 1)
               d == DestroyChronoses(static, 2)
    <3>1. f \in Seq(S)
      <4>1. Seq(StepsOf({"kill"})) \subseteq Seq(S)
        <5>1. {"kill"} \subseteq ResetKinds
          BY DEF ResetKinds
        <5> QED
          BY <5>1, MoreKinds
      <4>2. Memcacheds[static] \o Rogerses[static] \in Seq(Instances)
        BY <2>1, SiteFacts
      <4>3. f \in Seq(StepsOf({"kill"}))
        BY <4>2, EachFacts
      <4> HIDE DEF f, S
      <4> QED
        BY <4>1, <4>3
    <3>2. c \in Seq(S) /\ d \in Seq(S)
      BY <2>1, DestroyChronosesFacts
    <3> HIDE DEF f, c, d, S
    <3>3. f \o c \in Seq(S)
      BY <3>1, <3>2, ConcatProperties
    <3>4. (f \o c) \o d \in Seq(S)
      BY <3>2, <3>3, ConcatProperties
    <3> QED
      BY <3>4 DEF f, c, d
  <2> HIDE DEF S, m, a, v
  <2> DEFINE x == <<m>>
             w == v \o x
  <2>6. x \in Seq(S) /\ Len(x) = 1 /\ x[1] = m
    BY <2>3
  <2> HIDE DEF x
  <2>7. /\ w \in Seq(S) /\ Len(v) + 1 \in 1..Len(w) /\ w[Len(v) + 1] = m
    <3>1. v \in Seq(S) /\ x \in Seq(S) /\ w = v \o x
      BY <2>5, <2>6
    <3> HIDE DEF w
    <3>2. /\ w \in Seq(S)
          /\ \A k \in 1..Len(x) : Len(v) + k \in 1..Len(w) /\ w[Len(v) + k] = x[k]
      BY <3>1, Joined
    <3>3. 1 \in 1..Len(x)
      BY <2>6
    <3> QED
      BY <2>6, <3>2, <3>3
  <2>8. l = a \o w
    BY DEF x, w
  <2> HIDE DEF w, l
  <2> DEFINE k == Len(v) + 1
  <2>9. k \in 1..Len(w) /\ w[k] = m
    BY <2>7
  <2> HIDE DEF k
  <2>10. Len(a) + k \in 1..Len(l) /\ l[Len(a) + k] = m
    BY <2>4, <2>7, <2>8, <2>9, Joined
  <2> QED
    BY <1>2, <2>2, <2>3, <2>10 DEF RemovesOf
<1> QED
  BY <1>1, <1>2

LEMMA JoinedRemoves ==
  ASSUME NEW S, NEW s \in Seq(S), NEW t \in Seq(S), NEW static,
         RemovesOf(s, static) \/ RemovesOf(t, static)
  PROVE  RemovesOf(s \o t, static)
<1> DEFINE u == s \o t
<1>1. /\ \A k \in 1..Len(s) : k \in 1..Len(u) /\ u[k] = s[k]
      /\ \A k \in 1..Len(t) : Len(s) + k \in 1..Len(u) /\ u[Len(s) + k] = t[k]
  BY Joined
<1> HIDE DEF u
<1>2. RemovesOf(u, static)
  BY <1>1 DEF RemovesOf
<1> QED
  BY <1>2 DEF u

(* The statics are reset, in any order: all that those which are set hold  *)
(* is killed, with its files kept until then, and its files are removed.   *)
Resets(l, statics) ==
  /\ l \in Seq(StepsOf(ResetKinds))
  /\ Guarded(l, {})
  /\ \A i \in Instances : StaticOf[i] \in statics => KillsSome(l, i)
  /\ \A static \in Statics : static \in statics => RemovesOf(l, static)

LEMMA InAnyOrder ==
  ASSUME NEW statics \in SUBSET Statics, NEW a, NEW b, NEW c,
         {a, b, c} = {ResetDnsmasq(statics), ResetSite(Site1, statics), ResetSite(Site2, statics)}
  PROVE  Resets((a \o b) \o c, statics)
<1> DEFINE R == StepsOf(ResetKinds)
           x == ResetDnsmasq(statics)
           y == ResetSite(Site1, statics)
           z == ResetSite(Site2, statics)
           u == a \o b
           v == u \o c
<1>1. /\ x \in Seq(R) /\ Guarded(x, {}) /\ y \in Seq(R) /\ Guarded(y, {})
      /\ z \in Seq(R) /\ Guarded(z, {})
      /\ \A i \in Instances : StaticOf[i] \in statics =>
           KillsSome(x, i) \/ KillsSome(y, i) \/ KillsSome(z, i)
      /\ \A static \in Statics : static \in statics =>
           RemovesOf(x, static) \/ RemovesOf(y, static) \/ RemovesOf(z, static)
  <2>1. \A i \in Instances : StaticOf[i] \in statics =>
          \/ "dnsmasq" \in statics /\ i = Dnsmasq
          \/ Site1 \in statics /\ InSite(i, Site1)
          \/ Site2 \in statics /\ InSite(i, Site2)
    <3> SUFFICES ASSUME NEW i \in Instances, StaticOf[i] \in statics
                 PROVE  \/ "dnsmasq" \in statics /\ i = Dnsmasq
                        \/ Site1 \in statics /\ InSite(i, Site1)
                        \/ Site2 \in statics /\ InSite(i, Site2)
      OBVIOUS
    <3>1. i = Dnsmasq \/ (StaticOf[i] \in Names /\ InSite(i, StaticOf[i]))
      BY StaticFacts
    <3> HIDE DEF x, y, z
    <3> QED
      BY <3>1, StaticFacts, S4Assumption
  <2>2. \A static \in Statics : static = "dnsmasq" \/ static = Site1 \/ static = Site2
    BY S4Assumption
  <2>3. \A static \in Statics : static \in statics =>
          RemovesOf(x, static) \/ RemovesOf(y, static) \/ RemovesOf(z, static)
    <3> SUFFICES ASSUME NEW static \in Statics, static \in statics
                 PROVE  RemovesOf(x, static) \/ RemovesOf(y, static) \/ RemovesOf(z, static)
      OBVIOUS
    <3>1. RemovesOf(IF static = "dnsmasq" THEN x ELSE ResetSite(static, statics), static)
      BY ResetRemoves
    <3> QED
      BY <2>2, <3>1
  <2>4. /\ x \in Seq(R) /\ Guarded(x, {})
        /\ "dnsmasq" \in statics => KillsSome(x, Dnsmasq)
    BY ResetDnsmasqFacts
  <2>5. /\ y \in Seq(R) /\ Guarded(y, {})
        /\ Site1 \in statics => \A i : InSite(i, Site1) => KillsSome(y, i)
    BY StaticFacts, ResetSiteFacts
  <2>6. /\ z \in Seq(R) /\ Guarded(z, {})
        /\ Site2 \in statics => \A i : InSite(i, Site2) => KillsSome(z, i)
    BY StaticFacts, ResetSiteFacts
  <2> HIDE DEF R, x, y, z
  <2> QED
    BY <2>1, <2>3, <2>4, <2>5, <2>6
<1> HIDE DEF R, x, y, z
<1>2. {a, b, c} = {x, y, z}
  BY DEF x, y, z
<1>3. /\ a \in Seq(R) /\ Guarded(a, {}) /\ b \in Seq(R) /\ Guarded(b, {})
      /\ c \in Seq(R) /\ Guarded(c, {})
  BY <1>1, <1>2
<1>4. /\ \A i \in Instances : StaticOf[i] \in statics =>
           KillsSome(a, i) \/ KillsSome(b, i) \/ KillsSome(c, i)
      /\ \A static \in Statics : static \in statics =>
           RemovesOf(a, static) \/ RemovesOf(b, static) \/ RemovesOf(c, static)
  BY <1>1, <1>2
<1>5. /\ u \in Seq(R) /\ Guarded(u, {})
      /\ \A i : KillsSome(a, i) \/ KillsSome(b, i) => KillsSome(u, i)
      /\ \A static : RemovesOf(a, static) \/ RemovesOf(b, static) => RemovesOf(u, static)
  BY <1>3, ConcatProperties, JoinedGuarded, JoinedRemoves
<1> HIDE DEF u
<1>6. /\ v \in Seq(R) /\ Guarded(v, {})
      /\ \A i : KillsSome(u, i) \/ KillsSome(c, i) => KillsSome(v, i)
      /\ \A static : RemovesOf(u, static) \/ RemovesOf(c, static) => RemovesOf(v, static)
  BY <1>3, <1>5, ConcatProperties, JoinedGuarded, JoinedRemoves
<1> HIDE DEF v
<1>7. Resets(v, statics)
  BY <1>4, <1>5, <1>6 DEF Resets, R
<1> QED
  BY <1>7 DEF u, v

(* A list of kills and removals that kills what the statics hold.          *)
LEMMA ResetsTearDown ==
  ASSUME NEW statics, NEW l \in Seq(StepsOf(TearKinds)),
         \A i \in Instances : StaticOf[i] \in statics => KillsSome(l, i)
  PROVE  TearsDown(l, statics, On, StaticOf)
<1>1. /\ l \in Seq(Steps(On))
      /\ \A k \in 1..Len(l) : /\ l[k].do \in TearKinds
                              /\ l[k].do \in Calling => l[k].on \in Instances
  BY KindsFacts
<1>2. \A k \in 1..Len(l) : l[k].do \notin TestOnly
  BY <1>1 DEF TearKinds, ResetKinds, TestOnly
<1>3. ASSUME NEW i \in Instances, StaticOf[i] \in statics
      PROVE  \E k \in 1..Len(l) : l[k].do = "kill" /\ l[k].on = i
  <2>1. PICK k \in 1..Len(l) : l[k] = Do("kill", i)
    BY <1>3 DEF KillsSome
  <2>2. Do("kill", i).do = "kill" /\ Do("kill", i).on = i
    BY DoFacts DEF Kinds, On, Fits
  <2> QED
    BY <2>1, <2>2
<1> QED
  BY <1>1, <1>2, <1>3 DEF TearsDown, Calling

Gone(statics) == {i \in Instances : StaticOf[i] \notin statics}

(* TearDownTestCase resets the statics and ends by removing the directory  *)
(* tmp.                                                                    *)
LEMMA TearDownFacts ==
  ASSUME NEW statics \in SUBSET Statics
  PROVE  LET l == TearDownTestCase(statics) IN
         /\ TearsDown(l, statics, On, StaticOf)
         /\ l \in Seq(StepsOf(TearKinds))
         /\ Guarded(l, Gone(statics))
         /\ Len(l) \in Nat \ {0}
         /\ l[Len(l)].do = "remove_tmp"
         /\ \A k \in 1..Len(l) : l[k].do = "remove_tmp" => k = Len(l)
<1> DEFINE R == StepsOf(ResetKinds)
           S == StepsOf(TearKinds)
           m == Mark("remove_tmp")
           e == <<m>>
           v == (ResetDnsmasq(statics) \o ResetSite(Site1, statics)) \o ResetSite(Site2, statics)
           l == v \o e
           gone == Gone(statics)
<1>1. TearDownTestCase(statics) = l
  BY DEF TearDownTestCase
<1>2. Resets(v, statics)
  BY InAnyOrder
<1>3. e \in Seq(S) /\ Len(e) = 1 /\ e[1] = m /\ m.do = "remove_tmp"
  <2>1. None \in On /\ "remove_tmp" \in TearKinds /\ "remove_tmp" # "kill"
    BY DEF On, TearKinds
  <2>2. m \in S /\ m.do = "remove_tmp"
    BY <2>1, ResetStep DEF Mark, Fits, Calling
  <2> HIDE DEF m, S
  <2> QED
    BY <2>2
<1>4. Seq(R) \subseteq Seq(S) /\ Seq(S) \subseteq Seq(Steps(On))
  <2>1. ResetKinds \subseteq TearKinds
    BY DEF TearKinds
  <2> QED
    BY <2>1, MoreKinds
<1> HIDE DEF v, m, e, gone
<1>7. v \in Seq(R) /\ v \in Seq(S) /\ Guarded(v, {})
  BY <1>2, <1>4 DEF Resets
<1>8. \A i \in Instances : StaticOf[i] \in statics => KillsSome(v, i)
  BY <1>2 DEF Resets
<1> HIDE DEF R, S
<1>9. /\ l \in Seq(S) /\ Guarded(l, gone)
      /\ \A i : KillsSome(v, i) => KillsSome(l, i)
  <2>1. Guarded(v, gone)
    BY <1>7 DEF Guarded
  <2>2. Guarded(e, Instances)
    BY DEF Guarded
  <2>3. \A i \in Instances : i \in Instances => i \in gone \/ KillsSome(v, i)
    BY <1>8 DEF gone, Gone
  <2> QED
    BY <1>3, <1>7, <2>1, <2>2, <2>3, ConcatProperties, JoinedGuarded
<1>10. /\ Len(v) \in Nat /\ Len(l) = Len(v) + 1 /\ l[Len(v) + 1] = m
       /\ \A k \in 1..Len(v) : l[k] = v[k]
  <2>1. v \in Seq(S) /\ e \in Seq(S)
    BY <1>3, <1>7
  <2>2. /\ Len(v) \in Nat /\ Len(l) = Len(v) + Len(e)
        /\ \A k \in 1..Len(v) : l[k] = v[k]
        /\ \A k \in 1..Len(e) : l[Len(v) + k] = e[k]
    BY <2>1, Joined
  <2> HIDE DEF l
  <2> QED
    BY <1>3, <2>2
<1> HIDE DEF l
<1>11. \A k \in 1..Len(v) : v[k].do # "remove_tmp"
  <2>1. \A k \in 1..Len(v) : v[k].do \in ResetKinds
    BY <1>7, KindsFacts DEF R
  <2> QED
    BY <2>1 DEF ResetKinds
<1>12. /\ Len(l) \in Nat \ {0} /\ l[Len(l)].do = "remove_tmp"
       /\ \A k \in 1..Len(l) : l[k].do = "remove_tmp" => k = Len(l)
  BY <1>3, <1>10, <1>11
<1>13. TearsDown(l, statics, On, StaticOf)
  BY <1>8, <1>9, ResetsTearDown DEF S
<1> QED
  BY <1>1, <1>9, <1>12, <1>13 DEF S, gone

(* exit() resets the statics too, and leaves the directory tmp.            *)
LEMMA ExitFacts ==
  ASSUME NEW statics \in SUBSET Statics
  PROVE  LET l == StaticDestructors(statics) IN
         /\ Resets(l, statics)
         /\ TearsDown(l, statics, On, StaticOf)
         /\ l \in Seq(StepsOf(TearKinds))
         /\ Guarded(l, Gone(statics))
<1> DEFINE l == StaticDestructors(statics)
<1>1. Resets(l, statics)
  BY InAnyOrder DEF StaticDestructors
<1> HIDE DEF l
<1>2. l \in Seq(StepsOf(TearKinds))
  <2>1. ResetKinds \subseteq TearKinds
    BY DEF TearKinds
  <2> QED
    BY <1>1, <2>1, MoreKinds DEF Resets
<1>3. TearsDown(l, statics, On, StaticOf) /\ Guarded(l, Gone(statics))
  BY <1>1, <1>2, ResetsTearDown DEF Resets, Guarded
<1> QED
  BY <1>1, <1>2, <1>3 DEF l

-----------------------------------------------------------------------------
(* The invariant of the fixture *)

FileKinds == {"create_tmp", "new_site", "new_dnsmasq", "remove_cfg", "remove_chronos",
              "remove_site", "remove_tmp"}

(* A step that builds or removes files makes no call, ...                  *)
LEMMA FileStepFacts ==
  ASSUME NEW h \in Roots, FileStep(h)
  PROVE  /\ Ready(h) /\ todo[h] # << >>
         /\ Head(todo[h]).do \in FileKinds
         /\ Advance(h) /\ todo' = [todo EXCEPT ![h] = Tail(@)]
         /\ UNCHANGED <<vars, phase, owned, signalled>>
<1>1. Ready(h) /\ todo[h] # << >> /\ Head(todo[h]).do \in FileKinds
  BY DEF FileStep, Comes, FileKinds
<1>2. Advance(h) /\ UNCHANGED <<vars, phase, owned, signalled>>
  BY DEF FileStep
<1> QED
  BY <1>1, <1>2 DEF Advance

(* ... nor does the making of S4Site objects.                              *)
LEMMA S4SitesFacts ==
  ASSUME NEW h \in Roots, S4Sites(h)
  PROVE  /\ Ready(h) /\ todo[h] # << >>
         /\ Head(todo[h]).do \in {"new_s4_sites", "delete_s4_sites"}
         /\ Advance(h) /\ todo' = [todo EXCEPT ![h] = Tail(@)]
         /\ UNCHANGED <<vars, phase, owned, signalled, configVars>>
BY DEF S4Sites, Comes, Advance

LEMMA FileStepKeeps ==
  ASSUME FixtureInv(On, StaticOf), NEW h \in Roots, FileStep(h) \/ S4Sites(h)
  PROVE  FixtureInv(On, StaticOf)'
<1>1. /\ Ready(h) /\ todo[h] # << >>
      /\ Head(todo[h]).do \in FileKinds \cup {"new_s4_sites", "delete_s4_sites"}
      /\ Advance(h) /\ todo' = [todo EXCEPT ![h] = Tail(@)]
      /\ UNCHANGED <<vars, phase, owned, signalled>>
  BY FileStepFacts, S4SitesFacts
<1>2. Head(todo[h]).do \notin {"start", "kill", "restart", "wait", "teardown", "own"}
  BY <1>1 DEF FileKinds
<1>3. FixtureTypeOK'
  <2>1. TypeOK'
    BY <1>1 DEF FixtureInv, FixtureTypeOK, TypeOK, vars, kernelVars, memberVars, callVars
  <2>2. /\ judge'  \in [Roots -> {"nobody", "site", "test"}]
        /\ siteOk' \in [Roots -> BOOLEAN]
        /\ failed' \in [Roots -> BOOLEAN]
    BY <1>1, <2>1, AdvanceTypes DEF FixtureInv
  <2> QED
    BY <1>1, <2>1, <2>2 DEF FixtureInv, FixtureTypeOK
<1> QED
  BY <1>1, <1>2, <1>3, QuietAdvance

LEMMA FixtureKept ==
  ASSUME FixtureInv(On, StaticOf), [S4Next]_allVars
  PROVE  FixtureInv(On, StaticOf)'
<1>1. CASE UNCHANGED allVars
  BY <1>1, StutterKeeps DEF allVars
<1>2. ASSUME NEW h \in Roots
      PROVE  /\ TearsDown(TearDownTestCase(owned[h]), owned[h], On, StaticOf)
             /\ TearsDown(StaticDestructors(owned[h]), owned[h], On, StaticOf)
  BY TearDownFacts, ExitFacts DEF FixtureInv, FixtureTypeOK
<1>3. CASE \E h \in Roots : Program(h)
  <2> SUFFICES ASSUME NEW h \in Roots, Program(h)
               PROVE  FixtureInv(On, StaticOf)'
    BY <1>3
  <2>1. CASE HttpStackFails(h)
    BY <1>2, <2>1, ExitKeeps DEF HttpStackFails
  <2>2. CASE RemoveAborts(h)
    BY <2>2, AbortKeeps DEF RemoveAborts
  <2> QED
    BY <1>2, <2>1, <2>2, FixtureStepKeeps, BeginTearDownKeeps, FileStepKeeps DEF Program
<1>4. CASE \E h \in Roots : SignalHandler(h, TearDownTestCase(owned[h]))
  BY <1>2, <1>4, SignalKeeps
<1>5. CASE \E p \in Pids : ProcessStep(p) \/ (Server(p) /\ UNCHANGED <<fixtureVars, configVars>>)
  BY <1>5, ProcessKeeps DEF ProcessStep
<1> QED
  BY <1>1, <1>3, <1>4, <1>5 DEF S4Next

S4FixtureInv == FixtureInv(On, StaticOf)

LEMMA FixtureInductive == S4Spec => [](S4FixtureInv /\ NoOrphans /\ FixtureTypeOK)
<1>1. S4Init => S4FixtureInv
  BY InitFixture DEF S4FixtureInv
<1>2. S4FixtureInv /\ [S4Next]_allVars => S4FixtureInv'
  BY FixtureKept DEF S4FixtureInv
<1>3. S4FixtureInv => NoOrphans /\ FixtureTypeOK
  BY NothingLeft DEF S4FixtureInv
<1> QED
  BY <1>1, <1>2, <1>3, PTL DEF S4Spec

(* The variables of the fixture have their types.                          *)
THEOREM S4TypeCorrect == S4Spec => []FixtureTypeOK
  BY FixtureInductive, PTL

(* A test program that has ended, by itself, by an exit() of an S4Site or  *)
(* by a signal, has left no server of the two sites, nor dnsmasq, behind   *)
(* unsignalled, unless the signal hit it between a fork() and the saving   *)
(* of the pid or in a tear-down, or a remove_all aborted it.               *)
THEOREM S4NoServerLeftBehind == S4Spec => []NoOrphans
  BY FixtureInductive, PTL

LEMMA StepIsAllowed ==
  ASSUME S4FixtureInv, [S4Next]_allVars
  PROVE  \/ [Next]_vars
         \/ \E h \in Roots : phase'[h] # phase[h] /\ phase'[h] \in {"handler", "nested"}
<1> USE DEF S4FixtureInv
<1>1. CASE UNCHANGED allVars
  BY <1>1 DEF allVars
<1>2. ASSUME NEW h \in Roots, Program(h)
      PROVE  [Next]_vars
  <2>1. CASE FixtureStep(h)
    BY <2>1, FixtureStepKeeps
  <2>2. CASE FileStep(h) \/ S4Sites(h)
    BY <2>2, FileStepFacts, S4SitesFacts
  <2>3. CASE BeginTearDown(h, TearDownTestCase(owned[h])) \/ HttpStackFails(h) \/ RemoveAborts(h)
    BY <2>3 DEF BeginTearDown, HttpStackFails, RemoveAborts
  <2> QED
    BY <1>2, <2>1, <2>2, <2>3 DEF Program
<1>3. ASSUME NEW h \in Roots, SignalHandler(h, TearDownTestCase(owned[h]))
      PROVE  phase'[h] # phase[h] /\ phase'[h] \in {"handler", "nested"}
  BY <1>3 DEF SignalHandler, FixtureInv, FixtureTypeOK
<1>4. CASE \E p \in Pids : ProcessStep(p) \/ (Server(p) /\ UNCHANGED <<fixtureVars, configVars>>)
  BY <1>4 DEF ProcessStep, Next
<1> QED
  BY <1>1, <1>2, <1>3, <1>4 DEF S4Next

(* The S4 tests too call start_instance on an instance that is not running *)
(* only, and all they do to processes but for a signal is what             *)
(* ProcessInstance allows.                                                 *)
THEOREM S4UsesProcessInstance == S4Spec => UsesProcessInstance
<1>1. S4Init => Init
  BY DEF S4Init, FixtureInit
<1>2. S4FixtureInv /\ [S4Next]_allVars =>
        [Next \/ \E h \in Roots : /\ phase'[h] # phase[h]
                                  /\ phase'[h] \in {"handler", "nested"}]_vars
  BY StepIsAllowed
<1> QED
  BY <1>1, <1>2, FixtureInductive, PTL DEF S4Spec, UsesProcessInstance

-----------------------------------------------------------------------------
(* No test waits for a server that was killed for good *)

HasWait(h) == \E k \in 1..Len(todo[h]) : todo[h][k].do = "wait"

(* As long as a test has a server to wait for, none has been killed.       *)
DeadInv(h) ==
  /\ KillsLast(todo[h])
  /\ \A k \in 1..Len(todo[h]) : todo[h][k].do # "restart"
  /\ HasWait(h) =>
       /\ pc[h] \notin Waiting
       /\ \A i \in Instances : running[h][i] \/ pid[h][i] = None

(* The list of h is what was left of it, or less.                          *)
Suffix(h) ==
  \E d \in 0..Len(todo[h]) :
    /\ Len(todo'[h]) = Len(todo[h]) - d
    /\ \A k \in 1..Len(todo'[h]) : k + d \in 1..Len(todo[h]) /\ todo'[h][k] = todo[h][k + d]

LEMMA TailIsSuffix ==
  ASSUME NEW h \in Roots, todo[h] \in Seq(Steps(On)), todo[h] # << >>, todo'[h] = Tail(todo[h])
  PROVE  Suffix(h) /\ Shorter(h) /\ Head(todo[h]) = todo[h][1] /\ 1 \in 1..Len(todo[h])
<1>1. /\ Head(todo[h]) = todo[h][1]
      /\ Len(todo[h]) \in Nat \ {0} /\ Len(todo'[h]) = Len(todo[h]) - 1
      /\ \A k \in 1..(Len(todo[h]) - 1) : todo'[h][k] = todo[h][k + 1]
  BY TailFacts
<1>2. Shorter(h)
  BY <1>1 DEF Shorter
<1>3. 1 \in 0..Len(todo[h]) /\ 1 \in 1..Len(todo[h])
  BY <1>1
<1> QED
  BY <1>1, <1>2, <1>3 DEF Suffix, Shorter

LEMMA SuffixIsDead ==
  ASSUME NEW h \in Roots, Suffix(h), DeadInv(h)
  PROVE  /\ KillsLast(todo'[h])
         /\ \A k \in 1..Len(todo'[h]) : todo'[h][k].do # "restart"
         /\ HasWait(h)' => HasWait(h)
<1>1. PICK d \in 0..Len(todo[h]) :
        /\ Len(todo'[h]) = Len(todo[h]) - d
        /\ \A k \in 1..Len(todo'[h]) : k + d \in 1..Len(todo[h]) /\ todo'[h][k] = todo[h][k + d]
  BY DEF Suffix
<1>2. ASSUME NEW j \in 1..Len(todo'[h]), NEW k \in 1..Len(todo'[h]),
             todo'[h][j].do = "kill", todo'[h][k].do = "wait"
      PROVE  k < j
  <2>1. k + d < j + d
    BY <1>1, <1>2 DEF DeadInv, KillsLast
  <2> QED
    BY <2>1
<1>3. HasWait(h)' => HasWait(h)
  BY <1>1 DEF HasWait
<1> QED
  BY <1>1, <1>2, <1>3 DEF DeadInv, KillsLast

LEMMA InitDead ==
  ASSUME S4Init, NEW h \in Roots
  PROVE  DeadInv(h)
<1>1. todo[h] = TestCase
  BY DEF S4Init
<1>2. KillsLast(todo[h])
  BY <1>1, TestCaseFacts
<1>3. \A k \in 1..Len(todo[h]) : todo[h][k].do # "restart"
  <2>1. todo[h] \in Seq(StepsOf(StartKinds \cup TestKinds))
    BY <1>1, TestCaseFacts
  <2>2. \A k \in 1..Len(todo[h]) : todo[h][k].do \in StartKinds \cup TestKinds
    BY <2>1, KindsFacts
  <2> QED
    BY <2>2 DEF StartKinds, TestKinds, WaitKinds
<1>4. pc[h] = "idle" /\ \A i \in Instances : pid[h][i] = None
  BY ProcessAssumption DEF S4Init, FixtureInit, Init
<1> QED
  BY <1>2, <1>3, <1>4 DEF DeadInv, Waiting

(* TearDownTestCase and exit() wait for nobody.                            *)
LEMMA TearDownDead ==
  ASSUME NEW h \in Roots, NEW statics \in SUBSET Statics,
         todo'[h] \in {TearDownTestCase(statics), StaticDestructors(statics)}
  PROVE  DeadInv(h)'
<1>1. \A k \in 1..Len(todo'[h]) : todo'[h][k].do \in TearKinds
  BY TearDownFacts, ExitFacts, KindsFacts
<1>2. \A k \in 1..Len(todo'[h]) : todo'[h][k].do \notin {"restart", "wait"}
  BY <1>1 DEF TearKinds, ResetKinds
<1> QED
  BY <1>2 DEF DeadInv, HasWait, KillsLast

(* A step of a call ends no server while there is one to wait for.         *)
LEMMA OwnStepDead ==
  ASSUME IInv, NEW h \in Roots, Step(h), DeadInv(h), UNCHANGED todo
  PROVE  DeadInv(h)'
<1> USE ProcessAssumption DEF IInv, TypeOK
<1>1. h \in Pids /\ status[h] = "program" /\ pc[h] # "exec"
      /\ (pc[h] # "idle" => arg[h] \in Instances)
  <2>1. status[h] = "program"
    BY DEF Step, Proceed, Fork, ForkFails, SaveOffPid, Exec, ExecFails, Reap, WaitNoChild,
       ConnectSucceeds, ConnectRefused, CallOff, At
  <2> QED
    BY <2>1 DEF RootInv, CallInv
<1>2. ASSUME HasWait(h)
      PROVE  /\ pc'[h] \notin Waiting
             /\ \A i \in Instances : running'[h][i] \/ pid'[h][i] = None
  <2>1. pc[h] \notin Waiting /\ \A i \in Instances : running[h][i] \/ pid[h][i] = None
    BY <1>2 DEF DeadInv
  <2>2. CASE Fork(h)
    <3>1. PICK c \in Pids :
            /\ status[c] = "unused"
            /\ pid'     = [pid EXCEPT ![c] = pid[h]]
            /\ running' = [running EXCEPT ![c] = running[h]]
            /\ pc'      = [pc EXCEPT ![h] = "forked", ![c] = "exec"]
      BY <2>2 DEF Fork
    <3>2. c # h
      BY <1>1, <3>1
    <3> QED
      BY <1>1, <2>1, <3>1, <3>2 DEF Waiting
  <2>3. CASE ForkFails(h) \/ ConnectSucceeds(h) \/ ConnectRefused(h) \/ CallOff(h)
    <3>1. UNCHANGED memberVars /\ (pc'[h] = "idle" \/ pc' = pc)
      BY <1>1, <2>3 DEF ForkFails, ConnectSucceeds, ConnectRefused, CallOff, Return
    <3> QED
      BY <2>1, <3>1 DEF memberVars, Waiting
  <2>4. CASE SaveOffPid(h)
    <3>1. /\ pc'[h] = "idle"
          /\ pid'     = [pid EXCEPT ![h][arg[h]] = fresh[h]]
          /\ running' = [running EXCEPT ![h][arg[h]] = TRUE]
      BY <1>1, <2>4 DEF SaveOffPid, Return
    <3> QED
      BY <1>1, <2>1, <3>1 DEF Waiting
  <2>5. ~Exec(h) /\ ~ExecFails(h) /\ ~Reap(h) /\ ~WaitNoChild(h)
    BY <1>1, <2>1 DEF Exec, ExecFails, At, Reap, WaitNoChild
  <2> QED
    BY <2>2, <2>3, <2>4, <2>5 DEF Step, Proceed
<1> QED
  BY <1>2 DEF DeadInv, HasWait

(* A call of a test that has a server to wait for is not a kill.           *)
LEMMA CallDead ==
  ASSUME FixtureInv(On, StaticOf), NEW h \in Roots, MakeCall(h), DeadInv(h)
  PROVE  DeadInv(h)'
<1> USE ProcessAssumption DEF FixtureInv, FixtureTypeOK, TypeOK
<1>1. /\ todo[h] # << >> /\ h \in Pids /\ pc[h] = "idle"
      /\ Head(todo[h]).do \in {"start", "kill", "restart", "wait"}
      /\ todo'[h] = Tail(todo[h])
  BY DEF MakeCall, Comes, Ready, Advance
<1>2. /\ Suffix(h) /\ Shorter(h) /\ Head(todo[h]) = todo[h][1] /\ 1 \in 1..Len(todo[h])
  BY <1>1, TailIsSuffix
<1>3. ASSUME HasWait(h)'
      PROVE  Head(todo[h]).do \in {"start", "wait"}
  <2>1. PICK k \in 1..Len(todo'[h]) : todo'[h][k].do = "wait"
    BY <1>3 DEF HasWait
  <2>2. k + 1 \in 1..Len(todo[h]) /\ todo[h][k + 1].do = "wait" /\ ~(k + 1 < 1)
    BY <1>2, <2>1 DEF Shorter
  <2>3. todo[h][1].do # "kill"
    BY <1>2, <2>2 DEF DeadInv, KillsLast
  <2>4. todo[h][1].do # "restart"
    BY <1>2 DEF DeadInv
  <2> QED
    BY <1>1, <1>2, <2>3, <2>4
<1>4. ASSUME Head(todo[h]).do \in {"start", "wait"}
      PROVE  UNCHANGED memberVars /\ pc'[h] \notin Waiting
  <2>1. CASE Start(h, Head(todo[h]).on)
    BY <1>1, <2>1 DEF Start, Waiting
  <2>2. CASE WaitFor(h, Head(todo[h]).on)
    BY <1>1, <2>2 DEF WaitFor, Waiting
  <2>3. CASE SocketFails(h)
    BY <1>1, <2>3 DEF SocketFails, Return, Waiting
  <2> QED
    BY <1>4, <2>1, <2>2, <2>3 DEF MakeCall, Comes
<1>5. /\ KillsLast(todo'[h])
      /\ \A k \in 1..Len(todo'[h]) : todo'[h][k].do # "restart"
      /\ HasWait(h)' => HasWait(h)
  BY <1>2, SuffixIsDead
<1> QED
  BY <1>3, <1>4, <1>5 DEF DeadInv, memberVars

-----------------------------------------------------------------------------
(* The steps of the test case, as its program h sees them *)

(* The fixture goes on to its next step, and makes no call.                *)
Quiet(h) ==
  \/ BeginWait(h) \/ SiteIsUp(h) \/ TestBoundary(h)
  \/ S4Sites(h)
  \/ \E static \in Statics : Own(h, static) \/ Disown(h, static)

(* A process builds and removes no file, but a chronos may make its log    *)
(* files.                                                                  *)
LogsOnly ==
  \/ UNCHANGED configVars
  \/ \E n \in Names : \E k \in 1..Len(Chronoses[n]) : Config!WriteLog(n, k)

LEMMA StepCases ==
  ASSUME [S4Next]_allVars, NEW h \in Roots
  PROVE  \/ UNCHANGED allVars
         \/ \E p \in Pids : /\ (p # h /\ Step(p)) \/ Server(p)
                            /\ UNCHANGED fixtureVars /\ LogsOnly
         \/ Step(h) /\ UNCHANGED fixtureVars /\ LogsOnly
         \/ MakeCall(h) /\ UNCHANGED configVars
         \/ Quiet(h) /\ UNCHANGED configVars
         \/ SiteNotUp(h) /\ UNCHANGED configVars
         \/ Finish(h) /\ UNCHANGED configVars
         \/ FileStep(h)
         \/ HttpStackFails(h)
         \/ RemoveAborts(h)
         \/ BeginTearDown(h, TearDownTestCase(owned[h])) /\ Config!TearDownTestCase
         \/ SignalHandler(h, TearDownTestCase(owned[h])) /\ Config!TearDownTestCase
<1>1. \A g \in Roots : g = h
  BY S4Assumption
<1>2. CASE \E g \in Roots : Program(g)
  <2>1. Program(h)
    BY <1>1, <1>2
  <2>2. S4Sites(h) => Quiet(h) /\ UNCHANGED configVars
    BY DEF S4Sites, Quiet
  <2> QED
    BY <2>1, <2>2 DEF Program, FixtureStep, Quiet
<1>3. CASE \E g \in Roots :
             SignalHandler(g, TearDownTestCase(owned[g])) /\ Config!TearDownTestCase
  BY <1>1, <1>3
<1>4. CASE \E p \in Pids : ProcessStep(p) \/ (Server(p) /\ UNCHANGED <<fixtureVars, configVars>>)
  <2>1. ASSUME NEW p \in Pids, ProcessStep(p)
        PROVE  Step(p) /\ UNCHANGED fixtureVars /\ LogsOnly
    <3>1. \A n \in Names : DOMAIN Chronoses[n] = 1..Len(Chronoses[n])
      BY SiteFacts, LenProperties
    <3> QED
      BY <2>1, <3>1 DEF ProcessStep, LogsOnly
  <2>2. ASSUME NEW p \in Pids, Server(p), UNCHANGED <<fixtureVars, configVars>>
        PROVE  Server(p) /\ UNCHANGED fixtureVars /\ LogsOnly
    BY <2>2 DEF LogsOnly
  <2> QED
    BY <1>4, <2>1, <2>2
<1> QED
  BY <1>2, <1>3, <1>4 DEF S4Next

LEMMA QuietFacts ==
  ASSUME NEW h \in Roots, Quiet(h)
  PROVE  /\ Ready(h) /\ todo[h] # << >> /\ todo' = [todo EXCEPT ![h] = Tail(@)]
         /\ Head(todo[h]).do \in {"wait_for_instances", "return_unless_ok", "body", "done",
                                  "new_s4_sites", "delete_s4_sites", "own", "disown"}
         /\ UNCHANGED <<vars, phase, signalled>>
         /\ \/ Head(todo[h]).do = "own"
                 /\ owned' = [owned EXCEPT ![h] = @ \cup {Head(todo[h]).on}]
            \/ Head(todo[h]).do = "disown"
            \/ Head(todo[h]).do \notin {"own", "disown"} /\ owned' = owned
<1>1. CASE BeginWait(h) \/ SiteIsUp(h) \/ TestBoundary(h)
  BY <1>1 DEF BeginWait, SiteIsUp, TestBoundary, Advance, Comes
<1>2. ASSUME NEW static \in Statics, Own(h, static) \/ Disown(h, static)
      PROVE  /\ Ready(h) /\ todo[h] # << >> /\ todo' = [todo EXCEPT ![h] = Tail(@)]
             /\ UNCHANGED <<vars, phase, signalled>>
             /\ \/ /\ Head(todo[h]).do = "own"
                   /\ owned' = [owned EXCEPT ![h] = @ \cup {Head(todo[h]).on}]
                \/ Head(todo[h]).do = "disown"
  BY <1>2 DEF Own, Disown, Advance, Comes
<1>3. CASE S4Sites(h)
  BY <1>3, S4SitesFacts
<1> QED
  BY <1>1, <1>2, <1>3 DEF Quiet

(* The site is not up: the rest of SetUp is skipped.                       *)
LEMMA SkipIsSuffix ==
  ASSUME NEW h \in Roots, todo \in [Roots -> Seq(Steps(On))], SiteNotUp(h)
  PROVE  Suffix(h) /\ UNCHANGED <<vars, phase, owned, signalled>> /\ Ready(h)
         /\ todo[h] # << >> /\ todo[h][1].do = "return_unless_ok"
         /\ todo'[h] \in Seq(Steps(On))
<1>1. /\ todo[h] # << >> /\ Head(todo[h]).do = "return_unless_ok" /\ Ready(h)
      /\ UNCHANGED <<vars, phase, owned, signalled>>
  BY DEF SiteNotUp, Comes
<1>2. /\ todo[h] \in Seq(Steps(On)) /\ todo[h][1].do = "return_unless_ok"
      /\ DOMAIN todo[h] = 1..Len(todo[h]) /\ Len(todo[h]) \in Nat
  BY <1>1, HeadFacts, LenProperties
<1>3. PICK k \in 1..Len(todo[h]) : todo' = [todo EXCEPT ![h] = SubSeq(@, k, Len(@))]
  BY <1>2 DEF SiteNotUp
<1> DEFINE s == todo[h]
           n == Len(s)
<1>4. todo'[h] = SubSeq(s, k, n)
  BY <1>3
<1>5. s \in Seq(Steps(On)) /\ n \in Nat /\ k \in 1..n /\ n = Len(s)
      /\ \A j \in 1..n : s[j] \in Steps(On)
  BY <1>2, <1>3, LenProperties
<1> HIDE DEF s, n
<1>6. /\ SubSeq(s, k, n) \in Seq(Steps(On))
      /\ Len(SubSeq(s, k, n)) = n - k + 1
      /\ \A j \in 1..(n - k + 1) : SubSeq(s, k, n)[j] = s[k + j - 1]
  BY <1>5, SubSeqProperties
<1> DEFINE d == k - 1
           t == SubSeq(s, k, n)
<1>7. d \in 0..n /\ n - k + 1 = n - d /\ \A j \in 1..(n - d) : j + d = k + j - 1 /\ j + d \in 1..n
  BY <1>5
<1> HIDE DEF d, t
<1>8. /\ t \in Seq(Steps(On)) /\ Len(t) = n - d
      /\ \A j \in 1..Len(t) : j + d \in 1..n /\ t[j] = s[j + d]
  BY <1>6, <1>7 DEF t
<1>9. todo'[h] = t
  BY <1>4 DEF t
<1>10. Suffix(h)
  <2>1. d \in 0..Len(todo[h]) /\ Len(todo'[h]) = Len(todo[h]) - d
        /\ \A j \in 1..Len(todo'[h]) : j + d \in 1..Len(todo[h]) /\ todo'[h][j] = todo[h][j + d]
    BY <1>7, <1>8, <1>9 DEF s, n
  <2> QED
    BY <2>1 DEF Suffix
<1> QED
  BY <1>1, <1>2, <1>8, <1>9, <1>10

LEMMA DeadStep ==
  ASSUME FixtureInv(On, StaticOf), [S4Next]_allVars, NEW h \in Roots, DeadInv(h)
  PROVE  DeadInv(h)'
<1> USE DEF FixtureInv
<1>1. ASSUME Untouched(h), todo'[h] = todo[h]
      PROVE  DeadInv(h)'
  BY <1>1 DEF Untouched, DeadInv, HasWait
<1>2. ASSUME Suffix(h), UNCHANGED vars
      PROVE  DeadInv(h)'
  BY <1>2, SuffixIsDead DEF DeadInv, vars, memberVars, callVars
<1>3. CASE UNCHANGED allVars
  BY <1>1, <1>3 DEF allVars, vars, memberVars, callVars, fixtureVars, Untouched
<1>4. ASSUME NEW p \in Pids, (p # h /\ Step(p)) \/ Server(p), UNCHANGED fixtureVars
      PROVE  DeadInv(h)'
  BY <1>1, <1>4, OthersLeaveAlone DEF fixtureVars
<1>5. CASE Step(h) /\ UNCHANGED fixtureVars
  BY <1>5, OwnStepDead DEF fixtureVars
<1>6. CASE MakeCall(h)
  BY <1>6, CallDead
<1>7. CASE Quiet(h) \/ FileStep(h)
  <2>1. todo[h] # << >> /\ todo' = [todo EXCEPT ![h] = Tail(@)] /\ UNCHANGED vars
    BY <1>7, QuietFacts, FileStepFacts
  <2> QED
    BY <1>2, <2>1, TailIsSuffix
<1>8. CASE SiteNotUp(h)
  BY <1>2, <1>8, SkipIsSuffix
<1>9. CASE Finish(h)
  <2>1. Untouched(h)
    BY <1>9, OthersLeaveAlone, ProcessAssumption DEF Finish
  <2> QED
    BY <1>1, <1>9, <2>1 DEF Finish, fixtureVars
<1>10. CASE \/ BeginTearDown(h, TearDownTestCase(owned[h])) \/ HttpStackFails(h)
            \/ SignalHandler(h, TearDownTestCase(owned[h]))
  <2>1. /\ todo'[h] \in {TearDownTestCase(owned[h]), StaticDestructors(owned[h])}
        /\ owned[h] \in SUBSET Statics
    BY <1>10 DEF BeginTearDown, HttpStackFails, SignalHandler, FixtureTypeOK
  <2> QED
    BY <2>1, TearDownDead
<1>11. CASE RemoveAborts(h)
  <2>1. Len(todo'[h]) = 0
    BY <1>11 DEF RemoveAborts
  <2> HIDE DEF FixtureInv
  <2> QED
    BY <2>1 DEF DeadInv, HasWait, KillsLast
<1> QED
  BY StepCases, <1>3, <1>4, <1>5, <1>6, <1>7, <1>8, <1>9, <1>10, <1>11

S4DeadInv == \A h \in Roots : DeadInv(h)

(* No test waits for a server that an earlier one has killed for good: the *)
(* sites are killed after the last wait.                                   *)
THEOREM DeadNotWaitedFor == S4Spec => []NoTestWaitsForTheDead
<1>1. S4Init => S4DeadInv
  BY InitDead DEF S4DeadInv
<1>2. S4FixtureInv /\ S4DeadInv /\ [S4Next]_allVars => S4DeadInv'
  BY DeadStep DEF S4FixtureInv, S4DeadInv
<1>3. S4FixtureInv /\ S4DeadInv => NoTestWaitsForTheDead
  <2> SUFFICES ASSUME S4FixtureInv, S4DeadInv, NEW h \in Roots, Comes(h, "wait")
               PROVE  running[h][Head(todo[h]).on] \/ pid[h][Head(todo[h]).on] = None
    BY DEF NoTestWaitsForTheDead
  <2>1. /\ Head(todo[h]) = todo[h][1] /\ 1 \in 1..Len(todo[h]) /\ todo[h][1].do = "wait"
    BY HeadFacts DEF Comes, S4FixtureInv, FixtureInv
  <2>2. todo[h][1].on \in Instances
    BY <2>1 DEF S4FixtureInv, FixtureInv, ProgramInv, ListInv
  <2> QED
    BY <2>1, <2>2 DEF S4DeadInv, DeadInv, HasWait
<1> QED
  BY <1>1, <1>2, <1>3, FixtureInductive, PTL DEF S4Spec

-----------------------------------------------------------------------------
(* The files that servers read *)

LEMMA SharedPaths ==
  ASSUME NEW n, NEW f \in Config!SharedFiles(n)
  PROVE  /\ 1 \in DOMAIN f /\ f[1] = "tmp" /\ f # Config!DnsmasqCfg
         /\ f[2] = n /\ 5 \notin DOMAIN f
<1> USE DEF Config!SiteDir
<1>1. CASE f = Config!SiteDir(n)
  BY <1>1 DEF Config!DnsmasqCfg
<1>2. CASE f = Config!ClusterSettings(n)
  BY <1>2 DEF Config!ClusterSettings, Config!DnsmasqCfg
<1>3. CASE f = Config!ChronosDir(n)
  BY <1>3 DEF Config!ChronosDir, Config!DnsmasqCfg
<1>4. CASE f = Config!SharedConfFile(n)
  BY <1>4 DEF Config!SharedConfFile, Config!DnsmasqCfg
<1>5. CASE f = Config!ClusterConfFile(n)
  BY <1>5 DEF Config!ClusterConfFile, Config!DnsmasqCfg
<1> QED
  BY <1>1, <1>2, <1>3, <1>4, <1>5 DEF Config!SharedFiles

LEMMA InstancePaths ==
  ASSUME NEW n, NEW k, NEW f \in Config!InstanceFiles(n, k)
  PROVE  /\ 1 \in DOMAIN f /\ f[1] = "tmp" /\ f # Config!DnsmasqCfg
         /\ f[2] = n /\ 5 \in DOMAIN f /\ f[5] = k
<1> USE DEF Config!SiteDir
<1>1. CASE f = Config!InstanceDir(n, k)
  BY <1>1 DEF Config!InstanceDir, Config!DnsmasqCfg
<1>2. CASE f = Config!LogDir(n, k)
  BY <1>2 DEF Config!LogDir, Config!DnsmasqCfg
<1>3. CASE f = Config!ConfDir(n, k)
  BY <1>3 DEF Config!ConfDir, Config!DnsmasqCfg
<1>4. CASE f = Config!LocalConfFile(n, k)
  BY <1>4 DEF Config!LocalConfFile, Config!DnsmasqCfg
<1> QED
  BY <1>1, <1>2, <1>3, <1>4 DEF Config!InstanceFiles

(* What remove_all of a directory takes, of the files of the servers.      *)
LEMMA UnderDirs ==
  ASSUME NEW n, NEW k, NEW f
  PROVE  /\ Config!Under(Config!SiteDir(n), f) => 1 \in DOMAIN f /\ f[1] = "tmp" /\ f[2] = n
         /\ Config!Under(Config!InstanceDir(n, k), f) =>
              1 \in DOMAIN f /\ f[1] = "tmp" /\ f[2] = n /\ 5 \in DOMAIN f /\ f[5] = k
         /\ Config!Under(Config!TmpDir, f) <=> 1 \in DOMAIN f /\ f[1] = "tmp"
<1>1. Config!Under(Config!SiteDir(n), f) => 1 \in DOMAIN f /\ f[1] = "tmp" /\ f[2] = n
  BY DEF Config!Under, Config!SiteDir
<1>2. Config!Under(Config!InstanceDir(n, k), f) =>
        1 \in DOMAIN f /\ f[1] = "tmp" /\ f[2] = n /\ 5 \in DOMAIN f /\ f[5] = k
  BY DEF Config!Under, Config!InstanceDir, Config!SiteDir
<1>3. Config!Under(Config!TmpDir, f) <=> 1 \in DOMAIN f /\ f[1] = "tmp"
  BY DEF Config!Under, Config!TmpDir
<1> QED
  BY <1>1, <1>2, <1>3

LEMMA DnsmasqCfgPath == Config!DnsmasqCfg[1] # "tmp" /\ Config!TmpDir[1] = "tmp" /\ 1 \in DOMAIN Config!TmpDir
  BY DEF Config!DnsmasqCfg, Config!TmpDir

LEMMA PartsOfSite ==
  ASSUME NEW n \in Names
  PROVE  /\ \A k \in 1..Len(Rogerses[n]) : InSite(Rogerses[n][k], n)
         /\ \A k \in 1..Len(Chronoses[n]) : InSite(Chronoses[n][k], n)
         /\ DOMAIN Rogerses[n] = 1..Len(Rogerses[n])
         /\ DOMAIN Chronoses[n] = 1..Len(Chronoses[n])
<1> DEFINE a == Memcacheds[n]
           b == Rogerses[n]
           c == Chronoses[n]
           s == a \o b
           t == s \o c
<1>1. a \in Seq(Instances) /\ b \in Seq(Instances) /\ c \in Seq(Instances)
  BY SiteFacts
<1>2. DOMAIN b = 1..Len(b) /\ DOMAIN c = 1..Len(c)
  BY <1>1, LenProperties
<1>3. SiteInstances(n) = t
  BY DEF SiteInstances
<1> HIDE DEF a, b, c
<1>4. /\ s \in Seq(Instances)
      /\ \A k \in 1..Len(b) : Len(a) + k \in 1..Len(s) /\ s[Len(a) + k] = b[k]
  BY <1>1, Joined
<1> HIDE DEF s
<1>5. /\ \A k \in 1..Len(s) : k \in 1..Len(t) /\ t[k] = s[k]
      /\ \A k \in 1..Len(c) : Len(s) + k \in 1..Len(t) /\ t[Len(s) + k] = c[k]
  BY <1>1, <1>4, Joined
<1> HIDE DEF t
<1>6. /\ \A k \in 1..Len(b) : \E j \in 1..Len(t) : t[j] = b[k]
      /\ \A k \in 1..Len(c) : \E j \in 1..Len(t) : t[j] = c[k]
  BY <1>4, <1>5
<1> QED
  BY <1>2, <1>3, <1>6 DEF InSite, b, c

(* A server reads the configuration of dnsmasq, files that its site shares *)
(* or those of its chronos instance.                                       *)
LEMMA ReadFiles ==
  ASSUME NEW i, NEW f \in FilesRead(i)
  PROVE  \/ i = Dnsmasq /\ f = Config!DnsmasqCfg
         \/ \E n \in Names : InSite(i, n) /\ f \in Config!SharedFiles(n)
         \/ \E n \in Names : \E k \in 1..Len(Chronoses[n]) :
              Chronoses[n][k] = i /\ InSite(i, n) /\ f \in Config!InstanceFiles(n, k)
<1>1. CASE f \in DnsmasqReads(i)
  BY <1>1 DEF DnsmasqReads
<1>2. CASE f \in RogersReads(i)
  <2>1. PICK n \in Names : f = Config!ClusterSettings(n) /\ i \in Config!Elements(Rogerses[n])
    BY <1>2 DEF RogersReads
  <2>2. PICK k \in 1..Len(Rogerses[n]) : Rogerses[n][k] = i
    BY <2>1, PartsOfSite DEF Config!Elements
  <2>3. InSite(i, n) /\ f \in Config!SharedFiles(n)
    BY <2>1, <2>2, PartsOfSite DEF Config!SharedFiles
  <2> QED
    BY <2>3
<1>3. CASE f \in ChronosReads(i)
  <2>1. PICK n \in Names, k \in 1..2 :
          /\ k \in DOMAIN Chronoses[n] /\ Chronoses[n][k] = i
          /\ f \in {Config!LogDir(n, k), Config!LocalConfFile(n, k),
                    Config!ClusterConfFile(n), Config!SharedConfFile(n)}
    <3>1. PICK q \in {p \in Names \X (1..2) :
                        p[2] \in DOMAIN Chronoses[p[1]] /\ Chronoses[p[1]][p[2]] = i} :
            f \in {Config!LogDir(q[1], q[2]), Config!LocalConfFile(q[1], q[2]),
                   Config!ClusterConfFile(q[1]), Config!SharedConfFile(q[1])}
      BY <1>3 DEF ChronosReads
    <3>2. q[1] \in Names /\ q[2] \in 1..2
      OBVIOUS
    <3> QED
      BY <3>1, <3>2
  <2>2. k \in 1..Len(Chronoses[n]) /\ InSite(i, n)
    BY <2>1, PartsOfSite
  <2>3. f \in Config!SharedFiles(n) \/ f \in Config!InstanceFiles(n, k)
    BY <2>1 DEF Config!SharedFiles, Config!InstanceFiles
  <2> QED
    BY <2>1, <2>2, <2>3
<1> QED
  BY <1>1, <1>2, <1>3 DEF FilesRead

(* The files that instance i reads are there.                              *)
Here(i) == FilesRead(i) \subseteq files

LEMMA HereNext == \A i : Here(i)' <=> FilesRead(i) \subseteq files'
  BY DEF Here, FilesRead, RogersReads, ChronosReads, DnsmasqReads, Config!Elements,
     Config!ClusterSettings, Config!LogDir, Config!LocalConfFile, Config!ClusterConfFile,
     Config!SharedConfFile, Config!DnsmasqCfg, Config!SiteDir

(* The constructors write what their instances will read ...               *)
LEMMA BuildsFiles ==
  ASSUME NEW h \in Roots, FileStep(h), Fits(Head(todo[h]).do, Head(todo[h]).on),
         NEW i \in Instances, Builds(Head(todo[h]), StaticOf[i])
  PROVE  Here(i)'
<1> DEFINE on == Head(todo[h]).on
<1>1. CASE Head(todo[h]).do = "new_site" /\ on = StaticOf[i]
  <2>1. files' = files \cup Config!SharedFiles(on)
                   \cup UNION {Config!InstanceFiles(on, k) : k \in 1..Len(Chronoses[on])}
    BY <1>1 DEF FileStep, Comes, Config!BuildSite
  <2>2. on \in Names
    BY <1>1 DEF Fits
  <2>3. ASSUME NEW f \in FilesRead(i)
        PROVE  f \in files'
    <3>1. i # Dnsmasq
      BY <1>1, <2>2, StaticFacts
    <3>2. \A n \in Names : InSite(i, n) => n = on
      BY <1>1, StaticFacts
    <3> HIDE DEF on
    <3>3. \/ f \in Config!SharedFiles(on)
          \/ \E k \in 1..Len(Chronoses[on]) : f \in Config!InstanceFiles(on, k)
      BY <3>1, <3>2, ReadFiles
    <3> QED
      BY <2>1, <3>3
  <2> QED
    BY <2>3, HereNext
<1>2. CASE Head(todo[h]).do = "new_dnsmasq" /\ StaticOf[i] = "dnsmasq"
  <2>1. files' = files \cup {Config!DnsmasqCfg}
    BY <1>2 DEF FileStep, Comes, Config!CreateDns
  <2>2. \A n \in Names : ~InSite(i, n)
    BY <1>2, StaticFacts
  <2>3. \A f \in FilesRead(i) : f = Config!DnsmasqCfg
    BY <2>2, ReadFiles
  <2> QED
    BY <2>1, <2>3, HereNext
<1> QED
  BY <1>1, <1>2 DEF Builds

(* ... and what a destructor removes is read by its own instances only.    *)
LEMMA KeepsFiles ==
  ASSUME NEW h \in Roots, FileStep(h), Fits(Head(todo[h]).do, Head(todo[h]).on),
         NEW i \in Instances, ~Removes(Head(todo[h]), i), Here(i)
  PROVE  Here(i)'
<1> DEFINE on == Head(todo[h]).on
<1> SUFFICES ASSUME NEW f \in FilesRead(i)
             PROVE  f \in files'
  BY HereNext
<1>1. /\ f \in files
      /\ \/ i = Dnsmasq /\ f = Config!DnsmasqCfg
         \/ \E n \in Names : InSite(i, n) /\ f \in Config!SharedFiles(n)
         \/ \E n \in Names : \E k \in 1..Len(Chronoses[n]) :
              Chronoses[n][k] = i /\ InSite(i, n) /\ f \in Config!InstanceFiles(n, k)
  BY ReadFiles DEF Here
<1>2. CASE Head(todo[h]).do = "create_tmp"
  <2>1. files' = files \cup {Config!TmpDir}
    BY <1>2 DEF FileStep, Comes, Config!SetUpTestCase
  <2> QED
    BY <1>1, <2>1
<1>3. CASE Head(todo[h]).do = "new_site"
  <2>1. files' = files \cup Config!SharedFiles(on)
                   \cup UNION {Config!InstanceFiles(on, k) : k \in 1..Len(Chronoses[on])}
    BY <1>3 DEF FileStep, Comes, Config!BuildSite
  <2> QED
    BY <1>1, <2>1
<1>4. CASE Head(todo[h]).do = "new_dnsmasq"
  <2>1. files' = files \cup {Config!DnsmasqCfg}
    BY <1>4 DEF FileStep, Comes, Config!CreateDns
  <2> QED
    BY <1>1, <2>1
<1>5. CASE Head(todo[h]).do = "remove_cfg"
  <2>1. files' = files \ {Config!DnsmasqCfg}
    BY <1>5 DEF FileStep, Comes, Config!ResetDns
  <2>2. i # Dnsmasq
    BY <1>5 DEF Removes
  <2>3. f # Config!DnsmasqCfg
    BY <1>1, <2>2, SharedPaths, InstancePaths
  <2> QED
    BY <1>1, <2>1, <2>3
<1>6. CASE Head(todo[h]).do = "remove_chronos"
  <2> DEFINE n == on[1]
             k == on[2]
  <2>1. files' = {g \in files : ~Config!Under(Config!InstanceDir(n, k), g)}
    BY <1>6 DEF FileStep, Comes, Config!ResetChronos, Config!RemoveAll
  <2>2. on = <<n, k>>
    BY <1>6 DEF Fits
  <2> HIDE DEF n, k
  <2>3. ASSUME Config!Under(Config!InstanceDir(n, k), f)
        PROVE  FALSE
    <3>1. f[1] = "tmp" /\ f[2] = n /\ 5 \in DOMAIN f /\ f[5] = k
      BY <2>3, UnderDirs
    <3>2. f # Config!DnsmasqCfg
      BY <3>1, DnsmasqCfgPath
    <3>3. \A m : f \notin Config!SharedFiles(m)
      BY <3>1, SharedPaths
    <3>4. PICK m \in Names : \E q \in 1..Len(Chronoses[m]) :
            Chronoses[m][q] = i /\ f \in Config!InstanceFiles(m, q)
      BY <1>1, <3>2, <3>3
    <3>5. PICK j \in 1..Len(Chronoses[m]) :
            Chronoses[m][j] = i /\ f \in Config!InstanceFiles(m, j)
      BY <3>4
    <3>6. m = n /\ j = k
      BY <3>1, <3>5, InstancePaths
    <3> QED
      BY <1>6, <2>2, <3>5, <3>6 DEF Removes
  <2> QED
    BY <1>1, <2>1, <2>3
<1>7. CASE Head(todo[h]).do = "remove_site"
  <2>1. files' = {g \in files : ~Config!Under(Config!SiteDir(on), g)}
    BY <1>7 DEF FileStep, Comes, Config!ResetSite, Config!RemoveAll
  <2>2. ASSUME Config!Under(Config!SiteDir(on), f)
        PROVE  FALSE
    <3>1. f[1] = "tmp" /\ f[2] = on
      BY <2>2, UnderDirs
    <3>2. f # Config!DnsmasqCfg
      BY <3>1, DnsmasqCfgPath
    <3>3. \A m \in Names : InSite(i, m) => m # on
      BY <1>7 DEF Removes
    <3> HIDE DEF on
    <3> QED
      BY <1>1, <3>1, <3>2, <3>3, SharedPaths, InstancePaths
  <2> QED
    BY <1>1, <2>1, <2>2
<1>8. Head(todo[h]).do # "remove_tmp"
  BY DEF Removes
<1> QED
  BY FileStepFacts, <1>2, <1>3, <1>4, <1>5, <1>6, <1>7, <1>8 DEF FileKinds

-----------------------------------------------------------------------------
(* Servers keep their files until they are killed *)

FitsInv(h) == \A k \in 1..Len(todo[h]) : Fits(todo[h][k].do, todo[h][k].on)

(* Until TearDownTestCase, what the instances of a static read is written  *)
(* before the static is set, and nothing is removed.                       *)
WrittenInv(h) ==
  /\ \A k \in 1..Len(todo[h]) : todo[h][k].do \notin Removals
  /\ \A k \in 1..Len(todo[h]), i \in Instances : Owns(todo[h][k], StaticOf[i]) =>
       Here(i) \/ \E j \in 1..(k - 1) : Builds(todo[h][j], StaticOf[i])
  /\ \A i \in Instances : StaticOf[i] \in owned[h] => Here(i)

(* From then on, a server that is not killed yet has its files, or has     *)
(* lost them to a destructor and is killed next, but for the signals that  *)
(* leave a server behind.                                                  *)
KeptInv(h) ==
  /\ \A i \in Instances : WillRun(h, i) =>
       Here(i) \/ (1 \in 1..Len(todo[h]) /\ todo[h][1] = Do("kill", i))
  /\ Guarded(todo[h], {i \in Instances : ~WillRun(h, i)})

(* The process that h waits for has had its SIGTERM.                       *)
WaitInv(h) ==
  status[h] = "program" /\ pc[h] \in Waiting =>
    pid[h][arg[h]] \in sigterm \/ ~Alive(pid[h][arg[h]])

FilesInv(h) ==
  /\ FitsInv(h)
  /\ phase[h] = "tests" => WrittenInv(h)
  /\ phase[h] # "tests" /\ signalled[h] \notin LeftBehind => KeptInv(h)

LEMMA InitFiles ==
  ASSUME S4Init, NEW h \in Roots
  PROVE  FilesInv(h) /\ WaitInv(h)
<1> DEFINE l == TestCase
           n == Len(SetUpTestCase)
<1>1. /\ todo[h] = l /\ phase[h] = "tests" /\ owned[h] = {} /\ pc[h] = "idle"
  BY ProcessAssumption DEF S4Init, FixtureInit, Init
<1>2. /\ l \in Seq(StepsOf(StartKinds \cup TestKinds))
      /\ n \in Nat /\ Len(l) \in Nat /\ Len(l) > n
      /\ \A k \in 1..n : l[k] = SetUpTestCase[k]
      /\ \A k \in 1..Len(l) : k > n => l[k].do \in TestKinds
  BY TestCaseFacts
<1> HIDE DEF l
<1>3. \A k \in 1..Len(l) : l[k].do \in StartKinds \cup TestKinds /\ Fits(l[k].do, l[k].on)
  BY <1>2, KindsFacts
<1>4. \A k \in 1..n : SetUpTestCase[k].do = "own" =>
        \E j \in 1..(k - 1) : Builds(SetUpTestCase[j], SetUpTestCase[k].on)
  BY SetUpTestCaseOrdered DEF Ordered
<1> HIDE DEF n
<1>5. ASSUME NEW k \in 1..Len(l), NEW i \in Instances, Owns(l[k], StaticOf[i])
      PROVE  \E j \in 1..(k - 1) : Builds(l[j], StaticOf[i])
  <2>1. l[k].do = "own" /\ l[k].on = StaticOf[i]
    BY <1>5 DEF Owns
  <2>2. ~(k > n)
    BY <1>2, <2>1 DEF TestKinds, WaitKinds
  <2>3. k \in 1..n /\ l[k] = SetUpTestCase[k] /\ \A j \in 1..(k - 1) : l[j] = SetUpTestCase[j]
    BY <1>2, <2>2
  <2> QED
    BY <1>4, <2>1, <2>3
<1>6. \A k \in 1..Len(l) : l[k].do \notin Removals
  BY <1>3 DEF StartKinds, TestKinds, WaitKinds, Removals
<1> QED
  BY <1>1, <1>3, <1>5, <1>6 DEF FilesInv, FitsInv, WrittenInv, WaitInv, Waiting

(* The head of the list is taken.                                          *)
LEMMA AdvanceWritten ==
  ASSUME NEW h \in Roots, Shorter(h), WrittenInv(h),
         \A i \in Instances : Here(i) => Here(i)',
         \A i \in Instances : Builds(todo[h][1], StaticOf[i]) => Here(i)',
         \A i \in Instances : StaticOf[i] \in owned'[h] =>
           StaticOf[i] \in owned[h] \/ Owns(todo[h][1], StaticOf[i])
  PROVE  WrittenInv(h)'
<1>1. 1 \in 1..Len(todo[h])
  BY DEF Shorter
<1> DEFINE l == todo[h]
           s == todo'[h]
<1>s. /\ Len(l) \in Nat /\ Len(s) \in Nat /\ Len(s) = Len(l) - 1
      /\ \A k \in 1..Len(s) : s[k] = l[k + 1]
  BY DEF Shorter
<1> DEFINE q == Len(l)
           r == Len(s)
<1>2. \A k \in 1..Len(todo'[h]) :
        /\ k + 1 \in 1..Len(todo[h]) /\ todo'[h][k] = todo[h][k + 1]
        /\ \A j \in 1..(k - 1) : todo'[h][j] = todo[h][j + 1]
  <2> HIDE DEF q, r, l, s
  <2>1. \A k \in 1..r : k + 1 \in 1..q /\ \A j \in 1..(k - 1) : j \in 1..r
    BY <1>s DEF q, r
  <2>2. \A k \in 1..r : k + 1 \in 1..q /\ s[k] = l[k + 1]
                       /\ \A j \in 1..(k - 1) : s[j] = l[j + 1]
    BY <1>s, <2>1 DEF q, r
  <2> QED
    BY <2>2 DEF q, r, l, s
<1> HIDE DEF l, s, q, r
<1>3. ASSUME NEW k \in 1..Len(todo'[h]), NEW i \in Instances, Owns(todo'[h][k], StaticOf[i])
      PROVE  Here(i)' \/ \E j \in 1..(k - 1) : Builds(todo'[h][j], StaticOf[i])
  <2>1. CASE Here(i)
    BY <2>1
  <2>2. CASE \E j \in 1..((k + 1) - 1) : Builds(todo[h][j], StaticOf[i])
    <3>1. PICK j \in 1..((k + 1) - 1) : Builds(todo[h][j], StaticOf[i])
      BY <2>2
    <3>2. CASE j = 1
      BY <3>1, <3>2
    <3>3. CASE j # 1
      <4>1. j - 1 \in 1..(k - 1) /\ (j - 1) + 1 = j
        BY <3>3
      <4>2. todo'[h][j - 1] = todo[h][(j - 1) + 1]
        BY <1>2, <4>1
      <4> QED
        BY <3>1, <4>1, <4>2
    <3> QED
      BY <3>2, <3>3
  <2> QED
    BY <1>2, <1>3, <2>1, <2>2 DEF WrittenInv
<1>4. ASSUME NEW i \in Instances, StaticOf[i] \in owned'[h]
      PROVE  Here(i)'
  <2>1. CASE StaticOf[i] \in owned[h]
    BY <2>1 DEF WrittenInv
  <2>2. CASE Owns(todo[h][1], StaticOf[i])
    <3>1. ~\E j \in 1..(1 - 1) : Builds(todo[h][j], StaticOf[i])
      OBVIOUS
    <3> QED
      BY <1>1, <2>2, <3>1 DEF WrittenInv
  <2> QED
    BY <1>4, <2>1, <2>2
<1>5. \A k \in 1..Len(todo'[h]) : todo'[h][k].do \notin Removals
  BY <1>2 DEF WrittenInv
<1>6. StaticOf' = StaticOf
  BY DEF StaticOf, InSite, SiteInstances, NoStatic
<1> QED
  BY <1>3, <1>4, <1>5 DEF WrittenInv

LEMMA AdvanceKept ==
  ASSUME NEW h \in Roots, Shorter(h), KeptInv(h),
         \A i \in Instances : WillRun(h, i)' => WillRun(h, i),
         \A i \in Instances : todo[h][1] = Do("kill", i) => ~WillRun(h, i)',
         \A i \in Instances : Here(i) /\ ~Removes(todo[h][1], i) => Here(i)'
  PROVE  KeptInv(h)'
<1>1. 1 \in 1..Len(todo[h])
  BY DEF Shorter
<1>2. \A k \in 1..Len(todo'[h]) :
        /\ k + 1 \in 1..Len(todo[h]) /\ todo'[h][k] = todo[h][k + 1]
        /\ \A j \in 1..(k - 1) : todo'[h][j] = todo[h][j + 1]
        /\ (k + 1) + 1 \in 1..Len(todo[h]) =>
             k + 1 \in 1..Len(todo'[h]) /\ todo'[h][k + 1] = todo[h][(k + 1) + 1]
  BY DEF Shorter
<1>3. ASSUME NEW i \in Instances, WillRun(h, i)'
      PROVE  Here(i)' \/ (1 \in 1..Len(todo'[h]) /\ todo'[h][1] = Do("kill", i))
  <2>1. WillRun(h, i) /\ todo[h][1] # Do("kill", i)
    BY <1>3
  <2>2. Here(i)
    BY <2>1 DEF KeptInv
  <2>3. CASE Removes(todo[h][1], i)
    <3>1. ~\E j \in 1..(1 - 1) : todo[h][j] = Do("kill", i)
      OBVIOUS
    <3>2. 1 + 1 \in 1..Len(todo[h]) /\ todo[h][1 + 1] = Do("kill", i)
      BY <1>1, <2>1, <2>3, <3>1 DEF KeptInv, Guarded
    <3>3. 1 \in 1..Len(todo'[h])
      BY <3>2 DEF Shorter
    <3> QED
      BY <1>2, <3>2, <3>3
  <2> QED
    BY <2>2, <2>3
<1>4. ASSUME NEW k \in 1..Len(todo'[h]), NEW i \in Instances, Removes(todo'[h][k], i),
             WillRun(h, i)'
      PROVE  \/ \E j \in 1..(k - 1) : todo'[h][j] = Do("kill", i)
             \/ k + 1 \in 1..Len(todo'[h]) /\ todo'[h][k + 1] = Do("kill", i)
  <2>1. k + 1 \in 1..Len(todo[h]) /\ Removes(todo[h][k + 1], i) /\ WillRun(h, i)
    BY <1>2, <1>4
  <2>2. \/ \E j \in 1..((k + 1) - 1) : todo[h][j] = Do("kill", i)
        \/ (k + 1) + 1 \in 1..Len(todo[h]) /\ todo[h][(k + 1) + 1] = Do("kill", i)
    BY <2>1 DEF KeptInv, Guarded
  <2>3. ASSUME NEW j \in 1..((k + 1) - 1), todo[h][j] = Do("kill", i)
        PROVE  \E m \in 1..(k - 1) : todo'[h][m] = Do("kill", i)
    <3>1. j # 1
      BY <1>4, <2>3
    <3>2. j - 1 \in 1..(k - 1) /\ (j - 1) + 1 = j
      BY <3>1
    <3>3. todo'[h][j - 1] = todo[h][(j - 1) + 1]
      BY <1>2, <3>2
    <3> QED
      BY <2>3, <3>2, <3>3
  <2> QED
    BY <1>2, <2>2, <2>3
<1>5. \A k \in 1..Len(todo'[h]), i \in Instances :
        Removes(todo'[h][k], i) /\ WillRun(h, i)' =>
          \/ \E j \in 1..(k - 1) : todo'[h][j] = Do("kill", i)
          \/ k + 1 \in 1..Len(todo'[h]) /\ todo'[h][k + 1] = Do("kill", i)
  BY <1>4
<1> QED
  BY <1>3, <1>5 DEF KeptInv, Guarded, Removes, Do, InSite, SiteInstances

(* TearDownTestCase begins, or exit(): every server has its files.         *)
LEMMA TearDownFiles ==
  ASSUME NEW h \in Roots, phase[h] = "tests", ProgramInv(h, StaticOf), FilesInv(h),
         owned[h] \in SUBSET Statics,
         todo'[h] \in {TearDownTestCase(owned[h]), StaticDestructors(owned[h])},
         UNCHANGED <<running, files>>, pc'[h] = "idle", phase'[h] # "tests"
  PROVE  FilesInv(h)'
<1>1. ASSUME NEW i \in Instances, WillRun(h, i)'
      PROVE  StaticOf[i] \in owned[h] /\ Here(i)
  <2>1. running[h][i]
    BY <1>1 DEF WillRun
  <2> QED
    BY <2>1 DEF ProgramInv, OwnedInv, FilesInv, WrittenInv
<1> DEFINE gone == Gone(owned[h])
<1>2. PICK l : /\ todo'[h] = l
               /\ Guarded(l, gone) /\ \A k \in 1..Len(l) : Fits(l[k].do, l[k].on)
  BY TearDownFacts, ExitFacts, KindsFacts
<1>3. todo'[h] = l
  BY <1>2
<1>4. \A i \in Instances : i \in gone => ~WillRun(h, i)'
  BY <1>1 DEF Gone
<1> HIDE DEF gone
<1>5. \A k \in 1..Len(todo'[h]), i \in Instances :
        Removes(todo'[h][k], i) /\ WillRun(h, i)' =>
          \/ \E j \in 1..(k - 1) : todo'[h][j] = Do("kill", i)
          \/ k + 1 \in 1..Len(todo'[h]) /\ todo'[h][k + 1] = Do("kill", i)
  BY <1>2, <1>3, <1>4 DEF Guarded
<1>6. \A i \in Instances : WillRun(h, i)' => Here(i)'
  BY <1>1, HereNext DEF Here
<1>7. KeptInv(h)'
  BY <1>5, <1>6 DEF KeptInv, Guarded, Removes, Do, InSite, SiteInstances
<1> QED
  BY <1>2, <1>3, <1>7 DEF FilesInv, FitsInv, Fits

(* A step that neither moves the list of h on nor removes a file.          *)
LEMMA FilesEased ==
  ASSUME NEW h \in Roots, FilesInv(h), SameList(h), Eases(h), files \subseteq files'
  PROVE  FilesInv(h)'
<1>1. \A i \in Instances : Here(i) => Here(i)'
  BY HereNext DEF Here
<1>2. FitsInv(h)'
  BY DEF FilesInv, FitsInv, SameList, Fits
<1>3. phase[h] = "tests" => WrittenInv(h)'
  <2> SUFFICES ASSUME WrittenInv(h) PROVE WrittenInv(h)'
    BY DEF FilesInv
  <2>1. StaticOf' = StaticOf
    BY DEF StaticOf, InSite, SiteInstances, NoStatic
  <2> QED
    BY <1>1, <2>1 DEF SameList, WrittenInv, Owns, Builds
<1>4. phase[h] # "tests" /\ signalled[h] \notin LeftBehind => KeptInv(h)'
  <2> SUFFICES ASSUME KeptInv(h) PROVE KeptInv(h)'
    BY DEF FilesInv
  <2>1. \A i \in Instances : WillRun(h, i)' =>
          Here(i)' \/ (1 \in 1..Len(todo'[h]) /\ todo'[h][1] = Do("kill", i))
    BY <1>1 DEF KeptInv, Eases, SameList
  <2>2. \A k \in 1..Len(todo'[h]), i \in Instances : Removes(todo'[h][k], i) /\ WillRun(h, i)' =>
          \/ \E j \in 1..(k - 1) : todo'[h][j] = Do("kill", i)
          \/ k + 1 \in 1..Len(todo'[h]) /\ todo'[h][k + 1] = Do("kill", i)
    <3> SUFFICES ASSUME NEW k \in 1..Len(todo[h]), NEW i \in Instances,
                        Removes(todo[h][k], i), WillRun(h, i)
                 PROVE  \/ \E j \in 1..(k - 1) : todo[h][j] = Do("kill", i)
                        \/ k + 1 \in 1..Len(todo[h]) /\ todo[h][k + 1] = Do("kill", i)
      BY DEF Eases, SameList
    <3> QED
      BY DEF KeptInv, Guarded
  <2> QED
    BY <2>1, <2>2 DEF KeptInv, Guarded, Removes, Do, InSite, SiteInstances
<1> QED
  BY <1>2, <1>3, <1>4 DEF FilesInv, SameList

LEMMA SuffixFits ==
  ASSUME NEW h \in Roots, FitsInv(h), Suffix(h)
  PROVE  FitsInv(h)'
<1>1. PICK d \in 0..Len(todo[h]) :
        \A k \in 1..Len(todo'[h]) : k + d \in 1..Len(todo[h]) /\ todo'[h][k] = todo[h][k + d]
  BY DEF Suffix
<1>2. ASSUME NEW k \in 1..Len(todo'[h])
      PROVE  Fits(todo'[h][k].do, todo'[h][k].on)
  BY <1>1 DEF FitsInv
<1> QED
  BY <1>2 DEF FitsInv, Fits

(* The program takes the head of its list.                                 *)
LEMMA FilesAdvance ==
  ASSUME FixtureInv(On, StaticOf), NEW h \in Roots, FilesInv(h), phase'[h] = phase[h],
         signalled'[h] = signalled[h], todo[h] # << >>, todo'[h] = Tail(todo[h]),
         TakesEffect(h, todo[h][1]),
         \A i \in Instances : Here(i) /\ ~Removes(todo[h][1], i) => Here(i)',
         \A i \in Instances : Builds(todo[h][1], StaticOf[i]) => Here(i)',
         \A i \in Instances : StaticOf[i] \in owned'[h] =>
           StaticOf[i] \in owned[h] \/ Owns(todo[h][1], StaticOf[i])
  PROVE  FilesInv(h)'
<1>1. /\ Suffix(h) /\ Shorter(h) /\ 1 \in 1..Len(todo[h])
  BY TailIsSuffix DEF FixtureInv
<1>2. FitsInv(h)'
  BY <1>1, SuffixFits DEF FilesInv
<1>3. CASE phase[h] = "tests"
  <2>1. WrittenInv(h) /\ todo[h][1].do \notin Removals
    BY <1>1, <1>3 DEF FilesInv, WrittenInv
  <2>2. \A i \in Instances : ~Removes(todo[h][1], i)
    BY <2>1 DEF Removes, Removals
  <2>3. WrittenInv(h)'
    BY <1>1, <2>1, <2>2, AdvanceWritten
  <2> QED
    BY <1>2, <1>3, <2>3 DEF FilesInv
<1>4. CASE phase[h] # "tests" /\ signalled[h] \notin LeftBehind
  <2>1. KeptInv(h) /\ todo[h][1].do \notin TestOnly
    BY <1>1, <1>4 DEF FilesInv, FixtureInv, ProgramInv, KillsInv
  <2>2. \A i \in Instances : ~Starts(todo[h][1], i)
    BY <2>1 DEF Starts, TestOnly
  <2>3. \A i \in Instances : WillRun(h, i)' => WillRun(h, i)
    BY <2>2 DEF TakesEffect
  <2>4. \A i \in Instances : todo[h][1] = Do("kill", i) => ~WillRun(h, i)'
    BY DEF TakesEffect, Do
  <2>5. KeptInv(h)'
    BY <1>1, <2>1, <2>3, <2>4, AdvanceKept
  <2> QED
    BY <1>2, <1>4, <2>5 DEF FilesInv
<1>5. CASE phase[h] # "tests" /\ signalled[h] \in LeftBehind
  BY <1>2, <1>5 DEF FilesInv
<1> QED
  BY <1>3, <1>4, <1>5

(* A step that makes no call leaves the servers as they are.               *)
LEMMA NoCallTakesEffect ==
  ASSUME NEW h \in Roots, UNCHANGED vars, Ready(h), NEW s, s.do # "kill"
  PROVE  TakesEffect(h, s)
BY DEF TakesEffect, WillRun, vars, memberVars, callVars, Ready

(* What processes do to the files removes none.                            *)
LEMMA LogsAddFiles ==
  ASSUME LogsOnly
  PROVE  files \subseteq files'
BY DEF LogsOnly, configVars, Config!WriteLog

(* The rest of SetUp is skipped: it sets no static.                        *)
LEMMA FilesSkip ==
  ASSUME FixtureInv(On, StaticOf), NEW h \in Roots, FilesInv(h), SiteNotUp(h),
         UNCHANGED files
  PROVE  FilesInv(h)'
<1>1. /\ Suffix(h) /\ UNCHANGED <<vars, phase, owned, signalled>>
      /\ todo[h] # << >> /\ todo[h][1].do = "return_unless_ok"
  BY SkipIsSuffix DEF FixtureInv
<1>2. 1 \in 1..Len(todo[h]) /\ ProgramInv(h, StaticOf)
  BY <1>1, HeadFacts DEF FixtureInv
<1>3. phase[h] = "tests"
  BY <1>1, <1>2 DEF ProgramInv, KillsInv, TestOnly
<1>4. WrittenInv(h) /\ \A k \in 1..Len(todo[h]) : todo[h][k].do # "own"
  <2>1. ASSUME NEW k \in 1..Len(todo[h])
        PROVE  todo[h][k].do # "own"
    <3>1. 1 \in 1..k
      OBVIOUS
    <3> QED
      BY <1>1, <1>2, <1>3, <3>1 DEF ProgramInv, OwnedInv
  <2> QED
    BY <1>3, <2>1 DEF FilesInv
<1>5. PICK d \in 0..Len(todo[h]) :
        \A k \in 1..Len(todo'[h]) : k + d \in 1..Len(todo[h]) /\ todo'[h][k] = todo[h][k + d]
  BY <1>1 DEF Suffix
<1>6. \A k \in 1..Len(todo'[h]) : todo'[h][k].do # "own" /\ todo'[h][k].do \notin Removals
  BY <1>4, <1>5 DEF WrittenInv
<1>7. \A i \in Instances : StaticOf[i] \in owned'[h] => Here(i)'
  BY <1>1, <1>4, HereNext DEF WrittenInv, Here
<1>8. WrittenInv(h)'
  <2>1. StaticOf' = StaticOf
    BY DEF StaticOf, InSite, SiteInstances, NoStatic
  <2> QED
    BY <1>6, <1>7, <2>1 DEF WrittenInv, Owns
<1>9. FitsInv(h)'
  BY <1>1, SuffixFits DEF FilesInv
<1> QED
  BY <1>1, <1>3, <1>8, <1>9 DEF FilesInv

(* A call, a step of the fixture or one on its files.                      *)
LEMMA FilesHeadStep ==
  ASSUME FixtureInv(On, StaticOf), NEW h \in Roots, FilesInv(h),
         \/ MakeCall(h) /\ UNCHANGED configVars
         \/ Quiet(h) /\ UNCHANGED configVars
         \/ FileStep(h)
  PROVE  FilesInv(h)'
<1> USE DEF FixtureInv, FixtureTypeOK
<1>1. /\ todo[h] # << >> /\ todo' = [todo EXCEPT ![h] = Tail(@)]
      /\ phase' = phase /\ signalled' = signalled
  <2>1. CASE MakeCall(h)
    BY <2>1 DEF MakeCall, Comes, Advance
  <2>2. CASE Quiet(h)
    BY <2>2, QuietFacts
  <2>3. CASE FileStep(h)
    BY <2>3, FileStepFacts
  <2> QED
    BY <2>1, <2>2, <2>3
<1>2. /\ todo'[h] = Tail(todo[h]) /\ Head(todo[h]) = todo[h][1] /\ 1 \in 1..Len(todo[h])
  BY <1>1, HeadFacts
<1>3. CASE MakeCall(h) /\ UNCHANGED configVars
  <2>1. TakesEffect(h, todo[h][1]) /\ todo[h][1].do \in Calling
    BY <1>2, <1>3, MakesCall DEF ProgramInv, Calling
  <2>2. owned' = owned /\ files' = files
    BY <1>3 DEF MakeCall, configVars
  <2>3. \A i \in Instances : Here(i) => Here(i)'
    BY <2>2, HereNext DEF Here
  <2>4. \A i \in Instances : ~Builds(todo[h][1], StaticOf[i])
    BY <2>1 DEF Builds, Calling
  <2> QED
    BY <1>1, <1>2, <2>1, <2>2, <2>3, <2>4, FilesAdvance
<1>4. CASE Quiet(h) /\ UNCHANGED configVars
  <2>1. /\ Ready(h) /\ UNCHANGED vars
        /\ todo[h][1].do \in {"wait_for_instances", "return_unless_ok", "body", "done",
                              "new_s4_sites", "delete_s4_sites", "own", "disown"}
        /\ \/ todo[h][1].do = "own" /\ owned' = [owned EXCEPT ![h] = @ \cup {todo[h][1].on}]
           \/ todo[h][1].do = "disown"
           \/ todo[h][1].do \notin {"own", "disown"} /\ owned' = owned
    BY <1>2, <1>4, QuietFacts
  <2>2. files' = files
    BY <1>4 DEF configVars
  <2>3. \A i \in Instances : Here(i) => Here(i)'
    BY <2>2, HereNext DEF Here
  <2>4. TakesEffect(h, todo[h][1]) /\ \A i \in Instances : ~Builds(todo[h][1], StaticOf[i])
    BY <2>1, NoCallTakesEffect DEF Builds
  <2>5. owned'[h] \subseteq owned[h] \cup (IF todo[h][1].do = "own" THEN {todo[h][1].on} ELSE {})
    <3>1. CASE todo[h][1].do = "disown"
      <4>1. PICK static \in Statics : Own(h, static) \/ Disown(h, static)
        BY <1>2, <1>4, <3>1 DEF Quiet, BeginWait, SiteIsUp, TestBoundary, S4Sites, Comes
      <4>2. owned' = [owned EXCEPT ![h] = @ \ {static}]
        BY <1>2, <3>1, <4>1 DEF Own, Disown, Comes
      <4> QED
        BY <4>2
    <3> QED
      BY <2>1, <3>1
  <2>6. \A i \in Instances : StaticOf[i] \in owned'[h] =>
          StaticOf[i] \in owned[h] \/ Owns(todo[h][1], StaticOf[i])
    BY <2>5 DEF Owns
  <2> QED
    BY <1>1, <1>2, <2>3, <2>4, <2>6, FilesAdvance
<1>5. CASE FileStep(h)
  <2>1. /\ Ready(h) /\ UNCHANGED <<vars, owned>>
        /\ todo[h][1].do \in FileKinds
    BY <1>2, <1>5, FileStepFacts
  <2>2. Fits(Head(todo[h]).do, Head(todo[h]).on)
    BY <1>2 DEF FilesInv, FitsInv
  <2>3. TakesEffect(h, todo[h][1])
    BY <2>1, NoCallTakesEffect DEF FileKinds
  <2>4. /\ \A i \in Instances : Here(i) /\ ~Removes(todo[h][1], i) => Here(i)'
        /\ \A i \in Instances : Builds(todo[h][1], StaticOf[i]) => Here(i)'
    BY <1>2, <1>5, <2>2, KeepsFiles, BuildsFiles
  <2> QED
    BY <1>1, <1>2, <2>1, <2>3, <2>4, FilesAdvance
<1> QED
  BY <1>3, <1>4, <1>5

LEMMA FilesStep ==
  ASSUME FixtureInv(On, StaticOf), [S4Next]_allVars, NEW h \in Roots, FilesInv(h)
  PROVE  FilesInv(h)'
<1> USE DEF FixtureInv
<1>1. CASE UNCHANGED allVars
  <2>1. Untouched(h) /\ SameList(h) /\ UNCHANGED files
    BY <1>1 DEF allVars, vars, memberVars, callVars, fixtureVars, configVars, Untouched, SameList
  <2> QED
    BY <2>1, UntouchedEases, FilesEased
<1>2. ASSUME NEW p \in Pids, (p # h /\ Step(p)) \/ Server(p), UNCHANGED fixtureVars, LogsOnly
      PROVE  FilesInv(h)'
  <2>1. Untouched(h) /\ SameList(h) /\ files \subseteq files'
    BY <1>2, OthersLeaveAlone, LogsAddFiles DEF fixtureVars, SameList
  <2> QED
    BY <2>1, UntouchedEases, FilesEased
<1>3. CASE Step(h) /\ UNCHANGED fixtureVars /\ LogsOnly
  <2>1. Eases(h) /\ SameList(h) /\ files \subseteq files'
    BY <1>3, OwnStepEases, LogsAddFiles DEF fixtureVars, SameList
  <2> QED
    BY <2>1, FilesEased
<1>4. CASE \/ MakeCall(h) /\ UNCHANGED configVars
           \/ Quiet(h) /\ UNCHANGED configVars
           \/ FileStep(h)
  BY <1>4, FilesHeadStep
<1>5. CASE SiteNotUp(h) /\ UNCHANGED configVars
  BY <1>5, FilesSkip DEF configVars
<1>6. CASE Finish(h) /\ UNCHANGED configVars
  <2>1. Untouched(h) /\ SameList(h) /\ UNCHANGED files
    BY <1>6, OthersLeaveAlone, ProcessAssumption
       DEF Finish, fixtureVars, configVars, SameList
  <2> QED
    BY <2>1, UntouchedEases, FilesEased
<1>7. /\ ProgramInv(h, StaticOf) /\ owned[h] \in SUBSET Statics /\ h \in Pids
      /\ pc \in [Pids -> Calls] /\ phase \in [Roots -> Phases]
      /\ todo \in [Roots -> Seq(Steps(On))]
      /\ signalled \in [Roots -> SignalPoints \cup {"nowhere", "aborted"}]
  BY ProcessAssumption DEF FixtureTypeOK, TypeOK
<1> HIDE DEF FixtureInv
<1>8. ASSUME \/ BeginTearDown(h, TearDownTestCase(owned[h])) /\ Config!TearDownTestCase
             \/ SignalHandler(h, TearDownTestCase(owned[h])) /\ Config!TearDownTestCase
             \/ HttpStackFails(h),
             phase[h] = "tests"
      PROVE  FilesInv(h)'
  <2>1. /\ todo'[h] \in {TearDownTestCase(owned[h]), StaticDestructors(owned[h])}
        /\ UNCHANGED <<running, files>> /\ pc'[h] = "idle" /\ phase'[h] # "tests"
    <3>1. CASE BeginTearDown(h, TearDownTestCase(owned[h])) /\ Config!TearDownTestCase
      BY <1>7, <3>1 DEF BeginTearDown, Comes, Ready, vars, memberVars, callVars,
         Config!TearDownTestCase
    <3>2. CASE SignalHandler(h, TearDownTestCase(owned[h])) /\ Config!TearDownTestCase
      BY <1>7, <3>2 DEF SignalHandler, memberVars, Config!TearDownTestCase
    <3>3. CASE HttpStackFails(h)
      BY <1>7, <3>3 DEF HttpStackFails, Comes, Ready, vars, memberVars, callVars,
         Config!TearDownTestCase
    <3> QED
      BY <1>8, <3>1, <3>2, <3>3
  <2> QED
    BY <1>7, <1>8, <2>1, TearDownFiles
<1>9. ASSUME BeginTearDown(h, TearDownTestCase(owned[h])) \/ HttpStackFails(h)
      PROVE  phase[h] = "tests"
  <2>1. /\ todo[h][1].do \in {"teardown", "new_s4_sites", "delete_s4_sites"}
        /\ 1 \in 1..Len(todo[h])
    BY <1>7, <1>9, HeadFacts DEF BeginTearDown, HttpStackFails, Comes
  <2> QED
    BY <1>7, <2>1 DEF ProgramInv, KillsInv, TestOnly
<1>10. CASE SignalHandler(h, TearDownTestCase(owned[h])) /\ phase[h] # "tests"
  <2>1. signalled'[h] \in LeftBehind /\ phase'[h] # "tests"
    BY <1>7, <1>10 DEF SignalHandler, SignalPoint, LeftBehind
  <2> DEFINE l == TearDownTestCase(owned[h])
  <2>2. todo'[h] = l /\ \A k \in 1..Len(l) : Fits(l[k].do, l[k].on)
    BY <1>7, <1>10, TearDownFacts, KindsFacts DEF SignalHandler
  <2> HIDE DEF l
  <2> QED
    BY <2>1, <2>2 DEF FilesInv, FitsInv, Fits
<1>11. CASE RemoveAborts(h)
  <2>1. todo[h][1].do \in Removals /\ 1 \in 1..Len(todo[h])
    BY <1>7, <1>11, HeadFacts DEF RemoveAborts, Comes, Removals
  <2>2. phase[h] # "tests"
    BY <1>7, <2>1 DEF ProgramInv, OwnedInv
  <2>3. phase'[h] # "tests" /\ signalled'[h] \in LeftBehind /\ Len(todo'[h]) = 0
    BY <1>7, <1>11, <2>2 DEF RemoveAborts, LeftBehind
  <2> QED
    BY <2>3 DEF FilesInv, FitsInv
<1> QED
  BY StepCases, <1>1, <1>2, <1>3, <1>4, <1>5, <1>6, <1>8, <1>9, <1>10, <1>11

(* What h waits for is signalled before the wait, and stays so as long as  *)
(* it lives.                                                               *)
LEMMA ProcessWaits ==
  ASSUME IInv, NEW h \in Roots, NEW p \in Pids, WaitInv(h),
         Call(p) \/ SocketFails(p) \/ Step(p) \/ Server(p) \/ Quit(p)
  PROVE  WaitInv(h)'
<1> USE ProcessAssumption DEF IInv, TypeOK
<1>1. h \in Pids /\ status[h] \in {"program", "reaped"}
  BY DEF RootInv
<1> DEFINE q == pid[h][arg[h]]
<1>2. ASSUME status[h] = "program", pc[h] \in Waiting
      PROVE  /\ arg[h] \in Instances /\ q \in Pids /\ Exists(q)
             /\ q \in sigterm \/ ~Alive(q)
  <2>1. arg[h] \in Instances /\ running[h][arg[h]]
    BY <1>1, <1>2 DEF CallInv, Waiting
  <2> QED
    BY <1>1, <1>2, <2>1 DEF MemberInv, SignalsOwnChildren, WaitInv
<1>3. CASE \E i \in Instances : \/ (running[p][i] => NoChild(p, i)) /\ Start(p, i)
                               \/ KillNotRunning(p, i) \/ KillNoProcess(p, i)
                               \/ WaitFor(p, i)
  <2>1. UNCHANGED <<status, sigterm, pid>>
    BY <1>3 DEF Start, KillNotRunning, KillNoProcess, WaitFor, kernelVars, memberVars
  <2>2. p = h => pc'[h] \notin Waiting
    BY <1>1, <1>3 DEF Start, KillNotRunning, KillNoProcess, WaitFor, Return, Waiting
  <2>3. p # h => pc'[h] = pc[h] /\ arg'[h] = arg[h]
    BY <1>1, <1>3 DEF Start, KillNotRunning, KillNoProcess, WaitFor, Return
  <2> QED
    BY <2>1, <2>2, <2>3 DEF WaitInv, Alive
<1>4. CASE \E i \in Instances, w \in Waiting : SendSigterm(p, i, w)
  <2>1. PICK i \in Instances, w \in Waiting : SendSigterm(p, i, w)
    BY <1>4
  <2>2. /\ UNCHANGED <<status, pid>>
        /\ sigterm' = sigterm \cup {r \in Pids : r = pid[p][i] /\ Alive(r)}
        /\ arg' = [arg EXCEPT ![p] = i] /\ pc' = [pc EXCEPT ![p] = w]
        /\ status[p] = "program" /\ running[p][i]
    BY <2>1 DEF SendSigterm, memberVars, Ready
  <2>3. CASE p = h
    <3>1. pid[h][i] \in Pids
      BY <2>2, <2>3 DEF MemberInv
    <3> QED
      BY <1>1, <2>2, <2>3, <3>1 DEF WaitInv, Alive
  <2>4. CASE p # h
    BY <1>1, <2>2, <2>4 DEF WaitInv, Alive
  <2> QED
    BY <2>3, <2>4
<1>5. CASE SocketFails(p) \/ ForkFails(p) \/ ExecFails(p) \/ ConnectSucceeds(p)
           \/ ConnectRefused(p) \/ CallOff(p)
  <2>1. UNCHANGED <<status, sigterm, pid, arg>> /\ (pc'[h] = pc[h] \/ pc'[h] = "idle")
    BY <1>1, <1>5 DEF SocketFails, ForkFails, ExecFails, ConnectSucceeds, ConnectRefused,
       CallOff, Return, kernelVars, memberVars
  <2> QED
    BY <2>1 DEF WaitInv, Alive, Waiting
<1>6. CASE Fork(p)
  <2>1. PICK c \in Pids :
          /\ status[c] = "unused" /\ status[p] = "program"
          /\ status'  = [status EXCEPT ![c] = "program"]
          /\ pid'     = [pid EXCEPT ![c] = pid[p]]
          /\ pc'      = [pc EXCEPT ![p] = "forked", ![c] = "exec"]
          /\ arg'     = [arg EXCEPT ![c] = arg[p]]
          /\ sigterm' = sigterm
    BY <1>6 DEF Fork, At
  <2>2. c # h /\ status'[h] = status[h] /\ pid'[h] = pid[h] /\ arg'[h] = arg[h]
        /\ pc'[h] \in {pc[h], "forked"}
    BY <1>1, <2>1
  <2>3. ASSUME status[h] = "program", pc[h] \in Waiting
        PROVE  status'[q] = status[q]
    BY <1>2, <2>1, <2>3 DEF Exists
  <2> QED
    BY <2>1, <2>2, <2>3 DEF WaitInv, Alive, Waiting
<1>7. CASE SaveOffPid(p)
  <2>1. /\ status' = status /\ sigterm' = sigterm /\ arg' = arg
        /\ p = h => pc'[h] \notin Waiting
        /\ p # h => pid'[h] = pid[h] /\ pc'[h] = pc[h]
    BY <1>1, <1>7 DEF SaveOffPid, Return, kernelVars, Waiting
  <2> QED
    BY <2>1 DEF WaitInv, Alive
<1>8. CASE Exec(p)
  <2>1. /\ status[p] = "program" /\ status' = [status EXCEPT ![p] = "server"]
        /\ UNCHANGED <<sigterm, pid, pc, arg>>
    BY <1>8 DEF Exec, At, memberVars, callVars
  <2> QED
    BY <1>1, <1>2, <2>1 DEF WaitInv, Alive
<1>9. CASE Reap(p)
  <2>1. /\ pid[p][arg[p]] \in Pids => status' = [status EXCEPT ![pid[p][arg[p]]] = "reaped"]
        /\ pid[p][arg[p]] \notin Pids => status' = status
        /\ UNCHANGED <<sigterm, pid, arg>>
        /\ p = h => pc'[h] \notin Waiting
        /\ p # h => pc'[h] = pc[h]
    BY <1>1, <1>9 DEF Reap, AfterWait, Waiting
  <2> QED
    BY <1>1, <1>2, <2>1 DEF WaitInv, Alive
<1>10. CASE WaitNoChild(p)
  <2>1. /\ UNCHANGED <<status, sigterm, pid, arg>>
        /\ p = h => pc'[h] \notin Waiting
        /\ p # h => pc'[h] = pc[h]
    BY <1>1, <1>10 DEF WaitNoChild, AfterWait, Waiting, kernelVars
  <2> QED
    BY <2>1 DEF WaitInv, Alive
<1>11. CASE Listen(p)
  BY <1>11 DEF Listen, memberVars, callVars, WaitInv, Alive
<1>12. CASE Exits(p)
  <2>1. /\ sigterm' = sigterm \ {p} /\ UNCHANGED <<pid, pc, arg>>
        /\ status'[p] \in {"zombie", "reaped"}
        /\ \A r \in Pids : r # p => status'[r] \in {status[r], "reaped"}
        /\ status'[h] = "program" => status[h] = "program"
    BY <1>1, <1>12 DEF Exits, memberVars, callVars
  <2> QED
    BY <1>1, <1>2, <2>1 DEF WaitInv, Alive
<1> QED
  BY NextCases, <1>3, <1>4, <1>5, <1>6, <1>7, <1>8, <1>9, <1>10, <1>11, <1>12

LEMMA WaitStep ==
  ASSUME FixtureInv(On, StaticOf), [S4Next]_allVars, NEW h \in Roots, WaitInv(h)
  PROVE  WaitInv(h)'
<1> USE ProcessAssumption DEF FixtureInv, FixtureTypeOK
<1>1. ASSUME UNCHANGED vars
      PROVE  WaitInv(h)'
  BY <1>1 DEF vars, kernelVars, memberVars, callVars, WaitInv, Alive
<1>2. CASE UNCHANGED allVars
  BY <1>1, <1>2 DEF allVars
<1>3. CASE MakeCall(h)
  BY <1>3, MakesCall, ProcessWaits DEF ProgramInv
<1>4. CASE Quiet(h) \/ SiteNotUp(h) \/ FileStep(h) \/ BeginTearDown(h, TearDownTestCase(owned[h]))
  <2>1. CASE SiteNotUp(h)
    BY <1>1, <2>1, SkipIsSuffix
  <2>2. CASE Quiet(h) \/ FileStep(h)
    BY <1>1, <2>2, QuietFacts, FileStepFacts
  <2>3. CASE BeginTearDown(h, TearDownTestCase(owned[h]))
    BY <1>1, <2>3 DEF BeginTearDown
  <2> QED
    BY <1>4, <2>1, <2>2, <2>3
<1>5. CASE Finish(h)
  BY <1>5, ProcessWaits DEF Finish
<1>6. CASE SignalHandler(h, TearDownTestCase(owned[h]))
  BY <1>6 DEF SignalHandler, TypeOK, WaitInv, Waiting
<1>7. CASE HttpStackFails(h) \/ RemoveAborts(h)
  BY <1>1, <1>7 DEF HttpStackFails, RemoveAborts
<1> QED
  BY StepCases, <1>2, <1>3, <1>4, <1>5, <1>6, <1>7, ProcessWaits

S4FilesInv == \A h \in Roots : FilesInv(h) /\ WaitInv(h)

LEMMA FilesKept ==
  ASSUME S4FixtureInv, S4FilesInv
  PROVE  ServersKeepTheirFiles
<1> USE ProcessAssumption DEF S4FixtureInv, FixtureInv, FixtureTypeOK, IInv, TypeOK
<1> SUFFICES ASSUME NEW h \in Roots, NEW c \in Pids, parent[c] = h, Alive(c),
                    signalled[h] \notin LeftBehind, ~Here(role[c])
             PROVE  c \in sigterm \/ (todo[h] # << >> /\ Head(todo[h]) = Do("kill", role[c]))
  BY DEF ServersKeepTheirFiles, Here
<1>1. /\ ProgramInv(h, StaticOf) /\ FilesInv(h) /\ WaitInv(h)
      /\ h \in Pids /\ todo[h] \in Seq(Steps(On)) /\ Exists(c)
  BY DEF S4FilesInv, Alive, Exists
<1>3. status[h] = "program" /\ NoneLost(h)
  BY <1>1 DEF ProgramInv, ServersInv, Childless, RootInv
<1>4. role[c] \in Instances
  <2> DEFINE i == role[c]
  <2>1. PICK f : f \in FilesRead(i)
    BY DEF Here
  <2> HIDE DEF i
  <2>2. i = Dnsmasq \/ \E n \in Names : InSite(i, n)
    BY <2>1, ReadFiles
  <2>3. i \in Instances
    BY <2>2, StaticFacts
  <2> QED
    BY <2>3 DEF i
<1>5. CASE WillRun(h, role[c])
  <2>1. CASE phase[h] = "tests"
    <3>1. StaticOf[role[c]] \in owned[h]
      BY <1>1, <1>4, <1>5, <2>1 DEF ProgramInv, OwnedInv
    <3> QED
      BY <1>1, <1>4, <2>1, <3>1 DEF FilesInv, WrittenInv
  <2>2. CASE phase[h] # "tests"
    <3>1. 1 \in 1..Len(todo[h]) /\ todo[h][1] = Do("kill", role[c])
      BY <1>1, <1>4, <1>5, <2>2 DEF FilesInv, KeptInv
    <3>2. todo[h] # << >>
      BY <1>1, <3>1, EmptySeq
    <3>3. Head(todo[h]) = todo[h][1]
      BY <1>1, <3>2, HeadFacts
    <3> QED
      BY <3>1, <3>2, <3>3
  <2> QED
    BY <2>1, <2>2
<1>6. CASE ~WillRun(h, role[c])
  <2>1. ~(pc[h] = "forked" /\ fresh[h] = c)
    BY <1>1, <1>3, <1>6 DEF CallInv, WillRun
  <2>2. running[h][role[c]] /\ pid[h][role[c]] = c
    BY <1>1, <1>3, <2>1 DEF NoneLost
  <2>3. pc[h] = "kill_wait" /\ arg[h] = role[c]
    BY <1>6, <2>2 DEF WillRun
  <2> QED
    BY <1>1, <1>3, <2>2, <2>3 DEF WaitInv, Waiting
<1> QED
  BY <1>5, <1>6

(* A server is forked when the files it reads are written, and they stay   *)
(* until the call that kills it, in the tests, in TearDownTestCase and in  *)
(* exit(), and in the handler of a signal that interrupted the tests but   *)
(* not between a fork() and the saving of the pid.                         *)
THEOREM ServersKeepFiles == S4Spec => []ServersKeepTheirFiles
<1>1. S4Init => S4FilesInv
  BY InitFiles DEF S4FilesInv
<1>2. S4FixtureInv /\ S4FilesInv /\ [S4Next]_allVars => S4FilesInv'
  BY FilesStep, WaitStep DEF S4FixtureInv, S4FilesInv
<1>3. S4FixtureInv /\ S4FilesInv => ServersKeepTheirFiles
  BY FilesKept
<1> QED
  BY <1>1, <1>2, <1>3, FixtureInductive, PTL DEF S4Spec

-----------------------------------------------------------------------------
(* What is left of the files *)

(* The file is one that the destructor of the static removes.              *)
Belongs(f, static) ==
  IF static = "dnsmasq" THEN f = Config!DnsmasqCfg
  ELSE Config!Under(Config!SiteDir(static), f)

(* Every file is in the directory tmp, but for the one of dnsmasq, which   *)
(* its object removes unless it is lost.                                   *)
InTmp(f, d) ==
  \/ Config!Under(Config!TmpDir, f)
  \/ f = Config!DnsmasqCfg /\ (d.built \/ d = Config!Lost)

TmpFiles == \A f \in files : InTmp(f, dns)

(* The static is set, or what was built for it is assigned next.           *)
Has(h, static) ==
  \/ static \in owned[h]
  \/ pc[h] = "idle" /\ 1 \in 1..Len(todo[h]) /\ Owns(todo[h][1], static)

(* In the tests all that is built belongs to a static.                     *)
HeldFiles(h) ==
  /\ \A f \in files :
       f = Config!TmpDir \/ \E static \in Statics : Belongs(f, static) /\ Has(h, static)
  /\ dns.built => Has(h, "dnsmasq")

(* In exit() it is removed, all but the directory tmp.                     *)
ExitInv(h) ==
  \A f \in files :
    f = Config!TmpDir \/ \E static \in Statics : Belongs(f, static) /\ RemovesOf(todo[h], static)

(* In TearDownTestCase, removing tmp is what the program does last.        *)
RemovesLast(h) ==
  /\ \A k \in 1..Len(todo[h]) : todo[h][k].do = "remove_tmp" => k = Len(todo[h])
  /\ \/ Len(todo[h]) = 0 /\ \A f \in files : f = Config!DnsmasqCfg /\ dns = Config!Lost
     \/ Len(todo[h]) > 0 /\ todo[h][Len(todo[h])].do = "remove_tmp"

TmpInv(h) ==
  /\ TmpFiles
  /\ dns = Config!Lost => signalled[h] \in {"unassigned", "teardown", "aborted"}
  /\ phase[h] = "tests" => AssignedNext(todo[h]) /\ HeldFiles(h)
  /\ phase[h] = "exit" /\ signalled[h] # "aborted" => ExitInv(h)
  /\ phase[h] \notin {"tests", "exit"} /\ signalled[h] # "aborted" => RemovesLast(h)
  /\ status[h] = "reaped" => todo[h] = << >>

LEMMA TmpNext ==
  ASSUME \A f \in files' : InTmp(f, dns')
  PROVE  TmpFiles'
BY DEF TmpFiles, InTmp, Config!Under, Config!TmpDir, Config!DnsmasqCfg, Config!Lost

LEMMA HeldNext ==
  ASSUME NEW h \in Roots,
         \A f \in files' :
           \/ f = Config!TmpDir
           \/ \E static \in Statics : Belongs(f, static) /\ Has(h, static)',
         dns'.built => Has(h, "dnsmasq")'
  PROVE  HeldFiles(h)'
BY DEF HeldFiles, Belongs, Config!Under, Config!SiteDir, Config!TmpDir, Config!DnsmasqCfg

LEMMA ExitNext ==
  ASSUME NEW h \in Roots,
         \A f \in files' :
           \/ f = Config!TmpDir
           \/ \E static \in Statics : Belongs(f, static) /\ RemovesOf(todo'[h], static)
  PROVE  ExitInv(h)'
BY DEF ExitInv, Belongs, RemovesOf, Config!Under, Config!SiteDir, Config!TmpDir,
   Config!DnsmasqCfg

LEMMA LastNext ==
  ASSUME NEW h \in Roots,
         \A k \in 1..Len(todo'[h]) : todo'[h][k].do = "remove_tmp" => k = Len(todo'[h]),
         \/ Len(todo'[h]) = 0 /\ \A f \in files' : f = Config!DnsmasqCfg /\ dns' = Config!Lost
         \/ Len(todo'[h]) > 0 /\ todo'[h][Len(todo'[h])].do = "remove_tmp"
  PROVE  RemovesLast(h)'
BY DEF RemovesLast, Config!DnsmasqCfg, Config!Lost

LEMMA LostNext ==
  ASSUME NEW h \in Roots,
         dns' = Config!Lost => signalled'[h] \in {"unassigned", "teardown", "aborted"}
  PROVE  (dns = Config!Lost => signalled[h] \in {"unassigned", "teardown", "aborted"})'
BY DEF Config!Lost

LEMMA TheHost ==
  ASSUME NEW h \in Roots
  PROVE  h = Host
BY S4Assumption DEF Host

(* Where what is written for a site is.                                    *)
LEMMA SitePaths ==
  ASSUME NEW n \in Names, NEW k
  PROVE  /\ \A f \in Config!SharedFiles(n) \cup Config!InstanceFiles(n, k) : Belongs(f, n)
         /\ Belongs(Config!LogDir(n, k), n)
         /\ \A f \in Config!LogFiles(n, k) : Belongs(f, n)
         /\ \A static \in Statics : Belongs(Config!LogDir(n, k), static) => static = n
         /\ Config!LogDir(n, k) # Config!TmpDir /\ Config!LogDir(n, k) # Config!DnsmasqCfg
<1>1. n # "dnsmasq" /\ \A static \in Statics : static # "dnsmasq" => static \in Names
  BY StaticFacts
<1>2. \A f : 1 \in DOMAIN f /\ 2 \in DOMAIN f /\ f[1] = "tmp" /\ f[2] = n => Belongs(f, n)
  BY <1>1 DEF Belongs, Config!Under, Config!SiteDir
<1> USE DEF Config!SiteDir
<1>3. ASSUME NEW f \in Config!SharedFiles(n)
      PROVE  1 \in DOMAIN f /\ 2 \in DOMAIN f /\ f[1] = "tmp" /\ f[2] = n
  <2>1. CASE f = Config!SiteDir(n)
    BY <2>1
  <2>2. CASE f = Config!ClusterSettings(n)
    BY <2>2 DEF Config!ClusterSettings
  <2>3. CASE f = Config!ChronosDir(n)
    BY <2>3 DEF Config!ChronosDir
  <2>4. CASE f = Config!SharedConfFile(n)
    BY <2>4 DEF Config!SharedConfFile
  <2>5. CASE f = Config!ClusterConfFile(n)
    BY <2>5 DEF Config!ClusterConfFile
  <2> QED
    BY <1>3, <2>1, <2>2, <2>3, <2>4, <2>5 DEF Config!SharedFiles
<1>4. ASSUME NEW f \in Config!InstanceFiles(n, k)
      PROVE  1 \in DOMAIN f /\ 2 \in DOMAIN f /\ f[1] = "tmp" /\ f[2] = n
  <2>1. CASE f = Config!InstanceDir(n, k)
    BY <2>1 DEF Config!InstanceDir
  <2>2. CASE f = Config!LogDir(n, k)
    BY <2>2 DEF Config!LogDir
  <2>3. CASE f = Config!ConfDir(n, k)
    BY <2>3 DEF Config!ConfDir
  <2>4. CASE f = Config!LocalConfFile(n, k)
    BY <2>4 DEF Config!LocalConfFile
  <2> QED
    BY <1>4, <2>1, <2>2, <2>3, <2>4 DEF Config!InstanceFiles
<1>5. LET f == Config!LogDir(n, k) IN
      1 \in DOMAIN f /\ 2 \in DOMAIN f /\ f[1] = "tmp" /\ f[2] = n
  BY DEF Config!LogDir
<1>6. ASSUME NEW f \in Config!LogFiles(n, k)
      PROVE  1 \in DOMAIN f /\ 2 \in DOMAIN f /\ f[1] = "tmp" /\ f[2] = n
  <2>1. PICK g \in {"chronos_stdout.txt", "chronos_stderr.txt"} : f = Config!LogDir(n, k) \o <<g>>
    BY <1>6 DEF Config!LogFiles
  <2> QED
    BY <2>1 DEF Config!LogDir
<1> DEFINE g == Config!LogDir(n, k)
<1>7. g # Config!TmpDir /\ g # Config!DnsmasqCfg
  <2>1. 2 \notin DOMAIN Config!TmpDir /\ 2 \notin DOMAIN Config!DnsmasqCfg
    BY DEF Config!TmpDir, Config!DnsmasqCfg
  <2> HIDE DEF g
  <2>2. 2 \in DOMAIN g
    BY <1>5 DEF g
  <2> QED
    BY <2>1, <2>2
<1> HIDE DEF Config!SiteDir
<1>8. ASSUME NEW static \in Statics, Belongs(g, static)
      PROVE  static = n
  <2>1. CASE static = "dnsmasq"
    BY <1>7, <1>8, <2>1 DEF Belongs
  <2>2. CASE static # "dnsmasq"
    <3>1. Config!Under(Config!SiteDir(static), g)
      BY <1>8, <2>2 DEF Belongs
    <3> HIDE DEF g
    <3>2. g[2] = static
      BY <3>1, UnderDirs
    <3> QED
      BY <1>5, <3>2 DEF g
  <2> QED
    BY <2>1, <2>2
<1>9. /\ \A f \in Config!SharedFiles(n) \cup Config!InstanceFiles(n, k) : Belongs(f, n)
      /\ \A f \in Config!LogFiles(n, k) : Belongs(f, n)
      /\ Belongs(g, n)
  BY <1>2, <1>3, <1>4, <1>5, <1>6
<1> QED
  BY <1>7, <1>8, <1>9

(* The log files of a chronos are where its log directory is.              *)
LEMMA LogFacts ==
  ASSUME LogsOnly
  PROVE  /\ dns' = dns
         /\ \/ files' = files
            \/ \E n \in Names : \E g \in files :
                 /\ g # Config!TmpDir /\ g # Config!DnsmasqCfg
                 /\ \A static \in Statics : Belongs(g, static) => static = n
                 /\ \A f \in files' : f \in files \/ Belongs(f, n)
<1>1. CASE UNCHANGED configVars
  BY <1>1 DEF configVars
<1>2. ASSUME NEW n \in Names, NEW k \in 1..Len(Chronoses[n]), Config!WriteLog(n, k)
      PROVE  /\ dns' = dns
             /\ LET g == Config!LogDir(n, k) IN
                /\ g \in files
                /\ g # Config!TmpDir /\ g # Config!DnsmasqCfg
                /\ \A static \in Statics : Belongs(g, static) => static = n
                /\ \A f \in files' : f \in files \/ Belongs(f, n)
  BY <1>2, SitePaths DEF Config!WriteLog
<1> QED
  BY <1>1, <1>2 DEF LogsOnly

LEMMA InSiteInTmp ==
  ASSUME NEW n \in Names, NEW f, NEW d, Belongs(f, n)
  PROVE  InTmp(f, d)
<1>1. Config!Under(Config!SiteDir(n), f)
  BY StaticFacts DEF Belongs
<1>2. Config!Under(Config!TmpDir, f)
  BY <1>1, UnderDirs
<1> QED
  BY <1>2 DEF InTmp

(* What each step on the files does to them.                               *)
LEMMA FileStepEffect ==
  ASSUME NEW h \in Roots, FileStep(h), Fits(Head(todo[h]).do, Head(todo[h]).on)
  PROVE  LET what == Head(todo[h]).do
             on   == Head(todo[h]).on IN
         \/ what = "create_tmp" /\ files' = files \cup {Config!TmpDir} /\ dns' = dns
         \/ /\ what = "new_site" /\ on \in Names /\ dns' = dns
            /\ \A f \in files' : f \in files \/ Belongs(f, on)
         \/ /\ what = "new_dnsmasq" /\ files' = files \cup {Config!DnsmasqCfg}
            /\ dns'.built /\ dns' # Config!Lost
         \/ /\ what = "remove_cfg" /\ files' = files \ {Config!DnsmasqCfg}
            /\ ~dns'.built /\ dns' # Config!Lost
         \/ what = "remove_chronos" /\ files' \subseteq files /\ dns' = dns
         \/ /\ what = "remove_site" /\ on \in Names /\ dns' = dns
            /\ files' \subseteq files /\ \A f \in files' : ~Belongs(f, on)
         \/ /\ what = "remove_tmp" /\ dns' = dns /\ ~dns.built
            /\ files' \subseteq files /\ \A f \in files' : ~Config!Under(Config!TmpDir, f)
<1> DEFINE what == Head(todo[h]).do
           on   == Head(todo[h]).on
<1>1. CASE what = "create_tmp"
  BY <1>1 DEF FileStep, Comes, Config!SetUpTestCase
<1>2. CASE what = "new_site"
  <2>1. /\ files' = files \cup Config!SharedFiles(on)
                      \cup UNION {Config!InstanceFiles(on, k) : k \in 1..Len(Chronoses[on])}
        /\ dns' = dns
    BY <1>2 DEF FileStep, Comes, Config!BuildSite
  <2>2. on \in Names
    BY <1>2 DEF Fits
  <2> HIDE DEF on
  <2>3. \A k : \A f \in Config!SharedFiles(on) \cup Config!InstanceFiles(on, k) : Belongs(f, on)
    BY <2>2, SitePaths
  <2>4. \A f \in files' : f \in files \/ Belongs(f, on)
    BY <2>1, <2>3
  <2> QED
    BY <1>2, <2>1, <2>2, <2>4 DEF on
<1>3. CASE what = "new_dnsmasq"
  <2>1. files' = files \cup {Config!DnsmasqCfg} /\ dns'.built
    BY <1>3 DEF FileStep, Comes, Config!CreateDns
  <2>2. ~Config!Lost.built
    BY DEF Config!Lost
  <2> QED
    BY <1>3, <2>1, <2>2
<1>4. CASE what = "remove_cfg"
  <2>1. files' = files \ {Config!DnsmasqCfg} /\ dns' = Config!NoDns
    BY <1>4 DEF FileStep, Comes, Config!ResetDns
  <2>2. ~Config!NoDns.built /\ Config!NoDns # Config!Lost
    <3>1. "lost" \in DOMAIN Config!Lost
      BY DEF Config!Lost
    <3>2. "lost" \notin DOMAIN Config!NoDns /\ ~Config!NoDns.built
      BY DEF Config!NoDns
    <3> QED
      BY <3>1, <3>2
  <2> QED
    BY <1>4, <2>1, <2>2
<1>5. CASE what = "remove_chronos"
  BY <1>5 DEF FileStep, Comes, Config!ResetChronos, Config!RemoveAll
<1>6. CASE what = "remove_site"
  <2>1. files' = {f \in files : ~Config!Under(Config!SiteDir(on), f)} /\ dns' = dns
    BY <1>6 DEF FileStep, Comes, Config!ResetSite, Config!RemoveAll
  <2>2. on \in Names /\ on # "dnsmasq"
    BY <1>6, StaticFacts DEF Fits
  <2> QED
    BY <1>6, <2>1, <2>2 DEF Belongs
<1>7. CASE what = "remove_tmp"
  BY <1>7 DEF FileStep, Comes, Config!RemoveTmp, Config!RemoveAll
<1> QED
  BY FileStepFacts, <1>1, <1>2, <1>3, <1>4, <1>5, <1>6, <1>7 DEF FileKinds

LEMMA FileStepInTmp ==
  ASSUME NEW h \in Roots, FileStep(h), Fits(Head(todo[h]).do, Head(todo[h]).on), TmpFiles
  PROVE  TmpFiles'
<1> DEFINE what == Head(todo[h]).do
           on   == Head(todo[h]).on
<1>0. ~Config!Lost.built /\ \A d : InTmp(Config!TmpDir, d)
  BY DEF Config!Lost, InTmp, Config!Under
<1>1. \/ /\ dns' = dns
         /\ \/ \A f \in files' : f \in files \/ f = Config!TmpDir
            \/ on \in Names /\ \A f \in files' : f \in files \/ Belongs(f, on)
      \/ dns'.built /\ \A f \in files' : f \in files \/ f = Config!DnsmasqCfg
      \/ \A f \in files' : f \in files /\ f # Config!DnsmasqCfg
  BY FileStepEffect
<1> HIDE DEF what, on
<1>2. ASSUME NEW f \in files'
      PROVE  InTmp(f, dns')
  <2>1. f \in files => InTmp(f, dns)
    BY DEF TmpFiles
  <2>2. CASE dns' = dns /\ (f \in files \/ f = Config!TmpDir \/ (on \in Names /\ Belongs(f, on)))
    BY <1>0, <2>1, <2>2, InSiteInTmp
  <2>3. CASE dns'.built /\ (f \in files \/ f = Config!DnsmasqCfg)
    BY <2>1, <2>3 DEF InTmp
  <2>4. CASE f \in files /\ f # Config!DnsmasqCfg
    BY <2>1, <2>4 DEF InTmp
  <2> QED
    BY <1>1, <1>2, <2>2, <2>3, <2>4
<1> QED
  BY <1>2, TmpNext

(* The head of the list is taken, in the tests: what was built is owned.   *)
LEMMA SuffixAssigned ==
  ASSUME NEW h \in Roots, Suffix(h), Len(todo[h]) \in Nat, AssignedNext(todo[h])
  PROVE  AssignedNext(todo[h])'
<1> DEFINE l == todo[h]
           m == todo'[h]
<1>1. PICK d \in 0..Len(l) : /\ Len(m) = Len(l) - d
                             /\ \A k \in 1..Len(m) : k + d \in 1..Len(l) /\ m[k] = l[k + d]
  BY DEF Suffix
<1> HIDE DEF l, m
<1>2. ASSUME NEW k \in 1..Len(m), NEW static \in Statics, Builds(m[k], static)
      PROVE  k + 1 \in 1..Len(m) /\ Owns(m[k + 1], static)
  <2> DEFINE j == k + d
  <2>1. j \in 1..Len(l) /\ Builds(l[j], static)
    BY <1>1, <1>2
  <2>2. j + 1 \in 1..Len(l) /\ Owns(l[j + 1], static)
    BY <2>1 DEF AssignedNext, l
  <2>3. j + 1 = (k + 1) + d /\ k + 1 \in 1..Len(m)
    BY <1>1, <2>2 DEF l
  <2> QED
    BY <1>1, <2>2, <2>3
<1> QED
  BY <1>2 DEF AssignedNext, Builds, Owns, m

LEMMA SuffixHeld ==
  ASSUME NEW h \in Roots, HeldFiles(h), UNCHANGED <<files, dns>>,
         \A static : Has(h, static) => Has(h, static)'
  PROVE  HeldFiles(h)'
<1>1. \A f \in files' :
        f = Config!TmpDir \/ \E static \in Statics : Belongs(f, static) /\ Has(h, static)'
  BY DEF HeldFiles
<1>2. dns'.built => Has(h, "dnsmasq")'
  BY DEF HeldFiles
<1> QED
  BY <1>1, <1>2, HeldNext

LEMMA FileStepHeld ==
  ASSUME NEW h \in Roots, FileStep(h), Fits(Head(todo[h]).do, Head(todo[h]).on),
         Head(todo[h]) = todo[h][1], todo[h][1].do \notin Removals, Shorter(h),
         AssignedNext(todo[h]), HeldFiles(h)
  PROVE  HeldFiles(h)'
<1> DEFINE what == todo[h][1].do
           on   == todo[h][1].on
<1>1. Ready(h) /\ UNCHANGED <<vars, owned>> /\ what \in FileKinds
  BY FileStepFacts
<1>2. \A static : Has(h, static) => static \in owned'[h]
  BY <1>1 DEF Has, Owns, FileKinds
<1>3. ASSUME NEW static \in Statics, Builds(todo[h][1], static)
      PROVE  Has(h, static)'
  <2>1. 1 \in 1..Len(todo[h]) /\ 1 + 1 = 2
    BY DEF Shorter
  <2>2. 2 \in 1..Len(todo[h]) /\ Owns(todo[h][2], static)
    BY <1>3, <2>1 DEF AssignedNext
  <2>3. 1 \in 1..Len(todo'[h]) /\ todo'[h][1] = todo[h][2]
    <3>1. 1 \in 1..Len(todo'[h])
      BY <2>2 DEF Shorter
    <3> QED
      BY <2>1, <3>1 DEF Shorter
  <2>4. pc'[h] = "idle"
    BY <1>1 DEF Ready, vars, callVars
  <2> QED
    BY <2>2, <2>3, <2>4 DEF Has, Owns
<1>4. \/ what = "create_tmp" /\ files' = files \cup {Config!TmpDir} /\ dns' = dns
      \/ /\ what = "new_site" /\ on \in Names /\ dns' = dns
         /\ \A f \in files' : f \in files \/ Belongs(f, on)
      \/ /\ what = "new_dnsmasq" /\ files' = files \cup {Config!DnsmasqCfg}
  BY FileStepEffect DEF Removals
<1>5. \A static \in Statics : Has(h, static) => Has(h, static)'
  BY <1>2 DEF Has
<1>6. ASSUME NEW f \in files'
      PROVE  f = Config!TmpDir \/ \E static \in Statics : Belongs(f, static) /\ Has(h, static)'
  <2>1. CASE f \in files
    BY <1>5, <2>1 DEF HeldFiles
  <2>2. CASE what = "new_site" /\ on \in Names /\ Belongs(f, on)
    BY <1>3, <2>2, StaticFacts DEF Builds
  <2>3. CASE what = "new_dnsmasq" /\ f = Config!DnsmasqCfg
    BY <1>3, <2>3, StaticFacts DEF Builds, Belongs
  <2> QED
    BY <1>4, <1>6, <2>1, <2>2, <2>3
<1>7. dns'.built => Has(h, "dnsmasq")'
  <2>1. CASE what = "new_dnsmasq"
    BY <1>3, <2>1, StaticFacts DEF Builds
  <2>2. CASE dns' = dns
    BY <1>5, <2>2, StaticFacts DEF HeldFiles
  <2> QED
    BY <1>4, <2>1, <2>2
<1> QED
  BY <1>6, <1>7, HeldNext

(* A step of exit().                                                       *)
LEMMA AdvanceExit ==
  ASSUME NEW h \in Roots, Shorter(h), ExitInv(h), files' \subseteq files,
         todo[h][1].do = "remove_cfg" => \A f \in files' : ~Belongs(f, "dnsmasq"),
         todo[h][1].do = "remove_site" => \A f \in files' : ~Belongs(f, todo[h][1].on)
  PROVE  ExitInv(h)'
<1> DEFINE l == todo[h]
           m == todo'[h]
<1>1. /\ Len(l) \in Nat /\ Len(l) > 0 /\ Len(m) = Len(l) - 1
      /\ \A k \in 1..Len(m) : k + 1 \in 1..Len(l) /\ m[k] = l[k + 1]
  BY DEF Shorter
<1>2. ASSUME NEW f \in files', f # Config!TmpDir
      PROVE  \E static \in Statics : Belongs(f, static) /\ RemovesOf(m, static)
  <2>1. PICK static \in Statics : Belongs(f, static) /\ RemovesOf(l, static)
    BY <1>2 DEF ExitInv
  <2>2. PICK k \in 1..Len(l) : IF static = "dnsmasq" THEN l[k].do = "remove_cfg"
                               ELSE l[k].do = "remove_site" /\ l[k].on = static
    BY <2>1 DEF RemovesOf
  <2>3. k # 1
    BY <2>1, <2>2
  <2> HIDE DEF l, m
  <2> DEFINE j == k - 1
  <2>4. j \in 1..Len(m) /\ j + 1 = k
    BY <1>1, <2>3
  <2> HIDE DEF j
  <2>5. m[j] = l[k]
    BY <1>1, <2>4
  <2>6. RemovesOf(m, static)
    BY <2>2, <2>4, <2>5 DEF RemovesOf
  <2> QED
    BY <2>1, <2>6
<1> QED
  BY <1>2, ExitNext

(* A step of TearDownTestCase.                                             *)
LEMMA AdvanceLast ==
  ASSUME NEW h \in Roots, Shorter(h), RemovesLast(h),
         todo[h][1].do = "remove_tmp" =>
           \A f \in files' : f = Config!DnsmasqCfg /\ dns' = Config!Lost
  PROVE  RemovesLast(h)'
<1> DEFINE l == todo[h]
           s == todo'[h]
           q == Len(l)
           r == Len(s)
<1>1. /\ q \in Nat /\ r \in Nat /\ q > 0 /\ r = q - 1
      /\ \A k \in 1..r : k + 1 \in 1..q /\ s[k] = l[k + 1]
  BY DEF Shorter
<1>2. /\ \A k \in 1..q : l[k].do = "remove_tmp" => k = q
      /\ l[q].do = "remove_tmp"
  BY <1>1 DEF RemovesLast
<1> HIDE DEF l, s, q, r
<1>3. \A k \in 1..r : s[k].do = "remove_tmp" => k = r
  <2> SUFFICES ASSUME NEW k \in 1..r, s[k].do = "remove_tmp" PROVE k = r
    OBVIOUS
  <2>1. k + 1 = q
    BY <1>1, <1>2
  <2> QED
    BY <1>1, <2>1
<1>4. CASE q = 1
  <2>1. todo[h][1].do = "remove_tmp"
    BY <1>2, <1>4 DEF l
  <2>2. r = 0
    BY <1>1, <1>4
  <2> QED
    BY <1>3, <2>1, <2>2, LastNext DEF s, r
<1>5. CASE q # 1
  <2>1. r > 0 /\ r \in 1..r /\ r + 1 = q
    BY <1>1, <1>5
  <2>2. s[r].do = "remove_tmp"
    BY <1>1, <1>2, <2>1
  <2> QED
    BY <1>3, <2>1, <2>2, LastNext DEF s, r
<1> QED
  BY <1>4, <1>5

(* A call, a step of the fixture or one on its files.                      *)
LEMMA TmpHeadStep ==
  ASSUME FixtureInv(On, StaticOf), NEW h \in Roots, FilesInv(h), TmpInv(h),
         \/ MakeCall(h) /\ UNCHANGED configVars
         \/ Quiet(h) /\ UNCHANGED configVars
         \/ FileStep(h)
  PROVE  TmpInv(h)'
<1> DEFINE what == todo[h][1].do
           on   == todo[h][1].on
<1>1. /\ h \in Pids /\ todo \in [Roots -> Seq(Steps(On))] /\ ProgramInv(h, StaticOf)
      /\ phase \in [Roots -> Phases] /\ owned \in [Roots -> SUBSET Statics]
      /\ pc \in [Pids -> Calls] /\ IInv
      /\ signalled \in [Roots -> SignalPoints \cup {"nowhere", "aborted"}]
  BY ProcessAssumption DEF FixtureInv, FixtureTypeOK, TypeOK
<1>2. /\ todo[h] # << >> /\ todo' = [todo EXCEPT ![h] = Tail(@)]
      /\ UNCHANGED <<phase, signalled>> /\ Ready(h)
  <2>1. CASE MakeCall(h)
    BY <2>1 DEF MakeCall, Comes, Advance
  <2>2. CASE Quiet(h)
    BY <2>2, QuietFacts
  <2>3. CASE FileStep(h)
    BY <2>3, FileStepFacts
  <2> QED
    BY <2>1, <2>2, <2>3
<1>3. /\ todo'[h] = Tail(todo[h])
      /\ Suffix(h) /\ Shorter(h) /\ Head(todo[h]) = todo[h][1] /\ 1 \in 1..Len(todo[h])
  BY <1>1, <1>2, TailIsSuffix
<1>4. status'[h] = "program"
  <2>1. CASE MakeCall(h)
    <3>1. Call(h) \/ SocketFails(h)
      BY <1>1, <2>1, MakesCall DEF ProgramInv
    <3>2. ASSUME Call(h) \/ SocketFails(h) PROVE status' = status
      BY <3>2 DEF Call, Start, Kill, Restart, KillNotRunning, KillNoProcess, SendSigterm,
         WaitFor, SocketFails, kernelVars
    <3> QED
      BY <1>2, <3>1, <3>2 DEF Ready
  <2>2. CASE Quiet(h) \/ FileStep(h)
    BY <1>2, <2>2, QuietFacts, FileStepFacts DEF vars, kernelVars, Ready
  <2> QED
    BY <2>1, <2>2
<1>5. FileStep(h) => Fits(Head(todo[h]).do, Head(todo[h]).on)
  BY <1>3 DEF FilesInv, FitsInv
<1>6. \/ UNCHANGED <<files, dns>> /\ what # "remove_tmp" /\ what # "remove_cfg" /\ what # "remove_site"
      \/ FileStep(h)
  <2>1. CASE MakeCall(h) /\ UNCHANGED configVars
    BY <1>3, <2>1 DEF MakeCall, Comes, configVars
  <2>2. CASE Quiet(h) /\ UNCHANGED configVars
    BY <1>3, <2>2, QuietFacts DEF configVars
  <2> QED
    BY <2>1, <2>2
<1>7. TmpFiles'
  BY <1>5, <1>6, FileStepInTmp, TmpNext DEF TmpInv, TmpFiles
<1>8. (dns = Config!Lost => signalled[h] \in {"unassigned", "teardown", "aborted"})'
  <2>1. dns' = Config!Lost => dns = Config!Lost
    BY <1>5, <1>6, FileStepEffect
  <2> QED
    BY <1>2, <2>1, LostNext DEF TmpInv
<1>9. ASSUME phase[h] = "tests"
      PROVE  AssignedNext(todo[h])' /\ HeldFiles(h)'
  <2>1. what \notin Removals /\ AssignedNext(todo[h]) /\ HeldFiles(h)
    BY <1>1, <1>3, <1>9 DEF ProgramInv, OwnedInv, TmpInv
  <2>2. AssignedNext(todo[h])'
    BY <1>3, <2>1, SuffixAssigned DEF Shorter
  <2>3. CASE FileStep(h)
    BY <1>3, <1>5, <2>1, <2>2, <2>3, FileStepHeld
  <2>4. CASE MakeCall(h) /\ UNCHANGED configVars
    <3>1. what # "own" /\ owned' = owned
      BY <1>3, <2>4 DEF MakeCall, Comes
    <3>2. \A static : Has(h, static) => Has(h, static)'
      BY <3>1 DEF Has, Owns
    <3> QED
      BY <2>1, <2>2, <2>4, <3>2, SuffixHeld DEF configVars
  <2>5. CASE Quiet(h) /\ UNCHANGED configVars
    <3>1. \/ what = "own" /\ owned' = [owned EXCEPT ![h] = @ \cup {on}]
          \/ what # "own" /\ owned' = owned
      BY <1>3, <2>1, <2>5, QuietFacts DEF Removals
    <3>2. \A static : Has(h, static) => Has(h, static)'
      BY <1>1, <3>1 DEF Has, Owns
    <3> QED
      BY <2>1, <2>2, <2>5, <3>2, SuffixHeld DEF configVars
  <2> QED
    BY <2>3, <2>4, <2>5
<1>10. ASSUME phase[h] # "tests"
       PROVE  files' \subseteq files /\ what \notin TestOnly
  <2>1. what \notin TestOnly
    BY <1>1, <1>3, <1>10 DEF ProgramInv, KillsInv
  <2> QED
    BY <1>3, <1>5, <1>6, <2>1, FileStepEffect DEF TestOnly
<1>11. ASSUME phase[h] = "exit", signalled[h] # "aborted"
       PROVE  ExitInv(h)'
  <2>1. ExitInv(h) /\ files' \subseteq files
    BY <1>10, <1>11 DEF TmpInv
  <2>2. /\ what = "remove_cfg" => \A f \in files' : ~Belongs(f, "dnsmasq")
        /\ what = "remove_site" => \A f \in files' : ~Belongs(f, on)
    BY <1>3, <1>5, <1>6, FileStepEffect DEF Belongs
  <2> QED
    BY <1>3, <2>1, <2>2, AdvanceExit
<1>12. ASSUME phase[h] \notin {"tests", "exit"}, signalled[h] # "aborted"
       PROVE  RemovesLast(h)'
  <2>1. ASSUME what = "remove_tmp", NEW f \in files'
        PROVE  f = Config!DnsmasqCfg /\ dns' = Config!Lost
    <3>1. /\ FileStep(h) /\ dns' = dns /\ ~dns.built
          /\ f \in files /\ ~Config!Under(Config!TmpDir, f)
      BY <1>3, <1>5, <1>6, <2>1, FileStepEffect
    <3> QED
      BY <3>1 DEF TmpInv, TmpFiles, InTmp
  <2> QED
    BY <1>3, <1>12, <2>1, AdvanceLast DEF TmpInv
<1> HIDE DEF what, on
<1> QED
  BY <1>2, <1>4, <1>7, <1>8, <1>9, <1>11, <1>12 DEF TmpInv

(* A step that leaves the list of h alone, and the files but for logs.     *)
LEMMA TmpSame ==
  ASSUME NEW h \in Roots, TmpInv(h), SameList(h), LogsOnly,
         pc[h] = "idle" => pc'[h] = "idle",
         status'[h] = "reaped" => status[h] = "reaped" \/ todo[h] = << >>
  PROVE  TmpInv(h)'
<1>1. /\ dns' = dns
      /\ \/ files' = files
         \/ \E n \in Names : \E g \in files :
              /\ g # Config!TmpDir /\ g # Config!DnsmasqCfg
              /\ \A static \in Statics : Belongs(g, static) => static = n
              /\ \A f \in files' : f \in files \/ Belongs(f, n)
  BY LogFacts
<1>2. PICK n, g : \/ files' = files
                  \/ /\ n \in Names /\ g \in files
                     /\ g # Config!TmpDir /\ g # Config!DnsmasqCfg
                     /\ \A static \in Statics : Belongs(g, static) => static = n
                     /\ \A f \in files' : f \in files \/ Belongs(f, n)
  BY <1>1
<1>3. TmpFiles'
  <2> SUFFICES ASSUME NEW f \in files' PROVE InTmp(f, dns')
    BY TmpNext
  <2> QED
    BY <1>1, <1>2, InSiteInTmp DEF TmpInv, TmpFiles
<1>4. (dns = Config!Lost => signalled[h] \in {"unassigned", "teardown", "aborted"})'
  BY <1>1, LostNext DEF TmpInv, SameList
<1>5. \A static : Has(h, static) => Has(h, static)'
  BY DEF Has, Owns, SameList
<1>6. ASSUME phase[h] = "tests"
      PROVE  AssignedNext(todo[h])' /\ HeldFiles(h)'
  <2>1. AssignedNext(todo[h]) /\ HeldFiles(h)
    BY <1>6 DEF TmpInv
  <2>2. AssignedNext(todo[h])'
    BY <2>1 DEF SameList, AssignedNext, Builds, Owns
  <2>3. ASSUME NEW f \in files', f # Config!TmpDir
        PROVE  \E static \in Statics : Belongs(f, static) /\ Has(h, static)'
    <3>1. CASE f \in files
      BY <1>5, <2>1, <2>3, <3>1 DEF HeldFiles
    <3>2. CASE f \notin files
      <4>1. g \in files /\ g # Config!TmpDir /\ Belongs(f, n) /\ n \in Statics
            /\ \A static \in Statics : Belongs(g, static) => static = n
        BY <1>2, <2>3, <3>2, StaticFacts
      <4>2. Has(h, n)
        BY <2>1, <4>1 DEF HeldFiles
      <4> QED
        BY <1>5, <4>1, <4>2
    <3> QED
      BY <3>1, <3>2
  <2>4. dns'.built => Has(h, "dnsmasq")'
    BY <1>1, <1>5, <2>1 DEF HeldFiles
  <2> QED
    BY <2>2, <2>3, <2>4, HeldNext
<1>7. ASSUME phase[h] = "exit", signalled[h] # "aborted"
      PROVE  ExitInv(h)'
  <2>1. ExitInv(h) /\ todo'[h] = todo[h]
    BY <1>7 DEF TmpInv, SameList
  <2>2. ASSUME NEW f \in files', f # Config!TmpDir
        PROVE  \E static \in Statics : Belongs(f, static) /\ RemovesOf(todo[h], static)
    <3>1. CASE f \in files
      BY <2>1, <2>2, <3>1 DEF ExitInv
    <3>2. CASE f \notin files
      <4>1. g \in files /\ g # Config!TmpDir /\ Belongs(f, n) /\ n \in Statics
            /\ \A static \in Statics : Belongs(g, static) => static = n
        BY <1>2, <2>2, <3>2, StaticFacts
      <4>2. RemovesOf(todo[h], n)
        BY <2>1, <4>1 DEF ExitInv
      <4> QED
        BY <4>1, <4>2
    <3> QED
      BY <3>1, <3>2
  <2> QED
    BY <2>1, <2>2, ExitNext
<1>8. ASSUME phase[h] \notin {"tests", "exit"}, signalled[h] # "aborted"
      PROVE  RemovesLast(h)'
  <2>1. RemovesLast(h) /\ todo'[h] = todo[h]
    BY <1>8 DEF TmpInv, SameList
  <2>2. \/ Len(todo[h]) = 0 /\ \A f \in files' : f = Config!DnsmasqCfg /\ dns' = Config!Lost
        \/ Len(todo[h]) > 0 /\ todo[h][Len(todo[h])].do = "remove_tmp"
    BY <1>1, <1>2, <2>1 DEF RemovesLast
  <2> QED
    BY <2>1, <2>2, LastNext DEF RemovesLast
<1> QED
  BY <1>3, <1>4, <1>6, <1>7, <1>8 DEF TmpInv, SameList

(* TearDownTestCase begins: what is not held is lost.                      *)
LEMMA TearDownTmp ==
  ASSUME NEW h \in Roots, NEW statics \in SUBSET Statics, TmpFiles,
         todo'[h] = TearDownTestCase(statics), phase'[h] \notin {"tests", "exit"},
         UNCHANGED files, dns' \in {dns, Config!Lost}, status'[h] = "program",
         dns' = Config!Lost => signalled'[h] \in {"unassigned", "teardown", "aborted"}
  PROVE  TmpInv(h)'
<1> DEFINE l == TearDownTestCase(statics)
<1>1. /\ Len(l) \in Nat \ {0} /\ l[Len(l)].do = "remove_tmp"
      /\ \A k \in 1..Len(l) : l[k].do = "remove_tmp" => k = Len(l)
  BY TearDownFacts
<1>2. todo'[h] = l
  OBVIOUS
<1> HIDE DEF l
<1>3. RemovesLast(h)'
  BY <1>1, <1>2, LastNext
<1>4. \A f : InTmp(f, dns) => InTmp(f, dns')
  BY DEF InTmp
<1>5. TmpFiles'
  BY <1>4, TmpNext DEF TmpFiles
<1>6. (dns = Config!Lost => signalled[h] \in {"unassigned", "teardown", "aborted"})'
  BY LostNext
<1> QED
  BY <1>3, <1>5, <1>6 DEF TmpInv

(* exit() is called, when all that is built is held.                       *)
LEMMA ExitTmp ==
  ASSUME FixtureInv(On, StaticOf), NEW h \in Roots, HttpStackFails(h), TmpInv(h)
  PROVE  TmpInv(h)'
<1>1. /\ todo \in [Roots -> Seq(Steps(On))] /\ ProgramInv(h, StaticOf)
      /\ phase \in [Roots -> Phases] /\ owned \in [Roots -> SUBSET Statics]
  BY DEF FixtureInv, FixtureTypeOK
<1>2. /\ 1 \in 1..Len(todo[h]) /\ todo[h][1].do \in {"new_s4_sites", "delete_s4_sites"}
      /\ UNCHANGED <<vars, signalled, files>> /\ Ready(h)
      /\ todo'[h] = StaticDestructors(owned[h]) /\ phase'[h] = "exit"
      /\ dns' = IF dns.built /\ "dnsmasq" \notin owned[Host] THEN Config!Lost ELSE dns
  BY <1>1, HeadFacts DEF HttpStackFails, Comes, Config!TearDownTestCase
<1>3. phase[h] = "tests"
  BY <1>1, <1>2 DEF ProgramInv, KillsInv, TestOnly
<1>4. HeldFiles(h) /\ \A static : Has(h, static) => static \in owned[h]
  BY <1>2, <1>3 DEF TmpInv, Has, Owns
<1>5. dns' = dns
  BY <1>2, <1>4, TheHost DEF HeldFiles
<1> DEFINE l == StaticDestructors(owned[h])
<1>6. \A static \in Statics : static \in owned[h] => RemovesOf(l, static)
  BY <1>1, ExitFacts DEF Resets
<1>7. todo'[h] = l
  BY <1>2
<1> HIDE DEF l
<1>8. ExitInv(h)'
  BY <1>2, <1>4, <1>6, <1>7, ExitNext DEF HeldFiles
<1>9. TmpFiles'
  BY <1>2, <1>5, TmpNext DEF TmpInv, TmpFiles
<1>10. (dns = Config!Lost => signalled[h] \in {"unassigned", "teardown", "aborted"})'
  BY <1>2, <1>5, LostNext DEF TmpInv
<1>11. status'[h] = "program"
  BY <1>2 DEF Ready, vars, kernelVars
<1> QED
  BY <1>2, <1>8, <1>9, <1>10, <1>11 DEF TmpInv

(* A remove_all throws: what is left is not more than before.              *)
LEMMA AbortTmp ==
  ASSUME FixtureInv(On, StaticOf), NEW h \in Roots, RemoveAborts(h), TmpInv(h)
  PROVE  TmpInv(h)'
<1>1. /\ todo \in [Roots -> Seq(Steps(On))] /\ ProgramInv(h, StaticOf)
      /\ phase \in [Roots -> Phases]
      /\ signalled \in [Roots -> SignalPoints \cup {"nowhere", "aborted"}]
  BY DEF FixtureInv, FixtureTypeOK
<1>2. /\ 1 \in 1..Len(todo[h]) /\ todo[h][1].do \in Removals
      /\ UNCHANGED <<vars, phase>> /\ Ready(h)
      /\ todo' = [todo EXCEPT ![h] = << >>] /\ signalled'[h] = "aborted"
  BY <1>1, HeadFacts DEF RemoveAborts, Comes, Removals
<1>3. dns' = dns /\ files' \subseteq files
  BY DEF RemoveAborts, Config!ResetChronosFails, Config!RemoveTmpFails, Config!RemoveFails,
     Config!RemoveAll
<1>4. phase[h] # "tests"
  BY <1>1, <1>2 DEF ProgramInv, OwnedInv
<1>5. TmpFiles'
  BY <1>3, TmpNext DEF TmpInv, TmpFiles
<1>6. (dns = Config!Lost => signalled[h] \in {"unassigned", "teardown", "aborted"})'
  BY <1>2, LostNext
<1>7. status'[h] = "program"
  BY <1>2 DEF Ready, vars, kernelVars
<1> QED
  BY <1>2, <1>4, <1>5, <1>6, <1>7 DEF TmpInv

LEMMA InitTmp ==
  ASSUME S4Init, NEW h \in Roots
  PROVE  TmpInv(h)
<1>1. files = {} /\ dns = Config!NoDns
  BY DEF S4Init, Config!Init
<1>2. ~Config!NoDns.built /\ Config!NoDns # Config!Lost
  <2>1. "lost" \in DOMAIN Config!Lost
    BY DEF Config!Lost
  <2>2. "lost" \notin DOMAIN Config!NoDns /\ ~Config!NoDns.built
    BY DEF Config!NoDns
  <2> QED
    BY <2>1, <2>2
<1>3. status[h] = "program" /\ phase[h] = "tests"
  BY ProcessAssumption DEF S4Init, FixtureInit, Init
<1>4. AssignedNext(todo[h])
  BY TestCaseFacts DEF S4Init
<1> QED
  BY <1>1, <1>2, <1>3, <1>4 DEF TmpInv, TmpFiles, HeldFiles

(* A signal: what is lost then was not assigned yet, or a tear-down has    *)
(* been interrupted.                                                       *)
LEMMA SignalTmp ==
  ASSUME FixtureInv(On, StaticOf), NEW h \in Roots, TmpInv(h),
         SignalHandler(h, TearDownTestCase(owned[h])), Config!TearDownTestCase
  PROVE  TmpInv(h)'
<1>1. /\ todo \in [Roots -> Seq(Steps(On))] /\ h \in Pids
      /\ phase \in [Roots -> Phases] /\ owned[h] \in SUBSET Statics
      /\ signalled \in [Roots -> SignalPoints \cup {"nowhere", "aborted"}]
      /\ status \in [Pids -> Statuses]
      /\ phase[h] = "tests" => signalled[h] = "nowhere"
  BY ProcessAssumption DEF FixtureInv, FixtureTypeOK, TypeOK, ProgramInv
<1>2. /\ todo'[h] = TearDownTestCase(owned[h]) /\ phase'[h] \in {"handler", "nested"}
      /\ signalled'[h] = SignalPoint(h) /\ status[h] = "program" /\ status' = status
      /\ files' = files
      /\ dns' = IF dns.built /\ "dnsmasq" \notin owned[Host] THEN Config!Lost ELSE dns
  BY <1>1 DEF SignalHandler, kernelVars, Config!TearDownTestCase
<1>3. ASSUME dns' = Config!Lost
      PROVE  signalled'[h] \in {"unassigned", "teardown", "aborted"}
  <2>1. CASE phase[h] # "tests"
    BY <1>2, <2>1 DEF SignalPoint
  <2>2. CASE phase[h] = "tests"
    <3>1. dns # Config!Lost
      BY <1>1, <2>2 DEF TmpInv
    <3>2. dns.built /\ "dnsmasq" \notin owned[h]
      BY <1>2, <1>3, <3>1, TheHost
    <3>3. /\ pc[h] = "idle" /\ 1 \in 1..Len(todo[h]) /\ todo[h][1].do = "own"
      BY <2>2, <3>2 DEF TmpInv, HeldFiles, Has, Owns
    <3>4. todo[h] # << >>
      BY <1>1, <3>3, EmptySeq
    <3>5. Comes(h, "own")
      BY <1>1, <1>2, <3>3, <3>4, HeadFacts DEF Comes, Ready
    <3> QED
      BY <1>2, <2>2, <3>3, <3>5 DEF SignalPoint
  <2> QED
    BY <2>1, <2>2
<1> QED
  BY <1>1, <1>2, <1>3, TearDownTmp DEF TmpInv

LEMMA TmpStep ==
  ASSUME FixtureInv(On, StaticOf), [S4Next]_allVars, NEW h \in Roots, FilesInv(h), TmpInv(h)
  PROVE  TmpInv(h)'
<1>1. /\ todo \in [Roots -> Seq(Steps(On))] /\ ProgramInv(h, StaticOf) /\ IInv
      /\ phase \in [Roots -> Phases] /\ owned[h] \in SUBSET Statics
      /\ status \in [Pids -> Statuses] /\ h \in Pids
  BY ProcessAssumption DEF FixtureInv, FixtureTypeOK, TypeOK
<1>2. CASE UNCHANGED allVars
  BY <1>2, TmpSame DEF allVars, vars, kernelVars, callVars, fixtureVars, LogsOnly, SameList
<1>3. ASSUME NEW p \in Pids, (p # h /\ Step(p)) \/ Server(p) \/ (p = h /\ Step(h)),
             UNCHANGED fixtureVars, LogsOnly
      PROVE  TmpInv(h)'
  <2>1. Step(h) => pc[h] # "idle"
    BY DEF Step, Proceed, Fork, ForkFails, SaveOffPid, Exec, ExecFails, Reap, WaitNoChild,
       Waiting, ConnectSucceeds, ConnectRefused, CallOff, At
  <2>2. ASSUME p = h PROVE ~Quit(p)
    <3>1. ~Server(h)
      BY <1>1, <2>2 DEF IInv, RootInv, Server, Listen, Crash, Terminate
    <3> QED
      BY <1>3, <2>1, <2>2, <3>1 DEF Quit, Ready
  <2>3. status'[h] = status[h]
    BY <1>1, <1>3, <2>2, OnlyQuits
  <2>4. pc[h] = "idle" => pc'[h] = "idle"
    <3>1. CASE (p # h /\ Step(p)) \/ Server(p)
      BY <1>1, <3>1, OthersLeaveAlone DEF Untouched
    <3> QED
      BY <1>3, <2>1, <3>1
  <2> QED
    BY <1>3, <2>3, <2>4, TmpSame DEF fixtureVars, SameList
<1>4. CASE \/ MakeCall(h) /\ UNCHANGED configVars
           \/ Quiet(h) /\ UNCHANGED configVars
           \/ FileStep(h)
  BY <1>4, TmpHeadStep
<1>5. CASE SiteNotUp(h) /\ UNCHANGED configVars
  <2>1. /\ Suffix(h) /\ UNCHANGED <<vars, phase, owned, signalled>> /\ Ready(h)
        /\ todo[h] # << >> /\ todo[h][1].do = "return_unless_ok"
    BY <1>1, <1>5, SkipIsSuffix
  <2>2. 1 \in 1..Len(todo[h]) /\ Len(todo[h]) \in Nat
    BY <1>1, <2>1, HeadFacts, LenProperties
  <2>3. phase[h] = "tests"
    BY <1>1, <2>1, <2>2 DEF ProgramInv, KillsInv, TestOnly
  <2>4. AssignedNext(todo[h]) /\ HeldFiles(h)
    BY <2>3 DEF TmpInv
  <2>5. AssignedNext(todo[h])'
    BY <2>1, <2>2, <2>4, SuffixAssigned
  <2>6. \A static : Has(h, static) => Has(h, static)'
    BY <2>1 DEF Has, Owns
  <2>7. HeldFiles(h)'
    BY <1>5, <2>4, <2>6, SuffixHeld DEF configVars
  <2>8. TmpFiles'
    BY <1>5, TmpNext DEF TmpInv, TmpFiles, configVars
  <2>9. (dns = Config!Lost => signalled[h] \in {"unassigned", "teardown", "aborted"})'
    BY <1>5, <2>1, LostNext DEF TmpInv, configVars
  <2>10. status'[h] = "program"
    BY <2>1 DEF Ready, vars, kernelVars
  <2> QED
    BY <2>1, <2>3, <2>5, <2>7, <2>8, <2>9, <2>10 DEF TmpInv
<1>6. CASE Finish(h) /\ UNCHANGED configVars
  <2>1. Untouched(h) /\ todo[h] = << >>
    BY <1>1, <1>6, OthersLeaveAlone DEF Finish
  <2> QED
    BY <1>6, <2>1, TmpSame DEF Finish, fixtureVars, SameList, LogsOnly, Untouched
<1>7. CASE HttpStackFails(h)
  BY <1>7, ExitTmp
<1>8. CASE RemoveAborts(h)
  BY <1>8, AbortTmp
<1>9. CASE BeginTearDown(h, TearDownTestCase(owned[h])) /\ Config!TearDownTestCase
  <2>1. /\ 1 \in 1..Len(todo[h]) /\ todo[h][1].do = "teardown"
        /\ todo'[h] = TearDownTestCase(owned[h]) /\ phase'[h] = "teardown"
        /\ UNCHANGED <<signalled, files>> /\ status'[h] = "program"
        /\ dns' = IF dns.built /\ "dnsmasq" \notin owned[Host] THEN Config!Lost ELSE dns
    BY <1>1, <1>9, HeadFacts DEF BeginTearDown, Comes, Ready, vars, kernelVars,
       Config!TearDownTestCase
  <2>2. phase[h] = "tests"
    BY <1>1, <2>1 DEF ProgramInv, KillsInv, TestOnly
  <2>3. dns.built => "dnsmasq" \in owned[h]
    BY <2>1, <2>2 DEF TmpInv, HeldFiles, Has, Owns
  <2>4. dns' = dns
    BY <2>1, <2>3, TheHost
  <2> QED
    BY <1>1, <2>1, <2>4, TearDownTmp DEF TmpInv
<1>10. CASE SignalHandler(h, TearDownTestCase(owned[h])) /\ Config!TearDownTestCase
  BY <1>10, SignalTmp
<1> QED
  BY StepCases, <1>1, <1>2, <1>3, <1>4, <1>5, <1>6, <1>7, <1>8, <1>9, <1>10

S4TmpInv == \A h \in Roots : FilesInv(h) /\ TmpInv(h)

(* A test program that has ended has left no file, neither in tmp nor that *)
(* of dnsmasq: not when the tests are over, and not when a signal hit them *)
(* anywhere but between the constructor of a DnsmasqInstance and the       *)
(* assignment of its pointer.  After a signal there, or in a tear-down, at *)
(* most the file of dnsmasq is left, after an exit() of an S4Site the      *)
(* empty directory tmp.  Only an abort in a remove_all may leave more.     *)
THEOREM NoFileLeftBehind == S4Spec => []FilesGone
<1>1. S4Init => S4TmpInv
  BY InitFiles, InitTmp DEF S4TmpInv
<1>2. S4FixtureInv /\ S4TmpInv /\ [S4Next]_allVars => S4TmpInv'
  BY FilesStep, TmpStep DEF S4FixtureInv, S4TmpInv
<1>3. S4FixtureInv /\ S4TmpInv => FilesGone
  <2> SUFFICES ASSUME S4FixtureInv, S4TmpInv, NEW h \in Roots, status[h] = "reaped",
                      signalled[h] # "aborted"
               PROVE  \/ files = {}
                      \/ phase[h] = "exit" /\ files = {Config!TmpDir}
                      \/ /\ signalled[h] \in {"unassigned", "teardown"}
                         /\ files = {Config!DnsmasqCfg}
    BY DEF FilesGone
  <2>1. TmpInv(h) /\ ProgramInv(h, StaticOf) /\ Len(todo[h]) = 0
    BY DEF S4TmpInv, S4FixtureInv, FixtureInv, TmpInv
  <2>2. phase[h] # "tests"
    BY <2>1 DEF ProgramInv, OwnedInv
  <2>3. CASE phase[h] = "exit"
    <3>1. \A f \in files : f = Config!TmpDir
      BY <2>1, <2>3 DEF TmpInv, ExitInv, RemovesOf
    <3> QED
      BY <2>3, <3>1
  <2>4. CASE phase[h] # "exit"
    <3>1. \A f \in files : f = Config!DnsmasqCfg /\ dns = Config!Lost
      BY <2>1, <2>2, <2>4 DEF TmpInv, RemovesLast
    <3>2. dns = Config!Lost => signalled[h] \in {"unassigned", "teardown"}
      BY <2>1 DEF TmpInv
    <3> QED
      BY <3>1, <3>2
  <2> QED
    BY <2>3, <2>4
<1> QED
  BY <1>1, <1>2, <1>3, FixtureInductive, PTL DEF S4Spec
=============================================================================
