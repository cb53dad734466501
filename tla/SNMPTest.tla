------------------------------- MODULE SNMPTest -------------------------------
(***************************************************************************)
(* The tests of the statistics tables (test_snmp.cpp).  A test takes       *)
(* control of time, adds samples to a table, moves time on, and compares   *)
(* rows of the table with what it expects.  It may start at any time,      *)
(* since only ContinuousAccumulatorTable moves to the start of a period.   *)
(*                                                                         *)
(* The tables are external: they are modelled as the tests use them.  A    *)
(* sample counts in the row of the previous five seconds, of the current   *)
(* five minutes, or of the previous five minutes, by the period in which   *)
(* it was made, and periods begin at multiples of their length since the   *)
(* epoch, as jump_to_next_periodstart takes them to.  Time is in seconds.  *)
(***************************************************************************)
EXTENDS Naturals, SequencesExt

CONSTANTS
  Tests,   (* the tests that may be run                                    *)
  Starts   (* the times at which a test may take control of the clock      *)

ASSUME SNMPAssumption ==
  /\ Tests \subseteq {"LatencyCalculations", "LatencyScopeCalculations", "StringBasedEventStats",
       "CounterTimePeriods", "SuccessFailCountTable", "SingleCountByNodeTypeTable",
       "SuccessFailCountByRequestTypeTable", "ContinuousAccumulatorTable", "CxCounterTable",
       "SingleIPZeroCount", "RefcountIP", "RefcountDeleteIP", "SingleIP", "MultipleIPs",
       "RemoveIP", "AddCountsAgeOut"}
  /\ Starts \subseteq Nat
  /\ \A s \in Starts : s >= 300

VARIABLES
  test,     (* the test                                                    *)
  start,    (* when it took control of the clock                           *)
  now,      (* the controlled time                                         *)
  pc,       (* its next step                                               *)
  samples,  (* what was added to its table, and when                       *)
  refs,     (* the references to each IP address of an IP table            *)
  failed    (* an EXPECT or ASSERT has failed                              *)

vars == <<test, start, now, pc, samples, refs, failed>>

(* A row of a table; its attempts, successes and failures; and those of a  *)
(* second request type.                                                    *)
Rows == {"row1", "row2", "row3", "row4", "row5", "row6", "row7"}

-----------------------------------------------------------------------------
(* The steps of a test *)

FiveSeconds == 5
FiveMinutes == 300

Advance(n)         == <<[op |-> "advance", n |-> n]>>
Jump(n)            == <<[op |-> "jump", n |-> n]>>
Accumulate(row, n) == <<[op |-> "accumulate", row |-> row, n |-> n]>>
Increment(row)     == Accumulate(row, 1)
AddIp(row)         == <<[op |-> "add_ip", row |-> row]>>
RemoveIp(row)      == <<[op |-> "remove_ip", row |-> row]>>

(* ASSERT_EQ(n, snmp_get(...)), EXPECT_EQ(n, ...), and the number of rows  *)
(* that snmp_walk finds.                                                   *)
AssertEq(row, stat, period, n) ==
  <<[op |-> "assert", row |-> row, stat |-> stat, period |-> period, n |-> n]>>
ExpectEq(row, stat, period, n) ==
  <<[op |-> "expect", row |-> row, stat |-> stat, period |-> period, n |-> n]>>
ExpectRows(n) == <<[op |-> "expect_rows", n |-> n]>>
AssertRowCount(n) == <<[op |-> "assert_rows", n |-> n]>>

AssertCounts(row, prev5s, curr5m, prev5m) ==
  AssertEq(row, "count", "prev_5s", prev5s) \o AssertEq(row, "count", "curr_5m", curr5m)
    \o AssertEq(row, "count", "prev_5m", prev5m)
ExpectCounts(row, prev5s, curr5m, prev5m) ==
  ExpectEq(row, "count", "prev_5s", prev5s) \o ExpectEq(row, "count", "curr_5m", curr5m)
    \o ExpectEq(row, "count", "prev_5m", prev5m)

AssertEvents(row, period, count, mean, var, lwm, hwm) ==
  AssertEq(row, "count", period, count) \o AssertEq(row, "mean", period, mean)
    \o AssertEq(row, "var", period, var) \o AssertEq(row, "lwm", period, lwm)
    \o AssertEq(row, "hwm", period, hwm)

-----------------------------------------------------------------------------
(* The tests *)

LatencyCalculations ==
  Accumulate("row1", 100) \o Advance(FiveSeconds)
    \o AssertEq("row1", "mean", "prev_5s", 100) \o AssertEq("row1", "var", "prev_5s", 0)
    \o Accumulate("row1", 300) \o Accumulate("row1", 500) \o Advance(FiveSeconds)
    \o AssertEq("row1", "mean", "prev_5s", 400) \o AssertEq("row1", "hwm", "prev_5s", 500)
    \o AssertEq("row1", "lwm", "prev_5s", 300) \o AssertEq("row1", "count", "prev_5s", 2)

LatencyScopeCalculations ==
  Accumulate("row1", 100) \o AssertCounts("row1", 0, 1, 0) \o Advance(FiveSeconds)
    \o AssertEq("row1", "mean", "prev_5s", 100) \o AssertEq("row1", "var", "prev_5s", 0)
    \o Accumulate("row1", 300) \o Accumulate("row1", 500) \o Advance(FiveSeconds)
    \o AssertEvents("row1", "prev_5s", 2, 400, 10000, 300, 500)
    \o Advance(2 * FiveMinutes)
    \o AssertEvents("row1", "prev_5s", 0, 0, 0, 0, 0)
    \o AssertEvents("row1", "curr_5m", 0, 0, 0, 0, 0)
    \o AssertEvents("row1", "prev_5m", 0, 0, 0, 0, 0)

FirstString ==
  AssertEvents("row1", "curr_5m", 2, 150, 2500, 100, 200)
    \o AssertEq("row1", "count", "prev_5m", 0)
    \o AssertEvents("row1", "prev_5s", 1, 100, 0, 100, 100)

(* The loop over 3..7 (line 262) covers three of the EventStats, which     *)
(* count from 1 to 5: 6 and 7 are of no column.                            *)
NoStrings(p) ==
  AssertEq("row1", "hwm", p, 0) \o AssertEq("row2", "hwm", p, 0)
    \o AssertEq("row1", "lwm", p, 0) \o AssertEq("row2", "lwm", p, 0)
    \o AssertEq("row1", "count", p, 0) \o AssertEq("row2", "count", p, 0)

StringBasedEventStats ==
  Accumulate("row1", 100) \o AssertRowCount(15) \o AssertCounts("row1", 0, 1, 0)
    \o Advance(FiveSeconds) \o AssertRowCount(15) \o AssertCounts("row1", 1, 1, 0)
    \o Accumulate("row1", 200) \o AssertRowCount(15) \o FirstString
    \o Accumulate("row2", 900) \o AssertRowCount(30) \o FirstString
    \o AssertCounts("row2", 0, 1, 0)
    \o Advance(2 * FiveMinutes) \o AssertRowCount(30)
    \o NoStrings("prev_5s") \o NoStrings("curr_5m") \o NoStrings("prev_5m")

CounterTimePeriods ==
  AssertCounts("row1", 0, 0, 0)
    \o Increment("row1") \o AssertCounts("row1", 0, 1, 0)
    \o Advance(FiveSeconds) \o AssertCounts("row1", 1, 1, 0)
    \o Advance(FiveSeconds) \o AssertCounts("row1", 0, 1, 0)
    \o Advance(FiveMinutes) \o AssertCounts("row1", 0, 0, 1)
    \o Increment("row1") \o Advance(10) \o AssertEq("row1", "count", "prev_5s", 0)

(* The values of consecutive rows in a period, from the first row on.      *)
AssertRows(period, values) ==
  [k \in DOMAIN values |->
    Head(AssertEq(<<"row1", "row2", "row3", "row4", "row5", "row6">>[k],
                  "count", period, values[k]))]

SuccessFailCountTable ==
  Increment("row1") \o Increment("row2") \o Increment("row1") \o Increment("row3")
    \o AssertRows("curr_5m", <<2, 1, 1>>)
    \o Advance(FiveSeconds) \o AssertRows("prev_5s", <<2, 1, 1>>)

SingleCountByNodeTypeTable ==
  AssertCounts("row1", 0, 0, 0) \o AssertCounts("row2", 0, 0, 0)
    \o Increment("row1") \o Increment("row2")
    \o AssertCounts("row1", 0, 1, 0) \o AssertCounts("row2", 0, 1, 0)
    \o Advance(FiveSeconds) \o AssertCounts("row1", 1, 1, 0) \o AssertCounts("row2", 1, 1, 0)

SuccessFailCountByRequestTypeTable ==
  LET none == <<0, 0, 0, 0, 0, 0>>
      both == <<1, 1, 0, 1, 0, 1>>
  IN AssertRows("prev_5s", none) \o AssertRows("curr_5m", none) \o AssertRows("prev_5m", none)
       \o Increment("row1") \o Increment("row2") \o Increment("row4") \o Increment("row6")
       \o AssertRows("prev_5s", none) \o AssertRows("curr_5m", both)
       \o Advance(FiveSeconds) \o AssertRows("prev_5s", both)

ContinuousAccumulatorTable ==
  Jump(FiveMinutes) \o Advance(59)
    \o Accumulate("row1", 100) \o Advance(120) \o AssertEq("row1", "mean", "curr_5m", 100)
    \o Accumulate("row1", 200) \o Advance(120) \o AssertEq("row1", "mean", "curr_5m", 150)
    \o Jump(FiveMinutes) \o Advance(150)
    \o AssertEq("row1", "mean", "curr_5m", 200) \o AssertEq("row1", "var", "curr_5m", 0)
    \o AssertEq("row1", "hwm", "curr_5m", 200) \o AssertEq("row1", "lwm", "curr_5m", 200)
    \o Accumulate("row1", 150) \o Advance(5) \o Accumulate("row1", 250) \o Advance(5)
    \o AssertEq("row1", "mean", "curr_5m", 200) \o AssertEq("row1", "hwm", "curr_5m", 250)
    \o AssertEq("row1", "lwm", "curr_5m", 150) \o AssertEq("row1", "var", "curr_5m", 156)
    \o AssertEq("row1", "mean", "prev_5m", 150)

(* Rows 1 to 3 are the first result codes of the base protocol, 4 to 6 of  *)
(* 3GPP, and row 7 is a later one.                                         *)
CxCounterTable ==
  AssertRowCount(144) \o AssertRows("prev_5s", <<0, 0, 0, 0, 0, 0>>)
    \o Increment("row2") \o Increment("row7")
    \o AssertCounts("row2", 0, 1, 0) \o AssertCounts("row7", 0, 1, 0)
    \o Advance(FiveSeconds)
    \o AssertEq("row2", "count", "prev_5s", 1) \o AssertEq("row7", "count", "prev_5s", 1)

SingleIPZeroCount ==
  AddIp("row1") \o Advance(FiveSeconds) \o ExpectRows(3) \o ExpectCounts("row1", 0, 0, 0)

SingleIP ==
  AddIp("row1") \o Increment("row1") \o Increment("row1") \o Advance(FiveSeconds)
    \o ExpectRows(3) \o ExpectCounts("row1", 2, 2, 0)

MultipleIPs ==
  AddIp("row1") \o Increment("row1")
    \o AddIp("row2") \o Increment("row2") \o Increment("row2")
    \o AddIp("row3") \o Increment("row3") \o Increment("row3") \o Increment("row3")
    \o Advance(FiveSeconds) \o ExpectRows(9)
    \o ExpectCounts("row1", 1, 1, 0) \o ExpectCounts("row2", 2, 2, 0)
    \o ExpectCounts("row3", 3, 3, 0)

RefcountIP ==
  AddIp("row1") \o Increment("row1") \o Increment("row1")
    \o AddIp("row1") \o RemoveIp("row1") \o Advance(FiveSeconds)
    \o ExpectRows(3) \o ExpectCounts("row1", 2, 2, 0)

RefcountDeleteIP ==
  AddIp("row1") \o Increment("row1") \o Increment("row1")
    \o AddIp("row1") \o RemoveIp("row1") \o RemoveIp("row1") \o Advance(FiveSeconds)
    \o ExpectRows(0)

RemoveIP ==
  AddIp("row1") \o Increment("row1")
    \o AddIp("row2") \o Increment("row2") \o Increment("row2") \o Advance(FiveSeconds)
    \o ExpectRows(6) \o ExpectCounts("row1", 1, 1, 0) \o ExpectCounts("row2", 2, 2, 0)
    \o RemoveIp("row1") \o ExpectRows(3) \o ExpectCounts("row2", 2, 2, 0)

AgeOut(wait) ==
  AddIp("row1") \o Increment("row1") \o ExpectRows(3) \o ExpectCounts("row1", 0, 1, 0)
    \o Advance(FiveSeconds) \o ExpectRows(3) \o ExpectEq("row1", "count", "prev_5s", 1)
    \o Advance(FiveSeconds) \o ExpectRows(3) \o ExpectEq("row1", "count", "prev_5s", 0)
    \o Advance(wait) \o ExpectRows(3) \o ExpectCounts("row1", 0, 0, 1)
    \o Advance(FiveMinutes) \o ExpectRows(3) \o ExpectCounts("row1", 0, 0, 0)

(* Mutant: the wait ends before the five minutes do.                       *)
AgeOutTooSoon == AgeOut(FiveMinutes - 15)

AddCountsAgeOut == AgeOut(FiveMinutes - 5)

Script(t) ==
  CASE t = "LatencyCalculations"        -> LatencyCalculations
    [] t = "LatencyScopeCalculations"   -> LatencyScopeCalculations
    [] t = "SuccessFailCountTable"      -> SuccessFailCountTable
    [] t = "SingleCountByNodeTypeTable" -> SingleCountByNodeTypeTable
    [] t = "SuccessFailCountByRequestTypeTable" -> SuccessFailCountByRequestTypeTable
    [] t = "SingleIPZeroCount"          -> SingleIPZeroCount
    [] t = "SingleIP"                   -> SingleIP
    [] t = "MultipleIPs"                -> MultipleIPs
    [] t = "StringBasedEventStats"      -> StringBasedEventStats
    [] t = "CounterTimePeriods"         -> CounterTimePeriods
    [] t = "ContinuousAccumulatorTable" -> ContinuousAccumulatorTable
    [] t = "CxCounterTable"             -> CxCounterTable
    [] t = "RefcountIP"                 -> RefcountIP
    [] t = "RefcountDeleteIP"           -> RefcountDeleteIP
    [] t = "RemoveIP"                   -> RemoveIP
    [] t = "AddCountsAgeOut"            -> AddCountsAgeOut

-----------------------------------------------------------------------------
(* The tables (external) *)

PeriodLength(p) == IF p = "prev_5s" THEN FiveSeconds ELSE FiveMinutes
PeriodStart(p) ==
  (now \div PeriodLength(p) - (IF p = "curr_5m" THEN 0 ELSE 1)) * PeriodLength(p)
PeriodEnd(p) == Min({now, PeriodStart(p) + PeriodLength(p)})

(* What sample k weighs in the row of period p.  An event counts if it was *)
(* made in the period; a continuous value by the time for which it was the *)
(* current one, which it is until the next.                                *)
EventWeight(k, p) ==
  IF PeriodStart(p) <= samples[k].at /\ samples[k].at < PeriodStart(p) + PeriodLength(p)
  THEN 1 ELSE 0

ValueWeight(k, p) ==
  LET from == Max({samples[k].at, PeriodStart(p)})
      to   == IF k = Len(samples) THEN PeriodEnd(p) ELSE Min({PeriodEnd(p), samples[k + 1].at})
  IN IF to > from THEN to - from ELSE 0

Weight(k, p) ==
  IF test = "ContinuousAccumulatorTable" THEN ValueWeight(k, p) ELSE EventWeight(k, p)

(* A statistic of a row: 0 if nothing counts in the period.                *)
Stat(row, stat, p) ==
  LET ks     == {k \in DOMAIN samples : samples[k].row = row /\ Weight(k, p) > 0}
      total  == MapThenSumSet(LAMBDA k : Weight(k, p), ks)
      sum    == MapThenSumSet(LAMBDA k : Weight(k, p) * samples[k].value, ks)
      sqsum  == MapThenSumSet(LAMBDA k : Weight(k, p) * samples[k].value * samples[k].value, ks)
      mean   == sum \div total
      values == {samples[k].value : k \in ks}
  IN IF ks = {} THEN 0 ELSE
     CASE stat = "count"  -> total
       [] stat = "mean"   -> mean
       [] stat = "var"    -> sqsum \div total - mean * mean
       [] stat = "hwm"    -> Max(values)
       [] stat = "lwm"    -> Min(values)

(* The entries that snmp_walk finds: the rows of the three periods, of each *)
(* of the 33 + 14 + 1 result codes, each of the five statistics of a string *)
(* that has had a sample, or each IP address that is referred to.           *)
Entries ==
  CASE test = "CxCounterTable"        -> 3 * (33 + 14 + 1)
    [] test = "StringBasedEventStats" -> 3 * 5 * Cardinality({samples[k].row : k \in DOMAIN samples})
    [] OTHER                          -> 3 * Cardinality({r \in Rows : refs[r] > 0})

-----------------------------------------------------------------------------
Init ==
  /\ test \in Tests
  /\ start \in Starts
  /\ now = start
  /\ pc = 1
  /\ samples = << >>
  /\ refs = [r \in Rows |-> 0]
  /\ failed = FALSE

Current == Script(test)[pc]

(* The next step of the test is one of these.                              *)
AtStep(ops) == pc <= Len(Script(test)) /\ Current.op \in ops

(* cwtest_advance_time_ms                                                  *)
AdvanceTime ==
  /\ AtStep({"advance"})
  /\ now' = now + Current.n
  /\ pc'  = pc + 1
  /\ UNCHANGED <<test, start, samples, refs, failed>>

(* Mutant: a whole interval is added.                                      *)
JumpOneInterval ==
  /\ AtStep({"jump"})
  /\ now' = now + Current.n
  /\ pc'  = pc + 1
  /\ UNCHANGED <<test, start, samples, refs, failed>>

(* Mutant: the remainder is added and not what it leaves of the interval.  *)
JumpByRemainder ==
  /\ AtStep({"jump"})
  /\ now' = now + (now % Current.n)
  /\ pc'  = pc + 1
  /\ UNCHANGED <<test, start, samples, refs, failed>>

(* jump_to_next_periodstart(interval)                                      *)
JumpToNextPeriodStart ==
  /\ AtStep({"jump"})
  /\ now' = now + (Current.n - (now % Current.n))
  /\ pc'  = pc + 1
  /\ UNCHANGED <<test, start, samples, refs, failed>>

(* accumulate and increment                                                *)
AddSample ==
  /\ AtStep({"accumulate"})
  /\ samples' = Append(samples, [row |-> Current.row, value |-> Current.n, at |-> now])
  /\ pc' = pc + 1
  /\ UNCHANGED <<test, start, now, refs, failed>>

(* Mutant: a second reference to an IP address is not counted.             *)
AddReferenceOnce ==
  /\ AtStep({"add_ip"})
  /\ refs' = [refs EXCEPT ![Current.row] = 1]
  /\ pc' = pc + 1
  /\ UNCHANGED <<test, start, now, samples, failed>>

(* add_ip: one more reference to the rows of the IP address.               *)
AddReference ==
  /\ AtStep({"add_ip"})
  /\ refs' = [refs EXCEPT ![Current.row] = @ + 1]
  /\ pc' = pc + 1
  /\ UNCHANGED <<test, start, now, samples, failed>>

(* remove_ip: with the last reference the rows go.                         *)
RemoveReference ==
  /\ AtStep({"remove_ip"})
  /\ refs' = [refs EXCEPT ![Current.row] = @ - 1]
  /\ samples' = IF refs[Current.row] = 1
                  THEN SelectSeq(samples, LAMBDA s : s.row # Current.row) ELSE samples
  /\ pc' = pc + 1
  /\ UNCHANGED <<test, start, now, failed>>

(* What the step expects holds.                                            *)
Holds ==
  IF Current.op \in {"expect_rows", "assert_rows"}
  THEN Entries = Current.n
  ELSE Stat(Current.row, Current.stat, Current.period) = Current.n

(* ASSERT_EQ ends the test when it fails, EXPECT_EQ does not.              *)
Check ==
  /\ AtStep({"assert", "expect", "expect_rows", "assert_rows"})
  /\ failed' = (failed \/ ~Holds)
  /\ pc' = IF Current.op \in {"assert", "assert_rows"} /\ ~Holds
             THEN Len(Script(test)) + 1 ELSE pc + 1
  /\ UNCHANGED <<test, start, now, samples, refs>>

Next ==
  AdvanceTime \/ JumpToNextPeriodStart \/ AddSample \/ AddReference \/ RemoveReference \/ Check

Spec == Init /\ [][Next]_vars

-----------------------------------------------------------------------------
TypeOK ==
  /\ test \in Tests /\ start \in Starts
  /\ now \in Nat /\ now >= start
  /\ pc \in 1..(Len(Script(test)) + 1)
  /\ \A k \in DOMAIN samples : samples[k].row \in Rows /\ samples[k].at \in start..now
  /\ refs \in [Rows -> Nat]
  /\ failed \in BOOLEAN

(* The tests that move to the start of a period, or look at the current    *)
(* five minutes only before time moves on, pass whenever they are started  *)
(* (test_snmp.cpp:52, 90, 339, 407, 514, 592, 638, 697).                   *)
StartDoesNotMatter ==
  test \in {"LatencyCalculations", "LatencyScopeCalculations", "SuccessFailCountTable",
            "SuccessFailCountByRequestTypeTable", "ContinuousAccumulatorTable",
            "CxCounterTable", "SingleIPZeroCount", "RefcountDeleteIP"} => ~failed

(* The others compare the rows of the five minutes after a wait, and take  *)
(* no care of when they start.  They can fail only when started in the     *)
(* last ten seconds of a five-minute period.                               *)
OnlyLateStartsFail == failed => start % FiveMinutes >= FiveMinutes - 10

(* "Advance to the next start of interval [...] never before"              *)
(* (test_snmp.cpp:500): the jump ends at the start of a period, and of no  *)
(* later period than the next.                                             *)
JumpLandsOnPeriodStart ==
  [][AtStep({"jump"}) =>
       now' % FiveMinutes = 0 /\ now < now' /\ now' <= now + FiveMinutes]_vars

(* "After another 4m50s the count moves from the current 5min row to the   *)
(* previous 5min row." (test_snmp.cpp:872): the test passes whenever it is *)
(* started, as with that wait it would.                                    *)
AgeOutPasses == test = "AddCountsAgeOut" => ~failed
=============================================================================
