---------------------------- MODULE SNMPTestProofs ----------------------------
(***************************************************************************)
(* That a jump ends at the start of a period is proved for a test that     *)
(* starts at any time.  What it takes is that the scripts are well formed: *)
(* they jump by five minutes only, and advance by whole seconds.           *)
(***************************************************************************)
EXTENDS SNMPTest, SequenceTheorems, TLAPS

-----------------------------------------------------------------------------
(* The steps of a test *)

Stats   == {"count", "mean", "var", "hwm", "lwm"}
Periods == {"prev_5s", "curr_5m", "prev_5m"}

Steps ==
  [op : {"advance"}, n : Nat]
    \cup [op : {"jump"}, n : {FiveMinutes}]
    \cup [op : {"accumulate"}, row : Rows, n : Nat]
    \cup [op : {"add_ip", "remove_ip"}, row : Rows]
    \cup [op : {"assert", "expect"}, row : Rows, stat : Stats, period : Periods, n : Nat]
    \cup [op : {"expect_rows", "assert_rows"}, n : Nat]

IsScript(s) == s \in Seq(Steps)

LEMMA Joined == \A s, t : IsScript(s) /\ IsScript(t) => IsScript(s \o t)
BY ConcatProperties DEF IsScript

LEMMA OneStep == \A s \in Steps : IsScript(<<s>>)
BY DEF IsScript

LEMMA TimeSteps ==
  /\ \A n \in Nat : IsScript(Advance(n))
  /\ IsScript(Jump(FiveMinutes))
BY OneStep DEF Advance, Jump, Steps

LEMMA RowSteps ==
  \A row \in Rows :
    /\ IsScript(Increment(row))
    /\ \A n \in Nat : IsScript(Accumulate(row, n))
    /\ IsScript(AddIp(row)) /\ IsScript(RemoveIp(row))
BY OneStep DEF Increment, Accumulate, AddIp, RemoveIp, Steps

LEMMA Expectations ==
  /\ \A n \in Nat : IsScript(ExpectRows(n)) /\ IsScript(AssertRowCount(n))
  /\ \A row \in Rows, stat \in Stats, period \in Periods, n \in Nat :
       /\ IsScript(AssertEq(row, stat, period, n))
       /\ IsScript(ExpectEq(row, stat, period, n))
       /\ Head(AssertEq(row, stat, period, n)) \in Steps
BY OneStep DEF ExpectRows, AssertRowCount, AssertEq, ExpectEq, Steps

LEMMA Words ==
  /\ "row1" \in Rows /\ "row2" \in Rows /\ "row3" \in Rows
  /\ "row4" \in Rows /\ "row5" \in Rows /\ "row6" \in Rows /\ "row7" \in Rows
  /\ "count" \in Stats /\ "mean" \in Stats /\ "var" \in Stats
  /\ "hwm" \in Stats /\ "lwm" \in Stats
  /\ "prev_5s" \in Periods /\ "curr_5m" \in Periods /\ "prev_5m" \in Periods
BY DEF Rows, Stats, Periods

LEMMA Counts ==
  ASSUME NEW row \in Rows, NEW a \in Nat, NEW b \in Nat, NEW c \in Nat
  PROVE  IsScript(AssertCounts(row, a, b, c)) /\ IsScript(ExpectCounts(row, a, b, c))
BY Words, Expectations, Joined, Zenon DEF AssertCounts, ExpectCounts

LEMMA Events ==
  ASSUME NEW row \in Rows, NEW period \in Periods,
         NEW a \in Nat, NEW b \in Nat, NEW c \in Nat, NEW d \in Nat, NEW e \in Nat
  PROVE  IsScript(AssertEvents(row, period, a, b, c, d, e))
BY Words, Expectations, Joined, Zenon DEF AssertEvents

LEMMA ManyRows ==
  ASSUME NEW period \in Periods, NEW values \in Seq(Nat), Len(values) <= 6
  PROVE  IsScript(AssertRows(period, values))
<1> DEFINE rows == <<"row1", "row2", "row3", "row4", "row5", "row6">>
           step(k) == Head(AssertEq(rows[k], "count", period, values[k]))
<1>1. /\ Len(values) \in Nat /\ DOMAIN values = 1..Len(values)
      /\ \A k \in 1..Len(values) : values[k] \in Nat
  OBVIOUS
<1>2. \A k \in 1..6 : rows[k] \in Rows
  BY DEF Rows
<1>3. \A k \in 1..Len(values) : k \in 1..6
  BY <1>1
<1>4. AssertRows(period, values) = [k \in 1..Len(values) |-> step(k)]
  BY <1>1 DEF AssertRows
<1> HIDE DEF rows
<1>5. ASSUME NEW k \in 1..Len(values)
      PROVE  step(k) \in Steps
  <2>1. rows[k] \in Rows /\ values[k] \in Nat
    BY <1>1, <1>2, <1>3
  <2> QED
    BY <2>1, Words, Expectations, Zenon
<1> HIDE DEF step
<1>6. [k \in 1..Len(values) |-> step(k)] \in Seq(Steps)
  BY <1>1, <1>5
<1> QED
  BY <1>4, <1>6 DEF IsScript

LEMMA LatencyCalculationsIsScript == IsScript(LatencyCalculations)
<1>1. /\ IsScript(Accumulate("row1", 100)) /\ IsScript(Accumulate("row1", 300))
      /\ IsScript(Accumulate("row1", 500)) /\ IsScript(Advance(5))
  BY Words, RowSteps, TimeSteps
<1>2. /\ IsScript(AssertEq("row1", "mean", "prev_5s", 100))
      /\ IsScript(AssertEq("row1", "var", "prev_5s", 0))
      /\ IsScript(AssertEq("row1", "mean", "prev_5s", 400))
      /\ IsScript(AssertEq("row1", "hwm", "prev_5s", 500))
      /\ IsScript(AssertEq("row1", "lwm", "prev_5s", 300))
      /\ IsScript(AssertEq("row1", "count", "prev_5s", 2))
  BY Words, Expectations
<1> QED
  BY <1>1, <1>2, Joined DEF LatencyCalculations, FiveSeconds

LEMMA LatencyScopeCalculationsIsScript == IsScript(LatencyScopeCalculations)
<1>1. /\ IsScript(Accumulate("row1", 100)) /\ IsScript(Accumulate("row1", 300))
      /\ IsScript(Accumulate("row1", 500)) /\ IsScript(Advance(5)) /\ IsScript(Advance(2 * 300))
  BY Words, RowSteps, TimeSteps
<1>2. /\ IsScript(AssertCounts("row1", 0, 1, 0))
      /\ IsScript(AssertEq("row1", "mean", "prev_5s", 100))
      /\ IsScript(AssertEq("row1", "var", "prev_5s", 0))
  BY Words, Expectations, Counts
<1>3. /\ IsScript(AssertEvents("row1", "prev_5s", 2, 400, 10000, 300, 500))
      /\ IsScript(AssertEvents("row1", "prev_5s", 0, 0, 0, 0, 0))
      /\ IsScript(AssertEvents("row1", "curr_5m", 0, 0, 0, 0, 0))
      /\ IsScript(AssertEvents("row1", "prev_5m", 0, 0, 0, 0, 0))
  BY Words, Events
<1> QED
  BY <1>1, <1>2, <1>3, Joined DEF LatencyScopeCalculations, FiveSeconds, FiveMinutes

LEMMA StringBasedEventStatsIsScript == IsScript(StringBasedEventStats)
<1>1. /\ IsScript(Accumulate("row1", 100)) /\ IsScript(Accumulate("row1", 200))
      /\ IsScript(Accumulate("row2", 900)) /\ IsScript(Advance(5)) /\ IsScript(Advance(2 * 300))
  BY Words, RowSteps, TimeSteps
<1>2. /\ IsScript(AssertCounts("row1", 0, 1, 0)) /\ IsScript(AssertCounts("row1", 1, 1, 0))
      /\ IsScript(AssertCounts("row2", 0, 1, 0))
  BY Words, Counts
<1>3. IsScript(FirstString)
  <2>1. IsScript(AssertEvents("row1", "curr_5m", 2, 150, 2500, 100, 200))
    BY Words, Events
  <2>2. IsScript(AssertEvents("row1", "prev_5s", 1, 100, 0, 100, 100))
    BY Words, Events
  <2>3. IsScript(AssertEq("row1", "count", "prev_5m", 0))
    BY Words, Expectations
  <2> QED
    BY <2>1, <2>2, <2>3, Joined DEF FirstString
<1>4. ASSUME NEW period \in Periods
      PROVE  IsScript(NoStrings(period))
  <2>1. \A row \in {"row1", "row2"}, stat \in {"hwm", "lwm", "count"} :
          IsScript(AssertEq(row, stat, period, 0))
    BY Words, Expectations
  <2> QED
    BY <2>1, Joined DEF NoStrings
<1>5. IsScript(NoStrings("prev_5s")) /\ IsScript(NoStrings("curr_5m")) /\ IsScript(NoStrings("prev_5m"))
  BY <1>4, Words
<1>6. IsScript(AssertRowCount(15)) /\ IsScript(AssertRowCount(30))
  BY Expectations
<1> QED
  BY <1>1, <1>2, <1>3, <1>5, <1>6, Joined DEF StringBasedEventStats, FiveSeconds, FiveMinutes

LEMMA CounterTimePeriodsIsScript == IsScript(CounterTimePeriods)
<1>1. /\ IsScript(Increment("row1")) /\ IsScript(Advance(5)) /\ IsScript(Advance(10))
      /\ IsScript(Advance(300))
  BY Words, RowSteps, TimeSteps
<1>2. /\ IsScript(AssertCounts("row1", 0, 0, 0)) /\ IsScript(AssertCounts("row1", 0, 1, 0))
      /\ IsScript(AssertCounts("row1", 1, 1, 0)) /\ IsScript(AssertCounts("row1", 0, 0, 1))
      /\ IsScript(AssertEq("row1", "count", "prev_5s", 0))
  BY Words, Counts, Expectations
<1> QED
  BY <1>1, <1>2, Joined DEF CounterTimePeriods, FiveSeconds, FiveMinutes

LEMMA SuccessFailCountTableIsScript == IsScript(SuccessFailCountTable)
<1>1. /\ IsScript(Increment("row1")) /\ IsScript(Increment("row2")) /\ IsScript(Increment("row3"))
      /\ IsScript(Advance(5))
  BY Words, RowSteps, TimeSteps
<1>2. <<2, 1, 1>> \in Seq(Nat) /\ Len(<<2, 1, 1>>) <= 6
  OBVIOUS
<1>3. IsScript(AssertRows("curr_5m", <<2, 1, 1>>)) /\ IsScript(AssertRows("prev_5s", <<2, 1, 1>>))
  BY <1>2, Words, ManyRows
<1> QED
  BY <1>1, <1>3, Joined DEF SuccessFailCountTable, FiveSeconds

LEMMA SingleCountByNodeTypeTableIsScript == IsScript(SingleCountByNodeTypeTable)
<1>1. \A row \in {"row1", "row2"} :
        /\ IsScript(Increment(row))
        /\ IsScript(AssertCounts(row, 0, 0, 0))
        /\ IsScript(AssertCounts(row, 0, 1, 0)) /\ IsScript(AssertCounts(row, 1, 1, 0))
  BY Words, RowSteps, Counts
<1>2. IsScript(Advance(5))
  BY TimeSteps
<1> QED
  BY <1>1, <1>2, Joined DEF SingleCountByNodeTypeTable, FiveSeconds

LEMMA SuccessFailCountByRequestTypeTableIsScript == IsScript(SuccessFailCountByRequestTypeTable)
<1> DEFINE none == <<0, 0, 0, 0, 0, 0>>
           both == <<1, 1, 0, 1, 0, 1>>
<1>1. /\ IsScript(Increment("row1")) /\ IsScript(Increment("row2"))
      /\ IsScript(Increment("row4")) /\ IsScript(Increment("row6")) /\ IsScript(Advance(5))
  BY Words, RowSteps, TimeSteps
<1>2. /\ none \in Seq(Nat) /\ Len(none) <= 6
      /\ both \in Seq(Nat) /\ Len(both) <= 6
  OBVIOUS
<1> HIDE DEF none, both
<1>3. /\ IsScript(AssertRows("prev_5s", none)) /\ IsScript(AssertRows("curr_5m", none))
      /\ IsScript(AssertRows("prev_5m", none))
      /\ IsScript(AssertRows("curr_5m", both)) /\ IsScript(AssertRows("prev_5s", both))
  BY <1>2, Words, ManyRows
<1> QED
  BY <1>1, <1>3, Joined DEF SuccessFailCountByRequestTypeTable, FiveSeconds, none, both

LEMMA ContinuousAccumulatorTableIsScript == IsScript(ContinuousAccumulatorTable)
BY Words, Joined, RowSteps, TimeSteps, Expectations
   DEF ContinuousAccumulatorTable

LEMMA CxCounterTableIsScript == IsScript(CxCounterTable)
<1> DEFINE none == <<0, 0, 0, 0, 0, 0>>
<1>1. none \in Seq(Nat) /\ Len(none) <= 6
  OBVIOUS
<1> HIDE DEF none
<1>2. IsScript(AssertRows("prev_5s", none)) /\ IsScript(AssertRowCount(144))
  BY <1>1, Words, ManyRows, Expectations
<1>3. /\ IsScript(Increment("row2")) /\ IsScript(Increment("row7")) /\ IsScript(Advance(5))
  BY Words, RowSteps, TimeSteps
<1>4. \A row \in {"row2", "row7"} :
        IsScript(AssertCounts(row, 0, 1, 0)) /\ IsScript(AssertEq(row, "count", "prev_5s", 1))
  BY Words, Counts, Expectations
<1> QED
  BY <1>2, <1>3, <1>4, Joined DEF CxCounterTable, FiveSeconds, none

LEMMA SingleIPZeroCountIsScript == IsScript(SingleIPZeroCount)
BY Words, Joined, RowSteps, TimeSteps, Expectations, Counts
   DEF SingleIPZeroCount, FiveSeconds

LEMMA SingleIPIsScript == IsScript(SingleIP)
BY Words, Joined, RowSteps, TimeSteps, Expectations, Counts
   DEF SingleIP, FiveSeconds

LEMMA MultipleIPsIsScript == IsScript(MultipleIPs)
BY Words, Joined, RowSteps, TimeSteps, Expectations, Counts
   DEF MultipleIPs, FiveSeconds

LEMMA RefcountIPIsScript == IsScript(RefcountIP)
BY Words, Joined, RowSteps, TimeSteps, Expectations, Counts
   DEF RefcountIP, FiveSeconds

LEMMA RefcountDeleteIPIsScript == IsScript(RefcountDeleteIP)
BY Words, Joined, RowSteps, TimeSteps, Expectations, Counts
   DEF RefcountDeleteIP, FiveSeconds

LEMMA RemoveIPIsScript == IsScript(RemoveIP)
BY Words, Joined, RowSteps, TimeSteps, Expectations, Counts
   DEF RemoveIP, FiveSeconds

LEMMA AddCountsAgeOutIsScript == IsScript(AddCountsAgeOut)
BY Words, Joined, RowSteps, TimeSteps, Expectations, Counts
   DEF AddCountsAgeOut, AgeOut, FiveSeconds, FiveMinutes

LEMMA ScriptIsScript == \A t \in Tests : IsScript(Script(t))
BY SNMPAssumption, LatencyCalculationsIsScript, LatencyScopeCalculationsIsScript,
     StringBasedEventStatsIsScript, CounterTimePeriodsIsScript, SuccessFailCountTableIsScript,
     SingleCountByNodeTypeTableIsScript, SuccessFailCountByRequestTypeTableIsScript,
     ContinuousAccumulatorTableIsScript, CxCounterTableIsScript, SingleIPZeroCountIsScript,
     SingleIPIsScript, MultipleIPsIsScript, RefcountIPIsScript, RefcountDeleteIPIsScript,
     RemoveIPIsScript, AddCountsAgeOutIsScript DEF Script

(* A step advances by whole seconds and jumps by five minutes.             *)
LEMMA StepFacts ==
  ASSUME NEW s \in Steps
  PROVE  /\ s.op = "advance" => s.n \in Nat
         /\ s.op = "jump" => s.n = FiveMinutes
BY DEF Steps

-----------------------------------------------------------------------------
(* A jump ends at the start of a period *)

ClockInv == test \in Tests /\ now \in Nat /\ pc \in Nat \ {0}

LEMMA AtStepFacts ==
  ASSUME ClockInv, pc <= Len(Script(test))
  PROVE  /\ Current.op = "advance" => Current.n \in Nat
         /\ Current.op = "jump" => Current.n = FiveMinutes
<1>1. Script(test) \in Seq(Steps) /\ pc \in Nat \ {0}
  BY ScriptIsScript DEF ClockInv, IsScript
<1>2. Script(test)[pc] \in Steps
  BY <1>1
<1> QED
  BY <1>2, StepFacts DEF Current

LEMMA JumpLands ==
  ASSUME NEW t \in Nat, NEW u, u = t + (300 - (t % 300))
  PROVE  u \in Nat /\ u % 300 = 0 /\ t < u /\ u <= t + 300
OBVIOUS

LEMMA ClockStep == ClockInv /\ [Next]_vars => ClockInv'
<1> SUFFICES ASSUME ClockInv, [Next]_vars
             PROVE  ClockInv'
  OBVIOUS
<1>1. CASE AdvanceTime
  BY <1>1, AtStepFacts DEF AdvanceTime, AtStep, ClockInv
<1>2. CASE JumpToNextPeriodStart
  <2>1. now' = now + (300 - (now % 300))
    BY <1>2, AtStepFacts DEF JumpToNextPeriodStart, AtStep, FiveMinutes
  <2>2. now' \in Nat
    BY <2>1, JumpLands DEF ClockInv
  <2> QED
    BY <1>2, <2>2 DEF JumpToNextPeriodStart, ClockInv
<1>3. CASE AddSample
  BY <1>3 DEF AddSample, ClockInv
<1>4. CASE AddReference
  BY <1>4 DEF AddReference, ClockInv
<1>5. CASE RemoveReference
  BY <1>5 DEF RemoveReference, ClockInv
<1>6. CASE Check
  <2>1. Len(Script(test)) \in Nat
    BY ScriptIsScript DEF ClockInv, IsScript
  <2> QED
    BY <1>6, <2>1 DEF Check, ClockInv
<1>7. CASE UNCHANGED vars
  BY <1>7 DEF vars, ClockInv
<1> QED
  BY <1>1, <1>2, <1>3, <1>4, <1>5, <1>6, <1>7 DEF Next

(* jump_to_next_periodstart ends at the start of the next period of five   *)
(* minutes, whenever the test was started.                                 *)
THEOREM JumpsLand == Spec => JumpLandsOnPeriodStart
<1>1. Init => ClockInv
  BY SNMPAssumption DEF Init, ClockInv
<1>2. ClockInv /\ [Next]_vars =>
        [AtStep({"jump"}) =>
           now' % FiveMinutes = 0 /\ now < now' /\ now' <= now + FiveMinutes]_vars
  <2> SUFFICES ASSUME ClockInv, Next, AtStep({"jump"})
               PROVE  now' % FiveMinutes = 0 /\ now < now' /\ now' <= now + FiveMinutes
    OBVIOUS
  <2>1. JumpToNextPeriodStart
    BY DEF Next, AtStep, AdvanceTime, AddSample, AddReference, RemoveReference, Check
  <2>2. now' = now + (300 - (now % 300))
    BY <2>1, AtStepFacts DEF JumpToNextPeriodStart, AtStep, FiveMinutes
  <2> QED
    BY <2>2, JumpLands DEF ClockInv, FiveMinutes
<1> QED
  BY <1>1, <1>2, ClockStep, PTL DEF Spec, JumpLandsOnPeriodStart
=============================================================================
