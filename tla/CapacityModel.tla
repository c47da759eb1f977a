--------------------------- MODULE CapacityModel ---------------------------
(***************************************************************************)
(* The capacity model of obs-advisor: from the rows of the table it        *)
(* estimates what a stack needs at a load and a retention that nobody      *)
(* measured, and how well it would have predicted each row from the        *)
(* others. obs-bench appends rows meanwhile; each request reads the table  *)
(* anew.                                                                   *)
(*                                                                         *)
(* Figures are integers in units of 1/Unit, where Unit has every divisor   *)
(* that the divisions of an instance need, so they are exact               *)
(* (UnitAssumption). Times are logarithms: a period p stands for 32^p      *)
(* days, so a run is short of a day when p < 0. With disk figures that are *)
(* powers of two the regression of log(disk) on log(period) has integer    *)
(* terms; its slope is 5 * alpha, and (T / t)^alpha is 2^(slope * (T -     *)
(* t)).                                                                    *)
(***************************************************************************)
EXTENDS Integers, Sequences, SequencesExt

CONSTANTS
  Rows,        \* rows that experiments may save
  Instrument,  \* the one the requests ask for
  Loads,       \* target_load of the requests
  Horizons,    \* target_retention_days of the requests
  Unit,
  MaxRows      \* bound: rows in the table

Keys == {"cpu", "disk"}   \* mem_peak_bytes goes the way of cpu_cores

Row == [instrument : STRING, load : Nat, period : Int, cpu : Nat, disk : Nat]

ASSUME CapacityAssumption ==
  /\ \A r \in Rows : r \in Row
  /\ Loads \subseteq Nat /\ Horizons \subseteq Int
  /\ Unit \in Nat \ {0} /\ MaxRows \in Nat

VARIABLE table

Init == table = << >>

\* RunExperiment saves a row.
Save(r) == Len(table) < MaxRows /\ table' = Append(table, r)

Terminating == Len(table) = MaxRows /\ UNCHANGED table

Next == (\E r \in Rows : Save(r)) \/ Terminating

Spec == Init /\ [][Next]_table

-----------------------------------------------------------------------------
(* Rows and points are functions from the numbers of rows of the table: what is *)
(* left out of them leaves the others as they are. A point is a load and a figure. *)

\* A plausible slip: a run of exactly a day counts as short.
RowsUpToADay(rows, key) ==
  IF key = "disk" THEN rows ELSE RestrictValues(rows, LAMBDA r : r.period <= 0)

RowsForResourceModel(rows, key) ==
  IF key = "disk" THEN rows ELSE RestrictValues(rows, LAMBDA r : r.period < 0)

\* Where the values are, from the least of them to the greatest.
Sorted(vals) ==
  CHOOSE s \in SetToSeqs(DOMAIN vals) :
    \A i, j \in DOMAIN s : i <= j => vals[s[i]] <= vals[s[j]]

\* The mean of the two in the middle of the sorted values, which may be the same one.
Median(vals) ==
  LET s == Sorted(vals)
      n == Cardinality(DOMAIN vals)
  IN (vals[s[(n + 1) \div 2]] + vals[s[n \div 2 + 1]]) \div 2

LoadsOf(rows) == { rows[i].load : i \in DOMAIN rows }

\* The values of the points at a load.
AtLoad(points, load) ==
  [i \in { j \in DOMAIN points : points[j].load = load } |-> points[i].value]

\* One point for each load, in the order that interpolate sorts them to.
DeduplicateByLoad(points) ==
  LET loads == Sorted([l \in LoadsOf(points) |-> l]) IN
  [i \in DOMAIN loads |-> [load |-> loads[i], value |-> Median(AtLoad(points, loads[i]))]]

-----------------------------------------------------------------------------
(* How disk grows with retention. *)

Log2(d) == CHOOSE k \in 0..30 : 2^k = d

\* n * n times the covariance of n values of x and y
Covariance(xs, ys) ==
  LET Total(v) == MapThenSumSet(LAMBDA i : v[i], DOMAIN v) IN
  Cardinality(DOMAIN xs) * Total([i \in DOMAIN xs |-> xs[i] * ys[i]]) - Total(xs) * Total(ys)

\* measuredPeriodDays. A row of a load under a second has no duration and would count with
\* its retention; no row of the model is that short.
Times(rows) == [i \in DOMAIN rows |-> rows[i].period]
Sizes(rows) == [i \in DOMAIN rows |-> Log2(rows[i].disk)]

Measured(rows, key) == RestrictValues(rows, LAMBDA r : r[key] > 0)

\* A plausible slip: the exponent is taken as measured.
AlphaAsMeasured(slopes) == Median(slopes)

\* The bounds are 0.6 and 1.4.
Clamped(slopes) ==
  LET m == Median(slopes) IN IF m \in 3..7 THEN m ELSE IF m > 7 THEN 7 ELSE 3

\* Five times the exponent; a load tells one if it was measured over two periods.
AlphaByRetention(rows) ==
  LET seen == Measured(rows, "disk")
      Of(load) == RestrictValues(seen, LAMBDA r : r.load = load)
      Spread(load) == Covariance(Times(Of(load)), Times(Of(load)))
      Slope(load) == Covariance(Times(Of(load)), Sizes(Of(load))) \div Spread(load)
      loads == { l \in LoadsOf(seen) : Spread(l) # 0 }
  IN IF loads = {} THEN 5 ELSE Clamped([l \in loads |-> Slope(l)])

Power(slope, time) == IF slope * time >= 0 THEN << 2^(slope * time), 1 >>
                                           ELSE << 1, 2^(-(slope * time)) >>

\* A figure in units, brought to the retention T
Scaled(r, key, slope, T) ==
  IF key = "disk" THEN LET p == Power(slope, T - r.period) IN (r.disk * Unit * p[1]) \div p[2]
                  ELSE r[key] * Unit

\* What the model rows with a figure tell of a retention T
Points(rows, key, T) ==
  LET slope == IF key = "disk" THEN AlphaByRetention(rows) ELSE 0
      seen == Measured(rows, key)
  IN [i \in DOMAIN seen |-> [load |-> seen[i].load, value |-> Scaled(seen[i], key, slope, T)]]

-----------------------------------------------------------------------------
(* Estimates. *)

\* Unit has the divisors it needs: figures at another retention, medians of figures and
\* lines between loads are exact.
Distances == {1} \cup ({ s.load - r.load : r, s \in Rows } \cap (Nat \ {0}))

ASSUME UnitAssumption ==
  \A r \in Rows, key \in Keys, slope \in 3..7, T \in Horizons : r[key] > 0 =>
    LET v == Scaled(r, key, slope, T)
        p == Power(slope, T - r.period)
    IN /\ v \in Nat /\ \A d \in Distances : (v \div (2 * d)) * (2 * d) = v
       /\ key = "disk" => v * p[2] = r.disk * Unit * p[1]

Segment(p0, p1, x) ==
  p0.value + ((x - p0.load) * (p1.value - p0.value)) \div (p1.load - p0.load)

\* A plausible slip: beyond the last load the last figure is repeated.
Flat(points, x) ==
  LET n == Len(points)
      i == Min({ j \in 1..(n - 1) : j = n - 1 \/ points[j + 1].load >= x })
  IN IF n = 0 THEN 0
     ELSE IF n = 1 \/ x > points[n].load THEN points[n].value
     ELSE Segment(points[i], points[i + 1], x)

\* The segment whose end is the first load not below x; the first and the last one go on.
Interpolate(points, x) ==
  LET n == Len(points)
      i == Min({ j \in 1..(n - 1) : j = n - 1 \/ points[j + 1].load >= x })
  IN IF n = 0 THEN 0
     ELSE IF n = 1 THEN points[1].value
     ELSE Segment(points[i], points[i + 1], x)

Line(rows, x, T, key) ==
  Interpolate(DeduplicateByLoad(Points(RowsForResourceModel(rows, key), key, T)), x)

\* A plausible slip: a falling line goes on below zero.
Unclamped(rows, x, T, key) == Line(rows, x, T, key)

EstimateResource(rows, x, T, key) == Max({0, Line(rows, x, T, key)})

\* A plausible slip: the row under test is among those it is predicted from.
AllRows(rows, i) == rows

Train(rows, i) == Restrict(rows, DOMAIN rows \ {i})

\* validateHoldout: the short rows, each with what the others say of it
Holdout(rows, key) ==
  LET tests == { i \in DOMAIN rows : Cardinality(DOMAIN rows) >= 3 /\ rows[i].period < 0 } IN
  [i \in tests |->
     [true |-> rows[i][key] * Unit,
      predicted |-> EstimateResource(Train(rows, i), rows[i].load, rows[i].period, key)]]

\* The rows of the table that BuildReport looks at; with none, the request is refused. They
\* are also of the workload type that is asked for: RunExperiment derives it from the
\* instrument (usecase.go:71-75), so the two agree or the request finds no rows.
Subset(rows) == RestrictValues(rows, LAMBDA r : r.instrument = Instrument)

BuildReport(rows, x, T) ==
  LET subset == Subset(rows)
  IN IF DOMAIN subset = {} THEN "no rows"
     ELSE [estimate |-> [key \in Keys |-> EstimateResource(subset, x, T, key)],
           holdout |-> [key \in Keys |-> Holdout(subset, key)]]

-----------------------------------------------------------------------------
(* Properties *)

\* The middle of a bag of numbers, without sorting: half of them are not above the lower
\* value and more than half not above the upper one.
IsMiddle(m, bag) ==
  LET AtMost(v) == Cardinality({ i \in DOMAIN bag : bag[i] <= v })
      values == { bag[i] : i \in DOMAIN bag }
      lower == Min({ v \in values : 2 * AtMost(v) >= Cardinality(DOMAIN bag) })
      upper == Min({ v \in values : 2 * AtMost(v) > Cardinality(DOMAIN bag) })
  IN 2 * m = lower + upper

\* The answer to GET /api/estimate
Estimate(rows, x, T, key) == BuildReport(rows, x, T).estimate[key]

\* The loads a and b are measured, and none between them is.
Adjacent(a, b, loads) ==
  {a, b} \subseteq loads /\ a < b /\ loads \cap ((a + 1)..(b - 1)) = {}

\* Every answer is what the method says it is, whatever the order of the rows: at a measured
\* load the middle of its figures, brought to the retention asked; elsewhere on the line
\* through the figures of the two measured loads around it, or of the two nearest when there
\* are none on one side; at one measured load only, its figure; never below zero. The search
\* for the segment, its ends, and the median of an even number are where this goes wrong
\* (interpolate, deduplicateByLoad, median).
EstimateIsReference ==
  DOMAIN Subset(table) # {} => \A key \in Keys, T \in Horizons :
    LET points == Points(RowsForResourceModel(Subset(table), key), key, T)
        loads == LoadsOf(points)
        At(l, v) == IsMiddle(v, AtLoad(points, l))
        point == [l \in loads |-> Median(AtLoad(points, l))]
    IN /\ \A l \in loads : At(l, point[l])
       /\ \A x \in Loads : LET e == Estimate(table, x, T, key) IN
            /\ x \in loads => At(x, e)
            /\ loads = {} => e = 0
            /\ \A l \in loads : loads = {l} => e = point[l]
            /\ \A a, b \in loads :
                 /\ Adjacent(a, b, loads)
                 /\ x < a => a = Min(loads)
                 /\ x > b => b = Max(loads)
                 => e * (b - a) = Max({0, point[a] * (b - x) + point[b] * (x - a)})

\* Keeping data 32 times as long costs the same factor at every load, and the factor is
\* between 32^0.6 and 32^1.4 however odd the measured growth is (estimateAlphaByRetention):
\* an outlier of one load neither freezes nor explodes the disk of the others.
GrowthIsBounded ==
  DOMAIN Subset(table) # {} => \A T \in Horizons : T + 1 \in Horizons =>
    LET now == [x \in Loads |-> Estimate(table, x, T, "disk")]
        later == [x \in Loads |-> Estimate(table, x, T + 1, "disk")]
        factors == { later[x] \div now[x] : x \in { y \in Loads : now[y] > 0 } }
    IN \A f \in factors : f \in 2^3..2^7 /\ \A x \in Loads : later[x] = f * now[x]

\* A row changes only the answers it has to do with. The row of another stack changes none;
\* a calibration run of a day changes no cpu estimate, which the short runs alone make; a
\* short run at a load outside of two measured ones that are adjacent changes no cpu estimate
\* between them. So it does not matter when, or whether, such a row is saved.
OnlyNeighboursMatter ==
  \A i \in DOMAIN table :
    LET r == table[i]
        others == Train(table, i)
        loads == LoadsOf(Measured(RowsForResourceModel(Subset(others), "cpu"), "cpu"))
        Unrelated(x) ==
          \E a, b \in loads : Adjacent(a, b, loads) /\ x \in a..b /\ r.load \notin a..b
    IN \A x \in Loads, T \in Horizons :
         /\ r.instrument # Instrument => BuildReport(table, x, T) = BuildReport(others, x, T)
         /\ DOMAIN Subset(others) # {} /\ (r.period >= 0 \/ Unrelated(x))
              => Estimate(table, x, T, "cpu") = Estimate(others, x, T, "cpu")

\* What the validation says of the last row is what a request for its load and its period
\* was answered before the row was there: the error it reports is that of a real forecast,
\* and the row under test does not help to predict itself (validateHoldout).
HoldoutIsForecast ==
  table # << >> =>
    LET r == Last(table)
        before == Front(table)
    IN (r.instrument = Instrument /\ r.period < 0 /\ Cardinality(DOMAIN Subset(before)) >= 2) =>
         \A key \in Keys :
           BuildReport(table, r.load, r.period).holdout[key][Len(table)] =
             [true |-> r[key] * Unit, predicted |-> Estimate(before, r.load, r.period, key)]
=============================================================================
