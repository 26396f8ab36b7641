------------------------------ MODULE TaxRules ------------------------------
(***************************************************************************)
(* The tax algorithms of packages/domain-policy/src/au-tax: withholding    *)
(* from a bracket table (paygw-engine.ts, paygw-rounding.ts), GST of lines *)
(* (gst-utils.ts) and the due date of a BAS (bas-due-date.ts).             *)
(***************************************************************************)
EXTENDS Integers, Sequences, FiniteSets, SequencesExt

CONSTANTS
  Brackets,       \* config.brackets: threshold, base, rate in thousandths
  Pays,           \* gross amounts of a pay, in cents
  Sales,          \* sequences of lines: amount, and whether it bears GST
  RateMilli,      \* the GST rate, in thousandths
  PeriodEnds,     \* last days of BAS periods: year, month 0..11
  Rules,          \* due_day and due_month_offset
  Holidays        \* day numbers for which isHoliday answers true

(* The bases of the table are what the brackets below add up to, and the   *)
(* calendar does not close every day: the code would look for an open one  *)
(* for ever.                                                               *)
RulesAssumption ==
  /\ Brackets \in Seq([threshold : Nat, base : Nat, rate : Nat])
  /\ \A i, j \in 1..Len(Brackets) :
       i < j => Brackets[i].threshold < Brackets[j].threshold
  /\ Brackets # <<>> => Brackets[1].base = 0
  /\ \A i \in 1..(Len(Brackets) - 1) :
       1000 * Brackets[i + 1].base =
         1000 * Brackets[i].base
           + Brackets[i].rate * (Brackets[i + 1].threshold - Brackets[i].threshold)
  /\ Pays \subseteq Int
  /\ Sales \subseteq Seq([cents : Int, taxable : BOOLEAN])
  /\ RateMilli \in Int
  /\ PeriodEnds \subseteq [year : Int, month : 0..11]
  /\ Rules \subseteq [day : Int, offset : Int]
  /\ Holidays \subseteq Int /\ IsFiniteSet(Holidays)

ASSUME RulesAssumption

(* The running totals of f, from none of its values to the first n.        *)
Totals(f, n) == LET s[i \in 0..n] == IF i = 0 THEN 0 ELSE s[i - 1] + f[i] IN s

Denominators == [WEEKLY |-> 52, FORTNIGHTLY |-> 26, MONTHLY |-> 12, ANNUAL |-> 1]

Magnitude(n) == IF n < 0 THEN -n ELSE n
Sign(n) == IF n < 0 THEN -1 ELSE 1

(* roundDivideBigInt: BigInt division truncates towards zero *)
RoundsUp(n, d) ==
  \/ 2 * (Magnitude(n) % d) > d
  \/ 2 * (Magnitude(n) % d) = d /\ (Magnitude(n) \div d) % 2 = 1
RoundDivide(n, d) ==
  Sign(n) * ((Magnitude(n) \div d) + IF RoundsUp(n, d) THEN 1 ELSE 0)

(* PaygwEngine.calculate: the last bracket whose threshold is reached.     *)
(* rate is a double: of a product that is a whole number Math.floor may    *)
(* give the number below.                                                  *)
ReachedBug(annual) == SelectInSeq(Brackets, LAMBDA b : annual >= b.threshold)
Reached(annual) == SelectLastInSeq(Brackets, LAMBDA b : annual >= b.threshold)

Floors(product) ==
  {product \div 1000} \cup
    (IF product % 1000 = 0 /\ product > 0 THEN {product \div 1000 - 1} ELSE {})

AnnualTaxes(annual) ==
  IF Reached(annual) = 0 THEN {0}
  ELSE LET b == Brackets[Reached(annual)] IN
       {b.base + f : f \in Floors((annual - b.threshold) * b.rate)}

Withheld(gross, period) ==
  IF gross <= 0 THEN {0}
  ELSE {RoundDivide(tax, Denominators[period]) :
          tax \in AnnualTaxes(gross * Denominators[period])}

(* calcGstForLine and sumGstForLines: Math.round takes halves upwards *)
LineGstBug(line) == IF line.taxable THEN (line.cents * RateMilli) \div 1000 ELSE 0
LineGst(line) ==
  IF line.taxable THEN (2 * line.cents * RateMilli + 1000) \div 2000 ELSE 0
SumGst(lines) ==
  Totals([i \in 1..Len(lines) |-> LineGst(lines[i])], Len(lines))[Len(lines)]

(* Date.UTC, getUTCDay: days since Thursday 1 January 1970 *)
Leap(y) == y % 4 = 0 /\ (y % 100 # 0 \/ y % 400 = 0)
DaysIn(y, m) ==
  IF m = 1 THEN (IF Leap(y) THEN 29 ELSE 28) ELSE IF m \in {3, 5, 8, 10} THEN 30 ELSE 31
NewYear(y) ==
  365 * (y - 1970) + ((y - 1969) \div 4) - ((y - 1901) \div 100) + ((y - 1601) \div 400)
MonthStart(y, m) ==
  <<0, 31, 59, 90, 120, 151, 181, 212, 243, 273, 304, 334>>[m + 1]
    + IF m > 1 /\ Leap(y) THEN 1 ELSE 0
DayNumber(y, m, d) == NewYear(y) + MonthStart(y, m) + d - 1
Closed(n) == (n + 4) % 7 \in {0, 6} \/ n \in Holidays

(* computeBasDueDate *)
ClampedBug(day, y, m) == day
Clamped(day, y, m) ==
  IF day > DaysIn(y, m) THEN DaysIn(y, m) ELSE IF day < 1 THEN 1 ELSE day

Nominal(end, rule) ==
  LET m == end.month + rule.offset
      y == end.year + (m \div 12)
  IN DayNumber(y, m % 12, Clamped(rule.day, y, m % 12))

NextOpen[n \in Int] == IF Closed(n) THEN NextOpen[n + 1] ELSE n
DueDate(end, rule) == NextOpen[Nominal(end, rule)]
=============================================================================
