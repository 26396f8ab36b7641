----------------------------- MODULE Reckoning ------------------------------
(***************************************************************************)
(* One question to the tax algorithms of TaxRules and its answer, beside   *)
(* what each algorithm should compute.                                     *)
(***************************************************************************)
EXTENDS TaxRules

VARIABLES ask, answer

Asks ==
  [of : {"PAYGW"}, gross : Pays, period : DOMAIN Denominators]
    \cup [of : {"GST"}, lines : Sales]
    \cup [of : {"BAS"}, end : PeriodEnds, rule : Rules]

MayAnswer ==
  CASE ask.of = "PAYGW" -> Withheld(ask.gross, ask.period)
    [] ask.of = "GST" -> {SumGst(ask.lines)}
    [] ask.of = "BAS" -> {DueDate(ask.end, ask.rule)}

ReckoningInit == ask \in Asks /\ answer = <<>>

Calculate ==
  /\ answer = <<>>
  /\ \E a \in MayAnswer : answer' = <<a>>
  /\ UNCHANGED ask

ReckoningSpec == ReckoningInit /\ [][Calculate]_<<ask, answer>>
-----------------------------------------------------------------------------
Told(what) == ask.of = what /\ answer # <<>>
Answer == answer[1]

(* What a year's income owes, bracket by bracket, in thousandths of cents. *)
Top(i, annual) ==
  IF i = Len(Brackets) \/ annual < Brackets[i + 1].threshold THEN annual
  ELSE Brackets[i + 1].threshold
Share(i, annual) ==
  IF annual < Brackets[i].threshold THEN 0
  ELSE Brackets[i].rate * (Top(i, annual) - Brackets[i].threshold)
Marginal(annual) ==
  Totals([i \in 1..Len(Brackets) |-> Share(i, annual)], Len(Brackets))[Len(Brackets)]

(* Withholding is the marginal tax of the annualised pay, shared out over  *)
(* the year's pays, within a cent: rounding, flooring and doubles included.*)
WithholdingMarginal ==
  Told("PAYGW") =>
    LET n == Denominators[ask.period] IN
    Magnitude(1000 * n * Answer - Marginal(n * ask.gross)) <= 500 * n + 1000

(* GST is the rate's share of the lines that bear it, within half a cent a *)
(* line, whatever refunds are among them.                                  *)
Bearing(line) == IF line.taxable THEN line.cents ELSE 0
TaxableCents(lines) ==
  Totals([i \in 1..Len(lines) |-> Bearing(lines[i])], Len(lines))[Len(lines)]
GstShare ==
  Told("GST") =>
    2 * Magnitude(1000 * Answer - RateMilli * TaxableCents(ask.lines))
      <= 1000 * Len(ask.lines)

(* A BAS is due on the rule's day of the month so many months on, on the   *)
(* first for a day before it and the last of a shorter month, or on the    *)
(* first open day after.                                                   *)
Months(end, rule) == 12 * end.year + end.month + rule.offset
FirstOf(month) == DayNumber(month \div 12, month % 12, 1)
DueFirstOpenDay ==
  Told("BAS") =>
    \E day \in FirstOf(Months(ask.end, ask.rule))..Answer :
      /\ day < FirstOf(Months(ask.end, ask.rule) + 1)
      /\ \/ day - FirstOf(Months(ask.end, ask.rule)) + 1 = ask.rule.day
         \/ day = FirstOf(Months(ask.end, ask.rule)) /\ ask.rule.day < 1
         \/ day - FirstOf(Months(ask.end, ask.rule)) + 1 < ask.rule.day
              /\ day + 1 = FirstOf(Months(ask.end, ask.rule) + 1)
      /\ ~Closed(Answer) /\ \A between \in day..(Answer - 1) : Closed(between)

RulesMatchReference == WithholdingMarginal /\ GstShare /\ DueFirstOpenDay
=============================================================================
