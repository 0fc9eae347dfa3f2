--------------------------------- MODULE Costs ---------------------------------
(***************************************************************************)
(* The cost plan of a case (CostsService) and the refund a failure mode    *)
(* gives on what was paid (computeRefund of packages/ledger).  Amounts are *)
(* integers in minor units; a plan is a function from item ids.            *)
(***************************************************************************)
EXTENDS Integers, FiniteSetsExt

WorkerPayers == {"worker", "student"}

\* applicableFeeRules: the fees of the route in force; to holds the end, if any.
Applicable(fees, now) ==
    {i \in DOMAIN fees : /\ fees[i].listed
                         /\ fees[i].from <= now
                         /\ \A end \in fees[i].to : end > now}

\* generatePlan: the employer bears the recruitment fee when the job says so.
Plan(fees, now, employerPays) ==
    [items |-> [i \in Applicable(fees, now) |->
         [amount |-> fees[i].amount, currency |-> fees[i].currency, category |-> fees[i].category,
          refundable |-> fees[i].refundable, paid |-> FALSE,
          payer |-> IF fees[i].category = "recruitment_service_fee" /\ employerPays
                    THEN "employer" ELSE fees[i].payer]],
     unresolved |-> {i \in Applicable(fees, now) : fees[i].unresolved \/ fees[i].lawful = "unknown"}]

Sum(items, I) == MapThenSumSet(LAMBDA i : items[i].amount, I)

\* getPlan: the totals of one currency.
Totals(plan, currency) ==
    LET items      == plan.items
        Of(P(_))   == Sum(items, {i \in DOMAIN items : items[i].currency = currency /\ P(i)})
        worker(i)  == items[i].payer \in WorkerPayers
        workerPaid == Of(worker)
        already    == Of(LAMBDA i : worker(i) /\ items[i].paid)
    IN  [workerPaid      |-> workerPaid,
         employerPaid    |-> Of(LAMBDA i : items[i].payer = "employer"),
         institutionPaid |-> Of(LAMBDA i : items[i].payer = "institution"),
         refundable      |-> Of(LAMBDA i : worker(i) /\ items[i].refundable),
         nonRefundable   |-> Of(LAMBDA i : worker(i) /\ ~items[i].refundable),
         contingent      |-> Of(LAMBDA i : i \in plan.unresolved),
         alreadyPaid     |-> already,
         remaining       |-> workerPaid - already]

\* Floor division: the share of an amount in basis points.
Share(amount, points) == (amount * points) \div 10000

\* computeRefund: refused for points out of range, and for a second currency.
Refundable(items, rule, currency) ==
    /\ rule.points \in 0..10000
    /\ \A i \in DOMAIN items : items[i].paid => items[i].currency = currency

Allocation(item, rule) ==
    LET given == item.refundable /\ item.category \notin rule.exclude
        refunded == IF given THEN Share(item.amount, rule.points) ELSE 0
    IN  [refunded |-> refunded, withheld |-> item.amount - refunded]

SumRefunded(of, I) == MapThenSumSet(LAMBDA i : of[i].refunded, I)

Refund(items, rule) ==
    LET paid  == {i \in DOMAIN items : items[i].paid}
        of    == [i \in paid |-> Allocation(items[i], rule)]
        total == SumRefunded(of, paid)
    IN  [allocations |-> of, totalPaid |-> Sum(items, paid), totalRefunded |-> total,
         totalWithheld |-> Sum(items, paid) - total]

-------------------------------------------------------------------------------
(* Amounts as text (Money): a sign, whole units, and a fraction of some    *)
(* digits.                                                                 *)

CurrencyExponent(currency) ==
    CASE currency \in {"KRW", "JPY"}               -> 0
      [] currency \in {"OMR", "BHD", "KWD", "JOD"} -> 3
      [] OTHER                                     -> 2

Literals(whole, places) ==
    UNION {[negative : BOOLEAN, whole : whole, digits : {d}, fraction : 0..10^d - 1] : d \in places}

\* parse, which refuses more digits than the currency has; a refusal is no amount.
Parse(literal, currency) ==
    LET e == CurrencyExponent(currency)
        n == literal.whole * 10^e + literal.fraction * 10^(e - literal.digits)
    IN  IF literal.digits > e THEN {} ELSE {IF literal.negative THEN -n ELSE n}

\* toDecimalString.
ToDecimal(minor, currency) ==
    LET e == CurrencyExponent(currency)
        n == IF minor < 0 THEN -minor ELSE minor
    IN  [negative |-> minor < 0, whole |-> n \div 10^e, digits |-> e, fraction |-> n % 10^e]
===============================================================================
