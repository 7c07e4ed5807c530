---------------------------- MODULE FinanceBooks -----------------------------
(* What the screens say about money: the seeker's payments (api/v1/payments), *)
(* the advisor's earnings, and the administrators' finance pages, dashboard   *)
(* and analytics (payment_service, advisor_dashboard_service,                 *)
(* dashboard_service, analytics_service).  Each computes its figures from the *)
(* transactions anew; the actions are what happens to a transaction in        *)
(* BookingPayment, as whole steps, each at an instant of its own.             *)
EXTENDS Integers, SequencesExt, Tables

CONSTANTS
    Payers,       \* seekers
    Payees,       \* advisors
    Price,        \* of a session
    Commission,   \* the platform's percentage
    Withheld,     \* the tax's percentage
    Day,          \* instants in a day
    Month,        \* instants in a month
    ExportLimit,  \* rows of an export
    MaxPayments, MaxPayouts, MaxClock

ASSUME PayersAssumption == IsFiniteSet(Payers)
ASSUME PriceAssumption == Price \in Nat \ {0}
ASSUME RateAssumption == Commission \in Nat /\ Withheld \in Nat /\ Commission + Withheld <= 100
ASSUME CalendarAssumption == Day \in Nat \ {0} /\ Month \in Nat \ {0}
ASSUME LimitAssumption ==
    ExportLimit \in Nat /\ MaxPayments \in Nat /\ MaxPayouts \in Nat /\ MaxClock \in Nat

VARIABLES
    ledger,   \* the transactions rows, oldest first
    paidOut,  \* the completed payout requests, oldest first
    clock

bookVars == <<ledger, paidOut, clock>>

-----------------------------------------------------------------------------
Never == -1
NoNumber == 0

Entry == [seeker : Payers, advisor : Payees, amount : {Price},
          status : {"pending", "succeeded", "failed", "refunded", "partially_refunded"},
          transfer : {"none", "pending", "completed", "cancelled"},
          refunded : 0 .. Price, refundedAt : {Never} \cup 0 .. MaxClock,
          created : 0 .. MaxClock, invoice : Nat]

Payout == [advisor : Payees, amount : 1 .. Price, processed : 0 .. MaxClock]

BooksTypeOK ==
    /\ ledger \in Seq(Entry) /\ Len(ledger) <= MaxPayments
    /\ paidOut \in Seq(Payout) /\ Len(paidOut) <= MaxPayouts
    /\ clock \in 0 .. MaxClock

BooksInit == ledger = <<>> /\ paidOut = <<>> /\ clock = 0

Later == clock < MaxClock /\ clock' = clock + 1

Fee(r) == (r.amount * Commission) \div 100
Tax(r) == (r.amount * Withheld) \div 100
Share(r) == r.amount - Fee(r) - Tax(r)

Total(figure(_), S) == SumOver([i \in S |-> figure(ledger[i])], S)
Amount(r) == r.amount
Refunded(r) == r.refunded

-----------------------------------------------------------------------------
\* What happens to the transactions

Charge(s, a) ==
    /\ Later /\ Len(ledger) < MaxPayments
    /\ ledger' = Append(ledger, [seeker |-> s, advisor |-> a, amount |-> Price,
                                 status |-> "pending", transfer |-> "none", refunded |-> 0,
                                 refundedAt |-> Never, created |-> clock, invoice |-> NoNumber])
    /\ UNCHANGED paidOut

NextNumber == 1 + Max({NoNumber} \cup {ledger[i].invoice : i \in DOMAIN ledger})

\* checkout.session.completed; delivered again after a refund it passes the check as well.
Settle(i) ==
    /\ Later /\ ledger[i].status \notin {"succeeded", "failed"}
    /\ ledger' = [ledger EXCEPT ![i].status = "succeeded", ![i].transfer = "pending",
                                ![i].invoice = NextNumber]
    /\ UNCHANGED paidOut

Lapse(i) ==
    /\ Later /\ ledger[i].status = "pending"
    /\ ledger' = [ledger EXCEPT ![i].status = "failed"]
    /\ UNCHANGED paidOut

Refunding(i, sum) ==
    ledger' = [ledger EXCEPT ![i].status = IF sum >= Price THEN "refunded" ELSE "partially_refunded",
                             ![i].refunded = sum, ![i].refundedAt = clock,
                             ![i].transfer = IF @ = "pending" THEN "cancelled" ELSE @]

\* A refund by an administrator, or by a cancellation
GiveBack(i, sum) ==
    /\ Later
    /\ ledger[i].status \in {"succeeded", "partially_refunded"}
    /\ ledger[i].transfer # "completed"
    /\ ledger[i].refunded + sum <= Price
    /\ Refunding(i, ledger[i].refunded + sum)
    /\ UNCHANGED paidOut

\* charge.refunded, with what Stripe has refunded in all; events come in order here.
HearOfRefund(i, sum) ==
    /\ Later
    /\ ledger[i].invoice # NoNumber /\ ledger[i].refunded <= sum
    /\ ledger[i].status \in {"refunded", "partially_refunded"} => ledger[i].refunded < sum
    /\ Refunding(i, sum)
    /\ UNCHANGED paidOut

PassOn(i) ==
    /\ Later /\ ledger[i].status = "succeeded" /\ ledger[i].transfer = "pending"
    /\ ledger' = [ledger EXCEPT ![i].transfer = "completed"]
    /\ UNCHANGED paidOut

-----------------------------------------------------------------------------
\* The advisor's money

display_status(r) ==
    CASE r.status = "succeeded" -> "paid"
      [] r.status = "pending"   -> "pending"
      [] r.status \in {"refunded", "partially_refunded"} -> "refunded"
      [] OTHER -> "failed"

\* list_for_advisor_stmt
ForAdvisor(a) == {i \in DOMAIN ledger : ledger[i].advisor = a}

get_advisor_earnings(a) ==
    Total(Share, {i \in ForAdvisor(a) : ledger[i].status = "succeeded"})

\* The dashboard's tile, and its CSV; since = 0 is all time.
total_earned(a, since) ==
    Total(Share, {i \in ForAdvisor(a) : ledger[i].status = "succeeded" /\ ledger[i].created >= since})

PayoutSum(S) == SumOver([k \in S |-> paidOut[k].amount], S)

RequestedBy(a) == PayoutSum({k \in DOMAIN paidOut : paidOut[k].advisor = a})

get_available_balance(a) ==
    Total(Share, {i \in ForAdvisor(a) : ledger[i].status = "succeeded"}) - RequestedBy(a)

\* The earnings tab that administrators see: a row for every transaction, the cards beside it,
\* and the figure in the list of advisors
EarningRow(i) ==
    [paid |-> ledger[i].amount, fee |-> Fee(ledger[i]), earned |-> Share(ledger[i]),
     display |-> display_status(ledger[i])]

build_earning_rows(a) == [i \in ForAdvisor(a) |-> EarningRow(i)]

get_earnings_summary(a) ==
    [earned |-> get_advisor_earnings(a),
     commission |-> Total(Fee, {i \in ForAdvisor(a) : ledger[i].status = "succeeded"}),
     available |-> get_available_balance(a), payouts |-> RequestedBy(a),
     transactions |-> Cardinality(ForAdvisor(a))]

ListedEarnings(a) ==
    Total(Share, {i \in DOMAIN ledger : ledger[i].advisor = a /\ ledger[i].status = "succeeded"})

\* A payout request that is made and completed
PayOut(a, sum) ==
    /\ Later /\ Len(paidOut) < MaxPayouts
    /\ 0 < sum /\ sum <= get_available_balance(a)
    /\ paidOut' = Append(paidOut, [advisor |-> a, amount |-> sum, processed |-> clock])
    /\ UNCHANGED ledger

BooksTick == Later /\ UNCHANGED <<ledger, paidOut>>

BooksNext ==
    \/ \E s \in Payers, a \in Payees : Charge(s, a)
    \/ \E i \in DOMAIN ledger : \/ Settle(i) \/ Lapse(i) \/ PassOn(i)
                                \/ \E sum \in {Price \div 2, Price} : GiveBack(i, sum) \/ HearOfRefund(i, sum)
    \/ \E a \in Payees : PayOut(a, (Price * (100 - Commission - Withheld)) \div 100)
    \/ BooksTick

BooksSpec == BooksInit /\ [][BooksNext]_bookVars

-----------------------------------------------------------------------------
\* The seeker's payments

\* INV-... once the payment has its number, TXN-... before
DisplayId(r) == IF r.invoice # NoNumber THEN <<"INV", r.invoice>> ELSE <<"TXN", NoNumber>>

\* Both dates are days, and the last one is included.
WithinDays(r, from, to) == from * Day <= r.created /\ r.created < (to + 1) * Day

Today == clock \div Day

\* A period of so many days reaches back from today.
PeriodDays(days) == <<IF days > Today THEN 0 ELSE Today - days, Today>>

ForSeeker(s, from, to) ==
    {i \in DOMAIN ledger : ledger[i].seeker = s /\ WithinDays(ledger[i], from, to)}

NewestFirst(S) == Descending(S, [i \in S |-> ledger[i].created])

\* seeker_payment_read
PaymentShown(i) ==
    [id |-> DisplayId(ledger[i]), amount |-> ledger[i].amount,
     display |-> display_status(ledger[i]), refunded |-> ledger[i].refunded]

History(s, from, to) ==
    LET list == NewestFirst(ForSeeker(s, from, to)) IN [k \in DOMAIN list |-> PaymentShown(list[k])]

Exported(s, from, to) ==
    LET list == History(s, from, to) IN
    SubSeq(list, 1, IF Len(list) < ExportLimit THEN Len(list) ELSE ExportLimit)

Paid == {"succeeded", "partially_refunded"}
Returned == {"refunded", "partially_refunded"}
Gross == Paid \cup Returned

seeker_payment_summary(s, from, to) ==
    LET mine == ForSeeker(s, from, to)
        list == NewestFirst(mine) IN
    [paid    |-> Total(Amount, {i \in mine : ledger[i].status \in Paid}),
     pending |-> Total(Amount, {i \in mine : ledger[i].status = "pending"}),
     refund  |-> Total(Refunded, {i \in mine : ledger[i].status \in Returned}),
     last    |-> IF list = <<>> THEN 0 ELSE ledger[list[1]].amount]

\* Only the parties of the booking, and administrators, see a transaction.
MayRead(i, who, role) == role = "admin" \/ who \in {ledger[i].seeker, ledger[i].advisor}

NoInvoice == [number |-> NoNumber]

\* build_invoice, and what resend_receipt sends again
InvoiceFor(i, perspective) ==
    IF ledger[i].status \notin Gross \/ ledger[i].invoice = NoNumber THEN NoInvoice
    ELSE [number |-> ledger[i].invoice, total |-> ledger[i].amount, to |-> ledger[i].seeker,
          from |-> IF perspective = "advisor" THEN ledger[i].advisor ELSE "platform",
          display |-> display_status(ledger[i])]

-----------------------------------------------------------------------------
\* The administrators' pages

platform_payment_summary ==
    LET paid == {i \in DOMAIN ledger : ledger[i].status \in Paid} IN
    [paid |-> Total(Amount, paid), refunded |-> Total(Refunded, DOMAIN ledger),
     commission |-> Total(Fee, paid), tax |-> Total(Tax, paid)]

\* list_all_stmt: both ends are instants, and included.
AllPayments(status, from, to) ==
    NewestFirst({i \in DOMAIN ledger : ledger[i].status \in status
                                       /\ from <= ledger[i].created /\ ledger[i].created <= to})

\* finance_read and advisor_earnings_payment_read
FinanceRow(i) ==
    [id |-> DisplayId(ledger[i]), display |-> display_status(ledger[i]),
     fee |-> Fee(ledger[i]), tax |-> Tax(ledger[i]), net |-> Share(ledger[i]),
     transfer |-> ledger[i].transfer]

revenue_today ==
    Total(Amount, {i \in DOMAIN ledger : ledger[i].status \in Gross
                                         /\ WithinDays(ledger[i], Today, Today)})

revenue_breakdown(since) ==
    LET paid == {i \in DOMAIN ledger : ledger[i].status \in Paid /\ ledger[i].created >= since} IN
    [platform |-> Total(Fee, paid) + Total(Tax, paid), advisors |-> Total(Share, paid)]

-----------------------------------------------------------------------------
\* The finance analytics: a window and the one before it, each without its end

\* _finance_window_totals, of the rows and the payouts that were loaded
WindowTotals(rows, payouts, from, to) ==
    LET gross == Total(Amount, {i \in rows : ledger[i].status \in Gross
                                             /\ from <= ledger[i].created /\ ledger[i].created < to})
        refunds == Total(Refunded, {i \in rows : ledger[i].refundedAt # Never
                                             /\ from <= ledger[i].refundedAt
                                             /\ ledger[i].refundedAt < to})
    IN [gross |-> gross, refunds |-> refunds, net |-> gross - refunds,
        payout |-> PayoutSum({k \in payouts : from <= paidOut[k].processed /\ paidOut[k].processed < to})]

\* Mutation: what was charged before both windows and refunded in one of them is not loaded.
LoadedOnce(since) == {i \in DOMAIN ledger : ledger[i].created >= since}

\* The rows of both windows, and older ones that were refunded in one of them
Loaded(since) ==
    {i \in DOMAIN ledger : ledger[i].created >= since}
    \cup {i \in DOMAIN ledger : ledger[i].refundedAt # Never /\ ledger[i].refundedAt >= since
                               /\ ledger[i].created < since}

ByMonth(at(_), figure(_), S) ==
    [m \in 0 .. MaxClock \div Month |-> Total(figure, {i \in S : at(ledger[i]) \div Month = m})]

get_finance_analytics(days) ==
    LET since == clock - days
        before == clock - 2 * days
        rows == Loaded(before)
        payouts == {k \in DOMAIN paidOut : paidOut[k].processed >= before} IN
    [now  |-> WindowTotals(rows, payouts, since, clock),
     then |-> WindowTotals(rows, payouts, before, since),
     revenueTrend |-> ByMonth(LAMBDA r : r.created, Amount,
                         {i \in rows : ledger[i].status \in Gross /\ ledger[i].created >= since}),
     refundTrend |-> ByMonth(LAMBDA r : r.refundedAt, Refunded,
                         {i \in rows : ledger[i].refundedAt # Never /\ ledger[i].refundedAt >= since})]

\* _change_pct
ChangePct(now, then) ==
    IF then = 0 THEN (IF now > 0 THEN 100 ELSE 0) ELSE (100 * (now - then)) \div then

-----------------------------------------------------------------------------
\* Properties

AllTime == <<0, MaxClock>>
ShownSum(list, display) ==
    SumOver([k \in DOMAIN list |-> list[k].amount], {k \in DOMAIN list : list[k].display \in display})

\* What the seekers have paid adds up to what the platform has; and so do the refunds, but
\* for a payment whose completion was delivered again after its refund.
SeekersAddUp ==
    LET summary == [s \in Payers |-> seeker_payment_summary(s, 0, MaxClock)]
        again == {i \in DOMAIN ledger : ledger[i].status = "succeeded" /\ ledger[i].refunded > 0} IN
    /\ SumOver([s \in Payers |-> summary[s].paid], Payers) = platform_payment_summary.paid
    /\ SumOver([s \in Payers |-> summary[s].refund], Payers) + Total(Refunded, again)
         = platform_payment_summary.refunded

\* The cards over a period are explained by the history that is listed for it.
CardsExplained ==
    \A s \in Payers, days \in {0, 1} :
        LET period == PeriodDays(days)
            card == seeker_payment_summary(s, period[1], period[2])
            list == History(s, period[1], period[2]) IN
        /\ card.pending = ShownSum(list, {"pending"})
        /\ card.paid = ShownSum(list, {"paid"})
                         + SumOver([k \in DOMAIN list |-> list[k].amount],
                               {k \in DOMAIN list : list[k].display = "refunded"
                                                    /\ list[k].refunded < list[k].amount})
        /\ list # <<>> => card.last = list[1].amount
        /\ IsPrefix(Exported(s, period[1], period[2]), list)
        /\ card.refund = SumOver([k \in DOMAIN list |-> list[k].refunded],
                                {k \in DOMAIN list : list[k].display = "refunded"})

\* The advisor's earnings page, dashboard and balance and the administrators' pages know of the
\* same earnings, and the rows that are shown as paid explain them.
AdvisorsAgree ==
    \A a \in Payees :
        LET cards == get_earnings_summary(a)
            rows == build_earning_rows(a)
            paid == {i \in DOMAIN rows : rows[i].display = "paid"} IN
        /\ get_advisor_earnings(a) = total_earned(a, 0) /\ cards.earned = ListedEarnings(a)
        /\ cards.earned = cards.available + cards.payouts
        /\ cards.earned = SumOver([i \in DOMAIN rows |-> rows[i].earned], paid)
        /\ cards.commission = SumOver([i \in DOMAIN rows |-> rows[i].fee], paid)
        /\ cards.transactions = Cardinality(DOMAIN rows)

\* Commission, tax and the advisors' shares are all of what is paid.
SharesAddUp ==
    LET parts == revenue_breakdown(0) IN
    parts.platform + parts.advisors = platform_payment_summary.paid

\* Two windows side by side count everything that happened in both, and nothing twice;
\* their trends add up to their totals.
WindowsMeet ==
    \A days \in 1 .. 3 :
        LET view == get_finance_analytics(days)
            whole == WindowTotals(DOMAIN ledger, DOMAIN paidOut, clock - 2 * days, clock) IN
        /\ \A figure \in {"gross", "refunds", "net", "payout"} :
              view.now[figure] + view.then[figure] = whole[figure]
        /\ SumOver(view.revenueTrend, DOMAIN view.revenueTrend) = view.now.gross
        /\ SumOver(view.refundTrend, DOMAIN view.refundTrend) = view.now.refunds

\* No two payments show one invoice, and what was ever paid has one.
InvoicesTold ==
    /\ \A i, j \in DOMAIN ledger :
          InvoiceFor(i, "seeker") = InvoiceFor(j, "admin") /\ i # j => InvoiceFor(i, "seeker") = NoInvoice
    /\ \A i \in DOMAIN ledger :
          display_status(ledger[i]) \in {"paid", "refunded"} <=> InvoiceFor(i, "seeker") # NoInvoice

\* models/transaction.py and the screens over it: whatever events and refunds come in, the
\* seekers' cards, the advisors' earnings and the administrators' figures tell one story.
BooksAgree ==
    SeekersAddUp /\ CardsExplained /\ AdvisorsAgree /\ SharesAddUp /\ WindowsMeet /\ InvoicesTold

=============================================================================
