--------------------------- MODULE PayoutRequests ---------------------------
(* The withdrawal ledger of one advisor: what the paid bookings have earned,  *)
(* the payout requests against it and the administrators' decisions           *)
(* (payout_service, models/payout_request).                                   *)
(*                                                                            *)
(* The balance is summed and the request inserted without a lock, and a       *)
(* decision is checked on an unlocked read, so both may be out of date when   *)
(* they are written.  Earnings come and go as BookingPayment describes.       *)
EXTENDS Naturals, FiniteSetsExt

CONSTANTS
    Earnings,     \* paid bookings of the advisor
    Worth,        \* the advisor's part of each, in steps of the smallest request
    Payouts,      \* payout requests that may be made
    NoPayout,     \* the row of a request that has none yet
    PayoutCalls   \* requests that may be in progress at once

ASSUME WorthAssumption  == Worth \in Nat \ {0}
ASSUME PayoutAssumption == NoPayout \notin Payouts /\ IsFiniteSet(Payouts) /\ IsFiniteSet(Earnings)

VARIABLES
    earning,   \* the transactions rows
    payout,    \* the payout_requests rows
    errand,    \* what each request in progress has read
    everPaid,  \* history: the earnings that were ever paid for
    raced,     \* history: payouts inserted beside another, after the balance was read
    overruled  \* history: payouts whose decision a second administrator has overwritten

payoutVars == <<earning, payout, errand, everPaid, raced, overruled>>

-----------------------------------------------------------------------------
Total == Worth * Cardinality(Earnings)

PayoutStatus == {"pending", "completed", "rejected"}
Decisions    == {"completed", "rejected"}

\* "void" stands for every status but succeeded: unpaid, failed or refunded.
Earning == [status : {"void", "succeeded"}, transferred : BOOLEAN]
Payout  == [status : PayoutStatus \cup {"absent"}, amount : 0 .. Total]

\* beside: a payout was inserted since the balance was read; for a decision, the payout
\* was read as pending.
Errand == [op : {"idle", "request"} \cup Decisions, payout : Payouts \cup {NoPayout},
           amount : 0 .. Total, beside : BOOLEAN]

NoErrand == [op |-> "idle", payout |-> NoPayout, amount |-> 0, beside |-> FALSE]

PayoutTypeOK ==
    /\ earning \in [Earnings -> Earning]
    /\ payout \in [Payouts -> Payout]
    /\ errand \in [PayoutCalls -> Errand]
    /\ everPaid \subseteq Earnings
    /\ raced \subseteq Payouts /\ overruled \subseteq Payouts

PayoutInit ==
    /\ earning = [e \in Earnings |-> [status |-> "void", transferred |-> FALSE]]
    /\ payout = [x \in Payouts |-> [status |-> "absent", amount |-> 0]]
    /\ errand = [c \in PayoutCalls |-> NoErrand]
    /\ everPaid = {} /\ raced = {} /\ overruled = {}

-----------------------------------------------------------------------------
SumOf(rows) == MapThenSumSet(LAMBDA x : payout[x].amount, rows)

\* A pending request reserves its amount just like a completed one.
Reserving == {x \in Payouts : payout[x].status \in {"pending", "completed"}}

\* get_available_balance.  A transfer by Stripe Connect takes nothing off it.
Earned    == Worth * Cardinality({e \in Earnings : earning[e].status = "succeeded"})
Available == IF Earned >= SumOf(Reserving) THEN Earned - SumOf(Reserving) ELSE 0

\* create_request, up to the check of the balance; preview_payout makes the same check.
RequestPayout(c, amount) ==
    /\ errand[c] = NoErrand
    /\ amount > 0 /\ amount <= Available
    /\ errand' = [errand EXCEPT ![c] = [NoErrand EXCEPT !.op = "request", !.amount = amount]]
    /\ UNCHANGED <<earning, payout, everPaid, raced, overruled>>

InsertPayout(c, x) ==
    /\ errand[c].op = "request"
    /\ payout[x].status = "absent"
    /\ payout' = [payout EXCEPT ![x] = [status |-> "pending", amount |-> errand[c].amount]]
    /\ raced' = IF errand[c].beside THEN raced \cup {x} ELSE raced
    /\ errand' = [d \in PayoutCalls |->
                    CASE d = c -> NoErrand
                      [] d # c /\ errand[d].op = "request" -> [errand[d] EXCEPT !.beside = TRUE]
                      [] OTHER -> errand[d]]
    /\ UNCHANGED <<earning, everPaid, overruled>>

\* Mutation: the status is not asked.
MayDecideAlways(x) == payout[x].status # "absent"

\* _assert_pending
MayDecide(x) == payout[x].status = "pending"

\* review_payout, as far as _assert_pending
ReadPayout(c, x, decision) ==
    /\ errand[c] = NoErrand
    /\ MayDecide(x)
    /\ errand' = [errand EXCEPT ![c] = [NoErrand EXCEPT !.op = decision, !.payout = x,
                                        !.beside = payout[x].status = "pending"]]
    /\ UNCHANGED <<earning, payout, everPaid, raced, overruled>>

\* complete and reject
Decide(c) ==
    LET x == errand[c].payout IN
    /\ errand[c].op \in Decisions
    /\ payout' = [payout EXCEPT ![x].status = errand[c].op]
    /\ overruled' = IF errand[c].beside /\ payout[x].status # "pending"
                    THEN overruled \cup {x} ELSE overruled
    /\ errand' = [errand EXCEPT ![c] = NoErrand]
    /\ UNCHANGED <<earning, everPaid, raced>>

PayoutRollBack(c) ==
    /\ errand[c] # NoErrand
    /\ errand' = [errand EXCEPT ![c] = NoErrand]
    /\ UNCHANGED <<earning, payout, everPaid, raced, overruled>>

\* BookingPayment's payment, refund and transfer of one booking.
Earn(e) ==
    /\ e \notin everPaid
    /\ earning' = [earning EXCEPT ![e].status = "succeeded"]
    /\ everPaid' = everPaid \cup {e}
    /\ UNCHANGED <<payout, errand, raced, overruled>>

Refund(e) ==
    /\ earning[e].status = "succeeded"
    /\ earning' = [earning EXCEPT ![e].status = "void"]
    /\ UNCHANGED <<payout, errand, everPaid, raced, overruled>>

Transfer(e) ==
    /\ earning[e].status = "succeeded" /\ ~earning[e].transferred
    /\ earning' = [earning EXCEPT ![e].transferred = TRUE]
    /\ UNCHANGED <<payout, errand, everPaid, raced, overruled>>

PayoutNext ==
    \/ \E c \in PayoutCalls :
         \/ \E amount \in 1 .. Total : RequestPayout(c, amount)
         \/ \E x \in Payouts : InsertPayout(c, x)
         \/ \E x \in Payouts, decision \in Decisions : ReadPayout(c, x, decision)
         \/ Decide(c) \/ PayoutRollBack(c)
    \/ \E e \in Earnings : Earn(e) \/ Refund(e) \/ Transfer(e)

PayoutSpec == PayoutInit /\ [][PayoutNext]_payoutVars

-----------------------------------------------------------------------------
Completed   == {x \in Payouts : payout[x].status = "completed"}
Transferred == Worth * Cardinality({e \in Earnings : earning[e].transferred})

\* What requests hold back or have paid out was once earned, however requests,
\* decisions and refunds interleave.  Left out are the requests that were inserted
\* beside another, and those two administrators have decided differently.
NeverOverdrawn ==
    SumOf(Reserving \ (raced \cup overruled)) <= Worth * Cardinality(everPaid)

\* A decision on a payout is final, unless an administrator who had read it as
\* pending decides after another.
DecisionStands ==
    [][\A x \in Payouts :
          payout[x].status \in Decisions =>
              payout'[x].status = payout[x].status \/ x \in overruled']_payoutVars

\* models/payout_request: requests cover "funds sitting in the platform account",
\* distinct from the transfers of Stripe Connect.  So what was paid out on request and
\* what was transferred were together earned, if nobody raced or overruled anybody.
PaidOnce ==
    raced \cup overruled = {} => SumOf(Completed) + Transferred <= Worth * Cardinality(everPaid)

\* The payouts of an advisor stay within what was earned and as they were decided.
PayoutsSound == []NeverOverdrawn /\ DecisionStands

=============================================================================
