-------------------------- MODULE FinanceBooksProofs --------------------------
(* What the screens say about money agrees, for any number of payments,       *)
(* people, prices, rates and calendars.                                       *)
EXTENDS FinanceBooks, FiniteSums, SequenceTheorems

-----------------------------------------------------------------------------
(* The rows                                                                   *)

\* What status, refund, invoice and dates of a transaction say of one another
RowFits(r, now) ==
    /\ r.status \in {"pending", "failed"} => r.refunded = 0 /\ r.invoice = NoNumber
    /\ r.status \notin {"pending", "failed"} => r.invoice # NoNumber
    /\ r.status = "refunded" => r.refunded = Price
    /\ r.status = "partially_refunded" => r.refunded < Price
    /\ r.created < now /\ r.refundedAt < now

NumbersApart ==
    \A i, j \in DOMAIN ledger : i # j /\ ledger[i].invoice # NoNumber => ledger[i].invoice # ledger[j].invoice

BooksInv ==
    /\ BooksTypeOK /\ NumbersApart
    /\ \A i \in DOMAIN ledger : RowFits(ledger[i], clock)
    /\ \A k \in DOMAIN paidOut : paidOut[k].processed < clock

LEMMA BooksInitInv == BooksInit => BooksInv
BY LimitAssumption DEF BooksInit, BooksInv, BooksTypeOK, NumbersApart

LEMMA BooksAre ==
    ASSUME BooksInv
    PROVE  /\ DOMAIN ledger = 1 .. Len(ledger) /\ Len(ledger) \in Nat
           /\ \A i \in DOMAIN ledger : ledger[i] \in Entry /\ RowFits(ledger[i], clock)
           /\ DOMAIN paidOut = 1 .. Len(paidOut) /\ Len(paidOut) \in Nat
           /\ \A k \in DOMAIN paidOut : paidOut[k] \in Payout /\ paidOut[k].processed < clock
           /\ clock \in Nat /\ clock \in 0 .. MaxClock
           /\ IsFiniteSet(DOMAIN ledger) /\ IsFiniteSet(DOMAIN paidOut)
<1>1. ledger \in Seq(Entry) /\ paidOut \in Seq(Payout) /\ clock \in 0 .. MaxClock
  BY DEF BooksInv, BooksTypeOK
<1>2. DOMAIN ledger = 1 .. Len(ledger) /\ Len(ledger) \in Nat /\ \A i \in DOMAIN ledger : ledger[i] \in Entry
  BY <1>1
<1>3. DOMAIN paidOut = 1 .. Len(paidOut) /\ Len(paidOut) \in Nat /\ \A k \in DOMAIN paidOut : paidOut[k] \in Payout
  BY <1>1
<1>4. IsFiniteSet(1 .. Len(ledger)) /\ IsFiniteSet(1 .. Len(paidOut))
  BY <1>2, <1>3, FS_Interval
<1>5. clock \in Nat
  BY <1>1, LimitAssumption
<1> QED BY <1>1, <1>2, <1>3, <1>4, <1>5 DEF BooksInv

\* One row changes, at an instant of its own.
LEMMA EntryChanges ==
    ASSUME BooksInv, Later, UNCHANGED paidOut, NEW i \in DOMAIN ledger, NEW r \in Entry,
           ledger' = [ledger EXCEPT ![i] = r], RowFits(r, clock'),
           \/ r.invoice = ledger[i].invoice
           \/ \A j \in DOMAIN ledger : ledger[j].invoice # r.invoice
    PROVE  BooksInv'
<1>1. clock' \in 0 .. MaxClock /\ clock' = clock + 1
  BY BooksAre, LimitAssumption DEF Later
<1>2. DOMAIN ledger' = DOMAIN ledger /\ \A j \in DOMAIN ledger : ledger'[j] = IF j = i THEN r ELSE ledger[j]
  OBVIOUS
<1>3. ledger' \in Seq(Entry) /\ Len(ledger') = Len(ledger)
  BY DEF BooksInv, BooksTypeOK
<1>4. BooksTypeOK'
  BY <1>1, <1>3 DEF BooksInv, BooksTypeOK
<1>5. NumbersApart'
  <2>1. ASSUME NEW j \in DOMAIN ledger, NEW k \in DOMAIN ledger, j # k, ledger'[j].invoice # NoNumber
        PROVE  ledger'[j].invoice # ledger'[k].invoice
    BY <1>2, <2>1 DEF BooksInv, NumbersApart
  <2> QED BY <1>2, <2>1 DEF NumbersApart
<1>6. ASSUME NEW j \in DOMAIN ledger' PROVE RowFits(ledger'[j], clock')
  <2>1. CASE j = i
    BY <1>2, <2>1
  <2>2. CASE j # i
    <3>1. ledger'[j] = ledger[j] /\ RowFits(ledger[j], clock) /\ ledger[j] \in Entry
      BY <1>2, <1>6, <2>2, BooksAre
    <3>2. PICK x \in Entry : x = ledger[j] /\ RowFits(x, clock)
      BY <3>1
    <3>3. x.created \in Int /\ x.refundedAt \in Int /\ clock \in Nat
      BY BooksAre DEF Entry, Never
    <3>4. RowFits(x, clock')
      BY <1>1, <3>2, <3>3 DEF RowFits
    <3> QED BY <3>1, <3>2, <3>4
  <2> QED BY <2>1, <2>2
<1>7. \A k \in DOMAIN paidOut' : paidOut'[k].processed < clock'
  <2>1. \A k \in DOMAIN paidOut : paidOut[k].processed \in Int /\ paidOut[k].processed < clock
    BY BooksAre DEF Payout
  <2> QED BY <1>1, <2>1, BooksAre
<1> QED BY <1>4, <1>5, <1>6, <1>7 DEF BooksInv

LEMMA NumberIs ==
    ASSUME BooksInv
    PROVE  NextNumber \in Nat \ {NoNumber} /\ \A j \in DOMAIN ledger : ledger[j].invoice # NextNumber
<1> DEFINE given == {NoNumber} \cup {ledger[j].invoice : j \in DOMAIN ledger}
           good == {s \in SUBSET DOMAIN ledger :
                      \E x \in given : \A y \in {NoNumber} \cup {ledger[j].invoice : j \in s} : x >= y}
<1>1. \A y \in given : y \in Nat
  BY BooksAre DEF Entry, NoNumber
<1>2. {} \in good
  BY DEF NoNumber
<1>3. ASSUME NEW s \in SUBSET DOMAIN ledger, s # {}, \A j \in s : s \ {j} \in good PROVE s \in good
  <2>1. PICK j \in s : TRUE
    BY <1>3
  <2>2. PICK x \in given : \A y \in {NoNumber} \cup {ledger[k].invoice : k \in s \ {j}} : x >= y
    BY <1>3
  <2>3. PICK z \in given : z = ledger[j].invoice
    OBVIOUS
  <2>4. PICK m \in given : m >= x /\ m >= z
    <3>1. x \in Nat /\ z \in Nat
      BY <1>1
    <3>2. CASE x >= z
      <4>1. x >= x
        BY <3>1
      <4> QED BY <3>2, <4>1
    <3>3. CASE z >= x
      <4>1. z >= z
        BY <3>1
      <4> QED BY <3>3, <4>1
    <3> QED BY <3>1, <3>2, <3>3
  <2>5. \A y \in {NoNumber} \cup {ledger[k].invoice : k \in s} :
           y = z \/ y \in {NoNumber} \cup {ledger[k].invoice : k \in s \ {j}}
    BY <2>3
  <2>6. \A y \in {NoNumber} \cup {ledger[k].invoice : k \in s} : y \in given
    OBVIOUS
  <2> HIDE DEF given
  <2>7. \A y \in {NoNumber} \cup {ledger[k].invoice : k \in s} : m >= y
    BY <1>1, <2>2, <2>4, <2>5, <2>6
  <2> QED BY <2>7
<1>4. DOMAIN ledger \in good
  <2> HIDE DEF good
  <2> QED BY <1>2, <1>3, BooksAre, SubsetInduction
<1>5. \E x \in given : \A y \in given : x >= y
  BY <1>4
<1>6. Max(given) \in given /\ \A y \in given : Max(given) >= y
  <2> HIDE DEF given
  <2> QED BY <1>5 DEF Max
<1>7. NextNumber = 1 + Max(given)
  BY DEF NextNumber
<1>8. \A j \in DOMAIN ledger : ledger[j].invoice \in given
  OBVIOUS
<1> HIDE DEF given
<1> QED BY <1>1, <1>6, <1>7, <1>8 DEF NoNumber

LEMMA ChargeInv ==
    ASSUME BooksInv, NEW s \in Payers, NEW a \in Payees, Charge(s, a) PROVE BooksInv'
<1>1. PICK r : r = [seeker |-> s, advisor |-> a, amount |-> Price, status |-> "pending", transfer |-> "none",
                    refunded |-> 0, refundedAt |-> Never, created |-> clock, invoice |-> NoNumber]
  OBVIOUS
<1>2. /\ Later /\ Len(ledger) < MaxPayments /\ ledger' = Append(ledger, r) /\ paidOut' = paidOut
  BY <1>1 DEF Charge
<1>3. clock' \in 0 .. MaxClock /\ clock' = clock + 1 /\ clock \in 0 .. MaxClock
  BY <1>2, BooksAre, LimitAssumption DEF Later
<1>4. r \in Entry
  BY <1>1, <1>3, PriceAssumption DEF Entry, Never, NoNumber
<1>5. PICK n \in Nat : n = Len(ledger) /\ DOMAIN ledger = 1 .. n
  BY BooksAre
<1>6. /\ ledger' \in Seq(Entry) /\ Len(ledger') = n + 1 /\ DOMAIN ledger' = 1 .. n + 1
      /\ ledger'[n + 1] = r /\ \A j \in 1 .. n : ledger'[j] = ledger[j]
  BY <1>2, <1>4, <1>5 DEF BooksInv, BooksTypeOK
<1>7. BooksTypeOK'
  BY <1>2, <1>3, <1>5, <1>6, LimitAssumption DEF BooksInv, BooksTypeOK
<1>8. \A j \in DOMAIN ledger' : j = n + 1 \/ j \in 1 .. n
  BY <1>6
<1>9. NumbersApart'
  BY <1>1, <1>5, <1>6, <1>8 DEF BooksInv, NumbersApart
<1>10. ASSUME NEW j \in DOMAIN ledger' PROVE RowFits(ledger'[j], clock')
  <2>1. CASE j = n + 1
    <3>1. RowFits(r, clock')
      BY <1>1, <1>3, BooksAre DEF RowFits, Never
    <3> QED BY <1>6, <2>1, <3>1
  <2>2. CASE j \in 1 .. n
    <3>1. ledger'[j] = ledger[j] /\ RowFits(ledger[j], clock) /\ ledger[j] \in Entry
      BY <1>5, <1>6, <2>2, BooksAre
    <3>2. PICK x \in Entry : x = ledger[j] /\ RowFits(x, clock)
      BY <3>1
    <3>3. x.created \in Int /\ x.refundedAt \in Int /\ clock \in Nat
      BY BooksAre DEF Entry, Never
    <3>4. RowFits(x, clock')
      BY <1>3, <3>2, <3>3 DEF RowFits
    <3> QED BY <3>1, <3>2, <3>4
  <2> QED BY <1>8, <2>1, <2>2
<1>11. \A k \in DOMAIN paidOut' : paidOut'[k].processed < clock'
  <2>1. \A k \in DOMAIN paidOut : paidOut[k].processed \in Int /\ paidOut[k].processed < clock
    BY BooksAre DEF Payout
  <2> QED BY <1>2, <1>3, <2>1, BooksAre
<1> QED BY <1>7, <1>9, <1>10, <1>11 DEF BooksInv

LEMMA SettleInv == ASSUME BooksInv, NEW i \in DOMAIN ledger, Settle(i) PROVE BooksInv'
<1>1. PICK x \in Entry : x = ledger[i] /\ RowFits(x, clock)
  BY BooksAre
<1>2. PICK n \in Nat \ {NoNumber} : n = NextNumber /\ \A j \in DOMAIN ledger : ledger[j].invoice # n
  BY NumberIs
<1>3. PICK r : r = [x EXCEPT !.status = "succeeded", !.transfer = "pending", !.invoice = n]
  OBVIOUS
<1>4. Later /\ UNCHANGED paidOut /\ ledger' = [ledger EXCEPT ![i] = r]
  BY <1>1, <1>2, <1>3 DEF Settle
<1>5. r \in Entry
  BY <1>2, <1>3 DEF Entry
<1>6. RowFits(r, clock')
  <2>1. x.created \in Int /\ x.refundedAt \in Int /\ clock \in Nat /\ clock' = clock + 1
    BY <1>4, BooksAre DEF Entry, Never, Later
  <2> QED BY <1>1, <1>2, <1>3, <2>1 DEF RowFits, Entry
<1>7. \A j \in DOMAIN ledger : ledger[j].invoice # r.invoice
  BY <1>2, <1>3 DEF Entry
<1> QED BY <1>4, <1>5, <1>6, <1>7, EntryChanges

LEMMA LapseInv == ASSUME BooksInv, NEW i \in DOMAIN ledger, Lapse(i) PROVE BooksInv'
<1>1. PICK x \in Entry : x = ledger[i] /\ RowFits(x, clock)
  BY BooksAre
<1>2. PICK r : r = [x EXCEPT !.status = "failed"]
  OBVIOUS
<1>3. Later /\ UNCHANGED paidOut /\ ledger' = [ledger EXCEPT ![i] = r] /\ x.status = "pending"
  BY <1>1, <1>2 DEF Lapse
<1>4. r \in Entry /\ r.invoice = x.invoice
  BY <1>2 DEF Entry
<1>5. RowFits(r, clock')
  <2>1. x.created \in Int /\ x.refundedAt \in Int /\ clock \in Nat /\ clock' = clock + 1
    BY <1>3, BooksAre DEF Entry, Never, Later
  <2> QED BY <1>1, <1>2, <1>3, <2>1 DEF RowFits, Entry
<1> QED BY <1>1, <1>3, <1>4, <1>5, EntryChanges

LEMMA PassOnInv == ASSUME BooksInv, NEW i \in DOMAIN ledger, PassOn(i) PROVE BooksInv'
<1>1. PICK x \in Entry : x = ledger[i] /\ RowFits(x, clock)
  BY BooksAre
<1>2. PICK r : r = [x EXCEPT !.transfer = "completed"]
  OBVIOUS
<1>3. Later /\ UNCHANGED paidOut /\ ledger' = [ledger EXCEPT ![i] = r]
  BY <1>1, <1>2 DEF PassOn
<1>4. r \in Entry /\ r.invoice = x.invoice
  BY <1>2 DEF Entry
<1>5. RowFits(r, clock')
  <2>1. x.created \in Int /\ x.refundedAt \in Int /\ clock \in Nat /\ clock' = clock + 1
    BY <1>3, BooksAre DEF Entry, Never, Later
  <2> QED BY <1>1, <1>2, <2>1 DEF RowFits, Entry
<1> QED BY <1>1, <1>3, <1>4, <1>5, EntryChanges

LEMMA RefundingInv ==
    ASSUME BooksInv, NEW i \in DOMAIN ledger, NEW sum \in 0 .. Price, Refunding(i, sum), Later, UNCHANGED paidOut,
           ledger[i].invoice # NoNumber
    PROVE  BooksInv'
<1>1. PICK x \in Entry : x = ledger[i] /\ RowFits(x, clock)
  BY BooksAre
<1>2. PICK status, transfer : /\ status = IF sum >= Price THEN "refunded" ELSE "partially_refunded"
                              /\ transfer = IF x.transfer = "pending" THEN "cancelled" ELSE x.transfer
  OBVIOUS
<1>3. PICK r : r = [x EXCEPT !.status = status, !.refunded = sum, !.refundedAt = clock, !.transfer = transfer]
  OBVIOUS
<1>4. ledger' = [ledger EXCEPT ![i] = r]
  BY <1>1, <1>2, <1>3 DEF Refunding
<1>5. r \in Entry /\ r.invoice = x.invoice
  <2>1. transfer \in {"none", "pending", "completed", "cancelled"}
    BY <1>2 DEF Entry
  <2>2. clock \in 0 .. MaxClock
    BY BooksAre
  <2> QED BY <1>2, <1>3, <2>1, <2>2 DEF Entry
<1>6. RowFits(r, clock')
  <2>1. x.created \in Int /\ clock \in Nat /\ clock' = clock + 1 /\ x.invoice # NoNumber /\ x.created < clock
    BY <1>1, BooksAre DEF Entry, Later, RowFits
  <2>2. r.status = status /\ r.refunded = sum /\ r.refundedAt = clock /\ r.created = x.created
    BY <1>3 DEF Entry
  <2>3. Price \in Nat /\ sum \in Nat /\ sum <= Price
    BY PriceAssumption
  <2> QED BY <1>2, <1>5, <2>1, <2>2, <2>3 DEF RowFits
<1> QED BY <1>1, <1>4, <1>5, <1>6, EntryChanges

LEMMA RefundsInv ==
    ASSUME BooksInv, NEW i \in DOMAIN ledger, NEW sum \in {Price \div 2, Price}, GiveBack(i, sum) \/ HearOfRefund(i, sum)
    PROVE  BooksInv'
<1>1. PICK x \in Entry : x = ledger[i] /\ RowFits(x, clock)
  BY BooksAre
<1>2. sum \in 0 .. Price /\ x.refunded \in 0 .. Price /\ Price \in Nat
  BY PriceAssumption DEF Entry
<1>3. CASE GiveBack(i, sum)
  <2>1. /\ Later /\ x.status \in {"succeeded", "partially_refunded"} /\ x.refunded + sum <= Price
        /\ Refunding(i, x.refunded + sum) /\ UNCHANGED paidOut
    BY <1>1, <1>3 DEF GiveBack
  <2>2. x.refunded + sum \in 0 .. Price /\ x.invoice # NoNumber
    BY <1>1, <1>2, <2>1 DEF RowFits
  <2> QED BY <1>1, <2>1, <2>2, RefundingInv
<1>4. CASE HearOfRefund(i, sum)
  <2>1. Later /\ x.invoice # NoNumber /\ Refunding(i, sum) /\ UNCHANGED paidOut
    BY <1>1, <1>4 DEF HearOfRefund
  <2> QED BY <1>1, <1>2, <2>1, RefundingInv
<1> QED BY <1>3, <1>4

\* A share of a price is at most the price.
LEMMA PartOfPrice ==
    ASSUME NEW p \in Nat, NEW k \in 0 .. 100
    PROVE  (p * k) \div 100 \in 0 .. p
<1>1. p * (100 - k) \in Nat /\ p * k \in Nat
  OBVIOUS
<1>2. p * k + p * (100 - k) = 100 * p
  OBVIOUS
<1>3. PICK n \in Nat : n = p * k /\ n <= 100 * p
  BY <1>1, <1>2
<1>4. n \div 100 \in Nat /\ n \div 100 <= p
  BY <1>3
<1> QED BY <1>3, <1>4

LEMMA PayOutInv ==
    ASSUME BooksInv, NEW a \in Payees, PayOut(a, (Price * (100 - Commission - Withheld)) \div 100)
    PROVE  BooksInv'
<1>1. PICK sum : sum = (Price * (100 - Commission - Withheld)) \div 100
  OBVIOUS
<1>2. 100 - Commission - Withheld \in 0 .. 100 /\ Price \in Nat
  BY RateAssumption, PriceAssumption
<1>3. sum \in 0 .. Price
  BY <1>1, <1>2, PartOfPrice
<1>4. PICK p : p = [advisor |-> a, amount |-> sum, processed |-> clock]
  OBVIOUS
<1>5. Later /\ Len(paidOut) < MaxPayouts /\ 0 < sum /\ paidOut' = Append(paidOut, p) /\ ledger' = ledger
  BY <1>1, <1>4 DEF PayOut
<1>6. clock' \in 0 .. MaxClock /\ clock' = clock + 1 /\ clock \in 0 .. MaxClock /\ clock \in Nat
  BY <1>5, BooksAre, LimitAssumption DEF Later
<1>7. p \in Payout
  <2>1. sum \in 1 .. Price
    BY <1>3, <1>5, <1>2
  <2> QED BY <1>4, <1>6, <2>1 DEF Payout
<1>8. PICK n \in Nat : n = Len(paidOut) /\ DOMAIN paidOut = 1 .. n
  BY BooksAre
<1>9. /\ paidOut' \in Seq(Payout) /\ Len(paidOut') = n + 1 /\ DOMAIN paidOut' = 1 .. n + 1
      /\ paidOut'[n + 1] = p /\ \A k \in 1 .. n : paidOut'[k] = paidOut[k]
  BY <1>5, <1>7, <1>8 DEF BooksInv, BooksTypeOK
<1>10. BooksTypeOK'
  BY <1>5, <1>6, <1>8, <1>9, LimitAssumption DEF BooksInv, BooksTypeOK
<1>11. NumbersApart'
  BY <1>5 DEF BooksInv, NumbersApart
<1>12. ASSUME NEW j \in DOMAIN ledger' PROVE RowFits(ledger'[j], clock')
  <2>1. PICK x \in Entry : x = ledger[j] /\ RowFits(x, clock)
    BY <1>5, <1>12, BooksAre
  <2>2. x.created \in Int /\ x.refundedAt \in Int
    BY <1>6 DEF Entry, Never
  <2>3. RowFits(x, clock')
    BY <1>6, <2>1, <2>2 DEF RowFits
  <2> QED BY <1>5, <2>1, <2>3
<1>13. \A k \in DOMAIN paidOut' : paidOut'[k].processed < clock'
  <2>1. \A k \in DOMAIN paidOut : paidOut[k].processed \in Int /\ paidOut[k].processed < clock
    BY BooksAre DEF Payout
  <2>2. p.processed = clock
    BY <1>4
  <2>3. \A k \in DOMAIN paidOut' : k = n + 1 \/ k \in 1 .. n
    BY <1>9
  <2> QED BY <1>6, <1>8, <1>9, <2>1, <2>2, <2>3
<1> QED BY <1>10, <1>11, <1>12, <1>13 DEF BooksInv

\* Time passes.
LEMMA TickInv == ASSUME BooksInv, Later, UNCHANGED <<ledger, paidOut>> PROVE BooksInv'
<1>1. clock' \in 0 .. MaxClock /\ clock' = clock + 1 /\ clock \in Nat
  BY BooksAre, LimitAssumption DEF Later
<1>2. BooksTypeOK' /\ NumbersApart'
  BY <1>1 DEF BooksInv, BooksTypeOK, NumbersApart
<1>3. ASSUME NEW j \in DOMAIN ledger' PROVE RowFits(ledger'[j], clock')
  <2>1. PICK x \in Entry : x = ledger[j] /\ RowFits(x, clock)
    BY <1>3, BooksAre
  <2>2. x.created \in Int /\ x.refundedAt \in Int
    BY <1>1 DEF Entry, Never
  <2>3. RowFits(x, clock')
    BY <1>1, <2>1, <2>2 DEF RowFits
  <2> QED BY <2>1, <2>3
<1>4. \A k \in DOMAIN paidOut' : paidOut'[k].processed < clock'
  <2>1. \A k \in DOMAIN paidOut : paidOut[k].processed \in Int /\ paidOut[k].processed < clock
    BY BooksAre DEF Payout
  <2> QED BY <1>1, <2>1
<1> QED BY <1>2, <1>3, <1>4 DEF BooksInv

LEMMA BooksNextInv == ASSUME BooksInv, [BooksNext]_bookVars PROVE BooksInv'
<1>1. CASE \E s \in Payers, a \in Payees : Charge(s, a)
  BY <1>1, ChargeInv
<1>2. ASSUME NEW i \in DOMAIN ledger, Settle(i) PROVE BooksInv'
  BY <1>2, SettleInv
<1>3. ASSUME NEW i \in DOMAIN ledger, Lapse(i) PROVE BooksInv'
  BY <1>3, LapseInv
<1>4. ASSUME NEW i \in DOMAIN ledger, PassOn(i) PROVE BooksInv'
  BY <1>4, PassOnInv
<1>5. ASSUME NEW i \in DOMAIN ledger, NEW sum \in {Price \div 2, Price}, GiveBack(i, sum) \/ HearOfRefund(i, sum)
      PROVE  BooksInv'
  BY <1>5, RefundsInv
<1>6. ASSUME NEW a \in Payees, PayOut(a, (Price * (100 - Commission - Withheld)) \div 100) PROVE BooksInv'
  BY <1>6, PayOutInv
<1>7. CASE BooksTick
  BY <1>7, TickInv DEF BooksTick
<1>8. CASE UNCHANGED bookVars
  BY <1>8 DEF bookVars, BooksInv, BooksTypeOK, NumbersApart, RowFits
<1> QED BY <1>1, <1>2, <1>3, <1>4, <1>5, <1>6, <1>7, <1>8 DEF BooksNext

-----------------------------------------------------------------------------
(* Figures                                                                    *)

\* What each row adds to a figure
Amounts == [i \in DOMAIN ledger |-> Amount(ledger[i])]
Refunds == [i \in DOMAIN ledger |-> Refunded(ledger[i])]
Fees == [i \in DOMAIN ledger |-> Fee(ledger[i])]
Taxes == [i \in DOMAIN ledger |-> Tax(ledger[i])]
Shares == [i \in DOMAIN ledger |-> Share(ledger[i])]
PaidOuts == [k \in DOMAIN paidOut |-> paidOut[k].amount]

LEMMA FiguresAre ==
    ASSUME BooksInv
    PROVE  /\ \A i \in DOMAIN ledger :
                 /\ Amounts[i] \in Int /\ Refunds[i] \in Int /\ Fees[i] \in Int /\ Taxes[i] \in Int
                 /\ Shares[i] \in Int /\ Amounts[i] = (Fees[i] + Taxes[i]) + Shares[i]
                 /\ Amounts[i] = ledger[i].amount /\ Refunds[i] = ledger[i].refunded
           /\ \A k \in DOMAIN paidOut : PaidOuts[k] \in Int /\ PaidOuts[k] = paidOut[k].amount
<1>1. ASSUME NEW i \in DOMAIN ledger
      PROVE  /\ Amounts[i] \in Int /\ Refunds[i] \in Int /\ Fees[i] \in Int /\ Taxes[i] \in Int
             /\ Shares[i] \in Int /\ Amounts[i] = (Fees[i] + Taxes[i]) + Shares[i]
             /\ Amounts[i] = ledger[i].amount /\ Refunds[i] = ledger[i].refunded
  <2>1. PICK x \in Entry : x = ledger[i]
    BY BooksAre
  <2>2. x.amount \in Int /\ x.refunded \in Int /\ Commission \in Int /\ Withheld \in Int
    BY PriceAssumption, RateAssumption DEF Entry
  <2>3. Fee(x) \in Int /\ Tax(x) \in Int
    <3>1. x.amount * Commission \in Int /\ x.amount * Withheld \in Int
      BY <2>2
    <3> QED BY <3>1 DEF Fee, Tax
  <2>4. Share(x) \in Int /\ x.amount = (Fee(x) + Tax(x)) + Share(x)
    BY <2>2, <2>3 DEF Share
  <2>5. /\ Amounts[i] = x.amount /\ Refunds[i] = x.refunded /\ Fees[i] = Fee(x) /\ Taxes[i] = Tax(x)
        /\ Shares[i] = Share(x)
    BY <2>1 DEF Amounts, Refunds, Fees, Taxes, Shares, Amount, Refunded
  <2> QED BY <2>1, <2>2, <2>3, <2>4, <2>5
<1>2. \A k \in DOMAIN paidOut : PaidOuts[k] \in Int /\ PaidOuts[k] = paidOut[k].amount
  BY BooksAre, PriceAssumption DEF PaidOuts, Payout
<1> QED BY <1>1, <1>2

\* What the pages add up
LEMMA TotalsAre ==
    ASSUME BooksInv, NEW S \in SUBSET DOMAIN ledger
    PROVE  /\ IsFiniteSet(S)
           /\ Total(Amount, S) = TotalOf(Amounts, S) /\ Total(Refunded, S) = TotalOf(Refunds, S)
           /\ Total(Fee, S) = TotalOf(Fees, S) /\ Total(Tax, S) = TotalOf(Taxes, S)
           /\ Total(Share, S) = TotalOf(Shares, S)
           /\ TotalOf(Amounts, S) \in Int /\ TotalOf(Refunds, S) \in Int /\ TotalOf(Fees, S) \in Int
           /\ TotalOf(Taxes, S) \in Int /\ TotalOf(Shares, S) \in Int
<1>1. IsFiniteSet(S)
  BY BooksAre, FS_Subset
<1>2. ASSUME NEW w, NEW v, \A i \in S : w[i] = v[i] PROVE SumOver(w, S) = TotalOf(v, S)
  BY <1>1, <1>2, SumOverIs, TotalAlike
<1>3. Total(Amount, S) = TotalOf(Amounts, S)
  <2>1. PICK w : w = [i \in S |-> Amount(ledger[i])]
    OBVIOUS
  <2> QED BY <1>2, <2>1 DEF Total, Amounts
<1>4. Total(Refunded, S) = TotalOf(Refunds, S)
  <2>1. PICK w : w = [i \in S |-> Refunded(ledger[i])]
    OBVIOUS
  <2> QED BY <1>2, <2>1 DEF Total, Refunds
<1>5. Total(Fee, S) = TotalOf(Fees, S)
  <2>1. PICK w : w = [i \in S |-> Fee(ledger[i])]
    OBVIOUS
  <2> QED BY <1>2, <2>1 DEF Total, Fees
<1>6. Total(Tax, S) = TotalOf(Taxes, S)
  <2>1. PICK w : w = [i \in S |-> Tax(ledger[i])]
    OBVIOUS
  <2> QED BY <1>2, <2>1 DEF Total, Taxes
<1>7. Total(Share, S) = TotalOf(Shares, S)
  <2>1. PICK w : w = [i \in S |-> Share(ledger[i])]
    OBVIOUS
  <2> QED BY <1>2, <2>1 DEF Total, Shares
<1>8. ASSUME NEW w, \A i \in DOMAIN ledger : w[i] \in Int PROVE TotalOf(w, S) \in Int
  BY <1>1, <1>8, TotalType
<1> QED BY <1>1, <1>3, <1>4, <1>5, <1>6, <1>7, <1>8, FiguresAre

LEMMA PayoutsAre ==
    ASSUME BooksInv, NEW S \in SUBSET DOMAIN paidOut
    PROVE  /\ IsFiniteSet(S) /\ PayoutSum(S) = TotalOf(PaidOuts, S) /\ TotalOf(PaidOuts, S) \in Int
<1>1. IsFiniteSet(S)
  BY BooksAre, FS_Subset
<1>2. PICK w : w = [k \in S |-> paidOut[k].amount]
  OBVIOUS
<1>3. \A k \in S : w[k] = PaidOuts[k]
  BY <1>2 DEF PaidOuts
<1>4. PayoutSum(S) = SumOver(w, S)
  BY <1>2 DEF PayoutSum
<1>5. PayoutSum(S) = TotalOf(PaidOuts, S)
  BY <1>1, <1>3, <1>4, SumOverIs, TotalAlike
<1>6. TotalOf(PaidOuts, S) \in Int
  BY <1>1, FiguresAre, TotalType
<1> QED BY <1>1, <1>5, <1>6

\* Nothing adds up to nothing.
LEMMA TotalOfNothing ==
    ASSUME NEW S, IsFiniteSet(S), NEW w, \A x \in S : w[x] = 0
    PROVE  TotalOf(w, S) = 0
<1>1. \A x \in S : w[x] \in Int /\ w[x] = w[x] + w[x]
  OBVIOUS
<1>2. TotalOf(w, S) = TotalOf(w, S) + TotalOf(w, S)
  BY <1>1, TotalAdd
<1>3. PICK t \in Int : t = TotalOf(w, S)
  BY <1>1, TotalType
<1>4. \A n \in Int : n = n + n => n = 0
  OBVIOUS
<1>5. t = t + t
  BY <1>2, <1>3
<1>6. t = 0
  BY <1>4, <1>5
<1> QED BY <1>3, <1>6

-----------------------------------------------------------------------------
(* The screens                                                                *)

\* Every transaction is within all time.
LEMMA AllOfTime ==
    ASSUME BooksInv, NEW s \in Payers
    PROVE  ForSeeker(s, 0, MaxClock) = {i \in DOMAIN ledger : ledger[i].seeker = s}
<1>1. ASSUME NEW i \in DOMAIN ledger PROVE WithinDays(ledger[i], 0, MaxClock)
  <2>1. PICK n \in Nat : n = ledger[i].created /\ n <= MaxClock
    BY BooksAre DEF Entry
  <2>2. MaxClock \in Nat /\ Day \in Nat /\ Day >= 1 /\ 0 * Day = 0
    BY LimitAssumption, CalendarAssumption
  <2>3. (MaxClock + 1) * Day >= MaxClock + 1
    <3>1. (MaxClock + 1) * (Day - 1) \in Nat
      BY <2>2
    <3>2. (MaxClock + 1) * Day = (MaxClock + 1) * (Day - 1) + (MaxClock + 1)
      BY <2>2
    <3> QED BY <2>2, <3>1, <3>2
  <2>4. (MaxClock + 1) * Day \in Int
    BY <2>2
  <2>5. 0 <= n /\ n < (MaxClock + 1) * Day
    BY <2>1, <2>2, <2>3, <2>4
  <2> QED BY <2>1, <2>2, <2>5 DEF WithinDays
<1> QED BY <1>1 DEF ForSeeker

\* What the seekers have of some rows is what there is.
LEMMA BySeeker ==
    ASSUME BooksInv, NEW S \in SUBSET DOMAIN ledger, NEW w, \A i \in S : w[i] \in Int,
           NEW t, \A s \in Payers : t[s] = TotalOf(w, {i \in S : ledger[i].seeker = s})
    PROVE  SumOver(t, Payers) = TotalOf(w, S)
<1>1. IsFiniteSet(S) /\ IsFiniteSet(Payers)
  BY TotalsAre, PayersAssumption
<1>2. PICK c : c = [i \in S |-> ledger[i].seeker]
  OBVIOUS
<1>3. \A i \in S : c[i] \in Payers /\ c[i] = ledger[i].seeker
  BY <1>2, BooksAre DEF Entry
<1>4. PICK part : part = [s \in Payers |-> {i \in S : ledger[i].seeker = s}]
  OBVIOUS
<1>5. \A s \in Payers : part[s] = {i \in S : c[i] = s} /\ t[s] = TotalOf(w, part[s])
  BY <1>3, <1>4
<1>6. TotalOf(t, Payers) = TotalOf(w, S)
  <2>1. \A i \in S : c[i] \in Payers
    BY <1>3
  <2> QED BY <1>1, <1>5, <2>1, TotalParts
<1> QED BY <1>1, <1>6, SumOverIs

LEMMA SeekersAddUpHolds == BooksInv => SeekersAddUp
<1> SUFFICES ASSUME BooksInv PROVE SeekersAddUp
  OBVIOUS
<1>1. PICK paid, returned, again :
        /\ paid = {i \in DOMAIN ledger : ledger[i].status \in Paid}
        /\ returned = {i \in DOMAIN ledger : ledger[i].status \in Returned}
        /\ again = {i \in DOMAIN ledger : ledger[i].status = "succeeded" /\ ledger[i].refunded > 0}
  OBVIOUS
<1>2. paid \in SUBSET DOMAIN ledger /\ returned \in SUBSET DOMAIN ledger /\ again \in SUBSET DOMAIN ledger
  BY <1>1
<1>3. PICK summary : summary = [s \in Payers |-> seeker_payment_summary(s, 0, MaxClock)]
  OBVIOUS
<1>4. PICK cards, refunds : /\ cards = [s \in Payers |-> summary[s].paid]
                            /\ refunds = [s \in Payers |-> summary[s].refund]
  OBVIOUS
<1>5. ASSUME NEW s \in Payers
      PROVE  /\ cards[s] = TotalOf(Amounts, {i \in paid : ledger[i].seeker = s})
             /\ refunds[s] = TotalOf(Refunds, {i \in returned : ledger[i].seeker = s})
  <2>1. PICK P, R : /\ P = {i \in paid : ledger[i].seeker = s} /\ P \in SUBSET DOMAIN ledger
                    /\ R = {i \in returned : ledger[i].seeker = s} /\ R \in SUBSET DOMAIN ledger
    BY <1>2
  <2>2. PICK mine : mine = ForSeeker(s, 0, MaxClock)
    OBVIOUS
  <2>3. mine = {i \in DOMAIN ledger : ledger[i].seeker = s}
    BY <2>2, AllOfTime
  <2>4. P = {i \in mine : ledger[i].status \in Paid} /\ R = {i \in mine : ledger[i].status \in Returned}
    BY <1>1, <2>1, <2>3
  <2>5. cards[s] = Total(Amount, {i \in mine : ledger[i].status \in Paid})
        /\ refunds[s] = Total(Refunded, {i \in mine : ledger[i].status \in Returned})
    BY <1>3, <1>4, <2>2 DEF seeker_payment_summary
  <2>6. cards[s] = TotalOf(Amounts, P) /\ refunds[s] = TotalOf(Refunds, R)
    BY <2>1, <2>4, <2>5, TotalsAre
  <2> QED BY <2>1, <2>6
<1>6. SumOver(cards, Payers) = TotalOf(Amounts, paid)
  BY <1>2, <1>5, BySeeker, FiguresAre
<1>7. SumOver(refunds, Payers) = TotalOf(Refunds, returned)
  BY <1>2, <1>5, BySeeker, FiguresAre
<1>8. platform_payment_summary.paid = TotalOf(Amounts, paid)
  BY <1>1, <1>2, TotalsAre DEF platform_payment_summary
<1>9. PICK all : all = DOMAIN ledger
  OBVIOUS
<1>10. platform_payment_summary.refunded = TotalOf(Refunds, all)
  <2>1. all \in SUBSET DOMAIN ledger
    BY <1>9
  <2>2. platform_payment_summary.refunded = Total(Refunded, all)
    BY <1>9 DEF platform_payment_summary
  <2> QED BY <2>1, <2>2, TotalsAre
<1>11. TotalOf(Refunds, all) = TotalOf(Refunds, returned) + TotalOf(Refunds, again)
  <2>1. PICK some, rest : some = returned \cup again /\ rest = all \ some
    OBVIOUS
  <2>2. some \in SUBSET DOMAIN ledger /\ rest \in SUBSET DOMAIN ledger /\ some \cap rest = {} /\ all = some \cup rest
    BY <1>2, <1>9, <2>1
  <2>3. returned \cap again = {}
    BY <1>1 DEF Returned
  <2>4. \A i \in rest : Refunds[i] = 0
    <3>1. ASSUME NEW i \in rest PROVE Refunds[i] = 0
      <4>1. PICK x \in Entry : x = ledger[i] /\ RowFits(x, clock) /\ Refunds[i] = x.refunded
        BY <2>2, BooksAre, FiguresAre
      <4>2. x.status \notin Returned /\ ~ (x.status = "succeeded" /\ x.refunded > 0)
        BY <1>1, <2>1, <2>2, <4>1
      <4>3. x.refunded \in Nat /\ ~ (x.refunded > 0) => x.refunded = 0
        OBVIOUS
      <4>4. x.refunded \in Nat
        BY <4>1, PriceAssumption DEF Entry
      <4>5. x.status \in {"pending", "failed", "succeeded"}
        BY <4>2 DEF Entry, Returned
      <4> QED BY <4>1, <4>2, <4>3, <4>4, <4>5 DEF RowFits
    <3> QED BY <3>1
  <2>5. IsFiniteSet(some) /\ IsFiniteSet(rest) /\ IsFiniteSet(returned) /\ IsFiniteSet(again)
    BY <1>2, <2>2, TotalsAre
  <2>6. TotalOf(Refunds, rest) = 0
    BY <2>4, <2>5, TotalOfNothing
  <2>7. TotalOf(Refunds, some \cup rest) = TotalOf(Refunds, some) + TotalOf(Refunds, rest)
    BY <2>2, <2>5, TotalUnion, FiguresAre
  <2>8. TotalOf(Refunds, returned \cup again) = TotalOf(Refunds, returned) + TotalOf(Refunds, again)
    BY <1>2, <2>3, <2>5, TotalUnion, FiguresAre
  <2>9. TotalOf(Refunds, some) \in Int
    BY <2>2, TotalsAre
  <2>10. PICK m \in Int : m = TotalOf(Refunds, some)
    BY <2>9
  <2>11. m + 0 = m
    OBVIOUS
  <2>12. TotalOf(Refunds, all) = m
    BY <2>2, <2>6, <2>7, <2>10, <2>11
  <2>13. m = TotalOf(Refunds, returned) + TotalOf(Refunds, again)
    BY <2>1, <2>8, <2>10
  <2> QED BY <2>12, <2>13
<1>12. Total(Refunded, again) = TotalOf(Refunds, again)
  BY <1>2, TotalsAre
<1>13. SumOver(refunds, Payers) + Total(Refunded, again) = platform_payment_summary.refunded
  BY <1>7, <1>10, <1>11, <1>12
<1>14. SumOver(cards, Payers) = platform_payment_summary.paid
  BY <1>6, <1>8
<1> QED BY <1>1, <1>3, <1>4, <1>13, <1>14 DEF SeekersAddUp

\* Commission, tax and shares
LEMMA SharesAddUpHolds == BooksInv => SharesAddUp
<1> SUFFICES ASSUME BooksInv PROVE SharesAddUp
  OBVIOUS
<1>1. PICK paid : paid = {i \in DOMAIN ledger : ledger[i].status \in Paid} /\ paid \in SUBSET DOMAIN ledger
  OBVIOUS
<1>2. paid = {i \in DOMAIN ledger : ledger[i].status \in Paid /\ ledger[i].created >= 0}
  <2>1. \A i \in DOMAIN ledger : ledger[i].created >= 0
    BY BooksAre, LimitAssumption DEF Entry
  <2> QED BY <1>1, <2>1
<1>3. PICK both : both = [i \in DOMAIN ledger |-> Fees[i] + Taxes[i]]
  OBVIOUS
<1>4. \A i \in paid : both[i] \in Int /\ both[i] = Fees[i] + Taxes[i] /\ Amounts[i] = both[i] + Shares[i]
  BY <1>1, <1>3, FiguresAre
<1>5. \A i \in paid : Fees[i] \in Int /\ Taxes[i] \in Int /\ Shares[i] \in Int
  BY <1>1, FiguresAre
<1>6. IsFiniteSet(paid)
  BY <1>1, TotalsAre
<1>7. TotalOf(Amounts, paid) = TotalOf(both, paid) + TotalOf(Shares, paid)
  BY <1>4, <1>5, <1>6, TotalAdd
<1>8. TotalOf(both, paid) = TotalOf(Fees, paid) + TotalOf(Taxes, paid)
  BY <1>4, <1>5, <1>6, TotalAdd
<1>9. platform_payment_summary.paid = TotalOf(Amounts, paid)
  BY <1>1, TotalsAre DEF platform_payment_summary
<1>10. /\ revenue_breakdown(0).platform = TotalOf(Fees, paid) + TotalOf(Taxes, paid)
       /\ revenue_breakdown(0).advisors = TotalOf(Shares, paid)
  <2>1. /\ revenue_breakdown(0).platform = Total(Fee, paid) + Total(Tax, paid)
        /\ revenue_breakdown(0).advisors = Total(Share, paid)
    BY <1>2 DEF revenue_breakdown
  <2> QED BY <1>1, <2>1, TotalsAre
<1> QED BY <1>7, <1>8, <1>9, <1>10 DEF SharesAddUp

\* What an advisor has earned
LEMMA AdvisorsAgreeHolds == BooksInv => AdvisorsAgree
<1> SUFFICES ASSUME BooksInv, NEW a \in Payees
             PROVE  LET cards == get_earnings_summary(a)
                        rows == build_earning_rows(a)
                        paid == {i \in DOMAIN rows : rows[i].display = "paid"} IN
                    /\ get_advisor_earnings(a) = total_earned(a, 0) /\ cards.earned = ListedEarnings(a)
                    /\ cards.earned = cards.available + cards.payouts
                    /\ cards.earned = SumOver([i \in DOMAIN rows |-> rows[i].earned], paid)
                    /\ cards.commission = SumOver([i \in DOMAIN rows |-> rows[i].fee], paid)
                    /\ cards.transactions = Cardinality(DOMAIN rows)
  BY DEF AdvisorsAgree
<1>1. PICK mine, S : /\ mine = ForAdvisor(a) /\ S = {i \in ForAdvisor(a) : ledger[i].status = "succeeded"}
                     /\ mine \in SUBSET DOMAIN ledger /\ S \in SUBSET DOMAIN ledger /\ S \in SUBSET mine
  <2>1. ForAdvisor(a) \in SUBSET DOMAIN ledger
    BY DEF ForAdvisor
  <2>2. {i \in ForAdvisor(a) : ledger[i].status = "succeeded"} \in SUBSET ForAdvisor(a)
    OBVIOUS
  <2> QED BY <2>1, <2>2
<1>2. PICK earned \in Int : earned = Total(Share, S) /\ earned = TotalOf(Shares, S)
  BY <1>1, TotalsAre
<1>3. PICK fees \in Int : fees = Total(Fee, S) /\ fees = TotalOf(Fees, S)
  BY <1>1, TotalsAre
<1>4. get_advisor_earnings(a) = earned
  BY <1>1, <1>2 DEF get_advisor_earnings
<1>5. total_earned(a, 0) = earned
  <2>1. \A i \in DOMAIN ledger : ledger[i].created >= 0
    BY BooksAre, LimitAssumption DEF Entry
  <2>2. S = {i \in ForAdvisor(a) : ledger[i].status = "succeeded" /\ ledger[i].created >= 0}
    BY <1>1, <2>1 DEF ForAdvisor
  <2> QED BY <1>2, <2>2 DEF total_earned
<1>6. ListedEarnings(a) = earned
  <2>1. S = {i \in DOMAIN ledger : ledger[i].advisor = a /\ ledger[i].status = "succeeded"}
    BY <1>1 DEF ForAdvisor
  <2> QED BY <1>2, <2>1 DEF ListedEarnings
<1>7. PICK asked \in Int : asked = RequestedBy(a)
  <2>1. PICK T : T = {k \in DOMAIN paidOut : paidOut[k].advisor = a} /\ T \in SUBSET DOMAIN paidOut
    OBVIOUS
  <2> QED BY <2>1, PayoutsAre DEF RequestedBy
<1>8. get_available_balance(a) = earned - asked
  BY <1>1, <1>2, <1>7 DEF get_available_balance
<1>9. PICK cards : cards = get_earnings_summary(a)
  OBVIOUS
<1>10. /\ cards.earned = earned /\ cards.commission = fees /\ cards.available = earned - asked
       /\ cards.payouts = asked /\ cards.transactions = Cardinality(mine)
  BY <1>1, <1>3, <1>4, <1>7, <1>8, <1>9 DEF get_earnings_summary
<1>11. PICK rows : rows = build_earning_rows(a)
  OBVIOUS
<1>12. DOMAIN rows = mine /\ \A i \in mine : rows[i] = EarningRow(i)
  BY <1>1, <1>11 DEF build_earning_rows
<1>13. ASSUME NEW i \in mine
       PROVE  /\ rows[i].earned = Shares[i] /\ rows[i].fee = Fees[i]
              /\ rows[i].display = "paid" <=> ledger[i].status = "succeeded"
  <2>1. PICK x \in Entry : x = ledger[i] /\ i \in DOMAIN ledger
    BY <1>1, <1>13, BooksAre
  <2>2. display_status(x) = "paid" <=> x.status = "succeeded"
    BY DEF display_status
  <2>3. rows[i].earned = Share(x) /\ rows[i].fee = Fee(x) /\ rows[i].display = display_status(x)
    BY <1>12, <1>13, <2>1 DEF EarningRow
  <2>4. Shares[i] = Share(x) /\ Fees[i] = Fee(x)
    BY <2>1 DEF Shares, Fees
  <2> QED BY <2>1, <2>2, <2>3, <2>4
<1>14. S = {i \in DOMAIN rows : rows[i].display = "paid"}
  BY <1>1, <1>12, <1>13
<1>15. IsFiniteSet(S)
  BY <1>1, TotalsAre
<1>16. SumOver([i \in DOMAIN rows |-> rows[i].earned], S) = earned
  <2>1. PICK w : w = [i \in DOMAIN rows |-> rows[i].earned]
    OBVIOUS
  <2>2. \A i \in S : w[i] = Shares[i]
    BY <1>1, <1>12, <1>13, <2>1
  <2>3. SumOver(w, S) = TotalOf(w, S) /\ TotalOf(w, S) = TotalOf(Shares, S)
    BY <1>15, <2>2, SumOverIs, TotalAlike
  <2> QED BY <1>2, <2>1, <2>3
<1>17. SumOver([i \in DOMAIN rows |-> rows[i].fee], S) = fees
  <2>1. PICK w : w = [i \in DOMAIN rows |-> rows[i].fee]
    OBVIOUS
  <2>2. \A i \in S : w[i] = Fees[i]
    BY <1>1, <1>12, <1>13, <2>1
  <2>3. SumOver(w, S) = TotalOf(w, S) /\ TotalOf(w, S) = TotalOf(Fees, S)
    BY <1>15, <2>2, SumOverIs, TotalAlike
  <2> QED BY <1>3, <2>1, <2>3
<1>18. earned = (earned - asked) + asked
  BY <1>2, <1>7
<1> QED BY <1>4, <1>5, <1>6, <1>9, <1>10, <1>11, <1>12, <1>14, <1>16, <1>17, <1>18

LEMMA InvoicesToldHolds == BooksInv => InvoicesTold
<1> SUFFICES ASSUME BooksInv PROVE InvoicesTold
  OBVIOUS
<1>1. ASSUME NEW i \in DOMAIN ledger, NEW view
      PROVE  \/ InvoiceFor(i, view) = NoInvoice
             \/ InvoiceFor(i, view).number = ledger[i].invoice /\ ledger[i].invoice # NoNumber
  BY DEF InvoiceFor
<1>2. ASSUME NEW i \in DOMAIN ledger, NEW j \in DOMAIN ledger, i # j, InvoiceFor(i, "seeker") = InvoiceFor(j, "admin")
      PROVE  InvoiceFor(i, "seeker") = NoInvoice
  <2>1. CASE InvoiceFor(i, "seeker") # NoInvoice
    <3>1. InvoiceFor(i, "seeker").number = ledger[i].invoice /\ ledger[i].invoice # NoNumber
      BY <1>1, <2>1
    <3>2. InvoiceFor(j, "admin").number = ledger[j].invoice
      BY <1>1, <1>2, <2>1
    <3>3. ledger[i].invoice = ledger[j].invoice
      BY <1>2, <3>1, <3>2
    <3>4. ledger[i].invoice # ledger[j].invoice
      BY <1>2, <3>1 DEF BooksInv, NumbersApart
    <3> QED BY <3>3, <3>4
  <2> QED BY <2>1
<1>3. ASSUME NEW i \in DOMAIN ledger
      PROVE  display_status(ledger[i]) \in {"paid", "refunded"} <=> InvoiceFor(i, "seeker") # NoInvoice
  <2>1. PICK x \in Entry : x = ledger[i] /\ RowFits(x, clock)
    BY BooksAre
  <2>2. x.status \in {"pending", "succeeded", "failed", "refunded", "partially_refunded"}
    BY DEF Entry
  <2>3. display_status(x) \in {"paid", "refunded"} <=> x.status \in Gross
    BY <2>2 DEF display_status, Gross, Paid, Returned
  <2>4. x.status \in Gross => x.invoice # NoNumber
    BY <2>1 DEF RowFits, Gross, Paid, Returned
  <2>5. x.status \in Gross => InvoiceFor(i, "seeker") # NoInvoice
    <3>1. ASSUME x.status \in Gross PROVE InvoiceFor(i, "seeker").number = x.invoice
      BY <2>1, <2>4, <3>1 DEF InvoiceFor
    <3>2. NoInvoice.number = NoNumber
      BY DEF NoInvoice
    <3> QED BY <2>4, <3>1, <3>2
  <2>6. x.status \notin Gross => InvoiceFor(i, "seeker") = NoInvoice
    BY <2>1 DEF InvoiceFor
  <2> QED BY <2>1, <2>3, <2>5, <2>6
<1> QED BY <1>2, <1>3 DEF InvoicesTold

\* What is listed of some rows adds up to what they do.
LEMMA ListedAddsUp ==
    ASSUME NEW S, IsFiniteSet(S), NEW value, NEW list, GoesDown(S, value, list), NEW T \in SUBSET S,
           NEW K, K = {k \in DOMAIN list : list[k] \in T},
           NEW w, \A x \in T : w[x] \in Int, NEW v, \A k \in K : v[k] = w[list[k]]
    PROVE  SumOver(v, K) = TotalOf(w, T)
<1>1. PICK n \in Nat : n = Len(list) /\ DOMAIN list = 1 .. n /\ list \in Seq(S)
  BY DEF GoesDown
<1>2. IsFiniteSet(T) /\ IsFiniteSet(K)
  <2>1. IsFiniteSet(1 .. n)
    BY <1>1, FS_Interval
  <2>2. K \in SUBSET (1 .. n)
    BY <1>1
  <2> QED BY <2>1, <2>2, FS_Subset
<1>3. \A k \in K : list[k] \in T
  OBVIOUS
<1>4. \A k, l \in K : list[k] = list[l] => k = l
  <2>1. ASSUME NEW k \in K, NEW l \in K, list[k] = list[l] PROVE k = l
    <3>1. k \in 1 .. n /\ l \in 1 .. n
      BY <1>1
    <3>2. ~ (k < l) /\ ~ (l < k)
      BY <1>1, <2>1, <3>1 DEF GoesDown
    <3> QED BY <3>1, <3>2
  <2> QED BY <2>1
<1>5. \A x \in T : \E k \in K : list[k] = x
  BY <1>1 DEF GoesDown
<1>6. TotalOf(v, K) = TotalOf(w, T)
  BY <1>2, <1>3, <1>4, <1>5, TotalRenamed
<1> QED BY <1>2, <1>6, SumOverIs

\* The statuses that the rows show
LEMMA ShownIs ==
    ASSUME BooksInv, NEW i \in DOMAIN ledger
    PROVE  LET r == ledger[i]
               shown == PaymentShown(i) IN
           /\ shown.amount = r.amount /\ shown.refunded = r.refunded /\ shown.display = display_status(r)
           /\ shown.display = "paid" <=> r.status = "succeeded"
           /\ shown.display = "pending" <=> r.status = "pending"
           /\ shown.display = "refunded" <=> r.status \in Returned
           /\ r.status \in Returned => (r.refunded < r.amount <=> r.status = "partially_refunded")
<1>1. PICK x \in Entry : x = ledger[i] /\ RowFits(x, clock)
  BY BooksAre
<1>2. x.status \in {"pending", "succeeded", "failed", "refunded", "partially_refunded"} /\ x.amount = Price
      /\ Price \in Nat
  BY PriceAssumption DEF Entry
<1>3. /\ display_status(x) = "paid" <=> x.status = "succeeded"
      /\ display_status(x) = "pending" <=> x.status = "pending"
      /\ display_status(x) = "refunded" <=> x.status \in Returned
  BY <1>2 DEF display_status, Returned
<1>4. x.status \in Returned => (x.refunded < x.amount <=> x.status = "partially_refunded")
  BY <1>1, <1>2 DEF Returned, RowFits
<1>5. PaymentShown(i).amount = x.amount /\ PaymentShown(i).refunded = x.refunded
      /\ PaymentShown(i).display = display_status(x)
  BY <1>1 DEF PaymentShown
<1> QED BY <1>1, <1>3, <1>4, <1>5

\* The cards of a period, explained by the history of it
CardFits(card, list, exported) ==
    /\ card.pending = ShownSum(list, {"pending"})
    /\ card.paid = ShownSum(list, {"paid"})
                     + SumOver([k \in DOMAIN list |-> list[k].amount],
                           {k \in DOMAIN list : list[k].display = "refunded"
                                                /\ list[k].refunded < list[k].amount})
    /\ list # <<>> => card.last = list[1].amount
    /\ IsPrefix(exported, list)
    /\ card.refund = SumOver([k \in DOMAIN list |-> list[k].refunded],
                            {k \in DOMAIN list : list[k].display = "refunded"})

LEMMA CardsAre ==
    ASSUME BooksInv, NEW s \in Payers, NEW from, NEW to,
           NEW card, card = seeker_payment_summary(s, from, to), NEW list, list = History(s, from, to)
    PROVE  CardFits(card, list, Exported(s, from, to))
<1>1. PICK mine : mine = ForSeeker(s, from, to)
  OBVIOUS
<1>2. mine \in SUBSET DOMAIN ledger /\ IsFiniteSet(mine)
  <2>1. mine \in SUBSET DOMAIN ledger
    BY <1>1 DEF ForSeeker
  <2> QED BY <2>1, TotalsAre
<1>3. PICK value : value = [i \in mine |-> ledger[i].created]
  OBVIOUS
<1>4. PICK order : order = NewestFirst(mine)
  OBVIOUS
<1>5. GoesDown(mine, value, order)
  <2>1. \A i \in mine : value[i] \in Int
    BY <1>2, <1>3, BooksAre DEF Entry
  <2> QED BY <1>2, <1>3, <1>4, <2>1, DescendingIs DEF NewestFirst
<1>6. PICK n \in Nat : n = Len(order) /\ DOMAIN order = 1 .. n
  BY <1>5 DEF GoesDown
<1>7. \A k \in 1 .. n : order[k] \in mine
  BY <1>5, <1>6 DEF GoesDown
<1>8. list = [k \in 1 .. n |-> PaymentShown(order[k])]
  BY <1>1, <1>4, <1>6 DEF History
<1>9. DOMAIN list = 1 .. n /\ Len(list) = n /\ \A k \in 1 .. n : list[k] = PaymentShown(order[k])
  BY <1>8
<1>10. ASSUME NEW k \in 1 .. n
       PROVE  /\ list[k].amount = Amounts[order[k]] /\ list[k].refunded = Refunds[order[k]]
              /\ list[k].display = "paid" <=> ledger[order[k]].status = "succeeded"
              /\ list[k].display = "pending" <=> ledger[order[k]].status = "pending"
              /\ list[k].display = "refunded" <=> ledger[order[k]].status \in Returned
              /\ list[k].display = "refunded" /\ list[k].refunded < list[k].amount
                   <=> ledger[order[k]].status = "partially_refunded"
  <2>1. PICK i \in DOMAIN ledger : i = order[k] /\ i \in mine
    BY <1>2, <1>7
  <2>2. PICK x : x = ledger[i] /\ Amounts[i] = x.amount /\ Refunds[i] = x.refunded
    BY FiguresAre
  <2>3. PICK shown : shown = PaymentShown(i)
    OBVIOUS
  <2>4. /\ shown.amount = x.amount /\ shown.refunded = x.refunded
        /\ shown.display = "paid" <=> x.status = "succeeded"
        /\ shown.display = "pending" <=> x.status = "pending"
        /\ shown.display = "refunded" <=> x.status \in Returned
        /\ x.status \in Returned => (x.refunded < x.amount <=> x.status = "partially_refunded")
    BY <2>2, <2>3, ShownIs
  <2>5. x.status = "partially_refunded" => x.status \in Returned
    BY DEF Returned
  <2>6. list[k] = shown
    BY <1>9, <2>1, <2>3
  <2> QED BY <2>1, <2>2, <2>4, <2>5, <2>6
<1>11. ASSUME NEW T \in SUBSET mine, NEW K, K = {k \in 1 .. n : order[k] \in T},
              NEW w, \A i \in DOMAIN ledger : w[i] \in Int, NEW v, \A k \in 1 .. n : v[k] = w[order[k]]
       PROVE  SumOver(v, K) = TotalOf(w, T)
  <2>1. K = {k \in DOMAIN order : order[k] \in T}
    BY <1>6, <1>11
  <2>2. \A i \in T : w[i] \in Int
    BY <1>2, <1>11
  <2>3. \A k \in K : v[k] = w[order[k]]
    BY <1>11
  <2> QED BY <1>2, <1>5, <2>1, <2>2, <2>3, ListedAddsUp
<1>12. PICK amounts, refunds : /\ amounts = [k \in DOMAIN list |-> list[k].amount]
                               /\ refunds = [k \in DOMAIN list |-> list[k].refunded]
  OBVIOUS
<1>13. \A k \in 1 .. n : amounts[k] = Amounts[order[k]] /\ refunds[k] = Refunds[order[k]]
  BY <1>9, <1>10, <1>12
<1>14. card.pending = ShownSum(list, {"pending"})
  <2>1. PICK T : T = {i \in mine : ledger[i].status = "pending"} /\ T \in SUBSET mine
    OBVIOUS
  <2>2. PICK K : K = {k \in DOMAIN list : list[k].display \in {"pending"}}
    OBVIOUS
  <2>3. K = {k \in 1 .. n : order[k] \in T}
    BY <1>7, <1>9, <1>10, <2>1, <2>2
  <2>4. SumOver(amounts, K) = TotalOf(Amounts, T)
    BY <1>11, <1>13, <2>1, <2>3, FiguresAre
  <2>5. card.pending = Total(Amount, T)
    BY <1>1, <2>1 DEF seeker_payment_summary
  <2>6. Total(Amount, T) = TotalOf(Amounts, T)
    BY <1>2, <2>1, TotalsAre
  <2> QED BY <1>12, <2>2, <2>4, <2>5, <2>6 DEF ShownSum
<1>15. card.refund = SumOver(refunds, {k \in DOMAIN list : list[k].display = "refunded"})
  <2>1. PICK T : T = {i \in mine : ledger[i].status \in Returned} /\ T \in SUBSET mine
    OBVIOUS
  <2>2. PICK K : K = {k \in DOMAIN list : list[k].display = "refunded"}
    OBVIOUS
  <2>3. K = {k \in 1 .. n : order[k] \in T}
    BY <1>7, <1>9, <1>10, <2>1, <2>2
  <2>4. SumOver(refunds, K) = TotalOf(Refunds, T)
    BY <1>11, <1>13, <2>1, <2>3, FiguresAre
  <2>5. card.refund = Total(Refunded, T)
    BY <1>1, <2>1 DEF seeker_payment_summary
  <2>6. Total(Refunded, T) = TotalOf(Refunds, T)
    BY <1>2, <2>1, TotalsAre
  <2> QED BY <2>2, <2>4, <2>5, <2>6
<1>16. card.paid = ShownSum(list, {"paid"})
                     + SumOver(amounts, {k \in DOMAIN list : list[k].display = "refunded"
                                                             /\ list[k].refunded < list[k].amount})
  <2>1. PICK A, B : /\ A = {i \in mine : ledger[i].status = "succeeded"} /\ A \in SUBSET mine
                    /\ B = {i \in mine : ledger[i].status = "partially_refunded"} /\ B \in SUBSET mine
    <3>1. {i \in mine : ledger[i].status = "succeeded"} \in SUBSET mine
      OBVIOUS
    <3>2. {i \in mine : ledger[i].status = "partially_refunded"} \in SUBSET mine
      OBVIOUS
    <3> QED BY <3>1, <3>2
  <2>2. PICK K, L : /\ K = {k \in DOMAIN list : list[k].display \in {"paid"}}
                    /\ L = {k \in DOMAIN list : list[k].display = "refunded" /\ list[k].refunded < list[k].amount}
    OBVIOUS
  <2>3. K = {k \in 1 .. n : order[k] \in A}
    BY <1>7, <1>9, <1>10, <2>1, <2>2
  <2>4. L = {k \in 1 .. n : order[k] \in B}
    BY <1>7, <1>9, <1>10, <2>1, <2>2
  <2>5. SumOver(amounts, K) = TotalOf(Amounts, A) /\ SumOver(amounts, L) = TotalOf(Amounts, B)
    BY <1>11, <1>13, <2>1, <2>3, <2>4, FiguresAre
  <2>6. PICK T : T = A \cup B /\ T \in SUBSET DOMAIN ledger
    BY <1>2, <2>1
  <2>7. T = {i \in mine : ledger[i].status \in Paid}
    BY <2>1, <2>6 DEF Paid
  <2>8. card.paid = Total(Amount, T)
    BY <1>1, <2>7 DEF seeker_payment_summary
  <2>9. Total(Amount, T) = TotalOf(Amounts, T)
    BY <2>6, TotalsAre
  <2>10. IsFiniteSet(A) /\ IsFiniteSet(B) /\ A \cap B = {} /\ \A i \in A \cup B : Amounts[i] \in Int
    BY <1>2, <2>1, FS_Subset, FiguresAre
  <2>11. TotalOf(Amounts, T) = TotalOf(Amounts, A) + TotalOf(Amounts, B)
    BY <2>6, <2>10, TotalUnion
  <2> QED BY <1>12, <2>2, <2>5, <2>8, <2>9, <2>11 DEF ShownSum
<1>17. ASSUME list # <<>> PROVE card.last = list[1].amount
  <2>1. order # <<>> /\ 1 \in 1 .. n
    <3>1. n # 0
      BY <1>8, <1>17
    <3> QED BY <1>6, <3>1
  <2>2. card.last = ledger[order[1]].amount
    BY <1>1, <1>4, <2>1 DEF seeker_payment_summary
  <2>3. Amounts[order[1]] = ledger[order[1]].amount
    BY <1>2, <1>7, <2>1, FiguresAre
  <2> QED BY <1>10, <2>1, <2>2, <2>3
<1>18. IsPrefix(Exported(s, from, to), list)
  <2>1. PICK m : m = IF Len(list) < ExportLimit THEN Len(list) ELSE ExportLimit
    OBVIOUS
  <2>2. m \in 0 .. n
    BY <1>9, <2>1, LimitAssumption
  <2>3. Exported(s, from, to) = SubSeq(list, 1, m)
    BY <2>1 DEF Exported
  <2>4. PICK V : V = {list[k] : k \in 1 .. n}
    OBVIOUS
  <2>5. list \in Seq(V)
    BY <1>8, <2>4
  <2>6. Len(SubSeq(list, 1, m)) = m /\ SubSeq(SubSeq(list, 1, m), 1, m) = SubSeq(list, 1, m)
    BY <1>9, <2>2, <2>5
  <2> QED BY <1>9, <2>2, <2>3, <2>6 DEF IsPrefix
<1> QED BY <1>12, <1>14, <1>15, <1>16, <1>17, <1>18 DEF CardFits

LEMMA CardsExplainedHolds == BooksInv => CardsExplained
<1>1. ASSUME BooksInv, NEW s \in Payers, NEW from, NEW to
      PROVE  CardFits(seeker_payment_summary(s, from, to), History(s, from, to), Exported(s, from, to))
  BY <1>1, CardsAre
<1>2. ASSUME BooksInv, NEW s \in Payers, NEW period
      PROVE  CardFits(seeker_payment_summary(s, period[1], period[2]), History(s, period[1], period[2]),
                      Exported(s, period[1], period[2]))
  BY <1>1, <1>2
<1>3. ASSUME BooksInv, NEW s \in Payers, NEW days \in {0, 1}
      PROVE  CardFits(seeker_payment_summary(s, PeriodDays(days)[1], PeriodDays(days)[2]),
                      History(s, PeriodDays(days)[1], PeriodDays(days)[2]),
                      Exported(s, PeriodDays(days)[1], PeriodDays(days)[2]))
  BY <1>2, <1>3
<1> QED BY <1>3 DEF CardsExplained, CardFits

\* The months that the trends have
LEMMA MonthIs ==
    IsFiniteSet(0 .. MaxClock \div Month) /\ \A n \in 0 .. MaxClock : n \div Month \in 0 .. MaxClock \div Month
<1>1. MaxClock \in Nat /\ Month \in Nat \ {0}
  BY LimitAssumption, CalendarAssumption
<1>2. MaxClock \div Month \in Nat
  BY <1>1
<1>3. \A n \in 0 .. MaxClock : n \in Nat /\ n <= MaxClock
  BY <1>1
<1>4. \A n \in 0 .. MaxClock : n \div Month \in 0 .. MaxClock \div Month
  BY <1>1, <1>3, DivideGrows
<1> QED BY <1>2, <1>4, FS_Interval

LEMMA WindowsAre ==
    ASSUME BooksInv, NEW days \in 1 .. 3,
           NEW view, view = get_finance_analytics(days),
           NEW whole, whole = WindowTotals(DOMAIN ledger, DOMAIN paidOut, clock - 2 * days, clock)
    PROVE  /\ \A figure \in {"gross", "refunds", "net", "payout"} :
                 view.now[figure] + view.then[figure] = whole[figure]
           /\ SumOver(view.revenueTrend, DOMAIN view.revenueTrend) = view.now.gross
           /\ SumOver(view.refundTrend, DOMAIN view.refundTrend) = view.now.refunds
<1>1. PICK a \in Int, b \in Int : a = clock - 2 * days /\ b = clock - days /\ a <= b /\ b <= clock
  BY BooksAre
<1>2. PICK rows, payouts : rows = Loaded(a) /\ payouts = {k \in DOMAIN paidOut : paidOut[k].processed >= a}
  OBVIOUS
<1>3. /\ view.now = WindowTotals(rows, payouts, b, clock) /\ view.then = WindowTotals(rows, payouts, a, b)
      /\ view.revenueTrend = ByMonth(LAMBDA r : r.created, Amount,
                                 {i \in rows : ledger[i].status \in Gross /\ ledger[i].created >= b})
      /\ view.refundTrend = ByMonth(LAMBDA r : r.refundedAt, Refunded,
                                 {i \in rows : ledger[i].refundedAt # Never /\ ledger[i].refundedAt >= b})
  BY <1>1, <1>2 DEF get_finance_analytics
<1>4. /\ \A i \in DOMAIN ledger : ledger[i].created \in 0 .. MaxClock /\ ledger[i].created \in Int
                                  /\ ledger[i].created < clock
      /\ \A i \in DOMAIN ledger : ledger[i].refundedAt \in Int /\ ledger[i].refundedAt < clock
                                  /\ (ledger[i].refundedAt # Never => ledger[i].refundedAt \in 0 .. MaxClock)
      /\ \A k \in DOMAIN paidOut : paidOut[k].processed \in Int /\ paidOut[k].processed < clock
  BY BooksAre DEF Entry, Payout, RowFits, Never
<1>5. /\ rows \in SUBSET DOMAIN ledger
      /\ \A i \in DOMAIN ledger : ledger[i].created >= a => i \in rows
      /\ \A i \in DOMAIN ledger : ledger[i].refundedAt # Never /\ ledger[i].refundedAt >= a => i \in rows
  BY <1>1, <1>2, <1>4 DEF Loaded
<1>6. PICK made, returned : /\ made = {i \in DOMAIN ledger : ledger[i].status \in Gross} /\ made \in SUBSET DOMAIN ledger
                            /\ returned = {i \in DOMAIN ledger : ledger[i].refundedAt # Never}
                            /\ returned \in SUBSET DOMAIN ledger
  <2>1. {i \in DOMAIN ledger : ledger[i].status \in Gross} \in SUBSET DOMAIN ledger
        /\ {i \in DOMAIN ledger : ledger[i].refundedAt # Never} \in SUBSET DOMAIN ledger
    OBVIOUS
  <2> QED BY <2>1
<1>7. PICK created, refundedAt, processed : /\ created = [i \in DOMAIN ledger |-> ledger[i].created]
                                            /\ refundedAt = [i \in DOMAIN ledger |-> ledger[i].refundedAt]
                                            /\ processed = [k \in DOMAIN paidOut |-> paidOut[k].processed]
  OBVIOUS
<1>8. IsFiniteSet(made) /\ IsFiniteSet(returned) /\ IsFiniteSet(DOMAIN paidOut)
  BY <1>6, TotalsAre, BooksAre
<1> DEFINE G(from, to) == {i \in made : from <= created[i] /\ created[i] < to}
           R(from, to) == {i \in returned : from <= refundedAt[i] /\ refundedAt[i] < to}
           P(from, to) == {k \in DOMAIN paidOut : from <= processed[k] /\ processed[k] < to}
<1>9. ASSUME NEW from \in Int, NEW to \in Int, from >= a, NEW some, some = rows \/ some = DOMAIN ledger,
             NEW asked, asked = payouts \/ asked = DOMAIN paidOut, NEW sum, sum = WindowTotals(some, asked, from, to)
      PROVE  /\ sum.gross = TotalOf(Amounts, G(from, to)) /\ sum.refunds = TotalOf(Refunds, R(from, to))
             /\ sum.payout = TotalOf(PaidOuts, P(from, to)) /\ sum.net = sum.gross - sum.refunds
  <2>1. PICK A, B, C : A = G(from, to) /\ B = R(from, to) /\ C = P(from, to)
    OBVIOUS
  <2>2. A = {i \in some : ledger[i].status \in Gross /\ from <= ledger[i].created /\ ledger[i].created < to}
    BY <1>1, <1>4, <1>5, <1>6, <1>7, <1>9, <2>1
  <2>3. B = {i \in some : ledger[i].refundedAt # Never /\ from <= ledger[i].refundedAt /\ ledger[i].refundedAt < to}
    BY <1>1, <1>4, <1>5, <1>6, <1>7, <1>9, <2>1
  <2>4. C = {k \in asked : from <= paidOut[k].processed /\ paidOut[k].processed < to}
    BY <1>1, <1>2, <1>4, <1>7, <1>9, <2>1
  <2>5. A \in SUBSET DOMAIN ledger /\ B \in SUBSET DOMAIN ledger /\ C \in SUBSET DOMAIN paidOut
    BY <1>6, <2>1
  <2>6. sum.gross = Total(Amount, A) /\ sum.refunds = Total(Refunded, B) /\ sum.payout = PayoutSum(C)
        /\ sum.net = sum.gross - sum.refunds
    BY <1>9, <2>2, <2>3, <2>4 DEF WindowTotals
  <2>7. Total(Amount, A) = TotalOf(Amounts, A) /\ Total(Refunded, B) = TotalOf(Refunds, B)
        /\ PayoutSum(C) = TotalOf(PaidOuts, C)
    BY <2>5, TotalsAre, PayoutsAre
  <2> QED BY <2>1, <2>6, <2>7
<1>10. PICK now, then : now = view.now /\ then = view.then
  OBVIOUS
<1>11. PICK c \in Int : c = clock /\ a <= b /\ b <= c
  BY <1>1, BooksAre
<1>12. /\ whole.gross = TotalOf(Amounts, G(a, c)) /\ whole.refunds = TotalOf(Refunds, R(a, c))
       /\ whole.payout = TotalOf(PaidOuts, P(a, c)) /\ whole.net = whole.gross - whole.refunds
  <2> HIDE DEF G, R, P
  <2>1. whole = WindowTotals(DOMAIN ledger, DOMAIN paidOut, a, c) /\ a >= a
    BY <1>1, <1>11
  <2> QED BY <1>9, <1>11, <2>1
<1>13. /\ now.gross = TotalOf(Amounts, G(b, c)) /\ now.refunds = TotalOf(Refunds, R(b, c))
       /\ now.payout = TotalOf(PaidOuts, P(b, c)) /\ now.net = now.gross - now.refunds
  <2> HIDE DEF G, R, P
  <2>1. now = WindowTotals(rows, payouts, b, c) /\ b >= a
    BY <1>1, <1>3, <1>10, <1>11
  <2> QED BY <1>9, <1>11, <2>1
<1>14. /\ then.gross = TotalOf(Amounts, G(a, b)) /\ then.refunds = TotalOf(Refunds, R(a, b))
       /\ then.payout = TotalOf(PaidOuts, P(a, b)) /\ then.net = then.gross - then.refunds
  <2> HIDE DEF G, R, P
  <2>1. then = WindowTotals(rows, payouts, a, b) /\ a >= a
    BY <1>1, <1>3, <1>10
  <2> QED BY <1>9, <1>11, <2>1
<1>15. TotalOf(Amounts, G(a, c)) = TotalOf(Amounts, G(b, c)) + TotalOf(Amounts, G(a, b))
  <2>1. PICK A, B, W : A = G(a, b) /\ B = G(b, c) /\ W = G(a, c)
    OBVIOUS
  <2>2. \A i \in made : Amounts[i] \in Int /\ created[i] \in Int
    BY <1>4, <1>6, <1>7, FiguresAre
  <2>3. a <= b /\ b <= c
    BY <1>11
  <2>4. A \in SUBSET made /\ B \in SUBSET made /\ A \cap B = {} /\ W = A \cup B
    BY <2>1, <2>2, <2>3
  <2> HIDE DEF G, R, P
  <2>5. IsFiniteSet(A) /\ IsFiniteSet(B) /\ \A x \in A \cup B : Amounts[x] \in Int
    BY <1>8, <2>2, <2>4, FS_Subset
  <2>6. TotalOf(Amounts, W) = TotalOf(Amounts, A) + TotalOf(Amounts, B)
    BY <2>4, <2>5, TotalUnion
  <2>7. PICK m \in Int, n \in Int : m = TotalOf(Amounts, A) /\ n = TotalOf(Amounts, B)
    BY <2>5, TotalType
  <2>8. m + n = n + m
    OBVIOUS
  <2> QED BY <2>1, <2>6, <2>7, <2>8
<1>16. TotalOf(Refunds, R(a, c)) = TotalOf(Refunds, R(b, c)) + TotalOf(Refunds, R(a, b))
  <2>1. PICK A, B, W : A = R(a, b) /\ B = R(b, c) /\ W = R(a, c)
    OBVIOUS
  <2>2. \A i \in returned : Refunds[i] \in Int /\ refundedAt[i] \in Int
    BY <1>4, <1>6, <1>7, FiguresAre
  <2>3. a <= b /\ b <= c
    BY <1>11
  <2>4. A \in SUBSET returned /\ B \in SUBSET returned /\ A \cap B = {} /\ W = A \cup B
    BY <2>1, <2>2, <2>3
  <2> HIDE DEF G, R, P
  <2>5. IsFiniteSet(A) /\ IsFiniteSet(B) /\ \A x \in A \cup B : Refunds[x] \in Int
    BY <1>8, <2>2, <2>4, FS_Subset
  <2>6. TotalOf(Refunds, W) = TotalOf(Refunds, A) + TotalOf(Refunds, B)
    BY <2>4, <2>5, TotalUnion
  <2>7. PICK m \in Int, n \in Int : m = TotalOf(Refunds, A) /\ n = TotalOf(Refunds, B)
    BY <2>5, TotalType
  <2>8. m + n = n + m
    OBVIOUS
  <2> QED BY <2>1, <2>6, <2>7, <2>8
<1>17. TotalOf(PaidOuts, P(a, c)) = TotalOf(PaidOuts, P(b, c)) + TotalOf(PaidOuts, P(a, b))
  <2>1. PICK A, B, W : A = P(a, b) /\ B = P(b, c) /\ W = P(a, c)
    OBVIOUS
  <2>2. \A k \in DOMAIN paidOut : PaidOuts[k] \in Int /\ processed[k] \in Int
    BY <1>4, <1>7, FiguresAre
  <2>3. a <= b /\ b <= c
    BY <1>11
  <2>4. A \in SUBSET DOMAIN paidOut /\ B \in SUBSET DOMAIN paidOut /\ A \cap B = {} /\ W = A \cup B
    BY <2>1, <2>2, <2>3
  <2> HIDE DEF G, R, P
  <2>5. IsFiniteSet(A) /\ IsFiniteSet(B) /\ \A x \in A \cup B : PaidOuts[x] \in Int
    BY <1>8, <2>2, <2>4, FS_Subset
  <2>6. TotalOf(PaidOuts, W) = TotalOf(PaidOuts, A) + TotalOf(PaidOuts, B)
    BY <2>4, <2>5, TotalUnion
  <2>7. PICK m \in Int, n \in Int : m = TotalOf(PaidOuts, A) /\ n = TotalOf(PaidOuts, B)
    BY <2>5, TotalType
  <2>8. m + n = n + m
    OBVIOUS
  <2> QED BY <2>1, <2>6, <2>7, <2>8
<1>18. /\ now.gross \in Int /\ then.gross \in Int /\ now.refunds \in Int /\ then.refunds \in Int
  <2>1. \A from, to : G(from, to) \in SUBSET DOMAIN ledger /\ R(from, to) \in SUBSET DOMAIN ledger
    BY <1>6
  <2> HIDE DEF G, R, P
  <2> QED BY <1>13, <1>14, <2>1, TotalsAre
<1>19. SumOver(view.revenueTrend, DOMAIN view.revenueTrend) = now.gross
  <2>1. PICK S : S = G(b, c) /\ S \in SUBSET DOMAIN ledger
    BY <1>6
  <2>2. S = {i \in rows : ledger[i].status \in Gross /\ ledger[i].created >= b}
    BY <1>1, <1>4, <1>5, <1>6, <1>7, <1>11, <2>1
  <2>3. PICK M : M = 0 .. MaxClock \div Month
    OBVIOUS
  <2>4. PICK t : t = view.revenueTrend
    OBVIOUS
  <2>5. t = [m \in M |-> Total(Amount, {i \in S : ledger[i].created \div Month = m})]
    BY <1>3, <2>2, <2>3, <2>4 DEF ByMonth
  <2>6. PICK month, part : /\ month = [i \in S |-> ledger[i].created \div Month]
                        /\ part = [m \in M |-> {i \in S : ledger[i].created \div Month = m}]
    OBVIOUS
  <2>7. ASSUME NEW m \in M PROVE part[m] = {i \in S : month[i] = m} /\ t[m] = TotalOf(Amounts, part[m])
    <3>1. PICK T : T = part[m] /\ T = {i \in S : ledger[i].created \div Month = m}
      BY <2>6, <2>7
    <3>2. T \in SUBSET DOMAIN ledger
      BY <2>1, <3>1
    <3>3. T = {i \in S : month[i] = m}
      BY <2>6, <3>1
    <3>4. t[m] = Total(Amount, T)
      BY <2>5, <2>7, <3>1
    <3> QED BY <3>1, <3>2, <3>3, <3>4, TotalsAre
  <2>8. \A i \in S : Amounts[i] \in Int /\ created[i] \in 0 .. MaxClock /\ month[i] = created[i] \div Month
    BY <1>4, <1>6, <1>7, <2>1, <2>6, FiguresAre
  <2>9. SumOver(t, M) = TotalOf(Amounts, S)
    <3> HIDE DEF G, R, P
    <3>1. IsFiniteSet(S) /\ \A i \in S : Amounts[i] \in Int
      BY <2>1, <2>8, TotalsAre
    <3>2. PICK N : N = M /\ IsFiniteSet(N) /\ \A i \in S : month[i] \in N
      BY <2>3, <2>8, MonthIs
    <3>3. \A m \in N : part[m] = {i \in S : month[i] = m} /\ t[m] = TotalOf(Amounts, part[m])
      BY <2>7, <3>2
    <3>4. TotalOf(t, N) = TotalOf(Amounts, S)
      BY <3>1, <3>2, <3>3, TotalParts
    <3> QED BY <3>2, <3>4, SumOverIs
  <2>10. DOMAIN t = M
    BY <2>5
  <2> QED BY <1>13, <2>1, <2>4, <2>9, <2>10
<1>20. SumOver(view.refundTrend, DOMAIN view.refundTrend) = now.refunds
  <2>1. PICK S : S = R(b, c) /\ S \in SUBSET DOMAIN ledger
    BY <1>6
  <2>2. S = {i \in rows : ledger[i].refundedAt # Never /\ ledger[i].refundedAt >= b}
    BY <1>1, <1>4, <1>5, <1>6, <1>7, <1>11, <2>1
  <2>3. PICK M : M = 0 .. MaxClock \div Month
    OBVIOUS
  <2>4. PICK t : t = view.refundTrend
    OBVIOUS
  <2>5. t = [m \in M |-> Total(Refunded, {i \in S : ledger[i].refundedAt \div Month = m})]
    BY <1>3, <2>2, <2>3, <2>4 DEF ByMonth
  <2>6. PICK month, part : /\ month = [i \in S |-> ledger[i].refundedAt \div Month]
                        /\ part = [m \in M |-> {i \in S : ledger[i].refundedAt \div Month = m}]
    OBVIOUS
  <2>7. ASSUME NEW m \in M PROVE part[m] = {i \in S : month[i] = m} /\ t[m] = TotalOf(Refunds, part[m])
    <3>1. PICK T : T = part[m] /\ T = {i \in S : ledger[i].refundedAt \div Month = m}
      BY <2>6, <2>7
    <3>2. T \in SUBSET DOMAIN ledger
      BY <2>1, <3>1
    <3>3. T = {i \in S : month[i] = m}
      BY <2>6, <3>1
    <3>4. t[m] = Total(Refunded, T)
      BY <2>5, <2>7, <3>1
    <3> QED BY <3>1, <3>2, <3>3, <3>4, TotalsAre
  <2>8. \A i \in S : Refunds[i] \in Int /\ refundedAt[i] \in 0 .. MaxClock /\ month[i] = refundedAt[i] \div Month
    BY <1>4, <1>6, <1>7, <2>1, <2>6, FiguresAre
  <2>9. SumOver(t, M) = TotalOf(Refunds, S)
    <3> HIDE DEF G, R, P
    <3>1. IsFiniteSet(S) /\ \A i \in S : Refunds[i] \in Int
      BY <2>1, <2>8, TotalsAre
    <3>2. PICK N : N = M /\ IsFiniteSet(N) /\ \A i \in S : month[i] \in N
      BY <2>3, <2>8, MonthIs
    <3>3. \A m \in N : part[m] = {i \in S : month[i] = m} /\ t[m] = TotalOf(Refunds, part[m])
      BY <2>7, <3>2
    <3>4. TotalOf(t, N) = TotalOf(Refunds, S)
      BY <3>1, <3>2, <3>3, TotalParts
    <3> QED BY <3>2, <3>4, SumOverIs
  <2>10. DOMAIN t = M
    BY <2>5
  <2> QED BY <1>13, <2>1, <2>4, <2>9, <2>10
<1> HIDE DEF G, R, P
<1>21. now.gross + then.gross = whole.gross /\ now.refunds + then.refunds = whole.refunds
       /\ now.payout + then.payout = whole.payout
  BY <1>12, <1>13, <1>14, <1>15, <1>16, <1>17
<1>22. now.net + then.net = whole.net
  <2>1. \A g, h, r, q \in Int : (g - r) + (h - q) = (g + h) - (r + q)
    OBVIOUS
  <2> QED BY <1>12, <1>13, <1>14, <1>18, <1>21, <2>1
<1> QED BY <1>10, <1>19, <1>20, <1>21, <1>22

LEMMA WindowsMeetHolds == BooksInv => WindowsMeet
<1> SUFFICES ASSUME BooksInv, NEW days \in 1 .. 3
             PROVE  LET view == get_finance_analytics(days)
                        whole == WindowTotals(DOMAIN ledger, DOMAIN paidOut, clock - 2 * days, clock) IN
                    /\ \A figure \in {"gross", "refunds", "net", "payout"} :
                          view.now[figure] + view.then[figure] = whole[figure]
                    /\ SumOver(view.revenueTrend, DOMAIN view.revenueTrend) = view.now.gross
                    /\ SumOver(view.refundTrend, DOMAIN view.refundTrend) = view.now.refunds
  BY DEF WindowsMeet
<1>1. PICK view, whole : /\ view = get_finance_analytics(days)
                         /\ whole = WindowTotals(DOMAIN ledger, DOMAIN paidOut, clock - 2 * days, clock)
  OBVIOUS
<1>2. /\ \A figure \in {"gross", "refunds", "net", "payout"} :
            view.now[figure] + view.then[figure] = whole[figure]
      /\ SumOver(view.revenueTrend, DOMAIN view.revenueTrend) = view.now.gross
      /\ SumOver(view.refundTrend, DOMAIN view.refundTrend) = view.now.refunds
  BY <1>1, WindowsAre
<1> QED BY <1>1, <1>2

\* models/transaction.py and the screens over it: whatever is charged, settled, refunded and
\* paid out, in whatever order and however often the events come, the rows have their types and
\* the seekers' cards, the advisors' earnings and the administrators' figures tell one story.
THEOREM BooksAgreeAlways == BooksSpec => [](BooksTypeOK /\ BooksAgree)
<1>1. BooksInv => BooksTypeOK /\ BooksAgree
  BY SeekersAddUpHolds, CardsExplainedHolds, AdvisorsAgreeHolds, SharesAddUpHolds, WindowsMeetHolds,
     InvoicesToldHolds DEF BooksAgree, BooksInv
<1> QED BY <1>1, BooksInitInv, BooksNextInv, PTL DEF BooksSpec

=============================================================================
