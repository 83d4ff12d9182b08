--------------------------- MODULE MonthlyReport ---------------------------
(***************************************************************************)
(* GET /reports/monthly (src/routers/reports.py): what is reported of one  *)
(* jar for one month, computed from the rows of transaction that fall in   *)
(* the month, in UTC.  Amounts and balances are whole numbers.             *)
(***************************************************************************)
EXTENDS Integers, FiniteSets, FiniteSetsExt

CONSTANTS
    DayLength,      \* ticks (seconds) in a day
    Months,         \* months are numbered from 1
    FirstDay        \* of each month, and of the one after the last

ASSUME CalendarAssumption ==
    /\ DayLength \in Nat \ {0} /\ Months \in Nat
    /\ FirstDay \in [1 .. Months + 1 -> Nat]
    /\ \A m, k \in 1 .. Months + 1 : m < k => FirstDay[m] < FirstDay[k]

Month == 1 .. Months

\* calendar.monthrange: the last day of a month.
LastDay(m) == FirstDay[m + 1] - 1

\* _month_unix_range, [start, end).
MonthStart(m) == FirstDay[m] * DayLength

\* Mutant: the last second itself for the end.
MonthEndAtLastSecond(m) == LastDay(m) * DayLength + (DayLength - 1)

\* One more than the last second of the last day.
MonthEnd(m) == LastDay(m) * DayLength + (DayLength - 1) + 1

\* The columns of transaction that a report reads.
Transaction == [id : Nat, time : Nat, amount : Int, balance : Int]

InMonth(rows, m) == {t \in rows : MonthStart(m) <= t.time /\ t.time < MonthEnd(m)}

\* order_by(Transaction.time).  Which of several transactions of the first second
\* comes first is left open.
Earliest(txs) == {t \in txs : \A u \in txs : t.time <= u.time}

\* start_balance, each value that it may have: without transactions, the balance of
\* the jar at the time of the report.
StartBalances(txs, balance) ==
    IF txs = {} THEN {balance} ELSE {t.balance - t.amount : t \in Earliest(txs)}

Total(txs) == MapThenSumSet(LAMBDA t : t.amount, txs)

Deposits(txs) == {t \in txs : t.amount > 0}

\* budget: the largest deposit.
Budget(txs) == IF Deposits(txs) = {} THEN 0 ELSE Max({t.amount : t \in Deposits(txs)})

\* Mutant: the budget taken from the deposits.
SpentOfDeposits(txs) == Total(Deposits(txs)) - Budget(txs)

\* spent: everything but the budget.
Spent(txs) == Total(txs) - Budget(txs)
=============================================================================
