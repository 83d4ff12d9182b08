----------------------------- MODULE JarLedger -----------------------------
(***************************************************************************)
(* What a monthly report is made of, and who writes it: jars at the bank,  *)
(* the rows of account that sync_accounts brings up to date and the admin  *)
(* page marks as budgets (src/admin.py), and the rows of transaction that  *)
(* sync_transactions takes from statements of the last days.               *)
(***************************************************************************)
EXTENDS MonthlyReport, Sequences, Functions

CONSTANTS
    Jar,
    Window,         \* ticks that a statement reaches back (days)
    ZoneOffset,     \* REPORT_TIMEZONE minus UTC
    Amount,         \* bound: what an operation moves
    MaxOps,         \* bound: operations of a jar
    MaxTime         \* bound: the clock

ASSUME LedgerAssumption ==
    /\ Window \in Nat /\ ZoneOffset \in Nat
    /\ Amount \subseteq Int
    /\ MaxOps \in Nat /\ MaxTime \in Nat

VARIABLES
    now,
    bank,           \* per jar: its operations
    account,        \* per jar: its row, or NoRow
    stored,         \* transaction: per jar, its rows
    upsert,         \* sync_accounts between its reads and its commit, or NoUpsert
    toggle,         \* toggle_budget between its reads and its commit: the new flags
    toggled,        \* per jar: toggled an odd number of times (history)
    covered         \* per jar: the time since when, and until when, its statements
                    \* were asked for without a gap (history)

vars == <<now, bank, account, stored, upsert, toggle, toggled, covered>>

NoRow == [present |-> FALSE, balance |-> 0, is_budget |-> FALSE]
NoUpsert == [open |-> FALSE, got |-> [j \in Jar |-> 0], saw |-> [j \in Jar |-> NoRow]]
NoToggle == [j \in {} |-> FALSE]

\* The balance of a jar at the bank.
Balance(j) == IF bank[j] = <<>> THEN 0 ELSE bank[j][Len(bank[j])].balance

Init ==
    /\ now = 0
    /\ bank = [j \in Jar |-> <<>>]
    /\ account = [j \in Jar |-> NoRow]
    /\ stored = [j \in Jar |-> {}]
    /\ upsert = NoUpsert /\ toggle = NoToggle
    /\ toggled = [j \in Jar |-> FALSE]
    /\ covered = [j \in Jar |-> [from |-> 0, to |-> 0]]

-----------------------------------------------------------------------------
(* The bank and the clock. *)

Operate(j, amount) ==
    /\ Len(bank[j]) < MaxOps
    /\ Balance(j) + amount >= 0
    /\ bank' = [bank EXCEPT ![j] = Append(@,
                  [id |-> Len(@) + 1, time |-> now,
                   amount |-> amount, balance |-> Balance(j) + amount])]
    /\ UNCHANGED <<now, account, stored, upsert, toggle, toggled, covered>>

Tick ==
    /\ now < MaxTime
    /\ now' = now + 1
    /\ UNCHANGED <<bank, account, stored, upsert, toggle, toggled, covered>>

-----------------------------------------------------------------------------
(* The worker: the handlers, one at a time. *)

\* The answer to client-info, and session.get on each row.
FetchAccounts ==
    /\ ~upsert.open
    /\ upsert' = [open |-> TRUE, got |-> [j \in Jar |-> Balance(j)], saw |-> account]
    /\ UNCHANGED <<now, bank, account, stored, toggle, toggled, covered>>

NewRow(balance) == [present |-> TRUE, balance |-> balance, is_budget |-> FALSE]

\* Mutant: the UPDATE writes the row as it was read.
CommitWholeRows ==
    /\ upsert.open
    /\ account' = [j \in Jar |-> IF upsert.saw[j].present
                                 THEN [upsert.saw[j] EXCEPT !.balance = upsert.got[j]]
                                 ELSE NewRow(upsert.got[j])]
    /\ upsert' = NoUpsert
    /\ UNCHANGED <<now, bank, stored, toggle, toggled, covered>>

\* The commit: an UPDATE of the columns that were set, or an INSERT.
CommitAccounts ==
    /\ upsert.open
    /\ account' = [j \in Jar |-> IF upsert.saw[j].present
                                 THEN [account[j] EXCEPT !.balance = upsert.got[j]]
                                 ELSE NewRow(upsert.got[j])]
    /\ upsert' = NoUpsert
    /\ UNCHANGED <<now, bank, stored, toggle, toggled, covered>>

\* The handler raises or the worker dies, and nothing was committed.
AbortAccounts ==
    /\ upsert.open
    /\ upsert' = NoUpsert
    /\ UNCHANGED <<now, bank, account, stored, toggle, toggled, covered>>

\* Mutant: the statement begins after the end of the last one.
StatementAfter(j, from, to) == {t \in Range(bank[j]) : from < t.time /\ t.time <= to}

\* What the bank has from one moment to another, both included.
Statement(j, from, to) == {t \in Range(bank[j]) : from <= t.time /\ t.time <= to}

\* Statements that were asked for up to c.to, and another that ends at to.
Extended(c, to) ==
    IF to - Window > c.to THEN [from |-> to - Window, to |-> to]
    ELSE IF to > c.to THEN [c EXCEPT !.to = to]
    ELSE c

\* Merges the statement of jar j up to a moment into its rows, and commits.
Merge(j, to) ==
    /\ stored' = [stored EXCEPT ![j] = @ \cup Statement(j, to - Window, to)]
    /\ covered' = [covered EXCEPT ![j] = Extended(@, to)]
    /\ UNCHANGED <<now, bank, account, upsert, toggle, toggled>>

\* Mutant: the accounts of the bank, and not those that have a row.
SyncUnknownStatement(j) == ~upsert.open /\ Merge(j, now)

\* A jar that has a row; to_time was read at the start of the call, which may be a
\* tick ago.
SyncStatement(j) ==
    /\ ~upsert.open /\ account[j].present
    /\ \E to \in {now, now - 1} : Merge(j, to)

-----------------------------------------------------------------------------
(* The admin page: toggle_budget, which its event loop runs to the end before *)
(* it takes up another one.                                                   *)

ReadFlags(jars) ==
    /\ toggle = NoToggle
    /\ jars # {} /\ \A j \in jars : account[j].present
    /\ toggle' = [j \in jars |-> ~account[j].is_budget]
    /\ UNCHANGED <<now, bank, account, stored, upsert, toggled, covered>>

CommitFlags ==
    /\ toggle # NoToggle
    /\ account' = [j \in Jar |-> IF j \in DOMAIN toggle
                                 THEN [account[j] EXCEPT !.is_budget = toggle[j]]
                                 ELSE account[j]]
    /\ toggled' = [j \in Jar |-> IF j \in DOMAIN toggle THEN ~toggled[j] ELSE toggled[j]]
    /\ toggle' = NoToggle
    /\ UNCHANGED <<now, bank, stored, upsert, covered>>

-----------------------------------------------------------------------------
Next ==
    \/ \E j \in Jar : SyncStatement(j) \/ \E amount \in Amount : Operate(j, amount)
    \/ Tick
    \/ FetchAccounts \/ CommitAccounts \/ AbortAccounts
    \/ (\E jars \in SUBSET Jar : ReadFlags(jars)) \/ CommitFlags

Spec == Init /\ [][Next]_vars

-----------------------------------------------------------------------------
(* Properties. *)

Row == [present : BOOLEAN, balance : Int, is_budget : BOOLEAN]

\* Every variable has its type; what is stored was at the bank, and its account has
\* a row.
TypeOK ==
    /\ now \in Nat
    /\ bank \in [Jar -> Seq(Transaction)]
    /\ account \in [Jar -> Row]
    /\ stored \in [Jar -> SUBSET Transaction]
    /\ \A j \in Jar : stored[j] \subseteq Range(bank[j]) /\ (stored[j] # {} => account[j].present)
    /\ upsert \in [open : BOOLEAN, got : [Jar -> Int], saw : [Jar -> Row]]
    /\ DOMAIN toggle \subseteq Jar /\ toggle \in [DOMAIN toggle -> BOOLEAN]
    /\ toggled \in [Jar -> BOOLEAN]
    /\ covered \in [Jar -> [from : Int, to : Int]]

\* A jar is a budget, and so is reported, if it has been toggled an odd number of
\* times: no sync that overlaps a toggle loses it or takes it back.
TogglesAreKept == \A j \in Jar : account[j].is_budget = toggled[j]

\* As long as the syncs of a jar are no further apart than the window, no operation
\* between them is missed, one in the second of a sync included; and a longer gap
\* loses nothing of what is synced after it.
NothingIsMissed ==
    \A j \in Jar : \A op \in Range(bank[j]) :
        covered[j].from <= op.time /\ op.time < covered[j].to => op \in stored[j]

\* The rows of jar j have all that the bank has, from the first row of a set of them
\* to an end.
Gapless(j, txs, end) ==
    \A op \in Range(bank[j]) :
        op.time < end /\ (\E t \in txs : t.time <= op.time) => op \in stored[j]

\* One transaction is the first: no other has its second.
HasFirst(txs) == Cardinality(Earliest(txs)) = 1

\* The row of account is as new as the last transaction of txs.
UpToDate(j, txs) ==
    \A t \in txs : (\A u \in txs : u.id <= t.id) => account[j].balance = t.balance

\* What the report of a month starts from and moves leads to the start of the next
\* one that follows: over any months without transactions in between, whenever the
\* two syncs ran, provided that no operation between them was missed and that it
\* is clear which transaction is a month's first.
ReportsChain ==
    \A j \in Jar : \A m, k \in Month :
        LET earlier == InMonth(stored[j], m)
            later   == InMonth(stored[j], k)
        IN  /\ m < k
            /\ earlier # {} /\ HasFirst(earlier)
            /\ \A n \in m + 1 .. k - 1 : InMonth(stored[j], n) = {}
            /\ Gapless(j, earlier, MonthEnd(k))
            /\ IF later # {} THEN HasFirst(later)
               ELSE UpToDate(j, stored[j]) /\ \A t \in stored[j] : t.time < MonthEnd(k)
            => \A s \in StartBalances(earlier, account[j].balance),
                  next \in StartBalances(later, account[j].balance) :
                    next = s + Budget(earlier) + Spent(earlier)

-----------------------------------------------------------------------------
\* .env.example: REPORT_TIMEZONE is the "timezone used for monthly report
\* calculations".  So the report of a month covers that month of the zone.
ReportsLocalMonths ==
    \A j \in Jar : \A t \in stored[j] : \A m \in Month :
        t \in InMonth(stored[j], m) <=>
            /\ FirstDay[m] * DayLength <= t.time + ZoneOffset
            /\ t.time + ZoneOffset < FirstDay[m + 1] * DayLength
=============================================================================
