---------------------------- MODULE LedgerProofs ----------------------------
(***************************************************************************)
(* Theorems about JarLedger and the months of MonthlyReport, for every set *)
(* of jars, every calendar and every operation of the bank.                *)
(***************************************************************************)
EXTENDS JarLedger, SequenceTheorems, TLAPS

-----------------------------------------------------------------------------
(* Months. *)

\* The end of a month is the start of the next, to the second.
LEMMA MonthsAbut ==
    ASSUME NEW m \in Month
    PROVE  MonthEnd(m) = FirstDay[m + 1] * DayLength /\ MonthStart(m) < MonthEnd(m)
<1>1. /\ FirstDay[m] \in Nat /\ FirstDay[m + 1] \in Nat /\ DayLength \in Nat \ {0}
      /\ FirstDay[m] + 1 <= FirstDay[m + 1]
  BY CalendarAssumption DEF Month
<1>2. \A a \in Nat, d \in Nat : (a - 1) * d + (d - 1) + 1 = a * d
  OBVIOUS
<1>3. MonthEnd(m) = FirstDay[m + 1] * DayLength
  BY <1>1, <1>2 DEF MonthEnd, LastDay
<1>4. \A a, b, d \in Nat : a + 1 <= b => a * d + d <= b * d
  OBVIOUS
<1>. QED
  BY <1>1, <1>3, <1>4 DEF MonthStart

\* Two months have no second in common: a transaction is in one report at most.
THEOREM ReportsAreDisjoint ==
    ASSUME NEW m \in Month, NEW k \in Month, m # k,
           NEW rows \in SUBSET Transaction
    PROVE  InMonth(rows, m) \cap InMonth(rows, k) = {}
<1>1. ASSUME NEW a \in Month, NEW b \in Month, a < b,
             NEW t \in rows, t \in InMonth(rows, a), t \in InMonth(rows, b)
      PROVE  FALSE
  <2>1. FirstDay[a + 1] <= FirstDay[b] /\ FirstDay[a + 1] \in Nat /\ FirstDay[b] \in Nat
    <3>1. a + 1 \in 1 .. Months + 1 /\ b \in 1 .. Months + 1 /\ a + 1 <= b
      BY <1>1, CalendarAssumption DEF Month
    <3>2. CASE a + 1 = b
      BY <3>1, <3>2, CalendarAssumption
    <3>3. CASE a + 1 < b
      BY <3>1, <3>3, CalendarAssumption
    <3>. QED
      BY <3>1, <3>2, <3>3
  <2>2. \A x, y, d \in Nat : x <= y => x * d <= y * d
    OBVIOUS
  <2>3. MonthEnd(a) <= MonthStart(b) /\ MonthEnd(a) \in Nat /\ MonthStart(b) \in Nat
    BY <2>1, <2>2, MonthsAbut, CalendarAssumption DEF MonthStart
  <2>4. t.time \in Nat /\ t.time < MonthEnd(a) /\ MonthStart(b) <= t.time
    BY <1>1 DEF InMonth, Transaction
  <2>. QED
    BY <2>3, <2>4
<1>. QED
  <2>1. m < k \/ k < m
    BY CalendarAssumption DEF Month
  <2>. QED
    BY <1>1, <2>1 DEF InMonth

-----------------------------------------------------------------------------
(* Types. *)

\* A balance is a whole number.
LEMMA BalanceType ==
    ASSUME TypeOK, NEW j \in Jar
    PROVE  Balance(j) \in Int
<1>1. bank[j] \in Seq(Transaction)
  BY DEF TypeOK
<1>2. CASE bank[j] = <<>>
  BY <1>2 DEF Balance
<1>3. CASE bank[j] # <<>>
  <2>1. Len(bank[j]) \in 1 .. Len(bank[j])
    BY <1>1, <1>3, EmptySeq
  <2>2. bank[j][Len(bank[j])] \in Transaction
    BY <1>1, <2>1, ElementOfSeq
  <2>. QED
    BY <1>3, <2>2 DEF Balance, Transaction
<1>. QED
  BY <1>2, <1>3

\* The operations of a jar.
LEMMA RangeType ==
    ASSUME TypeOK, NEW j \in Jar
    PROVE  Range(bank[j]) \subseteq Transaction
<1>1. bank[j] \in Seq(Transaction)
  BY DEF TypeOK
<1>2. \A i \in DOMAIN bank[j] : bank[j][i] \in Transaction
  BY <1>1, LenProperties, ElementOfSeq
<1>. QED
  BY <1>2 DEF Range

\* The rows of account, of the upsert and of a toggle.
RowTypes ==
    /\ account \in [Jar -> Row]
    /\ upsert \in [open : BOOLEAN, got : [Jar -> Int], saw : [Jar -> Row]]
    /\ DOMAIN toggle \subseteq Jar /\ toggle \in [DOMAIN toggle -> BOOLEAN]
    /\ toggled \in [Jar -> BOOLEAN]

\* Nothing in flight.
LEMMA EmptyTypes ==
    /\ NoRow \in Row
    /\ NoUpsert \in [open : BOOLEAN, got : [Jar -> Int], saw : [Jar -> Row]]
    /\ DOMAIN NoToggle = {} /\ NoToggle \in [{} -> BOOLEAN]
<1>1. NoRow \in Row
  BY DEF NoRow, Row
<1>2. [j \in Jar |-> NoRow] \in [Jar -> Row] /\ [j \in Jar |-> 0] \in [Jar -> Int]
  BY <1>1
<1>3. NoUpsert \in [open : BOOLEAN, got : [Jar -> Int], saw : [Jar -> Row]]
  BY <1>2 DEF NoUpsert
<1>4. DOMAIN NoToggle = {} /\ NoToggle \in [{} -> BOOLEAN]
  BY DEF NoToggle
<1>. QED
  BY <1>1, <1>3, <1>4

LEMMA RowInit == Init => RowTypes
BY EmptyTypes DEF Init, RowTypes

LEMMA RowStep == TypeOK /\ [Next]_vars => RowTypes'
<1>. SUFFICES ASSUME TypeOK, [Next]_vars PROVE RowTypes'
  OBVIOUS
<1>0. /\ RowTypes
      /\ NoUpsert \in [open : BOOLEAN, got : [Jar -> Int], saw : [Jar -> Row]]
      /\ DOMAIN NoToggle = {} /\ NoToggle \in [{} -> BOOLEAN]
      /\ \A b \in Int : NewRow(b) \in Row
      /\ \A r \in Row, b \in Int : [r EXCEPT !.balance = b] \in Row
      /\ \A r \in Row, b \in BOOLEAN : [r EXCEPT !.is_budget = b] \in Row
  BY EmptyTypes DEF RowTypes, TypeOK, NewRow, Row
<1>1. CASE FetchAccounts
  <2>1. upsert' \in [open : BOOLEAN, got : [Jar -> Int], saw : [Jar -> Row]]
    BY <1>1, <1>0, BalanceType DEF FetchAccounts, RowTypes
  <2>. QED
    BY <1>1, <1>0, <2>1 DEF FetchAccounts, RowTypes
<1>2. CASE CommitAccounts
  <2>1. account' \in [Jar -> Row]
    BY <1>2, <1>0 DEF CommitAccounts, RowTypes
  <2>. QED
    BY <1>2, <1>0, <2>1 DEF CommitAccounts, RowTypes
<1>3. CASE AbortAccounts
  BY <1>3, <1>0 DEF AbortAccounts, RowTypes
<1>4. ASSUME NEW jars \in SUBSET Jar, ReadFlags(jars) PROVE RowTypes'
  <2>1. DOMAIN toggle' = jars /\ toggle' \in [jars -> BOOLEAN]
    BY <1>4 DEF ReadFlags
  <2>. QED
    BY <1>4, <1>0, <2>1 DEF ReadFlags, RowTypes
<1>5. CASE CommitFlags
  <2>1. account' \in [Jar -> Row]
    BY <1>5, <1>0 DEF CommitFlags, RowTypes
  <2>2. toggled' \in [Jar -> BOOLEAN]
    <3>1. \A j \in Jar :
            (IF j \in DOMAIN toggle THEN ~toggled[j] ELSE toggled[j]) \in BOOLEAN
      BY DEF TypeOK
    <3>. QED
      BY <1>5, <3>1, Zenon DEF CommitFlags
  <2>. QED
    BY <1>5, <1>0, <2>1, <2>2 DEF CommitFlags, RowTypes
<1>6. CASE UNCHANGED <<account, upsert, toggle, toggled>>
  BY <1>0, <1>6 DEF RowTypes
<1>. QED
  BY <1>1, <1>2, <1>3, <1>4, <1>5, <1>6 DEF Next, vars, SyncStatement, Merge, Operate, Tick

\* The span of a jar's statements.
Span == [from : Int, to : Int]

LEMMA ExtendedType ==
    ASSUME NEW c \in Span, NEW to \in Int
    PROVE  Extended(c, to) \in Span
<1>1. to - Window \in Int
  BY LedgerAssumption
<1>2. [from |-> to - Window, to |-> to] \in Span
  BY <1>1 DEF Span
<1>3. [c EXCEPT !.to = to] \in Span
  BY DEF Span
<1>. QED
  BY <1>2, <1>3 DEF Extended

\* Every variable keeps its type.
THEOREM LedgerTypes == Spec => []TypeOK
<1>1. Init => TypeOK
  <2>. SUFFICES ASSUME Init PROVE TypeOK
    OBVIOUS
  <2>1. bank \in [Jar -> Seq(Transaction)]
    BY EmptySeq DEF Init
  <2>. QED
    BY <2>1, RowInit DEF Init, TypeOK, RowTypes
<1>2. TypeOK /\ [Next]_vars => TypeOK'
  <2>. SUFFICES ASSUME TypeOK, [Next]_vars PROVE TypeOK'
    OBVIOUS
  <2>1. RowTypes'
    BY RowStep
  <2>2. ASSUME NEW j \in Jar, NEW amount \in Amount, Operate(j, amount) PROVE TypeOK'
    <3>. DEFINE op == [id |-> Len(bank[j]) + 1, time |-> now,
                       amount |-> amount, balance |-> Balance(j) + amount]
    <3>1. bank[j] \in Seq(Transaction) /\ Len(bank[j]) \in Nat
      BY LenProperties DEF TypeOK
    <3>2. op \in Transaction
      <4>1. now \in Nat /\ amount \in Int
        BY LedgerAssumption DEF TypeOK
      <4>2. Balance(j) + amount \in Int /\ Len(bank[j]) + 1 \in Nat
        BY <3>1, <4>1, BalanceType
      <4>. QED
        BY <4>1, <4>2 DEF Transaction
    <3>3. bank' = [bank EXCEPT ![j] = Append(bank[j], op)]
      BY <2>2 DEF Operate, TypeOK
    <3>. HIDE DEF op
    <3>4. Append(bank[j], op) \in Seq(Transaction)
      BY <3>1, <3>2, AppendProperties
    <3>5. Range(bank[j]) \subseteq Range(Append(bank[j], op))
      <4>1. /\ DOMAIN bank[j] = 1 .. Len(bank[j])
            /\ DOMAIN Append(bank[j], op) = 1 .. Len(bank[j]) + 1
            /\ \A i \in 1 .. Len(bank[j]) : Append(bank[j], op)[i] = bank[j][i]
        BY <3>1, <3>2, <3>4, AppendProperties, LenProperties
      <4>2. DOMAIN bank[j] \subseteq DOMAIN Append(bank[j], op)
        BY <3>1, <4>1
      <4>. QED
        BY <4>1, <4>2 DEF Range
    <3>6. bank' \in [Jar -> Seq(Transaction)]
      BY <3>3, <3>4 DEF TypeOK
    <3>7. \A k \in Jar : Range(bank[k]) \subseteq Range(bank'[k])
      BY <3>3, <3>5 DEF TypeOK
    <3>. QED
      BY <2>1, <2>2, <3>6, <3>7 DEF Operate, TypeOK, RowTypes
  <2>3. ASSUME NEW j \in Jar, SyncStatement(j) PROVE TypeOK'
    <3>1. PICK to \in {now, now - 1} : Merge(j, to)
      BY <2>3 DEF SyncStatement
    <3>2. /\ stored' \in [Jar -> SUBSET Transaction]
          /\ \A k \in Jar : stored'[k] \subseteq Range(bank[k])
          /\ \A k \in Jar : k # j => stored'[k] = stored[k]
      <4>1. Statement(j, to - Window, to) \subseteq Range(bank[j])
        BY DEF Statement
      <4>2. stored' = [stored EXCEPT ![j] = stored[j] \cup Statement(j, to - Window, to)]
        BY <3>1 DEF Merge
      <4>3. stored \in [Jar -> SUBSET Transaction] /\ \A k \in Jar : stored[k] \subseteq Range(bank[k])
        BY DEF TypeOK
      <4>. QED
        BY <4>1, <4>2, <4>3, RangeType
    <3>3. covered' \in [Jar -> Span]
      <4>1. covered \in [Jar -> Span] /\ to \in Int
        BY DEF TypeOK, Span
      <4>2. Extended(covered[j], to) \in Span
        BY <4>1, ExtendedType
      <4>. QED
        BY <3>1, <4>1, <4>2 DEF Merge
    <3>. QED
      BY <2>1, <2>3, <3>1, <3>2, <3>3 DEF SyncStatement, Merge, TypeOK, RowTypes, Span
  <2>4. CASE Tick
    BY <2>1, <2>4 DEF Tick, TypeOK, RowTypes
  <2>5. CASE UNCHANGED <<now, bank, stored, covered>> /\ \A j \in Jar : account[j].present => account'[j].present
    BY <2>1, <2>5 DEF TypeOK, RowTypes
  <2>6. CASE FetchAccounts \/ CommitAccounts \/ AbortAccounts
    <3>1. \A j \in Jar : account[j] \in Row
      BY DEF TypeOK
    <3>. QED
      BY <2>5, <2>6, <3>1 DEF FetchAccounts, CommitAccounts, AbortAccounts, NewRow, Row
  <2>7. ASSUME NEW jars \in SUBSET Jar, ReadFlags(jars) PROVE TypeOK'
    BY <2>5, <2>7 DEF ReadFlags
  <2>8. CASE CommitFlags
    <3>1. \A j \in Jar : account[j] \in Row
      BY DEF TypeOK
    <3>. QED
      BY <2>5, <2>8, <3>1 DEF CommitFlags, Row
  <2>9. CASE UNCHANGED vars
    BY <2>5, <2>9 DEF vars
  <2>. QED
    BY <2>2, <2>3, <2>4, <2>6, <2>7, <2>8, <2>9 DEF Next
<1>. QED
  BY <1>1, <1>2, PTL DEF Spec

-----------------------------------------------------------------------------
(* Toggles.  A row that an upsert has read stays; a toggle in flight is the    *)
(* opposite of what its row says, whatever is committed in the meantime.       *)

ToggleInv ==
    /\ \A j \in Jar : account[j].is_budget = toggled[j]
    /\ \A j \in Jar : account[j].present \/ ~account[j].is_budget
    /\ \A j \in DOMAIN toggle : account[j].present /\ toggle[j] = ~account[j].is_budget
    /\ upsert.open => \A j \in Jar : account[j].present <=> upsert.saw[j].present

\* No sync of accounts loses a toggle or takes it back, wherever they overlap.
THEOREM TogglesAreNeverLost == Spec => []TogglesAreKept
<1>1. Init => ToggleInv
  <2>. SUFFICES ASSUME Init PROVE ToggleInv
    OBVIOUS
  <2>1. \A j \in Jar : account[j].present = FALSE /\ account[j].is_budget = FALSE /\ toggled[j] = FALSE
    BY DEF Init, NoRow
  <2>2. upsert.open = FALSE /\ DOMAIN toggle = {}
    BY EmptyTypes DEF Init, NoUpsert
  <2>. QED
    BY <2>1, <2>2 DEF ToggleInv
<1>2. TypeOK /\ ToggleInv /\ [Next]_vars => ToggleInv'
  <2>. SUFFICES ASSUME TypeOK, ToggleInv, [Next]_vars PROVE ToggleInv'
    OBVIOUS
  <2>1. \A j \in Jar : account[j] \in Row /\ toggled[j] \in BOOLEAN
    BY DEF TypeOK
  <2>2. CASE FetchAccounts
    BY <2>2 DEF FetchAccounts, ToggleInv
  <2>3. CASE CommitAccounts
    <3>1. ASSUME NEW j \in Jar
          PROVE  /\ account'[j].present
                 /\ account'[j].is_budget = account[j].is_budget
      <4>1. CASE upsert.saw[j].present
        <5>1. account'[j] = [account[j] EXCEPT !.balance = upsert.got[j]] /\ account[j].present
          BY <2>3, <4>1 DEF CommitAccounts, ToggleInv
        <5>. QED
          BY <2>1, <5>1 DEF Row
      <4>2. CASE ~upsert.saw[j].present
        <5>1. ~account[j].present /\ account[j].is_budget = FALSE
          BY <2>1, <2>3, <4>2 DEF CommitAccounts, ToggleInv, Row
        <5>. QED
          BY <2>3, <4>2, <5>1 DEF CommitAccounts, NewRow
      <4>. QED
        BY <4>1, <4>2
    <3>. QED
      BY <2>3, <3>1 DEF CommitAccounts, ToggleInv, NoUpsert, TypeOK
  <2>4. CASE AbortAccounts
    BY <2>4 DEF AbortAccounts, ToggleInv, NoUpsert
  <2>5. ASSUME NEW jars \in SUBSET Jar, ReadFlags(jars) PROVE ToggleInv'
    BY <2>5 DEF ReadFlags, ToggleInv
  <2>6. CASE CommitFlags
    <3>1. ASSUME NEW j \in Jar, j \in DOMAIN toggle
          PROVE  /\ account'[j].present /\ account[j].present
                 /\ account'[j].is_budget = ~account[j].is_budget
                 /\ toggled'[j] = ~toggled[j]
      <4>1. account'[j] = [account[j] EXCEPT !.is_budget = toggle[j]]
        BY <2>6, <3>1 DEF CommitFlags
      <4>2. account[j].present /\ toggle[j] = ~account[j].is_budget
        BY <3>1 DEF ToggleInv
      <4>3. toggled'[j] = ~toggled[j]
        BY <2>6, <3>1, Zenon DEF CommitFlags
      <4>. QED
        BY <2>1, <4>1, <4>2, <4>3 DEF Row
    <3>2. ASSUME NEW j \in Jar, j \notin DOMAIN toggle
          PROVE  account'[j] = account[j] /\ toggled'[j] = toggled[j]
      BY <2>6, <3>2, Zenon DEF CommitFlags
    <3>3. ASSUME NEW j \in Jar
          PROVE  account'[j].is_budget = toggled'[j] /\ account'[j].present = account[j].present
      <4>1. CASE j \in DOMAIN toggle
        <5>1. account[j].is_budget = toggled[j] /\ account[j].present = TRUE /\ account'[j].present = TRUE
          BY <2>1, <3>1, <4>1 DEF ToggleInv, Row
        <5>2. account'[j].is_budget = (~account[j].is_budget) /\ toggled'[j] = (~toggled[j])
          BY <3>1, <4>1
        <5>. QED
          BY <5>1, <5>2, Zenon
      <4>2. CASE j \notin DOMAIN toggle
        BY <3>2, <4>2 DEF ToggleInv
      <4>. QED
        BY <4>1, <4>2
    <3>4. upsert' = upsert /\ DOMAIN toggle' = {}
      BY <2>6, EmptyTypes DEF CommitFlags
    <3>5. \A j \in Jar : account'[j].present \/ ~account'[j].is_budget
      BY <2>1, <3>1, <3>2 DEF ToggleInv
    <3>. QED
      BY <3>3, <3>4, <3>5 DEF ToggleInv
  <2>7. CASE UNCHANGED <<account, upsert, toggle, toggled>>
    BY <2>7 DEF ToggleInv
  <2>. QED
    BY <2>2, <2>3, <2>4, <2>5, <2>6, <2>7 DEF Next, vars, SyncStatement, Merge, Operate, Tick
<1>3. ToggleInv => TogglesAreKept
  BY DEF ToggleInv, TogglesAreKept
<1>. QED
  BY <1>1, <1>2, <1>3, LedgerTypes, PTL DEF Spec

-----------------------------------------------------------------------------
(* Statements.  An operation is made now, which is at or after the end of all  *)
(* that the statements cover, so only a statement can bring it in; and one     *)
(* that goes on where the last one ended reaches back to that end.             *)

CoverInv ==
    /\ NothingIsMissed
    /\ \A j \in Jar : covered[j].to <= now

\* The second of an operation, and the span of a jar.
LEMMA TimesAreInt ==
    ASSUME TypeOK, NEW j \in Jar
    PROVE  /\ now \in Int /\ covered[j].from \in Int /\ covered[j].to \in Int
           /\ \A op \in Range(bank[j]) : op.time \in Int
BY RangeType DEF TypeOK, Transaction

\* Whatever the intervals between its syncs, a jar has every operation of the span
\* that the last unbroken chain of statements covers.
THEOREM NothingIsEverMissed == Spec => []NothingIsMissed
<1>1. Init => CoverInv
  <2>. SUFFICES ASSUME Init, NEW j \in Jar
       PROVE  Range(bank[j]) = {} /\ covered[j].to <= now
    BY DEF CoverInv, NothingIsMissed
  <2>1. bank[j] = <<>> /\ DOMAIN <<>> = {}
    BY DEF Init
  <2>. QED
    BY <2>1 DEF Init, Range
<1>2. TypeOK /\ CoverInv /\ [Next]_vars => CoverInv'
  <2>. SUFFICES ASSUME TypeOK, CoverInv, [Next]_vars PROVE CoverInv'
    OBVIOUS
  <2>1. ASSUME NEW j \in Jar, NEW amount \in Amount, Operate(j, amount) PROVE CoverInv'
    <3>. DEFINE new == [id |-> Len(bank[j]) + 1, time |-> now,
                        amount |-> amount, balance |-> Balance(j) + amount]
    <3>1. bank' = [bank EXCEPT ![j] = Append(bank[j], new)]
      BY <2>1 DEF Operate
    <3>2. UNCHANGED <<now, stored, covered>> /\ new.time = now
      BY <2>1 DEF Operate
    <3>. HIDE DEF new
    <3>3. Range(Append(bank[j], new)) \subseteq Range(bank[j]) \cup {new}
      <4>1. bank[j] \in Seq(Transaction)
        BY DEF TypeOK
      <4>2. /\ DOMAIN bank[j] = 1 .. Len(bank[j]) /\ Len(bank[j]) \in Nat
            /\ DOMAIN Append(bank[j], new) = 1 .. Len(bank[j]) + 1
            /\ \A i \in 1 .. Len(bank[j]) : Append(bank[j], new)[i] = bank[j][i]
            /\ Append(bank[j], new)[Len(bank[j]) + 1] = new
        BY <4>1
      <4>3. ASSUME NEW i \in 1 .. Len(bank[j]) + 1
            PROVE  Append(bank[j], new)[i] \in Range(bank[j]) \cup {new}
        <5>1. CASE i \in 1 .. Len(bank[j])
          BY <4>2, <5>1 DEF Range
        <5>2. CASE i = Len(bank[j]) + 1
          BY <4>2, <5>2
        <5>. QED
          BY <4>2, <5>1, <5>2
      <4>. QED
        BY <4>2, <4>3 DEF Range
    <3>4. ASSUME NEW k \in Jar, NEW op \in Range(bank'[k]),
                 covered[k].from <= op.time, op.time < covered[k].to
          PROVE  op \in stored[k]
      <4>1. op \in Range(bank[k]) \/ op = new
        BY <3>1, <3>3 DEF TypeOK
      <4>2. op # new
        BY <3>2, <3>4, TimesAreInt DEF CoverInv
      <4>. QED
        BY <3>4, <4>1, <4>2 DEF CoverInv, NothingIsMissed
    <3>. QED
      BY <3>2, <3>4 DEF CoverInv, NothingIsMissed
  <2>2. ASSUME NEW j \in Jar, SyncStatement(j) PROVE CoverInv'
    <3>1. PICK to \in {now, now - 1} : Merge(j, to)
      BY <2>2 DEF SyncStatement
    <3>2. to \in Int /\ to <= now /\ Window \in Nat
      BY LedgerAssumption DEF TypeOK
    <3>3. /\ stored'[j] = stored[j] \cup Statement(j, to - Window, to)
          /\ covered'[j] = Extended(covered[j], to)
          /\ \A k \in Jar : k # j => stored'[k] = stored[k] /\ covered'[k] = covered[k]
          /\ UNCHANGED <<now, bank>>
      BY <3>1 DEF Merge, TypeOK
    <3>4. covered[j] \in Span /\ covered[j].to <= now
      BY DEF CoverInv, TypeOK, Span
    <3>5. covered'[j].to <= now
      BY <3>2, <3>3, <3>4 DEF Extended, Span
    <3>6. ASSUME NEW op \in Range(bank[j]),
                 covered'[j].from <= op.time, op.time < covered'[j].to
          PROVE  op \in stored'[j]
      <4>1. op.time \in Int
        BY TimesAreInt
      <4>2. \/ covered[j].from <= op.time /\ op.time < covered[j].to
            \/ to - Window <= op.time /\ op.time <= to
        BY <3>2, <3>3, <3>4, <3>6, <4>1 DEF Extended, Span
      <4>. QED
        BY <3>3, <3>6, <4>2 DEF CoverInv, NothingIsMissed, Statement
    <3>. QED
      BY <3>3, <3>5, <3>6 DEF CoverInv, NothingIsMissed
  <2>3. CASE Tick
    BY <2>3, TimesAreInt DEF Tick, CoverInv, NothingIsMissed
  <2>4. CASE UNCHANGED <<now, bank, stored, covered>>
    BY <2>4 DEF CoverInv, NothingIsMissed
  <2>. QED
    BY <2>1, <2>2, <2>3, <2>4
    DEF Next, vars, FetchAccounts, CommitAccounts, AbortAccounts, ReadFlags, CommitFlags
<1>3. CoverInv => NothingIsMissed
  BY DEF CoverInv
<1>. QED
  BY <1>1, <1>2, <1>3, LedgerTypes, PTL DEF Spec
=============================================================================
