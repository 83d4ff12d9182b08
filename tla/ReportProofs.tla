---------------------------- MODULE ReportProofs ----------------------------
(***************************************************************************)
(* The sums and the chain of the monthly reports, for any number of        *)
(* operations and any calendar.  Total is a fold over a finite set; what   *)
(* it gives is proved by induction in the form of a smallest subset        *)
(* without the property.                                                   *)
(***************************************************************************)
EXTENDS LedgerProofs, FiniteSetTheorems

-----------------------------------------------------------------------------
(* Induction over the subsets of a finite set. *)

\* Of a set of subsets of a finite set, one has none of the others in it.
LEMMA SmallestSubset ==
    ASSUME NEW S, IsFiniteSet(S), NEW F, F \subseteq SUBSET S, F # {}
    PROVE  \E T \in F : \A U \in F : U \subseteq T => U = T
<1>1. FiniteSubsetsOf(S) = SUBSET S
  BY FS_FiniteSubsetsOfFinite
<1>2. \E T \in F : \A U \in F : ~ (<<U, T>> \in StrictSubsetOrdering(S))
  <2>1. IsWellFoundedOn(StrictSubsetOrdering(S), FiniteSubsetsOf(S))
    BY FS_StrictSubsetOrderingWellFounded
  <2>. QED
    BY <1>1, <2>1, WFMin
<1>. QED
  BY <1>2 DEF StrictSubsetOrdering

\* A set of subsets of S with every subset whose proper subsets are all in it has
\* all subsets.
LEMMA SubsetInduction ==
    ASSUME NEW S, IsFiniteSet(S), NEW F,
           \A T \in SUBSET S :
              (\A U \in SUBSET T : U # T => U \in F) => T \in F
    PROVE  \A T \in SUBSET S : T \in F
<1>. DEFINE Bad == {T \in SUBSET S : T \notin F}
<1>1. SUFFICES ASSUME Bad # {} PROVE FALSE
  OBVIOUS
<1>2. PICK T \in Bad : \A U \in Bad : U \subseteq T => U = T
  <2>. HIDE DEF Bad
  <2>1. Bad \subseteq SUBSET S
    BY DEF Bad
  <2>. QED
    BY <1>1, <2>1, SmallestSubset
<1>3. \A U \in SUBSET T : U # T => U \in F
  BY <1>2
<1>. QED
  BY <1>2, <1>3

-----------------------------------------------------------------------------
(* Total. *)

\* The element that Total takes first.
Picked(s) == CHOOSE t \in s : TRUE

\* What Total adds to the rest of the set.
SumStep(f, s) == IF s = {} THEN 0 ELSE Picked(s).amount + f[s \ {Picked(s)}]

\* f sums every subset of T.
SumsOf(f, T) == f = [s \in SUBSET T |-> SumStep(f, s)]

LEMMA PickedIn == \A s : s # {} => Picked(s) \in s
BY DEF Picked

LEMMA TotalIsSum ==
    ASSUME NEW S
    PROVE  Total(S) = (CHOOSE f : SumsOf(f, S))[S]
BY DEF Total, MapThenSumSet, MapThenFoldSet, SumsOf, SumStep, Picked

\* There is one sum.
LEMMA SumsAgree ==
    ASSUME NEW S, IsFiniteSet(S), NEW T \in SUBSET S, NEW U \in SUBSET S,
           NEW f, NEW g, SumsOf(f, T), SumsOf(g, U)
    PROVE  \A s \in SUBSET (T \cap U) : f[s] = g[s]
<1>. DEFINE F == {s \in SUBSET (T \cap U) : f[s] = g[s]}
<1>1. IsFiniteSet(T \cap U)
  BY FS_Subset
<1>2. ASSUME NEW s \in SUBSET (T \cap U), \A r \in SUBSET s : r # s => r \in F
      PROVE  s \in F
  <2>1. f[s] = SumStep(f, s) /\ g[s] = SumStep(g, s)
    BY DEF SumsOf
  <2>2. s # {} => s \ {Picked(s)} \in F
    BY <1>2, PickedIn
  <2>. QED
    BY <2>1, <2>2 DEF SumStep
<1>3. \A s \in SUBSET (T \cap U) : s \in F
  <2>. HIDE DEF F
  <2>. QED
    BY <1>1, <1>2, SubsetInduction
<1>. QED
  BY <1>3

\* And there is one.
LEMMA SumExists ==
    ASSUME NEW S, IsFiniteSet(S)
    PROVE  \E f : SumsOf(f, S)
<1>. DEFINE F == {T \in SUBSET S : \E f : SumsOf(f, T)}
            Sum(T) == (CHOOSE f : SumsOf(f, T))[T]
<1>1. ASSUME NEW T \in SUBSET S, \A U \in SUBSET T : U # T => U \in F
      PROVE  T \in F
  <2>. DEFINE h == [s \in SUBSET T |-> IF s = {} THEN 0
                                       ELSE Picked(s).amount + Sum(s \ {Picked(s)})]
  <2>1. ASSUME NEW U \in SUBSET T, U # T
        PROVE  h[U] = Sum(U)
    <3>1. PICK f : f = (CHOOSE g : SumsOf(g, U)) /\ SumsOf(f, U)
      BY <1>1, <2>1
    <3>2. CASE U = {}
      <4>1. f[U] = 0
        BY <3>1, <3>2 DEF SumsOf, SumStep
      <4>. QED
        BY <3>1, <3>2, <4>1
    <3>3. CASE U # {}
      <4>. DEFINE V == U \ {Picked(U)}
      <4>1. V \in SUBSET U /\ V # U /\ V \in SUBSET T /\ V # T
        BY <3>3, PickedIn
      <4>2. PICK g : g = (CHOOSE k : SumsOf(k, V)) /\ SumsOf(g, V)
        BY <1>1, <4>1
      <4>3. f[V] = g[V]
        <5>1. V \in SUBSET (U \cap V)
          BY <4>1
        <5>2. U \in SUBSET S /\ V \in SUBSET S
          BY <4>1
        <5>. HIDE DEF V
        <5>. QED
          BY <3>1, <4>2, <5>1, <5>2, SumsAgree
      <4>4. f[U] = Picked(U).amount + f[V]
        BY <3>1, <3>3 DEF SumsOf, SumStep
      <4>5. h[U] = Picked(U).amount + g[V]
        BY <2>1, <3>3, <4>2
      <4>. QED
        BY <3>1, <4>3, <4>4, <4>5
    <3>. QED
      BY <3>2, <3>3
  <2>2. ASSUME NEW s \in SUBSET T PROVE h[s] = SumStep(h, s)
    <3>1. CASE s = {}
      BY <3>1 DEF SumStep
    <3>2. CASE s # {}
      <4>. DEFINE r == s \ {Picked(s)}
      <4>1. r \in SUBSET T /\ r # T
        BY <3>2, PickedIn
      <4>2. h[r] = Sum(r)
        <5>. HIDE DEF h, r
        <5>. QED
          BY <2>1, <4>1
      <4>. QED
        BY <3>2, <4>2 DEF SumStep
    <3>. QED
      BY <3>1, <3>2
  <2>3. h = [s \in SUBSET T |-> h[s]]
    OBVIOUS
  <2>. HIDE DEF h
  <2>4. SumsOf(h, T)
    BY <2>2, <2>3 DEF SumsOf
  <2>. QED
    BY <2>4
<1>2. \A T \in SUBSET S : T \in F
  <2>. HIDE DEF F
  <2>. QED
    BY <1>1, SubsetInduction
<1>. QED
  BY <1>2

\* The two equations of Total.
LEMMA TotalStep ==
    ASSUME NEW S, IsFiniteSet(S)
    PROVE  /\ Total({}) = 0
           /\ S # {} => Total(S) = Picked(S).amount + Total(S \ {Picked(S)})
<1>1. ASSUME NEW T \in SUBSET S
      PROVE  \E f : SumsOf(f, T) /\ Total(T) = f[T]
  <2>1. IsFiniteSet(T)
    BY FS_Subset
  <2>. QED
    BY <2>1, SumExists, TotalIsSum
<1>2. Total({}) = 0
  BY <1>1 DEF SumsOf, SumStep
<1>3. ASSUME S # {} PROVE Total(S) = Picked(S).amount + Total(S \ {Picked(S)})
  <2>. DEFINE R == S \ {Picked(S)}
  <2>0. R \in SUBSET S /\ R \in SUBSET (S \cap R)
    OBVIOUS
  <2>. HIDE DEF R
  <2>1. PICK f : SumsOf(f, S) /\ Total(S) = f[S]
    BY <1>1
  <2>2. PICK g : SumsOf(g, R) /\ Total(R) = g[R]
    BY <1>1, <2>0
  <2>3. f[R] = g[R]
    BY <2>0, <2>1, <2>2, SumsAgree
  <2>4. f[S] = Picked(S).amount + f[R]
    BY <1>3, <2>1 DEF SumsOf, SumStep, R
  <2>. QED
    BY <2>1, <2>2, <2>3, <2>4 DEF R
<1>. QED
  BY <1>2, <1>3

\* A total of whole amounts is whole, and may be taken in any order.
LEMMA TotalAnyOrder ==
    ASSUME NEW S, IsFiniteSet(S), \A t \in S : t.amount \in Int
    PROVE  /\ Total(S) \in Int
           /\ \A t \in S : Total(S) = t.amount + Total(S \ {t})
<1>. DEFINE F == {T \in SUBSET S :
                    /\ Total(T) \in Int
                    /\ \A t \in T : Total(T) = t.amount + Total(T \ {t})}
<1>1. ASSUME NEW T \in SUBSET S, \A U \in SUBSET T : U # T => U \in F
      PROVE  T \in F
  <2>0. IsFiniteSet(T)
    BY FS_Subset
  <2>1. CASE T = {}
    BY <2>0, <2>1, TotalStep
  <2>2. CASE T # {}
    <3>. DEFINE c == Picked(T)
    <3>1. c \in T /\ Total(T) = c.amount + Total(T \ {c}) /\ c.amount \in Int
      BY <2>0, <2>2, TotalStep, PickedIn
    <3>. HIDE DEF c
    <3>2. T \ {c} \in F
      BY <1>1, <3>1
    <3>3. Total(T \ {c}) \in Int /\ Total(T) \in Int
      BY <3>1, <3>2
    <3>4. ASSUME NEW t \in T, t # c
          PROVE  Total(T) = t.amount + Total(T \ {t})
      <4>1. T \ {t} \in F /\ (T \ {c}) \ {t} \in F
        <5>1. T \ {t} \in SUBSET T /\ T \ {t} # T
          OBVIOUS
        <5>2. (T \ {c}) \ {t} \in SUBSET T /\ (T \ {c}) \ {t} # T
          BY <3>1
        <5>. QED
          BY <1>1, <5>1, <5>2
      <4>2. Total(T \ {c}) = t.amount + Total((T \ {c}) \ {t})
        BY <3>2, <3>4
      <4>3. Total(T \ {t}) = c.amount + Total((T \ {t}) \ {c})
        BY <3>1, <3>4, <4>1
      <4>4. (T \ {t}) \ {c} = (T \ {c}) \ {t}
        OBVIOUS
      <4>5. t.amount \in Int /\ Total((T \ {c}) \ {t}) \in Int
        BY <4>1
      <4>. DEFINE rest == Total((T \ {c}) \ {t})
      <4>6. Total(T) = c.amount + (t.amount + rest) /\ Total(T \ {t}) = c.amount + rest
        BY <3>1, <4>2, <4>3, <4>4
      <4>7. rest \in Int
        BY <4>5
      <4>. HIDE DEF rest
      <4>. QED
        BY <3>1, <4>5, <4>6, <4>7
    <3>. QED
      BY <3>1, <3>3, <3>4
  <2>. QED
    BY <2>1, <2>2
<1>2. \A T \in SUBSET S : T \in F
  <2>. HIDE DEF F
  <2>. QED
    BY <1>1, SubsetInduction
<1>3. S \in F
  BY <1>2
<1>. QED
  BY <1>3

-----------------------------------------------------------------------------
(* Induction and greatest elements in an interval. *)

LEMMA IntervalInduction ==
    ASSUME NEW a \in Int, NEW b \in Int, NEW F, a \in F,
           \A n \in a .. (b - 1) : n \in F => n + 1 \in F
    PROVE  \A n \in a .. b : n \in F
<1>. DEFINE G == {T \in SUBSET (a .. b) : \A n \in a .. b : T = a .. n => n \in F}
<1>1. ASSUME NEW T \in SUBSET (a .. b), \A U \in SUBSET T : U # T => U \in G
      PROVE  T \in G
  <2>. SUFFICES ASSUME NEW n \in a .. b, T = a .. n PROVE n \in F
    OBVIOUS
  <2>1. CASE n = a
    BY <2>1
  <2>2. CASE n # a
    <3>1. n - 1 \in a .. (b - 1) /\ n - 1 \in a .. b
      BY <2>2
    <3>2. a .. (n - 1) \in SUBSET T /\ a .. (n - 1) # T
      <4>1. n \in T /\ n \notin a .. (n - 1)
        OBVIOUS
      <4>. QED
        BY <4>1
    <3>3. a .. (n - 1) \in G
      BY <1>1, <3>2
    <3>4. n - 1 \in F
      BY <3>1, <3>3
    <3>. QED
      BY <3>1, <3>4
  <2>. QED
    BY <2>1, <2>2
<1>2. \A T \in SUBSET (a .. b) : T \in G
  <2>1. IsFiniteSet(a .. b)
    BY FS_Interval
  <2>. HIDE DEF G
  <2>. QED
    BY <1>1, <2>1, SubsetInduction
<1>3. ASSUME NEW n \in a .. b PROVE n \in F
  <2>1. a .. n \in SUBSET (a .. b)
    OBVIOUS
  <2>2. a .. n \in G
    BY <1>2, <2>1
  <2>. QED
    BY <2>2
<1>. QED
  BY <1>3

LEMMA HasGreatest ==
    ASSUME NEW a \in Int, NEW b \in Int, NEW T \in SUBSET (a .. b), T # {}
    PROVE  \E x \in T : \A y \in T : y <= x
<1>. SUFFICES ASSUME \A x \in T : \E y \in T : y > x PROVE FALSE
  OBVIOUS
<1>. DEFINE F == {n \in Int : \E y \in T : y >= n}
<1>0. PICK x \in T : x \in a .. b
  BY T # {}
<1>1. a \in F
  BY <1>0
<1>2. ASSUME NEW n \in a .. (b - 1), n \in F PROVE n + 1 \in F
  <2>1. PICK y \in T : y >= n
    BY <1>2
  <2>2. PICK z \in T : z > y
    OBVIOUS
  <2>. QED
    BY <2>1, <2>2
<1>3. b \in F
  <2>1. b \in a .. b
    BY <1>0
  <2>. HIDE DEF F
  <2>. QED
    BY <1>1, <1>2, <2>1, IntervalInduction
<1>. QED
  BY <1>3

LEMMA MonthEndType ==
    ASSUME NEW n \in Month
    PROVE  MonthStart(n) \in Nat /\ MonthEnd(n) \in Nat
<1>1. FirstDay[n] \in Nat /\ FirstDay[n + 1] \in Nat /\ DayLength \in Nat
  BY CalendarAssumption DEF Month
<1>2. \A x, y \in Nat : x * y \in Nat
  OBVIOUS
<1>. QED
  BY <1>1, <1>2, MonthsAbut DEF MonthStart

\* A month that ends by a moment and one that ends after it have between them the
\* month of that moment.
LEMMA MonthOf ==
    ASSUME NEW m \in Month, NEW k \in Month, m < k, NEW time \in Nat,
           MonthEnd(m) <= time, time < MonthEnd(k)
    PROVE  \E n \in m + 1 .. k : MonthStart(n) <= time /\ time < MonthEnd(n)
<1>. SUFFICES ASSUME \A n \in m + 1 .. k : MonthStart(n) <= time => MonthEnd(n) <= time
              PROVE  FALSE
  <2>1. \A n \in m + 1 .. k : n \in Month
    BY CalendarAssumption DEF Month
  <2>2. \A n \in m + 1 .. k : MonthEnd(n) \in Int
    BY <2>1, MonthEndType
  <2>. QED
    BY <2>2
<1>. DEFINE F == {n \in Int : MonthEnd(n) <= time}
<1>1. m \in Int /\ k \in Int /\ m \in F
  BY CalendarAssumption DEF Month
<1>2. ASSUME NEW n \in m .. (k - 1), n \in F PROVE n + 1 \in F
  <2>1. n \in Month /\ n + 1 \in m + 1 .. k /\ n + 1 \in Int
    BY CalendarAssumption DEF Month
  <2>2. MonthStart(n + 1) = MonthEnd(n)
    BY <2>1, MonthsAbut DEF MonthStart
  <2>. DEFINE next == n + 1
  <2>3. MonthEnd(next) \in Int
    <3>1. next \in Month
      BY <2>1, CalendarAssumption DEF Month
    <3>. HIDE DEF next
    <3>. QED
      BY <3>1, MonthEndType
  <2>. QED
    BY <1>2, <2>1, <2>2, <2>3
<1>3. k \in F
  <2>1. k \in m .. k
    BY <1>1
  <2>. HIDE DEF F
  <2>. QED
    BY <1>1, <1>2, <2>1, IntervalInduction
<1>4. MonthEnd(k) \in Int
  BY MonthEndType
<1>. QED
  BY <1>3, <1>4

-----------------------------------------------------------------------------
(* The budget. *)

\* A finite set of transactions that is not empty has a largest amount.
LEMMA LargestAmount ==
    ASSUME NEW S, IsFiniteSet(S), S # {}, \A t \in S : t.amount \in Int
    PROVE  \E t \in S : \A u \in S : t.amount >= u.amount
<1>. DEFINE F == {T \in SUBSET S : T # {} => \E t \in T : \A u \in T : t.amount >= u.amount}
<1>1. ASSUME NEW T \in SUBSET S, \A U \in SUBSET T : U # T => U \in F
      PROVE  T \in F
  <2>. SUFFICES ASSUME T # {} PROVE \E t \in T : \A u \in T : t.amount >= u.amount
    OBVIOUS
  <2>1. PICK c \in T : TRUE
    OBVIOUS
  <2>2. CASE T \ {c} = {}
    BY <2>2
  <2>3. CASE T \ {c} # {}
    <3>0. T \ {c} \in SUBSET T /\ T \ {c} # T
      OBVIOUS
    <3>1. PICK t \in T \ {c} : \A u \in T \ {c} : t.amount >= u.amount
      BY <1>1, <2>3, <3>0
    <3>2. t.amount \in Int /\ c.amount \in Int /\ \A u \in T : u.amount \in Int
      OBVIOUS
    <3>3. CASE t.amount >= c.amount
      BY <3>1, <3>2, <3>3
    <3>4. CASE c.amount > t.amount
      BY <3>1, <3>2, <3>4
    <3>. QED
      BY <3>2, <3>3, <3>4
  <2>. QED
    BY <2>2, <2>3
<1>2. S \in F
  <2>1. \A T \in SUBSET S : T \in F
    <3>. HIDE DEF F
    <3>. QED
      BY <1>1, SubsetInduction
  <2>. QED
    BY <2>1
<1>. QED
  BY <1>2

\* What a month's report moves is the total, whatever the budget is.
LEMMA BudgetAndSpent ==
    ASSUME NEW S \in SUBSET Transaction, IsFiniteSet(S)
    PROVE  Budget(S) \in Int /\ Budget(S) + Spent(S) = Total(S) /\ Total(S) \in Int
<1>1. \A t \in S : t.amount \in Int
  BY DEF Transaction
<1>2. Total(S) \in Int
  BY <1>1, TotalAnyOrder
<1>3. CASE Deposits(S) = {}
  BY <1>2, <1>3 DEF Budget, Spent
<1>4. CASE Deposits(S) # {}
  <2>. DEFINE A == {t.amount : t \in Deposits(S)}
  <2>1. IsFiniteSet(Deposits(S)) /\ \A t \in Deposits(S) : t.amount \in Int
    BY <1>1, FS_Subset DEF Deposits
  <2>2. PICK t \in Deposits(S) : \A u \in Deposits(S) : t.amount >= u.amount
    BY <1>4, <2>1, LargestAmount
  <2>3. Max(A) \in A
    BY <2>2 DEF Max
  <2>4. Max(A) \in Int
    BY <2>1, <2>3
  <2>5. Budget(S) = Max(A)
    BY <1>4 DEF Budget
  <2>. HIDE DEF A
  <2>. QED
    BY <1>2, <2>4, <2>5 DEF Spent
<1>. QED
  BY <1>3, <1>4

-----------------------------------------------------------------------------
(* The bank.  A jar's operations are numbered, are made in the order of the    *)
(* clock, and each leaves the balance before it and its amount.                *)

Before(j, i) == IF i = 1 THEN 0 ELSE bank[j][i - 1].balance

OperationFits(j, i) ==
    /\ bank[j][i].id = i
    /\ bank[j][i].time <= now
    /\ bank[j][i].balance = Before(j, i) + bank[j][i].amount

BankInv ==
    \A j \in Jar :
        /\ \A i \in 1 .. Len(bank[j]) : OperationFits(j, i)
        /\ \A i, k \in 1 .. Len(bank[j]) : i <= k => bank[j][i].time <= bank[j][k].time

\* A jar's operations and their columns.
LEMMA BankTypes ==
    ASSUME TypeOK, NEW j \in Jar
    PROVE  /\ Len(bank[j]) \in Nat /\ DOMAIN bank[j] = 1 .. Len(bank[j])
           /\ \A i \in 1 .. Len(bank[j]) :
                /\ bank[j][i] \in Transaction /\ bank[j][i].time \in Nat
                /\ bank[j][i].amount \in Int /\ bank[j][i].balance \in Int
                /\ bank[j][i].id \in Nat
           /\ Range(bank[j]) = {bank[j][i] : i \in 1 .. Len(bank[j])}
<1>1. bank[j] \in Seq(Transaction)
  BY DEF TypeOK
<1>2. \A i \in 1 .. Len(bank[j]) : bank[j][i] \in Transaction
  BY <1>1, ElementOfSeq
<1>. QED
  BY <1>1, <1>2, LenProperties DEF Range, Transaction

LEMMA BankStep ==
    TypeOK /\ BankInv /\ [Next]_vars => BankInv'
<1>. SUFFICES ASSUME TypeOK, BankInv, [Next]_vars PROVE BankInv'
  OBVIOUS
<1>1. ASSUME NEW j \in Jar, NEW amount \in Amount, Operate(j, amount) PROVE BankInv'
  <2>. DEFINE n == Len(bank[j])
              new == [id |-> n + 1, time |-> now,
                      amount |-> amount, balance |-> Balance(j) + amount]
  <2>1. bank' = [bank EXCEPT ![j] = Append(bank[j], new)] /\ now' = now
    BY <1>1 DEF Operate
  <2>2. /\ new.id = n + 1 /\ new.time = now /\ new.amount = amount
        /\ new.balance = Balance(j) + amount
    OBVIOUS
  <2>3. Balance(j) = Before(j, n + 1)
    <3>1. n = 0 <=> bank[j] = <<>>
      BY EmptySeq DEF TypeOK
    <3>2. n \in Nat
      BY BankTypes
    <3>. QED
      BY <3>1, <3>2 DEF Balance, Before
  <2>. HIDE DEF new
  <2>4. bank[j] \in Seq(Transaction) /\ n \in Nat
    BY BankTypes DEF TypeOK
  <2>5. /\ Len(bank'[j]) = n + 1
        /\ \A i \in 1 .. n : bank'[j][i] = bank[j][i]
        /\ bank'[j][n + 1] = new
    <3>1. bank'[j] = Append(bank[j], new)
      BY <2>1 DEF TypeOK
    <3>. QED
      BY <2>4, <3>1
  <2>6. \A k \in Jar : k # j => bank'[k] = bank[k]
    BY <2>1 DEF TypeOK
  <2>. HIDE DEF n
  <2>7. ASSUME NEW i \in 1 .. n + 1 PROVE OperationFits(j, i)'
    <3>1. CASE i \in 1 .. n
      <4>1. OperationFits(j, i)
        BY <3>1 DEF BankInv, n
      <4>2. Before(j, i)' = Before(j, i)
        <5>1. i # 1 => i - 1 \in 1 .. n
          BY <2>4, <3>1
        <5>. QED
          BY <2>5, <5>1 DEF Before
      <4>. QED
        BY <2>1, <2>5, <3>1, <4>1, <4>2 DEF OperationFits
    <3>2. CASE i = n + 1
      <4>1. Before(j, i)' = Before(j, n + 1)
        <5>1. n + 1 - 1 = n /\ (n # 0 => n \in 1 .. n) /\ (n + 1 = 1 <=> n = 0)
          BY <2>4
        <5>2. n # 0 => bank'[j][n] = bank[j][n]
          BY <2>5, <5>1
        <5>. QED
          BY <3>2, <5>1, <5>2 DEF Before
      <4>2. now <= now
        BY DEF TypeOK
      <4>. QED
        BY <2>1, <2>2, <2>3, <2>5, <3>2, <4>1, <4>2 DEF OperationFits
    <3>. QED
      BY <2>4, <3>1, <3>2
  <2>8. ASSUME NEW i \in 1 .. n + 1, NEW k \in 1 .. n + 1, i <= k
        PROVE  bank'[j][i].time <= bank'[j][k].time
    <3>1. CASE k \in 1 .. n
      <4>1. i \in 1 .. n
        BY <2>4, <2>8, <3>1
      <4>. QED
        BY <2>5, <2>8, <3>1, <4>1 DEF BankInv, n
    <3>2. CASE k = n + 1
      <4>1. bank'[j][i].time <= now
        BY <2>1, <2>7 DEF OperationFits
      <4>. QED
        BY <2>2, <2>5, <3>2, <4>1
    <3>. QED
      BY <2>4, <3>1, <3>2
  <2>9. ASSUME NEW k \in Jar, k # j
        PROVE  /\ \A i \in 1 .. Len(bank'[k]) : OperationFits(k, i)'
               /\ \A i, l \in 1 .. Len(bank'[k]) : i <= l => bank'[k][i].time <= bank'[k][l].time
    BY <2>1, <2>6, <2>9 DEF BankInv, OperationFits, Before
  <2>. QED
    BY <2>5, <2>7, <2>8, <2>9 DEF BankInv
<1>2. CASE Tick
  <2>1. ASSUME NEW j \in Jar, NEW i \in 1 .. Len(bank[j]) PROVE bank[j][i].time <= now + 1
    BY <2>1, BankTypes DEF BankInv, OperationFits, TypeOK
  <2>. QED
    BY <1>2, <2>1 DEF Tick, BankInv, OperationFits, Before
<1>3. CASE UNCHANGED <<now, bank>>
  BY <1>3 DEF BankInv, OperationFits, Before
<1>. QED
  BY <1>1, <1>2, <1>3 DEF Next, vars, SyncStatement, Merge, FetchAccounts, CommitAccounts,
     AbortAccounts, ReadFlags, CommitFlags

\* The operations from the a-th to the b-th move the balance from before the one to
\* after the other.
LEMMA SegmentTotal ==
    ASSUME TypeOK, BankInv, NEW j \in Jar,
           NEW a \in 1 .. Len(bank[j]), NEW b \in a .. Len(bank[j])
    PROVE  Before(j, a) + Total({bank[j][i] : i \in a .. b}) = bank[j][b].balance
<1>. DEFINE n == Len(bank[j])
            Ops(k) == {bank[j][i] : i \in a .. k}
            F == {k \in a .. n : /\ IsFiniteSet(Ops(k))
                                 /\ Before(j, a) + Total(Ops(k)) = bank[j][k].balance}
<1>0. n \in Nat /\ Before(j, a) \in Int
  BY BankTypes DEF Before
<1>1. \A i \in 1 .. n : /\ OperationFits(j, i) /\ bank[j][i].amount \in Int
                        /\ bank[j][i].balance \in Int
  BY BankTypes DEF BankInv
<1>2. a \in F
  <2>1. Ops(a) = {bank[j][a]}
    OBVIOUS
  <2>2. IsFiniteSet(Ops(a))
    BY <2>1, FS_Singleton
  <2>3. Total({bank[j][a]}) = bank[j][a].amount
    <3>. DEFINE x == bank[j][a]
    <3>1. x.amount \in Int
      BY <1>1
    <3>. HIDE DEF x
    <3>2. {x} \ {x} = {} /\ Total({}) = 0
      BY FS_EmptySet, TotalStep
    <3>3. Total({x}) = x.amount + Total({x} \ {x})
      BY <3>1, FS_Singleton, TotalAnyOrder
    <3>4. Total({x} \ {x}) = 0
      BY <3>2, Zenon
    <3>5. Total({x}) = x.amount
      <4>. DEFINE rest == Total({x} \ {x})
                  all == Total({x})
      <4>1. rest = 0 /\ all = x.amount + rest
        BY <3>3, <3>4
      <4>. HIDE DEF rest, all
      <4>2. all = x.amount
        BY <3>1, <4>1
      <4>. QED
        BY <4>2 DEF all
    <3>. QED
      BY <3>5 DEF x
  <2>4. a \in a .. n
    BY <1>0
  <2>5. Before(j, a) + Total(Ops(a)) = bank[j][a].balance
    <3>1. Total(Ops(a)) = bank[j][a].amount
      BY <2>1, <2>3, Zenon
    <3>. HIDE DEF Ops
    <3>. QED
      BY <1>1, <3>1 DEF OperationFits
  <2>. HIDE DEF Ops
  <2>. QED
    BY <2>2, <2>4, <2>5
<1>3. ASSUME NEW k \in a .. (n - 1), k \in F PROVE k + 1 \in F
  <2>. DEFINE x == bank[j][k + 1]
  <2>1. Ops(k + 1) = Ops(k) \cup {x}
    <3>1. a .. (k + 1) = (a .. k) \cup {k + 1}
      OBVIOUS
    <3>. QED
      BY <3>1
  <2>2. k \in 1 .. n /\ k + 1 \in 1 .. n /\ k + 1 \in a .. n
    BY <1>0
  <2>3. x \notin Ops(k)
    <3>1. x.id = k + 1
      BY <1>1, <2>2 DEF OperationFits
    <3>2. ASSUME NEW i \in a .. k PROVE bank[j][i].id # k + 1
      <4>1. i \in 1 .. n /\ i # k + 1
        BY <1>0
      <4>. QED
        BY <1>1, <4>1 DEF OperationFits
    <3>. HIDE DEF x
    <3>. QED
      BY <3>1, <3>2
  <2>4. IsFiniteSet(Ops(k)) /\ IsFiniteSet(Ops(k + 1))
    <3>1. IsFiniteSet(Ops(k))
      BY <1>3
    <3>. HIDE DEF Ops, x
    <3>. QED
      BY <2>1, <3>1, FS_AddElement
  <2>5. \A t \in Ops(k + 1) : t.amount \in Int
    BY <1>1, <2>2
  <2>6. \A t \in Ops(k) : t.amount \in Int
    BY <2>1, <2>5
  <2>7. Total(Ops(k)) \in Int
    <3>. HIDE DEF Ops
    <3>. QED
      BY <2>4, <2>6, TotalAnyOrder
  <2>8. Total(Ops(k + 1)) = x.amount + Total(Ops(k))
    <3>1. Ops(k + 1) \ {x} = Ops(k) /\ x \in Ops(k + 1)
      BY <2>1, <2>3
    <3>. HIDE DEF Ops, x
    <3>2. Total(Ops(k + 1)) = x.amount + Total(Ops(k + 1) \ {x})
      BY <2>4, <2>5, <3>1, TotalAnyOrder
    <3>. QED
      BY <3>1, <3>2
  <2>9. x.balance = bank[j][k].balance + x.amount /\ x.amount \in Int /\ x.balance \in Int
    BY <1>1, <2>2 DEF OperationFits, Before
  <2>10. Before(j, a) + Total(Ops(k)) = bank[j][k].balance /\ bank[j][k].balance \in Int
    BY <1>1, <1>3, <2>2
  <2>11. Before(j, a) + Total(Ops(k + 1)) = x.balance
    <3>. HIDE DEF Ops, x
    <3>. QED
      BY <1>0, <2>7, <2>8, <2>9, <2>10
  <2>. QED
    BY <2>2, <2>4, <2>11
<1>4. b \in F
  <2>1. b \in a .. n /\ a \in Int /\ n \in Int
    BY <1>0
  <2>. HIDE DEF F
  <2>2. \A k \in a .. n : k \in F
    BY <1>2, <1>3, <2>1, IntervalInduction
  <2>. QED
    BY <2>1, <2>2
<1>. QED
  BY <1>4

-----------------------------------------------------------------------------
(* The chain.  A month that has a first transaction and that no gap ends is a  *)
(* run of the bank's operations, a to b; the month after it begins at b + 1,   *)
(* or, if it is empty, the balance of the jar is the one that b left.          *)

\* The operations of a jar are finitely many.
LEMMA FiniteOperations ==
    ASSUME TypeOK, NEW j \in Jar
    PROVE  IsFiniteSet(Range(bank[j]))
<1>1. bank[j] \in Surjection(1 .. Len(bank[j]), Range(bank[j]))
  <2>1. bank[j] \in [1 .. Len(bank[j]) -> Range(bank[j])]
    <3>1. bank[j] = [i \in 1 .. Len(bank[j]) |-> bank[j][i]]
      BY DEF TypeOK
    <3>. QED
      BY <3>1, BankTypes
  <2>2. \A t \in Range(bank[j]) : \E i \in 1 .. Len(bank[j]) : bank[j][i] = t
    BY BankTypes
  <2>. QED
    BY <2>1, <2>2, Zenon DEF Surjection
<1>. QED
  BY <1>1, BankTypes, FS_NatSurjection DEF ExistsSurjection

\* The one first transaction of a set, and what a report of the set starts from.
LEMMA FirstOperation ==
    ASSUME TypeOK, BankInv, NEW j \in Jar,
           NEW txs \in SUBSET Range(bank[j]), HasFirst(txs), NEW balance
    PROVE  \E a \in 1 .. Len(bank[j]) :
             /\ bank[j][a] \in txs
             /\ \A t \in txs : bank[j][a].time <= t.time
             /\ \A t \in txs : t.time = bank[j][a].time => t = bank[j][a]
             /\ StartBalances(txs, balance) = {Before(j, a)}
<1>1. IsFiniteSet(Earliest(txs))
  <2>1. Earliest(txs) \in SUBSET Range(bank[j])
    BY DEF Earliest
  <2>. QED
    BY <2>1, FiniteOperations, FS_Subset
<1>2. PICK f : Earliest(txs) = {f}
  BY <1>1, FS_Singleton DEF HasFirst
<1>3. f \in txs /\ \A t \in txs : f.time <= t.time
  BY <1>2 DEF Earliest
<1>4. PICK a \in 1 .. Len(bank[j]) : f = bank[j][a]
  BY <1>3, BankTypes
<1>5. ASSUME NEW t \in txs, t.time = f.time PROVE t = f
  <2>1. t \in Earliest(txs)
    BY <1>3, <1>5 DEF Earliest
  <2>. QED
    BY <1>2, <2>1
<1>6. StartBalances(txs, balance) = {f.balance - f.amount}
  BY <1>2, <1>3 DEF StartBalances
<1>7. f.balance - f.amount = Before(j, a)
  <2>1. Before(j, a) \in Int /\ f.amount \in Int
    BY <1>4, BankTypes DEF Before
  <2>. QED
    BY <1>4, <2>1 DEF BankInv, OperationFits
<1>. QED
  BY <1>3, <1>4, <1>5, <1>6, <1>7

\* A transaction of a month, in terms of its second.
LEMMA InMonthAt ==
    ASSUME NEW m \in Month, NEW rows, NEW t
    PROVE  t \in InMonth(rows, m) <=>
             t \in rows /\ MonthStart(m) <= t.time /\ t.time < MonthEnd(m)
BY DEF InMonth

\* The transactions of month m are the operations a to b, every later one before the
\* given moment is stored, and the month's report leads to the balance that b left.
IsSegment(j, m, end, balance, a, b) ==
    /\ \A i \in 1 .. Len(bank[j]) : bank[j][i].time < MonthEnd(m) <=> i <= b
    /\ bank[j][b] \in InMonth(stored[j], m)
    /\ \A i \in a .. Len(bank[j]) : bank[j][i].time < end => bank[j][i] \in stored[j]
    /\ \A s \in StartBalances(InMonth(stored[j], m), balance) :
         s + Total(InMonth(stored[j], m)) = bank[j][b].balance

\* A month without a gap after its first transaction is a run of operations, and what
\* its report starts from and moves is the balance after the last of them.
LEMMA MonthIsSegment ==
    ASSUME TypeOK, BankInv, NEW j \in Jar, NEW m \in Month, NEW end \in Nat,
           MonthEnd(m) <= end,
           HasFirst(InMonth(stored[j], m)), Gapless(j, InMonth(stored[j], m), end),
           NEW balance
    PROVE  \E a \in 1 .. Len(bank[j]) : \E b \in a .. Len(bank[j]) :
             IsSegment(j, m, end, balance, a, b)
<1>. DEFINE txs == InMonth(stored[j], m)
            n == Len(bank[j])
<1>1. txs \in SUBSET Range(bank[j]) /\ \A t \in txs : t \in stored[j]
  BY DEF InMonth, TypeOK
<1>2. /\ n \in Nat /\ MonthEnd(m) \in Nat /\ MonthStart(m) \in Nat
      /\ \A i \in 1 .. n : bank[j][i].time \in Nat
      /\ \A i, k \in 1 .. n : i <= k => bank[j][i].time <= bank[j][k].time
      /\ Range(bank[j]) = {bank[j][i] : i \in 1 .. n}
  BY BankTypes, MonthEndType DEF BankInv
<1>3. PICK a \in 1 .. n :
        /\ bank[j][a] \in txs
        /\ \A t \in txs : bank[j][a].time <= t.time
        /\ \A t \in txs : t.time = bank[j][a].time => t = bank[j][a]
        /\ StartBalances(txs, balance) = {Before(j, a)}
  <2>. HIDE DEF txs
  <2>1. HasFirst(txs)
    BY DEF txs
  <2>. QED
    BY <1>1, <2>1, FirstOperation
<1>4. MonthStart(m) <= bank[j][a].time /\ bank[j][a].time < MonthEnd(m)
  BY <1>3, InMonthAt
<1>5. ASSUME NEW i \in a .. n, bank[j][i].time < end
      PROVE  bank[j][i] \in stored[j]
  <2>1. i \in 1 .. n /\ bank[j][a].time <= bank[j][i].time
    BY <1>2
  <2>. QED
    BY <1>2, <1>3, <1>5, <2>1 DEF Gapless
<1>6. PICK b \in a .. n : /\ bank[j][b].time < MonthEnd(m)
                          /\ \A i \in a .. n : bank[j][i].time < MonthEnd(m) => i <= b
  <2>. DEFINE T == {i \in a .. n : bank[j][i].time < MonthEnd(m)}
  <2>1. a \in T /\ T \in SUBSET (a .. n) /\ a \in Int /\ n \in Int
    BY <1>2, <1>4
  <2>. HIDE DEF T
  <2>2. PICK b \in T : \A i \in T : i <= b
    BY <2>1, HasGreatest
  <2>. QED
    BY <2>2 DEF T
<1>7. ASSUME NEW i \in 1 .. n PROVE bank[j][i].time < MonthEnd(m) <=> i <= b
  <2>1. CASE i <= b
    <3>1. bank[j][i].time <= bank[j][b].time /\ b \in 1 .. n
      BY <1>2, <2>1
    <3>. QED
      BY <1>2, <1>6, <2>1, <3>1
  <2>2. CASE i > b
    <3>1. i \in a .. n
      BY <1>2, <2>2
    <3>. QED
      BY <1>2, <1>6, <2>2, <3>1
  <2>. QED
    BY <1>2, <2>1, <2>2
<1>8. txs = {bank[j][i] : i \in a .. b}
  <2>1. ASSUME NEW i \in a .. b PROVE bank[j][i] \in txs
    <3>1. i \in 1 .. n /\ i \in a .. n /\ i <= b
      BY <1>2
    <3>2. bank[j][i].time < MonthEnd(m) /\ bank[j][a].time <= bank[j][i].time
      BY <1>2, <1>7, <3>1
    <3>3. bank[j][i] \in stored[j]
      BY <1>2, <1>5, <3>1, <3>2
    <3>. QED
      BY <1>2, <1>4, <3>1, <3>2, <3>3, InMonthAt
  <2>2. ASSUME NEW t \in txs PROVE t \in {bank[j][i] : i \in a .. b}
    <3>1. PICK i \in 1 .. n : t = bank[j][i]
      BY <1>1, <1>2
    <3>2. i <= b
      BY <1>7, <3>1, InMonthAt
    <3>3. ~ (i < a)
      <4>1. SUFFICES ASSUME i < a PROVE FALSE
        OBVIOUS
      <4>2. bank[j][i].time <= bank[j][a].time
        BY <1>2, <4>1
      <4>3. t = bank[j][a]
        BY <1>2, <1>3, <3>1, <4>2
      <4>4. t.id = i /\ bank[j][a].id = a
        BY <3>1 DEF BankInv, OperationFits
      <4>. QED
        BY <4>1, <4>3, <4>4
    <3>. QED
      BY <3>1, <3>2, <3>3
  <2>. QED
    BY <2>1, <2>2
<1>9. bank[j][b] \in txs
  <2>1. b \in a .. b
    BY <1>2
  <2>. QED
    BY <1>8, <2>1
<1>10. Before(j, a) + Total(txs) = bank[j][b].balance
  BY <1>8, SegmentTotal
<1>. HIDE DEF txs
<1>11. \A s \in StartBalances(txs, balance) : s + Total(txs) = bank[j][b].balance
  BY <1>3, <1>10
<1>. QED
  BY <1>5, <1>6, <1>7, <1>9, <1>11 DEF txs, IsSegment

\* The reports of a jar follow from each other.
LEMMA ChainHolds == TypeOK /\ BankInv => ReportsChain
<1>. SUFFICES ASSUME TypeOK, BankInv,
                     NEW j \in Jar, NEW m \in Month, NEW k \in Month, m < k,
                     InMonth(stored[j], m) # {}, HasFirst(InMonth(stored[j], m)),
                     \A n \in m + 1 .. k - 1 : InMonth(stored[j], n) = {},
                     Gapless(j, InMonth(stored[j], m), MonthEnd(k)),
                     IF InMonth(stored[j], k) # {} THEN HasFirst(InMonth(stored[j], k))
                     ELSE /\ UpToDate(j, stored[j])
                          /\ \A t \in stored[j] : t.time < MonthEnd(k),
                     NEW s \in StartBalances(InMonth(stored[j], m), account[j].balance),
                     NEW next \in StartBalances(InMonth(stored[j], k), account[j].balance)
              PROVE  next = s + Budget(InMonth(stored[j], m)) + Spent(InMonth(stored[j], m))
  BY DEF ReportsChain
<1>. DEFINE earlier == InMonth(stored[j], m)
            later == InMonth(stored[j], k)
            n == Len(bank[j])
<1>1. /\ m \in Int /\ k \in Int
      /\ MonthEnd(m) \in Nat /\ MonthEnd(k) \in Nat /\ MonthEnd(m) <= MonthStart(k)
      /\ MonthStart(k) < MonthEnd(k) /\ MonthStart(k) \in Nat
  <2>1. m \in Int /\ k \in Int
    BY CalendarAssumption DEF Month
  <2>2. MonthEnd(m) = FirstDay[m + 1] * DayLength
    BY MonthsAbut
  <2>3. FirstDay[m + 1] <= FirstDay[k] /\ FirstDay[m + 1] \in Nat /\ FirstDay[k] \in Nat
    BY <2>1, CalendarAssumption DEF Month
  <2>4. \A x, y, d \in Nat : x <= y => x * d <= y * d
    OBVIOUS
  <2>5. MonthEnd(m) <= MonthStart(k)
    BY <2>2, <2>3, <2>4, CalendarAssumption DEF MonthStart
  <2>. QED
    BY <2>1, <2>5, MonthEndType, MonthsAbut
<1>2. PICK a \in 1 .. n : \E b \in a .. n :
        IsSegment(j, m, MonthEnd(k), account[j].balance, a, b)
  <2>1. MonthEnd(m) <= MonthEnd(k)
    BY <1>1
  <2>. QED
    BY <1>1, <2>1, MonthIsSegment
<1>3. PICK b \in a .. n :
        /\ \A i \in 1 .. n : bank[j][i].time < MonthEnd(m) <=> i <= b
        /\ bank[j][b] \in earlier
        /\ \A i \in a .. n : bank[j][i].time < MonthEnd(k) => bank[j][i] \in stored[j]
        /\ \A v \in StartBalances(earlier, account[j].balance) :
             v + Total(earlier) = bank[j][b].balance
  BY <1>2 DEF IsSegment
<1>4. /\ n \in Nat /\ \A i \in 1 .. n : bank[j][i].time \in Nat /\ bank[j][i].id = i
      /\ \A i, l \in 1 .. n : i <= l => bank[j][i].time <= bank[j][l].time
      /\ Range(bank[j]) = {bank[j][i] : i \in 1 .. n}
      /\ bank[j][b].balance \in Int
  <2>1. b \in 1 .. n
    BY BankTypes
  <2>. QED
    BY <2>1, BankTypes DEF BankInv, OperationFits
<1>5. ASSUME NEW i \in 1 .. n, i > b, bank[j][i] \in stored[j], bank[j][i].time < MonthEnd(k)
      PROVE  bank[j][i] \in later
  <2>1. MonthEnd(m) <= bank[j][i].time
    BY <1>1, <1>3, <1>4, <1>5
  <2>2. PICK l \in m + 1 .. k : MonthStart(l) <= bank[j][i].time /\ bank[j][i].time < MonthEnd(l)
    BY <1>4, <1>5, <2>1, MonthOf
  <2>3. l \in Month
    BY <1>1, CalendarAssumption DEF Month
  <2>4. bank[j][i] \in InMonth(stored[j], l)
    BY <1>5, <2>2, <2>3, InMonthAt
  <2>5. l = k
    BY <1>1, <2>4
  <2>. QED
    BY <2>4, <2>5
<1>6. next = bank[j][b].balance
  <2>1. CASE later = {}
    <3>1. \A t \in stored[j] : t.id <= bank[j][b].id
      <4>. SUFFICES ASSUME NEW t \in stored[j] PROVE t.id <= bank[j][b].id
        OBVIOUS
      <4>1. PICK i \in 1 .. n : t = bank[j][i]
        BY <1>4 DEF TypeOK
      <4>2. ~ (i > b)
        BY <1>5, <2>1, <4>1
      <4>. QED
        BY <1>4, <4>1, <4>2
    <3>2. bank[j][b] \in stored[j]
      BY <1>3, InMonthAt
    <3>3. account[j].balance = bank[j][b].balance
      BY <2>1, <3>1, <3>2 DEF UpToDate
    <3>. QED
      BY <2>1, <3>3 DEF StartBalances
  <2>2. CASE later # {}
    <3>1. HasFirst(later) /\ later \in SUBSET Range(bank[j])
      BY <2>2 DEF InMonth, TypeOK
    <3>. HIDE DEF later
    <3>2. PICK c \in 1 .. n : /\ bank[j][c] \in later
                              /\ \A t \in later : bank[j][c].time <= t.time
                              /\ \A t \in later : t.time = bank[j][c].time => t = bank[j][c]
                              /\ StartBalances(later, account[j].balance) = {Before(j, c)}
      BY <3>1, FirstOperation
    <3>3. bank[j][c].time < MonthEnd(k) /\ MonthStart(k) <= bank[j][c].time
      BY <3>2, InMonthAt DEF later
    <3>4. c > b
      BY <1>1, <1>3, <1>4, <3>2, <3>3
    <3>5. c = b + 1
      <4>. DEFINE i == b + 1
      <4>1. i \in 1 .. n /\ i \in a .. n /\ i > b /\ i <= c
        BY <1>4, <3>4
      <4>. HIDE DEF i
      <4>2. bank[j][i].time <= bank[j][c].time
        BY <1>4, <4>1
      <4>3. bank[j][i].time < MonthEnd(k)
        <5>1. bank[j][i].time \in Nat /\ bank[j][c].time \in Nat /\ MonthEnd(k) \in Nat
          BY <1>1, <1>4, <4>1
        <5>. QED
          BY <3>3, <4>2, <5>1
      <4>4. bank[j][i] \in later
        BY <1>3, <1>5, <4>1, <4>3
      <4>5. bank[j][i] = bank[j][c]
        BY <1>4, <3>2, <4>1, <4>2, <4>4
      <4>6. i = c
        BY <1>4, <4>1, <4>5
      <4>. QED
        BY <4>6 DEF i
    <3>6. Before(j, c) = bank[j][b].balance
      BY <1>4, <3>5 DEF Before
    <3>. QED
      BY <3>2, <3>6 DEF later
  <2>. QED
    BY <2>1, <2>2
<1>7. s + Total(earlier) = bank[j][b].balance
  BY <1>3
<1>8. Budget(earlier) \in Int /\ Budget(earlier) + Spent(earlier) = Total(earlier)
      /\ Total(earlier) \in Int
  <2>1. earlier \in SUBSET Range(bank[j]) /\ earlier \in SUBSET Transaction
    BY RangeType DEF InMonth, TypeOK
  <2>2. IsFiniteSet(earlier)
    BY <2>1, FiniteOperations, FS_Subset
  <2>. HIDE DEF earlier
  <2>. QED
    BY <2>1, <2>2, BudgetAndSpent
<1>9. Spent(earlier) = Total(earlier) - Budget(earlier)
  BY DEF Spent
<1>10. s \in Int
  <2>1. HasFirst(earlier) /\ earlier \in SUBSET Range(bank[j])
    BY DEF InMonth, TypeOK
  <2>2. StartBalances(earlier, account[j].balance) \subseteq Int
    <3>. HIDE DEF earlier
    <3>1. PICK c \in 1 .. n : StartBalances(earlier, account[j].balance) = {Before(j, c)}
      BY <2>1, FirstOperation
    <3>. QED
      BY <3>1, BankTypes DEF Before
  <2>. QED
    BY <2>2
<1>. HIDE DEF earlier
<1>11. next = s + Budget(earlier) + Spent(earlier)
  BY <1>6, <1>7, <1>8, <1>9, <1>10
<1>. QED
  BY <1>11 DEF earlier

\* What the report of a month starts from and moves leads to the next report, over any
\* months without transactions, for every history of the bank and of the syncs.
THEOREM ReportsFollow == Spec => []ReportsChain
<1>1. Init => BankInv
  <2>. SUFFICES ASSUME Init, NEW j \in Jar PROVE Len(bank[j]) = 0
    BY DEF BankInv
  <2>. QED
    BY DEF Init
<1>. QED
  BY <1>1, BankStep, ChainHolds, LedgerTypes, PTL DEF Spec
=============================================================================
