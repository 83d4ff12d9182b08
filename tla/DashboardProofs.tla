-------------------------- MODULE DashboardProofs --------------------------
(***************************************************************************)
(* Proofs about DeployDashboard, for every number of runs, of questions in *)
(* flight and of failures.                                                 *)
(***************************************************************************)
EXTENDS DeployDashboard, SequenceTheorems, TLAPS

-----------------------------------------------------------------------------
(* Questions in flight (qs), a panel (p) and the rows of the service (st).     *)

Status == server!Status

Poll(st) == [run : 1 .. Len(st), load : BOOLEAN, read : Status \cup {Unread}]

\* Of a status that was read: the end of a run.
HasEnded(s) == s \notin Active \cup {Unread}

\* An end that was read is still what the row says.
Queue(qs, st) ==
    /\ qs \in Seq(Poll(st))
    /\ \A i \in DOMAIN qs : HasEnded(qs[i].read) => st[qs[i].run] = qs[i].read

Shown(p, st) ==
    \/ p = Hidden
    \/ /\ p \in [run : 1 .. Len(st), status : Status]
       /\ HasEnded(p.status) => st[p.run] = p.status

\* The oldest questions are the ones that were read, and no question about a run was
\* read as active after its end was read or shown.
InOrder(p, qs) ==
    /\ \A i, j \in DOMAIN qs : i < j /\ qs[i].read = Unread => qs[j].read = Unread
    /\ \A i, j \in DOMAIN qs :
         i < j /\ qs[i].run = qs[j].run /\ HasEnded(qs[i].read) => qs[j].read \notin Active
    /\ \A j \in DOMAIN qs : qs[j].run = p.run /\ HasEnded(p.status) => qs[j].read \notin Active

AllLoad(qs) == \A i \in DOMAIN qs : qs[i].load

\* RemoveAt closes the gap.
LEMMA Removal ==
    ASSUME NEW S, NEW q \in Seq(S), NEW i \in DOMAIN q
    PROVE  /\ RemoveAt(q, i) \in Seq(S)
           /\ Len(RemoveAt(q, i)) = Len(q) - 1 /\ Len(q) \in Nat /\ i \in 1 .. Len(q)
           /\ DOMAIN RemoveAt(q, i) = 1 .. Len(q) - 1 /\ DOMAIN q = 1 .. Len(q)
           /\ \A k \in 1 .. Len(q) - 1 : RemoveAt(q, i)[k] = IF k < i THEN q[k] ELSE q[k + 1]
<1>. DEFINE a == SubSeq(q, 1, i - 1)
            b == SubSeq(q, i + 1, Len(q))
<1>1. Len(q) \in Nat /\ DOMAIN q = 1 .. Len(q) /\ i \in 1 .. Len(q)
  BY LenProperties
<1>2. a \in Seq(S) /\ Len(a) = i - 1 /\ \A k \in 1 .. i - 1 : a[k] = q[k]
  <2>1. \A k \in 1 .. i - 1 : k \in 1 .. Len(q)
    BY <1>1
  <2>2. a \in Seq(S) /\ Len(a) = (IF 1 <= i - 1 THEN i - 1 - 1 + 1 ELSE 0)
        /\ \A k \in 1 .. i - 1 - 1 + 1 : a[k] = q[1 + k - 1]
    BY <1>1, <2>1, SubSeqProperties
  <2>. QED
    BY <1>1, <2>2
<1>3. b \in Seq(S) /\ Len(b) = Len(q) - i /\ \A k \in 1 .. Len(q) - i : b[k] = q[i + k]
  <2>1. \A k \in i + 1 .. Len(q) : k \in 1 .. Len(q)
    BY <1>1
  <2>2. b \in Seq(S) /\ Len(b) = (IF i + 1 <= Len(q) THEN Len(q) - (i + 1) + 1 ELSE 0)
        /\ \A k \in 1 .. Len(q) - (i + 1) + 1 : b[k] = q[i + 1 + k - 1]
    BY <1>1, <2>1, SubSeqProperties
  <2>. QED
    BY <1>1, <2>2
<1>4. RemoveAt(q, i) = a \o b
  BY DEF RemoveAt
<1>. HIDE DEF a, b
<1>5. /\ a \o b \in Seq(S) /\ Len(a \o b) = Len(a) + Len(b)
      /\ \A k \in 1 .. Len(a) + Len(b) :
           (a \o b)[k] = IF k <= Len(a) THEN a[k] ELSE b[k - Len(a)]
  BY <1>2, <1>3, ConcatProperties
<1>6. Len(a) + Len(b) = Len(q) - 1
  BY <1>1, <1>2, <1>3
<1>7. ASSUME NEW k \in 1 .. Len(q) - 1
      PROVE  (a \o b)[k] = IF k < i THEN q[k] ELSE q[k + 1]
  <2>1. CASE k < i
    BY <1>1, <1>2, <1>5, <1>6, <2>1
  <2>2. CASE ~(k < i)
    <3>1. k - Len(a) \in 1 .. Len(q) - i /\ i + (k - Len(a)) = k + 1 /\ ~(k <= Len(a))
      BY <1>1, <1>2, <2>2
    <3>2. (a \o b)[k] = b[k - Len(a)] /\ b[k - Len(a)] = q[i + (k - Len(a))]
      BY <1>3, <1>5, <1>6, <3>1
    <3>. QED
      BY <2>2, <3>1, <3>2
  <2>. QED
    BY <2>1, <2>2
<1>8. DOMAIN (a \o b) = 1 .. Len(q) - 1
  BY <1>5, <1>6, LenProperties
<1>. QED
  BY <1>1, <1>4, <1>5, <1>6, <1>7, <1>8

\* A question is answered or fails: the others keep their order.
LEMMA Dropped ==
    ASSUME NEW st, NEW p, NEW qs, Queue(qs, st), NEW i \in DOMAIN qs
    PROVE  /\ Queue(RemoveAt(qs, i), st) /\ Len(RemoveAt(qs, i)) = Len(qs) - 1
           /\ AllLoad(qs) => AllLoad(RemoveAt(qs, i))
           /\ InOrder(p, qs) => InOrder(p, RemoveAt(qs, i))
<1>. DEFINE rest == RemoveAt(qs, i)
            Old(k) == IF k < i THEN k ELSE k + 1
<1>1. /\ rest \in Seq(Poll(st)) /\ Len(rest) = Len(qs) - 1 /\ Len(qs) \in Nat /\ i \in 1 .. Len(qs)
      /\ DOMAIN rest = 1 .. Len(qs) - 1 /\ DOMAIN qs = 1 .. Len(qs)
      /\ \A k \in 1 .. Len(qs) - 1 : rest[k] = IF k < i THEN qs[k] ELSE qs[k + 1]
  BY Removal DEF Queue
<1>2. \A k \in DOMAIN rest : Old(k) \in DOMAIN qs /\ rest[k] = qs[Old(k)]
  BY <1>1
<1>3. \A k, l \in DOMAIN rest : k < l => Old(k) < Old(l)
  BY <1>1
<1>. HIDE DEF rest, Old
<1>4. Queue(rest, st)
  BY <1>1, <1>2 DEF Queue
<1>5. AllLoad(qs) => AllLoad(rest)
  BY <1>2 DEF AllLoad
<1>6. InOrder(p, qs) => InOrder(p, rest)
  BY <1>2, <1>3 DEF InOrder
<1>. QED
  BY <1>1, <1>4, <1>5, <1>6 DEF rest

\* The oldest question is answered and shown: the others come after it.
LEMMA Rendered ==
    ASSUME NEW st, NEW p, NEW qs, Queue(qs, st), InOrder(p, qs), 1 \in DOMAIN qs
    PROVE  InOrder([run |-> qs[1].run, status |-> qs[1].read], RemoveAt(qs, 1))
<1>. DEFINE rest == RemoveAt(qs, 1)
            q == [run |-> qs[1].run, status |-> qs[1].read]
<1>1. /\ Len(qs) \in Nat /\ DOMAIN rest = 1 .. Len(qs) - 1 /\ DOMAIN qs = 1 .. Len(qs)
      /\ \A k \in 1 .. Len(qs) - 1 : rest[k] = IF k < 1 THEN qs[k] ELSE qs[k + 1]
  BY Removal DEF Queue
<1>2. \A k \in DOMAIN rest : k + 1 \in DOMAIN qs /\ rest[k] = qs[k + 1] /\ 1 < k + 1
  BY <1>1
<1>3. InOrder(p, rest)
  BY Dropped
<1>4. q.run = qs[1].run /\ q.status = qs[1].read
  OBVIOUS
<1>. HIDE DEF rest, q
<1>5. \A j \in DOMAIN rest : rest[j].run = q.run /\ HasEnded(q.status) => rest[j].read \notin Active
  BY <1>2, <1>4 DEF InOrder
<1>. QED
  BY <1>3, <1>5 DEF InOrder, rest, q

\* A new question is the last one, and not read yet.
LEMMA Asked ==
    ASSUME NEW st, NEW p, NEW qs, Queue(qs, st),
           NEW r \in 1 .. Len(st), NEW l \in BOOLEAN
    PROVE  LET qs2 == Append(qs, Question(r, l))
           IN  /\ Queue(qs2, st) /\ Len(qs2) = Len(qs) + 1 /\ Len(qs) \in Nat
               /\ AllLoad(qs) /\ l => AllLoad(qs2)
               /\ InOrder(p, qs) => InOrder(p, qs2)
<1>. DEFINE qs2 == Append(qs, Question(r, l))
<1>0. Question(r, l) \in Poll(st)
  BY DEF Question, Poll
<1>1. /\ qs2 \in Seq(Poll(st)) /\ Len(qs2) = Len(qs) + 1 /\ Len(qs) \in Nat
      /\ DOMAIN qs = 1 .. Len(qs) /\ DOMAIN qs2 = 1 .. Len(qs) + 1
      /\ \A k \in 1 .. Len(qs) : qs2[k] = qs[k]
      /\ qs2[Len(qs) + 1] = Question(r, l)
  BY <1>0, AppendProperties, LenProperties DEF Queue
<1>2. /\ DOMAIN qs2 = DOMAIN qs \cup {Len(qs) + 1}
      /\ \A k \in DOMAIN qs : qs2[k] = qs[k] /\ k < Len(qs) + 1
      /\ ~(Len(qs) + 1 < Len(qs) + 1) /\ \A k \in DOMAIN qs : ~(Len(qs) + 1 < k)
  BY <1>1
<1>3. /\ qs2[Len(qs) + 1].read = Unread /\ qs2[Len(qs) + 1].load = l
      /\ ~HasEnded(Unread) /\ Unread \notin Active
  BY <1>1 DEF Question, HasEnded, Active, server!Active, Unread
<1>. HIDE DEF qs2
<1>4. Queue(qs2, st)
  BY <1>1, <1>2, <1>3 DEF Queue
<1>5. AllLoad(qs) /\ l => AllLoad(qs2)
  BY <1>2, <1>3 DEF AllLoad
<1>6. InOrder(p, qs) => InOrder(p, qs2)
  BY <1>2, <1>3 DEF InOrder
<1>. QED
  BY <1>1, <1>4, <1>5, <1>6 DEF qs2

\* The service reads the oldest question that it has not read.
LEMMA Looked ==
    ASSUME NEW st \in Seq(Status), NEW p, NEW qs, Queue(qs, st), Shown(p, st),
           NEW i \in DOMAIN qs, qs[i].read = Unread
    PROVE  LET qs2 == [qs EXCEPT ![i].read = st[qs[i].run]]
           IN  /\ Queue(qs2, st) /\ Len(qs2) = Len(qs)
               /\ AllLoad(qs) => AllLoad(qs2)
               /\ InOrder(p, qs) /\ (\A j \in 1 .. i - 1 : qs[j].read # Unread) => InOrder(p, qs2)
<1>. DEFINE row == st[qs[i].run]
            new == [qs[i] EXCEPT !.read = row]
            qs2 == [qs EXCEPT ![i] = new]
<1>1. DOMAIN qs = 1 .. Len(qs) /\ Len(qs) \in Nat /\ i \in 1 .. Len(qs) /\ qs[i] \in Poll(st)
  BY LenProperties, ElementOfSeq DEF Queue
<1>2. row \in Status /\ row # Unread
  <2>1. row \in Status
    BY <1>1, ElementOfSeq DEF Poll
  <2>2. Unread \notin Status
    BY DashboardAssumption DEF Status, server!Status, server!Active, Unread
  <2>. QED
    BY <2>1, <2>2
<1>3. new \in Poll(st) /\ new.run = qs[i].run /\ new.load = qs[i].load /\ new.read = row
  BY <1>1, <1>2 DEF Poll
<1>4. [qs EXCEPT ![i].read = row] = qs2
  OBVIOUS
<1>. HIDE DEF new
<1>5. /\ qs2 \in Seq(Poll(st)) /\ Len(qs2) = Len(qs) /\ DOMAIN qs2 = DOMAIN qs
      /\ qs2[i] = new /\ \A k \in DOMAIN qs : k # i => qs2[k] = qs[k]
  <2>1. qs2 \in Seq(Poll(st)) /\ Len(qs2) = Len(qs)
    BY <1>1, <1>3, ExceptSeq DEF Queue
  <2>. QED
    BY <1>1, <2>1
<1>. HIDE DEF qs2
<1>6. /\ \A k \in DOMAIN qs : qs2[k].run = qs[k].run /\ qs2[k].load = qs[k].load
      /\ qs2[i].read = row
  BY <1>3, <1>5
<1>7. Queue(qs2, st)
  BY <1>3, <1>5 DEF Queue
<1>8. AllLoad(qs) => AllLoad(qs2)
  BY <1>5, <1>6 DEF AllLoad
<1>9. ASSUME InOrder(p, qs), \A j \in 1 .. i - 1 : qs[j].read # Unread
      PROVE  InOrder(p, qs2)
  <2>0. \A k \in DOMAIN qs : k < i => qs[k].read # Unread
    BY <1>1, <1>9
  <2>1. ASSUME NEW k \in DOMAIN qs, NEW j \in DOMAIN qs, k < j, qs2[k].read = Unread
        PROVE  qs2[j].read = Unread
    <3>1. k # i /\ qs[k].read = Unread
      BY <1>2, <1>5, <1>6, <2>1
    <3>2. j # i
      BY <2>0, <2>1, <3>1
    <3>. QED
      BY <1>5, <1>9, <2>1, <3>1, <3>2 DEF InOrder
  <2>2. ASSUME NEW k \in DOMAIN qs, NEW j \in DOMAIN qs, k < j,
               qs2[k].run = qs2[j].run, HasEnded(qs2[k].read)
        PROVE  qs2[j].read \notin Active
    <3>1. CASE k = i
      <4>1. qs[j].read = Unread /\ j # i
        BY <1>1, <1>9, <2>2, <3>1 DEF InOrder
      <4>. QED
        BY <1>5, <4>1 DEF Unread, Active, server!Active
    <3>2. CASE k # i /\ j = i
      <4>1. st[qs[k].run] = qs[k].read /\ HasEnded(qs[k].read)
        BY <1>5, <2>2, <3>2 DEF Queue
      <4>2. row = qs[k].read
        BY <1>6, <2>2, <3>2, <4>1
      <4>. QED
        BY <1>6, <3>2, <4>1, <4>2 DEF HasEnded
    <3>3. CASE k # i /\ j # i
      BY <1>5, <1>9, <2>2, <3>3 DEF InOrder
    <3>. QED
      BY <3>1, <3>2, <3>3
  <2>3. ASSUME NEW j \in DOMAIN qs, qs2[j].run = p.run, HasEnded(p.status)
        PROVE  qs2[j].read \notin Active
    <3>1. CASE j = i
      <4>1. p # Hidden
        BY <2>3 DEF Hidden, HasEnded
      <4>2. row = p.status
        BY <1>6, <2>3, <3>1, <4>1 DEF Shown
      <4>. QED
        BY <1>6, <2>3, <3>1, <4>2 DEF HasEnded
    <3>2. CASE j # i
      BY <1>5, <1>9, <2>3, <3>2 DEF InOrder
    <3>. QED
      BY <3>1, <3>2
  <2>. QED
    BY <1>5, <2>1, <2>2, <2>3 DEF InOrder
<1>. QED
  BY <1>4, <1>5, <1>7, <1>8, <1>9
-----------------------------------------------------------------------------
(* The service.                                                                *)

\* Rows are added and go forward; an end stays.
LEMMA ServiceStep ==
    ASSUME status \in Seq(Status), server!Next
    PROVE  /\ status' \in Seq(Status) /\ Len(status') \in Nat /\ Len(status) \in Nat
           /\ Len(status) <= Len(status')
           /\ \A r \in 1 .. Len(status) : status[r] \notin Active => status'[r] = status[r]
           /\ server!Accept => Len(status') = Len(status) + 1
<1>0. /\ DOMAIN status = 1 .. Len(status) /\ Len(status) \in Nat
      /\ \A r \in 1 .. Len(status) : status[r] \in Status
  BY LenProperties, ElementOfSeq
<1>1. CASE server!Accept
  <2>1. "pending" \in Status
    BY DEF Status, server!Status, server!Active
  <2>. QED
    BY <1>0, <1>1, <2>1, AppendProperties DEF server!Accept
<1>2. ASSUME NEW from \in Active, NEW to \in Status, server!Advance(from, to)
      PROVE  /\ status' \in Seq(Status) /\ Len(status') = Len(status)
             /\ \A r \in 1 .. Len(status) : status[r] \notin Active => status'[r] = status[r]
  <2>1. Len(status) \in 1 .. Len(status)
    BY <1>0, <1>2, EmptySeq DEF server!Advance
  <2>. QED
    BY <1>0, <1>2, <2>1, ExceptSeq DEF server!Advance
<1>3. CASE server!Begin \/ server!End
  <2>1. PICK from \in Active, to \in Status : server!Advance(from, to)
    BY <1>3 DEF server!Begin, server!End, Active, Status, server!Active, server!Status
  <2>2. ~server!Accept
    BY <1>0, <1>2, <2>1, AppendProperties, "pending" \in Status DEF server!Accept, Status, server!Status, server!Active
  <2>. QED
    BY <1>0, <1>2, <2>1, <2>2
<1>4. CASE server!Interrupt
  <2>1. "interrupted" \in Status
    BY DEF Status, server!Status
  <2>2. status' \in [1 .. Len(status) -> Status]
    BY <1>0, <1>4, <2>1 DEF server!Interrupt
  <2>3. status' \in Seq(Status) /\ Len(status') = Len(status)
    BY <1>0, <2>2, SeqDef, LenProperties
  <2>4. \A r \in 1 .. Len(status) : status[r] \notin Active => status'[r] = status[r]
    BY <1>0, <1>4 DEF server!Interrupt, Active
  <2>5. ~server!Accept
    BY <1>0, <2>3, AppendProperties, "pending" \in Status DEF server!Accept, Status, server!Status, server!Active
  <2>. QED
    <3>1. Len(status') \in Nat /\ Len(status) <= Len(status')
      BY <1>0, <2>3
    <3>. QED
      BY <1>0, <2>3, <2>4, <2>5, <3>1
<1>. QED
  BY <1>1, <1>3, <1>4 DEF server!Next

\* What was read of the rows stays true.
LEMMA StillTrue ==
    ASSUME status \in Seq(Status), server!Next, NEW qs, NEW p
    PROVE  /\ Queue(qs, status) => Queue(qs, status')
           /\ Shown(p, status) => Shown(p, status')
<1>1. /\ Len(status') \in Nat /\ Len(status) \in Nat /\ Len(status) <= Len(status')
      /\ \A r \in 1 .. Len(status) : status[r] \notin Active => status'[r] = status[r]
  BY ServiceStep
<1>2. Poll(status) \subseteq Poll(status')
  BY <1>1 DEF Poll
<1>3. ASSUME Queue(qs, status) PROVE Queue(qs, status')
  <2>1. qs \in Seq(Poll(status'))
    BY <1>2, <1>3, SeqMonotonic DEF Queue
  <2>2. ASSUME NEW i \in DOMAIN qs, HasEnded(qs[i].read) PROVE status'[qs[i].run] = qs[i].read
    <3>1. qs[i] \in Poll(status)
      BY <1>3, LenProperties, ElementOfSeq DEF Queue
    <3>2. status[qs[i].run] = qs[i].read /\ qs[i].run \in 1 .. Len(status)
      BY <1>3, <2>2, <3>1 DEF Queue, Poll
    <3>. QED
      BY <1>1, <2>2, <3>2 DEF HasEnded
  <2>. QED
    BY <2>1, <2>2 DEF Queue
<1>4. ASSUME Shown(p, status), p # Hidden PROVE Shown(p, status')
  <2>1. /\ p \in [run : 1 .. Len(status), status : Status]
        /\ HasEnded(p.status) => status[p.run] = p.status
    BY <1>4 DEF Shown
  <2>2. p \in [run : 1 .. Len(status'), status : Status]
    BY <1>1, <2>1
  <2>3. HasEnded(p.status) => status'[p.run] = p.status
    BY <1>1, <2>1 DEF HasEnded
  <2>. QED
    BY <2>2, <2>3 DEF Shown
<1>. QED
  BY <1>3, <1>4 DEF Shown

-----------------------------------------------------------------------------
(* The page.  It has no run to show only before it has asked for any; it does  *)
(* not poll only before it has shown anything, or after it has shown an end.   *)

Types ==
    /\ status \in Seq(Status) /\ Len(status) <= MaxRuns
    /\ page \in {"loading", "ready"}
    /\ currentId \in 0 .. Len(status) /\ listed \in 0 .. Len(status)
    /\ polling \in BOOLEAN /\ overtaken \in BOOLEAN
    /\ Queue(polls, status) /\ Len(polls) <= MaxPolls
    /\ refreshing \in BOOLEAN /\ accepted \in 0 .. Len(status)
    /\ Shown(panel, status)
    /\ failures \in Nat

Rests ==
    /\ currentId = Null => panel = Hidden /\ ~polling /\ polls = <<>>
    /\ panel = Hidden /\ ~polling => AllLoad(polls)
    /\ ~overtaken =>
         /\ InOrder(panel, polls)
         /\ panel # Hidden /\ ~polling => panel.run = currentId /\ HasEnded(panel.status)

PageInv == Types /\ Rests

\* A page that was just opened rests, and shows nothing.
LEMMA PageInit == Init => PageInv
<1>. SUFFICES ASSUME Init PROVE PageInv
  OBVIOUS
<1>1. /\ status = <<>> /\ polls = <<>> /\ status \in Seq(Status) /\ Len(status) = 0
      /\ polls \in Seq(Poll(status)) /\ Len(polls) = 0 /\ DOMAIN polls = {}
  BY EmptySeq DEF Init, server!Init
<1>2. Types
  <2>1. Queue(polls, status) /\ Shown(panel, status)
    BY <1>1 DEF Init, Queue, Shown
  <2>2. Len(status) <= MaxRuns /\ Len(polls) <= MaxPolls /\ 0 \in 0 .. Len(status)
    BY <1>1, DashboardAssumption
  <2>3. currentId = 0 /\ accepted = 0 /\ listed = 0 /\ failures \in Nat
    BY DEF Init, Null
  <2>4. page \in {"loading", "ready"} /\ polling \in BOOLEAN /\ refreshing \in BOOLEAN /\ overtaken \in BOOLEAN
    BY DEF Init
  <2>. QED
    BY <1>1, <2>1, <2>2, <2>3, <2>4 DEF Types
<1>3. Rests
  BY <1>1 DEF Init, Rests, AllLoad, InOrder
<1>. QED
  BY <1>2, <1>3 DEF PageInv

\* Facts about lengths that every step uses.
LEMMA Lengths ==
    ASSUME Types
    PROVE  /\ Len(status) \in Nat /\ Len(polls) \in Nat /\ MaxPolls \in Nat /\ MaxRuns \in Nat
           /\ DOMAIN status = 1 .. Len(status) /\ DOMAIN polls = 1 .. Len(polls)
           /\ \A i \in DOMAIN polls : polls[i] \in Poll(status)
BY LenProperties, ElementOfSeq, DashboardAssumption DEF Types, Queue

\* The service moves on, and the page stands still.
LEMMA ServeStep ==
    ASSUME PageInv, server!Next, Len(status') <= MaxRuns,
           UNCHANGED <<page, polls, refreshing, currentId, polling, panel, listed, overtaken, failures>>,
           accepted' \in 0 .. Len(status')
    PROVE  PageInv'
<1>1. /\ status' \in Seq(Status) /\ Len(status') \in Nat /\ Len(status) \in Nat
      /\ Len(status) <= Len(status')
  BY ServiceStep DEF PageInv, Types
<1>2. Queue(polls', status') /\ Shown(panel', status')
  BY StillTrue DEF PageInv, Types
<1>3. 0 .. Len(status) \subseteq 0 .. Len(status')
  BY <1>1
<1>4. Types'
  BY <1>1, <1>2, <1>3 DEF PageInv, Types
<1>5. Rests'
  BY DEF PageInv, Rests
<1>. QED
  BY <1>4, <1>5 DEF PageInv

\* get_deploy.
LEMMA ReadStep ==
    ASSUME PageInv, NEW i \in DOMAIN polls, Read(i)
    PROVE  PageInv'
<1>1. /\ polls[i].read = Unread /\ polls' = [polls EXCEPT ![i].read = status[polls[i].run]]
      /\ UNCHANGED <<status, page, refreshing, accepted, currentId, polling, panel, listed, failures>>
      /\ overtaken' = (overtaken \/ \E j \in 1 .. i - 1 : polls[j].read = Unread)
  BY DEF Read, viewVars
<1>2. /\ Queue(polls', status) /\ Len(polls') = Len(polls)
      /\ AllLoad(polls) => AllLoad(polls')
      /\ InOrder(panel, polls) /\ (\A j \in 1 .. i - 1 : polls[j].read # Unread) => InOrder(panel, polls')
  <2>1. status \in Seq(Status) /\ Queue(polls, status) /\ Shown(panel, status)
    BY DEF PageInv, Types
  <2>2. LET qs2 == [polls EXCEPT ![i].read = status[polls[i].run]]
        IN  /\ Queue(qs2, status) /\ Len(qs2) = Len(polls)
            /\ AllLoad(polls) => AllLoad(qs2)
            /\ InOrder(panel, polls) /\ (\A j \in 1 .. i - 1 : polls[j].read # Unread)
                 => InOrder(panel, qs2)
    BY <1>1, <2>1, Looked
  <2>. QED
    BY <1>1, <2>2
<1>3. Types'
  BY <1>1, <1>2 DEF PageInv, Types
<1>4. polls # <<>>
  BY EmptySeq
<1>5. Rests'
  BY <1>1, <1>2, <1>4 DEF PageInv, Rests
<1>. QED
  BY <1>3, <1>5 DEF PageInv

\* The run to show changes, if there was none; and the page may ask for it.
LEMMA ListStep ==
    ASSUME PageInv,
           currentId' \in 0 .. Len(status), currentId # Null => currentId' = currentId,
           listed' \in 0 .. Len(status),
           page' \in {"loading", "ready"}, refreshing' \in BOOLEAN, failures' \in Nat,
           UNCHANGED <<status, accepted, polling, panel, overtaken>>,
           \/ polls' = polls
           \/ /\ currentId' # Null /\ Room(polls)
              /\ polls' = Append(polls, Question(currentId', TRUE))
    PROVE  PageInv'
<1>1. /\ Queue(polls, status) /\ Len(polls) <= MaxPolls /\ Len(status) \in Nat
      /\ Len(polls) \in Nat /\ MaxPolls \in Nat
  BY Lengths DEF PageInv, Types
<1>2. CASE polls' = polls
  <2>1. Types'
    BY <1>2 DEF PageInv, Types
  <2>2. Rests'
    BY <1>2 DEF PageInv, Rests
  <2>. QED
    BY <2>1, <2>2 DEF PageInv
<1>3. CASE /\ currentId' # Null /\ Room(polls)
           /\ polls' = Append(polls, Question(currentId', TRUE))
  <2>1. currentId' \in 1 .. Len(status)
    BY <1>1, <1>3 DEF Null
  <2>2. /\ Queue(polls', status) /\ Len(polls') = Len(polls) + 1
        /\ AllLoad(polls) => AllLoad(polls')
        /\ InOrder(panel, polls) => InOrder(panel, polls')
    BY <1>1, <1>3, <2>1, Asked
  <2>3. Len(polls') <= MaxPolls
    BY <1>1, <1>3, <2>2 DEF Room
  <2>4. Types'
    BY <2>2, <2>3 DEF PageInv, Types
  <2>5. Rests'
    BY <1>3, <2>2 DEF PageInv, Rests
  <2>. QED
    BY <2>4, <2>5 DEF PageInv
<1>. QED
  BY <1>2, <1>3

\* The page turns to a run and polls it.
LEMMA PollingStarts ==
    ASSUME PageInv, NEW r \in 1 .. Len(status), StartPolling(r, polls), currentId' = r,
           UNCHANGED <<status, page, panel, listed, overtaken, failures>>,
           accepted' \in 0 .. Len(status)
    PROVE  PageInv'
<1>1. /\ Queue(polls, status) /\ Len(polls) <= MaxPolls /\ Len(status) \in Nat
      /\ Len(polls) \in Nat /\ MaxPolls \in Nat
  BY Lengths DEF PageInv, Types
<1>2. /\ polls' = Append(polls, Question(r, FALSE)) /\ Len(polls) < MaxPolls
      /\ polling' = TRUE /\ refreshing' = TRUE
  BY DEF StartPolling, Refresh, Room
<1>3. /\ Queue(polls', status) /\ Len(polls') = Len(polls) + 1
      /\ InOrder(panel, polls) => InOrder(panel, polls')
  BY <1>1, <1>2, Asked
<1>4. Len(polls') <= MaxPolls /\ r \in 0 .. Len(status) /\ r # Null
  BY <1>1, <1>2, <1>3 DEF Null
<1>5. Types'
  BY <1>2, <1>3, <1>4 DEF PageInv, Types
<1>6. Rests'
  BY <1>2, <1>3, <1>4 DEF PageInv, Rests
<1>. QED
  BY <1>5, <1>6 DEF PageInv

\* The timer.
LEMMA TickStep == PageInv /\ Tick => PageInv'
<1>. SUFFICES ASSUME PageInv, Tick PROVE PageInv'
  OBVIOUS
<1>1. /\ Queue(polls, status) /\ Len(polls) <= MaxPolls /\ Len(status) \in Nat
      /\ Len(polls) \in Nat /\ MaxPolls \in Nat
  BY Lengths DEF PageInv, Types
<1>2. /\ polls' = Append(polls, Question(currentId, FALSE)) /\ Len(polls) < MaxPolls /\ polling
      /\ UNCHANGED <<status, page, refreshing, accepted, currentId, polling, panel, listed,
                     overtaken, failures>>
  BY DEF Tick, Room, viewVars
<1>3. currentId \in 1 .. Len(status) /\ currentId # Null
  BY <1>1, <1>2 DEF PageInv, Types, Rests, Null
<1>4. /\ Queue(polls', status) /\ Len(polls') = Len(polls) + 1
      /\ InOrder(panel, polls) => InOrder(panel, polls')
  BY <1>1, <1>2, <1>3, Asked
<1>5. Len(polls') <= MaxPolls
  BY <1>1, <1>2, <1>4
<1>6. Types'
  BY <1>2, <1>4, <1>5 DEF PageInv, Types
<1>7. Rests'
  BY <1>2, <1>3, <1>4 DEF PageInv, Rests
<1>. QED
  BY <1>6, <1>7 DEF PageInv

\* What an answer says is shown, and is what the row says if it is an end.
LEMMA RenderStep ==
    ASSUME PageInv, NEW i \in DOMAIN polls, Render(i)
    PROVE  /\ Shown(panel', status) /\ panel' # Hidden /\ currentId # Null
           /\ panel'.run = polls[i].run /\ panel'.status = polls[i].read
           /\ polls[i].read # Unread
           /\ ~overtaken' => ~overtaken /\ i = 1 /\ polls[i].run = currentId
           /\ ~overtaken' => InOrder(panel', RemoveAt(polls, i))
           /\ overtaken' \in BOOLEAN
           /\ UNCHANGED <<status, page, accepted, currentId, listed, failures>>
<1>1. /\ polls[i].read # Unread
      /\ panel' = [run |-> polls[i].run, status |-> polls[i].read]
      /\ overtaken' = (overtaken \/ i # 1 \/ polls[i].run # currentId)
      /\ UNCHANGED <<status, page, accepted, currentId, listed, failures>>
  BY DEF Render
<1>2. polls[i] \in Poll(status) /\ Queue(polls, status)
  BY Lengths DEF PageInv, Types
<1>3. polls[i].run \in 1 .. Len(status) /\ polls[i].read \in Status
  BY <1>1, <1>2 DEF Poll
<1>4. Shown(panel', status)
  BY <1>1, <1>2, <1>3 DEF Shown, Queue
<1>5. panel' # Hidden
  <2>1. panel'.status # Hidden.status
    BY <1>1 DEF Hidden
  <2>. QED
    BY <2>1
<1>6. currentId # Null
  BY EmptySeq DEF PageInv, Rests
<1>7. ASSUME ~overtaken' PROVE InOrder(panel', RemoveAt(polls, i))
  <2>1. i = 1 /\ InOrder(panel, polls)
    BY <1>1, <1>7 DEF PageInv, Rests
  <2>. QED
    BY <1>1, <1>2, <2>1, Rendered
<1>. QED
  BY <1>1, <1>4, <1>5, <1>6, <1>7

\* An answer to a poll keeps the invariant.  An active status does not come in after
\* the page has stopped polling: the run was read to have ended before.
LEMMA PollAnsweredStep ==
    ASSUME PageInv, NEW i \in DOMAIN polls, PollAnswered(i)
    PROVE  PageInv'
<1>1. /\ ~polls[i].load /\ Render(i) /\ polls' = RemoveAt(polls, i)
      /\ \/ polls[i].read \in Active /\ polling' = polling /\ refreshing' = refreshing
         \/ polls[i].read \notin Active /\ polling' = FALSE /\ refreshing' = TRUE
  BY DEF PollAnswered, Refresh
<1>2. /\ Shown(panel', status) /\ panel' # Hidden /\ currentId # Null
      /\ panel'.run = polls[i].run /\ panel'.status = polls[i].read
      /\ polls[i].read # Unread
      /\ ~overtaken' => ~overtaken /\ i = 1 /\ polls[i].run = currentId
      /\ ~overtaken' => InOrder(panel', RemoveAt(polls, i))
      /\ overtaken' \in BOOLEAN
      /\ UNCHANGED <<status, page, accepted, currentId, listed, failures>>
  BY <1>1, RenderStep
<1>3. Queue(polls', status) /\ Len(polls') = Len(polls) - 1 /\ Len(polls) \in Nat /\ MaxPolls \in Nat
  BY <1>1, Dropped, Lengths DEF PageInv, Types
<1>4. Types'
  <2>1. Len(polls') <= MaxPolls
    BY <1>3 DEF PageInv, Types
  <2>2. polling' \in BOOLEAN /\ refreshing' \in BOOLEAN
    BY <1>1 DEF PageInv, Types
  <2>. QED
    BY <1>2, <1>3, <2>1, <2>2 DEF PageInv, Types
<1>5. ASSUME ~overtaken', ~polling' PROVE polls[i].read \notin Active
  <2>1. CASE ~polling /\ polls[i].read \in Active
    <3>1. panel # Hidden
      BY <1>1, <2>1 DEF PageInv, Rests, AllLoad
    <3>2. panel.run = polls[i].run /\ HasEnded(panel.status) /\ InOrder(panel, polls)
      BY <1>2, <1>5, <2>1, <3>1 DEF PageInv, Rests
    <3>. QED
      BY <3>2 DEF InOrder
  <2>. QED
    BY <1>1, <1>5, <2>1
<1>6. Rests'
  BY <1>1, <1>2, <1>5 DEF Rests, HasEnded
<1>. QED
  BY <1>4, <1>6 DEF PageInv

\* An answer to the initial load keeps it, and starts polling if the run is active.
LEMMA LoadAnsweredStep ==
    ASSUME PageInv, NEW i \in DOMAIN polls, LoadAnswered(i)
    PROVE  PageInv'
<1>. DEFINE rest == RemoveAt(polls, i)
<1>1. /\ Render(i)
      /\ \/ polls[i].read \in Active /\ StartPolling(currentId, rest)
         \/ polls[i].read \notin Active /\ polls' = rest /\ UNCHANGED <<polling, refreshing>>
  BY DEF LoadAnswered
<1>2. /\ Shown(panel', status) /\ panel' # Hidden /\ currentId # Null
      /\ panel'.run = polls[i].run /\ panel'.status = polls[i].read
      /\ polls[i].read # Unread
      /\ ~overtaken' => ~overtaken /\ i = 1 /\ polls[i].run = currentId
      /\ ~overtaken' => InOrder(panel', rest)
      /\ overtaken' \in BOOLEAN
      /\ UNCHANGED <<status, page, accepted, currentId, listed, failures>>
  BY <1>1, RenderStep
<1>3. /\ Queue(rest, status) /\ Len(rest) = Len(polls) - 1 /\ Len(polls) \in Nat
      /\ MaxPolls \in Nat /\ Len(polls) <= MaxPolls /\ Len(status) \in Nat
  BY Dropped, Lengths DEF PageInv, Types
<1>. HIDE DEF rest
<1>4. CASE polls[i].read \in Active /\ StartPolling(currentId, rest)
  <2>1. /\ polls' = Append(rest, Question(currentId, FALSE))
        /\ polling' = TRUE /\ refreshing' = TRUE
    BY <1>4 DEF StartPolling, Refresh
  <2>2. currentId \in 1 .. Len(status)
    BY <1>2, <1>3 DEF PageInv, Types, Null
  <2>3. /\ Queue(polls', status) /\ Len(polls') = Len(rest) + 1
        /\ InOrder(panel', rest) => InOrder(panel', polls')
    BY <1>3, <2>1, <2>2, Asked
  <2>4. Len(polls') <= MaxPolls
    BY <1>3, <2>3
  <2>5. Types'
    BY <1>2, <2>1, <2>3, <2>4 DEF PageInv, Types
  <2>6. Rests'
    BY <1>2, <2>1, <2>3 DEF Rests
  <2>. QED
    BY <2>5, <2>6 DEF PageInv
<1>5. CASE polls[i].read \notin Active /\ polls' = rest /\ UNCHANGED <<polling, refreshing>>
  <2>1. Len(polls') <= MaxPolls
    BY <1>3, <1>5
  <2>2. Types'
    BY <1>2, <1>3, <1>5, <2>1 DEF PageInv, Types
  <2>3. Rests'
    BY <1>2, <1>5 DEF Rests, HasEnded
  <2>. QED
    BY <2>2, <2>3 DEF PageInv
<1>. QED
  BY <1>1, <1>4, <1>5

\* A lost answer leaves the others as they were.
LEMMA QuestionFailsStep ==
    ASSUME PageInv, NEW i \in DOMAIN polls, QuestionFails(i)
    PROVE  PageInv'
<1>1. /\ polls' = RemoveAt(polls, i) /\ failures' = failures + 1
      /\ UNCHANGED <<status, page, refreshing, accepted, currentId, polling, panel, listed, overtaken>>
  BY DEF QuestionFails, Fail, viewVars
<1>2. /\ Queue(polls', status) /\ Len(polls') = Len(polls) - 1 /\ Len(polls) \in Nat
      /\ MaxPolls \in Nat /\ Len(polls) <= MaxPolls
      /\ AllLoad(polls) => AllLoad(polls')
      /\ InOrder(panel, polls) => InOrder(panel, polls')
  BY <1>1, Dropped, Lengths DEF PageInv, Types
<1>3. Len(polls') <= MaxPolls /\ failures' \in Nat
  BY <1>1, <1>2 DEF PageInv, Types
<1>4. Types'
  BY <1>1, <1>2, <1>3 DEF PageInv, Types
<1>5. Rests'
  <2>1. currentId # Null
    BY EmptySeq DEF PageInv, Rests
  <2>. QED
    BY <1>1, <1>2, <2>1 DEF PageInv, Rests
<1>. QED
  BY <1>4, <1>5 DEF PageInv

\* Every step keeps the invariant.
LEMMA PageStep == PageInv /\ [Next]_vars => PageInv'
<1>. SUFFICES ASSUME PageInv, [Next]_vars PROVE PageInv'
  OBVIOUS
<1>0. /\ Types /\ Len(status) \in Nat /\ failures \in Nat
      /\ currentId \in 0 .. Len(status) /\ listed \in 0 .. Len(status)
      /\ accepted \in 0 .. Len(status)
      /\ page \in {"loading", "ready"} /\ refreshing \in BOOLEAN
  BY Lengths DEF PageInv, Types
<1>1. CASE Serve
  <2>1. Len(status') \in Nat /\ Len(status) <= Len(status')
    BY <1>0, <1>1, ServiceStep DEF Serve, Types
  <2>2. accepted' \in 0 .. Len(status')
    BY <1>0, <1>1, <2>1 DEF Serve, callVars
  <2>. QED
    BY <1>1, <2>2, ServeStep DEF Serve, callVars, viewVars
<1>2. CASE ReadSome
  BY <1>2, ReadStep DEF ReadSome
<1>3. CASE ListAnswered \/ FirstListAnswered
  <2>1. PICK n \in 0 .. Len(status) : Listed(n)
    BY <1>0, <1>3 DEF ListAnswered, FirstListAnswered
  <2>2. /\ listed' \in 0 .. Len(status) /\ currentId' \in 0 .. Len(status)
        /\ currentId # Null => currentId' = currentId
    BY <1>0, <2>1 DEF Listed
  <2>. QED
    BY <1>0, <1>3, <2>2, ListStep DEF ListAnswered, FirstListAnswered, AskLoaded
<1>4. CASE ListFails \/ FirstListFails
  <2>1. failures' \in Nat
    BY <1>0, <1>4 DEF ListFails, FirstListFails, Fail
  <2>. QED
    BY <1>0, <1>4, <2>1, ListStep DEF ListFails, FirstListFails, AskLoaded, viewVars
<1>5. CASE Tick
  BY <1>5, TickStep
<1>6. CASE Answer
  BY <1>6, PollAnsweredStep, LoadAnsweredStep DEF Answer
<1>7. CASE \E i \in DOMAIN polls : QuestionFails(i)
  BY <1>7, QuestionFailsStep
<1>8. ASSUME NEW r \in RunId, Open(r) PROVE PageInv'
  <2>1. r \in 1 .. Len(status)
    BY <1>0, <1>8, DashboardAssumption DEF Open, RunId
  <2>. QED
    BY <1>0, <1>8, <2>1, PollingStarts DEF Open
<1>9. CASE Trigger
  <2>1. server!Next /\ server!Accept
    BY <1>9 DEF Trigger, server!Next
  <2>2. Len(status') = Len(status) + 1
    BY <1>0, <2>1, ServiceStep DEF Types
  <2>3. Len(status') <= MaxRuns /\ accepted' \in 0 .. Len(status')
    BY <1>0, <1>9, <2>2, DashboardAssumption DEF Trigger
  <2>. QED
    BY <1>9, <2>1, <2>3, ServeStep DEF Trigger, viewVars
<1>10. CASE TriggerAccepted
  <2>1. accepted \in 1 .. Len(status) /\ accepted' \in 0 .. Len(status)
    BY <1>0, <1>10 DEF TriggerAccepted, Null
  <2>. QED
    BY <1>10, <2>1, PollingStarts DEF TriggerAccepted
<1>11. CASE TriggerRefused
  <2>1. Types' /\ Rests'
    BY <1>11 DEF TriggerRefused, Refresh, PageInv, Types, Rests, viewVars
  <2>. QED
    BY <2>1 DEF PageInv
<1>12. CASE TriggerFails
  <2>1. failures' \in Nat /\ accepted' \in 0 .. Len(status)
    BY <1>0, <1>12 DEF TriggerFails, Fail, Null
  <2>2. Types' /\ Rests'
    BY <1>12, <2>1 DEF TriggerFails, PageInv, Types, Rests, viewVars
  <2>. QED
    BY <2>2 DEF PageInv
<1>13. CASE UNCHANGED vars
  <2>1. Types' /\ Rests'
    BY <1>13 DEF vars, callVars, viewVars, PageInv, Types, Rests
  <2>. QED
    BY <2>1 DEF PageInv
<1>. QED
  BY <1>1, <1>2, <1>3, <1>4, <1>5, <1>6, <1>7, <1>8, <1>9, <1>10, <1>11, <1>12, <1>13
  DEF Next, FirstList

\* The invariant that the theorems below rest on, about the rows, the questions in
\* flight and what the page shows.
THEOREM PageIsSound == Spec => []PageInv
BY PageInit, PageStep, PTL DEF Spec

\* Every variable keeps its type: whatever is asked for, there is such a run.
THEOREM DashboardTypes == Spec => []TypeOK
<1>1. PageInv => TypeOK
  <2>. SUFFICES ASSUME PageInv PROVE TypeOK
    OBVIOUS
  <2>1. Len(status) \in Nat /\ Types
    BY Lengths DEF PageInv
  <2>2. panel \in [run : 0 .. Len(status), status : Status \cup {Unread}]
    <3>1. Hidden \in [run : 0 .. Len(status), status : Status \cup {Unread}]
      BY <2>1 DEF Hidden, Null
    <3>. QED
      BY <2>1, <3>1 DEF Types, Shown
  <2>. QED
    BY <2>1, <2>2 DEF TypeOK, Types, Queue, Poll, Status
<1>. QED
  BY <1>1, PageIsSound, PTL

\* However many runs, questions and failures there are: as long as answers come in
\* order, the page rests only on the end of the run it is to show.
THEOREM RestsOnlyOnTheEnd == Spec => []RestsOnTheEnd
<1>1. PageInv => RestsOnTheEnd
  <2>. SUFFICES ASSUME PageInv, Quiet, ~overtaken PROVE ShowsEnd
    BY DEF RestsOnTheEnd
  <2>1. panel # Hidden /\ panel.run = currentId /\ HasEnded(panel.status)
    BY DEF PageInv, Rests, Quiet
  <2>2. status[panel.run] = panel.status
    BY <2>1 DEF PageInv, Types, Shown
  <2>. QED
    BY <2>1, <2>2 DEF ShowsEnd, HasEnded
<1>. QED
  BY <1>1, PageIsSound, PTL
=============================================================================
