------------------------- MODULE ConversationProofs -------------------------
(***************************************************************************)
(* Theorems about ConversationRepository for every number of conversations,*)
(* deliveries, ordinals and ticks, and every limit the assumption allows.  *)
(***************************************************************************)
EXTENDS ConversationRepository, FiniteSetTheorems, TLAPS

\* What AbandonStale and Completed do to one row, used instead of their bodies.
LEMMA AbandonType ==
  ASSUME NEW table \in [Ordinal -> Exchange], NEW now \in Nat
  PROVE  AbandonStale(table, now) \in [Ordinal -> Exchange]
  BY DEF AbandonStale, Exchange, Terminal, Absent

LEMMA CompletedType ==
  ASSUME NEW table \in [Ordinal -> Exchange], NEW o \in Ordinal,
         NEW plan \in SUBSET Ordinal
  PROVE  Completed(table, o, plan) \in [Ordinal -> Exchange]
  BY DEF Completed, Removed, Exchange, Terminal, Absent

\* A compaction plan names terminal rows only.
LEMMA PlanIsTerminal ==
  ASSUME NEW table
  PROVE  CompactionPlan(table) \subseteq TerminalRows(table)
  BY DEF CompactionPlan, Oldest

LEMMA InitType == Init => TypeOK
  BY ConversationAssumption
     DEF Init, TypeOK, Time, Conversation, Exchange, NoExchange, Absent, Terminal

LEMMA NextType == TypeOK /\ [Next]_convVars => TypeOK'
<1> SUFFICES ASSUME TypeOK, [Next]_convVars PROVE TypeOK'
  OBVIOUS
<1> USE ConversationAssumption
<1>0. \A now \in 0 .. clock : now \in Time /\ now \in Nat
  BY DEF TypeOK, Time
<1>1. CASE Tick
  BY <1>1 DEF TypeOK, Tick, Time
<1>2. ASSUME NEW c \in Conv, NEW now \in 0 .. clock, Create(c, now) PROVE TypeOK'
  BY <1>2, <1>0 DEF TypeOK, Create, CreateTx, Conversation
<1>3. ASSUME NEW c \in Conv, NEW d \in Delivery, NEW now \in 0 .. clock,
             ReserveDuplicate(c, d, now)
      PROVE TypeOK'
  BY <1>3, <1>0, AbandonType DEF TypeOK, ReserveDuplicate, ReserveDuplicateTx
<1>4. ASSUME NEW c \in Conv, NEW d \in Delivery, NEW now \in 0 .. clock,
             NEW o \in Ordinal, ReserveNew(c, d, now, o)
      PROVE TypeOK'
  <2> DEFINE table == AbandonStale(exch[c], now)
             row   == [status |-> "PROCESSING", delivery |-> d, lease |-> now + LeaseTicks]
  <2>1. now \in Time /\ now \in Nat /\ table \in [Ordinal -> Exchange]
    BY <1>0, AbandonType DEF TypeOK
  <2>2. [table EXCEPT ![o] = row] \in [Ordinal -> Exchange]
    <3>1. row \in Exchange
      BY <2>1 DEF Exchange
    <3>2. QED
      BY <2>1, <3>1
  <2>3. exch' = [exch EXCEPT ![c] = [table EXCEPT ![o] = row]]
    BY <1>4 DEF ReserveNew, ReserveNewTx
  <2>4. exch' \in [Conv -> [Ordinal -> Exchange]]
    BY <2>2, <2>3 DEF TypeOK
  <2>5. NewReservation(c, now, o) \in Reservation
    <3>1. CompactionPlan(table) \in SUBSET Ordinal
      BY PlanIsTerminal DEF TerminalRows
    <3>2. QED
      BY <2>1, <3>1 DEF NewReservation, Reservation, TypeOK, Conversation
  <2>6. QED
    BY <1>4, <2>4, <2>5 DEF TypeOK, ReserveNew, ReserveNewTx
<1>5. ASSUME NEW r \in issued, NEW now \in 0 .. clock, Complete(r, now) PROVE TypeOK'
  <2>1. /\ r.conv \in Conv /\ r.ordinal \in Ordinal /\ r.plan \in SUBSET Ordinal
        /\ r.version \in Nat /\ r.summary \in SUBSET Ordinal
    BY DEF TypeOK, Reservation
  <2> PICK s \in Summaries(r.summary, r.plan) :
        conv' = [conv EXCEPT ![r.conv] =
          [state |-> "open", version |-> r.version + 1,
           expires |-> now + RetentionTicks, summary |-> s]]
    BY <1>5 DEF Complete, CompleteTx
  <2>4. s \in SUBSET Ordinal
    BY <2>1 DEF Summaries
  <2>2. Completed(exch[r.conv], r.ordinal, r.plan) \in [Ordinal -> Exchange]
    BY <2>1, CompletedType DEF TypeOK
  <2>3. QED
    BY <1>5, <1>0, <2>1, <2>2, <2>4 DEF TypeOK, Complete, CompleteTx, Conversation
<1>6. ASSUME NEW C \in SUBSET Conv, NEW now \in 0 .. clock, PurgeExpired(C, now)
      PROVE TypeOK'
  <2>1. [o \in Ordinal |-> Removed] \in [Ordinal -> Exchange]
    BY DEF Removed, Exchange, Absent
  <2>2. conv' \in [Conv -> Conversation]
    BY <1>6, ZenonT(60) DEF TypeOK, PurgeExpired, PurgeTx, Conversation
  <2>3. QED
    BY <1>6, <2>1, <2>2 DEF TypeOK, PurgeExpired, PurgeTx
<1>7. CASE UNCHANGED convVars
  BY <1>7 DEF TypeOK, convVars
<1>8. QED
  BY <1>1, <1>2, <1>3, <1>4, <1>5, <1>6, <1>7 DEF Next

\* Type correctness of the conversation tables and of every reservation.
THEOREM ConversationTypeCorrect == Spec => []TypeOK
  BY InitType, NextType, PTL DEF Spec

------------------------------------------------------------------------------
\* Counting on runs of ordinals.

\* FS_Interval for intervals of naturals that may be empty by one.
LEMMA IntervalCardinality ==
  ASSUME NEW a \in Nat, NEW b \in Int, a <= b + 1
  PROVE  IsFiniteSet(a .. b) /\ Cardinality(a .. b) = b - a + 1
<1>1. a \in Int
  OBVIOUS
<1>2. Cardinality(a .. b) = IF a > b THEN 0 ELSE b - a + 1
  BY <1>1, FS_Interval, Zenon
<1>3. IsFiniteSet(a .. b)
  BY <1>1, FS_Interval, Zenon
<1>4. QED
  BY <1>2, <1>3

\* The oldest m members of an interval are its first m numbers.
LEMMA OldestOfInterval ==
  ASSUME NEW a \in Nat, NEW b \in Nat, NEW m \in Nat, m <= b - a + 1
  PROVE  Oldest(a .. b, m) = a .. a + m - 1
<1>1. ASSUME NEW o \in a .. b
      PROVE  Cardinality({p \in a .. b : p < o}) = o - a
  <2>1. {p \in a .. b : p < o} = a .. o - 1
    BY <1>1
  <2>2. Cardinality(a .. o - 1) = o - a
    BY <1>1, IntervalCardinality
  <2>3. QED
    BY <2>1, <2>2
<1>2. QED
  BY <1>1 DEF Oldest

\* Without a processing row, the existing rows of a run are its terminal rows.
LEMMA TerminalRun ==
  ASSUME NEW table \in [Ordinal -> Exchange], NEW k, NEW n, Runs(table, k, n),
         Processing(table) = {}
  PROVE  TerminalRows(table) = k + 1 .. n
  BY ConversationAssumption
     DEF Runs, TerminalRows, Processing, Exchange, Absent, Terminal, Ordinal

\* With row n processing, they are the rows before it.
LEMMA TerminalRunBeforeLast ==
  ASSUME NEW table \in [Ordinal -> Exchange], NEW k, NEW n, Runs(table, k, n),
         NEW o \in Ordinal, table[o].status = "PROCESSING"
  PROVE  o = n /\ TerminalRows(table) = k + 1 .. n - 1
<1>1. o = n
  BY ConversationAssumption DEF Runs, Terminal, Ordinal
<1>2. QED
  BY <1>1, ConversationAssumption
     DEF Runs, TerminalRows, Exchange, Absent, Terminal, Ordinal

\* The plan computed for a new row n + 1 is the run behind the deleted rows.
LEMMA PlanOfRun ==
  ASSUME NEW table \in [Ordinal -> Exchange], NEW k, NEW n, Runs(table, k, n),
         Processing(table) = {}
  PROVE  CompactionPlan(table) = k + 1 .. k + Excess(n + 1 - k)
<1> USE ConversationAssumption
<1>1. k \in Nat /\ n \in Nat /\ k <= n
  BY DEF Runs
<1>2. TerminalRows(table) = k + 1 .. n
  BY TerminalRun
<1>3. Cardinality(k + 1 .. n) = n - k
  BY <1>1, IntervalCardinality
<1>4. Cardinality(TerminalRows(table)) + 1 = n + 1 - k
  BY <1>1, <1>2, <1>3
<1>5. Excess(n + 1 - k) \in Nat /\ Excess(n + 1 - k) <= n - (k + 1) + 1
  BY <1>1 DEF Excess
<1>6. Oldest(k + 1 .. n, Excess(n + 1 - k)) = k + 1 .. k + 1 + Excess(n + 1 - k) - 1
  BY <1>1, <1>5, OldestOfInterval
<1>7. QED
  BY <1>1, <1>2, <1>4, <1>5, <1>6 DEF CompactionPlan

\* Abandoning stale rows leaves the runs where they are.
LEMMA AbandonRuns ==
  ASSUME NEW table \in [Ordinal -> Exchange], NEW now, NEW k, NEW n,
         Runs(table, k, n)
  PROVE  Runs(AbandonStale(table, now), k, n)
<1>1. \A o \in Ordinal : AbandonStale(table, now)[o].status =
        IF table[o].status = "PROCESSING" /\ table[o].lease <= now
        THEN "ABANDONED" ELSE table[o].status
  BY DEF AbandonStale, Exchange
<1>2. QED
  BY <1>1 DEF Runs, Terminal

------------------------------------------------------------------------------
\* The inductive invariant.

LEMMA InitInv == Init => ConvInv
  BY DEF Init, ConvInv, NoExchange

\* A conversation no step touches keeps its part of the invariant.
LEMMA OpenInvFrame ==
  ASSUME NEW c \in Conv, OpenInv(c), exch'[c] = exch[c], conv'[c] = conv[c],
         \A r \in issued' : r.conv = c => r \in issued
  PROVE  OpenInv(c)'
<1>1. PICK k \in 0 .. MaxOrdinal, n \in 0 .. MaxOrdinal :
        /\ Runs(exch[c], k, n)
        /\ SummaryRun(conv[c].summary, k)
        /\ \A r \in issued : r.conv = c => Current(r, k, n)
  BY DEF OpenInv
<1>2. Runs(exch'[c], k, n)
  BY <1>1
<1>3. ASSUME NEW r \in issued', r.conv = c PROVE Current(r, k, n)'
  BY <1>1, <1>3 DEF Current
<1>4. QED
  BY <1>1, <1>2, <1>3 DEF OpenInv

LEMMA CreateInv ==
  ASSUME ConvInv, NEW c \in Conv, NEW now, Create(c, now), TypeOK
  PROVE  ConvInv'
<1>1. /\ issued' = issued /\ exch' = exch
      /\ conv[c].state = "none" /\ conv'[c].state = "open" /\ conv'[c].summary = {}
      /\ \A d \in Conv : d # c => conv'[d] = conv[d]
  BY DEF Create, CreateTx, TypeOK
<1>2. OpenInv(c)'
  <2>1. \A o \in Ordinal : exch'[c][o].status = "NONE"
    BY <1>1 DEF ConvInv
  <2>2. Runs(exch'[c], 0, 0)
    BY <2>1, ConversationAssumption DEF Runs, Ordinal
  <2>3. \A r \in issued' : r.conv # c
    BY <1>1 DEF ConvInv
  <2>4. 0 \in 0 .. MaxOrdinal /\ SummaryRun(conv'[c].summary, 0)
    BY <1>1, ConversationAssumption DEF SummaryRun
  <2>5. QED
    BY <2>2, <2>3, <2>4 DEF OpenInv
<1>3. ASSUME NEW d \in Conv, d # c, conv'[d].state = "open" PROVE OpenInv(d)'
  BY <1>1, <1>3, OpenInvFrame DEF ConvInv
<1>4. QED
  BY <1>1, <1>2, <1>3 DEF ConvInv, TypeOK, Reservation

LEMMA ReserveDuplicateInv ==
  ASSUME ConvInv, TypeOK, NEW c \in Conv, NEW d \in Delivery, NEW now \in Nat,
         ReserveDuplicate(c, d, now)
  PROVE  ConvInv'
<1> DEFINE table == AbandonStale(exch[c], now)
<1>1. /\ issued' = issued /\ conv' = conv /\ exch'[c] = table
      /\ conv[c].state = "open"
      /\ \A e \in Conv : e # c => exch'[e] = exch[e]
  BY DEF ReserveDuplicate, ReserveDuplicateTx, TypeOK, IsActive
<1>2. OpenInv(c)'
  <2>1. PICK k \in 0 .. MaxOrdinal, n \in 0 .. MaxOrdinal :
          /\ Runs(exch[c], k, n)
          /\ SummaryRun(conv[c].summary, k)
          /\ \A r \in issued : r.conv = c => Current(r, k, n)
    BY <1>1 DEF ConvInv, OpenInv
  <2>2. Runs(table, k, n)
    BY <2>1, AbandonRuns DEF TypeOK
  <2>3. ASSUME NEW r \in issued', r.conv = c PROVE Current(r, k, n)'
    <3>1. Current(r, k, n) /\ r.ordinal \in Ordinal
      BY <1>1, <2>1, <2>3 DEF TypeOK, Reservation
    <3>2. table[r.ordinal].status = "PROCESSING"
            => exch[c][r.ordinal].status = "PROCESSING"
      BY <3>1 DEF AbandonStale, TypeOK, Exchange
    <3>3. QED
      BY <1>1, <2>3, <3>1, <3>2 DEF Current
  <2>4. QED
    BY <1>1, <2>1, <2>2, <2>3 DEF OpenInv
<1>3. ASSUME NEW e \in Conv, e # c, conv'[e].state = "open" PROVE OpenInv(e)'
  BY <1>1, <1>3, OpenInvFrame DEF ConvInv
<1>4. QED
  BY <1>1, <1>2, <1>3 DEF ConvInv

\* The next ordinal after a run is the one behind its last row.
LEMMA NextOfRun ==
  ASSUME NEW table \in [Ordinal -> Exchange], NEW k, NEW n, Runs(table, k, n),
         NEW o \in Ordinal, NextOrdinal(table, o)
  PROVE  o = n + 1
<1> USE ConversationAssumption
<1>1. k \in Nat /\ n \in Nat /\ n <= MaxOrdinal
  BY DEF Runs
<1>2. Rows(table) = k + 1 .. n
  BY <1>1 DEF Runs, Rows, Absent, Ordinal, Exchange
<1>3. k < n => n \in Rows(table)
  BY <1>1, <1>2
<1>4. o <= n + 1
  BY <1>1, <1>2 DEF NextOrdinal, Ordinal
<1>5. k < n => o = n + 1
  BY <1>1, <1>3, <1>4 DEF NextOrdinal, Ordinal
<1>6. k < n \/ n = 0
  BY DEF Runs
<1>7. QED
  BY <1>1, <1>4, <1>5, <1>6 DEF Ordinal

LEMMA ReserveNewInv ==
  ASSUME ConvInv, TypeOK, NEW c \in Conv, NEW d \in Delivery, NEW now \in Nat,
         NEW o \in Ordinal, ReserveNew(c, d, now, o)
  PROVE  ConvInv'
<1> USE ConversationAssumption
<1> DEFINE table == AbandonStale(exch[c], now)
           row   == [status |-> "PROCESSING", delivery |-> d, lease |-> now + LeaseTicks]
<1>0. PICK new : new = NewReservation(c, now, o)
  OBVIOUS
<1>1. /\ issued' = issued \cup {new} /\ conv' = conv
      /\ exch'[c] = [table EXCEPT ![o] = row]
      /\ conv[c].state = "open"
      /\ Processing(table) = {} /\ NextOrdinal(table, o)
      /\ \A e \in Conv : e # c => exch'[e] = exch[e]
      /\ new.conv = c
  BY <1>0 DEF ReserveNew, ReserveNewTx, TypeOK, IsActive, NewReservation
<1>2. OpenInv(c)'
  <2>1. PICK k \in 0 .. MaxOrdinal, n \in 0 .. MaxOrdinal :
          /\ Runs(exch[c], k, n)
          /\ SummaryRun(conv[c].summary, k)
          /\ \A r \in issued : r.conv = c => Current(r, k, n)
    BY <1>1 DEF ConvInv, OpenInv
  <2>2. Runs(table, k, n) /\ table \in [Ordinal -> Exchange]
    BY <2>1, AbandonRuns, AbandonType DEF TypeOK
  <2>3. o = n + 1 /\ k \in Nat /\ n \in Nat /\ k <= n
    <3>1. k \in Nat /\ n \in Nat /\ k <= n
      BY <2>2 DEF Runs
    <3>2. o = n + 1
      BY <1>1, <2>2, NextOfRun
    <3>3. QED
      BY <3>1, <3>2
  <2>4. TerminalRows(table) = k + 1 .. n
    BY <1>1, <2>2, TerminalRun
  <2>5. /\ \A p \in Ordinal : p # o => exch'[c][p] = table[p]
        /\ exch'[c][o].status = "PROCESSING"
    BY <1>1, <2>2
  <2>6. Runs(exch'[c], k, n + 1)
    <3>1. n + 1 \in 0 .. MaxOrdinal
      BY <2>3 DEF Ordinal
    <3>2. \A p \in k + 1 .. n : p \in Ordinal /\ table[p].status \in Terminal
      BY <2>4 DEF TerminalRows
    <3>3. QED
      BY <2>2, <2>3, <2>5, <3>1, <3>2, SMTT(30) DEF Runs, Ordinal
  <2>7. Current(new, k, n + 1)'
    <3>1. new.plan = k + 1 .. k + Excess(n + 1 - k)
      BY <1>0, <1>1, <2>2, PlanOfRun DEF NewReservation
    <3>2. new.ordinal = n + 1 /\ new.version = conv[c].version /\ new.summary = conv[c].summary
      BY <1>0, <2>3 DEF NewReservation
    <3>3. QED
      BY <1>1, <2>3, <3>1, <3>2 DEF Current
  <2>8. ASSUME NEW r \in issued, r.conv = c PROVE Current(r, k, n + 1)'
    <3>1. r.ordinal \in Ordinal /\ r.ordinal <= n
      BY <2>1, <2>8 DEF Current, TypeOK, Reservation
    <3>2. r.ordinal # o
      BY <2>3, <3>1 DEF Ordinal
    <3>3. exch'[c][r.ordinal] = table[r.ordinal]
      BY <2>5, <3>1, <3>2
    <3>4. table[r.ordinal].status # "PROCESSING"
      BY <1>1, <3>1 DEF Processing
    <3>5. QED
      BY <2>3, <2>8, <3>1, <3>3, <3>4 DEF Current, Ordinal
  <2>9. n + 1 \in 0 .. MaxOrdinal
    BY <2>3 DEF Ordinal
  <2>10. QED
    BY <1>1, <2>1, <2>6, <2>7, <2>8, <2>9 DEF OpenInv
<1>3. ASSUME NEW e \in Conv, e # c, conv'[e].state = "open" PROVE OpenInv(e)'
  BY <1>1, <1>3, OpenInvFrame DEF ConvInv
<1>4. QED
  BY <1>1, <1>2, <1>3 DEF ConvInv

\* Where the run of deleted rows ends after an answer, and the rows that go then.
Cut(k, n) == k + Excess(n - k)
Span(k, m) == k + 1 .. m

LEMMA CutInside ==
  ASSUME NEW k \in Nat, NEW n \in Nat, k < n
  PROVE  Cut(k, n) \in Nat /\ k <= Cut(k, n) /\ Cut(k, n) < n
  BY ConversationAssumption DEF Cut, Excess

LEMMA CompletedRows ==
  ASSUME NEW table \in [Ordinal -> Exchange], NEW n \in Ordinal, NEW plan
  PROVE  /\ \A p \in Ordinal : p # n =>
              Completed(table, n, plan)[p] = IF p \in plan THEN Removed ELSE table[p]
         /\ Completed(table, n, plan)[n].status = "COMPLETED"
         /\ Completed(table, n, plan)[n].delivery = table[n].delivery
<1>1. \A p \in Ordinal : p # n =>
        Completed(table, n, plan)[p] = IF p \in plan THEN Removed ELSE table[p]
  BY DEF Completed
<1>2. Completed(table, n, plan)[n] = [table[n] EXCEPT !.status = "COMPLETED", !.lease = 0]
  BY DEF Completed
<1>3. table[n] \in Exchange
  OBVIOUS
<1>4. QED
  BY <1>1, <1>2, <1>3 DEF Exchange

\* Answering the last row of a run and deleting the plan moves the run's start.
LEMMA CompletedRun ==
  ASSUME NEW table, NEW k, NEW n, NEW m, NEW plan, table \in [Ordinal -> Exchange],
         n \in Ordinal, Runs(table, k, n), m = Cut(k, n), plan = Span(k, m)
  PROVE  Runs(Completed(table, n, plan), m, n)
<1> USE ConversationAssumption
<1> DEFINE done == Completed(table, n, plan)
<1>1. k \in Nat /\ n \in Nat /\ k < n /\ n <= MaxOrdinal
  BY DEF Runs, Ordinal
<1>2. m \in Nat /\ k <= m /\ m < n
  BY <1>1, CutInside
<1>3. /\ \A p \in Ordinal : p # n => done[p] = IF p \in plan THEN Removed ELSE table[p]
      /\ done[n].status = "COMPLETED"
  BY CompletedRows
<1> HIDE DEF done
<1>4. \A p \in Ordinal : p \in plan <=> k < p /\ p <= m
  BY <1>1, <1>2 DEF Ordinal, Span
<1>5. ASSUME NEW p \in Ordinal
      PROVE  /\ p <= m <=> done[p].status = "DELETED"
             /\ p > n <=> done[p].status = "NONE"
             /\ m < p /\ p < n => done[p].status \in Terminal
  <2>1. CASE p = n
    BY <1>1, <1>2, <1>3, <2>1
  <2>2. CASE p \in plan
    <3>1. p # n /\ p <= m /\ ~(p > n) /\ done[p] = Removed
      BY <1>1, <1>2, <1>3, <1>4, <2>2 DEF Ordinal
    <3>2. QED
      BY <1>2, <3>1 DEF Removed, Ordinal
  <2>3. CASE p # n /\ p \notin plan
    <3>1. done[p] = table[p] /\ (p <= m <=> p <= k) /\ (m < p /\ p < n => k < p)
      BY <1>1, <1>2, <1>3, <1>4, <2>3 DEF Ordinal
    <3>2. QED
      BY <3>1 DEF Runs
  <2>4. QED
    BY <2>1, <2>2, <2>3
<1>6. QED
  BY <1>1, <1>2, <1>5 DEF Runs, done

\* Whatever falls out of a summary that ends at k when the turns up to m are added,
\* what is left ends at m.
LEMMA SummaryMoves ==
  ASSUME NEW k \in Nat, NEW m \in Nat, k <= m, m <= MaxOrdinal, NEW old,
         SummaryRun(old, k), NEW s \in Summaries(old, k + 1 .. m)
  PROVE  SummaryRun(s, m)
<1>1. CASE k = m
  <2>1. k + 1 .. m = {}
    BY <1>1
  <2>2. QED
    BY <1>1, <2>1 DEF Summaries
<1>2. CASE k < m
  <2>1. k + 1 .. m # {}
    <3>1. m \in k + 1 .. m
      BY <1>2
    <3>2. QED
      BY <3>1
  <2>2. PICK from \in Ordinal : /\ \E p \in k + 1 .. m : from <= p
                               /\ s = {o \in old \cup (k + 1 .. m) : o >= from}
    BY <2>1 DEF Summaries
  <2>3. from \in 1 .. m
    BY <2>2 DEF Ordinal
  <2>4. CASE k = 0
    <3>1. old \cup (k + 1 .. m) = 1 .. m
      BY <2>4 DEF SummaryRun
    <3>2. s = from .. m
      BY <2>2, <2>3, <3>1
    <3>3. QED
      BY <2>3, <3>2, <1>2 DEF SummaryRun
  <2>5. CASE k > 0
    <3>1. PICK f \in 1 .. k : old = f .. k
      BY <2>5 DEF SummaryRun
    <3>2. old \cup (k + 1 .. m) = f .. m
      BY <1>2, <3>1
    <3>3. CASE f <= from
      <4>1. s = from .. m
        BY <2>2, <2>3, <3>1, <3>2, <3>3
      <4>2. QED
        BY <2>3, <4>1, <1>2 DEF SummaryRun
    <3>4. CASE from < f
      <4>1. s = f .. m
        BY <2>2, <2>3, <3>1, <3>2, <3>4
      <4>2. f \in 1 .. m
        BY <1>2, <3>1
      <4>3. QED
        BY <4>1, <4>2, <1>2 DEF SummaryRun
    <3>5. QED
      BY <2>3, <3>1, <3>3, <3>4
  <2>6. QED
    BY <2>4, <2>5
<1>3. QED
  BY <1>1, <1>2

LEMMA CompleteInv ==
  ASSUME ConvInv, TypeOK, NEW r \in issued, NEW now \in Nat, Complete(r, now)
  PROVE  ConvInv'
<1> USE ConversationAssumption
<1> DEFINE c == r.conv
           done == Completed(exch[c], r.ordinal, r.plan)
<1>1. /\ c \in Conv /\ r.ordinal \in Ordinal /\ r.plan \in SUBSET Ordinal
      /\ exch[c] \in [Ordinal -> Exchange]
  BY DEF TypeOK, Reservation
<1>2. /\ issued' = issued /\ exch'[c] = done
      /\ conv[c].state = "open" /\ conv'[c].state = "open"
      /\ conv'[c].summary \in Summaries(r.summary, r.plan)
      /\ exch[c][r.ordinal].status = "PROCESSING"
      /\ \A e \in Conv : e # c => exch'[e] = exch[e] /\ conv'[e] = conv[e]
  BY <1>1 DEF Complete, CompleteTx, CanComplete, TypeOK, IsActive
<1>3. OpenInv(c)'
  <2>1. PICK k \in 0 .. MaxOrdinal, n \in 0 .. MaxOrdinal :
          /\ Runs(exch[c], k, n)
          /\ SummaryRun(conv[c].summary, k)
          /\ \A s \in issued : s.conv = c => Current(s, k, n)
    BY <1>1, <1>2 DEF ConvInv, OpenInv
  <2>2. /\ r.ordinal = n /\ k \in Nat /\ n \in Nat /\ k < n
        /\ TerminalRows(exch[c]) = k + 1 .. n - 1
    <3>1. r.ordinal = n /\ TerminalRows(exch[c]) = k + 1 .. n - 1
      BY <1>1, <1>2, <2>1, TerminalRunBeforeLast
    <3>2. k \in Nat /\ n \in Nat /\ n # 0 /\ (k < n \/ n = 0)
      BY <1>1, <2>1, <3>1 DEF Runs, Ordinal
    <3>3. QED
      BY <3>1, <3>2
  <2>3. SummaryRun(r.summary, k) /\ r.plan = k + 1 .. k + Excess(n - k)
    BY <1>2, <2>1 DEF Current
  <2> DEFINE m == k + Excess(n - k)
  <2>4. m = Cut(k, n) /\ m \in Nat /\ k <= m /\ m < n
    BY <2>2, CutInside DEF Cut
  <2>5. done[n].status = "COMPLETED"
    BY <1>1, <2>2, CompletedRows
  <2>6. Runs(done, m, n)
    <3>1. r.plan = Span(k, m)
      BY <2>3 DEF Span
    <3> HIDE DEF m
    <3>2. QED
      BY <1>1, <2>1, <2>2, <2>4, <3>1, CompletedRun
  <2>7. SummaryRun(conv'[c].summary, m)
    <3>1. m <= MaxOrdinal /\ r.plan = k + 1 .. m
      BY <2>1, <2>2, <2>3, <2>4
    <3> HIDE DEF m
    <3>2. QED
      BY <1>2, <2>2, <2>3, <2>4, <3>1, SummaryMoves
  <2>8. ASSUME NEW s \in issued', s.conv = c PROVE Current(s, m, n)'
    <3>1. s.ordinal \in Ordinal /\ s.ordinal <= n
      BY <1>2, <2>1, <2>8 DEF Current, TypeOK, Reservation
    <3>2. done[s.ordinal].status # "PROCESSING"
      <4>1. CASE s.ordinal = n
        BY <2>5, <4>1
      <4>2. CASE s.ordinal <= m
        BY <2>6, <3>1, <4>2 DEF Runs
      <4>3. CASE m < s.ordinal /\ s.ordinal < n
        BY <2>6, <3>1, <4>3 DEF Runs, Terminal
      <4>4. QED
        BY <2>2, <2>4, <3>1, <4>1, <4>2, <4>3 DEF Ordinal
    <3>3. QED
      BY <1>2, <2>8, <3>1, <3>2 DEF Current
  <2>9. QED
    BY <1>2, <2>1, <2>2, <2>4, <2>6, <2>7, <2>8 DEF OpenInv
<1>4. ASSUME NEW e \in Conv, e # c, conv'[e].state = "open" PROVE OpenInv(e)'
  BY <1>2, <1>4, OpenInvFrame DEF ConvInv
<1>5. QED
  BY <1>1, <1>2, <1>3, <1>4 DEF ConvInv, TypeOK, Reservation

LEMMA PurgeInv ==
  ASSUME ConvInv, TypeOK, NEW C \in SUBSET Conv, NEW now, PurgeExpired(C, now)
  PROVE  ConvInv'
<1>1. /\ issued' = issued
      /\ \A c \in C : /\ exch'[c] = [o \in Ordinal |-> Removed]
                      /\ conv'[c].state = "purged"
      /\ \A c \in Conv \ C : exch'[c] = exch[c] /\ conv'[c] = conv[c]
  BY DEF PurgeExpired, PurgeTx, TypeOK, Conversation
<1>2. ASSUME NEW c \in Conv, conv'[c].state = "open" PROVE OpenInv(c)'
  BY <1>1, <1>2, OpenInvFrame DEF ConvInv
<1>3. QED
  BY <1>1, <1>2 DEF ConvInv, TypeOK, Reservation

LEMMA TickInv ==
  ASSUME ConvInv, UNCHANGED <<conv, exch, issued>>
  PROVE  ConvInv'
<1>1. ASSUME NEW c \in Conv, conv'[c].state = "open" PROVE OpenInv(c)'
  BY <1>1, OpenInvFrame DEF ConvInv
<1>2. QED
  BY <1>1 DEF ConvInv

LEMMA NextInv == TypeOK /\ ConvInv /\ [Next]_convVars => ConvInv'
<1> SUFFICES ASSUME TypeOK, ConvInv, [Next]_convVars PROVE ConvInv'
  OBVIOUS
<1>1. \A now \in 0 .. clock : now \in Nat
  BY DEF TypeOK, Time
<1>2. CASE Tick
  BY <1>2, TickInv DEF Tick
<1>3. CASE UNCHANGED convVars
  BY <1>3, TickInv DEF convVars
<1>4. ASSUME NEW c \in Conv, NEW now \in 0 .. clock, Create(c, now) PROVE ConvInv'
  BY <1>4, CreateInv
<1>5. ASSUME NEW c \in Conv, NEW d \in Delivery, NEW now \in 0 .. clock,
             ReserveDuplicate(c, d, now)
      PROVE ConvInv'
  BY <1>1, <1>5, ReserveDuplicateInv
<1>6. ASSUME NEW c \in Conv, NEW d \in Delivery, NEW now \in 0 .. clock,
             NEW o \in Ordinal, ReserveNew(c, d, now, o)
      PROVE ConvInv'
  BY <1>1, <1>6, ReserveNewInv
<1>7. ASSUME NEW r \in issued, NEW now \in 0 .. clock, Complete(r, now) PROVE ConvInv'
  BY <1>1, <1>7, CompleteInv
<1>8. ASSUME NEW C \in SUBSET Conv, NEW now \in 0 .. clock, PurgeExpired(C, now)
      PROVE ConvInv'
  BY <1>8, PurgeInv
<1>9. QED
  BY <1>2, <1>3, <1>4, <1>5, <1>6, <1>7, <1>8 DEF Next

\* The three runs of ordinals, and reservations that agree with them, hold in
\* every reachable state.
LEMMA Invariant == Spec => [](TypeOK /\ ConvInv)
<1>1. Init => TypeOK /\ ConvInv
  BY InitType, InitInv
<1>2. TypeOK /\ ConvInv /\ [Next]_convVars => (TypeOK /\ ConvInv)'
  BY NextType, NextInv
<1>3. QED
  BY <1>1, <1>2, PTL DEF Spec

------------------------------------------------------------------------------
\* What follows from it.

LEMMA InvSummary == ConvInv => SummaryEndsWhereRowsBegin
<1> SUFFICES ASSUME ConvInv, NEW c \in Conv, conv[c].state = "open",
                    NEW folded, folded = {o \in Ordinal : exch[c][o].status = "DELETED"}
             PROVE  /\ conv[c].summary \subseteq folded
                    /\ folded # {} => conv[c].summary # {}
                    /\ \A o \in folded, p \in conv[c].summary :
                         p < o => o \in conv[c].summary
                    /\ \A o \in Ordinal, p \in Ordinal : o < p =>
                         /\ exch[c][p].status # "NONE" => exch[c][o].status # "NONE"
                         /\ exch[c][p].status = "DELETED" => exch[c][o].status = "DELETED"
  BY DEF SummaryEndsWhereRowsBegin
<1>1. PICK k \in 0 .. MaxOrdinal, n \in 0 .. MaxOrdinal :
        Runs(exch[c], k, n) /\ SummaryRun(conv[c].summary, k)
  BY DEF ConvInv, OpenInv
<1>2. folded = 1 .. k
  BY <1>1, ConversationAssumption DEF Runs, Ordinal
<1>3. /\ conv[c].summary \subseteq folded
      /\ folded # {} => conv[c].summary # {}
      /\ \A o \in folded, p \in conv[c].summary : p < o => o \in conv[c].summary
  <2>1. CASE k = 0
    <3>1. conv[c].summary = {}
      BY <1>1, <2>1 DEF SummaryRun
    <3>2. folded = {}
      <4>1. \A o : o \notin 1 .. 0
        OBVIOUS
      <4>2. QED
        BY <1>2, <2>1, <4>1, Zenon
    <3>3. QED
      BY <3>1, <3>2
  <2>2. CASE k > 0
    <3>1. PICK f \in 1 .. k : conv[c].summary = f .. k
      BY <1>1, <2>2 DEF SummaryRun
    <3>2. QED
      BY <1>1, <1>2, <3>1
  <2>3. QED
    BY <1>1, <2>1, <2>2
<1>4. QED
  BY <1>1, <1>3, ConversationAssumption DEF Runs, Ordinal

\* The deleted turns of a conversation are its oldest ones, and the rolling summary
\* is a run of them that ends where the rows begin: when its size is reached only the
\* oldest turns fall out, and no turn in between is missing from both.
THEOREM SummaryMeetsRows == Spec => []SummaryEndsWhereRowsBegin
  BY Invariant, InvSummary, PTL

LEMMA InvLive == TypeOK /\ ConvInv => LiveReservationIsCurrent
<1> USE ConversationAssumption
<1> SUFFICES ASSUME TypeOK, ConvInv, NEW r \in issued, conv[r.conv].state = "open",
                    exch[r.conv][r.ordinal].status = "PROCESSING"
             PROVE  /\ conv[r.conv].version = r.version
                    /\ conv[r.conv].summary = r.summary
                    /\ r.plan \subseteq TerminalRows(exch[r.conv])
                    /\ Cardinality(TerminalRows(
                         Completed(exch[r.conv], r.ordinal, r.plan))) <= RetainedLimit
  BY DEF LiveReservationIsCurrent
<1> DEFINE c == r.conv
           done == Completed(exch[c], r.ordinal, r.plan)
<1>1. c \in Conv /\ r.ordinal \in Ordinal /\ exch[c] \in [Ordinal -> Exchange]
  BY DEF TypeOK, Reservation
<1>2. PICK k \in 0 .. MaxOrdinal, n \in 0 .. MaxOrdinal :
        Runs(exch[c], k, n) /\ Current(r, k, n)
  BY <1>1 DEF ConvInv, OpenInv
<1>3. r.ordinal = n /\ TerminalRows(exch[c]) = k + 1 .. n - 1
  BY <1>1, <1>2, TerminalRunBeforeLast
<1>4. k \in Nat /\ n \in Nat /\ k < n /\ n \in Ordinal
  BY <1>1, <1>2, <1>3 DEF Runs, Ordinal
<1> DEFINE m == k + Excess(n - k)
<1>5. m \in Nat /\ k <= m /\ m < n /\ n - m <= RetainedLimit
  BY <1>4 DEF Excess
<1>6. r.plan = k + 1 .. m
  BY <1>2 DEF Current
<1>7. TerminalRows(done) \subseteq m + 1 .. n
  <2>1. ASSUME NEW p \in Ordinal, p # n PROVE done[p] = IF p \in r.plan THEN Removed ELSE exch[c][p]
    BY <1>1, <1>3, <2>1 DEF Completed
  <2>2. ASSUME NEW p \in TerminalRows(done) PROVE p \in m + 1 .. n
    <3>1. CASE p = n
      BY <1>5, <3>1
    <3>2. CASE p # n
      <4>1. p \notin r.plan /\ p \in TerminalRows(exch[c])
        BY <2>1, <2>2, <3>2 DEF TerminalRows, Removed, Terminal
      <4>2. QED
        BY <1>3, <1>4, <1>5, <1>6, <4>1
    <3>3. QED
      BY <3>1, <3>2
  <2>3. QED
    BY <2>2
<1>8. IsFiniteSet(m + 1 .. n) /\ Cardinality(m + 1 .. n) = n - m
  <2>1. m + 1 \in Nat /\ n \in Int /\ m + 1 <= n + 1 /\ n - (m + 1) + 1 = n - m
    BY <1>4, <1>5
  <2>2. IsFiniteSet(m + 1 .. n) /\ Cardinality(m + 1 .. n) = n - (m + 1) + 1
    BY <2>1, IntervalCardinality
  <2>3. QED
    BY <2>1, <2>2
<1>9. Cardinality(TerminalRows(done)) <= n - m /\ Cardinality(TerminalRows(done)) \in Nat
  BY <1>7, <1>8, FS_Subset, FS_CardinalityType
<1>10. QED
  BY <1>2, <1>3, <1>4, <1>5, <1>6, <1>9 DEF Current

\* Whatever other callers do while the chat runs, a caller whose row still waits
\* passes every re-check of complete() on version, plan and limit.
THEOREM LiveReservationsAreCurrent == Spec => []LiveReservationIsCurrent
  BY Invariant, InvLive, PTL

LEMMA NextEnded ==
  ASSUME TypeOK, ConvInv, [Next]_convVars, NEW c \in Conv, NEW o \in Ordinal
  PROVE  /\ exch[c][o].status \in Terminal => exch'[c][o] \in {exch[c][o], Removed}
         /\ exch[c][o].status = "DELETED" => exch'[c][o].status = "DELETED"
<1> DEFINE Goal == /\ exch[c][o].status \in Terminal => exch'[c][o] \in {exch[c][o], Removed}
                   /\ exch[c][o].status = "DELETED" => exch'[c][o].status = "DELETED"
<1>1. CASE exch' = exch
  BY <1>1
<1>2. \A now : exch[c][o].status # "PROCESSING" => AbandonStale(exch[c], now)[o] = exch[c][o]
  BY DEF AbandonStale
<1>3. ASSUME NEW e \in Conv, NEW d \in Delivery, NEW now \in 0 .. clock,
             ReserveDuplicate(e, d, now)
      PROVE Goal
  <2>1. exch'[c] = exch[c] \/ exch'[c] = AbandonStale(exch[c], now)
    BY <1>3 DEF ReserveDuplicate, ReserveDuplicateTx, TypeOK
  <2>2. QED
    BY <1>2, <2>1 DEF Terminal
<1>4. ASSUME NEW e \in Conv, NEW d \in Delivery, NEW now \in 0 .. clock,
             NEW p \in Ordinal, ReserveNew(e, d, now, p)
      PROVE Goal
  <2> DEFINE table == AbandonStale(exch[e], now)
  <2>1. CASE e # c
    BY <1>4, <2>1 DEF ReserveNew, ReserveNewTx, TypeOK
  <2>2. CASE e = c
    <3>1. conv[c].state = "open" /\ NextOrdinal(table, p) /\ Processing(table) = {}
      BY <1>4, <2>2 DEF ReserveNew, ReserveNewTx, IsActive
    <3>2. PICK k \in 0 .. MaxOrdinal, n \in 0 .. MaxOrdinal : Runs(exch[c], k, n)
      BY <3>1 DEF ConvInv, OpenInv
    <3>3. Runs(table, k, n) /\ table \in [Ordinal -> Exchange]
      BY <2>2, <3>2, AbandonRuns, AbandonType DEF TypeOK, Time
    <3>4. p = n + 1
      BY <3>1, <3>3, NextOfRun
    <3>5. exch[c][p].status = "NONE"
      BY <3>2, <3>4 DEF Runs
    <3>6. o # p => exch'[c][o] = table[o]
      BY <1>4, <2>2, <3>3 DEF ReserveNew, ReserveNewTx, TypeOK
    <3>7. QED
      BY <1>2, <2>2, <3>5, <3>6 DEF Terminal
  <2>3. QED
    BY <2>1, <2>2
<1>5. ASSUME NEW r \in issued, NEW now \in 0 .. clock, Complete(r, now) PROVE Goal
  <2>1. CASE r.conv # c
    BY <1>5, <2>1 DEF Complete, CompleteTx, TypeOK
  <2>2. CASE r.conv = c
    <3>1. /\ exch[c][r.ordinal].status = "PROCESSING"
          /\ r.plan \subseteq TerminalRows(exch[c])
          /\ exch'[c] = Completed(exch[c], r.ordinal, r.plan)
      BY <1>5, <2>2 DEF Complete, CompleteTx, CanComplete, TypeOK
    <3>2. o # r.ordinal => exch'[c][o] = IF o \in r.plan THEN Removed ELSE exch[c][o]
      BY <3>1 DEF Completed
    <3>3. QED
      BY <3>1, <3>2 DEF Terminal, TerminalRows, Removed
  <2>3. QED
    BY <2>1, <2>2
<1>6. ASSUME NEW C \in SUBSET Conv, NEW now \in 0 .. clock, PurgeExpired(C, now)
      PROVE Goal
  <2>1. exch'[c] = exch[c] \/ exch'[c] = [p \in Ordinal |-> Removed]
    BY <1>6 DEF PurgeExpired, PurgeTx
  <2>2. QED
    BY <2>1 DEF Removed
<1>7. QED
  BY <1>1, <1>3, <1>4, <1>5, <1>6 DEF Next, Tick, Create, CreateTx, convVars

\* A turn ends once: completed and abandoned rows never change again, whoever
\* still holds a reservation for them.
THEOREM TurnsEndOnce == Spec => EndedTurnsStayEnded
<1>1. TypeOK /\ ConvInv /\ [Next]_convVars =>
        [\A c \in Conv, o \in Ordinal :
           /\ exch[c][o].status \in Terminal => exch'[c][o] \in {exch[c][o], Removed}
           /\ exch[c][o].status = "DELETED" => exch'[c][o].status = "DELETED"]_convVars
  BY NextEnded
<1>2. QED
  BY <1>1, Invariant, PTL DEF Spec, EndedTurnsStayEnded

LEMMA NextGrows ==
  ASSUME TypeOK, ConvInv, [Next]_convVars, NEW r \in issued' \ issued,
         NEW s \in issued, r.conv = s.conv
  PROVE  s.ordinal < r.ordinal
<1>1. PICK c \in Conv, d \in Delivery, now \in 0 .. clock, o \in Ordinal :
        ReserveNew(c, d, now, o) /\ r = NewReservation(c, now, o)
  BY DEF Next, Tick, Create, ReserveNew, ReserveDuplicate, Complete, PurgeExpired, convVars
<1> DEFINE table == AbandonStale(exch[c], now)
<1>2. /\ conv[c].state = "open" /\ NextOrdinal(table, o) /\ s.conv = c /\ r.ordinal = o
  BY <1>1 DEF ReserveNew, ReserveNewTx, IsActive, NewReservation
<1>3. PICK k \in 0 .. MaxOrdinal, n \in 0 .. MaxOrdinal :
        Runs(exch[c], k, n) /\ Current(s, k, n)
  BY <1>2 DEF ConvInv, OpenInv
<1>4. Runs(table, k, n) /\ table \in [Ordinal -> Exchange]
  BY <1>3, AbandonRuns, AbandonType DEF TypeOK, Time
<1>5. o = n + 1
  BY <1>2, <1>4, NextOfRun
<1>6. s.ordinal \in Ordinal /\ s.ordinal <= n
  BY <1>3 DEF TypeOK, Reservation, Current
<1>7. QED
  BY <1>2, <1>5, <1>6 DEF Ordinal

\* Ordinals are handed out once, in increasing order, although the code takes the
\* maximum over the rows that compaction left.
THEOREM OrdinalsNeverReused == Spec => OrdinalsGrow
<1>1. TypeOK /\ ConvInv /\ [Next]_convVars =>
        [\A r \in issued' \ issued, s \in issued :
           r.conv = s.conv => s.ordinal < r.ordinal]_convVars
  BY NextGrows
<1>2. QED
  BY <1>1, Invariant, PTL DEF Spec, OrdinalsGrow

------------------------------------------------------------------------------
\* The tables implement ConversationLog.

\* How many rows a run has used, and how many of them are gone.
LEMMA RunCounts ==
  ASSUME NEW table \in [Ordinal -> Exchange], NEW k, NEW n, Runs(table, k, n)
  PROVE  /\ k \in Nat /\ n \in Nat /\ k <= n /\ n <= MaxOrdinal
         /\ Cardinality({o \in Ordinal : table[o].status # "NONE"}) = n
         /\ Cardinality({o \in Ordinal : table[o].status = "DELETED"}) = k
<1> USE ConversationAssumption
<1>1. k \in Nat /\ n \in Nat /\ k <= n /\ n <= MaxOrdinal
  BY DEF Runs
<1>2. {o \in Ordinal : table[o].status # "NONE"} = 1 .. n
  BY <1>1 DEF Runs, Ordinal
<1>3. {o \in Ordinal : table[o].status = "DELETED"} = 1 .. k
  BY <1>1 DEF Runs, Ordinal
<1>4. Cardinality(1 .. n) = n /\ Cardinality(1 .. k) = k
  BY <1>1, IntervalCardinality
<1>5. QED
  BY <1>1, <1>2, <1>3, <1>4

\* The turns that the rows 1 .. n of a table show.
Turns(table, n) == [o \in 1 .. n |-> TurnOf(table[o])]

\* An open conversation whose rows are a run shows that run.
LEMMA LogOfRun ==
  ASSUME TypeOK, NEW c \in Conv, conv[c].state = "open", NEW k, NEW n, Runs(exch[c], k, n)
  PROVE  LogOf(c) = Turns(exch[c], n) /\ FoldedOf(c) = k
  BY RunCounts DEF TypeOK, LogOf, FoldedOf, Started, Turns

LEMMA LogOfNextRun ==
  ASSUME TypeOK', NEW c \in Conv, conv'[c].state = "open", NEW k, NEW n, Runs(exch'[c], k, n)
  PROVE  LogOf(c)' = Turns(exch'[c], n) /\ FoldedOf(c)' = k
<1>1. exch'[c] \in [Ordinal -> Exchange]
  BY DEF TypeOK
<1>2. /\ Cardinality({o \in Ordinal : exch'[c][o].status # "NONE"}) = n
      /\ Cardinality({o \in Ordinal : exch'[c][o].status = "DELETED"}) = k
  BY <1>1, RunCounts
<1>3. QED
  BY <1>2 DEF LogOf, FoldedOf, Started, Turns

\* The last turn of a run is open if a row is processing, and then it is that row.
LEMMA LastOfRun ==
  ASSUME NEW table \in [Ordinal -> Exchange], NEW k, NEW n, Runs(table, k, n)
  PROVE  /\ Len(Turns(table, n)) = n
         /\ (Turns(table, n) # << >> /\ Turns(table, n)[n].state = "open")
              <=> Processing(table) # {}
         /\ Processing(table) \subseteq {n}
         /\ Processing(table) # {} => n \in Ordinal /\ table[n].status = "PROCESSING"
<1>1. k \in Nat /\ n \in Nat /\ k <= n /\ n <= MaxOrdinal /\ (k < n \/ n = 0)
  BY RunCounts DEF Runs
<1>2. Len(Turns(table, n)) = n
  BY <1>1 DEF Turns
<1>3. Processing(table) \subseteq {n}
  BY <1>1 DEF Processing, Runs, Ordinal, Terminal
<1>4. CASE n = 0
  <2>1. Turns(table, n) = << >>
    BY <1>4 DEF Turns
  <2>2. Processing(table) = {}
    BY <1>3, <1>4 DEF Processing, Ordinal
  <2>3. QED
    BY <1>2, <2>1, <2>2
<1>5. CASE n # 0
  <2>1. n \in Ordinal /\ k < n /\ Turns(table, n)[n] = TurnOf(table[n]) /\ Turns(table, n) # << >>
    BY <1>1, <1>2, <1>5, ConversationAssumption DEF Turns, Ordinal
  <2>2. table[n].status \in Terminal \cup {"PROCESSING"}
    BY <1>1, <2>1 DEF Runs, Exchange, Absent
  <2>3. TurnOf(table[n]).state = "open" <=> table[n].status = "PROCESSING"
    BY <2>2 DEF TurnOf, LogState, Terminal
  <2>4. QED
    BY <1>2, <1>3, <2>1, <2>3 DEF Processing
<1>6. QED
  BY <1>4, <1>5

\* Abandoning stale rows changes nothing, or gives up the open turn.
LEMMA AbandonedTurns ==
  ASSUME NEW table \in [Ordinal -> Exchange], NEW k, NEW n, Runs(table, k, n), NEW now
  PROVE  \/ AbandonStale(table, now) = table
         \/ /\ Processing(table) # {} /\ Processing(AbandonStale(table, now)) = {}
            /\ Turns(AbandonStale(table, now), n)
                 = [Turns(table, n) EXCEPT ![n].state = "given_up"]
<1> DEFINE gone == AbandonStale(table, now)
<1>1. Processing(table) \subseteq {n}
  BY LastOfRun
<1>2. \A o \in Ordinal : gone[o] = IF table[o].status = "PROCESSING" /\ table[o].lease <= now
                                   THEN [table[o] EXCEPT !.status = "ABANDONED", !.lease = 0]
                                   ELSE table[o]
  BY DEF AbandonStale
<1>3. CASE \A o \in Ordinal : ~(table[o].status = "PROCESSING" /\ table[o].lease <= now)
  <2>1. \A o \in Ordinal : gone[o] = table[o]
    BY <1>2, <1>3
  <2>2. QED
    BY <2>1 DEF AbandonStale
<1>4. ASSUME NEW o \in Ordinal, table[o].status = "PROCESSING", table[o].lease <= now
      PROVE  /\ Processing(table) # {} /\ Processing(gone) = {}
             /\ Turns(gone, n) = [Turns(table, n) EXCEPT ![n].state = "given_up"]
  <2>1. o = n /\ Processing(table) # {}
    BY <1>1, <1>4 DEF Processing
  <2>2. /\ gone[n] = [table[n] EXCEPT !.status = "ABANDONED", !.lease = 0]
        /\ \A p \in Ordinal : p # n => gone[p] = table[p] /\ table[p].status # "PROCESSING"
    BY <1>1, <1>2, <1>4, <2>1 DEF Processing
  <2>3. Processing(gone) = {}
    <3>1. gone[n].status = "ABANDONED"
      BY <1>4, <2>1, <2>2 DEF Exchange
    <3>2. QED
      BY <2>2, <3>1 DEF Processing
  <2>4. /\ TurnOf(table[n]) = [state |-> "open", delivery |-> table[n].delivery]
        /\ TurnOf(gone[n]) = [state |-> "given_up", delivery |-> table[n].delivery]
    BY <1>4, <2>1, <2>2 DEF TurnOf, LogState, Exchange
  <2>5. n \in Nat /\ n <= MaxOrdinal
    BY RunCounts
  <2> HIDE DEF gone
  <2>6. Turns(gone, n) = [Turns(table, n) EXCEPT ![n].state = "given_up"]
    <3>1. \A p \in 1 .. n : p # n => TurnOf(gone[p]) = TurnOf(table[p])
      BY <2>2, <2>5, ConversationAssumption DEF Ordinal
    <3>2. [TurnOf(table[n]) EXCEPT !.state = "given_up"] = TurnOf(gone[n])
      BY <2>4
    <3>3. QED
      BY <2>1, <2>5, <3>1, <3>2 DEF Turns
  <2>7. QED
    BY <2>1, <2>3, <2>6
<1>5. QED
  BY <1>3, <1>4

\* A new row shows as a turn put behind the others.
LEMMA AppendedTurn ==
  ASSUME NEW table, NEW n \in Nat, NEW row, NEW new,
         \A o \in 1 .. n : new[o] = table[o], new[n + 1] = row
  PROVE  Turns(new, n + 1) = Append(Turns(table, n), TurnOf(row))
<1> DEFINE S == {TurnOf(table[o]) : o \in 1 .. n} \cup {TurnOf(row)}
           L == Turns(table, n)
<1>1. L \in Seq(S) /\ Len(L) = n /\ \A o \in 1 .. n : L[o] = TurnOf(table[o])
  BY DEF Turns
<1>2. /\ Append(L, TurnOf(row)) \in Seq(S) /\ Len(Append(L, TurnOf(row))) = n + 1
      /\ \A o \in 1 .. n : Append(L, TurnOf(row))[o] = L[o]
      /\ Append(L, TurnOf(row))[n + 1] = TurnOf(row)
  <2> HIDE DEF S, L
  <2>1. TurnOf(row) \in S
    BY DEF S
  <2>2. QED
    BY <1>1, <2>1
<1>3. /\ Turns(new, n + 1) \in Seq(S) /\ Len(Turns(new, n + 1)) = n + 1
      /\ \A o \in 1 .. n : Turns(new, n + 1)[o] = TurnOf(table[o])
      /\ Turns(new, n + 1)[n + 1] = TurnOf(row)
  <2>1. \A o \in 1 .. n + 1 : new[o] = IF o = n + 1 THEN row ELSE table[o]
    OBVIOUS
  <2>2. \A o \in 1 .. n + 1 : TurnOf(new[o]) \in S
    BY <2>1
  <2>3. Turns(new, n + 1) \in Seq(S)
    BY <2>2 DEF Turns
  <2>4. /\ Len(Turns(new, n + 1)) = n + 1 /\ n + 1 \in 1 .. n + 1
        /\ \A o \in 1 .. n : o \in 1 .. n + 1
        /\ \A o \in 1 .. n + 1 : Turns(new, n + 1)[o] = TurnOf(new[o])
    BY DEF Turns
  <2>5. QED
    BY <2>3, <2>4
<1> HIDE DEF S, L
<1>4. \A o \in 1 .. n + 1 : Turns(new, n + 1)[o] = Append(L, TurnOf(row))[o]
  <2>1. \A o \in 1 .. n + 1 : o \in 1 .. n \/ o = n + 1
    OBVIOUS
  <2>2. \A o \in 1 .. n : Turns(new, n + 1)[o] = Append(L, TurnOf(row))[o]
    BY <1>1, <1>2, <1>3
  <2>3. QED
    BY <1>2, <1>3, <2>1, <2>2
<1>5. Turns(new, n + 1) = Append(L, TurnOf(row))
  BY <1>2, <1>3, <1>4
<1>6. QED
  BY <1>5 DEF L

\* What the log of an open conversation looks like to a reservation.
LEMMA ReserveDuplicateLog ==
  ASSUME TypeOK, TypeOK', ConvInv, NEW c \in Conv, NEW d \in Delivery, NEW now,
         ReserveDuplicate(c, d, now)
  PROVE  [Log(c)!LogNext]_<<LogOf(c), FoldedOf(c)>>
<1> DEFINE table == exch[c]
           gone  == AbandonStale(table, now)
<1>1. /\ conv[c].state = "open" /\ conv'[c].state = "open" /\ exch'[c] = gone
      /\ table \in [Ordinal -> Exchange]
  BY DEF ReserveDuplicate, ReserveDuplicateTx, IsActive, TypeOK
<1>2. PICK k \in 0 .. MaxOrdinal, n \in 0 .. MaxOrdinal : Runs(table, k, n)
  BY <1>1 DEF ConvInv, OpenInv
<1>3. Runs(gone, k, n)
  BY <1>1, <1>2, AbandonRuns
<1> HIDE DEF gone
<1>4. LogOf(c) = Turns(table, n) /\ FoldedOf(c) = k
  BY <1>1, <1>2, LogOfRun
<1>5. LogOf(c)' = Turns(gone, n) /\ FoldedOf(c)' = k
  <2>1. Runs(exch'[c], k, n)
    BY <1>1, <1>3
  <2>2. QED
    BY <1>1, <2>1, LogOfNextRun
<1>6. CASE gone = table
  BY <1>4, <1>5, <1>6
<1>7. CASE /\ Processing(table) # {}
           /\ Turns(gone, n) = [Turns(table, n) EXCEPT ![n].state = "given_up"]
  <2>1. Len(Turns(table, n)) = n /\ Turns(table, n) # << >> /\ Turns(table, n)[n].state = "open"
    BY <1>1, <1>2, <1>7, LastOfRun
  <2>2. Log(c)!GiveUp
    BY <1>4, <1>5, <1>7, <2>1 DEF Log!GiveUp, Log!LastOpen, Log!GivenUp
  <2>3. QED
    BY <2>2 DEF Log!LogNext
<1>8. QED
  BY <1>1, <1>2, <1>6, <1>7, AbandonedTurns DEF gone

LEMMA ReserveNewLog ==
  ASSUME TypeOK, TypeOK', ConvInv, ConvInv', NEW c \in Conv, NEW d \in Delivery,
         NEW now \in Nat, NEW o \in Ordinal, ReserveNew(c, d, now, o)
  PROVE  [Log(c)!LogNext]_<<LogOf(c), FoldedOf(c)>>
<1> DEFINE table == exch[c]
           gone  == AbandonStale(table, now)
           row   == [status |-> "PROCESSING", delivery |-> d, lease |-> now + LeaseTicks]
<1>1. /\ conv[c].state = "open" /\ conv'[c].state = "open"
      /\ exch'[c] = [gone EXCEPT ![o] = row]
      /\ Processing(gone) = {} /\ RowsOf(gone, d) = {} /\ NextOrdinal(gone, o)
      /\ table \in [Ordinal -> Exchange] /\ gone \in [Ordinal -> Exchange]
  BY AbandonType DEF ReserveNew, ReserveNewTx, IsActive, TypeOK
<1>2. PICK k \in 0 .. MaxOrdinal, n \in 0 .. MaxOrdinal : Runs(table, k, n)
  BY <1>1 DEF ConvInv, OpenInv
<1>3. Runs(gone, k, n)
  BY <1>1, <1>2, AbandonRuns
<1>4. o = n + 1 /\ k \in Nat /\ n \in Nat /\ k <= n /\ n + 1 <= MaxOrdinal
  <2>1. o = n + 1
    BY <1>1, <1>3, NextOfRun
  <2>2. k \in Nat /\ n \in Nat /\ k <= n
    BY <1>1, <1>2, RunCounts
  <2>3. QED
    BY <2>1, <2>2, ConversationAssumption DEF Ordinal
<1>5. PICK new : new = [gone EXCEPT ![o] = row]
  OBVIOUS
<1>6. LogOf(c) = Turns(table, n) /\ FoldedOf(c) = k
  BY <1>1, <1>2, LogOfRun
<1>7. Runs(new, k, n + 1)
  <2>1. \A p \in Ordinal : p # o => new[p] = gone[p]
    BY <1>1, <1>5
  <2>2. new[o].status = "PROCESSING"
    BY <1>1, <1>5
  <2>3. \A p \in Ordinal : k < p /\ p <= n => gone[p].status \in Terminal
    <3>1. TerminalRows(gone) = k + 1 .. n
      BY <1>1, <1>3, TerminalRun
    <3>2. \A p \in Ordinal : k < p /\ p <= n => p \in k + 1 .. n
      BY <1>4 DEF Ordinal
    <3>3. QED
      BY <3>1, <3>2 DEF TerminalRows
  <2>4. /\ k \in 0 .. MaxOrdinal /\ n + 1 \in 0 .. MaxOrdinal /\ k < n + 1
        /\ \A p \in Ordinal : p # o => (p > n <=> p > n + 1) /\ (p < n + 1 <=> p <= n)
    BY <1>4, ConversationAssumption DEF Ordinal
  <2>5. ASSUME NEW p \in Ordinal
        PROVE  /\ p <= k <=> new[p].status = "DELETED"
               /\ p > n + 1 <=> new[p].status = "NONE"
               /\ k < p /\ p < n + 1 => new[p].status \in Terminal
    <3>1. CASE p = o
      BY <1>4, <2>2, <3>1
    <3>2. CASE p # o
      BY <1>3, <2>1, <2>3, <2>4, <3>2 DEF Runs
    <3>3. QED
      BY <3>1, <3>2
  <2>6. QED
    BY <2>4, <2>5 DEF Runs
<1>8. LogOf(c)' = Turns(new, n + 1) /\ FoldedOf(c)' = k
  <2>1. Runs(exch'[c], k, n + 1) /\ exch'[c] = new
    BY <1>1, <1>5, <1>7
  <2>2. QED
    BY <1>1, <2>1, LogOfNextRun
<1>9. Turns(new, n + 1) = Append(Turns(gone, n), [state |-> "open", delivery |-> d])
  <2>1. \A p \in 1 .. n : new[p] = gone[p]
    <3>1. \A p \in 1 .. n : p \in Ordinal /\ p # o
      BY <1>4, ConversationAssumption DEF Ordinal
    <3>2. QED
      BY <1>1, <1>5, <3>1
  <2>2. new[n + 1] = row
    BY <1>1, <1>4, <1>5
  <2>3. TurnOf(row) = [state |-> "open", delivery |-> d]
    BY DEF TurnOf, LogState
  <2> HIDE DEF gone, row
  <2>4. Turns(new, n + 1) = Append(Turns(gone, n), TurnOf(row))
    <3>1. PICK old, last : old = gone /\ last = row
      OBVIOUS
    <3>2. \A p \in 1 .. n : new[p] = old[p]
      BY <2>1, <3>1
    <3>3. new[n + 1] = last /\ n \in Nat
      BY <1>4, <2>2, <3>1
    <3>4. Turns(new, n + 1) = Append(Turns(old, n), TurnOf(last))
      BY <3>2, <3>3, AppendedTurn
    <3>5. QED
      BY <3>1, <3>4
  <2>5. QED
    BY <2>3, <2>4
<1>10. d \notin Log(c)!Remembered
  <2> SUFFICES ASSUME NEW m \in k + 1 .. n, Turns(table, n)[m].delivery = d PROVE FALSE
    <3>1. Len(Turns(table, n)) = n
      BY <1>1, <1>2, LastOfRun
    <3>2. QED
      BY <1>6, <3>1 DEF Log!Remembered
  <2>1. m \in Ordinal /\ m \in 1 .. n
    BY <1>4, ConversationAssumption DEF Ordinal
  <2>2. table[m].status \notin Absent
    BY <1>2, <1>4, <2>1 DEF Runs, Absent
  <2>3. table[m].delivery = d
    BY <2>1, <2>2 DEF Turns, TurnOf, Absent
  <2>4. gone[m].status \notin Absent /\ gone[m].delivery = d
    <3>1. table[m] \in Exchange
      BY <1>1, <2>1
    <3>2. gone[m] = table[m] \/ gone[m] = [table[m] EXCEPT !.status = "ABANDONED", !.lease = 0]
      BY <2>1 DEF AbandonStale
    <3>3. QED
      BY <2>2, <2>3, <3>1, <3>2 DEF Absent, Exchange
  <2>5. QED
    BY <1>1, <2>1, <2>4 DEF RowsOf, Rows
<1> HIDE DEF gone
<1>11. CASE gone = table
  <2>1. ~Log(c)!LastOpen
    BY <1>1, <1>2, <1>6, <1>11, LastOfRun DEF Log!LastOpen
  <2>2. Log(c)!Open(d)
    BY <1>6, <1>8, <1>9, <1>10, <1>11, <2>1 DEF Log!Open
  <2>3. QED
    BY <2>2 DEF Log!LogNext
<1>12. CASE /\ Processing(table) # {}
            /\ Turns(gone, n) = [Turns(table, n) EXCEPT ![n].state = "given_up"]
  <2>1. Len(Turns(table, n)) = n /\ Turns(table, n) # << >> /\ Turns(table, n)[n].state = "open"
    BY <1>1, <1>2, <1>12, LastOfRun
  <2>2. Log(c)!Replace(d)
    BY <1>6, <1>8, <1>9, <1>10, <1>12, <2>1 DEF Log!Replace, Log!LastOpen, Log!GivenUp
  <2>3. QED
    BY <2>2 DEF Log!LogNext
<1>13. QED
  BY <1>1, <1>2, <1>11, <1>12, AbandonedTurns DEF gone

LEMMA CompleteLog ==
  ASSUME TypeOK, TypeOK', ConvInv, NEW r \in issued, NEW now, Complete(r, now)
  PROVE  [Log(r.conv)!LogNext]_<<LogOf(r.conv), FoldedOf(r.conv)>>
<1> USE ConversationAssumption
<1>0. PICK c, plan : c = r.conv /\ plan = r.plan
  OBVIOUS
<1> DEFINE table == exch[c]
           done  == Completed(table, r.ordinal, plan)
<1>1. /\ c \in Conv /\ r.ordinal \in Ordinal /\ table \in [Ordinal -> Exchange]
      /\ conv[c].state = "open" /\ conv'[c].state = "open" /\ exch'[c] = done
      /\ table[r.ordinal].status = "PROCESSING"
  BY <1>0 DEF Complete, CompleteTx, CanComplete, TypeOK, Reservation, IsActive
<1>2. PICK k \in 0 .. MaxOrdinal, n \in 0 .. MaxOrdinal : Runs(table, k, n) /\ Current(r, k, n)
  BY <1>0, <1>1 DEF ConvInv, OpenInv
<1>3. r.ordinal = n /\ n \in Ordinal
  BY <1>1, <1>2, TerminalRunBeforeLast
<1>4. PICK m : m = k + Excess(n - k)
  OBVIOUS
<1>5. plan = k + 1 .. m
  BY <1>0, <1>1, <1>2, <1>4 DEF Current
<1>6. /\ m \in Nat /\ k <= m /\ m < n /\ Runs(done, m, n)
      /\ \A p \in Ordinal : p # n => done[p] = IF p \in plan THEN Removed ELSE table[p]
      /\ done[n].status = "COMPLETED" /\ done[n].delivery = table[n].delivery
  <2>1. k \in Nat /\ n \in Nat /\ k < n
    BY <1>2, <1>3, ConversationAssumption DEF Runs, Ordinal
  <2>2. m = Cut(k, n) /\ plan = Span(k, m)
    BY <1>4, <1>5 DEF Cut, Span
  <2>3. m \in Nat /\ k <= m /\ m < n
    BY <2>1, <2>2, CutInside
  <2>4. Runs(done, m, n)
    BY <1>1, <1>2, <1>3, <2>2, CompletedRun
  <2>5. QED
    BY <1>1, <1>3, <2>3, <2>4, CompletedRows
<1>7. k \in Nat /\ n \in Nat /\ k <= n /\ n <= MaxOrdinal
  BY <1>1, <1>2, RunCounts
<1> HIDE DEF done
<1>8. LogOf(c) = Turns(table, n) /\ FoldedOf(c) = k
  BY <1>1, <1>2, LogOfRun
<1>9. LogOf(c)' = Turns(done, n) /\ FoldedOf(c)' = m
  <2>1. Runs(exch'[c], m, n)
    BY <1>1, <1>6
  <2>2. QED
    BY <1>1, <2>1, LogOfNextRun
<1>10. Len(Turns(table, n)) = n /\ Turns(table, n) # << >> /\ Turns(table, n)[n].state = "open"
  BY <1>1, <1>2, <1>3, LastOfRun DEF Processing
<1>11. m = IF n - k > RetainedLimit THEN n - RetainedLimit ELSE k
  BY <1>4, <1>7 DEF Excess
<1>12. Turns(done, n) = [p \in 1 .. n |->
          IF p <= m THEN [state |-> "folded"]
          ELSE [Turns(table, n) EXCEPT ![n].state = "answered"][p]]
  <2>1. ASSUME NEW p \in 1 .. n
        PROVE  TurnOf(done[p]) = IF p <= m THEN [state |-> "folded"]
                                 ELSE [Turns(table, n) EXCEPT ![n].state = "answered"][p]
    <3>0. p \in Ordinal
      BY <1>7 DEF Ordinal
    <3>1. CASE p <= m
      <4>1. done[p].status = "DELETED"
        BY <1>6, <3>0, <3>1 DEF Runs
      <4>2. QED
        BY <3>1, <4>1 DEF TurnOf
    <3>2. CASE p = n
      <4>1. /\ TurnOf(table[n]) = [state |-> "open", delivery |-> table[n].delivery]
            /\ TurnOf(done[n]) = [state |-> "answered", delivery |-> table[n].delivery]
        BY <1>1, <1>3, <1>6 DEF TurnOf, LogState, Exchange
      <4>2. [Turns(table, n) EXCEPT ![n].state = "answered"][n] = TurnOf(done[n])
        BY <2>1, <3>2, <4>1 DEF Turns
      <4>3. ~(p <= m)
        BY <1>6, <1>7, <3>2
      <4>4. QED
        BY <3>2, <4>2, <4>3
    <3>3. CASE m < p /\ p # n
      <4>1. done[p] = table[p]
        BY <1>5, <1>6, <1>7, <3>0, <3>3 DEF Ordinal
      <4>2. [Turns(table, n) EXCEPT ![n].state = "answered"][p] = TurnOf(table[p])
        BY <2>1, <3>3 DEF Turns
      <4>3. ~(p <= m)
        BY <1>6, <3>3
      <4>4. QED
        BY <4>1, <4>2, <4>3
    <3>4. QED
      BY <1>6, <3>1, <3>2, <3>3
  <2>2. QED
    BY <2>1 DEF Turns
<1>13. Log(c)!Answer
  <2>1. DOMAIN [Turns(table, n) EXCEPT ![n].state = "answered"] = 1 .. n
    BY DEF Turns
  <2>2. QED
    BY <1>8, <1>9, <1>10, <1>11, <1>12, <2>1 DEF Log!Answer, Log!LastOpen, Log!Fold
<1>14. QED
  BY <1>0, <1>13 DEF Log!LogNext

\* A new conversation has no turns, a conversation that does not change keeps them.
LEMMA CreateLog ==
  ASSUME TypeOK, ConvInv, NEW c \in Conv, NEW now, Create(c, now)
  PROVE  UNCHANGED <<LogOf(c), FoldedOf(c)>>
<1>1. /\ conv[c].state = "none" /\ conv'[c].state = "open"
      /\ \A o \in Ordinal : exch'[c][o].status = "NONE"
  BY DEF Create, CreateTx, TypeOK, ConvInv
<1>2. /\ {o \in Ordinal : exch'[c][o].status # "NONE"} = {}
      /\ {o \in Ordinal : exch'[c][o].status = "DELETED"} = {}
  BY <1>1
<1>3. Cardinality({}) = 0
  BY FS_EmptySet
<1>4. LogOf(c) = << >> /\ FoldedOf(c) = 0
  BY <1>1 DEF LogOf, FoldedOf
<1>5. LogOf(c)' = << >> /\ FoldedOf(c)' = 0
  <2>1. LogOf(c)' = [o \in 1 .. 0 |-> TurnOf(exch'[c][o])] /\ FoldedOf(c)' = 0
    BY <1>1, <1>2, <1>3 DEF LogOf, FoldedOf, Started
  <2>2. QED
    BY <2>1
<1>6. QED
  BY <1>4, <1>5

LEMMA SameLog ==
  ASSUME NEW c \in Conv, exch'[c] = exch[c], conv'[c] = conv[c]
  PROVE  UNCHANGED <<LogOf(c), FoldedOf(c)>>
  BY DEF LogOf, FoldedOf, Started

LEMMA PurgeLog ==
  ASSUME TypeOK, NEW C \in SUBSET Conv, NEW now, PurgeExpired(C, now), NEW c \in C
  PROVE  Log(c)!Forget
<1>1. conv'[c].state = "purged"
  BY DEF PurgeExpired, PurgeTx, TypeOK, Conversation
<1>2. QED
  BY <1>1 DEF LogOf, FoldedOf, Log!Forget

LEMMA NextLog ==
  ASSUME TypeOK, TypeOK', ConvInv, ConvInv', [Next]_convVars, NEW c \in Conv
  PROVE  [Log(c)!LogNext]_<<LogOf(c), FoldedOf(c)>>
<1>1. CASE UNCHANGED <<conv, exch>>
  BY <1>1, SameLog
<1>2. ASSUME NEW e \in Conv, NEW now \in 0 .. clock, Create(e, now)
      PROVE  [Log(c)!LogNext]_<<LogOf(c), FoldedOf(c)>>
  <2>1. CASE e = c
    BY <1>2, <2>1, CreateLog
  <2>2. CASE e # c
    BY <1>2, <2>2, SameLog DEF Create, CreateTx, TypeOK
  <2>3. QED
    BY <2>1, <2>2
<1>3. ASSUME NEW e \in Conv, NEW d \in Delivery, NEW now \in 0 .. clock,
             ReserveDuplicate(e, d, now)
      PROVE  [Log(c)!LogNext]_<<LogOf(c), FoldedOf(c)>>
  <2>1. CASE e = c
    BY <1>3, <2>1, ReserveDuplicateLog
  <2>2. CASE e # c
    BY <1>3, <2>2, SameLog DEF ReserveDuplicate, ReserveDuplicateTx, TypeOK
  <2>3. QED
    BY <2>1, <2>2
<1>4. ASSUME NEW e \in Conv, NEW d \in Delivery, NEW now \in 0 .. clock, NEW o \in Ordinal,
             ReserveNew(e, d, now, o)
      PROVE  [Log(c)!LogNext]_<<LogOf(c), FoldedOf(c)>>
  <2>1. now \in Nat
    BY DEF TypeOK, Time
  <2>2. CASE e = c
    BY <1>4, <2>1, <2>2, ReserveNewLog
  <2>3. CASE e # c
    BY <1>4, <2>3, SameLog DEF ReserveNew, ReserveNewTx, TypeOK
  <2>4. QED
    BY <2>2, <2>3
<1>5. ASSUME NEW r \in issued, NEW now \in 0 .. clock, Complete(r, now)
      PROVE  [Log(c)!LogNext]_<<LogOf(c), FoldedOf(c)>>
  <2>1. CASE r.conv = c
    BY <1>5, <2>1, CompleteLog
  <2>2. CASE r.conv # c
    BY <1>5, <2>2, SameLog DEF Complete, CompleteTx, TypeOK
  <2>3. QED
    BY <2>1, <2>2
<1>6. ASSUME NEW C \in SUBSET Conv, NEW now \in 0 .. clock, PurgeExpired(C, now)
      PROVE  [Log(c)!LogNext]_<<LogOf(c), FoldedOf(c)>>
  <2>1. CASE c \in C
    BY <1>6, <2>1, PurgeLog DEF Log!LogNext
  <2>2. CASE c \notin C
    BY <1>6, <2>2, SameLog DEF PurgeExpired, PurgeTx
  <2>3. QED
    BY <2>1, <2>2
<1>7. QED
  BY <1>1, <1>2, <1>3, <1>4, <1>5, <1>6 DEF Next, Tick, convVars

\* The tables of every conversation implement its log of turns: one open turn, one
\* end for it, no second turn for a remembered delivery, and compaction folds
\* exactly the oldest turns.
THEOREM TablesImplementConversationLog == Spec => ImplementsLog
<1>1. Init => \A c \in Conv : Log(c)!LogInit
  BY DEF Init, Log!LogInit, LogOf, FoldedOf
<1>2. TypeOK /\ ConvInv /\ (TypeOK /\ ConvInv)' /\ [Next]_convVars =>
        [\A c \in Conv : [Log(c)!LogNext]_<<LogOf(c), FoldedOf(c)>>]_convVars
  BY NextLog
<1>3. QED
  BY <1>1, <1>2, Invariant, PTL DEF Spec, ImplementsLog

=============================================================================
