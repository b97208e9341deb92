------------------------ MODULE ConversationRepository ------------------------
(***************************************************************************)
(* The conversation tables and the transactions of                         *)
(* PostgresConversationRepository.  Every transaction locks the row of its *)
(* conversation first (SELECT ... FOR UPDATE), so each is one action; a    *)
(* caller works between two transactions without any lock and keeps only   *)
(* the reservation it was handed.  `now` is an argument of every call, as  *)
(* in the code: a caller may pass a moment that lies in the past.          *)
(***************************************************************************)
EXTENDS Naturals, FiniteSets, Sequences

CONSTANTS
  Conv,             \* conversation ids that uuid4 may mint
  Delivery,         \* digests of delivery ids
  LeaseTicks,       \* processing_lease_seconds
  RetentionTicks,   \* retention_seconds
  RetainedLimit,    \* retained_exchange_limit
  PlanLimit,        \* RETAINED_EXCHANGE_LIMIT, the cap on a state update's ids
  MaxOrdinal,       \* bound: exchanges of one conversation
  MaxTime           \* bound: the clock

ASSUME ConversationAssumption ==
  /\ LeaseTicks \in Nat \ {0} /\ RetentionTicks \in Nat \ {0}
  /\ RetainedLimit \in Nat \ {0, 1} /\ PlanLimit \in Nat
  /\ MaxOrdinal \in Nat /\ MaxTime \in Nat

VARIABLES
  clock,            \* wall-clock time
  conv,             \* table conversations
  exch,             \* table conversation_exchanges, by conversation and ordinal
  issued            \* reservations handed out to callers

convVars == <<clock, conv, exch, issued>>

Ordinal == 1 .. MaxOrdinal
Time    == 0 .. MaxTime

\* NONE is an ordinal never inserted, DELETED a row that compaction or purge
\* removed.  FAILED belongs to the terminal states; no statement writes it.
Absent   == {"NONE", "DELETED"}
Terminal == {"COMPLETED", "FAILED", "ABANDONED"}

Exchange ==
  [status : Absent \cup Terminal \cup {"PROCESSING"},
   delivery : Delivery \cup {"-"},
   lease : Nat]

NoExchange == [status |-> "NONE", delivery |-> "-", lease |-> 0]
Removed    == [status |-> "DELETED", delivery |-> "-", lease |-> 0]

Conversation ==
  [state : {"none", "open", "purged"}, version : Nat, expires : Nat,
   summary : SUBSET Ordinal]

\* ConversationReservation: what one caller knows until it completes.  The
\* snapshot is reduced to the version and the summary it was taken at.
Reservation ==
  [conv : Conv, ordinal : Ordinal, version : Nat, summary : SUBSET Ordinal,
   plan : SUBSET Ordinal, now : Time]

------------------------------------------------------------------------------
\* Reading the tables.

IsActive(c, now) == conv[c].state = "open" /\ conv[c].expires > now

Rows(table)          == {o \in Ordinal : table[o].status \notin Absent}
TerminalRows(table)  == {o \in Ordinal : table[o].status \in Terminal}
Processing(table)    == {o \in Ordinal : table[o].status = "PROCESSING"}
\* Mutation: an abandoned row no longer counts as the delivery's exchange.
RowsOfLive(table, d) ==
  {o \in Rows(table) : table[o].delivery = d /\ table[o].status # "ABANDONED"}
RowsOf(table, d)     == {o \in Rows(table) : table[o].delivery = d}

\* Mutation: compaction takes the newest rows.
Newest(S, n) == {o \in S : Cardinality({p \in S : p > o}) < n}

\* The first n members of S in ascending order.
Oldest(S, n) == {o \in S : Cardinality({p \in S : p < o}) < n}

\* max(ordinal) + 1 over the rows that exist.
NextOrdinal(table, o) ==
  /\ \A p \in Rows(table) : p < o
  /\ o = 1 \/ o - 1 \in Rows(table)

\* The update that turns every PROCESSING row with an expired lease ABANDONED.
AbandonStale(table, now) ==
  [o \in Ordinal |->
     IF table[o].status = "PROCESSING" /\ table[o].lease <= now
     THEN [table[o] EXCEPT !.status = "ABANDONED", !.lease = 0]
     ELSE table[o]]

\* How many terminal rows are too many: max(0, count - limit).
Excess(count) == IF count > RetainedLimit THEN count - RetainedLimit ELSE 0

\* The oldest terminal rows that have to go for one more to fit the limit.
CompactionPlan(table) ==
  Oldest(TerminalRows(table), Excess(Cardinality(TerminalRows(table)) + 1))

------------------------------------------------------------------------------
\* The transactions on the tables.

CreateTx(c, now) ==
  /\ conv[c].state = "none"
  /\ conv' = [conv EXCEPT ![c] =
       [state |-> "open", version |-> 0, expires |-> now + RetentionTicks,
        summary |-> {}]]
  /\ UNCHANGED exch

\* Mutation: the duplicate check is dropped.
ReserveNewAgainTx(c, d, now, o) ==
  LET table == AbandonStale(exch[c], now) IN
  /\ IsActive(c, now) /\ Processing(table) = {} /\ NextOrdinal(table, o)
  /\ exch' = [exch EXCEPT ![c] = [table EXCEPT ![o] =
       [status |-> "PROCESSING", delivery |-> d, lease |-> now + LeaseTicks]]]
  /\ UNCHANGED conv

\* A delivery without a row, no live PROCESSING row: insert one at ordinal o.
ReserveNewTx(c, d, now, o) ==
  LET table == AbandonStale(exch[c], now) IN
  /\ IsActive(c, now)
  /\ RowsOf(table, d) = {}
  /\ Processing(table) = {}
  /\ NextOrdinal(table, o)
  /\ exch' = [exch EXCEPT ![c] = [table EXCEPT ![o] =
       [status |-> "PROCESSING", delivery |-> d, lease |-> now + LeaseTicks]]]
  /\ UNCHANGED conv

\* The reservation ReserveNewTx returns.
NewReservation(c, now, o) ==
  [conv |-> c, ordinal |-> o, version |-> conv[c].version,
   summary |-> conv[c].summary,
   plan |-> CompactionPlan(AbandonStale(exch[c], now)), now |-> now]

\* A delivery with a row: only the stale rows are written.
ReserveDuplicateTx(c, d, now) ==
  LET table == AbandonStale(exch[c], now) IN
  /\ IsActive(c, now)
  /\ RowsOf(table, d) # {}
  /\ exch' = [exch EXCEPT ![c] = table]
  /\ UNCHANGED conv

\* Another delivery is live: BUSY, and the transaction is rolled back.
ReserveBusy(c, d, now) ==
  LET table == AbandonStale(exch[c], now) IN
  /\ IsActive(c, now)
  /\ RowsOf(table, d) = {}
  /\ Processing(table) # {}

\* What summarize_compacted may leave of a summary when turns are added to it: the
\* newest rolling_summary_max_chars characters, so the turns from some ordinal on.
\* How long each entry is stays open, and the oldest turn kept may be there in part
\* only; the newest added one never disappears, as the limit is at least one
\* character and no entry is empty.
Summaries(summary, added) ==
  IF added = {} THEN {summary}
  ELSE {{o \in summary \cup added : o >= from} :
          from \in {f \in Ordinal : \E p \in added : f <= p}}

\* The table after the rows of plan are deleted and the row o is answered.
Completed(table, o, plan) ==
  [[p \in Ordinal |-> IF p \in plan THEN Removed ELSE table[p]]
     EXCEPT ![o] = [table[o] EXCEPT !.status = "COMPLETED", !.lease = 0]]

\* Everything complete() checks before it commits, in the code's order: the
\* state update can be built, the conversation is active, the version is the
\* reserved one, the row still waits, its lease is alive, the rows to compact
\* are all there and terminal, and the remaining rows fit the limit.
CanComplete(r, now) ==
  LET table == exch[r.conv] IN
  /\ Cardinality(r.plan) <= PlanLimit
  /\ IsActive(r.conv, now)
  /\ conv[r.conv].version = r.version
  /\ table[r.ordinal].status = "PROCESSING"
  /\ table[r.ordinal].lease > now
  /\ r.plan \subseteq TerminalRows(table)
  /\ Cardinality(TerminalRows(Completed(table, r.ordinal, r.plan))) <= RetainedLimit

CompleteTx(r, now) ==
  /\ CanComplete(r, now)
  /\ exch' = [exch EXCEPT ![r.conv] = Completed(exch[r.conv], r.ordinal, r.plan)]
  /\ \E s \in Summaries(r.summary, r.plan) :
       conv' = [conv EXCEPT ![r.conv] =
         [state |-> "open", version |-> r.version + 1,
          expires |-> now + RetentionTicks, summary |-> s]]

\* Expired conversations go, and the foreign keys take their exchanges along.
PurgeTx(C, now) ==
  /\ \A c \in C : conv[c].state = "open" /\ conv[c].expires <= now
  /\ conv' = [c \in Conv |-> IF c \in C THEN [conv[c] EXCEPT !.state = "purged"]
                             ELSE conv[c]]
  /\ exch' = [c \in Conv |-> IF c \in C THEN [o \in Ordinal |-> Removed]
                             ELSE exch[c]]

------------------------------------------------------------------------------
\* The repository with every caller it may have: any number of them, each with
\* its own idea of now, each keeping a reservation for as long as it likes.

Init ==
  /\ clock = 0
  /\ conv = [c \in Conv |->
       [state |-> "none", version |-> 0, expires |-> 0, summary |-> {}]]
  /\ exch = [c \in Conv |-> [o \in Ordinal |-> NoExchange]]
  /\ issued = {}

Tick == clock < MaxTime /\ clock' = clock + 1 /\ UNCHANGED <<conv, exch, issued>>

Create(c, now) == CreateTx(c, now) /\ UNCHANGED <<clock, issued>>

ReserveNew(c, d, now, o) ==
  /\ ReserveNewTx(c, d, now, o)
  /\ issued' = issued \cup {NewReservation(c, now, o)}
  /\ UNCHANGED clock

ReserveDuplicate(c, d, now) ==
  ReserveDuplicateTx(c, d, now) /\ UNCHANGED <<clock, issued>>

\* A caller completes with a moment not before the one it reserved at.
Complete(r, now) == r.now <= now /\ CompleteTx(r, now) /\ UNCHANGED <<clock, issued>>

PurgeExpired(C, now) == PurgeTx(C, now) /\ UNCHANGED <<clock, issued>>

Next ==
  \/ Tick
  \/ \E now \in 0 .. clock :
       \/ \E c \in Conv :
            \/ Create(c, now)
            \/ \E d \in Delivery :
                 \/ ReserveDuplicate(c, d, now)
                 \/ \E o \in Ordinal : ReserveNew(c, d, now, o)
       \/ \E r \in issued : Complete(r, now)
       \/ \E C \in (SUBSET Conv) \ {{}} : PurgeExpired(C, now)

Spec == Init /\ [][Next]_convVars

------------------------------------------------------------------------------
\* Every table, counter and reservation keeps its type.
TypeOK ==
  /\ clock \in Time
  /\ conv \in [Conv -> Conversation]
  /\ exch \in [Conv -> [Ordinal -> Exchange]]
  /\ issued \subseteq Reservation

\* The rows of an open conversation are one gap-free run of ordinals, and the
\* rolling summary is the run of deleted turns that ends right before it.  Only the
\* oldest turns of all fall out of the context, when the summary reaches its size:
\* no turn between the summary and the rows is missing from both, and none is
\* summarised while its row is still retained.
SummaryEndsWhereRowsBegin ==
  \A c \in Conv : conv[c].state = "open" =>
    LET folded == {o \in Ordinal : exch[c][o].status = "DELETED"} IN
    /\ conv[c].summary \subseteq folded
    /\ folded # {} => conv[c].summary # {}
    /\ \A o \in folded, p \in conv[c].summary : p < o => o \in conv[c].summary
    /\ \A o \in Ordinal, p \in Ordinal : o < p =>
         /\ exch[c][p].status # "NONE" => exch[c][o].status # "NONE"
         /\ exch[c][p].status = "DELETED" => exch[c][o].status = "DELETED"

\* The snapshot a caller was given is still the conversation's state as long as
\* its row waits: the re-checks of complete() (version, rows to compact, limit)
\* can fail only for a caller whose exchange was abandoned or purged.
LiveReservationIsCurrent ==
  \A r \in issued :
    conv[r.conv].state = "open" /\ exch[r.conv][r.ordinal].status = "PROCESSING" =>
      /\ conv[r.conv].version = r.version
      /\ conv[r.conv].summary = r.summary
      /\ r.plan \subseteq TerminalRows(exch[r.conv])
      /\ Cardinality(TerminalRows(Completed(exch[r.conv], r.ordinal, r.plan)))
           <= RetainedLimit

\* An abandoned caller comes too late for good: a row that left PROCESSING never
\* changes again except by being deleted, and a deleted row is never reborn.
EndedTurnsStayEnded ==
  [][\A c \in Conv, o \in Ordinal :
       /\ exch[c][o].status \in Terminal =>
            exch'[c][o] \in {exch[c][o], Removed}
       /\ exch[c][o].status = "DELETED" => exch'[c][o].status = "DELETED"]_convVars

\* Every exchange ordinal is handed out once, in increasing order.
OrdinalsGrow ==
  [][\A r \in issued' \ issued, s \in issued :
       r.conv = s.conv => s.ordinal < r.ordinal]_convVars

------------------------------------------------------------------------------
\* The inductive invariant behind these properties.  The ordinals of an open
\* conversation fall into three runs: 1 .. k deleted, k+1 .. n existing, the rest
\* unused, and only row n may still be processing.  A reservation whose row is
\* processing carries the current version and summary, and its plan is the run
\* that starts behind k.  The summary is a run that ends at k.

Runs(table, k, n) ==
  /\ k \in 0 .. MaxOrdinal /\ n \in 0 .. MaxOrdinal
  /\ k < n \/ (k = 0 /\ n = 0)
  /\ \A o \in Ordinal :
       /\ o <= k <=> table[o].status = "DELETED"
       /\ o > n  <=> table[o].status = "NONE"
       /\ k < o /\ o < n => table[o].status \in Terminal

Current(r, k, n) ==
  /\ r.ordinal <= n
  /\ exch[r.conv][r.ordinal].status = "PROCESSING" =>
       /\ r.version = conv[r.conv].version
       /\ r.summary = conv[r.conv].summary
       /\ r.plan = k + 1 .. k + Excess(n - k)

SummaryRun(summary, k) ==
  /\ k = 0 => summary = {}
  /\ k > 0 => \E f \in 1 .. k : summary = f .. k

OpenInv(c) ==
  \E k \in 0 .. MaxOrdinal, n \in 0 .. MaxOrdinal :
    /\ Runs(exch[c], k, n)
    /\ SummaryRun(conv[c].summary, k)
    /\ \A r \in issued : r.conv = c => Current(r, k, n)

ConvInv ==
  /\ \A c \in Conv :
       /\ conv[c].state = "none" => \A o \in Ordinal : exch[c][o].status = "NONE"
       /\ conv[c].state = "purged" => \A o \in Ordinal : exch[c][o] = Removed
       /\ conv[c].state = "open" => OpenInv(c)
  /\ \A r \in issued : conv[r.conv].state # "none"

------------------------------------------------------------------------------
\* How a conversation's rows show as the log of turns of ConversationLog.

Started(c) == {o \in Ordinal : exch[c][o].status # "NONE"}

LogState == [PROCESSING |-> "open", COMPLETED |-> "answered",
             ABANDONED |-> "given_up", FAILED |-> "given_up"]

TurnOf(row) ==
  IF row.status = "DELETED" THEN [state |-> "folded"]
  ELSE [state |-> LogState[row.status], delivery |-> row.delivery]

LogOf(c) ==
  IF conv[c].state = "open"
  THEN [o \in 1 .. Cardinality(Started(c)) |-> TurnOf(exch[c][o])]
  ELSE << >>

FoldedOf(c) ==
  IF conv[c].state = "open"
  THEN Cardinality({o \in Ordinal : exch[c][o].status = "DELETED"})
  ELSE 0

Log(c) == INSTANCE ConversationLog
            WITH Limit <- RetainedLimit, log <- LogOf(c), folded <- FoldedOf(c)

\* The tables implement the log of turns, whatever the interleaving of callers
\* and the moments they pass: one open turn, one end for it, no second turn for a
\* remembered delivery, and compaction of exactly the oldest turns.
ImplementsLog ==
  /\ \A c \in Conv : Log(c)!LogInit
  /\ [][\A c \in Conv : [Log(c)!LogNext]_<<LogOf(c), FoldedOf(c)>>]_convVars

==============================================================================
