--------------------------- MODULE OutboundDelivery ---------------------------
(***************************************************************************)
(* The table channel_outbound_deliveries, the transactions of              *)
(* PostgresChannelOutboundRepository, and the callers of ChannelService    *)
(* that send through it: reserve, mark_sending, one call of the bridge,    *)
(* complete.  Each transaction locks its row, so each is one action; a     *)
(* caller may stop for good between any two.  A row's uuid4 lives and dies *)
(* with its exchange (unique per exchange, deleted with it and never       *)
(* inserted again), so the exchange names the row.                         *)
(***************************************************************************)
EXTENDS Naturals, FiniteSets

CONSTANTS
  Exchange,        \* ids of completed exchanges
  Delivery,        \* HMACs of inbound deliveries
  Binding,         \* ids of active bindings
  DeliveryOf,      \* the delivery an exchange answers
  BindingOf,       \* the binding of the identity it came from
  Caller           \* concurrent runs of handle_inbound

ASSUME OutboundAssumption ==
  /\ DeliveryOf \in [Exchange -> Delivery]
  /\ BindingOf \in [Exchange -> Binding]
  /\ \A e, f \in Exchange : DeliveryOf[e] = DeliveryOf[f] => BindingOf[e] = BindingOf[f]

VARIABLES
  out,             \* the row of every exchange
  caller,          \* what every caller is about to do, and for which exchange
  sends,           \* calls of the bridge made for every exchange
  answered         \* what the bridge reported of the last one

outVars == <<out, caller, sends, answered>>

\* NONE: no row yet; GONE: the exchange and its row are deleted.
Settled == {"SENT", "FAILED", "UNKNOWN"}
Present == {"PENDING", "SENDING"} \cup Settled

\* Mutation: silence counts as success.
OutcomeOptimistic == [accepted |-> "SENT", rejected |-> "FAILED", silent |-> "SENT"]

\* _completion_state: what a receipt of the bridge settles the row to.  A send
\* that raises or answers with something unreadable counts as UNKNOWN.
Outcome == [accepted |-> "SENT", rejected |-> "FAILED", silent |-> "UNKNOWN"]
Receipt == DOMAIN Outcome

------------------------------------------------------------------------------
\* The transactions on the table.

\* The unique rows an insert for e would collide with, or that reserve() reads.
RowsOfDelivery(e) ==
  {f \in Exchange : out[f] \in Present /\ DeliveryOf[f] = DeliveryOf[e]}

\* reserve() inserts: the exchange is there for the foreign key.
InsertTx(e) ==
  /\ out[e] = "NONE" /\ RowsOfDelivery(e) = {}
  /\ out' = [out EXCEPT ![e] = "PENDING"]

\* reserve() finds the row of this very exchange and reports its status.
Found(e) == e \in RowsOfDelivery(e)

\* mark_sending(): PENDING becomes SENDING, unless another row of the binding is
\* SENDING already (uq_channel_outbound_deliveries_sending_binding).
SendingOf(b) == {f \in Exchange : out[f] = "SENDING" /\ BindingOf[f] = b}

MarkTx(e) ==
  /\ out[e] = "PENDING" /\ SendingOf(BindingOf[e]) = {}
  /\ out' = [out EXCEPT ![e] = "SENDING"]

\* Mutation: an unknown outcome leaves the row SENDING for later.
RecordKnownTx(e, receipt) ==
  /\ out[e] \in {"SENDING"} \cup Settled
  /\ out' = [out EXCEPT ![e] =
       IF @ = "SENDING" /\ receipt # "silent" THEN Outcome[receipt] ELSE @]

\* complete(): a SENDING row takes the outcome, a settled one keeps its own.
RecordTx(e, receipt) ==
  /\ out[e] \in {"SENDING"} \cup Settled
  /\ out' = [out EXCEPT ![e] = IF @ = "SENDING" THEN Outcome[receipt] ELSE @]

\* Mutation: a key that deletes the row but leaves the exchange.
RowOnlyTx(E)    == out' = [e \in Exchange |-> IF e \in E THEN "NONE" ELSE out[e]]

\* Deleting exchanges deletes their rows (ON DELETE CASCADE).
CascadeTx(E) ==
  out' = [e \in Exchange |-> IF e \in E THEN "GONE" ELSE out[e]]

------------------------------------------------------------------------------
\* A caller: idle, then one step at a time for one exchange.

Busy ==
  [step : {"reserve", "mark", "send"}, exchange : Exchange, receipt : {"none"}]
    \cup [step : {"record"}, exchange : Exchange, receipt : Receipt]

Idle == [step |-> "idle", exchange |-> "-", receipt |-> "none"]

OutInit ==
  /\ out = [e \in Exchange |-> "NONE"]
  /\ caller = [w \in Caller |-> Idle]
  /\ sends = [e \in Exchange |-> 0]
  /\ answered = [e \in Exchange |-> "none"]

Goto(w, step) == caller' = [caller EXCEPT ![w].step = step]

Finish(w) == caller' = [caller EXCEPT ![w] = Idle]

At(w, step) == caller[w].step = step

\* respond() returned a completed exchange, fresh or replayed.  (The unique key
\* of the exchanges lets a delivery have a second one only when the first is gone;
\* nothing here depends on it.)
Begin(w, e) ==
  /\ At(w, "idle")
  /\ out[e] # "GONE"
  /\ caller' = [caller EXCEPT ![w] = [step |-> "reserve", exchange |-> e, receipt |-> "none"]]
  /\ UNCHANGED <<out, sends, answered>>

\* A new row, or the PENDING row a stopped caller left, is RESERVED; any other
\* status, another exchange's row for the delivery, or a missing exchange ends
\* the call.
Reserve(w) ==
  LET e == caller[w].exchange IN
  /\ At(w, "reserve")
  /\ \/ InsertTx(e) /\ Goto(w, "mark")
     \/ Found(e) /\ out[e] = "PENDING" /\ Goto(w, "mark") /\ UNCHANGED out
     \/ /\ out[e] # "PENDING" /\ ~(out[e] = "NONE" /\ RowsOfDelivery(e) = {})
        /\ Finish(w) /\ UNCHANGED out
  /\ UNCHANGED <<sends, answered>>

\* Only the caller that turned the row SENDING goes on to send.
MarkSending(w) ==
  LET e == caller[w].exchange IN
  /\ At(w, "mark")
  /\ \/ MarkTx(e) /\ Goto(w, "send")
     \/ /\ out[e] # "PENDING" \/ SendingOf(BindingOf[e]) # {}
        /\ Finish(w) /\ UNCHANGED out
  /\ UNCHANGED <<sends, answered>>

Send(w, receipt) ==
  LET e == caller[w].exchange IN
  /\ At(w, "send")
  /\ sends' = [sends EXCEPT ![e] = @ + 1]
  /\ answered' = [answered EXCEPT ![e] = receipt]
  /\ caller' = [caller EXCEPT ![w] = [step |-> "record", exchange |-> e, receipt |-> receipt]]
  /\ UNCHANGED out

Complete(w) ==
  LET e == caller[w].exchange IN
  /\ At(w, "record")
  /\ \/ RecordTx(e, caller[w].receipt)
     \/ out[e] \notin {"SENDING"} \cup Settled /\ UNCHANGED out
  /\ Finish(w)
  /\ UNCHANGED <<sends, answered>>

\* The process dies, the request is cancelled, or the database call fails.
Stop(w) ==
  /\ ~At(w, "idle")
  /\ Finish(w)
  /\ UNCHANGED <<out, sends, answered>>

\* Compaction, or the retention purge, deletes the exchanges E.
Compact(E) ==
  /\ \E e \in E : out[e] # "GONE"
  /\ CascadeTx(E)
  /\ UNCHANGED <<caller, sends, answered>>

OutNext ==
  \/ \E w \in Caller :
       \/ \E e \in Exchange : Begin(w, e)
       \/ Reserve(w)
       \/ MarkSending(w)
       \/ \E receipt \in Receipt : Send(w, receipt)
       \/ Complete(w)
       \/ Stop(w)
  \/ \E E \in SUBSET Exchange : Compact(E)

OutSpec == OutInit /\ [][OutNext]_outVars

------------------------------------------------------------------------------
\* The table, the callers and the history keep their types.
OutTypeOK ==
  /\ out \in [Exchange -> {"NONE", "GONE"} \cup Present]
  /\ caller \in [Caller -> Busy \cup {Idle}]
  /\ sends \in [Exchange -> Nat]
  /\ answered \in [Exchange -> {"none"} \cup Receipt]

\* However often a delivery is replayed, by however many callers at once and
\* wherever they stop, the bridge is called at most once for its exchange.
AtMostOneAttempt == \A e \in Exchange : sends[e] <= 1

\* A settled row says what the bridge answered; an unsettled one knows nothing.
RowTellsTheAnswer ==
  \A e \in Exchange :
    /\ out[e] \in Settled => answered[e] # "none" /\ out[e] = Outcome[answered[e]]
    /\ out[e] \in {"NONE", "PENDING"} => answered[e] = "none"

\* Between mark_sending and complete a caller holds no lock, yet its row waits for
\* it: no other caller sends or settles it, only deleting the exchange takes it.
Sending(w) == caller[w].step \in {"send", "record"}

SendersHaveTheirRow ==
  \A w \in Caller : Sending(w) =>
    /\ out[caller[w].exchange] \in {"SENDING", "GONE"}
    /\ \A v \in Caller : Sending(v) /\ v # w => caller[v].exchange # caller[w].exchange

\* The inductive invariant: before a row turns SENDING nothing was sent; a caller
\* about to send owns its row alone and has not sent; one about to record has
\* sent once and carries the answer.
OutInv ==
  /\ \A e \in Exchange :
       /\ out[e] \in {"NONE", "PENDING"} => sends[e] = 0 /\ answered[e] = "none"
       /\ out[e] \in Settled => answered[e] # "none" /\ out[e] = Outcome[answered[e]]
       /\ sends[e] <= 1
       /\ sends[e] = 0 <=> answered[e] = "none"
  /\ \A w \in Caller :
       /\ At(w, "send") => sends[caller[w].exchange] = 0
       /\ At(w, "record") => answered[caller[w].exchange] = caller[w].receipt
  /\ SendersHaveTheirRow

------------------------------------------------------------------------------
\* The rows implement AtMostOnceSend: the verdict is the settled status.
VerdictOf(e) ==
  IF out[e] = "GONE" THEN "dropped"
  ELSE IF out[e] \in Settled THEN out[e] ELSE "none"

AnswerOf(e) == IF answered[e] = "none" THEN "none" ELSE Outcome[answered[e]]

Once == INSTANCE AtMostOnceSend WITH
  Answer  <- Settled,
  answer  <- [e \in Exchange |-> AnswerOf(e)],
  verdict <- [e \in Exchange |-> VerdictOf(e)]

\* What redelivery, racing callers, stops and deletions add up to is one attempt
\* per exchange and one truthful verdict.
ImplementsAtMostOnce == Once!SendSpec

===============================================================================
