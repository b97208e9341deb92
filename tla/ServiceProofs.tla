---------------------------- MODULE ServiceProofs ----------------------------
(***************************************************************************)
(* Theorems about ChannelService for any number of senders, messages,      *)
(* conversations and requests, with crashes, redelivery and compaction.    *)
(***************************************************************************)
EXTENDS ChannelService, TLAPS

\* What a request knows at every point of its way.
Local ==
  [pc : {"idle"}]
    \cup [pc : {"bind"}, d : Delivery, now : C!Time]
    \cup [pc : {"create", "fail"}, d : Delivery, now : C!Time, lease : Nat]
    \cup [pc : {"activate"}, d : Delivery, now : C!Time, lease : Nat, conv : Conv]
    \cup [pc : {"respond"}, d : Delivery, now : C!Time, conv : Conv]
    \cup [pc : {"chat"}, d : Delivery, now : C!Time, res : C!Reservation]
    \cup [pc : {"complete"}, d : Delivery, now : C!Time, res : C!Reservation, text : AnswerText]
    \cup [pc : {"outbound", "mark", "send"}, d : Delivery, exchange : Exchange]
    \cup [pc : {"record"}, d : Delivery, exchange : Exchange, receipt : O!Receipt]

\* A row of an exchange has its delivery, and an active binding its conversation.
Row ==
  [status : C!Absent, delivery : {"-"}, lease : Nat]
    \cup [status : C!Terminal \cup {"PROCESSING"}, delivery : Delivery, lease : Nat]

BindingRow ==
  [status : {"NONE", "BINDING", "FAILED"}, lease : Nat, conv : {"-"}]
    \cup [status : {"ACTIVE"}, lease : Nat, conv : Conv]

Typed ==
  /\ clock \in 0 .. MaxTime
  /\ conv \in [Conv -> C!Conversation]
  /\ exch \in [Conv -> [Ordinal -> Row]]
  /\ bind \in [Identity -> BindingRow]
  /\ out \in [Exchange -> {"NONE", "GONE"} \cup O!Present]
  /\ worker \in [Worker -> Local]
  /\ served \subseteq Delivery /\ acked \subseteq Delivery
  /\ accepted \subseteq Delivery /\ compacted \subseteq Delivery
  /\ chats \in [Delivery -> Nat] /\ sends \in [Delivery -> Nat]

LEMMA NowType ==
  ASSUME NEW now \in C!Time
  PROVE  /\ now \in Nat /\ now + LeaseTicks \in Nat /\ now + RetentionTicks \in Nat
         /\ B!LeaseAt(now) \in Nat
  BY ServiceAssumption DEF C!Time, B!LeaseAt

LEMMA AbandonType ==
  ASSUME NEW table \in [Ordinal -> Row], NEW now \in C!Time
  PROVE  /\ C!AbandonStale(table, now) \in [Ordinal -> Row]
         /\ \A o \in Ordinal :
              /\ C!AbandonStale(table, now)[o].delivery = table[o].delivery
              /\ C!AbandonStale(table, now)[o].status \in C!Absent
                   <=> table[o].status \in C!Absent
  BY DEF C!AbandonStale, Row, C!Absent, C!Terminal, C!Ordinal, Ordinal

LEMMA CompletedType ==
  ASSUME NEW table \in [Ordinal -> Row], NEW o \in Ordinal, NEW plan,
         table[o].status = "PROCESSING"
  PROVE  /\ C!Completed(table, o, plan) \in [Ordinal -> Row]
         /\ \A p \in Ordinal :
              C!Completed(table, o, plan)[p].status \notin C!Absent =>
                /\ table[p].status \notin C!Absent
                /\ C!Completed(table, o, plan)[p].delivery = table[p].delivery
  BY DEF C!Completed, C!Removed, Row, C!Absent, C!Terminal, C!Ordinal, Ordinal

LEMMA OutcomeType ==
  /\ O!Receipt = {"accepted", "rejected", "silent"}
  /\ \A r \in O!Receipt : O!Outcome[r] \in O!Present /\ (O!Outcome[r] = "SENT" => r = "accepted")
  BY DEF O!Receipt, O!Outcome, O!Present, O!Settled

-------------------------------------------------------------------------------
LEMMA TypedInit == ServiceInit => Typed
  BY ServiceAssumption
  DEF ServiceInit, Typed, C!Conversation, Row, C!NoExchange, C!Absent, C!Terminal,
      C!Ordinal, Ordinal, B!BindInit, BindingRow, O!Present, Local

\* The locals of a request at each of its points.
LEMMA LocalAt ==
  ASSUME Typed, NEW w \in Worker
  PROVE  /\ At(w, "bind") => worker[w] \in [pc : {"bind"}, d : Delivery, now : C!Time]
         /\ At(w, "create") \/ At(w, "fail") => worker[w] \in
              [pc : {"create", "fail"}, d : Delivery, now : C!Time, lease : Nat]
         /\ At(w, "activate") => worker[w] \in
              [pc : {"activate"}, d : Delivery, now : C!Time, lease : Nat, conv : Conv]
         /\ At(w, "respond") => worker[w] \in
              [pc : {"respond"}, d : Delivery, now : C!Time, conv : Conv]
         /\ At(w, "chat") => worker[w] \in
              [pc : {"chat"}, d : Delivery, now : C!Time, res : C!Reservation]
         /\ At(w, "complete") => worker[w] \in
              [pc : {"complete"}, d : Delivery, now : C!Time, res : C!Reservation,
               text : AnswerText]
         /\ At(w, "outbound") \/ At(w, "mark") \/ At(w, "send") => worker[w] \in
              [pc : {"outbound", "mark", "send"}, d : Delivery, exchange : Exchange]
         /\ At(w, "record") => worker[w] \in
              [pc : {"record"}, d : Delivery, exchange : Exchange, receipt : O!Receipt]
  BY DEF Typed, Local, At

\* respond() and complete() end the request, call the model, or hand over a reply.
LEMMA WhatFollows ==
  ASSUME Typed, NEW w \in Worker, Respond(w) \/ Complete(w)
  PROVE  \/ worker'[w].pc \in {"idle", "chat"}
         \/ \E c, o : worker'[w] = [pc |-> "outbound", d |-> worker[w].d,
                                   exchange |-> IdOf(c, o, worker[w].d)]
<1>1. ASSUME NEW locals, Go(w, locals) PROVE worker'[w] = locals
  BY <1>1 DEF Typed, Go
<1>2. CASE Answer200(w) \/ Answer503(w)
  BY <1>1, <1>2 DEF Answer200, Answer503
<1>3. CASE \E c, o : Go(w, [pc |-> "outbound", d |-> worker[w].d,
                            exchange |-> IdOf(c, o, worker[w].d)])
  BY <1>1, <1>3
<1>4. CASE \E res : Go(w, [pc |-> "chat", d |-> worker[w].d, now |-> worker[w].now, res |-> res])
  BY <1>1, <1>4
<1>5. CASE Respond(w)
  BY <1>2, <1>3, <1>4, <1>5 DEF Respond
<1>6. CASE Complete(w)
  BY <1>2, <1>3, <1>6 DEF Complete
<1>7. QED
  BY <1>5, <1>6

LEMMA ReceiveTyped ==
  ASSUME Typed, NEW w \in Worker, NEW d \in Delivery, Receive(w, d) PROVE Typed'
  BY DEF Typed, Local, Receive, Go, tables, history, C!Time

LEMMA BindTyped ==
  ASSUME Typed, NEW w \in Worker, Bind(w) PROVE Typed'
<1> DEFINE d == worker[w].d
           i == IdentityOf[d]
           now == worker[w].now
<1>1. d \in Delivery /\ i \in Identity /\ now \in C!Time /\ B!LeaseAt(now) \in Nat
  BY LocalAt, NowType, ServiceAssumption DEF Bind
<1>2. CASE bind[i].status = "ACTIVE" /\ UNCHANGED <<bind, history>>
           /\ Go(w, [pc |-> "respond", d |-> d, now |-> now, conv |-> bind[i].conv])
  <2>1. bind[i] \in BindingRow /\ bind[i].conv \in Conv
    BY <1>1, <1>2 DEF Typed, BindingRow
  <2>2. worker' \in [Worker -> Local]
    BY <1>1, <1>2, <2>1 DEF Typed, Local, Go
  <2>3. QED
    BY <1>2, <2>2 DEF Typed, Bind, history
<1>3. CASE Answer200(w) /\ UNCHANGED bind
  BY <1>1, <1>3 DEF Typed, Local, Bind, Go, Answer200
<1>4. CASE B!ReserveTx(i, now) /\ UNCHANGED history
           /\ Go(w, [pc |-> "create", d |-> d, now |-> now, lease |-> B!LeaseAt(now)])
  BY <1>1, <1>4 DEF Typed, Local, Bind, Go, history, BindingRow, B!ReserveTx
<1>5. QED
  BY <1>2, <1>3, <1>4 DEF Bind

LEMMA CreateTyped ==
  ASSUME Typed, NEW w \in Worker, Create(w) PROVE Typed'
<1> DEFINE d == worker[w].d
           now == worker[w].now
           lease == worker[w].lease
<1>1. d \in Delivery /\ now \in C!Time /\ now \in Nat /\ lease \in Nat
  BY LocalAt, NowType DEF Create
<1>2. conv' \in [Conv -> C!Conversation] /\ exch' = exch
  <2>1. ASSUME NEW c \in Conv, C!CreateTx(c, now)
        PROVE  conv' \in [Conv -> C!Conversation] /\ exch' = exch
    <3>1. [state |-> "open", version |-> 0, expires |-> now + RetentionTicks,
           summary |-> {}] \in C!Conversation
      BY <1>1, ServiceAssumption DEF C!Conversation
    <3>2. QED
      BY <2>1, <3>1 DEF Typed, C!CreateTx
  <2>2. QED
    BY <2>1 DEF Create, Typed
<1>3. worker' \in [Worker -> Local]
  <2>1. ASSUME NEW c \in Conv,
               Go(w, [pc |-> "activate", d |-> d, now |-> now, lease |-> lease, conv |-> c])
        PROVE  worker' \in [Worker -> Local]
    BY <1>1, <2>1 DEF Typed, Local, Go
  <2>2. CASE ToFail(w)
    BY <1>1, <2>2 DEF Typed, Local, Go, ToFail
  <2>3. QED
    BY <2>1, <2>2 DEF Create
<1>4. QED
  BY <1>2, <1>3 DEF Typed, Create, history

LEMMA ActivateTyped ==
  ASSUME Typed, NEW w \in Worker, Activate(w) PROVE Typed'
<1> DEFINE d == worker[w].d
           i == IdentityOf[d]
           now == worker[w].now
           lease == worker[w].lease
           c == worker[w].conv
<1>1. d \in Delivery /\ i \in Identity /\ now \in C!Time /\ lease \in Nat /\ c \in Conv
  BY LocalAt, ServiceAssumption DEF Activate
<1>2. bind' \in [Identity -> BindingRow]
  BY <1>1 DEF Typed, Activate, B!ActivateTx, BindingRow
<1>3. worker' \in [Worker -> Local]
  <2>1. CASE Go(w, [pc |-> "respond", d |-> d, now |-> now, conv |-> c])
    BY <1>1, <2>1 DEF Typed, Local, Go
  <2>2. CASE ToFail(w)
    BY <1>1, <2>2 DEF Typed, Local, Go, ToFail
  <2>3. QED
    BY <2>1, <2>2 DEF Activate
<1>4. QED
  BY <1>2, <1>3 DEF Typed, Activate, history

LEMMA FailTyped ==
  ASSUME Typed, NEW w \in Worker, Fail(w) PROVE Typed'
<1>1. worker[w].d \in Delivery /\ IdentityOf[worker[w].d] \in Identity
  BY LocalAt, ServiceAssumption DEF Fail
<1>2. bind' \in [Identity -> BindingRow]
  BY <1>1 DEF Typed, Fail, B!FailTx, BindingRow
<1>3. worker' \in [Worker -> Local]
  BY DEF Typed, Local, Fail, Go, Answer503
<1>4. QED
  BY <1>2, <1>3 DEF Typed, Fail, Answer503, history

LEMMA ReservationType ==
  ASSUME Typed, NEW c \in Conv, NEW now \in C!Time, NEW o \in Ordinal
  PROVE  C!NewReservation(c, now, o) \in C!Reservation
  BY AbandonType
  DEF C!NewReservation, C!Reservation, C!CompactionPlan, C!Oldest, C!TerminalRows, Typed,
      C!Conversation, C!Ordinal, Ordinal

LEMMA RespondTyped ==
  ASSUME Typed, NEW w \in Worker, Respond(w) PROVE Typed'
<1> DEFINE d == worker[w].d
           c == worker[w].conv
           now == worker[w].now
<1>1. d \in Delivery /\ c \in Conv /\ now \in C!Time
  BY LocalAt DEF Respond
<1>2. exch' \in [Conv -> [Ordinal -> Row]] /\ conv' = conv
  <2>1. /\ exch[c] \in [Ordinal -> Row]
        /\ C!AbandonStale(exch[c], now) \in [Ordinal -> Row]
    BY <1>1, AbandonType DEF Typed
  <2>2. ASSUME NEW o \in Ordinal, C!ReserveNewTx(c, d, now, o)
        PROVE  exch' \in [Conv -> [Ordinal -> Row]] /\ conv' = conv
    BY <1>1, <2>1, <2>2, NowType DEF Typed, C!ReserveNewTx, Row
  <2>3. ASSUME C!ReserveDuplicateTx(c, d, now)
        PROVE  exch' \in [Conv -> [Ordinal -> Row]] /\ conv' = conv
    BY <1>1, <2>1, <2>3 DEF Typed, C!ReserveDuplicateTx
  <2>4. QED
    BY <2>2, <2>3 DEF Respond, Typed
<1>3. worker' \in [Worker -> Local] /\ served' \subseteq Delivery
      /\ UNCHANGED <<acked, chats, sends, accepted, compacted>>
  <2>1. ASSUME NEW o \in Ordinal,
               Go(w, [pc |-> "chat", d |-> d, now |-> now, res |-> C!NewReservation(c, now, o)])
        PROVE  worker' \in [Worker -> Local]
    BY <1>1, <2>1, ReservationType DEF Typed, Local, Go
  <2>2. ASSUME NEW o \in Ordinal,
               Go(w, [pc |-> "outbound", d |-> d, exchange |-> IdOf(c, o, d)])
        PROVE  worker' \in [Worker -> Local]
    BY <1>1, <2>2 DEF Typed, Local, Go, IdOf, Exchange
  <2>3. ASSUME Answer503(w) \/ Answer200(w)
        PROVE  /\ worker' \in [Worker -> Local] /\ served' \subseteq Delivery
               /\ UNCHANGED <<acked, chats, sends, accepted, compacted>>
    BY <1>1, <2>3 DEF Typed, Local, Go, Answer503, Answer200, history
  <2>4. QED
    BY <2>1, <2>2, <2>3 DEF Respond, Typed, history, C!RowsOf, C!Rows, C!Ordinal, Ordinal
<1>4. QED
  BY <1>2, <1>3 DEF Typed, Respond

LEMMA ChatTyped ==
  ASSUME Typed, NEW w \in Worker, Chat(w) PROVE Typed'
<1>1. PICK text \in AnswerText :
        Go(w, [pc |-> "complete", d |-> worker[w].d, now |-> worker[w].now,
               res |-> worker[w].res, text |-> text])
  BY DEF Chat
<1>2. worker' \in [Worker -> Local]
  BY <1>1, LocalAt DEF Typed, Local, Go, Chat
<1>3. QED
  BY <1>2, LocalAt DEF Typed, Chat, tables

LEMMA CompleteTyped ==
  ASSUME Typed, NEW w \in Worker, Complete(w) PROVE Typed'
<1> DEFINE d == worker[w].d
           res == worker[w].res
           c == res.conv
           now == worker[w].now
<1>1. /\ d \in Delivery /\ now \in C!Time /\ res \in C!Reservation /\ c \in Conv
      /\ res.ordinal \in Ordinal
  BY LocalAt DEF Complete, C!Reservation, C!Ordinal, Ordinal
<1>2. CASE /\ C!CompleteTx(res, now)
           /\ O!CascadeTx({IdOf(c, o, exch[c][o].delivery) : o \in res.plan})
           /\ compacted' = compacted \cup {exch[c][o].delivery : o \in res.plan}
           /\ Go(w, [pc |-> "outbound", d |-> d, exchange |-> IdOf(c, res.ordinal, d)])
           /\ UNCHANGED <<served, acked, chats, sends, accepted>>
  <2>1. exch' \in [Conv -> [Ordinal -> Row]]
    <3>1. exch[c] \in [Ordinal -> Row] /\ exch[c][res.ordinal].status = "PROCESSING"
      BY <1>1, <1>2 DEF Typed, C!CompleteTx, C!CanComplete
    <3>2. C!Completed(exch[c], res.ordinal, res.plan) \in [Ordinal -> Row]
      BY <1>1, <3>1, CompletedType
    <3>3. QED
      BY <1>1, <1>2, <3>2 DEF Typed, C!CompleteTx
  <2>2. conv' \in [Conv -> C!Conversation]
    <3> PICK s \in C!Summaries(res.summary, res.plan) :
          conv' = [conv EXCEPT ![c] =
            [state |-> "open", version |-> res.version + 1,
             expires |-> now + RetentionTicks, summary |-> s]]
      BY <1>2 DEF C!CompleteTx
    <3>1. res.version \in Nat /\ res.summary \subseteq Ordinal /\ res.plan \subseteq Ordinal
      BY <1>1 DEF C!Reservation, C!Ordinal, Ordinal
    <3>2. s \subseteq Ordinal
      BY <3>1 DEF C!Summaries
    <3>3. [state |-> "open", version |-> res.version + 1, expires |-> now + RetentionTicks,
           summary |-> s] \in C!Conversation
      BY <1>1, <3>1, <3>2, NowType DEF C!Conversation, C!Ordinal, Ordinal
    <3>4. QED
      BY <1>1, <3>3 DEF Typed
  <2>3. out' \in [Exchange -> {"NONE", "GONE"} \cup O!Present]
    <3>1. \A e \in Exchange : out[e] \in {"NONE", "GONE"} \cup O!Present
      BY DEF Typed
    <3>2. QED
      BY <1>2, <3>1 DEF O!CascadeTx
  <2>4. compacted' \subseteq Delivery
    <3>1. ASSUME NEW o \in res.plan PROVE exch[c][o].delivery \in Delivery
      <4>1. o \in Ordinal /\ exch[c][o].status \in C!Terminal
        BY <1>2, <3>1
        DEF C!CompleteTx, C!CanComplete, C!TerminalRows, C!Ordinal, Ordinal
      <4>2. exch[c][o] \in Row
        BY <1>1, <4>1 DEF Typed
      <4>3. QED
        BY <4>1, <4>2 DEF Row, C!Terminal, C!Absent
    <3>2. QED
      BY <1>2, <3>1 DEF Typed
  <2>5. worker' \in [Worker -> Local]
    BY <1>1, <1>2 DEF Typed, Local, Go, IdOf, Exchange
  <2>6. QED
    BY <1>2, <2>1, <2>2, <2>3, <2>4, <2>5 DEF Typed, Complete
<1>3. CASE (Answer200(w) \/ Answer503(w)) /\ UNCHANGED <<conv, exch, out>>
  <2>1. worker' \in [Worker -> Local]
    BY <1>3 DEF Typed, Local, Go, Answer200, Answer503
  <2>2. served' \subseteq Delivery /\ UNCHANGED <<acked, chats, sends, accepted, compacted>>
    BY <1>1, <1>3 DEF Typed, Answer200, Answer503, history
  <2>3. UNCHANGED <<clock, bind>>
    BY DEF Complete
  <2>4. QED
    BY <1>3, <2>1, <2>2, <2>3 DEF Typed
<1>4. QED
  BY <1>2, <1>3 DEF Complete

LEMMA OutboundTyped ==
  ASSUME Typed, NEW w \in Worker, Outbound(w) PROVE Typed'
<1> DEFINE e == worker[w].exchange
<1>1. worker[w] \in [pc : {"outbound", "mark", "send"}, d : Delivery, exchange : Exchange]
  BY LocalAt DEF Outbound
<1>2. out' \in [Exchange -> {"NONE", "GONE"} \cup O!Present]
  BY <1>1 DEF Typed, Outbound, O!InsertTx, O!Present
<1>3. /\ worker' \in [Worker -> Local] /\ served' \subseteq Delivery /\ acked' \subseteq Delivery
      /\ UNCHANGED <<chats, sends, accepted, compacted>>
  <2>1. CASE Go(w, [worker[w] EXCEPT !.pc = "mark"]) /\ UNCHANGED history
    BY <1>1, <2>1 DEF Typed, Local, Go, history
  <2>2. CASE Acknowledge(w) \/ Answer200(w) \/ Answer503(w)
    BY <1>1, <2>2 DEF Typed, Local, Go, Acknowledge, Answer200, Answer503, history
  <2>3. QED
    BY <2>1, <2>2 DEF Outbound
<1>4. QED
  BY <1>2, <1>3 DEF Typed, Outbound

LEMMA MarkTyped ==
  ASSUME Typed, NEW w \in Worker, MarkSending(w) PROVE Typed'
<1>1. worker[w] \in [pc : {"outbound", "mark", "send"}, d : Delivery, exchange : Exchange]
  BY LocalAt DEF MarkSending
<1>2. out' \in [Exchange -> {"NONE", "GONE"} \cup O!Present]
  BY <1>1 DEF Typed, MarkSending, O!MarkTx, O!Present
<1>3. /\ worker' \in [Worker -> Local] /\ served' \subseteq Delivery
      /\ UNCHANGED <<acked, chats, sends, accepted, compacted>>
  <2>1. CASE Go(w, [worker[w] EXCEPT !.pc = "send"]) /\ UNCHANGED history
    BY <1>1, <2>1 DEF Typed, Local, Go, history
  <2>2. CASE Answer200(w) \/ Answer503(w)
    BY <1>1, <2>2 DEF Typed, Local, Go, Answer200, Answer503, history
  <2>3. QED
    BY <2>1, <2>2 DEF MarkSending
<1>4. QED
  BY <1>2, <1>3 DEF Typed, MarkSending

LEMMA SendTyped ==
  ASSUME Typed, NEW w \in Worker, NEW receipt \in O!Receipt, Send(w, receipt) PROVE Typed'
<1>1. worker[w].d \in Delivery /\ worker[w].exchange \in Exchange
  BY LocalAt DEF Send
<1>2. worker' \in [Worker -> Local]
  BY <1>1 DEF Typed, Local, Send, Go
<1>3. accepted' \subseteq Delivery /\ sends' \in [Delivery -> Nat]
  BY <1>1 DEF Typed, Send
<1>4. QED
  BY <1>2, <1>3 DEF Typed, Send, tables

LEMMA RecordTyped ==
  ASSUME Typed, NEW w \in Worker, Record(w) PROVE Typed'
<1>1. worker[w] \in [pc : {"record"}, d : Delivery, exchange : Exchange, receipt : O!Receipt]
  BY LocalAt DEF Record
<1>2. out' \in [Exchange -> {"NONE", "GONE"} \cup O!Present]
  BY <1>1, OutcomeType DEF Typed, Record, O!RecordTx
<1>3. QED
  BY <1>1, <1>2
  DEF Typed, Local, Record, Go, Acknowledge, Answer200, Answer503, history

LEMMA TypedNext == Typed /\ [ServiceNext]_vars => Typed'
<1> SUFFICES ASSUME Typed, [ServiceNext]_vars PROVE Typed'
  OBVIOUS
<1>1. ASSUME NEW w \in Worker, WorkerStep(w) PROVE Typed'
  BY <1>1, BindTyped, CreateTyped, ActivateTyped, FailTyped, RespondTyped, ChatTyped,
     CompleteTyped, OutboundTyped, MarkTyped, SendTyped, RecordTyped
  DEF WorkerStep
<1>2. ASSUME NEW w \in Worker, Stop(w) PROVE Typed'
  BY <1>2 DEF Typed, Local, Stop, Go, Answer503, tables, history
<1>3. ASSUME NEW w \in Worker, NEW d \in Delivery, Receive(w, d) PROVE Typed'
  BY <1>3, ReceiveTyped
<1>4. CASE Tick
  BY <1>4, ServiceAssumption DEF Typed, Tick, tables, history
<1>5. CASE UNCHANGED vars
  BY <1>5 DEF Typed, vars, tables, history
<1>6. QED
  BY <1>1, <1>2, <1>3, <1>4, <1>5 DEF ServiceNext

\* The tables keep their types, a row of an exchange has its delivery, an active
\* binding its conversation, and a request in progress holds the locals its next
\* step reads, whatever it was overtaken by.
THEOREM ServiceTypeCorrect == ServiceSpec => [](Typed /\ ServiceTypeOK)
<1>1. Typed => ServiceTypeOK
  <2> SUFFICES ASSUME Typed PROVE ServiceTypeOK
    OBVIOUS
  <2>1. exch \in [Conv -> [Ordinal -> C!Exchange]]
    BY DEF Typed, Row, C!Exchange, C!Absent, C!Terminal
  <2>2. bind \in [Identity -> B!Binding]
    BY DEF Typed, BindingRow, B!Binding
  <2>3. \A w \in Busy : worker[w].d \in Delivery
    BY DEF Typed, Local, Busy, At
  <2>4. QED
    BY <2>1, <2>2, <2>3 DEF Typed, ServiceTypeOK
<1>2. QED
  BY <1>1, TypedInit, TypedNext, PTL DEF ServiceSpec

-------------------------------------------------------------------------------
(***************************************************************************)
(* The inductive invariants, in four parts.  Bound: an active binding is   *)
(* final, so a request past it and every row of an exchange agree with it. *)
(***************************************************************************)
BoundTo(d, c) == bind[IdentityOf[d]].status = "ACTIVE" /\ bind[IdentityOf[d]].conv = c

BoundInv ==
  /\ OneConversationPerSender
  /\ \A w \in Worker : At(w, "respond") => BoundTo(worker[w].d, worker[w].conv)

\* A request works on the exchange of its own message, and a row says SENT only
\* after the platform accepted the reply.
ReceiptInv ==
  /\ \A w \in Worker :
       /\ worker[w].pc \in {"outbound", "mark", "send", "record"} =>
            worker[w].exchange[3] = worker[w].d
       /\ At(w, "record") /\ worker[w].receipt = "accepted" => worker[w].d \in accepted
  /\ \A e \in Exchange : out[e] = "SENT" => e[3] \in accepted
  /\ AcknowledgedMeansAccepted

\* A message has one row at most; while its exchange is not compacted, whoever has
\* called the chat for it or is about to has left a row, and is alone.
HasRow(d) == \E c \in Conv, o \in Ordinal :
  exch[c][o].status \notin C!Absent /\ exch[c][o].delivery = d

ChatInv ==
  \A d \in Delivery \ compacted :
    /\ chats[d] <= 1
    /\ chats[d] > 0 => HasRow(d)
    /\ \A w \in Worker : At(w, "chat") /\ worker[w].d = d =>
         /\ HasRow(d) /\ chats[d] = 0
         /\ \A v \in Worker : At(v, "chat") /\ worker[v].d = d => v = w

\* A message has one outbound row at most; whoever is about to send its reply has
\* made that row SENDING, is alone, and nothing was sent before; whoever is about
\* to record an outcome has sent.
SendInv ==
  /\ \A e, f \in Exchange :
       out[e] \in O!Present /\ out[f] \in O!Present /\ e[3] = f[3] => e = f
  /\ \A d \in Delivery \ compacted :
       /\ sends[d] <= 1
       /\ sends[d] > 0 => \E e \in Exchange : e[3] = d /\ out[e] \in O!Present \ {"PENDING"}
       /\ \A w \in Worker : At(w, "send") /\ worker[w].d = d =>
            /\ out[worker[w].exchange] = "SENDING" /\ sends[d] = 0
            /\ \A v \in Worker : At(v, "send") /\ worker[v].d = d => v = w
  /\ \A w \in Worker : At(w, "record") => sends[worker[w].d] > 0

\* What a step does to the other requests, the active bindings and the rows.
LEMMA OneRequestMoves ==
  ASSUME Typed, NEW w \in Worker, WorkerStep(w), NEW v \in Worker, v # w
  PROVE  worker'[v] = worker[v]
  BY DEF Typed, WorkerStep, Bind, Create, Activate, Fail, Respond, Chat, Complete, Outbound,
         MarkSending, Send, Record, Go, Answer200, Answer503, Acknowledge, ToFail

\* Each step is taken at a point of its own.
LEMMA StepsAt ==
  ASSUME NEW w \in Worker
  PROVE  /\ Bind(w) => worker[w].pc = "bind"
         /\ Create(w) => worker[w].pc = "create"
         /\ Activate(w) => worker[w].pc = "activate"
         /\ Fail(w) => worker[w].pc = "fail"
         /\ Respond(w) => worker[w].pc = "respond"
         /\ Chat(w) => worker[w].pc = "chat"
         /\ Complete(w) => worker[w].pc = "complete"
         /\ Outbound(w) => worker[w].pc = "outbound"
         /\ MarkSending(w) => worker[w].pc = "mark"
         /\ Record(w) => worker[w].pc = "record"
         /\ \A receipt \in O!Receipt : Send(w, receipt) => worker[w].pc = "send"
<1>1. Bind(w) => worker[w].pc = "bind"
  BY DEF Bind, At
<1>2. Create(w) => worker[w].pc = "create"
  BY DEF Create, At
<1>3. Activate(w) => worker[w].pc = "activate"
  BY DEF Activate, At
<1>4. Fail(w) => worker[w].pc = "fail"
  BY DEF Fail, At
<1>5. Respond(w) => worker[w].pc = "respond"
  BY DEF Respond, At
<1>6. Chat(w) => worker[w].pc = "chat"
  BY DEF Chat, At
<1>7. Complete(w) => worker[w].pc = "complete"
  BY DEF Complete, At
<1>8. Outbound(w) => worker[w].pc = "outbound"
  BY DEF Outbound, At
<1>9. MarkSending(w) => worker[w].pc = "mark"
  BY DEF MarkSending, At
<1>10. Record(w) => worker[w].pc = "record"
  BY DEF Record, At
<1>11. \A receipt \in O!Receipt : Send(w, receipt) => worker[w].pc = "send"
  BY DEF Send, At
<1>12. QED
  BY <1>1, <1>2, <1>3, <1>4, <1>5, <1>6, <1>7, <1>8, <1>9, <1>10, <1>11

\* Which step leads a request to which point.
LEMMA WhoComesFrom ==
  ASSUME Typed, NEW w \in Worker, WorkerStep(w)
  PROVE  /\ worker'[w].pc = "respond" => Bind(w) \/ Activate(w)
         /\ worker'[w].pc = "chat" => Respond(w)
         /\ worker'[w].pc = "outbound" => Respond(w) \/ Complete(w)
         /\ worker'[w].pc = "mark" => Outbound(w)
         /\ worker'[w].pc = "send" => MarkSending(w)
         /\ worker'[w].pc = "record" => \E receipt \in O!Receipt : Send(w, receipt)
<1>1. ASSUME Bind(w) PROVE worker'[w].pc \in {"respond", "idle", "create"}
  BY <1>1 DEF Typed, Bind, Go, Answer200
<1>2. ASSUME Create(w) \/ Fail(w) PROVE worker'[w].pc \in {"activate", "fail", "idle"}
  BY <1>2 DEF Typed, Create, Fail, Go, Answer503, ToFail
<1>3. ASSUME Activate(w) PROVE worker'[w].pc \in {"respond", "fail"}
  BY <1>3 DEF Typed, Activate, Go, ToFail
<1>4. ASSUME Respond(w) PROVE worker'[w].pc \in {"chat", "outbound", "idle"}
  <2>1. \A c, o : [pc |-> "outbound", d |-> worker[w].d,
                   exchange |-> IdOf(c, o, worker[w].d)].pc = "outbound"
    OBVIOUS
  <2>2. QED
    BY <1>4, <2>1, WhatFollows
<1>5. ASSUME Chat(w) PROVE worker'[w].pc = "complete"
  BY <1>5 DEF Typed, Chat, Go
<1>6. ASSUME Complete(w) PROVE worker'[w].pc \in {"outbound", "idle"}
  <2>1. ASSUME NEW locals, Go(w, locals) PROVE worker'[w] = locals
    BY <2>1 DEF Typed, Go
  <2>2. CASE Answer200(w) \/ Answer503(w)
    BY <2>1, <2>2 DEF Answer200, Answer503
  <2>3. CASE \E c, o : Go(w, [pc |-> "outbound", d |-> worker[w].d,
                             exchange |-> IdOf(c, o, worker[w].d)])
    BY <2>1, <2>3
  <2>4. QED
    BY <1>6, <2>2, <2>3 DEF Complete
<1>7. ASSUME Outbound(w) PROVE worker'[w].pc \in {"mark", "idle"}
  <2>1. worker[w] \in [pc : {"outbound", "mark", "send"}, d : Delivery, exchange : Exchange]
    BY <1>7, LocalAt DEF Outbound
  <2>2. QED
    BY <1>7, <2>1 DEF Typed, Outbound, Go, Answer200, Answer503, Acknowledge
<1>8. ASSUME MarkSending(w) PROVE worker'[w].pc \in {"send", "idle"}
  <2>1. worker[w] \in [pc : {"outbound", "mark", "send"}, d : Delivery, exchange : Exchange]
    BY <1>8, LocalAt DEF MarkSending
  <2>2. QED
    BY <1>8, <2>1 DEF Typed, MarkSending, Go, Answer200, Answer503
<1>9. ASSUME Record(w) PROVE worker'[w].pc = "idle"
  BY <1>9 DEF Typed, Record, Go, Answer200, Answer503, Acknowledge
<1>10. ASSUME NEW receipt \in O!Receipt, Send(w, receipt) PROVE worker'[w].pc = "record"
  BY <1>10 DEF Typed, Send, Go
<1>11. QED
  BY <1>1, <1>2, <1>3, <1>4, <1>5, <1>6, <1>7, <1>8, <1>9, <1>10 DEF WorkerStep

LEMMA ActiveStays ==
  ASSUME Typed, NEW w \in Worker, WorkerStep(w), NEW i \in Identity, bind[i].status = "ACTIVE"
  PROVE  bind'[i] = bind[i]
<1>1. CASE Bind(w)
  BY <1>1 DEF Typed, Bind, B!ReserveTx
<1>2. CASE Activate(w)
  BY <1>2 DEF Typed, Activate, B!ActivateTx, B!Owns
<1>3. CASE Fail(w)
  BY <1>3 DEF Typed, Fail, B!FailTx, B!Owns
<1>4. QED
  BY <1>1, <1>2, <1>3
  DEF WorkerStep, Create, Respond, Chat, Complete, Outbound, MarkSending, Send, Record, tables

LEMMA RowsAppear ==
  ASSUME Typed, NEW w \in Worker, WorkerStep(w), NEW c \in Conv, NEW o \in Ordinal,
         exch'[c][o].status \notin C!Absent
  PROVE  \/ /\ exch[c][o].status \notin C!Absent
            /\ exch'[c][o].delivery = exch[c][o].delivery
         \/ /\ At(w, "respond") /\ worker'[w].pc = "chat" /\ worker'[w].d = worker[w].d
            /\ c = worker[w].conv /\ exch'[c][o].delivery = worker[w].d
            /\ C!RowsOf(exch[c], worker[w].d) = {}
            /\ compacted' = compacted /\ chats' = chats
<1> DEFINE Same == /\ exch[c][o].status \notin C!Absent
                   /\ exch'[c][o].delivery = exch[c][o].delivery
<1>1. CASE Respond(w)
  <2> DEFINE d == worker[w].d
             b == worker[w].conv
             now == worker[w].now
             table == C!AbandonStale(exch[b], now)
  <2>1. /\ At(w, "respond") /\ worker \in [Worker -> Local]
        /\ d \in Delivery /\ b \in Conv /\ now \in C!Time /\ exch[b] \in [Ordinal -> Row]
    BY <1>1, LocalAt DEF Respond, Typed
  <2>2. table \in [Ordinal -> Row] /\ C!RowsOf(table, d) = C!RowsOf(exch[b], d)
        /\ \A p \in Ordinal : /\ table[p].delivery = exch[b][p].delivery
                              /\ table[p].status \in C!Absent <=> exch[b][p].status \in C!Absent
    BY <2>1, AbandonType DEF C!RowsOf, C!Rows, C!Ordinal, Ordinal
  <2> HIDE DEF table
  <2>3. ASSUME NEW p \in Ordinal, C!ReserveNewTx(b, d, now, p), UNCHANGED history,
               Go(w, [pc |-> "chat", d |-> d, now |-> now, res |-> C!NewReservation(b, now, p)])
        PROVE  Same \/ /\ At(w, "respond") /\ worker'[w].pc = "chat" /\ worker'[w].d = worker[w].d
                       /\ c = worker[w].conv /\ exch'[c][o].delivery = worker[w].d
                       /\ C!RowsOf(exch[c], worker[w].d) = {}
                       /\ compacted' = compacted /\ chats' = chats
    <3>1. worker'[w].pc = "chat" /\ worker'[w].d = d
      BY <2>1, <2>3 DEF Go
    <3>2. exch' = [exch EXCEPT ![b] = [table EXCEPT ![p] =
            [status |-> "PROCESSING", delivery |-> d, lease |-> now + LeaseTicks]]]
          /\ C!RowsOf(table, d) = {}
      BY <2>3 DEF C!ReserveNewTx, table
    <3>3. CASE c = b /\ o = p
      BY <2>1, <2>2, <2>3, <3>1, <3>2, <3>3 DEF Typed, history
    <3>4. CASE ~(c = b /\ o = p)
      BY <2>1, <2>2, <3>2, <3>4 DEF Typed
    <3>5. QED
      BY <3>3, <3>4
  <2>4. CASE exch' = [exch EXCEPT ![b] = table]
    BY <2>1, <2>2, <2>4 DEF Typed
  <2>5. CASE UNCHANGED exch
    BY <2>5
  <2>6. QED
    BY <1>1, <2>3, <2>4, <2>5 DEF Respond, C!ReserveDuplicateTx, table
<1>2. CASE Complete(w)
  <2> DEFINE res == worker[w].res
  <2>1. CASE C!CompleteTx(res, worker[w].now)
    <3>1. /\ res.conv \in Conv /\ res.ordinal \in Ordinal /\ exch[res.conv] \in [Ordinal -> Row]
          /\ exch[res.conv][res.ordinal].status = "PROCESSING"
      <4>1. res.conv \in Conv /\ res.ordinal \in Ordinal
        BY <1>2, LocalAt DEF Complete, C!Reservation, C!Ordinal, Ordinal
      <4>2. exch[res.conv][res.ordinal].status = "PROCESSING"
        BY <2>1 DEF C!CompleteTx, C!CanComplete
      <4>3. QED
        BY <4>1, <4>2 DEF Typed
    <3>2. exch' = [exch EXCEPT ![res.conv] = C!Completed(exch[res.conv], res.ordinal, res.plan)]
      BY <2>1 DEF C!CompleteTx
    <3>3. QED
      <4>1. CASE c = res.conv
        <5> DEFINE before == exch[res.conv]  after == C!Completed(before, res.ordinal, res.plan)
        <5>1. exch'[c] = after /\ exch[c] = before
          BY <3>1, <3>2, <4>1 DEF Typed
        <5>2. \A p \in Ordinal : after[p].status \notin C!Absent =>
                before[p].status \notin C!Absent /\ after[p].delivery = before[p].delivery
          BY <3>1, CompletedType
        <5> HIDE DEF before, after
        <5>3. QED
          BY <5>1, <5>2
      <4>2. CASE c # res.conv
        BY <3>2, <4>2 DEF Typed
      <4>3. QED
        BY <4>1, <4>2
  <2>2. QED
    BY <1>2, <2>1 DEF Complete
<1>3. QED
  BY <1>1, <1>2 DEF WorkerStep, Bind, Create, Activate, Fail, Chat, Outbound, MarkSending,
     Send, Record, tables, C!CreateTx

LEMMA BoundNext == Typed /\ BoundInv /\ [ServiceNext]_vars => BoundInv'
<1> SUFFICES ASSUME Typed, BoundInv, [ServiceNext]_vars PROVE BoundInv'
  OBVIOUS
<1>1. ASSUME NEW w \in Worker, WorkerStep(w) PROVE BoundInv'
  <2> DEFINE Stays(d, c) == bind'[IdentityOf[d]].status = "ACTIVE" /\ bind'[IdentityOf[d]].conv = c
  <2>1. ASSUME NEW d \in Delivery, NEW c, BoundTo(d, c) PROVE Stays(d, c)
    BY <1>1, <2>1, ActiveStays, ServiceAssumption DEF BoundTo
  <2>2. At(w, "respond") => worker[w].d \in Delivery /\ BoundTo(worker[w].d, worker[w].conv)
    BY LocalAt DEF BoundInv
  <2>3. ASSUME NEW c \in Conv, NEW o \in Ordinal, exch'[c][o].status \notin C!Absent
        PROVE  Stays(exch'[c][o].delivery, c)
    <3>1. exch[c][o].status \notin C!Absent =>
            exch[c][o].delivery \in Delivery /\ BoundTo(exch[c][o].delivery, c)
      BY DEF BoundInv, OneConversationPerSender, BoundTo, Typed, Row
    <3>2. QED
      BY <1>1, <2>1, <2>2, <2>3, <3>1, RowsAppear
  <2>4. ASSUME NEW v \in Worker, worker'[v].pc = "respond"
        PROVE  Stays(worker'[v].d, worker'[v].conv)
    <3>1. CASE v # w
      BY <1>1, <2>1, <2>4, <3>1, OneRequestMoves, LocalAt DEF BoundInv, At
    <3>2. CASE v = w /\ Bind(w)
      <4>1. worker[w].d \in Delivery
        BY <3>2, LocalAt DEF Bind
      <4>2. QED
        BY <2>4, <3>2, <4>1 DEF Typed, Bind, Go, Answer200, BoundTo
    <3>3. CASE v = w /\ Activate(w)
      <4>1. worker[w].d \in Delivery /\ IdentityOf[worker[w].d] \in Identity
        BY <3>3, LocalAt, ServiceAssumption DEF Activate
      <4>2. QED
        BY <2>4, <3>3, <4>1 DEF Typed, Activate, Go, ToFail, B!ActivateTx, BoundTo
    <3>4. QED
      BY <1>1, <2>4, <3>1, <3>2, <3>3, WhoComesFrom
  <2>5. QED
    BY <2>3, <2>4 DEF BoundInv, OneConversationPerSender, BoundTo, At
<1>2. ASSUME UNCHANGED tables,
             \A v \in Worker : worker'[v] = worker[v] \/ worker'[v].pc # "respond"
      PROVE  BoundInv'
  BY <1>2 DEF BoundInv, OneConversationPerSender, BoundTo, At, tables
<1>3. ASSUME NEW w \in Worker, Stop(w) \/ \E d \in Delivery : Receive(w, d) PROVE BoundInv'
  BY <1>2, <1>3 DEF Typed, Stop, Receive, Go, Answer503
<1>4. CASE Tick \/ UNCHANGED vars
  BY <1>2, <1>4 DEF Tick, vars
<1>5. QED
  BY <1>1, <1>3, <1>4 DEF ServiceNext

\* All exchanges of a sender are in the conversation its binding names: an active
\* binding is never taken over, and a request reserves only where it points.
THEOREM OneConversation == ServiceSpec => []OneConversationPerSender
<1>1. ServiceInit => BoundInv
  BY DEF ServiceInit, BoundInv, OneConversationPerSender, At, C!NoExchange, C!Absent
<1>2. BoundInv => OneConversationPerSender
  BY DEF BoundInv
<1>3. QED
  BY <1>1, <1>2, TypedInit, TypedNext, BoundNext, PTL DEF ServiceSpec

-------------------------------------------------------------------------------
\* What a step does to the outbound rows, the calls of the bridge and the receipts.
LEMMA OutboundSteps ==
  ASSUME Typed, ReceiptInv, NEW w \in Worker, WorkerStep(w)
  PROVE  \/ /\ UNCHANGED <<out, sends, accepted, acked>>
            /\ compacted \subseteq compacted' /\ worker'[w].pc # "send"
         \/ \E e \in Exchange :
              /\ e = worker[w].exchange /\ e[3] = worker[w].d /\ worker[w].d \in Delivery
              /\ compacted' = compacted
              /\ \/ /\ At(w, "outbound") /\ worker'[w].pc # "send"
                    /\ \/ O!InsertTx(e) /\ UNCHANGED <<sends, accepted, acked>>
                       \/ out[e] = "SENT" /\ UNCHANGED <<out, sends, accepted>>
                          /\ acked' = acked \cup {e[3]}
                 \/ /\ At(w, "mark") /\ O!MarkTx(e) /\ worker'[w].pc = "send"
                    /\ worker'[w].d = worker[w].d /\ worker'[w].exchange = e
                    /\ UNCHANGED <<sends, accepted, acked>>
                 \/ /\ At(w, "send") /\ worker'[w].pc = "record" /\ UNCHANGED <<out, acked>>
                    /\ sends' = [sends EXCEPT ![e[3]] = @ + 1]
                    /\ accepted \subseteq accepted'
                 \/ /\ At(w, "record") /\ worker'[w].pc = "idle" /\ UNCHANGED <<sends, accepted>>
                    /\ O!RecordTx(e, worker[w].receipt)
                    /\ acked' = acked \/ (out'[e] = "SENT" /\ acked' = acked \cup {e[3]})
         \/ \E E \in SUBSET Exchange :
              /\ O!CascadeTx(E) /\ \A e \in E : e[3] \in compacted'
              /\ compacted \subseteq compacted' /\ worker'[w].pc # "send"
              /\ UNCHANGED <<sends, accepted, acked>>
<1>1. CASE Outbound(w)
  <2>1. /\ worker[w] \in [pc : {"outbound", "mark", "send"}, d : Delivery, exchange : Exchange]
        /\ worker[w].exchange[3] = worker[w].d /\ worker'[w].pc # "send"
    BY <1>1, LocalAt DEF Outbound, ReceiptInv, At, Typed, Go, Acknowledge, Answer200, Answer503
  <2>2. QED
    BY <1>1, <2>1 DEF Outbound, Acknowledge, Answer200, Answer503, history
<1>2. CASE MarkSending(w)
  <2>1. /\ worker[w] \in [pc : {"outbound", "mark", "send"}, d : Delivery, exchange : Exchange]
        /\ worker[w].exchange[3] = worker[w].d
    BY <1>2, LocalAt DEF MarkSending, ReceiptInv, At
  <2>2. CASE O!MarkTx(worker[w].exchange) /\ Go(w, [worker[w] EXCEPT !.pc = "send"])
             /\ UNCHANGED history
    <3>1. /\ worker'[w].pc = "send" /\ worker'[w].d = worker[w].d
          /\ worker'[w].exchange = worker[w].exchange
      BY <2>1, <2>2 DEF Typed, Go
    <3>2. QED
      BY <1>2, <2>1, <2>2, <3>1 DEF MarkSending, history
  <2>3. CASE (Answer200(w) \/ Answer503(w)) /\ UNCHANGED out
    BY <2>1, <2>3 DEF Typed, Go, Answer200, Answer503, history
  <2>4. QED
    BY <1>2, <2>2, <2>3 DEF MarkSending
<1>3. ASSUME NEW receipt \in O!Receipt, Send(w, receipt)
      PROVE  /\ worker[w].exchange \in Exchange /\ worker[w].exchange[3] = worker[w].d
             /\ worker[w].d \in Delivery /\ compacted' = compacted
             /\ At(w, "send") /\ worker'[w].pc = "record" /\ UNCHANGED <<out, acked>>
             /\ sends' = [sends EXCEPT ![worker[w].exchange[3]] = @ + 1]
             /\ accepted \subseteq accepted'
  BY <1>3, LocalAt DEF Send, ReceiptInv, At, Typed, Go, tables
<1>4. CASE Record(w)
  <2>1. /\ worker[w].exchange \in Exchange /\ worker[w].exchange[3] = worker[w].d
        /\ worker[w].d \in Delivery /\ worker'[w].pc = "idle"
    BY <1>4, LocalAt
    DEF Record, ReceiptInv, At, Typed, Go, Acknowledge, Answer200, Answer503
  <2>2. QED
    BY <1>4, <2>1 DEF Record, Acknowledge, Answer200, Answer503, history
<1>5. CASE Complete(w)
  <2> DEFINE res == worker[w].res
             E == {IdOf(res.conv, o, exch[res.conv][o].delivery) : o \in res.plan}
  <2>1. worker'[w].pc # "send"
    BY <1>5, WhoComesFrom, StepsAt
  <2>2. CASE /\ C!CompleteTx(res, worker[w].now) /\ O!CascadeTx(E)
             /\ compacted' = compacted \cup {exch[res.conv][o].delivery : o \in res.plan}
             /\ UNCHANGED <<acked, sends, accepted>>
    <3>1. res \in C!Reservation /\ res.conv \in Conv /\ res.plan \subseteq Ordinal
      BY <1>5, LocalAt DEF Complete, C!Reservation, C!Ordinal, Ordinal
    <3>2. ASSUME NEW o \in res.plan PROVE exch[res.conv][o].delivery \in Delivery
      <4>1. C!CanComplete(res, worker[w].now) /\ o \in Ordinal
        BY <2>2, <3>1, <3>2 DEF C!CompleteTx
      <4>2. exch[res.conv][o] \in Row /\ exch[res.conv][o].status \in C!Terminal
        BY <3>1, <3>2, <4>1 DEF Typed, C!CanComplete, C!TerminalRows
      <4>3. QED
        BY <4>2 DEF Row, C!Terminal, C!Absent
    <3>3. E \in SUBSET Exchange
      BY <3>1, <3>2 DEF IdOf, Exchange
    <3>4. \A e \in E : e[3] \in compacted'
      <4>1. ASSUME NEW o \in res.plan
            PROVE  IdOf(res.conv, o, exch[res.conv][o].delivery)[3] \in compacted'
        BY <2>2, <4>1 DEF IdOf
      <4>2. QED
        BY <4>1
    <3>5. QED
      BY <2>1, <2>2, <3>3, <3>4
  <2>3. CASE (Answer200(w) \/ Answer503(w)) /\ UNCHANGED out
    BY <2>1, <2>3 DEF Answer200, Answer503, history
  <2>4. QED
    BY <1>5, <2>2, <2>3 DEF Complete
<1>6. ASSUME Bind(w) \/ Create(w) \/ Activate(w) \/ Fail(w) \/ Respond(w) \/ Chat(w)
      PROVE  /\ UNCHANGED <<out, sends, accepted, acked, compacted>>
             /\ worker'[w].pc # "send"
  <2>1. UNCHANGED <<out, sends, accepted, acked, compacted>>
    BY <1>6 DEF Bind, Create, Activate, Fail, Respond, Chat, tables, history,
       Answer200, Answer503
  <2>2. worker'[w].pc # "send"
    BY <1>6, WhoComesFrom, StepsAt
  <2>3. QED
    BY <2>1, <2>2
<1>7. QED
  <2>1. ASSUME NEW receipt \in O!Receipt, Send(w, receipt)
        PROVE  \E e \in Exchange :
                 /\ e = worker[w].exchange /\ e[3] = worker[w].d /\ worker[w].d \in Delivery
                 /\ compacted' = compacted
                 /\ At(w, "send") /\ worker'[w].pc = "record" /\ UNCHANGED <<out, acked>>
                 /\ sends' = [sends EXCEPT ![e[3]] = @ + 1]
                 /\ accepted \subseteq accepted'
    BY <2>1, <1>3
  <2>2. QED
    BY <1>1, <1>2, <1>4, <1>5, <1>6, <2>1 DEF WorkerStep

LEMMA ReceiptNext == Typed /\ ReceiptInv /\ [ServiceNext]_vars => ReceiptInv'
<1> SUFFICES ASSUME Typed, ReceiptInv, [ServiceNext]_vars PROVE ReceiptInv'
  OBVIOUS
<1>1. ASSUME NEW w \in Worker, WorkerStep(w) PROVE ReceiptInv'
  <2>1. accepted \subseteq accepted'
    BY <1>1, OutboundSteps
  <2>2. ASSUME NEW e \in Exchange, out'[e] = "SENT" PROVE e[3] \in accepted'
    <3>1. CASE out[e] = "SENT"
      BY <2>1, <3>1 DEF ReceiptInv
    <3>2. CASE out[e] # "SENT"
      <4>1. At(w, "record") /\ e = worker[w].exchange /\ e[3] = worker[w].d
            /\ O!RecordTx(e, worker[w].receipt)
        BY <1>1, <2>2, <3>2, OutboundSteps
        DEF Typed, O!InsertTx, O!MarkTx, O!RecordTx, O!CascadeTx
      <4>2. worker[w].receipt = "accepted"
        BY <2>2, <3>2, <4>1, LocalAt, OutcomeType DEF Typed, O!RecordTx
      <4>3. QED
        BY <2>1, <4>1, <4>2 DEF ReceiptInv
    <3>3. QED
      BY <3>1, <3>2
  <2>3. acked' \subseteq accepted'
    BY <1>1, <2>1, <2>2, OutboundSteps DEF ReceiptInv, AcknowledgedMeansAccepted
  <2>4. ASSUME NEW v \in Worker, worker'[v].pc \in {"outbound", "mark", "send", "record"}
        PROVE  worker'[v].exchange[3] = worker'[v].d
    <3>1. CASE v # w
      BY <1>1, <2>4, <3>1, OneRequestMoves DEF ReceiptInv
    <3>2. CASE v = w /\ (Respond(w) \/ Complete(w))
      <4>1. PICK c, o : worker'[w] = [pc |-> "outbound", d |-> worker[w].d,
                                     exchange |-> IdOf(c, o, worker[w].d)]
        BY <2>4, <3>2, WhatFollows
      <4>2. QED
        BY <3>2, <4>1 DEF IdOf
    <3>3. CASE v = w /\ (Outbound(w) \/ MarkSending(w))
      <4>1. worker[w] \in [pc : {"outbound", "mark", "send"}, d : Delivery, exchange : Exchange]
            /\ worker[w].exchange[3] = worker[w].d
        BY <3>3, LocalAt DEF Outbound, MarkSending, ReceiptInv, At
      <4>2. QED
        BY <2>4, <3>3, <4>1
        DEF Typed, Outbound, MarkSending, Go, Acknowledge, Answer200, Answer503
    <3>4. ASSUME v = w, NEW receipt \in O!Receipt, Send(w, receipt)
          PROVE  worker'[v].exchange[3] = worker'[v].d
      BY <3>4 DEF Typed, Send, Go, ReceiptInv, At
    <3>5. QED
      BY <1>1, <2>4, <3>1, <3>2, <3>3, <3>4, WhoComesFrom
  <2>5. ASSUME NEW v \in Worker, worker'[v].pc = "record", worker'[v].receipt = "accepted"
        PROVE  worker'[v].d \in accepted'
    <3>1. CASE v # w
      BY <1>1, <2>1, <2>5, <3>1, OneRequestMoves DEF ReceiptInv, At
    <3>2. ASSUME v = w, NEW receipt \in O!Receipt, Send(w, receipt)
          PROVE  worker'[v].d \in accepted'
      BY <2>5, <3>2 DEF Typed, Send, Go
    <3>3. QED
      BY <1>1, <2>5, <3>1, <3>2, WhoComesFrom
  <2>6. QED
    BY <2>2, <2>3, <2>4, <2>5 DEF ReceiptInv, AcknowledgedMeansAccepted, At
<1>2. ASSUME UNCHANGED <<out, accepted, acked>>,
             \A v \in Worker : worker'[v] = worker[v] \/ worker'[v].pc \in {"idle", "bind"}
      PROVE  ReceiptInv'
  BY <1>2 DEF ReceiptInv, AcknowledgedMeansAccepted, At
<1>3. ASSUME NEW w \in Worker, Stop(w) \/ \E d \in Delivery : Receive(w, d) PROVE ReceiptInv'
  BY <1>2, <1>3 DEF Typed, Stop, Receive, Go, Answer503, tables, history
<1>4. CASE Tick \/ UNCHANGED vars
  BY <1>2, <1>4 DEF Tick, vars, tables, history
<1>5. QED
  BY <1>1, <1>3, <1>4 DEF ServiceNext

\* ACKNOWLEDGED is answered only for a reply the platform accepted, by whichever of
\* the requests for the message comes to answer it.
THEOREM AcknowledgedIsAccepted == ServiceSpec => []AcknowledgedMeansAccepted
<1>1. ServiceInit => ReceiptInv
  BY DEF ServiceInit, ReceiptInv, AcknowledgedMeansAccepted, At
<1>2. ReceiptInv => AcknowledgedMeansAccepted
  BY DEF ReceiptInv
<1>3. QED
  BY <1>1, <1>2, TypedInit, TypedNext, ReceiptNext, PTL DEF ServiceSpec

LEMMA SendsGrow ==
  ASSUME Typed, ReceiptInv, [ServiceNext]_vars, NEW d \in Delivery
  PROVE  sends[d] \in Nat /\ sends'[d] \in Nat /\ sends[d] <= sends'[d]
<1>1. ASSUME NEW w \in Worker, WorkerStep(w)
      PROVE  sends' = sends \/ \E e : sends' = [sends EXCEPT ![e] = @ + 1]
  BY <1>1, OutboundSteps
<1>2. sends' = sends \/ \E e : sends' = [sends EXCEPT ![e] = @ + 1]
  BY <1>1 DEF ServiceNext, Stop, Receive, Answer503, Tick, vars, tables, history
<1>3. QED
  BY <1>2 DEF Typed

LEMMA SendNext == Typed /\ ReceiptInv /\ SendInv /\ [ServiceNext]_vars => SendInv'
<1> SUFFICES ASSUME Typed, ReceiptInv, SendInv, [ServiceNext]_vars PROVE SendInv'
  OBVIOUS
<1> DEFINE OneRow == \A e, f \in Exchange :
             out[e] \in O!Present /\ out[f] \in O!Present /\ e[3] = f[3] => e = f
           Good(d) == /\ sends[d] <= 1
                      /\ sends[d] > 0 =>
                           \E e \in Exchange : e[3] = d /\ out[e] \in O!Present \ {"PENDING"}
                      /\ \A w \in Worker : At(w, "send") /\ worker[w].d = d =>
                           /\ out[worker[w].exchange] = "SENDING" /\ sends[d] = 0
                           /\ \A v \in Worker : At(v, "send") /\ worker[v].d = d => v = w
           Sent == \A w \in Worker : At(w, "record") => sends[worker[w].d] > 0
<1>0. OneRow /\ Sent /\ \A d \in Delivery \ compacted : Good(d)
  BY DEF SendInv
<1> SUFFICES Sent' /\ OneRow' /\ \A d \in Delivery \ compacted' : Good(d)'
  BY DEF SendInv
<1>6. Sent'
  <2>1. ASSUME NEW v \in Worker, worker'[v].pc = "record" PROVE sends'[worker'[v].d] > 0
    <3>1. CASE worker'[v] = worker[v]
      <4>1. worker[v].d \in Delivery /\ sends[worker[v].d] > 0
        BY <1>0, <2>1, <3>1, LocalAt DEF At
      <4>2. QED
        BY <3>1, <4>1, SendsGrow
    <3>2. ASSUME NEW receipt \in O!Receipt, Send(v, receipt) PROVE sends'[worker'[v].d] > 0
      BY <3>2, LocalAt DEF Send, Go, Typed
    <3>3. ASSUME NEW w \in Worker, WorkerStep(w), worker'[v] # worker[v]
          PROVE  \E receipt \in O!Receipt : Send(v, receipt)
      BY <2>1, <3>3, OneRequestMoves, WhoComesFrom
    <3>4. ASSUME NEW w \in Worker, Stop(w) \/ \E d \in Delivery : Receive(w, d)
          PROVE  worker'[v] = worker[v]
      BY <2>1, <3>4 DEF Typed, Stop, Receive, Go, Answer503
    <3>5. QED
      BY <3>1, <3>2, <3>3, <3>4 DEF ServiceNext, Tick, vars
  <2>2. QED
    BY <2>1 DEF At
<1>1. ASSUME NEW w \in Worker, WorkerStep(w)
      PROVE  OneRow' /\ \A d \in Delivery \ compacted' : Good(d)'
  <2>1. compacted \subseteq compacted'
    BY <1>1, OutboundSteps
  <2>2. \A v \in Worker : v # w => worker'[v] = worker[v]
    BY <1>1, OneRequestMoves
  <2>3. \A v \in Worker : At(v, "send") =>
          worker[v].exchange \in Exchange /\ worker[v].exchange[3] = worker[v].d
    BY LocalAt DEF ReceiptInv, At
  <2>4. CASE UNCHANGED <<out, sends>> /\ worker'[w].pc # "send"
    BY <1>0, <2>1, <2>2, <2>4 DEF At
  <2>5. ASSUME NEW E \in SUBSET Exchange, O!CascadeTx(E), \A e \in E : e[3] \in compacted',
               UNCHANGED sends, worker'[w].pc # "send"
        PROVE  OneRow' /\ \A d \in Delivery \ compacted' : Good(d)'
    <3>1. \A e \in Exchange : out'[e] = IF e \in E THEN "GONE" ELSE out[e]
      BY <2>5 DEF O!CascadeTx
    <3>2. OneRow'
      BY <1>0, <3>1 DEF O!Present, O!Settled
    <3>3. ASSUME NEW d \in Delivery \ compacted' PROVE Good(d)'
      <4>1. Good(d) /\ \A e \in Exchange : e[3] = d => out'[e] = out[e]
        BY <1>0, <2>1, <2>5, <3>1, <3>3
      <4>2. QED
        BY <2>2, <2>3, <2>5, <4>1 DEF At
    <3>4. QED
      BY <3>2, <3>3
  <2>6. ASSUME NEW e \in Exchange, O!InsertTx(e), UNCHANGED sends, worker'[w].pc # "send"
        PROVE  OneRow' /\ \A d \in Delivery \ compacted' : Good(d)'
    <3>1. /\ out[e] = "NONE" /\ out' = [out EXCEPT ![e] = "PENDING"]
          /\ \A f \in Exchange : out[f] \in O!Present => f[3] # e[3]
      BY <2>6 DEF O!InsertTx, O!RowsOfDelivery
    <3>2. OneRow'
      BY <1>0, <3>1 DEF Typed
    <3>3. ASSUME NEW d \in Delivery \ compacted' PROVE Good(d)'
      <4>1. Good(d) /\ \A f \in Exchange : f # e => out'[f] = out[f]
        BY <1>0, <2>1, <3>1, <3>3
      <4>2. sends'[d] <= 1 /\ (sends'[d] > 0 =>
              \E f \in Exchange : f[3] = d /\ out'[f] \in O!Present \ {"PENDING"})
        BY <2>6, <3>1, <4>1 DEF O!Present
      <4>3. ASSUME NEW v \in Worker, At(v, "send")', worker'[v].d = d
            PROVE  /\ out'[worker'[v].exchange] = "SENDING" /\ sends'[d] = 0
                   /\ \A u \in Worker : At(u, "send")' /\ worker'[u].d = d => u = v
        BY <2>2, <2>3, <2>6, <3>1, <4>1, <4>3 DEF At
      <4>4. QED
        BY <4>2, <4>3
    <3>4. QED
      BY <3>2, <3>3
  <2>7. ASSUME NEW e \in Exchange, e = worker[w].exchange, e[3] = worker[w].d, O!MarkTx(e),
               worker'[w].d = worker[w].d, worker'[w].exchange = e, UNCHANGED sends
        PROVE  OneRow' /\ \A d \in Delivery \ compacted' : Good(d)'
    <3>1. out[e] = "PENDING" /\ out' = [out EXCEPT ![e] = "SENDING"]
      BY <2>7 DEF O!MarkTx
    <3>2. OneRow'
      BY <1>0, <3>1 DEF Typed, O!Present
    <3>3. ASSUME NEW d \in Delivery \ compacted', d # e[3] PROVE Good(d)'
      BY <1>0, <2>1, <2>2, <2>3, <2>7, <3>1, <3>3 DEF At, Typed
    <3>4. ASSUME e[3] \in Delivery \ compacted' PROVE Good(e[3])'
      <4>1. /\ Good(e[3]) /\ sends[e[3]] \in Nat
            /\ \A f \in Exchange : f[3] = e[3] => out[f] \notin O!Present \ {"PENDING"}
        BY <1>0, <2>1, <3>1, <3>4 DEF Typed, O!Present, O!Settled
      <4>2. sends[e[3]] = 0
        BY <4>1
      <4>3. \A v \in Worker : At(v, "send") => worker[v].d # e[3]
        BY <2>3, <4>1 DEF O!Present
      <4>4. QED
        BY <2>2, <2>7, <3>1, <4>2, <4>3 DEF At, Typed
    <3>5. QED
      BY <3>2, <3>3, <3>4
  <2>8. ASSUME NEW e \in Exchange, e = worker[w].exchange, e[3] = worker[w].d, At(w, "send"),
               e[3] \in Delivery, worker'[w].pc = "record", UNCHANGED out,
               sends' = [sends EXCEPT ![e[3]] = @ + 1]
        PROVE  OneRow' /\ \A d \in Delivery \ compacted' : Good(d)'
    <3>1. OneRow'
      BY <1>0, <2>8
    <3>2. ASSUME NEW d \in Delivery \ compacted', d # e[3] PROVE Good(d)'
      BY <1>0, <2>1, <2>2, <2>8, <3>2 DEF At, Typed
    <3>3. ASSUME e[3] \in Delivery \ compacted' PROVE Good(e[3])'
      <4>1. sends[e[3]] = 0 /\ out[e] = "SENDING"
            /\ \A v \in Worker : At(v, "send") /\ worker[v].d = e[3] => v = w
        BY <1>0, <2>1, <2>8, <3>3
      <4>2. sends'[e[3]] = 1 /\ out'[e] \in O!Present \ {"PENDING"}
        BY <2>8, <4>1 DEF Typed, O!Present
      <4>3. QED
        BY <2>2, <2>8, <4>1, <4>2 DEF At
    <3>4. QED
      BY <3>1, <3>2, <3>3
  <2>9. ASSUME NEW e \in Exchange, e = worker[w].exchange, e[3] = worker[w].d, At(w, "record"),
               worker'[w].pc = "idle", O!RecordTx(e, worker[w].receipt), UNCHANGED sends
        PROVE  OneRow' /\ \A d \in Delivery \ compacted' : Good(d)'
    <3>1. /\ worker[w].receipt \in O!Receipt /\ out[e] \in {"SENDING"} \cup O!Settled
          /\ out'[e] \in {"SENDING"} \cup O!Settled
          /\ \A f \in Exchange : f # e => out'[f] = out[f]
      BY <2>9, LocalAt, OutcomeType DEF Typed, O!RecordTx, O!Settled, O!Outcome
    <3>2. \A f \in Exchange : /\ out'[f] \in O!Present <=> out[f] \in O!Present
                              /\ out'[f] = "PENDING" <=> out[f] = "PENDING"
      BY <3>1 DEF O!Present, O!Settled
    <3>3. OneRow'
      BY <1>0, <3>2
    <3>4. ASSUME NEW d \in Delivery \ compacted' PROVE Good(d)'
      <4>1. ASSUME NEW v \in Worker, worker'[v].pc = "send"
            PROVE  v # w /\ At(v, "send") /\ worker'[v] = worker[v]
        BY <2>2, <2>9, <4>1 DEF At
      <4>2. sends[e[3]] > 0 /\ Good(d)
        BY <1>0, <2>1, <2>9, <3>4
      <4>3. ASSUME NEW v \in Worker, At(v, "send"), worker[v].d = d
            PROVE  worker[v].exchange \in Exchange /\ worker[v].exchange # e
        BY <2>3, <4>2, <4>3
      <4>4. sends[d] > 0 => \E f \in Exchange : f[3] = d /\ out'[f] \in O!Present \ {"PENDING"}
        BY <3>2, <4>2
      <4>5. QED
        BY <2>9, <3>1, <4>1, <4>2, <4>3, <4>4 DEF At
    <3>5. QED
      BY <3>3, <3>4
  <2>10. QED
    BY <1>1, <2>4, <2>5, <2>6, <2>7, <2>8, <2>9, OutboundSteps
<1>2. ASSUME UNCHANGED <<out, sends, compacted>>,
             \A v \in Worker : worker'[v] = worker[v] \/ worker'[v].pc # "send"
      PROVE  OneRow' /\ \A d \in Delivery \ compacted' : Good(d)'
  BY <1>0, <1>2 DEF At
<1>3. ASSUME NEW w \in Worker, Stop(w) \/ \E d \in Delivery : Receive(w, d)
      PROVE  OneRow' /\ \A d \in Delivery \ compacted' : Good(d)'
  BY <1>2, <1>3 DEF Typed, Stop, Receive, Go, Answer503, tables, history
<1>4. ASSUME Tick \/ UNCHANGED vars
      PROVE  OneRow' /\ \A d \in Delivery \ compacted' : Good(d)'
  BY <1>2, <1>4 DEF Tick, vars, tables, history
<1>5. QED
  BY <1>1, <1>3, <1>4, <1>6 DEF ServiceNext

-------------------------------------------------------------------------------
\* A row outlives every step, unless its message is compacted.
LEMMA RowsStay ==
  ASSUME Typed, NEW w \in Worker, WorkerStep(w), NEW c \in Conv, NEW o \in Ordinal,
         exch[c][o].status \notin C!Absent, exch[c][o].delivery \notin compacted'
  PROVE  /\ exch'[c][o].status \notin C!Absent
         /\ exch'[c][o].delivery = exch[c][o].delivery
<1>1. CASE Respond(w)
  <2> DEFINE d == worker[w].d
             b == worker[w].conv
             now == worker[w].now
             table == C!AbandonStale(exch[b], now)
  <2>1. b \in Conv /\ now \in C!Time /\ exch[b] \in [Ordinal -> Row]
    BY <1>1, LocalAt DEF Respond, Typed
  <2>2. table \in [Ordinal -> Row]
        /\ \A p \in Ordinal : /\ table[p].delivery = exch[b][p].delivery
                              /\ table[p].status \in C!Absent <=> exch[b][p].status \in C!Absent
    BY <2>1, AbandonType
  <2> HIDE DEF table
  <2>3. ASSUME NEW p \in Ordinal, C!ReserveNewTx(b, d, now, p)
        PROVE  /\ exch'[c][o].status \notin C!Absent
               /\ exch'[c][o].delivery = exch[c][o].delivery
    <3>1. /\ exch' = [exch EXCEPT ![b] = [table EXCEPT ![p] =
               [status |-> "PROCESSING", delivery |-> d, lease |-> now + LeaseTicks]]]
          /\ \A q \in Ordinal : table[q].status \notin C!Absent => q < p
      BY <2>3 DEF C!ReserveNewTx, table, C!NextOrdinal, C!Rows, C!Ordinal, Ordinal
    <3>2. CASE c = b
      <4>1. o # p
        BY <2>2, <3>1, <3>2 DEF Ordinal
      <4>2. QED
        BY <2>1, <2>2, <3>1, <3>2, <4>1 DEF Typed
    <3>3. CASE c # b
      BY <3>1, <3>3 DEF Typed
    <3>4. QED
      BY <3>2, <3>3
  <2>4. CASE exch' = [exch EXCEPT ![b] = table]
    BY <2>1, <2>2, <2>4 DEF Typed
  <2>5. CASE UNCHANGED exch
    BY <2>5
  <2>6. QED
    BY <1>1, <2>3, <2>4, <2>5
    DEF Respond, C!ReserveDuplicateTx, table, C!Ordinal, Ordinal
<1>2. CASE Complete(w)
  <2> DEFINE res == worker[w].res
             b == res.conv
  <2>1. CASE /\ C!CompleteTx(res, worker[w].now)
             /\ compacted' = compacted \cup {exch[b][p].delivery : p \in res.plan}
    <3>1. /\ b \in Conv /\ res.ordinal \in Ordinal /\ exch[b] \in [Ordinal -> Row]
          /\ exch[b][res.ordinal] \in Row /\ exch[b][res.ordinal].status = "PROCESSING"
      <4>1. b \in Conv /\ res.ordinal \in Ordinal
        BY <1>2, LocalAt DEF Complete, C!Reservation, C!Ordinal, Ordinal
      <4>2. exch[b][res.ordinal].status = "PROCESSING"
        BY <2>1 DEF C!CompleteTx, C!CanComplete
      <4>3. QED
        BY <4>1, <4>2 DEF Typed
    <3>2. exch' = [exch EXCEPT ![b] = C!Completed(exch[b], res.ordinal, res.plan)]
      BY <2>1 DEF C!CompleteTx
    <3>3. CASE c = b
      <4>1. o \notin res.plan
        BY <2>1, <3>3
      <4>2. exch'[c][o] = IF o = res.ordinal
              THEN [exch[b][o] EXCEPT !.status = "COMPLETED", !.lease = 0] ELSE exch[b][o]
        BY <3>1, <3>2, <3>3, <4>1 DEF Typed, C!Completed, C!Ordinal, Ordinal
      <4>3. QED
        BY <3>1, <3>3, <4>2 DEF Row, C!Absent
    <3>4. CASE c # b
      BY <3>1, <3>2, <3>4 DEF Typed
    <3>5. QED
      BY <3>3, <3>4
  <2>2. QED
    BY <1>2, <2>1 DEF Complete
<1>3. QED
  BY <1>1, <1>2 DEF WorkerStep, Bind, Create, Activate, Fail, Chat, Outbound, MarkSending,
     Send, Record, tables, C!CreateTx

\* What a step does to the calls of the chat and to the requests about to make one.
LEMMA ChatSteps ==
  ASSUME Typed, NEW w \in Worker, WorkerStep(w)
  PROVE  /\ compacted \subseteq compacted'
         /\ \/ UNCHANGED chats /\ worker'[w].pc # "chat"
            \/ /\ At(w, "chat") /\ worker[w].d \in Delivery /\ worker'[w].pc # "chat"
               /\ compacted' = compacted /\ chats' = [chats EXCEPT ![worker[w].d] = @ + 1]
            \/ /\ UNCHANGED <<chats, compacted>> /\ worker'[w].d = worker[w].d
               /\ worker[w].d \in Delivery
               /\ worker[w].conv \in Conv /\ At(w, "respond")
               /\ C!RowsOf(exch[worker[w].conv], worker[w].d) = {}
               /\ \E o \in Ordinal : LET row == exch'[worker[w].conv][o] IN
                    row.status \notin C!Absent /\ row.delivery = worker[w].d
<1>1. CASE Chat(w)
  BY <1>1, LocalAt DEF Chat, Typed, Go
<1>2. CASE Respond(w)
  <2> DEFINE d == worker[w].d
             b == worker[w].conv
             now == worker[w].now
  <2>1. d \in Delivery /\ b \in Conv /\ now \in C!Time /\ exch[b] \in [Ordinal -> Row]
    BY <1>2, LocalAt DEF Respond, Typed
  <2>2. C!AbandonStale(exch[b], now) \in [Ordinal -> Row]
        /\ C!RowsOf(C!AbandonStale(exch[b], now), d) = C!RowsOf(exch[b], d)
    BY <2>1, AbandonType DEF C!RowsOf, C!Rows, C!Ordinal, Ordinal
  <2>3. ASSUME NEW p \in Ordinal, C!ReserveNewTx(b, d, now, p), UNCHANGED history,
               Go(w, [pc |-> "chat", d |-> d, now |-> now, res |-> C!NewReservation(b, now, p)])
        PROVE  /\ UNCHANGED <<chats, compacted>> /\ worker'[w].d = d
               /\ C!RowsOf(exch[b], d) = {}
               /\ exch'[b][p].status \notin C!Absent /\ exch'[b][p].delivery = d
    BY <2>1, <2>2, <2>3 DEF Typed, Go, C!ReserveNewTx, history, C!Absent
  <2>4. \/ \E p \in Ordinal :
             /\ C!ReserveNewTx(b, d, now, p) /\ UNCHANGED history
             /\ Go(w, [pc |-> "chat", d |-> d, now |-> now, res |-> C!NewReservation(b, now, p)])
        \/ UNCHANGED <<chats, compacted>> /\ worker'[w].pc # "chat"
    <3>1. UNCHANGED <<chats, compacted>>
      BY <1>2 DEF Respond, Answer200, Answer503, history
    <3>2. ASSUME NEW locals, Go(w, locals) PROVE worker'[w] = locals
      BY <3>2 DEF Typed, Go
    <3>3. CASE Answer200(w) \/ Answer503(w)
      BY <3>1, <3>2, <3>3 DEF Answer200, Answer503
    <3>4. CASE \E e : Go(w, [pc |-> "outbound", d |-> d, exchange |-> e])
      BY <3>1, <3>2, <3>4
    <3>5. QED
      BY <1>2, <3>3, <3>4 DEF Respond
  <2>5. CASE UNCHANGED <<chats, compacted>> /\ worker'[w].pc # "chat"
    BY <2>5
  <2>6. ASSUME NEW p \in Ordinal, C!ReserveNewTx(b, d, now, p), UNCHANGED history,
               Go(w, [pc |-> "chat", d |-> d, now |-> now, res |-> C!NewReservation(b, now, p)])
        PROVE  \E o \in Ordinal : LET row == exch'[b][o] IN
                 row.status \notin C!Absent /\ row.delivery = d
    BY <2>3, <2>6
  <2>7. QED
    BY <1>2, <2>1, <2>3, <2>4, <2>5, <2>6 DEF Respond
<1>3. CASE Complete(w)
  <2>1. worker'[w].pc # "chat"
    BY <1>3, WhoComesFrom, StepsAt
  <2>2. UNCHANGED chats /\ compacted \subseteq compacted'
    BY <1>3 DEF Complete, Answer200, Answer503, history
  <2>3. QED
    BY <2>1, <2>2
<1>4. CASE Outbound(w) \/ MarkSending(w)
  BY <1>4, WhoComesFrom
  DEF WorkerStep, Respond, Outbound, MarkSending, Acknowledge, Answer200, Answer503, history, At
<1>5. CASE Bind(w) \/ Create(w) \/ Activate(w) \/ Fail(w) \/ Record(w)
           \/ \E receipt \in O!Receipt : Send(w, receipt)
  <2>1. worker'[w].pc # "chat"
    BY <1>5, WhoComesFrom, StepsAt
  <2>2. UNCHANGED <<chats, compacted>>
    BY <1>5 DEF Bind, Create, Activate, Fail, Record, Send, Acknowledge, Answer200,
       Answer503, history, tables
  <2>3. QED
    BY <2>1, <2>2
<1>6. QED
  BY <1>1, <1>2, <1>3, <1>4, <1>5 DEF WorkerStep

LEMMA ChatNext == Typed /\ BoundInv /\ ChatInv /\ [ServiceNext]_vars => ChatInv'
<1> SUFFICES ASSUME Typed, BoundInv, ChatInv, [ServiceNext]_vars PROVE ChatInv'
  OBVIOUS
<1> DEFINE Good(d) == /\ chats[d] <= 1
                      /\ chats[d] > 0 => HasRow(d)
                      /\ \A w \in Worker : At(w, "chat") /\ worker[w].d = d =>
                           /\ HasRow(d) /\ chats[d] = 0
                           /\ \A v \in Worker : At(v, "chat") /\ worker[v].d = d => v = w
<1>0. \A d \in Delivery \ compacted : Good(d)
  BY DEF ChatInv
<1> SUFFICES ASSUME NEW d \in Delivery \ compacted' PROVE Good(d)'
  BY DEF ChatInv
<1>1. ASSUME NEW w \in Worker, WorkerStep(w) PROVE Good(d)'
  <2>1. Good(d)
    BY <1>0, <1>1, ChatSteps
  <2>2. \A v \in Worker : v # w => worker'[v] = worker[v]
    BY <1>1, OneRequestMoves
  <2>3. HasRow(d) => HasRow(d)'
    BY <1>1, RowsStay DEF HasRow
  <2> HIDE DEF HasRow
  <2>4. CASE UNCHANGED chats /\ worker'[w].pc # "chat"
    BY <2>1, <2>2, <2>3, <2>4 DEF At
  <2>5. CASE /\ At(w, "chat") /\ worker[w].d \in Delivery /\ worker'[w].pc # "chat"
             /\ chats' = [chats EXCEPT ![worker[w].d] = @ + 1]
    BY <2>1, <2>2, <2>3, <2>5 DEF At, Typed
  <2>6. CASE /\ UNCHANGED chats /\ worker'[w].d = worker[w].d /\ worker[w].d \in Delivery
             /\ worker[w].conv \in Conv /\ At(w, "respond")
             /\ C!RowsOf(exch[worker[w].conv], worker[w].d) = {}
             /\ \E o \in Ordinal : LET row == exch'[worker[w].conv][o] IN
                  row.status \notin C!Absent /\ row.delivery = worker[w].d
    <3>1. CASE d # worker[w].d
      BY <2>1, <2>2, <2>3, <2>6, <3>1 DEF At
    <3>2. CASE d = worker[w].d
      <4>1. ~HasRow(d)
        <5>1. BoundTo(d, worker[w].conv)
          BY <2>6, <3>2 DEF BoundInv
        <5>2. \A c \in Conv, o \in Ordinal : exch[c][o].status \notin C!Absent /\
                exch[c][o].delivery = d => c = worker[w].conv
          BY <5>1 DEF BoundInv, OneConversationPerSender, BoundTo
        <5>3. \A o \in Ordinal : ~(exch[worker[w].conv][o].status \notin C!Absent /\
                exch[worker[w].conv][o].delivery = d)
          BY <2>6, <3>2 DEF C!RowsOf, C!Rows, C!Ordinal, Ordinal
        <5>4. QED
          BY <5>2, <5>3 DEF HasRow
      <4>2. HasRow(d)'
        BY <2>6, <3>2 DEF HasRow
      <4>3. chats[d] = 0 /\ \A v \in Worker : At(v, "chat") => worker[v].d # d
        BY <2>1, <4>1 DEF Typed
      <4>4. QED
        BY <2>2, <2>6, <4>2, <4>3 DEF At
    <3>3. QED
      BY <3>1, <3>2
  <2>7. QED
    BY <1>1, <2>4, <2>5, <2>6, ChatSteps
<1>2. ASSUME UNCHANGED <<exch, chats, compacted>>,
             \A v \in Worker : worker'[v] = worker[v] \/ worker'[v].pc # "chat"
      PROVE  Good(d)'
  BY <1>0, <1>2 DEF At, HasRow
<1>3. ASSUME NEW w \in Worker, Stop(w) \/ \E m \in Delivery : Receive(w, m) PROVE Good(d)'
  BY <1>2, <1>3 DEF Typed, Stop, Receive, Go, Answer503, tables, history
<1>4. CASE Tick \/ UNCHANGED vars
  BY <1>2, <1>4 DEF Tick, vars, tables, history
<1>5. QED
  BY <1>1, <1>3, <1>4 DEF ServiceNext

\* While its exchange is not compacted, a message is answered by the chat at most
\* once and replied to at most once: whatever is delivered again, overlaps or stops.
THEOREM OneRun == ServiceSpec => []OneRunPerMessage
<1>1. ServiceInit => BoundInv /\ ReceiptInv /\ ChatInv /\ SendInv
  BY DEF ServiceInit, BoundInv, OneConversationPerSender, ReceiptInv,
     AcknowledgedMeansAccepted, ChatInv, SendInv, At, C!NoExchange, C!Absent, O!Present,
     O!Settled
<1>2. ChatInv /\ SendInv => OneRunPerMessage
  BY DEF ChatInv, SendInv, OneRunPerMessage
<1>3. QED
  BY <1>1, <1>2, TypedInit, TypedNext, BoundNext, ReceiptNext, ChatNext, SendNext, PTL
  DEF ServiceSpec

===============================================================================
