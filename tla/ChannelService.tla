---------------------------- MODULE ChannelService ----------------------------
(***************************************************************************)
(* One inbound message from the webhook to the receipt: ChannelService.    *)
(* handle_inbound over the binding, conversation and outbound tables, with *)
(* ConversationService.respond inlined.  A worker is one HTTP request; it  *)
(* holds no lock between two database transactions and passes the moment   *)
(* of its arrival as `now` to all of them.  Workers run concurrently, stop *)
(* anywhere, and the platform delivers a message again and again.          *)
(***************************************************************************)
EXTENDS Naturals, FiniteSets, Sequences

CONSTANTS
  Identity, Delivery, IdentityOf,       \* senders, their messages
  Conv, MaxOrdinal, MaxTime,            \* bounds of the tables and of the clock
  LeaseTicks, RetentionTicks, RetainedLimit, PlanLimit, BindingLeaseTicks,
  Worker,                               \* requests handled at a time
  Lines,            \* messages whose text holds a line break
  AnswerText,       \* texts the chat may answer with: "line", "lines"
  MayStop,          \* whether the process dies or a bound sender's request fails
  MayOverlap,       \* whether a message comes again while a request handles it
  MayRepeat         \* whether a message comes again after it was answered 200

ASSUME ServiceAssumption ==
  /\ IdentityOf \in [Delivery -> Identity]
  /\ {LeaseTicks, RetentionTicks, BindingLeaseTicks} \subseteq Nat \ {0}
  /\ RetainedLimit \in Nat \ {0, 1} /\ PlanLimit \in Nat
  /\ MaxOrdinal \in Nat /\ MaxTime \in Nat
  /\ Lines \subseteq Delivery /\ AnswerText \subseteq {"line", "lines"}
  /\ {MayStop, MayOverlap, MayRepeat} \subseteq BOOLEAN

VARIABLES
  clock, conv, exch,    \* the conversation tables (ConversationRepository)
  bind,                 \* the binding table (ChannelBinding)
  out,                  \* the outbound table (OutboundDelivery)
  worker,               \* what every request is about to do, and what it knows
  served,               \* messages answered 200
  acked,                \* messages answered 200 with the receipt ACKNOWLEDGED
  chats,                \* calls of the grounded chat for every message
  sends,                \* calls of the bridge for every message
  accepted,             \* messages whose reply the platform accepted
  compacted             \* messages whose exchange was compacted

Ordinal  == 1 .. MaxOrdinal
Exchange == Conv \X Ordinal \X Delivery
IdOf(c, o, d) == <<c, o, d>>

tables  == <<conv, exch, bind, out>>
history == <<served, acked, chats, sends, accepted, compacted>>
vars    == <<clock, tables, worker, history>>

C == INSTANCE ConversationRepository WITH issued <- {}
B == INSTANCE ChannelBinding
O == INSTANCE OutboundDelivery WITH
       Binding    <- Identity,
       DeliveryOf <- [e \in Exchange |-> e[3]],
       BindingOf  <- [e \in Exchange |-> IdentityOf[e[3]]],
       Caller     <- {}, caller <- << >>, sends <- << >>, answered <- << >>

\* The foreign key of an outbound row.
ExchangeExists(e) ==
  exch[e[1]][e[2]].status \notin C!Absent /\ exch[e[1]][e[2]].delivery = e[3]

ServiceInit ==
  /\ clock = 0
  /\ conv = [c \in Conv |->
       [state |-> "none", version |-> 0, expires |-> 0, summary |-> {}]]
  /\ exch = [c \in Conv |-> [o \in Ordinal |-> C!NoExchange]]
  /\ B!BindInit
  /\ out = [e \in Exchange |-> "NONE"]
  /\ worker = [w \in Worker |-> [pc |-> "idle"]]
  /\ served = {} /\ acked = {} /\ accepted = {} /\ compacted = {}
  /\ chats = [d \in Delivery |-> 0]
  /\ sends = [d \in Delivery |-> 0]

------------------------------------------------------------------------------
\* A worker's steps.  A record holds what the code's locals hold at that point.

At(w, pc) == worker[w].pc = pc

Busy == {w \in Worker : ~At(w, "idle")}

Go(w, locals) == worker' = [worker EXCEPT ![w] = locals]

\* The request ends with HTTP 200 and a receipt, or with 503.
Answer200(w) ==
  /\ Go(w, [pc |-> "idle"])
  /\ served' = served \cup {worker[w].d}
  /\ UNCHANGED <<acked, chats, sends, accepted, compacted>>

Acknowledge(w) ==
  /\ Go(w, [pc |-> "idle"])
  /\ served' = served \cup {worker[w].d}
  /\ acked' = acked \cup {worker[w].d}
  /\ UNCHANGED <<chats, sends, accepted, compacted>>

Answer503(w) == Go(w, [pc |-> "idle"]) /\ UNCHANGED history

\* The webhook takes the time once, on arrival.
Receive(w, d) ==
  /\ At(w, "idle")
  /\ MayOverlap \/ d \notin {worker[v].d : v \in Busy}
  /\ MayRepeat \/ d \notin served
  /\ Go(w, [pc |-> "bind", d |-> d, now |-> clock])
  /\ UNCHANGED <<clock, tables, history>>

Bind(w) ==
  LET d == worker[w].d  i == IdentityOf[d]  now == worker[w].now IN
  /\ At(w, "bind")
  /\ \/ /\ bind[i].status = "ACTIVE"
        /\ Go(w, [pc |-> "respond", d |-> d, now |-> now, conv |-> bind[i].conv])
        /\ UNCHANGED <<bind, history>>
     \/ /\ B!Leased(i, now)
        /\ Answer200(w) /\ UNCHANGED bind
     \/ /\ B!ReserveTx(i, now)
        /\ Go(w, [pc |-> "create", d |-> d, now |-> now, lease |-> B!LeaseAt(now)])
        /\ UNCHANGED history
  /\ UNCHANGED <<clock, conv, exch, out>>

\* The handler that gives the reservation of the binding back.
ToFail(w) ==
  Go(w, [pc |-> "fail", d |-> worker[w].d, now |-> worker[w].now,
         lease |-> worker[w].lease])

\* create_conversation() may raise before its commit, or its answer may get lost
\* after it; the conversation nobody heard of stays behind.
Create(w) ==
  LET now == worker[w].now IN
  /\ At(w, "create")
  /\ \/ \E c \in Conv :
          /\ C!CreateTx(c, now)
          /\ \/ Go(w, [pc |-> "activate", d |-> worker[w].d, now |-> now,
                       lease |-> worker[w].lease, conv |-> c])
             \/ ToFail(w)
     \/ ToFail(w) /\ UNCHANGED <<conv, exch>>
  /\ UNCHANGED <<clock, bind, out, history>>

\* The row is refused when it is no longer the caller's, or the transaction fails
\* before its commit.  It may also commit and its answer get lost: the caller
\* cannot tell.
Activate(w) ==
  LET d == worker[w].d  i == IdentityOf[d]  now == worker[w].now IN
  /\ At(w, "activate")
  /\ \/ /\ B!ActivateTx(i, worker[w].lease, worker[w].conv, now)
        /\ \/ Go(w, [pc |-> "respond", d |-> d, now |-> now, conv |-> worker[w].conv])
           \/ ToFail(w)
     \/ ToFail(w) /\ UNCHANGED bind
  /\ UNCHANGED <<clock, conv, exch, out, history>>

\* fail() refuses a row that is no longer the caller's, or fails itself, and the
\* caller does not care.  A FAILED row is free for the next request at once.
Fail(w) ==
  /\ At(w, "fail")
  /\ \/ B!FailTx(IdentityOf[worker[w].d], worker[w].lease, worker[w].now)
     \/ UNCHANGED bind
  /\ Answer503(w)
  /\ UNCHANGED <<clock, conv, exch, out>>

\* The webhook accepts line breaks, ConversationRequest refuses them.  Else the
\* reservation of the exchange: a live duplicate and a busy conversation are
\* answered 200 as PROCESSING, an ended duplicate and an expired conversation 200
\* as TERMINAL_NO_RETRY; a completed duplicate is replayed.
Respond(w) ==
  LET d == worker[w].d  c == worker[w].conv  now == worker[w].now
      table == C!AbandonStale(exch[c], now)
  IN
  /\ At(w, "respond")
  /\ \/ d \in Lines /\ Answer503(w) /\ UNCHANGED <<conv, exch>>
     \/ \E o \in Ordinal :
          /\ d \notin Lines
          /\ C!ReserveNewTx(c, d, now, o)
          /\ Go(w, [pc |-> "chat", d |-> d, now |-> now,
                    res |-> C!NewReservation(c, now, o)])
          /\ UNCHANGED history
     \/ /\ d \notin Lines
        /\ C!ReserveDuplicateTx(c, d, now)
        /\ \E o \in C!RowsOf(table, d) :
             \/ /\ table[o].status = "COMPLETED"
                /\ Go(w, [pc |-> "outbound", d |-> d, exchange |-> IdOf(c, o, d)])
                /\ UNCHANGED history
             \/ table[o].status # "COMPLETED" /\ Answer200(w)
     \/ /\ d \notin Lines
        /\ C!ReserveBusy(c, d, now) \/ ~C!IsActive(c, now)
        /\ Answer200(w) /\ UNCHANGED <<conv, exch>>
  /\ UNCHANGED <<clock, bind, out>>

\* The grounded chat answers or refuses; an exception becomes a refusal.
Chat(w) ==
  /\ At(w, "chat")
  /\ \E text \in AnswerText :
       Go(w, [pc |-> "complete", d |-> worker[w].d, now |-> worker[w].now,
              res |-> worker[w].res, text |-> text])
  /\ chats' = [chats EXCEPT ![worker[w].d] = @ + 1]
  /\ UNCHANGED <<clock, tables, served, acked, sends, accepted, compacted>>

\* complete(), whose compaction takes outbound rows along.  A failed re-check is
\* answered 200 as TERMINAL_NO_RETRY, and so is an answer with a line break:
\* PersistedConversationExchange refuses it inside the transaction, which rolls
\* back and says STATE_INVALID.  A state update that cannot be built ends in 503.
Complete(w) ==
  LET d == worker[w].d  res == worker[w].res  c == res.conv  now == worker[w].now IN
  /\ At(w, "complete")
  /\ \/ /\ worker[w].text = "line"
        /\ C!CompleteTx(res, now)
        /\ O!CascadeTx({IdOf(c, o, exch[c][o].delivery) : o \in res.plan})
        /\ compacted' = compacted \cup {exch[c][o].delivery : o \in res.plan}
        /\ Go(w, [pc |-> "outbound", d |-> d, exchange |-> IdOf(c, res.ordinal, d)])
        /\ UNCHANGED <<served, acked, chats, sends, accepted>>
     \/ /\ Cardinality(res.plan) <= PlanLimit
        /\ ~C!CanComplete(res, now) \/ worker[w].text = "lines"
        /\ Answer200(w) /\ UNCHANGED <<conv, exch, out>>
     \/ /\ Cardinality(res.plan) > PlanLimit
        /\ Answer503(w) /\ UNCHANGED <<conv, exch, out>>
  /\ UNCHANGED <<clock, bind>>

\* Formatting the reply and reserve() of the outbound row.  A reply that cannot be
\* formatted, an exchange that is gone and a row of another exchange end in 503.  A
\* fresh or left-over PENDING row is RESERVED, a SENT row is acknowledged again,
\* other rows end the request.
Outbound(w) ==
  LET e == worker[w].exchange
      Mine == O!Found(e)
  IN
  /\ At(w, "outbound")
  /\ \/ /\ ExchangeExists(e)
        /\ O!InsertTx(e)
        /\ Go(w, [worker[w] EXCEPT !.pc = "mark"]) /\ UNCHANGED history
     \/ /\ Mine /\ out[e] = "PENDING"
        /\ Go(w, [worker[w] EXCEPT !.pc = "mark"]) /\ UNCHANGED <<out, history>>
     \/ Mine /\ out[e] = "SENT" /\ Acknowledge(w) /\ UNCHANGED out
     \/ Mine /\ out[e] \notin {"PENDING", "SENT"} /\ Answer200(w) /\ UNCHANGED out
     \/ ~Mine /\ Answer503(w) /\ UNCHANGED out
  /\ UNCHANGED <<clock, conv, exch, bind>>

\* mark_sending(): a lost race ends the request, a second SENDING row of the
\* binding violates the unique index, and a missing row is an error.
MarkSending(w) ==
  LET e == worker[w].exchange
      Other == O!SendingOf(IdentityOf[worker[w].d])
  IN
  /\ At(w, "mark")
  /\ \/ /\ O!MarkTx(e)
        /\ Go(w, [worker[w] EXCEPT !.pc = "send"]) /\ UNCHANGED history
     \/ out[e] \in O!Present \ {"PENDING"} /\ Answer200(w) /\ UNCHANGED out
     \/ /\ out[e] \notin O!Present \/ (out[e] = "PENDING" /\ Other # {})
        /\ Answer503(w) /\ UNCHANGED out
  /\ UNCHANGED <<clock, conv, exch, bind>>

Send(w, receipt) ==
  LET d == worker[w].d IN
  /\ At(w, "send")
  /\ sends' = [sends EXCEPT ![d] = @ + 1]
  /\ accepted' = IF receipt = "accepted" THEN accepted \cup {d} ELSE accepted
  /\ Go(w, [pc |-> "record", d |-> d, exchange |-> worker[w].exchange,
            receipt |-> receipt])
  /\ UNCHANGED <<clock, tables, served, acked, chats, compacted>>

Record(w) ==
  LET e == worker[w].exchange IN
  /\ At(w, "record")
  /\ \/ /\ O!RecordTx(e, worker[w].receipt)
        /\ IF out'[e] = "SENT" THEN Acknowledge(w) ELSE Answer200(w)
     \/ /\ out[e] \notin {"SENDING"} \cup O!Settled
        /\ Answer503(w) /\ UNCHANGED out
  /\ UNCHANGED <<clock, conv, exch, bind>>

\* The process dies, the request is cancelled, or another transaction fails: no
\* answer, or 503.  What was committed stays.
Stop(w) ==
  /\ MayStop /\ ~At(w, "idle")
  /\ Answer503(w)
  /\ UNCHANGED <<clock, tables>>

Tick == clock < MaxTime /\ clock' = clock + 1 /\ UNCHANGED <<tables, worker, history>>

WorkerStep(w) ==
  \/ Bind(w) \/ Create(w) \/ Activate(w) \/ Fail(w)
  \/ Respond(w) \/ Chat(w) \/ Complete(w)
  \/ Outbound(w) \/ MarkSending(w) \/ (\E receipt \in O!Receipt : Send(w, receipt))
  \/ Record(w)

ServiceNext ==
  \/ \E w \in Worker : WorkerStep(w) \/ Stop(w) \/ \E d \in Delivery : Receive(w, d)
  \/ Tick

ServiceSpec == ServiceInit /\ [][ServiceNext]_vars

\* A request in progress goes on (every await is bounded by a timeout), and the
\* platform delivers a message it got no 200 for again.
FairSpec ==
  /\ ServiceSpec
  /\ \A w \in Worker : WF_vars(WorkerStep(w))
  /\ \A d \in Delivery : WF_vars(\E w \in Worker : Receive(w, d))

------------------------------------------------------------------------------
\* The tables keep the types of their modules, and workers what they need to know.
ServiceTypeOK ==
  /\ clock \in 0 .. MaxTime
  /\ conv \in [Conv -> C!Conversation]
  /\ exch \in [Conv -> [Ordinal -> C!Exchange]]
  /\ bind \in [Identity -> B!Binding]
  /\ out \in [Exchange -> {"NONE", "GONE"} \cup O!Present]
  /\ \A w \in Busy : worker[w].d \in Delivery
  /\ served \subseteq Delivery /\ acked \subseteq Delivery
  /\ accepted \subseteq Delivery /\ compacted \subseteq Delivery
  /\ chats \in [Delivery -> Nat] /\ sends \in [Delivery -> Nat]

\* A message that still has its exchange is run through the chat at most once and
\* replied to at most once, whatever is delivered again, races or stops.
OneRunPerMessage ==
  \A d \in Delivery \ compacted : chats[d] <= 1 /\ sends[d] <= 1

\* All exchanges of a sender are in the conversation the binding names, although
\* a lost activation race leaves further conversations behind.
OneConversationPerSender ==
  \A c \in Conv, o \in Ordinal :
    exch[c][o].status \notin C!Absent =>
      LET row == bind[IdentityOf[exch[c][o].delivery]] IN
      row.status = "ACTIVE" /\ row.conv = c

\* ACKNOWLEDGED is said only of a reply the platform accepted.
AcknowledgedMeansAccepted == acked \subseteq accepted

\* docs/M08-zalo-channel-plan.md:46: sendMessage is called once for a delivery
\* that was reserved.
ReservedReplyIsSent ==
  \A d \in Delivery :
    (\E e \in Exchange : e[3] = d /\ out[e] \in O!Present) ~> sends[d] > 0

\* docs/M07-conversation-plan.md:78: the transaction after the chat persists its
\* result.  So a message the chat has answered gets its completed exchange.
AnswersAreStored ==
  \A d \in Delivery :
    chats[d] > 0 ~> \E c \in Conv, o \in Ordinal :
                      exch[c][o].status = "COMPLETED" /\ exch[c][o].delivery = d

===============================================================================
