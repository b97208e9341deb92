-------------------------- MODULE ApplicationProofs ---------------------------
(***************************************************************************)
(* Theorems about OutboundDelivery and Application for every set of        *)
(* exchanges, deliveries, bindings, senders and callers and every size of  *)
(* the registry: an exchange is sent at most once; the application         *)
(* implements OutboundDelivery, so it holds over restarts too; and its     *)
(* lifespan leaks nothing and lets no request use a closed client.         *)
(***************************************************************************)
EXTENDS Application, FiniteSetTheorems, TLAPS

-------------------------------------------------------------------------------
(***************************************************************************)
(* The outbound table                                                      *)
(***************************************************************************)
LEMMA OutcomeType ==
  /\ Receipt = {"accepted", "rejected", "silent"}
  /\ \A receipt \in Receipt : Outcome[receipt] \in Settled
  /\ "none" \notin Receipt
  BY DEF Receipt, Outcome, Settled

LEMMA OutInitType == OutInit => OutTypeOK
  BY DEF OutInit, OutTypeOK

LEMMA OutNextType == OutTypeOK /\ [OutNext]_outVars => OutTypeOK'
<1> SUFFICES ASSUME OutTypeOK, [OutNext]_outVars PROVE OutTypeOK'
  OBVIOUS
<1> USE DEF OutTypeOK, Busy, Idle, Present
<1>1. ASSUME NEW w \in Caller, NEW e \in Exchange, Begin(w, e) PROVE OutTypeOK'
  BY <1>1 DEF Begin, At
<1>2. ASSUME NEW w \in Caller, Reserve(w) PROVE OutTypeOK'
  <2>1. caller[w].exchange \in Exchange
    BY <1>2 DEF Reserve, At
  <2>2. out' \in [Exchange -> {"NONE", "GONE"} \cup Present]
    BY <1>2, <2>1 DEF Reserve, InsertTx
  <2>3. caller' = [caller EXCEPT ![w].step = "mark"] \/ caller' = [caller EXCEPT ![w] = Idle]
    BY <1>2 DEF Reserve, Goto, Finish
  <2>4. QED
    BY <1>2, <2>2, <2>3 DEF Reserve, At
<1>3. ASSUME NEW w \in Caller, MarkSending(w) PROVE OutTypeOK'
  <2>1. caller[w].exchange \in Exchange
    BY <1>3 DEF MarkSending, At
  <2>2. out' \in [Exchange -> {"NONE", "GONE"} \cup Present]
    BY <1>3, <2>1 DEF MarkSending, MarkTx
  <2>3. caller' = [caller EXCEPT ![w].step = "send"] \/ caller' = [caller EXCEPT ![w] = Idle]
    BY <1>3 DEF MarkSending, Goto, Finish
  <2>4. QED
    BY <1>3, <2>2, <2>3 DEF MarkSending, At
<1>4. ASSUME NEW w \in Caller, NEW receipt \in Receipt, Send(w, receipt) PROVE OutTypeOK'
  <2>1. caller[w].exchange \in Exchange
    BY <1>4 DEF Send, At
  <2>2. sends' \in [Exchange -> Nat] /\ answered' \in [Exchange -> {"none"} \cup Receipt]
    BY <1>4, <2>1 DEF Send
  <2>3. caller' = [caller EXCEPT ![w] =
                    [step |-> "record", exchange |-> caller[w].exchange, receipt |-> receipt]]
    BY <1>4 DEF Send
  <2>4. [step |-> "record", exchange |-> caller[w].exchange, receipt |-> receipt] \in Busy
    BY <2>1
  <2>5. caller' \in [Caller -> Busy \cup {Idle}]
    BY <2>3, <2>4
  <2>6. out' = out
    BY <1>4 DEF Send
  <2>7. QED
    BY <2>2, <2>5, <2>6
<1>5. ASSUME NEW w \in Caller, Complete(w) PROVE OutTypeOK'
  <2>1. caller[w].exchange \in Exchange
    BY <1>5 DEF Complete, At
  <2>3. out' \in [Exchange -> {"NONE", "GONE"} \cup Present]
    <3>1. CASE UNCHANGED out
      BY <3>1
    <3>2. CASE RecordTx(caller[w].exchange, caller[w].receipt)
      <4>1. Outcome[caller[w].receipt] \in Settled
        BY <1>5, OutcomeType DEF Complete, At
      <4>2. QED
        BY <3>2, <2>1, <4>1 DEF RecordTx
    <3>3. QED
      BY <1>5, <3>1, <3>2 DEF Complete
  <2>4. QED
    BY <1>5, <2>3 DEF Complete, Finish
<1>6. ASSUME NEW w \in Caller, Stop(w) PROVE OutTypeOK'
  BY <1>6 DEF Stop, Finish
<1>7. ASSUME NEW E \in SUBSET Exchange, Compact(E) PROVE OutTypeOK'
  BY <1>7 DEF Compact, CascadeTx
<1>8. CASE UNCHANGED outVars
  BY <1>8 DEF outVars
<1>9. QED
  BY <1>1, <1>2, <1>3, <1>4, <1>5, <1>6, <1>7, <1>8 DEF OutNext

THEOREM OutboundTypeCorrect == OutSpec => []OutTypeOK
  BY OutInitType, OutNextType, PTL DEF OutSpec

------------------------------------------------------------------------------
\* Which row and which caller a step can change, used instead of the actions.

LEMMA BusyStep ==
  ASSUME OutTypeOK, NEW w \in Caller, ~At(w, "idle")
  PROVE  caller[w].exchange \in Exchange
  BY DEF OutTypeOK, Busy, Idle, At

LEMMA OutInitInv == OutInit => OutInv
  BY DEF OutInit, OutInv, SendersHaveTheirRow, Sending, At, Idle, Settled

\* The parts of OutInv, one exchange and one caller at a time.
RowInv(e) ==
  /\ out[e] \in {"NONE", "PENDING"} => sends[e] = 0 /\ answered[e] = "none"
  /\ out[e] \in Settled => answered[e] # "none" /\ out[e] = Outcome[answered[e]]
  /\ sends[e] <= 1
  /\ sends[e] = 0 <=> answered[e] = "none"

CallerInv(w) ==
  /\ At(w, "send") => sends[caller[w].exchange] = 0
  /\ At(w, "record") => answered[caller[w].exchange] = caller[w].receipt
  /\ Sending(w) => out[caller[w].exchange] \in {"SENDING", "GONE"}

Alone(w, v) ==
  Sending(w) /\ Sending(v) /\ v # w => caller[v].exchange # caller[w].exchange

LEMMA OutInvParts ==
  OutInv <=> /\ \A e \in Exchange : RowInv(e)
             /\ \A w \in Caller : CallerInv(w)
             /\ \A w, v \in Caller : Alone(w, v)
  BY DEF OutInv, RowInv, CallerInv, Alone, SendersHaveTheirRow

LEMMA OutNextInv == OutTypeOK /\ OutInv /\ [OutNext]_outVars => OutInv'
<1> SUFFICES ASSUME OutTypeOK, OutInv, [OutNext]_outVars PROVE OutInv'
  OBVIOUS
<1> DEFINE Parts == /\ \A e \in Exchange : RowInv(e)
                    /\ \A w \in Caller : CallerInv(w)
                    /\ \A w, v \in Caller : Alone(w, v)
<1>a. Parts
  BY OutInvParts
<1>b. SUFFICES Parts'
  BY DEF OutInv, RowInv, CallerInv, Alone, SendersHaveTheirRow
<1>1. ASSUME NEW w \in Caller, NEW e \in Exchange, Begin(w, e) PROVE Parts'
  <2>1. /\ \A v \in Caller : v # w => caller'[v] = caller[v]
        /\ caller'[w].step = "reserve"
        /\ UNCHANGED <<out, sends, answered>>
    BY <1>1 DEF Begin, Idle, OutTypeOK
  <2>2. QED
    BY <1>a, <2>1 DEF RowInv, CallerInv, Alone, Sending, At
<1>2. ASSUME NEW w \in Caller, Reserve(w) PROVE Parts'
  <2> DEFINE e == caller[w].exchange
  <2>1. e \in Exchange
    BY <1>2, BusyStep DEF Reserve, At
  <2>2. /\ \A f \in Exchange : f # e => out'[f] = out[f]
        /\ out'[e] = out[e] \/ (out[e] = "NONE" /\ out'[e] = "PENDING")
        /\ UNCHANGED <<sends, answered>>
    BY <1>2, <2>1 DEF Reserve, InsertTx, OutTypeOK
  <2>3. /\ \A v \in Caller : v # w => caller'[v] = caller[v]
        /\ caller'[w].step \in {"mark", "idle"}
    <3>1. caller[w] \in Busy
      BY <1>2 DEF Reserve, At, OutTypeOK, Idle
    <3>2. caller' = [caller EXCEPT ![w].step = "mark"] \/ caller' = [caller EXCEPT ![w] = Idle]
      BY <1>2 DEF Reserve, Goto, Finish
    <3>3. QED
      BY <3>1, <3>2 DEF Busy, Idle, OutTypeOK
  <2>4. ASSUME NEW v \in Caller, v # w, Sending(v)
        PROVE caller[v].exchange \in Exchange
    BY <2>4, BusyStep DEF Sending, At
  <2>5. QED
    BY <1>a, <2>1, <2>2, <2>3, <2>4 DEF RowInv, CallerInv, Alone, Sending, At, Settled
<1>3. ASSUME NEW w \in Caller, MarkSending(w) PROVE Parts'
  <2> DEFINE e == caller[w].exchange
  <2>1. e \in Exchange
    BY <1>3, BusyStep DEF MarkSending, At
  <2>2. ASSUME NEW v \in Caller, Sending(v) PROVE caller[v].exchange \in Exchange
    BY <2>2, BusyStep DEF Sending, At
  <2>3. CASE UNCHANGED out /\ Finish(w)
    BY <1>a, <1>3, <2>3 DEF MarkSending, Finish, Idle, OutTypeOK, RowInv, CallerInv,
                           Alone, Sending, At
  <2>4. CASE MarkTx(e) /\ Goto(w, "send")
    <3>1. /\ \A f \in Exchange : f # e => out'[f] = out[f]
          /\ out[e] = "PENDING" /\ out'[e] = "SENDING"
          /\ UNCHANGED <<sends, answered>>
      BY <1>3, <2>1, <2>4 DEF MarkSending, MarkTx, OutTypeOK
    <3>2. /\ \A v \in Caller : v # w => caller'[v] = caller[v]
          /\ caller'[w].step = "send" /\ caller'[w].exchange = e
      BY <1>3, <2>4, OutcomeType DEF Goto, OutTypeOK, Busy, Idle, MarkSending, At
    <3>3. ASSUME NEW v \in Caller, Sending(v) PROVE caller[v].exchange # e
      BY <1>a, <3>1, <3>3 DEF CallerInv
    <3>4. QED
      BY <1>a, <2>1, <2>2, <3>1, <3>2, <3>3
         DEF RowInv, CallerInv, Alone, Sending, At, Settled
  <2>5. QED
    BY <1>3, <2>3, <2>4 DEF MarkSending
<1>4. ASSUME NEW w \in Caller, NEW receipt \in Receipt, Send(w, receipt) PROVE Parts'
  <2> DEFINE e == caller[w].exchange
  <2>1. e \in Exchange /\ Sending(w)
    BY <1>4, BusyStep DEF Send, Sending, At
  <2>2. ASSUME NEW v \in Caller, Sending(v) PROVE caller[v].exchange \in Exchange
    BY <2>2, BusyStep DEF Sending, At
  <2>3. /\ out' = out /\ out[e] \in {"SENDING", "GONE"}
        /\ sends[e] = 0 /\ sends'[e] = 1
        /\ answered'[e] = receipt /\ receipt # "none"
        /\ \A f \in Exchange : f # e => sends'[f] = sends[f] /\ answered'[f] = answered[f]
    BY <1>a, <1>4, <2>1, OutcomeType DEF Send, CallerInv, OutTypeOK
  <2>4. /\ \A v \in Caller : v # w => caller'[v] = caller[v]
        /\ caller'[w].step = "record" /\ caller'[w].exchange = e
        /\ caller'[w].receipt = receipt
    BY <1>4 DEF Send, OutTypeOK, Busy, Idle, At
  <2>5. ASSUME NEW v \in Caller, v # w, Sending(v) PROVE caller[v].exchange # e
    BY <1>a, <2>1, <2>5 DEF Alone
  <2>6. QED
    BY <1>a, <2>1, <2>2, <2>3, <2>4, <2>5
       DEF RowInv, CallerInv, Alone, Sending, At, Settled
<1>5. ASSUME NEW w \in Caller, Complete(w) PROVE Parts'
  <2> DEFINE e == caller[w].exchange
  <2>1. e \in Exchange /\ Sending(w)
    BY <1>5, BusyStep DEF Complete, Sending, At
  <2>2. ASSUME NEW v \in Caller, Sending(v) PROVE caller[v].exchange \in Exchange
    BY <2>2, BusyStep DEF Sending, At
  <2>3. out[e] \in {"SENDING", "GONE"} /\ answered[e] = caller[w].receipt
    BY <1>a, <1>5, <2>1 DEF Complete, CallerInv
  <2>4. caller[w].receipt \in Receipt
    BY <1>5 DEF Complete, At, OutTypeOK, Busy, Idle
  <2>5. /\ \A v \in Caller : v # w => caller'[v] = caller[v]
        /\ caller'[w].step = "idle"
        /\ UNCHANGED <<sends, answered>>
    BY <1>5 DEF Complete, Finish, Idle, OutTypeOK
  <2>6. /\ \A f \in Exchange : f # e => out'[f] = out[f]
        /\ out'[e] = out[e] \/ out'[e] = Outcome[answered[e]]
    BY <1>5, <2>1, <2>3 DEF Complete, RecordTx, OutTypeOK
  <2>7. ASSUME NEW v \in Caller, v # w, Sending(v) PROVE caller[v].exchange # e
    BY <1>a, <2>1, <2>7 DEF Alone
  <2>8. answered[e] # "none" /\ Outcome[answered[e]] \in Settled
    BY <2>3, <2>4, OutcomeType
  <2>9. QED
    BY <1>a, <2>1, <2>2, <2>3, <2>5, <2>6, <2>7, <2>8
       DEF RowInv, CallerInv, Alone, Sending, At, Settled
<1>6. ASSUME NEW w \in Caller, Stop(w) PROVE Parts'
  BY <1>a, <1>6 DEF Stop, Finish, Idle, OutTypeOK, RowInv, CallerInv, Alone, Sending, At
<1>7. ASSUME NEW E \in SUBSET Exchange, Compact(E) PROVE Parts'
  <2>1. \A f \in Exchange : out'[f] = out[f] \/ out'[f] = "GONE"
    BY <1>7 DEF Compact, CascadeTx
  <2>2. UNCHANGED <<caller, sends, answered>>
    BY <1>7 DEF Compact
  <2>3. ASSUME NEW v \in Caller, Sending(v) PROVE caller[v].exchange \in Exchange
    BY <2>3, BusyStep DEF Sending, At
  <2>4. QED
    BY <1>a, <2>1, <2>2, <2>3 DEF RowInv, CallerInv, Alone, Sending, At, Settled
<1>8. CASE UNCHANGED outVars
  BY <1>a, <1>8 DEF outVars, RowInv, CallerInv, Alone, Sending, At
<1>9. QED
  BY <1>1, <1>2, <1>3, <1>4, <1>5, <1>6, <1>7, <1>8 DEF OutNext

LEMMA OutInvariant == OutSpec => [](OutTypeOK /\ OutInv)
<1>1. OutInit => OutTypeOK /\ OutInv
  BY OutInitType, OutInitInv
<1>2. OutTypeOK /\ OutInv /\ [OutNext]_outVars => (OutTypeOK /\ OutInv)'
  BY OutNextType, OutNextInv
<1>3. QED
  BY <1>1, <1>2, PTL DEF OutSpec

\* However many callers, redeliveries and stops: one call of the bridge for an
\* exchange at most.
THEOREM OneAttempt == OutSpec => []AtMostOneAttempt
<1>1. OutInv => AtMostOneAttempt
  BY DEF OutInv, AtMostOneAttempt
<1>2. QED
  BY <1>1, OutInvariant, PTL

\* A settled row holds what the bridge answered to that one call.
THEOREM SettledRowsAreTruthful == OutSpec => []RowTellsTheAnswer
<1>1. OutInv => RowTellsTheAnswer
  BY DEF OutInv, RowTellsTheAnswer
<1>2. QED
  BY <1>1, OutInvariant, PTL

\* The row of a caller that is sending stays SENDING until that caller settles it.
THEOREM SendersKeepTheirRow == OutSpec => []SendersHaveTheirRow
<1>1. OutInv => SendersHaveTheirRow
  BY DEF OutInv
<1>2. QED
  BY <1>1, OutInvariant, PTL

------------------------------------------------------------------------------
\* The refinement of AtMostOnceSend.

SeenAnswers  == [e \in Exchange |-> AnswerOf(e)]
SeenVerdicts == [e \in Exchange |-> VerdictOf(e)]

LEMMA InitRefines == OutInit => Once!SendInit
  BY DEF OutInit, Once!SendInit, AnswerOf, VerdictOf, Settled

\* A step that leaves what is seen of the rows alone is a stutter.
LEMMA Stutters ==
  ASSUME UNCHANGED answered,
         \A e \in Exchange : VerdictOf(e)' = VerdictOf(e)
  PROVE  UNCHANGED <<SeenAnswers, SeenVerdicts>>
  BY DEF SeenAnswers, SeenVerdicts, AnswerOf

LEMMA NextRefines ==
  ASSUME OutTypeOK, OutInv, [OutNext]_outVars
  PROVE  [Once!SendNext]_<<SeenAnswers, SeenVerdicts>>
<1>1. CASE UNCHANGED <<out, answered>>
  BY <1>1, Stutters DEF VerdictOf
<1>2. ASSUME NEW w \in Caller, Reserve(w)
      PROVE  UNCHANGED <<SeenAnswers, SeenVerdicts>>
  <2>1. caller[w].exchange \in Exchange
    BY <1>2, BusyStep DEF Reserve, At
  <2>2. \A e \in Exchange : VerdictOf(e)' = VerdictOf(e)
    BY <1>2, <2>1 DEF Reserve, InsertTx, OutTypeOK, VerdictOf, Settled
  <2>3. QED
    BY <1>2, <2>2, Stutters DEF Reserve
<1>3. ASSUME NEW w \in Caller, MarkSending(w)
      PROVE  UNCHANGED <<SeenAnswers, SeenVerdicts>>
  <2>1. caller[w].exchange \in Exchange
    BY <1>3, BusyStep DEF MarkSending, At
  <2>2. \A e \in Exchange : VerdictOf(e)' = VerdictOf(e)
    BY <1>3, <2>1 DEF MarkSending, MarkTx, OutTypeOK, VerdictOf, Settled
  <2>3. QED
    BY <1>3, <2>2, Stutters DEF MarkSending
<1>4. ASSUME NEW w \in Caller, NEW receipt \in Receipt, Send(w, receipt)
      PROVE  Once!Attempt(caller[w].exchange) /\ caller[w].exchange \in Exchange
  <2>1. PICK e \in Exchange : e = caller[w].exchange
    BY <1>4, BusyStep DEF Send, At
  <2>2. answered[e] = "none" /\ answered' = [answered EXCEPT ![e] = receipt] /\ out' = out
    BY <1>4, <2>1 DEF Send, OutInv
  <2>3. SeenAnswers[e] = "none" /\ SeenVerdicts' = SeenVerdicts
    BY <2>2 DEF SeenAnswers, SeenVerdicts, AnswerOf, VerdictOf
  <2>4. SeenAnswers' = [SeenAnswers EXCEPT ![e] = Outcome[receipt]]
    <3>1. \A f \in Exchange : SeenAnswers'[f] =
            IF f = e THEN Outcome[receipt] ELSE SeenAnswers[f]
      BY <2>2, OutcomeType DEF SeenAnswers, AnswerOf, OutTypeOK
    <3>2. QED
      BY <3>1 DEF SeenAnswers
  <2>5. Outcome[receipt] \in Settled
    BY OutcomeType
  <2>6. QED
    BY <2>1, <2>3, <2>4, <2>5 DEF Once!Attempt, SeenAnswers, SeenVerdicts
<1>5. ASSUME NEW w \in Caller, Complete(w)
      PROVE  \/ UNCHANGED <<SeenAnswers, SeenVerdicts>>
             \/ \E e \in Exchange : Once!Record(e)
  <2>1. PICK e \in Exchange : e = caller[w].exchange
    BY <1>5, BusyStep DEF Complete, At
  <2>2. /\ out[e] \in {"SENDING", "GONE"} /\ caller[w].receipt \in Receipt
        /\ answered[e] = caller[w].receipt /\ answered' = answered
    BY <1>5, <2>1 DEF Complete, OutInv, SendersHaveTheirRow, Sending, At, OutTypeOK, Busy, Idle
  <2>3. CASE out[e] = "GONE"
    BY <1>5, <2>1, <2>2, <2>3, Stutters DEF Complete, RecordTx, Settled, VerdictOf
  <2>4. CASE out[e] = "SENDING"
    <3>1. out' = [out EXCEPT ![e] = Outcome[answered[e]]]
      BY <1>5, <2>1, <2>2, <2>4 DEF Complete, RecordTx
    <3>2. AnswerOf(e) = Outcome[answered[e]] /\ Outcome[answered[e]] \in Settled
      BY <2>2, OutcomeType DEF AnswerOf
    <3>3. VerdictOf(e) = "none" /\ SeenAnswers' = SeenAnswers
      BY <2>2, <2>4 DEF VerdictOf, Settled, SeenAnswers, AnswerOf
    <3>4. \A f \in Exchange : VerdictOf(f)' = IF f = e THEN AnswerOf(e) ELSE VerdictOf(f)
      BY <3>1, <3>2 DEF VerdictOf, OutTypeOK, Settled
    <3>5. SeenVerdicts' = [SeenVerdicts EXCEPT ![e] = SeenAnswers[e]]
      BY <3>4 DEF SeenVerdicts, SeenAnswers
    <3>6. SeenAnswers[e] # "none" /\ SeenVerdicts[e] = "none"
      BY <3>2, <3>3 DEF SeenAnswers, SeenVerdicts, Settled
    <3>7. Once!Record(e)
      BY <3>3, <3>5, <3>6 DEF Once!Record, SeenAnswers, SeenVerdicts
    <3>8. QED
      BY <3>7
  <2>5. QED
    BY <2>2, <2>3, <2>4
<1>6. ASSUME NEW E \in SUBSET Exchange, Compact(E) PROVE Once!Drop(E)
  <2>1. \A e \in Exchange : VerdictOf(e)' = IF e \in E THEN "dropped" ELSE VerdictOf(e)
    BY <1>6 DEF Compact, CascadeTx, VerdictOf, Settled
  <2>2. SeenVerdicts' = [e \in Exchange |-> IF e \in E THEN "dropped" ELSE SeenVerdicts[e]]
    BY <2>1 DEF SeenVerdicts
  <2>3. SeenAnswers' = SeenAnswers /\ E # {}
    BY <1>6 DEF Compact, SeenAnswers, AnswerOf
  <2>4. QED
    BY <2>2, <2>3 DEF Once!Drop, SeenAnswers, SeenVerdicts
<1>7. QED
  BY <1>1, <1>2, <1>3, <1>4, <1>5, <1>6
     DEF OutNext, Begin, Stop, outVars, Once!SendNext, SeenAnswers, SeenVerdicts

\* The rows, callers, redeliveries, stops and deletions together implement one
\* attempt per exchange and one truthful verdict.
THEOREM OutboundIsAtMostOnce == OutSpec => ImplementsAtMostOnce
<1>1. OutInit => Once!SendInit
  BY InitRefines
<1>2. OutTypeOK /\ OutInv /\ [OutNext]_outVars =>
        [Once!SendNext]_<<SeenAnswers, SeenVerdicts>>
  BY NextRefines
<1>3. QED
  BY <1>1, <1>2, OutInvariant, PTL
     DEF OutSpec, ImplementsAtMostOnce, Once!SendSpec, SeenAnswers, SeenVerdicts

-------------------------------------------------------------------------------
(***************************************************************************)
(* The lifespan                                                            *)
(***************************************************************************)
\* What the phases say of the flags, the clients and the registry
LifeInv ==
  /\ phase \in Phases
  /\ ready = (phase = "up") /\ ingress = (phase = "up") /\ routed = (phase = "up")
  /\ phase = "up" => provider = "open" /\ channel = "open"
  /\ phase # "up" => channel # "open" /\ known = << >>
  /\ phase \in {"closingProvider", "disposing", "down"} => provider # "open"

LEMMA LifeInit == AppInit => LifeInv
  BY DEF AppInit, LifeInv, Phases

\* The requests, the probe and the compaction leave the lifespan alone.
LEMMA OthersKeepLife ==
  ASSUME LifeInv,
         \/ Probe
         \/ CompactStep
         \/ \E w \in Caller : \/ \E b \in Binding : Arrive(w, b)
                              \/ EndEarly(w)
                              \/ RequestStep(w)
         \/ UNCHANGED appVars
  PROVE  LifeInv'
<1>1. CASE Probe \/ CompactStep \/ UNCHANGED appVars
  BY <1>1 DEF Probe, CompactStep, appVars, lifeVars, LifeInv
<1>2. CASE \E w \in Caller : EndEarly(w) \/ RequestStep(w)
  BY <1>2 DEF EndEarly, RequestStep, lifeVars, LifeInv
<1>3. ASSUME NEW w \in Caller, NEW b \in Binding, Arrive(w, b) PROVE LifeInv'
  <2>1. UNCHANGED lifeVars /\ (phase # "up" => known' = known)
    BY <1>3 DEF Arrive, LifeInv
  <2>2. QED
    BY <2>1 DEF lifeVars, LifeInv
<1>4. QED
  BY <1>1, <1>2, <1>3

LEMMA LifeNext == LifeInv /\ [AppNext]_appVars => LifeInv'
<1> SUFFICES ASSUME LifeInv, [AppNext]_appVars PROVE LifeInv'
  OBVIOUS
<1>1. CASE Launch
  BY <1>1 DEF Launch, Serve, RollBack, LifeInv, Phases
<1>2. CASE Covered
  BY <1>2 DEF Covered, Serve, RollBack, LifeInv, Phases
<1>3. CASE BeginClose
  BY <1>3 DEF BeginClose, LifeInv, Phases
<1>4. CASE ChannelClosed
  BY <1>4 DEF ChannelClosed, LifeInv, Phases
<1>5. CASE ProviderClosed
  BY <1>5 DEF ProviderClosed, LifeInv, Phases
<1>6. CASE Disposed
  BY <1>6 DEF Disposed, LifeInv, Phases
<1>7. CASE Crash
  BY <1>7 DEF Crash, LifeInv, Phases
<1>8. QED
  BY <1>1, <1>2, <1>3, <1>4, <1>5, <1>6, <1>7, OthersKeepLife DEF AppNext, Lifespan

\* Wherever a start failed and whichever close raised, an application that is down
\* has left nothing of its runtime open or bound (build_m08_runtime, lifespan, aclose).
THEOREM NothingIsLeaked == AppSpec => []NothingLeaks
<1>1. LifeInv => NothingLeaks
  BY DEF LifeInv, NothingLeaks
<1>2. QED
  BY LifeInit, LifeNext, <1>1, PTL DEF AppSpec

\* A send that finds its recipient finds an open client (aclose empties the registry
\* before it closes the channel, and nothing reaches the registry after that).
THEOREM SendsUseOpenClients == AppSpec => []PostsUseAnOpenChannel
<1>1. LifeInv => PostsUseAnOpenChannel
  BY DEF LifeInv, PostsUseAnOpenChannel, Knows, Range
<1>2. QED
  BY LifeInit, LifeNext, <1>1, PTL DEF AppSpec

\* /ready says "ready" only while the ingress is bound and both clients are open.
THEOREM ReadyIsTrue == AppSpec => ReadyMeansServing
<1>1. ASSUME LifeInv, [AppNext]_appVars, probe' # probe, probe' = "ready"
      PROVE  ingress /\ routed /\ channel = "open" /\ provider = "open"
  <2>1. Probe
    BY <1>1 DEF AppNext, Lifespan, Launch, Covered, BeginClose, ChannelClosed,
         ProviderClosed, Disposed, Crash, Arrive, EndEarly, RequestStep, CompactStep, appVars
  <2>2. QED
    BY <1>1, <2>1 DEF Probe, LifeInv
<1>2. LifeInv /\ [AppNext]_appVars =>
        [probe' # probe /\ probe' = "ready" =>
           ingress /\ routed /\ channel = "open" /\ provider = "open"]_appVars
  BY <1>1
<1>3. QED
  BY LifeInit, LifeNext, <1>2, PTL DEF AppSpec, ReadyMeansServing

-------------------------------------------------------------------------------
(***************************************************************************)
(* The recipients                                                          *)
(*                                                                         *)
(* The argument: the registry is a list without doubles in which everyone  *)
(* was remembered after those before him, so the one that is dropped has   *)
(* all the others, Maximum of them, behind him.                            *)
(***************************************************************************)
NoDoubles(q) == \A i, j \in DOMAIN q : q[i] = q[j] => i = j

\* q without its place p; q itself, where p is behind its end
Skip(q, p) ==
  [i \in 1 .. (IF p <= Len(q) THEN Len(q) - 1 ELSE Len(q)) |-> IF i < p THEN q[i] ELSE q[i + 1]]

LEMMA WithoutSkips ==
  ASSUME NEW q \in Seq(Binding), NoDoubles(q), NEW b \in Binding
  PROVE  \E p \in 1 .. Len(q) + 1 :
           /\ Without(q, b) = Skip(q, p)
           /\ \A i \in 1 .. Len(q) : q[i] = b <=> i = p
<1>1. CASE b \notin Range(q)
  <2> DEFINE p == Len(q) + 1
  <2>1. \A i \in 1 .. Len(q) : q[i] # b
    BY <1>1 DEF Range
  <2>2. Without(q, b) = q
    BY <1>1 DEF Without
  <2>3. Skip(q, p) = q
    BY DEF Skip
  <2>4. p \in 1 .. Len(q) + 1 /\ \A i \in 1 .. Len(q) : q[i] = b <=> i = p
    BY <2>1
  <2>5. QED
    BY <2>2, <2>3, <2>4
<1>2. CASE b \in Range(q)
  <2> DEFINE p == CHOOSE i \in DOMAIN q : q[i] = b
  <2>1. p \in 1 .. Len(q) /\ q[p] = b
    BY <1>2 DEF Range
  <2>2. Without(q, b) = [i \in 1 .. Len(q) - 1 |-> IF i < p THEN q[i] ELSE q[i + 1]]
    BY <1>2 DEF Without
  <2>3. \A i \in 1 .. Len(q) : q[i] = b => i = p
    BY <2>1 DEF NoDoubles
  <2> HIDE DEF p
  <2>4. Skip(q, p) = Without(q, b)
    BY <2>1, <2>2 DEF Skip
  <2>5. QED
    BY <2>1, <2>3, <2>4
<1>3. QED
  BY <1>1, <1>2

\* remember() as a renaming of places: s, the list with b remembered, has lost the
\* place p of b, if it had one, and k places, none or one, at its front.
Moved(q, b, s, p, k, n) ==
  /\ n = IF p <= Len(q) THEN Len(q) - 1 ELSE Len(q)
  /\ Len(s) = n + 1 - k
  /\ k = 1 => n = Maximum
  /\ k = 0 => n < Maximum
  /\ \A i \in 1 .. Len(s) :
       s[i] = IF i + k > n THEN b ELSE IF i + k < p THEN q[i + k] ELSE q[i + k + 1]
  /\ \A i \in 1 .. Len(q) : q[i] = b <=> i = p

LEMMA RememberedMoves ==
  ASSUME NEW q \in Seq(Binding), NoDoubles(q), Len(q) <= Maximum, NEW b \in Binding
  PROVE  /\ Remembered(q, b) \in Seq(Binding)
         /\ \E p \in 1 .. Len(q) + 1, k \in {0, 1}, n \in Nat :
              Moved(q, b, Remembered(q, b), p, k, n)
<1>1. PICK p \in 1 .. Len(q) + 1 :
        /\ Without(q, b) = Skip(q, p)
        /\ \A i \in 1 .. Len(q) : q[i] = b <=> i = p
  BY WithoutSkips
<1> DEFINE n == IF p <= Len(q) THEN Len(q) - 1 ELSE Len(q)
           r == Skip(q, p)
           later == Append(r, b)
<1>2. n \in Nat /\ n <= Len(q) /\ (n = Len(q) => p = Len(q) + 1)
  OBVIOUS
<1>3. r = [i \in 1 .. n |-> IF i < p THEN q[i] ELSE q[i + 1]]
  BY DEF Skip
<1>4. \A i \in 1 .. n : (IF i < p THEN q[i] ELSE q[i + 1]) \in Binding
  BY <1>1
<1>5. Remembered(q, b) = IF Len(later) > Maximum THEN Tail(later) ELSE later
  BY <1>1 DEF Remembered
<1> HIDE DEF n, r
<1>6. r \in Seq(Binding) /\ Len(r) = n
  BY <1>2, <1>3, <1>4
<1>7. /\ later \in Seq(Binding) /\ Len(later) = n + 1
      /\ \A i \in 1 .. n + 1 :
           later[i] = IF i > n THEN b ELSE IF i < p THEN q[i] ELSE q[i + 1]
  BY <1>2, <1>3, <1>6
<1> HIDE DEF later
<1>8. Maximum \in Nat \ {0} /\ n <= Maximum
  BY <1>2, ApplicationAssumption
<1>9. CASE n + 1 > Maximum
  <2>1. /\ Tail(later) \in Seq(Binding) /\ Len(Tail(later)) = n
        /\ \A i \in 1 .. n : Tail(later)[i] = later[i + 1]
    BY <1>2, <1>7
  <2>2. n = Maximum /\ Remembered(q, b) = Tail(later)
    BY <1>2, <1>5, <1>7, <1>8, <1>9
  <2>3. Moved(q, b, Tail(later), p, 1, n)
    BY <1>1, <1>2, <1>7, <2>1, <2>2 DEF Moved, n
  <2>4. QED
    BY <1>2, <2>1, <2>2, <2>3
<1>10. CASE ~(n + 1 > Maximum)
  <2>1. n < Maximum /\ Remembered(q, b) = later
    BY <1>2, <1>5, <1>7, <1>8, <1>10
  <2>2. Moved(q, b, later, p, 0, n)
    BY <1>1, <1>2, <1>7, <2>1 DEF Moved, n
  <2>3. QED
    BY <1>2, <1>7, <2>1, <2>2
<1>11. QED
  BY <1>9, <1>10

\* Remembering keeps the list a list without doubles and the order of all the others;
\* who is dropped has Maximum behind him.
Kept(q, b, s) ==
  /\ NoDoubles(s) /\ Len(s) <= Maximum
  /\ \E j \in 1 .. Len(s) : s[j] = b
  /\ \A i, j \in 1 .. Len(s) : i < j =>
       /\ s[i] # b
       /\ s[j] = b \/ \E k, l \in 1 .. Len(q) : k < l /\ q[k] = s[i] /\ q[l] = s[j]
  /\ \A i \in 1 .. Len(q) : q[i] # b =>
       \/ \E j \in 1 .. Len(s) : s[j] = q[i]
       \/ /\ Len(s) = Maximum
          /\ \A j \in 1 .. Len(s) :
               s[j] = b \/ \E l \in 1 .. Len(q) : i < l /\ q[l] = s[j]

LEMMA RememberedIsKept ==
  ASSUME NEW q \in Seq(Binding), NoDoubles(q), Len(q) <= Maximum, NEW b \in Binding,
         NEW s \in Seq(Binding), s = Remembered(q, b)
  PROVE  Kept(q, b, s)
<1>1. PICK p \in 1 .. Len(q) + 1, k \in {0, 1}, n \in Nat : Moved(q, b, s, p, k, n)
  BY RememberedMoves
<1> DEFINE From(i) == IF i + k < p THEN i + k ELSE i + k + 1
<1>2. /\ Len(q) \in Nat /\ Len(s) \in Nat /\ Len(s) = n + 1 - k
      /\ Len(q) = IF p <= Len(q) THEN n + 1 ELSE n
      /\ \A i \in 1 .. Len(q) : q[i] = b <=> i = p
  BY <1>1 DEF Moved
<1>3. \A i \in 1 .. Len(s) : i + k <= n =>
        From(i) \in 1 .. Len(q) /\ From(i) # p /\ s[i] = q[From(i)] /\ s[i] # b
  BY <1>1, <1>2, SMTT(30) DEF Moved
<1>4. \A i \in 1 .. Len(s) : i + k > n => i = Len(s) /\ s[i] = b
  BY <1>1, <1>2 DEF Moved
<1>5. \A i, j \in 1 .. Len(s) : i < j /\ j + k <= n => From(i) < From(j)
  BY <1>2
<1>6. \A i, j \in 1 .. Len(s) : i < j => i + k <= n
  BY <1>2
<1>7. Len(s) \in 1 .. Len(s) /\ s[Len(s)] = b /\ Len(s) <= Maximum
  BY <1>1, <1>2, ApplicationAssumption, SMTT(30) DEF Moved
<1>8. ASSUME NEW i \in 1 .. Len(s), NEW j \in 1 .. Len(s), i < j
      PROVE  /\ s[i] # b /\ s[i] # s[j]
             /\ s[j] = b \/ \E x, y \in 1 .. Len(q) : x < y /\ q[x] = s[i] /\ q[y] = s[j]
  <2>1. From(i) \in 1 .. Len(q) /\ s[i] = q[From(i)] /\ s[i] # b
    BY <1>3, <1>6, <1>8
  <2>2. CASE j + k > n
    BY <1>4, <2>1, <2>2
  <2>3. CASE j + k <= n
    <3>1. From(j) \in 1 .. Len(q) /\ s[j] = q[From(j)] /\ From(i) < From(j)
      BY <1>3, <1>5, <1>8, <2>3
    <3>2. q[From(i)] # q[From(j)]
      BY <2>1, <3>1 DEF NoDoubles
    <3>3. QED
      BY <2>1, <3>1, <3>2
  <2>4. QED
    BY <1>2, <2>2, <2>3
<1>9. NoDoubles(s)
  BY <1>8, SMTT(30) DEF NoDoubles
<1>10. ASSUME NEW i \in 1 .. Len(q), q[i] # b, \A j \in 1 .. Len(s) : s[j] # q[i]
       PROVE  /\ Len(s) = Maximum
              /\ \A j \in 1 .. Len(s) :
                   s[j] = b \/ \E l \in 1 .. Len(q) : i < l /\ q[l] = s[j]
  <2>1. i # p
    BY <1>2, <1>10
  <2> DEFINE j == IF i < p THEN i - k ELSE i - k - 1
  <2>2. ~(j \in 1 .. Len(s))
    <3>1. ASSUME j \in 1 .. Len(s) PROVE FALSE
      <4>1. j + k <= n /\ From(j) = i
        BY <1>2, <2>1
      <4>2. QED
        BY <1>3, <1>10, <3>1, <4>1
    <3>2. QED
      BY <3>1
  <2>3. k = 1 /\ (i = 1 \/ (p = 1 /\ i = 2))
    BY <1>2, <2>1, <2>2
  <2>4. Len(s) = Maximum
    BY <1>1, <2>3 DEF Moved
  <2>5. ASSUME NEW m \in 1 .. Len(s), s[m] # b
        PROVE  \E l \in 1 .. Len(q) : i < l /\ q[l] = s[m]
    <3>1. m + k <= n
      BY <1>2, <1>4, <2>5
    <3>2. From(m) \in 1 .. Len(q) /\ s[m] = q[From(m)]
      BY <1>3, <3>1
    <3>3. i < From(m)
      BY <1>2, <2>1, <2>3, <3>1
    <3>4. QED
      BY <3>2, <3>3
  <2>6. QED
    BY <2>4, <2>5
<1>11. QED
  BY <1>7, <1>8, <1>9, <1>10 DEF Kept

\* A list without doubles has as many members as places.
LEMMA MembersOfList ==
  ASSUME NEW s \in Seq(Binding), NoDoubles(s)
  PROVE  IsFiniteSet(Range(s)) /\ Cardinality(Range(s)) = Len(s)
<1>1. s \in Surjection(1 .. Len(s), Range(s))
  BY DEF Surjection, Range
<1>2. s \in Injection(1 .. Len(s), Range(s))
  BY DEF Injection, IsInjective, NoDoubles, Range
<1>3. PICK n \in Nat : n = Len(s)
  OBVIOUS
<1>4. IsFiniteSet(1 .. n) /\ Cardinality(1 .. n) = n
  BY FS_Interval
<1>5. QED
  BY <1>1, <1>2, <1>3, <1>4, FS_Surjection

\* Whom the registry holds, in which order, and what the history says of it
ListInv ==
  /\ known \in Seq(Binding) /\ Len(known) <= Maximum /\ NoDoubles(known)
  /\ since \in [Binding -> SUBSET Binding]
  /\ \A b \in Binding : IsFiniteSet(since[b])
  /\ \A i, j \in 1 .. Len(known) : i < j => known[j] \in since[known[i]]

\* A request in hand was taken by this process, which remembered its sender.
HandledInv ==
  /\ inflight \in [Caller -> Binding \cup {NoBinding}]
  /\ phase = "covering" => \A w \in Caller : inflight[w] = NoBinding
  /\ HandledSendersAreKnown

KnownInv == LifeInv /\ ListInv /\ HandledInv

NobodyKnown == known = << >> /\ since = [b \in Binding |-> {}]

LEMMA EmptyList == NobodyKnown => ListInv
<1> SUFFICES ASSUME NobodyKnown PROVE ListInv
  OBVIOUS
<1> USE DEF NobodyKnown
<1>1. known \in Seq(Binding) /\ Len(known) = 0
  OBVIOUS
<1>2. IsFiniteSet({})
  BY FS_EmptySet
<1>3. QED
  BY <1>1, <1>2, ApplicationAssumption DEF ListInv, NoDoubles

LEMMA KnownInit == AppInit => KnownInv
<1> SUFFICES ASSUME AppInit PROVE KnownInv
  OBVIOUS
<1>1. LifeInv
  BY LifeInit
<1>2. ListInv
  BY EmptyList DEF AppInit, NobodyKnown
<1>3. HandledInv
  BY DEF AppInit, HandledInv, HandledSendersAreKnown
<1>4. QED
  BY <1>1, <1>2, <1>3 DEF KnownInv

\* receive_event: the sender is remembered, and every other one has one more behind him.
LEMMA RememberKeeps ==
  ASSUME ListInv, NEW b \in Binding, known' = Remembered(known, b),
         since' = [c \in Binding |-> IF c = b THEN {} ELSE since[c] \cup {b}]
  PROVE  /\ ListInv'
         /\ b \in Range(known')
         /\ \A c \in Binding \ {b} :
              /\ c \in Range(known) =>
                   c \in Range(known') \/ Cardinality(since'[c]) >= Maximum
              /\ Cardinality(since[c]) >= Maximum => Cardinality(since'[c]) >= Maximum
<1>1. known' \in Seq(Binding)
  BY RememberedMoves DEF ListInv
<1>2. Kept(known, b, known')
  BY <1>1, RememberedIsKept DEF ListInv
<1>3. /\ since' \in [Binding -> SUBSET Binding]
      /\ since'[b] = {}
      /\ \A c \in Binding \ {b} : since'[c] = since[c] \cup {b}
  BY DEF ListInv
<1>4. ASSUME NEW c \in Binding PROVE IsFiniteSet(since'[c])
  <2>1. IsFiniteSet(since[c] \cup {b})
    BY FS_AddElement DEF ListInv
  <2>2. QED
    BY <1>3, <2>1, FS_EmptySet
<1>5. ASSUME NEW i \in 1 .. Len(known'), NEW j \in 1 .. Len(known'), i < j
      PROVE  known'[j] \in since'[known'[i]]
  <2>1. known'[i] \in Binding \ {b}
    BY <1>1, <1>2, <1>5 DEF Kept
  <2>2. known'[j] = b \/ known'[j] \in since[known'[i]]
    BY <1>2, <1>5 DEF Kept, ListInv
  <2>3. QED
    BY <1>3, <2>1, <2>2
<1>6. ListInv'
  BY <1>1, <1>2, <1>3, <1>4, <1>5 DEF ListInv, Kept
<1>7. b \in Range(known')
  BY <1>1, <1>2 DEF Range, Kept
<1>8. ASSUME NEW c \in Binding \ {b}, c \in Range(known), c \notin Range(known')
      PROVE  Cardinality(since'[c]) >= Maximum
  <2>1. PICK i \in 1 .. Len(known) : known[i] = c
    BY <1>8 DEF Range, ListInv
  <2>2. /\ Len(known') = Maximum
        /\ \A j \in 1 .. Len(known') :
             known'[j] = b \/ \E l \in 1 .. Len(known) : i < l /\ known[l] = known'[j]
    BY <1>1, <1>2, <1>8, <2>1 DEF Range, Kept
  <2>3. \A l \in 1 .. Len(known) : i < l => known[l] \in since[c]
    BY <2>1 DEF ListInv
  <2>4. Range(known') \subseteq since'[c]
    BY <1>1, <1>3, <2>2, <2>3 DEF Range
  <2>5. IsFiniteSet(Range(known')) /\ Cardinality(Range(known')) = Maximum
    BY <1>1, <1>2, <2>2, MembersOfList DEF Kept
  <2>6. Cardinality(Range(known')) <= Cardinality(since'[c])
    BY <1>4, <2>4, FS_Subset
  <2>7. Cardinality(since'[c]) \in Nat
    BY <1>4, FS_CardinalityType
  <2>8. QED
    BY <2>5, <2>6, <2>7, ApplicationAssumption
<1>9. ASSUME NEW c \in Binding \ {b}, Cardinality(since[c]) >= Maximum
      PROVE  Cardinality(since'[c]) >= Maximum
  <2>1. /\ IsFiniteSet(since[c])
        /\ Cardinality(since[c]) \in Nat
        /\ Cardinality(since'[c]) \in {Cardinality(since[c]), Cardinality(since[c]) + 1}
    BY <1>3, FS_AddElement, FS_CardinalityType DEF ListInv
  <2>2. QED
    BY <1>9, <2>1, ApplicationAssumption
<1>10. QED
  BY <1>6, <1>7, <1>8, <1>9

\* A step that touches neither the list nor the phase, and at most ends a request
LEMMA EndKeeps ==
  ASSUME KnownInv, UNCHANGED <<known, since, phase>>,
         inflight' = inflight \/ \E w \in Caller : inflight' = [inflight EXCEPT ![w] = NoBinding]
  PROVE  ListInv' /\ HandledInv'
<1>1. ListInv'
  BY DEF KnownInv, ListInv
<1>2. inflight' \in [Caller -> Binding \cup {NoBinding}]
      /\ \A w \in Caller : inflight'[w] \in {inflight[w], NoBinding}
  BY DEF KnownInv, HandledInv
<1>3. HandledInv'
  BY <1>2 DEF KnownInv, HandledInv, HandledSendersAreKnown, Knows
<1>4. QED
  BY <1>1, <1>3

LEMMA ArriveKeeps ==
  ASSUME KnownInv, NEW w \in Caller, NEW b \in Binding, Arrive(w, b)
  PROVE  ListInv' /\ HandledInv'
<1>1. phase \in {"up", "closingChannel", "closingProvider", "disposing"} /\ phase' = phase
      /\ (phase = "up" <=> routed) /\ (phase = "up" <=> ingress)
  BY DEF Arrive, KnownInv, LifeInv, lifeVars
<1>2. CASE phase # "up"
  BY <1>1, <1>2, EndKeeps DEF Arrive
<1>3. CASE phase = "up"
  <2>1. /\ known' = Remembered(known, b)
        /\ since' = [c \in Binding |-> IF c = b THEN {} ELSE since[c] \cup {b}]
        /\ inflight' = [inflight EXCEPT ![w] = b]
    BY <1>1, <1>3 DEF Arrive
  <2>2. /\ ListInv'
        /\ b \in Range(known')
        /\ \A c \in Binding \ {b} :
             /\ c \in Range(known) =>
                  c \in Range(known') \/ Cardinality(since'[c]) >= Maximum
             /\ Cardinality(since[c]) >= Maximum => Cardinality(since'[c]) >= Maximum
    BY <2>1, RememberKeeps DEF KnownInv
  <2>3. /\ inflight' \in [Caller -> Binding \cup {NoBinding}]
        /\ \A v \in Caller : inflight'[v] \in {b, inflight[v]}
    BY <2>1 DEF KnownInv, HandledInv
  <2>4. ASSUME NEW v \in Caller, inflight'[v] # NoBinding
        PROVE  inflight'[v] \in Range(known') \/ Cardinality(since'[inflight'[v]]) >= Maximum
    <3>1. CASE inflight'[v] = b
      BY <2>2, <3>1
    <3>2. CASE inflight'[v] # b
      <4>1. inflight'[v] = inflight[v] /\ inflight[v] \in Binding \ {b}
        BY <2>3, <2>4, <3>2 DEF KnownInv, HandledInv
      <4>2. inflight[v] \in Range(known) \/ Cardinality(since[inflight[v]]) >= Maximum
        BY <1>3, <4>1, ApplicationAssumption
           DEF KnownInv, HandledInv, HandledSendersAreKnown, Knows
      <4>3. QED
        BY <2>2, <4>1, <4>2
    <3>3. QED
      BY <3>1, <3>2
  <2>5. HandledInv'
    BY <1>1, <1>3, <2>3, <2>4 DEF HandledInv, HandledSendersAreKnown, Knows
  <2>6. QED
    BY <2>2, <2>5
<1>4. QED
  BY <1>2, <1>3

LEMMA KnownNext == KnownInv /\ [AppNext]_appVars => KnownInv'
<1> SUFFICES ASSUME KnownInv, [AppNext]_appVars PROVE ListInv' /\ HandledInv'
  BY LifeNext DEF KnownInv
<1>1. CASE Launch
  <2>1. known' = known /\ since' = since /\ inflight' = inflight
        /\ \A w \in Caller : inflight[w] = NoBinding
    BY <1>1 DEF Launch
  <2>2. ListInv'
    BY <2>1 DEF KnownInv, ListInv
  <2>3. QED
    BY <2>1, <2>2 DEF KnownInv, HandledInv, HandledSendersAreKnown
<1>2. CASE Covered
  <2>1. known' = known /\ since' = since /\ inflight' = inflight
        /\ \A w \in Caller : inflight[w] = NoBinding
    BY <1>2 DEF Covered, KnownInv, HandledInv
  <2>2. ListInv'
    BY <2>1 DEF KnownInv, ListInv
  <2>3. QED
    BY <2>1, <2>2 DEF KnownInv, HandledInv, HandledSendersAreKnown
<1>3. CASE BeginClose \/ Crash
  <2>1. /\ known' = << >> /\ since' = [b \in Binding |-> {}]
        /\ inflight' = inflight /\ phase' \notin {"up", "covering"}
    BY <1>3 DEF BeginClose, Crash
  <2>2. NobodyKnown'
    BY <2>1 DEF NobodyKnown
  <2>3. ListInv'
    BY <2>2, EmptyList, PTL
  <2>4. QED
    BY <2>1, <2>3 DEF KnownInv, HandledInv, HandledSendersAreKnown
<1>4. CASE ChannelClosed \/ ProviderClosed \/ Disposed
  <2>1. /\ known' = known /\ since' = since /\ inflight' = inflight
        /\ phase' \notin {"up", "covering"}
    BY <1>4 DEF ChannelClosed, ProviderClosed, Disposed
  <2>2. ListInv'
    BY <2>1 DEF KnownInv, ListInv
  <2>3. QED
    BY <2>1, <2>2 DEF KnownInv, HandledInv, HandledSendersAreKnown
<1>5. CASE Probe \/ CompactStep \/ UNCHANGED appVars
  BY <1>5, EndKeeps DEF Probe, CompactStep, appVars, lifeVars
<1>6. CASE \E w \in Caller : EndEarly(w) \/ RequestStep(w)
  <2>1. UNCHANGED <<known, since, phase>>
    BY <1>6 DEF EndEarly, RequestStep, lifeVars
  <2>2. inflight' = inflight \/ \E w \in Caller : inflight' = [inflight EXCEPT ![w] = NoBinding]
    BY <1>6 DEF EndEarly, RequestStep, Follow
  <2>3. QED
    BY <2>1, <2>2, EndKeeps
<1>7. CASE \E w \in Caller, b \in Binding : Arrive(w, b)
  BY <1>7, ArriveKeeps
<1>8. QED
  BY <1>1, <1>2, <1>3, <1>4, <1>5, <1>6, <1>7 DEF AppNext, Lifespan

\* The reply to a message finds its recipient, however long the chat took, unless
\* Maximum others have written since (remember, resolve).
THEOREM HandledAreKnown == AppSpec => []HandledSendersAreKnown
<1>1. KnownInv => HandledSendersAreKnown
  BY DEF KnownInv, HandledInv
<1>2. QED
  BY KnownInit, KnownNext, <1>1, PTL DEF AppSpec

\* The clients and the answer of the probe have their values.
ClientsInv == provider \in Clients /\ channel \in Clients /\ probe \in {"none", "ready"}

LEMMA ClientsNext == ClientsInv /\ [AppNext]_appVars => ClientsInv'
<1> SUFFICES ASSUME ClientsInv, [AppNext]_appVars PROVE ClientsInv'
  OBVIOUS
<1>1. CASE Lifespan \/ Crash
  BY <1>1 DEF Lifespan, Launch, Covered, Serve, RollBack, BeginClose, ChannelClosed,
       ProviderClosed, Disposed, Crash, ClientsInv, Clients
<1>2. CASE Probe \/ CompactStep \/ UNCHANGED appVars
  BY <1>2 DEF Probe, CompactStep, appVars, lifeVars, ClientsInv
<1>3. CASE \E w \in Caller : EndEarly(w) \/ RequestStep(w) \/ \E b \in Binding : Arrive(w, b)
  BY <1>3 DEF EndEarly, RequestStep, Arrive, lifeVars, ClientsInv
<1>4. QED
  BY <1>1, <1>2, <1>3 DEF AppNext

-------------------------------------------------------------------------------
\* Every step of the application is a step of OutboundDelivery or none of its.
LEMMA StepsRefine == [AppNext]_appVars => [OutNext]_outVars
<1> SUFFICES ASSUME [AppNext]_appVars PROVE [OutNext]_outVars
  OBVIOUS
<1>1. CASE Lifespan \/ Crash \/ Probe \/ UNCHANGED appVars
  BY <1>1 DEF Lifespan, Launch, Covered, BeginClose, ChannelClosed, ProviderClosed,
       Disposed, Crash, Probe, appVars
<1>2. ASSUME NEW w \in Caller, RequestStep(w) PROVE OutNext
  BY <1>2 DEF RequestStep, SendReply, OutNext
<1>3. CASE \E w \in Caller : EndEarly(w) \/ \E b \in Binding : Arrive(w, b)
  BY <1>3 DEF EndEarly, Arrive
<1>4. CASE CompactStep
  BY <1>4 DEF CompactStep, OutNext
<1>5. QED
  BY <1>1, <1>2, <1>3, <1>4 DEF AppNext

\* However the application starts, stops and dies around its requests, the table,
\* the callers and the bridge behave as OutboundDelivery says.
THEOREM ApplicationImplementsOutbound == AppSpec => OutSpec
<1>1. AppInit => OutInit
  BY DEF AppInit
<1>2. QED
  BY <1>1, StepsRefine, PTL DEF AppSpec, OutSpec

\* Every variable of the application keeps its type, and the registry its size.
THEOREM ApplicationTypeCorrect == AppSpec => []AppTypeOK
<1>1. AppInit => ClientsInv
  BY DEF AppInit, ClientsInv, Clients
<1>2. OutTypeOK /\ KnownInv /\ ClientsInv => AppTypeOK
  BY DEF KnownInv, LifeInv, ListInv, HandledInv, ClientsInv, AppTypeOK
<1>3. OutSpec => []OutTypeOK
  BY OutboundTypeCorrect
<1>4. AppSpec => [](KnownInv /\ ClientsInv)
  BY KnownInit, KnownNext, ClientsNext, <1>1, PTL DEF AppSpec
<1>5. QED
  BY ApplicationImplementsOutbound, <1>2, <1>3, <1>4, PTL

\* So over any number of restarts the bridge is called at most once for an exchange.
THEOREM OneAttemptOverRestarts == AppSpec => []AtMostOneAttempt
  BY ApplicationImplementsOutbound, OneAttempt

===============================================================================
