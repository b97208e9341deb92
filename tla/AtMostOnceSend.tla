---------------------------- MODULE AtMostOnceSend ----------------------------
(***************************************************************************)
(* What outbound delivery promises for each exchange, without rows,        *)
(* reservations or unique indexes: its reply is attempted at most once; a  *)
(* verdict is recorded at most once, only after the attempt, and says what *)
(* the platform answered; an exchange may be dropped with all it knows.    *)
(***************************************************************************)
CONSTANTS
  Exchange,    \* exchanges whose reply may be sent
  Answer       \* what the platform can answer to an attempt

VARIABLES
  answer,      \* the answer to the one attempt, "none" before it
  verdict      \* the recorded outcome, "none" before, "dropped" after deletion

SendInit ==
  /\ answer = [e \in Exchange |-> "none"]
  /\ verdict = [e \in Exchange |-> "none"]

Attempt(e) ==
  /\ answer[e] = "none"
  /\ \E a \in Answer : answer' = [answer EXCEPT ![e] = a]
  /\ UNCHANGED verdict

Record(e) ==
  /\ answer[e] # "none" /\ verdict[e] = "none"
  /\ verdict' = [verdict EXCEPT ![e] = answer[e]]
  /\ UNCHANGED answer

Drop(E) ==
  /\ E # {}
  /\ verdict' = [e \in Exchange |-> IF e \in E THEN "dropped" ELSE verdict[e]]
  /\ UNCHANGED answer

SendNext ==
  \/ \E e \in Exchange : Attempt(e) \/ Record(e)
  \/ \E E \in SUBSET Exchange : Drop(E)

SendSpec == SendInit /\ [][SendNext]_<<answer, verdict>>

===============================================================================
