--------------------------- MODULE ConversationLog ---------------------------
(***************************************************************************)
(* What the conversation store promises, without leases, ordinals or       *)
(* version numbers: one conversation is a log of turns.  At most its last  *)
(* turn is open.  A turn is opened for a delivery that no remembered turn  *)
(* belongs to, and ends by being answered or given up, once.  Answering a  *)
(* turn folds the oldest turns into the rolling summary until Limit turns  *)
(* are remembered; a folded turn has forgotten its delivery.               *)
(***************************************************************************)
EXTENDS Naturals, Sequences

CONSTANTS
  Delivery,   \* idempotency keys of inbound messages
  Limit       \* turns that stay remembered after an answer

VARIABLES
  log,        \* sequence of turns, oldest first
  folded      \* how many of the oldest turns live in the summary only

Turn ==
  [state : {"open", "answered", "given_up"}, delivery : Delivery]
    \cup {[state |-> "folded"]}

LogInit == log = << >> /\ folded = 0

Remembered == {log[n].delivery : n \in folded + 1 .. Len(log)}

LastOpen == log # << >> /\ log[Len(log)].state = "open"

\* What is left of the log once its oldest n turns are folded.
Fold(s, n) ==
  [k \in DOMAIN s |-> IF k <= n THEN [state |-> "folded"] ELSE s[k]]

\* The open turn ends without an answer.
GivenUp(s) == [s EXCEPT ![Len(s)].state = "given_up"]

Open(d) ==
  /\ ~LastOpen
  /\ d \notin Remembered
  /\ log' = Append(log, [state |-> "open", delivery |-> d])
  /\ UNCHANGED folded

GiveUp ==
  /\ LastOpen
  /\ log' = GivenUp(log)
  /\ UNCHANGED folded

\* A reservation gives up the stale open turn and opens its own in one step.
Replace(d) ==
  /\ LastOpen
  /\ d \notin Remembered
  /\ log' = Append(GivenUp(log), [state |-> "open", delivery |-> d])
  /\ UNCHANGED folded

Answer ==
  /\ LastOpen
  /\ folded' = IF Len(log) - folded > Limit THEN Len(log) - Limit ELSE folded
  /\ log' = Fold([log EXCEPT ![Len(log)].state = "answered"], folded')

\* Retention removes the whole conversation; it never comes back.
Forget == log' = << >> /\ folded' = 0

LogNext ==
  \/ \E d \in Delivery : Open(d) \/ Replace(d)
  \/ GiveUp
  \/ Answer
  \/ Forget

LogSpec == LogInit /\ [][LogNext]_<<log, folded>>

==============================================================================
