---------------------------- MODULE ChannelBinding ----------------------------
(***************************************************************************)
(* The table channel_conversation_bindings and the transactions of         *)
(* PostgresChannelBindingRepository.  A sender's identity is bound to one  *)
(* conversation.  Whoever reserves the row first gets a lease, whose       *)
(* expiry doubles as the token that activate and fail compare.             *)
(***************************************************************************)
EXTENDS Naturals

CONSTANTS
  Identity,           \* HMACs of senders
  Conv,               \* conversation ids
  BindingLeaseTicks   \* binding_lease_seconds

VARIABLE bind         \* the row of every identity

Binding ==
  [status : {"NONE", "BINDING", "ACTIVE", "FAILED"}, lease : Nat,
   conv : Conv \cup {"-"}]

BindInit ==
  bind = [i \in Identity |-> [status |-> "NONE", lease |-> 0, conv |-> "-"]]

\* Somebody else holds the lease: reserve() returns PROCESSING.
Leased(i, now) == bind[i].status = "BINDING" /\ bind[i].lease > now

\* The lease a reservation at `now` is handed.
LeaseAt(now) == now + BindingLeaseTicks

\* Insert the row, or take over one that failed or whose lease has expired.
ReserveTx(i, now) ==
  /\ bind[i].status # "ACTIVE" /\ ~Leased(i, now)
  /\ bind' = [bind EXCEPT ![i] =
       [status |-> "BINDING", lease |-> LeaseAt(now), conv |-> "-"]]

\* Mutation: only the caller's own copy of the lease is looked at.
OwnsByClock(i, lease, now) == lease > now

\* The caller's lease is still the one in the row, and alive at the caller's now.
Owns(i, lease, now) ==
  bind[i].status = "BINDING" /\ bind[i].lease = lease /\ lease > now

ActivateTx(i, lease, c, now) ==
  /\ Owns(i, lease, now)
  /\ bind' = [bind EXCEPT ![i] = [status |-> "ACTIVE", lease |-> 0, conv |-> c]]

FailTx(i, lease, now) ==
  /\ Owns(i, lease, now)
  /\ bind' = [bind EXCEPT ![i] = [status |-> "FAILED", lease |-> 0, conv |-> "-"]]

===============================================================================
