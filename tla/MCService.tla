------------------------------ MODULE MCService ------------------------------
(***************************************************************************)
(* ChannelService for one sender.                                          *)
(***************************************************************************)
EXTENDS ChannelService, TLC

CONSTANT i1

MCIdentityOf == [d \in Delivery |-> i1]

\* Workers, conversation ids and messages are told apart by nothing but their names.
Symmetry == Permutations(Worker) \cup Permutations(Conv) \cup Permutations(Delivery)

===============================================================================
