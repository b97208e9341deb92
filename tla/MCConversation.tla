---------------------------- MODULE MCConversation ----------------------------
(***************************************************************************)
(* ConversationRepository on a small instance: one conversation (the       *)
(* statements of two conversations share no row), more deliveries than the *)
(* retention limit, and time for leases and the conversation to expire.    *)
(***************************************************************************)
EXTENDS ConversationRepository

===============================================================================
