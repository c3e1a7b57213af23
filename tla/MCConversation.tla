--------------------------- MODULE MCConversation ---------------------------
(* Instances of Conversation: pages of one message. *)
EXTENDS Conversation
=============================================================================
