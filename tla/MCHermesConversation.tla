-------------------------- MODULE MCHermesConversation --------------------------
(* HermesConversation on small instances. *)
EXTENDS HermesConversation
=============================================================================
