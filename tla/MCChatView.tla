----------------------------- MODULE MCChatView -----------------------------
(* Instances of ChatView for TLC. *)
EXTENDS ChatView, TLC
=============================================================================
