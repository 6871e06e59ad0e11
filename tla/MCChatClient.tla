---------------------------- MODULE MCChatClient ----------------------------
(* Small instances of ChatClient: one answer. *)
EXTENDS ChatClient, TLC

CONSTANT g1
=============================================================================
