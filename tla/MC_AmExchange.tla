---------------------------- MODULE MC_AmExchange ----------------------------
(* Model-checking instance of AmExchange: the ids, branches, messages,     *)
(* calls and endpoints of send_recv are model values (see the .cfg).       *)
EXTENDS AmExchange, TLC

=============================================================================
