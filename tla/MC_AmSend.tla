------------------------------ MODULE MC_AmSend ------------------------------
(* Model-checking instance of AmSend.  Two calls, two held messages and   *)
(* one endpoint let a call race another call's completion, a reply go to  *)
(* a closed reply_ep, and a close wait for a borrowing send.              *)
EXTENDS AmSend, TLC

AllOutcomes == {"now", "later", "fail"}
AllStatuses == {"ok", "err"}

=============================================================================
