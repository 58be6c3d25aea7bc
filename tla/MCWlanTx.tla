------------------------------ MODULE MCWlanTx ------------------------------
(* Instances of WlanTx for TLC: the bounds of the rarer events. *)
EXTENDS WlanTx

CONSTANTS Mngs, Retries, Fails, Watches, Cancels

MCBudget == [b \in Bounded |->
    CASE b = "mng" -> Mngs [] b = "retry" -> Retries [] b = "fail" -> Fails
      [] b = "watch" -> Watches [] b = "cancel" -> Cancels]

=============================================================================
