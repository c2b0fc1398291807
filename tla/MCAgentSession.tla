--------------------------- MODULE MCAgentSession ---------------------------
(* Budgets of turns, of tokens and of both, small enough to be reached.    *)
EXTENDS AgentSession, TLC

MCBudgets ==
  {[tokens |-> Unlimited, turns |-> 2], [tokens |-> 3, turns |-> Unlimited],
   [tokens |-> 3, turns |-> 3]}
=============================================================================
