------------------------- MODULE MCConversationState -------------------------
(* Four turns, at most two conversations, and a store of four entries. *)
EXTENDS ConversationState, TLC

CONSTANTS r1, r2, r3, r4, c1, c2

MCRequests == {r1, r2, r3, r4}
MCConversations == {c1, c2}
MCSymmetry == Permutations(MCRequests) \cup Permutations(MCConversations)
=============================================================================
