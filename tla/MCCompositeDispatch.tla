------------------------- MODULE MCCompositeDispatch -------------------------
(* One alias of two targets, configured as a primary with a larger share or as a chain of two
   fallbacks, and two requests in flight. *)
EXTENDS CompositeDispatch, TLC

CONSTANTS a, b, r1, r2

MCTargets == {a, b}
MCRequests == {r1, r2}
MCPosition == a :> 1 @@ b :> 2
MCConfigs == {"primary", "fallbacks"}
MCPrimaryOf == [c \in MCConfigs |-> IF c = "primary" THEN a ELSE NoTarget]
MCFallbackOf ==
  [c \in MCConfigs |-> IF c = "fallbacks" THEN a :> 2 @@ b :> 1 ELSE a :> 0 @@ b :> 1]
MCRaisedShareOf ==
  [c \in MCConfigs |-> IF c = "primary" THEN a :> 80 @@ b :> 40 ELSE a :> 40 @@ b :> 40]
=============================================================================
