----------------------------- MODULE AliasChoice -----------------------------
(***************************************************************************)
(* Which plan a request gets for the name it asks for (index.ts,           *)
(* config-loader.ts, coordinator.ts): the ladder of the auth server, one   *)
(* route, the candidates of a composite alias in some order, or the        *)
(* planner or executor of a coordinator.  Fusion has its own module.       *)
(*                                                                         *)
(* An alias is [ladder, entries, triggers, decides]: entries a sequence of *)
(* [route, role, rank, able], ladder TRUE when the auth server sent the    *)
(* targets, triggers the tools that hand a conversation to the executor,   *)
(* decides TRUE when a decision service is configured.  A name that is no  *)
(* alias has one entry, without role or rank.                              *)
(***************************************************************************)
EXTENDS SequencesExt, FiniteSetsExt

CONSTANTS
  AnyTool,    \* triggers of an alias whose toolset is empty
  TailLimit   \* assistant messages in which a hand-off is looked for

ASSUME TailAssumption == TailLimit \in Nat \ {0}

Plan(kind, routes) == [kind |-> kind, routes |-> routes]
Refused400 == Plan("refused", <<>>)
RoutesOf(entries) == [i \in DOMAIN entries |-> entries[i].route]
InRole(entries, roles) == SelectSeq(entries, LAMBDA e : e.role \in roles)

CoordRoles == {"planner", "executor"}
FusionRoles == {"panel", "judge", "synth"}
AliasMode(alias) ==
  CASE InRole(alias.entries, CoordRoles) # <<>> -> "coordinator"
    [] \E i \in DOMAIN alias.entries : alias.entries[i].rank \in {"primary", "fallback"} -> "fallback"
    [] OTHER -> "share"

-----------------------------------------------------------------------------
(* A conversation is with its executor when one of its last assistant      *)
(* messages calls a trigger.  Calls count as Claude writes them only: a    *)
(* chat, Responses or Gemini body never leaves the planner.                *)
AssistantsAfter(messages, i) ==
  Cardinality({j \in DOMAIN messages : j > i /\ messages[j].role = "assistant"})

DetectCoordinatorStage(body, triggers) ==
  IF /\ body.shape = "claude"
     /\ \E i \in DOMAIN body.messages :
          /\ body.messages[i].role = "assistant"
          /\ AssistantsAfter(body.messages, i) < TailLimit
          /\ \E j \in DOMAIN body.messages[i].blocks :
               LET b == body.messages[i].blocks[j]
               IN b.type = "tool_use" /\ (triggers = AnyTool \/ b.words[1] \in triggers)
  THEN "executor" ELSE "planner"

(* One planner and one executor, and nothing of a fusion: anything else    *)
(* is thrown, and answered as if the body could not be read.               *)
ResolveCoordinatorPlan(alias, body) ==
  LET stage == InRole(alias.entries, {DetectCoordinatorStage(body, alias.triggers)})
  IN IF \/ \E r \in CoordRoles : Len(InRole(alias.entries, {r})) # 1
        \/ InRole(alias.entries, FusionRoles) # <<>>
     THEN Refused400 ELSE Plan("composite", RoutesOf(stage))

-----------------------------------------------------------------------------
(* The decision service is asked with one question, its criteria in a      *)
(* record by target; the adapter, shared with the tool judge, walks        *)
(* criteria as a list, so the call throws before it is made and its        *)
(* caller sees no answer: whatever the service would say, the candidates   *)
(* keep their order.                                                       *)
NoDecision == "none"
DecisionQuestion == [criteria |-> "record"]
AdaptToClefRequest(question) == question.criteria = "list"
CallDecisionApi(question, choice) == IF AdaptToClefRequest(question) THEN choice ELSE NoDecision

FirstOf(entries, i) == <<entries[i]>> \o RemoveAt(entries, i)
Decisions(entries) == {entries[i].route.model : i \in DOMAIN entries} \cup {NoDecision}

ResolveWithDecision(alias, candidates, choice) ==
  LET said == CallDecisionApi(DecisionQuestion, choice)
      named == {i \in DOMAIN candidates : candidates[i].route.model = said}
  IN IF alias.decides /\ (\E i \in DOMAIN candidates : candidates[i].able) /\ named # {}
     THEN FirstOf(candidates, Min(named)) ELSE candidates

(* Any candidate may come first, by its share or because the ones before   *)
(* it have lost theirs (CompositeDispatch); the rest keep their order.     *)
Ordered(entries) == {FirstOf(entries, i) : i \in DOMAIN entries}

(* A chat completion gets one route, whatever the alias: the first in      *)
(* rank, or any without ranks, a coordinator's planner and executor alike. *)
ChatRoutes(alias) ==
  IF AliasMode(alias) = "fallback" THEN {alias.entries[1].route} ELSE ToSet(RoutesOf(alias.entries))

PlansFor(front, alias, body) ==
  CASE alias.ladder -> {Plan("ladder", RoutesOf(alias.entries))}
    [] ~alias.ladder /\ front = "chat-completions" -> {Plan("single", <<r>>) : r \in ChatRoutes(alias)}
    [] ~alias.ladder /\ front # "chat-completions" /\ AliasMode(alias) = "coordinator" ->
         {ResolveCoordinatorPlan(alias, body)}
    [] OTHER ->
         {Plan("composite", RoutesOf(c)) :
            c \in UNION {Ordered(ResolveWithDecision(alias, alias.entries, choice)) : choice \in Decisions(alias.entries)}}
=============================================================================
