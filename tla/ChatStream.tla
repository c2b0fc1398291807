----------------------------- MODULE ChatStream -----------------------------
(***************************************************************************)
(* The converters of a chat-completions stream: to Claude events           *)
(* (src/src/converters/streaming.ts) and to Responses events               *)
(* (streamCompletionsAsResponses of src/src/handlers/responses.ts).  Both  *)
(* read lines that the network may cut and group in any way, open a block  *)
(* when its first part arrives, hold back text that may be part of a       *)
(* thinking tag, and close what is open at the end.                        *)
(*                                                                         *)
(* Text is a sequence of pieces: "t" is text, "<" and ">" are whole        *)
(* thinking tags, "p" is text with a '<' that no '>' follows in its line.  *)
(* The id of a piece is the order in which it came from the upstream.      *)
(***************************************************************************)
EXTENDS Integers, Sequences, FiniteSets, SequencesExt, StreamReader

CONSTANTS
  Targets,        (* the client's format: "claude", "responses"                *)
  Contents,       (* the texts one line may bring, as sequences of marks       *)
  Reasoning,      (* may the upstream send reasoning_content                   *)
  Tools,          (* the tool-call indices the upstream uses                   *)
  MaxLines        (* bound: data lines of the upstream                         *)

ASSUME StreamAssumption ==
  /\ Targets \subseteq {"claude", "responses"}
  /\ Contents \subseteq Seq({"t", "<", ">", "p"})
  /\ Reasoning \in BOOLEAN /\ MaxLines \in Nat /\ IsFiniteSet(Tools)

VARIABLES
  target,
  ended,          (* no, done, flushed or broken                               *)
  reader,         (* the client                                                *)
  lines, pieces,  (* data lines and pieces received                            *)
  held,           (* accumulatedThinkingContent, thinkBuffer                   *)
  text, thought,  (* ids sent as text, and as thinking (or accumulatedReasoning) *)
  textBlock, thinkingBlock,   (* their indices, None until opened              *)
  next,           (* the next free index: contentBlockIndex + 1, nextOutputIndex *)
  tools,          (* toolCalls: what came of each call, and what was sent      *)
  last,           (* the finish_reason of the last data line                   *)
  usage,          (* the usage kept for the end                                *)
  stop,           (* the stop_reason sent                                      *)
  sent            (* ghost: what the upstream sent: ids, usage, finish reasons,
                     and from which id on its text is in an unclosed tag       *)

vars == <<target, ended, reader, lines, pieces, held, text, thought, textBlock, thinkingBlock,
          next, tools, last, usage, stop, sent>>

None == -1
Piece == [mark : {"t", "<", ">", "p"}, id : Nat]
NoTool == [id |-> FALSE, name |-> FALSE, block |-> None, whole |-> FALSE, args |-> <<>>, out |-> <<>>]
Claude == target = "claude"

Fresh(client) ==
  /\ ended = "no" /\ lines = 0 /\ pieces = 0
  /\ reader = client
  /\ held = <<>> /\ text = <<>> /\ thought = <<>>
  /\ textBlock = None /\ thinkingBlock = None /\ next = 0
  /\ tools = [t \in Tools |-> NoTool]
  /\ last = "none" /\ usage = 0 /\ stop = "none"
  /\ sent = [texts |-> {}, reasoning |-> {}, unclosed |-> 0, usage |-> 0, finishes |-> {}]
Init ==
  /\ target \in Targets
  /\ Fresh(IF Claude THEN NewReader ELSE Read(NewReader, Start))

(* The Claude converter starts the message, and its text block, with the   *)
(* first bytes it receives.                                                *)
Opening == IF Claude /\ reader.phase = "before" THEN <<Start, Add(0)>> ELSE <<>>
FirstText == IF Claude THEN 0 ELSE textBlock
FirstNext == IF Claude /\ reader.phase = "before" THEN 1 ELSE next

Receive(events) == reader' = ReadAll(reader, Opening \o events)

(* What every data line does first. *)
Line(reports, finish) ==
  /\ ended = "no" /\ lines < MaxLines
  /\ lines' = lines + 1
  /\ last' = finish
  /\ usage' = IF reports > 0 THEN reports ELSE usage
  /\ UNCHANGED <<target, ended, stop>>

-----------------------------------------------------------------------------
(* Text.  Complete blocks between tags are thoughts; what is before one is *)
(* text; what follows the last one is the rest, which may hold an open tag.*)

ids(s) == [k \in 1..Len(s) |-> s[k].id]
WithoutTags(s) == SelectSeq(s, LAMBDA p : p.mark \in {"t", "p"})

Split(s) ==
  FoldLeft(
    LAMBDA a, p :
      CASE ~a.inside /\ p.mark = "<" -> [a EXCEPT !.inside = TRUE, !.pending = <<p>>]
        [] ~a.inside /\ p.mark # "<" -> [a EXCEPT !.rest = Append(@, p)]
        [] a.inside /\ p.mark # ">" -> [a EXCEPT !.pending = Append(@, p)]
        [] OTHER -> [inside |-> FALSE, plain |-> a.plain \o a.rest, rest |-> <<>>,
                     thoughts |-> a.thoughts \o a.pending, pending |-> <<>>, found |-> TRUE],
    [inside |-> FALSE, plain |-> <<>>, rest |-> <<>>, thoughts |-> <<>>, pending |-> <<>>, found |-> FALSE],
    s)

(* processThinkingExtraction holds a rest with an open tag; the Responses  *)
(* converter only a rest whose last '<' is not followed by '>'.            *)
HeldClaude(s) == IF Split(s).inside THEN Split(s).rest \o Split(s).pending ELSE <<>>
HeldResponses(s) ==
  LET rest == Split(s).rest \o Split(s).pending
      open == {k \in 1..Len(rest) : rest[k].mark # "t"}
      from == CHOOSE k \in open : \A j \in open : j <= k
  IN  IF open # {} /\ rest[from].mark = "p" THEN SubSeq(rest, from, Len(rest)) ELSE <<>>
Held(s) == IF Claude THEN HeldClaude(s) ELSE HeldResponses(s)

Shown(s, h) ==
  Split(s).plain \o SubSeq(Split(s).rest \o Split(s).pending, 1,
                           Len(Split(s).rest) + Len(Split(s).pending) - Len(h))

(* A line of plain text passes the Claude converter untouched when nothing *)
(* is held.                                                                *)
Untouched(s) == Claude /\ held = <<>> /\ \A k \in 1..Len(s) : s[k].mark \notin {"<", ">"}

(* Where the upstream's text since its last closed tag begins, if a tag it *)
(* opened is still not closed; 0 if none is.                               *)
UnclosedSince(since, new) ==
  LET after == FoldLeft(
        LAMBDA a, p :
          CASE ~a.inside /\ p.mark = "<" -> [a EXCEPT !.inside = TRUE]
            [] a.inside /\ p.mark = ">" -> [inside |-> FALSE, since |-> p.id]
            [] OTHER -> a,
        [inside |-> since # 0, since |-> IF since # 0 THEN since ELSE Head(new).id], new)
  IN  IF after.inside THEN after.since ELSE 0

ThinkingEvents(found, from) ==
  IF ~Claude \/ ~found THEN <<>>
  ELSE (IF thinkingBlock = None THEN <<Add(from)>> ELSE <<>>)
         \o <<Delta(IF thinkingBlock = None THEN from ELSE thinkingBlock)>>
OpensThinking(found) == Claude /\ found /\ thinkingBlock = None

TextEvents(shown, at) ==
  IF shown = <<>> THEN <<>>
  ELSE (IF ~Claude /\ textBlock = None THEN <<Add(at)>> ELSE <<>>) \o <<Delta(at)>>
OpensText(shown) == ~Claude /\ textBlock = None /\ shown # <<>>

Content(c) ==
  LET new   == [k \in 1..Len(c) |-> [mark |-> c[k], id |-> pieces + k]]
      all   == IF Untouched(new) THEN new ELSE held \o new
      h     == IF Untouched(new) THEN <<>> ELSE Held(all)
      shown == IF Untouched(new) THEN new ELSE Shown(all, h)
      found == ~Untouched(new) /\ Split(all).found
      at    == IF Claude THEN 0 ELSE IF textBlock = None THEN next ELSE textBlock
  IN  /\ Line(0, "none")
      /\ pieces' = pieces + Len(c)
      /\ held' = h
      /\ text' = text \o ids(WithoutTags(shown))
      /\ thought' = thought \o ids(WithoutTags(Split(all).thoughts))
      /\ Receive(ThinkingEvents(found, FirstNext) \o TextEvents(shown, at))
      /\ textBlock' = IF Claude \/ shown # <<>> THEN at ELSE textBlock
      /\ thinkingBlock' = IF OpensThinking(found) THEN FirstNext ELSE thinkingBlock
      /\ next' = IF OpensThinking(found) \/ OpensText(shown) THEN FirstNext + 1 ELSE FirstNext
      /\ sent' = [sent EXCEPT !.texts = @ \cup Range(ids(WithoutTags(new))),
                              !.unclosed = UnclosedSince(@, new)]
      /\ UNCHANGED tools

(* reasoning_content: the Claude converter also puts it in front of the    *)
(* text it accumulates for tags.                                           *)
ReasoningContent ==
  LET new == [mark |-> "t", id |-> pieces + 1] IN
  /\ Reasoning
  /\ Line(0, "none")
  /\ pieces' = pieces + 1
  /\ thought' = Append(thought, new.id)
  /\ held' = IF Claude THEN Append(held, new) ELSE held
  /\ Receive(ThinkingEvents(TRUE, FirstNext))
  /\ textBlock' = FirstText
  /\ thinkingBlock' = IF OpensThinking(TRUE) THEN FirstNext ELSE thinkingBlock
  /\ next' = IF OpensThinking(TRUE) THEN FirstNext + 1 ELSE FirstNext
  /\ sent' = [sent EXCEPT !.reasoning = @ \cup {new.id}]
  /\ UNCHANGED <<text, tools>>

-----------------------------------------------------------------------------
(* Tool calls: the Claude converter opens the block when id and name are   *)
(* known, the Responses converter with the first fragment.                 *)

Opens(t, id, name) ==
  /\ tools[t].block = None
  /\ Claude => (tools[t].id \/ id) /\ (tools[t].name \/ name)

Goes(t, block, args) == args /\ block # None

ToolCall(t, id, name, args) ==
  LET opens == Opens(t, id, name)
      block == IF opens THEN FirstNext ELSE tools[t].block
      new   == IF args THEN <<pieces + 1>> ELSE <<>>
      goes  == Goes(t, block, args)
  IN  /\ Line(0, "none")
      /\ pieces' = pieces + Len(new)
      /\ tools' = [tools EXCEPT ![t] =
           [id |-> @.id \/ id, name |-> @.name \/ name, block |-> block,
            whole |-> IF @ = NoTool THEN opens ELSE @.whole,
            args |-> @.args \o new, out |-> IF goes THEN @.out \o new ELSE @.out]]
      /\ Receive((IF opens THEN <<Add(block)>> ELSE <<>>) \o (IF goes THEN <<Delta(block)>> ELSE <<>>))
      /\ next' = IF opens THEN FirstNext + 1 ELSE FirstNext
      /\ textBlock' = FirstText
      /\ UNCHANGED <<held, text, thought, thinkingBlock, sent>>

(* A line with a finish reason and no content, or one with the usage and   *)
(* no choices; some upstreams send both in one line.                       *)
Report(u, finish) ==
  /\ Line(u, finish)
  /\ Receive(<<>>)
  /\ sent' = [sent EXCEPT !.usage = IF u > 0 THEN u ELSE @,
                          !.finishes = IF finish = "none" THEN @ ELSE @ \cup {finish}]
  /\ textBlock' = FirstText /\ next' = FirstNext
  /\ UNCHANGED <<pieces, held, text, thought, thinkingBlock, tools>>

-----------------------------------------------------------------------------
(* The end.                                                                *)

OpenedTools == {t \in Tools : tools[t].block # None}
CloseTools == [k \in 1..Cardinality(OpenedTools) |->
  Close(SetToSortSeq({tools[t].block : t \in OpenedTools}, <)[k])]
ForgetsThinking ==
  (IF FirstText # None THEN <<Close(FirstText)>> ELSE <<>>) \o CloseTools \o <<End>>
ClosingEvents ==
  (IF FirstText # None THEN <<Close(FirstText)>> ELSE <<>>)
    \o (IF thinkingBlock # None THEN <<Delta(thinkingBlock), Close(thinkingBlock)>> ELSE <<>>)
    \o CloseTools \o <<End>>

HasToolCalls == \E t \in Tools : tools[t] # NoTool

FinishOnly(seen) ==
  CASE seen = "tool_calls" -> "tool_use"
    [] seen = "length" -> "max_tokens"
    [] OTHER -> "end_turn"
Untranslated(seen) == IF seen # "none" THEN seen ELSE IF HasToolCalls THEN "tool_use" ELSE "end_turn"

(* The stop reason after [DONE]: only a data line that came in the same    *)
(* read as [DONE] is looked at.                                            *)
StopReason(seen) ==
  CASE seen = "tool_calls" -> "tool_use"
    [] seen = "length" -> "max_tokens"
    [] seen = "content_filter" -> "content_filter"
    [] OTHER -> IF HasToolCalls THEN "tool_use" ELSE "end_turn"

ForgetsLeftover == <<>>
(* What is held at the end.  The Responses converter puts it behind the    *)
(* text its closing events repeat, if it ever opened the text part; the    *)
(* Claude converter never looks at it again.                               *)
Leftover == IF ~Claude /\ textBlock # None THEN ids(WithoutTags(held)) ELSE <<>>
Closing ==
  /\ Receive(ClosingEvents)
  /\ text' = text \o Leftover
  /\ held' = <<>>

(* [DONE] ends the Claude stream at once; the Responses converter passes   *)
(* over it and waits for the end of the upstream.                          *)
Done ==
  /\ ended = "no" /\ Claude
  /\ ended' = "done"
  /\ Closing
  /\ \E seen \in {last, "none"} : stop' = StopReason(seen)
  /\ UNCHANGED <<target, lines, pieces, thought, textBlock, thinkingBlock, next, tools, last, usage,
                 sent>>

UpstreamEnds ==
  /\ ended = "no"
  /\ ended' = "flushed"
  /\ IF Claude /\ reader.phase = "before" THEN UNCHANGED <<reader, text, held, stop>>
     ELSE /\ Closing
          /\ stop' = IF ~Claude THEN "completed" ELSE IF HasToolCalls THEN "tool_use" ELSE "end_turn"
  /\ UNCHANGED <<target, lines, pieces, thought, textBlock, thinkingBlock, next, tools, last, usage,
                 sent>>

UpstreamBreaks ==
  /\ ended = "no"
  /\ ended' = "broken"
  /\ UNCHANGED <<target, reader, lines, pieces, held, text, thought, textBlock, thinkingBlock, next,
                 tools, last, usage, stop, sent>>

Over == ended # "no" /\ UNCHANGED vars

Next ==
  \/ Done \/ UpstreamEnds \/ UpstreamBreaks \/ Over \/ ReasoningContent
  \/ \E c \in Contents : Content(c)
  \/ \E t \in Tools : \E id, name, args \in BOOLEAN : (id \/ name \/ args) /\ ToolCall(t, id, name, args)
  \/ \E u \in 0..2, f \in {"none", "stop", "length", "content_filter", "tool_calls"} : Report(u, f)

Spec == Init /\ [][Next]_vars

-----------------------------------------------------------------------------
TypeOK ==
  /\ ended \in {"no", "done", "flushed", "broken"}
  /\ reader \in Readers
  /\ lines \in 0..MaxLines /\ pieces \in Nat
  /\ held \in Seq(Piece) /\ text \in Seq(Nat) /\ thought \in Seq(Nat)
  /\ {textBlock, thinkingBlock} \subseteq Nat \cup {None} /\ next \in Nat
  /\ \A t \in Tools : tools[t].block \in Nat \cup {None}
  /\ last \in {"none", "stop", "length", "content_filter", "tool_calls"} /\ usage \in 0..2
  /\ stop \in {"none", "end_turn", "max_tokens", "content_filter", "tool_use", "completed"}

(* However the lines come, the client gets a well-formed stream: each      *)
(* block is opened once, at the next index, and closed once, and nothing   *)
(* follows the end; and a stream that ends without an error is complete.   *)
WellFormed ==
  /\ reader.phase # "broken"
  /\ ended = "done" => reader.phase = "ended"
  /\ ended = "flushed" => reader.phase = "ended" \/ (Claude /\ lines = 0)

Sorted(s) == \A i, j \in 1..Len(s) : i < j => s[i] < s[j]

(* Every piece of text reaches the client once and in order, as text or as *)
(* a thought: until the stream ends what is held waits for it, and once it *)
(* has ended nothing waits.  Two losses are the code's and are excepted by *)
(* name.  The Claude converter drops at [DONE] and at the end what came    *)
(* since the last closed tag when a tag was left open; the Responses       *)
(* converter drops what it holds when it never opened a text part, which   *)
(* is all the text there was.  (The Claude converter breaks the rest when  *)
(* there is reasoning_content.)                                            *)
DroppedAtEnd ==
  CASE Claude -> IF sent.unclosed = 0 THEN {} ELSE {i \in sent.texts : i >= sent.unclosed}
    [] OTHER -> IF textBlock = None THEN sent.texts ELSE {}
TextConserved ==
  LET over    == ended \in {"done", "flushed"}
      waiting == IF over THEN <<>> ELSE ids(WithoutTags(held))
      reached == Range(thought) \cup Range(text \o waiting)
      all     == sent.texts \cup sent.reasoning
  IN  ~(Claude /\ sent.reasoning # {}) =>
        /\ Sorted(text \o waiting) /\ Sorted(thought)
        /\ Range(thought) \cap Range(text \o waiting) = {}
        /\ reached \subseteq all /\ all \ reached \subseteq (IF over THEN DroppedAtEnd ELSE {})

(* The arguments of a tool call reach the client in order and without a    *)
(* gap; all of them, when the block is opened with the first fragment.     *)
ToolInputDelivered ==
  \A t \in Tools : tools[t].block # None =>
    /\ IsSuffix(tools[t].out, tools[t].args)
    /\ tools[t].whole => tools[t].out = tools[t].args

(* The end reports the usage the upstream reported last, in whichever line *)
(* and read it came.                                                       *)
UsageReported == ended \in {"done", "flushed"} => usage = sent.usage

(* A truncation or a filter is only reported if there was one; and a       *)
(* message with a tool block is never reported as a finished turn.         *)
StopReasonSound ==
  /\ stop = "max_tokens" => "length" \in sent.finishes
  /\ stop = "content_filter" => "content_filter" \in sent.finishes
  /\ stop = "end_turn" => OpenedTools = {}
  /\ stop = "tool_use" => HasToolCalls \/ "tool_calls" \in sent.finishes
=============================================================================
