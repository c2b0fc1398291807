---------------------------- MODULE RequestScreen ----------------------------
(***************************************************************************)
(* What happens to a request before it is routed: the privacy filter       *)
(* (utils/privacy-filter.ts), the tool judge (utils/tool-judge-sidecar.ts) *)
(* and the removal of tools (utils/tool-blocklist.ts); and the filter's    *)
(* way back on the answer.  A sentinel is the three symbols "[", a mark    *)
(* and "]"; a mapping takes marks to the symbols they stand for.           *)
(***************************************************************************)
EXTENDS Transforms

CONSTANTS
  Secrets,       \* symbols the filter finds
  Marks,         \* sequence of the marks it mints
  BlockedTools,  \* names on the static block list
  JudgeMode,     \* "choice", "noul" or "off"
  MaxBatchTools, \* names in one call of the judge in noul mode
  Threshold      \* a tool is kept above it

ASSUME MarksAssumption == Marks \in Seq(STRING) /\ Cardinality(Secrets) <= Len(Marks)
ASSUME JudgeAssumption ==
  JudgeMode \in {"choice", "noul", "off"} /\ MaxBatchTools \in Nat \ {0} /\ Threshold \in Int

-----------------------------------------------------------------------------
(* Text the filter looks at: not the results of tools in a Claude or       *)
(* Gemini body, and nothing of a Responses body.                           *)
CollectTextRefs(body, block) == body.shape # "responses" /\ block.type \in {"text", "string"}

SecretsIn(body) ==
  {s \in Secrets : \E i \in DOMAIN body.messages : \E j \in DOMAIN body.messages[i].blocks :
     /\ CollectTextRefs(body, body.messages[i].blocks[j])
     /\ s \in ToSet(body.messages[i].blocks[j].words)}

(* One sentinel for one token, wherever it occurs. *)
Minted(found) ==
  LET order == SetToSeq(found)
  IN [m \in {Marks[i] : i \in DOMAIN order} |-> order[CHOOSE i \in DOMAIN order : Marks[i] = m]]

ApplySpans(words, mapping) ==
  FlattenSeq([i \in DOMAIN words |->
    IF \E m \in DOMAIN mapping : mapping[m] = words[i]
    THEN <<"[", CHOOSE m \in DOMAIN mapping : mapping[m] = words[i], "]">>
    ELSE <<words[i]>>])

RedactBody(body, mapping) ==
  [body EXCEPT !.messages = [i \in DOMAIN @ |->
    [@[i] EXCEPT !.blocks = [j \in DOMAIN @ |->
       IF CollectTextRefs(body, @[j]) THEN [@[j] EXCEPT !.words = ApplySpans(@, mapping)] ELSE @[j]]]]]

(* Kompress shortens what users and tools say in a chat or a Claude body;  *)
(* a failed call leaves it.                                                *)
CompressBody(body, filler) ==
  [body EXCEPT !.messages = [i \in DOMAIN @ |->
    IF @[i].role \notin {"user", "tool"} \/ ~HasMessages(body) THEN @[i]
    ELSE [@[i] EXCEPT !.blocks = [j \in DOMAIN @ |->
            IF @[j].type \in {"text", "string", "tool_result"}
            THEN [@[j] EXCEPT !.words = SelectSeq(@, LAMBDA w : w # filler)] ELSE @[j]]]]]

-----------------------------------------------------------------------------
(* Marks without an entry stay.                                            *)
RECURSIVE RestoreText(_, _)
RestoreText(text, mapping) ==
  IF text = <<>> THEN <<>>
  ELSE IF Len(text) >= 3 /\ text[1] = "[" /\ text[2] \in DOMAIN mapping /\ text[3] = "]"
  THEN <<mapping[text[2]]>> \o RestoreText(SubSeq(text, 4, Len(text)), mapping)
  ELSE <<text[1]>> \o RestoreText(Tail(text), mapping)

(* The stream version holds back what may be the beginning of a sentinel:  *)
(* an open one at the end, no longer than a sentinel can be.               *)
MaxSentinelLen == 3
UnboundedHold(buffer) ==
  LET open == Max({0} \cup {i \in DOMAIN buffer : buffer[i] = "["})
  IN IF open # 0 /\ \A i \in open..Len(buffer) : buffer[i] # "]" THEN open ELSE Len(buffer) + 1
HoldNothing(buffer) == Len(buffer) + 1
HoldFrom(buffer) ==
  LET open == Max({0} \cup {i \in DOMAIN buffer : buffer[i] = "["})
  IN IF /\ open # 0
        /\ \A i \in open..Len(buffer) : buffer[i] # "]"
        /\ Len(buffer) - open + 1 <= MaxSentinelLen
     THEN open ELSE Len(buffer) + 1

-----------------------------------------------------------------------------
(* A repeated name is asked about once.                                    *)
ExtractToolRecords(body) ==
  LET first == {i \in DOMAIN body.tools : \A j \in 1..(i - 1) : body.tools[j].name # body.tools[i].name}
  IN [i \in 1..Cardinality(first) |->
        body.tools[CHOOSE k \in first : Cardinality({j \in first : j <= k}) = i].name]

(* The questions of a request: one tool a call, or a batch of them.        *)
JudgeCalls(body) ==
  LET names == ExtractToolRecords(body)
      batch == IF JudgeMode = "choice" THEN 1 ELSE MaxBatchTools
  IN IF JudgeMode = "off" THEN <<>>
     ELSE [i \in 1..((Len(names) + batch - 1) \div batch) |->
             ToSet(SubSeq(names, (i - 1) * batch + 1, Min({i * batch, Len(names)})))]

(* A call that fails, times out or answers something unreadable condemns   *)
(* nothing; neither does an answer without this tool, or of another type.  *)
(* An answer of the right type without a number counts as 0.               *)
Unusable == "unusable"
NoScore == "no score"
ParseResponse(asked, answer) ==
  {t \in asked : /\ answer[t] # Str(Unusable)
                 /\ (IF answer[t] = Str(NoScore) THEN 0 ELSE answer[t].n) <= Threshold}

-----------------------------------------------------------------------------
(* The body without the tools on the block list or condemned; a forced     *)
(* choice of one of them becomes automatic.                                *)
KeepToolChoice(fields, erased) == fields
SanitizeToolChoice(fields, erased) ==
  IF "tool_choice" \in DOMAIN fields /\ fields["tool_choice"].s \in erased
  THEN Put(fields, "tool_choice", Str("auto")) ELSE fields

EraseBlockedTools(body, condemned) ==
  LET erased == BlockedTools \cup condemned
  IN [body EXCEPT !.tools = SelectSeq(@, LAMBDA t : t.name \notin erased),
                  !.fields = SanitizeToolChoice(@, erased)]
=============================================================================
