---------------------------- MODULE AgentSession ----------------------------
(***************************************************************************)
(* The interactive agent session of src/src/agent-session.ts: its pickers; *)
(* the loop that awaits a line, runs `!` lines as shell commands, gives    *)
(* the others to the agent as tasks and waits for the next one; and the    *)
(* callbacks of the terminal and of the agent that interleave with it      *)
(* through module variables (the resolver of the awaited line, the quit    *)
(* and budget flags, the mode of mid-run input).                           *)
(*                                                                         *)
(* A promise of the loop that is pending is a phase; the resolver is live  *)
(* in the phases of Awaiting and stale in every other, where calling it    *)
(* does nothing.  The agent itself is a library: it is modelled by how the *)
(* session uses it (prompt, continue, abort, its two queues, turn_end).    *)
(***************************************************************************)
EXTENDS Integers, Sequences, SequencesExt

CONSTANTS
  MaxLines,        (* bound: lines and escapes the user types                  *)
  Budgets,         (* [tokens, turns] the budget prompt may yield               *)
  Aliases,         (* the configured models                                    *)
  Usages,          (* tokens one turn may report, 0 when it has none            *)
  Unlimited        (* the value of a limit that is undefined                    *)

ASSUME SessionAssumption ==
  /\ MaxLines \in Nat
  /\ Usages \subseteq Nat /\ \E u \in Usages : u > 0
  /\ Unlimited \notin Nat
  /\ \A b \in Budgets :
       /\ b.tokens \in (Nat \ {0}) \cup {Unlimited}
       /\ b.turns \in (Nat \ {0}) \cup {Unlimited}
       /\ b.tokens # Unlimited \/ b.turns # Unlimited

VARIABLES
  phase,           (* which prompt of the setup, or promise of the loop, is pending *)
  alias,           (* activeAlias: the model picked last, whose key calls use  *)
  first,           (* is the loop before its first task                        *)
  task,            (* the line the loop holds across an await, with outputs     *)
  shellOutputs,    (* lines whose output waits to be prepended to a task        *)
  quitRequested, budgetHit, steerMode,
  budget, tokensUsed, turnsUsed,
  agent,           (* the agent: idle, turn, polled or settled                  *)
  aborted,         (* has abort() been called on this run                       *)
  steering, followUps,   (* the agent's queues of lines                         *)
  typed,           (* lines and escapes typed so far                            *)
  prompts,         (* ghost: the tasks the agent was prompted with              *)
  failed           (* ghost: did the last run of the agent reject               *)

flags  == <<quitRequested, budgetHit, steerMode>>
usage  == <<budget, tokensUsed, turnsUsed>>
agentVars == <<agent, aborted, steering, followUps>>
loopVars == <<phase, alias, first, task, shellOutputs>>
ghosts == <<prompts, failed>>
vars == <<loopVars, flags, usage, agentVars, typed, ghosts>>

Kinds == {"text", "shell", "bare", "blank"}     (* bare: a "!" with no command *)
Line  == [id : 1..MaxLines, kind : Kinds]
Null  == [id |-> 0, kind |-> "null"]
Task  == [line : Line \cup {Null}, outputs : Seq(1..MaxLines)]
Prompt == [line : {l \in Line : l.kind # "blank"}, outputs : Seq(1..MaxLines)]
NoTask == [line |-> Null, outputs |-> <<>>]
NoBudget == [tokens |-> Unlimited, turns |-> Unlimited]
NoAlias == "none"

Awaiting == {"first", "await", "skip", "next", "ack"}
SetupPhases == {"dir", "skills", "model", "verify", "schema", "budget"}
Phases   == SetupPhases \cup Awaiting \cup {"shell", "before", "run", "after", "ended"}
isAgentRunning == phase = "run"

NothingTyped(line) == line.kind \in {"null", "blank"}

Init ==
  /\ phase = "dir" /\ alias = NoAlias /\ first = TRUE /\ task = NoTask /\ shellOutputs = <<>>
  /\ quitRequested = FALSE /\ budgetHit = FALSE /\ steerMode = FALSE
  /\ budget = NoBudget /\ tokensUsed = 0 /\ turnsUsed = 0
  /\ agent = "idle" /\ aborted = FALSE /\ steering = <<>> /\ followUps = <<>>
  /\ typed = 0 /\ prompts = <<>> /\ failed = FALSE

-----------------------------------------------------------------------------
(* The setup: a linear run of screens, each of which may be cancelled.  A  *)
(* directory that cannot be used is replaced; without candidates there is  *)
(* no skill picker; without aliases or keys there is no session; a model   *)
(* that does not answer the verification is picked again.  A budget that   *)
(* cannot be parsed is asked for again.                                    *)

ToPhases(from, to) ==
  /\ phase = from
  /\ phase' \in to \cup {"ended"}
  /\ UNCHANGED <<alias, first, task, shellOutputs, flags, usage, agentVars, typed, ghosts>>

AnswerDir  == ToPhases("dir", {"skills", "model"})
PickSkills == ToPhases("skills", {"model"})

PickModel(a) ==
  /\ phase = "model"
  /\ \/ phase' = "verify" /\ alias' = a
     \/ phase' = "ended" /\ UNCHANGED alias
  /\ UNCHANGED <<first, task, shellOutputs, flags, usage, agentVars, typed, ghosts>>

(* The reply of the model, or an error or an empty reply. *)
Verify ==
  /\ phase = "verify"
  /\ phase' \in {"schema", "model"}
  /\ UNCHANGED <<alias, first, task, shellOutputs, flags, usage, agentVars, typed, ghosts>>

(* A cancelled picker of the endpoint keeps the default. *)
PickSchema ==
  /\ phase = "schema"
  /\ phase' = "budget"
  /\ UNCHANGED <<alias, first, task, shellOutputs, flags, usage, agentVars, typed, ghosts>>

EnterBudget(b) ==
  /\ phase = "budget"
  /\ \/ phase' = "first" /\ budget' = b
     \/ phase' = "ended" /\ UNCHANGED budget
  /\ UNCHANGED <<alias, first, task, shellOutputs, flags, tokensUsed, turnsUsed, agentVars, typed, ghosts>>

Setup ==
  \/ AnswerDir \/ PickSkills \/ Verify \/ PickSchema
  \/ \E a \in Aliases : PickModel(a)
  \/ \E b \in Budgets : EnterBudget(b)

-----------------------------------------------------------------------------
(* The task loop: what runs when the awaited line arrives, up to the next  *)
(* await.  These read quitRequested', as the key that quits sets the flag  *)
(* before it resolves the promise.                                         *)

UncheckedLoop(line, outputs) ==
  IF ~budgetHit /\ ~quitRequested'
  THEN /\ phase' = "run" /\ agent' = "turn" /\ aborted' = FALSE /\ failed' = FALSE
       /\ prompts' = Append(prompts, [line |-> line, outputs |-> outputs])
  ELSE phase' = "ended" /\ UNCHANGED <<agent, aborted, prompts, failed>>
LoopOrEnd(line, outputs) ==
  IF ~NothingTyped(line) /\ ~budgetHit /\ ~quitRequested'
  THEN /\ phase' = "run" /\ agent' = "turn" /\ aborted' = FALSE /\ failed' = FALSE
       /\ prompts' = Append(prompts, [line |-> line, outputs |-> outputs])
  ELSE phase' = "ended" /\ UNCHANGED <<agent, aborted, prompts, failed>>

(* The first task waits for the snapshot of the directory; it is taken     *)
(* even when there is no task.                                             *)
Begin(line, outputs) ==
  IF first
  THEN /\ phase' = "before" /\ task' = [line |-> line, outputs |-> outputs]
       /\ UNCHANGED <<agent, aborted, prompts, failed>>
  ELSE LoopOrEnd(line, outputs) /\ UNCHANGED task

AfterShellLines(line, outputs) ==
  IF outputs # <<>> /\ NothingTyped(line) /\ (first \/ ~quitRequested')
  THEN phase' = "skip" /\ UNCHANGED <<task, agent, aborted, prompts, failed>>
  ELSE Begin(line, IF NothingTyped(line) THEN <<>> ELSE outputs)

(* One line through the loop of `!` lines. *)
ShellLoop(line, outputs) ==
  /\ shellOutputs' = outputs
  /\ \/ /\ line.kind = "shell"
        /\ phase' = "shell" /\ task' = [line |-> line, outputs |-> <<>>]
        /\ UNCHANGED <<agent, aborted, prompts, failed>>
     \/ /\ line.kind = "bare"
        /\ phase' = "await" /\ UNCHANGED <<task, agent, aborted, prompts, failed>>
     \/ line.kind \notin {"shell", "bare"} /\ AfterShellLines(line, outputs)

FreshOutputs == IF phase = "next" THEN <<>> ELSE shellOutputs

(* A call of nextTaskResolver: a stale one changes nothing. *)
Resolve(line) ==
  \/ /\ phase \in {"first", "await", "next"}
     /\ ShellLoop(line, FreshOutputs) /\ UNCHANGED <<alias, first>>
  \/ phase = "skip" /\ Begin(line, <<>>) /\ UNCHANGED <<alias, first, shellOutputs>>
  \/ /\ phase = "ack" /\ NothingTyped(line)
     /\ phase' = "ended" /\ UNCHANGED <<alias, first, task, shellOutputs, agent, aborted, ghosts>>
  \/ /\ phase \notin Awaiting \/ (phase = "ack" /\ ~NothingTyped(line))
     /\ UNCHANGED <<loopVars, agent, aborted, ghosts>>

(* The shell command ends: with output, without, or with an error. *)
ShellEnds ==
  /\ phase = "shell"
  /\ phase' = "await"
  /\ shellOutputs' \in {shellOutputs, Append(shellOutputs, task.line.id)}
  /\ task' = NoTask
  /\ UNCHANGED <<alias, first, flags, usage, agentVars, typed, ghosts>>

(* beforeSnapshot is taken: the first task starts, or the session ends. *)
FirstSnapshot ==
  /\ phase = "before"
  /\ UNCHANGED <<alias, shellOutputs, flags, usage, steering, followUps, typed>>
  /\ first' = FALSE /\ task' = NoTask
  /\ LoopOrEnd(task.line, task.outputs)

-----------------------------------------------------------------------------
(* runAgentTurn and the agent.                                             *)

LateExceeded(tokens, turns) ==
  \/ budget.turns # Unlimited /\ turns > budget.turns
  \/ budget.tokens # Unlimited /\ tokens >= budget.tokens
Exceeded(tokens, turns) ==
  \/ budget.turns # Unlimited /\ turns >= budget.turns
  \/ budget.tokens # Unlimited /\ tokens >= budget.tokens

(* The turn_end subscriber.  A session with no turn limit is assumed to use tokens in each turn. *)
TurnEnds(u) ==
  /\ agent = "turn"
  /\ budget.turns = Unlimited => u > 0
  /\ turnsUsed' = turnsUsed + 1
  /\ tokensUsed' = tokensUsed + u
  /\ budgetHit' = (budgetHit \/ Exceeded(tokensUsed', turnsUsed'))
  /\ aborted' = (aborted \/ Exceeded(tokensUsed', turnsUsed'))
  /\ agent' = "polled"
  /\ UNCHANGED <<loopVars, quitRequested, steerMode, budget, steering, followUps, typed, ghosts>>

(* The agent goes on: after tool calls, with a steering line, or, where it *)
(* would stop, with a follow-up; or it stops.  Lines may be left queued: an *)
(* answer in error stops the run at once, and a line may be typed between   *)
(* its last look at the queues and the return of the prompt.               *)
TakeLine ==
  \/ steering # <<>> /\ steering' = Tail(steering) /\ UNCHANGED followUps
  \/ steering = <<>> /\ followUps # <<>> /\ followUps' = Tail(followUps) /\ UNCHANGED steering
AgentTurns ==
  /\ agent = "polled" /\ ~aborted
  /\ agent' = "turn"
  /\ TakeLine \/ UNCHANGED <<steering, followUps>>
  /\ UNCHANGED <<loopVars, flags, usage, aborted, typed, ghosts>>
AgentStops ==
  /\ agent = "polled"
  /\ agent' = "settled"
  /\ UNCHANGED <<loopVars, flags, usage, aborted, steering, followUps, typed, ghosts>>

(* prompt or continue returns: queued lines are run before the turn is over. *)
ReturnOnce ==
  /\ agent = "settled"
  /\ agent' = "idle" /\ phase' = "after"
  /\ UNCHANGED <<alias, first, task, shellOutputs, flags, usage, aborted, steering, followUps, typed, ghosts>>
PromptReturns ==
  /\ agent = "settled"
  /\ IF ~budgetHit /\ ~quitRequested /\ (steering # <<>> \/ followUps # <<>>)
     THEN TakeLine /\ agent' = "turn" /\ UNCHANGED phase
     ELSE agent' = "idle" /\ phase' = "after" /\ UNCHANGED <<steering, followUps>>
  /\ UNCHANGED <<alias, first, task, shellOutputs, flags, usage, aborted, typed, ghosts>>

PromptRejects ==
  /\ agent = "turn"
  /\ agent' = "idle" /\ phase' = "after" /\ failed' = TRUE
  /\ UNCHANGED <<alias, first, task, shellOutputs, flags, usage, aborted, steering, followUps, typed, prompts>>

(* The snapshot after the turn, and where the loop waits next. *)
BudgetFirst == IF budgetHit THEN "ack" ELSE IF quitRequested THEN "ended" ELSE "next"
QuitFirst   == IF quitRequested THEN "ended" ELSE IF budgetHit THEN "ack" ELSE "next"
AfterSnapshot ==
  /\ phase = "after"
  /\ phase' = QuitFirst
  /\ UNCHANGED <<alias, first, task, shellOutputs, flags, usage, agentVars, typed, ghosts>>

-----------------------------------------------------------------------------
(* The user: handleInputSubmit, onEscape and the key that toggles steering. *)

Interactive == phase \notin SetupPhases \cup {"ended"}
Typing == Interactive /\ typed < MaxLines /\ typed' = typed + 1

Queue(id) ==
  IF steerMode THEN steering' = Append(steering, id) /\ UNCHANGED followUps
               ELSE followUps' = Append(followUps, id) /\ UNCHANGED steering

SubmitLine(kind) ==
  /\ Typing
  /\ UNCHANGED <<flags, usage>>
  /\ IF isAgentRunning
     THEN Queue(typed') /\ UNCHANGED <<loopVars, agent, aborted, ghosts>>
     ELSE Resolve([id |-> typed', kind |-> kind]) /\ UNCHANGED <<steering, followUps>>

SubmitQuit ==
  /\ Typing
  /\ quitRequested' = TRUE
  /\ UNCHANGED <<budgetHit, steerMode, usage, steering, followUps>>
  /\ IF isAgentRunning
     THEN aborted' = TRUE /\ UNCHANGED <<loopVars, agent, ghosts>>
     ELSE Resolve(Null)

Escape ==
  /\ Typing
  /\ ~isAgentRunning
  /\ UNCHANGED <<flags, usage, steering, followUps>>
  /\ Resolve(Null)

ToggleSteerMode ==
  /\ Interactive
  /\ steerMode' = ~steerMode
  /\ UNCHANGED <<loopVars, quitRequested, budgetHit, usage, agentVars, typed, ghosts>>

User == SubmitQuit \/ Escape \/ ToggleSteerMode \/ \E k \in Kinds : SubmitLine(k)

Agent == AgentTurns \/ AgentStops \/ PromptReturns \/ PromptRejects \/ \E u \in Usages : TurnEnds(u)

Loop == ShellEnds \/ FirstSnapshot \/ AfterSnapshot

Stopped == phase = "ended" /\ UNCHANGED vars

Next == Setup \/ User \/ Agent \/ Loop \/ Stopped

Spec == Init /\ [][Next]_vars

(* Commands, snapshots and upstream calls end; the user need not type. *)
FairSpec == Spec /\ WF_vars(Loop) /\ WF_vars(Agent)

-----------------------------------------------------------------------------
TypeOK ==
  /\ phase \in Phases /\ alias \in Aliases \cup {NoAlias} /\ first \in BOOLEAN /\ task \in Task
  /\ shellOutputs \in Seq(1..MaxLines)
  /\ quitRequested \in BOOLEAN /\ budgetHit \in BOOLEAN /\ steerMode \in BOOLEAN
  /\ budget \in Budgets \cup {NoBudget} /\ tokensUsed \in Nat /\ turnsUsed \in Nat
  /\ agent \in {"idle", "turn", "polled", "settled"} /\ aborted \in BOOLEAN
  /\ (agent # "idle") = isAgentRunning
  /\ steering \in Seq(1..MaxLines) /\ followUps \in Seq(1..MaxLines)
  /\ typed \in 0..MaxLines /\ prompts \in Seq(Prompt) /\ failed \in BOOLEAN

(* The budget is for the whole session: over every task, follow-up and     *)
(* queued line the agent never takes a turn beyond the turn limit, and     *)
(* overshoots the token limit by less than the usage of one turn.          *)
BudgetIsRespected ==
  /\ budget.turns # Unlimited => turnsUsed <= budget.turns
  /\ budget.tokens # Unlimited =>
       \E last \in Usages \cup {0} : tokensUsed - last < budget.tokens

(* What the user enters is acted on, once and in order.  A line accepted   *)
(* while the agent ran reaches it: when the session waits for the next     *)
(* task after a run that did not fail, no queued line is left, however     *)
(* late it was typed.  And the output of a shell command reaches the agent *)
(* at most once and only with the task typed next, never with a later one. *)
NoLineLeftQueued == phase = "next" /\ ~failed => steering = <<>> /\ followUps = <<>>
OutputsGoWithNextTask ==
  \A i \in 1..Len(prompts) :
    LET outputs == prompts[i].outputs
        since   == IF i = 1 THEN 0 ELSE prompts[i - 1].line.id
    IN  /\ \A k \in 1..Len(outputs) : since < outputs[k] /\ outputs[k] < prompts[i].line.id
        /\ \A k \in 2..Len(outputs) : outputs[k - 1] < outputs[k]
LinesReachTheAgent == NoLineLeftQueued /\ OutputsGoWithNextTask

(* A quit typed while the agent runs ends the session without another key, *)
(* even where the budget is reached in the same run.                       *)
MidRunQuitEnds == (quitRequested /\ isAgentRunning) ~> (phase = "ended")
=============================================================================
