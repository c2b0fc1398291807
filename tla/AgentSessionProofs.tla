------------------------- MODULE AgentSessionProofs -------------------------
(* Proofs about the agent session, for any number of lines, any budgets, models and usages. *)
EXTENDS AgentSession, TLAPS

(* A shell command that runs was given by a line, and there is none before the setup is over. *)
TaskInv ==
  /\ phase = "shell" => task.line \in Line
  /\ phase \in SetupPhases => shellOutputs = <<>>

(* What the budget means at each place: the flag is up when the budget is used up, no turn runs with
   the flag up, and an agent that would go on has been told to stop. *)
BudgetInv ==
  /\ phase \in SetupPhases => tokensUsed = 0 /\ turnsUsed = 0 /\ ~budgetHit
  /\ Exceeded(tokensUsed, turnsUsed) => budgetHit
  /\ agent = "turn" => ~budgetHit
  /\ agent = "polled" /\ budgetHit => aborted
  /\ BudgetIsRespected

(* The queues are empty from the return of a run that may be followed by another one. *)
QueueInv ==
  /\ phase = "after" /\ ~failed /\ ~budgetHit /\ ~quitRequested => steering = <<>> /\ followUps = <<>>
  /\ NoLineLeftQueued

(* The outputs that wait are of lines typed after the last task and before the line being handled. *)
LastId == IF prompts = <<>> THEN 0 ELSE prompts[Len(prompts)].line.id
Between(s, lo, hi) ==
  /\ \A k \in 1..Len(s) : lo < s[k] /\ s[k] < hi
  /\ \A k \in 2..Len(s) : s[k - 1] < s[k]
OutputInv ==
  /\ LastId <= typed
  /\ phase \in {"first", "await", "skip"} => Between(shellOutputs, LastId, typed + 1)
  /\ phase = "shell" =>
       /\ Between(shellOutputs, LastId, task.line.id)
       /\ LastId < task.line.id /\ task.line.id <= typed
  /\ phase = "before" /\ ~NothingTyped(task.line) =>
       /\ Between(task.outputs, LastId, task.line.id)
       /\ LastId < task.line.id /\ task.line.id <= typed
  /\ OutputsGoWithNextTask

-----------------------------------------------------------------------------
(* What the arrival of a line does to the loop. *)

Ignores == UNCHANGED <<loopVars, agent, aborted, ghosts>>

Starts(line, outputs) ==
  /\ ~NothingTyped(line) /\ ~budgetHit /\ ~quitRequested'
  /\ phase' = "run" /\ agent' = "turn" /\ aborted' = FALSE /\ failed' = FALSE
  /\ prompts' = Append(prompts, [line |-> line, outputs |-> outputs])
  /\ UNCHANGED <<alias, first, task>>

Waits(line, outputs) ==
  /\ UNCHANGED <<alias, first, agent, aborted, ghosts>>
  /\ \/ phase' = "shell" /\ line.kind = "shell" /\ task' = [line |-> line, outputs |-> <<>>]
     \/ phase' \in {"await", "skip"} /\ task' = task
     \/ phase' = "before" /\ task' = [line |-> line, outputs |-> outputs]
     \/ phase' = "ended" /\ task' = task

(* A line that the loop reads, with the outputs that wait for it. *)
LEMMA ResolveRead ==
  ASSUME NEW line, Resolve(line), phase \in {"first", "await", "next"}
  PROVE  /\ shellOutputs' = FreshOutputs
         /\ \E o \in {<<>>, FreshOutputs} : Starts(line, o) \/ Waits(line, o)
<1>1. ShellLoop(line, FreshOutputs) /\ UNCHANGED <<alias, first>>
  BY DEF Resolve, Awaiting
<1>2. CASE line.kind = "shell"
  BY <1>1, <1>2 DEF ShellLoop, Waits, ghosts
<1>3. CASE line.kind = "bare"
  BY <1>1, <1>3 DEF ShellLoop, Waits, ghosts
<1>4. CASE line.kind # "shell" /\ line.kind # "bare"
  <2>1. shellOutputs' = FreshOutputs /\ AfterShellLines(line, FreshOutputs)
    BY <1>1, <1>4 DEF ShellLoop
  <2>2. CASE FreshOutputs # <<>> /\ NothingTyped(line) /\ (first \/ ~quitRequested')
    BY <1>1, <2>1, <2>2 DEF AfterShellLines, Waits, ghosts
  <2>3. CASE ~(FreshOutputs # <<>> /\ NothingTyped(line) /\ (first \/ ~quitRequested'))
    <3>1. PICK o \in {<<>>, FreshOutputs} : Begin(line, o)
      BY <2>1, <2>3 DEF AfterShellLines
    <3>2. Starts(line, o) \/ Waits(line, o)
      BY <1>1, <3>1 DEF Begin, LoopOrEnd, Starts, Waits, ghosts
    <3>. QED  BY <2>1, <3>2
  <2>. QED  BY <2>2, <2>3
<1>. QED  BY <1>2, <1>3, <1>4

LEMMA ResolveOther ==
  ASSUME NEW line, Resolve(line), phase \notin {"first", "await", "next"}
  PROVE  \/ Ignores
         \/ /\ shellOutputs' = shellOutputs /\ phase' \notin {"shell", "await", "skip"}
            /\ Starts(line, <<>>) \/ Waits(line, <<>>)
<1>1. CASE phase = "skip"
  BY <1>1 DEF Resolve, Awaiting, Begin, LoopOrEnd, Starts, Waits, ghosts
<1>2. CASE phase = "ack" /\ NothingTyped(line)
  BY <1>2 DEF Resolve, Awaiting, Waits, ghosts
<1>3. CASE phase # "skip" /\ ~(phase = "ack" /\ NothingTyped(line))
  BY <1>3 DEF Resolve, Awaiting, Ignores
<1>. QED  BY <1>1, <1>2, <1>3

(* All that may follow: nothing, or one of the two, with outputs that wait or with none. *)
LEMMA ResolveSplit ==
  ASSUME NEW line, Resolve(line), TypeOK
  PROVE  \/ Ignores
         \/ \E o \in {<<>>, shellOutputs} :
              /\ shellOutputs' \in {<<>>, shellOutputs} /\ (Starts(line, o) \/ Waits(line, o))
BY ResolveRead, ResolveOther DEF FreshOutputs

-----------------------------------------------------------------------------
(* Types. *)

LEMMA SeqTypes ==
  ASSUME NEW S, NEW s \in Seq(S)
  PROVE  /\ <<>> \in Seq(S)
         /\ \A e \in S : Append(s, e) \in Seq(S)
         /\ s # <<>> => Tail(s) \in Seq(S)
OBVIOUS

LEMMA TaskTypes ==
  /\ NoTask \in Task /\ Null \notin Line /\ NothingTyped(Null)
  /\ \A l \in Line \cup {Null}, o \in Seq(1..MaxLines) :
       /\ [line |-> l, outputs |-> o] \in Task
       /\ ~NothingTyped(l) => l \in Line /\ [line |-> l, outputs |-> o] \in Prompt
  /\ \A t \in Task : t.line \in Line \cup {Null} /\ t.outputs \in Seq(1..MaxLines)
BY DEF NoTask, Task, Null, Line, Kinds, Prompt, NothingTyped

LEMMA StartsTyped ==
  ASSUME TypeOK, TaskInv, phase # "run",
         NEW line \in Line \cup {Null}, NEW o \in Seq(1..MaxLines), Starts(line, o),
         shellOutputs' \in Seq(1..MaxLines), typed' \in 0..MaxLines, quitRequested' \in BOOLEAN,
         UNCHANGED <<budgetHit, steerMode, usage, steering, followUps>>
  PROVE  TypeOK' /\ TaskInv'
<1>1. prompts' \in Seq(Prompt)
  <2>1. [line |-> line, outputs |-> o] \in Prompt
    BY TaskTypes DEF Starts
  <2>. QED  BY <2>1 DEF TypeOK, Starts
<1>2. TaskInv' /\ phase' \in Phases /\ agent' = "turn" /\ isAgentRunning'
  BY DEF Starts, Phases, SetupPhases, isAgentRunning, TaskInv
<1>. QED  BY <1>1, <1>2 DEF TypeOK, Starts, usage

LEMMA WaitsTyped ==
  ASSUME TypeOK, TaskInv, phase # "run",
         NEW line \in Line \cup {Null}, NEW o \in Seq(1..MaxLines), Waits(line, o),
         shellOutputs' \in Seq(1..MaxLines), typed' \in 0..MaxLines, quitRequested' \in BOOLEAN,
         UNCHANGED <<budgetHit, steerMode, usage, steering, followUps>>
  PROVE  TypeOK' /\ TaskInv'
<1>1. task' \in Task
  <2>1. task \in Task /\ <<>> \in Seq(1..MaxLines)
    BY SeqTypes DEF TypeOK
  <2>. QED  BY <2>1, TaskTypes DEF Waits
<1>2. phase' \in Phases /\ phase' # "run"
  BY DEF Waits, Phases, Awaiting
<1>3. TaskInv'
  BY DEF Waits, TaskInv, Null, SetupPhases
<1>. QED  BY <1>1, <1>2, <1>3 DEF TypeOK, Waits, usage, ghosts, isAgentRunning

LEMMA ResolveTyped ==
  ASSUME TypeOK, TaskInv, phase # "run", NEW line \in Line \cup {Null}, Resolve(line),
         typed' \in 0..MaxLines, quitRequested' \in BOOLEAN,
         UNCHANGED <<budgetHit, steerMode, usage, steering, followUps>>
  PROVE  TypeOK' /\ TaskInv'
<1>1. CASE Ignores
  BY <1>1 DEF Ignores, TypeOK, TaskInv, loopVars, ghosts, usage, isAgentRunning
<1>2. ASSUME NEW o \in {<<>>, shellOutputs}, shellOutputs' \in {<<>>, shellOutputs},
             Starts(line, o) \/ Waits(line, o)
      PROVE  TypeOK' /\ TaskInv'
  <2>1. o \in Seq(1..MaxLines) /\ shellOutputs' \in Seq(1..MaxLines)
    BY <1>2, SeqTypes DEF TypeOK
  <2>. QED  BY <1>2, <2>1, StartsTyped, WaitsTyped
<1>. QED  BY <1>1, <1>2, ResolveSplit

LEMMA TypeInit == Init => TypeOK /\ TaskInv
<1>1. <<>> \in Seq(1..MaxLines) /\ <<>> \in Seq(Prompt)
  OBVIOUS
<1>2. "dir" \in Phases
  BY DEF Phases, SetupPhases
<1>3. 0 \in 0..MaxLines /\ NoTask \in Task
  BY SessionAssumption, TaskTypes
<1>4. Init => phase \in Phases /\ task \in Task /\ TaskInv
  BY <1>2, <1>3 DEF Init, TaskInv
<1>5. Init => shellOutputs \in Seq(1..MaxLines) /\ prompts \in Seq(Prompt)
  BY <1>1 DEF Init
<1>6. Init => (agent # "idle") = isAgentRunning
  BY DEF Init, isAgentRunning
<1>7. Init => budget \in Budgets \cup {NoBudget} /\ alias \in Aliases \cup {NoAlias}
  BY DEF Init
<1>8. Init => tokensUsed \in Nat /\ turnsUsed \in Nat /\ typed \in 0..MaxLines
  BY <1>3 DEF Init
<1>9. Init => \A f \in {first, quitRequested, budgetHit, steerMode, failed, aborted} : f \in BOOLEAN
  BY DEF Init
<1>. QED  BY <1>1, <1>4, <1>5, <1>6, <1>7, <1>8, <1>9 DEF Init, TypeOK

LEMMA SetupTyped ==
  ASSUME TypeOK, TaskInv, Setup
  PROVE  TypeOK' /\ TaskInv'
<1>. USE DEF TypeOK, TaskInv, Phases, SetupPhases, Awaiting, isAgentRunning, flags, usage, agentVars, ghosts
<1>1. CASE AnswerDir \/ PickSkills
  BY <1>1 DEF AnswerDir, PickSkills, ToPhases
<1>2. CASE Verify \/ PickSchema
  BY <1>2 DEF Verify, PickSchema
<1>3. ASSUME NEW a \in Aliases, PickModel(a)
      PROVE  TypeOK' /\ TaskInv'
  BY <1>3 DEF PickModel
<1>4. ASSUME NEW b \in Budgets, EnterBudget(b)
      PROVE  TypeOK' /\ TaskInv'
  BY <1>4 DEF EnterBudget
<1>. QED  BY <1>1, <1>2, <1>3, <1>4 DEF Setup

LEMMA TakeLineTyped ==
  ASSUME TypeOK, TakeLine \/ UNCHANGED <<steering, followUps>>
  PROVE  steering' \in Seq(1..MaxLines) /\ followUps' \in Seq(1..MaxLines)
<1>1. steering \in Seq(1..MaxLines) /\ followUps \in Seq(1..MaxLines)
  BY DEF TypeOK
<1>. QED  BY <1>1, SeqTypes DEF TakeLine

LEMMA AgentTyped ==
  ASSUME TypeOK, TaskInv, Agent
  PROVE  TypeOK' /\ TaskInv'
<1>. USE DEF TypeOK, TaskInv, Phases, SetupPhases, isAgentRunning, flags, usage, loopVars, ghosts
<1>1. CASE AgentTurns
  BY <1>1, TakeLineTyped DEF AgentTurns
<1>2. CASE AgentStops
  BY <1>2 DEF AgentStops
<1>3. CASE PromptReturns
  BY <1>3, TakeLineTyped DEF PromptReturns
<1>4. CASE PromptRejects
  BY <1>4 DEF PromptRejects
<1>5. ASSUME NEW u \in Usages, TurnEnds(u)
      PROVE  TypeOK' /\ TaskInv'
  <2>1. tokensUsed' \in Nat /\ turnsUsed' \in Nat
    BY <1>5, SessionAssumption DEF TurnEnds
  <2>2. budgetHit' \in BOOLEAN /\ aborted' \in BOOLEAN
    BY <1>5 DEF TurnEnds, Exceeded
  <2>. QED  BY <1>5, <2>1, <2>2 DEF TurnEnds
<1>. QED  BY <1>1, <1>2, <1>3, <1>4, <1>5 DEF Agent

LEMMA LoopTyped ==
  ASSUME TypeOK, TaskInv, Loop
  PROVE  TypeOK' /\ TaskInv'
<1>1. CASE ShellEnds
  <2>1. task.line.id \in 1..MaxLines
    BY <1>1 DEF ShellEnds, TaskInv, Line
  <2>2. shellOutputs \in Seq(1..MaxLines)
    BY DEF TypeOK
  <2>3. shellOutputs' \in Seq(1..MaxLines) /\ task' \in Task
    BY <1>1, <2>1, <2>2, TaskTypes, SeqTypes DEF ShellEnds
  <2>. QED  BY <1>1, <2>3
            DEF ShellEnds, TypeOK, TaskInv, Phases, SetupPhases, Awaiting, isAgentRunning, flags, usage, agentVars, ghosts
<1>2. CASE FirstSnapshot
  <2>1. task.line \in Line \cup {Null} /\ task.outputs \in Seq(1..MaxLines) /\ task' \in Task
    BY <1>2, TaskTypes DEF FirstSnapshot, TypeOK
  <2>2. CASE phase' = "run"
    <3>1. prompts' = Append(prompts, [line |-> task.line, outputs |-> task.outputs])
          /\ ~NothingTyped(task.line) /\ aborted' = FALSE /\ failed' = FALSE /\ agent' = "turn"
      BY <1>2, <2>2 DEF FirstSnapshot, LoopOrEnd
    <3>2. prompts' \in Seq(Prompt)
      BY <2>1, <3>1, TaskTypes DEF TypeOK
    <3>. QED  BY <1>2, <2>1, <2>2, <3>1, <3>2
              DEF FirstSnapshot, TypeOK, TaskInv, Phases, SetupPhases, isAgentRunning, flags, usage
  <2>3. CASE phase' # "run"
    <3>1. phase' = "ended" /\ UNCHANGED <<agent, aborted, prompts, failed>>
      BY <1>2, <2>3 DEF FirstSnapshot, LoopOrEnd
    <3>. QED  BY <1>2, <2>1, <3>1
              DEF FirstSnapshot, TypeOK, TaskInv, Phases, SetupPhases, isAgentRunning, flags, usage
  <2>. QED  BY <2>2, <2>3
<1>3. CASE AfterSnapshot
  BY <1>3 DEF AfterSnapshot, QuitFirst, TypeOK, TaskInv, Phases, SetupPhases, Awaiting, isAgentRunning, flags, usage, agentVars, ghosts
<1>. QED  BY <1>1, <1>2, <1>3 DEF Loop

LEMMA UserTyped ==
  ASSUME TypeOK, TaskInv, User
  PROVE  TypeOK' /\ TaskInv'
<1>1. Typing => typed' \in 1..MaxLines
  BY SessionAssumption DEF Typing, TypeOK
<1>2. CASE SubmitQuit
  <2>1. CASE isAgentRunning
    BY <1>1, <1>2, <2>1 DEF SubmitQuit, TypeOK, TaskInv, isAgentRunning, usage, loopVars, ghosts
  <2>2. CASE ~isAgentRunning
    BY <1>1, <1>2, <2>2, ResolveTyped DEF SubmitQuit, isAgentRunning
  <2>. QED  BY <2>1, <2>2
<1>3. CASE Escape
  <2>1. Resolve(Null) /\ UNCHANGED <<budgetHit, steerMode, usage, steering, followUps>>
        /\ quitRequested' \in BOOLEAN /\ typed' \in 0..MaxLines
    BY <1>1, <1>3 DEF Escape, flags, TypeOK
  <2>. QED  BY <1>3, <2>1, ResolveTyped DEF Escape, isAgentRunning
<1>4. CASE ToggleSteerMode
  BY <1>4 DEF ToggleSteerMode, TypeOK, TaskInv, isAgentRunning, usage, loopVars, agentVars, ghosts
<1>5. ASSUME NEW k \in Kinds, SubmitLine(k)
      PROVE  TypeOK' /\ TaskInv'
  <2>1. CASE isAgentRunning
    <3>1. steering' \in Seq(1..MaxLines) /\ followUps' \in Seq(1..MaxLines)
      <4>1. steering \in Seq(1..MaxLines) /\ followUps \in Seq(1..MaxLines)
        BY DEF TypeOK
      <4>. QED  BY <1>1, <1>5, <2>1, <4>1, SeqTypes DEF SubmitLine, Queue
    <3>. QED  BY <1>1, <1>5, <2>1, <3>1
              DEF SubmitLine, TypeOK, TaskInv, isAgentRunning, flags, usage, loopVars, ghosts
  <2>2. CASE ~isAgentRunning
    <3>1. [id |-> typed', kind |-> k] \in Line
      BY <1>1, <1>5 DEF SubmitLine, Line
    <3>2. UNCHANGED <<budgetHit, steerMode, usage, steering, followUps>>
          /\ quitRequested' \in BOOLEAN /\ typed' \in 0..MaxLines
      BY <1>1, <1>5, <2>2 DEF SubmitLine, flags, TypeOK
    <3>. QED  BY <1>5, <2>2, <3>1, <3>2, ResolveTyped DEF SubmitLine, isAgentRunning
  <2>. QED  BY <2>1, <2>2
<1>. QED  BY <1>2, <1>3, <1>4, <1>5 DEF User

LEMMA TypeNext ==
  ASSUME TypeOK, TaskInv, [Next]_vars
  PROVE  TypeOK' /\ TaskInv'
<1>1. CASE UNCHANGED vars
  BY <1>1 DEF vars, loopVars, flags, usage, agentVars, ghosts, TypeOK, TaskInv, isAgentRunning
<1>2. CASE Stopped
  BY <1>1, <1>2 DEF Stopped
<1>. QED  BY <1>1, <1>2, SetupTyped, UserTyped, AgentTyped, LoopTyped DEF Next

LEMMA TypesHold == Spec => [](TypeOK /\ TaskInv)
<1>1. Init => TypeOK /\ TaskInv
  BY TypeInit
<1>2. TypeOK /\ TaskInv /\ [Next]_vars => TypeOK' /\ TaskInv'
  BY TypeNext
<1>. QED  BY <1>1, <1>2, PTL DEF Spec

(* Every state of the session is of its type; an agent is at work exactly while the loop waits for it. *)
THEOREM TypeCorrect == Spec => []TypeOK
BY TypesHold, PTL

-----------------------------------------------------------------------------
(* The budget. *)

LEMMA BudgetTypes ==
  ASSUME TypeOK
  PROVE  /\ budget.turns \in Nat \cup {Unlimited} /\ budget.tokens \in Nat \cup {Unlimited}
         /\ tokensUsed \in Nat /\ turnsUsed \in Nat
<1>1. CASE budget = NoBudget
  BY <1>1 DEF TypeOK, NoBudget
<1>2. CASE budget \in Budgets
  BY <1>2, SessionAssumption DEF TypeOK
<1>. QED  BY <1>1, <1>2 DEF TypeOK

(* A step that leaves the usage and the flag alone, and lets no turn begin that should not. *)
LEMMA BudgetKept ==
  ASSUME BudgetInv, UNCHANGED <<usage, budgetHit>>,
         phase' \in SetupPhases => phase \in SetupPhases,
         agent' = "turn" => ~budgetHit,
         agent' = "polled" => agent = "polled" /\ (aborted => aborted')
  PROVE  BudgetInv'
BY DEF BudgetInv, Exceeded, BudgetIsRespected, usage

LEMMA ResolveKeepsBudget ==
  ASSUME TypeOK, BudgetInv, phase \notin SetupPhases, UNCHANGED <<usage, budgetHit>>,
         NEW line, Resolve(line)
  PROVE  BudgetInv'
<1>1. CASE Ignores
  <2>1. UNCHANGED <<phase, agent, aborted>>
    BY <1>1 DEF Ignores, loopVars
  <2>. QED  BY <2>1, BudgetKept DEF BudgetInv
<1>2. ASSUME NEW o, Starts(line, o)
      PROVE  BudgetInv'
  BY <1>2, BudgetKept DEF Starts, SetupPhases
<1>3. ASSUME NEW o, Waits(line, o)
      PROVE  BudgetInv'
  <2>1. phase' \notin SetupPhases /\ UNCHANGED <<agent, aborted>>
    BY <1>3 DEF Waits, SetupPhases
  <2>. QED  BY <2>1, BudgetKept DEF BudgetInv
<1>. QED  BY <1>1, <1>2, <1>3, ResolveSplit

LEMMA TurnKeepsBudget ==
  ASSUME TypeOK, BudgetInv, NEW u \in Usages, TurnEnds(u)
  PROVE  BudgetInv'
<1>1. u \in Nat
  BY SessionAssumption
<1>2. ~Exceeded(tokensUsed, turnsUsed) /\ phase' = phase /\ budget' = budget
  BY DEF BudgetInv, TurnEnds, loopVars
<1>3. BudgetIsRespected'
  <2>1. budget.turns # Unlimited => turnsUsed + 1 <= budget.turns
    BY <1>2, BudgetTypes, SessionAssumption DEF Exceeded
  <2>2. budget.tokens # Unlimited => (tokensUsed + u) - u < budget.tokens
    BY <1>1, <1>2, BudgetTypes, SessionAssumption DEF Exceeded
  <2>. QED  BY <1>2, <2>1, <2>2 DEF BudgetIsRespected, TurnEnds
<1>4. phase \notin SetupPhases
  BY DEF TypeOK, TurnEnds, isAgentRunning, SetupPhases
<1>5. budgetHit' = (budgetHit \/ Exceeded(tokensUsed, turnsUsed)')
      /\ aborted' = (aborted \/ Exceeded(tokensUsed, turnsUsed)') /\ agent' = "polled"
  BY <1>2 DEF TurnEnds, Exceeded
<1>. QED  BY <1>2, <1>3, <1>4, <1>5 DEF BudgetInv, TurnEnds

LEMMA BudgetNext ==
  ASSUME TypeOK, BudgetInv, [Next]_vars
  PROVE  BudgetInv'
<1>1. CASE UNCHANGED vars
  <2>1. UNCHANGED <<phase, agent, aborted, usage, budgetHit>>
    BY <1>1 DEF vars, loopVars, flags, agentVars
  <2>. QED  BY <2>1, BudgetKept DEF BudgetInv
<1>2. CASE AnswerDir \/ PickSkills \/ Verify \/ PickSchema \/ \E a \in Aliases : PickModel(a)
  <2>1. phase \in SetupPhases /\ UNCHANGED <<agent, aborted, usage, budgetHit>>
    BY <1>2 DEF AnswerDir, PickSkills, ToPhases, Verify, PickSchema, PickModel, SetupPhases, flags, agentVars
  <2>. QED  BY <2>1, BudgetKept DEF BudgetInv
<1>3. ASSUME NEW b \in Budgets, EnterBudget(b)
      PROVE  BudgetInv'
  <2>1. phase \in SetupPhases /\ phase' \notin SetupPhases
        /\ UNCHANGED <<agent, aborted, tokensUsed, turnsUsed, budgetHit>>
    BY <1>3 DEF EnterBudget, SetupPhases, flags, agentVars
  <2>2. tokensUsed = 0 /\ turnsUsed = 0 /\ ~budgetHit
    BY <2>1 DEF BudgetInv
  <2>3. CASE budget' = budget
    <3>1. UNCHANGED usage
      BY <2>1, <2>3 DEF usage
    <3>. QED  BY <2>1, <3>1, BudgetKept DEF BudgetInv
  <2>4. CASE budget' = b
    <3>1. /\ b.turns \in (Nat \ {0}) \cup {Unlimited} /\ b.tokens \in (Nat \ {0}) \cup {Unlimited}
          /\ Unlimited \notin Nat
      BY SessionAssumption
    <3>2. ~Exceeded(tokensUsed, turnsUsed)'
      BY <2>1, <2>2, <2>4, <3>1 DEF Exceeded
    <3>3. BudgetIsRespected'
      BY <2>1, <2>2, <2>4, <3>1 DEF BudgetIsRespected
    <3>. QED  BY <2>1, <2>2, <3>2, <3>3 DEF BudgetInv
  <2>. QED  BY <1>3, <2>3, <2>4 DEF EnterBudget
<1>4. CASE User
  <2>1. phase \notin SetupPhases /\ UNCHANGED <<usage, budgetHit>>
    BY <1>4 DEF User, SubmitQuit, Escape, ToggleSteerMode, SubmitLine, Typing, Interactive, flags
  <2>2. CASE \E line : Resolve(line)
    BY <2>1, <2>2, ResolveKeepsBudget
  <2>3. CASE ~\E line : Resolve(line)
    <3>1. UNCHANGED <<phase, agent>> /\ (aborted => aborted')
      BY <1>4, <2>3 DEF User, SubmitQuit, Escape, ToggleSteerMode, SubmitLine, loopVars, agentVars
    <3>. QED  BY <2>1, <3>1, BudgetKept DEF BudgetInv
  <2>. QED  BY <2>2, <2>3
<1>5. CASE AgentTurns \/ AgentStops \/ PromptReturns \/ PromptRejects
  <2>1. UNCHANGED <<usage, budgetHit, aborted>> /\ (phase' = phase \/ phase' = "after")
    BY <1>5 DEF AgentTurns, AgentStops, PromptReturns, PromptRejects, loopVars, flags
  <2>2. agent' # "polled" /\ (agent' = "turn" => ~budgetHit)
    BY <1>5 DEF AgentTurns, AgentStops, PromptReturns, PromptRejects, BudgetInv
  <2>. QED  BY <2>1, <2>2, BudgetKept DEF SetupPhases
<1>6. ASSUME NEW u \in Usages, TurnEnds(u)
      PROVE  BudgetInv'
  BY <1>6, TurnKeepsBudget
<1>7. CASE Loop
  <2>1. UNCHANGED <<usage, budgetHit>> /\ phase' \notin SetupPhases
    BY <1>7 DEF Loop, ShellEnds, FirstSnapshot, LoopOrEnd, AfterSnapshot, QuitFirst, SetupPhases, flags
  <2>2. (agent' = agent /\ aborted' = aborted) \/ (agent' = "turn" /\ ~budgetHit)
    BY <1>7 DEF Loop, ShellEnds, FirstSnapshot, LoopOrEnd, AfterSnapshot, agentVars
  <2>. QED  BY <2>1, <2>2, BudgetKept DEF BudgetInv
<1>8. CASE Stopped
  BY <1>1, <1>8 DEF Stopped
<1>. QED  BY <1>1, <1>2, <1>3, <1>4, <1>5, <1>6, <1>7, <1>8 DEF Next, Setup, Agent

(* Over all tasks, follow-ups and queued lines of a session the agent takes no turn beyond its limit
   of turns, and overshoots its limit of tokens by less than the usage of one turn. *)
THEOREM BudgetHolds == Spec => []BudgetIsRespected
<1>1. Init => BudgetInv
  BY SessionAssumption DEF Init, BudgetInv, Exceeded, BudgetIsRespected, NoBudget
<1>2. TypeOK /\ BudgetInv /\ [Next]_vars => BudgetInv'
  BY BudgetNext
<1>3. BudgetInv => BudgetIsRespected
  BY DEF BudgetInv
<1>. QED  BY <1>1, <1>2, <1>3, TypesHold, PTL DEF Spec

-----------------------------------------------------------------------------
(* The queues of the agent. *)

(* A step from a place where the queues are empty for a reason to another such place. *)
LEMMA QueuesKept ==
  ASSUME QueueInv, UNCHANGED <<steering, followUps, failed, budgetHit>>,
         quitRequested => quitRequested',
         phase' \in {"after", "next"} => phase' = phase
  PROVE  QueueInv'
BY DEF QueueInv, NoLineLeftQueued

LEMMA ResolveKeepsQueues ==
  ASSUME TypeOK, QueueInv, NEW line, Resolve(line), quitRequested => quitRequested',
         UNCHANGED <<steering, followUps, budgetHit>>
  PROVE  QueueInv'
<1>1. CASE Ignores
  <2>1. UNCHANGED <<phase, failed>>
    BY <1>1 DEF Ignores, loopVars, ghosts
  <2>. QED  BY <2>1, QueuesKept
<1>2. ASSUME NEW o, Starts(line, o)
      PROVE  QueueInv'
  BY <1>2 DEF Starts, QueueInv, NoLineLeftQueued
<1>3. ASSUME NEW o, Waits(line, o)
      PROVE  QueueInv'
  <2>1. phase' \notin {"after", "next"} /\ UNCHANGED failed
    BY <1>3 DEF Waits, ghosts
  <2>. QED  BY <2>1, QueuesKept
<1>. QED  BY <1>1, <1>2, <1>3, ResolveSplit

LEMMA QueueNext ==
  ASSUME TypeOK, QueueInv, [Next]_vars
  PROVE  QueueInv'
<1>1. CASE UNCHANGED vars
  <2>1. UNCHANGED <<phase, steering, followUps, failed, budgetHit, quitRequested>>
    BY <1>1 DEF vars, loopVars, flags, agentVars, ghosts
  <2>. QED  BY <2>1, QueuesKept
<1>2. CASE Setup
  <2>1. /\ phase' \notin {"after", "next"}
        /\ UNCHANGED <<steering, followUps, failed, budgetHit, quitRequested>>
    BY <1>2 DEF Setup, AnswerDir, PickSkills, ToPhases, Verify, PickSchema, PickModel, EnterBudget,
                flags, agentVars, ghosts
  <2>. QED  BY <2>1, QueuesKept
<1>3. CASE SubmitQuit
  <2>1. quitRequested' /\ UNCHANGED <<steering, followUps, budgetHit>>
    BY <1>3 DEF SubmitQuit
  <2>2. CASE isAgentRunning
    <3>1. UNCHANGED <<phase, failed>>
      BY <1>3, <2>2 DEF SubmitQuit, loopVars, ghosts
    <3>. QED  BY <2>1, <3>1, QueuesKept
  <2>3. CASE ~isAgentRunning
    BY <1>3, <2>1, <2>3, ResolveKeepsQueues DEF SubmitQuit
  <2>. QED  BY <2>2, <2>3
<1>4. CASE Escape
  <2>1. UNCHANGED <<steering, followUps, budgetHit, quitRequested>> /\ Resolve(Null)
    BY <1>4 DEF Escape, flags
  <2>. QED  BY <2>1, ResolveKeepsQueues
<1>5. CASE ToggleSteerMode
  <2>1. UNCHANGED <<phase, steering, followUps, failed, budgetHit, quitRequested>>
    BY <1>5 DEF ToggleSteerMode, loopVars, agentVars, ghosts
  <2>. QED  BY <2>1, QueuesKept
<1>6. ASSUME NEW k \in Kinds, SubmitLine(k)
      PROVE  QueueInv'
  <2>1. CASE isAgentRunning
    <3>1. phase' = "run"
      BY <1>6, <2>1 DEF SubmitLine, isAgentRunning, loopVars
    <3>. QED  BY <3>1 DEF QueueInv, NoLineLeftQueued
  <2>2. CASE ~isAgentRunning
    <3>1. /\ UNCHANGED <<steering, followUps, budgetHit, quitRequested>>
          /\ Resolve([id |-> typed', kind |-> k])
      BY <1>6, <2>2 DEF SubmitLine, flags
    <3>. QED  BY <3>1, ResolveKeepsQueues
  <2>. QED  BY <2>1, <2>2
<1>7. CASE Agent
  <2>1. phase = "run"
    BY <1>7 DEF Agent, AgentTurns, AgentStops, PromptReturns, PromptRejects, TurnEnds, TypeOK, isAgentRunning
  <2>2. CASE phase' = phase
    BY <2>1, <2>2 DEF QueueInv, NoLineLeftQueued
  <2>3. CASE PromptReturns /\ phase' # phase
    <3>1. /\ phase' = "after" /\ UNCHANGED <<steering, followUps, budgetHit, quitRequested>>
          /\ budgetHit \/ quitRequested \/ (steering = <<>> /\ followUps = <<>>)
      BY <2>3 DEF PromptReturns, flags
    <3>. QED  BY <3>1 DEF QueueInv, NoLineLeftQueued
  <2>4. CASE PromptRejects
    BY <2>4 DEF PromptRejects, QueueInv, NoLineLeftQueued
  <2>. QED  BY <1>7, <2>2, <2>3, <2>4 DEF Agent, AgentTurns, AgentStops, TurnEnds, loopVars
<1>8. CASE ShellEnds \/ FirstSnapshot
  <2>1. phase' \notin {"after", "next"}
    BY <1>8 DEF ShellEnds, FirstSnapshot, LoopOrEnd
  <2>. QED  BY <2>1 DEF QueueInv, NoLineLeftQueued
<1>9. CASE AfterSnapshot
  <2>1. UNCHANGED <<steering, followUps, failed>>
    BY <1>9 DEF AfterSnapshot, agentVars, ghosts
  <2>2. phase = "after" /\ phase' # "after" /\ (phase' = "next" => ~quitRequested /\ ~budgetHit)
    BY <1>9 DEF AfterSnapshot, QuitFirst
  <2>. QED  BY <2>1, <2>2 DEF QueueInv, NoLineLeftQueued
<1>10. CASE Stopped
  BY <1>1, <1>10 DEF Stopped
<1>. QED  BY <1>1, <1>2, <1>3, <1>4, <1>5, <1>6, <1>7, <1>8, <1>9, <1>10 DEF Next, User, Loop

-----------------------------------------------------------------------------
(* The outputs of shell commands. *)

LEMMA LastIdType ==
  ASSUME TypeOK
  PROVE  LastId \in Nat
<1>1. prompts \in Seq(Prompt) /\ \A p \in Prompt : p.line.id \in Nat
  BY DEF TypeOK, Prompt, Line
<1>. QED  BY <1>1 DEF LastId

LEMMA BetweenEmpty == \A lo, hi : Between(<<>>, lo, hi)
BY DEF Between

LEMMA BetweenWidens ==
  ASSUME NEW s \in Seq(1..MaxLines), NEW lo \in Nat, NEW hi \in Nat, NEW higher \in Nat,
         hi <= higher, Between(s, lo, hi)
  PROVE  Between(s, lo, higher)
BY SessionAssumption DEF Between

LEMMA BetweenAppend ==
  ASSUME NEW s \in Seq(1..MaxLines), NEW lo \in Nat, NEW e \in 1..MaxLines, lo < e, Between(s, lo, e)
  PROVE  Between(Append(s, e), lo, e + 1)
BY SessionAssumption DEF Between

(* A task that starts takes the outputs that were waiting for it. *)
LEMMA StartOrdersOutputs ==
  ASSUME TypeOK, OutputsGoWithNextTask,
         NEW line \in Line, NEW o \in Seq(1..MaxLines),
         prompts' = Append(prompts, [line |-> line, outputs |-> o]), Between(o, LastId, line.id)
  PROVE  OutputsGoWithNextTask' /\ LastId' = line.id
<1>1. prompts \in Seq(Prompt)
  BY DEF TypeOK
<1>2. /\ Len(prompts') = Len(prompts) + 1
      /\ \A i \in 1..Len(prompts) : prompts'[i] = prompts[i]
      /\ prompts'[Len(prompts) + 1] = [line |-> line, outputs |-> o]
  BY <1>1
<1>3. LastId' = line.id
  BY <1>1, <1>2 DEF LastId
<1>4. SUFFICES ASSUME NEW i \in 1..Len(prompts')
               PROVE  LET outputs == prompts'[i].outputs
                          since   == IF i = 1 THEN 0 ELSE prompts'[i - 1].line.id
                      IN  /\ \A k \in 1..Len(outputs) : since < outputs[k] /\ outputs[k] < prompts'[i].line.id
                          /\ \A k \in 2..Len(outputs) : outputs[k - 1] < outputs[k]
  BY <1>3 DEF OutputsGoWithNextTask
<1>5. CASE i \in 1..Len(prompts)
  <2>1. prompts'[i] = prompts[i] /\ (i # 1 => prompts'[i - 1] = prompts[i - 1])
    BY <1>1, <1>2, <1>5
  <2>. QED  BY <1>5, <2>1 DEF OutputsGoWithNextTask
<1>6. CASE i = Len(prompts) + 1
  <2>1. prompts'[i].outputs = o /\ prompts'[i].line = line
    BY <1>2, <1>6
  <2>2. (IF i = 1 THEN 0 ELSE prompts'[i - 1].line.id) = LastId
    BY <1>1, <1>2, <1>6 DEF LastId
  <2>. QED  BY <2>1, <2>2 DEF Between
<1>. QED  BY <1>1, <1>2, <1>5, <1>6

LEMMA StartsInOrder ==
  ASSUME TypeOK, OutputInv, typed' = typed + 1,
         NEW line \in Line \cup {Null}, line \in Line => line.id = typed',
         NEW o \in Seq(1..MaxLines), Between(o, LastId, typed + 1), Starts(line, o)
  PROVE  OutputInv'
<1>1. line \in Line /\ line.id = typed + 1 /\ typed \in Nat
  BY TaskTypes DEF Starts, TypeOK
<1>2. OutputsGoWithNextTask' /\ LastId' = line.id
  BY <1>1, StartOrdersOutputs DEF Starts, OutputInv
<1>. QED  BY <1>1, <1>2 DEF Starts, OutputInv

LEMMA WaitsInOrder ==
  ASSUME TypeOK, OutputInv, typed' = typed + 1, typed' \in 0..MaxLines,
         NEW line \in Line \cup {Null}, line \in Line => line.id = typed',
         NEW o \in Seq(1..MaxLines), Between(o, LastId, typed + 1), Waits(line, o),
         shellOutputs' \in Seq(1..MaxLines),
         phase' \in {"shell", "await", "skip"} => Between(shellOutputs', LastId, typed + 1)
  PROVE  OutputInv'
<1>1. LastId' = LastId /\ OutputsGoWithNextTask' /\ typed \in Nat /\ LastId <= typed /\ LastId \in Nat
  BY LastIdType DEF Waits, ghosts, LastId, OutputsGoWithNextTask, OutputInv, TypeOK
<1>2. CASE phase' = "shell"
  <2>1. line \in Line /\ task'.line = line
    BY <1>2 DEF Waits, Null
  <2>. QED  BY <1>1, <1>2, <2>1 DEF OutputInv
<1>3. CASE phase' \in {"await", "skip"}
  <2>1. Between(shellOutputs', LastId, typed' + 1)
    BY <1>1, <1>3, BetweenWidens
  <2>. QED  BY <1>1, <1>3, <2>1 DEF OutputInv
<1>4. CASE phase' = "before"
  <2>1. task'.line = line /\ task'.outputs = o
    BY <1>4 DEF Waits
  <2>2. ~NothingTyped(line) => line.id = typed + 1
    BY TaskTypes
  <2>3. ~NothingTyped(task.line)' => ~NothingTyped(line)
    BY <2>1 DEF NothingTyped
  <2>. QED  BY <1>1, <1>4, <2>1, <2>2, <2>3 DEF OutputInv
<1>5. CASE phase' = "ended"
  BY <1>1, <1>5 DEF OutputInv
<1>. QED  BY <1>2, <1>3, <1>4, <1>5 DEF Waits

LEMMA ResolveInOrder ==
  ASSUME TypeOK, TaskInv, OutputInv, typed' = typed + 1, typed' \in 0..MaxLines,
         NEW line \in Line \cup {Null}, line \in Line => line.id = typed', Resolve(line)
  PROVE  OutputInv'
<1>1. /\ typed \in Nat /\ LastId \in Nat /\ shellOutputs \in Seq(1..MaxLines)
      /\ <<>> \in Seq(1..MaxLines) /\ Between(<<>>, LastId, typed + 1)
  BY LastIdType, BetweenEmpty, SeqTypes DEF TypeOK
<1>2. CASE phase \in {"first", "await", "next"}
  <2>1. FreshOutputs \in Seq(1..MaxLines) /\ Between(FreshOutputs, LastId, typed + 1)
    BY <1>1, <1>2 DEF FreshOutputs, OutputInv
  <2>2. PICK o \in {<<>>, FreshOutputs} : Starts(line, o) \/ Waits(line, o)
    BY <1>2, ResolveRead
  <2>3. o \in Seq(1..MaxLines) /\ Between(o, LastId, typed + 1)
    BY <1>1, <2>1
  <2>4. shellOutputs' = FreshOutputs
    BY <1>2, ResolveRead
  <2>. QED  BY <2>1, <2>2, <2>3, <2>4, StartsInOrder, WaitsInOrder
<1>3. CASE phase \notin {"first", "await", "next"}
  <2>1. CASE Ignores
    <3>1. UNCHANGED <<phase, task, shellOutputs, prompts>>
      BY <2>1 DEF Ignores, loopVars, ghosts
    <3>2. LastId' = LastId /\ OutputsGoWithNextTask'
      BY <3>1 DEF LastId, OutputsGoWithNextTask, OutputInv
    <3>3. phase = "skip" => Between(shellOutputs, LastId, typed' + 1)
      BY <1>1, BetweenWidens DEF OutputInv
    <3>4. task.line.id <= typed /\ task.line.id \in Nat => task.line.id <= typed'
      BY <1>1
    <3>5. task.line.id \in Nat
      BY DEF TypeOK, Task, Line, Null
    <3>6. NothingTyped(task.line)' <=> NothingTyped(task.line)
      BY <3>1 DEF NothingTyped
    <3>. QED  BY <1>1, <1>3, <3>1, <3>2, <3>3, <3>4, <3>5, <3>6 DEF OutputInv
  <2>2. CASE /\ shellOutputs' = shellOutputs /\ phase' \notin {"shell", "await", "skip"}
             /\ Starts(line, <<>>) \/ Waits(line, <<>>)
    BY <1>1, <2>2, StartsInOrder, WaitsInOrder
  <2>. QED  BY <1>3, <2>1, <2>2, ResolveOther
<1>. QED  BY <1>2, <1>3

(* A step that neither types, nor starts a task, nor ends a command, and goes where nothing waits. *)
LEMMA OutputsKept ==
  ASSUME OutputInv, UNCHANGED <<task, shellOutputs, prompts, typed>>,
         phase' = phase \/ phase' \notin {"first", "await", "skip", "shell", "before"}
  PROVE  OutputInv'
BY DEF OutputInv, OutputsGoWithNextTask, LastId, Between, NothingTyped

LEMMA OutputNext ==
  ASSUME TypeOK, TaskInv, OutputInv, [Next]_vars
  PROVE  OutputInv'
<1>1. CASE UNCHANGED vars
  <2>1. UNCHANGED <<phase, task, shellOutputs, prompts, typed>>
    BY <1>1 DEF vars, loopVars, ghosts
  <2>. QED  BY <2>1, OutputsKept
<1>2. CASE AnswerDir \/ PickSkills \/ Verify \/ PickSchema \/ \E a \in Aliases : PickModel(a)
  <2>1. /\ UNCHANGED <<task, shellOutputs, prompts, typed>>
        /\ phase' \notin {"first", "await", "skip", "shell", "before"}
    BY <1>2 DEF AnswerDir, PickSkills, ToPhases, Verify, PickSchema, PickModel, ghosts
  <2>. QED  BY <2>1, OutputsKept
<1>3. CASE Agent
  <2>1. /\ UNCHANGED <<task, shellOutputs, prompts, typed>>
        /\ phase' = phase \/ phase' = "after"
    BY <1>3 DEF Agent, AgentTurns, AgentStops, PromptReturns, PromptRejects, TurnEnds, loopVars, ghosts
  <2>. QED  BY <2>1, OutputsKept
<1>4. CASE AfterSnapshot
  <2>1. /\ UNCHANGED <<task, shellOutputs, prompts, typed>>
        /\ phase' \notin {"first", "await", "skip", "shell", "before"}
    BY <1>4 DEF AfterSnapshot, QuitFirst, ghosts
  <2>. QED  BY <2>1, OutputsKept
<1>5. CASE ShellEnds
  <2>1. /\ LastId \in Nat /\ typed \in Nat /\ shellOutputs \in Seq(1..MaxLines)
        /\ task.line.id \in 1..MaxLines
    BY <1>5, LastIdType DEF ShellEnds, TaskInv, TypeOK, Line
  <2>2. /\ Between(shellOutputs, LastId, task.line.id)
        /\ LastId < task.line.id /\ task.line.id <= typed
    BY <1>5 DEF ShellEnds, OutputInv
  <2>3. Between(shellOutputs, LastId, typed + 1)
    BY <2>1, <2>2, BetweenWidens
  <2>4. Between(Append(shellOutputs, task.line.id), LastId, typed + 1)
    <3>1. Between(Append(shellOutputs, task.line.id), LastId, task.line.id + 1)
      BY <2>1, <2>2, BetweenAppend
    <3>2. Append(shellOutputs, task.line.id) \in Seq(1..MaxLines)
      BY <2>1, SeqTypes
    <3>3. task.line.id + 1 \in Nat /\ typed + 1 \in Nat /\ task.line.id + 1 <= typed + 1
      BY <2>1, <2>2
    <3>4. \A s \in Seq(1..MaxLines) :
            Between(s, LastId, task.line.id + 1) => Between(s, LastId, typed + 1)
      BY <2>1, <3>3, BetweenWidens
    <3>. QED  BY <3>1, <3>2, <3>4
  <2>5. LastId' = LastId /\ OutputsGoWithNextTask' /\ phase' = "await" /\ typed' = typed
    BY <1>5 DEF ShellEnds, ghosts, LastId, OutputsGoWithNextTask, OutputInv
  <2>6. Between(shellOutputs', LastId, typed + 1)
    BY <1>5, <2>3, <2>4 DEF ShellEnds
  <2>. QED  BY <2>5, <2>6 DEF OutputInv
<1>6. CASE FirstSnapshot
  <2>1. typed' = typed /\ phase = "before" /\ LoopOrEnd(task.line, task.outputs)
    BY <1>6 DEF FirstSnapshot
  <2>2. CASE phase' = "run"
    <3>1. /\ ~NothingTyped(task.line)
          /\ prompts' = Append(prompts, [line |-> task.line, outputs |-> task.outputs])
      BY <2>1, <2>2 DEF LoopOrEnd
    <3>2. task.line \in Line /\ task.outputs \in Seq(1..MaxLines)
      BY <3>1, TaskTypes DEF TypeOK
    <3>3. OutputsGoWithNextTask' /\ LastId' = task.line.id
      BY <2>1, <3>1, <3>2, StartOrdersOutputs DEF OutputInv
    <3>. QED  BY <2>1, <2>2, <3>1, <3>3 DEF OutputInv
  <2>3. CASE phase' # "run"
    <3>1. phase' = "ended" /\ prompts' = prompts
      BY <2>1, <2>3 DEF LoopOrEnd
    <3>. QED  BY <2>1, <3>1 DEF OutputInv, OutputsGoWithNextTask, LastId
  <2>. QED  BY <2>2, <2>3
<1>7. CASE ToggleSteerMode
  <2>1. UNCHANGED <<phase, task, shellOutputs, prompts, typed>>
    BY <1>7 DEF ToggleSteerMode, loopVars, ghosts
  <2>. QED  BY <2>1, OutputsKept
<1>8. CASE SubmitQuit \/ Escape \/ \E k \in Kinds : SubmitLine(k)
  <2>1. typed' = typed + 1 /\ typed' \in 1..MaxLines /\ typed \in Nat
    <3>1. Typing
      BY <1>8 DEF SubmitQuit, Escape, SubmitLine
    <3>2. typed \in 0..MaxLines
      BY DEF TypeOK
    <3>. QED  BY <3>1, <3>2, SessionAssumption DEF Typing
  <2>2. CASE isAgentRunning
    <3>1. UNCHANGED <<phase, prompts>> /\ phase = "run"
      BY <1>8, <2>2 DEF SubmitQuit, Escape, SubmitLine, loopVars, ghosts, isAgentRunning
    <3>2. LastId' = LastId /\ LastId \in Nat
      BY <3>1, LastIdType DEF LastId
    <3>. QED  BY <2>1, <3>1, <3>2 DEF OutputInv, OutputsGoWithNextTask
  <2>3. CASE ~isAgentRunning
    <3>1. CASE Resolve(Null)
      BY <2>1, <3>1, TaskTypes, ResolveInOrder
    <3>2. ASSUME NEW k \in Kinds, Resolve([id |-> typed', kind |-> k])
          PROVE  OutputInv'
      <4>1. [id |-> typed', kind |-> k] \in Line
        BY <2>1 DEF Line
      <4>. QED  BY <2>1, <3>2, <4>1, ResolveInOrder
    <3>. QED  BY <1>8, <2>3, <3>1, <3>2 DEF SubmitQuit, Escape, SubmitLine
  <2>. QED  BY <2>2, <2>3
<1>9. CASE Stopped
  BY <1>1, <1>9 DEF Stopped
<1>10. ASSUME NEW b \in Budgets, EnterBudget(b)
       PROVE  OutputInv'
  <2>1. /\ phase = "budget" /\ UNCHANGED <<task, shellOutputs, prompts, typed>>
        /\ phase' \in {"first", "ended"}
    BY <1>10 DEF EnterBudget, ghosts
  <2>2. shellOutputs' = <<>> /\ LastId' = LastId /\ OutputsGoWithNextTask'
    BY <2>1 DEF TaskInv, SetupPhases, LastId, OutputsGoWithNextTask, OutputInv
  <2>. QED  BY <2>1, <2>2, BetweenEmpty DEF OutputInv
<1>. QED  BY <1>1, <1>2, <1>3, <1>4, <1>5, <1>6, <1>7, <1>8, <1>9, <1>10 DEF Next, User, Loop, Setup

(* What the user enters is acted on: after a run that did not fail no queued line is left when the
   session waits for a task, and shell output goes once, in order, with the task typed next. *)
THEOREM LinesReach == Spec => []LinesReachTheAgent
<1>1. Init => QueueInv /\ OutputInv
  BY SessionAssumption DEF Init, QueueInv, NoLineLeftQueued, OutputInv, LastId, OutputsGoWithNextTask
<1>2. TypeOK /\ TaskInv /\ QueueInv /\ OutputInv /\ [Next]_vars => QueueInv' /\ OutputInv'
  BY QueueNext, OutputNext
<1>3. QueueInv /\ OutputInv => LinesReachTheAgent
  BY DEF QueueInv, OutputInv, LinesReachTheAgent
<1>. QED  BY <1>1, <1>2, <1>3, TypesHold, PTL DEF Spec
=============================================================================
