------------------------------ MODULE ReactLoop ------------------------------
(***************************************************************************)
(* The ReAct leaf (harness/react.rs): a window of turns, each a final      *)
(* response or a batch of tool calls, between hooks that may halt, pause   *)
(* or send the loop round again, and two circuit breakers.  Around it:     *)
(* ReactConfig::run, which charges the window to the leaf's budget; for a  *)
(* bare leaf the driving round that resolves its exhaustion, and           *)
(* resume_inner and resume_consult_inner, which answer its pauses.  A leaf *)
(* that is the execute step of a PlanExecute stops where its parent takes  *)
(* over.                                                                   *)
(*                                                                         *)
(* One task runs all of this, so a step here is a stretch of code up to    *)
(* the next choice of the model, a tool, the host or the human.  Of the    *)
(* transcript only the calls and which of them have results are kept.      *)
(***************************************************************************)
EXTENDS BudgetScope, FiniteSets, SequencesExt

CONSTANTS
    Configs,        \* the leaves and host settings to consider
    Tools, Send,    \* the tools; Send is send_message
    Args,           \* arguments of a call
    BatchSize,      \* bound: calls in one batch
    MaxGrants,      \* AutoContinue: how many grants
    StepsPerGrant,  \* AutoContinue and ContinueWithBudget: how many steps
    SchemaRetries,  \* output_schema_max_retries
    MaxPauses       \* bound: pauses that are resumed

Outcomes == {"ok", "error", "refused", "fatal", "hand over", "clarify", "consult"}

\* Whether the leaf is bare or the execute step of a plan, the turns run before
\* it, its BudgetPolicy (PerLoop or TotalSteps) with its allowance, max_turns,
\* what it does when exhausted and the EscalationMode; error_loop_threshold and
\* max_stop_blocks; whether it has an output schema, tool_call_nudge and the
\* adaptive prompt-tool wrapper; whether the host's middleware and termination
\* policy interfere; and what its tools may do.
Config == [step : BOOLEAN, start : Nat, policy : {"loop", "total"}, leaf : Caps,
           max : Caps, behavior : Behaviors, mode : {"surface", "auto", "autonomous"},
           threshold : Nat, blocks : Nat, schema : BOOLEAN, nudge : BOOLEAN,
           adaptive : BOOLEAN, host : BOOLEAN, outcomes : SUBSET Outcomes]

ASSUME ReactLoopAssumption ==
    /\ Configs \subseteq Config
    /\ Send \in Tools
    /\ BatchSize \in Nat /\ MaxGrants \in Nat /\ StepsPerGrant \in Nat
    /\ SchemaRetries \in Nat /\ MaxPauses \in Nat

MaxNudges == 2

VARIABLES
    conf,    \* what the leaf is configured with; it never changes
    caps,    \* the leaf allowance and max_turns as grants have left them
    round,   \* the driving round: its continues, auto grants and last exhaustion
    pc,      \* where the leaf is
    turns,   \* budget_used.turns
    win,     \* the locals of the window
    batch,   \* the tools of the batch being worked off, and the next of them
    asked,   \* calls recorded in the transcript
    open,    \* recorded calls without a result
    pause,   \* what a pause waits for, and the calls it carries
    result,  \* what the run returned
    used,    \* pauses resumed so far
    hist     \* for the properties only: what has happened

envVars == <<conf, used>>
driveVars == <<caps, round>>
vars == <<envVars, driveVars, pc, turns, win, batch, asked, open, pause, result, hist>>

PCs == {"top", "final", "batch", "calls", "resolving", "exhausted", "paused", "ended"}

Results == {"none", "success", "budget exceeded", "tool error loop",
            "repeated call", "halted", "failed", "schema violation", "skipped"}

\* A run of equal calls: of what, how long, and whether the model was warned.
NoCall == <<>>
Streaks == [of : (Tools \X Args) \cup {NoCall}, count : Nat, warned : BOOLEAN]
NoStreak == [of |-> NoCall, count |-> 0, warned |-> FALSE]

Windows == [leaf : BOOLEAN, schema : BOOLEAN, refund : Nat, blocks : Nat,
            retries : Nat, nudges : Nat, called : BOOLEAN, escalated : BOOLEAN,
            errors : [Tools -> Streaks], repeats : Streaks]

\* leaf: run by ReactConfig::run, not by a resume through ReactParams::legacy.
NewWindow(leaf, schema) ==
    [leaf |-> leaf, schema |-> schema, refund |-> 0, blocks |-> 0, retries |-> 0,
     nudges |-> 0, called |-> FALSE, escalated |-> FALSE,
     errors |-> [t \in Tools |-> NoStreak], repeats |-> NoStreak]

NoPause == [kind |-> "none", from |-> 0, steps |-> 0, continues |-> 0]
NoBatch == [tools |-> <<>>, pos |-> 1]

\* What the calls of the window came to, which breaker stopped it, its turns that
\* were not pure narration, and the calls that will never get a result.
NoHistory == [log |-> <<>>, broke |-> "none", productive |-> 0, forsaken |-> {}]

Rounds == [chain : Caps, seed : Nat, auto : Nat, steps : Nat, cause : Results]

PausedStates ==
    [kind : {"none", "budget", "review", "approval", "hand over", "clarify", "consult"},
     from : Nat, steps : Nat, continues : Nat]

Outcome == [call : Tools \X Args, ok : BOOLEAN, warned : BOOLEAN]

\* What may have happened after n calls.
Histories(n) ==
    [log : Seq(Outcome), broke : {"none", "errors", "repeats"}, productive : Nat,
     forsaken : SUBSET (1..n)]

TypeOK ==
    /\ conf \in Configs
    /\ caps \in [leaf : Caps, max : Caps]
    /\ round \in Rounds
    /\ pc \in PCs
    /\ turns \in Nat
    /\ win \in Windows
    /\ batch \in [tools : Seq(Tools), pos : Nat]
    /\ asked \in Nat
    /\ open \in SUBSET (1..asked)
    /\ pause \in PausedStates
    /\ result \in Results
    /\ used \in Nat
    /\ hist \in Histories(asked)

Init ==
    /\ conf \in Configs
    /\ caps = [leaf |-> conf.leaf, max |-> conf.max]
    /\ round = [chain |-> NoCap, seed |-> 0, auto |-> 0, steps |-> 0, cause |-> "none"]
    /\ pc = "top" /\ turns = conf.start
    /\ win = NewWindow(TRUE, conf.schema)
    /\ batch = NoBatch /\ asked = 0 /\ open = {}
    /\ pause = NoPause /\ result = "none" /\ used = 0
    /\ hist = NoHistory

-----------------------------------------------------------------------------
(* Ends of a window.                                                       *)

Lower(a, b) == IF a = NoCap THEN b ELSE IF b # NoCap /\ b < a THEN b ELSE a

\* effective_turn_cap: only a PerLoop policy bounds the window's own turns.
WindowCap == Lower(IF conf.policy = "loop" THEN caps.leaf ELSE NoCap, caps.max)

\* The gate, which discounts refunded turns but never passes max_turns.
TurnCap ==
    IF WindowCap = NoCap THEN NoCap ELSE Lower(WindowCap + win.refund, caps.max)

OutOfTurns == TurnCap # NoCap /\ turns >= TurnCap

Charges(t) == Fits(NewScope(caps.leaf, round.seed), t)

\* The leaf's own allowance was what stopped it, or does not cover what it ran,
\* or the tool-error breaker stopped it.
LeafExhausts(r, t) ==
    /\ win.leaf
    /\ \/ r = "tool error loop"
       \/ ~ Charges(t)
       \/ r = "budget exceeded" /\ caps.leaf # NoCap /\ t >= caps.leaf

\* What the exhaustion reports as steps_taken.
LeafSteps(r, t) == IF r = "tool error loop" \/ Charges(t) THEN t ELSE 0

\* h is the history but for the calls an exhaustion leaves without a result.
WindowEnds(r, t, h) ==
    /\ turns' = t
    /\ \/ /\ LeafExhausts(r, t)
          /\ pc' = IF conf.step THEN "exhausted" ELSE "resolving"
          /\ round' = [round EXCEPT
                !.steps = LeafSteps(r, t),
                !.cause = IF r = "tool error loop" THEN r ELSE "budget exceeded"]
          /\ hist' = [h EXCEPT !.forsaken = open]
          /\ UNCHANGED result
       \/ /\ ~ LeafExhausts(r, t)
          /\ pc' = "ended" /\ result' = r /\ hist' = h
          /\ UNCHANGED round
    /\ UNCHANGED <<envVars, caps, win, batch, asked, open, pause>>

\* Mistaken: the call that asks is taken for settled.
CarriesAfter(kind, from) == [NoPause EXCEPT !.kind = kind, !.from = from + 1]

\* The calls a pause carries: those from the given one on.
Carries(kind, from) == [NoPause EXCEPT !.kind = kind, !.from = from]

Pauses(kind, from) ==
    /\ pc' = "paused"
    /\ pause' = Carries(kind, from)
    /\ batch' = NoBatch
    /\ UNCHANGED <<envVars, driveVars, turns, win, asked, open, result>>

-----------------------------------------------------------------------------
(* A turn.                                                                 *)

\* The turn cap, or a limit on tokens, time or cost.
BudgetStops ==
    /\ pc = "top"
    /\ OutOfTurns \/ conf.host
    /\ WindowEnds("budget exceeded", turns, hist)

BeforeTurn ==
    /\ pc = "top" /\ ~ OutOfTurns /\ conf.host
    /\ \/ WindowEnds("halted", turns, hist)
       \/ Pauses("review", asked + 1) /\ UNCHANGED hist

\* The model answers in prose.
TurnAnswers ==
    /\ pc = "top" /\ ~ OutOfTurns
    /\ turns' = turns + 1
    /\ pc' = "final"
    /\ hist' = [hist EXCEPT !.productive = @ + 1]
    /\ UNCHANGED <<envVars, driveVars, win, batch, asked, open, pause, result>>

Batches == UNION {[1..n -> Tools] : n \in 0..BatchSize}

\* Mistaken: any turn that sends a message is narration.
AnyNarration(tools) == \E i \in DOMAIN tools : tools[i] = Send

\* A turn of send_message alone.
Narration(tools) == tools # <<>> /\ \A i \in DOMAIN tools : tools[i] = Send

\* Narration is refunded, at most WindowCap times.
Refund(tools) ==
    IF Narration(tools) /\ (WindowCap # NoCap => win.refund < WindowCap) THEN 1 ELSE 0

\* The model asks for tools; the calls enter the transcript before anything else.
TurnCalls ==
    \E tools \in Batches :
        /\ pc = "top" /\ ~ OutOfTurns
        /\ turns' = turns + 1
        /\ win' = [win EXCEPT !.refund = @ + Refund(tools),
                              !.called = @ \/ tools # <<>>]
        /\ pc' = "batch"
        /\ batch' = [tools |-> tools, pos |-> 1]
        /\ asked' = asked + Len(tools)
        /\ open' = open \cup (asked + 1)..(asked + Len(tools))
        /\ hist' = [hist EXCEPT !.productive =
                        IF tools # <<>> /\ Range(tools) = {Send} THEN @ ELSE @ + 1]
        /\ UNCHANGED <<envVars, driveVars, pause, result>>

\* The model call fails, or asks for a tool annotated always_halt.
TurnFails ==
    /\ pc = "top" /\ ~ OutOfTurns
    /\ WindowEnds("failed", turns + 1, hist)

-----------------------------------------------------------------------------
(* A final response: each check may send the loop round again.             *)

\* An execute step about to end without having called a tool.
Idle == conf.nudge /\ conf.step /\ ~ win.called /\ ~ win.schema

MayEscalate == conf.adaptive /\ ~ win.escalated
MustNudge == Idle /\ win.nudges < MaxNudges

GoesRound(w) ==
    /\ win' = w
    /\ pc' = "top"
    /\ UNCHANGED <<envVars, driveVars, turns, batch, asked, open, pause, result, hist>>

\* To prompt-based tool calls, when the step is idle or the prose means to act.
FinalEscalates ==
    /\ pc = "final" /\ MayEscalate
    /\ GoesRound([win EXCEPT !.escalated = TRUE])

FinalNudged ==
    /\ pc = "final" /\ ~ (MayEscalate /\ Idle) /\ MustNudge
    /\ GoesRound([win EXCEPT !.nudges = @ + 1])

Completing == pc = "final" /\ ~ (MayEscalate /\ Idle) /\ ~ MustNudge

\* BeforeCompletion forces another turn, halts or pauses; the termination policy halts.
BeforeCompletion ==
    /\ Completing /\ conf.host
    /\ \/ GoesRound(win)
       \/ WindowEnds("halted", turns, hist)
       \/ Pauses("review", asked + 1) /\ UNCHANGED hist

\* A Stop hook blocks; once max_stop_blocks is spent its block is ignored.
StopBlocked ==
    /\ Completing /\ win.blocks < conf.blocks
    /\ GoesRound([win EXCEPT !.blocks = @ + 1])

SchemaFails ==
    /\ Completing /\ win.schema
    /\ \/ /\ win.retries < SchemaRetries
          /\ GoesRound([win EXCEPT !.retries = @ + 1])
       \/ /\ win.retries >= SchemaRetries
          /\ WindowEnds("schema violation", turns, hist)

Succeeds ==
    /\ Completing
    /\ WindowEnds("success", turns, hist)

-----------------------------------------------------------------------------
(* A batch of tool calls.                                                  *)

First == asked - Len(batch.tools) + 1
Current == First + batch.pos - 1
Tool == batch.tools[batch.pos]

\* BeforeTool lets the calls through, halts, or pauses for approval.
BeforeTool ==
    /\ pc = "batch"
    /\ \/ /\ pc' = "calls"
          /\ UNCHANGED <<envVars, driveVars, turns, win, batch, asked, open, pause,
                         result, hist>>
       \/ conf.host /\ WindowEnds("halted", turns, hist)
       \/ conf.host /\ Pauses("approval", First) /\ UNCHANGED hist

Working == pc = "calls" /\ batch.pos <= Len(batch.tools)

\* append_tool_result, and on to the next call.
Answered ==
    /\ open' = open \ {Current}
    /\ batch' = [batch EXCEPT !.pos = @ + 1]
    /\ UNCHANGED <<envVars, driveVars, pc, turns, asked, pause, result>>

\* Mistaken: the call is passed over without a result.
PassedOver ==
    /\ batch' = [batch EXCEPT !.pos = @ + 1]
    /\ UNCHANGED <<envVars, driveVars, pc, turns, asked, open, pause, result>>

\* Mistaken: a refused call is passed over.
CallDropped ==
    /\ Working /\ "refused" \in conf.outcomes
    /\ PassedOver
    /\ UNCHANGED <<win, hist>>

\* The sandbox refuses the call: an error result the breakers never see.
CallRefused ==
    /\ Working /\ "refused" \in conf.outcomes
    /\ Answered
    /\ UNCHANGED <<win, hist>>

\* An unrecoverable error, or a sandbox violation that halts.
CallIsFatal ==
    /\ Working /\ "fatal" \in conf.outcomes
    /\ WindowEnds("failed", turns, hist)

\* A subagent pauses or a tool escalates: only the calls after it are carried.
CallHandsOver ==
    /\ Working /\ "hand over" \in conf.outcomes
    /\ Pauses("hand over", Current + 1)
    /\ hist' = [hist EXCEPT !.forsaken = @ \cup {Current}]

\* A clarification or a consult: the asking call is carried as well.
CallAsks ==
    \E kind \in {"clarify", "consult"} \cap conf.outcomes :
        /\ Working
        /\ Pauses(kind, Current)
        /\ UNCHANGED hist

\* Mistaken: a warning given for an earlier run of calls still counts.
GrownWarned(streak, call) ==
    IF streak.of = call THEN [streak EXCEPT !.count = @ + 1]
    ELSE [of |-> call, count |-> 1, warned |-> streak.warned]

\* Mistaken: the count goes on when the arguments change.
GrownAnyArgs(streak, call) == [streak EXCEPT !.of = call, !.count = @ + 1]

\* A run of equal calls grows, or starts over with other arguments.
Grown(streak, call) ==
    IF streak.of = call THEN [streak EXCEPT !.count = @ + 1]
    ELSE [of |-> call, count |-> 1, warned |-> FALSE]

Breaks(streak) == conf.threshold > 0 /\ streak.count >= 2 * conf.threshold

Warns(streak) ==
    conf.threshold > 0 /\ streak.count >= conf.threshold /\ ~ streak.warned

Warned(streak) == [streak EXCEPT !.warned = @ \/ Warns(streak)]

\* The log is kept where breakers are on.
Logged(arg, ok, warned) ==
    IF conf.threshold = 0 THEN hist
    ELSE [hist EXCEPT !.log = Append(@, [call |-> <<Tool, arg>>, ok |-> ok, warned |-> warned])]

\* A recoverable error, with the arguments the call was last dispatched with: at 2N
\* the breaker stops the window, its result not appended; at N the model is warned.
CallErrs ==
    \E arg \in Args :
        LET streak == Grown(win.errors[Tool], <<Tool, arg>>) IN
        /\ Working /\ "error" \in conf.outcomes
        /\ \/ /\ Breaks(streak)
              /\ WindowEnds("tool error loop", turns,
                            [Logged(arg, FALSE, FALSE) EXCEPT !.broke = "errors"])
           \/ /\ ~ Breaks(streak)
              /\ Answered
              /\ win' = [win EXCEPT !.errors[Tool] = Warned(streak)]
              /\ hist' = Logged(arg, FALSE, Warns(streak))

\* A success ends the tool's run of errors; the same success over and over, but for
\* send_message, is warned of and stopped in the same way.
CallSucceeds ==
    \E arg \in Args :
        LET streak == Grown(win.repeats, <<Tool, arg>>)
            counted == conf.threshold > 0 /\ Tool # Send IN
        /\ Working /\ "ok" \in conf.outcomes
        /\ \/ /\ counted /\ Breaks(streak)
              /\ WindowEnds("repeated call", turns,
                            [Logged(arg, TRUE, FALSE) EXCEPT !.broke = "repeats"])
           \/ /\ counted /\ ~ Breaks(streak)
              /\ Answered
              /\ win' = [win EXCEPT !.errors[Tool] = NoStreak, !.repeats = Warned(streak)]
              /\ hist' = Logged(arg, TRUE, Warns(streak))
           \/ /\ ~ counted
              /\ Answered
              /\ win' = [win EXCEPT !.errors[Tool] = NoStreak]
              /\ hist' = Logged(arg, TRUE, FALSE)

\* AfterTool may halt; otherwise the next turn.
AfterTool ==
    /\ pc = "calls" /\ batch.pos > Len(batch.tools)
    /\ \/ /\ pc' = "top" /\ batch' = NoBatch
          /\ UNCHANGED <<envVars, driveVars, turns, win, asked, open, pause, result, hist>>
       \/ conf.host /\ WindowEnds("halted", turns, hist)

-----------------------------------------------------------------------------
(* The driving round of a bare leaf, and the answers to its pauses.        *)

Ends(r) == pc' = "ended" /\ result' = r

\* grant_task_budget and another round from where the last one started.
NextRound(granted) ==
    /\ caps' = [leaf |-> GrantPolicy(caps.leaf, granted),
                max |-> GrantMaxTurns(caps.max, granted)]
    /\ turns' = conf.start
    /\ win' = NewWindow(TRUE, conf.schema)
    /\ batch' = NoBatch /\ pc' = "top" /\ pause' = NoPause
    /\ hist' = [NoHistory EXCEPT !.forsaken = hist.forsaken]
    /\ UNCHANGED <<conf, asked, open, result>>

\* The count of continues threaded from round to round, or what the leaf reports.
Continues ==
    IF round.chain # NoCap THEN round.chain
    ELSE IF round.cause = "tool error loop" THEN 0 ELSE round.seed

Resolves == Resolution(NewScope(caps.leaf, Continues), conf.behavior)

Allowance == IF caps.leaf = NoCap THEN 1 ELSE caps.leaf

RoundContinues ==
    /\ pc = "resolving" /\ Resolves = "Continue"
    /\ NextRound(round.steps + Allowance)
    /\ round' = [round EXCEPT !.chain = Continues + 1, !.seed = 0]
    /\ UNCHANGED used

MayGrant == conf.mode = "auto" /\ round.auto < MaxGrants

\* Mistaken: the grants are counted down, from none.
CountedDown == round' = [round EXCEPT !.chain = NoCap, !.seed = 0, !.auto = @ - 1]

\* Mistaken: the grant is not counted.
Uncounted == round' = [round EXCEPT !.chain = NoCap, !.seed = 0]

\* The chain of continues is not threaded through an automatic grant.
Counted == round' = [round EXCEPT !.chain = NoCap, !.seed = 0, !.auto = @ + 1]

RoundGranted ==
    /\ pc = "resolving" /\ Resolves = "Escalate" /\ MayGrant
    /\ NextRound(round.steps + StepsPerGrant)
    /\ Counted
    /\ UNCHANGED used

RoundSurfaces ==
    /\ pc = "resolving" /\ Resolves = "Escalate" /\ conf.mode = "surface"
    /\ pc' = "paused"
    /\ pause' = [kind |-> "budget", from |-> asked + 1, steps |-> round.steps,
                 continues |-> Continues]
    /\ batch' = NoBatch
    /\ UNCHANGED <<envVars, driveVars, turns, win, asked, open, result, hist>>

RoundAborts ==
    /\ pc = "resolving"
    /\ \/ Resolves = "Fail"
       \/ Resolves = "Escalate" /\ ~ MayGrant /\ conf.mode # "surface"
    /\ Ends(round.cause)
    /\ UNCHANGED <<envVars, driveVars, turns, win, batch, asked, open, pause, hist>>

Resuming ==
    /\ pc = "paused" /\ ~ conf.step /\ used < MaxPauses
    /\ used' = used + 1

\* A budget pause: more turns, counted from the steps the exhaustion reported.
ResumeWithBudget ==
    /\ Resuming /\ pause.kind = "budget"
    /\ NextRound(pause.steps + StepsPerGrant)
    /\ round' = [chain |-> NoCap, seed |-> pause.continues, auto |-> 0, steps |-> 0,
                 cause |-> "none"]

\* Skip is an empty success, any other answer a failure.
ResumeEndsBudget ==
    /\ Resuming /\ pause.kind = "budget"
    /\ Ends("skipped") \/ Ends("budget exceeded")
    /\ UNCHANGED <<conf, driveVars, turns, win, batch, asked, open, pause, hist>>

Pending == pause.from .. asked

\* Pending calls get their results or are passed over; the window that follows is
\* run without the leaf around it: no schema, no charge, no exhaustion behaviour.
LeafOnly(answered) ==
    /\ win' = NewWindow(FALSE, FALSE)
    /\ pc' = "top" /\ pause' = NoPause
    /\ open' = open \ answered
    /\ hist' = [NoHistory EXCEPT !.forsaken = hist.forsaken \cup (Pending \ answered)]
    /\ UNCHANGED <<conf, driveVars, turns, batch, asked, result>>

\* An answered question and a consult give the asking call the answer and dispatch
\* the rest; Allow dispatches them all and Deny answers them all with an error.
ResumeAnswersAll ==
    /\ Resuming /\ pause.kind # "budget"
    /\ LeafOnly(Pending)

\* AllowWithModification dispatches what the host hands back.
ResumeModified ==
    /\ Resuming /\ pause.kind \notin {"budget", "consult"}
    /\ \E calls \in SUBSET Pending : LeafOnly(calls)

\* Reject, and a text for anything but a question, only add a user message.
ResumeWithText ==
    /\ Resuming /\ pause.kind \notin {"budget", "consult"}
    /\ LeafOnly({})

\* Halt, and an escalation where none was asked for.
ResumeHalts ==
    /\ Resuming /\ pause.kind \notin {"budget", "consult"}
    /\ Ends("halted")
    /\ UNCHANGED <<conf, driveVars, turns, win, batch, asked, open, pause, hist>>

-----------------------------------------------------------------------------

Window ==
    \/ BudgetStops \/ BeforeTurn \/ TurnAnswers \/ TurnCalls \/ TurnFails
    \/ FinalEscalates \/ FinalNudged \/ BeforeCompletion \/ StopBlocked
    \/ SchemaFails \/ Succeeds
    \/ BeforeTool \/ CallRefused \/ CallIsFatal \/ CallHandsOver \/ CallAsks
    \/ CallErrs \/ CallSucceeds \/ AfterTool

Drive == RoundContinues \/ RoundGranted \/ RoundSurfaces \/ RoundAborts

Resume ==
    \/ ResumeWithBudget \/ ResumeEndsBudget \/ ResumeAnswersAll
    \/ ResumeModified \/ ResumeWithText \/ ResumeHalts

Next == Window \/ Drive \/ Resume

Spec == Init /\ [][Next]_vars

\* The model, the tools and the host's callbacks return; nobody has to answer a pause.
FairSpec == Spec /\ WF_vars(Window \/ Drive)

-----------------------------------------------------------------------------
(* Properties.                                                             *)

Ledger == INSTANCE CallLedger WITH forsaken <- hist.forsaken

\* The loop keeps its ledger: whatever the batches, breakers, pauses, grants and
\* answers, no call is answered twice, and the model is only asked again when every
\* call is answered or was given up by one of the routes that do so.
LedgerKept == Ledger!Spec

\* A pause carries exactly the calls that still wait for a result: none that was
\* answered before it, and none forgotten (the pending_tool_calls of react.rs).
PauseCarriesTheRest ==
    pc = "paused" => Pending = open \ hist.forsaken

\* Narration is refunded, but never makes the window longer than twice its cap, nor
\* lets it take more productive turns than the cap (react.rs:336-341).
TurnsBounded ==
    WindowCap # NoCap =>
        /\ hist.productive <= WindowCap
        /\ turns <= 2 * WindowCap \/ turns = conf.start

\* The calls of a tool since its last success, and the successes but for messages, as
\* places in the log.
ErrorsSince(tool) ==
    {i \in DOMAIN hist.log :
        /\ hist.log[i].call[1] = tool
        /\ \A j \in DOMAIN hist.log :
              j >= i /\ hist.log[j].call[1] = tool => ~ hist.log[j].ok}

Successes == {i \in DOMAIN hist.log : hist.log[i].ok /\ hist.log[i].call[1] # Send}

\* The run of equal calls that some places end with.
Streak(places) ==
    {i \in places : \A j \in places : j > i => hist.log[j].call = hist.log[i].call}

Limit == 2 * conf.threshold

\* A breaker stops the window when, and only when, its last 2N outcomes are the same
\* call of one tool failing, or the same call succeeding, with no other between that
\* counts (react.rs:1540-1723).
BreakersExact ==
    conf.threshold > 0 =>
        /\ hist.broke = "errors" <=>
              \E t \in Tools : Cardinality(Streak(ErrorsSince(t))) >= Limit
        /\ hist.broke = "repeats" <=> Cardinality(Streak(Successes)) >= Limit

\* The run of calls a breaker stopped the window for.
Stopped ==
    Streak(IF hist.broke = "repeats" THEN Successes
           ELSE ErrorsSince(hist.log[Len(hist.log)].call[1]))

\* Nobody is stopped unwarned: in the run of calls that made a breaker stop the
\* window the model was sent one corrective message, after N calls of the 2N.
WarnedFirst ==
    hist.broke # "none" =>
        /\ Cardinality(Stopped) = Limit
        /\ \E w \in Stopped :
              /\ {i \in Stopped : hist.log[i].warned} = {w}
              /\ Cardinality({i \in Stopped : i <= w}) = conf.threshold

\* Nudges, stop hooks, schema retries, forced turns, refunds, continues and automatic
\* grants all end: a run comes to rest at an end, a pause or its parent.
ComesToRest == <>[](pc \in {"ended", "exhausted", "paused"})

=============================================================================
