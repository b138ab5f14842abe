# spore-core: a formal model of the harness

TLA+ specifications, model-checking runs and machine-checked proofs for the Rust
reference implementation of spore-core (`src/rust/crates/spore-core`). File names
below are relative to its `src/` directory unless they start with `src/`.

## The system

spore-core is the runtime around an LLM agent. An *agent* is one model call; the
*harness* drives a tree of loop strategies (ReAct, PlanExecute, SelfVerifying,
Ralph, HillClimbing) over it. A run is one asynchronous task: it ends, or it
returns a pause with its state serialised, and a later `resume()`, perhaps in
another process, goes on from that state. Nothing else survives a run except what
is in the storage provider.

| part | state | operations | talks to | what is hard | what makes it correct |
|---|---|---|---|---|---|
| **PlanExecute** (`harness/plan_execute.rs`) | durable task list, the walk's copy, turn cursor, failed set, outputs | plan phase, ready-set walk, four exhaustion arms, cascade, drain | execute child, task_list tool, run store, budget scope | the agent edits the list the walk is working on; pauses, resumes, crashes | blockers before dependents, nothing lost, nothing run twice, nothing behind a failure run, success means done |
| **Task graph** (`tasklist.rs`, `tools/tasklist.rs`) | tasks, statuses, blocked-by edges | add, update, complete, next_ready, closures | the walk and the agent | two writers | acyclic, transitions respected |
| **Budget** (`harness/budget.rs`, `strategy_support.rs`, `strategies.rs`) | a stack of scopes; allowance, taken, continues, grants | charge, resolve, continue, grant | every strategy | grants at a limit, charges that do not fit | a scope never holds more than its allowance (`TypeOK` of PlanExecute and SelfVerify) |
| **Run driver** (`harness/run.rs`) | the round: task, seed, grants used | run, resume, answer pending calls, escalate | every strategy, storage | an answer must fit the pause it answers | one result per call, one decision per pause |
| **ReAct loop** (`harness/react.rs`) | transcript, turns, breaker counters, retries | gate, turn, dispatch of a batch, final response, compaction | agent, tools, hooks, middleware | a batch cut by a pause, several sources of going round again | it ends; every call has one result |
| **SelfVerifying** (`harness/self_verifying.rs`) | build, evaluate, verify phase, scope | phases, verdict | inner strategy, verifier | budgets of the phases | accepted means verified on the last build |
| **Ralph** (`harness/ralph.rs`) | window number, fresh session | window, completion check | inner strategy, two entries of the run store | failing windows, a host that writes between the reads | at most max_resets windows, success only if complete, completion not missed |
| **HillClimbing** (`harness/hill_climbing.rs`, `strategy_executor.rs`) | current and best candidate, stagnation, rows | baseline, iteration, keep, discard, apply | metric, version control | errors between commit and reset, pauses | the tree at the end is the best candidate |
| **Outbox** (`observability_outbox.rs`) | files of a session, writer, failed legs, marker | emit, rotate, flush, cleanup | file system, OTLP, store | crash between rename and reopen | no line lost unnoticed, order kept |
| **VM sandbox** (`sandbox_petri.rs`) | slot, VMs of the host, owners | boot, run, shutdown, reap | VM back end, other hosts | abandoned boots, dead hosts | no VM leaked, none of a live host reaped |
| **Tool registry** (`tool_registry.rs`) | tools, sets, loaded list | dispatch, search, open, advertise | tools | eviction after any mix of uses | the most recently used stay, within the budget |
| **Storage** (`storage.rs`) | cells per session and key | get, put, list | everything | read then write | one live run per tag |
| **Context, compaction, cache, prompts** | messages and the rich history beside them, tokens used, attempts | append, seed, compact | ReAct loop, a verifier | two copies of one history | no message lost, the count is that of the history |
| **Hooks, middleware, termination, sensors** | chains | fire at six points | ReAct loop | order of decisions | a halt halts |
| **Memory, guides, skills** | versioned records behind a lock | store, deprecate, review, select | tools, prompts | merges of versions | history kept, proposals wait |
| **Agent, model clients, tools, MCP, eval, CLI, ports** | none across calls | wire formats, HTTP, files | | | |

`PROJECT.json` lists every one of them with what is modelled of it, and the hazards
at their lines.

## Plan

1. `TaskGraph`, `BudgetScope`, `PlanExecute`: the walk, the only place where two
   writers share durable state. Done, with proofs.
2. `ReactLoop` over `CallLedger`: the leaf, its charge, the rounds of a bare leaf and
   the answers to its pauses. Done, with proofs.
3. `Outbox` over `TraceLog`: writer, rotation, flush, cleanup, crash. Done, with proofs.
4. `HillClimb`: workspace, current, best, ledger. Done, with proofs.
5. `SelfVerify` with `Ralph` around it: phases under one scope, windows, checkpoint.
   Done, with proofs.
6. `PetriVm`: several hosts, boots, reaping. Done, with proofs.
7. `Compaction`, `ToolSearch`, `Memory`: what a session, a window and a project
   remember. Done, with proofs.

Every module takes its parameters as CONSTANTS with a named assumption, has one
action per operation, and declares nothing RECURSIVE, so that its invariants can be
proved. Every safety property of a passing run is a theorem; liveness stays with TLC.

## Modules

**BudgetScope** (`harness/budget.rs`, grants of `strategy_support.rs`): a scope as a
record, `charge`, `consume_continue`, `resolve_exhausted`, `grant_auto_continue`,
`grant_budget_policy`, `grant_task_budget` as operators. A nest of `Continue` layers
is the sequence of their maxima and the terminal behaviour inside.

**TaskGraph** (`tasklist.rs`): a list is a sequence whose index is the task id, ids
being 1, 2, 3, ... and never reused. `validate_transition`, `add`, `next_ready`, the
two transitive closures (as least fixed points over sets, not recursion) and the
cascade.

**PlanExecute** (`harness/plan_execute.rs`, with its surroundings): variables
`durable` (the list in the run store), `mem` (the walk's), `cur`, `carried` (turn
cursor), `scope`, `failed`, `first`, `outputs`, `reattach`, `attempt` are the locals
of `run`; `entry` is how `run` is called (resume seed, continue flag, continues
used); `paused` what a pause carries; `driven` a local of the driving round. `hist`
is for the properties only. Actions:

| action | code |
|---|---|
| `EnterWalk`, `EnterPlan` | plan phase skipped or list cleared (403-518), stalled task (724-746) |
| `AgentAdds`, `AgentUpdates` | the task_list tool inside a step or the first plan attempt |
| `PlanAnswered`, `PlanFails`, `PlanPauses` | 519-714 |
| `Pick` | next_ready, InProgress, persist (786-803) |
| `StepSucceeds`, `StepFails`, `StepHitsGlobalLimit`, `StepExhausted`, `StepPauses` | the step's return: reload (912), then its arm (918-1230) |
| `Drain` | 1234-1274 |
| `DriveResolves` | the driving round on an unresolved exhaustion (run.rs 504-621) |
| `ResumeWithBudget`, `-Answer`, `-Skip`, `-WithoutWalk` | resume_inner (run.rs 715-863, 996-1191) |
| `RunAgain`, `Crash` | next Ralph window, next run, process death |

The reload and the outcome of a step are one action: no other code runs between
them, the child having returned. A step itself is open: between `Pick` and its
return the agent's edits interleave.

**PlanExecuteProofs**: the theorems, with the lemmas about the lists of `TaskGraph`. **MCPlanExecute**: six
strategy trees and host settings.

In PlanExecute, abstracted: descriptions, ledger text, plan files, session contents, hooks that
rewrite an instruction; a failing storage put (the code ignores it, and so would the
model); a harness without durable storage; nested PlanExecute children. The planner
asked again after an empty plan has its tools suppressed, so it edits nothing. The
cycle check at execute entry is left out: `GraphIsDag` shows that it never fires.

**CallLedger**: the abstract specification of a transcript: calls asked for, calls
without a result, calls given up for good. The model is asked again only when nothing
else is open; a result goes to an open call.

**ReactLoop** (`harness/react.rs`, the rest of `harness/run.rs`): the leaf as a state
machine. `win` holds the locals of `run_react_inner` (refunds, nudges, stop blocks,
schema retries, escalation flag, both breakers), `turns` is `budget_used.turns`,
`batch` the calls being worked off and the next of them, `asked` and `open` what the
transcript says of calls and results, `caps` and `round` the allowance and the locals
of the driving round, `pause` a `PausedState` by its kind and the first call it
carries. `hist` is for the properties only. One task runs all of it, so an action is a
stretch of code up to the next choice of the model, a tool, the host or the human:

| action | code |
|---|---|
| `BudgetStops`, `BeforeTurn` | turn gate and first hook (react.rs 368-455) |
| `TurnAnswers`, `TurnCalls`, `TurnFails` | the model call, the refund, recording the calls (584-603, 1088-1147, 1970) |
| `FinalEscalates`, `FinalNudged`, `BeforeCompletion`, `StopBlocked`, `SchemaFails`, `Succeeds` | the checks on a final response, in their order (719-1083) |
| `BeforeTool`, `CallRefused`, `CallIsFatal`, `CallHandsOver`, `CallAsks`, `CallErrs`, `CallSucceeds`, `AfterTool` | a batch, call by call (1149-1967) |
| within `WindowEnds` | the charge of the window and what it makes of the result (2145-2251) |
| `RoundContinues`, `-Granted`, `-Surfaces`, `-Aborts` | resolution of a bare leaf's exhaustion (run.rs 498-619) |
| `ResumeWithBudget`, `-EndsBudget`, `-AnswersAll`, `-Modified`, `-WithText`, `-Halts` | resume_inner and resume_consult_inner (run.rs 11-159, 740-1222) |

Abstracted: of a message only whether it is a call or its result; arguments to two
values; limits on tokens, time and cost, the termination policy and the hooks to
choices of a configuration in which the host interferes. Left out: compaction, steering,
streaming, argument repair. A BeforeTool hook may rewrite calls but keeps how many there
are, and tools are taken to be advertised. Pauses of an execute step belong to its
parent and are not resumed here.

**ReactLoopProofs**: its theorems. **MCReactLoop**: eight leaves.

**TraceLog**: the abstract specification of a session's files: an append-only log of
lines, no line twice, emptied by a cleanup alone. A log is the set of its lines and the
order among them, so that what a step may do to it is a relation between two sets.

**Outbox** (`observability_outbox.rs`): one session, since sessions share nothing but a
lock. `disk` holds the names in the session's directory, `inodes` what was written to the
files behind them, `writer` the `SessionWriter` in the provider's map, `jobs` where each
emitter is, `cleaner` where `cleanup_session` is. A handle and a name both refer to an
inode, so what is written through a handle to a renamed or removed file is where the
program puts it. Actions: `Emit`, `FlushBare` (trace_id_locked, which opens the writer),
`Acquire`, `AppendLine`, `AppendFails`, `Rename`, `Reopen`, `StoreLeg` (write_line and below),
`Mark` (the end of flush_session), `DropWriter`, `Unlink`, `RemoveDir`, `CleanupFails`
(cleanup_session, whose removal runs outside the lock) and `Crash`. A crash or an error
may leave a torn line; a line is the unit of size. Left out: the contents of a line, the
trace id, OTLP, the in-memory roll-up. One provider owns a session, as TRACE_SCHEMA.md
requires. **OutboxProofs**: its theorems. **MCOutbox** adds the symmetry of the emitters, sound here because all its
properties are safety properties that name no emitter.

**HillClimb** (`harness/hill_climbing.rs`, the HillClimbing steps of
`harness/strategy_executor.rs`, `metric.rs`): `tree` is the workspace as the set of edits
in it, `untracked` those of them in files git does not know, `head` what the last commit
holds, so that a SHA is the tree it names. `cand` is the `HillCandidate`, `rows` the
ledger, `scope`, `turns`, `given` the budget. `BaselineKept` and `BaselineFails`, then per
iteration `Iterates` (the gate), an `Edits` of the inner strategy in `TurnEnds` or
`TurnStops`, and `Keeps` or `Discards` with their git commands, each of which may fail when
there is version control that fails. `Stagnates`, `BudgetStops`, `ScopeGoesOn` and
`ScopeEnds` are the ways on and out; `RunsOn` and `RunsAnew` the driver. Scores are a few
integers and NaN; a workspace without usable version control has the SHA `NoSha`, which is
no set of edits. **HillClimbProofs**: its theorems.

**SelfVerify** (`harness/self_verifying.rs`, `verifier.rs`): `built`, `review` and `suite`
hold what a phase made, saw and tested, as the number of the build; `session` the verdicts
in the build's conversation. A phase takes up to a bound of turns and may succeed, fail,
run out, pause or escalate. The strategy goes on with the session its build ended with
(self_verifying.rs:373-382). That of a leaf, a ReAct strategy whose conversation is not
compacted, is the one it was given; any other build may end with a session of its own or
with an empty one (plan_execute.rs:449, hill_climbing.rs:395, strategy_executor.rs:29), so
`AfterBuild` lets it keep any part of the verdicts. `told`, what a build was started with, is
for the properties only. **Ralph** (`harness/ralph.rs`) EXTENDS it: a window is a run of
the strategy on a new conversation and scope (`Opens`); the checkpoint is two entries that the
host writes one at a time, whenever it likes (`HostWrites`), and that are read one after the
other when a window ends (`ReadsProgress`, `ReadsFeatures`), but for one that ran out of
budget (`GivesWindowUp`). `withdrawn`, that progress was taken back between the two reads, is
for the properties only. With `NoRalph` the strategy is the whole task. **MCRalph** has the
configurations of both, **RalphProofs** the theorems.

**PetriVm** (`sandbox_petri.rs`): hosts are processes under pids that are given again.
`slot` is the VM a host has, `ensure` its command that waits for a boot,
`boots` the blocking creates in flight, `killing` the tear-downs in the background,
`listed` and `overlay` what the back end has of VMs and disks, `reaper` where a host that
starts is in `reap_macos_orphans`. `orphans` and `abandoned` are for the properties. The
back end is external: a create makes the overlay, then the VM is listed, then the call
returns, and its host may have given up at any of these points. **PetriVmProofs**: its
theorems.

**Compaction** (`compaction_adapter.rs`, `context.rs`, `harness/compaction.rs`): `messages`
is what the loop has in the session, `rich` the state kept beside it in the extras, each
message a size and the original messages it stands for. `Seeds` is the host,
`Speaks` and `EndsBatch` the loop, `Prepares` and `Summarises` one compaction with its
attempts. Sizes are positive numbers, the verifier passes a summary or not. A warning is
emitted when observability is configured (harness/compaction.rs:98), which the model takes for
granted. `UsedIsExact` is about overheads that are not below nothing, and leaves out histories in which
a summary outgrew what it replaced.

**ToolSearch** (`tool_registry.rs`, ToolSearchRegistry): `loaded` in its order, and
`shown`, what the last turn advertised. `Turn` is `schemas()`, which evicts;
`Searches`, `Opens` and `Calls` are the three ways a tool gets loaded. Which tools a query
hits is a choice of the environment; the search tool's name is nobody else's; namespaces are
as the constructor leaves them, with members of the catalogue, at least one and none twice.
`used` and `after`, which of two tools was used after the other, are for the properties only.
**ContextProofs**: the theorems of Compaction and ToolSearch, in one module for the lemmas
on sequences and numbers they share.

**Memory** (`memory.rs`): the semantic records, current and archived, under any ids, and the
counter that names the archives. `ArchiveId` is the id `next_archive_id` makes of an id and a
number; callers store under such ids too, and their records (`Given`) come with any status,
version and links. A content is the set of the stores that wrote it. `said`, what was stored
under each id, `first`, the version and links its first record had, and `stores` are for the
properties only. A version is a natural number here, a u32 in the code. **MemoryProofs**: its
theorems.

## Runs

| run | asks | bounds |
|---|---|---|
| `plan_execute` | type, order, acyclicity, success once, no run behind a failure, quiet drain, no lost edit, every run ends or pauses | 3 tasks, 2 agent edits, 2 turns per window, 1 pause, 2 runs, 1 grant, 6 configurations |
| `plan_execute_continue` | violated: a granted Continue reschedules its task | 2 tasks |
| `react_loop` | the ledger is kept (refinement of CallLedger), pauses carry the rest, turns bounded, breakers exact and preceded by a warning, every run comes to rest | 2 tools, 2 arguments, batches of 2, windows of at most 4 turns, breaker at 1 and 2, 1 continue, 1 grant, 1 schema retry, 1 resumed pause, 8 configurations |
| `hill_climb` | the pointers are those of the ledger, a kept SHA is the tree that was measured, the workspace is accounted for at every return, stagnation is exact, bounded climbs end | 8 configurations, 3 values and NaN, 1 turn per iteration, up to 2 runs, 1 grant |
| `ralph` | what is accepted was built, reviewed and tested in one iteration, the budget of the phases, feedback reaches a build before it can be lost, stays with a leaf and is not carried over, windows bounded, the report is true of the checkpoint, strategy and windows end, a completion that stays is reported | 7 configurations, at most 2 iterations, max_resets of 0 and 2 and no Ralph, 1 turn per phase, any checkpoint to begin with and 1 write of it, 1 grant, 2 runs |
| `outbox` | the files are an append-only log (refinement of TraceLog), a lost line is reported, files stay near their limit | 2 emitters, 3 lines, limits of 0 and 1 line, 1 cleanup or restart |
| `petri_vm` | no VM lost by its host, none reaped under a living one, what a dead host left is collected | 3 pids, 2 hosts at a time, 1 death, 2 VMs, a back end that fails or does not |
| `petri_overlay` | violated: the overlay of a VM that is up is spared | 2 pids, 2 hosts at a time, 1 death, 2 VMs, a back end that never fails |
| `compaction` | the history is whole through any number of compactions, the tokens follow it, an unverified summary is warned of, compacting ends | 7 messages of 1 or 2 tokens, 2 kept, summaries of 0, 1 and 3, 2 attempts, 2 seedings, a window of 0 or 6 |
| `compaction_recent` | violated: a compaction keeps the last messages | as above |
| `tool_search` | loaded is what was used last, a turn fits its budget and shows the tool used last | 5 deferred tools of 0 to 4 bytes, 4 budgets, top 2 |
| `memory` | nothing stored under an ordinary id is lost, its history has it all and is one chain unless a caller stored under its archives, proposals wait | 6 ids, 4 of them archival, 3 kinds of record, 4 stores, 2 replacements |

Three tasks give every shape of a dependency that matters: a chain, a fork, a join and
an unrelated task; the second edit lets the agent undo what the first or the walk
did; the second run is the one after a crash or the next window. The six
configurations cover both kinds of child, a cap of the leaf, of the run and of
neither, the three escalation modes, Fail, Escalate and Continue, inside and outside
Ralph. The system may stop, so deadlock is not checked.

For the leaf, batches of two are the smallest in which one call pauses while another
is answered or waits; a breaker at one stops within one batch and one at two needs
several turns; two tools and two arguments are what interrupts a streak; one of each
retry, grant and continue is what it takes to meet its end. The configurations are bare
leaves and execute steps, PerLoop and TotalSteps, and each of the sources that send the
loop round again, alone or with the ones it meets in the code.

For the outbox, a limit of 0 rotates after every line, which gives three segments and an
order among them; a limit of 1 is the smallest at which a file is reopened half full. Two
emitters are what races for the lock; one crash or cleanup can meet each of their steps.

For the climb, two runs over one workspace are what it takes for a baseline to meet what an
earlier climb left; three values and NaN order every pair of candidates and leave one that
is not comparable; a negative margin lets it go downhill. For the verifier, two iterations
are one whose feedback reaches another, two runs a pause and its resume; one of the
configurations has a strategy inside that may lose its conversation. Any checkpoint to begin
with and one write of it at any time meet every step of a window, the one between the two
reads among them; max_resets of 0 is taken as one window. For the VMs, three pids let a third host start after a death while a pid is given
to another process; two VMs are the abandoned and the retried one. For compaction, a
history is compacted at `keep + 1` messages, so that seven give three compactions in a row
with a summary of a summary; a summary of 3 outgrows what it replaces. For tool search, 2,
3, 6 and 8 bytes are below the baseline, the baseline alone, and two sizes at which the
fit of one tool decides about another, one of which takes no byte at all. For memory, the
ids are two ordinary ones, two archives of the first and one of the second, and the archive
of an archive; two replacements archive two memories, one twice, or an archive; the records a
caller brings are a new one, a proposal that claims to be Active and one whose version and
link were copied; with four stores a caller can be at an archival id before, between and
after the replacements. A climb without a limit on turns or stagnation
may go on for ever; the run keeps it finite through its other bounds (`ClimbEnds` asks for a limit).

**Fairness.** `FairSpec` asks weak fairness of the planner, the walk and the step:
the first and the last return because a leaf's turns are capped by its window or by
the model's answer, the walk because it is straight-line code between awaits. It asks
nothing of the agent's edits, of crashes or of the human. For the leaf it asks the
same of a window and a driving round together (`Window \/ Drive`): the loop always goes on
to its next await, and the model, tools and hooks return. It does not ask for any choice of
theirs, so `ComesToRest` holds against a model that narrates, a tool that fails and a hook
that forces turns for as long as the code lets them.

The climb, the strategy and the windows are each one task, so they get weak fairness as a
whole (`Climb`, `Windows`): the inner strategy, the metric command and the evaluator
return, and no choice of theirs is fair. Nothing is asked of the host that writes the
checkpoint or of the human. A compaction goes on (`Prepares`, and a summary turn of any
size): the loop awaits it. For the VMs the threads a host has started go on (`Kills`, the
back end's part of each create, the reaping of a host that has begun it), and someone
starts a host whenever there is room: `reap_orphans` runs only at a start, so nothing is
collected in a project nobody uses again. Hosts and the operating system owe nothing
else. `Outbox`, `ToolSearch` and `Memory` have safety properties only: their operations are
calls, each of which ends by itself.

## What is proved

For every set of configurations and every value of the bounds (assumption
`PlanExecuteAssumption`: the bounds are naturals; `NoCapAssumption`: NoCap is no
number), `PlanExecuteProofs` proves

- `TypeCorrect`, `BlockersAreDone`, `GraphStaysAcyclic`, `StepsSucceedOnce`,
  `GivenUpIsNotRun`, `ReturnsWhenNothingIsReady` (invariants), and
- `EditsSurvive` (the action property).

The argument is the inductive invariant `IInv`. The properties alone are not
inductive. `BlockersDone` needs that the step's task exists and that nothing
un-completes a task; picking needs to know that the copy the walk reads and the
durable list agree (`Walking`: equal but for a stalled task that a resume put back to
Pending in the copy alone). `CompletedOnce` needs `Recorded`: every step that
succeeded left its task Completed durably. `FailedNotRun` needs `FailedStay`: what was
given up is never Pending again. All of these follow from one relation between an old
and a new list, `Keeps` (no task lost, edges kept, Completed stays, what is not Pending
does not become Pending), which the lemmas about `TaskGraph` show of every way the list
changes; each action is then one lemma.

For every set of configurations, tools and arguments, every batch size and every bound
(assumption `ReactLoopAssumption`), `ReactLoopProofs` proves

- `TypeCorrect`, `PausesCarryTheRest`, `WindowsAreBounded`, `BreakersAreExact`,
  `WarningComesFirst` (invariants), and
- `LedgerIsKept`: the loop implements `CallLedger`.

Its invariant `IInv` adds two parts to the types. `Ledgered` says where a call without a
result can be: wherever the loop is about to ask the model, the open calls are the ones
given up; in the middle of a batch they are those and the batch's own from the current
one on; in a pause, those and the ones it carries. Neither the pause nor the ledger is
inductive without the other places. `Bounded` splits a window's turns into productive and
refunded ones, each at most the cap: the gate alone only bounds their sum while refunds
are still being given. The refinement then has two cases: `TurnCalls` asks for calls when
nothing but forsaken ones are open, and every other step `Settles`: it asks for nothing,
opens nothing, and forgets nothing that was given up.

The breakers need a second invariant on top, `Counting`. A breaker is a key and a number
in the locals of the window; the properties speak of the window's log of results, of which
they take the streak: the places since the last success of the tool (or of all successes)
that are the same call as the last of them. `Counts` says that each breaker still below
its limit holds exactly that (`Records`: its key is the call of the last place, its number
how many places the streak has, and the only warning among them is the one at N). A result
that is appended makes a streak one longer or starts a new one, and touches no other
(`StreakGrows`); a window that begins has an empty log. When a breaker stops the window the
streak has reached 2N, and from then on nothing is logged until the next window opens.

For every set of configurations, metric values and bounds (assumption
`HillClimbAssumption`: values are integers, NaN is none, the bounds are naturals),
`HillClimbProofs` proves `CandidatesAreLedger`, `LedgersAreReproducible`,
`TreesAreAccounted` and `StagnationStaysExact`. The ledger is read through CHOOSE (the last
kept row, the best one), so the invariant states who they are (`Pointers`): a last and a
best row exist once the climb has begun, and the candidate has their SHAs and scores. A row
that is added moves the last row only if it is kept, the best one only if it beats it, and what a
row names never changes. `Tree` accounts for the workspace in the middle of an iteration too
(what was accepted, what was never committed and one edit), without which keeping and
discarding restore nothing one can name. `Count` ties the counter to the rows: so many of
them at the end were not kept, and it stays below the limit while the climb goes on.

For every set of configurations and every bound (`SelfVerifyAssumption`,
`RalphAssumption`), `RalphProofs` proves `AcceptedWasReviewed`, `BudgetsHold`,
`FeedbackStays`, `WindowsStayBounded` (invariants) and `ReportsAreCheckpoints` (an action
property) of the strategy and of the windows around it. `Told`
says that each verdict is in the build's conversation or has been in one a build was started
with, and that a leaf's holds them all: a build takes from the conversation only what it was
started with. `HasRead` says that between the two reads progress is what was read or has been
taken back, without which the second read would decide about a checkpoint nobody knows.
`Current` says that the phases of an iteration are about the work as it is; it is what a resume or a continue in the wrong
place would break. `Spent` weighs the turns of all phases against the allowance: a refused
phase runs over by at most its own turns, and each continue and grant answers one refusal,
which is counted from the refusal on. `InBounds` says that the window which is open is one
there may be, without which opening the next may exceed them.

For any pids and any number of hosts, VMs and deaths (`PetriVmAssumption`),
`PetriVmProofs` proves `NoVmIsLost` and `OwnedAreSpared`. Its invariant says of each place
what may be there: the boot a command waits for is its host's own, and the slot is empty
meanwhile (`Attempts`); a boot in flight is waited for by its owner or was given up by it
(`Boots`); what is in a slot is up and nobody tears it down (`Slots`); a VM that no dead
host left is of a process that runs (`Hosted`). Pids are given again, so it is not the
owner's pid that tells an orphan but that its host died: that is why `NoVmIsLost` needs
`Hosted` and a boot that is not an orphan's. A reaper that took down a VM under a living
host would break `Hosted` first.

For any ids, archival or not, any version and links that callers put in a record and any
bounds (`MemoryAssumption`: an id is not an archival id of its own), `MemoryProofs` proves
`HistoriesAreWhole` and `ProposalsStayPending`. What was stored under an ordinary id may move
on when its archive is archived over, so the invariant says that it is in a record to which no
later archive comes (`HeldAt`, `Settled`): the counter never names one archive twice. That the
history of an id shows it all, and as one chain, needs that nobody else writes to the archives
it links, and is stated for the ids under whose archival ids no caller has stored
(`Undisturbed`); there it is in the record or in the archives made of it (`OwnKept`), whatever
the links lead to that the first record came with. One lemma says that a chain stays when its
record and archives do (`ChainStays`), another that a replacement elsewhere touches neither
(`OtherChains`).

For any emitters, files, lines, limits, cleanups and restarts, and a file system that may
fail or not (`OutboxAssumption`), `OutboxProofs` proves

- `OutboxIsALog`: the outbox implements `TraceLog`, so a step adds one new line at the end,
  empties the log for a cleanup, or leaves it alone; and `LogHasOneOrder`, an invariant of
  that log: its lines are totally ordered, each in one place,
- `NoSilentLoss` and `RotationIsPrompt` (invariants).

What a step does to the log is seen through names, while the writer holds a file. `LogInv`
ties them: one emitter at most is inside the lock, and while it is between rename and
reopen there is no active file (`Lock`); the writer's file is the active one whenever there
is one, and its next segment is later than all of them (`Handle`); two names never lead to
one file (`Named`); if a name leads to the writer's file, it is the last in the order of
reading (`Placed`), which is why an append through a handle to a renamed file still adds at
the end; and a line an emitter is about to write is in no file (`Fresh`). `NoSilentLoss`
adds who tore what: while no append of this process failed, a line that is not whole was
torn by an earlier one (`OldTears`), and the writer's file is one the reader will find
unless somebody is reopening or a cleanup ran (`OnActive`); an emitter that has written and
not yet returned is covered as well (`Kept`). `RotationIsPrompt` adds that the writer's count
is the length of its file and at most the limit outside a rotation (`Sized`).

For any window, threshold, sizes, number of messages kept and of attempts
(`CompactionAssumption`), `ContextProofs` proves `HistoriesAreWhole`,
`ReclaimingIsExact` and `FailuresAreWarned`. `Whole` adds to the first that the session's
own messages are in order and named below the next one, and that what is being replaced is
the front of the history: then a summary stands before everything that is kept. `Tried`
says that while a compaction goes on every verdict so far failed and attempts are left.
The tokens of a history are a recursive function, so what is reclaimed needs that sums of
sequences add up (`TokensOfBoth`).

For any catalogue, namespaces, descriptions, budgets and number of hits
(`ToolSearchAssumption`), `ContextProofs` proves `EvictionIsByLastUse` and `BudgetIsKept`.
`Recent` relates a list, what was used and the order of the uses: the list is of those used
last, each after the ones behind it and after all that are not in it. One lemma says that a
touch keeps it for the order in which the touched tool comes first (`TouchedIsRecent`), a
second that so does a batch of names touched in reverse (`LoadedIsRecent`, by induction over
how many of them were, with the order after each), a third that the front of such a list is
one again (`FrontIsRecent`), which is all an eviction does. That the order is total is part of
the type: without it the first of the list need not be the tool used last. `LastUsedStays`
adds to them that this tool is there until a turn finds that it does not fit, `Advertised`
what the last turn showed. Bytes of a set are the cardinality of a union, so that those of
two sets apart add up (`TotalOfBoth`).

Induction over data is out of reach in general, since the library's induction theorems take an
operator. Two lemmas do without: `UpTo` (`ContextProofs`) takes the SET of the numbers for
which a statement holds and gets its least exception, `MaxIs` (`OutboxProofs`,
`ContextProofs`) the set of
the bounds of a set and its least one, from the well-foundedness of the naturals, which the
library states of sets.

Only model-checked: `RunEnds`, `ComesToRest`, `ClimbEnds`, `RalphEnds`, `CompactionEnds` and
`OrphansAreCollected` (liveness under fairness), and the violations. A proof does not reach
liveness or ENABLED in this prover.

## Where the source says otherwise

The violation runs show three disagreements between the code and its own comments; each is
quoted in `PROJECT.json`.

1. A granted Continue or AutoContinue leaves the exhausted task InProgress
   (plan_execute.rs:976, 991): the update to Pending is refused and dropped.
2. A compaction replaces the session's messages by the history as it was last seeded
   (compaction_adapter.rs:168): appends never reach the rich state, so every message since,
   the batch just run included, is lost.
3. A host that starts lists the VMs once and then removes every other overlay
   (sandbox_petri.rs:640): a VM another host boots in between loses its disk.

The following were met while modelling; the model has them as the code does, so each is a
behaviour of the module named first, and its properties hold in their presence.

PlanExecute and its surroundings

- Skip leaves the skipped task InProgress (run.rs:804; 798-801 says it is recorded as
  blocked), so a later resume runs it.
- An InProgress task left by a crash is never picked up by the next window, which drains to
  Success (plan_execute.rs:724; 1239-1241 says every task completed).
- Outputs of upstream tasks are lost over a pause or a window (757; compare 326-328).
- A leaf's window is seeded with the run's absolute turn count, so a later step has
  less than its own allowance (plan_execute.rs:882, react.rs:2213).
- On a surfaced exhaustion the cursor is set to the leaf's charge, which may be lower
  than before (1032; the comment above says it never goes back).
- A resume seed belongs to the first InProgress task, not to the one that paused.
- The completed and blocked partitions of a result may overlap (1195, 1242).
- The turns of discarded empty plans are not counted (563, 702; compare 515).
- A cap of the whole run ends it at once, while a failed task only cascades (952, 1149).
- A crash after the planner authored its list but before the walk makes the next window
  run the unfinished plan (419; compare 465).

ReactLoop

- A call handed over to a subagent never gets a result (run.rs:992), nor do calls
  answered with a text (run.rs:1022): the model is asked again with a call open.
  `LedgerKept` counts these as given up for good.
- Narration is refunded at the gate but charged to the leaf (react.rs:2213; 334-336 says it
  must not consume the budget): an answer within the allowance is reported as exhausted.
- A grant to a bare leaf starts from the round's first turn count with a cap of the steps
  reported plus the grant, so it gives more than "exactly this many" (execution_registry.rs:119,
  run.rs:557); after an automatic grant its chain of Continues starts over (run.rs:501).
- A bare leaf that is resumed after a pause runs without its schema, toolset, charge and
  exhaustion behaviour (run.rs:1210).
- Calls the sandbox refuses before dispatch are not counted by the error breaker (react.rs:1222).

HillClimb

- A discarded neighbour's new files stay: the revert is `git reset --hard`
  (hill_climbing.rs:38-43), so the next neighbour is measured with them and commits them
  (docs/design/hill-climbing-loop-correctness.md:243 wants them gone). `untracked` is why
  `TreeIsAccounted` speaks of the rest of the workspace.
- When a commit fails the candidate advances all the same (strategy_executor.rs:516).
- Only stagnation and a limit of the run put the best candidate back; an exhausted or paused
  climb leaves the last edit in the workspace, and a resumed one takes it for its baseline.
- A granted Continue is futile once the task's own turns are used (hill_climbing.rs:336).
- After a baseline that is NaN nothing is ever kept.

SelfVerify and Ralph

- A continue granted after a refused phase takes the next iteration and not this one
  (self_verifying.rs:391-403): the refused build is never reviewed, and in the last iteration
  the granted allowance is not used at all. The phase it refused stays uncharged, which is
  the slack in `BudgetHolds`.
- A human's Skip of a budget pause is reported as Success with nothing verified
  (run.rs:798-829).
- A composite verifier with nothing in it passes a build that failed; `AcceptedIsReviewed`
  leaves it out.
- A window that ran out of budget is given up without a look at the checkpoint; any other,
  failed or not, counts as a success when the checkpoint says so, whoever wrote it and when.
- Progress and the feature list are read apart (ralph.rs:34, 55): progress that the host takes
  back in between is not seen, and a checkpoint that was never complete at any one moment may
  be reported as such. `ReportIsCheckpoint` allows for that one write (`withdrawn`).
- After a build that was not a plain leaf the conversation may have lost earlier verdicts
  (self_verifying.rs:373-382 takes the session of the build's result, which several terminals
  leave empty): the next build is told the last verdict and maybe no other. A leaf whose
  conversation is compacted loses what was appended to it in the same way (see `RecentKept`).
- A resume starts over at window 0.

PetriVm

- The tear-down of an abandoned boot may run before its VM is listed, and then the VM is
  nobody's until its host dies; so is one whose command was cancelled while it booted.
- A failing list is an empty one for the overlays, and all of them are removed.

Compaction, ToolSearch, Memory

- A history may still be over its threshold after a compaction (compaction_adapter.rs:349
  says it falls below): it is compacted again after every batch, at keep + 1 messages by
  summarising the summary.
- The cut may stand between a call and its result; a summary longer than what it replaces
  is not counted in full; the turns of a compaction are charged to no scope.
- A search says that its hits are loaded and can be called, though one that does not fit is
  never advertised; a tool too big for the budget at the head of the list evicts all.
- An archive is stored under `{id}@v{n}` without a look at what is there (memory.rs:440, 550):
  a record a caller stored under that id is lost. A caller who stores under an archival id
  replaces, appends to or moves that archive, and the history of the memory it belonged to no
  longer shows it.
- A first record keeps the version and the links its caller gave it (565), so that two
  memories may link one archive and a version history need not start at 1.
- Append puts the text of an unreviewed proposal into an Active record, archives stay
  Active, so queries serve what was replaced and deprecating a memory leaves its archives.

Outbox

- The first line after a restart is glued to what a crash tore, although its append
  returned Ok (observability_outbox.rs:784, 823); `LossIsKnown` allows for that one line.
- An emit between the two halves of cleanup_session opens a file that is then removed:
  the writer stays in the map and later lines go nowhere, unmarked (1222, 1223).
- A trace id is made per opened writer, so a session that is resumed in another process has
  two (797; line 60 says once per session), and after a crash between rename and reopen the
  session is not among the unflushed ones (1197).
- Every leaf ends with a flush and the marker is never removed, so a session that goes on
  and then crashes is not among the unflushed ones (1156).

## Not modelled

Per component, with the reason, in `PROJECT.json`. In short: wire formats, HTTP, prompts and
text (agent, model clients, cache, chunks); pure functions of their input, which tests
reach well (path and command checks, schemas, sensors, metrics, plan parsing, hooks and
middleware chains, termination predicates); checks made once, at construction (builders,
the registry, tool sets); code the loop does not reach (the guide registry, a host's
library); state with a single operation (the set of active skills, episodic memories); the
evaluation, MCP, vector and CLI programs built on the crate; and the Go, Python and
TypeScript ports, which re-implement the same design. Larger instances of the modelled parts
than the tables give are out of the reach of exhaustive checking in minutes; the
theorems do not depend on them.
