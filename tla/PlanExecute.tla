----------------------------- MODULE PlanExecute -----------------------------
(***************************************************************************)
(* PlanExecuteConfig::run (harness/plan_execute.rs): a plan phase records  *)
(* a task list in the durable RunStore, then a walk runs the ready tasks   *)
(* one at a time, each through the execute child, until none is ready.     *)
(* Around it: the round of drive_strategy_with_resume_seed that calls it,  *)
(* the pauses resume_inner answers, and crashes.                           *)
(*                                                                         *)
(* The agent that runs inside the plan phase and inside a step holds the   *)
(* task_list tool, which edits the same durable list the walk reads: that  *)
(* is the concurrency here.  The process may also die at any point; the    *)
(* durable list is all that survives.                                      *)
(*                                                                         *)
(* The execute child is a ReAct leaf, or a Ralph whose turn count starts   *)
(* over in every window ("ralph").                                         *)
(***************************************************************************)
EXTENDS TaskGraph, BudgetScope, FiniteSets

CONSTANTS
    Configs,        \* the strategy trees and host settings to consider
    MaxGrants,      \* AutoContinue: how many grants
    StepsPerGrant,  \* AutoContinue and ContinueWithBudget: how many steps
    PlanRetries,    \* plan_empty_max_retries
    MaxTasks,       \* bound: tasks in the list
    MaxTurns,       \* bound: turns the environment lets one window take
    MaxEdits,       \* bound: edits the agent makes with the task_list tool
    MaxPauses,      \* bound: pauses that are resumed
    MaxRuns         \* bound: runs, the first one included

\* What a run is configured with: the kind of its execute child, the allowance of
\* its execute leaf, task.budget.max_turns, what the PlanExecute node does when a
\* step is exhausted, the EscalationMode, and whether it is a window of a Ralph.
Config == [child : {"react", "ralph"}, leaf : Caps, max : Caps,
           behavior : Behaviors, mode : {"surface", "auto", "autonomous"},
           ralph : BOOLEAN]

ASSUME PlanExecuteAssumption ==
    /\ Configs \subseteq Config
    /\ MaxGrants \in Nat /\ StepsPerGrant \in Nat /\ PlanRetries \in Nat
    /\ MaxTasks \in Nat /\ MaxTurns \in Nat /\ MaxEdits \in Nat
    /\ MaxPauses \in Nat /\ MaxRuns \in Nat

VARIABLES
    conf,      \* what the run is configured with; it never changes
    durable,   \* the task list in the RunStore; <<>> when there is none
    mem,       \* the walk's own copy of it
    pc,        \* where the run is
    cur,       \* the task being stepped, 0 outside a step
    carried,   \* carried.turns, the run-wide turn cursor
    caps,      \* the leaf allowance and max_turns as grants have left them
    scope,     \* the "plan_execute" budget scope
    entry,     \* how the run is entered: resume seed, continue flag, continues
    attempt,   \* plan attempts already discarded as empty
    reattach,  \* the task whose step gets the carried session, 0 if none
    failed,    \* blocked_by_failure
    first,     \* first_failure, 0 if none
    outputs,   \* the tasks whose output is in final_outputs
    result,    \* what the run returned
    paused,    \* what a pause or an exhaustion carries out of the run
    driven,    \* auto_grants_used of the driving round
    used,      \* how much of each bound is spent
    hist       \* for the properties only: what has happened so far

runVars  == <<mem, cur, carried, scope, attempt, reattach, failed, first, outputs>>
envVars  == <<conf, caps, entry, driven, used>>
vars     == <<durable, pc, runVars, envVars, result, paused, hist>>

PCs == {"enter", "planning", "walk", "step", "paused", "exhausted", "ended"}

Results == {"none", "success", "blocked by failure", "budget exceeded",
            "empty plan", "plan failed", "escalated", "skipped", "halted"}

Pause == [kind : {"none", "budget", "tool", "plan"},
          turns : Nat, steps : Nat, continues : Nat]

NoPause == [kind |-> "none", turns |-> 0, steps |-> 0, continues |-> 0]

\* The tasks of this plan whose step succeeded, once and again.
History == [done : SUBSET Nat, redone : SUBSET Nat]

NoHistory == [done |-> {}, redone |-> {}]

FreshEntry == [seed |-> FALSE, cont |-> conf.ralph, continues |-> 0]

TypeOK ==
    /\ conf \in Configs
    /\ durable \in TaskLists /\ mem \in TaskLists
    /\ pc \in PCs
    /\ cur \in Nat /\ reattach \in Nat /\ first \in Nat
    /\ carried \in Nat /\ attempt \in Nat /\ driven \in Nat
    /\ caps \in [leaf : Caps, max : Caps]
    /\ scope \in Scopes /\ Within(scope.taken, scope.allowance)
    /\ entry \in [seed : BOOLEAN, cont : BOOLEAN, continues : Nat]
    /\ failed \in SUBSET Nat /\ outputs \in SUBSET Nat
    /\ result \in Results
    /\ paused \in Pause
    /\ used \in [edits : Nat, pauses : Nat, runs : Nat]
    /\ hist \in History

Init ==
    /\ conf \in Configs
    /\ durable = <<>> /\ mem = <<>>
    /\ pc = "enter" /\ cur = 0 /\ reattach = 0 /\ first = 0
    /\ carried = 0 /\ attempt = 0 /\ driven = 0
    /\ caps = [leaf |-> conf.leaf, max |-> conf.max]
    /\ scope = NewScope(conf.max, 0)
    /\ entry = FreshEntry
    /\ failed = {} /\ outputs = {}
    /\ result = "none" /\ paused = NoPause
    /\ used = [edits |-> 0, pauses |-> 0, runs |-> 1]
    /\ hist = NoHistory

-----------------------------------------------------------------------------
(* Entering: skip the plan phase, or clear the list and plan.              *)

SkipsPlan == (entry.seed \/ entry.cont) /\ Unfinished(durable)

\* The walk starts with empty run-local state and a scope of its own.
StartWalk(list, task) ==
    /\ mem' = list
    /\ reattach' = task
    /\ pc' = "walk"
    /\ scope' = NewScope(caps.max, entry.continues)
    /\ failed' = {} /\ first' = 0 /\ outputs' = {}

\* The seed belongs to the first InProgress task, which goes back to Pending in
\* the walk's copy only; with no such task the seed is dropped.
EnterWalk ==
    /\ pc = "enter" /\ SkipsPlan
    /\ \/ \E id \in DOMAIN durable :
            /\ entry.seed /\ IsFirstInProgress(durable, id)
            /\ StartWalk([durable EXCEPT ![id].status = "Pending"], id)
       \/ /\ ~ entry.seed \/ \A id \in DOMAIN durable : durable[id].status # "InProgress"
          /\ StartWalk(durable, 0)
    /\ entry' = [entry EXCEPT !.seed = FALSE, !.cont = FALSE]
    /\ UNCHANGED <<durable, cur, carried, attempt, conf, caps, result, paused,
                   driven, used, hist>>

EnterPlan ==
    /\ pc = "enter" /\ ~ SkipsPlan
    /\ durable' = <<>>
    /\ pc' = "planning" /\ attempt' = 0
    /\ entry' = [entry EXCEPT !.seed = FALSE, !.cont = FALSE]
    /\ hist' = [hist EXCEPT !.done = {}]
    /\ UNCHANGED <<mem, cur, carried, conf, caps, scope, reattach, failed, first,
                   outputs, result, paused, driven, used>>

-----------------------------------------------------------------------------
(* The task_list tool in the hands of the agent (tools/tasklist.rs): each  *)
(* call loads the durable list, changes it and stores it.  The plan is     *)
(* asked for again with the tools suppressed.                              *)

AgentRuns == pc = "step" \/ (pc = "planning" /\ attempt = 0)

AgentEdits(list) ==
    /\ AgentRuns /\ used.edits < MaxEdits
    /\ durable' = list
    /\ used' = [used EXCEPT !.edits = @ + 1]
    /\ UNCHANGED <<pc, runVars, conf, caps, entry, driven, result, paused, hist>>

AgentAdds ==
    \E blockers \in SUBSET (1 .. Len(durable) + 1) :
        /\ Len(durable) < MaxTasks
        /\ CanAdd(durable, blockers)
        /\ AgentEdits(Append(durable, NewTask(blockers)))

AgentUpdates ==
    \E id \in DOMAIN durable, to \in Statuses :
        /\ durable[id].status # to
        /\ CanTransition(durable[id].status, to)
        /\ AgentEdits(SetStatus(durable, id, to))

-----------------------------------------------------------------------------
(* The plan phase.                                                         *)

Ends(r) == pc' = "ended" /\ result' = r

\* The linear list plan_artifact_to_task_list makes of an artifact.
Linear(n) == [i \in 1 .. n |-> NewTask({})]

\* The planner answers after some turns: with what it authored through the
\* tool, else with the n steps of its artifact.  Nothing at all is asked for
\* again, up to PlanRetries times, from the turn count the phase began with.
PlanAnswered ==
    \E turns \in 1 .. MaxTurns, n \in 0 .. MaxTasks :
        LET list == IF durable # <<>> THEN durable ELSE Linear(n)
        IN  /\ pc = "planning"
            /\ Within(carried + turns, caps.max)
            /\ \/ /\ list # <<>>
                  /\ StartWalk(list, 0)
                  /\ durable' = list /\ carried' = carried + turns
                  /\ UNCHANGED <<attempt, result>>
               \/ /\ list = <<>> /\ attempt < PlanRetries
                  /\ attempt' = attempt + 1
                  /\ UNCHANGED <<durable, mem, pc, carried, scope, reattach,
                                 failed, first, outputs, result>>
               \/ /\ list = <<>> /\ attempt >= PlanRetries
                  /\ Ends("empty plan")
                  /\ UNCHANGED <<durable, mem, carried, scope, attempt, reattach,
                                 failed, first, outputs>>
            /\ UNCHANGED <<cur, envVars, paused, hist>>

\* Any other terminal of the plan subtree is returned as it is.
PlanFails ==
    /\ pc = "planning"
    /\ Ends("plan failed")
    /\ UNCHANGED <<durable, runVars, envVars, paused, hist>>

\* The planner pauses for a human, or its budget escalates to one.
PlanPauses ==
    \E turns \in 1 .. MaxTurns :
        /\ pc = "planning"
        /\ Within(carried + turns, caps.max)
        /\ pc' = "paused"
        /\ paused' = [NoPause EXCEPT !.kind = "plan", !.turns = carried + turns,
                                     !.steps = carried + turns]
        /\ UNCHANGED <<durable, runVars, envVars, result, hist>>

-----------------------------------------------------------------------------
(* The walk.                                                               *)

Pick ==
    \E id \in DOMAIN mem :
        /\ pc = "walk"
        /\ IsNextReady(mem, id)
        /\ mem' = SetStatus(mem, id, "InProgress")
        /\ durable' = mem'
        /\ cur' = id /\ pc' = "step"
        /\ reattach' = IF reattach = id THEN 0 ELSE reattach
        /\ UNCHANGED <<carried, scope, attempt, failed, first, outputs,
                       envVars, result, paused, hist>>

Drain ==
    /\ pc = "walk" /\ Ready(mem) = {}
    /\ Ends(IF first # 0 THEN "blocked by failure" ELSE "success")
    /\ UNCHANGED <<durable, runVars, envVars, paused, hist>>

-----------------------------------------------------------------------------
(* A step ends.  The walk first reloads the durable list, which carries    *)
(* what the agent did to it, and then applies the outcome.                 *)

\* Mistaken: the walk goes on with the list it read before the step.
NotReloaded == mem

Reloaded == durable

\* Mistaken: the outcome is stored, the walk's own copy is not kept up.
PersistStale(list) == mem' = mem /\ durable' = list

Persist(list) == mem' = list /\ durable' = list

InRoom(turns) == Within(turns, caps.leaf) /\ Within(turns, caps.max)

\* The turn count a child may report when nothing stopped it: a leaf goes on
\* from the shared cursor, a Ralph counts its own windows.
Reports(least) ==
    IF conf.child = "react"
    THEN {t \in carried + least .. carried + MaxTurns : InRoom(t) /\ InRoom(carried + 1)}
    ELSE 0 .. MaxTurns

\* The turn count at which a budget limit, of turns, tokens, time or cost, stops a
\* leaf: at a turn boundary, at once when the cursor is already past the cap.
BudgetStops == {t \in carried .. carried + MaxTurns : t = carried \/ InRoom(t)}

LeafBinds(turns) == caps.leaf # NoCap /\ turns >= caps.leaf

\* steps_taken of the leaf's BudgetExhausted: its charge when that fits its own
\* scope, what the scope held before (nothing) when it does not.
LeafSteps(turns) == IF Within(turns, caps.leaf) THEN turns ELSE 0

\* resolve_current and try_auto_continue on the node's scope.
Resolves == Resolution(scope, conf.behavior)

GrantsLeft == conf.mode = "auto" /\ scope.grants < MaxGrants

ScopeGoesOn ==
    \/ Resolves = "Continue" /\ scope' = Continued(scope)
    \/ Resolves = "Escalate" /\ GrantsLeft /\ scope' = AutoGranted(scope, StepsPerGrant)

Surfaces == Resolves = "Escalate" /\ conf.mode = "surface"

Aborts == Resolves = "Escalate" /\ conf.mode # "surface" /\ ~ GrantsLeft

\* The run leaves the walk with a typed budget exhaustion, as a pause or for the
\* driving round to resolve.
Leaves(where, turns, steps) ==
    /\ pc' = where /\ cur' = 0
    /\ paused' = [kind |-> "budget", turns |-> turns, steps |-> steps,
                  continues |-> scope.continues]

StepSucceeds ==
    \E turns \in Reports(1) :
        LET spent == IF turns > carried THEN turns - carried ELSE 0
        IN  /\ pc = "step"
            /\ Persist(SetStatus(Reloaded, cur, "Completed"))
            /\ outputs' = outputs \cup {cur}
            /\ hist' = [hist EXCEPT !.done = @ \cup {cur},
                                    !.redone = @ \cup (hist.done \cap {cur})]
            /\ \/ /\ Fits(scope, spent) /\ scope' = Charged(scope, spent)
                  /\ carried' = turns /\ pc' = "walk" /\ cur' = 0
                  /\ UNCHANGED paused
               \/ /\ ~ Fits(scope, spent) /\ ScopeGoesOn
                  /\ carried' = turns /\ pc' = "walk" /\ cur' = 0
                  /\ UNCHANGED paused
               \/ /\ ~ Fits(scope, spent) /\ Surfaces
                  /\ Leaves("paused", turns, scope.taken)
                  /\ UNCHANGED <<scope, carried>>
               \/ /\ ~ Fits(scope, spent) /\ (Aborts \/ Resolves = "Fail")
                  /\ Leaves("exhausted", turns, scope.taken)
                  /\ UNCHANGED <<scope, carried>>
            /\ UNCHANGED <<attempt, reattach, failed, first, envVars, result>>

\* A task that fails takes its dependents with it and the walk goes on.
CascadeFrom(task) ==
    /\ Persist(CascadeBlock(Reloaded, task))
    /\ failed' = failed \cup {task} \cup TransitiveDependents(Reloaded, task)
    /\ first' = IF first = 0 THEN task ELSE first
    /\ pc' = "walk" /\ cur' = 0

StepFails ==
    \E turns \in Reports(0) :
        /\ pc = "step"
        /\ CascadeFrom(cur)
        /\ carried' = turns
        /\ UNCHANGED <<scope, attempt, reattach, outputs, envVars, result, paused, hist>>

\* A limit other than the leaf's own allowance stops the whole run.
StepHitsGlobalLimit ==
    \E turns \in BudgetStops :
        /\ pc = "step" /\ conf.child = "react" /\ ~ LeafBinds(turns)
        /\ Persist(SetStatus(Reloaded, cur, "Blocked"))
        /\ Ends("budget exceeded") /\ cur' = 0
        /\ UNCHANGED <<carried, scope, attempt, reattach, failed, first, outputs,
                       envVars, paused, hist>>

\* The leaf's own allowance stopped it, or the tool-error breaker did: steps is
\* what its BudgetExhausted reports, turns what it ran to.
LeafExhausted(turns, steps) ==
    /\ pc = "step" /\ conf.child = "react"
    /\ \/ turns \in BudgetStops /\ LeafBinds(turns) /\ steps = LeafSteps(turns)
       \/ turns \in Reports(1) /\ steps = turns

StepExhausted ==
    \E turns \in carried .. carried + MaxTurns, steps \in 0 .. carried + MaxTurns :
        /\ LeafExhausted(turns, steps)
        /\ \/ /\ Resolves = "Fail"
              /\ CascadeFrom(cur)
              /\ UNCHANGED <<scope, carried, paused>>
           \/ /\ ScopeGoesOn
              /\ Persist(SetStatus(Reloaded, cur, "Pending"))
              /\ pc' = "walk" /\ cur' = 0
              /\ UNCHANGED <<carried, failed, first, paused>>
           \/ /\ Surfaces
              /\ Persist(SetStatus(Reloaded, cur, "InProgress"))
              /\ Leaves("paused", steps, steps)
              /\ carried' = steps
              /\ UNCHANGED <<scope, failed, first>>
           \/ /\ Aborts
              /\ Persist(SetStatus(Reloaded, cur, "Blocked"))
              /\ Leaves("exhausted", steps, steps)
              /\ UNCHANGED <<scope, carried, failed, first>>
        /\ UNCHANGED <<attempt, reattach, outputs, envVars, result, hist>>

\* A tool approval or a consult pauses the run with the task left InProgress; an
\* escalate signal ends it.
StepPauses ==
    \E turns \in Reports(1) :
        /\ pc = "step"
        /\ mem' = Reloaded /\ cur' = 0
        /\ \/ /\ pc' = "paused"
              /\ paused' = [NoPause EXCEPT !.kind = "tool", !.turns = turns]
              /\ UNCHANGED result
           \/ Ends("escalated") /\ UNCHANGED paused
        /\ UNCHANGED <<durable, carried, scope, attempt, reattach, failed, first,
                       outputs, envVars, hist>>

-----------------------------------------------------------------------------
(* Around the walk: the driving round, the answers to a pause, crashes.    *)

Enter(seed, cont, continues, turns) ==
    /\ pc' = "enter" /\ cur' = 0 /\ carried' = turns
    /\ entry' = [seed |-> seed, cont |-> cont \/ conf.ralph, continues |-> continues]
    /\ paused' = NoPause
    /\ UNCHANGED <<conf, durable, mem, scope, attempt, reattach, failed, first, outputs>>

\* grant_task_budget: leaf and task both reach at least the granted count.
Granted(steps) ==
    caps' = [leaf |-> GrantPolicy(caps.leaf, steps), max |-> GrantMaxTurns(caps.max, steps)]

\* A Ralph window is given a fresh turn count.
CursorAfter(turns) == IF conf.ralph THEN 0 ELSE turns

\* drive_strategy_with_resume_seed: an Escalate under AutoContinue runs the whole
\* strategy once more, as a fresh run; anything else ends in BudgetExceeded.
DriveResolves ==
    /\ pc = "exhausted" /\ ~ conf.ralph
    /\ \/ /\ conf.mode = "auto" /\ conf.behavior.terminal = "Escalate" /\ driven < MaxGrants
          /\ driven' = driven + 1
          /\ Granted(paused.steps + StepsPerGrant)
          /\ Enter(FALSE, FALSE, 0, carried)
          /\ UNCHANGED <<used, result, hist>>
       \/ /\ conf.mode # "auto" \/ conf.behavior.terminal = "Fail" \/ driven >= MaxGrants
          /\ Ends("budget exceeded")
          /\ UNCHANGED <<durable, runVars, envVars, paused, hist>>

Resuming == pc = "paused" /\ used.pauses < MaxPauses

ResumeBegins ==
    /\ used' = [used EXCEPT !.pauses = @ + 1]
    /\ driven' = 0
    /\ UNCHANGED <<result, hist>>

\* ContinueWithBudget: the carried session is the seed, the granted turns counted
\* from the steps the exhaustion reported.
ResumeWithBudget ==
    /\ Resuming /\ paused.kind \in {"budget", "plan"}
    /\ Granted(paused.steps + StepsPerGrant)
    /\ Enter(TRUE, FALSE, paused.continues, CursorAfter(paused.turns))
    /\ ResumeBegins

\* An approval or an answer: the carried session is the seed.
ResumeWithAnswer ==
    /\ Resuming /\ paused.kind \in {"tool", "plan"}
    /\ Enter(TRUE, FALSE, 0, CursorAfter(paused.turns))
    /\ ResumeBegins
    /\ UNCHANGED caps

\* Skip: no seed, the walk is told to go on with the list.
ResumeWithSkip ==
    /\ Resuming /\ paused.kind \in {"budget", "plan"} /\ ~ conf.ralph
    /\ Enter(FALSE, TRUE, 0, paused.turns)
    /\ ResumeBegins
    /\ UNCHANGED caps

\* Fail and Halt end the run, and so does skipping anything that is no PlanExecute.
ResumeWithoutWalk ==
    /\ Resuming
    /\ \/ paused.kind \in {"budget", "plan"} /\ Ends("budget exceeded")
       \/ paused.kind \in {"tool", "plan"} /\ Ends("halted")
       \/ paused.kind \in {"budget", "plan"} /\ conf.ralph /\ Ends("skipped")
    /\ used' = [used EXCEPT !.pauses = @ + 1]
    /\ UNCHANGED <<conf, durable, runVars, caps, entry, driven, paused, hist>>

\* A further run over the same RunStore: the next window of a Ralph, the next run
\* of a host, or the first after the process died.
NextRun ==
    /\ used.runs < MaxRuns
    /\ used' = [used EXCEPT !.runs = @ + 1]
    /\ Enter(FALSE, FALSE, 0, 0)
    /\ result' = "none" /\ driven' = 0
    /\ caps' = [leaf |-> conf.leaf, max |-> conf.max]
    /\ UNCHANGED hist

RunAgain == pc \in {"ended"} \cup (IF conf.ralph THEN {"exhausted"} ELSE {}) /\ NextRun

Crash == pc \in {"enter", "planning", "walk", "step"} /\ NextRun

-----------------------------------------------------------------------------

Agent == AgentAdds \/ AgentUpdates

Plan == EnterPlan \/ PlanAnswered \/ PlanFails \/ PlanPauses

Walk == EnterWalk \/ Pick \/ Drain

Step == StepSucceeds \/ StepFails \/ StepHitsGlobalLimit \/ StepExhausted \/ StepPauses

Resume == ResumeWithBudget \/ ResumeWithAnswer \/ ResumeWithSkip \/ ResumeWithoutWalk

Next == Agent \/ Plan \/ Walk \/ Step \/ DriveResolves \/ Resume \/ RunAgain \/ Crash

Spec == Init /\ [][Next]_vars

\* The execute child, the planner and the walk itself always return.
FairSpec == Spec /\ WF_vars(Plan) /\ WF_vars(Walk) /\ WF_vars(Step)

-----------------------------------------------------------------------------
(* What holds.                                                             *)

\* A task runs only after everything that blocks it has completed, and while it
\* runs nothing the agent does to the list can undo that.
BlockersDone ==
    pc = "step" => \A b \in durable[cur].blockers : IsCompleted(durable, b)

\* The durable graph never has a cycle, whoever adds to it and when: the walk
\* does not look for one again after a step.
GraphIsDag == EdgesPointBack(durable) /\ EdgesPointBack(mem)

\* Between two plans, no task the agent added and no completion is ever lost to
\* the walk storing a copy of the list it read before the step.
AgentEditsSurvive ==
    [][pc # "enter" =>
          \A id \in DOMAIN durable :
              /\ id \in DOMAIN durable'
              /\ IsCompleted(durable, id) => IsCompleted(durable', id)]_vars

\* A step that succeeded is not run again: not by the walk, not after a pause and
\* its resume, not by the next window of a Ralph.
CompletedOnce == hist.redone = {}

\* What failed, or waits for something that failed, is not run by this walk, even
\* when the agent edits the blocked tasks meanwhile.
FailedNotRun == pc = "step" => cur \notin failed

\* The walk returns only when no task is ready, those the agent added during the
\* last step included.
DrainIsQuiet ==
    pc = "ended" /\ result \in {"success", "blocked by failure"} => Ready(durable) = {}

\* Every run comes to an end or a pause: nothing sends a task back to be run for ever.
RunEnds == pc \in {"enter", "planning", "walk", "step"} ~> pc \in {"paused", "exhausted", "ended"}

-----------------------------------------------------------------------------
(* What the source says of the walk and the walk does not keep.            *)

\* A granted Continue puts the exhausted task back to Pending, so that it runs
\* again under the refreshed allowance.
ContinueReschedules ==
    [][pc = "step" /\ scope'.continues > scope.continues /\ outputs' = outputs
          => mem'[cur].status = "Pending"]_vars

=============================================================================
