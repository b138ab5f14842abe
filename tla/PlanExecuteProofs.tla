-------------------------- MODULE PlanExecuteProofs --------------------------
(***************************************************************************)
(* The safety of the plan-execute walk, for every strategy tree and host   *)
(* setting in Configs and every bound: the inductive invariant IInv, that  *)
(* every action preserves it, and the properties that follow.              *)
(***************************************************************************)
EXTENDS PlanExecute, SequenceTheorems, TLAPS

-----------------------------------------------------------------------------
(* What the operations on a task list preserve, for lists of any length.   *)

\* How a list may evolve under the tool and the walk: no task goes away, no edge
\* moves, a completed task stays completed, and nothing becomes Pending.
Keeps(old, new) ==
    /\ DOMAIN old \subseteq DOMAIN new
    /\ \A t \in DOMAIN old :
          /\ new[t].blockers = old[t].blockers
          /\ old[t].status = "Completed" => new[t].status = "Completed"
          /\ old[t].status # "Pending" => new[t].status # "Pending"

\* A list is a function on an initial segment of the numbers.
LEMMA ListIsFunction ==
    ASSUME NEW list \in TaskLists
    PROVE  /\ Len(list) \in Nat
           /\ DOMAIN list = 1 .. Len(list)
           /\ list \in [1 .. Len(list) -> Tasks]
BY LenProperties DEF TaskLists

\* A function on an initial segment of the numbers is a list.
LEMMA FunctionIsList ==
    ASSUME NEW n \in Nat, NEW f \in [1 .. n -> Tasks]
    PROVE  f \in TaskLists
BY SeqDef DEF TaskLists

\* Any change of statuses that validate_transition accepts evolves the list.
LEMMA ChangeKeeps ==
    ASSUME NEW list \in TaskLists, NEW new,
           DOMAIN new = DOMAIN list,
           \A t \in DOMAIN list :
              \/ new[t] = list[t]
              \/ \E to \in Statuses \ {"Pending"} :
                    /\ list[t].status # "Completed" \/ to = "Completed"
                    /\ new[t] = [list[t] EXCEPT !.status = to],
           new = [t \in DOMAIN list |-> new[t]]
    PROVE  new \in TaskLists /\ Keeps(list, new)
<1>1. \A t \in DOMAIN list : list[t] \in Tasks
  BY ListIsFunction
<1>2. \A t \in DOMAIN list : new[t] \in Tasks
  BY <1>1 DEF Tasks
<1>3. new \in TaskLists
  BY <1>2, ListIsFunction, FunctionIsList
<1>4. Keeps(list, new)
  BY <1>1 DEF Keeps, Tasks, Statuses
<1> QED
  BY <1>3, <1>4

\* update and complete: only the one task changes.
LEMMA SetStatusKeeps ==
    ASSUME NEW list \in TaskLists, NEW id \in DOMAIN list, NEW to \in Statuses
    PROVE  /\ SetStatus(list, id, to) \in TaskLists
           /\ DOMAIN SetStatus(list, id, to) = DOMAIN list
           /\ Keeps(list, SetStatus(list, id, to))
<1> DEFINE new == SetStatus(list, id, to)
<1>1. list[id] \in Tasks /\ list = [t \in DOMAIN list |-> list[t]]
  BY ListIsFunction
<1>2. DOMAIN new = DOMAIN list /\ new = [t \in DOMAIN list |-> new[t]]
  BY <1>1 DEF SetStatus
<1>3. \A t \in DOMAIN list :
         \/ new[t] = list[t]
         \/ \E s \in Statuses \ {"Pending"} :
               /\ list[t].status # "Completed" \/ s = "Completed"
               /\ new[t] = [list[t] EXCEPT !.status = s]
  <2>1. CASE ~ CanTransition(list[id].status, to)
    BY <2>1 DEF SetStatus
  <2>2. CASE CanTransition(list[id].status, to) /\ list[id].status = to
    BY <2>2, <1>1 DEF SetStatus, Tasks
  <2>3. CASE CanTransition(list[id].status, to) /\ list[id].status # to
    BY <2>3, <1>1 DEF SetStatus, CanTransition, Tasks
  <2> QED
    BY <2>1, <2>2, <2>3
<1> HIDE DEF new
<1>4. new \in TaskLists /\ Keeps(list, new)
  BY <1>2, <1>3, ChangeKeeps
<1> QED
  BY <1>2, <1>4 DEF new

\* The cascade leaves neither the failed task nor anything behind it Pending.
LEMMA CascadeKeeps ==
    ASSUME NEW list \in TaskLists, NEW id \in DOMAIN list
    PROVE  /\ CascadeBlock(list, id) \in TaskLists
           /\ DOMAIN CascadeBlock(list, id) = DOMAIN list
           /\ Keeps(list, CascadeBlock(list, id))
           /\ TransitiveDependents(list, id) \subseteq DOMAIN list
           /\ \A t \in {id} \cup TransitiveDependents(list, id) :
                 CascadeBlock(list, id)[t].status # "Pending"
<1> DEFINE new == CascadeBlock(list, id)
           hit == {id} \cup TransitiveDependents(list, id)
<1>1. \A t \in DOMAIN list : list[t] \in Tasks
  BY ListIsFunction
<1>2. DOMAIN new = DOMAIN list /\ new = [t \in DOMAIN list |-> new[t]]
  BY DEF CascadeBlock
<1>3. \A t \in DOMAIN list :
         new[t] = IF t \in hit /\ CanTransition(list[t].status, "Blocked")
                  THEN [list[t] EXCEPT !.status = "Blocked"] ELSE list[t]
  BY DEF CascadeBlock
<1>4. hit \subseteq DOMAIN list /\ TransitiveDependents(list, id) \subseteq DOMAIN list
  BY DEF TransitiveDependents
<1>5. \A t \in hit : new[t].status # "Pending"
  BY <1>1, <1>3, <1>4 DEF CanTransition, Tasks
<1> HIDE DEF new, hit
<1>6. \A t \in DOMAIN list :
         \/ new[t] = list[t]
         \/ \E s \in Statuses \ {"Pending"} :
               /\ list[t].status # "Completed" \/ s = "Completed"
               /\ new[t] = [list[t] EXCEPT !.status = s]
  BY <1>3 DEF CanTransition, Statuses
<1>7. new \in TaskLists /\ Keeps(list, new)
  BY <1>2, <1>6, ChangeKeeps
<1> QED
  BY <1>2, <1>4, <1>5, <1>7 DEF new, hit

\* add puts one more task at the end.
LEMMA AppendKeeps ==
    ASSUME NEW list \in TaskLists, NEW blockers \in SUBSET Nat
    PROVE  LET new == Append(list, NewTask(blockers))
           IN  /\ new \in TaskLists
               /\ DOMAIN new = 1 .. Len(list) + 1
               /\ \A t \in DOMAIN list : new[t] = list[t]
               /\ new[Len(list) + 1] = NewTask(blockers)
               /\ Keeps(list, new)
<1>1. NewTask(blockers) \in Tasks
  BY DEF NewTask, Tasks, Statuses
<1>2. Append(list, NewTask(blockers)) \in TaskLists
  BY <1>1 DEF TaskLists
<1>3. Len(Append(list, NewTask(blockers))) = Len(list) + 1
  BY <1>1 DEF TaskLists
<1>4. /\ \A t \in 1 .. Len(list) : Append(list, NewTask(blockers))[t] = list[t]
      /\ Append(list, NewTask(blockers))[Len(list) + 1] = NewTask(blockers)
  BY <1>1 DEF TaskLists
<1> QED
  BY <1>2, <1>3, <1>4, ListIsFunction DEF Keeps

\* A list that evolves without new tasks has no new edge, so no new cycle.
LEMMA KeepsBack ==
    ASSUME NEW list \in TaskLists, NEW new \in TaskLists,
           DOMAIN new = DOMAIN list,
           \A t \in DOMAIN list : new[t].blockers = list[t].blockers,
           EdgesPointBack(list)
    PROVE  EdgesPointBack(new)
BY DEF EdgesPointBack

\* A task that add accepts closes no cycle.
LEMMA AppendBack ==
    ASSUME NEW list \in TaskLists, NEW blockers \in SUBSET Nat,
           CanAdd(list, blockers), EdgesPointBack(list)
    PROVE  EdgesPointBack(Append(list, NewTask(blockers)))
<1> DEFINE new == Append(list, NewTask(blockers))
<1>1. /\ DOMAIN new = 1 .. Len(list) + 1
      /\ \A t \in DOMAIN list : new[t] = list[t]
      /\ new[Len(list) + 1] = NewTask(blockers)
  BY AppendKeeps
<1>2. Len(list) \in Nat /\ DOMAIN list = 1 .. Len(list)
  BY ListIsFunction
<1> HIDE DEF new
<1>3. ASSUME NEW t \in DOMAIN new, NEW b \in new[t].blockers
      PROVE  b \in 1 .. t - 1
  <2>1. CASE t \in DOMAIN list
    BY <2>1, <1>1 DEF EdgesPointBack
  <2>2. CASE t = Len(list) + 1
    <3>1. new[t].blockers = blockers
      BY <2>2, <1>1 DEF NewTask
    <3>2. b \in 1 .. Len(list)
      BY <3>1, <1>2 DEF CanAdd
    <3> QED
      BY <3>2, <2>2, <1>2
  <2> QED
    BY <2>1, <2>2, <1>1, <1>2
<1> QED
  BY <1>3 DEF EdgesPointBack, new

-----------------------------------------------------------------------------
(* The walk.                                                               *)

\* What the walk holds is the durable list, but for a stalled task that a resume
\* has put back to Pending in the copy alone.
CopyOf(copy, list) ==
    /\ DOMAIN copy = DOMAIN list
    /\ \A t \in DOMAIN list :
          /\ copy[t].blockers = list[t].blockers
          /\ \/ copy[t].status = list[t].status
             \/ copy[t].status = "Pending" /\ list[t].status = "InProgress"

Walking == pc = "walk" => CopyOf(mem, durable)

\* A running step's task exists, its blockers are done, it neither succeeded
\* before nor is one of those the walk has given up.
Stepping ==
    pc = "step" =>
        /\ cur \in DOMAIN durable
        /\ \A b \in durable[cur].blockers : IsCompleted(durable, b)
        /\ cur \notin hist.done \cup failed

GivenUp(list) == \A t \in failed : t \in DOMAIN list /\ list[t].status # "Pending"

FailedStay == (pc = "step" => GivenUp(durable)) /\ (pc = "walk" => GivenUp(mem))

\* Every step that succeeded has left its task Completed in the durable list.
Recorded == \A t \in hist.done : IsCompleted(durable, t)

IInv ==
    /\ TypeOK
    /\ GraphIsDag
    /\ Walking
    /\ Stepping
    /\ FailedStay
    /\ Recorded
    /\ CompletedOnce
    /\ DrainIsQuiet

-----------------------------------------------------------------------------
(* The budget scope stays well typed.                                      *)

\* A grant leaves an allowance that is a number or NoCap.
LEMMA GrantTypes ==
    ASSUME NEW cap \in Caps, NEW n \in Nat
    PROVE  GrantPolicy(cap, n) \in Caps /\ GrantMaxTurns(cap, n) \in Caps
BY DEF GrantPolicy, GrantMaxTurns, AtLeast, Caps

\* No more is taken from a scope than it allows.
KeepsWithin(s) == Within(s.taken, s.allowance)

\* Charging, continuing and granting leave a budget scope, and take no more of it than it
\* allows.
LEMMA ScopeTypes ==
    ASSUME NEW s \in Scopes, NEW n \in Nat
    PROVE  /\ Charged(s, n) \in Scopes
           /\ Continued(s) \in Scopes
           /\ AutoGranted(s, n) \in Scopes
           /\ Fits(s, n) => KeepsWithin(Charged(s, n))
           /\ KeepsWithin(Continued(s))
           /\ KeepsWithin(s) => KeepsWithin(AutoGranted(s, n))
<1>1. s.taken + n \in Nat /\ s.allowance \in Caps
  BY DEF Scopes
<1>2. GrantPolicy(s.allowance, s.taken + n) \in Caps
  BY <1>1, GrantTypes
<1>3. Charged(s, n) \in Scopes /\ (Fits(s, n) => KeepsWithin(Charged(s, n)))
  <2>1. /\ Charged(s, n) \in Scopes
        /\ Charged(s, n).taken = s.taken + n /\ Charged(s, n).allowance = s.allowance
    BY <1>1 DEF Scopes, Charged
  <2> QED
    BY <2>1 DEF Fits, KeepsWithin
<1>4. Continued(s) \in Scopes /\ KeepsWithin(Continued(s))
  <2> DEFINE r == [s EXCEPT !.continues = @ + 1]
  <2>1. r \in Scopes /\ r.allowance \in Caps
    BY DEF Scopes
  <2>2. Continued(s) = [r EXCEPT !.taken = 0]
    BY DEF Continued
  <2> HIDE DEF r
  <2>3. /\ Continued(s) \in Scopes
        /\ Continued(s).taken = 0 /\ Continued(s).allowance \in Caps
    BY <2>1, <2>2 DEF Scopes
  <2> QED
    BY <2>3 DEF KeepsWithin, Within, Caps
<1>5. AutoGranted(s, n) \in Scopes /\ (KeepsWithin(s) => KeepsWithin(AutoGranted(s, n)))
  <2> DEFINE r == [s EXCEPT !.grants = @ + 1]
  <2>1. r \in Scopes /\ r.taken = s.taken
    BY DEF Scopes
  <2>2. AutoGranted(s, n) = [r EXCEPT !.allowance = GrantPolicy(s.allowance, s.taken + n)]
    BY DEF AutoGranted
  <2> HIDE DEF r
  <2>3. /\ AutoGranted(s, n) \in Scopes /\ AutoGranted(s, n).taken = s.taken
        /\ AutoGranted(s, n).allowance = GrantPolicy(s.allowance, s.taken + n)
    BY <1>2, <2>1, <2>2 DEF Scopes
  <2>4. s.allowance # NoCap =>
            /\ s.allowance \in Nat /\ GrantPolicy(s.allowance, s.taken + n) \in Nat
            /\ s.allowance <= GrantPolicy(s.allowance, s.taken + n)
    BY <1>1, NoCapAssumption DEF GrantPolicy, AtLeast, Caps
  <2>5. s.allowance = NoCap => GrantPolicy(s.allowance, s.taken + n) = NoCap
    BY DEF GrantPolicy
  <2>6. s.taken \in Nat
    BY DEF Scopes
  <2> QED
    BY <2>3, <2>4, <2>5, <2>6 DEF KeepsWithin, Within
<1> QED
  BY <1>3, <1>4, <1>5

\* BudgetContext::new makes a budget scope.
LEMMA NewScopeType ==
    ASSUME NEW cap \in Caps, NEW n \in Nat
    PROVE  NewScope(cap, n) \in Scopes /\ KeepsWithin(NewScope(cap, n))
BY DEF NewScope, Scopes, KeepsWithin, Within, Caps

\* In a list that evolves, what was Completed stays Completed.
LEMMA KeepsCompleted ==
    ASSUME NEW old, NEW new, Keeps(old, new), NEW t, IsCompleted(old, t)
    PROVE  IsCompleted(new, t)
BY DEF Keeps, IsCompleted

-----------------------------------------------------------------------------

\* The invariant holds before the first entry.
LEMMA InitInv == Init => IInv
<1> SUFFICES ASSUME Init PROVE IInv
  OBVIOUS
<1> USE PlanExecuteAssumption DEF Init
<1>1. conf.leaf \in Caps /\ conf.max \in Caps /\ conf.ralph \in BOOLEAN
  BY DEF Config
<1>2. scope \in Scopes /\ Within(scope.taken, scope.allowance)
  BY <1>1, NewScopeType DEF KeepsWithin
<1>3. <<>> \in TaskLists
  BY EmptySeq DEF TaskLists
<1>4. TypeOK
  BY <1>1, <1>2, <1>3 DEF TypeOK, PCs, Results, Pause, NoPause, History, NoHistory,
                          FreshEntry
<1>5. GraphIsDag
  BY DEF GraphIsDag, EdgesPointBack
<1> QED
  BY <1>4, <1>5 DEF IInv, Walking, Stepping, FailedStay, Recorded, CompletedOnce,
                    DrainIsQuiet, NoHistory

-----------------------------------------------------------------------------
(* Entering.                                                               *)

\* Skipping the plan phase: the walk starts from the durable list, the stalled task
\* of a resume put back to Pending in its copy.
LEMMA EnterWalkInv == IInv /\ EnterWalk => IInv'
<1> SUFFICES ASSUME IInv, EnterWalk PROVE IInv'
  OBVIOUS
<1>1. /\ TypeOK /\ GraphIsDag /\ Recorded /\ CompletedOnce
      /\ pc = "enter" /\ pc' = "walk" /\ failed' = {} /\ first' = 0 /\ outputs' = {}
      /\ durable' = durable /\ hist' = hist /\ caps' = caps
  BY DEF IInv, EnterWalk, StartWalk
<1>2. durable \in TaskLists /\ \A t \in DOMAIN durable : durable[t] \in Tasks /\ t \in Nat
  <2>1. durable \in TaskLists
    BY <1>1 DEF TypeOK
  <2> QED
    BY <2>1, ListIsFunction
<1>3. /\ mem' \in TaskLists
      /\ CopyOf(mem', durable)
      /\ reattach' \in Nat
  <2>1. CASE StartWalk(durable, 0)
    BY <2>1, <1>2 DEF StartWalk, CopyOf
  <2>2. ASSUME NEW id \in DOMAIN durable,
               IsFirstInProgress(durable, id),
               StartWalk([durable EXCEPT ![id].status = "Pending"], id)
        PROVE  mem' \in TaskLists /\ CopyOf(mem', durable) /\ reattach' \in Nat
    <3>1. [durable[id] EXCEPT !.status = "Pending"] \in Tasks
      BY <1>2 DEF Tasks, Statuses
    <3>2. mem' \in [1 .. Len(durable) -> Tasks]
      BY <2>2, <3>1, <1>2, ListIsFunction DEF StartWalk
    <3>3. mem' \in TaskLists
      BY <3>2, <1>2, ListIsFunction, FunctionIsList
    <3>4. CopyOf(mem', durable)
      BY <2>2, <1>2 DEF StartWalk, CopyOf, IsFirstInProgress, Tasks
    <3> QED
      BY <2>2, <3>3, <3>4, <1>2 DEF StartWalk
  <2> QED
    BY <2>1, <2>2 DEF EnterWalk
<1>4. scope' \in Scopes /\ Within(scope'.taken, scope'.allowance)
  <2>1. scope' = NewScope(caps.max, entry.continues)
    BY DEF EnterWalk, StartWalk
  <2>2. caps.max \in Caps /\ entry.continues \in Nat
    BY <1>1 DEF TypeOK
  <2> QED
    BY <2>1, <2>2, NewScopeType DEF KeepsWithin
<1>5. TypeOK'
  <2>1. /\ entry' \in [seed : BOOLEAN, cont : BOOLEAN, continues : Nat]
        /\ UNCHANGED <<cur, carried, attempt, conf, result, paused, driven, used>>
    BY <1>1 DEF TypeOK, EnterWalk
  <2> QED
    BY <1>1, <1>3, <1>4, <2>1 DEF TypeOK, PCs
<1>6. GraphIsDag'
  BY <1>1, <1>3 DEF GraphIsDag, EdgesPointBack, CopyOf
<1> QED
  BY <1>1, <1>3, <1>5, <1>6 DEF IInv, Walking, Stepping, FailedStay, GivenUp, Recorded,
                                CompletedOnce, DrainIsQuiet

\* Clearing the list to plan afresh also forgets which steps succeeded.
LEMMA EnterPlanInv == IInv /\ EnterPlan => IInv'
<1> SUFFICES ASSUME IInv, EnterPlan PROVE IInv'
  OBVIOUS
<1>1. /\ TypeOK /\ GraphIsDag /\ CompletedOnce
      /\ pc' = "planning" /\ durable' = <<>> /\ mem' = mem
      /\ hist' = [hist EXCEPT !.done = {}]
  BY DEF IInv, EnterPlan
<1>2. hist \in History /\ hist'.done = {} /\ hist'.redone = hist.redone /\ hist' \in History
  BY <1>1 DEF TypeOK, History
<1>3. entry' \in [seed : BOOLEAN, cont : BOOLEAN, continues : Nat]
  <2> DEFINE e == [entry EXCEPT !.seed = FALSE]
  <2>1. e \in [seed : BOOLEAN, cont : BOOLEAN, continues : Nat]
    BY <1>1 DEF TypeOK
  <2>2. entry' = [e EXCEPT !.cont = FALSE]
    BY DEF EnterPlan
  <2> HIDE DEF e
  <2> QED
    BY <2>1, <2>2
<1>4. TypeOK'
  BY <1>1, <1>2, <1>3, EmptySeq DEF TypeOK, EnterPlan, PCs, TaskLists
<1>5. GraphIsDag'
  BY <1>1 DEF GraphIsDag, EdgesPointBack
<1> QED
  BY <1>1, <1>2, <1>4, <1>5 DEF IInv, Walking, Stepping, FailedStay, Recorded,
                                CompletedOnce, DrainIsQuiet

-----------------------------------------------------------------------------
(* The agent's edits: whatever evolves the durable list as the tool does   *)
(* leaves the walk's assumptions standing.                                 *)

\* In a list that evolves, a task that was given up stays given up.
LEMMA KeepsGivenUp ==
    ASSUME NEW old, NEW new, Keeps(old, new), GivenUp(old)
    PROVE  GivenUp(new)
BY DEF Keeps, GivenUp

\* Any edit of the durable list that evolves it and closes no cycle is harmless.
LEMMA EditInv ==
    ASSUME IInv, NEW list \in TaskLists, EdgesPointBack(list), Keeps(durable, list),
           AgentEdits(list)
    PROVE  IInv'
<1>1. /\ TypeOK /\ GraphIsDag /\ Stepping /\ FailedStay /\ Recorded /\ CompletedOnce
      /\ pc \in {"step", "planning"} /\ durable' = list
      /\ UNCHANGED <<pc, runVars, conf, caps, entry, driven, result, paused, hist>>
  BY DEF IInv, AgentEdits, AgentRuns
<1>2. used' \in [edits : Nat, pauses : Nat, runs : Nat]
  BY <1>1 DEF TypeOK, AgentEdits
<1>3. TypeOK'
  BY <1>1, <1>2 DEF TypeOK, runVars
<1>4. GraphIsDag'
  BY <1>1 DEF GraphIsDag, runVars, EdgesPointBack
<1>5. Stepping'
  BY <1>1, KeepsCompleted DEF Stepping, Keeps, runVars
<1>6. FailedStay'
  <2>1. CASE pc = "step"
    <3>1. GivenUp(list)
      BY <2>1, <1>1, KeepsGivenUp DEF FailedStay
    <3> QED
      BY <3>1, <2>1, <1>1 DEF FailedStay, GivenUp, runVars
  <2> QED
    BY <2>1, <1>1 DEF FailedStay
<1>7. Recorded'
  BY <1>1, KeepsCompleted DEF Recorded
<1> QED
  BY <1>1, <1>3, <1>4, <1>5, <1>6, <1>7 DEF IInv, Walking, CompletedOnce, DrainIsQuiet

\* The two calls of the task_list tool are such edits.
LEMMA AgentInv == IInv /\ (AgentAdds \/ AgentUpdates) => IInv'
<1> SUFFICES ASSUME IInv, AgentAdds \/ AgentUpdates PROVE IInv'
  OBVIOUS
<1>1. durable \in TaskLists /\ EdgesPointBack(durable)
  BY DEF IInv, TypeOK, GraphIsDag
<1>2. CASE AgentAdds
  <2>1. PICK blockers \in SUBSET (1 .. Len(durable) + 1) :
            /\ CanAdd(durable, blockers)
            /\ AgentEdits(Append(durable, NewTask(blockers)))
    BY <1>2 DEF AgentAdds
  <2>2. blockers \in SUBSET Nat
    BY <1>1, ListIsFunction
  <2>3. EdgesPointBack(Append(durable, NewTask(blockers)))
    BY <1>1, <2>1, <2>2, AppendBack
  <2>4. /\ Append(durable, NewTask(blockers)) \in TaskLists
        /\ Keeps(durable, Append(durable, NewTask(blockers)))
    BY <1>1, <2>2, AppendKeeps
  <2> QED
    BY <2>1, <2>3, <2>4, EditInv
<1>3. CASE AgentUpdates
  <2>1. PICK id \in DOMAIN durable, to \in Statuses : AgentEdits(SetStatus(durable, id, to))
    BY <1>3 DEF AgentUpdates
  <2>2. /\ SetStatus(durable, id, to) \in TaskLists
        /\ DOMAIN SetStatus(durable, id, to) = DOMAIN durable
        /\ Keeps(durable, SetStatus(durable, id, to))
    BY <1>1, SetStatusKeeps
  <2>3. EdgesPointBack(SetStatus(durable, id, to))
    BY <1>1, <2>2, KeepsBack DEF Keeps
  <2> QED
    BY <2>1, <2>2, <2>3, EditInv
<1> QED
  BY <1>2, <1>3

-----------------------------------------------------------------------------
(* The plan phase.                                                         *)

\* The list made of a plan artifact is well typed and has no edges.
LEMMA LinearIsList ==
    ASSUME NEW n \in Nat
    PROVE  Linear(n) \in TaskLists /\ EdgesPointBack(Linear(n))
<1>1. NewTask({}) \in Tasks /\ NewTask({}).blockers = {}
  BY DEF NewTask, Tasks, Statuses
<1>2. Linear(n) \in [1 .. n -> Tasks]
  BY <1>1 DEF Linear
<1> QED
  BY <1>1, <1>2, FunctionIsList DEF Linear, EdgesPointBack

\* The planner's answer: the walk starts from the very list that is stored.
LEMMA PlanAnsweredInv == IInv /\ PlanAnswered => IInv'
<1> SUFFICES ASSUME IInv, PlanAnswered PROVE IInv'
  OBVIOUS
<1> USE PlanExecuteAssumption
<1>1. TypeOK /\ GraphIsDag /\ Recorded /\ CompletedOnce /\ pc = "planning"
  BY DEF IInv, PlanAnswered
<1>2. PICK turns \in 1 .. MaxTurns, n \in 0 .. MaxTasks :
          LET list == IF durable # <<>> THEN durable ELSE Linear(n)
          IN  /\ \/ /\ list # <<>>
                    /\ StartWalk(list, 0)
                    /\ durable' = list /\ carried' = carried + turns
                    /\ UNCHANGED <<attempt, result>>
                 \/ /\ list = <<>> /\ attempt < PlanRetries
                    /\ attempt' = attempt + 1
                    /\ UNCHANGED <<durable, mem, pc, carried, scope, reattach,
                                   failed, first, outputs, result>>
                 \/ /\ list = <<>> /\ attempt >= PlanRetries
                    /\ Ends("empty plan")
                    /\ UNCHANGED <<durable, mem, carried, scope, attempt, reattach,
                                   failed, first, outputs>>
              /\ UNCHANGED <<cur, envVars, paused, hist>>
  BY DEF PlanAnswered
<1> DEFINE list == IF durable # <<>> THEN durable ELSE Linear(n)
<1>3. turns \in Nat /\ n \in Nat
  OBVIOUS
<1>4. /\ list \in TaskLists /\ EdgesPointBack(list)
      /\ \A t \in DOMAIN durable : IsCompleted(durable, t) => IsCompleted(list, t)
  BY <1>1, <1>3, LinearIsList DEF TypeOK, GraphIsDag
<1>5. UNCHANGED <<cur, conf, caps, entry, driven, used, paused, hist>>
  BY <1>2 DEF envVars
<1>6. CASE list # <<>> /\ StartWalk(list, 0) /\ durable' = list
           /\ carried' = carried + turns /\ UNCHANGED <<attempt, result>>
  <2> HIDE DEF list
  <2>1. scope' \in Scopes /\ Within(scope'.taken, scope'.allowance)
    BY <1>1, <1>6, NewScopeType DEF StartWalk, TypeOK, KeepsWithin
  <2>2. TypeOK'
    BY <1>1, <1>3, <1>4, <1>5, <1>6, <2>1 DEF TypeOK, StartWalk, PCs
  <2>3. GraphIsDag' /\ Walking' /\ FailedStay' /\ Stepping'
    BY <1>4, <1>6 DEF GraphIsDag, StartWalk, Walking, CopyOf, FailedStay, GivenUp, Stepping
  <2>4. Recorded'
    BY <1>1, <1>4, <1>5, <1>6 DEF Recorded, IsCompleted
  <2> QED
    BY <1>1, <1>5, <1>6, <2>2, <2>3, <2>4 DEF IInv, CompletedOnce, DrainIsQuiet, StartWalk
<1>7. CASE /\ attempt' = attempt + 1
           /\ UNCHANGED <<durable, mem, pc, carried, scope, reattach, failed, first,
                          outputs, result>>
  BY <1>1, <1>5, <1>7 DEF IInv, TypeOK, GraphIsDag, Walking, Stepping, FailedStay, Recorded,
                          CompletedOnce, DrainIsQuiet
<1>8. CASE /\ Ends("empty plan")
           /\ UNCHANGED <<durable, mem, carried, scope, attempt, reattach, failed, first,
                          outputs>>
  BY <1>1, <1>5, <1>8 DEF IInv, TypeOK, GraphIsDag, Walking, Stepping, FailedStay, Recorded,
                          CompletedOnce, DrainIsQuiet, Ends, PCs, Results
<1> QED
  BY <1>2, <1>6, <1>7, <1>8

\* Steps that touch neither list and leave the walk, for a pause or for an end
\* that claims nothing about the tasks.
LEMMA OutsideInv ==
    ASSUME IInv, TypeOK', pc' \notin {"walk", "step"}, UNCHANGED <<durable, mem, hist>>,
           pc' = "ended" => result' \notin {"success", "blocked by failure"}
    PROVE  IInv'
BY DEF IInv, GraphIsDag, Walking, Stepping, FailedStay, Recorded, CompletedOnce, DrainIsQuiet

\* A plan phase that fails ends the run with the list untouched.
LEMMA PlanFailsInv == IInv /\ PlanFails => IInv'
<1> SUFFICES ASSUME IInv, PlanFails PROVE IInv'
  OBVIOUS
<1>1. TypeOK'
  BY DEF IInv, TypeOK, PlanFails, Ends, runVars, envVars, PCs, Results
<1> QED
  BY <1>1, OutsideInv DEF PlanFails, Ends, runVars

\* A plan phase that pauses leaves the list untouched.
LEMMA PlanPausesInv == IInv /\ PlanPauses => IInv'
<1> SUFFICES ASSUME IInv, PlanPauses PROVE IInv'
  OBVIOUS
<1>1. PICK turns \in 1 .. MaxTurns :
          /\ pc' = "paused"
          /\ paused' = [NoPause EXCEPT !.kind = "plan", !.turns = carried + turns,
                                       !.steps = carried + turns]
          /\ UNCHANGED <<durable, runVars, envVars, result, hist>>
  BY DEF PlanPauses
<1>2. carried + turns \in Nat
  BY DEF IInv, TypeOK
<1>3. paused' \in Pause
  <2> DEFINE p == [NoPause EXCEPT !.kind = "plan"]
             q == [p EXCEPT !.turns = carried + turns]
  <2>1. p \in Pause
    BY DEF NoPause, Pause
  <2> HIDE DEF p
  <2>2. q \in Pause
    BY <1>2, <2>1 DEF Pause
  <2>3. paused' = [q EXCEPT !.steps = carried + turns]
    BY <1>1 DEF p
  <2> HIDE DEF q
  <2> QED
    BY <1>2, <2>2, <2>3 DEF Pause
<1>4. TypeOK'
  BY <1>1, <1>3 DEF IInv, TypeOK, runVars, envVars, PCs
<1> QED
  BY <1>1, <1>4, OutsideInv DEF runVars

-----------------------------------------------------------------------------
(* The walk.                                                               *)

\* Picking: the task is ready in the walk's copy, so also in the durable list that is
\* stored over it, and it has neither succeeded nor been given up.
LEMMA PickInv == IInv /\ Pick => IInv'
<1> SUFFICES ASSUME IInv, Pick PROVE IInv'
  OBVIOUS
<1>1. PICK id \in DOMAIN mem :
          /\ pc = "walk"
          /\ IsNextReady(mem, id)
          /\ mem' = SetStatus(mem, id, "InProgress")
          /\ durable' = mem'
          /\ cur' = id /\ pc' = "step"
          /\ reattach' = IF reattach = id THEN 0 ELSE reattach
          /\ UNCHANGED <<carried, scope, attempt, failed, first, outputs,
                         envVars, result, paused, hist>>
  BY DEF Pick
<1>2. TypeOK /\ GraphIsDag /\ CopyOf(mem, durable) /\ GivenUp(mem) /\ Recorded /\ CompletedOnce
  BY <1>1 DEF IInv, Walking, FailedStay
<1>3. mem \in TaskLists /\ DOMAIN mem \subseteq Nat
  BY <1>2, ListIsFunction DEF TypeOK
<1>4. mem' \in TaskLists /\ DOMAIN mem' = DOMAIN mem /\ Keeps(mem, mem')
  BY <1>1, <1>3, SetStatusKeeps DEF Statuses
<1>5. /\ mem[id].status = "Pending"
      /\ \A b \in mem[id].blockers : IsCompleted(mem, b)
  BY <1>1 DEF IsNextReady, Ready
<1>6. /\ hist' \in History
      /\ hist'.done = hist.done /\ hist'.redone = hist.redone
  BY <1>1, <1>2 DEF TypeOK
<1>7. TypeOK'
  BY <1>1, <1>2, <1>3, <1>4, <1>6 DEF TypeOK, envVars, PCs
<1>8. GraphIsDag'
  BY <1>1, <1>2, <1>3, <1>4, KeepsBack DEF GraphIsDag, Keeps
<1>9. \A t \in hist.done : IsCompleted(mem, t)
  BY <1>2, <1>3 DEF Recorded, CopyOf, IsCompleted
<1>10. Recorded'
  BY <1>1, <1>4, <1>6, <1>9, KeepsCompleted DEF Recorded
<1>11. Stepping'
  <2>1. id \in DOMAIN mem' /\ mem'[id].blockers = mem[id].blockers
    BY <1>1, <1>4 DEF Keeps
  <2>2. \A b \in mem[id].blockers : IsCompleted(mem', b)
    BY <1>4, <1>5, KeepsCompleted
  <2>3. id \notin hist.done /\ id \notin failed
    BY <1>2, <1>5, <1>9 DEF GivenUp, IsCompleted
  <2> QED
    BY <1>1, <1>6, <2>1, <2>2, <2>3 DEF Stepping
<1>12. FailedStay'
  <2>1. \A t \in failed : t \in DOMAIN mem' /\ mem'[t].status # "Pending"
    BY <1>2, <1>4 DEF GivenUp, Keeps
  <2> QED
    BY <1>1, <2>1 DEF FailedStay, GivenUp
<1> QED
  BY <1>1, <1>2, <1>6, <1>7, <1>8, <1>10, <1>11, <1>12
     DEF IInv, Walking, CompletedOnce, DrainIsQuiet

\* The walk returns when its copy has no ready task; one that is ready in the durable
\* list would be ready in the copy too.
LEMMA DrainInv == IInv /\ Drain => IInv'
<1> SUFFICES ASSUME IInv, Drain PROVE IInv'
  OBVIOUS
<1>1. /\ pc = "walk" /\ Ready(mem) = {} /\ pc' = "ended"
      /\ result' \in Results
      /\ UNCHANGED <<durable, runVars, envVars, paused, hist>>
  BY DEF Drain, Ends, Results
<1>2. CopyOf(mem, durable)
  BY <1>1 DEF IInv, Walking
<1>3. Ready(durable) = {}
  <2>1. ASSUME NEW t \in Ready(durable) PROVE t \in Ready(mem)
    BY <1>2, <2>1 DEF Ready, CopyOf, IsCompleted
  <2> QED
    BY <1>1, <2>1
<1>4. TypeOK'
  BY <1>1 DEF IInv, TypeOK, runVars, envVars, PCs
<1> QED
  BY <1>1, <1>3, <1>4 DEF IInv, GraphIsDag, Walking, Stepping, FailedStay, Recorded,
                          CompletedOnce, DrainIsQuiet, runVars

-----------------------------------------------------------------------------
(* The outcomes of a step: each stores a list evolved from the reloaded    *)
(* one, records at most the step's own task as done, and gives up only     *)
(* tasks that it has made Blocked.                                         *)

\* A step whose outcome is stored in both lists, and evolves the one the agent left,
\* keeps the invariant wherever the run goes next.
LEMMA StepDoneInv ==
    ASSUME IInv, TypeOK', pc = "step", NEW new \in TaskLists,
           DOMAIN new = DOMAIN durable, Keeps(durable, new),
           durable' = new, mem' = new,
           pc' \in {"walk", "paused", "exhausted", "ended"},
           pc' = "ended" => result' \notin {"success", "blocked by failure"},
           \A t \in failed' : t \in DOMAIN new /\ new[t].status # "Pending",
           \A t \in hist'.done : IsCompleted(new, t),
           hist'.redone = {}
    PROVE  IInv'
<1>1. EdgesPointBack(new)
  BY KeepsBack DEF IInv, GraphIsDag, TypeOK, Keeps
<1>2. GraphIsDag'
  BY <1>1 DEF GraphIsDag
<1>3. Walking'
  BY DEF Walking, CopyOf
<1>4. FailedStay'
  BY DEF FailedStay, GivenUp
<1> QED
  BY <1>2, <1>3, <1>4 DEF IInv, Stepping, Recorded, CompletedOnce, DrainIsQuiet

\* A list that evolves keeps what the walk remembers of earlier steps.
LEMMA OldRecordKeeps ==
    ASSUME IInv, pc = "step", NEW new, Keeps(durable, new)
    PROVE  /\ \A t \in failed : t \in DOMAIN new /\ new[t].status # "Pending"
           /\ \A t \in hist.done : IsCompleted(new, t)
           /\ hist.redone = {}
BY KeepsGivenUp, KeepsCompleted DEF IInv, FailedStay, GivenUp, Recorded, CompletedOnce

\* A granted Continue or AutoContinue leaves a budget scope.
LEMMA ScopeGoesOnType ==
    TypeOK /\ ScopeGoesOn => scope' \in Scopes /\ Within(scope'.taken, scope'.allowance)
BY ScopeTypes, PlanExecuteAssumption DEF TypeOK, ScopeGoesOn, KeepsWithin

\* What a run carries out of the walk is a pause record.
LEMMA LeavesType ==
    ASSUME TypeOK, NEW where, NEW turns \in Nat, NEW steps \in Nat, Leaves(where, turns, steps)
    PROVE  pc' = where /\ cur' = 0 /\ paused' \in Pause
BY DEF TypeOK, Leaves, Pause, Scopes

\* A child reports a number of turns.
LEMMA ReportsType == TypeOK => Reports(0) \subseteq Nat /\ Reports(1) \subseteq Nat
BY PlanExecuteAssumption DEF TypeOK, Reports

\* A successful step, in each of the four outcomes of its charge.
LEMMA StepSucceedsInv == IInv /\ StepSucceeds => IInv'
<1> SUFFICES ASSUME IInv, StepSucceeds PROVE IInv'
  OBVIOUS
<1>1. PICK turns \in Reports(1) :
        LET spent == IF turns > carried THEN turns - carried ELSE 0
        IN  /\ pc = "step"
            /\ Persist(SetStatus(Reloaded, cur, "Completed"))
            /\ outputs' = outputs \cup {cur}
            /\ hist' = [hist EXCEPT !.done = @ \cup {cur},
                                    !.redone = @ \cup (hist.done \cap {cur})]
            /\ \/ /\ Fits(scope, spent) /\ scope' = Charged(scope, spent)
                  /\ carried' = turns /\ pc' = "walk" /\ cur' = 0
                  /\ UNCHANGED paused
               \/ /\ ~ Fits(scope, spent) /\ ScopeGoesOn
                  /\ carried' = turns /\ pc' = "walk" /\ cur' = 0
                  /\ UNCHANGED paused
               \/ /\ ~ Fits(scope, spent) /\ Surfaces
                  /\ Leaves("paused", turns, scope.taken)
                  /\ UNCHANGED <<scope, carried>>
               \/ /\ ~ Fits(scope, spent) /\ (Aborts \/ Resolves = "Fail")
                  /\ Leaves("exhausted", turns, scope.taken)
                  /\ UNCHANGED <<scope, carried>>
            /\ UNCHANGED <<attempt, reattach, failed, first, envVars, result>>
  BY DEF StepSucceeds
<1> DEFINE spent == IF turns > carried THEN turns - carried ELSE 0
           new   == SetStatus(durable, cur, "Completed")
<1>2. TypeOK /\ Stepping /\ CompletedOnce /\ pc = "step"
  BY <1>1 DEF IInv
<1>3. turns \in Nat /\ spent \in Nat /\ scope.taken \in Nat
  BY <1>2, ReportsType DEF TypeOK, Scopes
<1>4. durable' = new /\ mem' = new
  BY <1>1 DEF Persist, Reloaded
<1>5. new \in TaskLists /\ DOMAIN new = DOMAIN durable /\ Keeps(durable, new)
  BY <1>2, SetStatusKeeps DEF TypeOK, Stepping, Statuses
<1>6. IsCompleted(new, cur)
  <2>1. durable[cur] \in Tasks /\ cur \in DOMAIN durable
    BY <1>2, ListIsFunction DEF TypeOK, Stepping
  <2> QED
    BY <2>1 DEF SetStatus, CanTransition, IsCompleted, Tasks, Statuses
<1> HIDE DEF new, spent
<1>7. hist' \in History /\ hist'.done = hist.done \cup {cur} /\ hist'.redone = {}
  <2> DEFINE h == [hist EXCEPT !.done = @ \cup {cur}]
             r == hist.redone \cup (hist.done \cap {cur})
  <2>1. h \in History /\ h.done = hist.done \cup {cur}
    BY <1>2 DEF TypeOK, History
  <2>2. r = {}
    BY <1>2 DEF CompletedOnce, Stepping
  <2>3. hist' = [h EXCEPT !.redone = r]
    BY <1>1
  <2> HIDE DEF h, r
  <2> QED
    BY <2>1, <2>2, <2>3 DEF History
<1>8. /\ pc' \in {"walk", "paused", "exhausted"} /\ cur' = 0
      /\ scope' \in Scopes /\ Within(scope'.taken, scope'.allowance)
      /\ carried' \in Nat /\ paused' \in Pause
  <2>1. CASE /\ Fits(scope, spent) /\ scope' = Charged(scope, spent) /\ carried' = turns
             /\ pc' = "walk" /\ cur' = 0 /\ UNCHANGED paused
    BY <2>1, <1>2, <1>3, ScopeTypes DEF TypeOK, KeepsWithin
  <2>2. CASE /\ ScopeGoesOn /\ carried' = turns
             /\ pc' = "walk" /\ cur' = 0 /\ UNCHANGED paused
    BY <2>2, <1>2, <1>3, ScopeGoesOnType DEF TypeOK
  <2>3. CASE Leaves("paused", turns, scope.taken) /\ UNCHANGED <<scope, carried>>
    BY <2>3, <1>2, <1>3, LeavesType DEF TypeOK
  <2>4. CASE Leaves("exhausted", turns, scope.taken) /\ UNCHANGED <<scope, carried>>
    BY <2>4, <1>2, <1>3, LeavesType DEF TypeOK
  <2> QED
    BY <1>1, <2>1, <2>2, <2>3, <2>4 DEF spent
<1>9. UNCHANGED <<attempt, reattach, failed, first, conf, caps, entry, driven, used, result>>
  BY <1>1 DEF envVars
<1>10. outputs' \in SUBSET Nat
  BY <1>1, <1>2 DEF TypeOK
<1>11. TypeOK'
  BY <1>2, <1>4, <1>5, <1>7, <1>8, <1>9, <1>10 DEF TypeOK, PCs
<1>12. /\ \A t \in failed' : t \in DOMAIN new /\ new[t].status # "Pending"
       /\ \A t \in hist'.done : IsCompleted(new, t)
  BY <1>2, <1>5, <1>6, <1>7, <1>9, OldRecordKeeps
<1> QED
  BY <1>2, <1>4, <1>5, <1>7, <1>8, <1>11, <1>12, StepDoneInv

\* The cascade: the list evolves and nothing it gives up is Pending.
LEMMA CascadeFromFacts ==
    ASSUME IInv, pc = "step", CascadeFrom(cur)
    PROVE  /\ durable' \in TaskLists /\ mem' = durable'
           /\ DOMAIN durable' = DOMAIN durable /\ Keeps(durable, durable')
           /\ \A t \in failed' : t \in DOMAIN durable' /\ durable'[t].status # "Pending"
           /\ failed' \in SUBSET Nat /\ first' \in Nat /\ pc' = "walk" /\ cur' = 0
<1> DEFINE new == CascadeBlock(durable, cur)
           hit == {cur} \cup TransitiveDependents(durable, cur)
<1>1. TypeOK /\ cur \in DOMAIN durable
  BY DEF IInv, Stepping
<1>2. /\ durable' = new /\ mem' = new /\ failed' = failed \cup hit
      /\ first' = IF first = 0 THEN cur ELSE first
      /\ pc' = "walk" /\ cur' = 0
  BY DEF CascadeFrom, Persist, Reloaded
<1>3. /\ new \in TaskLists /\ DOMAIN new = DOMAIN durable /\ Keeps(durable, new)
      /\ hit \subseteq DOMAIN durable
      /\ \A t \in hit : new[t].status # "Pending"
  BY <1>1, CascadeKeeps DEF TypeOK
<1>4. \A t \in failed : t \in DOMAIN new /\ new[t].status # "Pending"
  BY <1>3, OldRecordKeeps
<1>5. hit \subseteq Nat
  BY <1>1, <1>3, ListIsFunction DEF TypeOK
<1> HIDE DEF new, hit
<1> QED
  BY <1>1, <1>2, <1>3, <1>4, <1>5 DEF TypeOK

\* A failed step and its cascade.
LEMMA StepFailsInv == IInv /\ StepFails => IInv'
<1> SUFFICES ASSUME IInv, StepFails PROVE IInv'
  OBVIOUS
<1>1. /\ TypeOK /\ pc = "step" /\ CascadeFrom(cur) /\ carried' \in Nat
      /\ UNCHANGED <<scope, attempt, reattach, outputs, envVars, result, paused, hist>>
  BY ReportsType DEF IInv, StepFails
<1>2. /\ durable' \in TaskLists /\ mem' = durable'
      /\ DOMAIN durable' = DOMAIN durable /\ Keeps(durable, durable')
      /\ \A t \in failed' : t \in DOMAIN durable' /\ durable'[t].status # "Pending"
      /\ failed' \in SUBSET Nat /\ first' \in Nat /\ pc' = "walk" /\ cur' = 0
  BY <1>1, CascadeFromFacts
<1>3. TypeOK'
  BY <1>1, <1>2 DEF TypeOK, envVars, PCs
<1>4. (\A t \in hist'.done : IsCompleted(durable', t)) /\ hist'.redone = {}
  BY <1>1, <1>2, OldRecordKeeps
<1> QED
  BY <1>1, <1>2, <1>3, <1>4, StepDoneInv

\* A step stopped by a limit of the whole run.
LEMMA StepHitsGlobalLimitInv == IInv /\ StepHitsGlobalLimit => IInv'
<1> SUFFICES ASSUME IInv, StepHitsGlobalLimit PROVE IInv'
  OBVIOUS
<1>1. /\ TypeOK /\ Stepping /\ pc = "step"
      /\ durable' = SetStatus(durable, cur, "Blocked") /\ mem' = durable'
      /\ pc' = "ended" /\ result' = "budget exceeded" /\ cur' = 0
      /\ UNCHANGED <<carried, scope, attempt, reattach, failed, first, outputs,
                     envVars, paused, hist>>
  BY DEF IInv, StepHitsGlobalLimit, Persist, Reloaded, Ends
<1>2. durable' \in TaskLists /\ DOMAIN durable' = DOMAIN durable /\ Keeps(durable, durable')
  BY <1>1, SetStatusKeeps DEF TypeOK, Stepping, Statuses
<1>3. TypeOK'
  BY <1>1, <1>2 DEF TypeOK, envVars, PCs, Results
<1>4. /\ \A t \in failed' : t \in DOMAIN durable' /\ durable'[t].status # "Pending"
      /\ \A t \in hist'.done : IsCompleted(durable', t)
      /\ hist'.redone = {}
  BY <1>1, <1>2, OldRecordKeeps
<1> QED
  BY <1>1, <1>2, <1>3, <1>4, StepDoneInv

\* An exhausted step, in each of the four ways the node resolves it.
LEMMA StepExhaustedInv == IInv /\ StepExhausted => IInv'
<1> SUFFICES ASSUME IInv, StepExhausted PROVE IInv'
  OBVIOUS
<1>1. PICK turns \in carried .. carried + MaxTurns, steps \in 0 .. carried + MaxTurns :
        /\ LeafExhausted(turns, steps)
        /\ \/ /\ Resolves = "Fail"
              /\ CascadeFrom(cur)
              /\ UNCHANGED <<scope, carried, paused>>
           \/ /\ ScopeGoesOn
              /\ Persist(SetStatus(Reloaded, cur, "Pending"))
              /\ pc' = "walk" /\ cur' = 0
              /\ UNCHANGED <<carried, failed, first, paused>>
           \/ /\ Surfaces
              /\ Persist(SetStatus(Reloaded, cur, "InProgress"))
              /\ Leaves("paused", steps, steps)
              /\ carried' = steps
              /\ UNCHANGED <<scope, failed, first>>
           \/ /\ Aborts
              /\ Persist(SetStatus(Reloaded, cur, "Blocked"))
              /\ Leaves("exhausted", steps, steps)
              /\ UNCHANGED <<scope, carried, failed, first>>
        /\ UNCHANGED <<attempt, reattach, outputs, envVars, result, hist>>
  BY DEF StepExhausted
<1>2. TypeOK /\ Stepping /\ pc = "step" /\ steps \in Nat
  BY <1>1 DEF IInv, LeafExhausted
<1>3. UNCHANGED <<attempt, reattach, outputs, conf, caps, entry, driven, used, result, hist>>
  BY <1>1 DEF envVars
<1>4. ASSUME NEW to \in Statuses, Persist(SetStatus(Reloaded, cur, to)),
             UNCHANGED <<failed, first>>
      PROVE  /\ durable' \in TaskLists /\ mem' = durable'
             /\ DOMAIN durable' = DOMAIN durable /\ Keeps(durable, durable')
             /\ \A t \in failed' : t \in DOMAIN durable' /\ durable'[t].status # "Pending"
             /\ failed' \in SUBSET Nat /\ first' \in Nat
  <2>1. durable' = SetStatus(durable, cur, to) /\ mem' = durable'
    BY <1>4 DEF Persist, Reloaded
  <2>2. durable' \in TaskLists /\ DOMAIN durable' = DOMAIN durable /\ Keeps(durable, durable')
    BY <1>2, <2>1, SetStatusKeeps DEF TypeOK, Stepping
  <2> QED
    BY <1>2, <1>4, <2>1, <2>2, OldRecordKeeps DEF TypeOK
<1>5. /\ durable' \in TaskLists /\ mem' = durable'
      /\ DOMAIN durable' = DOMAIN durable /\ Keeps(durable, durable')
      /\ \A t \in failed' : t \in DOMAIN durable' /\ durable'[t].status # "Pending"
      /\ failed' \in SUBSET Nat /\ first' \in Nat
      /\ pc' \in {"walk", "paused", "exhausted"} /\ cur' = 0
      /\ scope' \in Scopes /\ Within(scope'.taken, scope'.allowance)
      /\ carried' \in Nat /\ paused' \in Pause
  <2>1. CASE Resolves = "Fail" /\ CascadeFrom(cur) /\ UNCHANGED <<scope, carried, paused>>
    BY <1>2, <2>1, CascadeFromFacts DEF TypeOK
  <2>2. CASE /\ ScopeGoesOn
             /\ Persist(SetStatus(Reloaded, cur, "Pending"))
             /\ pc' = "walk" /\ cur' = 0
             /\ UNCHANGED <<carried, failed, first, paused>>
    BY <1>2, <1>4, <2>2, ScopeGoesOnType DEF TypeOK, Statuses
  <2>3. CASE /\ Surfaces
             /\ Persist(SetStatus(Reloaded, cur, "InProgress"))
             /\ Leaves("paused", steps, steps)
             /\ carried' = steps
             /\ UNCHANGED <<scope, failed, first>>
    BY <1>2, <1>4, <2>3, LeavesType DEF TypeOK, Statuses
  <2>4. CASE /\ Aborts
             /\ Persist(SetStatus(Reloaded, cur, "Blocked"))
             /\ Leaves("exhausted", steps, steps)
             /\ UNCHANGED <<scope, carried, failed, first>>
    BY <1>2, <1>4, <2>4, LeavesType DEF TypeOK, Statuses
  <2> QED
    BY <1>1, <2>1, <2>2, <2>3, <2>4
<1>6. TypeOK'
  BY <1>2, <1>3, <1>5 DEF TypeOK, PCs
<1>7. (\A t \in hist'.done : IsCompleted(durable', t)) /\ hist'.redone = {}
  BY <1>2, <1>3, <1>5, OldRecordKeeps
<1> QED
  BY <1>2, <1>5, <1>6, <1>7, StepDoneInv

\* A step that pauses or escalates leaves the list as the agent left it.
LEMMA StepPausesInv == IInv /\ StepPauses => IInv'
<1> SUFFICES ASSUME IInv, StepPauses PROVE IInv'
  OBVIOUS
<1>1. PICK turns \in Reports(1) :
        /\ mem' = durable /\ cur' = 0
        /\ \/ /\ pc' = "paused"
              /\ paused' = [NoPause EXCEPT !.kind = "tool", !.turns = turns]
              /\ UNCHANGED result
           \/ Ends("escalated") /\ UNCHANGED paused
        /\ UNCHANGED <<durable, carried, scope, attempt, reattach, failed, first,
                       outputs, envVars, hist>>
  BY DEF StepPauses, Reloaded
<1>2. TypeOK /\ pc = "step" /\ turns \in Nat
  BY ReportsType DEF IInv, StepPauses
<1>3. [NoPause EXCEPT !.kind = "tool", !.turns = turns] \in Pause
  <2> DEFINE p == [NoPause EXCEPT !.kind = "tool"]
  <2>1. p \in Pause
    BY DEF NoPause, Pause
  <2>2. [NoPause EXCEPT !.kind = "tool", !.turns = turns] = [p EXCEPT !.turns = turns]
    OBVIOUS
  <2> HIDE DEF p
  <2> QED
    BY <1>2, <2>1, <2>2 DEF Pause
<1>4. /\ paused' \in Pause /\ pc' \in {"paused", "ended"} /\ result' \in Results
      /\ pc' = "ended" => result' = "escalated"
  BY <1>1, <1>2, <1>3 DEF TypeOK, Ends, Results
<1>5. TypeOK'
  BY <1>1, <1>2, <1>4 DEF TypeOK, envVars, PCs
<1>6. Keeps(durable, durable)
  BY DEF Keeps
<1>7. /\ \A t \in failed' : t \in DOMAIN durable /\ durable[t].status # "Pending"
      /\ \A t \in hist'.done : IsCompleted(durable, t)
      /\ hist'.redone = {}
  BY <1>1, <1>2, <1>6, OldRecordKeeps
<1> QED
  BY <1>1, <1>2, <1>4, <1>5, <1>6, <1>7, StepDoneInv DEF TypeOK

-----------------------------------------------------------------------------
(* Around the walk.                                                        *)

\* What every entry of a run sets.
LEMMA EnterTypes ==
    ASSUME TypeOK, NEW seed \in BOOLEAN, NEW cont \in BOOLEAN, NEW n \in Nat, NEW turns \in Nat,
           Enter(seed, cont, n, turns)
    PROVE  /\ pc' = "enter" /\ cur' = 0 /\ carried' \in Nat /\ paused' \in Pause
           /\ entry' \in [seed : BOOLEAN, cont : BOOLEAN, continues : Nat]
           /\ UNCHANGED <<conf, durable, mem, scope, attempt, reattach, failed, first, outputs>>
<1>1. conf.ralph \in BOOLEAN
  BY PlanExecuteAssumption DEF TypeOK, Config
<1> QED
  BY <1>1 DEF Enter, NoPause, Pause

\* A grant to the whole task leaves well typed caps.
LEMMA GrantedTypes ==
    ASSUME TypeOK, NEW n \in Nat, Granted(n)
    PROVE  caps' \in [leaf : Caps, max : Caps]
BY GrantTypes DEF TypeOK, Granted

\* The driving round runs the strategy once more or ends the run.
LEMMA DriveResolvesInv == IInv /\ DriveResolves => IInv'
<1> SUFFICES ASSUME IInv, DriveResolves PROVE IInv'
  OBVIOUS
<1> USE PlanExecuteAssumption
<1>1. TypeOK /\ paused.steps + StepsPerGrant \in Nat
  BY DEF IInv, TypeOK, Pause
<1>2. CASE /\ driven' = driven + 1
           /\ Granted(paused.steps + StepsPerGrant)
           /\ Enter(FALSE, FALSE, 0, carried)
           /\ UNCHANGED <<used, result, hist>>
  <2>1. caps' \in [leaf : Caps, max : Caps]
    BY <1>1, <1>2, GrantedTypes
  <2>2. carried \in Nat /\ driven' \in Nat
    BY <1>1, <1>2 DEF TypeOK
  <2>3. /\ pc' = "enter" /\ cur' = 0 /\ carried' \in Nat /\ paused' \in Pause
        /\ entry' \in [seed : BOOLEAN, cont : BOOLEAN, continues : Nat]
        /\ UNCHANGED <<conf, durable, mem, scope, attempt, reattach, failed, first, outputs>>
    BY <1>1, <1>2, <2>2, EnterTypes
  <2>4. TypeOK'
    BY <1>1, <1>2, <2>1, <2>2, <2>3 DEF TypeOK, PCs
  <2> QED
    BY <1>2, <2>3, <2>4, OutsideInv
<1>3. CASE /\ Ends("budget exceeded")
           /\ UNCHANGED <<durable, runVars, envVars, paused, hist>>
  <2>1. TypeOK'
    BY <1>1, <1>3 DEF TypeOK, Ends, runVars, envVars, PCs, Results
  <2> QED
    BY <1>3, <2>1, OutsideInv DEF Ends, runVars
<1> QED
  BY <1>2, <1>3 DEF DriveResolves

\* Every answer to a pause re-enters the run or ends it, with the list untouched.
LEMMA ResumeInv == IInv /\ Resume => IInv'
<1> SUFFICES ASSUME IInv, Resume PROVE IInv'
  OBVIOUS
<1> USE PlanExecuteAssumption
<1>1. /\ TypeOK /\ paused.steps + StepsPerGrant \in Nat
      /\ paused.continues \in Nat /\ paused.turns \in Nat
      /\ CursorAfter(paused.turns) \in Nat
  BY DEF IInv, TypeOK, Pause, CursorAfter
<1>2. [used EXCEPT !.pauses = @ + 1] \in [edits : Nat, pauses : Nat, runs : Nat]
  BY <1>1 DEF TypeOK
<1>3. ASSUME ResumeBegins, NEW seed \in BOOLEAN, NEW cont \in BOOLEAN, NEW n \in Nat,
             NEW turns \in Nat, Enter(seed, cont, n, turns),
             caps' \in [leaf : Caps, max : Caps]
      PROVE  IInv'
  <2>1. TypeOK'
    BY <1>1, <1>2, <1>3, EnterTypes DEF TypeOK, ResumeBegins, PCs
  <2> QED
    BY <1>3, <2>1, OutsideInv DEF Enter, ResumeBegins
<1>4. CASE ResumeWithBudget
  BY <1>1, <1>3, <1>4, GrantedTypes DEF ResumeWithBudget
<1>5. CASE ResumeWithAnswer
  BY <1>1, <1>3, <1>5 DEF ResumeWithAnswer, TypeOK
<1>6. CASE ResumeWithSkip
  BY <1>1, <1>3, <1>6 DEF ResumeWithSkip, TypeOK
<1>7. CASE ResumeWithoutWalk
  <2>1. TypeOK'
    BY <1>1, <1>2, <1>7 DEF TypeOK, ResumeWithoutWalk, Ends, runVars, PCs, Results
  <2> QED
    BY <1>7, <2>1, OutsideInv DEF ResumeWithoutWalk, Ends, runVars
<1> QED
  BY <1>4, <1>5, <1>6, <1>7 DEF Resume

\* A further run starts from the durable list alone, after an end or a crash.
LEMMA NextRunInv == IInv /\ NextRun => IInv'
<1> SUFFICES ASSUME IInv, NextRun PROVE IInv'
  OBVIOUS
<1> USE PlanExecuteAssumption
<1>1. TypeOK /\ Enter(FALSE, FALSE, 0, 0)
  BY DEF IInv, NextRun
<1>2. used' \in [edits : Nat, pauses : Nat, runs : Nat]
  BY <1>1 DEF TypeOK, NextRun
<1>3. caps' \in [leaf : Caps, max : Caps]
  BY <1>1 DEF TypeOK, NextRun, Config
<1>4. driven' \in Nat /\ result' \in Results /\ hist' = hist
  BY DEF NextRun, Results
<1>5. /\ pc' = "enter" /\ cur' = 0 /\ carried' \in Nat /\ paused' \in Pause
      /\ entry' \in [seed : BOOLEAN, cont : BOOLEAN, continues : Nat]
      /\ UNCHANGED <<conf, durable, mem, scope, attempt, reattach, failed, first, outputs>>
  BY <1>1, EnterTypes
<1>6. TypeOK'
  BY <1>1, <1>2, <1>3, <1>4, <1>5 DEF TypeOK, PCs
<1> QED
  BY <1>4, <1>5, <1>6, OutsideInv

\* A step that changes nothing.
LEMMA StutterInv == IInv /\ UNCHANGED vars => IInv'
<1> SUFFICES ASSUME IInv, UNCHANGED vars PROVE IInv'
  OBVIOUS
<1> USE DEF vars, runVars, envVars
<1>1. TypeOK'
  BY DEF IInv, TypeOK
<1>2. GraphIsDag'
  BY DEF IInv, GraphIsDag
<1>3. Walking' /\ Stepping'
  BY DEF IInv, Walking, CopyOf, Stepping
<1>4. FailedStay' /\ Recorded' /\ CompletedOnce' /\ DrainIsQuiet'
  BY DEF IInv, FailedStay, GivenUp, Recorded, CompletedOnce, DrainIsQuiet
<1> QED
  BY <1>1, <1>2, <1>3, <1>4 DEF IInv

\* Every step preserves the invariant: one case per action.
LEMMA NextInv == IInv /\ [Next]_vars => IInv'
<1> SUFFICES ASSUME IInv, [Next]_vars PROVE IInv'
  OBVIOUS
<1>1. CASE Agent
  BY <1>1, AgentInv DEF Agent
<1>2. CASE Plan
  BY <1>2, EnterPlanInv, PlanAnsweredInv, PlanFailsInv, PlanPausesInv DEF Plan
<1>3. CASE Walk
  BY <1>3, EnterWalkInv, PickInv, DrainInv DEF Walk
<1>4. CASE Step
  BY <1>4, StepSucceedsInv, StepFailsInv, StepHitsGlobalLimitInv, StepExhaustedInv,
     StepPausesInv DEF Step
<1>5. CASE DriveResolves
  BY <1>5, DriveResolvesInv
<1>6. CASE Resume
  BY <1>6, ResumeInv
<1>7. CASE RunAgain \/ Crash
  BY <1>7, NextRunInv DEF RunAgain, Crash
<1>8. CASE UNCHANGED vars
  BY <1>8, StutterInv
<1> QED
  BY <1>1, <1>2, <1>3, <1>4, <1>5, <1>6, <1>7, <1>8 DEF Next

\* The invariant holds in every reachable state.
LEMMA InvHolds == Spec => []IInv
BY InitInv, NextInv, PTL DEF Spec

-----------------------------------------------------------------------------
(* What follows, for every configuration and every bound.                  *)

\* Every variable keeps its type.
THEOREM TypeCorrect == Spec => []TypeOK
<1>1. IInv => TypeOK
  BY DEF IInv
<1> QED
  BY <1>1, InvHolds, PTL

\* No task runs before what blocks it has completed (next_ready, and the agent's
\* edits meanwhile).
THEOREM BlockersAreDone == Spec => []BlockersDone
<1>1. IInv => BlockersDone
  BY DEF IInv, Stepping, BlockersDone
<1> QED
  BY <1>1, InvHolds, PTL

\* Neither the durable task graph nor the walk's copy ever has a cycle (add).
THEOREM GraphStaysAcyclic == Spec => []GraphIsDag
<1>1. IInv => GraphIsDag
  BY DEF IInv
<1> QED
  BY <1>1, InvHolds, PTL

\* A step that succeeded is not run again, whatever pauses, crashes and edits
\* come between.
THEOREM StepsSucceedOnce == Spec => []CompletedOnce
<1>1. IInv => CompletedOnce
  BY DEF IInv
<1> QED
  BY <1>1, InvHolds, PTL

\* The walk never picks a task that it has given up for a failure upstream.
THEOREM GivenUpIsNotRun == Spec => []FailedNotRun
<1>1. IInv => FailedNotRun
  BY DEF IInv, Stepping, FailedNotRun
<1> QED
  BY <1>1, InvHolds, PTL

\* A walk that returns has left no task ready in the durable list.
THEOREM ReturnsWhenNothingIsReady == Spec => []DrainIsQuiet
<1>1. IInv => DrainIsQuiet
  BY DEF IInv
<1> QED
  BY <1>1, InvHolds, PTL

-----------------------------------------------------------------------------
(* No edit is lost.                                                        *)

\* Every action but the start of a plan phase keeps the tasks that are there, and
\* the completions among them.
Survives ==
    \A id \in DOMAIN durable :
        /\ id \in DOMAIN durable'
        /\ IsCompleted(durable, id) => IsCompleted(durable', id)

\* A list that evolves loses neither tasks nor completions.
LEMMA KeepsSurvive == ASSUME Keeps(durable, durable') PROVE Survives
BY KeepsCompleted DEF Survives, Keeps

\* The agent's own edits lose nothing.
LEMMA AgentSurvives == IInv /\ Agent => Survives
<1> SUFFICES ASSUME IInv, Agent PROVE Keeps(durable, durable')
  BY KeepsSurvive
<1>1. durable \in TaskLists
  BY DEF IInv, TypeOK
<1>2. CASE AgentAdds
  <2>1. PICK blockers \in SUBSET (1 .. Len(durable) + 1) :
            AgentEdits(Append(durable, NewTask(blockers)))
    BY <1>2 DEF AgentAdds
  <2>2. blockers \in SUBSET Nat
    BY <1>1, ListIsFunction
  <2> QED
    BY <1>1, <2>1, <2>2, AppendKeeps DEF AgentEdits
<1>3. CASE AgentUpdates
  BY <1>1, <1>3, SetStatusKeeps DEF AgentUpdates, AgentEdits
<1> QED
  BY <1>2, <1>3 DEF Agent

\* Picking stores the walk's copy, in which nothing but a stalled task differs.
LEMMA PickSurvives == IInv /\ Pick => Survives
<1> SUFFICES ASSUME IInv, Pick PROVE Survives
  OBVIOUS
<1>1. PICK id \in DOMAIN mem : durable' = SetStatus(mem, id, "InProgress")
  BY DEF Pick
<1>2. mem \in TaskLists /\ CopyOf(mem, durable)
  BY DEF IInv, TypeOK, Walking, Pick
<1>3. Keeps(mem, durable')
  BY <1>1, <1>2, SetStatusKeeps DEF Statuses
<1>4. \A t \in DOMAIN durable :
         t \in DOMAIN mem /\ (IsCompleted(durable, t) => IsCompleted(mem, t))
  BY <1>2 DEF CopyOf, IsCompleted
<1> QED
  BY <1>3, <1>4, KeepsCompleted DEF Survives, Keeps

\* Every outcome of a step is applied to the list as the agent left it.
LEMMA StepSurvives == IInv /\ Step => Survives
<1> SUFFICES ASSUME IInv, Step PROVE Keeps(durable, durable')
  BY KeepsSurvive
<1>1. durable \in TaskLists /\ pc = "step" /\ cur \in DOMAIN durable
  BY DEF IInv, TypeOK, Stepping, Step, StepSucceeds, StepFails, StepHitsGlobalLimit,
         StepExhausted, LeafExhausted, StepPauses
<1>2. ASSUME NEW to \in Statuses, Persist(SetStatus(Reloaded, cur, to))
      PROVE  Keeps(durable, durable')
  BY <1>1, <1>2, SetStatusKeeps DEF Persist, Reloaded
<1>3. CASE StepSucceeds
  BY <1>2, <1>3 DEF StepSucceeds, Statuses
<1>4. CASE StepFails
  BY <1>1, <1>4, CascadeFromFacts DEF StepFails
<1>5. CASE StepHitsGlobalLimit
  BY <1>2, <1>5 DEF StepHitsGlobalLimit, Statuses
<1>6. CASE StepExhausted
  <2>1. \/ CascadeFrom(cur)
        \/ \E to \in Statuses : Persist(SetStatus(Reloaded, cur, to))
    BY <1>6 DEF StepExhausted, Statuses
  <2> QED
    BY <1>1, <1>2, <2>1, CascadeFromFacts
<1>7. CASE StepPauses
  BY <1>7 DEF StepPauses, Keeps
<1> QED
  BY <1>3, <1>4, <1>5, <1>6, <1>7 DEF Step

\* No step but the entry of a run, which may plan afresh, loses anything.
LEMMA NextSurvives == IInv /\ [Next]_vars => [pc # "enter" => Survives]_vars
<1> SUFFICES ASSUME IInv, Next, pc # "enter" PROVE Survives
  OBVIOUS
<1>1. ASSUME durable' = durable PROVE Survives
  BY <1>1 DEF Survives
<1>2. CASE Plan
  <2>1. CASE PlanAnswered
    <3>1. durable' = durable \/ durable = <<>>
      BY <2>1 DEF PlanAnswered
    <3> QED
      BY <1>1, <3>1 DEF Survives
  <2> QED
    BY <1>1, <1>2, <2>1 DEF Plan, EnterPlan, PlanFails, PlanPauses
<1>3. CASE Walk
  BY <1>1, <1>3, PickSurvives DEF Walk, EnterWalk, Drain
<1>4. CASE DriveResolves \/ Resume \/ RunAgain \/ Crash
  BY <1>1, <1>4 DEF DriveResolves, Resume, ResumeWithBudget, ResumeWithAnswer, ResumeWithSkip,
                    ResumeWithoutWalk, RunAgain, Crash, NextRun, Enter
<1> QED
  BY <1>2, <1>3, <1>4, AgentSurvives, StepSurvives DEF Next

\* The walk never writes back a list that lost what the agent did to it while a
\* step ran: the reload after the step is enough.
THEOREM EditsSurvive == Spec => AgentEditsSurvive
<1>1. [pc # "enter" => Survives]_vars
         <=> [pc # "enter" =>
                \A id \in DOMAIN durable :
                    /\ id \in DOMAIN durable'
                    /\ IsCompleted(durable, id) => IsCompleted(durable', id)]_vars
  BY DEF Survives
<1> QED
  BY <1>1, InvHolds, NextSurvives, PTL DEF Spec, AgentEditsSurvive

=============================================================================
