------------------------------ MODULE TaskGraph ------------------------------
(***************************************************************************)
(* The task list that a plan is recorded in and the execute walk drains    *)
(* (tasklist.rs).  Ids are handed out 1, 2, 3, ... from next_id and never  *)
(* reused, and tasks are only appended, so a list is a sequence whose      *)
(* index is the task id.  A description never changes what the walk does   *)
(* and is left out.                                                        *)
(***************************************************************************)
EXTENDS Integers, Sequences

Statuses == {"Pending", "InProgress", "Completed", "Blocked"}

Tasks == [status : Statuses, blockers : SUBSET Nat]

TaskLists == Seq(Tasks)

NewTask(blockers) == [status |-> "Pending", blockers |-> blockers]

\* Two mistaken rules the properties are tried against: a completed task may be
\* opened again, a blocked one may go back to be picked.
CanReopen(from, to) == from # "Blocked"

CanRetry(from, to) == from # "Completed"

\* validate_transition: a self-transition always, nothing out of Completed,
\* nothing back to Pending.
CanTransition(from, to) ==
    \/ from = to
    \/ from = "Pending"    /\ to \in {"InProgress", "Completed", "Blocked"}
    \/ from = "InProgress" /\ to \in {"Completed", "Blocked"}
    \/ from = "Blocked"    /\ to \in {"InProgress", "Completed"}

\* Mistaken: the change is made to a copy and lost.
SetStatusLost(list, id, to) == list

\* TaskList::update and ::complete as their callers in the walk use them: a
\* refused transition is an Err that `let _ =` throws away.
SetStatus(list, id, to) ==
    IF CanTransition(list[id].status, to)
    THEN [list EXCEPT ![id].status = to]
    ELSE list

\* Mistaken: the new task counts as one that exists.
CanAddSelf(list, blockers) == blockers \subseteq 1 .. Len(list) + 1

\* TaskList::add accepts only blockers that already exist, none of them the new
\* id itself; the cycle it also looks for cannot then arise.
CanAdd(list, blockers) == blockers \subseteq DOMAIN list

\* next_ready: a Pending task all of whose blockers are Completed, lowest id first.
IsCompleted(list, id) == id \in DOMAIN list /\ list[id].status = "Completed"

\* Mistaken: a blocker that is over, however it ended, no longer blocks.
ReadyWhenOver(list) ==
    {id \in DOMAIN list : /\ list[id].status = "Pending"
                          /\ \A b \in list[id].blockers :
                                list[b].status \in {"Completed", "Blocked"}}

Ready(list) ==
    {id \in DOMAIN list : /\ list[id].status = "Pending"
                          /\ \A b \in list[id].blockers : IsCompleted(list, b)}

IsNextReady(list, id) == id \in Ready(list) /\ \A j \in Ready(list) : id <= j

\* transitive_dependents: the least set that holds the tasks blocked by id or
\* by a member of the set, id itself excepted.
DependentsClosed(list, id, S) ==
    \A t \in DOMAIN list \ {id} : list[t].blockers \cap (S \cup {id}) # {} => t \in S

TransitiveDependents(list, id) ==
    {t \in DOMAIN list \ {id} :
        \A S \in SUBSET DOMAIN list : DependentsClosed(list, id, S) => t \in S}

\* A failed task and everything that waits for it become Blocked, each through
\* an update of its own that may be refused.
CascadeBlock(list, id) ==
    LET hit == {id} \cup TransitiveDependents(list, id)
    IN  [t \in DOMAIN list |->
            IF t \in hit /\ CanTransition(list[t].status, "Blocked")
            THEN [list[t] EXCEPT !.status = "Blocked"]
            ELSE list[t]]

\* The first InProgress task of the list, which a resume takes for the stalled one.
IsFirstInProgress(list, id) ==
    /\ id \in DOMAIN list
    /\ list[id].status = "InProgress"
    /\ \A j \in DOMAIN list : list[j].status = "InProgress" => id <= j

Unfinished(list) ==
    \E id \in DOMAIN list : list[id].status \in {"Pending", "InProgress"}

\* Every edge points to an older task, so the graph has no cycle.
EdgesPointBack(list) ==
    \A id \in DOMAIN list : \A b \in list[id].blockers : b \in 1 .. id - 1

=============================================================================
