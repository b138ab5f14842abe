----------------------------- MODULE BudgetScope -----------------------------
(***************************************************************************)
(* The per-node budget of spore-core (harness/budget.rs, and the grants of *)
(* harness/strategy_support.rs): a scope is charged with the turns a node  *)
(* runs, and when a charge no longer fits the node's exhaustion behaviour  *)
(* decides.                                                                *)
(*                                                                         *)
(* BudgetExhaustedBehavior is a nest of Continue{max, on_exhausted} around *)
(* Escalate or Fail; here it is the record                                 *)
(*    [layers |-> <<max, ...>>, terminal |-> "Escalate" or "Fail"].        *)
(* A step allowance (BudgetPolicy::allowance_value, max_turns) is a        *)
(* natural number, or NoCap for Unlimited / None.                          *)
(***************************************************************************)
EXTENDS Integers, Sequences

CONSTANT NoCap

ASSUME NoCapAssumption == NoCap \notin Nat

Caps == Nat \cup {NoCap}

Terminals == {"Escalate", "Fail"}

Behaviors == [layers : Seq(Nat), terminal : Terminals]

\* BudgetContext; the policy is its allowance, the behaviour is kept beside it.
Scopes == [allowance : Caps, taken : Nat, continues : Nat, grants : Nat]

-----------------------------------------------------------------------------

\* BudgetContext::new (used = 0) and ::resumed.
NewScope(cap, used) ==
    [allowance |-> cap, taken |-> 0, continues |-> used, grants |-> 0]

Within(n, cap) == cap # NoCap => n <= cap

\* The larger of two caps a grant may leave: a grant never shrinks one.
AtLeast(cap, n) == IF cap < n THEN n ELSE cap

\* Mistaken: the turns to come are not counted in.
FitsBefore(scope, turns) == Within(scope.taken, scope.allowance)

\* charge: turns that do not fit leave the scope as it was.
Fits(scope, turns) == Within(scope.taken + turns, scope.allowance)

Charged(scope, turns) == [scope EXCEPT !.taken = @ + turns]

\* Every Continue layer counts against the scope's one continues_used, so a
\* continue is granted while some layer, outer or nested, allows more than that.
ContinueLeft(scope, behavior) ==
    \E i \in DOMAIN behavior.layers : scope.continues < behavior.layers[i]

\* Mistaken: a continue that is never counted.
ContinuedFree(scope) == [scope EXCEPT !.taken = 0]

\* consume_continue: the allowance starts over, the count does not.
Continued(scope) == [scope EXCEPT !.continues = @ + 1, !.taken = 0]

\* resolve_exhausted.
Resolution(scope, behavior) ==
    IF ContinueLeft(scope, behavior) THEN "Continue" ELSE behavior.terminal

\* grant_budget_policy raises a finite policy and leaves Unlimited alone.
GrantPolicy(cap, granted) == IF cap = NoCap THEN NoCap ELSE AtLeast(cap, granted)

\* grant_task_budget raises max_turns, and gives one to a task that had none.
GrantMaxTurns(cap, granted) == IF cap = NoCap THEN granted ELSE AtLeast(cap, granted)

\* grant_auto_continue: one more auto grant, the cap moved past what was taken.
AutoGranted(scope, steps) ==
    [scope EXCEPT !.grants = @ + 1,
                  !.allowance = GrantPolicy(@, scope.taken + steps)]

=============================================================================
