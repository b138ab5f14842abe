------------------------------ MODULE HillClimb ------------------------------
(***************************************************************************)
(* The HillClimbing strategy of spore-core (harness/hill_climbing.rs, the  *)
(* hill_* methods of harness/strategy_executor.rs, metric.rs): an inner    *)
(* strategy edits the workspace, a metric is measured, and the edit is     *)
(* committed or thrown away.                                               *)
(*                                                                         *)
(* What the workspace holds is the set of the edits in it.  A commit is    *)
(* named by what it holds, so a SHA is a set of edits too.  An edit that   *)
(* makes a new file stays untracked until a commit takes it in, and a      *)
(* `git reset --hard` does not remove it.  A metric value is a number read *)
(* in the direction of the climb, or NaN.                                  *)
(***************************************************************************)
EXTENDS BudgetScope, FiniteSets

CONSTANTS
    Configs,       \* the strategies and hosts to climb with
    Values,        \* metric values
    NaN,           \* a metric that is not a number
    TurnsPerChild, \* bound: turns the inner strategy takes in one iteration
    MaxGrants, StepsPerGrant    \* AutoContinue

\* max is the task's max_turns, stagnation is NoCap for u32::MAX, delta the
\* min_improvement_delta; vcs tells a repository whose commands succeed from one
\* where any may fail and from a workspace without one; creates says whether the
\* inner strategy makes new files, host whether tokens, time or cost may run out,
\* runs bounds the runs over one workspace.
Config == [max : Caps, stagnation : Caps, delta : Int, revert : BOOLEAN,
           vcs : {"git", "flaky", "none"}, creates : BOOLEAN, host : BOOLEAN,
           behavior : Behaviors, mode : {"human", "auto", "autonomous"}, runs : Nat]

ASSUME HillClimbAssumption ==
    /\ Configs \subseteq Config
    /\ Values \subseteq Int /\ NaN \notin Int
    /\ {TurnsPerChild, MaxGrants, StepsPerGrant} \subseteq Nat

VARIABLES
    conf,
    pc,         \* "start", "gate", "turn", "measure", "check" or a way out
    max,        \* max_turns of the task, raised by grants
    tree, untracked, head,   \* the workspace and what HEAD holds
    scope, turns,            \* the budget scope, carried.turns
    given,      \* the turns the last inner run was started with
    cand,       \* HillCandidate
    rows,       \* the results ledger; "tree" in a row is what was measured
    stagnation, \* non-improvements in a row
    edits,      \* edits made so far
    runs

vars == <<conf, pc, max, tree, untracked, head, scope, turns, given, cand, rows,
          stagnation, edits, runs>>

git == <<tree, untracked, head>>
locals == <<scope, turns, given, cand, rows, stagnation>>

Ends == {"misconfigured", "stagnated", "budget", "exhausted", "paused"}

Scores == Values \cup {NaN}

\* The empty commit hash of a workspace without usable version control: edits are
\* numbered from 1, so no commit holds {0}.
NoSha == {0}

Shas == (SUBSET (1..edits)) \cup {NoSha}

Statuses == {"Kept", "Discarded", "Failed"}

TypeOK ==
    /\ conf \in Configs
    /\ pc \in {"start", "gate", "turn", "measure", "check"} \cup Ends
    /\ max \in Caps
    /\ tree \in SUBSET (1..edits) /\ untracked \in SUBSET tree
    /\ head \in SUBSET (1..edits)
    /\ scope \in Scopes /\ turns \in Nat /\ given \in Nat
    /\ cand \in [current : Shas, best : Shas, score : Scores, top : Scores]
    /\ rows \in Seq([status : Statuses, sha : Shas, value : Scores,
                     tree : SUBSET (1..edits)])
    /\ stagnation \in Nat /\ edits \in Nat /\ runs \in Nat

NoCandidate == [current |-> NoSha, best |-> NoSha, score |-> NaN, top |-> NaN]

Init ==
    /\ conf \in Configs
    /\ pc = "start" /\ max = conf.max
    /\ tree = {} /\ untracked = {} /\ head = {}
    /\ scope = NewScope(NoCap, 0) /\ turns = 0 /\ given = 0
    /\ cand = NoCandidate
    /\ rows = <<>> /\ stagnation = 0 /\ edits = 0 /\ runs = 1

-----------------------------------------------------------------------------
(* Version control, best effort: every error is swallowed.                 *)

\* Mistaken: the SHA is read before the commit.
CommitsLate ==
    {[head |-> tree, untracked |-> {}, sha |-> head]}

\* What `git add -A; git commit; git rev-parse HEAD` may leave and answer.  A commit
\* that fails leaves HEAD, and rev-parse then names the old commit; files it added
\* are tracked from then on.
Commits ==
    LET done   == [head |-> tree, untracked |-> {}, sha |-> tree]
        failed == {[head |-> head, untracked |-> u, sha |-> head] : u \in {{}, untracked}}
        unread == {[c EXCEPT !.sha = NoSha] : c \in failed \cup {done}}
    IN  CASE conf.vcs = "git"   -> {done}
          [] conf.vcs = "flaky" -> {done} \cup failed \cup unread
          [] conf.vcs = "none"  -> {[head |-> head, untracked |-> untracked, sha |-> NoSha]}

\* commit_accepted: which of the possible commits it is.
Commit(c) == tree' = tree /\ untracked' = c.untracked /\ head' = c.head

\* Mistaken: the revert of old, to HEAD.
TargetStart(sha) == IF sha = NoSha THEN head ELSE {}

\* What a hard reset goes back to: the commit it is given, HEAD without one.
Target(sha) == IF sha = NoSha THEN head ELSE sha

\* reset_to.  Untracked files stay.
ResetTo(sha) ==
    \/ /\ conf.vcs # "none"
       /\ tree' = Target(sha) \cup untracked
       /\ untracked' = untracked \ Target(sha)
       /\ head' = Target(sha)
    \/ conf.vcs # "git" /\ UNCHANGED git

\* hill_apply_winner: nothing without a committed best.
ApplyWinner == IF cand.best = NoSha THEN UNCHANGED git ELSE ResetTo(cand.best)

-----------------------------------------------------------------------------
(* The climb.                                                              *)

\* Mistaken: a value that only comes up to the margin is progress.
Matches(new, old, margin) == new # NaN /\ old # NaN /\ new - old >= margin

\* should_keep and the comparison with the best: with NaN on either side no.
Beats(new, old, margin) == new # NaN /\ old # NaN /\ new - old > margin

Row(status, sha, value) == [status |-> status, sha |-> sha, value |-> value, tree |-> tree]

\* The baseline: the tree as it is found becomes the first candidate.
BaselineKept ==
    \E value \in Scores, c \in Commits :
        /\ pc = "start" /\ pc' = "gate"
        /\ scope' = NewScope(max, 0)
        /\ Commit(c)
        /\ cand' = [current |-> c.sha, best |-> c.sha, score |-> value, top |-> value]
        /\ rows' = <<Row("Kept", c.sha, value)>>
        /\ stagnation' = 0
        /\ UNCHANGED <<conf, max, turns, given, edits, runs>>

BaselineFails ==
    /\ pc = "start" /\ pc' = "misconfigured"
    /\ rows' = <<Row("Failed", NoSha, NaN)>>
    /\ UNCHANGED <<conf, max, git, scope, turns, given, cand, stagnation, edits, runs>>

OutOfTurns == max # NoCap /\ turns >= max

\* Charge one step, then the limits of the whole run.
Iterates ==
    /\ pc = "gate" /\ Fits(scope, 1) /\ ~ OutOfTurns
    /\ pc' = "turn"
    /\ scope' = Charged(scope, 1)
    /\ UNCHANGED <<conf, max, git, turns, given, cand, rows, stagnation, edits, runs>>

BudgetStops ==
    /\ pc = "gate" /\ Fits(scope, 1) /\ (OutOfTurns \/ conf.host)
    /\ pc' = "budget"
    /\ scope' = Charged(scope, 1)
    /\ ApplyWinner
    /\ UNCHANGED <<conf, max, turns, given, cand, rows, stagnation, edits, runs>>

Spent == pc = "gate" /\ ~ Fits(scope, 1)

Granting ==
    /\ Resolution(scope, conf.behavior) = "Escalate"
    /\ conf.mode = "auto" /\ scope.grants < MaxGrants

ScopeGoesOn ==
    /\ Spent
    /\ \/ Resolution(scope, conf.behavior) = "Continue" /\ scope' = Continued(scope)
       \/ Granting /\ scope' = AutoGranted(scope, StepsPerGrant)
    /\ UNCHANGED <<conf, pc, max, git, turns, given, cand, rows, stagnation, edits, runs>>

\* Out of steps: a pause or an exhaustion; the winner is not applied.
ScopeEnds ==
    /\ Spent /\ Resolution(scope, conf.behavior) # "Continue" /\ ~ Granting
    /\ pc' = IF Resolution(scope, conf.behavior) = "Escalate" /\ conf.mode = "human"
             THEN "paused" ELSE "exhausted"
    /\ UNCHANGED <<conf, max, git, locals, edits, runs>>

\* The inner strategy leaves one edit at most, to a file that is there or a new one.
Edits ==
    \/ UNCHANGED <<git, edits>>
    \/ /\ edits' = edits + 1
       /\ tree' = tree \cup {edits + 1}
       /\ untracked' \in {untracked} \cup
                         (IF conf.creates THEN {untracked \cup {edits + 1}} ELSE {})
       /\ head' = head

\* Turns are counted over the whole run, and no leaf goes past max_turns.
ChildTurns ==
    turns' \in {t \in turns..(turns + TurnsPerChild) : t = turns \/ Within(t, max)}

\* It ended, well or not: either way its result is measured.
TurnEnds ==
    /\ pc = "turn" /\ pc' = "measure"
    /\ Edits /\ ChildTurns /\ given' = turns
    /\ UNCHANGED <<conf, max, scope, cand, rows, stagnation, runs>>

\* It ran out of its budget or paused: the climb returns on the spot, and only a
\* pause carries the turns taken.
TurnStops ==
    /\ pc = "turn" /\ pc' \in {"exhausted", "paused"}
    /\ Edits /\ given' = turns
    /\ IF pc' = "paused" THEN ChildTurns ELSE UNCHANGED turns
    /\ UNCHANGED <<conf, max, scope, cand, rows, stagnation, runs>>

Keeps ==
    \E value \in Values, c \in Commits :
        /\ pc = "measure" /\ pc' = "check"
        /\ Beats(value, cand.score, conf.delta)
        /\ Commit(c)
        /\ cand' = IF Beats(value, cand.top, 0)
                   THEN [current |-> c.sha, best |-> c.sha, score |-> value, top |-> value]
                   ELSE [cand EXCEPT !.current = c.sha, !.score = value]
        /\ rows' = Append(rows, Row("Kept", c.sha, value))
        /\ stagnation' = 0
        /\ UNCHANGED <<conf, max, scope, turns, given, edits, runs>>

\* No better, or no value at all: back to the accepted candidate.
Discards ==
    \E status \in {"Discarded", "Failed"}, value \in Scores :
        /\ pc = "measure" /\ pc' = "check"
        /\ IF status = "Failed" THEN value = NaN ELSE ~ Beats(value, cand.score, conf.delta)
        /\ IF conf.revert THEN ResetTo(cand.current) ELSE UNCHANGED git
        /\ rows' = Append(rows, Row(status, cand.current, value))
        /\ stagnation' = stagnation + 1
        /\ UNCHANGED <<conf, max, scope, turns, given, cand, edits, runs>>

\* Mistaken: one more than the limit.
StagnatedLate == conf.stagnation # NoCap /\ stagnation > conf.stagnation

Stagnated == conf.stagnation # NoCap /\ stagnation >= conf.stagnation

Stagnates ==
    /\ pc = "check" /\ Stagnated
    /\ pc' = "stagnated"
    /\ ApplyWinner
    /\ UNCHANGED <<conf, max, locals, edits, runs>>

GoesOn ==
    /\ pc = "check" /\ ~ Stagnated
    /\ pc' = "gate"
    /\ UNCHANGED <<conf, max, git, locals, edits, runs>>

-----------------------------------------------------------------------------
(* Around the climb.                                                       *)

Again ==
    /\ runs < conf.runs /\ runs' = runs + 1
    /\ pc' = "start"
    /\ scope' = NewScope(NoCap, 0) /\ cand' = NoCandidate
    /\ rows' = <<>> /\ stagnation' = 0
    /\ UNCHANGED <<conf, git, edits>>

\* A driving round, or a human, grants more turns after an exhaustion, or a human
\* answers the inner strategy: the climb starts over from the tree it left.  The
\* driving round goes by the turns its scratch still holds.
RunsOn ==
    /\ pc \in {"exhausted", "paused"} /\ Again
    /\ max' \in {max, GrantMaxTurns(max, scope.taken + StepsPerGrant)}
    /\ turns' = (IF pc = "paused" THEN turns ELSE given)
    /\ UNCHANGED given

\* The process dies, or the host runs the same task again.
RunsAnew ==
    /\ pc # "start" /\ Again
    /\ max' = conf.max /\ turns' = 0 /\ given' = 0

Baseline == BaselineKept \/ BaselineFails

Gate == Iterates \/ BudgetStops \/ ScopeGoesOn \/ ScopeEnds

Turn == TurnEnds \/ TurnStops

Measure == Keeps \/ Discards \/ Stagnates \/ GoesOn

Climb == Baseline \/ Gate \/ Turn \/ Measure

Next == Climb \/ RunsOn \/ RunsAnew

Spec == Init /\ [][Next]_vars

\* The metric, the commands and the inner strategy return.
FairSpec == Spec /\ WF_vars(Climb)

-----------------------------------------------------------------------------
(* What holds.                                                             *)

KeptRows == {i \in DOMAIN rows : rows[i].status = "Kept"}

LastKept == CHOOSE i \in KeptRows : \A j \in KeptRows : j <= i

Higher(a, b) == NaN \notin {a, b} /\ a > b

\* The first of the kept rows that no other is higher than.
BestKept ==
    CHOOSE i \in KeptRows : \A j \in KeptRows :
        /\ ~ Higher(rows[j].value, rows[i].value)
        /\ j < i => Higher(rows[i].value, rows[j].value)

Climbing == pc \notin {"start", "misconfigured"}

\* The pointers and scores of the climb are those of its ledger, even when a
\* negative margin lets it go downhill: current is the last kept row, best the best
\* one, and what is reported as best is a value that was measured.
CandidateIsLedger ==
    /\ TypeOK
    /\ Climbing =>
          /\ cand.current = rows[LastKept].sha /\ cand.score = rows[LastKept].value
          /\ cand.best = rows[BestKept].sha /\ cand.top = rows[BestKept].value

\* With version control that works, the SHA a kept row names is the very tree that
\* was measured for its value.
LedgerIsReproducible ==
    conf.vcs = "git" => \A i \in KeptRows : rows[i].sha = rows[i].tree

\* What the workspace holds besides files that were never committed: between two
\* iterations the accepted candidate; on return for stagnation or a limit of the
\* run the best one, reverting or not; and after an inner strategy that stopped
\* short no more than its last edit on top of the accepted candidate.
TreeIsAccounted ==
    conf.vcs = "git" =>
        /\ pc \in {"gate", "check"} /\ conf.revert => tree \ untracked = cand.current \ untracked
        /\ pc \in {"stagnated", "budget"} => tree \ untracked = cand.best
        /\ pc \in {"exhausted", "paused"} /\ conf.revert =>
               cand.current \subseteq tree /\ tree \subseteq cand.current \cup untracked \cup {edits}

\* The run of rows at the end of the ledger that did not improve is what stops the
\* climb, at exactly the limit.
Trailing(n) == n < Len(rows) /\ \A i \in (Len(rows) - n + 1)..Len(rows) : i \notin KeptRows

StagnationIsExact ==
    conf.stagnation # NoCap =>
        /\ pc = "stagnated" => Trailing(conf.stagnation)
        /\ pc \in {"turn", "measure"} /\ conf.stagnation > 0 => ~ Trailing(conf.stagnation)

\* Under a turn limit or a stagnation limit and a positive margin every climb comes
\* to an end, whatever is granted on the way.
Bounded == conf.max # NoCap \/ (conf.stagnation # NoCap /\ conf.delta >= 0)

ClimbEnds == Bounded => [](pc = "start" => <>(pc \in Ends))

=============================================================================
