------------------------------ MODULE SelfVerify ------------------------------
(***************************************************************************)
(* The SelfVerifying strategy of spore-core (harness/self_verifying.rs,    *)
(* verifier.rs): an inner strategy builds, an evaluator that cannot write  *)
(* reviews, a verifier gives the verdict, and a failed verdict goes back   *)
(* into the build conversation.                                            *)
(*                                                                         *)
(* The work is the number of builds that have touched the workspace.       *)
(* Failed verdicts are numbered as they come; of the build conversation    *)
(* only the verdicts in it are kept.                                       *)
(***************************************************************************)
EXTENDS BudgetScope

CONSTANTS
    Configs,        \* the strategies and hosts to verify with
    NoVerifier,     \* none is registered under the key
    TurnsPerPhase,  \* bound: turns a build or a review takes
    MaxGrants, StepsPerGrant    \* AutoContinue, and what a human grants

Verifiers == {"response", "tests"}

\* max is the task's max_turns, iterations the verifier's max_iterations; verifiers
\* are the parts of a CompositeVerifier; inner is a "leaf", a ReAct one whose agent is
\* registered and whose conversation needs no compaction, or any "other" strategy; runs
\* bounds how often the strategy is entered.
Config == [inner : {"leaf", "other"}, max : Caps, iterations : Nat,
           verifiers : (SUBSET Verifiers) \cup {NoVerifier}, behavior : Behaviors,
           mode : {"human", "auto", "autonomous"}, runs : Nat]

ASSUME SelfVerifyAssumption ==
    /\ Configs \subseteq Config
    /\ {TurnsPerPhase, MaxGrants, StepsPerGrant} \subseteq Nat

VARIABLES
    conf,
    pc,         \* "start", "build", "evaluate", "verify", "refused" or a way out
    max,        \* max_turns of the task, raised by grants
    iteration,
    scope,
    turns,      \* carried.turns
    given,      \* the turns the last build was started with
    work,
    built,      \* build_result: how it ended, and the work it left
    review,     \* eval_result: how it ended, the work it saw, whether its answer passes
    suite,      \* the last run of the tests: the work it saw, whether it passed
    session,    \* the failed verdicts in the build conversation
    verdicts,   \* failed verdicts so far
    told,       \* history: the failed verdicts that a build was started with
    total,      \* turns the phases reported under this scope
    runs

vars == <<conf, pc, max, iteration, scope, turns, given, work, built, review,
          suite, session, verdicts, told, total, runs>>

reports == <<built, review, suite>>

\* What a climb out of a refused charge, or into the next phase, leaves alone.
carried == <<turns, given, work, session, verdicts, told, total>>

Ends == {"misconfigured", "passed", "unverified", "exhausted", "asking", "paused",
         "escalated", "skipped"}

Endings == {"none", "success", "failure", "paused"}

TypeOK ==
    /\ conf \in Configs
    /\ pc \in {"start", "build", "evaluate", "verify", "refused"} \cup Ends
    /\ max \in Caps /\ scope \in Scopes
    /\ {iteration, turns, given, work, verdicts, total, runs} \subseteq Nat
    /\ built \in [status : Endings, work : 0..work]
    /\ review \in [status : Endings, work : 0..work, passes : BOOLEAN]
    /\ suite \in [work : 0..work, passes : BOOLEAN]
    /\ session \subseteq 0..verdicts /\ told \subseteq 0..verdicts
    /\ Within(scope.taken, scope.allowance)

NotBuilt    == [status |-> "none", work |-> 0]
NotReviewed == [status |-> "none", work |-> 0, passes |-> FALSE]
NotTested   == [work |-> 0, passes |-> FALSE]

Init ==
    /\ conf \in Configs
    /\ pc = "start" /\ max = conf.max
    /\ iteration = 0 /\ scope = NewScope(NoCap, 0)
    /\ turns = 0 /\ given = 0 /\ work = 0
    /\ built = NotBuilt /\ review = NotReviewed /\ suite = NotTested
    /\ session = {} /\ verdicts = 0 /\ told = {} /\ total = 0 /\ runs = 1

-----------------------------------------------------------------------------
(* The loop.                                                               *)

Loops(i) == iteration' = i /\ pc' = IF i < conf.iterations THEN "build" ELSE "unverified"

\* The scope takes the task's max_turns and the continues a resume brings along.
Enters ==
    /\ pc = "start" /\ conf.verifiers # NoVerifier
    /\ Loops(0)
    /\ scope' = NewScope(max, scope.continues)
    /\ built' = NotBuilt /\ review' = NotReviewed /\ suite' = NotTested /\ total' = 0
    /\ UNCHANGED <<conf, max, turns, given, work, session, verdicts, told, runs>>

Misconfigured ==
    /\ pc = "start" /\ conf.verifiers = NoVerifier
    /\ pc' = "misconfigured"
    /\ UNCHANGED <<conf, max, iteration, scope, reports, carried, runs>>

\* Turns count on from what was carried, and stop at max_turns.
LeafTurns(from) == {n \in from..(from + TurnsPerPhase) : n = from \/ Within(n, max)}

Builds == work' = work + 1

\* The strategy goes on with the session its build ended with.  A leaf's is the one it
\* was given; another strategy may end with a session of its own, or an empty one, and
\* a leaf that compacts drops what was appended.
AfterBuild == IF conf.inner = "leaf" THEN {session} ELSE SUBSET session

\* charge_current at the end of a phase.
Charges(n, next) ==
    /\ pc' = IF Fits(scope, n) THEN next ELSE "refused"
    /\ scope' = IF Fits(scope, n) THEN Charged(scope, n) ELSE scope
    /\ total' = total + n

\* A build that ended, well or not.
BuildEnds ==
    \E status \in {"success", "failure"}, n \in LeafTurns(turns) :
        /\ pc = "build"
        /\ Builds
        /\ given' = turns /\ turns' = n
        /\ built' = [status |-> status, work |-> work']
        /\ session' \in AfterBuild /\ told' = told \cup session
        /\ Charges(n - turns, "evaluate")
        /\ UNCHANGED <<conf, max, iteration, review, suite, verdicts, runs>>

\* An exhausted build is not charged; a pause or an escalation goes up as it is.
BuildStops ==
    /\ pc = "build" /\ pc' \in {"exhausted", "paused", "escalated"}
    /\ Builds
    /\ given' = turns
    /\ turns' \in IF pc' = "exhausted" THEN {turns} ELSE LeafTurns(turns)
    /\ session' \in AfterBuild /\ told' = told \cup session
    /\ UNCHANGED <<conf, max, iteration, scope, reports, verdicts, total, runs>>

\* Mistaken: the turns of the evaluator go uncharged.
EvaluatesFree ==
    \E status \in {"success", "failure", "paused"}, passes \in BOOLEAN, n \in LeafTurns(0) :
        /\ pc = "evaluate" /\ pc' = "verify"
        /\ passes => status = "success"
        /\ review' = [status |-> status, work |-> work, passes |-> passes]
        /\ turns' = IF status = "paused" THEN turns ELSE AtLeast(turns, n)
        /\ total' = total + (IF status = "paused" THEN 0 ELSE n)
        /\ UNCHANGED <<conf, max, iteration, scope, given, work, built, suite, session,
                       verdicts, told, runs>>

\* A fresh evaluator over a read-only workspace.  Its turns are charged one by one,
\* and only lift what the build is counted by; a paused one reports none.
Evaluates ==
    \E status \in {"success", "failure", "paused"}, passes \in BOOLEAN, n \in LeafTurns(0) :
        /\ pc = "evaluate"
        /\ status = "paused" => n = 0
        /\ passes => status = "success"
        /\ review' = [status |-> status, work |-> work, passes |-> passes]
        /\ turns' = AtLeast(turns, n)
        /\ Charges(n, "verify")
        /\ UNCHANGED <<conf, max, iteration, given, work, built, suite, session, verdicts,
                       told, runs>>

Granting ==
    /\ Resolution(scope, conf.behavior) = "Escalate"
    /\ conf.mode = "auto" /\ scope.grants < MaxGrants

\* A grant goes on with the next iteration: the phase refused is not done again.
GoesOn ==
    /\ pc = "refused"
    /\ \/ Resolution(scope, conf.behavior) = "Continue" /\ scope' = Continued(scope)
       \/ Granting /\ scope' = AutoGranted(scope, StepsPerGrant)
    /\ Loops(iteration + 1)
    /\ UNCHANGED <<conf, max, reports, carried, runs>>

GivesUp ==
    /\ pc = "refused" /\ Resolution(scope, conf.behavior) # "Continue" /\ ~ Granting
    /\ pc' = IF Resolution(scope, conf.behavior) = "Escalate" /\ conf.mode = "human"
             THEN "asking" ELSE "exhausted"
    /\ UNCHANGED <<conf, max, iteration, scope, reports, carried, runs>>

-----------------------------------------------------------------------------
(* The verdict.                                                            *)

\* Mistaken: an answer counts whatever became of the build.
PassesOn(v, tests) == IF v = "response" THEN review.passes ELSE tests

\* EvaluatorResponseVerifier, where anything but a pass is a fail, and
\* TestSuiteVerifier.
Passes(v, tests) ==
    /\ built.status = "success"
    /\ IF v = "response" THEN review.status = "success" /\ review.passes ELSE tests

\* CompositeVerifier.
Verdict(tests) == \A v \in conf.verifiers : Passes(v, tests)

RunsSuite(tests) ==
    suite' = IF "tests" \in conf.verifiers /\ built.status = "success"
             THEN [work |-> work, passes |-> tests] ELSE suite

Accepts ==
    \E tests \in BOOLEAN :
        /\ pc = "verify" /\ Verdict(tests)
        /\ pc' = "passed"
        /\ RunsSuite(tests)
        /\ UNCHANGED <<conf, max, iteration, scope, built, review, carried, runs>>

Rejects ==
    \E tests \in BOOLEAN :
        /\ pc = "verify" /\ ~ Verdict(tests)
        /\ Loops(iteration + 1)
        /\ RunsSuite(tests)
        /\ session' = session \cup {verdicts} /\ verdicts' = verdicts + 1
        /\ UNCHANGED <<conf, max, scope, built, review, turns, given, work, told, total, runs>>

Strategy ==
    \/ Enters \/ Misconfigured \/ BuildEnds \/ BuildStops \/ Evaluates
    \/ GoesOn \/ GivesUp \/ Accepts \/ Rejects

-----------------------------------------------------------------------------
(* Around the strategy.                                                    *)

Again(continues) ==
    /\ runs < conf.runs /\ runs' = runs + 1
    /\ pc' = "start" /\ iteration' = 0 /\ scope' = NewScope(NoCap, continues)
    /\ UNCHANGED <<conf, reports, given, work, session, verdicts, told, total>>

RaisesMax == max' = GrantMaxTurns(max, scope.taken + StepsPerGrant)

\* A human grants what the strategy asked for, or answers what the build asked, and
\* the strategy is driven again on the conversation of the build.
Resumes ==
    \/ pc = "asking" /\ Again(scope.continues) /\ RaisesMax /\ UNCHANGED turns
    \/ pc = "paused" /\ Again(0) /\ UNCHANGED <<max, turns>>

\* The driving round grants after an exhaustion, from the turns its scratch still holds.
Redrives ==
    /\ pc = "exhausted" /\ Again(0)
    /\ RaisesMax /\ turns' = given

\* A human who skips gets a success with an empty answer.
Skips ==
    /\ pc = "asking" /\ pc' = "skipped"
    /\ UNCHANGED <<conf, max, iteration, scope, reports, carried, runs>>

Next == Strategy \/ Resumes \/ Redrives \/ Skips

Spec == Init /\ [][Next]_vars

\* The build, the review and the tests come back.
FairSpec == Spec /\ WF_vars(Strategy)

-----------------------------------------------------------------------------
(* What holds.                                                             *)

\* What is accepted was built to the end and is what the evaluator and the tests
\* saw, each of them in this very iteration.
AcceptedIsReviewed ==
    pc = "passed" /\ conf.verifiers # {} =>
        /\ built = [status |-> "success", work |-> work]
        /\ "response" \in conf.verifiers =>
               review = [status |-> "success", work |-> work, passes |-> TRUE]
        /\ "tests" \in conf.verifiers => suite = [work |-> work, passes |-> TRUE]

\* Builds and reviews together take no more turns than max_turns, once more for each
\* continue, and one phase over for each time the scope said no.
BudgetHolds ==
    pc \notin {"start", "misconfigured"} /\ scope.allowance # NoCap =>
        total <= (scope.continues + 1) * scope.allowance
                 + (scope.continues + scope.grants + 1) * TurnsPerPhase

\* No failed verdict is lost before a build has been started with it, whatever the inner
\* strategy does to the conversation and wherever the budget cuts in; and a leaf is
\* started with every one of them, across continues, grants and pauses.
FeedbackIsKept ==
    /\ 0..(verdicts - 1) \subseteq told \cup session
    /\ pc = "build" /\ conf.inner = "leaf" => session = 0..(verdicts - 1)

=============================================================================
