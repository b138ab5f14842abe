---------------------------- MODULE MCReactLoop ----------------------------
(* Leaves and host settings for the runs of ReactLoop. *)
EXTENDS ReactLoop

FailOnly     == [layers |-> <<>>, terminal |-> "Fail"]
EscalateOnly == [layers |-> <<>>, terminal |-> "Escalate"]
ContinueOnce == [layers |-> <<1>>, terminal |-> "Escalate"]
ContinueFail == [layers |-> <<1>>, terminal |-> "Fail"]

\* A bare leaf of two turns whose tools only succeed.
Plain == [step |-> FALSE, start |-> 0, policy |-> "loop", leaf |-> 2, max |-> NoCap,
          behavior |-> FailOnly, mode |-> "autonomous", threshold |-> 0, blocks |-> 0,
          schema |-> FALSE, nudge |-> FALSE, adaptive |-> FALSE, host |-> FALSE,
          outcomes |-> {"ok"}]

\* Tools that fail or are refused, warned of at the first and stopped at the second.
Breaking == [Plain EXCEPT !.threshold = 1, !.outcomes = {"ok", "error", "refused"},
                          !.leaf = 1]

\* Tools that only fail, and one Continue after it.
Relapsing == [Breaking EXCEPT !.outcomes = {"error"}, !.behavior = ContinueFail]

\* Warned of at the second and stopped at the fourth, in an execute step that starts
\* with one turn of its allowance used.
Patient == [Plain EXCEPT !.threshold = 2, !.outcomes = {"ok", "error"},
                         !.step = TRUE, !.start = 1, !.leaf = 3, !.max = 3]

\* Tools that ask and hand over, a host that interferes, a human who is asked for
\* more turns after one Continue.
Attended == [Plain EXCEPT !.behavior = ContinueOnce, !.mode = "surface", !.leaf = 1,
             !.host = TRUE,
             !.outcomes = {"ok", "refused", "fatal", "hand over", "clarify", "consult"}]

\* An allowance over all turns, with grants made by itself.
Granting == [Plain EXCEPT !.policy = "total", !.leaf = 1, !.max = 2,
             !.behavior = ContinueOnce, !.mode = "auto"]

\* A schema and stop hooks.
Strict == [Plain EXCEPT !.schema = TRUE, !.blocks = 1, !.leaf = 3, !.max = 4]

\* An execute step under a model that does not use its tools.
Idler == [Plain EXCEPT !.step = TRUE, !.nudge = TRUE, !.adaptive = TRUE, !.leaf = 4]

Everything == {Plain, Breaking, Relapsing, Patient, Attended, Granting, Strict, Idler}

=============================================================================
