--------------------------- MODULE MCPlanExecute ---------------------------
(* Strategy trees and host settings for the runs of PlanExecute. *)
EXTENDS PlanExecute

EscalateOnly == [layers |-> <<>>, terminal |-> "Escalate"]
FailOnly     == [layers |-> <<>>, terminal |-> "Fail"]
ContinueOnce == [layers |-> <<1>>, terminal |-> "Escalate"]

\* A leaf that may run one turn, in a run without a cap of its own.
Strict == [child |-> "react", leaf |-> 1, max |-> NoCap, behavior |-> FailOnly,
           mode |-> "autonomous", ralph |-> FALSE]

\* Exhaustion surfaces to a human after one Continue; the cap of the run binds too.
Attended == [child |-> "react", leaf |-> 2, max |-> 4, behavior |-> ContinueOnce,
             mode |-> "surface", ralph |-> FALSE]

\* Exhaustion surfaces at once.
Watched == [child |-> "react", leaf |-> 1, max |-> NoCap, behavior |-> EscalateOnly,
            mode |-> "surface", ralph |-> FALSE]

\* Exhaustion is granted more by itself, then aborts.
Granting == [child |-> "react", leaf |-> 2, max |-> 3, behavior |-> ContinueOnce,
             mode |-> "auto", ralph |-> FALSE]

\* A plan whose steps are Ralphs, itself the window of a Ralph.
Windowed == [child |-> "ralph", leaf |-> 2, max |-> 1, behavior |-> ContinueOnce,
             mode |-> "surface", ralph |-> TRUE]

\* The same, granted more by itself and then aborted, with nobody to ask.
Alone == [Windowed EXCEPT !.behavior = EscalateOnly, !.mode = "auto"]

Everything == {Strict, Attended, Watched, Granting, Windowed, Alone}

OneContinue == {[Attended EXCEPT !.mode = "autonomous", !.max = NoCap]}

=============================================================================
