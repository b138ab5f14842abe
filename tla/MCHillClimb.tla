----------------------------- MODULE MCHillClimb -----------------------------
EXTENDS HillClimb

Surfaces == [layers |-> <<>>, terminal |-> "Escalate"]
Retries  == [layers |-> <<1>>, terminal |-> "Fail"]

Base == [max |-> 2, stagnation |-> 2, delta |-> 0, revert |-> TRUE, vcs |-> "git",
         creates |-> FALSE, host |-> FALSE, behavior |-> Surfaces, mode |-> "human", runs |-> 1]

\* New files; a margin that lets the climb go downhill; no revert; commands that
\* fail; no version control; grants; limits of
\* the host and none on stagnation; no limit on turns; no turn at all.
MCConfigs ==
    {[Base EXCEPT !.creates = TRUE, !.runs = 2],
     [Base EXCEPT !.delta = -2, !.stagnation = 1, !.mode = "autonomous", !.behavior = Retries],
     [Base EXCEPT !.revert = FALSE, !.mode = "auto"],
     [Base EXCEPT !.vcs = "flaky", !.creates = TRUE, !.mode = "autonomous"],
     [Base EXCEPT !.vcs = "none"],
     [Base EXCEPT !.max = 1, !.host = TRUE, !.stagnation = NoCap, !.behavior = Retries],
     [Base EXCEPT !.max = NoCap, !.delta = 1],
     [Base EXCEPT !.max = 0, !.behavior = Retries]}

=============================================================================
