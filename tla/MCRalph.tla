------------------------------- MODULE MCRalph -------------------------------
EXTENDS Ralph

Surfaces == [layers |-> <<>>, terminal |-> "Escalate"]
Retries  == [layers |-> <<1>>, terminal |-> "Fail"]

Base == [inner |-> "leaf", max |-> 2, iterations |-> 2, verifiers |-> {"response"},
         behavior |-> Surfaces, mode |-> "human", runs |-> 2]

\* Pauses and grants by a human; continues; automatic grants to a strategy that may lose
\* its conversation; no limit on turns; a verifier with nothing in it, none at all, and
\* one that allows no iteration.
MCConfigs ==
    {Base,
     [Base EXCEPT !.behavior = Retries, !.verifiers = {"response", "tests"}, !.mode = "autonomous"],
     [Base EXCEPT !.inner = "other", !.mode = "auto", !.verifiers = {"tests"}],
     [Base EXCEPT !.max = NoCap, !.iterations = 1],
     [Base EXCEPT !.verifiers = {}, !.iterations = 1],
     [Base EXCEPT !.verifiers = NoVerifier],
     [Base EXCEPT !.iterations = 0]}

=============================================================================
