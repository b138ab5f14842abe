------------------------------ MODULE TraceLog ------------------------------
(***************************************************************************)
(* What the durable outbox promises of a session on disk: an append-only   *)
(* log in which no line is written twice, whatever fails and whenever the  *)
(* process dies, and which only a cleanup empties.  The log is what is in  *)
(* it and the order in which that is read.                                 *)
(***************************************************************************)
VARIABLES
    pieces,    \* the lines on disk, and the beginnings of lines
    before,    \* the pairs of them of which one is read before the other
    cleaning   \* whether the caller has asked for a cleanup that is not over

outbox == <<pieces, before, cleaning>>

Lines == {p.line : p \in pieces}

Init == pieces = {} /\ before = {} /\ cleaning = FALSE

\* A new line, or the torn beginning of one, goes to the end.
Add ==
    \E p \in pieces' :
        /\ p.line \notin Lines
        /\ pieces' = pieces \cup {p}
        /\ before' = before \cup (pieces \X {p})

Clear ==
    /\ cleaning
    /\ pieces' = {} /\ before' = {}

Next ==
    /\ cleaning' \in BOOLEAN
    /\ Add \/ Clear \/ UNCHANGED <<pieces, before>>

Spec == Init /\ [][Next]_outbox

\* The log has one order, and each line one place in it.
InOrder ==
    /\ \A p, q \in pieces :
          /\ p # q => p.line # q.line /\ (<<p, q>> \in before \/ <<q, p>> \in before)
          /\ <<p, q>> \in before => <<q, p>> \notin before
    /\ \A p, q, r \in pieces : <<p, q>> \in before /\ <<q, r>> \in before => <<p, r>> \in before

=============================================================================
