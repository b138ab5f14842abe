------------------------------ MODULE MCMemory ------------------------------
(***************************************************************************)
(* Two memories, the archives of the first, one of those archived again,   *)
(* and an archive of the second.                                           *)
(***************************************************************************)
EXTENDS Memory

CONSTANTS m1, m2

MCIds == {m1, m2, <<m1, 1>>, <<m1, 2>>, <<<<m1, 1>>, 2>>, <<m2, 1>>}

New == [meta |-> FALSE, status |-> "active", version |-> 1, previous |-> <<>>]

\* A new memory, a proposal that claims to be Active, and a copy with a history.
MCGiven ==
    {New, [New EXCEPT !.meta = TRUE], [New EXCEPT !.version = 2, !.previous = <<<<m1, 1>>>>]}

=============================================================================
