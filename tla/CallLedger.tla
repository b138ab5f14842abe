----------------------------- MODULE CallLedger -----------------------------
(***************************************************************************)
(* What a turn loop owes the transcript of a session: a tool call the      *)
(* model asked for gets at most one result, results are only given to      *)
(* calls that were asked for, and before the model is asked again every    *)
(* call has its result or has been given up for good.  Calls are numbered  *)
(* in the order they were asked for.                                       *)
(***************************************************************************)
EXTENDS Integers

VARIABLES
    asked,     \* how many calls the transcript holds
    open,      \* those without a result
    forsaken   \* those that will never get one

ledger == <<asked, open, forsaken>>

Init == asked = 0 /\ open = {} /\ forsaken = {}

\* The model asks for more calls, with nothing left to settle.
Ask ==
    /\ open = forsaken
    /\ asked' \in Nat /\ asked' > asked
    /\ open' = open \cup (asked + 1)..asked'
    /\ UNCHANGED forsaken

\* Calls get their results; others are given up.
Settle ==
    \E answered, lost \in SUBSET (open \ forsaken) :
        /\ answered \cap lost = {}
        /\ open' = open \ answered
        /\ forsaken' = forsaken \cup lost
        /\ UNCHANGED asked

Next == Ask \/ Settle

Spec == Init /\ [][Next]_ledger

=============================================================================
