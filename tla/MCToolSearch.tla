---------------------------- MODULE MCToolSearch ----------------------------
(***************************************************************************)
(* Five deferred tools of which two are in a namespace, with budgets       *)
(* below, at and above the baseline.                                       *)
(***************************************************************************)
EXTENDS ToolSearch

CONSTANTS core, search, header, d1, d2, d3, d4, d5

MCNamespaces == [h \in {header} |-> <<d3, d1>>]
MCBytes == (core :> 1) @@ (search :> 1) @@ (header :> 1) @@ (d1 :> 1) @@ (d2 :> 2)
             @@ (d3 :> 2) @@ (d4 :> 4) @@ (d5 :> 0)

=============================================================================
