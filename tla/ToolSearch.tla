----------------------------- MODULE ToolSearch -----------------------------
(***************************************************************************)
(* The deferred tools of a turn loop (ToolSearchRegistry in                *)
(* tool_registry.rs): a small set is always advertised, the rest of the    *)
(* catalogue is loaded by a search, by opening a namespace or by a call,   *)
(* and falls out again, the least recently used first, when the            *)
(* descriptions no longer fit their budget.                                *)
(***************************************************************************)
EXTENDS Integers, FiniteSets, SequencesExt

CONSTANTS
    Core,        \* tools always advertised, without the headers and the search
    Deferred,    \* the rest of the catalogue
    Namespaces,  \* header -> its members, as the constructor leaves them
    Search,      \* the search meta-tool
    Bytes,       \* of the description of a tool, a header or the search
    Budgets,     \* description_budget
    TopK         \* search_top_k

ASSUME ToolSearchAssumption ==
    /\ Core \cap Deferred = {} /\ Search \notin Core \cup Deferred \cup DOMAIN Namespaces
    /\ DOMAIN Namespaces \cap (Core \cup Deferred) = {}
    /\ \A header \in DOMAIN Namespaces :
          Namespaces[header] \in Seq(Deferred) \ {<<>>} /\ IsInjective(Namespaces[header])
    /\ DOMAIN Bytes = Core \cup Deferred \cup DOMAIN Namespaces \cup {Search}
    /\ IsFiniteSet(DOMAIN Bytes)
    /\ \A t \in DOMAIN Bytes : Bytes[t] \in Nat
    /\ Budgets \subseteq Nat /\ TopK \in Nat

VARIABLES
    budget,
    loaded,   \* the loaded tools, most recently used first
    shown,    \* the tools advertised in the last turn
    used,     \* history: every tool used in this window
    after,    \* history: which of two of them was used after the other
    turned    \* history: nothing was used since the last turn

toolVars == <<budget, loaded, shown, used, after, turned>>

ToolTypeOK ==
    /\ budget \in Budgets
    /\ loaded \in Seq(Deferred) /\ IsInjective(loaded)
    /\ shown \subseteq DOMAIN Bytes
    /\ used \subseteq Deferred /\ after \subseteq used \X used
    /\ \A t \in used : \A u \in used :
          <<t, u>> \in after <=> t # u /\ <<u, t>> \notin after
    /\ turned \in BOOLEAN

\* The bytes of the descriptions of a set of tools.
Total(S) == Cardinality(UNION {{t} \X (1..Bytes[t]) : t \in S})

\* Core tools, headers and the search: advertised whatever they take.
Baseline == Core \cup DOMAIN Namespaces \cup {Search}

\* ToolSearchRegistry::new, once for each window of the turn loop.
ToolInit ==
    /\ budget \in Budgets
    /\ loaded = <<>> /\ shown = {} /\ used = {} /\ after = {} /\ turned = FALSE

-----------------------------------------------------------------------------
(* The list of loaded tools.                                               *)

Touched(l, t) ==
    LET k == CHOOSE k \in DOMAIN l : l[k] = t
    IN  IF t \notin Deferred THEN l
        ELSE Cons(t, IF t \in ToSet(l) THEN RemoveAt(l, k) ELSE l)

\* In reverse, so that the first of them is used last.
Loaded(l, names) ==
    LET n == Len(names)
        touched[k \in 0..n] ==
            IF k = 0 THEN l ELSE Touched(touched[k - 1], names[n + 1 - k])
    IN  touched[n]

Fits(l) == Total(Baseline) + Total(ToSet(l)) <= budget

\* Mistaken: one that does not fit is skipped.
KeptAny(l) ==
    FoldLeft(LAMBDA acc, t : IF Fits(Append(acc, t)) THEN Append(acc, t) ELSE acc, <<>>, l)

\* Mistaken: the budget is looked at before the tool is counted.
KeptBefore(l) ==
    LET room == {n \in 0..Len(l) : \A k \in 0..n - 1 : Fits(SubSeq(l, 1, k))}
    IN  SubSeq(l, 1, Max(room))

\* As many as fit, the most recent first: from the first that does not, all go.
Kept(l) ==
    LET room == {n \in 0..Len(l) : \A k \in 1..n : Fits(SubSeq(l, 1, k))}
    IN  SubSeq(l, 1, Max(room))

\* schemas(), which the loop reads for every turn: what it leaves out is evicted.
Turn ==
    /\ loaded' = Kept(loaded)
    /\ shown' = Baseline \cup ToSet(Kept(loaded))
    /\ turned' = TRUE
    /\ UNCHANGED <<budget, used, after>>

\* Each of the names is used after the next of them, and all of them after the rest.
After(names) ==
    LET these == ToSet(names)
        rest  == used \ these
    IN  {p \in these \X these : \E i, j \in DOMAIN names :
                                   i < j /\ p = <<names[i], names[j]>>}
        \cup (these \X rest) \cup (after \cap (rest \X rest))

Uses(names) ==
    /\ loaded' = Loaded(loaded, names)
    /\ used' = used \cup ToSet(names)
    /\ after' = After(names)
    /\ turned' = FALSE
    /\ UNCHANGED <<budget, shown>>

-----------------------------------------------------------------------------
(* The calls of a batch.                                                   *)

\* tool_search: the best hits for some query, in the order of their scores.
Searches ==
    \E n \in 1..TopK : \E hits \in [1..n -> Deferred] : IsInjective(hits) /\ Uses(hits)

\* The first members, in the order of the namespace.
Opens(header) ==
    /\ TopK > 0
    /\ Uses(SubSeq(Namespaces[header], 1, Min({TopK, Len(Namespaces[header])})))

\* Any tool of the catalogue can be called, advertised or not; one that is always
\* advertised is not touched.
Calls(t) == t \in Deferred /\ Uses(<<t>>)

\* A window of the turn loop ends, and its registry with it.
NewWindow ==
    /\ loaded' = <<>> /\ used' = {} /\ after' = {} /\ shown' = {} /\ turned' = FALSE
    /\ UNCHANGED budget

ToolNext ==
    \/ Turn \/ Searches \/ NewWindow
    \/ \E header \in DOMAIN Namespaces : Opens(header)
    \/ \E t \in Deferred : Calls(t)

ToolSpec == ToolInit /\ [][ToolNext]_toolVars

-----------------------------------------------------------------------------
(* What holds.                                                             *)

\* Eviction is by last use: the loaded tools are always the most recently used ones,
\* in that order, however searches, namespaces, calls and evictions came.
LoadedIsMostRecent ==
    /\ ToolTypeOK
    /\ ToSet(loaded) \subseteq used
    /\ \A i, j \in DOMAIN loaded : i < j => <<loaded[i], loaded[j]>> \in after
    /\ ToSet(loaded) \X (used \ ToSet(loaded)) \subseteq after

\* What a turn advertises fits the budget, or it is the baseline alone; and the tool
\* used last, the best hit of a search, is among it if it fits at all.
LastUsedIsShown ==
    /\ shown \subseteq Baseline \/ Total(shown) <= budget
    /\ \A t \in used :
          /\ turned /\ Total(Baseline) + Bytes[t] <= budget
          /\ \A u \in used \ {t} : <<t, u>> \in after
          => t \in shown

=============================================================================
