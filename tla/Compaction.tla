----------------------------- MODULE Compaction -----------------------------
(***************************************************************************)
(* The compaction of a session (harness/compaction.rs) through the bridge  *)
(* to the rich context manager (compaction_adapter.rs, context.rs).        *)
(*                                                                         *)
(* The loop appends to the messages of the session; the bridge keeps a     *)
(* second history, with the count of tokens used, in the session's extras. *)
(* A host seeds it; after a batch of tool results the loop asks whether    *)
(* that count is over the threshold and, when it is, has the agent write a *)
(* summary of all but the last messages, checks it, retries it, and        *)
(* accepts the last one with a warning.                                    *)
(***************************************************************************)
EXTENDS Integers, FiniteSets, SequencesExt

CONSTANTS
    Keep,         \* preserve_recent_n
    Threshold,    \* the percentage of the window from which to compact
    Windows,      \* window_limit, 0 for none
    MaxAttempts,  \* max_compaction_attempts, at least one
    Sizes,        \* tokens of a message
    Summaries,    \* tokens of a summary, 0 for an empty one
    Overheads,    \* what the host counts besides the messages, or misses of them
    MaxMessages,  \* bound: messages of a session
    MaxSeeds      \* bound: times a host seeds

ASSUME CompactionAssumption ==
    /\ {Keep, Threshold, MaxMessages, MaxSeeds} \subseteq Nat
    /\ Windows \subseteq Nat /\ MaxAttempts \in Nat \ {0}
    /\ Sizes \subseteq Nat \ {0} /\ Summaries \subseteq Nat /\ Overheads \subseteq Int

VARIABLES
    messages,  \* of the session: tokens, and which messages each stands for
    rich,      \* the state in the extras, and whether there is one
    phase,     \* "loop", "batched", "compacting"
    dropped,   \* the messages a compaction replaces
    verdicts,  \* of the summaries of the last compaction
    warned,    \* whether that compaction warned
    next,      \* the name of the next message
    seeds,
    seeded,    \* history: the messages the rich history stood for when seeded
    overhead,  \* history: what the host counted besides them
    outgrown   \* history: a summary was larger than what it replaced

vars == <<messages, rich, phase, dropped, verdicts, warned, next, seeds, seeded,
          overhead, outgrown>>

Messages == [size : Sizes \cup Summaries, of : SUBSET (1..MaxMessages)]

TypeOK ==
    /\ messages \in Seq(Messages)
    /\ rich \in [is : BOOLEAN, history : Seq(Messages), used : Nat, window : Windows,
                 terms : BOOLEAN]
    /\ phase \in {"loop", "batched", "compacting"}
    /\ dropped \in Seq(Messages) /\ verdicts \in Seq(BOOLEAN) /\ warned \in BOOLEAN
    /\ next \in 1..MaxMessages + 1 /\ seeds \in 0..MaxSeeds
    /\ overhead \in Overheads \cup {0} /\ outgrown \in BOOLEAN

Tokens(s) ==
    LET upTo[i \in 0..Len(s)] == IF i = 0 THEN 0 ELSE upTo[i - 1] + s[i].size
    IN  upTo[Len(s)]

Of(s) == UNION {m.of : m \in ToSet(s)}

Init ==
    /\ messages = <<>>
    /\ rich \in {[is |-> FALSE, history |-> <<>>, used |-> 0, window |-> w,
                  terms |-> t] : w \in Windows, t \in BOOLEAN}
    /\ phase = "loop" /\ dropped = <<>> /\ verdicts = <<>> /\ warned = FALSE
    /\ next = 1 /\ seeds = 0 /\ seeded = {} /\ overhead = 0 /\ outgrown = FALSE

-----------------------------------------------------------------------------
(* The host and the loop.                                                  *)

\* seed_rich_state before a run: the session so far and the tokens of it.
Seeds(over) ==
    /\ phase = "loop" /\ seeds < MaxSeeds
    /\ seeds' = seeds + 1
    /\ Tokens(messages) + over >= 0
    /\ rich' = [rich EXCEPT !.is = TRUE, !.history = messages,
                            !.used = Tokens(messages) + over]
    /\ seeded' = Of(messages) /\ overhead' = over /\ outgrown' = FALSE
    /\ UNCHANGED <<messages, phase, dropped, verdicts, warned, next>>

\* append_user_message, append_assistant_message, append_tool_result.
Append1(size) ==
    /\ next <= MaxMessages /\ next' = next + 1
    /\ messages' = Append(messages, [size |-> size, of |-> {next}])

Speaks(size) ==
    /\ phase = "loop" /\ Append1(size)
    /\ UNCHANGED <<rich, phase, dropped, verdicts, warned, seeds, seeded, overhead,
                   outgrown>>

\* The last result of a batch.
EndsBatch(size) ==
    /\ phase = "loop" /\ Append1(size)
    /\ phase' = "batched"
    /\ UNCHANGED <<rich, dropped, verdicts, warned, seeds, seeded, overhead, outgrown>>

-----------------------------------------------------------------------------
(* The compaction.                                                         *)

ShouldCompact ==
    rich.is /\ rich.window # 0 /\ rich.used * 100 >= rich.window * Threshold

Cut == Len(rich.history) - Keep

\* Mistaken: the message at the cut is dropped as well as kept.
PreparesOneMore ==
    /\ phase = "batched"
    /\ IF ShouldCompact /\ Cut > 0
       THEN /\ phase' = "compacting" /\ verdicts' = <<>> /\ warned' = FALSE
            /\ dropped' = SubSeq(rich.history, 1, IF Keep = 0 THEN Cut ELSE Cut + 1)
       ELSE phase' = "loop" /\ UNCHANGED <<dropped, verdicts, warned>>
    /\ UNCHANGED <<messages, rich, next, seeds, seeded, overhead, outgrown>>

\* prepare_compaction_turn, for a history longer than what is kept.
Prepares ==
    /\ phase = "batched"
    /\ IF ShouldCompact /\ Cut > 0
       THEN /\ phase' = "compacting" /\ verdicts' = <<>> /\ warned' = FALSE
            /\ dropped' = SubSeq(rich.history, 1, Cut)
       ELSE phase' = "loop" /\ UNCHANGED <<dropped, verdicts, warned>>
    /\ UNCHANGED <<messages, rich, next, seeds, seeded, overhead, outgrown>>

\* Mistaken: the summary is not counted.
ReclaimedAll(size) == Min({Tokens(dropped), rich.used})

\* Of the tokens of the dropped messages, those the summary does not take.
Reclaimed(size) == Min({Max({Tokens(dropped) - size, 0}), rich.used})

\* apply_compaction: the rich history, and the session's messages from it.
Accepts(size) ==
    /\ rich' = [rich EXCEPT
         !.history = <<[size |-> size, of |-> Of(dropped)]>>
                        \o SubSeq(rich.history, Cut + 1, Len(rich.history)),
         !.used = @ - Reclaimed(size)]
    /\ messages' = rich'.history
    /\ outgrown' = (outgrown \/ size > Tokens(dropped))
    /\ phase' = "loop" /\ dropped' = <<>>

\* KeyTermVerifier: the terms of the task state, the decisions, the files...  An
\* error or a tool call of the agent is an empty summary.
Verdict(size) == IF ~ rich.terms THEN {TRUE} ELSE IF size = 0 THEN {FALSE} ELSE BOOLEAN

\* Mistaken: one attempt too many.
AttemptsLeftOver == Len(verdicts') <= MaxAttempts

AttemptsLeft == Len(verdicts') < MaxAttempts

\* Mistaken: the turn is prepared again, and the attempts with it.
RetriesAnew == phase' = "batched" /\ UNCHANGED <<messages, rich, dropped, warned, outgrown>>

\* inject_missing_items: the same turn, asked for more.
Retries == UNCHANGED <<messages, rich, phase, dropped, warned, outgrown>>

\* One turn of the agent, and what becomes of its summary.
Summarises(size) ==
    /\ phase = "compacting"
    /\ \E passed \in Verdict(size) :
         /\ verdicts' = Append(verdicts, passed)
         /\ IF ~ passed /\ AttemptsLeft
            THEN Retries
            ELSE Accepts(size) /\ warned' = ~ passed
    /\ UNCHANGED <<next, seeds, seeded, overhead>>

Next ==
    \/ \E over \in Overheads : Seeds(over)
    \/ \E size \in Sizes : Speaks(size) \/ EndsBatch(size)
    \/ Prepares
    \/ \E size \in Summaries : Summarises(size)

Spec == Init /\ [][Next]_vars

\* The loop goes on after a batch, and a turn of the agent ends.
FairSpec ==
    /\ Spec
    /\ WF_vars(Prepares)
    /\ WF_vars(\E size \in Summaries : Summarises(size))

-----------------------------------------------------------------------------
(* What holds.                                                             *)

\* Through any number of compactions the rich history stands for what it stood for
\* when it was seeded, each message once and in order: nothing falls between the part
\* that is dropped and the part that is kept.
HistoryIsWhole ==
    /\ TypeOK
    /\ rich.is =>
        /\ Of(rich.history) = seeded
        /\ \A i, j \in DOMAIN rich.history : i < j =>
              \A a \in rich.history[i].of, b \in rich.history[j].of : a < b

\* What is used is the tokens of that history and what the host counted besides:
\* reclaiming neither drifts nor loses the overhead, until a summary outgrows what it
\* replaces.
UsedIsExact ==
    rich.is /\ ~ outgrown /\ overhead >= 0 => rich.used = Tokens(rich.history) + overhead

\* A compaction takes a summary that fails only after all the attempts failed, and
\* then warns; it never warns of one that passed.
AcceptedAnywayIsWarned ==
    phase = "loop" /\ verdicts # <<>> =>
        /\ warned = ~ Last(verdicts)
        /\ Len(verdicts) <= MaxAttempts
        /\ warned => Len(verdicts) = MaxAttempts /\ TRUE \notin ToSet(verdicts)

\* Compacting never holds the run up for good.
CompactionEnds == phase # "loop" ~> phase = "loop"

\* A compaction keeps the last messages of the session.
RecentKept ==
    [][phase = "compacting" /\ phase' = "loop" =>
         IsSuffix(SubSeq(messages, Max({Len(messages) - Keep + 1, 1}), Len(messages)),
                  messages')]_vars

=============================================================================
