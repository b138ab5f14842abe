--------------------------- MODULE ReactLoopProofs ---------------------------
(***************************************************************************)
(* The transcript and the turns of a leaf, for every configuration and     *)
(* every bound: the inductive invariant IInv, the properties that follow   *)
(* from it, that the loop implements CallLedger, and what its two breakers *)
(* count (Counting).                                                       *)
(***************************************************************************)
EXTENDS ReactLoop, FiniteSetTheorems, SequenceTheorems, TLAPS

\* Whoever asks the model, or has it asked, has nothing left to settle.
AtRest ==
    pc \in {"top", "final", "resolving"} \/ (pc = "paused" /\ pause.kind = "budget")

\* The open calls are those given up, and those of the batch that are still to come
\* or that the pause carries.
Ledgered ==
    /\ hist.forsaken \subseteq open
    /\ AtRest => open = hist.forsaken
    /\ pc \in {"batch", "calls"} =>
          /\ open \ hist.forsaken = Current..asked
          /\ Len(batch.tools) <= asked
          /\ batch.pos \in 1..(Len(batch.tools) + 1)
          /\ pc = "batch" => batch.pos = 1
    /\ PauseCarriesTheRest

\* What makes TurnsBounded inductive: each turn of the window is productive, or
\* refunded, or narration past the refunds.
Bounded ==
    /\ TurnsBounded
    /\ hist.productive + win.refund <= turns
    /\ WindowCap # NoCap => win.refund <= WindowCap

IInv == TypeOK /\ Ledgered /\ Bounded

-----------------------------------------------------------------------------
(* Types of the helpers.                                                   *)

\* What a configuration holds.
LEMMA ConfTypes ==
    ASSUME conf \in Configs
    PROVE  /\ conf \in Config
           /\ conf.start \in Nat /\ conf.leaf \in Caps /\ conf.max \in Caps
           /\ conf.schema \in BOOLEAN /\ conf.threshold \in Nat
           /\ conf.policy \in {"loop", "total"}
BY ReactLoopAssumption DEF Config

\* A window starts with its counters at zero.
LEMMA NewWindowType ==
    ASSUME NEW leaf \in BOOLEAN, NEW schema \in BOOLEAN
    PROVE  /\ NewWindow(leaf, schema) \in Windows
           /\ NewWindow(leaf, schema).refund = 0
<1>1. NoStreak \in Streaks
  BY DEF NoStreak, Streaks
<1> QED
  BY <1>1 DEF NewWindow, Windows

\* A run of calls that grows, and is warned of, is a run of calls.
LEMMA StreakTypes ==
    ASSUME NEW s \in Streaks, NEW call \in Tools \X Args
    PROVE  Grown(s, call) \in Streaks /\ Warned(s) \in Streaks
<1>1. Grown(s, call) \in Streaks
  BY DEF Grown, Streaks
<1>2. (s.warned \/ Warns(s)) \in BOOLEAN
  BY DEF Warns
<1>3. Warned(s) \in Streaks
  BY <1>2 DEF Warned, Streaks
<1> QED
  BY <1>1, <1>3

\* The lower of two caps is a cap.
LEMMA LowerTypes ==
    ASSUME NEW a \in Caps, NEW b \in Caps
    PROVE  /\ Lower(a, b) \in Caps
           /\ a # NoCap => Lower(a, b) # NoCap /\ Lower(a, b) <= a
BY NoCapAssumption DEF Lower, Caps

\* The turn gate lets a window run at most its cap and its refunds.
LEMMA GateTypes ==
    ASSUME TypeOK
    PROVE  /\ WindowCap \in Caps
           /\ WindowCap # NoCap /\ ~ OutOfTurns => turns < WindowCap + win.refund
<1>1. /\ caps.leaf \in Caps /\ caps.max \in Caps /\ NoCap \in Caps
      /\ turns \in Nat /\ win.refund \in Nat
  BY DEF TypeOK, Windows, Caps
<1>2. WindowCap \in Caps
  BY <1>1, LowerTypes DEF WindowCap
<1>3. ASSUME WindowCap # NoCap, ~ OutOfTurns
      PROVE  turns < WindowCap + win.refund
  <2>1. WindowCap \in Nat /\ WindowCap + win.refund \in Caps
    BY <1>1, <1>2, <1>3 DEF Caps
  <2>2. TurnCap = Lower(WindowCap + win.refund, caps.max)
    BY <1>3 DEF TurnCap
  <2>3. ASSUME NEW n \in Nat
        PROVE  Lower(n, caps.max) \in Nat /\ Lower(n, caps.max) <= n
    <3>1. n \in Caps /\ n # NoCap
      BY NoCapAssumption DEF Caps
    <3> QED
      BY <1>1, <3>1, LowerTypes DEF Caps
  <2>4. TurnCap \in Nat /\ TurnCap <= WindowCap + win.refund
    BY <1>1, <2>1, <2>2, <2>3
  <2> QED
    BY <1>1, <1>3, <2>1, <2>4, NoCapAssumption DEF OutOfTurns
<1> QED
  BY <1>2, <1>3

\* No batch at all is an empty one.
LEMMA NoBatchType == NoBatch \in [tools : Seq(Tools), pos : Nat]
<1>1. <<>> \in Seq(Tools)
  OBVIOUS
<1> QED
  BY <1>1 DEF NoBatch

\* Histories that differ in what the ledger and the bounds do not read.
LEMMA HistoryTypes ==
    ASSUME NEW n, NEW h \in Histories(n), NEW e \in Outcome,
           NEW b \in {"none", "errors", "repeats"}
    PROVE  /\ [h EXCEPT !.productive = @ + 1] \in Histories(n)
           /\ [h EXCEPT !.log = Append(@, e)] \in Histories(n)
           /\ [h EXCEPT !.broke = b] \in Histories(n)
<1>1. Append(h.log, e) \in Seq(Outcome)
  BY DEF Histories
<1>2. [h EXCEPT !.productive = @ + 1] \in Histories(n)
  BY DEF Histories
<1>3. [h EXCEPT !.log = Append(@, e)] \in Histories(n)
  BY <1>1 DEF Histories
<1>4. [h EXCEPT !.broke = b] \in Histories(n)
  BY DEF Histories
<1> QED
  BY <1>2, <1>3, <1>4

-----------------------------------------------------------------------------
(* The ways a stretch of code ends.                                        *)

\* The invariant holds at the start.
LEMMA InitInv == Init => IInv
<1> SUFFICES ASSUME Init PROVE IInv
  OBVIOUS
<1>1. /\ conf \in Configs /\ caps = [leaf |-> conf.leaf, max |-> conf.max]
      /\ pc = "top" /\ turns = conf.start /\ win = NewWindow(TRUE, conf.schema)
      /\ batch = NoBatch /\ asked = 0 /\ open = {} /\ pause = NoPause
      /\ result = "none" /\ used = 0 /\ hist = NoHistory
      /\ round = [chain |-> NoCap, seed |-> 0, auto |-> 0, steps |-> 0, cause |-> "none"]
  BY DEF Init
<1>2. conf.start \in Nat /\ conf.leaf \in Caps /\ conf.max \in Caps /\ conf.schema \in BOOLEAN
  BY <1>1, ConfTypes
<1>3. win \in Windows /\ win.refund = 0
  BY <1>1, <1>2, NewWindowType
<1>4. round \in Rounds
  BY <1>1 DEF Rounds, Caps, Results
<1>5. TypeOK
  <2>1. hist \in Histories(asked)
    BY <1>1 DEF NoHistory, Histories
  <2>2. batch \in [tools : Seq(Tools), pos : Nat]
    BY <1>1 DEF NoBatch
  <2>3. pause \in PausedStates
    BY <1>1 DEF NoPause, PausedStates
  <2> QED
    BY <1>1, <1>2, <1>3, <1>4, <2>1, <2>2, <2>3 DEF TypeOK, PCs, Results
<1>6. Ledgered
  BY <1>1 DEF Ledgered, AtRest, PauseCarriesTheRest, NoHistory
<1>7. Bounded
  <2>1. WindowCap # NoCap => WindowCap \in Nat
    BY <1>5, GateTypes DEF Caps
  <2>2. hist.productive = 0 /\ turns = conf.start
    BY <1>1 DEF NoHistory
  <2> QED
    BY <1>2, <1>3, <2>1, <2>2 DEF Bounded, TurnsBounded
<1> QED
  BY <1>5, <1>6, <1>7 DEF IInv

\* A turn that may be taken keeps within twice the cap.
LEMMA TurnFits ==
    ASSUME IInv, ~ OutOfTurns, WindowCap # NoCap
    PROVE  /\ WindowCap \in Nat
           /\ hist.productive < WindowCap
           /\ turns + 1 <= 2 * WindowCap
<1>1. /\ TypeOK /\ hist.productive + win.refund <= turns /\ win.refund <= WindowCap
  BY DEF IInv, Bounded
<1>2. WindowCap \in Nat /\ turns < WindowCap + win.refund
  BY <1>1, GateTypes DEF Caps
<1>3. turns \in Nat /\ win.refund \in Nat /\ hist.productive \in Nat
  BY <1>1 DEF TypeOK, Windows, Histories
<1> QED
  BY <1>1, <1>2, <1>3

\* The end of a window keeps the invariant: what is left open at an exhaustion is
\* given up.
LEMMA WindowEndsInv ==
    ASSUME IInv, NEW r \in Results, NEW t \in Nat, NEW h \in Histories(asked),
           t = turns \/ (t = turns + 1 /\ ~ OutOfTurns),
           h.forsaken = hist.forsaken, h.productive = hist.productive,
           WindowEnds(r, t, h)
    PROVE  IInv'
<1>1. /\ TypeOK /\ hist.forsaken \subseteq open /\ Bounded
      /\ turns' = t
      /\ pc' \in {"exhausted", "resolving", "ended"}
      /\ pc' = "resolving" => hist'.forsaken = open
      /\ hist'.forsaken \subseteq open
      /\ hist'.productive = hist.productive
      /\ UNCHANGED <<conf, used, caps, win, batch, asked, open, pause>>
  BY DEF IInv, Ledgered, WindowEnds, envVars, Histories
<1>2. open \in SUBSET (1..asked) /\ hist' \in Histories(asked)
  BY <1>1 DEF WindowEnds, TypeOK, Histories
<1>3. round' \in Rounds
  <2>1. LeafSteps(r, t) \in Nat
    BY DEF LeafSteps
  <2>2. r = "tool error loop" => r \in Results
    OBVIOUS
  <2>3. "budget exceeded" \in Results
    BY DEF Results
  <2> QED
    BY <1>1, <2>1, <2>2, <2>3 DEF WindowEnds, TypeOK, Rounds
<1>4. result' \in Results
  BY <1>1 DEF WindowEnds, TypeOK
<1>5. TypeOK'
  BY <1>1, <1>2, <1>3, <1>4 DEF TypeOK, PCs
<1>6. Ledgered'
  BY <1>1 DEF Ledgered, AtRest, PauseCarriesTheRest
<1>7. Bounded'
  <2>1. WindowCap' = WindowCap /\ turns \in Nat
    BY <1>1 DEF WindowCap, TypeOK
  <2>2. CASE t = turns
    BY <1>1, <2>1, <2>2 DEF Bounded, TurnsBounded
  <2>3. CASE t = turns + 1 /\ ~ OutOfTurns
    <3>1. hist.productive \in Nat /\ win.refund \in Nat
      BY <1>1 DEF TypeOK, Windows, Histories
    <3>2. hist.productive + win.refund <= turns + 1
      BY <1>1, <2>1, <3>1 DEF Bounded
    <3> QED
      BY <1>1, <2>1, <2>3, <3>2, TurnFits DEF Bounded, TurnsBounded
  <2> QED
    BY <2>2, <2>3
<1> QED
  BY <1>5, <1>6, <1>7 DEF IInv

\* A pause that carries what is open keeps the invariant.
LEMMA PausesInv ==
    ASSUME IInv, NEW from \in Nat,
           NEW kind \in {"review", "approval", "hand over", "clarify", "consult"},
           Pauses(kind, from), hist' \in Histories(asked),
           hist'.productive = hist.productive, hist'.forsaken \subseteq open,
           from..asked = open \ hist'.forsaken
    PROVE  IInv'
<1>1. /\ TypeOK /\ Bounded
      /\ pc' = "paused" /\ pause' = Carries(kind, from) /\ batch' = NoBatch
      /\ UNCHANGED <<conf, used, caps, round, turns, win, asked, open, result>>
  BY DEF IInv, Pauses, envVars, driveVars
<1>2. /\ pause' \in PausedStates
      /\ pause'.kind = kind /\ pause'.from = from
  BY <1>1 DEF Carries, NoPause, PausedStates
<1>3. TypeOK'
  BY <1>1, <1>2, NoBatchType DEF TypeOK, PCs
<1>4. Ledgered'
  BY <1>1, <1>2 DEF Ledgered, AtRest, PauseCarriesTheRest, Pending
<1>5. Bounded'
  <2>1. WindowCap' = WindowCap
    BY <1>1 DEF WindowCap
  <2> QED
    BY <1>1, <2>1 DEF Bounded, TurnsBounded
<1> QED
  BY <1>3, <1>4, <1>5 DEF IInv

\* So does going round again after a final response.
LEMMA GoesRoundInv ==
    ASSUME IInv, pc = "final", NEW w \in Windows, w.refund = win.refund, GoesRound(w)
    PROVE  IInv'
<1>1. /\ TypeOK /\ Bounded /\ Ledgered
      /\ pc' = "top" /\ win' = w
      /\ UNCHANGED <<conf, used, caps, round, turns, batch, asked, open, pause,
                     result, hist>>
  BY DEF IInv, GoesRound, envVars, driveVars
<1>2. TypeOK'
  BY <1>1 DEF TypeOK, PCs
<1>3. Ledgered'
  BY <1>1 DEF Ledgered, AtRest, PauseCarriesTheRest
<1>4. Bounded'
  <2>1. WindowCap' = WindowCap
    BY <1>1 DEF WindowCap
  <2> QED
    BY <1>1, <2>1 DEF Bounded, TurnsBounded
<1> QED
  BY <1>2, <1>3, <1>4 DEF IInv

-----------------------------------------------------------------------------
(* The turn.                                                               *)

LEMMA BudgetStopsInv == IInv /\ BudgetStops => IInv'
BY WindowEndsInv DEF BudgetStops, IInv, TypeOK, Results

LEMMA TurnFailsInv == IInv /\ TurnFails => IInv'
<1> SUFFICES ASSUME IInv, TurnFails PROVE IInv'
  OBVIOUS
<1>1. turns + 1 \in Nat /\ hist \in Histories(asked)
  BY DEF IInv, TypeOK
<1> QED
  BY <1>1, WindowEndsInv DEF TurnFails, Results

\* A hook before the turn pauses with nothing pending.
LEMMA BeforeTurnInv == IInv /\ BeforeTurn => IInv'
<1> SUFFICES ASSUME IInv, BeforeTurn PROVE IInv'
  OBVIOUS
<1>1. /\ turns \in Nat /\ asked \in Nat /\ hist \in Histories(asked)
      /\ open = hist.forsaken
  BY DEF IInv, TypeOK, Ledgered, AtRest, BeforeTurn
<1>2. CASE WindowEnds("halted", turns, hist)
  BY <1>1, <1>2, WindowEndsInv DEF Results
<1>3. CASE Pauses("review", asked + 1) /\ UNCHANGED hist
  <2>1. asked + 1 \in Nat /\ (asked + 1)..asked = {}
    BY <1>1
  <2>2. hist' = hist /\ hist'.forsaken \subseteq open
    BY <1>1, <1>3
  <2>3. (asked + 1)..asked = open \ hist'.forsaken
    BY <1>1, <2>1, <2>2
  <2> QED
    BY <1>1, <1>3, <2>1, <2>2, <2>3, PausesInv
<1> QED
  BY <1>2, <1>3 DEF BeforeTurn

LEMMA TurnAnswersInv == IInv /\ TurnAnswers => IInv'
<1> SUFFICES ASSUME IInv, TurnAnswers PROVE IInv'
  OBVIOUS
<1>1. /\ TypeOK /\ Bounded /\ Ledgered /\ pc = "top" /\ ~ OutOfTurns
      /\ turns' = turns + 1 /\ pc' = "final"
      /\ hist' = [hist EXCEPT !.productive = @ + 1]
      /\ UNCHANGED <<conf, used, caps, round, win, batch, asked, open, pause, result>>
  BY DEF IInv, TurnAnswers, envVars, driveVars
<1>2. /\ hist \in Histories(asked) /\ turns \in Nat /\ win.refund \in Nat
      /\ hist.productive \in Nat
  BY <1>1 DEF TypeOK, Histories, Windows
<1>3. /\ hist' \in Histories(asked) /\ hist'.forsaken = hist.forsaken
      /\ hist'.productive = hist.productive + 1
  BY <1>1, <1>2 DEF Histories
<1>4. TypeOK'
  BY <1>1, <1>2, <1>3 DEF TypeOK, PCs
<1>5. Ledgered'
  BY <1>1, <1>3 DEF Ledgered, AtRest, PauseCarriesTheRest
<1>6. Bounded'
  <2>1. WindowCap' = WindowCap
    BY <1>1 DEF WindowCap
  <2> QED
    BY <1>1, <1>2, <1>3, <2>1, TurnFits DEF Bounded, TurnsBounded
<1> QED
  BY <1>4, <1>5, <1>6 DEF IInv

\* A turn that asks for tools: the calls are open, and either the turn is productive
\* or it is narration.
LEMMA TurnCallsInv == IInv /\ TurnCalls => IInv'
<1> SUFFICES ASSUME IInv,
                    NEW tools \in Batches,
                    pc = "top", ~ OutOfTurns,
                    turns' = turns + 1,
                    win' = [win EXCEPT !.refund = @ + Refund(tools),
                                       !.called = @ \/ tools # <<>>],
                    pc' = "batch",
                    batch' = [tools |-> tools, pos |-> 1],
                    asked' = asked + Len(tools),
                    open' = open \cup (asked + 1)..(asked + Len(tools)),
                    hist' = [hist EXCEPT !.productive =
                        IF tools # <<>> /\ Range(tools) = {Send} THEN @ ELSE @ + 1],
                    UNCHANGED <<envVars, driveVars, pause, result>>
             PROVE  IInv'
  BY DEF TurnCalls
<1>1. /\ TypeOK /\ Bounded /\ open = hist.forsaken
      /\ conf \in Configs /\ caps \in [leaf : Caps, max : Caps] /\ round \in Rounds
      /\ pause \in PausedStates /\ result \in Results /\ used \in Nat
      /\ asked \in Nat /\ open \in SUBSET (1..asked) /\ turns \in Nat
      /\ win \in Windows /\ win.refund \in Nat /\ win.called \in BOOLEAN
      /\ hist \in Histories(asked) /\ hist.productive \in Nat
      /\ UNCHANGED <<conf, used, caps, round, pause, result>>
  BY DEF IInv, TypeOK, Ledgered, AtRest, Windows, Histories, envVars, driveVars
<1>2. tools \in Seq(Tools) /\ Len(tools) \in Nat
  BY ReactLoopAssumption DEF Batches
<1>3. Refund(tools) \in {0, 1}
  BY DEF Refund
<1>4. Narration(tools) <=> tools # <<>> /\ Range(tools) = {Send}
  <2>1. ASSUME tools # <<>>
        PROVE  1 \in DOMAIN tools
    BY <1>2, <2>1, EmptySeq, LenProperties
  <2>2. Range(tools) = {tools[i] : i \in DOMAIN tools}
    BY DEF Range
  <2> QED
    BY <2>1, <2>2 DEF Narration
<1>5. /\ hist'.forsaken = hist.forsaken
      /\ hist'.productive \in Nat
      /\ hist'.productive = IF Narration(tools) THEN hist.productive
                            ELSE hist.productive + 1
      /\ hist' \in Histories(asked)
  <2> DEFINE p == IF tools # <<>> /\ Range(tools) = {Send} THEN hist.productive
                  ELSE hist.productive + 1
  <2>1. /\ p \in Nat
        /\ p = IF Narration(tools) THEN hist.productive ELSE hist.productive + 1
    BY <1>1, <1>4
  <2>2. hist' = [hist EXCEPT !.productive = p]
    OBVIOUS
  <2> HIDE DEF p
  <2> QED
    BY <1>1, <2>1, <2>2 DEF Histories
<1>6. hist' \in Histories(asked')
  BY <1>1, <1>2, <1>5 DEF Histories
<1>7. /\ win'.refund = win.refund + Refund(tools)
      /\ win' \in Windows
  <2>1. (win.called \/ tools # <<>>) \in BOOLEAN
    OBVIOUS
  <2>2. win.refund + Refund(tools) \in Nat
    BY <1>1, <1>3
  <2> QED
    BY <1>1, <2>1, <2>2 DEF Windows
<1>8. TypeOK'
  <2>1. batch' \in [tools : Seq(Tools), pos : Nat]
    BY <1>2
  <2>2. asked' \in Nat /\ turns' \in Nat
    BY <1>1, <1>2
  <2>3. open' \in SUBSET (1..asked')
    BY <1>1, <1>2
  <2> QED
    BY <1>1, <1>6, <1>7, <2>1, <2>2, <2>3 DEF TypeOK, PCs
<1>9. Ledgered'
  <2>1. /\ hist'.forsaken \subseteq open'
        /\ open' \ hist'.forsaken = (asked + 1)..asked'
    BY <1>1, <1>2, <1>5
  <2>2. Current' = asked + 1
    BY <1>1, <1>2 DEF Current, First
  <2> QED
    BY <1>1, <1>2, <2>1, <2>2 DEF Ledgered, AtRest, PauseCarriesTheRest
<1>10. Bounded'
  <2>1. WindowCap' = WindowCap
    BY <1>1 DEF WindowCap
  <2>2. Refund(tools) = 1 => Narration(tools) /\ (WindowCap # NoCap => win.refund < WindowCap)
    BY DEF Refund
  <2>3. /\ turns' = turns + 1 /\ turns \in Nat
        /\ hist.productive \in Nat /\ win.refund \in Nat
        /\ hist.productive + win.refund <= turns
        /\ WindowCap # NoCap => win.refund <= WindowCap
    BY <1>1 DEF Bounded
  <2>4. /\ hist'.productive \in Nat /\ hist'.productive <= hist.productive + 1
        /\ Refund(tools) = 1 => hist'.productive = hist.productive
    BY <1>5, <2>2, <2>3
  <2>5. hist'.productive + win'.refund <= turns'
    BY <1>3, <1>7, <2>3, <2>4
  <2>6. ASSUME WindowCap # NoCap
        PROVE  /\ win'.refund <= WindowCap
               /\ hist'.productive <= WindowCap
               /\ turns' <= 2 * WindowCap
    <3>1. /\ WindowCap \in Nat /\ hist.productive < WindowCap
          /\ turns + 1 <= 2 * WindowCap
      BY <2>6, TurnFits
    <3>2. Refund(tools) = 1 => win.refund < WindowCap
      BY <2>2, <2>6
    <3> QED
      BY <1>3, <1>7, <2>3, <2>4, <2>6, <3>1, <3>2
  <2> QED
    BY <2>1, <2>5, <2>6 DEF Bounded, TurnsBounded
<1> QED
  BY <1>8, <1>9, <1>10 DEF IInv

-----------------------------------------------------------------------------
(* The final response.                                                     *)

\* Before completion: go round, stop, or pause with nothing pending.
LEMMA BeforeCompletionInv == IInv /\ BeforeCompletion => IInv'
<1> SUFFICES ASSUME IInv, BeforeCompletion PROVE IInv'
  OBVIOUS
<1>1. /\ pc = "final" /\ turns \in Nat /\ asked \in Nat /\ hist \in Histories(asked)
      /\ open = hist.forsaken /\ win \in Windows
  BY DEF IInv, TypeOK, Ledgered, AtRest, BeforeCompletion, Completing
<1>2. CASE GoesRound(win)
  BY <1>1, <1>2, GoesRoundInv
<1>3. CASE WindowEnds("halted", turns, hist)
  BY <1>1, <1>3, WindowEndsInv DEF Results
<1>4. CASE Pauses("review", asked + 1) /\ UNCHANGED hist
  <2>1. asked + 1 \in Nat /\ (asked + 1)..asked = {}
    BY <1>1
  <2>2. hist' = hist /\ hist'.forsaken \subseteq open
    BY <1>1, <1>4
  <2>3. (asked + 1)..asked = open \ hist'.forsaken
    BY <1>1, <2>1, <2>2
  <2> QED
    BY <1>1, <1>4, <2>1, <2>2, <2>3, PausesInv
<1> QED
  BY <1>2, <1>3, <1>4 DEF BeforeCompletion

\* The checks on a final response: each goes round with a counter raised, or ends the
\* window.
LEMMA FinalInv ==
    IInv /\ (FinalEscalates \/ FinalNudged \/ StopBlocked \/ SchemaFails \/ Succeeds)
        => IInv'
<1> SUFFICES ASSUME IInv,
                    FinalEscalates \/ FinalNudged \/ StopBlocked \/ SchemaFails \/ Succeeds
             PROVE  IInv'
  OBVIOUS
<1>1. /\ pc = "final" /\ win \in Windows /\ turns \in Nat /\ hist \in Histories(asked)
  BY DEF IInv, TypeOK, FinalEscalates, FinalNudged, StopBlocked, SchemaFails, Succeeds,
         Completing
<1>2. CASE FinalEscalates
  <2>1. /\ [win EXCEPT !.escalated = TRUE] \in Windows
        /\ [win EXCEPT !.escalated = TRUE].refund = win.refund
    BY <1>1 DEF Windows
  <2> QED
    BY <1>1, <1>2, <2>1, GoesRoundInv DEF FinalEscalates
<1>3. CASE FinalNudged
  <2>1. /\ [win EXCEPT !.nudges = @ + 1] \in Windows
        /\ [win EXCEPT !.nudges = @ + 1].refund = win.refund
    BY <1>1 DEF Windows
  <2> QED
    BY <1>1, <1>3, <2>1, GoesRoundInv DEF FinalNudged
<1>4. CASE StopBlocked
  <2>1. /\ [win EXCEPT !.blocks = @ + 1] \in Windows
        /\ [win EXCEPT !.blocks = @ + 1].refund = win.refund
    BY <1>1 DEF Windows
  <2> QED
    BY <1>1, <1>4, <2>1, GoesRoundInv DEF StopBlocked
<1>5. CASE SchemaFails
  <2>1. /\ [win EXCEPT !.retries = @ + 1] \in Windows
        /\ [win EXCEPT !.retries = @ + 1].refund = win.refund
    BY <1>1 DEF Windows
  <2>2. CASE GoesRound([win EXCEPT !.retries = @ + 1])
    BY <1>1, <2>1, <2>2, GoesRoundInv
  <2>3. CASE WindowEnds("schema violation", turns, hist)
    BY <1>1, <2>3, WindowEndsInv DEF Results
  <2> QED
    BY <1>5, <2>2, <2>3 DEF SchemaFails
<1>6. CASE Succeeds
  BY <1>1, <1>6, WindowEndsInv DEF Succeeds, Results
<1> QED
  BY <1>2, <1>3, <1>4, <1>5, <1>6

-----------------------------------------------------------------------------
(* The batch.                                                              *)

\* The hook before the calls: it passes, stops, or pauses with the whole batch.
LEMMA BeforeToolInv == IInv /\ BeforeTool => IInv'
<1> SUFFICES ASSUME IInv, BeforeTool PROVE IInv'
  OBVIOUS
<1>1. /\ TypeOK /\ Bounded /\ Ledgered /\ pc = "batch"
      /\ turns \in Nat /\ asked \in Nat /\ hist \in Histories(asked)
      /\ batch.tools \in Seq(Tools)
  BY DEF IInv, TypeOK, BeforeTool
<1>2. /\ open \ hist.forsaken = Current..asked /\ hist.forsaken \subseteq open
      /\ Len(batch.tools) <= asked /\ Len(batch.tools) \in Nat /\ batch.pos = 1
  BY <1>1, LenProperties DEF Ledgered
<1>3. CASE pc' = "calls" /\ UNCHANGED <<envVars, driveVars, turns, win, batch, asked,
                                       open, pause, result, hist>>
  <2>1. UNCHANGED <<conf, used, caps, round>>
    BY <1>3 DEF envVars, driveVars
  <2>2. TypeOK'
    BY <1>1, <1>3, <2>1 DEF TypeOK, PCs
  <2>3. Ledgered'
    BY <1>1, <1>3 DEF Ledgered, AtRest, PauseCarriesTheRest, Current, First
  <2>4. Bounded'
    <3>1. WindowCap' = WindowCap
      BY <2>1 DEF WindowCap
    <3> QED
      BY <1>1, <1>3, <2>1, <3>1 DEF Bounded, TurnsBounded
  <2> QED
    BY <2>2, <2>3, <2>4 DEF IInv
<1>4. CASE WindowEnds("halted", turns, hist)
  BY <1>1, <1>4, WindowEndsInv DEF Results
<1>5. CASE Pauses("approval", First) /\ UNCHANGED hist
  <2>1. First \in Nat /\ Current = First
    BY <1>1, <1>2 DEF First, Current
  <2>2. hist' = hist /\ First..asked = open \ hist'.forsaken
    BY <1>2, <1>5, <2>1
  <2> QED
    BY <1>1, <1>2, <1>5, <2>1, <2>2, PausesInv
<1> QED
  BY <1>3, <1>4, <1>5 DEF BeforeTool

\* While a call is worked on it is the first of those still open.
LEMMA WorkingFacts ==
    ASSUME IInv, Working
    PROVE  /\ TypeOK /\ Bounded /\ pc = "calls"
           /\ asked \in Nat /\ turns \in Nat /\ hist \in Histories(asked)
           /\ win \in Windows /\ batch.tools \in Seq(Tools) /\ batch.pos \in Nat
           /\ Current \in 1..asked /\ Current \in open \ hist.forsaken
           /\ open \ hist.forsaken = Current..asked
           /\ hist.forsaken \subseteq open
           /\ Len(batch.tools) \in Nat /\ Len(batch.tools) <= asked
           /\ batch.pos \in 1..Len(batch.tools)
           /\ Tool \in Tools
<1>1. /\ TypeOK /\ Bounded /\ Ledgered /\ pc = "calls"
      /\ asked \in Nat /\ turns \in Nat /\ hist \in Histories(asked)
      /\ win \in Windows /\ batch.tools \in Seq(Tools) /\ batch.pos \in Nat
      /\ batch.pos <= Len(batch.tools)
  BY DEF IInv, TypeOK, Working
<1>2. /\ open \ hist.forsaken = Current..asked /\ hist.forsaken \subseteq open
      /\ Len(batch.tools) <= asked /\ Len(batch.tools) \in Nat
      /\ batch.pos \in 1..Len(batch.tools)
  BY <1>1, LenProperties DEF Ledgered
<1>3. Current \in 1..asked
  <2>1. \A l \in Nat : l <= asked => \A i \in 1..l : asked - l + 1 + i - 1 \in 1..asked
    BY <1>1
  <2> QED
    BY <1>2, <2>1 DEF Current, First
<1>4. Tool \in Tools
  BY <1>1, <1>2, ElementOfSeq DEF Tool
<1> QED
  BY <1>1, <1>2, <1>3, <1>4

\* A call that gets its result leaves the ones after it.
LEMMA AnsweredInv ==
    ASSUME IInv, Working, Answered, win' \in Windows, win'.refund = win.refund,
           hist' \in Histories(asked), hist'.forsaken = hist.forsaken,
           hist'.productive = hist.productive
    PROVE  IInv'
<1>1. /\ TypeOK /\ Bounded /\ pc = "calls"
      /\ asked \in Nat /\ batch.tools \in Seq(Tools) /\ batch.pos \in Nat
      /\ Current \in 1..asked /\ Current \in open \ hist.forsaken
      /\ open \ hist.forsaken = Current..asked
      /\ hist.forsaken \subseteq open
      /\ Len(batch.tools) \in Nat /\ Len(batch.tools) <= asked
      /\ batch.pos \in 1..Len(batch.tools)
  BY WorkingFacts
<1>2. /\ open' = open \ {Current}
      /\ batch' = [batch EXCEPT !.pos = @ + 1]
      /\ UNCHANGED <<conf, used, caps, round, pc, turns, asked, pause, result>>
  BY DEF Answered, envVars, driveVars
<1>3. /\ batch' \in [tools : Seq(Tools), pos : Nat]
      /\ batch'.tools = batch.tools /\ batch'.pos = batch.pos + 1
  BY <1>1, <1>2 DEF TypeOK
<1>4. TypeOK'
  BY <1>1, <1>2, <1>3 DEF TypeOK
<1>5. Ledgered'
  <2>1. Current' = Current + 1
    BY <1>1, <1>2, <1>3 DEF Current, First
  <2>2. /\ hist'.forsaken \subseteq open'
        /\ open' \ hist'.forsaken = (Current..asked) \ {Current}
    BY <1>1, <1>2
  <2>3. (Current..asked) \ {Current} = (Current + 1)..asked
    BY <1>1
  <2>4. batch'.pos \in 1..(Len(batch'.tools) + 1)
    BY <1>1, <1>3
  <2> QED
    BY <1>1, <1>2, <1>3, <2>1, <2>2, <2>3, <2>4
       DEF Ledgered, AtRest, PauseCarriesTheRest
<1>6. Bounded'
  <2>1. WindowCap' = WindowCap
    BY <1>2 DEF WindowCap
  <2> QED
    BY <1>1, <1>2, <2>1 DEF Bounded, TurnsBounded
<1> QED
  BY <1>4, <1>5, <1>6 DEF IInv

\* A call that pauses the window: either it is carried with those after it, or it is
\* given up.
LEMMA CallPausesInv == IInv /\ (CallHandsOver \/ CallAsks) => IInv'
<1> SUFFICES ASSUME IInv, CallHandsOver \/ CallAsks PROVE IInv'
  OBVIOUS
<1>1. Working
  BY DEF CallHandsOver, CallAsks
<1>2. /\ asked \in Nat /\ hist \in Histories(asked)
      /\ Current \in 1..asked /\ Current \in open \ hist.forsaken
      /\ open \ hist.forsaken = Current..asked
      /\ hist.forsaken \subseteq open
  BY <1>1, WorkingFacts
<1>3. CASE CallHandsOver
  <2>1. /\ Pauses("hand over", Current + 1)
        /\ hist' = [hist EXCEPT !.forsaken = @ \cup {Current}]
    BY <1>3 DEF CallHandsOver
  <2>2. /\ hist' \in Histories(asked) /\ hist'.productive = hist.productive
        /\ hist'.forsaken = hist.forsaken \cup {Current}
    BY <1>2, <2>1 DEF Histories
  <2>3. (Current + 1)..asked = (Current..asked) \ {Current}
    BY <1>2
  <2>4. /\ (Current + 1)..asked = open \ hist'.forsaken
        /\ hist'.forsaken \subseteq open /\ Current + 1 \in Nat
    BY <1>2, <2>2, <2>3
  <2> QED
    BY <2>1, <2>2, <2>4, PausesInv
<1>4. CASE CallAsks
  <2>1. PICK kind \in {"clarify", "consult"} : Pauses(kind, Current) /\ UNCHANGED hist
    BY <1>4 DEF CallAsks
  <2>2. hist' = hist /\ Current \in Nat
    BY <1>2, <2>1
  <2> QED
    BY <1>2, <2>1, <2>2, PausesInv
<1> QED
  BY <1>3, <1>4

\* A call that is refused gets an error, one that is fatal ends the window.
LEMMA CallRefusedOrFatalInv == IInv /\ (CallRefused \/ CallIsFatal) => IInv'
<1> SUFFICES ASSUME IInv, CallRefused \/ CallIsFatal PROVE IInv'
  OBVIOUS
<1>1. Working
  BY DEF CallRefused, CallIsFatal
<1>2. win \in Windows /\ hist \in Histories(asked) /\ turns \in Nat
  BY <1>1, WorkingFacts
<1>3. CASE CallRefused
  <2>1. Answered /\ win' = win /\ hist' = hist
    BY <1>3 DEF CallRefused
  <2> QED
    BY <1>1, <1>2, <2>1, AnsweredInv
<1>4. CASE CallIsFatal
  BY <1>2, <1>4, WindowEndsInv DEF CallIsFatal, Results
<1> QED
  BY <1>3, <1>4

\* What the log is given of a call leaves the ledger and the bounds alone.
LEMMA LoggedTypes ==
    ASSUME TypeOK, Tool \in Tools, NEW arg \in Args, NEW ok \in BOOLEAN,
           NEW warned \in BOOLEAN, NEW b \in {"none", "errors", "repeats"}
    PROVE  /\ Logged(arg, ok, warned) \in Histories(asked)
           /\ Logged(arg, ok, warned).forsaken = hist.forsaken
           /\ Logged(arg, ok, warned).productive = hist.productive
           /\ [Logged(arg, ok, warned) EXCEPT !.broke = b] \in Histories(asked)
           /\ [Logged(arg, ok, warned) EXCEPT !.broke = b].forsaken = hist.forsaken
           /\ [Logged(arg, ok, warned) EXCEPT !.broke = b].productive = hist.productive
<1> DEFINE e == [call |-> <<Tool, arg>>, ok |-> ok, warned |-> warned]
<1>1. hist \in Histories(asked)
  BY DEF TypeOK
<1>2. e \in Outcome
  BY DEF Outcome
<1>3. \/ Logged(arg, ok, warned) = hist
      \/ Logged(arg, ok, warned) = [hist EXCEPT !.log = Append(@, e)]
  BY DEF Logged
<1> HIDE DEF e
<1>4. /\ Logged(arg, ok, warned) \in Histories(asked)
      /\ Logged(arg, ok, warned).forsaken = hist.forsaken
      /\ Logged(arg, ok, warned).productive = hist.productive
  <2>1. CASE Logged(arg, ok, warned) = hist
    BY <1>1, <2>1
  <2>2. CASE Logged(arg, ok, warned) = [hist EXCEPT !.log = Append(@, e)]
    <3>1. [hist EXCEPT !.log = Append(@, e)] \in Histories(asked)
      BY <1>1, <1>2, HistoryTypes
    <3>2. /\ [hist EXCEPT !.log = Append(@, e)].forsaken = hist.forsaken
          /\ [hist EXCEPT !.log = Append(@, e)].productive = hist.productive
      BY <1>1 DEF Histories
    <3> QED
      BY <2>2, <3>1, <3>2
  <2> QED
    BY <1>3, <2>1, <2>2
<1>5. ASSUME NEW h \in Histories(asked)
      PROVE  /\ [h EXCEPT !.broke = b] \in Histories(asked)
             /\ [h EXCEPT !.broke = b].forsaken = h.forsaken
             /\ [h EXCEPT !.broke = b].productive = h.productive
  BY DEF Histories
<1> QED
  BY <1>4, <1>5

\* A failing call: counted, warned of, or the end of the window.
LEMMA CallErrsInv == IInv /\ CallErrs => IInv'
<1> SUFFICES ASSUME IInv, NEW arg \in Args, Working,
                    \/ WindowEnds("tool error loop", turns,
                                  [Logged(arg, FALSE, FALSE) EXCEPT !.broke = "errors"])
                    \/ /\ Answered
                       /\ win' = [win EXCEPT !.errors[Tool] =
                                      Warned(Grown(win.errors[Tool], <<Tool, arg>>))]
                       /\ hist' = Logged(arg, FALSE,
                                         Warns(Grown(win.errors[Tool], <<Tool, arg>>)))
             PROVE  IInv'
  BY DEF CallErrs
<1>1. TypeOK /\ win \in Windows /\ turns \in Nat /\ Tool \in Tools
  BY WorkingFacts
<1> DEFINE streak == Grown(win.errors[Tool], <<Tool, arg>>)
<1>2. streak \in Streaks /\ Warned(streak) \in Streaks /\ Warns(streak) \in BOOLEAN
  <2>1. win.errors[Tool] \in Streaks /\ <<Tool, arg>> \in Tools \X Args
    BY <1>1 DEF Windows
  <2>2. streak \in Streaks
    BY <2>1, StreakTypes
  <2>3. Warns(streak) \in BOOLEAN
    BY DEF Warns
  <2> HIDE DEF streak
  <2>4. Warned(streak) \in Streaks
    BY <2>1, <2>2, StreakTypes
  <2> QED
    BY <2>2, <2>3, <2>4
<1> HIDE DEF streak
<1>3. CASE WindowEnds("tool error loop", turns,
                      [Logged(arg, FALSE, FALSE) EXCEPT !.broke = "errors"])
  BY <1>1, <1>3, LoggedTypes, WindowEndsInv DEF Results
<1>4. CASE /\ Answered
           /\ win' = [win EXCEPT !.errors[Tool] = Warned(streak)]
           /\ hist' = Logged(arg, FALSE, Warns(streak))
  <2>1. win' \in Windows /\ win'.refund = win.refund
    BY <1>1, <1>2, <1>4 DEF Windows
  <2> QED
    BY <1>1, <1>2, <1>4, <2>1, LoggedTypes, AnsweredInv
<1> QED
  BY <1>3, <1>4 DEF streak

\* A succeeding call: counted, warned of, or the end of the window.
LEMMA CallSucceedsInv == IInv /\ CallSucceeds => IInv'
<1> SUFFICES ASSUME IInv, NEW arg \in Args, Working,
                    \/ WindowEnds("repeated call", turns,
                                  [Logged(arg, TRUE, FALSE) EXCEPT !.broke = "repeats"])
                    \/ /\ Answered
                       /\ win' = [win EXCEPT !.errors[Tool] = NoStreak,
                                     !.repeats = Warned(Grown(win.repeats, <<Tool, arg>>))]
                       /\ hist' = Logged(arg, TRUE, Warns(Grown(win.repeats, <<Tool, arg>>)))
                    \/ /\ Answered
                       /\ win' = [win EXCEPT !.errors[Tool] = NoStreak]
                       /\ hist' = Logged(arg, TRUE, FALSE)
             PROVE  IInv'
  BY DEF CallSucceeds
<1>1. TypeOK /\ win \in Windows /\ turns \in Nat /\ Tool \in Tools
  BY WorkingFacts
<1> DEFINE streak == Grown(win.repeats, <<Tool, arg>>)
<1>2. /\ Warned(streak) \in Streaks /\ Warns(streak) \in BOOLEAN /\ NoStreak \in Streaks
  <2>1. win.repeats \in Streaks /\ <<Tool, arg>> \in Tools \X Args
    BY <1>1 DEF Windows
  <2>2. streak \in Streaks
    BY <2>1, StreakTypes
  <2>3. Warns(streak) \in BOOLEAN /\ NoStreak \in Streaks
    BY DEF Warns, NoStreak, Streaks
  <2> HIDE DEF streak
  <2>4. Warned(streak) \in Streaks
    BY <2>1, <2>2, StreakTypes
  <2> QED
    BY <2>3, <2>4
<1> HIDE DEF streak
<1>3. CASE WindowEnds("repeated call", turns,
                      [Logged(arg, TRUE, FALSE) EXCEPT !.broke = "repeats"])
  BY <1>1, <1>3, LoggedTypes, WindowEndsInv DEF Results
<1>4. CASE /\ Answered
           /\ win' = [win EXCEPT !.errors[Tool] = NoStreak, !.repeats = Warned(streak)]
           /\ hist' = Logged(arg, TRUE, Warns(streak))
  <2>1. win' \in Windows /\ win'.refund = win.refund
    BY <1>1, <1>2, <1>4 DEF Windows
  <2>2. /\ hist' \in Histories(asked) /\ hist'.forsaken = hist.forsaken
        /\ hist'.productive = hist.productive
    BY <1>1, <1>2, <1>4, LoggedTypes
  <2> QED
    BY <1>4, <2>1, <2>2, AnsweredInv
<1>5. CASE /\ Answered
           /\ win' = [win EXCEPT !.errors[Tool] = NoStreak]
           /\ hist' = Logged(arg, TRUE, FALSE)
  <2>1. win' \in Windows /\ win'.refund = win.refund
    BY <1>1, <1>2, <1>5 DEF Windows
  <2> QED
    <3>1. /\ hist' \in Histories(asked) /\ hist'.forsaken = hist.forsaken
          /\ hist'.productive = hist.productive
      BY <1>1, <1>2, <1>5, LoggedTypes
    <3> QED
      BY <1>5, <2>1, <3>1, AnsweredInv
<1> QED
  BY <1>3, <1>4, <1>5 DEF streak

\* With the batch worked off nothing is left to settle.
LEMMA AfterToolInv == IInv /\ AfterTool => IInv'
<1> SUFFICES ASSUME IInv, AfterTool PROVE IInv'
  OBVIOUS
<1>1. /\ TypeOK /\ Bounded /\ Ledgered /\ pc = "calls"
      /\ turns \in Nat /\ asked \in Nat /\ hist \in Histories(asked)
      /\ batch.tools \in Seq(Tools) /\ batch.pos > Len(batch.tools)
  BY DEF IInv, TypeOK, AfterTool
<1>2. CASE WindowEnds("halted", turns, hist)
  BY <1>1, <1>2, WindowEndsInv DEF Results
<1>3. CASE /\ pc' = "top" /\ batch' = NoBatch
           /\ UNCHANGED <<envVars, driveVars, turns, win, asked, open, pause, result, hist>>
  <2>1. UNCHANGED <<conf, used, caps, round>>
    BY <1>3 DEF envVars, driveVars
  <2>2. open = hist.forsaken
    <3>1. /\ batch.pos \in 1..(Len(batch.tools) + 1) /\ Len(batch.tools) \in Nat
          /\ open \ hist.forsaken = Current..asked /\ hist.forsaken \subseteq open
      BY <1>1, LenProperties DEF Ledgered
    <3>2. batch.pos = Len(batch.tools) + 1
      BY <1>1, <3>1
    <3>3. Current = asked + 1
      BY <1>1, <3>1, <3>2 DEF Current, First
    <3>4. (asked + 1)..asked = {}
      BY <1>1
    <3> QED
      BY <3>1, <3>3, <3>4
  <2>3. TypeOK'
    BY <1>1, <1>3, <2>1, NoBatchType DEF TypeOK, PCs
  <2>4. Ledgered'
    BY <1>3, <2>2 DEF Ledgered, AtRest, PauseCarriesTheRest
  <2>5. Bounded'
    <3>1. WindowCap' = WindowCap
      BY <2>1 DEF WindowCap
    <3> QED
      BY <1>1, <1>3, <2>1, <3>1 DEF Bounded, TurnsBounded
  <2> QED
    BY <2>3, <2>4, <2>5 DEF IInv
<1> QED
  BY <1>2, <1>3 DEF AfterTool

-----------------------------------------------------------------------------
(* The driving round and the answers.                                      *)

\* A history that forgets all but what is given up.
LEMMA FreshHistory ==
    ASSUME NEW n \in Nat, NEW lost \in SUBSET (1..n)
    PROVE  /\ [NoHistory EXCEPT !.forsaken = lost] \in Histories(n)
           /\ [NoHistory EXCEPT !.forsaken = lost].forsaken = lost
           /\ [NoHistory EXCEPT !.forsaken = lost].productive = 0
<1>1. NoHistory \in Histories(n) /\ NoHistory.productive = 0
  <2>1. <<>> \in Seq(Outcome)
    OBVIOUS
  <2> QED
    BY <2>1 DEF NoHistory, Histories
<1>2. ASSUME NEW h \in Histories(n)
      PROVE  /\ [h EXCEPT !.forsaken = lost] \in Histories(n)
             /\ [h EXCEPT !.forsaken = lost].forsaken = lost
             /\ [h EXCEPT !.forsaken = lost].productive = h.productive
  BY DEF Histories
<1> QED
  BY <1>1, <1>2

\* A grant leaves caps.
LEMMA GrantTypes ==
    ASSUME NEW cap \in Caps, NEW n \in Nat
    PROVE  GrantPolicy(cap, n) \in Caps /\ GrantMaxTurns(cap, n) \in Caps
BY DEF GrantPolicy, GrantMaxTurns, AtLeast, Caps

\* Another round, with nothing left to settle.
LEMMA NextRoundInv ==
    ASSUME IInv, AtRest, NEW granted \in Nat, NextRound(granted), round' \in Rounds,
           used' \in Nat
    PROVE  IInv'
<1>1. /\ TypeOK /\ open = hist.forsaken
      /\ conf \in Configs /\ asked \in Nat /\ open \in SUBSET (1..asked)
      /\ caps.leaf \in Caps /\ caps.max \in Caps /\ result \in Results
      /\ hist \in Histories(asked)
  BY DEF IInv, Ledgered, TypeOK
<1>2. /\ caps' = [leaf |-> GrantPolicy(caps.leaf, granted),
                 max |-> GrantMaxTurns(caps.max, granted)]
      /\ turns' = conf.start /\ win' = NewWindow(TRUE, conf.schema)
      /\ batch' = NoBatch /\ pc' = "top" /\ pause' = NoPause
      /\ hist' = [NoHistory EXCEPT !.forsaken = hist.forsaken]
      /\ UNCHANGED <<conf, asked, open, result>>
  BY DEF NextRound
<1>3. conf.start \in Nat /\ conf.schema \in BOOLEAN
  BY <1>1, ConfTypes
<1>4. win' \in Windows /\ win'.refund = 0
  BY <1>2, <1>3, NewWindowType
<1>5. hist' \in Histories(asked) /\ hist'.forsaken = open /\ hist'.productive = 0
  BY <1>1, <1>2, FreshHistory
<1>6. caps' \in [leaf : Caps, max : Caps]
  BY <1>1, <1>2, GrantTypes
<1>7. NoPause \in PausedStates
  BY DEF NoPause, PausedStates
<1>8. TypeOK'
  BY <1>1, <1>2, <1>3, <1>4, <1>5, <1>6, <1>7, NoBatchType DEF TypeOK, PCs
<1>9. Ledgered'
  BY <1>2, <1>5 DEF Ledgered, AtRest, PauseCarriesTheRest
<1>10. Bounded'
  <2>1. WindowCap' \in Caps
    <3>1. caps'.leaf \in Caps /\ caps'.max \in Caps /\ NoCap \in Caps
      BY <1>6 DEF Caps
    <3> QED
      BY <3>1, LowerTypes DEF WindowCap
  <2>2. WindowCap' # NoCap => WindowCap' \in Nat
    BY <2>1 DEF Caps
  <2>3. hist'.productive + win'.refund <= turns'
    <3>1. turns' \in Nat /\ hist'.productive = 0 /\ win'.refund = 0
      BY <1>2, <1>3, <1>4, <1>5
    <3> QED
      BY <3>1
  <2>4. WindowCap' # NoCap => win'.refund <= WindowCap' /\ hist'.productive <= WindowCap'
    BY <1>4, <1>5, <2>2
  <2>5. turns' = conf'.start
    BY <1>2
  <2> QED
    BY <2>3, <2>4, <2>5 DEF Bounded, TurnsBounded
<1> QED
  BY <1>8, <1>9, <1>10 DEF IInv

\* What the driving round reckons with.
LEMMA RoundTypes ==
    ASSUME TypeOK
    PROVE  /\ Continues \in Nat /\ Allowance \in Nat
           /\ round.steps \in Nat /\ round.auto \in Nat
           /\ StepsPerGrant \in Nat /\ "none" \in Results /\ NoCap \in Caps
<1>1. round \in Rounds /\ caps.leaf \in Caps
  BY DEF TypeOK
<1>2. Continues \in Nat
  BY <1>1 DEF Continues, Rounds, Caps
<1>3. Allowance \in Nat
  BY <1>1 DEF Allowance, Caps
<1> QED
  BY <1>1, <1>2, <1>3, ReactLoopAssumption DEF Rounds, Results, Caps

LEMMA RoundGoesOnInv == IInv /\ (RoundContinues \/ RoundGranted) => IInv'
<1> SUFFICES ASSUME IInv, RoundContinues \/ RoundGranted PROVE IInv'
  OBVIOUS
<1>1. TypeOK /\ round \in Rounds /\ used \in Nat /\ AtRest
  BY DEF IInv, TypeOK, AtRest, RoundContinues, RoundGranted
<1>2. CASE RoundContinues
  <2>1. /\ NextRound(round.steps + Allowance) /\ used' = used
        /\ round' = [round EXCEPT !.chain = Continues + 1, !.seed = 0]
    BY <1>2 DEF RoundContinues
  <2>2. round.steps + Allowance \in Nat /\ Continues + 1 \in Caps
    BY <1>1, RoundTypes DEF Caps
  <2>3. round' \in Rounds
    BY <1>1, <2>1, <2>2 DEF Rounds
  <2> QED
    BY <1>1, <2>1, <2>2, <2>3, NextRoundInv
<1>3. CASE RoundGranted
  <2>1. /\ NextRound(round.steps + StepsPerGrant) /\ used' = used
        /\ round' = [round EXCEPT !.chain = NoCap, !.seed = 0, !.auto = @ + 1]
    BY <1>3 DEF RoundGranted, Counted
  <2>2. round.steps + StepsPerGrant \in Nat /\ NoCap \in Caps
    BY <1>1, RoundTypes
  <2>3. round' \in Rounds
    <3> DEFINE r == [round EXCEPT !.auto = @ + 1]
    <3>1. r \in Rounds
      BY <1>1 DEF Rounds
    <3>2. round' = [r EXCEPT !.chain = NoCap, !.seed = 0]
      BY <2>1
    <3> HIDE DEF r
    <3> QED
      BY <2>2, <3>1, <3>2 DEF Rounds
  <2> QED
    BY <1>1, <2>1, <2>2, <2>3, NextRoundInv
<1> QED
  BY <1>2, <1>3

\* A run that ends where it is, or asks for more budget with nothing pending.
LEMMA RoundStopsInv == IInv /\ (RoundSurfaces \/ RoundAborts) => IInv'
<1> SUFFICES ASSUME IInv, RoundSurfaces \/ RoundAborts PROVE IInv'
  OBVIOUS
<1>1. /\ TypeOK /\ Bounded /\ open = hist.forsaken /\ pc = "resolving"
      /\ round \in Rounds /\ asked \in Nat
      /\ UNCHANGED <<conf, used, caps, round, turns, win, asked, open, hist>>
  BY DEF IInv, Ledgered, AtRest, TypeOK, RoundSurfaces, RoundAborts, envVars, driveVars
<1>2. Bounded'
  <2>1. WindowCap' = WindowCap
    BY <1>1 DEF WindowCap
  <2> QED
    BY <1>1, <2>1 DEF Bounded, TurnsBounded
<1>3. CASE RoundSurfaces
  <2>1. /\ pc' = "paused" /\ batch' = NoBatch /\ result' = result
        /\ pause' = [kind |-> "budget", from |-> asked + 1, steps |-> round.steps,
                     continues |-> Continues]
    BY <1>3 DEF RoundSurfaces
  <2>2. pause' \in PausedStates /\ pause'.from = asked + 1
    BY <1>1, <2>1, RoundTypes DEF PausedStates
  <2>3. TypeOK'
    BY <1>1, <2>1, <2>2, NoBatchType DEF TypeOK, PCs
  <2>4. Ledgered'
    <3>1. (asked + 1)..asked = {}
      BY <1>1
    <3>2. Pending' = {}
      BY <1>1, <2>2, <3>1 DEF Pending
    <3> QED
      BY <1>1, <2>1, <3>2 DEF Ledgered, AtRest, PauseCarriesTheRest
  <2> QED
    BY <1>2, <2>3, <2>4 DEF IInv
<1>4. CASE RoundAborts
  <2>1. /\ pc' = "ended" /\ result' = round.cause /\ UNCHANGED <<batch, pause>>
    BY <1>4 DEF RoundAborts, Ends
  <2>2. TypeOK'
    BY <1>1, <2>1 DEF TypeOK, PCs, Rounds
  <2>3. Ledgered'
    BY <1>1, <2>1 DEF Ledgered, AtRest, PauseCarriesTheRest
  <2> QED
    BY <1>2, <2>2, <2>3 DEF IInv
<1> QED
  BY <1>3, <1>4

\* An answer that ends the run.
LEMMA ResumeStopsInv == IInv /\ (ResumeEndsBudget \/ ResumeHalts) => IInv'
<1> SUFFICES ASSUME IInv, ResumeEndsBudget \/ ResumeHalts PROVE IInv'
  OBVIOUS
<1>1. /\ TypeOK /\ Bounded /\ hist.forsaken \subseteq open
      /\ pc' = "ended" /\ result' \in Results /\ used' = used + 1
      /\ UNCHANGED <<conf, caps, round, turns, win, batch, asked, open, pause, hist>>
  BY DEF IInv, Ledgered, ResumeEndsBudget, ResumeHalts, Resuming, Ends, Results,
         driveVars
<1>2. TypeOK'
  BY <1>1 DEF TypeOK, PCs
<1>3. Ledgered'
  BY <1>1 DEF Ledgered, AtRest, PauseCarriesTheRest
<1>4. Bounded'
  <2>1. WindowCap' = WindowCap
    BY <1>1 DEF WindowCap
  <2> QED
    BY <1>1, <2>1 DEF Bounded, TurnsBounded
<1> QED
  BY <1>2, <1>3, <1>4 DEF IInv

LEMMA ResumeWithBudgetInv == IInv /\ ResumeWithBudget => IInv'
<1> SUFFICES ASSUME IInv, ResumeWithBudget PROVE IInv'
  OBVIOUS
<1>1. /\ TypeOK /\ AtRest /\ pause \in PausedStates /\ used' \in Nat
      /\ NextRound(pause.steps + StepsPerGrant)
      /\ round' = [chain |-> NoCap, seed |-> pause.continues, auto |-> 0, steps |-> 0,
                   cause |-> "none"]
  BY DEF IInv, TypeOK, AtRest, ResumeWithBudget, Resuming
<1>2. pause.steps \in Nat /\ pause.continues \in Nat /\ StepsPerGrant \in Nat
  BY <1>1, ReactLoopAssumption DEF PausedStates
<1>3. NoCap \in Caps /\ "none" \in Results
  BY DEF Caps, Results
<1>4. pause.steps + StepsPerGrant \in Nat /\ round' \in Rounds
  BY <1>1, <1>2, <1>3 DEF Rounds
<1> QED
  BY <1>1, <1>4, NextRoundInv

\* Pending calls are answered or given up, and the window starts afresh.
LEMMA LeafOnlyInv ==
    ASSUME IInv, Resuming, NEW answered \in SUBSET Pending, LeafOnly(answered)
    PROVE  IInv'
<1>1. /\ TypeOK /\ Bounded
      /\ Pending = open \ hist.forsaken /\ hist.forsaken \subseteq open
      /\ asked \in Nat /\ open \in SUBSET (1..asked)
      /\ turns \in Nat /\ used \in Nat
  BY DEF IInv, Ledgered, PauseCarriesTheRest, TypeOK, Resuming
<1>2. /\ win' = NewWindow(FALSE, FALSE) /\ pc' = "top" /\ pause' = NoPause
      /\ open' = open \ answered
      /\ hist' = [NoHistory EXCEPT !.forsaken = hist.forsaken \cup (Pending \ answered)]
      /\ used' = used + 1
      /\ UNCHANGED <<conf, caps, round, turns, batch, asked, result>>
  BY DEF LeafOnly, Resuming, driveVars
<1>3. win' \in Windows /\ win'.refund = 0
  BY <1>2, NewWindowType
<1>4. hist' \in Histories(asked) /\ hist'.forsaken = open' /\ hist'.productive = 0
  <2>1. hist.forsaken \cup (Pending \ answered) = open'
    BY <1>1, <1>2
  <2>2. open' \in SUBSET (1..asked)
    BY <1>1, <1>2
  <2> QED
    BY <1>1, <1>2, <2>1, <2>2, FreshHistory
<1>5. NoPause \in PausedStates
  BY DEF NoPause, PausedStates
<1>6. TypeOK'
  <2>1. /\ conf' \in Configs /\ caps' \in [leaf : Caps, max : Caps] /\ round' \in Rounds
        /\ turns' \in Nat /\ batch' \in [tools : Seq(Tools), pos : Nat]
        /\ asked' \in Nat /\ result' \in Results
    BY <1>1, <1>2 DEF TypeOK
  <2>2. open' \in SUBSET (1..asked') /\ used' \in Nat /\ hist' \in Histories(asked')
    BY <1>1, <1>2, <1>4
  <2> QED
    BY <1>2, <1>3, <1>5, <2>1, <2>2 DEF TypeOK, PCs
<1>7. Ledgered'
  BY <1>2, <1>4 DEF Ledgered, AtRest, PauseCarriesTheRest
<1>8. Bounded'
  <2>1. WindowCap' = WindowCap /\ (WindowCap # NoCap => WindowCap \in Nat)
    <3>1. WindowCap' = WindowCap
      BY <1>2 DEF WindowCap
    <3>2. WindowCap \in Caps
      BY <1>1, GateTypes
    <3> QED
      BY <3>1, <3>2 DEF Caps
  <2>2. hist'.productive + win'.refund <= turns'
    <3>1. turns' \in Nat /\ hist'.productive = 0 /\ win'.refund = 0
      BY <1>1, <1>2, <1>3, <1>4
    <3> QED
      BY <3>1
  <2>3. WindowCap' # NoCap => win'.refund <= WindowCap' /\ hist'.productive <= WindowCap'
    BY <1>3, <1>4, <2>1
  <2>4. WindowCap' # NoCap => turns' <= 2 * WindowCap' \/ turns' = conf'.start
    BY <1>1, <1>2, <2>1 DEF Bounded, TurnsBounded
  <2> QED
    BY <2>2, <2>3, <2>4 DEF Bounded, TurnsBounded
<1> QED
  BY <1>6, <1>7, <1>8 DEF IInv

LEMMA ResumeCallsInv ==
    IInv /\ (ResumeAnswersAll \/ ResumeModified \/ ResumeWithText) => IInv'
BY LeafOnlyInv DEF ResumeAnswersAll, ResumeModified, ResumeWithText

-----------------------------------------------------------------------------

LEMMA StutterInv == IInv /\ UNCHANGED vars => IInv'
<1> SUFFICES ASSUME IInv, UNCHANGED vars PROVE IInv'
  OBVIOUS
<1>1. UNCHANGED <<conf, used, caps, round, pc, turns, win, batch, asked, open, pause,
                  result, hist>>
  BY DEF vars, envVars, driveVars
<1> QED
  BY <1>1 DEF IInv, TypeOK, Ledgered, AtRest, Bounded, TurnsBounded, WindowCap,
              PauseCarriesTheRest, Pending, Current, First

\* Every step keeps the invariant.
LEMMA NextInv == IInv /\ [Next]_vars => IInv'
<1> SUFFICES ASSUME IInv, [Next]_vars PROVE IInv'
  OBVIOUS
<1>1. CASE Window
  BY <1>1, BudgetStopsInv, BeforeTurnInv, TurnAnswersInv, TurnCallsInv, TurnFailsInv,
     FinalInv, BeforeCompletionInv, BeforeToolInv, CallRefusedOrFatalInv,
     CallPausesInv, CallErrsInv, CallSucceedsInv, AfterToolInv DEF Window
<1>2. CASE Drive
  BY <1>2, RoundGoesOnInv, RoundStopsInv DEF Drive
<1>3. CASE Resume
  BY <1>3, ResumeWithBudgetInv, ResumeStopsInv, ResumeCallsInv DEF Resume
<1>4. CASE UNCHANGED vars
  BY <1>4, StutterInv
<1> QED
  BY <1>1, <1>2, <1>3, <1>4 DEF Next

\* The invariant holds for ever.
LEMMA InvHolds == Spec => []IInv
<1> QED
  BY InitInv, NextInv, PTL DEF Spec

\* The leaf's state keeps its types.
THEOREM TypeCorrect == Spec => []TypeOK
<1>1. IInv => TypeOK
  BY DEF IInv
<1> QED
  BY <1>1, InvHolds, PTL

\* A pause carries exactly the calls that still wait for a result, whatever was
\* answered, refused or handed over before it (the pending_tool_calls of react.rs).
THEOREM PausesCarryTheRest == Spec => []PauseCarriesTheRest
<1>1. IInv => PauseCarriesTheRest
  BY DEF IInv, Ledgered
<1> QED
  BY <1>1, InvHolds, PTL

\* A window runs at most twice its cap, and at most its cap of productive turns
\* (react.rs:334-341).
THEOREM WindowsAreBounded == Spec => []TurnsBounded
<1>1. IInv => TurnsBounded
  BY DEF IInv, Bounded
<1> QED
  BY <1>1, InvHolds, PTL

-----------------------------------------------------------------------------
(* The loop implements the ledger: only a turn asks for calls; every other *)
(* step answers some of the open ones, gives up others, or neither.        *)

Settles ==
    /\ asked' = asked
    /\ open' \subseteq open
    /\ hist.forsaken \subseteq hist'.forsaken

\* A window that ends gives up nothing, or all that is open.
LEMMA WindowEndsSettles ==
    ASSUME IInv, NEW r, NEW t, NEW h \in Histories(asked),
           h.forsaken = hist.forsaken, WindowEnds(r, t, h)
    PROVE  Settles
<1>1. hist.forsaken \subseteq open /\ hist \in Histories(asked)
  BY DEF IInv, Ledgered, TypeOK
<1>2. /\ UNCHANGED <<asked, open>>
      /\ hist' = h \/ hist' = [h EXCEPT !.forsaken = open]
  BY DEF WindowEnds
<1>3. CASE hist' = h
  BY <1>2, <1>3 DEF Settles
<1>4. CASE LeafExhausts(r, t)
  <2>1. hist'.forsaken = hist.forsaken \/ hist'.forsaken = open
    BY <1>2 DEF Histories
  <2> QED
    BY <1>1, <1>2, <2>1 DEF Settles
<1> QED
  BY <1>3, <1>4 DEF WindowEnds

\* The model's turn and the checks on its final response ask for no calls.
LEMMA ResponseSettles ==
    ASSUME IInv,
           \/ BudgetStops \/ BeforeTurn \/ TurnAnswers \/ TurnFails
           \/ FinalEscalates \/ FinalNudged \/ BeforeCompletion \/ StopBlocked
           \/ SchemaFails \/ Succeeds
    PROVE  Settles
<1>1. hist \in Histories(asked)
  BY DEF IInv, TypeOK
<1>3. [hist EXCEPT !.productive = @ + 1].forsaken = hist.forsaken
  BY <1>1 DEF Histories
<1>4. ASSUME NEW w, GoesRound(w)
      PROVE  Settles
  BY <1>4 DEF GoesRound, Settles
<1>5. ASSUME NEW kind, NEW from, Pauses(kind, from), UNCHANGED hist
      PROVE  Settles
  BY <1>5 DEF Pauses, Settles
<1>6. CASE TurnAnswers
  BY <1>3, <1>6 DEF TurnAnswers, Settles
<1>7. CASE BudgetStops \/ TurnFails
  BY <1>1, <1>7, WindowEndsSettles DEF BudgetStops, TurnFails
<1>8. CASE BeforeTurn \/ BeforeCompletion
  BY <1>1, <1>4, <1>5, <1>8, WindowEndsSettles DEF BeforeTurn, BeforeCompletion
<1>9. CASE FinalEscalates \/ FinalNudged \/ StopBlocked \/ SchemaFails
  BY <1>1, <1>4, <1>9, WindowEndsSettles DEF FinalEscalates, FinalNudged, StopBlocked,
                                       SchemaFails
<1>10. CASE Succeeds
  BY <1>1, <1>10, WindowEndsSettles DEF Succeeds
<1> QED
  BY <1>6, <1>7, <1>8, <1>9, <1>10

\* Working off a batch settles its calls.
LEMMA BatchSettles ==
    ASSUME IInv,
           \/ BeforeTool \/ CallRefused \/ CallIsFatal \/ CallHandsOver \/ CallAsks
           \/ CallErrs \/ CallSucceeds \/ AfterTool
    PROVE  Settles
<1>1. hist \in Histories(asked) /\ TypeOK
  BY DEF IInv, TypeOK
<1>2. ASSUME Answered, hist'.forsaken = hist.forsaken
      PROVE  Settles
  BY <1>2 DEF Answered, Settles
<1>3. ASSUME NEW kind, NEW from, Pauses(kind, from),
             hist.forsaken \subseteq hist'.forsaken
      PROVE  Settles
  BY <1>3 DEF Pauses, Settles
<1>4. CASE BeforeTool
  BY <1>1, <1>3, <1>4, WindowEndsSettles DEF BeforeTool, Settles
<1>5. CASE CallRefused
  BY <1>2, <1>5 DEF CallRefused
<1>6. CASE CallIsFatal
  BY <1>1, <1>6, WindowEndsSettles DEF CallIsFatal
<1>7. CASE CallHandsOver
  <2>1. [hist EXCEPT !.forsaken = @ \cup {Current}].forsaken = hist.forsaken \cup {Current}
    BY <1>1 DEF Histories
  <2> QED
    BY <1>3, <1>7, <2>1 DEF CallHandsOver
<1>8. CASE CallAsks
  BY <1>3, <1>8 DEF CallAsks
<1>9. CASE CallErrs
  <2>1. PICK arg \in Args :
            /\ Working
            /\ \/ WindowEnds("tool error loop", turns,
                             [Logged(arg, FALSE, FALSE) EXCEPT !.broke = "errors"])
               \/ /\ Answered
                  /\ hist' = Logged(arg, FALSE,
                                    Warns(Grown(win.errors[Tool], <<Tool, arg>>)))
    BY <1>9 DEF CallErrs
  <2>2. Tool \in Tools
    BY <2>1, WorkingFacts
  <2>3. Warns(Grown(win.errors[Tool], <<Tool, arg>>)) \in BOOLEAN
    BY DEF Warns
  <2>4. CASE WindowEnds("tool error loop", turns,
                        [Logged(arg, FALSE, FALSE) EXCEPT !.broke = "errors"])
    <3>1. /\ [Logged(arg, FALSE, FALSE) EXCEPT !.broke = "errors"] \in Histories(asked)
          /\ [Logged(arg, FALSE, FALSE) EXCEPT !.broke = "errors"].forsaken = hist.forsaken
      BY <1>1, <2>2, LoggedTypes
    <3> QED
      BY <2>4, <3>1, WindowEndsSettles
  <2>5. ASSUME NEW warned \in BOOLEAN, Answered, hist' = Logged(arg, FALSE, warned)
        PROVE  Settles
    <3>1. hist'.forsaken = hist.forsaken
      BY <1>1, <2>2, <2>5, LoggedTypes
    <3> QED
      BY <1>2, <2>5, <3>1
  <2> QED
    BY <2>1, <2>3, <2>4, <2>5
<1>10. CASE CallSucceeds
  <2>1. PICK arg \in Args :
            /\ Working
            /\ \/ WindowEnds("repeated call", turns,
                             [Logged(arg, TRUE, FALSE) EXCEPT !.broke = "repeats"])
               \/ /\ Answered
                  /\ hist' = Logged(arg, TRUE, Warns(Grown(win.repeats, <<Tool, arg>>)))
               \/ Answered /\ hist' = Logged(arg, TRUE, FALSE)
    BY <1>10 DEF CallSucceeds
  <2>2. Tool \in Tools
    BY <2>1, WorkingFacts
  <2>3. Warns(Grown(win.repeats, <<Tool, arg>>)) \in BOOLEAN
    BY DEF Warns
  <2>4. CASE WindowEnds("repeated call", turns,
                        [Logged(arg, TRUE, FALSE) EXCEPT !.broke = "repeats"])
    <3>1. /\ [Logged(arg, TRUE, FALSE) EXCEPT !.broke = "repeats"] \in Histories(asked)
          /\ [Logged(arg, TRUE, FALSE) EXCEPT !.broke = "repeats"].forsaken = hist.forsaken
      BY <1>1, <2>2, LoggedTypes
    <3> QED
      BY <2>4, <3>1, WindowEndsSettles
  <2>5. ASSUME NEW warned \in BOOLEAN, Answered, hist' = Logged(arg, TRUE, warned)
        PROVE  Settles
    <3>1. hist'.forsaken = hist.forsaken
      BY <1>1, <2>2, <2>5, LoggedTypes
    <3> QED
      BY <1>2, <2>5, <3>1
  <2> QED
    BY <2>1, <2>3, <2>4, <2>5
<1>11. CASE AfterTool
  BY <1>1, <1>11, WindowEndsSettles DEF AfterTool, Settles
<1> QED
  BY <1>4, <1>5, <1>6, <1>7, <1>8, <1>9, <1>10, <1>11

\* A new round keeps the ledger; answers settle what was pending.
LEMMA OutsideSettles == ASSUME IInv, Drive \/ Resume PROVE Settles
<1>1. hist.forsaken \in SUBSET (1..asked) /\ asked \in Nat
  BY DEF IInv, TypeOK, Histories
<1>2. ASSUME NEW granted, NextRound(granted)
      PROVE  Settles
  <2>1. hist'.forsaken = hist.forsaken
    BY <1>1, <1>2, FreshHistory DEF NextRound
  <2> QED
    BY <1>2, <2>1 DEF NextRound, Settles
<1>3. ASSUME Resuming, NEW answered \in SUBSET Pending, LeafOnly(answered)
      PROVE  Settles
  <2>1. Pending \in SUBSET (1..asked)
    BY <1>3 DEF IInv, Ledgered, PauseCarriesTheRest, TypeOK, Resuming
  <2>2. hist.forsaken \cup (Pending \ answered) \in SUBSET (1..asked)
    BY <1>1, <2>1
  <2>3. hist'.forsaken = hist.forsaken \cup (Pending \ answered)
    BY <1>1, <1>3, <2>2, FreshHistory DEF LeafOnly
  <2> QED
    BY <1>3, <2>3 DEF LeafOnly, Settles
<1>4. CASE RoundContinues \/ RoundGranted \/ ResumeWithBudget
  BY <1>2, <1>4 DEF RoundContinues, RoundGranted, ResumeWithBudget
<1>5. CASE RoundSurfaces \/ RoundAborts \/ ResumeEndsBudget \/ ResumeHalts
  BY <1>5 DEF RoundSurfaces, RoundAborts, ResumeEndsBudget, ResumeHalts, Settles
<1>6. CASE ResumeAnswersAll \/ ResumeModified \/ ResumeWithText
  BY <1>3, <1>6 DEF ResumeAnswersAll, ResumeModified, ResumeWithText
<1> QED
  BY <1>4, <1>5, <1>6 DEF Drive, Resume

\* Every step is a step of the ledger, or none.
LEMMA StepKeepsLedger == IInv /\ IInv' /\ [Next]_vars => [Ledger!Next]_(Ledger!ledger)
<1> SUFFICES ASSUME IInv, IInv', [Next]_vars
             PROVE  [Ledger!Next]_(Ledger!ledger)
  OBVIOUS
<1>1. hist'.forsaken \subseteq open'
  BY DEF IInv, Ledgered
<1>2. ASSUME Settles
      PROVE  Ledger!Settle
  <2> DEFINE answered == open \ open'
             lost     == hist'.forsaken \ hist.forsaken
  <2>1. /\ answered \in SUBSET (open \ hist.forsaken)
        /\ lost \in SUBSET (open \ hist.forsaken)
        /\ answered \cap lost = {}
        /\ open' = open \ answered
        /\ hist'.forsaken = hist.forsaken \cup lost
    BY <1>1, <1>2 DEF Settles
  <2> HIDE DEF answered, lost
  <2> QED
    BY <1>2, <2>1 DEF Settles, Ledger!Settle
<1>3. CASE Drive \/ Resume
  BY <1>2, <1>3, OutsideSettles DEF Ledger!Next
<1>4. CASE Window /\ ~ TurnCalls
  BY <1>2, <1>4, ResponseSettles, BatchSettles DEF Window, Ledger!Next
<1>5. CASE UNCHANGED vars
  BY <1>5 DEF vars, Ledger!ledger
<1>6. CASE TurnCalls
  <2>1. PICK tools \in Batches :
            /\ pc = "top"
            /\ asked' = asked + Len(tools)
            /\ open' = open \cup (asked + 1)..(asked + Len(tools))
            /\ hist' = [hist EXCEPT !.productive =
                           IF tools # <<>> /\ Range(tools) = {Send} THEN @ ELSE @ + 1]
    BY <1>6 DEF TurnCalls
  <2>2. /\ open = hist.forsaken /\ asked \in Nat /\ hist \in Histories(asked)
        /\ Len(tools) \in Nat
    BY <2>1, ReactLoopAssumption DEF IInv, Ledgered, AtRest, TypeOK, Batches
  <2>3. hist'.forsaken = hist.forsaken
    BY <2>1, <2>2 DEF Histories
  <2>4. CASE Len(tools) = 0
    <3>1. asked' = asked /\ (asked + 1)..(asked + Len(tools)) = {}
      BY <2>1, <2>2, <2>4
    <3>2. open' = open
      BY <2>1, <3>1
    <3> QED
      BY <2>3, <3>1, <3>2 DEF Ledger!ledger
  <2>5. CASE Len(tools) > 0
    <3>1. /\ asked' \in Nat /\ asked' > asked
          /\ open' = open \cup (asked + 1)..asked'
      BY <2>1, <2>2, <2>5
    <3> QED
      BY <2>2, <2>3, <3>1 DEF Ledger!Next, Ledger!Ask
  <2> QED
    BY <2>2, <2>4, <2>5
<1> QED
  BY <1>3, <1>4, <1>5, <1>6 DEF Next

\* The loop keeps its ledger: no call is answered twice, and the model is asked again
\* only when every call is answered or given up (react.rs 1088-1867, run.rs 879-1222).
THEOREM LedgerIsKept == Spec => LedgerKept
<1>1. Init => Ledger!Init
  BY DEF Init, Ledger!Init, NoHistory
<1>2. IInv /\ IInv' /\ [Next]_vars => [Ledger!Next]_(Ledger!ledger)
  BY StepKeepsLedger
<1> QED
  BY <1>1, <1>2, InvHolds, PTL DEF Spec, LedgerKept, Ledger!Spec

-----------------------------------------------------------------------------
(* Runs of equal calls.                                                    *)

\* The run of equal calls that some places of a log end with, and in it the one warning
\* after n of its calls.
Run(log, places) ==
    {i \in places : \A j \in places : j > i => log[j].call = log[i].call}

WarnedAt(log, run, n) ==
    \E w \in run :
        /\ {i \in run : log[i].warned} = {w}
        /\ Cardinality({i \in run : i <= w}) = n

\* What a streak of the window says of such a run.
Records(log, streak, places, n) ==
    /\ streak \in Streaks
    /\ places \subseteq DOMAIN log
    /\ places = {} => streak = NoStreak
    /\ places # {} =>
          /\ Run(log, places) # {}
          /\ \A i \in Run(log, places) : log[i].call = streak.of
          /\ streak.count = Cardinality(Run(log, places))
          /\ streak.count < n => ~ streak.warned /\ \A i \in Run(log, places) : ~ log[i].warned
          /\ streak.count >= n => streak.warned /\ WarnedAt(log, Run(log, places), n)

LEMMA RunIsFinite ==
    ASSUME NEW log \in Seq(Outcome), NEW places \in SUBSET (DOMAIN log)
    PROVE  /\ IsFiniteSet(Run(log, places)) /\ Cardinality(Run(log, places)) \in Nat
           /\ Run(log, places) \subseteq places /\ places \subseteq Nat
           /\ \A i \in places : i < Len(log) + 1
           /\ Cardinality({}) = 0
<1>1. DOMAIN log = 1..Len(log) /\ Len(log) \in Nat
  OBVIOUS
<1>2. IsFiniteSet(1..Len(log))
  BY <1>1, FS_Interval
<1>3. Run(log, places) \subseteq places /\ places \subseteq 1..Len(log)
  BY <1>1 DEF Run
<1>4. IsFiniteSet(Run(log, places))
  BY <1>2, <1>3, FS_Subset
<1> QED
  BY <1>1, <1>3, <1>4, FS_CardinalityType, FS_EmptySet

\* Places keep their run when the log grows elsewhere.
LEMMA RunStays ==
    ASSUME NEW log \in Seq(Outcome), NEW e \in Outcome, NEW places \in SUBSET (DOMAIN log), NEW n
    PROVE  /\ Run(Append(log, e), places) = Run(log, places)
           /\ \A streak : Records(log, streak, places, n) =>
                            Records(Append(log, e), streak, places, n)
<1> DEFINE longer == Append(log, e)
<1>1. /\ \A i \in DOMAIN log : longer[i] = log[i]
      /\ DOMAIN log \subseteq DOMAIN longer
  OBVIOUS
<1> HIDE DEF longer
<1>2. \A i \in places : longer[i] = log[i]
  BY <1>1
<1>3. Run(longer, places) = Run(log, places) /\ Run(log, places) \subseteq places
  BY <1>2 DEF Run
<1>4. WarnedAt(longer, Run(log, places), n) <=> WarnedAt(log, Run(log, places), n)
  <2>1. {i \in Run(log, places) : longer[i].warned} = {i \in Run(log, places) : log[i].warned}
    BY <1>2, <1>3
  <2> QED
    BY <2>1 DEF WarnedAt
<1>5. ASSUME NEW streak, Records(log, streak, places, n)
      PROVE  Records(longer, streak, places, n)
  BY <1>1, <1>2, <1>3, <1>4, <1>5 DEF Records
<1> QED
  BY <1>3, <1>5 DEF longer

\* A run grows by a call equal to its own, and starts over with another.
LEMMA RunGrows ==
    ASSUME NEW log \in Seq(Outcome), NEW e \in Outcome, NEW places \in SUBSET (DOMAIN log),
           NEW streak, NEW n, Records(log, streak, places, n)
    PROVE  Run(Append(log, e), places \cup {Len(log) + 1}) =
               IF places # {} /\ streak.of = e.call
               THEN Run(log, places) \cup {Len(log) + 1} ELSE {Len(log) + 1}
<1> DEFINE longer == Append(log, e)
           last == Len(log) + 1
<1>1. /\ \A i \in places : longer[i] = log[i] /\ i < last /\ i # last /\ ~ (last < i) /\ i \in Nat
      /\ longer[last] = e /\ last \in Nat /\ ~ (last < last)
  BY RunIsFinite
<1> HIDE DEF longer, last
<1>2. last \in Run(longer, places \cup {last})
  BY <1>1 DEF Run
<1>3. ASSUME NEW i \in places
      PROVE  i \in Run(longer, places \cup {last}) <=>
                 i \in Run(log, places) /\ log[i].call = e.call
  BY <1>1 DEF Run
<1>4. CASE places # {} /\ streak.of = e.call
  <2>1. \A i \in Run(log, places) : log[i].call = e.call
    BY <1>4 DEF Records
  <2> QED
    BY <1>2, <1>3, <1>4, <2>1 DEF Run, longer, last
<1>5. CASE ~ (places # {} /\ streak.of = e.call)
  <2>1. \A i \in Run(log, places) : log[i].call # e.call
    BY <1>5 DEF Records, Run
  <2>2. Run(longer, places \cup {last}) = {last}
    BY <1>2, <1>3, <2>1 DEF Run
  <2> QED
    BY <1>5, <2>2 DEF longer, last
<1> QED
  BY <1>4, <1>5

\* The warning stays where it is when a call without one is added.
LEMMA WarningStays ==
    ASSUME NEW log \in Seq(Outcome), NEW e \in Outcome, ~ e.warned,
           NEW run \in SUBSET (DOMAIN log), NEW n, WarnedAt(log, run, n)
    PROVE  WarnedAt(Append(log, e), run \cup {Len(log) + 1}, n)
<1> DEFINE longer == Append(log, e)
           last == Len(log) + 1
<1>1. /\ \A i \in run : longer[i] = log[i] /\ i < last /\ i \in Nat /\ ~ (last <= i)
      /\ longer[last] = e /\ last \in Nat
  OBVIOUS
<1> HIDE DEF longer, last
<1>2. PICK w \in run : /\ {i \in run : log[i].warned} = {w}
                       /\ Cardinality({i \in run : i <= w}) = n
  BY DEF WarnedAt
<1>3. {i \in run \cup {last} : longer[i].warned} = {w}
  BY <1>1, <1>2
<1>4. {i \in run \cup {last} : i <= w} = {i \in run : i <= w}
  BY <1>1, <1>2
<1> QED
  BY <1>2, <1>3, <1>4 DEF WarnedAt, longer, last

\* A call with the first warning.
LEMMA WarningComes ==
    ASSUME NEW log \in Seq(Outcome), NEW e \in Outcome, e.warned,
           NEW run \in SUBSET (DOMAIN log), \A i \in run : ~ log[i].warned
    PROVE  WarnedAt(Append(log, e), run \cup {Len(log) + 1}, Cardinality(run \cup {Len(log) + 1}))
<1> DEFINE longer == Append(log, e)
           last == Len(log) + 1
<1>1. /\ \A i \in run : longer[i] = log[i] /\ i <= last
      /\ longer[last] = e /\ last \in Nat /\ last <= last
  OBVIOUS
<1> HIDE DEF longer, last
<1>2. {i \in run \cup {last} : longer[i].warned} = {last}
  BY <1>1
<1>3. {i \in run \cup {last} : i <= last} = run \cup {last}
  BY <1>1
<1>4. WarnedAt(longer, run \cup {last}, Cardinality(run \cup {last}))
  BY <1>2, <1>3 DEF WarnedAt
<1> QED
  BY <1>4 DEF longer, last

\* One call more: the streak says what the longer run is, and where it breaks the run
\* has been warned of.
LEMMA StreakGrows ==
    ASSUME NEW log \in Seq(Outcome), NEW e \in Outcome, NEW places \in SUBSET (DOMAIN log),
           NEW streak, conf.threshold \in Nat \ {0},
           Records(log, streak, places, conf.threshold), streak.count < Limit
    PROVE  LET grown == Grown(streak, e.call)
               longer == Append(log, e)
               more == places \cup {Len(log) + 1} IN
           /\ ~ Breaks(grown) /\ (e.warned <=> Warns(grown)) =>
                 Records(longer, Warned(grown), more, conf.threshold) /\ Warned(grown).count < Limit
           /\ Breaks(grown) /\ ~ e.warned =>
                 /\ Cardinality(Run(longer, more)) = Limit
                 /\ WarnedAt(longer, Run(longer, more), conf.threshold)
<1> DEFINE grown == Grown(streak, e.call)
           longer == Append(log, e)
           last == Len(log) + 1
           more == places \cup {last}
           old == Run(log, places)
           new == Run(longer, more)
           n == conf.threshold
<1>1. /\ streak \in Streaks /\ e.call \in Tools \X Args /\ e.warned \in BOOLEAN
      /\ n \in Nat \ {0} /\ Limit = 2 * n /\ Limit \in Nat
  BY DEF Records, Outcome, Limit
<1>2. /\ IsFiniteSet(old) /\ Cardinality(old) \in Nat /\ old \subseteq DOMAIN log
      /\ last \notin old /\ more \subseteq DOMAIN longer /\ last \in more
  BY RunIsFinite
<1>3. \A i \in more : longer[i].call = IF i = last THEN e.call ELSE log[i].call
  BY RunIsFinite
<1>4. new = IF places # {} /\ streak.of = e.call THEN old \cup {last} ELSE {last}
  BY RunGrows
<1>5. /\ grown \in Streaks /\ Warned(grown) \in Streaks /\ grown.of = e.call
      /\ Warned(grown).of = grown.of /\ Warned(grown).count = grown.count
      /\ (Warned(grown).warned <=> grown.warned \/ Warns(grown)) /\ grown.count \in Nat
  <2>1. grown \in Streaks /\ grown.of = e.call
    BY <1>1 DEF Grown, Streaks
  <2>2. Warns(grown) \in BOOLEAN
    BY DEF Warns
  <2> QED
    BY <2>1, <2>2 DEF Warned, Streaks
<1>6. \A i \in new : longer[i].call = e.call
  <2>1. places # {} /\ streak.of = e.call => \A i \in old : log[i].call = e.call
    BY DEF Records
  <2>2. new \subseteq more /\ old \subseteq places
    BY DEF Run
  <2> QED
    BY <1>2, <1>3, <1>4, <2>1, <2>2
<1>7. /\ longer[last].warned = e.warned /\ \A i \in old : longer[i].warned = log[i].warned
      /\ new # {} /\ more # {}
  <2>1. longer[last].warned = e.warned
    OBVIOUS
  <2>2. \A i \in old : longer[i].warned = log[i].warned
    BY <1>2
  <2>3. last \in new
    BY <1>4
  <2> QED
    BY <2>1, <2>2, <2>3
<1>8. WarnedAt(log, old, n) /\ ~ e.warned => WarnedAt(longer, old \cup {last}, n)
  BY <1>2, WarningStays
<1>9. (\A i \in old : ~ log[i].warned) /\ e.warned =>
          WarnedAt(longer, old \cup {last}, Cardinality(old \cup {last}))
  BY <1>2, WarningComes
<1>10. e.warned => WarnedAt(longer, {last}, Cardinality({last}))
  <2>1. e.warned => WarnedAt(longer, {} \cup {last}, Cardinality({} \cup {last}))
    BY WarningComes
  <2>2. {} \cup {last} = {last}
    OBVIOUS
  <2> HIDE DEF longer, last
  <2> QED
    BY <2>1, <2>2
<1>11. new = Run(longer, more) /\ old = Run(log, places)
  OBVIOUS
<1> SUFFICES
        /\ ~ Breaks(grown) /\ (e.warned <=> Warns(grown)) =>
              Records(longer, Warned(grown), more, n) /\ Warned(grown).count < Limit
        /\ Breaks(grown) /\ ~ e.warned =>
              Cardinality(new) = Limit /\ WarnedAt(longer, new, n)
  OBVIOUS
<1> HIDE DEF grown, longer, last, more, old, new, n
\* What makes the streak the record of the longer run.
<1>12. ASSUME Warned(grown).count = Cardinality(new),
             grown.count < n => ~ Warned(grown).warned /\ \A i \in new : ~ longer[i].warned,
             grown.count >= n => Warned(grown).warned /\ WarnedAt(longer, new, n)
      PROVE  Records(longer, Warned(grown), more, n)
  BY <1>2, <1>5, <1>6, <1>7, <1>11, <1>12 DEF Records
\* A new run.
<1>13. CASE ~ (places # {} /\ streak.of = e.call)
  <2>1. new = {last} /\ Cardinality({last}) = 1
    BY <1>4, <1>13, FS_Singleton
  <2>2. grown.count = 1 /\ ~ grown.warned
    BY <1>1, <1>13 DEF Grown, Records, NoStreak, Streaks, grown, NoCall
  <2>3. Warns(grown) <=> n = 1
    BY <1>1, <2>2 DEF Warns, n
  <2>4. ~ Breaks(grown)
    BY <1>1, <2>2 DEF Breaks, n
  <2>5. ASSUME e.warned <=> Warns(grown)
        PROVE  Records(longer, Warned(grown), more, n)
    <3>1. grown.count < n => ~ Warned(grown).warned /\ \A i \in new : ~ longer[i].warned
      BY <1>1, <1>5, <1>7, <2>1, <2>2, <2>3, <2>5
    <3>2. grown.count >= n => Warned(grown).warned /\ WarnedAt(longer, new, n)
      BY <1>1, <1>5, <1>10, <2>1, <2>2, <2>3, <2>5
    <3> QED
      BY <1>5, <1>12, <2>1, <2>2, <3>1, <3>2
  <2> QED
    BY <1>1, <1>5, <2>2, <2>4, <2>5
\* A longer one.
<1>14. CASE places # {} /\ streak.of = e.call
  <2>1. new = old \cup {last} /\ Cardinality(new) = Cardinality(old) + 1
    BY <1>2, <1>4, <1>14, FS_AddElement
  <2>2. /\ grown.count = streak.count + 1 /\ grown.warned = streak.warned
        /\ streak.count \in Nat /\ streak.count = Cardinality(old)
    BY <1>1, <1>14, <1>11 DEF Grown, Records, Streaks, grown
  <2>3. /\ streak.count < n => ~ streak.warned /\ \A i \in old : ~ log[i].warned
        /\ streak.count >= n => streak.warned /\ WarnedAt(log, old, n)
    BY <1>14, <1>11 DEF Records, n
  <2>4. Breaks(grown) <=> grown.count >= Limit
    BY <1>1 DEF Breaks, n
  <2>5. Warns(grown) <=> streak.count + 1 >= n /\ ~ streak.warned
    BY <1>1, <2>2 DEF Warns, n
  <2>6. streak.count + 1 <= Limit
    BY <1>1, <2>2
  <2>7. CASE streak.count >= n /\ ~ e.warned
    <3>1. WarnedAt(longer, new, n)
      BY <1>8, <2>1, <2>3, <2>7
    <3>2. Records(longer, Warned(grown), more, n)
      BY <1>1, <1>5, <1>12, <2>1, <2>2, <2>3, <2>7, <3>1
    <3> QED
      BY <1>1, <1>5, <2>1, <2>2, <2>4, <2>6, <3>1, <3>2
  <2>8. CASE streak.count < n
    <3>1. ~ Breaks(grown) /\ grown.count < Limit
      BY <1>1, <2>2, <2>8, <2>4
    <3>2. Warns(grown) <=> streak.count + 1 = n
      BY <1>1, <2>2, <2>3, <2>8, <2>5
    <3>3. ASSUME e.warned <=> Warns(grown)
          PROVE  Records(longer, Warned(grown), more, n)
      <4>1. CASE streak.count + 1 = n
        <5>1. WarnedAt(longer, new, n)
          BY <1>9, <2>1, <2>2, <2>3, <2>8, <3>2, <3>3, <4>1
        <5>2. /\ grown.count = n /\ ~ (n < n)
              /\ Warned(grown).count = Cardinality(new) /\ Warned(grown).warned
          BY <1>1, <1>5, <2>1, <2>2, <3>2, <4>1
        <5> QED
          BY <1>12, <5>1, <5>2
      <4>2. CASE streak.count + 1 # n
        <5>1. ~ e.warned /\ grown.count < n /\ ~ Warned(grown).warned
          BY <1>1, <1>5, <2>2, <2>3, <2>8, <3>2, <3>3, <4>2
        <5>2. \A i \in new : ~ longer[i].warned
          BY <1>7, <2>1, <2>3, <2>8, <5>1
        <5>3. Warned(grown).count = Cardinality(new) /\ ~ (grown.count >= n)
          BY <1>1, <1>5, <2>1, <2>2, <5>1
        <5> QED
          BY <1>12, <5>1, <5>2, <5>3
      <4> QED
        BY <4>1, <4>2
    <3> QED
      BY <1>5, <3>1, <3>3
  <2>9. CASE streak.count >= n /\ e.warned
    <3>1. ~ Warns(grown)
      BY <2>3, <2>5, <2>9
    <3> QED
      BY <2>9, <3>1
  <2> QED
    BY <1>1, <2>2, <2>7, <2>8, <2>9
<1> QED
  BY <1>13, <1>14

\* Logs as the properties read them: the places of the calls of a tool that failed since
\* it last succeeded, and of the successes that count.
ErrorsIn(log, tool) ==
    {i \in DOMAIN log :
        /\ log[i].call[1] = tool
        /\ \A j \in DOMAIN log : j >= i /\ log[j].call[1] = tool => ~ log[j].ok}

SuccessesIn(log) == {i \in DOMAIN log : log[i].ok /\ log[i].call[1] # Send}

\* The streaks of a window are the records of its log, and none has broken.
Counts(log, w) ==
    /\ \A t \in Tools :
          /\ Records(log, w.errors[t], ErrorsIn(log, t), conf.threshold)
          /\ w.errors[t].count < Limit
    /\ Records(log, w.repeats, SuccessesIn(log), conf.threshold)
    /\ w.repeats.count < Limit

\* Which places of a log a call joins.
LEMMA PlacesGrow ==
    ASSUME NEW log \in Seq(Outcome), NEW e \in Outcome
    PROVE  LET longer == Append(log, e) IN
           /\ \A t : t # e.call[1] => ErrorsIn(longer, t) = ErrorsIn(log, t)
           /\ ~ e.ok => /\ ErrorsIn(longer, e.call[1]) =
                              ErrorsIn(log, e.call[1]) \cup {Len(log) + 1}
                        /\ SuccessesIn(longer) = SuccessesIn(log)
           /\ e.ok => /\ ErrorsIn(longer, e.call[1]) = {}
                      /\ SuccessesIn(longer) =
                            IF e.call[1] # Send THEN SuccessesIn(log) \cup {Len(log) + 1}
                            ELSE SuccessesIn(log)
<1> DEFINE longer == Append(log, e)
           last == Len(log) + 1
<1>1. /\ DOMAIN longer = DOMAIN log \cup {last} /\ last \notin DOMAIN log
      /\ longer[last] = e /\ \A i \in DOMAIN log : longer[i] = log[i]
      /\ last \in Nat /\ last >= last /\ \A i \in DOMAIN log : last >= i /\ ~ (i >= last)
  OBVIOUS
<1> SUFFICES
        /\ \A t : t # e.call[1] => ErrorsIn(longer, t) = ErrorsIn(log, t)
        /\ ~ e.ok => /\ ErrorsIn(longer, e.call[1]) = ErrorsIn(log, e.call[1]) \cup {last}
                     /\ SuccessesIn(longer) = SuccessesIn(log)
        /\ e.ok => /\ ErrorsIn(longer, e.call[1]) = {}
                   /\ SuccessesIn(longer) =
                         IF e.call[1] # Send THEN SuccessesIn(log) \cup {last}
                         ELSE SuccessesIn(log)
  OBVIOUS
<1> HIDE DEF longer, last
<1>2. ASSUME NEW t, t # e.call[1]
      PROVE  ErrorsIn(longer, t) = ErrorsIn(log, t)
  BY <1>1, <1>2 DEF ErrorsIn
<1>3. ASSUME ~ e.ok
      PROVE  ErrorsIn(longer, e.call[1]) = ErrorsIn(log, e.call[1]) \cup {last}
  BY <1>1, <1>3 DEF ErrorsIn
<1>4. ASSUME e.ok
      PROVE  ErrorsIn(longer, e.call[1]) = {}
  BY <1>1, <1>4 DEF ErrorsIn
<1>5. SuccessesIn(longer) =
          IF e.ok /\ e.call[1] # Send THEN SuccessesIn(log) \cup {last} ELSE SuccessesIn(log)
  BY <1>1 DEF SuccessesIn
<1> QED
  BY <1>2, <1>3, <1>4, <1>5

\* No places, no streak.
LEMMA NoRecord ==
    ASSUME NEW log \in Seq(Outcome), conf.threshold \in Nat \ {0}
    PROVE  /\ Records(log, NoStreak, {}, conf.threshold)
           /\ NoStreak.count < Limit
           /\ Cardinality(Run(log, {})) < Limit
<1>1. NoStreak \in Streaks /\ NoStreak.count = 0 /\ 0 < Limit
  BY DEF NoStreak, Streaks, Limit
<1>2. Run(log, {}) = {} /\ Cardinality({}) = 0
  BY FS_EmptySet DEF Run
<1> QED
  BY <1>1, <1>2 DEF Records

\* An error that does not break is counted, and so is a success.
LEMMA ErrorCounts ==
    ASSUME NEW log \in Seq(Outcome), NEW w \in Windows, NEW e \in Outcome, ~ e.ok,
           conf.threshold \in Nat \ {0}, Counts(log, w),
           ~ Breaks(Grown(w.errors[e.call[1]], e.call)),
           e.warned <=> Warns(Grown(w.errors[e.call[1]], e.call))
    PROVE  Counts(Append(log, e),
                  [w EXCEPT !.errors[e.call[1]] = Warned(Grown(w.errors[e.call[1]], e.call))])
<1> DEFINE longer == Append(log, e)
           tool == e.call[1]
           grown == Grown(w.errors[tool], e.call)
           next == [w EXCEPT !.errors[tool] = Warned(grown)]
<1>1. tool \in Tools
  BY DEF Outcome
<1>2. /\ next.errors[tool] = Warned(grown) /\ next.repeats = w.repeats
      /\ \A t \in Tools \ {tool} : next.errors[t] = w.errors[t]
  BY <1>1 DEF Windows
<1>3. \A t \in Tools : ErrorsIn(log, t) \in SUBSET (DOMAIN log)
  BY DEF ErrorsIn
<1>4. SuccessesIn(log) \in SUBSET (DOMAIN log)
  BY DEF SuccessesIn
<1>5. /\ Records(longer, Warned(grown), ErrorsIn(longer, tool), conf.threshold)
      /\ Warned(grown).count < Limit
  <2>1. /\ Records(log, w.errors[tool], ErrorsIn(log, tool), conf.threshold)
        /\ w.errors[tool].count < Limit /\ ErrorsIn(log, tool) \in SUBSET (DOMAIN log)
    BY <1>1, <1>3 DEF Counts
  <2>2. /\ Records(longer, Warned(grown), ErrorsIn(log, tool) \cup {Len(log) + 1}, conf.threshold)
        /\ Warned(grown).count < Limit
    BY <2>1, StreakGrows
  <2>3. ErrorsIn(longer, tool) = ErrorsIn(log, tool) \cup {Len(log) + 1}
    BY PlacesGrow
  <2> QED
    BY <2>2, <2>3
<1>6. ASSUME NEW t \in Tools \ {tool}
      PROVE  /\ Records(longer, w.errors[t], ErrorsIn(longer, t), conf.threshold)
             /\ w.errors[t].count < Limit
  BY <1>3, <1>6, PlacesGrow, RunStays DEF Counts
<1>7. Records(longer, w.repeats, SuccessesIn(longer), conf.threshold) /\ w.repeats.count < Limit
  BY <1>4, PlacesGrow, RunStays DEF Counts
<1> SUFFICES Counts(longer, next)
  OBVIOUS
<1> HIDE DEF longer, next, grown, tool
<1> QED
  BY <1>1, <1>2, <1>5, <1>6, <1>7 DEF Counts

\* Either way the places a success leaves to the errors are those they were, but for its
\* own tool, whose errors it ends.
LEMMA SuccessEndsErrors ==
    ASSUME NEW log \in Seq(Outcome), NEW w \in Windows, NEW e \in Outcome, e.ok,
           conf.threshold \in Nat \ {0}, Counts(log, w), NEW next \in Windows,
           next.errors = [w.errors EXCEPT ![e.call[1]] = NoStreak],
           Records(Append(log, e), next.repeats, SuccessesIn(Append(log, e)), conf.threshold),
           next.repeats.count < Limit
    PROVE  Counts(Append(log, e), next)
<1> DEFINE longer == Append(log, e)
           tool == e.call[1]
<1>1. tool \in Tools /\ longer \in Seq(Outcome)
  BY DEF Outcome
<1>2. next.errors[tool] = NoStreak /\ \A t \in Tools \ {tool} : next.errors[t] = w.errors[t]
  BY <1>1 DEF Windows
<1>3. \A t \in Tools : ErrorsIn(log, t) \in SUBSET (DOMAIN log)
  BY DEF ErrorsIn
<1>4. /\ Records(longer, NoStreak, ErrorsIn(longer, tool), conf.threshold)
      /\ NoStreak.count < Limit
  <2>1. ErrorsIn(longer, tool) = {}
    BY PlacesGrow
  <2> QED
    BY <1>1, <2>1, NoRecord
<1>5. ASSUME NEW t \in Tools \ {tool}
      PROVE  /\ Records(longer, w.errors[t], ErrorsIn(longer, t), conf.threshold)
             /\ w.errors[t].count < Limit
  BY <1>3, <1>5, PlacesGrow, RunStays DEF Counts
<1> HIDE DEF longer, tool
<1> QED
  BY <1>1, <1>2, <1>4, <1>5 DEF Counts, longer

\* A success that does not break is counted; one that does not count leaves the run of
\* successes as it is.
LEMMA SuccessCounts ==
    ASSUME NEW log \in Seq(Outcome), NEW w \in Windows, NEW e \in Outcome, e.ok,
           conf.threshold \in Nat \ {0}, Counts(log, w), NEW next \in Windows,
           next.errors = [w.errors EXCEPT ![e.call[1]] = NoStreak],
           \/ /\ e.call[1] # Send /\ ~ Breaks(Grown(w.repeats, e.call))
              /\ e.warned <=> Warns(Grown(w.repeats, e.call))
              /\ next.repeats = Warned(Grown(w.repeats, e.call))
           \/ e.call[1] = Send /\ next.repeats = w.repeats
    PROVE  Counts(Append(log, e), next)
<1>1. /\ Records(log, w.repeats, SuccessesIn(log), conf.threshold)
      /\ w.repeats.count < Limit /\ SuccessesIn(log) \in SUBSET (DOMAIN log)
  BY DEF Counts, SuccessesIn
<1>2. CASE e.call[1] # Send
  <2>1. /\ Records(Append(log, e), Warned(Grown(w.repeats, e.call)),
                   SuccessesIn(log) \cup {Len(log) + 1}, conf.threshold)
        /\ Warned(Grown(w.repeats, e.call)).count < Limit
    BY <1>1, <1>2, StreakGrows
  <2>2. SuccessesIn(Append(log, e)) = SuccessesIn(log) \cup {Len(log) + 1}
    BY <1>2, PlacesGrow
  <2>3. next.repeats = Warned(Grown(w.repeats, e.call))
    BY <1>2
  <2>4. /\ Records(Append(log, e), next.repeats, SuccessesIn(Append(log, e)), conf.threshold)
        /\ next.repeats.count < Limit
    BY <2>1, <2>2, <2>3
  <2> QED
    BY <2>4, SuccessEndsErrors
<1>3. CASE e.call[1] = Send
  <2>1. Records(Append(log, e), w.repeats, SuccessesIn(log), conf.threshold)
    BY <1>1, RunStays
  <2>2. SuccessesIn(Append(log, e)) = SuccessesIn(log)
    BY <1>3, PlacesGrow
  <2>3. /\ Records(Append(log, e), next.repeats, SuccessesIn(Append(log, e)), conf.threshold)
        /\ next.repeats.count < Limit
    BY <1>1, <1>3, <2>1, <2>2
  <2> QED
    BY <2>3, SuccessEndsErrors
<1> QED
  BY <1>2, <1>3

-----------------------------------------------------------------------------
(* What the properties say of a log.                                       *)

Exact(log, broke) ==
    /\ broke = "errors" <=> \E t \in Tools : Cardinality(Run(log, ErrorsIn(log, t))) >= Limit
    /\ broke = "repeats" <=> Cardinality(Run(log, SuccessesIn(log))) >= Limit

Foretold(log, places) ==
    /\ Cardinality(Run(log, places)) = Limit
    /\ WarnedAt(log, Run(log, places), conf.threshold)

LEMMA PropertiesOfLogs ==
    /\ BreakersExact <=> (conf.threshold > 0 => Exact(hist.log, hist.broke))
    /\ WarnedFirst <=>
          (hist.broke # "none" =>
              Foretold(hist.log,
                       IF hist.broke = "repeats" THEN SuccessesIn(hist.log)
                       ELSE ErrorsIn(hist.log, hist.log[Len(hist.log)].call[1])))
<1>1. /\ Successes = SuccessesIn(hist.log)
      /\ \A t : ErrorsSince(t) = ErrorsIn(hist.log, t)
      /\ \A places : Streak(places) = Run(hist.log, places)
  BY DEF Successes, SuccessesIn, ErrorsSince, ErrorsIn, Streak, Run
<1>2. BreakersExact <=> (conf.threshold > 0 => Exact(hist.log, hist.broke))
  BY <1>1 DEF BreakersExact, Exact
<1>3. Stopped = Run(hist.log, IF hist.broke = "repeats" THEN SuccessesIn(hist.log)
                              ELSE ErrorsIn(hist.log, hist.log[Len(hist.log)].call[1]))
  BY <1>1 DEF Stopped
<1> QED
  BY <1>2, <1>3 DEF WarnedFirst, Foretold, WarnedAt

\* While every streak is below the limit so is every run.
LEMMA CountsAreLow ==
    ASSUME NEW log \in Seq(Outcome), NEW w \in Windows, conf.threshold \in Nat \ {0},
           Counts(log, w)
    PROVE  /\ \A t \in Tools : ~ (Cardinality(Run(log, ErrorsIn(log, t))) >= Limit)
           /\ ~ (Cardinality(Run(log, SuccessesIn(log))) >= Limit)
<1>1. ASSUME NEW places \in SUBSET (DOMAIN log), NEW streak, streak.count < Limit,
             Records(log, streak, places, conf.threshold)
      PROVE  ~ (Cardinality(Run(log, places)) >= Limit)
  <2>1. Cardinality(Run(log, places)) \in Nat /\ Limit \in Nat
    BY RunIsFinite DEF Limit
  <2>2. CASE places = {}
    BY <2>1, <2>2, NoRecord
  <2>3. CASE places # {}
    BY <1>1, <2>1, <2>3 DEF Records
  <2> QED
    BY <2>2, <2>3
<1> QED
  BY <1>1 DEF Counts, ErrorsIn, SuccessesIn

\* An error that breaks.
LEMMA ErrorBreaks ==
    ASSUME NEW log \in Seq(Outcome), NEW w \in Windows, NEW e \in Outcome, ~ e.ok, ~ e.warned,
           conf.threshold \in Nat \ {0}, Counts(log, w),
           Breaks(Grown(w.errors[e.call[1]], e.call))
    PROVE  /\ Exact(Append(log, e), "errors")
           /\ Foretold(Append(log, e), ErrorsIn(Append(log, e), e.call[1]))
<1>1. /\ e.call[1] \in Tools /\ Limit \in Nat /\ "errors" # "repeats"
      /\ ErrorsIn(log, e.call[1]) \in SUBSET (DOMAIN log)
      /\ SuccessesIn(log) \in SUBSET (DOMAIN log)
  BY DEF Outcome, Limit, ErrorsIn, SuccessesIn
<1>2. /\ Records(log, w.errors[e.call[1]], ErrorsIn(log, e.call[1]), conf.threshold)
      /\ w.errors[e.call[1]].count < Limit
  BY <1>1 DEF Counts
<1>3. ErrorsIn(Append(log, e), e.call[1]) = ErrorsIn(log, e.call[1]) \cup {Len(log) + 1}
  BY PlacesGrow
<1>4. Foretold(Append(log, e), ErrorsIn(Append(log, e), e.call[1]))
  BY <1>1, <1>2, <1>3, StreakGrows DEF Foretold
<1>5. SuccessesIn(Append(log, e)) = SuccessesIn(log)
  BY PlacesGrow
<1>6. Run(Append(log, e), SuccessesIn(log)) = Run(log, SuccessesIn(log))
  BY <1>1, RunStays
<1>7. ~ (Cardinality(Run(Append(log, e), SuccessesIn(Append(log, e)))) >= Limit)
  BY <1>5, <1>6, CountsAreLow
<1>8. Cardinality(Run(Append(log, e), ErrorsIn(Append(log, e), e.call[1]))) >= Limit
  BY <1>1, <1>4 DEF Foretold
<1> QED
  BY <1>1, <1>4, <1>7, <1>8 DEF Exact

\* A success that breaks.
LEMMA SuccessBreaks ==
    ASSUME NEW log \in Seq(Outcome), NEW w \in Windows, NEW e \in Outcome, e.ok, ~ e.warned,
           e.call[1] # Send, conf.threshold \in Nat \ {0}, Counts(log, w),
           Breaks(Grown(w.repeats, e.call))
    PROVE  /\ Exact(Append(log, e), "repeats")
           /\ Foretold(Append(log, e), SuccessesIn(Append(log, e)))
<1>1. /\ e.call[1] \in Tools /\ Limit \in Nat /\ Limit > 0 /\ "errors" # "repeats"
      /\ SuccessesIn(log) \in SUBSET (DOMAIN log) /\ Append(log, e) \in Seq(Outcome)
  BY DEF Outcome, Limit, SuccessesIn
<1>2. /\ Records(log, w.repeats, SuccessesIn(log), conf.threshold) /\ w.repeats.count < Limit
  BY <1>1 DEF Counts
<1>3. SuccessesIn(Append(log, e)) = SuccessesIn(log) \cup {Len(log) + 1}
  BY PlacesGrow
<1>4. Foretold(Append(log, e), SuccessesIn(Append(log, e)))
  BY <1>1, <1>2, <1>3, StreakGrows DEF Foretold
<1>5. ASSUME NEW t \in Tools
      PROVE  ~ (Cardinality(Run(Append(log, e), ErrorsIn(Append(log, e), t))) >= Limit)
  <2>1. CASE t = e.call[1]
    <3>1. ErrorsIn(Append(log, e), t) = {}
      BY <2>1, PlacesGrow
    <3>2. Run(Append(log, e), {}) = {} /\ Cardinality({}) = 0
      BY FS_EmptySet DEF Run
    <3>3. Cardinality(Run(Append(log, e), ErrorsIn(Append(log, e), t))) = 0
      BY <3>1, <3>2
    <3> QED
      BY <1>1, <3>3
  <2>2. CASE t # e.call[1]
    <3>1. ErrorsIn(Append(log, e), t) = ErrorsIn(log, t)
      BY <2>2, PlacesGrow
    <3>2. Run(Append(log, e), ErrorsIn(log, t)) = Run(log, ErrorsIn(log, t))
      BY RunStays DEF ErrorsIn
    <3> QED
      BY <3>1, <3>2, CountsAreLow
  <2> QED
    BY <2>1, <2>2
<1>6. Cardinality(Run(Append(log, e), SuccessesIn(Append(log, e)))) >= Limit
  BY <1>1, <1>4 DEF Foretold
<1> QED
  BY <1>1, <1>4, <1>5, <1>6 DEF Exact

-----------------------------------------------------------------------------
(* The breakers.                                                           *)

\* What the window's streaks say of its log; a breaker that has stopped a window did it
\* rightly, and nothing is logged after it until the next window.
Counting ==
    /\ conf.threshold = 0 => hist.log = <<>> /\ hist.broke = "none"
    /\ conf.threshold > 0 /\ hist.broke = "none" => Counts(hist.log, win)
    /\ conf.threshold > 0 /\ hist.broke # "none" =>
          /\ pc \notin {"top", "final", "batch", "calls"}
          /\ BreakersExact /\ WarnedFirst

\* Steps that log nothing and leave the streaks alone.
LEMMA CountingStays ==
    ASSUME Counting, conf' = conf,
           hist'.log = hist.log, hist'.broke = hist.broke,
           win'.errors = win.errors, win'.repeats = win.repeats,
           hist.broke = "none" \/ pc' \notin {"top", "final", "batch", "calls"}
    PROVE  Counting'
<1>1. conf.threshold > 0 /\ hist.broke = "none" => Counts(hist.log, win)'
  BY DEF Counting, Counts, Records, Limit
<1>2. conf.threshold > 0 /\ hist.broke # "none" => BreakersExact' /\ WarnedFirst'
  <2>1. Streak(Successes)' = Streak(Successes)
    BY DEF Streak, Successes
  <2>2. ASSUME NEW t
        PROVE  Streak(ErrorsSince(t))' = Streak(ErrorsSince(t))
    BY DEF Streak, ErrorsSince
  <2>3. Limit' = Limit
    BY DEF Limit
  <2>4. BreakersExact' <=> BreakersExact
    BY <2>1, <2>2, <2>3 DEF BreakersExact
  <2>5. Stopped' = Stopped
    BY DEF Stopped, Streak, Successes, ErrorsSince
  <2>6. WarnedFirst' <=> WarnedFirst
    BY <2>3, <2>5 DEF WarnedFirst
  <2> QED
    BY <2>4, <2>6 DEF Counting
<1> QED
  BY <1>1, <1>2 DEF Counting

\* A window starts with nothing logged and no streaks.
LEMMA CountingStarts ==
    ASSUME NEW leaf, NEW schema, NEW forsaken, NEW c \in Configs
    PROVE  LET h == [NoHistory EXCEPT !.forsaken = forsaken]
               w == NewWindow(leaf, schema) IN
           /\ h.log = <<>> /\ h.broke = "none"
           /\ conf = c /\ c.threshold > 0 => Counts(h.log, w)
<1> DEFINE h == [NoHistory EXCEPT !.forsaken = forsaken]
           w == NewWindow(leaf, schema)
<1>1. h.log = <<>> /\ h.broke = "none"
  BY DEF NoHistory
<1>2. /\ \A t \in Tools : w.errors[t] = NoStreak
      /\ w.repeats = NoStreak
  BY DEF NewWindow
<1>3. /\ <<>> \in Seq(Outcome)
      /\ \A t : ErrorsIn(<<>>, t) = {}
      /\ SuccessesIn(<<>>) = {}
  BY DEF ErrorsIn, SuccessesIn
<1>4. ASSUME conf = c, c.threshold > 0
      PROVE  Counts(h.log, w)
  <2>1. conf.threshold \in Nat \ {0}
    BY <1>4, ReactLoopAssumption DEF Config
  <2> HIDE DEF h, w
  <2> QED
    BY <1>1, <1>2, <1>3, <2>1, NoRecord DEF Counts
<1> QED
  BY <1>1, <1>4

\* What a window's end does with the streaks and the log: no more than it is told.
LEMMA WindowEndsLogs ==
    ASSUME NEW r, NEW t, NEW h \in Histories(asked), WindowEnds(r, t, h)
    PROVE  /\ hist'.log = h.log /\ hist'.broke = h.broke
           /\ win' = win /\ conf' = conf
           /\ pc' \notin {"top", "final", "batch", "calls"}
<1>1. [h EXCEPT !.forsaken = open].log = h.log /\ [h EXCEPT !.forsaken = open].broke = h.broke
  BY DEF Histories
<1> QED
  BY <1>1 DEF WindowEnds, envVars

LEMMA WindowEndsCounting ==
    ASSUME IInv, Counting, NEW r, NEW t, WindowEnds(r, t, hist)
    PROVE  Counting'
<1>1. hist \in Histories(asked)
  BY DEF IInv, TypeOK
<1> QED
  BY <1>1, WindowEndsLogs, CountingStays

\* While the window works no breaker has stopped it.
LEMMA NotBroken ==
    ASSUME IInv, Counting, pc \in {"top", "final", "batch", "calls"}
    PROVE  hist.broke = "none" /\ conf.threshold \in Nat
BY ConfTypes DEF Counting, IInv, TypeOK

\* A pause, and a loop that goes round, leave the log and the streaks alone.
LEMMA PausesCounting ==
    ASSUME IInv, Counting, NEW kind, NEW from, Pauses(kind, from),
           hist'.log = hist.log, hist'.broke = hist.broke
    PROVE  Counting'
BY CountingStays DEF Pauses, envVars

LEMMA GoesRoundCounting ==
    ASSUME IInv, Counting, pc = "final", NEW w \in Windows, GoesRound(w),
           w.errors = win.errors, w.repeats = win.repeats
    PROVE  Counting'
BY NotBroken, CountingStays DEF GoesRound, envVars

\* The model's turn and the checks on its final response.
LEMMA ResponseCounting ==
    ASSUME IInv, Counting,
           \/ BudgetStops \/ BeforeTurn \/ TurnAnswers \/ TurnCalls \/ TurnFails
           \/ FinalEscalates \/ FinalNudged \/ BeforeCompletion \/ StopBlocked
           \/ SchemaFails \/ Succeeds
    PROVE  Counting'
<1>1. hist \in Histories(asked) /\ win \in Windows
  BY DEF IInv, TypeOK
<1>2. CASE BudgetStops \/ TurnFails \/ Succeeds
  BY <1>2, WindowEndsCounting DEF BudgetStops, TurnFails, Succeeds
<1>3. CASE BeforeTurn
  BY <1>3, WindowEndsCounting, PausesCounting DEF BeforeTurn
<1>4. CASE TurnAnswers
  <2>1. hist'.log = hist.log /\ hist'.broke = hist.broke
    BY <1>1, <1>4 DEF TurnAnswers, Histories
  <2>2. hist.broke = "none"
    BY <1>4, NotBroken DEF TurnAnswers
  <2> QED
    BY <1>4, <2>1, <2>2, CountingStays DEF TurnAnswers, envVars
<1>5. CASE TurnCalls
  <2>1. PICK tools \in Batches :
            /\ pc = "top"
            /\ win' = [win EXCEPT !.refund = @ + Refund(tools), !.called = @ \/ tools # <<>>]
            /\ hist' = [hist EXCEPT !.productive =
                           IF tools # <<>> /\ Range(tools) = {Send} THEN @ ELSE @ + 1]
            /\ conf' = conf
    BY <1>5 DEF TurnCalls, envVars
  <2>2. hist'.log = hist.log /\ hist'.broke = hist.broke
    BY <1>1, <2>1 DEF Histories
  <2>3. win'.errors = win.errors /\ win'.repeats = win.repeats
    BY <1>1, <2>1 DEF Windows
  <2>4. hist.broke = "none"
    BY <2>1, NotBroken
  <2> QED
    BY <2>1, <2>2, <2>3, <2>4, CountingStays
<1>6. CASE FinalEscalates \/ FinalNudged \/ StopBlocked \/ BeforeCompletion \/ SchemaFails
  <2>1. /\ [win EXCEPT !.escalated = TRUE] \in Windows
        /\ [win EXCEPT !.nudges = @ + 1] \in Windows
        /\ [win EXCEPT !.blocks = @ + 1] \in Windows
        /\ [win EXCEPT !.retries = @ + 1] \in Windows
    <3>1. [win EXCEPT !.escalated = TRUE] \in Windows
      BY <1>1 DEF Windows
    <3>2. [win EXCEPT !.nudges = @ + 1] \in Windows
      BY <1>1 DEF Windows
    <3>3. [win EXCEPT !.blocks = @ + 1] \in Windows
      BY <1>1 DEF Windows
    <3>4. [win EXCEPT !.retries = @ + 1] \in Windows
      BY <1>1 DEF Windows
    <3> QED
      BY <3>1, <3>2, <3>3, <3>4
  <2>2. ASSUME NEW w \in {win, [win EXCEPT !.escalated = TRUE], [win EXCEPT !.nudges = @ + 1],
                          [win EXCEPT !.blocks = @ + 1], [win EXCEPT !.retries = @ + 1]}
        PROVE  w \in Windows /\ w.errors = win.errors /\ w.repeats = win.repeats
    <3>1. w \in Windows
      BY <1>1, <2>1
    <3>2. w.errors = win.errors
      BY <1>1 DEF Windows
    <3>3. w.repeats = win.repeats
      BY <1>1 DEF Windows
    <3> QED
      BY <3>1, <3>2, <3>3
  <2>3. pc = "final"
    BY <1>6 DEF FinalEscalates, FinalNudged, StopBlocked, BeforeCompletion, SchemaFails,
                    Completing
  <2>4. ASSUME NEW w \in {win, [win EXCEPT !.escalated = TRUE], [win EXCEPT !.nudges = @ + 1],
                          [win EXCEPT !.blocks = @ + 1], [win EXCEPT !.retries = @ + 1]},
               GoesRound(w)
        PROVE  Counting'
    BY <2>2, <2>3, <2>4, GoesRoundCounting
  <2>5. CASE FinalEscalates \/ FinalNudged \/ StopBlocked
    BY <2>4, <2>5 DEF FinalEscalates, FinalNudged, StopBlocked
  <2>6. CASE BeforeCompletion
    BY <2>4, <2>6, WindowEndsCounting, PausesCounting DEF BeforeCompletion
  <2>7. CASE SchemaFails
    BY <2>4, <2>7, WindowEndsCounting DEF SchemaFails
  <2> QED
    BY <1>6, <2>5, <2>6, <2>7
<1> QED
  BY <1>2, <1>3, <1>4, <1>5, <1>6

\* The ends of a batch, and the calls the breakers never see.
LEMMA UnseenCounting ==
    ASSUME IInv, Counting,
           BeforeTool \/ CallRefused \/ CallIsFatal \/ CallHandsOver \/ CallAsks \/ AfterTool
    PROVE  Counting'
<1>1. hist \in Histories(asked)
  BY DEF IInv, TypeOK
<1>2. hist.broke = "none"
  BY NotBroken DEF BeforeTool, CallRefused, CallIsFatal, CallHandsOver, CallAsks, AfterTool, Working
<1>3. CASE BeforeTool
  BY <1>2, <1>3, WindowEndsCounting, PausesCounting, CountingStays DEF BeforeTool, envVars
<1>4. CASE AfterTool
  BY <1>2, <1>4, WindowEndsCounting, CountingStays DEF AfterTool, envVars
<1>5. CASE CallRefused
  BY <1>2, <1>5, CountingStays DEF CallRefused, Answered, envVars
<1>6. CASE CallIsFatal
  BY <1>6, WindowEndsCounting DEF CallIsFatal
<1>7. CASE CallHandsOver
  <2>1. hist'.log = hist.log /\ hist'.broke = hist.broke
    BY <1>1, <1>7 DEF CallHandsOver, Histories
  <2> QED
    BY <1>7, <2>1, PausesCounting DEF CallHandsOver
<1>8. CASE CallAsks
  BY <1>8, PausesCounting DEF CallAsks
<1> QED
  BY <1>3, <1>4, <1>5, <1>6, <1>7, <1>8

\* The rounds, the pauses for budget and the answers: a new window, or no window at all.
LEMMA OutsideCounting ==
    ASSUME IInv, Counting, Drive \/ Resume
    PROVE  Counting'
<1>1. conf \in Configs
  BY DEF IInv, TypeOK
<1>2. ASSUME NEW leaf, NEW schema, NEW forsaken,
             hist' = [NoHistory EXCEPT !.forsaken = forsaken],
             win' = NewWindow(leaf, schema), conf' = conf
      PROVE  Counting'
  <2>1. hist'.log = <<>> /\ hist'.broke = "none"
    BY <1>1, <1>2, CountingStarts
  <2>2. conf.threshold > 0 => Counts(hist'.log, win')
    BY <1>1, <1>2, CountingStarts
  <2>3. conf.threshold > 0 => Counts(hist.log, win)'
    BY <1>2, <2>2 DEF Counts, Records, Limit
  <2> QED
    BY <1>2, <2>1, <2>3 DEF Counting
<1>3. ASSUME NEW granted, NextRound(granted)
      PROVE  Counting'
  BY <1>2, <1>3 DEF NextRound
<1>4. ASSUME NEW answered, LeafOnly(answered)
      PROVE  Counting'
  BY <1>2, <1>4 DEF LeafOnly
<1>5. CASE RoundContinues \/ RoundGranted \/ ResumeWithBudget
  BY <1>3, <1>5 DEF RoundContinues, RoundGranted, ResumeWithBudget
<1>6. CASE RoundSurfaces \/ RoundAborts \/ ResumeEndsBudget \/ ResumeHalts
  BY <1>6, CountingStays DEF RoundSurfaces, RoundAborts, ResumeEndsBudget, ResumeHalts,
                              Ends, envVars
<1>7. CASE ResumeAnswersAll \/ ResumeModified \/ ResumeWithText
  BY <1>4, <1>7 DEF ResumeAnswersAll, ResumeModified, ResumeWithText
<1> QED
  BY <1>5, <1>6, <1>7 DEF Drive, Resume

\* What a call is logged as.
LEMMA LoggedCalls ==
    ASSUME TypeOK, Tool \in Tools, conf.threshold \in Nat \ {0}, NEW arg \in Args,
           NEW ok \in BOOLEAN, NEW warned \in BOOLEAN
    PROVE  LET e == [call |-> <<Tool, arg>>, ok |-> ok, warned |-> warned] IN
           /\ e \in Outcome
           /\ Logged(arg, ok, warned).log = Append(hist.log, e)
           /\ Logged(arg, ok, warned).broke = hist.broke
<1> DEFINE e == [call |-> <<Tool, arg>>, ok |-> ok, warned |-> warned]
<1>1. e \in Outcome
  BY DEF Outcome
<1>2. /\ Logged(arg, ok, warned) = [hist EXCEPT !.log = Append(@, e)]
      /\ hist \in Histories(asked)
  BY DEF Logged, TypeOK
<1> QED
  BY <1>1, <1>2 DEF Histories

\* And what is left of it by the breaker that stops the window.
LEMMA BrokenLogs ==
    ASSUME NEW n, NEW h \in Histories(n), NEW b \in {"errors", "repeats"}
    PROVE  [h EXCEPT !.broke = b].log = h.log /\ [h EXCEPT !.broke = b].broke = b
BY DEF Histories

\* A leaf whose breakers are on.
LEMMA BreakersOn ==
    ASSUME Counting, hist.broke = "none", conf.threshold \in Nat, conf.threshold # 0
    PROVE  /\ conf.threshold \in Nat \ {0} /\ conf.threshold > 0
           /\ Counts(hist.log, win)
BY DEF Counting

\* The last place of a log that has grown.
LEMMA LastAppended ==
    ASSUME NEW log \in Seq(Outcome), NEW e \in Outcome
    PROVE  Append(log, e)[Len(Append(log, e))] = e
OBVIOUS

\* A breaker stops the window: the properties hold of the longer log.
LEMMA BreakCounting ==
    ASSUME conf' = conf, conf.threshold \in Nat \ {0},
           pc' \notin {"top", "final", "batch", "calls"},
           hist'.broke \in {"errors", "repeats"},
           Exact(hist'.log, hist'.broke),
           Foretold(hist'.log,
                    IF hist'.broke = "repeats" THEN SuccessesIn(hist'.log)
                    ELSE ErrorsIn(hist'.log, hist'.log[Len(hist'.log)].call[1]))
    PROVE  Counting'
<1>1. Limit' = Limit
  BY DEF Limit
<1>2. /\ Successes' = SuccessesIn(hist'.log)
      /\ \A t : ErrorsIn(hist'.log, t) =
                {i \in DOMAIN hist'.log :
                    /\ hist'.log[i].call[1] = t
                    /\ \A j \in DOMAIN hist'.log :
                          j >= i /\ hist'.log[j].call[1] = t => ~ hist'.log[j].ok}
  BY DEF Successes, SuccessesIn, ErrorsIn
<1>3. Streak(Successes)' = Run(hist'.log, SuccessesIn(hist'.log))
  BY <1>2 DEF Streak, Run
<1>4. ASSUME NEW t
      PROVE  Streak(ErrorsSince(t))' = Run(hist'.log, ErrorsIn(hist'.log, t))
  BY DEF Streak, Run, ErrorsSince, ErrorsIn
<1>5. BreakersExact'
  BY <1>1, <1>3, <1>4 DEF BreakersExact, Exact
<1>6. Stopped' = Run(hist'.log,
                     IF hist'.broke = "repeats" THEN SuccessesIn(hist'.log)
                     ELSE ErrorsIn(hist'.log, hist'.log[Len(hist'.log)].call[1]))
  BY DEF Stopped, Streak, Run, ErrorsSince, ErrorsIn, Successes, SuccessesIn
<1>7. WarnedFirst'
  BY <1>1, <1>6 DEF WarnedFirst, Foretold, WarnedAt
<1> QED
  BY <1>5, <1>7 DEF Counting

\* A window that goes on with its longer log counted.
LEMMA GoesOnCounting ==
    ASSUME conf' = conf, conf.threshold \in Nat \ {0}, hist'.broke = "none",
           Counts(hist'.log, win')
    PROVE  Counting'
<1>1. Counts(hist.log, win)'
  BY DEF Counts, Records, Limit
<1> QED
  BY <1>1 DEF Counting

\* With breakers off nothing is logged.
LEMMA OffCounting ==
    ASSUME IInv, Counting, conf.threshold = 0, conf' = conf, hist' = hist
    PROVE  Counting'
BY DEF Counting

LEMMA CallErrsCounting == IInv /\ Counting /\ CallErrs => Counting'
<1> SUFFICES ASSUME IInv, Counting, NEW arg \in Args, Working,
                    \/ /\ Breaks(Grown(win.errors[Tool], <<Tool, arg>>))
                       /\ WindowEnds("tool error loop", turns,
                              [Logged(arg, FALSE, FALSE) EXCEPT !.broke = "errors"])
                    \/ /\ ~ Breaks(Grown(win.errors[Tool], <<Tool, arg>>))
                       /\ Answered
                       /\ win' = [win EXCEPT !.errors[Tool] =
                                      Warned(Grown(win.errors[Tool], <<Tool, arg>>))]
                       /\ hist' = Logged(arg, FALSE,
                                         Warns(Grown(win.errors[Tool], <<Tool, arg>>)))
             PROVE  Counting'
  BY DEF CallErrs
<1> DEFINE grown == Grown(win.errors[Tool], <<Tool, arg>>)
           e(warned) == [call |-> <<Tool, arg>>, ok |-> FALSE, warned |-> warned]
<1>1. /\ TypeOK /\ Tool \in Tools /\ win \in Windows /\ hist \in Histories(asked)
      /\ hist.broke = "none" /\ conf.threshold \in Nat /\ hist.log \in Seq(Outcome)
  BY WorkingFacts, NotBroken DEF Histories
<1>2. Warns(grown) \in BOOLEAN /\ "errors" \in {"none", "errors", "repeats"}
  BY DEF Warns
<1>3. CASE conf.threshold = 0
  <2>1. ~ Breaks(grown) /\ hist' = hist
    BY <1>3 DEF Breaks, Logged
  <2> QED
    BY <1>3, <2>1, OffCounting DEF Answered, envVars
<1>4. CASE conf.threshold # 0
  <2>1. conf.threshold \in Nat \ {0} /\ Counts(hist.log, win)
    BY <1>1, <1>4, BreakersOn
  <2>2. \A warned \in BOOLEAN :
           /\ e(warned) \in Outcome /\ ~ e(warned).ok /\ e(warned).warned = warned
           /\ e(warned).call = <<Tool, arg>> /\ e(warned).call[1] = Tool
    BY <1>1, <2>1, LoggedCalls
  <2>3. CASE Breaks(grown) /\ WindowEnds("tool error loop", turns,
                                  [Logged(arg, FALSE, FALSE) EXCEPT !.broke = "errors"])
    <3>1. [Logged(arg, FALSE, FALSE) EXCEPT !.broke = "errors"] \in Histories(asked)
      BY <1>1, LoggedTypes
    <3>2. /\ hist'.log = Append(hist.log, e(FALSE)) /\ hist'.broke = "errors"
          /\ conf' = conf /\ pc' \notin {"top", "final", "batch", "calls"}
      <4>1. /\ [Logged(arg, FALSE, FALSE) EXCEPT !.broke = "errors"].log =
                    Append(hist.log, e(FALSE))
            /\ [Logged(arg, FALSE, FALSE) EXCEPT !.broke = "errors"].broke = "errors"
        <5>1. /\ Logged(arg, FALSE, FALSE).log = Append(hist.log, e(FALSE))
              /\ Logged(arg, FALSE, FALSE) \in Histories(asked)
          BY <1>1, <2>1, LoggedCalls, LoggedTypes
        <5> HIDE DEF e
        <5> QED
          BY <5>1, BrokenLogs
      <4> HIDE DEF e
      <4> QED
        BY <2>3, <3>1, <4>1, WindowEndsLogs
    <3>3. /\ Exact(Append(hist.log, e(FALSE)), "errors")
          /\ Foretold(Append(hist.log, e(FALSE)), ErrorsIn(Append(hist.log, e(FALSE)), Tool))
      <4> HIDE DEF e
      <4>1. e(FALSE) \in Outcome /\ ~ e(FALSE).ok /\ ~ e(FALSE).warned
            /\ e(FALSE).call = <<Tool, arg>> /\ e(FALSE).call[1] = Tool
        BY <2>2
      <4> QED
        BY <1>1, <2>1, <2>3, <4>1, ErrorBreaks
    <3>4. hist'.log[Len(hist'.log)].call[1] = Tool
      <4> HIDE DEF e
      <4>1. e(FALSE) \in Outcome /\ e(FALSE).call[1] = Tool
        BY <2>2
      <4>2. hist'.log[Len(hist'.log)] = e(FALSE)
        BY <1>1, <3>2, <4>1, LastAppended
      <4> QED
        BY <4>1, <4>2
    <3> HIDE DEF e
    <3> QED
      BY <2>1, <3>2, <3>3, <3>4, BreakCounting
  <2>4. CASE /\ ~ Breaks(grown) /\ Answered
             /\ win' = [win EXCEPT !.errors[Tool] = Warned(grown)]
             /\ hist' = Logged(arg, FALSE, Warns(grown))
    <3> DEFINE f == e(Warns(grown))
    <3>1. /\ hist'.log = Append(hist.log, f) /\ hist'.broke = "none" /\ conf' = conf
      <4>1. /\ Logged(arg, FALSE, Warns(grown)).log = Append(hist.log, f)
            /\ Logged(arg, FALSE, Warns(grown)).broke = hist.broke
        BY <1>1, <1>2, <2>1, LoggedCalls
      <4>2. conf' = conf
        BY <2>4 DEF Answered, envVars
      <4> HIDE DEF f, e, grown
      <4> QED
        BY <1>1, <2>4, <4>1, <4>2
    <3>2. f \in Outcome /\ ~ f.ok /\ f.warned = Warns(grown) /\ f.call = <<Tool, arg>>
          /\ f.call[1] = Tool
      <4> HIDE DEF e, grown
      <4> QED
        BY <1>2, <2>2 DEF f
    <3> HIDE DEF f, e
    <3>3. Counts(Append(hist.log, f), win')
      BY <1>1, <2>1, <2>4, <3>2, ErrorCounts
    <3> QED
      BY <2>1, <3>1, <3>3, GoesOnCounting
  <2> QED
    BY <2>3, <2>4
<1> QED
  BY <1>1, <1>3, <1>4

LEMMA CallSucceedsCounting == IInv /\ Counting /\ CallSucceeds => Counting'
<1> SUFFICES ASSUME IInv, Counting, NEW arg \in Args, Working,
                    \/ /\ conf.threshold > 0 /\ Tool # Send
                       /\ Breaks(Grown(win.repeats, <<Tool, arg>>))
                       /\ WindowEnds("repeated call", turns,
                              [Logged(arg, TRUE, FALSE) EXCEPT !.broke = "repeats"])
                    \/ /\ conf.threshold > 0 /\ Tool # Send
                       /\ ~ Breaks(Grown(win.repeats, <<Tool, arg>>))
                       /\ Answered
                       /\ win' = [win EXCEPT !.errors[Tool] = NoStreak,
                                     !.repeats = Warned(Grown(win.repeats, <<Tool, arg>>))]
                       /\ hist' = Logged(arg, TRUE, Warns(Grown(win.repeats, <<Tool, arg>>)))
                    \/ /\ ~ (conf.threshold > 0 /\ Tool # Send)
                       /\ Answered
                       /\ win' = [win EXCEPT !.errors[Tool] = NoStreak]
                       /\ hist' = Logged(arg, TRUE, FALSE)
             PROVE  Counting'
  BY DEF CallSucceeds
<1> DEFINE grown == Grown(win.repeats, <<Tool, arg>>)
           e(warned) == [call |-> <<Tool, arg>>, ok |-> TRUE, warned |-> warned]
<1>1. /\ TypeOK /\ Tool \in Tools /\ win \in Windows /\ hist \in Histories(asked)
      /\ hist.broke = "none" /\ conf.threshold \in Nat /\ hist.log \in Seq(Outcome)
  BY WorkingFacts, NotBroken DEF Histories
<1>2. Warns(grown) \in BOOLEAN /\ "repeats" \in {"none", "errors", "repeats"}
  BY DEF Warns
<1>3. CASE conf.threshold = 0
  <2>1. ~ (conf.threshold > 0) /\ Logged(arg, TRUE, FALSE) = hist
    BY <1>3 DEF Logged
  <2> QED
    BY <1>3, <2>1, OffCounting DEF Answered, envVars
<1>4. CASE conf.threshold # 0
  <2>1. conf.threshold \in Nat \ {0} /\ conf.threshold > 0 /\ Counts(hist.log, win)
    BY <1>1, <1>4, BreakersOn
  <2>2. \A warned \in BOOLEAN :
           /\ e(warned) \in Outcome /\ e(warned).ok /\ e(warned).warned = warned
           /\ e(warned).call = <<Tool, arg>> /\ e(warned).call[1] = Tool
    BY <1>1, <2>1, LoggedCalls
  <2>3. CASE /\ Tool # Send /\ Breaks(grown)
             /\ WindowEnds("repeated call", turns,
                           [Logged(arg, TRUE, FALSE) EXCEPT !.broke = "repeats"])
    <3>1. [Logged(arg, TRUE, FALSE) EXCEPT !.broke = "repeats"] \in Histories(asked)
      BY <1>1, LoggedTypes
    <3>2. /\ [Logged(arg, TRUE, FALSE) EXCEPT !.broke = "repeats"].log =
                 Append(hist.log, e(FALSE))
          /\ [Logged(arg, TRUE, FALSE) EXCEPT !.broke = "repeats"].broke = "repeats"
      <4>1. /\ Logged(arg, TRUE, FALSE).log = Append(hist.log, e(FALSE))
            /\ Logged(arg, TRUE, FALSE) \in Histories(asked)
        BY <1>1, <2>1, LoggedCalls, LoggedTypes
      <4> HIDE DEF e
      <4> QED
        BY <4>1, BrokenLogs
    <3>3. /\ e(FALSE) \in Outcome /\ e(FALSE).ok /\ ~ e(FALSE).warned
          /\ e(FALSE).call = <<Tool, arg>> /\ e(FALSE).call[1] = Tool
      BY <2>2
    <3> HIDE DEF e
    <3>4. /\ hist'.log = Append(hist.log, e(FALSE)) /\ hist'.broke = "repeats"
          /\ conf' = conf /\ pc' \notin {"top", "final", "batch", "calls"}
      BY <2>3, <3>1, <3>2, WindowEndsLogs
    <3>5. /\ Exact(Append(hist.log, e(FALSE)), "repeats")
          /\ Foretold(Append(hist.log, e(FALSE)), SuccessesIn(Append(hist.log, e(FALSE))))
      BY <1>1, <2>1, <2>3, <3>3, SuccessBreaks
    <3> QED
      BY <2>1, <3>4, <3>5, BreakCounting
  <2>4. CASE /\ Tool # Send /\ ~ Breaks(grown) /\ Answered
             /\ win' = [win EXCEPT !.errors[Tool] = NoStreak, !.repeats = Warned(grown)]
             /\ hist' = Logged(arg, TRUE, Warns(grown))
    <3> DEFINE f == e(Warns(grown))
    <3>1. /\ hist'.log = Append(hist.log, f) /\ hist'.broke = "none" /\ conf' = conf
      <4>1. /\ Logged(arg, TRUE, Warns(grown)).log = Append(hist.log, f)
            /\ Logged(arg, TRUE, Warns(grown)).broke = hist.broke
        BY <1>1, <1>2, <2>1, LoggedCalls
      <4>2. conf' = conf
        BY <2>4 DEF Answered, envVars
      <4> HIDE DEF f, e, grown
      <4> QED
        BY <1>1, <2>4, <4>1, <4>2
    <3>2. /\ f \in Outcome /\ f.ok /\ f.warned = Warns(grown)
          /\ f.call = <<Tool, arg>> /\ f.call[1] = Tool
      BY <1>2, <2>2
    <3>3. /\ win'.errors = [win.errors EXCEPT ![Tool] = NoStreak]
          /\ win'.repeats = Warned(grown)
      BY <1>1, <2>4 DEF Windows
    <3>4. win' \in Windows
      <4>1. grown \in Streaks /\ Warned(grown) \in Streaks /\ NoStreak \in Streaks
        <5>1. win.repeats \in Streaks /\ <<Tool, arg>> \in Tools \X Args
          BY <1>1 DEF Windows
        <5>2. NoStreak \in Streaks
          BY DEF NoStreak, Streaks
        <5> QED
          BY <5>1, <5>2, StreakTypes
      <4>2. [win.errors EXCEPT ![Tool] = NoStreak] \in [Tools -> Streaks]
        BY <1>1, <4>1 DEF Windows
      <4>3. win' = [win EXCEPT !.errors = [win.errors EXCEPT ![Tool] = NoStreak],
                               !.repeats = Warned(grown)]
        BY <2>4
      <4> HIDE DEF grown
      <4> QED
        BY <1>1, <4>1, <4>2, <4>3 DEF Windows
    <3> HIDE DEF f, e
    <3>5. /\ f.call[1] # Send /\ ~ Breaks(Grown(win.repeats, f.call))
          /\ f.warned <=> Warns(Grown(win.repeats, f.call))
          /\ win'.repeats = Warned(Grown(win.repeats, f.call))
      BY <2>4, <3>2, <3>3
    <3>6. win'.errors = [win.errors EXCEPT ![f.call[1]] = NoStreak]
      BY <3>2, <3>3
    <3>7. Counts(Append(hist.log, f), win')
      BY <1>1, <2>1, <3>2, <3>4, <3>5, <3>6, SuccessCounts
    <3> QED
      BY <2>1, <3>1, <3>7, GoesOnCounting
  <2>5. CASE /\ Tool = Send /\ Answered
             /\ win' = [win EXCEPT !.errors[Tool] = NoStreak]
             /\ hist' = Logged(arg, TRUE, FALSE)
    <3> DEFINE f == e(FALSE)
    <3>1. /\ hist'.log = Append(hist.log, f) /\ hist'.broke = "none" /\ conf' = conf
      BY <1>1, <1>2, <2>1, <2>5, LoggedCalls DEF Answered, envVars
    <3>2. /\ f \in Outcome /\ f.ok
          /\ f.call = <<Tool, arg>> /\ f.call[1] = Tool
      BY <1>2, <2>2
    <3>3. /\ win'.errors = [win.errors EXCEPT ![Tool] = NoStreak]
          /\ win'.repeats = win.repeats
      BY <1>1, <2>5 DEF Windows
    <3>4. win' \in Windows
      <4>1. NoStreak \in Streaks
        BY DEF NoStreak, Streaks
      <4>2. [win.errors EXCEPT ![Tool] = NoStreak] \in [Tools -> Streaks]
        BY <1>1, <4>1 DEF Windows
      <4>3. win' = [win EXCEPT !.errors = [win.errors EXCEPT ![Tool] = NoStreak]]
        BY <2>5
      <4> QED
        BY <1>1, <4>2, <4>3 DEF Windows
    <3> HIDE DEF f, e
    <3>5. f.call[1] = Send /\ win'.errors = [win.errors EXCEPT ![f.call[1]] = NoStreak]
      BY <2>5, <3>2, <3>3
    <3>6. Counts(Append(hist.log, f), win')
      BY <1>1, <2>1, <3>2, <3>3, <3>4, <3>5, SuccessCounts
    <3> QED
      BY <2>1, <3>1, <3>6, GoesOnCounting
  <2> QED
    BY <2>1, <2>3, <2>4, <2>5
<1> QED
  BY <1>1, <1>3, <1>4

\* Every step keeps the count.
LEMMA StepCounting == IInv /\ Counting /\ [Next]_vars => Counting'
<1> SUFFICES ASSUME IInv, Counting, [Next]_vars PROVE Counting'
  OBVIOUS
<1>1. CASE Window
  BY <1>1, ResponseCounting, UnseenCounting, CallErrsCounting, CallSucceedsCounting DEF Window
<1>2. CASE Drive \/ Resume
  BY <1>2, OutsideCounting
<1>3. CASE UNCHANGED vars
  <2>1. conf' = conf /\ hist' = hist /\ win' = win /\ pc' = pc
    BY <1>3 DEF vars, envVars
  <2> QED
    BY <2>1, CountingStays DEF Counting
<1> QED
  BY <1>1, <1>2, <1>3 DEF Next

LEMMA CountingHolds == Spec => []Counting
<1>1. Init => Counting
  <2> SUFFICES ASSUME Init PROVE Counting
    OBVIOUS
  <2>1. /\ hist.log = <<>> /\ hist.broke = "none"
        /\ win = NewWindow(TRUE, conf.schema) /\ conf \in Configs
    BY DEF Init, NoHistory
  <2>2. conf.threshold > 0 => Counts(hist.log, win)
    BY <2>1, CountingStarts
  <2> QED
    BY <2>1, <2>2 DEF Counting
<1>2. IInv /\ Counting /\ [Next]_vars => Counting'
  BY StepCounting
<1> QED
  BY <1>1, <1>2, InvHolds, PTL DEF Spec

\* A breaker stops the window when, and only when, its last 2N outcomes are the same call
\* failing, or the same call succeeding, whatever calls, refusals, messages, pauses and
\* rounds come between (react.rs:1540-1723).
THEOREM BreakersAreExact == Spec => []BreakersExact
<1>1. IInv /\ Counting => BreakersExact
  <2> SUFFICES ASSUME IInv, Counting, conf.threshold > 0, hist.broke = "none"
               PROVE  Exact(hist.log, hist.broke)
    BY PropertiesOfLogs DEF Counting
  <2>1. /\ hist.log \in Seq(Outcome) /\ win \in Windows /\ conf.threshold \in Nat \ {0}
        /\ Counts(hist.log, win)
    BY ConfTypes DEF IInv, TypeOK, Histories, Counting
  <2> QED
    BY <2>1, CountsAreLow DEF Exact
<1> QED
  BY <1>1, InvHolds, CountingHolds, PTL

\* Nobody is stopped unwarned: the run of 2N calls a breaker stops a window for holds one
\* corrective message, and it came with the N-th (react.rs:1540-1723).
THEOREM WarningComesFirst == Spec => []WarnedFirst
<1>1. IInv /\ Counting => WarnedFirst
  <2> SUFFICES ASSUME IInv, Counting PROVE WarnedFirst
    OBVIOUS
  <2>1. conf.threshold = 0 \/ conf.threshold > 0
    <3>1. conf.threshold \in Nat
      BY ConfTypes DEF IInv, TypeOK
    <3> QED
      BY <3>1
  <2> QED
    BY <2>1 DEF Counting, WarnedFirst
<1> QED
  BY <1>1, InvHolds, CountingHolds, PTL

=============================================================================
