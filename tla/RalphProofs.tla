----------------------------- MODULE RalphProofs -----------------------------
(***************************************************************************)
(* What a SelfVerifying strategy accepts and spends, and what the windows  *)
(* of a Ralph around it keep to, for every configuration and every bound.  *)
(***************************************************************************)
EXTENDS Ralph, TLAPS

\* Past the start there is a verifier.
Verified == pc \notin {"start", "misconfigured"} => conf.verifiers # NoVerifier

\* The phases of an iteration are about the work as it is.
Current ==
    /\ pc \in {"evaluate", "verify"} => built.work = work
    /\ pc = "verify" => review.work = work

\* Every verdict there has been is in the build conversation, where a leaf keeps it, or
\* was when a build was started.
Told ==
    /\ session \subseteq 0..(verdicts - 1) /\ told \subseteq 0..(verdicts - 1)
    /\ 0..(verdicts - 1) \subseteq told \cup session
    /\ conf.inner = "leaf" => session = 0..(verdicts - 1)

\* A refused phase is over the allowance by its turns, and each continue and each grant
\* answers one.
Overruns ==
    scope.continues + scope.grants
      + (IF pc \in {"refused", "asking", "exhausted", "skipped"} THEN 1 ELSE 0)

Spent ==
    pc \notin {"start", "misconfigured"} /\ scope.allowance # NoCap =>
        total <= scope.continues * scope.allowance + scope.taken + Overruns * TurnsPerPhase

SInv == TypeOK /\ Verified /\ Current /\ AcceptedIsReviewed /\ Told /\ Spent

\* The window is one there may be.
InBounds ==
    /\ stage # "bare" => resets \in Nat
    /\ stage \in {"opens", "runs", "checks"} => window < resets \/ window = 0

\* Between the two reads of the checkpoint, progress is what was read or has been taken back.
HasRead == stage = "checks" => progress = "done" \/ withdrawn

IInv == SInv /\ WindowsAreBounded /\ InBounds /\ HasRead

-----------------------------------------------------------------------------
(* Scopes and sums.                                                        *)

\* A scope is a record of numbers.
LEMMA ScopeType ==
    ASSUME NEW s \in Scopes
    PROVE  /\ s.allowance \in Caps /\ s.taken \in Nat /\ s.continues \in Nat /\ s.grants \in Nat
  BY DEF Scopes

\* Operations on scopes give scopes.
LEMMA NewScopeType ==
    ASSUME NEW cap \in Caps, NEW used \in Nat
    PROVE  /\ NewScope(cap, used) \in Scopes
           /\ NewScope(cap, used).allowance = cap /\ NewScope(cap, used).taken = 0
           /\ NewScope(cap, used).continues = used /\ NewScope(cap, used).grants = 0
  BY DEF NewScope, Scopes

LEMMA ChargedType ==
    ASSUME NEW s \in Scopes, NEW n \in Nat
    PROVE  /\ Charged(s, n) \in Scopes
           /\ Charged(s, n).allowance = s.allowance /\ Charged(s, n).taken = s.taken + n
           /\ Charged(s, n).continues = s.continues /\ Charged(s, n).grants = s.grants
  BY DEF Charged, Scopes

LEMMA ContinuedType ==
    ASSUME NEW s \in Scopes
    PROVE  /\ Continued(s) \in Scopes
           /\ Continued(s).allowance = s.allowance /\ Continued(s).taken = 0
           /\ Continued(s).continues = s.continues + 1 /\ Continued(s).grants = s.grants
<1> DEFINE r == [s EXCEPT !.continues = @ + 1]
<1>1. /\ r \in Scopes /\ r.allowance = s.allowance /\ r.continues = s.continues + 1
      /\ r.grants = s.grants
  BY DEF Scopes
<1>2. Continued(s) = [r EXCEPT !.taken = 0]
  BY DEF Continued
<1> HIDE DEF r
<1> QED
  BY <1>1, <1>2 DEF Scopes

LEMMA AutoGrantedType ==
    ASSUME NEW s \in Scopes, NEW n \in Nat
    PROVE  /\ AutoGranted(s, n) \in Scopes
           /\ AutoGranted(s, n).taken = s.taken
           /\ AutoGranted(s, n).continues = s.continues /\ AutoGranted(s, n).grants = s.grants + 1
           /\ s.allowance = NoCap => AutoGranted(s, n).allowance = NoCap
           /\ s.allowance # NoCap => /\ AutoGranted(s, n).allowance \in Nat
                                     /\ AutoGranted(s, n).allowance >= s.allowance
<1>1. GrantPolicy(s.allowance, s.taken + n) \in Caps
  BY NoCapAssumption DEF Scopes, Caps, GrantPolicy, AtLeast
<1>2. /\ s.allowance = NoCap => GrantPolicy(s.allowance, s.taken + n) = NoCap
      /\ s.allowance # NoCap => /\ GrantPolicy(s.allowance, s.taken + n) \in Nat
                                /\ GrantPolicy(s.allowance, s.taken + n) >= s.allowance
  BY NoCapAssumption DEF Scopes, Caps, GrantPolicy, AtLeast
<1>3. /\ AutoGranted(s, n) \in Scopes
      /\ AutoGranted(s, n).taken = s.taken /\ AutoGranted(s, n).continues = s.continues
      /\ AutoGranted(s, n).grants = s.grants + 1
      /\ AutoGranted(s, n).allowance = GrantPolicy(s.allowance, s.taken + n)
  <2> DEFINE r == [s EXCEPT !.grants = @ + 1]
  <2>1. /\ r \in Scopes /\ r.taken = s.taken /\ r.continues = s.continues
        /\ r.grants = s.grants + 1
    BY DEF Scopes
  <2>2. AutoGranted(s, n) = [r EXCEPT !.allowance = GrantPolicy(s.allowance, s.taken + n)]
    BY DEF AutoGranted
  <2> HIDE DEF r
  <2> QED
    BY <1>1, <2>1, <2>2 DEF Scopes
<1> QED
  BY <1>2, <1>3

\* A product of naturals is one.
LEMMA ProductType ==
    ASSUME NEW a \in Nat, NEW b \in Nat
    PROVE  a * b \in Nat
  OBVIOUS

\* A product grows with its factors.
LEMMA Products ==
    ASSUME NEW a \in Nat, NEW b \in Nat, NEW c \in Nat, a <= b
    PROVE  a * c \in Nat /\ c * a <= c * b /\ a * c <= b * c /\ (a + 1) * c = a * c + c
  OBVIOUS

\* The allowances, the overruns and what is under way bound the total.
LEMMA SpentHolds == SInv => BudgetHolds
<1> SUFFICES ASSUME SInv, pc \notin {"start", "misconfigured"}, scope.allowance # NoCap
             PROVE  total <= (scope.continues + 1) * scope.allowance
                               + (scope.continues + scope.grants + 1) * TurnsPerPhase
  BY DEF BudgetHolds
<1> DEFINE a == scope.allowance
           c == scope.continues
           g == scope.grants
           t == TurnsPerPhase
<1>1. /\ a \in Nat /\ c \in Nat /\ g \in Nat /\ t \in Nat /\ total \in Nat
      /\ scope.taken \in Nat /\ scope.taken <= a
  BY SelfVerifyAssumption DEF SInv, TypeOK, Scopes, Caps, Within
<1>2. Overruns \in Nat /\ Overruns <= c + g + 1
  BY <1>1 DEF Overruns
<1>3. total <= c * a + scope.taken + Overruns * t
  BY DEF SInv, Spent
<1>4. Overruns * t <= (c + g + 1) * t
  BY <1>1, <1>2, Products
<1>5. (c + 1) * a = c * a + a
  BY <1>1, Products
<1>6. c * a \in Nat /\ Overruns * t \in Nat /\ (c + g + 1) * t \in Nat
  BY <1>1, <1>2
<1> HIDE DEF a, c, g, t
<1>7. total <= (c + 1) * a + (c + g + 1) * t
  BY <1>1, <1>3, <1>4, <1>5, <1>6
<1> QED
  BY <1>7 DEF a, c, g, t

-----------------------------------------------------------------------------
(* The strategy.                                                           *)

LEMMA InitInv == Init => SInv
<1> SUFFICES ASSUME Init PROVE SInv
  OBVIOUS
<1>1. NewScope(NoCap, 0) \in Scopes /\ NewScope(NoCap, 0).allowance = NoCap
  BY NewScopeType DEF Caps
<1>2. TypeOK
  BY <1>1, SelfVerifyAssumption DEF Init, TypeOK, Config, Endings, NotBuilt, NotReviewed, NotTested, Within
<1> QED
  BY <1>2 DEF Init, SInv, Verified, Current, AcceptedIsReviewed, Told, Spent

LEMMA EntersInv ==
    ASSUME SInv, Enters
    PROVE  SInv'
<1>1. TypeOK /\ Told
  BY DEF SInv
<1>2. /\ pc' \in {"build", "unverified"} /\ conf.verifiers # NoVerifier
      /\ iteration' = 0 /\ total' = 0 /\ scope' = NewScope(max, scope.continues)
      /\ built' = NotBuilt /\ review' = NotReviewed /\ suite' = NotTested
      /\ UNCHANGED <<conf, max, turns, given, work, session, verdicts, told, runs>>
  BY DEF Enters, Loops
<1>3. /\ scope' \in Scopes /\ scope'.taken = 0 /\ scope'.grants = 0
      /\ scope'.allowance = max /\ scope'.continues = scope.continues /\ scope.continues \in Nat
      /\ max \in Caps
  BY <1>1, <1>2, NewScopeType, ScopeType DEF TypeOK
<1>4. TypeOK'
  BY <1>1, <1>2, <1>3 DEF TypeOK, Ends, Endings, NotBuilt, NotReviewed, NotTested, Within, Caps
<1>5. Verified' /\ Current' /\ AcceptedIsReviewed' /\ Told'
  BY <1>1, <1>2 DEF Verified, Current, AcceptedIsReviewed, Told
<1>6. Spent'
  <2> SUFFICES ASSUME scope'.allowance # NoCap
               PROVE  total' <= scope'.continues * scope'.allowance + scope'.taken
                                  + Overruns' * TurnsPerPhase
    BY DEF Spent
  <2>1. scope'.allowance \in Nat /\ scope'.continues \in Nat /\ TurnsPerPhase \in Nat
    BY <1>3, SelfVerifyAssumption DEF Caps
  <2>2. Overruns' \in Nat
    BY <1>3, <2>1 DEF Overruns
  <2>3. scope'.continues * scope'.allowance \in Nat /\ Overruns' * TurnsPerPhase \in Nat
    BY <2>1, <2>2, ProductType
  <2> QED
    BY <1>2, <1>3, <2>3
<1> QED
  BY <1>4, <1>5, <1>6 DEF SInv

LEMMA MisconfiguredInv ==
    ASSUME SInv, Misconfigured
    PROVE  SInv'
  BY DEF SInv, Misconfigured, TypeOK, Ends, Verified, Current, AcceptedIsReviewed, Told, Spent,
         reports, carried

\* A phase that is charged stays within the sum, whether its charge fits or not.
LEMMA ChargesSpent ==
    ASSUME SInv, pc \in {"build", "evaluate"}, NEW n \in 0..TurnsPerPhase,
           NEW next \in {"evaluate", "verify"}, Charges(n, next)
    PROVE  /\ scope' \in Scopes /\ Within(scope'.taken, scope'.allowance) /\ total' \in Nat
           /\ pc' \in {next, "refused"} /\ Spent'
<1> DEFINE a == scope.allowance
           c == scope.continues
           g == scope.grants
           t == TurnsPerPhase
<1>1. /\ TypeOK /\ scope \in Scopes /\ a \in Caps /\ c \in Nat /\ g \in Nat /\ t \in Nat
      /\ total \in Nat /\ scope.taken \in Nat /\ n \in Nat /\ n <= t /\ Within(scope.taken, a)
  BY SelfVerifyAssumption, ScopeType DEF SInv, TypeOK
<1>2. total' = total + n /\ total' \in Nat
  BY <1>1 DEF Charges
<1>3. CASE Fits(scope, n)
  <2>1. /\ pc' = next /\ scope' \in Scopes /\ scope'.allowance = a /\ scope'.taken = scope.taken + n
        /\ scope'.continues = c /\ scope'.grants = g
    BY <1>1, <1>3, ChargedType DEF Charges
  <2>2. Within(scope'.taken, scope'.allowance)
    BY <1>3, <2>1 DEF Fits
  <2>3. Overruns' = Overruns /\ Overruns \in Nat
    BY <1>1, <2>1 DEF Overruns
  <2>4. Spent'
    <3> SUFFICES ASSUME a # NoCap
                 PROVE  total + n <= c * a + (scope.taken + n) + Overruns * t
      BY <1>2, <2>1, <2>3 DEF Spent
    <3>1. total <= c * a + scope.taken + Overruns * t
      BY DEF SInv, Spent
    <3>2. c * a \in Nat /\ Overruns * t \in Nat
      BY <1>1, <2>3 DEF Caps
    <3> QED
      BY <1>1, <3>1, <3>2
  <2> QED
    BY <1>2, <2>1, <2>2, <2>4
<1>4. CASE ~ Fits(scope, n)
  <2>1. pc' = "refused" /\ scope' = scope
    BY <1>4 DEF Charges
  <2>2. Overruns' = Overruns + 1 /\ Overruns \in Nat
    BY <1>1, <2>1 DEF Overruns
  <2>3. Spent'
    <3> SUFFICES ASSUME a # NoCap
                 PROVE  total + n <= c * a + scope.taken + (Overruns + 1) * t
      BY <1>2, <2>1, <2>2 DEF Spent
    <3>1. total <= c * a + scope.taken + Overruns * t
      BY DEF SInv, Spent
    <3>2. c * a \in Nat /\ Overruns * t \in Nat /\ (Overruns + 1) * t = Overruns * t + t
      BY <1>1, <2>2, Products DEF Caps
    <3> QED
      BY <1>1, <3>1, <3>2
  <2> QED
    BY <1>1, <1>2, <2>1, <2>3
<1> QED
  BY <1>3, <1>4

LEMMA LeafTurnsType ==
    ASSUME NEW from \in Nat, NEW n \in LeafTurns(from)
    PROVE  n \in Nat /\ n - from \in 0..TurnsPerPhase
  BY SelfVerifyAssumption DEF LeafTurns

\* A build may lose what it was started with, and nothing else.
LEMMA BuildTells ==
    ASSUME TypeOK, Told, session' \in AfterBuild, told' = told \cup session,
           UNCHANGED <<conf, verdicts>>
    PROVE  Told' /\ session' \subseteq 0..verdicts /\ told' \subseteq 0..verdicts
<1>1. session' \subseteq session /\ (conf.inner = "leaf" => session' = session)
  BY DEF AfterBuild
<1>2. Told'
  BY <1>1 DEF Told
<1>3. session \subseteq 0..verdicts /\ told \subseteq 0..verdicts
  BY DEF TypeOK
<1> QED
  BY <1>1, <1>2, <1>3

LEMMA BuildEndsInv ==
    ASSUME SInv, BuildEnds
    PROVE  SInv'
<1>1. TypeOK /\ Told /\ Verified
  BY DEF SInv
<1>2. PICK status \in {"success", "failure"}, n \in LeafTurns(turns) :
         /\ pc = "build" /\ work' = work + 1 /\ given' = turns /\ turns' = n
         /\ built' = [status |-> status, work |-> work']
         /\ session' \in AfterBuild /\ told' = told \cup session
         /\ Charges(n - turns, "evaluate")
         /\ UNCHANGED <<conf, max, iteration, review, suite, verdicts, runs>>
  BY DEF BuildEnds, Builds
<1>3. turns \in Nat /\ n \in Nat /\ n - turns \in 0..TurnsPerPhase /\ work \in Nat /\ work' \in Nat
  BY <1>1, <1>2, LeafTurnsType DEF TypeOK
<1>4. /\ scope' \in Scopes /\ Within(scope'.taken, scope'.allowance) /\ total' \in Nat
      /\ pc' \in {"evaluate", "refused"} /\ Spent'
  BY <1>2, <1>3, ChargesSpent
<1>5. Told' /\ session' \subseteq 0..verdicts /\ told' \subseteq 0..verdicts
  BY <1>1, <1>2, BuildTells
<1>6. TypeOK'
  BY <1>1, <1>2, <1>3, <1>4, <1>5 DEF TypeOK, Endings
<1>7. Verified' /\ Current' /\ AcceptedIsReviewed'
  BY <1>1, <1>2, <1>4 DEF Verified, Current, AcceptedIsReviewed
<1> QED
  BY <1>4, <1>5, <1>6, <1>7 DEF SInv

LEMMA BuildStopsInv ==
    ASSUME SInv, BuildStops
    PROVE  SInv'
<1>1. TypeOK /\ Told /\ Verified /\ Spent
  BY DEF SInv
<1>2. /\ pc = "build" /\ pc' \in {"exhausted", "paused", "escalated"} /\ work' = work + 1
      /\ given' = turns /\ (turns' = turns \/ turns' \in LeafTurns(turns))
      /\ UNCHANGED <<conf, max, iteration, scope, built, review, suite, verdicts, total, runs>>
      /\ session' \in AfterBuild /\ told' = told \cup session
  BY DEF BuildStops, Builds, reports
<1>3. turns' \in Nat /\ work' \in Nat /\ 0..work \subseteq 0..work'
  BY <1>1, <1>2, LeafTurnsType DEF TypeOK
<1>4. Told' /\ session' \subseteq 0..verdicts /\ told' \subseteq 0..verdicts
  BY <1>1, <1>2, BuildTells
<1>5. TypeOK'
  BY <1>1, <1>2, <1>3, <1>4 DEF TypeOK, Ends
<1>6. Verified' /\ Current' /\ AcceptedIsReviewed'
  BY <1>1, <1>2 DEF Verified, Current, AcceptedIsReviewed
<1>7. Spent'
  <2> SUFFICES ASSUME scope.allowance # NoCap
               PROVE  total <= scope.continues * scope.allowance + scope.taken
                                 + Overruns' * TurnsPerPhase
    BY <1>2 DEF Spent
  <2>1. /\ scope.allowance \in Nat /\ scope.continues \in Nat /\ scope.grants \in Nat
        /\ scope.taken \in Nat /\ TurnsPerPhase \in Nat /\ total \in Nat
    BY <1>1, ScopeType, SelfVerifyAssumption DEF TypeOK, Caps
  <2>2. Overruns \in Nat /\ Overruns' \in Nat /\ Overruns <= Overruns'
    BY <1>2, <2>1 DEF Overruns
  <2>3. Overruns * TurnsPerPhase <= Overruns' * TurnsPerPhase
    BY <2>1, <2>2, Products
  <2>4. /\ scope.continues * scope.allowance \in Nat /\ Overruns * TurnsPerPhase \in Nat
        /\ Overruns' * TurnsPerPhase \in Nat
    BY <2>1, <2>2, ProductType
  <2>5. total <= scope.continues * scope.allowance + scope.taken + Overruns * TurnsPerPhase
    BY <1>1, <1>2 DEF Spent
  <2> QED
    BY <2>1, <2>3, <2>4, <2>5
<1> QED
  BY <1>5, <1>6, <1>7, <1>4 DEF SInv

LEMMA EvaluatesInv ==
    ASSUME SInv, Evaluates
    PROVE  SInv'
<1>1. TypeOK /\ Told /\ Verified /\ Current
  BY DEF SInv
<1>2. PICK status \in {"success", "failure", "paused"}, passes \in BOOLEAN, n \in LeafTurns(0) :
         /\ pc = "evaluate"
         /\ review' = [status |-> status, work |-> work, passes |-> passes]
         /\ turns' = AtLeast(turns, n)
         /\ Charges(n, "verify")
         /\ UNCHANGED <<conf, max, iteration, given, work, built, suite, session, verdicts, told,
                      runs>>
  BY DEF Evaluates
<1>3. n \in 0..TurnsPerPhase /\ turns' \in Nat /\ work \in Nat
  BY <1>1, <1>2, LeafTurnsType DEF TypeOK, AtLeast
<1>4. /\ scope' \in Scopes /\ Within(scope'.taken, scope'.allowance) /\ total' \in Nat
      /\ pc' \in {"verify", "refused"} /\ Spent'
  BY <1>2, <1>3, ChargesSpent
<1>5. TypeOK'
  BY <1>1, <1>2, <1>3, <1>4 DEF TypeOK, Endings
<1>6. Verified' /\ Current' /\ AcceptedIsReviewed' /\ Told'
  BY <1>1, <1>2, <1>4 DEF Verified, Current, AcceptedIsReviewed, Told
<1> QED
  BY <1>4, <1>5, <1>6 DEF SInv

LEMMA GoesOnInv ==
    ASSUME SInv, GoesOn
    PROVE  SInv'
<1> DEFINE a == scope.allowance
           c == scope.continues
           g == scope.grants
           t == TurnsPerPhase
<1>1. /\ TypeOK /\ Told /\ Verified /\ scope \in Scopes /\ a \in Caps /\ c \in Nat /\ g \in Nat
      /\ t \in Nat /\ total \in Nat /\ scope.taken \in Nat /\ Within(scope.taken, a)
      /\ StepsPerGrant \in Nat
  BY SelfVerifyAssumption, ScopeType DEF SInv, TypeOK
<1>2. /\ pc = "refused" /\ pc' \in {"build", "unverified"} /\ iteration' = iteration + 1
      /\ scope' = Continued(scope) \/ scope' = AutoGranted(scope, StepsPerGrant)
      /\ UNCHANGED <<conf, max, built, review, suite, turns, given, work, session, verdicts, told,
                   total, runs>>
  BY DEF GoesOn, Loops, reports, carried
<1>3. c + g + 1 \in Nat /\ Overruns = c + g + 1 /\ (a # NoCap => total <= c * a + scope.taken + (c + g + 1) * t)
  BY <1>1, <1>2 DEF SInv, Spent, Overruns
<1>4. /\ scope' \in Scopes /\ Within(scope'.taken, scope'.allowance) /\ Spent'
  <2>1. CASE scope' = Continued(scope)
    <3>1. /\ scope' \in Scopes /\ scope'.allowance = a /\ scope'.taken = 0
          /\ scope'.continues = c + 1 /\ scope'.grants = g
      BY <1>1, <2>1, ContinuedType
    <3>2. Overruns' = c + g + 1
      BY <1>1, <1>2, <3>1 DEF Overruns
    <3>3. ASSUME a # NoCap
          PROVE  total <= (c + 1) * a + 0 + (c + g + 1) * t
      <4>1. a \in Nat /\ scope.taken <= a
        BY <1>1, <3>3 DEF Caps, Within
      <4>2. (c + 1) * a = c * a + a /\ c * a \in Nat /\ (c + g + 1) * t \in Nat
        BY <1>1, <1>3, <4>1, Products
      <4> QED
        BY <1>1, <1>3, <3>3, <4>1, <4>2
    <3>4. Within(scope'.taken, scope'.allowance)
      BY <1>1, <3>1 DEF Within, Caps
    <3> QED
      BY <1>2, <3>1, <3>2, <3>3, <3>4 DEF Spent
  <2>2. CASE scope' = AutoGranted(scope, StepsPerGrant)
    <3>1. /\ scope' \in Scopes /\ scope'.taken = scope.taken
          /\ scope'.continues = c /\ scope'.grants = g + 1
          /\ a = NoCap => scope'.allowance = NoCap
          /\ a # NoCap => scope'.allowance \in Nat /\ scope'.allowance >= a
      BY <1>1, <2>2, AutoGrantedType
    <3>2. Overruns' = c + g + 1
      BY <1>1, <1>2, <3>1 DEF Overruns
    <3>3. ASSUME a # NoCap
          PROVE  /\ total <= c * scope'.allowance + scope.taken + (c + g + 1) * t
                 /\ scope.taken <= scope'.allowance
      <4>1. a \in Nat /\ scope.taken <= a /\ scope'.allowance \in Nat /\ a <= scope'.allowance
        BY <1>1, <3>1, <3>3 DEF Caps, Within
      <4>2. c * a <= c * scope'.allowance
        BY <1>1, <4>1, Products
      <4>3. c * a \in Nat /\ c * scope'.allowance \in Nat /\ (c + g + 1) * t \in Nat
        BY <1>1, <1>3, <4>1
      <4> QED
        BY <1>1, <1>3, <3>3, <4>1, <4>2, <4>3
    <3>4. Within(scope'.taken, scope'.allowance)
      BY <3>1, <3>3 DEF Within
    <3> QED
      BY <1>2, <3>1, <3>2, <3>3, <3>4 DEF Spent
  <2> QED
    BY <1>2, <2>1, <2>2
<1>5. TypeOK'
  BY <1>1, <1>2, <1>4 DEF TypeOK, Ends
<1>6. Verified' /\ Current' /\ AcceptedIsReviewed' /\ Told'
  BY <1>1, <1>2 DEF Verified, Current, AcceptedIsReviewed, Told
<1> QED
  BY <1>4, <1>5, <1>6 DEF SInv

LEMMA GivesUpInv ==
    ASSUME SInv, GivesUp
    PROVE  SInv'
<1>1. /\ pc = "refused" /\ pc' \in {"asking", "exhausted"}
      /\ UNCHANGED <<conf, max, iteration, scope, built, review, suite, turns, given, work, session,
                     verdicts, told, total, runs>>
  BY DEF GivesUp, reports, carried
<1>2. Overruns' = Overruns
  BY <1>1 DEF Overruns
<1> QED
  BY <1>1, <1>2 DEF SInv, TypeOK, Ends, Verified, Current, AcceptedIsReviewed, Told, Spent

\* The verdict ends no charge and opens none.
LEMMA VerdictInv ==
    ASSUME SInv, Accepts \/ Rejects
    PROVE  SInv'
<1>1. TypeOK /\ Told /\ Verified /\ Current /\ Spent
  BY DEF SInv
<1>2. PICK tests \in BOOLEAN :
         /\ pc = "verify" /\ RunsSuite(tests)
         /\ \/ /\ Verdict(tests) /\ pc' = "passed" /\ UNCHANGED <<iteration, session, verdicts>>
            \/ /\ ~ Verdict(tests) /\ pc' \in {"build", "unverified"} /\ iteration' = iteration + 1
               /\ session' = session \cup {verdicts} /\ verdicts' = verdicts + 1
         /\ UNCHANGED <<conf, max, scope, built, review, turns, given, work, told, total, runs>>
  BY DEF Accepts, Rejects, Loops, carried
<1>3. suite' \in [work : 0..work, passes : BOOLEAN]
  BY <1>1, <1>2 DEF RunsSuite, TypeOK
<1>4. /\ Told' /\ session' \subseteq 0..verdicts' /\ told \subseteq 0..verdicts'
      /\ verdicts' \in Nat /\ iteration' \in Nat
  <2>1. /\ verdicts \in Nat /\ iteration \in Nat
        /\ session \subseteq 0..verdicts /\ told \subseteq 0..verdicts
    BY <1>1 DEF TypeOK
  <2>2. CASE UNCHANGED <<iteration, session, verdicts>>
    BY <1>1, <1>2, <2>1, <2>2 DEF Told
  <2>3. CASE /\ iteration' = iteration + 1
             /\ session' = session \cup {verdicts} /\ verdicts' = verdicts + 1
    <3>1. verdicts' - 1 = verdicts /\ 0..verdicts = (0..(verdicts - 1)) \cup {verdicts}
      BY <2>1, <2>3
    <3>2. Told'
      BY <1>1, <1>2, <2>3, <3>1 DEF Told
    <3> QED
      BY <2>1, <2>3, <3>2
  <2> QED
    BY <1>2, <2>2, <2>3
<1>5. TypeOK'
  BY <1>1, <1>2, <1>3, <1>4 DEF TypeOK, Ends
<1>6. Verified' /\ Current'
  BY <1>1, <1>2 DEF Verified, Current
<1>7. Overruns' = Overruns
  BY <1>2 DEF Overruns
<1>8. Spent'
  BY <1>1, <1>2, <1>7 DEF Spent
<1>9. AcceptedIsReviewed'
  <2> SUFFICES ASSUME pc' = "passed", conf.verifiers # {}
               PROVE  (/\ built = [status |-> "success", work |-> work]
                       /\ "response" \in conf.verifiers =>
                              review = [status |-> "success", work |-> work, passes |-> TRUE]
                       /\ "tests" \in conf.verifiers => suite = [work |-> work, passes |-> TRUE])'
    BY <1>2 DEF AcceptedIsReviewed
  <2>1. \A v \in conf.verifiers : Passes(v, tests)
    BY <1>2 DEF Verdict
  <2>2. conf.verifiers \subseteq Verifiers
    BY <1>1, <1>2, SelfVerifyAssumption DEF Verified, TypeOK, Config
  <2>3. PICK v \in conf.verifiers : TRUE
    BY <2>2
  <2>4. built.status = "success" /\ built.work = work /\ review.work = work
    BY <1>1, <1>2, <2>1, <2>3 DEF Passes, Current
  <2>5. built' = [status |-> "success", work |-> work]
    BY <1>1, <1>2, <2>4 DEF TypeOK
  <2>6. ASSUME "response" \in conf.verifiers
        PROVE  review' = [status |-> "success", work |-> work, passes |-> TRUE]
    <3>1. review.status = "success" /\ review.passes
      BY <2>1, <2>6 DEF Passes
    <3> QED
      BY <1>1, <1>2, <2>4, <3>1 DEF TypeOK
  <2>7. ASSUME "tests" \in conf.verifiers
        PROVE  suite' = [work |-> work, passes |-> TRUE]
    <3>1. tests = TRUE
      BY <2>1, <2>7 DEF Passes
    <3> QED
      BY <1>2, <2>4, <2>7, <3>1 DEF RunsSuite
  <2> QED
    BY <1>2, <2>5, <2>6, <2>7
<1> QED
  BY <1>4, <1>5, <1>6, <1>8, <1>9 DEF SInv

LEMMA StrategyInv ==
    ASSUME SInv, Strategy
    PROVE  SInv'
  BY EntersInv, MisconfiguredInv, BuildEndsInv, BuildStopsInv, EvaluatesInv, GoesOnInv,
     GivesUpInv, VerdictInv DEF Strategy

-----------------------------------------------------------------------------
(* Around the strategy.                                                    *)

\* Whoever drives the strategy anew starts it, with a fresh scope or none.
LEMMA StartsInv ==
    ASSUME SInv, pc' = "start", max' \in Caps, scope' \in Scopes,
           Within(scope'.taken, scope'.allowance),
           {iteration', turns', given', verdicts', runs'} \subseteq Nat,
           Told', session' \subseteq 0..verdicts', told' \subseteq 0..verdicts',
           UNCHANGED <<conf, work, built, review, suite, total>>
    PROVE  SInv'
<1>1. TypeOK'
  BY DEF SInv, TypeOK
<1> QED
  BY <1>1 DEF SInv, Verified, Current, AcceptedIsReviewed, Spent

LEMMA DrivenInv ==
    ASSUME SInv, Resumes \/ Redrives
    PROVE  SInv'
<1>1. TypeOK /\ Told
  BY DEF SInv
<1>2. PICK continues \in Nat : Again(continues)
  BY <1>1, ScopeType DEF Resumes, Redrives, TypeOK
<1>3. /\ pc' = "start" /\ iteration' = 0 /\ scope' = NewScope(NoCap, continues)
      /\ runs' = runs + 1
      /\ UNCHANGED <<conf, built, review, suite, given, work, session, verdicts, told, total>>
  BY <1>2 DEF Again, reports
<1>4. max' \in Caps
  <2>1. scope.taken + StepsPerGrant \in Nat
    BY <1>1, ScopeType, SelfVerifyAssumption DEF TypeOK
  <2>2. GrantMaxTurns(max, scope.taken + StepsPerGrant) \in Caps
    BY <1>1, <2>1, NoCapAssumption DEF TypeOK, Caps, GrantMaxTurns, AtLeast
  <2> QED
    BY <1>1, <2>2 DEF Resumes, Redrives, RaisesMax, TypeOK
<1>5. scope' \in Scopes /\ Within(scope'.taken, scope'.allowance)
  BY <1>3, NewScopeType DEF Caps, Within
<1>6. {iteration', turns', given', verdicts', runs'} \subseteq Nat
  BY <1>1, <1>3 DEF Resumes, Redrives, TypeOK
<1>7. Told' /\ session' \subseteq 0..verdicts' /\ told' \subseteq 0..verdicts'
  BY <1>1, <1>3 DEF Told, TypeOK
<1> QED
  BY <1>3, <1>4, <1>5, <1>6, <1>7, StartsInv

LEMMA SkipsInv ==
    ASSUME SInv, Skips
    PROVE  SInv'
<1>1. /\ pc = "asking" /\ pc' = "skipped"
      /\ UNCHANGED <<conf, max, iteration, scope, built, review, suite, turns, given, work, session,
                     verdicts, told, total, runs>>
  BY DEF Skips, reports, carried
<1>2. Overruns' = Overruns
  BY <1>1 DEF Overruns
<1> QED
  BY <1>1, <1>2 DEF SInv, TypeOK, Ends, Verified, Current, AcceptedIsReviewed, Told, Spent

LEMMA OpensInv ==
    ASSUME SInv, Opens
    PROVE  SInv'
<1>1. TypeOK /\ Told
  BY DEF SInv
<1>2. /\ pc' = "start" /\ turns' = 0 /\ given' = 0
      /\ UNCHANGED <<conf, max, iteration, scope, work, built, review, suite, total, runs>>
      /\ \/ UNCHANGED <<session, verdicts, told>>
         \/ session' = {} /\ verdicts' = 0 /\ told' = {}
  BY DEF Opens, reports
<1>3. /\ Told' /\ session' \subseteq 0..verdicts' /\ told' \subseteq 0..verdicts'
      /\ verdicts' \in Nat
  <2>1. CASE UNCHANGED <<session, verdicts, told>>
    BY <1>1, <1>2, <2>1 DEF Told, TypeOK
  <2>2. CASE session' = {} /\ verdicts' = 0 /\ told' = {}
    <3>1. 0..(verdicts' - 1) = {}
      BY <2>2
    <3> QED
      BY <2>2, <3>1 DEF Told
  <2> QED
    BY <1>2, <2>1, <2>2
<1>4. {iteration', turns', given', verdicts', runs'} \subseteq Nat
  BY <1>1, <1>2, <1>3 DEF TypeOK
<1> QED
  BY <1>1, <1>2, <1>3, <1>4, StartsInv DEF TypeOK

\* The ways a window ends leave the strategy as it is, but for its scope.
Closes == GivesWindowUp \/ ReadsProgress \/ ReadsFeatures

LEMMA ClosesInv ==
    ASSUME SInv, Closes
    PROVE  SInv'
<1>1. /\ scope' = NewScope(NoCap, 0) \/ scope' = scope
      /\ UNCHANGED <<conf, pc, max, iteration, turns, given, work, session, verdicts, told,
                     total, built, review, suite, runs>>
  BY DEF Closes, GivesWindowUp, ReadsProgress, ReadsFeatures, NextWindow, settled, carried,
         reports
<1>2. Verified' /\ Current' /\ AcceptedIsReviewed' /\ Told'
  BY <1>1 DEF SInv, Verified, Current, AcceptedIsReviewed, Told
<1>3. CASE scope' = NewScope(NoCap, 0)
  <2>1. scope' \in Scopes /\ scope'.allowance = NoCap
    BY <1>3, NewScopeType DEF Caps
  <2>2. TypeOK' /\ Spent'
    BY <1>1, <2>1 DEF SInv, TypeOK, Within, Spent
  <2> QED
    BY <1>2, <2>2 DEF SInv
<1>4. CASE scope' = scope
  <2>1. TypeOK' /\ Spent'
    BY <1>1, <1>4 DEF SInv, TypeOK, Spent, Overruns
  <2> QED
    BY <1>2, <2>1 DEF SInv
<1> QED
  BY <1>1, <1>3, <1>4

LEMMA SameInv ==
    ASSUME SInv, UNCHANGED vars
    PROVE  SInv'
<1>1. TypeOK'
  BY DEF vars, SInv, TypeOK
<1>2. Verified' /\ Current' /\ AcceptedIsReviewed' /\ Told'
  BY DEF vars, SInv, Verified, Current, AcceptedIsReviewed, Told
<1>3. Spent'
  BY DEF vars, SInv, Spent, Overruns
<1> QED
  BY <1>1, <1>2, <1>3 DEF SInv

-----------------------------------------------------------------------------
(* The windows.                                                            *)

LEMMA RalphInitInv == RalphInit => IInv
<1> SUFFICES ASSUME RalphInit PROVE IInv
  OBVIOUS
<1>1. SInv
  BY InitInv DEF RalphInit
<1>2. InBounds /\ HasRead
  BY RalphAssumption DEF RalphInit, InBounds, HasRead
<1>3. WindowsAreBounded
  <2>1. stage \in {"opens", "bare"} /\ window = 0
    BY DEF RalphInit
  <2>2. /\ {seeded, withdrawn} \subseteq BOOLEAN /\ progress \in Progress
        /\ features \in Features /\ writes \in 0..MaxWrites
    <3>1. /\ seeded = FALSE /\ withdrawn = FALSE /\ progress \in Progress
          /\ features \in Features /\ writes = 0
      BY DEF RalphInit
    <3>2. MaxWrites \in Nat
      BY RalphAssumption
    <3>3. writes \in 0..MaxWrites
      BY <3>1, <3>2
    <3>4. {seeded, withdrawn} \subseteq BOOLEAN
      BY <3>1
    <3> QED
      BY <3>1, <3>3, <3>4
  <2>3. RalphTypeOK
    BY <1>1, <2>1, <2>2 DEF RalphInit, RalphTypeOK, SInv
  <2> QED
    BY <2>1, <2>3 DEF WindowsAreBounded
<1> QED
  BY <1>1, <1>2, <1>3 DEF IInv

\* What leaves the stage and the window leaves them in bounds.
LEMMA StaysInBounds ==
    ASSUME IInv, SInv', UNCHANGED <<resets, stage, window>>,
           {seeded', withdrawn'} \subseteq BOOLEAN, progress' \in Progress,
           features' \in Features, writes' \in 0..MaxWrites, HasRead'
    PROVE  IInv'
  BY DEF IInv, SInv, WindowsAreBounded, RalphTypeOK, InBounds

LEMMA WindowsInv ==
    ASSUME IInv, Opens \/ Closes \/ HandsOver \/ RalphResumes \/ RalphSkips
    PROVE  IInv'
<1>1. SInv /\ RalphTypeOK /\ InBounds /\ WindowsAreBounded /\ HasRead
  BY DEF IInv, WindowsAreBounded
<1>2. SInv'
  BY <1>1, OpensInv, ClosesInv, SameInv, DrivenInv, SkipsInv
     DEF HandsOver, RalphResumes, RalphSkips
<1>3. /\ stage \in {"opens", "runs", "checks", "handed"}
      /\ resets \in Nat /\ window \in Nat
  BY <1>1 DEF Opens, Closes, GivesWindowUp, ReadsProgress, ReadsFeatures, Closed, HandsOver,
              RalphResumes, RalphSkips, InBounds, RalphTypeOK
<1>4. /\ UNCHANGED <<resets, progress, features, writes>>
      /\ {seeded', withdrawn'} \subseteq BOOLEAN
  BY <1>1 DEF Opens, Closes, GivesWindowUp, ReadsProgress, ReadsFeatures, settled, HandsOver,
              RalphResumes, RalphSkips, RalphTypeOK
<1>5. /\ stage' \in {"opens", "runs", "checks"} \cup Outs /\ window' \in Nat
      /\ stage' \in {"opens", "runs", "checks"} => window' < resets \/ window' = 0
      /\ stage' = "unmet" => window' = resets \/ resets = 0
      /\ stage' = "checks" => progress = "done"
  <2>1. CASE Opens
    BY <1>1, <1>3, <2>1 DEF Opens, InBounds
  <2>2. CASE Closes
    <3>1. CASE NextWindow
      <4>1. stage \in {"runs", "checks"}
        BY <2>2 DEF Closes, GivesWindowUp, ReadsProgress, ReadsFeatures, Closed
      <4> QED
        BY <1>1, <1>3, <3>1, <4>1 DEF NextWindow, AtLeast, InBounds, Outs
    <3>2. CASE stage' = "done" /\ window' = window
      BY <1>3, <3>2 DEF Outs
    <3>3. CASE stage = "runs" /\ stage' = "checks" /\ window' = window /\ progress = "done"
      BY <1>1, <1>3, <3>3 DEF InBounds, Outs
    <3> QED
      BY <2>2, <3>1, <3>2, <3>3 DEF Closes, GivesWindowUp, ReadsProgress, ReadsFeatures, Closed
  <2>3. CASE HandsOver
    BY <1>3, <2>3 DEF HandsOver, Outs
  <2>4. CASE RalphResumes
    BY <2>4 DEF RalphResumes
  <2>5. CASE RalphSkips
    BY <1>3, <2>5 DEF RalphSkips, Outs
  <2> QED
    BY <2>1, <2>2, <2>3, <2>4, <2>5
<1>6. RalphTypeOK'
  BY <1>1, <1>2, <1>3, <1>4, <1>5 DEF SInv, RalphTypeOK
<1>7. HasRead' /\ InBounds'
  BY <1>3, <1>4, <1>5 DEF HasRead, InBounds
<1>8. WindowsAreBounded'
  BY <1>3, <1>4, <1>5, <1>6 DEF WindowsAreBounded
<1> QED
  BY <1>2, <1>7, <1>8 DEF IInv

LEMMA RalphNextInv == IInv /\ [RalphNext]_allvars => IInv'
<1> SUFFICES ASSUME IInv, [RalphNext]_allvars PROVE IInv'
  OBVIOUS
<1>1. SInv /\ RalphTypeOK
  BY DEF IInv, WindowsAreBounded
<1>2. CASE Opens \/ Closes \/ HandsOver \/ RalphResumes \/ RalphSkips
  BY <1>2, WindowsInv
<1>3. CASE Runs
  BY <1>1, <1>3, StrategyInv, StaysInBounds DEF Runs, ralph, RalphTypeOK, HasRead
<1>4. CASE Bare
  BY <1>1, <1>4, DrivenInv, SkipsInv, StaysInBounds DEF Bare, ralph, RalphTypeOK, HasRead
<1>5. CASE HostWrites
  <2>1. SInv'
    BY <1>1, <1>5, SameInv DEF HostWrites
  <2>2. progress' \in Progress /\ features' \in Features /\ writes' \in 0..MaxWrites
    BY <1>1, <1>5, RalphAssumption DEF HostWrites, RalphTypeOK, Progress, Features
  <2>3. withdrawn' \in BOOLEAN /\ HasRead'
    BY <1>1, <1>5 DEF HostWrites, RalphTypeOK, IInv, HasRead
  <2> QED
    BY <1>1, <1>5, <2>1, <2>2, <2>3, StaysInBounds DEF HostWrites, RalphTypeOK
<1>6. CASE UNCHANGED allvars
  BY <1>1, <1>6, SameInv, StaysInBounds DEF allvars, ralph, RalphTypeOK, IInv, HasRead
<1> QED
  BY <1>2, <1>3, <1>4, <1>5, <1>6 DEF RalphNext, Windows, Closes

LEMMA InvHolds == RalphSpec => []IInv
<1> QED
  BY RalphInitInv, RalphNextInv, PTL DEF RalphSpec

-----------------------------------------------------------------------------
(* The theorems.                                                           *)

\* An accepted result was built to the end, and is what the evaluator and the tests saw:
\* no continue, grant, pause or window puts an old review under a new build.
THEOREM AcceptedWasReviewed == RalphSpec => []AcceptedIsReviewed
<1>1. IInv => AcceptedIsReviewed
  BY DEF IInv, SInv
<1> QED
  BY <1>1, InvHolds, PTL

\* The phases of a strategy together keep to max_turns, but for the continues and one
\* phase for each refusal of the scope.
THEOREM BudgetsHold == RalphSpec => []BudgetHolds
<1>1. IInv => BudgetHolds
  BY SpentHolds DEF IInv
<1> QED
  BY <1>1, InvHolds, PTL

\* No failed verdict is lost before a build was started with it, whatever the build does
\* to its conversation; a leaf's knows every one, through grants and pauses.
THEOREM FeedbackStays == RalphSpec => []FeedbackIsKept
<1>1. IInv => FeedbackIsKept
  BY DEF IInv, SInv, Told, FeedbackIsKept
<1> QED
  BY <1>1, InvHolds, PTL

\* Ralph opens no more windows than max_resets, and all variables keep their types.
THEOREM WindowsStayBounded == RalphSpec => []WindowsAreBounded
<1>1. IInv => WindowsAreBounded
  BY DEF IInv
<1> QED
  BY <1>1, InvHolds, PTL

\* Ralph says done or unmet by a checkpoint that is so when it says it, whatever the host
\* writes before, after and between the two reads, but for progress taken back in between.
THEOREM ReportsAreCheckpoints == RalphSpec => ReportIsCheckpoint
<1>1. ASSUME IInv, [RalphNext]_allvars
      PROVE  [/\ stage # "done" /\ stage' = "done" =>
                     Complete \/ (withdrawn /\ features # "failing")
              /\ stage # "unmet" /\ stage' = "unmet" /\ pc # "exhausted" => ~ Complete]_allvars
  <2> SUFFICES ASSUME stage' # stage, stage' \in {"done", "unmet"}
               PROVE  /\ stage' = "done" => Complete \/ (withdrawn /\ features # "failing")
                      /\ stage' = "unmet" /\ pc # "exhausted" => ~ Complete
    OBVIOUS
  <2>1. Closes
    BY <1>1 DEF RalphNext, Windows, Closes, Opens, Runs, HandsOver, RalphResumes, RalphSkips,
                HostWrites, Bare, allvars, ralph
  <2>2. CASE GivesWindowUp
    BY <2>2 DEF GivesWindowUp, NextWindow
  <2>3. CASE ReadsProgress
    BY <2>3 DEF ReadsProgress, NextWindow, Complete
  <2>4. CASE ReadsFeatures
    <3>1. progress = "done" \/ withdrawn
      BY <1>1, <2>4 DEF ReadsFeatures, IInv, HasRead
    <3> QED
      BY <2>4, <3>1 DEF ReadsFeatures, NextWindow, Complete
  <2> QED
    BY <2>1, <2>2, <2>3, <2>4 DEF Closes
<1> QED
  BY <1>1, InvHolds, PTL DEF RalphSpec, ReportIsCheckpoint

=============================================================================
