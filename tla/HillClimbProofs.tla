--------------------------- MODULE HillClimbProofs ---------------------------
(***************************************************************************)
(* That the pointers of a climb, its ledger, its workspace and its count   *)
(* of stagnation agree, for every configuration and every metric.          *)
(***************************************************************************)
EXTENDS HillClimb, TLAPS

\* The last kept row, and the best, as what they are.
IsLast(i) == i \in KeptRows /\ \A j \in KeptRows : j <= i

IsBest(i) ==
    /\ i \in KeptRows
    /\ \A j \in KeptRows :
          /\ ~ Higher(rows[j].value, rows[i].value)
          /\ j < i => Higher(rows[i].value, rows[j].value)

\* The candidate is in the ledger; nothing is kept after a baseline that is no number.
Pointers ==
    Climbing =>
        /\ \E last \in DOMAIN rows :
              IsLast(last) /\ cand.current = rows[last].sha /\ cand.score = rows[last].value
        /\ \E best \in DOMAIN rows :
              IsBest(best) /\ cand.best = rows[best].sha /\ cand.top = rows[best].value
        /\ cand.score # NaN => \A j \in KeptRows : rows[j].value # NaN

\* What the workspace holds, within an iteration too.
Tree ==
    conf.vcs = "git" =>
        /\ Climbing => cand.current # NoSha /\ cand.best # NoSha
        /\ pc \in {"gate", "turn", "check"} /\ conf.revert =>
               tree \ untracked = cand.current \ untracked
        /\ pc \in {"stagnated", "budget"} => tree \ untracked = cand.best
        /\ pc \in {"exhausted", "paused"} /\ conf.revert =>
               cand.current \subseteq tree /\ tree \subseteq cand.current \cup untracked \cup {edits}

\* The count is the rows since the last kept one, and the climb stops when it gets there.
Count ==
    Climbing =>
        /\ stagnation < Len(rows) /\ Len(rows) - stagnation \in KeptRows
        /\ \A i \in (Len(rows) - stagnation + 1)..Len(rows) : i \notin KeptRows
        /\ pc \in {"gate", "turn", "measure"} /\ conf.stagnation # NoCap /\ conf.stagnation > 0 =>
               stagnation < conf.stagnation
        /\ pc = "stagnated" => Stagnated

IInv == TypeOK /\ Pointers /\ LedgerIsReproducible /\ Tree /\ Count

-----------------------------------------------------------------------------
(* What the invariant says of the properties.                              *)

Rows == [status : Statuses, sha : Shas, value : Scores, tree : SUBSET (1..edits)]

\* The rows of the ledger.
LEMMA RowTypes ==
    ASSUME TypeOK
    PROVE  /\ rows \in Seq(Rows) /\ Len(rows) \in Nat /\ DOMAIN rows = 1..Len(rows)
           /\ \A i \in DOMAIN rows : rows[i] \in Rows
           /\ KeptRows \subseteq 1..Len(rows)
<1>1. rows \in Seq(Rows)
  BY DEF TypeOK, Rows
<1>2. /\ Len(rows) \in Nat /\ DOMAIN rows = 1..Len(rows)
      /\ \A i \in DOMAIN rows : rows[i] \in Rows
  BY <1>1
<1> QED
  BY <1>1, <1>2 DEF KeptRows

\* A set of edits is a SHA, and not the one that stands for none.
LEMMA ShaTypes ==
    ASSUME NEW e \in Nat, NEW s \in SUBSET (1..e)
    PROVE  s # NoSha
<1>1. 0 \notin s /\ 0 \in NoSha
  BY DEF NoSha
<1> QED
  BY <1>1

\* A number read from a score that is not NaN.
LEMMA ScoreTypes == \A v \in Scores : v # NaN => v \in Int
  BY HillClimbAssumption DEF Scores

LEMMA LastIs ==
    ASSUME TypeOK, NEW i, IsLast(i)
    PROVE  LastKept = i
<1>1. KeptRows \subseteq Nat
  BY RowTypes
<1>2. LastKept \in KeptRows /\ \A j \in KeptRows : j <= LastKept
  BY DEF IsLast, LastKept
<1> QED
  BY <1>1, <1>2 DEF IsLast

LEMMA BestIs ==
    ASSUME TypeOK, NEW i, IsBest(i)
    PROVE  BestKept = i
<1>1. KeptRows \subseteq Nat
  BY RowTypes
<1>2. IsBest(BestKept)
  BY DEF IsBest, BestKept
<1>3. i \in Nat /\ BestKept \in Nat
  BY <1>1, <1>2 DEF IsBest
<1>4. ~ (i < BestKept) /\ ~ (BestKept < i)
  BY <1>2 DEF IsBest
<1> QED
  BY <1>3, <1>4

LEMMA Implies == IInv => CandidateIsLedger /\ LedgerIsReproducible /\ TreeIsAccounted /\ StagnationIsExact
<1> SUFFICES ASSUME IInv
             PROVE  CandidateIsLedger /\ LedgerIsReproducible /\ TreeIsAccounted /\ StagnationIsExact
  OBVIOUS
<1>1. CandidateIsLedger
  BY LastIs, BestIs DEF IInv, Pointers, CandidateIsLedger
<1>2. TreeIsAccounted
  BY DEF IInv, Tree, TreeIsAccounted
<1>3. StagnationIsExact
  <2> SUFFICES ASSUME conf.stagnation # NoCap, Climbing
               PROVE  /\ pc = "stagnated" => Trailing(conf.stagnation)
                      /\ pc \in {"turn", "measure"} /\ conf.stagnation > 0 => ~ Trailing(conf.stagnation)
    BY DEF StagnationIsExact, Climbing
  <2>1. /\ conf.stagnation \in Nat /\ stagnation \in Nat /\ Len(rows) \in Nat
        /\ KeptRows \subseteq 1..Len(rows)
    BY RowTypes, HillClimbAssumption DEF IInv, TypeOK, Config, Caps
  <2>2. /\ stagnation < Len(rows) /\ Len(rows) - stagnation \in KeptRows
        /\ \A i \in (Len(rows) - stagnation + 1)..Len(rows) : i \notin KeptRows
    BY DEF IInv, Count
  <2>3. ASSUME pc = "stagnated"
        PROVE  Trailing(conf.stagnation)
    <3>1. conf.stagnation <= stagnation
      BY <2>1, <2>3 DEF IInv, Count, Climbing, Stagnated
    <3> QED
      BY <2>1, <2>2, <3>1 DEF Trailing
  <2>4. ASSUME pc \in {"turn", "measure"}, conf.stagnation > 0
        PROVE  ~ Trailing(conf.stagnation)
    <3>1. stagnation < conf.stagnation
      BY <2>4 DEF IInv, Count
    <3> QED
      BY <2>1, <2>2, <3>1 DEF Trailing
  <2> QED
    BY <2>3, <2>4
<1> QED
  BY <1>1, <1>2, <1>3 DEF IInv

-----------------------------------------------------------------------------
(* Version control.                                                        *)

LEMMA CommitTypes ==
    ASSUME TypeOK, NEW c \in Commits
    PROVE  /\ c.head \in SUBSET (1..edits) /\ c.untracked \in SUBSET tree /\ c.sha \in Shas
           /\ conf.vcs = "git" => c.sha = tree /\ c.head = tree /\ c.untracked = {}
<1>1. conf.vcs \in {"git", "flaky", "none"}
  BY HillClimbAssumption DEF TypeOK, Config
<1> DEFINE done   == [head |-> tree, untracked |-> {}, sha |-> tree]
           failed == {[head |-> head, untracked |-> u, sha |-> head] : u \in {{}, untracked}}
           unread == {[x EXCEPT !.sha = NoSha] : x \in failed \cup {done}}
<1>2. CASE conf.vcs = "git"
  BY <1>2 DEF Commits, TypeOK, Shas
<1>3. CASE conf.vcs = "flaky"
  <2>1. \A x \in failed \cup {done} :
           /\ x = [head |-> x.head, untracked |-> x.untracked, sha |-> x.sha]
           /\ x.head \in SUBSET (1..edits) /\ x.untracked \in SUBSET tree /\ x.sha \in Shas
    BY DEF TypeOK, Shas
  <2>2. \A x \in unread :
           /\ x.head \in SUBSET (1..edits) /\ x.untracked \in SUBSET tree /\ x.sha = NoSha
    <3> HIDE DEF failed, done
    <3> QED
      BY <2>1
  <2>3. c \in {done} \cup failed \cup unread
    BY <1>3 DEF Commits
  <2> HIDE DEF done, failed, unread
  <2>4. c.sha = NoSha => c.sha \in Shas
    BY DEF Shas
  <2> QED
    BY <1>3, <2>1, <2>2, <2>3, <2>4
<1>4. CASE conf.vcs = "none"
  <2>1. c = [head |-> head, untracked |-> untracked, sha |-> NoSha]
    BY <1>4 DEF Commits
  <2>2. NoSha \in Shas
    BY DEF Shas
  <2> QED
    BY <1>4, <2>1, <2>2 DEF TypeOK
<1> QED
  BY <1>1, <1>2, <1>3, <1>4

\* A hard reset leaves the commit and what is untracked.
LEMMA ResetTypes ==
    ASSUME TypeOK, NEW sha \in Shas, ResetTo(sha)
    PROVE  /\ tree' \in SUBSET (1..edits) /\ untracked' \in SUBSET tree'
           /\ head' \in SUBSET (1..edits)
           /\ conf.vcs = "git" /\ sha # NoSha =>
                 tree' \ untracked' = sha /\ tree' \ untracked' = sha \ untracked'
<1>1. Target(sha) \in SUBSET (1..edits) /\ (sha # NoSha => Target(sha) = sha)
  <2>1. CASE sha = NoSha
    BY <2>1 DEF Target, TypeOK
  <2>2. CASE sha # NoSha
    BY <2>2 DEF Target, Shas
  <2> QED
    BY <2>1, <2>2
<1>2. CASE /\ tree' = Target(sha) \cup untracked /\ untracked' = untracked \ Target(sha)
           /\ head' = Target(sha)
  <2>1. tree' \ untracked' = Target(sha) /\ Target(sha) \ untracked' = Target(sha)
    BY <1>2
  <2> QED
    BY <1>1, <1>2, <2>1 DEF TypeOK
<1>3. CASE conf.vcs # "git" /\ UNCHANGED git
  BY <1>3 DEF TypeOK, git
<1> QED
  BY <1>2, <1>3 DEF ResetTo

\* So does applying the winner.
LEMMA WinnerTypes ==
    ASSUME TypeOK, ApplyWinner
    PROVE  /\ tree' \in SUBSET (1..edits) /\ untracked' \in SUBSET tree'
           /\ head' \in SUBSET (1..edits)
           /\ conf.vcs = "git" /\ cand.best # NoSha => tree' \ untracked' = cand.best
<1>1. CASE cand.best = NoSha
  BY <1>1 DEF ApplyWinner, TypeOK, git
<1>2. CASE cand.best # NoSha
  <2>1. cand.best \in Shas /\ ResetTo(cand.best)
    BY <1>2 DEF ApplyWinner, TypeOK
  <2> QED
    BY <1>2, <2>1, ResetTypes
<1> QED
  BY <1>1, <1>2

\* An edit keeps the workspace but for itself.
LEMMA EditTypes ==
    ASSUME TypeOK, Edits
    PROVE  /\ edits \in Nat /\ edits' \in Nat /\ edits <= edits'
           /\ tree' \in SUBSET (1..edits') /\ untracked' \in SUBSET tree'
           /\ head' \in SUBSET (1..edits')
           /\ tree \subseteq tree' /\ tree' \subseteq tree \cup {edits'}
           /\ untracked \subseteq untracked'
<1>1. CASE UNCHANGED <<git, edits>>
  BY <1>1 DEF TypeOK, git
<1>2. CASE /\ edits' = edits + 1 /\ tree' = tree \cup {edits + 1} /\ head' = head
           /\ (untracked' = untracked \/ untracked' = untracked \cup {edits + 1})
  <2>1. edits \in Nat /\ edits + 1 \in 1..(edits + 1) /\ 1..edits \subseteq 1..(edits + 1)
    BY DEF TypeOK
  <2>2. /\ edits \in Nat /\ edits' \in Nat /\ edits <= edits'
    BY <1>2, <2>1
  <2>3. /\ tree' \in SUBSET (1..edits') /\ head' \in SUBSET (1..edits')
        /\ untracked' \in SUBSET tree'
    BY <1>2, <2>1 DEF TypeOK
  <2> QED
    BY <1>2, <2>2, <2>3
<1> QED
  BY <1>1, <1>2 DEF Edits

\* The ledger keeps its type when more edits are made.
LEMMA LedgerTypes ==
    ASSUME TypeOK, edits' \in Nat, edits <= edits', UNCHANGED <<cand, rows>>
    PROVE  /\ cand' \in [current : Shas', best : Shas', score : Scores, top : Scores]
           /\ rows' \in Seq(Rows')
<1>1. edits \in Nat
  BY DEF TypeOK
<1>2. 1..edits \subseteq 1..edits'
  BY <1>1
<1>3. SUBSET (1..edits) \subseteq SUBSET (1..edits')
  BY <1>2
<1>4. Shas \subseteq Shas'
  BY <1>3 DEF Shas
<1>5. Rows \subseteq Rows'
  BY <1>3, <1>4 DEF Rows
<1>6. rows \in Seq(Rows')
  BY <1>5, RowTypes
<1> QED
  BY <1>4, <1>6 DEF TypeOK

-----------------------------------------------------------------------------
(* Scopes.                                                                 *)

LEMMA ScopeTypes ==
    ASSUME NEW s \in Scopes, NEW n \in Nat, NEW cap \in Caps
    PROVE  /\ NewScope(cap, 0) \in Scopes /\ Charged(s, n) \in Scopes
           /\ Continued(s) \in Scopes /\ AutoGranted(s, n) \in Scopes
           /\ GrantMaxTurns(cap, s.taken + n) \in Caps
<1>1. s.taken + n \in Nat /\ s.allowance \in Caps
  BY DEF Scopes
<1>2. GrantPolicy(s.allowance, s.taken + n) \in Caps /\ GrantMaxTurns(cap, s.taken + n) \in Caps
  BY <1>1, NoCapAssumption DEF GrantPolicy, GrantMaxTurns, AtLeast, Caps
<1>3. NewScope(cap, 0) \in Scopes /\ Charged(s, n) \in Scopes
  BY <1>1 DEF Scopes, Charged, NewScope
<1>4. Continued(s) \in Scopes
  <2> DEFINE r == [s EXCEPT !.continues = @ + 1]
  <2>1. r \in Scopes /\ Continued(s) = [r EXCEPT !.taken = 0]
    BY DEF Scopes, Continued
  <2> HIDE DEF r
  <2> QED
    BY <2>1 DEF Scopes
<1>5. AutoGranted(s, n) \in Scopes
  <2> DEFINE r == [s EXCEPT !.grants = @ + 1]
  <2>1. r \in Scopes
    BY DEF Scopes
  <2>2. AutoGranted(s, n) = [r EXCEPT !.allowance = GrantPolicy(s.allowance, s.taken + n)]
    BY DEF AutoGranted
  <2> HIDE DEF r
  <2> QED
    BY <1>2, <2>1, <2>2 DEF Scopes
<1> QED
  BY <1>2, <1>3, <1>4, <1>5

-----------------------------------------------------------------------------
(* The climb.                                                              *)

LEMMA InitInv == Init => IInv
<1> SUFFICES ASSUME Init PROVE IInv
  OBVIOUS
<1>1. scope \in Scopes /\ max \in Caps
  BY HillClimbAssumption DEF Init, NewScope, Scopes, Caps, Config
<1>2. TypeOK
  <2>1. cand \in [current : Shas, best : Shas, score : Scores, top : Scores]
    BY DEF Init, NoCandidate, Shas, Scores
  <2>2. rows \in Seq(Rows)
    BY DEF Init
  <2>3. /\ tree \in SUBSET (1..edits) /\ untracked \in SUBSET tree /\ head \in SUBSET (1..edits)
    BY DEF Init
  <2> QED
    BY <1>1, <2>1, <2>2, <2>3 DEF Init, TypeOK, Rows
<1>3. Pointers /\ Tree /\ Count /\ LedgerIsReproducible
  BY DEF Init, Pointers, Tree, Count, Climbing, LedgerIsReproducible, KeptRows
<1> QED
  BY <1>2, <1>3 DEF IInv

LEMMA BaselineInv ==
    ASSUME IInv, BaselineKept
    PROVE  IInv'
<1>1. TypeOK
  BY DEF IInv
<1>2. PICK value \in Scores, c \in Commits :
        /\ pc' = "gate" /\ scope' = NewScope(max, 0) /\ Commit(c)
        /\ cand' = [current |-> c.sha, best |-> c.sha, score |-> value, top |-> value]
        /\ rows' = <<Row("Kept", c.sha, value)>>
        /\ stagnation' = 0
        /\ UNCHANGED <<conf, max, turns, given, edits, runs>>
  BY DEF BaselineKept
<1>3. /\ c.head \in SUBSET (1..edits) /\ c.untracked \in SUBSET tree /\ c.sha \in Shas
      /\ conf.vcs = "git" => c.sha = tree /\ c.head = tree /\ c.untracked = {}
      /\ tree' = tree /\ untracked' = c.untracked /\ head' = c.head
  BY <1>1, <1>2, CommitTypes DEF Commit
<1>4. scope' \in Scopes
  BY <1>1, <1>2 DEF TypeOK, NewScope, Scopes
<1>5. /\ Len(rows') = 1 /\ DOMAIN rows' = {1}
      /\ rows'[1] = [status |-> "Kept", sha |-> c.sha, value |-> value, tree |-> tree]
      /\ KeptRows' = {1}
  BY <1>2 DEF Row, KeptRows
<1>6. TypeOK'
  <2>1. Row("Kept", c.sha, value) \in [status : Statuses, sha : Shas, value : Scores, tree : SUBSET (1..edits)]
    BY <1>1, <1>3 DEF Row, Statuses, TypeOK
  <2>2. rows' \in Seq([status : Statuses, sha : Shas, value : Scores, tree : SUBSET (1..edits)])
    BY <1>2, <2>1
  <2> QED
    BY <1>1, <1>2, <1>3, <1>4, <2>2 DEF TypeOK, Shas
<1>7. Pointers'
  <2>1. IsLast(1)'
    BY <1>5 DEF IsLast
  <2>2. ~ Higher(value, value)
    BY <1>1, ScoreTypes DEF Higher
  <2>3. IsBest(1)'
    BY <1>5, <2>2 DEF IsBest
  <2>4. /\ cand'.current = rows'[1].sha /\ cand'.score = rows'[1].value
        /\ cand'.best = rows'[1].sha /\ cand'.top = rows'[1].value
    BY <1>2, <1>5
  <2> QED
    BY <1>5, <2>1, <2>3, <2>4 DEF Pointers
<1>8. Tree'
  <2>1. tree # NoSha
    BY <1>1, ShaTypes DEF TypeOK
  <2> QED
    BY <1>2, <1>3, <2>1 DEF Tree
<1>9. Count'
  <2>1. (Len(rows') - 0 + 1)..Len(rows') = {} /\ Len(rows') - 0 = 1
    BY <1>5
  <2> QED
    BY <1>2, <1>5, <2>1 DEF Count
<1>10. LedgerIsReproducible'
  BY <1>2, <1>3, <1>5 DEF LedgerIsReproducible
<1> QED
  BY <1>6, <1>7, <1>8, <1>9, <1>10 DEF IInv

\* What starts anew, or fails to start, has no candidate to answer for.
LEMMA NotClimbingInv ==
    ASSUME IInv, BaselineFails \/ RunsOn \/ RunsAnew
    PROVE  IInv'
<1>1. TypeOK
  BY DEF IInv
<1>2. /\ pc' \in {"start", "misconfigured"} /\ UNCHANGED <<conf, git, edits>>
      /\ \A i \in DOMAIN rows' : rows'[i].status # "Kept"
  BY DEF BaselineFails, RunsOn, RunsAnew, Again, Row
<1>3. max' \in Caps /\ scope' \in Scopes /\ turns' \in Nat /\ given' \in Nat /\ runs' \in Nat
  <2>1. CASE BaselineFails
    BY <1>1, <2>1 DEF BaselineFails, TypeOK
  <2>2. CASE RunsOn
    <3>1. GrantMaxTurns(max, scope.taken + StepsPerGrant) \in Caps /\ NewScope(NoCap, 0) \in Scopes
      BY <1>1, HillClimbAssumption, ScopeTypes DEF TypeOK, Caps
    <3> QED
      BY <1>1, <2>2, <3>1 DEF RunsOn, Again, TypeOK
  <2>3. CASE RunsAnew
    <3>1. NewScope(NoCap, 0) \in Scopes /\ conf.max \in Caps
      BY <1>1, HillClimbAssumption DEF TypeOK, Caps, Config, NewScope, Scopes
    <3> QED
      BY <1>1, <2>3, <3>1 DEF RunsAnew, Again, TypeOK
  <2> QED
    BY <2>1, <2>2, <2>3
<1>4. /\ cand' \in [current : Shas, best : Shas, score : Scores, top : Scores]
      /\ rows' \in Seq(Rows) /\ stagnation' \in Nat
  <2>1. Row("Failed", NoSha, NaN) \in Rows
    <3>1. "Failed" \in Statuses /\ NoSha \in Shas /\ NaN \in Scores /\ tree \in SUBSET (1..edits)
      BY <1>1 DEF Statuses, Shas, Scores, TypeOK
    <3> QED
      BY <3>1 DEF Row, Rows
  <2>2. CASE BaselineFails
    BY <1>1, <2>1, <2>2 DEF BaselineFails, TypeOK
  <2>3. CASE RunsOn \/ RunsAnew
    <3>1. cand' = NoCandidate /\ rows' = <<>> /\ stagnation' = 0
      BY <2>3 DEF RunsOn, RunsAnew, Again
    <3>2. NoCandidate \in [current : Shas, best : Shas, score : Scores, top : Scores]
      BY DEF NoCandidate, Shas, Scores
    <3> QED
      BY <3>1, <3>2
  <2> QED
    BY <2>2, <2>3
<1>5. TypeOK'
  <2>1. Shas' = Shas /\ Rows' = Rows
    BY <1>2 DEF Shas, Rows
  <2>2. /\ cand' \in [current : Shas', best : Shas', score : Scores, top : Scores]
        /\ rows' \in Seq(Rows')
    BY <1>4, <2>1
  <2> QED
    BY <1>1, <1>2, <1>3, <1>4, <2>2 DEF TypeOK, Rows, Ends, git
<1> QED
  BY <1>2, <1>5 DEF IInv, Pointers, Tree, Count, Climbing, LedgerIsReproducible, KeptRows

\* Steps that leave the workspace, the candidate and the ledger alone.
LEMMA SameInv ==
    ASSUME IInv, Climbing,
           UNCHANGED <<conf, git, cand, rows, stagnation, edits, runs>>,
           scope' \in Scopes, max' \in Caps, turns' \in Nat, given' \in Nat,
           \/ pc = "gate" /\ pc' \in {"gate", "turn", "exhausted", "paused"}
           \/ pc = "check" /\ pc' = "gate" /\ ~ Stagnated
    PROVE  IInv'
<1>1. TypeOK /\ Pointers /\ LedgerIsReproducible /\ Tree /\ Count
  BY DEF IInv
<1>2. TypeOK'
  BY <1>1 DEF TypeOK, Ends, git, Shas
<1>3. Pointers'
  BY <1>1 DEF Pointers, IsLast, IsBest, KeptRows, Climbing
<1>4. LedgerIsReproducible'
  BY <1>1 DEF LedgerIsReproducible, KeptRows
<1>5. Tree'
  <2> SUFFICES ASSUME conf.vcs = "git"
               PROVE  /\ cand.current # NoSha /\ cand.best # NoSha
                      /\ conf.revert /\ pc' \in {"gate", "turn", "check"} =>
                            tree \ untracked = cand.current \ untracked
                      /\ conf.revert /\ pc' \in {"exhausted", "paused"} =>
                            cand.current \subseteq tree /\ tree \subseteq cand.current \cup untracked \cup {edits}
    BY DEF Tree, git
  <2>1. untracked \subseteq tree
    BY <1>1 DEF TypeOK
  <2>2. cand.current # NoSha /\ cand.best # NoSha
    BY <1>1 DEF Tree
  <2>3. conf.revert => tree \ untracked = cand.current \ untracked
    BY <1>1 DEF Tree
  <2>4. conf.revert => cand.current \subseteq tree /\ tree \subseteq cand.current \cup untracked \cup {edits}
    BY <2>1, <2>3
  <2> QED
    BY <2>2, <2>3, <2>4
<1>6. Count'
  <2>1. conf.stagnation \in Caps /\ stagnation \in Nat
    BY <1>1, HillClimbAssumption DEF TypeOK, Config
  <2>2. pc = "check" /\ conf.stagnation # NoCap => stagnation < conf.stagnation
    BY <2>1 DEF Stagnated, Caps
  <2> QED
    BY <1>1, <2>2 DEF Count, KeptRows, Climbing, Stagnated
<1> QED
  BY <1>2, <1>3, <1>4, <1>5, <1>6 DEF IInv

LEMMA GateInv ==
    ASSUME IInv, Iterates \/ ScopeGoesOn \/ ScopeEnds \/ GoesOn
    PROVE  IInv'
<1>1. /\ scope \in Scopes /\ Charged(scope, 1) \in Scopes /\ Continued(scope) \in Scopes
      /\ AutoGranted(scope, StepsPerGrant) \in Scopes
      /\ max \in Caps /\ turns \in Nat /\ given \in Nat
  <2>1. StepsPerGrant \in Nat /\ NoCap \in Caps
    BY HillClimbAssumption DEF Caps
  <2>2. scope \in Scopes /\ max \in Caps /\ turns \in Nat /\ given \in Nat
    BY DEF IInv, TypeOK
  <2> QED
    BY <2>1, <2>2, ScopeTypes
<1>2. CASE Iterates
  BY <1>1, <1>2, SameInv DEF Iterates, Climbing
<1>3. CASE ScopeGoesOn
  BY <1>1, <1>3, SameInv DEF ScopeGoesOn, Spent, Climbing
<1>4. CASE ScopeEnds
  BY <1>1, <1>4, SameInv DEF ScopeEnds, Spent, Climbing, locals
<1>5. CASE GoesOn
  BY <1>1, <1>5, SameInv DEF GoesOn, Climbing, locals
<1> QED
  BY <1>2, <1>3, <1>4, <1>5

\* The climb returns with the winner.
LEMMA WinnerInv ==
    ASSUME IInv, BudgetStops \/ Stagnates
    PROVE  IInv'
<1>1. TypeOK /\ Pointers /\ LedgerIsReproducible /\ Tree /\ Count /\ Climbing
  BY DEF IInv, BudgetStops, Stagnates, Climbing
<1>2. /\ pc' \in {"budget", "stagnated"} /\ ApplyWinner /\ scope' \in Scopes
      /\ pc' = "stagnated" => Stagnated
      /\ UNCHANGED <<conf, max, turns, given, cand, rows, stagnation, edits, runs>>
  <2>1. Charged(scope, 1) \in Scopes
    BY <1>1, ScopeTypes DEF TypeOK
  <2> QED
    BY <1>1, <2>1 DEF BudgetStops, Stagnates, locals, TypeOK
<1>3. /\ tree' \in SUBSET (1..edits) /\ untracked' \in SUBSET tree' /\ head' \in SUBSET (1..edits)
      /\ conf.vcs = "git" /\ cand.best # NoSha => tree' \ untracked' = cand.best
  BY <1>1, <1>2, WinnerTypes
<1>4. TypeOK'
  BY <1>1, <1>2, <1>3 DEF TypeOK, Ends, Shas
<1>5. Pointers' /\ LedgerIsReproducible'
  BY <1>1, <1>2 DEF Pointers, IsLast, IsBest, KeptRows, Climbing, LedgerIsReproducible
<1>6. Tree'
  BY <1>1, <1>2, <1>3 DEF Tree
<1>7. Count'
  BY <1>1, <1>2 DEF Count, KeptRows, Stagnated
<1> QED
  BY <1>4, <1>5, <1>6, <1>7 DEF IInv

LEMMA TurnInv ==
    ASSUME IInv, TurnEnds \/ TurnStops
    PROVE  IInv'
<1>1. TypeOK /\ Pointers /\ LedgerIsReproducible /\ Tree /\ Count /\ Climbing
  BY DEF IInv, TurnEnds, TurnStops, Climbing
<1>2. /\ pc = "turn" /\ pc' \in {"measure", "exhausted", "paused"} /\ Edits /\ given' = turns
      /\ turns' \in Nat
      /\ UNCHANGED <<conf, max, scope, cand, rows, stagnation, runs>>
  <2>1. turns \in Nat /\ TurnsPerChild \in Nat
    BY <1>1, HillClimbAssumption DEF TypeOK
  <2>2. \A t \in turns..(turns + TurnsPerChild) : t \in Nat
    BY <2>1
  <2> QED
    BY <2>1, <2>2 DEF TurnEnds, TurnStops, ChildTurns
<1>3. /\ edits \in Nat /\ edits' \in Nat /\ edits <= edits'
      /\ tree' \in SUBSET (1..edits') /\ untracked' \in SUBSET tree' /\ head' \in SUBSET (1..edits')
      /\ tree \subseteq tree' /\ tree' \subseteq tree \cup {edits'} /\ untracked \subseteq untracked'
  BY <1>1, <1>2, EditTypes
<1>4. /\ cand' \in [current : Shas', best : Shas', score : Scores, top : Scores]
      /\ rows' \in Seq(Rows')
  BY <1>1, <1>2, <1>3, LedgerTypes
<1>5. TypeOK'
  BY <1>1, <1>2, <1>3, <1>4 DEF TypeOK, Ends, Rows
<1>6. Pointers' /\ LedgerIsReproducible'
  BY <1>1, <1>2 DEF Pointers, IsLast, IsBest, KeptRows, Climbing, LedgerIsReproducible
<1>7. Tree'
  <2> SUFFICES ASSUME conf.vcs = "git"
               PROVE  /\ cand.current # NoSha /\ cand.best # NoSha
                      /\ conf.revert => /\ cand.current \subseteq tree'
                                        /\ tree' \subseteq cand.current \cup untracked' \cup {edits'}
    BY <1>2 DEF Tree
  <2>1. untracked \subseteq tree
    BY <1>1 DEF TypeOK
  <2>2. cand.current # NoSha /\ cand.best # NoSha
    BY <1>1 DEF Tree
  <2>3. conf.revert => tree \ untracked = cand.current \ untracked
    BY <1>1, <1>2 DEF Tree
  <2> QED
    BY <1>3, <2>1, <2>2, <2>3
<1>8. Count'
  BY <1>1, <1>2 DEF Count, KeptRows, Climbing, Stagnated
<1> QED
  BY <1>5, <1>6, <1>7, <1>8 DEF IInv

\* A row is appended.
LEMMA Appended ==
    ASSUME TypeOK, NEW row \in Rows, rows' = Append(rows, row)
    PROVE  /\ rows' \in Seq(Rows) /\ Len(rows) \in Nat
           /\ Len(rows') = Len(rows) + 1 /\ DOMAIN rows' = 1..(Len(rows) + 1)
           /\ \A i \in 1..Len(rows) : rows'[i] = rows[i]
           /\ rows'[Len(rows) + 1] = row
           /\ KeptRows \subseteq 1..Len(rows)
           /\ KeptRows' = KeptRows \cup (IF row.status = "Kept" THEN {Len(rows) + 1} ELSE {})
<1>1. /\ rows' \in Seq(Rows) /\ Len(rows) \in Nat
      /\ Len(rows') = Len(rows) + 1 /\ DOMAIN rows' = 1..(Len(rows) + 1)
      /\ DOMAIN rows = 1..Len(rows)
      /\ \A i \in 1..Len(rows) : rows'[i] = rows[i]
      /\ rows'[Len(rows) + 1] = row
  BY RowTypes
<1>2. KeptRows = {i \in 1..Len(rows) : rows[i].status = "Kept"}
  BY <1>1 DEF KeptRows
<1>3. KeptRows' = {i \in 1..(Len(rows) + 1) : rows'[i].status = "Kept"}
  BY <1>1 DEF KeptRows
<1>4. 1..(Len(rows) + 1) = 1..Len(rows) \cup {Len(rows) + 1}
  BY <1>1
<1>5. KeptRows' = KeptRows \cup (IF row.status = "Kept" THEN {Len(rows) + 1} ELSE {})
  BY <1>1, <1>2, <1>3, <1>4
<1> QED
  BY <1>1, <1>2, <1>5

LEMMA KeepsInv ==
    ASSUME IInv, Keeps
    PROVE  IInv'
<1>1. TypeOK /\ Pointers /\ LedgerIsReproducible /\ Tree /\ Count /\ Climbing
  BY DEF IInv, Keeps, Climbing
<1>2. PICK value \in Values, c \in Commits :
        /\ pc' = "check" /\ Beats(value, cand.score, conf.delta) /\ Commit(c)
        /\ cand' = IF Beats(value, cand.top, 0)
                   THEN [current |-> c.sha, best |-> c.sha, score |-> value, top |-> value]
                   ELSE [cand EXCEPT !.current = c.sha, !.score = value]
        /\ rows' = Append(rows, Row("Kept", c.sha, value))
        /\ stagnation' = 0
        /\ UNCHANGED <<conf, max, scope, turns, given, edits, runs>>
  BY DEF Keeps
<1>3. /\ c.head \in SUBSET (1..edits) /\ c.untracked \in SUBSET tree /\ c.sha \in Shas
      /\ conf.vcs = "git" => c.sha = tree /\ c.head = tree /\ c.untracked = {}
      /\ tree' = tree /\ untracked' = c.untracked /\ head' = c.head
  BY <1>1, <1>2, CommitTypes DEF Commit
<1>0. PICK n : n = Len(rows) + 1
  OBVIOUS
<1> DEFINE row == Row("Kept", c.sha, value)
<1>4. /\ row \in Rows /\ row.status = "Kept" /\ row.sha = c.sha /\ row.value = value /\ row.tree = tree
      /\ value \in Int /\ value # NaN /\ value \in Scores
  BY <1>1, <1>3, HillClimbAssumption DEF Row, Rows, Statuses, Scores, TypeOK
<1> HIDE DEF row
<1>5. /\ rows' \in Seq(Rows) /\ Len(rows) \in Nat /\ n \in Nat /\ Len(rows') = n /\ DOMAIN rows' = 1..n
      /\ \A i \in 1..Len(rows) : rows'[i] = rows[i]
      /\ rows'[n] = row /\ KeptRows \subseteq 1..Len(rows) /\ KeptRows' = KeptRows \cup {n}
  BY <1>0, <1>1, <1>2, <1>4, Appended DEF row
<1>6. /\ cand'.current = c.sha /\ cand'.score = value
      /\ Beats(value, cand.top, 0) => cand'.best = c.sha /\ cand'.top = value
      /\ ~ Beats(value, cand.top, 0) => cand'.best = cand.best /\ cand'.top = cand.top
      /\ cand' \in [current : Shas, best : Shas, score : Scores, top : Scores]
  <2>1. CASE Beats(value, cand.top, 0)
    BY <1>2, <1>3, <1>4, <2>1
  <2>2. CASE ~ Beats(value, cand.top, 0)
    <3> DEFINE r == [cand EXCEPT !.current = c.sha]
    <3>1. /\ r \in [current : Shas, best : Shas, score : Scores, top : Scores]
          /\ r.current = c.sha /\ r.best = cand.best /\ r.top = cand.top
      BY <1>1, <1>3 DEF TypeOK
    <3>2. cand' = [r EXCEPT !.score = value]
      BY <1>2, <2>2
    <3> HIDE DEF r
    <3> QED
      BY <1>4, <2>2, <3>1, <3>2
  <2> QED
    BY <2>1, <2>2
<1>7. TypeOK'
  BY <1>1, <1>2, <1>3, <1>5, <1>6 DEF TypeOK, Rows, Shas
<1>8. \A j \in KeptRows : rows[j].value \in Int /\ rows[j].value # NaN /\ j \in Nat /\ j < n
  <2>1. \A j \in KeptRows : rows[j].value # NaN
    BY <1>1, <1>2 DEF Pointers, Beats
  <2>2. \A j \in KeptRows : rows[j] \in Rows /\ j \in 1..Len(rows)
    BY <1>1, RowTypes
  <2> QED
    BY <1>0, <1>5, <2>1, <2>2, ScoreTypes DEF Rows
<1>9. Pointers'
  <2>1. /\ n \in DOMAIN rows' /\ IsLast(n)'
        /\ cand'.current = rows'[n].sha /\ cand'.score = rows'[n].value
    <3>1. n \in Nat /\ n \in 1..n /\ n \in KeptRows' /\ n <= n
      BY <1>0, <1>5
    <3>2. \A j \in KeptRows : j <= n
      BY <1>8, <3>1
    <3>3. \A j \in KeptRows' : j <= n
      BY <1>5, <3>1, <3>2
    <3>4. IsLast(n)'
      BY <3>1, <3>3 DEF IsLast
    <3> QED
      BY <1>4, <1>5, <1>6, <3>1, <3>4
  <2>2. \A j \in KeptRows' : rows'[j].value # NaN
    BY <1>4, <1>5, <1>8
  <2>3. PICK best \in DOMAIN rows : IsBest(best) /\ cand.best = rows[best].sha /\ cand.top = rows[best].value
    BY <1>1 DEF Pointers
  <2>4. /\ best \in KeptRows /\ best \in DOMAIN rows' /\ rows'[best] = rows[best]
        /\ cand.top \in Int /\ cand.top # NaN
    BY <1>5, <1>8, <2>3 DEF IsBest
  <2>5. CASE Beats(value, cand.top, 0)
    <3>1. value > cand.top
      BY <1>4, <2>4, <2>5 DEF Beats
    <3>2. \A j \in KeptRows : Higher(value, rows[j].value) /\ ~ Higher(rows[j].value, value)
      <4> SUFFICES ASSUME NEW j \in KeptRows
                   PROVE  Higher(value, rows[j].value) /\ ~ Higher(rows[j].value, value)
        OBVIOUS
      <4>1. ~ (rows[j].value > cand.top) /\ rows[j].value \in Int /\ rows[j].value # NaN
        BY <1>8, <2>3, <2>4 DEF IsBest, Higher
      <4> QED
        BY <1>4, <2>4, <3>1, <4>1 DEF Higher
    <3>3. IsBest(n)'
      <4>1. \A j \in KeptRows' : j = n \/ (j \in KeptRows /\ rows'[j] = rows[j])
        BY <1>5
      <4>2. ~ Higher(value, value) /\ ~ (n < n) /\ rows'[n].value = value
        BY <1>4, <1>5 DEF Higher
      <4>3. \A j \in KeptRows' : ~ Higher(rows'[j].value, value)
        BY <3>2, <4>1, <4>2
      <4>4. \A j \in KeptRows' : j < n => Higher(value, rows'[j].value)
        BY <3>2, <4>1, <4>2
      <4>5. n \in KeptRows'
        BY <1>5
      <4> QED
        BY <4>2, <4>3, <4>4, <4>5 DEF IsBest
    <3>4. cand'.best = rows'[n].sha /\ cand'.top = rows'[n].value
      BY <1>4, <1>5, <1>6, <2>5
    <3> QED
      BY <2>1, <2>2, <3>3, <3>4 DEF Pointers
  <2>6. CASE ~ Beats(value, cand.top, 0)
    <3>1. ~ Higher(value, cand.top)
      BY <1>4, <2>4, <2>6 DEF Beats, Higher
    <3>2. ~ (n < best)
      BY <1>8, <1>5, <2>4
    <3>3. IsBest(best)'
      BY <1>4, <1>5, <2>3, <2>4, <3>1, <3>2 DEF IsBest
    <3>4. cand'.best = rows'[best].sha /\ cand'.top = rows'[best].value
      BY <1>6, <2>3, <2>4, <2>6
    <3> QED
      BY <2>1, <2>2, <2>4, <3>3, <3>4 DEF Pointers
  <2> QED
    BY <2>5, <2>6
<1>10. LedgerIsReproducible'
  BY <1>1, <1>2, <1>3, <1>4, <1>5 DEF LedgerIsReproducible
<1>11. Tree'
  <2>1. tree # NoSha /\ (conf.vcs = "git" => cand.best # NoSha)
    BY <1>1, ShaTypes DEF TypeOK, Tree
  <2> QED
    BY <1>2, <1>3, <1>6, <2>1 DEF Tree
<1>12. Count'
  <2>1. /\ Len(rows') - 0 = n /\ 0 < Len(rows') /\ (Len(rows') - 0 + 1)..Len(rows') = {}
    BY <1>0, <1>5
  <2> QED
    BY <1>2, <1>5, <2>1 DEF Count
<1> QED
  BY <1>7, <1>9, <1>10, <1>11, <1>12 DEF IInv

LEMMA DiscardsInv ==
    ASSUME IInv, Discards
    PROVE  IInv'
<1>1. TypeOK /\ Pointers /\ LedgerIsReproducible /\ Tree /\ Count /\ Climbing
  BY DEF IInv, Discards, Climbing
<1>2. PICK status \in {"Discarded", "Failed"}, value \in Scores :
        /\ pc' = "check"
        /\ IF conf.revert THEN ResetTo(cand.current) ELSE UNCHANGED git
        /\ rows' = Append(rows, Row(status, cand.current, value))
        /\ stagnation' = stagnation + 1
        /\ UNCHANGED <<conf, max, scope, turns, given, cand, edits, runs>>
  BY DEF Discards
<1> DEFINE row == Row(status, cand.current, value)
           n == Len(rows) + 1
<1>3. row \in Rows /\ row.status # "Kept"
  BY <1>1 DEF Row, Rows, Statuses, TypeOK
<1> HIDE DEF row
<1>4. /\ rows' \in Seq(Rows) /\ Len(rows) \in Nat /\ Len(rows') = n /\ DOMAIN rows' = 1..n
      /\ \A i \in 1..Len(rows) : rows'[i] = rows[i]
      /\ KeptRows \subseteq 1..Len(rows) /\ KeptRows' = KeptRows
  BY <1>1, <1>2, <1>3, Appended DEF row
<1>5. /\ tree' \in SUBSET (1..edits) /\ untracked' \in SUBSET tree' /\ head' \in SUBSET (1..edits)
      /\ conf.revert /\ conf.vcs = "git" => tree' \ untracked' = cand.current \ untracked'
  <2>1. CASE conf.revert
    <3>1. cand.current \in Shas /\ ResetTo(cand.current)
      BY <1>1, <1>2, <2>1 DEF TypeOK
    <3> QED
      BY <1>1, <3>1, ResetTypes DEF Tree
  <2>2. CASE ~ conf.revert
    BY <1>1, <1>2, <2>2 DEF TypeOK, git
  <2> QED
    BY <2>1, <2>2
<1>6. TypeOK'
  BY <1>1, <1>2, <1>4, <1>5 DEF TypeOK, Rows, Shas
<1>7. \A j \in KeptRows : rows'[j] = rows[j]
  BY <1>4
<1>8. Pointers'
  <2>1. \A i \in DOMAIN rows : IsLast(i) => IsLast(i)' /\ i \in DOMAIN rows' /\ rows'[i] = rows[i]
    BY <1>4, <1>7 DEF IsLast
  <2>2. \A i \in DOMAIN rows : IsBest(i) => IsBest(i)' /\ i \in DOMAIN rows' /\ rows'[i] = rows[i]
    BY <1>4, <1>7 DEF IsBest
  <2>3. cand' = cand /\ Climbing /\ KeptRows' = KeptRows
    BY <1>1, <1>2, <1>4
  <2>4. /\ \E last \in DOMAIN rows' :
              IsLast(last)' /\ cand'.current = rows'[last].sha /\ cand'.score = rows'[last].value
        /\ \E best \in DOMAIN rows' :
              IsBest(best)' /\ cand'.best = rows'[best].sha /\ cand'.top = rows'[best].value
    BY <1>1, <2>1, <2>2, <2>3 DEF Pointers
  <2>5. cand'.score # NaN => \A j \in KeptRows' : rows'[j].value # NaN
    BY <1>1, <1>7, <2>3 DEF Pointers
  <2> QED
    BY <2>4, <2>5 DEF Pointers
<1>9. LedgerIsReproducible'
  BY <1>1, <1>2, <1>4, <1>7 DEF LedgerIsReproducible
<1>10. Tree'
  BY <1>1, <1>2, <1>5 DEF Tree
<1>11. Count'
  <2>1. /\ stagnation \in Nat /\ stagnation < Len(rows) /\ Len(rows) - stagnation \in KeptRows
        /\ \A i \in (Len(rows) - stagnation + 1)..Len(rows) : i \notin KeptRows
    BY <1>1 DEF Count, TypeOK
  <2>2. /\ stagnation' < Len(rows') /\ Len(rows') - stagnation' = Len(rows) - stagnation
        /\ \A i \in (Len(rows') - stagnation' + 1)..Len(rows') :
              i = n \/ i \in (Len(rows) - stagnation + 1)..Len(rows)
    <3>1. /\ stagnation' = stagnation + 1 /\ Len(rows') = Len(rows) + 1
          /\ Len(rows) \in Nat /\ stagnation \in Nat /\ stagnation < Len(rows)
      BY <1>2, <1>4, <2>1
    <3> QED
      BY <3>1
  <2>3. n \notin KeptRows
    BY <1>4
  <2> QED
    BY <1>2, <1>4, <2>1, <2>2, <2>3 DEF Count
<1> QED
  BY <1>6, <1>8, <1>9, <1>10, <1>11 DEF IInv

-----------------------------------------------------------------------------
(* The theorems.                                                           *)

LEMMA NextInv == IInv /\ [Next]_vars => IInv'
<1>1. ASSUME IInv, UNCHANGED vars
      PROVE  IInv'
  BY <1>1 DEF vars, IInv, TypeOK, Shas, Pointers, IsLast, IsBest, KeptRows, Climbing,
              LedgerIsReproducible, Tree, Count, Stagnated
<1> QED
  BY <1>1, BaselineInv, NotClimbingInv, GateInv, WinnerInv, TurnInv, KeepsInv, DiscardsInv
     DEF Next, Climb, Baseline, Gate, Turn, Measure

LEMMA InvHolds == Spec => []IInv
<1> QED
  BY InitInv, NextInv, PTL DEF Spec

\* The pointers of a climb are those of its ledger, for every metric and margin.
THEOREM CandidatesAreLedger == Spec => []CandidateIsLedger
<1> QED
  BY Implies, InvHolds, PTL

\* With version control that works, what a kept row names is what was measured for it.
THEOREM LedgersAreReproducible == Spec => []LedgerIsReproducible
<1> QED
  BY Implies, InvHolds, PTL

\* The workspace is accounted for between iterations and at every return.
THEOREM TreesAreAccounted == Spec => []TreeIsAccounted
<1> QED
  BY Implies, InvHolds, PTL

\* A climb stops for stagnation at exactly the limit.
THEOREM StagnationStaysExact == Spec => []StagnationIsExact
<1> QED
  BY Implies, InvHolds, PTL

=============================================================================
