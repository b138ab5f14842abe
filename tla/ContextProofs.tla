--------------------------- MODULE ContextProofs ---------------------------
(***************************************************************************)
(* What a turn loop sends along with its prompt, for every value of the    *)
(* constants.  The compaction of a session of any length: what the rich    *)
(* history stands for, what it counts as used, and when a summary that     *)
(* failed is taken.  The deferred tools of any catalogue: which of them    *)
(* are loaded and which a turn advertises.                                 *)
(***************************************************************************)
EXTENDS Compaction, ToolSearch, SequenceTheorems, FiniteSetTheorems, WellFoundedInduction,
        TLAPS

-----------------------------------------------------------------------------
(* Sums.                                                                   *)

\* Induction up to n over the members of a set.
LEMMA UpTo ==
    ASSUME NEW S, NEW n \in Nat, 0 \in S, \A i \in 1..n : i - 1 \in S => i \in S
    PROVE  \A i \in 0..n : i \in S
<1> DEFINE Left == (0..n) \ S
           Less == OpToRel(<, Nat)
<1>1. \A x, y \in Nat : <<x, y>> \in Less <=> x < y
  BY DEF OpToRel
<1>2. IsWellFoundedOn(Less, Nat)
  BY NatLessThanWellFounded
<1> HIDE DEF Less
<1>3. SUFFICES ASSUME Left # {} PROVE FALSE
  OBVIOUS
<1>4. PICK least \in Left : \A other \in Left : ~ (<<other, least>> \in Less)
  <2>1. Left \subseteq Nat
    OBVIOUS
  <2> HIDE DEF Left
  <2> QED
    BY <1>2, <1>3, <2>1, WFMin
<1>5. least \in 1..n /\ least - 1 \in 0..n /\ least \notin S
  BY <1>4
<1>6. least - 1 \in Left /\ least - 1 \in Nat /\ least \in Nat /\ least - 1 < least
  BY <1>5
<1> QED
  BY <1>1, <1>4, <1>6

\* The tokens of the first messages of a sequence, for every number of them.
Sums(s) ==
    CHOOSE sum : sum = [i \in 0..Len(s) |-> IF i = 0 THEN 0 ELSE sum[i - 1] + s[i].size]

\* Sequences of messages that have sizes.
Sized == {s \in Seq(Messages) : \A i \in DOMAIN s : s[i].size \in Nat}

LEMMA MessagesAreSized == \A m \in Messages : m.size \in Nat
BY CompactionAssumption DEF Messages

LEMMA AllSized == Seq(Messages) = Sized
<1>1. \A m \in Messages : m.size \in Nat
  BY MessagesAreSized
<1>2. ASSUME NEW s \in Seq(Messages), NEW i \in DOMAIN s
      PROVE  s[i] \in Messages
  BY <1>2
<1> QED
  BY <1>1, <1>2 DEF Sized

\* There is such a function, with the empty sum first.
LEMMA SumsAre ==
    ASSUME NEW s \in Seq(Messages)
    PROVE  /\ Len(s) \in Nat
           /\ Sums(s)[0] = 0
           /\ \A i \in 1..Len(s) : Sums(s)[i] = Sums(s)[i - 1] + s[i].size
           /\ Tokens(s) = Sums(s)[Len(s)]
<1> DEFINE n == Len(s)
           Is(sum, k) == sum = [i \in 0..k |-> IF i = 0 THEN 0 ELSE sum[i - 1] + s[i].size]
           S == {k \in 0..n : \E sum : Is(sum, k)}
<1>1. n \in Nat
  OBVIOUS
<1> HIDE DEF n
<1>2. 0 \in S
  <2> DEFINE sum == [i \in 0..0 |-> 0]
  <2>1. Is(sum, 0)
    OBVIOUS
  <2>2. \E any : Is(any, 0)
    BY <2>1
  <2> QED
    BY <1>1, <2>2
<1>3. ASSUME NEW k \in 1..n, k - 1 \in S
      PROVE  k \in S
  <2>1. PICK sum : Is(sum, k - 1)
    BY <1>3
  <2> DEFINE more == [i \in 0..k |-> IF i = k THEN sum[k - 1] + s[k].size ELSE sum[i]]
  <2>2. ASSUME NEW i \in 0..k
        PROVE  more[i] = IF i = 0 THEN 0 ELSE more[i - 1] + s[i].size
    <3>1. CASE i = k
      BY <1>1, <3>1
    <3>2. CASE i # k
      <4>1. i \in 0..(k - 1) /\ more[i] = sum[i]
        BY <1>1, <3>2
      <4>2. sum[i] = IF i = 0 THEN 0 ELSE sum[i - 1] + s[i].size
        BY <2>1, <4>1
      <4>3. i # 0 => more[i - 1] = sum[i - 1]
        BY <1>1, <4>1
      <4> QED
        BY <4>1, <4>2, <4>3
    <3> QED
      BY <3>1, <3>2
  <2>3. more = [i \in 0..k |-> more[i]]
    OBVIOUS
  <2> HIDE DEF more
  <2>4. Is(more, k)
    BY <2>2, <2>3
  <2> QED
    BY <1>1, <2>4
<1>4. n \in S
  <2> HIDE DEF S
  <2> QED
    BY <1>1, <1>2, <1>3, UpTo
<1>5. Is(Sums(s), n)
  <2>1. \E sum : Is(sum, n)
    BY <1>4
  <2> QED
    BY <2>1 DEF Sums, n
<1>6. Tokens(s) = Sums(s)[n]
  BY DEF Tokens, Sums, n
<1> QED
  BY <1>1, <1>5, <1>6 DEF n

\* Sums are numbers.
LEMMA SumsAreNumbers ==
    ASSUME NEW s \in Seq(Messages)
    PROVE  Tokens(s) \in Nat /\ \A i \in 0..Len(s) : Sums(s)[i] \in Nat
<1> DEFINE S == {i \in 0..Len(s) : Sums(s)[i] \in Nat}
<1>1. Len(s) \in Nat
  OBVIOUS
<1>2. 0 \in S
  BY <1>1, SumsAre
<1>3. ASSUME NEW i \in 1..Len(s), i - 1 \in S
      PROVE  i \in S
  <2>1. s[i].size \in Nat
    BY AllSized DEF Sized
  <2> QED
    BY <1>1, <1>3, <2>1, SumsAre
<1>4. \A i \in 0..Len(s) : i \in S
  <2> HIDE DEF S
  <2> QED
    BY <1>1, <1>2, <1>3, UpTo
<1> QED
  BY <1>1, <1>4, SumsAre

\* Sums that start apart and take the same steps stay as far apart.
LEMMA SumsGrowAlike ==
    ASSUME NEW s \in Seq(Messages), NEW t \in Seq(Messages), NEW from \in Nat,
           from + Len(s) <= Len(t), \A i \in 1..Len(s) : t[from + i] = s[i]
    PROVE  Sums(t)[from + Len(s)] = Sums(t)[from] + Tokens(s)
<1> DEFINE S == {i \in 0..Len(s) : Sums(t)[from + i] = Sums(t)[from] + Sums(s)[i]}
<1>1. Len(s) \in Nat /\ Len(t) \in Nat /\ from \in 0..Len(t) /\ Sums(t)[from] \in Nat
  BY SumsAreNumbers
<1>2. 0 \in S
  BY <1>1, SumsAre
<1>3. ASSUME NEW i \in 1..Len(s), i - 1 \in S
      PROVE  i \in S
  <2>1. /\ from + i \in 1..Len(t) /\ from + i - 1 = from + (i - 1)
        /\ i - 1 \in 0..Len(s) /\ i \in 0..Len(s)
    BY <1>1
  <2>2. /\ Sums(t)[from + i] = Sums(t)[from + (i - 1)] + t[from + i].size
        /\ Sums(s)[i] = Sums(s)[i - 1] + s[i].size
    BY <2>1, SumsAre
  <2>3. s[i].size \in Nat /\ Sums(s)[i - 1] \in Nat
    BY <2>1, SumsAreNumbers, AllSized DEF Sized
  <2>4. Sums(t)[from + (i - 1)] = Sums(t)[from] + Sums(s)[i - 1] /\ t[from + i] = s[i]
    BY <1>3
  <2>5. Sums(t)[from + i] = Sums(t)[from] + Sums(s)[i]
    BY ONLY <1>1, <2>2, <2>3, <2>4
  <2>6. i \in 0..Len(s)
    BY <2>1
  <2> QED
    BY ONLY <2>5, <2>6
<1>4. \A i \in 0..Len(s) : i \in S
  <2> HIDE DEF S
  <2> QED
    BY <1>1, <1>2, <1>3, UpTo
<1>5. Len(s) \in 0..Len(s) /\ Tokens(s) = Sums(s)[Len(s)]
  BY <1>1, SumsAre
<1>6. Sums(t)[from + Len(s)] = Sums(t)[from] + Sums(s)[Len(s)]
  BY <1>4, <1>5
<1> QED
  BY ONLY <1>5, <1>6

\* The tokens of two sequences one after the other.
LEMMA TokensOfBoth ==
    ASSUME NEW s \in Seq(Messages), NEW t \in Seq(Messages)
    PROVE  Tokens(s \o t) = Tokens(s) + Tokens(t)
<1> DEFINE both == s \o t
<1>1. /\ both \in Seq(Messages) /\ Len(both) = Len(s) + Len(t)
      /\ Len(s) \in Nat /\ Len(t) \in Nat
      /\ \A i \in 1..Len(s) : both[0 + i] = s[i]
      /\ \A i \in 1..Len(t) : both[Len(s) + i] = t[i]
  BY ConcatProperties
<1> HIDE DEF both
<1>2. Sums(both)[0 + Len(s)] = Sums(both)[0] + Tokens(s)
  BY <1>1, SumsGrowAlike
<1>3. Sums(both)[Len(s) + Len(t)] = Sums(both)[Len(s)] + Tokens(t)
  BY <1>1, SumsGrowAlike
<1>4. Sums(both)[0] = 0 /\ Tokens(both) = Sums(both)[Len(both)] /\ Tokens(s) \in Nat
  BY <1>1, SumsAre, SumsAreNumbers
<1> QED
  BY <1>1, <1>2, <1>3, <1>4 DEF both

\* The tokens of one message.
LEMMA TokensOfOne ==
    ASSUME NEW m \in Messages
    PROVE  Tokens(<<m>>) = m.size /\ m.size \in Nat
<1> DEFINE s == <<m>>
<1>1. s \in Seq(Messages) /\ Len(s) = 1 /\ s[1] = m
  OBVIOUS
<1>2. m.size \in Nat
  BY MessagesAreSized
<1> HIDE DEF s
<1>3. Sums(s)[1] = Sums(s)[1 - 1] + s[1].size /\ Sums(s)[0] = 0 /\ Tokens(s) = Sums(s)[1]
  <2>1. 1 \in 1..Len(s)
    BY <1>1
  <2> QED
    BY <1>1, <2>1, SumsAre
<1> QED
  BY <1>1, <1>2, <1>3 DEF s

\* The lower and the higher of two numbers.
LEMMA MinMaxAre ==
    ASSUME NEW a \in Int, NEW b \in Int
    PROVE  /\ Min({a, b}) = IF a <= b THEN a ELSE b
           /\ Max({a, b}) = IF a >= b THEN a ELSE b
<1>1. ASSUME NEW x \in {a, b}, \A y \in {a, b} : x <= y
      PROVE  x = IF a <= b THEN a ELSE b
  BY <1>1
<1>2. ASSUME NEW x \in {a, b}, \A y \in {a, b} : x >= y
      PROVE  x = IF a >= b THEN a ELSE b
  BY <1>2
<1>3. /\ \E x \in {a, b} : \A y \in {a, b} : x <= y
      /\ \E x \in {a, b} : \A y \in {a, b} : x >= y
  OBVIOUS
<1>4. /\ Min({a, b}) \in {a, b} /\ \A y \in {a, b} : Min({a, b}) <= y
      /\ Max({a, b}) \in {a, b} /\ \A y \in {a, b} : Max({a, b}) >= y
  BY <1>3 DEF Min, Max
<1> QED
  BY <1>1, <1>2, <1>4

-----------------------------------------------------------------------------
(* Histories.                                                              *)

\* The messages a history stands for come in order, each once.
InOrder(s) ==
    \A i, j \in DOMAIN s : i < j => \A a \in s[i].of, b \in s[j].of : a < b

LEMMA OfIs ==
    ASSUME NEW s
    PROVE  \A a : a \in Of(s) <=> \E i \in DOMAIN s : a \in s[i].of
BY DEF Of, ToSet

LEMMA OfMessages ==
    ASSUME NEW s \in Seq(Messages)
    PROVE  Of(s) \in SUBSET (1..MaxMessages)
<1>1. ASSUME NEW i \in DOMAIN s
      PROVE  s[i].of \in SUBSET (1..MaxMessages)
  <2>1. s[i] \in Messages
    OBVIOUS
  <2> QED
    BY <2>1 DEF Messages
<1> QED
  BY <1>1, OfIs

\* A message more, and later than all before it.
LEMMA OneMore ==
    ASSUME NEW s \in Seq(Messages), NEW m \in Messages, NEW n \in Nat,
           m.of = {n}, Of(s) \subseteq 1..(n - 1), InOrder(s)
    PROVE  /\ Append(s, m) \in Seq(Messages)
           /\ Of(Append(s, m)) = Of(s) \cup {n}
           /\ InOrder(Append(s, m))
<1> DEFINE more == Append(s, m)
           last == Len(s) + 1
<1>1. /\ more \in Seq(Messages) /\ DOMAIN more = DOMAIN s \cup {last}
      /\ more[last] = m /\ \A i \in DOMAIN s : more[i] = s[i] /\ i < last /\ i \in Nat
      /\ last \in Nat
  OBVIOUS
<1> HIDE DEF more, last
<1>2. Of(more) = Of(s) \cup {n}
  BY <1>1, OfIs
<1>3. \A i \in DOMAIN s : \A a \in s[i].of : a < n
  <2>1. \A a \in Of(s) : a < n
    OBVIOUS
  <2> QED
    BY <2>1, OfIs
<1>4. InOrder(more)
  BY <1>1, <1>3 DEF InOrder
<1> QED
  BY <1>1, <1>2, <1>4 DEF more

\* The first messages of a history and the rest.
LEMMA CutInTwo ==
    ASSUME NEW s \in Seq(Messages), NEW cut \in 0..Len(s)
    PROVE  LET old == SubSeq(s, 1, cut)
               kept == SubSeq(s, cut + 1, Len(s)) IN
           /\ old \in Seq(Messages) /\ kept \in Seq(Messages)
           /\ Len(old) = cut /\ Len(kept) = Len(s) - cut
           /\ s = old \o kept
           /\ \A i \in 1..cut : old[i] = s[i]
           /\ \A i \in 1..(Len(s) - cut) : kept[i] = s[cut + i]
           /\ Of(s) = Of(old) \cup Of(kept)
           /\ Tokens(s) = Tokens(old) + Tokens(kept)
<1> DEFINE old == SubSeq(s, 1, cut)
           kept == SubSeq(s, cut + 1, Len(s))
<1>1. /\ old \in Seq(Messages) /\ kept \in Seq(Messages)
      /\ Len(old) = cut /\ Len(kept) = Len(s) - cut
      /\ Len(s) \in Nat /\ cut \in Nat
      /\ \A i \in 1..cut : old[i] = s[i]
      /\ \A i \in 1..(Len(s) - cut) : kept[i] = s[cut + i]
  OBVIOUS
<1> HIDE DEF old, kept
<1>2. s = old \o kept
  <2>1. /\ old \o kept \in Seq(Messages) /\ Len(old \o kept) = Len(s)
        /\ \A i \in 1..Len(s) : (old \o kept)[i] =
              IF i <= cut THEN old[i] ELSE kept[i - cut]
    BY <1>1, ConcatProperties
  <2>2. \A i \in 1..Len(s) : (old \o kept)[i] = s[i]
    BY <1>1, <2>1
  <2> QED
    BY <2>1, <2>2, SeqEqual
<1>3. Of(s) = Of(old) \cup Of(kept)
  <2>1. DOMAIN s = 1..Len(s) /\ DOMAIN old = 1..cut /\ DOMAIN kept = 1..(Len(s) - cut)
    BY <1>1
  <2>2. ASSUME NEW a \in Of(s)
        PROVE  a \in Of(old) \cup Of(kept)
    <3>1. PICK i \in DOMAIN s : a \in s[i].of
      BY OfIs
    <3>2. CASE i <= cut
      BY <1>1, <2>1, <3>1, <3>2, OfIs
    <3>3. CASE i > cut
      <4>1. i - cut \in 1..(Len(s) - cut) /\ cut + (i - cut) = i
        BY <1>1, <2>1, <3>3
      <4>2. kept[i - cut] = s[i]
        BY <1>1, <4>1
      <4> QED
        BY <2>1, <3>1, <4>1, <4>2, OfIs
    <3> QED
      BY <1>1, <2>1, <3>2, <3>3
  <2>3. ASSUME NEW a \in Of(old)
        PROVE  a \in Of(s)
    <3>1. PICK i \in DOMAIN old : a \in old[i].of
      BY OfIs
    <3>2. i \in DOMAIN s /\ s[i] = old[i]
      BY <1>1, <2>1
    <3> QED
      BY <3>1, <3>2, OfIs
  <2>4. ASSUME NEW a \in Of(kept)
        PROVE  a \in Of(s)
    <3>1. PICK i \in DOMAIN kept : a \in kept[i].of
      BY OfIs
    <3>2. cut + i \in DOMAIN s /\ s[cut + i] = kept[i]
      BY <1>1, <2>1
    <3> QED
      BY <3>1, <3>2, OfIs
  <2> QED
    BY <2>2, <2>3, <2>4
<1>4. Tokens(s) = Tokens(old) + Tokens(kept)
  BY <1>1, <1>2, TokensOfBoth
<1> QED
  BY <1>1, <1>2, <1>3, <1>4 DEF old, kept

\* One message before others.
LEMMA ConsIs ==
    ASSUME NEW m \in Messages, NEW kept \in Seq(Messages)
    PROVE  /\ <<m>> \o kept \in Seq(Messages) /\ Len(<<m>> \o kept) = 1 + Len(kept)
           /\ (<<m>> \o kept)[1] = m
           /\ \A i \in 1..Len(kept) : (<<m>> \o kept)[1 + i] = kept[i]
<1> DEFINE one == <<m>>
<1>1. one \in Seq(Messages) /\ Len(one) = 1 /\ one[1] = m
  OBVIOUS
<1> HIDE DEF one
<1>2. /\ one \o kept \in Seq(Messages) /\ Len(one \o kept) = 1 + Len(kept)
      /\ Len(kept) \in Nat
      /\ \A i \in 1..(1 + Len(kept)) :
            (one \o kept)[i] = IF i <= 1 THEN one[i] ELSE kept[i - 1]
  <2>1. /\ one \o kept \in Seq(Messages) /\ Len(one \o kept) = Len(one) + Len(kept)
        /\ \A i \in 1..(Len(one) + Len(kept)) :
              (one \o kept)[i] = IF i <= Len(one) THEN one[i] ELSE kept[i - Len(one)]
    BY <1>1, ConcatProperties
  <2>2. Len(kept) \in Nat
    OBVIOUS
  <2> QED
    BY <1>1, <2>1, <2>2
<1>3. (one \o kept)[1] = m
  BY <1>1, <1>2
<1>4. ASSUME NEW i \in 1..Len(kept)
      PROVE  (one \o kept)[1 + i] = kept[i]
  BY <1>2
<1> QED
  BY <1>2, <1>3, <1>4 DEF one

\* A summary takes the place of the first messages: the history stands for what it did.
LEMMA SummaryStands ==
    ASSUME NEW s \in Seq(Messages), NEW cut \in 1..Len(s), NEW size \in Sizes \cup Summaries,
           InOrder(s)
    PROVE  LET m == [size |-> size, of |-> Of(SubSeq(s, 1, cut))]
               new == <<m>> \o SubSeq(s, cut + 1, Len(s)) IN
           /\ m \in Messages /\ new \in Seq(Messages)
           /\ Of(new) = Of(s) /\ InOrder(new)
           /\ Tokens(new) = size + Tokens(SubSeq(s, cut + 1, Len(s)))
<1> DEFINE old == SubSeq(s, 1, cut)
           kept == SubSeq(s, cut + 1, Len(s))
           m == [size |-> size, of |-> Of(old)]
           new == <<m>> \o kept
<1>1. /\ old \in Seq(Messages) /\ kept \in Seq(Messages)
      /\ Len(old) = cut /\ Len(kept) = Len(s) - cut /\ Len(s) \in Nat /\ cut \in Nat
      /\ \A i \in 1..cut : old[i] = s[i]
      /\ \A i \in 1..(Len(s) - cut) : kept[i] = s[cut + i]
      /\ Of(s) = Of(old) \cup Of(kept)
  <2>1. cut \in 0..Len(s) /\ cut \in Nat /\ Len(s) \in Nat
    OBVIOUS
  <2> QED
    BY <2>1, CutInTwo
<1> HIDE DEF old, kept
<1>2. m \in Messages /\ m.of = Of(old) /\ m.size = size
  BY <1>1, OfMessages DEF Messages
<1> HIDE DEF m
<1>3. /\ new \in Seq(Messages) /\ Len(new) = 1 + Len(kept)
      /\ new[1] = m /\ \A i \in 1..Len(kept) : new[1 + i] = kept[i]
  BY <1>1, <1>2, ConsIs
<1>4. Tokens(new) = size + Tokens(kept)
  <2>1. Tokens(<<m>>) = size
    BY <1>2, TokensOfOne
  <2>2. <<m>> \in Seq(Messages)
    BY <1>2
  <2> QED
    BY <1>1, <2>1, <2>2, TokensOfBoth
<1> HIDE DEF new
<1>5. /\ DOMAIN new = 1..(1 + Len(kept)) /\ DOMAIN kept = 1..Len(kept)
      /\ DOMAIN s = 1..Len(s) /\ DOMAIN old = 1..cut /\ Len(kept) \in Nat
  BY <1>1, <1>3
<1>6. Of(new) = Of(s)
  <2>1. ASSUME NEW a \in Of(new)
        PROVE  a \in Of(old) \cup Of(kept)
    <3>1. PICK i \in DOMAIN new : a \in new[i].of
      BY OfIs
    <3>2. CASE i = 1
      BY <1>2, <1>3, <3>1, <3>2
    <3>3. CASE i # 1
      <4>1. i - 1 \in 1..Len(kept) /\ 1 + (i - 1) = i
        BY <1>5, <3>3
      <4>2. kept[i - 1] = new[i]
        BY <1>3, <4>1
      <4> QED
        BY <1>5, <3>1, <4>1, <4>2, OfIs
    <3> QED
      BY <3>2, <3>3
  <2>2. ASSUME NEW a \in Of(old)
        PROVE  a \in Of(new)
    <3>1. 1 \in DOMAIN new
      BY <1>5
    <3> QED
      BY <1>2, <1>3, <3>1, OfIs
  <2>3. ASSUME NEW a \in Of(kept)
        PROVE  a \in Of(new)
    <3>1. PICK i \in DOMAIN kept : a \in kept[i].of
      BY OfIs
    <3>2. 1 + i \in DOMAIN new /\ new[1 + i] = kept[i]
      BY <1>3, <1>5
    <3> QED
      BY <3>1, <3>2, OfIs
  <2> QED
    BY <1>1, <2>1, <2>2, <2>3
<1>7. InOrder(new)
  <2> SUFFICES ASSUME NEW i \in DOMAIN new, NEW j \in DOMAIN new, i < j,
                      NEW a \in new[i].of, NEW b \in new[j].of
               PROVE  a < b
    BY DEF InOrder
  <2>1. j - 1 \in 1..Len(kept) /\ 1 + (j - 1) = j /\ cut + (j - 1) \in DOMAIN s
    BY <1>1, <1>5
  <2>2. new[j] = s[cut + (j - 1)]
    BY <1>1, <1>3, <2>1
  <2>3. CASE i = 1
    <3>1. PICK k \in DOMAIN old : a \in old[k].of
      BY <1>2, <1>3, <2>3, OfIs
    <3>2. k \in DOMAIN s /\ s[k] = old[k] /\ k < cut + (j - 1)
      BY <1>1, <1>5, <2>1
    <3>3. b \in s[cut + (j - 1)].of /\ cut + (j - 1) \in DOMAIN s /\ a \in s[k].of
      BY <2>1, <2>2, <3>1, <3>2
    <3>4. \A x \in s[k].of, y \in s[cut + (j - 1)].of : x < y
      BY <3>2, <3>3 DEF InOrder
    <3> QED
      BY ONLY <3>3, <3>4
  <2>4. CASE i # 1
    <3>1. /\ i - 1 \in 1..Len(kept) /\ 1 + (i - 1) = i /\ cut + (i - 1) \in DOMAIN s
          /\ cut + (i - 1) < cut + (j - 1)
      <4>1. i \in 1..(1 + Len(kept)) /\ j \in 1..(1 + Len(kept)) /\ Len(kept) \in Nat
        BY <1>5
      <4>2. i - 1 \in 1..Len(kept) /\ 1 + (i - 1) = i /\ i - 1 < j - 1
        BY ONLY <2>4, <4>1, i < j
      <4>3. cut + (i - 1) \in DOMAIN s /\ cut + (i - 1) < cut + (j - 1)
        BY ONLY <1>1, <1>5, <4>1, <4>2
      <4> QED
        BY <4>2, <4>3
    <3>2. new[i] = s[cut + (i - 1)]
      BY <1>1, <1>3, <3>1
    <3>3. /\ b \in s[cut + (j - 1)].of /\ cut + (j - 1) \in DOMAIN s
          /\ a \in s[cut + (i - 1)].of
      BY <2>1, <2>2, <3>2
    <3>4. \A x \in s[cut + (i - 1)].of, y \in s[cut + (j - 1)].of : x < y
      BY <3>1, <3>3 DEF InOrder
    <3> QED
      BY ONLY <3>3, <3>4
  <2> QED
    BY <2>3, <2>4
<1> QED
  BY <1>2, <1>3, <1>4, <1>6, <1>7 DEF old, kept, m, new

-----------------------------------------------------------------------------
(* Compaction: the invariant.                                              *)

\* The session's messages are in order and named below the next one, so that a host can
\* seed with them at any time; the rich history stands for what it was seeded with; and a
\* compaction under way replaces the first messages of that history.
Whole ==
    /\ TypeOK
    /\ InOrder(messages) /\ Of(messages) \subseteq 1..(next - 1)
    /\ rich.is => /\ Of(rich.history) = seeded /\ InOrder(rich.history)
                  /\ seeded \subseteq 1..(next - 1)
    /\ phase = "compacting" =>
          /\ rich.is /\ Cut > 0
          /\ dropped = SubSeq(rich.history, 1, Cut)

\* The summaries tried so far have failed; the one that was taken passed, or was the last.
Tried ==
    /\ phase = "compacting" => TRUE \notin ToSet(verdicts) /\ Len(verdicts) < MaxAttempts
    /\ phase # "compacting" /\ verdicts # <<>> =>
          /\ warned = ~ Last(verdicts)
          /\ Len(verdicts) <= MaxAttempts
          /\ warned => Len(verdicts) = MaxAttempts /\ TRUE \notin ToSet(verdicts)

IInv == Whole /\ Tried /\ UsedIsExact

\* What the state holds.
LEMMA Types ==
    ASSUME TypeOK
    PROVE  /\ messages \in Seq(Messages) /\ dropped \in Seq(Messages)
           /\ rich.history \in Seq(Messages) /\ rich.used \in Nat /\ rich.window \in Windows
           /\ rich.is \in BOOLEAN /\ rich.terms \in BOOLEAN
           /\ next \in Nat /\ next > 0 /\ Len(rich.history) \in Nat
           /\ Keep \in Nat /\ MaxMessages \in Nat
           /\ overhead \in Int
<1>1. /\ messages \in Seq(Messages) /\ dropped \in Seq(Messages)
      /\ rich.history \in Seq(Messages) /\ rich.used \in Nat /\ rich.window \in Windows
      /\ rich.is \in BOOLEAN /\ rich.terms \in BOOLEAN
      /\ next \in 1..MaxMessages + 1 /\ overhead \in Overheads \cup {0}
  BY DEF TypeOK
<1>2. /\ Keep \in Nat /\ MaxMessages \in Nat /\ Overheads \subseteq Int
  BY CompactionAssumption
<1> QED
  BY <1>1, <1>2

LEMMA InitInv == Init => IInv
<1> SUFFICES ASSUME Init PROVE IInv
  OBVIOUS
<1>1. /\ messages = <<>> /\ phase = "loop" /\ dropped = <<>> /\ verdicts = <<>>
      /\ warned = FALSE /\ next = 1 /\ seeds = 0 /\ overhead = 0 /\ outgrown = FALSE
  BY DEF Init
<1>2. PICK w \in Windows, t \in BOOLEAN :
          rich = [is |-> FALSE, history |-> <<>>, used |-> 0, window |-> w, terms |-> t]
  BY DEF Init
<1>3. <<>> \in Seq(Messages) /\ <<>> \in Seq(BOOLEAN) /\ DOMAIN <<>> = {}
  OBVIOUS
<1>4. 1 \in 1..MaxMessages + 1 /\ 0 \in 0..MaxSeeds
  BY CompactionAssumption
<1>5. /\ rich \in [is : BOOLEAN, history : Seq(Messages), used : Nat, window : Windows,
                   terms : BOOLEAN]
      /\ ~ rich.is
  BY <1>2, <1>3
<1>6. TypeOK
  BY <1>1, <1>3, <1>4, <1>5 DEF TypeOK
<1>7. InOrder(messages) /\ Of(messages) = {}
  BY <1>1, <1>3, OfIs DEF InOrder
<1> QED
  BY <1>1, <1>5, <1>6, <1>7 DEF IInv, Whole, Tried, UsedIsExact

\* A host seeds: the rich history is the session so far.
LEMMA SeedsInv == ASSUME IInv, NEW over \in Overheads, Seeds(over) PROVE IInv'
<1>1. /\ Whole /\ Tried /\ TypeOK /\ phase = "loop"
      /\ seeds < MaxSeeds /\ seeds' = seeds + 1 /\ Tokens(messages) + over >= 0
      /\ rich' = [rich EXCEPT !.is = TRUE, !.history = messages,
                              !.used = Tokens(messages) + over]
      /\ seeded' = Of(messages) /\ overhead' = over /\ outgrown' = FALSE
      /\ UNCHANGED <<messages, phase, dropped, verdicts, warned, next>>
  BY DEF IInv, Whole, Seeds
<1>2. /\ messages \in Seq(Messages) /\ Tokens(messages) \in Nat /\ over \in Int
      /\ MaxSeeds \in Nat
  BY <1>1, Types, SumsAreNumbers, CompactionAssumption
<1>3. Tokens(messages) + over \in Nat
  BY <1>1, <1>2
<1>4. /\ rich' \in [is : BOOLEAN, history : Seq(Messages), used : Nat, window : Windows,
                    terms : BOOLEAN]
      /\ rich'.history = messages /\ rich'.used = Tokens(messages) + over
  BY <1>1, <1>2, <1>3 DEF TypeOK
<1>5. seeds' \in 0..MaxSeeds
  BY <1>1, <1>2 DEF TypeOK
<1>6. TypeOK'
  BY <1>1, <1>4, <1>5 DEF TypeOK
<1>7. Whole'
  BY <1>1, <1>4, <1>6 DEF Whole, InOrder, Of, ToSet
<1>8. Tried'
  BY <1>1 DEF Tried
<1>9. UsedIsExact'
  BY <1>1, <1>4 DEF UsedIsExact, Tokens
<1> QED
  BY <1>7, <1>8, <1>9 DEF IInv

\* A message more in the session leaves the rich history alone.
LEMMA Append1Inv ==
    ASSUME IInv, phase = "loop", NEW size \in Sizes, Append1(size),
           phase' \in {"loop", "batched"},
           UNCHANGED <<rich, dropped, verdicts, warned, seeds, seeded, overhead, outgrown>>
    PROVE  IInv'
<1> DEFINE m == [size |-> size, of |-> {next}]
<1>1. /\ Whole /\ Tried /\ UsedIsExact /\ TypeOK
      /\ next <= MaxMessages /\ next' = next + 1 /\ messages' = Append(messages, m)
  BY DEF IInv, Whole, Append1
<1>2. /\ messages \in Seq(Messages) /\ next \in Nat /\ next > 0 /\ MaxMessages \in Nat
      /\ rich.is \in BOOLEAN
  BY <1>1, Types
<1>3. m \in Messages /\ m.of = {next}
  BY <1>1, <1>2 DEF Messages
<1> HIDE DEF m
<1>4. /\ messages' \in Seq(Messages) /\ InOrder(messages)'
      /\ Of(messages)' = Of(messages) \cup {next}
  <2>1. Of(messages) \subseteq 1..(next - 1) /\ InOrder(messages)
    BY <1>1 DEF Whole
  <2>2. /\ Append(messages, m) \in Seq(Messages)
        /\ Of(Append(messages, m)) = Of(messages) \cup {next}
        /\ InOrder(Append(messages, m))
    BY <1>2, <1>3, <2>1, OneMore
  <2> QED
    BY <1>1, <2>2 DEF InOrder, Of, ToSet
<1>5. 1..(next - 1) \cup {next} = 1..(next' - 1)
  BY <1>1, <1>2
<1>6. TypeOK'
  <2>1. next' \in 1..MaxMessages + 1
    BY <1>1, <1>2
  <2> QED
    BY <1>1, <1>4, <2>1 DEF TypeOK
<1>7. Whole'
  <2>1. rich'.is => /\ Of(rich'.history) = seeded' /\ InOrder(rich'.history)
                    /\ seeded' \subseteq 1..(next' - 1)
    BY <1>1, <1>5 DEF Whole
  <2>2. Of(messages)' \subseteq 1..(next' - 1)
    BY <1>1, <1>4, <1>5 DEF Whole
  <2> QED
    BY <1>4, <1>6, <2>1, <2>2 DEF Whole, InOrder, Of, ToSet
<1>8. Tried'
  BY <1>1 DEF Tried
<1>9. UsedIsExact'
  BY <1>1 DEF UsedIsExact, Tokens
<1> QED
  BY <1>7, <1>8, <1>9 DEF IInv

LEMMA SpeaksInv == ASSUME IInv, NEW size \in Sizes, Speaks(size) \/ EndsBatch(size) PROVE IInv'
BY Append1Inv DEF Speaks, EndsBatch

\* The messages to replace are the first of the rich history.
LEMMA PreparesInv == ASSUME IInv, Prepares PROVE IInv'
<1>1. /\ Whole /\ Tried /\ UsedIsExact /\ TypeOK /\ phase = "batched"
      /\ UNCHANGED <<messages, rich, next, seeds, seeded, overhead, outgrown>>
  BY DEF IInv, Whole, Prepares
<1>2. CASE phase' = "loop" /\ UNCHANGED <<dropped, verdicts, warned>>
  <2>1. Whole'
    BY <1>1, <1>2 DEF Whole, TypeOK, InOrder, Of, ToSet
  <2>2. Tried'
    BY <1>1, <1>2 DEF Tried
  <2>3. UsedIsExact'
    BY <1>1 DEF UsedIsExact, Tokens
  <2> QED
    BY <2>1, <2>2, <2>3 DEF IInv
<1>3. CASE /\ ShouldCompact /\ Cut > 0
           /\ phase' = "compacting" /\ verdicts' = <<>> /\ warned' = FALSE
           /\ dropped' = SubSeq(rich.history, 1, Cut)
  <2>1. rich.is /\ rich.history \in Seq(Messages) /\ Cut \in 0..Len(rich.history)
    <3>1. rich.is /\ Cut > 0
      BY <1>3 DEF ShouldCompact
    <3>2. /\ rich.history \in Seq(Messages)
          /\ Len(rich.history) \in Nat /\ Keep \in Nat
      BY <1>1, Types
    <3>3. Cut \in 0..Len(rich.history)
      BY ONLY <3>1, <3>2 DEF Cut
    <3> QED
      BY <3>1, <3>2, <3>3
  <2>2. dropped' \in Seq(Messages)
    <3>1. SubSeq(rich.history, 1, Cut) \in Seq(Messages)
      BY <2>1, CutInTwo
    <3> QED
      BY <1>3, <3>1
  <2>3. <<>> \in Seq(BOOLEAN) /\ ToSet(<<>>) = {} /\ Len(<<>>) = 0
    BY DEF ToSet
  <2>4. TypeOK'
    BY <1>1, <1>3, <2>2, <2>3 DEF TypeOK
  <2>5. Whole'
    <3>1. rich.is /\ Cut' > 0 /\ dropped' = SubSeq(rich.history, 1, Cut)' /\ rich' = rich
      BY <1>1, <1>3, <2>1 DEF Cut
    <3>2. InOrder(messages)' /\ Of(messages)' \subseteq 1..(next' - 1)
      BY <1>1 DEF Whole, InOrder, Of, ToSet
    <3>3. /\ Of(rich.history)' = seeded' /\ InOrder(rich.history)'
          /\ seeded' \subseteq 1..(next' - 1)
      BY <1>1, <2>1 DEF Whole, InOrder, Of, ToSet
    <3> QED
      BY <2>4, <3>1, <3>2, <3>3 DEF Whole
  <2>6. Tried'
    BY <1>3, <2>3, CompactionAssumption DEF Tried, ToSet
  <2>7. UsedIsExact'
    BY <1>1 DEF UsedIsExact, Tokens
  <2> QED
    BY <2>5, <2>6, <2>7 DEF IInv
<1> QED
  BY <1>2, <1>3 DEF Prepares

\* Taking a summary: the history stands for what it did, and the summary is counted in
\* place of what it replaces.
LEMMA AcceptsInv ==
    ASSUME Whole, UsedIsExact, phase = "compacting", NEW size \in Summaries, Accepts(size),
           verdicts' \in Seq(BOOLEAN), warned' \in BOOLEAN,
           UNCHANGED <<next, seeds, seeded, overhead>>
    PROVE  Whole' /\ UsedIsExact'
<1> DEFINE history == rich.history
           kept == SubSeq(history, Cut + 1, Len(history))
           m == [size |-> size, of |-> Of(dropped)]
           new == <<m>> \o kept
<1>1. /\ TypeOK /\ rich.is /\ Cut > 0 /\ dropped = SubSeq(history, 1, Cut)
      /\ Of(history) = seeded /\ InOrder(history) /\ seeded \subseteq 1..(next - 1)
  BY DEF Whole
<1>2. /\ rich' = [rich EXCEPT !.history = new, !.used = @ - Reclaimed(size)]
      /\ messages' = rich'.history
      /\ outgrown' = (outgrown \/ size > Tokens(dropped))
      /\ phase' = "loop" /\ dropped' = <<>>
  BY DEF Accepts
<1>3. /\ history \in Seq(Messages) /\ Cut \in 1..Len(history) /\ Cut \in 0..Len(history)
      /\ rich.used \in Nat /\ overhead \in Int
      /\ size \in Nat /\ size \in Sizes \cup Summaries
  <2>1. /\ rich.history \in Seq(Messages) /\ Len(rich.history) \in Nat /\ Keep \in Nat
        /\ rich.used \in Nat /\ overhead \in Int
    BY <1>1, Types
  <2>2. Cut \in 1..Len(rich.history) /\ Cut \in 0..Len(rich.history)
    BY ONLY <1>1, <2>1 DEF Cut
  <2>3. size \in Nat /\ size \in Sizes \cup Summaries
    BY CompactionAssumption
  <2> QED
    BY <2>1, <2>2, <2>3
<1>4. /\ new \in Seq(Messages) /\ Of(new) = Of(history) /\ InOrder(new)
      /\ Tokens(new) = size + Tokens(kept)
  BY <1>1, <1>3, SummaryStands
<1>5. /\ Tokens(dropped) \in Nat /\ Tokens(kept) \in Nat
      /\ Tokens(history) = Tokens(dropped) + Tokens(kept)
  BY <1>1, <1>3, CutInTwo, SumsAreNumbers
<1> HIDE DEF new, kept, m, history
<1>6. /\ Reclaimed(size) \in Nat /\ rich.used - Reclaimed(size) \in Nat
      /\ Tokens(dropped) >= size /\ rich.used >= Tokens(dropped) =>
            Reclaimed(size) = Tokens(dropped) - size
  <2> DEFINE gain == Tokens(dropped) - size
             most == Max({gain, 0})
  <2>1. gain \in Int
    BY <1>3, <1>5
  <2> HIDE DEF gain
  <2>2. most = IF gain >= 0 THEN gain ELSE 0
    <3>1. 0 \in Int
      OBVIOUS
    <3> QED
      BY <2>1, <3>1, MinMaxAre
  <2>3. most \in Nat
    BY <2>1, <2>2
  <2> HIDE DEF most
  <2>4. Min({most, rich.used}) = IF most <= rich.used THEN most ELSE rich.used
    BY <1>3, <2>3, MinMaxAre
  <2>5. Reclaimed(size) = Min({most, rich.used})
    BY DEF Reclaimed, most, gain
  <2> QED
    BY <1>3, <1>5, <2>1, <2>2, <2>3, <2>4, <2>5 DEF gain
<1>7. /\ rich' \in [is : BOOLEAN, history : Seq(Messages), used : Nat, window : Windows,
                    terms : BOOLEAN]
      /\ rich'.history = new /\ rich'.used = rich.used - Reclaimed(size) /\ rich'.is
  BY <1>1, <1>2, <1>4, <1>6 DEF TypeOK
<1>8. TypeOK'
  <2>1. outgrown' \in BOOLEAN
    BY <1>1, <1>2 DEF TypeOK
  <2>2. messages' \in Seq(Messages) /\ dropped' \in Seq(Messages)
    BY <1>2, <1>4, <1>7
  <2> QED
    BY <1>1, <1>2, <1>7, <2>1, <2>2 DEF TypeOK
<1>9. Whole'
  <2>1. Of(new) = seeded' /\ InOrder(new) /\ seeded' \subseteq 1..(next' - 1)
    BY <1>1, <1>4 DEF history
  <2>2. messages' = new /\ rich'.history = new
    BY <1>2, <1>7
  <2>3. Of(messages)' = Of(new) /\ InOrder(messages)' = InOrder(new)
    BY <2>2 DEF Of, ToSet, InOrder
  <2>4. Of(rich.history)' = Of(new) /\ InOrder(rich.history)' = InOrder(new)
    BY <2>2 DEF Of, ToSet, InOrder
  <2> QED
    BY <1>2, <1>8, <2>1, <2>3, <2>4 DEF Whole
<1>10. UsedIsExact'
  <2> SUFFICES ASSUME ~ outgrown', overhead >= 0
               PROVE  rich'.used = Tokens(new) + overhead
    <3>1. Tokens(rich.history)' = Tokens(new)
      BY <1>7 DEF Tokens
    <3> QED
      BY <3>1 DEF UsedIsExact
  <2>1. ~ outgrown /\ ~ (size > Tokens(dropped))
    BY <1>2
  <2>2. rich.used = Tokens(history) + overhead
    BY <1>1, <2>1 DEF UsedIsExact, history
  <2>3. Reclaimed(size) = Tokens(dropped) - size
    BY <1>3, <1>5, <1>6, <2>1, <2>2
  <2> QED
    BY <1>3, <1>4, <1>5, <1>7, <2>2, <2>3
<1> QED
  BY <1>9, <1>10

\* One summary more: it fails and there are attempts left, or it is taken.
LEMMA SummarisesInv == ASSUME IInv, NEW size \in Summaries, Summarises(size) PROVE IInv'
<1>1. /\ Whole /\ Tried /\ UsedIsExact /\ TypeOK /\ phase = "compacting"
      /\ UNCHANGED <<next, seeds, seeded, overhead>>
  BY DEF IInv, Whole, Summarises
<1>2. PICK passed \in Verdict(size) :
          /\ verdicts' = Append(verdicts, passed)
          /\ IF ~ passed /\ AttemptsLeft
             THEN Retries
             ELSE Accepts(size) /\ warned' = ~ passed
  BY DEF Summarises
<1>3. passed \in BOOLEAN
  BY DEF Verdict
<1>4. /\ verdicts \in Seq(BOOLEAN) /\ Len(verdicts) < MaxAttempts
      /\ TRUE \notin ToSet(verdicts) /\ MaxAttempts \in Nat
  BY <1>1, CompactionAssumption DEF Tried, TypeOK
<1>5. /\ verdicts' \in Seq(BOOLEAN) /\ Len(verdicts') = Len(verdicts) + 1
      /\ Last(verdicts') = passed /\ Len(verdicts) \in Nat
      /\ ~ passed => TRUE \notin ToSet(verdicts')
  <2>1. /\ verdicts' \in Seq(BOOLEAN) /\ Len(verdicts') = Len(verdicts) + 1
        /\ Len(verdicts) \in Nat /\ DOMAIN verdicts' = 1..Len(verdicts')
        /\ DOMAIN verdicts = 1..Len(verdicts)
        /\ verdicts'[Len(verdicts) + 1] = passed
        /\ \A i \in 1..Len(verdicts) : verdicts'[i] = verdicts[i]
    BY <1>2, <1>3, <1>4
  <2>2. Last(verdicts') = passed
    BY <2>1 DEF Last
  <2>3. ASSUME ~ passed, NEW i \in DOMAIN verdicts', verdicts'[i] = TRUE
        PROVE  FALSE
    <3>1. CASE i = Len(verdicts) + 1
      BY <2>1, <2>3, <3>1
    <3>2. CASE i # Len(verdicts) + 1
      <4>1. i \in 1..Len(verdicts)
        BY <2>1, <3>2
      <4> QED
        BY <1>4, <2>1, <2>3, <4>1 DEF ToSet
    <3> QED
      BY <3>1, <3>2
  <2>4. ~ passed => TRUE \notin ToSet(verdicts')
    BY <2>3 DEF ToSet
  <2> QED
    BY <2>1, <2>2, <2>4
<1>6. CASE ~ passed /\ AttemptsLeft /\ Retries
  <2>1. UNCHANGED <<messages, rich, phase, dropped, warned, outgrown>>
    BY <1>6 DEF Retries
  <2>2. TypeOK'
    BY <1>1, <1>5, <2>1 DEF TypeOK
  <2>3. Whole'
    BY <1>1, <2>1, <2>2 DEF Whole, InOrder, Of, ToSet, Cut
  <2>4. Tried'
    BY <1>1, <1>5, <1>6, <2>1 DEF Tried, AttemptsLeft
  <2>5. UsedIsExact'
    BY <1>1, <2>1 DEF UsedIsExact, Tokens
  <2> QED
    BY <2>3, <2>4, <2>5 DEF IInv
<1>7. CASE ~ (~ passed /\ AttemptsLeft) /\ Accepts(size) /\ warned' = ~ passed
  <2>1. Whole' /\ UsedIsExact'
    BY <1>1, <1>3, <1>5, <1>7, AcceptsInv
  <2>2. phase' = "loop"
    BY <1>7 DEF Accepts
  <2>3. ~ passed => Len(verdicts') = MaxAttempts
    BY <1>4, <1>5, <1>7 DEF AttemptsLeft
  <2>4. Len(verdicts') <= MaxAttempts
    BY <1>4, <1>5
  <2>5. Tried'
    BY <1>5, <1>7, <2>2, <2>3, <2>4 DEF Tried
  <2> QED
    BY <2>1, <2>5 DEF IInv
<1> QED
  BY <1>2, <1>6, <1>7

LEMMA StutterInv == ASSUME IInv, UNCHANGED vars PROVE IInv'
<1>1. UNCHANGED <<messages, rich, phase, dropped, verdicts, warned, next, seeds, seeded,
                  overhead, outgrown>>
  BY DEF vars
<1>2. Whole'
  <2>1. TypeOK'
    BY <1>1 DEF IInv, Whole, TypeOK
  <2>2. InOrder(messages)' /\ Of(messages)' \subseteq 1..(next' - 1)
    BY <1>1 DEF IInv, Whole, InOrder, Of, ToSet
  <2>3. rich'.is => /\ Of(rich.history)' = seeded' /\ InOrder(rich.history)'
                    /\ seeded' \subseteq 1..(next' - 1)
    BY <1>1 DEF IInv, Whole, InOrder, Of, ToSet
  <2>4. phase' = "compacting" => rich'.is /\ Cut' > 0 /\ dropped' = SubSeq(rich.history, 1, Cut)'
    BY <1>1 DEF IInv, Whole, Cut
  <2> QED
    BY <2>1, <2>2, <2>3, <2>4 DEF Whole
<1>3. Tried'
  BY <1>1 DEF IInv, Tried
<1>4. UsedIsExact'
  BY <1>1 DEF IInv, UsedIsExact, Tokens
<1> QED
  BY <1>2, <1>3, <1>4 DEF IInv

LEMMA InvHolds == Spec => []IInv
<1>1. IInv /\ [Next]_vars => IInv'
  <2> SUFFICES ASSUME IInv, [Next]_vars PROVE IInv'
    OBVIOUS
  <2> QED
    BY SeedsInv, SpeaksInv, PreparesInv, SummarisesInv, StutterInv DEF Next
<1> QED
  BY <1>1, InitInv, PTL DEF Spec

-----------------------------------------------------------------------------
(* Compaction: theorems.                                                   *)

\* Through any number of compactions, of sessions of any length, the rich history stands
\* for what it was seeded with, each message once and in order (compaction.rs:60-261,
\* context.rs apply_compaction).
THEOREM HistoriesAreWhole == Spec => []HistoryIsWhole
<1>1. IInv => HistoryIsWhole
  BY DEF IInv, Whole, InOrder, HistoryIsWhole
<1> QED
  BY <1>1, InvHolds, PTL

\* Reclaiming tokens neither drifts nor loses what the host counted besides, however
\* often and with whatever summaries, until one is larger than what it replaces.
THEOREM ReclaimingIsExact == Spec => []UsedIsExact
<1>1. IInv => UsedIsExact
  BY DEF IInv
<1> QED
  BY <1>1, InvHolds, PTL

\* A summary that failed is only taken as the last of the attempts, all of which failed,
\* and then with a warning; one that passed is taken without.
THEOREM FailuresAreWarned == Spec => []AcceptedAnywayIsWarned
<1>1. IInv => AcceptedAnywayIsWarned
  BY DEF IInv, Tried, AcceptedAnywayIsWarned
<1> QED
  BY <1>1, InvHolds, PTL

-----------------------------------------------------------------------------
(* Deferred tools: what is touched and what is kept.                       *)

\* A list of tools is of those that were used last, each after the ones behind it.
Recent(l, U, A) ==
    /\ l \in Seq(Deferred) /\ IsInjective(l) /\ ToSet(l) \subseteq U
    /\ \A i, j \in DOMAIN l : i < j => <<l[i], l[j]>> \in A
    /\ \A t \in ToSet(l), u \in U \ ToSet(l) : <<t, u>> \in A

\* While nothing was used since the last turn, it is what that turn left; the tool used
\* last is there unless it does not fit.
LastUsedStays ==
    \A t \in used :
        /\ turned => Total(Baseline) + Bytes[t] <= budget
        /\ \A u \in used \ {t} : <<t, u>> \in after
        => loaded # <<>>

\* What the last turn advertised.
Advertised ==
    /\ turned => shown = Baseline \cup ToSet(loaded)
    /\ shown \subseteq Baseline \/ Total(shown) <= budget

ToolInv == LoadedIsMostRecent /\ LastUsedStays /\ Advertised

\* The members of a sequence.
LEMMA MembersAre ==
    ASSUME NEW l, NEW t
    PROVE  t \in ToSet(l) <=> \E i \in DOMAIN l : l[i] = t
BY DEF ToSet

\* A tool in front of others.
LEMMA TouchesTo ==
    ASSUME NEW rest \in Seq(Deferred), NEW t \in Deferred
    PROVE  /\ Cons(t, rest) \in Seq(Deferred) /\ DOMAIN Cons(t, rest) = 1..(1 + Len(rest))
           /\ Len(rest) \in Nat
           /\ Cons(t, rest)[1] = t
           /\ \A i \in 1..Len(rest) : Cons(t, rest)[1 + i] = rest[i]
<1> DEFINE one == <<t>>
<1>1. one \in Seq(Deferred) /\ Len(one) = 1 /\ one[1] = t
  OBVIOUS
<1> HIDE DEF one
<1>2. /\ one \o rest \in Seq(Deferred) /\ Len(one \o rest) = 1 + Len(rest)
      /\ Len(rest) \in Nat
      /\ \A i \in 1..(1 + Len(rest)) :
            (one \o rest)[i] = IF i <= 1 THEN one[i] ELSE rest[i - 1]
  <2>1. /\ one \o rest \in Seq(Deferred) /\ Len(one \o rest) = Len(one) + Len(rest)
        /\ \A i \in 1..(Len(one) + Len(rest)) :
              (one \o rest)[i] = IF i <= Len(one) THEN one[i] ELSE rest[i - Len(one)]
    BY <1>1, ConcatProperties
  <2>2. Len(rest) \in Nat
    OBVIOUS
  <2> QED
    BY <1>1, <2>1, <2>2
<1>3. ASSUME NEW i \in 1..Len(rest)
      PROVE  (one \o rest)[1 + i] = rest[i]
  <2>1. 1 + i \in 1..(1 + Len(rest)) /\ ~ (1 + i <= 1) /\ (1 + i) - 1 = i
    BY <1>2
  <2> QED
    BY <1>2, <2>1
<1>4. (one \o rest)[1] = t /\ DOMAIN (one \o rest) = 1..(1 + Len(rest))
  BY <1>1, <1>2
<1>5. one \o rest = Cons(t, rest)
  BY DEF Cons, one
<1> QED
  BY <1>2, <1>3, <1>4, <1>5

\* The place from which each of n comes when the k-th is taken out.
Without(k, n) == [i \in 1..(n - 1) |-> IF i < k THEN i ELSE i + 1]

\* A list without its k-th tool: the others, as they were.
LEMMA RemovalIs ==
    ASSUME NEW l \in Seq(Deferred), NEW k \in DOMAIN l
    PROVE  LET rest == RemoveAt(l, k)
               from == Without(k, Len(l)) IN
           /\ rest \in Seq(Deferred) /\ DOMAIN rest = 1..(Len(l) - 1)
           /\ \A i \in DOMAIN rest : from[i] \in DOMAIN l \ {k} /\ rest[i] = l[from[i]]
           /\ \A i, j \in DOMAIN rest : i < j => from[i] < from[j]
           /\ \A a \in DOMAIN l \ {k} : \E i \in DOMAIN rest : from[i] = a
<1> DEFINE rest == RemoveAt(l, k)
           from == Without(k, Len(l))
           front == SubSeq(l, 1, k - 1)
           back == SubSeq(l, k + 1, Len(l))
<1>1. k \in 1..Len(l) /\ Len(l) \in Nat /\ k \in Nat /\ DOMAIN l = 1..Len(l)
  OBVIOUS
<1>2. /\ front \in Seq(Deferred) /\ Len(front) = k - 1
      /\ \A i \in 1..(k - 1) : front[i] = l[i]
  BY <1>1
<1>3. /\ back \in Seq(Deferred) /\ Len(back) = Len(l) - k
      /\ \A i \in 1..(Len(l) - k) : back[i] = l[k + i]
  BY <1>1
<1>4. rest = front \o back
  BY DEF RemoveAt
<1> HIDE DEF front, back, rest
<1>5. /\ rest \in Seq(Deferred) /\ Len(rest) = Len(l) - 1
      /\ \A i \in 1..(Len(l) - 1) : rest[i] = IF i <= k - 1 THEN front[i] ELSE back[i - (k - 1)]
  <2>1. /\ front \o back \in Seq(Deferred) /\ Len(front \o back) = Len(front) + Len(back)
        /\ \A i \in 1..(Len(front) + Len(back)) : (front \o back)[i] =
              IF i <= Len(front) THEN front[i] ELSE back[i - Len(front)]
    BY <1>2, <1>3, ConcatProperties
  <2>2. Len(front) + Len(back) = Len(l) - 1
    BY <1>1, <1>2, <1>3
  <2> QED
    BY <1>2, <1>4, <2>1, <2>2
<1>6. DOMAIN rest = 1..(Len(l) - 1)
  BY <1>5
<1>7. ASSUME NEW i \in DOMAIN rest
      PROVE  from[i] \in DOMAIN l \ {k} /\ rest[i] = l[from[i]]
  <2>1. i \in 1..(Len(l) - 1)
    BY <1>6
  <2>2. CASE i < k
    <3>1. i \in 1..(k - 1) /\ i <= k - 1 /\ from[i] = i /\ i \in DOMAIN l \ {k}
      BY <1>1, <2>1, <2>2 DEF Without
    <3> QED
      BY <1>2, <1>5, <2>1, <3>1
  <2>3. CASE ~ (i < k)
    <3>1. /\ ~ (i <= k - 1) /\ from[i] = i + 1 /\ i + 1 \in DOMAIN l \ {k}
          /\ i - (k - 1) \in 1..(Len(l) - k) /\ k + (i - (k - 1)) = i + 1
      BY <1>1, <2>1, <2>3 DEF Without
    <3> QED
      BY <1>3, <1>5, <2>1, <3>1
  <2> QED
    BY <2>2, <2>3
<1>8. ASSUME NEW i \in DOMAIN rest, NEW j \in DOMAIN rest, i < j
      PROVE  from[i] < from[j]
  BY <1>1, <1>6, <1>8 DEF Without
<1>9. ASSUME NEW a \in DOMAIN l \ {k}
      PROVE  \E i \in DOMAIN rest : from[i] = a
  <2>1. CASE a < k
    <3>1. a \in DOMAIN rest /\ from[a] = a
      BY <1>1, <1>6, <2>1 DEF Without
    <3> QED
      BY <3>1
  <2>2. CASE ~ (a < k)
    <3>1. a - 1 \in DOMAIN rest /\ from[a - 1] = a
      BY <1>1, <1>6, <2>2 DEF Without
    <3> QED
      BY <3>1
  <2> QED
    BY <2>1, <2>2
<1> QED
  BY <1>5, <1>6, <1>7, <1>8, <1>9 DEF rest

\* The others, when the tool itself is taken out.
LEMMA OthersStay ==
    ASSUME NEW l \in Seq(Deferred), IsInjective(l), NEW t \in Deferred
    PROVE  \E rest \in Seq(Deferred) :
              /\ Touched(l, t) = Cons(t, rest)
              /\ ToSet(rest) = ToSet(l) \ {t}
              /\ IsInjective(rest)
              /\ \A i, j \in DOMAIN rest : i < j =>
                    \E a, b \in DOMAIN l : a < b /\ l[a] = rest[i] /\ l[b] = rest[j]
<1>1. CASE t \notin ToSet(l)
  <2>1. Touched(l, t) = Cons(t, l)
    BY <1>1 DEF Touched
  <2>2. ToSet(l) = ToSet(l) \ {t}
    BY <1>1
  <2> QED
    BY <2>1, <2>2
<1>2. CASE t \in ToSet(l)
  <2> DEFINE k == CHOOSE k \in DOMAIN l : l[k] = t
             rest == RemoveAt(l, k)
             from == Without(k, Len(l))
  <2>1. k \in DOMAIN l /\ l[k] = t
    BY <1>2, MembersAre
  <2>2. Touched(l, t) = Cons(t, rest)
    BY <1>2 DEF Touched
  <2> HIDE DEF k
  <2>3. /\ rest \in Seq(Deferred) /\ DOMAIN rest = 1..(Len(l) - 1)
        /\ \A i \in DOMAIN rest : from[i] \in DOMAIN l \ {k} /\ rest[i] = l[from[i]]
        /\ \A i, j \in DOMAIN rest : i < j => from[i] < from[j]
        /\ \A a \in DOMAIN l \ {k} : \E i \in DOMAIN rest : from[i] = a
    BY <2>1, RemovalIs
  <2> HIDE DEF rest, from
  <2>4. ToSet(rest) = ToSet(l) \ {t}
    <3>1. ASSUME NEW u \in ToSet(rest)
          PROVE  u \in ToSet(l) /\ u # t
      <4>1. PICK i \in DOMAIN rest : rest[i] = u
        BY MembersAre
      <4>2. from[i] \in DOMAIN l /\ from[i] # k /\ l[from[i]] = u
        BY <2>3, <4>1
      <4> QED
        BY <2>1, <4>2, MembersAre DEF IsInjective
    <3>2. ASSUME NEW u \in ToSet(l), u # t
          PROVE  u \in ToSet(rest)
      <4>1. PICK a \in DOMAIN l : l[a] = u
        BY MembersAre
      <4>2. PICK i \in DOMAIN rest : from[i] = a
        BY <2>1, <2>3, <3>2, <4>1
      <4> QED
        BY <2>3, <4>1, <4>2, MembersAre
    <3> QED
      BY <3>1, <3>2
  <2>5. IsInjective(rest)
    <3> SUFFICES ASSUME NEW i \in DOMAIN rest, NEW j \in DOMAIN rest, rest[i] = rest[j]
                 PROVE  i = j
      BY DEF IsInjective
    <3>1. from[i] = from[j]
      BY <2>3 DEF IsInjective
    <3>2. i \in Int /\ j \in Int /\ from[i] \in Int /\ from[j] \in Int
      <4>1. DOMAIN l = 1..Len(l) /\ Len(l) \in Nat
        OBVIOUS
      <4> QED
        BY <2>3, <4>1
    <3>3. ~ (i < j) /\ ~ (j < i)
      BY <2>3, <3>1, <3>2
    <3> QED
      BY <3>2, <3>3
  <2>6. ASSUME NEW i \in DOMAIN rest, NEW j \in DOMAIN rest, i < j
        PROVE  \E a, b \in DOMAIN l : a < b /\ l[a] = rest[i] /\ l[b] = rest[j]
    BY <2>3, <2>6
  <2> QED
    BY <2>2, <2>3, <2>4, <2>5, <2>6
<1> QED
  BY <1>1, <1>2

\* A use: the tool is in front, and after all that was used before.
LEMMA TouchedIsRecent ==
    ASSUME NEW l, NEW U, NEW A, NEW B, Recent(l, U, A), NEW t \in Deferred,
           \A u \in U \ {t} : <<t, u>> \in B,
           \A x, y \in U \ {t} : <<x, y>> \in A => <<x, y>> \in B
    PROVE  /\ Recent(Touched(l, t), U \cup {t}, B)
           /\ 1 \in DOMAIN Touched(l, t) /\ Touched(l, t)[1] = t
<1>1. /\ l \in Seq(Deferred) /\ IsInjective(l) /\ ToSet(l) \subseteq U
      /\ \A i, j \in DOMAIN l : i < j => <<l[i], l[j]>> \in A
      /\ \A x \in ToSet(l), u \in U \ ToSet(l) : <<x, u>> \in A
  BY DEF Recent
<1>2. PICK rest \in Seq(Deferred) :
              /\ Touched(l, t) = Cons(t, rest)
              /\ ToSet(rest) = ToSet(l) \ {t}
              /\ IsInjective(rest)
              /\ \A i, j \in DOMAIN rest : i < j =>
                    \E a, b \in DOMAIN l : a < b /\ l[a] = rest[i] /\ l[b] = rest[j]
  BY <1>1, OthersStay
<1> DEFINE m == Touched(l, t)
<1>3. /\ m \in Seq(Deferred) /\ DOMAIN m = 1..(1 + Len(rest)) /\ Len(rest) \in Nat
      /\ m[1] = t /\ \A i \in 1..Len(rest) : m[1 + i] = rest[i]
      /\ DOMAIN rest = 1..Len(rest)
  BY <1>2, TouchesTo
<1> HIDE DEF m
<1>4. ASSUME NEW i \in DOMAIN m, i # 1
      PROVE  i - 1 \in DOMAIN rest /\ m[i] = rest[i - 1] /\ m[i] \in ToSet(l) \ {t}
  <2>1. i - 1 \in 1..Len(rest) /\ 1 + (i - 1) = i
    BY <1>3, <1>4
  <2>2. i - 1 \in DOMAIN rest /\ m[i] = rest[i - 1]
    BY <1>3, <2>1
  <2> QED
    BY <1>2, <2>2, MembersAre
<1>5. ToSet(m) = ToSet(l) \cup {t}
  <2>1. ASSUME NEW u \in ToSet(m)
        PROVE  u \in ToSet(l) \cup {t}
    <3>1. PICK i \in DOMAIN m : m[i] = u
      BY MembersAre
    <3> QED
      BY <1>3, <1>4, <3>1
  <2>2. ASSUME NEW u \in ToSet(l), u # t
        PROVE  u \in ToSet(m)
    <3>1. PICK i \in DOMAIN rest : rest[i] = u
      BY <1>2, <2>2, MembersAre
    <3>2. 1 + i \in DOMAIN m /\ m[1 + i] = u
      BY <1>3, <3>1
    <3> QED
      BY <3>2, MembersAre
  <2>3. t \in ToSet(m)
    <3>1. 1 \in DOMAIN m
      BY <1>3
    <3> QED
      BY <1>3, <3>1, MembersAre
  <2> QED
    BY <2>1, <2>2, <2>3
<1>6. IsInjective(m)
  <2> SUFFICES ASSUME NEW i \in DOMAIN m, NEW j \in DOMAIN m, m[i] = m[j]
               PROVE  i = j
    BY DEF IsInjective
  <2>1. CASE i = 1 \/ j = 1
    BY <1>3, <1>4, <2>1
  <2>2. CASE i # 1 /\ j # 1
    <3>1. i - 1 = j - 1
      BY <1>2, <1>4, <2>2 DEF IsInjective
    <3>2. i \in Int /\ j \in Int
      BY <1>3
    <3> QED
      BY <3>1, <3>2
  <2> QED
    BY <2>1, <2>2
<1>7. ASSUME NEW i \in DOMAIN m, NEW j \in DOMAIN m, i < j
      PROVE  <<m[i], m[j]>> \in B
  <2>1. j # 1 /\ i \in Int /\ j \in Int
    BY <1>3, <1>7
  <2>2. m[j] \in U \ {t}
    BY <1>1, <1>4, <2>1
  <2>3. CASE i = 1
    BY <1>3, <2>2, <2>3
  <2>4. CASE i # 1
    <3>1. m[i] \in U \ {t}
      BY <1>1, <1>4, <2>4
    <3>2. i - 1 \in DOMAIN rest /\ j - 1 \in DOMAIN rest /\ i - 1 < j - 1
      BY <1>4, <1>7, <2>1, <2>4
    <3>3. PICK a, b \in DOMAIN l : a < b /\ l[a] = rest[i - 1] /\ l[b] = rest[j - 1]
      BY <1>2, <3>2
    <3>4. l[a] = m[i] /\ l[b] = m[j]
      BY <1>4, <2>1, <2>4, <3>3
    <3> QED
      BY <1>1, <2>2, <3>1, <3>3, <3>4
  <2> QED
    BY <2>3, <2>4
<1>8. ASSUME NEW x \in ToSet(m), NEW u \in (U \cup {t}) \ ToSet(m)
      PROVE  <<x, u>> \in B
  <2>1. u \in U \ {t} /\ u \notin ToSet(l)
    BY <1>5
  <2>2. CASE x = t
    BY <2>1, <2>2
  <2>3. CASE x # t
    BY <1>1, <1>5, <2>1, <2>3
  <2> QED
    BY <2>2, <2>3
<1>9. ToSet(m) \subseteq U \cup {t}
  BY <1>1, <1>5
<1>10. Recent(m, U \cup {t}, B)
  BY <1>3, <1>6, <1>7, <1>8, <1>9 DEF Recent
<1>11. 1 \in DOMAIN m
  BY <1>3
<1> QED
  BY <1>3, <1>10, <1>11 DEF m

\* What is known of an order need not be all of it.
LEMMA RecentInMore ==
    ASSUME NEW l, NEW U, NEW A, NEW B, Recent(l, U, A),
           \A x, y : <<x, y>> \in A => <<x, y>> \in B
    PROVE  Recent(l, U, B)
BY DEF Recent

\* Loading one name after the other, as a function of how many of them were.
Loads(l, names) ==
    CHOOSE touched : touched = [k \in 0..Len(names) |->
        IF k = 0 THEN l ELSE Touched(touched[k - 1], names[Len(names) + 1 - k])]

LEMMA LoadsAre ==
    ASSUME NEW l, NEW names \in Seq(Deferred)
    PROVE  /\ Len(names) \in Nat
           /\ Loads(l, names)[0] = l
           /\ \A k \in 1..Len(names) : Loads(l, names)[k] =
                 Touched(Loads(l, names)[k - 1], names[Len(names) + 1 - k])
           /\ Loaded(l, names) = Loads(l, names)[Len(names)]
<1> DEFINE n == Len(names)
           Step(f, k) == IF k = 0 THEN l ELSE Touched(f[k - 1], names[n + 1 - k])
           Is(f, k) == f = [i \in 0..k |-> Step(f, i)]
           S == {k \in 0..n : \E f : Is(f, k)}
<1>1. n \in Nat
  OBVIOUS
<1> HIDE DEF n
<1>2. 0 \in S
  <2> DEFINE f == [i \in 0..0 |-> l]
  <2>1. Is(f, 0)
    OBVIOUS
  <2>2. \E any : Is(any, 0)
    BY <2>1
  <2> QED
    BY <1>1, <2>2
<1>3. ASSUME NEW k \in 1..n, k - 1 \in S
      PROVE  k \in S
  <2>1. PICK f : Is(f, k - 1)
    BY <1>3
  <2> DEFINE more == [i \in 0..k |-> IF i = k THEN Step(f, k) ELSE f[i]]
  <2>2. ASSUME NEW i \in 0..k
        PROVE  more[i] = Step(more, i)
    <3>1. CASE i = k
      <4>1. k # 0 /\ k - 1 \in 0..k /\ k - 1 # k
        BY <1>1
      <4> QED
        BY <3>1, <4>1
    <3>2. CASE i # k
      <4>1. i \in 0..(k - 1) /\ more[i] = f[i]
        BY <1>1, <3>2
      <4>2. f[i] = Step(f, i)
        BY <2>1, <4>1
      <4>3. i # 0 => more[i - 1] = f[i - 1]
        BY <1>1, <4>1
      <4> QED
        BY <4>1, <4>2, <4>3
    <3> QED
      BY <3>1, <3>2
  <2>3. more = [i \in 0..k |-> more[i]]
    OBVIOUS
  <2> HIDE DEF more
  <2>4. Is(more, k)
    <3> HIDE DEF Step
    <3> QED
      BY <2>2, <2>3
  <2> QED
    BY <1>1, <2>4
<1>4. n \in S
  <2> HIDE DEF S
  <2> QED
    BY <1>1, <1>2, <1>3, UpTo
<1>5. Is(Loads(l, names), n)
  <2>1. \E f : Is(f, n)
    BY <1>4
  <2> QED
    BY <2>1 DEF Loads, n
<1>6. Loaded(l, names) = Loads(l, names)[n]
  BY DEF Loaded, Loads, n
<1>7. \A k \in 0..n : Loads(l, names)[k] = Step(Loads(l, names), k)
  <2> HIDE DEF Step
  <2> QED
    BY <1>5
<1>8. Loads(l, names)[0] = l
  BY <1>1, <1>7
<1>9. ASSUME NEW k \in 1..n
      PROVE  Loads(l, names)[k] = Touched(Loads(l, names)[k - 1], names[n + 1 - k])
  <2>1. k \in 0..n /\ k # 0
    BY <1>1
  <2> QED
    BY <1>7, <2>1
<1> QED
  BY <1>1, <1>6, <1>8, <1>9 DEF n

\* What is used after what, once a batch of names is.
LEMMA AfterIs ==
    ASSUME ToolTypeOK, NEW names \in Seq(Deferred), NEW x, NEW y
    PROVE  <<x, y>> \in After(names) <=>
              \/ \E i, j \in DOMAIN names : i < j /\ x = names[i] /\ y = names[j]
              \/ x \in ToSet(names) /\ y \in used \ ToSet(names)
              \/ <<x, y>> \in after /\ x \notin ToSet(names) /\ y \notin ToSet(names)
<1> DEFINE these == ToSet(names)
           rest == used \ these
           among == {p \in these \X these : \E i, j \in DOMAIN names :
                        i < j /\ p = <<names[i], names[j]>>}
<1>1. After(names) = among \cup (these \X rest) \cup (after \cap (rest \X rest))
  BY DEF After
<1>2. <<x, y>> \in among <=> \E i, j \in DOMAIN names : i < j /\ x = names[i] /\ y = names[j]
  <2>1. ASSUME NEW i \in DOMAIN names, NEW j \in DOMAIN names, i < j,
               x = names[i], y = names[j]
        PROVE  <<x, y>> \in among
    <3>1. x \in these /\ y \in these
      BY <2>1, MembersAre
    <3> HIDE DEF these
    <3>2. <<x, y>> \in these \X these /\ <<x, y>> = <<names[i], names[j]>>
      BY <2>1, <3>1
    <3> QED
      BY <2>1, <3>2
  <2>2. ASSUME <<x, y>> \in among
        PROVE  \E i, j \in DOMAIN names : i < j /\ x = names[i] /\ y = names[j]
    <3> HIDE DEF these
    <3>1. PICK i, j \in DOMAIN names : i < j /\ <<x, y>> = <<names[i], names[j]>>
      BY <2>2
    <3> QED
      BY <3>1
  <2> QED
    BY <2>1, <2>2
<1>3. <<x, y>> \in after => x \in used /\ y \in used
  BY DEF ToolTypeOK
<1> HIDE DEF among
<1>4. <<x, y>> \in these \X rest <=> x \in these /\ y \in rest
  OBVIOUS
<1>5. <<x, y>> \in after \cap (rest \X rest) <=>
         <<x, y>> \in after /\ x \notin these /\ y \notin these
  <2> HIDE DEF these
  <2> QED
    BY <1>3
<1> HIDE DEF these, rest
<1>6. <<x, y>> \in After(names) <=>
         \/ <<x, y>> \in among \/ <<x, y>> \in these \X rest
         \/ <<x, y>> \in after \cap (rest \X rest)
  BY <1>1
<1> QED
  BY <1>2, <1>4, <1>5, <1>6 DEF these, rest

\* After a batch of names, each is used after the next of them and after all the rest: the
\* list is that of those used last, and the first name is in front.
LEMMA LoadedIsRecent ==
    ASSUME ToolTypeOK, Recent(loaded, used, after),
           NEW names \in Seq(Deferred)
    PROVE  /\ Recent(Loaded(loaded, names), used \cup ToSet(names), After(names))
           /\ names # <<>> => Loaded(loaded, names) # <<>>
<1> DEFINE n == Len(names)
           at(k) == n + 1 - k
           Late(k) == {names[i] : i \in at(k)..n}
           Order(k) ==
              {p \in Deferred \X Deferred :
                 \/ \E i, j \in at(k)..n : i < j /\ p = <<names[i], names[j]>>
                 \/ p[1] \in Late(k) /\ p[2] \in used \ Late(k)
                 \/ p \in after /\ p[1] \notin Late(k) /\ p[2] \notin Late(k)}
           with(k) == Loads(loaded, names)[k]
           S == {k \in 0..n : Recent(with(k), used \cup Late(k), Order(k))}
<1>1. /\ n \in Nat /\ DOMAIN names = 1..n /\ \A i \in 1..n : names[i] \in Deferred
      /\ used \subseteq Deferred /\ after \subseteq used \X used
  BY DEF ToolTypeOK
<1>2. /\ with(0) = loaded
      /\ \A k \in 1..n : with(k) = Touched(with(k - 1), names[at(k)])
      /\ Loaded(loaded, names) = with(n)
  BY LoadsAre
<1>3. ASSUME NEW k \in 0..n
      PROVE  /\ Late(k) \subseteq Deferred
             /\ \A t \in Late(k) : \E i \in at(k)..n : t = names[i]
             /\ \A i \in at(k)..n : names[i] \in Late(k) /\ i \in 1..n
  <2>1. at(k)..n \subseteq 1..n
    BY <1>1
  <2> QED
    BY <1>1, <2>1
<1> HIDE DEF n, with
<1>4. ASSUME NEW k \in 0..n, NEW x, NEW y
      PROVE  <<x, y>> \in Order(k) <=>
                /\ x \in Deferred /\ y \in Deferred
                /\ \/ \E i, j \in at(k)..n : i < j /\ x = names[i] /\ y = names[j]
                   \/ x \in Late(k) /\ y \in used \ Late(k)
                   \/ <<x, y>> \in after /\ x \notin Late(k) /\ y \notin Late(k)
  <2> HIDE DEF Late
  <2> QED
    OBVIOUS
<1>5. ASSUME NEW k \in 1..n
      PROVE  /\ at(k) \in 1..n /\ at(k) + 1 = at(k - 1) /\ k - 1 \in 0..n /\ k \in 0..n
             /\ at(k)..n = {at(k)} \cup at(k - 1)..n
             /\ Late(k) = Late(k - 1) \cup {names[at(k)]}
  <2>1. at(k) \in 1..n /\ at(k) + 1 = at(k - 1) /\ k - 1 \in 0..n /\ k \in 0..n
    BY <1>1
  <2>2. at(k)..n = {at(k)} \cup at(k - 1)..n
    BY <1>1, <2>1
  <2> QED
    BY <2>1, <2>2
<1> HIDE DEF Late, Order, at
<1>6. 0 \in S
  <2>1. 0 \in 0..n /\ at(0)..n = {}
    BY <1>1 DEF at
  <2>2. Late(0) = {}
    BY <1>3, <2>1
  <2>3. \A x, y : <<x, y>> \in after => <<x, y>> \in Order(0)
    BY <1>1, <1>4, <2>1, <2>2
  <2>4. Recent(with(0), used, Order(0))
    BY <1>2, <2>3, RecentInMore
  <2>5. used \cup Late(0) = used
    BY <2>2
  <2> QED
    BY <2>1, <2>4, <2>5
<1>7. ASSUME NEW k \in 1..n, k - 1 \in S
      PROVE  /\ k \in S
             /\ 1 \in DOMAIN with(k)
  <2> DEFINE t == names[at(k)]
             U == used \cup Late(k - 1)
  <2>1. Recent(with(k - 1), U, Order(k - 1)) /\ t \in Deferred
    BY <1>1, <1>5, <1>7
  <2>2. ASSUME NEW u \in U \ {t}
        PROVE  <<t, u>> \in Order(k)
    <3>1. t \in Late(k) /\ u \in Deferred
      BY <1>1, <1>3, <1>5
    <3>2. CASE u \in Late(k - 1)
      <4>1. PICK j \in at(k - 1)..n : u = names[j]
        BY <1>3, <1>5, <3>2
      <4>2. at(k) < j /\ at(k) \in at(k)..n /\ j \in at(k)..n
        <5>1. j \in (at(k) + 1)..n /\ at(k) \in 1..n
          BY <1>5
        <5> QED
          BY ONLY <1>1, <5>1
      <4>3. \E i, h \in at(k)..n : i < h /\ t = names[i] /\ u = names[h]
        BY <4>1, <4>2
      <4> HIDE DEF t
      <4> QED
        BY <1>4, <1>5, <2>1, <3>1, <4>3
    <3>3. CASE u \notin Late(k - 1)
      <4>1. u \in used \ Late(k)
        BY <1>5, <3>3
      <4> QED
        BY <1>4, <1>5, <2>1, <3>1, <4>1
    <3> QED
      BY <3>2, <3>3
  <2>3. ASSUME NEW x \in U \ {t}, NEW y \in U \ {t}, <<x, y>> \in Order(k - 1)
        PROVE  <<x, y>> \in Order(k)
    <3>1. /\ x \in Deferred /\ y \in Deferred
          /\ \/ \E i, j \in at(k - 1)..n : i < j /\ x = names[i] /\ y = names[j]
             \/ x \in Late(k - 1) /\ y \in used \ Late(k - 1)
             \/ <<x, y>> \in after /\ x \notin Late(k - 1) /\ y \notin Late(k - 1)
      BY <1>4, <1>5, <2>3
    <3>2. CASE \E i, j \in at(k - 1)..n : i < j /\ x = names[i] /\ y = names[j]
      <4>1. \E i, j \in at(k)..n : i < j /\ x = names[i] /\ y = names[j]
        BY <1>5, <3>2
      <4> QED
        BY <1>4, <1>5, <3>1, <4>1
    <3>3. CASE x \in Late(k - 1) /\ y \in used \ Late(k - 1)
      <4>1. x \in Late(k) /\ y \in used \ Late(k)
        BY <1>5, <3>3
      <4> QED
        BY <1>4, <1>5, <3>1, <4>1
    <3>4. CASE <<x, y>> \in after /\ x \notin Late(k - 1) /\ y \notin Late(k - 1)
      <4>1. <<x, y>> \in after /\ x \notin Late(k) /\ y \notin Late(k)
        BY <1>5, <3>4
      <4> QED
        BY <1>4, <1>5, <3>1, <4>1
    <3> QED
      BY <3>1, <3>2, <3>3, <3>4
  <2>4. with(k) = Touched(with(k - 1), t)
    BY <1>2
  <2>5. U \cup {t} = used \cup Late(k)
    BY <1>5
  <2> HIDE DEF U, t
  <2>6. /\ \A u \in U \ {t} : <<t, u>> \in Order(k)
        /\ \A x, y \in U \ {t} : <<x, y>> \in Order(k - 1) => <<x, y>> \in Order(k)
    BY <2>2, <2>3
  <2>7. /\ Recent(Touched(with(k - 1), t), U \cup {t}, Order(k))
        /\ 1 \in DOMAIN Touched(with(k - 1), t)
    BY <2>1, <2>6, TouchedIsRecent
  <2> QED
    BY <1>5, <2>4, <2>5, <2>7
<1>8. n \in S
  <2>1. \A k \in 1..n : k - 1 \in S => k \in S
    BY <1>7
  <2> HIDE DEF S
  <2>2. \A k \in 0..n : k \in S
    BY <1>1, <1>6, <2>1, UpTo
  <2> QED
    BY <1>1, <2>2
<1>9. Late(n) = ToSet(names) /\ at(n)..n = DOMAIN names
  <2>1. at(n) = 1 /\ n \in 0..n
    BY <1>1 DEF at
  <2>2. at(n)..n = DOMAIN names
    BY <1>1, <2>1
  <2>3. \A t : t \in Late(n) <=> t \in ToSet(names)
    BY <1>3, <2>1, <2>2, MembersAre
  <2> QED
    BY <2>2, <2>3
<1>10. ASSUME NEW x, NEW y, <<x, y>> \in Order(n)
       PROVE  <<x, y>> \in After(names)
  <2>1. n \in 0..n
    BY <1>1
  <2>2. \/ \E i, j \in at(n)..n : i < j /\ x = names[i] /\ y = names[j]
        \/ x \in Late(n) /\ y \in used \ Late(n)
        \/ <<x, y>> \in after /\ x \notin Late(n) /\ y \notin Late(n)
    BY <1>4, <1>10, <2>1
  <2>3. \/ \E i, j \in DOMAIN names : i < j /\ x = names[i] /\ y = names[j]
        \/ x \in ToSet(names) /\ y \in used \ ToSet(names)
        \/ <<x, y>> \in after /\ x \notin ToSet(names) /\ y \notin ToSet(names)
    BY ONLY <1>9, <2>2
  <2> QED
    BY <2>3, AfterIs
<1>11. Recent(Loaded(loaded, names), used \cup ToSet(names), After(names))
  <2>1. Recent(with(n), used \cup Late(n), Order(n))
    BY <1>8
  <2> QED
    BY <1>2, <1>9, <1>10, <2>1, RecentInMore
<1>12. ASSUME names # <<>>
       PROVE  Loaded(loaded, names) # <<>>
  <2>1. n \in 1..n
    BY <1>1, <1>12 DEF n
  <2>2. n - 1 \in S
    <3>1. \A k \in 1..n : k - 1 \in S => k \in S
      BY <1>7
    <3> HIDE DEF S
    <3>2. \A k \in 0..n : k \in S
      BY <1>1, <1>6, <3>1, UpTo
    <3>3. n - 1 \in 0..n
      BY <1>1, <2>1
    <3> QED
      BY <3>2, <3>3
  <2>3. 1 \in DOMAIN with(n)
    BY <1>7, <2>1, <2>2
  <2> QED
    BY <1>2, <2>3
<1> QED
  BY <1>11, <1>12

\* The bytes of what is advertised.
LEMMA BytesAreFinite ==
    ASSUME NEW S \in SUBSET (DOMAIN Bytes)
    PROVE  /\ IsFiniteSet(UNION {{t} \X (1..Bytes[t]) : t \in S})
           /\ Total(S) \in Nat
<1> DEFINE of(t) == {t} \X (1..Bytes[t])
           All == {of(t) : t \in S}
           f == [t \in S |-> of(t)]
<1>1. IsFiniteSet(S)
  BY ToolSearchAssumption, FS_Subset
<1>2. f \in Surjection(S, All)
  <2> HIDE DEF of
  <2>1. f \in [S -> All]
    <3>1. \A t \in S : of(t) \in All
      OBVIOUS
    <3> HIDE DEF All
    <3> QED
      BY <3>1
  <2>2. ASSUME NEW x \in All
        PROVE  \E t \in S : f[t] = x
    <3>1. PICK t \in S : x = of(t)
      OBVIOUS
    <3> QED
      BY <3>1
  <2> HIDE DEF f, All
  <2> QED
    BY <2>1, <2>2 DEF Surjection
<1>3. IsFiniteSet(All)
  <2> HIDE DEF f, All
  <2> QED
    BY <1>1, <1>2, FS_Surjection
<1>4. ASSUME NEW x \in All
      PROVE  IsFiniteSet(x)
  <2>1. PICK t \in S : x = of(t)
    OBVIOUS
  <2>2. IsFiniteSet({t}) /\ IsFiniteSet(1..Bytes[t])
    <3>1. Bytes[t] \in Nat
      BY ToolSearchAssumption
    <3>2. 1 \in Int /\ Bytes[t] \in Int
      BY <3>1
    <3>3. IsFiniteSet(1..Bytes[t])
      BY <3>2, FS_Interval
    <3>4. IsFiniteSet({t})
      BY FS_Singleton
    <3> QED
      BY <3>3, <3>4
  <2>3. IsFiniteSet(of(t))
    BY <2>2, FS_Product
  <2> QED
    BY <2>1, <2>3
<1>5. IsFiniteSet(UNION All)
  <2> HIDE DEF All
  <2> QED
    BY <1>3, <1>4, FS_UNION
<1>6. Cardinality(UNION All) \in Nat
  <2> HIDE DEF All
  <2> QED
    BY <1>5, FS_CardinalityType
<1> QED
  BY <1>5, <1>6 DEF Total

LEMMA TotalOfBoth ==
    ASSUME NEW S \in SUBSET (DOMAIN Bytes), NEW T \in SUBSET (DOMAIN Bytes), S \cap T = {}
    PROVE  Total(S \cup T) = Total(S) + Total(T)
<1> DEFINE all(R) == UNION {{t} \X (1..Bytes[t]) : t \in R}
<1>1. IsFiniteSet(all(S)) /\ IsFiniteSet(all(T))
  BY BytesAreFinite
<1> DEFINE of(t) == {t} \X (1..Bytes[t])
<1>a. ASSUME NEW R, NEW x
      PROVE  x \in all(R) <=> \E t \in R : x \in of(t)
  OBVIOUS
<1>b. ASSUME NEW t, NEW u, NEW x, x \in of(t), x \in of(u)
      PROVE  t = u
  <2>1. x[1] = t /\ x[1] = u
    BY <1>b
  <2> QED
    BY <2>1
<1> HIDE DEF all, of
<1>2. all(S \cup T) = all(S) \cup all(T)
  BY <1>a
<1>3. all(S) \cap all(T) = {}
  <2> SUFFICES ASSUME NEW x \in all(S), x \in all(T)
               PROVE  FALSE
    OBVIOUS
  <2>1. PICK t \in S : x \in of(t)
    BY <1>a
  <2>2. PICK u \in T : x \in of(u)
    BY <1>a
  <2> QED
    BY <1>b, <2>1, <2>2
<1>4. Cardinality(all(S)) \in Nat /\ Cardinality(all(T)) \in Nat
  BY <1>1, FS_CardinalityType
<1>5. /\ Total(S) = Cardinality(all(S)) /\ Total(T) = Cardinality(all(T))
      /\ Total(S \cup T) = Cardinality(all(S \cup T))
  BY DEF Total, all
<1>6. Cardinality(all(S) \cup all(T)) =
         Cardinality(all(S)) + Cardinality(all(T)) - Cardinality(all(S) \cap all(T))
  BY <1>1, FS_Union
<1> QED
  <2>1. Cardinality(all(S) \cap all(T)) = 0
    BY <1>3, FS_EmptySet
  <2> QED
    <3>1. Total(S \cup T) = Cardinality(all(S) \cup all(T))
      BY ONLY <1>2, <1>5
    <3> DEFINE s == Cardinality(all(S))
               t == Cardinality(all(T))
               both == Cardinality(all(S) \cup all(T))
    <3>2. s \in Nat /\ t \in Nat /\ both = s + t - 0
      BY <1>4, <1>6, <2>1
    <3>3. Total(S) = s /\ Total(T) = t /\ Total(S \cup T) = both
      BY <1>5, <3>1
    <3> HIDE DEF s, t, both
    <3> QED
      BY ONLY <3>2, <3>3

LEMMA TotalOfOne ==
    ASSUME NEW t \in DOMAIN Bytes
    PROVE  Total({t}) = Bytes[t]
<1>1. Bytes[t] \in Nat
  BY ToolSearchAssumption
<1>2. UNION {{u} \X (1..Bytes[u]) : u \in {t}} = {t} \X (1..Bytes[t])
  <2>1. {{u} \X (1..Bytes[u]) : u \in {t}} = {{t} \X (1..Bytes[t])}
    OBVIOUS
  <2> QED
    BY <2>1
<1>3. /\ IsFiniteSet({t}) /\ Cardinality({t}) = 1
      /\ IsFiniteSet(1..Bytes[t]) /\ Cardinality(1..Bytes[t]) = Bytes[t]
  <2>1. 1 \in Int /\ Bytes[t] \in Int
    BY <1>1
  <2>2. /\ IsFiniteSet(1..Bytes[t])
        /\ Cardinality(1..Bytes[t]) = IF 1 > Bytes[t] THEN 0 ELSE Bytes[t] - 1 + 1
    BY <2>1, FS_Interval
  <2>3. IsFiniteSet({t}) /\ Cardinality({t}) = 1
    BY FS_Singleton
  <2> QED
    BY <1>1, <2>2, <2>3
<1>4. Cardinality({t} \X (1..Bytes[t])) = 1 * Bytes[t]
  <2> DEFINE one == {t}
             all == 1..Bytes[t]
  <2>1. IsFiniteSet(one) /\ IsFiniteSet(all)
    BY <1>3
  <2>2. Cardinality(one \X all) = Cardinality(one) * Cardinality(all)
    <3> HIDE DEF one, all
    <3> QED
      BY <2>1, FS_Product
  <2> QED
    BY <1>3, <2>2
<1> QED
  BY <1>1, <1>2, <1>4 DEF Total

LEMMA ToolsAreDescribed ==
    /\ Baseline \subseteq DOMAIN Bytes /\ Deferred \subseteq DOMAIN Bytes
    /\ Baseline \cap Deferred = {}
BY ToolSearchAssumption DEF Baseline

\* A nonempty set of numbers with a bound has a greatest one.
LEMMA MaxIs ==
    ASSUME NEW S \in SUBSET Nat, S # {}, NEW n \in Nat, \A s \in S : s <= n
    PROVE  Max(S) \in S /\ \A s \in S : s <= Max(S)
<1> DEFINE Gaps == {n - s : s \in S}
           Less == OpToRel(<, Nat)
<1>1. Gaps \subseteq Nat
  OBVIOUS
<1>2. Gaps # {}
  OBVIOUS
<1>3. \A x, y \in Nat : <<x, y>> \in Less <=> x < y
  BY DEF OpToRel
<1> HIDE DEF Less
<1>4. IsWellFoundedOn(Less, Nat)
  BY NatLessThanWellFounded DEF Less
<1>5. PICK gap \in Gaps : \A other \in Gaps : ~ (<<other, gap>> \in Less)
  BY <1>1, <1>2, <1>4, WFMin
<1>6. PICK m \in S : gap = n - m
  OBVIOUS
<1>7. ASSUME NEW s \in S
      PROVE  s <= m
  <2>1. ~ (n - s < n - m)
    BY <1>1, <1>3, <1>5, <1>6
  <2> QED
    BY <2>1
<1> QED
  BY <1>6, <1>7 DEF Max

\* What a turn keeps is the front of the list, it fits, and it is not empty when the first
\* tool fits.
LEMMA KeptIs ==
    ASSUME NEW l \in Seq(Deferred)
    PROVE  \E n \in 0..Len(l) :
              /\ Kept(l) = SubSeq(l, 1, n)
              /\ n > 0 => Fits(SubSeq(l, 1, n))
              /\ Len(l) > 0 /\ Fits(SubSeq(l, 1, 1)) => n > 0
<1> DEFINE room == {n \in 0..Len(l) : \A k \in 1..n : Fits(SubSeq(l, 1, k))}
<1>1. Len(l) \in Nat
  OBVIOUS
<1>2. 0 \in room
  BY <1>1
<1>3. Len(l) > 0 /\ Fits(SubSeq(l, 1, 1)) => 1 \in room
  BY <1>1
<1>4. Kept(l) = SubSeq(l, 1, Max(room))
  BY DEF Kept
<1>5. \A n \in room : n \in 0..Len(l) /\ (n > 0 => Fits(SubSeq(l, 1, n)))
  <2> TAKE n \in room
  <2>1. n \in 0..Len(l) /\ \A k \in 1..n : Fits(SubSeq(l, 1, k))
    OBVIOUS
  <2> HIDE DEF room
  <2> QED
    BY <1>1, <2>1
<1> HIDE DEF room
<1>6. Max(room) \in room /\ \A n \in room : n <= Max(room)
  <2>1. room \in SUBSET Nat /\ room # {} /\ \A s \in room : s <= Len(l)
    BY <1>1, <1>2, <1>5
  <2> QED
    BY <1>1, <2>1, MaxIs
<1>7. Max(room) \in 0..Len(l)
  BY <1>5, <1>6
<1>8. Len(l) > 0 /\ Fits(SubSeq(l, 1, 1)) => Max(room) > 0
  BY <1>1, <1>3, <1>6, <1>7
<1> QED
  BY <1>4, <1>5, <1>6, <1>7, <1>8

\* The front of a list.
LEMMA FrontIs ==
    ASSUME NEW l \in Seq(Deferred), NEW n \in 0..Len(l)
    PROVE  /\ SubSeq(l, 1, n) \in Seq(Deferred) /\ DOMAIN SubSeq(l, 1, n) = 1..n
           /\ 1..n \subseteq DOMAIN l
           /\ \A i \in 1..n : SubSeq(l, 1, n)[i] = l[i]
           /\ ToSet(SubSeq(l, 1, n)) \subseteq ToSet(l)
<1>1. /\ SubSeq(l, 1, n) \in Seq(Deferred) /\ DOMAIN SubSeq(l, 1, n) = 1..n
      /\ 1..n \subseteq DOMAIN l
      /\ \A i \in 1..n : SubSeq(l, 1, n)[i] = l[i]
  <2>1. Len(l) \in Nat /\ n \in Nat /\ n <= Len(l) /\ DOMAIN l = 1..Len(l)
    OBVIOUS
  <2>2. /\ SubSeq(l, 1, n) \in Seq(Deferred) /\ Len(SubSeq(l, 1, n)) = n
        /\ \A i \in 1..n : SubSeq(l, 1, n)[i] = l[i]
    BY <2>1
  <2>3. DOMAIN SubSeq(l, 1, n) = 1..n
    BY <2>2
  <2> QED
    BY <2>1, <2>2, <2>3
<1> DEFINE m == SubSeq(l, 1, n)
<1>2. ASSUME NEW t \in ToSet(m)
      PROVE  t \in ToSet(l)
  <2>1. PICK i \in DOMAIN m : m[i] = t
    BY MembersAre
  <2>2. i \in DOMAIN l /\ l[i] = t
    BY <1>1, <2>1
  <2> QED
    BY <2>2, MembersAre
<1> QED
  BY <1>1, <1>2

\* What was cut off was used before what is left.
LEMMA FrontIsRecent ==
    ASSUME NEW l, NEW U, NEW A, Recent(l, U, A), NEW n \in 0..Len(l)
    PROVE  Recent(SubSeq(l, 1, n), U, A)
<1> DEFINE m == SubSeq(l, 1, n)
<1>1. /\ l \in Seq(Deferred) /\ IsInjective(l) /\ ToSet(l) \subseteq U
      /\ \A i, j \in DOMAIN l : i < j => <<l[i], l[j]>> \in A
      /\ \A x \in ToSet(l), u \in U \ ToSet(l) : <<x, u>> \in A
  BY DEF Recent
<1>2. /\ m \in Seq(Deferred) /\ DOMAIN m = 1..n /\ 1..n \subseteq DOMAIN l
      /\ \A i \in 1..n : m[i] = l[i]
      /\ ToSet(m) \subseteq ToSet(l)
      /\ Len(l) \in Nat /\ DOMAIN l = 1..Len(l)
  BY <1>1, FrontIs
<1> HIDE DEF m
<1>3. IsInjective(m)
  BY <1>1, <1>2 DEF IsInjective
<1>4. \A i, j \in DOMAIN m : i < j => <<m[i], m[j]>> \in A
  BY <1>1, <1>2
<1>5. ASSUME NEW x \in ToSet(m), NEW u \in U \ ToSet(m)
      PROVE  <<x, u>> \in A
  <2>1. PICK i \in 1..n : m[i] = x
    BY <1>2, MembersAre
  <2>2. CASE u \in ToSet(l)
    <3>1. PICK j \in DOMAIN l : l[j] = u
      BY <2>2, MembersAre
    <3>2. j \notin 1..n
      BY <1>2, <1>5, <3>1, MembersAre
    <3>3. i < j /\ i \in DOMAIN l
      BY <1>2, <3>2
    <3> QED
      BY <1>1, <1>2, <2>1, <3>1, <3>3
  <2>3. CASE u \notin ToSet(l)
    BY <1>1, <1>2, <2>3
  <2> QED
    BY <2>2, <2>3
<1> QED
  BY <1>1, <1>2, <1>3, <1>4, <1>5 DEF Recent, m

-----------------------------------------------------------------------------
(* Deferred tools: the invariant.                                          *)

\* What is loaded is of those used last.
LEMMA MostRecentIs == LoadedIsMostRecent <=> ToolTypeOK /\ Recent(loaded, used, after)
<1>1. ASSUME ToolTypeOK
      PROVE  Recent(loaded, used, after) <=>
                /\ ToSet(loaded) \subseteq used
                /\ \A i, j \in DOMAIN loaded : i < j => <<loaded[i], loaded[j]>> \in after
                /\ ToSet(loaded) \X (used \ ToSet(loaded)) \subseteq after
  <2>1. loaded \in Seq(Deferred) /\ IsInjective(loaded)
    BY <1>1 DEF ToolTypeOK
  <2>2. ToSet(loaded) \X (used \ ToSet(loaded)) \subseteq after <=>
           \A t \in ToSet(loaded), u \in used \ ToSet(loaded) : <<t, u>> \in after
    OBVIOUS
  <2> QED
    BY <2>1, <2>2 DEF Recent
<1> QED
  BY <1>1 DEF LoadedIsMostRecent

LEMMA MostRecentThen ==
    ASSUME ToolTypeOK', Recent(loaded', used', after')
    PROVE  LoadedIsMostRecent'
<1>1. \A t \in ToSet(loaded'), u \in used' \ ToSet(loaded') : <<t, u>> \in after'
  BY DEF Recent
<1>2. ToSet(loaded') \X (used' \ ToSet(loaded')) \subseteq after'
  BY <1>1
<1>3. /\ ToSet(loaded') \subseteq used'
      /\ \A i, j \in DOMAIN loaded' : i < j => <<loaded'[i], loaded'[j]>> \in after'
  BY DEF Recent
<1> QED
  BY <1>2, <1>3 DEF LoadedIsMostRecent, ToSet

\* The tool used last is the first of those loaded, if any is.
LEMMA LatestIsFirst ==
    ASSUME LoadedIsMostRecent, loaded # <<>>,
           NEW t \in used, \A u \in used \ {t} : <<t, u>> \in after
    PROVE  1 \in DOMAIN loaded /\ loaded[1] = t
<1>1. ToolTypeOK /\ Recent(loaded, used, after)
  BY MostRecentIs
<1>2. loaded \in Seq(Deferred) /\ DOMAIN loaded = 1..Len(loaded) /\ Len(loaded) \in Nat
  BY <1>1 DEF ToolTypeOK
<1>3. 1 \in DOMAIN loaded /\ \A j \in DOMAIN loaded : j # 1 => 1 < j
  BY <1>2
<1>4. loaded[1] \in ToSet(loaded) /\ loaded[1] \in used
  BY <1>1, <1>3, MembersAre DEF Recent
<1>5. ASSUME loaded[1] # t
      PROVE  FALSE
  <2>1. <<t, loaded[1]>> \in after
    BY <1>4, <1>5
  <2>2. <<loaded[1], t>> \in after
    <3>1. CASE t \in ToSet(loaded)
      <4>1. PICK j \in DOMAIN loaded : loaded[j] = t
        BY <3>1, MembersAre
      <4> QED
        BY <1>1, <1>3, <1>5, <4>1 DEF Recent
    <3>2. CASE t \notin ToSet(loaded)
      BY <1>1, <1>4, <3>2 DEF Recent
    <3> QED
      BY <3>1, <3>2
  <2> QED
    BY <1>1, <1>4, <2>1, <2>2 DEF ToolTypeOK
<1> QED
  BY <1>3, <1>5

\* Names of the catalogue, one by one different, are used in a known order.
LEMMA UsesTypes ==
    ASSUME LoadedIsMostRecent, NEW names \in Seq(Deferred), IsInjective(names), Uses(names)
    PROVE  ToolTypeOK' /\ Recent(loaded', used', after')
<1> DEFINE these == ToSet(names)
           Then(x, y) == \E i, j \in DOMAIN names : i < j /\ x = names[i] /\ y = names[j]
<1>1. ToolTypeOK /\ Recent(loaded, used, after)
  BY MostRecentIs
<1>2. /\ budget' = budget /\ shown' = shown /\ turned' = FALSE
      /\ loaded' = Loaded(loaded, names) /\ used' = used \cup these /\ after' = After(names)
  BY DEF Uses
<1>3. Recent(loaded', used', after')
  BY <1>1, <1>2, LoadedIsRecent
<1>4. these \subseteq Deferred
  BY MembersAre
<1>5. ASSUME NEW x, NEW y
      PROVE  <<x, y>> \in after' <=>
                \/ Then(x, y)
                \/ x \in these /\ y \in used \ these
                \/ <<x, y>> \in after /\ x \notin these /\ y \notin these
  BY <1>1, <1>2, AfterIs
<1>6. ASSUME NEW x, NEW y, Then(x, y)
      PROVE  x \in these /\ y \in these
  BY <1>6, MembersAre
<1>7. ASSUME NEW x \in these, NEW y \in these
      PROVE  Then(x, y) <=> x # y /\ ~ Then(y, x)
  <2>1. PICK i \in DOMAIN names : names[i] = x
    BY MembersAre
  <2>2. PICK j \in DOMAIN names : names[j] = y
    BY MembersAre
  <2>3. DOMAIN names \subseteq Int
    OBVIOUS
  <2>4. ASSUME NEW k \in DOMAIN names, NEW m \in DOMAIN names, names[k] = names[m]
        PROVE  k = m
    BY <2>4 DEF IsInjective
  <2>5. Then(x, y) <=> i < j
    BY <2>1, <2>2, <2>4
  <2>6. Then(y, x) <=> j < i
    BY <2>1, <2>2, <2>4
  <2>7. x # y <=> i # j
    BY <2>1, <2>2, <2>4
  <2> HIDE DEF Then
  <2>8. i \in Int /\ j \in Int
    BY <2>3
  <2> QED
    BY <2>5, <2>6, <2>7, <2>8
<1>8. after \subseteq used \X used /\ used \subseteq Deferred
      /\ \A t \in used : \A u \in used : <<t, u>> \in after <=> t # u /\ <<u, t>> \notin after
  BY <1>1 DEF ToolTypeOK
<1> HIDE DEF these, Then
<1>9. used' \subseteq Deferred
  BY <1>2, <1>4, <1>8
<1>10. after' \subseteq used' \X used'
  <2>1. ASSUME NEW x, NEW y, <<x, y>> \in after'
        PROVE  x \in used' /\ y \in used'
    BY <1>2, <1>5, <1>6, <1>8, <2>1
  <2>2. ASSUME NEW p \in after'
        PROVE  \E x, y : p = <<x, y>>
    <3>1. p \in (these \X these) \cup (these \X (used \ these)) \cup (used \X used)
      BY <1>2, <1>8, <2>2 DEF After, these
    <3> QED
      BY <3>1
  <2> QED
    BY <2>1, <2>2
<1>11. ASSUME NEW t \in used', NEW u \in used'
       PROVE  <<t, u>> \in after' <=> t # u /\ <<u, t>> \notin after'
  <2>1. CASE t \in these /\ u \in these
    BY <1>5, <1>7, <2>1
  <2>2. CASE t \in these /\ u \notin these
    BY <1>2, <1>5, <1>6, <2>2
  <2>3. CASE t \notin these /\ u \in these
    BY <1>2, <1>5, <1>6, <2>3
  <2>4. CASE t \notin these /\ u \notin these
    <3>1. t \in used /\ u \in used
      BY <1>2, <2>4
    <3> QED
      BY <1>5, <1>6, <1>8, <2>4, <3>1
  <2> QED
    BY <2>1, <2>2, <2>3, <2>4
<1>12. loaded' \in Seq(Deferred) /\ IsInjective(loaded')
  BY <1>3 DEF Recent
<1>13. budget' \in Budgets /\ shown' \subseteq DOMAIN Bytes /\ turned' \in BOOLEAN
  BY <1>1, <1>2 DEF ToolTypeOK
<1> QED
  BY <1>3, <1>9, <1>10, <1>11, <1>12, <1>13 DEF ToolTypeOK

\* A nonempty batch of uses.
LEMMA UsesInv ==
    ASSUME ToolInv, NEW names \in Seq(Deferred), IsInjective(names), names # <<>>, Uses(names)
    PROVE  ToolInv'
<1>1. /\ budget' = budget /\ shown' = shown /\ turned' = FALSE
      /\ loaded' = Loaded(loaded, names)
  BY DEF Uses
<1>2. LoadedIsMostRecent /\ Advertised /\ ToolTypeOK /\ Recent(loaded, used, after)
  BY MostRecentIs DEF ToolInv
<1>3. LoadedIsMostRecent'
  <2>1. ToolTypeOK' /\ Recent(loaded', used', after')
    BY <1>2, UsesTypes
  <2> QED
    BY <2>1, MostRecentThen
<1>4. LastUsedStays'
  <2>1. loaded' # <<>>
    BY <1>1, <1>2, LoadedIsRecent
  <2> QED
    BY <2>1 DEF LastUsedStays
<1>5. Advertised'
  BY <1>1, <1>2 DEF Advertised
<1> QED
  BY <1>3, <1>4, <1>5 DEF ToolInv

\* The best hits of a search.
LEMMA SearchesInv == ASSUME ToolInv, Searches PROVE ToolInv'
<1>1. PICK n \in 1..TopK : \E hits \in [1..n -> Deferred] : IsInjective(hits) /\ Uses(hits)
  BY DEF Searches
<1>2. PICK hits \in [1..n -> Deferred] : IsInjective(hits) /\ Uses(hits)
  BY <1>1
<1>3. hits \in Seq(Deferred) /\ hits # <<>>
  <2>1. n \in Nat /\ 1 \in 1..n
    BY ToolSearchAssumption
  <2> QED
    BY <2>1
<1> QED
  BY <1>2, <1>3, UsesInv

\* The smaller of two numbers.
LEMMA MinIs ==
    ASSUME NEW a \in Nat, NEW b \in Nat, a > 0, b > 0
    PROVE  Min({a, b}) \in 1..b
<1>1. Min({a, b}) = IF a <= b THEN a ELSE b
  BY DEF Min
<1> QED
  BY <1>1

\* The first members of a namespace, of which there are some.
LEMMA OpensInv ==
    ASSUME ToolInv, NEW header \in DOMAIN Namespaces, Opens(header)
    PROVE  ToolInv'
<1> DEFINE l == Namespaces[header]
           n == Min({TopK, Len(l)})
           names == SubSeq(l, 1, n)
<1>1. l \in Seq(Deferred) /\ l # <<>> /\ IsInjective(l) /\ TopK \in Nat
  BY ToolSearchAssumption
<1>2. Len(l) \in Nat /\ Len(l) # 0 /\ DOMAIN l = 1..Len(l)
  <2> HIDE DEF l
  <2> QED
    BY <1>1
<1>3. TopK > 0 /\ Uses(names)
  BY DEF Opens
<1>4. n \in 1..Len(l)
  <2> HIDE DEF l
  <2>1. Len(l) > 0 /\ TopK > 0
    BY <1>2, <1>3
  <2> QED
    BY <1>1, <1>2, <2>1, MinIs
<1> HIDE DEF l, n
<1>5. n \in 0..Len(l) /\ n # 0 /\ 1 \in 1..n
  BY ONLY <1>2, <1>4
<1>6. /\ names \in Seq(Deferred) /\ DOMAIN names = 1..n /\ 1..n \subseteq DOMAIN l
      /\ \A i \in 1..n : names[i] = l[i]
  BY <1>1, <1>5, FrontIs
<1> HIDE DEF names
<1>7. IsInjective(names)
  BY <1>1, <1>6 DEF IsInjective
<1>8. names # <<>>
  BY <1>5, <1>6
<1> QED
  BY <1>3, <1>6, <1>7, <1>8, UsesInv

\* A tool that is called.
LEMMA CallsInv == ASSUME ToolInv, NEW t \in Deferred, Calls(t) PROVE ToolInv'
<1> DEFINE names == <<t>>
<1>1. names \in Seq(Deferred) /\ names # <<>> /\ IsInjective(names)
  BY DEF IsInjective
<1>2. Uses(names)
  BY DEF Calls
<1> HIDE DEF names
<1> QED
  BY <1>1, <1>2, UsesInv

\* What a turn keeps fits with the baseline, or it is nothing.
LEMMA KeptFits ==
    ASSUME ToolTypeOK
    PROVE  \/ ToSet(Kept(loaded)) = {}
           \/ Total(Baseline \cup ToSet(Kept(loaded))) <= budget
<1>1. loaded \in Seq(Deferred)
  BY DEF ToolTypeOK
<1>2. PICK n \in 0..Len(loaded) :
              /\ Kept(loaded) = SubSeq(loaded, 1, n)
              /\ n > 0 => Fits(SubSeq(loaded, 1, n))
  BY <1>1, KeptIs
<1> DEFINE kept == Kept(loaded)
<1>3. kept \in Seq(Deferred) /\ DOMAIN kept = 1..n
  BY <1>1, <1>2, FrontIs
<1> HIDE DEF kept
<1>4. CASE n = 0
  <2>1. DOMAIN kept = {}
    BY <1>3, <1>4
  <2>2. ToSet(kept) = {}
    BY <2>1, MembersAre
  <2> QED
    BY <2>2 DEF kept
<1>5. CASE n # 0
  <2>1. Fits(kept)
    <3>1. n > 0
      BY <1>1, <1>5
    <3> QED
      BY <1>2, <3>1 DEF kept
  <2>2. ToSet(kept) \subseteq Deferred
    BY <1>3, MembersAre
  <2>3. Baseline \in SUBSET (DOMAIN Bytes) /\ ToSet(kept) \in SUBSET (DOMAIN Bytes)
        /\ Baseline \cap ToSet(kept) = {}
    BY <2>2, ToolsAreDescribed
  <2>4. Total(Baseline \cup ToSet(kept)) = Total(Baseline) + Total(ToSet(kept))
    BY <2>3, TotalOfBoth
  <2> QED
    BY <2>1, <2>4 DEF Fits, kept
<1> QED
  BY <1>4, <1>5

\* The schemas of a turn.
LEMMA TurnInv == ASSUME ToolInv, Turn PROVE ToolInv'
<1>1. /\ loaded' = Kept(loaded) /\ shown' = Baseline \cup ToSet(Kept(loaded)) /\ turned' = TRUE
      /\ budget' = budget /\ used' = used /\ after' = after
  BY DEF Turn
<1>2. LoadedIsMostRecent /\ LastUsedStays /\ ToolTypeOK /\ Recent(loaded, used, after)
  BY MostRecentIs DEF ToolInv
<1>3. loaded \in Seq(Deferred) /\ Len(loaded) \in Nat /\ DOMAIN loaded = 1..Len(loaded)
  BY <1>2 DEF ToolTypeOK
<1>4. PICK n \in 0..Len(loaded) :
              /\ Kept(loaded) = SubSeq(loaded, 1, n)
              /\ Len(loaded) > 0 /\ Fits(SubSeq(loaded, 1, 1)) => n > 0
  BY <1>3, KeptIs
<1>5. /\ loaded' \in Seq(Deferred) /\ DOMAIN loaded' = 1..n
      /\ ToSet(loaded') \subseteq Deferred
  <2>1. loaded' \in Seq(Deferred) /\ DOMAIN loaded' = 1..n
    BY <1>1, <1>3, <1>4, FrontIs
  <2> QED
    BY <2>1, MembersAre
<1>6. Recent(loaded', used', after')
  BY <1>1, <1>2, <1>4, FrontIsRecent
<1>7. ToolTypeOK'
  <2>1. loaded' \in Seq(Deferred) /\ IsInjective(loaded')
    BY <1>6 DEF Recent
  <2>2. shown' \subseteq DOMAIN Bytes
    BY <1>1, <1>5, ToolsAreDescribed
  <2> QED
    BY <1>1, <1>2, <2>1, <2>2 DEF ToolTypeOK
<1>8. LoadedIsMostRecent'
  BY <1>6, <1>7, MostRecentThen
<1>9. LastUsedStays'
  <2> SUFFICES ASSUME NEW t \in used, Total(Baseline) + Bytes[t] <= budget,
                      \A u \in used \ {t} : <<t, u>> \in after
               PROVE  loaded' # <<>>
    BY <1>1 DEF LastUsedStays
  <2>1. loaded # <<>>
    BY <1>2 DEF LastUsedStays
  <2>2. 1 \in DOMAIN loaded /\ loaded[1] = t
    BY <1>2, <2>1, LatestIsFirst
  <2>3. t \in Deferred /\ t \in DOMAIN Bytes
    BY <1>2, ToolsAreDescribed DEF ToolTypeOK
  <2> DEFINE first == SubSeq(loaded, 1, 1)
  <2>4. ToSet(first) = {t}
    <3>1. 1 \in 0..Len(loaded)
      BY <1>3, <2>2
    <3>2. DOMAIN first = 1..1 /\ \A i \in 1..1 : first[i] = loaded[i]
      BY <1>3, <3>1, FrontIs
    <3> HIDE DEF first
    <3>3. \A x : x \in ToSet(first) <=> x = t
      BY <2>2, <3>2, MembersAre
    <3> QED
      BY <3>3
  <2>5. Fits(first)
    BY <2>3, <2>4, TotalOfOne DEF Fits
  <2>6. Len(loaded) > 0
    BY <1>3, <2>2
  <2>7. n > 0
    BY <1>4, <2>5, <2>6
  <2>8. 1 \in DOMAIN loaded'
    BY <1>3, <1>5, <2>7
  <2> QED
    BY <2>8
<1>10. Advertised'
  <2>1. shown' = Baseline \cup ToSet(loaded')
    BY <1>1
  <2>2. ToSet(loaded') = {} \/ Total(shown') <= budget'
    BY <1>1, <1>2, KeptFits
  <2>3. (shown \subseteq Baseline \/ Total(shown) <= budget)'
    <3>1. CASE ToSet(loaded') = {}
      BY <2>1, <3>1 DEF Baseline
    <3>2. CASE Total(shown') <= budget'
      BY <3>2 DEF Total
    <3> QED
      BY <2>2, <3>1, <3>2
  <2> QED
    BY <2>1, <2>3 DEF Advertised, Baseline
<1> QED
  BY <1>8, <1>9, <1>10 DEF ToolInv

\* Before anything is used.
LEMMA NothingUsed ==
    ASSUME budget \in Budgets, loaded = <<>>, shown = {}, used = {}, after = {}, turned = FALSE
    PROVE  ToolInv
<1>1. ToSet(loaded) = {} /\ loaded \in Seq(Deferred) /\ DOMAIN loaded = {}
  BY MembersAre
<1>2. ToolTypeOK
  BY <1>1 DEF ToolTypeOK, IsInjective
<1>3. LoadedIsMostRecent
  BY <1>1, <1>2 DEF LoadedIsMostRecent
<1> QED
  BY <1>3 DEF ToolInv, LastUsedStays, Advertised

\* A new window of the turn loop.
LEMMA NewWindowInv == ASSUME ToolInv, NewWindow PROVE ToolInv'
<1>1. /\ budget' \in Budgets /\ loaded' = <<>> /\ shown' = {} /\ used' = {} /\ after' = {}
      /\ turned' = FALSE
  BY DEF NewWindow, ToolInv, LoadedIsMostRecent, ToolTypeOK
<1>2. (/\ budget \in Budgets /\ loaded = <<>> /\ shown = {} /\ used = {} /\ after = {}
       /\ turned = FALSE)'
      => ToolInv'
  BY NothingUsed, PTL
<1> QED
  BY <1>1, <1>2

LEMMA ToolInvHolds == ToolSpec => []ToolInv
<1>1. ToolInit => ToolInv
  BY NothingUsed DEF ToolInit
<1>2. ToolInv /\ [ToolNext]_toolVars => ToolInv'
  <2> SUFFICES ASSUME ToolInv, [ToolNext]_toolVars PROVE ToolInv'
    OBVIOUS
  <2>1. CASE UNCHANGED toolVars
    <3>1. /\ budget' = budget /\ loaded' = loaded /\ shown' = shown /\ used' = used
          /\ after' = after /\ turned' = turned
      BY <2>1 DEF toolVars
    <3> QED
      BY <3>1 DEF ToolInv, LoadedIsMostRecent, ToolTypeOK, LastUsedStays, Advertised
  <2> QED
    BY <2>1, TurnInv, SearchesInv, OpensInv, CallsInv, NewWindowInv DEF ToolNext
<1> QED
  BY <1>1, <1>2, PTL DEF ToolSpec

-----------------------------------------------------------------------------
(* Deferred tools: theorems.                                               *)

\* Whatever searches, namespaces, calls and evictions came, the loaded tools are those
\* used last, in that order (tool_registry.rs touch, load_and_list, schemas).
THEOREM EvictionIsByLastUse == ToolSpec => []LoadedIsMostRecent
<1>1. ToolInv => LoadedIsMostRecent
  BY DEF ToolInv
<1> QED
  BY <1>1, ToolInvHolds, PTL

\* What a turn advertises fits the budget or is the baseline alone, and the tool used last
\* is among it whenever it fits (tool_registry.rs schemas).
THEOREM BudgetIsKept == ToolSpec => []LastUsedIsShown
<1>1. ToolInv => LastUsedIsShown
  <2> SUFFICES ASSUME ToolInv PROVE LastUsedIsShown
    OBVIOUS
  <2>1. LoadedIsMostRecent /\ LastUsedStays /\ Advertised
    BY DEF ToolInv
  <2>2. ASSUME NEW t \in used, turned, Total(Baseline) + Bytes[t] <= budget,
               \A u \in used \ {t} : <<t, u>> \in after
        PROVE  t \in shown
    <3>1. loaded # <<>>
      BY <2>1, <2>2 DEF LastUsedStays
    <3>2. 1 \in DOMAIN loaded /\ loaded[1] = t
      BY <2>1, <2>2, <3>1, LatestIsFirst
    <3>3. t \in ToSet(loaded)
      BY <3>2, MembersAre
    <3> QED
      BY <2>1, <2>2, <3>3 DEF Advertised
  <2> QED
    BY <2>1, <2>2 DEF LastUsedIsShown, Advertised
<1> QED
  BY <1>1, ToolInvHolds, PTL

=============================================================================
