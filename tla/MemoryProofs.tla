---------------------------- MODULE MemoryProofs ----------------------------
(***************************************************************************)
(* That no history of a memory loses anything, and that proposals wait.    *)
(***************************************************************************)
EXTENDS Memory, TLAPS

\* No archive will be put here any more.
Settled(k) == \A i \in Ids, n \in 1..MaxArchives : n > archiveSeq => k # ArchiveId(i, n)

\* What was stored under an id of a caller's own is where no archive comes.
HeldAt(id) ==
    \A t \in said[id] : \E k \in Ids :
        semantic[k] # NoMemory /\ Settled(k) /\ t \in semantic[k].texts

\* What was stored is in the record or in the archives made of it; what the links of
\* the first record lead to may be lost.
OwnKept(id) ==
    \A t \in said[id] :
        /\ semantic[id] # NoMemory
        /\ \/ t \in semantic[id].texts
           \/ \E n \in OwnLinks(id) : t \in semantic[semantic[id].previous[n]].texts

IInv ==
    /\ TypeOK /\ ProposalsWait
    /\ \A id \in OwnIds : HeldAt(id)
    /\ \A id \in Undisturbed : OwnKept(id)
    /\ HistoryIsChain

-----------------------------------------------------------------------------
(* The state.                                                              *)

\* A record is a record, and its links are ids.
LEMMA RecordType ==
    ASSUME TypeOK, NEW k \in Ids, semantic[k] # NoMemory
    PROVE  /\ semantic[k] \in Records
           /\ semantic[k].texts \subseteq Nat
           /\ semantic[k].previous \in Seq(Ids) /\ semantic[k].version \in Nat
           /\ DOMAIN semantic[k].previous = 1..Len(semantic[k].previous)
           /\ Len(semantic[k].previous) \in Nat
           /\ \A n \in 1..Len(semantic[k].previous) : semantic[k].previous[n] \in Ids
  BY DEF TypeOK, Records

LEMMA FirstType ==
    ASSUME TypeOK, NEW k \in Ids
    PROVE  /\ first[k].previous \in Seq(Ids) /\ first[k].version \in Nat
           /\ Len(first[k].previous) \in Nat
  BY DEF TypeOK

LEMMA SeqType == TypeOK => archiveSeq \in Nat /\ MaxArchives \in Nat
  BY MemoryAssumption DEF TypeOK

\* The invariant says what the properties say.
LEMMA InvImplies == IInv => HistoryIsWhole
<1> SUFFICES ASSUME IInv PROVE HistoryIsWhole
  OBVIOUS
<1>1. TypeOK /\ HistoryIsChain /\ Undisturbed \subseteq Ids
  BY DEF IInv, Undisturbed, OwnIds
<1>2. NothingIsLost
  BY DEF IInv, HeldAt, NothingIsLost
<1>3. ASSUME NEW id \in Undisturbed, NEW t \in said[id]
      PROVE  \E k \in History(id) : t \in semantic[k].texts
  <2>1. OwnKept(id) /\ id \in Ids /\ semantic[id] # NoMemory
    BY <1>1, <1>3 DEF IInv, OwnKept
  <2>2. CASE t \in semantic[id].texts
    BY <2>1, <2>2 DEF History
  <2>3. ASSUME NEW n \in OwnLinks(id), t \in semantic[semantic[id].previous[n]].texts
        PROVE  \E k \in History(id) : t \in semantic[k].texts
    <3> DEFINE k == semantic[id].previous[n]
    <3>1. n \in DOMAIN semantic[id].previous /\ k \in Ids
      BY <1>1, <2>1, <2>3, RecordType, FirstType DEF OwnLinks
    <3>2. semantic[k] # NoMemory
      BY <1>1, <1>3, <2>1, <2>3 DEF HistoryIsChain, IsChain
    <3> QED
      BY <2>1, <2>3, <3>1, <3>2 DEF History
  <2> QED
    BY <2>1, <2>2, <2>3 DEF OwnKept
<1> QED
  BY <1>1, <1>2, <1>3 DEF HistoryIsWhole, HistoryKept, IsKept

\* An id that is undisturbed now was so before.
LEMMA UndisturbedBefore ==
    ASSUME \A k \in Ids : said[k] \subseteq said'[k]
    PROVE  Undisturbed' \subseteq Undisturbed
  BY DEF Undisturbed, OwnIds

\* A record keeps all that a history is made of.
Keeps(k) ==
    semantic[k] # NoMemory =>
        /\ semantic'[k] # NoMemory
        /\ semantic[k].texts \subseteq semantic'[k].texts
        /\ semantic'[k].version = semantic[k].version
        /\ semantic'[k].previous = semantic[k].previous

\* A history stays when the record and its archives do, whatever happens elsewhere.
LEMMA ChainStays ==
    ASSUME IInv, NEW x \in Undisturbed, semantic[x] # NoMemory, Keeps(x),
           \A m \in 1..archiveSeq : ArchiveId(x, m) \in Ids => Keeps(ArchiveId(x, m)),
           first'[x] = first[x], archiveSeq' \in Int, archiveSeq' >= archiveSeq
    PROVE  /\ IsChain(x)' /\ semantic'[x] # NoMemory
           /\ \A t \in said[x] : \/ t \in semantic'[x].texts
                                 \/ \E n \in OwnLinks(x)' :
                                       t \in semantic'[semantic'[x].previous[n]].texts
<1>1. TypeOK /\ x \in Ids /\ IsChain(x) /\ OwnKept(x) /\ archiveSeq \in Nat
  BY SeqType DEF IInv, HistoryIsChain, Undisturbed, OwnIds
<1>2. /\ semantic'[x] # NoMemory /\ semantic'[x].version = semantic[x].version
      /\ semantic'[x].previous = semantic[x].previous
      /\ semantic[x].texts \subseteq semantic'[x].texts
  BY DEF Keeps
<1>3. OwnLinks(x)' = OwnLinks(x)
  BY <1>2 DEF OwnLinks
<1>4. ASSUME NEW n \in OwnLinks(x)
      PROVE  /\ \E m \in 1..archiveSeq' : semantic[x].previous[n] = ArchiveId(x, m)
             /\ semantic[semantic[x].previous[n]] # NoMemory
             /\ Keeps(semantic[x].previous[n])
  <2>1. PICK m \in 1..archiveSeq : semantic[x].previous[n] = ArchiveId(x, m)
    BY <1>1 DEF IsChain
  <2>2. semantic[x].previous[n] \in Ids
    BY <1>1, RecordType, FirstType DEF OwnLinks
  <2>3. semantic[semantic[x].previous[n]] # NoMemory
    BY <1>1 DEF IsChain
  <2>4. m \in 1..archiveSeq'
    BY <1>1, <2>1
  <2> QED
    BY <2>1, <2>2, <2>3, <2>4
<1>5. IsChain(x)'
  <2>1. ASSUME NEW n \in OwnLinks(x)
        PROVE  LET k == semantic[x].previous[n]
               IN  /\ semantic'[k] # NoMemory
                   /\ semantic'[k].version = semantic[k].version
                   /\ semantic'[k].previous = semantic[k].previous
    BY <1>4 DEF Keeps
  <2> QED
    BY <1>1, <1>2, <1>3, <1>4, <2>1 DEF IsChain
<1>6. ASSUME NEW t \in said[x]
      PROVE  \/ t \in semantic'[x].texts
             \/ \E n \in OwnLinks(x)' : t \in semantic'[semantic'[x].previous[n]].texts
  <2>1. CASE t \in semantic[x].texts
    BY <1>2, <2>1
  <2>2. ASSUME NEW n \in OwnLinks(x), t \in semantic[semantic[x].previous[n]].texts
        PROVE  t \in semantic'[semantic'[x].previous[n]].texts
    BY <1>2, <1>4, <2>2 DEF Keeps
  <2> QED
    BY <1>1, <1>3, <2>1, <2>2 DEF OwnKept
<1> QED
  BY <1>2, <1>5, <1>6

\* What is held stays held in records that keep their texts.
LEMMA HeldStays ==
    ASSUME TypeOK, NEW x \in OwnIds, NEW t, archiveSeq' \in Int, archiveSeq' >= archiveSeq,
           NEW k \in Ids, Settled(k), semantic'[k] # NoMemory, t \in semantic'[k].texts
    PROVE  \E j \in Ids : semantic'[j] # NoMemory /\ Settled(j)' /\ t \in semantic'[j].texts
<1>1. Settled(k)'
  BY SeqType DEF Settled
<1> QED
  BY <1>1

-----------------------------------------------------------------------------
(* The operations.                                                         *)

\* A change of a status touches no history; a proposal may only stop waiting by
\* becoming Active, which neither operation does.
LEMMA StatusInv ==
    ASSUME IInv, NEW id \in Ids, NEW s \in {"deprecated", "pending"},
           semantic[id] # NoMemory,
           semantic' = [semantic EXCEPT ![id].status = s],
           UNCHANGED <<archiveSeq, stores, said, first>>
    PROVE  IInv'
<1> DEFINE new == [semantic[id] EXCEPT !.status = s]
<1>1. TypeOK /\ ProposalsWait /\ semantic[id] \in Records /\ archiveSeq \in Nat
  BY SeqType, RecordType DEF IInv
<1>2. /\ new \in Records /\ new.texts = semantic[id].texts /\ new.version = semantic[id].version
      /\ new.previous = semantic[id].previous /\ new.status = s
  BY <1>1 DEF Records, Statuses
<1>3. new # NoMemory
  BY <1>2, MemoryAssumption
<1>4. semantic' = [semantic EXCEPT ![id] = new]
  OBVIOUS
<1> HIDE DEF new
<1>5. \A k \in Ids : semantic'[k] = IF k = id THEN new ELSE semantic[k]
  BY <1>1, <1>4 DEF TypeOK
<1>6. TypeOK'
  BY <1>1, <1>2, <1>4 DEF TypeOK
<1>7. ProposalsWait'
  BY <1>1, <1>2, <1>5 DEF ProposalsWait, ActiveIds
<1>8. \A k \in Ids : /\ Keeps(k)
                     /\ semantic[k] = NoMemory <=> semantic'[k] = NoMemory
  BY <1>2, <1>3, <1>5 DEF Keeps
<1>9. ASSUME NEW x \in OwnIds PROVE HeldAt(x)'
  <2> SUFFICES ASSUME NEW t \in said[x]
               PROVE  \E j \in Ids : semantic'[j] # NoMemory /\ Settled(j)' /\ t \in semantic'[j].texts
    BY DEF HeldAt
  <2>1. PICK k \in Ids : semantic[k] # NoMemory /\ Settled(k) /\ t \in semantic[k].texts
    BY DEF IInv, HeldAt
  <2> QED
    BY <1>1, <1>8, <2>1, HeldStays DEF Keeps
<1>10. Undisturbed' = Undisturbed /\ OwnIds' = OwnIds
  BY DEF Undisturbed, OwnIds
<1>11. ASSUME NEW x \in Undisturbed
       PROVE  OwnKept(x)' /\ (semantic'[x] # NoMemory => IsChain(x)')
  <2>1. x \in Ids
    BY DEF Undisturbed, OwnIds
  <2>2. CASE semantic[x] = NoMemory
    BY <1>8, <2>1, <2>2 DEF IInv, OwnKept
  <2>3. CASE semantic[x] # NoMemory
    BY <1>1, <1>8, <2>1, <2>3, ChainStays DEF OwnKept
  <2> QED
    BY <2>2, <2>3
<1> QED
  BY <1>6, <1>7, <1>9, <1>10, <1>11 DEF IInv, HistoryIsChain

\* What is stored under one id leaves the histories of the others alone: of an id that
\* is undisturbed, neither the record nor an archive is written.
LEMMA OtherChains ==
    ASSUME IInv, NEW id \in Ids, NEW texts, texts # {},
           \A k \in Ids \ {id} :
              \/ semantic'[k] = semantic[k]
              \/ NextArchive \in 1..MaxArchives /\ k = ArchiveId(id, NextArchive),
           said' = [said EXCEPT ![id] = @ \cup texts],
           \A k \in Ids \ {id} : first'[k] = first[k],
           archiveSeq' \in Int, archiveSeq' >= archiveSeq
    PROVE  \A x \in Undisturbed' \ {id} :
              OwnKept(x)' /\ (semantic'[x] # NoMemory => IsChain(x)')
<1> SUFFICES ASSUME NEW x \in Undisturbed', x # id
             PROVE  OwnKept(x)' /\ (semantic'[x] # NoMemory => IsChain(x)')
  OBVIOUS
<1>1. TypeOK /\ archiveSeq \in Nat /\ MaxArchives \in Nat /\ NextArchive = archiveSeq + 1
  BY SeqType DEF IInv, NextArchive
<1>2. \A k \in Ids : said'[k] = IF k = id THEN said[k] \cup texts ELSE said[k]
  BY <1>1 DEF TypeOK
<1>3. x \in Undisturbed /\ x \in Ids /\ x \in OwnIds
  BY <1>2, UndisturbedBefore DEF Undisturbed, OwnIds
<1>4. semantic'[x] = semantic[x]
  BY <1>3 DEF OwnIds
<1>5. ASSUME NEW m \in 1..archiveSeq, ArchiveId(x, m) \in Ids
      PROVE  semantic'[ArchiveId(x, m)] = semantic[ArchiveId(x, m)]
  <2>1. m \in 1..MaxArchives
    BY <1>1 DEF TypeOK
  <2>2. said'[ArchiveId(x, m)] = {}
    BY <1>5, <2>1 DEF Undisturbed
  <2>3. ArchiveId(x, m) # id
    BY <1>2, <1>5, <2>2
  <2>4. ArchiveId(x, m) # ArchiveId(id, NextArchive)
    BY DEF ArchiveId
  <2> QED
    BY <1>5, <2>3, <2>4
<1>6. Keeps(x) /\ \A m \in 1..archiveSeq : ArchiveId(x, m) \in Ids => Keeps(ArchiveId(x, m))
  BY <1>4, <1>5 DEF Keeps
<1>7. first'[x] = first[x] /\ said'[x] = said[x]
  BY <1>2, <1>3
<1>8. CASE semantic[x] = NoMemory
  BY <1>3, <1>4, <1>7, <1>8 DEF IInv, OwnKept
<1>9. CASE semantic[x] # NoMemory
  BY <1>3, <1>6, <1>7, <1>9, ChainStays DEF OwnKept
<1> QED
  BY <1>8, <1>9

\* A record as it is stored, after the review of proposals.
Incoming == {m \in Records : m.texts = {stores + 1} /\ (m.meta => m.status # "active")}

\* The first record under an id.
LEMMA FirstInv ==
    ASSUME IInv, NEW id \in Ids, NEW memory \in Incoming, StoresFirst(id, memory),
           stores' = stores + 1, said' = [said EXCEPT ![id] = @ \cup memory.texts]
    PROVE  IInv'
<1>1. /\ TypeOK /\ ProposalsWait /\ archiveSeq \in Nat /\ MaxArchives \in Nat
      /\ memory \in Records /\ semantic[id] = NoMemory
  BY SeqType DEF IInv, Incoming, StoresFirst
<1>2. /\ memory # NoMemory /\ memory.texts \subseteq Nat /\ memory.texts = {stores + 1}
      /\ memory.previous \in Seq(Ids) /\ memory.version \in Nat
      /\ (memory.meta => memory.status # "active")
  BY <1>1, MemoryAssumption DEF Incoming, Records
<1>3. /\ semantic' = [semantic EXCEPT ![id] = memory]
      /\ first' = [first EXCEPT ![id] = [version |-> memory.version, previous |-> memory.previous]]
      /\ archiveSeq' = archiveSeq
  BY DEF StoresFirst
<1>4. /\ \A k \in Ids : semantic'[k] = IF k = id THEN memory ELSE semantic[k]
      /\ \A k \in Ids : first'[k] = IF k = id THEN [version |-> memory.version,
                                                    previous |-> memory.previous] ELSE first[k]
      /\ \A k \in Ids : said'[k] = IF k = id THEN said[k] \cup memory.texts ELSE said[k]
  BY <1>1, <1>3 DEF TypeOK
<1>5. TypeOK'
  BY <1>1, <1>2, <1>3 DEF TypeOK
<1>6. ProposalsWait'
  BY <1>1, <1>2, <1>4 DEF ProposalsWait, ActiveIds
<1>7. ASSUME NEW x \in OwnIds PROVE HeldAt(x)'
  <2> SUFFICES ASSUME NEW t \in said'[x]
               PROVE  \E j \in Ids : semantic'[j] # NoMemory /\ Settled(j)' /\ t \in semantic'[j].texts
    BY DEF HeldAt
  <2>0. x \in Ids
    BY DEF OwnIds
  <2>1. CASE t \in said[x]
    <3>1. PICK k \in Ids : semantic[k] # NoMemory /\ Settled(k) /\ t \in semantic[k].texts
      BY <2>1 DEF IInv, HeldAt
    <3>2. semantic'[k] # NoMemory /\ t \in semantic'[k].texts
      BY <1>1, <1>4, <3>1
    <3>3. TypeOK /\ archiveSeq' \in Int /\ archiveSeq' >= archiveSeq
      BY <1>1, <1>3
    <3> QED
      BY <3>1, <3>2, <3>3, HeldStays
  <2>2. CASE t \in memory.texts /\ x = id
    <3>1. Settled(x)
      BY <1>1 DEF Settled, OwnIds
    <3>2. semantic'[x] # NoMemory /\ t \in semantic'[x].texts
      BY <1>2, <1>4, <2>0, <2>2
    <3>3. TypeOK /\ archiveSeq' \in Int /\ archiveSeq' >= archiveSeq
      BY <1>1, <1>3
    <3> QED
      BY <2>0, <3>1, <3>2, <3>3, HeldStays
  <2> QED
    BY <1>4, <2>0, <2>1, <2>2
<1>8. ASSUME NEW x \in Undisturbed' \ {id}
      PROVE  OwnKept(x)' /\ (semantic'[x] # NoMemory => IsChain(x)')
  <2>1. memory.texts # {}
    BY <1>2
  <2>2. /\ \A k \in Ids \ {id} : semantic'[k] = semantic[k] /\ first'[k] = first[k]
        /\ archiveSeq' \in Int /\ archiveSeq' >= archiveSeq
    BY <1>1, <1>3, <1>4
  <2> QED
    BY <2>1, <2>2, OtherChains
<1>9. ASSUME id \in Undisturbed'
      PROVE  OwnKept(id)' /\ IsChain(id)'
  <2>1. id \in Undisturbed
    BY <1>4, <1>9, UndisturbedBefore
  <2>2. said[id] = {}
    BY <1>1, <2>1 DEF IInv, OwnKept
  <2>3. semantic'[id] = memory /\ first'[id].previous = memory.previous
        /\ first'[id].version = memory.version /\ said'[id] = memory.texts
    BY <1>4, <2>2
  <2>4. OwnKept(id)'
    BY <1>2, <2>3 DEF OwnKept
  <2>5. Len(memory.previous) \in Nat /\ SubSeq(memory.previous, 1, Len(memory.previous)) = memory.previous
    BY <1>2
  <2>6. OwnLinks(id)' = {}
    BY <2>3, <2>5 DEF OwnLinks
  <2>7. memory.version = memory.version + Len(memory.previous) - Len(memory.previous)
    BY <1>2, <2>5
  <2>8. IsChain(id)'
    BY <2>3, <2>5, <2>6, <2>7 DEF IsChain
  <2> QED
    BY <2>4, <2>8
<1> QED
  BY <1>5, <1>6, <1>7, <1>8, <1>9 DEF IInv, HistoryIsChain

\* The record takes the text in place.
LEMMA AppendInv ==
    ASSUME IInv, NEW id \in Ids, NEW memory \in Incoming, Appends(id, memory),
           stores' = stores + 1, said' = [said EXCEPT ![id] = @ \cup memory.texts]
    PROVE  IInv'
<1> DEFINE old == semantic[id]
           new == [old EXCEPT !.texts = @ \cup memory.texts]
<1>1. /\ TypeOK /\ ProposalsWait /\ archiveSeq \in Nat /\ MaxArchives \in Nat
      /\ memory \in Records /\ old \in Records /\ old # NoMemory
  BY SeqType, RecordType DEF IInv, Incoming, Appends
<1>2. memory.texts = {stores + 1} /\ memory.texts \subseteq Nat
  BY <1>1 DEF Incoming, Records
<1>3. /\ new \in Records /\ new.texts = old.texts \cup memory.texts /\ new.meta = old.meta
      /\ new.status = old.status /\ new.version = old.version /\ new.previous = old.previous
  BY <1>1, <1>2 DEF Records
<1>4. semantic' = [semantic EXCEPT ![id] = new] /\ archiveSeq' = archiveSeq /\ first' = first
  BY DEF Appends
<1>5. new # NoMemory
  BY <1>3, MemoryAssumption
<1> HIDE DEF new
<1>6. /\ \A k \in Ids : semantic'[k] = IF k = id THEN new ELSE semantic[k]
      /\ \A k \in Ids : said'[k] = IF k = id THEN said[k] \cup memory.texts ELSE said[k]
  BY <1>1, <1>4 DEF TypeOK
<1>7. TypeOK'
  BY <1>1, <1>2, <1>3, <1>4 DEF TypeOK
<1>8. ProposalsWait'
  BY <1>1, <1>3, <1>6 DEF ProposalsWait, ActiveIds
<1>9. \A k \in Ids : Keeps(k)
  BY <1>3, <1>5, <1>6 DEF Keeps
<1>10. ASSUME NEW x \in OwnIds PROVE HeldAt(x)'
  <2> SUFFICES ASSUME NEW t \in said'[x]
               PROVE  \E j \in Ids : semantic'[j] # NoMemory /\ Settled(j)' /\ t \in semantic'[j].texts
    BY DEF HeldAt
  <2>0. x \in Ids
    BY DEF OwnIds
  <2>1. CASE t \in said[x]
    <3>1. PICK k \in Ids : semantic[k] # NoMemory /\ Settled(k) /\ t \in semantic[k].texts
      BY <2>1 DEF IInv, HeldAt
    <3> QED
      BY <1>1, <1>4, <1>9, <3>1, HeldStays DEF Keeps
  <2>2. CASE t \in memory.texts /\ x = id
    <3>1. Settled(x)
      BY <1>1 DEF Settled, OwnIds
    <3> QED
      BY <1>1, <1>3, <1>4, <1>5, <1>6, <2>0, <2>2, <3>1, HeldStays
  <2> QED
    BY <1>6, <2>0, <2>1, <2>2
<1>11. ASSUME NEW x \in Undisturbed' \ {id}
       PROVE  OwnKept(x)' /\ (semantic'[x] # NoMemory => IsChain(x)')
  <2>1. memory.texts # {}
    BY <1>2
  <2>2. /\ \A k \in Ids \ {id} : semantic'[k] = semantic[k] /\ first'[k] = first[k]
        /\ archiveSeq' \in Int /\ archiveSeq' >= archiveSeq
    BY <1>1, <1>4, <1>6
  <2> QED
    BY <2>1, <2>2, OtherChains
<1>12. ASSUME id \in Undisturbed'
       PROVE  OwnKept(id)' /\ IsChain(id)'
  <2>1. id \in Undisturbed
    BY <1>6, <1>12, UndisturbedBefore
  <2>2. /\ IsChain(id)'
        /\ \A t \in said[id] : \/ t \in semantic'[id].texts
                               \/ \E n \in OwnLinks(id)' :
                                     t \in semantic'[semantic'[id].previous[n]].texts
    BY <1>1, <1>4, <1>9, <2>1, ChainStays
  <2>3. said'[id] = said[id] \cup memory.texts /\ semantic'[id] = new
    BY <1>6
  <2> QED
    BY <1>3, <1>5, <2>2, <2>3 DEF OwnKept
<1> QED
  BY <1>7, <1>8, <1>10, <1>11, <1>12 DEF IInv, HistoryIsChain

\* The record gives its place to the new one and goes on under the next archival id.
LEMMA ReplaceInv ==
    ASSUME IInv, NEW id \in Ids, NEW memory \in Incoming, Replaces(id, memory),
           stores' = stores + 1, said' = [said EXCEPT ![id] = @ \cup memory.texts]
    PROVE  IInv'
<1> DEFINE old == semantic[id]
           archive == ArchiveId(id, NextArchive)
           links == old.previous
           new == [memory EXCEPT !.version = old.version + 1, !.previous = Append(links, archive)]
<1>1. /\ TypeOK /\ ProposalsWait /\ archiveSeq \in Nat /\ MaxArchives \in Nat
      /\ memory \in Records /\ old \in Records /\ old # NoMemory
      /\ links \in Seq(Ids) /\ Len(links) \in Nat /\ old.version \in Nat
  BY SeqType, RecordType DEF IInv, Incoming, Replaces
<1>2. /\ archive \in Ids /\ archiveSeq' = NextArchive /\ NextArchive = archiveSeq + 1
      /\ NextArchive \in 1..MaxArchives /\ first' = first
  BY <1>1 DEF Replaces, NextArchive
<1>3. archive # id
  BY <1>2, MemoryAssumption
<1>4. memory.texts = {stores + 1} /\ memory.texts \subseteq Nat
      /\ (memory.meta => memory.status # "active")
  BY <1>1 DEF Incoming, Records
<1>5. Append(links, archive) \in Seq(Ids)
  BY <1>1, <1>2
<1>6. /\ new \in Records /\ new.texts = memory.texts /\ new.meta = memory.meta
      /\ new.status = memory.status /\ new.version = old.version + 1
      /\ new.previous = Append(links, archive)
  <2> DEFINE version == old.version + 1
             previous == Append(links, archive)
  <2>1. version \in Nat /\ previous \in Seq(Ids)
    BY <1>1, <1>5
  <2> HIDE DEF version, previous
  <2>2. LET record == [memory EXCEPT !.version = version, !.previous = previous]
        IN  /\ record \in Records /\ record.texts = memory.texts /\ record.meta = memory.meta
            /\ record.status = memory.status /\ record.version = version
            /\ record.previous = previous
    BY <1>1, <2>1 DEF Records
  <2> QED
    BY <2>2 DEF version, previous
<1>7. semantic' = [semantic EXCEPT ![archive] = old, ![id] = new]
  BY DEF Replaces
<1>8. new # NoMemory
  BY <1>6, MemoryAssumption
<1> HIDE DEF new
<1>9. /\ \A k \in Ids : semantic'[k] = IF k = id THEN new ELSE IF k = archive THEN old ELSE semantic[k]
      /\ \A k \in Ids : said'[k] = IF k = id THEN said[k] \cup memory.texts ELSE said[k]
  BY <1>1, <1>7 DEF TypeOK
<1>10. TypeOK'
  <2>1. semantic' \in [Ids -> Records \cup {NoMemory}]
    BY <1>1, <1>6, <1>7 DEF TypeOK
  <2>2. said' \in [Ids -> SUBSET Nat] /\ stores' \in Nat
    BY <1>1, <1>4 DEF TypeOK
  <2>3. archiveSeq' \in 0..MaxArchives
    BY <1>1, <1>2
  <2> QED
    BY <1>1, <1>2, <2>1, <2>2, <2>3 DEF TypeOK
<1>11. ProposalsWait'
  BY <1>1, <1>2, <1>4, <1>6, <1>9 DEF ProposalsWait, ActiveIds
<1>12. archiveSeq' \in Int /\ archiveSeq' >= archiveSeq
  BY <1>1, <1>2
<1>13. ASSUME NEW x \in OwnIds PROVE HeldAt(x)'
  <2> SUFFICES ASSUME NEW t \in said'[x]
               PROVE  \E j \in Ids : semantic'[j] # NoMemory /\ Settled(j)' /\ t \in semantic'[j].texts
    BY DEF HeldAt
  <2>0. x \in Ids
    BY DEF OwnIds
  <2>1. CASE t \in said[x]
    <3>1. PICK k \in Ids : semantic[k] # NoMemory /\ Settled(k) /\ t \in semantic[k].texts
      BY <2>1 DEF IInv, HeldAt
    <3>2. k # archive
      BY <1>1, <1>2, <3>1 DEF Settled
    <3>3. CASE k # id
      <4>1. semantic'[k] # NoMemory /\ t \in semantic'[k].texts
        BY <1>9, <3>1, <3>2, <3>3
      <4> QED
        BY <1>1, <1>12, <3>1, <4>1, HeldStays
    <3>4. CASE k = id
      <4> SUFFICES ASSUME NEW j \in Ids, j = archive
                   PROVE  semantic'[j] # NoMemory /\ Settled(j)' /\ t \in semantic'[j].texts
        BY <1>2
      <4>1. Settled(j)'
        BY <1>1, <1>2 DEF Settled, ArchiveId
      <4>2. semantic'[j] # NoMemory /\ t \in semantic'[j].texts
        BY <1>1, <1>2, <1>3, <1>9, <3>1, <3>4
      <4> QED
        BY <4>1, <4>2
    <3> QED
      BY <3>3, <3>4
  <2>2. CASE t \in memory.texts /\ x = id
    <3>1. Settled(x)
      BY <1>1 DEF Settled, OwnIds
    <3>2. semantic'[x] # NoMemory /\ t \in semantic'[x].texts
      BY <1>6, <1>8, <1>9, <2>0, <2>2
    <3> QED
      BY <1>1, <1>12, <2>0, <3>1, <3>2, HeldStays
  <2> QED
    BY <1>9, <2>0, <2>1, <2>2
<1>14. ASSUME NEW x \in Undisturbed' \ {id}
       PROVE  OwnKept(x)' /\ (semantic'[x] # NoMemory => IsChain(x)')
  <2>1. memory.texts # {}
    BY <1>4
  <2>2. \A k \in Ids \ {id} :
           /\ \/ semantic'[k] = semantic[k]
              \/ NextArchive \in 1..MaxArchives /\ k = ArchiveId(id, NextArchive)
           /\ first'[k] = first[k]
    BY <1>2, <1>9
  <2> QED
    BY <1>12, <2>1, <2>2, OtherChains
<1>15. ASSUME id \in Undisturbed'
       PROVE  OwnKept(id)' /\ IsChain(id)'
  <2> DEFINE brought == Len(first[id].previous)
             start == first[id].version
  <2>1. id \in Undisturbed
    BY <1>9, <1>15, UndisturbedBefore
  <2>2. IsChain(id) /\ OwnKept(id)
    BY <1>1, <2>1 DEF IInv, HistoryIsChain
  <2>3. /\ brought \in Nat /\ brought <= Len(links) /\ start \in Nat
        /\ SubSeq(links, 1, brought) = first[id].previous
        /\ old.version = start + Len(links) - brought
    BY <1>1, <2>2, FirstType DEF IsChain
  <2>4. /\ semantic'[id] = new /\ Len(new.previous) = Len(links) + 1
        /\ \A n \in 1..Len(links) : new.previous[n] = links[n]
        /\ new.previous[Len(links) + 1] = archive
        /\ semantic'[archive] = old
    BY <1>1, <1>2, <1>3, <1>6, <1>9
  <2>5. /\ OwnLinks(id) = (brought + 1)..Len(links)
        /\ OwnLinks(id)' = (brought + 1)..(Len(links) + 1)
    BY <1>2, <2>4 DEF OwnLinks
  <2> HIDE DEF brought, start
  <2>13. /\ brought \in Nat /\ start \in Nat /\ Len(links) \in Nat /\ brought <= Len(links)
         /\ old.version = start + Len(links) - brought
    BY <1>1, <2>3
  <2>6. ASSUME NEW n \in OwnLinks(id)
        PROVE  /\ n \in 1..Len(links)
               /\ \E m \in 1..archiveSeq' : new.previous[n] = ArchiveId(id, m)
               /\ semantic'[new.previous[n]] = semantic[links[n]]
    <3>0. n \in 1..Len(links)
      BY <2>5, <2>13
    <3>1. n \in 1..Len(links) /\ new.previous[n] = links[n]
      BY <2>4, <3>0
    <3>2. PICK m \in 1..archiveSeq : links[n] = ArchiveId(id, m)
      BY <2>2 DEF IsChain
    <3>3. m \in 1..archiveSeq' /\ m # NextArchive /\ m \in 1..MaxArchives
      BY <1>1, <1>2
    <3>4. links[n] \in Ids
      BY <1>1, <3>1, RecordType
    <3>5. links[n] # archive /\ links[n] # id
      BY <3>2, <3>3, MemoryAssumption DEF ArchiveId
    <3> QED
      BY <1>9, <3>1, <3>2, <3>3, <3>4, <3>5
  <2>7. \A n \in 1..(Len(links) + 1) : SubSeq(new.previous, 1, n - 1) = SubSeq(links, 1, n - 1)
    BY <1>1, <1>2, <1>6
  <2>8. SubSeq(new.previous, 1, brought) = SubSeq(links, 1, brought)
    BY <1>1, <1>2, <1>6, <2>3
  <2>9. ASSUME NEW n \in OwnLinks(id)'
        PROVE  /\ \E m \in 1..archiveSeq' : new.previous[n] = ArchiveId(id, m)
               /\ semantic'[new.previous[n]] # NoMemory
               /\ semantic'[new.previous[n]].version = start + n - brought - 1
               /\ semantic'[new.previous[n]].previous = SubSeq(new.previous, 1, n - 1)
    <3>1. n \in OwnLinks(id) \/ n = Len(links) + 1
      BY <2>5, <2>13
    <3>2. CASE n \in OwnLinks(id)
      <4>1. n \in 1..(Len(links) + 1)
        BY <1>1, <2>6, <3>2
      <4> QED
        BY <2>2, <2>6, <2>7, <3>2, <4>1 DEF IsChain, brought, start
    <3>3. CASE n = Len(links) + 1
      <4>1. SubSeq(links, 1, n - 1) = links /\ n \in 1..(Len(links) + 1)
        BY <1>1, <3>3
      <4>2. new.previous[n] = archive /\ NextArchive \in 1..archiveSeq'
        BY <1>1, <1>2, <2>4, <3>3
      <4>3. old.version = start + n - brought - 1
        BY <2>13, <3>3
      <4> QED
        BY <1>1, <2>4, <2>7, <4>1, <4>2, <4>3
    <3> QED
      BY <3>1, <3>2, <3>3
  <2>10. new.version = start + Len(new.previous) - brought
         /\ brought <= Len(new.previous)
    BY <1>1, <1>6, <2>3, <2>4
  <2>11. IsChain(id)'
    BY <1>2, <2>3, <2>4, <2>8, <2>9, <2>10 DEF IsChain, brought, start
  <2>12. ASSUME NEW t \in said'[id]
         PROVE  \/ t \in new.texts
                \/ \E n \in OwnLinks(id)' : t \in semantic'[new.previous[n]].texts
    <3>1. Len(links) + 1 \in OwnLinks(id)' /\ OwnLinks(id) \subseteq OwnLinks(id)'
      BY <1>1, <2>3, <2>5
    <3>2. CASE t \in memory.texts
      BY <1>6, <3>2
    <3>3. CASE t \in old.texts
      BY <2>4, <3>1, <3>3
    <3>4. ASSUME NEW n \in OwnLinks(id), t \in semantic[links[n]].texts
          PROVE  \E j \in OwnLinks(id)' : t \in semantic'[new.previous[j]].texts
      BY <2>6, <3>1, <3>4
    <3> QED
      BY <1>9, <2>2, <3>2, <3>3, <3>4 DEF OwnKept
  <2> QED
    BY <1>8, <2>4, <2>11, <2>12 DEF OwnKept
<1> QED
  BY <1>10, <1>11, <1>13, <1>14, <1>15 DEF IInv, HistoryIsChain

-----------------------------------------------------------------------------
(* The theorems.                                                           *)

\* A proposal comes in as pending.
LEMMA ReviewedIn ==
    ASSUME NEW memory \in Records, memory.texts = {stores + 1}
    PROVE  Reviewed(memory) \in Incoming
<1>1. CASE memory.meta
  <2> DEFINE pending == [memory EXCEPT !.status = "pending"]
  <2>1. pending \in Records /\ pending.texts = memory.texts /\ pending.status = "pending"
    BY DEF Records, Statuses
  <2> HIDE DEF pending
  <2>2. pending \in Incoming
    BY <2>1 DEF Incoming
  <2> QED
    BY <1>1, <2>2 DEF Reviewed, pending
<1>2. CASE ~ memory.meta
  BY <1>2 DEF Reviewed, Incoming
<1> QED
  BY <1>1, <1>2

LEMMA RecordIn ==
    ASSUME TypeOK, NEW given \in Given
    PROVE  Record(given) \in Incoming
<1> DEFINE plain == [texts |-> {stores + 1}, meta |-> given.meta, status |-> given.status,
                     version |-> given.version, previous |-> given.previous]
<1>1. stores + 1 \in Nat
  BY DEF TypeOK
<1>2. /\ given.meta \in BOOLEAN /\ given.status \in Statuses /\ given.version \in Nat
      /\ given.previous \in Seq(Ids)
  BY MemoryAssumption
<1>3. plain \in Records /\ plain.texts = {stores + 1}
  BY <1>1, <1>2 DEF Records
<1> HIDE DEF plain
<1>4. Reviewed(plain) \in Incoming
  BY <1>3, ReviewedIn
<1> QED
  BY <1>4 DEF Record, plain

LEMMA InitInv == Init => IInv
<1> SUFFICES ASSUME Init PROVE IInv
  OBVIOUS
<1>1. TypeOK
  BY MemoryAssumption DEF Init, TypeOK
<1>2. \A id \in Ids : said[id] = {} /\ semantic[id] = NoMemory
  BY DEF Init
<1> QED
  BY <1>1, <1>2 DEF IInv, ProposalsWait, ActiveIds, HeldAt, OwnKept, HistoryIsChain,
                    OwnIds, Undisturbed

LEMMA NextInv == IInv /\ [Next]_vars => IInv'
<1> SUFFICES ASSUME IInv, [Next]_vars PROVE IInv'
  OBVIOUS
<1>1. ASSUME NEW id \in Ids, NEW given \in Given, StoresSemantic(id, given)
      PROVE  IInv'
  <2>1. Record(given) \in Incoming
    BY RecordIn DEF IInv
  <2> QED
    BY <1>1, <2>1, FirstInv, ReplaceInv, AppendInv DEF StoresSemantic
<1>2. ASSUME NEW id \in Ids, Deprecates(id) \/ MarksPending(id)
      PROVE  IInv'
  BY <1>2, StatusInv DEF Deprecates, MarksPending
<1>3. ASSUME UNCHANGED vars
      PROVE  IInv'
  <2>1. TypeOK' /\ ProposalsWait'
    BY <1>3 DEF vars, IInv, TypeOK, ProposalsWait, ActiveIds
  <2>2. \A id \in OwnIds : HeldAt(id)'
    BY <1>3 DEF vars, IInv, HeldAt, Settled
  <2>3. Undisturbed' = Undisturbed /\ OwnIds' = OwnIds
    BY <1>3 DEF vars, Undisturbed, OwnIds
  <2>4. \A id \in Undisturbed : OwnKept(id)'
    BY <1>3 DEF vars, IInv, OwnKept, OwnLinks
  <2>5. HistoryIsChain'
    <3>1. ASSUME NEW id \in Undisturbed, semantic[id] # NoMemory PROVE IsChain(id)'
      <4>1. IsChain(id)
        BY <3>1 DEF IInv, HistoryIsChain
      <4>2. OwnLinks(id)' = OwnLinks(id)
        BY <1>3 DEF vars, OwnLinks
      <4> QED
        BY <1>3, <4>1, <4>2 DEF vars, IsChain
    <3> QED
      BY <1>3, <2>3, <3>1 DEF vars, HistoryIsChain
  <2> QED
    BY <2>1, <2>2, <2>3, <2>4, <2>5 DEF IInv
<1> QED
  BY <1>1, <1>2, <1>3 DEF Next

LEMMA InvHolds == Spec => []IInv
<1> QED
  BY InitInv, NextInv, PTL DEF Spec

\* However store_semantic replaces and appends, under any id and with any version and
\* links in the records: what was stored under an id of a caller's own is never lost,
\* and unless a caller stored under one of its archival ids, its version history has
\* all of it, in one chain.
THEOREM HistoriesAreWhole == Spec => []HistoryIsWhole
<1> QED
  BY InvImplies, InvHolds, PTL

\* The review that store_semantic makes of every proposal of a meta agent is enough:
\* nothing else the provider does makes one Active.
THEOREM ProposalsStayPending == Spec => []ProposalsWait
<1>1. IInv => ProposalsWait
  BY DEF IInv
<1> QED
  BY <1>1, InvHolds, PTL

=============================================================================
