------------------------------- MODULE Memory -------------------------------
(***************************************************************************)
(* The semantic memories of memory.rs (StandardMemoryProvider): records    *)
(* with a status, replaced, appended to or rejected when the id is taken,  *)
(* deprecated and put up for review, and never deleted.  Each operation    *)
(* runs under the lock of the store.  The provider is shared: sessions,    *)
(* tools, a meta agent and the host call it in any order.                  *)
(*                                                                         *)
(* Archives live among the memories, under ids made of the id they had and *)
(* a number.  Callers store what they like under any id, archival ones     *)
(* too, with any version and any links to earlier versions.  A content is  *)
(* the set of the stores that wrote it, told apart by their number.        *)
(***************************************************************************)
EXTENDS Integers, FiniteSets, Sequences

CONSTANTS
    Ids,         \* all ids: the callers' and the archival ones
    Given,       \* what callers put in a record, besides its content
    NoMemory,
    MaxArchives, \* bound: replacements
    MaxStores    \* bound: calls that store

VARIABLES
    semantic,    \* the records, current ones and archives
    archiveSeq,  \* counts the archives, and names them
    stores,      \* history: calls that stored
    said,        \* history: what callers stored under an id
    first        \* history: the version and the links the first record of an id had

vars == <<semantic, archiveSeq, stores, said, first>>

Statuses == {"active", "pending", "deprecated"}

Records == [texts : SUBSET Nat, meta : BOOLEAN, status : Statuses,
            version : Nat, previous : Seq(Ids)]

\* "{original}@v{n}".
ArchiveId(original, n) == <<original, n>>

ASSUME MemoryAssumption ==
    /\ MaxArchives \in Nat /\ MaxStores \in Nat
    /\ Given \subseteq [meta : BOOLEAN, status : Statuses, version : Nat, previous : Seq(Ids)]
    /\ NoMemory \notin Records
    /\ \A id \in Ids, n \in 1..MaxArchives : ArchiveId(id, n) # id

TypeOK ==
    /\ semantic \in [Ids -> Records \cup {NoMemory}]
    /\ archiveSeq \in 0..MaxArchives /\ stores \in Nat
    /\ said \in [Ids -> SUBSET Nat]
    /\ first \in [Ids -> [version : Nat, previous : Seq(Ids)]]

Init ==
    /\ semantic = [id \in Ids |-> NoMemory]
    /\ archiveSeq = 0 /\ stores = 0
    /\ said = [id \in Ids |-> {}]
    /\ first = [id \in Ids |-> [version |-> 0, previous |-> <<>>]]

-----------------------------------------------------------------------------
(* store_semantic.                                                         *)

\* Mistaken: what the caller says of a proposal is trusted.
ReviewedAsSaid(memory) == memory

\* A proposal of a meta agent is pending, whatever its caller says.
Reviewed(memory) == IF memory.meta THEN [memory EXCEPT !.status = "pending"] ELSE memory

Record(given) ==
    Reviewed([texts |-> {stores + 1}, meta |-> given.meta, status |-> given.status,
              version |-> given.version, previous |-> given.previous])

\* Mistaken: the counter stays.
SameArchive == 1

NextArchive == archiveSeq + 1

\* The first record keeps the version and the links its caller gave it.
StoresFirst(id, memory) ==
    /\ semantic[id] = NoMemory
    /\ semantic' = [semantic EXCEPT ![id] = memory]
    /\ first' = [first EXCEPT ![id] = [version |-> memory.version, previous |-> memory.previous]]
    /\ UNCHANGED archiveSeq

\* The record moves to the next archival id, over whatever a caller stored there, and
\* the new one links it after those before.
Replaces(id, memory) ==
    LET archive == ArchiveId(id, NextArchive)
    IN  /\ semantic[id] # NoMemory
        /\ archiveSeq < MaxArchives /\ archive \in Ids
        /\ archiveSeq' = archiveSeq + 1
        /\ semantic' = [semantic EXCEPT
               ![archive] = semantic[id],
               ![id] = [memory EXCEPT !.version = semantic[id].version + 1,
                                      !.previous = Append(semantic[id].previous, archive)]]
        /\ UNCHANGED first

\* The text is added in place: source, status and version stay those of the record.
Appends(id, memory) ==
    /\ semantic[id] # NoMemory
    /\ semantic' = [semantic EXCEPT ![id].texts = @ \cup memory.texts]
    /\ UNCHANGED <<archiveSeq, first>>

\* A taken id with on_conflict Reject, and a content that is empty, change nothing.
StoresSemantic(id, given) ==
    LET memory == Record(given)
    IN  /\ stores < MaxStores /\ stores' = stores + 1
        /\ StoresFirst(id, memory) \/ Replaces(id, memory) \/ Appends(id, memory)
        /\ said' = [said EXCEPT ![id] = @ \cup memory.texts]

-----------------------------------------------------------------------------
(* The rest of the provider.                                               *)

Deprecates(id) ==
    /\ semantic[id] # NoMemory
    /\ semantic' = [semantic EXCEPT ![id].status = "deprecated"]
    /\ UNCHANGED <<archiveSeq, stores, said, first>>

MarksPending(id) ==
    /\ semantic[id] # NoMemory
    /\ semantic' = [semantic EXCEPT ![id].status = "pending"]
    /\ UNCHANGED <<archiveSeq, stores, said, first>>

\* get_version_history, which skips links that lead nowhere.
History(id) ==
    IF semantic[id] = NoMemory THEN {}
    ELSE {id} \cup {k \in Ids : /\ semantic[k] # NoMemory
                                /\ \E n \in DOMAIN semantic[id].previous :
                                      semantic[id].previous[n] = k}

\* What query chooses from, by relevance.
ActiveIds == {id \in Ids : semantic[id] # NoMemory /\ semantic[id].status = "active"}

Next ==
    \E id \in Ids :
        \/ \E given \in Given : StoresSemantic(id, given)
        \/ Deprecates(id) \/ MarksPending(id)

Spec == Init /\ [][Next]_vars

-----------------------------------------------------------------------------
(* What holds.                                                             *)

\* The ids that no archive is ever given.
OwnIds == {id \in Ids : \A i \in Ids, n \in 1..MaxArchives : id # ArchiveId(i, n)}

\* Those under whose archival ids no caller has stored.
Undisturbed ==
    {id \in OwnIds : \A n \in 1..MaxArchives :
        ArchiveId(id, n) \in Ids => said[ArchiveId(id, n)] = {}}

\* What was stored under an id that is not an archival one is in some record still,
\* whatever callers have done under archival ids.
NothingIsLost ==
    \A id \in OwnIds : \A t \in said[id] :
        \E k \in Ids : semantic[k] # NoMemory /\ t \in semantic[k].texts

IsKept(id) == \A t \in said[id] : \E k \in History(id) : t \in semantic[k].texts

\* The links that replacements added, after those the first record came with.
OwnLinks(id) == (Len(first[id].previous) + 1)..Len(semantic[id].previous)

IsChain(id) ==
    LET links == semantic[id].previous
        brought == Len(first[id].previous)
    IN  /\ brought <= Len(links)
        /\ SubSeq(links, 1, brought) = first[id].previous
        /\ semantic[id].version = first[id].version + Len(links) - brought
        /\ \A n \in OwnLinks(id) :
              /\ \E m \in 1..archiveSeq : links[n] = ArchiveId(id, m)
              /\ semantic[links[n]] # NoMemory
              /\ semantic[links[n]].version = first[id].version + n - brought - 1
              /\ semantic[links[n]].previous = SubSeq(links, 1, n - 1)

\* And it is in what the version history of the id shows, unless a caller stored under
\* one of its archival ids.
HistoryKept == \A id \in Undisturbed : IsKept(id)

\* That history is one chain: after the links its first record came with, each link is
\* an archive of the id, one version after the archive before, that links all of those.
HistoryIsChain == \A id \in Undisturbed : semantic[id] # NoMemory => IsChain(id)

\* All three, with the types.
HistoryIsWhole == TypeOK /\ NothingIsLost /\ HistoryKept /\ HistoryIsChain

\* No proposal of a meta agent becomes Active by itself, not by replacing a record
\* that is and not by being archived, under any id.
ProposalsWait == \A id \in ActiveIds : ~ semantic[id].meta

=============================================================================
