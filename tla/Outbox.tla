------------------------------- MODULE Outbox -------------------------------
(***************************************************************************)
(* The durable trace outbox (observability_outbox.rs) of one session:      *)
(* emitters that append lines to the active file through a shared writer,  *)
(* which rotates the file when it grows too long; the flush at the end of  *)
(* a run; cleanup_session; and the death of the process at any point.      *)
(*                                                                         *)
(* A name in the session's directory stands for an inode, so that a        *)
(* handle outlives the renaming or removal of its file.  A line is the     *)
(* unit of size.  The lock on the writers is held from the opening of a    *)
(* writer to the end of a rotation; a cleanup removes files without it.    *)
(***************************************************************************)
EXTENDS FiniteSets, SequencesExt

CONSTANTS
    Emitters,     \* threads that emit spans or flush the session
    Limits,       \* values of max_size_bytes to consider, in lines
    MaxLines,     \* bound: lines emitted
    MaxUpsets     \* bound: calls of cleanup_session and deaths of the process

ASSUME OutboxAssumption ==
    /\ Limits \subseteq Nat /\ MaxLines \in Nat
    /\ MaxUpsets \in Nat

VARIABLES
    limit,    \* max_size_bytes, which never changes
    inodes,   \* what was ever written, file by file
    disk,     \* the session's directory: active file, segments, .flushed
    writer,   \* the SessionWriter in the map of the provider
    jobs,     \* where each emitter is, and with which line
    failed,   \* whether the session is among failed_appends
    cleaner,  \* where cleanup_session is
    hist      \* for the properties only: what has happened

vars == <<limit, inodes, disk, writer, jobs, failed, cleaner, hist>>

Pieces == [line : Nat, whole : BOOLEAN]
Whole(n) == [line |-> n, whole |-> TRUE]
Torn(n) == [line |-> n, whole |-> FALSE]

NoFile == 0
NoWriter == [file |-> NoFile, size |-> 0, seq |-> 0]

\* The steps of an emit. From "append" to "reopen" the emitter holds the lock.
Steps == {"idle", "framed", "append", "rename", "reopen", "store", "mark"}
Idle == [step |-> "idle", line |-> 0, flush |-> FALSE]

\* Lines emitted, lines begun before the process started, lines whose emit returned
\* in it, cleanups and restarts, and whether any append failed or a cleanup ran since
\* the start.
NoHistory == [lines |-> 0, before |-> 0, returned |-> {}, cleanups |-> 0, restarts |-> 0,
              failures |-> FALSE, cleaned |-> FALSE]

Files == 1..Len(inodes)

TypeOK ==
    /\ limit \in Limits
    /\ inodes \in Seq(Seq(Pieces))
    /\ DOMAIN disk = {"dir", "active", "segs", "marker"}
    /\ disk.dir \in BOOLEAN /\ disk.marker \in BOOLEAN
    /\ disk.active \in Files \cup {NoFile}
    /\ DOMAIN disk.segs \subseteq Nat \ {0} /\ Range(disk.segs) \subseteq Files
    /\ writer \in [file : Files \cup {NoFile}, size : Nat, seq : Nat]
    /\ jobs \in [Emitters -> [step : Steps, line : 0..hist.lines, flush : BOOLEAN]]
    /\ failed \in BOOLEAN
    /\ cleaner \in {"idle", "dropped", "unlinked"}
    /\ hist \in [lines : 0..MaxLines, before : Nat, returned : SUBSET (1..hist.lines),
                 cleanups : 0..MaxUpsets, restarts : 0..MaxUpsets,
                 failures : BOOLEAN, cleaned : BOOLEAN]

EmptyDir == [dir |-> FALSE, active |-> NoFile, segs |-> <<>>, marker |-> FALSE]

Init ==
    /\ limit \in Limits
    /\ inodes = <<>> /\ disk = EmptyDir /\ writer = NoWriter
    /\ jobs = [e \in Emitters |-> Idle]
    /\ failed = FALSE /\ cleaner = "idle"
    /\ hist = NoHistory

-----------------------------------------------------------------------------
(* The writer.                                                             *)

Locked == \E e \in Emitters : jobs[e].step \in {"append", "rename", "reopen"}

\* Mistaken: the directory is not scanned.
FirstSeq == 1

\* scan_next_seq.
NextSeq == Max(DOMAIN disk.segs \cup {0}) + 1

\* Mistaken: by one line.
TooLongLate(size) == size > limit + 1

TooLong(size) == size > limit

\* SessionWriter::open, of the active file or a new one.
Opens ==
    \/ /\ disk.active # NoFile
       /\ writer' = [file |-> disk.active, size |-> Len(inodes[disk.active]), seq |-> NextSeq]
       /\ UNCHANGED <<inodes, disk>>
    \/ /\ disk.active = NoFile
       /\ inodes' = Append(inodes, <<>>)
       /\ disk' = [disk EXCEPT !.dir = TRUE, !.active = Len(inodes) + 1]
       /\ writer' = [file |-> Len(inodes) + 1, size |-> 0, seq |-> NextSeq]

\* It may get no further than the directory.
OpenFails ==
    /\ \E made \in BOOLEAN : disk' = [disk EXCEPT !.dir = @ \/ made]
    /\ UNCHANGED <<inodes, writer>>

\* writer_for.
HasWriter == writer # NoWriter /\ UNCHANGED <<inodes, disk, writer>>

Goes(e, step) == jobs' = [jobs EXCEPT ![e].step = step]

\* Mistaken: the failure is only printed.
FailsQuietly == hist' = [hist EXCEPT !.failures = TRUE] /\ UNCHANGED failed

\* mark_failed_append.
Fails == failed' = TRUE /\ hist' = [hist EXCEPT !.failures = TRUE]

-----------------------------------------------------------------------------
(* An emit, or the flush of the session.                                   *)

\* emit_*, or flush_session with its summary: the trace id is taken from the writer,
\* which is opened for it, and the lock released.
Emit(e) ==
    \E flush \in BOOLEAN :
        /\ jobs[e].step = "idle" /\ hist.lines < MaxLines
        /\ ~ Locked
        /\ HasWriter \/ (writer = NoWriter /\ (Opens \/ OpenFails))
        /\ jobs' = [jobs EXCEPT ![e] =
                [step |-> "framed", line |-> hist.lines + 1, flush |-> flush]]
        /\ hist' = [hist EXCEPT !.lines = @ + 1]
        /\ UNCHANGED <<failed, cleaner>>

\* flush_session where flush_on_session_end is off.
FlushBare(e) ==
    /\ jobs[e].step = "idle"
    /\ Goes(e, "mark")
    /\ UNCHANGED <<inodes, disk, writer, failed, cleaner, hist>>

\* write_line takes the lock, and opens the writer if it is gone.
Acquire(e) ==
    /\ jobs[e].step = "framed" /\ ~ Locked
    /\ \/ /\ HasWriter \/ (writer = NoWriter /\ Opens)
          /\ Goes(e, "append")
          /\ UNCHANGED <<failed, hist>>
       \/ /\ writer = NoWriter /\ OpenFails
          /\ Goes(e, "store")
          /\ Fails
    /\ UNCHANGED cleaner

Writes(file, piece) == inodes' = [inodes EXCEPT ![file] = Append(@, piece)]

\* append: write_all, flush and sync_all. A line that makes the file too long is
\* followed by a rotation.
AppendLine(e) ==
    /\ jobs[e].step = "append"
    /\ Writes(writer.file, Whole(jobs[e].line))
    /\ writer' = [writer EXCEPT !.size = @ + 1]
    /\ Goes(e, IF TooLong(writer.size + 1) THEN "rename" ELSE "store")
    /\ UNCHANGED <<disk, failed, cleaner, hist>>

\* Nothing written, a part of the line, or all of it but not synced.
AppendFails(e) ==
    /\ jobs[e].step = "append"
    /\ \/ UNCHANGED inodes
       \/ Writes(writer.file, Torn(jobs[e].line))
       \/ Writes(writer.file, Whole(jobs[e].line))
    /\ Goes(e, "store")
    /\ Fails
    /\ UNCHANGED <<disk, writer, cleaner>>

\* The file under one more number.
AddSegment(segs, n, file) ==
    [m \in DOMAIN segs \cup {n} |-> IF m = n THEN file ELSE segs[m]]

\* rotate: the number is spent whether or not the renaming succeeds.
Rename(e) ==
    /\ jobs[e].step = "rename"
    /\ writer' = [writer EXCEPT !.seq = @ + 1]
    /\ \/ /\ disk.active # NoFile
          /\ disk' = [disk EXCEPT !.active = NoFile,
                                  !.segs = AddSegment(@, writer.seq, disk.active)]
          /\ Goes(e, "reopen")
          /\ UNCHANGED <<failed, hist>>
       \/ /\ Goes(e, "store") /\ Fails
          /\ UNCHANGED disk
    /\ UNCHANGED <<inodes, cleaner>>

\* On an error the handle is still that of the file just renamed.
Reopen(e) ==
    /\ jobs[e].step = "reopen"
    /\ \/ /\ disk.dir
          /\ inodes' = Append(inodes, <<>>)
          /\ disk' = [disk EXCEPT !.active = Len(inodes) + 1]
          /\ writer' = [writer EXCEPT !.file = Len(inodes) + 1, !.size = 0]
          /\ UNCHANGED <<failed, hist>>
       \/ Fails /\ UNCHANGED <<inodes, disk, writer>>
    /\ Goes(e, "store")
    /\ UNCHANGED cleaner

\* The emit is over, but for the marker of a flush.
Returns(e) ==
    jobs' = [jobs EXCEPT ![e] = IF @.flush THEN [@ EXCEPT !.step = "mark"] ELSE Idle]

\* The legs after the file: a store that fails is recorded like a failed append.
StoreLeg(e) ==
    \E fails \in BOOLEAN :
        /\ jobs[e].step = "store"
        /\ Returns(e)
        /\ failed' = (failed \/ fails)
        /\ hist' = [hist EXCEPT !.returned = @ \cup {jobs[e].line}]
        /\ UNCHANGED <<inodes, disk, writer, cleaner>>

\* The end of flush_session: the .flushed marker, where there is a directory.
Mark(e) ==
    \E made \in BOOLEAN :
        /\ jobs[e].step = "mark"
        /\ disk' = [disk EXCEPT !.marker = @ \/ (disk.dir /\ made)]
        /\ jobs' = [jobs EXCEPT ![e] = Idle]
        /\ UNCHANGED <<inodes, writer, failed, cleaner, hist>>

Emitting(e) ==
    \/ Emit(e) \/ FlushBare(e) \/ Acquire(e) \/ AppendLine(e) \/ AppendFails(e)
    \/ Rename(e) \/ Reopen(e) \/ StoreLeg(e) \/ Mark(e)

-----------------------------------------------------------------------------
(* cleanup_session, and the death of the process.                          *)

MayUpset == hist.cleanups + hist.restarts < MaxUpsets

\* The writer is dropped under the lock ...
DropWriter ==
    /\ cleaner = "idle" /\ disk.dir /\ ~ Locked
    /\ MayUpset
    /\ cleaner' = "dropped" /\ writer' = NoWriter
    /\ hist' = [hist EXCEPT !.cleanups = @ + 1, !.cleaned = TRUE]
    /\ UNCHANGED <<inodes, disk, jobs, failed>>

\* ... the files are removed without it ...
Unlink ==
    /\ cleaner = "dropped"
    /\ cleaner' = "unlinked"
    /\ disk' = [EmptyDir EXCEPT !.dir = TRUE]
    /\ UNCHANGED <<inodes, writer, jobs, failed, hist>>

\* ... and the directory, if it is still empty.
RemoveDir ==
    /\ cleaner = "unlinked"
    /\ cleaner' = "idle"
    /\ disk' = IF disk = [EmptyDir EXCEPT !.dir = TRUE] THEN EmptyDir ELSE disk
    /\ UNCHANGED <<inodes, writer, jobs, failed, hist>>

CleanupFails ==
    /\ cleaner # "idle"
    /\ cleaner' = "idle"
    /\ UNCHANGED <<inodes, disk, writer, jobs, failed, hist>>

\* The next process starts with nothing but what is on disk. A line being appended
\* may be there, or a part of it.
Crash ==
    /\ MayUpset
    /\ \/ UNCHANGED inodes
       \/ \E e \in Emitters :
             /\ jobs[e].step = "append"
             /\ \/ Writes(writer.file, Torn(jobs[e].line))
                \/ Writes(writer.file, Whole(jobs[e].line))
    /\ writer' = NoWriter
    /\ jobs' = [e \in Emitters |-> Idle]
    /\ failed' = FALSE /\ cleaner' = "idle"
    /\ hist' = [hist EXCEPT !.before = hist.lines, !.returned = {},
                            !.restarts = @ + 1, !.cleaned = FALSE]
    /\ UNCHANGED disk

Next ==
    /\ \/ \E e \in Emitters : Emitting(e)
       \/ DropWriter \/ Unlink \/ RemoveDir \/ CleanupFails \/ Crash
    /\ UNCHANGED limit

Spec == Init /\ [][Next]_vars

-----------------------------------------------------------------------------
(* Properties.                                                             *)

\* What a reader goes through: the segments by number, then the active file.
Active == 0
Names == DOMAIN disk.segs \cup (IF disk.active = NoFile THEN {} ELSE {Active})
FileAt(name) == IF name = Active THEN disk.active ELSE disk.segs[name]

Contents == [name \in Names |-> inodes[FileAt(name)]]

Earlier(m, n) == m # Active /\ (n = Active \/ m < n)

\* All pieces of some files, and the pairs of which one is read before the other.
PiecesOf(files) == UNION {Range(files[n]) : n \in DOMAIN files}

ReadBefore(files, p, q) ==
    \E m, n \in DOMAIN files : \E i \in DOMAIN files[m], j \in DOMAIN files[n] :
        /\ p = files[m][i] /\ q = files[n][j]
        /\ Earlier(m, n) \/ (m = n /\ i < j)

OrderOf(files) ==
    {x \in PiecesOf(files) \X PiecesOf(files) : ReadBefore(files, x[1], x[2])}

Ledger == INSTANCE TraceLog
              WITH pieces <- PiecesOf(Contents), before <- OrderOf(Contents),
                   cleaning <- (cleaner # "idle")

\* The files of the session are an append-only log, across rotations, errors anywhere
\* in them, restarts and racing emitters: no segment is overwritten, no line is lost,
\* repeated or put before an older one (observability_outbox.rs:781-849).
LogKept == Ledger!Spec

\* A reader splits a file at line ends: a line after a torn one is glued to it.
Readable(line) ==
    \E n \in Names : \E i \in DOMAIN Contents[n] :
        /\ Contents[n][i].line = line /\ Contents[n][i].whole
        /\ i = 1 \/ Contents[n][i - 1].whole

\* A line behind what an earlier process left torn.
BehindAnOldTear(line) ==
    \E n \in Names : \E i \in DOMAIN Contents[n] \ {1} :
        /\ Contents[n][i].line = line
        /\ ~ Contents[n][i - 1].whole /\ Contents[n][i - 1].line <= hist.before

\* A line whose emit returned can be read, or the session is among those with failed
\* appends (observability_outbox.rs:966-980); but for a cleanup, and the one line that
\* the next process glues to what a crash tore.
LossIsKnown ==
    ~ failed /\ ~ hist.cleaned =>
        \A line \in hist.returned : Readable(line) \/ BehindAnOldTear(line)

\* Where no append fails, a file is rotated as soon as it is too long; a restart in the
\* middle of that costs it one line (observability_outbox.rs:829-831).
FilesAreBounded ==
    /\ TypeOK
    /\ ~ hist.failures => \A f \in Files : Len(inodes[f]) <= limit + 1 + hist.restarts

=============================================================================
