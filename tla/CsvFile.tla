------------------------------ MODULE CsvFile ------------------------------
(***************************************************************************)
(* One output file of CsvWriter (src/utils/csv_writer.rs) and everybody    *)
(* who touches it: the tasks that write rows to it, the one-second flush,  *)
(* and the evictions (hourly rotation, two-minute and midnight cleanup).   *)
(* They share the buffers map, which holds at most one FileBuffer per      *)
(* path, but every task keeps its own Arc to the FileBuffer it looked up:  *)
(* an evicted buffer lives on until the last of them lets go, and is       *)
(* drained then (Drop).                                                    *)
(*                                                                         *)
(* Rows are numbered in the order they are handed to the writer, which is  *)
(* the order of their update ids.  A depth_updates file (depth) keeps its  *)
(* rows in memory and sorts them at the flush; other files append to the   *)
(* BufWriter at once.                                                      *)
(***************************************************************************)
EXTENDS Naturals, Sequences, SequencesExt, FiniteSets

CONSTANTS
    Writers,       \* tasks writing rows to a file
    Handler,       \* the one of them that writes depth_updates files
    Flusher,       \* the periodic flush task
    Evictors,      \* tasks that evict it from the map
    MaxRows,       \* bound: rows written
    MaxDepthRows,  \* max_depth_buffer_rows: emergency flush
    MaxFaults,     \* bound: failing writes to the disk
    MaxCrashes     \* bound: crashes of the process

\* Only one task writes depth_updates files, the websocket handler.
ASSUME CsvFileAssumption ==
    /\ Handler \in Writers
    /\ IsFiniteSet(Writers \cup {Flusher} \cup Evictors)
    /\ {MaxRows, MaxDepthRows, MaxFaults, MaxCrashes} \subseteq Nat

Actors == Writers \cup {Flusher} \cup Evictors

\* Every actor holds at most one FileBuffer and the map one more.
Handles == 1..(Cardinality(Actors) + 1)

VARIABLES
    depth,         \* this is a depth_updates file; it stays what it is
    file,          \* what is on disk
    rows,          \* rows[h]: depth_update_buffer of FileBuffer h
    pipe,          \* pipe[h]: what its BufWriter still holds
    cached,        \* the FileBuffer in the buffers map; 0: none
    ref,           \* ref[a]: the FileBuffer actor a holds; 0: none
    pc,            \* where each actor is
    row,           \* row[w]: the row writer w is writing
    handed,        \* how many rows were handed to the writer
    gone,          \* history: rows a crash or a failing last drain took
    faults,        \* failing writes so far
    crashes        \* crashes so far

memVars == <<rows, pipe>>
vars == <<depth, file, rows, pipe, cached, ref, pc, row, handed, gone, faults, crashes>>

Header == 0

Init ==
    /\ depth \in BOOLEAN
    /\ file = <<>>
    /\ rows = [h \in Handles |-> {}]
    /\ pipe = [h \in Handles |-> <<>>]
    /\ cached = 0
    /\ ref = [a \in Actors |-> 0]
    /\ pc = [a \in Actors |-> "idle"]
    /\ row = [w \in Writers |-> 0]
    /\ handed = 0
    /\ gone = {}
    /\ faults = 0
    /\ crashes = 0

Free(h) == cached # h /\ \A a \in Actors : ref[a] # h

-----------------------------------------------------------------------------
(***************************************************************************)
(* flush_locked, under the FileBuffer's lock.                              *)
(***************************************************************************)

\* The rows of S by update id.
InOrder(S) ==
    CHOOSE s \in [1..Cardinality(S) -> S] : \A i, j \in DOMAIN s : i < j => s[i] < s[j]

\* What a flush of h would write, in order.
Waiting(h) == pipe[h] \o InOrder(rows[h])

Flushed(h) ==
    /\ file' = file \o Waiting(h)
    /\ rows' = [rows EXCEPT ![h] = {}]
    /\ pipe' = [pipe EXCEPT ![h] = <<>>]
    /\ UNCHANGED faults

\* The disk refuses: what was on its way to it partly arrives, rows the
\* BufWriter took stay there, the others are restored to the buffer.
FlushFails(h) ==
    /\ faults < MaxFaults
    /\ faults' = faults + 1
    /\ LET all == InOrder(rows[h])
       IN  \E n \in 0..Len(all) :
              LET queue == pipe[h] \o SubSeq(all, 1, n)
              IN  \E k \in 0..Len(queue) :
                     /\ file' = file \o SubSeq(queue, 1, k)
                     /\ pipe' = [pipe EXCEPT ![h] = SubSeq(queue, k + 1, Len(queue))]
                     /\ rows' = [rows EXCEPT ![h] = ToSet(SubSeq(all, n + 1, Len(all)))]

Flush(h) == Flushed(h) \/ FlushFails(h)

\* Mutant: FileBuffer has no Drop, only BufWriter drains.
LetGoWithoutDrop(a) ==
    LET h == ref[a]
    IN  /\ ref' = [ref EXCEPT ![a] = 0]
        /\ IF h = 0 \/ cached = h \/ \E b \in Actors \ {a} : ref[b] = h
           THEN UNCHANGED <<file, rows, pipe, gone, faults>>
           ELSE /\ file' = file \o pipe[h]
                /\ rows' = [rows EXCEPT ![h] = {}]
                /\ pipe' = [pipe EXCEPT ![h] = <<>>]
                /\ UNCHANGED <<gone, faults>>

\* An Arc is dropped.  The last one drains the FileBuffer, best effort.
LetGo(a) ==
    LET h == ref[a]
    IN  /\ ref' = [ref EXCEPT ![a] = 0]
        /\ IF h = 0 \/ cached = h \/ \E b \in Actors \ {a} : ref[b] = h
           THEN UNCHANGED <<file, rows, pipe, gone, faults>>
           ELSE \/ Flushed(h) /\ UNCHANGED gone
                \/ /\ faults < MaxFaults
                   /\ faults' = faults + 1
                   /\ \E k \in 0..Len(Waiting(h)) :
                         /\ file' = file \o SubSeq(Waiting(h), 1, k)
                         /\ gone' = gone \cup
                               ToSet(SubSeq(Waiting(h), k + 1, Len(Waiting(h))))
                   /\ rows' = [rows EXCEPT ![h] = {}]
                   /\ pipe' = [pipe EXCEPT ![h] = <<>>]

-----------------------------------------------------------------------------
(***************************************************************************)
(* write_depth_update, write_depth_snapshot and the other row writers.     *)
(***************************************************************************)

\* A row arrives; its file is looked up in the map.
StartRow(w) ==
    /\ pc[w] = "idle"
    /\ depth => w = Handler
    /\ handed < MaxRows
    /\ handed' = handed + 1
    /\ row' = [row EXCEPT ![w] = handed + 1]
    /\ ref' = [ref EXCEPT ![w] = cached]
    /\ pc' = [pc EXCEPT ![w] = IF cached = 0 THEN "open" ELSE "push"]
    /\ UNCHANGED <<depth, file, memVars, cached, gone, faults, crashes>>

\* get_or_create_buffer missed: open the file and look whether it is empty.
Open(w) ==
    /\ pc[w] = "open"
    /\ \E h \in Handles :
          /\ Free(h)
          /\ \A g \in 1..(h - 1) : ~Free(g)
          /\ ref' = [ref EXCEPT ![w] = h]
    /\ pc' = [pc EXCEPT ![w] = IF file = <<>> THEN "header" ELSE "insert"]
    /\ UNCHANGED <<depth, file, memVars, cached, row, handed, gone, faults, crashes>>

\* Mutant: the header waits in the BufWriter for the next flush.
WriteHeaderLazily(w) ==
    /\ pc[w] = "header"
    /\ pipe' = [pipe EXCEPT ![ref[w]] = Append(@, Header)]
    /\ pc' = [pc EXCEPT ![w] = "insert"]
    /\ UNCHANGED <<depth, file, rows, cached, ref, row, handed, gone, faults, crashes>>

\* It was: write the header and flush it.
WriteHeader(w) ==
    /\ pc[w] = "header"
    /\ file' = Append(file, Header)
    /\ pc' = [pc EXCEPT ![w] = "insert"]
    /\ UNCHANGED <<depth, memVars, cached, ref, row, handed, gone, faults, crashes>>

\* Opening failed: the write returns an error and the row is lost to it.  A
\* header the disk refused may still arrive, when its BufWriter is dropped.
OpenFails(w) ==
    /\ pc[w] \in {"open", "header"}
    /\ faults < MaxFaults
    /\ faults' = faults + 1
    /\ file' \in {file} \cup (IF pc[w] = "header" THEN {Append(file, Header)} ELSE {})
    /\ ref' = [ref EXCEPT ![w] = 0]
    /\ gone' = gone \cup {row[w]}
    /\ pc' = [pc EXCEPT ![w] = "idle"]
    /\ UNCHANGED <<depth, memVars, cached, row, handed, crashes>>

\* entry(): the first to insert wins, a later opener drops its own.
Insert(w) ==
    /\ pc[w] = "insert"
    /\ IF cached = 0
       THEN cached' = ref[w] /\ UNCHANGED ref
       ELSE ref' = [ref EXCEPT ![w] = cached] /\ UNCHANGED cached
    /\ pc' = [pc EXCEPT ![w] = "push"]
    /\ UNCHANGED <<depth, file, memVars, row, handed, gone, faults, crashes>>

\* A depth row goes to the in-memory buffer; a full buffer is flushed by the
\* task that filled it.
PushDepth(w) ==
    /\ depth
    /\ pc[w] = "push"
    /\ rows' = [rows EXCEPT ![ref[w]] = @ \cup {row[w]}]
    /\ pc' = [pc EXCEPT ![w] =
                 IF Cardinality(rows'[ref[w]]) >= MaxDepthRows THEN "flush" ELSE "release"]
    /\ UNCHANGED <<depth, file, pipe, cached, ref, row, handed, gone, faults, crashes>>

\* Any other row goes to the BufWriter, flushed when it is due (1000 rows,
\* or flush_interval since the last flush).
PushRow(w) ==
    /\ ~depth
    /\ pc[w] = "push"
    /\ pipe' = [pipe EXCEPT ![ref[w]] = Append(@, row[w])]
    /\ pc' = [pc EXCEPT ![w] = "release"]
    /\ UNCHANGED <<depth, file, rows, cached, ref, row, handed, gone, faults, crashes>>

PushRowDue(w) ==
    /\ ~depth
    /\ pc[w] = "push"
    /\ file' = file \o Append(pipe[ref[w]], row[w])
    /\ pipe' = [pipe EXCEPT ![ref[w]] = <<>>]
    /\ pc' = [pc EXCEPT ![w] = "release"]
    /\ UNCHANGED <<depth, rows, cached, ref, row, handed, gone, faults, crashes>>

\* The BufWriter spilled, or was due, and the disk refused part of it: the
\* row stayed with it, or never got in and is lost to the error.
PushRowFails(w) ==
    /\ ~depth
    /\ pc[w] = "push"
    /\ faults < MaxFaults
    /\ faults' = faults + 1
    /\ \E kept \in BOOLEAN :
          LET queue == IF kept THEN Append(pipe[ref[w]], row[w]) ELSE pipe[ref[w]]
          IN  /\ \E k \in 0..Len(queue) :
                    /\ file' = file \o SubSeq(queue, 1, k)
                    /\ pipe' = [pipe EXCEPT ![ref[w]] = SubSeq(queue, k + 1, Len(queue))]
              /\ gone' = IF kept THEN gone ELSE gone \cup {row[w]}
    /\ pc' = [pc EXCEPT ![w] = "release"]
    /\ UNCHANGED <<depth, rows, cached, ref, row, handed, crashes>>

-----------------------------------------------------------------------------
(***************************************************************************)
(* The tasks that flush and evict.                                         *)
(***************************************************************************)

\* Mutant: only full buffers are worth a flush.
ListForFlushFull ==
    /\ pc[Flusher] = "idle"
    /\ cached # 0
    /\ Cardinality(rows[cached]) >= MaxDepthRows
    /\ ref' = [ref EXCEPT ![Flusher] = cached]
    /\ pc' = [pc EXCEPT ![Flusher] = "flush"]
    /\ UNCHANGED <<depth, file, memVars, cached, row, handed, gone, faults, crashes>>

\* flush_all collects the buffers first and flushes them one by one.
ListForFlush ==
    /\ pc[Flusher] = "idle"
    /\ cached # 0
    /\ ref' = [ref EXCEPT ![Flusher] = cached]
    /\ pc' = [pc EXCEPT ![Flusher] = "flush"]
    /\ UNCHANGED <<depth, file, memVars, cached, row, handed, gone, faults, crashes>>

\* flush_buffer, of whoever called it.
FlushBuffer(a) ==
    /\ pc[a] = "flush"
    /\ Flush(ref[a])
    /\ pc' = [pc EXCEPT ![a] = "release"]
    /\ UNCHANGED <<depth, cached, ref, row, handed, gone, crashes>>

Release(a) ==
    /\ pc[a] = "release"
    /\ LetGo(a)
    /\ pc' = [pc EXCEPT ![a] = "idle"]
    /\ UNCHANGED <<depth, cached, row, handed, crashes>>

\* Rotation and cleanup take the buffer out of the map and flush it.
Evict(e) ==
    /\ pc[e] = "idle"
    /\ cached # 0
    /\ ref' = [ref EXCEPT ![e] = cached]
    /\ cached' = 0
    /\ pc' = [pc EXCEPT ![e] = "flush"]
    /\ UNCHANGED <<depth, file, memVars, row, handed, gone, faults, crashes>>

-----------------------------------------------------------------------------
InMemory == UNION {rows[h] \cup ToSet(pipe[h]) : h \in Handles}

\* SIGKILL, OOM or power: memory is gone, the file stays.  The supervisor
\* starts the process again.
Crash ==
    /\ crashes < MaxCrashes
    /\ crashes' = crashes + 1
    /\ gone' = gone \cup (InMemory \ {Header})
                    \cup {row[w] : w \in {v \in Writers : pc[v] \in
                              {"open", "header", "insert", "push"}}}
    /\ rows' = [h \in Handles |-> {}]
    /\ pipe' = [h \in Handles |-> <<>>]
    /\ cached' = 0
    /\ ref' = [a \in Actors |-> 0]
    /\ pc' = [a \in Actors |-> "idle"]
    /\ UNCHANGED <<depth, file, row, handed, faults>>

Write(w) ==
    \/ StartRow(w) \/ Open(w) \/ WriteHeader(w) \/ OpenFails(w) \/ Insert(w)
    \/ PushDepth(w) \/ PushRow(w) \/ PushRowDue(w) \/ PushRowFails(w)

Next ==
    \/ \E w \in Writers : Write(w)
    \/ ListForFlush
    \/ \E a \in Actors : FlushBuffer(a) \/ Release(a)
    \/ \E e \in Evictors : Evict(e)
    \/ Crash

Spec == Init /\ [][Next]_vars

\* The tasks are scheduled; the flush interval keeps firing.
FairSpec ==
    /\ Spec
    /\ WF_vars(ListForFlush)
    /\ \A a \in Actors : WF_vars(FlushBuffer(a)) /\ WF_vars(Release(a))
    /\ \A w \in Writers : WF_vars(Write(w) /\ pc[w] # "idle")

-----------------------------------------------------------------------------
(***************************************************************************)
(* Properties.                                                             *)
(***************************************************************************)

Line == 0..MaxRows

TypeOK ==
    /\ depth \in BOOLEAN
    /\ file \in Seq(Line)
    /\ rows \in [Handles -> SUBSET (1..MaxRows)]
    /\ pipe \in [Handles -> Seq(1..MaxRows)]      \* no header waits in memory
    /\ cached \in {0} \cup Handles
    /\ ref \in [Actors -> {0} \cup Handles]
    /\ pc \in [Actors -> {"idle", "open", "header", "insert", "push", "flush",
                          "release"}]
    /\ row \in [Writers -> Line]
    /\ handed \in Line
    /\ gone \subseteq Line
    /\ faults \in 0..MaxFaults
    /\ crashes \in 0..MaxCrashes

\* The rows still with the task that writes them.
Underway == {row[w] : w \in {v \in Writers : pc[v] \in {"open", "header", "insert", "push"}}}

\* Rotation and cleanup strand no row (docs/ARCHITECTURE.md:173-174): a row
\* handed over is with its task, in a buffer somebody still holds, on disk,
\* or was taken by a crash or by a disk that also refused the last drain.
NoRowStranded ==
    /\ 1..handed \subseteq Underway \cup InMemory \cup ToSet(file) \cup gone
    /\ \A h \in Handles : Free(h) => rows[h] = {} /\ pipe[h] = <<>>

\* A flush that fails half way and is retried writes no row twice.
NoRowTwice ==
    \A i, j \in DOMAIN file : file[i] = file[j] /\ file[i] # Header => i = j

\* Every row handed over is accounted for once: no rotation, cleanup, failing
\* flush or crash strands a row or repeats one.
RowsConserved == NoRowStranded /\ NoRowTwice

\* The header is the first line and the only one of its kind, where one task
\* alone writes the file.
OneHeader == depth => \A i \in DOMAIN file : (file[i] = Header) <=> i = 1

\* A row in a buffer reaches the disk, unless a crash or a disk fault takes
\* it, without anybody writing again.
ReachesDisk ==
    \A r \in 1..MaxRows : (handed >= r) ~> (r \in ToSet(file) \cup gone)

=============================================================================
