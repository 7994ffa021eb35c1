---------------------------- MODULE GapRegistry ----------------------------
(***************************************************************************)
(* GapRegistry (src/utils/gap_registry.rs), for one symbol: the events its *)
(* order-book task records, the dirty mark, and the saves that put them on *)
(* disk through a temporary file.  Symbols share nothing but the task that *)
(* saves them.  Two savers exist: the periodic save, and the one main runs *)
(* at shutdown while the periodic one and the order-book task still run.   *)
(*                                                                         *)
(* Files are inodes: a saver writes to the inode it opened, whatever the   *)
(* names refer to by then.                                                 *)
(***************************************************************************)
EXTENDS Naturals, Sequences, SequencesExt, FiniteSets

CONSTANTS
    Periodic,      \* the periodic save task
    Shutdown,      \* main's save at shutdown
    Cap,           \* MAX_EVENTS_PER_SYMBOL
    MaxEvents,     \* bound: events recorded
    MaxFaults,     \* bound: failing reads and writes
    MaxCrashes     \* bound: crashes

ASSUME GapRegistryAssumption ==
    /\ Periodic # Shutdown
    /\ Cap \in Nat \ {0}
    /\ {MaxEvents, MaxFaults, MaxCrashes} \subseteq Nat

Savers == {Periodic, Shutdown}
Inodes == 1..4
None == 0

VARIABLES
    recorded,      \* events handed to add_event so far: 1..recorded
    adding,        \* where add_event is
    loaded,        \* the registry has an entry for the symbol
    events,        \* that entry
    dirty,         \* the symbol is in dirty_symbols
    pc,            \* where each saver is
    snap,          \* snap[v]: the events saver v cloned
    handle,        \* handle[v]: the inode it writes to
    content,       \* what is in each inode
    tmp, disk,     \* the inodes of the two names, or None
    stopping,      \* main is shutting down
    owed,          \* history: the events recorded when the shutdown save began
    saved,         \* history: the events that were ever on disk
    skipped,       \* history: a save failed and no event was recorded since
    unread,        \* history: the file was there and could not be read
    overlap,       \* history: the shutdown save met the periodic one at work
    faults, crashes

addVars == <<recorded, adding>>
memVars == <<loaded, events, dirty>>
saveVars == <<pc, snap, handle>>
fileVars == <<content, tmp, disk>>
histVars == <<owed, saved, skipped, unread, overlap>>
vars == <<addVars, memVars, saveVars, fileVars, stopping, histVars, faults, crashes>>

\* A file that is not the JSON of some events: empty, cut short or mixed.
Torn == <<0>>

Init ==
    /\ recorded = 0
    /\ adding = "idle"
    /\ loaded = FALSE
    /\ events = <<>>
    /\ dirty = FALSE
    /\ pc = [v \in Savers |-> "idle"]
    /\ snap = [v \in Savers |-> <<>>]
    /\ handle = [v \in Savers |-> None]
    /\ content = [i \in Inodes |-> Torn]
    /\ tmp = None
    /\ disk = None
    /\ stopping = FALSE
    /\ owed = {}
    /\ saved = {}
    /\ skipped = FALSE
    /\ unread = FALSE
    /\ overlap = FALSE
    /\ faults = 0
    /\ crashes = 0

DiskEvents == IF disk = None THEN <<>> ELSE content[disk]
OnDisk == ToSet(DiskEvents) \ {0}

-----------------------------------------------------------------------------
(***************************************************************************)
(* add_event, called by the symbol's order-book task.                      *)
(***************************************************************************)

StartAdd ==
    /\ adding = "idle"
    /\ recorded < MaxEvents
    /\ recorded' = recorded + 1
    /\ adding' = IF loaded THEN "push" ELSE "load"
    /\ UNCHANGED <<memVars, saveVars, fileVars, stopping, histVars, faults, crashes>>

Load ==
    /\ adding = "load"
    /\ DiskEvents # Torn
    /\ loaded' = TRUE
    /\ events' = DiskEvents
    /\ adding' = "push"
    /\ UNCHANGED <<recorded, dirty, saveVars, fileVars, stopping, histVars, faults, crashes>>

\* Unreadable or not JSON: logged, and the entry starts empty.
LoadFails ==
    /\ adding = "load"
    /\ disk # None
    /\ IF DiskEvents = Torn
       THEN UNCHANGED <<faults, unread>>
       ELSE faults < MaxFaults /\ faults' = faults + 1 /\ unread' = TRUE
    /\ adding' = "push"
    /\ UNCHANGED <<recorded, memVars, saveVars, fileVars, stopping, owed, saved, skipped, overlap,
                   crashes>>

Trim(s) == SubSeq(s, IF Len(s) > Cap THEN Len(s) - Cap + 1 ELSE 1, Len(s))

Push ==
    /\ adding = "push"
    /\ loaded' = TRUE
    /\ events' = Trim(Append(events, recorded))
    /\ adding' = "mark"
    /\ UNCHANGED <<recorded, dirty, saveVars, fileVars, stopping, histVars, faults, crashes>>

Mark ==
    /\ adding = "mark"
    /\ dirty' = TRUE
    /\ adding' = "idle"
    /\ skipped' = FALSE
    /\ UNCHANGED <<recorded, loaded, events, saveVars, fileVars, stopping, owed, saved, unread,
                   overlap, faults, crashes>>

-----------------------------------------------------------------------------
(***************************************************************************)
(* save_all_dirty and save_to_disk.                                        *)
(***************************************************************************)

\* A saver is done with the symbol; main returns once its save is over.
Finished(v) == pc' = [pc EXCEPT ![v] = IF v = Shutdown THEN "done" ELSE "idle"]

MayStart(v) == pc[v] = "idle" /\ (v = Shutdown => stopping)

\* Take and clear the marks before saving.
Take(v) ==
    /\ MayStart(v)
    /\ dirty
    /\ dirty' = FALSE
    /\ pc' = [pc EXCEPT ![v] = "clone"]
    /\ owed' = IF v = Shutdown THEN ToSet(events) ELSE owed
    /\ overlap' = (overlap \/ \E u \in Savers \ {v} : pc[u] \notin {"idle", "done"})
    /\ UNCHANGED <<addVars, loaded, events, snap, handle, fileVars, stopping, saved, skipped,
                   unread, faults, crashes>>

\* Nothing is dirty: the shutdown save returns at once.
NothingDirty ==
    /\ MayStart(Shutdown)
    /\ ~dirty
    /\ Finished(Shutdown)
    /\ owed' = IF adding = "mark" THEN ToSet(Front(events)) ELSE ToSet(events)
    /\ overlap' = (overlap \/ pc[Periodic] # "idle")
    /\ UNCHANGED <<addVars, memVars, snap, handle, fileVars, stopping, saved, skipped, unread,
                   faults, crashes>>

Clone(v) ==
    /\ pc[v] = "clone"
    /\ snap' = [snap EXCEPT ![v] = events]
    /\ pc' = [pc EXCEPT ![v] = "create"]
    /\ UNCHANGED <<addVars, memVars, handle, fileVars, stopping, histVars, faults, crashes>>

Unused(i) == i \notin {tmp, disk} /\ \A v \in Savers : handle[v] # i

\* Mutant: no temporary file, the events are written over the old ones.
CreateInPlace(v) ==
    /\ pc[v] = "create"
    /\ \E i \in Inodes :
          /\ IF disk = None THEN i = (CHOOSE j \in Inodes : Unused(j)) ELSE i = disk
          /\ handle' = [handle EXCEPT ![v] = i]
          /\ content' = [content EXCEPT ![i] = Torn]
          /\ tmp' = i
    /\ pc' = [pc EXCEPT ![v] = "write"]
    /\ UNCHANGED <<addVars, memVars, snap, disk, stopping, histVars, faults, crashes>>

\* fs::write opens the temporary file, truncating it if it is there,
Create(v) ==
    /\ pc[v] = "create"
    /\ \E i \in Inodes :
          /\ IF tmp = None THEN i = (CHOOSE j \in Inodes : Unused(j)) ELSE i = tmp
          /\ handle' = [handle EXCEPT ![v] = i]
          /\ content' = [content EXCEPT ![i] = Torn]
          /\ tmp' = i
    /\ pc' = [pc EXCEPT ![v] = "write"]
    /\ UNCHANGED <<addVars, memVars, snap, disk, stopping, histVars, faults, crashes>>

\* and writes from the start, over what another saver may have put there.
WriteTmp(v) ==
    /\ pc[v] = "write"
    /\ LET h == handle[v]
       IN  content' = [content EXCEPT ![h] =
                          IF @ # Torn /\ Len(@) > Len(snap[v]) THEN Torn ELSE snap[v]]
    /\ handle' = [handle EXCEPT ![v] = None]
    /\ pc' = [pc EXCEPT ![v] = "rename"]
    /\ UNCHANGED <<addVars, memVars, snap, tmp, disk, stopping, histVars, faults, crashes>>

\* Mutant: the mark is cleared after the save instead of before it.
RenameClearing(v) ==
    /\ pc[v] = "rename"
    /\ tmp # None
    /\ disk' = tmp
    /\ tmp' = None
    /\ dirty' = FALSE
    /\ saved' = saved \cup (ToSet(content[tmp]) \ {0})
    /\ Finished(v)
    /\ UNCHANGED <<addVars, loaded, events, snap, handle, content, stopping, owed, skipped,
                   unread, overlap, faults, crashes>>

Rename(v) ==
    /\ pc[v] = "rename"
    /\ tmp # None
    /\ disk' = tmp
    /\ tmp' = None
    /\ saved' = saved \cup (ToSet(content[tmp]) \ {0})
    /\ Finished(v)
    /\ UNCHANGED <<addVars, memVars, snap, handle, content, stopping, owed, skipped, unread,
                   overlap, faults, crashes>>

\* The disk refuses, or the other saver has renamed the file away: the error
\* is logged, the mark is already gone.
SaveFails(v) ==
    /\ \/ /\ pc[v] \in {"create", "write", "rename"}
          /\ faults < MaxFaults
          /\ faults' = faults + 1
       \/ /\ pc[v] = "rename"
          /\ tmp = None
          /\ UNCHANGED faults
    /\ skipped' = ~dirty
    /\ handle' = [handle EXCEPT ![v] = None]
    /\ Finished(v)
    /\ UNCHANGED <<addVars, memVars, snap, fileVars, stopping, owed, saved, unread, overlap,
                   crashes>>

-----------------------------------------------------------------------------
\* A signal: main begins to shut down, nothing else stops.
Stop ==
    /\ ~stopping
    /\ stopping' = TRUE
    /\ UNCHANGED <<addVars, memVars, saveVars, fileVars, histVars, faults, crashes>>

\* The process is gone, the files stay.
Gone ==
    /\ adding' = "idle"
    /\ loaded' = FALSE
    /\ events' = <<>>
    /\ dirty' = FALSE
    /\ pc' = [v \in Savers |-> "idle"]
    /\ snap' = [v \in Savers |-> <<>>]
    /\ handle' = [v \in Savers |-> None]
    /\ skipped' = FALSE
    /\ UNCHANGED <<recorded, fileVars, owed, saved, unread, overlap, faults>>

Crash ==
    /\ crashes < MaxCrashes
    /\ crashes' = crashes + 1
    /\ stopping' = FALSE
    /\ Gone

\* main returned: the supervisor starts the process again.
Exit ==
    /\ pc[Shutdown] = "done"
    /\ stopping' = FALSE
    /\ Gone
    /\ UNCHANGED crashes

Add == StartAdd \/ Load \/ LoadFails \/ Push \/ Mark

Save(v) == Take(v) \/ Clone(v) \/ Create(v) \/ WriteTmp(v) \/ Rename(v) \/ SaveFails(v)

Next ==
    \/ Add
    \/ \E v \in Savers : Save(v)
    \/ NothingDirty
    \/ Stop
    \/ Crash
    \/ Exit

Spec == Init /\ [][Next]_vars

\* The order-book task and the savers are scheduled.
FairSpec == Spec /\ WF_vars(Add /\ adding # "idle") /\ \A v \in Savers : WF_vars(Save(v))

-----------------------------------------------------------------------------
(***************************************************************************)
(* Properties.                                                             *)
(***************************************************************************)

File == Seq(0..MaxEvents)

TypeOK ==
    /\ recorded \in 0..MaxEvents
    /\ adding \in {"idle", "load", "push", "mark"}
    /\ loaded \in BOOLEAN
    /\ events \in File /\ Len(events) <= Cap
    /\ dirty \in BOOLEAN
    /\ pc \in [Savers -> {"idle", "clone", "create", "write", "rename", "done"}]
    /\ snap \in [Savers -> File]
    /\ handle \in [Savers -> {None} \cup Inodes]
    /\ content \in [Inodes -> File]
    /\ tmp \in {None} \cup Inodes
    /\ disk \in {None} \cup Inodes
    /\ {stopping, skipped, unread, overlap} \subseteq BOOLEAN
    /\ owed \subseteq 1..MaxEvents
    /\ saved \subseteq 1..MaxEvents
    /\ faults \in 0..MaxFaults
    /\ crashes \in 0..MaxCrashes

\* Cap newer ones of F have pushed e out.
Displaced(e, F) == Cardinality({f \in F : f > e}) >= Cap

\* The file is the JSON of some events at every moment, a crash in the middle
\* of a save included ("Write to temp file first, then atomic rename",
\* src/utils/gap_registry.rs:143), as long as no two saves were at work at once.
NeverTorn == overlap \/ DiskEvents # Torn

\* An event that reached the disk stays there, across crashes, restarts and
\* failing saves, until Cap newer ones push it out; and the file that holds
\* it is never a torn one.
SavedStays ==
    /\ NeverTorn
    /\ unread \/ overlap \/ \A e \in saved : e \in OnDisk \/ Displaced(e, saved)

\* A graceful shutdown saves the gap registry (README.md:413-415): when main
\* returns, the events recorded before are on disk, if the periodic save was
\* not at work and no save failed.
ShutdownSaves ==
    pc[Shutdown] = "done" /\ ~overlap /\ faults = 0 =>
        \A e \in owed : e \in OnDisk \/ Displaced(e, OnDisk)

\* A recorded event reaches the disk, unless a crash, a fault, two saves at
\* once or newer events take it.
EventsAreSaved ==
    \A e \in 1..MaxEvents :
        (e \in ToSet(events)) ~> (e \in OnDisk \/ e \notin ToSet(events) \/ skipped \/ overlap)

=============================================================================
