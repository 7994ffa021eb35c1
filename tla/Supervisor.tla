----------------------------- MODULE Supervisor -----------------------------
(***************************************************************************)
(* scripts/supervise.sh with the one collector it runs and the dashboard,  *)
(* which edits the configuration and asks for a restart by dropping a      *)
(* sentinel file.  A trap of the shell runs between any two commands, so   *)
(* each command that matters is a step of its own.                         *)
(***************************************************************************)
EXTENDS Naturals

CONSTANTS
    MaxEdits,      \* bound: edits of the configuration
    MaxRequests,   \* bound: restarts asked for
    MaxCrashes     \* bound: crashes of the collector

ASSUME BoundsAssumption ==
    MaxEdits \in Nat /\ MaxRequests \in Nat /\ MaxCrashes \in Nat

VARIABLES
    shell,         \* the command supervise.sh is at
    pid,           \* whom collector_pid names: "none", "old" or "current"
    term,          \* a SIGTERM or SIGINT reached the script
    sentinel,      \* the restart.request file exists
    collector,     \* the collector process
    config,        \* version of the configuration file
    torn,          \* the dashboard is in the middle of writing it
    loaded,        \* version the running collector read, 0 before
    requested,     \* history: config when the sentinel was last dropped
    requests, crashes

shellVars == <<shell, pid>>
configVars == <<config, torn>>
counters == <<requests, crashes>>
vars == <<shell, pid, term, sentinel, collector, configVars, loaded, requested, counters>>

ShellPc == {"rm", "launch", "assign", "watch", "await", "wait", "pause",
            "trap", "trapAwait", "exited"}

\* "dying": killed and not gone yet; "zombie": gone and not waited for.
Alive == {"starting", "booting", "up", "draining", "dying"}

Init ==
    /\ shell = "rm"
    /\ pid = "none"
    /\ term = FALSE
    /\ sentinel \in BOOLEAN
    /\ collector = "none"
    /\ config = 1
    /\ torn = FALSE
    /\ loaded = 0
    /\ requested = 0
    /\ requests = 0
    /\ crashes = 0

-----------------------------------------------------------------------------
(***************************************************************************)
(* The collector process, as far as the script can tell.                   *)
(***************************************************************************)

\* Config::from_file; a file cut short does not parse and ends the process.
LoadConfig ==
    /\ collector = "starting"
    /\ IF torn
       THEN collector' = "zombie" /\ loaded' = loaded
       ELSE collector' = "booting" /\ loaded' = config
    /\ UNCHANGED <<shellVars, term, sentinel, configVars, requested, counters>>

\* Discovery is done, collection starts, and the signal handlers are set.
Started ==
    /\ collector = "booting"
    /\ collector' = "up"
    /\ UNCHANGED <<shellVars, term, sentinel, configVars, loaded, requested, counters>>

Crash ==
    /\ collector \in {"booting", "up", "draining"}
    /\ crashes < MaxCrashes
    /\ crashes' = crashes + 1
    /\ collector' = "zombie"
    /\ UNCHANGED <<shellVars, term, sentinel, configVars, loaded, requested, requests>>

\* main has drained, flushed and returned.
DrainEnds ==
    /\ collector = "draining"
    /\ collector' = "zombie"
    /\ UNCHANGED <<shellVars, term, sentinel, configVars, loaded, requested, counters>>

Dies ==
    /\ collector = "dying"
    /\ collector' = "zombie"
    /\ UNCHANGED <<shellVars, term, sentinel, configVars, loaded, requested, counters>>

\* What SIGTERM makes of the process: without handlers it dies of it.
Terminated ==
    CASE collector \in {"starting", "booting"} -> "dying"
      [] collector \in {"up", "draining"} -> "draining"
      [] OTHER -> collector

-----------------------------------------------------------------------------
(***************************************************************************)
(* The script's main loop.                                                 *)
(***************************************************************************)

RemoveSentinel ==
    /\ shell = "rm"
    /\ sentinel' = FALSE
    /\ shell' = "launch"
    /\ UNCHANGED <<pid, term, collector, configVars, loaded, requested, counters>>

\* "$BIN" & : collector_pid still holds what it held.
Launch ==
    /\ shell = "launch"
    /\ collector' = "starting"
    /\ loaded' = 0
    /\ pid' = IF pid = "none" THEN "none" ELSE "old"
    /\ shell' = "assign"
    /\ UNCHANGED <<term, sentinel, configVars, requested, counters>>

\* Mutant: the sentinel is removed once the collector has started.
AssignPidThenRemove ==
    /\ shell = "assign"
    /\ pid' = "current"
    /\ shell' = "watch"
    /\ sentinel' = FALSE
    /\ UNCHANGED <<term, collector, configVars, loaded, requested, counters>>

AssignPid ==
    /\ shell = "assign"
    /\ pid' = "current"
    /\ shell' = "watch"
    /\ UNCHANGED <<term, sentinel, collector, configVars, loaded, requested, counters>>

\* A round of the loop sees the collector gone.
SeeExit ==
    /\ shell = "watch"
    /\ collector \notin Alive
    /\ shell' = "wait"
    /\ UNCHANGED <<pid, term, sentinel, collector, configVars, loaded, requested, counters>>

\* A round of the loop sees the sentinel.
SeeSentinel ==
    /\ shell = "watch"
    /\ collector \in Alive
    /\ sentinel
    /\ collector' = Terminated
    /\ shell' = "await"
    /\ UNCHANGED <<pid, term, sentinel, configVars, loaded, requested, counters>>

\* Mutant: await_exit waits for ever.
AwaitForever(next) ==
    /\ collector \notin Alive
    /\ collector' = collector
    /\ shell' = next

\* await_exit: the process goes, or is killed after STOP_TIMEOUT.
AwaitExit(next) ==
    /\ \/ collector \notin Alive /\ collector' = collector
       \/ collector \in Alive /\ collector' = "dying"
    /\ shell' = next

Await ==
    /\ shell = "await"
    /\ AwaitExit("wait")
    /\ UNCHANGED <<pid, term, sentinel, configVars, loaded, requested, counters>>

\* Mutant: the script does not wait for the process it killed.
ReapAtOnce ==
    /\ shell = "wait"
    /\ shell' = "pause"
    /\ UNCHANGED <<pid, term, sentinel, collector, configVars, loaded, requested, counters>>

\* wait "$collector_pid"
Reap ==
    /\ shell = "wait"
    /\ collector = "zombie"
    /\ collector' = "none"
    /\ shell' = "pause"
    /\ UNCHANGED <<pid, term, sentinel, configVars, loaded, requested, counters>>

Relaunch ==
    /\ shell = "pause"
    /\ shell' = "rm"
    /\ UNCHANGED <<pid, term, sentinel, collector, configVars, loaded, requested, counters>>

-----------------------------------------------------------------------------
(***************************************************************************)
(* The trap.                                                               *)
(***************************************************************************)

Signal ==
    /\ ~term
    /\ term' = TRUE
    /\ UNCHANGED <<shellVars, sentinel, collector, configVars, loaded, requested, counters>>

\* Mutant: the signal is forwarded, and the script leaves.
TrapForwards ==
    /\ term
    /\ shell \notin {"trapAwait", "exited"}
    /\ shell' = "exited"
    /\ collector' = IF pid = "current" THEN Terminated ELSE collector
    /\ UNCHANGED <<pid, term, sentinel, configVars, loaded, requested, counters>>

\* on_term: forward the signal to the process collector_pid names, if there
\* is one and it is alive; the script never returns to the loop.
Trap ==
    /\ term
    /\ shell \notin {"trapAwait", "exited"}
    /\ IF pid = "current" /\ collector \in Alive
       THEN collector' = Terminated /\ shell' = "trapAwait"
       ELSE collector' = collector /\ shell' = "exited"
    /\ UNCHANGED <<pid, term, sentinel, configVars, loaded, requested, counters>>

TrapAwait ==
    /\ shell = "trapAwait"
    /\ AwaitExit("exited")
    /\ UNCHANGED <<pid, term, sentinel, configVars, loaded, requested, counters>>

-----------------------------------------------------------------------------
(***************************************************************************)
(* The dashboard: POST /api/config rewrites the file in place, POST        *)
(* /api/restart drops the sentinel.                                        *)
(***************************************************************************)

EditBegins ==
    /\ ~torn
    /\ config < 1 + MaxEdits
    /\ torn' = TRUE
    /\ UNCHANGED <<shellVars, term, sentinel, collector, config, loaded, requested, counters>>

EditEnds ==
    /\ torn
    /\ torn' = FALSE
    /\ config' = config + 1
    /\ UNCHANGED <<shellVars, term, sentinel, collector, loaded, requested, counters>>

RequestRestart ==
    /\ ~torn
    /\ requests < MaxRequests
    /\ requests' = requests + 1
    /\ sentinel' = TRUE
    /\ requested' = config
    /\ UNCHANGED <<shellVars, term, collector, configVars, loaded, crashes>>

-----------------------------------------------------------------------------
CollectorStep == LoadConfig \/ Started \/ Crash \/ DrainEnds \/ Dies

\* A signal the shell acts on some commands later is one that came later, so
\* these may go on while it is pending; once the trap runs they never do.
LoopStep ==
    \/ RemoveSentinel \/ Launch \/ AssignPid \/ SeeExit \/ SeeSentinel
    \/ Await \/ Reap \/ Relaunch

TrapStep == Signal \/ Trap \/ TrapAwait

DashboardStep == EditBegins \/ EditEnds \/ RequestRestart

Next == CollectorStep \/ LoopStep \/ TrapStep \/ DashboardStep

Spec == Init /\ [][Next]_vars

\* The script goes on with its commands and runs a pending trap, a process
\* killed dies, a starting collector starts, and an edit is completed.  That
\* a drain ends is not assumed.
Fairness ==
    /\ WF_vars(LoadConfig)
    /\ WF_vars(Started)
    /\ WF_vars(Dies)
    /\ WF_vars(LoopStep)
    /\ WF_vars(Trap)
    /\ WF_vars(TrapAwait)
    /\ WF_vars(EditEnds)

FairSpec == Spec /\ Fairness

-----------------------------------------------------------------------------
\* Every variable keeps to its values, and only a started collector has read
\* a configuration.
TypeOK ==
    /\ shell \in ShellPc
    /\ pid \in {"none", "old", "current"}
    /\ term \in BOOLEAN
    /\ sentinel \in BOOLEAN
    /\ collector \in Alive \cup {"none", "zombie"}
    /\ config \in 1..(1 + MaxEdits)
    /\ torn \in BOOLEAN
    /\ loaded \in 0..config
    /\ requested \in 0..config
    /\ requests \in 0..MaxRequests
    /\ crashes \in 0..MaxCrashes
    /\ collector \in {"booting", "up"} => loaded > 0

\* Two collectors never run at once, on the same files: a new one is launched
\* only when the last is gone, killed or not.
NoOverlap == [][shell = "launch" /\ shell' = "assign" => collector = "none"]_vars

\* The script does not leave behind a collector whose pid it knows: it has
\* drained, or was killed for taking longer than STOP_TIMEOUT.
NotLeftBehind ==
    shell = "exited" /\ pid = "current" => collector \notin Alive \ {"dying"}

\* A requested restart is carried out: a collector comes up with at least the
\* configuration of the request, unless the script is told to stop.
RestartApplied ==
    \A v \in 1..(1 + MaxEdits) :
        (sentinel /\ requested = v) ~> (term \/ loaded >= v)

\* A signal ends the script, even if the collector's drain hangs.
TermEnds == term ~> shell = "exited"

\* What the comment above on_term says: the signal is forwarded and the drain
\* waited for, so the script never leaves a collector at work.  Does not hold
\* of the code; see "Disagreements" in the README.
DrainedAtExit == shell = "exited" => collector \notin {"starting", "booting", "up", "draining"}

=============================================================================
