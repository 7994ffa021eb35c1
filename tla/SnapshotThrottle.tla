-------------------------- MODULE SnapshotThrottle --------------------------
(***************************************************************************)
(* How often ONE symbol's manage_symbol task asks for a depth snapshot     *)
(* (src/collectors/orderbook_manager.rs): the cooldown before a request,   *)
(* the backoff after a failed one, and what the stale sweep and the resync *)
(* triggers do to both.  OrderbookSync has the same task without its       *)
(* timers; here the book is only as much as the timers depend on.          *)
(*                                                                         *)
(* Time is relative: an entry of last_snapshot_time carries its age, a     *)
(* sleep the ticks it has left.  A tick is a stretch of some seconds.  It  *)
(* may come at any time, so whatever is said of a time between two steps   *)
(* is a lower bound.                                                       *)
(***************************************************************************)
EXTENDS Naturals

CONSTANTS
    Cooldown,      \* resync_cooldown_seconds
    Growth,        \* Growth[b]: b times resync_backoff_factor
    MaxBackoff,    \* max_resync_backoff_seconds
    MaxIdle,       \* MAX_IDLE_SECS of the sweep
    MaxFails,      \* failures in a row that lift the backoff to its ceiling
    Schedule       \* Schedule[k]: the backoff that k failures in a row call for

Lesser(a, b) == IF a < b THEN a ELSE b
Greater(a, b) == IF a < b THEN b ELSE a

\* No time that matters is longer.
Long == Greater(Cooldown, MaxBackoff)

ASSUME ThrottleAssumption ==
    /\ Cooldown \in Nat
    /\ MaxBackoff \in Nat
    /\ MaxIdle \in Nat
    /\ MaxFails \in Nat
    /\ Growth \in [0..Long -> Nat]

\* The schedule is the geometric one, cut off at the ceiling.
ASSUME ScheduleAssumption ==
    /\ Schedule \in [0..MaxFails -> 0..Long]
    /\ Schedule[0] = Cooldown
    /\ \A k \in 0..MaxFails :
          Schedule[Lesser(k + 1, MaxFails)] = Lesser(Growth[Schedule[k]], MaxBackoff)

VARIABLES
    phase,         \* where manage_symbol is
    bookState,     \* symbol_states[symbol]; "Absent": no entry
    lastSnapshot,  \* age of last_snapshot_time; Cooldown: older, or no entry
    backoff,       \* resnapshot_backoff; no entry counts as Cooldown
    sleeping,      \* ticks the task still sleeps
    idleFor,       \* age of the book's last_processed_time, up to MaxIdle
    hasBook,       \* orderbooks has an entry
    listed,        \* the sweep has put the symbol on its list
    dead,          \* the symbol is in the delisted set
    silence,       \* history: ticks since a request was last sent, up to Long
    fails,         \* history: requests that failed since one succeeded
    forgotten      \* history: the sweep dropped the state since the last request

throttleVars == <<phase, bookState, lastSnapshot, backoff, sleeping, idleFor,
                  hasBook, listed, dead, silence, fails, forgotten>>

taskVars == <<phase, bookState, lastSnapshot, backoff, sleeping>>
sweepVars == <<idleFor, hasBook, listed>>
historyVars == <<silence, fails, forgotten>>

ThrottleInit ==
    /\ phase = "loop"
    /\ bookState = "Absent"
    /\ lastSnapshot = Cooldown
    /\ backoff = Cooldown
    /\ sleeping = 0
    /\ idleFor = 0
    /\ hasBook = FALSE
    /\ listed = FALSE
    /\ dead = FALSE
    /\ silence = Long
    /\ fails = 0
    /\ forgotten = FALSE

-----------------------------------------------------------------------------
\* remove_symbol_state.
RemoveState ==
    /\ bookState' = "Absent"
    /\ lastSnapshot' = Cooldown
    /\ backoff' = Cooldown
    /\ hasBook' = FALSE
    /\ idleFor' = 0

\* A delisting is noticed at the top of the loop.
LeaveDelisted ==
    /\ phase = "loop"
    /\ dead
    /\ phase' = "done"
    /\ RemoveState
    /\ UNCHANGED <<sleeping, listed, dead, historyVars>>

\* Mutant: only a symbol without an entry is taken for a new one.
TurnAbsent ==
    /\ phase = "loop"
    /\ ~dead
    /\ bookState = "Absent"
    /\ bookState' = "FetchingSnapshot"
    /\ UNCHANGED <<phase, lastSnapshot, backoff, sleeping, sweepVars, dead, historyVars>>

TurnInitializing ==
    /\ phase = "loop"
    /\ ~dead
    /\ bookState \in {"Absent", "Initializing"}
    /\ bookState' = "FetchingSnapshot"
    /\ UNCHANGED <<phase, lastSnapshot, backoff, sleeping, sweepVars, dead, historyVars>>

\* What is left of the cooldown is read once and slept through, with no
\* guard held: nothing that happens meanwhile shortens or lengthens it.
AwaitCooldown ==
    /\ phase = "loop"
    /\ ~dead
    /\ bookState = "FetchingSnapshot"
    /\ phase' = "cooldown"
    /\ sleeping' = Cooldown - lastSnapshot
    /\ UNCHANGED <<bookState, lastSnapshot, backoff, sweepVars, dead, historyVars>>

\* Mutant: only the answer, not the request, is stamped.
SendUnstamped ==
    /\ phase = "cooldown"
    /\ sleeping = 0
    /\ phase' = "fetching"
    /\ bookState' = "FetchingSnapshot"
    /\ silence' = 0
    /\ forgotten' = FALSE
    /\ UNCHANGED <<lastSnapshot, backoff, sleeping, sweepVars, dead, fails>>

\* The request is stamped before it is sent.
SendRequest ==
    /\ phase = "cooldown"
    /\ sleeping = 0
    /\ phase' = "fetching"
    /\ bookState' = "FetchingSnapshot"
    /\ lastSnapshot' = 0
    /\ silence' = 0
    /\ forgotten' = FALSE
    /\ UNCHANGED <<backoff, sleeping, sweepVars, dead, fails>>

\* The book is in the map and its snapshot on disk.
RequestOk ==
    /\ phase = "fetching"
    /\ phase' = "loop"
    /\ bookState' = "Syncing"
    /\ backoff' = Cooldown
    /\ hasBook' = TRUE
    /\ idleFor' = 0
    /\ fails' = 0
    /\ UNCHANGED <<lastSnapshot, sleeping, listed, dead, silence, forgotten>>

\* fetch_and_apply_snapshot inserts the book before it writes the rows: a
\* request whose write fails leaves it behind.
BookMayBeIn == UNCHANGED <<hasBook, idleFor>> \/ (hasBook' = TRUE /\ idleFor' = 0)

\* Mutant: the backoff is slept, but not stored for the next failure.
RequestFailsUnstored ==
    /\ phase = "fetching"
    /\ phase' = "backoff"
    /\ sleeping' = Lesser(Growth[backoff], MaxBackoff)
    /\ fails' = Lesser(fails + 1, MaxFails)
    /\ BookMayBeIn
    /\ UNCHANGED <<bookState, lastSnapshot, backoff, listed, dead, silence, forgotten>>

\* Timeout, HTTP error, breaker or a failed write: the entry grows by the
\* factor up to the ceiling, and the task sleeps it.
RequestFails ==
    /\ phase = "fetching"
    /\ phase' = "backoff"
    /\ backoff' = Lesser(Growth[backoff], MaxBackoff)
    /\ sleeping' = backoff'
    /\ fails' = Lesser(fails + 1, MaxFails)
    /\ BookMayBeIn
    /\ UNCHANGED <<bookState, lastSnapshot, listed, dead, silence, forgotten>>

AwakeFromBackoff ==
    /\ phase = "backoff"
    /\ sleeping = 0
    /\ phase' = "loop"
    /\ bookState' = "Initializing"
    /\ UNCHANGED <<lastSnapshot, backoff, sleeping, sweepVars, dead, historyVars>>

\* trigger_resnapshot: the bridge timeout, or a snapshot older than the
\* buffer, which can be found at once.
Resnapshot ==
    /\ phase = "loop"
    /\ ~dead
    /\ bookState = "Syncing"
    /\ bookState' = "Initializing"
    /\ UNCHANGED <<phase, lastSnapshot, backoff, sleeping, sweepVars, dead, historyVars>>

\* The task goes on, or ends with the bridge snapshot's write that fails.
Attach ==
    /\ phase = "loop"
    /\ ~dead
    /\ bookState = "Syncing"
    /\ bookState' = "Live"
    /\ phase' \in {"loop", "done"}
    /\ UNCHANGED <<lastSnapshot, backoff, sleeping, sweepVars, dead, historyVars>>

ManageTask ==
    \/ LeaveDelisted
    \/ TurnInitializing
    \/ AwaitCooldown
    \/ SendRequest
    \/ RequestOk
    \/ RequestFails
    \/ AwakeFromBackoff
    \/ Resnapshot
    \/ Attach

-----------------------------------------------------------------------------
\* apply_diff stamps last_processed_time: by the live loop, or by an attach.
DiffApplied ==
    /\ hasBook
    /\ bookState \in {"Syncing", "Live"}
    /\ idleFor' = 0
    /\ UNCHANGED <<taskVars, hasBook, listed, dead, historyVars>>

\* cleanup_stale_symbols lists first and removes later.
SweepLists ==
    /\ hasBook
    /\ idleFor = MaxIdle
    /\ ~listed
    /\ listed' = TRUE
    /\ UNCHANGED <<taskVars, idleFor, hasBook, dead, historyVars>>

SweepRemoves ==
    /\ listed
    /\ listed' = FALSE
    /\ RemoveState
    /\ forgotten' = TRUE
    /\ fails' = 0
    /\ UNCHANGED <<phase, sleeping, dead, silence>>

Delist ==
    /\ ~dead
    /\ dead' = TRUE
    /\ UNCHANGED <<taskVars, sweepVars, historyVars>>

\* A task that has left does not come back.
Relist ==
    /\ dead
    /\ dead' = FALSE
    /\ UNCHANGED <<taskVars, sweepVars, historyVars>>

Earlier(n) == IF n = 0 THEN 0 ELSE n - 1

TimePasses ==
    /\ lastSnapshot' = Lesser(lastSnapshot + 1, Cooldown)
    /\ sleeping' = Earlier(sleeping)
    /\ idleFor' = IF hasBook THEN Lesser(idleFor + 1, MaxIdle) ELSE 0
    /\ silence' = Lesser(silence + 1, Long)
    /\ UNCHANGED <<phase, bookState, backoff, hasBook, listed, dead, fails, forgotten>>

ThrottleNext == ManageTask \/ DiffApplied \/ SweepLists \/ SweepRemoves \/ Delist \/ Relist \/ TimePasses

ThrottleSpec == ThrottleInit /\ [][ThrottleNext]_throttleVars

\* Tasks are polled, time passes, and a request ends within its timeout.
ThrottleFairness == WF_throttleVars(ManageTask) /\ WF_throttleVars(TimePasses)

-----------------------------------------------------------------------------
ThrottleTypeOK ==
    /\ phase \in {"loop", "cooldown", "fetching", "backoff", "done"}
    /\ bookState \in {"Absent", "Initializing", "FetchingSnapshot", "Syncing", "Live"}
    /\ lastSnapshot \in 0..Cooldown
    /\ backoff \in 0..Long
    /\ sleeping \in 0..Long
    /\ idleFor \in 0..MaxIdle
    /\ hasBook \in BOOLEAN
    /\ listed \in BOOLEAN
    /\ dead \in BOOLEAN
    /\ silence \in 0..Long
    /\ fails \in 0..MaxFails
    /\ forgotten \in BOOLEAN

Sent == phase = "cooldown" /\ phase' = "fetching"

\* Whatever fails, resyncs or is delisted in between, a symbol's requests
\* keep the cooldown between them, and after k failures in a row the
\* schedule's k-th backoff, unless the stale sweep dropped the symbol's
\* timers meanwhile.
RequestsSpaced ==
    [][Sent => \/ forgotten
               \/ /\ silence >= Cooldown
                  /\ fails > 0 => silence >= Schedule[fails]]_throttleVars

\* A failed symbol is never given up: it asks again or was delisted.
KeepsAsking == phase = "backoff" ~> phase \in {"fetching", "done"}

\* What config.example.toml says of resync_cooldown_seconds: the minimum gap
\* between resync attempts.  Does not hold of the code when the stale sweep
\* drops the timers; see "Disagreements" in the README.
MinimumGap == [][Sent => silence >= Cooldown]_throttleVars

=============================================================================
