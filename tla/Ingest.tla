------------------------------- MODULE Ingest -------------------------------
(***************************************************************************)
(* From the sockets to the disk: the reconnecting connections of           *)
(* WebSocketManager (src/websocket/connection_manager.rs), its heartbeat   *)
(* monitor, the bounded message channel, the MessageHandler that empties   *)
(* it (src/websocket/message_handler.rs), and the shutdown main runs over  *)
(* all of them (src/main.rs).  A connection is one (batch, route) pair.    *)
(*                                                                         *)
(* Only that a message is queued matters here, never which one: the        *)
(* channel is the sequence of the kinds of its messages, "data" for one    *)
(* that ends as a row and "note" for Connected, Disconnected and Error.    *)
(***************************************************************************)
EXTENDS Naturals, Sequences

CONSTANTS
    Conns,       \* connection ids, conn_id(batch, route)
    ChannelCap   \* slots of the message channel

ASSUME ConnsAssumption == Conns # {}
ASSUME ChannelCapAssumption == ChannelCap \in Nat \ {0}

VARIABLES
    pc,          \* where each run_connection is
    flag,        \* batch_shutdown_flags: "none", "clear" or "set"
    entry,       \* connections: "none", or how old last_pong is
    link,        \* the socket: "good", "nopong" (only data arrives), "dead"
    late,        \* history: this connection's pongs are overdue
    channel,     \* the message channel
    handler,     \* where MessageHandler::run is
    draining,    \* it has consumed the shutdown notification
    owed,        \* history: of what was queued then, what is not yet taken
    buffered,    \* rows are in a CSV buffer and not on disk
    shutdown,    \* WebSocketManager.shutdown
    unflagged,   \* connections shutdown() has yet to visit
    notified,    \* handler_shutdown holds a permit
    main,        \* where main is
    joined       \* the handler ended before main stopped waiting

connVars == <<pc, flag, entry, link, late>>
handlerVars == <<handler, draining, owed>>
mainVars == <<shutdown, unflagged, notified, main, joined>>
vars == <<connVars, channel, handlerVars, buffered, mainVars>>

ConnPc == {"check", "register", "connect", "announce", "up", "send",
           "report", "farewell", "retry", "stopped"}

\* Where a connection has a socket open.
InLoop == {"announce", "up", "send", "report"}

Init ==
    /\ pc = [c \in Conns |-> "check"]
    /\ flag = [c \in Conns |-> "none"]
    /\ entry = [c \in Conns |-> "none"]
    /\ link = [c \in Conns |-> "dead"]
    /\ late = [c \in Conns |-> FALSE]
    /\ channel = <<>>
    /\ handler = "recv"
    /\ draining = FALSE
    /\ owed = 0
    /\ buffered = FALSE
    /\ shutdown = FALSE
    /\ unflagged = {}
    /\ notified = FALSE
    /\ main = "run"
    /\ joined = FALSE

\* When main has returned, the runtime is gone and no task takes a step.
Running == main # "exit"

Goto(c, place) == pc' = [pc EXCEPT ![c] = place]

-----------------------------------------------------------------------------
(***************************************************************************)
(* run_connection and connect_and_run.                                     *)
(***************************************************************************)

\* The top of the loop: leave if the manager was shut down.
CheckShutdown(c) ==
    /\ pc[c] = "check"
    /\ Goto(c, IF shutdown THEN "stopped" ELSE "register")
    /\ UNCHANGED <<flag, entry, link, late, channel, handlerVars, buffered, mainVars>>

\* Every attempt puts a flag of its own in the map.
Register(c) ==
    /\ pc[c] = "register"
    /\ flag' = [flag EXCEPT ![c] = "clear"]
    /\ late' = [late EXCEPT ![c] = FALSE]
    /\ Goto(c, "connect")
    /\ UNCHANGED <<entry, link, channel, handlerVars, buffered, mainVars>>

\* After connect_and_run, however it ended: stop, or sleep and retry.
Ended == IF shutdown THEN "stopped" ELSE "retry"

\* A connection that fails or times out leaves its flag behind.
ConnectFails(c) ==
    /\ pc[c] = "connect"
    /\ Goto(c, Ended)
    /\ UNCHANGED <<flag, entry, link, late, channel, handlerVars, buffered, mainVars>>

ConnectOk(c) ==
    /\ pc[c] = "connect"
    /\ entry' = [entry EXCEPT ![c] = "fresh"]
    /\ link' = [link EXCEPT ![c] = "good"]
    /\ Goto(c, "announce")
    /\ UNCHANGED <<flag, late, channel, handlerVars, buffered, mainVars>>

\* message_tx.send(m).await: waits while the channel is full, and fails,
\* which nobody looks at, once the handler has dropped the receiver.
Send(m) ==
    \/ /\ handler # "done"
       /\ Len(channel) < ChannelCap
       /\ channel' = Append(channel, m)
    \/ /\ handler = "done"
       /\ channel' = channel

Announce(c) ==
    /\ pc[c] = "announce"
    /\ Send("note")
    /\ Goto(c, "up")
    /\ UNCHANGED <<flag, entry, link, late, handlerVars, buffered, mainVars>>

Retry(c) ==
    /\ pc[c] = "retry"
    /\ Goto(c, "check")
    /\ UNCHANGED <<flag, entry, link, late, channel, handlerVars, buffered, mainVars>>

-----------------------------------------------------------------------------
(***************************************************************************)
(* run_message_loop: the branches of its select.                           *)
(***************************************************************************)

\* A text or binary frame is read, and will be sent to the handler.
Receive(c) ==
    /\ pc[c] = "up"
    /\ link[c] # "dead"
    /\ Goto(c, "send")
    /\ UNCHANGED <<flag, entry, link, late, channel, handlerVars, buffered, mainVars>>

SendData(c) ==
    /\ pc[c] = "send"
    /\ Send("data")
    /\ Goto(c, "up")
    /\ UNCHANGED <<flag, entry, link, late, handlerVars, buffered, mainVars>>

\* A pong, or a ping of the server, which is answered at once.
Pong(c) ==
    /\ pc[c] = "up"
    /\ link[c] = "good"
    /\ entry[c] # "none"
    /\ entry' = [entry EXCEPT ![c] = "fresh"]
    /\ late' = [late EXCEPT ![c] = FALSE]
    /\ UNCHANGED <<pc, flag, link, channel, handlerVars, buffered, mainVars>>

\* Mutant: the entry of the old connection stays in the map.
LeaveKeepingEntry(c) ==
    /\ entry' = entry
    /\ Goto(c, "farewell")

\* Leaving the loop removes the connections entry.
Leave(c) ==
    /\ entry' = [entry EXCEPT ![c] = "none"]
    /\ Goto(c, "farewell")

\* Mutant: the socket's branch comes first, as with a biased select.
FlagSeenWhenQuiet(c) ==
    /\ pc[c] = "up"
    /\ link[c] = "dead"
    /\ flag[c] = "set"
    /\ Leave(c)
    /\ UNCHANGED <<flag, link, late, channel, handlerVars, buffered, mainVars>>

\* The flag was set, by the heartbeat monitor or by shutdown().
FlagSeen(c) ==
    /\ pc[c] = "up"
    /\ flag[c] = "set"
    /\ Leave(c)
    /\ UNCHANGED <<flag, link, late, channel, handlerVars, buffered, mainVars>>

\* Thirty seconds without a message, a ping that cannot be sent, a pong that
\* cannot, the end of the stream, a close frame.
LinkEnds(c) ==
    /\ pc[c] = "up"
    /\ link[c] = "dead"
    /\ Leave(c)
    /\ UNCHANGED <<flag, link, late, channel, handlerVars, buffered, mainVars>>

\* A protocol or IO error is also sent to the handler.
LinkError(c) ==
    /\ pc[c] = "up"
    /\ link[c] = "dead"
    /\ Goto(c, "report")
    /\ UNCHANGED <<flag, entry, link, late, channel, handlerVars, buffered, mainVars>>

Report(c) ==
    /\ pc[c] = "report"
    /\ Send("note")
    /\ Leave(c)
    /\ UNCHANGED <<flag, link, late, handlerVars, buffered, mainVars>>

\* Disconnected is sent, then the flag leaves the map.
Farewell(c) ==
    /\ pc[c] = "farewell"
    /\ Send("note")
    /\ flag' = [flag EXCEPT ![c] = "none"]
    /\ Goto(c, Ended)
    /\ UNCHANGED <<entry, link, late, handlerVars, buffered, mainVars>>

\* The socket degrades: pongs stop, or everything does.
Degrade(c) ==
    /\ pc[c] \in {"up", "send"}
    /\ \/ link[c] = "good" /\ link' = [link EXCEPT ![c] = "nopong"]
       \/ link[c] # "dead" /\ link' = [link EXCEPT ![c] = "dead"]
    /\ UNCHANGED <<pc, flag, entry, late, channel, handlerVars, buffered, mainVars>>

\* ping_interval * heartbeat_miss_reconnect since the last pong: it did not
\* come, or the loop, waiting for a slot in the channel, did not read it.
PongOverdue(c) ==
    /\ pc[c] \in InLoop
    /\ (link[c] # "good" \/ pc[c] # "up")
    /\ entry[c] = "fresh"
    /\ entry' = [entry EXCEPT ![c] = "stale"]
    /\ late' = [late EXCEPT ![c] = TRUE]
    /\ UNCHANGED <<pc, flag, link, channel, handlerVars, buffered, mainVars>>

\* The monitor holds the map's shard while it looks at an entry and sets its
\* flag, so the entry cannot be removed in between.
Heartbeat(c) ==
    /\ entry[c] = "stale"
    /\ flag[c] = "clear"
    /\ flag' = [flag EXCEPT ![c] = "set"]
    /\ UNCHANGED <<pc, entry, link, late, channel, handlerVars, buffered, mainVars>>

-----------------------------------------------------------------------------
(***************************************************************************)
(* MessageHandler::run.                                                    *)
(***************************************************************************)

\* recv or try_recv gives a message; only data becomes a row.
Take ==
    /\ handler = "recv"
    /\ channel # <<>>
    /\ channel' = Tail(channel)
    /\ handler' = IF Head(channel) = "data" THEN "write" ELSE "recv"
    /\ owed' = IF owed > 0 THEN owed - 1 ELSE 0
    /\ UNCHANGED <<connVars, draining, buffered, mainVars>>

\* handle_one awaits the CSV writer; an error is counted and forgotten.
Write ==
    /\ handler = "write"
    /\ handler' = "recv"
    /\ buffered' \in {buffered, TRUE}
    /\ UNCHANGED <<connVars, channel, draining, owed, mainVars>>

\* Mutant: the notification ends the loop without the drain.
NotifiedStops ==
    /\ handler = "recv"
    /\ notified
    /\ ~draining
    /\ handler' = "done"
    /\ draining' = TRUE
    /\ owed' = Len(channel)
    /\ channel' = <<>>
    /\ UNCHANGED <<connVars, buffered, mainVars>>

\* The select's other branch.
Notified ==
    /\ handler = "recv"
    /\ notified
    /\ ~draining
    /\ draining' = TRUE
    /\ owed' = Len(channel)
    /\ UNCHANGED <<connVars, channel, handler, buffered, mainVars>>

\* try_recv finds the channel empty: run returns and drops the receiver.
Drained ==
    /\ handler = "recv"
    /\ draining
    /\ channel = <<>>
    /\ handler' = "done"
    /\ UNCHANGED <<connVars, channel, draining, owed, buffered, mainVars>>

\* CsvWriter's periodic flush.
PeriodicFlush ==
    /\ buffered
    /\ buffered' = FALSE
    /\ UNCHANGED <<connVars, channel, handlerVars, mainVars>>

-----------------------------------------------------------------------------
(***************************************************************************)
(* main, from the signal on.                                               *)
(***************************************************************************)

\* WebSocketManager::shutdown stores the flag of all ...
Signal ==
    /\ main = "run"
    /\ main' = "stopping"
    /\ shutdown' = TRUE
    /\ unflagged' = Conns
    /\ UNCHANGED <<connVars, channel, handlerVars, buffered, notified, joined>>

\* ... and then walks the map, setting those it finds.
SetFlag(c) ==
    /\ c \in unflagged
    /\ unflagged' = unflagged \ {c}
    /\ flag' = [flag EXCEPT ![c] = IF @ = "none" THEN "none" ELSE "set"]
    /\ UNCHANGED <<pc, entry, link, late, channel, handlerVars, buffered>>
    /\ UNCHANGED <<shutdown, notified, main, joined>>

\* After a grace of 500 ms the handler is notified.
Notify ==
    /\ main = "stopping"
    /\ unflagged = {}
    /\ notified' = TRUE
    /\ main' = "join"
    /\ UNCHANGED <<connVars, channel, handlerVars, buffered>>
    /\ UNCHANGED <<shutdown, unflagged, joined>>

Join ==
    /\ main = "join"
    /\ handler = "done"
    /\ joined' = TRUE
    /\ main' = "flush"
    /\ UNCHANGED <<connVars, channel, handlerVars, buffered>>
    /\ UNCHANGED <<shutdown, unflagged, notified>>

\* Mutant: the handler is joined without a cap.
JoinNever == FALSE /\ UNCHANGED vars

\* The cap of five seconds.
JoinTimesOut ==
    /\ main = "join"
    /\ handler # "done"
    /\ main' = "flush"
    /\ UNCHANGED <<connVars, channel, handlerVars, buffered>>
    /\ UNCHANGED <<shutdown, unflagged, notified, joined>>

\* flush_all, then the gap registry's save, then main returns.
FlushAll ==
    /\ main = "flush"
    /\ buffered' = FALSE
    /\ main' = "exit"
    /\ UNCHANGED <<connVars, channel, handlerVars>>
    /\ UNCHANGED <<shutdown, unflagged, notified, joined>>

-----------------------------------------------------------------------------
ConnStep(c) ==
    \/ CheckShutdown(c) \/ Register(c) \/ ConnectFails(c) \/ ConnectOk(c)
    \/ Announce(c) \/ Retry(c)
    \/ Receive(c) \/ SendData(c) \/ Pong(c) \/ FlagSeen(c)
    \/ LinkEnds(c) \/ LinkError(c) \/ Report(c) \/ Farewell(c)
    \/ Degrade(c) \/ PongOverdue(c) \/ Heartbeat(c)

HandlerStep == Take \/ Write \/ Notified \/ Drained \/ PeriodicFlush

MainStep ==
    \/ Signal \/ Notify \/ Join \/ JoinTimesOut \/ FlushAll
    \/ \E c \in Conns : SetFlag(c)

Next ==
    /\ Running
    /\ \/ \E c \in Conns : ConnStep(c)
       \/ HandlerStep
       \/ MainStep

Spec == Init /\ [][Next]_vars

\* Tasks are polled, so a step that stays possible is taken.  A select picks
\* at random among its ready branches, so a branch that is ready again and
\* again is taken in the end: the flag's, the notification's, and a pong the
\* loop reads.  The exchange accepts a connection that is tried for ever.
Fairness ==
    /\ \A c \in Conns :
         /\ WF_vars(Running /\ CheckShutdown(c))
         /\ WF_vars(Running /\ Register(c))
         /\ WF_vars(Running /\ (ConnectOk(c) \/ ConnectFails(c)))
         /\ SF_vars(Running /\ ConnectOk(c))
         /\ SF_vars(Running /\ Announce(c))
         /\ WF_vars(Running /\ Retry(c))
         /\ SF_vars(Running /\ SendData(c))
         /\ SF_vars(Running /\ FlagSeen(c))
         /\ WF_vars(Running /\ LinkEnds(c))
         /\ SF_vars(Running /\ Report(c))
         /\ SF_vars(Running /\ Farewell(c))
         /\ SF_vars(Running /\ PongOverdue(c))
         /\ WF_vars(Running /\ Heartbeat(c))
         /\ WF_vars(Running /\ SetFlag(c))
    /\ WF_vars(Running /\ Take)
    /\ WF_vars(Running /\ Write)
    /\ SF_vars(Running /\ Notified)
    /\ WF_vars(Running /\ Drained)
    /\ WF_vars(Running /\ Notify)
    /\ WF_vars(Running /\ Join)
    /\ WF_vars(Running /\ JoinTimesOut)
    /\ WF_vars(Running /\ FlushAll)

FairSpec == Spec /\ Fairness

-----------------------------------------------------------------------------
\* Every variable keeps to its values, and the channel to its slots.
TypeOK ==
    /\ pc \in [Conns -> ConnPc]
    /\ flag \in [Conns -> {"none", "clear", "set"}]
    /\ entry \in [Conns -> {"none", "fresh", "stale"}]
    /\ link \in [Conns -> {"good", "nopong", "dead"}]
    /\ late \in [Conns -> BOOLEAN]
    /\ channel \in Seq({"data", "note"})
    /\ Len(channel) <= ChannelCap
    /\ handler \in {"recv", "write", "done"}
    /\ draining \in BOOLEAN
    /\ owed \in 0..ChannelCap
    /\ buffered \in BOOLEAN
    /\ shutdown \in BOOLEAN
    /\ unflagged \subseteq Conns
    /\ notified \in BOOLEAN
    /\ main \in {"run", "stopping", "join", "flush", "exit"}
    /\ joined \in BOOLEAN

\* The heartbeat monitor cuts a connection for its own overdue pongs, never
\* for those of the one it replaced: run_message_loop removes the entry
\* before connect_and_run registers a new flag.
FreshNotCut ==
    [][\A c \in Conns :
          flag[c] = "clear" /\ flag'[c] = "set" /\ ~shutdown => late[c]]_vars

\* If the handler ended in time, whatever was queued when it was told to stop
\* has been handled, and every row of it is on disk when main returns.
JoinedOnDisk == main = "exit" /\ joined => owed = 0 /\ ~buffered

\* As long as the program is not shut down, every connection is working again
\* and again: no outage, no half-dead socket and no full channel ends it.
Reopens ==
    \A c \in Conns :
        []<>(shutdown \/ (pc[c] \in {"up", "send"} /\ link[c] = "good"))

\* Shutdown cannot hang, whatever connections and handler do.
ShutdownEnds == main = "stopping" ~> main = "exit"

\* What the comment of WebSocketManager::shutdown says: all connections are
\* told to stop, so when it has returned none is open without its flag set.
\* Does not hold of the code; see "Disagreements" in the README.
AllSignalled ==
    shutdown /\ unflagged = {} =>
        \A c \in Conns : pc[c] \in InLoop => flag[c] = "set"

=============================================================================
