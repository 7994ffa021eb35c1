---------------------------- MODULE IngestProofs ----------------------------
(***************************************************************************)
(* Proofs about Ingest, for every set of connections and every channel.    *)
(***************************************************************************)
EXTENDS Ingest, TLAPS

USE ChannelCapAssumption

\* A send keeps the channel a sequence of messages within its slots.
LEMMA SendTyped ==
    ASSUME TypeOK, NEW m \in {"data", "note"}, Send(m)
    PROVE  channel' \in Seq({"data", "note"}) /\ Len(channel') <= ChannelCap
  BY DEF Send, TypeOK

\* Taking a message leaves the rest of the channel.
LEMMA TakeTyped ==
    ASSUME TypeOK, Take
    PROVE  /\ channel' \in Seq({"data", "note"})
           /\ Len(channel') = Len(channel) - 1
           /\ owed' \in 0..ChannelCap
<1>1. channel \in Seq({"data", "note"}) /\ channel # <<>> /\ Len(channel) <= ChannelCap
  BY DEF Take, TypeOK
<1>2. channel' = Tail(channel)
  BY DEF Take
<1>3. Len(channel) >= 1
  BY <1>1
<1>4. channel' \in Seq({"data", "note"}) /\ Len(channel') = Len(channel) - 1
  BY <1>1, <1>2, <1>3
<1>5. owed \in 0..ChannelCap /\ owed' = IF owed > 0 THEN owed - 1 ELSE 0
  BY DEF Take, TypeOK
<1>6. QED
  BY <1>4, <1>5

\* Every variable keeps to its values, in every run of the specification.
THEOREM TypeCorrect == Spec => []TypeOK
<1>1. Init => TypeOK
  <2> SUFFICES ASSUME Init PROVE TypeOK
    OBVIOUS
  <2>1. channel \in Seq({"data", "note"}) /\ Len(channel) <= ChannelCap
    BY DEF Init
  <2>2. /\ pc \in [Conns -> ConnPc]
        /\ flag \in [Conns -> {"none", "clear", "set"}]
        /\ entry \in [Conns -> {"none", "fresh", "stale"}]
        /\ link \in [Conns -> {"good", "nopong", "dead"}]
        /\ late \in [Conns -> BOOLEAN]
    BY DEF Init, ConnPc
  <2>3. /\ handler \in {"recv", "write", "done"}
        /\ owed \in 0..ChannelCap
        /\ unflagged \subseteq Conns
        /\ main \in {"run", "stopping", "join", "flush", "exit"}
    BY DEF Init
  <2>4. /\ draining \in BOOLEAN /\ buffered \in BOOLEAN
        /\ shutdown \in BOOLEAN /\ notified \in BOOLEAN /\ joined \in BOOLEAN
    BY DEF Init
  <2>5. QED
    BY <2>1, <2>2, <2>3, <2>4 DEF TypeOK
<1>2. TypeOK /\ [Next]_vars => TypeOK'
  <2> SUFFICES ASSUME TypeOK, [Next]_vars PROVE TypeOK'
    OBVIOUS
  <2>1. CASE UNCHANGED vars
    BY <2>1 DEF TypeOK, vars, connVars, handlerVars, mainVars
  <2>2. ASSUME NEW c \in Conns, ConnStep(c) PROVE TypeOK'
    <3>1. CASE CheckShutdown(c)
      BY <2>2, <3>1 DEF CheckShutdown, TypeOK, ConnPc, Goto, handlerVars, mainVars
    <3>2. CASE Register(c)
      BY <2>2, <3>2 DEF Register, TypeOK, ConnPc, Goto, handlerVars, mainVars
    <3>3. CASE ConnectFails(c)
      BY <2>2, <3>3 DEF ConnectFails, TypeOK, ConnPc, Goto, Ended, handlerVars, mainVars
    <3>4. CASE ConnectOk(c)
      BY <2>2, <3>4 DEF ConnectOk, TypeOK, ConnPc, Goto, handlerVars, mainVars
    <3>5. CASE Retry(c)
      BY <2>2, <3>5 DEF Retry, TypeOK, ConnPc, Goto, handlerVars, mainVars
    <3>6. CASE Receive(c)
      BY <2>2, <3>6 DEF Receive, TypeOK, ConnPc, Goto, handlerVars, mainVars
    <3>7. CASE Pong(c)
      BY <2>2, <3>7 DEF Pong, TypeOK, ConnPc, handlerVars, mainVars
    <3>8. CASE FlagSeen(c)
      BY <2>2, <3>8 DEF FlagSeen, TypeOK, ConnPc, Goto, Leave, handlerVars, mainVars
    <3>9. CASE LinkEnds(c)
      BY <2>2, <3>9 DEF LinkEnds, TypeOK, ConnPc, Goto, Leave, handlerVars, mainVars
    <3>10. CASE LinkError(c)
      BY <2>2, <3>10 DEF LinkError, TypeOK, ConnPc, Goto, handlerVars, mainVars
    <3>11. CASE Degrade(c)
      BY <2>2, <3>11 DEF Degrade, TypeOK, ConnPc, handlerVars, mainVars
    <3>12. CASE PongOverdue(c)
      BY <2>2, <3>12 DEF PongOverdue, TypeOK, ConnPc, handlerVars, mainVars
    <3>13. CASE Heartbeat(c)
      BY <2>2, <3>13 DEF Heartbeat, TypeOK, ConnPc, handlerVars, mainVars
    <3>14. CASE Announce(c)
      BY <2>2, <3>14, SendTyped DEF Announce, TypeOK, ConnPc, Goto, handlerVars, mainVars
    <3>15. CASE SendData(c)
      BY <2>2, <3>15, SendTyped DEF SendData, TypeOK, ConnPc, Goto, handlerVars, mainVars
    <3>16. CASE Report(c)
      BY <2>2, <3>16, SendTyped DEF Report, TypeOK, ConnPc, Goto, Leave, handlerVars, mainVars
    <3>17. CASE Farewell(c)
      BY <2>2, <3>17, SendTyped DEF Farewell, TypeOK, ConnPc, Goto, Ended, handlerVars, mainVars
    <3>18. QED
      BY <2>2, <3>1, <3>2, <3>3, <3>4, <3>5, <3>6, <3>7, <3>8, <3>9, <3>10, <3>11, <3>12, <3>13, <3>14, <3>15, <3>16, <3>17 DEF ConnStep
  <2>3. CASE Take
    BY <2>3, TakeTyped DEF Take, TypeOK, connVars, mainVars
  <2>4. CASE Write
    BY <2>4 DEF Write, TypeOK, connVars, mainVars
  <2>5. CASE Notified
    BY <2>5 DEF Notified, TypeOK, connVars, mainVars
  <2>6. CASE Drained
    BY <2>6 DEF Drained, TypeOK, connVars, mainVars
  <2>7. CASE PeriodicFlush
    BY <2>7 DEF PeriodicFlush, TypeOK, connVars, handlerVars, mainVars
  <2>8. CASE Signal \/ Notify \/ Join \/ JoinTimesOut \/ FlushAll
    BY <2>8 DEF Signal, Notify, Join, JoinTimesOut, FlushAll, TypeOK,
                connVars, handlerVars
  <2>9. ASSUME NEW c \in Conns, SetFlag(c) PROVE TypeOK'
    BY <2>9 DEF SetFlag, TypeOK, handlerVars
  <2>10. QED
    BY <2>1, <2>2, <2>3, <2>4, <2>5, <2>6, <2>7, <2>8, <2>9
       DEF Next, HandlerStep, MainStep
<1>3. QED
  BY <1>1, <1>2, PTL DEF Spec

-----------------------------------------------------------------------------
(***************************************************************************)
(* The drain.  What was queued at the notification is at the head of the   *)
(* channel, so that much is still there to take; and only the handler,     *)
(* which ended, could put rows in a buffer again.                          *)
(***************************************************************************)
DrainInv ==
    /\ draining => owed <= Len(channel)
    /\ ~draining => owed = 0
    /\ handler = "done" => owed = 0
    /\ joined => handler = "done"
    /\ main = "exit" /\ joined => ~buffered

\* If the handler ended in time, whatever was queued when it was told to stop
\* has been handled, and every row of it is on disk when main returns.
THEOREM JoinedOnDiskAlways == Spec => []JoinedOnDisk
<1>1. Init => DrainInv
  BY DEF Init, DrainInv
<1>2. TypeOK /\ DrainInv /\ [Next]_vars => DrainInv'
  <2> SUFFICES ASSUME TypeOK, DrainInv, [Next]_vars PROVE DrainInv'
    OBVIOUS
  <2>1. CASE UNCHANGED vars
    BY <2>1 DEF DrainInv, vars, connVars, handlerVars, mainVars
  <2>2. ASSUME NEW c \in Conns, ConnStep(c), Running PROVE DrainInv'
    <3>1. UNCHANGED <<handlerVars, buffered, mainVars>>
      BY <2>2 DEF ConnStep, CheckShutdown, Register, ConnectFails, ConnectOk,
         Announce, Retry, Receive, SendData, Pong, FlagSeen, LinkEnds,
         LinkError, Report, Farewell, Degrade, PongOverdue, Heartbeat
    <3>2. channel' = channel \/ \E m \in {"data", "note"} : Send(m)
      BY <2>2 DEF ConnStep, CheckShutdown, Register, ConnectFails, ConnectOk,
         Announce, Retry, Receive, SendData, Pong, FlagSeen, LinkEnds,
         LinkError, Report, Farewell, Degrade, PongOverdue, Heartbeat
    <3>3. Len(channel') \in Nat /\ Len(channel) <= Len(channel')
      <4>1. CASE channel' = channel
        BY <4>1 DEF TypeOK
      <4>2. ASSUME NEW m \in {"data", "note"}, Send(m)
            PROVE  Len(channel') \in Nat /\ Len(channel) <= Len(channel')
        BY <4>2 DEF Send, TypeOK
      <4>3. QED
        BY <3>2, <4>1, <4>2
    <3>4. QED
      BY <3>1, <3>3 DEF DrainInv, TypeOK, handlerVars, mainVars
  <2>3. CASE Take
    <3>1. Len(channel') = Len(channel) - 1 /\ Len(channel) \in Nat
      BY <2>3, TakeTyped DEF TypeOK
    <3>2. QED
      BY <2>3, <3>1 DEF Take, DrainInv, TypeOK, mainVars
  <2>4. CASE Write /\ Running
    BY <2>4 DEF Write, DrainInv, mainVars, Running
  <2>5. CASE Notified
    BY <2>5 DEF Notified, DrainInv, TypeOK, mainVars
  <2>6. CASE Drained
    BY <2>6 DEF Drained, DrainInv, TypeOK, mainVars
  <2>7. CASE PeriodicFlush
    BY <2>7 DEF PeriodicFlush, DrainInv, handlerVars, mainVars
  <2>8. CASE Signal \/ Notify \/ Join \/ JoinTimesOut \/ FlushAll
    BY <2>8 DEF Signal, Notify, Join, JoinTimesOut, FlushAll, DrainInv, handlerVars
  <2>9. ASSUME NEW c \in Conns, SetFlag(c) PROVE DrainInv'
    BY <2>9 DEF SetFlag, DrainInv, handlerVars
  <2>10. QED
    BY <2>1, <2>2, <2>3, <2>4, <2>5, <2>6, <2>7, <2>8, <2>9
       DEF Next, HandlerStep, MainStep
<1>3. DrainInv => JoinedOnDisk
  BY DEF DrainInv, JoinedOnDisk
<1>4. QED
  BY <1>1, <1>2, <1>3, TypeCorrect, PTL DEF Spec

-----------------------------------------------------------------------------
(***************************************************************************)
(* The heartbeat.  An entry is in the map only while its connection is in  *)
(* the loop, so a stale one speaks of the connection whose flag is set.    *)
(***************************************************************************)
EntryInv(c) ==
    /\ entry[c] = "stale" => late[c]
    /\ entry[c] # "none" => pc[c] \in InLoop

PongInv ==
    /\ \A c \in Conns : EntryInv(c)
    /\ unflagged # {} => shutdown

\* The heartbeat monitor cuts a connection for its own overdue pongs, never
\* for those of the one it replaced.
THEOREM FreshNotCutAlways == Spec => FreshNotCut
<1>1. Init => PongInv
  BY DEF Init, PongInv, EntryInv
<1>2. TypeOK /\ PongInv /\ [Next]_vars => PongInv'
  <2> SUFFICES ASSUME TypeOK, PongInv, [Next]_vars PROVE PongInv'
    OBVIOUS
  <2>1. CASE UNCHANGED vars \/ HandlerStep
    BY <2>1 DEF PongInv, EntryInv, vars, connVars, mainVars, HandlerStep, Take,
                Write, Notified, Drained, PeriodicFlush
  <2>2. CASE Signal \/ Notify \/ Join \/ JoinTimesOut \/ FlushAll
    BY <2>2 DEF Signal, Notify, Join, JoinTimesOut, FlushAll, PongInv, EntryInv, connVars
  <2>3. ASSUME NEW c \in Conns, SetFlag(c) PROVE PongInv'
    BY <2>3 DEF SetFlag, PongInv, EntryInv
  <2>4. ASSUME NEW c \in Conns, ConnStep(c) PROVE PongInv'
    <3>1. unflagged' # {} => shutdown'
      BY <2>4 DEF PongInv, mainVars, ConnStep, CheckShutdown, Register,
         ConnectFails, ConnectOk, Announce, Retry, Receive, SendData, Pong,
         FlagSeen, LinkEnds, LinkError, Report, Farewell, Degrade, PongOverdue,
         Heartbeat
    <3>2. ASSUME NEW d \in Conns PROVE EntryInv(d)'
      <4>1. EntryInv(d) /\ EntryInv(c)
        BY DEF PongInv
      <4>2. CASE ConnectFails(c)
        BY <4>1, <4>2 DEF ConnectFails, EntryInv, InLoop, TypeOK, Goto, Ended
      <4>3. CASE Announce(c)
        BY <4>1, <4>3 DEF Announce, EntryInv, InLoop, TypeOK, Goto
      <4>4. CASE Retry(c)
        BY <4>1, <4>4 DEF Retry, EntryInv, InLoop, TypeOK, Goto
      <4>5. CASE Receive(c)
        BY <4>1, <4>5 DEF Receive, EntryInv, InLoop, TypeOK, Goto
      <4>6. CASE SendData(c)
        BY <4>1, <4>6 DEF SendData, EntryInv, InLoop, TypeOK, Goto
      <4>7. CASE LinkError(c)
        BY <4>1, <4>7 DEF LinkError, EntryInv, InLoop, TypeOK, Goto
      <4>8. CASE Degrade(c)
        BY <4>1, <4>8 DEF Degrade, EntryInv, InLoop, TypeOK, Goto
      <4>9. CASE Heartbeat(c)
        BY <4>1, <4>9 DEF Heartbeat, EntryInv, InLoop, TypeOK, Goto
      <4>10. CASE CheckShutdown(c)
        BY <4>1, <4>10 DEF CheckShutdown, EntryInv, InLoop, TypeOK, Goto
      <4>11. CASE Register(c)
        BY <4>1, <4>11 DEF Register, EntryInv, InLoop, TypeOK, Goto
      <4>12. CASE ConnectOk(c)
        BY <4>1, <4>12 DEF ConnectOk, EntryInv, InLoop, TypeOK, Goto
      <4>13. CASE Pong(c)
        BY <4>1, <4>13 DEF Pong, EntryInv, InLoop, TypeOK, Goto
      <4>14. CASE FlagSeen(c)
        BY <4>1, <4>14 DEF FlagSeen, EntryInv, InLoop, TypeOK, Goto, Leave
      <4>15. CASE LinkEnds(c)
        BY <4>1, <4>15 DEF LinkEnds, EntryInv, InLoop, TypeOK, Goto, Leave
      <4>16. CASE Report(c)
        BY <4>1, <4>16 DEF Report, EntryInv, InLoop, TypeOK, Goto, Leave
      <4>17. CASE Farewell(c)
        BY <4>1, <4>17 DEF Farewell, EntryInv, InLoop, TypeOK, Goto, Ended
      <4>18. CASE PongOverdue(c)
        BY <4>1, <4>18 DEF PongOverdue, EntryInv, InLoop, TypeOK, Goto
      <4>19. QED
        BY <2>4, <4>2, <4>3, <4>4, <4>5, <4>6, <4>7, <4>8, <4>9, <4>10, <4>11, <4>12, <4>13, <4>14, <4>15, <4>16, <4>17, <4>18 DEF ConnStep
    <3>3. QED
      BY <3>1, <3>2 DEF PongInv
  <2>5. QED
    BY <2>1, <2>2, <2>3, <2>4 DEF Next, MainStep
<1>3. TypeOK /\ PongInv /\ [Next]_vars =>
        [\A c \in Conns :
            flag[c] = "clear" /\ flag'[c] = "set" /\ ~shutdown => late[c]]_vars
  <2> SUFFICES ASSUME TypeOK, PongInv, Next, NEW d \in Conns,
                      flag[d] = "clear", flag'[d] = "set", ~shutdown
               PROVE  late[d]
    OBVIOUS
  <2>1. ASSUME NEW c \in Conns, SetFlag(c) PROVE FALSE
    BY <2>1 DEF SetFlag, PongInv
  <2>2. CASE HandlerStep \/ Signal \/ Notify \/ Join \/ JoinTimesOut \/ FlushAll
    BY <2>2 DEF HandlerStep, Take, Write, Notified, Drained, PeriodicFlush,
                Signal, Notify, Join, JoinTimesOut, FlushAll, connVars
  <2>3. ASSUME NEW c \in Conns, ConnStep(c) PROVE late[d]
    <3>1. CASE Heartbeat(c)
      BY <3>1 DEF Heartbeat, PongInv, EntryInv, TypeOK
    <3>2. CASE Register(c)
      BY <3>2 DEF Register, TypeOK
    <3>3. CASE Farewell(c)
      BY <3>3 DEF Farewell, TypeOK
    <3>4. CASE flag' = flag
      BY <3>4
    <3>5. QED
      BY <2>3, <3>1, <3>2, <3>3, <3>4 DEF ConnStep, CheckShutdown,
         ConnectFails, ConnectOk, Announce, Retry, Receive, SendData, Pong,
         FlagSeen, LinkEnds, LinkError, Report, Degrade, PongOverdue
  <2>4. QED
    BY <2>1, <2>2, <2>3 DEF Next, MainStep
<1>4. QED
  BY <1>1, <1>2, <1>3, TypeCorrect, PTL DEF Spec, FreshNotCut

=============================================================================
