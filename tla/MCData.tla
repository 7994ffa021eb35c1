------------------------------- MODULE MCData -------------------------------
(***************************************************************************)
(* What becomes of data that come twice, out of order or not at all, in    *)
(* one run: what an attach makes of its buffer (BookAlgorithms), what a    *)
(* live book's levels are worth (BookDepth), and the trades a reconnect    *)
(* replays (TradeDedup).  The three share no state, so a behaviour is one  *)
(* of one of them, by the part drawn at the start; the other parts are at  *)
(* rest.                                                                   *)
(*                                                                         *)
(* Model values: five diffs of a stream whose ids skip between the second  *)
(* and the third, and duplicates of two of them with another event time.   *)
(***************************************************************************)
EXTENDS BookAlgorithms, BookDepth, TradeDedup

VARIABLE part

Message(U, u, pu, E) == [U |-> U, u |-> u, pu |-> pu, E |-> E]

MCMessages ==
    {Message(2, 3, 1, 1), Message(4, 4, 3, 2), Message(7, 8, 4, 3), Message(9, 9, 8, 4),
     Message(10, 11, 9, 5), Message(4, 4, 3, 1), Message(7, 8, 4, 4)}

BufferAtRest == buffered = <<>> /\ snapshotU = 0
DepthAtRest == market = <<>> /\ book = <<>> /\ stale = {} /\ lost = 0

MCInit ==
    \/ part = "attach" /\ BufferInit /\ DepthAtRest /\ DedupInit
    \/ part = "levels" /\ DepthInit /\ BufferAtRest /\ DedupInit
    \/ part = "trades" /\ DedupInit /\ BufferAtRest /\ DepthAtRest

MCNext ==
    /\ \/ part = "attach" /\ BufferNext /\ UNCHANGED <<depthVars, dedupVars>>
       \/ part = "levels" /\ DepthNext /\ UNCHANGED <<bufferVars, dedupVars>>
       \/ part = "trades" /\ DedupNext /\ UNCHANGED <<bufferVars, depthVars>>
    /\ UNCHANGED part

MCSpec == MCInit /\ [][MCNext]_<<part, bufferVars, depthVars, dedupVars>>

=============================================================================
