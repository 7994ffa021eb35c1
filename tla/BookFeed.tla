------------------------------ MODULE BookFeed ------------------------------
(***************************************************************************)
(* What a consumer of one symbol's live order book is promised: a feed     *)
(* that is off, or that was switched on with the exchange's own book and   *)
(* has since been overlaid with diffs in the order of their update ids.    *)
(* Diffs may be skipped (a reconnect is not repaired), but none is applied *)
(* twice or out of order, and the feed is never switched on with a book    *)
(* the exchange did not have.  OrderbookSync implements this.              *)
(***************************************************************************)
EXTENDS DepthStream

VARIABLES
    published,   \* how many diffs the exchange has emitted
    feed         \* the live book, NoBook while the feed is off

feedVars == <<published, feed>>

FeedInit == published = 0 /\ feed = NoBook

Publish ==
    /\ published < NumDiffs
    /\ published' = published + 1
    /\ UNCHANGED feed

SwitchOn ==
    /\ feed = NoBook
    /\ feed' \in Orderbook
    /\ Exact(feed')
    /\ \A n \in Diffs : FinalId[n] <= feed'.id => n <= published
    /\ UNCHANGED published

Advance ==
    /\ feed # NoBook
    /\ \E n \in 1..published :
          /\ feed.id < FinalId[n]
          /\ feed' = Overlay(feed, n)
    /\ UNCHANGED published

SwitchOff ==
    /\ feed # NoBook
    /\ feed' = NoBook
    /\ UNCHANGED published

FeedNext == Publish \/ SwitchOn \/ Advance \/ SwitchOff

FeedSpec == FeedInit /\ [][FeedNext]_feedVars

=============================================================================
