------------------------------- MODULE Replay -------------------------------
(***************************************************************************)
(* Kraken's tape replayed into a book that keeps fewer or more levels than *)
(* the recorded one did: cmd/tcastudy's engine keeps replayDepth levels,   *)
(* the daemon's as many as it was told.  Both verify every message against *)
(* the checksum that is on the tape with it, of the top the venue had; the *)
(* tape may lack messages that the feed lost.                              *)
(***************************************************************************)
EXTENDS TopChecksum

\* A replay is [depth, book, evicted]: evicted[ask] holds the prices of that side that
\* the book lost to truncation, a cross or a checksum since the last snapshot.
Unplayed(depth) == [depth |-> depth, book |-> NewBook, evicted |-> [ask \in BOOLEAN |-> {}]]

SideOf(b, ask) == IF ask THEN b.asks ELSE b.bids

Held(b, ask) == DOMAIN SideOf(b, ask).levels

Applied(b, m) ==
    IF m.kind = "snapshot" THEN ApplySnapshot(b, m.bids, m.asks)
    ELSE ApplyUpdate(b, m.bids, m.asks)

\* What is left of a book that m was applied to: a cross or a top that is not
\* the venue's invalidates it, and nobody asks for another snapshot.
Kept(b, m, depth) ==
    LET cut == Truncate(b, depth)
    IN IF IsCrossedOrLocked(cut) \/ ~verifyChecksum(cut, m) THEN Invalidate(cut) ELSE cut

\* A book that is not ready waits for a snapshot: its updates are dropped.
Dropped(r, m) == m.kind = "update" /\ ~r.book.ready

Play(r, m) ==
    LET full == Applied(r.book, m)
        kept == Kept(full, m, r.depth)
        before(ask) == IF m.kind = "snapshot" THEN {} ELSE r.evicted[ask]
    IN IF Dropped(r, m) THEN r
       ELSE [depth |-> r.depth, book |-> kept,
             evicted |-> [ask \in BOOLEAN |-> before(ask) \cup (Held(full, ask) \ Held(kept, ask))]]

-----------------------------------------------------------------------------
(* The tape's messages, applied to both books.                             *)

CONSTANTS
    LiveDepth,      \* levels the recorded engine keeps
    ReplayDepth,    \* levels the study's engine keeps (1000)
    Checksums,      \* tops that the venue may have had: [bids, asks], maps
                    \* from price to size, not always those of either book
    Messages        \* the venue's messages that may be on the tape

Message ==
    [kind : {"snapshot", "update"}, bids : Seq(Level), asks : Seq(Level), checksum : Checksums]

ASSUME ReplayAssumption ==
    LiveDepth \in Int /\ ReplayDepth \in Int /\ Messages \subseteq Message

VARIABLES live, deep    \* the book that was recorded, and the study's

ReplayInit == live = Unplayed(LiveDepth) /\ deep = Unplayed(ReplayDepth)

PlayNext(m) == live' = Play(live, m) /\ deep' = Play(deep, m)

ReplayNext == \E m \in Messages : PlayNext(m)

ReplaySpec == ReplayInit /\ [][ReplayNext]_<<live, deep>>

\* Whichever messages were lost, as long as the live book is ready and the study's has
\* lost no level (to truncation, a cross or a checksum) since its snapshot, the study's
\* is ready too and holds all of the live book's levels, size for size; what it holds
\* beyond them the live book evicted since the snapshot, and, once the live book has
\* full sides, none of it is among the levels the checksum covers: a ghost that comes
\* up there takes the study's book out of use (main.go:99-100, engine.go:130-151).
DeeperOnlyAddsGhosts ==
    live.book.ready /\ (\A ask \in BOOLEAN : deep.evicted[ask] = {}) =>
        /\ deep.book.ready
        /\ \A ask \in BOOLEAN :
            /\ \A p \in Held(live.book, ask) :
                   /\ p \in Held(deep.book, ask)
                   /\ SideOf(deep.book, ask).levels[p] = SideOf(live.book, ask).levels[p]
            /\ Held(deep.book, ask) \ Held(live.book, ask) \subseteq live.evicted[ask]
        /\ ~ThinBook(live.book) => BookChecksum(deep.book) = BookChecksum(live.book)
=============================================================================
