------------------------------ MODULE Pipeline ------------------------------
(***************************************************************************)
(* The live path of tickstreamd (Daemon adds the recorder, the readers and *)
(* main): one goroutine per venue feed (dial, subscribe, read loop, ping   *)
(* loop, restart watcher, backoff), the bounded feed-to-engine channel     *)
(* with its non-blocking hand-off, the one-slot resync channel of each     *)
(* feed, and the single engine goroutine that applies events, invalidates  *)
(* books and publishes.                                                    *)
(*                                                                         *)
(* The content of a book is abstracted to what integrity is about: whether *)
(* the book is ready, and whether it is the product of an unbroken prefix  *)
(* of one session (its snapshot and every later book frame).  Book.tla     *)
(* and Engine.tla model the levels themselves.                             *)
(***************************************************************************)
EXTENDS Naturals, Sequences

CONSTANTS
    Venues,         \* the configured feeds
    Checksummed,    \* the venues whose frames carry a checksum (Kraken)
    ChanCap,        \* capacity of the feed-to-engine channel (4096 in the daemon)
    MaxFaults,      \* bound: drops, broken sessions, failed dials, bad frames
    Junky,          \* the venues of which a book frame may fail to decode
    MayShutDown     \* whether the process may be asked to stop

ASSUME VenuesAssumption == Checksummed \subseteq Venues /\ Junky \subseteq Venues
ASSUME ChanCapAssumption == ChanCap \in Nat \ {0}
ASSUME MaxFaultsAssumption == MaxFaults \in Nat
ASSUME FlagsAssumption == MayShutDown \in BOOLEAN

VARIABLES
    conn,       \* where each feed's RunForever / DialAndRun stands
    cancelled,  \* the session context is cancelled, the read loop has not returned
    watcher,    \* the restart watcher: of the current session, of an old one, none
    resync,     \* a token waits in the feed's one-slot resync channel
    snapSent,   \* the venue has sent this session's snapshot frame
    gap,        \* a book frame was lost and no snapshot was handed over since
    events,     \* the feed-to-engine channel
    ready,      \* Book.ready, per venue
    intact,     \* the book holds an unbroken prefix of one session
    published,  \* what the last published Snapshot says of each venue
    engine,     \* the single-writer goroutine: running or stopped
    ctxDone,    \* the daemon's context is cancelled
    faults      \* faults so far (bounded by MaxFaults)

feedVars   == <<conn, cancelled, watcher, snapSent>>
bookVars   == <<ready, intact, published>>
vars == <<feedVars, resync, gap, events, bookVars, engine, ctxDone, faults>>

\* crossed: a snapshot the venue sent crossed; clean: no book frame of the
\* event's session was lost before it.
Event == [venue : Venues, kind : {"snapshot", "update", "trade"},
          clean : BOOLEAN, crossed : BOOLEAN]

View == [ready : BOOLEAN, intact : BOOLEAN]

TypeOK ==
    /\ conn \in [Venues -> {"dialing", "connected", "backoff", "stopped"}]
    /\ cancelled \in [Venues -> BOOLEAN]
    /\ watcher \in [Venues -> {"none", "current", "old"}]
    /\ resync \in [Venues -> BOOLEAN]
    /\ snapSent \in [Venues -> BOOLEAN]
    /\ gap \in [Venues -> BOOLEAN]
    /\ events \in Seq(Event) /\ Len(events) <= ChanCap
    /\ ready \in [Venues -> BOOLEAN]
    /\ intact \in [Venues -> BOOLEAN]
    /\ published \in [Venues -> View]
    /\ engine \in {"running", "stopped"}
    /\ ctxDone \in BOOLEAN
    /\ faults \in 0..MaxFaults

Init ==
    /\ conn = [v \in Venues |-> "dialing"]
    /\ cancelled = [v \in Venues |-> FALSE]
    /\ watcher = [v \in Venues |-> "none"]
    /\ resync = [v \in Venues |-> FALSE]
    /\ snapSent = [v \in Venues |-> FALSE]
    /\ gap = [v \in Venues |-> FALSE]
    /\ events = <<>>
    /\ ready = [v \in Venues |-> FALSE]
    /\ intact = [v \in Venues |-> FALSE]
    /\ published = [v \in Venues |-> [ready |-> FALSE, intact |-> FALSE]]
    /\ engine = "running"
    /\ ctxDone = FALSE
    /\ faults = 0

Fault == faults < MaxFaults /\ faults' = faults + 1

-----------------------------------------------------------------------------
(* wsutil: sessions.                                                       *)

\* The dial or a subscribe write fails: RunForever logs and backs off.
DialFails(v) ==
    /\ conn[v] = "dialing" /\ ~ctxDone /\ Fault
    /\ conn' = [conn EXCEPT ![v] = "backoff"]
    /\ UNCHANGED <<cancelled, watcher, snapSent, resync, gap, events, bookVars,
                   engine, ctxDone>>

\* Dial and subscriptions succeed; the session context and its restart
\* watcher start.  Timing assumption: the watcher of the session that ended,
\* whose select has been ready since then, has run before the backoff (at
\* least a quarter of a second) is over.
Connect(v) ==
    /\ conn[v] = "dialing" /\ ~ctxDone
    /\ watcher[v] = "none"
    /\ conn' = [conn EXCEPT ![v] = "connected"]
    /\ watcher' = [watcher EXCEPT ![v] = "current"]
    /\ snapSent' = [snapSent EXCEPT ![v] = FALSE]
    /\ UNCHANGED <<cancelled, resync, gap, events, bookVars, engine, ctxDone, faults>>

\* The ping loop fails and cancels the session context.
PingFails(v) ==
    /\ conn[v] = "connected" /\ ~cancelled[v] /\ Fault
    /\ cancelled' = [cancelled EXCEPT ![v] = TRUE]
    /\ UNCHANGED <<conn, watcher, snapSent, resync, gap, events, bookVars, engine, ctxDone>>

\* Mutant: the token is taken but the session is left alone.
WatcherIgnoresToken(v) ==
    /\ watcher[v] # "none" /\ resync[v]
    /\ resync' = [resync EXCEPT ![v] = FALSE]
    /\ watcher' = [watcher EXCEPT ![v] = "none"]
    /\ UNCHANGED <<conn, cancelled, snapSent, gap, events, bookVars, engine, ctxDone, faults>>

\* The select of a restart watcher takes the token.  The watcher of the
\* current session cancels it; one that outlived its session consumes the
\* token and cancels a context that is already dead.
WatcherRestarts(v) ==
    /\ watcher[v] # "none" /\ resync[v]
    /\ resync' = [resync EXCEPT ![v] = FALSE]
    /\ cancelled' = [cancelled EXCEPT ![v] = @ \/ watcher[v] = "current"]
    /\ watcher' = [watcher EXCEPT ![v] = "none"]
    /\ UNCHANGED <<conn, snapSent, gap, events, bookVars, engine, ctxDone, faults>>

\* The select of a restart watcher sees its session context done.
WatcherExits(v) ==
    /\ \/ watcher[v] = "old"
       \/ watcher[v] = "current" /\ (cancelled[v] \/ ctxDone)
    /\ watcher' = [watcher EXCEPT ![v] = "none"]
    /\ UNCHANGED <<conn, cancelled, snapSent, resync, gap, events, bookVars,
                   engine, ctxDone, faults>>

\* DialAndRun returns: its deferred cancel ends the session context, and
\* RunForever enters the backoff wait.
LeaveSession(v) ==
    /\ conn' = [conn EXCEPT ![v] = "backoff"]
    /\ cancelled' = [cancelled EXCEPT ![v] = FALSE]
    /\ watcher' = [watcher EXCEPT ![v] = IF @ = "current" THEN "old" ELSE @]
    /\ UNCHANGED <<snapSent, resync, gap, events, bookVars, engine, ctxDone>>

\* The read loop sees the cancelled session context.
SessionCancelled(v) ==
    /\ conn[v] = "connected" /\ cancelled[v]
    /\ LeaveSession(v)
    /\ UNCHANGED faults

\* The connection breaks or the venue closes it.
ConnectionLost(v) ==
    /\ conn[v] = "connected" /\ Fault
    /\ LeaveSession(v)

\* The backoff wait is over.
Redial(v) ==
    /\ conn[v] = "backoff" /\ ~ctxDone
    /\ conn' = [conn EXCEPT ![v] = "dialing"]
    /\ UNCHANGED <<cancelled, watcher, snapSent, resync, gap, events, bookVars,
                   engine, ctxDone, faults>>

-----------------------------------------------------------------------------
(* The feeds' onMessage: decode, then the bounded hand-off.                *)

RequestResync(v) == resync' = [resync EXCEPT ![v] = TRUE]

\* Mutant: the hand-off does not look at the capacity.
SendUnbounded(ev) ==
    /\ events' = Append(events, ev)
    /\ UNCHANGED <<resync, faults>>

\* The select of onMessage: the send, or its default branch when the channel
\* is full (Drop).
Send(ev) ==
    /\ Len(events) < ChanCap
    /\ events' = Append(events, ev)
    /\ UNCHANGED <<resync, faults>>

\* Mutant: the dropped frame is only counted.
DropOnly(v) ==
    /\ Len(events) = ChanCap /\ Fault
    /\ UNCHANGED <<events, resync>>

\* A dropped frame asks for a resync.
Drop(v) ==
    /\ Len(events) = ChanCap /\ Fault
    /\ RequestResync(v)
    /\ UNCHANGED events

\* The session's first book frame, always its snapshot.
ReadSnapshot(v) ==
    /\ conn[v] = "connected" /\ ~snapSent[v]
    /\ snapSent' = [snapSent EXCEPT ![v] = TRUE]
    /\ \/ /\ Send([venue |-> v, kind |-> "snapshot", clean |-> TRUE, crossed |-> FALSE])
          /\ gap' = [gap EXCEPT ![v] = FALSE]
       \/ /\ Drop(v)
          /\ gap' = [gap EXCEPT ![v] = TRUE]
    /\ UNCHANGED <<conn, cancelled, watcher, bookVars, engine, ctxDone>>

\* A snapshot the venue sends crossed or locked.
ReadCrossedSnapshot(v) ==
    /\ conn[v] = "connected" /\ ~snapSent[v]
    /\ snapSent' = [snapSent EXCEPT ![v] = TRUE]
    /\ Len(events) < ChanCap /\ Fault
    /\ events' = Append(events, [venue |-> v, kind |-> "snapshot",
                                 clean |-> TRUE, crossed |-> TRUE])
    /\ gap' = [gap EXCEPT ![v] = FALSE]
    /\ UNCHANGED <<conn, cancelled, watcher, resync, bookVars, engine, ctxDone>>

ReadUpdate(v) ==
    /\ conn[v] = "connected" /\ snapSent[v]
    /\ \/ /\ Send([venue |-> v, kind |-> "update", clean |-> ~gap[v], crossed |-> FALSE])
          /\ UNCHANGED gap
       \/ /\ Drop(v)
          /\ gap' = [gap EXCEPT ![v] = TRUE]
    /\ UNCHANGED <<feedVars, bookVars, engine, ctxDone>>

\* A print: no book content is lost with it, but a dropped one asks for a
\* resync all the same.
ReadTrade(v) ==
    /\ conn[v] = "connected"
    /\ \/ Send([venue |-> v, kind |-> "trade", clean |-> TRUE, crossed |-> FALSE])
       \/ Drop(v)
    /\ UNCHANGED <<feedVars, gap, bookVars, engine, ctxDone>>

\* A book frame that does not decode: logged and skipped.
ReadJunk(v) ==
    /\ v \in Junky
    /\ conn[v] = "connected" /\ Fault
    /\ snapSent' = [snapSent EXCEPT ![v] = TRUE]
    /\ gap' = [gap EXCEPT ![v] = TRUE]
    /\ UNCHANGED <<conn, cancelled, watcher, resync, events, bookVars, engine, ctxDone>>

-----------------------------------------------------------------------------
(* The engine: Run takes one event, Apply applies it and publishes.        *)

\* Mutant: no thin-book guard.
BadThinChecksum(v, thin, match) == v \in Checksummed /\ ~match

\* verifyChecksum asks for a resync: thin sides skip the comparison.
BadChecksum(v, thin, match) == v \in Checksummed /\ ~thin /\ ~match

\* What the checksum comparison can give: a full intact book matches, the
\* venue's rule for thin books is not known, and a broken prefix may or may
\* not show in the top ten.
MatchOutcomes(sound, thin) == IF sound /\ ~thin THEN {TRUE} ELSE BOOLEAN

\* Mutant: the feed is not asked for a new session.
InvalidateOnly(v) ==
    /\ ready' = [ready EXCEPT ![v] = FALSE]
    /\ intact' = [intact EXCEPT ![v] = FALSE]
    /\ UNCHANGED resync

\* triggerResync: invalidate the book and ask the feed for a new session.
TriggerResync(v) ==
    /\ ready' = [ready EXCEPT ![v] = FALSE]
    /\ intact' = [intact EXCEPT ![v] = FALSE]
    /\ RequestResync(v)

\* Keep the book in the given state, without a resync.
KeepBook(v, sound) ==
    /\ ready' = [ready EXCEPT ![v] = TRUE]
    /\ intact' = [intact EXCEPT ![v] = sound]
    /\ UNCHANGED resync

\* publish: a fresh view of every venue's book as it now stands.
Publish ==
    published' = [v \in Venues |-> [ready |-> ready'[v], intact |-> intact'[v]]]

TakeEvent ==
    /\ engine = "running" /\ events # <<>>
    /\ events' = Tail(events)
    /\ UNCHANGED <<feedVars, gap, engine, ctxDone, faults>>

\* Trades return before any book is touched and before publish.
ApplyTrade ==
    /\ TakeEvent
    /\ Head(events).kind = "trade"
    /\ UNCHANGED <<resync, bookVars>>

ApplySnapshot ==
    /\ TakeEvent
    /\ Head(events).kind = "snapshot"
    /\ LET v == Head(events).venue IN
        \E thin \in BOOLEAN : \E match \in MatchOutcomes(TRUE, thin) :
            IF Head(events).crossed \/ BadChecksum(v, thin, match)
            THEN TriggerResync(v)
            ELSE KeepBook(v, TRUE)
    /\ Publish

\* Updates before a snapshot are ignored, but still publish.
IgnoreUpdate ==
    /\ TakeEvent
    /\ Head(events).kind = "update"
    /\ ~ready[Head(events).venue]
    /\ UNCHANGED <<resync, ready, intact>>
    /\ Publish

\* An update on a ready book.  Only a book that has missed a frame can end
\* crossed: the venue's own book is not.
ApplyUpdate ==
    /\ TakeEvent
    /\ Head(events).kind = "update"
    /\ ready[Head(events).venue]
    /\ LET v == Head(events).venue
           sound == intact[v] /\ Head(events).clean
       IN \E thin \in BOOLEAN : \E match \in MatchOutcomes(sound, thin) :
          \E crossed \in (IF sound THEN {FALSE} ELSE BOOLEAN) :
            IF crossed \/ BadChecksum(v, thin, match)
            THEN TriggerResync(v)
            ELSE KeepBook(v, sound)
    /\ Publish

Apply == ApplyTrade \/ ApplySnapshot \/ IgnoreUpdate \/ ApplyUpdate

-----------------------------------------------------------------------------
(* Shutdown: a signal cancels the context every goroutine runs under.      *)

Shutdown ==
    /\ MayShutDown /\ ~ctxDone
    /\ ctxDone' = TRUE
    /\ UNCHANGED <<feedVars, resync, gap, events, bookVars, engine, faults>>

\* Run's select takes ctx.Done; what is left in the channel stays there.
EngineStops ==
    /\ ctxDone /\ engine = "running"
    /\ engine' = "stopped"
    /\ UNCHANGED <<feedVars, resync, gap, events, bookVars, ctxDone, faults>>

\* Mutant: the backoff wait does not select on the context.
FeedStopsUnlessWaiting(v) ==
    /\ ctxDone /\ conn[v] \in {"dialing", "connected"}
    /\ conn' = [conn EXCEPT ![v] = "stopped"]
    /\ cancelled' = [cancelled EXCEPT ![v] = FALSE]
    /\ watcher' = [watcher EXCEPT ![v] = IF @ = "current" THEN "old" ELSE @]
    /\ UNCHANGED <<snapSent, resync, gap, events, bookVars, engine, ctxDone, faults>>

\* RunForever returns: the dial, the read or the backoff wait saw the context.
FeedStops(v) ==
    /\ ctxDone /\ conn[v] # "stopped"
    /\ conn' = [conn EXCEPT ![v] = "stopped"]
    /\ cancelled' = [cancelled EXCEPT ![v] = FALSE]
    /\ watcher' = [watcher EXCEPT ![v] = IF @ = "current" THEN "old" ELSE @]
    /\ UNCHANGED <<snapSent, resync, gap, events, bookVars, engine, ctxDone, faults>>

-----------------------------------------------------------------------------
Read(v) == ReadSnapshot(v) \/ ReadCrossedSnapshot(v) \/ ReadUpdate(v)
           \/ ReadTrade(v) \/ ReadJunk(v)

Session(v) == DialFails(v) \/ Connect(v) \/ PingFails(v) \/ WatcherRestarts(v)
              \/ WatcherExits(v) \/ SessionCancelled(v) \/ ConnectionLost(v)
              \/ Redial(v) \/ FeedStops(v)

Next == Apply \/ Shutdown \/ EngineStops \/ \E v \in Venues : Read(v) \/ Session(v)

\* Each goroutine keeps running; the venue accepts a dial and sends its
\* snapshot sooner or later; a full channel does not stay full for good.
Fairness ==
    /\ WF_vars(Apply)
    /\ WF_vars(EngineStops)
    /\ \A v \in Venues :
        /\ WF_vars(Connect(v)) /\ WF_vars(Redial(v))
        /\ WF_vars(WatcherRestarts(v)) /\ WF_vars(WatcherExits(v))
        /\ WF_vars(SessionCancelled(v)) /\ WF_vars(FeedStops(v))
        /\ SF_vars(ReadSnapshot(v))

Spec == Init /\ [][Next]_vars
FairSpec == Spec /\ Fairness

-----------------------------------------------------------------------------
(* Properties.                                                             *)

\* A fresh session's snapshot is certain to follow: a resync token waits, the
\* session is being torn down, or the session has not sent its snapshot yet.
FreshSessionAhead(v) ==
    resync[v] \/ cancelled[v] \/ conn[v] # "connected" \/ ~snapSent[v]

SnapshotQueued(v) ==
    \E i \in 1..Len(events) : events[i].venue = v /\ events[i].kind = "snapshot"

RepairAhead(v) == FreshSessionAhead(v) \/ SnapshotQueued(v)

\* A lost frame is never silently applied over: whenever a readable book has
\* missed a frame the hand-off dropped, a fresh snapshot is on its way, however
\* drops, restarts, broken sessions and the engine's backlog interleave.  (A
\* frame that does not decode is skipped without a resync: feed.go:59.)
SuspectBookIsRepaired ==
    \A v \in Venues \ Junky : ready[v] /\ ~intact[v] => RepairAhead(v)

\* A venue the engine has invalidated (or never seen) is never left dark: the
\* token, a new session or a queued snapshot will rebuild it.
DarkBookIsRepaired ==
    \A v \in Venues \ Junky : ~ready[v] => RepairAhead(v)

\* The strengthening that makes the two repairs inductive.
UncleanQueued(i, v) ==
    events[i].venue = v /\ events[i].kind = "update" /\ ~events[i].clean

SnapshotQueuedAfter(i, v) ==
    \E j \in i+1..Len(events) : events[j].venue = v /\ events[j].kind = "snapshot"

\* A watcher that outlived its session is gone before the next one connects.
WatcherInv == \A v \in Venues : watcher[v] = "old" => conn[v] # "connected"

\* While a gap is open a fresh session is ahead.
GapInv == \A v \in Venues \ Junky : gap[v] => FreshSessionAhead(v)

\* Behind an update that follows a gap the gap is still open, or a snapshot waits.
QueueInv ==
    \A v \in Venues : \A i \in 1..Len(events) :
        UncleanQueued(i, v) => gap[v] \/ SnapshotQueuedAfter(i, v)

\* The same of a book that has applied such an update.
SuspectInv ==
    \A v \in Venues : ready[v] /\ ~intact[v] => gap[v] \/ SnapshotQueued(v)

RepairInv == WatcherInv /\ GapInv /\ QueueInv /\ SuspectInv /\ DarkBookIsRepaired

\* No false alarm: a complete book is only invalidated by an event of its own
\* venue that follows a lost frame, or by a snapshot the venue sent crossed.
NoFalseAlarm ==
    [][\A v \in Venues : ready[v] /\ intact[v] /\ ~ready'[v] =>
            /\ Head(events).venue = v
            /\ Head(events).crossed \/ ~Head(events).clean]_vars

\* Once drops and broken sessions stop, every venue whose frames decode is
\* published as ready and with a complete book, and stays so: no token is lost,
\* no thin book causes a storm of resyncs, and nothing waits for ever.
Stabilises ==
    \/ \A v \in Venues \ Junky : <>[](published[v].ready /\ published[v].intact)
    \/ <>ctxDone

\* The resync procedure's first step: a venue whose session was dropped is
\* marked not-ready before the fresh snapshot rebuilds its book.
LostSessionDarkens ==
    \A v \in Venues : conn[v] = "backoff" ~> ~ready[v]
=============================================================================
