--------------------------- MODULE PipelineProofs ---------------------------
(* What the live path promises for every set of venues, every channel      *)
(* capacity and every number of faults, and what the process around it     *)
(* promises of its recorder.                                               *)
EXTENDS Daemon, TLAPS

\* What Append does to a sequence, position by position.
LEMMA AppendFacts ==
    ASSUME NEW S, NEW s \in Seq(S), NEW e \in S
    PROVE  /\ Append(s, e) \in Seq(S)
           /\ Len(Append(s, e)) = Len(s) + 1
           /\ Len(s) \in Nat
           /\ \A i \in 1..Len(s) : Append(s, e)[i] = s[i]
           /\ Append(s, e)[Len(s) + 1] = e
  OBVIOUS

\* What Head and Tail do to a sequence, position by position.
LEMMA TailFacts ==
    ASSUME NEW S, NEW s \in Seq(S), s # <<>>
    PROVE  /\ Tail(s) \in Seq(S)
           /\ Len(s) \in Nat \ {0}
           /\ Len(Tail(s)) = Len(s) - 1
           /\ Head(s) = s[1]
           /\ Head(s) \in S
           /\ \A i \in 1..Len(Tail(s)) : Tail(s)[i] = s[i + 1]
  OBVIOUS

-----------------------------------------------------------------------------
\* Type correctness of the live path: in particular the hand-off never puts
\* more than ChanCap events in the channel.
LEMMA InitTypeOK == Init => TypeOK
  <1> SUFFICES ASSUME Init PROVE TypeOK
    OBVIOUS
  <1>1. events \in Seq(Event) /\ Len(events) <= ChanCap
    BY ChanCapAssumption DEF Init
  <1>2. faults \in 0..MaxFaults
    BY MaxFaultsAssumption DEF Init
  <1> QED
    BY <1>1, <1>2 DEF Init, TypeOK, View

\* Every action keeps the types.
LEMMA NextTypeOK == TypeOK /\ [Next]_vars => TypeOK'
  <1> SUFFICES ASSUME TypeOK, [Next]_vars
               PROVE  TypeOK'
    OBVIOUS
  <1> USE VenuesAssumption, ChanCapAssumption, MaxFaultsAssumption
  <1>1. ASSUME TakeEvent PROVE Head(events) \in Event /\ events' \in Seq(Event)
                               /\ Len(events') <= ChanCap
    BY <1>1, TailFacts DEF TakeEvent, TypeOK
  <1>2. CASE ApplyTrade
    BY <1>1, <1>2 DEF ApplyTrade, TakeEvent, TypeOK, feedVars, bookVars
  <1>3. CASE ApplySnapshot
    BY <1>1, <1>3, ZenonT(30) DEF ApplySnapshot, TakeEvent, TypeOK, feedVars, Event,
       TriggerResync, KeepBook, RequestResync, Publish, View
  <1>4. CASE IgnoreUpdate
    BY <1>1, <1>4 DEF IgnoreUpdate, TakeEvent, TypeOK, feedVars, Publish, View
  <1>5. CASE ApplyUpdate
    <2> DEFINE v == Head(events).venue
               sound == intact[v] /\ Head(events).clean
    <2>1. v \in Venues /\ sound \in BOOLEAN
      BY <1>1, <1>5 DEF ApplyUpdate, Event, TypeOK
    <2>2. TriggerResync(v) \/ KeepBook(v, sound)
      BY <1>5 DEF ApplyUpdate
    <2>3. /\ ready' \in [Venues -> BOOLEAN]
          /\ intact' \in [Venues -> BOOLEAN]
          /\ resync' \in [Venues -> BOOLEAN]
      BY <2>1, <2>2 DEF TriggerResync, KeepBook, RequestResync, TypeOK
    <2>4. published' \in [Venues -> View]
      BY <2>3, <1>5 DEF ApplyUpdate, Publish, View
    <2> QED
      BY <1>1, <1>5, <2>3, <2>4 DEF ApplyUpdate, TakeEvent, TypeOK, feedVars
  <1>6. CASE Shutdown
    BY <1>6 DEF Shutdown, TypeOK, feedVars, bookVars
  <1>7. CASE EngineStops
    BY <1>7 DEF EngineStops, TypeOK, feedVars, bookVars
  <1>8. ASSUME NEW v \in Venues, Session(v) PROVE TypeOK'
    <2> USE DEF TypeOK, bookVars
    <2>1. CASE DialFails(v)
      BY <2>1 DEF DialFails, Fault
    <2>2. CASE Connect(v)
      BY <2>2 DEF Connect
    <2>3. CASE PingFails(v)
      BY <2>3 DEF PingFails, Fault
    <2>4. CASE WatcherRestarts(v)
      BY <2>4 DEF WatcherRestarts
    <2>5. CASE WatcherExits(v)
      BY <2>5 DEF WatcherExits
    <2>6. CASE SessionCancelled(v)
      BY <2>6 DEF SessionCancelled, LeaveSession
    <2>7. CASE ConnectionLost(v)
      BY <2>7 DEF ConnectionLost, LeaveSession, Fault
    <2>8. CASE Redial(v)
      BY <2>8 DEF Redial
    <2>9. CASE FeedStops(v)
      BY <2>9 DEF FeedStops
    <2> QED
      BY <1>8, <2>1, <2>2, <2>3, <2>4, <2>5, <2>6, <2>7, <2>8, <2>9 DEF Session
  <1>9. ASSUME NEW v \in Venues, Read(v) PROVE TypeOK'
    <2>1. ASSUME NEW ev \in Event, Send(ev)
          PROVE  /\ events' \in Seq(Event) /\ Len(events') <= ChanCap
                 /\ UNCHANGED <<resync, faults>>
      BY <2>1, AppendFacts DEF TypeOK, Send
    <2>2. ASSUME Drop(v)
          PROVE  /\ resync' \in [Venues -> BOOLEAN]
                 /\ faults' \in 0..MaxFaults
                 /\ UNCHANGED events
      BY <2>2 DEF Drop, Fault, RequestResync, TypeOK
    <2>3. ASSUME NEW k \in {"snapshot", "update", "trade"}, NEW c \in BOOLEAN, NEW x \in BOOLEAN
          PROVE  [venue |-> v, kind |-> k, clean |-> c, crossed |-> x] \in Event
      BY DEF Event
    <2>4. /\ [venue |-> v, kind |-> "snapshot", clean |-> TRUE, crossed |-> FALSE] \in Event
          /\ [venue |-> v, kind |-> "snapshot", clean |-> TRUE, crossed |-> TRUE] \in Event
          /\ [venue |-> v, kind |-> "update", clean |-> ~gap[v], crossed |-> FALSE] \in Event
          /\ [venue |-> v, kind |-> "trade", clean |-> TRUE, crossed |-> FALSE] \in Event
      BY <2>3 DEF TypeOK
    <2>5. CASE ReadSnapshot(v)
      BY <2>1, <2>2, <2>4, <2>5 DEF ReadSnapshot, TypeOK, bookVars
    <2>6. CASE ReadCrossedSnapshot(v)
      <3>1. events' \in Seq(Event) /\ Len(events') <= ChanCap
        BY <2>4, <2>6, AppendFacts DEF ReadCrossedSnapshot, TypeOK
      <3> QED
        BY <3>1, <2>6 DEF ReadCrossedSnapshot, Fault, TypeOK, bookVars
    <2>7. CASE ReadUpdate(v)
      BY <2>1, <2>2, <2>4, <2>7 DEF ReadUpdate, TypeOK, feedVars, bookVars
    <2>8. CASE ReadTrade(v)
      BY <2>1, <2>2, <2>4, <2>8 DEF ReadTrade, TypeOK, feedVars, bookVars
    <2>9. CASE ReadJunk(v)
      BY <2>9 DEF ReadJunk, Fault, TypeOK, bookVars
    <2> QED
      BY <1>9, <2>5, <2>6, <2>7, <2>8, <2>9 DEF Read
  <1>10. CASE UNCHANGED vars
    BY <1>10 DEF vars, feedVars, bookVars, TypeOK
  <1> QED
    BY <1>2, <1>3, <1>4, <1>5, <1>6, <1>7, <1>8, <1>9, <1>10 DEF Next, Apply

\* Every variable keeps its type, and the channel its bound, in every behaviour.
THEOREM TypeCorrect == Spec => []TypeOK
  BY InitTypeOK, NextTypeOK, PTL DEF Spec

-----------------------------------------------------------------------------
\* Where a step leaves the channel, the gaps and the books alone, the repair
\* invariant only depends on a fresh session staying ahead.
LEMMA SessionKeepsRepair ==
    ASSUME TypeOK, RepairInv, WatcherInv',
           UNCHANGED <<events, gap, ready, intact>>,
           \A v \in Venues : FreshSessionAhead(v) => FreshSessionAhead(v)'
    PROVE  RepairInv'
  <1>1. \A v \in Venues : SnapshotQueued(v)' = SnapshotQueued(v)
    BY DEF SnapshotQueued
  <1>2. GapInv'
    BY DEF RepairInv, GapInv
  <1>3. QueueInv'
    BY DEF RepairInv, QueueInv, UncleanQueued, SnapshotQueuedAfter
  <1>4. SuspectInv'
    BY <1>1 DEF RepairInv, SuspectInv
  <1>5. DarkBookIsRepaired'
    BY <1>1 DEF RepairInv, DarkBookIsRepaired, RepairAhead
  <1> QED
    BY <1>2, <1>3, <1>4, <1>5 DEF RepairInv

\* Each step of a session keeps a fresh session ahead: in particular the
\* watcher trades the token for a cancelled session.
LEMMA SessionRepair ==
    ASSUME TypeOK, RepairInv, NEW u \in Venues, Session(u)
    PROVE  RepairInv'
  <1> USE DEF TypeOK, FreshSessionAhead, WatcherInv
  <1>1. WatcherInv
    BY DEF RepairInv
  <1>2. UNCHANGED <<events, gap, ready, intact>>
    BY DEF Session, DialFails, Connect, PingFails, WatcherRestarts, WatcherExits,
       SessionCancelled, ConnectionLost, LeaveSession, Redial, FeedStops, bookVars
  <1>3. WatcherInv' /\ \A v \in Venues : FreshSessionAhead(v) => FreshSessionAhead(v)'
    <2>1. CASE DialFails(u)
      BY <1>1, <2>1 DEF DialFails
    <2>2. CASE Connect(u)
      BY <1>1, <2>2 DEF Connect
    <2>3. CASE PingFails(u)
      BY <1>1, <2>3 DEF PingFails
    <2>4. CASE WatcherRestarts(u)
      BY <1>1, <2>4 DEF WatcherRestarts
    <2>5. CASE WatcherExits(u)
      BY <1>1, <2>5 DEF WatcherExits
    <2>6. CASE SessionCancelled(u)
      BY <1>1, <2>6 DEF SessionCancelled, LeaveSession
    <2>7. CASE ConnectionLost(u)
      BY <1>1, <2>7 DEF ConnectionLost, LeaveSession
    <2>8. CASE Redial(u)
      BY <1>1, <2>8 DEF Redial
    <2>9. CASE FeedStops(u)
      BY <1>1, <2>9 DEF FeedStops
    <2> QED
      BY <2>1, <2>2, <2>3, <2>4, <2>5, <2>6, <2>7, <2>8, <2>9 DEF Session
  <1> QED
    BY <1>2, <1>3, SessionKeepsRepair

-----------------------------------------------------------------------------
\* A hand-off that succeeds: what is queued stays queued, behind it the event.
LEMMA SendKeepsQueue ==
    ASSUME TypeOK, NEW ev \in Event, events' = Append(events, ev),
           NEW v \in Venues
    PROVE  /\ SnapshotQueued(v) => SnapshotQueued(v)'
           /\ ev.venue = v /\ ev.kind = "snapshot" => SnapshotQueued(v)'
           /\ \A i \in 1..Len(events) :
                 /\ UncleanQueued(i, v)' = UncleanQueued(i, v)
                 /\ SnapshotQueuedAfter(i, v) => SnapshotQueuedAfter(i, v)'
                 /\ ev.venue = v /\ ev.kind = "snapshot" => SnapshotQueuedAfter(i, v)'
  <1>1. /\ Len(events') = Len(events) + 1
        /\ Len(events) \in Nat
        /\ \A i \in 1..Len(events) : events'[i] = events[i]
        /\ events'[Len(events) + 1] = ev
    BY AppendFacts DEF TypeOK
  <1>2. SnapshotQueued(v) => SnapshotQueued(v)'
    BY <1>1 DEF SnapshotQueued
  <1>3. ev.venue = v /\ ev.kind = "snapshot" => SnapshotQueued(v)'
    BY <1>1 DEF SnapshotQueued
  <1>4. ASSUME NEW i \in 1..Len(events)
        PROVE  /\ UncleanQueued(i, v)' = UncleanQueued(i, v)
               /\ SnapshotQueuedAfter(i, v) => SnapshotQueuedAfter(i, v)'
               /\ ev.venue = v /\ ev.kind = "snapshot" => SnapshotQueuedAfter(i, v)'
    <2>1. UncleanQueued(i, v)' = UncleanQueued(i, v)
      BY <1>1 DEF UncleanQueued
    <2>2. SnapshotQueuedAfter(i, v) => SnapshotQueuedAfter(i, v)'
      BY <1>1 DEF SnapshotQueuedAfter
    <2>3. ev.venue = v /\ ev.kind = "snapshot" => SnapshotQueuedAfter(i, v)'
      BY <1>1 DEF SnapshotQueuedAfter
    <2> QED
      BY <2>1, <2>2, <2>3
  <1> QED
    BY <1>2, <1>3, <1>4

\* Taking an event from the channel removes its venue's snapshot only if the
\* event is one, and an update after a gap only with that gap still covered.
LEMMA TakeKeepsQueue ==
    ASSUME TypeOK, QueueInv, TakeEvent
    PROVE  /\ QueueInv'
           /\ \A v \in Venues :
                 /\ SnapshotQueued(v) =>
                       \/ SnapshotQueued(v)'
                       \/ Head(events).venue = v /\ Head(events).kind = "snapshot"
                 /\ Head(events).venue = v /\ Head(events).kind = "update" /\ ~Head(events).clean
                       => gap[v] \/ SnapshotQueued(v)'
  <1>1. /\ Len(events) \in Nat \ {0}
        /\ Len(events') = Len(events) - 1
        /\ Head(events) = events[1]
        /\ \A i \in 1..Len(events') : events'[i] = events[i + 1]
    BY TailFacts DEF TakeEvent, TypeOK
  <1>2. \A j \in 2..Len(events) : j - 1 \in 1..Len(events') /\ events'[j - 1] = events[j]
    BY <1>1
  <1>3. gap' = gap
    BY DEF TakeEvent
  <1>4. QueueInv'
    <2> SUFFICES ASSUME NEW v \in Venues, NEW i \in 1..Len(events'), UncleanQueued(i, v)'
                 PROVE  gap'[v] \/ SnapshotQueuedAfter(i, v)'
      BY DEF QueueInv
    <2>1. i + 1 \in 1..Len(events) /\ UncleanQueued(i + 1, v)
      BY <1>1 DEF UncleanQueued
    <2>2. gap[v] \/ SnapshotQueuedAfter(i + 1, v)
      BY <2>1 DEF QueueInv
    <2>3. ASSUME SnapshotQueuedAfter(i + 1, v) PROVE SnapshotQueuedAfter(i, v)'
      <3>1. PICK j \in i+1+1..Len(events) : events[j].venue = v /\ events[j].kind = "snapshot"
        BY <2>3 DEF SnapshotQueuedAfter
      <3>2. j - 1 \in i+1..Len(events') /\ events'[j - 1] = events[j]
        BY <1>1, <1>2
      <3> QED
        BY <3>1, <3>2 DEF SnapshotQueuedAfter
    <2> QED
      BY <1>3, <2>2, <2>3
  <1>5. ASSUME NEW v \in Venues, SnapshotQueued(v)
        PROVE  SnapshotQueued(v)' \/ (Head(events).venue = v /\ Head(events).kind = "snapshot")
    <2>1. PICK j \in 1..Len(events) : events[j].venue = v /\ events[j].kind = "snapshot"
      BY <1>5 DEF SnapshotQueued
    <2>2. CASE j = 1
      BY <1>1, <2>1, <2>2
    <2>3. CASE j # 1
      <3>1. j - 1 \in 1..Len(events') /\ events'[j - 1] = events[j]
        BY <1>1, <1>2, <2>3
      <3> QED
        BY <2>1, <3>1 DEF SnapshotQueued
    <2> QED
      BY <2>2, <2>3
  <1>6. ASSUME NEW v \in Venues, Head(events).venue = v, Head(events).kind = "update",
               ~Head(events).clean
        PROVE  gap[v] \/ SnapshotQueued(v)'
    <2>1. 1 \in 1..Len(events) /\ UncleanQueued(1, v)
      BY <1>1, <1>6 DEF UncleanQueued
    <2>2. gap[v] \/ SnapshotQueuedAfter(1, v)
      BY <2>1 DEF QueueInv
    <2>3. ASSUME SnapshotQueuedAfter(1, v) PROVE SnapshotQueued(v)'
      <3>1. PICK j \in 2..Len(events) : events[j].venue = v /\ events[j].kind = "snapshot"
        BY <2>3 DEF SnapshotQueuedAfter
      <3>2. j - 1 \in 1..Len(events') /\ events'[j - 1] = events[j]
        BY <1>2
      <3> QED
        BY <3>1, <3>2 DEF SnapshotQueued
    <2> QED
      BY <2>2, <2>3
  <1> QED
    BY <1>4, <1>5, <1>6

-----------------------------------------------------------------------------
\* A read of the feed: handed over it is queued behind what was queued, and a
\* lost book frame opens a gap together with the token that closes it.
LEMMA ReadRepair ==
    ASSUME TypeOK, RepairInv, NEW u \in Venues, Read(u)
    PROVE  RepairInv'
  <1> USE DEF TypeOK
  <1>1. UNCHANGED <<ready, intact, conn, watcher, cancelled>>
    BY DEF Read, ReadSnapshot, ReadCrossedSnapshot, ReadUpdate, ReadTrade, ReadJunk,
       bookVars, feedVars
  <1>2. WatcherInv'
    BY <1>1 DEF RepairInv, WatcherInv
  <1>3. ASSUME NEW ev \in Event, ev.venue = u, events' = Append(events, ev), resync' = resync,
               \/ ev.kind = "snapshot" /\ gap' = [gap EXCEPT ![u] = FALSE]
                  /\ snapSent' = [snapSent EXCEPT ![u] = TRUE]
               \/ /\ ev.kind # "snapshot" /\ UNCHANGED <<gap, snapSent>>
                  /\ ev.kind = "update" => ev.clean = ~gap[u]
        PROVE  RepairInv'
    <2>1. GapInv'
      BY <1>1, <1>3 DEF RepairInv, GapInv, FreshSessionAhead
    <2>2. QueueInv'
      <3> SUFFICES ASSUME NEW v \in Venues, NEW i \in 1..Len(events'), UncleanQueued(i, v)'
                   PROVE  gap'[v] \/ SnapshotQueuedAfter(i, v)'
        BY DEF QueueInv
      <3>1. /\ Len(events) \in Nat /\ Len(events') = Len(events) + 1
            /\ events'[Len(events) + 1] = ev
        BY <1>3, AppendFacts
      <3>2. CASE i \in 1..Len(events)
        <4>1. /\ UncleanQueued(i, v)' = UncleanQueued(i, v)
              /\ SnapshotQueuedAfter(i, v) => SnapshotQueuedAfter(i, v)'
              /\ ev.venue = v /\ ev.kind = "snapshot" => SnapshotQueuedAfter(i, v)'
          BY <1>3, <3>2, SendKeepsQueue
        <4>2. gap[v] \/ SnapshotQueuedAfter(i, v)
          BY <3>2, <4>1 DEF RepairInv, QueueInv
        <4> QED
          BY <1>3, <4>1, <4>2
      <3>3. CASE i = Len(events) + 1
        BY <1>3, <3>1, <3>3 DEF UncleanQueued
      <3> QED
        BY <3>1, <3>2, <3>3
    <2>3. \A v \in Venues : /\ SnapshotQueued(v) => SnapshotQueued(v)'
                            /\ ev.venue = v /\ ev.kind = "snapshot" => SnapshotQueued(v)'
      BY <1>3, SendKeepsQueue
    <2>4. SuspectInv'
      BY <1>1, <1>3, <2>3 DEF RepairInv, SuspectInv
    <2>5. DarkBookIsRepaired'
      BY <1>1, <1>3, <2>3 DEF RepairInv, DarkBookIsRepaired, RepairAhead, FreshSessionAhead
    <2> QED
      BY <1>2, <2>1, <2>2, <2>4, <2>5 DEF RepairInv
  <1>4. ASSUME UNCHANGED events, gap' \in [Venues -> BOOLEAN], \A v \in Venues : gap[v] => gap'[v],
               \A v \in Venues \ Junky : /\ gap'[v] => FreshSessionAhead(v)'
                                         /\ FreshSessionAhead(v) => FreshSessionAhead(v)'
        PROVE  RepairInv'
    <2>1. \A v \in Venues : SnapshotQueued(v)' = SnapshotQueued(v)
      BY <1>4 DEF SnapshotQueued
    <2>2. GapInv'
      BY <1>4 DEF GapInv
    <2>3. QueueInv'
      BY <1>4 DEF RepairInv, QueueInv, UncleanQueued, SnapshotQueuedAfter
    <2>4. SuspectInv'
      BY <1>1, <1>4, <2>1 DEF RepairInv, SuspectInv
    <2>5. DarkBookIsRepaired'
      BY <1>1, <1>4, <2>1 DEF RepairInv, DarkBookIsRepaired, RepairAhead
    <2> QED
      BY <1>2, <2>2, <2>3, <2>4, <2>5 DEF RepairInv
  <1>5. ASSUME Drop(u), UNCHANGED events,
               gap' = gap \/ gap' = [gap EXCEPT ![u] = TRUE],
               UNCHANGED <<conn, cancelled>>,
               snapSent' = snapSent \/ snapSent' = [snapSent EXCEPT ![u] = TRUE]
        PROVE  RepairInv'
    <2>1. \A v \in Venues \ Junky : /\ gap'[v] => FreshSessionAhead(v)'
                                    /\ FreshSessionAhead(v) => FreshSessionAhead(v)'
      BY <1>5 DEF Drop, RequestResync, RepairInv, GapInv, FreshSessionAhead
    <2>2. gap' \in [Venues -> BOOLEAN] /\ \A v \in Venues : gap[v] => gap'[v]
      BY <1>5
    <2> QED
      BY <1>4, <1>5, <2>1, <2>2
  <1>6. CASE ReadSnapshot(u)
    <2>1. [venue |-> u, kind |-> "snapshot", clean |-> TRUE, crossed |-> FALSE] \in Event
      BY DEF Event
    <2> QED
      BY <1>1, <1>3, <1>5, <1>6, <2>1 DEF ReadSnapshot, Send, Drop
  <1>7. CASE ReadCrossedSnapshot(u)
    <2>1. [venue |-> u, kind |-> "snapshot", clean |-> TRUE, crossed |-> TRUE] \in Event
      BY DEF Event
    <2> QED
      BY <1>3, <1>7, <2>1 DEF ReadCrossedSnapshot
  <1>8. CASE ReadUpdate(u)
    <2>1. [venue |-> u, kind |-> "update", clean |-> ~gap[u], crossed |-> FALSE] \in Event
      BY DEF Event
    <2> QED
      BY <1>1, <1>3, <1>5, <1>8, <2>1 DEF ReadUpdate, Send, Drop, feedVars
  <1>9. CASE ReadTrade(u)
    <2>1. [venue |-> u, kind |-> "trade", clean |-> TRUE, crossed |-> FALSE] \in Event
      BY DEF Event
    <2> QED
      BY <1>1, <1>3, <1>5, <1>9, <2>1 DEF ReadTrade, Send, Drop, feedVars
  <1>10. CASE ReadJunk(u)
    <2>1. u \in Junky /\ \A v \in Venues \ {u} : gap'[v] = gap[v] /\ snapSent'[v] = snapSent[v]
      BY <1>10 DEF ReadJunk
    <2>2. \A v \in Venues \ Junky : /\ gap'[v] => FreshSessionAhead(v)'
                                    /\ FreshSessionAhead(v) => FreshSessionAhead(v)'
      BY <1>1, <1>10, <2>1 DEF ReadJunk, RepairInv, GapInv, FreshSessionAhead
    <2>3. /\ UNCHANGED events
          /\ gap' \in [Venues -> BOOLEAN] /\ \A v \in Venues : gap[v] => gap'[v]
      BY <1>10 DEF ReadJunk
    <2> QED
      BY <1>4, <2>2, <2>3
  <1> QED
    BY <1>6, <1>7, <1>8, <1>9, <1>10 DEF Read

\* The engine's step: it invalidates a book only together with the token, and
\* a book that becomes suspect has a gap open or a snapshot queued behind.
LEMMA ApplyRepair ==
    ASSUME TypeOK, RepairInv, Apply
    PROVE  RepairInv'
  <1>1. TakeEvent /\ UNCHANGED <<feedVars, gap>>
    BY DEF Apply, ApplyTrade, ApplySnapshot, IgnoreUpdate, ApplyUpdate, TakeEvent
  <1>2. Head(events).venue \in Venues /\ Head(events) \in Event
    <2>1. events \in Seq(Event) /\ events # <<>>
      BY <1>1 DEF TakeEvent, TypeOK
    <2>2. Head(events) \in Event
      BY <2>1, TailFacts
    <2> QED
      BY <2>2 DEF Event
  <1>u. PICK u \in Venues : u = Head(events).venue
    BY <1>2
  <1>3. WatcherInv'
    BY <1>1 DEF RepairInv, WatcherInv, feedVars
  <1>4. QueueInv' /\ \A v \in Venues :
            /\ SnapshotQueued(v) => SnapshotQueued(v)' \/ (u = v /\ Head(events).kind = "snapshot")
            /\ u = v /\ Head(events).kind = "update" /\ ~Head(events).clean
                  => gap[v] \/ SnapshotQueued(v)'
    BY <1>1, <1>u, TakeKeepsQueue DEF RepairInv
  <1>5. ASSUME \A v \in Venues : resync[v] => resync'[v]
        PROVE  /\ \A v \in Venues : FreshSessionAhead(v) => FreshSessionAhead(v)'
               /\ GapInv'
    BY <1>1, <1>5 DEF RepairInv, GapInv, FreshSessionAhead, feedVars
  <1>6. ASSUME UNCHANGED <<resync, ready, intact>>, Head(events).kind # "snapshot"
        PROVE  RepairInv'
    <2>1. SuspectInv'
      BY <1>1, <1>4, <1>6 DEF RepairInv, SuspectInv
    <2>2. DarkBookIsRepaired'
      BY <1>4, <1>5, <1>6 DEF RepairInv, DarkBookIsRepaired, RepairAhead
    <2> QED
      BY <1>3, <1>4, <1>5, <1>6, <2>1, <2>2 DEF RepairInv
  <1>7. ASSUME TriggerResync(u)
        PROVE  RepairInv'
    <2>1. \A v \in Venues : resync[v] => resync'[v]
      BY <1>7 DEF TriggerResync, RequestResync, TypeOK
    <2>2. SuspectInv'
      BY <1>1, <1>2, <1>4, <1>7 DEF RepairInv, SuspectInv, TriggerResync, TypeOK
    <2>3. FreshSessionAhead(u)'
      BY <1>2, <1>7 DEF TriggerResync, RequestResync, FreshSessionAhead, TypeOK
    <2>4. DarkBookIsRepaired'
      BY <1>2, <1>4, <1>5, <1>7, <2>1, <2>3
      DEF RepairInv, DarkBookIsRepaired, RepairAhead, TriggerResync, TypeOK
    <2> QED
      BY <1>3, <1>4, <1>5, <2>1, <2>2, <2>4 DEF RepairInv
  <1>8. ASSUME NEW sound \in BOOLEAN, KeepBook(u, sound),
               ~sound => gap[u] \/ SnapshotQueued(u)'
        PROVE  RepairInv'
    <2>1. SuspectInv'
      BY <1>1, <1>2, <1>4, <1>8 DEF RepairInv, SuspectInv, KeepBook, TypeOK
    <2>2. DarkBookIsRepaired'
      BY <1>2, <1>4, <1>5, <1>8
      DEF RepairInv, DarkBookIsRepaired, RepairAhead, KeepBook, TypeOK
    <2> QED
      BY <1>3, <1>4, <1>5, <1>8, <2>1, <2>2 DEF RepairInv, KeepBook
  <1>9. CASE ApplyTrade
    BY <1>6, <1>9 DEF ApplyTrade, bookVars
  <1>10. CASE ApplySnapshot
    BY <1>u, <1>7, <1>8, <1>10 DEF ApplySnapshot
  <1>11. CASE IgnoreUpdate
    BY <1>6, <1>11 DEF IgnoreUpdate
  <1>12. CASE ApplyUpdate
    <2> DEFINE sound == intact[u] /\ Head(events).clean
    <2>1. TriggerResync(u) \/ KeepBook(u, sound)
      BY <1>u, <1>12 DEF ApplyUpdate
    <2>2. sound \in BOOLEAN
      BY <1>2 DEF TypeOK, Event
    <2>3. Head(events).kind = "update" /\ ready[u]
      BY <1>u, <1>12 DEF ApplyUpdate
    <2>4. ~sound => gap[u] \/ SnapshotQueued(u)'
      <3>1. CASE ~Head(events).clean
        BY <1>2, <1>4, <2>3, <3>1
      <3>2. CASE ~intact[u]
        BY <1>2, <1>4, <2>3, <3>2 DEF RepairInv, SuspectInv
      <3> QED
        BY <3>1, <3>2
    <2> QED
      BY <1>7, <1>8, <2>1, <2>2, <2>4
  <1> QED
    BY <1>9, <1>10, <1>11, <1>12 DEF Apply

-----------------------------------------------------------------------------
\* At the start no gap is open and every feed is about to dial.
LEMMA InitRepair == Init => RepairInv
  BY DEF Init, RepairInv, WatcherInv, GapInv, QueueInv, SuspectInv, DarkBookIsRepaired,
     RepairAhead, FreshSessionAhead

\* The repair invariant is inductive.
LEMMA NextRepair == TypeOK /\ RepairInv /\ [Next]_vars => RepairInv'
  <1> SUFFICES ASSUME TypeOK, RepairInv, [Next]_vars
               PROVE  RepairInv'
    OBVIOUS
  <1>1. CASE Apply
    BY <1>1, ApplyRepair
  <1>2. ASSUME NEW v \in Venues, Read(v) \/ Session(v) PROVE RepairInv'
    BY <1>2, ReadRepair, SessionRepair
  <1>3. CASE Shutdown \/ EngineStops \/ UNCHANGED vars
    <2>1. UNCHANGED <<feedVars, resync, gap, events, bookVars>>
      BY <1>3 DEF Shutdown, EngineStops, vars
    <2>2. WatcherInv'
      BY <2>1 DEF RepairInv, WatcherInv, feedVars
    <2>3. \A v \in Venues : FreshSessionAhead(v) => FreshSessionAhead(v)'
      BY <2>1 DEF FreshSessionAhead, feedVars
    <2> QED
      BY <2>1, <2>2, <2>3, SessionKeepsRepair DEF bookVars
  <1> QED
    BY <1>1, <1>2, <1>3 DEF Next

\* The repair invariant holds in every behaviour: while a gap is open, a fresh
\* session is ahead, and no update behind a gap is applied without one.
THEOREM RepairInvariant == Spec => []RepairInv
  BY InitRepair, NextRepair, InitTypeOK, NextTypeOK, PTL DEF Spec

\* Whenever a readable book has missed a dropped frame, a fresh snapshot of its
\* venue is on its way: no interleaving of the hand-off, the restart watcher,
\* broken sessions and the engine's backlog loses the resync.
THEOREM SuspectBookIsAlwaysRepaired == Spec => []SuspectBookIsRepaired
  <1>1. RepairInv => SuspectBookIsRepaired
    BY DEF RepairInv, GapInv, SuspectInv, SuspectBookIsRepaired, RepairAhead
  <1> QED
    BY <1>1, RepairInvariant, PTL

\* A venue without a ready book always has one coming.
THEOREM DarkBookIsAlwaysRepaired == Spec => []DarkBookIsRepaired
  <1>1. RepairInv => DarkBookIsRepaired
    BY DEF RepairInv
  <1> QED
    BY <1>1, RepairInvariant, PTL

-----------------------------------------------------------------------------
\* Invalidating and keeping a book concern one venue.
LEMMA TouchesOneVenue ==
  ASSUME TypeOK, NEW v \in Venues, NEW sound, NEW w \in Venues, ready[w], ~ready'[w],
         TriggerResync(v) \/ KeepBook(v, sound)
  PROVE  w = v /\ TriggerResync(v)
  BY DEF TypeOK, TriggerResync, KeepBook

\* The step of NoFalseAlarm: a comparison of a complete book with its checksum
\* matches or is skipped, so that only a crossed snapshot or a book that missed
\* a frame is invalidated.
LEMMA StepNoFalseAlarm ==
  ASSUME TypeOK, [Next]_vars, NEW w \in Venues, ready[w], intact[w], ~ready'[w]
  PROVE  Head(events).venue = w /\ (Head(events).crossed \/ ~Head(events).clean)
  <1> DEFINE v == Head(events).venue
  <1>1. CASE Apply
    <2>1. events # <<>> /\ Head(events) \in Event
      BY <1>1, TailFacts DEF TypeOK, Apply, ApplyTrade, ApplySnapshot, IgnoreUpdate, ApplyUpdate,
         TakeEvent
    <2>2. v \in Venues
      BY <2>1 DEF Event
    <2>3. CASE ApplyTrade \/ IgnoreUpdate
      BY <2>3 DEF ApplyTrade, IgnoreUpdate, bookVars
    <2>4. CASE ApplySnapshot
      <3>0. PICK thin \in BOOLEAN : \E match \in MatchOutcomes(TRUE, thin) :
              IF Head(events).crossed \/ BadChecksum(v, thin, match)
              THEN TriggerResync(v) ELSE KeepBook(v, TRUE)
        BY <2>4 DEF ApplySnapshot
      <3>1. PICK match \in MatchOutcomes(TRUE, thin) :
              IF Head(events).crossed \/ BadChecksum(v, thin, match)
              THEN TriggerResync(v) ELSE KeepBook(v, TRUE)
        BY <3>0
      <3>2. ~BadChecksum(v, thin, match)
        BY <3>1 DEF MatchOutcomes, BadChecksum
      <3>3. w = v
        BY <2>2, <3>1, TouchesOneVenue
      <3>4. Head(events).crossed
        BY <2>2, <3>1, <3>2, <3>3 DEF KeepBook, TypeOK
      <3> QED
        BY <3>3, <3>4
    <2>5. CASE ApplyUpdate
      <3> DEFINE sound == intact[v] /\ Head(events).clean
      <3>0. PICK thin \in BOOLEAN : \E match \in MatchOutcomes(sound, thin) :
              \E crossed \in (IF sound THEN {FALSE} ELSE BOOLEAN) :
                IF crossed \/ BadChecksum(v, thin, match)
                THEN TriggerResync(v) ELSE KeepBook(v, sound)
        BY <2>5 DEF ApplyUpdate
      <3> HIDE DEF sound
      <3>1. PICK match \in MatchOutcomes(sound, thin),
                 crossed \in (IF sound THEN {FALSE} ELSE BOOLEAN) :
              IF crossed \/ BadChecksum(v, thin, match)
              THEN TriggerResync(v) ELSE KeepBook(v, sound)
        BY <3>0
      <3>2. w = v
        BY <2>2, <3>1, TouchesOneVenue
      <3>3. ASSUME sound PROVE FALSE
        <4>1. ~crossed /\ ~BadChecksum(v, thin, match)
          BY <3>1, <3>3 DEF MatchOutcomes, BadChecksum
        <4> QED
          BY <2>2, <3>1, <3>2, <4>1 DEF KeepBook, TypeOK
      <3> QED
        BY <3>2, <3>3 DEF sound
    <2> QED
      BY <1>1, <2>3, <2>4, <2>5 DEF Apply
  <1>2. ASSUME NEW u \in Venues, Read(u) \/ Session(u) PROVE FALSE
    BY <1>2 DEF Read, Session, ReadSnapshot, ReadCrossedSnapshot, ReadUpdate, ReadTrade, ReadJunk,
       DialFails, Connect, PingFails, WatcherRestarts, WatcherExits, SessionCancelled,
       ConnectionLost, LeaveSession, Redial, FeedStops, bookVars
  <1>3. CASE Shutdown \/ EngineStops \/ UNCHANGED vars
    BY <1>3 DEF Shutdown, EngineStops, vars, bookVars
  <1> QED
    BY <1>1, <1>2, <1>3 DEF Next

\* A complete book is invalidated only by an event of its own venue that follows
\* a lost frame or is a snapshot the venue sent crossed: neither a thin book nor
\* the other venue's trouble costs a resync.
THEOREM NoBookIsInvalidatedForNothing == Spec => NoFalseAlarm
  <1>1. TypeOK /\ [Next]_vars =>
          [\A v \in Venues : ready[v] /\ intact[v] /\ ~ready'[v] =>
              /\ Head(events).venue = v
              /\ Head(events).crossed \/ ~Head(events).clean]_vars
    BY StepNoFalseAlarm
  <1> QED
    BY <1>1, TypeCorrect, PTL DEF Spec, NoFalseAlarm

-----------------------------------------------------------------------------
(* The process.  Of the live path it matters only that a stopped engine     *)
(* stays stopped.                                                           *)

\* Where main stands fixes what the recorder and the engine may still do.
DaemonInv ==
    /\ queued \in Nat
    /\ main \in {"waiting", "joining", "joined", "closing", "exited"}
    /\ recorder \in {"open", "closing", "closed"}
    /\ main \in {"waiting", "joining", "joined"} => recorder = "open"
    /\ main \in {"joined", "closing", "exited"} => engine = "stopped"
    /\ recorder = "closed" => queued = 0
    /\ main = "exited" => recorder = "closed"

\* The engine is stopped for good, and without it nothing is applied.
LEMMA EngineStaysStopped ==
  ASSUME engine = "stopped"
  PROVE  /\ ~Apply
         /\ Live => engine' = "stopped"
  <1>1. ~Apply
    BY DEF Apply, ApplyTrade, ApplySnapshot, IgnoreUpdate, ApplyUpdate, TakeEvent
  <1>2. ASSUME NEW v \in Venues, Read(v) PROVE engine' = engine
    BY <1>2 DEF Read, ReadSnapshot, ReadCrossedSnapshot, ReadUpdate, ReadTrade, ReadJunk
  <1>3. ASSUME NEW v \in Venues, Session(v) PROVE engine' = engine
    BY <1>3 DEF Session, DialFails, Connect, PingFails, WatcherRestarts, WatcherExits,
       SessionCancelled, ConnectionLost, LeaveSession, Redial, FeedStops
  <1>4. Shutdown \/ EngineStops => engine' = "stopped"
    BY DEF Shutdown, EngineStops
  <1> QED
    BY <1>1, <1>2, <1>3, <1>4 DEF Live

LEMMA InitDaemonInv == DaemonInit => DaemonInv
  BY DEF DaemonInit, DaemonInv

\* The invariant is inductive: an event is offered only while the engine runs,
\* and main leaves the WaitGroup only when it does not.
LEMMA NextDaemonInv == DaemonInv /\ [DaemonNext]_daemonVars => DaemonInv'
  <1> SUFFICES ASSUME DaemonInv, [DaemonNext]_daemonVars
               PROVE  DaemonInv'
    OBVIOUS
  <1> USE DEF DaemonInv
  <1>1. CASE RecordAndApply
    <2>1. engine # "stopped"
      BY <1>1, EngineStaysStopped DEF RecordAndApply
    <2>2. main \in {"waiting", "joining"}
      BY <2>1
    <2>3. recorder = "open" /\ queued' \in Nat
      BY <1>1, <2>2, QueueCapAssumption DEF RecordAndApply, Offer
    <2> QED
      BY <1>1, <2>2, <2>3 DEF RecordAndApply
  <1>2. CASE Live /\ UNCHANGED ownVars
    BY <1>2, EngineStaysStopped DEF ownVars
  <1>3. CASE Drain \/ DrainReturns
    BY <1>3 DEF Drain, DrainReturns, vars
  <1>4. CASE Readers
    BY <1>4 DEF Readers, DashboardFails, DashboardShuts, DashboardReturns, StatusLineReturns, vars
  <1>5. CASE Main
    BY <1>5 DEF Main, SignalSeen, AllJoined, ClosesRecorder, Exits, vars
  <1>6. CASE UNCHANGED daemonVars
    BY <1>6 DEF daemonVars, ownVars, vars
  <1> QED
    BY <1>1, <1>2, <1>3, <1>4, <1>5, <1>6 DEF DaemonNext

\* The daemon closes its recorder only after the single writer has stopped, and
\* exits only when the recorder's buffer is empty, so that no event is lost to
\* the order in which the goroutines see the signal.
THEOREM TailIsNotLost == DaemonSpec => []RecorderClosesLast
  <1>1. DaemonInv => RecorderClosesLast
    BY DEF DaemonInv, RecorderClosesLast
  <1> QED
    BY <1>1, InitDaemonInv, NextDaemonInv, PTL DEF DaemonSpec
=============================================================================
