------------------------------- MODULE Daemon -------------------------------
(***************************************************************************)
(* tickstreamd as a process: the live path of Pipeline, whose engine       *)
(* offers every event it takes to the recorder before applying it, the     *)
(* recorder's own goroutine, the two readers of the published snapshot     *)
(* (dashboard server and status line), and main, which waits for a signal, *)
(* for the WaitGroup of all the others, and then for the recorder.         *)
(*                                                                         *)
(* Of the recorder there is how many events wait in its buffer and whether *)
(* it is closed; Capture models the writer itself.  What the readers show  *)
(* is left out.  A second signal is swallowed: nothing kills the process.  *)
(***************************************************************************)
EXTENDS Pipeline

CONSTANT QueueCap   \* the recorder's buffer

ASSUME QueueCapAssumption == QueueCap \in Nat \ {0}

VARIABLES
    queued,     \* events in the recorder's buffer
    recorder,   \* open; closing: no more is accepted; closed: its goroutine is done
    dashboard,  \* httpapi.Serve: listening, shut (Shutdown was called), returned
    statusLine, \* the status-line goroutine: ticking, returned
    main        \* where main stands

ownVars == <<queued, recorder, dashboard, statusLine, main>>
daemonVars == <<vars, ownVars>>

DaemonInit ==
    /\ Init
    /\ queued = 0 /\ recorder = "open"
    /\ dashboard = "listening" /\ statusLine = "ticking"
    /\ main = "waiting"

-----------------------------------------------------------------------------
(* The engine and the recorder.                                            *)

\* Offer: taken in, dropped when the buffer is full, ignored when it is closed.
Offer == queued' = IF recorder = "open" /\ queued < QueueCap THEN queued + 1 ELSE queued

\* Run's body: record the input, then apply it.
RecordAndApply == Apply /\ Offer /\ UNCHANGED <<recorder, dashboard, statusLine, main>>

\* The drain goroutine writes an event, or discards it after an I/O error.
Drain ==
    /\ recorder # "closed" /\ queued > 0
    /\ queued' = queued - 1
    /\ UNCHANGED <<vars, recorder, dashboard, statusLine, main>>

DrainReturns ==
    /\ recorder = "closing" /\ queued = 0
    /\ recorder' = "closed"
    /\ UNCHANGED <<vars, queued, dashboard, statusLine, main>>

-----------------------------------------------------------------------------
(* The readers.                                                            *)

\* The address cannot be listened on, or accepting fails: it is only logged.
DashboardFails ==
    /\ dashboard = "listening"
    /\ dashboard' = "returned"
    /\ UNCHANGED <<vars, queued, recorder, statusLine, main>>

\* Serve's own goroutine sees the context and calls Shutdown.
DashboardShuts ==
    /\ ctxDone /\ dashboard = "listening"
    /\ dashboard' = "shut"
    /\ UNCHANGED <<vars, queued, recorder, statusLine, main>>

\* ListenAndServe returns as soon as Shutdown was called.
DashboardReturns ==
    /\ dashboard = "shut"
    /\ dashboard' = "returned"
    /\ UNCHANGED <<vars, queued, recorder, statusLine, main>>

StatusLineReturns ==
    /\ ctxDone /\ statusLine = "ticking"
    /\ statusLine' = "returned"
    /\ UNCHANGED <<vars, queued, recorder, dashboard, main>>

-----------------------------------------------------------------------------
(* main.                                                                   *)

FeedsReturned == \A v \in Venues : conn[v] = "stopped"

SignalSeen ==
    /\ ctxDone /\ main = "waiting"
    /\ main' = "joining"
    /\ UNCHANGED <<vars, queued, recorder, dashboard, statusLine>>

\* Mutant: only the feeds are waited for.
FeedsJoined ==
    /\ main = "joining" /\ FeedsReturned
    /\ main' = "joined"
    /\ UNCHANGED <<vars, queued, recorder, dashboard, statusLine>>

\* wg.Wait: every feed, the engine and both readers have returned.
AllJoined ==
    /\ main = "joining" /\ FeedsReturned /\ engine = "stopped"
    /\ dashboard = "returned" /\ statusLine = "returned"
    /\ main' = "joined"
    /\ UNCHANGED <<vars, queued, recorder, dashboard, statusLine>>

\* Stats, which changes nothing, then Close up to its wait.
ClosesRecorder ==
    /\ main = "joined"
    /\ main' = "closing" /\ recorder' = "closing"
    /\ UNCHANGED <<vars, queued, dashboard, statusLine>>

Exits ==
    /\ main = "closing" /\ recorder = "closed"
    /\ main' = "exited"
    /\ UNCHANGED <<vars, queued, recorder, dashboard, statusLine>>

-----------------------------------------------------------------------------
Live == Shutdown \/ EngineStops \/ \E v \in Venues : Read(v) \/ Session(v)

Readers == DashboardFails \/ DashboardShuts \/ DashboardReturns \/ StatusLineReturns

Main == SignalSeen \/ AllJoined \/ ClosesRecorder \/ Exits

DaemonNext == RecordAndApply \/ (Live /\ UNCHANGED ownVars)
              \/ Drain \/ DrainReturns \/ Readers \/ Main

\* Every goroutine keeps running; the disk answers, be it with an error.
DaemonFairness ==
    /\ Fairness
    /\ WF_daemonVars(Drain) /\ WF_daemonVars(DrainReturns)
    /\ WF_daemonVars(DashboardShuts) /\ WF_daemonVars(DashboardReturns)
    /\ WF_daemonVars(StatusLineReturns)
    /\ WF_daemonVars(Main)

DaemonSpec == DaemonInit /\ [][DaemonNext]_daemonVars /\ DaemonFairness

-----------------------------------------------------------------------------
\* The recorder is closed only when nothing offers to it any more, and the process
\* is not gone before the buffer is on the tape: the tail of a run is not lost to
\* the order in which the goroutines see the signal (tickstreamd/main.go:173-180).
RecorderClosesLast ==
    /\ recorder # "open" => engine = "stopped"
    /\ main = "exited" => queued = 0

\* After the signal the process exits, whatever the channel, the sessions, the
\* recorder and the readers were doing, and whether or not the dashboard ever ran:
\* no goroutine main waits for can be left behind.
DaemonExits == ctxDone ~> main = "exited"
=============================================================================
