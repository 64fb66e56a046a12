------------------------------ MODULE Capture ------------------------------
(***************************************************************************)
(* internal/capture's Writer: goroutines that Offer events, the bounded    *)
(* drainCh, the count of pending drops, the drain goroutine that writes    *)
(* the tape, Close, and a kill of the process at any moment.               *)
(***************************************************************************)
EXTENDS Tape

CONSTANTS
    Offerers,       \* goroutines that call Offer (the daemon has one)
    BufSize,        \* capacity of drainCh (65536)
    MaxEvents,      \* bound: events offered
    CloseOrders,    \* values ordered may have
    Kills           \* subset of {"anytime", "rotating"}: when a kill may strike

ASSUME OfferersAssumption == IsFiniteSet(Offerers)
ASSUME BufSizeAssumption == BufSize \in Nat \ {0}
ASSUME BoundsAssumption == MaxEvents \in Nat
ASSUME OrderAssumption == CloseOrders \subseteq BOOLEAN

VARIABLES
    ordered,    \* the caller closes after the last Offer returned, as the daemon does
    offerPc,    \* idle, checked (closed was false), dropping (the send would block),
                \* done (makes no more calls), panicked
    offered,    \* Offers that passed the closed check and chose a select branch
    closed,     \* Writer.closed
    chClosed,   \* drainCh is closed
    drainCh,    \* Writer.drainCh, the numbers of the events in it
    dropCnt,    \* Writer.dropCnt
    inHand,     \* the event the drain goroutine has taken and not written, or 0
    drainPc,    \* select, got, done
    closePc,    \* running, reported, closing, waiting, returned
    stats,      \* what Stats returned to the daemon before it closed
    tape,       \* the files and their error
    killed      \* no, anytime or rotating: the process was killed, and how

vars == <<ordered, offerPc, offered, closed, chClosed, drainCh, dropCnt, inHand, drainPc,
          closePc, stats, tape, killed>>

NoStats == [written |-> 0, dropped |-> 0, files |-> 0]

Init ==
    /\ ordered \in CloseOrders
    /\ offerPc = [o \in Offerers |-> "idle"]
    /\ offered = 0
    /\ closed = FALSE /\ chClosed = FALSE
    /\ drainCh = <<>>
    /\ dropCnt = 0
    /\ inHand = 0
    /\ drainPc = "select"
    /\ closePc = "running"
    /\ stats = NoStats
    /\ tape = NewTape
    /\ killed = "no"

\* The process runs: not killed and no goroutine has panicked.
Alive == killed = "no" /\ \A o \in Offerers : offerPc[o] # "panicked"

-----------------------------------------------------------------------------
(* Offer.                                                                  *)

\* closed.Load: return at once, or go on to the select.
OfferCheck(o) ==
    /\ Alive /\ offerPc[o] = "idle" /\ ~closed
    /\ offered < MaxEvents
    /\ offerPc' = [offerPc EXCEPT ![o] = "checked"]
    /\ UNCHANGED <<ordered, offered, closed, chClosed, drainCh, dropCnt, inHand, drainPc,
                   closePc, stats, tape, killed>>

\* The select's send.
OfferSend(o) ==
    /\ Alive /\ offerPc[o] = "checked"
    /\ ~chClosed /\ Len(drainCh) < BufSize
    /\ offered' = offered + 1
    /\ drainCh' = Append(drainCh, offered')
    /\ offerPc' = [offerPc EXCEPT ![o] = "idle"]
    /\ UNCHANGED <<ordered, closed, chClosed, dropCnt, inHand, drainPc, closePc, stats, tape,
                   killed>>

\* The select's default branch is chosen; the count follows in a step of its own.
OfferFull(o) ==
    /\ Alive /\ offerPc[o] = "checked"
    /\ ~chClosed /\ Len(drainCh) = BufSize
    /\ offered' = offered + 1
    /\ offerPc' = [offerPc EXCEPT ![o] = "dropping"]
    /\ UNCHANGED <<ordered, closed, chClosed, drainCh, dropCnt, inHand, drainPc, closePc,
                   stats, tape, killed>>

\* Mutant: the drop is not counted.
OfferForgets(o) ==
    /\ Alive /\ offerPc[o] = "dropping"
    /\ offerPc' = [offerPc EXCEPT ![o] = "idle"]
    /\ UNCHANGED <<ordered, offered, closed, chClosed, drainCh, dropCnt, inHand, drainPc,
                   closePc, stats, tape, killed>>

OfferCounts(o) ==
    /\ Alive /\ offerPc[o] = "dropping"
    /\ dropCnt' = dropCnt + 1
    /\ offerPc' = [offerPc EXCEPT ![o] = "idle"]
    /\ UNCHANGED <<ordered, offered, closed, chClosed, drainCh, inHand, drainPc, closePc,
                   stats, tape, killed>>

\* A send on a closed channel panics, default branch or not.
OfferPanics(o) ==
    /\ Alive /\ offerPc[o] = "checked" /\ chClosed
    /\ offerPc' = [offerPc EXCEPT ![o] = "panicked"]
    /\ UNCHANGED <<ordered, offered, closed, chClosed, drainCh, dropCnt, inHand, drainPc,
                   closePc, stats, tape, killed>>

\* The goroutine makes no more calls (the engine's context is done).
OffererStops(o) ==
    /\ Alive /\ offerPc[o] = "idle"
    /\ offerPc' = [offerPc EXCEPT ![o] = "done"]
    /\ UNCHANGED <<ordered, offered, closed, chClosed, drainCh, dropCnt, inHand, drainPc,
                   closePc, stats, tape, killed>>

-----------------------------------------------------------------------------
(* Stats and Close.                                                        *)

\* Stats: records written, drops pending, files.
Stats == [written |-> Len(Replayed(tape.files)), dropped |-> dropCnt,
          files |-> Len(tape.files)]

\* Mutant: the daemon asks for the figures while the engine still offers.
ReadStatsEarly ==
    /\ Alive /\ closePc = "running" /\ ordered
    /\ stats' = Stats
    /\ closePc' = "reported"
    /\ UNCHANGED <<ordered, offerPc, offered, closed, chClosed, drainCh, dropCnt, inHand, drainPc,
                   tape, killed>>

\* The daemon asks for the figures it will print, then closes.
ReadStats ==
    /\ Alive /\ closePc = "running"
    /\ ordered /\ \A o \in Offerers : offerPc[o] = "done"
    /\ stats' = Stats
    /\ closePc' = "reported"
    /\ UNCHANGED <<ordered, offerPc, offered, closed, chClosed, drainCh, dropCnt, inHand, drainPc,
                   tape, killed>>

\* Mutant: Close does not wait for the offerers.
CloseSwapsEarly ==
    /\ Alive /\ closePc \in {"running", "reported"}
    /\ closed' = TRUE
    /\ closePc' = "closing"
    /\ UNCHANGED <<ordered, offerPc, offered, chClosed, drainCh, dropCnt, inHand, drainPc,
                   stats, tape, killed>>

CloseSwaps ==
    /\ Alive /\ closePc = (IF ordered THEN "reported" ELSE "running")
    /\ ordered => \A o \in Offerers : offerPc[o] = "done"
    /\ closed' = TRUE
    /\ closePc' = "closing"
    /\ UNCHANGED <<ordered, offerPc, offered, chClosed, drainCh, dropCnt, inHand, drainPc,
                   stats, tape, killed>>

CloseChannel ==
    /\ Alive /\ closePc = "closing"
    /\ chClosed' = TRUE
    /\ closePc' = "waiting"
    /\ UNCHANGED <<ordered, offerPc, offered, closed, drainCh, dropCnt, inHand, drainPc,
                   stats, tape, killed>>

CloseReturns ==
    /\ Alive /\ closePc = "waiting" /\ drainPc = "done"
    /\ closePc' = "returned"
    /\ UNCHANGED <<ordered, offerPc, offered, closed, chClosed, drainCh, dropCnt, inHand,
                   drainPc, stats, tape, killed>>

-----------------------------------------------------------------------------
(* The drain goroutine.                                                    *)

DrainTakes ==
    /\ Alive /\ drainPc = "select" /\ drainCh # <<>>
    /\ inHand' = Head(drainCh)
    /\ drainCh' = Tail(drainCh)
    /\ drainPc' = "got"
    /\ UNCHANGED <<ordered, offerPc, offered, closed, chClosed, dropCnt, closePc, stats, tape,
                   killed>>

\* Mutant: the count is loaded, not swapped out.
DrainWritesLoads ==
    /\ Alive /\ drainPc = "got"
    /\ tape' \in WriteEvent(tape, dropCnt, inHand)
    /\ inHand' = 0
    /\ drainPc' = "select"
    /\ UNCHANGED <<ordered, offerPc, offered, closed, chClosed, drainCh, dropCnt, closePc, stats,
                   killed>>

\* writeEvent: swap the pending drops out, then write.
DrainWrites ==
    /\ Alive /\ drainPc = "got"
    /\ tape' \in WriteEvent(tape, dropCnt, inHand)
    /\ dropCnt' = 0
    /\ inHand' = 0
    /\ drainPc' = "select"
    /\ UNCHANGED <<ordered, offerPc, offered, closed, chClosed, drainCh, closePc, stats,
                   killed>>

\* The five second ticker.
DrainFlushes ==
    /\ Alive /\ drainPc = "select"
    /\ tape' \in Flush(tape)
    /\ UNCHANGED <<ordered, offerPc, offered, closed, chClosed, drainCh, dropCnt, inHand,
                   drainPc, closePc, stats, killed>>

\* Mutant: the final gap is forgotten.
DrainClosesAtOnce ==
    /\ Alive /\ drainPc = "select" /\ chClosed /\ drainCh = <<>>
    /\ tape' \in CloseCurrent(tape)
    /\ drainPc' = "done"
    /\ UNCHANGED <<ordered, offerPc, offered, closed, chClosed, drainCh, dropCnt, inHand,
                   closePc, stats, killed>>

\* Mutant: the drain goroutine leaves only over a clean tape.
DrainFinishesClean ==
    /\ Alive /\ drainPc = "select" /\ chClosed /\ drainCh = <<>> /\ ~tape.err
    /\ \E t \in WriteFinalGap(tape, dropCnt) : tape' \in CloseCurrent(t)
    /\ dropCnt' = 0
    /\ drainPc' = "done"
    /\ UNCHANGED <<ordered, offerPc, offered, closed, chClosed, drainCh, inHand, closePc,
                   stats, killed>>

\* The channel is closed and empty: the final gap, then the last file is closed.
DrainFinishes ==
    /\ Alive /\ drainPc = "select" /\ chClosed /\ drainCh = <<>>
    /\ \E t \in WriteFinalGap(tape, dropCnt) : tape' \in CloseCurrent(t)
    /\ dropCnt' = 0
    /\ drainPc' = "done"
    /\ UNCHANGED <<ordered, offerPc, offered, closed, chClosed, drainCh, inHand, closePc,
                   stats, killed>>

-----------------------------------------------------------------------------
\* The process dies: the open file is cut, or, in a rotation, just finished.
Kill ==
    /\ Alive /\ "anytime" \in Kills
    /\ killed' = "anytime"
    /\ \E files \in AfterKill(tape.files) \cup
                     (IF drainPc = "got" /\ tape.open /\ ~tape.err
                      THEN {[tape.files EXCEPT ![Len(tape.files)] = Finished(@)]} ELSE {}) :
           tape' = [tape EXCEPT !.files = files]
    /\ UNCHANGED <<ordered, offerPc, offered, closed, chClosed, drainCh, dropCnt, inHand,
                   drainPc, closePc, stats>>

\* The process dies between a rotation's os.Create and the header: the file
\* after the finished one has no byte.
KillRotating ==
    /\ Alive /\ "rotating" \in Kills
    /\ drainPc = "got" /\ tape.open /\ ~tape.err /\ Len(tape.files) < MaxFiles
    /\ killed' = "rotating"
    /\ LET rotated == [tape.files EXCEPT ![Len(tape.files)] = Finished(@)]
       IN tape' = [tape EXCEPT !.files = Append(rotated, EmptyFile)]
    /\ UNCHANGED <<ordered, offerPc, offered, closed, chClosed, drainCh, dropCnt, inHand,
                   drainPc, closePc, stats>>

Offer(o) == OfferCheck(o) \/ OfferSend(o) \/ OfferFull(o) \/ OfferCounts(o)
            \/ OfferPanics(o) \/ OffererStops(o)
Drain == DrainTakes \/ DrainWrites \/ DrainFlushes \/ DrainFinishes
Close == ReadStats \/ CloseSwaps \/ CloseChannel \/ CloseReturns

Next == (\E o \in Offerers : Offer(o)) \/ Drain \/ Close \/ Kill \/ KillRotating

Spec == Init /\ [][Next]_vars

\* The drain goroutine and the closing goroutine are scheduled; nothing is
\* asked of the offerers or of the ticker.
FairSpec == Spec /\ WF_vars(DrainTakes) /\ WF_vars(DrainWrites) /\ WF_vars(DrainFinishes)
                 /\ WF_vars(CloseChannel) /\ WF_vars(CloseReturns)

-----------------------------------------------------------------------------
\* Drops chosen and not yet counted.
Uncounted == Cardinality({o \in Offerers : offerPc[o] = "dropping"})

\* Until an I/O error, every event that was offered is an event or part of a
\* gap on the tape, or on its way to it: in the channel, in the drain
\* goroutine's hand, or pending as a drop.
NothingUnaccounted ==
    ~tape.err => offered = tape.evs + tape.gaps + dropCnt + Len(drainCh)
                            + (IF drainPc = "got" THEN 1 ELSE 0) + Uncounted

Written == Replayed(tape.files)

\* The daemon's Close, if it returns no error, leaves a tape that reads to its
\* end without complaint and accounts for every event offered to the writer.
CleanCloseIsComplete ==
    ordered /\ closePc = "returned" /\ ~tape.err /\ killed = "no" =>
        /\ ~ReplayFails(tape.files) /\ ~Truncated(tape.files) /\ ~RunsFails(tape.files)
        /\ EventsIn(Written) + SumOfGaps(Written) = offered

\* The figures the daemon prints are read before Close (tickstreamd/main.go:176-180):
\* the records they miss are at most those of a full buffer, the event in hand and
\* one last gap, and neither the drops nor the files they name exceed the tape's.
StatsLagBounded ==
    ordered /\ closePc = "returned" /\ ~tape.err /\ killed = "no" =>
        /\ Len(Written) - stats.written \in 0..BufSize + 2
        /\ stats.dropped <= SumOfGaps(Written)
        /\ stats.files <= Len(tape.files)

\* Events are in the order they were offered, and a hole in front of an event
\* has been announced by the time the event comes, on what a kill or an I/O
\* error leaves too.  (It is announced in front of the next event taken from the
\* buffer, which may be older than the hole: capture.go:307.)
GapNeverLate ==
    \A i \in 1..Len(Written) :
        Written[i].gap = 0 =>
            /\ \A j \in 1..i-1 : Written[j].id < Written[i].id
            /\ EventsIn(SubSeq(Written, 1, i)) + SumOfGaps(SubSeq(Written, 1, i))
                   >= Written[i].id

\* Offer may be called concurrently with Close (capture.go:163-164).
OfferNeverPanics == \A o \in Offerers : offerPc[o] # "panicked"

\* With the daemon's order of shutdown Offer never sends on the closed channel.
OrderedOfferNeverPanics == ordered => OfferNeverPanics

\* A kill leaves a tape that ReplayRun tolerates (capture.go:12-13).
KilledTapeReplays == killed # "no" /\ ~tape.err => ~ReplayFails(tape.files)

\* It does outside the window between a rotation's create and its header.
KilledTapeReplaysButRotating == killed # "rotating" => KilledTapeReplays

\* What Recorder says of this writer: the events taken in, where it stands, and the
\* records that no kill can take.
Hand == IF drainPc = "got" THEN <<inHand>> ELSE <<>>
Pending == Hand \o drainCh
Phase == IF killed # "no" THEN "crashed" ELSE IF drainPc = "done" THEN "closed"
         ELSE IF closed THEN "closing" ELSE "open"
OnDisk == Durable(tape.files)

\* Files and goroutines aside, this is the recorder that Recorder promises: gaps
\* carry all drops that were counted, records come in order, a crash leaves a
\* beginning of the tape that holds at least what was flushed, Close leaves nothing
\* pending.
Abstract == INSTANCE Recorder WITH
    Capacity <- BufSize + 1, pending <- Pending, late <- Uncounted, lost <- dropCnt,
    records <- Written, durable <- OnDisk, broken <- tape.err, phase <- Phase

ImplementsRecorder == Abstract!Spec

\* Close always returns, whatever fails and whatever is still queued.
CloseTerminates == closed ~> (closePc = "returned" \/ ~Alive)
=============================================================================
