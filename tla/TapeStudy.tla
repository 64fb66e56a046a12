------------------------------ MODULE TapeStudy ------------------------------
(***************************************************************************)
(* The tape from the recorder to the study: the engine offers events, the  *)
(* recorder writes them with gaps for what it drops, and the study reads   *)
(* the records in order.  The study runs on a finished tape; what it does  *)
(* depends on the records alone, so it may read each as soon as it is      *)
(* written.  An I/O error or a kill only ends the tape early, which Finish *)
(* does at any time.                                                       *)
(***************************************************************************)
EXTENDS TcaStudy

CONSTANTS
    Capacity,   \* events that may wait in the recorder
    MaxWall,    \* bound: the wall clock of the last record
    MaxStep,    \* bound: time between two records
    MaxBack,    \* bound: a step backwards of the wall clock between two records
    MaxOffers   \* bound: events offered to it

ASSUME CapacityAssumption == Capacity \in Nat \ {0, 1} /\ MaxOffers \in Nat

VARIABLES
    offered, pending, late, lost, records, durable, broken, phase,   \* the recorder's
    read,       \* records the study has read
    crossed     \* per row, the events skipped and announced before its decision, and
                \* those skipped since, until it was settled or dropped

Tape == INSTANCE Recorder

studyVars == vars
recVars == <<offered, pending, late, lost, records, durable, broken, phase>>
tapeVars == <<studyVars, recVars, read, crossed>>

Events(n) == Cardinality({i \in 1..n : records[i].gap = 0})

AddGap(k, r) == k + r.gap

\* Events announced as lost in the first n records.
Announced(n) == FoldLeft(AddGap, 0, SubSeq(records, 1, n))

\* Events missing before the last event of the first n records.
Skipped(n) == Max({0} \cup {records[i].id : i \in 1..n}) - Events(n)

TapeInit == Init /\ Tape!Init /\ read = 0 /\ crossed = <<>>

-----------------------------------------------------------------------------
UpToDate == read = Len(records) /\ ~ended

\* The engine's one goroutine offers the next event when the last Offer returned.
OfferNext ==
    /\ UpToDate /\ late = 0 /\ offered < MaxOffers
    /\ Tape!Accept \/ Tape!Drop
    /\ UNCHANGED <<studyVars, read, crossed>>

OfferReturns == UpToDate /\ Tape!Count /\ UNCHANGED <<studyVars, read, crossed>>

WriteNext ==
    /\ UpToDate
    /\ Tape!Write /\ ~broken' /\ durable' = durable
    /\ UNCHANGED <<studyVars, read, crossed>>

\* What the study read so far says of each row: of the new ones where they began,
\* of those in flight what was skipped since.
Crossing(n) ==
    [i \in 1..Len(rows') |->
        IF i > Len(rows) THEN [skipped |-> Skipped(n), announced |-> Announced(n), over |-> 0]
        ELSE IF InFlight(i) = {} THEN crossed[i]
        ELSE [crossed[i] EXCEPT !.over = Skipped(n) - crossed[i].skipped]]

ReadNext(d) ==
    /\ read < Len(records) /\ ~ended
    /\ wall + d \in 1..MaxWall
    /\ read' = read + 1
    /\ IF records[read'].gap > 0 THEN OnGap(wall + d)
       ELSE \E l \in Ladders : OnEvent(l, wall + d)
    /\ crossed' = Crossing(read')
    /\ UNCHANGED recVars

EndOfTape == Finish /\ UNCHANGED <<recVars, read, crossed>>

TapeNext == OfferNext \/ OfferReturns \/ WriteNext \/ EndOfTape
            \/ \E d \in -MaxBack..MaxStep : ReadNext(d)

TapeSpec == TapeInit /\ [][TapeNext]_tapeVars

-----------------------------------------------------------------------------
\* A hole in the tape has been announced by the time the study reads past it: an
\* order in flight has crossed none that was not announced before its decision,
\* because the gap record that announces a later one drops it (capture.go:305-312,
\* main.go:191-195).
HolesAnnouncedFirst ==
    \A i \in 1..Len(rows) : InFlight(i) # {} => Skipped(read) <= crossed[i].announced

\* A sliced order that crosses a gap is dropped rather than priced against a book
\* that skipped updates (docs/TCA.md:152-154).
NoOrderPricedOverHole == \A i \in 1..Len(rows) : rows[i].priced => crossed[i].over = 0
=============================================================================
