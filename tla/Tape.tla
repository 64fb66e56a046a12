-------------------------------- MODULE Tape --------------------------------
(***************************************************************************)
(* The files of one capture run: how encodeRecord, rotate and closeCurrent *)
(* build them, what a kill leaves on disk, and what Runs and ReplayRun     *)
(* make of that.  A record is a gap of n events or an event.  An operator  *)
(* that does I/O returns the set of its outcomes.                          *)
(*                                                                         *)
(* A file is [head, recs, disk, done].  head: "none" (zero bytes), "held"  *)
(* (the gzip header is out, the gob header still in gzip's buffer) or      *)
(* "disk".  recs: the records encoded, of which the first disk are surely  *)
(* on disk.  done: the gzip stream is finished.                            *)
(***************************************************************************)
EXTENDS Integers, SequencesExt

CONSTANTS
    IOErrors,   \* which I/O may fail: "create", "header", "encode", "close", "flush"
    MaxFiles    \* bound: files of the run, hence rotations

ASSUME MaxFilesAssumption == MaxFiles \in Nat

Gap(n) == [gap |-> n, id |-> 0]
Ev(i) == [gap |-> 0, id |-> i]

NewFile == [head |-> "held", recs |-> <<>>, disk |-> 0, done |-> FALSE]
EmptyFile == [NewFile EXCEPT !.head = "none"]

\* The files, whether the last is open, the sticky error and the result of the
\* last call (ok: it returned nil).  evs and gaps count the events that the
\* records encoded so far account for.
NewTape == [files |-> <<NewFile>>, open |-> TRUE, err |-> FALSE,
            ok |-> TRUE, evs |-> 0, gaps |-> 0]

Fails(what) == IF what \in IOErrors THEN BOOLEAN ELSE {FALSE}

Finished(f) == [f EXCEPT !.done = TRUE, !.head = "disk", !.disk = Len(f.recs)]

\* Mutant: the file is closed, the gzip stream in front of it is not.
CloseCurrentFileOnly(t) == {[t EXCEPT !.open = FALSE]}

\* closeCurrent: finish the gzip stream and close the file.  When one of the
\* two fails the error sticks, and the stream may or may not be finished.
CloseCurrent(t) ==
    LET end == [t EXCEPT !.open = FALSE, !.files[Len(t.files)] = Finished(@)]
        failed == {[end EXCEPT !.err = TRUE],
                   [t EXCEPT !.open = FALSE, !.err = TRUE]}
    IN IF t.open THEN UNION {IF bad THEN failed ELSE {end} : bad \in Fails("close")}
       ELSE {t}

\* openFile of the next sequence number: the create or the header may fail.
OpenFile(t) ==
    UNION {CASE create -> {[t EXCEPT !.ok = FALSE]}
             [] ~create /\ header -> {[t EXCEPT !.ok = FALSE, !.files = Append(@, EmptyFile)]}
             [] OTHER -> {[t EXCEPT !.open = TRUE, !.files = Append(@, NewFile)]} :
               create \in Fails("create"), header \in Fails("header")}

\* Mutant: the error of the rotation is returned but not remembered.
RotateForgets(t) == UNION {OpenFile(c) : c \in CloseCurrent(t)}

\* rotate, and the setErr with which its caller makes a failure sticky.
Rotate(t) ==
    UNION {{[u EXCEPT !.err = @ \/ ~u.ok] : u \in OpenFile(c)} : c \in CloseCurrent(t)}

\* enc.Encode: one record into the open file.
Encode(t, r) ==
    LET written == [t EXCEPT !.files[Len(t.files)].recs = Append(@, r),
                             !.evs = @ + (IF r.gap = 0 THEN 1 ELSE 0),
                             !.gaps = @ + r.gap]
    IN IF t.open
       THEN {IF bad THEN [t EXCEPT !.ok = FALSE, !.err = TRUE] ELSE written :
                 bad \in Fails("encode")}
       ELSE {[t EXCEPT !.ok = FALSE]}

\* encodeRecord: a sticky error refuses; else rotate if the hour turned or the
\* file is full (at any record, up to MaxFiles), then encode.
EncodeRecord(t, r) ==
    LET turns == IF t.open /\ Len(t.files) < MaxFiles THEN BOOLEAN ELSE {FALSE}
        ready == UNION {IF turn THEN Rotate(t) ELSE {t} : turn \in turns}
    IN IF t.err THEN {[t EXCEPT !.ok = FALSE]}
       ELSE UNION {IF u.ok THEN Encode(u, r) ELSE {u} : u \in ready}

\* Mutant: the event first, then the gap.
WriteEventFirst(t, dropped, i) ==
    LET first == EncodeRecord([t EXCEPT !.ok = TRUE], Ev(i))
    IN IF dropped = 0 THEN first
       ELSE UNION {IF u.ok THEN EncodeRecord(u, Gap(dropped)) ELSE {u} : u \in first}

\* writeEvent: the pending drops as a gap, then the event unless that failed.
WriteEvent(t, dropped, i) ==
    LET fresh == [t EXCEPT !.ok = TRUE]
        first == IF dropped = 0 THEN {fresh} ELSE EncodeRecord(fresh, Gap(dropped))
    IN UNION {IF u.ok THEN EncodeRecord(u, Ev(i)) ELSE {u} : u \in first}

\* writeFinalGap: here any failure is made sticky.
WriteFinalGap(t, dropped) ==
    IF dropped = 0 THEN {t}
    ELSE {[u EXCEPT !.err = @ \/ ~u.ok] :
              u \in EncodeRecord([t EXCEPT !.ok = TRUE], Gap(dropped))}

\* flush: everything encoded so far reaches the disk.
Flush(t) ==
    LET synced == [t EXCEPT !.files[Len(t.files)].head = "disk",
                            !.files[Len(t.files)].disk = Len(t.files[Len(t.files)].recs)]
    IN IF t.open THEN {IF bad THEN [t EXCEPT !.err = TRUE] ELSE synced : bad \in Fails("flush")}
       ELSE {t}

-----------------------------------------------------------------------------
CutAt(f, n, h) == [f EXCEPT !.recs = SubSeq(@, 1, n), !.disk = n, !.head = h]

\* What a kill leaves of a file: all of a finished one; else any cut not before
\* what is surely on disk, with the header if any record is there.
Cuts(f) ==
    IF f.done \/ f.head = "none" THEN {f}
    ELSE {c \in {CutAt(f, n, h) : n \in f.disk..Len(f.recs), h \in {f.head, "disk"}} :
              c.recs # <<>> => c.head = "disk"}

AfterKill(files) == {[files EXCEPT ![Len(files)] = f] : f \in Cuts(files[Len(files)])}

\* Runs decodes the header of the run's first file, and fails if it cannot.
RunsFails(files) == files[1].head # "disk"

\* replayFile: zero bytes give io.EOF from gzip.NewReader, which is not among
\* the errors tolerated; an unfinished file is, when it is the last.
ReplayFails(files) ==
    \E i \in 1..Len(files) :
        \/ files[i].head = "none"
        \/ ~files[i].done /\ i < Len(files)

Truncated(files) == ~files[Len(files)].done

AddRecords(s, f) == s \o f.recs

\* The records ReplayRun hands to its callback, when it does not fail.
Replayed(files) == FoldLeft(AddRecords, <<>>, files)

-----------------------------------------------------------------------------
AddGap(n, r) == n + r.gap

\* The events that records announce as lost, and those they are.
SumOfGaps(recs) == FoldLeft(AddGap, 0, recs)
EventsIn(recs) == Cardinality({i \in 1..Len(recs) : recs[i].gap = 0})

AddDurable(d, f) == IF ~d.on THEN d ELSE [on |-> f.done, n |-> d.n + f.disk]

\* How many records no kill can take: those on disk, up to the first file that
\* could not be finished.
Durable(files) == FoldLeft(AddDurable, [on |-> TRUE, n |-> 0], files).n
=============================================================================
