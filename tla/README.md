# TickStream in TLA+

This directory models [TickStream](../src/README.md) - a Go daemon that rebuilds
the order books of two venues from their websocket feeds, consolidates them into
one best bid and offer, records the event stream on a tape, and replays tapes to
study execution cost - in TLA+. TLC checks the models on small instances; TLAPS
proves the central properties for every value of the constants.

Line references are to `src/` at the modelled commit. `PROJECT.json` holds, for
every definition that models code, the lines it stands for.

## The system

| Component | State | Operations | Hard part |
|---|---|---|---|
| Venue session (`feed/wsutil/dial.go`) | connection, session context, restart watcher, backoff | dial, subscribe, read loop, ping loop, restart, redial | a watcher can outlive its session and take the next resync token |
| Feed adapter (`feed/*/feed.go`) | one-slot resync channel | decode, non-blocking send, drop and resync | what is lost between decode and channel |
| Decoders (`feed/*/coinbase.go`, `kraken.go`) | none | frame to event, ignored, or error | two formats for one meaning |
| Fixed point (`model/types.go`) | none | parse and print decimal strings | width of the integer |
| Book (`book/book.go`) | per side a map and a sorted slice; ready flag | snapshot, update, truncate, invalidate | the two structures must agree |
| Engine (`engine/engine.go`) | all books | take an event, apply, truncate, test, verify, invalidate, publish | lost frames, truncated windows, thin books |
| Consolidation (`consolidate/`) | none | best bid and offer over ready venues | ties, aggregation, crosses |
| Publisher, signals, metrics | an atomic pointer, counters | store, load | none: each snapshot is new |
| Dashboard (`httpapi/`), status line | a server's life | serve, shut down, return | main waits for it |
| Recorder (`capture/capture.go`) | buffer, drop count, closed flag, open file, sticky error | offer, drain, rotate, flush, close; list and replay runs | concurrent close, gaps, I/O errors, kills |
| Cost of execution (`execcost/`) | none | merge books into a ladder, walk it, fees | overflow, rounding, two fee schedules in one walk |
| Latency harness (`bench/`) | clock, histogram | pace, apply, record | stalls that hide the samples they delay |
| Study (`cmd/tcastudy`) | engine, rows, parents in flight, schedule, resilience | record, gap, decision, slices, end of tape | gaps and where they stand, empty books, late records, a clock that steps back |
| Daemon (`cmd/tickstreamd`) | goroutines and their wait group | start, signal, ordered shutdown | who stops before whom |

How they interact. One goroutine per venue runs session and adapter and sends
events on one bounded channel, never blocking: on a full channel it drops the
frame and puts a token in its own resync channel. The single engine goroutine
receives, hands each event to the recorder's `Offer` (a second non-blocking
send), applies it to the venue's book, and publishes a fresh snapshot of all
venues by an atomic pointer. When it distrusts a book it invalidates it and puts
a token in that feed's resync channel; the session's restart watcher takes the
token and cancels the session, and the next session starts with a snapshot. The
recorder's goroutine drains its buffer into rotated gzip files. A signal cancels
one context; when all goroutines have returned, main closes the recorder.

What correctness means, component by component: no lost frame goes unrepaired
and no request is lost (sessions, adapters, engine); a book mirrors what its
venue streams (book, engine); what is published is what the books hold and is
crossed only between venues (engine, consolidation); frames become events whole
or not at all, with the same meaning from either venue (decoders, fixed point);
every event is on the tape or in a gap, and a kill leaves a readable tape
(recorder); prices are those of the best execution, and no order is priced over
a gap record (cost, study); the process exits on a signal with its recorder
closed last (daemon).

## Modules

| Module | Models | State and actions |
|---|---|---|
| `Pipeline` | sessions, adapters, channels, engine loop | one action per step of a goroutine: `Connect`, `WatcherRestarts`, `ReadUpdate` (decode and hand-off), `ApplyUpdate` (apply, invalidate, request, publish), `FeedStops`... Book content is reduced to *ready* and *intact*, an unbroken prefix of one session |
| `Daemon` | the process: `Pipeline` composed with the recorder's buffer, dashboard, status line and main | `RecordAndApply` (the engine's loop body), `Drain`, `DashboardFails`, `AllJoined`, `ClosesRecorder`, `Exits`... `Pipeline`'s other actions as they are |
| `BookOps` | the book's two structures and their methods, over a set `Prices` | operators, and `SideOK`, when they agree |
| `Book`, `BookMap` | a book under any sequence of calls; the map it promises to be | `OnSnapshot`, `OnUpdate`, `OnTruncate`, `OnInvalidate`; `ImplementsMap` is the refinement |
| `Consolidate` | the best bid and offer | operators, and its definition |
| `TopChecksum` | the comparison of a book's top with a frame's checksum, which `Engine` and `Replay` share | operators |
| `Engine` | the engine over real levels, composed of `BookOps`, `TopChecksum` and `Consolidate` | the venues hold books of their own and stream them; frames arrive or are lost |
| `FixedPoint` | parse and print | operators, and the value of a decimal string |
| `Decode` | both decoders | operators; `MCWire` holds the wire formats (external) |
| `Tape` | the files of a run | operators that return the set of outcomes of I/O |
| `Capture` | the recorder's goroutines over `Tape` | `OfferCheck`, `OfferSend`, `OfferCounts`..., `DrainWrites`, `ReadStats`, `CloseChannel`, `Kill` |
| `Recorder` | what the recorder promises, without files, channels and goroutines | `Accept`, `Drop`, `Count`, `Write`, `Sync`, `FinishClose`, `Crash`; `Capture!ImplementsRecorder` is the refinement |
| `ExecCost`, `Fees` | ladder and walk; fee schedules | operators, and what a walk and a fee are for: the best of all allocations, what each fill cost |
| `TcaStudy` | the study over `ExecCost` | `OnEvent`, `OnGap`, `Finish` |
| `TapeStudy` | the study composed with the `Recorder` that wrote its tape | `OfferNext`, `WriteNext`, `ReadNext` (a record, to `OnEvent` or `OnGap`) |
| `Pricing` | books of both venues that come and go, and an order priced against them, over `ExecCost` and `Fees` | `ChangeBook`; walk, slices and fees of what is displayed |
| `Resilience` | the study's resilience measure | `ObserveNext`: a watch sees it observe one ladder after the other |
| `Bench`, `Latency` | the latency harness; what its latencies are to mean | operators, and the open-loop latency they are compared with; `Prepare` adds an event to the feed |
| `Replay` | Kraken's tape played into the book that was recorded and into the study's, each with its depth, over `BookOps` and `TopChecksum`; the venue's frames may be lost before the tape | `PlayNext`: apply, truncate, test, verify, invalidate, in both books; a replay also keeps which prices it lost |
| `FoldLaws` | the laws of `FoldLeft`, for any loop body | lemmas; an instance per loop (`applyLevel`, `TakeLevel`, `DueSlice`, `AddRecords`, `Turn`...) |
| `BookLaws`, `BookProofs` | what a book's operators compute; the book, and its replay at another depth | lemmas and theorems |
| `EngineProofs` | engine and consolidation, over `BookLaws` | lemmas and theorems |
| `PipelineProofs` | sessions, hand-off, engine loop; the process (`Daemon`) | lemmas and theorems |
| `CaptureProofs` | files of a run; the recorder | lemmas and theorems |
| `FunctionProofs` | ladder, walk, slices and fees; resilience measure; latency harness | lemmas and theorems |
| `StudyProofs` | the study and its tape | lemmas and theorems |
| `MC*` | the instances for TLC, one for each component; `MCWire` also holds the machine that enumerates frames and numbers, and `MCFunctions` runs it next to `MCPricing`, `MCResilience`, `MCLatency` and `MCReplay` | |

An operator or action below a comment `Mutant:` is a variation with a plausible
bug; it is no part of the specifications. Each property is known to fail when
its mutant replaces the definition it varies.

Steps are cut where goroutines can interleave. In `Pipeline` a read, its decode
and its hand-off are one step, as nothing between them is shared; taking an
event, applying it and publishing are one step of the engine, as only the engine
touches books. In `Capture` an `Offer` is cut at the closed flag, at the select
and at the drop counter, and a `Close` at the flag, at the channel and at the
wait. In `Daemon` an `Offer` and the recorder's buffer are one step each:
`Capture` has the finer cuts, and the order in which goroutines return is all
that is asked here. In `TapeStudy` the study reads a record as soon as it is
written; it runs on a finished tape, but what it does depends on the records
before it only, so that no behaviour is lost. A kill can strike inside a write,
so `Tape` gives it every file that the write could have left.

## Runs

All runs pass unless marked *violated*; those refute a sentence of the
repository (see Findings).

| Run | Instance | What it shows |
|---|---|---|
| `PipelineSafety` | both venues, channel of 2, 3 faults, a signal at any moment; Kraken's frames may fail to decode | repairs of suspect and dark books are always ahead; no false alarm; `RepairInv`, the invariant of the proof, holds |
| `PipelineStale` *violated* | Coinbase, 1 fault | a broken session leaves its book quoting |
| `Daemon` | Kraken, 3 faults, hand-off of 2, recorder's buffer of 1, a dashboard that may fail, a signal at any moment | after the faults the published book is ready and complete for good; the process exits; the recorder is closed last and empty |
| `Book` | 3 prices, messages of up to 2 levels a side | map and slice agree; the book is a map |
| `Engine` | Kraken with 3 bid prices for a depth of 2 and a checksum over 1; Coinbase with up to 3 bids and no truncation; garbled snapshots of both | mirror of the venue's window; verified tops; no ready book crossed; live quotes; crosses only across venues; the consolidating loop computes the definition |
| `Functions` | five machines that share nothing, of which one moves in a behaviour. *Wire*: market events of up to 2 changes, one flawed string, five kinds of damage; decimal strings of up to 2 + 3 characters, scale 100, integers to 511. *Pricing*: 2 books of up to 2 levels, prices 1 to 3, sizes 0 to 2; orders of -1 to 5 on either side; scale 2, integers to 7; fee tiers listed in no order, volumes -1 to 2. *Resilience*: 5 ladders, with one or both venues at the touch or empty, at times 0, 1, 2 and 5 in any order, up to 3 depletions. *Latency*: feeds of up to 6 events that take 0, 1, 2 or 5, one due every 2, a histogram up to 8. *Replay*: 4 prices, snapshots and one-level updates without end, each with any of 7 tops as its checksum, a recorded depth of 2, a replay's of 3 and a checksum over 1 | venues agree; whole or refused; exact parse; round trip; best execution, refusals, the band of slicing, fees by fill; recoveries add up; a stall is charged to every event it delays; a replay at a larger depth differs by levels the live book evicted, none of them in the verified top |
| `Capture` | 4 events, buffer of 1, 3 files, any I/O fails, a kill at any moment, Close in the daemon's order or at any time | conservation, complete tape after a clean Close, gaps never late, statistics behind by no more than the buffer, no panic in the daemon's order, the writer implements `Recorder`, kills outside a rotation replay, Close returns |
| `CaptureConcurrentClose` *violated* | 2 events | Offer against a concurrent Close panics |
| `CaptureKillRotating` *violated* | 3 events, 2 files | a kill inside a rotation leaves a tape that does not replay |
| `TcaStudy` | 2 sizes, 3 slices, 8 time units, a clock that may step back by one, 7 offers to a recorder of 2, three books | accounts, schedule, sums; gaps are read in time |
| `TcaDropped` *violated* | 1 size, 2 slices, 6 time units, 6 offers | a dropped parent counts as a free execution |
| `TcaHole` *violated* | the same | an order is priced over a hole whose gap record came before its decision |

Bounds and why they suffice. Faults are counted and bounded (`MaxFaults`): the
races over a token need a drop, a broken session and a late watcher, three
faults. A channel of two has the empty, the partly full and the full state, and
room for an update in front of a snapshot. Two venues are all there are; the
repair properties leave out the one whose frames may fail to decode (`Junky`),
Kraken in the safety run, whose repair `Daemon` covers, and the theorems hold
for any choice. The book's search and eviction have their cases at three prices.
In `Engine` the depth is smaller than the venue's book, so that levels leave and
re-enter the window. `Capture` needs an event in hand, a full buffer, a drop and
an event behind it for its races, and three files for a rotation that is neither
first nor last. A recorder's buffer of one makes the daemon's engine drop; what
`Daemon` asks does not depend on its size (`TailIsNotLost`). The small integers
of `Functions` make overflow happen inside the bounds; six Apply times
are a stall, what it delays and the catching up; three depletions are one that
recovers, one that flickers and one left open. The replay needs no bound: four
prices and two sizes give finitely many pairs of books. In it a ghost comes up to
the top and darkens the deeper book, and a lost frame makes a checksum refuse one
book and not the other, either way round.
`TcaStudy` has more time than one horizon, slices that do not divide the size,
steps longer than a slice, and a buffer in which an event waits in front of a
drop, with room for a decision between the two.

Runs with `CHECK_DEADLOCK FALSE` are of systems that stop: a tape ends, a
recorder closes, a process is killed or shut down, or inputs are enumerated.

Fairness. `Pipeline!Fairness` gives weak fairness to the goroutines: the
engine's loop, the watchers, a cancelled read, the redial timer, the exits on a
cancelled context; Go's scheduler runs what is runnable. Weak fairness of
`Connect` says a venue accepts a dial after finitely many failures (failures are
faults, and bounded). Strong fairness of `ReadSnapshot` says that a venue sends
the snapshot it was asked for, and that it meets a channel with room: after the
last fault no frame is dropped. Nothing is asked of updates, trades or faults.
`Connect` waits for the watcher of the last session, a timing assumption stated
there: the watcher has been runnable for the whole backoff, at least a quarter
of a second. `Daemon!DaemonFairness` adds weak fairness for the drain goroutine
(the disk answers, be it with an error), the readers' exits and main;
`ListenAndServe` returns as soon as `Shutdown` is called, whatever requests are
open. Nothing is asked of the signal. `Capture!FairSpec` gives weak fairness to
the drain goroutine and the closer.

## Proofs

tlapm checks every step, for all values of the constants. What is assumed of them
is named, and TLC evaluates it in the runs: capacities and sizes are positive
(`ChanCapAssumption`, `BufSizeAssumption`, `CapacityAssumption` and the like);
prices are integers (`PricesAssumption`), a message is a pair of sequences of
levels (`LevelsAssumption`), a checksum covers at least one level of a side
(`ChecksumAssumption`; the code's covers ten), a ladder has positive prices and sizes
(`LaddersAssumption`, as `Merge` sees to); a venue's own book is finite, of
positive sizes and uncrossed, and a garbled snapshot anything finite
(`MarketsAssumption`). No theorem takes a bound of a run for granted.

The program's loops are `FoldLeft` of their bodies. `FoldLaws` proves, by
induction over the natural numbers as sets, that such a loop has a run (what it has
after each element, `FoldRun`), keeps what its body keeps (`FoldType`), and makes
one turn for one element more (`FoldAppend`). Its operator is a constant, so that an
instance of the module gives the laws of one loop.

**Book** (`BookLaws`, `BookProofs`). A side is good (`Sides`) when its slice is the
domain of its map in order, and no size is zero. Binary search, insertion and
removal at the index keep that and set one size; hence a message does
(`LevelsSetSizes`), and truncation keeps the best levels (`TruncateKeepsBest`).

- `AlwaysSidesConsistent`: `SidesConsistent`, with good sides as its invariant.
- `BookImplementsMap`: each of the four methods does to the levels what it does to
  two plain maps in `BookMap`.
- `DeeperReplay`: of two replays of the same messages, whatever checksums these
  carry, the deeper one is ready while the other is and it has lost no level itself,
  holds what the other holds, and else only what that one evicted, below the top that
  the checksum covers (`DeeperOnlyAddsGhosts`). The invariant, `ReplayInv`, relates
  the two books by `Covers` and `SameTop`. Either book can be invalidated alone: the
  live one by a frame that was lost before the tape, the deeper one by a ghost. A book that is invalidated had
  levels (`KeptCovers`: a crossed book has, and one that is not thin), so that the
  deeper one counts them as lost; the live one returns with a snapshot only, which
  makes both the same. While neither happens both pass the same comparison, and a
  book that covers one with full sides has full sides (`CoversIsAsDeep`).

**Engine** (`EngineProofs`), for any depth, markets, moves and garbage.

- `FaithfulBooks`: a book that missed nothing is what its venue streams and stays
  ready. The invariant is `MirrorInv`: each book is sound, and `Mirrors` the
  venue's streamed book while nothing was missed. The case that matters is an
  update of the truncated venue, which is not told of a level pushed out of its
  window. The levels before the truncation then hold those of the new
  window and besides only ones that are still in the venue's whole book
  (`ChangesOfSide`, `Covers`); of such, the best `KrakenDepth` are the new window
  (`BestOfMore`), by the lemma `BestStay`: what is among the best of more is among
  the best of fewer. `TrueBookPasses` then shows that neither the crossed test nor
  the checksum discards that book. A lost frame only has to leave a sound book.
- `ReadyBooksVerified`: a ready book with full sides has passed the comparison with
  the frame it last took.
- `ReadyBooksUncrossed`: every path of `Applied` ends in a book that is uncrossed,
  or invalidated and empty.
- `CrossedOnlyAcrossVenues`, `PublishedQuotesAreLive`: from
  `snap = Snapshot(books)`, the former, and `BestOfVenues`.
- `ConsolidatesBest`: the merging loop computes `IsConsolidated`, the definition of
  a best bid and offer, for any tops; `PublishesTheBest`: what is published is that
  of the books' own tops in every state (`ConsolidatesTops`).

**Sessions, hand-off and engine loop** (`PipelineProofs`), for any venues, channel
capacity and number of faults.

- `TypeCorrect`: the type invariant, with the bound of the channel.
- `SuspectBookIsAlwaysRepaired`, `DarkBookIsAlwaysRepaired`. Neither property is
  inductive. A hole is first *open* (`gap`: no snapshot handed over since the
  loss), then in the channel (an unclean update), then in a book. `RepairInv`
  follows it: while it is open, a fresh session is ahead (`GapInv`: a token, a
  cancelled session, no session, or one whose snapshot is to come); an unclean
  update in the channel has an open gap or a snapshot *behind* it (`QueueInv`);
  a suspect book has one or the other (`SuspectInv`); and no watcher of an old
  session is left to swallow a token when a session is connected
  (`WatcherInv`). Every action is a case; the delicate ones are a watcher that
  takes the token (its session is cancelled, or there is no session), and the
  engine taking an event (positions in the queue shift by one).
- `RepairInvariant`: that invariant itself, which the runs check as well.
- `NoBookIsInvalidatedForNothing`: a step that invalidates a complete book is
  `ApplySnapshot` or `ApplyUpdate` of its venue; a complete book's checksum
  matches or is not compared, so that what is left is a crossed snapshot or a frame
  behind a lost one.
- `TailIsNotLost`, of the process: `DaemonInv` ties main's place to the recorder and
  the engine: up to the join the recorder is open; behind it the engine is stopped,
  which `EngineStaysStopped` shows to be for good and to exclude any further `Offer`.

**Recorder** (`CaptureProofs`), for any number of offerers and of files, any buffer,
and whatever the I/O does. Its first part gives the outcomes of each operation on
the files: what a write, a flush, a rotation and a kill leave, and what a replay
then reads.

- `DaemonsOrderIsSafe`. `CloseOrderInv`: in the daemon's order statistics are read
  only when every offerer is done, and the channel is closed after that, so that
  an `Offer` which still moves finds it open.
- `EveryOfferAccountedFor`, `KilledTapesReplay`, `CleanCloseCompletes`,
  `StatsLagIsBounded`, from one invariant, `CapInv`: the former; the types with the
  buffer's bound; how far the closing and the drain goroutine can be apart
  (`Stages`: the channel is closed only behind the flag, the drain goroutine leaves
  only a closed and empty channel); a live tape is sound, and open until the drain
  goroutine is done or an error sticks (`TapeHolds`); the accounts themselves; and, for
  the statistics, what they can miss (`LagInv`), which later steps do not enlarge.
- `GapsNeverLate`, for a single offerer, as the daemon's engine is: `OrderInv` bounds
  the number of every event in hand and in the channel by what is on the tape, in
  front of it and dropped. With several offerers it would not do: one of them can be
  held up between a drop and its count.
- `CaptureImplementsRecorder`: each step is one of `Recorder`'s or none. The mapping
  shows what is on its way as one queue, through the event in hand and the
  channel; the tape as the records a replay reads, of which those flushed are on the
  disk; an uncounted drop as late.

**Study** (`StudyProofs`), for any tape that the recorder can write, any ladders,
sizes and slices, and a clock that goes where it likes.

- `EveryRowAccountedFor`, `SlicesAlwaysAddUp`, `SlicesAlwaysKeepSchedule`. None is
  inductive by itself: that a row is in one state needs that no two parents work for one
  row, which are in the order of the rows (`InOrder`); that a priced order is
  filled needs what each parent has left (`Sound`), and that needs its schedule
  (`OnSchedule`), as the last slice takes the rest. `Accounted` is the
  conjunction; the loops over due slices, parents and ladder levels are cases of
  `FoldLaws`.
- `NeverPricedAcrossGap`: from a row's gap count, which a parent in flight shares with
  the study (`AtWork`).
- `HolesAlwaysAnnouncedFirst`: `TapeInv` bounds, for the tape so far and each
  event in the recorder's buffer, its number by the events and announced drops in
  front of it; `CrossInv` keeps what was announced at a row's decision.

**Pricing, resilience and latency** (`FunctionProofs`), for any books, orders,
scale, schedules and rate, and any number of inputs. Each loop is followed by the run
that `FoldLaws` gives it. `PricingInv` holds the books to what a side of a book is;
the theorems on walks are then lemmas on a ladder in order.

- `MergedInOrder`: `Merge` sorts what both venues display, best first.
- `WalksAreBest`, `BeyondDisplayRefused`. Along the ladder a walk has taken all of
  what lies before (`WalkRun`), so that it fills exactly the smaller of the order and
  the display. That no allocation of the same size
  is better needs an invariant level by level (`Ahead`): the walk has taken as much
  as the other or more, and what it has more makes up, at any price no better than
  the level's, for what it cost more (`NoneBetter`).
- `SlicesWithinBand`. A walk for less is nowhere further along the ladder than one for
  more (`SmallerWalk`). If nothing refills, the second slice takes, level by level, what
  the whole order takes beyond the first (`RestHolds`): only the level that they share
  is rounded twice. If the books refill, the two slices are compared with an
  allocation of the whole size by `NoneBetter`, at a rounding a fill.
- `FeesAreFair`. The threshold order puts the highest tier reached last
  (`TiersSorted`, `TierEarned`); the sum over venues of the sums over their fills
  is the sum over fills (`ChargesSplit`), and rounding takes less than one unit
  from each venue's part.
- `EveryRecoveryCounts`: the invariant of a watch (`SoundWatches`) relates its clock,
  the open event and the totals.
- `StallsAreCharged`: the loop's clock is the largest overrun of any suffix of the
  work, which is what open-loop latency means; of a single stall the library's
  backfill descends by one interval, as the schedule does. What the two modes record
  is a function of the feed, so that the theorem needs no more of it than its type.

Sorting is a `CHOOSE` over the orderings of a set; `ListedInOrder` shows that a
finite set has one for any total preorder.

Only model-checked: liveness under fairness (`Stabilises`, `DaemonExits`,
`CloseTerminates`), which is out of the prover's reach; and over bounded inputs
`VenuesAgree`, `WholeOrRefused`, `ParsesExactly` and
`FormatParses`, whose functions work on strings of digits, where the value
of a string is an induction over its digits for every operation of the parser.

## Findings

Each of these is a passage of the repository that a run refutes; `PROJECT.json`
has lines and quotations.

- A broken session does not mark its book not-ready; it quotes until replaced
  (`PipelineStale`).
- `Offer` concurrent with `Close` can panic, although documented as safe
  (`CaptureConcurrentClose`). The daemon closes after the engine has stopped, and
  is not affected: `OrderedOfferNeverPanics` holds.
- A kill inside a rotation, before the new file has a byte, makes `ReplayRun`
  fail (`CaptureKillRotating`). At any other moment what is left replays.
- In the study a parent dropped at a gap is a row without error and with a cost
  of zero (`TcaDropped`).
- The gap record precedes events older than the hole; an order decided between the
  two is priced over the hole (`TcaHole`). `HolesAnnouncedFirst` is what does hold:
  no order in flight meets a hole that was announced after its decision.

Other behaviour that the models reproduce and a reader of the properties should
know. Each shows as an exception a property makes, or is in the hazards:

- An undecodable book frame leaves a hole without a resync (`feed.go:59`); on
  Coinbase, which has no checksum, nothing detects it. Hence `Junky`.
- A gap record is early: it precedes buffered events older than the drops
  (`capture.go:307`). It is never late (`GapNeverLate`).
- A kill before the first flush leaves a header that `Runs` cannot decode, and
  it fails for the directory (`capture.go:444`).
- `Stats.Dropped` counts pending drops only; the daemon prints it as a total, read
  before the buffer is drained (`capture.go:196`, `tickstreamd/main.go:176-181`).
  `StatsLagBounded` bounds what they miss of the tail, not the drops already in gaps.
- The study's engine keeps 1000 levels: at a smaller recorded depth levels that left
  the venue's window stay as ghosts (`DeeperOnlyAddsGhosts`). Its engine verifies
  Kraken's checksum as the recording one did: a ghost that comes up into the ten best
  levels of its book is a mismatch there, though not in the recorded one.
  That engine has no one to ask for a resync, so that a book invalidated in a replay
  stays dark until the tape holds another snapshot; the property claims nothing of it then.
- The comment that a gap refuses decisions until a fresh interval begins
  (`tcastudy/main.go:189-190`) is not what follows it: `nextDec` is left alone.
- The resilience peak rises only between depletions, not with a recovery beyond it
  (`tcastudy/main.go:399, 402`).
- A parent whose last slice met empty books settles on what the others filled
  (`tcastudy/main.go:289`), at a cost that leaves the rest out.
- A decimal string just above the largest number parses to a negative one
  (`types.go:151`).

## Not modelled, and why

Signals and slippage in floating point (no state; floats are outside TLA+'s
integers; the fee rates are taken as integers, without representation error);
maker rates and caveats; CRC32 itself, taken as injective, so that a collision
is not considered; JSON; what the dashboard and the status line show, and the
command-line tools, which only read; the harness's read path, generated feed and
report; metrics; scripts. Of `Runs` and `RunID` there is only whether a
directory can be listed. The data race on `fileSeq` is not split into its
accesses. Snapshots are values: `publish` copies both
tops into slices of their own (`engine.go:206-219`). `Replay` plays one tape into
both books: what the recorder dropped, which the recorded engine saw and a replay
does not, is in `TapeStudy`, without levels. `Pipeline`
assumes that a subscribed session sends its snapshot first and that a half-open
connection is noticed.

## Plan

1. The generated feed of the harness, run through `Engine`'s checksum: the updates it
   makes never resync.
2. Proofs of the number conversions, over laws of strings of digits.
