---------------------------- MODULE TopChecksum ----------------------------
(***************************************************************************)
(* The engine's test of a Kraken book against the checksum that came with  *)
(* the frame just applied.  The CRC is taken as injective: it is the best  *)
(* levels it covers.                                                       *)
(***************************************************************************)
EXTENDS BookOps

CONSTANT ChecksumDepth  \* levels a side that the checksum covers (10)

ASSUME ChecksumAssumption == ChecksumDepth \in Nat \ {0}

\* What verifyChecksum computes: the checksum of the book's own top levels.
BookChecksum(b) ==
    LET sizes(t) == [p \in {l.price : l \in ToSet(t)} |->
                        (CHOOSE l \in ToSet(t) : l.price = p).qty]
    IN [bids |-> sizes(TopN(b, FALSE, ChecksumDepth)),
        asks |-> sizes(TopN(b, TRUE, ChecksumDepth))]

ThinBook(b) == Depth(b, FALSE) < ChecksumDepth \/ Depth(b, TRUE) < ChecksumDepth

\* Mutant: only snapshots are verified.
verifySnapshotOnly(b, ev) == ThinBook(b) \/ ev.kind = "update" \/ BookChecksum(b) = ev.checksum

\* The comparison is skipped on a thin book.
verifyChecksum(b, ev) == ThinBook(b) \/ BookChecksum(b) = ev.checksum

=============================================================================
