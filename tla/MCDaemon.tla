------------------------------ MODULE MCDaemon ------------------------------
(* The TLC instance of Daemon: one venue, which checksums.                 *)
EXTENDS Daemon, TLC

CONSTANT kraken

OnlyKraken == {kraken}
NoVenue == {}
=============================================================================
