------------------------------- MODULE Decode -------------------------------
(***************************************************************************)
(* The venue decoders, internal/feed/coinbase and internal/feed/kraken:    *)
(* what event, if any, a frame becomes.  A decimal string is an opaque     *)
(* value that parseFixed accepts (Numerals) or refuses: a level carries    *)
(* its strings and the numbers they denote, so it is named by its strings. *)
(* Symbols, times, trade ids and the checksum are copied and left out.     *)
(***************************************************************************)
EXTENDS Integers, SequencesExt

CONSTANTS
    Numerals,       \* decimal strings that parse
    Flawed,         \* strings that do not: empty, signed, too fine, too large
    Malformed       \* a body that is not JSON of the expected shape

ASSUME FlawedAssumption == Numerals \cap Flawed = {}

Event(kind, bids, asks, trades) ==
    [kind |-> kind, bids |-> bids, asks |-> asks, trades |-> trades]

\* DecodeMessage's three outcomes: (event, true, nil), (_, false, nil), (_, false, err).
Decoded(event) == <<"event", event>>
Ignored == <<"ignored">>
DecodeError == <<"error">>

\* Map a sequence through an operator.
Each(seq, Op(_)) == [i \in DOMAIN seq |-> Op(seq[i])]

\* level, and the body of levels: both strings must parse.
IsLevel(price, qty) == {price, qty} \subseteq Numerals
level(price, qty) == [price |-> price, qty |-> qty]

-----------------------------------------------------------------------------
(* Coinbase: [type, bids, asks, changes, side, price, size], the levels as *)
(* tuples of strings; or Malformed.                                        *)

tuplesSound(tuples) == \A t \in ToSet(tuples) : Len(t) = 2 /\ IsLevel(t[1], t[2])
tupleLevels(tuples) == Each(tuples, LAMBDA t : level(t[1], t[2]))

CoinbaseSnapshot(f) ==
    IF tuplesSound(f.bids) /\ tuplesSound(f.asks)
    THEN Decoded(Event("snapshot", tupleLevels(f.bids), tupleLevels(f.asks), <<>>))
    ELSE DecodeError

\* One [side, price, size] change of an l2update.
changeSound(ch) == Len(ch) = 3 /\ ch[1] \in {"buy", "sell"} /\ IsLevel(ch[2], ch[3])

\* The changes of one side, in their order.
changesOf(changes, side) ==
    Each(SelectSeq(changes, LAMBDA ch : ch[1] = side), LAMBDA ch : level(ch[2], ch[3]))

\* Mutant: a flawed change is skipped and the rest of the frame applied.
UpdateSkips(f) ==
    LET sound == SelectSeq(f.changes, changeSound)
    IN Decoded(Event("update", changesOf(sound, "buy"), changesOf(sound, "sell"), <<>>))

CoinbaseUpdate(f) ==
    IF \A ch \in ToSet(f.changes) : changeSound(ch)
    THEN Decoded(Event("update", changesOf(f.changes, "buy"),
                                 changesOf(f.changes, "sell"), <<>>))
    ELSE DecodeError

\* Mutant: the reported side is taken for the aggressor's, as on Kraken.
AsReported(side) == IF side = "sell" THEN "ask" ELSE "bid"

\* Coinbase reports the maker's side: a resting sell was lifted by a buyer.
AggressorOf(side) == IF side = "sell" THEN "bid" ELSE "ask"

CoinbaseMatch(f) ==
    IF f.side \in {"buy", "sell"} /\ IsLevel(f.price, f.size)
    THEN Decoded(Event("trade", <<>>, <<>>,
                       <<[price |-> f.price, qty |-> f.size,
                          aggressor |-> AggressorOf(f.side)]>>))
    ELSE DecodeError

DecodeCoinbase(f) ==
    CASE f = Malformed -> DecodeError
      [] f.type = "snapshot" -> CoinbaseSnapshot(f)
      [] f.type = "l2update" -> CoinbaseUpdate(f)
      [] f.type \in {"match", "last_match"} -> CoinbaseMatch(f)
      [] OTHER -> Ignored

-----------------------------------------------------------------------------
(* Kraken: [channel, type, data], data a sequence or Malformed.  A book's  *)
(* data holds [bids, asks] and a trade's [side, price, qty].               *)

levelsSound(raw) == \A r \in ToSet(raw) : IsLevel(r.price, r.qty)

\* Only the first element of a book frame's data is decoded.
decodeBook(f) ==
    CASE f.type \notin {"snapshot", "update"} -> Ignored
      [] f.data = Malformed \/ f.data = <<>> -> DecodeError
      [] OTHER -> LET d == f.data[1]
                  IN IF levelsSound(d.bids) /\ levelsSound(d.asks)
                     THEN Decoded(Event(f.type, d.bids, d.asks, <<>>))
                     ELSE DecodeError

tradeSound(t) == IsLevel(t.price, t.qty) /\ t.side \in {"buy", "sell"}

\* Kraken reports the taker's side, which is the aggressor's.
KrakenTrade(t) ==
    [price |-> t.price, qty |-> t.qty,
     aggressor |-> IF t.side = "buy" THEN "bid" ELSE "ask"]

\* Every trade of the batch, or none.
decodeTrade(f) ==
    CASE f.type \notin {"snapshot", "update"} -> Ignored
      [] f.data = Malformed \/ f.data = <<>> -> DecodeError
      [] OTHER -> IF \A t \in ToSet(f.data) : tradeSound(t)
                  THEN Decoded(Event("trade", <<>>, <<>>, Each(f.data, KrakenTrade)))
                  ELSE DecodeError

DecodeKraken(f) ==
    CASE f = Malformed -> DecodeError
      [] f.channel = "book" -> decodeBook(f)
      [] f.channel = "trade" -> decodeTrade(f)
      [] OTHER -> Ignored
=============================================================================
