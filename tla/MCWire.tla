------------------------------- MODULE MCWire -------------------------------
(* What comes over the wire, and the numbers in it.  The same market event  *)
(* is reported by both venues: it is built change by change; each venue     *)
(* puts it on the wire its own way (external: the formats the decoders      *)
(* document), and a frame may be damaged on the way.                        *)
(* Or a number is looked at: with two fractional digits and integers up to  *)
(* 511, 5.11 is the largest.  A decimal string is typed character by        *)
(* character, up to two before the dot and three after it; or num counts    *)
(* through every number.                                                    *)
EXTENDS Decode, FixedPoint

CONSTANTS MaxChanges    \* changes, or trades, in one market event

\* What happened: kind, and changes [side, price, qty] in market order, the
\* side of a trade its taker's; what is wrong with the frame reporting it; or,
\* for the kind number, the string or the number looked at.
VARIABLES kind, changes, damage, str, num

wireVars == <<kind, changes, damage, str, num>>

Damages == {"none", "body", "width", "side", "empty", "notice"}

EmptyString == [whole |-> <<>>, dots |-> 0, fraction |-> <<>>]

WireInit ==
        /\ kind \in {"snapshot", "update", "trade", "number"}
        /\ changes = <<>> /\ damage = "none"
        /\ str = EmptyString /\ num = 0

Happens(side, price, qty) ==
    /\ kind # "number" /\ damage = "none" /\ Len(changes) < MaxChanges
    /\ changes' = Append(changes, [side |-> side, price |-> price, qty |-> qty])
    /\ UNCHANGED <<kind, damage, str, num>>

Damage(d) == /\ changes # <<>> /\ damage = "none"
             /\ damage' = d
             /\ UNCHANGED <<kind, changes, str, num>>

TypeWhole(c) == /\ str.dots = 0 /\ Len(str.whole) < 2
                /\ str' = [str EXCEPT !.whole = Append(@, c)]

TypeDot == /\ str.dots < 2
           /\ str' = [str EXCEPT !.dots = @ + 1]

TypeFraction(c) == /\ str.dots = 1 /\ Len(str.fraction) < 3
                   /\ str' = [str EXCEPT !.fraction = Append(@, c)]

\* The characters that matter.
Chars == {0, 1, 5, 9, NotADigit}

Type == /\ kind = "number" /\ num = 0
        /\ TypeDot \/ \E c \in Chars : TypeWhole(c) \/ TypeFraction(c)
        /\ UNCHANGED <<kind, changes, damage, num>>

Count == /\ kind = "number" /\ str = EmptyString /\ num < MaxInt
         /\ num' = num + 1
         /\ UNCHANGED <<kind, changes, damage, str>>

WireNext ==
        \/ \E side \in {"buy", "sell"}, price \in Numerals \cup Flawed, qty \in Numerals :
              Happens(side, price, qty)
        \/ \E d \in Damages : Damage(d)
        \/ Type \/ Count

-----------------------------------------------------------------------------
(* The wire formats.                                                       *)

Of(side) == SelectSeq(changes, LAMBDA c : c.side = side)
Levels(cs) == Each(cs, LAMBDA c : [price |-> c.price, qty |-> c.qty])

\* A tuple of the wire, and the way it is damaged.
Tuple(t) == IF damage = "width" THEN Tail(t) ELSE t
Side(s) == IF damage = "side" THEN "both" ELSE s
Pairs(cs) == Each(cs, LAMBDA c : Tuple(<<c.price, c.qty>>))

Blank == [type |-> "", bids |-> <<>>, asks |-> <<>>, changes |-> <<>>,
          side |-> "", price |-> "", size |-> ""]

\* A Coinbase match reports one trade, and the maker's side of it.
Match(c) == [Blank EXCEPT !.type = "match", !.price = c.price, !.size = c.qty,
                          !.side = Side(IF c.side = "buy" THEN "sell" ELSE "buy")]

CoinbaseFrames ==
    CASE damage = "body" -> <<Malformed>>
      [] damage = "notice" -> <<[Blank EXCEPT !.type = "heartbeat"]>>
      [] kind = "snapshot" -> <<[Blank EXCEPT !.type = kind, !.bids = Pairs(Of("buy")),
                                              !.asks = Pairs(Of("sell"))]>>
      [] kind = "update" ->
           <<[Blank EXCEPT !.type = "l2update",
                           !.changes = Each(changes, LAMBDA c :
                                  Tuple(<<Side(c.side), c.price, c.qty>>))]>>
      [] kind = "trade" -> Each(changes, Match)

Notice == [channel |-> "heartbeat", type |-> "", data |-> Malformed]

KrakenFrame ==
    LET book == [bids |-> Levels(Of("buy")), asks |-> Levels(Of("sell"))]
        trades == Each(changes, LAMBDA c : [c EXCEPT !.side = Side(@)])
    IN CASE damage = "notice" -> Notice
         [] damage = "body" -> [channel |-> "book", type |-> "update", data |-> Malformed]
         [] damage = "empty" -> [channel |-> "trade", type |-> "update", data |-> <<>>]
         [] kind = "trade" -> [channel |-> "trade", type |-> "update", data |-> trades]
         [] OTHER -> [channel |-> "book", type |-> kind, data |-> <<book>>]

AtCoinbase == Each(CoinbaseFrames, DecodeCoinbase)
AtKraken == DecodeKraken(KrakenFrame)

-----------------------------------------------------------------------------
(* Properties.                                                             *)

FlawedChange(c) == c.price \in Flawed

\* What a faithful report of an undamaged event decodes to.
Expected ==
    IF kind = "trade"
    THEN Event(kind, <<>>, <<>>,
               Each(changes, LAMBDA c : [price |-> c.price, qty |-> c.qty,
                        aggressor |-> IF c.side = "buy" THEN "bid" ELSE "ask"]))
    ELSE Event(kind, Levels(Of("buy")), Levels(Of("sell")), <<>>)

\* The venues' formats differ (absolute tuples against objects, one trade a frame
\* against a batch, the maker's side against the taker's) but the same market
\* event decodes to the same levels, in order, and to the same trades with the
\* same aggressors, from either venue: coinbase.go:44-142, kraken.go:80-169.
VenuesAgree ==
    kind # "number" /\ damage = "none" /\ (\A c \in ToSet(changes) : ~FlawedChange(c)) =>
        /\ changes # <<>> => AtKraken = Decoded(Expected)
        /\ kind # "trade" => AtCoinbase = <<Decoded(Expected)>>
        /\ kind = "trade" =>
             /\ \A i \in DOMAIN AtCoinbase : AtCoinbase[i][1] = "event"
             /\ FlattenSeq(Each(AtCoinbase, LAMBDA o : o[2].trades)) = Expected.trades

\* A decoder never hands on part of a frame: what it accepts holds every change
\* the frame reports, each with numbers that parse; one change that does not
\* makes the whole frame an error, which counts a decode error and never touches
\* the book (coinbase.go:67-82 and 144-157, kraken.go:104-112 and 135-153).
WholeOrRefused ==
    LET Carried(e) == Len(e.bids) + Len(e.asks) + Len(e.trades)
        Parsed(e) == \A l \in ToSet(e.bids \o e.asks \o e.trades) : IsLevel(l.price, l.qty)
        perFrame == IF kind = "trade" THEN 1 ELSE Len(changes)
    IN kind # "number" =>
       /\ AtKraken[1] = "event" => Carried(AtKraken[2]) = Len(changes) /\ Parsed(AtKraken[2])
       /\ \A i \in DOMAIN AtCoinbase : AtCoinbase[i][1] = "event" =>
             Carried(AtCoinbase[i][2]) = perFrame /\ Parsed(AtCoinbase[i][2])
       /\ damage = "notice" => AtKraken = Ignored /\ AtCoinbase = <<Ignored>>
       /\ damage = "body" => AtKraken = DecodeError /\ AtCoinbase = <<DecodeError>>

Numeral(s) == /\ s.whole \o s.fraction # <<>> /\ s.dots <= 1
              /\ \A c \in ToSet(s.whole \o s.fraction) : IsDigit(c)

\* In thousandths, and the same in hundredths when that is exact.
Thousandths == Value(str, 3)
Hundredths == Thousandths \div 10

\* A decimal string parses to exactly its value, and is refused precisely when it
\* is no numeral, too fine or too large.  Excepted is the largest whole number that
\* scales (92233720368): its fraction may carry the sum beyond int64, and the sum
\* wraps without an error (types.go:131 and 151).
ParsesExactly ==
    LET fits == Numeral(str) /\ Thousandths % 10 = 0 /\ Hundredths <= MaxInt
        wraps == Numeral(str) /\ Whole(str.whole) = MaxInt \div ScaleUnit /\ Hundredths > MaxInt
    IN ~wraps =>
        parseFixed(str) = IF fits THEN [ok |-> TRUE, n |-> Hundredths] ELSE Bad

\* Printing a number and parsing it gives it back, up to the largest integer.
FormatParses == parseFixed(formatFixed(num)) = [ok |-> TRUE, n |-> num]
=============================================================================
