------------------------------ MODULE StockQuote ------------------------------
(***************************************************************************)
(* One quote of src/stock_quote.rs through its life: created by new,       *)
(* changed by update_single_quote of src/quote_generator.rs, written as    *)
(* text (Display, to_bytes), and read back by from_string.  (The datagrams *)
(* of src/client.rs are JSON and have no reader here.)                     *)
(*                                                                         *)
(* A text is a sequence of tokens: words, numbers and the separator "|".   *)
(* A ticker is any text, for the config file may hold any line.  A number  *)
(* stands for its decimal form, which parses to the number again; a price  *)
(* is known by its rank among the prices that occur.                       *)
(***************************************************************************)
EXTENDS Integers, Sequences, FiniteSets

CONSTANTS
    TickerTexts,    \* the tickers
    Prices,         \* prices that occur
    BusyVolumes,    \* what is drawn as the volume of AAPL, MSFT and TSLA
    Volumes,        \* what is drawn as the volume of the others
    MaxU32,         \* u32::MAX
    MaxU64,         \* u64::MAX
    Times           \* readings of the clock; those below 0 precede the epoch

Word(w) == [kind |-> "word", is |-> w]
Num(n) == [kind |-> "num", is |-> n]
Sep == Word("|")

Tokens == [kind : {"word"}, is : STRING] \cup [kind : {"num"}, is : Nat] \cup {Sep}

ASSUME StockQuoteAssumption ==
    /\ TickerTexts \subseteq Seq(Tokens)
    /\ MaxU32 \in Nat /\ MaxU64 \in Nat
    /\ Prices \subseteq Nat
    /\ BusyVolumes \cup Volumes \subseteq 0 .. MaxU32
    /\ Times \subseteq Int
    /\ \A t \in Times : t <= MaxU64

VARIABLES
    quote,      \* the quote
    clock       \* SystemTime::now, in milliseconds since the epoch

quoteVars == <<quote, clock>>

QuoteTypeOK ==
    /\ quote \in [ticker : TickerTexts, price : Prices,
                  volume : 0 .. MaxU32, timestamp : 0 .. MaxU64]
    /\ clock \in Times

\* StockQuote::new.  unwrap_or_default: a clock before the epoch reads 0.
New(ticker, price) ==
    [ticker |-> ticker, price |-> price, volume |-> 0,
     timestamp |-> IF clock < 0 THEN 0 ELSE clock]

QuoteInit ==
    /\ clock \in Times
    /\ \E t \in TickerTexts, p \in Prices : quote = New(t, p)

\* The clock goes on, or is set.
ClockMoves ==
    /\ clock' \in Times
    /\ UNCHANGED quote

VolumesOf(ticker) ==
    IF ticker \in {<<Word(w)>> : w \in {"AAPL", "MSFT", "TSLA"}}
    THEN BusyVolumes ELSE Volumes

(***************************************************************************)
(* The last statement of update_single_quote.  Before the epoch it returns *)
(* an error, and the timestamp stays as it is.                             *)
(***************************************************************************)
Timestamp == IF clock < 0 THEN quote.timestamp ELSE clock

(***************************************************************************)
(* update_single_quote.  The code writes the three fields one after the    *)
(* other and reads the clock before the third; this is one step, for the   *)
(* caller holds the write lock and nobody sees the quote in between.       *)
(***************************************************************************)
UpdateSingleQuote ==
    /\ \E p \in Prices, v \in VolumesOf(quote.ticker) :
        quote' = [quote EXCEPT !.price = p, !.volume = v, !.timestamp = Timestamp]
    /\ UNCHANGED clock

QuoteNext == ClockMoves \/ UpdateSingleQuote

QuoteSpec == QuoteInit /\ [][QuoteNext]_quoteVars
-----------------------------------------------------------------------------
(***************************************************************************)
(* The formats.                                                            *)
(***************************************************************************)

Display(q) ==
    q.ticker \o <<Sep, Num(q.price), Sep, Num(q.volume), Sep, Num(q.timestamp)>>

\* The same bytes, put together field by field.
ToBytes(q) == Display(q)

\* The positions of the separators, and the edges of the text.
Seps(text) == {i \in DOMAIN text : text[i] = Sep}
Marks(text) == {0} \cup Seps(text) \cup {Len(text) + 1}

\* The mark that has k others before it.
Rank(text, i) == Cardinality({j \in Marks(text) : j < i})
Cut(text, k) == CHOOSE i \in Marks(text) : Rank(text, i) = k

\* s.split('|'): the texts between the separators, one more than there are.
Split(text) ==
    [k \in 1 .. Cardinality(Seps(text)) + 1 |->
        SubSeq(text, Cut(text, k - 1) + 1, Cut(text, k) - 1)]

\* parse() of a number of at most max.
IsNumber(text) == Len(text) = 1 /\ text[1].kind = "num"
Fits(text, max) == IsNumber(text) /\ text[1].is \in 0 .. max

None == <<>>

\* Fault: fields after the fourth are not looked at.
FourFieldsOrMore(parts) == Len(parts) >= 4

FourFields(parts) == Len(parts) = 4

FromString(text) ==
    LET parts == Split(text) IN
    IF /\ FourFields(parts)
       /\ IsNumber(parts[2])
       /\ Fits(parts[3], MaxU32)
       /\ Fits(parts[4], MaxU64)
    THEN <<[ticker |-> parts[1], price |-> parts[2][1].is,
            volume |-> parts[3][1].is, timestamp |-> parts[4][1].is]>>
    ELSE None
-----------------------------------------------------------------------------
(***************************************************************************)
(* Properties.                                                             *)
(***************************************************************************)

(***************************************************************************)
(* from_string gives back the quote that was written, or nothing: nothing  *)
(* exactly for the tickers with a separator in them, which never make it   *)
(* read one field for another.                                             *)
(***************************************************************************)
ParseInvertsDisplay ==
    FromString(ToBytes(quote)) = IF Seps(quote.ticker) = {} THEN <<quote>> ELSE None
=============================================================================
