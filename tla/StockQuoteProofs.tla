-------------------------- MODULE StockQuoteProofs --------------------------
(***************************************************************************)
(* What from_string makes of the text of a quote, for every ticker.        *)
(***************************************************************************)
EXTENDS StockQuote, SequenceTheorems, FiniteSetTheorems, TLAPS

-----------------------------------------------------------------------------
(***************************************************************************)
(* The type invariant.                                                     *)
(***************************************************************************)

\* A reading of the clock as u64, with 0 in place of what is before the epoch.
LEMMA MillisType ==
    ASSUME clock \in Times
    PROVE  /\ clock \in Int
           /\ (IF clock < 0 THEN 0 ELSE clock) \in 0 .. MaxU64
           /\ ~ clock < 0 => clock \in 0 .. MaxU64
BY StockQuoteAssumption

\* What is drawn as a volume fits into the field.
LEMMA VolumeType ==
    ASSUME NEW t, NEW v \in VolumesOf(t)
    PROVE  v \in 0 .. MaxU32
BY StockQuoteAssumption DEF VolumesOf

\* The fields of a quote keep their types, as StockQuoteAssumption has them.
LEMMA QuoteTypes == QuoteSpec => []QuoteTypeOK
<1>1. QuoteInit => QuoteTypeOK
  <2> SUFFICES ASSUME QuoteInit PROVE QuoteTypeOK
    OBVIOUS
  <2>1. PICK t \in TickerTexts, p \in Prices : quote = New(t, p)
    BY DEF QuoteInit
  <2>2. clock \in Times
    BY DEF QuoteInit
  <2>3. 0 \in 0 .. MaxU32
    BY StockQuoteAssumption
  <2>4. (IF clock < 0 THEN 0 ELSE clock) \in 0 .. MaxU64
    BY <2>2, MillisType
  <2>5. quote \in [ticker : TickerTexts, price : Prices,
                   volume : 0 .. MaxU32, timestamp : 0 .. MaxU64]
    BY <2>1, <2>3, <2>4 DEF New
  <2>6. QED
    BY <2>2, <2>5 DEF QuoteTypeOK
<1>2. QuoteTypeOK /\ [QuoteNext]_quoteVars => QuoteTypeOK'
  <2> SUFFICES ASSUME QuoteTypeOK, [QuoteNext]_quoteVars PROVE QuoteTypeOK'
    OBVIOUS
  <2>1. CASE ClockMoves
    BY <2>1 DEF ClockMoves, QuoteTypeOK
  <2>2. CASE UpdateSingleQuote
    <3>1. PICK p \in Prices, v \in VolumesOf(quote.ticker) :
            quote' = [quote EXCEPT !.price = p, !.volume = v, !.timestamp = Timestamp]
      BY <2>2 DEF UpdateSingleQuote
    <3>2. v \in 0 .. MaxU32
      BY VolumeType
    <3>3. Timestamp \in 0 .. MaxU64
      BY MillisType DEF Timestamp, QuoteTypeOK
    <3>4. clock' = clock
      BY <2>2 DEF UpdateSingleQuote
    <3>5. QED
      BY <3>1, <3>2, <3>3, <3>4 DEF QuoteTypeOK
  <2>3. CASE UNCHANGED quoteVars
    BY <2>3 DEF quoteVars, QuoteTypeOK
  <2>4. QED
    BY <2>1, <2>2, <2>3 DEF QuoteNext
<1>3. QED
  BY <1>1, <1>2, PTL DEF QuoteSpec

-----------------------------------------------------------------------------
(***************************************************************************)
(* The text of a quote.                                                    *)
(***************************************************************************)

\* Sets of two, three and four elements.
LEMMA PairSize ==
    \A a, b : a # b =>
        IsFiniteSet({a, b}) /\ Cardinality({a, b}) = 2
<1> SUFFICES ASSUME NEW a, NEW b, a # b
             PROVE  IsFiniteSet({a, b}) /\ Cardinality({a, b}) = 2
  OBVIOUS
<1>1. {a, b} = {a} \cup {b} /\ b \notin {a}
  OBVIOUS
<1>2. IsFiniteSet({a}) /\ Cardinality({a}) = 1
  BY FS_Singleton
<1>3. QED
  BY <1>1, <1>2, FS_AddElement

\* Three numbers.
LEMMA TripleSize ==
    \A a, b, c : a # b /\ a # c /\ b # c =>
        IsFiniteSet({a, b, c}) /\ Cardinality({a, b, c}) = 3
<1> SUFFICES ASSUME NEW a, NEW b, NEW c, a # b, a # c, b # c
             PROVE  IsFiniteSet({a, b, c}) /\ Cardinality({a, b, c}) = 3
  OBVIOUS
<1>1. {a, b, c} = {a, b} \cup {c} /\ c \notin {a, b}
  OBVIOUS
<1>2. IsFiniteSet({a, b}) /\ Cardinality({a, b}) = 2
  BY PairSize
<1>3. QED
  BY <1>1, <1>2, FS_AddElement

\* Four numbers.
LEMMA QuadrupleSize ==
    \A a, b, c, d : a # b /\ a # c /\ a # d /\ b # c /\ b # d /\ c # d =>
        IsFiniteSet({a, b, c, d}) /\ Cardinality({a, b, c, d}) = 4
<1> SUFFICES ASSUME NEW a, NEW b, NEW c, NEW d, a # b, a # c, a # d, b # c, b # d, c # d
             PROVE  IsFiniteSet({a, b, c, d}) /\ Cardinality({a, b, c, d}) = 4
  OBVIOUS
<1>1. {a, b, c, d} = {a, b, c} \cup {d} /\ d \notin {a, b, c}
  OBVIOUS
<1>2. IsFiniteSet({a, b, c}) /\ Cardinality({a, b, c}) = 3
  BY TripleSize
<1>3. QED
  BY <1>1, <1>2, FS_AddElement

\* A function on 1 .. n is a sequence of that length.
LEMMA FunctionIsSeq ==
    ASSUME NEW S, NEW n \in Nat, NEW f \in [1 .. n -> S]
    PROVE  f \in Seq(S) /\ Len(f) = n
<1>1. f \in Seq(S)
  BY SeqDef
<1>2. Len(f) \in Nat /\ DOMAIN f = 1 .. Len(f) /\ DOMAIN f = 1 .. n
  BY <1>1, LenProperties
<1>3. QED
  BY <1>1, <1>2

\* A piece of one token.
LEMMA SubSeqOne ==
    ASSUME NEW S, NEW s, NEW m \in Int, s[m] \in S
    PROVE  Len(SubSeq(s, m, m)) = 1 /\ SubSeq(s, m, m)[1] = s[m]
<1>1. \A i \in m .. m : s[i] \in S
  <2>1. \A i \in m .. m : i = m
    OBVIOUS
  <2>2. QED
    BY <2>1
<1>2. /\ Len(SubSeq(s, m, m)) = IF m <= m THEN m - m + 1 ELSE 0
      /\ \A i \in 1 .. m - m + 1 : SubSeq(s, m, m)[i] = s[m + i - 1]
  BY <1>1, SubSeqProperties
<1>3. m <= m /\ m - m + 1 = 1 /\ 1 \in 1 .. 1 /\ m + 1 - 1 = m
  OBVIOUS
<1>4. QED
  BY <1>2, <1>3

\* Words and numbers are tokens; a number is not a separator.
LEMMA TokenTypes ==
    /\ Sep \in Tokens
    /\ \A n \in Nat : Num(n) \in Tokens /\ Num(n) # Sep
<1>1. Sep \in Tokens
  BY DEF Tokens
<1>2. ASSUME NEW n \in Nat PROVE Num(n) \in Tokens
  BY DEF Num, Tokens
<1>3. ASSUME NEW n \in Nat PROVE Num(n) # Sep
  <2>1. Num(n).kind = "num" /\ Sep.kind = "word"
    BY DEF Num, Sep, Word
  <2>2. QED
    BY <2>1
<1>4. QED
  BY <1>1, <1>2, <1>3

(***************************************************************************)
(* The text of a quote is its ticker and six tokens, every other one of    *)
(* them a separator.                                                       *)
(***************************************************************************)
LEMMA DisplayText ==
    ASSUME NEW q, q.ticker \in Seq(Tokens),
           q.price \in Nat, q.volume \in Nat, q.timestamp \in Nat
    PROVE  LET text == Display(q)
               n == Len(q.ticker)
           IN  /\ n \in Nat
               /\ text \in Seq(Tokens)
               /\ Len(text) = n + 6
               /\ \A i \in 1 .. n : text[i] = q.ticker[i]
               /\ text[n + 1] = Sep /\ text[n + 2] = Num(q.price)
               /\ text[n + 3] = Sep /\ text[n + 4] = Num(q.volume)
               /\ text[n + 5] = Sep /\ text[n + 6] = Num(q.timestamp)
<1> DEFINE text == Display(q)
           n == Len(q.ticker)
           fields == <<Sep, Num(q.price), Sep, Num(q.volume), Sep, Num(q.timestamp)>>
<1>1. fields \in Seq(Tokens) /\ Len(fields) = 6
  BY TokenTypes
<1>2. text = q.ticker \o fields
  BY DEF Display
<1>3. n \in Nat
  BY LenProperties
<1>4. /\ text \in Seq(Tokens)
      /\ Len(text) = n + 6
      /\ \A i \in 1 .. n + 6 : text[i] = IF i <= n THEN q.ticker[i] ELSE fields[i - n]
  <2> HIDE DEF fields, text
  <2>1. /\ q.ticker \o fields \in Seq(Tokens)
        /\ Len(q.ticker \o fields) = Len(q.ticker) + Len(fields)
        /\ \A i \in 1 .. Len(q.ticker) + Len(fields) : (q.ticker \o fields)[i] =
                IF i <= Len(q.ticker) THEN q.ticker[i] ELSE fields[i - Len(q.ticker)]
    BY <1>1, ConcatProperties
  <2> QED
    BY <1>1, <1>2, <2>1
<1>5. \A i \in 1 .. n : text[i] = q.ticker[i]
  <2> HIDE DEF fields, text
  <2> QED
    BY <1>3, <1>4
<1>6. \A k \in 1 .. 6 : text[n + k] = fields[k]
  <2> SUFFICES ASSUME NEW k \in 1 .. 6 PROVE text[n + k] = fields[k]
    OBVIOUS
  <2> HIDE DEF fields, text, n
  <2>1. n + k \in 1 .. n + 6 /\ ~ n + k <= n /\ (n + k) - n = k
    BY <1>3
  <2> QED
    BY <1>4, <2>1
<1>7. /\ fields[1] = Sep /\ fields[2] = Num(q.price)
      /\ fields[3] = Sep /\ fields[4] = Num(q.volume)
      /\ fields[5] = Sep /\ fields[6] = Num(q.timestamp)
  OBVIOUS
<1>8. QED
  <2> HIDE DEF fields, text, n
  <2>1. /\ text[n + 1] = Sep /\ text[n + 2] = Num(q.price)
        /\ text[n + 3] = Sep /\ text[n + 4] = Num(q.volume)
        /\ text[n + 5] = Sep /\ text[n + 6] = Num(q.timestamp)
    BY <1>6, <1>7
  <2> QED
    BY <1>3, <1>4, <1>5, <2>1 DEF text, n

\* The positions of separators are those of a finite text.
LEMMA SepsFinite ==
    ASSUME NEW text \in Seq(Tokens)
    PROVE  IsFiniteSet(Seps(text)) /\ Cardinality(Seps(text)) \in Nat
<1>1. Seps(text) \in SUBSET (1 .. Len(text)) /\ Len(text) \in Nat
  BY LenProperties DEF Seps
<1>2. IsFiniteSet(1 .. Len(text))
  BY <1>1, FS_Interval
<1>3. IsFiniteSet(Seps(text))
  BY <1>1, <1>2, FS_Subset
<1>4. QED
  BY <1>3, FS_CardinalityType

\* The number of marks in front of each of five.
LEMMA FiveRanks ==
    ASSUME NEW text, NEW a \in Int, NEW b \in Int, NEW c \in Int, NEW d \in Int,
           0 < a, a < b, b < c, c < d, Marks(text) = {0, a, b, c, d}
    PROVE  /\ Rank(text, 0) = 0 /\ Rank(text, a) = 1 /\ Rank(text, b) = 2
           /\ Rank(text, c) = 3 /\ Rank(text, d) = 4
<1> DEFINE M == Marks(text)
<1>1. /\ {j \in M : j < 0} = {}
      /\ {j \in M : j < a} = {0}
      /\ {j \in M : j < b} = {0, a}
      /\ {j \in M : j < c} = {0, a, b}
      /\ {j \in M : j < d} = {0, a, b, c}
  OBVIOUS
<1>2. IsFiniteSet({}) /\ Cardinality({}) = 0
  BY FS_EmptySet
<1>3. Cardinality({0}) = 1
  BY FS_Singleton
<1>4. 0 # a /\ 0 # b /\ 0 # c /\ a # b /\ a # c /\ b # c
  OBVIOUS
<1>5. Cardinality({0, a}) = 2
  BY <1>4, PairSize
<1>6. Cardinality({0, a, b}) = 3
  BY <1>4, TripleSize
<1>7. Cardinality({0, a, b, c}) = 4
  BY <1>4, QuadrupleSize
<1>8. QED
  BY <1>1, <1>2, <1>3, <1>5, <1>6, <1>7 DEF Rank

\* Where a text with five marks is cut.
LEMMA FiveCuts ==
    ASSUME NEW text, NEW a \in Int, NEW b \in Int, NEW c \in Int, NEW d \in Int,
           0 < a, a < b, b < c, c < d, Marks(text) = {0, a, b, c, d}
    PROVE  /\ Cut(text, 0) = 0 /\ Cut(text, 1) = a /\ Cut(text, 2) = b
           /\ Cut(text, 3) = c /\ Cut(text, 4) = d
<1> DEFINE M == Marks(text)
<1>1. /\ Rank(text, 0) = 0 /\ Rank(text, a) = 1 /\ Rank(text, b) = 2
      /\ Rank(text, c) = 3 /\ Rank(text, d) = 4
  BY FiveRanks
<1>2. M = {0, a, b, c, d}
  OBVIOUS
<1> HIDE DEF M
<1>3. ASSUME NEW k, NEW i \in M, Rank(text, i) = k
      PROVE  Cut(text, k) \in M /\ Rank(text, Cut(text, k)) = k
  BY <1>3 DEF Cut, M
<1>4. \A i \in M : \/ i = 0 /\ Rank(text, i) = 0
                   \/ i = a /\ Rank(text, i) = 1
                   \/ i = b /\ Rank(text, i) = 2
                   \/ i = c /\ Rank(text, i) = 3
                   \/ i = d /\ Rank(text, i) = 4
  BY <1>1, <1>2
<1>5. \A k \in 0 .. 4 : Cut(text, k) \in M /\ Rank(text, Cut(text, k)) = k
  BY <1>1, <1>2, <1>3
<1>6. QED
  BY <1>4, <1>5

\* There is one field more than there are separators.
LEMMA SplitLength ==
    ASSUME NEW text \in Seq(Tokens)
    PROVE  Len(Split(text)) = Cardinality(Seps(text)) + 1
<1> DEFINE parts == Split(text)
           m == Cardinality(Seps(text)) + 1
<1>1. m \in Nat
  BY SepsFinite
<1>2. parts \in [1 .. m -> {parts[k] : k \in 1 .. m}]
  <2>1. parts = [k \in 1 .. m |-> parts[k]]
    BY DEF Split
  <2> HIDE DEF parts, m
  <2>2. QED
    BY <2>1
<1> HIDE DEF parts, m
<1>3. Len(parts) = m
  BY <1>1, <1>2, FunctionIsSeq
<1>4. QED
  BY <1>3 DEF parts, m

(***************************************************************************)
(* Three separators, with single tokens between and behind them: Split     *)
(* finds the four fields.                                                  *)
(***************************************************************************)
LEMMA FourParts ==
    ASSUME NEW text \in Seq(Tokens), NEW n \in Nat,
           Len(text) = n + 6, Seps(text) = {n + 1, n + 3, n + 5}
    PROVE  LET parts == Split(text)
           IN  /\ Len(parts) = 4
               /\ parts[1] \in Seq(Tokens) /\ Len(parts[1]) = n
               /\ \A i \in 1 .. n : parts[1][i] = text[i]
               /\ Len(parts[2]) = 1 /\ parts[2][1] = text[n + 2]
               /\ Len(parts[3]) = 1 /\ parts[3][1] = text[n + 4]
               /\ Len(parts[4]) = 1 /\ parts[4][1] = text[n + 6]
<1> DEFINE parts == Split(text)
<1>1. Marks(text) = {0, n + 1, n + 3, n + 5, n + 7}
  BY DEF Marks
<1>2. /\ Cut(text, 0) = 0 /\ Cut(text, 1) = n + 1 /\ Cut(text, 2) = n + 3
      /\ Cut(text, 3) = n + 5 /\ Cut(text, 4) = n + 7
  <2>1. /\ 0 < n + 1 /\ n + 1 < n + 3 /\ n + 3 < n + 5 /\ n + 5 < n + 7
        /\ n + 1 \in Int /\ n + 3 \in Int /\ n + 5 \in Int /\ n + 7 \in Int
    OBVIOUS
  <2>2. QED
    BY <1>1, <2>1, FiveCuts
<1>3. Cardinality(Seps(text)) = 3
  <2>1. n + 1 # n + 3 /\ n + 1 # n + 5 /\ n + 3 # n + 5
    OBVIOUS
  <2>2. Cardinality({n + 1, n + 3, n + 5}) = 3
    BY <2>1, TripleSize
  <2>3. QED
    BY <2>2
<1>4. /\ Len(parts) = 4
      /\ \A k \in 1 .. 4 :
            parts[k] = SubSeq(text, Cut(text, k - 1) + 1, Cut(text, k) - 1)
  <2>1. Cardinality(Seps(text)) + 1 = 4
    BY <1>3
  <2>2. parts = [k \in 1 .. 4 |-> SubSeq(text, Cut(text, k - 1) + 1, Cut(text, k) - 1)]
    BY <2>1, Zenon DEF Split
  <2>3. Len(parts) = 4
    BY <2>1, SplitLength
  <2>4. QED
    BY <2>2, <2>3
<1>5. /\ parts[1] = SubSeq(text, 1, n)
      /\ parts[2] = SubSeq(text, n + 2, n + 2)
      /\ parts[3] = SubSeq(text, n + 4, n + 4)
      /\ parts[4] = SubSeq(text, n + 6, n + 6)
  <2> HIDE DEF parts
  <2>1. /\ 1 \in 1 .. 4 /\ 2 \in 1 .. 4 /\ 3 \in 1 .. 4 /\ 4 \in 1 .. 4
        /\ 1 - 1 = 0 /\ 2 - 1 = 1 /\ 3 - 1 = 2 /\ 4 - 1 = 3
        /\ 0 + 1 = 1 /\ (n + 1) - 1 = n
        /\ (n + 1) + 1 = n + 2 /\ (n + 3) - 1 = n + 2
        /\ (n + 3) + 1 = n + 4 /\ (n + 5) - 1 = n + 4
        /\ (n + 5) + 1 = n + 6 /\ (n + 7) - 1 = n + 6
    OBVIOUS
  <2>2. /\ parts[1] = SubSeq(text, Cut(text, 0) + 1, Cut(text, 1) - 1)
        /\ parts[2] = SubSeq(text, Cut(text, 1) + 1, Cut(text, 2) - 1)
        /\ parts[3] = SubSeq(text, Cut(text, 2) + 1, Cut(text, 3) - 1)
        /\ parts[4] = SubSeq(text, Cut(text, 3) + 1, Cut(text, 4) - 1)
    BY <1>4, <2>1
  <2>3. QED
    BY <1>2, <2>1, <2>2
<1>6. \A i \in 1 .. n + 6 : text[i] \in Tokens
  BY ElementOfSeq
<1>7. /\ SubSeq(text, 1, n) \in Seq(Tokens)
      /\ Len(SubSeq(text, 1, n)) = n
      /\ \A i \in 1 .. n : SubSeq(text, 1, n)[i] = text[i]
  <2>1. \A i \in 1 .. n : text[i] \in Tokens
    BY <1>6
  <2>2. /\ SubSeq(text, 1, n) \in Seq(Tokens)
        /\ Len(SubSeq(text, 1, n)) = IF 1 <= n THEN n - 1 + 1 ELSE 0
        /\ \A i \in 1 .. n - 1 + 1 : SubSeq(text, 1, n)[i] = text[1 + i - 1]
    BY <2>1, SubSeqProperties
  <2>3. \A i \in 1 .. n : i \in 1 .. n - 1 + 1 /\ 1 + i - 1 = i
    OBVIOUS
  <2>4. (IF 1 <= n THEN n - 1 + 1 ELSE 0) = n
    OBVIOUS
  <2>5. QED
    BY <2>2, <2>3, <2>4
<1>8. ASSUME NEW m \in {n + 2, n + 4, n + 6}
      PROVE  Len(SubSeq(text, m, m)) = 1 /\ SubSeq(text, m, m)[1] = text[m]
  <2>1. m \in Int /\ text[m] \in Tokens
    BY <1>6
  <2>2. QED
    BY <2>1, SubSeqOne
<1>9. QED
  BY <1>4, <1>5, <1>7, <1>8

\* A separator in the ticker makes four.
LEMMA FourSeps ==
    ASSUME NEW n \in Nat, NEW i \in 1 .. n
    PROVE  Cardinality({i, n + 1, n + 3, n + 5}) = 4
<1> DEFINE a == n + 1
           b == n + 3
           c == n + 5
<1>1. i # a /\ i # b /\ i # c /\ a # b /\ a # c /\ b # c
  OBVIOUS
<1> HIDE DEF a, b, c
<1>2. Cardinality({i, a, b, c}) = 4
  BY <1>1, QuadrupleSize
<1>3. QED
  BY <1>2 DEF a, b, c

(***************************************************************************)
(* from_string gives back every quote whose ticker has no separator in it, *)
(* and refuses the text of every other one.                                *)
(***************************************************************************)
LEMMA ParseOfDisplay == QuoteTypeOK => ParseInvertsDisplay
<1> SUFFICES ASSUME QuoteTypeOK PROVE ParseInvertsDisplay
  OBVIOUS
<1> DEFINE text == ToBytes(quote)
           n == Len(quote.ticker)
           parts == Split(text)
<1>1. /\ quote.ticker \in Seq(Tokens) /\ quote.price \in Nat
      /\ quote.volume \in 0 .. MaxU32 /\ quote.timestamp \in 0 .. MaxU64
      /\ quote.volume \in Nat /\ quote.timestamp \in Nat
  <2>1. /\ quote.ticker \in TickerTexts /\ quote.price \in Prices
        /\ quote.volume \in 0 .. MaxU32 /\ quote.timestamp \in 0 .. MaxU64
    BY DEF QuoteTypeOK
  <2>2. 0 .. MaxU32 \subseteq Nat /\ 0 .. MaxU64 \subseteq Nat
    BY StockQuoteAssumption
  <2>3. QED
    BY <2>1, <2>2, StockQuoteAssumption
<1>2. /\ n \in Nat
      /\ text \in Seq(Tokens)
      /\ Len(text) = n + 6
      /\ \A i \in 1 .. n : text[i] = quote.ticker[i]
      /\ text[n + 1] = Sep /\ text[n + 2] = Num(quote.price)
      /\ text[n + 3] = Sep /\ text[n + 4] = Num(quote.volume)
      /\ text[n + 5] = Sep /\ text[n + 6] = Num(quote.timestamp)
  BY <1>1, DisplayText DEF ToBytes
<1>3. /\ Seps(text) = {i \in 1 .. n + 6 : text[i] = Sep}
      /\ Seps(quote.ticker) = {i \in 1 .. n : quote.ticker[i] = Sep}
  BY <1>1, <1>2, LenProperties DEF Seps
<1> HIDE DEF text, n, parts
<1>4. CASE Seps(quote.ticker) = {}
  <2>1. Seps(text) = {n + 1, n + 3, n + 5}
    <3>1. ASSUME NEW i \in 1 .. n PROVE text[i] # Sep
      BY <1>2, <1>3, <1>4
    <3>2. text[n + 2] # Sep /\ text[n + 4] # Sep /\ text[n + 6] # Sep
      BY <1>1, <1>2, TokenTypes
    <3>3. \A i \in 1 .. n + 6 : \/ i \in 1 .. n
                                \/ i = n + 1 \/ i = n + 2 \/ i = n + 3
                                \/ i = n + 4 \/ i = n + 5 \/ i = n + 6
      BY <1>2
    <3>4. {n + 1, n + 3, n + 5} \subseteq 1 .. n + 6
      BY <1>2
    <3>5. QED
      BY <1>2, <1>3, <3>1, <3>2, <3>3, <3>4
  <2>2. /\ Len(parts) = 4
        /\ parts[1] \in Seq(Tokens) /\ Len(parts[1]) = n
        /\ \A i \in 1 .. n : parts[1][i] = text[i]
        /\ Len(parts[2]) = 1 /\ parts[2][1] = text[n + 2]
        /\ Len(parts[3]) = 1 /\ parts[3][1] = text[n + 4]
        /\ Len(parts[4]) = 1 /\ parts[4][1] = text[n + 6]
    BY <1>2, <2>1, FourParts DEF parts
  <2>3. parts[1] = quote.ticker
    <3>1. Len(parts[1]) = Len(quote.ticker)
          /\ \A i \in 1 .. Len(parts[1]) : parts[1][i] = quote.ticker[i]
      BY <1>2, <2>2 DEF n
    <3>2. QED
      BY <1>1, <2>2, <3>1, SeqEqual
  <2>4. /\ IsNumber(parts[2]) /\ parts[2][1].is = quote.price
        /\ Fits(parts[3], MaxU32) /\ parts[3][1].is = quote.volume
        /\ Fits(parts[4], MaxU64) /\ parts[4][1].is = quote.timestamp
    BY <1>1, <1>2, <2>2 DEF IsNumber, Fits, Num
  <2>5. FromString(text) =
          <<[ticker |-> quote.ticker, price |-> quote.price,
             volume |-> quote.volume, timestamp |-> quote.timestamp]>>
    BY <2>2, <2>3, <2>4 DEF FromString, FourFields, parts
  <2>6. quote = [ticker |-> quote.ticker, price |-> quote.price,
                 volume |-> quote.volume, timestamp |-> quote.timestamp]
    BY DEF QuoteTypeOK
  <2>7. QED
    BY <1>4, <2>5, <2>6 DEF ParseInvertsDisplay, text
<1>5. CASE Seps(quote.ticker) # {}
  <2>1. PICK i \in 1 .. n : quote.ticker[i] = Sep
    BY <1>3, <1>5
  <2>2. {i, n + 1, n + 3, n + 5} \subseteq Seps(text)
    BY <1>2, <1>3, <2>1
  <2>3. Cardinality({i, n + 1, n + 3, n + 5}) = 4
    BY <1>2, FourSeps
  <2>4. IsFiniteSet(Seps(text)) /\ Cardinality(Seps(text)) \in Nat
    BY <1>2, SepsFinite
  <2>5. Cardinality(Seps(text)) >= 4
    <3>1. Cardinality({i, n + 1, n + 3, n + 5}) <= Cardinality(Seps(text))
      BY <2>2, <2>4, FS_Subset
    <3>2. QED
      BY <2>3, <2>4, <3>1
  <2>6. Len(parts) = Cardinality(Seps(text)) + 1
    BY <1>2, SplitLength DEF parts
  <2>7. Len(parts) # 4
    BY <2>4, <2>5, <2>6
  <2>8. FromString(text) = None
    BY <2>7 DEF FromString, FourFields, parts
  <2>9. QED
    BY <1>5, <2>8 DEF ParseInvertsDisplay, text
<1>6. QED
  BY <1>4, <1>5

(***************************************************************************)
(* StockQuote::from_string gives back every quote that Display or to_bytes *)
(* has written, for a ticker without a separator of any length, and        *)
(* refuses the text of every other quote: it never reads one field for     *)
(* another.                                                                *)
(***************************************************************************)
THEOREM ParseInvertsDisplayHolds == QuoteSpec => []ParseInvertsDisplay
BY QuoteTypes, ParseOfDisplay, PTL
=============================================================================
