---------------------------- MODULE FixedPoint ----------------------------
(***************************************************************************)
(* internal/model/fixed.go: decimal text to and from fixed-point integers, *)
(* and sizeDecimals of the exchange information, which says how many       *)
(* decimals an instrument has.                                             *)
(*                                                                         *)
(* A character is a digit, or one of Minus, Dot and Other; an integer has  *)
(* Width bits.  A result is a record: an error, or "none" and a value.     *)
(***************************************************************************)
EXTENDS Integers, SequencesExt

CONSTANT Width   \* 64 in the code

ASSUME WidthAssumption == Width \in Nat \ {0}

Minus == 10
Dot   == 11
Other == 12

MaxInt  == 2 ^ (Width - 1) - 1
MinInt  == -(2 ^ (Width - 1))
MaxUint == 2 ^ Width - 1

Value(v) == [err |-> "none", val |-> v]
Fails(e) == [err |-> e, val |-> 0]

Zeros(n) == [i \in 1 .. n |-> 0]

\* strings.Cut at the first dot, and whether there is one.
Cut(s) ==
    LET i == SelectInSeq(s, LAMBDA c : c = Dot)
    IN  IF i = 0 THEN [before |-> s, after |-> <<>>, found |-> FALSE]
        ELSE [before |-> SubSeq(s, 1, i - 1), after |-> SubSeq(s, i + 1, Len(s)),
              found |-> TRUE]

\* strconv.ParseUint: it stops at the first character that is no digit, or
\* the first digit that takes the value out of range.
ParseUint(s) ==
    IF s = <<>> THEN Fails("syntax")
    ELSE FoldLeft(LAMBDA r, c :
                     IF r.err # "none" THEN r
                     ELSE IF c > 9 THEN Fails("syntax")
                     ELSE IF 10 * r.val + c > MaxUint THEN Fails("overflow")
                     ELSE Value(10 * r.val + c),
                  Value(0), s)

\* Mutant: digits past the exponent are dropped whatever they are.
LosesDigitsNever(frac, decimals) == FALSE

\* Some digit past the instrument's exponent is not zero.
LosesDigits(frac, decimals) ==
    \E i \in decimals + 1 .. Len(frac) : frac[i] # 0

ParseFixed(s, decimals) ==
    LET neg   == s # <<>> /\ Head(s) = Minus
        rest  == IF neg THEN Tail(s) ELSE s
        parts == Cut(rest)
        int   == IF parts.before = <<>> THEN <<0>> ELSE parts.before
        frac  == IF Len(parts.after) > decimals THEN SubSeq(parts.after, 1, decimals)
                 ELSE parts.after \o Zeros(decimals - Len(parts.after))
        r     == ParseUint(int \o frac)
    IN  CASE rest = <<>> -> Fails("syntax")
          [] rest # <<>> /\ LosesDigits(parts.after, decimals) -> Fails("decimals")
          [] OTHER ->
                IF r.err # "none" THEN r
                ELSE IF neg THEN IF -r.val < MinInt THEN Fails("overflow") ELSE Value(-r.val)
                ELSE IF r.val > MaxInt THEN Fails("overflow") ELSE Value(r.val)

\* strconv.FormatUint
Digits(n) ==
    LET d[m \in 0 .. n] == IF m < 10 THEN <<m>> ELSE Append(d[m \div 10], m % 10)
    IN  d[n]

FormatFixed(v, decimals) ==
    LET digits == Digits(IF v < 0 THEN -v ELSE v)
        padded == IF Len(digits) <= decimals THEN Zeros(decimals - Len(digits) + 1) \o digits
                  ELSE digits
        split  == Len(padded) - decimals
    IN  (IF v < 0 THEN <<Minus>> ELSE <<>>)
        \o SubSeq(padded, 1, split)
        \o (IF decimals <= 0 THEN <<>> ELSE <<Dot>> \o SubSeq(padded, split + 1, Len(padded)))

\* Notional: the product as bits.Mul64 gives it, in two words.
Notional(p, q) ==
    LET hi == (p * q) \div 2 ^ Width
        lo == (p * q) % 2 ^ Width
    IN  IF p < 0 \/ q < 0 \/ hi # 0 \/ lo > MaxInt THEN Fails("overflow") ELSE Value(lo)

\* sizeDecimals: how many fractional digits are left of a tick size without
\* its trailing zeros.
SizeDecimals(s) ==
    LET frac == Cut(s).after
    IN  IF \A i \in DOMAIN frac : frac[i] = 0 THEN 0
        ELSE CHOOSE i \in DOMAIN frac : frac[i] # 0 /\ \A j \in i + 1 .. Len(frac) : frac[j] = 0

-----------------------------------------------------------------------------
(***************************************************************************)
(* What decimal text means, said without looking at the parser.            *)
(***************************************************************************)
IsDecimal(s) ==
    LET rest == IF s # <<>> /\ Head(s) = Minus THEN Tail(s) ELSE s
    IN  /\ rest # <<>>
        /\ \A i \in DOMAIN rest : rest[i] \in 0 .. 9 \cup {Dot}
        /\ \A i, j \in DOMAIN rest : rest[i] = Dot /\ rest[j] = Dot => i = j

\* The digits as one number, and how many of them follow the dot.
Mantissa(s) ==
    LET m == FoldLeft(LAMBDA a, c : IF c > 9 THEN a ELSE 10 * a + c, 0, s)
    IN  IF Head(s) = Minus THEN -m ELSE m

Scale(s) == LET dots == {i \in DOMAIN s : s[i] = Dot}
            IN  IF dots = {} THEN 0 ELSE Len(s) - CHOOSE i \in dots : TRUE

\* ParseFixed: text is refused, or becomes exactly the number it says.
ParsesExactly(s, decimals) ==
    LET r     == ParseFixed(s, decimals)
        v     == Mantissa(s) * 10 ^ decimals
        whole == v % 10 ^ Scale(s) = 0
        exact == v \div 10 ^ Scale(s)
    IN  IF ~IsDecimal(s) THEN r.err # "none"
        ELSE r = CASE ~whole -> Fails("decimals")
                   [] whole /\ exact \notin MinInt .. MaxInt -> Fails("overflow")
                   [] OTHER -> Value(exact)

\* FormatFixed is the inverse of ParseFixed, at the smallest integer too.
RoundTrips(v, decimals) == ParseFixed(FormatFixed(v, decimals), decimals) = Value(v)

\* Notional: the product, or an overflow when there is none to give.
MultipliesExactly(p, q) ==
    Notional(p, q) = IF p >= 0 /\ q >= 0 /\ p * q <= MaxInt THEN Value(p * q)
                     ELSE Fails("overflow")

\* Every multiple of an instrument's tick size parses at the decimals the
\* cache gives the instrument, however many zeros the venue pads it with.
TicksParse(tick, k, pad) ==
    LET d     == SizeDecimals(tick)
        ticks == ParseFixed(tick, d)
        text  == FormatFixed(k * ticks.val, d)
        sent  == (IF d = 0 /\ pad > 0 THEN Append(text, Dot) ELSE text) \o Zeros(pad)
    IN  IsDecimal(tick) /\ ticks.err = "none" /\ k * ticks.val \in MinInt .. MaxInt
            => ParseFixed(sent, d) = Value(k * ticks.val)
=============================================================================
