----------------------------- MODULE JsonScan -----------------------------
(***************************************************************************)
(* internal/exchange/binance/jsonscan.go: the scanner that finds one field *)
(* of a frame without parsing the frame, and the routing decision Decode   *)
(* takes with it.  A frame is a sequence of characters; Space stands for   *)
(* all white space, and every character that is neither structural, a      *)
(* quote, a backslash nor a space is one more member of the alphabet.      *)
(*                                                                         *)
(* Indexes start at one; 0 says that a scan failed.  A field's value is    *)
(* never empty, so <<>> says that a field was not found.                   *)
(***************************************************************************)
EXTENDS Integers, Sequences

Quote  == "quote"
Escape == "escape"
Space  == "space"

At(data, i) == IF i \in 1 .. Len(data) THEN data[i] ELSE "end"

\* skipSpace
SkipSpace(data, i) ==
    LET f[j \in i .. Len(data) + 2] == IF At(data, j) = Space THEN f[j + 1] ELSE j
    IN  f[i]

\* Mutant: what follows a backslash is not skipped.
ScanStringPlainly(data, i) ==
    LET f[j \in i + 1 .. Len(data) + 2] ==
            IF j > Len(data) THEN 0
            ELSE IF data[j] = Quote THEN j + 1
            ELSE f[j + 1]
    IN  f[i + 1]

\* scanString: the index past the closing quote of the string that opens at i.
ScanString(data, i) ==
    LET f[j \in i + 1 .. Len(data) + 2] ==
            IF j > Len(data) THEN 0
            ELSE IF data[j] = Escape THEN f[j + 2]
            ELSE IF data[j] = Quote THEN j + 1
            ELSE f[j + 1]
    IN  f[i + 1]

\* The index past an object or array that opens at i.
SkipNested(data, i) ==
    LET f[j \in i .. Len(data) + 1, depth \in 0 .. Len(data)] ==
            CASE At(data, j) = "end" -> 0
              [] At(data, j) \in {"{", "["} -> f[j + 1, depth + 1]
              [] At(data, j) \in {"}", "]"} -> IF depth = 1 THEN j + 1 ELSE f[j + 1, depth - 1]
              [] At(data, j) = Quote -> LET next == ScanString(data, j)
                                        IN  IF next = 0 THEN 0 ELSE f[next, depth]
              [] OTHER -> f[j + 1, depth]
    IN  f[i, 0]

\* A number, true, false or null: up to the next structural character.
SkipLiteral(data, i) ==
    LET f[j \in i .. Len(data) + 1] ==
            CASE At(data, j) = "end" -> 0
              [] At(data, j) \in {",", "}", "]", Space} -> IF j = i THEN 0 ELSE j
              [] OTHER -> f[j + 1]
    IN  f[i]

\* skipValue: the index past the value that starts at i.
SkipValue(data, i) ==
    CASE At(data, i) = "end" -> 0
      [] At(data, i) = Quote -> ScanString(data, i)
      [] At(data, i) \in {"{", "["} -> SkipNested(data, i)
      [] OTHER -> SkipLiteral(data, i)

\* fieldValue: the raw value of a top-level key.
FieldValue(data, key) ==
    LET open == SkipSpace(data, 1)
        f[j \in 1 .. Len(data) + 2] ==
            LET i     == SkipSpace(data, j)
                past  == ScanString(data, i)
                colon == SkipSpace(data, past)
                start == SkipSpace(data, colon + 1)
                end   == SkipValue(data, start)
                comma == SkipSpace(data, end)
            IN  IF At(data, i) # Quote \/ past = 0 THEN <<>>
                ELSE IF At(data, colon) # ":" \/ end = 0 THEN <<>>
                ELSE IF SubSeq(data, i + 1, past - 2) = key THEN SubSeq(data, start, end - 1)
                ELSE IF At(data, comma) # "," THEN <<>>
                ELSE f[comma + 1]
    IN  IF At(data, open) # "{" THEN <<>> ELSE f[open + 1]

\* stringField: the value of a key that holds a string with no escape in it,
\* still in its quotes.
StringField(data, key) ==
    LET raw == FieldValue(data, key)
    IN  IF \/ Len(raw) < 2
           \/ raw[1] # Quote \/ raw[Len(raw)] # Quote
           \/ \E i \in 2 .. Len(raw) - 1 : raw[i] = Escape
        THEN <<>> ELSE raw

\* Decode: the envelope of a combined stream is taken off once, and the event
\* type routes what is inside.
EventType(frame) ==
    LET data == FieldValue(frame, <<"d">>)
    IN  StringField(IF data = <<>> THEN frame ELSE data, <<"e">>)
=============================================================================
