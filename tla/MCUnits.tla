------------------------------ MODULE MCUnits ------------------------------
(***************************************************************************)
(* The leaf packages in one run: the histogram as a state machine, and the *)
(* pure functions of FixedPoint and JsonScan on every input of small sets, *)
(* each input an initial state of its own.                                 *)
(***************************************************************************)
EXTENDS FixedPoint, JsonScan, Histogram

CONSTANTS
    TextLen,     \* bound: characters of a decimal
    MaxDecimals  \* bound: decimals of an instrument

\* One for every bucket, and one from a clock that is behind.
MCDurations == {-1, 1, 3, 5}

VARIABLE input   \* what a pure function is given

\* Digits around 15 and 16, where an integer of five bits overflows, and 31 and
\* 32, where an unsigned one does, and what else a decimal may hold.
Characters == {0, 1, 2, 3, 5, 6, Minus, Dot, Other}

Decimals == [unit : {"parse"}, text : BoundedSeq(Characters, TextLen), decimals : 0 .. MaxDecimals]
Numbers  == [unit : {"format"}, v : MinInt .. MaxInt, decimals : 0 .. MaxDecimals + 1]
Products == [unit : {"notional"}, p : MinInt .. MaxInt, q : MinInt .. MaxInt]

\* Tick sizes: 1, 5, 10.0, 0.5, 0.01, 0.10, 0.0500
Ticks ==
    [unit : {"tick"}, k : 0 .. MaxInt, pad : 0 .. 3,
     tick : {<<1>>, <<5>>, <<1, 0, Dot, 0>>, <<0, Dot, 5>>, <<0, Dot, 0, 1>>,
             <<0, Dot, 1, 0>>, <<0, Dot, 0, 5, 0, 0>>}]

\* JSON text, with and without white space around every token.
Quoted(s)  == <<Quote>> \o s \o <<Quote>>
Comma(s)   == <<",">> \o s
Member(m, ws) == ws \o Quoted(m[1]) \o ws \o <<":">> \o ws \o m[2] \o ws
Object(ms, ws) ==
    <<"{">> \o ws \o
    (CASE Len(ms) = 0 -> <<>>
       [] Len(ms) = 1 -> Member(ms[1], ws)
       [] OTHER -> Member(ms[1], ws) \o Comma(Member(ms[2], ws))) \o <<"}">>

\* Strings that hold what ends other things, quotes and backslashes.
Strings == {Quoted(<<>>), Quoted(<<"e">>), Quoted(<<"}", ",">>),
            Quoted(<<Escape, Quote, "]">>), Quoted(<<Escape, Escape>>)}
Flat    == Strings \cup {<<"1", "1">>, <<"n">>}
Nested  == {<<"[", "]">>, <<"[", "1", ",", "{", "}", "]">>}
               \cup {<<"[">> \o s \o <<"]">> : s \in Strings}
               \cup {Object(<< <<<<"e">>, s>> >>, ws) : s \in Strings, ws \in {<<>>, <<Space>>}}
Names   == {<<"e">>, <<"d">>, <<"}">>}
Members == Names \X (Flat \cup Nested)

Objects ==
    [unit : {"scan"}, ws : {<<>>, <<Space>>},
     ms : {ms \in BoundedSeq(Members, 2) : Len(ms) = 2 => ms[1][1] # ms[2][1]}]

\* A payload, and whether a combined stream wraps it.
Frames ==
    [unit : {"frame"}, ws : {<<>>, <<Space>>}, wrapped : BOOLEAN,
     ms : {ms \in BoundedSeq({<<"e">>, <<"}">>} \X Flat, 2) : Len(ms) = 2 => ms[1][1] # ms[2][1]}]

MCInit ==
    /\ HInit
    /\ \/ input = [unit |-> "histogram"]
       \/ input \in Decimals \/ input \in Numbers \/ input \in Products \/ input \in Ticks
       \/ input \in Objects \/ input \in Frames

MCNext ==
    /\ input.unit = "histogram"
    /\ HNext
    /\ UNCHANGED input

MCSpec == MCInit /\ [][MCNext]_<<hvars, input>>

\* fixed.go and sizeDecimals: text becomes exactly the number it says or is
\* refused, decimal text with the right error; formatting is undone by parsing
\* at the edges of the width too, a product is exact or flagged, and every
\* multiple of a tick size parses at the instrument's decimals.
FixedPointIsExact ==
    CASE input.unit = "parse" -> ParsesExactly(input.text, input.decimals)
      [] input.unit = "format" -> RoundTrips(input.v, input.decimals)
      [] input.unit = "notional" -> MultipliesExactly(input.p, input.q)
      [] input.unit = "tick" -> TicksParse(input.tick, input.k, input.pad)
      [] OTHER -> TRUE

ValueOf(ms, key) ==
    IF \E i \in DOMAIN ms : ms[i][1] = key
    THEN ms[CHOOSE i \in DOMAIN ms : ms[i][1] = key][2] ELSE <<>>

\* A string with no escape in it, which StringField hands out.
Plain(v) == IF v \in Strings /\ ~Contains(v, Escape) THEN v ELSE <<>>

\* jsonscan.go and the routing of Decode: on an object the scanner finds the
\* value of every key that is there, whole, and no other; on a frame that was
\* cut short it finds that value or nothing; the event type is the one inside
\* the envelope when there is one.
ScanFindsTheValue ==
    CASE input.unit = "scan" ->
            LET text == Object(input.ms, input.ws)
            IN  \A key \in Names :
                    /\ FieldValue(text, key) = ValueOf(input.ms, key)
                    /\ StringField(text, key) = Plain(ValueOf(input.ms, key))
                    /\ \A n \in 0 .. Len(text) - 1 :
                          FieldValue(SubSeq(text, 1, n), key) \in {<<>>, ValueOf(input.ms, key)}
      [] input.unit = "frame" ->
            LET payload == Object(input.ms, input.ws)
                frame   == IF input.wrapped
                           THEN Object(<< <<<<"s">>, Quoted(<<"e">>)>>, <<<<"d">>, payload>> >>, input.ws)
                           ELSE payload
            IN  EventType(frame) = Plain(ValueOf(input.ms, <<"e">>))
      [] OTHER -> TRUE
=============================================================================
