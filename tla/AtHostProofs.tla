---------------------------- MODULE AtHostProofs ----------------------------
(***************************************************************************)
(* The two buffers are never overrun, and, where a line ending arrives     *)
(* whole, a command leaves nothing behind and a payload arrives as it was  *)
(* written: for every size of the line buffer and of the chunks, and every *)
(* set of payload lengths.                                                 *)
(*                                                                         *)
(* Host and parser go through a command together: Phase names the stages.  *)
(* That a chunk does not split the line ending is used once, at the "cr":  *)
(* its "lf" is then in the same call, and is skipped or ends an empty line *)
(* before the host reads the answer.                                       *)
(***************************************************************************)
EXTENDS AtHost, TLAPS

Clean == parser.line = <<>> /\ ~parser.overflow /\ ~parser.payload_mode

Unsplit ==
    left > 0 /\ left < Len(wire) => ~(wire[left] = "cr" /\ wire[left + 1] = "lf")

\* The wire ends with the line ending of a line of which something is in front of it.
LineComing ==
    /\ ~parser.payload_mode /\ answers = <<>>
    /\ Len(wire) >= 2 /\ wire[Len(wire) - 1] = "cr" /\ wire[Len(wire)] = "lf"
    /\ \A i \in 1..(Len(wire) - 2) : wire[i] \notin Endings
    /\ Len(wire) = 2 \/ parser.overflow => parser.line # <<>>

\* No AT+SEND is coming.
NoSend ==
    /\ \A i \in 1..Len(wire) : wire[i] \notin DOMAIN SendLens
    /\ \A i \in 1..Len(parser.line) : parser.line[i] \notin DOMAIN SendLens

\* The AT+SEND the host waits for is coming, or is the line so far.
SendComing ==
    /\ ~parser.overflow
    /\ \/ /\ parser.line = <<>> /\ Len(wire) = 3
          /\ wire[1] \in DOMAIN SendLens /\ SendLens[wire[1]] = asked
       \/ /\ Len(wire) = 2 /\ IsSend(parser.line)
          /\ SendLens[parser.line[1]] = asked

LfLeft == Len(wire) = 1 /\ wire[1] = "lf" /\ left = 1

Answered == Len(answers) = 1 /\ answers[1] \in {"ok", "err"}

\* The payload the host wrote is in the buffer and on the wire.
PayloadComing ==
    /\ parser.line = <<>> /\ ~parser.overflow /\ parser.payload_mode
    /\ parser.expected = Len(given)
    /\ Len(parser.payload) + Len(wire) = Len(given)
    /\ \A i \in 1..Len(parser.payload) : parser.payload[i] = given[i]
    /\ \A i \in 1..Len(wire) : wire[i] = given[Len(parser.payload) + i]

Idle == host = "idle" /\ Clean /\ wire = <<>> /\ answers = <<>>

CommandWritten == host = "answer" /\ sent = <<>> /\ LineComing /\ NoSend

CommandDone == host = "answer" /\ Clean /\ Answered /\ (wire = <<>> \/ LfLeft)

SendWritten == host = "prompt" /\ sent = <<>> /\ LineComing /\ SendComing

SendPrompted ==
    /\ host = "prompt" /\ sent = <<>>
    /\ parser.line = <<>> /\ ~parser.overflow /\ parser.payload_mode
    /\ parser.payload = <<>> /\ parser.expected = asked
    /\ Len(answers) = 1 /\ answers[1] = "prompt"
    /\ wire = <<>> \/ (LfLeft /\ skip)

PayloadWritten ==
    /\ host = "answer" /\ sent = <<>> /\ answers = <<>>
    /\ left > 0 => ~skip
    /\ PayloadComing

Phase ==
    \/ Idle \/ CommandWritten \/ CommandDone
    \/ SendWritten \/ SendPrompted \/ PayloadWritten

HostInv == ~restarted => Phase /\ PayloadIntact

----------------------------------------------------------------------------
\* What is left of a sequence when its first item is taken.
LEMMA Taken ==
    ASSUME NEW S, NEW s \in Seq(S), s # <<>>
    PROVE  /\ Head(s) = s[1] /\ Head(s) \in S
           /\ Tail(s) \in Seq(S) /\ Len(Tail(s)) = Len(s) - 1
           /\ Len(s) \in Nat /\ Len(s) >= 1
           /\ \A i \in 1..(Len(s) - 1) : Tail(s)[i] = s[i + 1]
  OBVIOUS

LEMMA Appended ==
    ASSUME NEW S, NEW s \in Seq(S), NEW e \in S
    PROVE  /\ Append(s, e) \in Seq(S) /\ Len(Append(s, e)) = Len(s) + 1
           /\ Append(s, e)[Len(s) + 1] = e
           /\ \A i \in 1..Len(s) : Append(s, e)[i] = s[i]
  OBVIOUS

LEMMA Empty ==
    ASSUME NEW S
    PROVE  <<>> \in Seq(S) /\ Len(<<>>) = 0
  OBVIOUS

LEMMA Lengths ==
    ASSUME NEW S, NEW s \in Seq(S)
    PROVE  /\ Len(s) \in Nat /\ (s = <<>> <=> Len(s) = 0)
           /\ \A i \in 1..Len(s) : s[i] \in S
  OBVIOUS

LEMMA SameSequence ==
    ASSUME NEW S, NEW s \in Seq(S), NEW t \in Seq(S), Len(s) = Len(t),
           \A i \in 1..Len(s) : s[i] = t[i]
    PROVE  s = t
  OBVIOUS

\* A line with its ending, on a wire.
LEMMA WithEnding ==
    ASSUME NEW w \in Seq(Item), NEW line \in Seq(Item)
    PROVE  /\ w \o line \o <<"cr", "lf">> \in Seq(Item)
           /\ w = <<>> =>
                LET v == w \o line \o <<"cr", "lf">>
                IN  /\ Len(v) = Len(line) + 2
                    /\ v[Len(line) + 1] = "cr" /\ v[Len(line) + 2] = "lf"
                    /\ \A i \in 1..Len(line) : v[i] = line[i]
<1>1. <<"cr", "lf">> \in Seq(Item)
  BY DEF Item, Endings
<1>2. w \o line \in Seq(Item) /\ Len(w \o line) = Len(w) + Len(line)
  OBVIOUS
<1>3. w \o line \o <<"cr", "lf">> \in Seq(Item)
  BY <1>1, <1>2
<1>4. ASSUME w = <<>>
      PROVE  w \o line = line
  BY <1>4
<1> DEFINE v == line \o <<"cr", "lf">>
<1>5. /\ Len(v) = Len(line) + 2
      /\ v[Len(line) + 1] = "cr" /\ v[Len(line) + 2] = "lf"
      /\ \A i \in 1..Len(line) : v[i] = line[i]
  BY <1>1
<1> QED
  BY <1>3, <1>4, <1>5

\* What the host may write as a line.
LEMMA Written ==
    /\ \A line \in {<<"A", "T">>, Operation, Overlong} :
          /\ line \in Seq(Item) /\ Len(line) >= 1
          /\ \A i \in 1..Len(line) : line[i] \notin Endings \union DOMAIN SendLens
    /\ \A s \in DOMAIN SendLens : /\ <<s>> \in Seq(Item) /\ Len(<<s>>) = 1 /\ <<s>>[1] = s
                                  /\ s \notin Endings
<1>1. /\ <<"A", "T">> \in Seq(Item) /\ Len(<<"A", "T">>) = 2
      /\ <<"A", "T">>[1] = "A" /\ <<"A", "T">>[2] = "T"
  BY DEF Item
<1>2. /\ Operation \in Seq(Item) /\ Len(Operation) = 1 /\ Operation[1] = "op"
  BY DEF Item, Operation
<1>3. /\ Overlong \in Seq(Item) /\ Len(Overlong) = LineMax + 1
      /\ \A i \in 1..(LineMax + 1) : Overlong[i] = "x"
  BY ChunkAssumption DEF Item, Overlong
<1>4. {"A", "T", "x", "op"} \cap (Endings \union DOMAIN SendLens) = {}
  BY SendAssumption DEF Endings
<1>5. LineMax \in Nat
  BY ChunkAssumption
<1>6. \A line \in {<<"A", "T">>, Operation, Overlong} :
          /\ line \in Seq(Item) /\ Len(line) >= 1
          /\ \A i \in 1..Len(line) : line[i] \in {"A", "T", "x", "op"}
  <2>1. \A i \in 1..2 : <<"A", "T">>[i] \in {"A", "T", "x", "op"}
    BY <1>1
  <2>2. \A i \in 1..1 : Operation[i] \in {"A", "T", "x", "op"}
    BY <1>2
  <2>3. \A i \in 1..(LineMax + 1) : Overlong[i] \in {"A", "T", "x", "op"}
    BY <1>3
  <2>4. Len(Overlong) >= 1
    BY <1>3, <1>5
  <2> SUFFICES ASSUME NEW line \in {<<"A", "T">>, Operation, Overlong}
               PROVE  /\ line \in Seq(Item) /\ Len(line) >= 1
                      /\ \A i \in 1..Len(line) : line[i] \in {"A", "T", "x", "op"}
    OBVIOUS
  <2>5. CASE line = <<"A", "T">>
    BY <1>1, <2>1, <2>5
  <2>6. CASE line = Operation
    BY <1>1, <1>2, <2>6 DEF Operation
  <2>7. CASE line = Overlong
    BY <1>3, <2>3, <2>4, <2>7
  <2> QED
    BY <2>5, <2>6, <2>7
<1>7. ASSUME NEW s \in DOMAIN SendLens
      PROVE  /\ <<s>> \in Seq(Item) /\ Len(<<s>>) = 1 /\ <<s>>[1] = s
             /\ s \notin Endings
  BY SendAssumption DEF Item
<1> QED
  BY <1>4, <1>6, <1>7

----------------------------------------------------------------------------
\* Types.

\* The parts of the type that one side changes.
ParserOK ==
    /\ parser \in [line : Seq(Item), overflow : BOOLEAN, payload_mode : BOOLEAN,
                   expected : Nat, payload : Seq(Item)]
    /\ Len(parser.line) <= LineMax
    /\ IF parser.payload_mode
       THEN parser.expected \in {SendLens[s] : s \in DOMAIN SendLens}
            /\ Len(parser.payload) < parser.expected
       ELSE parser.expected = 0 /\ parser.payload = <<>>

HostOK ==
    /\ given \in Seq(Item)
    /\ host \in {"idle", "answer", "prompt", "sync"}
    /\ asked \in {0} \union {SendLens[s] : s \in DOMAIN SendLens}
    /\ restarted \in BOOLEAN

Answers == Seq({"ok", "err", "prompt"})

LEMMA TypeParts ==
    TypeOK <=> /\ ParserOK /\ HostOK
               /\ wire \in Seq(Item) /\ left \in 0..Len(wire) /\ skip \in BOOLEAN
               /\ answers \in Answers /\ sent \in Seq(Item)
  BY DEF TypeOK, ParserOK, HostOK, Answers

LEMMA TypeInit == Init => TypeOK
<1> SUFFICES ASSUME Init PROVE TypeOK
  OBVIOUS
<1>1. <<>> \in Seq(Item) /\ <<>> \in Answers /\ Len(<<>>) = 0
  BY Empty DEF Answers
<1>2. parser \in [line : Seq(Item), overflow : BOOLEAN, payload_mode : BOOLEAN,
                  expected : Nat, payload : Seq(Item)]
  BY <1>1 DEF Init
<1>3. /\ parser.line = <<>> /\ ~parser.payload_mode
      /\ parser.expected = 0 /\ parser.payload = <<>>
  BY DEF Init
<1>4. ParserOK
  BY <1>1, <1>2, <1>3, ChunkAssumption DEF ParserOK
<1>5. HostOK
  BY <1>1 DEF Init, HostOK
<1>6. /\ wire \in Seq(Item) /\ left \in 0..Len(wire) /\ skip \in BOOLEAN
      /\ answers \in Answers /\ sent \in Seq(Item)
  <2>1. wire = <<>> /\ answers = <<>> /\ sent = <<>> /\ left = 0 /\ skip = FALSE
    BY DEF Init
  <2>2. Len(wire) = 0 /\ wire \in Seq(Item)
    BY <1>1, <2>1
  <2>3. left \in 0..Len(wire)
    BY <2>1, <2>2
  <2>4. answers \in Answers /\ sent \in Seq(Item) /\ skip \in BOOLEAN
    BY <1>1, <2>1
  <2> QED
    BY <2>2, <2>3, <2>4
<1> QED
  BY <1>4, <1>5, <1>6, TypeParts

\* The byte a call looks at.
LEMMA ByteTaken ==
    ASSUME TypeOK, TakeByte
    PROVE  /\ wire # <<>> /\ ch \in Item /\ ch = wire[1]
           /\ left \in Nat /\ left > 0 /\ left <= Len(wire) /\ Len(wire) \in Nat
           /\ wire' \in Seq(Item) /\ Len(wire') = Len(wire) - 1
           /\ \A i \in 1..(Len(wire) - 1) : wire'[i] = wire[i + 1]
           /\ left' = left - 1 /\ left' \in 0..Len(wire')
<1>1. wire \in Seq(Item) /\ left \in 0..Len(wire) /\ Len(wire) \in Nat
  BY Lengths DEF TypeOK
<1>2. wire # <<>>
  BY <1>1, Lengths DEF TakeByte
<1> QED
  BY <1>1, <1>2, Taken DEF TakeByte, ch

LEMMA ParserTypes ==
    ASSUME TypeOK, RxBytes
    PROVE  ParserOK'
<1> USE DEF ParserOK
<1>0. ParserOK
  BY TypeParts
<1>e. <<>> \in Seq(Item) /\ Len(<<>>) = 0
  BY Empty
<1>1. CASE BeginCall \/ SkipEnding
  BY <1>0, <1>1 DEF BeginCall, SkipEnding
<1>2. CASE PayloadByte
  <2>1. ch \in Item
    BY <1>2, ByteTaken DEF PayloadByte
  <2>2. /\ Append(parser.payload, ch) \in Seq(Item)
        /\ Len(Append(parser.payload, ch)) = Len(parser.payload) + 1
    BY <1>0, <2>1
  <2> QED
    BY <1>0, <1>2, <2>2 DEF PayloadByte
<1>3. CASE LastPayloadByte
  <2>1. parser' = [parser EXCEPT !.payload_mode = FALSE, !.payload = <<>>, !.expected = 0]
    BY <1>3 DEF LastPayloadByte, SendPayload
  <2>2. /\ parser'.line = parser.line /\ ~parser'.payload_mode
        /\ parser'.expected = 0 /\ parser'.payload = <<>>
    BY <1>0, <2>1
  <2>3. parser' \in [line : Seq(Item), overflow : BOOLEAN, payload_mode : BOOLEAN,
                     expected : Nat, payload : Seq(Item)]
    BY <1>0, <1>e, <2>1
  <2> QED
    BY <1>0, <2>2, <2>3
<1>4. CASE LineByte
  <2>1. ch \in Item
    BY <1>4, ByteTaken DEF LineByte
  <2>2. /\ Append(parser.line, ch) \in Seq(Item)
        /\ Len(Append(parser.line, ch)) = Len(parser.line) + 1
        /\ Len(parser.line) \in Nat
    BY <1>0, <2>1
  <2>3. CASE Len(parser.line) >= LineMax
    BY <1>0, <1>4, <2>3 DEF LineByte
  <2>4. CASE Len(parser.line) < LineMax
    <3>1. parser' = [parser EXCEPT !.line = Append(@, ch)]
      BY <1>4, <2>2, <2>4, ChunkAssumption DEF LineByte
    <3>2. /\ parser'.line = Append(parser.line, ch)
          /\ parser'.payload_mode = parser.payload_mode
          /\ parser'.expected = parser.expected /\ parser'.payload = parser.payload
      BY <1>0, <3>1
    <3>3. parser' \in [line : Seq(Item), overflow : BOOLEAN, payload_mode : BOOLEAN,
                       expected : Nat, payload : Seq(Item)]
      BY <1>0, <2>2, <3>1
    <3> QED
      BY <1>0, <2>2, <2>4, <3>2, <3>3, ChunkAssumption
  <2> QED
    BY <2>2, <2>3, <2>4, ChunkAssumption
<1>5. CASE EndNoLine \/ Command
  <2>1. parser' = [parser EXCEPT !.line = <<>>, !.overflow = FALSE]
    BY <1>5 DEF EndNoLine, Command, ForgetLine
  <2>2. /\ parser'.line = <<>> /\ parser'.payload_mode = parser.payload_mode
        /\ parser'.expected = parser.expected /\ parser'.payload = parser.payload
    BY <1>0, <2>1
  <2>3. parser' \in [line : Seq(Item), overflow : BOOLEAN, payload_mode : BOOLEAN,
                     expected : Nat, payload : Seq(Item)]
    BY <1>0, <1>e, <2>1
  <2> QED
    BY <1>0, <1>e, <2>2, <2>3, ChunkAssumption
<1>6. CASE SendCommand
  <2>1. parser.line[1] \in DOMAIN SendLens
    BY <1>6 DEF SendCommand, IsSend
  <2>2. SendLens[parser.line[1]] \in Nat /\ SendLens[parser.line[1]] > 0
    BY <2>1, SendAssumption
  <2> DEFINE n == SendLens[parser.line[1]]
  <2>3. parser' = [[parser EXCEPT !.line = <<>>, !.overflow = FALSE]
                      EXCEPT !.payload_mode = TRUE, !.payload = <<>>, !.expected = n]
    BY <1>6 DEF SendCommand, ForgetLine
  <2> HIDE DEF n
  <2>4. /\ parser'.line = <<>> /\ parser'.payload_mode
        /\ parser'.expected = n /\ parser'.payload = <<>>
    BY <1>0, <2>3
  <2>5. n \in {SendLens[s] : s \in DOMAIN SendLens} /\ n \in Nat /\ n > 0
    BY <2>1, <2>2 DEF n
  <2>6. parser' \in [line : Seq(Item), overflow : BOOLEAN, payload_mode : BOOLEAN,
                     expected : Nat, payload : Seq(Item)]
    BY <1>0, <1>e, <2>3, <2>5
  <2> QED
    BY <1>0, <1>e, <2>4, <2>5, <2>6, ChunkAssumption
<1> QED
  BY <1>1, <1>2, <1>3, <1>4, <1>5, <1>6 DEF RxBytes

LEMMA AnswerTypes ==
    ASSUME TypeOK, RxBytes
    PROVE  answers' \in Answers /\ sent' \in Seq(Item) /\ skip' \in BOOLEAN
<1>0. answers \in Answers /\ sent \in Seq(Item) /\ skip \in BOOLEAN /\ ParserOK
  BY TypeParts
<1>1. \A a \in {"ok", "err", "prompt"} : Append(answers, a) \in Answers
  BY <1>0 DEF Answers
<1>2. CASE BeginCall \/ SkipEnding \/ PayloadByte \/ LineByte
  BY <1>0, <1>2 DEF BeginCall, SkipEnding, PayloadByte, LineByte
<1>3. CASE LastPayloadByte
  <2>1. ch \in Item
    BY <1>3, ByteTaken DEF LastPayloadByte
  <2>2. Append(parser.payload, ch) \in Seq(Item)
    BY <1>0, <2>1 DEF ParserOK
  <2> QED
    BY <1>0, <1>1, <1>3, <2>2 DEF LastPayloadByte, SendPayload, Answer
<1>4. CASE EndNoLine \/ Command \/ SendCommand
  BY <1>0, <1>1, <1>4 DEF EndNoLine, Command, SendCommand, Answer
<1> QED
  BY <1>2, <1>3, <1>4 DEF RxBytes

LEMMA RxTypes ==
    ASSUME TypeOK, RxBytes
    PROVE  TypeOK'
<1>1. HostOK'
  BY TypeParts DEF RxBytes, BeginCall, SkipEnding, PayloadByte, LastPayloadByte, LineByte,
                   EndNoLine, Command, SendCommand, TakeByte, HostOK
<1>2. wire' \in Seq(Item) /\ left' \in 0..Len(wire')
  <2>1. CASE BeginCall
    BY <2>1, TypeParts, Lengths DEF BeginCall, ChunkLens
  <2>2. CASE TakeByte
    BY <2>2, ByteTaken
  <2> QED
    BY <2>1, <2>2 DEF RxBytes, SkipEnding, PayloadByte, LastPayloadByte, LineByte,
                      EndNoLine, Command, SendCommand
<1>3. ParserOK' /\ answers' \in Answers /\ sent' \in Seq(Item) /\ skip' \in BOOLEAN
  BY ParserTypes, AnswerTypes
<1>4. TypeOK' <=> /\ ParserOK' /\ HostOK'
                  /\ wire' \in Seq(Item) /\ left' \in 0..Len(wire') /\ skip' \in BOOLEAN
                  /\ answers' \in Answers /\ sent' \in Seq(Item)
  BY DEF TypeOK, ParserOK, HostOK, Answers
<1> QED
  BY <1>1, <1>2, <1>3, <1>4

LEMMA HostTypes ==
    ASSUME TypeOK, HostNext \/ SyncNext
    PROVE  TypeOK'
<1>0. /\ ParserOK /\ HostOK
      /\ wire \in Seq(Item) /\ left \in 0..Len(wire) /\ skip \in BOOLEAN
      /\ answers \in Answers /\ sent \in Seq(Item)
  BY TypeParts
<1>1. ParserOK' /\ left' = 0 /\ skip' \in BOOLEAN /\ sent' \in Seq(Item)
  BY <1>0, Empty DEF HostNext, SyncNext, HostCommands, HostSends, HostReadsAnswer, HostRestarts,
              HostPolls, HostReadsPoll, device, ParserOK
<1>2. answers' \in Answers
  <2>1. CASE answers' = answers \/ answers' = <<>>
    BY <1>0, <2>1, Empty DEF Answers
  <2>2. CASE answers # <<>> /\ answers' = Tail(answers)
    BY <1>0, <2>2, Taken DEF Answers
  <2> QED
    BY <2>1, <2>2 DEF HostNext, SyncNext, HostCommands, HostSends, HostReadsAnswer,
                      HostRestarts, HostPolls, HostReadsPoll
<1>3. wire' \in Seq(Item) /\ HostOK'
  <2>1. CASE HostCommands
    <3>1. \A line \in {<<"A", "T">>, Operation, Overlong} :
             WriteLine(line) => wire' \in Seq(Item)
      <4> SUFFICES ASSUME NEW line \in {<<"A", "T">>, Operation, Overlong}, WriteLine(line)
                   PROVE  wire' \in Seq(Item)
        OBVIOUS
      <4>1. line \in Seq(Item)
        BY Written
      <4> QED
        BY <1>0, <4>1, WithEnding DEF WriteLine
    <3>2. \A s \in DOMAIN SendLens : WriteLine(<<s>>) => wire' \in Seq(Item)
      BY <1>0, WithEnding, Written DEF WriteLine
    <3> QED
      BY <1>0, <2>1, <3>1, <3>2, Empty DEF HostCommands, HostOK
  <2>2. CASE HostSends
    <3>1. CASE Head(answers) = "prompt"
      <4>1. PICK p \in [1..asked -> {"x", "lf"}] : given' = p /\ wire' = wire \o p
        BY <2>2, <3>1 DEF HostSends
      <4>2. asked \in Nat
        BY <1>0, SendAssumption DEF HostOK
      <4>3. p \in Seq(Item)
        BY <4>1, <4>2 DEF Item, Endings
      <4> QED
        BY <1>0, <2>2, <3>1, <4>1, <4>3 DEF HostSends, HostOK
    <3>2. CASE Head(answers) # "prompt"
      BY <1>0, <2>2, <3>2 DEF HostSends, HostOK
    <3> QED
      BY <3>1, <3>2
  <2>3. CASE HostReadsAnswer \/ HostRestarts \/ HostReadsPoll
    BY <1>0, <2>3 DEF HostReadsAnswer, HostRestarts, HostReadsPoll, HostOK
  <2>4. CASE HostPolls
    <3>1. <<"A", "T">> \in Seq(Item)
      BY DEF Item
    <3> QED
      BY <1>0, <2>4, <3>1, WithEnding DEF HostPolls, WriteLine, HostOK
  <2> QED
    BY <2>1, <2>2, <2>3, <2>4 DEF HostNext, SyncNext
<1>4. left' \in 0..Len(wire')
  BY <1>1, <1>3, Lengths
<1>5. TypeOK' <=> /\ ParserOK' /\ HostOK'
                  /\ wire' \in Seq(Item) /\ left' \in 0..Len(wire') /\ skip' \in BOOLEAN
                  /\ answers' \in Answers /\ sent' \in Seq(Item)
  BY DEF TypeOK, ParserOK, HostOK, Answers
<1> QED
  BY <1>1, <1>2, <1>3, <1>4, <1>5

LEMMA TypeStep == TypeOK /\ [Next]_vars => TypeOK'
<1>1. CASE UNCHANGED vars
  BY <1>1 DEF TypeOK, vars
<1> QED
  BY <1>1, RxTypes, HostTypes DEF Next

\* at_host.c: line_buffer keeps room for its NUL, and the payload never passes the length
\* that AT+SEND announced; the two lengths are reset together with payload_mode.
THEOREM BuffersBounded == Spec => []TypeOK
<1> QED
  BY TypeInit, TypeStep, PTL DEF Spec

----------------------------------------------------------------------------
\* Where a line ending arrives whole.

LEMMA UnsplitStep ==
    ASSUME ~SplitsEnding, TypeOK, Unsplit, [Next]_vars
    PROVE  Unsplit'
<1>1. CASE UNCHANGED vars
  BY <1>1 DEF Unsplit, vars
<1>2. CASE BeginCall
  BY <1>2 DEF BeginCall, ChunkLens, Unsplit
<1>3. CASE TakeByte
  <2> SUFFICES ASSUME left' > 0, left' < Len(wire')
               PROVE  ~(wire'[left'] = "cr" /\ wire'[left' + 1] = "lf")
    BY DEF Unsplit
  <2>1. wire'[left'] = wire[left' + 1] /\ wire'[left' + 1] = wire[left' + 2]
    BY <1>3, ByteTaken
  <2>2. left' + 1 = left /\ left' + 2 = left + 1 /\ left > 0 /\ left < Len(wire)
    BY <1>3, ByteTaken
  <2> QED
    BY <2>1, <2>2 DEF Unsplit
<1>4. CASE HostNext \/ SyncNext
  <2>1. left' = 0
    BY <1>4 DEF HostNext, SyncNext, HostCommands, HostSends, HostReadsAnswer, HostRestarts,
                HostPolls, HostReadsPoll, device
  <2> QED
    BY <2>1 DEF Unsplit
<1> QED
  BY <1>1, <1>2, <1>3, <1>4 DEF Next, RxBytes, SkipEnding, PayloadByte, LastPayloadByte,
                                LineByte, EndNoLine, Command, SendCommand

\* The "cr" leaves the "lf" to this call.
LEMMA EndOfLine ==
    ASSUME TypeOK, Unsplit, TakeByte, LineComing, ch \in Endings
    PROVE  Len(wire) = 2 /\ LfLeft'
<1>1. Len(wire) = 2
  BY ByteTaken DEF LineComing
<1>2. left = 2
  BY <1>1, ByteTaken DEF LineComing, Unsplit
<1>3. wire'[1] = wire[2]
  BY <1>1, ByteTaken
<1> QED
  BY <1>1, <1>2, <1>3, ByteTaken DEF LineComing, LfLeft

LEMMA FirstAnswer ==
    ASSUME NEW a \in {"ok", "err", "prompt"}, answers = <<>>, Answer(a)
    PROVE  Len(answers') = 1 /\ answers'[1] = a
  BY DEF Answer

\* One byte of a line.
LEMMA LineByteStep ==
    ASSUME TypeOK, ~restarted, Phase, LineByte
    PROVE  CommandWritten' \/ SendWritten'
<1>1. /\ wire # <<>> /\ ch = wire[1] /\ ch \notin Endings /\ ~parser.payload_mode
      /\ Len(wire') = Len(wire) - 1 /\ Len(wire) \in Nat /\ ch \in Item
      /\ \A i \in 1..(Len(wire) - 1) : wire'[i] = wire[i + 1]
      /\ UNCHANGED <<host, asked, sent, answers>>
  BY ByteTaken DEF LineByte, TakeByte
<1>2. /\ parser \in [line : Seq(Item), overflow : BOOLEAN, payload_mode : BOOLEAN,
                     expected : Nat, payload : Seq(Item)]
      /\ Len(parser.line) \in Nat /\ LineMax \in Nat /\ LineMax > 0
  BY ChunkAssumption, Lengths DEF TypeOK
<1>3. \/ /\ parser'.overflow /\ parser'.line = parser.line /\ parser.line # <<>>
         /\ ~parser'.payload_mode /\ Len(parser.line) >= LineMax
      \/ /\ parser'.overflow = parser.overflow /\ parser'.line = Append(parser.line, ch)
         /\ ~parser'.payload_mode /\ parser'.line # <<>>
  <2>1. CASE Len(parser.line) >= LineMax
    <3>1. parser' = [parser EXCEPT !.overflow = TRUE]
      BY <2>1 DEF LineByte
    <3>2. parser.line # <<>>
      BY <1>2, <2>1, Empty
    <3> QED
      BY <1>1, <1>2, <2>1, <3>1, <3>2
  <2>2. CASE Len(parser.line) < LineMax
    <3>1. parser' = [parser EXCEPT !.line = Append(@, ch)]
      BY <1>2, <2>2 DEF LineByte
    <3>2. Append(parser.line, ch) # <<>>
      BY <1>1, <1>2
    <3> QED
      BY <1>1, <1>2, <3>1, <3>2
  <2> QED
    BY <1>2, <2>1, <2>2
<1>4. ASSUME LineComing PROVE LineComing'
  <2>1. Len(wire) >= 3
    BY <1>1, <1>4 DEF LineComing, Endings
  <2>2. /\ wire'[Len(wire) - 2] = wire[Len(wire) - 1]
        /\ wire'[Len(wire) - 1] = wire[Len(wire)]
    <3>1. Len(wire) - 2 \in 1..(Len(wire) - 1) /\ Len(wire) - 1 \in 1..(Len(wire) - 1)
      BY <1>1, <2>1
    <3>2. (Len(wire) - 2) + 1 = Len(wire) - 1 /\ (Len(wire) - 1) + 1 = Len(wire)
      BY <1>1
    <3> QED
      BY <1>1, <3>1, <3>2
  <2>3. \A i \in 1..(Len(wire') - 2) : wire'[i] \notin Endings
    BY <1>1, <1>4, <2>1 DEF LineComing
  <2>4. Len(wire') >= 2 /\ Len(wire') - 1 = Len(wire) - 2 /\ parser'.line # <<>>
    BY <1>1, <1>3, <2>1
  <2> QED
    BY <1>1, <1>3, <1>4, <2>2, <2>3, <2>4 DEF LineComing
<1>5. CASE CommandWritten
  <2>1. NoSend'
    <3>1. \A i \in 1..Len(wire') : wire'[i] \notin DOMAIN SendLens
      BY <1>1, <1>5 DEF CommandWritten, NoSend
    <3>2. \A i \in 1..Len(parser'.line) : parser'.line[i] \notin DOMAIN SendLens
      <4>1. ch \notin DOMAIN SendLens
        BY <1>1, <1>5, Lengths DEF CommandWritten, NoSend, TypeOK
      <4>2. CASE parser'.line = parser.line
        BY <1>5, <4>2 DEF CommandWritten, NoSend
      <4>3. CASE parser'.line = Append(parser.line, ch)
        <5>1. Len(parser'.line) = Len(parser.line) + 1
          BY <1>1, <1>2, <4>3
        <5> SUFFICES ASSUME NEW i \in 1..(Len(parser.line) + 1)
                     PROVE  parser'.line[i] \notin DOMAIN SendLens
          BY <5>1
        <5>2. CASE i = Len(parser.line) + 1
          BY <1>1, <1>2, <4>1, <4>3, <5>2
        <5>3. CASE i \in 1..Len(parser.line)
          <6>1. parser'.line[i] = parser.line[i]
            BY <1>1, <1>2, <4>3, <5>3, Appended
          <6> QED
            BY <1>5, <5>3, <6>1 DEF CommandWritten, NoSend
        <5> QED
          BY <1>2, <5>2, <5>3
      <4> QED
        BY <1>3, <4>2, <4>3
    <3> QED
      BY <3>1, <3>2 DEF NoSend
  <2> QED
    BY <1>1, <1>4, <1>5, <2>1 DEF CommandWritten
<1>6. CASE SendWritten
  <2>1. Len(wire) = 3 /\ parser.line = <<>> /\ wire[1] \in DOMAIN SendLens
        /\ SendLens[wire[1]] = asked /\ ~parser.overflow
    BY <1>1, <1>6 DEF SendWritten, SendComing, LineComing, Endings
  <2>2. parser'.line = Append(<<>>, ch) /\ ~parser'.overflow
    BY <1>2, <1>3, <2>1
  <2>3. Len(parser'.line) = 1 /\ parser'.line[1] = ch
    BY <1>1, <2>2
  <2> QED
    BY <1>1, <1>4, <1>6, <2>1, <2>2, <2>3 DEF SendWritten, SendComing, IsSend
<1>7. CASE Idle \/ CommandDone \/ SendPrompted \/ PayloadWritten
  BY <1>1, <1>7 DEF Idle, CommandDone, SendPrompted, PayloadWritten, LfLeft, Endings,
                    PayloadComing
<1> QED
  BY <1>5, <1>6, <1>7 DEF Phase

\* A line ending behind a line, or behind one that was handled.
LEMMA LineEndStep ==
    ASSUME TypeOK, Unsplit, ~restarted, Phase, EndNoLine \/ Command \/ SendCommand
    PROVE  CommandDone' \/ SendPrompted'
<1>1. /\ TakeByte /\ ch \in Endings /\ ~parser.payload_mode
      /\ wire # <<>> /\ ch = wire[1] /\ Len(wire') = Len(wire) - 1
      /\ Len(wire) \in Nat /\ wire' \in Seq(Item)
      /\ UNCHANGED <<host, asked, sent>>
  BY ByteTaken DEF EndNoLine, Command, SendCommand, TakeByte
<1>2. /\ parser \in [line : Seq(Item), overflow : BOOLEAN, payload_mode : BOOLEAN,
                     expected : Nat, payload : Seq(Item)]
      /\ Len(<<>>) = 0
  BY Empty DEF TypeOK
<1>3. ~SendCommand => Clean'
  <2>1. CASE EndNoLine \/ Command
    BY <1>1, <1>2, <2>1 DEF EndNoLine, Command, ForgetLine, Clean
  <2> QED
    BY <2>1
<1>4. ASSUME CommandWritten PROVE CommandDone'
  <2>1. Len(wire) = 2 /\ LfLeft'
    BY <1>1, <1>4, EndOfLine DEF CommandWritten
  <2>2. parser.overflow \/ parser.line # <<>>
    BY <1>4, <2>1 DEF CommandWritten, LineComing
  <2>3. ~IsSend(parser.line)
    BY <1>4 DEF CommandWritten, NoSend, IsSend
  <2>4. Answer("ok") \/ Answer("err")
    BY <2>2, <2>3 DEF EndNoLine, Command, SendCommand
  <2>5. Answered'
    BY <1>4, <2>4, FirstAnswer DEF CommandWritten, LineComing, Answered
  <2>6. ~SendCommand
    BY <2>3 DEF SendCommand
  <2> QED
    BY <1>1, <1>3, <1>4, <2>1, <2>5, <2>6 DEF CommandWritten, CommandDone
<1>5. ASSUME CommandDone PROVE CommandDone'
  <2>1. Len(wire) = 1 /\ parser.line = <<>> /\ ~parser.overflow
    BY <1>1, <1>5 DEF CommandDone, LfLeft, Clean
  <2>2. EndNoLine /\ UNCHANGED answers
    BY <1>2, <2>1 DEF EndNoLine, Command, SendCommand, IsSend
  <2>3. ~SendCommand
    BY <1>2, <2>1 DEF SendCommand, IsSend
  <2>4. wire' = <<>>
    BY <1>1, <2>1, Lengths
  <2> QED
    BY <1>1, <1>3, <1>5, <2>2, <2>3, <2>4 DEF CommandDone, Answered
<1>6. ASSUME SendWritten PROVE SendPrompted'
  <2>1. Len(wire) = 2 /\ LfLeft'
    BY <1>1, <1>6, EndOfLine DEF SendWritten
  <2>2. /\ ~parser.overflow /\ parser.line # <<>> /\ IsSend(parser.line)
        /\ SendLens[parser.line[1]] = asked
    BY <1>2, <1>6, <2>1 DEF SendWritten, SendComing, IsSend
  <2>3. SendCommand
    BY <2>2 DEF EndNoLine, Command
  <2>4. /\ skip' = TRUE /\ Answer("prompt")
        /\ parser' = [[parser EXCEPT !.line = <<>>, !.overflow = FALSE]
                        EXCEPT !.payload_mode = TRUE, !.payload = <<>>, !.expected = asked]
    BY <2>2, <2>3 DEF SendCommand, ForgetLine
  <2>5. /\ parser'.line = <<>> /\ ~parser'.overflow /\ parser'.payload_mode
        /\ parser'.payload = <<>> /\ parser'.expected = asked
    BY <1>2, <2>4
  <2>6. Len(answers') = 1 /\ answers'[1] = "prompt"
    BY <1>6, <2>4, FirstAnswer DEF SendWritten, LineComing
  <2> QED
    BY <1>1, <1>6, <2>1, <2>4, <2>5, <2>6 DEF SendWritten, SendPrompted
<1>7. CASE Idle \/ SendPrompted \/ PayloadWritten
  BY <1>1, <1>7 DEF Idle, SendPrompted, PayloadWritten, PayloadComing
<1> QED
  BY <1>4, <1>5, <1>6, <1>7 DEF Phase

\* A byte in payload mode.
LEMMA PayloadStep ==
    ASSUME TypeOK, ~restarted, Phase, SkipEnding \/ PayloadByte \/ LastPayloadByte
    PROVE  /\ SendPrompted' \/ PayloadWritten' \/ CommandDone'
           /\ sent' = sent \/ sent' = given
<1>1. /\ parser.payload_mode
      /\ wire # <<>> /\ ch = wire[1] /\ Len(wire') = Len(wire) - 1 /\ ch \in Item
      /\ Len(wire) \in Nat /\ wire' \in Seq(Item) /\ Len(wire) >= 1
      /\ \A i \in 1..(Len(wire) - 1) : wire'[i] = wire[i + 1]
      /\ left > 0
      /\ UNCHANGED <<host, asked, given>>
  BY ByteTaken DEF SkipEnding, PayloadByte, LastPayloadByte, TakeByte
<1>2. /\ parser \in [line : Seq(Item), overflow : BOOLEAN, payload_mode : BOOLEAN,
                     expected : Nat, payload : Seq(Item)]
      /\ given \in Seq(Item)
      /\ Len(parser.payload) \in Nat /\ Len(given) \in Nat
  BY Lengths DEF TypeOK
<1>3. CASE SendPrompted
  <2>1. Len(wire) = 1 /\ Skips
    BY <1>1, <1>3 DEF SendPrompted, LfLeft, Skips, Endings
  <2>2. SkipEnding
    BY <2>1 DEF PayloadByte, LastPayloadByte
  <2>3. wire' = <<>>
    BY <1>1, <2>1, Lengths
  <2> QED
    BY <1>1, <1>3, <2>2, <2>3 DEF SendPrompted, SkipEnding
<1>4. CASE PayloadWritten
  <2> DEFINE n == Len(parser.payload)
             q == Append(parser.payload, ch)
  <2>1. ~Skips
    BY <1>1, <1>4 DEF PayloadWritten, Skips
  <2>2. /\ q \in Seq(Item) /\ Len(q) = n + 1 /\ q[n + 1] = ch
        /\ \A i \in 1..n : q[i] = parser.payload[i]
    BY <1>1, <1>2, Appended
  <2>3. /\ \A i \in 1..n : parser.payload[i] = given[i]
        /\ \A i \in 1..Len(wire) : wire[i] = given[n + i]
        /\ n + Len(wire) = Len(given) /\ parser.expected = Len(given)
        /\ parser.line = <<>> /\ ~parser.overflow /\ parser.payload_mode
    BY <1>4 DEF PayloadWritten, PayloadComing
  <2>4. n \in Nat
    BY <1>2
  <2> HIDE DEF n, q
  <2>5. \A i \in 1..(n + 1) : q[i] = given[i]
    <3>1. ch = given[n + 1]
      BY <1>1, <2>3, <2>4
    <3> QED
      BY <2>2, <2>3, <2>4, <3>1
  <2>6. CASE PayloadByte
    <3>1. /\ parser' = [parser EXCEPT !.payload = q] /\ skip' = FALSE
          /\ UNCHANGED <<answers, sent>>
      BY <2>6 DEF PayloadByte, q
    <3>2. /\ parser'.payload = q /\ parser'.expected = parser.expected
          /\ parser'.line = <<>> /\ ~parser'.overflow /\ parser'.payload_mode
      BY <1>2, <2>3, <3>1
    <3>3. (n + 1) + Len(wire') = Len(given)
      <4>1. Len(wire') = Len(wire) - 1 /\ Len(wire) \in Nat
        BY <1>1
      <4>2. n + Len(wire) = Len(given)
        BY <2>3
      <4> QED
        BY <2>4, <4>1, <4>2
    <3>4. \A i \in 1..Len(wire') : wire'[i] = given[(n + 1) + i]
      <4> SUFFICES ASSUME NEW i \in 1..Len(wire') PROVE wire'[i] = given[(n + 1) + i]
        OBVIOUS
      <4>1. wire'[i] = wire[i + 1] /\ i + 1 \in 1..Len(wire)
        BY <1>1
      <4>2. wire[i + 1] = given[n + (i + 1)] /\ n + (i + 1) = (n + 1) + i
        BY <2>3, <2>4, <4>1
      <4> QED
        BY <4>1, <4>2
    <3>5. PayloadComing'
      BY <1>1, <2>2, <2>3, <2>5, <3>2, <3>3, <3>4 DEF PayloadComing
    <3> QED
      BY <1>1, <1>4, <3>1, <3>5 DEF PayloadWritten
  <2>7. CASE LastPayloadByte
    <3>1. n + 1 = Len(given)
      BY <2>3, <2>7 DEF LastPayloadByte, n
    <3>2. q = given
      BY <1>2, <2>2, <2>5, <3>1, SameSequence
    <3>3. /\ parser' = [parser EXCEPT !.payload_mode = FALSE, !.payload = <<>>, !.expected = 0]
          /\ sent' = q
          /\ Answer("ok") \/ Answer("err")
      BY <2>7 DEF LastPayloadByte, SendPayload, q
    <3>4. Clean'
      BY <1>2, <2>3, <3>3 DEF Clean
    <3>5. Answered'
      BY <1>4, <3>3, FirstAnswer DEF PayloadWritten, Answered
    <3>6. wire' = <<>>
      <4>1. Len(wire') = 0
        BY <1>1, <2>3, <2>4, <3>1
      <4> QED
        BY <1>1, <4>1, Lengths
    <3> QED
      BY <1>1, <1>4, <3>2, <3>3, <3>4, <3>5, <3>6 DEF CommandDone, PayloadWritten
  <2>8. ~SkipEnding
    BY <2>1 DEF SkipEnding
  <2> QED
    BY <2>6, <2>7, <2>8
<1>5. CASE Idle \/ CommandWritten \/ CommandDone \/ SendWritten
  BY <1>1, <1>5 DEF Idle, CommandWritten, CommandDone, SendWritten, LineComing, Clean
<1> QED
  BY <1>3, <1>4, <1>5 DEF Phase

LEMMA RxStep ==
    ASSUME TypeOK, Unsplit, ~restarted, Phase, PayloadIntact, RxBytes
    PROVE  Phase' /\ PayloadIntact'
<1>1. CASE BeginCall
  <2>1. /\ skip' = FALSE /\ left = 0
        /\ UNCHANGED <<parser, wire, answers, sent, host, asked, given, restarted>>
    BY <1>1 DEF BeginCall
  <2>2. ASSUME Idle PROVE Idle'
    BY <2>1, <2>2 DEF Idle, Clean
  <2>3. ASSUME CommandWritten PROVE CommandWritten'
    BY <2>1, <2>3 DEF CommandWritten, LineComing, NoSend
  <2>4. ASSUME CommandDone PROVE CommandDone'
    BY <2>1, <2>4 DEF CommandDone, Clean, Answered, LfLeft
  <2>5. ASSUME SendWritten PROVE SendWritten'
    BY <2>1, <2>5 DEF SendWritten, LineComing, SendComing, IsSend
  <2>6. ASSUME SendPrompted PROVE SendPrompted'
    BY <2>1, <2>6 DEF SendPrompted, LfLeft
  <2>7. ASSUME PayloadWritten PROVE PayloadWritten'
    BY <2>1, <2>7 DEF PayloadWritten, PayloadComing
  <2> QED
    BY <2>1, <2>2, <2>3, <2>4, <2>5, <2>6, <2>7 DEF Phase, PayloadIntact
<1>2. CASE SkipEnding \/ PayloadByte \/ LastPayloadByte
  <2>1. UNCHANGED given
    BY <1>2 DEF SkipEnding, PayloadByte, LastPayloadByte, TakeByte
  <2> QED
    BY <1>2, <2>1, PayloadStep DEF Phase, PayloadIntact
<1>3. CASE LineByte
  <2>1. UNCHANGED <<given, sent>>
    BY <1>3 DEF LineByte, TakeByte
  <2> QED
    BY <1>3, <2>1, LineByteStep DEF Phase, PayloadIntact
<1>4. CASE EndNoLine \/ Command \/ SendCommand
  <2>1. UNCHANGED <<given, sent>>
    BY <1>4 DEF EndNoLine, Command, SendCommand, TakeByte
  <2> QED
    BY <1>4, <2>1, LineEndStep DEF Phase, PayloadIntact
<1> QED
  BY <1>1, <1>2, <1>3, <1>4 DEF RxBytes

LEMMA CommandStep ==
    ASSUME TypeOK, Phase, HostCommands
    PROVE  CommandWritten' \/ SendWritten'
<1>1. Idle
  BY DEF HostCommands, Phase, Idle, CommandWritten, CommandDone, SendWritten, SendPrompted,
         PayloadWritten
<1>2. /\ parser'.line = <<>> /\ ~parser'.overflow /\ ~parser'.payload_mode
      /\ answers' = <<>> /\ sent' = <<>> /\ wire = <<>> /\ wire \in Seq(Item)
      /\ Len(<<>>) = 0
  BY <1>1, Empty DEF HostCommands, device, Idle, Clean, TypeOK
<1>3. ASSUME NEW line \in Seq(Item), Len(line) >= 1, WriteLine(line),
             \A i \in 1..Len(line) : line[i] \notin Endings
      PROVE  /\ LineComing' /\ Len(wire') = Len(line) + 2 /\ Len(line) \in Nat
             /\ wire'[Len(line) + 1] = "cr" /\ wire'[Len(line) + 2] = "lf"
             /\ \A i \in 1..Len(line) : wire'[i] = line[i]
  <2>1. /\ Len(wire') = Len(line) + 2 /\ Len(line) \in Nat
        /\ wire'[Len(line) + 1] = "cr" /\ wire'[Len(line) + 2] = "lf"
        /\ \A i \in 1..Len(line) : wire'[i] = line[i]
    BY <1>2, <1>3, WithEnding, Lengths DEF WriteLine
  <2>2. /\ Len(wire') - 2 = Len(line) /\ Len(wire') - 1 = Len(line) + 1
        /\ Len(wire') >= 2 /\ Len(wire') # 2
    BY <1>3, <2>1
  <2>3. \A i \in 1..(Len(wire') - 2) : wire'[i] \notin Endings
    BY <1>3, <2>1, <2>2
  <2> QED
    BY <1>2, <2>1, <2>2, <2>3 DEF LineComing
<1>4. ASSUME NEW line \in {<<"A", "T">>, Operation, Overlong}, WriteLine(line),
             host' = "answer"
      PROVE  CommandWritten'
  <2>1. /\ line \in Seq(Item) /\ Len(line) >= 1
        /\ \A i \in 1..Len(line) : line[i] \notin Endings
        /\ \A i \in 1..Len(line) : line[i] \notin DOMAIN SendLens
    BY Written
  <2>2. /\ LineComing' /\ Len(wire') = Len(line) + 2 /\ Len(line) \in Nat
        /\ wire'[Len(line) + 1] = "cr" /\ wire'[Len(line) + 2] = "lf"
        /\ \A i \in 1..Len(line) : wire'[i] = line[i]
    BY <1>3, <1>4, <2>1
  <2>3. "cr" \notin DOMAIN SendLens /\ "lf" \notin DOMAIN SendLens
    BY SendAssumption DEF Endings
  <2>4. \A i \in 1..Len(wire') : wire'[i] \notin DOMAIN SendLens
    <3> SUFFICES ASSUME NEW i \in 1..Len(wire') PROVE wire'[i] \notin DOMAIN SendLens
      OBVIOUS
    <3>1. i \in 1..Len(line) \/ i = Len(line) + 1 \/ i = Len(line) + 2
      BY <2>2
    <3> QED
      BY <2>1, <2>2, <2>3, <3>1
  <2>5. \A i \in 1..Len(parser'.line) : parser'.line[i] \notin DOMAIN SendLens
    BY <1>2
  <2> QED
    BY <1>2, <1>4, <2>2, <2>4, <2>5 DEF CommandWritten, NoSend
<1>5. ASSUME NEW s \in DOMAIN SendLens, WriteLine(<<s>>), asked' = SendLens[s],
             host' = "prompt"
      PROVE  SendWritten'
  <2>1. /\ <<s>> \in Seq(Item) /\ Len(<<s>>) = 1 /\ <<s>>[1] = s
        /\ \A i \in 1..Len(<<s>>) : <<s>>[i] \notin Endings
    BY Written
  <2>2. /\ LineComing' /\ Len(wire') = Len(<<s>>) + 2
        /\ \A i \in 1..Len(<<s>>) : wire'[i] = <<s>>[i]
    <3>1. Len(<<s>>) >= 1 /\ WriteLine(<<s>>)
      BY <1>5, <2>1
    <3> QED
      BY <1>3, <2>1, <3>1
  <2>3. Len(wire') = 3 /\ wire'[1] = s
    BY <2>1, <2>2
  <2> QED
    BY <1>2, <1>5, <2>2, <2>3 DEF SendWritten, SendComing
<1> QED
  BY <1>4, <1>5 DEF HostCommands

LEMMA HostStep ==
    ASSUME TypeOK, ~restarted, ~restarted', Phase, PayloadIntact, HostNext \/ SyncNext
    PROVE  Phase' /\ PayloadIntact'
<1>1. CASE HostCommands
  <2>1. sent' = <<>>
    BY <1>1 DEF HostCommands
  <2> QED
    BY <1>1, <2>1, CommandStep DEF Phase, PayloadIntact
<1>2. CASE HostSends
  <2>1. SendPrompted /\ wire = <<>> /\ left = 0
    BY <1>2 DEF HostSends, Phase, Idle, CommandWritten, CommandDone, SendWritten, LineComing,
                SendPrompted, PayloadWritten, LfLeft
  <2>2. Head(answers) = "prompt" /\ Tail(answers) = <<>>
    <3>1. answers \in Answers /\ answers # <<>>
      BY <1>2, TypeParts DEF HostSends
    <3>2. Head(answers) = answers[1] /\ Tail(answers) \in Answers /\ Len(Tail(answers)) = 0
      BY <2>1, <3>1, Taken DEF SendPrompted, Answers
    <3> QED
      BY <2>1, <3>2, Lengths DEF SendPrompted, Answers
  <2>3. PICK p \in [1..asked -> {"x", "lf"}] : given' = p /\ wire' = wire \o p
    BY <1>2, <2>2 DEF HostSends
  <2>4. asked \in Nat
    BY SendAssumption DEF TypeOK
  <2>5. p \in Seq(Item) /\ Len(p) = asked
    BY <2>3, <2>4 DEF Item, Endings
  <2>6. wire' = p
    BY <2>1, <2>3, <2>5
  <2>7. /\ UNCHANGED <<parser, left, sent>>
        /\ host' = "answer" /\ answers' = <<>>
    BY <1>2, <2>2 DEF HostSends, device
  <2>8. PayloadComing'
    <3>1. Len(parser'.payload) = 0
      BY <2>1, <2>7, Empty DEF SendPrompted
    <3>2. /\ parser'.line = <<>> /\ ~parser'.overflow /\ parser'.payload_mode
          /\ parser'.expected = asked
      BY <2>1, <2>7 DEF SendPrompted
    <3>3. \A i \in 1..Len(wire') : wire'[i] = given'[0 + i]
      BY <2>3, <2>4, <2>5, <2>6
    <3> QED
      BY <2>3, <2>4, <2>5, <2>6, <3>1, <3>2, <3>3 DEF PayloadComing
  <2>9. PayloadWritten'
    BY <2>1, <2>7, <2>8 DEF PayloadWritten, SendPrompted
  <2> QED
    BY <2>9 DEF Phase, PayloadIntact, PayloadWritten
<1>3. CASE HostReadsAnswer
  <2>1. CommandDone /\ wire = <<>>
    BY <1>3 DEF HostReadsAnswer, Phase, Idle, CommandWritten, CommandDone, SendWritten,
                LineComing, SendPrompted, PayloadWritten, LfLeft
  <2>2. Head(answers) \in {"ok", "err"} /\ Tail(answers) = <<>>
    <3>1. answers \in Answers /\ answers # <<>>
      BY <1>3, TypeParts DEF HostReadsAnswer
    <3>2. Head(answers) = answers[1] /\ Tail(answers) \in Answers /\ Len(Tail(answers)) = 0
      BY <2>1, <3>1, Taken DEF CommandDone, Answered, Answers
    <3> QED
      BY <2>1, <3>2, Lengths DEF CommandDone, Answered, Answers
  <2>3. Idle'
    BY <1>3, <2>1, <2>2 DEF HostReadsAnswer, device, CommandDone, Clean, Idle
  <2>4. UNCHANGED <<sent, given>>
    BY <1>3 DEF HostReadsAnswer
  <2> QED
    BY <2>3, <2>4 DEF Phase, PayloadIntact
<1>4. CASE HostRestarts
  BY <1>4 DEF HostRestarts
<1>5. CASE SyncNext
  BY <1>5 DEF SyncNext, HostPolls, HostReadsPoll, Phase, Idle, CommandWritten, CommandDone,
              SendWritten, SendPrompted, PayloadWritten
<1> QED
  BY <1>1, <1>2, <1>3, <1>4, <1>5 DEF HostNext

LEMMA HostInvStep ==
    ASSUME TypeOK, Unsplit, HostInv, [Next]_vars
    PROVE  HostInv'
<1>1. CASE UNCHANGED vars
  BY <1>1 DEF vars, HostInv, Phase, PayloadIntact, Idle, Clean, CommandWritten, LineComing,
              NoSend, CommandDone, Answered, LfLeft, SendWritten, SendComing, IsSend,
              SendPrompted, PayloadWritten, PayloadComing
<1>2. CASE Next
  <2> SUFFICES ASSUME ~restarted' PROVE Phase' /\ PayloadIntact'
    BY DEF HostInv
  <2>1. ~restarted
    BY <1>2 DEF Next, RxBytes, BeginCall, SkipEnding, PayloadByte, LastPayloadByte, LineByte,
                EndNoLine, Command, SendCommand, TakeByte, HostNext, SyncNext, HostCommands,
                HostSends, HostReadsAnswer, HostRestarts, HostPolls, HostReadsPoll
  <2> QED
    BY <1>2, <2>1, RxStep, HostStep DEF Next, HostInv
<1> QED
  BY <1>1, <1>2

LEMMA HostInvInit == Init => HostInv /\ Unsplit
  BY DEF Init, HostInv, Phase, Idle, Clean, PayloadIntact, Unsplit

LEMMA HostInvAlways ==
    ASSUME ~SplitsEnding
    PROVE  Spec => [](HostInv /\ TypeOK)
<1>1. Init => TypeOK /\ Unsplit /\ HostInv
  BY TypeInit, HostInvInit
<1>2. TypeOK /\ Unsplit /\ HostInv /\ [Next]_vars => (TypeOK /\ Unsplit /\ HostInv)'
  BY TypeStep, UnsplitStep, HostInvStep
<1> QED
  BY <1>1, <1>2, PTL DEF Spec

\* at_host_rx_bytes and the host of ble_at.py: when a host that was never restarted has its
\* answer, no line, flag, payload mode, byte or answer of the command is left.
THEOREM CommandLeavesNothing ==
    ASSUME ~SplitsEnding
    PROVE  Spec => []AtRest
<1>1. HostInv => AtRest
  BY DEF HostInv, AtRest, Phase, Idle, Clean, CommandWritten, CommandDone, SendWritten,
         SendPrompted, PayloadWritten
<1> QED
  BY <1>1, HostInvAlways, PTL

\* process_send_payload: op_send_payload is given the payload as the host wrote it after the
\* prompt, line endings in it included.
THEOREM PayloadArrives ==
    ASSUME ~SplitsEnding
    PROVE  Spec => []PayloadIntact
<1>1. HostInv => PayloadIntact
  BY DEF HostInv, PayloadIntact
<1> QED
  BY <1>1, HostInvAlways, PTL

=============================================================================
