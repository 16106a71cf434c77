------------------------- MODULE BleAtClientProofs -------------------------
(***************************************************************************)
(* Theorems about the client and the frame parser behind it, for every set *)
(* of streams a peer may notify (that hold no line of the protocol), and   *)
(* every number of sessions and faults.                                    *)
(*                                                                         *)
(* Bytes travel from the firmware through input, chunk and line_buffer to  *)
(* lines, or to delivered.  The invariant says where in that pipe the      *)
(* answers are:                                                            *)
(*   TypeInv     types                                                     *)
(*   FlagInv     what the two flags and the state of the reader say        *)
(*               about the place of the caller, and the other way round    *)
(*   AnswerInv   which answers are on their way at which place; behind     *)
(*               +OK to AT only indications follow                         *)
(*   EnterInv    from the answer to AT+ENTERDATAMODE to the flag: what is  *)
(*               behind +IND=DATAMODE,1 in the pipe is what the session    *)
(*               has heard                                                 *)
(*   StreamInv   in data mode, what was handed over, what is held back     *)
(*               and what is on its way are what was heard, and what was   *)
(*               handed over ends before the exit line begins              *)
(***************************************************************************)
EXTENDS E2eStream, SequenceTheorems, WellFoundedInduction, TLAPS

Answers == {"OK", "ERR", "D1"}
Text    == {"IND", "r", "n"}
Symbol  == Answers \union Text \union {"+", "0"} \union Byte
Reports == {"OK", "ERR", "D0", "D1", "other"}

TypeInv ==
    /\ in_data \in BOOLEAN /\ half_line \in BOOLEAN
    /\ peer \in Seq(Byte) /\ input \in Seq(Symbol)
    /\ request \in {"none", "AT", "ENTER", "+++"}
    /\ reading \in {"no", "control", "data", "handle", "rest"}
    /\ chunk \in Seq(Symbol) /\ line_buffer \in Seq(Symbol) /\ exit_buffer \in Seq(Symbol)
    /\ data_mode \in BOOLEAN /\ exit_pending \in BOOLEAN
    /\ lines \in Seq(Reports)
    /\ pc \in Places /\ recovering \in {"no", "first", "last"}
    /\ sessions \in 0..MaxSessions /\ faults \in 0..MaxFaults
    /\ delivered \in Seq(Symbol) /\ heard \in Seq(Symbol)
    /\ mark \in Nat /\ mark <= Len(delivered) /\ missed \in Int
    /\ exited \in BOOLEAN

----------------------------------------------------------------------------
Lacks(s, X) == \A i \in 1..Len(s) : s[i] \notin X

\* Nothing that may be taken for an answer; nothing but indications; nothing that the
\* caller looks for.
Free(s)  == Lacks(s, Answers)
Still(s) == Lacks(s, Symbol \ Text)
Other(s) == Lacks(s, {"OK", "ERR", "D0", "D1"})

\* The exit line, up to the first of its two endings, begins at i.
ExitAt(s, i) == s[i] = "+" /\ s[i + 1] = "0" /\ s[i + 2] \in {"r", "n"}
NoExitIn(s)  == \A i \in 1..(Len(s) - 2) : ~ExitAt(s, i)

PeerInv == Free(peer) /\ NoExitIn(peer)

----------------------------------------------------------------------------
InSession == pc \in {"streaming", "exit", "exit_wait", "failed"}

FlagInv ==
    /\ data_mode => InSession /\ ~exited
    /\ exit_pending => data_mode
    /\ ~exit_pending => exit_buffer = <<>>
    /\ Len(exit_buffer) <= 3 /\ IsPrefix(exit_buffer, Exited)
    /\ pc = "streaming" => data_mode /\ ~exit_pending
    /\ pc \in {"exit", "exit_wait", "failed"} /\ data_mode => exit_pending
    /\ data_mode => Lacks(lines, {"D0"})
    /\ reading \in {"data", "handle"} => data_mode
    /\ reading = "rest" => ~data_mode
    /\ chunk # <<>> <=> reading \in {"handle", "rest"}
    /\ Free(chunk)

----------------------------------------------------------------------------
\* When a request may be under way.
RequestInv ==
    /\ request = "AT" => pc = "sync_wait"
    /\ request = "ENTER" => pc = "enter_wait"
    /\ request = "+++" => pc \in {"escape_wait", "escaped", "sync", "exit_wait", "exit_seen"}

NoAnswer == Free(input) /\ Free(line_buffer) /\ Free(lines)

NoOk == Lacks(lines, {"OK"}) /\ Lacks(line_buffer, {"OK"}) /\ Lacks(input, {"OK"})

\* Behind an +OK there are only indications, of a firmware in control mode.
OkIsLast ==
    /\ Lacks(lines, {"D1"}) /\ Lacks(line_buffer, {"D1"}) /\ Lacks(input, {"D1"})
    /\ \A i \in 1..Len(lines) : lines[i] = "OK" =>
          /\ \A j \in (i + 1)..Len(lines) : lines[j] = "other"
          /\ Still(line_buffer) /\ Still(input) /\ reading # "rest"
    /\ ~Lacks(line_buffer, {"OK"}) => Still(input) /\ reading # "rest"
    /\ \A i \in 1..Len(input) : input[i] = "OK" =>
          \A j \in (i + 1)..Len(input) : input[j] \in Text
    /\ NoOk \/ (~in_data /\ ~half_line)

\* Nothing is left of a session or of a recovery.
InControl ==
    /\ ~in_data /\ ~half_line
    /\ Other(lines) /\ Still(line_buffer) /\ Still(input)
    /\ reading \in {"no", "control"}

AnswerInv ==
    /\ pc \notin {"sync_wait", "enter_wait", "entered_wait"} => Free(input)
    /\ pc = "sync_wait" => IF request = "AT" THEN NoAnswer ELSE OkIsLast
    /\ pc = "control" => InControl
    /\ pc = "enter_wait" /\ request = "ENTER" =>
          InControl /\ mark = Len(delivered) /\ ~exited

----------------------------------------------------------------------------
\* The answer to AT+ENTERDATAMODE was sent, and _data_mode is not yet set.
Entering == (pc = "enter_wait" /\ request = "none") \/ pc = "entered_wait"

\* A session has heard something, of which the peer has the continuation.
Heard ==
    /\ heard # <<>> /\ heard[1] = "n" /\ Free(heard) /\ ~exited
    /\ in_data => NoExitIn(heard \o peer)

Consumed == Len(heard) - Len(input)

\* +IND=DATAMODE,1 is at i of the input.
Ahead(i) ==
    /\ input[i] = "D1" /\ input[i + 1] = "r"
    /\ Len(input) = i + 1 + Len(heard)
    /\ \A j \in 1..Len(heard) : input[i + 1 + j] = heard[j]
    /\ \A j \in 1..(i - 1) : input[j] \in Text \union {"OK"}
    /\ \A j \in 1..Len(line_buffer) : line_buffer[j] \in Text \union {"OK"}

\* It is in the line buffer, but for its ending.
Within ==
    /\ Len(input) = 1 + Len(heard) /\ input[1] = "r"
    /\ \A j \in 1..Len(heard) : input[1 + j] = heard[j]
    /\ \A j \in 1..Len(line_buffer) : line_buffer[j] \in Text \union {"OK", "D1"}

\* The line buffer holds the end of what was consumed of what was heard, c symbols.
BufferHeard(c) ==
    /\ Len(line_buffer) <= c
    /\ \A j \in 1..Len(line_buffer) : line_buffer[j] = heard[c - Len(line_buffer) + j]

\* It is a line, or passed over.
Behind ==
    /\ Consumed >= 0
    /\ \A j \in 1..Len(input) : input[j] = heard[Consumed + j]
    /\ BufferHeard(Consumed)

EnterInv ==
    Entering =>
        /\ Heard /\ NoExitIn(heard)
        /\ mark = Len(delivered)
        /\ reading \in {"no", "control"}
        /\ Lacks(lines, {"ERR", "D0"})
        /\ ~Behind => Lacks(lines, {"D1"})
        /\ (\E i \in 1..Len(input) : Ahead(i)) \/ Within \/ Behind

----------------------------------------------------------------------------
\* What was handed over in the session, and where the exit buffer, the chunk and the
\* input begin in what was heard, the first b of which were read too early.
Handed == Len(delivered) - mark

Carried(b) ==
    /\ b + Handed + Len(exit_buffer) + Len(chunk) + Len(input) = Len(heard)
    /\ \A j \in 1..Handed : delivered[mark + j] = heard[b + j]
    /\ \A j \in 1..Len(exit_buffer) : exit_buffer[j] = heard[b + Handed + j]
    /\ \A j \in 1..Len(chunk) : chunk[j] = heard[b + Handed + Len(exit_buffer) + j]
    /\ \A j \in 1..Len(input) :
          input[j] = heard[b + Handed + Len(exit_buffer) + Len(chunk) + j]

\* The exit line was heard once, as a whole, after the flag was set, and is the last that
\* the session hears of data mode.
OneExit ==
    \A i \in 1..(Len(heard) - 2) : ExitAt(heard, i) =>
        /\ i > missed /\ i + 3 <= Len(heard) /\ heard[i + 2] = "r" /\ heard[i + 3] = "n"
        /\ exit_pending /\ ~in_data
        /\ \A j \in 1..(Len(heard) - 2) : ExitAt(heard, j) => j = i

\* Nothing of an exit line that can still be found was handed over.
EndsBefore(b) ==
    \A i \in 1..(Len(heard) - 2) : ExitAt(heard, i) /\ i > b => i > b + Handed

StreamInv ==
    /\ data_mode =>
          /\ Heard /\ OneExit /\ missed >= 0
          /\ \E b \in {missed, missed + 1} : Carried(b) /\ EndsBefore(b)
          /\ reading = "control" =>
                /\ Carried(missed) /\ Handed = 0 /\ exit_buffer = <<>>
                /\ BufferHeard(missed)
    /\ exited => \E b \in {missed, missed + 1} :
          IsPrefix(Drop(delivered, mark) \o Exited, Drop(heard, b))

Inv == TypeInv /\ PeerInv /\ FlagInv /\ RequestInv /\ AnswerInv /\ EnterInv /\ StreamInv

----------------------------------------------------------------------------
\* Facts about sequences.
LEMMA Lengths ==
    ASSUME NEW S, NEW s \in Seq(S)
    PROVE  /\ Len(s) \in Nat /\ (s = <<>> <=> Len(s) = 0)
           /\ \A i \in 1..Len(s) : s[i] \in S
  OBVIOUS

LEMMA Empty ==
    ASSUME NEW S
    PROVE  <<>> \in Seq(S) /\ Len(<<>>) = 0
  OBVIOUS

LEMMA Taken ==
    ASSUME NEW S, NEW s \in Seq(S), s # <<>>
    PROVE  /\ Head(s) = s[1] /\ Head(s) \in S
           /\ Tail(s) \in Seq(S) /\ Len(Tail(s)) = Len(s) - 1
           /\ Len(s) \in Nat /\ Len(s) >= 1
           /\ \A i \in 1..(Len(s) - 1) : Tail(s)[i] = s[i + 1]
  OBVIOUS

LEMMA Appended ==
    ASSUME NEW S, NEW s \in Seq(S), NEW e \in S
    PROVE  /\ Append(s, e) \in Seq(S) /\ Len(Append(s, e)) = Len(s) + 1
           /\ Append(s, e)[Len(s) + 1] = e
           /\ \A i \in 1..Len(s) : Append(s, e)[i] = s[i]
  OBVIOUS

LEMMA Joined ==
    ASSUME NEW S, NEW s \in Seq(S), NEW t \in Seq(S)
    PROVE  /\ s \o t \in Seq(S) /\ Len(s \o t) = Len(s) + Len(t)
           /\ \A i \in 1..Len(s) : (s \o t)[i] = s[i]
           /\ \A i \in 1..Len(t) : (s \o t)[Len(s) + i] = t[i]
           /\ \A i \in (Len(s) + 1)..(Len(s) + Len(t)) : (s \o t)[i] = t[i - Len(s)]
  OBVIOUS

LEMMA SameSequence ==
    ASSUME NEW S, NEW s \in Seq(S), NEW t \in Seq(S), Len(s) = Len(t),
           \A i \in 1..Len(s) : s[i] = t[i]
    PROVE  s = t
  OBVIOUS

LEMMA Taking ==
    ASSUME NEW S, NEW s \in Seq(S), NEW k \in 0..Len(s)
    PROVE  /\ Take(s, k) \in Seq(S) /\ Len(Take(s, k)) = k
           /\ \A i \in 1..k : Take(s, k)[i] = s[i]
<1>1. k \in Int /\ 1 \in Int /\ \A i \in 1..k : s[i] \in S
  BY Lengths
<1>2. /\ SubSeq(s, 1, k) \in Seq(S)
      /\ Len(SubSeq(s, 1, k)) = IF 1 <= k THEN k - 1 + 1 ELSE 0
      /\ \A i \in 1..(k - 1 + 1) : SubSeq(s, 1, k)[i] = s[1 + i - 1]
  BY <1>1, SubSeqProperties
<1> QED
  BY <1>1, <1>2 DEF Take

LEMMA Dropping ==
    ASSUME NEW S, NEW s \in Seq(S), NEW k \in 0..Len(s)
    PROVE  /\ Drop(s, k) \in Seq(S) /\ Len(Drop(s, k)) = Len(s) - k
           /\ \A i \in 1..(Len(s) - k) : Drop(s, k)[i] = s[k + i]
<1>0. Len(s) \in Nat /\ k \in Nat /\ k <= Len(s)
  BY Lengths
<1>1. k + 1 \in Int /\ Len(s) \in Int /\ \A i \in (k + 1)..Len(s) : s[i] \in S
  BY <1>0, Lengths
<1>2. /\ SubSeq(s, k + 1, Len(s)) \in Seq(S)
      /\ Len(SubSeq(s, k + 1, Len(s)))
            = IF k + 1 <= Len(s) THEN Len(s) - (k + 1) + 1 ELSE 0
      /\ \A i \in 1..(Len(s) - (k + 1) + 1) :
            SubSeq(s, k + 1, Len(s))[i] = s[k + 1 + i - 1]
  BY <1>1, SubSeqProperties
<1>3. Len(s) - (k + 1) + 1 = Len(s) - k
  BY <1>0
<1>4. ASSUME NEW i \in 1..(Len(s) - k)
      PROVE  SubSeq(s, k + 1, Len(s))[i] = s[k + i]
  <2>1. k + 1 + i - 1 = k + i
    BY <1>0
  <2> QED
    BY <1>2, <1>3, <2>1
<1>5. Len(SubSeq(s, k + 1, Len(s))) = Len(s) - k
  BY <1>0, <1>2
<1> QED
  BY <1>2, <1>4, <1>5 DEF Drop

----------------------------------------------------------------------------
\* What the actions have in common.
LEMMA Symbols ==
    /\ OkLine \in Seq(Symbol) /\ ErrLine \in Seq(Symbol) /\ IndLine \in Seq(Symbol)
    /\ Exited \in Seq(Symbol) /\ Entered \in Seq(Symbol) /\ <<>> \in Seq(Symbol)
    /\ <<"n">> \in Seq(Symbol) /\ \A b \in Byte : <<b>> \in Seq(Symbol)
    /\ Len(OkLine) = 3 /\ Len(ErrLine) = 3 /\ Len(IndLine) = 3
    /\ Len(Exited) = 4 /\ Len(Entered) = 3 /\ Len(<<>>) = 0
  BY DEF Symbol, Answers, Text, OkLine, ErrLine, IndLine, Exited, Entered

\* The only lines that are taken for an answer are the answers.
LEMMA LineRead ==
    ASSUME NEW text
    PROVE  /\ LineOf(text) \in Reports
           /\ LineOf(text) = "OK" => text = <<"OK">>
           /\ LineOf(text) = "ERR" => text = <<"ERR">>
           /\ LineOf(text) = "D1" => text = <<"D1">>
           /\ LineOf(text) = "D0" => text = <<"+", "0">>
<1>1. <<"OK">> # <<"ERR">> /\ <<"OK">> # <<"D1">> /\ <<"ERR">> # <<"D1">>
  OBVIOUS
<1>2. <<"OK">> # <<"+", "0">> /\ <<"ERR">> # <<"+", "0">> /\ <<"D1">> # <<"+", "0">>
  OBVIOUS
<1> QED
  BY <1>1, <1>2 DEF LineOf, Reports

\* A byte of text ends the line, or is added to it.
LEMMA ControlRead ==
    ASSUME TypeInv, NEW byte \in Symbol, AsControl(byte)
    PROVE  /\ lines' \in Seq(Reports) /\ line_buffer' \in Seq(Symbol)
           /\ \/ /\ byte \in {"r", "n"} /\ line_buffer = <<>>
                 /\ line_buffer' = <<>> /\ lines' = lines
              \/ /\ byte \in {"r", "n"} /\ line_buffer # <<>>
                 /\ line_buffer' = <<>> /\ lines' = Append(lines, LineOf(line_buffer))
                 /\ Len(lines') = Len(lines) + 1
                 /\ lines'[Len(lines) + 1] = LineOf(line_buffer)
                 /\ \A i \in 1..Len(lines) : lines'[i] = lines[i]
              \/ /\ byte \notin {"r", "n"} /\ lines' = lines
                 /\ line_buffer' = Append(line_buffer, byte)
                 /\ Len(line_buffer') = Len(line_buffer) + 1
                 /\ line_buffer'[Len(line_buffer) + 1] = byte
                 /\ \A i \in 1..Len(line_buffer) : line_buffer'[i] = line_buffer[i]
<1>1. lines \in Seq(Reports) /\ line_buffer \in Seq(Symbol) /\ <<>> \in Seq(Symbol)
  BY Empty DEF TypeInv
<1>2. CASE byte \in {"r", "n"} /\ line_buffer = <<>>
  BY <1>1, <1>2 DEF AsControl
<1>3. CASE byte \in {"r", "n"} /\ line_buffer # <<>>
  <2>1. lines' = Append(lines, LineOf(line_buffer)) /\ line_buffer' = <<>>
    BY <1>3 DEF AsControl
  <2>2. LineOf(line_buffer) \in Reports
    BY LineRead
  <2> QED
    BY <1>1, <1>3, <2>1, <2>2, Appended
<1>4. CASE byte \notin {"r", "n"}
  <2>1. lines' = lines /\ line_buffer' = Append(line_buffer, byte)
    BY <1>4 DEF AsControl
  <2> QED
    BY <1>1, <1>4, <2>1, Appended
<1> QED
  BY <1>2, <1>3, <1>4

\* What the firmware sends is put behind what is on the line and, in a session, behind
\* what was heard.
LEMMA Said ==
    ASSUME TypeInv, NEW text \in Seq(Symbol), Say(text)
    PROVE  /\ input' = input \o text /\ input' \in Seq(Symbol)
           /\ Len(input') = Len(input) + Len(text)
           /\ \A i \in 1..Len(input) : input'[i] = input[i]
           /\ \A i \in 1..Len(text) : input'[Len(input) + i] = text[i]
           /\ \A i \in (Len(input) + 1)..(Len(input) + Len(text)) :
                 input'[i] = text[i - Len(input)]
           /\ heard' \in Seq(Symbol)
           /\ heard = <<>> \/ exited => heard' = heard
           /\ heard # <<>> /\ ~exited =>
                 /\ heard' = heard \o text
                 /\ Len(heard') = Len(heard) + Len(text)
                 /\ \A i \in 1..Len(heard) : heard'[i] = heard[i]
                 /\ \A i \in 1..Len(text) : heard'[Len(heard) + i] = text[i]
                 /\ \A i \in (Len(heard) + 1)..(Len(heard) + Len(text)) :
                       heard'[i] = text[i - Len(heard)]
           /\ UNCHANGED <<delivered, mark, missed, exited>>
<1>1. input \in Seq(Symbol) /\ heard \in Seq(Symbol) /\ exited \in BOOLEAN
  BY DEF TypeInv
<1>2. /\ input' = input \o text
      /\ heard' = IF heard # <<>> /\ ~exited THEN heard \o text ELSE heard
      /\ UNCHANGED <<delivered, mark, missed, exited>>
  BY DEF Say
<1>3. /\ input' \in Seq(Symbol) /\ Len(input') = Len(input) + Len(text)
      /\ \A i \in 1..Len(input) : input'[i] = input[i]
      /\ \A i \in 1..Len(text) : input'[Len(input) + i] = text[i]
      /\ \A i \in (Len(input) + 1)..(Len(input) + Len(text)) :
            input'[i] = text[i - Len(input)]
  BY <1>1, <1>2, Joined
<1>4. ASSUME heard # <<>> /\ ~exited
      PROVE  /\ heard' = heard \o text /\ heard' \in Seq(Symbol)
             /\ Len(heard') = Len(heard) + Len(text)
             /\ \A i \in 1..Len(heard) : heard'[i] = heard[i]
             /\ \A i \in 1..Len(text) : heard'[Len(heard) + i] = text[i]
             /\ \A i \in (Len(heard) + 1)..(Len(heard) + Len(text)) :
                   heard'[i] = text[i - Len(heard)]
  <2>1. heard' = heard \o text
    BY <1>2, <1>4
  <2> QED
    BY <1>1, <2>1, Joined
<1>5. heard = <<>> \/ exited => heard' = heard
  BY <1>2
<1> QED
  BY <1>1, <1>2, <1>3, <1>4, <1>5

\* What the reset of the input leaves is the end of it.
LEMMA InputReset ==
    ASSUME TypeInv, ResetInput
    PROVE  /\ input' \in Seq(Symbol)
           /\ UNCHANGED <<in_data, half_line, peer, request>>
           /\ \E k \in 0..Len(input) :
                 /\ Len(input') = Len(input) - k
                 /\ \A i \in 1..(Len(input) - k) : input'[i] = input[k + i]
<1>1. input \in Seq(Symbol)
  BY DEF TypeInv
<1>2. PICK k \in 0..Len(input) : input' = Drop(input, k)
  BY DEF ResetInput
<1> QED
  BY <1>1, <1>2, Dropping DEF ResetInput

LEMMA SaidType ==
    ASSUME TypeInv, NEW text \in Seq(Symbol), Say(text)
    PROVE  /\ input' \in Seq(Symbol) /\ heard' \in Seq(Symbol)
           /\ UNCHANGED <<delivered, mark, missed, exited>>
  BY Said

LEMMA ControlType ==
    ASSUME TypeInv, NEW byte \in Symbol, AsControl(byte)
    PROVE  lines' \in Seq(Reports) /\ line_buffer' \in Seq(Symbol)
  BY ControlRead

LEMMA DeliverType ==
    ASSUME TypeInv, NEW data \in Seq(Symbol), Deliver(data)
    PROVE  /\ delivered' \in Seq(Symbol) /\ mark' \in Nat /\ mark' <= Len(delivered')
           /\ heard' \in Seq(Symbol) /\ missed' \in Int
           /\ Len(delivered') = Len(delivered) + Len(data)
<1>1. delivered \in Seq(Symbol) /\ mark \in Nat /\ mark <= Len(delivered)
  BY DEF TypeInv
<1>2. delivered' = delivered \o data /\ UNCHANGED <<mark, heard, missed>>
  BY DEF Deliver
<1>3. /\ delivered' \in Seq(Symbol) /\ Len(delivered') = Len(delivered) + Len(data)
  BY <1>1, <1>2, Joined
<1>4. Len(delivered) \in Nat /\ Len(data) \in Nat
  BY <1>1, Lengths
<1> QED
  BY <1>1, <1>2, <1>3, <1>4 DEF TypeInv

\* The exit buffer and the chunk together, the exit line in them, and what may be its
\* beginning.
LEMMA ExtendedRead ==
    ASSUME TypeInv
    PROVE  /\ Extended \in Seq(Symbol)
           /\ Len(Extended) = Len(exit_buffer) + Len(chunk)
           /\ \A i \in 1..Len(exit_buffer) : Extended[i] = exit_buffer[i]
           /\ \A i \in 1..Len(chunk) : Extended[Len(exit_buffer) + i] = chunk[i]
           /\ \A i \in (Len(exit_buffer) + 1)..(Len(exit_buffer) + Len(chunk)) :
                 Extended[i] = chunk[i - Len(exit_buffer)]
  BY Joined DEF TypeInv, Extended

WholeAt(s, i) == s[i] = "+" /\ s[i + 1] = "0" /\ s[i + 2] = "r" /\ s[i + 3] = "n"

LEMMA ExitLine ==
    /\ Exited \in Seq(Symbol) /\ Len(Exited) = 4
    /\ Exited[1] = "+" /\ Exited[2] = "0" /\ Exited[3] = "r" /\ Exited[4] = "n"
  BY Symbols DEF Exited

\* The exit line is where its symbols are.
LEMMA ExitWhole ==
    ASSUME NEW s \in Seq(Symbol), NEW i \in 1..(Len(s) - 3)
    PROVE  SubSeq(s, i, i + 3) = Exited <=> WholeAt(s, i)
<1>0. Len(s) \in Nat /\ i \in Nat /\ i >= 1 /\ i + 3 <= Len(s)
  BY Lengths
<1>1. i \in Int /\ i + 3 \in Int /\ \A j \in i..(i + 3) : s[j] \in Symbol
  BY <1>0, Lengths
<1> DEFINE t == SubSeq(s, i, i + 3)
<1>2. /\ t \in Seq(Symbol)
      /\ Len(t) = IF i <= i + 3 THEN (i + 3) - i + 1 ELSE 0
      /\ \A j \in 1..((i + 3) - i + 1) : t[j] = s[i + j - 1]
  BY <1>1, SubSeqProperties
<1> HIDE DEF t
<1>3. Len(t) = 4 /\ (i + 3) - i + 1 = 4
  BY <1>0, <1>2
<1>4. t[1] = s[i] /\ t[2] = s[i + 1] /\ t[3] = s[i + 2] /\ t[4] = s[i + 3]
  <2>1. i + 1 - 1 = i /\ i + 2 - 1 = i + 1 /\ i + 3 - 1 = i + 2 /\ i + 4 - 1 = i + 3
    BY <1>0
  <2>2. \A j \in 1..4 : t[j] = s[i + j - 1]
    BY <1>2, <1>3
  <2> QED
    BY <2>1, <2>2
<1>5. ASSUME t = Exited
      PROVE  WholeAt(s, i)
  BY <1>4, <1>5, ExitLine DEF WholeAt
<1>6. ASSUME WholeAt(s, i)
      PROVE  t = Exited
  <2>1. \A j \in 1..Len(t) : t[j] = Exited[j]
    BY <1>3, <1>4, <1>6, ExitLine DEF WholeAt
  <2> QED
    BY <1>2, <1>3, <2>1, ExitLine, SameSequence
<1> QED
  BY <1>5, <1>6 DEF t

\* Where there is at most one exit line, it is found.
LEMMA ExitSearched ==
    ASSUME NEW s \in Seq(Symbol),
           \A i, j \in 1..(Len(s) - 3) : WholeAt(s, i) /\ WholeAt(s, j) => i = j
    PROVE  \/ FindExit(s) = 0 /\ \A i \in 1..(Len(s) - 3) : ~WholeAt(s, i)
           \/ FindExit(s) \in 1..(Len(s) - 3) /\ WholeAt(s, FindExit(s))
<1> DEFINE at == {i \in 1..(Len(s) - 3) : SubSeq(s, i, i + 3) = Exited}
<1>1. FindExit(s) = IF at = {} THEN 0 ELSE CHOOSE i \in at : \A j \in at : i <= j
  BY DEF FindExit
<1>2. \A i \in 1..(Len(s) - 3) : i \in at <=> WholeAt(s, i)
  BY ExitWhole
<1>3. at \subseteq 1..(Len(s) - 3)
  OBVIOUS
<1> HIDE DEF at
<1>4. CASE at = {}
  BY <1>1, <1>2, <1>4
<1>5. CASE at # {}
  <2>1. PICK p : p \in at
    BY <1>5
  <2>2. \A j \in at : j = p
    BY <1>2, <1>3, <2>1
  <2>3. p \in Int /\ \A j \in at : p <= j
    BY <1>3, <2>1, <2>2
  <2>4. (CHOOSE i \in at : \A j \in at : i <= j) = p
    BY <2>1, <2>2, <2>3
  <2> QED
    BY <1>1, <1>2, <1>3, <1>5, <2>1, <2>4
<1> QED
  BY <1>4, <1>5

\* What is held back is the longest end of the buffer that begins the exit line.
LEMMA PrefixHeld ==
    ASSUME NEW s \in Seq(Symbol)
    PROVE  LET n == PendingExitPrefixLen(s)
           IN  /\ n \in 0..3 /\ n <= Len(s)
               /\ \A i \in 1..n : s[Len(s) - n + i] = Exited[i]
               /\ \A k \in 1..3 :
                     k <= Len(s) /\ (\A i \in 1..k : s[Len(s) - k + i] = Exited[i])
                     => k <= n
<1> DEFINE fits == {k \in 1..(Len(Exited) - 1) :
                       k <= Len(s) /\ Drop(s, Len(s) - k) = Take(Exited, k)}
           best == CHOOSE k \in fits : \A j \in fits : j <= k
<1>1. PendingExitPrefixLen(s) = IF fits = {} THEN 0 ELSE best
  BY DEF PendingExitPrefixLen
<1>2. Len(Exited) - 1 = 3 /\ Len(s) \in Nat
  BY ExitLine, Lengths
<1>3. ASSUME NEW k \in 1..3, k <= Len(s)
      PROVE  k \in fits <=> \A i \in 1..k : s[Len(s) - k + i] = Exited[i]
  <2>1. Len(s) - k \in 0..Len(s) /\ Len(s) - (Len(s) - k) = k /\ k \in 0..Len(Exited)
    BY <1>2, <1>3, ExitLine
  <2>2. /\ Drop(s, Len(s) - k) \in Seq(Symbol) /\ Len(Drop(s, Len(s) - k)) = k
        /\ \A i \in 1..k : Drop(s, Len(s) - k)[i] = s[Len(s) - k + i]
    BY <2>1, Dropping
  <2>3. /\ Take(Exited, k) \in Seq(Symbol) /\ Len(Take(Exited, k)) = k
        /\ \A i \in 1..k : Take(Exited, k)[i] = Exited[i]
    BY <2>1, ExitLine, Taking
  <2>4. Drop(s, Len(s) - k) = Take(Exited, k)
           <=> \A i \in 1..k : s[Len(s) - k + i] = Exited[i]
    BY <2>2, <2>3, SameSequence
  <2> QED
    BY <1>2, <1>3, <2>4
<1>4. fits \subseteq 1..3 /\ \A k \in fits : k <= Len(s)
  BY <1>2
<1> HIDE DEF fits
<1>5. CASE fits = {}
  BY <1>1, <1>2, <1>3, <1>5
<1>6. CASE fits # {}
  <2>1. \E k \in fits : \A j \in fits : j <= k
    <3>1. CASE 3 \in fits
      BY <1>4, <3>1
    <3>2. CASE 3 \notin fits /\ 2 \in fits
      BY <1>4, <3>2
    <3>3. CASE 3 \notin fits /\ 2 \notin fits
      <4>1. \A j \in fits : j = 1
        BY <1>4, <3>3
      <4>2. 1 \in fits
        BY <1>6, <4>1
      <4> QED
        BY <4>1, <4>2
    <3> QED
      BY <3>1, <3>2, <3>3
  <2>2. best \in fits /\ \A j \in fits : j <= best
    BY <2>1
  <2> HIDE DEF best
  <2>3. best \in 1..3 /\ best <= Len(s)
    BY <1>4, <2>2
  <2>4. \A i \in 1..best : s[Len(s) - best + i] = Exited[i]
    BY <1>3, <2>2, <2>3
  <2> QED
    BY <1>1, <1>3, <1>6, <2>2, <2>3, <2>4
<1> QED
  BY <1>5, <1>6

LEMMA Sizes ==
    ASSUME TypeInv
    PROVE  /\ Len(input) \in Nat /\ Len(heard) \in Nat /\ Len(chunk) \in Nat
           /\ Len(exit_buffer) \in Nat /\ Len(line_buffer) \in Nat /\ Len(lines) \in Nat
           /\ Len(delivered) \in Nat /\ Len(peer) \in Nat /\ Handed \in Nat
           /\ mark \in Nat /\ missed \in Int
  BY Lengths DEF TypeInv, Handed

\* In a session the exit buffer and the chunk together are a part of what was heard.
LEMMA ExtendedCarried ==
    ASSUME TypeInv, NEW b \in Nat, Carried(b)
    PROVE  /\ b + Handed + Len(Extended) + Len(input) = Len(heard)
           /\ \A j \in 1..Len(Extended) : Extended[j] = heard[b + Handed + j]
<1>1. b + Handed + Len(exit_buffer) + Len(chunk) + Len(input) = Len(heard)
  BY DEF Carried
<1>2. ASSUME NEW j \in 1..Len(Extended)
      PROVE  Extended[j] = heard[b + Handed + j]
  <2>1. CASE j <= Len(exit_buffer)
    <3>1. j \in 1..Len(exit_buffer)
      BY <2>1, Sizes
    <3> QED
      BY <3>1, ExtendedRead DEF Carried
  <2>2. CASE j > Len(exit_buffer)
    <3> DEFINE i == j - Len(exit_buffer)
    <3>1. i \in 1..Len(chunk) /\ Len(exit_buffer) + i = j
      BY <2>2, Sizes, ExtendedRead
    <3>2. b + Handed + Len(exit_buffer) + i = b + Handed + j
      BY <3>1, Sizes
    <3> HIDE DEF i
    <3>3. chunk[i] = heard[b + Handed + Len(exit_buffer) + i]
      BY <3>1 DEF Carried
    <3> QED
      BY <3>1, <3>2, <3>3, ExtendedRead
  <2> QED
    BY <2>1, <2>2, Sizes
<1>3. /\ Len(Extended) = Len(exit_buffer) + Len(chunk)
      /\ Len(exit_buffer) \in Nat /\ Len(chunk) \in Nat /\ Handed \in Nat
      /\ Len(input) \in Nat
  BY Sizes, ExtendedRead
<1>4. b + Handed + Len(Extended) + Len(input) = Len(heard)
  BY <1>1, <1>3
<1> QED
  BY <1>2, <1>4

\* So the exit line is in them at most once, and found when it is.
LEMMA ExitFound ==
    ASSUME TypeInv, FlagInv, StreamInv, exit_pending
    PROVE  \/ /\ FindExit(Extended) = 0
              /\ \A i \in 1..(Len(Extended) - 3) : ~WholeAt(Extended, i)
           \/ /\ FindExit(Extended) \in 1..(Len(Extended) - 3)
              /\ WholeAt(Extended, FindExit(Extended))
<1>1. data_mode
  BY DEF FlagInv
<1>2. OneExit /\ missed >= 0
  BY <1>1 DEF StreamInv
<1>3. PICK b \in {missed, missed + 1} : Carried(b)
  BY <1>1 DEF StreamInv
<1>4. b \in Nat /\ Carried(b)
  BY <1>2, <1>3, Sizes
<1>5. /\ b + Handed + Len(Extended) + Len(input) = Len(heard)
      /\ \A j \in 1..Len(Extended) : Extended[j] = heard[b + Handed + j]
  BY <1>4, ExtendedCarried
<1>6. Extended \in Seq(Symbol) /\ Len(Extended) \in Nat /\ Handed \in Nat
      /\ Len(input) \in Nat
  BY ExtendedRead, Sizes
<1>7. ASSUME NEW i \in 1..(Len(Extended) - 3), WholeAt(Extended, i)
      PROVE  /\ b + Handed + i \in 1..(Len(heard) - 2)
             /\ ExitAt(heard, b + Handed + i)
  <2>1. i \in 1..Len(Extended) /\ i + 1 \in 1..Len(Extended) /\ i + 2 \in 1..Len(Extended)
    BY <1>6
  <2>2. /\ b + Handed + (i + 1) = b + Handed + i + 1
        /\ b + Handed + (i + 2) = b + Handed + i + 2
    BY <1>4, <1>6
  <2>3. /\ heard[b + Handed + i] = Extended[i]
        /\ heard[b + Handed + i + 1] = Extended[i + 1]
        /\ heard[b + Handed + i + 2] = Extended[i + 2]
    BY <1>5, <2>1, <2>2
  <2>4. b + Handed + i \in 1..(Len(heard) - 2)
    BY <1>4, <1>5, <1>6
  <2> QED
    BY <1>7, <2>3, <2>4 DEF WholeAt, ExitAt
<1>8. ASSUME NEW i \in 1..(Len(Extended) - 3), NEW j \in 1..(Len(Extended) - 3),
             WholeAt(Extended, i), WholeAt(Extended, j)
      PROVE  i = j
  <2>1. b + Handed + i = b + Handed + j
    BY <1>2, <1>7, <1>8 DEF OneExit
  <2> QED
    BY <1>4, <1>6, <2>1
<1> QED
  BY <1>6, <1>8, ExitSearched

\* What is handed over of them without the exit line, and what is held back.
LEMMA Flushed ==
    ASSUME TypeInv
    PROVE  LET n == PendingExitPrefixLen(Extended)
           IN  /\ Len(Extended) - n \in 0..Len(Extended)
               /\ Take(Extended, Len(Extended) - n) \in Seq(Symbol)
               /\ Drop(Extended, Len(Extended) - n) \in Seq(Symbol)
<1> DEFINE n == PendingExitPrefixLen(Extended)
<1>1. Extended \in Seq(Symbol) /\ Len(Extended) \in Nat
  BY ExtendedRead, Sizes
<1>2. n \in 0..3 /\ n <= Len(Extended)
  BY <1>1, PrefixHeld
<1> HIDE DEF n
<1>3. Len(Extended) - n \in 0..Len(Extended)
  BY <1>1, <1>2
<1> QED
  BY <1>1, <1>3, Taking, Dropping DEF n

LEMMA FaultType ==
    ASSUME TypeInv, Fault
    PROVE  sessions' \in 0..MaxSessions /\ faults' \in 0..MaxFaults
<1>1. MaxFaults \in Nat /\ faults \in 0..MaxFaults /\ sessions \in 0..MaxSessions
  BY BoundAssumption DEF TypeInv
<1> QED
  BY <1>1 DEF Fault

\* A step of the caller that leaves all else alone.
LEMMA CallerAlone ==
    ASSUME TypeInv, UNCHANGED <<firmware, reader, flags, bounds, history>>,
           lines' \in Seq(Reports), pc' \in Places, recovering' \in {"no", "first", "last"}
    PROVE  TypeInv'
  BY DEF TypeInv, firmware, reader, flags, bounds, history

\* Types do not change.
LEMMA TypeStep ==
    ASSUME TypeInv, FlagInv, StreamInv, Next
    PROVE  TypeInv'
<1> USE Symbols
<1>1. CASE AnswerAt
  <2>1. PICK text \in Seq(Symbol) : Say(text)
    BY <1>1 DEF AnswerAt
  <2> QED
    BY <1>1, <2>1, SaidType DEF AnswerAt, ClientIdle, TypeInv, reader, flags, caller, bounds
<1>2. CASE AnswerEnter
  <2>1. CASE half_line
    <3>1. Say(ErrLine)
      BY <1>2, <2>1 DEF AnswerEnter
    <3> QED
      BY <1>2, <2>1, <3>1, SaidType
      DEF AnswerEnter, ClientIdle, TypeInv, reader, flags, caller, bounds
  <2>2. CASE ~half_line
    <3>1. input' = input \o OkLine \o Entered /\ heard' = <<"n">>
      BY <1>2, <2>2 DEF AnswerEnter
    <3>2. input' \in Seq(Symbol) /\ heard' \in Seq(Symbol)
      BY <3>1, Joined DEF TypeInv
    <3> QED
      BY <1>2, <2>2, <3>2
      DEF AnswerEnter, ClientIdle, TypeInv, reader, flags, caller, bounds
  <2> QED
    BY <2>1, <2>2
<1>3. CASE AnswerEscape
  <2>1. PICK text \in Seq(Symbol) : Say(text)
    BY <1>3 DEF AnswerEscape
  <2> QED
    BY <1>3, <2>1, SaidType
    DEF AnswerEscape, ClientIdle, TypeInv, reader, flags, caller, bounds
<1>4. CASE EscapeMissed
  BY <1>4, FaultType DEF EscapeMissed, ClientIdle, TypeInv, reader, flags, caller, history
<1>5. CASE LinkLost
  <2>1. Say(IndLine) /\ Fault
    BY <1>5 DEF LinkLost
  <2>2. sessions' \in 0..MaxSessions /\ faults' \in 0..MaxFaults
    BY <2>1, FaultType
  <2>3. /\ input' \in Seq(Symbol) /\ heard' \in Seq(Symbol)
        /\ UNCHANGED <<delivered, mark, missed, exited>>
    BY <2>1, SaidType, Symbols
  <2>4. /\ UNCHANGED <<half_line, peer, request>> /\ in_data' \in BOOLEAN
        /\ UNCHANGED <<reading, chunk, line_buffer, exit_buffer>>
        /\ UNCHANGED <<data_mode, exit_pending, lines, pc, recovering>>
    BY <1>5 DEF LinkLost, ClientIdle, TypeInv, reader, flags, caller
  <2> QED
    BY <2>2, <2>3, <2>4 DEF TypeInv
<1>6. CASE Notify
  <2>1. Tail(peer) \in Seq(Byte) /\ Head(peer) \in Byte
    BY <1>6, Taken DEF Notify, TypeInv
  <2>2. <<Head(peer)>> \in Seq(Symbol) /\ Say(<<Head(peer)>>)
    BY <1>6, <2>1 DEF Notify
  <2>3. input' \in Seq(Symbol) /\ heard' \in Seq(Symbol)
        /\ UNCHANGED <<delivered, mark, missed, exited>>
    BY <2>2, SaidType
  <2> QED
    BY <1>6, <2>1, <2>3
    DEF Notify, ClientIdle, TypeInv, reader, flags, caller, bounds
<1>7. CASE Indicate
  <2>1. Say(IndLine) /\ Fault
    BY <1>7 DEF Indicate
  <2>2. sessions' \in 0..MaxSessions /\ faults' \in 0..MaxFaults
    BY <2>1, FaultType
  <2>3. /\ input' \in Seq(Symbol) /\ heard' \in Seq(Symbol)
        /\ UNCHANGED <<delivered, mark, missed, exited>>
    BY <2>1, SaidType, Symbols
  <2>4. /\ UNCHANGED <<half_line, peer, request>> /\ in_data' \in BOOLEAN
        /\ UNCHANGED <<reading, chunk, line_buffer, exit_buffer>>
        /\ UNCHANGED <<data_mode, exit_pending, lines, pc, recovering>>
    BY <1>7 DEF Indicate, ClientIdle, TypeInv, reader, flags, caller
  <2> QED
    BY <2>2, <2>3, <2>4 DEF TypeInv
<1>8. CASE ReadBegins \/ ReadTimesOut
  <2>1. /\ UNCHANGED <<in_data, half_line, peer, request, input>>
        /\ UNCHANGED <<chunk, line_buffer, exit_buffer, lines, flags, caller>>
        /\ UNCHANGED <<bounds, history>>
        /\ reading' \in {"no", "control", "data", "handle", "rest"}
    BY <1>8 DEF ReadBegins, ReadTimesOut, Others
  <2> QED
    BY <2>1 DEF TypeInv, flags, caller, bounds, history
<1>9. CASE ReadControl
  <2>1. Head(input) \in Symbol /\ Tail(input) \in Seq(Symbol)
    BY <1>9, Taken DEF ReadControl, TypeInv
  <2>2. lines' \in Seq(Reports) /\ line_buffer' \in Seq(Symbol)
    BY <1>9, <2>1, ControlType DEF ReadControl
  <2> QED
    BY <1>9, <2>1, <2>2 DEF ReadControl, Others, TypeInv, flags, caller, bounds, history
<1>10. CASE ReadData
  <2>1. PICK k \in 1..Len(input) : chunk' = Take(input, k) /\ input' = Drop(input, k)
    BY <1>10 DEF ReadData
  <2>2. k \in 0..Len(input) /\ input \in Seq(Symbol)
    BY <2>1, Sizes DEF TypeInv
  <2>3. chunk' \in Seq(Symbol) /\ input' \in Seq(Symbol)
    BY <2>1, <2>2, Taking, Dropping
  <2> QED
    BY <1>10, <2>3 DEF ReadData, Others, TypeInv, flags, caller, bounds, history
<1>11. CASE HandleStream
  <2>1. chunk \in Seq(Symbol) /\ Deliver(chunk)
    BY <1>11 DEF HandleStream, TypeInv
  <2> QED
    BY <1>11, <2>1, DeliverType DEF HandleStream, Others, TypeInv, flags, caller, bounds
<1>12. CASE HandleNoExit
  <2> DEFINE flush == Len(Extended) - PendingExitPrefixLen(Extended)
  <2>1. Deliver(Take(Extended, flush)) /\ exit_buffer' = Drop(Extended, flush)
    BY <1>12 DEF HandleNoExit
  <2>2. Take(Extended, flush) \in Seq(Symbol) /\ Drop(Extended, flush) \in Seq(Symbol)
    BY Flushed
  <2> HIDE DEF flush
  <2> QED
    BY <1>12, <2>1, <2>2, DeliverType
    DEF HandleNoExit, Others, TypeInv, flags, caller, bounds
<1>13. CASE HandleExit
  <2> DEFINE at == FindExit(Extended)
  <2>1. Deliver(Take(Extended, at - 1)) /\ chunk' = Drop(Extended, at + 3)
    BY <1>13 DEF HandleExit
  <2>2. at \in 1..(Len(Extended) - 3)
    BY <1>13, ExitFound DEF HandleExit
  <2> HIDE DEF at
  <2>3. /\ at - 1 \in 0..Len(Extended) /\ at + 3 \in 0..Len(Extended)
        /\ Extended \in Seq(Symbol)
    BY <2>2, ExtendedRead, Sizes
  <2>4. Take(Extended, at - 1) \in Seq(Symbol) /\ Drop(Extended, at + 3) \in Seq(Symbol)
    BY <2>3, Taking, Dropping
  <2>5. lines' \in Seq(Reports)
    <3>1. "D0" \in Reports /\ lines \in Seq(Reports)
      BY DEF Reports, TypeInv
    <3> QED
      BY <1>13, <3>1, Appended DEF HandleExit
  <2> QED
    BY <1>13, <2>1, <2>4, <2>5, DeliverType DEF HandleExit, Others, TypeInv, caller, bounds
<1>14. CASE HandleRest
  <2>0. reading = "rest" /\ chunk # <<>>
    BY <1>14 DEF HandleRest, FlagInv
  <2>1. Head(chunk) \in Symbol /\ Tail(chunk) \in Seq(Symbol)
    BY <2>0, Taken DEF TypeInv
  <2>2. lines' \in Seq(Reports) /\ line_buffer' \in Seq(Symbol)
    BY <1>14, <2>1, ControlType DEF HandleRest
  <2> QED
    BY <1>14, <2>1, <2>2 DEF HandleRest, Others, TypeInv, flags, caller, bounds, history
<1>15. ASSUME lines # <<>>, lines' = Tail(lines)
       PROVE  lines' \in Seq(Reports)
  BY <1>15, Taken DEF TypeInv
<1>16. CASE SyncBegins
  BY <1>16, InputReset DEF SyncBegins, Places, TypeInv, reader, flags, bounds, history
<1>17. CASE SyncWrites
  <2>1. lines' \in Seq(Reports)
    BY <1>17, Empty DEF SyncWrites
  <2> QED
    BY <1>17, <2>1 DEF SyncWrites, Writes, Places, TypeInv, flags, bounds, history
<1>18. CASE SyncDone \/ EnterOk \/ ExitSeen
  <2>1. /\ lines # <<>> /\ lines' = Tail(lines)
        /\ UNCHANGED <<firmware, reader, flags, bounds, history>>
        /\ pc' \in Places /\ recovering' \in {"no", "first", "last"}
    <3>1. CASE SyncDone
      BY <3>1 DEF SyncDone, Skips, Gets, Waits, Places, TypeInv, caller
    <3>2. CASE EnterOk
      BY <3>2 DEF EnterOk, Skips, Gets, Waits, Places, TypeInv, caller
    <3>3. CASE ExitSeen
      BY <3>3 DEF ExitSeen, Skips, Gets, Waits, Places, TypeInv, caller
    <3> QED
      BY <1>18, <3>1, <3>2, <3>3
  <2>2. lines' \in Seq(Reports)
    BY <1>15, <2>1
  <2> QED
    BY <2>1, <2>2, CallerAlone
<1>19. CASE SyncFails \/ ExitFails
  <2>1. /\ UNCHANGED <<firmware, reader, flags, bounds, history>> /\ UNCHANGED lines
        /\ pc' \in Places /\ recovering' = recovering
    BY <1>19 DEF SyncFails, ExitFails, TimesOut, Waits, Places
  <2>2. lines' \in Seq(Reports) /\ recovering' \in {"no", "first", "last"}
    BY <2>1 DEF TypeInv
  <2> QED
    BY <2>1, <2>2, CallerAlone
<1>20. CASE RecoverResets
  <2>1. lines' \in Seq(Reports)
    BY <1>20, Empty DEF RecoverResets
  <2>2. input' \in Seq(Symbol) /\ UNCHANGED <<in_data, half_line, peer, request>>
    BY <1>20, InputReset DEF RecoverResets
  <2>3. /\ UNCHANGED <<reading, chunk, exit_buffer, recovering, bounds, history>>
        /\ line_buffer' = <<>> /\ exit_pending' = FALSE /\ data_mode' = FALSE
        /\ pc' = "guard"
    BY <1>20 DEF RecoverResets
  <2> QED
    BY <2>1, <2>2, <2>3 DEF Places, TypeInv, bounds, history
<1>21. CASE RecoverEscapes \/ ExitWrites
  BY <1>21
  DEF RecoverEscapes, ExitWrites, Writes, Places, TypeInv, reader, flags, bounds, history
<1>22. CASE RecoverEscaped
  <2>1. /\ UNCHANGED <<firmware, reader, flags, bounds, history>>
        /\ lines' = lines \/ (lines # <<>> /\ lines' = Tail(lines))
        /\ recovering' = recovering /\ pc' \in {pc, "escaped"}
    BY <1>22 DEF RecoverEscaped, Skips, Gets, TimesOut, Waits, caller
  <2>2. lines' \in Seq(Reports) /\ pc' \in Places
    BY <1>15, <2>1 DEF TypeInv, Places
  <2> QED
    BY <2>1, <2>2 DEF TypeInv, firmware, reader, flags, bounds, history
<1>23. CASE EnterDone
  <2>1. /\ lines # <<>> /\ lines' = Tail(lines)
        /\ UNCHANGED <<firmware, reader, exit_pending, recovering, bounds,
                       delivered, mark, heard, exited>>
        /\ data_mode' \in BOOLEAN /\ pc' \in Places
        /\ missed' = Len(heard) - Len(input) \/ missed' = missed
    BY <1>23 DEF EnterDone, Skips, Waits, Places, TypeInv, flags, caller, history
  <2>2. lines' \in Seq(Reports) /\ missed' \in Int
    BY <1>15, <2>1, Sizes
  <2> QED
    BY <2>1, <2>2 DEF TypeInv, firmware, reader, bounds
<1>24. CASE EnterWrites
  <2>1. sessions' \in 0..MaxSessions /\ mark' \in Nat /\ mark' <= Len(delivered')
    BY <1>24, Sizes, BoundAssumption DEF EnterWrites, TypeInv
  <2> QED
    BY <1>24, <2>1 DEF EnterWrites, Writes, Places, TypeInv, reader, flags
<1>25. CASE ExitBegins
  BY <1>25 DEF ExitBegins, Places, TypeInv, firmware, reader, bounds, history
<1>26. CASE ExitAgain
  BY <1>26 DEF ExitAgain, Places, TypeInv, firmware, reader, flags, bounds, history
<1>27. CASE StartedAgain \/ Killed
  <2>1. NewClient /\ sessions' \in 0..MaxSessions /\ faults' \in 0..MaxFaults
    <3>1. CASE StartedAgain
      BY <3>1 DEF StartedAgain, TypeInv, bounds
    <3>2. CASE Killed
      BY <3>2, FaultType DEF Killed
    <3> QED
      BY <1>27, <3>1, <3>2
  <2>2. /\ lines' \in Seq(Reports) /\ chunk' \in Seq(Symbol)
        /\ line_buffer' \in Seq(Symbol) /\ exit_buffer' \in Seq(Symbol)
        /\ delivered' \in Seq(Symbol) /\ heard' \in Seq(Symbol)
        /\ mark' \in Nat /\ mark' <= Len(delivered') /\ missed' \in Int
    BY <2>1, Empty DEF NewClient
  <2>3. input' \in Seq(Symbol) /\ UNCHANGED <<in_data, half_line, peer, request>>
    BY <2>1, InputReset DEF NewClient
  <2> QED
    BY <2>1, <2>2, <2>3 DEF NewClient, Places, TypeInv
<1> QED
  BY <1>1, <1>2, <1>3, <1>4, <1>5, <1>6, <1>7, <1>8, <1>9, <1>10, <1>11, <1>12, <1>13,
     <1>14, <1>16, <1>17, <1>18, <1>19, <1>20, <1>21, <1>22, <1>23, <1>24, <1>25, <1>26,
     <1>27
  DEF Next, Firmware, Environment, Reader, Caller

----------------------------------------------------------------------------
\* What a sequence lacks.
LEMMA LacksEmpty ==
    ASSUME NEW X
    PROVE  Lacks(<<>>, X)
  BY Empty DEF Lacks

LEMMA LacksMore ==
    ASSUME NEW s, NEW X, NEW Y, Lacks(s, X), Y \subseteq X
    PROVE  Lacks(s, Y)
  BY DEF Lacks

LEMMA LacksJoined ==
    ASSUME NEW S, NEW s \in Seq(S), NEW t \in Seq(S), NEW X
    PROVE  Lacks(s \o t, X) <=> Lacks(s, X) /\ Lacks(t, X)
<1>1. Len(s) \in Nat /\ Len(t) \in Nat
  BY Lengths
<1>2. /\ Len(s \o t) = Len(s) + Len(t)
      /\ \A i \in 1..Len(s) : (s \o t)[i] = s[i]
      /\ \A i \in 1..Len(t) : (s \o t)[Len(s) + i] = t[i]
      /\ \A i \in (Len(s) + 1)..(Len(s) + Len(t)) : (s \o t)[i] = t[i - Len(s)]
  BY Joined
<1>3. ASSUME Lacks(s \o t, X)
      PROVE  Lacks(s, X) /\ Lacks(t, X)
  <2>1. ASSUME NEW i \in 1..Len(s)
        PROVE  s[i] \notin X
    BY <1>1, <1>2, <1>3 DEF Lacks
  <2>2. ASSUME NEW i \in 1..Len(t)
        PROVE  t[i] \notin X
    <3>1. Len(s) + i \in 1..Len(s \o t) /\ (s \o t)[Len(s) + i] = t[i]
      BY <1>1, <1>2
    <3> QED
      BY <1>3, <3>1 DEF Lacks
  <2> QED
    BY <2>1, <2>2 DEF Lacks
<1>4. ASSUME Lacks(s, X) /\ Lacks(t, X)
      PROVE  Lacks(s \o t, X)
  <2>1. ASSUME NEW i \in 1..Len(s \o t)
        PROVE  (s \o t)[i] \notin X
    <3>1. CASE i \in 1..Len(s)
      BY <1>2, <1>4, <3>1 DEF Lacks
    <3>2. CASE i > Len(s)
      <4>1. i - Len(s) \in 1..Len(t) /\ (s \o t)[i] = t[i - Len(s)]
        BY <1>1, <1>2, <3>2
      <4> QED
        BY <1>4, <4>1 DEF Lacks
    <3> QED
      BY <1>1, <1>2, <3>1, <3>2
  <2> QED
    BY <2>1 DEF Lacks
<1> QED
  BY <1>3, <1>4

LEMMA LacksAppended ==
    ASSUME NEW S, NEW s \in Seq(S), NEW e \in S, NEW X
    PROVE  Lacks(Append(s, e), X) <=> Lacks(s, X) /\ e \notin X
<1>1. Len(s) \in Nat
  BY Lengths
<1>2. /\ Len(Append(s, e)) = Len(s) + 1 /\ Append(s, e)[Len(s) + 1] = e
      /\ \A i \in 1..Len(s) : Append(s, e)[i] = s[i]
  BY Appended
<1> QED
  BY <1>1, <1>2 DEF Lacks

LEMMA LacksTaken ==
    ASSUME NEW S, NEW s \in Seq(S), s # <<>>, NEW X
    PROVE  Lacks(s, X) <=> Head(s) \notin X /\ Lacks(Tail(s), X)
<1>1. /\ Len(s) \in Nat /\ Len(s) >= 1 /\ Len(Tail(s)) = Len(s) - 1 /\ Head(s) = s[1]
      /\ \A i \in 1..(Len(s) - 1) : Tail(s)[i] = s[i + 1]
  BY Taken
<1>2. ASSUME Lacks(s, X)
      PROVE  Head(s) \notin X /\ Lacks(Tail(s), X)
  BY <1>1, <1>2 DEF Lacks
<1>3. ASSUME Head(s) \notin X /\ Lacks(Tail(s), X)
      PROVE  Lacks(s, X)
  <2>1. ASSUME NEW i \in 1..Len(s)
        PROVE  s[i] \notin X
    <3>1. CASE i = 1
      BY <1>1, <1>3, <3>1
    <3>2. CASE i # 1
      <4>1. i - 1 \in 1..(Len(s) - 1) /\ (i - 1) + 1 = i
        BY <1>1, <3>2
      <4> QED
        BY <1>1, <1>3, <4>1 DEF Lacks
    <3> QED
      BY <3>1, <3>2
  <2> QED
    BY <2>1 DEF Lacks
<1> QED
  BY <1>2, <1>3

LEMMA LacksPart ==
    ASSUME NEW S, NEW s \in Seq(S), NEW k \in 0..Len(s), NEW X, Lacks(s, X)
    PROVE  Lacks(Drop(s, k), X) /\ Lacks(Take(s, k), X)
<1>1. Len(s) \in Nat /\ k \in Nat /\ k <= Len(s)
  BY Lengths
<1>2. Lacks(Take(s, k), X)
  <2>1. Len(Take(s, k)) = k /\ \A i \in 1..k : Take(s, k)[i] = s[i]
    BY Taking
  <2>2. \A i \in 1..k : i \in 1..Len(s)
    BY <1>1
  <2> QED
    BY <2>1, <2>2 DEF Lacks
<1>3. ASSUME NEW i \in 1..Len(Drop(s, k))
      PROVE  Drop(s, k)[i] \notin X
  <2>1. Len(Drop(s, k)) = Len(s) - k /\ \A j \in 1..(Len(s) - k) : Drop(s, k)[j] = s[k + j]
    BY Dropping
  <2>2. k + i \in 1..Len(s) /\ Drop(s, k)[i] = s[k + i]
    BY <1>1, <2>1
  <2> QED
    BY <2>2 DEF Lacks
<1> QED
  BY <1>2, <1>3 DEF Lacks

\* No answer among the bytes, no answer among the lines.
LEMMA ControlLacks ==
    ASSUME TypeInv, NEW byte \in Symbol, AsControl(byte), NEW x \in {"OK", "ERR", "D1"}
    PROVE  /\ Lacks(line_buffer, {x}) /\ byte # x => Lacks(line_buffer', {x})
           /\ Lacks(line_buffer, {x}) /\ Lacks(lines, {x}) => Lacks(lines', {x})
<1>1. lines \in Seq(Reports) /\ line_buffer \in Seq(Symbol)
  BY DEF TypeInv
<1>2. ASSUME Lacks(line_buffer, {x}) /\ byte # x
      PROVE  Lacks(line_buffer', {x})
  <2>1. CASE line_buffer' = <<>>
    BY <2>1, LacksEmpty
  <2>2. CASE line_buffer' = Append(line_buffer, byte)
    BY <1>1, <1>2, <2>2, LacksAppended
  <2> QED
    BY <2>1, <2>2, ControlRead
<1>3. ASSUME Lacks(line_buffer, {x}) /\ Lacks(lines, {x})
      PROVE  Lacks(lines', {x})
  <2>1. CASE lines' = lines
    BY <1>3, <2>1
  <2>2. CASE lines' = Append(lines, LineOf(line_buffer))
    <3>1. LineOf(line_buffer) # x
      <4>1. SUFFICES ASSUME LineOf(line_buffer) = x
                     PROVE  FALSE
        OBVIOUS
      <4>2. line_buffer = <<x>>
        BY <4>1, LineRead
      <4>3. Len(line_buffer) = 1 /\ line_buffer[1] = x
        BY <4>2
      <4> QED
        BY <1>3, <4>3 DEF Lacks
    <3>2. LineOf(line_buffer) \in Reports
      BY LineRead
    <3> QED
      BY <1>1, <1>3, <2>2, <3>1, <3>2, LacksAppended
  <2> QED
    BY <2>1, <2>2, ControlRead
<1> QED
  BY <1>2, <1>3

----------------------------------------------------------------------------
\* The peer's stream gets shorter at its beginning.
LEMMA PeerStep ==
    ASSUME TypeInv, PeerInv, Next
    PROVE  PeerInv'
<1>1. CASE Notify
  <2>1. peer # <<>> /\ peer' = Tail(peer) /\ peer \in Seq(Byte)
    BY <1>1 DEF Notify, TypeInv
  <2>2. /\ Len(peer) \in Nat /\ Len(peer') = Len(peer) - 1
        /\ \A i \in 1..(Len(peer) - 1) : peer'[i] = peer[i + 1]
    BY <2>1, Taken
  <2>3. Free(peer')
    BY <2>1, LacksTaken DEF PeerInv, Free
  <2>4. ASSUME NEW i \in 1..(Len(peer') - 2)
        PROVE  ~ExitAt(peer', i)
    <3>1. i + 1 \in 1..(Len(peer) - 2) /\ i \in Nat
      BY <2>2
    <3>2. /\ peer'[i] = peer[i + 1] /\ peer'[i + 1] = peer[i + 1 + 1]
          /\ peer'[i + 2] = peer[i + 1 + 2]
      <4>1. /\ i \in 1..(Len(peer) - 1) /\ i + 1 \in 1..(Len(peer) - 1)
            /\ i + 2 \in 1..(Len(peer) - 1)
            /\ (i + 1) + 1 = i + 1 + 1 /\ (i + 2) + 1 = i + 1 + 2
        BY <2>2, <3>1
      <4> QED
        BY <2>2, <4>1
    <3>3. ~ExitAt(peer, i + 1)
      BY <3>1 DEF PeerInv, NoExitIn
    <3> QED
      BY <3>2, <3>3 DEF ExitAt
  <2> QED
    BY <2>3, <2>4 DEF PeerInv, NoExitIn
<1>2. CASE ~Notify
  <2>1. UNCHANGED peer
    <3>1. CASE Firmware \/ Environment
      BY <1>2, <3>1
      DEF Firmware, Environment, AnswerAt, AnswerEnter, AnswerEscape, Indicate, LinkLost,
          EscapeMissed
    <3>2. CASE Reader
      BY <3>2
      DEF Reader, ReadBegins, ReadTimesOut, ReadControl, ReadData, HandleStream,
          HandleNoExit, HandleExit, HandleRest, Others
    <3>3. CASE Caller
      BY <3>3
      DEF Caller, SyncBegins, SyncWrites, SyncDone, SyncFails, RecoverResets,
          RecoverEscapes, RecoverEscaped, EnterOk, EnterDone, ExitWrites, ExitSeen,
          ExitFails, Skips, Gets, TimesOut, Waits, Writes, ResetInput, firmware
    <3>4. CASE EnterWrites \/ ExitBegins \/ ExitAgain \/ StartedAgain \/ Killed
      BY <3>4
      DEF EnterWrites, ExitBegins, ExitAgain, StartedAgain, Killed, NewClient, Writes,
          ResetInput, firmware
    <3> QED
      BY <3>1, <3>2, <3>3, <3>4 DEF Next
  <2> QED
    BY <2>1 DEF PeerInv, NoExitIn, ExitAt, Free, Lacks
<1> QED
  BY <1>1, <1>2

----------------------------------------------------------------------------
\* The firmware leaves the client alone.
LEMMA FirmwareKeeps ==
    ASSUME Firmware \/ Environment
    PROVE  UNCHANGED <<reader, flags, lines, caller, delivered, mark, missed, exited>>
  BY DEF Firmware, Environment, AnswerAt, AnswerEnter, AnswerEscape, EscapeMissed,
         LinkLost, Notify, Indicate, ClientIdle, Say, history

\* In data mode the control read that was under way finds no exit line.
LEMMA LateByte ==
    ASSUME TypeInv, FlagInv, StreamInv, data_mode, ReadControl, Lacks(lines, {"D0"})
    PROVE  Lacks(lines', {"D0"})
<1>1. /\ input # <<>> /\ AsControl(Head(input)) /\ input \in Seq(Symbol)
      /\ lines \in Seq(Reports) /\ line_buffer \in Seq(Symbol)
  BY DEF ReadControl, TypeInv
<1>2. Head(input) \in Symbol /\ Head(input) = input[1] /\ Len(input) >= 1
  BY <1>1, Taken
<1>3. OneExit /\ missed >= 0 /\ Carried(missed) /\ Handed = 0 /\ exit_buffer = <<>>
      /\ BufferHeard(missed)
  BY DEF StreamInv, ReadControl
<1>4. CASE lines' = lines
  BY <1>4
<1>5. CASE Head(input) \in {"r", "n"} /\ lines' = Append(lines, LineOf(line_buffer))
  <2>1. LineOf(line_buffer) # "D0"
    <3> SUFFICES ASSUME line_buffer = <<"+", "0">>
                 PROVE  FALSE
      BY LineRead
    <3>1. Len(line_buffer) = 2 /\ line_buffer[1] = "+" /\ line_buffer[2] = "0"
      OBVIOUS
    <3>2. missed \in Nat /\ missed >= 2
      BY <1>3, <3>1, Sizes DEF BufferHeard
    <3>3. heard[missed - 1] = "+" /\ heard[missed] = "0"
      <4>1. /\ line_buffer[1] = heard[missed - 2 + 1]
            /\ line_buffer[2] = heard[missed - 2 + 2]
        BY <1>3, <3>1 DEF BufferHeard
      <4>2. missed - 2 + 1 = missed - 1 /\ missed - 2 + 2 = missed
        BY <3>2
      <4> QED
        BY <3>1, <4>1, <4>2
    <3>4. missed + 1 <= Len(heard) /\ heard[missed + 1] \in {"r", "n"}
      <4>1. Handed = 0 /\ Len(exit_buffer) = 0 /\ Len(chunk) = 0
        BY <1>3, Empty DEF ReadControl, FlagInv
      <4>2. missed + Len(input) = Len(heard)
        BY <1>3, <3>2, <4>1, Sizes DEF Carried
      <4>3. input[1] = heard[missed + Handed + Len(exit_buffer) + Len(chunk) + 1]
        BY <1>2, <1>3, Sizes DEF Carried
      <4>4. missed + Handed + Len(exit_buffer) + Len(chunk) + 1 = missed + 1
        BY <3>2, <4>1
      <4>5. Len(input) \in Nat /\ Len(heard) \in Nat
        BY Sizes
      <4>6. missed + 1 <= Len(heard)
        BY <1>2, <3>2, <4>2, <4>5
      <4> QED
        BY <1>5, <4>3, <4>4, <4>6
    <3>5. /\ missed - 1 \in 1..(Len(heard) - 2) /\ missed - 1 + 1 = missed
          /\ missed - 1 + 2 = missed + 1
      BY <3>2, <3>4, Sizes
    <3>6. ExitAt(heard, missed - 1)
      BY <3>3, <3>4, <3>5 DEF ExitAt
    <3>7. missed - 1 > missed
      BY <1>3, <3>5, <3>6 DEF OneExit
    <3> QED
      BY <3>2, <3>7
  <2>2. LineOf(line_buffer) \in Reports
    BY LineRead
  <2> QED
    BY <1>1, <1>5, <2>1, <2>2, LacksAppended
<1> QED
  BY <1>1, <1>2, <1>4, <1>5, ControlRead

\* What is held back, and what is left when it is handed over.
LEMMA HeldBack ==
    ASSUME TypeInv, HandleNoExit
    PROVE  Len(exit_buffer') <= 3 /\ IsPrefix(exit_buffer', Exited)
<1> DEFINE n == PendingExitPrefixLen(Extended)
<1>1. Extended \in Seq(Symbol) /\ Len(Extended) \in Nat
  BY ExtendedRead, Sizes
<1>2. /\ n \in 0..3 /\ n <= Len(Extended)
      /\ \A i \in 1..n : Extended[Len(Extended) - n + i] = Exited[i]
  BY <1>1, PrefixHeld
<1>3. exit_buffer' = Drop(Extended, Len(Extended) - n)
  BY DEF HandleNoExit
<1> HIDE DEF n
<1>4. Len(Extended) - n \in 0..Len(Extended) /\ Len(Extended) - (Len(Extended) - n) = n
  BY <1>1, <1>2
<1>5. /\ exit_buffer' \in Seq(Symbol) /\ Len(exit_buffer') = n
      /\ \A i \in 1..n : exit_buffer'[i] = Exited[i]
  <2>1. PICK k : k = Len(Extended) - n
    OBVIOUS
  <2>2. k \in 0..Len(Extended) /\ Len(Extended) - k = n /\ exit_buffer' = Drop(Extended, k)
    BY <1>3, <1>4, <2>1
  <2>3. /\ Drop(Extended, k) \in Seq(Symbol)
        /\ Len(Drop(Extended, k)) = Len(Extended) - k
        /\ \A i \in 1..(Len(Extended) - k) : Drop(Extended, k)[i] = Extended[k + i]
    BY <1>1, <2>2, Dropping
  <2> QED
    BY <1>2, <2>1, <2>2, <2>3
<1>6. /\ n \in 0..Len(Exited) /\ Take(Exited, n) \in Seq(Symbol)
      /\ Len(Take(Exited, n)) = n /\ \A i \in 1..n : Take(Exited, n)[i] = Exited[i]
  BY <1>2, ExitLine, Taking
<1>7. Take(Exited, Len(exit_buffer')) = exit_buffer'
  BY <1>5, <1>6, SameSequence
<1> QED
  BY <1>2, <1>5, <1>7, ExitLine DEF IsPrefix

LEMMA NothingHeld ==
    Len(<<>>) <= 3 /\ IsPrefix(<<>>, Exited) /\ Free(<<>>)
<1>1. <<>> \in Seq(Symbol) /\ Len(<<>>) = 0
  BY Empty
<1>2. 0 \in 0..Len(Exited)
  BY ExitLine
<1>3. Take(Exited, 0) \in Seq(Symbol) /\ Len(Take(Exited, 0)) = 0
  BY <1>2, ExitLine, Taking
<1>4. Take(Exited, Len(<<>>)) = <<>>
  BY <1>1, <1>3, Lengths
<1> QED
  BY <1>1, <1>4, ExitLine, LacksEmpty DEF IsPrefix, Free

\* The two flags, the reader and the caller agree.
LEMMA FlagStep ==
    ASSUME TypeInv, FlagInv, AnswerInv, EnterInv, StreamInv, Next
    PROVE  FlagInv'
<1>1. CASE Firmware \/ Environment
  BY <1>1, FirmwareKeeps DEF FlagInv, InSession, reader, flags, caller
<1>2. CASE ReadBegins
  BY <1>2 DEF ReadBegins, Others, FlagInv, InSession, flags, caller, history
<1>3. CASE ReadTimesOut
  BY <1>3 DEF ReadTimesOut, Others, FlagInv, InSession, flags, caller, history
<1>4. CASE ReadControl
  <2>1. data_mode => Lacks(lines', {"D0"})
    BY <1>4, LateByte DEF FlagInv
  <2> QED
    BY <1>4, <2>1 DEF ReadControl, Others, FlagInv, InSession, flags, caller, history
<1>5. CASE ReadData
  <2>1. PICK k \in 1..Len(input) : chunk' = Take(input, k)
    BY <1>5 DEF ReadData
  <2>2. input \in Seq(Symbol) /\ Free(input)
    BY <1>5 DEF ReadData, FlagInv, InSession, AnswerInv, TypeInv
  <2>3. Free(chunk')
    BY <2>1, <2>2, LacksPart, Sizes DEF Free
  <2>4. chunk' # <<>>
    <3>1. k \in 0..Len(input) /\ k >= 1
      BY <2>1, Sizes
    <3>2. Take(input, k) \in Seq(Symbol) /\ Len(Take(input, k)) = k
      BY <2>2, <3>1, Taking
    <3> QED
      BY <2>1, <3>1, <3>2, Empty
  <2> QED
    BY <1>5, <2>3, <2>4 DEF ReadData, Others, FlagInv, InSession, flags, caller, history
<1>6. CASE HandleStream
  BY <1>6, NothingHeld
  DEF HandleStream, Others, FlagInv, InSession, flags, caller
<1>7. CASE HandleNoExit
  <2>1. Len(exit_buffer') <= 3 /\ IsPrefix(exit_buffer', Exited)
    BY <1>7, HeldBack
  <2> QED
    BY <1>7, <2>1, NothingHeld DEF HandleNoExit, Others, FlagInv, InSession, flags, caller
<1>8. CASE HandleExit
  <2> DEFINE at == FindExit(Extended)
  <2>1. chunk' = Drop(Extended, at + 3)
    BY <1>8 DEF HandleExit
  <2>2. at \in 1..(Len(Extended) - 3)
    BY <1>8, ExitFound DEF HandleExit
  <2> HIDE DEF at
  <2>3. at + 3 \in 0..Len(Extended) /\ Extended \in Seq(Symbol)
    BY <2>2, ExtendedRead, Sizes
  <2>4. Free(Extended)
    <3>1. Free(exit_buffer)
      <4>1. ASSUME NEW i \in 1..Len(exit_buffer)
            PROVE  exit_buffer[i] \notin Answers
        <5>1. Len(exit_buffer) <= 3
          BY DEF FlagInv
        <5>2. Len(exit_buffer) \in 0..Len(Exited) /\ i \in 1..3
          <6>1. Len(Exited) = 4 /\ Len(exit_buffer) \in Nat
            BY Sizes, ExitLine
          <6> DEFINE m == Len(exit_buffer)
          <6>2. m \in Nat /\ m <= 3
            BY <5>1, <6>1
          <6> HIDE DEF m
          <6>3. m \in 0..4
            BY <6>2
          <6>4. Len(exit_buffer) \in 0..Len(Exited)
            BY <6>1, <6>3 DEF m
          <6>5. i \in 1..3
            BY <5>1, <6>1
          <6> QED
            BY <6>4, <6>5
        <5>3. exit_buffer = Take(Exited, Len(exit_buffer))
          BY DEF FlagInv, IsPrefix
        <5>4. \A j \in 1..Len(exit_buffer) : Take(Exited, Len(exit_buffer))[j] = Exited[j]
          BY <5>2, ExitLine, Taking
        <5>5. exit_buffer[i] = Exited[i]
          BY <5>3, <5>4
        <5> QED
          BY <5>2, <5>5, ExitLine DEF Answers
      <4> QED
        BY <4>1 DEF Free, Lacks
    <3>2. Free(chunk)
      BY DEF FlagInv
    <3> QED
      BY <3>1, <3>2, LacksJoined DEF Free, Extended, TypeInv
  <2>5. Free(chunk')
    BY <2>1, <2>3, <2>4, LacksPart DEF Free
  <2> QED
    BY <1>8, <2>5, NothingHeld DEF HandleExit, Others, FlagInv, InSession, caller
<1>9. CASE HandleRest
  <2>1. chunk # <<>> /\ chunk \in Seq(Symbol) /\ Free(chunk)
    BY <1>9 DEF HandleRest, FlagInv, TypeInv
  <2>2. Free(chunk')
    BY <1>9, <2>1, LacksTaken DEF HandleRest, Free
  <2> QED
    BY <1>9, <2>2 DEF HandleRest, Others, FlagInv, InSession, flags, caller, history
<1>10. ASSUME lines # <<>>, lines' = Tail(lines), Lacks(lines, {"D0"})
       PROVE  Lacks(lines', {"D0"})
  BY <1>10, LacksTaken DEF TypeInv
<1>11. CASE SyncBegins
  BY <1>11 DEF SyncBegins, FlagInv, InSession, reader, flags, history
<1>12. CASE SyncWrites
  BY <1>12 DEF SyncWrites, FlagInv, InSession, flags, history
<1>13. CASE SyncDone \/ EnterOk
  BY <1>13
  DEF SyncDone, EnterOk, Skips, Gets, Waits, FlagInv, InSession, reader, flags, history, caller
<1>14. CASE ExitSeen
  <2>1. CASE Skips("exit_wait", {"D0"})
    BY <1>10, <2>1 DEF Skips, Waits, FlagInv, InSession, reader, flags, history, caller
  <2>2. CASE Gets("exit_wait", "D0") /\ pc' = "exit_seen"
    <3>1. lines # <<>> /\ Head(lines) = "D0"
      BY <2>2 DEF Gets
    <3>2. ~data_mode
      BY <3>1, LacksTaken DEF FlagInv, TypeInv
    <3> QED
      BY <2>2, <3>2 DEF Gets, Waits, FlagInv, InSession, reader, flags, history
  <2> QED
    BY <1>14, <2>1, <2>2 DEF ExitSeen
<1>15. CASE SyncFails \/ ExitFails
  BY <1>15
  DEF SyncFails, ExitFails, TimesOut, Waits, FlagInv, InSession, reader, flags, history
<1>16. CASE RecoverResets
  BY <1>16 DEF RecoverResets, FlagInv, InSession, history
<1>17. CASE RecoverEscapes \/ ExitWrites
  BY <1>17 DEF RecoverEscapes, ExitWrites, FlagInv, InSession, reader, flags, history
<1>18. CASE RecoverEscaped
  BY <1>18
  DEF RecoverEscaped, Skips, Gets, TimesOut, Waits, FlagInv, InSession, reader, flags,
      history, caller
<1>19. CASE EnterDone
  <2>1. CASE Skips("entered_wait", {"D1"})
    BY <2>1 DEF Skips, Waits, FlagInv, InSession, reader, flags, history, caller
  <2>2. CASE ~Skips("entered_wait", {"D1"})
    <3>1. /\ pc = "entered_wait" /\ lines # <<>> /\ lines' = Tail(lines) /\ data_mode'
          /\ pc' = "streaming" /\ UNCHANGED <<reader, exit_pending, exited>>
      BY <1>19, <2>2 DEF EnterDone
    <3>2. ~exited /\ reading \in {"no", "control"} /\ Lacks(lines, {"ERR", "D0"})
      BY <3>1 DEF EnterInv, Entering, Heard
    <3>3. Lacks(lines', {"D0"})
      BY <1>10, <3>1, <3>2, LacksMore
    <3>4. ~data_mode /\ ~exit_pending
      BY <3>1 DEF FlagInv, InSession
    <3> QED
      BY <3>1, <3>2, <3>3, <3>4 DEF FlagInv, InSession, reader
  <2> QED
    BY <2>1, <2>2
<1>20. CASE EnterWrites
  BY <1>20 DEF EnterWrites, FlagInv, InSession, reader, flags
<1>21. CASE ExitBegins
  BY <1>21 DEF ExitBegins, FlagInv, InSession, reader, history
<1>22. CASE ExitAgain
  BY <1>22 DEF ExitAgain, FlagInv, InSession, reader, flags, history
<1>23. CASE StartedAgain \/ Killed
  BY <1>23, NothingHeld DEF StartedAgain, Killed, NewClient, FlagInv, InSession
<1> QED
  BY <1>1, <1>2, <1>3, <1>4, <1>5, <1>6, <1>7, <1>8, <1>9, <1>11, <1>12, <1>13, <1>14,
     <1>15, <1>16, <1>17, <1>18, <1>19, <1>20, <1>21, <1>22, <1>23
  DEF Next, Reader, Caller

----------------------------------------------------------------------------
LEMMA ByteRead ==
    ASSUME TypeInv, ReadControl
    PROVE  /\ input # <<>> /\ Head(input) \in Symbol /\ Head(input) = input[1]
           /\ AsControl(Head(input)) /\ input' = Tail(input) /\ input' \in Seq(Symbol)
           /\ Len(input) \in Nat /\ Len(input) >= 1 /\ Len(input') = Len(input) - 1
           /\ \A i \in 1..(Len(input) - 1) : input'[i] = input[i + 1]
           /\ \A X : Lacks(input, X) => Head(input) \notin X /\ Lacks(input', X)
           /\ reading = "control" /\ reading' = "no"
           /\ UNCHANGED <<chunk, exit_buffer, flags, history, in_data, half_line, peer,
                          request, caller, bounds>>
<1>1. input # <<>> /\ input \in Seq(Symbol) /\ input' = Tail(input)
  BY DEF ReadControl, TypeInv
<1>2. \A X : Lacks(input, X) => Head(input) \notin X /\ Lacks(input', X)
  BY <1>1, LacksTaken
<1> QED
  BY <1>1, <1>2, Taken DEF ReadControl, Others

\* Indications are other lines.
LEMMA ControlStill ==
    ASSUME TypeInv, NEW byte \in Text, AsControl(byte), Still(line_buffer)
    PROVE  /\ Still(line_buffer')
           /\ lines' = lines \/ lines' = Append(lines, "other")
           /\ Other(lines) => Other(lines')
<1>1. byte \in Symbol /\ line_buffer \in Seq(Symbol) /\ lines \in Seq(Reports)
  BY DEF TypeInv, Symbol
<1>2. byte \notin Symbol \ Text
  OBVIOUS
<1>3. Still(line_buffer')
  <2>1. CASE line_buffer' = <<>>
    BY <2>1, LacksEmpty DEF Still
  <2>2. CASE line_buffer' = Append(line_buffer, byte)
    BY <1>1, <1>2, <2>2, LacksAppended DEF Still
  <2> QED
    BY <1>1, <2>1, <2>2, ControlRead
<1>4. LineOf(line_buffer) = "other"
  <2>1. /\ "OK" \in Symbol \ Text /\ "ERR" \in Symbol \ Text /\ "D1" \in Symbol \ Text
        /\ "+" \in Symbol \ Text
    BY DEF Symbol, Text, Answers
  <2>2. \A x \in Symbol \ Text : Len(line_buffer) >= 1 => line_buffer[1] # x
    BY Sizes DEF Still, Lacks
  <2>3. line_buffer # <<"OK">> /\ line_buffer # <<"ERR">> /\ line_buffer # <<"D1">>
    BY <2>1, <2>2
  <2>4. line_buffer # <<"+", "0">>
    BY <2>1, <2>2
  <2> QED
    BY <2>3, <2>4, LineRead DEF Reports
<1>5. lines' = lines \/ lines' = Append(lines, "other")
  BY <1>1, <1>4, ControlRead
<1>6. "other" \in Reports /\ "other" \notin {"OK", "ERR", "D0", "D1"}
  BY DEF Reports
<1>7. Other(lines) => Other(lines')
  <2>1. CASE lines' = lines
    BY <2>1
  <2>2. CASE lines' = Append(lines, "other")
    BY <1>1, <1>6, <2>2, LacksAppended DEF Other
  <2> QED
    BY <1>5, <2>1, <2>2
<1> QED
  BY <1>3, <1>5, <1>7

LEMMA StillSaid ==
    ASSUME TypeInv, Say(IndLine), Still(input)
    PROVE  Still(input')
<1>1. input' = input \o IndLine /\ input \in Seq(Symbol) /\ IndLine \in Seq(Symbol)
  BY Said, Symbols DEF TypeInv
<1>2. Lacks(IndLine, Symbol \ Text)
  BY DEF Lacks, IndLine, Text
<1> QED
  BY <1>1, <1>2, LacksJoined DEF Still

\* Control stays control, whatever indications come.
LEMMA ControlKept ==
    ASSUME TypeInv, FlagInv, ~data_mode, InControl, request # "AT", request # "+++",
           ~AnswerEnter, Firmware \/ Environment \/ Reader
    PROVE  InControl' /\ UNCHANGED <<delivered, mark, exited>>
<1>1. CASE Firmware \/ Environment
  <2>1. Indicate
    BY <1>1
    DEF Firmware, Environment, InControl, AnswerAt, AnswerEscape, EscapeMissed, LinkLost,
        Notify
  <2>2. Still(input')
    BY <2>1, StillSaid DEF Indicate, InControl
  <2> QED
    BY <1>1, <2>1, <2>2, FirmwareKeeps DEF Indicate, InControl, Other, Still, Lacks, reader
<1>2. CASE ReadBegins \/ ReadTimesOut
  BY <1>2 DEF ReadBegins, ReadTimesOut, Others, InControl, Other, Still, Lacks, history
<1>3. CASE ReadControl
  <2>1. Head(input) \notin Symbol \ Text /\ Still(input')
    BY <1>3, ByteRead DEF InControl, Still
  <2>2. Head(input) \in Text /\ AsControl(Head(input)) /\ reading' = "no"
        /\ UNCHANGED <<in_data, half_line, history>>
    BY <1>3, <2>1, ByteRead
  <2>3. Still(line_buffer') /\ Other(lines')
    BY <2>2, ControlStill DEF InControl
  <2> QED
    BY <2>1, <2>2, <2>3 DEF InControl, history
<1>4. CASE ReadData \/ HandleStream \/ HandleNoExit \/ HandleExit \/ HandleRest
  BY <1>4 DEF ReadData, HandleStream, HandleNoExit, HandleExit, HandleRest, InControl
<1> QED
  BY <1>1, <1>2, <1>3, <1>4 DEF Reader

\* When a request may be under way.
LEMMA RequestStep ==
    ASSUME TypeInv, RequestInv, AnswerInv, Next
    PROVE  RequestInv'
<1>1. CASE Firmware \/ Environment
  <2>1. request' \in {request, "none"} /\ UNCHANGED pc
    BY <1>1, FirmwareKeeps
    DEF Firmware, Environment, AnswerAt, AnswerEnter, AnswerEscape, EscapeMissed, LinkLost,
        Notify, Indicate, caller
  <2> QED
    BY <2>1 DEF RequestInv
<1>2. CASE Reader
  BY <1>2
  DEF Reader, ReadBegins, ReadTimesOut, ReadControl, ReadData, HandleStream,
      HandleNoExit, HandleExit, HandleRest, Others, caller, RequestInv
<1>3. CASE SyncDone
  <2>1. CASE Skips("sync_wait", {"OK"})
    BY <2>1 DEF Skips, Waits, RequestInv, firmware, caller
  <2>2. CASE Gets("sync_wait", "OK")
    <3>1. pc = "sync_wait" /\ lines # <<>> /\ Head(lines) = "OK" /\ UNCHANGED request
      BY <2>2 DEF Gets, Waits, firmware
    <3>2. ~Free(lines)
      BY <3>1, LacksTaken DEF Free, Answers, TypeInv
    <3>3. request # "AT"
      BY <3>1, <3>2 DEF AnswerInv, NoAnswer
    <3> QED
      BY <3>1, <3>3 DEF RequestInv, TypeInv
  <2> QED
    BY <1>3, <2>1, <2>2 DEF SyncDone
<1>4. CASE EnterOk
  <2>1. CASE Skips("enter_wait", {"OK", "ERR"})
    BY <2>1 DEF Skips, Waits, RequestInv, firmware, caller
  <2>2. CASE Gets("enter_wait", "OK") \/ Gets("enter_wait", "ERR")
    <3>1. pc = "enter_wait" /\ lines # <<>> /\ Head(lines) \in {"OK", "ERR"}
          /\ UNCHANGED request
      BY <2>2 DEF Gets, Waits, firmware
    <3>2. ~Other(lines)
      BY <3>1, LacksTaken DEF Other, TypeInv
    <3>3. request # "ENTER"
      BY <3>1, <3>2 DEF AnswerInv, InControl
    <3> QED
      BY <3>1, <3>3 DEF RequestInv, TypeInv
  <2> QED
    BY <1>4, <2>1, <2>2 DEF EnterOk
<1>5. CASE SyncBegins \/ SyncWrites \/ SyncFails \/ RecoverResets \/ RecoverEscapes
  BY <1>5
  DEF SyncBegins, SyncWrites, SyncFails, RecoverResets, RecoverEscapes, TimesOut, Waits,
      NothingComes, Writes, ResetInput, RequestInv, firmware
<1>6. CASE RecoverEscaped \/ EnterDone \/ ExitSeen
  BY <1>6
  DEF RecoverEscaped, EnterDone, ExitSeen, Skips, Gets, TimesOut, Waits, NothingComes,
      RequestInv, firmware, caller
<1>7. CASE ExitWrites \/ ExitFails \/ EnterWrites \/ ExitBegins \/ ExitAgain
  BY <1>7
  DEF ExitWrites, ExitFails, EnterWrites, ExitBegins, ExitAgain, TimesOut, Waits,
      NothingComes, Writes, RequestInv, firmware
<1>8. CASE StartedAgain \/ Killed
  BY <1>8 DEF StartedAgain, Killed, NewClient, ResetInput, RequestInv
<1> QED
  BY <1>1, <1>2, <1>3, <1>4, <1>5, <1>6, <1>7, <1>8 DEF Next, Caller

----------------------------------------------------------------------------
LEMMA FreeParts ==
    ASSUME NEW s
    PROVE  Free(s) <=> Lacks(s, {"OK"}) /\ Lacks(s, {"ERR"}) /\ Lacks(s, {"D1"})
  BY DEF Free, Lacks, Answers

LEMMA StillFree ==
    ASSUME NEW s, Still(s)
    PROVE  Free(s)
<1>1. Answers \subseteq Symbol \ Text
  BY DEF Answers, Symbol, Text
<1> QED
  BY <1>1, LacksMore DEF Still, Free

LEMMA LacksSaid ==
    ASSUME TypeInv, NEW text \in Seq(Symbol), Say(text), NEW X, Lacks(text, X)
    PROVE  /\ Lacks(input, X) => Lacks(input', X)
           /\ Lacks(heard, X) => Lacks(heard', X)
<1>1. input \in Seq(Symbol) /\ heard \in Seq(Symbol) /\ input' = input \o text
  BY Said DEF TypeInv
<1>2. heard' = heard \o text \/ heard' = heard
  BY DEF Say
<1>3. Lacks(input \o text, X) <=> Lacks(input, X)
  BY <1>1, LacksJoined
<1>4. Lacks(heard \o text, X) <=> Lacks(heard, X)
  BY <1>1, LacksJoined
<1> QED
  BY <1>1, <1>2, <1>3, <1>4

LEMMA TextsFree ==
    /\ Free(IndLine) /\ Free(Exited) /\ Free(<<>>) /\ Lacks(IndLine, Symbol \ Text)
    /\ Lacks(ErrLine, {"OK"}) /\ Lacks(ErrLine, {"D1"}) /\ Lacks(OkLine, {"D1"})
  BY DEF Free, Lacks, IndLine, Exited, ErrLine, OkLine, Answers, Text

\* Of what the firmware says, only its answers are answers.
LEMMA NoAnswerSaid ==
    ASSUME TypeInv, PeerInv, Free(input),
           \/ AnswerEscape \/ EscapeMissed \/ LinkLost \/ Notify \/ Indicate
    PROVE  Free(input')
<1>1. CASE AnswerEscape
  <2>1. Say(IF in_data THEN Exited ELSE <<>>)
    BY <1>1 DEF AnswerEscape
  <2>2. CASE in_data
    BY <2>1, <2>2, LacksSaid, TextsFree, Symbols DEF Free
  <2>3. CASE ~in_data
    BY <2>1, <2>3, LacksSaid, TextsFree, Symbols DEF Free
  <2> QED
    BY <2>2, <2>3
<1>2. CASE EscapeMissed
  BY <1>2 DEF EscapeMissed, Free, Lacks
<1>3. CASE LinkLost \/ Indicate
  <2>1. Say(IndLine)
    BY <1>3 DEF LinkLost, Indicate
  <2> QED
    BY <2>1, LacksSaid, TextsFree, Symbols DEF Free
<1>4. CASE Notify
  <2>1. peer # <<>> /\ peer \in Seq(Byte) /\ Say(<<Head(peer)>>)
    BY <1>4 DEF Notify, TypeInv
  <2>2. Head(peer) \in Byte /\ Head(peer) \notin Answers
    BY <2>1, Taken, LacksTaken DEF PeerInv, Free
  <2> DEFINE text == <<Head(peer)>>
  <2>3. text \in Seq(Symbol) /\ Len(text) = 1 /\ text[1] = Head(peer)
    BY <2>2, Symbols
  <2>4. Lacks(text, Answers)
    BY <2>2, <2>3 DEF Lacks
  <2> HIDE DEF text
  <2> QED
    BY <2>1, <2>3, <2>4, LacksSaid DEF Free, text
<1> QED
  BY <1>1, <1>2, <1>3, <1>4

\* What is read of a line without an answer leaves a line without an answer.
LEMMA FreeRead ==
    ASSUME TypeInv, NEW byte \in Symbol, AsControl(byte), byte \notin Answers,
           Free(line_buffer), Free(lines)
    PROVE  Free(line_buffer') /\ Free(lines')
<1>1. ASSUME NEW x \in {"OK", "ERR", "D1"}
      PROVE  Lacks(line_buffer', {x}) /\ Lacks(lines', {x})
  <2>1. Lacks(line_buffer, {x}) /\ Lacks(lines, {x}) /\ byte # x
    BY FreeParts DEF Answers
  <2> QED
    BY <2>1, ControlLacks
<1> QED
  BY <1>1, FreeParts

LEMMA FreeReader ==
    ASSUME TypeInv, Free(input), Reader
    PROVE  Free(input')
<1>1. CASE ReadControl
  BY <1>1, ByteRead DEF Free
<1>2. CASE ReadData
  <2>1. PICK k \in 1..Len(input) : input' = Drop(input, k)
    BY <1>2 DEF ReadData
  <2>2. k \in 0..Len(input) /\ input \in Seq(Symbol)
    BY <2>1, Sizes DEF TypeInv
  <2> QED
    BY <2>1, <2>2, LacksPart DEF Free
<1>3. CASE ~ReadControl /\ ~ReadData
  <2>1. UNCHANGED input
    BY <1>3
    DEF Reader, ReadBegins, ReadTimesOut, HandleStream, HandleNoExit, HandleExit,
        HandleRest
  <2> QED
    BY <2>1 DEF Free, Lacks
<1> QED
  BY <1>1, <1>2, <1>3

LEMMA FreeReset ==
    ASSUME TypeInv, ResetInput, Free(input)
    PROVE  Free(input')
<1>1. PICK k \in 0..Len(input) : input' = Drop(input, k)
  BY DEF ResetInput
<1> QED
  BY <1>1, LacksPart DEF Free, TypeInv

\* Without data mode, what the reader does with a line.
LEMMA ReaderInControl ==
    ASSUME FlagInv, ~data_mode, Reader
    PROVE  \/ /\ ReadBegins \/ ReadTimesOut
              /\ UNCHANGED <<input, line_buffer, lines>> /\ reading' # "rest"
           \/ ReadControl
           \/ HandleRest
  BY DEF Reader, ReadBegins, ReadTimesOut, ReadData, HandleStream, HandleNoExit, HandleExit,
         FlagInv

LEMMA RestRead ==
    ASSUME TypeInv, FlagInv, HandleRest
    PROVE  /\ AsControl(Head(chunk)) /\ Head(chunk) \in Symbol \ Answers
           /\ UNCHANGED <<input, in_data, half_line, caller, request, history>>
<1>1. chunk # <<>> /\ chunk \in Seq(Symbol) /\ Free(chunk)
  BY DEF HandleRest, FlagInv, TypeInv
<1>2. Head(chunk) \in Symbol /\ Head(chunk) \notin Answers
  BY <1>1, Taken, LacksTaken DEF Free
<1> QED
  BY <1>2 DEF HandleRest, Others

LEMMA NoAnswerKept ==
    ASSUME TypeInv, PeerInv, FlagInv, ~data_mode, NoAnswer,
           LinkLost \/ Notify \/ Indicate \/ Reader
    PROVE  NoAnswer'
<1>1. CASE LinkLost \/ Notify \/ Indicate
  <2>1. Free(input') /\ UNCHANGED <<line_buffer, lines>>
    BY <1>1, NoAnswerSaid DEF NoAnswer, LinkLost, Notify, Indicate, ClientIdle, reader
  <2> QED
    BY <2>1 DEF NoAnswer, Free, Lacks
<1>2. CASE Reader
  <2>1. CASE UNCHANGED <<input, line_buffer, lines>>
    BY <2>1 DEF NoAnswer, Free, Lacks
  <2>2. CASE ReadControl
    <3>1. /\ AsControl(Head(input)) /\ Head(input) \in Symbol
          /\ Head(input) \notin Answers /\ Free(input')
      BY <2>2, ByteRead DEF NoAnswer, Free
    <3> QED
      BY <3>1, FreeRead DEF NoAnswer
  <2>3. CASE HandleRest
    <3>1. /\ AsControl(Head(chunk)) /\ Head(chunk) \in Symbol
          /\ Head(chunk) \notin Answers /\ UNCHANGED input
      BY <2>3, RestRead
    <3>2. Free(line_buffer') /\ Free(lines')
      BY <3>1, FreeRead DEF NoAnswer
    <3> QED
      BY <3>1, <3>2 DEF NoAnswer, Free, Lacks
  <2> QED
    BY <1>2, <2>1, <2>2, <2>3, ReaderInControl
<1> QED
  BY <1>1, <1>2

\* What holds of +OK holds of it when nothing was answered.
LEMMA NoOkKept ==
    ASSUME TypeInv, PeerInv, FlagInv, ~data_mode, OkIsLast, NoOk,
           LinkLost \/ Notify \/ Indicate \/ Reader
    PROVE  OkIsLast'
<1>1. ASSUME NEW x \in {"OK", "D1"}
      PROVE  Lacks(lines', {x}) /\ Lacks(line_buffer', {x}) /\ Lacks(input', {x})
  <2>1. Lacks(lines, {x}) /\ Lacks(line_buffer, {x}) /\ Lacks(input, {x})
    BY DEF OkIsLast, NoOk
  <2>2. CASE LinkLost \/ Indicate
    <3>1. Say(IndLine) /\ UNCHANGED <<line_buffer, lines>>
      BY <2>2 DEF LinkLost, Indicate, ClientIdle, reader
    <3>2. Lacks(IndLine, {x})
      BY DEF Lacks, IndLine
    <3> QED
      BY <2>1, <3>1, <3>2, LacksSaid, Symbols
  <2>3. CASE Notify
    <3>1. /\ peer # <<>> /\ peer \in Seq(Byte) /\ Say(<<Head(peer)>>)
          /\ UNCHANGED <<line_buffer, lines>>
      BY <2>3 DEF Notify, TypeInv, ClientIdle, reader
    <3>2. Head(peer) \in Byte /\ Head(peer) \notin Answers
      BY <3>1, Taken, LacksTaken DEF PeerInv, Free
    <3> DEFINE text == <<Head(peer)>>
    <3>3. text \in Seq(Symbol) /\ Len(text) = 1 /\ text[1] = Head(peer)
      BY <3>2, Symbols
    <3>4. Lacks(text, {x})
      BY <3>2, <3>3 DEF Lacks, Answers
    <3> HIDE DEF text
    <3>5. Lacks(input', {x})
      BY <2>1, <3>1, <3>3, <3>4, LacksSaid DEF text
    <3> QED
      BY <2>1, <3>1, <3>5
  <2>4. CASE UNCHANGED <<input, line_buffer, lines>>
    BY <2>1, <2>4
  <2>5. CASE ReadControl
    <3>1. AsControl(Head(input)) /\ Head(input) \in Symbol
      BY <2>5, ByteRead
    <3>2. Head(input) # x /\ Lacks(input', {x})
      <4>1. Lacks(input, {x}) => Head(input) \notin {x} /\ Lacks(input', {x})
        BY <2>5, ByteRead
      <4> QED
        BY <2>1, <4>1
    <3> QED
      BY <2>1, <3>1, <3>2, ControlLacks
  <2>6. CASE HandleRest
    <3>1. AsControl(Head(chunk)) /\ Head(chunk) \in Symbol /\ Head(chunk) # x
          /\ UNCHANGED input
      BY <2>6, RestRead DEF Answers
    <3> QED
      BY <2>1, <3>1, ControlLacks
  <2> QED
    BY <2>2, <2>3, <2>4, <2>5, <2>6, ReaderInControl
<1>2. /\ Lacks(lines', {"OK"}) /\ Lacks(line_buffer', {"OK"}) /\ Lacks(input', {"OK"})
      /\ Lacks(lines', {"D1"}) /\ Lacks(line_buffer', {"D1"}) /\ Lacks(input', {"D1"})
  BY <1>1
<1>3. /\ \A i \in 1..Len(lines') : lines'[i] # "OK"
      /\ \A i \in 1..Len(input') : input'[i] # "OK"
  BY <1>2 DEF Lacks
<1> QED
  BY <1>2, <1>3 DEF OkIsLast, NoOk

\* Once it was sent, only indications follow.
LEMMA OkSentKept ==
    ASSUME TypeInv, FlagInv, ~data_mode, OkIsLast, ~NoOk,
           LinkLost \/ Notify \/ Indicate \/ Reader
    PROVE  OkIsLast'
<1>0. ~in_data /\ ~half_line
  BY DEF OkIsLast
<1> DEFINE Rest(i) == /\ \A j \in (i + 1)..Len(lines) : lines[j] = "other"
                      /\ Still(line_buffer) /\ Still(input) /\ reading # "rest"
<1>1. CASE Indicate
  <2>1. /\ Say(IndLine) /\ UNCHANGED <<reader, lines, in_data, half_line>>
    BY <1>1 DEF Indicate, ClientIdle
  <2>2. UNCHANGED <<line_buffer, reading, lines>>
    BY <2>1 DEF reader
  <2>3. Still(input) => Still(input')
    BY <2>1, StillSaid
  <2>4. Lacks(input', {"D1"})
    <3>1. Lacks(IndLine, {"D1"})
      BY DEF Lacks, IndLine
    <3> QED
      BY <2>1, <3>1, LacksSaid, Symbols DEF OkIsLast
  <2>5. ASSUME NEW i \in 1..Len(input'), input'[i] = "OK", NEW j \in (i + 1)..Len(input')
        PROVE  input'[j] \in Text
    <3>1. /\ Len(input') = Len(input) + 3 /\ Len(input) \in Nat
          /\ \A k \in 1..Len(input) : input'[k] = input[k]
          /\ \A k \in (Len(input) + 1)..(Len(input) + 3) :
                input'[k] = IndLine[k - Len(input)]
      <4>1. IndLine \in Seq(Symbol) /\ Len(IndLine) = 3 /\ Say(IndLine)
        BY <2>1, Symbols
      <4>2. /\ Len(input') = Len(input) + Len(IndLine)
            /\ \A k \in 1..Len(input) : input'[k] = input[k]
            /\ \A k \in (Len(input) + 1)..(Len(input) + Len(IndLine)) :
                  input'[k] = IndLine[k - Len(input)]
        BY <4>1, Said
      <4> QED
        BY <4>1, <4>2, Sizes
    <3>2. \A k \in 1..3 : IndLine[k] \in Text /\ IndLine[k] # "OK"
      BY DEF IndLine, Text
    <3>3. \A k \in (Len(input) + 1)..(Len(input) + 3) :
             input'[k] \in Text /\ input'[k] # "OK"
      <4>1. \A k \in (Len(input) + 1)..(Len(input) + 3) : k - Len(input) \in 1..3
        BY <3>1
      <4> QED
        BY <3>1, <3>2, <4>1
    <3>4. i \in 1..Len(input) /\ input[i] = "OK"
      BY <2>5, <3>1, <3>3
    <3>5. CASE j \in (i + 1)..Len(input)
      <4>1. input[j] \in Text
        BY <3>4, <3>5 DEF OkIsLast
      <4> QED
        BY <3>1, <3>4, <3>5, <4>1
    <3>6. CASE j \in (Len(input) + 1)..(Len(input) + 3)
      BY <3>3, <3>6
    <3> QED
      BY <3>1, <3>4, <3>5, <3>6
  <2>6. /\ Lacks(lines', {"D1"}) /\ Lacks(line_buffer', {"D1"})
        /\ \A i \in 1..Len(lines') : lines'[i] = "OK" =>
              /\ \A j \in (i + 1)..Len(lines') : lines'[j] = "other"
              /\ Still(line_buffer') /\ Still(input') /\ reading' # "rest"
        /\ ~Lacks(line_buffer', {"OK"}) => Still(input') /\ reading' # "rest"
    BY <2>2, <2>3 DEF OkIsLast
  <2>7. ~in_data' /\ ~half_line'
    BY <1>0, <2>1
  <2> QED
    BY <2>4, <2>5, <2>6, <2>7 DEF OkIsLast
<1>2. CASE ReadBegins \/ ReadTimesOut
  <2>1. UNCHANGED <<input, line_buffer, lines, in_data, half_line>> /\ reading' # "rest"
    BY <1>2 DEF ReadBegins, ReadTimesOut, Others
  <2> QED
    BY <1>0, <2>1 DEF OkIsLast, NoOk, Still
<1>3. CASE HandleRest
  <2>0. reading = "rest"
    BY <1>3 DEF HandleRest
  <2>1. Lacks(lines, {"OK"}) /\ Lacks(line_buffer, {"OK"})
    BY <2>0 DEF OkIsLast, Lacks
  <2>2. /\ AsControl(Head(chunk)) /\ Head(chunk) \in Symbol
        /\ Head(chunk) # "OK" /\ Head(chunk) # "D1" /\ UNCHANGED <<input, in_data, half_line>>
    BY <1>3, RestRead DEF Answers
  <2>3. Lacks(lines', {"OK"}) /\ Lacks(line_buffer', {"OK"})
    BY <2>1, <2>2, ControlLacks
  <2>4. Lacks(lines', {"D1"}) /\ Lacks(line_buffer', {"D1"})
    BY <2>2, ControlLacks DEF OkIsLast
  <2>5. \A i \in 1..Len(lines') : lines'[i] # "OK"
    BY <2>3 DEF Lacks
  <2>6. /\ Lacks(input', {"D1"})
        /\ \A i \in 1..Len(input') : input'[i] = "OK" =>
              \A j \in (i + 1)..Len(input') : input'[j] \in Text
    BY <2>2 DEF OkIsLast
  <2> QED
    BY <1>0, <2>2, <2>3, <2>4, <2>5, <2>6 DEF OkIsLast
<1>4. CASE ReadControl
  <2> DEFINE byte == Head(input)
  <2>1. /\ byte \in Symbol /\ byte = input[1] /\ AsControl(byte)
        /\ Len(input) \in Nat /\ Len(input) >= 1 /\ Len(input') = Len(input) - 1
        /\ \A i \in 1..(Len(input) - 1) : input'[i] = input[i + 1]
        /\ reading' = "no" /\ UNCHANGED <<in_data, half_line>>
    BY <1>4, ByteRead
  <2>2. /\ Still(input) => byte \in Text /\ Still(input')
        /\ Lacks(input, {"D1"}) => byte # "D1" /\ Lacks(input', {"D1"})
    <3>1. /\ Lacks(input, Symbol \ Text) =>
                byte \notin Symbol \ Text /\ Lacks(input', Symbol \ Text)
          /\ Lacks(input, {"D1"}) => byte \notin {"D1"} /\ Lacks(input', {"D1"})
      BY <1>4, ByteRead
    <3> QED
      BY <2>1, <3>1 DEF Still
  <2> HIDE DEF byte
  <2>3. byte # "D1" /\ Lacks(input', {"D1"})
    BY <2>2 DEF OkIsLast
  <2>4. Lacks(lines', {"D1"}) /\ Lacks(line_buffer', {"D1"})
    BY <2>1, <2>3, ControlLacks DEF OkIsLast
  <2>5. ASSUME byte = "OK"
        PROVE  Still(input')
    <3>0. 1 \in 1..Len(input) /\ input[1] = "OK"
      BY <2>1, <2>5
    <3>1. \A j \in (1 + 1)..Len(input) : input[j] \in Text
      BY <3>0 DEF OkIsLast
    <3>2. \A j \in 1..Len(input') : input'[j] \in Text
      BY <2>1, <3>1
    <3> QED
      BY <3>2 DEF Still, Lacks
  <2>6. ~Lacks(line_buffer', {"OK"}) => Still(input')
    <3>1. CASE Lacks(line_buffer, {"OK"}) /\ byte # "OK"
      BY <2>1, <3>1, ControlLacks
    <3>2. CASE ~Lacks(line_buffer, {"OK"})
      BY <2>2, <3>2 DEF OkIsLast
    <3> QED
      BY <2>5, <3>1, <3>2
  <2>7. ASSUME NEW i \in 1..Len(input'), input'[i] = "OK", NEW j \in (i + 1)..Len(input')
        PROVE  input'[j] \in Text
    <3>1. /\ i + 1 \in 1..Len(input) /\ input[i + 1] = "OK"
          /\ j + 1 \in (i + 1 + 1)..Len(input) /\ input'[j] = input[j + 1]
      BY <2>1, <2>7
    <3> QED
      BY <3>1 DEF OkIsLast
  <2>8. ASSUME NEW i \in 1..Len(lines'), lines'[i] = "OK"
        PROVE  /\ \A j \in (i + 1)..Len(lines') : lines'[j] = "other"
               /\ Still(line_buffer') /\ Still(input')
    <3>0. Len(lines) \in Nat /\ lines \in Seq(Reports)
      BY Sizes DEF TypeInv
    <3>1. CASE i \in 1..Len(lines) /\ lines[i] = "OK"
      <4>1. /\ \A j \in (i + 1)..Len(lines) : lines[j] = "other"
            /\ Still(line_buffer) /\ Still(input)
        BY <3>1 DEF OkIsLast
      <4>2. byte \in Text /\ Still(input')
        BY <2>2, <4>1
      <4>3. Still(line_buffer') /\ (lines' = lines \/ lines' = Append(lines, "other"))
        BY <2>1, <4>1, <4>2, ControlStill
      <4>4. CASE lines' = lines
        BY <4>1, <4>2, <4>3, <4>4
      <4>5. CASE lines' = Append(lines, "other")
        <5>1. /\ Len(lines') = Len(lines) + 1 /\ lines'[Len(lines) + 1] = "other"
              /\ \A j \in 1..Len(lines) : lines'[j] = lines[j]
          BY <3>0, <4>5, Appended DEF Reports
        <5>2. \A j \in (i + 1)..Len(lines') : lines'[j] = "other"
          BY <3>0, <3>1, <4>1, <5>1
        <5> QED
          BY <4>2, <4>3, <5>2
      <4> QED
        BY <4>3, <4>4, <4>5
    <3>2. CASE ~(i \in 1..Len(lines) /\ lines[i] = "OK")
      <4>1. /\ line_buffer' = <<>> /\ Len(lines') = Len(lines) + 1
            /\ lines'[Len(lines) + 1] = LineOf(line_buffer) /\ i = Len(lines) + 1
        BY <2>1, <2>8, <3>0, <3>2, ControlRead
      <4>2. line_buffer = <<"OK">>
        BY <2>8, <4>1, LineRead
      <4>3. Len(line_buffer) = 1 /\ line_buffer[1] = "OK"
        BY <4>2
      <4>4. ~Lacks(line_buffer, {"OK"})
        BY <4>3 DEF Lacks
      <4>5. Still(input')
        BY <2>2, <4>4 DEF OkIsLast
      <4>6. Still(line_buffer')
        BY <4>1, LacksEmpty DEF Still
      <4>7. \A j \in (i + 1)..Len(lines') : FALSE
        BY <3>0, <4>1
      <4> QED
        BY <4>5, <4>6, <4>7
    <3> QED
      BY <3>1, <3>2
  <2>9. reading' # "rest" /\ ~in_data' /\ ~half_line'
    BY <1>0, <2>1
  <2> QED
    BY <2>3, <2>4, <2>6, <2>7, <2>8, <2>9 DEF OkIsLast
<1>5. CASE LinkLost \/ Notify
  BY <1>0, <1>5 DEF LinkLost, Notify
<1> QED
  BY <1>1, <1>2, <1>3, <1>4, <1>5, ReaderInControl

\* The answer to AT.
LEMMA OkAnswered ==
    ASSUME TypeInv, NoAnswer, AnswerAt
    PROVE  OkIsLast'
<1>1. /\ Say(IF in_data THEN <<>> ELSE IF half_line THEN ErrLine ELSE OkLine)
      /\ half_line' = (half_line /\ in_data)
      /\ UNCHANGED <<in_data, line_buffer, reading, lines>>
  BY DEF AnswerAt, ClientIdle, reader
<1>2. /\ Lacks(input, {"OK"}) /\ Lacks(input, {"D1"})
      /\ Lacks(lines', {"OK"}) /\ Lacks(lines', {"D1"})
      /\ Lacks(line_buffer', {"OK"}) /\ Lacks(line_buffer', {"D1"})
  BY <1>1, FreeParts DEF NoAnswer
<1>3. \A i \in 1..Len(lines') : lines'[i] # "OK"
  BY <1>2 DEF Lacks
<1>4. CASE in_data \/ half_line
  <2>1. Lacks(input', {"OK"}) /\ Lacks(input', {"D1"})
    <3>1. CASE in_data
      <4>1. Say(<<>>)
        BY <1>1, <3>1
      <4> QED
        BY <1>2, <4>1, LacksSaid, LacksEmpty, Symbols
    <3>2. CASE ~in_data
      <4>1. Say(ErrLine)
        BY <1>1, <1>4, <3>2
      <4> QED
        BY <1>2, <4>1, LacksSaid, TextsFree, Symbols
    <3> QED
      BY <3>1, <3>2
  <2>2. \A i \in 1..Len(input') : input'[i] # "OK"
    BY <2>1 DEF Lacks
  <2> QED
    BY <1>2, <1>3, <2>1, <2>2 DEF OkIsLast, NoOk
<1>5. CASE ~in_data /\ ~half_line
  <2>1. Say(OkLine)
    BY <1>1, <1>5
  <2>2. Lacks(input', {"D1"})
    BY <1>2, <2>1, LacksSaid, TextsFree, Symbols
  <2>3. /\ Len(input') = Len(input) + 3 /\ Len(input) \in Nat
        /\ \A k \in 1..Len(input) : input'[k] = input[k]
        /\ \A k \in (Len(input) + 1)..(Len(input) + 3) :
              input'[k] = OkLine[k - Len(input)]
    BY <2>1, Said, Symbols, Sizes
  <2>4. \A k \in 2..3 : OkLine[k] \in Text
    BY DEF OkLine, Text
  <2>5. ASSUME NEW i \in 1..Len(input'), input'[i] = "OK", NEW j \in (i + 1)..Len(input')
        PROVE  input'[j] \in Text
    <3>1. i > Len(input)
      BY <1>2, <2>3, <2>5 DEF Lacks
    <3>2. j - Len(input) \in 2..3 /\ input'[j] = OkLine[j - Len(input)]
      BY <2>3, <3>1
    <3> QED
      BY <2>4, <3>2
  <2>6. ~in_data' /\ ~half_line'
    BY <1>1, <1>5
  <2> QED
    BY <1>2, <1>3, <2>2, <2>5, <2>6 DEF OkIsLast
<1> QED
  BY <1>4, <1>5

\* +OK is the answer to AT: control mode, as far as the line goes.
LEMMA ControlGained ==
    ASSUME TypeInv, FlagInv, AnswerInv, Gets("sync_wait", "OK")
    PROVE  InControl'
<1>1. /\ pc = "sync_wait" /\ lines # <<>> /\ Head(lines) = "OK" /\ lines' = Tail(lines)
      /\ UNCHANGED <<in_data, half_line, line_buffer, input, reading>>
  BY DEF Gets, Waits, firmware, reader
<1>2. /\ lines[1] = "OK" /\ Len(lines) \in Nat /\ Len(lines) >= 1
      /\ Len(lines') = Len(lines) - 1
      /\ \A i \in 1..(Len(lines) - 1) : lines'[i] = lines[i + 1]
  BY <1>1, Taken DEF TypeInv
<1>3. 1 \in 1..Len(lines) /\ ~Lacks(lines, {"OK"})
  BY <1>2 DEF Lacks
<1>4. request # "AT"
  BY <1>1, <1>3, FreeParts DEF AnswerInv, NoAnswer
<1>5. OkIsLast
  BY <1>1, <1>4 DEF AnswerInv
<1>6. \A j \in (1 + 1)..Len(lines) : lines[j] = "other"
  BY <1>2, <1>3, <1>5 DEF OkIsLast
<1>7. Still(line_buffer) /\ Still(input) /\ reading # "rest" /\ ~in_data /\ ~half_line
  BY <1>2, <1>3, <1>5 DEF OkIsLast, NoOk
<1>8. \A i \in 1..Len(lines') : lines'[i] = "other"
  BY <1>2, <1>6
<1>9. Other(lines')
  BY <1>8 DEF Other, Lacks
<1>10. reading \in {"no", "control"}
  BY <1>1, <1>7 DEF FlagInv, InSession, TypeInv
<1> QED
  BY <1>1, <1>7, <1>9, <1>10 DEF InControl, Still

\* A line that is passed over.
LEMMA LineSkipped ==
    ASSUME TypeInv, lines # <<>>, lines' = Tail(lines)
    PROVE  /\ \A X : Lacks(lines, X) => Lacks(lines', X)
           /\ Len(lines) \in Nat /\ Len(lines') = Len(lines) - 1
           /\ \A i \in 1..(Len(lines) - 1) : lines'[i] = lines[i + 1]
<1>1. \A X : Lacks(lines, X) => Lacks(lines', X)
  BY LacksTaken DEF TypeInv
<1> QED
  BY <1>1, Taken DEF TypeInv

LEMMA OkSkipped ==
    ASSUME TypeInv, OkIsLast, Skips("sync_wait", {"OK"})
    PROVE  OkIsLast'
<1>1. /\ lines # <<>> /\ lines' = Tail(lines)
      /\ UNCHANGED <<in_data, half_line, line_buffer, input, reading>>
  BY DEF Skips, Waits, firmware, reader
<1>2. /\ \A X : Lacks(lines, X) => Lacks(lines', X)
      /\ Len(lines) \in Nat /\ Len(lines') = Len(lines) - 1
      /\ \A i \in 1..(Len(lines) - 1) : lines'[i] = lines[i + 1]
  BY <1>1, LineSkipped
<1>3. ASSUME NEW i \in 1..Len(lines'), lines'[i] = "OK"
      PROVE  /\ \A j \in (i + 1)..Len(lines') : lines'[j] = "other"
             /\ Still(line_buffer) /\ Still(input) /\ reading # "rest"
  <2>1. i + 1 \in 1..Len(lines) /\ lines[i + 1] = "OK"
    BY <1>2, <1>3
  <2>2. /\ \A j \in (i + 1 + 1)..Len(lines) : lines[j] = "other"
        /\ Still(line_buffer) /\ Still(input) /\ reading # "rest"
    BY <2>1 DEF OkIsLast
  <2>3. ASSUME NEW j \in (i + 1)..Len(lines')
        PROVE  lines'[j] = "other"
    <3>1. j + 1 \in (i + 1 + 1)..Len(lines) /\ j \in 1..(Len(lines) - 1)
      BY <1>2
    <3> QED
      BY <1>2, <2>2, <3>1
  <2> QED
    BY <2>2, <2>3
<1>4. /\ Lacks(lines', {"D1"}) /\ Lacks(line_buffer', {"D1"}) /\ Lacks(input', {"D1"})
      /\ NoOk => NoOk'
  BY <1>1, <1>2 DEF OkIsLast, NoOk
<1> QED
  BY <1>1, <1>3, <1>4 DEF OkIsLast, Still

\* AT+ENTERDATAMODE is not refused: who has control has an empty line.
LEMMA NotRefused ==
    ASSUME TypeInv, RequestInv, AnswerInv, EnterInv, pc = "enter_wait", lines # <<>>
    PROVE  Head(lines) # "ERR"
<1>1. request \in {"none", "ENTER"}
  BY DEF RequestInv, TypeInv
<1>2. Lacks(lines, {"ERR"})
  <2>1. CASE request = "ENTER"
    BY <2>1, LacksMore DEF AnswerInv, InControl, Other
  <2>2. CASE request = "none"
    BY <2>2, LacksMore DEF EnterInv, Entering
  <2> QED
    BY <1>1, <2>1, <2>2
<1> QED
  BY <1>2, LacksTaken DEF TypeInv

\* When the session begins, what is left of the answer is what was heard.
LEMMA EnteredFree ==
    ASSUME TypeInv, EnterInv, pc = "entered_wait", lines # <<>>, Head(lines) = "D1"
    PROVE  Behind /\ Free(input)
<1>1. ~Lacks(lines, {"D1"})
  BY LacksTaken DEF TypeInv
<1>2. Behind /\ Free(heard)
  BY <1>1 DEF EnterInv, Entering, Heard
<1>3. ASSUME NEW j \in 1..Len(input)
      PROVE  input[j] \notin Answers
  <2>1. Consumed + j \in 1..Len(heard) /\ input[j] = heard[Consumed + j]
    BY <1>2, Sizes DEF Behind, Consumed
  <2> QED
    BY <1>2, <2>1 DEF Free, Lacks
<1> QED
  BY <1>2, <1>3 DEF Free, Lacks

\* Which answers are on their way.
LEMMA AnswerStep ==
    ASSUME TypeInv, PeerInv, FlagInv, RequestInv, AnswerInv, EnterInv, Next
    PROVE  AnswerInv'
<1>0. pc \in {"sync_wait", "control", "enter_wait"} => ~data_mode
  BY DEF FlagInv, InSession
<1>1. CASE Firmware \/ Environment
  <2>1. /\ UNCHANGED <<pc, delivered, mark, exited>>
        /\ request' \in {request, "none"}
        /\ AnswerAt => request = "AT"
        /\ AnswerEnter => request = "ENTER"
        /\ AnswerEscape \/ EscapeMissed => request = "+++"
    <3>1. UNCHANGED <<pc, delivered, mark, exited>>
      BY <1>1, FirmwareKeeps DEF caller
    <3>2. CASE AnswerAt \/ AnswerEnter \/ AnswerEscape \/ EscapeMissed
      <4>1. /\ request' = "none"
            /\ AnswerAt => request = "AT"
            /\ AnswerEnter => request = "ENTER"
            /\ AnswerEscape \/ EscapeMissed => request = "+++"
        BY <3>2 DEF AnswerAt, AnswerEnter, AnswerEscape, EscapeMissed
      <4> QED
        BY <3>1, <3>2, <4>1
    <3>3. CASE LinkLost \/ Notify \/ Indicate
      <4>1. UNCHANGED request
        BY <3>3 DEF LinkLost, Notify, Indicate
      <4> QED
        BY <3>1, <3>3, <4>1 DEF AnswerAt, AnswerEnter, AnswerEscape, EscapeMissed
    <3> QED
      BY <1>1, <3>2, <3>3 DEF Firmware, Environment
  <2>2. pc' \notin {"sync_wait", "enter_wait", "entered_wait"} => Free(input')
    BY <1>1, <2>1, NoAnswerSaid DEF AnswerInv, RequestInv, Firmware, Environment
  <2>3. pc' = "sync_wait" => IF request' = "AT" THEN NoAnswer' ELSE OkIsLast'
    <3> SUFFICES ASSUME pc = "sync_wait"
                 PROVE  IF request' = "AT" THEN NoAnswer' ELSE OkIsLast'
      BY <2>1
    <3>1. CASE AnswerAt
      <4>1. request = "AT" /\ request' = "none"
        BY <3>1 DEF AnswerAt
      <4> QED
        BY <3>1, <4>1, OkAnswered DEF AnswerInv
    <3>2. CASE ~AnswerAt
      <4>1. LinkLost \/ Notify \/ Indicate
        BY <1>1, <2>1, <3>2 DEF RequestInv, Firmware, Environment
      <4>2. UNCHANGED request
        BY <4>1 DEF LinkLost, Notify, Indicate
      <4> QED
        BY <1>0, <4>1, <4>2, NoAnswerKept, NoOkKept, OkSentKept DEF AnswerInv
    <3> QED
      BY <3>1, <3>2
  <2>4. pc' = "control" => InControl'
    <3> SUFFICES ASSUME pc = "control"
                 PROVE  InControl'
      BY <2>1
    <3> QED
      BY <1>0, <1>1, <2>1, ControlKept DEF AnswerInv, RequestInv
  <2>5. pc' = "enter_wait" /\ request' = "ENTER" =>
           InControl' /\ mark' = Len(delivered)' /\ ~exited'
    <3> SUFFICES ASSUME pc = "enter_wait", request' = "ENTER"
                 PROVE  InControl' /\ mark' = Len(delivered)' /\ ~exited'
      BY <2>1
    <3>1. request = "ENTER"
      BY <2>1
    <3>2. ~AnswerEnter
      BY DEF AnswerEnter
    <3> QED
      BY <1>0, <1>1, <2>1, <3>1, <3>2, ControlKept DEF AnswerInv
  <2> QED
    BY <2>2, <2>3, <2>4, <2>5 DEF AnswerInv
<1>2. CASE Reader
  <2>1. UNCHANGED <<pc, request>>
    BY <1>2
    DEF Reader, ReadBegins, ReadTimesOut, ReadControl, ReadData, HandleStream,
        HandleNoExit, HandleExit, HandleRest, Others, caller
  <2>2. pc' \notin {"sync_wait", "enter_wait", "entered_wait"} => Free(input')
    BY <1>2, <2>1, FreeReader DEF AnswerInv
  <2>3. pc' = "sync_wait" => IF request' = "AT" THEN NoAnswer' ELSE OkIsLast'
    BY <1>0, <1>2, <2>1, NoAnswerKept, NoOkKept, OkSentKept DEF AnswerInv
  <2>4. ASSUME pc \in {"control", "enter_wait"}, InControl
        PROVE  InControl' /\ UNCHANGED <<delivered, mark, exited>>
    <3>1. request # "AT" /\ request # "+++"
      BY <2>4 DEF RequestInv
    <3>2. ~AnswerEnter
      BY <2>1 DEF AnswerEnter
    <3> QED
      BY <1>0, <1>2, <2>4, <3>1, <3>2, ControlKept
  <2> QED
    BY <2>1, <2>2, <2>3, <2>4 DEF AnswerInv
<1>3. CASE SyncBegins \/ RecoverResets
  <2>1. ResetInput /\ Free(input) /\ pc' \in {"sync", "guard"}
    BY <1>3 DEF SyncBegins, RecoverResets, AnswerInv
  <2> QED
    BY <2>1, FreeReset DEF AnswerInv
<1>4. CASE SyncWrites
  <2>1. /\ Free(input) /\ lines' = <<>> /\ line_buffer' = <<>> /\ UNCHANGED input
        /\ request' = "AT" /\ pc' = "sync_wait"
    BY <1>4 DEF SyncWrites, Writes, AnswerInv
  <2>2. NoAnswer'
    BY <2>1, LacksEmpty DEF NoAnswer, Free
  <2> QED
    BY <2>1, <2>2 DEF AnswerInv
<1>5. CASE SyncDone
  <2>1. CASE Skips("sync_wait", {"OK"})
    <3>1. /\ pc = "sync_wait" /\ UNCHANGED <<pc, request, input, line_buffer>>
          /\ lines # <<>> /\ lines' = Tail(lines)
      BY <2>1 DEF Skips, Waits, firmware, reader, caller
    <3>2. NoAnswer => NoAnswer'
      BY <3>1, LineSkipped DEF NoAnswer, Free
    <3> QED
      BY <2>1, <3>1, <3>2, OkSkipped DEF AnswerInv
  <2>2. CASE Gets("sync_wait", "OK") /\ pc' = "control"
    BY <2>2, ControlGained, StillFree DEF AnswerInv, InControl
  <2> QED
    BY <1>5, <2>1, <2>2 DEF SyncDone
<1>6. CASE SyncFails \/ ExitFails
  <2>1. input' = <<>> /\ pc' \in {"recover", "failed"}
    BY <1>6 DEF SyncFails, ExitFails, TimesOut, Waits, NothingComes, firmware
  <2> QED
    BY <2>1, LacksEmpty DEF AnswerInv, Free
<1>7. CASE RecoverEscapes \/ RecoverEscaped \/ ExitBegins \/ ExitWrites \/ ExitSeen
           \/ ExitAgain
  <2>1. /\ Free(input) /\ UNCHANGED input
        /\ pc' \in {"escape_wait", "escaped", "exit", "exit_wait", "exit_seen"}
    BY <1>7
    DEF RecoverEscapes, RecoverEscaped, ExitBegins, ExitWrites, ExitSeen, ExitAgain, Skips,
        Gets, TimesOut, Waits, AnswerInv, firmware, caller
  <2> QED
    BY <2>1 DEF AnswerInv, Free, Lacks
<1>8. CASE EnterWrites
  <2>1. /\ pc = "control" /\ pc' = "enter_wait" /\ mark' = Len(delivered) /\ ~exited'
        /\ UNCHANGED <<in_data, half_line, lines, line_buffer, input, reading, delivered>>
    BY <1>8 DEF EnterWrites, Writes, reader
  <2>2. InControl'
    BY <2>1 DEF AnswerInv, InControl, Still, Other
  <2> QED
    BY <2>1, <2>2 DEF AnswerInv
<1>9. CASE EnterOk
  <2>1. CASE Skips("enter_wait", {"OK", "ERR"})
    <3>1. /\ pc = "enter_wait" /\ lines # <<>> /\ lines' = Tail(lines)
          /\ UNCHANGED <<pc, request, in_data, half_line, line_buffer, input, reading,
                         delivered, mark, exited>>
      BY <2>1 DEF Skips, Waits, firmware, reader, caller, history
    <3>2. InControl => InControl'
      BY <3>1, LineSkipped DEF InControl, Other, Still
    <3> QED
      BY <3>1, <3>2 DEF AnswerInv
  <2>2. CASE Gets("enter_wait", "OK") /\ pc' = "entered_wait"
    BY <2>2 DEF AnswerInv
  <2>3. CASE Gets("enter_wait", "ERR")
    BY <2>3, NotRefused DEF Gets, Waits
  <2> QED
    BY <1>9, <2>1, <2>2, <2>3 DEF EnterOk
<1>10. CASE EnterDone
  <2>1. CASE Skips("entered_wait", {"D1"})
    BY <2>1 DEF Skips, Waits, caller, AnswerInv
  <2>2. CASE ~Skips("entered_wait", {"D1"})
    <3>1. /\ pc = "entered_wait" /\ lines # <<>> /\ Head(lines) = "D1"
          /\ pc' = "streaming" /\ UNCHANGED input
      BY <1>10, <2>2 DEF EnterDone, firmware
    <3>2. Free(input')
      BY <3>1, EnteredFree DEF Free, Lacks
    <3> QED
      BY <3>1, <3>2 DEF AnswerInv
  <2> QED
    BY <2>1, <2>2
<1>11. CASE StartedAgain \/ Killed
  <2>1. ResetInput /\ Free(input) /\ pc' = "started"
    BY <1>11 DEF StartedAgain, Killed, NewClient, AnswerInv
  <2> QED
    BY <2>1, FreeReset DEF AnswerInv
<1> QED
  BY <1>1, <1>2, <1>3, <1>4, <1>5, <1>6, <1>7, <1>8, <1>9, <1>10, <1>11
  DEF Next, Caller

----------------------------------------------------------------------------
\* The exit line in what is put together.
LEMMA NoExitFront ==
    ASSUME NEW S, NEW s \in Seq(S), NEW t \in Seq(S), NoExitIn(s \o t)
    PROVE  NoExitIn(s)
<1>1. /\ Len(s) \in Nat /\ Len(t) \in Nat /\ Len(s \o t) = Len(s) + Len(t)
      /\ \A i \in 1..Len(s) : (s \o t)[i] = s[i]
  BY Lengths, Joined
<1>2. ASSUME NEW i \in 1..(Len(s) - 2)
      PROVE  ~ExitAt(s, i)
  <2>1. /\ i \in 1..(Len(s \o t) - 2) /\ i \in 1..Len(s) /\ i + 1 \in 1..Len(s)
        /\ i + 2 \in 1..Len(s)
    BY <1>1
  <2>2. ~ExitAt(s \o t, i)
    BY <2>1 DEF NoExitIn
  <2> QED
    BY <1>1, <2>1, <2>2 DEF ExitAt
<1> QED
  BY <1>2 DEF NoExitIn

\* Behind an indication there is no new one.
LEMMA ExitBeforeInd ==
    ASSUME NEW s \in Seq(Symbol), NEW i \in 1..(Len(s \o IndLine) - 2),
           ExitAt(s \o IndLine, i)
    PROVE  i \in 1..(Len(s) - 2) /\ ExitAt(s, i)
<1> DEFINE t == s \o IndLine
<1>1. /\ Len(s) \in Nat /\ Len(t) = Len(s) + 3
      /\ \A j \in 1..Len(s) : t[j] = s[j]
      /\ t[Len(s) + 1] = "IND" /\ t[Len(s) + 2] = "r" /\ t[Len(s) + 3] = "n"
  <2>1. /\ Len(IndLine) = 3 /\ IndLine \in Seq(Symbol)
        /\ IndLine[1] = "IND" /\ IndLine[2] = "r" /\ IndLine[3] = "n"
    BY Symbols DEF IndLine
  <2>2. /\ Len(t) = Len(s) + Len(IndLine)
        /\ \A j \in 1..Len(s) : t[j] = s[j]
        /\ \A j \in 1..Len(IndLine) : t[Len(s) + j] = IndLine[j]
    <3>1. IndLine \in Seq(Symbol)
      BY <2>1
    <3> QED
      BY <3>1, Joined
  <2>3. /\ t[Len(s) + 1] = IndLine[1] /\ t[Len(s) + 2] = IndLine[2]
        /\ t[Len(s) + 3] = IndLine[3]
    BY <2>1, <2>2
  <2> QED
    BY <2>1, <2>2, <2>3, Lengths
<1>2. t[i] = "+" /\ t[i + 1] = "0" /\ t[i + 2] \in {"r", "n"} /\ i \in 1..(Len(t) - 2)
  BY DEF ExitAt
<1> HIDE DEF t
<1>3. i # Len(s) + 1 /\ i + 1 # Len(s) + 1 /\ i + 2 # Len(s) + 1
  BY <1>1, <1>2
<1>4. i \in 1..(Len(s) - 2)
  BY <1>1, <1>2, <1>3
<1>5. t[i] = s[i] /\ t[i + 1] = s[i + 1] /\ t[i + 2] = s[i + 2]
  BY <1>1, <1>4
<1> QED
  BY <1>2, <1>4, <1>5 DEF ExitAt

\* What a session has heard is not yet a whole exit line, unless the firmware leaves
\* data mode for an escape.
LEMMA HeardKept ==
    ASSUME TypeInv, PeerInv, Heard, Notify \/ LinkLost \/ Indicate
    PROVE  /\ Heard'
           /\ NoExitIn(heard) => NoExitIn(heard')
           /\ Notify => NoExitIn(heard')
<1>0. /\ heard \in Seq(Symbol) /\ heard # <<>> /\ ~exited /\ Free(heard)
      /\ Len(heard) \in Nat /\ Len(heard) >= 1 /\ heard[1] = "n"
  BY Lengths DEF TypeInv, Heard
<1>1. CASE LinkLost \/ Indicate
  <2>1. Say(IndLine) /\ ~in_data'
    BY <1>1 DEF LinkLost, Indicate
  <2>2. heard' = heard \o IndLine /\ IndLine \in Seq(Symbol) /\ exited' = exited
    BY <1>0, <2>1, Said, Symbols
  <2>3. heard'[1] = heard[1] /\ Len(heard') = Len(heard) + Len(IndLine)
    BY <1>0, <2>2, Joined
  <2>4. Free(heard')
    BY <1>0, <2>1, LacksSaid, TextsFree, Symbols DEF Free
  <2>5. heard' # <<>>
    BY <1>0, <2>3, Symbols, Empty
  <2>6. Heard'
    BY <1>0, <2>1, <2>2, <2>3, <2>4, <2>5 DEF Heard
  <2>7. NoExitIn(heard) => NoExitIn(heard')
    BY <1>0, <2>2, ExitBeforeInd DEF NoExitIn
  <2> QED
    BY <1>1, <2>6, <2>7 DEF LinkLost, Indicate, Notify
<1>2. CASE Notify
  <2>1. /\ in_data /\ in_data' /\ peer # <<>> /\ peer \in Seq(Byte)
        /\ peer' = Tail(peer) /\ Say(<<Head(peer)>>)
    BY <1>2 DEF Notify, TypeInv
  <2>2. Head(peer) \in Byte /\ Head(peer) \notin Answers
    BY <2>1, Taken, LacksTaken DEF PeerInv, Free
  <2> DEFINE text == <<Head(peer)>>
  <2>3. text \in Seq(Symbol) /\ Len(text) = 1 /\ text[1] = Head(peer)
    BY <2>2, Symbols
  <2>4. Lacks(text, Answers) /\ Say(text)
    BY <2>1, <2>2, <2>3 DEF Lacks
  <2> HIDE DEF text
  <2>5. /\ heard' = heard \o text /\ heard' \in Seq(Symbol) /\ exited' = exited
        /\ Len(heard') = Len(heard) + 1 /\ heard'[Len(heard) + 1] = Head(peer)
        /\ \A i \in 1..Len(heard) : heard'[i] = heard[i]
    <3>1. /\ heard' = heard \o text /\ heard' \in Seq(Symbol) /\ exited' = exited
      BY <1>0, <2>3, <2>4, Said
    <3> QED
      BY <1>0, <2>3, <3>1, Joined
  <2>6. Free(heard')
    BY <1>0, <2>3, <2>4, LacksSaid DEF Free
  <2>7. heard' # <<>> /\ heard'[1] = "n"
    BY <1>0, <2>5, Empty
  <2>8. heard' \o peer' = heard \o peer
    <3>1. /\ Len(peer) \in Nat /\ Len(peer) >= 1 /\ Len(peer') = Len(peer) - 1
          /\ Head(peer) = peer[1]
          /\ \A i \in 1..(Len(peer) - 1) : peer'[i] = peer[i + 1]
          /\ peer \in Seq(Symbol) /\ peer' \in Seq(Symbol)
      <4>1. Byte \subseteq Symbol
        BY DEF Symbol
      <4>2. Tail(peer) \in Seq(Byte)
        BY <2>1, Taken
      <4>3. peer \in Seq(Symbol) /\ Tail(peer) \in Seq(Symbol)
        BY <2>1, <4>1, <4>2
      <4> QED
        BY <2>1, <4>3, Taken
    <3>2. /\ heard' \o peer' \in Seq(Symbol)
          /\ Len(heard' \o peer') = Len(heard') + Len(peer')
          /\ \A i \in 1..Len(heard') : (heard' \o peer')[i] = heard'[i]
          /\ \A i \in (Len(heard') + 1)..(Len(heard') + Len(peer')) :
                (heard' \o peer')[i] = peer'[i - Len(heard')]
      <4>1. heard' \in Seq(Symbol) /\ peer' \in Seq(Symbol)
        BY <2>5, <3>1
      <4> QED
        BY <4>1, Joined
    <3>3. /\ heard \o peer \in Seq(Symbol) /\ Len(heard \o peer) = Len(heard) + Len(peer)
          /\ \A i \in 1..Len(heard) : (heard \o peer)[i] = heard[i]
          /\ \A i \in (Len(heard) + 1)..(Len(heard) + Len(peer)) :
                (heard \o peer)[i] = peer[i - Len(heard)]
      BY <1>0, <3>1, Joined
    <3>4. Len(heard' \o peer') = Len(heard \o peer)
      BY <1>0, <2>5, <3>1, <3>2, <3>3
    <3>5. ASSUME NEW i \in 1..Len(heard' \o peer')
          PROVE  (heard' \o peer')[i] = (heard \o peer)[i]
      <4>1. CASE i \in 1..Len(heard)
        <5>1. i \in 1..Len(heard')
          BY <1>0, <2>5, <4>1
        <5> QED
          BY <2>5, <3>2, <3>3, <4>1, <5>1
      <4>2. CASE i = Len(heard) + 1
        <5>1. i \in 1..Len(heard') /\ i \in (Len(heard) + 1)..(Len(heard) + Len(peer))
              /\ i - Len(heard) = 1
          BY <1>0, <2>5, <3>1, <4>2
        <5> QED
          BY <2>5, <3>1, <3>2, <3>3, <4>2, <5>1
      <4>3. CASE i > Len(heard) + 1
        <5>1. /\ i \in (Len(heard') + 1)..(Len(heard') + Len(peer'))
              /\ i \in (Len(heard) + 1)..(Len(heard) + Len(peer))
              /\ i - Len(heard') \in 1..(Len(peer) - 1)
              /\ i - Len(heard') + 1 = i - Len(heard)
          BY <1>0, <2>5, <3>1, <3>2, <4>3
        <5>2. (heard' \o peer')[i] = peer'[i - Len(heard')]
          BY <3>2, <5>1
        <5>3. (heard \o peer)[i] = peer[i - Len(heard)]
          BY <3>3, <5>1
        <5>4. peer'[i - Len(heard')] = peer[i - Len(heard') + 1]
          BY <3>1, <5>1
        <5> QED
          BY <5>1, <5>2, <5>3, <5>4
      <4>4. i \in Int /\ i >= 1
        OBVIOUS
      <4>5. i \in 1..Len(heard) \/ i = Len(heard) + 1 \/ i > Len(heard) + 1
        BY <1>0, <4>4
      <4> QED
        BY <4>1, <4>2, <4>3, <4>5
    <3> QED
      BY <3>2, <3>3, <3>4, <3>5, SameSequence
  <2>9. NoExitIn(heard' \o peer')
    BY <2>1, <2>8 DEF Heard
  <2>10. NoExitIn(heard')
    <3>1. Tail(peer) \in Seq(Byte) /\ Byte \subseteq Symbol
      BY <2>1, Taken DEF Symbol
    <3>2. peer' \in Seq(Symbol)
      BY <2>1, <3>1
    <3> QED
      BY <2>5, <2>9, <3>2, NoExitFront
  <2> QED
    BY <1>0, <2>1, <2>5, <2>6, <2>7, <2>9, <2>10 DEF Heard
<1> QED
  BY <1>1, <1>2

\* Where the answer to AT+ENTERDATAMODE is does not change when something is said.
LEMMA ShapeSaid ==
    ASSUME TypeInv, NEW text \in Seq(Symbol), Say(text), heard # <<>>, ~exited,
           UNCHANGED <<line_buffer, lines>>
    PROVE  /\ \A i \in 1..Len(input) : Ahead(i) => Ahead(i)' /\ i \in 1..Len(input')
           /\ Within => Within'
           /\ Behind => Behind'
<1>1. /\ Len(input') = Len(input) + Len(text)
      /\ \A i \in 1..Len(input) : input'[i] = input[i]
      /\ \A i \in 1..Len(text) : input'[Len(input) + i] = text[i]
      /\ \A i \in (Len(input) + 1)..(Len(input) + Len(text)) :
            input'[i] = text[i - Len(input)]
      /\ Len(heard') = Len(heard) + Len(text)
      /\ \A i \in 1..Len(heard) : heard'[i] = heard[i]
      /\ \A i \in 1..Len(text) : heard'[Len(heard) + i] = text[i]
      /\ \A i \in (Len(heard) + 1)..(Len(heard) + Len(text)) :
            heard'[i] = text[i - Len(heard)]
  BY Said
<1>2. /\ Len(input) \in Nat /\ Len(heard) \in Nat /\ Len(text) \in Nat
      /\ Len(line_buffer) \in Nat
  BY Sizes, Lengths
<1>3. ASSUME NEW i \in 1..Len(input), Ahead(i)
      PROVE  Ahead(i)' /\ i \in 1..Len(input')
  <2>1. /\ input[i] = "D1" /\ input[i + 1] = "r" /\ Len(input) = i + 1 + Len(heard)
        /\ \A j \in 1..Len(heard) : input[i + 1 + j] = heard[j]
        /\ \A j \in 1..(i - 1) : input[j] \in Text \union {"OK"}
        /\ \A j \in 1..Len(line_buffer) : line_buffer[j] \in Text \union {"OK"}
    BY <1>3 DEF Ahead
  <2>2. /\ i \in 1..Len(input') /\ i + 1 \in 1..Len(input)
        /\ Len(input') = i + 1 + Len(heard')
    BY <1>1, <1>2, <2>1
  <2>3. input'[i] = "D1" /\ input'[i + 1] = "r"
    BY <1>1, <2>1, <2>2
  <2>4. \A j \in 1..(i - 1) : input'[j] \in Text \union {"OK"}
    <3>1. \A j \in 1..(i - 1) : j \in 1..Len(input)
      BY <1>2
    <3> QED
      BY <1>1, <2>1, <3>1
  <2>5. ASSUME NEW j \in 1..Len(heard')
        PROVE  input'[i + 1 + j] = heard'[j]
    <3>1. CASE j \in 1..Len(heard)
      <4>1. i + 1 + j \in 1..Len(input)
        BY <1>2, <2>1, <3>1
      <4> QED
        BY <1>1, <2>1, <3>1, <4>1
    <3>2. CASE j > Len(heard)
      <4>1. /\ j \in (Len(heard) + 1)..(Len(heard) + Len(text))
            /\ i + 1 + j \in (Len(input) + 1)..(Len(input) + Len(text))
            /\ i + 1 + j - Len(input) = j - Len(heard)
        BY <1>1, <1>2, <2>1, <3>2
      <4>2. /\ heard'[j] = text[j - Len(heard)]
            /\ input'[i + 1 + j] = text[i + 1 + j - Len(input)]
        BY <1>1, <4>1
      <4> QED
        BY <4>1, <4>2
    <3> QED
      BY <1>2, <3>1, <3>2
  <2> QED
    BY <2>1, <2>2, <2>3, <2>4, <2>5 DEF Ahead
<1>4. ASSUME Within
      PROVE  Within'
  <2>1. /\ Len(input) = 1 + Len(heard) /\ input[1] = "r"
        /\ \A j \in 1..Len(heard) : input[1 + j] = heard[j]
        /\ \A j \in 1..Len(line_buffer) : line_buffer[j] \in Text \union {"OK", "D1"}
    BY <1>4 DEF Within
  <2>2. Len(input') = 1 + Len(heard') /\ input'[1] = "r"
    BY <1>1, <1>2, <2>1
  <2>3. ASSUME NEW j \in 1..Len(heard')
        PROVE  input'[1 + j] = heard'[j]
    <3>1. CASE j \in 1..Len(heard)
      <4>1. 1 + j \in 1..Len(input)
        BY <1>2, <2>1, <3>1
      <4> QED
        BY <1>1, <2>1, <3>1, <4>1
    <3>2. CASE j > Len(heard)
      <4>1. /\ j \in (Len(heard) + 1)..(Len(heard) + Len(text))
            /\ 1 + j \in (Len(input) + 1)..(Len(input) + Len(text))
            /\ 1 + j - Len(input) = j - Len(heard)
        BY <1>1, <1>2, <2>1, <3>2
      <4>2. /\ heard'[j] = text[j - Len(heard)]
            /\ input'[1 + j] = text[1 + j - Len(input)]
        BY <1>1, <4>1
      <4> QED
        BY <4>1, <4>2
    <3> QED
      BY <1>2, <3>1, <3>2
  <2> QED
    BY <2>1, <2>2, <2>3 DEF Within
<1>5. ASSUME Behind
      PROVE  Behind'
  <2> DEFINE c == Len(heard) - Len(input)
  <2>1. /\ c >= 0 /\ \A j \in 1..Len(input) : input[j] = heard[c + j]
        /\ Len(line_buffer) <= c
        /\ \A j \in 1..Len(line_buffer) : line_buffer[j] = heard[c - Len(line_buffer) + j]
    BY <1>5 DEF Behind, Consumed, BufferHeard
  <2>2. /\ c \in Nat /\ Len(heard') - Len(input') = c /\ c + Len(input) = Len(heard)
    BY <1>1, <1>2, <2>1
  <2> HIDE DEF c
  <2>3. ASSUME NEW j \in 1..Len(input')
        PROVE  input'[j] = heard'[c + j]
    <3>1. CASE j \in 1..Len(input)
      <4>1. c + j \in 1..Len(heard)
        BY <1>2, <2>2, <3>1
      <4> QED
        BY <1>1, <2>1, <3>1, <4>1
    <3>2. CASE j > Len(input)
      <4>1. /\ Len(input') = Len(input) + Len(text)
            /\ j \in Nat /\ j <= Len(input) + Len(text) /\ j >= Len(input) + 1
        BY <1>1, <1>2, <3>2
      <4>2. j \in (Len(input) + 1)..(Len(input) + Len(text))
        BY <1>2, <4>1
      <4> DEFINE k == c + j
      <4>3. k \in (Len(heard) + 1)..(Len(heard) + Len(text))
        BY <1>2, <2>2, <4>1
      <4>4. k - Len(heard) = j - Len(input)
        BY <1>2, <2>2, <4>1
      <4> HIDE DEF k
      <4>5. heard'[k] = text[k - Len(heard)]
        BY <1>1, <4>3
      <4>6. input'[j] = text[j - Len(input)]
        BY <1>1, <4>2
      <4> QED
        BY <4>4, <4>5, <4>6 DEF k
    <3> QED
      BY <1>2, <3>1, <3>2
  <2>4. ASSUME NEW j \in 1..Len(line_buffer)
        PROVE  line_buffer[j] = heard'[c - Len(line_buffer) + j]
    <3>1. c - Len(line_buffer) + j \in 1..Len(heard)
      BY <1>2, <2>1, <2>2
    <3> QED
      BY <1>1, <2>1, <3>1
  <2> QED
    BY <2>1, <2>2, <2>3, <2>4 DEF Behind, Consumed, BufferHeard
<1> QED
  BY <1>3, <1>4, <1>5

\* A line that is reported is what was read of it.
LEMMA LineReported ==
    ASSUME TypeInv, NEW byte \in Symbol, AsControl(byte), NEW X,
           byte \in {"r", "n"} => LineOf(line_buffer) \notin X, Lacks(lines, X)
    PROVE  Lacks(lines', X)
<1>1. lines \in Seq(Reports) /\ LineOf(line_buffer) \in Reports
  BY LineRead DEF TypeInv
<1>2. CASE lines' = lines
  BY <1>2
<1>3. CASE byte \in {"r", "n"} /\ lines' = Append(lines, LineOf(line_buffer))
  BY <1>1, <1>3, LacksAppended
<1> QED
  BY <1>2, <1>3, ControlRead

LEMMA BufferGrows ==
    ASSUME TypeInv, NEW c \in Nat, BufferHeard(c), NEW byte \in Symbol, AsControl(byte),
           byte = heard[c + 1], UNCHANGED heard
    PROVE  BufferHeard(c + 1)'
<1>1. /\ Len(line_buffer) \in Nat /\ Len(line_buffer) <= c
      /\ \A j \in 1..Len(line_buffer) : line_buffer[j] = heard[c - Len(line_buffer) + j]
  BY Sizes DEF BufferHeard
<1>2. CASE line_buffer' = <<>>
  BY <1>2, Empty DEF BufferHeard
<1>3. CASE /\ Len(line_buffer') = Len(line_buffer) + 1
           /\ line_buffer'[Len(line_buffer) + 1] = byte
           /\ \A i \in 1..Len(line_buffer) : line_buffer'[i] = line_buffer[i]
  <2>1. Len(line_buffer') <= c + 1
    BY <1>1, <1>3
  <2>2. ASSUME NEW j \in 1..Len(line_buffer')
        PROVE  line_buffer'[j] = heard[c + 1 - Len(line_buffer') + j]
    <3>1. c + 1 - Len(line_buffer') + j = c - Len(line_buffer) + j
      BY <1>1, <1>3
    <3>2. CASE j \in 1..Len(line_buffer)
      BY <1>1, <1>3, <3>1, <3>2
    <3>3. CASE j = Len(line_buffer) + 1
      <4>1. c - Len(line_buffer) + j = c + 1
        BY <1>1, <3>3
      <4> QED
        BY <1>3, <3>1, <3>3, <4>1
    <3> QED
      BY <1>1, <1>3, <3>2, <3>3
  <2> QED
    BY <2>1, <2>2 DEF BufferHeard
<1> QED
  BY <1>2, <1>3, ControlRead

\* The stream makes no line that the caller looks for.
LEMMA HeardLine ==
    ASSUME TypeInv, NEW c \in Nat, BufferHeard(c), c + 1 <= Len(heard),
           heard[c + 1] \in {"r", "n"}, Free(heard), NoExitIn(heard)
    PROVE  LineOf(line_buffer) \notin {"OK", "ERR", "D0", "D1"}
<1>1. /\ Len(line_buffer) \in Nat /\ Len(line_buffer) <= c /\ Len(heard) \in Nat
      /\ \A j \in 1..Len(line_buffer) : line_buffer[j] = heard[c - Len(line_buffer) + j]
  BY Sizes DEF BufferHeard
<1>2. ASSUME NEW x \in {"OK", "ERR", "D1"}
      PROVE  line_buffer # <<x>>
  <2> SUFFICES ASSUME line_buffer = <<x>>
               PROVE  FALSE
    OBVIOUS
  <2>1. Len(line_buffer) = 1 /\ line_buffer[1] = x
    OBVIOUS
  <2>2. c \in 1..Len(heard) /\ line_buffer[1] = heard[c - 1 + 1] /\ c - 1 + 1 = c
    BY <1>1, <2>1
  <2> QED
    BY <2>1, <2>2 DEF Free, Lacks, Answers
<1>3. line_buffer # <<"+", "0">>
  <2> SUFFICES ASSUME line_buffer = <<"+", "0">>
               PROVE  FALSE
    OBVIOUS
  <2>1. Len(line_buffer) = 2 /\ line_buffer[1] = "+" /\ line_buffer[2] = "0"
    OBVIOUS
  <2>2. /\ c >= 2 /\ line_buffer[1] = heard[c - 2 + 1] /\ line_buffer[2] = heard[c - 2 + 2]
    BY <1>1, <2>1
  <2>3. /\ c - 1 \in 1..(Len(heard) - 2) /\ c - 2 + 1 = c - 1 /\ c - 2 + 2 = c - 1 + 1
        /\ c + 1 = c - 1 + 2
    BY <1>1, <2>2
  <2>4. ExitAt(heard, c - 1)
    BY <2>1, <2>2, <2>3 DEF ExitAt
  <2> QED
    BY <2>3, <2>4 DEF NoExitIn
<1> QED
  BY <1>2, <1>3, LineRead

\* A line of indications and +OK, and of +IND=DATAMODE,1.
LEMMA EnterLine ==
    ASSUME TypeInv, NEW X, X \subseteq Answers,
           \A j \in 1..Len(line_buffer) : line_buffer[j] \in Text \union X
    PROVE  LineOf(line_buffer) \in {"other"} \union X
<1>1. ASSUME NEW x, x \notin Text \union X
      PROVE  line_buffer # <<x>> /\ line_buffer # <<x, "0">>
  <2>1. Len(line_buffer) >= 1 => line_buffer[1] # x
    BY <1>1, Sizes
  <2> QED
    BY <2>1
<1>2. "+" \notin Text \union X
  BY DEF Text, Answers
<1>3. ASSUME NEW x \in {"OK", "ERR", "D1"}, LineOf(line_buffer) = x
      PROVE  x \in X
  <2>1. line_buffer = <<x>>
    BY <1>3, LineRead
  <2>2. x \in Text \union X
    BY <1>1, <2>1
  <2> QED
    BY <2>2 DEF Text
<1>4. LineOf(line_buffer) # "D0"
  BY <1>1, <1>2, LineRead
<1> QED
  BY <1>3, <1>4, LineRead DEF Reports

\* +IND=DATAMODE,1 comes nearer.
LEMMA EnterRead ==
    ASSUME TypeInv, EnterInv, Entering, ReadControl
    PROVE  /\ Lacks(lines', {"ERR", "D0"})
           /\ Behind' \/ Lacks(lines', {"D1"})
           /\ (\E i \in 1..Len(input') : Ahead(i)') \/ Within' \/ Behind'
<1> DEFINE byte == Head(input)
<1>1. /\ byte \in Symbol /\ byte = input[1] /\ AsControl(byte)
      /\ Len(input) \in Nat /\ Len(input) >= 1 /\ Len(input') = Len(input) - 1
      /\ \A i \in 1..(Len(input) - 1) : input'[i] = input[i + 1]
      /\ UNCHANGED heard
  BY ByteRead DEF history
<1> HIDE DEF byte
<1>2. /\ Free(heard) /\ NoExitIn(heard) /\ Lacks(lines, {"ERR", "D0"})
      /\ ~Behind => Lacks(lines, {"D1"})
      /\ (\E i \in 1..Len(input) : Ahead(i)) \/ Within \/ Behind
      /\ Len(heard) \in Nat /\ Len(line_buffer) \in Nat
  BY Sizes DEF EnterInv, Heard
<1>3. CASE Behind
  <2>0. PICK c \in Nat : c = Len(heard) - Len(input)
    <3>1. Len(heard) - Len(input) \in Nat
      BY <1>1, <1>2, <1>3 DEF Behind, Consumed
    <3> QED
      BY <3>1
  <2>1. /\ \A j \in 1..Len(input) : input[j] = heard[c + j]
        /\ BufferHeard(c) /\ c + Len(input) = Len(heard)
        /\ Len(heard') - Len(input') = c + 1
    BY <1>1, <1>2, <1>3, <2>0 DEF Behind, Consumed
  <2>2. byte = heard[c + 1] /\ c + 1 <= Len(heard)
    BY <1>1, <2>1
  <2>3. ASSUME NEW j \in 1..Len(input')
        PROVE  input'[j] = heard[c + 1 + j]
    <3>1. /\ j \in 1..(Len(input) - 1) /\ j + 1 \in 1..Len(input)
          /\ c + (j + 1) = c + 1 + j
      BY <1>1, <2>1
    <3> QED
      BY <1>1, <2>1, <3>1
  <2>4. BufferHeard(c + 1)'
    BY <1>1, <2>1, <2>2, BufferGrows
  <2>5. Behind'
    <3>1. Consumed' = c + 1 /\ c + 1 >= 0
      BY <2>1 DEF Consumed
    <3>2. \A j \in 1..Len(input') : input'[j] = heard'[c + 1 + j]
      BY <1>1, <2>3
    <3> QED
      BY <2>4, <3>1, <3>2 DEF Behind, BufferHeard
  <2>6. byte \in {"r", "n"} => LineOf(line_buffer) \notin {"ERR", "D0"}
    BY <1>2, <2>1, <2>2, HeardLine
  <2> QED
    BY <1>1, <1>2, <2>5, <2>6, LineReported
<1>4. CASE Within /\ ~Behind
  <2>1. /\ Len(input) = 1 + Len(heard) /\ byte = "r"
        /\ \A j \in 1..Len(heard) : input[1 + j] = heard[j]
        /\ \A j \in 1..Len(line_buffer) : line_buffer[j] \in Text \union {"OK", "D1"}
    BY <1>1, <1>4 DEF Within
  <2>2. LineOf(line_buffer) \in {"other"} \union {"OK", "D1"}
    BY <2>1, EnterLine DEF Answers
  <2>3. line_buffer' = <<>>
    BY <1>1, <2>1 DEF AsControl
  <2>4. Behind'
    <3>1. Len(heard') - Len(input') = 0
      BY <1>1, <1>2, <2>1
    <3>2. \A j \in 1..Len(input') : input'[j] = heard'[0 + j]
      <4>1. ASSUME NEW j \in 1..Len(input')
            PROVE  input'[j] = heard'[0 + j]
        <5>1. /\ j \in 1..(Len(input) - 1) /\ j \in 1..Len(heard) /\ j + 1 = 1 + j
              /\ 0 + j = j
          BY <1>1, <1>2, <2>1
        <5> QED
          BY <1>1, <2>1, <5>1
      <4> QED
        BY <4>1
    <3> QED
      BY <2>3, <3>1, <3>2, Empty DEF Behind, Consumed, BufferHeard
  <2> QED
    BY <1>1, <1>2, <2>2, <2>4, LineReported
<1>5. CASE ~Behind /\ \E i \in 1..Len(input) : Ahead(i)
  <2>1. PICK i \in 1..Len(input) : Ahead(i)
    BY <1>5
  <2>2. /\ input[i] = "D1" /\ input[i + 1] = "r" /\ Len(input) = i + 1 + Len(heard)
        /\ \A j \in 1..Len(heard) : input[i + 1 + j] = heard[j]
        /\ \A j \in 1..(i - 1) : input[j] \in Text \union {"OK"}
        /\ \A j \in 1..Len(line_buffer) : line_buffer[j] \in Text \union {"OK"}
    BY <2>1 DEF Ahead
  <2>3. LineOf(line_buffer) \in {"other"} \union {"OK"}
    BY <2>2, EnterLine DEF Answers
  <2>4. Lacks(lines', {"ERR", "D0"}) /\ Lacks(lines', {"D1"})
    BY <1>1, <1>2, <1>5, <2>3, LineReported
  <2>5. CASE i = 1
    <3>1. byte = "D1"
      BY <1>1, <2>2, <2>5
    <3>2. line_buffer' = Append(line_buffer, byte)
      BY <1>1, <3>1 DEF AsControl
    <3>3. /\ Len(line_buffer') = Len(line_buffer) + 1
          /\ line_buffer'[Len(line_buffer) + 1] = byte
          /\ \A j \in 1..Len(line_buffer) : line_buffer'[j] = line_buffer[j]
      BY <1>1, <3>2, Appended DEF TypeInv
    <3>4. \A j \in 1..Len(line_buffer') : line_buffer'[j] \in Text \union {"OK", "D1"}
      <4>1. ASSUME NEW j \in 1..Len(line_buffer')
            PROVE  j \in 1..Len(line_buffer) \/ j = Len(line_buffer) + 1
        BY <1>2, <3>3
      <4> QED
        BY <2>2, <3>1, <3>3, <4>1
    <3>5. Len(input') = 1 + Len(heard') /\ input'[1] = "r"
      <4>1. Len(input') = 1 + Len(heard')
        BY <1>1, <1>2, <2>2, <2>5
      <4>2. 1 \in 1..(Len(input) - 1)
        BY <1>1, <1>2, <2>2, <2>5
      <4> QED
        BY <1>1, <2>2, <2>5, <4>1, <4>2
    <3>6. ASSUME NEW j \in 1..Len(heard')
          PROVE  input'[1 + j] = heard'[j]
      <4>1. 1 + j \in 1..(Len(input) - 1) /\ 1 + j + 1 = i + 1 + j /\ j \in 1..Len(heard)
        BY <1>1, <1>2, <2>2, <2>5
      <4> QED
        BY <1>1, <2>2, <4>1
    <3>7. Within'
      BY <3>4, <3>5, <3>6 DEF Within
    <3> QED
      BY <2>4, <3>7
  <2>6. CASE i # 1
    <3> DEFINE k == i - 1
    <3>1. /\ k \in Nat /\ k >= 1 /\ k + 1 = i /\ k \in 1..Len(input')
          /\ k \in 1..(Len(input) - 1) /\ k + 1 \in 1..(Len(input) - 1)
          /\ k + 1 + 1 = i + 1 /\ Len(input') = k + 1 + Len(heard')
      BY <1>1, <1>2, <2>2, <2>6
    <3> HIDE DEF k
    <3>2. input'[k] = "D1" /\ input'[k + 1] = "r"
      BY <1>1, <2>2, <3>1
    <3>3. ASSUME NEW j \in 1..Len(heard')
          PROVE  input'[k + 1 + j] = heard'[j]
      <4>1. /\ k + 1 + j \in 1..(Len(input) - 1) /\ k + 1 + j + 1 = i + 1 + j
            /\ j \in 1..Len(heard)
        BY <1>1, <1>2, <2>2, <3>1
      <4> QED
        BY <1>1, <2>2, <4>1
    <3>4. ASSUME NEW j \in 1..(k - 1)
          PROVE  input'[j] \in Text \union {"OK"}
      <4>1. j \in 1..(Len(input) - 1) /\ j + 1 \in 1..(i - 1)
        BY <1>1, <3>1
      <4> QED
        BY <1>1, <2>2, <4>1
    <3>5. byte \in Text \union {"OK"}
      <4>1. 1 \in 1..(i - 1)
        BY <3>1
      <4> QED
        BY <1>1, <2>2, <4>1
    <3>6. \A j \in 1..Len(line_buffer') : line_buffer'[j] \in Text \union {"OK"}
      <4>1. CASE line_buffer' = <<>>
        BY <4>1, Empty
      <4>2. CASE line_buffer' = Append(line_buffer, byte)
        <5>1. /\ Len(line_buffer') = Len(line_buffer) + 1
              /\ line_buffer'[Len(line_buffer) + 1] = byte
              /\ \A j \in 1..Len(line_buffer) : line_buffer'[j] = line_buffer[j]
          BY <1>1, <4>2, Appended DEF TypeInv
        <5> QED
          BY <1>2, <2>2, <3>5, <5>1
      <4> QED
        BY <1>1, <4>1, <4>2, ControlRead
    <3>7. Ahead(k)'
      BY <3>1, <3>2, <3>3, <3>4, <3>6 DEF Ahead
    <3> QED
      BY <2>4, <3>1, <3>7
  <2> QED
    BY <2>5, <2>6
<1> QED
  BY <1>2, <1>3, <1>4, <1>5

\* +OK and +IND=DATAMODE,1 are put on the line of a client that has control.
LEMMA EnterAnswered ==
    ASSUME TypeInv, PeerInv, RequestInv, AnswerInv, AnswerEnter
    PROVE  EnterInv'
<1>1. /\ request = "ENTER" /\ pc = "enter_wait" /\ InControl /\ ~half_line
      /\ mark = Len(delivered) /\ ~exited
  BY DEF AnswerEnter, RequestInv, AnswerInv, InControl
<1>2. /\ input' = input \o OkLine \o Entered /\ heard' = <<"n">> /\ in_data'
      /\ UNCHANGED <<peer, delivered, mark, exited, reading, line_buffer, lines>>
  BY <1>1 DEF AnswerEnter, ClientIdle, reader
<1>3. Len(input) \in Nat /\ input \in Seq(Symbol) /\ Len(heard') = 1 /\ heard'[1] = "n"
  BY <1>2, Sizes DEF TypeInv
<1> DEFINE first == input \o OkLine
           L == Len(input)
<1>4. /\ first \in Seq(Symbol) /\ Len(first) = L + 3
      /\ \A i \in 1..L : first[i] = input[i]
      /\ \A i \in (L + 1)..(L + 3) : first[i] = OkLine[i - L]
  <2>1. OkLine \in Seq(Symbol) /\ input \in Seq(Symbol)
    BY <1>3, Symbols
  <2>2. /\ first \in Seq(Symbol) /\ Len(first) = L + Len(OkLine)
        /\ \A i \in 1..L : first[i] = input[i]
        /\ \A i \in (L + 1)..(L + Len(OkLine)) : first[i] = OkLine[i - L]
    BY <2>1, Joined
  <2> HIDE DEF first
  <2>3. Len(OkLine) = 3
    BY Symbols
  <2> QED
    BY <2>2, <2>3
<1>5. /\ Len(input') = L + 6
      /\ \A i \in 1..(L + 3) : input'[i] = first[i]
      /\ \A i \in 1..3 : input'[L + 3 + i] = Entered[i]
  <2>0. input' = first \o Entered
    BY <1>2
  <2> HIDE DEF first
  <2>1. Entered \in Seq(Symbol) /\ first \in Seq(Symbol)
    BY <1>4, Symbols
  <2>2. /\ Len(input') = Len(first) + Len(Entered)
        /\ \A i \in 1..Len(first) : input'[i] = first[i]
        /\ \A i \in 1..Len(Entered) : input'[Len(first) + i] = Entered[i]
    BY <2>0, <2>1, Joined
  <2>3. Len(Entered) = 3
    BY Symbols
  <2> QED
    BY <1>3, <1>4, <2>2, <2>3
<1> HIDE DEF first
<1>6. \A i \in 1..3 : OkLine[i] \in Text \union {"OK"}
  BY DEF OkLine, Text
<1>7. Entered[1] = "D1" /\ Entered[2] = "r" /\ Entered[3] = "n"
  BY DEF Entered
<1>8. /\ input'[L + 4] = "D1" /\ input'[L + 4 + 1] = "r" /\ input'[L + 4 + 1 + 1] = "n"
  <2>1. L + 3 + 1 = L + 4 /\ L + 3 + 2 = L + 4 + 1 /\ L + 3 + 3 = L + 4 + 1 + 1
    BY <1>3
  <2> QED
    BY <1>5, <1>7, <2>1
<1>9. ASSUME NEW j \in 1..(L + 4 - 1)
      PROVE  input'[j] \in Text \union {"OK"}
  <2>1. j \in 1..(L + 3) /\ input'[j] = first[j]
    BY <1>3, <1>5
  <2>2. CASE j \in 1..L
    <3>1. input[j] \in Symbol /\ input[j] \notin Symbol \ Text
      BY <1>1, <1>3, <2>2, Lengths DEF InControl, Still, Lacks
    <3> QED
      BY <1>4, <2>1, <2>2, <3>1
  <2>3. CASE j > L
    <3>1. j \in (L + 1)..(L + 3) /\ j - L \in 1..3
      BY <1>3, <2>1, <2>3
    <3> QED
      BY <1>4, <1>6, <2>1, <3>1
  <2> QED
    BY <1>3, <2>1, <2>2, <2>3
<1>10. ASSUME NEW j \in 1..Len(line_buffer')
       PROVE  line_buffer'[j] \in Text \union {"OK"}
  <2>1. line_buffer[j] \in Symbol /\ line_buffer[j] \notin Symbol \ Text
    BY <1>1, <1>2, Lengths DEF InControl, Still, Lacks, TypeInv
  <2> QED
    BY <1>2, <2>1
<1>11. \E i \in 1..Len(input') : Ahead(i)'
  <2>1. PICK k \in Nat : k = L + 4
    BY <1>3
  <2>2. k \in 1..Len(input') /\ Len(input') = k + 1 + Len(heard')
    BY <1>3, <1>5, <2>1
  <2>3. \A j \in 1..Len(heard') : input'[k + 1 + j] = heard'[j]
    BY <1>3, <1>8, <2>1
  <2>4. Ahead(k)'
    BY <1>8, <1>9, <1>10, <2>1, <2>2, <2>3 DEF Ahead
  <2> QED
    BY <2>2, <2>4
<1>12. NoExitIn(heard') /\ Free(heard') /\ heard' # <<>>
  <2>1. \A i \in 1..(Len(heard') - 2) : FALSE
    BY <1>3
  <2>2. Free(heard')
    BY <1>3 DEF Free, Lacks, Answers
  <2> QED
    BY <1>3, <2>1, <2>2, Empty DEF NoExitIn
<1>13. NoExitIn(heard' \o peer')
  <2>1. /\ heard' \in Seq(Symbol) /\ peer \in Seq(Symbol) /\ peer' = peer
        /\ Len(peer) \in Nat
    <3>1. Byte \subseteq Symbol
      BY DEF Symbol
    <3> QED
      BY <1>2, <3>1, Symbols, Sizes DEF TypeInv
  <2>2. /\ Len(heard' \o peer') = 1 + Len(peer)
        /\ (heard' \o peer')[1] = "n"
        /\ \A i \in 1..Len(peer) : (heard' \o peer')[1 + i] = peer[i]
    <3>1. peer' \in Seq(Symbol)
      BY <2>1
    <3>2. /\ Len(heard' \o peer') = Len(heard') + Len(peer')
          /\ \A i \in 1..Len(heard') : (heard' \o peer')[i] = heard'[i]
          /\ \A i \in 1..Len(peer') : (heard' \o peer')[Len(heard') + i] = peer'[i]
      BY <2>1, <3>1, Joined
    <3> QED
      BY <1>3, <2>1, <3>2
  <2>3. ASSUME NEW i \in 1..(Len(heard' \o peer') - 2)
        PROVE  ~ExitAt(heard' \o peer', i)
    <3>1. CASE i = 1
      BY <2>2, <3>1 DEF ExitAt
    <3>2. CASE i # 1
      <4> DEFINE k == i - 1
      <4>1. /\ k \in 1..(Len(peer) - 2) /\ k \in 1..Len(peer) /\ k + 1 \in 1..Len(peer)
            /\ k + 2 \in 1..Len(peer) /\ 1 + k = i /\ 1 + (k + 1) = i + 1
            /\ 1 + (k + 2) = i + 2
        BY <2>1, <2>2, <3>2
      <4> HIDE DEF k
      <4>2. ~ExitAt(peer, k)
        BY <4>1 DEF PeerInv, NoExitIn
      <4> QED
        BY <2>2, <4>1, <4>2 DEF ExitAt
    <3> QED
      BY <3>1, <3>2
  <2> QED
    BY <2>3 DEF NoExitIn
<1>14. Heard'
  BY <1>1, <1>2, <1>3, <1>12, <1>13 DEF Heard
<1>15. Lacks(lines', {"ERR", "D0"}) /\ Lacks(lines', {"D1"})
  BY <1>1, <1>2, LacksMore DEF InControl, Other
<1> QED
  BY <1>1, <1>2, <1>11, <1>12, <1>14, <1>15 DEF EnterInv, InControl

\* From the answer to AT+ENTERDATAMODE to the flag.
LEMMA EnterStep ==
    ASSUME TypeInv, PeerInv, FlagInv, RequestInv, AnswerInv, EnterInv, Next
    PROVE  EnterInv'
<1>0. ASSUME Entering
      PROVE  /\ Heard /\ NoExitIn(heard) /\ mark = Len(delivered)
             /\ reading \in {"no", "control"} /\ Lacks(lines, {"ERR", "D0"})
             /\ ~Behind => Lacks(lines, {"D1"})
             /\ (\E i \in 1..Len(input) : Ahead(i)) \/ Within \/ Behind
             /\ ~data_mode /\ request = "none"
  BY <1>0 DEF EnterInv, Entering, FlagInv, InSession, RequestInv, TypeInv
<1>1. CASE AnswerEnter
  BY <1>1, EnterAnswered
<1>2. CASE ~AnswerEnter /\ (Firmware \/ Environment)
  <2> SUFFICES ASSUME Entering'
               PROVE  EnterInv'
    BY DEF EnterInv
  <2>1. UNCHANGED <<reader, lines, pc, delivered, mark>>
    BY <1>2, FirmwareKeeps DEF caller
  <2>2. Entering
    <3>1. AnswerAt => pc = "sync_wait"
      BY DEF AnswerAt, RequestInv
    <3>2. AnswerEscape \/ EscapeMissed => pc \notin {"enter_wait", "entered_wait"}
      BY DEF AnswerEscape, EscapeMissed, RequestInv
    <3>3. LinkLost \/ Notify \/ Indicate => UNCHANGED request
      BY DEF LinkLost, Notify, Indicate
    <3> QED
      BY <1>2, <2>1, <3>1, <3>2, <3>3 DEF Entering, Firmware, Environment
  <2>3. Notify \/ LinkLost \/ Indicate
    BY <1>0, <1>2, <2>2 DEF Firmware, Environment, AnswerAt, AnswerEscape, EscapeMissed
  <2>4. \E text \in Seq(Symbol) : Say(text)
    <3>1. CASE Notify
      <4>1. peer # <<>> /\ peer \in Seq(Byte) /\ Say(<<Head(peer)>>)
        BY <3>1 DEF Notify, TypeInv
      <4>2. Head(peer) \in Byte
        BY <4>1, Taken
      <4> QED
        BY <4>1, <4>2, Symbols
    <3>2. CASE LinkLost \/ Indicate
      BY <3>2, Symbols DEF LinkLost, Indicate
    <3> QED
      BY <2>3, <3>1, <3>2
  <2>5. PICK text \in Seq(Symbol) : Say(text)
    BY <2>4
  <2>6. Heard' /\ NoExitIn(heard')
    BY <1>0, <2>2, <2>3, HeardKept
  <2>7. heard # <<>> /\ ~exited /\ UNCHANGED <<line_buffer, lines>>
    BY <1>0, <2>1, <2>2 DEF Heard, reader
  <2>8. /\ \A i \in 1..Len(input) : Ahead(i) => Ahead(i)' /\ i \in 1..Len(input')
        /\ Within => Within'
        /\ Behind => Behind'
    BY <2>5, <2>7, ShapeSaid
  <2>9. (\E i \in 1..Len(input') : Ahead(i)') \/ Within' \/ Behind'
    BY <1>0, <2>2, <2>8
  <2>10. mark' = Len(delivered') /\ reading' \in {"no", "control"}
    BY <1>0, <2>1, <2>2 DEF reader
  <2>11. Lacks(lines', {"ERR", "D0"}) /\ (~Behind' => Lacks(lines', {"D1"}))
    BY <1>0, <2>1, <2>2, <2>8
  <2> QED
    BY <2>6, <2>9, <2>10, <2>11 DEF EnterInv
<1>3. CASE Reader
  <2> SUFFICES ASSUME Entering'
               PROVE  EnterInv'
    BY DEF EnterInv
  <2>1. UNCHANGED <<pc, request, in_data, peer>>
    BY <1>3
    DEF Reader, ReadBegins, ReadTimesOut, ReadControl, ReadData, HandleStream,
        HandleNoExit, HandleExit, HandleRest, Others, caller
  <2>2. Entering
    BY <2>1 DEF Entering
  <2>3. CASE ReadBegins \/ ReadTimesOut
    <3>1. /\ UNCHANGED <<input, line_buffer, lines, delivered, mark, heard, exited>>
          /\ reading' \in {"no", "control"}
      BY <1>0, <2>2, <2>3 DEF ReadBegins, ReadTimesOut, history
    <3> QED
      BY <1>0, <2>1, <2>2, <3>1
      DEF EnterInv, Heard, Ahead, Within, Behind, Consumed, BufferHeard
  <2>4. CASE ReadControl
    <3>1. /\ UNCHANGED <<delivered, mark, heard, exited>> /\ reading' = "no"
      BY <2>4, ByteRead DEF history
    <3>2. /\ Lacks(lines', {"ERR", "D0"}) /\ (Behind' \/ Lacks(lines', {"D1"}))
          /\ (\E i \in 1..Len(input') : Ahead(i)') \/ Within' \/ Behind'
      BY <2>2, <2>4, EnterRead
    <3>3. Heard' /\ NoExitIn(heard')
      BY <1>0, <2>1, <2>2, <3>1 DEF Heard
    <3> QED
      BY <1>0, <2>2, <3>1, <3>2, <3>3 DEF EnterInv
  <2>5. CASE HandleRest
    BY <1>0, <2>2, <2>5 DEF HandleRest
  <2> QED
    BY <1>0, <1>3, <2>2, <2>3, <2>4, <2>5, ReaderInControl
<1>4. ASSUME Entering, lines # <<>>, lines' = Tail(lines),
             UNCHANGED <<firmware, reader, bounds, history>>
      PROVE  EnterInv'
  <2>1. \A X : Lacks(lines, X) => Lacks(lines', X)
    BY <1>4, LineSkipped
  <2>2. UNCHANGED <<in_data, peer, input, reading, line_buffer, delivered, mark, heard,
                    exited>>
    BY <1>4 DEF firmware, reader, history
  <2>3. Heard' /\ NoExitIn(heard') /\ mark' = Len(delivered') /\ reading' \in {"no", "control"}
    BY <1>0, <1>4, <2>2 DEF Heard
  <2>4. /\ (\E i \in 1..Len(input') : Ahead(i)') \/ Within' \/ Behind'
        /\ Behind => Behind'
    BY <1>0, <1>4, <2>2 DEF Ahead, Within, Behind, Consumed, BufferHeard
  <2>5. Lacks(lines', {"ERR", "D0"}) /\ (~Behind' => Lacks(lines', {"D1"}))
    BY <1>0, <1>4, <2>1, <2>4
  <2> QED
    BY <2>3, <2>4, <2>5 DEF EnterInv
<1>5. CASE EnterOk
  <2>1. CASE Skips("enter_wait", {"OK", "ERR"})
    <3>1. /\ lines # <<>> /\ lines' = Tail(lines) /\ UNCHANGED <<pc, request>>
          /\ UNCHANGED <<firmware, reader, bounds, history>>
      BY <2>1 DEF Skips, Waits, caller, firmware
    <3>2. CASE Entering
      BY <1>4, <3>1, <3>2
    <3>3. CASE ~Entering
      BY <3>1, <3>3 DEF Entering, EnterInv
    <3> QED
      BY <3>2, <3>3
  <2>2. CASE Gets("enter_wait", "OK") /\ pc' = "entered_wait"
    <3>1. /\ pc = "enter_wait" /\ lines # <<>> /\ lines' = Tail(lines)
          /\ Head(lines) = "OK" /\ UNCHANGED <<firmware, reader, bounds, history>>
      BY <2>2 DEF Gets, Waits
    <3>2. ~Other(lines)
      BY <3>1, LacksTaken DEF Other, TypeInv
    <3>3. Entering
      BY <3>1, <3>2 DEF Entering, AnswerInv, InControl, RequestInv, TypeInv
    <3> QED
      BY <1>4, <3>1, <3>3
  <2>3. CASE Gets("enter_wait", "ERR")
    BY <2>3, NotRefused DEF Gets, Waits
  <2> QED
    BY <1>5, <2>1, <2>2, <2>3 DEF EnterOk
<1>6. CASE EnterDone
  <2>1. CASE Skips("entered_wait", {"D1"})
    <3>1. /\ lines # <<>> /\ lines' = Tail(lines) /\ pc = "entered_wait"
          /\ UNCHANGED <<firmware, reader, bounds, history>>
      BY <2>1 DEF Skips, Waits
    <3> QED
      BY <1>4, <3>1 DEF Entering
  <2>2. CASE ~Skips("entered_wait", {"D1"})
    BY <1>6, <2>2 DEF EnterDone, EnterInv, Entering
  <2> QED
    BY <2>1, <2>2
<1>7. CASE EnterWrites
  BY <1>7 DEF EnterWrites, Writes, EnterInv, Entering
<1>8. CASE SyncBegins \/ SyncWrites \/ SyncDone \/ SyncFails \/ RecoverResets
           \/ RecoverEscapes \/ RecoverEscaped
  BY <1>8
  DEF SyncBegins, SyncWrites, SyncDone, SyncFails, RecoverResets, RecoverEscapes,
      RecoverEscaped, Skips, Gets, TimesOut, Waits, caller, EnterInv, Entering
<1>9. CASE ExitWrites \/ ExitSeen \/ ExitFails \/ ExitBegins \/ ExitAgain
           \/ StartedAgain \/ Killed
  BY <1>9
  DEF ExitWrites, ExitSeen, ExitFails, ExitBegins, ExitAgain, StartedAgain, Killed,
      NewClient, Skips, Gets, TimesOut, Waits, caller, EnterInv, Entering
<1> QED
  BY <1>1, <1>2, <1>3, <1>5, <1>6, <1>7, <1>8, <1>9 DEF Next, Caller

----------------------------------------------------------------------------
\* What is put together is the rest of what was heard.
LEMMA CarriedSaid ==
    ASSUME TypeInv, NEW text \in Seq(Symbol), Say(text), heard # <<>>, ~exited,
           UNCHANGED <<exit_buffer, chunk, line_buffer>>, NEW b \in Nat, Carried(b)
    PROVE  Carried(b)' /\ Handed' = Handed /\ (BufferHeard(b) => BufferHeard(b)')
<1>1. /\ Len(input') = Len(input) + Len(text)
      /\ \A i \in 1..Len(input) : input'[i] = input[i]
      /\ \A i \in (Len(input) + 1)..(Len(input) + Len(text)) :
            input'[i] = text[i - Len(input)]
      /\ Len(heard') = Len(heard) + Len(text)
      /\ \A i \in 1..Len(heard) : heard'[i] = heard[i]
      /\ \A i \in (Len(heard) + 1)..(Len(heard) + Len(text)) :
            heard'[i] = text[i - Len(heard)]
      /\ UNCHANGED <<delivered, mark>>
  BY Said
<1>2. /\ Len(input) \in Nat /\ Len(heard) \in Nat /\ Len(text) \in Nat
      /\ Len(exit_buffer) \in Nat /\ Len(chunk) \in Nat /\ Handed \in Nat
      /\ Len(line_buffer) \in Nat /\ Handed' = Handed
  BY <1>1, Sizes, Lengths DEF Handed
<1>3. /\ b + Handed + Len(exit_buffer) + Len(chunk) + Len(input) = Len(heard)
      /\ \A j \in 1..Handed : delivered[mark + j] = heard[b + j]
      /\ \A j \in 1..Len(exit_buffer) : exit_buffer[j] = heard[b + Handed + j]
      /\ \A j \in 1..Len(chunk) : chunk[j] = heard[b + Handed + Len(exit_buffer) + j]
      /\ \A j \in 1..Len(input) :
            input[j] = heard[b + Handed + Len(exit_buffer) + Len(chunk) + j]
  BY DEF Carried
<1>4. \A j \in 1..Handed : delivered'[mark' + j] = heard'[b + j]
  <2>1. \A j \in 1..Handed : b + j \in 1..Len(heard)
    BY <1>2, <1>3
  <2> QED
    BY <1>1, <1>3, <2>1
<1>5. \A j \in 1..Len(exit_buffer) : exit_buffer[j] = heard'[b + Handed + j]
  <2>1. \A j \in 1..Len(exit_buffer) : b + Handed + j \in 1..Len(heard)
    BY <1>2, <1>3
  <2> QED
    BY <1>1, <1>3, <2>1
<1>6. \A j \in 1..Len(chunk) : chunk[j] = heard'[b + Handed + Len(exit_buffer) + j]
  <2>1. \A j \in 1..Len(chunk) : b + Handed + Len(exit_buffer) + j \in 1..Len(heard)
    BY <1>2, <1>3
  <2> QED
    BY <1>1, <1>3, <2>1
<1>7. PICK c \in Nat : c = b + Handed + Len(exit_buffer) + Len(chunk)
  BY <1>2
<1>8. ASSUME NEW j \in 1..Len(input')
      PROVE  input'[j] = heard'[c + j]
  <2>0. c + Len(input) = Len(heard)
    BY <1>3, <1>7
  <2>1. CASE j \in 1..Len(input)
    <3>1. c + j \in 1..Len(heard)
      BY <1>2, <2>0, <2>1
    <3> QED
      BY <1>1, <1>3, <1>7, <2>1, <3>1
  <2>2. CASE j > Len(input)
    <3> DEFINE k == c + j
    <3>1. j \in (Len(input) + 1)..(Len(input) + Len(text))
      BY <1>1, <1>2, <2>2
    <3>2. k \in (Len(heard) + 1)..(Len(heard) + Len(text))
      BY <1>2, <2>0, <3>1
    <3>3. k - Len(heard) = j - Len(input)
      BY <1>2, <2>0, <3>1
    <3> HIDE DEF k
    <3>4. heard'[k] = text[k - Len(heard)] /\ input'[j] = text[j - Len(input)]
      BY <1>1, <3>1, <3>2
    <3> QED
      BY <3>3, <3>4 DEF k
  <2> QED
    BY <1>2, <2>1, <2>2
<1>9. b + Handed + Len(exit_buffer) + Len(chunk) + Len(input') = Len(heard')
  <2>1. c + Len(input) = Len(heard)
    BY <1>3, <1>7
  <2>2. Len(input') = Len(input) + Len(text) /\ Len(heard') = Len(heard) + Len(text)
    BY <1>1
  <2>3. c + Len(input') = Len(heard')
    BY <1>2, <2>1, <2>2
  <2> QED
    BY <1>7, <2>3
<1>10. Carried(b)'
  BY <1>2, <1>4, <1>5, <1>6, <1>7, <1>8, <1>9 DEF Carried
<1>11. ASSUME BufferHeard(b)
       PROVE  BufferHeard(b)'
  <2>1. /\ Len(line_buffer) <= b
        /\ \A j \in 1..Len(line_buffer) : line_buffer[j] = heard[b - Len(line_buffer) + j]
    BY <1>11 DEF BufferHeard
  <2>2. \A j \in 1..Len(line_buffer) : b - Len(line_buffer) + j \in 1..Len(heard)
    BY <1>2, <1>3, <2>1
  <2>3. \A j \in 1..Len(line_buffer) : line_buffer[j] = heard'[b - Len(line_buffer) + j]
    BY <1>1, <2>1, <2>2
  <2> QED
    BY <2>1, <2>3 DEF BufferHeard
<1> QED
  BY <1>2, <1>10, <1>11

\* The exit line, put behind what holds none, begins where it was put.
LEMMA ExitSaid ==
    ASSUME NEW s \in Seq(Symbol), NoExitIn(s), NEW i \in 1..(Len(s \o Exited) - 2),
           ExitAt(s \o Exited, i)
    PROVE  /\ i = Len(s) + 1 /\ i + 3 = Len(s \o Exited)
           /\ (s \o Exited)[i + 2] = "r" /\ (s \o Exited)[i + 3] = "n"
<1> DEFINE t == s \o Exited
<1>1. /\ Len(s) \in Nat /\ Len(t) = Len(s) + 4
      /\ \A j \in 1..Len(s) : t[j] = s[j]
      /\ t[Len(s) + 1] = "+" /\ t[Len(s) + 2] = "0"
      /\ t[Len(s) + 3] = "r" /\ t[Len(s) + 4] = "n"
  <2>1. /\ Len(t) = Len(s) + Len(Exited)
        /\ \A j \in 1..Len(s) : t[j] = s[j]
        /\ \A j \in 1..Len(Exited) : t[Len(s) + j] = Exited[j]
    <3>1. s \in Seq(Symbol) /\ Exited \in Seq(Symbol)
      BY Symbols
    <3> QED
      BY <3>1, Joined
  <2> HIDE DEF t
  <2> QED
    BY <2>1, ExitLine, Lengths
<1>2. t[i] = "+" /\ t[i + 1] = "0" /\ t[i + 2] \in {"r", "n"} /\ i \in 1..(Len(t) - 2)
  BY DEF ExitAt
<1> HIDE DEF t
<1>3. i # Len(s) + 2 /\ i + 1 # Len(s) + 1 /\ i + 2 # Len(s) + 1
  BY <1>1, <1>2
<1>4. ~(i \in 1..(Len(s) - 2))
  <2> SUFFICES ASSUME i \in 1..(Len(s) - 2)
               PROVE  FALSE
    OBVIOUS
  <2>1. t[i] = s[i] /\ t[i + 1] = s[i + 1] /\ t[i + 2] = s[i + 2]
    BY <1>1
  <2> QED
    BY <1>2, <2>1 DEF NoExitIn, ExitAt
<1>5. i = Len(s) + 1
  BY <1>1, <1>2, <1>3, <1>4
<1>6. i + 2 = Len(s) + 3 /\ i + 3 = Len(s) + 4
  BY <1>1, <1>5
<1> QED
  BY <1>1, <1>5, <1>6 DEF t

\* What a session hears next.
LEMMA StreamSaid ==
    ASSUME TypeInv, PeerInv, FlagInv, RequestInv, StreamInv, data_mode,
           Firmware \/ Environment
    PROVE  StreamInv'
<1>0. /\ UNCHANGED <<reader, flags, delivered, mark, missed, exited, pc>>
  BY FirmwareKeeps DEF caller
<1>1. /\ Heard /\ OneExit /\ missed \in Nat /\ InSession /\ ~exited
      /\ heard # <<>> /\ heard \in Seq(Symbol) /\ Len(heard) \in Nat
  BY Sizes DEF StreamInv, FlagInv, Heard, TypeInv
<1>2. PICK b \in {missed, missed + 1} : Carried(b) /\ EndsBefore(b)
  BY <1>1 DEF StreamInv
<1>3. /\ b \in Nat /\ Handed \in Nat /\ b + Handed <= Len(heard) /\ missed <= b
  BY <1>1, <1>2, Sizes DEF Carried
<1>4. \/ Notify \/ LinkLost \/ Indicate
      \/ AnswerEscape \/ EscapeMissed
  BY <1>1 DEF Firmware, Environment, AnswerAt, AnswerEnter, RequestInv, InSession
<1>5. CASE EscapeMissed
  BY <1>0, <1>1, <1>2, <1>5
  DEF EscapeMissed, history, reader, flags, StreamInv, Heard, OneExit, ExitAt, Carried,
      EndsBefore, Handed, BufferHeard
<1>6. ASSUME NEW text \in Seq(Symbol), Say(text), Heard',
             \A i \in 1..(Len(heard') - 2) : ExitAt(heard', i) =>
                \/ i \in 1..(Len(heard) - 2) /\ ExitAt(heard, i) /\ UNCHANGED in_data
                \/ /\ NoExitIn(heard) /\ i = Len(heard) + 1 /\ i + 3 = Len(heard')
                   /\ heard'[i + 2] = "r" /\ heard'[i + 3] = "n"
                   /\ exit_pending /\ ~in_data'
      PROVE  StreamInv'
  <2>1. UNCHANGED <<exit_buffer, chunk, line_buffer, reading, data_mode, exit_pending>>
    BY <1>0 DEF reader, flags
  <2>2. /\ Len(heard') = Len(heard) + Len(text) /\ Len(text) \in Nat
        /\ \A i \in 1..Len(heard) : heard'[i] = heard[i]
    BY <1>1, <1>6, Said, Lengths
  <2>3. Carried(b)' /\ Handed' = Handed
    BY <1>1, <1>2, <1>3, <1>6, <2>1, CarriedSaid
  <2>4. ASSUME NEW i \in 1..(Len(heard') - 2), ExitAt(heard', i)
        PROVE  /\ i > missed /\ i + 3 <= Len(heard')
               /\ heard'[i + 2] = "r" /\ heard'[i + 3] = "n" /\ exit_pending /\ ~in_data'
               /\ i > b => i > b + Handed
               /\ \A j \in 1..(Len(heard') - 2) : ExitAt(heard', j) => j = i
    <3>1. CASE i \in 1..(Len(heard) - 2) /\ ExitAt(heard, i) /\ UNCHANGED in_data
      <4>1. /\ i > missed /\ i + 3 <= Len(heard) /\ heard[i + 2] = "r" /\ heard[i + 3] = "n"
            /\ exit_pending /\ ~in_data
            /\ \A j \in 1..(Len(heard) - 2) : ExitAt(heard, j) => j = i
            /\ i > b => i > b + Handed
        BY <1>1, <1>2, <3>1 DEF OneExit, EndsBefore
      <4>2. heard'[i + 2] = heard[i + 2] /\ heard'[i + 3] = heard[i + 3]
        <5>1. i + 2 \in 1..Len(heard) /\ i + 3 \in 1..Len(heard)
          BY <1>1, <3>1, <4>1
        <5> QED
          BY <2>2, <5>1
      <4>3. ~NoExitIn(heard)
        BY <3>1 DEF NoExitIn
      <4>4. i + 3 <= Len(heard')
        BY <1>1, <2>2, <3>1, <4>1
      <4> QED
        BY <1>6, <3>1, <4>1, <4>2, <4>3, <4>4
    <3>2. CASE /\ NoExitIn(heard) /\ i = Len(heard) + 1 /\ i + 3 = Len(heard')
               /\ heard'[i + 2] = "r" /\ heard'[i + 3] = "n"
               /\ exit_pending /\ ~in_data'
      <4>1. \A j \in 1..(Len(heard') - 2) : ExitAt(heard', j) => j = i
        BY <1>6, <3>2 DEF NoExitIn
      <4>2. i > missed /\ i > b + Handed /\ i + 3 <= Len(heard')
        BY <1>1, <1>3, <3>2
      <4> QED
        BY <3>2, <4>1, <4>2
    <3> QED
      BY <1>6, <2>4, <3>1, <3>2
  <2>5. OneExit' /\ EndsBefore(b)'
    BY <1>0, <2>1, <2>3, <2>4 DEF OneExit, EndsBefore
  <2>6. ASSUME reading' = "control"
        PROVE  Carried(missed)' /\ Handed' = 0 /\ exit_buffer' = <<>> /\ BufferHeard(missed)'
    <3>1. PICK c \in Nat : c = missed
      BY <1>1
    <3>2. Carried(c) /\ Handed = 0 /\ exit_buffer = <<>> /\ BufferHeard(c)
      BY <2>1, <2>6, <3>1 DEF StreamInv
    <3>3. Carried(c)' /\ BufferHeard(c)'
      BY <1>1, <1>6, <2>1, <3>2, CarriedSaid
    <3>4. Carried(missed)' /\ BufferHeard(missed)'
      BY <1>0, <3>1, <3>3 DEF Carried, BufferHeard
    <3> QED
      BY <2>1, <2>3, <3>2, <3>4
  <2> QED
    BY <1>0, <1>1, <1>2, <1>6, <2>1, <2>3, <2>5, <2>6 DEF StreamInv
<1>7. CASE LinkLost \/ Indicate
  <2>1. Say(IndLine) /\ IndLine \in Seq(Symbol) /\ Heard'
    BY <1>1, <1>7, HeardKept, Symbols DEF LinkLost, Indicate
  <2>2. heard' = heard \o IndLine
    BY <1>1, <2>1, Said
  <2>3. ASSUME NEW i \in 1..(Len(heard') - 2), ExitAt(heard', i)
        PROVE  i \in 1..(Len(heard) - 2) /\ ExitAt(heard, i) /\ UNCHANGED in_data
    <3>1. i \in 1..(Len(heard) - 2) /\ ExitAt(heard, i)
      BY <1>1, <2>2, <2>3, ExitBeforeInd
    <3>2. ~in_data
      BY <1>1, <3>1 DEF OneExit
    <3> QED
      BY <1>7, <3>1, <3>2 DEF LinkLost, Indicate
  <2> QED
    BY <1>6, <2>1, <2>3
<1>8. CASE Notify
  <2>1. Heard' /\ NoExitIn(heard')
    BY <1>1, <1>8, HeardKept
  <2>2. peer # <<>> /\ peer \in Seq(Byte) /\ Say(<<Head(peer)>>)
    BY <1>8 DEF Notify, TypeInv
  <2>3. <<Head(peer)>> \in Seq(Symbol)
    BY <2>2, Taken, Symbols
  <2> QED
    BY <1>6, <2>1, <2>2, <2>3 DEF NoExitIn
<1>9. CASE AnswerEscape
  <2>1. /\ pc \in {"exit_wait"} /\ exit_pending
        /\ Say(IF in_data THEN Exited ELSE <<>>) /\ ~in_data'
    BY <1>1, <1>9 DEF AnswerEscape, RequestInv, InSession, FlagInv
  <2>2. CASE in_data
    <3>1. NoExitIn(heard)
      BY <1>1, <2>2 DEF OneExit, NoExitIn
    <3>2. Say(Exited) /\ Exited \in Seq(Symbol)
      BY <2>1, <2>2, Symbols
    <3>3. /\ heard' = heard \o Exited /\ Len(heard') = Len(heard) + Len(Exited)
          /\ \A i \in 1..Len(heard) : heard'[i] = heard[i]
      BY <1>1, <3>2, Said
    <3>4. Heard'
      <4>1. Free(heard')
        BY <1>1, <3>2, LacksSaid, TextsFree DEF Heard, Free
      <4>2. heard' # <<>> /\ heard'[1] = "n"
        <5>1. 1 \in 1..Len(heard)
          BY <1>1, Lengths
        <5>2. heard'[1] = heard[1] /\ Len(heard') # 0
          BY <1>1, <3>3, <5>1, ExitLine
        <5> QED
          BY <1>1, <5>2, Empty DEF Heard
      <4> QED
        BY <1>0, <1>1, <2>1, <4>1, <4>2 DEF Heard
    <3>5. ASSUME NEW i \in 1..(Len(heard') - 2), ExitAt(heard', i)
          PROVE  /\ NoExitIn(heard) /\ i = Len(heard) + 1 /\ i + 3 = Len(heard')
                 /\ heard'[i + 2] = "r" /\ heard'[i + 3] = "n"
                 /\ exit_pending /\ ~in_data'
      BY <1>1, <2>1, <3>1, <3>3, <3>5, ExitSaid
    <3> QED
      BY <1>6, <3>2, <3>4, <3>5
  <2>3. CASE ~in_data
    <3>1. Say(<<>>) /\ <<>> \in Seq(Symbol) /\ UNCHANGED in_data
      <4>1. in_data = FALSE /\ in_data' = FALSE
        BY <1>9, <2>3 DEF AnswerEscape, TypeInv
      <4> QED
        BY <2>1, <2>3, <4>1, Symbols
    <3>2. /\ Len(heard') = Len(heard) /\ heard' \in Seq(Symbol)
          /\ \A i \in 1..Len(heard) : heard'[i] = heard[i]
      <4>1. Len(heard') = Len(heard) + Len(<<>>) /\ heard' \in Seq(Symbol)
            /\ \A i \in 1..Len(heard) : heard'[i] = heard[i]
        BY <1>1, <3>1, Said
      <4> QED
        BY <1>1, <4>1, Empty
    <3>3. heard' = heard
      BY <1>1, <3>2, SameSequence
    <3>4. Heard'
      BY <1>0, <1>1, <2>1, <3>3 DEF Heard
    <3> QED
      BY <1>6, <3>1, <3>3, <3>4
  <2> QED
    BY <2>2, <2>3
<1> QED
  BY <1>4, <1>5, <1>7, <1>8, <1>9

\* The chunk and the input that are read of a session.
LEMMA StreamRead ==
    ASSUME TypeInv, FlagInv, StreamInv, data_mode, ReadData
    PROVE  StreamInv'
<1>0. /\ UNCHANGED <<exit_buffer, data_mode, exit_pending, delivered, mark, heard, missed,
                     exited, in_data, peer>>
      /\ reading = "data" /\ reading' = "handle" /\ chunk = <<>> /\ ~exited
  BY DEF ReadData, Others, FlagInv, flags, history
<1>1. PICK k \in 1..Len(input) : chunk' = Take(input, k) /\ input' = Drop(input, k)
  BY DEF ReadData
<1>2. /\ Len(input) \in Nat /\ Len(heard) \in Nat /\ Len(exit_buffer) \in Nat
      /\ Handed \in Nat /\ Len(chunk) = 0 /\ missed \in Nat /\ k \in 0..Len(input)
      /\ Handed' = Handed /\ input \in Seq(Symbol) /\ Heard /\ OneExit
  BY <1>0, <1>1, Sizes, Empty DEF Handed, TypeInv, StreamInv
<1>3. /\ Len(chunk') = k /\ \A i \in 1..k : chunk'[i] = input[i]
      /\ Len(input') = Len(input) - k
      /\ \A i \in 1..(Len(input) - k) : input'[i] = input[k + i]
  <2>1. k \in 0..Len(input) /\ input \in Seq(Symbol)
    BY <1>2
  <2>2. Len(chunk') = k /\ \A i \in 1..k : chunk'[i] = input[i]
    BY <1>1, <2>1, Taking
  <2>3. /\ Len(input') = Len(input) - k
        /\ \A i \in 1..(Len(input) - k) : input'[i] = input[k + i]
    BY <1>1, <2>1, Dropping
  <2> QED
    BY <2>2, <2>3
<1>4. PICK b \in {missed, missed + 1} : Carried(b) /\ EndsBefore(b)
  BY DEF StreamInv
<1>5. PICK c \in Nat : c = b + Handed + Len(exit_buffer)
  BY <1>2
<1>6. /\ c + Len(input) = Len(heard)
      /\ \A j \in 1..Handed : delivered[mark + j] = heard[b + j]
      /\ \A j \in 1..Len(exit_buffer) : exit_buffer[j] = heard[b + Handed + j]
      /\ \A j \in 1..Len(input) : input[j] = heard[c + j]
  <2>1. c + Len(chunk) = c
    BY <1>2
  <2> QED
    BY <1>2, <1>4, <1>5, <2>1 DEF Carried
<1>7. \A j \in 1..Len(chunk') : chunk'[j] = heard[c + j]
  <2>1. ASSUME NEW j \in 1..Len(chunk')
        PROVE  chunk'[j] = heard[c + j]
    <3>1. j \in 1..k /\ j \in 1..Len(input)
      BY <1>2, <1>3
    <3> QED
      BY <1>3, <1>6, <3>1
  <2> QED
    BY <2>1
<1>8. \A j \in 1..Len(input') : input'[j] = heard[c + Len(chunk') + j]
  <2>1. ASSUME NEW j \in 1..Len(input')
        PROVE  input'[j] = heard[c + Len(chunk') + j]
    <3>1. /\ j \in 1..(Len(input) - k) /\ k + j \in 1..Len(input)
          /\ c + Len(chunk') + j = c + (k + j)
      BY <1>2, <1>3
    <3> QED
      BY <1>3, <1>6, <3>1
  <2> QED
    BY <2>1
<1>9. c + Len(chunk') + Len(input') = Len(heard)
  BY <1>2, <1>3, <1>6
<1>10. Carried(b)'
  BY <1>0, <1>2, <1>5, <1>6, <1>7, <1>8, <1>9 DEF Carried
<1>11. EndsBefore(b)'
  BY <1>0, <1>2, <1>4 DEF EndsBefore
<1>12. Heard' /\ OneExit'
  BY <1>0, <1>2 DEF Heard, OneExit
<1> QED
  BY <1>0, <1>2, <1>4, <1>10, <1>11, <1>12 DEF StreamInv

\* What is handed over is a beginning of the exit buffer and the chunk; the rest is held
\* back.
LEMMA StreamHanded ==
    ASSUME TypeInv, FlagInv, StreamInv, data_mode, reading = "handle", reading' = "no",
           NEW n \in 0..Len(Extended),
           Deliver(Take(Extended, n)), exit_buffer' = Drop(Extended, n), chunk' = <<>>,
           UNCHANGED <<input, in_data, peer, data_mode, exit_pending, exited>>,
           \A p \in 1..n : \A b \in Nat : Carried(b) =>
              ~(b + Handed + p \in 1..(Len(heard) - 2) /\ ExitAt(heard, b + Handed + p))
    PROVE  StreamInv'
<1>1. /\ Len(input) \in Nat /\ Len(heard) \in Nat /\ Len(Extended) \in Nat /\ n \in Nat
      /\ Handed \in Nat /\ mark \in Nat /\ Len(delivered) = mark + Handed /\ missed \in Nat
      /\ Extended \in Seq(Symbol) /\ delivered \in Seq(Symbol) /\ Heard /\ OneExit /\ ~exited
      /\ n <= Len(Extended)
  BY Sizes, ExtendedRead DEF Handed, TypeInv, StreamInv, FlagInv
<1>2. PICK b \in {missed, missed + 1} : Carried(b) /\ EndsBefore(b)
  BY DEF StreamInv
<1>3. /\ b \in Nat
      /\ b + Handed + Len(Extended) + Len(input) = Len(heard)
      /\ \A j \in 1..Len(Extended) : Extended[j] = heard[b + Handed + j]
  BY <1>1, <1>2, ExtendedCarried
<1> DEFINE data == Take(Extended, n)
<1>4. /\ data \in Seq(Symbol) /\ Len(data) = n /\ \A i \in 1..n : data[i] = Extended[i]
  BY <1>1, Taking
<1>5. /\ Len(exit_buffer') = Len(Extended) - n
      /\ \A i \in 1..(Len(Extended) - n) : exit_buffer'[i] = Extended[n + i]
  BY <1>1, Dropping
<1>6. UNCHANGED <<mark, heard, missed>> /\ delivered' = delivered \o data
  BY DEF Deliver
<1> HIDE DEF data
<1>7. /\ Len(delivered') = Len(delivered) + n
      /\ \A i \in 1..Len(delivered) : delivered'[i] = delivered[i]
      /\ \A i \in 1..n : delivered'[Len(delivered) + i] = data[i]
  <2>1. delivered \in Seq(Symbol) /\ data \in Seq(Symbol)
    BY <1>1, <1>4
  <2>2. /\ Len(delivered') = Len(delivered) + Len(data)
        /\ \A i \in 1..Len(delivered) : delivered'[i] = delivered[i]
        /\ \A i \in 1..Len(data) : delivered'[Len(delivered) + i] = data[i]
    BY <1>6, <2>1, Joined
  <2> QED
    BY <1>4, <2>2
<1>8. Handed' = Handed + n
  BY <1>1, <1>6, <1>7 DEF Handed
<1>9. ASSUME NEW j \in 1..Handed'
      PROVE  delivered'[mark + j] = heard[b + j]
  <2>1. CASE j \in 1..Handed
    <3>1. mark + j \in 1..Len(delivered)
      BY <1>1, <2>1
    <3>2. delivered[mark + j] = heard[b + j]
      BY <1>2, <2>1 DEF Carried
    <3> QED
      BY <1>7, <3>1, <3>2
  <2>2. CASE j > Handed
    <3> DEFINE i == j - Handed
    <3>1. j \in Nat /\ j > Handed /\ j <= Handed + n /\ i + Handed = j
      BY <1>1, <1>8, <2>2
    <3> HIDE DEF i
    <3>2. i \in Int
      BY <1>1, <3>1 DEF i
    <3>3. i \in 1..n /\ i \in 1..Len(Extended)
      BY <1>1, <3>1, <3>2
    <3>4. Len(delivered) + i = mark + j /\ b + Handed + i = b + j
      BY <1>1, <1>3, <3>1, <3>2
    <3>5. delivered'[Len(delivered) + i] = Extended[i]
      BY <1>4, <1>7, <3>3
    <3>6. Extended[i] = heard[b + Handed + i]
      BY <1>3, <3>3
    <3> QED
      BY <3>4, <3>5, <3>6
  <2> QED
    BY <1>1, <1>8, <2>1, <2>2
<1>10. ASSUME NEW j \in 1..Len(exit_buffer')
       PROVE  exit_buffer'[j] = heard[b + Handed' + j]
  <2>1. /\ n + j \in 1..Len(Extended) /\ j \in 1..(Len(Extended) - n)
        /\ b + Handed + (n + j) = b + Handed' + j
    BY <1>1, <1>3, <1>5, <1>8
  <2> QED
    BY <1>3, <1>5, <2>1
<1>11. Len(chunk') = 0
  BY Empty
<1>12. PICK c \in Nat : c = b + Handed' + Len(exit_buffer') + Len(chunk')
  <2>1. Handed' \in Nat /\ Len(exit_buffer') \in Nat
    BY <1>1, <1>5, <1>8
  <2> QED
    BY <1>3, <1>11, <2>1
<1>13. c = b + Handed + Len(Extended)
  BY <1>1, <1>3, <1>5, <1>8, <1>11, <1>12
<1>14. ASSUME NEW j \in 1..Len(input)
       PROVE  input[j] = heard[c + j]
  <2>1. Len(Extended) = Len(exit_buffer) + Len(chunk)
    BY ExtendedRead
  <2>2. c = b + Handed + Len(exit_buffer) + Len(chunk)
    BY <1>1, <1>3, <1>13, <2>1, Sizes
  <2> QED
    BY <1>2, <2>2 DEF Carried
<1>15. Carried(b)'
  <2>1. c + Len(input) = Len(heard)
    BY <1>3, <1>13
  <2>2. b + Handed' + Len(exit_buffer') + Len(chunk') + Len(input') = Len(heard')
    BY <1>6, <1>12, <2>1
  <2>3. \A j \in 1..Len(input') :
           input'[j] = heard'[b + Handed' + Len(exit_buffer') + Len(chunk') + j]
    BY <1>6, <1>12, <1>14
  <2>4. \A j \in 1..Handed' : delivered'[mark' + j] = heard'[b + j]
    BY <1>6, <1>9
  <2>5. \A j \in 1..Len(exit_buffer') : exit_buffer'[j] = heard'[b + Handed' + j]
    BY <1>6, <1>10
  <2>6. \A j \in 1..Len(chunk') :
           chunk'[j] = heard'[b + Handed' + Len(exit_buffer') + j]
    BY <1>11
  <2> QED
    BY <2>2, <2>3, <2>4, <2>5, <2>6 DEF Carried
<1>16. EndsBefore(b)'
  <2>1. ASSUME NEW i \in 1..(Len(heard) - 2), ExitAt(heard, i), i > b
        PROVE  i > b + Handed + n
    <3>1. i > b + Handed
      BY <1>2, <2>1 DEF EndsBefore
    <3>2. CASE i <= b + Handed + n
      <4> DEFINE p == i - (b + Handed)
      <4>1. p \in 1..n /\ b + Handed + p = i
        BY <1>1, <1>3, <3>1, <3>2
      <4> HIDE DEF p
      <4> QED
        BY <1>2, <1>3, <2>1, <4>1
    <3> QED
      BY <1>1, <1>3, <3>2
  <2>2. b + Handed' = b + Handed + n
    BY <1>1, <1>3, <1>8
  <2> QED
    BY <1>6, <2>1, <2>2 DEF EndsBefore
<1>17. Heard' /\ OneExit'
  BY <1>1, <1>6 DEF Heard, OneExit
<1> QED
  BY <1>1, <1>2, <1>6, <1>15, <1>16, <1>17 DEF StreamInv

LEMMA StreamHandled ==
    ASSUME TypeInv, FlagInv, StreamInv, HandleStream
    PROVE  StreamInv'
<1>1. /\ reading = "handle" /\ ~exit_pending /\ data_mode /\ exit_buffer = <<>>
      /\ Deliver(chunk) /\ chunk' = <<>> /\ reading' = "no"
      /\ UNCHANGED <<input, exit_buffer, in_data, peer, data_mode, exit_pending, exited>>
  BY DEF HandleStream, Others, FlagInv, flags
<1>2. Extended \in Seq(Symbol) /\ chunk \in Seq(Symbol) /\ Len(Extended) \in Nat
  BY ExtendedRead, Sizes DEF TypeInv
<1> DEFINE n == Len(Extended)
<1>3. n \in 0..Len(Extended)
  BY <1>2
<1>4. Take(Extended, n) = chunk
  <2>1. Len(exit_buffer) = 0 /\ Len(chunk) \in Nat
    BY <1>1, Sizes, Empty
  <2>2. n = Len(chunk) /\ \A i \in 1..Len(chunk) : Extended[i] = chunk[i]
    <3>1. /\ Len(Extended) = Len(exit_buffer) + Len(chunk)
          /\ \A i \in 1..Len(chunk) : Extended[Len(exit_buffer) + i] = chunk[i]
      BY ExtendedRead
    <3> QED
      BY <2>1, <3>1
  <2>3. /\ Take(Extended, n) \in Seq(Symbol) /\ Len(Take(Extended, n)) = n
        /\ \A i \in 1..n : Take(Extended, n)[i] = Extended[i]
    BY <1>2, <1>3, Taking
  <2> HIDE DEF n
  <2>4. \A i \in 1..Len(chunk) : Take(Extended, n)[i] = chunk[i]
    BY <2>2, <2>3
  <2> QED
    BY <1>2, <2>2, <2>3, <2>4, SameSequence
<1>5. Drop(Extended, n) = <<>>
  <2>1. Drop(Extended, n) \in Seq(Symbol) /\ Len(Drop(Extended, n)) = Len(Extended) - n
    BY <1>2, <1>3, Dropping
  <2>2. Len(Drop(Extended, n)) = 0
    BY <1>2, <2>1
  <2> QED
    BY <2>1, <2>2, Lengths
<1>6. \A i \in 1..(Len(heard) - 2) : ~ExitAt(heard, i)
  BY <1>1 DEF StreamInv, OneExit
<1> HIDE DEF n
<1> QED
  BY <1>1, <1>3, <1>4, <1>5, <1>6, StreamHanded

\* Without the exit line in the buffer, only a beginning of it can be at the end.
LEMMA StreamFlushed ==
    ASSUME TypeInv, FlagInv, StreamInv, HandleNoExit
    PROVE  StreamInv'
<1> DEFINE h == PendingExitPrefixLen(Extended)
           n == Len(Extended) - h
<1>1. /\ reading = "handle" /\ exit_pending /\ data_mode /\ FindExit(Extended) = 0
      /\ Deliver(Take(Extended, n)) /\ exit_buffer' = Drop(Extended, n)
      /\ chunk' = <<>> /\ reading' = "no"
      /\ UNCHANGED <<input, in_data, peer, data_mode, exit_pending, exited>>
  BY DEF HandleNoExit, Others, FlagInv, flags
<1>2. Extended \in Seq(Symbol) /\ Len(Extended) \in Nat /\ missed \in Nat /\ OneExit
  BY <1>1, ExtendedRead, Sizes DEF StreamInv
<1>3. /\ h \in 0..3 /\ h <= Len(Extended)
      /\ \A k \in 1..3 :
            k <= Len(Extended) /\ (\A i \in 1..k : Extended[Len(Extended) - k + i] = Exited[i])
            => k <= h
  BY <1>2, PrefixHeld
<1>4. \A i \in 1..(Len(Extended) - 3) : ~WholeAt(Extended, i)
  BY <1>1, ExitFound
<1> HIDE DEF h
<1>5. n \in 0..Len(Extended) /\ n + h = Len(Extended) /\ n \in Nat
  BY <1>2, <1>3
<1> HIDE DEF n
<1>6. ASSUME NEW p \in 1..n, NEW b \in Nat, Carried(b),
             b + Handed + p \in 1..(Len(heard) - 2), ExitAt(heard, b + Handed + p)
      PROVE  FALSE
  <2>1. /\ b + Handed + Len(Extended) + Len(input) = Len(heard)
        /\ \A j \in 1..Len(Extended) : Extended[j] = heard[b + Handed + j]
        /\ Handed \in Nat /\ Len(heard) \in Nat /\ p \in 1..Len(Extended)
    <3>1. Handed \in Nat /\ Len(heard) \in Nat
      BY <1>1, Sizes
    <3>2. p \in 1..Len(Extended)
      BY <1>2, <1>3, <1>5, <1>6
    <3> QED
      BY <1>6, <3>1, <3>2, ExtendedCarried
  <2> DEFINE at == b + Handed + p
  <2>2. /\ heard[at] = "+" /\ heard[at + 1] = "0" /\ heard[at + 2] = "r"
        /\ heard[at + 3] = "n"
    BY <1>2, <1>6 DEF ExitAt, OneExit
  <2>3. ASSUME NEW i \in 0..3, p + i <= Len(Extended)
        PROVE  Extended[p + i] = Exited[i + 1]
    <3>1. p + i \in 1..Len(Extended) /\ b + Handed + (p + i) = at + i
      BY <1>2, <2>1, <2>3
    <3>2. Extended[p + i] = heard[at + i]
      BY <2>1, <3>1
    <3> HIDE DEF at
    <3>3. at + 0 = at
      BY <2>1 DEF at
    <3>4. i = 0 \/ i = 1 \/ i = 2 \/ i = 3
      OBVIOUS
    <3> QED
      BY <2>2, <3>2, <3>3, <3>4, ExitLine
  <2> HIDE DEF at
  <2>4. CASE p + 3 <= Len(Extended)
    <3>1. p \in 1..(Len(Extended) - 3) /\ p + 0 = p
      BY <1>2, <2>1, <2>4
    <3>2. /\ p + 0 <= Len(Extended) /\ p + 1 <= Len(Extended) /\ p + 2 <= Len(Extended)
      BY <1>2, <2>1, <2>4
    <3>3. /\ Extended[p + 0] = Exited[0 + 1] /\ Extended[p + 1] = Exited[1 + 1]
          /\ Extended[p + 2] = Exited[2 + 1] /\ Extended[p + 3] = Exited[3 + 1]
      BY <2>3, <2>4, <3>2
    <3>4. WholeAt(Extended, p)
      BY <3>1, <3>3, ExitLine DEF WholeAt
    <3> QED
      BY <1>4, <3>1, <3>4
  <2>5. CASE p + 3 > Len(Extended)
    <3> DEFINE k == Len(Extended) - p + 1
    <3>1. /\ k \in 1..3 /\ k <= Len(Extended) /\ Len(Extended) - k + 1 = p
          /\ p + k = Len(Extended) + 1
      BY <1>2, <2>1, <2>5
    <3> HIDE DEF k
    <3>2. ASSUME NEW i \in 1..k
          PROVE  Extended[Len(Extended) - k + i] = Exited[i]
      <4> DEFINE m == i - 1
      <4>1. m \in 0..3 /\ p + m <= Len(Extended) /\ m + 1 = i
        BY <1>2, <2>1, <3>1
      <4>2. Len(Extended) - k + i = p + m
        BY <1>2, <2>1, <3>1
      <4> HIDE DEF m
      <4>3. Extended[p + m] = Exited[m + 1]
        BY <2>3, <4>1
      <4> QED
        BY <4>1, <4>2, <4>3
    <3>3. k <= h
      BY <1>3, <3>1, <3>2
    <3> QED
      BY <1>2, <1>3, <1>5, <2>1, <3>1, <3>3
  <2> QED
    BY <1>2, <2>1, <2>4, <2>5
<1> QED
  BY <1>1, <1>5, <1>6, StreamHanded

\* With it, what is in front of it is handed over, and the session ends.
LEMMA StreamExited ==
    ASSUME TypeInv, FlagInv, StreamInv, HandleExit
    PROVE  StreamInv'
<1> DEFINE at == FindExit(Extended)
<1>1. /\ reading = "handle" /\ exit_pending /\ data_mode /\ at # 0
      /\ Deliver(Take(Extended, at - 1)) /\ data_mode' = FALSE
  BY DEF HandleExit, FlagInv
<1>2. at \in 1..(Len(Extended) - 3) /\ WholeAt(Extended, at)
  BY <1>1, ExitFound
<1> HIDE DEF at
<1>3. /\ Extended \in Seq(Symbol) /\ Len(Extended) \in Nat /\ missed \in Nat
      /\ delivered \in Seq(Symbol) /\ heard \in Seq(Symbol) /\ Len(heard) \in Nat
      /\ Handed \in Nat /\ mark \in Nat /\ Len(delivered) = mark + Handed
      /\ Len(input) \in Nat
  BY <1>1, ExtendedRead, Sizes DEF StreamInv, TypeInv, Handed
<1>4. PICK b \in {missed, missed + 1} : Carried(b)
  BY <1>1 DEF StreamInv
<1>5. /\ b \in Nat
      /\ b + Handed + Len(Extended) + Len(input) = Len(heard)
      /\ \A j \in 1..Len(Extended) : Extended[j] = heard[b + Handed + j]
      /\ \A j \in 1..Handed : delivered[mark + j] = heard[b + j]
  <2>1. b \in Nat
    BY <1>3, <1>4
  <2>2. \A j \in 1..Handed : delivered[mark + j] = heard[b + j]
    BY <1>4 DEF Carried
  <2> QED
    BY <1>4, <2>1, <2>2, ExtendedCarried
<1>6. PICK n \in Nat : n = at - 1
  BY <1>2, <1>3
<1>7. /\ n \in 0..Len(Extended) /\ n + 4 <= Len(Extended)
      /\ Extended[n + 1] = "+" /\ Extended[n + 2] = "0" /\ Extended[n + 3] = "r"
      /\ Extended[n + 4] = "n"
  <2>1. /\ n + 1 = at /\ n + 2 = at + 1 /\ n + 3 = at + 2 /\ n + 4 = at + 3
        /\ n \in 0..Len(Extended) /\ n + 4 <= Len(Extended)
    BY <1>2, <1>3, <1>6
  <2> QED
    BY <1>2, <2>1 DEF WholeAt
<1> DEFINE part == Take(Extended, n)
<1>8. /\ part \in Seq(Symbol) /\ Len(part) = n /\ \A i \in 1..n : part[i] = Extended[i]
  BY <1>3, <1>7, Taking
<1>9. UNCHANGED <<mark, heard, missed>> /\ delivered' = delivered \o part
  BY <1>1, <1>6 DEF Deliver
<1> HIDE DEF part
<1>10. /\ delivered' \in Seq(Symbol) /\ Len(delivered') = mark + Handed + n
       /\ \A i \in 1..Len(delivered) : delivered'[i] = delivered[i]
       /\ \A i \in 1..n : delivered'[Len(delivered) + i] = part[i]
  <2>1. /\ delivered' \in Seq(Symbol) /\ Len(delivered') = Len(delivered) + Len(part)
        /\ \A i \in 1..Len(delivered) : delivered'[i] = delivered[i]
        /\ \A i \in 1..Len(part) : delivered'[Len(delivered) + i] = part[i]
    <3>1. delivered \in Seq(Symbol) /\ part \in Seq(Symbol)
      BY <1>3, <1>8
    <3> QED
      BY <1>9, <3>1, Joined
  <2> QED
    BY <1>3, <1>8, <2>1
<1> DEFINE data == Drop(delivered', mark)
           session == Drop(heard, b)
<1>11. /\ data \in Seq(Symbol) /\ Len(data) = Handed + n
       /\ \A i \in 1..(Handed + n) : data[i] = delivered'[mark + i]
  <2>1. mark \in 0..Len(delivered') /\ Len(delivered') - mark = Handed + n
    BY <1>3, <1>10
  <2>2. /\ data \in Seq(Symbol) /\ Len(data) = Len(delivered') - mark
        /\ \A i \in 1..(Len(delivered') - mark) : data[i] = delivered'[mark + i]
    BY <1>10, <2>1, Dropping
  <2> HIDE DEF data
  <2> QED
    BY <2>1, <2>2
<1>12. /\ session \in Seq(Symbol) /\ Len(session) = Len(heard) - b
       /\ \A i \in 1..(Len(heard) - b) : session[i] = heard[b + i]
  <2>1. b \in 0..Len(heard)
    BY <1>3, <1>5
  <2> QED
    BY <1>3, <2>1, Dropping
<1> HIDE DEF data, session
<1>13. \A i \in 1..(Handed + n) : data[i] = session[i]
  <2>1. ASSUME NEW i \in 1..(Handed + n)
        PROVE  delivered'[mark + i] = heard[b + i]
    <3>1. CASE i \in 1..Handed
      <4>1. mark + i \in 1..Len(delivered)
        BY <1>3, <3>1
      <4> QED
        BY <1>5, <1>10, <3>1, <4>1
    <3>2. CASE i > Handed
      <4> DEFINE k == i - Handed
      <4>1. k \in 1..n /\ k + Handed = i
        BY <1>3, <3>2
      <4> HIDE DEF k
      <4>2. /\ k \in 1..Len(Extended) /\ Len(delivered) + k = mark + i
            /\ b + Handed + k = b + i
        BY <1>3, <1>5, <1>7, <4>1
      <4>3. delivered'[Len(delivered) + k] = Extended[k]
        BY <1>8, <1>10, <4>1
      <4>4. Extended[k] = heard[b + Handed + k]
        BY <1>5, <4>2
      <4> QED
        BY <4>2, <4>3, <4>4
    <3> QED
      BY <1>3, <3>1, <3>2
  <2>2. \A i \in 1..(Handed + n) : i \in 1..(Len(heard) - b)
    BY <1>3, <1>5, <1>7
  <2> QED
    BY <1>11, <1>12, <2>1, <2>2
<1>14. ASSUME NEW i \in 1..4
       PROVE  session[Handed + n + i] = Exited[i]
  <2>1. /\ n + i \in 1..Len(Extended) /\ Handed + n + i \in 1..(Len(heard) - b)
        /\ b + Handed + (n + i) = b + (Handed + n + i)
    BY <1>3, <1>5, <1>7
  <2>2. session[Handed + n + i] = Extended[n + i]
    <3>1. session[Handed + n + i] = heard[b + (Handed + n + i)]
      BY <1>12, <2>1
    <3>2. Extended[n + i] = heard[b + Handed + (n + i)]
      BY <1>5, <2>1
    <3> QED
      BY <2>1, <3>1, <3>2
  <2>3. i = 1 \/ i = 2 \/ i = 3 \/ i = 4
    OBVIOUS
  <2> QED
    BY <1>7, <2>2, <2>3, ExitLine
<1> DEFINE whole == data \o Exited
<1>15. /\ whole \in Seq(Symbol) /\ Len(whole) = Handed + n + 4
       /\ \A i \in 1..(Handed + n) : whole[i] = data[i]
       /\ \A i \in 1..4 : whole[Handed + n + i] = Exited[i]
  <2>1. /\ whole \in Seq(Symbol) /\ Len(whole) = Len(data) + Len(Exited)
        /\ \A i \in 1..Len(data) : whole[i] = data[i]
        /\ \A i \in 1..Len(Exited) : whole[Len(data) + i] = Exited[i]
    <3>1. data \in Seq(Symbol) /\ Exited \in Seq(Symbol)
      BY <1>11, Symbols
    <3> QED
      BY <3>1, Joined
  <2> HIDE DEF whole
  <2> QED
    BY <1>11, <2>1, ExitLine
<1> HIDE DEF whole
<1>16. Len(whole) \in 0..Len(session) /\ Len(whole) <= Len(session)
  BY <1>3, <1>5, <1>7, <1>12, <1>15
<1>17. ASSUME NEW i \in 1..Len(whole)
       PROVE  session[i] = whole[i]
  <2>1. CASE i \in 1..(Handed + n)
    BY <1>13, <1>15, <2>1
  <2>2. CASE i > Handed + n
    <3> DEFINE k == i - (Handed + n)
    <3>1. k \in 1..4 /\ Handed + n + k = i
      BY <1>3, <1>15, <2>2
    <3> HIDE DEF k
    <3> QED
      BY <1>14, <1>15, <3>1
  <2> QED
    BY <1>3, <1>15, <2>1, <2>2
<1>18. Take(session, Len(whole)) = whole
  <2>1. /\ Take(session, Len(whole)) \in Seq(Symbol)
        /\ Len(Take(session, Len(whole))) = Len(whole)
        /\ \A i \in 1..Len(whole) : Take(session, Len(whole))[i] = session[i]
    BY <1>12, <1>16, Taking
  <2> QED
    BY <1>15, <1>17, <2>1, SameSequence
<1>19. IsPrefix(Drop(delivered', mark) \o Exited, Drop(heard, b))
  BY <1>16, <1>18 DEF IsPrefix, whole, data, session
<1> QED
  BY <1>1, <1>4, <1>9, <1>19 DEF StreamInv

\* Outside data mode there is only the exit line to remember.
LEMMA StreamOver ==
    ASSUME StreamInv, ~data_mode',
           exited' => exited /\ UNCHANGED <<delivered, mark, heard, missed>>
    PROVE  StreamInv'
  BY DEF StreamInv

\* A step that moves no byte of the session.
LEMMA StreamKept ==
    ASSUME StreamInv, UNCHANGED <<in_data, peer, input, chunk, exit_buffer, line_buffer>>,
           UNCHANGED <<data_mode, history>>, exit_pending => exit_pending',
           reading' = "control" => ~data_mode \/ reading = "control"
    PROVE  StreamInv'
<1>1. UNCHANGED <<delivered, mark, heard, missed, exited>>
  BY DEF history
<1>2. Handed' = Handed /\ \A b \in Nat : BufferHeard(b)' <=> BufferHeard(b)
  BY <1>1 DEF Handed, BufferHeard
<1>3. Heard => Heard'
  BY <1>1 DEF Heard
<1>4. OneExit => OneExit'
  BY <1>1 DEF OneExit
<1>5. ASSUME NEW b, Carried(b)
      PROVE  Carried(b)'
  BY <1>1, <1>2, <1>5 DEF Carried
<1>6. ASSUME NEW b, EndsBefore(b)
      PROVE  EndsBefore(b)'
  BY <1>1, <1>2, <1>6 DEF EndsBefore
<1>7. BufferHeard(missed) => BufferHeard(missed)'
  BY <1>1 DEF BufferHeard
<1>8. Carried(missed) => Carried(missed)'
  BY <1>1, <1>2 DEF Carried
<1>9. ASSUME data_mode
      PROVE  /\ Heard' /\ OneExit' /\ missed' >= 0
             /\ \E b \in {missed', missed' + 1} : Carried(b)' /\ EndsBefore(b)'
             /\ reading' = "control" =>
                   /\ Carried(missed)' /\ Handed' = 0 /\ exit_buffer' = <<>>
                   /\ BufferHeard(missed)'
  <2>1. PICK b \in {missed, missed + 1} : Carried(b) /\ EndsBefore(b)
    BY <1>9 DEF StreamInv
  <2>2. b \in {missed', missed' + 1} /\ Carried(b)' /\ EndsBefore(b)'
    BY <1>1, <1>5, <1>6, <2>1
  <2>3. Heard' /\ OneExit' /\ missed' >= 0
    BY <1>1, <1>3, <1>4, <1>9 DEF StreamInv
  <2>4. ASSUME reading' = "control"
        PROVE  Carried(missed)' /\ Handed' = 0 /\ exit_buffer' = <<>> /\ BufferHeard(missed)'
    <3>1. Carried(missed) /\ Handed = 0 /\ exit_buffer = <<>> /\ BufferHeard(missed)
      BY <1>9, <2>4 DEF StreamInv
    <3> QED
      BY <1>2, <1>7, <1>8, <3>1
  <2> QED
    BY <2>2, <2>3, <2>4
<1>10. ASSUME exited'
       PROVE  \E b \in {missed', missed' + 1} :
                 IsPrefix(Drop(delivered', mark') \o Exited, Drop(heard', b))
  BY <1>1, <1>10 DEF StreamInv
<1> QED
  BY <1>9, <1>10 DEF StreamInv

\* The byte of a read that began before the flag was set is lost to the session.
LEMMA StreamLate ==
    ASSUME TypeInv, FlagInv, StreamInv, data_mode, ReadControl
    PROVE  StreamInv'
<1>1. /\ reading = "control" /\ reading' = "no" /\ input # <<>> /\ input' = Tail(input)
      /\ chunk = <<>> /\ ~exited
      /\ UNCHANGED <<chunk, exit_buffer, data_mode, exit_pending, in_data, peer>>
      /\ UNCHANGED <<delivered, mark, heard, missed, exited>>
  BY DEF ReadControl, Others, FlagInv, flags, history
<1>2. PICK c \in Nat : c = missed
  BY Sizes DEF StreamInv
<1>3. Carried(c) /\ Handed = 0 /\ exit_buffer = <<>> /\ Heard /\ OneExit
  BY <1>1, <1>2 DEF StreamInv
<1>4. /\ Len(input) \in Nat /\ Len(heard) \in Nat /\ Len(chunk) = 0 /\ Len(exit_buffer) = 0
  BY <1>1, <1>3, Sizes, Empty
<1>5. /\ c + Len(input) = Len(heard)
      /\ \A j \in 1..Len(input) : input[j] = heard[c + j]
  <2>1. c + Handed + Len(exit_buffer) + Len(chunk) = c
    BY <1>2, <1>3, <1>4
  <2> QED
    BY <1>3, <2>1 DEF Carried
<1>6. /\ Len(input') = Len(input) - 1
      /\ \A j \in 1..(Len(input) - 1) : input'[j] = input[j + 1]
  BY <1>1, Taken DEF TypeInv
<1>7. PICK b \in Nat : b = c + 1
  OBVIOUS
<1>8. \A j \in 1..Len(input') : input'[j] = heard[b + j]
  <2>1. ASSUME NEW j \in 1..Len(input')
        PROVE  input'[j] = heard[b + j]
    <3>1. j \in 1..(Len(input) - 1) /\ j + 1 \in 1..Len(input) /\ c + (j + 1) = b + j
      BY <1>4, <1>6, <1>7
    <3> QED
      BY <1>5, <1>6, <3>1
  <2> QED
    BY <2>1
<1>9. Handed' = 0 /\ Len(exit_buffer') = 0 /\ Len(chunk') = 0
  BY <1>1, <1>3, <1>4 DEF Handed
<1>10. b + Handed' + Len(exit_buffer') + Len(chunk') = b /\ b + Handed' = b
  BY <1>9
<1>11. Carried(b)'
  <2>1. b + Len(input') = Len(heard')
    BY <1>1, <1>4, <1>5, <1>6, <1>7
  <2>2. \A j \in 1..Len(input') : input'[j] = heard'[b + j]
    BY <1>1, <1>8
  <2> QED
    BY <1>9, <1>10, <2>1, <2>2 DEF Carried
<1>12. EndsBefore(b)'
  BY <1>10 DEF EndsBefore
<1>13. Heard' /\ OneExit'
  BY <1>1, <1>3 DEF Heard, OneExit
<1>14. b \in {missed', missed' + 1} /\ missed' >= 0
  BY <1>1, <1>2, <1>7
<1> QED
  BY <1>1, <1>11, <1>12, <1>13, <1>14 DEF StreamInv

\* The session begins with what is behind +IND=DATAMODE,1 and was not yet read.
LEMMA StreamBegins ==
    ASSUME TypeInv, FlagInv, EnterInv, pc = "entered_wait", EnterDone, data_mode'
    PROVE  StreamInv'
<1>1. /\ lines # <<>> /\ Head(lines) = "D1" /\ missed' = Consumed
      /\ UNCHANGED <<input, peer, in_data, chunk, exit_buffer, line_buffer, reading>>
      /\ UNCHANGED <<exit_pending, delivered, mark, heard, exited>>
      /\ ~data_mode /\ ~exit_pending /\ exit_buffer = <<>>
  BY DEF EnterDone, Skips, Waits, flags, firmware, reader, Consumed, FlagInv, InSession
<1>2. /\ Behind /\ Heard /\ NoExitIn(heard) /\ mark = Len(delivered)
      /\ chunk = <<>> /\ ~exited
  BY <1>1, EnteredFree DEF EnterInv, Entering, Heard, FlagInv
<1>3. /\ Len(input) \in Nat /\ Len(heard) \in Nat /\ Len(chunk) = 0 /\ Len(exit_buffer) = 0
      /\ Handed = 0
  BY <1>1, <1>2, Sizes, Empty DEF Handed
<1>4. PICK c \in Nat : c = Consumed
  <2>1. Consumed >= 0
    BY <1>2 DEF Behind
  <2>2. Consumed \in Int
    BY <1>3 DEF Consumed
  <2> QED
    BY <2>1, <2>2
<1>5. /\ c + Len(input) = Len(heard) /\ BufferHeard(c)
      /\ \A j \in 1..Len(input) : input[j] = heard[c + j]
  BY <1>2, <1>3, <1>4 DEF Behind, Consumed
<1>6. Handed' = 0 /\ Len(exit_buffer') = 0 /\ Len(chunk') = 0
  BY <1>1, <1>3 DEF Handed
<1>7. c + Handed' + Len(exit_buffer') + Len(chunk') = c /\ c + Handed' = c
  BY <1>6
<1>8. Carried(c)'
  BY <1>1, <1>5, <1>6, <1>7 DEF Carried
<1>9. EndsBefore(c)' /\ BufferHeard(c)'
  BY <1>1, <1>5, <1>7 DEF EndsBefore, BufferHeard
<1>10. Heard' /\ OneExit'
  BY <1>1, <1>2 DEF Heard, OneExit, NoExitIn
<1>11. missed' = c /\ c \in {missed', missed' + 1} /\ missed' >= 0
  BY <1>1, <1>4
<1>12. Carried(missed)' /\ BufferHeard(missed)'
  BY <1>8, <1>9, <1>11 DEF Carried, BufferHeard
<1> QED
  BY <1>1, <1>2, <1>6, <1>8, <1>9, <1>10, <1>11, <1>12 DEF StreamInv

LEMMA StreamStep ==
    ASSUME TypeInv, PeerInv, FlagInv, RequestInv, AnswerInv, EnterInv, StreamInv, Next
    PROVE  StreamInv'
<1>1. CASE Firmware \/ Environment
  <2>1. CASE data_mode
    BY <1>1, <2>1, StreamSaid
  <2>2. CASE ~data_mode
    <3>1. UNCHANGED <<data_mode, delivered, mark, missed, exited>>
      BY <1>1, FirmwareKeeps DEF flags
    <3>2. ASSUME exited
          PROVE  heard' = heard
      <4>1. CASE AnswerEnter
        <5>1. pc = "enter_wait" /\ request = "ENTER"
          BY <4>1 DEF AnswerEnter, RequestInv
        <5> QED
          BY <3>2, <5>1 DEF AnswerInv
      <4>2. CASE EscapeMissed
        BY <4>2 DEF EscapeMissed, history
      <4>3. CASE AnswerAt \/ AnswerEscape \/ LinkLost \/ Notify \/ Indicate
        BY <3>2, <4>3 DEF AnswerAt, AnswerEscape, LinkLost, Notify, Indicate, Say
      <4> QED
        BY <1>1, <4>1, <4>2, <4>3 DEF Firmware, Environment
    <3> QED
      BY <2>2, <3>1, <3>2, StreamOver
  <2> QED
    BY <2>1, <2>2
<1>2. CASE ReadBegins \/ ReadTimesOut
  <2>1. /\ UNCHANGED <<in_data, peer, input, chunk, exit_buffer, line_buffer>>
        /\ UNCHANGED <<data_mode, history>>
        /\ exit_pending => exit_pending'
    BY <1>2 DEF ReadBegins, ReadTimesOut, Others, flags
  <2>2. reading' = "control" => ~data_mode \/ reading = "control"
    BY <1>2 DEF ReadBegins, ReadTimesOut
  <2> QED
    BY <2>1, <2>2, StreamKept, Zenon
<1>3. CASE ReadControl
  <2>1. CASE data_mode
    BY <1>3, <2>1, StreamLate
  <2>2. CASE ~data_mode
    <3>1. UNCHANGED <<data_mode, delivered, mark, heard, missed, exited>>
      BY <1>3 DEF ReadControl, flags, history
    <3> QED
      BY <2>2, <3>1, StreamOver
  <2> QED
    BY <2>1, <2>2
<1>4. CASE ReadData
  <2>1. data_mode
    BY <1>4 DEF ReadData, FlagInv
  <2> QED
    BY <1>4, <2>1, StreamRead
<1>5. CASE HandleStream
  BY <1>5, StreamHandled
<1>6. CASE HandleNoExit
  BY <1>6, StreamFlushed
<1>7. CASE HandleExit
  BY <1>7, StreamExited
<1>8. CASE HandleRest
  <2>1. ~data_mode /\ UNCHANGED <<data_mode, delivered, mark, heard, missed, exited>>
    BY <1>8 DEF HandleRest, FlagInv, flags, history
  <2> QED
    BY <2>1, StreamOver
<1>9. CASE SyncBegins \/ SyncWrites \/ RecoverResets \/ RecoverEscapes
  <2>1. ~data_mode' /\ UNCHANGED <<delivered, mark, heard, missed, exited>>
    BY <1>9
    DEF SyncBegins, SyncWrites, RecoverResets, RecoverEscapes, FlagInv, InSession, flags,
        history
  <2> QED
    BY <2>1, StreamOver
<1>10. CASE SyncDone \/ SyncFails \/ RecoverEscaped \/ EnterOk \/ ExitSeen \/ ExitFails
  <2>1. UNCHANGED <<firmware, reader, flags, history>>
    BY <1>10
    DEF SyncDone, SyncFails, RecoverEscaped, EnterOk, ExitSeen, ExitFails, Skips, Gets,
        TimesOut, Waits
  <2> QED
    BY <2>1, StreamKept DEF firmware, reader, flags
<1>11. CASE ExitWrites \/ ExitBegins \/ ExitAgain
  <2>1. /\ UNCHANGED <<in_data, peer, input, chunk, exit_buffer, line_buffer>>
        /\ UNCHANGED <<data_mode, history>>
        /\ exit_pending => exit_pending'
        /\ UNCHANGED reading
    BY <1>11 DEF ExitWrites, ExitBegins, ExitAgain, Writes, firmware, reader, flags
  <2> QED
    BY <2>1, StreamKept
<1>12. CASE EnterDone
  <2>1. CASE Skips("entered_wait", {"D1"})
    <3>1. UNCHANGED <<firmware, reader, flags, history>>
      BY <2>1 DEF Skips, Waits
    <3> QED
      BY <3>1, StreamKept DEF firmware, reader, flags
  <2>2. CASE ~Skips("entered_wait", {"D1"})
    <3>1. pc = "entered_wait" /\ data_mode'
      BY <1>12, <2>2 DEF EnterDone
    <3> QED
      BY <1>12, <3>1, StreamBegins
  <2> QED
    BY <2>1, <2>2
<1>13. CASE EnterWrites
  <2>1. ~data_mode' /\ ~exited'
    BY <1>13 DEF EnterWrites, FlagInv, InSession, flags
  <2> QED
    BY <2>1, StreamOver
<1>14. CASE StartedAgain \/ Killed
  <2>1. ~data_mode' /\ ~exited'
    BY <1>14 DEF StartedAgain, Killed, NewClient
  <2> QED
    BY <2>1, StreamOver
<1> QED
  BY <1>1, <1>2, <1>3, <1>4, <1>5, <1>6, <1>7, <1>8, <1>9, <1>10, <1>11, <1>12, <1>13,
     <1>14
  DEF Next, Reader, Caller

----------------------------------------------------------------------------
\* The invariant.
LEMMA InitInv == Init => Inv
<1> SUFFICES ASSUME Init PROVE Inv
  OBVIOUS
<1>1. /\ peer \in PeerStreams /\ peer \in Seq(Byte) /\ input = <<>> /\ chunk = <<>>
      /\ line_buffer = <<>> /\ exit_buffer = <<>> /\ lines = <<>>
      /\ request = "none" /\ reading = "no" /\ pc = "started"
      /\ data_mode = FALSE /\ exit_pending = FALSE /\ exited = FALSE
  BY StreamAssumption DEF Init
<1>2. TypeInv
  <2>1. <<>> \in Seq(Symbol) /\ <<>> \in Seq(Reports) /\ Len(<<>>) = 0
    BY Empty
  <2>2. sessions \in 0..MaxSessions /\ faults \in 0..MaxFaults
    BY BoundAssumption DEF Init
  <2>3. /\ delivered \in Seq(Symbol) /\ heard \in Seq(Symbol) /\ mark \in Nat
        /\ mark <= Len(delivered) /\ missed \in Int /\ in_data \in BOOLEAN
        /\ half_line \in BOOLEAN /\ recovering \in {"no", "first", "last"}
    <3>1. /\ delivered = <<>> /\ heard = <<>> /\ mark = 0 /\ missed = 0
          /\ in_data = FALSE /\ half_line = FALSE /\ recovering = "no"
      BY DEF Init
    <3>2. mark <= Len(delivered) /\ mark \in Nat /\ missed \in Int
      BY <2>1, <3>1
    <3> QED
      BY <2>1, <3>1, <3>2
  <2>4. pc \in Places
    BY <1>1 DEF Places
  <2> QED
    BY <1>1, <2>1, <2>2, <2>3, <2>4 DEF TypeInv
<1>3. PeerInv
  <2>1. /\ \A i \in 1..Len(peer) : peer[i] \notin {"OK", "ERR", "D1"}
        /\ \A i \in 1..(Len(peer) - 2) :
              ~(peer[i] = "+" /\ peer[i + 1] = "0" /\ peer[i + 2] \in {"r", "n"})
    BY <1>1, StreamAssumption
  <2> QED
    BY <2>1 DEF PeerInv, Free, Lacks, Answers, NoExitIn, ExitAt
<1>4. FlagInv
  BY <1>1, NothingHeld DEF FlagInv
<1>5. RequestInv
  BY <1>1 DEF RequestInv
<1>6. AnswerInv
  BY <1>1, NothingHeld DEF AnswerInv
<1>7. EnterInv
  BY <1>1 DEF EnterInv, Entering
<1>8. StreamInv
  BY <1>1 DEF StreamInv
<1> QED
  BY <1>2, <1>3, <1>4, <1>5, <1>6, <1>7, <1>8 DEF Inv

LEMMA InvStep == Inv /\ [Next]_vars => Inv'
<1> SUFFICES ASSUME Inv, [Next]_vars PROVE Inv'
  OBVIOUS
<1>0. /\ TypeInv /\ PeerInv /\ FlagInv /\ RequestInv /\ AnswerInv /\ EnterInv /\ StreamInv
  BY DEF Inv
<1>1. CASE Next
  <2>1. TypeInv'
    BY <1>0, <1>1, TypeStep
  <2>2. PeerInv'
    BY <1>0, <1>1, PeerStep
  <2>3. FlagInv'
    BY <1>0, <1>1, FlagStep
  <2>4. RequestInv'
    BY <1>0, <1>1, RequestStep
  <2>5. AnswerInv'
    BY <1>0, <1>1, AnswerStep
  <2>6. EnterInv'
    BY <1>0, <1>1, EnterStep
  <2>7. StreamInv'
    BY <1>0, <1>1, StreamStep
  <2> QED
    BY <2>1, <2>2, <2>3, <2>4, <2>5, <2>6, <2>7 DEF Inv
<1>2. CASE UNCHANGED vars
  <2>1. /\ UNCHANGED <<in_data, half_line, peer, request, input>>
        /\ UNCHANGED <<reading, chunk, line_buffer, exit_buffer>>
        /\ UNCHANGED <<data_mode, exit_pending, lines, pc, recovering, sessions, faults>>
        /\ UNCHANGED <<delivered, mark, heard, missed, exited>>
    BY <1>2 DEF vars, firmware, reader, flags, caller, bounds, history
  <2>2. TypeInv' /\ PeerInv' /\ FlagInv' /\ RequestInv'
    BY <1>0, <2>1 DEF TypeInv, PeerInv, FlagInv, InSession, RequestInv
  <2>3. AnswerInv'
    BY <1>0, <2>1 DEF AnswerInv, NoAnswer, OkIsLast, NoOk, InControl
  <2>4. EnterInv'
    BY <1>0, <2>1
    DEF EnterInv, Entering, Heard, Ahead, Within, Behind, Consumed, BufferHeard
  <2>5. StreamInv'
    <3>1. /\ UNCHANGED <<in_data, peer, input, chunk, exit_buffer, line_buffer>>
          /\ UNCHANGED <<data_mode, history>>
          /\ exit_pending => exit_pending'
          /\ UNCHANGED reading
      BY <2>1 DEF history
    <3> QED
      BY <1>0, <3>1, StreamKept
  <2> QED
    BY <2>2, <2>3, <2>4, <2>5 DEF Inv
<1> QED
  BY <1>1, <1>2

LEMMA InvAlways == Spec => []Inv
  BY InitInv, InvStep, PTL DEF Spec

----------------------------------------------------------------------------
\* What follows from it.

\* A part that continues a beginning of t makes a longer beginning of it.
LEMMA LongerBeginning ==
    ASSUME NEW S, NEW s \in Seq(S), NEW u \in Seq(S), NEW t,
           \A i \in 1..Len(s) : s[i] = t[i],
           \A i \in 1..Len(u) : u[i] = t[Len(s) + i]
    PROVE  /\ s \o u \in Seq(S) /\ Len(s \o u) = Len(s) + Len(u)
           /\ \A i \in 1..Len(s \o u) : (s \o u)[i] = t[i]
<1> DEFINE r == s \o u
<1>1. /\ r \in Seq(S) /\ Len(r) = Len(s) + Len(u)
      /\ \A i \in 1..Len(s) : r[i] = s[i]
      /\ \A i \in 1..Len(u) : r[Len(s) + i] = u[i]
  BY Joined
<1>2. Len(s) \in Nat /\ Len(u) \in Nat
  BY Lengths
<1> HIDE DEF r
<1>3. ASSUME NEW i \in 1..Len(r)
      PROVE  r[i] = t[i]
  <2>1. CASE i \in 1..Len(s)
    BY <1>1, <2>1
  <2>2. CASE i > Len(s)
    <3>1. PICK k \in 1..Len(u) : Len(s) + k = i
      <4>1. i - Len(s) \in 1..Len(u) /\ Len(s) + (i - Len(s)) = i
        BY <1>1, <1>2, <2>2
      <4> QED
        BY <4>1
    <3> QED
      BY <1>1, <3>1
  <2> QED
    BY <1>1, <1>2, <2>1, <2>2
<1> QED
  BY <1>1, <1>3 DEF r

LEMMA InvStreamExact == Inv => StreamExact
<1> SUFFICES ASSUME Inv PROVE StreamExact
  OBVIOUS
<1>0. TypeInv /\ FlagInv /\ StreamInv
  BY DEF Inv
<1>1. ASSUME NEW late \in 0..1,
             data_mode =>
                /\ Drop(delivered, mark) \o exit_buffer \o chunk \o input
                      = Drop(heard, missed + late)
                /\ FindExit(Drop(delivered, mark)) = 0,
             exited => IsPrefix(Drop(delivered, mark) \o Exited, Drop(heard, missed + late))
      PROVE  StreamExact
  BY <1>1 DEF StreamExact
<1>2. CASE ~data_mode /\ ~exited
  BY <1>1, <1>2
<1>3. CASE exited
  <2>1. ~data_mode
    BY <1>0, <1>3 DEF FlagInv
  <2>2. PICK b \in {missed, missed + 1} :
           IsPrefix(Drop(delivered, mark) \o Exited, Drop(heard, b))
    BY <1>0, <1>3 DEF StreamInv
  <2>3. PICK late \in 0..1 : b = missed + late
    BY <1>0, <2>2, Sizes
  <2> QED
    BY <1>1, <2>1, <2>2, <2>3
<1>4. CASE data_mode
  <2>1. PICK b \in {missed, missed + 1} : Carried(b) /\ EndsBefore(b)
    BY <1>0, <1>4 DEF StreamInv
  <2>2. PICK late \in 0..1 : b = missed + late
    BY <1>0, <2>1, Sizes
  <2>3. missed >= 0 /\ ~exited
    BY <1>0, <1>4 DEF StreamInv, FlagInv
  <2>4. /\ Len(heard) \in Nat /\ Len(input) \in Nat /\ Len(chunk) \in Nat
        /\ Len(exit_buffer) \in Nat /\ Handed \in Nat /\ mark \in Nat /\ b \in Nat
        /\ Len(delivered) = mark + Handed
    BY <1>0, <2>1, <2>3, Sizes DEF Handed
  <2>5. /\ delivered \in Seq(Symbol) /\ heard \in Seq(Symbol) /\ input \in Seq(Symbol)
        /\ chunk \in Seq(Symbol) /\ exit_buffer \in Seq(Symbol)
    BY <1>0 DEF TypeInv
  <2> DEFINE data == Drop(delivered, mark)
             session == Drop(heard, b)
  <2>6. /\ data \in Seq(Symbol) /\ Len(data) = Handed
        /\ \A i \in 1..Handed : data[i] = delivered[mark + i]
    <3>1. mark \in 0..Len(delivered) /\ Len(delivered) - mark = Handed
      BY <2>4
    <3> QED
      BY <2>5, <3>1, Dropping
  <2>7. /\ session \in Seq(Symbol) /\ Len(session) = Len(heard) - b
        /\ \A i \in 1..(Len(heard) - b) : session[i] = heard[b + i]
    <3>1. b + Handed + Len(exit_buffer) + Len(chunk) + Len(input) = Len(heard)
      BY <2>1 DEF Carried
    <3>2. b \in 0..Len(heard)
      BY <2>4, <3>1
    <3> QED
      BY <2>5, <3>2, Dropping
  <2> HIDE DEF data, session
  <2>8. /\ Handed + Len(exit_buffer) + Len(chunk) + Len(input) = Len(session)
        /\ \A i \in 1..Handed : data[i] = session[i]
        /\ \A i \in 1..Len(exit_buffer) : exit_buffer[i] = session[Handed + i]
        /\ \A i \in 1..Len(chunk) : chunk[i] = session[Handed + Len(exit_buffer) + i]
        /\ \A i \in 1..Len(input) :
              input[i] = session[Handed + Len(exit_buffer) + Len(chunk) + i]
    <3>1. /\ b + Handed + Len(exit_buffer) + Len(chunk) + Len(input) = Len(heard)
          /\ \A j \in 1..Handed : delivered[mark + j] = heard[b + j]
          /\ \A j \in 1..Len(exit_buffer) : exit_buffer[j] = heard[b + Handed + j]
          /\ \A j \in 1..Len(chunk) : chunk[j] = heard[b + Handed + Len(exit_buffer) + j]
          /\ \A j \in 1..Len(input) :
                input[j] = heard[b + Handed + Len(exit_buffer) + Len(chunk) + j]
      BY <2>1 DEF Carried
    <3>2. Handed + Len(exit_buffer) + Len(chunk) + Len(input) = Len(session)
      BY <2>4, <2>7, <3>1
    <3>3. ASSUME NEW i \in 1..Handed
          PROVE  data[i] = session[i]
      <4>1. i \in 1..(Len(heard) - b)
        BY <2>4, <3>1
      <4> QED
        BY <2>6, <2>7, <3>1, <4>1
    <3>4. ASSUME NEW i \in 1..Len(exit_buffer)
          PROVE  exit_buffer[i] = session[Handed + i]
      <4>1. b + (Handed + i) = b + Handed + i
        BY <2>4
      <4>2. Handed + i >= 1 /\ Handed + i <= Len(heard) - b
        BY <2>4, <3>1
      <4>3. Handed + i \in 1..(Len(heard) - b)
        BY <2>4, <4>2
      <4> QED
        BY <2>7, <3>1, <4>1, <4>3
    <3>5. ASSUME NEW i \in 1..Len(chunk)
          PROVE  chunk[i] = session[Handed + Len(exit_buffer) + i]
      <4>1. /\ Handed + Len(exit_buffer) + i \in 1..(Len(heard) - b)
            /\ b + (Handed + Len(exit_buffer) + i) = b + Handed + Len(exit_buffer) + i
        BY <2>4, <3>1
      <4> QED
        BY <2>7, <3>1, <4>1
    <3>6. ASSUME NEW i \in 1..Len(input)
          PROVE  input[i] = session[Handed + Len(exit_buffer) + Len(chunk) + i]
      <4>1. /\ Handed + Len(exit_buffer) + Len(chunk) + i \in 1..(Len(heard) - b)
            /\ b + (Handed + Len(exit_buffer) + Len(chunk) + i)
                  = b + Handed + Len(exit_buffer) + Len(chunk) + i
        BY <2>4, <3>1
      <4> QED
        BY <2>7, <3>1, <4>1
    <3> QED
      BY <3>2, <3>3, <3>4, <3>5, <3>6
  <2>9. PICK s2 : s2 = data \o exit_buffer
    OBVIOUS
  <2>10. PICK s3 : s3 = s2 \o chunk
    OBVIOUS
  <2>11. PICK s4 : s4 = s3 \o input
    OBVIOUS
  <2>12. /\ s2 \in Seq(Symbol) /\ Len(s2) = Handed + Len(exit_buffer)
         /\ \A i \in 1..Len(s2) : s2[i] = session[i]
    <3>1. /\ data \in Seq(Symbol) /\ exit_buffer \in Seq(Symbol)
          /\ \A i \in 1..Len(data) : data[i] = session[i]
          /\ \A i \in 1..Len(exit_buffer) : exit_buffer[i] = session[Len(data) + i]
      BY <2>5, <2>6, <2>8
    <3>2. /\ s2 \in Seq(Symbol) /\ Len(s2) = Len(data) + Len(exit_buffer)
          /\ \A i \in 1..Len(s2) : s2[i] = session[i]
      BY <2>9, <3>1, LongerBeginning
    <3> QED
      BY <2>6, <2>8, <3>2
  <2>13. /\ s3 \in Seq(Symbol) /\ Len(s3) = Handed + Len(exit_buffer) + Len(chunk)
         /\ \A i \in 1..Len(s3) : s3[i] = session[i]
    <3>1. /\ s2 \in Seq(Symbol) /\ chunk \in Seq(Symbol)
          /\ \A i \in 1..Len(s2) : s2[i] = session[i]
          /\ \A i \in 1..Len(chunk) : chunk[i] = session[Len(s2) + i]
      BY <2>5, <2>8, <2>12
    <3>2. /\ s3 \in Seq(Symbol) /\ Len(s3) = Len(s2) + Len(chunk)
          /\ \A i \in 1..Len(s3) : s3[i] = session[i]
      BY <2>10, <3>1, LongerBeginning
    <3> QED
      BY <2>8, <2>12, <3>2
  <2>14. /\ s4 \in Seq(Symbol)
         /\ Len(s4) = Handed + Len(exit_buffer) + Len(chunk) + Len(input)
         /\ \A i \in 1..Len(s4) : s4[i] = session[i]
    <3>1. /\ s3 \in Seq(Symbol) /\ input \in Seq(Symbol)
          /\ \A i \in 1..Len(s3) : s3[i] = session[i]
          /\ \A i \in 1..Len(input) : input[i] = session[Len(s3) + i]
      BY <2>5, <2>8, <2>13
    <3>2. /\ s4 \in Seq(Symbol) /\ Len(s4) = Len(s3) + Len(input)
          /\ \A i \in 1..Len(s4) : s4[i] = session[i]
      BY <2>11, <3>1, LongerBeginning
    <3> QED
      BY <2>8, <2>13, <3>2
  <2>15. s4 = session
    BY <2>7, <2>8, <2>14, SameSequence
  <2>16. FindExit(data) = 0
    <3>1. ASSUME NEW i \in 1..(Len(data) - 3), WholeAt(data, i)
          PROVE  FALSE
      <4>1. /\ i \in 1..Handed /\ i + 1 \in 1..Handed /\ i + 2 \in 1..Handed
            /\ i \in 1..(Handed - 3)
        BY <2>4, <2>6
      <4>2. /\ delivered[mark + i] = "+" /\ delivered[mark + (i + 1)] = "0"
            /\ delivered[mark + (i + 2)] = "r"
        BY <2>6, <3>1, <4>1 DEF WholeAt
      <4>3. /\ heard[b + i] = "+" /\ heard[b + (i + 1)] = "0" /\ heard[b + (i + 2)] = "r"
        BY <2>1, <4>1, <4>2 DEF Carried
      <4> DEFINE p == b + i
      <4>4. p + 1 = b + (i + 1) /\ p + 2 = b + (i + 2) /\ p > b /\ p <= b + Handed
        BY <2>4, <4>1
      <4>5. p \in 1..(Len(heard) - 2)
        <5>1. b + Handed + Len(exit_buffer) + Len(chunk) + Len(input) = Len(heard)
          BY <2>1 DEF Carried
        <5> QED
          BY <2>4, <4>1, <5>1
      <4> HIDE DEF p
      <4>6. ExitAt(heard, p)
        BY <4>3, <4>4 DEF ExitAt, p
      <4>7. p > b + Handed
        BY <2>1, <4>4, <4>5, <4>6 DEF EndsBefore
      <4> QED
        BY <2>4, <4>4, <4>5, <4>7
    <3> QED
      BY <2>6, <3>1, ExitSearched
  <2> QED
    BY <1>1, <2>2, <2>3, <2>9, <2>10, <2>11, <2>15, <2>16 DEF data, session
<1> QED
  BY <1>0, <1>2, <1>3, <1>4 DEF TypeInv

\* The types, and where the reader keeps what it has read.
THEOREM TypeCorrect == Spec => []TypeOK
<1>1. Inv => TypeOK
  <2> SUFFICES ASSUME Inv PROVE TypeOK
    OBVIOUS
  <2>1. TypeInv /\ FlagInv
    BY DEF Inv
  <2>2. Len(exit_buffer) < Len(Exited) /\ IsPrefix(exit_buffer, Exited)
    BY <2>1, ExitLine, Sizes DEF FlagInv
  <2>3. \A i \in DOMAIN lines : lines[i] \in {"OK", "ERR", "D0", "D1", "other"}
    BY <2>1 DEF TypeInv, Reports
  <2>4. chunk # <<>> => reading \in {"handle", "rest"}
    BY <2>1 DEF FlagInv
  <2> QED
    BY <2>1, <2>2, <2>3, <2>4 DEF TypeInv, TypeOK
<1> QED
  BY <1>1, InvAlways, PTL

\* _reader_loop and _handle_exit_pending_chunk hand over every byte that follows
\* +IND=DATAMODE,1 once _data_mode is set, in order, up to the exit line: no cut of the
\* line into reads, and no beginning of it in the stream, makes them lose, repeat or keep
\* a byte, or hand over one of the line.
THEOREM StreamComplete == Spec => []StreamExact
  BY InvStreamExact, InvAlways, PTL

\* exit_data_mode returns to a reader that is back in control mode and holds nothing, and
\* sync_control_mode, recover_control_mode and exit_data_mode return only when the
\* firmware is in control mode with an empty line buffer: the +OK that they wait for is
\* the answer to their own AT.
THEOREM ControlRegained == Spec => []ControlMeansControl
<1>1. Inv => ControlMeansControl
  <2> SUFFICES ASSUME Inv PROVE ControlMeansControl
    OBVIOUS
  <2>1. TypeInv /\ FlagInv /\ AnswerInv
    BY DEF Inv
  <2>2. pc = "exit_seen" => ~data_mode /\ ~exit_pending /\ exit_buffer = <<>>
    BY <2>1 DEF FlagInv, InSession
  <2>3. pc = "control" => ~in_data /\ ~half_line /\ ~data_mode /\ ~exit_pending
    BY <2>1 DEF FlagInv, InSession, AnswerInv, InControl
  <2> QED
    BY <2>2, <2>3 DEF ControlMeansControl
<1> QED
  BY <1>1, InvAlways, PTL

----------------------------------------------------------------------------
\* The data handler of the end-to-end test runs in the reader thread, on what that has
\* handed over: it neither blocks a step of the client nor adds one, so that what holds
\* of the client holds with it.
THEOREM HandlerFollows == E2eSpec => Spec
<1>1. E2eInit => Init
  BY DEF E2eInit
<1>2. [E2eNext]_<<vars, handler>> => [Next]_vars
  BY DEF E2eNext
<1> QED
  BY <1>1, <1>2, PTL DEF E2eSpec, Spec

----------------------------------------------------------------------------
\* The frame parser.  Its loop and its reference are recursive functions of a sequence;
\* that they have the values their equations say, and what they have in common, is shown
\* by a least counterexample: a number, the length of a sequence, below which there is none.

\* A set of numbers has a least one.
LEMMA Least ==
    ASSUME NEW T, T \subseteq Nat, T # {}
    PROVE  \E n \in T : \A m \in T : ~(m < n)
<1> DEFINE R == OpToRel(<, Nat)
<1>1. IsWellFoundedOn(R, Nat)
  BY NatLessThanWellFounded
<1>2. \A m, n \in Nat : m < n => <<m, n>> \in R
  BY DEF OpToRel
<1> HIDE DEF R
<1>3. \E n \in T : \A m \in T : ~(<<m, n>> \in R)
  BY <1>1, WFMin
<1> QED
  BY <1>2, <1>3

\* A function over S that is defined by its value at something smaller: b where it
\* stops, h of its value at the next element elsewhere.
Descends(S, V, size, base, b, next, h) ==
    /\ size \in [S -> Nat] /\ b \in [S -> V] /\ next \in [S -> S]
    /\ h \in [S -> [V -> V]]
    /\ \A s \in S \ base : size[next[s]] < size[s]

Computes(f, S, V, base, b, next, h) ==
    /\ f \in [S -> V]
    /\ \A s \in S : f[s] = IF s \in base THEN b[s] ELSE h[s][f[next[s]]]

LEMMA Recursion ==
    ASSUME NEW S, NEW V, NEW size, NEW base, NEW b, NEW next, NEW h,
           Descends(S, V, size, base, b, next, h)
    PROVE  \E f : Computes(f, S, V, base, b, next, h)
<1>0. /\ size \in [S -> Nat] /\ b \in [S -> V] /\ next \in [S -> S]
      /\ h \in [S -> [V -> V]]
      /\ \A s \in S \ base : size[next[s]] < size[s]
  BY DEF Descends
<1> USE <1>0
<1> DEFINE Solves(T, g) ==
              \A s \in T : IF s \in base THEN g[s] = b[s]
                           ELSE next[s] \in T /\ g[s] = h[s][g[next[s]]]
\* Two such functions agree where both are defined.
<1>1. ASSUME NEW T \in SUBSET S, NEW g \in [T -> V], Solves(T, g),
             NEW U \in SUBSET S, NEW k \in [U -> V], Solves(U, k),
             NEW s \in T \cap U
      PROVE  g[s] = k[s]
  <2> DEFINE Bad == {t \in T \cap U : g[t] # k[t]}
             Sizes1 == {size[t] : t \in Bad}
  <2>1. SUFFICES ASSUME Bad # {} PROVE FALSE
    BY <2>1
  <2>2. Sizes1 \subseteq Nat /\ Sizes1 # {}
    BY <2>1
  <2>3. PICK n \in Sizes1 : \A m \in Sizes1 : ~(m < n)
    BY <2>2, Least
  <2>4. PICK t \in Bad : size[t] = n
    BY <2>3
  <2>5. t \notin base /\ next[t] \in T \cap U
    BY <1>1, <2>4
  <2>6. g[next[t]] # k[next[t]]
    BY <1>1, <2>4, <2>5
  <2>7. next[t] \in Bad /\ size[next[t]] < size[t]
    BY <2>4, <2>5, <2>6
  <2> QED
    BY <2>3, <2>4, <2>7
\* There is one at every element.
<1>2. ASSUME NEW s \in S
      PROVE  \E T \in SUBSET S : \E g \in [T -> V] : s \in T /\ Solves(T, g)
  <2> DEFINE Bad == {t \in S : ~\E T \in SUBSET S : \E g \in [T -> V] :
                                  t \in T /\ Solves(T, g)}
             Sizes1 == {size[t] : t \in Bad}
  <2>1. SUFFICES ASSUME Bad # {} PROVE FALSE
    <3>1. s \notin Bad => \E T \in SUBSET S : \E g \in [T -> V] : s \in T /\ Solves(T, g)
      OBVIOUS
    <3> HIDE DEF Bad
    <3> QED
      BY <3>1
  <2>2. Sizes1 \subseteq Nat /\ Sizes1 # {}
    <3>1. Bad \subseteq S
      OBVIOUS
    <3> HIDE DEF Bad
    <3> QED
      BY <2>1, <3>1
  <2>3. PICK n \in Sizes1 : \A m \in Sizes1 : ~(m < n)
    BY <2>2, Least
  <2>4. PICK t \in Bad : size[t] = n
    BY <2>3
  <2>5. CASE t \in base
    <3> DEFINE g == [u \in {t} |-> b[t]]
    <3>1. g \in [{t} -> V] /\ Solves({t}, g) /\ {t} \in SUBSET S
      BY <2>4, <2>5
    <3> QED
      BY <2>4, <3>1
  <2>6. CASE t \notin base
    <3>1. next[t] \in S /\ size[next[t]] < size[t]
      BY <2>4, <2>6
    <3>2. next[t] \notin Bad
      BY <2>3, <2>4, <3>1
    <3>a. PICK T \in SUBSET S : \E g \in [T -> V] : next[t] \in T /\ Solves(T, g)
      BY <3>1, <3>2
    <3>3. PICK g \in [T -> V] : next[t] \in T /\ Solves(T, g)
      BY <3>a
    <3>4. t \notin T
      BY <2>4, <3>3
    <3> DEFINE k == [u \in T \union {t} |-> IF u = t THEN h[t][g[next[t]]] ELSE g[u]]
    <3>5. h[t][g[next[t]]] \in V
      BY <2>4, <3>3
    <3>6. k \in [T \union {t} -> V] /\ T \union {t} \in SUBSET S
      BY <2>4, <3>3, <3>5
    <3>7. k[t] = h[t][g[next[t]]] /\ \A u \in T : k[u] = g[u]
      BY <3>4
    <3> HIDE DEF k
    <3>8. Solves(T \union {t}, k)
      BY <2>6, <3>3, <3>7
    <3> QED
      BY <2>4, <3>6, <3>8
  <2> QED
    BY <2>5, <2>6
<1> DEFINE f == [s \in S |-> CHOOSE v \in V :
                    \E T \in SUBSET S : \E g \in [T -> V] :
                       s \in T /\ Solves(T, g) /\ v = g[s]]
<1>3. ASSUME NEW T \in SUBSET S, NEW g \in [T -> V], Solves(T, g), NEW s \in T
      PROVE  f[s] = g[s]
  <2> HIDE DEF Solves
  <2>1. g[s] \in V /\ s \in S
    BY <1>3
  <2>2. \E v \in V : \E U \in SUBSET S : \E k \in [U -> V] :
           s \in U /\ Solves(U, k) /\ v = k[s]
    BY <1>3, <2>1
  <2>a. PICK U \in SUBSET S : \E k \in [U -> V] :
           s \in U /\ Solves(U, k) /\ f[s] = k[s]
    BY <2>1, <2>2
  <2>3. PICK k \in [U -> V] : s \in U /\ Solves(U, k) /\ f[s] = k[s]
    BY <2>a
  <2> HIDE DEF f
  <2> QED
    BY <1>1, <1>3, <2>3
<1> HIDE DEF f
<1>4. ASSUME NEW s \in S
      PROVE  /\ f[s] \in V
             /\ f[s] = IF s \in base THEN b[s] ELSE h[s][f[next[s]]]
  <2>a. PICK T \in SUBSET S : \E g \in [T -> V] : s \in T /\ Solves(T, g)
    BY <1>2
  <2>1. PICK g \in [T -> V] : s \in T /\ Solves(T, g)
    BY <2>a
  <2>2. f[s] = g[s] /\ g[s] \in V
    BY <1>3, <2>1
  <2>3. s \notin base => f[next[s]] = g[next[s]]
    BY <1>3, <2>1
  <2> QED
    BY <2>1, <2>2, <2>3
<1>5. f \in [S -> V]
  BY <1>4 DEF f
<1> QED
  BY <1>4, <1>5 DEF Computes

\* The equations of FramesOf and of Parse.
ReadsFrames(f) ==
    f = [stream \in Seq(Byte) |->
            IF Len(stream) < Parser!FrameSize THEN <<>>
            ELSE IF Parser!ValidAt(stream, 1)
                 THEN <<stream[3]>> \o f[Parser!Drop(stream, Parser!FrameSize)]
                 ELSE f[Parser!Drop(stream, 1)]]

Rest(s) == Parser!Drop(s, Parser!Find(s) - 1)

Parses(f) ==
    f = [s \in Seq(Byte) |->
            LET start == Parser!Find(s)
                rest  == Parser!Drop(s, start - 1)
                after == f[Parser!Drop(rest, Parser!FrameSize)]
            IN  IF Len(s) < Parser!HeaderSize THEN [left |-> s, frames |-> <<>>]
                ELSE IF start = 0
                     THEN [left |-> Parser!KeepMagicStart(s), frames |-> <<>>]
                ELSE IF Len(rest) < Parser!FrameSize THEN [left |-> rest, frames |-> <<>>]
                ELSE IF ~Parser!ValidAt(rest, 1) THEN f[Parser!SkipByte(rest)]
                ELSE [left |-> after.left, frames |-> <<rest[3]>> \o after.frames]]

\* Each is a function that satisfies its equation, when there is one.
LEMMA FramesOfDefined ==
    ASSUME NEW f, ReadsFrames(f)
    PROVE  ReadsFrames(Parser!FramesOf)
  BY Zenon DEF Parser!FramesOf, ReadsFrames

LEMMA ParseDefined ==
    ASSUME NEW f, Parses(f)
    PROVE  Parses(Parser!Parse)
  BY Zenon DEF Parser!Parse, Parses

LEMMA ParserSizes ==
    /\ Parser!FrameSize = 4 /\ Parser!HeaderSize = 3 /\ Len(Parser!Magic) = 2
    /\ \A s, k : Parser!Drop(s, k) = Drop(s, k)
    /\ \A s : Parser!SkipByte(s) = Drop(s, 1)
    /\ \A s : Parser!KeepMagicStart(s) = Drop(s, Len(s) - 1)
<1>1. /\ Parser!FrameSize = 4 /\ Parser!HeaderSize = 3 /\ Len(Parser!Magic) = 2
      /\ \A s, k : Parser!Drop(s, k) = Drop(s, k)
  BY DEF Parser!FrameSize, Parser!HeaderSize, Parser!Magic, Parser!Drop, Drop
<1>2. Len(Parser!Magic) - 1 = 1
  BY <1>1
<1> QED
  BY <1>1, <1>2 DEF Parser!SkipByte, Parser!KeepMagicStart

\* More facts about sequences.
LEMMA DropAll ==
    ASSUME NEW S, NEW s \in Seq(S)
    PROVE  Drop(s, 0) = s
<1>1. /\ Len(s) \in Nat /\ 0 \in 0..Len(s) /\ Len(s) - 0 = Len(s)
  BY Lengths
<1>2. /\ Drop(s, 0) \in Seq(S) /\ Len(Drop(s, 0)) = Len(s)
      /\ \A i \in 1..Len(s) : Drop(s, 0)[i] = s[0 + i]
  BY <1>1, Dropping
<1>3. \A i \in 1..Len(s) : Drop(s, 0)[i] = s[i]
  BY <1>1, <1>2
<1> QED
  BY <1>2, <1>3, SameSequence

LEMMA DropTwice ==
    ASSUME NEW S, NEW s \in Seq(S), NEW j \in Nat, NEW k \in Nat, j + k <= Len(s)
    PROVE  Drop(Drop(s, j), k) = Drop(s, j + k)
<1>1. Len(s) \in Nat /\ j \in 0..Len(s) /\ j + k \in 0..Len(s) /\ k \in 0..(Len(s) - j)
  BY Lengths
<1> DEFINE d == Drop(s, j)
           e == Drop(s, j + k)
<1>2. /\ d \in Seq(S) /\ Len(d) = Len(s) - j
      /\ \A i \in 1..(Len(s) - j) : d[i] = s[j + i]
  BY <1>1, Dropping
<1>3. /\ e \in Seq(S) /\ Len(e) = Len(s) - (j + k)
      /\ \A i \in 1..(Len(s) - (j + k)) : e[i] = s[j + k + i]
  BY <1>1, Dropping
<1> HIDE DEF d, e
<1>4. k \in 0..Len(d)
  BY <1>1, <1>2
<1>5. /\ Drop(d, k) \in Seq(S) /\ Len(Drop(d, k)) = Len(d) - k
      /\ \A i \in 1..(Len(d) - k) : Drop(d, k)[i] = d[k + i]
  BY <1>2, <1>4, Dropping
<1>6. Len(Drop(d, k)) = Len(e)
  BY <1>1, <1>2, <1>3, <1>5
<1>7. ASSUME NEW i \in 1..Len(e)
      PROVE  Drop(d, k)[i] = e[i]
  <2>1. /\ i \in 1..(Len(d) - k) /\ k + i \in 1..(Len(s) - j)
        /\ i \in 1..(Len(s) - (j + k)) /\ j + (k + i) = j + k + i
    BY <1>1, <1>2, <1>3
  <2> QED
    BY <1>2, <1>3, <1>5, <2>1
<1>8. Drop(d, k) = e
  BY <1>3, <1>5, <1>6, <1>7, SameSequence
<1> QED
  BY <1>8 DEF d, e

LEMMA DropOfJoined ==
    ASSUME NEW S, NEW s \in Seq(S), NEW x \in Seq(S), NEW k \in 0..Len(s)
    PROVE  Drop(s \o x, k) = Drop(s, k) \o x
<1>1. Len(s) \in Nat /\ Len(x) \in Nat /\ k \in Nat /\ k <= Len(s)
  BY Lengths
<1> DEFINE j == s \o x
           d == Drop(s, k)
<1>2. /\ j \in Seq(S) /\ Len(j) = Len(s) + Len(x)
      /\ \A i \in 1..Len(s) : j[i] = s[i]
      /\ \A i \in 1..Len(x) : j[Len(s) + i] = x[i]
  BY Joined
<1>3. /\ d \in Seq(S) /\ Len(d) = Len(s) - k
      /\ \A i \in 1..(Len(s) - k) : d[i] = s[k + i]
  BY Dropping
<1> HIDE DEF j, d
<1>4. k \in 0..Len(j)
  BY <1>1, <1>2
<1>5. /\ Drop(j, k) \in Seq(S) /\ Len(Drop(j, k)) = Len(j) - k
      /\ \A i \in 1..(Len(j) - k) : Drop(j, k)[i] = j[k + i]
  BY <1>2, <1>4, Dropping
<1>6. ASSUME NEW i \in 1..Len(d)
      PROVE  d[i] = Drop(j, k)[i]
  <2>1. i \in 1..(Len(j) - k) /\ k + i \in 1..Len(s) /\ i \in 1..(Len(s) - k)
    BY <1>1, <1>2, <1>3
  <2> QED
    BY <1>2, <1>3, <1>5, <2>1
<1>7. ASSUME NEW i \in 1..Len(x)
      PROVE  x[i] = Drop(j, k)[Len(d) + i]
  <2>1. Len(d) + i \in 1..(Len(j) - k) /\ k + (Len(d) + i) = Len(s) + i
    BY <1>1, <1>2, <1>3
  <2> QED
    BY <1>2, <1>5, <2>1
<1>8. /\ d \o x \in Seq(S) /\ Len(d \o x) = Len(d) + Len(x)
      /\ \A i \in 1..Len(d \o x) : (d \o x)[i] = Drop(j, k)[i]
  <2>1. d \in Seq(S) /\ x \in Seq(S)
    BY <1>3
  <2>2. PICK r : r = Drop(j, k)
    OBVIOUS
  <2>3. (\A i \in 1..Len(d) : d[i] = r[i]) /\ \A i \in 1..Len(x) : x[i] = r[Len(d) + i]
    BY <1>6, <1>7, <2>2
  <2> QED
    BY <2>1, <2>2, <2>3, LongerBeginning
<1>9. Len(d \o x) = Len(Drop(j, k))
  BY <1>1, <1>2, <1>3, <1>5, <1>8
<1>10. d \o x = Drop(j, k)
  BY <1>5, <1>8, <1>9, SameSequence
<1> QED
  BY <1>10 DEF j, d

LEMMA JoinedTwice ==
    ASSUME NEW S, NEW s \in Seq(S), NEW t \in Seq(S), NEW u \in Seq(S)
    PROVE  (s \o t) \o u = s \o (t \o u)
  OBVIOUS

LEMMA SeqOfElements ==
    ASSUME NEW S, NEW s \in Seq(S), NEW T, \A i \in 1..Len(s) : s[i] \in T
    PROVE  s \in Seq(T)
  OBVIOUS

LEMMA JoinedEmpty ==
    ASSUME NEW S, NEW s \in Seq(S)
    PROVE  s \o <<>> = s /\ <<>> \o s = s
  OBVIOUS

LEMMA Dropped ==
    ASSUME NEW S, NEW s \in Seq(S), NEW k \in Nat, k <= Len(s)
    PROVE  /\ Drop(s, k) \in Seq(S) /\ Len(Drop(s, k)) = Len(s) - k
           /\ \A i \in 1..(Len(s) - k) : Drop(s, k)[i] = s[k + i]
<1>1. k \in 0..Len(s)
  BY Lengths
<1> QED
  BY <1>1, Dropping

\* A set of sequences has a shortest one.
LEMMA Shortest ==
    ASSUME NEW S, NEW Q, Q \subseteq Seq(S), Q # {}
    PROVE  \E s \in Q : \A t \in Q : ~(Len(t) < Len(s))
<1> DEFINE T == {Len(s) : s \in Q}
<1>1. \A s \in Q : Len(s) \in Nat
  BY Lengths
<1>a. T \subseteq Nat /\ T # {}
  BY <1>1
<1>2. \E n \in T : \A m \in T : ~(m < n)
  <2> HIDE DEF T
  <2> QED
    BY <1>a, Least
<1> QED
  BY <1>2

\* What FramesOf returns.
LEMMA FramesOfIs ==
    ASSUME NEW s \in Seq(Byte)
    PROVE  /\ Parser!FramesOf[s] \in Seq(Byte)
           /\ Len(s) < 4 => Parser!FramesOf[s] = <<>>
           /\ Len(s) >= 4 /\ Parser!ValidAt(s, 1) =>
                 Parser!FramesOf[s] = <<s[3]>> \o Parser!FramesOf[Drop(s, 4)]
           /\ Len(s) >= 4 /\ ~Parser!ValidAt(s, 1) =>
                 Parser!FramesOf[s] = Parser!FramesOf[Drop(s, 1)]
<1> DEFINE S == Seq(Byte)
           base == {r \in S : Len(r) < 4}
           size == [r \in S |-> Len(r)]
           b == [r \in S |-> <<>>]
           next == [r \in S |-> IF r \in base THEN r
                                ELSE IF Parser!ValidAt(r, 1) THEN Drop(r, 4) ELSE Drop(r, 1)]
           h == [r \in S |-> [v \in S |->
                   IF r \notin base /\ Parser!ValidAt(r, 1) THEN <<r[3]>> \o v ELSE v]]
<1>1. size \in [S -> Nat] /\ b \in [S -> S]
  BY Lengths
<1>2. ASSUME NEW r \in S
      PROVE  next[r] \in S /\ (r \notin base => Len(next[r]) < Len(r))
  <2>1. CASE r \in base
    BY <2>1
  <2>2. CASE r \notin base
    <3>1. Len(r) \in Nat /\ Len(r) >= 4
      BY <2>2, Lengths
    <3>2. /\ Drop(r, 4) \in S /\ Len(Drop(r, 4)) = Len(r) - 4
          /\ Drop(r, 1) \in S /\ Len(Drop(r, 1)) = Len(r) - 1
      BY <3>1, Dropped
    <3>3. next[r] = Drop(r, 4) \/ next[r] = Drop(r, 1)
      BY <2>2
    <3> HIDE DEF next
    <3> QED
      BY <3>1, <3>2, <3>3
  <2> QED
    BY <2>1, <2>2
<1>3. next \in [S -> S] /\ \A r \in S \ base : size[next[r]] < size[r]
  <2>1. \A r \in S : next[r] \in S
    BY <1>2
  <2>2. next \in [S -> S]
    BY <2>1
  <2> HIDE DEF next
  <2> QED
    BY <1>2, <2>1, <2>2
<1>4. h \in [S -> [S -> S]]
  <2>1. ASSUME NEW r \in S, NEW v \in S
        PROVE  (IF r \notin base /\ Parser!ValidAt(r, 1) THEN <<r[3]>> \o v ELSE v) \in S
    <3>1. CASE r \notin base /\ Parser!ValidAt(r, 1)
      <4>1. Len(r) \in Nat /\ Len(r) >= 4
        BY <3>1, Lengths
      <4>2. r[3] \in Byte
        BY <4>1, Lengths
      <4>3. <<r[3]>> \in Seq(Byte)
        BY <4>2
      <4> QED
        BY <3>1, <4>3, Joined
    <3> QED
      BY <3>1
  <2> HIDE DEF base
  <2> QED
    BY <2>1
<1> HIDE DEF base, size, b, next, h, S
<1>5. \E f : Computes(f, S, S, base, b, next, h)
  <2>1. Descends(S, S, size, base, b, next, h)
    BY <1>1, <1>3, <1>4 DEF Descends
  <2> QED
    BY <2>1, Recursion
<1>f. PICK f : f \in [S -> S] /\ \A r \in S : f[r] = IF r \in base THEN b[r] ELSE h[r][f[next[r]]]
  BY <1>5 DEF Computes
<1>6. ASSUME NEW r \in S
      PROVE  f[r] = IF Len(r) < 4 THEN <<>>
                    ELSE IF Parser!ValidAt(r, 1) THEN <<r[3]>> \o f[Drop(r, 4)]
                    ELSE f[Drop(r, 1)]
  <2>1. CASE Len(r) < 4
    BY <1>f, <2>1 DEF base, b
  <2>2. CASE ~(Len(r) < 4)
    <3>1. r \notin base
      BY <2>2 DEF base
    <3>2. f[r] = h[r][f[next[r]]] /\ f[next[r]] \in S
      BY <1>2, <1>f, <3>1
    <3>3. next[r] = IF Parser!ValidAt(r, 1) THEN Drop(r, 4) ELSE Drop(r, 1)
      BY <3>1 DEF next
    <3>4. \A v \in S : h[r][v] = IF Parser!ValidAt(r, 1) THEN <<r[3]>> \o v ELSE v
      BY <3>1 DEF h
    <3> QED
      BY <2>2, <3>2, <3>3, <3>4
  <2> QED
    BY <2>1, <2>2
<1>7. ReadsFrames(f)
  <2>1. \A r \in S : f[r] = IF Len(r) < Parser!FrameSize THEN <<>>
                    ELSE IF Parser!ValidAt(r, 1)
                         THEN <<r[3]>> \o f[Parser!Drop(r, Parser!FrameSize)]
                    ELSE f[Parser!Drop(r, 1)]
    BY <1>6, ParserSizes
  <2> QED
    BY <1>f, <2>1 DEF ReadsFrames, S
\* FramesOf has the same equation, and with it the same values.
<1>8. ASSUME NEW r \in S
      PROVE  Parser!FramesOf[r] =
                IF Len(r) < 4 THEN <<>>
                ELSE IF Parser!ValidAt(r, 1) THEN <<r[3]>> \o Parser!FramesOf[Drop(r, 4)]
                ELSE Parser!FramesOf[Drop(r, 1)]
  <2>1. PICK g : g = Parser!FramesOf
    OBVIOUS
  <2>2. ReadsFrames(g)
    BY <1>7, <2>1, FramesOfDefined
  <2>3. g[r] = IF Len(r) < Parser!FrameSize THEN <<>>
               ELSE IF Parser!ValidAt(r, 1)
                    THEN <<r[3]>> \o g[Parser!Drop(r, Parser!FrameSize)]
               ELSE g[Parser!Drop(r, 1)]
    BY <2>2 DEF ReadsFrames, S
  <2>4. g[r] = IF Len(r) < 4 THEN <<>>
               ELSE IF Parser!ValidAt(r, 1) THEN <<r[3]>> \o g[Drop(r, 4)]
               ELSE g[Drop(r, 1)]
    BY <2>3, ParserSizes
  <2> QED
    BY <2>1, <2>4
<1> DEFINE Bad == {r \in S : Parser!FramesOf[r] # f[r]}
<1>9. Bad = {}
  <2>1. SUFFICES ASSUME Bad # {} PROVE FALSE
    OBVIOUS
  <2>2. Bad \subseteq Seq(Byte)
    BY DEF S
  <2>3. PICK r \in Bad : \A t \in Bad : ~(Len(t) < Len(r))
    <3> HIDE DEF Bad
    <3> QED
      BY <2>1, <2>2, Shortest
  <2>4. r \in S /\ Parser!FramesOf[r] # f[r]
    BY <2>3
  <2>5. Len(r) >= 4
    <3>1. Len(r) \in Nat
      BY <2>4, Lengths DEF S
    <3>2. ASSUME Len(r) < 4 PROVE FALSE
      <4>1. Parser!FramesOf[r] = <<>>
        BY <1>8, <2>4, <3>2
      <4>2. f[r] = <<>>
        BY <1>6, <2>4, <3>2
      <4> QED
        BY <2>4, <4>1, <4>2
    <3> QED
      BY <3>1, <3>2
  <2>6. /\ Drop(r, 4) \in S /\ Len(Drop(r, 4)) < Len(r)
        /\ Drop(r, 1) \in S /\ Len(Drop(r, 1)) < Len(r)
    <3>1. Len(r) \in Nat /\ r \in Seq(Byte)
      BY <2>4, Lengths DEF S
    <3>2. 4 \in Nat /\ 4 <= Len(r) /\ 1 \in Nat /\ 1 <= Len(r)
      BY <2>5, <3>1
    <3>3. Drop(r, 4) \in Seq(Byte) /\ Len(Drop(r, 4)) = Len(r) - 4
      BY <3>1, <3>2, Dropped
    <3>4. Drop(r, 1) \in Seq(Byte) /\ Len(Drop(r, 1)) = Len(r) - 1
      BY <3>1, <3>2, Dropped
    <3> QED
      BY <3>1, <3>3, <3>4 DEF S
  <2>7. /\ Parser!FramesOf[Drop(r, 4)] = f[Drop(r, 4)]
        /\ Parser!FramesOf[Drop(r, 1)] = f[Drop(r, 1)]
    BY <2>3, <2>6
  <2> QED
    BY <1>6, <1>8, <2>4, <2>7
<1>10. Parser!FramesOf[s] = f[s] /\ f[s] \in S
  BY <1>9, <1>f DEF S
<1>11. Len(s) \in Nat
  BY Lengths
<1> HIDE DEF Bad
<1>12. Parser!FramesOf[s] =
          IF Len(s) < 4 THEN <<>>
          ELSE IF Parser!ValidAt(s, 1) THEN <<s[3]>> \o Parser!FramesOf[Drop(s, 4)]
          ELSE Parser!FramesOf[Drop(s, 1)]
  BY <1>8 DEF S
<1>13. Parser!FramesOf[s] \in Seq(Byte)
  BY <1>10 DEF S
<1>14. Len(s) >= 4 => ~(Len(s) < 4)
  BY <1>11
<1> QED
  BY <1>12, <1>13, <1>14

\* Where the magic begins, and that Find finds the first of these places.
MagicAt(s, i) == s[i] = "B" /\ s[i + 1] = "A"

LEMMA MagicThere ==
    ASSUME NEW s \in Seq(Byte), NEW i \in 1..(Len(s) - 1)
    PROVE  SubSeq(s, i, i + 1) = Parser!Magic <=> MagicAt(s, i)
<1>1. Len(s) \in Nat /\ i \in Nat /\ i + 1 \in 1..Len(s) /\ i \in 1..Len(s)
  BY Lengths
<1> DEFINE part == SubSeq(s, i, i + 1)
<1>2. \A j \in i..(i + 1) : s[j] \in Byte
  BY <1>1, Lengths
<1>3. /\ part \in Seq(Byte)
      /\ Len(part) = IF i <= i + 1 THEN i + 1 - i + 1 ELSE 0
      /\ \A j \in 1..(i + 1 - i + 1) : part[j] = s[i + j - 1]
  BY <1>1, <1>2, SubSeqProperties
<1>4. Len(part) = 2 /\ part[1] = s[i] /\ part[2] = s[i + 1]
  <2>1. i + 1 - i + 1 = 2 /\ i + 1 - 1 = i /\ i + 2 - 1 = i + 1 /\ i <= i + 1
    BY <1>1
  <2> HIDE DEF part
  <2> QED
    BY <1>3, <2>1
<1>5. /\ Parser!Magic \in Seq(Byte) /\ Len(Parser!Magic) = 2
      /\ Parser!Magic[1] = "B" /\ Parser!Magic[2] = "A"
  BY ByteAssumption DEF Parser!Magic
<1> HIDE DEF part
<1>6. ASSUME MagicAt(s, i)
      PROVE  part = Parser!Magic
  <2>1. \A j \in 1..2 : part[j] = Parser!Magic[j]
    BY <1>4, <1>5, <1>6 DEF MagicAt
  <2> QED
    BY <1>3, <1>4, <1>5, <2>1, SameSequence
<1>7. part = Parser!Magic => MagicAt(s, i)
  BY <1>4, <1>5 DEF MagicAt
<1> QED
  BY <1>6, <1>7 DEF part

LEMMA MagicFound ==
    ASSUME NEW s \in Seq(Byte)
    PROVE  \/ Parser!Find(s) = 0 /\ \A i \in 1..(Len(s) - 1) : ~MagicAt(s, i)
           \/ /\ Parser!Find(s) \in 1..(Len(s) - 1) /\ MagicAt(s, Parser!Find(s))
              /\ \A i \in 1..(Parser!Find(s) - 1) : ~MagicAt(s, i)
<1> DEFINE at == {i \in 1..(Len(s) - 1) : SubSeq(s, i, i + 1) = Parser!Magic}
<1>0. Len(s) \in Nat
  BY Lengths
<1>1. Parser!Find(s) = IF at = {} THEN 0 ELSE CHOOSE i \in at : \A j \in at : i <= j
  BY DEF Parser!Find
<1>2. \A i \in 1..(Len(s) - 1) : i \in at <=> MagicAt(s, i)
  BY MagicThere
<1>3. at \subseteq 1..(Len(s) - 1) /\ at \subseteq Nat
  BY <1>0
<1> HIDE DEF at
<1>4. CASE at = {}
  BY <1>1, <1>2, <1>4
<1>5. CASE at # {}
  <2>1. \E i \in at : \A j \in at : ~(j < i)
    BY <1>3, <1>5, Least
  <2>2. \E i \in at : \A j \in at : i <= j
    BY <1>3, <2>1
  <2>3. PICK n : n = CHOOSE i \in at : \A j \in at : i <= j
    OBVIOUS
  <2>4. n \in at /\ \A j \in at : n <= j
    BY <2>2, <2>3
  <2>5. n \in 1..(Len(s) - 1) /\ MagicAt(s, n) /\ Parser!Find(s) = n
    BY <1>1, <1>2, <1>3, <1>5, <2>3, <2>4
  <2>6. ASSUME NEW i \in 1..(n - 1)
        PROVE  ~MagicAt(s, i)
    <3>1. i \in 1..(Len(s) - 1) /\ i < n
      BY <1>0, <2>5
    <3>2. i \notin at
      BY <2>4, <2>5, <3>1
    <3> QED
      BY <1>2, <3>1, <3>2
  <2> QED
    BY <2>5, <2>6
<1> QED
  BY <1>4, <1>5

Parsed == [left : Seq(Byte), frames : Seq(Byte)]

\* What is left to look at, with the magic at the front.
LEMMA RestIs ==
    ASSUME NEW s \in Seq(Byte), Parser!Find(s) # 0
    PROVE  /\ Rest(s) = Drop(s, Parser!Find(s) - 1) /\ Rest(s) \in Seq(Byte)
           /\ Len(Rest(s)) = Len(s) - (Parser!Find(s) - 1)
           /\ Parser!Find(s) - 1 \in 0..Len(s)
           /\ Len(Rest(s)) \in Nat /\ Len(Rest(s)) >= 2 /\ Len(Rest(s)) <= Len(s)
<1>1. Parser!Find(s) \in 1..(Len(s) - 1)
  BY MagicFound
<1> DEFINE k == Parser!Find(s) - 1
<1>2. Len(s) \in Nat
  BY Lengths
<1>3. k \in Nat /\ k <= Len(s) /\ Len(s) - k >= 2 /\ k >= 0
  BY <1>1, <1>2
<1>4. Rest(s) = Drop(s, k)
  BY ParserSizes DEF Rest
<1> HIDE DEF k
<1>5. Drop(s, k) \in Seq(Byte) /\ Len(Drop(s, k)) = Len(s) - k
  BY <1>3, Dropped
<1> QED
  BY <1>2, <1>3, <1>4, <1>5 DEF k

\* What Parse returns.
LEMMA ParseIs ==
    ASSUME NEW s \in Seq(Byte)
    PROVE  /\ Parser!Parse[s] \in Parsed
           /\ Len(s) < 3 => Parser!Parse[s] = [left |-> s, frames |-> <<>>]
           /\ Len(s) >= 3 =>
                 \/ /\ Parser!Find(s) = 0
                    /\ Parser!Parse[s] = [left |-> Drop(s, Len(s) - 1), frames |-> <<>>]
                 \/ /\ Parser!Find(s) # 0 /\ Len(Rest(s)) < 4
                    /\ Parser!Parse[s] = [left |-> Rest(s), frames |-> <<>>]
                 \/ /\ Parser!Find(s) # 0 /\ Len(Rest(s)) >= 4
                    /\ Parser!ValidAt(Rest(s), 1)
                    /\ Parser!Parse[s] =
                          [left |-> Parser!Parse[Drop(Rest(s), 4)].left,
                           frames |-> <<Rest(s)[3]>>
                                         \o Parser!Parse[Drop(Rest(s), 4)].frames]
                 \/ /\ Parser!Find(s) # 0 /\ Len(Rest(s)) >= 4
                    /\ ~Parser!ValidAt(Rest(s), 1)
                    /\ Parser!Parse[s] = Parser!Parse[Drop(Rest(s), 1)]
<1> DEFINE S == Seq(Byte)
           base == {r \in S : Len(r) < 3 \/ Parser!Find(r) = 0 \/ Len(Rest(r)) < 4}
           size == [r \in S |-> Len(r)]
           b == [r \in S |->
                   [left |-> IF Len(r) < 3 THEN r
                             ELSE IF Parser!Find(r) = 0 THEN Drop(r, Len(r) - 1)
                             ELSE Rest(r),
                    frames |-> <<>>]]
           next == [r \in S |-> IF r \in base THEN r
                                ELSE IF Parser!ValidAt(Rest(r), 1) THEN Drop(Rest(r), 4)
                                ELSE Drop(Rest(r), 1)]
           h == [r \in S |-> [v \in Parsed |->
                   IF r \notin base /\ Parser!ValidAt(Rest(r), 1)
                   THEN [left |-> v.left, frames |-> <<Rest(r)[3]>> \o v.frames]
                   ELSE v]]
<1>0. size \in [S -> Nat] /\ <<>> \in S
  BY Lengths
<1>1. b \in [S -> Parsed]
  <2>1. ASSUME NEW r \in S
        PROVE  (IF Len(r) < 3 THEN r
                ELSE IF Parser!Find(r) = 0 THEN Drop(r, Len(r) - 1) ELSE Rest(r)) \in S
    <3>1. CASE ~(Len(r) < 3) /\ Parser!Find(r) = 0
      <4>1. Len(r) \in Nat
        BY Lengths
      <4>2. Len(r) - 1 \in Nat /\ Len(r) - 1 <= Len(r)
        BY <3>1, <4>1
      <4>3. Drop(r, Len(r) - 1) \in S
        BY <4>2, Dropped
      <4> QED
        BY <3>1, <4>3
    <3> QED
      BY <3>1, RestIs
  <2> HIDE DEF S
  <2> QED
    BY <1>0, <2>1 DEF Parsed, S
<1>2. ASSUME NEW r \in S
      PROVE  next[r] \in S /\ (r \notin base => Len(next[r]) < Len(r))
  <2>1. CASE r \in base
    BY <2>1
  <2>2. CASE r \notin base
    <3>1. /\ Rest(r) \in S /\ Len(Rest(r)) \in Nat /\ Len(Rest(r)) >= 4
          /\ Len(Rest(r)) <= Len(r) /\ Len(r) \in Nat
      BY <2>2, RestIs, Lengths
    <3>a. /\ Rest(r) \in Seq(Byte) /\ 4 \in Nat /\ 4 <= Len(Rest(r))
          /\ 1 \in Nat /\ 1 <= Len(Rest(r))
      BY <3>1
    <3>b. Drop(Rest(r), 4) \in Seq(Byte) /\ Len(Drop(Rest(r), 4)) = Len(Rest(r)) - 4
      BY <3>a, Dropped
    <3>c. Drop(Rest(r), 1) \in Seq(Byte) /\ Len(Drop(Rest(r), 1)) = Len(Rest(r)) - 1
      BY <3>a, Dropped
    <3>2. /\ Drop(Rest(r), 4) \in S /\ Len(Drop(Rest(r), 4)) = Len(Rest(r)) - 4
          /\ Drop(Rest(r), 1) \in S /\ Len(Drop(Rest(r), 1)) = Len(Rest(r)) - 1
      BY <3>b, <3>c
    <3>3. next[r] = Drop(Rest(r), 4) \/ next[r] = Drop(Rest(r), 1)
      BY <2>2
    <3> HIDE DEF next
    <3> QED
      BY <3>1, <3>2, <3>3
  <2> QED
    BY <2>1, <2>2
<1>3. next \in [S -> S] /\ \A r \in S \ base : size[next[r]] < size[r]
  <2>1. \A r \in S : next[r] \in S
    BY <1>2
  <2>2. next \in [S -> S]
    BY <2>1
  <2> HIDE DEF next
  <2> QED
    BY <1>2, <2>1, <2>2
<1>4. h \in [S -> [Parsed -> Parsed]]
  <2>1. ASSUME NEW r \in S, NEW v \in Parsed
        PROVE  (IF r \notin base /\ Parser!ValidAt(Rest(r), 1)
                THEN [left |-> v.left, frames |-> <<Rest(r)[3]>> \o v.frames]
                ELSE v) \in Parsed
    <3>1. CASE r \notin base /\ Parser!ValidAt(Rest(r), 1)
      <4>1. Len(Rest(r)) \in Nat /\ Len(Rest(r)) >= 4 /\ Rest(r) \in S
        BY <3>1, RestIs
      <4>2. Rest(r)[3] \in Byte
        BY <4>1, Lengths
      <4>3. <<Rest(r)[3]>> \in Seq(Byte) /\ v.left \in Seq(Byte) /\ v.frames \in Seq(Byte)
        BY <4>2 DEF Parsed
      <4>4. <<Rest(r)[3]>> \o v.frames \in Seq(Byte)
        BY <4>3, Joined
      <4> QED
        BY <3>1, <4>3, <4>4 DEF Parsed
    <3> QED
      BY <3>1
  <2> HIDE DEF base
  <2> QED
    BY <2>1
<1> HIDE DEF base, size, b, next, h, S
<1>5. \E f : Computes(f, S, Parsed, base, b, next, h)
  <2>1. Descends(S, Parsed, size, base, b, next, h)
    BY <1>0, <1>1, <1>3, <1>4 DEF Descends
  <2> QED
    BY <2>1, Recursion
<1>f. PICK f : /\ f \in [S -> Parsed]
               /\ \A r \in S : f[r] = IF r \in base THEN b[r] ELSE h[r][f[next[r]]]
  BY <1>5 DEF Computes
<1>6. ASSUME NEW r \in S
      PROVE  f[r] = IF Len(r) < 3 THEN [left |-> r, frames |-> <<>>]
                    ELSE IF Parser!Find(r) = 0
                         THEN [left |-> Drop(r, Len(r) - 1), frames |-> <<>>]
                    ELSE IF Len(Rest(r)) < 4 THEN [left |-> Rest(r), frames |-> <<>>]
                    ELSE IF ~Parser!ValidAt(Rest(r), 1) THEN f[Drop(Rest(r), 1)]
                    ELSE [left |-> f[Drop(Rest(r), 4)].left,
                          frames |-> <<Rest(r)[3]>> \o f[Drop(Rest(r), 4)].frames]
  <2>1. CASE r \in base
    BY <1>f, <2>1 DEF base, b
  <2>2. CASE r \notin base
    <3>1. f[r] = h[r][f[next[r]]] /\ f[next[r]] \in Parsed
      BY <1>2, <1>f, <2>2
    <3>2. next[r] = IF Parser!ValidAt(Rest(r), 1) THEN Drop(Rest(r), 4)
                    ELSE Drop(Rest(r), 1)
      BY <2>2 DEF next
    <3>3. \A v \in Parsed : h[r][v] =
             IF Parser!ValidAt(Rest(r), 1)
             THEN [left |-> v.left, frames |-> <<Rest(r)[3]>> \o v.frames] ELSE v
      BY <2>2 DEF h
    <3>4. ~(Len(r) < 3) /\ Parser!Find(r) # 0 /\ ~(Len(Rest(r)) < 4)
      BY <2>2 DEF base
    <3> QED
      BY <3>1, <3>2, <3>3, <3>4
  <2> QED
    BY <2>1, <2>2
<1>7. Parses(f)
  <2>1. ASSUME NEW r \in S
        PROVE  f[r] = LET start == Parser!Find(r)
                          rest  == Parser!Drop(r, start - 1)
                          after == f[Parser!Drop(rest, Parser!FrameSize)]
                      IN  IF Len(r) < Parser!HeaderSize THEN [left |-> r, frames |-> <<>>]
                          ELSE IF start = 0
                               THEN [left |-> Parser!KeepMagicStart(r), frames |-> <<>>]
                          ELSE IF Len(rest) < Parser!FrameSize
                               THEN [left |-> rest, frames |-> <<>>]
                          ELSE IF ~Parser!ValidAt(rest, 1) THEN f[Parser!SkipByte(rest)]
                          ELSE [left |-> after.left, frames |-> <<rest[3]>> \o after.frames]
    BY <1>6, ParserSizes DEF Rest
  <2> QED
    BY <1>f, <2>1 DEF Parses, S
\* Parse has the same equation, and with it the same values.
<1>8. ASSUME NEW r \in S
      PROVE  Parser!Parse[r] =
                IF Len(r) < 3 THEN [left |-> r, frames |-> <<>>]
                ELSE IF Parser!Find(r) = 0
                     THEN [left |-> Drop(r, Len(r) - 1), frames |-> <<>>]
                ELSE IF Len(Rest(r)) < 4 THEN [left |-> Rest(r), frames |-> <<>>]
                ELSE IF ~Parser!ValidAt(Rest(r), 1) THEN Parser!Parse[Drop(Rest(r), 1)]
                ELSE [left |-> Parser!Parse[Drop(Rest(r), 4)].left,
                      frames |-> <<Rest(r)[3]>> \o Parser!Parse[Drop(Rest(r), 4)].frames]
  <2>1. PICK g : g = Parser!Parse
    OBVIOUS
  <2>2. Parses(g)
    BY <1>7, <2>1, ParseDefined
  <2>3. g[r] = LET start == Parser!Find(r)
                   rest  == Parser!Drop(r, start - 1)
                   after == g[Parser!Drop(rest, Parser!FrameSize)]
               IN  IF Len(r) < Parser!HeaderSize THEN [left |-> r, frames |-> <<>>]
                   ELSE IF start = 0
                        THEN [left |-> Parser!KeepMagicStart(r), frames |-> <<>>]
                   ELSE IF Len(rest) < Parser!FrameSize
                        THEN [left |-> rest, frames |-> <<>>]
                   ELSE IF ~Parser!ValidAt(rest, 1) THEN g[Parser!SkipByte(rest)]
                   ELSE [left |-> after.left, frames |-> <<rest[3]>> \o after.frames]
    BY <2>2 DEF Parses, S
  <2>4. g[r] = IF Len(r) < 3 THEN [left |-> r, frames |-> <<>>]
               ELSE IF Parser!Find(r) = 0
                    THEN [left |-> Drop(r, Len(r) - 1), frames |-> <<>>]
               ELSE IF Len(Rest(r)) < 4 THEN [left |-> Rest(r), frames |-> <<>>]
               ELSE IF ~Parser!ValidAt(Rest(r), 1) THEN g[Drop(Rest(r), 1)]
               ELSE [left |-> g[Drop(Rest(r), 4)].left,
                     frames |-> <<Rest(r)[3]>> \o g[Drop(Rest(r), 4)].frames]
    BY <2>3, ParserSizes DEF Rest
  <2> QED
    BY <2>1, <2>4
<1>a. ASSUME NEW r \in S, Parser!Find(r) # 0, Len(Rest(r)) >= 4
      PROVE  /\ Drop(Rest(r), 4) \in S /\ Len(Drop(Rest(r), 4)) < Len(r)
             /\ Drop(Rest(r), 1) \in S /\ Len(Drop(Rest(r), 1)) < Len(r)
  <2>1. /\ Len(r) \in Nat /\ Rest(r) \in Seq(Byte) /\ Len(Rest(r)) \in Nat
        /\ Len(Rest(r)) <= Len(r)
    BY <1>a, RestIs, Lengths DEF S
  <2>2. 4 \in Nat /\ 4 <= Len(Rest(r)) /\ 1 \in Nat /\ 1 <= Len(Rest(r))
    BY <1>a, <2>1
  <2>3. Drop(Rest(r), 4) \in Seq(Byte) /\ Len(Drop(Rest(r), 4)) = Len(Rest(r)) - 4
    BY <2>1, <2>2, Dropped
  <2>4. Drop(Rest(r), 1) \in Seq(Byte) /\ Len(Drop(Rest(r), 1)) = Len(Rest(r)) - 1
    BY <2>1, <2>2, Dropped
  <2> QED
    BY <2>1, <2>3, <2>4 DEF S
<1> DEFINE Bad == {r \in S : Parser!Parse[r] # f[r]}
<1>9. Bad = {}
  <2>1. SUFFICES ASSUME Bad # {} PROVE FALSE
    OBVIOUS
  <2>2. Bad \subseteq Seq(Byte)
    BY DEF S
  <2>3. PICK r \in Bad : \A t \in Bad : ~(Len(t) < Len(r))
    <3> HIDE DEF Bad
    <3> QED
      BY <2>1, <2>2, Shortest
  <2>4. r \in S /\ Parser!Parse[r] # f[r]
    BY <2>3
  <2>5. Parser!Find(r) # 0 /\ Len(Rest(r)) >= 4
    <3>1. Parser!Find(r) # 0 /\ ~(Len(Rest(r)) < 4)
      BY <1>6, <1>8, <2>4
    <3>2. Len(Rest(r)) \in Nat
      BY <2>4, <3>1, RestIs DEF S
    <3> QED
      BY <3>1, <3>2
  <2>6. /\ Drop(Rest(r), 4) \in S /\ Len(Drop(Rest(r), 4)) < Len(r)
        /\ Drop(Rest(r), 1) \in S /\ Len(Drop(Rest(r), 1)) < Len(r)
    BY <1>a, <2>4, <2>5
  <2>7. /\ Parser!Parse[Drop(Rest(r), 4)] = f[Drop(Rest(r), 4)]
        /\ Parser!Parse[Drop(Rest(r), 1)] = f[Drop(Rest(r), 1)]
    BY <2>3, <2>6
  <2> QED
    BY <1>6, <1>8, <2>4, <2>7
<1>10. Parser!Parse[s] = f[s] /\ f[s] \in Parsed
  BY <1>9, <1>f DEF S
<1>11. Len(s) \in Nat /\ (Parser!Find(s) # 0 => Len(Rest(s)) \in Nat)
  BY Lengths, RestIs
<1> HIDE DEF Bad
<1>12. Parser!Parse[s] =
                IF Len(s) < 3 THEN [left |-> s, frames |-> <<>>]
                ELSE IF Parser!Find(s) = 0
                     THEN [left |-> Drop(s, Len(s) - 1), frames |-> <<>>]
                ELSE IF Len(Rest(s)) < 4 THEN [left |-> Rest(s), frames |-> <<>>]
                ELSE IF ~Parser!ValidAt(Rest(s), 1) THEN Parser!Parse[Drop(Rest(s), 1)]
                ELSE [left |-> Parser!Parse[Drop(Rest(s), 4)].left,
                      frames |-> <<Rest(s)[3]>> \o Parser!Parse[Drop(Rest(s), 4)].frames]
  BY <1>8 DEF S
<1> QED
  <2>1. Len(s) < 3 => Parser!Parse[s] = [left |-> s, frames |-> <<>>]
    BY <1>12
  <2>2. CASE Len(s) >= 3 /\ Parser!Find(s) = 0
    BY <1>10, <1>11, <1>12, <2>2
  <2>3. CASE Len(s) >= 3 /\ Parser!Find(s) # 0 /\ Len(Rest(s)) < 4
    BY <1>10, <1>11, <1>12, <2>3
  <2>4. CASE Len(s) >= 3 /\ Parser!Find(s) # 0 /\ Len(Rest(s)) >= 4
    BY <1>10, <1>11, <1>12, <2>4
  <2>5. CASE Len(s) < 3
    BY <1>10, <1>11, <2>1, <2>5
  <2> QED
    BY <1>11, <2>2, <2>3, <2>4, <2>5

\* What a valid frame is made of, and that it stays one when the stream goes on.
LEMMA ValidIs ==
    ASSUME NEW s \in Seq(Byte), Len(s) >= 4
    PROVE  Parser!ValidAt(s, 1) <=> MagicAt(s, 1) /\ s[4] = s[3]
<1>1. Len(s) \in Nat /\ 1 \in 1..(Len(s) - 1)
  BY Lengths
<1>2. SubSeq(s, 1, 1 + 1) = Parser!Magic <=> MagicAt(s, 1)
  BY <1>1, MagicThere
<1>3. 1 + 3 = 4 /\ 1 + 2 = 3
  OBVIOUS
<1> QED
  BY <1>2, <1>3 DEF Parser!ValidAt

LEMMA ValidJoined ==
    ASSUME NEW s \in Seq(Byte), NEW x \in Seq(Byte), Len(s) >= 4
    PROVE  /\ s \o x \in Seq(Byte) /\ Len(s \o x) >= 4 /\ (s \o x)[3] = s[3]
           /\ Parser!ValidAt(s \o x, 1) <=> Parser!ValidAt(s, 1)
<1> DEFINE j == s \o x
<1>1. Len(s) \in Nat /\ Len(x) \in Nat
  BY Lengths
<1>2. /\ j \in Seq(Byte) /\ Len(j) = Len(s) + Len(x)
      /\ \A i \in 1..Len(s) : j[i] = s[i]
  BY Joined
<1> HIDE DEF j
<1>3. Len(j) >= 4 /\ {1, 2, 3, 4} \subseteq 1..Len(s)
  BY <1>1, <1>2
<1>4. j[1] = s[1] /\ j[2] = s[2] /\ j[3] = s[3] /\ j[4] = s[4]
  BY <1>2, <1>3
<1>5. MagicAt(j, 1) <=> MagicAt(s, 1)
  <2>1. 1 + 1 = 2
    OBVIOUS
  <2> QED
    BY <1>4, <2>1 DEF MagicAt
<1>6. Parser!ValidAt(j, 1) <=> Parser!ValidAt(s, 1)
  BY <1>2, <1>3, <1>4, <1>5, ValidIs
<1> QED
  BY <1>2, <1>3, <1>4, <1>6 DEF j

\* Bytes in front of which no magic starts hold no frame.
LEMMA SkippedFrames ==
    ASSUME NEW s \in Seq(Byte), NEW k \in 0..Len(s),
           \A i \in 1..k : i <= Len(s) - 1 => ~MagicAt(s, i)
    PROVE  Parser!FramesOf[s] = Parser!FramesOf[Drop(s, k)]
<1>0. Len(s) \in Nat /\ k \in Nat /\ k <= Len(s)
  BY Lengths
<1> DEFINE T == {n \in 0..k : Parser!FramesOf[Drop(s, n)] # Parser!FramesOf[s]}
<1>1. SUFFICES ASSUME T # {} PROVE FALSE
  BY <1>0
<1>2. T \subseteq Nat
  BY <1>0
<1>3. PICK n \in T : \A m \in T : ~(m < n)
  <2> HIDE DEF T
  <2> QED
    BY <1>1, <1>2, Least
<1>4. n \in 0..k /\ Parser!FramesOf[Drop(s, n)] # Parser!FramesOf[s]
  BY <1>3
<1>5. n # 0
  BY <1>4, DropAll
<1>6. n - 1 \in Nat /\ n - 1 < n /\ n - 1 \in 0..k /\ n - 1 <= Len(s) /\ n - 1 + 1 = n
  BY <1>0, <1>4, <1>5
<1>7. Parser!FramesOf[Drop(s, n - 1)] = Parser!FramesOf[s]
  BY <1>3, <1>6
<1> DEFINE d == Drop(s, n - 1)
<1>8. /\ d \in Seq(Byte) /\ Len(d) = Len(s) - (n - 1)
      /\ \A i \in 1..(Len(s) - (n - 1)) : d[i] = s[n - 1 + i]
  BY <1>6, Dropped
<1>9. Drop(d, 1) = Drop(s, n)
  <2>1. 1 \in Nat /\ n - 1 + 1 <= Len(s)
    BY <1>0, <1>4
  <2>2. Drop(Drop(s, n - 1), 1) = Drop(s, n - 1 + 1)
    BY <1>6, <2>1, DropTwice
  <2> QED
    BY <1>6, <2>2
<1> HIDE DEF d, T
<1>10. Len(d) \in Nat /\ Len(d) >= 1
  BY <1>0, <1>4, <1>8
<1>11. Drop(d, 1) \in Seq(Byte) /\ Len(Drop(d, 1)) = Len(d) - 1
  <2>1. 1 \in Nat /\ 1 <= Len(d)
    BY <1>10
  <2> QED
    BY <1>8, <2>1, Dropped
<1>12. CASE Len(d) < 4
  <2>1. Len(Drop(d, 1)) < 4
    BY <1>10, <1>11, <1>12
  <2>2. Parser!FramesOf[d] = <<>>
    BY <1>8, <1>12, FramesOfIs
  <2>3. Parser!FramesOf[Drop(d, 1)] = <<>>
    BY <1>11, <2>1, FramesOfIs
  <2> QED
    BY <1>4, <1>7, <1>9, <2>2, <2>3 DEF d
<1>13. CASE Len(d) >= 4
  <2>1. /\ 1 \in 1..(Len(s) - (n - 1)) /\ 2 \in 1..(Len(s) - (n - 1))
        /\ n - 1 + 1 = n /\ n - 1 + 2 = n + 1
        /\ n \in 1..k /\ n <= Len(s) - 1
    BY <1>0, <1>4, <1>5, <1>8, <1>13
  <2>2. d[1] = s[n] /\ d[2] = s[n + 1]
    BY <1>8, <2>1
  <2>3. ~MagicAt(s, n)
    BY <2>1
  <2>4. ~MagicAt(d, 1)
    <3>1. 1 + 1 = 2
      OBVIOUS
    <3> QED
      BY <2>2, <2>3, <3>1 DEF MagicAt
  <2>5. ~Parser!ValidAt(d, 1)
    BY <1>8, <1>13, <2>4, ValidIs
  <2>6. Parser!FramesOf[d] = Parser!FramesOf[Drop(d, 1)]
    BY <1>8, <1>13, <2>5, FramesOfIs
  <2> QED
    BY <1>4, <1>7, <1>9, <2>6 DEF d
<1> QED
  BY <1>10, <1>12, <1>13

\* The same in front of whatever follows.
LEMMA SkippedInFront ==
    ASSUME NEW s \in Seq(Byte), NEW x \in Seq(Byte), NEW k \in Nat, k < Len(s),
           \A i \in 1..k : ~MagicAt(s, i)
    PROVE  Parser!FramesOf[s \o x] = Parser!FramesOf[Drop(s, k) \o x]
<1>0. Len(s) \in Nat /\ Len(x) \in Nat /\ k \in 0..Len(s)
  BY Lengths
<1> DEFINE j == s \o x
<1>1. /\ j \in Seq(Byte) /\ Len(j) = Len(s) + Len(x)
      /\ \A i \in 1..Len(s) : j[i] = s[i]
  BY Joined
<1>2. Drop(j, k) = Drop(s, k) \o x
  BY <1>0, DropOfJoined
<1> HIDE DEF j
<1>3. ASSUME NEW i \in 1..k
      PROVE  ~MagicAt(j, i)
  <2>1. i \in 1..Len(s) /\ i + 1 \in 1..Len(s)
    BY <1>0
  <2>2. j[i] = s[i] /\ j[i + 1] = s[i + 1]
    BY <1>1, <2>1
  <2> QED
    BY <2>2 DEF MagicAt
<1>4. k \in 0..Len(j)
  BY <1>0, <1>1
<1>5. Parser!FramesOf[j] = Parser!FramesOf[Drop(j, k)]
  BY <1>1, <1>3, <1>4, SkippedFrames
<1> QED
  BY <1>2, <1>5 DEF j

\* What Parse has found and what it has left stand for all it has read, whatever follows.
Resumable(s) ==
    /\ Len(Parser!Parse[s].left) < 4
    /\ \A x \in Seq(Byte) :
          Parser!FramesOf[s \o x] =
             Parser!Parse[s].frames \o Parser!FramesOf[Parser!Parse[s].left \o x]

LEMMA Resumes ==
    ASSUME NEW s \in Seq(Byte)
    PROVE  Resumable(s)
<1> DEFINE Bad == {r \in Seq(Byte) : ~Resumable(r)}
<1>1. SUFFICES ASSUME Bad # {} PROVE FALSE
  OBVIOUS
<1>2. Bad \subseteq Seq(Byte)
  OBVIOUS
<1>3. PICK r \in Bad : \A t \in Bad : ~(Len(t) < Len(r))
  <2> HIDE DEF Bad
  <2> QED
    BY <1>1, <1>2, Shortest
<1>4. /\ r \in Seq(Byte) /\ ~Resumable(r)
      /\ \A t \in Seq(Byte) : Len(t) < Len(r) => Resumable(t)
  BY <1>3
<1> HIDE DEF Bad
<1>5. Len(r) \in Nat
  BY <1>4, Lengths
\* Nothing is found: what is left holds the frames.
<1>6. ASSUME NEW left \in Seq(Byte), Len(left) < 4,
             Parser!Parse[r] = [left |-> left, frames |-> <<>>],
             \A x \in Seq(Byte) : Parser!FramesOf[r \o x] = Parser!FramesOf[left \o x]
      PROVE  FALSE
  <2>1. Parser!Parse[r].left = left /\ Parser!Parse[r].frames = <<>>
    BY <1>6
  <2>2. ASSUME NEW x \in Seq(Byte)
        PROVE  Parser!FramesOf[r \o x] = <<>> \o Parser!FramesOf[left \o x]
    <3>1. left \o x \in Seq(Byte)
      BY Joined
    <3>2. Parser!FramesOf[left \o x] \in Seq(Byte)
      BY <3>1, FramesOfIs
    <3>3. <<>> \o Parser!FramesOf[left \o x] = Parser!FramesOf[left \o x]
      BY <3>2, JoinedEmpty
    <3> QED
      BY <1>6, <3>3
  <2> QED
    BY <1>4, <1>6, <2>1, <2>2 DEF Resumable
<1>7. CASE Len(r) < 3
  <2>1. Parser!Parse[r] = [left |-> r, frames |-> <<>>]
    BY <1>4, <1>7, ParseIs
  <2>2. Len(r) < 4
    BY <1>5, <1>7
  <2> QED
    BY <1>4, <1>6, <2>1, <2>2
<1>8. CASE Len(r) >= 3 /\ Parser!Find(r) = 0
  <2>1. Parser!Parse[r] = [left |-> Drop(r, Len(r) - 1), frames |-> <<>>]
    BY <1>4, <1>8, ParseIs
  <2>2. Len(r) - 1 \in Nat /\ Len(r) - 1 <= Len(r) /\ Len(r) - 1 < Len(r)
    BY <1>5, <1>8
  <2>3. Drop(r, Len(r) - 1) \in Seq(Byte) /\ Len(Drop(r, Len(r) - 1)) < 4
    <3>1. /\ Drop(r, Len(r) - 1) \in Seq(Byte)
          /\ Len(Drop(r, Len(r) - 1)) = Len(r) - (Len(r) - 1)
      BY <1>4, <2>2, Dropped
    <3>2. Len(r) - (Len(r) - 1) = 1 /\ 1 < 4
      BY <1>5
    <3>3. Len(Drop(r, Len(r) - 1)) = 1
      BY Zenon, <3>1, <3>2
    <3> QED
      BY Zenon, <3>1, <3>2, <3>3
  <2>4. \A i \in 1..(Len(r) - 1) : ~MagicAt(r, i)
    <3>1. Parser!Find(r) \notin 1..(Len(r) - 1)
      BY <1>5, <1>8
    <3> QED
      BY <1>4, <3>1, MagicFound
  <2>5. \A x \in Seq(Byte) :
           Parser!FramesOf[r \o x] = Parser!FramesOf[Drop(r, Len(r) - 1) \o x]
    BY <1>4, <2>2, <2>4, SkippedInFront
  <2> QED
    BY <1>6, <2>1, <2>3, <2>5
<1>9. CASE Len(r) >= 3 /\ Parser!Find(r) # 0
  <2> DEFINE q == Rest(r)
  <2>1. /\ q \in Seq(Byte) /\ Len(q) \in Nat /\ Len(q) <= Len(r)
        /\ q = Drop(r, Parser!Find(r) - 1)
    BY <1>4, <1>9, RestIs
  <2>2. \A x \in Seq(Byte) : Parser!FramesOf[r \o x] = Parser!FramesOf[q \o x]
    <3>1. /\ Parser!Find(r) \in 1..(Len(r) - 1)
          /\ \A i \in 1..(Parser!Find(r) - 1) : ~MagicAt(r, i)
      BY <1>4, <1>9, MagicFound
    <3>2. Parser!Find(r) - 1 \in Nat /\ Parser!Find(r) - 1 < Len(r)
      BY <1>5, <3>1
    <3> QED
      BY <1>4, <2>1, <3>1, <3>2, SkippedInFront
  <2>3. \/ Len(q) < 4 /\ Parser!Parse[r] = [left |-> q, frames |-> <<>>]
        \/ /\ Len(q) >= 4 /\ Parser!ValidAt(q, 1)
           /\ Parser!Parse[r] =
                 [left |-> Parser!Parse[Drop(q, 4)].left,
                  frames |-> <<q[3]>> \o Parser!Parse[Drop(q, 4)].frames]
        \/ /\ Len(q) >= 4 /\ ~Parser!ValidAt(q, 1)
           /\ Parser!Parse[r] = Parser!Parse[Drop(q, 1)]
    BY <1>4, <1>9, ParseIs
  <2> HIDE DEF q
  <2>4. CASE Len(q) < 4 /\ Parser!Parse[r] = [left |-> q, frames |-> <<>>]
    BY <1>6, <2>1, <2>2, <2>4
  <2>5. ASSUME NEW k \in {1, 4}, Len(q) >= 4
        PROVE  /\ Drop(q, k) \in Seq(Byte) /\ Resumable(Drop(q, k))
               /\ \A x \in Seq(Byte) : Drop(q \o x, k) = Drop(q, k) \o x
    <3>1. k \in Nat /\ k <= Len(q) /\ k \in 0..Len(q) /\ k >= 1
      BY <2>1, <2>5
    <3>2. Drop(q, k) \in Seq(Byte) /\ Len(Drop(q, k)) = Len(q) - k
      BY <2>1, <3>1, Dropped
    <3>3. Len(Drop(q, k)) < Len(r)
      BY <1>5, <2>1, <3>1, <3>2
    <3>4. Resumable(Drop(q, k))
      BY <1>4, <3>2, <3>3
    <3> QED
      BY <2>1, <3>1, <3>2, <3>4, DropOfJoined
  \* A candidate that is not a frame loses its first byte on both sides.
  <2>6. CASE /\ Len(q) >= 4 /\ ~Parser!ValidAt(q, 1)
             /\ Parser!Parse[r] = Parser!Parse[Drop(q, 1)]
    <3>1. /\ Resumable(Drop(q, 1))
          /\ \A x \in Seq(Byte) : Drop(q \o x, 1) = Drop(q, 1) \o x
      BY <2>5, <2>6
    <3>2. ASSUME NEW x \in Seq(Byte)
          PROVE  Parser!FramesOf[r \o x] = Parser!FramesOf[Drop(q, 1) \o x]
      <4>1. q \o x \in Seq(Byte) /\ Len(q \o x) >= 4 /\ ~Parser!ValidAt(q \o x, 1)
        BY <2>1, <2>6, ValidJoined
      <4>2. Parser!FramesOf[q \o x] = Parser!FramesOf[Drop(q \o x, 1)]
        BY <4>1, FramesOfIs
      <4> QED
        BY <2>2, <3>1, <4>2
    <3> QED
      BY <1>4, <2>6, <3>1, <3>2 DEF Resumable
  \* A frame is found on both sides.
  <2>7. CASE /\ Len(q) >= 4 /\ Parser!ValidAt(q, 1)
             /\ Parser!Parse[r] =
                   [left |-> Parser!Parse[Drop(q, 4)].left,
                    frames |-> <<q[3]>> \o Parser!Parse[Drop(q, 4)].frames]
    <3>1. /\ Resumable(Drop(q, 4)) /\ Drop(q, 4) \in Seq(Byte)
          /\ \A x \in Seq(Byte) : Drop(q \o x, 4) = Drop(q, 4) \o x
      BY <2>5, <2>7
    <3> DEFINE p == Parser!Parse[Drop(q, 4)]
    <3>2. p.left \in Seq(Byte) /\ p.frames \in Seq(Byte)
      <4>1. p \in Parsed
        BY <3>1, ParseIs
      <4> HIDE DEF p
      <4> QED
        BY <4>1 DEF Parsed
    <3>3. <<q[3]>> \in Seq(Byte)
      <4>1. q[3] \in Byte
        <5>1. 3 \in 1..Len(q)
          BY <2>1, <2>7
        <5> QED
          BY <2>1, <5>1, Lengths
      <4> QED
        BY <4>1
    <3>4. Parser!Parse[r].left = p.left /\ Parser!Parse[r].frames = <<q[3]>> \o p.frames
      BY <2>7
    <3>5. /\ Len(p.left) < 4
          /\ \A x \in Seq(Byte) : Parser!FramesOf[Drop(q, 4) \o x] =
                                     p.frames \o Parser!FramesOf[p.left \o x]
      BY <3>1 DEF Resumable
    <3> HIDE DEF p
    <3>6. ASSUME NEW x \in Seq(Byte)
          PROVE  Parser!FramesOf[r \o x] =
                    (<<q[3]>> \o p.frames) \o Parser!FramesOf[p.left \o x]
      <4>1. /\ q \o x \in Seq(Byte) /\ Len(q \o x) >= 4 /\ Parser!ValidAt(q \o x, 1)
            /\ (q \o x)[3] = q[3]
        BY <2>1, <2>7, ValidJoined
      <4>2. Parser!FramesOf[q \o x] = <<(q \o x)[3]>> \o Parser!FramesOf[Drop(q \o x, 4)]
        BY <4>1, FramesOfIs
      <4>3. Parser!FramesOf[r \o x] =
               <<q[3]>> \o (p.frames \o Parser!FramesOf[p.left \o x])
        BY <2>2, <3>1, <3>5, <4>1, <4>2
      <4>4. p.left \o x \in Seq(Byte)
        BY <3>2, Joined
      <4>5. Parser!FramesOf[p.left \o x] \in Seq(Byte)
        BY <4>4, FramesOfIs
      <4>6. (<<q[3]>> \o p.frames) \o Parser!FramesOf[p.left \o x] =
               <<q[3]>> \o (p.frames \o Parser!FramesOf[p.left \o x])
        <5>1. PICK a : a = <<q[3]>>
          OBVIOUS
        <5>2. PICK c : c = p.frames
          OBVIOUS
        <5>3. PICK e : e = Parser!FramesOf[p.left \o x]
          OBVIOUS
        <5>4. a \in Seq(Byte) /\ c \in Seq(Byte) /\ e \in Seq(Byte)
          BY <3>2, <3>3, <4>5, <5>1, <5>2, <5>3
        <5>5. (a \o c) \o e = a \o (c \o e)
          BY <5>4
        <5> QED
          BY <5>1, <5>2, <5>3, <5>5
      <4> QED
        BY <4>3, <4>6
    <3> QED
      BY <1>4, <3>4, <3>5, <3>6 DEF Resumable
  <2> QED
    BY <2>3, <2>4, <2>6, <2>7
<1> QED
  BY <1>5, <1>7, <1>8, <1>9

----------------------------------------------------------------------------
\* The parser behind the client.

\* The frames found, f, and those of what is left, b, are the frames of the data, d,
\* whatever comes next.
Covers(d, b, f) ==
    \A x \in Seq(Byte) :
        Parser!FramesOf[d \o x] = f \o Parser!FramesOf[b \o x]

FrameInv ==
    /\ delivered \in Seq(Byte) /\ buffer \in Seq(Byte) /\ frames \in Seq(Byte)
    /\ Len(buffer) < Parser!FrameSize
    /\ pc = "started" => delivered = <<>>
    /\ Covers(delivered, buffer, frames)

\* What the reader hands over are bytes, never an answer.
LEMMA BytesHeld ==
    ASSUME Inv
    PROVE  chunk \in Seq(Byte) /\ Extended \in Seq(Byte)
<1>1. /\ TypeInv /\ chunk \in Seq(Symbol) /\ exit_buffer \in Seq(Symbol)
      /\ Free(chunk) /\ IsPrefix(exit_buffer, Exited) /\ Len(exit_buffer) <= 3
  BY DEF Inv, TypeInv, FlagInv
<1>2. Symbol \ Answers \subseteq Byte
  BY ByteAssumption DEF Symbol, Answers, Text
<1>3. \A i \in 1..Len(chunk) : chunk[i] \in Byte
  BY <1>1, <1>2, Lengths DEF Free, Lacks
<1>4. \A i \in 1..Len(exit_buffer) : exit_buffer[i] \in Byte
  <2>a. Len(exit_buffer) \in Nat /\ Len(Exited) = 4
    BY <1>1, ExitLine, Lengths
  <2>b. Len(exit_buffer) <= Len(Exited) /\ Take(Exited, Len(exit_buffer)) = exit_buffer
    BY <1>1 DEF IsPrefix
  <2>1. PICK n : n = Len(exit_buffer)
    OBVIOUS
  <2>c. n \in 0..Len(Exited) /\ n \in Nat /\ n <= 3
    BY <1>1, <2>a, <2>b, <2>1
  <2>d. Take(Exited, n) = exit_buffer
    BY Zenon, <2>b, <2>1
  <2>2. \A i \in 1..n : Take(Exited, n)[i] = Exited[i]
    BY <2>c, ExitLine, Taking
  <2>3. \A i \in 1..Len(exit_buffer) : exit_buffer[i] = Exited[i] /\ i \in 1..3
    BY <2>1, <2>c, <2>d, <2>2
  <2>4. Exited[1] \in Byte /\ Exited[2] \in Byte /\ Exited[3] \in Byte
    BY ExitLine, ByteAssumption
  <2>5. \A i \in 1..3 : Exited[i] \in Byte
    BY <2>4
  <2> QED
    BY <2>3, <2>5
<1>5. chunk \in Seq(Byte)
  BY <1>1, <1>3, SeqOfElements
<1>6. exit_buffer \in Seq(Byte)
  BY <1>1, <1>4, SeqOfElements
<1> QED
  BY <1>5, <1>6, Joined DEF Extended

\* A beginning of what the reader has, up to the exit line or to what may become one.
LEMMA HandedBytes ==
    ASSUME Inv, exit_pending
    PROVE  /\ Take(Extended, Len(Extended) - PendingExitPrefixLen(Extended)) \in Seq(Byte)
           /\ FindExit(Extended) # 0 => Take(Extended, FindExit(Extended) - 1) \in Seq(Byte)
<1>1. /\ TypeInv /\ FlagInv /\ StreamInv /\ Extended \in Seq(Byte)
      /\ Extended \in Seq(Symbol) /\ Len(Extended) \in Nat
  BY BytesHeld, ExtendedRead, Lengths DEF Inv
<1>2. \A k \in 0..Len(Extended) : Take(Extended, k) \in Seq(Byte)
  BY <1>1, Taking
<1>3. PICK n : n = PendingExitPrefixLen(Extended)
  OBVIOUS
<1>4. n \in 0..3 /\ n <= Len(Extended)
  BY <1>1, <1>3, PrefixHeld
<1>5. Len(Extended) - n \in 0..Len(Extended)
  BY <1>1, <1>4
<1>6. PICK at : at = FindExit(Extended)
  OBVIOUS
<1>7. at = 0 \/ at \in 1..(Len(Extended) - 3)
  BY <1>1, <1>6, ExitFound
<1>8. at # 0 => at - 1 \in 0..Len(Extended)
  BY <1>1, <1>7
<1> QED
  BY <1>2, <1>3, <1>5, <1>6, <1>8

LEMMA JoinedRest ==
    ASSUME NEW S, NEW s \in Seq(S), NEW t \in Seq(S)
    PROVE  Drop(s \o t, Len(s)) = t
<1>1. Drop(s \o t, Len(s)) = Drop(s, Len(s)) \o t
  <2>1. Len(s) \in 0..Len(s)
    BY Lengths
  <2> QED
    BY <2>1, DropOfJoined
<1>2. Drop(s, Len(s)) = <<>>
  <2>1. Len(s) \in Nat
    BY Lengths
  <2>2. Drop(s, Len(s)) \in Seq(S) /\ Len(Drop(s, Len(s))) = Len(s) - Len(s)
    BY <2>1, Dropped
  <2> QED
    BY <2>1, <2>2, Lengths
<1> QED
  BY <1>1, <1>2, JoinedEmpty

\* A step hands over a piece, or belongs to a new client, or leaves the data alone.
LEMMA Delivers ==
    ASSUME Inv, [Next]_vars
    PROVE  \/ UNCHANGED delivered /\ (pc' = "started" => pc = "started")
           \/ delivered' = <<>> /\ pc' = "started"
           \/ /\ pc' # "started"
              /\ \E data \in Seq(Byte) : delivered' = delivered \o data
<1> USE DEF history, caller
<1>0. CASE UNCHANGED vars
  BY <1>0 DEF vars
<1>1. CASE Firmware \/ Environment
  BY <1>1 DEF Firmware, Environment, AnswerAt, AnswerEnter, AnswerEscape, Notify, Indicate,
              LinkLost, EscapeMissed, Say, ClientIdle
<1>2. CASE ReadBegins \/ ReadTimesOut \/ ReadControl \/ ReadData \/ HandleRest
  BY <1>2 DEF ReadBegins, ReadTimesOut, ReadControl, ReadData, HandleRest, Others
<1>3. CASE HandleStream \/ HandleNoExit \/ HandleExit
  <2>1. pc' = pc /\ pc # "started"
    <3>1. reading = "handle" /\ pc' = pc
      BY <1>3 DEF HandleStream, HandleNoExit, HandleExit, Others
    <3>2. InSession
      BY <3>1 DEF Inv, FlagInv
    <3> QED
      BY <3>1, <3>2 DEF InSession
  <2>2. \E data \in Seq(Byte) : Deliver(data)
    <3>1. CASE HandleStream
      BY <3>1, BytesHeld DEF HandleStream
    <3>2. CASE HandleNoExit
      BY <3>2, BytesHeld, HandedBytes DEF HandleNoExit
    <3>3. CASE HandleExit
      BY <3>3, BytesHeld, HandedBytes DEF HandleExit
    <3> QED
      BY <1>3, <3>1, <3>2, <3>3
  <2> QED
    BY <2>1, <2>2 DEF Deliver
<1>4. CASE SyncBegins \/ SyncWrites \/ SyncFails \/ RecoverResets \/ RecoverEscapes
  BY <1>4 DEF SyncBegins, SyncWrites, SyncFails, RecoverResets, RecoverEscapes, Waits,
              TimesOut
<1>5. CASE SyncDone \/ RecoverEscaped
  BY <1>5 DEF SyncDone, RecoverEscaped, Waits, Gets, Skips, TimesOut
<1>6. CASE EnterOk \/ EnterDone \/ ExitWrites \/ ExitSeen \/ ExitFails
  BY <1>6 DEF EnterOk, EnterDone, ExitWrites, ExitSeen, ExitFails, Waits, Gets, Skips,
              TimesOut
<1>7. CASE EnterWrites \/ ExitBegins \/ ExitAgain
  BY <1>7 DEF EnterWrites, ExitBegins, ExitAgain
<1>8. CASE StartedAgain \/ Killed
  BY <1>8 DEF StartedAgain, Killed, NewClient
<1> QED
  BY <1>0, <1>1, <1>2, <1>3, <1>4, <1>5, <1>6, <1>7, <1>8 DEF Next, Reader, Caller

\* A stream that nothing was read of.
LEMMA EmptyRead ==
    /\ <<>> \in Seq(Byte) /\ Len(<<>>) < Parser!FrameSize
    /\ Covers(<<>>, <<>>, <<>>)
<1>1. <<>> \in Seq(Byte) /\ Len(<<>>) < Parser!FrameSize
  BY ParserSizes
<1>2. ASSUME NEW x \in Seq(Byte)
      PROVE  Parser!FramesOf[<<>> \o x] = <<>> \o Parser!FramesOf[<<>> \o x]
  <2>1. <<>> \o x = x
    BY JoinedEmpty
  <2>2. Parser!FramesOf[x] \in Seq(Byte)
    BY FramesOfIs
  <2>3. <<>> \o Parser!FramesOf[x] = Parser!FramesOf[x]
    BY <2>2, JoinedEmpty
  <2> QED
    BY <2>1, <2>3
<1> QED
  BY <1>1, <1>2 DEF Covers

LEMMA FrameInit ==
    ASSUME E2eInit
    PROVE  FrameInv
<1>1. delivered = <<>> /\ buffer = <<>> /\ frames = <<>>
  BY DEF E2eInit, Init
<1> QED
  BY <1>1, EmptyRead DEF FrameInv

\* A piece more, whatever its size: what is read of buffer and piece.
LEMMA FramesFed ==
    ASSUME NEW d \in Seq(Byte), NEW b \in Seq(Byte), NEW f \in Seq(Byte),
           NEW data \in Seq(Byte), Covers(d, b, f)
    PROVE  LET parsed == Parser!Feed(b, data)
           IN  /\ parsed.left \in Seq(Byte) /\ Len(parsed.left) < 4
               /\ f \o parsed.frames \in Seq(Byte)
               /\ Covers(d \o data, parsed.left, f \o parsed.frames)
<1> DEFINE c == b \o data
           parsed == Parser!Feed(b, data)
<1>1. c \in Seq(Byte)
  BY Joined
<1>2. parsed = Parser!Parse[c]
  BY DEF Parser!Feed, parsed
<1>a. ASSUME NEW x \in Seq(Byte)
      PROVE  c \o x = b \o (data \o x) /\ (d \o data) \o x = d \o (data \o x)
  <2>1. c \o x = b \o (data \o x)
    OBVIOUS
  <2>2. (d \o data) \o x = d \o (data \o x)
    OBVIOUS
  <2> QED
    BY <2>1, <2>2
<1> HIDE DEF c, parsed
<1>3. parsed \in Parsed /\ Resumable(c)
  BY <1>1, <1>2, ParseIs, Resumes
<1>4. parsed.left \in Seq(Byte) /\ parsed.frames \in Seq(Byte)
  BY <1>3 DEF Parsed
<1>5. /\ Len(parsed.left) < 4
      /\ \A x \in Seq(Byte) : Parser!FramesOf[c \o x] =
                                 parsed.frames \o Parser!FramesOf[parsed.left \o x]
  BY <1>2, <1>3 DEF Resumable
<1>6. f \o parsed.frames \in Seq(Byte)
  BY <1>4, Joined
<1>7. ASSUME NEW x \in Seq(Byte)
      PROVE  Parser!FramesOf[(d \o data) \o x] =
                (f \o parsed.frames) \o Parser!FramesOf[parsed.left \o x]
  <2>1. data \o x \in Seq(Byte) /\ parsed.left \o x \in Seq(Byte)
    BY <1>4, Joined
  <2>2. Parser!FramesOf[d \o (data \o x)] = f \o Parser!FramesOf[b \o (data \o x)]
    BY <2>1 DEF Covers
  <2>3. Parser!FramesOf[(d \o data) \o x] = f \o Parser!FramesOf[c \o x]
    BY <1>a, <2>2
  <2>4. Parser!FramesOf[parsed.left \o x] \in Seq(Byte)
    BY <2>1, FramesOfIs
  <2>5. PICK g : g = parsed.frames
    OBVIOUS
  <2>6. PICK e : e = Parser!FramesOf[parsed.left \o x]
    OBVIOUS
  <2>7. g \in Seq(Byte) /\ e \in Seq(Byte)
    BY <1>4, <2>4, <2>5, <2>6
  <2>8. (f \o g) \o e = f \o (g \o e)
    BY <2>7
  <2> QED
    BY <1>5, <2>3, <2>5, <2>6, <2>8
<1>8. Covers(d \o data, parsed.left, f \o parsed.frames)
  BY <1>7 DEF Covers
<1> QED
  BY <1>4, <1>5, <1>6, <1>8 DEF parsed

LEMMA FrameStep ==
    ASSUME Inv, FrameInv, [E2eNext]_<<vars, handler>>
    PROVE  FrameInv'
<1>0. CASE UNCHANGED <<vars, handler>>
  <2>1. UNCHANGED <<delivered, pc, buffer, frames>>
    BY <1>0 DEF vars, history, caller, handler
  <2> QED
    BY <2>1 DEF FrameInv
<1>1. CASE E2eNext
  <2>1. Next /\ Handle
    BY <1>1 DEF E2eNext
  <2> DEFINE new == Drop(delivered', Len(delivered))
  <2>2. \/ UNCHANGED delivered /\ (pc' = "started" => pc = "started")
        \/ delivered' = <<>> /\ pc' = "started"
        \/ /\ pc' # "started"
           /\ \E data \in Seq(Byte) : delivered' = delivered \o data
    BY <2>1, Delivers
  <2>3. CASE pc' = "started"
    <3>1. delivered' = <<>>
      BY <2>2, <2>3 DEF FrameInv
    <3>2. buffer' = <<>> /\ frames' = <<>>
      BY <2>1, <2>3 DEF Handle
    <3> QED
      BY <3>1, <3>2, EmptyRead DEF FrameInv
  <2>4. CASE pc' # "started"
    <3>1. PICK data \in Seq(Byte) : delivered' = delivered \o data
      <4>1. CASE UNCHANGED delivered
        <5>1. delivered' = delivered \o <<>> /\ <<>> \in Seq(Byte)
          BY <4>1, JoinedEmpty DEF FrameInv
        <5> QED
          BY <5>1
      <4> QED
        BY <2>2, <2>4, <4>1
    <3>2. new = data
      BY <3>1, JoinedRest DEF FrameInv
    <3> HIDE DEF new
    <3>3. /\ delivered' \in Seq(Byte)
          /\ IF data = <<>> THEN UNCHANGED handler
             ELSE /\ buffer' = Parser!Feed(buffer, data).left
                  /\ frames' = frames \o Parser!Feed(buffer, data).frames
      <4>1. IF new = <<>> THEN UNCHANGED handler
            ELSE /\ buffer' = Parser!Feed(buffer, new).left
                 /\ frames' = frames \o Parser!Feed(buffer, new).frames
        BY <2>1, <2>4 DEF Handle, new
      <4>2. delivered' \in Seq(Byte)
        BY <3>1, Joined DEF FrameInv
      <4> QED
        BY <3>2, <4>1, <4>2
    <3>4. CASE data = <<>>
      <4>1. delivered' = delivered /\ UNCHANGED handler
        BY <3>1, <3>3, <3>4, JoinedEmpty DEF FrameInv
      <4> QED
        BY <2>4, <4>1 DEF FrameInv, handler
    <3>5. CASE data # <<>>
      <4>1. PICK parsed : parsed = Parser!Feed(buffer, data)
        OBVIOUS
      <4>2. buffer' = parsed.left /\ frames' = frames \o parsed.frames
        BY <3>3, <3>5, <4>1
      <4>3. /\ parsed.left \in Seq(Byte) /\ Len(parsed.left) < 4
            /\ frames \o parsed.frames \in Seq(Byte)
            /\ Covers(delivered \o data, parsed.left, frames \o parsed.frames)
        BY <4>1, FramesFed DEF FrameInv
      <4> QED
        BY <2>4, <3>1, <3>3, <4>2, <4>3, ParserSizes DEF FrameInv
    <3> QED
      BY <3>4, <3>5
  <2> QED
    BY <2>3, <2>4
<1> QED
  BY <1>0, <1>1

LEMMA FrameExact ==
    ASSUME FrameInv
    PROVE  FramesExact
<1>1. <<>> \in Seq(Byte) /\ delivered \o <<>> = delivered /\ buffer \o <<>> = buffer
  BY JoinedEmpty DEF FrameInv
<1>2. Parser!FramesOf[delivered] = frames \o Parser!FramesOf[buffer]
  <2>1. Parser!FramesOf[delivered \o <<>>] = frames \o Parser!FramesOf[buffer \o <<>>]
    BY <1>1 DEF FrameInv, Covers
  <2> QED
    BY <1>1, <2>1
<1>3. Parser!FramesOf[buffer] = <<>>
  BY FramesOfIs, ParserSizes DEF FrameInv
<1>4. frames \o <<>> = frames
  BY JoinedEmpty DEF FrameInv
<1> QED
  BY <1>2, <1>3, <1>4 DEF FramesExact

\* The frames found are those of the data as a whole, whatever pieces reads cut it into
\* and whatever looks like a header without being one.
THEOREM FramesFound == E2eSpec => []FramesExact
<1>1. E2eSpec => []Inv
  BY HandlerFollows, InvAlways, PTL
<1>2. Inv /\ FrameInv /\ [E2eNext]_<<vars, handler>> => FrameInv'
  BY FrameStep
<1>3. E2eInit => FrameInv
  BY FrameInit
<1>4. FrameInv => FramesExact
  BY FrameExact
<1> QED
  BY <1>1, <1>2, <1>3, <1>4, PTL DEF E2eSpec

=============================================================================
