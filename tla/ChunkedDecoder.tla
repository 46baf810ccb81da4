--------------------------- MODULE ChunkedDecoder ---------------------------
(***************************************************************************)
(* decode_chunked of http_utils.cpp, one pass of its while loop per step.  *)
(* The body is what SSL_read delivered before it ended, so it may stop at  *)
(* any byte.  Positions are size_t: their sums are taken modulo 2^Width.   *)
(*                                                                         *)
(* A body is a sequence of one-character strings, with "CR" and "LF".      *)
(***************************************************************************)
EXTENDS Integers, SequencesExt

CONSTANTS
    Width,    \* bits of size_t and of unsigned long
    Messages, \* what servers send: records of chunks and the extension of sizes
    Bodies,   \* bodies that nobody has encoded
    MaxOut,   \* out.max_size(), or where the memory ends
    Null

ChunkedAssumption ==
    /\ Width \in Nat
    /\ MaxOut \in Nat
    /\ \A b \in Bodies : Len(b) + 2 < 2^Width /\ Len(b) <= MaxOut
    /\ Null \notin Messages

HexDigits == <<"0", "1", "2", "3", "4", "5", "6", "7",
               "8", "9", "a", "b", "c", "d", "e", "f">>
Spaces == {" ", "CR", "LF"}
Crlf == <<"CR", "LF">>

(***************************************************************************)
(* The encoding (external: the server).  Sizes have one digit.             *)
(***************************************************************************)
SizeLine(n, ext) == <<HexDigits[n + 1]>> \o ext \o Crlf
ChunkOf(data, ext) == SizeLine(Len(data), ext) \o data \o Crlf
Wire(m) == FlattenSeq([j \in DOMAIN m.chunks |-> ChunkOf(m.chunks[j], m.ext)])
           \o SizeLine(0, m.ext) \o Crlf

\* How many bytes of the wire it takes to have all data of the first k chunks.
Needed(m, k) ==
    Len(FlattenSeq([j \in 1..k |-> ChunkOf(m.chunks[j], m.ext)])) - 2

(***************************************************************************)
(* The string operations of the loop; positions count from 0.              *)
(***************************************************************************)
Add(x, y) == (x + y) % 2^Width

\* s.substr(from, n)
Sub(s, from, n) == SubSeq(s, from + 1, IF from + n > Len(s) THEN Len(s) ELSE from + n)

\* body.find("\r\n", from): the set of that position, empty for npos.
FindCrlf(s, from) ==
    {e \in from..(Len(s) - 2) : /\ Sub(s, e, 2) = Crlf
                               /\ \A f \in from..(e - 1) : Sub(s, f, 2) # Crlf}

\* What std::stoul skips before the digits: white space, a sign, 0x.
IsLead(p) ==
    \E w \in 0..Len(p) :
        /\ \A j \in 1..w : p[j] \in Spaces
        /\ SubSeq(p, w + 1, Len(p)) \in
              {sign \o base : sign \in {<<>>, <<"+">>, <<"-">>}, base \in {<<>>, <<"0", "x">>}}

Number(digits) ==
    FoldLeft(LAMBDA acc, c : 16 * acc + (CHOOSE v \in 0..15 : HexDigits[v + 1] = c), 0, digits)

\* Where the digits begin that std::stoul reads, and where they end.
Starts(line) ==
    {a \in 1..Len(line) : line[a] \in ToSet(HexDigits) /\ IsLead(SubSeq(line, 1, a - 1))}
Numerals(line) ==
    {r \in Starts(line) \X (1..Len(line)) :
        /\ r[1] = Max(Starts(line)) /\ r[1] <= r[2]
        /\ \A j \in r[1]..r[2] : line[j] \in ToSet(HexDigits)
        /\ r[2] = Len(line) \/ line[r[2] + 1] \notin ToSet(HexDigits)}

\* std::stoul(line, nullptr, 16): the set of its value, empty where it throws.
\* The code trims the line and cuts it at ";" first; stoul would skip the one
\* and stop at the other by itself.
Stoul(line) ==
    {IF Contains(SubSeq(line, 1, r[1] - 1), "-")
     THEN (2^Width - Number(SubSeq(line, r[1], r[2]))) % 2^Width
     ELSE Number(SubSeq(line, r[1], r[2])) :
        r \in {r \in Numerals(line) : Number(SubSeq(line, r[1], r[2])) < 2^Width}}

VARIABLES
    sent,   \* the message the body is the beginning of, or Null
    body,
    i, out, \* the locals of decode_chunked
    pc,
    wrapped \* history: a sum of positions has exceeded size_t

vars == <<sent, body, i, out, pc, wrapped>>

Init ==
    /\ \/ sent = Null /\ body \in Bodies
       \/ /\ sent \in Messages
          /\ \E cut \in 0..Len(Wire(sent)) : body = SubSeq(Wire(sent), 1, cut)
    /\ i = 0 /\ out = <<>> /\ pc = "loop" /\ wrapped = FALSE

\* Mutants: a chunk that is not all there is taken, the CRLF after it is left
\* standing, one byte of it is taken along.
FitsAlways(from, len) == TRUE
SkipNothing(at) == at
TakeOneMore(from, len) == Sub(body, from, len + 1)

Fits(from, len) == Add(from, len) <= Len(body)
SkipCrlf(at) ==
    IF Add(at, 2) <= Len(body) /\ Sub(body, at, 2) = Crlf THEN Add(at, 2) ELSE at
Take(from, len) == Sub(body, from, len)

\* A chunk that can be taken: where its data begins, and how long it is.
\* Without one the loop breaks.
Chunks ==
    UNION {{<<e + 2, len>> : len \in Stoul(Sub(body, i, e - i))} : e \in FindCrlf(body, i)}
HasChunk ==
    i < Len(body) /\ \E c \in Chunks : c[2] # 0 /\ Fits(c[1], c[2])

Break ==
    /\ pc = "loop"
    /\ ~HasChunk
    /\ pc' = "done"
    /\ UNCHANGED <<sent, body, i, out, wrapped>>

\* append throws when the result is too long.
TakeChunk ==
    /\ pc = "loop"
    /\ HasChunk
    /\ \E c \in Chunks :
          LET longer == out \o Take(c[1], c[2]) IN
          /\ wrapped' = (wrapped \/ c[1] + c[2] >= 2^Width)
          /\ \/ /\ Len(longer) <= MaxOut
                /\ out' = longer
                /\ i' = SkipCrlf(Add(c[1], c[2]))
                /\ UNCHANGED pc
             \/ /\ Len(longer) > MaxOut
                /\ pc' = "thrown"
                /\ UNCHANGED <<out, i>>
    /\ UNCHANGED <<sent, body>>

Next == Break \/ TakeChunk

Spec == Init /\ [][Next]_vars
-----------------------------------------------------------------------------
\* The position never leaves the body, so that append and substr, which
\* throw for a position behind the end, never do.
TypeOK ==
    /\ i \in 0..Len(body)
    /\ pc \in {"loop", "done", "thrown"}
    /\ out \in Seq(ToSet(body))
    /\ wrapped \in BOOLEAN

\* What is decoded of a body that a server has encoded, and that stopped
\* anywhere, is the data of the chunks that have arrived whole: whatever the
\* data looks like, and with or without extensions.
WholeChunks ==
    pc = "done" /\ sent # Null =>
        LET n == CHOOSE k \in 0..Len(sent.chunks) :
                    /\ k = 0 \/ Needed(sent, k) <= Len(body)
                    /\ \A m \in (k + 1)..Len(sent.chunks) : Needed(sent, m) > Len(body)
        IN out = FlattenSeq(SubSeq(sent.chunks, 1, n))

\* As long as no sum of positions wraps, a pass of the loop leaves behind the
\* bytes it has taken and at least a digit and a CRLF: no byte is taken twice,
\* the result stays shorter than the body, and the loop ends.  (A size no body
\* can have passes the check i + len > body.size() when the sum wraps; i then
\* goes back, and the loop may repeat for ever.)
AdvanceStep == ~wrapped' /\ pc' # "done" => i' >= i + (Len(out') - Len(out)) + 3
Advances == [][AdvanceStep]_vars
=============================================================================
