--------------------------- MODULE MCConversions ---------------------------
(***************************************************************************)
(* What a request and its answer go through, on small instances for TLC:   *)
(* the Python boundary (PyBoundary), the command line, the bridge to       *)
(* QuickJS, the chunks of an HTTP body and the query of a URL.  A          *)
(* behaviour is about one part; the variables of the others are Null, or   *)
(* stay where PyBoundary begins.                                           *)
(***************************************************************************)
EXTENDS PyBoundary

CONSTANTS
    t1, t2,
    text, textNul, other, proto, empty, nul,                \* strings of the bridge
    blank, sig, sigSpace, wordN, dash, local, localUpper, watch \* words of the command line

VARIABLES
    part,
    sent, body, i, out, pc, wrapped,
    url, sets, last,
    json, js, stage,
    argv, requests, asked, exit

cvars == <<sent, body, i, out, pc, wrapped>>
uvars == <<url, sets, last>>
jvars == <<json, js, stage>>
tvars == <<argv, requests, asked, exit>>
mcvars == <<part, vars, cvars, uvars, jvars, tvars>>

-----------------------------------------------------------------------------
(***************************************************************************)
(* The Python boundary.                                                    *)
(***************************************************************************)
MCThreads == {t1, t2}

N == <<"n">>
Sig == <<"sig">>
C == <<"c">>
MCTexts == {N, Sig, C, <<"n", "NUL", "c">>, <<"NUL", "c">>, <<"c", "NUL", "c">>, <<"surrogate">>}
D(type, challenge) == [isDict |-> TRUE, type |-> type, challenge |-> challenge]

\* Nothing, one or two good items, and each way for an item to be bad behind
\* a good one: no dict, no key, no string, no UTF-8, a challenge that is
\* empty as a C string, a type the backend refuses.
MCContents ==
    {<<>>, <<D(Sig, C)>>, <<D(<<"n", "NUL", "c">>, <<"c", "NUL", "c">>), D(Sig, C)>>}
    \cup {<<D(N, C), bad>> :
            bad \in {NotADict, D(N, Null), D(NotStr, C), D(Sig, <<"surrogate">>),
                     D(N, <<"NUL", "c">>), D(C, C)}}

\* Bounds: one thread whose requests object changes, or two threads.
InPart ==
    CASE part = "thread"  -> th[t2] = Idle
      [] part = "threads" -> content = <<D(Sig, C)>> /\ edits = 0
      [] OTHER            -> content = <<>>

-----------------------------------------------------------------------------
(***************************************************************************)
(* Chunks.  Positions have five bits: the sizes 1c and -1 wrap, those of   *)
(* messages do not.                                                        *)
(***************************************************************************)
\* Up to two chunks of data that looks like a size line or like its end.
Datas == {<<"1">>, <<"CR", "LF">>, <<"1", "CR", "LF">>, <<"LF", "0", "CR", "LF">>}
Messages == [chunks : SeqOf(Datas, 2), ext : {<<>>, <<";", "a">>}]

\* Everything there is over these characters, and sizes at the limit.
Bodies == SeqOf({"1", "c", "-", "CR", "LF"}, 6)
          \cup {<<"0", "x", "1", "c", "CR", "LF", "1">>, <<"-", "4", "CR", "LF", "1", "1">>,
                <<"1", "b", "CR", "LF", "1", "1">>, <<"1", "0", "0", "CR", "LF">>}

Chunked == INSTANCE ChunkedDecoder WITH Width <- 5, MaxOut <- 20

-----------------------------------------------------------------------------
(***************************************************************************)
(* Queries: "u?" and every query of up to three of the bytes % 2 5 & = + n *)
(* or a value of n made of % 2 5 6 (escapes of escapes among them), and    *)
(* two names that the next decoding makes one: "%25256E=5&n=2".            *)
(***************************************************************************)
Queries == SeqOf({37, 50, 53, 38, 61, 43, 110}, 3)
           \cup {<<110, 61>> \o q : q \in SeqOf({37, 50, 53, 54}, 5)}
           \cup {<<37, 50, 53, 50, 53, 54, 69, 61, 53, 38, 110, 61, 50>>}

Query == INSTANCE UrlQuery WITH
    Urls <- {<<117, 63>> \o q : q \in Queries} \cup {<<117>>, <<>>},
    ParamKeys <- {<<110>>, <<115>>}, ParamTexts <- {<<50>>, <<37, 50, 53>>, <<43>>},
    MaxSets <- 2

-----------------------------------------------------------------------------
(***************************************************************************)
(* The bridge: values of depth two in both directions.  textNul is text, a *)
(* NUL and more; nul begins with the NUL.                                  *)
(***************************************************************************)
Strings == {text, textNul, other, proto, empty, nul}
Cut == [s \in Strings |-> IF s = textNul THEN text ELSE IF s = nul THEN empty ELSE s]

ObjectsOf(keys, vs) == UNION {[ks -> vs] : ks \in {k \in SUBSET keys : k # {}}}
JNull == [t |-> "null"]
Str(ss) == {[t |-> "string", v |-> s] : s \in ss}

JsonLeaves ==
    {JNull, [t |-> "bool", v |-> TRUE]} \cup Str({text, textNul, nul})
    \cup {[t |-> "number", v |-> x] : x \in {-1, 0, 7, 8, 15, 16, 32, 33, 34}}
SomeJson == {JNull, [t |-> "number", v |-> 33]} \cup Str({text, nul})
Json1 ==
    JsonLeaves
    \cup {[t |-> "array", v |-> x] : x \in {<<>>} \cup (SomeJson \X SomeJson)}
    \cup {[t |-> "object", v |-> o] : o \in ObjectsOf({text, textNul, proto}, SomeJson)}
JsonValues ==
    Json1 \cup {[t |-> "array", v |-> <<x, y>>] : x \in SomeJson, y \in Json1}
          \cup {[t |-> "object", v |-> o] : o \in ObjectsOf({other, proto}, Json1)}

JsLeaves ==
    {[t |-> "undefined"], JNull, [t |-> "int", v |-> 1], [t |-> "symbol"], [t |-> "bigint"],
     [t |-> "throws"]} \cup Str({text, textNul})
Js1 ==
    JsLeaves
    \cup {[t |-> "array", v |-> x] : x \in {<<>>} \cup (JsLeaves \X JsLeaves)}
    \cup {[t |-> "object", v |-> o] : o \in ObjectsOf({text, textNul, proto}, JsLeaves)}
    \cup {[t |-> "function", v |-> <<>>]}
Results == Js1 \cup {[t |-> "array", v |-> <<x, y>>] : x \in Js1, y \in JsLeaves}

Bridge == INSTANCE JsonBridge WITH
    Proto <- proto, Int32Max <- 7, Uint32Max <- 15, Exact <- 32

-----------------------------------------------------------------------------
(***************************************************************************)
(* The command line: up to two pairs.                                      *)
(***************************************************************************)
Words == {blank, sig, sigSpace, wordN, dash, local, localUpper, watch, text}
Cli == INSTANCE TestCli WITH
    Strip <- [w \in Words |-> IF w = sigSpace THEN sig ELSE w],
    Lower <- [w \in Words |-> IF w = localUpper THEN local ELSE w],
    Blank <- blank, Sig <- sig, N <- wordN, Dash <- dash, Local <- local, Watch <- watch,
    MaxArgs <- 4

ASSUME /\ PyBoundaryAssumption
       /\ Chunked!ChunkedAssumption /\ Query!UrlQueryAssumption
       /\ Bridge!BridgeAssumption /\ Cli!WordsAssumption

-----------------------------------------------------------------------------
NoChunked == sent = Null /\ body = Null /\ i = Null /\ out = Null /\ pc = Null /\ wrapped = Null
NoQuery == url = Null /\ sets = Null /\ last = Null
NoBridge == json = Null /\ js = Null /\ stage = Null
NoCli == argv = Null /\ requests = Null /\ asked = Null /\ exit = Null

MCInit ==
    /\ \/ part \in {"thread", "threads"} /\ NoChunked /\ NoQuery /\ NoBridge /\ NoCli
       \/ part = "chunked" /\ Chunked!Init /\ NoQuery /\ NoBridge /\ NoCli
       \/ part = "query" /\ NoChunked /\ Query!Init /\ NoBridge /\ NoCli
       \/ part = "bridge" /\ NoChunked /\ NoQuery /\ Bridge!Init /\ NoCli
       \/ part = "cli" /\ NoChunked /\ NoQuery /\ NoBridge /\ Cli!Init
    /\ Init /\ InPart

MCNext ==
    \/ /\ part \in {"thread", "threads"}
       /\ Next /\ UNCHANGED <<part, cvars, uvars, jvars, tvars>> /\ InPart'
    \/ part = "chunked" /\ Chunked!Next /\ UNCHANGED <<part, vars, uvars, jvars, tvars>>
    \/ part = "query" /\ Query!Next /\ UNCHANGED <<part, vars, cvars, jvars, tvars>>
    \/ part = "bridge" /\ Bridge!Next /\ UNCHANGED <<part, vars, cvars, uvars, tvars>>
    \/ part = "cli" /\ Cli!Next /\ UNCHANGED <<part, vars, cvars, uvars, jvars>>

MCSpec == MCInit /\ [][MCNext]_mcvars

-----------------------------------------------------------------------------
(***************************************************************************)
(* The properties: CallsAreClean and RequestsKept of PyBoundary, and those *)
(* of the other modules, those of one subject together.                    *)
(***************************************************************************)

\* decode_chunked returns the data of the chunks that arrived whole, without
\* leaving the body, and goes forward as long as size_t has not wrapped.
DecodesWholeChunks ==
    /\ [](part = "chunked" => Chunked!TypeOK /\ Chunked!WholeChunks)
    /\ [][part = "chunked" => Chunked!AdvanceStep]_cvars

\* set_or_replace_query_param decodes the parameters it does not set once, and
\* no more, and the order of two calls does not show in the URL.
SetDecodesOthersOnce ==
    /\ [](part = "query" => Query!OrderDoesNotShow)
    /\ [][part = "query" => Query!OneDecoding]_uvars

\* What is typed and what crosses the bridge is kept: test.py sends the pairs of
\* its command line, in order, or nothing; json_to_js_qjs and js_to_json_qjs lose
\* what Kept of JsonBridge names and nothing else, and every element of an array
\* stays in its place.
LosesWhatIsKnown ==
    /\ part = "cli" => Cli!SendsWhatWasTyped
    /\ part = "bridge" => Bridge!LossExactlyKnown /\ Bridge!AnswersInTheirPlaces
=============================================================================
