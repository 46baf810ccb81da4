----------------------- MODULE SolverBoundaryProofs -----------------------
(***************************************************************************)
(* Proofs about SolverBoundary for any file system, servers, requests and  *)
(* replies of jsc.                                                         *)
(***************************************************************************)
EXTENDS SolverBoundary, TLAPS

(***************************************************************************)
(* Redirects.                                                              *)
(***************************************************************************)

\* What a server answers.
LEMMA ServesType ==
    ASSUME NEW a \in Addresses
    PROVE  /\ Serves[a] \in Answers
           /\ Serves[a].kind = "redirect" => Serves[a].to \in Addresses
           /\ Serves[a].kind = "script" => Serves[a].text \in Versions
           /\ Serves[a].kind = "page" => Serves[a].jsUrl \in JsUrls \cup {Null}
<1>1. Serves[a] \in Answers
  BY BoundaryAssumption
<1> QED BY <1>1 DEF Answers

\* Following redirects leads from address to address.
LEMMA FinalType ==
    ASSUME NEW address \in Addresses
    PROVE  Final(address) \in Addresses
<1>1. \A a \in Addresses : Hop(a) \in Addresses
  BY ServesType DEF Hop
<1>2. \A a \in Addresses : FourHops(a) \in Addresses
  BY <1>1 DEF FourHops
<1> QED BY <1>2 DEF Final

\* The script of a page is asked for at an address.
LEMMA JsAddressType ==
    ASSUME NEW url \in Addresses, NEW js \in JsUrls, js.path # ""
    PROVE  JsAddress(url, js) \in Addresses
BY DEF JsAddress, JsUrls, Addresses

(***************************************************************************)
(* Replies of jsc.                                                         *)
(***************************************************************************)

\* The items of an array that jsc returns.
LEMMA RawItems ==
    ASSUME NEW player, NEW reqs \in Seq(Requests), NEW r \in Raws(player, reqs), r.isArray
    PROVE  /\ \E n \in Nat : DOMAIN r.items = 1..n
           /\ \A j \in DOMAIN r.items :
                 /\ \E q \in 1..Len(reqs) : r.items[j] \in RawReplies(player, reqs[q])
                 /\ j <= Len(reqs) => r.items[j] \in RawReplies(player, reqs[j])
<1>1. r.items \in RawLists(player, reqs)
  BY DEF Raws
<1>2. Len(reqs) \in Nat
  OBVIOUS
<1>3. PICK n \in 0..(Len(reqs) + 1) :
         r.items \in [1..n -> UNION {RawReplies(player, reqs[j]) : j \in 1..Len(reqs)}]
  BY <1>1 DEF RawLists
<1>4. n \in Nat /\ DOMAIN r.items = 1..n
  BY <1>2, <1>3
<1>5. \A j \in DOMAIN r.items : j <= Len(reqs) => r.items[j] \in RawReplies(player, reqs[j])
  BY <1>1 DEF RawLists
<1>6. \A j \in DOMAIN r.items : r.items[j] \in UNION {RawReplies(player, reqs[q]) : q \in 1..Len(reqs)}
  BY <1>3, <1>4
<1> QED BY <1>4, <1>5, <1>6

\* An item that is not malformed is a result or an error.
LEMMA RawKinds ==
    ASSUME NEW player, NEW q, NEW r \in RawReplies(player, q), r.type # "malformed"
    PROVE  \/ r.type = "result" /\ r.data \in {Solution(player, q), Null}
           \/ r.type = "error" /\ r.error \in {"unsolvable", "", Null}
<1>1. CASE r \in [type : {"result"}, data : {Solution(player, q), Null}]
  BY <1>1
<1>2. CASE r \in [type : {"error"}, error : {"unsolvable", "", Null}]
  BY <1>2
<1>3. CASE r = [type |-> "malformed"]
  BY <1>3
<1> QED BY <1>1, <1>2, <1>3 DEF RawReplies

OkResponse(type, data) == [type |-> type, ok |-> TRUE, error |-> "", data |-> data]
ErrorResponse(type, error) == [type |-> type, ok |-> FALSE, error |-> error, data |-> <<>>]

\* Shaping it gives a response about it.
LEMMA ShapeType ==
    \A player, q, type : \A r \in RawReplies(player, q) : r.type # "malformed" =>
        \/ \E data \in {<<>>, Solution(player, q)} : Shape(r, type) = OkResponse(type, data)
        \/ \E error \in {"", "unsolvable", "unknown solver error"} :
              Shape(r, type) = ErrorResponse(type, error)
<1> SUFFICES ASSUME NEW player, NEW q, NEW type, NEW r \in RawReplies(player, q),
                    r.type # "malformed"
             PROVE  \/ \E data \in {<<>>, Solution(player, q)} : Shape(r, type) = OkResponse(type, data)
                    \/ \E error \in {"", "unsolvable", "unknown solver error"} :
                          Shape(r, type) = ErrorResponse(type, error)
  OBVIOUS
<1>1. CASE r.type = "result" /\ r.data \in {Solution(player, q), Null}
  <2> DEFINE data == IF r.data = Null THEN <<>> ELSE r.data
  <2>1. Shape(r, type) = OkResponse(type, data)
    BY <1>1 DEF Shape, OkResponse
  <2>2. data \in {<<>>, Solution(player, q)}
    BY <1>1
  <2> HIDE DEF data
  <2> QED BY <2>1, <2>2
<1>2. CASE r.type = "error" /\ r.error \in {"unsolvable", "", Null}
  <2> DEFINE error == IF r.error = Null THEN "unknown solver error" ELSE r.error
  <2>1. Shape(r, type) = ErrorResponse(type, error)
    BY <1>2 DEF Shape, ErrorResponse
  <2>2. error \in {"", "unsolvable", "unknown solver error"}
    BY <1>2
  <2> HIDE DEF error
  <2> QED BY <2>1, <2>2
<1> QED BY <1>1, <1>2, RawKinds

(***************************************************************************)
(* The responses of a call.                                                *)
(***************************************************************************)

\* The arguments of a call.
LEMMA CallType ==
    ASSUME NEW c \in Calls
    PROVE  /\ c.mode \in {"local", "watch"} /\ c.url \in Addresses \cup {Null}
           /\ c.requests \in RequestLists /\ c.requests \in Seq(Requests)
           /\ Len(c.requests) \in Nat
           /\ \A j \in 1..Len(c.requests) : c.requests[j] \in Requests
<1>1. c.mode \in {"local", "watch"} /\ c.url \in Addresses \cup {Null} /\ c.requests \in RequestLists
  BY DEF Calls
<1>2. c.requests \in Seq(Requests)
  BY <1>1, BoundaryAssumption
<1> QED BY <1>1, <1>2

\* What ShapeReplies makes of the items.
Shaped == [j \in DOMAIN raw.items |-> Shape(raw.items[j], TypeAt(call.requests, j))]

\* It is a list of responses, each about the request in its place.
LEMMA ShapedType ==
    ASSUME TypeOK, CallInv, PlayerInv, pc = "shape", raw.isArray,
           \A j \in DOMAIN raw.items : raw.items[j].type # "malformed"
    PROVE  /\ Shaped \in Seq(Responses)
           /\ \A j \in 1..Len(Shaped) : j <= Len(call.requests) =>
                 /\ Shaped[j].type = call.requests[j].type
                 /\ Shaped[j].data \in {<<>>, Solution(assets["base.js"], call.requests[j])}
                 /\ Shaped[j].ok \/ Shaped[j].data = <<>>
<1> DEFINE reqs == call.requests
           player == assets["base.js"]
<1>1. /\ reqs \in Seq(Requests) /\ Len(reqs) \in Nat /\ player \in FileTexts
      /\ \A j \in 1..Len(reqs) : reqs[j] \in Requests /\ Supported(reqs[j])
  BY CallType DEF CallInv, PlayerInv, PlayerLoaded, InEngine
<1>2. raw \in Raws(player, reqs)
  BY DEF TypeOK
<1> HIDE DEF reqs, player
<1>3. PICK n \in Nat : DOMAIN raw.items = 1..n
  BY <1>1, <1>2, RawItems
<1>4. ASSUME NEW j \in 1..n
      PROVE  /\ Shape(raw.items[j], TypeAt(reqs, j)) \in Responses
             /\ j <= Len(reqs) =>
                   /\ Shape(raw.items[j], TypeAt(reqs, j)).type = reqs[j].type
                   /\ Shape(raw.items[j], TypeAt(reqs, j)).data \in {<<>>, Solution(player, reqs[j])}
                   /\ \/ Shape(raw.items[j], TypeAt(reqs, j)).ok
                      \/ Shape(raw.items[j], TypeAt(reqs, j)).data = <<>>
  <2>1. raw.items[j].type # "malformed"
    BY <1>3
  <2>2. TypeAt(reqs, j) \in {"n", "sig", ""} /\ (j <= Len(reqs) => TypeAt(reqs, j) = reqs[j].type)
    <3>1. CASE j <= Len(reqs)
      <4>1. Supported(reqs[j])
        BY <1>1, <3>1
      <4>2. reqs[j].type \in {"sig", "n"}
        BY <4>1 DEF Supported
      <4> QED BY <3>1, <4>2 DEF TypeAt
    <3>2. CASE ~(j <= Len(reqs))
      BY <3>2 DEF TypeAt
    <3> QED BY <3>1, <3>2
  <2>3. PICK q \in 1..Len(reqs) :
           /\ raw.items[j] \in RawReplies(player, reqs[q])
           /\ j <= Len(reqs) => q = j
    <3>1. CASE j <= Len(reqs)
      BY <1>1, <1>2, <1>3, <3>1, RawItems
    <3>2. CASE ~(j <= Len(reqs))
      BY <1>1, <1>2, <1>3, <3>2, RawItems
    <3> QED BY <3>1, <3>2
  <2> DEFINE type == TypeAt(reqs, j)
             response == Shape(raw.items[j], TypeAt(reqs, j))
  <2> HIDE DEF type
  <2>4. \/ \E data \in {<<>>, Solution(player, reqs[q])} :
              response = OkResponse(type, data)
        \/ \E error \in {"", "unsolvable", "unknown solver error"} :
              response = ErrorResponse(type, error)
    BY <2>1, <2>3, ShapeType DEF type
  <2>5. type \in {"n", "sig", ""} /\ (j <= Len(reqs) => type = reqs[j].type)
    BY <2>2 DEF type
  <2>6. Solution(player, reqs[q]) \in Solutions
    BY <1>1, <2>3 DEF Solutions
  <2> HIDE DEF response
  <2>7. CASE \E data \in {<<>>, Solution(player, reqs[q])} :
               response = OkResponse(type, data)
    <3>1. PICK data \in {<<>>, Solution(player, reqs[q])} :
               response = OkResponse(type, data)
      BY <2>7
    <3>2. data \in {<<>>} \cup Solutions
      BY <2>6, <3>1
    <3>3. response \in Responses
      BY <2>5, <3>1, <3>2 DEF Responses, OkResponse
    <3>4. response.type = type /\ response.data = data /\ response.ok
      BY <3>1 DEF OkResponse
    <3> QED BY <2>3, <2>5, <3>1, <3>3, <3>4 DEF response
  <2>8. CASE \E error \in {"", "unsolvable", "unknown solver error"} :
               response = ErrorResponse(type, error)
    <3>1. PICK error \in {"", "unsolvable", "unknown solver error"} :
               response = ErrorResponse(type, error)
      BY <2>8
    <3>2. response \in Responses
      BY <2>5, <3>1 DEF Responses, ErrorResponse
    <3>3. response.type = type /\ response.data = <<>>
      BY <3>1 DEF ErrorResponse
    <3> QED BY <2>5, <3>2, <3>3 DEF response
  <2> QED BY <2>4, <2>7, <2>8
<1>5. Shaped = [j \in 1..n |-> Shape(raw.items[j], TypeAt(reqs, j))]
  BY <1>3 DEF Shaped, reqs
<1>6. Shaped \in Seq(Responses) /\ Len(Shaped) = n
  BY <1>4, <1>5
<1>7. \A j \in 1..n : Shaped[j] = Shape(raw.items[j], TypeAt(reqs, j))
  BY <1>5
<1> QED BY <1>4, <1>6, <1>7 DEF reqs, player

(***************************************************************************)
(* The engine.                                                             *)
(***************************************************************************)

\* Every step keeps the engine in the state that belongs to the step.
LEMMA EngineStep ==
    ASSUME TypeOK, EngineInv, [Next]_vars
    PROVE  EngineInv'
<1>0. Null # "live"
  BY BoundaryAssumption
<1> USE <1>0 DEF EngineInv, BeforePlayer, BeforeEngine, InEngine, WayOut
<1>1. CASE UNCHANGED vars
  BY <1>1 DEF vars
<1>2. ASSUME NEW mode \in {"local", "watch"}, NEW url \in Addresses \cup {Null},
             NEW reqs \in RequestLists, Call(mode, url, reqs)
      PROVE  EngineInv'
  BY <1>2 DEF Call
<1>3. ASSUME NEW f \in FileNames, NEW state \in FileStates, EditFile(f, state)
      PROVE  EngineInv'
  BY <1>3 DEF EditFile, engineVars
<1>4. CASE Validate
  BY <1>4 DEF Validate, Throw, callVars, engineVars
<1>5. CASE RequirePlayer
  BY <1>5 DEF RequirePlayer, Require, Throw, callVars, engineVars
<1>6. CASE ReadPlayer
  BY <1>6 DEF ReadPlayer, ReadFile, Throw, callVars, engineVars
<1>7. CASE FetchPage
  BY <1>7 DEF FetchPage, NeverReturns, Throw, callVars, engineVars
<1>8. CASE FetchJs
  BY <1>8 DEF FetchJs, NeverReturns, Throw, callVars, engineVars
<1>9. CASE RequireScript
  BY <1>9 DEF RequireScript, Require, NextScript, Throw, callVars, engineVars
<1>10. CASE ReadScript
  BY <1>10 DEF ReadScript, ReadFile, NextScript, Throw, callVars, engineVars
<1>11. CASE NewRuntime
  BY <1>11 DEF NewRuntime, callVars, engineVars
<1>12. CASE NewContext
  BY <1>12 DEF NewContext, callVars, engineVars, TypeOK
<1>13. CASE CheckEngine
  BY <1>13 DEF CheckEngine, Throw, callVars, engineVars
<1>14. CASE EvalScript
  BY <1>14 DEF EvalScript, NextScript, Throw, callVars, engineVars
<1>15. CASE GetJsc
  BY <1>15 DEF GetJsc, callVars, engineVars
<1>16. CASE CallJsc
  BY <1>16 DEF CallJsc, callVars, engineVars
<1>17. CASE ShapeReplies
  BY <1>17 DEF ShapeReplies, Throw, callVars, engineVars
<1>18. CASE DropLocals
  BY <1>18 DEF DropLocals, callVars, engineVars
<1>19. CASE FreeContext
  BY <1>19 DEF FreeContext, callVars, engineVars
<1>20. CASE FreeRuntime
  BY <1>20 DEF FreeRuntime, callVars, engineVars
<1>21. CASE EndlessThrows
  BY <1>21 DEF EndlessThrows, Throw, callVars, engineVars
<1> QED BY <1>1, <1>2, <1>3, <1>4, <1>5, <1>6, <1>7, <1>8, <1>9, <1>10, <1>11, <1>12, <1>13, <1>14, <1>15, <1>16, <1>17, <1>18, <1>19, <1>20, <1>21 DEF Next, Step

(***************************************************************************)
(* Arguments and results.                                                  *)
(***************************************************************************)

\* What a call ends with is not nullptr.
LEMMA ResultType ==
    /\ \A what \in Errors : Thrown(what) \in Results /\ Thrown(what) # Null /\ Thrown(what).error # Null
    /\ \A responses \in Seq(Responses) : Returned(responses) \in Results /\ Returned(responses) # Null
<1>1. <<>> \in Seq(Responses)
  OBVIOUS
<1>2. Null \notin Errors /\ Null \notin Results
  BY BoundaryAssumption
<1>3. \A what \in Errors : Thrown(what) \in Results /\ Thrown(what).error = what
  BY <1>1 DEF Thrown, Results
<1>4. \A responses \in Seq(Responses) : Returned(responses) \in Results
  BY DEF Returned, Results
<1> QED BY <1>2, <1>3, <1>4

\* Every step keeps the arguments checked and the result for the way out.
LEMMA CallStep ==
    ASSUME TypeOK, CallInv, PlayerInv, [Next]_vars
    PROVE  CallInv'
<1>0. /\ \A what \in Errors : Thrown(what) # Null
      /\ \A responses \in Seq(Responses) : Returned(responses) # Null
  BY ResultType
<1> USE DEF CallInv, BeforePlayer, BeforeEngine, InEngine, WayOut
<1>1. CASE UNCHANGED vars
  BY <1>1 DEF vars
<1>2. ASSUME NEW mode \in {"local", "watch"}, NEW url \in Addresses \cup {Null},
             NEW reqs \in RequestLists, Call(mode, url, reqs)
      PROVE  CallInv'
  <2>1. call' = [mode |-> mode, url |-> url, requests |-> reqs] /\ call' \in Calls
    BY <1>2, Zenon DEF Call, Calls
  <2>2. \/ reqs = <<>> /\ pc' = "idle" /\ result' = Returned(<<>>)
        \/ reqs # <<>> /\ pc' = "validate" /\ result' = Null
    BY <1>2 DEF Call
  <2>3. Returned(<<>>) # Null
    <3>1. <<>> \in Seq(Responses)
      OBVIOUS
    <3> QED BY <1>0, <3>1
  <2> QED BY <2>1, <2>2, <2>3
<1>3. ASSUME NEW f \in FileNames, NEW state \in FileStates, EditFile(f, state)
      PROVE  CallInv'
  BY <1>3 DEF EditFile
<1>4. CASE Validate
  <2>1. CASE Throw("Unsupported request")
    BY <1>0, <1>4, <2>1 DEF Validate, Throw, Errors, callVars
  <2>2. CASE ~Throw("Unsupported request")
    <3>1. call \in Calls /\ call.mode \in {"local", "watch"}
      BY <1>4, CallType DEF Validate
    <3> QED BY <1>4, <2>2, <3>1 DEF Validate, callVars
  <2> QED BY <2>1, <2>2
<1>5. CASE RequirePlayer
  BY <1>0, <1>5 DEF RequirePlayer, Require, Throw, callVars, engineVars, Errors
<1>6. CASE ReadPlayer
  BY <1>0, <1>6 DEF ReadPlayer, ReadFile, Throw, callVars, engineVars, Errors
<1>7. CASE FetchPage
  BY <1>0, <1>7 DEF FetchPage, NeverReturns, Throw, callVars, engineVars, Errors
<1>8. CASE FetchJs
  BY <1>0, <1>8 DEF FetchJs, NeverReturns, Throw, callVars, engineVars, Errors
<1>9. CASE RequireScript
  BY <1>0, <1>9 DEF RequireScript, Require, NextScript, Throw, callVars, engineVars, Errors
<1>10. CASE ReadScript
  BY <1>0, <1>10 DEF ReadScript, ReadFile, NextScript, Throw, callVars, engineVars, Errors
<1>11. CASE NewRuntime
  BY <1>11 DEF NewRuntime, callVars, engineVars
<1>12. CASE NewContext
  BY <1>12 DEF NewContext, callVars, engineVars
<1>13. CASE CheckEngine
  BY <1>0, <1>13 DEF CheckEngine, Throw, callVars, engineVars, Errors
<1>14. CASE EvalScript
  BY <1>0, <1>14 DEF EvalScript, NextScript, Throw, callVars, engineVars, Errors
<1>15. CASE GetJsc
  BY <1>0, <1>15 DEF GetJsc, callVars, engineVars, Errors
<1>16. CASE CallJsc
  BY <1>0, <1>16 DEF CallJsc, callVars, engineVars, Errors
<1>17. CASE ShapeReplies
  <2>1. CASE Throw("kein responses-Array") \/ Throw("Json::LogicError")
    BY <1>0, <1>17, <2>1 DEF ShapeReplies, Throw, Errors, callVars
  <2>2. CASE ~(Throw("kein responses-Array") \/ Throw("Json::LogicError"))
    <3>1. result' = Returned(Shaped) /\ pc = "shape" /\ pc' = "leave" /\ UNCHANGED call
          /\ raw.isArray /\ \A j \in DOMAIN raw.items : raw.items[j].type # "malformed"
      BY <1>17, <2>2 DEF ShapeReplies, Shaped, callVars
    <3>2. Shaped \in Seq(Responses)
      BY <3>1, ShapedType
    <3> QED BY <1>0, <3>1, <3>2
  <2> QED BY <2>1, <2>2
<1>18. CASE DropLocals
  BY <1>18 DEF DropLocals, callVars, engineVars
<1>19. CASE FreeContext
  BY <1>19 DEF FreeContext, callVars, engineVars
<1>20. CASE FreeRuntime
  BY <1>20 DEF FreeRuntime, callVars, engineVars
<1>21. CASE EndlessThrows
  BY <1>0, <1>21 DEF EndlessThrows, Throw, callVars, engineVars, Errors
<1> QED BY <1>1, <1>2, <1>3, <1>4, <1>5, <1>6, <1>7, <1>8, <1>9, <1>10, <1>11, <1>12, <1>13, <1>14, <1>15, <1>16, <1>17, <1>18, <1>19, <1>20, <1>21 DEF Next, Step

(***************************************************************************)
(* Types.                                                                  *)
(***************************************************************************)

\* The names of the scripts are files, and none of them is the player.
LEMMA ScriptFiles == \A i \in 1..4 : Scripts[i] \in FileNames /\ Scripts[i] # "base.js"
<1>1. \A i \in 1..4 : Scripts[i] \in FileNames
  BY DEF ScriptNames, FileNames
<1>2. \A i \in 1..4 : Scripts[i] # "base.js"
  BY DEF Scripts
<1> QED BY <1>1, <1>2

\* What read_text_file returns is the text of a script or "".
LEMMA TextType ==
    ASSUME TypeOK, NEW f \in FileNames, files[f] # "absent"
    PROVE  TextOf(f) \in FileTexts
BY DEF TypeOK, TextOf, FileStates, FileTexts

\* An exception keeps the types.
LEMMA ThrowType ==
    ASSUME TypeOK, NEW what \in Errors, Throw(what)
    PROVE  TypeOK'
BY ResultType DEF TypeOK, Throw, callVars, engineVars, WayOut

\* Reading or checking a file keeps them.
LEMMA FileType ==
    ASSUME TypeOK, NEW f \in FileNames,
           NEW next \in {"read_player", "require", "read", "runtime"}, NEW n \in 1..4,
           Require(f, pc' = next /\ k' = n) \/ ReadFile(f, pc' = next /\ k' = n)
    PROVE  TypeOK'
<1>1. CASE Throw("file")
  BY <1>1, ThrowType DEF Errors
<1>2. CASE ~Throw("file") /\ Require(f, pc' = next /\ k' = n)
  BY <1>2 DEF Require, TypeOK, callVars, engineVars, BeforePlayer, BeforeEngine
<1>3. CASE ~Throw("file") /\ ReadFile(f, pc' = next /\ k' = n)
  <2>1. TextOf(f) \in FileTexts
    BY <1>3, TextType DEF ReadFile
  <2> QED BY <1>3, <2>1 DEF ReadFile, TypeOK, callVars, engineVars, BeforePlayer, BeforeEngine
<1> QED BY <1>1, <1>2, <1>3

\* What FetchJs asks for is the answer of a server.
LEMMA FetchedType ==
    ASSUME CallInv, PlayerInv, pc = "fetch_js",
           page.answer.kind = "page", page.answer.jsUrl # Null, page.answer.jsUrl.path # ""
    PROVE  LET answer == Serves[Final(JsAddress(call.url, page.answer.jsUrl))] IN
           answer.kind = "script" => answer.text \in Versions
<1>1. call.url \in Addresses
  BY CallType DEF CallInv, PlayerInv
<1>2. page.answer = Serves[Final(call.url)]
  <2>1. page = [address |-> Final(call.url), answer |-> Serves[Final(call.url)]]
    BY Zenon DEF PlayerInv
  <2> QED BY <2>1
<1>3. page.answer.jsUrl \in JsUrls
  BY <1>1, <1>2, FinalType, ServesType
<1> QED BY <1>1, <1>3, JsAddressType, FinalType, ServesType

\* Every step keeps the types.
LEMMA TypeStep ==
    ASSUME TypeOK, CallInv, PlayerInv, [Next]_vars
    PROVE  TypeOK'
<1> USE DEF BeforePlayer, BeforeEngine, InEngine, WayOut
<1>1. CASE UNCHANGED vars
  BY <1>1 DEF vars, TypeOK
<1>2. ASSUME NEW mode \in {"local", "watch"}, NEW url \in Addresses \cup {Null},
             NEW reqs \in RequestLists, Call(mode, url, reqs)
      PROVE  TypeOK'
  <2>1. call' \in Calls
    BY <1>2, Zenon DEF Call, Calls
  <2>2. Returned(<<>>) \in Results
    <3>1. <<>> \in Seq(Responses)
      OBVIOUS
    <3> QED BY <3>1, ResultType
  <2>3. /\ pc' \in {"idle", "validate"} /\ result' \in {Returned(<<>>), Null}
        /\ calls' = calls + 1 /\ calls < MaxCalls
        /\ k' = 1 /\ assets' = NoAssets /\ page' = Null
        /\ seen' = {files["base.js"]} /\ UNCHANGED <<files, edits, rt, ctx, refs>>
    BY <1>2 DEF Call
  <2>4. MaxCalls \in Nat
    BY BoundaryAssumption
  <2>5. assets' \in [FileNames -> FileTexts \cup {Null}] /\ seen' \subseteq FileStates
    BY <2>3 DEF NoAssets, TypeOK, FileNames
  <2>6. calls' \in 0..MaxCalls
    BY <2>3, <2>4 DEF TypeOK
  <2> QED BY <2>1, <2>2, <2>3, <2>5, <2>6 DEF TypeOK
<1>3. ASSUME NEW f \in FileNames, NEW state \in FileStates, EditFile(f, state)
      PROVE  TypeOK'
  <2>1. MaxEdits \in Nat
    BY BoundaryAssumption
  <2> QED BY <1>3, <2>1 DEF EditFile, TypeOK, engineVars
<1>4. CASE Validate
  <2>1. CASE Throw("Unsupported request")
    BY <2>1, ThrowType DEF Errors
  <2>2. CASE ~(Throw("Unsupported request"))
    BY <1>4, <2>2 DEF Validate, TypeOK, callVars, engineVars
  <2> QED BY <2>1, <2>2
<1>5. CASE RequirePlayer
  <2>1. Require("base.js", pc' = "read_player" /\ k' = k)
    BY <1>5 DEF RequirePlayer
  <2>2. k \in 1..4 /\ "base.js" \in FileNames
    BY DEF TypeOK, FileNames
  <2> QED BY <2>1, <2>2, FileType
<1>6. CASE ReadPlayer
  <2>1. ReadFile("base.js", pc' = "require" /\ k' = k)
    BY <1>6 DEF ReadPlayer
  <2>2. k \in 1..4 /\ "base.js" \in FileNames
    BY DEF TypeOK, FileNames
  <2> QED BY <2>1, <2>2, FileType
<1>7. CASE FetchPage
  <2>1. CASE Throw("Unsupported watch_url") \/ Throw("https_request") \/ Throw("watch page returned HTTP")
    BY <2>1, ThrowType DEF Errors
  <2>2. CASE /\ ~(Throw("Unsupported watch_url") \/ Throw("https_request") \/ Throw("watch page returned HTTP"))
             /\ ~NeverReturns
    <3>1. call \in Calls /\ call.url \in Addresses
      BY <1>7, <2>2, CallType DEF FetchPage, CallInv
    <3>2. Final(call.url) \in Addresses /\ Serves[Final(call.url)] \in Answers
      BY <3>1, FinalType, ServesType
    <3>3. page' = [address |-> Final(call.url), answer |-> Serves[Final(call.url)]]
          /\ pc' = "fetch_js" /\ UNCHANGED <<callVars, k, assets, engineVars, result>>
      BY <1>7, <2>2 DEF FetchPage
    <3>4. page' \in Pages
      BY <3>2, <3>3 DEF Pages
    <3> QED BY <3>3, <3>4 DEF TypeOK, callVars, engineVars
  <2>3. CASE NeverReturns
    BY <2>3 DEF NeverReturns, TypeOK, callVars, engineVars, BeforePlayer, BeforeEngine
  <2> QED BY <2>1, <2>2, <2>3
<1>8. CASE FetchJs
  <2>1. CASE Throw("jsUrl not found") \/ Throw("Unexpected absolute jsUrl") \/ Throw("https_request") \/ Throw("base.js returned HTTP")
    BY <2>1, ThrowType DEF Errors
  <2>2. CASE /\ ~(Throw("jsUrl not found") \/ Throw("Unexpected absolute jsUrl") \/ Throw("https_request") \/ Throw("base.js returned HTTP"))
             /\ ~NeverReturns
    <3> DEFINE js == page.answer.jsUrl
               answer == Serves[Final(JsAddress(call.url, js))]
    <3>1. /\ pc = "fetch_js" /\ page.answer.kind = "page" /\ js # Null /\ js.path # ""
          /\ \E text \in {""} \cup (IF answer.kind = "script" THEN {answer.text} ELSE {}) :
                assets' = [assets EXCEPT !["base.js"] = text]
          /\ pc' = "require" /\ UNCHANGED <<callVars, k, page, engineVars, result>>
      BY <1>8, <2>2 DEF FetchJs
    <3>2. answer.kind = "script" => answer.text \in Versions
      BY <3>1, FetchedType
    <3> HIDE DEF js, answer
    <3>3. PICK text \in FileTexts : assets' = [assets EXCEPT !["base.js"] = text]
      BY <3>1, <3>2 DEF FileTexts
    <3>4. assets' \in [FileNames -> FileTexts \cup {Null}]
      BY <3>3 DEF TypeOK
    <3> QED BY <3>1, <3>4 DEF TypeOK, callVars, engineVars
  <2>3. CASE NeverReturns
    BY <2>3 DEF NeverReturns, TypeOK, callVars, engineVars, BeforePlayer, BeforeEngine
  <2> QED BY <2>1, <2>2, <2>3
<1>9. CASE RequireScript
  <2>1. k \in 1..4 /\ Scripts[k] \in FileNames
    BY ScriptFiles DEF TypeOK
  <2>2. CASE k < 4
    <3>1. Require(Scripts[k], pc' = "require" /\ k' = k + 1) /\ k + 1 \in 1..4
      BY <1>9, <2>1, <2>2 DEF RequireScript, Require, NextScript
    <3> QED BY <2>1, <3>1, FileType
  <2>3. CASE ~(k < 4)
    <3>1. Require(Scripts[k], pc' = "read" /\ k' = 1)
      BY <1>9, <2>1, <2>3 DEF RequireScript, Require, NextScript
    <3> QED BY <2>1, <3>1, FileType
  <2> QED BY <2>2, <2>3
<1>10. CASE ReadScript
  <2>1. k \in 1..4 /\ Scripts[k] \in FileNames
    BY ScriptFiles DEF TypeOK
  <2>2. CASE k < 4
    <3>1. ReadFile(Scripts[k], pc' = "read" /\ k' = k + 1) /\ k + 1 \in 1..4
      BY <1>10, <2>1, <2>2 DEF ReadScript, ReadFile, NextScript
    <3> QED BY <2>1, <3>1, FileType
  <2>3. CASE ~(k < 4)
    <3>1. ReadFile(Scripts[k], pc' = "runtime" /\ k' = 1)
      BY <1>10, <2>1, <2>3 DEF ReadScript, ReadFile, NextScript
    <3> QED BY <2>1, <3>1, FileType
  <2> QED BY <2>2, <2>3
<1>11. CASE NewRuntime
  BY <1>11 DEF NewRuntime, TypeOK, callVars, engineVars
<1>12. CASE NewContext
  BY <1>12 DEF NewContext, TypeOK, callVars, engineVars
<1>13. CASE CheckEngine
  <2>1. CASE Throw("JS_NewContext fehlgeschlagen")
    BY <2>1, ThrowType DEF Errors
  <2>2. CASE ~(Throw("JS_NewContext fehlgeschlagen"))
    BY <1>13, <2>2 DEF CheckEngine, TypeOK, callVars, engineVars
  <2> QED BY <2>1, <2>2
<1>14. CASE EvalScript
  <2>1. CASE Throw("JS exception")
    BY <2>1, ThrowType DEF Errors
  <2>2. CASE ~(Throw("JS exception"))
    <3>1. NextScript("eval", "jsc") /\ UNCHANGED <<callVars, assets, page, engineVars, result>>
      BY <1>14, <2>2 DEF EvalScript
    <3>2. k \in 1..4
      BY DEF TypeOK
    <3>3. k' \in 1..4 /\ pc' \in {"eval", "jsc"}
      BY <3>1, <3>2 DEF NextScript
    <3> QED BY <3>1, <3>3 DEF TypeOK, callVars, engineVars
  <2> QED BY <2>1, <2>2
<1>15. CASE GetJsc
  BY <1>15, ResultType DEF GetJsc, Errors, TypeOK, callVars
<1>16. CASE CallJsc
  BY <1>16, ResultType DEF CallJsc, Errors, TypeOK, callVars
<1>17. CASE ShapeReplies
  <2>1. CASE Throw("kein responses-Array") \/ Throw("Json::LogicError")
    BY <2>1, ThrowType DEF Errors
  <2>2. CASE ~(Throw("kein responses-Array") \/ Throw("Json::LogicError"))
    <3>1. result' = Returned(Shaped) /\ pc = "shape" /\ pc' = "leave"
          /\ UNCHANGED <<callVars, k, assets, page, engineVars>>
          /\ raw.isArray /\ \A j \in DOMAIN raw.items : raw.items[j].type # "malformed"
      BY <1>17, <2>2 DEF ShapeReplies, Shaped
    <3>2. result' \in Results
      BY <3>1, ShapedType, ResultType
    <3> QED BY <3>1, <3>2 DEF TypeOK, callVars, engineVars
  <2> QED BY <2>1, <2>2
<1>18. CASE DropLocals
  BY <1>18 DEF DropLocals, TypeOK, callVars, engineVars
<1>19. CASE FreeContext
  BY <1>19 DEF FreeContext, TypeOK, callVars, engineVars
<1>20. CASE FreeRuntime
  BY <1>20 DEF FreeRuntime, TypeOK, callVars, engineVars
<1>21. CASE EndlessThrows
  BY <1>21, ThrowType DEF EndlessThrows, Errors
<1> QED BY <1>1, <1>2, <1>3, <1>4, <1>5, <1>6, <1>7, <1>8, <1>9, <1>10, <1>11, <1>12, <1>13, <1>14, <1>15, <1>16, <1>17, <1>18, <1>19, <1>20, <1>21 DEF Next, Step

(***************************************************************************)
(* The player script and the responses.                                    *)
(***************************************************************************)
Loaded == {"require", "read", "runtime"} \cup InEngine

\* A step that leaves the player, the arguments and the result alone.
LEMMA QuietStep ==
    ASSUME PlayerInv, ResponsesInv, UNCHANGED <<call, page, result>>,
           assets'["base.js"] = assets["base.js"], seen \subseteq seen',
           call # Null => files'["base.js"] \in seen',
           pc' # "fetch_js" \/ pc = "fetch_js", pc' \in Loaded => pc \in Loaded
    PROVE  PlayerInv' /\ ResponsesInv'
<1>1. PlayerLoaded => PlayerLoaded'
  BY DEF PlayerLoaded
<1>2. ResponsesInv'
  BY DEF ResponsesInv
<1>3. PlayerInv'
  BY <1>1 DEF PlayerInv, Loaded
<1> QED BY <1>2, <1>3

\* A step out of the call, or on before the player script is there.
LEMMA EmptyStep ==
    ASSUME PlayerInv, UNCHANGED <<call, files, seen>>, pc' # "fetch_js", pc' \notin Loaded,
           result' = Null \/ result'.error # Null
    PROVE  PlayerInv' /\ ResponsesInv'
BY DEF PlayerInv, ResponsesInv, Loaded

\* An exception.
LEMMA ThrowPlayer ==
    ASSUME PlayerInv, NEW what \in Errors, Throw(what)
    PROVE  PlayerInv' /\ ResponsesInv'
<1>1. UNCHANGED <<call, files, seen>> /\ pc' = "leave" /\ result'.error # Null
  BY ResultType DEF Throw, callVars
<1> QED BY <1>1, EmptyStep DEF Loaded, InEngine

\* Every step keeps the player that a call solves with the one it has
\* loaded, and the responses in their places.
LEMMA PlayerStep ==
    ASSUME TypeOK, CallInv, PlayerInv, ResponsesInv, [Next]_vars
    PROVE  PlayerInv' /\ ResponsesInv'
<1>1. CASE UNCHANGED vars
  BY <1>1, QuietStep DEF vars, PlayerInv
<1>2. ASSUME NEW mode \in {"local", "watch"}, NEW url \in Addresses \cup {Null},
             NEW reqs \in RequestLists, Call(mode, url, reqs)
      PROVE  PlayerInv' /\ ResponsesInv'
  <2>1. /\ call' = [mode |-> mode, url |-> url, requests |-> reqs]
        /\ seen' = {files["base.js"]} /\ files' = files
    BY <1>2 DEF Call
  <2>2. \/ reqs = <<>> /\ pc' = "idle" /\ result' = Returned(<<>>)
        \/ reqs # <<>> /\ pc' = "validate" /\ result' = Null
    BY <1>2 DEF Call
  <2>3. CASE reqs = <<>> /\ pc' = "idle" /\ result' = Returned(<<>>)
    <3>1. call'.requests = <<>> /\ result'.responses = <<>> /\ Len(<<>>) = 0
      BY <2>1, <2>3 DEF Returned
    <3> QED BY <2>1, <2>3, <3>1 DEF PlayerInv, ResponsesInv, InEngine
  <2>4. CASE reqs # <<>> /\ pc' = "validate" /\ result' = Null
    BY <2>1, <2>4 DEF PlayerInv, ResponsesInv, InEngine
  <2> QED BY <2>2, <2>3, <2>4
<1>3. ASSUME NEW f \in FileNames, NEW state \in FileStates, EditFile(f, state)
      PROVE  PlayerInv' /\ ResponsesInv'
  <2>1. /\ UNCHANGED <<call, page, result, pc, assets>>
        /\ files' = [files EXCEPT ![f] = state]
        /\ seen' = IF f = "base.js" THEN seen \cup {state} ELSE seen
    BY <1>3 DEF EditFile
  <2>2. call # Null => files'["base.js"] \in seen'
    BY <2>1 DEF PlayerInv, TypeOK, FileNames
  <2> QED BY <2>1, <2>2, QuietStep
<1>4. CASE Validate
  <2>1. CASE Throw("Unsupported request")
    BY <2>1, ThrowPlayer DEF Errors
  <2>2. CASE ~(Throw("Unsupported request"))
    <3>1. UNCHANGED <<call, files, seen>> /\ pc' \in {"require_player", "fetch_page"} /\ result' = Null
      BY <1>4, <2>2 DEF Validate, callVars, CallInv, WayOut
    <3> QED BY <3>1, EmptyStep DEF Loaded, InEngine
  <2> QED BY <2>1, <2>2
<1>5. CASE RequirePlayer
  <2>1. CASE Throw("file")
    BY <2>1, ThrowPlayer DEF Errors
  <2>2. CASE ~(Throw("file"))
    <3>1. UNCHANGED <<call, files, seen>> /\ pc' = "read_player" /\ result' = Null
      BY <1>5, <2>2 DEF RequirePlayer, Require, callVars, CallInv, WayOut
    <3> QED BY <3>1, EmptyStep DEF Loaded, InEngine
  <2> QED BY <2>1, <2>2
<1>6. CASE ReadPlayer
  <2>1. CASE Throw("file")
    BY <2>1, ThrowPlayer DEF Errors
  <2>2. CASE ~(Throw("file"))
    <3>1. /\ UNCHANGED <<call, files, seen>> /\ pc = "read_player" /\ pc' = "require" /\ result' = result
          /\ files["base.js"] # "absent" /\ assets' = [assets EXCEPT !["base.js"] = TextOf("base.js")]
      BY <1>6, <2>2 DEF ReadPlayer, ReadFile, callVars
    <3>2. "base.js" \in FileNames /\ TextOf("base.js") \in FileTexts
      BY <3>1, TextType DEF FileNames
    <3>3. assets'["base.js"] = TextOf("base.js")
      BY <3>1, <3>2 DEF TypeOK
    <3>4. call \in Calls /\ call # Null /\ call.mode = "local" /\ result' = Null
      BY <3>1, BoundaryAssumption DEF CallInv, WayOut
    <3>5. files["base.js"] \in seen
      BY <3>4 DEF PlayerInv
    <3>6. TextOf("base.js") \in seen \/ (TextOf("base.js") = "" /\ "directory" \in seen)
      BY <3>5 DEF TextOf
    <3>7. PlayerLoaded'
      <4>1. assets'["base.js"] \in FileTexts
        BY <3>2, <3>3
      <4>2. assets'["base.js"] \in seen' \/ (assets'["base.js"] = "" /\ "directory" \in seen')
        <5>1. seen' = seen
          BY <3>1
        <5> QED BY <3>3, <3>6, <5>1
      <4>3. call'.mode = "local" /\ call'.mode # "watch"
        BY <3>1, <3>4
      <4> QED BY <4>1, <4>2, <4>3 DEF PlayerLoaded
    <3> QED BY <3>1, <3>4, <3>5, <3>7 DEF PlayerInv, ResponsesInv
  <2> QED BY <2>1, <2>2
<1>7. CASE FetchPage
  <2>1. CASE Throw("Unsupported watch_url") \/ Throw("https_request") \/ Throw("watch page returned HTTP")
    BY <2>1, ThrowPlayer DEF Errors
  <2>2. CASE /\ ~(Throw("Unsupported watch_url") \/ Throw("https_request") \/ Throw("watch page returned HTTP"))
             /\ ~NeverReturns
    <3>1. /\ call.url # Null
          /\ page' = [address |-> Final(call.url), answer |-> Serves[Final(call.url)]]
          /\ pc' = "fetch_js" /\ UNCHANGED <<call, files, seen, result>> /\ result' = Null
      BY <1>7, <2>2 DEF FetchPage, callVars, CallInv, WayOut
    <3> QED BY <3>1 DEF PlayerInv, ResponsesInv, InEngine
  <2>3. CASE NeverReturns
    BY <2>3, QuietStep DEF NeverReturns, callVars, Loaded, InEngine, PlayerInv
  <2> QED BY <2>1, <2>2, <2>3
<1>8. CASE FetchJs
  <2>1. CASE Throw("jsUrl not found") \/ Throw("Unexpected absolute jsUrl") \/ Throw("https_request") \/ Throw("base.js returned HTTP")
    BY <2>1, ThrowPlayer DEF Errors
  <2>2. CASE /\ ~(Throw("jsUrl not found") \/ Throw("Unexpected absolute jsUrl") \/ Throw("https_request") \/ Throw("base.js returned HTTP"))
             /\ ~NeverReturns
    <3> DEFINE answer == Serves[Final(JsAddress(call.url, page.answer.jsUrl))]
    <3>1. /\ pc = "fetch_js" /\ page.answer.kind = "page"
          /\ page.answer.jsUrl # Null /\ page.answer.jsUrl.path # ""
          /\ \E text \in {""} \cup (IF answer.kind = "script" THEN {answer.text} ELSE {}) :
                assets' = [assets EXCEPT !["base.js"] = text]
          /\ pc' = "require" /\ UNCHANGED <<call, files, seen, page, result>>
      BY <1>8, <2>2 DEF FetchJs, callVars
    <3>2. answer.kind = "script" => answer.text \in Versions
      BY <3>1, FetchedType
    <3>3. call \in Calls /\ call # Null /\ call.mode = "watch" /\ result' = Null
      BY <3>1, BoundaryAssumption DEF CallInv, WayOut
    <3>4. answer' = answer
      BY <3>1
    <3> HIDE DEF answer
    <3>5. PICK text \in {""} \cup (IF answer.kind = "script" THEN {answer.text} ELSE {}) :
             assets' = [assets EXCEPT !["base.js"] = text]
      BY <3>1
    <3>6. assets'["base.js"] = text /\ text \in FileTexts
      BY <3>2, <3>5 DEF TypeOK, FileNames, FileTexts
    <3>7. PlayerLoaded'
      BY <3>1, <3>3, <3>4, <3>5, <3>6 DEF PlayerLoaded, answer
    <3> QED BY <3>1, <3>3, <3>7 DEF PlayerInv, ResponsesInv
  <2>3. CASE NeverReturns
    BY <2>3, QuietStep DEF NeverReturns, callVars, Loaded, InEngine, PlayerInv
  <2> QED BY <2>1, <2>2, <2>3
<1>9. CASE RequireScript
  <2>1. CASE Throw("file")
    BY <2>1, ThrowPlayer DEF Errors
  <2>2. CASE ~(Throw("file"))
    BY <1>9, <2>2, QuietStep DEF RequireScript, Require, NextScript, callVars, Loaded, InEngine, PlayerInv
  <2> QED BY <2>1, <2>2
<1>10. CASE ReadScript
  <2>1. CASE Throw("file")
    BY <2>1, ThrowPlayer DEF Errors
  <2>2. CASE ~(Throw("file"))
    <3>1. /\ UNCHANGED <<call, page, result, files, seen>> /\ pc = "read" /\ pc' \in {"read", "runtime"}
          /\ assets' = [assets EXCEPT ![Scripts[k]] = TextOf(Scripts[k])]
      BY <1>10, <2>2 DEF ReadScript, ReadFile, NextScript, callVars
    <3>2. assets'["base.js"] = assets["base.js"]
      BY <3>1, ScriptFiles DEF TypeOK, FileNames
    <3> QED BY <3>1, <3>2, QuietStep DEF Loaded, PlayerInv
  <2> QED BY <2>1, <2>2
<1>11. CASE NewRuntime
  BY <1>11, QuietStep DEF NewRuntime, callVars, Loaded, InEngine, PlayerInv
<1>12. CASE NewContext
  BY <1>12, QuietStep DEF NewContext, callVars, Loaded, InEngine, PlayerInv
<1>13. CASE CheckEngine
  <2>1. CASE Throw("JS_NewContext fehlgeschlagen")
    BY <2>1, ThrowPlayer DEF Errors
  <2>2. CASE ~(Throw("JS_NewContext fehlgeschlagen"))
    BY <1>13, <2>2, QuietStep DEF CheckEngine, callVars, Loaded, InEngine, PlayerInv
  <2> QED BY <2>1, <2>2
<1>14. CASE EvalScript
  <2>1. CASE Throw("JS exception")
    BY <2>1, ThrowPlayer DEF Errors
  <2>2. CASE ~(Throw("JS exception"))
    BY <1>14, <2>2, QuietStep DEF EvalScript, NextScript, callVars, Loaded, InEngine, PlayerInv
  <2> QED BY <2>1, <2>2
<1>15. CASE GetJsc
  <2>1. CASE result' = Thrown("jsc ist keine Funktion") /\ pc' = "leave"
    <3>1. UNCHANGED <<call, files, seen>> /\ result'.error # Null
      BY <1>15, <2>1, ResultType DEF GetJsc, callVars, Errors
    <3> QED BY <2>1, <3>1, EmptyStep DEF Loaded, InEngine
  <2>2. CASE ~(result' = Thrown("jsc ist keine Funktion") /\ pc' = "leave")
    BY <1>15, <2>2, QuietStep DEF GetJsc, callVars, Loaded, InEngine, PlayerInv
  <2> QED BY <2>1, <2>2
<1>16. CASE CallJsc
  <2>1. CASE result' = Thrown("JS exception") /\ pc' = "leave"
    <3>1. UNCHANGED <<call, files, seen>> /\ result'.error # Null
      BY <1>16, <2>1, ResultType DEF CallJsc, callVars, Errors
    <3> QED BY <2>1, <3>1, EmptyStep DEF Loaded, InEngine
  <2>2. CASE ~(result' = Thrown("JS exception") /\ pc' = "leave")
    BY <1>16, <2>2, QuietStep DEF CallJsc, callVars, Loaded, InEngine, PlayerInv
  <2> QED BY <2>1, <2>2
<1>17. CASE ShapeReplies
  <2>1. CASE Throw("kein responses-Array") \/ Throw("Json::LogicError")
    BY <2>1, ThrowPlayer DEF Errors
  <2>2. CASE ~(Throw("kein responses-Array") \/ Throw("Json::LogicError"))
    <3>1. /\ result' = Returned(Shaped) /\ pc = "shape" /\ pc' = "leave"
          /\ UNCHANGED <<call, files, seen, assets, page>>
          /\ raw.isArray /\ \A j \in DOMAIN raw.items : raw.items[j].type # "malformed"
      BY <1>17, <2>2 DEF ShapeReplies, Shaped, callVars
    <3>2. result'.responses = Shaped
      BY <3>1 DEF Returned
    <3>3. ResponsesInv'
      BY <3>1, <3>2, ShapedType DEF ResponsesInv
    <3>4. PlayerLoaded /\ PlayerLoaded'
      BY <3>1 DEF PlayerInv, PlayerLoaded, InEngine
    <3>5. PlayerInv'
      BY <3>1, <3>4 DEF PlayerInv, InEngine
    <3> QED BY <3>3, <3>5
  <2> QED BY <2>1, <2>2
<1>18. CASE DropLocals
  BY <1>18, QuietStep DEF DropLocals, callVars, Loaded, InEngine, PlayerInv
<1>19. CASE FreeContext
  BY <1>19, QuietStep DEF FreeContext, callVars, Loaded, InEngine, PlayerInv
<1>20. CASE FreeRuntime
  BY <1>20, QuietStep DEF FreeRuntime, callVars, Loaded, InEngine, PlayerInv
<1>21. CASE EndlessThrows
  BY <1>21, ThrowPlayer DEF EndlessThrows, Errors
<1> QED BY <1>1, <1>2, <1>3, <1>4, <1>5, <1>6, <1>7, <1>8, <1>9, <1>10, <1>11, <1>12, <1>13, <1>14, <1>15, <1>16, <1>17, <1>18, <1>19, <1>20, <1>21 DEF Next, Step

(***************************************************************************)
(* The theorems.                                                           *)
(***************************************************************************)

\* The first state.
LEMMA InitInv ==
    ASSUME Init
    PROVE  TypeOK /\ CallInv /\ EngineInv /\ PlayerInv /\ ResponsesInv
<1>1. files \in [FileNames -> FileStates] /\ MaxCalls \in Nat /\ MaxEdits \in Nat
  BY BoundaryAssumption DEF Init
<1>2. assets \in [FileNames -> FileTexts \cup {Null}]
  BY DEF Init, NoAssets
<1>3. TypeOK
  BY <1>1, <1>2 DEF Init, TypeOK
<1>4. CallInv
  BY DEF Init, CallInv, BeforePlayer, BeforeEngine, InEngine, WayOut
<1>5. EngineInv
  BY BoundaryAssumption DEF Init, EngineInv
<1> QED BY <1>3, <1>4, <1>5 DEF Init, PlayerInv, ResponsesInv, InEngine

\* What is inductive, in all states of all behaviours.
LEMMA Invariants == Spec => [](TypeOK /\ CallInv /\ EngineInv /\ PlayerInv /\ ResponsesInv)
<1>1. Init => TypeOK /\ CallInv /\ EngineInv /\ PlayerInv /\ ResponsesInv
  BY InitInv
<1>2. TypeOK /\ CallInv /\ EngineInv /\ PlayerInv /\ ResponsesInv /\ [Next]_vars
      => (TypeOK /\ CallInv /\ EngineInv /\ PlayerInv /\ ResponsesInv)'
  BY TypeStep, CallStep, EngineStep, PlayerStep
<1> QED BY <1>1, <1>2, PTL DEF Spec

\* The locals of solve_requests_core, solve_requests_from_watch_core and
\* SolverEngine keep their types.
THEOREM BoundaryTypeCorrect == Spec => []TypeOK
BY Invariants, PTL

\* On every path out of a call the values of solve go before the context and
\* the context before the runtime, and no engine outlives its call.
THEOREM RuntimeIsFreedLast == Spec => []RuntimeFreedLast
<1>1. EngineInv => RuntimeFreedLast
  BY DEF EngineInv, RuntimeFreedLast
<1> QED BY <1>1, Invariants, PTL

\* Whatever list jsc returns, the responses a call returns are about its own
\* requests, place by place, under the player script it has loaded.
THEOREM AnswersAreInPlace == Spec => []AnswersInPlace
<1>1. CallInv /\ ResponsesInv => AnswersInPlace
  BY DEF CallInv, ResponsesInv, AnswersInPlace, Answered
<1> QED BY <1>1, Invariants, PTL

\* However files change and servers answer, a call that returns responses has
\* solved with the player script that was meant.
THEOREM PlayerIsMeant == Spec => []PlayerIsTheOneMeant
<1>1. CallInv /\ PlayerInv => PlayerIsTheOneMeant
  <2> SUFFICES ASSUME CallInv, PlayerInv PROVE PlayerIsTheOneMeant
    OBVIOUS
  <2>1. Answered /\ call.requests # <<>> => PlayerLoaded
    BY DEF CallInv, PlayerInv, Answered
  <2>2. PlayerFromFile
    BY <2>1 DEF PlayerFromFile, PlayerLoaded
  <2>3. ASSUME page.address[1] = call.url[1], page.answer.jsUrl.host \in {"", call.url[1]}
        PROVE  PlayerIsCurrent
    <3>1. Named = Serves[Final(JsAddress(call.url, page.answer.jsUrl))]
      BY <2>3 DEF Named, JsAddress
    <3> QED BY <2>1, <3>1 DEF PlayerIsCurrent, PlayerLoaded
  <2> QED BY <2>2, <2>3 DEF PlayerIsTheOneMeant
<1> QED BY <1>1, Invariants, PTL
=============================================================================
