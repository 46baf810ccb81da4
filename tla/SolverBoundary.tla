--------------------------- MODULE SolverBoundary ---------------------------
(***************************************************************************)
(* solve_requests_core and solve_requests_from_watch_core, with the        *)
(* SolverEngine they build: one call checks its requests, gets the player  *)
(* script from a file or from the web, checks and reads the four solver    *)
(* scripts, creates a QuickJS runtime and context, evaluates the scripts,  *)
(* calls jsc and turns its reply into SolverResponses.  Any of these steps *)
(* may throw, and whatever exists by then is destroyed on the way out.     *)
(*                                                                         *)
(* Files may change while a call runs.  The text of a script is a version, *)
(* or "" for anything that is not a whole script.  https_request is seen   *)
(* here as what its caller gets: the reply of the server that redirects    *)
(* lead to, perhaps cut short, an exception, or nothing, when it goes on   *)
(* reading or decoding for ever (module HttpsRequest has its steps).       *)
(***************************************************************************)
EXTENDS Naturals, Sequences

CONSTANTS
    Versions,     \* texts of scripts
    InitialFiles, \* the states of the file system to start from
    Challenges,   \* challenge strings, "" not among them
    RequestLists, \* the requests arguments
    Hosts, Paths, \* what URLs are made of
    Serves,       \* Serves[<<host, path>>]: what a server answers
    MaxCalls,     \* bound: calls
    MaxEdits,     \* bound: changes of files
    Null          \* nothing yet

Scripts == <<"meriyah.umd.js", "astring.min.js", "lib.min.js", "core.min.js">>
ScriptNames == {Scripts[k] : k \in 1..4}
FileNames == ScriptNames \cup {"base.js"}
FileStates == Versions \cup {"absent", "directory"}
FileTexts == Versions \cup {""}

Requests == [type : {"n", "sig", "other"}, challenge : Challenges \cup {""}]
Addresses == Hosts \X Paths

(***************************************************************************)
(* What a server answers (external): a redirect, a watch page with the     *)
(* jsUrl it names (an empty host for a path on the page's own server, Null *)
(* for none), a script, or another status.                                 *)
(***************************************************************************)
JsUrls == {u \in [host : Hosts \cup {""}, path : Paths \cup {""}] :
              u.host # "" \/ u.path # ""}
Answers ==
    [kind : {"redirect"}, to : Addresses]
    \cup [kind : {"page"}, jsUrl : JsUrls \cup {Null}]
    \cup [kind : {"script"}, text : Versions]
    \cup {[kind |-> "status"]}

\* Where the redirects from an address lead, as far as they are followed:
\* eight hops, of which the last ones may stay where they are.
Hop(a) == IF Serves[a].kind = "redirect" THEN Serves[a].to ELSE a
FourHops(a) == Hop(Hop(Hop(Hop(a))))
Final(address) == FourHops(FourHops(address))

(***************************************************************************)
(* What jsc puts into responses for one request (external): a result with  *)
(* the answer, in an object or as such, or without one, an error with or   *)
(* without a message, or something that is no object.                      *)
(***************************************************************************)
Solution(player, r) == <<player, r.type, r.challenge>>
RawReplies(player, r) ==
    [type : {"result"}, data : {Solution(player, r), Null}]
    \cup [type : {"error"}, error : {"unsolvable", "", Null}]
    \cup {[type |-> "malformed"]}

\* The responses array, which may be short or long, or something else.
RawLists(player, reqs) ==
    {s \in UNION {[1..n -> UNION {RawReplies(player, reqs[j]) : j \in 1..Len(reqs)}] :
                     n \in 0..(Len(reqs) + 1)} :
        \A j \in DOMAIN s : j <= Len(reqs) => s[j] \in RawReplies(player, reqs[j])}

Raws(player, reqs) ==
    [isArray : {TRUE}, items : RawLists(player, reqs)]
    \cup [isArray : {FALSE}, items : {<<>>}]

Errors == {"Unsupported request", "file", "Unsupported watch_url", "https_request",
           "watch page returned HTTP", "jsUrl not found", "Unexpected absolute jsUrl",
           "base.js returned HTTP", "JS_NewContext fehlgeschlagen", "JS exception",
           "jsc ist keine Funktion", "kein responses-Array", "Json::LogicError"}

Solutions == {Solution(p, r) : p \in FileTexts, r \in Requests}
Responses == [type : {"n", "sig", ""}, ok : BOOLEAN, data : {<<>>} \cup Solutions,
              error : {"", "unsolvable", "unknown solver error"}]

Calls == [mode : {"local", "watch"}, url : Addresses \cup {Null}, requests : RequestLists]
Pages == [address : Addresses, answer : Answers]
Results == [error : Errors \cup {Null}, responses : Seq(Responses)]
Returned(responses) == [error |-> Null, responses |-> responses]
Thrown(what) == [error |-> what, responses |-> <<>>]

ASSUME BoundaryAssumption ==
    /\ Versions \cap {"", "absent", "directory"} = {}
    /\ "" \notin Challenges \cup Hosts \cup Paths
    /\ InitialFiles \subseteq [FileNames -> FileStates]
    /\ RequestLists \subseteq Seq(Requests)
    /\ Serves \in [Addresses -> Answers]
    /\ MaxCalls \in Nat /\ MaxEdits \in Nat
    /\ Null \notin Errors \cup {"live"} \cup Calls \cup Results

VARIABLES
    files,  \* the file system
    pc,     \* where the call is
    call,   \* its arguments
    k,      \* which of the scripts is next
    assets, \* SolverAssets: the texts read so far
    page,   \* the address and the answer of the watch page
    rt,     \* rt_ of the engine
    ctx,    \* ctx_ of the engine
    refs,   \* JsValueOwner locals of solve that hold a value
    raw,    \* what jsc returned
    result, \* the responses or the exception the call ends with
    calls, edits,
    seen    \* history: what base.js has been since the call began

vars == <<files, pc, call, k, assets, page, rt, ctx, refs, raw, result, calls, edits, seen>>
engineVars == <<rt, ctx, refs, raw>>
callVars == <<call, calls, edits, files, seen>>

NoAssets == [f \in FileNames |-> Null]

Init ==
    /\ files \in InitialFiles
    /\ pc = "idle" /\ call = Null /\ k = 1
    /\ assets = NoAssets /\ page = Null
    /\ rt = Null /\ ctx = Null /\ refs = {} /\ raw = Null
    /\ result = Null /\ calls = 0 /\ edits = 0 /\ seen = {}

\* A file is replaced, removed or turned into a directory at any moment.
EditFile(f, state) ==
    /\ edits < MaxEdits
    /\ files[f] # state
    /\ files' = [files EXCEPT ![f] = state]
    /\ edits' = edits + 1
    /\ seen' = IF f = "base.js" THEN seen \cup {state} ELSE seen
    /\ UNCHANGED <<pc, call, k, assets, page, engineVars, result, calls>>

\* An exception leaves the call: the result is set and the locals go.
Throw(what) ==
    /\ result' = Thrown(what)
    /\ pc' = "leave"
    /\ UNCHANGED <<callVars, k, assets, page, engineVars>>

(***************************************************************************)
(* Arguments.  An empty list is answered at once.                          *)
(***************************************************************************)
Call(mode, url, reqs) ==
    /\ pc = "idle"
    /\ calls < MaxCalls
    /\ calls' = calls + 1
    /\ call' = [mode |-> mode, url |-> url, requests |-> reqs]
    /\ k' = 1 /\ assets' = NoAssets /\ page' = Null /\ raw' = Null
    /\ seen' = {files["base.js"]}
    /\ \/ reqs = <<>> /\ pc' = "idle" /\ result' = Returned(<<>>)
       \/ reqs # <<>> /\ pc' = "validate" /\ result' = Null
    /\ UNCHANGED <<files, edits, rt, ctx, refs>>

Supported(r) == r.type \in {"sig", "n"} /\ r.challenge # ""

Validate ==
    /\ pc = "validate"
    /\ \/ /\ \E j \in 1..Len(call.requests) : ~Supported(call.requests[j])
          /\ Throw("Unsupported request")
       \/ /\ \A j \in 1..Len(call.requests) : Supported(call.requests[j])
          /\ pc' = IF call.mode = "local" THEN "require_player" ELSE "fetch_page"
          /\ UNCHANGED <<callVars, k, assets, page, engineVars, result>>

(***************************************************************************)
(* Files.  require_regular_file looks, read_text_file opens: two steps. A  *)
(* directory can be opened, and reading it gives the empty text.           *)
(***************************************************************************)
Require(f, next) ==
    \/ /\ files[f] \in {"absent", "directory"}
       /\ Throw("file")
    \/ /\ files[f] \in Versions
       /\ next
       /\ UNCHANGED <<callVars, assets, page, engineVars, result>>

\* Mutant: another file is read.
TextOfCore(f) == IF files["core.min.js"] \in Versions THEN files["core.min.js"] ELSE ""

TextOf(f) == IF files[f] = "directory" THEN "" ELSE files[f]

ReadFile(f, next) ==
    \/ /\ files[f] = "absent"
       /\ Throw("file")
    \/ /\ files[f] # "absent"
       /\ assets' = [assets EXCEPT ![f] = TextOf(f)]
       /\ next
       /\ UNCHANGED <<callVars, page, engineVars, result>>

RequirePlayer ==
    /\ pc = "require_player"
    /\ Require("base.js", pc' = "read_player" /\ UNCHANGED k)

ReadPlayer ==
    /\ pc = "read_player"
    /\ ReadFile("base.js", pc' = "require" /\ UNCHANGED k)

\* Mutants: one script too many, and the same script for ever.
NextScriptPast(here, after) ==
    IF k <= 4 THEN k' = k + 1 /\ pc' = here ELSE k' = 1 /\ pc' = after
NextScriptStuck(here, after) == k' = k /\ pc' = here

\* The four scripts are all looked at, and then all read.
NextScript(here, after) ==
    IF k < 4 THEN k' = k + 1 /\ pc' = here ELSE k' = 1 /\ pc' = after

RequireScript ==
    /\ pc = "require"
    /\ Require(Scripts[k], NextScript("require", "read"))

ReadScript ==
    /\ pc = "read"
    /\ ReadFile(Scripts[k], NextScript("read", "runtime"))

(***************************************************************************)
(* The web.  The script is asked for at the host of the watch URL: of an   *)
(* absolute jsUrl only the path is used.  A page or a script that was cut  *)
(* short on the way is taken for a whole one.                              *)
(***************************************************************************)
NeverReturns ==
    /\ pc' = "endless"
    /\ UNCHANGED <<callVars, k, assets, page, engineVars, result>>

FetchPage ==
    LET address == Final(call.url)
        answer == Serves[address]
    IN
    /\ pc = "fetch_page"
    /\ \/ /\ call.url = Null
          /\ Throw("Unsupported watch_url")
       \/ /\ call.url # Null
          /\ Throw("https_request") \/ NeverReturns
       \/ /\ call.url # Null
          /\ answer.kind \in {"status", "redirect"}
          /\ Throw("watch page returned HTTP")
       \/ /\ call.url # Null
          /\ answer.kind \in {"page", "script"}
          /\ page' = [address |-> address, answer |-> answer]
          /\ pc' = "fetch_js"
          /\ UNCHANGED <<callVars, k, assets, engineVars, result>>

\* Mutant: the script is fetched from a host nobody named.
JsAddressElsewhere(url, js) == <<CHOOSE h \in Hosts : h # url[1], js.path>>

JsAddress(url, js) == <<url[1], js.path>>

FetchJs ==
    LET js == page.answer.jsUrl
        address == Final(JsAddress(call.url, js))
        answer == Serves[address]
    IN
    /\ pc = "fetch_js"
    /\ \/ Throw("jsUrl not found")
       \/ /\ page.answer.kind = "page" /\ js # Null
          /\ js.host # "" /\ js.path = ""
          /\ Throw("Unexpected absolute jsUrl")
       \/ /\ page.answer.kind = "page" /\ js # Null /\ js.path # ""
          /\ \/ Throw("https_request")
             \/ NeverReturns
             \/ /\ answer.kind \in {"status", "redirect"}
                /\ Throw("base.js returned HTTP")
             \/ /\ answer.kind \in {"page", "script"}
                /\ \E text \in {""} \cup (IF answer.kind = "script" THEN {answer.text} ELSE {}) :
                      assets' = [assets EXCEPT !["base.js"] = text]
                /\ pc' = "require"
                /\ UNCHANGED <<callVars, k, page, engineVars, result>>

\* A stream without end breaks after all, or the memory gives out.
EndlessThrows ==
    /\ pc = "endless"
    /\ Throw("https_request")

(***************************************************************************)
(* SolverEngine::SolverEngine.  rt_ and ctx_ are initialised one after the *)
(* other and only then compared with nullptr: a null runtime is used by    *)
(* JS_NewContext before the check that would report it.                    *)
(***************************************************************************)
NewRuntime ==
    /\ pc = "runtime"
    /\ rt' \in {"live", "null"}
    /\ pc' = "context"
    /\ UNCHANGED <<callVars, k, assets, page, ctx, refs, raw, result>>

NewContext ==
    /\ pc = "context"
    /\ \/ /\ rt = "null"
          /\ pc' = "crashed"
          /\ UNCHANGED ctx
       \/ /\ rt = "live"
          /\ ctx' \in {"live", "null"}
          /\ pc' = "check"
    /\ UNCHANGED <<callVars, k, assets, page, rt, refs, raw, result>>

CheckEngine ==
    /\ pc = "check"
    /\ \/ ctx = "null" /\ Throw("JS_NewContext fehlgeschlagen")
       \/ /\ ctx = "live"
          /\ pc' = "eval"
          /\ UNCHANGED <<callVars, k, assets, page, engineVars, result>>

EvalScript ==
    /\ pc = "eval"
    /\ \/ Throw("JS exception")
       \/ /\ NextScript("eval", "jsc")
          /\ UNCHANGED <<callVars, assets, page, engineVars, result>>

(***************************************************************************)
(* SolverEngine::solve.  A core script that was read as "" leaves no jsc.  *)
(***************************************************************************)
GetJsc ==
    /\ pc = "jsc"
    /\ refs' = refs \cup {"global", "jsc_func"}
    /\ \/ /\ pc' = "leave"
          /\ result' = Thrown("jsc ist keine Funktion")
       \/ /\ assets["core.min.js"] # ""
          /\ pc' = "call"
          /\ UNCHANGED result
    /\ UNCHANGED <<callVars, k, assets, page, rt, ctx, raw>>

CallJsc ==
    /\ pc = "call"
    /\ refs' = refs \cup {"arg", "ret"}
    /\ \/ /\ pc' = "leave"
          /\ result' = Thrown("JS exception")
          /\ UNCHANGED raw
       \/ /\ pc' = "shape"
          /\ raw' \in Raws(assets["base.js"], call.requests)
          /\ UNCHANGED result
    /\ UNCHANGED <<callVars, k, assets, page, rt, ctx>>

Shape(r, type) ==
    IF r.type = "result"
    THEN [type |-> type, ok |-> TRUE, error |-> "",
          data |-> IF r.data = Null THEN <<>> ELSE r.data]
    ELSE [type |-> type, ok |-> FALSE, data |-> <<>>,
          error |-> IF r.error = Null THEN "unknown solver error" ELSE r.error]

\* Mutant: the next request's type.
TypeAtShifted(reqs, j) == IF j < Len(reqs) THEN reqs[j + 1].type ELSE ""

TypeAt(reqs, j) == IF j <= Len(reqs) THEN reqs[j].type ELSE ""

ShapeReplies ==
    LET items == raw.items IN
    /\ pc = "shape"
    /\ \/ /\ ~raw.isArray
          /\ Throw("kein responses-Array")
       \/ /\ raw.isArray
          /\ \E j \in DOMAIN items : items[j].type = "malformed"
          /\ Throw("Json::LogicError")
       \/ /\ raw.isArray
          /\ \A j \in DOMAIN items : items[j].type # "malformed"
          /\ result' = Returned([j \in DOMAIN items |->
                Shape(items[j], TypeAt(call.requests, j))])
          /\ pc' = "leave"
          /\ UNCHANGED <<callVars, k, assets, page, engineVars>>

(***************************************************************************)
(* The way out of the call, with the responses or an exception: first the  *)
(* locals of solve go, then ctx_, then rt_.                                *)
(***************************************************************************)
DropLocals ==
    /\ pc = "leave"
    /\ refs' = {}
    /\ pc' = "free_context"
    /\ UNCHANGED <<callVars, k, assets, page, rt, ctx, raw, result>>

\* Mutants: the members go in the wrong order, and the runtime stays.
FreeRuntimeFirst ==
    /\ pc = "free_context"
    /\ rt' = Null
    /\ pc' = "free_runtime"
    /\ UNCHANGED <<callVars, k, assets, page, ctx, refs, raw, result>>
KeepRuntime ==
    /\ pc = "free_runtime"
    /\ pc' = "idle"
    /\ UNCHANGED <<callVars, k, assets, page, engineVars, result>>

FreeContext ==
    /\ pc = "free_context"
    /\ ctx' = Null
    /\ pc' = "free_runtime"
    /\ UNCHANGED <<callVars, k, assets, page, rt, refs, raw, result>>

FreeRuntime ==
    /\ pc = "free_runtime"
    /\ rt' = Null
    /\ pc' = "idle"
    /\ UNCHANGED <<callVars, k, assets, page, ctx, refs, raw, result>>

Step ==
    \/ Validate \/ RequirePlayer \/ ReadPlayer \/ FetchPage \/ FetchJs
    \/ RequireScript \/ ReadScript
    \/ NewRuntime \/ NewContext \/ CheckEngine \/ EvalScript
    \/ GetJsc \/ CallJsc \/ ShapeReplies
    \/ DropLocals \/ FreeContext \/ FreeRuntime

Next ==
    \/ \E reqs \in RequestLists :
          \/ Call("local", Null, reqs)
          \/ \E url \in Addresses \cup {Null} : Call("watch", url, reqs)
    \/ \E f \in FileNames, state \in FileStates : EditFile(f, state)
    \/ EndlessThrows
    \/ Step

Spec == Init /\ [][Next]_vars

\* A step of a call is taken at last: the file system and the scripts answer,
\* and https_request returns, throws or does neither for ever.  Nothing makes
\* a request that does neither end (EndlessThrows is not in Step).
FairSpec == Spec /\ WF_vars(Step)
-----------------------------------------------------------------------------
(***************************************************************************)
(* Properties.                                                             *)
(***************************************************************************)

\* The steps of a call in their order: arguments, player, scripts, engine,
\* solve, and the way out.
BeforePlayer == {"require_player", "read_player", "fetch_page", "fetch_js", "endless"}
BeforeEngine == BeforePlayer \cup {"require", "read", "runtime"}
InEngine == {"context", "check", "eval", "jsc", "call", "shape"}
WayOut == {"leave", "free_context", "free_runtime"}

\* Every variable, and every local of the two functions, has its C++ type.
TypeOK ==
    /\ files \in [FileNames -> FileStates] /\ seen \subseteq FileStates
    /\ pc \in {"idle", "validate", "crashed"} \cup BeforeEngine \cup InEngine \cup WayOut
    /\ call \in Calls \cup {Null}
    /\ k \in 1..4
    /\ assets \in [FileNames -> FileTexts \cup {Null}]
    /\ page \in Pages \cup {Null}
    /\ rt \in {Null, "live", "null"} /\ ctx \in {Null, "live", "null"}
    /\ refs \subseteq {"global", "jsc_func", "arg", "ret"}
    /\ pc = "shape" => raw \in Raws(assets["base.js"], call.requests)
    /\ result \in Results \cup {Null}
    /\ calls \in 0..MaxCalls /\ edits \in 0..MaxEdits

\* JS_FreeRuntime asserts that nothing is left on its heap: on every path,
\* the context goes before the runtime and the values before the context; and
\* a call that has returned or thrown has left nothing of its engine behind.
RuntimeFreedLast ==
    /\ refs # {} => ctx = "live"
    /\ ctx = "live" => rt = "live"
    /\ pc = "idle" => rt = Null /\ ctx = Null /\ refs = {}

Answered == pc = "idle" /\ call # Null /\ result.error = Null

\* The responses a call returns are about its own requests, place by place:
\* the type is the request's, and data that came with ok is the answer to
\* that request under the player script this call has loaded.
AnswersInPlace ==
    Answered => \A j \in 1..Len(result.responses) : j <= Len(call.requests) =>
        LET response == result.responses[j] IN
        /\ response.type = call.requests[j].type
        /\ response.data \in {<<>>, Solution(assets["base.js"], call.requests[j])}
        /\ response.ok \/ response.data = <<>>

\* A local call solves with a text that base.js had while the call ran, all
\* of it from one moment, although the file may change between the check
\* and the read; only a directory put in its place is taken for "".
PlayerFromFile ==
    Answered /\ call.requests # <<>> /\ call.mode = "local" =>
        \/ assets["base.js"] \in seen
        \/ assets["base.js"] = "" /\ "directory" \in seen

\* The script that the watch page names, seen from the page's own address.
Named ==
    LET js == page.answer.jsUrl
        host == IF js.host = "" THEN page.address[1] ELSE js.host
    IN Serves[Final(<<host, js.path>>)]

\* A watch call solves with the script that the page it fetched names:
\* "solve sig/n requests against the current player".
PlayerIsCurrent ==
    Answered /\ call.requests # <<>> /\ call.mode = "watch" =>
        assets["base.js"] \in {""} \cup (IF Named.kind = "script" THEN {Named.text} ELSE {})

\* A call solves with the player script that was meant: a local one with
\* a text of the file (PlayerFromFile), and one whose page comes from the host
\* of the watch URL and names a script on that host with that script.
PlayerIsTheOneMeant ==
    /\ PlayerFromFile
    /\ (page # Null /\ page.address[1] = call.url[1] /\ page.answer.kind = "page"
         /\ page.answer.jsUrl # Null /\ page.answer.jsUrl.host \in {"", call.url[1]})
       => PlayerIsCurrent

\* A runtime that could not be created is reported by an exception and not
\* used: "JS_NewRuntime fehlgeschlagen".
NullRuntimeIsReported == pc # "crashed"

\* Every call returns or throws: no step of the way in or out is skipped or
\* repeated for ever.  Two things keep a call from its end: a null runtime, of
\* which it dies, and a server whose reply keeps https_request running (it
\* never stops, or it has a chunk size that wraps).
EveryCallEnds == pc # "idle" ~> pc \in {"idle", "crashed", "endless"}

-----------------------------------------------------------------------------
(***************************************************************************)
(* What makes them inductive.                                              *)
(***************************************************************************)

\* A call that is under way has requests, supported ones once they have been
\* checked, and gets its result on the way out and not before.
CallInv ==
    /\ pc # "idle" => call \in Calls /\ call.requests # <<>>
    /\ pc \in BeforeEngine \cup InEngine =>
          \A j \in 1..Len(call.requests) : Supported(call.requests[j])
    /\ pc \notin WayOut \cup {"idle"} => result = Null
    /\ pc \in WayOut => result # Null
    /\ pc = "idle" => call = Null \/ result # Null
    /\ pc \in {"require_player", "read_player"} => call.mode = "local"
    /\ pc \in {"fetch_page", "fetch_js"} => call.mode = "watch"

\* How much of the engine exists at each step.
EngineInv ==
    /\ pc \in {"idle", "validate"} \cup BeforeEngine => rt = Null /\ ctx = Null
    /\ pc \in {"context", "crashed", "free_runtime"} => ctx = Null
    /\ pc \in {"check", "eval", "jsc", "call", "shape"} => rt = "live"
    /\ pc \in {"eval", "jsc", "call", "shape"} => ctx = "live"
    /\ pc \notin {"call", "shape", "leave"} => refs = {}
    /\ refs # {} => ctx = "live"
    /\ ctx = "live" => rt = "live"

\* The player script a call goes on with once it has one.
PlayerLoaded ==
    /\ assets["base.js"] \in FileTexts
    /\ call.mode = "local" => \/ assets["base.js"] \in seen
                              \/ assets["base.js"] = "" /\ "directory" \in seen
    /\ call.mode = "watch" =>
          LET answer == Serves[Final(JsAddress(call.url, page.answer.jsUrl))] IN
          assets["base.js"] \in {""} \cup (IF answer.kind = "script" THEN {answer.text} ELSE {})

\* What base.js is now is among what it has been, a page is the one that the
\* watch URL leads to, and from the player step on the script is there.
PlayerInv ==
    /\ call # Null => files["base.js"] \in seen
    /\ pc = "fetch_js" => /\ call.url # Null
                          /\ page = [address |-> Final(call.url), answer |-> Serves[Final(call.url)]]
    /\ pc \in {"require", "read", "runtime"} \cup InEngine => PlayerLoaded
    /\ call # Null /\ call.requests # <<>> /\ result # Null /\ result.error = Null => PlayerLoaded

\* The responses are in place from the moment they have been made.
ResponsesInv ==
    call # Null /\ result # Null /\ result.error = Null =>
        \A j \in 1..Len(result.responses) : j <= Len(call.requests) =>
            LET response == result.responses[j] IN
            /\ response.type = call.requests[j].type
            /\ response.data \in {<<>>, Solution(assets["base.js"], call.requests[j])}
            /\ response.ok \/ response.data = <<>>
=============================================================================
