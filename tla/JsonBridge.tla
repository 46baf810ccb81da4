----------------------------- MODULE JsonBridge -----------------------------
(***************************************************************************)
(* The conversions between JsonCpp and QuickJS values through which every  *)
(* request reaches the solver and every answer comes back.                 *)
(*                                                                         *)
(* Values are trees [t |-> tag, v |-> content].  A string is a model value *)
(* and Cut[s] is what a char* keeps of it: the text before its first NUL.  *)
(* Integers are small: Int32Max, Uint32Max and Exact stand for 2^31 - 1,   *)
(* 2^32 - 1 and 2^53, above which a double has only even numbers.  That a   *)
(* number comes back as a double is not seen: JsonCpp converts it on use.  *)
(***************************************************************************)
EXTENDS Integers, Sequences

CONSTANTS
    Strings, Cut,
    Proto,         \* the string "__proto__"
    Int32Max, Uint32Max, Exact,
    JsonValues,      \* JSON values to convert
    Results        \* JavaScript values to convert

BridgeAssumption ==
    /\ Cut \in [Strings -> Strings] /\ Proto \in Strings /\ Cut[Proto] = Proto
    /\ \A s \in Strings : Cut[Cut[s]] = Cut[s]
    /\ Int32Max < Uint32Max /\ Uint32Max < Exact /\ Exact % 2 = 0

VARIABLES
    json,    \* what is converted, or the result
    js,      \* the JavaScript value
    stage    \* "json", "js" and "back", or "result" and "answer"

vars == <<json, js, stage>>

Undefined == [t |-> "undefined"]
JNull == [t |-> "null"]

-----------------------------------------------------------------------------
\* The double nearest to an integer.
AsDouble(n) == IF n <= Exact THEN n ELSE n - (n % 2)

\* Mutant: every integer as an int.
NumberToJsInt(n) == [t |-> "int", v |-> IF n > Int32Max THEN n - 2 * (Int32Max + 1) ELSE n]

\* isInt, isUInt, isInt64 and isUInt64, isDouble.
NumberToJs(n) ==
    IF n <= Uint32Max THEN [t |-> "int", v |-> n] ELSE [t |-> "float", v |-> AsDouble(n)]

\* Of the keys that are the same for a char* the last one stays, and in the
\* order of the keys that is one with a NUL.
Last(keys, k) ==
    CHOOSE x \in keys : Cut[x] = k /\ (x = k => \A y \in keys : Cut[y] = k => y = x)

\* JS_SetPropertyStr on a new object: a key "__proto__" sets the prototype and
\* makes no property.
SetProperties(o) ==
    [k \in {Cut[x] : x \in DOMAIN o} \ {Proto} |-> o[Last(DOMAIN o, k)]]

RECURSIVE JsonToJs(_)
\* json_to_js_qjs
JsonToJs(x) ==
    CASE x.t \in {"null", "bool"} -> x
      [] x.t = "number" -> NumberToJs(x.v)
      [] x.t = "string" -> [x EXCEPT !.v = Cut[@]]
      [] x.t = "array" -> [x EXCEPT !.v = [i \in DOMAIN @ |-> JsonToJs(@[i])]]
      [] x.t = "object" ->
            [x EXCEPT !.v = SetProperties([k \in DOMAIN @ |-> JsonToJs(@[k])])]

RECURSIVE JsToJson(_)

\* Mutant: what cannot be read is left out of an array.
ElementsRead(a) ==
    LET readable == SelectSeq(a, LAMBDA x : x.t # "throws") IN
    [i \in DOMAIN readable |-> JsToJson(readable[i])]

\* The loop over the elements of an array: what throws gives null.
Elements(a) == [i \in DOMAIN a |-> JsToJson(a[i])]

\* The loop over the own enumerable properties with a string as their key.
Members(o) ==
    [k \in {Cut[x] : x \in DOMAIN o} |-> JsToJson(o[Last(DOMAIN o, k)])]

\* js_to_json_qjs.  Functions, regular expressions and the like are objects;
\* symbols, big integers and the exception of a getter are nothing of all this.
JsToJson(x) ==
    CASE x.t \in {"null", "undefined"} -> JNull
      [] x.t = "bool" -> x
      [] x.t \in {"int", "float"} -> [t |-> "number", v |-> x.v]
      [] x.t = "string" -> [x EXCEPT !.v = Cut[@]]
      [] x.t = "array" -> [x EXCEPT !.v = Elements(@)]
      [] x.t \in {"object", "function"} -> [t |-> "object", v |-> Members(x.v)]
      [] x.t \in {"symbol", "bigint", "throws"} -> JNull

-----------------------------------------------------------------------------
Init ==
    \/ stage = "json" /\ json \in JsonValues /\ js = Undefined
    \/ stage = "result" /\ js \in Results /\ json = JNull

\* The request goes to the solver.
Send ==
    /\ stage = "json" /\ stage' = "js"
    /\ js' = JsonToJs(json) /\ UNCHANGED json

\* What a script got comes back as it was.
Echo ==
    /\ stage = "js" /\ stage' = "back"
    /\ json' = [sent |-> json, back |-> JsToJson(js)] /\ UNCHANGED js

\* An answer of the scripts.
Receive ==
    /\ stage = "result" /\ stage' = "answer"
    /\ json' = JsToJson(js) /\ UNCHANGED js

Next == Send \/ Echo \/ Receive

Spec == Init /\ [][Next]_vars

-----------------------------------------------------------------------------
(***************************************************************************)
(* Properties.                                                             *)
(***************************************************************************)
RECURSIVE Kept(_)
\* Nothing in a JSON value that the bridge loses: no text with a NUL, no key
\* "__proto__", no integer that a double does not have.
Kept(x) ==
    CASE x.t \in {"null", "bool"} -> TRUE
      [] x.t = "number" -> x.v <= Exact \/ x.v % 2 = 0
      [] x.t = "string" -> Cut[x.v] = x.v
      [] x.t = "array" -> \A i \in DOMAIN x.v : Kept(x.v[i])
      [] x.t = "object" -> \A k \in DOMAIN x.v : Cut[k] = k /\ k # Proto /\ Kept(x.v[k])

\* A request comes to the scripts as it was made, and could be sent back as it
\* was, if and only if nothing of the kinds in Kept is in it: these are all
\* the losses of json_to_js_qjs and js_to_json_qjs together.
LossExactlyKnown ==
    stage = "back" => (json.back = json.sent <=> Kept(json.sent))

RECURSIVE Shape(_, _)
\* Arrays keep their length and the place of every element, objects keep every
\* key that a char* can tell from the others.
Shape(x, y) ==
    /\ x.t = "array" => /\ y.t = "array" /\ DOMAIN y.v = DOMAIN x.v
                        /\ \A i \in DOMAIN x.v : Shape(x.v[i], y.v[i])
    /\ x.t = "object" => /\ y.t = "object" /\ DOMAIN y.v = {Cut[k] : k \in DOMAIN x.v}
                         /\ \A k \in DOMAIN x.v :
                               k = Last(DOMAIN x.v, Cut[k]) => Shape(x.v[k], y.v[Cut[k]])
    /\ x.t = "string" => y = [t |-> "string", v |-> Cut[x.v]]

\* An answer keeps its shape, so that the answer number i is that to the
\* request number i also when another one cannot be converted.
AnswersInTheirPlaces ==
    stage = "answer" => Shape(js, json)
=============================================================================
