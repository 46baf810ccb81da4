---------------------------- MODULE SolverCache ----------------------------
(***************************************************************************)
(* solve_format_url and what it works on: the mutex-protected answer cache *)
(* that every copy of a SolverAssets shares, and the solver engine that    *)
(* each thread keeps in a thread_local for its whole life.                 *)
(*                                                                         *)
(* A thread looks its requests up under the mutex, runs the engine on the  *)
(* missing ones with the mutex released, takes the mutex again to store    *)
(* the answers, and finally writes what it has into the URL.  Another      *)
(* thread may be anywhere in the same sequence.                            *)
(*                                                                         *)
(* Abstractions.  A SolverAssets is an identity in Assets; PlayerOf gives  *)
(* the player script it carries, HasCache whether its shared_ptr is set.   *)
(* n_values and sig_values are one map from the request (its type and its  *)
(* challenge) to the data, n_errors and sig_errors another.  A URL is its  *)
(* query: the text of each parameter, under the name that one decoding     *)
(* gives, and the place of the parameter counted from the end.  A text is  *)
(* the data it was written with and the number of times                    *)
(* set_or_replace_query_param has decoded it since; Once does the same to  *)
(* a name.  An error message joined with " | " is the sequence of its      *)
(* parts.                                                                  *)
(***************************************************************************)
EXTENDS Naturals, Sequences

CONSTANTS
    Threads,    \* threads that call solve_format_url
    Assets,     \* SolverAssets objects, copies identified
    Players,    \* player scripts (base.js versions)
    PlayerOf,   \* PlayerOf[a]: the player_code of assets a
    HasCache,   \* HasCache[a]: assets a was given a cache
    ServedBy,   \* ServedBy[t]: the assets that thread t is called with
    Challenges, \* challenge strings
    ParamNames, \* names of query parameters
    Once,       \* Once[x]: what decoding makes of the name x
    Order,      \* Order[x]: the place, from the end, that std::map gives x
    Originals,  \* texts the caller's URLs may hold
    Formats,    \* the FormatInfo arguments
    ErrorTexts, \* messages jsc reports for one request
    Thrown,     \* what() of the exceptions out of the engine
    MaxCalls,   \* bound: calls per thread
    Absent      \* no entry, no URL, no engine, no lock holder

(***************************************************************************)
(* Types of yoube_model.h.  "other" stands for every request type that is  *)
(* neither "n" nor "sig".                                                  *)
(***************************************************************************)
CachedTypes == {"n", "sig"}
Requests == [type : CachedTypes \cup {"other"}, challenge : Challenges]
Keys == [type : CachedTypes, challenge : Challenges]

EmptyText == <<>>
Solution(p, r) == <<p, r.type, r.challenge>>
Data == {EmptyText} \cup {Solution(p, r) : p \in Players, r \in Requests}

Texts == [data : Data \cup Originals, passes : Nat]
Urls == [value : [ParamNames -> Texts \cup {Absent}], place : [ParamNames -> Nat]]

Messages == ErrorTexts \cup Thrown \cup {"", "Keine URL vorhanden", "Solver-Cache fehlt"}
Results == [decoded_url : Urls \cup {Absent}, solver_error : Seq(Messages)]

SolverResponses == [ok : BOOLEAN, data : Data, error : ErrorTexts \cup {""}]
ReadyPairs == [type : CachedTypes \cup {"other"}, data : Data]

Labels == {"idle", "lookup_lock", "lookup", "engine", "solve",
           "store_lock", "store", "apply"}

\* The last two are history: how often current has been rewritten, and the
\* requests that failed without a word that could be reported.
Calls == [assets : Assets, fmt : Formats, i : Nat \ {0},
          ready : Seq(ReadyPairs), missing : Seq(Requests),
          responses : Seq(SolverResponses), current : Urls \cup {Absent},
          sets : Nat, unsaid : SUBSET Requests]

\* Decoding leaves the name x alone, and what it turns into x comes before x
\* in a std::map.  All names of letters are plain: "%" and "+", which decoding
\* replaces, sort before every letter.
Plain(x) ==
    /\ Once[x] = x
    /\ \A y \in ParamNames : Once[y] = x /\ y # x => Order[x] < Order[y]

ASSUME ConstantsAssumption ==
    /\ PlayerOf \in [Assets -> Players]
    /\ HasCache \in [Assets -> BOOLEAN]
    /\ ServedBy \in [Threads -> SUBSET Assets]
    /\ {"n", "signature"} \subseteq ParamNames
    /\ Once \in [ParamNames -> ParamNames]
    /\ Order \in [ParamNames -> Nat]
    /\ Plain("n") /\ Plain("signature")
    /\ Formats \subseteq [url : Urls \cup {Absent},
                          sp : ParamNames \cup {""},
                          requests : Seq(Requests)]
    /\ MaxCalls \in Nat
    /\ Absent \notin Threads \cup Assets \cup Data \cup ErrorTexts \cup {""}
    /\ Absent \notin Texts \cup Urls \cup Calls \cup Results

VARIABLES
    values,   \* values[a][k]: n_values / sig_values of a's cache
    errors,   \* errors[a][k]: n_errors / sig_errors of a's cache
    lock,     \* lock[a]: the thread that holds the mutex of a's cache
    engine,   \* engine[t]: the assets t's thread_local engine was built from
    pc,       \* where each thread is in solve_format_url
    call,     \* the arguments and local variables of its call
    out,      \* the SolvedUrlResult it is building or has returned
    calls,    \* how many calls it has made
    storedBy  \* history: the threads that have stored an answer for a key

vars == <<values, errors, lock, engine, pc, call, out, calls, storedBy>>
shared == <<values, errors, lock, storedBy>>

(***************************************************************************)
(* What one request can come back as from the engine (external: the jsc    *)
(* function of core.min.js).  It may succeed with the solution under the   *)
(* engine's player, succeed without any string in its data, or fail.       *)
(***************************************************************************)
Outcomes(p, r) ==
    {[ok |-> TRUE, data |-> d, error |-> ""] : d \in {Solution(p, r), EmptyText}}
    \cup {[ok |-> FALSE, data |-> EmptyText, error |-> e] : e \in ErrorTexts}

\* The replies to a list of requests; the array jsc returns may be short.
\* (It may also be long, but nothing past the last request is ever read.)
Replies(p, reqs) ==
    UNION {{s \in [1..k -> UNION {Outcomes(p, reqs[j]) : j \in 1..k}] :
                \A j \in 1..k : s[j] \in Outcomes(p, reqs[j])} : k \in 0..Len(reqs)}

\* Mutant: the message is added inside the test for the separator.
AddErrorToOthers(res, text) ==
    [res EXCEPT !.solver_error = IF @ = <<>> THEN @ ELSE Append(@, text)]

\* out.solver_error += text, with the separator only between two parts.
AddError(res, text) ==
    [res EXCEPT !.solver_error =
        IF @ = <<>> /\ text = "" THEN @ ELSE Append(@, text)]

\* The parameters of url that one more decoding calls x, and the one of them
\* that parse_query_string keeps: the last in the query.
Sources(url, x) == {y \in ParamNames : url.value[y] # Absent /\ Once[y] = x}
LastOf(url, x) ==
    CHOOSE y \in Sources(url, x) : \A z \in Sources(url, x) : url.place[y] <= url.place[z]

\* Mutant: the query is rebuilt from the new parameter alone.
SetParamDropsOthers(url, key, data) ==
    [value |-> [x \in ParamNames |->
                  IF x = key THEN [data |-> data, passes |-> 0] ELSE Absent],
     place |-> Order]

\* set_or_replace_query_param: names and values are decoded twice and encoded
\* once, so that everything but the new parameter is decoded once more.
SetParam(url, key, data) ==
    [value |-> [x \in ParamNames |->
                  IF x = key THEN [data |-> data, passes |-> 0]
                  ELSE IF Sources(url, x) = {} THEN Absent
                  ELSE [url.value[LastOf(url, x)] EXCEPT !.passes = @ + 1]],
     place |-> Order]

\* The parameter a solved value goes to: "n", or fmt.sp with its default.
ParamFor(fmt, type) ==
    IF type = "n" THEN "n" ELSE IF fmt.sp = "" THEN "signature" ELSE fmt.sp

Init ==
    /\ values = [a \in Assets |-> [k \in Keys |-> Absent]]
    /\ errors = [a \in Assets |-> [k \in Keys |-> Absent]]
    /\ lock = [a \in Assets |-> Absent]
    /\ engine = [t \in Threads |-> Absent]
    /\ pc = [t \in Threads |-> "idle"]
    /\ call = [t \in Threads |-> Absent]
    /\ out = [t \in Threads |-> Absent]
    /\ calls = [t \in Threads |-> 0]
    /\ storedBy = [a \in Assets |-> [k \in Keys |-> {}]]

Goto(t, label) == pc' = [pc EXCEPT ![t] = label]

\* The mutex of a cache: lock_guard's constructor and destructor.  Mutants:
\* no waiting for the holder, and no unlock at the end of the scope.
AcquireUnchecked(t, a) == lock' = [lock EXCEPT ![a] = t]
KeepLock(a) == lock' = lock

Acquire(t, a) ==
    /\ lock[a] = Absent
    /\ lock' = [lock EXCEPT ![a] = t]
Unlock(a) == lock' = [lock EXCEPT ![a] = Absent]

\* The requests of call c.
Asked(c) == {c.fmt.requests[j] : j \in 1..Len(c.fmt.requests)}

\* Mutant: the exception is swallowed.
CatchSilently(t) == UNCHANGED <<out, call>> /\ Goto(t, "idle")

\* throw ... catch (const std::exception& e): the error replaces what was
\* collected, the URL is the caller's and the values found so far are lost.
\* what() is empty when a script throws an empty text.
Catch(t) ==
    /\ \E e \in Thrown :
          /\ out' = [out EXCEPT ![t].solver_error = IF e = "" THEN <<>> ELSE <<e>>]
          /\ call' = [call EXCEPT ![t].unsaid = IF e = "" THEN Asked(call[t]) ELSE @]
    /\ Goto(t, "idle")

(***************************************************************************)
(* Entry: the checks that return before the cache is touched.              *)
(***************************************************************************)
Call(t, a, fmt) ==
    LET res == [decoded_url |-> fmt.url, solver_error |-> <<>>]
        Return(r) == out' = [out EXCEPT ![t] = r] /\ Goto(t, "idle")
    IN
    /\ pc[t] = "idle"
    /\ calls[t] < MaxCalls
    /\ calls' = [calls EXCEPT ![t] = @ + 1]
    /\ call' = [call EXCEPT ![t] =
                   [assets |-> a, fmt |-> fmt, i |-> 1, ready |-> <<>>,
                    missing |-> <<>>, responses |-> <<>>, current |-> fmt.url,
                    sets |-> 0, unsaid |-> {}]]
    /\ \/ /\ fmt.url = Absent
          /\ Return([res EXCEPT !.solver_error = <<"Keine URL vorhanden">>])
       \/ /\ fmt.url # Absent
          /\ fmt.requests = <<>>
          /\ Return(res)
       \/ /\ fmt.url # Absent
          /\ fmt.requests # <<>>
          /\ ~HasCache[a]
          /\ Return([res EXCEPT !.solver_error = <<"Solver-Cache fehlt">>])
       \/ /\ fmt.url # Absent
          /\ fmt.requests # <<>>
          /\ HasCache[a]
          /\ out' = [out EXCEPT ![t] = res]
          /\ Goto(t, "lookup_lock")
    /\ UNCHANGED <<shared, engine>>

(***************************************************************************)
(* First critical section: sort the requests into ready and missing.       *)
(***************************************************************************)
LockForLookup(t) ==
    /\ pc[t] = "lookup_lock"
    /\ Acquire(t, call[t].assets)
    /\ Goto(t, "lookup")
    /\ UNCHANGED <<values, errors, storedBy, engine, call, out, calls>>

\* Mutant: errors are not looked up.
FindErrorNever(a, r) == Absent

\* n_values.find / sig_values.find, and the same for the errors.
FindValue(a, r) == values[a][r]
FindError(a, r) == errors[a][r]

LookupOne(t) ==
    LET c == call[t]
        r == c.fmt.requests[c.i]
    IN
    /\ pc[t] = "lookup"
    /\ c.i <= Len(c.fmt.requests)
    /\ \/ /\ r.type \in CachedTypes
          /\ FindValue(c.assets, r) # Absent
          /\ call' = [call EXCEPT ![t].i = @ + 1,
                        ![t].ready = Append(@, [type |-> r.type,
                                                data |-> FindValue(c.assets, r)])]
          /\ UNCHANGED out
       \/ /\ r.type \in CachedTypes
          /\ FindValue(c.assets, r) = Absent
          /\ FindError(c.assets, r) # Absent
          /\ call' = [call EXCEPT ![t].i = @ + 1,
                        ![t].unsaid = @ \cup {q \in {r} : FindError(c.assets, r) = ""}]
          /\ out' = [out EXCEPT ![t] = AddError(@, FindError(c.assets, r))]
       \/ /\ r.type \in CachedTypes =>
                /\ FindValue(c.assets, r) = Absent
                /\ FindError(c.assets, r) = Absent
          /\ call' = [call EXCEPT ![t].i = @ + 1,
                                  ![t].missing = Append(@, r)]
          /\ UNCHANGED out
    /\ UNCHANGED <<shared, engine, pc, calls>>

LookupDone(t) ==
    LET c == call[t] IN
    /\ pc[t] = "lookup"
    /\ c.i > Len(c.fmt.requests)
    /\ Unlock(c.assets)
    /\ call' = [call EXCEPT ![t].i = 1]
    /\ Goto(t, IF c.missing = <<>> THEN "apply" ELSE "engine")
    /\ UNCHANGED <<values, errors, storedBy, engine, out, calls>>

(***************************************************************************)
(* thread_local_solver_engine: the first call of a thread builds the       *)
(* engine from its assets, every later call gets that same engine.         *)
(***************************************************************************)
GetEngineUnset(t) ==  \* Mutant: the new engine is not kept
    /\ pc[t] = "engine"
    /\ Goto(t, "solve")
    /\ UNCHANGED <<shared, engine, out, call, calls>>

GetEngine(t) ==
    /\ pc[t] = "engine"
    /\ \/ /\ engine[t] # Absent
          /\ Goto(t, "solve")
          /\ UNCHANGED <<engine, out, call>>
       \/ /\ engine[t] = Absent
          /\ engine' = [engine EXCEPT ![t] = call[t].assets]
          /\ Goto(t, "solve")
          /\ UNCHANGED <<out, call>>
       \/ /\ engine[t] = Absent
          /\ Catch(t)
          /\ UNCHANGED engine
    /\ UNCHANGED <<shared, calls>>

\* engine.solve(missing), outside the mutex.
Solve(t) ==
    /\ pc[t] = "solve"
    /\ \/ /\ \E s \in Replies(PlayerOf[engine[t]], call[t].missing) :
                call' = [call EXCEPT ![t].responses = s]
          /\ Goto(t, "store_lock")
          /\ UNCHANGED out
       \/ Catch(t)
    /\ UNCHANGED <<shared, engine, calls>>

(***************************************************************************)
(* Second critical section: store the answers.                             *)
(***************************************************************************)
LockForStore(t) ==
    /\ pc[t] = "store_lock"
    /\ Acquire(t, call[t].assets)
    /\ Goto(t, "store")
    /\ UNCHANGED <<values, errors, storedBy, engine, call, out, calls>>

\* Mutant: the requests of the format are taken for the missing ones.
StoredRequestOfFormat(c) == c.fmt.requests[c.i]

\* The request that the next response answers.
StoredRequest(c) == c.missing[c.i]

StoreOne(t) ==
    LET c == call[t]
        r == StoredRequest(c)
        resp == c.responses[c.i]
    IN
    /\ pc[t] = "store"
    /\ c.i <= Len(c.missing)
    /\ c.i <= Len(c.responses)
    /\ \/ /\ resp.ok
          /\ values' = IF r.type \in CachedTypes
                       THEN [values EXCEPT ![c.assets][r] = resp.data]
                       ELSE values
          /\ call' = [call EXCEPT ![t].i = @ + 1,
                        ![t].ready = Append(@, [type |-> r.type, data |-> resp.data])]
          /\ UNCHANGED <<errors, out>>
       \/ /\ ~resp.ok
          /\ errors' = IF r.type \in CachedTypes
                       THEN [errors EXCEPT ![c.assets][r] = resp.error]
                       ELSE errors
          /\ call' = [call EXCEPT ![t].i = @ + 1,
                        ![t].unsaid = @ \cup {q \in {r} : resp.error = ""}]
          /\ out' = [out EXCEPT ![t] = AddError(@, resp.error)]
          /\ UNCHANGED values
    /\ storedBy' = IF r.type \in CachedTypes
                   THEN [storedBy EXCEPT ![c.assets][r] = @ \cup {t}]
                   ELSE storedBy
    /\ UNCHANGED <<lock, engine, pc, calls>>

\* The requests that jsc gave no response to.
NoReply(c) == {c.missing[m] : m \in (Len(c.responses) + 1)..Len(c.missing)}

StoreDone(t) ==
    LET c == call[t] IN
    /\ pc[t] = "store"
    /\ c.i > Len(c.missing) \/ c.i > Len(c.responses)
    /\ Unlock(c.assets)
    /\ call' = [call EXCEPT ![t].i = 1, ![t].unsaid = @ \cup NoReply(c)]
    /\ Goto(t, "apply")
    /\ UNCHANGED <<values, errors, storedBy, engine, out, calls>>

(***************************************************************************)
(* Write the ready values into the URL, in the order they became ready.    *)
(***************************************************************************)
ApplyOne(t) ==
    LET c == call[t]
        kv == c.ready[c.i]
    IN
    /\ pc[t] = "apply"
    /\ c.i <= Len(c.ready)
    /\ call' = [call EXCEPT ![t].i = @ + 1,
                  ![t].current = IF kv.type \in CachedTypes
                                 THEN SetParam(@, ParamFor(c.fmt, kv.type), kv.data)
                                 ELSE @,
                  ![t].sets = IF kv.type \in CachedTypes THEN @ + 1 ELSE @]
    /\ UNCHANGED <<shared, engine, pc, out, calls>>

ApplyDone(t) ==
    /\ pc[t] = "apply"
    /\ call[t].i > Len(call[t].ready)
    /\ out' = [out EXCEPT ![t].decoded_url = call[t].current]
    /\ Goto(t, "idle")
    /\ UNCHANGED <<shared, engine, call, calls>>

\* The thread ends between two calls and its thread_local engine with it.
ThreadExit(t) ==
    /\ pc[t] = "idle"
    /\ engine[t] # Absent
    /\ engine' = [engine EXCEPT ![t] = Absent]
    /\ UNCHANGED <<shared, pc, call, out, calls>>

Step(t) ==
    \/ LockForLookup(t) \/ LookupOne(t) \/ LookupDone(t)
    \/ GetEngine(t) \/ Solve(t)
    \/ LockForStore(t) \/ StoreOne(t) \/ StoreDone(t)
    \/ ApplyOne(t) \/ ApplyDone(t)

Next ==
    \E t \in Threads :
        \/ \E a \in ServedBy[t], fmt \in Formats : Call(t, a, fmt)
        \/ Step(t)
        \/ ThreadExit(t)

Spec == Init /\ [][Next]_vars

\* A thread inside a call keeps running: the scheduler runs it, the mutex
\* is released by its holder, and jsc and the engine's scripts return.
FairSpec == Spec /\ \A t \in Threads : WF_vars(Step(t))
-----------------------------------------------------------------------------
(***************************************************************************)
(* Properties.                                                             *)
(***************************************************************************)

\* Every variable, and every local of solve_format_url, has its C++ type.
TypeOK ==
    /\ values \in [Assets -> [Keys -> Data \cup {Absent}]]
    /\ errors \in [Assets -> [Keys -> ErrorTexts \cup {"", Absent}]]
    /\ lock \in [Assets -> Threads \cup {Absent}]
    /\ engine \in [Threads -> Assets \cup {Absent}]
    /\ pc \in [Threads -> Labels]
    /\ call \in [Threads -> Calls \cup {Absent}]
    /\ out \in [Threads -> Results \cup {Absent}]
    /\ calls \in [Threads -> 0..MaxCalls]
    /\ storedBy \in [Assets -> [Keys -> SUBSET Threads]]
    /\ \A t \in Threads : call[t] = Absent <=> out[t] = Absent
    /\ \A t \in Threads :
          pc[t] # "idle" => call[t] # Absent /\ call[t].current # Absent
    /\ \A t \in Threads : pc[t] = "solve" => engine[t] # Absent

InSection(t) == pc[t] \in {"lookup", "store"}

\* Two threads are never inside the maps of one SolverSharedCache at once:
\* the unordered_maps are only touched under the two lock_guard scopes.
RaceFree ==
    \A t, u \in Threads :
        t # u /\ InSection(t) /\ InSection(u) => call[t].assets # call[u].assets

\* The condition on the callers under which the thread_local engine is the
\* right one: a thread is only ever called with assets of one player.
OnePlayerPerThread ==
    \A t \in Threads : \A a, b \in ServedBy[t] : PlayerOf[a] = PlayerOf[b]

\* What the cache of assets a holds for a request is the answer of the
\* player script that a carries, whoever stored it and in whatever order
\* concurrent misses of the same challenge came back.
CacheFaithful ==
    \A a \in Assets, k \in Keys :
        values[a][k] \in {Absent, EmptyText, Solution(PlayerOf[a], k)}

Returned(t) == pc[t] = "idle" /\ call[t] # Absent

\* The requests of call c that go to parameter x, and the answers to them.
AskedFor(c, x) ==
    {r \in Asked(c) : r.type \in CachedTypes /\ ParamFor(c.fmt, r.type) = x}
AnswersTo(c, r) == {EmptyText, Solution(PlayerOf[c.assets], r)}
AnswersFor(c, x) ==
    {EmptyText} \cup {Solution(PlayerOf[c.assets], r) : r \in AskedFor(c, x)}

\* Decoding the name y k times gives x.
Becomes(k, y, x) ==
    \E s \in [0..k -> ParamNames] :
        s[0] = y /\ s[k] = x /\ \A i \in 1..k : s[i] = Once[s[i - 1]]

\* Parameter x of url, which has been rewritten k times, is one of the
\* caller's, its name and its text decoded that often.
Kept(c, url, k, x) ==
    \E y \in ParamNames :
        /\ c.fmt.url.value[y] # Absent
        /\ url.value[x].data = c.fmt.url.value[y].data
        /\ url.value[x].passes = c.fmt.url.value[y].passes + k
        /\ Becomes(k, y, x)

\* Parameter x of url is an answer to a request of c for it, and has been
\* decoded once for each of the rewritings since.
Written(c, url, k, x) ==
    \E r \in Asked(c), j \in 0..k :
        /\ r.type \in CachedTypes
        /\ j < k
        /\ url.value[x].data \in AnswersTo(c, r)
        /\ url.value[x].passes = j
        /\ Becomes(j, ParamFor(c.fmt, r.type), x)

\* Nothing has been made up and no parameter of the caller's has gone.
UrlFaithful(c, url, k) ==
    /\ \A x \in ParamNames :
          url.value[x] # Absent => Kept(c, url, k, x) \/ Written(c, url, k, x)
    /\ \A y \in ParamNames : c.fmt.url.value[y] # Absent =>
          \E x \in ParamNames : url.value[x] # Absent /\ Becomes(k, y, x)

\* Every parameter of the URL a call returns is either one of the caller's,
\* its name and its value decoded once more for each answer written, or the
\* answer to one of this call's own requests under the player of the assets
\* it was made with, decoded once more for each answer written after it; and
\* every name of the caller's is still there, decoded likewise (two that have
\* become one leave one value).
ResultFaithful ==
    \A t \in Threads : Returned(t) /\ call[t].fmt.url # Absent =>
        UrlFaithful(call[t], out[t].decoded_url, call[t].sets)

\* A request of type has an answer ready, or written into url.
IsReady(c, type) == \E m \in 1..Len(c.ready) : c.ready[m].type = type
IsWritten(c, url, type) ==
    LET x == ParamFor(c.fmt, type) IN
    /\ url.value[x] # Absent
    /\ url.value[x].data \in Data
    /\ OnePlayerPerThread => url.value[x].data \in AnswersFor(c, x)

\* Where the answer to r need not be found: the request failed without a word
\* (see NoSilentDrop), or fmt.sp is a name that a later rewriting changes.
Dropped(c, r) == r \in c.unsaid \/ ~Plain(ParamFor(c.fmt, r.type))

\* A call that returns no error has answered every request it was given,
\* from the cache or from the engine, and the answer is in the URL.  It is
\* not where jsc gave this very request no response, where it failed with an
\* empty message, now or in the call that cached the failure, and where the
\* engine threw an empty text, which loses the answers found before as well.
NoSilentDrop ==
    \A t \in Threads :
        /\ Returned(t)
        /\ out[t].solver_error = <<>>
        => \A r \in Asked(call[t]) : r.type \in CachedTypes =>
              Dropped(call[t], r) \/ IsWritten(call[t], out[t].decoded_url, r.type)

\* A thread never runs the engine on a request whose answer it has already
\* stored in that cache, an error included: the check and the store are in
\* different critical sections, yet nothing stored is ever looked past.
NoRepeatedWork ==
    \A t \in Threads :
        pc[t] \in {"engine", "solve", "store_lock"} =>
            \A j \in 1..Len(call[t].missing) :
                call[t].missing[j].type \in CachedTypes =>
                    t \notin storedBy[call[t].assets][call[t].missing[j]]

\* fmt asks at most once for each parameter of the URL.
OneRequestPerParam(fmt) ==
    \A i, j \in 1..Len(fmt.requests) :
        /\ i # j
        /\ {fmt.requests[i].type, fmt.requests[j].type} \subseteq CachedTypes
        => ParamFor(fmt, fmt.requests[i].type) # ParamFor(fmt, fmt.requests[j].type)

DataAt(t, x) ==
    LET url == out[t].decoded_url IN
    IF url.value[x] = Absent THEN Absent ELSE url.value[x].data

\* Two successful calls with the same arguments write the same answer,
\* whichever of them hit the cache and whichever ran the engine, as long as
\* the format asks once per parameter (with two requests for one parameter
\* the last of ready wins, and hits come before misses there).  The order of
\* ready also decides how often each answer is decoded afterwards.
SameAnswer ==
    \A t, u \in Threads :
        /\ Returned(t) /\ Returned(u)
        /\ call[t].assets = call[u].assets /\ call[t].fmt = call[u].fmt
        /\ out[t].solver_error = <<>> /\ out[u].solver_error = <<>>
        /\ OneRequestPerParam(call[t].fmt)
        => \A r \in Asked(call[t]) : r.type \in CachedTypes =>
              LET x == ParamFor(call[t].fmt, r.type) IN
              \/ Dropped(call[t], r) \/ Dropped(call[u], r)
              \/ EmptyText \in {DataAt(t, x), DataAt(u, x)}
              \/ DataAt(t, x) = DataAt(u, x)

(***************************************************************************)
(* The facts that make the safety properties inductive.                    *)
(***************************************************************************)

\* A thread in a critical section holds the mutex of the cache it is in.
MutexInv == \A t \in Threads : InSection(t) => lock[call[t].assets] = t

\* A thread's engine, and its call, are about assets the thread is given.
EngineInv ==
    \A t \in Threads :
        /\ engine[t] # Absent => engine[t] \in ServedBy[t]
        /\ pc[t] # "idle" => call[t].assets \in ServedBy[t]

\* The replies a thread is about to store answer its missing requests, one
\* for one, under the player of the assets it stores them for.
RepliesInv ==
    \A t \in Threads : pc[t] \in {"store_lock", "store"} =>
        \A j \in 1..Len(call[t].responses) :
            /\ j <= Len(call[t].missing)
            /\ call[t].responses[j] \in
                  Outcomes(PlayerOf[call[t].assets], call[t].missing[j])

\* What has been stored is still there.
StoredInv ==
    \A a \in Assets, k \in Keys :
        storedBy[a][k] # {} => values[a][k] # Absent \/ errors[a][k] # Absent

\* A thread that has not reached its own stores has stored nothing of what
\* it found missing.
MissingInv ==
    \A t \in Threads :
        /\ pc[t] = "lookup_lock" => call[t].missing = <<>>
        /\ pc[t] \in {"lookup", "engine", "solve", "store_lock"} =>
              \A j \in 1..Len(call[t].missing) :
                  call[t].missing[j].type \in CachedTypes =>
                      t \notin storedBy[call[t].assets][call[t].missing[j]]

\* A call only ever has to do with what it was asked: what it misses is among
\* its requests, and what it has ready answers one of them.
AnswersOne(c, kv) ==
    \E r \in Asked(c) :
        kv.type = r.type /\ (OnePlayerPerThread => kv.data \in AnswersTo(c, r))

Requested(c) ==
    /\ c.fmt.url # Absent
    /\ \A j \in 1..Len(c.missing) : c.missing[j] \in Asked(c)
    /\ \A j \in 1..Len(c.ready) : AnswersOne(c, c.ready[j])

\* The URL being written is faithful, and is the one in the result before the
\* first answer is written and again in the end.
UrlsFaithful(l, c, o) ==
    /\ l \notin {"apply", "idle"} => o.decoded_url = c.current
    /\ OnePlayerPerThread /\ c.fmt.url # Absent =>
          UrlFaithful(c, IF l = "idle" THEN o.decoded_url ELSE c.current, c.sets)

\* What there is for request r so far: a word in solver_error, the lack of
\* one, an answer, or one of the places in missing.
Accounted(c, o, r, places) ==
    \/ o.solver_error # <<>>
    \/ r \in c.unsaid
    \/ IsReady(c, r.type)
    \/ \E m \in places : c.missing[m] = r

Everywhere(c) == 1..Len(c.missing)
NotStored(c) == {m \in 1..Len(c.missing) : m >= c.i}

AllAccounted(c, o, places) ==
    \A r \in Asked(c) : r.type \in CachedTypes => Accounted(c, o, r, places)

\* Every request that has been looked at is accounted for at each step, and
\* in the end dropped for one of the known reasons or written into the URL.
Accounts(l, c, o) ==
    /\ l = "lookup_lock" => c.i = 1
    /\ l = "lookup" =>
          \A j \in 1..Len(c.fmt.requests) : j < c.i /\ c.fmt.requests[j].type \in CachedTypes =>
              Accounted(c, o, c.fmt.requests[j], Everywhere(c))
    /\ l \in {"engine", "solve", "store_lock"} =>
          c.i = 1 /\ AllAccounted(c, o, Everywhere(c))
    /\ l = "store" => AllAccounted(c, o, NotStored(c))
    /\ l = "apply" =>
          /\ AllAccounted(c, o, {})
          /\ \A m \in 1..Len(c.ready) : m < c.i /\ c.ready[m].type \in CachedTypes =>
                 /\ c.current.place = Order
                 /\ Plain(ParamFor(c.fmt, c.ready[m].type)) =>
                       IsWritten(c, c.current, c.ready[m].type)
    /\ l = "idle" /\ o.solver_error = <<>> =>
          \A r \in Asked(c) : r.type \in CachedTypes =>
              Dropped(c, r) \/ IsWritten(c, o.decoded_url, r.type)

Work(l, c, o) ==
    /\ l # "idle" => Requested(c)
    /\ UrlsFaithful(l, c, o)
    /\ Accounts(l, c, o)

WorkInv == \A t \in Threads : call[t] # Absent => Work(pc[t], call[t], out[t])

\* The table SolverMemo promises, with the answers of each assets' player.
Memo == INSTANCE SolverMemo WITH
    Answers <- [a \in Assets |-> [k \in Keys |->
                   {EmptyText, Solution(PlayerOf[a], k)}]]

\* The cache, filled by racing threads in two critical sections with the
\* engine run between them, implements the table of SolverMemo.
ImplementsMemo == Memo!MemoSpec

\* Every call returns: no thread waits for a mutex for ever, and neither an
\* exception from the engine nor one from jsc leaves a mutex locked.
EveryCallReturns == \A t \in Threads : pc[t] # "idle" ~> pc[t] = "idle"
=============================================================================
