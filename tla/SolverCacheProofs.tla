------------------------- MODULE SolverCacheProofs -------------------------
(***************************************************************************)
(* Proofs about SolverCache for any number of threads, assets, players,    *)
(* challenges and formats.                                                 *)
(***************************************************************************)
EXTENDS SolverCache, SequenceTheorems, WellFoundedInduction, TLAPS

(***************************************************************************)
(* What the helpers return.                                                *)
(***************************************************************************)

\* Adding a message to a result gives a result.
LEMMA AddErrorType ==
    ASSUME NEW res \in Results, NEW text \in Messages
    PROVE  AddError(res, text) \in Results
BY AppendProperties DEF AddError, Results

\* Of the parameters that get the same name one is the last.
LEMMA LastOfIs ==
    ASSUME NEW url \in Urls, NEW x, Sources(url, x) # {}
    PROVE  /\ LastOf(url, x) \in Sources(url, x)
           /\ \A z \in Sources(url, x) : url.place[LastOf(url, x)] <= url.place[z]
<1> DEFINE I == {url.place[y] : y \in Sources(url, x)}
<1>1. \A y \in Sources(url, x) : url.place[y] \in Nat
  BY DEF Urls, Sources
<1>2. I \in SUBSET Nat /\ I # {}
  BY <1>1
<1>3. IsWellFoundedOn(OpToRel(<, Nat), Nat)
  BY NatLessThanWellFounded
<1>4. PICK m \in I : \A i \in I : ~ (<<i, m>> \in OpToRel(<, Nat))
  BY <1>2, <1>3, WFMin
<1>5. PICK y \in Sources(url, x) : url.place[y] = m
  BY <1>4
<1> HIDE DEF I
<1>6. \A i \in I : ~ (i < m)
  BY <1>2, <1>4 DEF OpToRel
<1>7. m \in Nat /\ \A i \in I : i \in Nat
  BY <1>2, <1>4
<1>8. \A i \in I : m <= i
  BY <1>6, <1>7
<1>9. \A z \in Sources(url, x) : url.place[y] <= url.place[z]
  BY <1>8, <1>5 DEF I
<1> QED BY <1>9 DEF LastOf

\* What set_or_replace_query_param leaves of a parameter: its own is the new
\* one, another is the last of those that get its name, decoded once more.
LEMMA SetParamIs ==
    ASSUME NEW url \in Urls, NEW key \in ParamNames, NEW d, NEW x \in ParamNames
    PROVE  LET new == SetParam(url, key, d).value[x]
               y == LastOf(url, x)
           IN /\ x = key => new = [data |-> d, passes |-> 0]
              /\ x # key /\ Sources(url, x) = {} => new = Absent
              /\ x # key /\ Sources(url, x) # {} =>
                    /\ y \in ParamNames /\ url.value[y] \in Texts /\ Once[y] = x
                    /\ new \in Texts
                    /\ new.data = url.value[y].data
                    /\ new.passes = url.value[y].passes + 1
<1> DEFINE new == SetParam(url, key, d).value[x]
           y == LastOf(url, x)
<1>1. new = IF x = key THEN [data |-> d, passes |-> 0]
            ELSE IF Sources(url, x) = {} THEN Absent
            ELSE [url.value[y] EXCEPT !.passes = @ + 1]
  BY DEF SetParam
<1>2. ASSUME x # key, Sources(url, x) # {}
      PROVE  /\ y \in ParamNames /\ url.value[y] \in Texts /\ Once[y] = x
             /\ new \in Texts
             /\ new.data = url.value[y].data
             /\ new.passes = url.value[y].passes + 1
  <2>1. y \in Sources(url, x)
    BY <1>2, LastOfIs
  <2>2. y \in ParamNames /\ url.value[y] # Absent /\ Once[y] = x
    BY <2>1 DEF Sources
  <2>3. url.value[y] \in Texts
    BY <2>2 DEF Urls
  <2>4. new = [url.value[y] EXCEPT !.passes = @ + 1]
    BY <1>1, <1>2
  <2> HIDE DEF new, y
  <2>5. new \in Texts /\ new.data = url.value[y].data /\ new.passes = url.value[y].passes + 1
    BY <2>3, <2>4 DEF Texts
  <2> QED BY <2>2, <2>3, <2>5
<1> HIDE DEF new, y
<1>3. /\ x = key => new = [data |-> d, passes |-> 0]
      /\ x # key /\ Sources(url, x) = {} => new = Absent
  BY <1>1
<1> QED BY <1>2, <1>3 DEF new, y

\* Setting a parameter of a URL gives a URL.
LEMMA SetParamType ==
    ASSUME NEW url \in Urls, NEW key \in ParamNames, NEW d \in Data
    PROVE  SetParam(url, key, d) \in Urls /\ SetParam(url, key, d).place = Order
<1> DEFINE new == SetParam(url, key, d)
<1>1. ASSUME NEW x \in ParamNames
      PROVE  new.value[x] \in Texts \cup {Absent}
  <2>1. [data |-> d, passes |-> 0] \in Texts
    BY DEF Texts
  <2>2. /\ x = key => new.value[x] = [data |-> d, passes |-> 0]
        /\ x # key /\ Sources(url, x) = {} => new.value[x] = Absent
        /\ x # key /\ Sources(url, x) # {} => new.value[x] \in Texts
    BY SetParamIs
  <2> HIDE DEF new
  <2> QED BY <2>1, <2>2
<1>2. /\ new = [value |-> new.value, place |-> new.place] /\ DOMAIN new.value = ParamNames
      /\ new.value = [x \in ParamNames |-> new.value[x]] /\ new.place = Order
  BY DEF SetParam
<1>3. Order \in [ParamNames -> Nat]
  BY ConstantsAssumption
<1> HIDE DEF new
<1>4. new.value \in [ParamNames -> Texts \cup {Absent}]
  BY <1>1, <1>2
<1> QED BY <1>2, <1>3, <1>4 DEF Urls, new

\* Each outcome of a request is a SolverResponse.
LEMMA OutcomesType ==
    ASSUME NEW p \in Players, NEW r \in Requests
    PROVE  Outcomes(p, r) \subseteq SolverResponses
<1>1. EmptyText \in Data /\ Solution(p, r) \in Data
  BY DEF Data
<1>2. ASSUME NEW d \in {Solution(p, r), EmptyText}
      PROVE  [ok |-> TRUE, data |-> d, error |-> ""] \in SolverResponses
  BY <1>1 DEF SolverResponses
<1>3. ASSUME NEW e \in ErrorTexts
      PROVE  [ok |-> FALSE, data |-> EmptyText, error |-> e] \in SolverResponses
  BY <1>1 DEF SolverResponses
<1> QED BY <1>2, <1>3 DEF Outcomes

\* A successful outcome carries the solution or nothing, a failed one one of
\* the messages.
LEMMA OutcomeHas ==
    ASSUME NEW p, NEW r, NEW o \in Outcomes(p, r)
    PROVE  /\ o.ok => o.data \in {Solution(p, r), EmptyText}
           /\ ~o.ok => o.error \in ErrorTexts
<1>1. CASE \E d \in {Solution(p, r), EmptyText} : o = [ok |-> TRUE, data |-> d, error |-> ""]
  <2>1. PICK d \in {Solution(p, r), EmptyText} : o = [ok |-> TRUE, data |-> d, error |-> ""]
    BY <1>1
  <2>2. o.ok = TRUE /\ o.data = d
    BY <2>1
  <2> QED BY <2>2
<1>2. CASE \E e \in ErrorTexts : o = [ok |-> FALSE, data |-> EmptyText, error |-> e]
  <2>1. PICK e \in ErrorTexts : o = [ok |-> FALSE, data |-> EmptyText, error |-> e]
    BY <1>2
  <2>2. o.ok = FALSE /\ o.error = e
    BY <2>1
  <2> QED BY <2>2
<1> QED BY <1>1, <1>2 DEF Outcomes

\* A reply is a sequence, no longer than the list of requests, of outcomes
\* of the requests at the same place.
LEMMA RepliesType ==
    ASSUME NEW p \in Players, NEW reqs \in Seq(Requests),
           NEW s \in Replies(p, reqs)
    PROVE  /\ s \in Seq(SolverResponses)
           /\ Len(s) <= Len(reqs)
           /\ \A j \in 1..Len(s) : s[j] \in Outcomes(p, reqs[j])
<1>1. PICK k \in 0..Len(reqs) :
        s \in {f \in [1..k -> UNION {Outcomes(p, reqs[j]) : j \in 1..k}] :
                  \A j \in 1..k : f[j] \in Outcomes(p, reqs[j])}
  BY DEF Replies
<1>2. k \in Nat /\ k <= Len(reqs)
  BY <1>1
<1>3. \A j \in 1..k : s[j] \in Outcomes(p, reqs[j])
  BY <1>1
<1>4. \A j \in 1..k : s[j] \in SolverResponses
  <2> TAKE j \in 1..k
  <2>1. reqs[j] \in Requests
    BY <1>2, ElementOfSeq
  <2> QED BY <2>1, <1>3, OutcomesType
<1>5. s \in [1..k -> SolverResponses]
  BY <1>1, <1>4
<1>6. s \in Seq(SolverResponses)
  BY <1>5, <1>2, SeqDef
<1>7. Len(s) = k
  BY <1>5, <1>6, <1>2, LenProperties
<1> QED BY <1>2, <1>3, <1>6, <1>7

(***************************************************************************)
(* Type correctness, one step per action.                                  *)
(***************************************************************************)

\* The parameter a cached request type goes to is one of the URL's names.
LEMMA ParamForType ==
    ASSUME NEW fmt \in Formats, NEW type
    PROVE  ParamFor(fmt, type) \in ParamNames
BY ConstantsAssumption DEF ParamFor

\* What TypeOK says of a thread that is inside a call.
LEMMA CallType ==
    ASSUME TypeOK, NEW t \in Threads, pc[t] # "idle"
    PROVE  /\ call[t] \in Calls
           /\ out[t] \in Results
           /\ call[t].assets \in Assets
           /\ call[t].fmt \in Formats
           /\ call[t].fmt.requests \in Seq(Requests)
           /\ call[t].i \in Nat \ {0}
           /\ call[t].ready \in Seq(ReadyPairs)
           /\ call[t].missing \in Seq(Requests)
           /\ call[t].responses \in Seq(SolverResponses)
           /\ call[t].current \in Urls
           /\ call[t].sets \in Nat
           /\ call[t].unsaid \in SUBSET Requests
<1>1. call[t] \in Calls
  BY DEF TypeOK
<1>2. out[t] \in Results
  BY DEF TypeOK
<1> QED BY <1>1, <1>2, ConstantsAssumption DEF Calls, TypeOK

\* The ways a step updates the locals of a call.
AtIndex(c, i) == [c EXCEPT !.i = i]
WithReady(c, i, rd) == [c EXCEPT !.i = i, !.ready = rd]
WithMissing(c, i, ms) == [c EXCEPT !.i = i, !.missing = ms]
WithResponses(c, rs) == [c EXCEPT !.responses = rs]
WithCurrent(c, i, url, n) == [c EXCEPT !.i = i, !.current = url, !.sets = n]
WithUnsaid(c, i, u) == [c EXCEPT !.i = i, !.unsaid = u]

\* One entry of a map of one cache is written.
Put(m, a, k, v) == [m EXCEPT ![a][k] = v]

\* Moving the loop index keeps the other locals.
LEMMA SetIndex ==
    ASSUME NEW c \in Calls, NEW i \in Nat \ {0}
    PROVE  LET d == AtIndex(c, i) IN
           /\ d \in Calls /\ d.assets = c.assets /\ d.fmt = c.fmt /\ d.i = i
           /\ d.ready = c.ready /\ d.missing = c.missing
           /\ d.responses = c.responses /\ d.current = c.current
           /\ d.sets = c.sets /\ d.unsaid = c.unsaid
BY DEF Calls, AtIndex

\* Adding a ready value keeps the other locals.
LEMMA SetReady ==
    ASSUME NEW c \in Calls, NEW i \in Nat \ {0}, NEW rd \in Seq(ReadyPairs)
    PROVE  LET d == WithReady(c, i, rd) IN
           /\ d \in Calls /\ d.assets = c.assets /\ d.fmt = c.fmt /\ d.i = i
           /\ d.ready = rd /\ d.missing = c.missing
           /\ d.responses = c.responses /\ d.current = c.current
           /\ d.sets = c.sets /\ d.unsaid = c.unsaid
BY DEF Calls, WithReady

\* Adding a missing request keeps the other locals.
LEMMA SetMissing ==
    ASSUME NEW c \in Calls, NEW i \in Nat \ {0}, NEW ms \in Seq(Requests)
    PROVE  LET d == WithMissing(c, i, ms) IN
           /\ d \in Calls /\ d.assets = c.assets /\ d.fmt = c.fmt /\ d.i = i
           /\ d.ready = c.ready /\ d.missing = ms
           /\ d.responses = c.responses /\ d.current = c.current
           /\ d.sets = c.sets /\ d.unsaid = c.unsaid
BY DEF Calls, WithMissing

\* Receiving the replies keeps the other locals.
LEMMA SetResponses ==
    ASSUME NEW c \in Calls, NEW rs \in Seq(SolverResponses)
    PROVE  LET d == WithResponses(c, rs) IN
           /\ d \in Calls /\ d.assets = c.assets /\ d.fmt = c.fmt /\ d.i = c.i
           /\ d.ready = c.ready /\ d.missing = c.missing
           /\ d.responses = rs /\ d.current = c.current
           /\ d.sets = c.sets /\ d.unsaid = c.unsaid
BY DEF Calls, WithResponses

\* Rewriting the URL keeps the other locals.
LEMMA SetCurrent ==
    ASSUME NEW c \in Calls, NEW i \in Nat \ {0}, NEW url \in Urls, NEW n \in Nat
    PROVE  LET d == WithCurrent(c, i, url, n) IN
           /\ d \in Calls /\ d.assets = c.assets /\ d.fmt = c.fmt /\ d.i = i
           /\ d.ready = c.ready /\ d.missing = c.missing
           /\ d.responses = c.responses /\ d.current = url
           /\ d.sets = n /\ d.unsaid = c.unsaid
BY DEF Calls, WithCurrent

\* Noting what failed without a word keeps the other locals.
LEMMA SetUnsaid ==
    ASSUME NEW c \in Calls, NEW i \in Nat \ {0}, NEW u \in SUBSET Requests
    PROVE  LET d == WithUnsaid(c, i, u) IN
           /\ d \in Calls /\ d.assets = c.assets /\ d.fmt = c.fmt /\ d.i = i
           /\ d.ready = c.ready /\ d.missing = c.missing
           /\ d.responses = c.responses /\ d.current = c.current
           /\ d.sets = c.sets /\ d.unsaid = u
BY DEF Calls, WithUnsaid

\* What the maps of a cache hold.
LEMMA MapEntries ==
    ASSUME TypeOK, NEW a \in Assets, NEW k \in Keys
    PROVE  /\ values[a][k] \in Data \cup {Absent}
           /\ errors[a][k] \in ErrorTexts \cup {"", Absent}
           /\ storedBy[a][k] \in SUBSET Threads
<1>1. values \in [Assets -> [Keys -> Data \cup {Absent}]]
  BY DEF TypeOK
<1>2. errors \in [Assets -> [Keys -> ErrorTexts \cup {"", Absent}]]
  BY DEF TypeOK
<1>3. storedBy \in [Assets -> [Keys -> SUBSET Threads]]
  BY DEF TypeOK
<1>4. values[a][k] \in Data \cup {Absent}
  BY <1>1
<1>5. errors[a][k] \in ErrorTexts \cup {"", Absent}
  BY <1>2
<1>6. storedBy[a][k] \in SUBSET Threads
  BY <1>3
<1> QED BY <1>4, <1>5, <1>6

\* A request of a cached type is a key of the maps.
LEMMA CachedIsKey ==
    ASSUME NEW r \in Requests, r.type \in CachedTypes
    PROVE  r \in Keys
BY DEF Requests, Keys

\* Replacing the locals of one thread keeps every thread's locals typed.
LEMMA TypeStep ==
    ASSUME TypeOK, NEW t \in Threads, NEW c \in Calls, NEW o \in Results, NEW l \in Labels,
           call' = [call EXCEPT ![t] = c], out' = [out EXCEPT ![t] = o],
           pc' = [pc EXCEPT ![t] = l],
           l # "idle" => c.current # Absent,
           l = "solve" => engine'[t] # Absent,
           \A u \in Threads : u # t => engine'[u] = engine[u],
           values' \in [Assets -> [Keys -> Data \cup {Absent}]],
           errors' \in [Assets -> [Keys -> ErrorTexts \cup {"", Absent}]],
           lock' \in [Assets -> Threads \cup {Absent}],
           engine' \in [Threads -> Assets \cup {Absent}],
           calls' \in [Threads -> 0..MaxCalls],
           storedBy' \in [Assets -> [Keys -> SUBSET Threads]]
    PROVE  TypeOK'
<1>1. call' \in [Threads -> Calls \cup {Absent}]
  BY DEF TypeOK
<1>2. out' \in [Threads -> Results \cup {Absent}]
  BY DEF TypeOK
<1>3. pc' \in [Threads -> Labels]
  BY DEF TypeOK
<1>4. \A u \in Threads :
         /\ call'[u] = (IF u = t THEN c ELSE call[u])
         /\ out'[u] = (IF u = t THEN o ELSE out[u])
         /\ pc'[u] = (IF u = t THEN l ELSE pc[u])
  <2> TAKE u \in Threads
  <2>1. call'[u] = IF u = t THEN c ELSE call[u]
    BY DEF TypeOK
  <2>2. out'[u] = IF u = t THEN o ELSE out[u]
    BY DEF TypeOK
  <2>3. pc'[u] = IF u = t THEN l ELSE pc[u]
    BY DEF TypeOK
  <2> QED BY <2>1, <2>2, <2>3
<1>5. c # Absent /\ o # Absent
  BY ConstantsAssumption
<1>6. \A u \in Threads : call'[u] = Absent <=> out'[u] = Absent
  BY <1>4, <1>5 DEF TypeOK
<1>7. \A u \in Threads : pc'[u] # "idle" => call'[u] # Absent /\ call'[u].current # Absent
  BY <1>4, <1>5 DEF TypeOK
<1>8. \A u \in Threads : pc'[u] = "solve" => engine'[u] # Absent
  BY <1>4 DEF TypeOK
<1> QED BY <1>1, <1>2, <1>3, <1>6, <1>7, <1>8 DEF TypeOK

\* The entry checks keep the types.
LEMMA CallKeepsType ==
    ASSUME TypeOK, NEW t \in Threads, NEW a \in ServedBy[t], NEW fmt \in Formats,
           Call(t, a, fmt)
    PROVE  TypeOK'
<1> DEFINE res == [decoded_url |-> fmt.url, solver_error |-> <<>>]
           c == [assets |-> a, fmt |-> fmt, i |-> 1, ready |-> <<>>,
                 missing |-> <<>>, responses |-> <<>>, current |-> fmt.url,
                 sets |-> 0, unsaid |-> {}]
<1>1. a \in Assets /\ fmt.url \in Urls \cup {Absent}
  BY ConstantsAssumption
<1>2. c \in Calls /\ c.current = fmt.url
  BY <1>1, EmptySeq DEF Calls
<1>3. res \in Results
  BY <1>1, EmptySeq DEF Results
<1>4. [res EXCEPT !.solver_error = <<"Keine URL vorhanden">>] \in Results
  <2>1. <<"Keine URL vorhanden">> \in Seq(Messages)
    BY DEF Messages
  <2> QED BY <1>3, <2>1 DEF Results
<1>5. [res EXCEPT !.solver_error = <<"Solver-Cache fehlt">>] \in Results
  <2>1. <<"Solver-Cache fehlt">> \in Seq(Messages)
    BY DEF Messages
  <2> QED BY <1>3, <2>1 DEF Results
<1>6. PICK o \in Results, l \in {"idle", "lookup_lock"} :
        /\ out' = [out EXCEPT ![t] = o]
        /\ pc' = [pc EXCEPT ![t] = l]
        /\ l # "idle" => fmt.url # Absent
  <2> HIDE DEF res
  <2>1. CASE fmt.url = Absent
    BY <2>1, <1>4 DEF Call, Goto, res
  <2>2. CASE fmt.url # Absent /\ fmt.requests = <<>>
    BY <2>2, <1>3 DEF Call, Goto, res
  <2>3. CASE fmt.url # Absent /\ fmt.requests # <<>> /\ ~HasCache[a]
    BY <2>3, <1>5 DEF Call, Goto, res
  <2>4. CASE fmt.url # Absent /\ fmt.requests # <<>> /\ HasCache[a]
    BY <2>4, <1>3 DEF Call, Goto, res
  <2> QED BY <2>1, <2>2, <2>3, <2>4
<1>7. calls' \in [Threads -> 0..MaxCalls]
  <2>1. calls' = [calls EXCEPT ![t] = @ + 1] /\ calls[t] < MaxCalls
    BY DEF Call
  <2>2. calls[t] \in 0..MaxCalls /\ MaxCalls \in Nat
    BY ConstantsAssumption DEF TypeOK
  <2>3. calls[t] + 1 \in 0..MaxCalls
    BY <2>1, <2>2
  <2> QED BY <2>1, <2>3 DEF TypeOK
<1>8. call' = [call EXCEPT ![t] = c]
  BY DEF Call
<1>9. UNCHANGED <<values, errors, lock, storedBy, engine>>
  BY DEF Call, shared
<1>10. l \in Labels /\ l # "solve"
  BY <1>6 DEF Labels
<1> HIDE DEF c, res
<1> QED BY <1>2, <1>6, <1>7, <1>8, <1>9, <1>10, TypeStep DEF TypeOK

\* Taking the mutex, for the lookup or for the store, keeps the types.
LEMMA LockKeepsType ==
    ASSUME TypeOK, NEW t \in Threads, LockForLookup(t) \/ LockForStore(t)
    PROVE  TypeOK'
<1> DEFINE l == IF pc[t] = "lookup_lock" THEN "lookup" ELSE "store"
<1>1. /\ pc[t] # "idle"
      /\ pc' = [pc EXCEPT ![t] = l]
      /\ UNCHANGED <<values, errors, storedBy, engine, call, out, calls>>
      /\ lock' = [lock EXCEPT ![call[t].assets] = t]
  BY DEF LockForLookup, LockForStore, Goto, Acquire
<1>2. call[t] \in Calls /\ out[t] \in Results /\ call[t].assets \in Assets
      /\ call[t].current # Absent
  BY <1>1, CallType DEF TypeOK
<1>3. lock' \in [Assets -> Threads \cup {Absent}]
  BY <1>1, <1>2 DEF TypeOK
<1>4. call' = [call EXCEPT ![t] = call[t]] /\ out' = [out EXCEPT ![t] = out[t]]
  BY <1>1 DEF TypeOK
<1>5. l \in Labels /\ l # "solve"
  BY DEF Labels
<1> HIDE DEF l
<1> QED BY <1>1, <1>2, <1>3, <1>4, <1>5, TypeStep DEF TypeOK

\* What a thread finds at the place of its next lookup.
LEMMA LookupOneHas ==
    ASSUME TypeOK, NEW t \in Threads, LookupOne(t)
    PROVE  /\ pc[t] = "lookup"
           /\ call[t].i + 1 \in Nat \ {0}
           /\ call[t].fmt.requests[call[t].i] \in Requests
<1>1. pc[t] = "lookup" /\ call[t].i <= Len(call[t].fmt.requests)
  BY DEF LookupOne, FindValue, FindError
<1>2. call[t].i \in Nat \ {0} /\ call[t].fmt.requests \in Seq(Requests)
  BY <1>1, CallType
<1>3. call[t].i \in 1..Len(call[t].fmt.requests) /\ call[t].i + 1 \in Nat \ {0}
  BY <1>1, <1>2, LenProperties
<1> QED BY <1>1, <1>2, <1>3, ElementOfSeq

\* Sorting one request changes ready, missing or the error, each of its type,
\* and puts a request of a cached type into missing only if the cache has
\* neither a value nor an error for it.
LEMMA LookupOneEffect ==
    ASSUME TypeOK, NEW t \in Threads, LookupOne(t)
    PROVE  LET c == call[t]
               r == c.fmt.requests[c.i]
           IN \E d \in Calls, o \in Results :
                 /\ call' = [call EXCEPT ![t] = d] /\ out' = [out EXCEPT ![t] = o]
                 /\ d.assets = c.assets /\ d.current = c.current
                 /\ \/ d.missing = c.missing
                    \/ /\ d.missing = Append(c.missing, r)
                       /\ r.type \in CachedTypes => /\ values[c.assets][r] = Absent
                                                    /\ errors[c.assets][r] = Absent
<1> DEFINE c == call[t]
           r == c.fmt.requests[c.i]
           v == values[c.assets][r]
           e == errors[c.assets][r]
<1>1. pc[t] = "lookup" /\ c.i + 1 \in Nat \ {0} /\ r \in Requests
  BY LookupOneHas
<1>2. /\ c \in Calls /\ out[t] \in Results /\ c.assets \in Assets
      /\ c.ready \in Seq(ReadyPairs) /\ c.missing \in Seq(Requests)
      /\ c.unsaid \in SUBSET Requests
  BY <1>1, CallType
<1>3. CASE r.type \in CachedTypes /\ v # Absent
  <2>1. v \in Data
    <3>1. r \in Keys
      BY <1>3, <1>1, CachedIsKey
    <3>2. v \in Data \cup {Absent}
      BY <3>1, <1>2, MapEntries
    <3> QED BY <1>3, <3>2
  <2>2. [type |-> r.type, data |-> v] \in ReadyPairs
    BY <2>1, <1>1 DEF ReadyPairs, Requests
  <2> DEFINE rd == Append(c.ready, [type |-> r.type, data |-> v])
             d == WithReady(c, c.i + 1, rd)
  <2>3. rd \in Seq(ReadyPairs)
    BY <2>2, <1>2, AppendProperties
  <2> HIDE DEF rd, c
  <2>4. /\ d \in Calls /\ d.assets = c.assets /\ d.current = c.current
        /\ d.missing = c.missing
    <3>1. c \in Calls /\ c.i + 1 \in Nat \ {0}
      BY <1>1, <1>2
    <3> QED BY ONLY <2>3, <3>1, SetReady
  <2>5. call' = [call EXCEPT ![t] = d] /\ out' = [out EXCEPT ![t] = out[t]]
    BY <1>3 DEF LookupOne, TypeOK, WithReady, FindValue, FindError, rd, c
  <2> HIDE DEF d
  <2> QED BY <2>4, <2>5, <1>2 DEF c
<1>4. CASE r.type \in CachedTypes /\ v = Absent /\ e # Absent
  <2>1. e \in Messages
    <3>1. r \in Keys
      BY <1>4, <1>1, CachedIsKey
    <3>2. e \in ErrorTexts \cup {"", Absent}
      BY <3>1, <1>2, MapEntries
    <3> QED BY <1>4, <3>2 DEF Messages
  <2> DEFINE w == c.unsaid \cup {q \in {r} : e = ""}
             d == WithUnsaid(c, c.i + 1, w)
             o == AddError(out[t], e)
  <2>2. /\ d \in Calls /\ d.assets = c.assets /\ d.current = c.current
        /\ d.missing = c.missing
    <3>1. w \in SUBSET Requests
      BY <1>1, <1>2
    <3> HIDE DEF w
    <3> QED BY <3>1, <1>1, <1>2, SetUnsaid
  <2>3. call' = [call EXCEPT ![t] = d] /\ out' = [out EXCEPT ![t] = o]
    BY <1>4 DEF LookupOne, TypeOK, WithUnsaid, FindValue, FindError
  <2>4. o \in Results
    BY <2>1, <1>2, AddErrorType
  <2> HIDE DEF d, o
  <2> QED BY <2>2, <2>3, <2>4
<1>5. CASE r.type \in CachedTypes => v = Absent /\ e = Absent
  <2> DEFINE ms == Append(c.missing, r)
             d == WithMissing(c, c.i + 1, ms)
  <2>1. ms \in Seq(Requests)
    BY <1>1, <1>2, AppendProperties
  <2>2. call' = [call EXCEPT ![t] = d] /\ out' = [out EXCEPT ![t] = out[t]]
    BY <1>5 DEF LookupOne, TypeOK, WithMissing, FindValue, FindError
  <2> HIDE DEF ms, c
  <2>3. d \in Calls /\ d.assets = c.assets /\ d.current = c.current /\ d.missing = ms
    <3>1. c \in Calls /\ c.i + 1 \in Nat \ {0}
      BY <1>1, <1>2
    <3> QED BY ONLY <2>1, <3>1, SetMissing
  <2> HIDE DEF d
  <2> QED BY <2>2, <2>3, <1>2, <1>5 DEF ms, c
<1> QED BY <1>3, <1>4, <1>5

\* Sorting one request into ready, missing or the error keeps the types.
LEMMA LookupOneKeepsType ==
    ASSUME TypeOK, NEW t \in Threads, LookupOne(t)
    PROVE  TypeOK'
<1>1. pc[t] = "lookup" /\ pc' = pc
  BY DEF LookupOne, FindValue, FindError
<1>2. PICK d \in Calls, o \in Results :
        /\ call' = [call EXCEPT ![t] = d] /\ out' = [out EXCEPT ![t] = o]
        /\ d.current = call[t].current
  BY LookupOneEffect
<1>3. UNCHANGED <<values, errors, lock, storedBy, engine, calls>>
  BY DEF LookupOne, shared, FindValue, FindError
<1>4. pc' = [pc EXCEPT ![t] = "lookup"] /\ call[t].current # Absent
  BY <1>1 DEF TypeOK
<1>5. "lookup" \in Labels
  BY DEF Labels
<1> QED BY <1>2, <1>3, <1>4, <1>5, TypeStep DEF TypeOK

\* What the end of a critical section makes of the locals.
LEMMA UnlockEffect ==
    ASSUME TypeOK, NEW t \in Threads, LookupDone(t) \/ StoreDone(t)
    PROVE  \E d \in Calls :
              /\ call' = [call EXCEPT ![t] = d] /\ call'[t] = d
              /\ d.assets = call[t].assets /\ d.fmt = call[t].fmt /\ d.i = 1
              /\ d.ready = call[t].ready /\ d.missing = call[t].missing
              /\ d.responses = call[t].responses /\ d.current = call[t].current
              /\ d.sets = call[t].sets
              /\ LookupDone(t) => d.unsaid = call[t].unsaid
              /\ StoreDone(t) => d.unsaid = call[t].unsaid \cup NoReply(call[t])
<1> DEFINE c == call[t]
<1>1. pc[t] # "idle" /\ (LookupDone(t) => pc[t] = "lookup") /\ (StoreDone(t) => pc[t] = "store")
  BY DEF LookupDone, StoreDone
<1>2. /\ c \in Calls /\ c.unsaid \in SUBSET Requests
      /\ c.missing \in Seq(Requests) /\ c.responses \in Seq(SolverResponses)
  BY <1>1, CallType
<1>3. CASE LookupDone(t)
  <2> DEFINE d == AtIndex(c, 1)
  <2>1. call' = [call EXCEPT ![t] = d]
    BY <1>3 DEF LookupDone, AtIndex, TypeOK, Unlock
  <2>2. call'[t] = d
    BY <2>1 DEF TypeOK
  <2>3. ~StoreDone(t)
    BY <1>1, <1>3
  <2> HIDE DEF c
  <2>4. /\ d \in Calls /\ d.assets = c.assets /\ d.fmt = c.fmt /\ d.i = 1
        /\ d.ready = c.ready /\ d.missing = c.missing
        /\ d.responses = c.responses /\ d.current = c.current
        /\ d.sets = c.sets /\ d.unsaid = c.unsaid
    BY <1>2, SetIndex
  <2> HIDE DEF d
  <2> QED BY <2>1, <2>2, <2>3, <2>4 DEF c
<1>4. CASE StoreDone(t)
  <2> DEFINE w == c.unsaid \cup NoReply(c)
             d == WithUnsaid(c, 1, w)
  <2>1. call' = [call EXCEPT ![t] = d]
    BY <1>4 DEF StoreDone, WithUnsaid, TypeOK, Unlock
  <2>2. call'[t] = d
    BY <2>1 DEF TypeOK
  <2>3. ~LookupDone(t)
    BY <1>1, <1>4
  <2>4. w \in SUBSET Requests
    <3>1. Len(c.responses) \in Nat /\ Len(c.missing) \in Nat
      BY <1>2, LenProperties
    <3>2. \A m \in (Len(c.responses) + 1)..Len(c.missing) : m \in 1..Len(c.missing)
      BY <3>1
    <3>3. \A m \in (Len(c.responses) + 1)..Len(c.missing) : c.missing[m] \in Requests
      BY <3>2, <1>2, ElementOfSeq
    <3> QED BY <3>3, <1>2 DEF NoReply
  <2> HIDE DEF c, w
  <2>5. /\ d \in Calls /\ d.assets = c.assets /\ d.fmt = c.fmt /\ d.i = 1
        /\ d.ready = c.ready /\ d.missing = c.missing
        /\ d.responses = c.responses /\ d.current = c.current
        /\ d.sets = c.sets /\ d.unsaid = w
    BY <1>2, <2>4, SetUnsaid
  <2> HIDE DEF d
  <2> QED BY <2>1, <2>2, <2>3, <2>5 DEF c, w
<1> QED BY <1>3, <1>4

\* Leaving a critical section keeps the types.
LEMMA UnlockKeepsType ==
    ASSUME TypeOK, NEW t \in Threads, LookupDone(t) \/ StoreDone(t)
    PROVE  TypeOK'
<1> DEFINE c == call[t]
<1>1. PICK l \in {"apply", "engine"} :
        /\ pc[t] # "idle"
        /\ pc' = [pc EXCEPT ![t] = l]
        /\ UNCHANGED <<values, errors, storedBy, engine, out, calls>>
        /\ lock' = [lock EXCEPT ![c.assets] = Absent]
  BY DEF LookupDone, StoreDone, Goto, Unlock
<1>2. c \in Calls /\ out[t] \in Results /\ c.assets \in Assets /\ c.current # Absent
  BY <1>1, CallType DEF TypeOK
<1>3. lock' \in [Assets -> Threads \cup {Absent}]
  BY <1>1, <1>2 DEF TypeOK
<1>4. PICK d \in Calls : call' = [call EXCEPT ![t] = d] /\ d.current = c.current
  BY UnlockEffect
<1>5. out' = [out EXCEPT ![t] = out[t]]
  BY <1>1 DEF TypeOK
<1>6. l \in Labels /\ l # "solve"
  BY DEF Labels
<1> QED BY <1>1, <1>2, <1>3, <1>4, <1>5, <1>6, TypeStep DEF TypeOK

\* What catch leaves behind: the error and, if that says nothing, the note
\* that nothing was said of any request.
LEMMA CatchEffect ==
    ASSUME TypeOK, NEW t \in Threads, pc[t] # "idle", Catch(t)
    PROVE  \E d \in Calls, o \in Results :
              /\ call' = [call EXCEPT ![t] = d] /\ call'[t] = d
              /\ out' = [out EXCEPT ![t] = o] /\ out'[t] = o
              /\ pc' = [pc EXCEPT ![t] = "idle"] /\ pc'[t] = "idle"
              /\ d.assets = call[t].assets /\ d.fmt = call[t].fmt
              /\ d.missing = call[t].missing /\ d.current = call[t].current
              /\ d.sets = call[t].sets
              /\ o.decoded_url = out[t].decoded_url
              /\ o.solver_error # <<>> \/ d.unsaid = Asked(d)
<1> DEFINE c == call[t]
<1>1. /\ out[t] \in Results /\ c \in Calls /\ c.unsaid \in SUBSET Requests
      /\ c.fmt.requests \in Seq(Requests) /\ c.i \in Nat \ {0}
  BY CallType
<1>2. PICK e \in Thrown :
         /\ out' = [out EXCEPT ![t].solver_error = IF e = "" THEN <<>> ELSE <<e>>]
         /\ call' = [call EXCEPT ![t].unsaid = IF e = "" THEN Asked(c) ELSE @]
  BY DEF Catch
<1> DEFINE w == IF e = "" THEN Asked(c) ELSE c.unsaid
           d == WithUnsaid(c, c.i, w)
           msg == IF e = "" THEN <<>> ELSE <<e>>
           o == [out[t] EXCEPT !.solver_error = msg]
<1>3. w \in SUBSET Requests
  <2>1. \A j \in 1..Len(c.fmt.requests) : c.fmt.requests[j] \in Requests
    BY <1>1, ElementOfSeq
  <2>2. Asked(c) \subseteq Requests
    BY <2>1, Zenon DEF Asked
  <2> QED BY <1>1, <2>2, Zenon
<1>4. msg \in Seq(Messages) /\ (e # "" => msg # <<>>)
  <2>1. e \in Messages
    BY DEF Messages
  <2>2. <<e>> \in Seq(Messages) /\ <<e>> # <<>> /\ <<>> \in Seq(Messages)
    BY <2>1
  <2> QED BY <2>2, Zenon
<1>5. /\ pc' = [pc EXCEPT ![t] = "idle"] /\ pc'[t] = "idle"
  BY DEF Catch, Goto, TypeOK
<1>6. call' = [call EXCEPT ![t] = [c EXCEPT !.unsaid = w]] /\ out' = [out EXCEPT ![t] = o]
  BY <1>2 DEF TypeOK
<1> HIDE DEF w, msg, c
<1>7. [c EXCEPT !.unsaid = w] = d
  BY <1>1 DEF WithUnsaid, Calls
<1>8. /\ d \in Calls /\ d.assets = c.assets /\ d.fmt = c.fmt
      /\ d.missing = c.missing /\ d.current = c.current /\ d.sets = c.sets /\ d.unsaid = w
  BY <1>1, <1>3, SetUnsaid
<1>9. o \in Results /\ o.decoded_url = out[t].decoded_url /\ o.solver_error = msg
  BY <1>1, <1>4 DEF Results
<1> HIDE DEF d, o
<1>10. call' = [call EXCEPT ![t] = d]
  BY <1>6, <1>7
<1>11. call'[t] = d /\ out'[t] = o
  BY <1>6, <1>10 DEF TypeOK
<1>12. Asked(d) = Asked(c)
  BY <1>8, Zenon DEF Asked
<1>13. o.solver_error # <<>> \/ d.unsaid = Asked(d)
  BY <1>4, <1>8, <1>9, <1>12 DEF w
<1> QED BY <1>5, <1>6, <1>8, <1>9, <1>10, <1>11, <1>13 DEF c

\* Getting the thread's engine, or failing to build it, keeps the types.
LEMMA GetEngineKeepsType ==
    ASSUME TypeOK, NEW t \in Threads, GetEngine(t)
    PROVE  TypeOK'
<1>1. pc[t] # "idle" /\ UNCHANGED <<values, errors, lock, storedBy, calls>>
  BY DEF GetEngine, shared
<1>2. call[t] \in Calls /\ out[t] \in Results /\ call[t].assets \in Assets
      /\ call[t].current # Absent
  BY <1>1, CallType DEF TypeOK
<1>3. /\ engine' \in [Threads -> Assets \cup {Absent}]
      /\ \A u \in Threads : u # t => engine'[u] = engine[u]
  BY <1>2 DEF GetEngine, TypeOK
<1>4. PICK d \in Calls, o \in Results, l \in {"idle", "solve"} :
        /\ call' = [call EXCEPT ![t] = d]
        /\ out' = [out EXCEPT ![t] = o] /\ pc' = [pc EXCEPT ![t] = l]
        /\ l = "solve" => engine'[t] # Absent
        /\ d.current = call[t].current
  <2>1. CASE Catch(t)
    BY <2>1, <1>1, CatchEffect
  <2>2. CASE UNCHANGED <<out, call>> /\ Goto(t, "solve") /\ engine'[t] # Absent
    <3>1. out' = [out EXCEPT ![t] = out[t]] /\ call' = [call EXCEPT ![t] = call[t]]
      BY <2>2 DEF TypeOK
    <3> QED BY <2>2, <3>1, <1>2 DEF Goto
  <2>3. call[t].assets # Absent
    BY <1>2, ConstantsAssumption
  <2> QED BY <2>1, <2>2, <2>3, <1>2 DEF GetEngine, TypeOK
<1>5. l \in Labels
  BY DEF Labels
<1> QED BY <1>1, <1>2, <1>3, <1>4, <1>5, TypeStep DEF TypeOK

\* Running the engine, whatever it replies, keeps the types.
LEMMA SolveKeepsType ==
    ASSUME TypeOK, NEW t \in Threads, Solve(t)
    PROVE  TypeOK'
<1> DEFINE c == call[t]
<1>1. pc[t] = "solve" /\ UNCHANGED <<values, errors, lock, storedBy, engine, calls>>
  BY DEF Solve, shared
<1>2. /\ c \in Calls /\ out[t] \in Results /\ c.current # Absent
      /\ c.missing \in Seq(Requests)
  BY <1>1, CallType DEF TypeOK
<1>3. PlayerOf[engine[t]] \in Players
  BY <1>1, ConstantsAssumption DEF TypeOK
<1>4. PICK d \in Calls, o \in Results, l \in {"idle", "store_lock"} :
        /\ call' = [call EXCEPT ![t] = d] /\ out' = [out EXCEPT ![t] = o]
        /\ pc' = [pc EXCEPT ![t] = l]
        /\ d.current = c.current
  <2>1. CASE Catch(t)
    BY <2>1, <1>1, CatchEffect
  <2>2. CASE /\ \E s \in Replies(PlayerOf[engine[t]], c.missing) :
                   call' = [call EXCEPT ![t].responses = s]
             /\ Goto(t, "store_lock")
             /\ UNCHANGED out
    <3>1. PICK s \in Replies(PlayerOf[engine[t]], c.missing) :
             call' = [call EXCEPT ![t].responses = s]
      BY <2>2
    <3>2. s \in Seq(SolverResponses)
      BY <1>2, <1>3, RepliesType
    <3> DEFINE d == WithResponses(c, s)
    <3>3. d \in Calls /\ d.current = c.current
      BY <3>2, <1>2, SetResponses
    <3>4. call' = [call EXCEPT ![t] = d] /\ out' = [out EXCEPT ![t] = out[t]]
      BY <3>1, <2>2 DEF TypeOK, WithResponses
    <3> QED BY <2>2, <3>3, <3>4, <1>2 DEF Goto
  <2> QED BY <2>1, <2>2 DEF Solve
<1>5. l \in Labels /\ l # "solve"
  BY DEF Labels
<1> QED BY <1>1, <1>2, <1>4, <1>5, TypeStep DEF TypeOK

\* What a thread finds at the place of its next store.
LEMMA StoreOneHas ==
    ASSUME TypeOK, NEW t \in Threads, StoreOne(t)
    PROVE  /\ pc[t] = "store"
           /\ call[t].i \in 1..Len(call[t].missing)
           /\ call[t].i \in 1..Len(call[t].responses)
           /\ call[t].missing[call[t].i] \in Requests
           /\ call[t].responses[call[t].i] \in SolverResponses
<1>1. pc[t] = "store"
  BY DEF StoreOne, StoredRequest
<1>2. /\ call[t].i \in Nat \ {0}
      /\ call[t].missing \in Seq(Requests)
      /\ call[t].responses \in Seq(SolverResponses)
  BY <1>1, CallType
<1>3. call[t].i <= Len(call[t].missing) /\ call[t].i <= Len(call[t].responses)
  BY DEF StoreOne, StoredRequest
<1> QED BY <1>1, <1>2, <1>3, LenProperties, ElementOfSeq

\* Storing one answer changes ready or the error, each of its type.
LEMMA StoreOneEffect ==
    ASSUME TypeOK, NEW t \in Threads, StoreOne(t)
    PROVE  \E d \in Calls, o \in Results :
              /\ call' = [call EXCEPT ![t] = d] /\ out' = [out EXCEPT ![t] = o]
              /\ d.assets = call[t].assets /\ d.current = call[t].current
              /\ d.missing = call[t].missing /\ d.responses = call[t].responses
<1> DEFINE c == call[t]
           r == c.missing[c.i]
           resp == c.responses[c.i]
<1>1. /\ pc[t] = "store" /\ r \in Requests /\ resp \in SolverResponses
      /\ c.i + 1 \in Nat \ {0}
  BY StoreOneHas
<1>2. /\ c \in Calls /\ out[t] \in Results /\ c.ready \in Seq(ReadyPairs)
      /\ c.unsaid \in SUBSET Requests
  BY <1>1, CallType
<1>3. resp.data \in Data /\ resp.error \in ErrorTexts \cup {""}
  BY <1>1 DEF SolverResponses
<1>4. CASE resp.ok
  <2>1. [type |-> r.type, data |-> resp.data] \in ReadyPairs
    BY <1>1, <1>3 DEF ReadyPairs, Requests
  <2> DEFINE rd == Append(c.ready, [type |-> r.type, data |-> resp.data])
             d == WithReady(c, c.i + 1, rd)
  <2>2. rd \in Seq(ReadyPairs)
    BY <2>1, <1>2, AppendProperties
  <2> HIDE DEF rd, c
  <2>3. /\ d \in Calls /\ d.assets = c.assets /\ d.current = c.current
        /\ d.missing = c.missing /\ d.responses = c.responses
    <3>1. c \in Calls /\ c.i + 1 \in Nat \ {0}
      BY <1>1, <1>2
    <3> QED BY ONLY <2>2, <3>1, SetReady
  <2>4. call' = [call EXCEPT ![t] = d] /\ out' = [out EXCEPT ![t] = out[t]]
    BY <1>4 DEF StoreOne, TypeOK, WithReady, rd, c, StoredRequest
  <2> HIDE DEF d
  <2> QED BY <2>3, <2>4, <1>2 DEF c
<1>5. CASE ~resp.ok
  <2>1. resp.error \in Messages
    BY <1>3 DEF Messages
  <2> DEFINE w == c.unsaid \cup {q \in {r} : resp.error = ""}
             d == WithUnsaid(c, c.i + 1, w)
             o == AddError(out[t], resp.error)
  <2>2. /\ d \in Calls /\ d.assets = c.assets /\ d.current = c.current
        /\ d.missing = c.missing /\ d.responses = c.responses
    <3>1. w \in SUBSET Requests
      BY <1>1, <1>2
    <3> HIDE DEF w
    <3> QED BY <3>1, <1>1, <1>2, SetUnsaid
  <2>3. call' = [call EXCEPT ![t] = d] /\ out' = [out EXCEPT ![t] = o]
    BY <1>5 DEF StoreOne, TypeOK, WithUnsaid, StoredRequest
  <2>4. o \in Results
    BY <2>1, <1>2, AddErrorType
  <2> HIDE DEF d, o
  <2> QED BY <2>2, <2>3, <2>4
<1> QED BY <1>4, <1>5

\* Storing one answer keeps the types.
LEMMA StoreOneKeepsType ==
    ASSUME TypeOK, NEW t \in Threads, StoreOne(t)
    PROVE  TypeOK'
<1> DEFINE c == call[t]
           r == c.missing[c.i]
           resp == c.responses[c.i]
<1>1. pc[t] = "store" /\ r \in Requests /\ resp \in SolverResponses
  BY StoreOneHas
<1>2. c.assets \in Assets
  BY <1>1, CallType
<1>3. resp.data \in Data \cup {Absent} /\ resp.error \in ErrorTexts \cup {"", Absent}
  BY <1>1 DEF SolverResponses
<1>4. r.type \in CachedTypes => r \in Keys
  BY <1>1, CachedIsKey
<1>5. UNCHANGED <<lock, engine, pc, calls>>
  BY DEF StoreOne, StoredRequest
<1>6. values' \in [Assets -> [Keys -> Data \cup {Absent}]]
  <2>1. \/ values' = values
        \/ r \in Keys /\ values' = Put(values, c.assets, r, resp.data)
    BY <1>4 DEF StoreOne, Put, StoredRequest
  <2> DEFINE S == Data \cup {Absent}
  <2>2. values \in [Assets -> [Keys -> S]] /\ resp.data \in S
    BY <1>3 DEF TypeOK
  <2> HIDE DEF S, c, r, resp
  <2>3. values' \in [Assets -> [Keys -> S]]
    BY <2>1, <2>2, <1>2 DEF Put
  <2> QED BY <2>3 DEF S
<1>7. errors' \in [Assets -> [Keys -> ErrorTexts \cup {"", Absent}]]
  <2>1. \/ errors' = errors
        \/ r \in Keys /\ errors' = Put(errors, c.assets, r, resp.error)
    BY <1>4 DEF StoreOne, Put, StoredRequest
  <2> DEFINE S == ErrorTexts \cup {"", Absent}
  <2>2. errors \in [Assets -> [Keys -> S]] /\ resp.error \in S
    BY <1>3 DEF TypeOK
  <2> HIDE DEF S, c, r, resp
  <2>3. errors' \in [Assets -> [Keys -> S]]
    BY <2>1, <2>2, <1>2 DEF Put
  <2> QED BY <2>3 DEF S
<1>8. storedBy' \in [Assets -> [Keys -> SUBSET Threads]]
  <2> DEFINE S == SUBSET Threads
             v == storedBy[c.assets][r] \cup {t}
  <2>1. \/ storedBy' = storedBy
        \/ r \in Keys /\ storedBy' = Put(storedBy, c.assets, r, v)
    BY <1>4 DEF StoreOne, Put, StoredRequest
  <2>2. storedBy \in [Assets -> [Keys -> S]]
    BY DEF TypeOK
  <2>3. r \in Keys => v \in S
    BY <1>2, MapEntries
  <2> HIDE DEF S, c, r, resp, v
  <2>4. storedBy' \in [Assets -> [Keys -> S]]
    BY <2>1, <2>2, <2>3, <1>2 DEF Put
  <2> QED BY <2>4 DEF S
<1>9. PICK d \in Calls, o \in Results :
        /\ call' = [call EXCEPT ![t] = d] /\ out' = [out EXCEPT ![t] = o]
        /\ d.current = c.current
  BY StoreOneEffect
<1>10. pc' = [pc EXCEPT ![t] = "store"] /\ c.current # Absent
  BY <1>1, <1>5 DEF TypeOK
<1>11. "store" \in Labels
  BY DEF Labels
<1>12. engine' \in [Threads -> Assets \cup {Absent}] /\ lock' \in [Assets -> Threads \cup {Absent}]
       /\ calls' \in [Threads -> 0..MaxCalls]
  BY <1>5 DEF TypeOK
<1> QED BY <1>5, <1>6, <1>7, <1>8, <1>9, <1>10, <1>11, <1>12, TypeStep

\* Writing one value into the URL keeps the types.
LEMMA ApplyOneKeepsType ==
    ASSUME TypeOK, NEW t \in Threads, ApplyOne(t)
    PROVE  TypeOK'
<1> DEFINE c == call[t]
           kv == c.ready[c.i]
           url == IF kv.type \in CachedTypes
                  THEN SetParam(c.current, ParamFor(c.fmt, kv.type), kv.data)
                  ELSE c.current
           n == IF kv.type \in CachedTypes THEN c.sets + 1 ELSE c.sets
           d == WithCurrent(c, c.i + 1, url, n)
<1>1. pc[t] = "apply" /\ UNCHANGED <<values, errors, lock, storedBy, engine, pc, out, calls>>
  BY DEF ApplyOne, shared
<1>2. /\ c \in Calls /\ out[t] \in Results /\ c.current \in Urls /\ c.fmt \in Formats
      /\ c.i \in Nat \ {0} /\ c.i + 1 \in Nat \ {0} /\ c.ready \in Seq(ReadyPairs)
      /\ n \in Nat
  BY <1>1, CallType
<1>3. kv \in ReadyPairs
  BY <1>2, LenProperties, ElementOfSeq DEF ApplyOne
<1>4. kv.data \in Data
  BY <1>3 DEF ReadyPairs
<1>5. url \in Urls
  BY <1>2, <1>4, ParamForType, SetParamType
<1>6. url # Absent
  BY <1>5, ConstantsAssumption
<1> HIDE DEF url, n
<1>7. d \in Calls /\ d.current = url
  BY <1>2, <1>5, SetCurrent
<1>8. call' = [call EXCEPT ![t] = d]
  BY DEF ApplyOne, TypeOK, url, n, WithCurrent
<1>9. /\ pc' = [pc EXCEPT ![t] = "apply"] /\ "apply" \in Labels
      /\ out' = [out EXCEPT ![t] = out[t]]
  BY <1>1 DEF TypeOK, Labels
<1> HIDE DEF d
<1>10. /\ UNCHANGED <<values, errors, lock, storedBy, engine, calls>> /\ d.current # Absent
       /\ out[t] \in Results
  BY <1>1, <1>2, <1>6, <1>7
<1> QED BY <1>7, <1>8, <1>9, <1>10, TypeStep DEF TypeOK

\* Returning the URL keeps the types.
LEMMA ApplyDoneKeepsType ==
    ASSUME TypeOK, NEW t \in Threads, ApplyDone(t)
    PROVE  TypeOK'
<1> DEFINE o == [out[t] EXCEPT !.decoded_url = call[t].current]
<1>1. pc[t] = "apply" /\ UNCHANGED <<values, errors, lock, storedBy, engine, call, calls>>
  BY DEF ApplyDone, shared
<1>2. call[t] \in Calls /\ out[t] \in Results /\ call[t].current \in Urls
  BY <1>1, CallType
<1>3. o \in Results
  BY <1>2 DEF Results
<1>4. /\ out' = [out EXCEPT ![t] = o] /\ call' = [call EXCEPT ![t] = call[t]]
      /\ pc' = [pc EXCEPT ![t] = "idle"] /\ "idle" \in Labels
  BY <1>1 DEF ApplyDone, TypeOK, Labels, Goto
<1> HIDE DEF o
<1> QED BY <1>1, <1>2, <1>3, <1>4, TypeStep DEF TypeOK

\* Every variable and every local of solve_format_url keeps its type, for
\* any number of threads, assets and formats.
THEOREM TypeCorrect == Spec => []TypeOK
<1>1. Init => TypeOK
  <2> SUFFICES ASSUME Init PROVE TypeOK
    OBVIOUS
  <2>1. /\ values \in [Assets -> [Keys -> Data \cup {Absent}]]
        /\ errors \in [Assets -> [Keys -> ErrorTexts \cup {"", Absent}]]
        /\ storedBy \in [Assets -> [Keys -> SUBSET Threads]]
    BY DEF Init
  <2>2. /\ lock \in [Assets -> Threads \cup {Absent}]
        /\ engine \in [Threads -> Assets \cup {Absent}]
        /\ call \in [Threads -> Calls \cup {Absent}]
        /\ out \in [Threads -> Results \cup {Absent}]
    BY DEF Init
  <2>3. pc \in [Threads -> Labels]
    BY DEF Init, Labels
  <2>5. calls \in [Threads -> 0..MaxCalls]
    <3>1. MaxCalls \in Nat
      BY ConstantsAssumption
    <3>2. 0 \in 0..MaxCalls
      BY <3>1
    <3> QED BY <3>2 DEF Init
  <2>4. \A t \in Threads : call[t] = Absent /\ out[t] = Absent /\ pc[t] = "idle"
    BY DEF Init
  <2> QED BY <2>1, <2>2, <2>3, <2>4, <2>5 DEF TypeOK
<1>2. TypeOK /\ [Next]_vars => TypeOK'
  <2> SUFFICES ASSUME TypeOK, [Next]_vars PROVE TypeOK'
    OBVIOUS
  <2>1. CASE UNCHANGED vars
    BY <2>1 DEF vars, TypeOK
  <2>2. ASSUME NEW t \in Threads, NEW a \in ServedBy[t], NEW fmt \in Formats, Call(t, a, fmt)
        PROVE  TypeOK'
    BY <2>2, CallKeepsType
  <2>3. ASSUME NEW t \in Threads, Step(t)
        PROVE  TypeOK'
    BY <2>3, LockKeepsType, LookupOneKeepsType, UnlockKeepsType, GetEngineKeepsType,
       SolveKeepsType, StoreOneKeepsType, ApplyOneKeepsType, ApplyDoneKeepsType DEF Step
  <2>4. ASSUME NEW t \in Threads, ThreadExit(t)
        PROVE  TypeOK'
    BY <2>4 DEF ThreadExit, TypeOK, shared
  <2> QED BY <2>1, <2>2, <2>3, <2>4 DEF Next
<1> QED BY <1>1, <1>2, PTL DEF Spec

(***************************************************************************)
(* Frame conditions: what a step of one thread leaves alone.               *)
(***************************************************************************)

\* The steps of thread t.
Acts(t) ==
    \/ \E a \in ServedBy[t], fmt \in Formats : Call(t, a, fmt)
    \/ Step(t)
    \/ ThreadExit(t)

\* A step of t leaves the locals and the engine of every other thread alone.
LEMMA OthersUnchanged ==
    ASSUME TypeOK, NEW t \in Threads, Acts(t), NEW u \in Threads, u # t
    PROVE  call'[u] = call[u] /\ pc'[u] = pc[u] /\ engine'[u] = engine[u]
<1> USE DEF TypeOK
<1>1. ASSUME NEW a \in ServedBy[t], NEW fmt \in Formats, Call(t, a, fmt)
      PROVE  call'[u] = call[u] /\ pc'[u] = pc[u] /\ engine'[u] = engine[u]
  BY <1>1 DEF Call, Goto
<1>2. CASE LockForLookup(t) \/ LockForStore(t)
  BY <1>2 DEF LockForLookup, LockForStore, Goto, Acquire
<1>3. CASE LookupOne(t)
  BY <1>3 DEF LookupOne, FindValue, FindError
<1>4. CASE LookupDone(t) \/ StoreDone(t)
  BY <1>4 DEF LookupDone, StoreDone, Goto, Unlock
<1>5. CASE GetEngine(t)
  BY <1>5 DEF GetEngine, Catch, Goto
<1>6. CASE Solve(t)
  BY <1>6 DEF Solve, Catch, Goto
<1>7. CASE StoreOne(t)
  BY <1>7 DEF StoreOne, StoredRequest
<1>8. CASE ApplyOne(t) \/ ApplyDone(t)
  BY <1>8 DEF ApplyOne, ApplyDone, Goto
<1>9. CASE ThreadExit(t)
  BY <1>9 DEF ThreadExit
<1> QED BY <1>1, <1>2, <1>3, <1>4, <1>5, <1>6, <1>7, <1>8, <1>9 DEF Acts, Step

\* Inside a call the assets never change, and missing only in the lookup.
LEMMA LocalsKept ==
    ASSUME TypeOK, NEW t \in Threads, Step(t)
    PROVE  /\ pc[t] # "idle"
           /\ call'[t].assets = call[t].assets
           /\ pc[t] # "lookup" => call'[t].missing = call[t].missing
<1>1. pc[t] # "idle"
  BY DEF Step, LockForLookup, LookupOne, LookupDone, GetEngine, Solve,
         LockForStore, StoreOne, StoreDone, ApplyOne, ApplyDone, Acquire, Unlock, FindValue, FindError, StoredRequest
<1>2. call[t] \in Calls
  BY <1>1, CallType
<1>3. CASE UNCHANGED call
  BY <1>1, <1>3
<1>4. CASE LookupOne(t)
  <2>1. pc[t] = "lookup"
    BY <1>4 DEF LookupOne, FindValue, FindError
  <2>2. PICK d \in Calls : call' = [call EXCEPT ![t] = d] /\ d.assets = call[t].assets
    BY <1>4, LookupOneEffect
  <2>3. call'[t] = d
    BY <2>2 DEF TypeOK
  <2> QED BY <2>1, <2>2, <2>3
<1>5. CASE LookupDone(t) \/ StoreDone(t)
  BY <1>1, <1>5, UnlockEffect
<1>6. CASE Solve(t)
  <2>1. CASE Catch(t)
    BY <2>1, <1>1, CatchEffect
  <2>2. CASE \E s \in Replies(PlayerOf[engine[t]], call[t].missing) :
                call' = [call EXCEPT ![t].responses = s]
    <3>1. PICK s : call' = [call EXCEPT ![t].responses = s]
      BY <2>2
    <3>2. call'[t] = [call[t] EXCEPT !.responses = s]
      BY <3>1 DEF TypeOK
    <3> QED BY <1>1, <1>2, <3>2 DEF Calls
  <2> QED BY <1>6, <2>1, <2>2 DEF Solve
<1>7. CASE StoreOne(t)
  <2>1. PICK d \in Calls : /\ call' = [call EXCEPT ![t] = d] /\ d.assets = call[t].assets
                          /\ d.missing = call[t].missing
    BY <1>7, StoreOneEffect
  <2>2. call'[t] = d
    BY <2>1 DEF TypeOK
  <2> QED BY <1>1, <2>1, <2>2
<1>8. CASE ApplyOne(t)
  BY <1>1, <1>2, <1>8 DEF ApplyOne, TypeOK, Calls
<1>9. LockForLookup(t) \/ LockForStore(t) \/ ApplyDone(t) => UNCHANGED call
  BY DEF LockForLookup, LockForStore, ApplyDone, Acquire
<1>10. CASE GetEngine(t)
  <2>1. CASE Catch(t)
    BY <2>1, <1>1, CatchEffect
  <2> QED BY <1>3, <1>10, <2>1 DEF GetEngine
<1> QED BY <1>3, <1>4, <1>5, <1>6, <1>7, <1>8, <1>9, <1>10 DEF Step

\* Every step is a step of one thread.
LEMMA NextIsActs == Next <=> \E t \in Threads : Acts(t)
BY DEF Next, Acts

(***************************************************************************)
(* Mutual exclusion.                                                       *)
(***************************************************************************)

\* The holder of a mutex keeps it until it leaves its critical section.
LEMMA MutexStep == TypeOK /\ MutexInv /\ [Next]_vars => MutexInv'
<1> SUFFICES ASSUME TypeOK, MutexInv, [Next]_vars PROVE MutexInv'
  OBVIOUS
<1>1. CASE UNCHANGED vars
  BY <1>1 DEF vars, MutexInv, InSection
<1>2. ASSUME NEW t \in Threads, Acts(t)
      PROVE  MutexInv'
  <2> SUFFICES ASSUME NEW u \in Threads, InSection(u)'
               PROVE  (lock[call[u].assets] = u)'
    BY DEF MutexInv
  <2>1. u # t => call'[u] = call[u] /\ pc'[u] = pc[u]
    BY <1>2, OthersUnchanged
  <2>2. u # t => lock[call[u].assets] = u /\ call[u].assets \in Assets
    BY <2>1, CallType DEF InSection, MutexInv
  <2>3. u # Absent /\ t # Absent
    BY ConstantsAssumption
  <2>4. CASE LockForLookup(t) \/ LockForStore(t)
    <3>1. lock' = [lock EXCEPT ![call[t].assets] = t] /\ UNCHANGED call
          /\ lock[call[t].assets] = Absent /\ call[t].assets \in Assets
      BY <2>4, CallType DEF LockForLookup, LockForStore, Acquire
    <3> QED BY <3>1, <2>2, <2>3 DEF TypeOK
  <2>5. CASE LookupDone(t) \/ StoreDone(t)
    <3>1. /\ lock' = [lock EXCEPT ![call[t].assets] = Absent]
          /\ pc'[t] \notin {"lookup", "store"}
          /\ InSection(t) /\ pc[t] # "idle"
      BY <2>5 DEF LookupDone, StoreDone, Goto, TypeOK, InSection, Unlock
    <3>2. u # t
      BY <3>1 DEF InSection
    <3>3. lock[call[t].assets] = t /\ call[t].assets \in Assets
      BY <3>1, CallType DEF MutexInv
    <3> QED BY <3>1, <3>2, <3>3, <2>1, <2>2 DEF TypeOK
  <2>6. CASE LookupOne(t) \/ StoreOne(t)
    <3>1. lock' = lock /\ pc' = pc
      BY <2>6 DEF LookupOne, StoreOne, shared, FindValue, FindError, StoredRequest
    <3>2. call'[t].assets = call[t].assets
      BY <2>6, LocalsKept DEF Step
    <3> QED BY <3>1, <3>2, <2>1 DEF MutexInv, InSection
  <2>7. CASE GetEngine(t) \/ Solve(t) \/ ApplyOne(t) \/ ApplyDone(t)
    <3>1. lock' = lock /\ pc'[t] \notin {"lookup", "store"}
      BY <2>7 DEF GetEngine, Solve, ApplyOne, ApplyDone, shared, Catch, Goto, TypeOK
    <3> QED BY <3>1, <2>1, <2>2 DEF InSection
  <2>8. ASSUME NEW a \in ServedBy[t], NEW fmt \in Formats, Call(t, a, fmt)
        PROVE  (lock[call[u].assets] = u)'
    <3>1. lock' = lock /\ pc'[t] \notin {"lookup", "store"}
      BY <2>8 DEF Call, shared, Goto, TypeOK
    <3> QED BY <3>1, <2>1, <2>2 DEF InSection
  <2>9. CASE ThreadExit(t)
    BY <2>9 DEF ThreadExit, shared, MutexInv, InSection
  <2> QED BY <1>2, <2>4, <2>5, <2>6, <2>7, <2>8, <2>9 DEF Acts, Step
<1> QED BY <1>1, <1>2, NextIsActs

\* The two lock_guard scopes of solve_format_url exclude each other: no two
\* threads are ever inside the maps of the same cache.
THEOREM MutualExclusion == Spec => []RaceFree
<1>1. Init => MutexInv
  BY DEF Init, MutexInv, InSection
<1>2. TypeOK /\ MutexInv => RaceFree
  BY DEF MutexInv, RaceFree
<1> QED BY <1>1, <1>2, MutexStep, TypeCorrect, PTL DEF Spec

(***************************************************************************)
(* The cache holds its own player's answers.                               *)
(***************************************************************************)

\* A thread's engine and call stay within the assets the thread is given.
LEMMA EngineStep == TypeOK /\ EngineInv /\ [Next]_vars => EngineInv'
<1> SUFFICES ASSUME TypeOK, EngineInv, [Next]_vars PROVE EngineInv'
  OBVIOUS
<1>1. CASE UNCHANGED vars
  BY <1>1 DEF vars, EngineInv
<1>2. ASSUME NEW t \in Threads, Acts(t)
      PROVE  EngineInv'
  <2>1. ASSUME NEW u \in Threads, u # t
        PROVE  /\ engine'[u] # Absent => engine'[u] \in ServedBy[u]
               /\ pc'[u] # "idle" => call'[u].assets \in ServedBy[u]
    BY <1>2, <2>1, OthersUnchanged DEF EngineInv
  <2>2. /\ engine'[t] # Absent => engine'[t] \in ServedBy[t]
        /\ pc'[t] # "idle" => call'[t].assets \in ServedBy[t]
    <3>1. ASSUME NEW a \in ServedBy[t], NEW fmt \in Formats, Call(t, a, fmt)
          PROVE  engine' = engine /\ call'[t].assets = a
      BY <3>1 DEF Call, TypeOK
    <3>2. CASE Step(t)
      <4>1. pc[t] # "idle" /\ call'[t].assets = call[t].assets
        BY <3>2, LocalsKept
      <4>2. engine'[t] \in {engine[t], call[t].assets}
        BY <3>2 DEF Step, LockForLookup, LookupOne, LookupDone, GetEngine, Solve,
             LockForStore, StoreOne, StoreDone, ApplyOne, ApplyDone, TypeOK, Acquire, Unlock, FindValue, FindError, StoredRequest
      <4> QED BY <4>1, <4>2 DEF EngineInv
    <3>3. CASE ThreadExit(t)
      BY <3>3 DEF ThreadExit, EngineInv, TypeOK
    <3> QED BY <1>2, <3>1, <3>2, <3>3 DEF Acts, EngineInv
  <2> QED BY <2>1, <2>2 DEF EngineInv
<1> QED BY <1>1, <1>2, NextIsActs

\* The replies on their way into a cache were computed by the right player.
LEMMA RepliesStep ==
    ASSUME OnePlayerPerThread
    PROVE  TypeOK /\ EngineInv /\ RepliesInv /\ [Next]_vars => RepliesInv'
<1> SUFFICES ASSUME TypeOK, EngineInv, RepliesInv, [Next]_vars PROVE RepliesInv'
  OBVIOUS
<1>1. CASE UNCHANGED vars
  BY <1>1 DEF vars, RepliesInv
<1>2. ASSUME NEW t \in Threads, Acts(t)
      PROVE  RepliesInv'
  <2> SUFFICES ASSUME NEW u \in Threads, pc'[u] \in {"store_lock", "store"},
                      NEW j \in 1..Len(call'[u].responses)
               PROVE  /\ j <= Len(call'[u].missing)
                      /\ call'[u].responses[j] \in
                            Outcomes(PlayerOf[call'[u].assets], call'[u].missing[j])
    BY DEF RepliesInv
  <2>1. CASE u # t
    BY <1>2, <2>1, OthersUnchanged DEF RepliesInv
  <2>2. CASE u = t /\ Solve(t)
    <3>1. pc[t] = "solve" /\ Goto(t, "store_lock")
      BY <2>2 DEF Solve, Catch, Goto, TypeOK
    <3>2. PICK s \in Replies(PlayerOf[engine[t]], call[t].missing) :
             call' = [call EXCEPT ![t].responses = s]
      BY <2>2, <3>1 DEF Solve, Catch, Goto, TypeOK
    <3>3. call[t] \in Calls /\ call[t].missing \in Seq(Requests)
      BY <3>1, CallType
    <3>4. /\ call'[t].responses = s /\ call'[t].missing = call[t].missing
          /\ call'[t].assets = call[t].assets
      BY <3>2, <3>3 DEF TypeOK, Calls
    <3>5. engine[t] \in ServedBy[t] /\ call[t].assets \in ServedBy[t]
      BY <3>1 DEF EngineInv, TypeOK
    <3>6. PlayerOf[engine[t]] = PlayerOf[call[t].assets]
      BY <3>5 DEF OnePlayerPerThread
    <3>7. PlayerOf[engine[t]] \in Players
      BY <3>1, ConstantsAssumption DEF TypeOK
    <3>8. /\ Len(s) <= Len(call[t].missing) /\ s \in Seq(SolverResponses)
          /\ \A i \in 1..Len(s) : s[i] \in Outcomes(PlayerOf[engine[t]], call[t].missing[i])
      BY <3>3, <3>7, RepliesType
    <3>9. j \in 1..Len(s) /\ Len(s) \in Nat /\ Len(call[t].missing) \in Nat
      BY <2>2, <3>3, <3>4, <3>8, LenProperties
    <3> QED BY <2>2, <3>4, <3>6, <3>8, <3>9
  <2>3. CASE u = t /\ (LockForStore(t) \/ StoreOne(t))
    <3>1. pc[t] \in {"store_lock", "store"} /\ pc[t] # "idle"
      BY <2>3 DEF LockForStore, StoreOne, Acquire, StoredRequest
    <3>2. call[t] \in Calls
      BY <3>1, CallType
    <3>3. call'[t].responses = call[t].responses
      <4>1. CASE LockForStore(t)
        BY <4>1 DEF LockForStore, Acquire
      <4>2. CASE StoreOne(t)
        <5>1. PICK d \in Calls : /\ call' = [call EXCEPT ![t] = d]
                                /\ d.responses = call[t].responses
          BY <4>2, StoreOneEffect
        <5> QED BY <5>1 DEF TypeOK
      <4> QED BY <2>3, <4>1, <4>2
    <3>4. call'[t].assets = call[t].assets /\ call'[t].missing = call[t].missing
      BY <2>3, <3>1, LocalsKept DEF Step
    <3> QED BY <2>3, <3>1, <3>3, <3>4 DEF RepliesInv
  <2>4. CASE u = t /\ ~Solve(t) /\ ~LockForStore(t) /\ ~StoreOne(t)
    <3>1. ~ThreadExit(t)
      BY <2>4 DEF ThreadExit
    <3>2. pc'[t] \notin {"store_lock", "store"}
      BY <1>2, <2>4, <3>1 DEF Acts, Step, Call, LockForLookup, LookupOne, LookupDone,
           GetEngine, StoreDone, ApplyOne, ApplyDone, Catch, Goto, TypeOK, Acquire, Unlock, FindValue, FindError
    <3> QED BY <2>4, <3>2
  <2> QED BY <2>1, <2>2, <2>3, <2>4
<1> QED BY <1>1, <1>2, NextIsActs

\* Only StoreOne writes the maps of a cache.
LEMMA OnlyStoreOneWrites ==
    ASSUME NEW t \in Threads, Acts(t), ~StoreOne(t)
    PROVE  UNCHANGED <<values, errors, storedBy>>
BY DEF Acts, Step, Call, LockForLookup, LookupOne, LookupDone, GetEngine, Solve,
       LockForStore, StoreDone, ApplyOne, ApplyDone, ThreadExit, shared, Acquire, Unlock, FindValue, FindError

\* A store writes one entry, with an answer of the cache's own player.
LEMMA StoreIsLearn ==
    ASSUME TypeOK, RepliesInv, NEW t \in Threads, StoreOne(t)
    PROVE  \/ UNCHANGED <<values, errors>>
           \/ \E a \in Assets, k \in Keys :
                 \/ \E d \in {EmptyText, Solution(PlayerOf[a], k)} :
                       values' = [values EXCEPT ![a][k] = d] /\ errors' = errors
                 \/ \E e \in ErrorTexts :
                       errors' = [errors EXCEPT ![a][k] = e] /\ values' = values
<1> DEFINE c == call[t]
           r == c.missing[c.i]
           resp == c.responses[c.i]
<1>1. pc[t] = "store" /\ c.i \in 1..Len(c.responses) /\ r \in Requests
  BY StoreOneHas
<1>2. resp \in Outcomes(PlayerOf[c.assets], r)
  BY <1>1 DEF RepliesInv
<1>3. c.assets \in Assets
  BY <1>1, CallType
<1>4. CASE r.type \notin CachedTypes
  BY <1>4 DEF StoreOne, StoredRequest
<1>5. CASE r.type \in CachedTypes /\ resp.ok
  <2>1. resp.data \in {EmptyText, Solution(PlayerOf[c.assets], r)}
    BY <1>2, <1>5, OutcomeHas
  <2>2. values' = [values EXCEPT ![c.assets][r] = resp.data] /\ errors' = errors
    BY <1>5 DEF StoreOne, StoredRequest
  <2> QED BY <1>1, <1>3, <1>5, <2>1, <2>2, CachedIsKey
<1>6. CASE r.type \in CachedTypes /\ ~resp.ok
  <2>1. resp.error \in ErrorTexts
    BY <1>2, <1>6, OutcomeHas
  <2>2. errors' = [errors EXCEPT ![c.assets][r] = resp.error] /\ values' = values
    BY <1>6 DEF StoreOne, StoredRequest
  <2> QED BY <1>1, <1>3, <1>6, <2>1, <2>2, CachedIsKey
<1> QED BY <1>4, <1>5, <1>6

\* The invariant behind the two theorems that follow.
LEMMA RepliesInvariant ==
    ASSUME OnePlayerPerThread
    PROVE  Spec => [](TypeOK /\ EngineInv /\ RepliesInv)
<1>1. Init => EngineInv /\ RepliesInv
  BY DEF Init, EngineInv, RepliesInv
<1> QED BY <1>1, EngineStep, RepliesStep, TypeCorrect, PTL DEF Spec

\* When each thread only serves assets of one player, the cache implements
\* the table of SolverMemo: each step writes at most one entry, and writes
\* it with an answer of the player of the assets the cache belongs to.
THEOREM CacheImplementsMemo ==
    ASSUME OnePlayerPerThread
    PROVE  Spec => ImplementsMemo
<1>1. Init => Memo!MemoInit
  BY DEF Init, Memo!MemoInit
<1>2. TypeOK /\ RepliesInv /\ [Next]_vars => [Memo!MemoNext]_(Memo!memoVars)
  <2> SUFFICES ASSUME TypeOK, RepliesInv, [Next]_vars
               PROVE  Memo!MemoNext \/ UNCHANGED <<values, errors>>
    BY DEF Memo!memoVars
  <2>1. CASE UNCHANGED vars
    BY <2>1 DEF vars
  <2>2. ASSUME NEW t \in Threads, Acts(t), ~StoreOne(t)
        PROVE  UNCHANGED <<values, errors>>
    BY <2>2, OnlyStoreOneWrites
  <2>3. ASSUME NEW t \in Threads, StoreOne(t)
        PROVE  Memo!MemoNext \/ UNCHANGED <<values, errors>>
    BY <2>3, StoreIsLearn DEF Memo!MemoNext, Memo!Learn, Memo!Fail
  <2> QED BY <2>1, <2>2, <2>3, NextIsActs
<1> QED BY <1>1, <1>2, RepliesInvariant, PTL DEF Spec, ImplementsMemo, Memo!MemoSpec

\* When each thread only serves assets of one player, every value in every
\* cache is an answer of that cache's player.
THEOREM CacheHoldsOwnAnswers ==
    ASSUME OnePlayerPerThread
    PROVE  Spec => []CacheFaithful
<1>1. Init => CacheFaithful
  BY DEF Init, CacheFaithful
<1>2. TypeOK /\ RepliesInv /\ CacheFaithful /\ [Next]_vars => CacheFaithful'
  <2> SUFFICES ASSUME TypeOK, RepliesInv, CacheFaithful, [Next]_vars
               PROVE  CacheFaithful'
    OBVIOUS
  <2>1. CASE UNCHANGED values
    BY <2>1 DEF CacheFaithful
  <2>2. ASSUME NEW t \in Threads, StoreOne(t)
        PROVE  CacheFaithful'
    <3>1. CASE UNCHANGED values
      BY <3>1 DEF CacheFaithful
    <3>2. ASSUME NEW a \in Assets, NEW k \in Keys,
                 NEW d \in {EmptyText, Solution(PlayerOf[a], k)},
                 values' = [values EXCEPT ![a][k] = d]
          PROVE  CacheFaithful'
      BY <3>2 DEF CacheFaithful, TypeOK
    <3> QED BY <2>2, <3>1, <3>2, StoreIsLearn
  <2> QED BY <2>1, <2>2, OnlyStoreOneWrites, NextIsActs DEF vars
<1> QED BY <1>1, <1>2, RepliesInvariant, PTL DEF Spec

(***************************************************************************)
(* Nothing that was stored is computed again.                              *)
(***************************************************************************)

\* A store leaves something in the entry it is recorded for, and is recorded
\* for no other thread.
LEMMA StoreOneRecords ==
    ASSUME TypeOK, NEW t \in Threads, StoreOne(t), NEW a \in Assets, NEW k \in Keys
    PROVE  /\ \A u \in Threads : u \in storedBy'[a][k] => u \in storedBy[a][k] \/ u = t
           /\ storedBy'[a][k] = storedBy[a][k]
                \/ values'[a][k] # Absent \/ errors'[a][k] # Absent
           /\ values[a][k] # Absent => values'[a][k] # Absent
           /\ errors[a][k] # Absent => errors'[a][k] # Absent
<1> DEFINE b == call[t].assets
           r == call[t].missing[call[t].i]
           resp == call[t].responses[call[t].i]
           v == storedBy[b][r] \cup {t}
<1>1. pc[t] = "store" /\ r \in Requests /\ resp \in SolverResponses
  BY StoreOneHas
<1>2. b \in Assets
  BY <1>1, CallType
<1>3. resp.data # Absent /\ resp.error # Absent
  BY <1>1, ConstantsAssumption DEF SolverResponses
<1>4. /\ values \in [Assets -> [Keys -> Data \cup {Absent}]]
      /\ errors \in [Assets -> [Keys -> ErrorTexts \cup {"", Absent}]]
      /\ storedBy \in [Assets -> [Keys -> SUBSET Threads]]
  BY DEF TypeOK
<1>5. CASE r.type \notin CachedTypes
  BY <1>5 DEF StoreOne, StoredRequest
<1>6. CASE r.type \in CachedTypes
  <2>1. r \in Keys
    BY <1>1, <1>6, CachedIsKey
  <2>2. storedBy' = Put(storedBy, b, r, v)
    BY <1>6 DEF StoreOne, Put, StoredRequest
  <2>3. \/ values' = Put(values, b, r, resp.data) /\ errors' = errors
        \/ errors' = Put(errors, b, r, resp.error) /\ values' = values
    BY <1>6 DEF StoreOne, Put, StoredRequest
  <2>4. v = storedBy[b][r] \cup {t}
    OBVIOUS
  <2> HIDE DEF b, r, resp, v
  <2>5. storedBy'[a][k] = IF a = b /\ k = r THEN v ELSE storedBy[a][k]
    BY <2>1, <2>2, <1>2, <1>4 DEF Put
  <2>6. \/ /\ values'[a][k] = IF a = b /\ k = r THEN resp.data ELSE values[a][k]
           /\ errors'[a][k] = errors[a][k]
        \/ /\ errors'[a][k] = IF a = b /\ k = r THEN resp.error ELSE errors[a][k]
           /\ values'[a][k] = values[a][k]
    <3> DEFINE D == Data \cup {Absent}
               E == ErrorTexts \cup {"", Absent}
    <3>1. values \in [Assets -> [Keys -> D]] /\ errors \in [Assets -> [Keys -> E]]
      BY <1>4
    <3> HIDE DEF D, E
    <3>2. CASE values' = Put(values, b, r, resp.data) /\ errors' = errors
      BY <2>1, <3>1, <3>2, <1>2 DEF Put
    <3>3. CASE errors' = Put(errors, b, r, resp.error) /\ values' = values
      BY <2>1, <3>1, <3>3, <1>2 DEF Put
    <3> QED BY <2>3, <3>2, <3>3
  <2> QED BY <2>4, <2>5, <2>6, <1>3
<1> QED BY <1>5, <1>6

\* What is recorded as stored stays in the maps.
LEMMA StoredStep == TypeOK /\ StoredInv /\ [Next]_vars => StoredInv'
<1> SUFFICES ASSUME TypeOK, StoredInv, [Next]_vars PROVE StoredInv'
  OBVIOUS
<1>1. CASE UNCHANGED <<values, errors, storedBy>>
  BY <1>1 DEF StoredInv
<1>2. ASSUME NEW t \in Threads, StoreOne(t)
      PROVE  StoredInv'
  <2> SUFFICES ASSUME NEW a \in Assets, NEW k \in Keys, storedBy'[a][k] # {}
               PROVE  values'[a][k] # Absent \/ errors'[a][k] # Absent
    BY DEF StoredInv
  <2>1. CASE storedBy'[a][k] = storedBy[a][k]
    <3>1. values[a][k] # Absent \/ errors[a][k] # Absent
      BY <2>1 DEF StoredInv
    <3> QED BY <3>1, <1>2, StoreOneRecords
  <2>2. CASE storedBy'[a][k] # storedBy[a][k]
    BY <2>2, <1>2, StoreOneRecords
  <2> QED BY <2>1, <2>2
<1> QED BY <1>1, <1>2, OnlyStoreOneWrites, NextIsActs DEF vars

\* A request found missing has not been stored by its finder.
LEMMA MissingStep == TypeOK /\ StoredInv /\ MissingInv /\ [Next]_vars => MissingInv'
<1> SUFFICES ASSUME TypeOK, StoredInv, MissingInv, [Next]_vars PROVE MissingInv'
  OBVIOUS
<1>1. CASE UNCHANGED vars
  BY <1>1 DEF vars, MissingInv
<1>2. ASSUME NEW t \in Threads, Acts(t), NEW u \in Threads
      PROVE  /\ pc'[u] = "lookup_lock" => call'[u].missing = <<>>
             /\ pc'[u] \in {"lookup", "engine", "solve", "store_lock"} =>
                   \A j \in 1..Len(call'[u].missing) :
                       call'[u].missing[j].type \in CachedTypes =>
                           u \notin storedBy'[call'[u].assets][call'[u].missing[j]]
  <2>1. CASE u # t
    <3>1. call'[u] = call[u] /\ pc'[u] = pc[u]
      BY <1>2, <2>1, OthersUnchanged
    <3>2. ASSUME NEW a \in Assets, NEW k \in Keys, u \in storedBy'[a][k]
          PROVE  u \in storedBy[a][k]
      BY <1>2, <2>1, <3>2, OnlyStoreOneWrites, StoreOneRecords
    <3>3. ASSUME pc[u] # "idle", NEW j \in 1..Len(call[u].missing),
                 call[u].missing[j].type \in CachedTypes
          PROVE  call[u].assets \in Assets /\ call[u].missing[j] \in Keys
      <4>1. call[u].assets \in Assets /\ call[u].missing \in Seq(Requests)
        BY <3>3, CallType
      <4>2. call[u].missing[j] \in Requests
        BY <4>1, ElementOfSeq
      <4> QED BY <4>1, <4>2, <3>3, CachedIsKey
    <3> QED BY <3>1, <3>2, <3>3 DEF MissingInv
  <2>2. ASSUME u = t, NEW a \in ServedBy[t], NEW fmt \in Formats, Call(t, a, fmt)
        PROVE  call'[t].missing = <<>> /\ pc'[t] \in {"idle", "lookup_lock"}
    BY <2>2 DEF Call, Goto, TypeOK
  <2>3. CASE u = t /\ LookupOne(t)
    <3> DEFINE c == call[t]
               r == c.fmt.requests[c.i]
    <3>1. pc[t] = "lookup" /\ pc' = pc /\ storedBy' = storedBy /\ r \in Requests
      BY <2>3, LookupOneHas DEF LookupOne, shared, FindValue, FindError
    <3>2. PICK d \in Calls :
             /\ call' = [call EXCEPT ![t] = d] /\ d.assets = c.assets
             /\ \/ d.missing = c.missing
                \/ /\ d.missing = Append(c.missing, r)
                   /\ r.type \in CachedTypes => /\ values[c.assets][r] = Absent
                                                /\ errors[c.assets][r] = Absent
      BY <2>3, LookupOneEffect
    <3>3. call'[t] = d
      BY <3>2 DEF TypeOK
    <3>4. c.assets \in Assets /\ c.missing \in Seq(Requests)
      BY <3>1, CallType
    <3>5. r.type \in CachedTypes /\ values[c.assets][r] = Absent
             /\ errors[c.assets][r] = Absent => t \notin storedBy[c.assets][r]
      BY <3>1, <3>4, CachedIsKey DEF StoredInv
    <3>6. \A j \in 1..Len(c.missing) : c.missing[j].type \in CachedTypes =>
             t \notin storedBy[c.assets][c.missing[j]]
      BY <3>1 DEF MissingInv
    <3>7. CASE d.missing = c.missing
      BY <2>3, <3>1, <3>2, <3>3, <3>6, <3>7
    <3>8. CASE d.missing # c.missing
      <4>1. /\ Len(d.missing) = Len(c.missing) + 1
            /\ \A j \in 1..Len(c.missing) : d.missing[j] = c.missing[j]
            /\ d.missing[Len(c.missing) + 1] = r
        <5>1. d.missing = Append(c.missing, r) /\ c.missing \in Seq(Requests) /\ r \in Requests
          BY <3>1, <3>2, <3>4, <3>8
        <5> HIDE DEF c, r
        <5> QED BY ONLY <5>1, AppendProperties
      <4>2. r.type \in CachedTypes => t \notin storedBy[c.assets][r]
        BY <3>2, <3>5, <3>8
      <4>3. Len(c.missing) \in Nat
        BY <3>4, LenProperties
      <4> HIDE DEF c, r
      <4>4. \A j \in 1..Len(d.missing) : d.missing[j].type \in CachedTypes =>
               t \notin storedBy[c.assets][d.missing[j]]
        <5> TAKE j \in 1..Len(d.missing)
        <5>1. j \in 1..Len(c.missing) \/ j = Len(c.missing) + 1
          BY <4>1, <4>3
        <5> QED BY <5>1, <4>1, <4>2, <3>6
      <4> QED BY <4>4, <2>3, <3>1, <3>2, <3>3
    <3> QED BY <3>7, <3>8
  <2>4. CASE u = t /\ Step(t) /\ ~LookupOne(t)
    <3>1. CASE LockForLookup(t)
      <4>1. pc[t] = "lookup_lock" /\ pc'[t] = "lookup" /\ call' = call
        BY <3>1 DEF LockForLookup, Goto, TypeOK, Acquire
      <4>2. call'[t].missing = <<>>
        BY <4>1 DEF MissingInv
      <4> QED BY <2>4, <4>1, <4>2
    <3>2. CASE LookupDone(t)
      <4>1. pc[t] = "lookup" /\ storedBy' = storedBy /\ pc'[t] \in {"apply", "engine"}
        BY <3>2 DEF LookupDone, Goto, TypeOK, Unlock
      <4>2. call'[t].missing = call[t].missing /\ call'[t].assets = call[t].assets
        BY <3>2, UnlockEffect
      <4> QED BY <2>4, <4>1, <4>2 DEF MissingInv
    <3>3. CASE GetEngine(t) \/ Solve(t)
      <4>1. /\ pc[t] \in {"engine", "solve"} /\ storedBy' = storedBy
            /\ pc'[t] \in {"idle", "solve", "store_lock"}
        BY <3>3 DEF GetEngine, Solve, shared, Catch, Goto, TypeOK
      <4>2. call'[t].missing = call[t].missing /\ call'[t].assets = call[t].assets
        BY <2>4, <4>1, LocalsKept
      <4> QED BY <2>4, <4>1, <4>2 DEF MissingInv
    <3>4. CASE LockForStore(t) \/ StoreOne(t) \/ StoreDone(t) \/ ApplyOne(t) \/ ApplyDone(t)
      <4>1. pc'[t] \in {"store", "apply", "idle"}
        BY <3>4 DEF LockForStore, StoreOne, StoreDone, ApplyOne, ApplyDone, Goto, TypeOK, Acquire, Unlock, StoredRequest
      <4> QED BY <2>4, <4>1
    <3> QED BY <2>4, <3>1, <3>2, <3>3, <3>4 DEF Step
  <2>5. CASE u = t /\ ThreadExit(t)
    BY <2>5 DEF ThreadExit, shared, MissingInv
  <2> QED BY <1>2, <2>1, <2>2, <2>3, <2>4, <2>5 DEF Acts
<1> QED BY <1>1, <1>2, NextIsActs DEF MissingInv

\* A thread never runs the engine on a request it has already stored an
\* answer for, although the lookup and the store are two critical sections
\* and other threads store in between.
THEOREM StoredIsNotRecomputed == Spec => []NoRepeatedWork
<1>1. Init => StoredInv /\ MissingInv
  BY DEF Init, StoredInv, MissingInv
<1>2. MissingInv => NoRepeatedWork
  BY DEF MissingInv, NoRepeatedWork
<1> QED BY <1>1, <1>2, StoredStep, MissingStep, TypeCorrect, PTL DEF Spec

-----------------------------------------------------------------------------
(***************************************************************************)
(* What solve_format_url returns: the URL it writes is the caller's, as    *)
(* rewriting it leaves it, except for answers to the requests made, a call *)
(* without an error has answered all of them, and equal calls get equal    *)
(* answers.                                                                *)
(*                                                                         *)
(* WorkInv is one predicate, Work, of each thread's own label, locals and  *)
(* result.  The lemmas of the first part are about Work alone, for any     *)
(* values; the second part says which values each action gives it.         *)
(***************************************************************************)

(***************************************************************************)
(* Two states of the locals of one call.                                   *)
(***************************************************************************)

\* d are later locals of the call that c are locals of.
Kin(c, d) == d.assets = c.assets /\ d.fmt = c.fmt

\* What has been asked, and what answers it, stays the same during a call.
LEMMA KinAsksTheSame ==
    \A c, d : Kin(c, d) =>
        /\ Asked(d) = Asked(c)
        /\ \A x : AskedFor(d, x) = AskedFor(c, x) /\ AnswersFor(d, x) = AnswersFor(c, x)
        /\ \A url, k : UrlFaithful(d, url, k) <=> UrlFaithful(c, url, k)
        /\ \A url, type : IsWritten(d, url, type) <=> IsWritten(c, url, type)
        /\ \A kv : AnswersOne(d, kv) <=> AnswersOne(c, kv)
<1> SUFFICES ASSUME NEW c, NEW d, Kin(c, d)
             PROVE  /\ Asked(d) = Asked(c)
                    /\ \A x : AskedFor(d, x) = AskedFor(c, x) /\ AnswersFor(d, x) = AnswersFor(c, x)
                    /\ \A url, k : UrlFaithful(d, url, k) <=> UrlFaithful(c, url, k)
                    /\ \A url, type : IsWritten(d, url, type) <=> IsWritten(c, url, type)
                    /\ \A kv : AnswersOne(d, kv) <=> AnswersOne(c, kv)
  OBVIOUS
<1>1. d.assets = c.assets /\ d.fmt = c.fmt
  BY DEF Kin
<1>2. Asked(d) = Asked(c)
  BY <1>1, Zenon DEF Asked
<1>3. \A x : AskedFor(d, x) = AskedFor(c, x)
  BY <1>1, <1>2, Zenon DEF AskedFor
<1>4. \A x : AnswersFor(d, x) = AnswersFor(c, x)
  <2> TAKE x
  <2>1. AskedFor(d, x) = AskedFor(c, x)
    BY <1>3
  <2> QED BY <1>1, <2>1, Zenon DEF AnswersFor
<1>5. \A url, k : UrlFaithful(d, url, k) <=> UrlFaithful(c, url, k)
  <2>1. \A url, k, x : Kept(d, url, k, x) <=> Kept(c, url, k, x)
    BY <1>1, Zenon DEF Kept
  <2>2. \A r : AnswersTo(d, r) = AnswersTo(c, r)
    BY <1>1, Zenon DEF AnswersTo
  <2>3. \A url, k, x : Written(d, url, k, x) <=> Written(c, url, k, x)
    BY <1>1, <1>2, <2>2, Zenon DEF Written
  <2> QED BY <1>1, <2>1, <2>3, Zenon DEF UrlFaithful
<1>6. \A url, type : IsWritten(d, url, type) <=> IsWritten(c, url, type)
  BY <1>1, <1>4 DEF IsWritten
<1>7. \A kv : AnswersOne(d, kv) <=> AnswersOne(c, kv)
  BY <1>1, <1>2 DEF AnswersOne, AnswersTo
<1> QED BY <1>2, <1>3, <1>4, <1>5, <1>6, <1>7

\* The requests of a call are requests.
LEMMA AskedType ==
    ASSUME NEW c \in Calls
    PROVE  /\ Asked(c) \subseteq Requests
           /\ \A j \in 1..Len(c.fmt.requests) : c.fmt.requests[j] \in Asked(c)
<1>1. c.fmt \in Formats
  BY DEF Calls
<1>2. c.fmt.requests \in Seq(Requests)
  BY <1>1, ConstantsAssumption
<1>3. \A j \in 1..Len(c.fmt.requests) : c.fmt.requests[j] \in Requests
  BY <1>2, ElementOfSeq
<1> QED BY <1>3 DEF Asked

\* Appending to the error keeps the URL, never empties the error, and makes
\* it non-empty when there is something to say.
LEMMA AddErrorSays ==
    ASSUME NEW o \in Results, NEW text
    PROVE  /\ AddError(o, text).decoded_url = o.decoded_url
           /\ o.solver_error # <<>> => AddError(o, text).solver_error # <<>>
           /\ text # "" => AddError(o, text).solver_error # <<>>
<1>1. o.solver_error \in Seq(Messages)
  BY DEF Results
<1>2. Append(o.solver_error, text) # <<>>
  BY <1>1
<1>3. AddError(o, text).decoded_url = o.decoded_url
  BY DEF AddError, Results
<1>4. AddError(o, text).solver_error = IF o.solver_error = <<>> /\ text = "" THEN o.solver_error
                                        ELSE Append(o.solver_error, text)
  BY DEF AddError, Results
<1> QED BY <1>2, <1>3, <1>4

\* What happens to the locals as the call goes on, the URL apart.
Later(c, d) ==
    /\ Kin(c, d)
    /\ c.unsaid \subseteq d.unsaid
    /\ \A type : IsReady(c, type) => IsReady(d, type)

\* What is accounted for stays so while ready, the error and unsaid grow.
LEMMA AccountedGrows ==
    \A c, d, o, p, r, places, rest :
        /\ Later(c, d)
        /\ o.solver_error # <<>> => p.solver_error # <<>>
        /\ \A m \in places : c.missing[m] = r =>
              \/ m \in rest /\ d.missing[m] = r
              \/ IsReady(d, r.type)
              \/ p.solver_error # <<>>
              \/ r \in d.unsaid
        /\ Accounted(c, o, r, places)
        => Accounted(d, p, r, rest)
<1> SUFFICES ASSUME NEW c, NEW d, NEW o, NEW p, NEW r, NEW places, NEW rest,
                    Later(c, d),
                    o.solver_error # <<>> => p.solver_error # <<>>,
                    \A m \in places : c.missing[m] = r =>
                        \/ m \in rest /\ d.missing[m] = r
                        \/ IsReady(d, r.type)
                        \/ p.solver_error # <<>>
                        \/ r \in d.unsaid,
                    Accounted(c, o, r, places)
             PROVE  Accounted(d, p, r, rest)
  OBVIOUS
<1>1. CASE o.solver_error # <<>>
  BY <1>1 DEF Accounted
<1>2. CASE r \in c.unsaid
  BY <1>2 DEF Accounted, Later
<1>3. CASE IsReady(c, r.type)
  BY <1>3 DEF Accounted, Later
<1>4. CASE \E m \in places : c.missing[m] = r
  BY <1>4 DEF Accounted
<1> QED BY <1>1, <1>2, <1>3, <1>4 DEF Accounted

\* The same for all the requests of a call at once.
LEMMA AllAccountedGrows ==
    ASSUME NEW c \in Calls, NEW d, NEW o, NEW p, NEW places, NEW rest,
           Later(c, d),
           o.solver_error # <<>> => p.solver_error # <<>>,
           \A m \in places :
               \/ m \in rest /\ d.missing[m] = c.missing[m]
               \/ IsReady(d, c.missing[m].type)
               \/ p.solver_error # <<>>
               \/ c.missing[m] \in d.unsaid,
           AllAccounted(c, o, places)
    PROVE  AllAccounted(d, p, rest)
<1> SUFFICES ASSUME NEW r \in Asked(d), r.type \in CachedTypes
             PROVE  Accounted(d, p, r, rest)
  BY DEF AllAccounted
<1>1. r \in Asked(c)
  BY KinAsksTheSame DEF Later
<1>2. Accounted(c, o, r, places)
  BY <1>1 DEF AllAccounted
<1>3. \A m \in places : c.missing[m] = r =>
        \/ m \in rest /\ d.missing[m] = r
        \/ IsReady(d, r.type)
        \/ p.solver_error # <<>>
        \/ r \in d.unsaid
  OBVIOUS
<1> QED BY <1>2, <1>3, AccountedGrows

\* A step before the first answer is written leaves both URLs alone, and they
\* are the same.
LEMMA UrlsKept ==
    \A c, d, o, p, l, after :
        /\ Kin(c, d) /\ d.current = c.current /\ d.sets = c.sets
        /\ p.decoded_url = o.decoded_url
        /\ l \notin {"apply", "idle"} /\ UrlsFaithful(l, c, o)
        => UrlsFaithful(after, d, p)
<1> SUFFICES ASSUME NEW c, NEW d, NEW o, NEW p, NEW l, NEW after,
                    Kin(c, d), d.current = c.current, d.sets = c.sets,
                    p.decoded_url = o.decoded_url,
                    l \notin {"apply", "idle"}, UrlsFaithful(l, c, o)
             PROVE  UrlsFaithful(after, d, p)
  OBVIOUS
<1>1. d.fmt = c.fmt
  BY DEF Kin
<1>2. \A url, k : UrlFaithful(d, url, k) <=> UrlFaithful(c, url, k)
  BY KinAsksTheSame
<1>3. p.decoded_url = c.current /\ d.current = c.current /\ d.sets = c.sets
  BY DEF UrlsFaithful
<1>4. OnePlayerPerThread /\ c.fmt.url # Absent => UrlFaithful(c, c.current, c.sets)
  BY DEF UrlsFaithful
<1>5. OnePlayerPerThread /\ d.fmt.url # Absent => UrlFaithful(d, c.current, c.sets)
  BY <1>1, <1>2, <1>4
<1> QED BY <1>3, <1>5 DEF UrlsFaithful

\* Nothing new is missing or ready: the call is still about its requests.
LEMMA RequestedKept ==
    \A c, d :
        /\ Kin(c, d) /\ d.missing = c.missing /\ d.ready = c.ready
        /\ c.unsaid \subseteq d.unsaid
        => Later(c, d) /\ (Requested(c) => Requested(d))
<1> SUFFICES ASSUME NEW c, NEW d, Kin(c, d), d.missing = c.missing, d.ready = c.ready,
                    c.unsaid \subseteq d.unsaid
             PROVE  Later(c, d) /\ (Requested(c) => Requested(d))
  OBVIOUS
<1>1. Later(c, d)
  BY DEF Later, IsReady
<1>2. d.fmt = c.fmt /\ Asked(d) = Asked(c)
  BY KinAsksTheSame DEF Kin
<1>3. \A kv : AnswersOne(d, kv) <=> AnswersOne(c, kv)
  BY KinAsksTheSame
<1> QED BY <1>1, <1>2, <1>3 DEF Requested

\* An answer to one of the requests becomes ready.
LEMMA ReadyAdded ==
    ASSUME NEW c \in Calls, NEW d, NEW kv \in ReadyPairs,
           Kin(c, d), d.unsaid = c.unsaid,
           d.missing = c.missing, d.ready = Append(c.ready, kv)
    PROVE  /\ Later(c, d)
           /\ IsReady(d, kv.type)
           /\ Requested(c) /\ AnswersOne(c, kv) => Requested(d)
<1> DEFINE n == Len(c.ready)
<1>1. c.ready \in Seq(ReadyPairs)
  BY DEF Calls
<1>2. n \in Nat
  BY <1>1, LenProperties
<1>3. /\ Len(d.ready) = n + 1
      /\ \A j \in 1..n : d.ready[j] = c.ready[j]
      /\ d.ready[n + 1] = kv
  BY <1>1, AppendProperties
<1> HIDE DEF n
<1>4. \A j \in 1..n : j \in 1..(n + 1)
  BY <1>2
<1>5. n + 1 \in 1..(n + 1)
  BY <1>2
<1>6. Later(c, d)
  BY <1>3, <1>4 DEF Later, IsReady, n
<1>7. IsReady(d, kv.type)
  BY <1>3, <1>5 DEF IsReady
<1>8. ASSUME Requested(c), AnswersOne(c, kv) PROVE Requested(d)
  <2>1. d.fmt = c.fmt /\ Asked(d) = Asked(c)
    BY KinAsksTheSame DEF Kin
  <2>2. \A w : AnswersOne(d, w) <=> AnswersOne(c, w)
    BY KinAsksTheSame
  <2>3. ASSUME NEW j \in 1..Len(d.ready) PROVE AnswersOne(d, d.ready[j])
    <3>1. j \in 1..n \/ j = n + 1
      BY <1>2, <1>3
    <3> QED BY <3>1, <2>2, <1>3, <1>8 DEF Requested, n
  <2> QED BY <2>1, <2>3, <1>8 DEF Requested
<1> QED BY <1>6, <1>7, <1>8

\* One of the requests is found missing.
LEMMA MissingAdded ==
    ASSUME NEW c \in Calls, NEW d, NEW r \in Requests,
           Kin(c, d), d.unsaid = c.unsaid,
           d.ready = c.ready, d.missing = Append(c.missing, r)
    PROVE  /\ Later(c, d)
           /\ \A m \in Everywhere(c) : m \in Everywhere(d) /\ d.missing[m] = c.missing[m]
           /\ \E m \in Everywhere(d) : d.missing[m] = r
           /\ Requested(c) /\ r \in Asked(c) => Requested(d)
<1> DEFINE n == Len(c.missing)
<1>1. c.missing \in Seq(Requests)
  BY DEF Calls
<1>2. n \in Nat
  BY <1>1, LenProperties
<1>3. /\ Len(d.missing) = n + 1
      /\ \A j \in 1..n : d.missing[j] = c.missing[j]
      /\ d.missing[n + 1] = r
  BY <1>1, AppendProperties
<1> HIDE DEF n
<1>4. \A j \in 1..n : j \in 1..(n + 1)
  BY <1>2
<1>5. n + 1 \in 1..(n + 1)
  BY <1>2
<1>6. Later(c, d)
  BY DEF Later, IsReady
<1>7. \A m \in Everywhere(c) : m \in Everywhere(d) /\ d.missing[m] = c.missing[m]
  BY <1>3, <1>4 DEF Everywhere, n
<1>8. \E m \in Everywhere(d) : d.missing[m] = r
  BY <1>3, <1>5 DEF Everywhere
<1>9. ASSUME Requested(c), r \in Asked(c) PROVE Requested(d)
  <2>1. d.fmt = c.fmt /\ Asked(d) = Asked(c)
    BY KinAsksTheSame DEF Kin
  <2>2. \A w : AnswersOne(d, w) <=> AnswersOne(c, w)
    BY KinAsksTheSame
  <2>3. ASSUME NEW j \in 1..Len(d.missing) PROVE d.missing[j] \in Asked(d)
    <3>1. j \in 1..n \/ j = n + 1
      BY <1>2, <1>3
    <3> QED BY <3>1, <2>1, <1>3, <1>9 DEF Requested, n
  <2> QED BY <2>1, <2>2, <2>3, <1>9 DEF Requested
<1> QED BY <1>6, <1>7, <1>8, <1>9

(***************************************************************************)
(* Each step of a call keeps Work.                                         *)
(***************************************************************************)

\* One request has been looked up, and it is accounted for.
LEMMA WorkLookup ==
    ASSUME NEW c \in Calls, NEW d, NEW o, NEW p,
           Work("lookup", c, o), c.i <= Len(c.fmt.requests),
           Later(c, d), d.i = c.i + 1, d.current = c.current, d.sets = c.sets,
           p.decoded_url = o.decoded_url, o.solver_error # <<>> => p.solver_error # <<>>,
           Requested(c) => Requested(d),
           \A m \in Everywhere(c) : m \in Everywhere(d) /\ d.missing[m] = c.missing[m],
           LET r == c.fmt.requests[c.i] IN
               r.type \in CachedTypes => Accounted(d, p, r, Everywhere(d))
    PROVE  Work("lookup", d, p)
<1>1. Requested(d)
  BY DEF Work
<1>2. UrlsFaithful("lookup", d, p)
  BY UrlsKept DEF Work, Later
<1>3. d.fmt = c.fmt
  BY DEF Later, Kin
<1>4. ASSUME NEW j \in 1..Len(c.fmt.requests), j < c.i + 1, c.fmt.requests[j].type \in CachedTypes
      PROVE  Accounted(d, p, c.fmt.requests[j], Everywhere(d))
  <2>1. c.i \in Nat \ {0}
    BY DEF Calls
  <2>2. CASE j = c.i
    BY <2>2, <1>4
  <2>3. CASE j < c.i
    <3>1. Accounted(c, o, c.fmt.requests[j], Everywhere(c))
      BY <1>4, <2>3 DEF Work, Accounts
    <3>2. \A m \in Everywhere(c) : c.missing[m] = c.fmt.requests[j] =>
             m \in Everywhere(d) /\ d.missing[m] = c.fmt.requests[j]
      OBVIOUS
    <3> QED BY <3>1, <3>2, AccountedGrows
  <2>4. j \in Nat
    BY <1>4
  <2> QED BY <1>4, <2>1, <2>2, <2>3, <2>4
<1>5. Accounts("lookup", d, p)
  BY <1>3, <1>4 DEF Accounts
<1> QED BY <1>1, <1>2, <1>5 DEF Work

\* A step that only moves on, with the same values in every local but i,
\* responses and unsaid and the same result.
Moves(c, d) ==
    /\ Kin(c, d) /\ d.missing = c.missing /\ d.ready = c.ready
    /\ d.current = c.current /\ d.sets = c.sets /\ c.unsaid \subseteq d.unsaid

\* The first critical section is entered.
LEMMA WorkLockForLookup ==
    ASSUME NEW c \in Calls, NEW o, Work("lookup_lock", c, o)
    PROVE  Work("lookup", c, o)
<1>1. c.i = 1
  BY DEF Work, Accounts
<1>2. UrlsFaithful("lookup", c, o)
  BY UrlsKept DEF Work, Kin
<1>3. \A j \in 1..Len(c.fmt.requests) : ~(j < 1)
  OBVIOUS
<1>4. Accounts("lookup", c, o)
  BY <1>1, <1>3 DEF Accounts
<1> QED BY <1>2, <1>4 DEF Work

\* The lookup ends: all the requests have been looked up.
LEMMA WorkLookupDone ==
    ASSUME NEW c \in Calls, NEW d \in Calls, NEW o,
           Work("lookup", c, o), c.i > Len(c.fmt.requests),
           Moves(c, d), d.i = 1
    PROVE  /\ Work("engine", d, o)
           /\ c.missing = <<>> => Work("apply", d, o)
<1>1. Later(c, d) /\ Requested(d)
  BY RequestedKept DEF Moves, Work
<1>2. UrlsFaithful("engine", d, o) /\ UrlsFaithful("apply", d, o)
  BY UrlsKept DEF Work, Moves
<1>3. AllAccounted(c, o, Everywhere(c))
  <2> SUFFICES ASSUME NEW r \in Asked(c), r.type \in CachedTypes
               PROVE  Accounted(c, o, r, Everywhere(c))
    BY DEF AllAccounted
  <2>1. PICK j \in 1..Len(c.fmt.requests) : r = c.fmt.requests[j]
    BY DEF Asked
  <2>2. c.fmt \in Formats /\ c.i \in Nat
    BY DEF Calls
  <2>3. c.fmt.requests \in Seq(Requests)
    BY <2>2, ConstantsAssumption
  <2>4. Len(c.fmt.requests) \in Nat
    BY <2>3, LenProperties
  <2>5. j < c.i
    BY <2>1, <2>2, <2>4
  <2> QED BY <2>1, <2>5 DEF Work, Accounts
<1>4. Everywhere(d) = Everywhere(c) /\ d.missing = c.missing
  BY DEF Everywhere, Moves
<1>5. AllAccounted(d, o, Everywhere(d))
  BY <1>1, <1>3, <1>4, AllAccountedGrows
<1>6. Work("engine", d, o)
  BY <1>1, <1>2, <1>5 DEF Work, Accounts
<1>7. ASSUME c.missing = <<>> PROVE Work("apply", d, o)
  <2>1. Everywhere(d) = {}
    BY <1>4, <1>7 DEF Everywhere
  <2>2. AllAccounted(d, o, {})
    BY <2>1, <1>5
  <2>3. \A m \in 1..Len(d.ready) : ~(m < d.i)
    OBVIOUS
  <2>4. Accounts("apply", d, o)
    BY <2>2, <2>3 DEF Accounts
  <2> QED BY <1>1, <1>2, <2>4 DEF Work
<1> QED BY <1>6, <1>7

\* The engine is there and is run; what it replies changes nothing yet.
LEMMA WorkSolve ==
    ASSUME NEW c \in Calls, NEW d, NEW o, NEW l \in {"engine", "solve"},
           NEW after \in {"solve", "store_lock"}, Work(l, c, o), Moves(c, d), d.i = c.i
    PROVE  Work(after, d, o)
<1>1. Later(c, d) /\ Requested(d)
  BY RequestedKept DEF Moves, Work
<1>2. UrlsFaithful(after, d, o)
  BY UrlsKept DEF Work, Moves
<1>3. c.i = 1 /\ AllAccounted(c, o, Everywhere(c))
  BY DEF Work, Accounts
<1>4. Everywhere(d) = Everywhere(c) /\ d.missing = c.missing
  BY DEF Everywhere, Moves
<1>5. AllAccounted(d, o, Everywhere(d))
  BY <1>1, <1>3, <1>4, AllAccountedGrows
<1>6. Accounts(after, d, o)
  BY <1>3, <1>5 DEF Accounts
<1> QED BY <1>1, <1>2, <1>6 DEF Work

\* The engine throws: the URL is left alone, and the error says so unless
\* nothing at all was said.
LEMMA WorkCatch ==
    ASSUME NEW c, NEW d, NEW o, NEW p, NEW l \in {"engine", "solve"}, Work(l, c, o),
           Kin(c, d), d.current = c.current, d.sets = c.sets,
           p.decoded_url = o.decoded_url, p.solver_error # <<>> \/ d.unsaid = Asked(d)
    PROVE  Work("idle", d, p)
<1>1. UrlsFaithful("idle", d, p)
  BY UrlsKept DEF Work
<1>2. Accounts("idle", d, p)
  BY DEF Accounts, Dropped
<1> QED BY <1>1, <1>2 DEF Work

\* The second critical section is entered.
LEMMA WorkLockForStore ==
    ASSUME NEW c \in Calls, NEW o, Work("store_lock", c, o)
    PROVE  Work("store", c, o)
<1>1. Later(c, c)
  BY DEF Later, Kin
<1>2. UrlsFaithful("store", c, o)
  BY UrlsKept DEF Work, Kin
<1>3. c.i = 1 /\ AllAccounted(c, o, Everywhere(c))
  BY DEF Work, Accounts
<1>4. \A m \in Everywhere(c) : m \in NotStored(c)
  BY <1>3 DEF Everywhere, NotStored
<1>5. AllAccounted(c, o, NotStored(c))
  BY <1>1, <1>3, <1>4, AllAccountedGrows
<1>6. Accounts("store", c, o)
  BY <1>5 DEF Accounts
<1> QED BY <1>2, <1>6 DEF Work

\* One reply has been dealt with: its request is answered, complained about
\* or one that nothing was said about.
LEMMA WorkStore ==
    ASSUME NEW c \in Calls, NEW d, NEW o, NEW p,
           Work("store", c, o),
           Later(c, d), d.i = c.i + 1, d.current = c.current, d.sets = c.sets,
           d.missing = c.missing,
           p.decoded_url = o.decoded_url, o.solver_error # <<>> => p.solver_error # <<>>,
           Requested(c) => Requested(d),
           \/ IsReady(d, c.missing[c.i].type)
           \/ p.solver_error # <<>>
           \/ c.missing[c.i] \in d.unsaid
    PROVE  Work("store", d, p)
<1>1. Requested(d)
  BY DEF Work
<1>2. UrlsFaithful("store", d, p)
  BY UrlsKept DEF Work, Later
<1>3. AllAccounted(c, o, NotStored(c))
  BY DEF Work, Accounts
<1>4. ASSUME NEW m \in NotStored(c)
      PROVE  \/ m \in NotStored(d) /\ d.missing[m] = c.missing[m]
             \/ IsReady(d, c.missing[m].type)
             \/ p.solver_error # <<>>
             \/ c.missing[m] \in d.unsaid
  <2>1. m \in 1..Len(c.missing) /\ m >= c.i
    BY DEF NotStored
  <2>2. c.i \in Nat /\ m \in Nat
    BY <2>1 DEF Calls
  <2>3. CASE m = c.i
    BY <2>3
  <2>4. CASE m # c.i
    <3>1. m >= c.i + 1
      BY <2>1, <2>2, <2>4
    <3> QED BY <2>1, <3>1 DEF NotStored
  <2> QED BY <2>3, <2>4
<1>5. AllAccounted(d, p, NotStored(d))
  BY <1>3, <1>4, AllAccountedGrows
<1>6. Accounts("store", d, p)
  BY <1>5 DEF Accounts
<1> QED BY <1>1, <1>2, <1>6 DEF Work

\* The stores end, at the last request or at the last reply; what has got no
\* reply is one that nothing was said about.
LEMMA WorkStoreDone ==
    ASSUME NEW c \in Calls, NEW d, NEW o, Work("store", c, o),
           c.i > Len(c.missing) \/ c.i > Len(c.responses),
           Moves(c, d), NoReply(c) \subseteq d.unsaid, d.i = 1
    PROVE  Work("apply", d, o)
<1>1. Later(c, d) /\ Requested(d)
  BY RequestedKept DEF Moves, Work
<1>2. UrlsFaithful("apply", d, o)
  BY UrlsKept DEF Work, Moves
<1>3. AllAccounted(c, o, NotStored(c))
  BY DEF Work, Accounts
<1>4. ASSUME NEW m \in NotStored(c)
      PROVE  c.missing[m] \in d.unsaid
  <2>1. m \in 1..Len(c.missing) /\ m >= c.i
    BY DEF NotStored
  <2>2. /\ c.i \in Nat /\ m \in Nat
        /\ c.missing \in Seq(Requests) /\ c.responses \in Seq(SolverResponses)
    BY <2>1 DEF Calls
  <2>3. Len(c.missing) \in Nat /\ Len(c.responses) \in Nat
    BY <2>2, LenProperties
  <2>4. m \in (Len(c.responses) + 1)..Len(c.missing)
    BY <2>1, <2>2, <2>3
  <2>5. c.missing[m] \in NoReply(c)
    BY <2>4 DEF NoReply
  <2> QED BY <2>5
<1>5. AllAccounted(d, o, {})
  BY <1>1, <1>3, <1>4, AllAccountedGrows
<1>6. \A m \in 1..Len(d.ready) : ~(m < d.i)
  OBVIOUS
<1>7. Accounts("apply", d, o)
  BY <1>5, <1>6 DEF Accounts
<1> QED BY <1>1, <1>2, <1>7 DEF Work

(***************************************************************************)
(* What rewriting the URL leaves.                                          *)
(***************************************************************************)

\* A name that is not decoded stays as it is.
LEMMA BecomesZero ==
    ASSUME NEW x \in ParamNames
    PROVE  Becomes(0, x, x)
<1> DEFINE s == [i \in 0..0 |-> x]
<1>1. s \in [0..0 -> ParamNames] /\ s[0] = x
  OBVIOUS
<1>2. 1..0 = {}
  OBVIOUS
<1> HIDE DEF s
<1> QED BY <1>1, <1>2 DEF Becomes

\* One more decoding.
LEMMA BecomesMore ==
    ASSUME NEW k \in Nat, NEW y, NEW x, Becomes(k, y, x)
    PROVE  /\ Becomes(k + 1, y, Once[x])
           /\ x \in ParamNames /\ Once[x] \in ParamNames
<1>1. PICK s \in [0..k -> ParamNames] :
         s[0] = y /\ s[k] = x /\ \A i \in 1..k : s[i] = Once[s[i - 1]]
  BY DEF Becomes
<1>2. k \in 0..k /\ 0 \in 0..k
  OBVIOUS
<1>3. x \in ParamNames
  BY <1>1, <1>2
<1>4. Once[x] \in ParamNames
  BY <1>3, ConstantsAssumption
<1> DEFINE n == k + 1
           w == [i \in 0..n |-> IF i = n THEN Once[x] ELSE s[i]]
<1>5. n \in Nat /\ \A i \in 0..n : i = n \/ i \in 0..k
  OBVIOUS
<1>6. 0 # n /\ n \in 0..n /\ 0 \in 0..n
  OBVIOUS
<1>7. \A i \in 1..n : i \in 0..n /\ i - 1 \in 0..k /\ i - 1 \in 0..n /\ i - 1 # n
  OBVIOUS
<1>8. ASSUME NEW i \in 1..n PROVE (i = n /\ i - 1 = k) \/ (i # n /\ i \in 1..k)
  <2>1. i \in Nat /\ 1 <= i /\ i <= k + 1 /\ i - 1 \in Nat
    OBVIOUS
  <2>2. i = k + 1 => i - 1 = k
    OBVIOUS
  <2>3. i # k + 1 => i \in 1..k
    BY <2>1
  <2> QED BY <2>2, <2>3
<1> HIDE DEF n
<1>9. w \in [0..n -> ParamNames]
  BY <1>1, <1>4, <1>5
<1>10. w[0] = y /\ w[n] = Once[x]
  BY <1>1, <1>6
<1>11. ASSUME NEW i \in 1..n PROVE w[i] = Once[w[i - 1]]
  <2>1. w[i - 1] = s[i - 1]
    BY <1>7
  <2>2. CASE i = n /\ i - 1 = k
    BY <2>1, <2>2, <1>1, <1>10
  <2>3. CASE i # n /\ i \in 1..k
    <3>1. w[i] = s[i]
      BY <2>3, <1>7
    <3> QED BY <2>1, <2>3, <3>1, <1>1
  <2> QED BY <2>2, <2>3, <1>8
<1> HIDE DEF w
<1>12. Becomes(n, y, Once[x])
  BY <1>9, <1>10, <1>11 DEF Becomes
<1> QED BY <1>3, <1>4, <1>12 DEF n

\* The caller's URL is faithful to itself.
LEMMA FaithfulStart ==
    ASSUME NEW c, c.fmt.url \in Urls
    PROVE  UrlFaithful(c, c.fmt.url, 0)
<1> DEFINE url == c.fmt.url
<1>1. ASSUME NEW x \in ParamNames, url.value[x] # Absent
      PROVE  Kept(c, url, 0, x)
  <2>1. url.value[x] \in Texts
    BY <1>1 DEF Urls
  <2>2. url.value[x].passes \in Nat
    BY <2>1 DEF Texts
  <2>3. url.value[x].passes = url.value[x].passes + 0
    BY <2>2
  <2>4. Becomes(0, x, x)
    BY BecomesZero
  <2> QED BY <1>1, <2>3, <2>4 DEF Kept
<1>2. ASSUME NEW y \in ParamNames, url.value[y] # Absent
      PROVE  \E x \in ParamNames : url.value[x] # Absent /\ Becomes(0, y, x)
  BY <1>2, BecomesZero
<1> QED BY <1>1, <1>2 DEF UrlFaithful

\* A text is there.
LEMMA TextIsThere == \A x : x \in Texts => x # Absent
BY ConstantsAssumption

\* Writing an answer to a request keeps a URL faithful, rewritten once more.
LEMMA FaithfulSet ==
    ASSUME NEW c, c.fmt.url \in Urls, NEW url \in Urls, NEW k \in Nat, UrlFaithful(c, url, k),
           NEW r \in Asked(c), r.type \in CachedTypes, NEW data \in Data,
           data \in AnswersTo(c, r), ParamFor(c.fmt, r.type) \in ParamNames
    PROVE  UrlFaithful(c, SetParam(url, ParamFor(c.fmt, r.type), data), k + 1)
<1> DEFINE key == ParamFor(c.fmt, r.type)
           new == SetParam(url, key, data)
           n == k + 1
<1>1. /\ n \in Nat /\ 0 \in 0..n /\ 0 < n
      /\ \A j \in 0..k : j < k => j + 1 \in 0..n /\ j + 1 < n /\ j \in Nat
  OBVIOUS
<1>2. ASSUME NEW x \in ParamNames
      PROVE  LET y == LastOf(url, x) IN
             /\ x = key => new.value[x] = [data |-> data, passes |-> 0]
             /\ x # key /\ Sources(url, x) = {} => new.value[x] = Absent
             /\ x # key /\ Sources(url, x) # {} =>
                   /\ y \in ParamNames /\ url.value[y] \in Texts /\ Once[y] = x
                   /\ new.value[x] \in Texts
                   /\ new.value[x].data = url.value[y].data
                   /\ new.value[x].passes = url.value[y].passes + 1
  BY SetParamIs
<1> HIDE DEF new, n
<1>3. ASSUME NEW x \in ParamNames, new.value[x] # Absent
      PROVE  Kept(c, new, n, x) \/ Written(c, new, n, x)
  <2>1. CASE x = key
    <3>1. new.value[x].data = data /\ new.value[x].passes = 0
      BY <1>2, <2>1
    <3>2. Becomes(0, key, x)
      BY <2>1, BecomesZero
    <3> QED BY <1>1, <3>1, <3>2 DEF Written
  <2>2. CASE x # key
    <3> DEFINE y == LastOf(url, x)
    <3>1. /\ y \in ParamNames /\ url.value[y] \in Texts /\ Once[y] = x
          /\ new.value[x].data = url.value[y].data
          /\ new.value[x].passes = url.value[y].passes + 1
      BY <1>2, <1>3, <2>2
    <3> HIDE DEF y
    <3>2. Kept(c, url, k, y) \/ Written(c, url, k, y)
      BY <3>1, TextIsThere DEF UrlFaithful
    <3>3. CASE Kept(c, url, k, y)
      <4>1. PICK z \in ParamNames :
               /\ c.fmt.url.value[z] # Absent
               /\ url.value[y].data = c.fmt.url.value[z].data
               /\ url.value[y].passes = c.fmt.url.value[z].passes + k
               /\ Becomes(k, z, y)
        BY <3>3 DEF Kept
      <4>2. c.fmt.url.value[z] \in Texts
        BY <4>1 DEF Urls
      <4>3. c.fmt.url.value[z].passes \in Nat
        BY <4>2 DEF Texts
      <4>4. new.value[x].passes = c.fmt.url.value[z].passes + n
        BY <3>1, <4>1, <4>3 DEF n
      <4>5. Becomes(n, z, x)
        BY <3>1, <4>1, BecomesMore DEF n
      <4> QED BY <3>1, <4>1, <4>4, <4>5 DEF Kept
    <3>4. CASE Written(c, url, k, y)
      <4>1. PICK q \in Asked(c), j \in 0..k :
               /\ q.type \in CachedTypes /\ j < k
               /\ url.value[y].data \in AnswersTo(c, q)
               /\ url.value[y].passes = j
               /\ Becomes(j, ParamFor(c.fmt, q.type), y)
        BY <3>4 DEF Written
      <4>2. j + 1 \in 0..n /\ j + 1 < n /\ j \in Nat
        BY <1>1, <4>1
      <4>3. Becomes(j + 1, ParamFor(c.fmt, q.type), x)
        BY <3>1, <4>1, <4>2, BecomesMore
      <4> QED BY <3>1, <4>1, <4>2, <4>3 DEF Written
    <3> QED BY <3>2, <3>3, <3>4
  <2> QED BY <2>1, <2>2
<1>4. ASSUME NEW z \in ParamNames, c.fmt.url.value[z] # Absent
      PROVE  \E x \in ParamNames : new.value[x] # Absent /\ Becomes(n, z, x)
  <2>1. PICK y \in ParamNames : url.value[y] # Absent /\ Becomes(k, z, y)
    BY <1>4 DEF UrlFaithful
  <2>2. Once[y] \in ParamNames /\ Becomes(n, z, Once[y])
    BY <2>1, BecomesMore DEF n
  <2>3. y \in Sources(url, Once[y])
    BY <2>1 DEF Sources
  <2>4. [data |-> data, passes |-> 0] \in Texts
    BY DEF Texts
  <2>5. new.value[Once[y]] \in Texts
    BY <2>2, <2>3, <2>4, <1>2
  <2> QED BY <2>2, <2>5, TextIsThere
<1> QED BY <1>3, <1>4 DEF UrlFaithful, new, n

\* set_or_replace_query_param writes its parameter.
LEMMA SetParamWrites ==
    ASSUME NEW url \in Urls, NEW key \in ParamNames, NEW data \in Data
    PROVE  LET new == SetParam(url, key, data).value[key] IN
           new # Absent /\ new.data = data
<1>1. SetParam(url, key, data).value[key] = [data |-> data, passes |-> 0]
  BY SetParamIs
<1>2. [data |-> data, passes |-> 0] \in Texts
  BY DEF Texts
<1>3. [data |-> data, passes |-> 0].data = data
  OBVIOUS
<1> QED BY <1>1, <1>2, <1>3, TextIsThere

\* It keeps what another parameter with a plain name says, once the query is
\* in the order of the map: whatever else gets that name comes before it.
LEMMA SetParamKeepsPlain ==
    ASSUME NEW url \in Urls, url.place = Order, NEW key \in ParamNames, NEW data \in Data,
           NEW x \in ParamNames, x # key, Plain(x), url.value[x] # Absent
    PROVE  LET new == SetParam(url, key, data).value[x] IN
           new # Absent /\ new.data = url.value[x].data
<1> DEFINE y == LastOf(url, x)
           new == SetParam(url, key, data).value[x]
<1>1. x \in Sources(url, x)
  BY DEF Sources, Plain
<1>2. Sources(url, x) # {}
  BY <1>1
<1>3. y \in Sources(url, x) /\ url.place[y] <= url.place[x]
  BY <1>1, LastOfIs
<1>4. y \in ParamNames /\ Once[y] = x
  BY <1>3 DEF Sources
<1>5. /\ x = key => new = [data |-> data, passes |-> 0]
      /\ x # key /\ Sources(url, x) = {} => new = Absent
      /\ x # key /\ Sources(url, x) # {} =>
            /\ y \in ParamNames /\ url.value[y] \in Texts /\ Once[y] = x
            /\ new \in Texts
            /\ new.data = url.value[y].data
            /\ new.passes = url.value[y].passes + 1
  BY SetParamIs
<1>6. Order[x] \in Nat /\ Order[y] \in Nat
  BY <1>4, ConstantsAssumption
<1> HIDE DEF y, new
<1>7. y = x
  <2>1. y # x => Order[x] < Order[y]
    BY <1>4 DEF Plain
  <2> QED BY <2>1, <1>3, <1>6
<1>8. new # Absent /\ new.data = url.value[x].data
  BY <1>2, <1>5, <1>7, TextIsThere
<1> QED BY <1>8 DEF new

\* An answer to a request of the call is one for the parameter it goes to.
LEMMA AnswerIsForItsParam ==
    ASSUME NEW c \in Calls, NEW kv, AnswersOne(c, kv), kv.type \in CachedTypes
    PROVE  /\ AskedFor(c, ParamFor(c.fmt, kv.type)) # {}
           /\ OnePlayerPerThread => kv.data \in AnswersFor(c, ParamFor(c.fmt, kv.type))
<1> DEFINE x == ParamFor(c.fmt, kv.type)
<1>1. PICK r \in Asked(c) :
        kv.type = r.type /\ (OnePlayerPerThread => kv.data \in AnswersTo(c, r))
  BY DEF AnswersOne
<1>2. r \in AskedFor(c, x)
  BY <1>1 DEF AskedFor
<1>3. OnePlayerPerThread => kv.data \in {EmptyText, Solution(PlayerOf[c.assets], r)}
  BY <1>1 DEF AnswersTo
<1>4. EmptyText \in AnswersFor(c, x) /\ Solution(PlayerOf[c.assets], r) \in AnswersFor(c, x)
  BY <1>2 DEF AnswersFor
<1> QED BY <1>2, <1>3, <1>4

\* One ready value is written into the URL.
LEMMA WorkApply ==
    ASSUME NEW c \in Calls, NEW d \in Calls, NEW o, Work("apply", c, o),
           c.current \in Urls, c.i <= Len(c.ready), Kin(c, d), d.i = c.i + 1,
           d.missing = c.missing, d.ready = c.ready, d.unsaid = c.unsaid,
           LET kv == c.ready[c.i] IN
               \/ /\ kv.type \in CachedTypes
                  /\ d.current = SetParam(c.current, ParamFor(c.fmt, kv.type), kv.data)
                  /\ d.sets = c.sets + 1
               \/ /\ kv.type \notin CachedTypes
                  /\ d.current = c.current /\ d.sets = c.sets
    PROVE  Work("apply", d, o)
<1> DEFINE kv == c.ready[c.i]
           x == ParamFor(c.fmt, kv.type)
<1>1. Later(c, d) /\ Requested(d)
  BY RequestedKept DEF Work
<1>2. /\ c.i \in Nat \ {0} /\ c.ready \in Seq(ReadyPairs) /\ c.fmt \in Formats
      /\ c.sets \in Nat
  BY DEF Calls
<1>3. c.i \in 1..Len(c.ready)
  BY <1>2, LenProperties
<1>4. kv \in ReadyPairs
  BY <1>2, <1>3, ElementOfSeq
<1>5. kv.data \in Data
  BY <1>4 DEF ReadyPairs
<1>6. AnswersOne(c, kv)
  BY <1>3 DEF Work, Requested
<1>7. x \in ParamNames
  BY <1>2, ParamForType
<1>8. d.fmt = c.fmt
  BY DEF Kin
<1>9. \/ /\ kv.type \in CachedTypes
         /\ d.current = SetParam(c.current, x, kv.data) /\ d.sets = c.sets + 1
      \/ kv.type \notin CachedTypes /\ d.current = c.current /\ d.sets = c.sets
  OBVIOUS
<1>10. \A m \in 1..Len(c.ready) : m = c.i => c.ready[m] = kv /\ ParamFor(c.fmt, c.ready[m].type) = x
  OBVIOUS
<1>11. x = ParamFor(c.fmt, kv.type)
  OBVIOUS
<1> HIDE DEF kv, x
<1>12. UrlsFaithful("apply", d, o)
  <2> SUFFICES ASSUME OnePlayerPerThread, c.fmt.url # Absent
               PROVE  UrlFaithful(d, d.current, d.sets)
    BY <1>8 DEF UrlsFaithful
  <2>1. UrlFaithful(c, c.current, c.sets)
    BY DEF Work, UrlsFaithful
  <2>2. c.fmt.url \in Urls
    BY <1>2, ConstantsAssumption
  <2>3. UrlFaithful(c, d.current, d.sets)
    <3>1. CASE kv.type \notin CachedTypes
      BY <2>1, <3>1, <1>9
    <3>2. CASE kv.type \in CachedTypes
      <4>1. PICK r \in Asked(c) : kv.type = r.type /\ kv.data \in AnswersTo(c, r)
        BY <1>6 DEF AnswersOne
      <4>2. x = ParamFor(c.fmt, r.type)
        BY <4>1, <1>11
      <4> QED BY <2>1, <2>2, <3>2, <4>1, <4>2, <1>2, <1>5, <1>7, <1>9, FaithfulSet
    <3> QED BY <3>1, <3>2
  <2> QED BY <2>3, KinAsksTheSame
<1>13. ASSUME NEW m \in 1..Len(c.ready), m < c.i + 1, c.ready[m].type \in CachedTypes
       PROVE  /\ d.current.place = Order
              /\ Plain(ParamFor(c.fmt, c.ready[m].type)) =>
                    IsWritten(d, d.current, c.ready[m].type)
  <2> DEFINE y == ParamFor(c.fmt, c.ready[m].type)
  <2>1. y \in ParamNames
    BY <1>2, ParamForType
  <2>2. m < c.i \/ m = c.i
    BY <1>2, <1>13
  <2>3. m < c.i => /\ c.current.place = Order
                   /\ Plain(y) => IsWritten(c, c.current, c.ready[m].type)
    BY <1>13 DEF Work, Accounts
  <2>4. m = c.i => y = x /\ kv.type \in CachedTypes
    BY <1>10, <1>13
  <2>5. CASE kv.type \notin CachedTypes
    BY <2>2, <2>3, <2>4, <2>5, <1>9, KinAsksTheSame
  <2>6. CASE kv.type \in CachedTypes
    <3>1. d.current = SetParam(c.current, x, kv.data)
      BY <2>6, <1>9
    <3>2. d.current.place = Order
      BY <3>1, <1>5, <1>7, SetParamType
    <3>3. CASE y = x
      <4>1. d.current.value[x] # Absent /\ d.current.value[x].data = kv.data
        BY <3>1, <1>5, <1>7, SetParamWrites
      <4>2. OnePlayerPerThread => kv.data \in AnswersFor(c, x)
        BY <2>6, <1>6, <1>11, AnswerIsForItsParam
      <4>3. IsWritten(c, d.current, c.ready[m].type)
        BY <3>3, <4>1, <4>2, <1>5 DEF IsWritten
      <4> QED BY <3>2, <4>3, KinAsksTheSame
    <3>4. CASE y # x
      <4> SUFFICES ASSUME Plain(y) PROVE IsWritten(c, d.current, c.ready[m].type)
        BY <3>2, KinAsksTheSame
      <4>1. c.current.place = Order /\ IsWritten(c, c.current, c.ready[m].type)
        BY <2>2, <2>3, <2>4, <3>4
      <4>2. c.current.value[y] # Absent
        BY <4>1 DEF IsWritten
      <4>3. d.current.value[y] # Absent /\ d.current.value[y].data = c.current.value[y].data
        BY <2>1, <3>1, <3>4, <4>1, <4>2, <1>5, <1>7, SetParamKeepsPlain
      <4> QED BY <4>1, <4>3 DEF IsWritten
    <3> QED BY <3>3, <3>4
  <2> QED BY <2>5, <2>6
<1>14. AllAccounted(d, o, {})
  <2>1. AllAccounted(c, o, {})
    BY DEF Work, Accounts
  <2> QED BY <2>1, <1>1, AllAccountedGrows
<1>15. Accounts("apply", d, o)
  BY <1>8, <1>13, <1>14 DEF Accounts
<1> QED BY <1>1, <1>12, <1>15 DEF Work

\* The URL is put into the result: all that was ready is written by now.
LEMMA WorkApplyDone ==
    ASSUME NEW c \in Calls, NEW o, NEW p, Work("apply", c, o),
           c.i > Len(c.ready), p.decoded_url = c.current, p.solver_error = o.solver_error
    PROVE  Work("idle", c, p)
<1>1. UrlsFaithful("idle", c, p)
  BY DEF Work, UrlsFaithful
<1>2. ASSUME o.solver_error = <<>>, NEW r \in Asked(c), r.type \in CachedTypes
      PROVE  Dropped(c, r) \/ IsWritten(c, c.current, r.type)
  <2>1. Accounted(c, o, r, {})
    BY <1>2 DEF Work, Accounts, AllAccounted
  <2>2. CASE r \in c.unsaid
    BY <2>2 DEF Dropped
  <2>3. CASE IsReady(c, r.type)
    <3>1. PICK m \in 1..Len(c.ready) : c.ready[m].type = r.type
      BY <2>3 DEF IsReady
    <3>2. c.i \in Nat /\ c.ready \in Seq(ReadyPairs)
      BY DEF Calls
    <3>3. m < c.i
      BY <3>1, <3>2, LenProperties
    <3> QED BY <3>1, <3>3, <1>2 DEF Work, Accounts, Dropped
  <2> QED BY <1>2, <2>1, <2>2, <2>3 DEF Accounted
<1>3. Accounts("idle", c, p)
  BY <1>2 DEF Accounts
<1> QED BY <1>1, <1>3 DEF Work

(***************************************************************************)
(* What each action does to the locals of its thread.                      *)
(***************************************************************************)

\* A step of t leaves the result of every other thread alone.
LEMMA OthersKeepResult ==
    ASSUME TypeOK, NEW t \in Threads, Acts(t), NEW u \in Threads, u # t
    PROVE  out'[u] = out[u]
<1> USE DEF TypeOK
<1>1. ASSUME NEW a \in ServedBy[t], NEW fmt \in Formats, Call(t, a, fmt)
      PROVE  out'[u] = out[u]
  BY <1>1 DEF Call, Goto
<1>2. CASE LockForLookup(t) \/ LockForStore(t)
  BY <1>2 DEF LockForLookup, LockForStore
<1>3. CASE LookupOne(t)
  BY <1>3 DEF LookupOne, FindValue, FindError
<1>4. CASE LookupDone(t) \/ StoreDone(t)
  BY <1>4 DEF LookupDone, StoreDone
<1>5. CASE GetEngine(t)
  BY <1>5 DEF GetEngine, Catch
<1>6. CASE Solve(t)
  BY <1>6 DEF Solve, Catch
<1>7. CASE StoreOne(t)
  BY <1>7 DEF StoreOne, StoredRequest
<1>8. CASE ApplyOne(t) \/ ApplyDone(t)
  BY <1>8 DEF ApplyOne, ApplyDone
<1>9. CASE ThreadExit(t)
  BY <1>9 DEF ThreadExit
<1> QED BY <1>1, <1>2, <1>3, <1>4, <1>5, <1>6, <1>7, <1>8, <1>9 DEF Acts, Step

\* A lookup finds a value, finds an error or finds nothing.
LEMMA LookupOneCases ==
    ASSUME TypeOK, NEW t \in Threads, LookupOne(t)
    PROVE  LET c == call[t]
               r == c.fmt.requests[c.i]
               v == values[c.assets][r]
               e == errors[c.assets][r]
               d == call'[t]
           IN /\ d \in Calls /\ Kin(c, d) /\ d.i = c.i + 1
              /\ d.current = c.current /\ d.sets = c.sets
              /\ \/ /\ r.type \in CachedTypes /\ v \in Data
                    /\ v # Absent /\ d.unsaid = c.unsaid
                    /\ d.ready = Append(c.ready, [type |-> r.type, data |-> v])
                    /\ d.missing = c.missing /\ out'[t] = out[t]
                 \/ /\ r.type \in CachedTypes /\ e # Absent
                    /\ d.ready = c.ready /\ d.missing = c.missing
                    /\ c.unsaid \subseteq d.unsaid /\ (e = "" => r \in d.unsaid)
                    /\ out'[t] = AddError(out[t], e)
                 \/ /\ d.ready = c.ready /\ d.missing = Append(c.missing, r)
                    /\ d.unsaid = c.unsaid /\ out'[t] = out[t]
<1> DEFINE c == call[t]
           r == c.fmt.requests[c.i]
           v == values[c.assets][r]
           e == errors[c.assets][r]
<1>1. pc[t] = "lookup" /\ c.i + 1 \in Nat \ {0} /\ r \in Requests
  BY LookupOneHas
<1>2. /\ c \in Calls /\ c.assets \in Assets
      /\ c.ready \in Seq(ReadyPairs) /\ c.missing \in Seq(Requests)
      /\ c.unsaid \in SUBSET Requests
  BY <1>1, CallType
<1>3. CASE r.type \in CachedTypes /\ v # Absent
  <2> DEFINE rd == Append(c.ready, [type |-> r.type, data |-> v])
             d == WithReady(c, c.i + 1, rd)
  <2>1. v \in Data
    <3>1. r \in Keys
      BY <1>3, <1>1, CachedIsKey
    <3>2. v \in Data \cup {Absent}
      BY <3>1, <1>2, MapEntries
    <3> QED BY <1>3, <3>2
  <2>2. [type |-> r.type, data |-> v] \in ReadyPairs
    BY <2>1, <1>1 DEF ReadyPairs, Requests
  <2>3. rd \in Seq(ReadyPairs)
    BY <2>2, <1>2, AppendProperties
  <2>4. call' = [call EXCEPT ![t] = d] /\ out' = out
    BY <1>3 DEF LookupOne, TypeOK, WithReady, FindValue, FindError
  <2>5. call'[t] = d
    BY <2>4 DEF TypeOK
  <2> HIDE DEF rd, c
  <2>6. /\ d \in Calls /\ Kin(c, d) /\ d.i = c.i + 1 /\ d.current = c.current
        /\ d.ready = rd /\ d.missing = c.missing
        /\ d.sets = c.sets /\ d.unsaid = c.unsaid
    <3>1. c \in Calls /\ c.i + 1 \in Nat \ {0}
      BY <1>1, <1>2
    <3>2. /\ d \in Calls /\ d.assets = c.assets /\ d.fmt = c.fmt /\ d.i = c.i + 1
          /\ d.current = c.current /\ d.ready = rd /\ d.missing = c.missing
          /\ d.sets = c.sets /\ d.unsaid = c.unsaid
      BY ONLY <2>3, <3>1, SetReady
    <3> QED BY ONLY <3>2 DEF Kin
  <2> HIDE DEF d
  <2> QED BY <2>1, <2>4, <2>5, <2>6, <1>3 DEF c, rd
<1>4. CASE r.type \in CachedTypes /\ v = Absent /\ e # Absent
  <2> DEFINE w == c.unsaid \cup {q \in {r} : e = ""}
             d == WithUnsaid(c, c.i + 1, w)
  <2>1. call' = [call EXCEPT ![t] = d] /\ out' = [out EXCEPT ![t] = AddError(out[t], e)]
    BY <1>4 DEF LookupOne, TypeOK, WithUnsaid, FindValue, FindError
  <2>2. call'[t] = d /\ out'[t] = AddError(out[t], e)
    BY <2>1 DEF TypeOK
  <2>3. w \in SUBSET Requests /\ c.unsaid \subseteq w /\ (e = "" => r \in w)
    BY <1>1, <1>2, Zenon
  <2> HIDE DEF w, c
  <2>4. /\ d \in Calls /\ Kin(c, d) /\ d.i = c.i + 1 /\ d.current = c.current
        /\ d.ready = c.ready /\ d.missing = c.missing
        /\ d.sets = c.sets /\ d.unsaid = w
    <3>1. c \in Calls /\ c.i + 1 \in Nat \ {0}
      BY <1>1, <1>2
    <3>2. w \in SUBSET Requests
      BY <2>3
    <3>3. /\ d \in Calls /\ d.assets = c.assets /\ d.fmt = c.fmt /\ d.i = c.i + 1
          /\ d.current = c.current /\ d.ready = c.ready /\ d.missing = c.missing
          /\ d.sets = c.sets /\ d.unsaid = w
      BY ONLY <3>1, <3>2, SetUnsaid
    <3> QED BY ONLY <3>3 DEF Kin
  <2> HIDE DEF d
  <2> QED BY <2>2, <2>3, <2>4, <1>4 DEF c
<1>5. CASE r.type \in CachedTypes => v = Absent /\ e = Absent
  <2> DEFINE ms == Append(c.missing, r)
             d == WithMissing(c, c.i + 1, ms)
  <2>1. ms \in Seq(Requests)
    BY <1>1, <1>2, AppendProperties
  <2>2. call' = [call EXCEPT ![t] = d] /\ out' = out
    BY <1>5 DEF LookupOne, TypeOK, WithMissing, FindValue, FindError
  <2>3. call'[t] = d
    BY <2>2 DEF TypeOK
  <2> HIDE DEF ms, c
  <2>4. /\ d \in Calls /\ d.assets = c.assets /\ d.fmt = c.fmt /\ d.i = c.i + 1
        /\ d.current = c.current /\ d.ready = c.ready /\ d.missing = ms
        /\ d.sets = c.sets /\ d.unsaid = c.unsaid
    <3>1. c \in Calls /\ c.i + 1 \in Nat \ {0}
      BY <1>1, <1>2
    <3> QED BY ONLY <2>1, <3>1, SetMissing
  <2>5. Kin(c, d)
    BY <2>4 DEF Kin
  <2> HIDE DEF d
  <2> QED BY <2>2, <2>3, <2>4, <2>5, <1>5 DEF ms, c
<1> QED BY <1>3, <1>4, <1>5

\* A store makes the answer ready, or adds the error of the reply.
LEMMA StoreOneCases ==
    ASSUME TypeOK, NEW t \in Threads, StoreOne(t)
    PROVE  LET c == call[t]
               r == c.missing[c.i]
               resp == c.responses[c.i]
               d == call'[t]
           IN /\ d \in Calls /\ Kin(c, d) /\ d.i = c.i + 1 /\ d.current = c.current
              /\ d.missing = c.missing /\ d.sets = c.sets
              /\ \/ /\ resp.ok /\ out'[t] = out[t] /\ d.unsaid = c.unsaid
                    /\ d.ready = Append(c.ready, [type |-> r.type, data |-> resp.data])
                 \/ /\ ~resp.ok /\ d.ready = c.ready
                    /\ c.unsaid \subseteq d.unsaid /\ (resp.error = "" => r \in d.unsaid)
                    /\ out'[t] = AddError(out[t], resp.error)
<1> DEFINE c == call[t]
           r == c.missing[c.i]
           resp == c.responses[c.i]
<1>1. /\ pc[t] = "store" /\ r \in Requests /\ resp \in SolverResponses
      /\ c.i + 1 \in Nat \ {0}
  BY StoreOneHas
<1>2. c \in Calls /\ c.ready \in Seq(ReadyPairs) /\ c.unsaid \in SUBSET Requests
  BY <1>1, CallType
<1>3. CASE resp.ok
  <2> DEFINE rd == Append(c.ready, [type |-> r.type, data |-> resp.data])
             d == WithReady(c, c.i + 1, rd)
  <2>1. [type |-> r.type, data |-> resp.data] \in ReadyPairs
    BY <1>1 DEF ReadyPairs, Requests, SolverResponses
  <2>2. rd \in Seq(ReadyPairs)
    BY <2>1, <1>2, AppendProperties
  <2>3. call' = [call EXCEPT ![t] = d] /\ out' = out
    BY <1>3 DEF StoreOne, TypeOK, WithReady, StoredRequest
  <2>4. call'[t] = d
    BY <2>3 DEF TypeOK
  <2> HIDE DEF rd, c
  <2>5. /\ d \in Calls /\ Kin(c, d) /\ d.i = c.i + 1 /\ d.current = c.current
        /\ d.missing = c.missing /\ d.ready = rd
        /\ d.sets = c.sets /\ d.unsaid = c.unsaid
    <3>1. c \in Calls /\ c.i + 1 \in Nat \ {0}
      BY <1>1, <1>2
    <3>2. /\ d \in Calls /\ d.assets = c.assets /\ d.fmt = c.fmt /\ d.i = c.i + 1
          /\ d.current = c.current /\ d.ready = rd /\ d.missing = c.missing
          /\ d.sets = c.sets /\ d.unsaid = c.unsaid
      BY ONLY <2>2, <3>1, SetReady
    <3> QED BY ONLY <3>2 DEF Kin
  <2> HIDE DEF d
  <2> QED BY <2>3, <2>4, <2>5, <1>3 DEF c, rd
<1>4. CASE ~resp.ok
  <2> DEFINE w == c.unsaid \cup {q \in {r} : resp.error = ""}
             d == WithUnsaid(c, c.i + 1, w)
  <2>1. call' = [call EXCEPT ![t] = d] /\ out' = [out EXCEPT ![t] = AddError(out[t], resp.error)]
    BY <1>4 DEF StoreOne, TypeOK, WithUnsaid, StoredRequest
  <2>2. call'[t] = d /\ out'[t] = AddError(out[t], resp.error)
    BY <2>1 DEF TypeOK
  <2>3. w \in SUBSET Requests /\ c.unsaid \subseteq w /\ (resp.error = "" => r \in w)
    BY <1>1, <1>2, Zenon
  <2> HIDE DEF w, c
  <2>4. /\ d \in Calls /\ Kin(c, d) /\ d.i = c.i + 1 /\ d.current = c.current
        /\ d.missing = c.missing /\ d.ready = c.ready
        /\ d.sets = c.sets /\ d.unsaid = w
    <3>1. c \in Calls /\ c.i + 1 \in Nat \ {0}
      BY <1>1, <1>2
    <3>2. w \in SUBSET Requests
      BY <2>3
    <3>3. /\ d \in Calls /\ d.assets = c.assets /\ d.fmt = c.fmt /\ d.i = c.i + 1
          /\ d.current = c.current /\ d.ready = c.ready /\ d.missing = c.missing
          /\ d.sets = c.sets /\ d.unsaid = w
      BY ONLY <3>1, <3>2, SetUnsaid
    <3> QED BY ONLY <3>3 DEF Kin
  <2> HIDE DEF d
  <2> QED BY <2>2, <2>3, <2>4, <1>4 DEF c
<1> QED BY <1>3, <1>4

(***************************************************************************)
(* Each action keeps Work for its thread.                                  *)
(***************************************************************************)

\* Work, as WorkInv applies it to thread t.
WorkAt(t) == Work(pc[t], call[t], out[t])

\* A new call has nothing but its arguments, and one that returns at once
\* had nothing to do or says why.
LEMMA CallWork ==
    ASSUME TypeOK, NEW t \in Threads, NEW a \in ServedBy[t], NEW fmt \in Formats,
           Call(t, a, fmt)
    PROVE  WorkAt(t)'
<1> DEFINE d == call'[t]
           p == out'[t]
           res == [decoded_url |-> fmt.url, solver_error |-> <<>>]
<1>1. /\ d.fmt = fmt /\ d.i = 1 /\ d.ready = <<>> /\ d.missing = <<>> /\ d.current = fmt.url
      /\ d.sets = 0
  BY DEF Call, TypeOK
<1>2. fmt.url \in Urls \cup {Absent} /\ fmt.requests \in Seq(Requests)
  BY ConstantsAssumption
<1>3. res \in Results /\ res.decoded_url = fmt.url
  BY <1>2, EmptySeq DEF Results
<1>4. \/ fmt.url = Absent /\ pc'[t] = "idle" /\ p = [res EXCEPT !.solver_error = <<"Keine URL vorhanden">>]
      \/ fmt.url # Absent /\ fmt.requests = <<>> /\ pc'[t] = "idle" /\ p = res
      \/ fmt.url # Absent /\ pc'[t] = "idle" /\ p = [res EXCEPT !.solver_error = <<"Solver-Cache fehlt">>]
      \/ fmt.url # Absent /\ pc'[t] = "lookup_lock" /\ p = res
  BY DEF Call, Goto, TypeOK
<1> HIDE DEF res
<1>5. p.decoded_url = fmt.url /\ (pc'[t] = "idle" => p.solver_error # <<>> \/ fmt.requests = <<>>)
  <2>1. \A text : /\ [res EXCEPT !.solver_error = <<text>>].decoded_url = res.decoded_url
                  /\ [res EXCEPT !.solver_error = <<text>>].solver_error # <<>>
    BY ONLY <1>3 DEF Results
  <2> QED BY <1>3, <1>4, <2>1
<1>6. pc'[t] = "idle" => p.solver_error # <<>> \/ fmt.requests = <<>>
  BY <1>5
<1>7. pc'[t] \in {"idle", "lookup_lock"} /\ (pc'[t] # "idle" => fmt.url # Absent)
  BY <1>4
<1> HIDE DEF d, p
<1>8. pc'[t] # "idle" => Requested(d)
  BY <1>1, <1>7 DEF Requested
<1>9. UrlsFaithful(pc'[t], d, p)
  <2>1. d.fmt.url # Absent => UrlFaithful(d, d.fmt.url, 0)
    BY <1>1, <1>2, FaithfulStart
  <2> QED BY <2>1, <1>1, <1>5 DEF UrlsFaithful
<1>10. fmt.requests = <<>> => Asked(d) = {}
  BY <1>1 DEF Asked
<1>11. Accounts(pc'[t], d, p)
  BY <1>1, <1>6, <1>7, <1>10 DEF Accounts
<1>12. Work(pc'[t], d, p)
  BY <1>8, <1>9, <1>11 DEF Work
<1> QED BY <1>12 DEF WorkAt, d, p

\* A lookup.
LEMMA LookupOneWork ==
    ASSUME TypeOK, OnePlayerPerThread => CacheFaithful,
           NEW t \in Threads, LookupOne(t), WorkAt(t)
    PROVE  WorkAt(t)'
<1> DEFINE c == call[t]
           r == c.fmt.requests[c.i]
           v == values[c.assets][r]
           e == errors[c.assets][r]
           d == call'[t]
           o == out[t]
           p == out'[t]
           kv == [type |-> r.type, data |-> v]
<1>1. pc[t] = "lookup" /\ r \in Requests /\ pc' = pc /\ c.i <= Len(c.fmt.requests)
  BY LookupOneHas DEF LookupOne, FindValue, FindError, shared
<1>2. c \in Calls /\ o \in Results /\ c.assets \in Assets /\ c.i \in Nat \ {0}
      /\ c.fmt.requests \in Seq(Requests)
  BY <1>1, CallType
<1>3. r \in Asked(c)
  <2>1. c.i \in 1..Len(c.fmt.requests)
    BY <1>1, <1>2, LenProperties
  <2> QED BY <2>1, <1>2, AskedType
<1>4. d \in Calls /\ Kin(c, d) /\ d.i = c.i + 1 /\ d.current = c.current /\ d.sets = c.sets
  BY LookupOneCases
<1>5. \/ /\ r.type \in CachedTypes /\ v \in Data /\ v # Absent
         /\ d.ready = Append(c.ready, kv)
         /\ d.missing = c.missing /\ p = o /\ d.unsaid = c.unsaid
      \/ /\ r.type \in CachedTypes /\ e # Absent
         /\ d.ready = c.ready /\ d.missing = c.missing
         /\ c.unsaid \subseteq d.unsaid /\ (e = "" => r \in d.unsaid)
         /\ p = AddError(o, e)
      \/ /\ d.ready = c.ready /\ d.missing = Append(c.missing, r)
         /\ d.unsaid = c.unsaid /\ p = o
  BY LookupOneCases
<1>6. Work("lookup", c, o)
  BY <1>1 DEF WorkAt
<1>7. Work(pc'[t], d, p) <=> Work("lookup", d, p)
  BY <1>1, <1>4 DEF Kin
<1>8. r.type \in CachedTypes => r \in Keys
  BY <1>1, CachedIsKey
<1>9. OnePlayerPerThread /\ r.type \in CachedTypes /\ v # Absent => v \in AnswersTo(c, r)
  BY <1>2, <1>8 DEF CacheFaithful, AnswersTo
<1>10. r.type \in CachedTypes /\ v \in Data => kv \in ReadyPairs
  BY DEF ReadyPairs
<1>11. kv.type = r.type /\ kv.data = v
  OBVIOUS
<1> HIDE DEF c, r, v, e, d, o, p, kv
<1>12. CASE /\ r.type \in CachedTypes /\ v \in Data /\ v # Absent
            /\ d.ready = Append(c.ready, kv) /\ d.missing = c.missing
            /\ d.unsaid = c.unsaid /\ p = o
  <2>1. AnswersOne(c, kv)
    BY <1>3, <1>9, <1>11, <1>12 DEF AnswersOne
  <2>2. Later(c, d) /\ IsReady(d, r.type) /\ (Requested(c) => Requested(d))
    BY <2>1, <1>2, <1>4, <1>10, <1>11, <1>12, ReadyAdded
  <2>3. Accounted(d, p, r, Everywhere(d))
    BY <2>2 DEF Accounted
  <2>4. \A m \in Everywhere(c) : m \in Everywhere(d) /\ d.missing[m] = c.missing[m]
    BY <1>12 DEF Everywhere
  <2> QED BY <2>2, <2>3, <2>4, <1>1, <1>2, <1>4, <1>6, <1>7, <1>12, WorkLookup DEF WorkAt, r, d, p
<1>13. CASE /\ r.type \in CachedTypes /\ e # Absent
            /\ d.ready = c.ready /\ d.missing = c.missing
            /\ c.unsaid \subseteq d.unsaid /\ (e = "" => r \in d.unsaid)
            /\ p = AddError(o, e)
  <2>1. Later(c, d) /\ (Requested(c) => Requested(d))
    BY <1>4, <1>13, RequestedKept
  <2>2. /\ p.decoded_url = o.decoded_url
        /\ o.solver_error # <<>> => p.solver_error # <<>>
        /\ e # "" => p.solver_error # <<>>
    BY <1>2, <1>13, AddErrorSays
  <2>3. Accounted(d, p, r, Everywhere(d))
    BY <2>2, <1>13 DEF Accounted
  <2>4. \A m \in Everywhere(c) : m \in Everywhere(d) /\ d.missing[m] = c.missing[m]
    BY <1>13 DEF Everywhere
  <2> QED BY <2>1, <2>2, <2>3, <2>4, <1>1, <1>2, <1>4, <1>6, <1>7, WorkLookup DEF WorkAt, r, d, p
<1>14. CASE /\ d.ready = c.ready /\ d.missing = Append(c.missing, r)
            /\ d.unsaid = c.unsaid /\ p = o
  <2>1. /\ Later(c, d)
        /\ \A m \in Everywhere(c) : m \in Everywhere(d) /\ d.missing[m] = c.missing[m]
        /\ \E m \in Everywhere(d) : d.missing[m] = r
        /\ Requested(c) /\ r \in Asked(c) => Requested(d)
    <3>1. c \in Calls /\ r \in Requests /\ Kin(c, d)
      BY <1>1, <1>2, <1>4
    <3> QED BY <3>1, <1>14, MissingAdded, Zenon
  <2>2. /\ Later(c, d)
        /\ \A m \in Everywhere(c) : m \in Everywhere(d) /\ d.missing[m] = c.missing[m]
        /\ \E m \in Everywhere(d) : d.missing[m] = r
        /\ Requested(c) => Requested(d)
    BY <2>1, <1>3
  <2>3. Accounted(d, p, r, Everywhere(d))
    BY <2>2 DEF Accounted
  <2> QED BY <2>2, <2>3, <1>1, <1>2, <1>4, <1>6, <1>7, <1>14, WorkLookup DEF WorkAt, r, d, p
<1> QED BY <1>5, <1>12, <1>13, <1>14

\* Entering and leaving the first critical section.
LEMMA LookupSectionWork ==
    ASSUME TypeOK, NEW t \in Threads, LockForLookup(t) \/ LookupDone(t), WorkAt(t)
    PROVE  WorkAt(t)'
<1> DEFINE c == call[t]
           o == out[t]
<1>1. CASE LockForLookup(t)
  <2>1. pc[t] = "lookup_lock" /\ pc'[t] = "lookup" /\ UNCHANGED <<call, out>>
    BY <1>1 DEF LockForLookup, Goto, TypeOK, Acquire
  <2>2. c \in Calls
    BY <2>1, CallType
  <2>3. Work("lookup", c, o)
    BY <2>1, <2>2, WorkLockForLookup DEF WorkAt
  <2> QED BY <2>1, <2>3 DEF WorkAt
<1>2. CASE LookupDone(t)
  <2>1. /\ pc[t] = "lookup" /\ UNCHANGED out /\ c.i > Len(c.fmt.requests)
        /\ pc'[t] = IF c.missing = <<>> THEN "apply" ELSE "engine"
    BY <1>2 DEF LookupDone, Goto, TypeOK, Unlock
  <2>2. c \in Calls
    BY <2>1, CallType
  <2>3. PICK d \in Calls : call'[t] = d /\ Moves(c, d) /\ d.i = 1
    <3>1. PICK d \in Calls :
             /\ call'[t] = d /\ d.assets = c.assets /\ d.fmt = c.fmt /\ d.i = 1
             /\ d.ready = c.ready /\ d.missing = c.missing
             /\ d.current = c.current /\ d.sets = c.sets /\ d.unsaid = c.unsaid
      BY <1>2, UnlockEffect
    <3>2. Moves(c, d)
      BY <3>1 DEF Moves, Kin
    <3> QED BY <3>1, <3>2
  <2>4. Work("lookup", c, o)
    BY <2>1 DEF WorkAt
  <2> HIDE DEF c
  <2>5. Work("engine", d, o) /\ (c.missing = <<>> => Work("apply", d, o))
    BY <2>1, <2>2, <2>3, <2>4, WorkLookupDone
  <2> QED BY <2>1, <2>3, <2>5 DEF WorkAt
<1> QED BY <1>1, <1>2

\* Catching what the engine throws.
LEMMA CatchWork ==
    ASSUME TypeOK, NEW t \in Threads, pc[t] \in {"engine", "solve"}, Catch(t), WorkAt(t)
    PROVE  WorkAt(t)'
<1>1. PICK d \in Calls, p \in Results :
         /\ call'[t] = d /\ out'[t] = p /\ pc'[t] = "idle"
         /\ d.assets = call[t].assets /\ d.fmt = call[t].fmt
         /\ d.current = call[t].current /\ d.sets = call[t].sets
         /\ p.decoded_url = out[t].decoded_url
         /\ p.solver_error # <<>> \/ d.unsaid = Asked(d)
  <2>1. pc[t] # "idle"
    OBVIOUS
  <2> QED BY <2>1, CatchEffect
<1>2. Kin(call[t], d)
  BY <1>1 DEF Kin
<1>3. Work(pc[t], call[t], out[t])
  BY DEF WorkAt
<1>4. Work("idle", d, p)
  BY <1>1, <1>2, <1>3, WorkCatch
<1> QED BY <1>1, <1>4 DEF WorkAt

\* Getting the engine and running it.
LEMMA EngineWork ==
    ASSUME TypeOK, NEW t \in Threads, GetEngine(t) \/ Solve(t), WorkAt(t)
    PROVE  WorkAt(t)'
<1> DEFINE c == call[t]
           d == call'[t]
           o == out[t]
<1>1. pc[t] \in {"engine", "solve"} /\ pc[t] # "idle"
  BY DEF GetEngine, Solve
<1>2. c \in Calls
  BY <1>1, CallType
<1>3. CASE Catch(t)
  BY <1>1, <1>3, CatchWork
<1>4. CASE UNCHANGED <<call, out>> /\ pc'[t] = "solve"
  <2>1. Moves(c, c)
    BY DEF Moves, Kin
  <2>2. Work(pc[t], c, o)
    BY DEF WorkAt
  <2>3. Work("solve", c, o)
    BY <1>1, <1>2, <2>1, <2>2, WorkSolve
  <2> QED BY <1>4, <2>3 DEF WorkAt
<1>5. ASSUME NEW s \in Replies(PlayerOf[engine[t]], c.missing),
             call' = [call EXCEPT ![t].responses = s], out' = out, pc'[t] = "store_lock",
             pc[t] = "solve"
      PROVE  WorkAt(t)'
  <2>1. d = WithResponses(c, s)
    BY <1>5 DEF TypeOK, WithResponses
  <2>2. c.missing \in Seq(Requests)
    BY <1>1, CallType
  <2>3. PlayerOf[engine[t]] \in Players
    BY <1>5, ConstantsAssumption DEF TypeOK
  <2>4. s \in Seq(SolverResponses)
    BY <2>2, <2>3, RepliesType
  <2>5. Work(pc[t], c, o)
    BY DEF WorkAt
  <2> HIDE DEF c, d
  <2>6. Moves(c, d) /\ d.i = c.i
    BY <1>2, <2>1, <2>4, SetResponses DEF Moves, Kin
  <2>7. Work("store_lock", d, o)
    BY <1>1, <1>2, <2>5, <2>6, WorkSolve
  <2> QED BY <1>5, <2>7 DEF WorkAt, d
<1>6. CASE GetEngine(t)
  <2>1. GetEngine(t) => Catch(t) \/ (UNCHANGED <<call, out>> /\ pc'[t] = "solve")
    BY DEF GetEngine, Goto, TypeOK
  <2> QED BY <1>3, <1>4, <1>6, <2>1
<1>7. CASE Solve(t)
  <2>1. \/ Catch(t)
        \/ \E s \in Replies(PlayerOf[engine[t]], c.missing) :
              /\ call' = [call EXCEPT ![t].responses = s] /\ out' = out
              /\ pc'[t] = "store_lock" /\ pc[t] = "solve"
    BY <1>7 DEF Solve, Goto, TypeOK
  <2> QED BY <1>3, <1>5, <2>1
<1> QED BY <1>6, <1>7

\* A store.
LEMMA StoreOneWork ==
    ASSUME TypeOK, OnePlayerPerThread => RepliesInv,
           NEW t \in Threads, StoreOne(t), WorkAt(t)
    PROVE  WorkAt(t)'
<1> DEFINE c == call[t]
           r == c.missing[c.i]
           resp == c.responses[c.i]
           d == call'[t]
           o == out[t]
           p == out'[t]
           kv == [type |-> r.type, data |-> resp.data]
<1>1. /\ pc[t] = "store" /\ pc' = pc /\ r \in Requests /\ resp \in SolverResponses
      /\ c.i \in 1..Len(c.missing) /\ c.i \in 1..Len(c.responses)
  BY StoreOneHas DEF StoreOne, StoredRequest
<1>2. c \in Calls /\ o \in Results /\ c.assets \in Assets /\ c.i \in Nat
  BY <1>1, CallType
<1>3. /\ d \in Calls /\ Kin(c, d) /\ d.i = c.i + 1 /\ d.current = c.current
      /\ d.missing = c.missing /\ d.sets = c.sets
  BY StoreOneCases
<1>4. \/ /\ resp.ok /\ p = o /\ d.ready = Append(c.ready, kv) /\ d.unsaid = c.unsaid
      \/ /\ ~resp.ok /\ d.ready = c.ready /\ p = AddError(o, resp.error)
         /\ c.unsaid \subseteq d.unsaid /\ (resp.error = "" => r \in d.unsaid)
  BY StoreOneCases
<1>5. Work("store", c, o)
  BY <1>1 DEF WorkAt
<1>6. r \in Asked(c)
  BY <1>1, <1>5 DEF Work, Requested
<1>7. OnePlayerPerThread => resp \in Outcomes(PlayerOf[c.assets], r)
  BY <1>1 DEF RepliesInv
<1>8. OnePlayerPerThread /\ resp.ok => resp.data \in AnswersTo(c, r)
  BY <1>7, OutcomeHas DEF AnswersTo
<1>9. kv \in ReadyPairs /\ kv.type = r.type /\ kv.data = resp.data
  BY <1>1 DEF ReadyPairs, Requests, SolverResponses
<1>10. Work(pc'[t], d, p) <=> Work("store", d, p)
  BY <1>1
<1> HIDE DEF c, r, resp, d, o, p, kv
<1>11. CASE resp.ok /\ p = o /\ d.ready = Append(c.ready, kv) /\ d.unsaid = c.unsaid
  <2>1. AnswersOne(c, kv)
    BY <1>6, <1>8, <1>9, <1>11 DEF AnswersOne
  <2>2. Later(c, d) /\ IsReady(d, r.type) /\ (Requested(c) => Requested(d))
    BY <2>1, <1>2, <1>3, <1>9, <1>11, ReadyAdded
  <2>3. IsReady(d, c.missing[c.i].type)
    BY <2>2 DEF r
  <2> QED BY <2>2, <2>3, <1>2, <1>3, <1>5, <1>10, <1>11, WorkStore DEF WorkAt, d, p
<1>12. CASE /\ ~resp.ok /\ d.ready = c.ready /\ p = AddError(o, resp.error)
            /\ c.unsaid \subseteq d.unsaid /\ (resp.error = "" => r \in d.unsaid)
  <2>1. Later(c, d) /\ (Requested(c) => Requested(d))
    BY <1>3, <1>12, RequestedKept
  <2>2. /\ p.decoded_url = o.decoded_url
        /\ o.solver_error # <<>> => p.solver_error # <<>>
        /\ resp.error # "" => p.solver_error # <<>>
    BY <1>2, <1>12, AddErrorSays
  <2>3. p.solver_error # <<>> \/ c.missing[c.i] \in d.unsaid
    BY <2>2, <1>12 DEF r
  <2> QED BY <2>1, <2>2, <2>3, <1>2, <1>3, <1>5, <1>10, WorkStore DEF WorkAt, d, p
<1> QED BY <1>4, <1>11, <1>12

\* Entering and leaving the second critical section.
LEMMA StoreSectionWork ==
    ASSUME TypeOK, NEW t \in Threads, LockForStore(t) \/ StoreDone(t), WorkAt(t)
    PROVE  WorkAt(t)'
<1> DEFINE c == call[t]
           o == out[t]
<1>1. CASE LockForStore(t)
  <2>1. pc[t] = "store_lock" /\ pc'[t] = "store" /\ UNCHANGED <<call, out>>
    BY <1>1 DEF LockForStore, Goto, TypeOK, Acquire
  <2>2. c \in Calls
    BY <2>1, CallType
  <2>3. Work("store", c, o)
    BY <2>1, <2>2, WorkLockForStore DEF WorkAt
  <2> QED BY <2>1, <2>3 DEF WorkAt
<1>2. CASE StoreDone(t)
  <2>1. /\ pc[t] = "store" /\ UNCHANGED out /\ pc'[t] = "apply"
        /\ c.i > Len(c.missing) \/ c.i > Len(c.responses)
    BY <1>2 DEF StoreDone, Goto, TypeOK, Unlock
  <2>2. c \in Calls
    BY <2>1, CallType
  <2>3. PICK d \in Calls :
           call'[t] = d /\ Moves(c, d) /\ NoReply(c) \subseteq d.unsaid /\ d.i = 1
    <3>1. PICK d \in Calls :
             /\ call'[t] = d /\ d.assets = c.assets /\ d.fmt = c.fmt /\ d.i = 1
             /\ d.ready = c.ready /\ d.missing = c.missing
             /\ d.current = c.current /\ d.sets = c.sets
             /\ d.unsaid = c.unsaid \cup NoReply(c)
      BY <1>2, UnlockEffect
    <3>2. Moves(c, d) /\ NoReply(c) \subseteq d.unsaid
      BY <3>1 DEF Moves, Kin
    <3> QED BY <3>1, <3>2
  <2>4. Work("store", c, o)
    BY <2>1 DEF WorkAt
  <2> HIDE DEF c
  <2>5. Work("apply", d, o)
    BY <2>1, <2>2, <2>3, <2>4, WorkStoreDone
  <2> QED BY <2>1, <2>3, <2>5 DEF WorkAt
<1> QED BY <1>1, <1>2

\* Writing the answers and returning the URL.
LEMMA ApplyWork ==
    ASSUME TypeOK, NEW t \in Threads, ApplyOne(t) \/ ApplyDone(t), WorkAt(t)
    PROVE  WorkAt(t)'
<1> DEFINE c == call[t]
           d == call'[t]
           o == out[t]
           kv == c.ready[c.i]
           url == IF kv.type \in CachedTypes
                  THEN SetParam(c.current, ParamFor(c.fmt, kv.type), kv.data)
                  ELSE c.current
           n == IF kv.type \in CachedTypes THEN c.sets + 1 ELSE c.sets
<1>1. pc[t] = "apply"
  BY DEF ApplyOne, ApplyDone
<1>2. /\ c \in Calls /\ o \in Results /\ c.current \in Urls /\ c.fmt \in Formats
      /\ c.i \in Nat \ {0} /\ c.i + 1 \in Nat \ {0} /\ c.ready \in Seq(ReadyPairs)
      /\ c.sets \in Nat
  BY <1>1, CallType
<1>3. Work("apply", c, o)
  BY <1>1 DEF WorkAt
<1>4. CASE ApplyOne(t)
  <2>1. pc' = pc /\ out' = out /\ c.i <= Len(c.ready)
    BY <1>4 DEF ApplyOne
  <2>2. kv \in ReadyPairs
    BY <1>2, <2>1, LenProperties, ElementOfSeq
  <2>3. kv.data \in Data
    BY <2>2 DEF ReadyPairs
  <2>4. url \in Urls /\ n \in Nat
    BY <1>2, <2>3, ParamForType, SetParamType
  <2>5. \/ /\ kv.type \in CachedTypes
           /\ url = SetParam(c.current, ParamFor(c.fmt, kv.type), kv.data) /\ n = c.sets + 1
        \/ kv.type \notin CachedTypes /\ url = c.current /\ n = c.sets
    OBVIOUS
  <2> HIDE DEF url, n
  <2>6. call' = [call EXCEPT ![t] = WithCurrent(c, c.i + 1, url, n)]
    BY <1>4 DEF ApplyOne, TypeOK, url, n, WithCurrent
  <2>7. d = WithCurrent(c, c.i + 1, url, n)
    BY <2>6 DEF TypeOK
  <2> HIDE DEF c, d, kv
  <2>8. /\ d \in Calls /\ Kin(c, d) /\ d.i = c.i + 1 /\ d.missing = c.missing
        /\ d.ready = c.ready /\ d.unsaid = c.unsaid /\ d.current = url /\ d.sets = n
    <3>1. c \in Calls /\ c.i + 1 \in Nat \ {0} /\ url \in Urls /\ n \in Nat
      BY <1>2, <2>4
    <3>2. /\ d \in Calls /\ d.i = c.i + 1 /\ d.missing = c.missing /\ d.fmt = c.fmt
          /\ d.ready = c.ready /\ d.unsaid = c.unsaid /\ d.current = url
          /\ d.assets = c.assets /\ d.sets = n
      BY ONLY <2>7, <3>1, SetCurrent
    <3> QED BY ONLY <3>2 DEF Kin
  <2>9. Work("apply", d, o)
    BY <1>2, <1>3, <2>1, <2>5, <2>8, WorkApply DEF kv
  <2> QED BY <1>1, <2>1, <2>9 DEF WorkAt, d
<1>5. CASE ApplyDone(t)
  <2> DEFINE p == [o EXCEPT !.decoded_url = c.current]
  <2>1. /\ out'[t] = p /\ pc'[t] = "idle" /\ call' = call /\ c.i > Len(c.ready)
    BY <1>5 DEF ApplyDone, Goto, TypeOK
  <2>2. p.decoded_url = c.current /\ p.solver_error = o.solver_error
    BY <1>2 DEF Results
  <2> HIDE DEF p
  <2>3. Work("idle", c, p)
    BY <1>2, <1>3, <2>1, <2>2, WorkApplyDone
  <2> QED BY <2>1, <2>3 DEF WorkAt
<1> QED BY <1>4, <1>5

(***************************************************************************)
(* The invariant and what follows from it.                                 *)
(***************************************************************************)

\* Every step keeps WorkInv, whatever the other threads store meanwhile.
LEMMA WorkStep ==
    /\ TypeOK /\ WorkInv /\ [Next]_vars
    /\ OnePlayerPerThread => RepliesInv /\ CacheFaithful
    => WorkInv'
<1> SUFFICES ASSUME TypeOK, WorkInv, [Next]_vars,
                    OnePlayerPerThread => RepliesInv /\ CacheFaithful
             PROVE  WorkInv'
  OBVIOUS
<1>1. CASE UNCHANGED vars
  BY <1>1 DEF vars, WorkInv
<1>2. ASSUME NEW t \in Threads, Acts(t), NEW u \in Threads, call'[u] # Absent
      PROVE  WorkAt(u)'
  <2>1. CASE u # t
    <3>1. call'[u] = call[u] /\ pc'[u] = pc[u] /\ out'[u] = out[u]
      BY <1>2, <2>1, OthersUnchanged, OthersKeepResult
    <3> QED BY <1>2, <3>1 DEF WorkInv, WorkAt
  <2>2. CASE u = t /\ Step(t)
    <3>1. pc[t] # "idle"
      BY <2>2, LocalsKept
    <3>2. WorkAt(t)
      BY <3>1 DEF WorkInv, WorkAt, TypeOK
    <3> QED BY <2>2, <3>2, LookupSectionWork, LookupOneWork, EngineWork, StoreSectionWork,
               StoreOneWork, ApplyWork DEF Step
  <2>3. CASE u = t /\ \E a \in ServedBy[t], fmt \in Formats : Call(t, a, fmt)
    BY <2>3, CallWork
  <2>4. CASE u = t /\ ThreadExit(t)
    <3>1. UNCHANGED <<pc, call, out>>
      BY <2>4 DEF ThreadExit, shared
    <3> QED BY <1>2, <3>1 DEF WorkInv, WorkAt
  <2> QED BY <1>2, <2>1, <2>2, <2>3, <2>4 DEF Acts
<1> QED BY <1>1, <1>2, NextIsActs DEF WorkInv, WorkAt

\* At the start nothing has been asked.
LEMMA WorkInit == Init => WorkInv
BY DEF Init, WorkInv

\* WorkInv at a call that has returned, with or without the condition on the
\* callers.
LEMMA WorkReturned ==
    ASSUME WorkInv, NEW t \in Threads, Returned(t)
    PROVE  /\ OnePlayerPerThread /\ call[t].fmt.url # Absent =>
                 UrlFaithful(call[t], out[t].decoded_url, call[t].sets)
           /\ out[t].solver_error = <<>> =>
                 \A r \in Asked(call[t]) : r.type \in CachedTypes =>
                     Dropped(call[t], r) \/ IsWritten(call[t], out[t].decoded_url, r.type)
<1>1. pc[t] = "idle" /\ Work("idle", call[t], out[t])
  BY DEF WorkInv, Returned
<1> QED BY <1>1 DEF Work, UrlsFaithful, Accounts

\* A call that returns without an error has answered each of its requests in
\* the URL, unless nothing at all was said of this very request (no response,
\* an empty message, an empty text thrown) or fmt.sp is a name that decoding
\* changes: whichever requests were in the cache, whichever other threads were
\* storing, and also for threads that serve several players.
THEOREM NothingIsDroppedSilently == Spec => []NoSilentDrop
<1>1. WorkInv => NoSilentDrop
  BY WorkReturned DEF NoSilentDrop, IsWritten
<1>2. CASE OnePlayerPerThread
  <2>1. Spec => [](TypeOK /\ EngineInv /\ RepliesInv)
    BY <1>2, RepliesInvariant
  <2>2. Spec => []CacheFaithful
    BY <1>2, CacheHoldsOwnAnswers
  <2> QED BY <1>1, <2>1, <2>2, WorkInit, WorkStep, PTL DEF Spec
<1>3. CASE ~OnePlayerPerThread
  <2>1. TypeOK /\ WorkInv /\ [Next]_vars => WorkInv'
    BY <1>3, WorkStep
  <2> QED BY <1>1, <2>1, WorkInit, TypeCorrect, PTL DEF Spec
<1> QED BY <1>2, <1>3

\* The invariant under the condition on the callers.
LEMMA WorkInvariant ==
    ASSUME OnePlayerPerThread
    PROVE  Spec => [](TypeOK /\ WorkInv)
<1>1. Spec => [](TypeOK /\ EngineInv /\ RepliesInv)
  BY RepliesInvariant
<1>2. Spec => []CacheFaithful
  BY CacheHoldsOwnAnswers
<1> QED BY <1>1, <1>2, WorkInit, WorkStep, PTL DEF Spec

\* When each thread only serves assets of one player, each parameter of the URL
\* a call returns is one of the caller's, its name and its value decoded once
\* more for each answer written, or an answer of that player to a request of
\* this very call, decoded once more for each answer written after it; and no
\* name of the caller's, decoded likewise, is gone.
THEOREM UrlIsFaithful ==
    ASSUME OnePlayerPerThread
    PROVE  Spec => []ResultFaithful
<1>1. WorkInv => ResultFaithful
  BY WorkReturned DEF ResultFaithful
<1> QED BY <1>1, WorkInvariant, PTL

\* A format that asks once per parameter has one answer for each.
LEMMA OneAnswerPerParam ==
    ASSUME NEW c \in Calls, OneRequestPerParam(c.fmt), NEW r \in Asked(c), r.type \in CachedTypes
    PROVE  AnswersFor(c, ParamFor(c.fmt, r.type)) = AnswersTo(c, r)
<1> DEFINE x == ParamFor(c.fmt, r.type)
<1>1. ASSUME NEW q \in AskedFor(c, x) PROVE q = r
  <2>1. q \in Asked(c) /\ q.type \in CachedTypes /\ ParamFor(c.fmt, q.type) = x
    BY DEF AskedFor
  <2>2. PICK i \in 1..Len(c.fmt.requests) : r = c.fmt.requests[i]
    BY DEF Asked
  <2>3. PICK j \in 1..Len(c.fmt.requests) : q = c.fmt.requests[j]
    BY <2>1 DEF Asked
  <2>4. i = j
    BY <2>1, <2>2, <2>3 DEF OneRequestPerParam
  <2> QED BY <2>2, <2>3, <2>4
<1>2. r \in AskedFor(c, x)
  BY DEF AskedFor
<1>3. AskedFor(c, x) = {r}
  BY <1>1, <1>2
<1>4. {Solution(PlayerOf[c.assets], q) : q \in {r}} = {Solution(PlayerOf[c.assets], r)}
  OBVIOUS
<1> QED BY <1>3, <1>4 DEF AnswersFor, AnswersTo

\* When each thread only serves assets of one player, two calls with the
\* same arguments that return without an error write the same answer to a
\* request, if each of them got one, wherever each of them found it.
THEOREM EqualCallsAgree ==
    ASSUME OnePlayerPerThread
    PROVE  Spec => []SameAnswer
<1>1. TypeOK /\ WorkInv => SameAnswer
  <2> SUFFICES ASSUME TypeOK, WorkInv, NEW t \in Threads, NEW u \in Threads,
                      Returned(t), Returned(u),
                      call[t].assets = call[u].assets, call[t].fmt = call[u].fmt,
                      out[t].solver_error = <<>>, out[u].solver_error = <<>>,
                      OneRequestPerParam(call[t].fmt),
                      NEW r \in Asked(call[t]), r.type \in CachedTypes,
                      ~Dropped(call[t], r), ~Dropped(call[u], r)
               PROVE  LET x == ParamFor(call[t].fmt, r.type) IN
                      \/ EmptyText \in {DataAt(t, x), DataAt(u, x)}
                      \/ DataAt(t, x) = DataAt(u, x)
    BY DEF SameAnswer
  <2> DEFINE x == ParamFor(call[t].fmt, r.type)
  <2>1. call[t] \in Calls /\ call[u] \in Calls /\ Kin(call[t], call[u])
    BY DEF Returned, TypeOK, Kin
  <2>2. r \in Asked(call[u])
    BY <2>1, KinAsksTheSame
  <2>3. /\ IsWritten(call[t], out[t].decoded_url, r.type)
        /\ IsWritten(call[u], out[u].decoded_url, r.type)
    BY <2>2, WorkReturned
  <2>4. AnswersFor(call[t], x) = AnswersTo(call[t], r) /\ AnswersFor(call[u], x) = AnswersTo(call[t], r)
    BY <2>1, KinAsksTheSame, OneAnswerPerParam
  <2>5. DataAt(t, x) \in AnswersTo(call[t], r)
    BY <2>3, <2>4 DEF IsWritten, DataAt
  <2>6. DataAt(u, x) \in AnswersTo(call[t], r)
    BY <2>3, <2>4 DEF IsWritten, DataAt
  <2> QED BY <2>5, <2>6 DEF AnswersTo
<1> QED BY <1>1, WorkInvariant, PTL
=============================================================================
