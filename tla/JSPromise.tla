------------------------------ MODULE JSPromise ------------------------------
(***************************************************************************)
(* Promises of QuickJS, the queue of jobs and the host loop js_std_loop    *)
(* that runs it.  JavaScript code runs one piece at a time: the main       *)
(* script, a handler of a reaction, the then method of a thenable, a       *)
(* finalization callback.  While it runs it may do anything with the       *)
(* promises and the resolving functions it has.  Everything the engine     *)
(* does by itself (a native handler, a combinator) is one step.            *)
(*                                                                         *)
(* A value is a pair <<kind, n>>: a plain value, a promise, an object with *)
(* a then method of its own, an object whose then cannot be read, the      *)
(* array or the AggregateError of combinator n, a TypeError.  Side 0 is    *)
(* resolve or fulfilled, side 1 is reject or rejected.  Functions and jobs *)
(* are records of one shape each; fields that a kind has no use for are 0. *)
(***************************************************************************)
EXTENDS Integers, Sequences, SequencesExt, FiniteSetsExt

CONSTANTS
    Ops,         \* what the scripts of this instance do
    Kinds,       \* kinds of values they resolve promises with
    Vals,        \* plain values
    MaxPromises, \* bound: promises created, and calls of then
    MaxPairs,    \* bound: pairs of resolving functions created
    MaxCombs,    \* bound: combinators called
    MaxItems,    \* bound: items of a combinator
    MaxJobs      \* bound: finalization jobs that wait

PromiseAssumption ==
    Vals \subseteq Int /\ MaxPromises \in Nat /\ MaxPairs \in Nat
    /\ MaxCombs \in Nat /\ MaxItems \in Nat /\ MaxJobs \in Nat

VARIABLES
    st,    \* promises and jobs, see Empty
    pc,    \* "script", "jobs", "check", "end" or "exit"
    frame  \* the job whose JavaScript function is running, or Main

vars == <<st, pc, frame>>

Empty ==
    [prom      |-> <<>>,  \* JSPromiseData, in the order they were made
     pair      |-> <<>>,  \* the two resolving functions: their promise, already_resolved
     comb      |-> <<>>,  \* calls of Promise.all, allSettled, any, race
     jobs      |-> <<>>,  \* job_list
     unhandled |-> {},    \* rejected_promise_list of the tracker: no promise is in it twice
     held      |-> {},    \* the functions of the engine that JavaScript code has
     thens     |-> <<>>,  \* history: every then, its promise, functions and capability
     ran       |-> {},    \* history: the thens one of whose reactions has run
     finals    |-> {},    \* history: <<promise, result of its finally>>
     twice     |-> FALSE] \* history: a settled promise was to be settled again

Sides == {0, 1}
Both(f, g) == [x \in Sides |-> IF x = 0 THEN f ELSE g]
Outcome(side) == IF side = 0 THEN "fulfilled" ELSE "rejected"

Undefined == <<"val", 0>>
TypeError == <<"error", 0>>
Promise(p) == <<"prom", p>>
Pending(s, p) == s.prom[p].state = "pending"

\* Functions of the engine: two resolving functions, the function of an item
\* of a combinator, the functions of finally; and those of scripts.
Function(fn, k, n, side, v) == [fn |-> fn, k |-> k, n |-> n, side |-> side, v |-> v]
NoHandler == Function("undefined", 0, 0, 0, Undefined)
User == Function("user", 0, 0, 0, Undefined)
Settle(k, side) == Function("settle", k, 0, side, Undefined)
Element(c, n, side) == Function("element", c, n, side, Undefined)
Finally(side) == Function("finally", 0, 0, side, Undefined)
Thunk(side, v) == Function("thunk", 0, 0, side, v)

\* Jobs; the frame of a running thenable has its pair as cap.
Entry(job, promise, cap, handler, n, side, v) ==
    [job |-> job, promise |-> promise, cap |-> cap, handler |-> handler, n |-> n,
     side |-> side, v |-> v]
Simple(job) == Entry(job, 0, 0, NoHandler, 0, 0, Undefined)
Follow(p, v) == Entry("thenable", p, 0, NoHandler, 0, 0, v)
Main == Simple("main")

Init == st = Empty /\ pc = "script" /\ frame = Main

-----------------------------------------------------------------------------
(***************************************************************************)
(* Promises, resolving functions and reactions.                            *)
(***************************************************************************)
NewPair(s, p) == [s EXCEPT !.pair = Append(@, [promise |-> p, done |-> FALSE])]

\* js_new_promise_capability: the last promise and the last pair.
NewCapability(s) ==
    LET fresh == [state |-> "pending", result |-> Undefined,
                  reactions |-> Both(<<>>, <<>>), handled |-> FALSE]
    IN  NewPair([s EXCEPT !.prom = Append(@, fresh)], Len(s.prom) + 1)

\* The queued form of a reaction.
Job(r, side, v) == Entry("reaction", 0, r.cap, r.handler, r.n, side, v)

\* js_std_promise_rejection_tracker
Track(list, p, handled) == IF handled THEN list \ {p} ELSE list \cup {p}

\* Mutant: the reactions are queued last one first.
FulfillOrRejectReversed(s, p, v, side) ==
    LET q == s.prom[p]
        rs == Reverse(q.reactions[side])
    IN
    [s EXCEPT !.prom[p] = [state |-> Outcome(side), result |-> v,
                           reactions |-> Both(<<>>, <<>>), handled |-> q.handled],
              !.jobs = @ \o [n \in DOMAIN rs |-> Job(rs[n], side, v)]]

\* Mutant: the reactions of the other side are kept.
FulfillOrRejectKeeps(s, p, v, side) ==
    LET q == s.prom[p]
        rs == q.reactions[side]
    IN
    [s EXCEPT !.prom[p] = [q EXCEPT !.state = Outcome(side), !.result = v,
                                    !.reactions[side] = <<>>],
              !.jobs = @ \o [n \in DOMAIN rs |-> Job(rs[n], side, v)]]

FulfillOrReject(s, p, v, side) ==
    LET q == s.prom[p]
        rs == q.reactions[side]
    IN
    IF ~Pending(s, p) THEN [s EXCEPT !.twice = TRUE]
    ELSE [s EXCEPT
        !.prom[p] = [state |-> Outcome(side), result |-> v, reactions |-> Both(<<>>, <<>>),
                     handled |-> q.handled],
        !.unhandled = IF side = 1 /\ ~q.handled THEN Track(@, p, FALSE) ELSE @,
        !.jobs = @ \o [n \in DOMAIN rs |-> Job(rs[n], side, v)]]

\* Mutants: an already resolved promise is resolved again; a thenable is
\* forgotten.
CallResolvingAgain(s, k, side, v) ==
    LET p == s.pair[k].promise
        d == [s EXCEPT !.pair[k].done = TRUE]
    IN
    IF side = 0 /\ v[1] \in {"prom", "thenable"} /\ v # Promise(p)
    THEN [d EXCEPT !.jobs = Append(@, Follow(p, v))]
    ELSE FulfillOrReject(d, p, v, side)
CallResolvingForgets(s, k, side, v) ==
    LET p == s.pair[k].promise
        d == [s EXCEPT !.pair[k].done = TRUE]
    IN
    IF s.pair[k].done \/ (side = 0 /\ v[1] = "thenable") THEN d ELSE FulfillOrReject(d, p, v, side)

\* js_promise_resolve_function_call
CallResolving(s, k, side, v) ==
    LET p == s.pair[k].promise
        d == [s EXCEPT !.pair[k].done = TRUE]
    IN
    IF s.pair[k].done THEN s
    ELSE IF side = 0 /\ (v = Promise(p) \/ v[1] = "broken") THEN FulfillOrReject(d, p, TypeError, 1)
    ELSE IF side = 0 /\ v[1] \in {"prom", "thenable"}
    THEN [d EXCEPT !.jobs = Append(@, Follow(p, v))]
    ELSE FulfillOrReject(d, p, v, side)

\* Mutant: the tracker is not told that the rejection is handled.
PerformThenSilent(s, p, f, g, cap) ==
    LET q == s.prom[p]
        n == Len(s.thens) + 1
        fns == Both(f, g)
        r == [x \in Sides |-> [cap |-> cap, handler |-> fns[x], n |-> n]]
        side == IF q.state = "rejected" THEN 1 ELSE 0
        d == [s EXCEPT !.prom[p].handled = TRUE, !.thens = Append(@, [p |-> p, fns |-> fns, cap |-> cap])]
    IN
    IF Pending(s, p)
    THEN [d EXCEPT !.prom[p].reactions = [x \in Sides |-> Append(q.reactions[x], r[x])]]
    ELSE [d EXCEPT !.jobs = Append(@, Job(r[side], side, q.result))]

\* perform_promise_then: cap = 0 stands for undefined resolving functions.
PerformThen(s, p, f, g, cap) ==
    LET q == s.prom[p]
        n == Len(s.thens) + 1
        fns == Both(f, g)
        r == [x \in Sides |-> [cap |-> cap, handler |-> fns[x], n |-> n]]
        side == IF q.state = "rejected" THEN 1 ELSE 0
        d == [s EXCEPT !.prom[p].handled = TRUE, !.thens = Append(@, [p |-> p, fns |-> fns, cap |-> cap])]
    IN
    IF Pending(s, p)
    THEN [d EXCEPT !.prom[p].reactions = [x \in Sides |-> Append(q.reactions[x], r[x])]]
    ELSE [d EXCEPT !.unhandled = IF side = 1 /\ ~q.handled THEN Track(@, p, TRUE) ELSE @,
                   !.jobs = Append(@, Job(r[side], side, q.result))]

\* js_promise_then: the result is the last promise.
Then(s, p, f, g) == LET c == NewCapability(s) IN PerformThen(c, p, f, g, Len(c.pair))

\* js_promise_resolve: the promise itself, or the last promise.
StaticResolve(s, v) ==
    IF v[1] = "prom" THEN s
    ELSE LET c == NewCapability(s) IN CallResolving(c, Len(c.pair), 0, v)
Resolved(s, v) == IF v[1] = "prom" THEN v[2] ELSE Len(s.prom) + 1

-----------------------------------------------------------------------------
(***************************************************************************)
(* Calls of functions.                                                     *)
(***************************************************************************)
Hole == [side |-> -1, v |-> Undefined]

\* js_promise_all_resolve_element: the functions of the two sides have each
\* their own alreadyCalled.
CallElement(s, c, n, side, v) ==
    LET C == s.comb[c]
        d == [s EXCEPT !.comb[c] = [C EXCEPT !.called = @ \cup {<<n, side>>},
                                             !.values[n] = [side |-> side, v |-> v],
                                             !.rem = @ - 1]]
    IN
    IF <<n, side>> \in C.called THEN s
    ELSE IF C.rem # 1 THEN d
    ELSE CallResolving(d, C.k, IF C.kind = "any" THEN 1 ELSE 0,
                       <<IF C.kind = "any" THEN "aggregate" ELSE "array", c>>)

\* What a native function does to the promises.
Call(s, h, v) ==
    IF h.fn = "settle" THEN CallResolving(s, h.k, h.side, v)
    ELSE IF h.fn = "element" THEN CallElement(s, h.k, h.n, h.side, v) ELSE s

\* The second half of promise_reaction_job: the outcome of the handler
\* settles the promise that then returned.
Complete(s, cap, side, v) == IF cap = 0 THEN s ELSE CallResolving(s, cap, side, v)

\* Mutant: the value of the callback of finally is passed on.
ReactionUnthunked(s, j) ==
    LET h == j.handler IN
    CASE h.fn = "undefined" \/ h.fn = "thunk" -> Complete(s, j.cap, j.side, j.v)
      [] OTHER -> Complete(Call(s, h, j.v), j.cap, 0, Undefined)

\* promise_reaction_job with a native handler.
Reaction(s, j) ==
    LET h == j.handler IN
    IF h.fn = "undefined" THEN Complete(s, j.cap, j.side, j.v)
    ELSE IF h.fn = "thunk" THEN Complete(s, j.cap, h.side, h.v)
    ELSE Complete(Call(s, h, j.v), j.cap, 0, Undefined)

\* js_promise_then_finally_func once the callback has returned v: wait for v,
\* then go on with the outcome the promise had.
AfterFinally(s, j, v) ==
    LET q == Then(StaticResolve(s, v), Resolved(s, v), Thunk(j.handler.side, j.v), NoHandler)
    IN  Complete(q, j.cap, 0, Promise(Len(q.prom)))

-----------------------------------------------------------------------------
(***************************************************************************)
(* Combinators: js_promise_all (all, allSettled, any) and js_promise_race. *)
(* Their loops run JavaScript code, the iterator's and a then method that  *)
(* is not the built-in one, so that a call takes many steps: it is open    *)
(* until its loop ends.                                                    *)
(***************************************************************************)
\* Mutant: the caller does not count itself.
NewCombinatorZero(s, kind) ==
    LET c == NewCapability(s) IN
    [c EXCEPT !.comb = Append(@, [kind |-> kind, k |-> Len(c.pair), rem |-> 0, called |-> {},
                                  values |-> <<>>, items |-> <<>>, open |-> TRUE])]

\* remainingElementsCount starts with 1 for the caller; a race has no use for it.
NewCombinator(s, kind) ==
    LET c == NewCapability(s) IN
    [c EXCEPT !.comb = Append(@, [kind |-> kind, k |-> Len(c.pair), rem |-> 1, called |-> {},
                                  values |-> <<>>, items |-> <<>>, open |-> TRUE])]

\* The two functions that the then of item n of combinator c is called with.
ItemFns(s, c, n) ==
    LET C == s.comb[c] IN
    Both(IF C.kind \in {"any", "race"} THEN Settle(C.k, 0) ELSE Element(c, n, 0),
         IF C.kind \in {"all", "race"} THEN Settle(C.k, 1) ELSE Element(c, n, 1))

\* One more item: the promise p.
Counted(s, c, p, native) ==
    LET C == s.comb[c] IN
    [s EXCEPT !.comb[c] = [C EXCEPT !.rem = IF C.kind = "race" THEN @ ELSE @ + 1,
                                    !.items = Append(@, [p |-> p, native |-> native]),
                                    !.values = Append(@, Hole)]]

\* One round of the loop: then is the built-in one, or a function of a script.
AddItem(s, c, v, native) ==
    LET p == Resolved(s, v)
        t == Counted(StaticResolve(s, v), c, p, native)
        fns == ItemFns(t, c, Len(t.comb[c].items))
    IN  IF native THEN Then(t, p, fns[0], fns[1])
        ELSE [t EXCEPT !.held = @ \cup {fns[0], fns[1]}]

\* The iterator has no more items.
EndItems(s, c) ==
    LET C == s.comb[c]
        d == [s EXCEPT !.comb[c] = [C EXCEPT !.open = FALSE, !.rem = @ - 1]]
    IN
    IF C.kind = "race" THEN [s EXCEPT !.comb[c].open = FALSE]
    ELSE IF C.rem # 1 THEN d
    ELSE CallResolving(d, C.k, IF C.kind = "any" THEN 1 ELSE 0,
                       <<IF C.kind = "any" THEN "aggregate" ELSE "array", c>>)

\* fail_reject: the iterator or the then of an item has thrown v.
FailItems(s, c, v) == CallResolving([s EXCEPT !.comb[c].open = FALSE], s.comb[c].k, 1, v)

-----------------------------------------------------------------------------
(***************************************************************************)
(* JavaScript code.                                                        *)
(***************************************************************************)
Reasons == {"val"} \X Vals  \* what a promise is rejected with: it is never looked into
\* The promise of a combinator is returned when its loop has ended.
Visible ==
    DOMAIN st.prom \ {st.pair[st.comb[c].k].promise : c \in {x \in DOMAIN st.comb : st.comb[x].open}}
Values == {x \in ({"val"} \X Vals) \cup {Promise(p) : p \in Visible}
                 \cup {<<"thenable", 0>>, <<"broken", 0>>} : x[1] \in Kinds}

\* The bounds, counting what the queued jobs are going to make: two pairs and
\* a promise for a promise that is followed, a pair for another thenable.
Fits(s) ==
    LET followed == Len(SelectSeq(s.jobs, LAMBDA j : j.job = "thenable" /\ j.v[1] = "prom"))
        thenables == Len(SelectSeq(s.jobs, LAMBDA j : j.job = "thenable"))
    IN
    /\ Len(s.prom) + followed <= MaxPromises
    /\ Len(s.pair) + followed + thenables <= MaxPairs
    /\ Len(s.thens) <= MaxPromises
    /\ \A c \in DOMAIN s.comb : Len(s.comb[c].items) <= MaxItems

Script(op, s) ==
    /\ pc = "script"
    /\ op \in Ops
    /\ st' = s
    /\ Fits(s)
    /\ UNCHANGED <<pc, frame>>

\* new Promise: the executor gives the functions away; it may throw.
NewPromise ==
    LET c == NewCapability(st)
        k == Len(c.pair)
        h == [c EXCEPT !.held = @ \cup {Settle(k, 0), Settle(k, 1)}]
    IN \/ Script("new", h)
       \/ \E v \in Reasons : Script("new", CallResolving(h, k, 1, v))

\* A call of a resolving function, or of a function of an item.
CallHeld == \E h \in st.held : \E v \in IF h.side = 0 THEN Values ELSE Reasons :
    Script("settle", Call(st, h, v))

\* Promise.resolve and Promise.reject
Static ==
    \/ \E v \in Values : Script("static", StaticResolve(st, v))
    \/ \E v \in Reasons : LET c == NewCapability(st) IN
          Script("static", CallResolving(c, Len(c.pair), 1, v))

\* p.then and p.catch
CallThen == \E p \in Visible, f, g \in {User, NoHandler} :
    Script("then", Then(st, p, f, g))

\* p.finally
CallFinally == \E p \in Visible :
    LET s == Then(st, p, Finally(0), Finally(1)) IN
    Script("finally", [s EXCEPT !.finals = @ \cup {<<p, Len(s.prom)>>}])

\* await in an async function: no promise for the result.
Await == \E v \in Values :
    Script("await", PerformThen(StaticResolve(st, v), Resolved(st, v), User, User, 0))

\* Promise.all, allSettled, any and race are called.
Combine == \E kind \in {"all", "allSettled", "any", "race"} :
    /\ Len(st.comb) < MaxCombs
    /\ Script(kind, NewCombinator(st, kind))

\* The loop that runs is that of the last call that has not returned.
Innermost(c) ==
    st.comb[c].open /\ \A d \in DOMAIN st.comb : st.comb[d].open => d <= c

CombineItem == \E c \in DOMAIN st.comb : Innermost(c) /\
    \E v \in Values, native \in BOOLEAN : Script(st.comb[c].kind, AddItem(st, c, v, native))

CombineEnd == \E c \in DOMAIN st.comb : Innermost(c) /\
    \/ Script(st.comb[c].kind, EndItems(st, c))
    \/ \E v \in Reasons : Script(st.comb[c].kind, FailItems(st, c, v))

\* The collector of garbage queues a callback.
QueueCallback ==
    /\ Len(SelectSeq(st.jobs, LAMBDA j : j.job = "finrec")) < MaxJobs
    /\ Script("collect", [st EXCEPT !.jobs = Append(@, Simple("finrec"))])

\* The function that was running ends.
Ended(side, v) ==
    IF frame.job = "thenable" THEN IF side = 0 THEN st ELSE CallResolving(st, frame.cap, 1, v)
    ELSE IF frame.job = "reaction"
    THEN IF frame.handler.fn = "finally" /\ side = 0 THEN AfterFinally(st, frame, v)
         ELSE Complete(st, frame.cap, side, v)
    ELSE st

Return == \E side \in Sides : \E v \in IF side = 0 THEN Values ELSE Reasons :
    /\ pc = "script"
    /\ \A c \in DOMAIN st.comb : ~st.comb[c].open
    /\ st' = Ended(side, v)
    /\ Fits(st')
    /\ pc' = IF frame.job = "finrec" /\ side = 1 THEN "check" ELSE "jobs"
    /\ frame' = Main

-----------------------------------------------------------------------------
(***************************************************************************)
(* The host loop.                                                          *)
(***************************************************************************)
\* Mutant: the jobs that wait are gone.
PoppedAll(j) == [st EXCEPT !.jobs = <<>>,
                           !.ran = IF j.job = "reaction" THEN @ \cup {j.n} ELSE @]

\* JS_ExecutePendingJob takes the first job.
Popped(j) == [st EXCEPT !.jobs = Tail(@),
                        !.ran = IF j.job = "reaction" THEN @ \cup {j.n} ELSE @]

IsNative(j) ==
    \/ j.job = "reaction" /\ j.handler.fn \notin {"user", "finally"}
    \/ j.job = "thenable" /\ j.v[1] = "prom"

\* A job that runs no JavaScript code.
RunNative ==
    /\ pc = "jobs"
    /\ st.jobs # <<>>
    /\ LET j == Head(st.jobs)
           c == NewPair(Popped(j), j.promise)
           k == Len(c.pair)
       IN
       /\ IsNative(j)
       /\ st' = IF j.job = "reaction" THEN Reaction(Popped(j), j)
                ELSE Then(c, j.v[2], Settle(k, 0), Settle(k, 1))
    /\ UNCHANGED <<pc, frame>>

\* A job that calls a JavaScript function.
RunScript ==
    /\ pc = "jobs"
    /\ st.jobs # <<>>
    /\ LET j == Head(st.jobs)
           c == NewPair(Popped(j), j.promise)
           k == Len(c.pair)
       IN
       /\ ~IsNative(j)
       /\ IF j.job = "thenable"
          THEN /\ st' = [c EXCEPT !.held = @ \cup {Settle(k, 0), Settle(k, 1)}]
               /\ frame' = Entry("thenable", 0, k, NoHandler, 0, 0, Undefined)
          ELSE st' = Popped(j) /\ frame' = j
    /\ pc' = "script"

\* No job is left.
Drained == pc = "jobs" /\ st.jobs = <<>> /\ pc' = "check" /\ UNCHANGED <<st, frame>>

\* js_std_promise_rejection_check exits; os_poll_func runs a handler or says
\* that there is nothing to wait for.
Check ==
    /\ pc = "check"
    /\ pc' \in IF st.unhandled # {} THEN {"exit"} ELSE {"script", "end"}
    /\ UNCHANGED <<st, frame>>

Next ==
    \/ NewPromise \/ CallHeld \/ Static \/ CallThen \/ CallFinally \/ Await \/ Combine
    \/ CombineItem \/ CombineEnd \/ QueueCallback \/ Return \/ RunNative \/ RunScript \/ Drained \/ Check

Spec == Init /\ [][Next]_vars

\* Functions return and the host loop goes on.
Engine == Return \/ RunNative \/ RunScript \/ Drained
FairSpec == Spec /\ WF_vars(Engine)

-----------------------------------------------------------------------------
(***************************************************************************)
(* Properties.                                                             *)
(***************************************************************************)
\* The types of what the engine keeps: every reference is to something that
\* was made, and a settled promise keeps no reactions.
TypeOK ==
    /\ pc \in {"script", "jobs", "check", "end", "exit"}
    /\ \A p \in DOMAIN st.prom :
          /\ st.prom[p].state \in {"pending", "fulfilled", "rejected"}
          /\ ~Pending(st, p) => st.prom[p].reactions = Both(<<>>, <<>>)
          /\ \A x \in Sides : \A r \in Range(st.prom[p].reactions[x]) : r.cap \in 0..Len(st.pair)
    /\ \A k \in DOMAIN st.pair : st.pair[k].promise \in DOMAIN st.prom
    /\ \A h \in st.held : h.k \in DOMAIN (IF h.fn = "settle" THEN st.pair ELSE st.comb)
    /\ st.unhandled \subseteq DOMAIN st.prom
    /\ frame # Main => pc = "script"

\* fulfill_or_reject_promise returns early for a settled promise, with the
\* comment "should never happen": it never does.  A promise may have several
\* pairs of resolving functions (one for each thenable it follows), but only
\* one that is not used up, and no pair while a thenable waits for its job.
NeverSettledTwice == ~st.twice

\* Where the reactions of then number n wait, in the queue and on side x.
Queued(s, n) == {i \in DOMAIN s.jobs : s.jobs[i].job = "reaction" /\ s.jobs[i].n = n}
Listed(s, n, x) ==
    LET rs == s.prom[s.thens[n].p].reactions[x] IN {i \in DOMAIN rs : rs[i].n = n}

\* Every call of then reacts once: one reaction waits on each side, or one of
\* the two is queued, or one has run, never two of these.  And the reactions
\* of one promise run in the order of the calls of then.
ReactsOnceInOrder ==
    \A n \in DOMAIN st.thens :
        /\ \A x \in Sides :
              Cardinality(Listed(st, n, x)) + Cardinality(Queued(st, n))
              + (IF n \in st.ran THEN 1 ELSE 0) = 1
        /\ n \in st.ran => \A m \in 1..n : st.thens[m].p = st.thens[n].p => m \in st.ran

\* A promise is settled once, and every then on it reacts once.
SettlesAndReactsOnce == TypeOK /\ NeverSettledTwice /\ ReactsOnceInOrder

\* The list of unhandled rejections that decides whether the program exits
\* with an error: it holds the rejected promises on which then was never
\* called, in whatever order rejections and calls of then came.
TrackerExact ==
    st.unhandled = {p \in DOMAIN st.prom : st.prom[p].state = "rejected" /\ ~st.prom[p].handled}

\* The functions that something alive can still call, and the capabilities
\* that reactions settle.
Reactions(s) ==
    (UNION {Range(s.prom[p].reactions[x]) : p \in DOMAIN s.prom, x \in Sides})
    \cup {j \in Range(s.jobs) : j.job = "reaction"}
Functions(s) == s.held \cup {r.handler : r \in Reactions(s)}
Callable(s, f) ==
    {r.cap : r \in Reactions(s)} \cup (IF f.job = "reaction" THEN {f.cap} ELSE {})
    \cup {h.k : h \in {x \in Functions(s) : x.fn = "settle"}}
    \cup {s.comb[h.k].k : h \in {x \in Functions(s) : x.fn = "element"}}
    \cup {C.k : C \in {x \in Range(s.comb) : x.open}}

\* No promise is forgotten: while it is pending there is a job that makes it
\* follow a thenable, or a pair of resolving functions, not used up, that the
\* script, a reaction, a job or a combinator can still call.  Only the promise
\* of a race between nothing is pending for ever.
PendingHasAWay ==
    \A p \in DOMAIN st.prom : Pending(st, p) =>
        \/ \E j \in Range(st.jobs) : j.job = "thenable" /\ j.promise = p
        \/ \E k \in Callable(st, frame) : k # 0 /\ st.pair[k].promise = p /\ ~st.pair[k].done
        \/ \E C \in Range(st.comb) : C.kind = "race" /\ C.items = <<>> /\ st.pair[C.k].promise = p

\* What is pending can be settled, and what is rejected unseen is reported.
NoneForgotten == PendingHasAWay /\ TrackerExact

\* Promise.all, allSettled and any settle with their array when every item
\* has answered, each answer in its own place.  The exception: a then method
\* of its own may call both functions of an item of allSettled, and both
\* count, since each has its own alreadyCalled.
AnswersInPlace ==
    \A c \in DOMAIN st.comb :
        LET C == st.comb[c]
            r == st.prom[st.pair[C.k].promise]
        IN  r.result \in {<<"array", c>>, <<"aggregate", c>>} =>
            \/ \E n \in DOMAIN C.items : {<<n, 0>>, <<n, 1>>} \subseteq C.called
            \/ \A n \in DOMAIN C.values :
                  /\ C.values[n] # Hole
                  /\ C.items[n].native =>
                        LET p == st.prom[C.items[n].p] IN
                        /\ ~Pending(st, C.items[n].p)
                        /\ C.values[n].v = p.result
                        /\ C.values[n].side = IF p.state = "rejected" THEN 1 ELSE 0

\* finally passes an outcome on: when its promise is fulfilled, so is the
\* promise it was called on, with the same value, whatever the callback
\* returned or waited for.
FinallyPassesOn ==
    \A f \in st.finals :
        LET p == st.prom[f[1]]
            d == st.prom[f[2]]
        IN  d.state = "fulfilled" => p.state = "fulfilled" /\ d.result = p.result

\* finally, all, allSettled and any give the outcomes they were given.
OutcomesPassOn == FinallyPassesOn /\ AnswersInPlace

\* A settled promise calls its handlers: a reaction that is queued runs,
\* unless a finalization callback that throws takes js_std_loop out of the
\* loop over the jobs while they wait.
EveryReactionRuns ==
    \A n \in 1..MaxPromises :
        (Queued(st, n) # {}) ~> (n \in st.ran \/ (pc \in {"check", "end", "exit"} /\ st.jobs # <<>>))
=============================================================================
