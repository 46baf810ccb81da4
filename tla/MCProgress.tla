----------------------------- MODULE MCProgress -----------------------------
(***************************************************************************)
(* What must happen in the end, on small instances for TLC and under the   *)
(* fairness of each specification.  A behaviour is about one part; the     *)
(* others stay where they begin.                                           *)
(***************************************************************************)
EXTENDS Integers, Sequences

CONSTANTS t1, t2, cell, o1, o2, weak, NotStr, Null

VARIABLES
    part,
    values, errors, lock, engine, cpc, call, cout, ccalls, storedBy,
    gil, content, ssl, th, pcalls, edits,
    heap, ext, gpc, cont, cur,
    st, jpc, frame,
    pipe, wpc, obj, port, hand, own, sab, sent, got, failed, fault,
    mem, mutex, list, ahead, linked, ptr, value, signalled, expired, spurious,
    counted, count, apc, answer,
    timers, nextId, rw, sh, pending, loop, ready, owed

cvars == <<values, errors, lock, engine, cpc, call, cout, ccalls, storedBy>>
pvars == <<gil, content, ssl, th, pcalls, edits>>
gvars == <<heap, ext, gpc, cont, cur>>
jvars == <<st, jpc, frame>>
wvars == <<pipe, wpc, obj, port, hand, own, sab, sent, got, failed, fault>>
avars == <<mem, mutex, list, ahead, linked, ptr, value, signalled, expired, spurious, counted,
           count, apc, answer>>
lvars == <<timers, nextId, rw, sh, pending, loop, ready, owed>>
vars == <<part, cvars, pvars, gvars, jvars, wvars, avars, lvars>>

\* Two threads call solve_format_url with one request and one cache.
Names == {"n", "signature", "sp"}
Url == [value |-> [x \in Names |-> IF x = "n" THEN [data |-> <<"o">>, passes |-> 0] ELSE Null],
        place |-> [x \in Names |-> 0]]
Cache == INSTANCE SolverCache WITH
    pc <- cpc, out <- cout, calls <- ccalls, Absent <- Null,
    Threads <- {t1, t2}, Assets <- {o1}, Players <- {"p"}, Challenges <- {"c"},
    PlayerOf <- [i \in {o1} |-> "p"], HasCache <- [i \in {o1} |-> TRUE],
    ServedBy <- [t \in {t1, t2} |-> {o1}], ParamNames <- Names,
    Once <- [x \in Names |-> x], Order <- [x \in Names |-> 0], Originals <- {<<"o">>},
    Formats <- {[url |-> Url, sp |-> "sp", requests |-> <<[type |-> "sig", challenge |-> "c"]>>]},
    ErrorTexts <- {"unsolved"}, Thrown <- {"thrown"}, MaxCalls <- 1

\* One thread calls from Python, with a good item and a bad one behind it.
Py == INSTANCE PyBoundary WITH
    calls <- pcalls, Threads <- {t1}, Texts <- {<<"sig">>, <<"c">>},
    Contents <- {<<[isDict |-> TRUE, type |-> <<"sig">>, challenge |-> <<"c">>]>>,
                 <<[isDict |-> TRUE, type |-> <<"sig">>, challenge |-> <<"c">>],
                   [isDict |-> FALSE, type |-> Null, challenge |-> Null]>>},
    MaxCalls <- 1, MaxEdits <- 1

\* Two objects and a WeakRef.
Gc == INSTANCE JSGc WITH
    pc <- gpc, Ids <- {o1, o2, weak}, NSlots <- 1, MaxJobs <- 0,
    Class <- [i \in {o1, o2, weak} |-> IF i = weak THEN "weakref" ELSE "object"]

\* await and finalization callbacks.
Jobs == INSTANCE JSPromise WITH
    pc <- jpc, Ops <- {"static", "await", "collect"}, Kinds <- {"val", "prom"}, Vals <- {1},
    MaxPromises <- 2, MaxPairs <- 3, MaxCombs <- 0, MaxItems <- 0, MaxJobs <- 1

Worker == INSTANCE JSWorker WITH pc <- wpc, MaxMessages <- 2, MaxOwn <- 1, MayFail <- FALSE
Wait == INSTANCE JSAtomics WITH
    pc <- apc, NoOne <- Null, Threads <- {t1, t2}, Cells <- {cell}, Counts <- {2}
Loop == INSTANCE JSEventLoop WITH
    Toks <- {t1, t2}, Fds <- {3}, Sigs <- {}, None <- Null,
    MaxDelay <- 1, MaxSleep <- 1, MaxId <- 2, MaxOps <- 1

ASSUME /\ Py!PyBoundaryAssumption /\ Gc!GcAssumption /\ Jobs!PromiseAssumption
       /\ Worker!WorkerAssumption /\ Wait!AtomicsAssumption /\ Loop!LoopAssumption

-----------------------------------------------------------------------------
CacheDoes(step) ==
    /\ part = "cache" /\ step
    /\ UNCHANGED <<part, pvars, gvars, jvars, wvars, avars, lvars>>
PyDoes(step) ==
    /\ part = "py" /\ step
    /\ UNCHANGED <<part, cvars, gvars, jvars, wvars, avars, lvars>>
GcDoes(step) ==
    /\ part = "gc" /\ step
    /\ UNCHANGED <<part, cvars, pvars, jvars, wvars, avars, lvars>>
JobsDo(step) ==
    /\ part = "jobs" /\ step
    /\ UNCHANGED <<part, cvars, pvars, gvars, wvars, avars, lvars>>
\* Bound: the worker is sent messages, without buffers, and sends none itself,
\* and no script collects a buffer.
WorkerDoes(step) ==
    /\ part = "worker" /\ step
    /\ wpc'["worker"] # "lock" /\ ~hand'["main"].sab
    /\ own' # own => wpc' # wpc
    /\ UNCHANGED <<part, cvars, pvars, gvars, jvars, avars, lvars>>
WaitDoes(step) ==
    /\ part = "wait" /\ step
    /\ UNCHANGED <<part, cvars, pvars, gvars, jvars, wvars, lvars>>
LoopDoes(step) ==
    /\ part = "loop" /\ step
    /\ UNCHANGED <<part, cvars, pvars, gvars, jvars, wvars, avars>>

Init ==
    /\ part \in {"cache", "py", "gc", "jobs", "worker", "wait", "loop"}
    /\ Cache!Init /\ Py!Init /\ Gc!Init /\ Jobs!Init /\ Worker!Init /\ Wait!Init /\ Loop!LoopInit

Next ==
    \/ CacheDoes(Cache!Next) \/ PyDoes(Py!Next) \/ GcDoes(Gc!Next) \/ JobsDo(Jobs!Next)
    \/ WorkerDoes(Worker!Next) \/ WaitDoes(Wait!Next) \/ LoopDoes(Loop!LoopNext)

\* The fairness of the specifications.  A behaviour has one part, so that the
\* conditions of different parts may share a formula.
FairSpec ==
    /\ Init /\ [][Next]_vars
    /\ WF_vars(\/ CacheDoes(Cache!Step(t1)) \/ PyDoes(Py!Step(t1)) \/ GcDoes(Gc!Collector)
               \/ JobsDo(Jobs!Engine) \/ WorkerDoes(Worker!Step("main")) \/ LoopDoes(Loop!Loop))
    /\ WF_vars(\/ CacheDoes(Cache!Step(t2)) \/ WorkerDoes(Worker!Step("worker"))
               \/ LoopDoes(Loop!Tick))
    /\ WF_vars(WorkerDoes(Worker!Import))
    /\ SF_vars(WaitDoes(Wait!Step(t1))) /\ SF_vars(WaitDoes(Wait!Step(t2)))

-----------------------------------------------------------------------------
(***************************************************************************)
(* The properties: those of the modules, those of one subject together.    *)
(***************************************************************************)

\* solve_format_url returns, also when the engine throws in another thread, and
\* a call from Python returns unless a server keeps https_request for ever.
CallsReturn == Cache!EveryCallReturns /\ Py!PyCallReturns

\* JS_RunGC and free_zero_refcount come to an end, and js_std_loop runs every
\* reaction that is queued, unless a callback that throws has taken it out of
\* its loop.
EngineGoesOn == Gc!CollectionEnds /\ Jobs!EveryReactionRuns

\* js_os_poll takes every message as long as there is a handler, and calls every
\* timer that is not cancelled, unless signals come without end;
\* js_atomics_notify wakes who sleeps on a value that is gone, and nobody begins
\* to after the notify, where every notify is for all.
NobodyWaitsForEver ==
    /\ Worker!MessagesArrive
    /\ []Wait!NeverSleepsLate /\ Wait!NoLostWakeup
    /\ Loop!EveryTimerFires
=============================================================================
