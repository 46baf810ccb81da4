------------------------------ MODULE MCJSJobs ------------------------------
(***************************************************************************)
(* Promises (JSPromise) and the event loop (JSEventLoop) on small          *)
(* instances for TLC.  A behaviour is about one part.  The parts of        *)
(* JSPromise differ in what the scripts do: the constants that bound it    *)
(* are the largest, and each part has its own.  The properties are those   *)
(* of the two modules.                                                     *)
(***************************************************************************)
EXTENDS JSPromise, JSEventLoop

CONSTANTS t1, t2

VARIABLE part

mcvars == <<part, vars, loopVars>>

MCToks == {t1, t2}

\* Resolving functions, thenables, reactions and the rejection tracker.
Thens == INSTANCE JSPromise WITH
    Ops <- {"new", "settle", "then"}, Kinds <- {"val", "prom", "thenable", "broken"},
    MaxPromises <- 3, MaxPairs <- 5, MaxCombs <- 0, MaxItems <- 0, MaxJobs <- 0

\* finally, with callbacks that return promises.
Finals == INSTANCE JSPromise WITH
    Ops <- {"new", "settle", "finally"}, Kinds <- {"val", "prom"},
    MaxPromises <- 5, MaxPairs <- 6, MaxCombs <- 0, MaxItems <- 0, MaxJobs <- 0

\* The combinators, with items that answer at once, late, twice or never.
Combines == INSTANCE JSPromise WITH
    Ops <- {"new", "settle", "all", "allSettled", "any", "race"}, Kinds <- {"val", "prom"},
    MaxPromises <- 4, MaxPairs <- 5, MaxCombs <- 1, MaxItems <- 2, MaxJobs <- 0

\* await, and finalization callbacks among the jobs of the host loop.
HostLoop == INSTANCE JSPromise WITH
    Ops <- {"static", "await", "collect"}, Kinds <- {"val", "prom"},
    MaxPromises <- 2, MaxPairs <- 3, MaxCombs <- 0, MaxItems <- 0, MaxJobs <- 1

ASSUME PromiseAssumption /\ LoopAssumption

\* Bounds: a combinator has up to two promises of scripts, all made before it,
\* and nothing follows a promise; two timers and one signal, or one timer and
\* two signals.
InPart ==
    CASE part = "combine" -> /\ \A i \in DOMAIN st'.jobs : st'.jobs[i].job # "thenable"
                             /\ st'.comb = <<>> => Len(st'.prom) <= 2
                             /\ st.comb # <<>> /\ st'.held # st.held => st'.comb # st.comb
      [] part = "timers"  -> \A n \in DOMAIN sh' : sh'[n] # 15
      [] part = "signals" -> \A n \in DOMAIN timers' : timers'[n].tok # t2
      [] OTHER -> TRUE

MCInit ==
    /\ part \in {"thens", "finally", "combine", "loop", "timers", "signals"}
    /\ Init /\ LoopInit

MCNext ==
    /\ \/ /\ \/ part = "thens" /\ Thens!Next
             \/ part = "finally" /\ Finals!Next
             \/ part = "combine" /\ Combines!Next
             \/ part = "loop" /\ HostLoop!Next
          /\ UNCHANGED <<part, loopVars>>
       \/ part \in {"timers", "signals"} /\ LoopNext /\ UNCHANGED <<part, vars>>
    /\ InPart

MCSpec == MCInit /\ [][MCNext]_mcvars
=============================================================================
