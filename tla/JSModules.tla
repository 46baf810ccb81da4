------------------------------ MODULE JSModules ------------------------------
(***************************************************************************)
(* Modules of QuickJS: loading with all requirements, linking, and the     *)
(* evaluation of graphs with cycles in which modules may await at the top  *)
(* level.  Loading, linking and evaluation of an import run without        *)
(* interruption (import() is a job); what may come in any order are the    *)
(* imports of the program and the ends of the modules that await.          *)
(*                                                                         *)
(* What a module does is fixed at the beginning: it cannot be loaded, it   *)
(* imports a name that does not exist, it throws, it awaits (tla).         *)
(***************************************************************************)
EXTENDS Integers, Sequences, SequencesExt, FiniteSetsExt

CONSTANTS
    Modules,
    Graphs,      \* req_module_entries of each module, the graphs to look at
    Kinds,       \* Kind of each module, the assignments to look at
    MaxImports,  \* bound: imports by the program
    Null         \* no module, no error

Kind == {"plain", "throws", "tla", "tla throws", "unlinkable", "missing"}

ModulesAssumption ==
    /\ Graphs \subseteq [Modules -> Seq(Modules)] /\ Kinds \subseteq [Modules -> Kind]
    /\ MaxImports \in Nat /\ Null \notin Modules

VARIABLES
    graph, kind,  \* chosen at the beginning
    mods,         \* JSModuleDef of each module and the runtime, see NoModules
    awaiting,     \* modules that are awaiting at the top level
    imports,      \* how many imports there were
    log           \* history: bodies that started or were completed

vars == <<graph, kind, mods, awaiting, imports, log>>

NoDef ==
    [loaded |-> FALSE,        \* in loaded_modules
     wild |-> FALSE,          \* refers to a module that was freed
     status |-> "UNLINKED",
     index |-> 0,             \* dfs_index
     low |-> 0,               \* dfs_ancestor_index
     pending |-> 0,           \* pending_async_dependencies
     parents |-> <<>>,        \* async_parent_modules
     async |-> FALSE,         \* async_evaluation
     stamp |-> 0,             \* async_evaluation_timestamp
     root |-> Null,           \* cycle_root
     error |-> Null,          \* eval_exception: the module that threw it
     promise |-> "none"]

NoModules ==
    [def |-> [m \in Modules |-> NoDef],
     stamp |-> 1,             \* module_async_evaluation_next_timestamp
     stack |-> <<>>,          \* stack_top, the last one
     begun |-> <<>>,          \* bodies begun in this step, in this order
     fault |-> FALSE]         \* an assert failed

Init ==
    /\ graph \in Graphs /\ kind \in Kinds
    /\ mods = NoModules /\ awaiting = {} /\ imports = 0 /\ log = <<>>

HasTla(m) == kind[m] \in {"tla", "tla throws"}
Throws(m) == kind[m] \in {"throws", "tla throws"}

Check(s, holds) == [s EXCEPT !.fault = @ \/ ~holds]
Put(s, ms, status) == [s EXCEPT !.def = [m \in Modules |->
                          IF m \in ms THEN [@[m] EXCEPT !.status = status] ELSE @[m]]]

\* What a recursive function returns: the modules, and whether all is well or
\* the module whose error it is.
Ok(s) == [s |-> s, error |-> Null]
Bad(s, m) == [s |-> s, error |-> m]

-----------------------------------------------------------------------------
(***************************************************************************)
(* Loading: js_host_resolve_imported_module, the compilation of a module   *)
(* and js_resolve_module, which loads what it requires.                    *)
(***************************************************************************)
\* A module that is freed: those that refer to it keep their pointers.
FreeModule(s, m) ==
    [s EXCEPT !.def = [n \in Modules |->
        IF n = m THEN NoDef
        ELSE [@[n] EXCEPT !.wild = @ \/ (s.def[n].loaded /\ Contains(graph[n], m))]]]

RECURSIVE Load(_, _)

\* What a module requires, up to the first that cannot be loaded.
LoadRequired(s, m) ==
    FoldLeft(LAMBDA r, n : IF r.error # Null THEN r ELSE Load(r.s, n), Ok(s), graph[m])

\* A module whose requirements cannot be loaded is freed.
Loaded(r, m) == IF r.error # Null THEN Bad(FreeModule(r.s, m), r.error) ELSE r

Load(s, m) ==
    IF s.def[m].loaded THEN Ok(s)
    ELSE IF kind[m] = "missing" THEN Bad(s, m)
    ELSE Loaded(LoadRequired([s EXCEPT !.def[m].loaded = TRUE], m), m)

\* The modules that a graph of imports leads to.
Reach(m) == FoldLeft(LAMBDA r, k : r \cup UNION {Range(graph[n]) : n \in r}, {m},
                     [k \in 1..Cardinality(Modules) |-> k])

-----------------------------------------------------------------------------
(***************************************************************************)
(* Linking.                                                                *)
(***************************************************************************)
Push(s, m, status, index) ==
    [Put(s, {m}, status) EXCEPT !.stack = Append(@, m), !.def[m].index = index, !.def[m].low = index]

Lower(s, m, n) ==
    [s EXCEPT !.def[m].low = Min({@, s.def[n].low})]

\* What is on the stack from m on.
Popped(s, m) == Range(SubSeq(s.stack, SelectInSeq(s.stack, LAMBDA x : x = m), Len(s.stack)))
Pop(s, m) == [s EXCEPT !.stack = SubSeq(@, 1, SelectInSeq(@, LAMBDA x : x = m) - 1)]

\* The index of the next module: QuickJS passes it along.
RECURSIVE InnerLinking(_, _, _)

\* js_inner_module_linking, one required module; r.index is the index it
\* returns.
LowerIf(s, m, n, status) == IF s.def[n].status = status THEN Lower(s, m, n) ELSE s
RequiredLinked(r, m, n) ==
    IF r.error # Null THEN r
    ELSE [r EXCEPT !.s = LowerIf(Check(@, @.def[n].status \in
                {"LINKING", "LINKED", "EVALUATING_ASYNC", "EVALUATED"}), m, n, "LINKING")]
LinkRequired(r, m, n) ==
    IF r.error # Null THEN r ELSE RequiredLinked(InnerLinking(r.s, n, r.index), m, n)

\* The root of a cycle takes it off the stack.
CloseLinked(s, m) ==
    IF s.def[m].index = s.def[m].low THEN Pop(Put(s, Popped(s, m), "LINKED"), m)
    ELSE Check(s, s.def[m].low <= s.def[m].index)
Linked(r, m) ==
    IF r.error # Null THEN r
    ELSE IF kind[m] = "unlinkable" THEN [r EXCEPT !.error = m]
    ELSE [r EXCEPT !.s = CloseLinked(@, m)]

InnerLinking(s, m, index) ==
    IF s.def[m].status \in {"LINKING", "LINKED", "EVALUATING_ASYNC", "EVALUATED"}
    THEN [s |-> s, error |-> Null, index |-> index]
    ELSE Linked(FoldLeft(LAMBDA r, n : LinkRequired(r, m, n),
                    [s |-> Push(Check(s, s.def[m].status = "UNLINKED"), m, "LINKING", index),
                     error |-> Null, index |-> index + 1],
                    graph[m]), m)

\* Mutant: what was on the stack stays in the middle of linking.
UnlinkNot(s) == [s EXCEPT !.stack = <<>>]

\* After an error all on the stack are as before.
Unlink(s) == [Put(s, Range(s.stack), "UNLINKED") EXCEPT !.stack = <<>>]

\* js_link_module
LinkDone(r, m) ==
    IF r.error # Null
    THEN Bad(Unlink(Check(r.s, \A n \in Range(r.s.stack) : r.s.def[n].status = "LINKING")), r.error)
    ELSE Ok(Check(r.s, r.s.stack = <<>>
                       /\ r.s.def[m].status \in {"LINKED", "EVALUATING_ASYNC", "EVALUATED"}))
Link(s, m) ==
    LinkDone(InnerLinking(Check(s, s.def[m].status \in
                 {"UNLINKED", "LINKED", "EVALUATING_ASYNC", "EVALUATED"}), m, 0), m)

-----------------------------------------------------------------------------
(***************************************************************************)
(* Evaluation.                                                             *)
(***************************************************************************)
Begin(s, m) == [s EXCEPT !.begun = Append(@, m)]
Settle(s, m, how) == [s EXCEPT !.def[m].promise = IF @ = "pending" THEN how ELSE @]

\* Mutant: who waits is counted but not noted.
AwaitUnnoted(s, m, n) == [s EXCEPT !.def[m].pending = @ + 1]

\* m waits for n.
Await(s, m, n) == [s EXCEPT !.def[m].pending = @ + 1, !.def[n].parents = Append(@, m)]

\* Mutant: the module itself instead of the root of its cycle.
WaitsForItself(s, n) == n

\* Whom to wait for: a module that is being evaluated, or the root of the
\* cycle of one that was.
WaitsFor(s, n) == IF s.def[n].status = "EVALUATING" THEN n ELSE s.def[n].root

RECURSIVE InnerEvaluation(_, _, _)

\* One required module in js_inner_module_evaluation; w is whom to wait for.
AwaitIfAsync(s, m, w) == IF s.def[w].async THEN Await(s, m, w) ELSE s
RequiredEvaluated(r, m, n, w) ==
    IF r.error # Null THEN r
    ELSE IF r.s.def[n].status = "EVALUATING"
    THEN [r EXCEPT !.s = AwaitIfAsync(Lower(@, m, n), m, w)]
    ELSE IF r.s.def[w].error # Null THEN [r EXCEPT !.error = r.s.def[w].error]
    ELSE [r EXCEPT !.s = AwaitIfAsync(Check(@,
                /\ @.def[n].status \in {"EVALUATING_ASYNC", "EVALUATED"}
                /\ @.def[w].status \in {"EVALUATING_ASYNC", "EVALUATED"}), m, w)]
Required(r, m, n) == RequiredEvaluated(r, m, n, WaitsFor(r.s, n))
EvalRequired(r, m, n) ==
    IF r.error # Null THEN r ELSE Required(InnerEvaluation(r.s, n, r.index), m, n)

StartAsync(s, m) ==
    [Check(s, ~s.def[m].async) EXCEPT !.def[m].async = TRUE, !.def[m].stamp = s.stamp, !.stamp = @ + 1]

\* The end of a cycle: everybody on the stack down to its root m.
CloseCycle(s, m) ==
    LET ms == Popped(s, m) IN
    [Pop(s, m) EXCEPT !.def = [n \in Modules |->
        IF n \notin ms THEN @[n]
        ELSE [@[n] EXCEPT !.status = IF s.def[n].async THEN "EVALUATING_ASYNC" ELSE "EVALUATED",
                          !.root = m]]]

CloseIfRoot(s, m) ==
    IF s.def[m].low = s.def[m].index THEN CloseCycle(s, m)
    ELSE Check(s, s.def[m].low < s.def[m].index)

\* A module whose requirements are done runs, unless some of them await.
Evaluated(r, m) ==
    IF r.error # Null THEN r
    ELSE IF r.s.def[m].pending > 0 THEN [r EXCEPT !.s = CloseIfRoot(StartAsync(@, m), m)]
    ELSE IF HasTla(m) THEN [r EXCEPT !.s = CloseIfRoot(Begin(StartAsync(@, m), m), m)]
    ELSE IF Throws(m) THEN [r EXCEPT !.s = Begin(@, m), !.error = m]
    ELSE [r EXCEPT !.s = CloseIfRoot(Begin(@, m), m)]

\* js_inner_module_evaluation
InnerEvaluation(s, m, index) ==
    IF s.def[m].status \in {"EVALUATING_ASYNC", "EVALUATED"}
    THEN [s |-> s, error |-> s.def[m].error, index |-> index]
    ELSE IF s.def[m].status = "EVALUATING" THEN [s |-> s, error |-> Null, index |-> index]
    ELSE Evaluated(FoldLeft(LAMBDA r, n : EvalRequired(r, m, n),
                       [s |-> Push([Check(s, s.def[m].status = "LINKED")
                                       EXCEPT !.def[m].pending = 0], m, "EVALUATING", index),
                        error |-> Null, index |-> index + 1],
                       graph[m]), m)

\* An error: everybody on the stack fails with it.
FailStack(s, m, error) ==
    [Check(s, \A n \in Range(s.stack) : s.def[n].status = "EVALUATING")
        EXCEPT !.stack = <<>>,
               !.def = [n \in Modules |->
                   IF ~Contains(s.stack, n) THEN @[n]
                   ELSE [@[n] EXCEPT !.status = "EVALUATED", !.error = error, !.root = m]]]
Rejects(s, m) ==
    Settle(Check(s, s.def[m].status = "EVALUATED" /\ s.def[m].error # Null), m, "rejected")
EvaluateDone(r, m) ==
    IF r.error # Null THEN Rejects(FailStack(r.s, m, r.error), m)
    ELSE IF r.s.def[m].async
    THEN Check(r.s, /\ r.s.def[m].status \in {"EVALUATING_ASYNC", "EVALUATED"}
                    /\ r.s.def[m].error = Null /\ r.s.stack = <<>>)
    ELSE Settle(Check(r.s, /\ r.s.def[m].status = "EVALUATED"
                           /\ r.s.def[m].error = Null /\ r.s.stack = <<>>), m, "fulfilled")

\* js_evaluate_module: the promise is that of the root of the cycle.
EvaluateRoot(s, m) ==
    IF s.def[m].promise # "none" THEN s
    ELSE EvaluateDone(InnerEvaluation([s EXCEPT !.def[m].promise = "pending"], m, 0), m)
Evaluate(s, m) ==
    EvaluateRoot(Check(s, s.def[m].status \in {"LINKED", "EVALUATING_ASYNC", "EVALUATED"}),
                 IF s.def[m].status = "LINKED" THEN m ELSE s.def[m].root)

-----------------------------------------------------------------------------
(***************************************************************************)
(* The end of a module that awaited.                                       *)
(***************************************************************************)
SettleRoot(s, m, how) == Settle(Check(s, s.def[m].promise = "none" \/ s.def[m].root = m), m, how)

\* js_set_module_evaluated
SetEvaluated(s, m) ==
    SettleRoot([s EXCEPT !.def[m].status = "EVALUATED", !.def[m].async = FALSE], m, "fulfilled")

\* What the asserts say of a module that has not come to its end.
StillAsync(s, m) ==
    s.def[m].status = "EVALUATING_ASYNC" /\ s.def[m].error = Null /\ s.def[m].async

RECURSIVE Rejected(_, _, _)

\* js_async_module_execution_rejected: everybody who waits fails too.
Rejected(s, m, error) ==
    IF s.def[m].status = "EVALUATED" THEN Check(s, s.def[m].error # Null)
    ELSE SettleRoot(FoldLeft(LAMBDA x, p : Rejected(x, p, error),
                        [Check(s, StillAsync(s, m)) EXCEPT
                            !.def[m].status = "EVALUATED", !.def[m].error = error,
                            !.def[m].async = FALSE],
                        s.def[m].parents), m, "rejected")

RECURSIVE Gather(_, _)

\* gather_available_ancestors; a.list is exec_list.
Listed(a, p) == [a EXCEPT !.list = Append(@, p)]
ListIfReady(a, p) ==
    IF a.s.def[p].pending > 0 THEN a
    ELSE IF HasTla(p) THEN Listed(a, p) ELSE Gather(Listed(a, p), p)
GatherParent(a, p) ==
    IF Contains(a.list, p) \/ a.s.def[a.s.def[p].root].error # Null THEN a
    ELSE ListIfReady([a EXCEPT !.s = [Check(@, StillAsync(@, p) /\ @.def[p].pending > 0)
                                         EXCEPT !.def[p].pending = @ - 1]], p)

Gather(a, m) == FoldLeft(GatherParent, a, a.s.def[m].parents)

\* Mutant: as they were gathered, the last first.
InOrderReversed(s, list) == Reverse(list)

\* By increasing async_evaluation_timestamp.
InOrder(s, list) == SortSeq(list, LAMBDA p, q : s.def[p].stamp < s.def[q].stamp)

\* Execution of a module that has nothing left to wait for.
Execute(s, m) ==
    IF s.def[m].status = "EVALUATED" THEN Check(s, s.def[m].error # Null)
    ELSE IF HasTla(m) THEN Begin(s, m)
    ELSE IF Throws(m) THEN Rejected(Begin(s, m), m, m)
    ELSE SetEvaluated(Begin(s, m), m)

\* js_async_module_execution_fulfilled
ExecuteAll(a) == FoldLeft(Execute, a.s, InOrder(a.s, a.list))
Fulfilled(s, m) ==
    IF s.def[m].status = "EVALUATED" THEN Check(s, s.def[m].error # Null)
    ELSE ExecuteAll(Gather([s |-> SetEvaluated(Check(s, StillAsync(s, m)), m), list |-> <<>>], m))

-----------------------------------------------------------------------------
(***************************************************************************)
(* What happens.                                                           *)
(***************************************************************************)
\* A step of the runtime: bodies that begin either await or are through.
Step(s, before) ==
    LET event(m) == IF HasTla(m) \/ Throws(m) THEN << <<"start", m>> >>
                    ELSE << <<"start", m>>, <<"done", m>> >>
    IN
    /\ mods' = [s EXCEPT !.begun = <<>>]
    /\ awaiting' = (awaiting \cup {m \in Range(s.begun) : HasTla(m)}) \ Range([k \in 1..Len(before) |-> before[k][2]])
    /\ log' = FoldLeft(LAMBDA l, m : l \o event(m), log \o before, s.begun)
    /\ UNCHANGED <<graph, kind>>

\* JS_LoadModule or import(): load, link, evaluate.  Not if a module that was
\* freed would be needed (see NoFault).
LinkedOnly(r, m) == IF r.error # Null THEN r.s ELSE Evaluate(r.s, m)
LoadedOnly(r, m) == IF r.error # Null THEN r.s ELSE LinkedOnly(Link(r.s, m), m)
Import(m) ==
    LET l == Load(mods, m) IN
    /\ imports < MaxImports
    /\ l.error # Null \/ \A n \in Reach(m) : ~l.s.def[n].wild
    /\ imports' = imports + 1
    /\ Step(LoadedOnly(l, m), <<>>)

\* A module that awaits comes to its end.
Complete(m) ==
    /\ m \in awaiting
    /\ Step(IF Throws(m) THEN Rejected(mods, m, m) ELSE Fulfilled(mods, m),
            << <<IF Throws(m) THEN "threw" ELSE "done", m>> >>)
    /\ UNCHANGED imports

Next == \E m \in Modules : Import(m) \/ Complete(m)

Spec == Init /\ [][Next]_vars

-----------------------------------------------------------------------------
(***************************************************************************)
(* Properties.                                                             *)
(***************************************************************************)
Did(what, m) == \E k \in DOMAIN log : log[k] = <<what, m>>
Cycle(m) == {n \in Reach(m) : m \in Reach(n)}

\* Between steps no module is in the middle of linking or evaluation, and
\* whoever waits is one of those that are waited for.
TypeOK ==
    \A m \in Modules : LET d == mods.def[m] IN
        /\ d.status \in {"UNLINKED", "LINKED", "EVALUATING_ASYNC", "EVALUATED"}
        /\ d.root \in Modules \cup {Null} /\ d.error \in Modules \cup {Null}
        /\ d.promise \in {"none", "pending", "fulfilled", "rejected"}
        /\ d.pending \in Nat
        /\ d.status = "EVALUATING_ASYNC" => d.async
        /\ d.async => d.status = "EVALUATING_ASYNC" \/ d.error # Null

\* No assert of the functions modelled here fails, in any graph and any order
\* of imports and completions.  (An import that needs a module which was freed
\* when one of its other requirements could not be loaded is left out: the
\* code frees the module and not those that refer to it.)
NoFault == ~mods.fault

\* A module runs after each module it imports that is not of its own cycle and
\* after all that stands behind that one; and it runs once.
DependenciesFirst ==
    \A k \in DOMAIN log : log[k][1] = "start" =>
        /\ \A n \in Range(graph[log[k][2]]) \ Cycle(log[k][2]) : \A d \in Reach(n) :
              \E j \in 1..(k - 1) : log[j] = <<"done", d>>
        /\ \A j \in 1..(k - 1) : log[j] # log[k]

\* The promise of an import is fulfilled only when everything behind it is
\* done, and rejected only because something behind it has failed.
PromiseTellsTheGraph ==
    \A m \in Modules :
        /\ mods.def[m].promise = "fulfilled" => \A d \in Reach(m) : Did("done", d)
        /\ mods.def[m].promise = "rejected" =>
              mods.def[m].error \in Reach(m) /\ Throws(mods.def[m].error) /\ Did("start", mods.def[m].error)

\* Every import is answered by the time the modules that await have come to
\* their end: also in cycles, and when one of several requirements fails.
EveryImportAnswered ==
    awaiting = {} => \A m \in Modules : mods.def[m].promise # "pending"
=============================================================================
