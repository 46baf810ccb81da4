----------------------------- MODULE MCJSMemory -----------------------------
(***************************************************************************)
(* Objects and the collector, Maps and WeakMaps, and shared memory         *)
(* (JSAtomics) on small instances for TLC.  A behaviour is about one part; *)
(* the others stay where they begin.                                       *)
(***************************************************************************)
EXTENDS JSAtomics, Sequences

CONSTANTS t1, t2, t3, cell1, cell2, o1, o2, var, weak, reg, Null, Done

VARIABLES part, heap, ext, gpc, cont, cur, map, dead, log, idx, out

gvars == <<heap, ext, gpc, cont, cur>>
mvars == <<map, dead, log, idx, out>>
mcvars == <<part, vars, gvars, mvars>>

MCThreads == {t1, t2, t3}
MCCells == {cell1, cell2}

\* Two objects, a variable of closures, a WeakRef and a FinalizationRegistry.
Class == [i \in {o1, o2, var, weak, reg} |->
    CASE i = var -> "varref" [] i = weak -> "weakref" [] i = reg -> "finrec" [] OTHER -> "object"]

G == INSTANCE JSGc WITH pc <- gpc, Ids <- {o1, o2, var, weak, reg}, NSlots <- 2, MaxJobs <- 1
M == INSTANCE JSMap WITH Ids <- 1..5, Keys <- 0..4, Iters <- 1..2, Weak <- FALSE, MaxLog <- 6
WM == INSTANCE JSMap WITH Ids <- 1..5, Keys <- 0..4, Iters <- 1..2, Weak <- TRUE, MaxLog <- 6

ASSUME AtomicsAssumption /\ G!GcAssumption /\ M!MapAssumption /\ WM!MapAssumption

\* Bounds: which structures a part has, and whether objects have a second slot;
\* a Map is small and has iterators, or grows while one iterator stands on its
\* records; a WeakMap grows and has none.  Three threads share one cell, two share two.
InPart ==
    CASE part = "closures" -> weak \notin heap.alloc /\ reg \notin heap.alloc
      [] part = "weakrefs" -> var \notin heap.alloc /\ reg \notin heap.alloc
      [] part = "both"     -> reg \notin heap.alloc /\ \A o \in {o1, o2} : heap.slots[o][2] = Null
      [] part = "registry" -> /\ var \notin heap.alloc /\ weak \notin heap.alloc
                              /\ \A o \in {o1, o2} : heap.slots[o][2] = Null
      [] part = "map"      -> /\ Len(log) <= 4 /\ map.alloc \subseteq 1..3
                              /\ \A n \in DOMAIN log : log[n].key <= 2
      [] part = "growing"  -> /\ ~map.it[2].obj /\ ~map.it[1].stored
                              /\ Len(log) <= 5 /\ \A n \in DOMAIN log : log[n].key = n - 1
      [] part = "weakmap"  -> /\ \A i \in 1..2 : ~map.it[i].obj
                              /\ \A n \in DOMAIN log : n <= 5 => log[n].key = n - 1
      [] part = "one cell" -> \A t \in Threads : ptr[t] # cell2
      [] part = "two cells" -> pc[t3] = "run" /\ answer[t3] = "none"

\* Addresses, iterators and new keys are interchangeable: the lowest is taken.
LowestFirst ==
    /\ o2 \in heap'.alloc \ heap.alloc => o1 \in heap.alloc
    /\ \A q \in map'.alloc \ map.alloc : 1..(q - 1) \subseteq map.alloc
    /\ \A n \in DOMAIN log' : log'[n].key < n
    /\ map'.it[2].obj => map.it[1].obj \/ map.it[2].obj

MCInit ==
    /\ part \in {"closures", "weakrefs", "both", "registry", "map", "growing",
                 "weakmap", "one cell", "two cells"}
    /\ G!Init /\ M!Init /\ Init

MCNext ==
    \/ /\ part \in {"closures", "weakrefs", "both", "registry"}
       /\ G!Next /\ UNCHANGED <<part, vars, mvars>>
       /\ InPart' /\ LowestFirst
    \/ /\ \/ part \in {"map", "growing"} /\ M!Next
          \/ part = "weakmap" /\ WM!Next
       /\ UNCHANGED <<part, vars, gvars>>
       /\ InPart' /\ LowestFirst
    \/ /\ part \in {"one cell", "two cells"}
       /\ Next /\ UNCHANGED <<part, gvars, mvars>>
       /\ InPart'

MCSpec == MCInit /\ [][MCNext]_mcvars

\* The history of a WeakMap is only counted.
MCView ==
    <<part, vars, gvars, map, dead, IF part = "weakmap" THEN Len(log) ELSE <<log, idx, out>> >>

-----------------------------------------------------------------------------
(***************************************************************************)
(* The properties: WaitersAnswerNotify of JSAtomics, and those of the      *)
(* modules, those of one subject together.                                 *)
(***************************************************************************)

\* JS_RunGC and free_zero_refcount free nothing that JavaScript or a queued job
\* can reach; their asserts hold, and nothing is used or freed after a free, in
\* whatever order cycles, variables and weak references go.
ReachableKept == G!TypeOK /\ G!NoFault /\ G!ReachableKept

\* Between operations every ref_count is right: gc_scan restores what gc_decref
\* took away.
CountsExact == G!CountsExact

\* JS_RunGC leaves nothing that is out of reach, but for dead structures that a
\* WeakRef names, and after JS_FreeRuntime nothing at all is left.
CollectsGarbage == G!CollectsGarbage /\ G!NothingLeftAtEnd

\* A FinalizationRegistry queues one job per target, for targets out of reach.
CallbackForTheDead == G!CallbackForTheDead

\* A Map is an OrderedMap, also for js_map_iterator_next and forEach while
\* records come and go: no map_record is used after its free (but for the case
\* of js_map_clear that JSMap names), each counts its iterators, and the hash
\* table holds the live ones, after every resize and for weak keys too.
MapIsOrderedMap ==
    /\ [](M!TypeOK /\ M!NoFault /\ M!RecordsCounted /\ WM!TableExact)
    /\ M!IteratesInOrder
=============================================================================
