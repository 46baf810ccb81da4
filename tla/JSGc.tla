-------------------------------- MODULE JSGc --------------------------------
(***************************************************************************)
(* Memory management of QuickJS: reference counts, the queue of objects    *)
(* whose count has become 0, the collector of cycles, weak references and  *)
(* finalization registries, and the end of a runtime.  SolverEngine relies *)
(* on it for every script it runs and for the destruction of its runtime.  *)
(*                                                                         *)
(* Four classes of structures: objects, the variables that closures share  *)
(* (JSVarRef: owned by objects, never freed through the queue), WeakRefs   *)
(* and FinalizationRegistries (here with room for one entry).  What a      *)
(* structure owns is in its slots.  A structure may outlive its object     *)
(* while something refers to it weakly.  JavaScript and the C++ host are   *)
(* seen as the references they hold (ext) and may do anything with them;   *)
(* they run only between the operations of the collector.                  *)
(***************************************************************************)
EXTENDS Integers, Sequences, SequencesExt, FiniteSetsExt

CONSTANTS
    Ids,     \* addresses of structures
    Class,   \* Class[o]: what the structure at o is
    NSlots,  \* how many references an object has room for
    MaxJobs, \* bound: finalization jobs that wait
    Null     \* undefined, or any value that is not counted

Classes == {"object", "varref", "weakref", "finrec"}
SlotsOf(o) == CASE Class[o] = "object" -> NSlots
                [] Class[o] = "weakref" -> 0
                [] OTHER -> 1

GcAssumption ==
    Class \in [Ids -> Classes] /\ Null \notin Ids /\ NSlots \in Nat /\ MaxJobs \in Nat

VARIABLES
    heap,  \* the runtime, see NoHeap
    ext,   \* the objects that JavaScript or the host refers to directly
    pc,    \* what the runtime is doing
    cont,  \* what it does once the queue is empty
    cur    \* the object a traversal of gc_obj_list has come to

vars == <<heap, ext, pc, cont, cur>>

Nulls(o) == [k \in 1..SlotsOf(o) |-> Null]
NoHeap ==
    [alloc  |-> {},                       \* structures that are allocated
     rc     |-> [o \in Ids |-> 0],        \* header.ref_count
     mark   |-> [o \in Ids |-> 0],        \* header.mark
     weak   |-> [o \in Ids |-> 0],        \* weakref_count
     slots  |-> [o \in Ids |-> Nulls(o)], \* what o owns
     target |-> [o \in Ids |-> Null],     \* what a weakref or an entry is about
     phase  |-> "NONE",                   \* gc_phase
     list   |-> <<>>,                     \* gc_obj_list
     tmp    |-> <<>>,                     \* tmp_obj_list
     zero   |-> <<>>,                     \* gc_zero_ref_count_list
     jobs   |-> <<>>,                     \* job_list: held values of dead targets
     fault  |-> FALSE]                    \* an assert failed, or freed memory was used

Init == heap = NoHeap /\ ext = {} /\ pc = "run" /\ cont = "run" /\ cur = Null

-----------------------------------------------------------------------------
(***************************************************************************)
(* Structures and lists.                                                   *)
(***************************************************************************)
Fault(h, really) == [h EXCEPT !.fault = @ \/ really]

Unlink(h, o) ==
    [h EXCEPT !.list = Remove(@, o), !.tmp = Remove(@, o), !.zero = Remove(@, o)]

\* js_free_rt
Free(h, o) ==
    [Fault(h, o \notin h.alloc) EXCEPT !.alloc = @ \ {o}, !.slots[o] = Nulls(o),
                                      !.target[o] = Null, !.rc[o] = 0, !.mark[o] = 0,
                                      !.weak[o] = 0]

\* JS_NewObject and add_gc_object
New(h, o) ==
    [h EXCEPT !.alloc = @ \cup {o}, !.rc[o] = 1, !.mark[o] = 0, !.weak[o] = 0,
              !.list = Append(@, o)]

Dup(h, o) == IF o = Null THEN h ELSE [Fault(h, o \notin h.alloc) EXCEPT !.rc[o] = @ + 1]

\* Mutant: the object stays linked where it was.
FreeValueLinked(h, o) ==
    LET d == [Fault(h, o \notin h.alloc \/ h.rc[o] <= 0) EXCEPT !.rc[o] = @ - 1] IN
    IF d.rc[o] > 0 \/ h.phase = "REMOVE_CYCLES" THEN d
    ELSE [d EXCEPT !.zero = <<o>> \o @, !.mark[o] = 1]

\* JS_FreeValueRT: at 0 an object goes to the queue, but not while cycles are
\* removed: then it is in tmp_obj_list anyway.
FreeValue(h, o) ==
    LET d == [Fault(h, o \notin h.alloc \/ h.rc[o] <= 0) EXCEPT !.rc[o] = @ - 1] IN
    IF d.rc[o] > 0 \/ h.phase = "REMOVE_CYCLES" THEN d
    ELSE [Unlink(d, o) EXCEPT !.zero = <<o>> \o @, !.mark[o] = 1]

\* free_var_ref: freed at once, and its value with it.
FreeVarRef(h, v) ==
    LET d == [Fault(h, v \notin h.alloc \/ h.rc[v] <= 0) EXCEPT !.rc[v] = @ - 1]
        x == h.slots[v][1]
    IN
    IF d.rc[v] > 0 THEN d
    ELSE Free(Unlink(IF x = Null THEN d ELSE FreeValue(d, x), v), v)

FreeSlot(h, x) ==
    IF x = Null THEN h ELSE IF Class[x] = "varref" THEN FreeVarRef(h, x) ELSE FreeValue(h, x)

\* Mutants: nobody frees the structure; the mark is not looked at.
FreeWeakNever(h, t) ==
    [Fault(h, t \notin h.alloc \/ h.weak[t] < 1) EXCEPT !.weak[t] = @ - 1]
FreeWeakMarked(h, t) ==
    LET d == [Fault(h, t \notin h.alloc \/ h.weak[t] < 1) EXCEPT !.weak[t] = @ - 1] IN
    IF d.weak[t] = 0 /\ d.rc[t] = 0 THEN Free(d, t) ELSE d

\* js_weakref_free: the last weak reference frees the structure of an object
\* that is gone, unless the object is still to be freed (mark).
FreeWeak(h, t) ==
    LET d == [Fault(h, t \notin h.alloc \/ h.weak[t] < 1) EXCEPT !.weak[t] = @ - 1] IN
    IF d.weak[t] = 0 /\ d.rc[t] = 0 /\ d.mark[t] = 0 THEN Free(d, t) ELSE d

\* Mutant: one reference is taken for none.
IsLiveIfShared(h, t) == t = Null \/ h.rc[t] > 1

\* js_weakref_is_live
IsLive(h, t) == t = Null \/ h.rc[t] # 0

Finalize(h, o) == IF h.target[o] = Null THEN h ELSE FreeWeak(h, h.target[o])

\* Mutant: an object that others refer to stays where it is.
ReleaseLinked(h, o) ==
    LET u == Unlink(h, o) IN
    IF h.phase = "REMOVE_CYCLES"
    THEN IF u.rc[o] = 0 /\ u.weak[o] = 0 THEN Free(u, o) ELSE h
    ELSE IF u.weak[o] = 0 THEN Free(u, o) ELSE [u EXCEPT !.mark[o] = 0]

\* The end of free_object: while cycles are removed others may still refer to
\* the structure, later only weak references may.
Release(h, o) ==
    LET u == Unlink(h, o) IN
    IF h.phase = "REMOVE_CYCLES"
    THEN IF u.rc[o] = 0 /\ u.weak[o] = 0 THEN Free(u, o) ELSE [u EXCEPT !.zero = Append(@, o)]
    ELSE IF u.weak[o] = 0 THEN Free(u, o) ELSE [u EXCEPT !.mark[o] = 0]

FreeObject(h, o) ==
    LET fields == FoldLeft(FreeSlot, h, h.slots[o])
        final == Finalize(fields, o)
    IN Release([final EXCEPT !.slots[o] = Nulls(o), !.target[o] = Null], o)

-----------------------------------------------------------------------------
(***************************************************************************)
(* What the collector does to the children of an object (mark_children).   *)
(***************************************************************************)
\* Mutant: an object that the traversal has yet to reach is moved as well.
DecrefChildAny(h, x) ==
    IF x = Null THEN h ELSE
    LET d == [Fault(h, h.rc[x] <= 0) EXCEPT !.rc[x] = @ - 1] IN
    IF d.rc[x] = 0 THEN [Unlink(d, x) EXCEPT !.tmp = Append(@, x)] ELSE d

DecrefChild(h, x) ==
    IF x = Null THEN h ELSE
    LET d == [Fault(h, h.rc[x] <= 0) EXCEPT !.rc[x] = @ - 1] IN
    IF d.rc[x] = 0 /\ d.mark[x] = 1 THEN [Unlink(d, x) EXCEPT !.tmp = Append(@, x)] ELSE d

\* Mutant: an object that turns out to be in use stays in tmp_obj_list.
IncrefChildInPlace(h, x) ==
    IF x = Null THEN h ELSE [h EXCEPT !.rc[x] = @ + 1]

IncrefChild(h, x) ==
    IF x = Null THEN h ELSE
    LET d == [h EXCEPT !.rc[x] = @ + 1] IN
    IF d.rc[x] = 1 THEN [Unlink(d, x) EXCEPT !.list = Append(@, x), !.mark[x] = 0] ELSE d

\* Mutant: the counts of what is to be deleted stay at 0.
IncrefChild2Not(h, x) == h

IncrefChild2(h, x) == IF x = Null THEN h ELSE [h EXCEPT !.rc[x] = @ + 1]

\* link.next in gc_obj_list, Null at its end.
NextIn(h, o) ==
    LET k == SelectInSeq(h.list, LAMBDA x : x = o) IN
    IF k = 0 \/ k = Len(h.list) THEN Null ELSE h.list[k + 1]
FirstIn(h) == IF h.list = <<>> THEN Null ELSE h.list[1]

\* weakref_delete_weakref and finrec_delete_weakref: a registry queues a job
\* that refers to the held value, and forgets the entry.
DeleteWeak(h, w) ==
    IF IsLive(h, h.target[w]) THEN h
    ELSE LET held == IF Class[w] = "finrec" THEN h.slots[w][1] ELSE Null
             queued == IF Class[w] = "finrec" THEN [Dup(h, held) EXCEPT !.jobs = Append(@, held)]
                       ELSE h
             freed == FreeSlot(FreeWeak(queued, h.target[w]), held)
         IN [freed EXCEPT !.target[w] = Null, !.slots[w] = Nulls(w)]

\* gc_remove_weak_objects: in this phase what is freed waits in the queue.
Weaks(h) == SelectSeq(SetToSeq(Ids), LAMBDA o : o \in h.alloc /\ h.target[o] # Null)
RemoveWeakObjects(h) ==
    [FoldLeft(DeleteWeak, [h EXCEPT !.phase = "DECREF"], Weaks(h)) EXCEPT !.phase = "NONE"]

-----------------------------------------------------------------------------
(***************************************************************************)
(* The runtime at work.                                                    *)
(***************************************************************************)
\* An operation ends with the queue, if there is something in it.
After(h, next) ==
    IF h.zero = <<>> THEN pc' = next /\ cont' = "run" /\ heap' = h
    ELSE pc' = "queue" /\ cont' = next /\ heap' = [h EXCEPT !.phase = "DECREF"]

\* free_zero_refcount, one object at a time
FreeZeroRefcount ==
    LET o == Head(heap.zero)
        h == FreeObject(Fault(heap, heap.rc[o] # 0), o)
    IN
    /\ pc = "queue"
    /\ IF h.zero = <<>> THEN heap' = [h EXCEPT !.phase = "NONE"] /\ pc' = cont /\ cont' = "run"
       ELSE heap' = h /\ UNCHANGED <<pc, cont>>
    /\ UNCHANGED <<ext, cur>>

RunGC ==
    /\ pc = "run"
    /\ After(RemoveWeakObjects(heap), "gc")
    /\ UNCHANGED <<ext, cur>>

StartDecref ==
    /\ pc = "gc"
    /\ cur' = FirstIn(heap) /\ pc' = "decref"
    /\ UNCHANGED <<heap, ext, cont>>

\* gc_decref: the next object is known before this one's children change.
GcDecref ==
    LET h == FoldLeft(DecrefChild, Fault(heap, heap.mark[cur] # 0), heap.slots[cur])
        m == [h EXCEPT !.mark[cur] = 1]
    IN
    /\ pc = "decref" /\ cur # Null
    /\ cur' = NextIn(heap, cur)
    /\ heap' = IF m.rc[cur] = 0 THEN [Unlink(m, cur) EXCEPT !.tmp = Append(@, cur)] ELSE m
    /\ UNCHANGED <<ext, pc, cont>>

StartScan ==
    /\ pc = "decref" /\ cur = Null
    /\ cur' = FirstIn(heap) /\ pc' = "scan"
    /\ UNCHANGED <<heap, ext, cont>>

\* gc_scan: children are appended to the list that is being traversed.
GcScan ==
    LET h == FoldLeft(IncrefChild,
                      [Fault(heap, heap.rc[cur] <= 0) EXCEPT !.mark[cur] = 0], heap.slots[cur])
    IN
    /\ pc = "scan" /\ cur # Null
    /\ heap' = h /\ cur' = NextIn(h, cur)
    /\ UNCHANGED <<ext, pc, cont>>

GcRestore ==
    /\ pc = "scan" /\ cur = Null
    /\ heap' = [FoldLeft(LAMBDA h, o : FoldLeft(IncrefChild2, h, h.slots[o]), heap, heap.tmp)
                   EXCEPT !.phase = "REMOVE_CYCLES"]
    /\ pc' = "cycles"
    /\ UNCHANGED <<ext, cont, cur>>

\* gc_free_cycles: variables are left to the objects that own them.
GcFreeCycles ==
    LET o == Head(heap.tmp) IN
    /\ pc = "cycles" /\ heap.tmp # <<>>
    /\ heap' = IF Class[o] = "varref" THEN [Unlink(heap, o) EXCEPT !.zero = Append(@, o)]
               ELSE FreeObject(heap, o)
    /\ UNCHANGED <<ext, pc, cont, cur>>

GcSweep ==
    LET sweep(h, o) ==
          IF h.weak[o] # 0 THEN [h EXCEPT !.mark[o] = 0]
          ELSE Free(Fault(h, Class[o] = "varref"), o)
    IN
    /\ pc = "cycles" /\ heap.tmp = <<>>
    /\ heap' = [FoldLeft(sweep, heap, heap.zero) EXCEPT !.zero = <<>>, !.phase = "NONE"]
    /\ pc' = IF cont = "end" THEN "end" ELSE "collected"
    /\ UNCHANGED <<ext, cont, cur>>

Resume == pc = "collected" /\ pc' = "run" /\ UNCHANGED <<heap, ext, cont, cur>>

\* JS_FreeRuntime, once the host has given everything back: pending jobs go,
\* then a last collection that leaves the weak references alone.
FreeRuntime ==
    /\ pc = "run" /\ ext = {}
    /\ After(FoldLeft(FreeSlot, [heap EXCEPT !.jobs = <<>>], heap.jobs), "last gc")
    /\ UNCHANGED <<ext, cur>>

LastGC ==
    /\ pc = "last gc"
    /\ pc' = "gc" /\ cont' = "end"
    /\ UNCHANGED <<heap, ext, cur>>

Collector == FreeZeroRefcount \/ StartDecref \/ GcDecref \/ StartScan \/ GcScan \/ GcRestore
             \/ GcFreeCycles \/ GcSweep \/ Resume \/ LastGC

-----------------------------------------------------------------------------
(***************************************************************************)
(* JavaScript and the host (external).                                     *)
(***************************************************************************)
\* What can be read through the references at hand: objects, and variables
\* that they close over.
Vars(h) == {x \in Ids : Class[x] = "varref" /\ \E o \in ext : Contains(h.slots[o], x)}

NewObject(o, t) ==
    LET n == New(heap, o) IN
    /\ pc = "run" /\ o \notin heap.alloc /\ Class[o] # "varref"
    /\ (t # Null) <=> (Class[o] = "weakref")
    /\ t \in ext \cup {Null}
    /\ heap' = IF t = Null THEN n ELSE [n EXCEPT !.target[o] = t, !.weak[t] = @ + 1]
    /\ ext' = ext \cup {o}
    /\ UNCHANGED <<pc, cont, cur>>

\* js_finrec_register; the held value must not be the target.
Register(r, t, held) ==
    /\ pc = "run" /\ r \in ext /\ Class[r] = "finrec" /\ heap.target[r] = Null
    /\ Len(heap.jobs) < MaxJobs
    /\ t \in ext /\ held \in (ext \cup {Null}) \ {t}
    /\ heap' = [Dup(heap, held) EXCEPT !.target[r] = t, !.slots[r] = <<held>>,
                                       !.weak[t] = @ + 1]
    /\ UNCHANGED <<ext, pc, cont, cur>>

NewVariable(o, k, v) ==
    /\ pc = "run" /\ o \in ext /\ Class[o] = "object" /\ heap.slots[o][k] = Null
    /\ v \notin heap.alloc /\ Class[v] = "varref"
    /\ heap' = [New(heap, v) EXCEPT !.slots[o][k] = v]
    /\ UNCHANGED <<ext, pc, cont, cur>>

Store(o, k, x) ==
    LET old == heap.slots[o][k] IN
    /\ pc = "run" /\ old # x
    /\ \/ o \in ext /\ Class[o] = "object" /\ x \in ext \cup Vars(heap) \cup {Null}
       \/ o \in Vars(heap) /\ x \in ext \cup {Null}
    /\ After(FreeSlot([Dup(heap, x) EXCEPT !.slots[o][k] = x], old), "run")
    /\ UNCHANGED <<ext, cur>>

Take(x) ==
    /\ pc = "run" /\ x \notin ext
    /\ \E o \in ext \cup Vars(heap) : Class[o] # "finrec" /\ Contains(heap.slots[o], x)
    /\ Class[x] # "varref"
    /\ heap' = Dup(heap, x) /\ ext' = ext \cup {x}
    /\ UNCHANGED <<pc, cont, cur>>

\* js_weakref_deref
Deref(w) ==
    LET t == heap.target[w] IN
    /\ pc = "run" /\ w \in ext /\ Class[w] = "weakref"
    /\ t # Null /\ IsLive(heap, t) /\ t \notin ext
    /\ heap' = Dup(heap, t) /\ ext' = ext \cup {t}
    /\ UNCHANGED <<pc, cont, cur>>

Drop(o) ==
    /\ pc = "run" /\ o \in ext
    /\ ext' = ext \ {o}
    /\ After(FreeValue(heap, o), "run")
    /\ UNCHANGED cur

\* js_finrec_job: the callback is called, then the held value is given up.
RunJob ==
    /\ pc = "run" /\ heap.jobs # <<>>
    /\ After(FreeSlot([heap EXCEPT !.jobs = Tail(@)], Head(heap.jobs)), "run")
    /\ UNCHANGED <<ext, cur>>

User ==
    \/ \E o \in Ids : Take(o) \/ Deref(o) \/ Drop(o)
    \/ \E o \in Ids, t \in Ids \cup {Null} : NewObject(o, t)
    \/ \E r, t \in Ids, held \in Ids \cup {Null} : Register(r, t, held)
    \/ \E o \in Ids : \E k \in 1..SlotsOf(o) :
          \/ \E v \in Ids : NewVariable(o, k, v)
          \/ \E x \in Ids \cup {Null} : Store(o, k, x)
    \/ RunJob

Next == Collector \/ RunGC \/ FreeRuntime \/ User

Spec == Init /\ [][Next]_vars /\ WF_vars(Collector)

-----------------------------------------------------------------------------
(***************************************************************************)
(* Properties.                                                             *)
(***************************************************************************)
Linked(h) == ToSet(h.list) \cup ToSet(h.tmp) \cup ToSet(h.zero)
Owned(h, s) == {x \in Ids : \E o \in s : Contains(h.slots[o], x)}
Reachable(h) ==
    LET roots == ext \cup (ToSet(h.jobs) \ {Null})
        reach[n \in 0..Cardinality(Ids)] ==
            IF n = 0 THEN roots ELSE reach[n - 1] \cup Owned(h, reach[n - 1])
    IN reach[Cardinality(Ids)]

Count(seq, x) == Cardinality({k \in DOMAIN seq : seq[k] = x})
Holders(h, x) ==
    (IF x \in ext THEN 1 ELSE 0) + Count(h.jobs, x)
    + MapThenSumSet(LAMBDA o : Count(h.slots[o], x), Ids)

\* The types; a structure is linked in exactly one place, and the lists that
\* only the collector uses are empty while JavaScript runs.
TypeOK ==
    /\ heap.alloc \subseteq Ids /\ ext \subseteq heap.alloc
    /\ \A o \in Ids : heap.rc[o] \in Nat /\ heap.weak[o] \in Nat /\ heap.mark[o] \in {0, 1}
    /\ Len(heap.list) + Len(heap.tmp) + Len(heap.zero) = Cardinality(Linked(heap))
    /\ pc = "run" => heap.tmp = <<>> /\ heap.zero = <<>> /\ heap.phase = "NONE"

\* The asserts of the memory management hold (gc_decref_child, gc_decref,
\* gc_scan, free_zero_refcount, gc_free_cycles, js_weakref_free,
\* free_var_ref), no structure is used after it was freed, and none is freed
\* twice, in whatever order cycles, variables and weak references go.
NoFault == ~heap.fault

\* Whatever JavaScript or a queued job can still reach is neither freed nor
\* in line for it, not even in the middle of a collection; and the structure
\* that a weak reference names is there to be asked whether it is live.
ReachableKept ==
    /\ Reachable(heap) \subseteq heap.alloc
    /\ \A w \in heap.alloc : heap.target[w] \in heap.alloc \cup {Null}
    /\ pc \in {"run", "queue", "cycles"} =>
          Reachable(heap) \cap (ToSet(heap.tmp) \cup ToSet(heap.zero)) = {}

\* Between operations the counts are right: a collection has restored what it
\* took away.
CountsExact ==
    pc = "run" => \A x \in Ids :
        /\ heap.rc[x] = Holders(heap, x)
        /\ x \in heap.alloc =>
              heap.weak[x] = Cardinality({w \in heap.alloc : heap.target[w] = x})

\* A collection leaves nothing that cannot be reached, but for structures of
\* dead objects that a weak reference still names; and those look dead
\* (js_weakref_is_live), so that deref never brings one back.
CollectsGarbage ==
    pc = "collected" =>
        /\ ToSet(heap.list) = Reachable(heap)
        /\ \A o \in heap.alloc \ ToSet(heap.list) : heap.rc[o] = 0 /\ heap.weak[o] > 0

\* JS_FreeRuntime: once the host has given its references back, the asserts
\* that both lists are empty hold, and no structure is left allocated.
NothingLeftAtEnd == pc = "end" => heap.alloc = {} /\ heap.list = <<>>

\* A registry calls back for a target when nothing can reach it any more, and
\* forgets the entry in the same step: one job per registration.
CallbackForTheDead ==
    [][\A o \in heap.alloc : Class[o] = "finrec" /\ heap.target[o] # heap'.target[o] =>
          \/ heap.target[o] = Null
          \/ o \notin Reachable(heap)
          \/ /\ heap.target[o] \notin Reachable(heap)
             /\ heap'.jobs = Append(heap.jobs, heap.slots[o][1])]_vars

\* A collection, and the work on the queue, always come to an end.
CollectionEnds == [](pc # "run" => <>(pc \in {"run", "end"}))
=============================================================================
