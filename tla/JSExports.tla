------------------------------ MODULE JSExports ------------------------------
(***************************************************************************)
(* Which variable an imported name stands for, and which names a module    *)
(* namespace has: js_resolve_export and js_build_module_ns of QuickJS, for *)
(* modules that export local variables, variables they import, names of    *)
(* other modules, their namespaces (export * as x from) and all their      *)
(* names (export * from), and for modules written in C, in any cyclic      *)
(* arrangement.                                                            *)
(*                                                                         *)
(* The export tables grow one entry at a time, as the parser finds them,   *)
(* and the algorithms are compared with a definition that does not follow  *)
(* their order.                                                            *)
(***************************************************************************)
EXTENDS Integers, Sequences, SequencesExt, FiniteSetsExt

CONSTANTS
    Modules,
    Names,      \* exported names, "default" among them
    MaxEntries, \* bound: the cost of the export entries altogether
    None        \* no entry, no module

ExportsAssumption == "default" \in Names /\ None \notin Modules /\ MaxEntries \in Nat

VARIABLES
    entry, \* entry[m][n]: the JSExportEntry of m for n
    stars  \* stars[m]: star_export_entries, modules

vars == <<entry, stars>>

\* name is local_name; var, of a local entry, what find_closure_var gives for
\* it: the variable, or the name in module from that it was imported by.
NoEntry == [type |-> "none", from |-> None, name |-> "", var |-> ""]

LocalEntry(v) == [type |-> "local", from |-> None, name |-> v, var |-> v]

\* import {n1 as v} from m1; export {v}: the entry stays a local one.
ImportEntry(v, m1, n1) == [type |-> "local", from |-> m1, name |-> v, var |-> n1]

\* JS_AddModuleExport of a module in C: a variable of its own for each name,
\* and JS_ATOM_NULL for its local name.
CEntry(n) == [type |-> "local", from |-> None, name |-> "", var |-> n]

IndirectEntry(m1, n1) == [type |-> "indirect", from |-> m1, name |-> n1, var |-> ""]

NsEntry(m1) == [type |-> "indirect", from |-> m1, name |-> "*", var |-> ""]

Imported(e) == e.type = "local" /\ e.from # None
InC(e) == e.type = "local" /\ e.name = ""

Init ==
    /\ entry = [m \in Modules |-> [n \in Names |-> NoEntry]]
    /\ stars = [m \in Modules |-> <<>>]

\* Exported imports, what a module takes from itself and its second star
\* export of a module cost two, so that the rest can be combined further.
Cost(m, e) == IF Imported(e) \/ e.from = m THEN 2 ELSE 1
StarCost(m, m1) == IF m1 = m \/ m1 \in Range(stars[m]) THEN 2 ELSE 1

Spent ==
    FoldSet(LAMBDA p, k : k + Cost(p[1], entry[p[1]][p[2]]), 0,
            {p \in Modules \X Names : entry[p[1]][p[2]] # NoEntry})
    + FoldSet(LAMBDA m, k : k + 2 * Len(stars[m]) - Cardinality(Range(stars[m]) \ {m}), 0, Modules)

\* What the source of one module can have: it is in C or it is not, and a
\* local name is one variable of it.
Fits(e, f) ==
    \/ f = NoEntry
    \/ /\ InC(e) <=> InC(f)
       /\ e.type = "local" /\ f.type = "local" /\ e.name = f.name => InC(e) \/ e = f

\* The local names an entry for n may have: a name of its own, for which n
\* does, or that of another export of the module (export {v, v as n}).
LocalNames(m, n) ==
    {n} \cup {entry[m][n1].name :
                n1 \in {i \in Names : entry[m][i].type = "local" /\ ~InC(entry[m][i])}}

\* add_export_entry2: a second entry for a name is an error.
AddExport(m, n, e) ==
    /\ entry[m][n] = NoEntry
    /\ \A n1 \in Names : Fits(e, entry[m][n1])
    /\ InC(e) => stars[m] = <<>>
    /\ entry' = [entry EXCEPT ![m][n] = e]
    /\ UNCHANGED stars

\* add_star_export_entry
AddStar(m, m1) ==
    /\ \A n \in Names : ~InC(entry[m][n])
    /\ stars' = [stars EXCEPT ![m] = Append(@, m1)]
    /\ UNCHANGED entry

Next ==
    LET left == MaxEntries - Spent IN
    /\ left > 0
    /\ \E m \in Modules :
        \/ \E n \in Names : \E v \in LocalNames(m, n) : AddExport(m, n, LocalEntry(v))
        \/ \E n \in Names : AddExport(m, n, CEntry(n))
        \/ \E m1 \in Modules : StarCost(m, m1) <= left /\ AddStar(m, m1)
        \/ \E n \in Names, m1 \in Modules :
            \E e \in {NsEntry(m1)} \cup {IndirectEntry(m1, n1) : n1 \in Names}
                    \cup {ImportEntry(v, m1, n1) : v \in LocalNames(m, n), n1 \in Names} :
                Cost(m, e) <= left /\ AddExport(m, n, e)

Spec == Init /\ [][Next]_vars

-----------------------------------------------------------------------------
(***************************************************************************)
(* The algorithms.  A result is FOUND with the module and the entry, or    *)
(* NOT_FOUND, CIRCULAR or AMBIGUOUS; seen is the JSResolveState.           *)
(***************************************************************************)
Result(res, m, e, seen) == [res |-> res, module |-> m, entry |-> e, seen |-> seen]

\* What two star exports lead to is taken for the same: the module and the
\* local name are compared, not the variables.
SameResult(a, b) == a.module = b.module /\ a.entry.name = b.entry.name

\* Mutant: default is a name like any other.
ThroughStarsAny(n) == TRUE

ThroughStars(n) == n # "default"

RECURSIVE Resolve1(_, _, _)

\* One round of the loop over the star exports; acc holds what was found so
\* far, and is final once it is AMBIGUOUS.
ResolveStar(acc, m1, n) ==
    LET r == Resolve1(m1, n, acc.seen) IN
    IF acc.res = "AMBIGUOUS" THEN acc
    ELSE IF r.res = "AMBIGUOUS" THEN r
    ELSE IF r.res # "FOUND" THEN [acc EXCEPT !.seen = r.seen]
    ELSE IF acc.res = "FOUND" /\ ~SameResult(r, acc) THEN Result("AMBIGUOUS", None, NoEntry, r.seen)
    ELSE IF acc.res = "FOUND" THEN [acc EXCEPT !.seen = r.seen]
    ELSE r

\* js_resolve_export1
Resolve1(m, n, seen) ==
    LET e == entry[m][n]
        now == seen \cup {<<m, n>>}
    IN
    IF <<m, n>> \in seen THEN Result("CIRCULAR", None, NoEntry, seen)
    ELSE IF e.type = "local" \/ e.name = "*" THEN Result("FOUND", m, e, now)
    ELSE IF e.type = "indirect" THEN Resolve1(e.from, e.name, now)
    ELSE IF ~ThroughStars(n) THEN Result("NOT_FOUND", None, NoEntry, now)
    ELSE FoldLeft(LAMBDA acc, m1 : ResolveStar(acc, m1, n),
                  Result("NOT_FOUND", None, NoEntry, now), stars[m])

\* js_resolve_export
Resolve(m, n) == Resolve1(m, n, {})

RECURSIVE VarRef(_, _, _)

\* The variable, or the namespace, that js_inner_module_linking takes for an
\* entry of m once the modules it imports from are linked; {} when one of them
\* cannot be, or when exported imports go in a circle.  In a cycle of modules
\* the entry may be asked for before they are, and is a null pointer then:
\* the order of linking is not modelled.
VarRef(m, e, seen) ==
    IF e.name = "*" THEN {<<e.from, "*">>}
    ELSE IF ~Imported(e) THEN {<<m, e.var>>}
    ELSE LET r == Resolve(e.from, e.var) IN
         IF r.res # "FOUND" \/ <<m, e>> \in seen THEN {}
         ELSE VarRef(r.module, r.entry, seen \cup {<<m, e>>})

RECURSIVE ExportedNames(_, _, _)

\* Mutant: default comes through star exports.
OwnNamesAll(m, fromStar) == {n \in Names : entry[m][n] # NoEntry}

OwnNames(m, fromStar) ==
    {n \in Names : entry[m][n] # NoEntry /\ ~(fromStar /\ n = "default")}

\* get_exported_names
ExportedNames(acc, m, fromStar) ==
    IF m \in acc.modules THEN acc
    ELSE FoldLeft(LAMBDA a, m1 : ExportedNames(a, m1, TRUE),
                  [modules |-> acc.modules \cup {m}, names |-> acc.names \cup OwnNames(m, fromStar)],
                  stars[m])

\* js_build_module_ns: an exception, or the names it has.
Namespace(m) ==
    LET names == ExportedNames([modules |-> {}, names |-> {}], m, FALSE).names IN
    IF \E n \in names : Resolve(m, n).res \in {"NOT_FOUND", "CIRCULAR"} THEN {"exception"}
    ELSE {n \in names : Resolve(m, n).res = "FOUND"}

-----------------------------------------------------------------------------
(***************************************************************************)
(* What they should compute.                                               *)
(***************************************************************************)
At(p) == entry[p[1]][p[2]]

\* A lookup of a name ends at this entry.
IsEnd(p) == At(p).type = "local" \/ At(p).name = "*"

\* Where a lookup of a name goes on.
Goes(p) ==
    IF IsEnd(p) THEN {}
    ELSE IF At(p).type = "indirect" THEN {<<At(p).from, At(p).name>>}
    ELSE IF p[2] = "default" THEN {}
    ELSE Range(stars[p[1]]) \X {p[2]}

\* Where the search for a variable goes on: what a module imports is not a
\* variable of it.
GoesOn(p) == IF Imported(At(p)) THEN {<<At(p).from, At(p).var>>} ELSE Goes(p)

Pairs == Modules \X Names

RECURSIVE Closure(_)

\* All that is reached in any number of steps, from what is reached in one.
Closure(reach) ==
    LET twice == [p \in Pairs |-> UNION {reach[q] : q \in reach[p]}] IN
    IF twice = reach THEN reach ELSE Closure(twice)

Lookup == Closure([p \in Pairs |-> {p} \cup Goes(p)])
Search == Closure([p \in Pairs |-> {p} \cup GoesOn(p)])

\* The entries a lookup can end at, for every name: lookup is Lookup.
Ends(lookup) == [p \in Pairs |-> {q \in lookup[p] : IsEnd(q)}]

\* What js_resolve_export1 tells two results apart by.
Key(q) == <<q[1], At(q).name>>
Keys(ends) == {Key(q) : q \in ends}

\* All the variables and namespaces among the entries reached.
Meanings(reached) ==
    {IF At(q).name = "*" THEN <<At(q).from, "*">> ELSE <<q[1], At(q).var>> :
        q \in {r \in reached : IsEnd(r) /\ ~Imported(At(r))}}

\* Two exports of namespaces meet.  Two of one module are taken for the
\* same, and one that two modules export for two.
NamespacesMeet(ends) == \E a, b \in ends : a # b /\ At(a).name = "*" /\ At(b).name = "*"

\* An exported import meets another export, perhaps of the same variable:
\* they are taken for two.
ImportsMeet(ends) == \E a, b \in ends : Key(a) # Key(b) /\ Imported(At(a))

\* Two variables of one module in C meet, and are taken for the same.
CNamesMeet(ends) == \E a, b \in ends : a # b /\ a[1] = b[1] /\ InC(At(a)) /\ InC(At(b))

\* An exported import that stands for no variable or for several.  The name
\* is found; that it leads nowhere shows when the module that has it is linked.
LeadsNowhere(q, reached) == Imported(At(q)) /\ Cardinality(Meanings(reached)) # 1

\* A result is for exactly one, for none, or for several.
Tells(r, all) ==
    /\ (r.res = "FOUND") <=> (Cardinality(all) = 1)
    /\ (r.res = "AMBIGUOUS") <=> (Cardinality(all) > 1)

-----------------------------------------------------------------------------
(***************************************************************************)
(* Properties.                                                             *)
(***************************************************************************)
\* js_resolve_export finds the one export entry that a name leads to, along
\* whatever cycle of re-exports, and refuses a name that leads to none or to
\* several, where entries of one module with the same local name are one.
\* With four exceptions, in which the code is not what ECMAScript asks, that
\* is also the one variable or namespace the name can stand for: exports of
\* namespaces that meet, an exported import that meets another export, two
\* exports of a module in C that meet, and exported imports that stand for
\* no variable.
ResolvesExactly ==
    LET search == Search
        ends == Ends(Lookup)
        odd == {q \in Pairs : \/ NamespacesMeet(ends[q]) \/ ImportsMeet(ends[q])
                              \/ CNamesMeet(ends[q]) \/ LeadsNowhere(q, search[q])}
    IN
    \A p \in Pairs :
        LET r == Resolve(p[1], p[2])
            all == Meanings(search[p])
        IN
        /\ Tells(r, Keys(ends[p]))
        /\ r.res = "FOUND" => Keys(ends[p]) = {<<r.module, r.entry.name>>}
        /\ search[p] \cap odd = {} =>
                /\ Tells(r, all)
                /\ r.res = "FOUND" => VarRef(r.module, r.entry, {}) = all

\* A namespace has exactly the names that lead to one entry, as an import of
\* this module would find them, and can be built unless one of the exports
\* leads to none.
NamespaceExact ==
    LET lookup == Lookup
        ends == Ends(lookup)
    IN
    \A m \in Modules :
        LET ns == Namespace(m) IN
        IF ns = {"exception"}
        THEN \E n \in Names : /\ ends[<<m, n>>] = {}
                             /\ \E q \in lookup[<<m, n>>] : At(q) # NoEntry
        ELSE \A n \in Names : n \in ns <=> Cardinality(Keys(ends[<<m, n>>])) = 1
=============================================================================
