---------------------------- MODULE MCJSModules ----------------------------
(***************************************************************************)
(* Modules on small instances for TLC, their evaluation and their exports, *)
(* and asynchronous generators (JSAsyncGenerator): what runs a body that   *)
(* may stop at an await.  A behaviour is about one part; the others stay   *)
(* where they begin.                                                       *)
(***************************************************************************)
EXTENDS JSAsyncGenerator, SequencesExt

CONSTANTS ma, mb, mc, md, Null

VARIABLES part, graph, kind, mods, awaiting, imports, log, entry, stars

evars == <<graph, kind, mods, awaiting, imports, log>>
xvars == <<entry, stars>>
mcvars == <<part, evars, xvars, vars>>

Three == {ma, mb, mc}
Four == {ma, mb, mc, md}

\* Every graph of three modules, of every kind.
Lists(S) == {<<>>} \cup {<<x>> : x \in S} \cup {p \in S \X S : p[1] # p[2]}
AllGraphs == {g \in [Three -> Lists(Three)] : \A m \in Three : m \notin Range(g[m])}
AllKinds == [Three -> {"plain", "throws", "tla", "tla throws", "unlinkable", "missing"}]

\* Graphs of four modules: a diamond, a diamond with a way back, two cycles
\* that share a module, a chain with a shortcut.
SomeGraphs ==
    { ma :> <<mb, mc>> @@ mb :> <<md>> @@ mc :> <<md>> @@ md :> <<>>,
      ma :> <<mb, mc>> @@ mb :> <<md>> @@ mc :> <<md>> @@ md :> <<mb>>,
      ma :> <<mb>> @@ mb :> <<mc, ma>> @@ mc :> <<md>> @@ md :> <<mb, mc>>,
      ma :> <<mb, md>> @@ mb :> <<mc>> @@ mc :> <<md>> @@ md :> <<>>,
      ma :> <<mc, mb>> @@ mb :> <<mc, md>> @@ mc :> <<md, ma>> @@ md :> <<>> }
SomeKinds == [Four -> {"plain", "throws", "tla", "tla throws"}]

E3 == INSTANCE JSModules WITH
        Modules <- Three, Graphs <- AllGraphs, Kinds <- AllKinds, MaxImports <- 3
E4 == INSTANCE JSModules WITH
        Modules <- Four, Graphs <- SomeGraphs, Kinds <- SomeKinds, MaxImports <- 3
X == INSTANCE JSExports WITH
        Modules <- Three, Names <- {"default", "x"}, MaxEntries <- 5, None <- Null

ASSUME BoundsAssumption /\ E3!ModulesAssumption /\ E4!ModulesAssumption /\ X!ExportsAssumption

Nothing == graph = Null /\ kind = Null /\ mods = Null /\ awaiting = {} /\ imports = 0 /\ log = <<>>

MCInit ==
    /\ X!Init /\ Init
    /\ \/ part = "three" /\ E3!Init
       \/ part = "four" /\ E4!Init
       \/ part \in {"exports", "generator"} /\ Nothing

MCNext ==
    \/ /\ \/ part = "three" /\ E3!Next
          \/ part = "four" /\ E4!Next
       /\ UNCHANGED <<part, xvars, vars>>
    \/ part = "exports" /\ X!Next /\ UNCHANGED <<part, evars, vars>>
    \/ part = "generator" /\ Next /\ UNCHANGED <<part, evars, xvars>>

MCSpec == MCInit /\ [][MCNext]_mcvars

\* No step looks at which module is which.
MCSymmetry == Permutations(Three)

-----------------------------------------------------------------------------
(***************************************************************************)
(* The properties: GeneratorAnswers of JSAsyncGenerator, and those of the  *)
(* modules, those of one subject together.                                 *)
(***************************************************************************)

\* A module runs once and after what it imports from outside its cycle
\* (js_inner_module_evaluation and the async callbacks), its promise is settled
\* by what is behind it, and when no module awaits any more every import has
\* been answered; in any graph and any order of imports, and no assert fails.
ImportsRunInOrder ==
    /\ part = "three" => /\ E3!TypeOK /\ E3!NoFault /\ E3!DependenciesFirst
                         /\ E3!PromiseTellsTheGraph /\ E3!EveryImportAnswered
    /\ part = "four" => /\ E4!TypeOK /\ E4!NoFault /\ E4!DependenciesFirst
                        /\ E4!PromiseTellsTheGraph /\ E4!EveryImportAnswered

\* js_resolve_export finds the one entry that a name leads to, or none, which
\* but for the four exceptions of JSExports is the one variable it can stand for,
\* and the namespace of js_build_module_ns has just the names it finds.
ResolvesExactly == part = "exports" => X!ResolvesExactly /\ X!NamespaceExact
=============================================================================
