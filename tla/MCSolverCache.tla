--------------------------- MODULE MCSolverCache ---------------------------
(* Small instances of SolverCache for TLC.                                 *)
EXTENDS SolverCache

CONSTANTS t1, t2, a1, a2, p1, p2, c1, c2

Req(type, c) == [type |-> type, challenge |-> c]
Orig(x) == [data |-> <<x>>, passes |-> 0]

\* "%6E" is what is read of the name "%256E": one more decoding makes it "n".
MCParamNames == {"n", "%6E", "signature", "v"}
MCOnce == [x \in MCParamNames |-> IF x = "%6E" THEN "n" ELSE x]
\* Their places in a std::map, the last one first.
MCOrder == [x \in MCParamNames |->
    CASE x = "v" -> 0 [] x = "signature" -> 1 [] x = "n" -> 2 [] OTHER -> 3]
MCOriginals == {<<"o">>, <<"p">>}

\* A watch URL with an unsolved n, another parameter, and n a second time with
\* its name encoded twice.
Url == [value |-> [x \in MCParamNames |->
                     CASE x \in {"n", "v"} -> Orig("o") [] x = "%6E" -> Orig("p") [] OTHER -> Absent],
        place |-> [x \in MCParamNames |->
                     CASE x = "n" -> 2 [] x = "v" -> 1 [] OTHER -> 0]]
Fmt(sp, reqs) == [url |-> Url, sp |-> sp, requests |-> reqs]

\* Both kinds of request, with the default name of the signature parameter.
Both == Fmt("", <<Req("n", c1), Req("sig", c1)>>)
\* Two requests for one parameter, and a type the URL has no place for.
Crowded == Fmt("v", <<Req("n", c2), Req("other", c1), Req("n", c1)>>)
\* A name for the signature that is decoded when the next answer is written.
Coded == Fmt("%6E", <<Req("sig", c1), Req("n", c1)>>)
\* The arguments the entry checks turn away.
NoUrl == [Both EXCEPT !.url = Absent]
NoRequests == Fmt("", <<>>)
\* One request, cheap enough for the liveness run.
Single == Fmt("v", <<Req("sig", c1)>>)

MCFormats == {Both, Crowded, Coded, NoUrl, NoRequests}
MCSingle == {Single}

\* Calls that the entry checks turn away.
TurnedAway(c) == c.fmt \in {NoUrl, NoRequests} \/ ~HasCache[c.assets]

\* Bound: one thread calls twice and the other once.  Crowded, the only format
\* with c2, is asked for by both threads at once and by none twice; what has to
\* do with no other thread, Coded and the calls that are turned away, comes first
\* and alone.
FewCalls ==
    /\ \A t, u \in Threads : t # u => calls[t] + calls[u] <= 3
    /\ \A t, u \in Threads :
          call[t] # Absent /\ call[t].fmt = Crowded =>
              calls[u] <= 1 /\ (call[u] # Absent => call[u].fmt = Crowded)
    /\ (\E a \in Assets : storedBy[a][Req("n", c2)] # {}) => \A t \in Threads : calls[t] <= 1
    /\ \A t \in Threads : call[t] # Absent /\ (call[t].fmt = Coded \/ TurnedAway(call[t])) =>
          calls[t] = 1 /\ \A u \in Threads \ {t} : calls[u] = 0

BoundedSpec == Init /\ [][Next /\ FewCalls']_vars

MCPlayerOf == [a \in Assets |-> IF a = a1 THEN p1 ELSE p2]
MCSamePlayer == [a \in Assets |-> p1]
MCHasCache == [a \in Assets |-> a = a1]
MCAllHaveCache == [a \in Assets |-> TRUE]
MCServedBy == [t \in Threads |-> IF t = t1 THEN Assets ELSE {a1}]
MCServesAll == [t \in Threads |-> Assets]
=============================================================================
