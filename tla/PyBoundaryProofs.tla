-------------------------- MODULE PyBoundaryProofs --------------------------
(***************************************************************************)
(* Proofs about PyBoundary, for any number of threads, calls, items and    *)
(* responses, and for every place where a call may fail.                   *)
(***************************************************************************)
EXTENDS PyBoundary, SequenceTheorems, TLAPS

(***************************************************************************)
(* Reference counts.                                                       *)
(***************************************************************************)

\* New references to objects that have no owner.
LEMMA AddCounts ==
    ASSUME NEW rc, NEW S, Counts(rc, S), NEW os, os \cap S = {}
    PROVE  Counts(Add(rc, os), S \cup os)
<1>1. DOMAIN Add(rc, os) = DOMAIN rc \cup os
  BY DEF Add
<1>2. \A o \in DOMAIN rc \cup os :
          Add(rc, os)[o] = IF o \notin DOMAIN rc THEN 1 ELSE IF o \in os THEN rc[o] + 1 ELSE rc[o]
  BY DEF Add
<1>3. ASSUME NEW o \in DOMAIN rc \cup os
      PROVE  Add(rc, os)[o] = IF o \in S \cup os THEN 1 ELSE 0
  BY <1>2 DEF Counts
<1>4. Add(rc, os) \in [DOMAIN rc \cup os -> {0, 1}]
  BY <1>3 DEF Add
<1> QED BY <1>1, <1>3, <1>4 DEF Counts

\* References given up by all owners there are.
LEMMA DropCounts ==
    ASSUME NEW rc, NEW S, Counts(rc, S), NEW os \in SUBSET S
    PROVE  Counts(Drop(rc, os), S \ os)
<1>1. DOMAIN Drop(rc, os) = DOMAIN rc
      /\ \A o \in DOMAIN rc : Drop(rc, os)[o] = IF o \in os THEN rc[o] - 1 ELSE rc[o]
  BY DEF Drop
<1>2. ASSUME NEW o \in DOMAIN rc PROVE Drop(rc, os)[o] = IF o \in S \ os THEN 1 ELSE 0
  BY <1>1 DEF Counts
<1>3. Drop(rc, os) \in [DOMAIN rc -> {0, 1}]
  BY <1>2 DEF Drop
<1> QED BY <1>1, <1>2, <1>3 DEF Counts

\* What Decref of an object takes along.
LEMMA LosingAre ==
    ASSUME NEW rc, NEW in, NEW o, NEW z
    PROVE  z \in Losing(rc, in, o) <=>
              \/ z = o
              \/ rc[o] = 1 /\ \E x \in Owned(in, o) :
                    z = x \/ (rc[x] = 1 /\ z \in Owned(in, x))
BY DEF Losing

\* What an object owns.
LEMMA OwnedAre ==
    ASSUME NEW in, NEW o, NEW z, \A p \in in : p = <<p[1], p[2]>>
    PROVE  z \in Owned(in, o) <=> <<o, z>> \in in
<1>1. ASSUME z \in Owned(in, o) PROVE <<o, z>> \in in
  <2>1. PICK q \in in : q[1] = o /\ q[2] = z
    BY <1>1 DEF Owned
  <2>2. q = <<o, z>>
    BY <2>1
  <2> QED BY <2>1, <2>2
<1>2. ASSUME <<o, z>> \in in PROVE z \in Owned(in, o)
  <2> DEFINE q == <<o, z>>
  <2>1. q \in in /\ q[1] = o /\ q[2] = z
    BY <1>2
  <2> QED BY <2>1 DEF Owned
<1> QED BY <1>1, <1>2

\* Who holds what when the dict after the first k holds the values of V.
LEMMA HoldsAre ==
    ASSUME NEW k \in Nat, NEW V, NEW o, NEW z,
           V \subseteq {<<f, k + 1>> : f \in Fields}
    PROVE  LET in == Holds(k) \cup ({<<"dict", k + 1>>} \X V) IN
           z \in Owned(in, o) <=>
              \/ o = TheList /\ \E j \in 1..k : z = <<"dict", j>>
              \/ \E j \in 1..k, f \in Fields : o = <<"dict", j>> /\ z = <<f, j>>
              \/ o = <<"dict", k + 1>> /\ z \in V
<1> DEFINE in == Holds(k) \cup ({<<"dict", k + 1>>} \X V)
<1>1. \A p \in in : p = <<p[1], p[2]>>
  BY DEF Holds
<1>2. z \in Owned(in, o) <=> <<o, z>> \in in
  BY <1>1, OwnedAre
<1>3. <<o, z>> \in Holds(k) <=>
              \/ o = TheList /\ \E j \in 1..k : z = <<"dict", j>>
              \/ \E j \in 1..k, f \in Fields : o = <<"dict", j>> /\ z = <<f, j>>
  BY DEF Holds
<1>4. <<o, z>> \in {<<"dict", k + 1>>} \X V <=> o = <<"dict", k + 1>> /\ z \in V
  OBVIOUS
<1> QED BY <1>2, <1>3, <1>4

\* The list goes with its dicts and their values, the dict in work with the
\* values it has.
LEMMA LosingAll ==
    ASSUME NEW k \in Nat, NEW V, V \subseteq {<<f, k + 1>> : f \in Fields},
           NEW rc, NEW S, Counts(rc, S), Built(k) \subseteq S
    PROVE  LET in == Holds(k) \cup ({<<"dict", k + 1>>} \X V) IN
           /\ Losing(rc, in, TheList) = Built(k)
           /\ <<"dict", k + 1>> \in S =>
                Losing(rc, in, <<"dict", k + 1>>) = {<<"dict", k + 1>>} \cup V
<1> DEFINE in == Holds(k) \cup ({<<"dict", k + 1>>} \X V)
           d == <<"dict", k + 1>>
<1>1. \A o, z : z \in Owned(in, o) <=>
              \/ o = TheList /\ \E j \in 1..k : z = <<"dict", j>>
              \/ \E j \in 1..k, f \in Fields : o = <<"dict", j>> /\ z = <<f, j>>
              \/ o = d /\ z \in V
  BY HoldsAre
<1>2. \A o \in S : rc[o] = 1
  BY DEF Counts
<1>3. \A o, z : z \in Losing(rc, in, o) <=>
              \/ z = o
              \/ rc[o] = 1 /\ \E x \in Owned(in, o) :
                    z = x \/ (rc[x] = 1 /\ z \in Owned(in, x))
  BY LosingAre
<1> HIDE DEF in
<1>4. d # TheList /\ \A j \in 1..k : d # <<"dict", j>> /\ TheList # <<"dict", j>>
  BY DEF TheList
<1>5. Losing(rc, in, TheList) = Built(k)
  <2>1. \A z : z \in Owned(in, TheList) <=> \E j \in 1..k : z = <<"dict", j>>
    BY <1>1, <1>4
  <2>2. \A j \in 1..k : \A z : z \in Owned(in, <<"dict", j>>) <=> \E f \in Fields : z = <<f, j>>
    BY <1>1, <1>4
  <2>3. rc[TheList] = 1 /\ \A j \in 1..k : rc[<<"dict", j>>] = 1
    BY <1>2 DEF Built
  <2> DEFINE D(j) == <<"dict", j>>
             v(f, j) == <<f, j>>
  <2>4. \A z : z \in Built(k) <=>
            \/ z = TheList
            \/ \E j \in 1..k : z = D(j)
            \/ \E f \in Fields, j \in 1..k : z = v(f, j)
    BY DEF Built
  <2>5. /\ \A z : z \in Owned(in, TheList) <=> \E j \in 1..k : z = D(j)
        /\ \A j \in 1..k : \A z : z \in Owned(in, D(j)) <=> \E f \in Fields : z = v(f, j)
        /\ \A j \in 1..k : rc[D(j)] = 1
    BY <2>1, <2>2, <2>3
  <2> HIDE DEF D, v
  <2>6. ASSUME NEW z PROVE z \in Losing(rc, in, TheList) <=> z \in Built(k)
    <3>1. z \in Losing(rc, in, TheList) <=>
              z = TheList \/ \E x \in Owned(in, TheList) :
                                 z = x \/ (rc[x] = 1 /\ z \in Owned(in, x))
      BY <1>3, <2>3
    <3>2. z \in Losing(rc, in, TheList) <=>
              z = TheList \/ \E j \in 1..k : z = D(j) \/ z \in Owned(in, D(j))
      BY ONLY <2>5, <3>1, Zenon
    <3> QED BY ONLY <2>4, <2>5, <3>2
  <2> QED BY <2>6
<1>6. ASSUME d \in S PROVE Losing(rc, in, d) = {d} \cup V
  <2> HIDE DEF d
  <2>1. \A z : z \in Owned(in, d) <=> z \in V
    BY <1>1, <1>4
  <2>2. ASSUME NEW x \in V, NEW z PROVE z \notin Owned(in, x)
    <3>1. PICK f \in Fields : x = <<f, k + 1>>
      OBVIOUS
    <3>2. x # TheList /\ x # d /\ \A j \in 1..k : x # <<"dict", j>>
      BY <3>1 DEF Fields, TheList, d
    <3> QED BY <1>1, <3>2
  <2>3. rc[d] = 1
    BY <1>2, <1>6
  <2>4. \A z : z \in Losing(rc, in, d) <=> z \in {d} \cup V
    BY <1>3, <2>1, <2>2, <2>3
  <2> QED BY <2>4
<1> QED BY <1>5, <1>6 DEF in

\* Py_DECREF(item).
LEMMA ItemGone ==
    ASSUME NEW rc, Counts(rc, {TheItem})
    PROVE  Counts(Decref(rc, {}, TheItem), {})
<1>1. \A o : Owned({}, o) = {}
  BY DEF Owned
<1>2. \A z : z \in Losing(rc, {}, TheItem) <=> z = TheItem
  BY <1>1, LosingAre
<1>3. Losing(rc, {}, TheItem) = {TheItem}
  BY <1>2
<1> QED BY <1>3, DropCounts DEF Decref

\* Py_DECREF(list) where no dict is in work.
LEMMA ListGone ==
    ASSUME NEW k \in Nat, NEW rc, Counts(rc, Built(k))
    PROVE  Counts(Decref(rc, Holds(k), TheList), {})
<1>1. Holds(k) \cup ({<<"dict", k + 1>>} \X {}) = Holds(k)
  OBVIOUS
<1>2. Losing(rc, Holds(k), TheList) = Built(k)
  <2>1. Losing(rc, Holds(k) \cup ({<<"dict", k + 1>>} \X {}), TheList) = Built(k)
    BY LosingAll
  <2> QED BY <1>1, <2>1
<1>3. Built(k) \in SUBSET Built(k) /\ Built(k) \ Built(k) = {}
  OBVIOUS
<1> QED BY <1>2, <1>3, DropCounts DEF Decref

\* Py_DECREF(dict) and Py_DECREF(list) where the dict in work has the values V.
LEMMA AllGone ==
    ASSUME NEW k \in Nat, NEW V, V \subseteq {<<f, k + 1>> : f \in Fields},
           NEW rc, Counts(rc, Built(k) \cup {<<"dict", k + 1>>} \cup V)
    PROVE  LET in == Holds(k) \cup ({<<"dict", k + 1>>} \X V) IN
           Counts(Drop(rc, Losing(rc, in, <<"dict", k + 1>>) \cup Losing(rc, in, TheList)), {})
<1> DEFINE in == Holds(k) \cup ({<<"dict", k + 1>>} \X V)
           S == Built(k) \cup {<<"dict", k + 1>>} \cup V
           L == Losing(rc, in, <<"dict", k + 1>>) \cup Losing(rc, in, TheList)
<1>1. L = S
  <2>1. Losing(rc, in, TheList) = Built(k)
        /\ Losing(rc, in, <<"dict", k + 1>>) = {<<"dict", k + 1>>} \cup V
    <3>1. Counts(rc, S) /\ Built(k) \subseteq S /\ <<"dict", k + 1>> \in S
      OBVIOUS
    <3> HIDE DEF S
    <3> QED BY <3>1, LosingAll
  <2> HIDE DEF in
  <2> QED BY <2>1
<1>2. Counts(rc, S)
  OBVIOUS
<1> HIDE DEF S, L
<1>3. L \in SUBSET S /\ S \ L = {}
  BY <1>1
<1>4. Counts(Drop(rc, L), {})
  BY <1>2, <1>3, DropCounts
<1> QED BY <1>4 DEF L

\* One dict more.
LEMMA BuiltNext ==
    ASSUME NEW k \in Nat
    PROVE  LET d == <<"dict", k + 1>>
               W == {<<f, k + 1>> : f \in Fields}
           IN  /\ Built(k + 1) = Built(k) \cup {d} \cup W
               /\ d \notin Built(k) /\ W \cap (Built(k) \cup {d}) = {}
               /\ Holds(k + 1) = Holds(k) \cup ({d} \X W) \cup {<<TheList, d>>}
<1> DEFINE d == <<"dict", k + 1>>
           W == {<<f, k + 1>> : f \in Fields}
<1>1. 1..(k + 1) = (1..k) \cup {k + 1} /\ k + 1 \notin 1..k
  OBVIOUS
<1>2. Built(k + 1) = Built(k) \cup {d} \cup W
  <2>1. \A z : (\E j \in 1..(k + 1) : z = <<"dict", j>>)
                <=> (\E j \in 1..k : z = <<"dict", j>>) \/ z = d
    BY <1>1
  <2>2. \A z : (\E f \in Fields, j \in 1..(k + 1) : z = <<f, j>>)
                <=> (\E f \in Fields, j \in 1..k : z = <<f, j>>) \/ z \in W
    BY <1>1
  <2>3. \A z : z \in Built(k + 1) <=> z \in Built(k) \cup {d} \cup W
    <3> HIDE DEF d, W
    <3> QED BY <2>1, <2>2 DEF Built
  <2> QED BY <2>3
<1>3. d \notin Built(k) /\ W \cap (Built(k) \cup {d}) = {}
  <2>1. d \notin Built(k)
    BY <1>1 DEF Built, TheList, Fields
  <2>2. ASSUME NEW f \in Fields PROVE <<f, k + 1>> \notin Built(k) \cup {d}
    <3>1. <<f, k + 1>> # TheList /\ <<f, k + 1>> # d
      BY DEF TheList, Fields
    <3>2. \A j \in 1..k : <<f, k + 1>> # <<"dict", j>> /\ \A g \in Fields : <<f, k + 1>> # <<g, j>>
      BY <1>1
    <3> QED BY <3>1, <3>2 DEF Built
  <2> QED BY <2>1, <2>2
<1>4. Holds(k + 1) = Holds(k) \cup ({d} \X W) \cup {<<TheList, d>>}
  <2>1. \A z : (\E j \in 1..(k + 1) : z = <<TheList, <<"dict", j>> >>)
                <=> (\E j \in 1..k : z = <<TheList, <<"dict", j>> >>) \/ z = <<TheList, d>>
    BY <1>1
  <2>2. \A z : (\E f \in Fields, j \in 1..(k + 1) : z = << <<"dict", j>>, <<f, j>> >>)
                <=> (\E f \in Fields, j \in 1..k : z = << <<"dict", j>>, <<f, j>> >>)
                    \/ z \in {d} \X W
    <3>1. \A z : z \in {d} \X W <=> \E f \in Fields : z = << <<"dict", k + 1>>, <<f, k + 1>> >>
      OBVIOUS
    <3> QED BY <1>1, <3>1
  <2>3. \A z : z \in Holds(k + 1) <=> z \in Holds(k) \cup ({d} \X W) \cup {<<TheList, d>>}
    <3> HIDE DEF d, W
    <3> QED BY <2>1, <2>2 DEF Holds
  <2> QED BY <2>3
<1> QED BY <1>2, <1>3, <1>4

\* The values are put into the dict and the locals are given up: those of V
\* are the dict's, the others are gone.
LEMMA Filled ==
    ASSUME NEW k \in Nat, NEW V, V \subseteq {<<f, k + 1>> : f \in Fields},
           NEW rc, Counts(rc, Built(k + 1))
    PROVE  Counts(Drop(Add(rc, V), {<<f, k + 1>> : f \in Fields}),
                  Built(k) \cup {<<"dict", k + 1>>} \cup V)
<1> DEFINE d == <<"dict", k + 1>>
           W == {<<f, k + 1>> : f \in Fields}
           B == Built(k) \cup {d}
<1>1. Built(k + 1) = B \cup W /\ W \cap B = {}
  BY BuiltNext
<1>2. V \subseteq W /\ Counts(rc, B \cup W)
  BY <1>1
<1> HIDE DEF W, B
<1>3. /\ DOMAIN Add(rc, V) = DOMAIN rc \cup V
      /\ \A o \in DOMAIN rc \cup V : Add(rc, V)[o] =
            IF o \notin DOMAIN rc THEN 1 ELSE IF o \in V THEN rc[o] + 1 ELSE rc[o]
  BY DEF Add
<1>4. /\ DOMAIN Drop(Add(rc, V), W) = DOMAIN Add(rc, V)
      /\ \A o \in DOMAIN Add(rc, V) : Drop(Add(rc, V), W)[o] =
            IF o \in W THEN Add(rc, V)[o] - 1 ELSE Add(rc, V)[o]
  BY DEF Drop
<1>5. Counts(Drop(Add(rc, V), W), B \cup V)
  <2>1. DOMAIN Drop(Add(rc, V), W) = DOMAIN rc /\ B \cup W \subseteq DOMAIN rc
    BY <1>2, <1>3, <1>4 DEF Counts
  <2>2. ASSUME NEW o \in DOMAIN rc
        PROVE  Drop(Add(rc, V), W)[o] = IF o \in B \cup V THEN 1 ELSE 0
    BY <1>1, <1>2, <1>3, <1>4 DEF Counts
  <2>3. Drop(Add(rc, V), W) \in [DOMAIN rc -> {0, 1}]
    BY <2>1, <2>2 DEF Drop
  <2> QED BY <1>2, <2>1, <2>2, <2>3 DEF Counts
<1> QED BY <1>5 DEF B, W

(***************************************************************************)
(* Steps of one thread.                                                    *)
(***************************************************************************)

\* The types of the locals.
LEMMA LocalTypes ==
    ASSUME NEW l, CallInv(l)
    PROVE  /\ l \in Locals(DOMAIN l.rc)
           /\ l.pc \in {"python", "parse"} \cup Reading \cup Working \cup Building
           /\ l.kind \in Kinds /\ l.given \in Seq(Items)
           /\ l.n \in Nat /\ l.i \in Nat /\ l.i > 0 /\ l.item \in Items
           /\ l.requests \in Seq({Request(item) : item \in Readables}) /\ Len(l.requests) \in Nat
           /\ l.responses \in Seq(Replies) /\ Len(l.responses) \in Nat /\ Len(l.given) \in Nat
           /\ l.err \in Errors \cup {Null} /\ l.result \in Seq(Replies) \cup {Null}
           /\ Counts(l.rc, Alive(l)) /\ RefInv(l) /\ OutcomeInv(l) /\ ReadInv(l)
<1>1. l \in Locals(DOMAIN l.rc) /\ RefInv(l) /\ OutcomeInv(l) /\ ReadInv(l) /\ Counts(l.rc, Alive(l))
  BY DEF CallInv, RefInv
<1>2. /\ l.pc \in {"python", "parse"} \cup Reading \cup Working \cup Building
      /\ l.kind \in Kinds /\ l.given \in Seq(Items)
      /\ l.n \in Nat /\ l.i \in Nat /\ l.i > 0 /\ l.item \in Items
      /\ l.requests \in Seq({Request(item) : item \in Readables})
      /\ l.responses \in Seq(Replies)
      /\ l.err \in Errors \cup {Null} /\ l.result \in Seq(Replies) \cup {Null}
  BY <1>1 DEF Locals
<1> QED BY <1>1, <1>2, LenProperties

\* A step of a thread that has the GIL or takes it, when nobody has it: the
\* others are in Python code and notice nothing.
LEMMA ThreadStep ==
    ASSUME PyBoundaryAssumption, PyInv, NEW t \in Threads, NEW l, CallInv(l),
           th' = [th EXCEPT ![t] = l], UNCHANGED <<content, edits>>,
           calls' \in 0..MaxCalls, gil \in {t, Null}, ssl' \in {ssl, TRUE},
           IF l.pc \in {"python", "python code"} THEN gil' = Null ELSE gil' = t,
           l.kind = "list" /\ l.pc # "python" => l.given = content,
           l.pc = "ssl_init" => ~ssl', l.pc \in {"net"} \cup Forever => ssl'
    PROVE  PyInv'
<1>1. Null \notin Threads
  BY DEF PyBoundaryAssumption
<1>2. /\ gil' \in Threads \cup {Null} /\ ssl' \in BOOLEAN /\ content' \in Contents
      /\ calls' \in 0..MaxCalls /\ edits' \in 0..MaxEdits /\ DOMAIN th' = Threads
  BY DEF PyInv
<1>3. CallInv(th[t])' /\ GilInv(t)'
  <2>1. th'[t] = l
    BY DEF PyInv
  <2>2. GilInv(t)'
    BY <1>1, <2>1 DEF GilInv
  <2> QED BY <2>1, <2>2
<1>4. ASSUME NEW u \in Threads, u # t PROVE CallInv(th[u])' /\ GilInv(u)'
  <2>1. th'[u] = th[u] /\ CallInv(th[u]) /\ GilInv(u) /\ gil # u
    <3>1. th'[u] = th[u]
      BY <1>4 DEF PyInv
    <3>2. CallInv(th[u]) /\ GilInv(u)
      BY DEF PyInv
    <3> QED BY <1>1, <1>4, <3>1, <3>2
  <2>2. th[u].pc \in {"python", "python code"}
    BY <2>1 DEF GilInv
  <2>3. GilInv(u)'
    BY <1>1, <1>4, <2>1, <2>2 DEF GilInv
  <2> QED BY <2>1, <2>3
<1> QED BY <1>2, <1>3, <1>4 DEF PyInv

\* A thread in C++ code.
LEMMA InCode ==
    ASSUME PyInv, NEW t \in Threads, th[t].pc \notin {"python", "python code"}
    PROVE  /\ gil = t /\ CallInv(th[t]) /\ content \in Contents /\ calls \in 0..MaxCalls
           /\ th[t].kind = "list" => th[t].given = content
           /\ th[t].pc = "ssl_init" => ~ssl
           /\ th[t].pc \in {"net"} \cup Forever => ssl
           /\ ssl \in BOOLEAN
BY DEF PyInv, GilInv

\* A call that goes on.
LEMMA GoesStep ==
    ASSUME PyBoundaryAssumption, PyInv, NEW t \in Threads,
           th[t].pc \notin {"python", "python code"},
           NEW l, Goes(t, l), CallInv(l), l.pc \notin {"python", "python code"},
           l.kind = th[t].kind, l.given = th[t].given,
           l.pc = "ssl_init" => ~ssl, l.pc \in {"net"} \cup Forever => ssl
    PROVE  PyInv'
<1>1. /\ th' = [th EXCEPT ![t] = l] /\ gil' = gil /\ content' = content /\ ssl' = ssl
      /\ calls' = calls /\ edits' = edits
  BY DEF Goes, shared
<1> QED BY <1>1, InCode, ThreadStep

\* A call that fails.
LEMMA FailsStep ==
    ASSUME PyBoundaryAssumption, PyInv, NEW t \in Threads,
           th[t].pc \notin {"python", "python code"},
           NEW rc, NEW err \in Errors, Return(t, rc, Null, err),
           Counts(rc, IF err = "std::bad_alloc" THEN {TheItem} ELSE {})
    PROVE  PyInv'
<1> DEFINE m == th[t]
           l == [m EXCEPT !.pc = "python", !.rc = rc, !.result = Null, !.err = err]
<1>1. /\ th' = [th EXCEPT ![t] = l] /\ gil' = Null /\ content' = content /\ ssl' = ssl
      /\ calls' = calls /\ edits' = edits
  BY DEF Return, shared, PyInv
<1>2. m \in Locals(DOMAIN m.rc)
  BY InCode, LocalTypes
<1>3. err # Null
  BY DEF PyBoundaryAssumption
<1>4. /\ l.pc = "python" /\ l.rc = rc /\ l.result = Null /\ l.err = err
      /\ l \in Locals(DOMAIN rc)
  <2>1. rc \in [DOMAIN rc -> {0, 1}]
    BY DEF Counts
  <2> HIDE DEF m
  <2> QED BY <1>2, <2>1 DEF Locals
<1> HIDE DEF l
<1>5. Alive(l) = IF err = "std::bad_alloc" THEN {TheItem} ELSE {}
  BY <1>4 DEF Alive
<1>6. RefInv(l)
  BY <1>4, <1>5 DEF RefInv, Reading, Working, Forever
<1>7. OutcomeInv(l) /\ ReadInv(l)
  BY <1>3, <1>4 DEF OutcomeInv, ReadInv, Asked, Reading, Working, Forever, Building
<1>8. CallInv(l)
  BY <1>4, <1>6, <1>7 DEF CallInv
<1> QED BY <1>1, <1>4, <1>8, InCode, ThreadStep DEF Forever

\* Only the place in the call changes, where no object is alive.
LEMMA PcChange ==
    ASSUME NEW m, CallInv(m),
           m.pc \in {"item", "python code", "getitem", "list"} \cup Working,
           NEW p \in {"item", "python code", "getitem", "list"} \cup Working
    PROVE  LET l == [m EXCEPT !.pc = p] IN
           /\ l.pc = p /\ l.kind = m.kind /\ l.given = m.given /\ l.n = m.n /\ l.i = m.i
           /\ l.item = m.item /\ l.requests = m.requests /\ l.responses = m.responses
           /\ l.result = m.result /\ l.result = Null
           /\ ReadInv(l) => CallInv(l)
<1> DEFINE l == [m EXCEPT !.pc = p]
<1>1. m \in Locals(DOMAIN m.rc) /\ Counts(m.rc, Alive(m)) /\ RefInv(m) /\ OutcomeInv(m)
  BY LocalTypes
<1>2. p \in {"python", "parse"} \cup Reading \cup Working \cup Building
  BY DEF Reading, Building
<1>3. /\ l.pc = p /\ l.kind = m.kind /\ l.given = m.given /\ l.n = m.n /\ l.i = m.i
      /\ l.item = m.item /\ l.requests = m.requests /\ l.responses = m.responses
      /\ l.result = m.result /\ l.err = m.err /\ l.rc = m.rc /\ l.inside = m.inside
      /\ l \in Locals(DOMAIN l.rc)
  BY <1>1, <1>2 DEF Locals
<1> HIDE DEF l
<1>4. Alive(m) = {} /\ Alive(l) = {}
  BY <1>3 DEF Alive, Working, Forever
<1>5. RefInv(l)
  BY <1>1, <1>3, <1>4 DEF RefInv, Working, Forever, Reading
<1>6. OutcomeInv(l) /\ l.result = Null
  BY <1>1, <1>3 DEF OutcomeInv, Working, Forever
<1> QED BY <1>3, <1>5, <1>6 DEF CallInv, l

(***************************************************************************)
(* Entry and py_requests_to_cpp.                                           *)
(***************************************************************************)

\* The locals before the first call.
LEMMA IdleLocals == Idle \in Locals({})
<1> DEFINE z == [o \in {} |-> 0]
           R == {Request(item) : item \in Readables}
<1>1. <<>> \in Seq(R) /\ <<>> \in Seq(Replies) /\ <<>> \in Seq(Items)
  BY EmptySeq
<1>2. NotADict \in Items /\ z \in [{} -> {0, 1}] /\ "list" \in Kinds
  BY DEF Items, Kinds
<1> HIDE DEF z, R
<1>3. [pc |-> "python", watch |-> FALSE, kind |-> "list", given |-> <<>>, n |-> 0, i |-> 1,
       item |-> NotADict, requests |-> <<>>, responses |-> <<>>,
       rc |-> z, inside |-> {}, err |-> Null, result |-> Null] \in
      [pc : {"python", "parse"} \cup Reading \cup Working \cup Building,
       watch : BOOLEAN, kind : Kinds, given : Seq(Items), n : Nat, i : Nat \ {0}, item : Items,
       requests : Seq(R), responses : Seq(Replies),
       rc : [{} -> {0, 1}], inside : SUBSET (Objects \X Objects),
       err : Errors \cup {Null}, result : Seq(Replies) \cup {Null}]
  BY <1>1, <1>2
<1> QED BY <1>3 DEF Idle, Locals, z, R

\* A call begins with empty hands.
LEMMA CallStep ==
    ASSUME PyBoundaryAssumption, PyInv, NEW t \in Threads, NEW watch \in BOOLEAN,
           NEW kind \in Kinds, Call(t, watch, kind)
    PROVE  PyInv'
<1> DEFINE l == [Idle EXCEPT !.pc = "parse", !.watch = watch, !.kind = kind, !.given = content]
<1>1. /\ th' = [th EXCEPT ![t] = l] /\ gil = Null /\ gil' = t /\ calls' = calls + 1
      /\ calls < MaxCalls /\ UNCHANGED <<content, edits>> /\ ssl' = ssl
  BY DEF Call
<1>2. content \in Seq(Items) /\ calls' \in 0..MaxCalls
  BY <1>1 DEF PyBoundaryAssumption, PyInv
<1>3. /\ l.pc = "parse" /\ l.watch = watch /\ l.kind = kind /\ l.given = content /\ l.n = 0
      /\ l.i = 1 /\ l.item = NotADict /\ l.requests = <<>> /\ l.responses = <<>>
      /\ l.rc = [o \in {} |-> 0] /\ l.inside = {} /\ l.err = Null /\ l.result = Null
  BY DEF Idle
<1>4. l \in Locals(DOMAIN l.rc)
  <2>1. Idle \in Locals({})
    BY IdleLocals
  <2>2. l \in Locals({})
    BY <1>2, <2>1 DEF Locals
  <2> QED BY <1>3, <2>2
<1> HIDE DEF l
<1>5. RefInv(l)
  BY <1>3 DEF RefInv, Counts, Alive
<1>6. OutcomeInv(l) /\ ReadInv(l)
  BY <1>3 DEF OutcomeInv, ReadInv, Asked, Reading, Working, Forever, Building
<1>7. CallInv(l)
  BY <1>4, <1>5, <1>6 DEF CallInv
<1> QED BY <1>1, <1>2, <1>3, <1>7, ThreadStep DEF PyInv, Forever

\* The arguments do not fit.
LEMMA RefuseStep ==
    ASSUME PyBoundaryAssumption, PyInv, NEW t \in Threads, Refuse(t)
    PROVE  PyInv'
<1>1. th[t].pc = "parse" /\ Return(t, th[t].rc, Null, "TypeError")
  BY DEF Refuse
<1>2. Counts(th[t].rc, {})
  BY <1>1, InCode, LocalTypes DEF Alive
<1> QED BY <1>1, <1>2, FailsStep DEF Errors

\* PySequence_Size.
LEMMA SizeStep ==
    ASSUME PyBoundaryAssumption, PyInv, NEW t \in Threads, Size(t)
    PROVE  PyInv'
<1> DEFINE m == th[t]
           l == [m EXCEPT !.pc = "item", !.n = Len(content)]
<1>1. m.pc = "parse" /\ Goes(t, l)
  BY DEF Size
<1>2. /\ CallInv(m) /\ content \in Contents
      /\ m.kind = "list" => m.given = content
  BY <1>1, InCode
<1>3. content \in Seq(Items) /\ Len(content) \in Nat
  BY <1>2, LenProperties DEF PyBoundaryAssumption
<1> HIDE DEF m
<1>4. m \in Locals(DOMAIN m.rc) /\ Counts(m.rc, Alive(m)) /\ RefInv(m) /\ OutcomeInv(m) /\ ReadInv(m)
  BY <1>2, LocalTypes
<1>5. /\ l.pc = "item" /\ l.kind = m.kind /\ l.given = m.given /\ l.n = Len(content) /\ l.i = m.i
      /\ l.requests = m.requests /\ l.responses = m.responses
      /\ l.result = m.result /\ l.err = m.err /\ l.rc = m.rc /\ l.inside = m.inside
      /\ l \in Locals(DOMAIN l.rc)
  BY <1>3, <1>4 DEF Locals, Reading
<1> HIDE DEF l
<1>6. Alive(m) = {} /\ Alive(l) = {}
  BY <1>1, <1>5 DEF Alive
<1>7. RefInv(l)
  BY <1>1, <1>4, <1>5, <1>6 DEF RefInv
<1>8. OutcomeInv(l) /\ l.result = Null
  BY <1>1, <1>4, <1>5 DEF OutcomeInv
<1>9. ReadInv(l)
  <2>1. m.i = 1 /\ m.requests = <<>> /\ Len(<<>>) = 0
    BY <1>1, <1>4, EmptySeq DEF ReadInv
  <2> QED BY <1>2, <1>3, <1>5, <1>8, <2>1 DEF ReadInv, Asked, Reading, Working, Forever, Building
<1>10. CallInv(l)
  BY <1>5, <1>7, <1>8, <1>9 DEF CallInv
<1> QED BY <1>1, <1>5, <1>10, GoesStep DEF m, Forever

\* __getitem__ lets others run.
LEMMA YieldStep ==
    ASSUME PyBoundaryAssumption, PyInv, NEW t \in Threads, Yield(t)
    PROVE  PyInv'
<1> DEFINE m == th[t]
           l == [m EXCEPT !.pc = "python code"]
<1>1. /\ m.pc = "item" /\ m.kind = "lazy"
      /\ th' = [th EXCEPT ![t] = l] /\ gil' = Null /\ content' = content /\ ssl' = ssl
      /\ calls' = calls /\ edits' = edits
  BY DEF Yield, shared, PyInv
<1>2. CallInv(m) /\ gil = t /\ calls \in 0..MaxCalls /\ ssl \in BOOLEAN
  BY <1>1, InCode
<1>3. ReadInv(m)
  BY <1>2, LocalTypes
<1> HIDE DEF m
<1>4. /\ l.pc = "python code" /\ l.kind = m.kind /\ l.requests = m.requests /\ l.result = Null
      /\ ReadInv(l) => CallInv(l)
  <2>1. /\ CallInv(m) /\ m.pc \in {"item", "python code", "getitem", "list"} \cup Working
        /\ "python code" \in {"item", "python code", "getitem", "list"} \cup Working
    BY <1>1, <1>2
  <2> QED BY ONLY <2>1, PcChange
<1> HIDE DEF l
<1>5. ReadInv(l)
  BY <1>1, <1>4 DEF ReadInv, Asked, Working, Forever, Building
<1> QED BY <1>1, <1>2, <1>4, <1>5, ThreadStep DEF Forever

\* And goes on when nobody else does.
LEMMA ResumeStep ==
    ASSUME PyBoundaryAssumption, PyInv, NEW t \in Threads, Resume(t)
    PROVE  PyInv'
<1> DEFINE m == th[t]
           l == [m EXCEPT !.pc = "getitem"]
<1>1. /\ m.pc = "python code" /\ gil = Null
      /\ th' = [th EXCEPT ![t] = l] /\ gil' = t /\ content' = content /\ ssl' = ssl
      /\ calls' = calls /\ edits' = edits
  BY DEF Resume, shared, PyInv
<1>2. CallInv(m) /\ calls \in 0..MaxCalls /\ ssl \in BOOLEAN
  BY DEF PyInv
<1>3. ReadInv(m)
  BY <1>2, LocalTypes
<1> HIDE DEF m
<1>4. /\ l.pc = "getitem" /\ l.kind = m.kind /\ l.requests = m.requests /\ l.result = Null
      /\ ReadInv(l) => CallInv(l)
  <2>1. /\ CallInv(m) /\ m.pc \in {"item", "python code", "getitem", "list"} \cup Working
        /\ "getitem" \in {"item", "python code", "getitem", "list"} \cup Working
    BY <1>1, <1>2
  <2> QED BY ONLY <2>1, PcChange
<1> HIDE DEF l
<1>5. m.kind = "lazy"
  BY <1>1, <1>3 DEF ReadInv
<1>6. ReadInv(l)
  BY <1>4, <1>5 DEF ReadInv, Asked, Working, Forever, Building
<1> QED BY <1>1, <1>2, <1>4, <1>5, <1>6, ThreadStep DEF Forever

\* No item.
LEMMA GetItemFailsStep ==
    ASSUME PyBoundaryAssumption, PyInv, NEW t \in Threads, GetItemFails(t)
    PROVE  PyInv'
<1>1. th[t].pc = "getitem" /\ Return(t, th[t].rc, Null, "TypeError")
  BY DEF GetItemFails
<1>2. Counts(th[t].rc, {})
  BY <1>1, InCode, LocalTypes DEF Alive
<1> QED BY <1>1, <1>2, FailsStep DEF Errors

\* PySequence_GetItem.
LEMMA GetItemStep ==
    ASSUME PyBoundaryAssumption, PyInv, NEW t \in Threads, GetItem(t)
    PROVE  PyInv'
<1> DEFINE m == th[t]
           rc == Add(m.rc, {TheItem})
           x == content[m.i]
           l == [m EXCEPT !.pc = "read", !.item = x, !.rc = rc]
<1>1. /\ m.pc \in {"item", "getitem"} /\ m.i <= m.n /\ m.i <= Len(content)
      /\ Goes(t, l)
  BY DEF GetItem, ItemAt
<1>2. /\ CallInv(m) /\ content \in Contents
      /\ m.kind = "list" => m.given = content
  BY <1>1, InCode
<1> HIDE DEF m
<1>3. /\ m \in Locals(DOMAIN m.rc) /\ Counts(m.rc, Alive(m)) /\ RefInv(m) /\ OutcomeInv(m)
      /\ ReadInv(m) /\ m.i \in Nat /\ m.i > 0
  BY <1>2, LocalTypes
<1>4. x \in Items
  <2>1. content \in Seq(Items) /\ Len(content) \in Nat
    BY <1>2, LenProperties DEF PyBoundaryAssumption
  <2>2. m.i \in 1..Len(content)
    BY <1>1, <1>3, <2>1
  <2> QED BY <2>1, <2>2, ElementOfSeq
<1>5. Counts(rc, {TheItem})
  <2>1. Counts(m.rc, {})
    BY <1>1, <1>3 DEF Alive
  <2> QED BY <2>1, AddCounts
<1>6. rc \in [DOMAIN rc -> {0, 1}]
  BY <1>5 DEF Counts
<1> HIDE DEF x, rc
<1>7. /\ l.pc = "read" /\ l.item = x /\ l.rc = rc /\ l.kind = m.kind /\ l.given = m.given
      /\ l.n = m.n /\ l.i = m.i /\ l.requests = m.requests /\ l.responses = m.responses
      /\ l.result = m.result /\ l.err = m.err /\ l.inside = m.inside
      /\ l \in Locals(DOMAIN l.rc)
  BY <1>3, <1>4, <1>6 DEF Locals, Reading
<1> HIDE DEF l
<1>8. RefInv(l)
  <2>1. Alive(l) = {TheItem}
    BY <1>7 DEF Alive
  <2> QED BY <1>1, <1>3, <1>5, <1>7, <2>1 DEF RefInv, Reading
<1>9. OutcomeInv(l) /\ l.result = Null /\ m.result = Null
  BY <1>1, <1>3, <1>7 DEF OutcomeInv
<1>10. ReadInv(l)
  <2>1. m.kind = "list" => x = m.given[m.i]
    BY <1>2 DEF x
  <2> QED BY <1>1, <1>3, <1>7, <1>9, <2>1 DEF ReadInv, Asked, Reading, Working, Forever, Building
<1>11. CallInv(l)
  BY <1>7, <1>8, <1>9, <1>10 DEF CallInv
<1> QED BY <1>1, <1>7, <1>11, GoesStep DEF m, Forever

\* The item in hand is given back.
LEMMA ItemReleased ==
    ASSUME PyInv, NEW t \in Threads, th[t].pc = "read"
    PROVE  Counts(th[t].rc, {TheItem}) /\ Counts(ReleaseItem(t), {})
<1>1. Counts(th[t].rc, {TheItem})
  BY InCode, LocalTypes DEF Alive
<1> QED BY <1>1, ItemGone DEF ReleaseItem

\* An item that is no dict with two strings.
LEMMA ItemRefusedStep ==
    ASSUME PyBoundaryAssumption, PyInv, NEW t \in Threads, ItemRefused(t)
    PROVE  PyInv'
<1>1. th[t].pc = "read" /\ Return(t, ReleaseItem(t), Null, "TypeError")
  BY DEF ItemRefused
<1> QED BY <1>1, ItemReleased, FailsStep DEF Errors

\* The strings of an item cannot be allocated: its reference stays.
LEMMA BadAllocStep ==
    ASSUME PyBoundaryAssumption, PyInv, NEW t \in Threads, BadAlloc(t)
    PROVE  PyInv'
<1>1. th[t].pc = "read" /\ Return(t, th[t].rc, Null, "std::bad_alloc")
  BY DEF BadAlloc
<1> QED BY <1>1, ItemReleased, FailsStep DEF Errors

\* A request more.
LEMMA ItemReadStep ==
    ASSUME PyBoundaryAssumption, PyInv, NEW t \in Threads, ItemRead(t)
    PROVE  PyInv'
<1> DEFINE m == th[t]
           rc == ReleaseItem(t)
           j == m.i + 1
           R == {Request(item) : item \in Readables}
           r == Request(m.item)
           q == Append(m.requests, r)
           l == [m EXCEPT !.pc = "item", !.i = j, !.rc = rc, !.requests = q]
<1>1. m.pc = "read" /\ Readable(m.item) /\ Goes(t, l)
  BY DEF ItemRead
<1>2. CallInv(m) /\ Counts(rc, {})
  BY <1>1, InCode, ItemReleased
<1> HIDE DEF m
<1>3. /\ m \in Locals(DOMAIN m.rc) /\ RefInv(m) /\ OutcomeInv(m) /\ ReadInv(m)
      /\ m.i \in Nat /\ m.i > 0 /\ m.item \in Items
      /\ m.requests \in Seq(R) /\ Len(m.requests) \in Nat /\ m.n \in Nat
  BY <1>2, LocalTypes
<1>4. rc \in [DOMAIN rc -> {0, 1}] /\ j \in Nat \ {0} /\ j = m.i + 1
  BY <1>2, <1>3 DEF Counts
<1>5. r \in R
  BY <1>1, <1>3 DEF Readables
<1> HIDE DEF R, r
<1>6. /\ q \in Seq(R) /\ Len(q) = Len(m.requests) + 1 /\ q[Len(m.requests) + 1] = r
      /\ \A k \in 1..Len(m.requests) : q[k] = m.requests[k]
  BY <1>3, <1>5, AppendProperties
<1> HIDE DEF rc, j, q
<1>7. /\ l.pc = "item" /\ l.item = m.item /\ l.rc = rc /\ l.kind = m.kind /\ l.given = m.given
      /\ l.n = m.n /\ l.i = j /\ l.requests = q /\ l.responses = m.responses
      /\ l.result = m.result /\ l.err = m.err /\ l.inside = m.inside
      /\ l \in Locals(DOMAIN l.rc)
  BY <1>3, <1>4, <1>6 DEF Locals, Reading, R
<1> HIDE DEF l
<1>8. RefInv(l)
  <2>1. Alive(l) = {}
    BY <1>7 DEF Alive
  <2> QED BY <1>1, <1>2, <1>3, <1>7, <2>1 DEF RefInv, Reading
<1>9. OutcomeInv(l) /\ l.result = Null
  BY <1>1, <1>3, <1>7 DEF OutcomeInv
<1>10. ReadInv(l)
  <2>1. ASSUME m.kind = "list"
        PROVE  /\ l.n = Len(l.given) /\ Len(l.requests) <= l.n /\ l.i = Len(l.requests) + 1
               /\ \A k \in 1..Len(l.requests) :
                     Readable(l.given[k]) /\ l.requests[k] = Request(l.given[k])
    <3>1. /\ m.n = Len(m.given) /\ m.i = Len(m.requests) + 1 /\ m.i <= m.n
          /\ m.item = m.given[m.i]
          /\ \A k \in 1..Len(m.requests) :
                Readable(m.given[k]) /\ m.requests[k] = Request(m.given[k])
      BY <1>1, <1>3, <2>1 DEF ReadInv, Reading
    <3>2. ASSUME NEW k \in 1..Len(q) PROVE Readable(m.given[k]) /\ q[k] = Request(m.given[k])
      <4>1. CASE k \in 1..Len(m.requests)
        BY <1>6, <3>1, <4>1
      <4>2. CASE k = Len(m.requests) + 1
        BY <1>1, <1>6, <3>1, <4>2 DEF r
      <4> QED BY <1>3, <1>6, <4>1, <4>2
    <3>3. Len(q) <= m.n /\ j = Len(q) + 1
      BY <1>3, <1>4, <1>6, <3>1
    <3> QED BY <1>7, <3>1, <3>2, <3>3
  <2> QED BY <1>7, <1>9, <2>1 DEF ReadInv, Asked, Working, Forever, Building
<1>11. CallInv(l)
  BY <1>7, <1>8, <1>9, <1>10 DEF CallInv
<1> QED BY <1>1, <1>7, <1>11, GoesStep DEF m, Forever

(***************************************************************************)
(* The backend.                                                            *)
(***************************************************************************)

\* All items are read and all requests valid.
LEMMA EnterStep ==
    ASSUME PyBoundaryAssumption, PyInv, NEW t \in Threads, Enter(t)
    PROVE  PyInv'
<1> DEFINE m == th[t]
           p == IF m.requests = <<>> THEN "list" ELSE IF m.watch THEN "ssl_check" ELSE "solve"
           l == [m EXCEPT !.pc = p]
<1>1. /\ m.pc = "item" /\ m.i > m.n /\ \A k \in DOMAIN m.requests : Valid(m.requests[k])
      /\ Goes(t, l)
  BY DEF Enter, KeepGil, Goes, PyInv
<1>2. CallInv(m)
  BY <1>1, InCode
<1> HIDE DEF m
<1>3. /\ ReadInv(m) /\ Len(m.requests) \in Nat /\ m.n \in Nat /\ m.i \in Nat
      /\ DOMAIN m.requests = 1..Len(m.requests)
  BY <1>2, LocalTypes, LenProperties
<1>4. p \in {"list", "ssl_check", "solve"} /\ (p = "list" => m.requests = <<>>)
  OBVIOUS
<1> HIDE DEF p
<1>5. /\ l.pc = p /\ l.kind = m.kind /\ l.given = m.given /\ l.n = m.n /\ l.i = m.i
      /\ l.requests = m.requests /\ l.responses = m.responses /\ l.result = Null
      /\ ReadInv(l) => CallInv(l)
  <2>1. /\ m.pc \in {"item", "python code", "getitem", "list"} \cup Working
        /\ p \in {"item", "python code", "getitem", "list"} \cup Working
    BY <1>1, <1>4 DEF Working, Forever
  <2> QED BY <1>2, <2>1, PcChange
<1> HIDE DEF l
<1>6. ReadInv(l)
  <2>1. ASSUME m.kind = "list"
        PROVE  /\ l.n = Len(l.given) /\ Len(l.requests) = l.n
               /\ \A k \in 1..Len(l.requests) :
                     Readable(l.given[k]) /\ l.requests[k] = Request(l.given[k])
    <3>1. /\ m.n = Len(m.given) /\ m.i = Len(m.requests) + 1 /\ Len(m.requests) <= m.n
          /\ \A k \in 1..Len(m.requests) :
                Readable(m.given[k]) /\ m.requests[k] = Request(m.given[k])
      BY <1>1, <1>3, <2>1 DEF ReadInv, Reading
    <3>2. Len(m.requests) = m.n
      BY <1>1, <1>3, <3>1
    <3> QED BY <1>5, <3>1, <3>2
  <2>2. \A k \in 1..Len(l.requests) : Valid(l.requests[k])
    BY <1>1, <1>3, <1>5
  <2>3. l.pc = "list" => Len(l.requests) = 0
    BY <1>4, <1>5, EmptySeq
  <2>4. l.n \in Nat /\ Len(l.requests) \in Nat
    BY <1>3, <1>5
  <2>5. l.pc \in {"list", "ssl_check", "solve"} /\ l.result = Null
    BY <1>4, <1>5
  <2>6. ASSUME l.pc = "list", NEW k \in 1..Len(l.responses) PROVE ~(k <= Len(l.requests))
    BY <2>3, <2>6
  <2>7. l.kind = m.kind
    BY <1>5
  <2>8. l.pc \notin {"parse", "python code", "getitem", "read"} /\ l.pc \notin Reading
        /\ (l.pc \in Building \/ l.result # Null => l.pc = "list")
    BY <2>5 DEF Reading, Building
  <2>9. l.kind = "list" => Len(l.requests) <= l.n
    BY <2>1, <2>4, <2>7
  <2> QED BY <2>1, <2>2, <2>6, <2>7, <2>8, <2>9 DEF ReadInv
<1> QED BY <1>1, <1>4, <1>5, <1>6, GoesStep DEF m, Forever

\* A request that is not valid.
LEMMA InvalidStep ==
    ASSUME PyBoundaryAssumption, PyInv, NEW t \in Threads, Invalid(t)
    PROVE  PyInv'
<1>1. th[t].pc = "item" /\ Return(t, th[t].rc, Null, "RuntimeError")
  BY DEF Invalid
<1>2. Counts(th[t].rc, {})
  BY <1>1, InCode, LocalTypes DEF Alive
<1> QED BY <1>1, <1>2, FailsStep DEF Errors

\* The backend throws.
LEMMA BackendThrowsStep ==
    ASSUME PyBoundaryAssumption, PyInv, NEW t \in Threads, BackendThrows(t)
    PROVE  PyInv'
<1>1. th[t].pc \in {"net", "solve"} /\ Return(t, th[t].rc, Null, "RuntimeError")
  BY DEF BackendThrows
<1>2. Counts(th[t].rc, {})
  BY <1>1, InCode, LocalTypes DEF Alive
<1> QED BY <1>1, <1>2, FailsStep DEF Errors

\* From one place of the backend to another.
LEMMA WorkingOn ==
    ASSUME NEW m, CallInv(m), m.pc \in Working, NEW p \in Working
    PROVE  LET l == [m EXCEPT !.pc = p] IN
           CallInv(l) /\ l.pc = p /\ l.kind = m.kind /\ l.given = m.given
<1> DEFINE l == [m EXCEPT !.pc = p]
<1>1. ReadInv(m)
  BY LocalTypes
<1>2. /\ l.pc = p /\ l.kind = m.kind /\ l.given = m.given /\ l.n = m.n /\ l.i = m.i
      /\ l.requests = m.requests /\ l.result = Null
      /\ ReadInv(l) => CallInv(l)
  <2>1. /\ m.pc \in {"item", "python code", "getitem", "list"} \cup Working
        /\ p \in {"item", "python code", "getitem", "list"} \cup Working
    OBVIOUS
  <2> QED BY <2>1, PcChange
<1> HIDE DEF l
<1>3. ReadInv(l)
  BY <1>1, <1>2 DEF ReadInv, Asked, Reading, Working, Forever, Building
<1> QED BY <1>2, <1>3 DEF l

\* if (!ssl_init).
LEMMA SslCheckStep ==
    ASSUME PyBoundaryAssumption, PyInv, NEW t \in Threads, SslCheck(t)
    PROVE  PyInv'
<1> DEFINE p == IF ssl THEN "net" ELSE "ssl_init"
           l == [th[t] EXCEPT !.pc = p]
<1>1. th[t].pc = "ssl_check" /\ Goes(t, l)
  BY DEF SslCheck
<1>2. p \in Working /\ (p = "ssl_init" => ~ssl) /\ (p \in {"net"} \cup Forever => ssl)
  BY DEF Working, Forever
<1> HIDE DEF p
<1>3. CallInv(l) /\ l.pc = p /\ l.kind = th[t].kind /\ l.given = th[t].given
  BY <1>1, <1>2, InCode, WorkingOn DEF Working, Forever
<1> HIDE DEF l
<1> QED BY <1>1, <1>2, <1>3, GoesStep DEF Working, Forever

\* OpenSSL is set up.
LEMMA SslInitStep ==
    ASSUME PyBoundaryAssumption, PyInv, NEW t \in Threads, SslInit(t)
    PROVE  PyInv'
<1> DEFINE l == [th[t] EXCEPT !.pc = "net"]
<1>1. /\ th[t].pc = "ssl_init" /\ th' = [th EXCEPT ![t] = l] /\ ssl' = TRUE
      /\ gil' = gil /\ content' = content /\ calls' = calls /\ edits' = edits
  BY DEF SslInit, PyInv
<1>2. CallInv(l) /\ l.pc = "net" /\ l.kind = th[t].kind /\ l.given = th[t].given
  BY <1>1, InCode, WorkingOn DEF Working, Forever
<1> HIDE DEF l
<1> QED BY <1>1, <1>2, InCode, ThreadStep

\* The network.
LEMMA NetStep ==
    ASSUME PyBoundaryAssumption, PyInv, NEW t \in Threads, Net(t)
    PROVE  PyInv'
<1>1. PICK p \in {"solve"} \cup Forever : Goes(t, [th[t] EXCEPT !.pc = p])
  BY DEF Net
<1> DEFINE l == [th[t] EXCEPT !.pc = p]
<1>2. th[t].pc = "net" /\ ssl /\ CallInv(th[t])
  BY InCode DEF Net, Forever
<1>3. CallInv(l) /\ l.pc = p /\ l.kind = th[t].kind /\ l.given = th[t].given
  <2>1. th[t].pc \in Working /\ p \in Working
    BY <1>2 DEF Working, Forever
  <2> QED BY <1>2, <2>1, WorkingOn
<1>4. Goes(t, l)
  BY <1>1
<1> HIDE DEF l
<1> QED BY <1>2, <1>3, <1>4, GoesStep DEF Forever

\* https_request ends after all.
LEMMA ForeverEndsStep ==
    ASSUME PyBoundaryAssumption, PyInv, NEW t \in Threads, ForeverEnds(t)
    PROVE  PyInv'
<1>1. th[t].pc \in Forever /\ Return(t, th[t].rc, Null, "RuntimeError")
  BY DEF ForeverEnds
<1>2. Counts(th[t].rc, {})
  BY <1>1, InCode, LocalTypes DEF Alive, Forever
<1> QED BY <1>1, <1>2, FailsStep DEF Errors, Forever

\* What jsc gives.
LEMMA ResponsesAre ==
    ASSUME NEW R, R \subseteq {Request(item) : item \in Readables},
           NEW q \in Seq(R), NEW rs \in Responses(q)
    PROVE  /\ rs \in Seq(Replies)
           /\ \A k \in 1..Len(rs) : k <= Len(q) => rs[k].answers = q[k]
<1>1. Len(q) \in Nat
  BY LenProperties
<1>2. PICK n \in 0..(Len(q) + 1), bad \in 0..(Len(q) + 1) :
         rs = [k \in 1..n |-> [answers |-> IF k <= Len(q) THEN q[k] ELSE Null, utf8 |-> k # bad]]
  BY DEF Responses
<1>3. ASSUME NEW k \in 1..n
      PROVE  /\ rs[k] \in Replies
             /\ k <= Len(q) => rs[k].answers = q[k]
  <2> DEFINE a == IF k <= Len(q) THEN q[k] ELSE Null
             b == k # bad
  <2>1. a \in {Request(item) : item \in Readables} \cup {Null}
    <3>1. CASE k <= Len(q)
      <4>1. k \in 1..Len(q)
        BY <1>1, <1>2, <3>1
      <4>2. q[k] \in R
        BY <4>1, ElementOfSeq
      <4> QED BY <3>1, <4>2
    <3>2. CASE ~(k <= Len(q))
      BY <3>2
    <3> QED BY <3>1, <3>2
  <2>2. rs[k] = [answers |-> a, utf8 |-> b] /\ b \in BOOLEAN /\ (k <= Len(q) => a = q[k])
    BY <1>2
  <2> HIDE DEF a, b
  <2> QED BY <2>1, <2>2 DEF Replies
<1>4. n \in Nat /\ rs \in [1..n -> Replies]
  BY <1>1, <1>2, <1>3
<1>5. rs \in Seq(Replies) /\ Len(rs) = n
  BY <1>4, SeqDef, LenProperties
<1> QED BY <1>3, <1>5

\* The engine answers.
LEMMA SolveStep ==
    ASSUME PyBoundaryAssumption, PyInv, NEW t \in Threads, Solve(t)
    PROVE  PyInv'
<1> DEFINE m == th[t]
<1>1. PICK rs \in Responses(m.requests) :
         Goes(t, [m EXCEPT !.pc = "list", !.responses = rs])
  BY DEF Solve
<1> DEFINE l == [m EXCEPT !.pc = "list", !.responses = rs]
<1>2. m.pc = "solve" /\ CallInv(m)
  BY InCode DEF Solve
<1> HIDE DEF m
<1>3. /\ m \in Locals(DOMAIN m.rc) /\ Counts(m.rc, Alive(m)) /\ RefInv(m) /\ OutcomeInv(m)
      /\ ReadInv(m) /\ m.requests \in Seq({Request(item) : item \in Readables})
  BY <1>2, LocalTypes
<1>4. /\ rs \in Seq(Replies)
      /\ \A k \in 1..Len(rs) : k <= Len(m.requests) => rs[k].answers = m.requests[k]
  BY <1>3, ResponsesAre
<1>5. /\ l.pc = "list" /\ l.rc = m.rc /\ l.kind = m.kind /\ l.given = m.given
      /\ l.n = m.n /\ l.i = m.i /\ l.requests = m.requests /\ l.responses = rs
      /\ l.result = m.result /\ l.err = m.err /\ l.inside = m.inside
      /\ l \in Locals(DOMAIN l.rc)
  BY <1>3, <1>4 DEF Locals, Building
<1>6. Goes(t, l)
  BY <1>1
<1> HIDE DEF l
<1>7. RefInv(l)
  <2>1. Alive(l) = {} /\ Alive(m) = {}
    BY <1>2, <1>5 DEF Alive
  <2> QED BY <1>2, <1>3, <1>5, <2>1 DEF RefInv, Working, Forever, Reading
<1>8. OutcomeInv(l) /\ l.result = Null
  BY <1>2, <1>3, <1>5 DEF OutcomeInv
<1>9. ReadInv(l)
  BY <1>2, <1>3, <1>4, <1>5, <1>8 DEF ReadInv, Asked, Reading, Working, Forever, Building
<1>10. CallInv(l)
  BY <1>5, <1>7, <1>8, <1>9 DEF CallInv
<1> QED BY <1>2, <1>5, <1>6, <1>10, GoesStep DEF m, Forever

(***************************************************************************)
(* responses_to_py.                                                        *)
(***************************************************************************)

\* Who holds what is about objects.
LEMMA HoldsType ==
    ASSUME NEW k \in Nat
    PROVE  Holds(k) \in SUBSET (Objects \X Objects)
<1>1. TheList \in Objects /\ \A j \in 1..k : <<"dict", j>> \in Objects
      /\ \A f \in Fields : <<f, j>> \in Objects
  BY DEF Objects, TheList, Fields
<1> QED BY <1>1 DEF Holds

\* A step that builds on, from the locals m to l.
LEMMA BuildingOn ==
    ASSUME NEW m, CallInv(m), m.pc \in Building, NEW k \in Nat,
           NEW l, l \in Locals(DOMAIN l.rc), l.pc \in {"dict", "values", "fill"},
           l.i = k + 1, l.inside = Holds(k),
           l.kind = m.kind, l.given = m.given, l.n = m.n, l.requests = m.requests,
           l.responses = m.responses, l.result = m.result, l.err = m.err,
           k <= Len(m.responses), l.pc # "dict" => k < Len(m.responses),
           l.pc = "dict" => Counts(l.rc, Built(k)),
           l.pc = "values" => Counts(l.rc, Built(k) \cup {<<"dict", k + 1>>}),
           l.pc = "fill" => Counts(l.rc, Built(k + 1))
    PROVE  CallInv(l)
<1>1. OutcomeInv(m) /\ ReadInv(m) /\ Len(m.responses) \in Nat
  BY LocalTypes
<1>2. /\ l.i - 1 = k /\ l.i <= Len(m.responses) + 1
      /\ (l.pc # "dict" => l.i <= Len(m.responses))
  BY <1>1
<1>3. Counts(l.rc, Alive(l))
  <2>1. /\ l.pc = "dict" => Alive(l) = Built(k)
        /\ l.pc = "values" => Alive(l) = Built(k) \cup {<<"dict", k + 1>>}
        /\ l.pc = "fill" => Alive(l) = Built(k + 1)
    BY <1>2 DEF Alive
  <2> QED BY <2>1
<1>4. RefInv(l)
  BY <1>2, <1>3 DEF RefInv, Reading, Working, Forever
<1>5. OutcomeInv(l) /\ l.result = Null /\ m.result = Null
  BY <1>1 DEF OutcomeInv, Building
<1>6. ReadInv(l)
  BY <1>1, <1>5 DEF ReadInv, Asked, Reading, Working, Forever, Building
<1> QED BY <1>4, <1>5, <1>6 DEF CallInv

\* PyList_New.
LEMMA NewListStep ==
    ASSUME PyBoundaryAssumption, PyInv, NEW t \in Threads, NewList(t)
    PROVE  PyInv'
<1> DEFINE m == th[t]
           rc == Add(m.rc, {TheList})
           l == [m EXCEPT !.pc = "dict", !.i = 1, !.rc = rc]
<1>1. m.pc = "list" /\ CallInv(m)
  BY InCode DEF NewList
<1>2. Counts(m.rc, {})
  BY <1>1, LocalTypes DEF Alive
<1>3. CASE Return(t, m.rc, Null, "MemoryError")
  BY <1>1, <1>2, <1>3, FailsStep DEF Errors
<1>4. CASE Goes(t, l)
  <2>1. Built(0) = {TheList} /\ Holds(0) = {}
    BY DEF Built, Holds
  <2>2. Counts(rc, Built(0))
    <3>1. {} \cap {TheList} = {} /\ {} \cup {TheList} = {TheList}
      OBVIOUS
    <3> QED BY <1>2, <2>1, <3>1, AddCounts
  <2> HIDE DEF m
  <2>3. /\ m.inside = {} /\ m \in Locals(DOMAIN m.rc) /\ m.pc \in Building
        /\ Len(m.responses) \in Nat
    BY <1>1, LocalTypes DEF RefInv, Building
  <2>4. rc \in [DOMAIN rc -> {0, 1}] /\ m \in Locals(DOMAIN m.rc) /\ 1 \in Nat \ {0}
    <3>1. rc \in [DOMAIN rc -> {0, 1}]
      BY <2>2 DEF Counts
    <3> HIDE DEF rc
    <3> QED BY <2>3, <3>1
  <2> HIDE DEF rc
  <2>5. /\ l.pc = "dict" /\ l.rc = rc /\ l.kind = m.kind /\ l.given = m.given
        /\ l.n = m.n /\ l.i = 1 /\ l.requests = m.requests /\ l.responses = m.responses
        /\ l.result = m.result /\ l.err = m.err /\ l.inside = m.inside
        /\ l \in Locals(DOMAIN l.rc)
    BY <2>4 DEF Locals, Building
  <2> HIDE DEF l
  <2>6. l.i = 0 + 1 /\ 0 <= Len(m.responses) /\ 0 \in Nat
    BY <2>3, <2>5
  <2>7. CallInv(l)
    BY <1>1, <2>1, <2>2, <2>3, <2>5, <2>6, BuildingOn
  <2> QED BY <1>1, <1>4, <2>5, <2>7, GoesStep DEF m, Forever
<1> QED BY <1>3, <1>4 DEF NewList

\* The dict in work is number k + 1.
LEMMA InWork ==
    ASSUME NEW m, CallInv(m), m.pc \in {"dict", "values", "fill"}
    PROVE  \E k \in Nat :
              /\ m.i = k + 1 /\ m.inside = Holds(k) /\ k <= Len(m.responses)
              /\ m.pc # "dict" => k < Len(m.responses)
              /\ m.pc = "dict" => Counts(m.rc, Built(k))
              /\ m.pc = "values" => Counts(m.rc, Built(k) \cup {<<"dict", k + 1>>})
              /\ m.pc = "fill" => Counts(m.rc, Built(k + 1))
<1> DEFINE k == m.i - 1
<1>1. /\ m.i \in Nat /\ m.i > 0 /\ RefInv(m) /\ Counts(m.rc, Alive(m)) /\ Len(m.responses) \in Nat
  BY LocalTypes
<1>2. k \in Nat /\ m.i = k + 1
  BY <1>1
<1>3. /\ m.inside = Holds(k) /\ m.i <= Len(m.responses) + 1
      /\ m.pc # "dict" => m.i <= Len(m.responses)
  BY <1>1 DEF RefInv
<1>4. /\ m.pc = "dict" => Alive(m) = Built(k)
      /\ m.pc = "values" => Alive(m) = Built(k) \cup {<<"dict", m.i>>}
      /\ m.pc = "fill" => Alive(m) = Built(m.i)
  BY DEF Alive
<1> HIDE DEF k
<1>5. k <= Len(m.responses) /\ (m.pc # "dict" => k < Len(m.responses))
  BY <1>1, <1>2, <1>3
<1> QED BY <1>1, <1>2, <1>3, <1>4, <1>5

\* PyDict_New.
LEMMA NewDictStep ==
    ASSUME PyBoundaryAssumption, PyInv, NEW t \in Threads, NewDict(t)
    PROVE  PyInv'
<1> DEFINE m == th[t]
           d == DictOf(t)
           rc == Add(m.rc, {d})
           l == [m EXCEPT !.pc = "values", !.rc = rc]
<1>1. m.pc = "dict" /\ m.i <= Len(m.responses) /\ CallInv(m)
  BY InCode DEF NewDict
<1>2. PICK k \in Nat : /\ m.i = k + 1 /\ m.inside = Holds(k) /\ k <= Len(m.responses)
                       /\ Counts(m.rc, Built(k))
  BY <1>1, InWork
<1>3. CASE Return(t, Decref(m.rc, m.inside, TheList), Null, "MemoryError")
  <2>1. Counts(Decref(m.rc, m.inside, TheList), {})
    BY <1>2, ListGone
  <2> QED BY <1>1, <1>3, <2>1, FailsStep DEF Errors
<1>4. CASE Goes(t, l)
  <2>1. d = <<"dict", k + 1>>
    BY <1>2 DEF DictOf
  <2> HIDE DEF d
  <2>2. Counts(rc, Built(k) \cup {<<"dict", k + 1>>})
    <3>1. {d} \cap Built(k) = {}
      BY <2>1, BuiltNext
    <3> QED BY <1>2, <2>1, <3>1, AddCounts
  <2> HIDE DEF m
  <2>3. /\ m \in Locals(DOMAIN m.rc) /\ m.pc \in Building /\ Len(m.responses) \in Nat
    BY <1>1, LocalTypes DEF Building
  <2>4. rc \in [DOMAIN rc -> {0, 1}] /\ k < Len(m.responses)
    <3>1. rc \in [DOMAIN rc -> {0, 1}]
      BY <2>2 DEF Counts
    <3>2. k < Len(m.responses)
      BY <1>1, <1>2, <2>3
    <3> QED BY <3>1, <3>2
  <2> HIDE DEF rc
  <2>5. /\ l.pc = "values" /\ l.rc = rc /\ l.kind = m.kind /\ l.given = m.given
        /\ l.n = m.n /\ l.i = m.i /\ l.requests = m.requests /\ l.responses = m.responses
        /\ l.result = m.result /\ l.err = m.err /\ l.inside = m.inside
        /\ l \in Locals(DOMAIN l.rc)
    BY <2>3, <2>4 DEF Locals, Building
  <2> HIDE DEF l
  <2>6. CallInv(l)
    BY <1>1, <1>2, <2>2, <2>3, <2>4, <2>5, BuildingOn
  <2> QED BY <1>1, <1>4, <2>5, <2>6, GoesStep DEF m, Forever
<1> QED BY <1>3, <1>4 DEF NewDict

\* The values of a response are made, or some of them.
LEMMA NewValuesStep ==
    ASSUME PyBoundaryAssumption, PyInv, NEW t \in Threads, NEW made \in SUBSET Fields,
           NewValues(t, made)
    PROVE  PyInv'
<1> DEFINE m == th[t]
           V == Values(t, made)
           rc == Add(m.rc, V)
           l == [m EXCEPT !.pc = "fill", !.rc = rc]
           A == Abandon(t, Drop(rc, V), m.inside)
<1>1. m.pc = "values" /\ CallInv(m)
      /\ \/ Return(t, A, Null, "UnicodeDecodeError")
         \/ made = Fields /\ Goes(t, l)
  BY InCode DEF NewValues
<1>2. PICK k \in Nat : /\ m.i = k + 1 /\ m.inside = Holds(k) /\ k < Len(m.responses)
                       /\ Counts(m.rc, Built(k) \cup {<<"dict", k + 1>>})
  BY <1>1, InWork
<1> DEFINE d == <<"dict", k + 1>>
           B == Built(k) \cup {d}
           W == {<<f, k + 1>> : f \in Fields}
<1>3. V = {<<f, k + 1>> : f \in made} /\ DictOf(t) = d
  BY <1>2 DEF Values, DictOf
<1>4. V \subseteq W /\ W \cap B = {} /\ Built(k + 1) = B \cup W /\ V \cap B = {}
  <2>1. W \cap B = {} /\ Built(k + 1) = B \cup W
    BY BuiltNext
  <2>2. V \subseteq W
    BY <1>3
  <2> HIDE DEF V, W, B
  <2> QED BY <2>1, <2>2
<1>5. Counts(rc, B \cup V)
  <2> HIDE DEF V, B
  <2> QED BY <1>2, <1>4, AddCounts DEF B
<1>6. CASE Return(t, A, Null, "UnicodeDecodeError")
  <2>1. Counts(Drop(rc, V), B)
    <3> HIDE DEF rc, V, B
    <3>1. V \in SUBSET (B \cup V) /\ (B \cup V) \ V = B
      BY <1>4
    <3> QED BY <1>5, <3>1, DropCounts
  <2> DEFINE r == Drop(rc, V)
  <2>2. Holds(k) \cup ({d} \X {}) = Holds(k) /\ Built(k) \cup {d} \cup {} = B
    OBVIOUS
  <2>3. Counts(Drop(r, Losing(r, Holds(k), d) \cup Losing(r, Holds(k), TheList)), {})
    <3> HIDE DEF r
    <3>1. Counts(r, Built(k) \cup {d} \cup {})
      BY <2>1, <2>2 DEF r
    <3>2. Counts(Drop(r, Losing(r, Holds(k) \cup ({d} \X {}), d)
                         \cup Losing(r, Holds(k) \cup ({d} \X {}), TheList)), {})
      BY <3>1, AllGone
    <3> QED BY <2>2, <3>2
  <2>4. A = Drop(r, Losing(r, Holds(k), d) \cup Losing(r, Holds(k), TheList))
    BY <1>2, <1>3 DEF Abandon
  <2>5. Counts(A, {})
    BY <2>3, <2>4
  <2> HIDE DEF A
  <2> QED BY <1>1, <1>6, <2>5, FailsStep DEF Errors
<1>7. CASE made = Fields /\ Goes(t, l)
  <2>1. Counts(rc, Built(k + 1))
    BY <1>3, <1>4, <1>5, <1>7
  <2> HIDE DEF m
  <2>2. /\ m \in Locals(DOMAIN m.rc) /\ m.pc \in Building /\ Len(m.responses) \in Nat
    BY <1>1, LocalTypes DEF Building
  <2>3. rc \in [DOMAIN rc -> {0, 1}] /\ k <= Len(m.responses)
    BY <1>2, <2>1, <2>2 DEF Counts
  <2> HIDE DEF rc
  <2>4. /\ l.pc = "fill" /\ l.rc = rc /\ l.kind = m.kind /\ l.given = m.given
        /\ l.n = m.n /\ l.i = m.i /\ l.requests = m.requests /\ l.responses = m.responses
        /\ l.result = m.result /\ l.err = m.err /\ l.inside = m.inside
        /\ l \in Locals(DOMAIN l.rc)
    BY <2>2, <2>3 DEF Locals, Building
  <2> HIDE DEF l
  <2>5. CallInv(l)
    BY <1>1, <1>2, <2>1, <2>2, <2>3, <2>4, BuildingOn
  <2> QED BY <1>1, <1>7, <2>4, <2>5, GoesStep DEF m, Forever
<1> QED BY <1>1, <1>6, <1>7

\* They are put into the dict, or some of them; with all of them the dict goes
\* into the list.
LEMMA FillStep ==
    ASSUME PyBoundaryAssumption, PyInv, NEW t \in Threads, NEW set \in SUBSET Fields,
           Fill(t, set)
    PROVE  PyInv'
<1> DEFINE m == th[t]
           V == Values(t, set)
           rc == AfterFill(t, Add(m.rc, V))
           in == m.inside \cup ({DictOf(t)} \X V)
           all == in \cup {<<TheList, DictOf(t)>>}
           j == m.i + 1
           l == [m EXCEPT !.pc = "dict", !.i = j, !.rc = rc, !.inside = all]
           A == Abandon(t, rc, in)
<1>1. m.pc = "fill" /\ CallInv(m)
      /\ \/ Return(t, A, Null, "MemoryError")
         \/ set = Fields /\ Goes(t, l)
  BY InCode DEF Fill
<1>2. PICK k \in Nat : /\ m.i = k + 1 /\ m.inside = Holds(k) /\ k < Len(m.responses)
                       /\ Counts(m.rc, Built(k + 1))
  BY <1>1, InWork
<1> DEFINE d == <<"dict", k + 1>>
           W == {<<f, k + 1>> : f \in Fields}
<1>3. V = {<<f, k + 1>> : f \in set} /\ DictOf(t) = d /\ Values(t, Fields) = W
  BY <1>2 DEF Values, DictOf
<1>4. V \subseteq W
  BY <1>3
<1>5. rc = Drop(Add(m.rc, V), W)
  BY <1>3 DEF AfterFill
<1>6. Counts(rc, Built(k) \cup {d} \cup V)
  <2> HIDE DEF V, rc
  <2> QED BY <1>2, <1>4, <1>5, Filled
<1>7. in = Holds(k) \cup ({d} \X V)
  BY <1>2, <1>3
<1> HIDE DEF rc
<1>8. CASE Return(t, A, Null, "MemoryError")
  <2>1. A = Drop(rc, Losing(rc, in, d) \cup Losing(rc, in, TheList))
    BY <1>3 DEF Abandon
  <2>2. Counts(A, {})
    <3> HIDE DEF V, in, A
    <3> QED BY <1>4, <1>6, <1>7, <2>1, AllGone
  <2> HIDE DEF A
  <2> QED BY <1>1, <1>8, <2>2, FailsStep DEF Errors
<1>9. CASE set = Fields /\ Goes(t, l)
  <2>1. V = W
    BY <1>3, <1>9
  <2>2. Built(k + 1) = Built(k) \cup {d} \cup W
        /\ Holds(k + 1) = Holds(k) \cup ({d} \X W) \cup {<<TheList, d>>}
    BY BuiltNext
  <2>3. Counts(rc, Built(k + 1))
    <3> HIDE DEF V, W
    <3> QED BY <1>6, <2>1, <2>2
  <2>4. all = Holds(k + 1)
    <3> HIDE DEF V, W
    <3> QED BY <1>3, <1>7, <2>1, <2>2
  <2> HIDE DEF m
  <2>5. /\ m \in Locals(DOMAIN m.rc) /\ m.pc \in Building /\ Len(m.responses) \in Nat
    BY <1>1, LocalTypes DEF Building
  <2>6. /\ k + 1 <= Len(m.responses) /\ j = (k + 1) + 1 /\ k + 1 \in Nat /\ j \in Nat \ {0}
    BY <1>2, <2>5
  <2>7. rc \in [DOMAIN rc -> {0, 1}]
    BY <2>3 DEF Counts
  <2>8. all \in SUBSET (Objects \X Objects)
    BY <2>4, <2>6, HoldsType
  <2> HIDE DEF all, j
  <2>9. /\ l.pc = "dict" /\ l.rc = rc /\ l.kind = m.kind /\ l.given = m.given
        /\ l.n = m.n /\ l.i = j /\ l.requests = m.requests /\ l.responses = m.responses
        /\ l.result = m.result /\ l.err = m.err /\ l.inside = all
        /\ l \in Locals(DOMAIN l.rc)
    BY <2>5, <2>6, <2>7, <2>8 DEF Locals, Building
  <2> HIDE DEF l
  <2>10. CallInv(l)
    BY <1>1, <2>3, <2>4, <2>5, <2>6, <2>9, BuildingOn
  <2> QED BY <1>1, <1>9, <2>9, <2>10, GoesStep DEF m, Forever
<1> QED BY <1>1, <1>8, <1>9

\* The list is complete.
LEMMA DoneStep ==
    ASSUME PyBoundaryAssumption, PyInv, NEW t \in Threads, Done(t)
    PROVE  PyInv'
<1> DEFINE m == th[t]
           r == m.responses
           rc == m.rc
           l == [m EXCEPT !.pc = "python", !.rc = rc, !.result = r, !.err = Null]
<1>1. /\ m.pc = "dict" /\ m.i > Len(m.responses) /\ CallInv(m)
      /\ th' = [th EXCEPT ![t] = l] /\ gil' = Null /\ content' = content /\ ssl' = ssl
      /\ calls' = calls /\ edits' = edits
  BY InCode DEF Done, Return, shared, PyInv
<1>2. PICK k \in Nat : /\ m.i = k + 1 /\ m.inside = Holds(k) /\ k <= Len(m.responses)
                       /\ Counts(m.rc, Built(k))
  BY <1>1, InWork
<1>3. gil = t /\ calls \in 0..MaxCalls /\ ssl \in BOOLEAN
  BY <1>1, InCode
<1> HIDE DEF m
<1>4. /\ m \in Locals(DOMAIN m.rc) /\ m.responses \in Seq(Replies) /\ Len(m.responses) \in Nat
      /\ ReadInv(m)
  BY <1>1, LocalTypes
<1>5. k = Len(m.responses)
  BY <1>1, <1>2, <1>4
<1>6. r # Null
  BY <1>4 DEF PyBoundaryAssumption
<1>7. rc \in [DOMAIN rc -> {0, 1}] /\ r \in Seq(Replies)
  BY <1>2, <1>4 DEF Counts
<1>8. r = m.responses /\ rc = m.rc
  OBVIOUS
<1> HIDE DEF r, rc
<1>9. /\ l.pc = "python" /\ l.rc = rc /\ l.kind = m.kind /\ l.given = m.given
      /\ l.n = m.n /\ l.i = m.i /\ l.requests = m.requests /\ l.responses = m.responses
      /\ l.result = r /\ l.err = Null /\ l.inside = m.inside
      /\ l \in Locals(DOMAIN l.rc)
  BY <1>4, <1>7 DEF Locals
<1> HIDE DEF l
<1>10. RefInv(l)
  <2>1. Null # "std::bad_alloc"
    BY DEF PyBoundaryAssumption, Errors
  <2>2. Alive(l) = Built(k)
    BY <1>5, <1>6, <1>9, <2>1 DEF Alive
  <2>3. Counts(l.rc, Alive(l))
    BY <1>2, <1>8, <1>9, <2>2
  <2> QED BY <1>2, <1>5, <1>9, <2>3 DEF RefInv, Reading, Working, Forever
<1>11. OutcomeInv(l)
  BY <1>6, <1>8, <1>9 DEF OutcomeInv
<1>12. ReadInv(l)
  BY <1>1, <1>4, <1>6, <1>9 DEF ReadInv, Asked, Reading, Working, Forever, Building
<1>13. CallInv(l)
  BY <1>9, <1>10, <1>11, <1>12 DEF CallInv
<1> QED BY <1>1, <1>3, <1>9, <1>13, ThreadStep DEF Forever

\* Python code that changes the requests object.
LEMMA EditStep ==
    ASSUME PyBoundaryAssumption, PyInv, NEW items \in Contents, Edit(items)
    PROVE  PyInv'
<1>1. /\ gil = Null /\ gil' = gil /\ content' = items /\ ssl' = ssl /\ th' = th /\ calls' = calls
      /\ edits' = edits + 1 /\ edits < MaxEdits
  BY DEF Edit
<1>2. edits' \in 0..MaxEdits
  BY <1>1 DEF PyInv, PyBoundaryAssumption
<1>3. ASSUME NEW t \in Threads PROVE CallInv(th[t])' /\ GilInv(t)'
  <2>1. CallInv(th[t]) /\ GilInv(t) /\ gil # t
    BY <1>1 DEF PyInv, PyBoundaryAssumption
  <2>2. th[t].pc \in {"python", "python code"} /\ ReadInv(th[t])
    BY <2>1, LocalTypes DEF GilInv
  <2>3. th[t].kind = "list" => th[t].pc = "python"
    BY <2>2 DEF ReadInv
  <2>4. GilInv(t)'
    BY <1>1, <2>1, <2>3 DEF GilInv
  <2> QED BY <1>1, <2>1, <2>4
<1> QED BY <1>1, <1>2, <1>3 DEF PyInv

(***************************************************************************)
(* The theorems.                                                           *)
(***************************************************************************)

\* The calls are in order at the start, and every step keeps them so.
LEMMA PyInvariant ==
    ASSUME PyBoundaryAssumption
    PROVE  Spec => []PyInv
<1>1. Init => PyInv
  <2> SUFFICES ASSUME Init PROVE PyInv
    OBVIOUS
  <2>1. CallInv(Idle)
    <3>1. /\ Idle.pc = "python" /\ Idle.rc = [o \in {} |-> 0] /\ Idle.err = Null
          /\ Idle.result = Null /\ DOMAIN Idle.rc = {}
      BY DEF Idle
    <3>2. Null # "std::bad_alloc"
      BY DEF PyBoundaryAssumption, Errors
    <3>3. RefInv(Idle)
      BY <3>1, <3>2 DEF RefInv, Counts, Alive, Reading, Working, Forever
    <3>4. OutcomeInv(Idle) /\ ReadInv(Idle)
      BY <3>1 DEF OutcomeInv, ReadInv, Asked, Reading, Working, Forever, Building
    <3> QED BY <3>1, <3>3, <3>4, IdleLocals DEF CallInv
  <2>2. /\ gil = Null /\ content \in Contents /\ ssl = FALSE /\ calls = 0 /\ edits = 0
        /\ th = [t \in Threads |-> Idle] /\ MaxCalls \in Nat /\ MaxEdits \in Nat
    BY DEF Init, PyBoundaryAssumption
  <2>3. ASSUME NEW t \in Threads PROVE CallInv(th[t]) /\ GilInv(t)
    <3>1. th[t] = Idle /\ gil # t
      BY <2>2 DEF PyBoundaryAssumption
    <3>2. Idle.pc = "python"
      BY DEF Idle
    <3> QED BY <2>1, <3>1, <3>2 DEF GilInv, Forever
  <2>4. /\ gil \in Threads \cup {Null} /\ ssl \in BOOLEAN /\ DOMAIN th = Threads
        /\ calls \in 0..MaxCalls /\ edits \in 0..MaxEdits
    <3>1. \A n \in Nat : 0 \in 0..n
      OBVIOUS
    <3>2. calls \in 0..MaxCalls /\ edits \in 0..MaxEdits
      BY ONLY <2>2, <3>1, Zenon
    <3>3. DOMAIN th = Threads
      BY <2>2
    <3> QED BY <2>2, <3>2, <3>3
  <2> QED BY <2>2, <2>3, <2>4 DEF PyInv
<1>2. ASSUME PyInv, [Next]_vars PROVE PyInv'
  <2>1. ASSUME NEW t \in Threads, Step(t) PROVE PyInv'
    <3>1. CASE \/ Refuse(t) \/ Size(t) \/ Yield(t) \/ Resume(t) \/ GetItemFails(t) \/ GetItem(t)
               \/ ItemRefused(t) \/ ItemRead(t) \/ BadAlloc(t)
      BY <1>2, <3>1, RefuseStep, SizeStep, YieldStep, ResumeStep, GetItemFailsStep, GetItemStep,
         ItemRefusedStep, ItemReadStep, BadAllocStep
    <3>2. CASE \/ Enter(t) \/ Invalid(t) \/ SslCheck(t) \/ SslInit(t) \/ Net(t)
               \/ BackendThrows(t) \/ Solve(t)
      BY <1>2, <3>2, EnterStep, InvalidStep, SslCheckStep, SslInitStep, NetStep,
         BackendThrowsStep, SolveStep
    <3>3. CASE NewList(t) \/ NewDict(t) \/ Done(t)
      BY <1>2, <3>3, NewListStep, NewDictStep, DoneStep
    <3>4. ASSUME NEW fs \in SUBSET Fields, NewValues(t, fs) \/ Fill(t, fs) PROVE PyInv'
      BY <1>2, <3>4, NewValuesStep, FillStep
    <3> QED BY <2>1, <3>1, <3>2, <3>3, <3>4 DEF Step
  <2>2. ASSUME NEW t \in Threads, NEW watch \in BOOLEAN, NEW kind \in Kinds, Call(t, watch, kind)
        PROVE  PyInv'
    BY <1>2, <2>2, CallStep
  <2>3. ASSUME NEW items \in Contents, Edit(items) PROVE PyInv'
    BY <1>2, <2>3, EditStep
  <2>4. ASSUME NEW t \in Threads, ForeverEnds(t) PROVE PyInv'
    BY <1>2, <2>4, ForeverEndsStep
  <2>5. CASE UNCHANGED vars
    BY <1>2, <2>5 DEF PyInv, GilInv, vars
  <2> QED BY <1>2, <2>1, <2>2, <2>3, <2>4, <2>5 DEF Next
<1> QED BY <1>1, <1>2, PTL DEF Spec

\* The objects of a list are those that something in it holds.
LEMMA BuiltAreHeld ==
    ASSUME NEW k \in Nat
    PROVE  Built(k) = {TheList} \cup {p[2] : p \in Holds(k)}
<1>1. ASSUME NEW j \in 1..k PROVE <<"dict", j>> \in {p[2] : p \in Holds(k)}
  <2> DEFINE p == <<TheList, <<"dict", j>> >>
  <2>1. p \in Holds(k) /\ p[2] = <<"dict", j>>
    BY DEF Holds
  <2> QED BY <2>1
<1>2. ASSUME NEW j \in 1..k, NEW f \in Fields PROVE <<f, j>> \in {p[2] : p \in Holds(k)}
  <2> DEFINE p == << <<"dict", j>>, <<f, j>> >>
  <2>1. p \in Holds(k) /\ p[2] = <<f, j>>
    BY DEF Holds
  <2> QED BY <2>1
<1>3. ASSUME NEW p \in Holds(k) PROVE p[2] \in Built(k)
  <2>1. CASE \E j \in 1..k : p = <<TheList, <<"dict", j>> >>
    <3>1. PICK j \in 1..k : p = <<TheList, <<"dict", j>> >>
      BY <2>1
    <3>2. p[2] = <<"dict", j>>
      BY <3>1
    <3> QED BY <3>2 DEF Built
  <2>2. CASE \E f \in Fields, j \in 1..k : p = << <<"dict", j>>, <<f, j>> >>
    <3>1. PICK f \in Fields, j \in 1..k : p = << <<"dict", j>>, <<f, j>> >>
      BY <2>2
    <3>2. p[2] = <<f, j>>
      BY <3>1
    <3> QED BY <3>2 DEF Built
  <2> QED BY <2>1, <2>2 DEF Holds
<1>4. Built(k) \subseteq {TheList} \cup {p[2] : p \in Holds(k)}
  <2> DEFINE H == {p[2] : p \in Holds(k)}
  <2>1. /\ \A j \in 1..k : <<"dict", j>> \in H
        /\ \A j \in 1..k : \A f \in Fields : <<f, j>> \in H
    BY <1>1, <1>2
  <2> HIDE DEF H
  <2>2. Built(k) \subseteq {TheList} \cup H
    BY <2>1 DEF Built
  <2> QED BY <2>2 DEF H
<1>5. TheList \in Built(k)
  BY DEF Built
<1> QED BY <1>3, <1>4, <1>5

\* On every path out of the wrappers NULL comes with an exception and a result
\* without one, and the references are balanced; nobody uses OpenSSL before it
\* is set up, which happens once: for any number of threads, items and
\* responses, whichever call of the C API fails.
THEOREM EveryCallIsClean ==
    ASSUME PyBoundaryAssumption
    PROVE  Spec => []CallsAreClean
<1>1. ASSUME PyInv PROVE CallsAreClean
  <2>1. ASSUME NEW t \in Threads PROVE CallInv(th[t]) /\ GilInv(t)
    BY <1>1 DEF PyInv
  <2>2. TypeOK
    <3>1. ASSUME NEW t \in Threads
          PROVE  /\ th[t].i \in Nat /\ th[t].kind \in Kinds
                 /\ \A o \in DOMAIN th[t].rc : th[t].rc[o] \in Nat
                 /\ (gil = t) <=> (InCall(t) /\ th[t].pc # "python code")
      <4>1. th[t].i \in Nat /\ th[t].kind \in Kinds /\ Counts(th[t].rc, Alive(th[t]))
        BY <2>1, LocalTypes
      <4>2. \A o \in DOMAIN th[t].rc : th[t].rc[o] \in Nat
        BY <4>1 DEF Counts
      <4> QED BY <2>1, <4>1, <4>2 DEF GilInv, InCall
    <3> QED BY <1>1, <3>1 DEF TypeOK, PyInv
  <2>3. NullMeansException
    <3> SUFFICES ASSUME NEW t \in Threads, Returned(t)
                 PROVE  (th[t].result = Null) <=> (th[t].err # Null)
      BY DEF NullMeansException
    <3>1. OutcomeInv(th[t])
      BY <2>1, LocalTypes
    <3> QED BY <3>1 DEF OutcomeInv, Returned, InCall
  <2>4. ReferencesBalance
    <3> SUFFICES ASSUME NEW t \in Threads, Returned(t), th[t].err # "std::bad_alloc"
                 PROVE  LET rc == th[t].rc
                            alive == {o \in DOMAIN rc : rc[o] # 0}
                        IN IF th[t].result = Null THEN alive = {}
                           ELSE /\ alive = {TheList} \cup {p[2] : p \in th[t].inside}
                                /\ \A o \in alive : rc[o] = 1
      BY DEF ReferencesBalance
    <3> DEFINE m == th[t]
               alive == {o \in DOMAIN m.rc : m.rc[o] # 0}
    <3>1. m.pc = "python" /\ Counts(m.rc, Alive(m)) /\ RefInv(m) /\ Len(m.responses) \in Nat
      BY <2>1, LocalTypes DEF Returned, InCall
    <3> HIDE DEF m
    <3>2. alive = Alive(m) /\ \A o \in alive : m.rc[o] = 1
      BY <3>1 DEF Counts
    <3>3. CASE m.result = Null
      <4>1. Alive(m) = {}
        BY <3>1, <3>3 DEF Alive, m
      <4> QED BY <3>2, <3>3, <4>1 DEF m
    <3>4. CASE m.result # Null
      <4>1. Alive(m) = Built(Len(m.responses))
        BY <3>1, <3>4 DEF Alive, m
      <4>2. m.inside = Holds(Len(m.responses))
        BY <3>1, <3>4 DEF RefInv
      <4>3. alive = {TheList} \cup {p[2] : p \in m.inside}
        BY <3>1, <3>2, <4>1, <4>2, BuiltAreHeld
      <4> QED BY <3>2, <3>4, <4>3 DEF m
    <3> QED BY <3>3, <3>4
  <2>5. SslSetUpOnce
    BY <2>1 DEF SslSetUpOnce, GilInv
  <2> QED BY <2>2, <2>3, <2>4, <2>5 DEF CallsAreClean
<1> QED BY <1>1, PyInvariant, PTL

\* Response k is about item k of the list as it was when the call was made,
\* and every item of that list was read and found valid: whatever other
\* threads do with the list, which they can only do before or after the call.
THEOREM ResponsesAnswerItems ==
    ASSUME PyBoundaryAssumption
    PROVE  Spec => []RequestsKept
<1>1. ASSUME PyInv PROVE RequestsKept
  <2> SUFFICES ASSUME NEW t \in Threads, Returned(t), th[t].result # Null, th[t].kind = "list"
               PROVE  /\ \A k \in DOMAIN th[t].given :
                            Readable(th[t].given[k]) /\ Valid(Request(th[t].given[k]))
                      /\ \A k \in DOMAIN th[t].result \cap DOMAIN th[t].given :
                            th[t].result[k].answers = Request(th[t].given[k])
    BY DEF RequestsKept
  <2> DEFINE m == th[t]
  <2>1. CallInv(m)
    BY <1>1 DEF PyInv
  <2>2. m.result # Null /\ m.kind = "list"
    OBVIOUS
  <2> HIDE DEF m
  <2>3. /\ ReadInv(m) /\ OutcomeInv(m) /\ Len(m.requests) \in Nat
        /\ m.given \in Seq(Items) /\ m.responses \in Seq(Replies)
    BY <2>1, LocalTypes
  <2>4. DOMAIN m.given = 1..Len(m.given) /\ DOMAIN m.responses = 1..Len(m.responses)
    BY <2>3, LenProperties
  <2>5. m.result = m.responses
    BY <2>2, <2>3 DEF OutcomeInv
  <2>6. /\ Len(m.requests) = Len(m.given)
        /\ \A k \in 1..Len(m.requests) :
              Readable(m.given[k]) /\ m.requests[k] = Request(m.given[k])
        /\ \A k \in 1..Len(m.requests) : Valid(m.requests[k])
        /\ \A k \in 1..Len(m.responses) :
              k <= Len(m.requests) => m.responses[k].answers = m.requests[k]
    BY <2>2, <2>3 DEF ReadInv, Asked
  <2>7. \A k \in DOMAIN m.given : Readable(m.given[k]) /\ Valid(Request(m.given[k]))
    BY <2>4, <2>6
  <2>8. ASSUME NEW k \in DOMAIN m.result \cap DOMAIN m.given
        PROVE  m.result[k].answers = Request(m.given[k])
    <3>1. k \in 1..Len(m.responses) /\ k \in 1..Len(m.requests)
      BY <2>4, <2>5, <2>6
    <3>2. k <= Len(m.requests)
      BY <2>3, <3>1
    <3> QED BY <2>5, <2>6, <3>1, <3>2
  <2> QED BY <2>7, <2>8 DEF m
<1> QED BY <1>1, PyInvariant, PTL
=============================================================================
