----------------------------- MODULE PyBoundary -----------------------------
(***************************************************************************)
(* solve_requests and solve_requests_from_watch as Python calls them, from *)
(* several threads.  A call converts its requests argument item by item,   *)
(* runs the backend and builds a list of dicts from the responses; each    *)
(* call of the C API may fail half-way, and every reference taken until    *)
(* then has to be given back exactly once.                                 *)
(*                                                                         *)
(* The GIL is held from entry to return: the backend does not give it up.  *)
(* It only changes hands while a requests object that is written in Python *)
(* runs its own code ("lazy"; a list runs none).  Dicts have string keys.  *)
(* The backend is seen through what it returns (module SolverBoundary has  *)
(* its steps), but for the initialisation of OpenSSL, which calls share.   *)
(***************************************************************************)
EXTENDS Integers, Sequences, SequencesExt

CONSTANTS
    Threads,   \* Python threads
    Contents,  \* what the shared requests object may hold: sequences of items
    Texts,     \* Python strings, as sequences over Chars
    NotStr,    \* a value that is no string
    MaxCalls,  \* bound: calls of all threads
    MaxEdits,  \* bound: changes of the requests object
    Null       \* no object, no exception

\* NUL ends a C string; a lone surrogate has no UTF-8 encoding.
Chars == {"sig", "n", "c", "NUL", "surrogate"}
NotADict == [isDict |-> FALSE, type |-> Null, challenge |-> Null]
Items == {NotADict} \cup
         [isDict : {TRUE}, type : Texts \cup {Null, NotStr}, challenge : Texts \cup {Null, NotStr}]
Kinds == {"list", "lazy", "no sequence"}
Fields == {"type", "ok", "data", "error"}

Errors == {"TypeError", "RuntimeError", "MemoryError", "UnicodeDecodeError", "std::bad_alloc"}

VARIABLES
    gil,      \* the thread that holds the GIL
    content,  \* the requests object the threads share
    ssl,      \* ssl_init of https_request
    th,       \* th[t]: where t is in its call, and its locals
    calls, edits

vars == <<gil, content, ssl, th, calls, edits>>
shared == <<content, ssl, calls, edits>>

\* The locals: n and i of the loops, item, the requests and responses, rc[o]
\* for every object o of the call, inside: <<c, o>> when c owns a reference
\* to o, the pending exception and the result.  given is a history variable.
Idle == [pc |-> "python", watch |-> FALSE, kind |-> "list", given |-> <<>>, n |-> 0, i |-> 1,
         item |-> NotADict, requests |-> <<>>, responses |-> <<>>,
         rc |-> [o \in {} |-> 0], inside |-> {}, err |-> Null, result |-> Null]

Init ==
    /\ gil = Null /\ content \in Contents /\ ssl = FALSE
    /\ th = [t \in Threads |-> Idle]
    /\ calls = 0 /\ edits = 0

-----------------------------------------------------------------------------
(***************************************************************************)
(* Reference counts.  An object whose count falls to 0 gives up what it    *)
(* owns: a list its dicts, a dict its values.                              *)
(***************************************************************************)
Add(rc, os) == [x \in DOMAIN rc \cup os |-> IF x \notin DOMAIN rc THEN 1
                                           ELSE IF x \in os THEN rc[x] + 1 ELSE rc[x]]
Drop(rc, os) == [x \in DOMAIN rc |-> IF x \in os THEN rc[x] - 1 ELSE rc[x]]
Owned(in, o) == {p[2] : p \in {q \in in : q[1] = o}}
Losing(rc, in, o) ==
    {o} \cup UNION {{x} \cup (IF rc[x] = 1 THEN Owned(in, x) ELSE {}) :
                     x \in IF rc[o] = 1 THEN Owned(in, o) ELSE {}}

Decref(rc, in, o) == Drop(rc, Losing(rc, in, o))

TheItem == <<"item", 0>>
TheList == <<"list", 0>>
DictOf(t) == <<"dict", th[t].i>>
Values(t, fs) == {<<f, th[t].i>> : f \in fs}

\* A thread stays in its call, or returns: NULL comes with an exception, and
\* the GIL is free for others.
Goes(t, locals) == th' = [th EXCEPT ![t] = locals] /\ UNCHANGED <<gil, shared>>

\* Mutant: the exception of a failed conversion is left to somebody else.
ReturnBare(t, rc, result, err) ==
    /\ th' = [th EXCEPT ![t] = [@ EXCEPT !.pc = "python", !.rc = rc, !.result = result]]
    /\ gil' = Null /\ UNCHANGED shared

Return(t, rc, result, err) ==
    /\ th' = [th EXCEPT ![t] =
                [@ EXCEPT !.pc = "python", !.rc = rc, !.result = result, !.err = err]]
    /\ gil' = Null /\ UNCHANGED shared

-----------------------------------------------------------------------------
(***************************************************************************)
(* Entry and py_requests_to_cpp.                                           *)
(***************************************************************************)
Call(t, watch, kind) ==
    /\ th[t].pc = "python" /\ gil = Null /\ calls < MaxCalls
    /\ calls' = calls + 1 /\ gil' = t
    /\ th' = [th EXCEPT ![t] = [Idle EXCEPT !.pc = "parse", !.watch = watch,
                                            !.kind = kind, !.given = content]]
    /\ UNCHANGED <<content, ssl, edits>>

\* The arguments do not fit "sO|sss", or requests is no sequence, or its
\* __len__ raises.
Refuse(t) ==
    /\ th[t].pc = "parse"
    /\ Return(t, th[t].rc, Null, "TypeError")

Size(t) ==
    /\ th[t].pc = "parse" /\ th[t].kind # "no sequence"
    /\ Goes(t, [th[t] EXCEPT !.pc = "item", !.n = Len(content)])

\* __getitem__ of a lazy object runs Python code, which lets others run.
Yield(t) ==
    /\ th[t].pc = "item" /\ th[t].kind = "lazy" /\ th[t].i <= th[t].n
    /\ th' = [th EXCEPT ![t].pc = "python code"]
    /\ gil' = Null /\ UNCHANGED shared

\* Mutant: an item that took another thread's time is asked for again.
ResumeAgain(t) ==
    /\ th[t].pc = "python code" /\ gil = Null
    /\ th' = [th EXCEPT ![t].pc = "item"]
    /\ gil' = t /\ UNCHANGED shared

Resume(t) ==
    /\ th[t].pc = "python code" /\ gil = Null
    /\ th' = [th EXCEPT ![t].pc = "getitem"]
    /\ gil' = t /\ UNCHANGED shared

\* The object has become too short, or __getitem__ raises.
GetItemFails(t) ==
    /\ th[t].pc = "getitem"
    /\ Return(t, th[t].rc, Null, "TypeError")

\* Mutant: the loop counts from 0, Python from the end.
ItemFromEnd(t) == content[Len(content) + 1 - th[t].i]

ItemAt(t) == content[th[t].i]

GetItem(t) ==
    /\ th[t].pc = "getitem" \/ (th[t].pc = "item" /\ th[t].kind = "list")
    /\ th[t].i <= th[t].n /\ th[t].i <= Len(content)
    /\ Goes(t, [th[t] EXCEPT !.pc = "read", !.item = ItemAt(t), !.rc = Add(@, {TheItem})])

\* PyUnicode_Check and PyUnicode_AsUTF8 of a value; the std::string made of
\* the const char* they give ends at the first NUL.
HasUTF8(v) == v \notin {Null, NotStr} /\ ~Contains(v, "surrogate")
CString(s) ==
    IF Contains(s, "NUL") THEN SubSeq(s, 1, SelectInSeq(s, LAMBDA c : c = "NUL") - 1) ELSE s

Readable(item) == item.isDict /\ HasUTF8(item.type) /\ HasUTF8(item.challenge)
Request(item) == [type |-> CString(item.type), challenge |-> CString(item.challenge)]

ReleaseItem(t) == Decref(th[t].rc, {}, TheItem)

ItemRefused(t) ==
    /\ th[t].pc = "read" /\ ~Readable(th[t].item)
    /\ Return(t, ReleaseItem(t), Null, "TypeError")

ItemRead(t) ==
    /\ th[t].pc = "read" /\ Readable(th[t].item)
    /\ Goes(t, [th[t] EXCEPT !.pc = "item", !.i = @ + 1, !.rc = ReleaseItem(t),
                             !.requests = Append(@, Request(th[t].item))])

\* The strings cannot be allocated: the handler knows nothing of the item.
BadAlloc(t) ==
    /\ th[t].pc = "read" /\ Readable(th[t].item)
    /\ Return(t, th[t].rc, Null, "std::bad_alloc")

-----------------------------------------------------------------------------
(***************************************************************************)
(* The backend.  No requests, no work; requests that are not valid throw;  *)
(* then https_request (watch only) and the engine.                         *)
(***************************************************************************)
Valid(r) == r.type \in {<<"sig">>, <<"n">>} /\ r.challenge # <<>>

\* Mutant: other threads may run while the backend works.
AllowThreads(t) == gil' = Null

\* Py_BEGIN_ALLOW_THREADS is not used.
KeepGil(t) == UNCHANGED gil

Enter(t) ==
    /\ th[t].pc = "item" /\ th[t].i > th[t].n
    /\ \A k \in DOMAIN th[t].requests : Valid(th[t].requests[k])
    /\ th' = [th EXCEPT ![t].pc = IF th[t].requests = <<>> THEN "list"
                                  ELSE IF th[t].watch THEN "ssl_check" ELSE "solve"]
    /\ KeepGil(t) /\ UNCHANGED shared

Invalid(t) ==
    /\ th[t].pc = "item" /\ th[t].i > th[t].n
    /\ \E k \in DOMAIN th[t].requests : ~Valid(th[t].requests[k])
    /\ Return(t, th[t].rc, Null, "RuntimeError")

SslCheck(t) ==
    /\ th[t].pc = "ssl_check"
    /\ Goes(t, [th[t] EXCEPT !.pc = IF ssl THEN "net" ELSE "ssl_init"])

SslInit(t) ==
    /\ th[t].pc = "ssl_init"
    /\ ssl' = TRUE
    /\ th' = [th EXCEPT ![t].pc = "net"]
    /\ UNCHANGED <<gil, content, calls, edits>>

\* https_request returns, or it does not: the server says nothing and is
\* waited for without end, it never stops sending and is read without end, or
\* it sends a chunk size that keeps decode_chunked in a circle.
Forever == {"silence", "stream", "circle"}

Net(t) ==
    /\ th[t].pc = "net"
    /\ \E next \in {"solve"} \cup Forever : Goes(t, [th[t] EXCEPT !.pc = next])

\* Even then the connection may break, or the memory give out; nothing says
\* that it does.
ForeverEnds(t) ==
    /\ th[t].pc \in Forever
    /\ Return(t, th[t].rc, Null, "RuntimeError")

BackendThrows(t) ==
    /\ th[t].pc \in {"net", "solve"}
    /\ Return(t, th[t].rc, Null, "RuntimeError")

\* As many responses as jsc gave, each with the type of the request in its
\* place.  A text of JavaScript may hold a lone surrogate: no UTF-8.
Responses(rs) ==
    {[k \in 1..n |-> [answers |-> IF k <= Len(rs) THEN rs[k] ELSE Null, utf8 |-> k # bad]] :
        n \in 0..(Len(rs) + 1), bad \in 0..(Len(rs) + 1)}

Readables == {item \in Items : Readable(item)}
Replies == [answers : {Request(item) : item \in Readables} \cup {Null}, utf8 : BOOLEAN]

\* The constants.  Null is like no object of the call.
PyBoundaryAssumption ==
    /\ Contents \subseteq Seq(Items)
    /\ Texts \subseteq Seq(Chars)
    /\ MaxCalls \in Nat /\ MaxEdits \in Nat
    /\ Null \notin Threads \cup Errors /\ Null \notin Seq(Replies)

Solve(t) ==
    /\ th[t].pc = "solve"
    /\ \E rs \in Responses(th[t].requests) :
          Goes(t, [th[t] EXCEPT !.pc = "list", !.responses = rs])

-----------------------------------------------------------------------------
(***************************************************************************)
(* responses_to_py.                                                        *)
(***************************************************************************)
NewList(t) ==
    /\ th[t].pc = "list"
    /\ \/ Return(t, th[t].rc, Null, "MemoryError")
       \/ Goes(t, [th[t] EXCEPT !.pc = "dict", !.i = 1, !.rc = Add(@, {TheList})])

NewDict(t) ==
    /\ th[t].pc = "dict" /\ th[t].i <= Len(th[t].responses)
    /\ \/ Return(t, Decref(th[t].rc, th[t].inside, TheList), Null, "MemoryError")
       \/ Goes(t, [th[t] EXCEPT !.pc = "values", !.rc = Add(@, {DictOf(t)})])

\* Mutant: the list is forgotten.
AbandonDict(t, rc, in) == Decref(rc, in, DictOf(t))

\* The dict in work and the list, which does not hold it yet, go with all they
\* own.
Abandon(t, rc, in) == Drop(rc, Losing(rc, in, DictOf(t)) \cup Losing(rc, in, TheList))

\* PyUnicode_FromString and PyBool_FromLong; made are the ones that succeed.
NewValues(t, made) ==
    LET rc == Add(th[t].rc, Values(t, made)) IN
    /\ th[t].pc = "values"
    /\ "ok" \in made
    /\ "data" \in made => th[t].responses[th[t].i].utf8
    /\ \/ /\ made # Fields
          /\ Return(t, Abandon(t, Drop(rc, Values(t, made)), th[t].inside), Null,
                    "UnicodeDecodeError")
       \/ /\ made = Fields
          /\ Goes(t, [th[t] EXCEPT !.pc = "fill", !.rc = rc])

AfterFill(t, rc) == Drop(rc, Values(t, Fields))

\* The dict takes references of its own to the values of set, the locals are
\* given up.  If all went well the list steals the dict.
Fill(t, set) ==
    LET rc == AfterFill(t, Add(th[t].rc, Values(t, set)))
        in == th[t].inside \cup ({DictOf(t)} \X Values(t, set))
    IN
    /\ th[t].pc = "fill"
    /\ \/ /\ set # Fields
          /\ Return(t, Abandon(t, rc, in), Null, "MemoryError")
       \/ /\ set = Fields
          /\ Goes(t, [th[t] EXCEPT !.pc = "dict", !.i = @ + 1, !.rc = rc,
                                   !.inside = in \cup {<<TheList, DictOf(t)>>}])

Done(t) ==
    /\ th[t].pc = "dict" /\ th[t].i > Len(th[t].responses)
    /\ Return(t, th[t].rc, th[t].responses, Null)

\* Python code changes the requests object while no call holds the GIL.
Edit(items) ==
    /\ gil = Null /\ edits < MaxEdits
    /\ content # items
    /\ content' = items /\ edits' = edits + 1
    /\ UNCHANGED <<gil, ssl, th, calls>>

Step(t) ==
    \/ Refuse(t) \/ Size(t) \/ Yield(t) \/ Resume(t) \/ GetItemFails(t) \/ GetItem(t)
    \/ ItemRefused(t) \/ ItemRead(t) \/ BadAlloc(t) \/ Enter(t) \/ Invalid(t)
    \/ SslCheck(t) \/ SslInit(t) \/ Net(t) \/ BackendThrows(t) \/ Solve(t)
    \/ NewList(t) \/ NewDict(t) \/ Done(t)
    \/ \E fs \in SUBSET Fields : NewValues(t, fs) \/ Fill(t, fs)

Next ==
    \/ \E t \in Threads : Step(t) \/ ForeverEnds(t)
    \/ \E t \in Threads, watch \in BOOLEAN, kind \in Kinds : Call(t, watch, kind)
    \/ \E items \in Contents : Edit(items)

Spec == Init /\ [][Next]_vars /\ \A t \in Threads : WF_vars(Step(t))

-----------------------------------------------------------------------------
(***************************************************************************)
(* Properties.                                                             *)
(***************************************************************************)
InCall(t) == th[t].pc # "python"
Returned(t) == ~InCall(t) /\ th[t] # Idle

\* The state has its types, no reference count is negative, and a thread
\* that runs C++ code holds the GIL.
TypeOK ==
    /\ gil \in Threads \cup {Null} /\ ssl \in BOOLEAN /\ content \in Contents
    /\ calls \in 0..MaxCalls /\ edits \in 0..MaxEdits
    /\ \A t \in Threads :
          /\ th[t].i \in Nat /\ th[t].kind \in Kinds
          /\ \A o \in DOMAIN th[t].rc : th[t].rc[o] \in Nat
          /\ (gil = t) <=> (InCall(t) /\ th[t].pc # "python code")

\* Python's calling convention, on every path out of the wrappers: no result
\* means a pending exception, a result means none.
NullMeansException ==
    \A t \in Threads : Returned(t) => ((th[t].result = Null) <=> (th[t].err # Null))

\* py_requests_to_cpp and responses_to_py give back every reference: after a
\* failure, wherever it happened, nothing of the call is alive; after a
\* success the list has one owner, each dict only the list, each value only
\* its dict.  (The one exception is the item that is held when a string
\* cannot be allocated.)
ReferencesBalance ==
    \A t \in Threads : Returned(t) /\ th[t].err # "std::bad_alloc" =>
        LET rc == th[t].rc
            alive == {o \in DOMAIN rc : rc[o] # 0}
        IN IF th[t].result = Null THEN alive = {}
           ELSE /\ alive = {TheList} \cup {p[2] : p \in th[t].inside}
                /\ \A o \in alive : rc[o] = 1

\* ssl_init is a plain static: OpenSSL is set up by one thread at a time and
\* nobody gets past the check before it is done.
SslSetUpOnce ==
    /\ \A t, u \in Threads : th[t].pc = "ssl_init" /\ th[u].pc = "ssl_init" => t = u
    /\ \A t \in Threads : th[t].pc = "ssl_init" => ~ssl
    /\ \A t \in Threads : th[t].pc \in {"net"} \cup Forever => ssl

\* The three of them and the types: whatever fails in a call, it leaves nothing
\* behind and nothing undone.
CallsAreClean == TypeOK /\ NullMeansException /\ ReferencesBalance /\ SslSetUpOnce

\* What Python gets answers what Python asked: response k is about item k of
\* the list as it was when the call was made, read up to the first NUL, and
\* no item was skipped or taken for valid.  (A lazy object may show another
\* face at every question.)
RequestsKept ==
    \A t \in Threads : Returned(t) /\ th[t].result # Null /\ th[t].kind = "list" =>
        /\ \A k \in DOMAIN th[t].given : Readable(th[t].given[k]) /\ Valid(Request(th[t].given[k]))
        /\ \A k \in DOMAIN th[t].result \cap DOMAIN th[t].given :
              th[t].result[k].answers = Request(th[t].given[k])

\* Every call returns, whatever fails, unless https_request does not: when a
\* server is silent, never stops sending or gives a chunk size that wraps, the
\* thread in https_request keeps the GIL, and nobody returns.
PyCallReturns ==
    \A t \in Threads :
        InCall(t) ~> (~InCall(t) \/ \E u \in Threads : th[u].pc \in Forever)

(***************************************************************************)
(* What makes them inductive, said of the locals l of a thread.            *)
(***************************************************************************)
Reading == {"item", "python code", "getitem", "read"}
Working == {"ssl_check", "ssl_init", "net", "solve"} \cup Forever
Building == {"list", "dict", "values", "fill"}

Objects == ({"item", "list", "dict"} \cup Fields) \X Nat

\* The locals whose reference counts are about the objects of D.
Locals(D) ==
    [pc : {"python", "parse"} \cup Reading \cup Working \cup Building,
     watch : BOOLEAN, kind : Kinds, given : Seq(Items), n : Nat, i : Nat \ {0}, item : Items,
     requests : Seq({Request(item) : item \in Readables}), responses : Seq(Replies),
     rc : [D -> {0, 1}], inside : SUBSET (Objects \X Objects),
     err : Errors \cup {Null}, result : Seq(Replies) \cup {Null}]

\* The list and the first k dicts with their values, and who holds whom.
Built(k) ==
    {TheList} \cup {<<"dict", j>> : j \in 1..k} \cup {<<f, j>> : f \in Fields, j \in 1..k}
Holds(k) ==
    {<<TheList, <<"dict", j>> >> : j \in 1..k}
    \cup {<< <<"dict", j>>, <<f, j>> >> : f \in Fields, j \in 1..k}

\* The objects of S, and no others, have one owner each.
Counts(rc, S) ==
    /\ S \subseteq DOMAIN rc /\ rc \in [DOMAIN rc -> {0, 1}]
    /\ \A o \in DOMAIN rc : rc[o] = IF o \in S THEN 1 ELSE 0

Alive(l) ==
    CASE l.pc = "read" -> {TheItem}
      [] l.pc = "dict" -> Built(l.i - 1)
      [] l.pc = "values" -> Built(l.i - 1) \cup {<<"dict", l.i>>}
      [] l.pc = "fill" -> Built(l.i)
      [] l.pc = "python" /\ l.err = "std::bad_alloc" -> {TheItem}
      [] l.pc = "python" /\ l.result # Null -> Built(Len(l.responses))
      [] OTHER -> {}

\* The objects of the call are counted right wherever it can fail.
RefInv(l) ==
    /\ Counts(l.rc, Alive(l))
    /\ l.pc \in {"parse", "list"} \cup Reading \cup Working => l.inside = {}
    /\ l.pc \in {"dict", "values", "fill"} =>
          l.inside = Holds(l.i - 1) /\ l.i <= Len(l.responses) + 1
    /\ l.pc \in {"values", "fill"} => l.i <= Len(l.responses)
    /\ l.pc = "python" /\ l.result # Null => l.inside = Holds(Len(l.responses))

\* There is no outcome before the end, then there is one.
OutcomeInv(l) ==
    /\ l.pc # "python" => l.result = Null /\ l.err = Null
    /\ l.result # Null => l.result = l.responses /\ l.err = Null
    /\ l.pc = "python" /\ l # Idle => (l.result = Null <=> l.err # Null)

\* The requests are the items read so far; a call that got past them has all
\* of them, and its responses are in their places.
Asked(l) == l.pc \in Working \cup Building \/ l.result # Null
ReadInv(l) ==
    /\ l.pc = "parse" => l.i = 1 /\ l.requests = <<>>
    /\ l.pc \in {"python code", "getitem"} => l.kind = "lazy"
    /\ l.kind = "list" /\ (l.pc \in Reading \/ Asked(l)) =>
          /\ l.n = Len(l.given) /\ Len(l.requests) <= l.n
          /\ \A k \in 1..Len(l.requests) :
                Readable(l.given[k]) /\ l.requests[k] = Request(l.given[k])
          /\ l.pc \in Reading => l.i = Len(l.requests) + 1
          /\ l.pc = "read" => l.i <= l.n /\ l.item = l.given[l.i]
          /\ Asked(l) => Len(l.requests) = l.n
    /\ Asked(l) => \A k \in 1..Len(l.requests) : Valid(l.requests[k])
    /\ l.pc \in Building \/ l.result # Null =>
          \A k \in 1..Len(l.responses) :
              k <= Len(l.requests) => l.responses[k].answers = l.requests[k]

CallInv(l) == l \in Locals(DOMAIN l.rc) /\ RefInv(l) /\ OutcomeInv(l) /\ ReadInv(l)

\* The threads: who is in C++ code holds the GIL, and with it the list it was
\* given stays as it is.
GilInv(t) ==
    /\ (gil = t) <=> (th[t].pc \notin {"python", "python code"})
    /\ th[t].kind = "list" /\ th[t].pc # "python" => th[t].given = content
    /\ th[t].pc = "ssl_init" => ~ssl
    /\ th[t].pc \in {"net"} \cup Forever => ssl

PyInv ==
    /\ gil \in Threads \cup {Null} /\ ssl \in BOOLEAN /\ content \in Contents
    /\ calls \in 0..MaxCalls /\ edits \in 0..MaxEdits
    /\ DOMAIN th = Threads
    /\ \A t \in Threads : CallInv(th[t]) /\ GilInv(t)
=============================================================================
