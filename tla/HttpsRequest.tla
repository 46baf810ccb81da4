---------------------------- MODULE HttpsRequest ----------------------------
(***************************************************************************)
(* https_request and tcp_connect of http_utils.cpp: one blocking HTTPS     *)
(* exchange per stack frame, and one more frame for every redirect that is *)
(* followed.  A frame owns a socket, an SSL and an SSL_CTX; it gives them  *)
(* up either after the reply has been read or in its catch block, and an   *)
(* exception out of a nested frame runs the catch block of every frame     *)
(* below it.                                                               *)
(*                                                                         *)
(* Descriptor numbers are reused at once by the kernel and heap addresses  *)
(* by the allocator, and other threads of the process open and close       *)
(* descriptors of their own meanwhile.  The server and the network are     *)
(* free: any call may fail, a read may end early, a reply may redirect     *)
(* anywhere, for ever, and it may never end.  A reply is its head and      *)
(* BodyLen parts of body, or of an endless body the first BodyLen parts:   *)
(* what follows them changes nothing but the memory in use.                *)
(***************************************************************************)
EXTENDS Integers, Sequences, FiniteSets

CONSTANTS
    Hosts, Paths,   \* what URLs are made of; "/" is a path
    MaxRedirects,   \* the literal 8 of the code
    MaxAddrs,       \* bound: addresses getaddrinfo returns
    RequestLen,     \* bound: pieces SSL_write may split the request into
    BodyLen,        \* bound: pieces SSL_read returns the body in
    Fds,            \* descriptor numbers
    Addresses,      \* heap addresses of SSL and SSL_CTX objects
    MaxRequests,    \* bound: requests the caller makes
    Null            \* nullptr, fd -1, no exception, no outcome

Locations ==
    [kind : {"absolute"}, host : Hosts, path : Paths \cup {""}]
    \cup [kind : {"relative"}, host : {""}, path : Paths]
    \cup [kind : {"missing", "unusable"}, host : {""}, path : {""}]

\* What the body is: sent as it is, in chunks, in chunks of which one has a
\* size that takes decode_chunked back to where it was (see ChunkedDecoder),
\* or without end.
Bodies == {"plain", "chunked", "wrapped", "endless"}

Replies ==
    [status : {"success", "failure"}, location : {l \in Locations : l.kind = "missing"},
     body : Bodies]
    \cup [status : {"redirect"}, location : Locations, body : Bodies]

Errors == {"Too many redirects", "SSL_CTX_new failed", "getaddrinfo",
           "connect failed", "SSL_new failed", "SSL_connect failed",
           "SSL_write failed", "bad HTTP response", "std::bad_alloc"}

Frames ==
    [host : Hosts, path : Paths, redirectDepth : Nat,
     pc : {"enter", "resolve", "connect", "connecting", "ssl", "handshake", "write",
           "read", "parse", "decoding", "redirected"},
     ctx : Addresses \cup {Null}, ssl : Addresses \cup {Null}, fd : Fds \cup {Null},
     left : Nat, got : Nat, reply : Replies \cup {Null}]

ASSUME HttpsAssumption ==
    /\ "/" \in Paths /\ "" \notin Paths \cup Hosts
    /\ {MaxRedirects, MaxAddrs, BodyLen, MaxRequests} \subseteq Nat
    /\ RequestLen \in Nat \ {0}
    /\ Fds \subseteq Nat
    /\ Null \notin Fds \cup Addresses \cup Replies \cup Errors

VARIABLES
    stack,     \* the frames of the running request, innermost last
    exc,       \* the exception that is being thrown through them
    outcome,   \* what the last finished request gave its caller
    openFds,   \* descriptors that are open in the process
    otherFds,  \* those of them that other threads have opened
    heap,      \* live SSL and SSL_CTX objects
    requests,  \* how many requests were made
    connects   \* history: TCP connections of the running request

vars == <<stack, exc, outcome, openFds, otherFds, heap, requests, connects>>

Init ==
    /\ stack = <<>> /\ exc = Null /\ outcome = Null
    /\ openFds = {} /\ otherFds = {} /\ heap = {}
    /\ requests = 0 /\ connects = 0

Top == stack[Len(stack)]
SetTop(frame) == stack' = [stack EXCEPT ![Len(stack)] = frame]
Running(pc) == stack # <<>> /\ exc = Null /\ Top.pc = pc

NewFrame(host, path, depth) ==
    [host |-> host, path |-> path, redirectDepth |-> depth, pc |-> "enter",
     ctx |-> Null, ssl |-> Null, fd |-> Null, left |-> 0, got |-> 0, reply |-> Null]

\* The descriptor the kernel hands out next.
LowestFree(fd) == fd \in Fds \ openFds /\ \A f \in Fds \ openFds : fd <= f

Throw(msg) ==
    /\ exc' = msg
    /\ UNCHANGED <<stack, outcome, openFds, otherFds, heap, requests, connects>>

(***************************************************************************)
(* The caller, and the other threads of the process.                       *)
(***************************************************************************)
Request(host, path) ==
    /\ stack = <<>>
    /\ requests < MaxRequests
    /\ stack' = <<NewFrame(host, path, 0)>>
    /\ requests' = requests + 1
    /\ connects' = 0
    /\ outcome' = Null
    /\ UNCHANGED <<exc, openFds, otherFds, heap>>

OtherOpens ==
    /\ \E fd \in Fds : /\ LowestFree(fd)
                       /\ openFds' = openFds \cup {fd}
                       /\ otherFds' = otherFds \cup {fd}
    /\ UNCHANGED <<stack, exc, outcome, heap, requests, connects>>

OtherCloses ==
    /\ \E fd \in otherFds : /\ openFds' = openFds \ {fd}
                            /\ otherFds' = otherFds \ {fd}
    /\ UNCHANGED <<stack, exc, outcome, heap, requests, connects>>

(***************************************************************************)
(* https_request, from the depth check to the handshake.                   *)
(***************************************************************************)
\* Mutant: one redirect more.
TooDeepLate(depth) == depth > MaxRedirects + 1

TooDeep(depth) == depth > MaxRedirects

Enter ==
    /\ Running("enter")
    /\ \/ /\ TooDeep(Top.redirectDepth)
          /\ Throw("Too many redirects")
       \/ /\ ~TooDeep(Top.redirectDepth)
          /\ Throw("SSL_CTX_new failed")
       \/ /\ ~TooDeep(Top.redirectDepth)
          /\ \E p \in Addresses \ heap :
                /\ heap' = heap \cup {p}
                /\ SetTop([Top EXCEPT !.ctx = p, !.pc = "resolve"])
          /\ UNCHANGED <<exc, outcome, openFds, otherFds, requests, connects>>

\* tcp_connect: getaddrinfo.
Resolve ==
    /\ Running("resolve")
    /\ \/ Throw("getaddrinfo")
       \/ /\ \E n \in 1..MaxAddrs : SetTop([Top EXCEPT !.pc = "connect", !.left = n])
          /\ UNCHANGED <<exc, outcome, openFds, otherFds, heap, requests, connects>>

\* Mutant: p = p->ai_next is forgotten.
StayOnAddress(frame) == frame

NextAddress(frame) == [frame EXCEPT !.left = @ - 1]

\* tcp_connect: socket, for one address after the other.  (The descriptor is
\* still a local of tcp_connect, where nothing throws while it is open.)
Socket ==
    /\ Running("connect")
    /\ \/ /\ Top.left = 0
          /\ Throw("connect failed")
       \/ /\ Top.left > 0
          /\ SetTop(NextAddress(Top))
          /\ UNCHANGED <<exc, outcome, openFds, otherFds, heap, requests, connects>>
       \/ /\ Top.left > 0
          /\ \E fd \in Fds :
                /\ LowestFree(fd)
                /\ openFds' = openFds \cup {fd}
                /\ SetTop([Top EXCEPT !.fd = fd, !.pc = "connecting"])
          /\ UNCHANGED <<exc, outcome, otherFds, heap, requests, connects>>

\* Mutant: the socket of an address that does not answer stays open.
LeaveOpen(fd) == openFds' = openFds

Close(fd) == openFds' = openFds \ {fd}

\* tcp_connect: connect, and if that fails close and the next address.
Connect ==
    /\ Running("connecting")
    /\ \/ /\ SetTop([Top EXCEPT !.pc = "ssl", !.left = 0])
          /\ connects' = connects + 1
          /\ UNCHANGED openFds
       \/ /\ Close(Top.fd)
          /\ SetTop([NextAddress(Top) EXCEPT !.fd = Null, !.pc = "connect"])
          /\ UNCHANGED connects
    /\ UNCHANGED <<exc, outcome, otherFds, heap, requests>>

NewSsl ==
    /\ Running("ssl")
    /\ \/ Throw("SSL_new failed")
       \/ /\ \E p \in Addresses \ heap :
                /\ heap' = heap \cup {p}
                /\ SetTop([Top EXCEPT !.ssl = p, !.pc = "handshake"])
          /\ UNCHANGED <<exc, outcome, openFds, otherFds, requests, connects>>

Handshake ==
    /\ Running("handshake")
    /\ \/ Throw("SSL_connect failed")
       \/ /\ SetTop([Top EXCEPT !.pc = "write", !.left = RequestLen])
          /\ UNCHANGED <<exc, outcome, openFds, otherFds, heap, requests, connects>>

(***************************************************************************)
(* The exchange.  When the whole request is out the server makes its reply *)
(* (external), of which the client may see only the first pieces.          *)
(***************************************************************************)
Write ==
    /\ Running("write")
    /\ \/ Throw("SSL_write failed")
       \/ /\ \E n \in 1..Top.left :
                \/ /\ n < Top.left
                   /\ SetTop([Top EXCEPT !.left = @ - n])
                \/ /\ n = Top.left
                   /\ \E r \in Replies :
                         SetTop([Top EXCEPT !.left = 0, !.pc = "read", !.reply = r])
          /\ UNCHANGED <<exc, outcome, openFds, otherFds, heap, requests, connects>>

ReadMore ==
    /\ Running("read")
    /\ Top.got < 1 + BodyLen
    /\ SetTop([Top EXCEPT !.got = @ + 1])
    /\ UNCHANGED <<exc, outcome, openFds, otherFds, heap, requests, connects>>

\* Mutants: SSL_CTX_free or close is missing.
ReleaseNoCtx(frame) ==
    /\ openFds' = openFds \ {frame.fd}
    /\ heap' = heap \ {frame.ssl}
ReleaseNoClose(frame) ==
    /\ openFds' = openFds
    /\ heap' = heap \ {frame.ssl, frame.ctx}

\* What a frame gives back to the system: SSL_free, close, SSL_CTX_free.
Release(frame) ==
    /\ openFds' = openFds \ {frame.fd}
    /\ heap' = heap \ {frame.ssl, frame.ctx}

\* Mutant: the pointers and the descriptor are kept after the release.
KeepPointers(frame) == frame

\* ssl = nullptr, fd = -1, ctx = nullptr.
ForgetPointers(frame) == [frame EXCEPT !.fd = Null, !.ssl = Null, !.ctx = Null]

\* SSL_read returned 0 or less, for the end of the stream or for an error:
\* the connection is given up and the handles are forgotten.
ReadEnd ==
    /\ Running("read")
    /\ Release(Top)
    /\ SetTop([ForgetPointers(Top) EXCEPT !.pc = "parse"])
    /\ UNCHANGED <<exc, outcome, otherFds, requests, connects>>

\* Where a redirect leads from host, if the code can follow it.
Followed(location) == location.kind \in {"absolute", "relative"}
Target(host, location) ==
    [host |-> IF location.kind = "absolute" THEN location.host ELSE host,
     path |-> IF location.path = "" THEN "/" ELSE location.path]

\* decode_chunked comes to the size that it never gets past, and how many
\* parts it leaves of a body: of chunks only those that are whole.
Circles(frame) == frame.reply.body = "wrapped" /\ frame.got > 1
Decoded(frame) ==
    IF frame.reply.body \in {"plain", "endless"} THEN {frame.got - 1} ELSE 0..(frame.got - 1)

\* The head of the reply decides: no head, a body that is never decoded, a
\* redirect to follow in a nested frame (what this frame has read is dead from
\* then on), or a reply for the caller, which the frames below only pass on.
Parse ==
    LET r == Top.reply
        target == Target(Top.host, r.location)
    IN
    /\ Running("parse")
    /\ \/ /\ Top.got = 0
          /\ Throw("bad HTTP response")
       \/ /\ Top.got > 0
          /\ Circles(Top)
          /\ SetTop([Top EXCEPT !.pc = "decoding"])
          /\ UNCHANGED <<exc, outcome, openFds, otherFds, heap, requests, connects>>
       \/ /\ Top.got > 0
          /\ ~Circles(Top)
          /\ r.status = "redirect" /\ Followed(r.location)
          /\ stack' = Append([stack EXCEPT ![Len(stack)] =
                                [@ EXCEPT !.pc = "redirected", !.got = 0, !.reply = Null]],
                             NewFrame(target.host, target.path, Top.redirectDepth + 1))
          /\ UNCHANGED <<exc, outcome, openFds, otherFds, heap, requests, connects>>
       \/ /\ Top.got > 0
          /\ ~Circles(Top)
          /\ ~(r.status = "redirect" /\ Followed(r.location))
          /\ stack' = <<>>
          /\ \E n \in Decoded(Top) : outcome' = [reply |-> r, body |-> n]
          /\ UNCHANGED <<exc, openFds, otherFds, heap, requests, connects>>

\* resp, or what decode_chunked has made of it, is too large for the memory.
OutOfMemory ==
    /\ Running("read") \/ Running("decoding")
    /\ Throw("std::bad_alloc")

\* catch (...): the innermost frame gives up what it holds and rethrows.  A
\* frame that threw before its try block holds nothing yet.
CatchAndRethrow ==
    /\ stack # <<>> /\ exc # Null
    /\ Release(Top)
    /\ stack' = SubSeq(stack, 1, Len(stack) - 1)
    /\ IF Len(stack) = 1
       THEN outcome' = [thrown |-> exc] /\ exc' = Null
       ELSE UNCHANGED <<exc, outcome>>
    /\ UNCHANGED <<otherFds, requests, connects>>

Step ==
    \/ Enter \/ Resolve \/ Socket \/ Connect \/ NewSsl \/ Handshake \/ Write
    \/ ReadMore \/ ReadEnd \/ Parse \/ OutOfMemory \/ CatchAndRethrow

Next ==
    \/ \E host \in Hosts, path \in Paths : Request(host, path)
    \/ OtherOpens \/ OtherCloses
    \/ Step

Spec == Init /\ [][Next]_vars

\* The request cannot be relied on to get any further: SSL_read has data each
\* time it is called, or decode_chunked goes round in a circle.
Endless ==
    \/ Running("read") /\ Top.reply.body = "endless"
    \/ Running("decoding")

\* The calls into the kernel and OpenSSL return: the code has no timeout of
\* its own, so this is what it relies on.  An endless stream need not break
\* and the memory need not give out.
FairSpec == Spec /\ WF_vars(Step /\ ~Endless)
-----------------------------------------------------------------------------
(***************************************************************************)
(* Properties.                                                             *)
(***************************************************************************)

\* Every variable and every local of https_request has its C++ type.
TypeOK ==
    /\ stack \in Seq(Frames)
    /\ exc \in Errors \cup {Null}
    /\ outcome \in [reply : Replies, body : Nat] \cup [thrown : Errors] \cup {Null}
    /\ otherFds \in SUBSET openFds /\ openFds \in SUBSET Fds
    /\ heap \in SUBSET Addresses
    /\ requests \in 0..MaxRequests /\ connects \in Nat

HandlesOf(i) == {stack[i].ssl, stack[i].ctx} \ {Null}

\* The SSL and SSL_CTX objects that exist are those some frame still points
\* to, and no two frames point to the same one: nothing leaks on any of the
\* error paths, and no catch block frees what was already freed.  The
\* descriptors that are open are the sockets of the frames and those of the
\* other threads: no socket leaks, and close never hits a number that the
\* kernel has meanwhile given to somebody else.
HandlesOwned ==
    /\ heap = UNION {HandlesOf(i) : i \in 1..Len(stack)}
    /\ \A i, j \in 1..Len(stack) : i # j => HandlesOf(i) \cap HandlesOf(j) = {}
    /\ openFds = otherFds \cup ({stack[i].fd : i \in 1..Len(stack)} \ {Null})

\* A request is sent to at most one server more than redirects are allowed,
\* whatever the servers answer; and one connection is open at a time: a frame
\* has given everything up before it follows a redirect.
ConnectionBound ==
    /\ connects <= MaxRedirects + 1
    /\ \A i \in 1..(Len(stack) - 1) : stack[i].fd = Null /\ HandlesOf(i) = {}

\* Every request ends in a reply or in an exception, even if the servers
\* redirect it for ever, with two exceptions: a server that never stops
\* sending keeps the SSL_read loop running, and a chunk size that wraps keeps
\* decode_chunked running.  A server that is silent is left to the fairness:
\* SSL_read does not return then (PyCallReturns of PyBoundary names it).
EveryRequestEnds == stack # <<>> ~> (stack = <<>> \/ Endless)

-----------------------------------------------------------------------------
(***************************************************************************)
(* What makes them inductive.                                              *)
(***************************************************************************)

\* A socket is connected to one of the addresses that are left, a reply is
\* there once it has been read, and an exception has a frame to run through.
ReplyInv ==
    /\ \A i \in 1..Len(stack) :
          /\ stack[i].pc = "connecting" => stack[i].left > 0
          /\ stack[i].pc \in {"read", "parse", "decoding"} => stack[i].reply \in Replies
    /\ exc # Null => stack # <<>>

\* Only the innermost frame holds anything, and what it holds depends on how
\* far it has come; its socket is not one of the other threads' descriptors.
OwnInv ==
    /\ \A i \in 1..Len(stack) : i < Len(stack) \/ stack[i].pc \in {"enter", "parse", "decoding", "redirected"} =>
          stack[i].fd = Null /\ stack[i].ssl = Null /\ stack[i].ctx = Null
    /\ stack # <<>> =>
          /\ Top.pc \in {"resolve", "connect", "connecting", "ssl"} => Top.ssl = Null
          /\ Top.pc \in {"resolve", "connect"} => Top.fd = Null
          /\ Top.fd \notin otherFds
    /\ heap = IF stack = <<>> THEN {} ELSE {Top.ssl, Top.ctx} \ {Null}
    /\ openFds = otherFds \cup (IF stack = <<>> THEN {} ELSE {Top.fd} \ {Null})

\* The frames are numbered by their depth, a frame behind the last one that
\* is allowed does not get past the check, and a frame connects once.
DepthInv ==
    /\ \A i \in 1..Len(stack) :
          /\ stack[i].redirectDepth = i - 1
          /\ stack[i].pc # "enter" => i <= MaxRedirects + 1
    /\ connects <= MaxRedirects + 1
    /\ stack # <<>> /\ exc = Null =>
          connects <= IF Top.pc \in {"enter", "resolve", "connect", "connecting"}
                      THEN Len(stack) - 1 ELSE Len(stack)
=============================================================================
