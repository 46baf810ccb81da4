------------------------ MODULE HttpsRequestProofs ------------------------
(***************************************************************************)
(* Proofs about HttpsRequest for any hosts, paths, descriptors and number  *)
(* of redirects, addresses and pieces.                                     *)
(***************************************************************************)
EXTENDS HttpsRequest, SequenceTheorems, TLAPS

(***************************************************************************)
(* The stack of frames.                                                    *)
(***************************************************************************)

\* A stack that is not empty has an innermost frame.
LEMMA TopType ==
    ASSUME stack \in Seq(Frames), stack # <<>>
    PROVE  /\ Len(stack) \in Nat \ {0}
           /\ Len(stack) \in 1..Len(stack)
           /\ Top \in Frames
           /\ Top = stack[Len(stack)]
           /\ \A i \in 1..Len(stack) : stack[i] \in Frames
BY EmptySeq, ElementOfSeq, LenProperties DEF Top

\* Setting the innermost frame leaves the others alone.
LEMMA SetTopEffect ==
    ASSUME stack \in Seq(Frames), stack # <<>>, NEW frame \in Frames, SetTop(frame)
    PROVE  /\ stack' \in Seq(Frames) /\ stack' # <<>>
           /\ Len(stack') = Len(stack)
           /\ Top' = frame
           /\ stack'[Len(stack)] = frame
           /\ \A i \in 1..Len(stack) : i # Len(stack) => stack'[i] = stack[i]
<1>1. stack' = [stack EXCEPT ![Len(stack)] = frame] /\ Len(stack) \in 1..Len(stack)
  BY TopType DEF SetTop
<1>2. stack' \in Seq(Frames) /\ Len(stack') = Len(stack)
  BY <1>1, ExceptSeq
<1>3. stack'[Len(stack)] = frame /\ \A i \in 1..Len(stack) : i # Len(stack) => stack'[i] = stack[i]
  BY <1>1, <1>2, LenProperties
<1>4. stack' # <<>>
  BY <1>2, TopType, EmptySeq
<1> QED BY <1>2, <1>3, <1>4 DEF Top

\* A new frame is a frame.
LEMMA NewFrameType ==
    ASSUME NEW host \in Hosts, NEW path \in Paths, NEW depth \in Nat
    PROVE  NewFrame(host, path, depth) \in Frames
BY DEF NewFrame, Frames

\* A redirect that is followed leads to a host and a path.
LEMMA TargetType ==
    ASSUME NEW host \in Hosts, NEW location \in Locations, Followed(location)
    PROVE  Target(host, location).host \in Hosts /\ Target(host, location).path \in Paths
BY HttpsAssumption DEF Target, Locations, Followed

\* Removing the innermost frame leaves the others.
LEMMA PopEffect ==
    ASSUME stack \in Seq(Frames), stack # <<>>,
           stack' = SubSeq(stack, 1, Len(stack) - 1)
    PROVE  /\ stack' \in Seq(Frames)
           /\ Len(stack') = Len(stack) - 1
           /\ \A i \in 1..Len(stack') : stack'[i] = stack[i]
           /\ stack' = <<>> <=> Len(stack) = 1
           /\ stack' # <<>> => Top' = stack[Len(stack) - 1]
<1>1. Len(stack) \in Nat \ {0} /\ \A i \in 1..Len(stack) : stack[i] \in Frames
  BY TopType
<1>2. PICK n \in Nat : n = Len(stack) - 1
  BY <1>1
<1>3. \A i \in 1..n : stack[i] \in Frames
  BY <1>1, <1>2
<1>4. SubSeq(stack, 1, n) \in Seq(Frames) /\ Len(SubSeq(stack, 1, n)) = n
  BY <1>3, SubSeqProperties
<1>5. \A i \in 1..n : SubSeq(stack, 1, n)[i] = stack[i]
  BY <1>3, SubSeqProperties
<1>6. stack' = <<>> <=> n = 0
  BY <1>2, <1>4, EmptySeq
<1> QED BY <1>1, <1>2, <1>4, <1>5, <1>6 DEF Top

\* Following a redirect puts a frame on top of one that is marked.
LEMMA PushEffect ==
    ASSUME stack \in Seq(Frames), stack # <<>>, NEW low \in Frames, NEW new \in Frames,
           stack' = Append([stack EXCEPT ![Len(stack)] = low], new)
    PROVE  /\ stack' \in Seq(Frames) /\ stack' # <<>>
           /\ Len(stack') = Len(stack) + 1
           /\ Top' = new
           /\ stack'[Len(stack) + 1] = new
           /\ stack'[Len(stack)] = low
           /\ \A i \in 1..Len(stack) : i # Len(stack) => stack'[i] = stack[i]
<1> DEFINE marked == [stack EXCEPT ![Len(stack)] = low]
<1>1. Len(stack) \in Nat \ {0} /\ Len(stack) \in 1..Len(stack)
  BY TopType
<1>2. /\ marked \in Seq(Frames) /\ Len(marked) = Len(stack)
      /\ \A i \in 1..Len(stack) : marked[i] = IF i = Len(stack) THEN low ELSE stack[i]
  BY <1>1, ExceptSeq
<1>3. /\ stack' \in Seq(Frames) /\ Len(stack') = Len(stack) + 1
      /\ stack'[Len(stack) + 1] = new
      /\ \A i \in 1..Len(stack) : stack'[i] = marked[i]
  <2>1. stack' = Append(marked, new)
    OBVIOUS
  <2> HIDE DEF marked
  <2> QED BY <1>1, <1>2, <2>1, AppendProperties
<1>4. stack' # <<>>
  BY <1>1, <1>3, EmptySeq
<1> QED BY <1>1, <1>2, <1>3, <1>4 DEF Top

(***************************************************************************)
(* Types.  A step that sets the innermost frame only needs a frame.        *)
(***************************************************************************)

\* What the steps of a frame that runs make of it.
LEMMA FrameTypes ==
    ASSUME TypeOK, stack # <<>>
    PROVE  /\ \A p \in Addresses : [Top EXCEPT !.ctx = p, !.pc = "resolve"] \in Frames
           /\ \A n \in Nat : [Top EXCEPT !.pc = "connect", !.left = n] \in Frames
           /\ Top.left > 0 => NextAddress(Top) \in Frames
           /\ \A fd \in Fds : [Top EXCEPT !.fd = fd, !.pc = "connecting"] \in Frames
           /\ [Top EXCEPT !.pc = "ssl", !.left = 0] \in Frames
           /\ Top.left > 0 => [NextAddress(Top) EXCEPT !.fd = Null, !.pc = "connect"] \in Frames
           /\ \A p \in Addresses : [Top EXCEPT !.ssl = p, !.pc = "handshake"] \in Frames
           /\ [Top EXCEPT !.pc = "write", !.left = RequestLen] \in Frames
           /\ \A n \in 1..Top.left : [Top EXCEPT !.left = @ - n] \in Frames
           /\ \A r \in Replies : [Top EXCEPT !.left = 0, !.pc = "read", !.reply = r] \in Frames
           /\ [Top EXCEPT !.got = @ + 1] \in Frames
           /\ [ForgetPointers(Top) EXCEPT !.pc = "parse"] \in Frames
           /\ [Top EXCEPT !.pc = "decoding"] \in Frames
           /\ [Top EXCEPT !.pc = "redirected", !.got = 0, !.reply = Null] \in Frames
<1>1. Top \in Frames
  BY TopType DEF TypeOK
<1>2. RequestLen \in Nat
  BY HttpsAssumption
<1>3. \A p \in Addresses : [Top EXCEPT !.ctx = p, !.pc = "resolve"] \in Frames
  BY <1>1 DEF Frames
<1>4. \A n \in Nat : [Top EXCEPT !.pc = "connect", !.left = n] \in Frames
  BY <1>1 DEF Frames
<1>5. Top.left > 0 => NextAddress(Top) \in Frames
  BY <1>1 DEF Frames, NextAddress
<1>6. \A fd \in Fds : [Top EXCEPT !.fd = fd, !.pc = "connecting"] \in Frames
  BY <1>1 DEF Frames
<1>14. [Top EXCEPT !.pc = "ssl", !.left = 0] \in Frames
  BY <1>1 DEF Frames
<1>15. Top.left > 0 => [NextAddress(Top) EXCEPT !.fd = Null, !.pc = "connect"] \in Frames
  BY <1>5 DEF Frames
<1>16. [Top EXCEPT !.pc = "decoding"] \in Frames
  BY <1>1 DEF Frames
<1>7. \A p \in Addresses : [Top EXCEPT !.ssl = p, !.pc = "handshake"] \in Frames
  BY <1>1 DEF Frames
<1>8. [Top EXCEPT !.pc = "write", !.left = RequestLen] \in Frames
  BY <1>1, <1>2 DEF Frames
<1>9. \A n \in 1..Top.left : [Top EXCEPT !.left = @ - n] \in Frames
  BY <1>1 DEF Frames
<1>10. \A r \in Replies : [Top EXCEPT !.left = 0, !.pc = "read", !.reply = r] \in Frames
  BY <1>1 DEF Frames
<1>11. [Top EXCEPT !.got = @ + 1] \in Frames
  BY <1>1 DEF Frames
<1>12. [ForgetPointers(Top) EXCEPT !.pc = "parse"] \in Frames
  BY <1>1 DEF Frames, ForgetPointers
<1>13. [Top EXCEPT !.pc = "redirected", !.got = 0, !.reply = Null] \in Frames
  BY <1>1 DEF Frames
<1> QED BY <1>3, <1>4, <1>5, <1>6, <1>7, <1>8, <1>9, <1>10, <1>11, <1>12, <1>13,
           <1>14, <1>15, <1>16

(***************************************************************************)
(* What the steps of a frame do to it, by what they do to its handles.     *)
(***************************************************************************)
Throws == \E msg \in Errors : Throw(msg)

\* The innermost frame goes on as f.
Moves(f) ==
    /\ exc = Null /\ SetTop(f)
    /\ f.redirectDepth = Top.redirectDepth
    /\ f.pc = "connecting" => f.left > 0
    /\ f.pc \in {"read", "parse", "decoding"} => f.reply \in Replies
    /\ UNCHANGED <<exc, outcome, otherFds, requests>>

\* It keeps its handles;
SameHandles(f) ==
    /\ <<Top.pc, f.pc>> \in {<<"resolve", "connect">>, <<"connect", "connect">>,
                            <<"handshake", "write">>, <<"write", "write">>,
                            <<"write", "read">>, <<"read", "read">>, <<"parse", "decoding">>}
    /\ f.ctx = Top.ctx /\ f.ssl = Top.ssl /\ f.fd = Top.fd
    /\ UNCHANGED <<openFds, heap, connects>>

\* SSL_CTX_new;
GetsCtx(f) ==
    /\ Top.pc = "enter" /\ f.pc = "resolve"
    /\ ~TooDeep(Top.redirectDepth)
    /\ f.ctx \in Addresses \ heap /\ f.ssl = Top.ssl /\ f.fd = Top.fd
    /\ heap' = heap \cup {f.ctx}
    /\ UNCHANGED <<openFds, connects>>

\* socket;
GetsFd(f) ==
    /\ Top.pc = "connect" /\ f.pc = "connecting"
    /\ f.ctx = Top.ctx /\ f.ssl = Top.ssl /\ f.fd \in Fds \ openFds
    /\ openFds' = openFds \cup {f.fd}
    /\ UNCHANGED <<heap, connects>>

\* connect;
Connected(f) ==
    /\ Top.pc = "connecting" /\ f.pc = "ssl"
    /\ f.ctx = Top.ctx /\ f.ssl = Top.ssl /\ f.fd = Top.fd
    /\ connects' = connects + 1
    /\ UNCHANGED <<openFds, heap>>

\* close after a connect that failed;
DropsFd(f) ==
    /\ Top.pc = "connecting" /\ f.pc = "connect"
    /\ f.ctx = Top.ctx /\ f.ssl = Top.ssl /\ f.fd = Null
    /\ openFds' = openFds \ {Top.fd}
    /\ UNCHANGED <<heap, connects>>

\* SSL_new;
GetsSsl(f) ==
    /\ Top.pc = "ssl" /\ f.pc = "handshake"
    /\ f.ctx = Top.ctx /\ f.ssl \in Addresses \ heap /\ f.fd = Top.fd
    /\ heap' = heap \cup {f.ssl}
    /\ UNCHANGED <<openFds, connects>>

\* or the reply is read, and all is released before it is parsed.
GivesUp(f) ==
    /\ Top.pc = "read" /\ f.pc = "parse"
    /\ f.ctx = Null /\ f.ssl = Null /\ f.fd = Null
    /\ Release(Top)
    /\ UNCHANGED connects

Goes(f) ==
    /\ Moves(f)
    /\ \/ SameHandles(f) \/ GetsCtx(f) \/ GetsFd(f) \/ Connected(f) \/ DropsFd(f)
       \/ GetsSsl(f) \/ GivesUp(f)

\* Each step of a frame throws or goes on in one of these ways, or it parses
\* the reply or runs the catch block.
LEMMA StepEffect ==
    ASSUME TypeOK, ReplyInv, Step
    PROVE  /\ stack # <<>>
           /\ Throws \/ (\E f \in Frames : Goes(f)) \/ Parse \/ CatchAndRethrow
<1>1. stack # <<>>
  BY DEF Step, Enter, Resolve, Socket, Connect, NewSsl, Handshake, Write, ReadMore, ReadEnd,
         Parse, OutOfMemory, CatchAndRethrow, Running
<1>2. Top \in Frames
  BY <1>1, TopType DEF TypeOK
<1>3. CASE Enter
  <2>1. CASE Throw("Too many redirects") \/ Throw("SSL_CTX_new failed")
    BY <1>1, <2>1 DEF Throws, Errors
  <2>2. CASE ~TooDeep(Top.redirectDepth) /\ ~Throw("SSL_CTX_new failed")
    <3>1. PICK p \in Addresses \ heap :
                 /\ heap' = heap \cup {p}
                 /\ SetTop([Top EXCEPT !.ctx = p, !.pc = "resolve"])
      BY <1>3, <2>1, <2>2 DEF Enter
    <3>2. Top.pc = "enter" /\ exc = Null
          /\ UNCHANGED <<exc, outcome, openFds, otherFds, requests, connects>>
      BY <1>3, <2>2 DEF Enter, Running
    <3> DEFINE f == [Top EXCEPT !.ctx = p, !.pc = "resolve"]
    <3>3. f \in Frames
      BY <1>1, FrameTypes
    <3>4. f.pc = "resolve" /\ f.ctx = p /\ f.ssl = Top.ssl /\ f.fd = Top.fd
          /\ f.redirectDepth = Top.redirectDepth
      BY <1>2 DEF Frames
    <3>5. SetTop(f)
      BY <3>1
    <3> HIDE DEF f
    <3>6. Goes(f)
      BY <2>2, <3>1, <3>2, <3>4, <3>5 DEF Goes, Moves, GetsCtx
    <3> QED BY <1>1, <3>3, <3>6
  <2> QED BY <1>3, <2>1, <2>2 DEF Enter
<1>4. CASE Resolve
  <2>1. CASE Throw("getaddrinfo")
    BY <1>1, <2>1 DEF Throws, Errors
  <2>2. CASE ~Throw("getaddrinfo")
    <3>1. PICK n \in 1..MaxAddrs : SetTop([Top EXCEPT !.pc = "connect", !.left = n])
      BY <1>4, <2>2 DEF Resolve
    <3>2. Top.pc = "resolve" /\ exc = Null
          /\ UNCHANGED <<exc, outcome, openFds, otherFds, heap, requests, connects>>
      BY <1>4, <2>2 DEF Resolve, Running
    <3>3. MaxAddrs \in Nat
      BY HttpsAssumption
    <3>4. n \in Nat
      BY <3>3
    <3> DEFINE f == [Top EXCEPT !.pc = "connect", !.left = n]
    <3>5. f \in Frames
      BY <1>1, <3>4, FrameTypes
    <3>6. f.pc = "connect" /\ f.ctx = Top.ctx /\ f.ssl = Top.ssl /\ f.fd = Top.fd
          /\ f.redirectDepth = Top.redirectDepth
      BY <1>2 DEF Frames
    <3>7. SetTop(f)
      BY <3>1
    <3> HIDE DEF f
    <3>8. Goes(f)
      BY <3>2, <3>6, <3>7 DEF Goes, Moves, SameHandles
    <3> QED BY <1>1, <3>5, <3>8
  <2> QED BY <2>1, <2>2
<1>5. CASE Socket
  <2>1. CASE Throw("connect failed")
    BY <1>1, <2>1 DEF Throws, Errors
  <2>2. CASE /\ Top.left > 0 /\ SetTop(NextAddress(Top))
             /\ UNCHANGED <<exc, outcome, openFds, otherFds, heap, requests, connects>>
    <3>1. Top.pc = "connect" /\ exc = Null
      BY <1>5 DEF Socket, Running
    <3>2. NextAddress(Top) \in Frames
      BY <1>1, <2>2, FrameTypes
    <3> DEFINE f == NextAddress(Top)
    <3>3. f.pc = "connect" /\ f.ctx = Top.ctx /\ f.ssl = Top.ssl /\ f.fd = Top.fd
          /\ f.redirectDepth = Top.redirectDepth
      BY <1>2, <3>1 DEF Frames, NextAddress
    <3> HIDE DEF f
    <3>4. SetTop(f)
      BY <2>2 DEF f
    <3>5. Goes(f)
      BY <2>2, <3>1, <3>3, <3>4 DEF Goes, Moves, SameHandles
    <3> QED BY <1>1, <3>2, <3>5 DEF f
  <2>3. CASE /\ Top.left > 0
             /\ \E fd \in Fds :
                   /\ LowestFree(fd)
                   /\ openFds' = openFds \cup {fd}
                   /\ SetTop([Top EXCEPT !.fd = fd, !.pc = "connecting"])
             /\ UNCHANGED <<exc, outcome, otherFds, heap, requests, connects>>
    <3>1. PICK fd \in Fds :
                 /\ LowestFree(fd)
                 /\ openFds' = openFds \cup {fd}
                 /\ SetTop([Top EXCEPT !.fd = fd, !.pc = "connecting"])
      BY <2>3
    <3>2. Top.pc = "connect" /\ exc = Null
      BY <1>5 DEF Socket, Running
    <3>3. fd \in Fds \ openFds
      BY <3>1 DEF LowestFree
    <3> DEFINE f == [Top EXCEPT !.fd = fd, !.pc = "connecting"]
    <3>4. f \in Frames
      BY <1>1, FrameTypes
    <3>5. f.pc = "connecting" /\ f.ctx = Top.ctx /\ f.ssl = Top.ssl /\ f.fd = fd
          /\ f.redirectDepth = Top.redirectDepth /\ f.left = Top.left
      BY <1>2 DEF Frames
    <3>6. SetTop(f)
      BY <3>1
    <3> HIDE DEF f
    <3>7. Goes(f)
      BY <2>3, <3>1, <3>2, <3>3, <3>5, <3>6 DEF Goes, Moves, GetsFd
    <3> QED BY <1>1, <3>4, <3>7
  <2> QED BY <1>5, <2>1, <2>2, <2>3 DEF Socket
<1>11. CASE Connect
  <2>1. Top.pc = "connecting" /\ exc = Null /\ UNCHANGED <<exc, outcome, otherFds, heap, requests>>
    BY <1>11 DEF Connect, Running
  <2>2. CASE /\ SetTop([Top EXCEPT !.pc = "ssl", !.left = 0])
             /\ connects' = connects + 1
             /\ UNCHANGED openFds
    <3> DEFINE f == [Top EXCEPT !.pc = "ssl", !.left = 0]
    <3>1. f \in Frames
      BY <1>1, FrameTypes
    <3>2. f.pc = "ssl" /\ f.ctx = Top.ctx /\ f.ssl = Top.ssl /\ f.fd = Top.fd
          /\ f.redirectDepth = Top.redirectDepth
      BY <1>2 DEF Frames
    <3>3. SetTop(f)
      BY <2>2
    <3> HIDE DEF f
    <3>4. Goes(f)
      BY <2>1, <2>2, <3>2, <3>3 DEF Goes, Moves, Connected
    <3> QED BY <1>1, <3>1, <3>4
  <2>3. CASE /\ Close(Top.fd)
             /\ SetTop([NextAddress(Top) EXCEPT !.fd = Null, !.pc = "connect"])
             /\ UNCHANGED connects
    <3> DEFINE f == [NextAddress(Top) EXCEPT !.fd = Null, !.pc = "connect"]
    <3>1. f \in Frames
      <4>1. Top.left > 0
        BY <1>1, <2>1, TopType DEF TypeOK, ReplyInv
      <4> QED BY <1>1, <4>1, FrameTypes
    <3>2. f.pc = "connect" /\ f.ctx = Top.ctx /\ f.ssl = Top.ssl /\ f.fd = Null
          /\ f.redirectDepth = Top.redirectDepth
      BY <1>2 DEF Frames, NextAddress
    <3>3. SetTop(f)
      BY <2>3
    <3> HIDE DEF f
    <3>4. Goes(f)
      BY <2>1, <2>3, <3>2, <3>3 DEF Goes, Moves, DropsFd, Close
    <3> QED BY <1>1, <3>1, <3>4
  <2> QED BY <1>11, <2>2, <2>3 DEF Connect
<1>12. CASE OutOfMemory
  BY <1>1, <1>12 DEF OutOfMemory, Throws, Errors
<1>6. CASE NewSsl
  <2>1. CASE Throw("SSL_new failed")
    BY <1>1, <2>1 DEF Throws, Errors
  <2>2. CASE ~Throw("SSL_new failed")
    <3>1. PICK p \in Addresses \ heap :
                 /\ heap' = heap \cup {p}
                 /\ SetTop([Top EXCEPT !.ssl = p, !.pc = "handshake"])
      BY <1>6, <2>2 DEF NewSsl
    <3>2. Top.pc = "ssl" /\ exc = Null
          /\ UNCHANGED <<exc, outcome, openFds, otherFds, requests, connects>>
      BY <1>6, <2>2 DEF NewSsl, Running
    <3> DEFINE f == [Top EXCEPT !.ssl = p, !.pc = "handshake"]
    <3>3. f \in Frames
      BY <1>1, FrameTypes
    <3>4. f.pc = "handshake" /\ f.ctx = Top.ctx /\ f.ssl = p /\ f.fd = Top.fd
          /\ f.redirectDepth = Top.redirectDepth
      BY <1>2 DEF Frames
    <3>5. SetTop(f)
      BY <3>1
    <3> HIDE DEF f
    <3>6. Goes(f)
      BY <3>1, <3>2, <3>4, <3>5 DEF Goes, Moves, GetsSsl
    <3> QED BY <1>1, <3>3, <3>6
  <2> QED BY <2>1, <2>2
<1>7. CASE Handshake
  <2>1. CASE Throw("SSL_connect failed")
    BY <1>1, <2>1 DEF Throws, Errors
  <2>2. CASE ~Throw("SSL_connect failed")
    <3> DEFINE f == [Top EXCEPT !.pc = "write", !.left = RequestLen]
    <3>1. Top.pc = "handshake" /\ exc = Null /\ SetTop(f)
          /\ UNCHANGED <<exc, outcome, openFds, otherFds, heap, requests, connects>>
      BY <1>7, <2>2 DEF Handshake, Running
    <3>2. f \in Frames
      BY <1>1, FrameTypes
    <3>3. f.pc = "write" /\ f.ctx = Top.ctx /\ f.ssl = Top.ssl /\ f.fd = Top.fd
          /\ f.redirectDepth = Top.redirectDepth
      BY <1>2 DEF Frames
    <3> HIDE DEF f
    <3>4. Goes(f)
      BY <3>1, <3>3 DEF Goes, Moves, SameHandles
    <3> QED BY <1>1, <3>2, <3>4
  <2> QED BY <2>1, <2>2
<1>8. CASE Write
  <2>1. CASE Throw("SSL_write failed")
    BY <1>1, <2>1 DEF Throws, Errors
  <2>2. CASE ~Throw("SSL_write failed")
    <3>1. Top.pc = "write" /\ exc = Null
          /\ UNCHANGED <<exc, outcome, openFds, otherFds, heap, requests, connects>>
      BY <1>8, <2>2 DEF Write, Running
    <3>2. PICK n \in 1..Top.left :
                 \/ SetTop([Top EXCEPT !.left = @ - n])
                 \/ \E r \in Replies : SetTop([Top EXCEPT !.left = 0, !.pc = "read", !.reply = r])
      BY <1>8, <2>2 DEF Write
    <3>3. CASE SetTop([Top EXCEPT !.left = @ - n])
      <4> DEFINE f == [Top EXCEPT !.left = @ - n]
      <4>1. f \in Frames
        BY <1>1, FrameTypes
      <4>2. f.pc = "write" /\ f.ctx = Top.ctx /\ f.ssl = Top.ssl /\ f.fd = Top.fd
            /\ f.redirectDepth = Top.redirectDepth
        BY <1>2, <3>1 DEF Frames
      <4>3. SetTop(f)
        BY <3>3
      <4> HIDE DEF f
      <4>4. Goes(f)
        BY <3>1, <4>2, <4>3 DEF Goes, Moves, SameHandles
      <4> QED BY <1>1, <4>1, <4>4
    <3>4. CASE \E r \in Replies : SetTop([Top EXCEPT !.left = 0, !.pc = "read", !.reply = r])
      <4>1. PICK r \in Replies : SetTop([Top EXCEPT !.left = 0, !.pc = "read", !.reply = r])
        BY <3>4
      <4> DEFINE f == [Top EXCEPT !.left = 0, !.pc = "read", !.reply = r]
      <4>2. f \in Frames
        BY <1>1, FrameTypes
      <4>3. f.pc = "read" /\ f.ctx = Top.ctx /\ f.ssl = Top.ssl /\ f.fd = Top.fd
            /\ f.redirectDepth = Top.redirectDepth /\ f.reply = r
        BY <1>2 DEF Frames
      <4>4. SetTop(f)
        BY <4>1
      <4> HIDE DEF f
      <4>5. Goes(f)
        BY <3>1, <4>3, <4>4 DEF Goes, Moves, SameHandles
      <4> QED BY <1>1, <4>2, <4>5
    <3> QED BY <3>2, <3>3, <3>4
  <2> QED BY <2>1, <2>2
<1>9. CASE ReadMore
  <2> DEFINE f == [Top EXCEPT !.got = @ + 1]
  <2>1. Top.pc = "read" /\ exc = Null /\ SetTop(f)
        /\ UNCHANGED <<exc, outcome, openFds, otherFds, heap, requests, connects>>
    BY <1>9 DEF ReadMore, Running
  <2>2. f \in Frames
    BY <1>1, FrameTypes
  <2>3. f.pc = "read" /\ f.ctx = Top.ctx /\ f.ssl = Top.ssl /\ f.fd = Top.fd
        /\ f.redirectDepth = Top.redirectDepth /\ f.reply = Top.reply
    BY <1>2, <2>1 DEF Frames
  <2>4. Top.reply \in Replies
    BY <1>1, <2>1, TopType DEF ReplyInv, TypeOK
  <2> HIDE DEF f
  <2>5. Goes(f)
    BY <2>1, <2>3, <2>4 DEF Goes, Moves, SameHandles
  <2> QED BY <1>1, <2>2, <2>5
<1>10. CASE ReadEnd
  <2> DEFINE f == [ForgetPointers(Top) EXCEPT !.pc = "parse"]
  <2>1. Top.pc = "read" /\ exc = Null /\ SetTop(f) /\ Release(Top)
        /\ UNCHANGED <<exc, outcome, otherFds, requests, connects>>
    BY <1>10 DEF ReadEnd, Running
  <2>2. f \in Frames
    BY <1>1, FrameTypes
  <2>3. f.pc = "parse" /\ f.ctx = Null /\ f.ssl = Null /\ f.fd = Null
        /\ f.redirectDepth = Top.redirectDepth /\ f.reply = Top.reply
    BY <1>2 DEF Frames, ForgetPointers
  <2>4. Top.reply \in Replies
    BY <1>1, <2>1, TopType DEF ReplyInv, TypeOK
  <2> HIDE DEF f
  <2>5. Goes(f)
    BY <2>1, <2>3, <2>4 DEF Goes, Moves, GivesUp
  <2> QED BY <1>1, <2>2, <2>5
<1> QED BY <1>1, <1>3, <1>4, <1>5, <1>6, <1>7, <1>8, <1>9, <1>10, <1>11, <1>12
    DEF Step

\* The parsed reply leads on: the frame is marked and a new one put on top.
Follows(low, new) ==
    /\ exc = Null /\ Top.pc = "parse"
    /\ stack' = Append([stack EXCEPT ![Len(stack)] = low], new)
    /\ low.pc = "redirected" /\ low.redirectDepth = Top.redirectDepth
    /\ low.ctx = Top.ctx /\ low.ssl = Top.ssl /\ low.fd = Top.fd
    /\ new.pc = "enter" /\ new.redirectDepth = Top.redirectDepth + 1
    /\ new.ctx = Null /\ new.ssl = Null /\ new.fd = Null
    /\ UNCHANGED <<exc, outcome, openFds, otherFds, heap, requests, connects>>

\* It is given to the caller.
Returns ==
    /\ exc = Null /\ Top.pc = "parse"
    /\ stack' = <<>>
    /\ outcome' \in [reply : Replies, body : Nat]
    /\ UNCHANGED <<exc, openFds, otherFds, heap, requests, connects>>

\* Parsing a reply throws, is caught in decode_chunked, follows a redirect or
\* returns.
LEMMA ParseEffect ==
    ASSUME TypeOK, ReplyInv, stack # <<>>, Parse
    PROVE  \/ Throws
           \/ \E f \in Frames : Goes(f)
           \/ \E low, new \in Frames : Follows(low, new)
           \/ Returns
<1>1. Top \in Frames /\ Len(stack) \in Nat \ {0} /\ Top.pc = "parse" /\ exc = Null
  BY TopType DEF Parse, Running, TypeOK
<1>2. Top.reply \in Replies /\ Top.reply.location \in Locations
  BY <1>1, TopType DEF Replies, ReplyInv, TypeOK
<1> DEFINE target == Target(Top.host, Top.reply.location)
           low == [Top EXCEPT !.pc = "redirected", !.got = 0, !.reply = Null]
           new == NewFrame(target.host, target.path, Top.redirectDepth + 1)
<1>3. CASE Throw("bad HTTP response")
  BY <1>3 DEF Throws, Errors
<1>4. CASE /\ Followed(Top.reply.location)
           /\ stack' = Append([stack EXCEPT ![Len(stack)] = low], new)
           /\ UNCHANGED <<exc, outcome, openFds, otherFds, heap, requests, connects>>
  <2>1. Top.host \in Hosts /\ Top.redirectDepth + 1 \in Nat
    BY <1>1 DEF Frames
  <2>2. target.host \in Hosts /\ target.path \in Paths
    BY <1>2, <1>4, <2>1, TargetType
  <2>3. new \in Frames
    <3> HIDE DEF target
    <3> QED BY <2>1, <2>2, NewFrameType
  <2>4. /\ new.pc = "enter" /\ new.redirectDepth = Top.redirectDepth + 1
        /\ new.ctx = Null /\ new.ssl = Null /\ new.fd = Null
    BY DEF NewFrame
  <2>5. low \in Frames
    BY FrameTypes
  <2>6. /\ low.pc = "redirected" /\ low.redirectDepth = Top.redirectDepth
        /\ low.ctx = Top.ctx /\ low.ssl = Top.ssl /\ low.fd = Top.fd
    BY <1>1 DEF Frames
  <2> HIDE DEF low, new
  <2>7. Follows(low, new)
    BY <1>1, <1>4, <2>4, <2>6 DEF Follows
  <2> QED BY <2>3, <2>5, <2>7
<1>5. CASE /\ Top.got > 0 /\ stack' = <<>>
           /\ \E n \in Decoded(Top) : outcome' = [reply |-> Top.reply, body |-> n]
           /\ UNCHANGED <<exc, openFds, otherFds, heap, requests, connects>>
  <2>1. Decoded(Top) \subseteq Nat
    BY <1>1, <1>5 DEF Frames, Decoded
  <2>2. outcome' \in [reply : Replies, body : Nat]
    BY <1>2, <1>5, <2>1
  <2> QED BY <1>1, <1>5, <2>2 DEF Returns
<1>6. [stack EXCEPT ![Len(stack)] = [@ EXCEPT !.pc = "redirected", !.got = 0, !.reply = Null]]
      = [stack EXCEPT ![Len(stack)] = low]
  BY DEF Top
<1>7. CASE /\ SetTop([Top EXCEPT !.pc = "decoding"])
           /\ UNCHANGED <<exc, outcome, openFds, otherFds, heap, requests, connects>>
  <2> DEFINE f == [Top EXCEPT !.pc = "decoding"]
  <2>1. f \in Frames
    BY FrameTypes
  <2>2. f.pc = "decoding" /\ f.ctx = Top.ctx /\ f.ssl = Top.ssl /\ f.fd = Top.fd
        /\ f.redirectDepth = Top.redirectDepth /\ f.reply = Top.reply
    BY <1>1 DEF Frames
  <2>3. SetTop(f)
    BY <1>7
  <2> HIDE DEF f
  <2>4. Goes(f)
    BY <1>1, <1>2, <1>7, <2>2, <2>3 DEF Goes, Moves, SameHandles
  <2> QED BY <2>1, <2>4
<1> QED BY <1>3, <1>4, <1>5, <1>6, <1>7 DEF Parse

(***************************************************************************)
(* Types and replies are inductive.                                        *)
(***************************************************************************)

\* The first state.
LEMMA InitInv ==
    ASSUME Init
    PROVE  TypeOK /\ ReplyInv /\ OwnInv /\ DepthInv
<1>1. MaxRequests \in Nat /\ MaxRedirects \in Nat
  BY HttpsAssumption
<1>2. stack \in Seq(Frames) /\ Len(stack) = 0
  BY DEF Init
<1>3. TypeOK
  BY <1>1, <1>2 DEF Init, TypeOK
<1> QED BY <1>1, <1>2, <1>3 DEF Init, ReplyInv, OwnInv, DepthInv

\* Every step keeps the types, and no frame gets past the reading of a reply
\* without one.
LEMMA TypeStep ==
    ASSUME TypeOK, ReplyInv, OwnInv, [Next]_vars
    PROVE  TypeOK' /\ ReplyInv'
<1>1. MaxRequests \in Nat /\ Null \notin Errors
  BY HttpsAssumption
<1>2. CASE UNCHANGED vars
  BY <1>2 DEF vars, TypeOK, ReplyInv
<1>3. ASSUME NEW host \in Hosts, NEW path \in Paths, Request(host, path)
      PROVE  TypeOK' /\ ReplyInv'
  <2>1. NewFrame(host, path, 0) \in Frames /\ NewFrame(host, path, 0).pc = "enter"
    BY NewFrameType DEF NewFrame
  <2>2. stack' = <<NewFrame(host, path, 0)>>
    BY <1>3 DEF Request
  <2>3. stack' \in Seq(Frames) /\ Len(stack') = 1 /\ stack'[1].pc = "enter" /\ stack' # <<>>
    BY <2>1, <2>2
  <2>4. TypeOK'
    BY <1>1, <1>3, <2>3 DEF Request, TypeOK
  <2> QED BY <2>3, <2>4 DEF ReplyInv
<1>4. CASE OtherOpens
  BY <1>4 DEF OtherOpens, LowestFree, TypeOK, ReplyInv
<1>5. CASE OtherCloses
  BY <1>5 DEF OtherCloses, TypeOK, ReplyInv
<1>6. CASE Step
  <2>1. stack # <<>> /\ stack \in Seq(Frames)
    BY <1>6, StepEffect DEF TypeOK
  <2>2. Top \in Frames /\ Len(stack) \in Nat \ {0}
        /\ (Top.pc \in {"read", "parse", "decoding"} => Top.reply \in Replies)
    BY <2>1, TopType DEF ReplyInv
  <2>3. CASE Throws
    BY <2>1, <2>3 DEF Throws, Throw, TypeOK, ReplyInv
  <2>4. ASSUME NEW f \in Frames, Goes(f)
        PROVE  TypeOK' /\ ReplyInv'
    <3>1. Moves(f) /\ SetTop(f)
      BY <2>4 DEF Goes, Moves
    <3>2. /\ stack' \in Seq(Frames) /\ Len(stack') = Len(stack) /\ stack' # <<>>
          /\ stack'[Len(stack)] = f
          /\ \A i \in 1..Len(stack) : i # Len(stack) => stack'[i] = stack[i]
      BY <2>1, <3>1, SetTopEffect
    <3>3. ReplyInv'
      BY <2>2, <3>1, <3>2 DEF ReplyInv, Moves
    <3>4. openFds' \in SUBSET Fds /\ otherFds' \in SUBSET openFds' /\ heap' \in SUBSET Addresses
          /\ connects' \in Nat
      <4>1. CASE SameHandles(f)
        BY <3>1, <4>1 DEF TypeOK, Moves, SameHandles
      <4>2. CASE GetsCtx(f)
        BY <3>1, <4>2 DEF TypeOK, Moves, GetsCtx
      <4>3. CASE GetsFd(f)
        BY <3>1, <4>3 DEF TypeOK, Moves, GetsFd
      <4>6. CASE Connected(f)
        BY <3>1, <4>6 DEF TypeOK, Moves, Connected
      <4>7. CASE DropsFd(f)
        BY <2>1, <3>1, <4>7 DEF TypeOK, Moves, DropsFd, OwnInv
      <4>4. CASE GetsSsl(f)
        BY <3>1, <4>4 DEF TypeOK, Moves, GetsSsl
      <4>5. CASE GivesUp(f)
        BY <2>1, <3>1, <4>5 DEF TypeOK, Moves, GivesUp, Release, OwnInv
      <4> QED BY <2>4, <4>1, <4>2, <4>3, <4>4, <4>5, <4>6, <4>7 DEF Goes
    <3> QED BY <3>1, <3>2, <3>3, <3>4 DEF TypeOK, Moves
  <2>5. CASE Parse
    <3>1. CASE Throws
      BY <2>3, <3>1
    <3>2. ASSUME NEW low \in Frames, NEW new \in Frames, Follows(low, new)
          PROVE  TypeOK' /\ ReplyInv'
      <4>1. /\ stack' \in Seq(Frames) /\ stack' # <<>> /\ Len(stack') = Len(stack) + 1
            /\ stack'[Len(stack) + 1] = new /\ stack'[Len(stack)] = low
            /\ \A i \in 1..Len(stack) : i # Len(stack) => stack'[i] = stack[i]
        BY <2>1, <3>2, PushEffect DEF Follows
      <4>2. ReplyInv'
        BY <2>2, <3>2, <4>1 DEF ReplyInv, Follows
      <4> QED BY <3>2, <4>1, <4>2 DEF TypeOK, Follows
    <3>3. CASE Returns
      <4>1. stack' \in Seq(Frames) /\ Len(stack') = 0 /\ exc' = Null
        BY <3>3 DEF Returns
      <4> QED BY <3>3, <4>1 DEF TypeOK, ReplyInv, Returns
    <3> QED BY <2>1, <2>4, <2>5, <3>1, <3>2, <3>3, ParseEffect
  <2>6. CASE CatchAndRethrow
    <3>1. exc # Null /\ Release(Top) /\ stack' = SubSeq(stack, 1, Len(stack) - 1)
          /\ UNCHANGED <<otherFds, requests, connects>>
      BY <2>6 DEF CatchAndRethrow
    <3>2. /\ stack' \in Seq(Frames) /\ Len(stack') = Len(stack) - 1
          /\ \A i \in 1..Len(stack') : stack'[i] = stack[i]
          /\ stack' = <<>> <=> Len(stack) = 1
      BY <2>1, <3>1, PopEffect
    <3>3. /\ exc' \in Errors \cup {Null}
          /\ outcome' \in [reply : Replies, body : Nat] \cup [thrown : Errors] \cup {Null}
          /\ Len(stack) = 1 => exc' = Null
      <4>1. CASE Len(stack) = 1
        <5>1. exc \in Errors /\ exc' = Null /\ outcome' = [thrown |-> exc]
          BY <2>6, <3>1, <4>1 DEF CatchAndRethrow, TypeOK
        <5> QED BY <5>1
      <4>2. CASE Len(stack) # 1
        BY <2>6, <4>2 DEF CatchAndRethrow, TypeOK
      <4> QED BY <4>1, <4>2
    <3>4. openFds' \in SUBSET Fds /\ otherFds' \in SUBSET openFds' /\ heap' \in SUBSET Addresses
      BY <2>1, <3>1 DEF TypeOK, Release, OwnInv
    <3>5. ReplyInv'
      BY <2>2, <3>2, <3>3 DEF ReplyInv
    <3> QED BY <3>1, <3>2, <3>3, <3>4, <3>5 DEF TypeOK
  <2> QED BY <1>6, <2>3, <2>4, <2>5, <2>6, StepEffect
<1> QED BY <1>2, <1>3, <1>4, <1>5, <1>6 DEF Next

(***************************************************************************)
(* Handles.                                                                *)
(***************************************************************************)

\* Every step keeps the handles of the process those of the innermost frame
\* and of the other threads.
LEMMA OwnStep ==
    ASSUME TypeOK, ReplyInv, OwnInv, [Next]_vars
    PROVE  OwnInv'
<1>1. Null \notin Fds /\ Null \notin Addresses
  BY HttpsAssumption
<1>2. CASE UNCHANGED vars
  BY <1>2 DEF vars, OwnInv, Top
<1>3. ASSUME NEW host \in Hosts, NEW path \in Paths, Request(host, path)
      PROVE  OwnInv'
  <2> DEFINE new == NewFrame(host, path, 0)
  <2>1. new.pc = "enter" /\ new.ctx = Null /\ new.ssl = Null /\ new.fd = Null
    BY DEF NewFrame
  <2>2. stack' = <<new>>
    BY <1>3 DEF Request
  <2> HIDE DEF new
  <2>3. Len(stack') = 1 /\ stack'[1] = new /\ stack' # <<>> /\ Top' = new
    BY <2>2 DEF Top
  <2>4. heap' = {} /\ openFds' = otherFds' /\ otherFds' \subseteq Fds
    BY <1>3 DEF Request, OwnInv, TypeOK
  <2> QED BY <1>1, <2>1, <2>3, <2>4 DEF OwnInv
<1>4. CASE OtherOpens
  <2>1. PICK fd \in Fds \ openFds : openFds' = openFds \cup {fd} /\ otherFds' = otherFds \cup {fd}
    BY <1>4 DEF OtherOpens, LowestFree
  <2>2. Top' = Top /\ UNCHANGED <<stack, heap>>
    BY <1>4 DEF OtherOpens, Top
  <2>3. stack # <<>> => Top.fd \in Fds \cup {Null}
    BY TopType DEF TypeOK, Frames
  <2>4. stack # <<>> => Top.fd = Null \/ Top.fd \in openFds
    BY DEF OwnInv
  <2> QED BY <1>1, <2>1, <2>2, <2>3, <2>4 DEF OwnInv
<1>5. CASE OtherCloses
  <2>1. Top' = Top /\ UNCHANGED <<stack, heap>>
    BY <1>5 DEF OtherCloses, Top
  <2>2. PICK fd \in otherFds : openFds' = openFds \ {fd} /\ otherFds' = otherFds \ {fd}
    BY <1>5 DEF OtherCloses
  <2> QED BY <2>1, <2>2 DEF OwnInv
<1>6. CASE Step
  <2>1. stack # <<>> /\ stack \in Seq(Frames)
    BY <1>6, StepEffect DEF TypeOK
  <2>2. /\ Top \in Frames /\ Len(stack) \in Nat \ {0} /\ Top = stack[Len(stack)]
        /\ Len(stack) \in 1..Len(stack)
    BY <2>1, TopType
  <2>3. /\ heap = {Top.ssl, Top.ctx} \ {Null}
        /\ openFds = otherFds \cup ({Top.fd} \ {Null})
        /\ Top.fd \notin otherFds
    BY <2>1 DEF OwnInv
  <2>4. CASE Throws
    BY <2>4 DEF Throws, Throw, OwnInv, Top
  <2>5. ASSUME NEW f \in Frames, Goes(f)
        PROVE  OwnInv'
    <3>1. Moves(f) /\ SetTop(f) /\ otherFds' = otherFds
      BY <2>5 DEF Goes, Moves
    <3>2. /\ Len(stack') = Len(stack) /\ stack' # <<>> /\ Top' = f
          /\ stack'[Len(stack)] = f
          /\ \A i \in 1..Len(stack) : i # Len(stack) => stack'[i] = stack[i]
      BY <2>1, <3>1, SetTopEffect
    <3>3. /\ f.pc \in {"enter", "parse", "decoding", "redirected"} => f.fd = Null /\ f.ssl = Null /\ f.ctx = Null
          /\ f.pc \in {"resolve", "connect", "connecting", "ssl"} => f.ssl = Null
          /\ f.pc \in {"resolve", "connect"} => f.fd = Null
          /\ f.fd \notin otherFds
          /\ heap' = {f.ssl, f.ctx} \ {Null}
          /\ openFds' = otherFds \cup ({f.fd} \ {Null})
      <4>1. CASE SameHandles(f)
        BY <2>1, <2>2, <2>3, <4>1 DEF SameHandles, OwnInv
      <4>2. CASE GetsCtx(f)
        BY <1>1, <2>1, <2>2, <2>3, <4>2 DEF GetsCtx, OwnInv
      <4>3. CASE GetsFd(f)
        BY <1>1, <2>1, <2>2, <2>3, <4>3 DEF GetsFd, OwnInv, TypeOK
      <4>6. CASE Connected(f)
        BY <1>1, <2>1, <2>2, <2>3, <4>6 DEF Connected, OwnInv
      <4>7. CASE DropsFd(f)
        BY <1>1, <2>1, <2>2, <2>3, <4>7 DEF DropsFd, OwnInv, TypeOK
      <4>4. CASE GetsSsl(f)
        BY <1>1, <2>1, <2>2, <2>3, <4>4 DEF GetsSsl, OwnInv
      <4>5. CASE GivesUp(f)
        BY <1>1, <2>3, <4>5 DEF GivesUp, Release, TypeOK
      <4> QED BY <2>5, <4>1, <4>2, <4>3, <4>4, <4>5, <4>6, <4>7 DEF Goes
    <3>4. \A i \in 1..Len(stack) : i < Len(stack) =>
             stack'[i].fd = Null /\ stack'[i].ssl = Null /\ stack'[i].ctx = Null
      BY <2>2, <3>2 DEF OwnInv
    <3> QED BY <2>2, <3>1, <3>2, <3>3, <3>4 DEF OwnInv
  <2>6. CASE Parse
    <3>1. CASE Throws
      BY <2>4, <3>1
    <3>2. ASSUME NEW low \in Frames, NEW new \in Frames, Follows(low, new)
          PROVE  OwnInv'
      <4>1. /\ Len(stack') = Len(stack) + 1 /\ stack' # <<>> /\ Top' = new
            /\ stack'[Len(stack) + 1] = new /\ stack'[Len(stack)] = low
            /\ \A i \in 1..Len(stack) : i # Len(stack) => stack'[i] = stack[i]
        BY <2>1, <3>2, PushEffect DEF Follows
      <4>2. Top.fd = Null /\ Top.ssl = Null /\ Top.ctx = Null
        BY <2>2, <3>2 DEF Follows, OwnInv
      <4>3. \A i \in 1..Len(stack') : stack'[i].fd = Null /\ stack'[i].ssl = Null /\ stack'[i].ctx = Null
        <5>1. TAKE i \in 1..Len(stack')
        <5>2. CASE i = Len(stack) + 1
          BY <3>2, <4>1, <5>2 DEF Follows
        <5>3. CASE i = Len(stack)
          BY <3>2, <4>1, <4>2, <5>3 DEF Follows
        <5>4. CASE i # Len(stack) + 1 /\ i # Len(stack)
          BY <2>2, <4>1, <5>4 DEF OwnInv
        <5> QED BY <5>2, <5>3, <5>4
      <4>4. heap' = {} /\ openFds' = otherFds' /\ Null \notin otherFds'
        BY <1>1, <2>3, <3>2, <4>2 DEF Follows, TypeOK
      <4> QED BY <3>2, <4>1, <4>3, <4>4 DEF OwnInv, Follows
    <3>3. CASE Returns
      <4>1. Top.fd = Null /\ Top.ssl = Null /\ Top.ctx = Null
        BY <2>2, <3>3 DEF Returns, OwnInv
      <4>2. stack' = <<>> /\ Len(stack') = 0
        BY <3>3 DEF Returns
      <4>3. heap' = {} /\ openFds' = otherFds'
        BY <2>3, <3>3, <4>1 DEF Returns
      <4> QED BY <4>2, <4>3 DEF OwnInv
    <3> QED BY <2>1, <2>5, <2>6, <3>1, <3>2, <3>3, ParseEffect
  <2>7. CASE CatchAndRethrow
    <3>1. Release(Top) /\ stack' = SubSeq(stack, 1, Len(stack) - 1) /\ otherFds' = otherFds
      BY <2>7 DEF CatchAndRethrow
    <3>2. /\ Len(stack') = Len(stack) - 1
          /\ \A i \in 1..Len(stack') : stack'[i] = stack[i]
          /\ stack' = <<>> <=> Len(stack) = 1
          /\ stack' # <<>> => Top' = stack[Len(stack) - 1]
      BY <2>1, <3>1, PopEffect
    <3>3. heap' = {} /\ openFds' = otherFds' /\ Null \notin otherFds'
      BY <1>1, <2>3, <3>1 DEF Release, TypeOK
    <3>4. \A i \in 1..Len(stack') : stack'[i].fd = Null /\ stack'[i].ssl = Null /\ stack'[i].ctx = Null
      BY <2>2, <3>2 DEF OwnInv
    <3>5. stack' # <<>> => Top'.fd = Null /\ Top'.ssl = Null /\ Top'.ctx = Null
      BY <2>2, <3>2, <3>4
    <3> QED BY <3>3, <3>4, <3>5 DEF OwnInv
  <2> QED BY <1>6, <2>4, <2>5, <2>6, <2>7, StepEffect
<1> QED BY <1>2, <1>3, <1>4, <1>5, <1>6 DEF Next

(***************************************************************************)
(* Depth and connections.                                                  *)
(***************************************************************************)

\* Every step keeps the frames numbered by their depth and the connections
\* at most as many as there are frames.
LEMMA DepthStep ==
    ASSUME TypeOK, ReplyInv, OwnInv, DepthInv, [Next]_vars
    PROVE  DepthInv'
<1>1. MaxRedirects \in Nat /\ Null \notin Errors
  BY HttpsAssumption
<1>2. CASE UNCHANGED vars
  BY <1>2 DEF vars, DepthInv, Top
<1>3. ASSUME NEW host \in Hosts, NEW path \in Paths, Request(host, path)
      PROVE  DepthInv'
  <2> DEFINE new == NewFrame(host, path, 0)
  <2>1. new.pc = "enter" /\ new.redirectDepth = 0
    BY DEF NewFrame
  <2>2. stack' = <<new>> /\ connects' = 0
    BY <1>3 DEF Request
  <2> HIDE DEF new
  <2>3. Len(stack') = 1 /\ stack'[1] = new /\ Top' = new
    BY <2>2 DEF Top
  <2> QED BY <1>1, <2>1, <2>2, <2>3 DEF DepthInv
<1>4. CASE OtherOpens
  BY <1>4 DEF OtherOpens, DepthInv, Top
<1>5. CASE OtherCloses
  BY <1>5 DEF OtherCloses, DepthInv, Top
<1>6. CASE Step
  <2>1. stack # <<>> /\ stack \in Seq(Frames) /\ connects \in Nat
    BY <1>6, StepEffect DEF TypeOK
  <2>2. /\ Top \in Frames /\ Len(stack) \in Nat \ {0} /\ Top = stack[Len(stack)]
        /\ Len(stack) \in 1..Len(stack)
    BY <2>1, TopType
  <2>3. /\ Top.redirectDepth = Len(stack) - 1
        /\ Top.pc # "enter" => Len(stack) <= MaxRedirects + 1
    BY <2>2 DEF DepthInv
  <2>4. CASE Throws
    BY <1>1, <2>4 DEF Throws, Throw, DepthInv, Top
  <2>5. ASSUME NEW f \in Frames, Goes(f)
        PROVE  DepthInv'
    <3>1. Moves(f) /\ SetTop(f) /\ exc = Null /\ exc' = Null /\ f.redirectDepth = Len(stack) - 1
      BY <2>3, <2>5 DEF Goes, Moves
    <3>2. /\ Len(stack') = Len(stack) /\ stack' # <<>> /\ Top' = f
          /\ stack'[Len(stack)] = f
          /\ \A i \in 1..Len(stack) : i # Len(stack) => stack'[i] = stack[i]
      BY <2>1, <3>1, SetTopEffect
    <3>3. connects <= IF Top.pc \in {"enter", "resolve", "connect", "connecting"} THEN Len(stack) - 1 ELSE Len(stack)
      BY <2>1, <3>1 DEF DepthInv
    <3>4. /\ f.pc # "enter" => Len(stack) <= MaxRedirects + 1
          /\ connects' <= MaxRedirects + 1
          /\ connects' <= IF f.pc \in {"enter", "resolve", "connect", "connecting"} THEN Len(stack) - 1 ELSE Len(stack)
      <4>1. CASE SameHandles(f)
        BY <1>1, <2>1, <2>2, <2>3, <3>3, <4>1 DEF SameHandles, DepthInv
      <4>2. CASE GetsCtx(f)
        BY <1>1, <2>1, <2>2, <2>3, <3>3, <4>2 DEF GetsCtx, TooDeep, DepthInv
      <4>3. CASE GetsFd(f)
        BY <1>1, <2>1, <2>2, <2>3, <3>3, <4>3 DEF GetsFd, DepthInv
      <4>6. CASE Connected(f)
        BY <1>1, <2>1, <2>2, <2>3, <3>3, <4>6 DEF Connected
      <4>7. CASE DropsFd(f)
        BY <1>1, <2>1, <2>2, <2>3, <3>3, <4>7 DEF DropsFd, DepthInv
      <4>4. CASE GetsSsl(f)
        BY <1>1, <2>1, <2>2, <2>3, <3>3, <4>4 DEF GetsSsl, DepthInv
      <4>5. CASE GivesUp(f)
        BY <1>1, <2>1, <2>2, <2>3, <3>3, <4>5 DEF GivesUp, DepthInv
      <4> QED BY <2>5, <4>1, <4>2, <4>3, <4>4, <4>5, <4>6, <4>7 DEF Goes
    <3>5. \A i \in 1..Len(stack') :
             /\ stack'[i].redirectDepth = i - 1
             /\ stack'[i].pc # "enter" => i <= MaxRedirects + 1
      BY <2>2, <3>1, <3>2, <3>4 DEF DepthInv
    <3> QED BY <3>2, <3>4, <3>5 DEF DepthInv
  <2>6. CASE Parse
    <3>1. CASE Throws
      BY <2>4, <3>1
    <3>2. ASSUME NEW low \in Frames, NEW new \in Frames, Follows(low, new)
          PROVE  DepthInv'
      <4>1. /\ Len(stack') = Len(stack) + 1 /\ stack' # <<>> /\ Top' = new
            /\ stack'[Len(stack) + 1] = new /\ stack'[Len(stack)] = low
            /\ \A i \in 1..Len(stack) : i # Len(stack) => stack'[i] = stack[i]
        BY <2>1, <3>2, PushEffect DEF Follows
      <4>2. \A i \in 1..Len(stack') :
               /\ stack'[i].redirectDepth = i - 1
               /\ stack'[i].pc # "enter" => i <= MaxRedirects + 1
        <5>1. TAKE i \in 1..Len(stack')
        <5>2. CASE i = Len(stack) + 1
          BY <2>2, <2>3, <3>2, <4>1, <5>2 DEF Follows
        <5>3. CASE i = Len(stack)
          BY <2>3, <3>2, <4>1, <5>3 DEF Follows
        <5>4. CASE i # Len(stack) + 1 /\ i # Len(stack)
          BY <2>2, <4>1, <5>4 DEF DepthInv
        <5> QED BY <5>2, <5>3, <5>4
      <4>3. connects <= Len(stack) /\ connects <= MaxRedirects + 1 /\ connects' = connects
        BY <2>1, <3>2 DEF Follows, DepthInv
      <4> QED BY <2>1, <2>2, <3>2, <4>1, <4>2, <4>3 DEF DepthInv, Follows
    <3>3. CASE Returns
      <4>1. stack' = <<>> /\ Len(stack') = 0 /\ connects' = connects
        BY <3>3 DEF Returns
      <4> QED BY <4>1 DEF DepthInv
    <3> QED BY <2>1, <2>5, <2>6, <3>1, <3>2, <3>3, ParseEffect
  <2>7. CASE CatchAndRethrow
    <3>1. stack' = SubSeq(stack, 1, Len(stack) - 1) /\ connects' = connects
          /\ exc # Null /\ (Len(stack) # 1 => exc' = exc)
      BY <2>7 DEF CatchAndRethrow
    <3>2. /\ Len(stack') = Len(stack) - 1
          /\ \A i \in 1..Len(stack') : stack'[i] = stack[i]
          /\ stack' = <<>> <=> Len(stack) = 1
      BY <2>1, <3>1, PopEffect
    <3> QED BY <2>2, <3>1, <3>2 DEF DepthInv
  <2> QED BY <1>6, <2>4, <2>5, <2>6, <2>7, StepEffect
<1> QED BY <1>2, <1>3, <1>4, <1>5, <1>6 DEF Next

(***************************************************************************)
(* The theorems.                                                           *)
(***************************************************************************)

\* What is inductive, for all states of all behaviours of https_request.
LEMMA Invariants == Spec => [](TypeOK /\ ReplyInv /\ OwnInv /\ DepthInv)
<1>1. Init => TypeOK /\ ReplyInv /\ OwnInv /\ DepthInv
  BY InitInv
<1>2. TypeOK /\ ReplyInv /\ OwnInv /\ DepthInv /\ [Next]_vars
      => (TypeOK /\ ReplyInv /\ OwnInv /\ DepthInv)'
  BY TypeStep, OwnStep, DepthStep
<1> QED BY <1>1, <1>2, PTL DEF Spec

\* The locals of https_request and the tables of the process keep their
\* types, however often requests are redirected and calls fail.
THEOREM HttpsTypeCorrect == Spec => []TypeOK
BY Invariants, PTL

\* No SSL, SSL_CTX or socket of https_request leaks or is freed twice on any
\* path, and close never hits a descriptor of another thread.
THEOREM HandlesAreOwned == Spec => []HandlesOwned
<1>1. TypeOK /\ OwnInv => HandlesOwned
  <2> SUFFICES ASSUME TypeOK, OwnInv PROVE HandlesOwned
    OBVIOUS
  <2>1. CASE stack = <<>>
    <3>1. Len(stack) = 0
      BY <2>1
    <3> QED BY <2>1, <3>1 DEF OwnInv, HandlesOwned
  <2>2. CASE stack # <<>>
    <3>1. /\ Len(stack) \in Nat \ {0} /\ Len(stack) \in 1..Len(stack)
          /\ Top = stack[Len(stack)]
      BY <2>2, TopType DEF TypeOK
    <3>2. \A i \in 1..Len(stack) : i # Len(stack) => HandlesOf(i) = {} /\ stack[i].fd = Null
      BY <3>1 DEF OwnInv, HandlesOf
    <3>3. heap = HandlesOf(Len(stack)) /\ openFds = otherFds \cup ({Top.fd} \ {Null})
      BY <2>2, <3>1 DEF OwnInv, HandlesOf
    <3>4. heap = UNION {HandlesOf(i) : i \in 1..Len(stack)}
      BY <3>1, <3>2, <3>3
    <3>5. {stack[i].fd : i \in 1..Len(stack)} \ {Null} = {Top.fd} \ {Null}
      BY <3>1, <3>2
    <3>6. \A i, j \in 1..Len(stack) : i # j => HandlesOf(i) \cap HandlesOf(j) = {}
      BY <3>1, <3>2
    <3> QED BY <3>3, <3>4, <3>5, <3>6 DEF HandlesOwned
  <2> QED BY <2>1, <2>2
<1> QED BY <1>1, Invariants, PTL

\* A request makes at most MaxRedirects + 1 connections, whatever servers
\* answer, and a frame of https_request that has followed a redirect holds
\* nothing any more.
THEOREM ConnectionsAreBounded == Spec => []ConnectionBound
<1>1. TypeOK /\ OwnInv /\ DepthInv => ConnectionBound
  <2> SUFFICES ASSUME TypeOK, OwnInv, DepthInv PROVE ConnectionBound
    OBVIOUS
  <2>1. Len(stack) \in Nat
    BY DEF TypeOK
  <2>2. \A i \in 1..(Len(stack) - 1) : i \in 1..Len(stack) /\ i < Len(stack)
    BY <2>1
  <2> QED BY <2>2 DEF OwnInv, DepthInv, ConnectionBound, HandlesOf
<1> QED BY <1>1, Invariants, PTL
=============================================================================
