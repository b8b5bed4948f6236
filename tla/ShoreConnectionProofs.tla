------------------------ MODULE ShoreConnectionProofs ------------------------
(* What ShoreConnection promises, for any connections, requests, streams,  *)
(* channel capacity and number of frames.                                  *)
EXTENDS ShoreConnection, TLAPS

-----------------------------------------------------------------------------
(* The inductive invariant *)

Unsent == {"new", "uploading", "resolved", "queued"}
Delivering == {"responding", "framing", "ending"}

(* A handler that has been resolved has a connection whose read loop has   *)
(* been started, and waits for what its kind of request waits for.         *)
Homes ==
  \A h \in Handlers :
    /\ hpc[h] # "new" => target[h] \in Conns /\ loop[target[h]] # "off"
    /\ hpc[h] \in {"waiting", "cancelling"} => h \in Reqs
    /\ hpc[h] \in {"streaming", "closing"} => h \in Streams

(* A read loop delivers to a request of its own connection.                *)
Loops ==
  \A c \in Conns : loop[c] \in Delivering =>
    /\ item[c] \in (IF loop[c] = "responding" THEN Reqs ELSE Streams)
    /\ target[item[c]] = c
    /\ hpc[item[c]] \notin Unsent

(* A response is in one place: behind an entry of the map, in the read     *)
(* loop's hand, or in its channel.                                         *)
Responses ==
  /\ \A r \in reply : hpc[r] \notin Unsent /\ \A d \in Conns : r \notin pending[d]
  /\ \A c \in Conns : loop[c] = "responding" =>
       item[c] \notin reply /\ \A d \in Conns : item[c] \notin pending[d]

Ending(s) == \E c \in Conns : loop[c] = "ending" /\ item[c] = s

(* So is the right to close a stream's channel: in the map, in the read    *)
(* loop's hand, in the handler's hand, or used up.                         *)
Endings ==
  \A s \in Streams :
    /\ s \in ended => hpc[s] \notin Unsent \union {"closing"} /\ ~Ending(s)
    /\ hpc[s] = "closing" => ~Ending(s)
    /\ s \in ended \/ hpc[s] = "closing" \/ Ending(s)
         => \A d \in Conns : s \notin streams[d]
    /\ s \in ended /\ InHand(s) => hpc[s] = "left"

Writers ==
  \A c \in Conns :
    /\ \A h \in Handlers : hpc[h] = "writing" /\ target[h] = c => writer[c] = h
    /\ writer[c] \in Handlers => hpc[writer[c]] = "writing" /\ target[writer[c]] = c
    /\ loop[c] = "pongwriting" <=> writer[c] = c
    /\ writer[c] \in Conns => writer[c] = c

Increasing(q) == \A i, j \in 1 .. Len(q) : i < j => q[i] < q[j]

(* n frames have come; g have been passed on, f wait, l were lost.         *)
Ledger(g, f, l, n) ==
  /\ Increasing(g) /\ Increasing(f)
  /\ \A i \in 1 .. Len(g) : g[i] <= n
  /\ \A j \in 1 .. Len(f) : f[j] <= n
  /\ \A i \in 1 .. Len(g), j \in 1 .. Len(f) : g[i] < f[j]
  /\ Len(g) + Len(f) + l <= n

Settled(g, f, l, n) == Len(g) + Len(f) + l = n

(* What the browser has seen, what waits for it and what the read loop     *)
(* holds follow each other, and together with the lost frames they are all *)
(* there is, unless the browser left.                                      *)
Delivered ==
  \A s \in Streams :
    /\ Ledger(got[s], frames[s], lost[s], Counted(s))
    /\ hpc[s] # "left" => Settled(got[s], frames[s], lost[s], Counted(s))

(* Nothing comes of a stream before it is asked for, and nothing waits     *)
(* after it is over.                                                       *)
Bounds ==
  \A s \in Streams :
    /\ hpc[s] \in Unsent => sent[s] = 0
    /\ hpc[s] = "over" => s \in ended /\ frames[s] = <<>>

TunInv ==
  /\ TunTypeOK /\ Homes /\ NoLeak /\ Loops /\ Responses
  /\ Endings /\ Writers /\ Delivered /\ Bounds /\ PanicHasLeaver

(* The types of what is no sequence.                                       *)
Types ==
  /\ hpc \in [Handlers -> Places] /\ target \in [Handlers -> Conns \union {NoConn}]
  /\ pending \in [Conns -> SUBSET Reqs] /\ streams \in [Conns -> SUBSET Streams]
  /\ loop \in [Conns -> LoopPlaces] /\ item \in [Conns -> Handlers \union {Nobody}]
  /\ writer \in [Conns -> Handlers \union Conns \union {Nobody}]
  /\ reply \subseteq Reqs /\ ended \subseteq Streams /\ panicked \subseteq Conns
  /\ Reqs \intersect Streams = {} /\ Handlers \intersect Conns = {}
  /\ Nobody \notin Handlers \union Conns /\ Flushable \subseteq Streams
  /\ Handlers = Reqs \union Streams

LEMMA TypesHold == ASSUME TunInv PROVE Types
BY TunnelAssumption DEF TunInv, TunTypeOK, Types, Handlers

(* The steps there are.                                                    *)
LEMMA ServeCases ==
  ASSUME Serves
  PROVE  \/ \E h \in Handlers :
              \/ Enqueue(h) \/ TakeWriter(h) \/ WriteOk(h) \/ WriteFails(h)
              \/ Unsend(h) \/ ShoreDone(h)
         \/ \E r \in Reqs : ReadBody(r) \/ Collect(r) \/ TimeOut(r) \/ CancelPendingRequest(r)
         \/ \E s \in Streams :
              \/ RefuseStream(s) \/ ForwardFrame(s) \/ StreamOver(s)
              \/ ClientLeaves(s) \/ CloseLeft(s)
         \/ \E c \in Conns, h \in Handlers :
              ReadResponse(c, h) \/ ReadFrame(c, h) \/ ReadEnd(c, h)
         \/ \E c \in Conns :
              \/ DeliverResponse(c) \/ DeliverFrame(c) \/ CloseEnded(c)
              \/ TakeWriterForPong(c) \/ PongOk(c)
<1>1. CASE \E c \in Conns : LoopNext(c)
  <2>1. PICK c \in Conns : LoopNext(c) BY <1>1
  <2>2. CASE \E m \in Message : Receive(c, m)
    <3>1. PICK m \in Message : Receive(c, m) BY <2>2
    <3>2. m.id \in Handlers BY DEF Message
    <3> QED BY <3>1, <3>2 DEF Receive
  <2> QED BY <2>1, <2>2 DEF LoopNext
<1>2. CASE ~\E c \in Conns : LoopNext(c)
  BY <1>2 DEF Serves, HandlerNext, ReqNext, StreamNext
<1> QED BY <1>1, <1>2

LEMMA TunCases ==
  ASSUME TunNext
  PROVE  \/ \E h \in Handlers :
              \/ Enqueue(h) \/ TakeWriter(h) \/ WriteOk(h) \/ WriteFails(h)
              \/ Unsend(h) \/ ShoreDone(h)
         \/ \E r \in Reqs : ReadBody(r) \/ Collect(r) \/ TimeOut(r) \/ CancelPendingRequest(r)
         \/ \E s \in Streams :
              \/ RefuseStream(s) \/ ForwardFrame(s) \/ StreamOver(s)
              \/ ClientLeaves(s) \/ CloseLeft(s)
         \/ \E c \in Conns, h \in Handlers :
              ReadResponse(c, h) \/ ReadFrame(c, h) \/ ReadEnd(c, h)
         \/ \E h \in Handlers, c \in Conns : Resolve(h, c)
         \/ \E c \in Conns :
              \/ DeliverResponse(c) \/ DeliverFrame(c) \/ CloseEnded(c)
              \/ TakeWriterForPong(c) \/ PongOk(c) \/ ReadPing(c)
              \/ SendOnClosed(c) \/ PongFails(c) \/ ReadFails(c) \/ CloseAfterLoop(c)
         \/ \E c \in Conns, S \in SUBSET Conns : Start(c, S)
         \/ \E c \in Conns, how \in {"silent", "down"} : TunLinkFails(c, how)
         \/ \E S \in SUBSET Conns : Close(S)
<1>1. CASE Serves BY <1>1, ServeCases
<1>2. CASE ~Serves BY <1>2 DEF TunNext, LoopExit
<1> QED BY <1>1, <1>2

-----------------------------------------------------------------------------
(* Each part is kept by every step *)

LEMMA HomesStep ==
  ASSUME TunInv, [TunNext]_tunVars PROVE Homes'
<1> Types /\ Homes BY TypesHold DEF TunInv
<1> USE DEF Types, Homes, maps, channels, reader, socket
<1>1. ASSUME NEW h \in Handlers, Enqueue(h) PROVE Homes'
  BY <1>1 DEF Enqueue, Goto
<1>2. ASSUME NEW h \in Handlers, TakeWriter(h) PROVE Homes'
  BY <1>2 DEF TakeWriter, Goto
<1>3. ASSUME NEW h \in Handlers, WriteOk(h) PROVE Homes'
  BY <1>3 DEF WriteOk, Goto
<1>4. ASSUME NEW h \in Handlers, WriteFails(h) PROVE Homes'
  BY <1>4 DEF WriteFails, Goto
<1>5. ASSUME NEW h \in Handlers, Unsend(h) PROVE Homes'
  BY <1>5 DEF Unsend, Goto
<1>6. ASSUME NEW h \in Handlers, ShoreDone(h) PROVE Homes'
  BY <1>6 DEF ShoreDone, Goto
<1>7. ASSUME NEW r \in Reqs, Collect(r) PROVE Homes'
  BY <1>7 DEF Collect, Goto
<1>8. ASSUME NEW r \in Reqs, TimeOut(r) PROVE Homes'
  BY <1>8 DEF TimeOut, Goto
<1>9. ASSUME NEW r \in Reqs, ReadBody(r) \/ CancelPendingRequest(r)
      PROVE Homes'
  BY <1>9 DEF ReadBody, CancelPendingRequest, Goto
<1>10. ASSUME NEW s \in Streams, RefuseStream(s) PROVE Homes'
  BY <1>10 DEF RefuseStream, Goto
<1>11. ASSUME NEW s \in Streams, StreamOver(s) PROVE Homes'
  BY <1>11 DEF StreamOver, Goto
<1>12. ASSUME NEW s \in Streams, ClientLeaves(s) PROVE Homes'
  BY <1>12 DEF ClientLeaves, Goto
<1>13. ASSUME NEW s \in Streams, CloseLeft(s) PROVE Homes'
  BY <1>13 DEF CloseLeft, Goto
<1>14. ASSUME NEW h \in Handlers, NEW c \in Conns, Resolve(h, c) PROVE Homes'
  BY <1>14 DEF Resolve, Goto
<1>15. ASSUME NEW s \in Streams, ForwardFrame(s) PROVE Homes'
  BY <1>15 DEF ForwardFrame
<1>16. ASSUME NEW c \in Conns, NEW h \in Handlers,
             ReadResponse(c, h) \/ ReadFrame(c, h) \/ ReadEnd(c, h)
      PROVE Homes'
  BY <1>16 DEF ReadResponse, ReadFrame, ReadEnd, CanRead, Known, LoopTo,
         Pass
<1>17. ASSUME NEW c \in Conns,
             \/ DeliverResponse(c) \/ DeliverFrame(c) \/ CloseEnded(c)
             \/ TakeWriterForPong(c) \/ PongOk(c) \/ SendOnClosed(c)
             \/ PongFails(c) \/ ReadFails(c) \/ ReadPing(c)
             \/ CloseAfterLoop(c)
      PROVE Homes'
  BY <1>17 DEF DeliverResponse, DeliverFrame, CloseEnded,
         TakeWriterForPong, PongOk, SendOnClosed, PongFails, ReadFails,
         ReadPing, CloseAfterLoop, CanRead, LoopTo, Pass
<1>18. ASSUME NEW c \in Conns, NEW S \in SUBSET Conns,
             Start(c, S)
      PROVE Homes'
  BY <1>18 DEF Start, LoopTo
<1>19. ASSUME NEW c \in Conns, NEW how \in {"silent", "down"},
             TunLinkFails(c, how)
      PROVE Homes'
  BY <1>19 DEF TunLinkFails
<1>20. ASSUME NEW S \in SUBSET Conns, Close(S) PROVE Homes'
  BY <1>20 DEF Close
<1>21. CASE UNCHANGED tunVars
  BY <1>21 DEF tunVars
<1> HIDE DEF Types, Homes, maps, channels, reader, socket
<1> QED
  BY <1>1, <1>2, <1>3, <1>4, <1>5, <1>6, <1>7, <1>8, <1>9, <1>10, <1>11,
     <1>12, <1>13, <1>14, <1>15, <1>16, <1>17, <1>18, <1>19, <1>20, <1>21,
     TunCases

LEMMA NoLeakStep ==
  ASSUME TunInv, [TunNext]_tunVars PROVE NoLeak'
<1> Types /\ NoLeak /\ Homes /\ Responses /\ Endings BY TypesHold DEF TunInv
<1> USE DEF Types, NoLeak, Homes, Responses, Endings, maps, channels, reader, socket
<1>1. ASSUME NEW h \in Handlers, Enqueue(h) PROVE NoLeak'
  BY <1>1 DEF Enqueue, Goto
<1>2. ASSUME NEW h \in Handlers, TakeWriter(h) PROVE NoLeak'
  BY <1>2 DEF TakeWriter, Goto
<1>3. ASSUME NEW h \in Handlers, WriteOk(h) PROVE NoLeak'
  BY <1>3 DEF WriteOk, Goto
<1>4. ASSUME NEW h \in Handlers, WriteFails(h) PROVE NoLeak'
  BY <1>4 DEF WriteFails, Goto
<1>5. ASSUME NEW h \in Handlers, Unsend(h) PROVE NoLeak'
  BY <1>5 DEF Unsend, Goto
<1>6. ASSUME NEW h \in Handlers, ShoreDone(h) PROVE NoLeak'
  BY <1>6 DEF ShoreDone, Goto
<1>7. ASSUME NEW r \in Reqs, Collect(r) PROVE NoLeak'
  BY <1>7 DEF Collect, Goto
<1>8. ASSUME NEW r \in Reqs, TimeOut(r) PROVE NoLeak'
  BY <1>8 DEF TimeOut, Goto
<1>9. ASSUME NEW r \in Reqs, ReadBody(r) \/ CancelPendingRequest(r)
      PROVE NoLeak'
  BY <1>9 DEF ReadBody, CancelPendingRequest, Goto
<1>10. ASSUME NEW s \in Streams, RefuseStream(s) PROVE NoLeak'
  BY <1>10 DEF RefuseStream, Goto
<1>11. ASSUME NEW s \in Streams, StreamOver(s) PROVE NoLeak'
  BY <1>11 DEF StreamOver, Goto
<1>12. ASSUME NEW s \in Streams, ClientLeaves(s) PROVE NoLeak'
  BY <1>12 DEF ClientLeaves, Goto
<1>13. ASSUME NEW s \in Streams, CloseLeft(s) PROVE NoLeak'
  BY <1>13 DEF CloseLeft, Goto
<1>14. ASSUME NEW c \in Conns, NEW h \in Handlers, ReadResponse(c, h)
      PROVE NoLeak'
  BY <1>14 DEF ReadResponse, CanRead, Known, Pass, LoopTo
<1>15. ASSUME NEW c \in Conns, NEW h \in Handlers, ReadEnd(c, h) PROVE NoLeak'
  BY <1>15 DEF ReadEnd, CanRead, Known, Pass, LoopTo
<1>16. ASSUME NEW h \in Handlers, NEW c \in Conns, Resolve(h, c) PROVE NoLeak'
  BY <1>16 DEF Resolve, Goto
<1>17. ASSUME NEW s \in Streams, ForwardFrame(s) PROVE NoLeak'
  BY <1>17 DEF ForwardFrame
<1>18. ASSUME NEW c \in Conns, NEW h \in Handlers,
             ReadFrame(c, h)
      PROVE NoLeak'
  BY <1>18 DEF ReadFrame, CanRead, Known, LoopTo, Pass
<1>19. ASSUME NEW c \in Conns,
             \/ DeliverResponse(c) \/ DeliverFrame(c) \/ CloseEnded(c)
             \/ TakeWriterForPong(c) \/ PongOk(c) \/ SendOnClosed(c)
             \/ PongFails(c) \/ ReadFails(c) \/ ReadPing(c)
             \/ CloseAfterLoop(c)
      PROVE NoLeak'
  BY <1>19 DEF DeliverResponse, DeliverFrame, CloseEnded,
         TakeWriterForPong, PongOk, SendOnClosed, PongFails, ReadFails,
         ReadPing, CloseAfterLoop, CanRead, LoopTo, Pass
<1>20. ASSUME NEW c \in Conns, NEW S \in SUBSET Conns,
             Start(c, S)
      PROVE NoLeak'
  BY <1>20 DEF Start, LoopTo
<1>21. ASSUME NEW c \in Conns, NEW how \in {"silent", "down"},
             TunLinkFails(c, how)
      PROVE NoLeak'
  BY <1>21 DEF TunLinkFails
<1>22. ASSUME NEW S \in SUBSET Conns, Close(S) PROVE NoLeak'
  BY <1>22 DEF Close
<1>23. CASE UNCHANGED tunVars
  BY <1>23 DEF tunVars
<1> HIDE DEF Types, NoLeak, Homes, Responses, Endings, maps, channels, reader, socket
<1> QED
  BY <1>1, <1>2, <1>3, <1>4, <1>5, <1>6, <1>7, <1>8, <1>9, <1>10, <1>11,
     <1>12, <1>13, <1>14, <1>15, <1>16, <1>17, <1>18, <1>19, <1>20, <1>21,
     <1>22, <1>23, TunCases

LEMMA LoopsStep ==
  ASSUME TunInv, [TunNext]_tunVars PROVE Loops'
<1> Types /\ NoLeak /\ Loops BY TypesHold DEF TunInv
<1> USE DEF Types, Loops, NoLeak, Delivering, Unsent, maps, channels, reader, socket
<1>1. ASSUME NEW c \in Conns, NEW h \in Handlers, ReadResponse(c, h)
      PROVE Loops'
  BY <1>1 DEF ReadResponse, CanRead, Known, Pass, LoopTo
<1>2. ASSUME NEW c \in Conns, NEW h \in Handlers, ReadFrame(c, h)
      PROVE Loops'
  BY <1>2 DEF ReadFrame, CanRead, Known, Pass, LoopTo
<1>3. ASSUME NEW c \in Conns, NEW h \in Handlers, ReadEnd(c, h) PROVE Loops'
  BY <1>3 DEF ReadEnd, CanRead, Known, Pass, LoopTo
<1>4. ASSUME NEW c \in Conns, DeliverResponse(c) PROVE Loops'
  BY <1>4 DEF DeliverResponse, Pass, LoopTo
<1>5. ASSUME NEW c \in Conns, DeliverFrame(c) PROVE Loops'
  BY <1>5 DEF DeliverFrame, Pass, LoopTo
<1>6. ASSUME NEW c \in Conns, CloseEnded(c) PROVE Loops'
  BY <1>6 DEF CloseEnded, Pass, LoopTo
<1>7. ASSUME NEW c \in Conns, SendOnClosed(c) PROVE Loops'
  BY <1>7 DEF SendOnClosed, Pass, LoopTo
<1>8. ASSUME NEW h \in Handlers,
             \/ Enqueue(h) \/ TakeWriter(h) \/ WriteOk(h) \/ WriteFails(h)
             \/ Unsend(h) \/ ShoreDone(h)
      PROVE Loops'
  BY <1>8 DEF Enqueue, TakeWriter, WriteOk, WriteFails, Unsend, ShoreDone,
         Goto
<1>9. ASSUME NEW r \in Reqs,
             ReadBody(r) \/ Collect(r) \/ TimeOut(r) \/ CancelPendingRequest(r)
      PROVE Loops'
  BY <1>9 DEF ReadBody, Collect, TimeOut, CancelPendingRequest, Goto
<1>10. ASSUME NEW s \in Streams,
             \/ RefuseStream(s) \/ ForwardFrame(s) \/ StreamOver(s)
             \/ ClientLeaves(s) \/ CloseLeft(s)
      PROVE Loops'
  BY <1>10 DEF RefuseStream, ForwardFrame, StreamOver, ClientLeaves,
         CloseLeft, Goto
<1>11. ASSUME NEW c \in Conns,
             \/ TakeWriterForPong(c) \/ PongOk(c) \/ PongFails(c)
             \/ ReadFails(c) \/ ReadPing(c) \/ CloseAfterLoop(c)
      PROVE Loops'
  BY <1>11 DEF TakeWriterForPong, PongOk, PongFails, ReadFails, ReadPing,
         CloseAfterLoop, CanRead, LoopTo
<1>12. ASSUME NEW h \in Handlers, NEW c \in Conns,
             Resolve(h, c)
      PROVE Loops'
  BY <1>12 DEF Resolve, Goto
<1>13. ASSUME NEW c \in Conns, NEW S \in SUBSET Conns,
             Start(c, S)
      PROVE Loops'
  BY <1>13 DEF Start, LoopTo
<1>14. ASSUME NEW c \in Conns, NEW how \in {"silent", "down"},
             TunLinkFails(c, how)
      PROVE Loops'
  BY <1>14 DEF TunLinkFails
<1>15. ASSUME NEW S \in SUBSET Conns, Close(S) PROVE Loops'
  BY <1>15 DEF Close
<1>16. CASE UNCHANGED tunVars
  BY <1>16 DEF tunVars
<1> HIDE DEF Types, Loops, NoLeak, Delivering, Unsent, maps, channels, reader, socket
<1> QED
  BY <1>1, <1>2, <1>3, <1>4, <1>5, <1>6, <1>7, <1>8, <1>9, <1>10, <1>11,
     <1>12, <1>13, <1>14, <1>15, <1>16, TunCases

LEMMA ResponsesStep ==
  ASSUME TunInv, [TunNext]_tunVars PROVE Responses'
<1> Types /\ NoLeak /\ Loops /\ Responses BY TypesHold DEF TunInv
<1> USE DEF Types, Responses, Loops, NoLeak, Delivering, Unsent, maps, channels, reader, socket
<1>1. ASSUME NEW h \in Handlers, Enqueue(h) PROVE Responses'
  BY <1>1 DEF Enqueue, Goto
<1>2. ASSUME NEW h \in Handlers, Unsend(h) PROVE Responses'
  BY <1>2 DEF Unsend, Goto
<1>3. ASSUME NEW r \in Reqs, Collect(r) PROVE Responses'
  BY <1>3 DEF Collect, Goto
<1>4. ASSUME NEW r \in Reqs, ReadBody(r) \/ CancelPendingRequest(r)
      PROVE Responses'
  BY <1>4 DEF ReadBody, CancelPendingRequest, Goto
<1>5. ASSUME NEW c \in Conns, NEW h \in Handlers, ReadResponse(c, h)
      PROVE Responses'
  BY <1>5 DEF ReadResponse, CanRead, Known, Pass, LoopTo
<1>6. ASSUME NEW c \in Conns, NEW h \in Handlers, ReadFrame(c, h)
      PROVE Responses'
  BY <1>6 DEF ReadFrame, CanRead, Known, Pass, LoopTo
<1>7. ASSUME NEW c \in Conns, NEW h \in Handlers, ReadEnd(c, h)
      PROVE Responses'
  BY <1>7 DEF ReadEnd, CanRead, Known, Pass, LoopTo
<1>8. ASSUME NEW c \in Conns, DeliverResponse(c) PROVE Responses'
  BY <1>8 DEF DeliverResponse, Pass, LoopTo
<1>9. ASSUME NEW h \in Handlers,
             TakeWriter(h) \/ WriteOk(h) \/ WriteFails(h) \/ ShoreDone(h)
      PROVE Responses'
  BY <1>9 DEF TakeWriter, WriteOk, WriteFails, ShoreDone, Goto
<1>10. ASSUME NEW r \in Reqs, TimeOut(r) PROVE Responses'
  BY <1>10 DEF TimeOut, Goto
<1>11. ASSUME NEW s \in Streams,
             \/ RefuseStream(s) \/ ForwardFrame(s) \/ StreamOver(s)
             \/ ClientLeaves(s) \/ CloseLeft(s)
      PROVE Responses'
  BY <1>11 DEF RefuseStream, ForwardFrame, StreamOver, ClientLeaves,
         CloseLeft, Goto
<1>12. ASSUME NEW c \in Conns,
             \/ DeliverFrame(c) \/ CloseEnded(c) \/ TakeWriterForPong(c)
             \/ PongOk(c) \/ SendOnClosed(c) \/ PongFails(c) \/ ReadFails(c)
             \/ ReadPing(c) \/ CloseAfterLoop(c)
      PROVE Responses'
  BY <1>12 DEF DeliverFrame, CloseEnded, TakeWriterForPong, PongOk,
         SendOnClosed, PongFails, ReadFails, ReadPing, CloseAfterLoop,
         CanRead, LoopTo, Pass
<1>13. ASSUME NEW h \in Handlers, NEW c \in Conns,
             Resolve(h, c)
      PROVE Responses'
  BY <1>13 DEF Resolve, Goto
<1>14. ASSUME NEW c \in Conns, NEW S \in SUBSET Conns,
             Start(c, S)
      PROVE Responses'
  BY <1>14 DEF Start, LoopTo
<1>15. ASSUME NEW c \in Conns, NEW how \in {"silent", "down"},
             TunLinkFails(c, how)
      PROVE Responses'
  BY <1>15 DEF TunLinkFails
<1>16. ASSUME NEW S \in SUBSET Conns, Close(S) PROVE Responses'
  BY <1>16 DEF Close
<1>17. CASE UNCHANGED tunVars
  BY <1>17 DEF tunVars
<1> HIDE DEF Types, Responses, Loops, NoLeak, Delivering, Unsent, maps, channels, reader, socket
<1> QED
  BY <1>1, <1>2, <1>3, <1>4, <1>5, <1>6, <1>7, <1>8, <1>9, <1>10, <1>11,
     <1>12, <1>13, <1>14, <1>15, <1>16, <1>17, TunCases

LEMMA EndingsStep ==
  ASSUME TunInv, [TunNext]_tunVars PROVE Endings'
<1> Types /\ NoLeak /\ Loops /\ Endings /\ Homes BY TypesHold DEF TunInv
<1> USE DEF Types, Endings, Ending, InHand, Loops, NoLeak, Delivering, Unsent, Homes, maps, channels, reader, socket
<1>1. ASSUME NEW h \in Handlers, Enqueue(h) PROVE Endings'
  BY <1>1 DEF Enqueue, Goto
<1>2. ASSUME NEW h \in Handlers, Unsend(h) PROVE Endings'
  BY <1>2 DEF Unsend, Goto
<1>3. ASSUME NEW s \in Streams, ClientLeaves(s) PROVE Endings'
  BY <1>3 DEF ClientLeaves, Goto
<1>4. ASSUME NEW s \in Streams, CloseLeft(s) PROVE Endings'
  BY <1>4 DEF CloseLeft, Goto
<1>5. ASSUME NEW c \in Conns, NEW h \in Handlers, ReadResponse(c, h)
      PROVE Endings'
  BY <1>5 DEF ReadResponse, CanRead, Known, Pass, LoopTo
<1>6. ASSUME NEW c \in Conns, NEW h \in Handlers, ReadFrame(c, h)
      PROVE Endings'
  BY <1>6 DEF ReadFrame, CanRead, Known, Pass, LoopTo
<1>7. ASSUME NEW c \in Conns, NEW h \in Handlers, ReadEnd(c, h)
      PROVE Endings'
  BY <1>7 DEF ReadEnd, CanRead, Known, Pass, LoopTo
<1>8. ASSUME NEW c \in Conns, DeliverResponse(c) PROVE Endings'
  BY <1>8 DEF DeliverResponse, Pass, LoopTo
<1>9. ASSUME NEW c \in Conns, DeliverFrame(c) PROVE Endings'
  BY <1>9 DEF DeliverFrame, Pass, LoopTo
<1>10. ASSUME NEW c \in Conns, CloseEnded(c) PROVE Endings'
  BY <1>10 DEF CloseEnded, Pass, LoopTo
<1>11. ASSUME NEW c \in Conns, SendOnClosed(c) PROVE Endings'
  BY <1>11 DEF SendOnClosed, Pass, LoopTo
<1>12. ASSUME NEW h \in Handlers,
             TakeWriter(h) \/ WriteOk(h) \/ WriteFails(h) \/ ShoreDone(h)
      PROVE Endings'
  BY <1>12 DEF TakeWriter, WriteOk, WriteFails, ShoreDone, Goto
<1>13. ASSUME NEW r \in Reqs,
             ReadBody(r) \/ Collect(r) \/ TimeOut(r) \/ CancelPendingRequest(r)
      PROVE Endings'
  BY <1>13 DEF ReadBody, Collect, TimeOut, CancelPendingRequest, Goto
<1>14. ASSUME NEW s \in Streams,
             RefuseStream(s) \/ ForwardFrame(s) \/ StreamOver(s)
      PROVE Endings'
  BY <1>14 DEF RefuseStream, ForwardFrame, StreamOver, Goto
<1>15. ASSUME NEW c \in Conns,
             \/ TakeWriterForPong(c) \/ PongOk(c) \/ PongFails(c)
             \/ ReadFails(c) \/ ReadPing(c) \/ CloseAfterLoop(c)
      PROVE Endings'
  BY <1>15 DEF TakeWriterForPong, PongOk, PongFails, ReadFails, ReadPing,
         CloseAfterLoop, CanRead, LoopTo
<1>16. ASSUME NEW h \in Handlers, NEW c \in Conns,
             Resolve(h, c)
      PROVE Endings'
  BY <1>16 DEF Resolve, Goto
<1>17. ASSUME NEW c \in Conns, NEW S \in SUBSET Conns,
             Start(c, S)
      PROVE Endings'
  BY <1>17 DEF Start, LoopTo
<1>18. ASSUME NEW c \in Conns, NEW how \in {"silent", "down"},
             TunLinkFails(c, how)
      PROVE Endings'
  BY <1>18 DEF TunLinkFails
<1>19. ASSUME NEW S \in SUBSET Conns, Close(S) PROVE Endings'
  BY <1>19 DEF Close
<1>20. CASE UNCHANGED tunVars
  BY <1>20 DEF tunVars
<1> HIDE DEF Types, Endings, Ending, InHand, Loops, NoLeak, Delivering, Unsent, Homes, maps, channels, reader, socket
<1> QED
  BY <1>1, <1>2, <1>3, <1>4, <1>5, <1>6, <1>7, <1>8, <1>9, <1>10, <1>11,
     <1>12, <1>13, <1>14, <1>15, <1>16, <1>17, <1>18, <1>19, <1>20,
     TunCases

LEMMA WritersStep ==
  ASSUME TunInv, [TunNext]_tunVars PROVE Writers'
<1> Types /\ Writers /\ Homes BY TypesHold DEF TunInv
<1> USE DEF Types, Writers, Homes, maps, channels, reader, socket
<1>1. ASSUME NEW h \in Handlers, TakeWriter(h) PROVE Writers'
  BY <1>1 DEF TakeWriter, Goto
<1>2. ASSUME NEW h \in Handlers, WriteOk(h) PROVE Writers'
  BY <1>2 DEF WriteOk, Goto
<1>3. ASSUME NEW h \in Handlers, WriteFails(h) PROVE Writers'
  BY <1>3 DEF WriteFails, Goto
<1>4. ASSUME NEW c \in Conns, TakeWriterForPong(c) PROVE Writers'
  BY <1>4 DEF TakeWriterForPong, LoopTo
<1>5. ASSUME NEW c \in Conns, PongOk(c) PROVE Writers'
  BY <1>5 DEF PongOk, LoopTo
<1>6. ASSUME NEW c \in Conns, PongFails(c) PROVE Writers'
  BY <1>6 DEF PongFails, LoopTo
<1>7. ASSUME NEW h \in Handlers, NEW c \in Conns, Resolve(h, c)
      PROVE Writers'
  BY <1>7 DEF Resolve, Goto
<1>8. ASSUME NEW h \in Handlers,
             Enqueue(h) \/ Unsend(h) \/ ShoreDone(h)
      PROVE Writers'
  BY <1>8 DEF Enqueue, Unsend, ShoreDone, Goto
<1>9. ASSUME NEW r \in Reqs,
             ReadBody(r) \/ Collect(r) \/ TimeOut(r) \/ CancelPendingRequest(r)
      PROVE Writers'
  BY <1>9 DEF ReadBody, Collect, TimeOut, CancelPendingRequest, Goto
<1>10. ASSUME NEW s \in Streams,
             \/ RefuseStream(s) \/ ForwardFrame(s) \/ StreamOver(s)
             \/ ClientLeaves(s) \/ CloseLeft(s)
      PROVE Writers'
  BY <1>10 DEF RefuseStream, ForwardFrame, StreamOver, ClientLeaves,
         CloseLeft, Goto
<1>11. ASSUME NEW c \in Conns, NEW h \in Handlers,
             ReadResponse(c, h) \/ ReadFrame(c, h) \/ ReadEnd(c, h)
      PROVE Writers'
  BY <1>11 DEF ReadResponse, ReadFrame, ReadEnd, CanRead, Known, LoopTo,
         Pass
<1>12. ASSUME NEW c \in Conns,
             \/ DeliverResponse(c) \/ DeliverFrame(c) \/ CloseEnded(c)
             \/ SendOnClosed(c) \/ ReadFails(c) \/ ReadPing(c)
             \/ CloseAfterLoop(c)
      PROVE Writers'
  BY <1>12 DEF DeliverResponse, DeliverFrame, CloseEnded, SendOnClosed,
         ReadFails, ReadPing, CloseAfterLoop, CanRead, LoopTo, Pass
<1>13. ASSUME NEW c \in Conns, NEW S \in SUBSET Conns,
             Start(c, S)
      PROVE Writers'
  BY <1>13 DEF Start, LoopTo
<1>14. ASSUME NEW c \in Conns, NEW how \in {"silent", "down"},
             TunLinkFails(c, how)
      PROVE Writers'
  BY <1>14 DEF TunLinkFails
<1>15. ASSUME NEW S \in SUBSET Conns, Close(S) PROVE Writers'
  BY <1>15 DEF Close
<1>16. CASE UNCHANGED tunVars
  BY <1>16 DEF tunVars
<1> HIDE DEF Types, Writers, Homes, maps, channels, reader, socket
<1> QED
  BY <1>1, <1>2, <1>3, <1>4, <1>5, <1>6, <1>7, <1>8, <1>9, <1>10, <1>11,
     <1>12, <1>13, <1>14, <1>15, <1>16, TunCases

LEMMA PanicsStep ==
  ASSUME TunInv, [TunNext]_tunVars PROVE PanicHasLeaver'
<1> Types /\ PanicHasLeaver /\ Loops /\ Endings BY TypesHold DEF TunInv
<1> USE DEF Types, PanicHasLeaver, Loops, Endings, InHand, Delivering, maps, channels, reader, socket
<1>1. ASSUME NEW c \in Conns, SendOnClosed(c) PROVE PanicHasLeaver'
  BY <1>1 DEF SendOnClosed, Pass, LoopTo
<1>2. ASSUME NEW h \in Handlers,
             \/ Enqueue(h) \/ TakeWriter(h) \/ WriteOk(h) \/ WriteFails(h)
             \/ Unsend(h) \/ ShoreDone(h)
      PROVE PanicHasLeaver'
  BY <1>2 DEF Enqueue, TakeWriter, WriteOk, WriteFails, Unsend, ShoreDone,
         Goto
<1>3. ASSUME NEW r \in Reqs,
             ReadBody(r) \/ Collect(r) \/ TimeOut(r) \/ CancelPendingRequest(r)
      PROVE PanicHasLeaver'
  BY <1>3 DEF ReadBody, Collect, TimeOut, CancelPendingRequest, Goto
<1>4. ASSUME NEW s \in Streams,
             \/ RefuseStream(s) \/ ForwardFrame(s) \/ StreamOver(s)
             \/ ClientLeaves(s) \/ CloseLeft(s)
      PROVE PanicHasLeaver'
  BY <1>4 DEF RefuseStream, ForwardFrame, StreamOver, ClientLeaves,
         CloseLeft, Goto
<1>5. ASSUME NEW c \in Conns, NEW h \in Handlers,
             ReadResponse(c, h) \/ ReadFrame(c, h) \/ ReadEnd(c, h)
      PROVE PanicHasLeaver'
  BY <1>5 DEF ReadResponse, ReadFrame, ReadEnd, CanRead, Known, LoopTo,
         Pass
<1>6. ASSUME NEW c \in Conns,
             \/ DeliverResponse(c) \/ DeliverFrame(c) \/ CloseEnded(c)
             \/ TakeWriterForPong(c) \/ PongOk(c) \/ PongFails(c)
             \/ ReadFails(c) \/ ReadPing(c) \/ CloseAfterLoop(c)
      PROVE PanicHasLeaver'
  BY <1>6 DEF DeliverResponse, DeliverFrame, CloseEnded,
         TakeWriterForPong, PongOk, PongFails, ReadFails, ReadPing,
         CloseAfterLoop, CanRead, LoopTo, Pass
<1>7. ASSUME NEW h \in Handlers, NEW c \in Conns,
             Resolve(h, c)
      PROVE PanicHasLeaver'
  BY <1>7 DEF Resolve, Goto
<1>8. ASSUME NEW c \in Conns, NEW S \in SUBSET Conns,
             Start(c, S)
      PROVE PanicHasLeaver'
  BY <1>8 DEF Start, LoopTo
<1>9. ASSUME NEW c \in Conns, NEW how \in {"silent", "down"},
             TunLinkFails(c, how)
      PROVE PanicHasLeaver'
  BY <1>9 DEF TunLinkFails
<1>10. ASSUME NEW S \in SUBSET Conns, Close(S) PROVE PanicHasLeaver'
  BY <1>10 DEF Close
<1>11. CASE UNCHANGED tunVars
  BY <1>11 DEF tunVars
<1> HIDE DEF Types, PanicHasLeaver, Loops, Endings, InHand, Delivering, maps, channels, reader, socket
<1> QED
  BY <1>1, <1>2, <1>3, <1>4, <1>5, <1>6, <1>7, <1>8, <1>9, <1>10, <1>11,
     TunCases

-----------------------------------------------------------------------------
(* Frames *)

(* A frame that waits is passed on.                                        *)
LEMMA LedgerPasses ==
  ASSUME NEW g \in Seq(Nat), NEW f \in Seq(Nat), NEW l \in Nat, NEW n \in Nat,
         Ledger(g, f, l, n), f # <<>>
  PROVE  /\ Ledger(Append(g, Head(f)), Tail(f), l, n)
         /\ Settled(g, f, l, n) => Settled(Append(g, Head(f)), Tail(f), l, n)
<1> DEFINE G == Append(g, Head(f))
           F == Tail(f)
<1>1. /\ Len(f) \in Nat /\ Len(f) >= 1 /\ Len(g) \in Nat
      /\ \A i \in 1 .. Len(f) : f[i] \in Nat
      /\ \A i \in 1 .. Len(g) : g[i] \in Nat
  OBVIOUS
<1>2. Len(F) = Len(f) - 1 /\ \A i \in 1 .. Len(f) - 1 : F[i] = f[i + 1]
  OBVIOUS
<1>3. /\ Len(G) = Len(g) + 1 /\ G[Len(g) + 1] = f[1]
      /\ \A i \in 1 .. Len(g) : G[i] = g[i]
  OBVIOUS
<1> HIDE DEF G, F
<1>4. Increasing(G)
  <2> SUFFICES ASSUME NEW i \in 1 .. Len(G), NEW j \in 1 .. Len(G), i < j
               PROVE  G[i] < G[j]
    BY DEF Increasing
  <2>1. CASE j \in 1 .. Len(g)
    <3>1. i \in 1 .. Len(g) /\ G[i] = g[i] /\ G[j] = g[j]
      BY <2>1, <1>1, <1>3
    <3> QED BY <3>1, <2>1 DEF Ledger, Increasing
  <2>2. CASE j = Len(g) + 1
    <3>1. i \in 1 .. Len(g) /\ 1 \in 1 .. Len(f) BY <2>2, <1>1, <1>3
    <3> QED BY <3>1, <2>2, <1>3 DEF Ledger
  <2> QED BY <2>1, <2>2, <1>1, <1>3
<1>5. Increasing(F)
  <2> SUFFICES ASSUME NEW i \in 1 .. Len(F), NEW j \in 1 .. Len(F), i < j
               PROVE  F[i] < F[j]
    BY DEF Increasing
  <2>1. /\ i + 1 \in 1 .. Len(f) /\ j + 1 \in 1 .. Len(f) /\ i + 1 < j + 1
        /\ F[i] = f[i + 1] /\ F[j] = f[j + 1]
    BY <1>1, <1>2
  <2> QED BY <2>1 DEF Ledger, Increasing
<1>6. ASSUME NEW j \in 1 .. Len(F)
      PROVE  F[j] <= n /\ F[j] > f[1] /\ \A i \in 1 .. Len(g) : g[i] < F[j]
  <2>1. /\ 1 \in 1 .. Len(f) /\ j + 1 \in 1 .. Len(f) /\ 1 < j + 1
        /\ F[j] = f[j + 1]
    BY <1>1, <1>2
  <2>2. f[1] < f[j + 1] BY <2>1 DEF Ledger, Increasing
  <2> QED BY <2>1, <2>2, <1>1 DEF Ledger
<1>7. \A i \in 1 .. Len(G) : G[i] <= n
  <2>1. f[1] <= n BY <1>1 DEF Ledger
  <2> QED BY <2>1, <1>1, <1>3 DEF Ledger
<1>8. \A i \in 1 .. Len(G), j \in 1 .. Len(F) : G[i] < F[j]
  <2> SUFFICES ASSUME NEW i \in 1 .. Len(G), NEW j \in 1 .. Len(F)
               PROVE  G[i] < F[j]
    OBVIOUS
  <2>1. CASE i \in 1 .. Len(g) BY <2>1, <1>3, <1>6
  <2>2. CASE i = Len(g) + 1
    <3>1. F[j] > f[1] /\ j + 1 \in 1 .. Len(f) /\ F[j] = f[j + 1]
      BY <1>1, <1>2, <1>6
    <3>2. 1 \in 1 .. Len(f) BY <1>1
    <3> QED BY <2>2, <3>1, <3>2, <1>1, <1>3
  <2> QED BY <2>1, <2>2, <1>1, <1>3
<1>9. ASSUME Settled(g, f, l, n) PROVE Settled(G, F, l, n)
  <2>1. /\ Len(f) \in Nat /\ Len(g) \in Nat
        /\ Len(G) = Len(g) + 1 /\ Len(F) = Len(f) - 1
    BY <1>1, <1>2, <1>3
  <2>2. Len(G) + Len(F) = Len(g) + Len(f) BY <2>1
  <2> QED BY <2>2, <1>9 DEF Settled
<1>10. Len(G) + Len(F) + l <= n BY <1>1, <1>2, <1>3 DEF Ledger
<1> QED BY <1>4, <1>5, <1>6, <1>7, <1>8, <1>9, <1>10 DEF G, F, Ledger

(* A frame comes and is kept, or comes and is lost, or comes and is        *)
(* neither: the channel is closed.                                         *)
LEMMA LedgerKeeps ==
  ASSUME NEW g \in Seq(Nat), NEW f \in Seq(Nat), NEW l \in Nat, NEW n \in Nat,
         Ledger(g, f, l, n)
  PROVE  /\ Ledger(g, Append(f, n + 1), l, n + 1)
         /\ Settled(g, f, l, n) => Settled(g, Append(f, n + 1), l, n + 1)
<1> DEFINE F == Append(f, n + 1)
<1>1. /\ Len(F) = Len(f) + 1 /\ F[Len(f) + 1] = n + 1
      /\ \A i \in 1 .. Len(f) : F[i] = f[i]
  OBVIOUS
<1>2. /\ Len(f) \in Nat /\ Len(g) \in Nat
      /\ \A i \in 1 .. Len(f) : f[i] \in Nat
      /\ \A i \in 1 .. Len(g) : g[i] \in Nat
  OBVIOUS
<1> HIDE DEF F
<1>3. Increasing(F)
  <2> SUFFICES ASSUME NEW i \in 1 .. Len(F), NEW j \in 1 .. Len(F), i < j
               PROVE  F[i] < F[j]
    BY DEF Increasing
  <2>0. j \in 1 .. Len(f) + 1 /\ i \in 1 .. Len(f) + 1 BY <1>1
  <2>3. j \in 1 .. Len(f) \/ j = Len(f) + 1
    <3>1. Len(f) \in Nat BY <1>2
    <3> QED BY <3>1, <2>0, SMTT(30)
  <2>1. CASE j \in 1 .. Len(f)
    <3>1. i \in 1 .. Len(f) /\ F[i] = f[i] /\ F[j] = f[j]
      BY <2>0, <2>1, <1>1, <1>2
    <3> QED BY <3>1, <2>1 DEF Ledger, Increasing
  <2>2. CASE j = Len(f) + 1
    <3>1. i \in 1 .. Len(f) BY <2>2, <1>1, <1>2
    <3>2. f[i] <= n BY <3>1 DEF Ledger
    <3> QED BY <3>1, <3>2, <2>2, <1>1, <1>2
  <2> QED BY <2>1, <2>2, <2>3
<1>4. ASSUME NEW j \in 1 .. Len(F)
      PROVE  F[j] <= n + 1 /\ \A i \in 1 .. Len(g) : g[i] < F[j]
  <2>0. j \in 1 .. Len(f) \/ j = Len(f) + 1 BY <1>1, <1>2
  <2>1. CASE j \in 1 .. Len(f)
    <3>1. f[j] <= n /\ F[j] = f[j] /\ f[j] \in Nat BY <2>1, <1>1, <1>2 DEF Ledger
    <3> QED BY <2>1, <3>1 DEF Ledger
  <2>2. CASE j = Len(f) + 1
    <3>1. F[j] = n + 1 BY <2>2, <1>1
    <3>2. \A i \in 1 .. Len(g) : g[i] <= n BY DEF Ledger
    <3> QED BY <3>1, <3>2, <1>2
  <2> QED BY <2>0, <2>1, <2>2
<1>5. \A i \in 1 .. Len(g) : g[i] <= n + 1 BY <1>2 DEF Ledger
<1>6. Len(g) + Len(F) + l <= n + 1 BY <1>1, <1>2 DEF Ledger
<1>7. ASSUME Settled(g, f, l, n) PROVE Settled(g, F, l, n + 1)
  <2>1. Len(f) \in Nat /\ Len(g) \in Nat /\ Len(F) = Len(f) + 1
    BY <1>1, <1>2
  <2> QED BY <2>1, <1>7 DEF Settled
<1> QED BY <1>3, <1>4, <1>5, <1>6, <1>7 DEF F, Ledger

LEMMA LedgerLoses ==
  ASSUME NEW g \in Seq(Nat), NEW f \in Seq(Nat), NEW l \in Nat, NEW n \in Nat,
         Ledger(g, f, l, n)
  PROVE  /\ Ledger(g, f, l + 1, n + 1) /\ Ledger(g, f, l, n + 1)
         /\ Settled(g, f, l, n) => Settled(g, f, l + 1, n + 1)
<1>1. /\ Len(f) \in Nat /\ Len(g) \in Nat
      /\ \A i \in 1 .. Len(f) : f[i] \in Nat
      /\ \A i \in 1 .. Len(g) : g[i] \in Nat
  OBVIOUS
<1> QED BY <1>1 DEF Ledger, Settled

(* Steps that touch no frame: nothing is sent, kept, lost or passed on,    *)
(* the read loops hold the frames they held, and no browser comes back.    *)
Alone ==
  /\ UNCHANGED <<got, frames, lost, sent>>
  /\ \A c \in Conns : /\ loop'[c] = "framing" <=> loop[c] = "framing"
                      /\ loop[c] = "framing" => item'[c] = item[c]
  /\ \A s \in Streams : hpc[s] = "left" => hpc'[s] = "left"

(* Those that do.                                                          *)
Moves ==
  \/ \E s \in Streams : ForwardFrame(s)
  \/ \E c \in Conns, s \in Streams : ReadFrame(c, s)
  \/ \E c \in Conns : DeliverFrame(c) \/ SendOnClosed(c)

LEMMA FramesAlone ==
  ASSUME TunInv, [TunNext]_tunVars PROVE Alone \/ Moves
<1> Types BY TypesHold
<1> USE DEF Types, Alone, maps, channels, reader, socket
<1>1. ASSUME NEW s \in Streams, ForwardFrame(s) PROVE Alone \/ Moves
  BY <1>1 DEF Moves
<1>2. ASSUME NEW c \in Conns, NEW h \in Handlers, ReadFrame(c, h)
      PROVE Alone \/ Moves
  BY <1>2 DEF ReadFrame, Moves
<1>3. ASSUME NEW c \in Conns, DeliverFrame(c) PROVE Alone \/ Moves
  BY <1>3 DEF Moves
<1>4. ASSUME NEW c \in Conns, SendOnClosed(c) PROVE Alone \/ Moves
  BY <1>4 DEF Moves
<1>5. ASSUME NEW h \in Handlers,
             \/ Enqueue(h) \/ TakeWriter(h) \/ WriteOk(h) \/ WriteFails(h)
             \/ Unsend(h) \/ ShoreDone(h)
      PROVE Alone \/ Moves
  BY <1>5 DEF Enqueue, TakeWriter, WriteOk, WriteFails, Unsend, ShoreDone,
         Goto
<1>6. ASSUME NEW r \in Reqs,
             ReadBody(r) \/ Collect(r) \/ TimeOut(r) \/ CancelPendingRequest(r)
      PROVE Alone \/ Moves
  BY <1>6 DEF ReadBody, Collect, TimeOut, CancelPendingRequest, Goto
<1>7. ASSUME NEW s \in Streams,
             \/ RefuseStream(s) \/ StreamOver(s) \/ ClientLeaves(s)
             \/ CloseLeft(s)
      PROVE Alone \/ Moves
  BY <1>7 DEF RefuseStream, StreamOver, ClientLeaves, CloseLeft, Goto
<1>8. ASSUME NEW c \in Conns, NEW h \in Handlers,
             ReadResponse(c, h) \/ ReadEnd(c, h)
      PROVE Alone \/ Moves
  BY <1>8 DEF ReadResponse, ReadEnd, CanRead, Known, LoopTo, Pass
<1>9. ASSUME NEW c \in Conns,
             \/ DeliverResponse(c) \/ CloseEnded(c) \/ TakeWriterForPong(c)
             \/ PongOk(c) \/ PongFails(c) \/ ReadFails(c) \/ ReadPing(c)
             \/ CloseAfterLoop(c)
      PROVE Alone \/ Moves
  BY <1>9 DEF DeliverResponse, CloseEnded, TakeWriterForPong, PongOk,
         PongFails, ReadFails, ReadPing, CloseAfterLoop, CanRead, LoopTo,
         Pass
<1>10. ASSUME NEW h \in Handlers, NEW c \in Conns,
             Resolve(h, c)
      PROVE Alone \/ Moves
  BY <1>10 DEF Resolve, Goto
<1>11. ASSUME NEW c \in Conns, NEW S \in SUBSET Conns,
             Start(c, S)
      PROVE Alone \/ Moves
  BY <1>11 DEF Start, LoopTo
<1>12. ASSUME NEW c \in Conns, NEW how \in {"silent", "down"},
             TunLinkFails(c, how)
      PROVE Alone \/ Moves
  BY <1>12 DEF TunLinkFails
<1>13. ASSUME NEW S \in SUBSET Conns, Close(S) PROVE Alone \/ Moves
  BY <1>13 DEF Close
<1>14. CASE UNCHANGED tunVars
  BY <1>14 DEF tunVars
<1> HIDE DEF Types, Alone, maps, channels, reader, socket
<1> QED
  BY <1>1, <1>2, <1>3, <1>4, <1>5, <1>6, <1>7, <1>8, <1>9, <1>10, <1>11,
     <1>12, <1>13, <1>14, TunCases

LEMMA NotBelow ==
  ASSUME NEW a \in Nat, NEW b \in Nat, NEW l \in Nat, NEW n \in Nat, a + b + l <= n - 1
  PROVE  n - 1 \in Nat
OBVIOUS

(* How much has come of a stream.                                          *)
LEMMA CountedSteps ==
  ASSUME Alone PROVE \A s \in Streams : Counted(s)' = Counted(s)
BY DEF Alone, Counted, InHand

LEMMA Numbers ==
  ASSUME TunInv, NEW s \in Streams
  PROVE  /\ Counted(s) \in Nat /\ Counted(s) <= sent[s] /\ sent[s] <= MaxFrames
         /\ got[s] \in Seq(Nat) /\ frames[s] \in Seq(Nat) /\ lost[s] \in Nat
         /\ sent[s] \in Nat /\ MaxFrames \in Nat
         /\ Len(got[s]) \in Nat /\ Len(frames[s]) \in Nat
<1>1. /\ MaxFrames \in Nat /\ got[s] \in Seq(1 .. MaxFrames)
      /\ frames[s] \in Seq(1 .. MaxFrames)
      /\ lost[s] \in 0 .. MaxFrames /\ sent[s] \in 0 .. MaxFrames
  BY TunnelAssumption DEF TunInv, TunTypeOK
<1>2. 1 .. MaxFrames \subseteq Nat BY <1>1
<1>3. got[s] \in Seq(Nat) /\ frames[s] \in Seq(Nat) BY <1>1, <1>2
<1>4. Len(got[s]) + Len(frames[s]) + lost[s] <= Counted(s)
  BY DEF TunInv, Delivered, Ledger
<1>5. Len(got[s]) \in Nat /\ Len(frames[s]) \in Nat BY <1>3
<1>6. Counted(s) \in Nat /\ Counted(s) <= sent[s]
  <2>1. CASE InHand(s)
    <3>1. Counted(s) = sent[s] - 1 BY <2>1 DEF Counted
    <3>2. lost[s] \in Nat /\ sent[s] \in Nat BY <1>1
    <3>3. Counted(s) \in Nat BY <3>1, <3>2, <1>4, <1>5, NotBelow
    <3> QED BY <3>1, <3>2, <3>3
  <2>2. CASE ~InHand(s)
    <3>1. Counted(s) = sent[s] BY <2>2 DEF Counted
    <3> QED BY <3>1, <1>1
  <2> QED BY <2>1, <2>2
<1> QED BY <1>1, <1>3, <1>5, <1>6

(* A frame that is read is first in the read loop's hand, and counts when  *)
(* that opens; a stream's frames are read by its own connection alone.     *)
LEMMA ReadFrameCounts ==
  ASSUME TunInv, NEW c \in Conns, NEW s \in Streams, ReadFrame(c, s)
  PROVE  \A t \in Streams : Counted(t)' = Counted(t)
<1> Types /\ NoLeak /\ Loops BY TypesHold DEF TunInv
<1>1. /\ loop[c] = "reading" /\ s \in streams[c] /\ sent' = [sent EXCEPT ![s] = @ + 1]
      /\ loop' = [loop EXCEPT ![c] = "framing"] /\ item' = [item EXCEPT ![c] = s]
  BY DEF ReadFrame, CanRead, Pass, LoopTo
<1>2. target[s] = c BY <1>1 DEF NoLeak
<1>3. ~InHand(s) BY <1>1, <1>2 DEF InHand, Loops, Delivering
<1>4. ASSUME NEW t \in Streams PROVE Counted(t)' = Counted(t)
  <2>1. InHand(t)' <=> InHand(t) \/ t = s BY <1>1 DEF InHand, Types
  <2>2. sent \in [Streams -> 0 .. MaxFrames] BY DEF TunInv, TunTypeOK
  <2>3. sent[t] \in Nat BY Numbers
  <2>4. CASE t = s
    <3>1. sent'[t] = sent[t] + 1 BY <1>1, <2>2, <2>4
    <3> QED BY <3>1, <1>3, <2>1, <2>3, <2>4 DEF Counted
  <2>5. CASE t # s
    <3>1. sent'[t] = sent[t] BY <1>1, <2>2, <2>5
    <3> QED BY <3>1, <2>1, <2>5 DEF Counted
  <2> QED BY <2>4, <2>5
<1> QED BY <1>4

LEMMA HandOpens ==
  ASSUME TunInv, NEW c \in Conns, DeliverFrame(c) \/ SendOnClosed(c),
         NEW s, s = item[c]
  PROVE  /\ s \in Streams /\ loop[c] = "framing" /\ UNCHANGED sent
         /\ \A t \in Streams \ {s} : Counted(t)' = Counted(t)
         /\ sent[s] = Counted(s) + 1 /\ Counted(s)' = Counted(s) + 1
<1> Types /\ Loops BY TypesHold DEF TunInv
<1>1. /\ loop[c] = "framing" /\ UNCHANGED sent
      /\ loop'[c] # "framing" /\ item' = [item EXCEPT ![c] = Nobody]
      /\ \A d \in Conns \ {c} : loop'[d] = loop[d]
  BY DEF DeliverFrame, SendOnClosed, Pass, LoopTo, channels, Types
<1>2. s \in Streams /\ target[s] = c BY <1>1 DEF Loops, Delivering
<1>3. \A d \in Conns : loop[d] = "framing" /\ item[d] = s => d = c
  BY <1>2 DEF Loops, Delivering
<1>4. ASSUME NEW t \in Streams \ {s} PROVE Counted(t)' = Counted(t)
  <2>1. InHand(t)' <=> InHand(t) BY <1>1 DEF InHand, Types
  <2> QED BY <2>1, <1>1 DEF Counted
<1>5. ~InHand(s)' BY <1>1, <1>2, <1>3 DEF InHand, Types
<1>6. InHand(s) BY <1>1 DEF InHand
<1>7. sent[s] \in Nat /\ Counted(s) \in Nat BY <1>2, Numbers
<1>8. Counted(s) = sent[s] - 1 /\ Counted(s)' = sent'[s]
  BY <1>5, <1>6 DEF Counted
<1> QED BY <1>1, <1>2, <1>4, <1>7, <1>8

LEMMA DeliveredStep ==
  ASSUME TunInv, [TunNext]_tunVars PROVE Delivered'
<1> Types /\ Delivered /\ Loops /\ Endings BY TypesHold DEF TunInv
<1>1. CASE Alone
  <2>1. \A s \in Streams : Counted(s)' = Counted(s) BY <1>1, CountedSteps
  <2> QED BY <1>1, <2>1 DEF Delivered, Alone
<1>2. ASSUME NEW s \in Streams, ForwardFrame(s) PROVE Delivered'
  <2>1. /\ got' = [got EXCEPT ![s] = Append(@, Head(frames[s]))]
        /\ frames' = [frames EXCEPT ![s] = Tail(@)]
        /\ frames[s] # <<>> /\ UNCHANGED <<hpc, sent, lost, loop, item>>
    BY <1>2 DEF ForwardFrame, channels, reader
  <2>2. \A t \in Streams : Counted(t)' = Counted(t) BY <2>1 DEF Counted, InHand
  <2>3. got \in [Streams -> Seq(1 .. MaxFrames)] /\ frames \in [Streams -> Seq(1 .. MaxFrames)]
    BY DEF TunInv, TunTypeOK
  <2>4. ASSUME NEW t \in Streams
        PROVE  /\ Ledger(got[t], frames[t], lost[t], Counted(t))'
               /\ (hpc[t] # "left" => Settled(got[t], frames[t], lost[t], Counted(t)))'
    <3>1. CASE t # s
      <4>1. got'[t] = got[t] /\ frames'[t] = frames[t] BY <3>1, <2>1, <2>3
      <4> QED BY <4>1, <2>1, <2>2 DEF Delivered
    <3>2. CASE t = s
      <4>1. got'[s] = Append(got[s], Head(frames[s])) /\ frames'[s] = Tail(frames[s])
        BY <2>1, <2>3
      <4>2. Ledger(got[s], frames[s], lost[s], Counted(s)) BY DEF Delivered
      <4>3. /\ Counted(s) \in Nat /\ lost[s] \in Nat
            /\ got[s] \in Seq(Nat) /\ frames[s] \in Seq(Nat)
        BY Numbers
      <4>4. /\ Ledger(got'[s], frames'[s], lost[s], Counted(s))
            /\ Settled(got[s], frames[s], lost[s], Counted(s))
                 => Settled(got'[s], frames'[s], lost[s], Counted(s))
        BY <4>1, <4>2, <4>3, <2>1, LedgerPasses
      <4>5. Counted(t)' = Counted(s) /\ lost'[t] = lost[s] /\ hpc'[t] = hpc[s]
        BY <3>2, <2>1, <2>2
      <4>6. hpc[s] # "left" => Settled(got[s], frames[s], lost[s], Counted(s))
        BY DEF Delivered
      <4> QED BY <4>4, <4>5, <4>6, <3>2
    <3> QED BY <3>1, <3>2
  <2> QED BY <2>4 DEF Delivered
<1>3. ASSUME NEW c \in Conns, NEW s \in Streams, ReadFrame(c, s) PROVE Delivered'
  <2>1. UNCHANGED <<got, frames, lost, hpc>>
    BY <1>3 DEF ReadFrame
  <2>2. \A t \in Streams : Counted(t)' = Counted(t) BY <1>3, ReadFrameCounts
  <2> QED BY <2>1, <2>2 DEF Delivered
<1>4. ASSUME NEW c \in Conns, DeliverFrame(c) PROVE Delivered'
  <2>0. PICK s : s = item[c] OBVIOUS
  <2>1. /\ s \in Streams /\ UNCHANGED <<got, hpc>>
        /\ \/ frames' = [frames EXCEPT ![s] = Append(@, sent[s])] /\ UNCHANGED lost
           \/ lost' = [lost EXCEPT ![s] = @ + 1] /\ UNCHANGED frames
    BY <1>4, <2>0, HandOpens DEF DeliverFrame
  <2>2. /\ \A t \in Streams \ {s} : Counted(t)' = Counted(t)
        /\ sent[s] = Counted(s) + 1 /\ Counted(s)' = Counted(s) + 1
    BY <1>4, <2>0, HandOpens
  <2>3. frames \in [Streams -> Seq(1 .. MaxFrames)] /\ lost \in [Streams -> 0 .. MaxFrames]
    BY DEF TunInv, TunTypeOK
  <2>4. ASSUME NEW t \in Streams
        PROVE  /\ Ledger(got[t], frames[t], lost[t], Counted(t))'
               /\ (hpc[t] # "left" => Settled(got[t], frames[t], lost[t], Counted(t)))'
    <3>1. CASE t # s
      <4>1. lost'[t] = lost[t] /\ frames'[t] = frames[t] BY <3>1, <2>1, <2>3
      <4>2. Counted(t)' = Counted(t) BY <3>1, <2>2
      <4> QED BY <4>1, <4>2, <2>1 DEF Delivered
    <3>2. CASE t = s
      <4>1. \/ frames'[s] = Append(frames[s], Counted(s) + 1) /\ lost'[s] = lost[s]
            \/ frames'[s] = frames[s] /\ lost'[s] = lost[s] + 1
        BY <2>1, <2>2, <2>3
      <4>2. Ledger(got[s], frames[s], lost[s], Counted(s)) BY <2>1 DEF Delivered
      <4>3. /\ Ledger(got[s], frames'[s], lost'[s], Counted(s) + 1)
            /\ Settled(got[s], frames[s], lost[s], Counted(s))
                 => Settled(got[s], frames'[s], lost'[s], Counted(s) + 1)
        <5>1. /\ Counted(s) \in Nat /\ lost[s] \in Nat
              /\ got[s] \in Seq(Nat) /\ frames[s] \in Seq(Nat)
          BY <2>1, Numbers
        <5>2. CASE frames'[s] = Append(frames[s], Counted(s) + 1) /\ lost'[s] = lost[s]
          BY <5>1, <5>2, <4>2, LedgerKeeps
        <5>3. CASE frames'[s] = frames[s] /\ lost'[s] = lost[s] + 1
          BY <5>1, <5>3, <4>2, LedgerLoses
        <5> QED BY <5>2, <5>3, <4>1
      <4>4. hpc[s] # "left" => Settled(got[s], frames[s], lost[s], Counted(s))
        BY <2>1 DEF Delivered
      <4>5. Counted(t)' = Counted(s) + 1 /\ got'[t] = got[s] /\ hpc'[t] = hpc[s]
        BY <3>2, <2>1, <2>2
      <4> QED BY <4>3, <4>4, <4>5, <3>2
    <3> QED BY <3>1, <3>2
  <2> QED BY <2>4 DEF Delivered
<1>5. ASSUME NEW c \in Conns, SendOnClosed(c) PROVE Delivered'
  <2>0. PICK s : s = item[c] OBVIOUS
  <2>1. /\ s \in Streams /\ UNCHANGED <<got, frames, lost, hpc>>
        /\ s \in ended /\ loop[c] = "framing"
    BY <1>5, <2>0, HandOpens DEF SendOnClosed, channels
  <2>2. /\ \A t \in Streams \ {s} : Counted(t)' = Counted(t)
        /\ Counted(s)' = Counted(s) + 1
    BY <1>5, <2>0, HandOpens
  <2>3. hpc[s] = "left" BY <2>0, <2>1 DEF Endings, InHand
  <2>4. Ledger(got[s], frames[s], lost[s], Counted(s))
    BY <2>1 DEF Delivered
  <2>5. /\ Counted(s) \in Nat /\ lost[s] \in Nat
        /\ got[s] \in Seq(Nat) /\ frames[s] \in Seq(Nat)
    BY <2>1, Numbers
  <2>6. Ledger(got[s], frames[s], lost[s], Counted(s) + 1)
    BY <2>4, <2>5, LedgerLoses
  <2>7. ASSUME NEW t \in Streams
        PROVE  /\ Ledger(got[t], frames[t], lost[t], Counted(t))'
               /\ (hpc[t] # "left" => Settled(got[t], frames[t], lost[t], Counted(t)))'
    <3>1. CASE t = s BY <3>1, <2>1, <2>2, <2>3, <2>6
    <3>2. CASE t # s
      <4>1. Counted(t)' = Counted(t) BY <3>2, <2>2
      <4> QED BY <4>1, <2>1 DEF Delivered
    <3> QED BY <3>1, <3>2
  <2> QED BY <2>7 DEF Delivered
<1>6. CASE Moves
  BY <1>6, <1>2, <1>3, <1>4, <1>5 DEF Moves
<1> QED BY <1>1, <1>6, FramesAlone

LEMMA BoundsStep ==
  ASSUME TunInv, [TunNext]_tunVars PROVE Bounds'
<1> Types /\ NoLeak /\ Loops /\ Bounds BY TypesHold DEF TunInv
<1> /\ DOMAIN frames = Streams /\ DOMAIN sent = Streams
    /\ \A s \in Streams : frames[s] \in Seq(1 .. MaxFrames)
  BY DEF TunInv, TunTypeOK
<1> USE DEF Types, Bounds, NoLeak, Loops, Delivering, Unsent, maps, channels, reader, socket
<1>1. ASSUME NEW s \in Streams, ForwardFrame(s) PROVE Bounds'
  BY <1>1 DEF ForwardFrame
<1>2. ASSUME NEW s \in Streams, StreamOver(s) PROVE Bounds'
  BY <1>2 DEF StreamOver, Goto
<1>3. ASSUME NEW s \in Streams, ClientLeaves(s) PROVE Bounds'
  BY <1>3 DEF ClientLeaves, Goto
<1>4. ASSUME NEW s \in Streams, CloseLeft(s) PROVE Bounds'
  BY <1>4 DEF CloseLeft, Goto
<1>5. ASSUME NEW c \in Conns, NEW h \in Handlers, ReadFrame(c, h)
      PROVE Bounds'
  BY <1>5 DEF ReadFrame, CanRead, Known, Pass, LoopTo
<1>6. ASSUME NEW c \in Conns, DeliverFrame(c) PROVE Bounds'
  BY <1>6 DEF DeliverFrame, Pass, LoopTo
<1>7. ASSUME NEW h \in Handlers, NEW c \in Conns, Resolve(h, c) PROVE Bounds'
  BY <1>7 DEF Resolve, Goto
<1>8. ASSUME NEW h \in Handlers,
             \/ Enqueue(h) \/ TakeWriter(h) \/ WriteOk(h) \/ WriteFails(h)
             \/ Unsend(h) \/ ShoreDone(h)
      PROVE Bounds'
  BY <1>8 DEF Enqueue, TakeWriter, WriteOk, WriteFails, Unsend, ShoreDone,
         Goto
<1>9. ASSUME NEW r \in Reqs,
             ReadBody(r) \/ Collect(r) \/ TimeOut(r) \/ CancelPendingRequest(r)
      PROVE Bounds'
  BY <1>9 DEF ReadBody, Collect, TimeOut, CancelPendingRequest, Goto
<1>10. ASSUME NEW s \in Streams, RefuseStream(s) PROVE Bounds'
  BY <1>10 DEF RefuseStream, Goto
<1>11. ASSUME NEW c \in Conns, NEW h \in Handlers,
             ReadResponse(c, h) \/ ReadEnd(c, h)
      PROVE Bounds'
  BY <1>11 DEF ReadResponse, ReadEnd, CanRead, Known, LoopTo, Pass
<1>12. ASSUME NEW c \in Conns,
             \/ DeliverResponse(c) \/ CloseEnded(c) \/ TakeWriterForPong(c)
             \/ PongOk(c) \/ SendOnClosed(c) \/ PongFails(c)
             \/ ReadFails(c) \/ ReadPing(c) \/ CloseAfterLoop(c)
      PROVE Bounds'
  BY <1>12 DEF DeliverResponse, CloseEnded, TakeWriterForPong, PongOk,
         SendOnClosed, PongFails, ReadFails, ReadPing, CloseAfterLoop,
         CanRead, LoopTo, Pass
<1>13. ASSUME NEW c \in Conns, NEW S \in SUBSET Conns,
             Start(c, S)
      PROVE Bounds'
  BY <1>13 DEF Start, LoopTo
<1>14. ASSUME NEW c \in Conns, NEW how \in {"silent", "down"},
             TunLinkFails(c, how)
      PROVE Bounds'
  BY <1>14 DEF TunLinkFails
<1>15. ASSUME NEW S \in SUBSET Conns, Close(S) PROVE Bounds'
  BY <1>15 DEF Close
<1>16. CASE UNCHANGED tunVars
  BY <1>16 DEF tunVars
<1> HIDE DEF Types, Bounds, NoLeak, Loops, Delivering, Unsent, maps, channels, reader, socket
<1> QED
  BY <1>1, <1>2, <1>3, <1>4, <1>5, <1>6, <1>7, <1>8, <1>9, <1>10, <1>11,
     <1>12, <1>13, <1>14, <1>15, <1>16, TunCases

-----------------------------------------------------------------------------
(* Types *)

Placed ==
  Types /\ closed \subseteq Conns /\ link \in [Conns -> {"up", "silent", "down"}]

LEMMA PlacedStep ==
  ASSUME TunInv, [TunNext]_tunVars PROVE Placed'
<1> Placed /\ Homes /\ Loops BY TypesHold DEF TunInv, TunTypeOK, Placed
<1> USE DEF Placed, Types, Homes, Loops, Delivering, Unsent, Places, LoopPlaces, Finished, maps, channels, reader, socket
<1>1. ASSUME NEW h \in Handlers, Enqueue(h) PROVE Placed'
  BY <1>1 DEF Enqueue, Goto
<1>2. ASSUME NEW h \in Handlers, TakeWriter(h) PROVE Placed'
  BY <1>2 DEF TakeWriter, Goto
<1>3. ASSUME NEW h \in Handlers, WriteOk(h) PROVE Placed'
  BY <1>3 DEF WriteOk, Goto
<1>4. ASSUME NEW h \in Handlers, WriteFails(h) PROVE Placed'
  BY <1>4 DEF WriteFails, Goto
<1>5. ASSUME NEW h \in Handlers, Unsend(h) PROVE Placed'
  BY <1>5 DEF Unsend, Goto
<1>6. ASSUME NEW h \in Handlers, ShoreDone(h) PROVE Placed'
  BY <1>6 DEF ShoreDone, Goto
<1>7. ASSUME NEW r \in Reqs, Collect(r) PROVE Placed'
  BY <1>7 DEF Collect, Goto
<1>8. ASSUME NEW r \in Reqs, TimeOut(r) PROVE Placed'
  BY <1>8 DEF TimeOut, Goto
<1>9. ASSUME NEW r \in Reqs, ReadBody(r) \/ CancelPendingRequest(r)
      PROVE Placed'
  BY <1>9 DEF ReadBody, CancelPendingRequest, Goto
<1>10. ASSUME NEW s \in Streams, RefuseStream(s) PROVE Placed'
  BY <1>10 DEF RefuseStream, Goto
<1>11. ASSUME NEW s \in Streams, StreamOver(s) PROVE Placed'
  BY <1>11 DEF StreamOver, Goto
<1>12. ASSUME NEW s \in Streams, ClientLeaves(s) PROVE Placed'
  BY <1>12 DEF ClientLeaves, Goto
<1>13. ASSUME NEW s \in Streams, CloseLeft(s) PROVE Placed'
  BY <1>13 DEF CloseLeft, Goto
<1>14. ASSUME NEW c \in Conns, NEW h \in Handlers, ReadResponse(c, h)
      PROVE Placed'
  BY <1>14 DEF ReadResponse, CanRead, Known, Pass, LoopTo
<1>15. ASSUME NEW c \in Conns, NEW h \in Handlers, ReadFrame(c, h)
      PROVE Placed'
  BY <1>15 DEF ReadFrame, CanRead, Known, Pass, LoopTo
<1>16. ASSUME NEW c \in Conns, NEW h \in Handlers, ReadEnd(c, h) PROVE Placed'
  BY <1>16 DEF ReadEnd, CanRead, Known, Pass, LoopTo
<1>17. ASSUME NEW c \in Conns, DeliverResponse(c) PROVE Placed'
  BY <1>17 DEF DeliverResponse, Pass, LoopTo
<1>18. ASSUME NEW c \in Conns, CloseEnded(c) PROVE Placed'
  BY <1>18 DEF CloseEnded, Pass, LoopTo
<1>19. ASSUME NEW c \in Conns, TakeWriterForPong(c) PROVE Placed'
  BY <1>19 DEF TakeWriterForPong, LoopTo
<1>20. ASSUME NEW c \in Conns, PongOk(c) PROVE Placed'
  BY <1>20 DEF PongOk, LoopTo
<1>21. ASSUME NEW c \in Conns, SendOnClosed(c) PROVE Placed'
  BY <1>21 DEF SendOnClosed, Pass, LoopTo
<1>22. ASSUME NEW c \in Conns, PongFails(c) PROVE Placed'
  BY <1>22 DEF PongFails, LoopTo
<1>23. ASSUME NEW c \in Conns, ReadFails(c) PROVE Placed'
  BY <1>23 DEF ReadFails, LoopTo
<1>24. ASSUME NEW h \in Handlers, NEW c \in Conns, Resolve(h, c) PROVE Placed'
  BY <1>24 DEF Resolve, Goto
<1>25. ASSUME NEW c \in Conns, ReadPing(c) PROVE Placed'
  BY <1>25 DEF ReadPing, CanRead, LoopTo
<1>26. ASSUME NEW c \in Conns, CloseAfterLoop(c) PROVE Placed'
  BY <1>26 DEF CloseAfterLoop
<1>27. ASSUME NEW c \in Conns, NEW S \in SUBSET Conns, Start(c, S)
      PROVE Placed'
  BY <1>27 DEF Start, LoopTo
<1>28. ASSUME NEW c \in Conns, NEW how \in {"silent", "down"}, TunLinkFails(c, how)
      PROVE Placed'
  BY <1>28 DEF TunLinkFails
<1>29. ASSUME NEW S \in SUBSET Conns, Close(S) PROVE Placed'
  BY <1>29 DEF Close
<1>30. ASSUME NEW s \in Streams, ForwardFrame(s) PROVE Placed'
  BY <1>30 DEF ForwardFrame
<1>31. ASSUME NEW c \in Conns, DeliverFrame(c) PROVE Placed'
  BY <1>31 DEF DeliverFrame, LoopTo, Pass
<1>32. CASE UNCHANGED tunVars
  BY <1>32 DEF tunVars
<1> HIDE DEF Placed, Types, Homes, Loops, Delivering, Unsent, Places, LoopPlaces, Finished, maps, channels, reader, socket
<1> QED
  BY <1>1, <1>2, <1>3, <1>4, <1>5, <1>6, <1>7, <1>8, <1>9, <1>10, <1>11,
     <1>12, <1>13, <1>14, <1>15, <1>16, <1>17, <1>18, <1>19, <1>20, <1>21,
     <1>22, <1>23, <1>24, <1>25, <1>26, <1>27, <1>28, <1>29, <1>30, <1>31,
     <1>32, TunCases

LEMMA OneTaken ==
  ASSUME NEW T, NEW q \in Seq(T), q # <<>>
  PROVE  /\ Head(q) \in T /\ Tail(q) \in Seq(T)
         /\ Len(Tail(q)) = Len(q) - 1 /\ Len(q) \in Nat
OBVIOUS

LEMMA PartOf ==
  ASSUME NEW a \in Nat, NEW b \in Nat, NEW l \in Nat, NEW n \in Nat, a + b + l <= n
  PROVE  b <= n /\ l <= n
OBVIOUS

LEMMA ChannelsStep ==
  ASSUME TunInv, [TunNext]_tunVars
  PROVE  /\ frames' \in [Streams -> Seq(1 .. MaxFrames)]
         /\ \A s \in Streams : Len(frames'[s]) <= ChanCap
         /\ got' \in [Streams -> Seq(1 .. MaxFrames)]
         /\ sent' \in [Streams -> 0 .. MaxFrames]
         /\ lost' \in [Streams -> 0 .. MaxFrames]
<1> DEFINE Goods == /\ frames' \in [Streams -> Seq(1 .. MaxFrames)]
                    /\ \A s \in Streams : Len(frames'[s]) <= ChanCap
                    /\ got' \in [Streams -> Seq(1 .. MaxFrames)]
                    /\ sent' \in [Streams -> 0 .. MaxFrames]
                    /\ lost' \in [Streams -> 0 .. MaxFrames]
<1>0. /\ frames \in [Streams -> Seq(1 .. MaxFrames)]
      /\ \A s \in Streams : Len(frames[s]) <= ChanCap
      /\ got \in [Streams -> Seq(1 .. MaxFrames)]
      /\ sent \in [Streams -> 0 .. MaxFrames]
      /\ lost \in [Streams -> 0 .. MaxFrames]
      /\ MaxFrames \in Nat /\ ChanCap \in Nat
  BY TunnelAssumption DEF TunInv, TunTypeOK
<1>1. CASE Alone
  <2>1. frames' = frames /\ got' = got /\ sent' = sent /\ lost' = lost
    BY <1>1 DEF Alone
  <2> QED BY <1>0, <2>1
<1>2. ASSUME NEW s \in Streams, ForwardFrame(s) PROVE Goods
  <2>1. /\ got' = [got EXCEPT ![s] = Append(@, Head(frames[s]))]
        /\ frames' = [frames EXCEPT ![s] = Tail(@)]
        /\ frames[s] # <<>> /\ UNCHANGED <<sent, lost>>
    BY <1>2 DEF ForwardFrame
  <2>2. /\ frames[s] \in Seq(1 .. MaxFrames) /\ got[s] \in Seq(1 .. MaxFrames)
        /\ Len(frames[s]) <= ChanCap
    BY <1>0
  <2>3. /\ Head(frames[s]) \in 1 .. MaxFrames /\ Tail(frames[s]) \in Seq(1 .. MaxFrames)
        /\ Len(Tail(frames[s])) = Len(frames[s]) - 1 /\ Len(frames[s]) \in Nat
    BY <2>1, <2>2, OneTaken
  <2>4. Append(got[s], Head(frames[s])) \in Seq(1 .. MaxFrames) BY <2>2, <2>3
  <2>5. Len(Tail(frames[s])) <= ChanCap BY <2>2, <2>3, <1>0
  <2> QED BY <1>0, <2>1, <2>3, <2>4, <2>5
<1>3. ASSUME NEW c \in Conns, NEW s \in Streams, ReadFrame(c, s) PROVE Goods
  <2>1. /\ sent[s] < MaxFrames /\ sent' = [sent EXCEPT ![s] = @ + 1]
        /\ UNCHANGED <<frames, lost, got>>
    BY <1>3 DEF ReadFrame
  <2>2. sent[s] + 1 \in 0 .. MaxFrames BY <1>0, <2>1
  <2> QED BY <1>0, <2>1, <2>2
<1>4. ASSUME NEW c \in Conns, DeliverFrame(c) PROVE Goods
  <2>0. PICK s : s = item[c] OBVIOUS
  <2>1. /\ s \in Streams /\ UNCHANGED <<got, sent>>
        /\ \/ /\ Len(frames[s]) < ChanCap /\ UNCHANGED lost
              /\ frames' = [frames EXCEPT ![s] = Append(@, sent[s])]
           \/ lost' = [lost EXCEPT ![s] = @ + 1] /\ UNCHANGED frames
    BY <1>4, <2>0, HandOpens DEF DeliverFrame
  <2>2. Counted(s) \in Nat /\ sent[s] = Counted(s) + 1 BY <1>4, <2>0, <2>1, HandOpens, Numbers
  <2>3. sent[s] \in 1 .. MaxFrames
    <3>1. sent[s] \in 0 .. MaxFrames BY <1>0, <2>1
    <3> QED BY <3>1, <2>2, <1>0
  <2>4. CASE lost' = [lost EXCEPT ![s] = @ + 1] /\ UNCHANGED frames
    <3>1. Len(got[s]) + Len(frames[s]) + lost[s] <= Counted(s)
      BY <2>1 DEF TunInv, Delivered, Ledger
    <3>2. /\ Len(got[s]) \in Nat /\ Len(frames[s]) \in Nat /\ lost[s] \in Nat
          /\ sent[s] <= MaxFrames /\ MaxFrames \in Nat
      BY <2>1, Numbers
    <3>3. lost[s] <= Counted(s) BY <3>1, <3>2, <2>2, PartOf
    <3>4. lost[s] + 1 \in 0 .. MaxFrames BY <3>2, <3>3, <2>2
    <3> QED BY <1>0, <2>1, <2>4, <3>4
  <2>5. CASE /\ Len(frames[s]) < ChanCap /\ UNCHANGED lost
             /\ frames' = [frames EXCEPT ![s] = Append(@, sent[s])]
    <3>1. frames[s] \in Seq(1 .. MaxFrames) BY <1>0, <2>1
    <3>2. /\ Append(frames[s], sent[s]) \in Seq(1 .. MaxFrames)
          /\ Len(Append(frames[s], sent[s])) = Len(frames[s]) + 1
          /\ Len(frames[s]) \in Nat
      BY <3>1, <2>3
    <3>3. Len(Append(frames[s], sent[s])) <= ChanCap BY <3>2, <2>5, <1>0
    <3> QED BY <1>0, <2>1, <2>5, <3>2, <3>3
  <2> QED BY <2>1, <2>4, <2>5
<1>5. ASSUME NEW c \in Conns, SendOnClosed(c) PROVE Goods
  <2>1. frames' = frames /\ got' = got /\ sent' = sent /\ lost' = lost
    BY <1>5 DEF SendOnClosed, channels
  <2> QED BY <1>0, <2>1
<1>6. CASE Moves BY <1>6, <1>2, <1>3, <1>4, <1>5 DEF Moves
<1> QED BY <1>1, <1>6, FramesAlone

LEMMA TunStep == ASSUME TunInv, [TunNext]_tunVars PROVE TunInv'
<1>1. TunTypeOK' BY PlacedStep, ChannelsStep DEF Placed, Types, TunTypeOK
<1> QED BY <1>1, HomesStep, NoLeakStep, LoopsStep, ResponsesStep, EndingsStep,
        WritersStep, DeliveredStep, BoundsStep, PanicsStep DEF TunInv

LEMMA TunStart == ASSUME TunInit PROVE TunInv
<1>1. TunTypeOK
  BY TunnelAssumption DEF TunInit, TunTypeOK, Places, LoopPlaces, Handlers
<1>2. Homes /\ NoLeak /\ Loops /\ Responses /\ Writers /\ PanicHasLeaver
  BY TunnelAssumption
  DEF TunInit, Homes, NoLeak, Loops, Responses, Writers, PanicHasLeaver,
      Handlers, Delivering, Unsent
<1>3. Endings BY DEF TunInit, Endings, Ending, InHand, Handlers, Unsent
<1>4. Bounds BY DEF TunInit, Bounds, Unsent, Handlers
<1>5. ASSUME NEW s \in Streams PROVE Counted(s) = 0
  BY DEF TunInit, Counted, InHand
<1>6. Ledger(<<>>, <<>>, 0, 0) /\ Settled(<<>>, <<>>, 0, 0)
  BY DEF Ledger, Settled, Increasing
<1>7. Delivered BY <1>5, <1>6 DEF TunInit, Delivered
<1> QED BY <1>1, <1>2, <1>3, <1>4, <1>7 DEF TunInv

THEOREM TunnelInvariant == TunSafety => []TunInv
<1>1. TunInit => TunInv BY TunStart
<1>2. TunInv /\ [TunNext]_tunVars => TunInv' BY TunStep
<1> QED BY <1>1, <1>2, PTL DEF TunSafety

-----------------------------------------------------------------------------
(* What the invariant says *)

(* The state of the tunnel is always well-formed; no channel ever holds    *)
(* more than its capacity.                                                 *)
THEOREM TunnelIsTyped == TunSafety => []TunTypeOK
BY TunnelInvariant, PTL DEF TunInv

(* A response popped from a pending map always finds room in its channel.  *)
THEOREM RepliesFit == TunSafety => []ReplyFits
<1>1. ASSUME TunInv PROVE ReplyFits
  <2> Responses /\ Loops BY <1>1 DEF TunInv
  <2> QED BY DEF ReplyFits, Responses, Loops, Delivering
<1> QED BY <1>1, TunnelInvariant, PTL

(* No entry of a pending or streams map outlives both its handler's        *)
(* interest and its connection.                                            *)
THEOREM NothingLeaks == TunSafety => []NoLeak
BY TunnelInvariant, PTL DEF TunInv

(* A frame channel is closed by one goroutine, once.                       *)
THEOREM ChannelsHaveOneCloser == TunSafety => []OneCloser
<1>1. ASSUME TunInv PROVE OneCloser
  <2> Types /\ Endings /\ Loops BY <1>1, TypesHold DEF TunInv
  <2> SUFFICES ASSUME NEW s \in Streams,
                      NEW closers, closers = {c \in Conns : loop[c] = "ending" /\ item[c] = s}
               PROVE  /\ hpc[s] = "closing" => closers = {}
                      /\ \A c, d \in closers : c = d
                      /\ (hpc[s] = "closing" \/ closers # {} \/ \E c \in Conns : s \in streams[c])
                           => s \notin ended
    BY DEF OneCloser
  <2>1. Ending(s) <=> closers # {} BY DEF Ending
  <2>2. \A c, d \in closers : c = d BY DEF Loops, Delivering
  <2> QED BY <2>1, <2>2 DEF Endings
<1> QED BY <1>1, TunnelInvariant, PTL

(* writeMu is held by exactly the goroutine that is writing.               *)
THEOREM SocketsHaveOneWriter == TunSafety => []OneWriter
<1>1. ASSUME TunInv PROVE OneWriter
  <2> Types /\ Writers BY <1>1, TypesHold DEF TunInv
  <2> SUFFICES ASSUME NEW c \in Conns
               PROVE  {h \in Handlers : hpc[h] = "writing" /\ target[h] = c}
                        \union (IF loop[c] = "pongwriting" THEN {c} ELSE {})
                      = {writer[c]} \ {Nobody}
    BY DEF OneWriter
  <2>1. CASE writer[c] = Nobody BY <2>1 DEF Types, Writers
  <2>2. CASE writer[c] \in Handlers BY <2>2 DEF Types, Writers
  <2>3. CASE writer[c] \in Conns BY <2>3 DEF Types, Writers
  <2> QED BY <2>1, <2>2, <2>3 DEF Types
<1> QED BY <1>1, TunnelInvariant, PTL

LEMMA LedgerOrders ==
  ASSUME NEW g \in Seq(Nat), NEW f \in Seq(Nat), NEW l \in Nat, NEW n \in Nat,
         Ledger(g, f, l, n)
  PROVE  Increasing(g \o f)
<1> DEFINE q == g \o f
<1>1. /\ Len(g) \in Nat /\ Len(f) \in Nat /\ Len(q) = Len(g) + Len(f)
      /\ \A i \in 1 .. Len(g) : q[i] = g[i]
  OBVIOUS
<1>2. ASSUME NEW i \in 1 .. Len(q), ~(i \in 1 .. Len(g))
      PROVE  i - Len(g) \in 1 .. Len(f) /\ q[i] = f[i - Len(g)]
  BY <1>1, <1>2
<1> HIDE DEF q
<1> SUFFICES ASSUME NEW i \in 1 .. Len(q), NEW j \in 1 .. Len(q), i < j
             PROVE  q[i] < q[j]
  BY DEF Increasing, q
<1>3. CASE j \in 1 .. Len(g)
  <2>1. i \in 1 .. Len(g) BY <1>1, <1>3
  <2> QED BY <2>1, <1>1, <1>3 DEF Ledger, Increasing
<1>4. CASE i \in 1 .. Len(g) /\ j \notin 1 .. Len(g)
  BY <1>1, <1>2, <1>4 DEF Ledger
<1>5. CASE i \notin 1 .. Len(g) /\ j \notin 1 .. Len(g)
  <2>1. i - Len(g) < j - Len(g) BY <1>1
  <2> QED BY <2>1, <1>2, <1>5 DEF Ledger, Increasing
<1>6. CASE i \notin 1 .. Len(g) /\ j \in 1 .. Len(g) BY <1>1, <1>6
<1> QED BY <1>3, <1>4, <1>5, <1>6

(* The browser sees a stream's frames in the Shore's order, each once.     *)
THEOREM FramesKeepOrder == TunSafety => []FramesInOrder
<1>1. ASSUME TunInv PROVE FramesInOrder
  <2>1. ASSUME NEW s \in Streams PROVE Increasing(got[s] \o frames[s])
    <3>1. Ledger(got[s], frames[s], lost[s], Counted(s)) BY <1>1 DEF TunInv, Delivered
    <3> QED BY <3>1, <1>1, Numbers, LedgerOrders
  <2> QED BY <2>1 DEF FramesInOrder, Increasing
<1> QED BY <1>1, TunnelInvariant, PTL

(* A stream the Shore ended was delivered whole but for a full channel.    *)
THEOREM EndedStreamsAreComplete == TunSafety => []OverIsComplete
<1>1. ASSUME TunInv PROVE OverIsComplete
  <2> SUFFICES ASSUME NEW s \in Streams, hpc[s] = "over"
               PROVE  Len(got[s]) + lost[s] = sent[s]
    BY DEF OverIsComplete
  <2>1. s \in ended /\ frames[s] = <<>> BY <1>1 DEF TunInv, Bounds
  <2>2. ~InHand(s) BY <2>1, <1>1 DEF TunInv, Endings
  <2>3. Settled(got[s], frames[s], lost[s], Counted(s)) BY <1>1 DEF TunInv, Delivered
  <2>4. Len(got[s]) + 0 + lost[s] = sent[s] BY <2>1, <2>2, <2>3 DEF Settled, Counted
  <2>5. Len(got[s]) \in Nat BY <1>1, Numbers
  <2> QED BY <2>4, <2>5
<1> QED BY <1>1, TunnelInvariant, PTL

(* The read loop panics only because a browser left as a frame of its      *)
(* stream came.                                                            *)
THEOREM PanicsHaveLeavers == TunSafety => []PanicHasLeaver
BY TunnelInvariant, PTL DEF TunInv

-----------------------------------------------------------------------------
(* The tunnel keeps the broker's promises *)

(* Steps the broker does not see: the fates stay as they are, and so does  *)
(* what is in the channels of the open requests.                           *)
Quiet ==
  /\ Alone
  /\ \A h \in Handlers : Fate(h)' = Fate(h)
  /\ UNCHANGED reply
  /\ \A s \in Streams : Fate(s) = "open" => (s \in ended' <=> s \in ended)

(* Those it may see.                                                       *)
Tells ==
  \/ \E h \in Handlers : WriteFails(h) \/ ShoreDone(h)
  \/ \E r \in Reqs : Collect(r) \/ TimeOut(r)
  \/ \E s \in Streams :
       RefuseStream(s) \/ ForwardFrame(s) \/ StreamOver(s) \/ ClientLeaves(s)
  \/ \E c \in Conns :
       \/ DeliverResponse(c) \/ DeliverFrame(c) \/ CloseEnded(c)
       \/ \E s \in Streams : ReadFrame(c, s)

(* The broker's view, before and after a step.                             *)
LEMMA Unseen ==
  ASSUME TunInv, UNCHANGED got,
         \A h \in Handlers : Fate(h)' = Fate(h),
         \A r \in Reqs : IsOpen(r) => (r \in reply' <=> r \in reply),
         reply \union reply' \subseteq Reqs, ended \union ended' \subseteq Streams,
         \A s \in Streams : IsOpen(s) => /\ s \in ended' <=> s \in ended
                                         /\ frames'[s] = frames[s]
                                         /\ Counted(s)' = Counted(s)
  PROVE  UNCHANGED Broker!brokerVars
<1>1. \A h \in Handlers : IsOpen(h)' <=> IsOpen(h) BY DEF IsOpen
<1>2. Handlers = Reqs \union Streams BY DEF Handlers
<1>3. [h \in Reqs \union Streams |-> Fate(h)]' = [h \in Reqs \union Streams |-> Fate(h)]
  BY <1>2
<1>4. {r \in reply : IsOpen(r)}' = {r \in reply : IsOpen(r)}
  BY <1>1, <1>2
<1>5. {s \in ended : IsOpen(s)}' = {s \in ended : IsOpen(s)}
  BY <1>1, <1>2
<1>6. [s \in Streams |-> IF IsOpen(s) THEN Counted(s) ELSE 0]'
      = [s \in Streams |-> IF IsOpen(s) THEN Counted(s) ELSE 0]
  BY <1>1, <1>2
<1>7. [s \in Streams |-> IF IsOpen(s) THEN frames[s] ELSE <<>>]'
      = [s \in Streams |-> IF IsOpen(s) THEN frames[s] ELSE <<>>]
  BY <1>1, <1>2
<1> QED BY <1>3, <1>4, <1>5, <1>6, <1>7 DEF Broker!brokerVars

LEMMA QuietServes ==
  ASSUME TunInv, Serves PROVE Quiet \/ Tells
<1> Types /\ Homes BY TypesHold DEF TunInv
<1> USE DEF Types, Homes, Alone, Quiet, Fate, Finished, Places, maps, channels, reader, socket
<1>1. ASSUME NEW h \in Handlers, WriteFails(h) \/ ShoreDone(h) PROVE Tells
  BY <1>1 DEF Tells
<1>2. ASSUME NEW r \in Reqs, Collect(r) \/ TimeOut(r) PROVE Tells
  BY <1>2 DEF Tells
<1>3. ASSUME NEW s \in Streams,
             RefuseStream(s) \/ ForwardFrame(s) \/ StreamOver(s) \/ ClientLeaves(s)
      PROVE  Tells
  BY <1>3 DEF Tells
<1>4. ASSUME NEW c \in Conns, NEW h \in Handlers, ReadFrame(c, h) PROVE Tells
  BY <1>4 DEF ReadFrame, Tells
<1>5. ASSUME NEW c \in Conns, DeliverResponse(c) \/ DeliverFrame(c) \/ CloseEnded(c)
      PROVE  Tells
  BY <1>5 DEF Tells
<1>6. ASSUME NEW h \in Handlers,
             Enqueue(h) \/ TakeWriter(h) \/ WriteOk(h) \/ Unsend(h)
      PROVE  Quiet
  BY <1>6 DEF Enqueue, TakeWriter, WriteOk, Unsend, Goto
<1>7. ASSUME NEW r \in Reqs, ReadBody(r) \/ CancelPendingRequest(r)
      PROVE Quiet
  BY <1>7 DEF ReadBody, CancelPendingRequest, Goto
<1>8. ASSUME NEW s \in Streams, CloseLeft(s) PROVE Quiet
  BY <1>8 DEF CloseLeft, Goto
<1>9. ASSUME NEW c \in Conns, NEW h \in Handlers, ReadResponse(c, h) \/ ReadEnd(c, h)
      PROVE  Quiet
  BY <1>9 DEF ReadResponse, ReadEnd, CanRead, Known, LoopTo, Pass
<1>10. ASSUME NEW c \in Conns, TakeWriterForPong(c) \/ PongOk(c) PROVE Quiet
  BY <1>10 DEF TakeWriterForPong, PongOk, LoopTo
<1> HIDE DEF Types, Homes, Alone, Quiet, Fate, Finished, Places, maps, channels, reader, socket
<1> QED
  BY <1>1, <1>2, <1>3, <1>4, <1>5, <1>6, <1>7, <1>8, <1>9, <1>10, ServeCases

LEMMA FateChanges ==
  ASSUME NEW h \in Handlers, \A g \in Handlers \ {h} : Fate(g)' = Fate(g)
  PROVE  Broker!Becomes(h, Fate(h)')
<1>1. Handlers = Reqs \union Streams BY DEF Handlers
<1>2. [g \in Reqs \union Streams |-> Fate(g)]'
      = [[g \in Reqs \union Streams |-> Fate(g)] EXCEPT ![h] = Fate(h)']
  BY <1>1
<1> QED BY <1>2 DEF Broker!Becomes

(* A request that is no longer open is out of the broker's books.          *)
LEMMA Forgotten ==
  ASSUME TunInv, NEW h \in Handlers, Fate(h)' # "open", UNCHANGED got,
         \A g \in Handlers \ {h} : Fate(g)' = Fate(g),
         \A r \in Reqs \ {h} : IsOpen(r) => (r \in reply' <=> r \in reply),
         reply \union reply' \subseteq Reqs, ended \union ended' \subseteq Streams,
         \A s \in Streams \ {h} : IsOpen(s) => /\ s \in ended' <=> s \in ended
                                               /\ frames'[s] = frames[s]
                                               /\ Counted(s)' = Counted(s)
  PROVE  Broker!Forget(h)
<1>1. ~IsOpen(h)' /\ \A g \in Handlers \ {h} : IsOpen(g)' <=> IsOpen(g) BY DEF IsOpen
<1>2. Handlers = Reqs \union Streams BY DEF Handlers
<1>3. {r \in reply : IsOpen(r)}' = {r \in reply : IsOpen(r)} \ {h}
  BY <1>1, <1>2
<1>4. {s \in ended : IsOpen(s)}' = {s \in ended : IsOpen(s)} \ {h}
  BY <1>1, <1>2
<1> DEFINE taken == [s \in Streams |-> IF IsOpen(s) THEN Counted(s) ELSE 0]
           inbox == [s \in Streams |-> IF IsOpen(s) THEN frames[s] ELSE <<>>]
<1>5. taken' = [s \in Streams |-> IF s = h THEN 0 ELSE taken[s]]
  BY <1>1, <1>2
<1>6. inbox' = [s \in Streams |-> IF s = h THEN <<>> ELSE inbox[s]]
  BY <1>1, <1>2
<1> QED BY <1>3, <1>4, <1>5, <1>6 DEF Broker!Forget

LEMMA SetsKept ==
  ASSUME TunInv, [TunNext]_tunVars
  PROVE  reply \union reply' \subseteq Reqs /\ ended \union ended' \subseteq Streams
BY TunStep DEF TunInv, TunTypeOK

LEMMA QuietIsUnseen ==
  ASSUME TunInv, [TunNext]_tunVars, Quiet PROVE UNCHANGED Broker!brokerVars
<1>1. \A s \in Streams : Counted(s)' = Counted(s) BY CountedSteps DEF Quiet
<1> QED BY <1>1, SetsKept, Unseen DEF Quiet, Alone, IsOpen

(* The broker's steps, each with what this module knows of it: a Shore is  *)
(* heard over the connection of the request alone, while that connection's *)
(* loop has its message in hand, and only a closed connection drops one.   *)
FromShore(h) ==
  /\ loop[target[h]] \in Delivering
  /\ \/ h \in Reqs /\ Broker!Give(h)
     \/ h \in Streams /\ (Broker!Frame(h) \/ Broker!End(h))

ToBrowser(h) ==
  \/ h \in Reqs /\ Broker!Answer(h)
  \/ h \in Streams /\ (Broker!Show(h) \/ Broker!Finish(h))

GivesUp(h) ==
  \E f \in Broker!Failures(h) :
    Broker!Fail(h, f) /\ (f = "dropped" => target[h] \in closed)

(* The ways to fail, which leave the channels alone.                       *)
LEMMA FailsSoundly ==
  ASSUME TunInv, TunNext, NEW h \in Handlers,
         \/ WriteFails(h) \/ ShoreDone(h)
         \/ h \in Reqs /\ TimeOut(h)
         \/ h \in Streams /\ (RefuseStream(h) \/ ClientLeaves(h))
  PROVE  GivesUp(h)
<1> Types /\ Homes BY TypesHold DEF TunInv
<1>1. /\ Fate(h) = "open" /\ \A g \in Handlers \ {h} : Fate(g)' = Fate(g)
      /\ UNCHANGED <<got, frames, lost, sent, reply, ended, loop, item>>
  BY DEF WriteFails, ShoreDone, TimeOut, RefuseStream, ClientLeaves, Goto,
         Fate, Finished, Types, channels, reader
<1>2. Fate(h)' \in Broker!Failures(h)
  BY DEF WriteFails, ShoreDone, TimeOut, RefuseStream, ClientLeaves, Goto,
         Fate, Finished, Types, Homes, Broker!Failures
<1>3. Fate(h)' # "open"
  BY <1>2 DEF Broker!Failures
<1>4. \A s \in Streams : Counted(s)' = Counted(s) BY <1>1 DEF Counted, InHand
<1>5. Broker!Forget(h) BY <1>1, <1>3, <1>4, SetsKept, Forgotten
<1>6. Broker!Becomes(h, Fate(h)') BY <1>1, FateChanges
<1>7. Broker!Open(h) BY <1>1 DEF Broker!Open, Handlers
<1>8. Fate(h)' = "dropped" => target[h] \in closed
  BY DEF WriteFails, ShoreDone, TimeOut, RefuseStream, ClientLeaves, Goto,
         Fate, Finished, Types
<1> QED BY <1>2, <1>5, <1>6, <1>7, <1>8 DEF Broker!Fail, GivesUp

(* A request that is taken has nothing in its channels yet.                *)
LEMMA TakesSoundly ==
  ASSUME TunInv, TunNext, NEW h \in Handlers, NEW c \in Conns, Resolve(h, c)
  PROVE  Broker!Take(h)
<1> Types /\ Loops /\ Responses /\ Endings /\ Bounds /\ Delivered
  BY TypesHold DEF TunInv
<1>1. /\ Fate(h) = "new" /\ Fate(h)' = "open" /\ hpc[h] = "new"
      /\ \A g \in Handlers \ {h} : Fate(g)' = Fate(g)
      /\ UNCHANGED <<got, frames, lost, sent, reply, ended, loop, item>>
  BY DEF Resolve, Goto, Fate, Finished, Types, channels, reader
<1>2. \A s \in Streams : Counted(s)' = Counted(s) BY <1>1 DEF Counted, InHand
<1>3. h \notin reply BY <1>1 DEF Responses, Unsent
<1>4. h \notin ended BY <1>1 DEF Endings, Unsent, Types
<1>5. h \in Streams => Counted(h) = 0
  BY <1>1 DEF Bounds, Unsent, Counted, InHand, Loops, Delivering
<1>6. ASSUME h \in Streams PROVE frames[h] = <<>>
  <2>1. Ledger(got[h], frames[h], lost[h], 0) BY <1>5, <1>6 DEF Delivered
  <2>2. /\ frames[h] \in Seq(Nat) /\ Len(got[h]) \in Nat /\ Len(frames[h]) \in Nat
        /\ lost[h] \in Nat
    BY <1>6, Numbers
  <2>3. Len(frames[h]) <= 0 BY <2>1, <2>2, PartOf DEF Ledger
  <2>4. Len(frames[h]) = 0 BY <2>2, <2>3
  <2> QED BY <2>2, <2>4
<1>7. \A g \in Handlers \ {h} : IsOpen(g)' <=> IsOpen(g) BY <1>1 DEF IsOpen
<1>8. ~IsOpen(h) BY <1>1 DEF IsOpen
<1>9. reply \subseteq Handlers /\ ended \subseteq Handlers /\ Streams \subseteq Handlers
  BY DEF Types
<1>10. {r \in reply : IsOpen(r)}' = {r \in reply : IsOpen(r)}
  BY <1>1, <1>3, <1>7, <1>9
<1>11. {s \in ended : IsOpen(s)}' = {s \in ended : IsOpen(s)}
  BY <1>1, <1>4, <1>7, <1>9
<1>12. [s \in Streams |-> IF IsOpen(s) THEN Counted(s) ELSE 0]'
       = [s \in Streams |-> IF IsOpen(s) THEN Counted(s) ELSE 0]
  BY <1>2, <1>5, <1>7, <1>8, <1>9
<1>13. [s \in Streams |-> IF IsOpen(s) THEN frames[s] ELSE <<>>]'
       = [s \in Streams |-> IF IsOpen(s) THEN frames[s] ELSE <<>>]
  BY <1>1, <1>6, <1>7, <1>8, <1>9
<1>14. Broker!Becomes(h, "open") BY <1>1, FateChanges
<1> QED BY <1>1, <1>10, <1>11, <1>12, <1>13, <1>14 DEF Broker!Take, Handlers

(* The ways to end well.                                                   *)
LEMMA AnswersSoundly ==
  ASSUME TunInv, TunNext, NEW r \in Reqs, Collect(r) PROVE Broker!Answer(r)
<1> Types BY TypesHold
<1>1. /\ Fate(r) = "open" /\ Fate(r)' = "answered" /\ r \in reply
      /\ \A g \in Handlers \ {r} : Fate(g)' = Fate(g)
      /\ reply' = reply \ {r}
      /\ UNCHANGED <<got, frames, lost, sent, ended, loop, item>>
  BY DEF Collect, Goto, Fate, Finished, Types, reader
<1>2. \A s \in Streams : Counted(s)' = Counted(s) BY <1>1 DEF Counted, InHand
<1>3. r \in Handlers BY DEF Handlers
<1>4. Broker!Forget(r) BY <1>1, <1>2, <1>3, SetsKept, Forgotten
<1>5. Broker!Becomes(r, "answered") BY <1>1, <1>3, FateChanges
<1>6. Broker!Open(r) BY <1>1 DEF Broker!Open
<1> QED BY <1>1, <1>4, <1>5, <1>6 DEF Broker!Answer, IsOpen

LEMMA FinishesSoundly ==
  ASSUME TunInv, TunNext, NEW s \in Streams, StreamOver(s) PROVE Broker!Finish(s)
<1> Types BY TypesHold
<1>1. /\ Fate(s) = "open" /\ Fate(s)' = "over" /\ s \in ended /\ frames[s] = <<>>
      /\ \A g \in Handlers \ {s} : Fate(g)' = Fate(g)
      /\ UNCHANGED <<got, frames, lost, sent, reply, ended, loop, item>>
  BY DEF StreamOver, Goto, Fate, Finished, Types, channels, reader
<1>2. \A t \in Streams : Counted(t)' = Counted(t) BY <1>1 DEF Counted, InHand
<1>3. s \in Handlers BY DEF Handlers
<1>4. Broker!Forget(s) BY <1>1, <1>2, <1>3, SetsKept, Forgotten
<1>5. Broker!Becomes(s, "over") BY <1>1, <1>3, FateChanges
<1>6. Broker!Open(s) BY <1>1 DEF Broker!Open
<1> QED BY <1>1, <1>4, <1>5, <1>6 DEF Broker!Finish, IsOpen

(* What a step that leaves the fates alone tells the broker.               *)
LEMMA SameFates ==
  ASSUME UNCHANGED hpc
  PROVE  /\ \A h \in Handlers : Fate(h)' = Fate(h)
         /\ \A h \in Handlers : IsOpen(h)' <=> IsOpen(h)
         /\ [h \in Reqs \union Streams |-> Fate(h)]' = [h \in Reqs \union Streams |-> Fate(h)]
BY DEF Fate, IsOpen

LEMMA ShowsSoundly ==
  ASSUME TunInv, TunNext, NEW s \in Streams, ForwardFrame(s) PROVE Broker!Show(s)
<1> Types BY TypesHold
<1> Streams \subseteq Handlers BY DEF Handlers
<1> DEFINE inbox == [t \in Streams |-> IF IsOpen(t) THEN frames[t] ELSE <<>>]
<1>1. /\ Fate(s) = "open" /\ frames[s] # <<>>
      /\ got' = [got EXCEPT ![s] = Append(@, Head(frames[s]))]
      /\ frames' = [frames EXCEPT ![s] = Tail(@)]
      /\ UNCHANGED <<hpc, lost, sent, reply, ended, loop, item>>
  BY DEF ForwardFrame, Fate, Finished, reader
<1>2. \A t \in Streams : Counted(t)' = Counted(t) BY <1>1 DEF Counted, InHand
<1>3. DOMAIN frames = Streams BY DEF TunInv, TunTypeOK
<1>4. IsOpen(s) /\ \A h \in Handlers : IsOpen(h)' <=> IsOpen(h)
  BY <1>1, SameFates DEF IsOpen
<1>5. inbox[s] = frames[s] BY <1>4
<1>6. inbox' = [inbox EXCEPT ![s] = Tail(@)] BY <1>1, <1>3, <1>4
<1>7. {r \in reply : IsOpen(r)}' = {r \in reply : IsOpen(r)}
  BY <1>1, <1>4, SetsKept DEF Handlers
<1>8. {t \in ended : IsOpen(t)}' = {t \in ended : IsOpen(t)}
  BY <1>1, <1>4, SetsKept DEF Handlers
<1>9. [t \in Streams |-> IF IsOpen(t) THEN Counted(t) ELSE 0]'
      = [t \in Streams |-> IF IsOpen(t) THEN Counted(t) ELSE 0]
  BY <1>2, <1>4
<1>10. Broker!Open(s) BY <1>1 DEF Broker!Open
<1> HIDE DEF inbox
<1>11. /\ got' = [got EXCEPT ![s] = Append(@, Head(inbox[s]))] /\ inbox[s] # <<>>
  BY <1>1, <1>5
<1> QED BY <1>1, <1>6, <1>7, <1>8, <1>9, <1>10, <1>11, SameFates DEF Broker!Show, inbox

(* The Shore's side: what is delivered to a request that is no longer open *)
(* is not seen.                                                            *)
LEMMA GivesSoundly ==
  ASSUME TunInv, TunNext, NEW c \in Conns, DeliverResponse(c)
  PROVE  (\E h \in Handlers : FromShore(h)) \/ UNCHANGED Broker!brokerVars
<1> Types /\ Loops /\ Responses BY TypesHold DEF TunInv
<1>0. PICK r : r = item[c] OBVIOUS
<1>1. /\ loop[c] = "responding" /\ loop' = [loop EXCEPT ![c] = "reading"]
      /\ item' = [item EXCEPT ![c] = Nobody] /\ reply' = reply \union {r}
      /\ UNCHANGED <<hpc, got, frames, lost, sent, ended>>
  BY <1>0 DEF DeliverResponse, Pass, LoopTo
<1>2. r \in Reqs /\ r \notin reply BY <1>0, <1>1 DEF Loops, Delivering, Responses
<1>3. \A s \in Streams : Counted(s)' = Counted(s)
  BY <1>1 DEF Counted, InHand, Types
<1>4. CASE ~IsOpen(r)
  BY <1>1, <1>2, <1>3, <1>4, SameFates, SetsKept, Unseen
<1>5. CASE IsOpen(r)
  <2>1. \A h \in Handlers : IsOpen(h)' <=> IsOpen(h) BY <1>1, SameFates
  <2>2. {q \in reply : IsOpen(q)}' = {q \in reply : IsOpen(q)} \union {r}
    BY <1>1, <1>2, <1>5, <2>1, SetsKept DEF Handlers
  <2>3. {t \in ended : IsOpen(t)}' = {t \in ended : IsOpen(t)}
    BY <1>1, <2>1, SetsKept DEF Handlers
  <2>4. [t \in Streams |-> IF IsOpen(t) THEN Counted(t) ELSE 0]'
        = [t \in Streams |-> IF IsOpen(t) THEN Counted(t) ELSE 0]
    BY <1>3, <2>1 DEF Handlers
  <2>5. [t \in Streams |-> IF IsOpen(t) THEN frames[t] ELSE <<>>]'
        = [t \in Streams |-> IF IsOpen(t) THEN frames[t] ELSE <<>>]
    BY <1>1, <2>1 DEF Handlers
  <2>6. Broker!Open(r) BY <1>2, <1>5 DEF Broker!Open, IsOpen
  <2>7. Broker!Give(r)
    BY <1>1, <1>2, <2>2, <2>3, <2>4, <2>5, <2>6, SameFates DEF Broker!Give
  <2>8. loop[target[r]] \in Delivering BY <1>0, <1>1 DEF Loops, Delivering
  <2> QED BY <1>2, <2>7, <2>8 DEF FromShore, Handlers
<1> QED BY <1>4, <1>5

LEMMA EndsSoundly ==
  ASSUME TunInv, TunNext, NEW c \in Conns, CloseEnded(c)
  PROVE  (\E h \in Handlers : FromShore(h)) \/ UNCHANGED Broker!brokerVars
<1> Types /\ Loops /\ Endings BY TypesHold DEF TunInv
<1>0. PICK s : s = item[c] OBVIOUS
<1>1. /\ loop[c] = "ending" /\ loop' = [loop EXCEPT ![c] = "reading"]
      /\ item' = [item EXCEPT ![c] = Nobody] /\ ended' = ended \union {s}
      /\ UNCHANGED <<hpc, got, frames, lost, sent, reply>>
  BY <1>0 DEF CloseEnded, Pass, LoopTo
<1>2. s \in Streams /\ s \notin ended
  BY <1>0, <1>1 DEF Loops, Delivering, Endings, Ending
<1>3. \A t \in Streams : Counted(t)' = Counted(t)
  BY <1>1 DEF Counted, InHand, Types
<1>4. CASE ~IsOpen(s)
  BY <1>1, <1>2, <1>3, <1>4, SameFates, SetsKept, Unseen
<1>5. CASE IsOpen(s)
  <2>1. \A h \in Handlers : IsOpen(h)' <=> IsOpen(h) BY <1>1, SameFates
  <2>2. {q \in reply : IsOpen(q)}' = {q \in reply : IsOpen(q)}
    BY <1>1, <2>1, SetsKept DEF Handlers
  <2>3. {t \in ended : IsOpen(t)}' = {t \in ended : IsOpen(t)} \union {s}
    BY <1>1, <1>2, <1>5, <2>1, SetsKept DEF Handlers
  <2>4. [t \in Streams |-> IF IsOpen(t) THEN Counted(t) ELSE 0]'
        = [t \in Streams |-> IF IsOpen(t) THEN Counted(t) ELSE 0]
    BY <1>3, <2>1 DEF Handlers
  <2>5. [t \in Streams |-> IF IsOpen(t) THEN frames[t] ELSE <<>>]'
        = [t \in Streams |-> IF IsOpen(t) THEN frames[t] ELSE <<>>]
    BY <1>1, <2>1 DEF Handlers
  <2>6. Broker!Open(s) BY <1>2, <1>5 DEF Broker!Open, IsOpen
  <2>7. Broker!End(s)
    BY <1>1, <1>2, <2>2, <2>3, <2>4, <2>5, <2>6, SameFates DEF Broker!End
  <2>8. loop[target[s]] \in Delivering BY <1>0, <1>1 DEF Loops, Delivering
  <2> QED BY <1>2, <2>7, <2>8 DEF FromShore, Handlers
<1> QED BY <1>4, <1>5

LEMMA FramesSoundly ==
  ASSUME TunInv, TunNext, NEW c \in Conns, DeliverFrame(c)
  PROVE  (\E h \in Handlers : FromShore(h)) \/ UNCHANGED Broker!brokerVars
<1> Types BY TypesHold
<1> Streams \subseteq Handlers BY DEF Handlers
<1>0. PICK s : s = item[c] OBVIOUS
<1>1. /\ s \in Streams /\ s \notin ended /\ UNCHANGED <<hpc, got, sent, reply, ended>>
      /\ IF Len(frames[s]) < ChanCap
           THEN frames' = [frames EXCEPT ![s] = Append(@, sent[s])]
           ELSE UNCHANGED frames
  BY <1>0, HandOpens DEF DeliverFrame
<1>2. /\ \A t \in Streams \ {s} : Counted(t)' = Counted(t)
      /\ sent[s] = Counted(s) + 1 /\ Counted(s)' = Counted(s) + 1
  BY <1>0, HandOpens
<1>3. DOMAIN frames = Streams BY DEF TunInv, TunTypeOK
<1>4. \A t \in Streams \ {s} : frames'[t] = frames[t] BY <1>1, <1>3
<1>5. CASE ~IsOpen(s)
  BY <1>1, <1>2, <1>4, <1>5, SameFates, SetsKept, Unseen
<1>6. ASSUME IsOpen(s) PROVE Broker!Frame(s)
  <2> DEFINE inbox == [t \in Streams |-> IF IsOpen(t) THEN frames[t] ELSE <<>>]
             taken == [t \in Streams |-> IF IsOpen(t) THEN Counted(t) ELSE 0]
  <2>1. \A h \in Handlers : IsOpen(h)' <=> IsOpen(h) BY <1>1, SameFates
  <2>2. {q \in reply : IsOpen(q)}' = {q \in reply : IsOpen(q)}
    BY <1>1, <2>1, SetsKept DEF Handlers
  <2>3. {t \in ended : IsOpen(t)}' = {t \in ended : IsOpen(t)}
    BY <1>1, <2>1, SetsKept DEF Handlers
  <2>4. taken' = [taken EXCEPT ![s] = @ + 1] /\ taken'[s] = sent[s]
    BY <1>1, <1>2, <1>6, <2>1
  <2>5. inbox[s] = frames[s] /\ inbox'[s] = frames'[s] BY <1>1, <1>6, <2>1
  <2>6. /\ \A t \in Streams \ {s} : inbox'[t] = inbox[t]
        /\ DOMAIN inbox' = Streams /\ DOMAIN inbox = Streams
        /\ inbox' = [t \in Streams |-> inbox'[t]] /\ inbox = [t \in Streams |-> inbox[t]]
    BY <1>4, <2>1
  <2>7. Broker!Open(s) BY <1>1, <1>6 DEF Broker!Open, IsOpen
  <2> HIDE DEF inbox, taken
  <2>8. ASSUME Len(frames[s]) < ChanCap PROVE Broker!Frame(s)
    <3>1. inbox'[s] = Append(inbox[s], taken'[s])
      BY <1>1, <1>3, <2>4, <2>5, <2>8
    <3>2. inbox' = [inbox EXCEPT ![s] = Append(@, taken'[s])] BY <2>6, <3>1
    <3>3. Len(inbox[s]) < ChanCap BY <2>5, <2>8
    <3> QED BY <1>1, <2>2, <2>3, <2>4, <2>7, <3>2, <3>3, SameFates
            DEF Broker!Frame, inbox, taken
  <2>9. ASSUME ~(Len(frames[s]) < ChanCap) PROVE Broker!Frame(s)
    <3>1. inbox' = inbox BY <1>1, <2>5, <2>6, <2>9
    <3>2. ~(Len(inbox[s]) < ChanCap) BY <2>5, <2>9
    <3> QED BY <1>1, <2>2, <2>3, <2>4, <2>7, <3>1, <3>2, SameFates
            DEF Broker!Frame, inbox, taken
  <2> QED BY <2>8, <2>9
<1>7. loop[target[s]] \in Delivering
  BY <1>0, HandOpens DEF TunInv, Loops, Delivering
<1> QED BY <1>1, <1>5, <1>6, <1>7 DEF FromShore

LEMMA ReadsUnseen ==
  ASSUME TunInv, TunNext, NEW c \in Conns, NEW s \in Streams, ReadFrame(c, s)
  PROVE  UNCHANGED Broker!brokerVars
<1>1. UNCHANGED <<hpc, got, frames, reply, ended>> BY DEF ReadFrame
<1> QED BY <1>1, ReadFrameCounts, SameFates, SetsKept, Unseen

LEMMA PanicsUnseen ==
  ASSUME TunInv, TunNext, NEW c \in Conns, SendOnClosed(c)
  PROVE  UNCHANGED Broker!brokerVars
<1>0. PICK s : s = item[c] OBVIOUS
<1>1. UNCHANGED <<hpc, got, frames, reply, ended>> /\ s \in ended
  BY <1>0 DEF SendOnClosed, channels
<1>2. /\ s \in Streams /\ loop[c] = "framing"
      /\ \A t \in Streams \ {s} : Counted(t)' = Counted(t)
  BY <1>0, HandOpens
<1>3. hpc[s] = "left" BY <1>0, <1>1, <1>2 DEF TunInv, Endings, InHand
<1>4. ~IsOpen(s) BY <1>3 DEF IsOpen, Fate, Finished
<1> QED BY <1>1, <1>2, <1>4, SameFates, SetsKept, Unseen

(* Everything that serves a request is such a step, or is not seen.        *)
LEMMA ServesSoundly ==
  ASSUME TunInv, Serves
  PROVE  \/ UNCHANGED Broker!brokerVars
         \/ \E h \in Handlers : FromShore(h) \/ ToBrowser(h) \/ GivesUp(h)
<1> TunNext BY DEF TunNext
<1> Reqs \subseteq Handlers /\ Streams \subseteq Handlers BY DEF Handlers
<1>1. CASE Quiet BY <1>1, QuietIsUnseen
<1> DEFINE Seen == \E h \in Handlers : FromShore(h) \/ ToBrowser(h) \/ GivesUp(h)
<1>2. ASSUME NEW h \in Handlers, WriteFails(h) \/ ShoreDone(h) PROVE Seen
  BY <1>2, FailsSoundly
<1>3. ASSUME NEW r \in Reqs, Collect(r) \/ TimeOut(r) PROVE Seen
  BY <1>3, AnswersSoundly, FailsSoundly DEF ToBrowser
<1>4. ASSUME NEW s \in Streams,
             RefuseStream(s) \/ ForwardFrame(s) \/ StreamOver(s) \/ ClientLeaves(s)
      PROVE  Seen
  BY <1>4, FailsSoundly, ShowsSoundly, FinishesSoundly DEF ToBrowser
<1>5. ASSUME NEW c \in Conns, DeliverResponse(c) \/ DeliverFrame(c) \/ CloseEnded(c)
      PROVE  UNCHANGED Broker!brokerVars \/ Seen
  BY <1>5, GivesSoundly, FramesSoundly, EndsSoundly
<1>6. ASSUME NEW c \in Conns, NEW s \in Streams, ReadFrame(c, s)
      PROVE  UNCHANGED Broker!brokerVars
  BY <1>6, ReadsUnseen
<1> HIDE DEF Seen
<1>7. ASSUME Tells PROVE UNCHANGED Broker!brokerVars \/ Seen
  BY <1>7, <1>2, <1>3, <1>4, <1>5, <1>6 DEF Tells
<1> QED BY <1>1, <1>7, QuietServes DEF Seen

(* What happens to a connection is not seen.                               *)
LEMMA ConnectionsUnseen ==
  ASSUME TunInv, TunNext,
         \/ \E c \in Conns :
              \/ ReadPing(c) \/ LoopExit(c) \/ CloseAfterLoop(c)
              \/ \E S \in SUBSET Conns : Start(c, S)
              \/ \E how \in {"silent", "down"} : TunLinkFails(c, how)
         \/ \E S \in SUBSET Conns : Close(S)
  PROVE  UNCHANGED Broker!brokerVars
<1> Types BY TypesHold
<1> USE DEF Types, Alone, Quiet, Fate, Finished, maps, channels, reader, socket
<1>1. ASSUME NEW c \in Conns,
             PongFails(c) \/ ReadFails(c) \/ ReadPing(c) \/ CloseAfterLoop(c)
      PROVE  Quiet
  BY <1>1 DEF PongFails, ReadFails, ReadPing, CloseAfterLoop, CanRead, LoopTo
<1>2. ASSUME NEW c \in Conns, NEW S \in SUBSET Conns, Start(c, S) PROVE Quiet
  BY <1>2 DEF Start, LoopTo
<1>3. ASSUME NEW c \in Conns, NEW how \in {"silent", "down"}, TunLinkFails(c, how)
      PROVE  Quiet
  BY <1>3 DEF TunLinkFails
<1>4. ASSUME NEW S \in SUBSET Conns, Close(S) PROVE Quiet
  BY <1>4 DEF Close
<1> HIDE DEF Types, Alone, Quiet, Fate, Finished, maps, channels, reader, socket
<1> QED BY <1>1, <1>2, <1>3, <1>4, QuietIsUnseen, PanicsUnseen DEF LoopExit

LEMMA BrokerStep ==
  ASSUME TunInv, [TunNext]_tunVars PROVE [Broker!BrokerNext]_(Broker!brokerVars)
<1>1. CASE Serves
  BY <1>1, ServesSoundly
  DEF FromShore, ToBrowser, GivesUp, Broker!BrokerNext, Handlers
<1>2. ASSUME NEW h \in Handlers, NEW c \in Conns, TunNext, Resolve(h, c)
      PROVE  Broker!BrokerNext
  BY <1>2, TakesSoundly DEF Broker!BrokerNext, Handlers
<1>3. CASE TunNext /\ ~Serves /\ ~\E h \in Handlers, c \in Conns : Resolve(h, c)
  BY <1>3, ConnectionsUnseen DEF TunNext
<1>4. CASE UNCHANGED tunVars
  <2>1. Quiet
    BY <1>4 DEF tunVars, Quiet, Alone, Fate
  <2> QED BY <2>1, <1>4, QuietIsUnseen
<1> QED BY <1>1, <1>2, <1>3, <1>4 DEF TunNext

LEMMA BrokerStart == ASSUME TunInit PROVE Broker!BrokerInit
<1>1. /\ reply = {} /\ ended = {}
      /\ \A h \in Reqs \union Streams : Fate(h) = "new" /\ ~IsOpen(h)
  BY DEF TunInit, Fate, IsOpen, Finished, Handlers
<1> QED BY <1>1 DEF TunInit, Broker!BrokerInit

(* The tunnel, for any number of connections, requests, streams and        *)
(* frames, and any capacity, implements the request broker.                *)
THEOREM TunnelIsABroker == TunSafety => BrokerHolds
<1>1. TunInit => Broker!BrokerInit BY BrokerStart
<1>2. TunInv /\ [TunNext]_tunVars => [Broker!BrokerNext]_(Broker!brokerVars)
  BY BrokerStep
<1> QED BY <1>1, <1>2, TunnelInvariant, PTL DEF TunSafety, BrokerHolds, Broker!BrokerSpec

=============================================================================
