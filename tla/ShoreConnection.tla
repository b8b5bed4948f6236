--------------------------- MODULE ShoreConnection ---------------------------
(***************************************************************************)
(* The data plane: browser requests tunnelled over Shore connections.      *)
(*                                                                         *)
(* gateway.go   routeToShore and handleSSERequest, one goroutine per       *)
(*              browser request: hpc[h] is where the handler of h stands;  *)
(* registry.go  ShoreConnection: the pending and streams maps (under mu),  *)
(*              the channels in them, writeMu, done;                       *)
(* shore_handler.go  runShoreReadLoop, one goroutine per connection:       *)
(*              loop[c] is where it stands, item[c] the request or stream  *)
(*              whose channel it has looked up.                            *)
(*                                                                         *)
(* mu is held for single map operations only, so each of those is a step;  *)
(* what happens after mu is released (the send to a channel, its close,    *)
(* the write to the socket) is a step of its own.                          *)
(*                                                                         *)
(* Who closes a connection, and when, is the registry's business: here     *)
(* Close may happen at any time.  Module Dock puts the two together.       *)
(***************************************************************************)
EXTENDS Naturals, Sequences

CONSTANTS
  Conns,     \* Shore connections
  Reqs,      \* regular browser requests, each with its own ID
  Streams,   \* browser requests for an event stream, each with its own ID
  NoConn,    \* no connection
  Nobody,    \* no request, no stream, no writer
  Flushable, \* the streams whose ResponseWriter is an http.Flusher
  ChanCap,   \* capacity of a frame channel (32)
  MaxFrames  \* bound of the model: frames a Shore sends per stream

Handlers == Reqs \union Streams

ASSUME TunnelAssumption ==
  /\ NoConn \notin Conns
  /\ Reqs \intersect Streams = {}
  /\ Nobody \notin Handlers \union Conns
  /\ Handlers \intersect Conns = {}
  /\ Flushable \subseteq Streams
  /\ ChanCap \in Nat \ {0}
  /\ MaxFrames \in Nat

VARIABLES
  hpc,      \* where each handler stands
  target,   \* the connection resolveShore gave it
  pending,  \* pending[c]: the IDs in the map of c
  streams,  \* streams[c]: the IDs in the map of c
  reply,    \* the requests whose response channel holds a response
  frames,   \* frames[s]: the frame channel of s; frames are numbered from 1
  ended,    \* the streams whose frame channel is closed
  sent,     \* sent[s]: frames of s the read loop found a channel for
  lost,     \* lost[s]: those of them dropped because the channel was full
  got,      \* got[s]: the frames written to the browser
  writer,   \* who holds writeMu of c: a handler, c (its read loop) or Nobody
  loop,     \* where the read loop of c stands
  item,     \* the request or stream the read loop delivers to
  panicked, \* the connections whose read loop panicked
  closed,   \* the connections the Dock has closed (done is closed)
  link      \* the Shore's end: up, silent (hung, its TCP still held), down

tunVars == <<hpc, target, pending, streams, reply, frames, ended, sent, lost,
             got, writer, loop, item, panicked, closed, link>>
maps == <<pending, streams>>
channels == <<reply, frames, ended, sent, lost, got>>
reader == <<loop, item, panicked>>
socket == <<closed, link>>

Finished == {"answered", "timedout", "dropped", "failed", "refused", "over", "left"}
Places == {"new", "uploading", "resolved", "queued", "writing", "unsend", "waiting",
           "cancelling", "streaming", "closing"} \union Finished
LoopPlaces == {"off", "reading", "responding", "framing", "ending",
               "ponging", "pongwriting", "ended"}

TunInit ==
  /\ hpc = [h \in Handlers |-> "new"]
  /\ target = [h \in Handlers |-> NoConn]
  /\ pending = [c \in Conns |-> {}]
  /\ streams = [c \in Conns |-> {}]
  /\ reply = {}
  /\ frames = [s \in Streams |-> <<>>]
  /\ ended = {}
  /\ sent = [s \in Streams |-> 0]
  /\ lost = [s \in Streams |-> 0]
  /\ got = [s \in Streams |-> <<>>]
  /\ writer = [c \in Conns |-> Nobody]
  /\ loop = [c \in Conns |-> "off"]
  /\ item = [c \in Conns |-> Nobody]
  /\ panicked = {}
  /\ closed = {}
  /\ link = [c \in Conns |-> "up"]

Goto(h, place) == hpc' = [hpc EXCEPT ![h] = place]
LoopTo(c, place) == loop' = [loop EXCEPT ![c] = place]

-----------------------------------------------------------------------------
(* A browser request, from its resolution to the end of the write *)

(* resolveShore finds a connection; from here on the handler holds the     *)
(* pointer, whatever becomes of the connection.  A regular request goes on *)
(* to read its body from the browser, an event stream does not.            *)
Resolve(h, c) ==
  /\ hpc[h] = "new"
  /\ loop[c] # "off"
  /\ Goto(h, IF h \in Reqs THEN "uploading" ELSE "resolved")
  /\ target' = [target EXCEPT ![h] = c]
  /\ UNCHANGED <<maps, channels, writer, reader, socket>>

(* io.ReadAll returns: the body is in, or the read failed, and then the    *)
(* request goes on without one.  Nothing but the browser brings this       *)
(* about: the read has no deadline, and the connection's done does not     *)
(* wake it.                                                                *)
ReadBody(r) ==
  /\ hpc[r] = "uploading"
  /\ Goto(r, "resolved")
  /\ UNCHANGED <<target, maps, channels, writer, reader, socket>>

(* The ResponseWriter cannot flush: 500, nothing is sent.  The one that    *)
(* loggingMiddleware (main.go) hands out never can.                        *)
RefuseStream(s) ==
  /\ s \in Streams \ Flushable /\ hpc[s] = "resolved"
  /\ Goto(s, "refused")
  /\ UNCHANGED <<target, maps, channels, writer, reader, socket>>

(* The channel goes into the map before the message goes out.              *)
Enqueue(h) ==
  /\ hpc[h] = "resolved"
  /\ h \in Reqs \union Flushable
  /\ Goto(h, "queued")
  /\ IF h \in Reqs
       THEN /\ pending' = [pending EXCEPT ![target[h]] = @ \union {h}]
            /\ UNCHANGED streams
       ELSE /\ streams' = [streams EXCEPT ![target[h]] = @ \union {h}]
            /\ UNCHANGED pending
  /\ UNCHANGED <<target, channels, writer, reader, socket>>

(* WriteJSON: writeMu.Lock() ...                                           *)
TakeWriter(h) ==
  /\ hpc[h] = "queued"
  /\ writer[target[h]] = Nobody
  /\ Goto(h, "writing")
  /\ writer' = [writer EXCEPT ![target[h]] = h]
  /\ UNCHANGED <<target, maps, channels, reader, socket>>

(* ... and WriteMessage, which has no deadline.  It can succeed as long as *)
(* the Dock has not closed the connection, even if the peer is gone.       *)
WriteOk(h) ==
  /\ hpc[h] = "writing"
  /\ target[h] \notin closed
  /\ Goto(h, IF h \in Reqs THEN "waiting" ELSE "streaming")
  /\ writer' = [writer EXCEPT ![target[h]] = Nobody]
  /\ UNCHANGED <<target, maps, channels, reader, socket>>

(* Mutant: an error path that forgets to unlock writeMu.                   *)
WriteFailsLocked(h) ==
  /\ hpc[h] = "writing"
  /\ target[h] \in closed \/ link[target[h]] = "down"
  /\ Goto(h, "unsend")
  /\ UNCHANGED <<target, maps, channels, writer, reader, socket>>

WriteFails(h) ==
  /\ hpc[h] = "writing"
  /\ target[h] \in closed \/ link[target[h]] = "down"
  /\ Goto(h, "unsend")
  /\ writer' = [writer EXCEPT ![target[h]] = Nobody]
  /\ UNCHANGED <<target, maps, channels, reader, socket>>

(* The channel is taken out of the map again: 502.                         *)
Unsend(h) ==
  /\ hpc[h] = "unsend"
  /\ Goto(h, "failed")
  /\ pending' = [pending EXCEPT ![target[h]] = @ \ {h}]
  /\ streams' = [streams EXCEPT ![target[h]] = @ \ {h}]
  /\ UNCHANGED <<target, channels, writer, reader, socket>>

-----------------------------------------------------------------------------
(* The select of routeToShore: any case that is ready may be taken *)

Collect(r) ==
  /\ hpc[r] = "waiting"
  /\ r \in reply
  /\ Goto(r, "answered")
  /\ reply' = reply \ {r}
  /\ UNCHANGED <<target, maps, frames, ended, sent, lost, got, writer, reader, socket>>

(* Mutant: 504 without CancelPendingRequest.                               *)
TimeOutLeaks(r) ==
  /\ r \in Reqs /\ hpc[r] = "waiting"
  /\ Goto(r, "timedout")
  /\ UNCHANGED <<target, maps, channels, writer, reader, socket>>

(* Mutant: the select has no timer case.                                   *)
NoTimer(r) == FALSE

(* time.After(requestTimeout) fires: first CancelPendingRequest, then 504. *)
TimeOut(r) ==
  /\ r \in Reqs /\ hpc[r] = "waiting"
  /\ Goto(r, "cancelling")
  /\ UNCHANGED <<target, maps, channels, writer, reader, socket>>

CancelPendingRequest(r) ==
  /\ hpc[r] = "cancelling"
  /\ Goto(r, "timedout")
  /\ pending' = [pending EXCEPT ![target[r]] = @ \ {r}]
  /\ UNCHANGED <<target, streams, channels, writer, reader, socket>>

(* Mutant: the select of handleSSERequest has no shore.done case.          *)
DoneForRequestsOnly(h) ==
  /\ hpc[h] = "waiting"
  /\ target[h] \in closed
  /\ Goto(h, "dropped")
  /\ UNCHANGED <<target, maps, channels, writer, reader, socket>>

(* shore.done: 502, or the event stream just ends.  The map is left alone. *)
ShoreDone(h) ==
  /\ hpc[h] \in {"waiting", "streaming"}
  /\ target[h] \in closed
  /\ Goto(h, "dropped")
  /\ UNCHANGED <<target, maps, channels, writer, reader, socket>>

-----------------------------------------------------------------------------
(* The select of handleSSERequest *)

(* Mutant: the frame is written and stays in the channel.                  *)
ForwardFrameTwice(s) ==
  /\ s \in Streams /\ hpc[s] = "streaming"
  /\ frames[s] # <<>> /\ Len(got[s]) < MaxFrames
  /\ got' = [got EXCEPT ![s] = Append(@, Head(frames[s]))]
  /\ UNCHANGED <<hpc, target, maps, reply, frames, ended, sent, lost, writer, reader, socket>>

(* Mutant: a closed channel ends the stream, whatever it still holds.      *)
OverAtOnce(s) ==
  /\ s \in Streams /\ hpc[s] = "streaming"
  /\ s \in ended
  /\ Goto(s, "over")
  /\ UNCHANGED <<target, maps, channels, writer, reader, socket>>

ForwardFrame(s) ==
  /\ s \in Streams /\ hpc[s] = "streaming"
  /\ frames[s] # <<>>
  /\ got' = [got EXCEPT ![s] = Append(@, Head(frames[s]))]
  /\ frames' = [frames EXCEPT ![s] = Tail(@)]
  /\ UNCHANGED <<hpc, target, maps, reply, ended, sent, lost, writer, reader, socket>>

(* A closed channel is received from once its buffer is empty.             *)
StreamOver(s) ==
  /\ s \in Streams /\ hpc[s] = "streaming"
  /\ frames[s] = <<>> /\ s \in ended
  /\ Goto(s, "over")
  /\ UNCHANGED <<target, maps, channels, writer, reader, socket>>

(* Mutant: CloseStream closes the channel but leaves it in the map.        *)
LeavesInMap(s) ==
  /\ s \in Streams /\ hpc[s] = "streaming"
  /\ Goto(s, IF s \in streams[target[s]] THEN "closing" ELSE "left")
  /\ UNCHANGED <<target, maps, channels, writer, reader, socket>>

(* ctx.Done(), the browser has gone: CloseStream takes the channel out of  *)
(* the map and, if it was still there, closes it after releasing mu.       *)
ClientLeaves(s) ==
  /\ s \in Streams /\ hpc[s] = "streaming"
  /\ Goto(s, IF s \in streams[target[s]] THEN "closing" ELSE "left")
  /\ streams' = [streams EXCEPT ![target[s]] = @ \ {s}]
  /\ UNCHANGED <<target, pending, channels, writer, reader, socket>>

CloseLeft(s) ==
  /\ hpc[s] = "closing"
  /\ Goto(s, "left")
  /\ ended' = ended \union {s}
  /\ UNCHANGED <<target, maps, reply, frames, sent, lost, got, writer, reader, socket>>

-----------------------------------------------------------------------------
(* The read loop.  A message whose ID is in no map of this connection, an  *)
(* unknown message and one that does not parse change nothing.  Buffered   *)
(* messages can still be read after the Dock has closed the connection.    *)

CanRead(c) == loop[c] = "reading" /\ link[c] # "silent"

(* What a Shore sends after its registration, besides pings, as far as the *)
(* read loop looks at it: the type and the ID.                             *)
Message == [type : {"http_response", "stream_frame", "stream_end"}, id : Handlers]

(* A Shore can only use an ID that may have been written to it.            *)
Known(h) == hpc[h] \notin {"new", "uploading", "resolved", "queued"}

Pass(c, place, h) == LoopTo(c, place) /\ item' = [item EXCEPT ![c] = h]

(* Mutant: the pending entry is looked up and left in the map.             *)
PeekResponse(c, r) ==
  /\ CanRead(c) /\ Known(r)
  /\ r \in pending[c]
  /\ Pass(c, "responding", r)
  /\ UNCHANGED <<hpc, target, maps, channels, writer, panicked, socket>>

(* DeliverResponse: the pending entry is popped ...                        *)
ReadResponse(c, r) ==
  /\ CanRead(c) /\ Known(r)
  /\ r \in pending[c]
  /\ pending' = [pending EXCEPT ![c] = @ \ {r}]
  /\ Pass(c, "responding", r)
  /\ UNCHANGED <<hpc, target, streams, channels, writer, panicked, socket>>

(* ... and the response is sent to a channel with room for one, or dropped *)
(* if there is one already.                                                *)
DeliverResponse(c) ==
  /\ loop[c] = "responding"
  /\ reply' = reply \union {item[c]}
  /\ Pass(c, "reading", Nobody)
  /\ UNCHANGED <<hpc, target, maps, frames, ended, sent, lost, got, writer, panicked, socket>>

(* DeliverFrame: the channel is looked up under mu ...                     *)
ReadFrame(c, s) ==
  /\ CanRead(c) /\ Known(s)
  /\ s \in streams[c]
  /\ sent[s] < MaxFrames
  /\ sent' = [sent EXCEPT ![s] = @ + 1]
  /\ Pass(c, "framing", s)
  /\ UNCHANGED <<hpc, target, maps, reply, frames, ended, lost, got, writer, panicked, socket>>

(* Mutant: the channel is taken to have room.                              *)
DeliverUnbounded(c) ==
  /\ loop[c] = "framing"
  /\ item[c] \notin ended
  /\ frames' = [frames EXCEPT ![item[c]] = Append(@, sent[item[c]])]
  /\ Pass(c, "reading", Nobody)
  /\ UNCHANGED <<hpc, target, maps, reply, ended, sent, lost, got, writer, panicked, socket>>

(* Mutant: a full channel makes room by dropping its oldest frame.         *)
DropsOldest(c) ==
  LET s == item[c]
      full == Len(frames[s]) = ChanCap
  IN
    /\ loop[c] = "framing"
    /\ s \notin ended
    /\ frames' = [frames EXCEPT ![s] = Append(IF full THEN Tail(@) ELSE @, sent[s])]
    /\ lost' = [lost EXCEPT ![s] = IF full THEN @ + 1 ELSE @]
    /\ Pass(c, "reading", Nobody)
    /\ UNCHANGED <<hpc, target, maps, reply, ended, sent, got, writer, panicked, socket>>

(* ... and used without it: the frame is put in, or dropped if the channel *)
(* is full ...                                                             *)
DeliverFrame(c) ==
  LET s == item[c] IN
    /\ loop[c] = "framing"
    /\ s \notin ended
    /\ IF Len(frames[s]) < ChanCap
         THEN /\ frames' = [frames EXCEPT ![s] = Append(@, sent[s])]
              /\ UNCHANGED lost
         ELSE /\ lost' = [lost EXCEPT ![s] = @ + 1]
              /\ UNCHANGED frames
    /\ Pass(c, "reading", Nobody)
    /\ UNCHANGED <<hpc, target, maps, reply, ended, sent, got, writer, panicked, socket>>

(* ... unless it has been closed by then: a send on a closed channel is a  *)
(* panic, even in a select with a default.  It ends the read loop.         *)
SendOnClosed(c) ==
  /\ loop[c] = "framing"
  /\ item[c] \in ended
  /\ panicked' = panicked \union {c}
  /\ Pass(c, "ended", Nobody)
  /\ UNCHANGED <<hpc, target, maps, channels, writer, socket>>

(* Mutant: stream_end closes the channel but leaves it in the map.         *)
ReadEndLeavesInMap(c, s) ==
  /\ CanRead(c) /\ Known(s)
  /\ s \in streams[c]
  /\ Pass(c, "ending", s)
  /\ UNCHANGED <<hpc, target, maps, channels, writer, panicked, socket>>

(* stream_end: CloseStream, in the same two steps.                         *)
ReadEnd(c, s) ==
  /\ CanRead(c) /\ Known(s)
  /\ s \in streams[c]
  /\ streams' = [streams EXCEPT ![c] = @ \ {s}]
  /\ Pass(c, "ending", s)
  /\ UNCHANGED <<hpc, target, pending, channels, writer, panicked, socket>>

CloseEnded(c) ==
  /\ loop[c] = "ending"
  /\ ended' = ended \union {item[c]}
  /\ Pass(c, "reading", Nobody)
  /\ UNCHANGED <<hpc, target, maps, reply, frames, sent, lost, got, writer, panicked, socket>>

(* The switch of the read loop.                                            *)
Receive(c, m) ==
  \/ m.type = "http_response" /\ ReadResponse(c, m.id)
  \/ m.type = "stream_frame" /\ ReadFrame(c, m.id)
  \/ m.type = "stream_end" /\ ReadEnd(c, m.id)

(* ping: the read loop writes the pong itself and waits for writeMu.       *)
ReadPing(c) ==
  /\ CanRead(c)
  /\ LoopTo(c, "ponging")
  /\ UNCHANGED <<hpc, target, maps, channels, writer, item, panicked, socket>>

TakeWriterForPong(c) ==
  /\ loop[c] = "ponging"
  /\ writer[c] = Nobody
  /\ LoopTo(c, "pongwriting")
  /\ writer' = [writer EXCEPT ![c] = c]
  /\ UNCHANGED <<hpc, target, maps, channels, item, panicked, socket>>

PongOk(c) ==
  /\ loop[c] = "pongwriting"
  /\ c \notin closed
  /\ LoopTo(c, "reading")
  /\ writer' = [writer EXCEPT ![c] = Nobody]
  /\ UNCHANGED <<hpc, target, maps, channels, item, panicked, socket>>

PongFails(c) ==
  /\ loop[c] = "pongwriting"
  /\ c \in closed \/ link[c] = "down"
  /\ LoopTo(c, "ended")
  /\ writer' = [writer EXCEPT ![c] = Nobody]
  /\ UNCHANGED <<hpc, target, maps, channels, item, panicked, socket>>

(* ReadMessage returns an error.                                           *)
ReadFails(c) ==
  /\ loop[c] = "reading"
  /\ LoopTo(c, "ended")
  /\ UNCHANGED <<hpc, target, maps, channels, writer, item, panicked, socket>>

-----------------------------------------------------------------------------
(* The life of a connection, as far as the tunnel is concerned *)

(* Register, and the start of the read loop; S are the connections it      *)
(* replaces.                                                               *)
Start(c, S) ==
  /\ loop[c] = "off"
  /\ LoopTo(c, "reading")
  /\ closed' = closed \union S
  /\ UNCHANGED <<hpc, target, maps, channels, writer, item, panicked, link>>

(* Close, by somebody else than the connection's own handler.              *)
Close(S) ==
  /\ closed' = closed \union S
  /\ UNCHANGED <<hpc, target, maps, channels, writer, reader, link>>

(* Close, by the handler, after the read loop.                             *)
CloseAfterLoop(c) ==
  /\ loop[c] = "ended"
  /\ closed' = closed \union {c}
  /\ link' = [link EXCEPT ![c] = "down"]
  /\ UNCHANGED <<hpc, target, maps, channels, writer, reader>>

(* The Shore's end hangs or goes away.                                     *)
TunLinkFails(c, how) ==
  /\ loop[c] \notin {"off", "ended"}
  /\ link[c] = "up"
  /\ link' = [link EXCEPT ![c] = how]
  /\ UNCHANGED <<hpc, target, maps, channels, writer, reader, closed>>

-----------------------------------------------------------------------------
HandlerNext(h) ==
  \/ Enqueue(h) \/ TakeWriter(h) \/ WriteOk(h) \/ WriteFails(h) \/ Unsend(h)
  \/ ShoreDone(h)

ReqNext(r) == ReadBody(r) \/ Collect(r) \/ TimeOut(r) \/ CancelPendingRequest(r)

StreamNext(s) ==
  \/ RefuseStream(s) \/ ForwardFrame(s) \/ StreamOver(s)
  \/ ClientLeaves(s) \/ CloseLeft(s)

LoopNext(c) ==
  \/ \E m \in Message : Receive(c, m)
  \/ DeliverResponse(c) \/ DeliverFrame(c) \/ CloseEnded(c)
  \/ TakeWriterForPong(c) \/ PongOk(c)

LoopExit(c) == SendOnClosed(c) \/ PongFails(c) \/ ReadFails(c)

(* The steps that concern the tunnel alone.                                *)
Serves ==
  \/ \E h \in Handlers : HandlerNext(h)
  \/ \E r \in Reqs : ReqNext(r)
  \/ \E s \in Streams : StreamNext(s)
  \/ \E c \in Conns : LoopNext(c)

TunNext ==
  \/ Serves
  \/ \E c \in Conns :
       \/ \E h \in Handlers : Resolve(h, c)
       \/ ReadPing(c) \/ LoopExit(c) \/ CloseAfterLoop(c)
       \/ \E S \in SUBSET Conns : Start(c, S)
       \/ \E how \in {"silent", "down"} : TunLinkFails(c, how)
  \/ \E S \in SUBSET Conns : Close(S)

TunSafety == TunInit /\ [][TunNext]_tunVars

(* The peer takes no bytes and gives none, and the Dock has not given up   *)
(* on it: reads and writes of the connection may block for ever.           *)
Stuck(c) == c \in Conns \ closed /\ link[c] = "silent"

(* A handler's goroutine runs when it can; it waits for writeMu in a queue *)
(* (sync.Mutex hands over to a waiter that starves), and a write to a      *)
(* connection that is not stuck returns.  The timer of a waiting request   *)
(* fires, and a browser takes the frames that are written to it.  It need  *)
(* not leave, it need not send its body, and no request need come.         *)
Runs(h) ==
  \/ RefuseStream(h) \/ Enqueue(h) \/ Unsend(h) \/ ShoreDone(h)
  \/ ~Stuck(target[h]) /\ (WriteOk(h) \/ WriteFails(h))
  \/ Collect(h) \/ TimeOut(h) \/ CancelPendingRequest(h)
  \/ ForwardFrame(h) \/ StreamOver(h) \/ CloseLeft(h)

(* So does a read loop, except that it reads nothing unless the Shore      *)
(* sends, and that ReadMessage fails for sure only on a connection that is *)
(* closed at either end.                                                   *)
LoopDelivers(c) ==
  \/ DeliverResponse(c) \/ DeliverFrame(c) \/ CloseEnded(c)
  \/ ~Stuck(c) /\ PongOk(c)

LoopLeaves(c) ==
  \/ SendOnClosed(c) \/ PongFails(c)
  \/ (c \in closed \/ link[c] = "down") /\ ReadFails(c)

LoopRuns(c) == LoopDelivers(c) \/ LoopLeaves(c)

TunFairness ==
  /\ \A h \in Handlers : WF_tunVars(Runs(h)) /\ SF_tunVars(TakeWriter(h))
  /\ \A c \in Conns : WF_tunVars(LoopRuns(c)) /\ SF_tunVars(TakeWriterForPong(c))

TunSpec == TunSafety /\ TunFairness

-----------------------------------------------------------------------------
TunTypeOK ==
  /\ hpc \in [Handlers -> Places]
  /\ target \in [Handlers -> Conns \union {NoConn}]
  /\ pending \in [Conns -> SUBSET Reqs]
  /\ streams \in [Conns -> SUBSET Streams]
  /\ reply \subseteq Reqs
  /\ frames \in [Streams -> Seq(1 .. MaxFrames)]
  /\ \A s \in Streams : Len(frames[s]) <= ChanCap
  /\ ended \subseteq Streams
  /\ sent \in [Streams -> 0 .. MaxFrames]
  /\ lost \in [Streams -> 0 .. MaxFrames]
  /\ got \in [Streams -> Seq(1 .. MaxFrames)]
  /\ writer \in [Conns -> Handlers \union Conns \union {Nobody}]
  /\ loop \in [Conns -> LoopPlaces]
  /\ item \in [Conns -> Handlers \union {Nobody}]
  /\ panicked \subseteq Conns
  /\ closed \subseteq Conns
  /\ link \in [Conns -> {"up", "silent", "down"}]

(* A response that was popped from a pending map always finds room in its  *)
(* channel: the non-blocking send of DeliverResponse never takes its       *)
(* default branch, so no response is dropped between the map and the       *)
(* handler (registry.go DeliverResponse, SendHTTPRequest).                 *)
ReplyFits ==
  \A c \in Conns : loop[c] = "responding" =>
    /\ item[c] \notin reply
    /\ \A d \in Conns : item[c] \notin pending[d]
    /\ \A d \in Conns \ {c} : loop[d] = "responding" => item[d] # item[c]

(* No entry is leaked: a map holds only the channels of handlers that will *)
(* still take theirs out or have it popped, unless the connection is       *)
(* closed, when the map goes with it (gateway.go, every way out of the     *)
(* selects; registry.go, the error paths of SendHTTPRequest, OpenStream).  *)
NoLeak ==
  \A c \in Conns :
    \A h \in pending[c] \union streams[c] :
      /\ target[h] = c
      /\ \/ hpc[h] \in {"queued", "writing", "unsend", "waiting", "cancelling", "streaming"}
         \/ hpc[h] = "dropped" /\ c \in closed

(* A frame channel has one closer: whoever took it out of the map.  The    *)
(* read loop (stream_end) and the handler (browser gone) never both close  *)
(* it, which would be a panic (registry.go CloseStream).                   *)
OneCloser ==
  \A s \in Streams :
    LET closers == {c \in Conns : loop[c] = "ending" /\ item[c] = s} IN
      /\ hpc[s] = "closing" => closers = {}
      /\ \A c, d \in closers : c = d
      /\ (hpc[s] = "closing" \/ closers # {} \/ \E c \in Conns : s \in streams[c])
            => s \notin ended

(* writeMu is held by one goroutine that is in WriteMessage, and by none   *)
(* that has left it: gorilla's one-writer rule, and no lock is leaked by   *)
(* a failing write (registry.go WriteJSON).                                *)
OneWriter ==
  \A c \in Conns :
    {h \in Handlers : hpc[h] = "writing" /\ target[h] = c}
      \union (IF loop[c] = "pongwriting" THEN {c} ELSE {})
    = {writer[c]} \ {Nobody}

(* The browser sees a stream's frames in the order the Shore sent them,    *)
(* each at most once (registry.go DeliverFrame; gateway.go                 *)
(* handleSSERequest).                                                      *)
FramesInOrder ==
  \A s \in Streams :
    LET seen == got[s] \o frames[s] IN
      \A i, j \in 1 .. Len(seen) : i < j => seen[i] < seen[j]

(* A stream the Shore ended normally was delivered whole, but for frames a *)
(* full channel made the read loop drop: what was buffered when            *)
(* stream_end closed the channel is still forwarded (gateway.go            *)
(* handleSSERequest).                                                      *)
OverIsComplete ==
  \A s \in Streams : hpc[s] = "over" => Len(got[s]) + lost[s] = sent[s]

(* The one panic there is: the read loop found the channel of a frame, and *)
(* before the frame was sent the browser left and the handler closed the   *)
(* channel.  After a stream_end no frame finds the channel (registry.go    *)
(* DeliverFrame, CloseStream).                                             *)
PanicHasLeaver ==
  \A c \in panicked : \E s \in Streams : target[s] = c /\ hpc[s] = "left" /\ s \in ended

(* Once its body has been read, every request comes to its answer: a       *)
(* response, a 504, or a 502, unless its connection is stuck (gateway.go   *)
(* routeToShore).  Before that the browser alone keeps it waiting.         *)
RequestEnds ==
  \A r \in Reqs : (hpc[r] = "resolved") ~> (hpc[r] \in Finished \/ Stuck(target[r]))

(* Once the Dock has closed a connection, every handler on it comes to an  *)
(* end, also those that wait for writeMu or sit in a blocked write; only   *)
(* one that is still reading its browser's body is not woken (registry.go  *)
(* Close; gateway.go, case <-shore.done).                                  *)
CloseEndsAll ==
  \A h \in Handlers :
    (hpc[h] \notin {"new", "uploading"} /\ target[h] \in closed)
      ~> (hpc[h] \in Finished)

(* What the browser is promised.  A request's fate is decided when a case  *)
(* of its handler's select is taken, or its write has failed, whatever the *)
(* handler still has to clean up; a frame counts once it has been put into *)
(* the channel or dropped.                                                 *)
Fate(h) ==
  IF hpc[h] = "cancelling" THEN "timedout"
  ELSE IF hpc[h] = "closing" THEN "left"
  ELSE IF hpc[h] = "unsend" THEN "failed"
  ELSE IF hpc[h] \in Finished \union {"new"} THEN hpc[h]
  ELSE "open"

IsOpen(h) == Fate(h) = "open"
InHand(s) == \E c \in Conns : loop[c] = "framing" /\ item[c] = s
Counted(s) == IF InHand(s) THEN sent[s] - 1 ELSE sent[s]

Broker == INSTANCE RequestBroker WITH
  Buffer <- ChanCap,
  fate <- [h \in Reqs \union Streams |-> Fate(h)],
  given <- {r \in reply : IsOpen(r)},
  done <- {s \in ended : IsOpen(s)},
  taken <- [s \in Streams |-> IF IsOpen(s) THEN Counted(s) ELSE 0],
  inbox <- [s \in Streams |-> IF IsOpen(s) THEN frames[s] ELSE <<>>],
  shown <- got

(* The tunnel, with its maps, locks, channels and goroutines, keeps the    *)
(* broker's promises (gateway.go routeToShore, handleSSERequest;           *)
(* registry.go; shore_handler.go runShoreReadLoop).                        *)
BrokerHolds == Broker!BrokerSpec

-----------------------------------------------------------------------------
(* What the documentation says and the code does not do. *)

(* "handleSSERequest opens a stream_start channel to Shore and forwards    *)
(* stream_frame messages to the browser as a live SSE stream"              *)
(* (gateway.go:137-138): no event stream is refused by the Dock itself.    *)
StreamIsOpened == \A s \in Streams : hpc[s] # "refused"
=============================================================================
