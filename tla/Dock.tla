-------------------------------- MODULE Dock --------------------------------
(***************************************************************************)
(* The registry and the tunnel together: the goroutine of a connection is  *)
(* the handler of ShoreRegistry and the read loop of ShoreConnection at    *)
(* once, requests are routed to listed connections, and a connection is    *)
(* closed by its successor, by the reaper or by its own handler.           *)
(*                                                                         *)
(* A step here is a step of one of the two modules that leaves the other's *)
(* state alone, or one of each at once where the code does both: each      *)
(* module's actions are used as they are.                                  *)
(***************************************************************************)
EXTENDS Naturals, Sequences

CONSTANTS Conns, Names, NoConn, NoName, MTLS, StaleTicks,
          Reqs, Streams, Nobody, Flushable, ChanCap, MaxFrames

ASSUME DockAssumption ==
  /\ NoConn \notin Conns
  /\ NoName \notin Names
  /\ MTLS \in BOOLEAN
  /\ StaleTicks \in Nat
  /\ Reqs \intersect Streams = {}
  /\ Nobody \notin Reqs \union Streams \union Conns
  /\ (Reqs \union Streams) \intersect Conns = {}
  /\ Flushable \subseteq Streams
  /\ ChanCap \in Nat \ {0}
  /\ MaxFrames \in Nat

VARIABLES phase, cn, name, shores, age,
          hpc, target, pending, streams, reply, frames, ended, sent, lost,
          got, writer, loop, item, panicked,
          closed, link

Reg == INSTANCE ShoreRegistry
Tun == INSTANCE ShoreConnection

registryOnly == <<phase, cn, name, shores, age>>
tunnelOnly == <<hpc, target, pending, streams, reply, frames, ended, sent, lost,
                got, writer, loop, item, panicked>>
dockVars == <<registryOnly, tunnelOnly, closed, link>>

Handlers == Reqs \union Streams

DockInit == Reg!RegInit /\ Tun!TunInit

-----------------------------------------------------------------------------
(* Steps of the connection's handler that do not touch the tunnel.         *)
Control(c) ==
  /\ \/ \E cert \in Reg!Certs : Reg!Accept(c, cert)
     \/ Reg!Refuse(c)
     \/ \E n \in Names \union {NoName} : Reg!Announce(c, n)
     \/ Reg!Unregister(c)
  /\ UNCHANGED tunnelOnly

HandshakeFails(c) == Reg!HandshakeFails(c) /\ Tun!Close({c})

(* registry.Register, then runShoreReadLoop.                               *)
Register(c) == Reg!Register(c) /\ Tun!Start(c, {shores[name[c]]} \ {NoConn})

(* LastPing is set, then the pong is written.                              *)
Ping(c) == Reg!Ping(c) /\ Tun!ReadPing(c)

(* Mutant: after a panic the deferred function does not run.               *)
ExitSkipsDefer(c) == Tun!LoopExit(c) /\ UNCHANGED registryOnly

(* The read loop returns or panics: the deferred function runs.            *)
LoopExit(c) == Reg!ReadLoopEnds(c) /\ Tun!LoopExit(c)

CloseSelf(c) == Reg!CloseSelf(c) /\ Tun!CloseAfterLoop(c)

(* Mutant: the reaper closes connections but leaves them in the map.       *)
ReapLeavesEntries(stale) ==
  /\ stale = Reg!SurelyStale
  /\ Tun!Close(stale)
  /\ UNCHANGED registryOnly

(* Mutant: Close takes writeMu, to say goodbye on the WebSocket.           *)
ReapWaitsForWriters(stale) ==
  /\ \A c \in stale : writer[c] = Nobody
  /\ Reg!Reap(stale) /\ Tun!Close(stale)

(* The reaper; Close takes no lock that a blocked reader or writer holds.  *)
Reap(stale) == Reg!Reap(stale) /\ Tun!Close(stale)

Tick == Reg!Tick /\ UNCHANGED tunnelOnly

LinkFails(c, how) == Reg!LinkFails(c, how) /\ Tun!TunLinkFails(c, how)

(* Mutant: a request whose write failed is resolved again and retried.     *)
ResolveRetries(h, c) ==
  /\ Reg!Listed(c)
  /\ hpc[h] \in {"new", "unsend"}
  /\ hpc' = [hpc EXCEPT ![h] = "resolved"]
  /\ target' = [target EXCEPT ![h] = c]
  /\ UNCHANGED <<registryOnly, pending, streams, reply, frames, ended, sent, lost,
                 got, writer, loop, item, panicked, closed, link>>

(* Mutant: a connection that was looked up once is used for ever.          *)
ResolveCached(h, c) ==
  /\ name[c] # NoName
  /\ Tun!Resolve(h, c)
  /\ UNCHANGED registryOnly

(* resolveShore looks the connection up in the registry.                   *)
Resolve(h, c) == Reg!Listed(c) /\ Tun!Resolve(h, c) /\ UNCHANGED registryOnly

(* Everything else a request's handler or a read loop does.                *)
Serve == Tun!Serves /\ UNCHANGED registryOnly

DockNext ==
  \/ \E c \in Conns :
       \/ Control(c) \/ HandshakeFails(c) \/ Register(c)
       \/ Ping(c) \/ LoopExit(c) \/ CloseSelf(c)
       \/ \E how \in {"silent", "down"} : LinkFails(c, how)
       \/ \E h \in Handlers : Resolve(h, c)
  \/ \E stale \in SUBSET Conns : Reap(stale)
  \/ Tick
  \/ Serve

DockSafety == DockInit /\ [][DockNext]_dockVars

-----------------------------------------------------------------------------
(* The fairness of the two modules, on the steps as they are here.         *)
HandlerRuns(c) ==
  \/ HandshakeFails(c) \/ Register(c) \/ CloseSelf(c)
  \/ Reg!Unregister(c) /\ UNCHANGED tunnelOnly
  \/ Tun!LoopDelivers(c) /\ UNCHANGED registryOnly
  \/ Tun!LoopLeaves(c) /\ Reg!ReadLoopEnds(c)

DockFairness ==
  /\ \A h \in Handlers :
       /\ WF_dockVars(Tun!Runs(h) /\ UNCHANGED registryOnly)
       /\ SF_dockVars(Tun!TakeWriter(h) /\ UNCHANGED registryOnly)
  /\ \A c \in Conns :
       /\ WF_dockVars(HandlerRuns(c))
       /\ SF_dockVars(Tun!TakeWriterForPong(c) /\ UNCHANGED registryOnly)
  /\ WF_dockVars(Tick)
  /\ WF_dockVars(Reg!SurelyStale # {} /\ \E stale \in SUBSET Conns : Reap(stale))

DockSpec == DockSafety /\ DockFairness

-----------------------------------------------------------------------------
(* The connection's handler and its read loop are one goroutine.           *)
OneGoroutine ==
  \A c \in Conns :
    /\ loop[c] = "off" <=> phase[c] \in {"idle", "upgraded", "registering"}
                             \/ (phase[c] = "gone" /\ name[c] = NoName)
    /\ loop[c] = "ended" <=> phase[c] \in {"unregister", "close"}
                             \/ (phase[c] = "gone" /\ name[c] # NoName)

(* Put together, the registry is still the registry and the tunnel still   *)
(* the tunnel: what is shown of each holds in the whole Dock.              *)
RegistryHolds == Reg!RegSpec
TunnelHolds == Tun!TunSafety

(* The Dock as a whole: what the directory and the broker promise, and     *)
(* that a request, its outcome and the connection it was given belong      *)
(* together (gateway.go resolveShore, routeToShore, handleSSERequest;      *)
(* registry.go Register, Unregister, reap; shore_handler.go                *)
(* runShoreReadLoop).                                                      *)
Gw == INSTANCE Gateway WITH
  Buffer <- ChanCap,
  entry <- shores,
  used <- Reg!usedBar,
  open <- Reg!usedBar \ closed,
  fate <- [h \in Reqs \union Streams |-> Tun!Fate(h)],
  given <- {r \in reply : Tun!IsOpen(r)},
  done <- {s \in ended : Tun!IsOpen(s)},
  taken <- [s \in Streams |-> IF Tun!IsOpen(s) THEN Tun!Counted(s) ELSE 0],
  inbox <- [s \in Streams |-> IF Tun!IsOpen(s) THEN frames[s] ELSE <<>>],
  shown <- got,
  book <- {<<c, name[c]>> : c \in Reg!usedBar},
  heard <- {c \in Conns : loop[c] \notin {"off", "ended"}},
  via <- target

GatewayHolds == Gw!GwSpec

(* A hung Shore's handler comes to its end, although its read loop and its *)
(* writers may all be blocked on it (a pong behind a blocked write): the   *)
(* reaper closes the connection and everyone unwinds.  An orphan is out of *)
(* the reaper's reach (registry.go reap, Close, WriteJSON;                 *)
(* shore_handler.go, the pong and the deferred calls).                     *)
HungEndsOrOrphan ==
  \A c \in Conns :
    (phase[c] = "looping" /\ link[c] = "silent") ~> (phase[c] = "gone" \/ Reg!Orphan(c))

(* A browser request whose body has been read comes to its answer, unless  *)
(* the connection it was routed to has become an orphan: the only thing    *)
(* that ends a blocked write is a Close, and only a listed connection is   *)
(* ever closed by the reaper (gateway.go routeToShore; registry.go         *)
(* WriteJSON, reap).                                                       *)
RequestEndsOrOrphan ==
  \A r \in Reqs :
    (hpc[r] = "resolved") ~>
      (hpc[r] \in Tun!Finished \/ \E c \in Conns : c = target[r] /\ Reg!Orphan(c))

(* What the documentation says and the code does not do: "Waits up to      *)
(* requestTimeout = 30 * time.Second for the response"                     *)
(* (docs/hermit-federation-architecture.md:124): every request whose body  *)
(* has been read ends.                                                     *)
RequestEnds ==
  \A r \in Reqs : (hpc[r] = "resolved") ~> (hpc[r] \in Tun!Finished)
=============================================================================
