----------------------------- MODULE DockProofs -----------------------------
(***************************************************************************)
(* Proofs about Dock: put together, the registry is still the registry and *)
(* the tunnel still the tunnel, for any connections, names and requests.   *)
(* What ShoreRegistryProofs shows of RegSpec and ShoreConnectionProofs of  *)
(* TunSafety therefore holds in the whole Dock.                            *)
(*                                                                         *)
(* The steps of one module that need a fact of the other: Register closes  *)
(* the connection it replaces, which must be one (Entries), and the places *)
(* of a handler and of its read loop must agree (OneGoroutine), which      *)
(* needs to know when a connection has its name (Named).                   *)
(***************************************************************************)
EXTENDS Dock, TLAPS

RP == INSTANCE ShoreRegistryProofs
TP == INSTANCE ShoreConnectionProofs

Entries ==
  /\ shores \in [Names -> Conns \union {NoConn}]
  /\ phase \in [Conns -> Reg!Phases]
  /\ cn \in [Conns -> Names \union {NoName}]
  /\ name \in [Conns -> Names \union {NoName}]
  /\ loop \in [Conns -> Tun!LoopPlaces]

Named ==
  \A c \in Conns :
    /\ phase[c] \in {"idle", "upgraded"} => name[c] = NoName
    /\ phase[c] \in {"registering", "looping", "unregister", "close"} => name[c] \in Names

DockInv == Entries /\ Named /\ OneGoroutine

-----------------------------------------------------------------------------
(* A step of the tunnel that the registry takes no part in leaves the      *)
(* sockets alone, and starts or ends no read loop.                         *)
LEMMA ServesSteps ==
  ASSUME Tun!Serves, loop \in [Conns -> Tun!LoopPlaces]
  PROVE  /\ UNCHANGED <<closed, link>>
         /\ loop' \in [Conns -> Tun!LoopPlaces]
         /\ \A c \in Conns : /\ loop'[c] = "off" <=> loop[c] = "off"
                             /\ loop'[c] = "ended" <=> loop[c] = "ended"
<1> USE DEF Tun!maps, Tun!channels, Tun!reader, Tun!socket, Tun!LoopPlaces
<1>1. ASSUME NEW h \in Tun!Handlers, Tun!HandlerNext(h) PROVE UNCHANGED <<closed, link, loop>>
  BY <1>1 DEF Tun!HandlerNext, Tun!Enqueue, Tun!TakeWriter, Tun!WriteOk, Tun!WriteFails,
              Tun!Unsend, Tun!ShoreDone
<1>2. ASSUME NEW r \in Reqs, Tun!ReqNext(r) PROVE UNCHANGED <<closed, link, loop>>
  BY <1>2 DEF Tun!ReqNext, Tun!ReadBody, Tun!Collect, Tun!TimeOut, Tun!CancelPendingRequest
<1>3. ASSUME NEW s \in Streams, Tun!StreamNext(s) PROVE UNCHANGED <<closed, link, loop>>
  BY <1>3 DEF Tun!StreamNext, Tun!RefuseStream, Tun!ForwardFrame, Tun!StreamOver,
              Tun!ClientLeaves, Tun!CloseLeft
<1>4. ASSUME NEW c \in Conns, Tun!LoopNext(c)
      PROVE  /\ UNCHANGED <<closed, link>>
             /\ \E place \in Tun!LoopPlaces \ {"off", "ended"} :
                  loop' = [loop EXCEPT ![c] = place]
             /\ loop[c] \notin {"off", "ended"}
  <2>1. ASSUME NEW m \in Tun!Message, Tun!Receive(c, m)
        PROVE  /\ UNCHANGED <<closed, link>>
               /\ \E place \in Tun!LoopPlaces \ {"off", "ended"} :
                    loop' = [loop EXCEPT ![c] = place]
               /\ loop[c] \notin {"off", "ended"}
    BY <2>1 DEF Tun!Receive, Tun!ReadResponse, Tun!ReadFrame, Tun!ReadEnd, Tun!CanRead,
                Tun!Pass, Tun!LoopTo
  <2> QED
    BY <1>4, <2>1
    DEF Tun!LoopNext, Tun!DeliverResponse, Tun!DeliverFrame, Tun!CloseEnded,
        Tun!TakeWriterForPong, Tun!PongOk, Tun!Pass, Tun!LoopTo
<1> QED BY <1>1, <1>2, <1>3, <1>4 DEF Tun!Serves

-----------------------------------------------------------------------------
(* The registry *)

LEMMA RegistrySteps ==
  ASSUME DockInv, [DockNext]_dockVars PROVE [Reg!RegNext]_(Reg!regVars)
<1>1. ASSUME NEW c \in Conns, Control(c) PROVE Reg!RegNext
  BY <1>1 DEF Control, Reg!RegNext
<1>2. ASSUME NEW c \in Conns,
             HandshakeFails(c) \/ Register(c) \/ Ping(c) \/ LoopExit(c) \/ CloseSelf(c)
      PROVE  Reg!RegNext
  BY <1>2 DEF HandshakeFails, Register, Ping, LoopExit, CloseSelf, Reg!RegNext
<1>3. ASSUME NEW c \in Conns, NEW how \in {"silent", "down"}, LinkFails(c, how)
      PROVE  Reg!RegNext
  BY <1>3 DEF LinkFails, Reg!RegNext
<1>4. ASSUME NEW h \in Handlers, NEW c \in Conns, Resolve(h, c)
      PROVE  UNCHANGED Reg!regVars
  BY <1>4 DEF Resolve, Tun!Resolve, Tun!socket, registryOnly, Reg!regVars
<1>5. ASSUME NEW stale \in SUBSET Conns, Reap(stale) PROVE Reg!RegNext
  BY <1>5 DEF Reap, Reg!RegNext
<1>6. ASSUME Tick PROVE Reg!RegNext BY <1>6 DEF Tick, Reg!RegNext
<1>7. ASSUME Serve PROVE UNCHANGED Reg!regVars
  BY <1>7, ServesSteps DEF Serve, registryOnly, Reg!regVars, DockInv, Entries
<1>8. CASE UNCHANGED dockVars
  BY <1>8 DEF dockVars, registryOnly, Reg!regVars
<1> QED
  BY <1>1, <1>2, <1>3, <1>4, <1>5, <1>6, <1>7, <1>8 DEF DockNext

-----------------------------------------------------------------------------
(* The tunnel *)

LEMMA TunnelSteps ==
  ASSUME DockInv, [DockNext]_dockVars PROVE [Tun!TunNext]_(Tun!tunVars)
<1>1. ASSUME NEW c \in Conns, Control(c) PROVE UNCHANGED Tun!tunVars
  BY <1>1 DEF Control, Reg!Accept, Reg!Refuse, Reg!Announce, Reg!Unregister,
              tunnelOnly, Tun!tunVars
<1>2. ASSUME NEW c \in Conns, HandshakeFails(c) PROVE Tun!TunNext
  <2>1. {c} \in SUBSET Conns OBVIOUS
  <2> QED BY <1>2, <2>1 DEF HandshakeFails, Tun!TunNext
<1>3. ASSUME NEW c \in Conns, Register(c) PROVE Tun!TunNext
  <2>1. name[c] \in Names BY <1>3 DEF Register, Reg!Register, DockInv, Named
  <2>2. {shores[name[c]]} \ {NoConn} \in SUBSET Conns BY <2>1 DEF DockInv, Entries
  <2> QED BY <1>3, <2>2 DEF Register, Tun!TunNext
<1>4. ASSUME NEW c \in Conns, Ping(c) \/ LoopExit(c) \/ CloseSelf(c) PROVE Tun!TunNext
  BY <1>4 DEF Ping, LoopExit, CloseSelf, Tun!TunNext
<1>5. ASSUME NEW c \in Conns, NEW how \in {"silent", "down"}, LinkFails(c, how)
      PROVE  Tun!TunNext
  BY <1>5 DEF LinkFails, Tun!TunNext
<1>6. ASSUME NEW h \in Handlers, NEW c \in Conns, Resolve(h, c) PROVE Tun!TunNext
  BY <1>6 DEF Resolve, Tun!TunNext, Handlers, Tun!Handlers
<1>7. ASSUME NEW stale \in SUBSET Conns, Reap(stale) PROVE Tun!TunNext
  BY <1>7 DEF Reap, Tun!TunNext
<1>8. ASSUME Tick PROVE UNCHANGED Tun!tunVars
  BY <1>8 DEF Tick, Reg!Tick, tunnelOnly, Tun!tunVars
<1>9. ASSUME Serve PROVE Tun!TunNext BY <1>9 DEF Serve, Tun!TunNext
<1>10. CASE UNCHANGED dockVars
  BY <1>10 DEF dockVars, tunnelOnly, Tun!tunVars
<1> QED
  BY <1>1, <1>2, <1>3, <1>4, <1>5, <1>6, <1>7, <1>8, <1>9, <1>10 DEF DockNext

-----------------------------------------------------------------------------
(* The two in step *)

LEMMA DockSteps == ASSUME DockInv, [DockNext]_dockVars PROVE DockInv'
<1> USE DockAssumption DEF DockInv, Entries, Named, OneGoroutine, Reg!Phases, Tun!LoopPlaces
<1>1. ASSUME NEW c \in Conns, Control(c) PROVE DockInv'
  <2>1. ASSUME NEW cert \in Reg!Certs, Reg!Accept(c, cert), UNCHANGED tunnelOnly PROVE DockInv'
    BY <2>1 DEF Reg!Accept, Reg!Certs, tunnelOnly
  <2>2. ASSUME Reg!Refuse(c), UNCHANGED tunnelOnly PROVE DockInv'
    BY <2>2 DEF Reg!Refuse, tunnelOnly
  <2>3. ASSUME NEW n \in Names \union {NoName}, Reg!Announce(c, n), UNCHANGED tunnelOnly
        PROVE  DockInv'
    BY <2>3 DEF Reg!Announce, Reg!ResolvedName, tunnelOnly
  <2>4. ASSUME Reg!Unregister(c), UNCHANGED tunnelOnly PROVE DockInv'
    BY <2>4 DEF Reg!Unregister, tunnelOnly
  <2> QED BY <1>1, <2>1, <2>2, <2>3, <2>4 DEF Control
<1>2. ASSUME NEW c \in Conns, HandshakeFails(c) PROVE DockInv'
  BY <1>2 DEF HandshakeFails, Reg!HandshakeFails, Tun!Close, Tun!reader
<1>3. ASSUME NEW c \in Conns, Register(c) PROVE DockInv'
  BY <1>3 DEF Register, Reg!Register, Tun!Start, Tun!LoopTo
<1>4. ASSUME NEW c \in Conns, Ping(c) PROVE DockInv'
  BY <1>4 DEF Ping, Reg!Ping, Tun!ReadPing, Tun!CanRead, Tun!LoopTo
<1>5. ASSUME NEW c \in Conns, LoopExit(c) PROVE DockInv'
  BY <1>5 DEF LoopExit, Reg!ReadLoopEnds, Tun!LoopExit, Tun!SendOnClosed, Tun!PongFails,
              Tun!ReadFails, Tun!Pass, Tun!LoopTo
<1>6. ASSUME NEW c \in Conns, CloseSelf(c) PROVE DockInv'
  BY <1>6 DEF CloseSelf, Reg!CloseSelf, Tun!CloseAfterLoop, Tun!reader
<1>7. ASSUME NEW c \in Conns, NEW how \in {"silent", "down"}, LinkFails(c, how) PROVE DockInv'
  BY <1>7 DEF LinkFails, Reg!LinkFails, Tun!TunLinkFails, Tun!reader
<1>8. ASSUME NEW h \in Handlers, NEW c \in Conns, Resolve(h, c) PROVE DockInv'
  BY <1>8 DEF Resolve, Tun!Resolve, Tun!reader, registryOnly
<1>9. ASSUME NEW stale \in SUBSET Conns, Reap(stale) PROVE DockInv'
  BY <1>9 DEF Reap, Reg!Reap, Tun!Close, Tun!reader
<1>10. ASSUME Tick PROVE DockInv'
  BY <1>10 DEF Tick, Reg!Tick, tunnelOnly
<1>11. ASSUME Serve PROVE DockInv'
  BY <1>11, ServesSteps DEF Serve, registryOnly
<1>12. CASE UNCHANGED dockVars
  BY <1>12 DEF dockVars, registryOnly, tunnelOnly
<1> HIDE DEF DockInv, Entries, Named, OneGoroutine, Reg!Phases, Tun!LoopPlaces
<1> QED
  BY <1>1, <1>2, <1>3, <1>4, <1>5, <1>6, <1>7, <1>8, <1>9, <1>10, <1>11, <1>12
  DEF DockNext

THEOREM DockInvHolds == DockSafety => []DockInv
<1>1. DockInit => DockInv
  BY DockAssumption
  DEF DockInit, Reg!RegInit, Tun!TunInit, DockInv, Entries, Named, OneGoroutine,
      Reg!Phases, Tun!LoopPlaces
<1> QED BY <1>1, DockSteps, PTL DEF DockSafety

(* The connection's handler and its read loop move as one goroutine.       *)
THEOREM HandlerAndLoopAgree == DockSafety => []OneGoroutine
BY DockInvHolds, PTL DEF DockInv

(* Every behaviour of the Dock is one of the registry.                     *)
THEOREM DockHasARegistry == DockSafety => RegistryHolds
<1>1. DockInit => Reg!RegInit BY DEF DockInit
<1> QED BY <1>1, RegistrySteps, DockInvHolds, PTL
        DEF DockSafety, RegistryHolds, Reg!RegSpec

(* Every behaviour of the Dock is one of the tunnel.                       *)
THEOREM DockHasATunnel == DockSafety => TunnelHolds
<1>1. DockInit => Tun!TunInit BY DEF DockInit
<1> QED BY <1>1, TunnelSteps, DockInvHolds, PTL
        DEF DockSafety, TunnelHolds, Tun!TunSafety

-----------------------------------------------------------------------------
(* What is proved of the parts *)

(* The proof modules have the definitions of the parts once more, under    *)
(* names of their own: they are the same.                                  *)
LEMMA SameRegistry ==
  /\ RP!RegistryAssumption
  /\ Reg!RegInit <=> RP!RegInit
  /\ Reg!RegNext <=> RP!RegNext
  /\ UNCHANGED Reg!regVars <=> UNCHANGED RP!regVars
<1>1. RP!RegistryAssumption BY DockAssumption DEF RP!RegistryAssumption
<1>2. Reg!RegInit <=> RP!RegInit BY DEF Reg!RegInit, RP!RegInit
<1>3. UNCHANGED Reg!regVars <=> UNCHANGED RP!regVars BY DEF Reg!regVars, RP!regVars
<1>4. Reg!RegNext <=> RP!RegNext
  BY DEF Reg!RegNext, Reg!Accept, Reg!Refuse, Reg!Announce, Reg!HandshakeFails, Reg!Register,
         Reg!Ping, Reg!ReadLoopEnds, Reg!Unregister, Reg!CloseSelf, Reg!LinkFails, Reg!Reap,
         Reg!Tick, Reg!Certs, Reg!ResolvedName, Reg!SurelyStale, Reg!MaybeStale, Reg!Listed,
         RP!RegNext, RP!Accept, RP!Refuse, RP!Announce, RP!HandshakeFails, RP!Register,
         RP!Ping, RP!ReadLoopEnds, RP!Unregister, RP!CloseSelf, RP!LinkFails, RP!Reap,
         RP!Tick, RP!Certs, RP!ResolvedName, RP!SurelyStale, RP!MaybeStale, RP!Listed
<1> QED BY <1>1, <1>2, <1>3, <1>4

LEMMA SameTunnel ==
  /\ TP!TunnelAssumption
  /\ Tun!TunInit <=> TP!TunInit
  /\ Tun!Serves <=> TP!Serves
  /\ \A c \in Conns, h \in Handlers : Tun!Resolve(h, c) <=> TP!Resolve(h, c)
  /\ \A c \in Conns :
       /\ Tun!ReadPing(c) <=> TP!ReadPing(c)
       /\ Tun!LoopExit(c) <=> TP!LoopExit(c)
       /\ Tun!CloseAfterLoop(c) <=> TP!CloseAfterLoop(c)
       /\ \A S \in SUBSET Conns : Tun!Start(c, S) <=> TP!Start(c, S)
       /\ \A how \in {"silent", "down"} : Tun!TunLinkFails(c, how) <=> TP!TunLinkFails(c, how)
  /\ \A S \in SUBSET Conns : Tun!Close(S) <=> TP!Close(S)
  /\ UNCHANGED Tun!tunVars <=> UNCHANGED TP!tunVars
<1> USE DEF Tun!Handlers, TP!Handlers, Tun!maps, Tun!channels, Tun!reader, Tun!socket,
            TP!maps, TP!channels, TP!reader, TP!socket, Tun!Goto, TP!Goto, Tun!LoopTo, TP!LoopTo,
            Tun!Pass, TP!Pass, Tun!CanRead, TP!CanRead, Tun!Known, TP!Known
<1>1. TP!TunnelAssumption BY DockAssumption DEF TP!TunnelAssumption
<1>2. Tun!TunInit <=> TP!TunInit BY DEF Tun!TunInit, TP!TunInit
<1>3. UNCHANGED Tun!tunVars <=> UNCHANGED TP!tunVars BY DEF Tun!tunVars, TP!tunVars
<1>4. Tun!Serves <=> TP!Serves
  BY DEF Tun!Serves, Tun!HandlerNext, Tun!ReqNext, Tun!StreamNext, Tun!LoopNext, Tun!Enqueue,
         Tun!TakeWriter, Tun!WriteOk, Tun!WriteFails, Tun!Unsend, Tun!ShoreDone, Tun!Collect,
         Tun!ReadBody, Tun!TimeOut, Tun!CancelPendingRequest, Tun!RefuseStream, Tun!ForwardFrame,
         Tun!StreamOver, Tun!ClientLeaves, Tun!CloseLeft, Tun!Message, Tun!Receive,
         Tun!ReadResponse, Tun!ReadFrame, Tun!ReadEnd, Tun!DeliverResponse, Tun!DeliverFrame,
         Tun!CloseEnded, Tun!TakeWriterForPong, Tun!PongOk,
         TP!Serves, TP!HandlerNext, TP!ReqNext, TP!StreamNext, TP!LoopNext, TP!Enqueue,
         TP!TakeWriter, TP!WriteOk, TP!WriteFails, TP!Unsend, TP!ShoreDone, TP!Collect,
         TP!ReadBody, TP!TimeOut, TP!CancelPendingRequest, TP!RefuseStream, TP!ForwardFrame,
         TP!StreamOver, TP!ClientLeaves, TP!CloseLeft, TP!Message, TP!Receive,
         TP!ReadResponse, TP!ReadFrame, TP!ReadEnd, TP!DeliverResponse, TP!DeliverFrame,
         TP!CloseEnded, TP!TakeWriterForPong, TP!PongOk
<1>5. \A c \in Conns, h \in Handlers : Tun!Resolve(h, c) <=> TP!Resolve(h, c)
  BY DEF Tun!Resolve, TP!Resolve
<1>6. \A c \in Conns :
       /\ Tun!ReadPing(c) <=> TP!ReadPing(c)
       /\ Tun!LoopExit(c) <=> TP!LoopExit(c)
       /\ Tun!CloseAfterLoop(c) <=> TP!CloseAfterLoop(c)
  BY DEF Tun!ReadPing, TP!ReadPing, Tun!CloseAfterLoop, TP!CloseAfterLoop,
         Tun!LoopExit, Tun!SendOnClosed, Tun!PongFails, Tun!ReadFails,
         TP!LoopExit, TP!SendOnClosed, TP!PongFails, TP!ReadFails
<1>7. \A c \in Conns :
       /\ \A S \in SUBSET Conns : Tun!Start(c, S) <=> TP!Start(c, S)
       /\ \A how \in {"silent", "down"} : Tun!TunLinkFails(c, how) <=> TP!TunLinkFails(c, how)
  BY DEF Tun!Start, TP!Start, Tun!TunLinkFails, TP!TunLinkFails
<1>8. \A S \in SUBSET Conns : Tun!Close(S) <=> TP!Close(S) BY DEF Tun!Close, TP!Close
<1> QED BY <1>1, <1>2, <1>3, <1>4, <1>5, <1>6, <1>7, <1>8

LEMMA SameTunnelSteps == Tun!TunNext <=> TP!TunNext
BY SameTunnel DEF Tun!TunNext, TP!TunNext, Handlers, Tun!Handlers, TP!Handlers

(* So the invariants of both hold beside that of the Dock.                 *)
WholeInv == DockInv /\ RP!RegInv /\ TP!TunInv

LEMMA RegistrySpecs == DockSafety => RP!RegSpec
<1>1. DockInit => RP!RegInit BY SameRegistry DEF DockInit
<1>2. DockInv /\ [DockNext]_dockVars => [RP!RegNext]_(RP!regVars)
  BY RegistrySteps, SameRegistry
<1> QED BY <1>1, <1>2, DockInvHolds, PTL DEF DockSafety, RP!RegSpec

LEMMA TunnelSpecs == DockSafety => TP!TunSafety
<1>1. DockInit => TP!TunInit BY SameTunnel DEF DockInit
<1>2. DockInv /\ [DockNext]_dockVars => [TP!TunNext]_(TP!tunVars)
  BY TunnelSteps, SameTunnel, SameTunnelSteps
<1> QED BY <1>1, <1>2, DockInvHolds, PTL DEF DockSafety, TP!TunSafety

THEOREM WholeInvHolds == DockSafety => []WholeInv
<1>1. RP!RegSpec => []RP!RegInv BY SameRegistry, RP!RegInvHolds
<1>2. TP!TunSafety => []TP!TunInv BY SameTunnel, TP!TunnelInvariant
<1> QED BY <1>1, <1>2, DockInvHolds, RegistrySpecs, TunnelSpecs, PTL DEF WholeInv

(* Found by name or held by a request, a connection is as the registry     *)
(* promises, with requests under way.                                      *)
THEOREM RegistryInTheDock ==
  DockSafety => [](Reg!EntryIsLive /\ Reg!OrphanHasCulprit /\ Reg!CertifiedName)
<1>1. RP!EntryIsLive => Reg!EntryIsLive
  BY DEF RP!EntryIsLive, Reg!EntryIsLive
<1>2. RP!OrphanHasCulprit => Reg!OrphanHasCulprit
  BY DEF RP!OrphanHasCulprit, Reg!OrphanHasCulprit, RP!Orphan, Reg!Orphan, RP!Listed, Reg!Listed
<1>3. RP!CertifiedName => Reg!CertifiedName
  BY DEF RP!CertifiedName, Reg!CertifiedName
<1>4. RP!RegSpec => [](RP!EntryIsLive /\ RP!OrphanHasCulprit /\ RP!CertifiedName)
  BY SameRegistry, RP!EntriesAreLive, RP!OrphansHaveCulprits, RP!NamesAreCertified, PTL
<1> QED BY <1>1, <1>2, <1>3, <1>4, RegistrySpecs, PTL

(* The exception the Dock's liveness properties make, of a connection that *)
(* nobody can close any more, has one cause: an Unregister that deletes    *)
(* the entry of a successor.  Without that step there is never an orphan,  *)
(* whatever requests are under way (registry.go Unregister).               *)
DeletesOwn(c) == Reg!Unregister(c) => shores[name[c]] \in {c, NoConn}

THEOREM OnlyForeignDeletesOrphan ==
  DockSafety /\ [][\A c \in Conns : DeletesOwn(c)]_dockVars
    => [](\A c \in Conns : ~Reg!Orphan(c))
<1>1. (\A c \in Conns : ~RP!Orphan(c)) => (\A c \in Conns : ~Reg!Orphan(c))
  BY DEF RP!Orphan, Reg!Orphan, RP!Listed, Reg!Listed
<1>2. [\A c \in Conns : DeletesOwn(c)]_dockVars
        => [\A c \in Conns : RP!DeletesOwnEntry(c)]_(RP!regVars)
  <2>1. CASE UNCHANGED dockVars
    BY <2>1 DEF dockVars, registryOnly, RP!regVars
  <2>2. CASE \A c \in Conns : DeletesOwn(c)
    BY <2>2 DEF DeletesOwn, RP!DeletesOwnEntry, Reg!Unregister, RP!Unregister
  <2> QED BY <2>1, <2>2
<1>3. RP!RegSpec /\ [][\A c \in Conns : RP!DeletesOwnEntry(c)]_(RP!regVars)
        => [](\A c \in Conns : ~RP!Orphan(c))
  BY SameRegistry, RP!OnlyForeignDeletesHide, PTL
<1> QED BY <1>1, <1>2, <1>3, RegistrySpecs, PTL

(* The tunnel's bookkeeping, with connections that come, are replaced and  *)
(* are reaped.                                                             *)
THEOREM TunnelInTheDock ==
  DockSafety => [](/\ Tun!ReplyFits /\ Tun!NoLeak /\ Tun!OneCloser /\ Tun!OneWriter
                   /\ Tun!FramesInOrder /\ Tun!OverIsComplete /\ Tun!PanicHasLeaver)
<1> USE DEF Tun!Handlers, TP!Handlers
<1>1. TP!ReplyFits => Tun!ReplyFits BY DEF TP!ReplyFits, Tun!ReplyFits
<1>2. TP!NoLeak => Tun!NoLeak BY DEF TP!NoLeak, Tun!NoLeak
<1>3. TP!OneCloser => Tun!OneCloser BY DEF TP!OneCloser, Tun!OneCloser
<1>4. TP!OneWriter => Tun!OneWriter BY DEF TP!OneWriter, Tun!OneWriter
<1>5. TP!FramesInOrder => Tun!FramesInOrder BY DEF TP!FramesInOrder, Tun!FramesInOrder
<1>6. TP!OverIsComplete => Tun!OverIsComplete BY DEF TP!OverIsComplete, Tun!OverIsComplete
<1>7. TP!PanicHasLeaver => Tun!PanicHasLeaver BY DEF TP!PanicHasLeaver, Tun!PanicHasLeaver
<1>8. TP!TunSafety => [](/\ TP!ReplyFits /\ TP!NoLeak /\ TP!OneCloser /\ TP!OneWriter
                         /\ TP!FramesInOrder /\ TP!OverIsComplete /\ TP!PanicHasLeaver)
  BY SameTunnel, TP!RepliesFit, TP!NothingLeaks, TP!ChannelsHaveOneCloser,
     TP!SocketsHaveOneWriter, TP!FramesKeepOrder, TP!EndedStreamsAreComplete,
     TP!PanicsHaveLeavers, PTL
<1> QED BY <1>1, <1>2, <1>3, <1>4, <1>5, <1>6, <1>7, <1>8, TunnelSpecs, PTL

-----------------------------------------------------------------------------
(* The Dock is a gateway *)

(* What the steps below need of the registry: a connection about to be     *)
(* registered is open and listed nowhere, one whose handler is about to    *)
(* close it is listed no more, and what is listed has been registered.     *)
LEMMA RegistryKnows ==
  ASSUME WholeInv
  PROVE  /\ \A c \in Conns :
              /\ phase[c] \in {"idle", "upgraded", "registering"} => c \notin closed
              /\ phase[c] \in {"registering", "close", "gone"}
                   => \A n \in Names : shores[n] # c
         /\ \A n \in Names : shores[n] # NoConn =>
              shores[n] \in Conns /\ phase[shores[n]] \in {"looping", "unregister"}
         /\ \A c \in Conns : c \in Reg!usedBar <=> name[c] # NoName /\ phase[c] # "registering"
BY DockAssumption
DEF WholeInv, DockInv, Entries, RP!RegInv, RP!HandshakeDone, RP!EntryIsLive, Reg!usedBar

heardBar == {c \in Conns : loop[c] \notin {"off", "ended"}}
bookBar == {<<c, name[c]>> : c \in Reg!usedBar}

LEMMA GatewayVars ==
  ASSUME UNCHANGED <<shores, Reg!usedBar, Reg!usedBar \ closed, bookBar, heardBar, target>>,
         UNCHANGED Gw!brokerVars
  PROVE  UNCHANGED Gw!gwVars
BY DEF Gw!gwVars, Gw!dirVars, bookBar, heardBar

(* The broker does not see what happens to connections.                    *)
LEMMA BrokerUnseen ==
  ASSUME WholeInv,
         \/ \E c \in Conns :
              \/ Tun!ReadPing(c) \/ Tun!LoopExit(c) \/ Tun!CloseAfterLoop(c)
              \/ \E S \in SUBSET Conns : Tun!Start(c, S)
              \/ \E how \in {"silent", "down"} : Tun!TunLinkFails(c, how)
         \/ \E S \in SUBSET Conns : Tun!Close(S)
         \/ UNCHANGED tunnelOnly
  PROVE  UNCHANGED Gw!brokerVars /\ UNCHANGED target
<1> DEFINE SameView == UNCHANGED TP!Broker!brokerVars => UNCHANGED Gw!brokerVars
<1>1. SameView
  BY DEF Gw!brokerVars, TP!Broker!brokerVars, Tun!IsOpen, TP!IsOpen, Tun!Fate, TP!Fate,
         Tun!Counted, TP!Counted, Tun!InHand, TP!InHand, Tun!Finished, TP!Finished
<1>2. CASE UNCHANGED tunnelOnly
  BY <1>2 DEF tunnelOnly, Gw!brokerVars, Tun!IsOpen, Tun!Fate, Tun!Counted, Tun!InHand,
              Tun!Finished
<1>3. CASE ~UNCHANGED tunnelOnly
  <2> HIDE DEF SameView
  <2>1. TP!TunNext BY <1>3, SameTunnel DEF TP!TunNext
  <2>2. UNCHANGED TP!Broker!brokerVars
    BY <1>3, <2>1, SameTunnel, TP!ConnectionsUnseen DEF WholeInv
  <2>3. UNCHANGED target
    BY <1>3 DEF Tun!ReadPing, Tun!LoopExit, Tun!CloseAfterLoop, Tun!Start, Tun!TunLinkFails,
                Tun!Close, Tun!SendOnClosed, Tun!PongFails, Tun!ReadFails
  <2> QED BY <1>1, <2>2, <2>3 DEF SameView
<1> QED BY <1>2, <1>3

(* Steps of the handlers before and after the read loop.                   *)
LEMMA ControlSoundly ==
  ASSUME WholeInv, NEW c \in Conns, Control(c)
  PROVE  Gw!GwNext \/ UNCHANGED Gw!gwVars
<1> DockInv BY DEF WholeInv
<1>1. UNCHANGED Gw!brokerVars /\ UNCHANGED target BY BrokerUnseen DEF Control
<1>2. UNCHANGED heardBar BY DEF Control, tunnelOnly, heardBar
<1>3. CASE ~Reg!Unregister(c)
  <2>1. UNCHANGED <<shores, closed>>
    BY <1>3 DEF Control, Reg!Accept, Reg!Refuse, Reg!Announce
  <2>2. \A d \in Conns : d \in Reg!usedBar' <=> d \in Reg!usedBar
    BY <1>3
    DEF Control, Reg!Accept, Reg!Refuse, Reg!Announce, Reg!usedBar, DockInv, Entries, Named
  <2>3. UNCHANGED Reg!usedBar BY <2>2 DEF Reg!usedBar
  <2>4. \A d \in Reg!usedBar : name'[d] = name[d]
    BY <1>3
    DEF Control, Reg!Accept, Reg!Refuse, Reg!Announce, Reg!usedBar, DockInv, Entries, Named
  <2>5. UNCHANGED bookBar BY <2>3, <2>4 DEF bookBar
  <2> QED BY <1>1, <1>2, <2>1, <2>3, <2>5, GatewayVars
<1>4. CASE Reg!Unregister(c)
  <2>1. PICK n \in Names : n = name[c] BY <1>4 DEF Reg!Unregister, DockInv, Named
  <2>2. UNCHANGED Reg!usedBar
    BY <1>4 DEF Reg!Unregister, Reg!usedBar, DockInv, Entries
  <2>3. UNCHANGED bookBar BY <1>4, <2>2 DEF Reg!Unregister, bookBar
  <2>4. c \in Conns \ heardBar
    BY <1>4 DEF Reg!Unregister, heardBar, DockInv, OneGoroutine
  <2>5. <<c, n>> \in bookBar
    BY <1>4, <2>1, DockAssumption DEF Reg!Unregister, bookBar, Reg!usedBar
  <2>6. shores' = [shores EXCEPT ![n] = NoConn] /\ UNCHANGED closed
    BY <1>4, <2>1 DEF Reg!Unregister
  <2>7. Gw!StrikeOff(n) BY <2>2, <2>6 DEF Gw!StrikeOff
  <2>8. Gw!Delist(n)
    BY <1>1, <1>2, <2>3, <2>4, <2>5, <2>7 DEF Gw!Delist, bookBar, heardBar
  <2> QED BY <2>8 DEF Gw!GwNext
<1> QED BY <1>3, <1>4

(* Register enters a connection and begins to listen to it.                *)
LEMMA RegisterSoundly ==
  ASSUME WholeInv, NEW c \in Conns, Register(c) PROVE Gw!GwNext
<1> DockInv BY DEF WholeInv
<1>1. PICK n \in Names : n = name[c] BY DEF Register, Reg!Register, DockInv, Named
<1>2. /\ shores' = [shores EXCEPT ![n] = c] /\ phase' = [phase EXCEPT ![c] = "looping"]
      /\ closed' = closed \union ({shores[n]} \ {NoConn})
      /\ phase[c] = "registering" /\ UNCHANGED name
      /\ loop[c] = "off" /\ loop' = [loop EXCEPT ![c] = "reading"]
  BY <1>1 DEF Register, Reg!Register, Tun!Start, Tun!LoopTo
<1>3. UNCHANGED Gw!brokerVars /\ UNCHANGED target
  <2>1. {shores[name[c]]} \ {NoConn} \in SUBSET Conns
    BY <1>1 DEF DockInv, Entries
  <2> QED BY <2>1, BrokerUnseen DEF Register
<1>4. c \notin Reg!usedBar /\ Reg!usedBar' = Reg!usedBar \union {c}
  BY <1>1, <1>2, DockAssumption DEF Reg!usedBar, DockInv, Entries
<1>5. bookBar' = bookBar \union {<<c, n>>}
  BY <1>1, <1>2, <1>4 DEF bookBar
<1>6. heardBar' = heardBar \union {c}
  BY <1>2 DEF heardBar, DockInv, Entries
<1>7. c \notin closed /\ shores[n] # c BY <1>2, RegistryKnows
<1>8. NoConn \notin Reg!usedBar BY DockAssumption DEF Reg!usedBar
<1>9. (Reg!usedBar \ closed)' = ((Reg!usedBar \ closed) \ {shores[n]}) \union {c}
  BY <1>2, <1>4, <1>7, <1>8
<1>10. Gw!Enlist(c, n) BY <1>2, <1>4, <1>9 DEF Gw!Enlist
<1>11. Gw!Connect(c, n)
  BY <1>3, <1>5, <1>6, <1>10 DEF Gw!Connect, bookBar, heardBar
<1> QED BY <1>11 DEF Gw!GwNext

(* A connection is closed: its entries go with it, if it has any.          *)
LEMMA ClosedSoundly ==
  ASSUME WholeInv, NEW S \in SUBSET Conns,
         closed' = closed \union S,
         shores' = [n \in Names |-> IF shores[n] \in S THEN NoConn ELSE shores[n]],
         UNCHANGED <<name, Reg!usedBar, loop, target>>, UNCHANGED Gw!brokerVars
  PROVE  Gw!GwNext
<1>1. UNCHANGED <<bookBar, heardBar>> BY DEF bookBar, heardBar
<1>2. (Reg!usedBar \ closed)' = (Reg!usedBar \ closed) \ S OBVIOUS
<1>3. Gw!Retire(S) BY <1>2 DEF Gw!Retire
<1>4. Gw!Disconnect(S) BY <1>1, <1>3 DEF Gw!Disconnect, bookBar, heardBar
<1> QED BY <1>4 DEF Gw!GwNext

(* The handler closes its own connection, which is listed no more.         *)
LEMMA CloseSelfSoundly ==
  ASSUME WholeInv, NEW c \in Conns, CloseSelf(c) PROVE Gw!GwNext
<1> DockInv BY DEF WholeInv
<1>1. /\ phase[c] = "close" /\ phase' = [phase EXCEPT ![c] = "gone"]
      /\ closed' = closed \union {c} /\ UNCHANGED <<name, shores, loop>>
  BY DEF CloseSelf, Reg!CloseSelf, Tun!CloseAfterLoop, Tun!reader
<1>2. UNCHANGED Gw!brokerVars /\ UNCHANGED target BY BrokerUnseen DEF CloseSelf
<1>3. UNCHANGED Reg!usedBar BY <1>1 DEF Reg!usedBar, DockInv, Entries
<1>4. \A n \in Names : shores[n] # c BY <1>1, RegistryKnows
<1>5. shores' = [n \in Names |-> IF shores[n] \in {c} THEN NoConn ELSE shores[n]]
  BY <1>1, <1>4 DEF DockInv, Entries
<1>6. {c} \in SUBSET Conns OBVIOUS
<1> QED BY <1>1, <1>2, <1>3, <1>5, <1>6, ClosedSoundly

LEMMA ReapSoundly ==
  ASSUME WholeInv, NEW stale \in SUBSET Conns, Reap(stale) PROVE Gw!GwNext
<1>1. /\ closed' = closed \union stale
      /\ shores' = [n \in Names |-> IF shores[n] \in stale THEN NoConn ELSE shores[n]]
      /\ UNCHANGED <<name, phase, loop>>
  BY DEF Reap, Reg!Reap, Tun!Close, Tun!reader
<1>2. UNCHANGED Gw!brokerVars /\ UNCHANGED target BY BrokerUnseen DEF Reap
<1>3. UNCHANGED Reg!usedBar BY <1>1 DEF Reg!usedBar
<1> QED BY <1>1, <1>2, <1>3, ClosedSoundly

(* Steps that the directory does not see either.                           *)
LEMMA OthersUnseen ==
  ASSUME WholeInv,
         \/ \E c \in Conns :
              \/ HandshakeFails(c) \/ Ping(c)
              \/ \E how \in {"silent", "down"} : LinkFails(c, how)
         \/ Tick
  PROVE  UNCHANGED Gw!gwVars
<1> DockInv BY DEF WholeInv
<1>1. UNCHANGED <<name, shores>>
  BY DEF HandshakeFails, Reg!HandshakeFails, Ping, Reg!Ping, LinkFails, Reg!LinkFails,
         Tick, Reg!Tick
<1>2. UNCHANGED Gw!brokerVars /\ UNCHANGED target
  <2>1. ASSUME NEW c \in Conns, HandshakeFails(c)
        PROVE  UNCHANGED Gw!brokerVars /\ UNCHANGED target
    <3>1. {c} \in SUBSET Conns OBVIOUS
    <3> QED BY <2>1, <3>1, BrokerUnseen DEF HandshakeFails
  <2> QED BY <2>1, BrokerUnseen DEF Ping, LinkFails, Tick
<1>3. UNCHANGED <<Reg!usedBar, Reg!usedBar \ closed>>
  <2>1. ASSUME NEW c \in Conns, HandshakeFails(c)
        PROVE  UNCHANGED <<Reg!usedBar, Reg!usedBar \ closed>>
    BY <2>1
    DEF HandshakeFails, Reg!HandshakeFails, Reg!usedBar, DockInv, Entries, Named
  <2>2. ASSUME NEW c \in Conns, Ping(c)
        PROVE  UNCHANGED <<Reg!usedBar, Reg!usedBar \ closed>>
    BY <2>2 DEF Ping, Reg!Ping, Reg!usedBar
  <2>3. ASSUME NEW c \in Conns, NEW how \in {"silent", "down"}, LinkFails(c, how)
        PROVE  UNCHANGED <<Reg!usedBar, Reg!usedBar \ closed>>
    BY <2>3 DEF LinkFails, Reg!LinkFails, Reg!usedBar
  <2>4. ASSUME Tick PROVE UNCHANGED <<Reg!usedBar, Reg!usedBar \ closed>>
    BY <2>4 DEF Tick, Reg!Tick, Reg!usedBar
  <2> QED BY <2>1, <2>2, <2>3, <2>4
<1>4. UNCHANGED bookBar BY <1>1, <1>3 DEF bookBar
<1>5. UNCHANGED heardBar
  <2>1. ASSUME NEW c \in Conns, Ping(c) PROVE UNCHANGED heardBar
    BY <2>1 DEF Ping, Tun!ReadPing, Tun!CanRead, Tun!LoopTo, heardBar, DockInv, Entries
  <2>2. CASE ~\E c \in Conns : Ping(c)
    BY <2>2
    DEF HandshakeFails, LinkFails, Tick, Tun!Close, Tun!TunLinkFails, Tun!reader,
        tunnelOnly, heardBar
  <2> QED BY <2>1, <2>2
<1> QED BY <1>1, <1>2, <1>3, <1>4, <1>5, GatewayVars

(* A read loop that ends is a connection the Dock listens to no more.      *)
LEMMA LoopExitSoundly ==
  ASSUME WholeInv, NEW c \in Conns, LoopExit(c) PROVE Gw!GwNext
<1> DockInv BY DEF WholeInv
<1>1. /\ phase[c] = "looping" /\ phase' = [phase EXCEPT ![c] = "unregister"]
      /\ UNCHANGED <<name, shores, closed>>
  BY DEF LoopExit, Reg!ReadLoopEnds
<1>2. loop' = [loop EXCEPT ![c] = "ended"]
  BY DEF LoopExit, Tun!LoopExit, Tun!SendOnClosed, Tun!PongFails, Tun!ReadFails, Tun!Pass,
         Tun!LoopTo
<1>3. UNCHANGED Gw!brokerVars /\ UNCHANGED target BY BrokerUnseen DEF LoopExit
<1>4. UNCHANGED Reg!usedBar BY <1>1 DEF Reg!usedBar, DockInv, Entries
<1>5. UNCHANGED bookBar BY <1>1, <1>4 DEF bookBar
<1>6. heardBar' = heardBar \ {c} BY <1>2 DEF heardBar, DockInv, Entries
<1>7. Gw!StopListening(c)
  BY <1>1, <1>3, <1>4, <1>5, <1>6 DEF Gw!StopListening, Gw!dirVars, bookBar, heardBar
<1> QED BY <1>7 DEF Gw!GwNext

(* The broker of the proofs is that of the gateway.                        *)
LEMMA SameBroker ==
  /\ \A h : Gw!Take(h) <=> TP!Broker!Take(h)
  /\ \A h : Gw!Give(h) <=> TP!Broker!Give(h)
  /\ \A h : Gw!Frame(h) <=> TP!Broker!Frame(h)
  /\ \A h : Gw!End(h) <=> TP!Broker!End(h)
  /\ \A h : Gw!Answer(h) <=> TP!Broker!Answer(h)
  /\ \A h : Gw!Show(h) <=> TP!Broker!Show(h)
  /\ \A h : Gw!Finish(h) <=> TP!Broker!Finish(h)
  /\ \A h, f : Gw!Fail(h, f) <=> TP!Broker!Fail(h, f)
  /\ \A h : Gw!Failures(h) = TP!Broker!Failures(h)
  /\ UNCHANGED Gw!brokerVars <=> UNCHANGED TP!Broker!brokerVars
<1> USE DEF Gw!Open, TP!Broker!Open, Gw!Becomes, TP!Broker!Becomes, Gw!Forget, TP!Broker!Forget,
            Tun!IsOpen, TP!IsOpen, Tun!Fate, TP!Fate, Tun!Counted, TP!Counted,
            Tun!InHand, TP!InHand, Tun!Finished, TP!Finished
<1>1. \A h : Gw!Take(h) <=> TP!Broker!Take(h) BY DEF Gw!Take, TP!Broker!Take
<1>2. \A h : Gw!Give(h) <=> TP!Broker!Give(h) BY DEF Gw!Give, TP!Broker!Give
<1>3. \A h : Gw!Frame(h) <=> TP!Broker!Frame(h) BY DEF Gw!Frame, TP!Broker!Frame
<1>4. \A h : Gw!End(h) <=> TP!Broker!End(h) BY DEF Gw!End, TP!Broker!End
<1>5. \A h : Gw!Answer(h) <=> TP!Broker!Answer(h) BY DEF Gw!Answer, TP!Broker!Answer
<1>6. \A h : Gw!Show(h) <=> TP!Broker!Show(h) BY DEF Gw!Show, TP!Broker!Show
<1>7. \A h : Gw!Finish(h) <=> TP!Broker!Finish(h) BY DEF Gw!Finish, TP!Broker!Finish
<1>8. \A h, f : Gw!Fail(h, f) <=> TP!Broker!Fail(h, f) BY DEF Gw!Fail, TP!Broker!Fail
<1>9. \A h : Gw!Failures(h) = TP!Broker!Failures(h)
  BY DEF Gw!Failures, TP!Broker!Failures
<1>10. UNCHANGED Gw!brokerVars <=> UNCHANGED TP!Broker!brokerVars
  BY DEF Gw!brokerVars, TP!Broker!brokerVars
<1> QED BY <1>1, <1>2, <1>3, <1>4, <1>5, <1>6, <1>7, <1>8, <1>9, <1>10

(* A request is put through to the connection its name leads to.           *)
LEMMA ResolveSoundly ==
  ASSUME WholeInv, NEW h \in Handlers, NEW c \in Conns, Resolve(h, c) PROVE Gw!GwNext
<1>1. PICK n \in Names : shores[n] = c BY DEF Resolve, Reg!Listed
<1>2. /\ target' = [target EXCEPT ![h] = shores[n]] /\ UNCHANGED <<registryOnly, loop, closed>>
  BY <1>1 DEF Resolve, Tun!Resolve, Tun!reader, Tun!socket
<1>3. UNCHANGED <<Reg!usedBar, heardBar, bookBar>>
  BY <1>2 DEF registryOnly, Reg!usedBar, heardBar, bookBar
<1>4. h \in TP!Handlers BY DEF Handlers, TP!Handlers
<1>5. TP!Resolve(h, c) BY SameTunnel DEF Resolve
<1>6. TP!TunNext BY <1>4, <1>5 DEF TP!TunNext
<1>7. TP!Broker!Take(h) BY <1>4, <1>5, <1>6, SameTunnel, TP!TakesSoundly DEF WholeInv
<1>8. Gw!Take(h) BY <1>7, SameBroker
<1>9. shores[n] # NoConn BY <1>1, DockAssumption
<1>10. Gw!PutThrough(h, n)
  BY <1>2, <1>3, <1>8, <1>9
  DEF Gw!PutThrough, Gw!dirVars, registryOnly, heardBar, bookBar
<1> QED BY <1>10 DEF Gw!GwNext, Handlers

(* While a connection is delivering, the Dock listens to it; and one that  *)
(* the Dock has closed with a request on it was entered.                   *)
LEMMA TargetKnown ==
  ASSUME WholeInv, NEW h \in Handlers
  PROVE  /\ loop[target[h]] \in TP!Delivering => target[h] \in heardBar \/ hpc[h] = "new"
         /\ hpc[h] # "new" => target[h] \in Reg!usedBar
<1> DockInv /\ TP!Homes BY DEF WholeInv, TP!TunInv
<1>1. h \in TP!Handlers BY DEF Handlers, TP!Handlers
<1>2. hpc[h] # "new" => target[h] \in Conns /\ loop[target[h]] # "off"
  BY <1>1 DEF TP!Homes
<1>3. \A c \in Conns : loop[c] # "off" => c \in Reg!usedBar
  BY DockAssumption DEF DockInv, OneGoroutine, Named, Entries, Reg!usedBar, Reg!Phases
<1> QED BY <1>2, <1>3 DEF heardBar, TP!Delivering

LEMMA ServeSoundly ==
  ASSUME WholeInv, Serve PROVE Gw!GwNext \/ UNCHANGED Gw!gwVars
<1> DockInv /\ TP!TunInv BY DEF WholeInv
<1>1. /\ UNCHANGED <<registryOnly, closed>>
      /\ \A c \in Conns : loop'[c] \in {"off", "ended"} <=> loop[c] \in {"off", "ended"}
  BY ServesSteps DEF Serve, DockInv, Entries
<1>2. UNCHANGED target
  BY DEF Serve, Tun!Serves, Tun!HandlerNext, Tun!ReqNext, Tun!StreamNext, Tun!LoopNext,
         Tun!Enqueue, Tun!TakeWriter, Tun!WriteOk, Tun!WriteFails, Tun!Unsend, Tun!ShoreDone,
         Tun!ReadBody, Tun!Collect, Tun!TimeOut, Tun!CancelPendingRequest, Tun!RefuseStream,
         Tun!ForwardFrame, Tun!StreamOver, Tun!ClientLeaves, Tun!CloseLeft, Tun!Receive,
         Tun!ReadResponse, Tun!ReadFrame, Tun!ReadEnd, Tun!DeliverResponse, Tun!DeliverFrame,
         Tun!CloseEnded, Tun!TakeWriterForPong, Tun!PongOk
<1>3. UNCHANGED <<shores, Reg!usedBar, Reg!usedBar \ closed, bookBar, heardBar, target>>
  <2>1. UNCHANGED heardBar BY <1>1, Zenon DEF heardBar
  <2>2. UNCHANGED <<shores, Reg!usedBar, closed>> BY <1>1 DEF registryOnly, Reg!usedBar
  <2>3. UNCHANGED bookBar BY <1>1, <2>2 DEF registryOnly, bookBar
  <2> QED BY <1>2, <2>1, <2>2, <2>3
<1>4. \/ UNCHANGED TP!Broker!brokerVars
      \/ \E h \in TP!Handlers : TP!FromShore(h) \/ TP!ToBrowser(h) \/ TP!GivesUp(h)
  BY SameTunnel, TP!ServesSoundly DEF Serve
<1>5. CASE UNCHANGED TP!Broker!brokerVars BY <1>3, <1>5, SameBroker, GatewayVars
<1>6. ASSUME NEW h \in Handlers, TP!FromShore(h) PROVE Gw!FromShore(h)
  <2>1. hpc[h] # "new"
    BY <1>6, SameBroker
    DEF TP!FromShore, TP!Broker!Give, TP!Broker!Frame, TP!Broker!End, TP!Broker!Open,
        TP!Fate, TP!Finished, Handlers
  <2>2. target[h] \in heardBar BY <1>6, <2>1, TargetKnown DEF TP!FromShore
  <2> QED BY <1>3, <1>6, <2>2, SameBroker
          DEF TP!FromShore, Gw!FromShore, Gw!dirVars, bookBar, heardBar
<1>7. ASSUME NEW h \in Handlers, TP!ToBrowser(h) PROVE Gw!ToBrowser(h)
  BY <1>3, <1>7, SameBroker DEF TP!ToBrowser, Gw!ToBrowser, Gw!dirVars, bookBar, heardBar
<1>8. ASSUME NEW h \in Handlers, TP!GivesUp(h) PROVE \E f \in Gw!Failures(h) : Gw!GiveUp(h, f)
  <2>1. PICK f \in TP!Broker!Failures(h) :
          TP!Broker!Fail(h, f) /\ (f = "dropped" => target[h] \in closed)
    BY <1>8 DEF TP!GivesUp
  <2>2. hpc[h] # "new"
    BY <2>1 DEF TP!Broker!Fail, TP!Broker!Open, TP!Fate, TP!Finished, Handlers
  <2>3. f = "dropped" => Gw!ClosedByDock(target[h])
    BY <2>1, <2>2, TargetKnown DEF Gw!ClosedByDock
  <2>4. Gw!GiveUp(h, f)
    BY <1>3, <2>1, <2>3, SameBroker DEF Gw!GiveUp, Gw!dirVars, bookBar, heardBar
  <2> QED BY <2>1, <2>4, SameBroker
<1> QED
  BY <1>4, <1>5, <1>6, <1>7, <1>8 DEF Gw!GwNext, Handlers, TP!Handlers

LEMMA GatewayStep ==
  ASSUME WholeInv, [DockNext]_dockVars PROVE [Gw!GwNext]_(Gw!gwVars)
<1>1. CASE UNCHANGED dockVars
  BY <1>1
  DEF dockVars, registryOnly, tunnelOnly, Gw!gwVars, Gw!dirVars, Gw!brokerVars, Reg!usedBar,
      Tun!IsOpen, Tun!Fate, Tun!Counted, Tun!InHand, Tun!Finished
<1>2. ASSUME NEW c \in Conns,
             \/ Control(c) \/ HandshakeFails(c) \/ Register(c)
             \/ Ping(c) \/ LoopExit(c) \/ CloseSelf(c)
             \/ \E how \in {"silent", "down"} : LinkFails(c, how)
      PROVE  Gw!GwNext \/ UNCHANGED Gw!gwVars
  BY <1>2, ControlSoundly, RegisterSoundly, LoopExitSoundly, CloseSelfSoundly, OthersUnseen
<1> QED
  BY <1>1, <1>2, ResolveSoundly, ReapSoundly, OthersUnseen, ServeSoundly DEF DockNext

LEMMA GatewayStart == ASSUME DockInit PROVE Gw!GwInit
<1>1. Reg!usedBar = {} /\ shores = [n \in Names |-> NoConn]
  BY DEF DockInit, Reg!RegInit, Reg!usedBar
<1>2. /\ reply = {} /\ ended = {}
      /\ \A h \in Reqs \union Streams : Tun!Fate(h) = "new" /\ ~Tun!IsOpen(h)
  BY DEF DockInit, Tun!TunInit, Tun!Fate, Tun!IsOpen, Tun!Finished, Tun!Handlers
<1>3. Gw!BrokerInit BY <1>2 DEF DockInit, Tun!TunInit, Gw!BrokerInit
<1>4. target = [h \in Reqs \union Streams |-> NoConn] /\ \A c \in Conns : loop[c] = "off"
  BY DEF DockInit, Tun!TunInit, Tun!Handlers
<1> QED BY <1>1, <1>3, <1>4 DEF Gw!GwInit, Gw!DirInit

(* The Dock, for any connections, names, requests and streams, is a        *)
(* gateway: directory and broker keep their promises together, and a       *)
(* request's outcome is that of the connection it was put through to.      *)
THEOREM DockIsAGateway == DockSafety => GatewayHolds
<1>1. DockInit => Gw!GwInit BY GatewayStart
<1>2. WholeInv /\ [DockNext]_dockVars => [Gw!GwNext]_(Gw!gwVars) BY GatewayStep
<1> QED BY <1>1, <1>2, WholeInvHolds, PTL DEF DockSafety, GatewayHolds, Gw!GwSpec
=============================================================================
