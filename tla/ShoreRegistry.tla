---------------------------- MODULE ShoreRegistry ----------------------------
(***************************************************************************)
(* The registry of connected Shores (registry.go) and the life of each     *)
(* /shore/connect handler around it (shore_handler.go).                    *)
(*                                                                         *)
(* One element of Conns is one HTTP request to /shore/connect and the      *)
(* WebSocket it may become.  Its handler is a goroutine; phase[c] is where *)
(* it stands:                                                              *)
(*                                                                         *)
(*   idle        the request has not arrived                               *)
(*   upgraded    WebSocket open, reading the register frame (10 s limit)   *)
(*   registering ShoreConnection built, about to take the registry's lock  *)
(*   looping     in the map (or replaced since), in runShoreReadLoop       *)
(*   unregister  the read loop has returned or panicked; its deferred      *)
(*               function is about to call Unregister(shore.Name)          *)
(*   close       Unregister has returned, shore.Close() comes next         *)
(*   gone        the handler has returned                                  *)
(*                                                                         *)
(* Register, Unregister and reap each run under the registry's lock from   *)
(* their first to their last statement: each is one step.  The reaper is a *)
(* goroutine fed by a time.Ticker; one tick of the model is 15 s.          *)
(***************************************************************************)
EXTENDS Naturals

CONSTANTS
  Conns,       \* connection attempts
  Names,       \* Shore names
  NoConn,      \* no connection
  NoName,      \* the empty name
  MTLS,        \* TRUE iff the Dock was started with a CA pool
  StaleTicks   \* staleThreshold in ticks of the reaper's ticker (45 s / 15 s)

ASSUME RegistryAssumption ==
  /\ NoConn \notin Conns
  /\ NoName \notin Names
  /\ MTLS \in BOOLEAN
  /\ StaleTicks \in Nat

VARIABLES
  phase,     \* where each handler stands
  cn,        \* common name of the verified client certificate, or NoName
  name,      \* ShoreConnection.Name, NoName until it is built
  shores,    \* the map: name -> connection, or NoConn
  closed,    \* the connections the Dock has closed (ShoreConnection.Close, or
             \* conn.Close in a handshake that fails)
  age,       \* whole ticks since LastPing, no further than StaleTicks + 1
  link       \* the Shore's end: up, silent (hung, its TCP still held), down

regVars == <<phase, cn, name, shores, closed, age, link>>

Phases == {"idle", "upgraded", "registering", "looping", "unregister", "close", "gone"}
Links == {"up", "silent", "down"}
Certs == Names \union {NoName, "absent", "invalid"}

RegInit ==
  /\ phase = [c \in Conns |-> "idle"]
  /\ cn = [c \in Conns |-> NoName]
  /\ name = [c \in Conns |-> NoName]
  /\ shores = [n \in Names |-> NoConn]
  /\ closed = {}
  /\ age = [c \in Conns |-> 0]
  /\ link = [c \in Conns |-> "up"]

-----------------------------------------------------------------------------
(* The handshake *)

(* The request arrives.  With a CA pool a certificate is required and must *)
(* verify; its common name, which may be empty, is kept.  Without a pool   *)
(* whatever certificate comes is not looked at.                            *)
Accept(c, cert) ==
  /\ phase[c] = "idle"
  /\ MTLS => cert \notin {"absent", "invalid"}
  /\ phase' = [phase EXCEPT ![c] = "upgraded"]
  /\ cn' = [cn EXCEPT ![c] = IF MTLS THEN cert ELSE NoName]
  /\ UNCHANGED <<name, shores, closed, age, link>>

(* 401: no client certificate, or one the pool does not verify.  The other *)
(* way out before the handshake is an upgrade that fails.                  *)
Refuse(c) ==
  /\ phase[c] = "idle"
  /\ phase' = [phase EXCEPT ![c] = "gone"]
  /\ UNCHANGED <<cn, name, shores, closed, age, link>>

(* Mutant: the name in the frame wins over the certificate.                *)
FrameNameFirst(c, regName) == IF regName # NoName THEN regName ELSE cn[c]

(* certName takes precedence over reg.Name; both may be empty.             *)
ResolvedName(c, regName) == IF cn[c] # NoName THEN cn[c] ELSE regName

(* The first frame is a register frame that gives the Shore a name: the    *)
(* ShoreConnection is built, with LastPing set to now.                     *)
Announce(c, regName) ==
  /\ phase[c] = "upgraded"
  /\ ResolvedName(c, regName) # NoName
  /\ phase' = [phase EXCEPT ![c] = "registering"]
  /\ name' = [name EXCEPT ![c] = ResolvedName(c, regName)]
  /\ age' = [age EXCEPT ![c] = 0]
  /\ UNCHANGED <<cn, shores, closed, link>>

(* No register frame within 10 s, a read error, a frame that is not one,   *)
(* or no name at all: the WebSocket is closed and the handler returns.     *)
HandshakeFails(c) ==
  /\ phase[c] = "upgraded"
  /\ phase' = [phase EXCEPT ![c] = "gone"]
  /\ closed' = closed \union {c}
  /\ UNCHANGED <<cn, name, shores, age, link>>

-----------------------------------------------------------------------------
(* The registry's own operations *)

(* Get, and the look-up of GetByOwner and List. *)
Listed(c) == \E n \in Names : shores[n] = c

(* Mutant: the connection that held the name is not closed.                *)
RegisterLeavesOpen(c) ==
  /\ phase[c] = "registering"
  /\ phase' = [phase EXCEPT ![c] = "looping"]
  /\ shores' = [shores EXCEPT ![name[c]] = c]
  /\ UNCHANGED <<cn, name, closed, age, link>>

(* Mutant: Close is called without looking whether there was an entry.     *)
RegisterClosesNil(c) ==
  /\ phase[c] = "registering"
  /\ phase' = [phase EXCEPT ![c] = "looping"]
  /\ closed' = closed \union {shores[name[c]]}
  /\ shores' = [shores EXCEPT ![name[c]] = c]
  /\ UNCHANGED <<cn, name, age, link>>

(* Register: the connection that holds the name is closed, the new one     *)
(* takes its place, and the handler enters its read loop.                  *)
Register(c) ==
  /\ phase[c] = "registering"
  /\ phase' = [phase EXCEPT ![c] = "looping"]
  /\ closed' = closed \union ({shores[name[c]]} \ {NoConn})
  /\ shores' = [shores EXCEPT ![name[c]] = c]
  /\ UNCHANGED <<cn, name, age, link>>

(* Mutant: the deferred function closes the connection first.              *)
CloseBeforeUnregister(c) ==
  /\ phase[c] = "unregister"
  /\ phase' = [phase EXCEPT ![c] = "close"]
  /\ closed' = closed \union {c}
  /\ UNCHANGED <<cn, name, shores, age, link>>

(* Unregister takes a name, not a connection: it deletes whatever is       *)
(* listed under the name by now.                                           *)
Unregister(c) ==
  /\ phase[c] = "unregister"
  /\ phase' = [phase EXCEPT ![c] = "close"]
  /\ shores' = [shores EXCEPT ![name[c]] = NoConn]
  /\ UNCHANGED <<cn, name, closed, age, link>>

(* shore.Close(), after which the handler returns.  The WebSocket is gone  *)
(* for the Shore too, if it was not already.                               *)
CloseSelf(c) ==
  /\ phase[c] = "close"
  /\ phase' = [phase EXCEPT ![c] = "gone"]
  /\ closed' = closed \union {c}
  /\ link' = [link EXCEPT ![c] = "down"]
  /\ UNCHANGED <<cn, name, shores, age>>

(* now - LastPing > staleThreshold.  With age ticks since the ping, the    *)
(* reaper's clock, read when it has the lock, is past the threshold for    *)
(* sure from StaleTicks + 1 on and may be past it, if the reaper had to    *)
(* wait for the lock, from StaleTicks on.                                  *)
SurelyStale == {c \in Conns : Listed(c) /\ age[c] > StaleTicks}
MaybeStale == {c \in Conns : Listed(c) /\ age[c] >= StaleTicks}

(* Mutant: the entries are closed and stay in the map.                     *)
ReapKeepsEntries(stale) ==
  /\ SurelyStale \subseteq stale
  /\ stale \subseteq MaybeStale
  /\ closed' = closed \union stale
  /\ UNCHANGED <<phase, cn, name, shores, age, link>>

(* One round of the reaper: closes and deletes the stale entries.          *)
Reap(stale) ==
  /\ SurelyStale \subseteq stale
  /\ stale \subseteq MaybeStale
  /\ closed' = closed \union stale
  /\ shores' = [n \in Names |-> IF shores[n] \in stale THEN NoConn ELSE shores[n]]
  /\ UNCHANGED <<phase, cn, name, age, link>>

(* 15 s pass, for the connections whose LastPing may still be looked at.   *)
Tick ==
  /\ age' = [c \in Conns |->
              IF (phase[c] = "registering" \/ Listed(c)) /\ age[c] <= StaleTicks
                THEN age[c] + 1 ELSE age[c]]
  /\ UNCHANGED <<phase, cn, name, shores, closed, link>>

-----------------------------------------------------------------------------
(* The read loop, as far as the registry is concerned *)

(* Mutant: a ping puts a connection that is not listed back into the map.  *)
PingRelists(c) ==
  /\ phase[c] = "looping"
  /\ link[c] # "silent"
  /\ age' = [age EXCEPT ![c] = 0]
  /\ shores' = [shores EXCEPT ![name[c]] = IF @ = NoConn THEN c ELSE @]
  /\ UNCHANGED <<phase, cn, name, closed, link>>

(* A ping sets LastPing.  A frame that was buffered before the Dock closed *)
(* the connection can still be read.                                       *)
Ping(c) ==
  /\ phase[c] = "looping"
  /\ link[c] # "silent"
  /\ age' = [age EXCEPT ![c] = 0]
  /\ UNCHANGED <<phase, cn, name, shores, closed, link>>

(* The read loop ends: the peer or the Dock has closed the connection, a   *)
(* frame does not parse as WebSocket, a pong could not be written, or a    *)
(* delivery panicked.                                                      *)
ReadLoopEnds(c) ==
  /\ phase[c] = "looping"
  /\ phase' = [phase EXCEPT ![c] = "unregister"]
  /\ UNCHANGED <<cn, name, shores, closed, age, link>>

(* The Shore's end of the connection hangs or goes away.  Before the read  *)
(* loop this can only make the handshake fail, and after it nobody looks.  *)
LinkFails(c, how) ==
  /\ phase[c] = "looping"
  /\ link[c] = "up"
  /\ how \in {"silent", "down"}
  /\ link' = [link EXCEPT ![c] = how]
  /\ UNCHANGED <<phase, cn, name, shores, closed, age>>

-----------------------------------------------------------------------------
RegNext ==
  \/ \E c \in Conns :
       \/ \E cert \in Certs : Accept(c, cert)
       \/ Refuse(c)
       \/ \E n \in Names \union {NoName} : Announce(c, n)
       \/ HandshakeFails(c)
       \/ Register(c)
       \/ Ping(c)
       \/ ReadLoopEnds(c)
       \/ Unregister(c)
       \/ CloseSelf(c)
       \/ \E how \in {"silent", "down"} : LinkFails(c, how)
  \/ \E stale \in SUBSET Conns : Reap(stale)
  \/ Tick

(* Safety only: what a handler and the reaper come to in the end depends   *)
(* on what the read loop can be blocked on, and is stated in module Dock.  *)
RegSpec == RegInit /\ [][RegNext]_regVars

-----------------------------------------------------------------------------
RegTypeOK ==
  /\ phase \in [Conns -> Phases]
  /\ cn \in [Conns -> Names \union {NoName}]
  /\ name \in [Conns -> Names \union {NoName}]
  /\ shores \in [Names -> Conns \union {NoConn}]
  /\ closed \subseteq Conns
  /\ age \in [Conns -> 0 .. StaleTicks + 1]
  /\ link \in [Conns -> Links]

(* An entry of the map is the open connection of that name, and its        *)
(* handler still has its Unregister to run: whatever Get returns is a      *)
(* connection the Dock has not closed, and no entry outlives the handler   *)
(* that would delete it (registry.go Register, Unregister, reap;           *)
(* shore_handler.go, the order of the deferred calls).                     *)
EntryIsLive ==
  \A n \in Names : shores[n] # NoConn =>
    LET c == shores[n] IN
      /\ c \notin closed
      /\ name[c] = n
      /\ phase[c] \in {"looping", "unregister"}

(* A connection that is served but cannot be found, and that the Dock has  *)
(* not closed, lost its entry to the Unregister of another connection of   *)
(* the same name: there is no other way to become such an orphan           *)
(* (registry.go Unregister deletes by name).                               *)
Orphan(c) == phase[c] = "looping" /\ c \notin closed /\ ~Listed(c)

OrphanHasCulprit ==
  \A c \in Conns : Orphan(c) =>
    \E d \in Conns \ {c} : name[d] = name[c] /\ phase[d] \in {"close", "gone"}

(* With mutual TLS a Shore is listed under the name in its certificate,    *)
(* whatever name its register frame claims; only a certificate without a   *)
(* common name leaves the choice to the Shore (shore_handler.go,           *)
(* shoreConnectHandler).                                                   *)
CertifiedName ==
  MTLS => \A n \in Names : shores[n] # NoConn => cn[shores[n]] \in {n, NoName}

(* Once a connection is out of the map it never comes back, and one the    *)
(* Dock has closed never enters it: a request can only be routed to a      *)
(* connection in its first and only spell in the map (registry.go          *)
(* Register is called once, before the read loop).                         *)
NoSecondSpell ==
  [][\A c \in Conns : Listed(c)' => Listed(c) \/ (phase[c] = "registering" /\ c \notin closed')]_regVars

-----------------------------------------------------------------------------
(* The registry implements the directory: an entered connection is one     *)
(* that has been through Register.                                         *)
usedBar == {c \in Conns : name[c] # NoName /\ phase[c] # "registering"}

Dir == INSTANCE ShoreDirectory
         WITH entry <- shores, used <- usedBar, open <- usedBar \ closed

Directory == Dir!DirSpec

-----------------------------------------------------------------------------
(* What the documentation says and the code does not do. *)

(* "Get returns the named Shore if it is connected." (registry.go:177): a  *)
(* Shore whose connection is up on both sides and served is found under    *)
(* its name, itself or another connection of that name.                    *)
ConnectedIsFound ==
  \A c \in Conns :
    phase[c] = "looping" /\ c \notin closed /\ link[c] = "up" => shores[name[c]] # NoConn
=============================================================================
