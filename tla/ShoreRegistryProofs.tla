------------------------ MODULE ShoreRegistryProofs ------------------------
(***************************************************************************)
(* Proofs about ShoreRegistry, for any sets of connections and names, with *)
(* and without mutual TLS, and any staleness threshold.                    *)
(*                                                                         *)
(* The invariant behind them is RegInv.  EntryIsLive alone is not          *)
(* inductive: that Register enters an open connection under a proper name  *)
(* needs to know what the handshake leaves behind (HandshakeDone).         *)
(***************************************************************************)
EXTENDS ShoreRegistry, TLAPS

(* What the handshake establishes, and when: nothing is closed while it    *)
(* lasts, a connection gets its name when its ShoreConnection is built and *)
(* keeps it, and the name agrees with the certificate.                     *)
HandshakeDone ==
  \A c \in Conns :
    /\ phase[c] \in {"idle", "upgraded", "registering"} => c \notin closed
    /\ phase[c] \in {"idle", "upgraded"} => name[c] = NoName
    /\ phase[c] \in {"registering", "looping", "unregister", "close"} => name[c] \in Names
    /\ name[c] # NoName => cn[c] \in {name[c], NoName}

RegInv == RegTypeOK /\ HandshakeDone /\ EntryIsLive /\ OrphanHasCulprit

-----------------------------------------------------------------------------
(* Every variable keeps to its type: in particular closed only ever holds  *)
(* connections, although Register looks up a map that may have no entry.   *)
LEMMA TypePreserved == RegTypeOK /\ HandshakeDone /\ [RegNext]_regVars => RegTypeOK'
<1> SUFFICES ASSUME RegTypeOK, HandshakeDone, [RegNext]_regVars PROVE RegTypeOK'
  OBVIOUS
<1> USE RegistryAssumption DEF RegTypeOK, Phases, Links
<1>1. ASSUME NEW c \in Conns, NEW cert \in Certs, Accept(c, cert) PROVE RegTypeOK'
  BY <1>1 DEF Accept, Certs
<1>2. ASSUME NEW c \in Conns, Refuse(c) PROVE RegTypeOK'
  BY <1>2 DEF Refuse
<1>3. ASSUME NEW c \in Conns, NEW n \in Names \union {NoName}, Announce(c, n)
      PROVE RegTypeOK'
  BY <1>3 DEF Announce, ResolvedName
<1>4. ASSUME NEW c \in Conns, HandshakeFails(c) PROVE RegTypeOK'
  BY <1>4 DEF HandshakeFails
<1>5. ASSUME NEW c \in Conns, Register(c) PROVE RegTypeOK'
  <2>1. name[c] \in Names
    BY <1>5 DEF Register, HandshakeDone
  <2> QED
    BY <1>5, <2>1 DEF Register
<1>6. ASSUME NEW c \in Conns, Ping(c) PROVE RegTypeOK'
  BY <1>6 DEF Ping
<1>7. ASSUME NEW c \in Conns, ReadLoopEnds(c) PROVE RegTypeOK'
  BY <1>7 DEF ReadLoopEnds
<1>8. ASSUME NEW c \in Conns, Unregister(c) PROVE RegTypeOK'
  BY <1>8 DEF Unregister
<1>9. ASSUME NEW c \in Conns, CloseSelf(c) PROVE RegTypeOK'
  BY <1>9 DEF CloseSelf
<1>10. ASSUME NEW c \in Conns, NEW how \in {"silent", "down"}, LinkFails(c, how) PROVE RegTypeOK'
  BY <1>10 DEF LinkFails
<1>11. ASSUME NEW stale \in SUBSET Conns, Reap(stale) PROVE RegTypeOK'
  BY <1>11 DEF Reap
<1>12. ASSUME Tick PROVE RegTypeOK'
  BY <1>12 DEF Tick
<1>13. ASSUME UNCHANGED regVars PROVE RegTypeOK'
  BY <1>13 DEF regVars
<1> QED
  BY <1>1, <1>2, <1>3, <1>4, <1>5, <1>6, <1>7, <1>8, <1>9, <1>10, <1>11,
     <1>12, <1>13 DEF RegNext

(* What the handshake has established stays: the steps that close a        *)
(* connection only reach those that are past the handshake or end it.      *)
LEMMA HandshakePreserved == RegTypeOK /\ HandshakeDone /\ EntryIsLive /\ [RegNext]_regVars => HandshakeDone'
<1> SUFFICES ASSUME RegTypeOK, HandshakeDone, EntryIsLive, [RegNext]_regVars PROVE HandshakeDone'
  OBVIOUS
<1> USE RegistryAssumption DEF RegTypeOK, HandshakeDone
<1>1. ASSUME NEW c \in Conns, NEW cert \in Certs, Accept(c, cert) PROVE HandshakeDone'
  BY <1>1 DEF Accept
<1>2. ASSUME NEW c \in Conns, Refuse(c) PROVE HandshakeDone'
  BY <1>2 DEF Refuse
<1>3. ASSUME NEW c \in Conns, NEW n \in Names \union {NoName}, Announce(c, n)
      PROVE HandshakeDone'
  BY <1>3 DEF Announce, ResolvedName
<1>4. ASSUME NEW c \in Conns, HandshakeFails(c) PROVE HandshakeDone'
  BY <1>4 DEF HandshakeFails
<1>5. ASSUME NEW c \in Conns, Register(c) PROVE HandshakeDone'
  <2>1. name[c] \in Names
    BY <1>5 DEF Register
  <2>2. \A d \in Conns : d \in closed' => d \in closed \/ phase[d] \in {"looping", "unregister"}
    BY <1>5, <2>1 DEF Register, EntryIsLive
  <2> QED
    BY <1>5, <2>2 DEF Register
<1>6. ASSUME NEW c \in Conns, Ping(c) PROVE HandshakeDone'
  BY <1>6 DEF Ping
<1>7. ASSUME NEW c \in Conns, ReadLoopEnds(c) PROVE HandshakeDone'
  BY <1>7 DEF ReadLoopEnds
<1>8. ASSUME NEW c \in Conns, Unregister(c) PROVE HandshakeDone'
  BY <1>8 DEF Unregister
<1>9. ASSUME NEW c \in Conns, CloseSelf(c) PROVE HandshakeDone'
  BY <1>9 DEF CloseSelf
<1>10. ASSUME NEW c \in Conns, NEW how \in {"silent", "down"}, LinkFails(c, how) PROVE HandshakeDone'
  BY <1>10 DEF LinkFails
<1>11. ASSUME NEW stale \in SUBSET Conns, Reap(stale) PROVE HandshakeDone'
  <2>1. \A d \in Conns : d \in closed' => d \in closed \/ phase[d] \in {"looping", "unregister"}
    BY <1>11 DEF Reap, MaybeStale, Listed, EntryIsLive
  <2> QED
    BY <1>11, <2>1 DEF Reap
<1>12. ASSUME Tick PROVE HandshakeDone'
  BY <1>12 DEF Tick
<1>13. ASSUME UNCHANGED regVars PROVE HandshakeDone'
  BY <1>13 DEF regVars
<1> QED
  BY <1>1, <1>2, <1>3, <1>4, <1>5, <1>6, <1>7, <1>8, <1>9, <1>10, <1>11, <1>12, <1>13 DEF RegNext

(* Every entry stays the open connection of its name, with its Unregister  *)
(* ahead of it.                                                            *)
LEMMA EntryPreserved == RegTypeOK /\ HandshakeDone /\ EntryIsLive /\ [RegNext]_regVars => EntryIsLive'
<1> SUFFICES ASSUME RegTypeOK, HandshakeDone, EntryIsLive, [RegNext]_regVars PROVE EntryIsLive'
  OBVIOUS
<1> USE RegistryAssumption DEF RegTypeOK, HandshakeDone, EntryIsLive
<1>1. ASSUME NEW c \in Conns, NEW cert \in Certs, Accept(c, cert) PROVE EntryIsLive'
  BY <1>1 DEF Accept
<1>2. ASSUME NEW c \in Conns, Refuse(c) PROVE EntryIsLive'
  BY <1>2 DEF Refuse
<1>3. ASSUME NEW c \in Conns, NEW n \in Names \union {NoName}, Announce(c, n)
      PROVE EntryIsLive'
  BY <1>3 DEF Announce, ResolvedName
<1>4. ASSUME NEW c \in Conns, HandshakeFails(c) PROVE EntryIsLive'
  BY <1>4 DEF HandshakeFails
<1>5. ASSUME NEW c \in Conns, Register(c) PROVE EntryIsLive'
  BY <1>5 DEF Register
<1>6. ASSUME NEW c \in Conns, Ping(c) PROVE EntryIsLive'
  BY <1>6 DEF Ping
<1>7. ASSUME NEW c \in Conns, ReadLoopEnds(c) PROVE EntryIsLive'
  BY <1>7 DEF ReadLoopEnds
<1>8. ASSUME NEW c \in Conns, Unregister(c) PROVE EntryIsLive'
  BY <1>8 DEF Unregister
<1>9. ASSUME NEW c \in Conns, CloseSelf(c) PROVE EntryIsLive'
  BY <1>9 DEF CloseSelf
<1>10. ASSUME NEW c \in Conns, NEW how \in {"silent", "down"}, LinkFails(c, how) PROVE EntryIsLive'
  BY <1>10 DEF LinkFails
<1>11. ASSUME NEW stale \in SUBSET Conns, Reap(stale) PROVE EntryIsLive'
  BY <1>11 DEF Reap
<1>12. ASSUME Tick PROVE EntryIsLive'
  BY <1>12 DEF Tick
<1>13. ASSUME UNCHANGED regVars PROVE EntryIsLive'
  BY <1>13 DEF regVars
<1> QED
  BY <1>1, <1>2, <1>3, <1>4, <1>5, <1>6, <1>7, <1>8, <1>9, <1>10, <1>11, <1>12, <1>13 DEF RegNext

(* A connection that loses its entry is closed by whoever takes it, or has *)
(* lost it to an Unregister.                                               *)
LEMMA OrphanPreserved == RegTypeOK /\ HandshakeDone /\ EntryIsLive /\ OrphanHasCulprit /\ [RegNext]_regVars => OrphanHasCulprit'
<1> SUFFICES ASSUME RegTypeOK, HandshakeDone, EntryIsLive, OrphanHasCulprit, [RegNext]_regVars PROVE OrphanHasCulprit'
  OBVIOUS
<1> USE RegistryAssumption DEF RegTypeOK, HandshakeDone, EntryIsLive, OrphanHasCulprit, Orphan, Listed
<1>1. ASSUME NEW c \in Conns, NEW cert \in Certs, Accept(c, cert) PROVE OrphanHasCulprit'
  BY <1>1 DEF Accept
<1>2. ASSUME NEW c \in Conns, Refuse(c) PROVE OrphanHasCulprit'
  BY <1>2 DEF Refuse
<1>3. ASSUME NEW c \in Conns, NEW n \in Names \union {NoName}, Announce(c, n)
      PROVE OrphanHasCulprit'
  BY <1>3 DEF Announce, ResolvedName
<1>4. ASSUME NEW c \in Conns, HandshakeFails(c) PROVE OrphanHasCulprit'
  BY <1>4 DEF HandshakeFails
<1>5. ASSUME NEW c \in Conns, Register(c) PROVE OrphanHasCulprit'
  BY <1>5 DEF Register
<1>6. ASSUME NEW c \in Conns, Ping(c) PROVE OrphanHasCulprit'
  BY <1>6 DEF Ping
<1>7. ASSUME NEW c \in Conns, ReadLoopEnds(c) PROVE OrphanHasCulprit'
  BY <1>7 DEF ReadLoopEnds
<1>8. ASSUME NEW c \in Conns, Unregister(c) PROVE OrphanHasCulprit'
  BY <1>8 DEF Unregister
<1>9. ASSUME NEW c \in Conns, CloseSelf(c) PROVE OrphanHasCulprit'
  BY <1>9 DEF CloseSelf
<1>10. ASSUME NEW c \in Conns, NEW how \in {"silent", "down"}, LinkFails(c, how) PROVE OrphanHasCulprit'
  BY <1>10 DEF LinkFails
<1>11. ASSUME NEW stale \in SUBSET Conns, Reap(stale) PROVE OrphanHasCulprit'
  BY <1>11 DEF Reap
<1>12. ASSUME Tick PROVE OrphanHasCulprit'
  BY <1>12 DEF Tick
<1>13. ASSUME UNCHANGED regVars PROVE OrphanHasCulprit'
  BY <1>13 DEF regVars
<1> QED
  BY <1>1, <1>2, <1>3, <1>4, <1>5, <1>6, <1>7, <1>8, <1>9, <1>10, <1>11, <1>12, <1>13 DEF RegNext
-----------------------------------------------------------------------------
(* The strengthened invariant, from which the others follow.               *)
THEOREM RegInvHolds == RegSpec => []RegInv
<1>1. RegInit => RegInv
  BY RegistryAssumption
  DEF RegInit, RegInv, RegTypeOK, Phases, Links, HandshakeDone, EntryIsLive,
      OrphanHasCulprit, Orphan, Listed
<1>2. RegInv /\ [RegNext]_regVars => RegInv'
  BY TypePreserved, HandshakePreserved, EntryPreserved, OrphanPreserved DEF RegInv
<1> QED
  BY <1>1, <1>2, PTL DEF RegSpec

(* Type correctness of the registry.                                       *)
THEOREM RegistryIsTyped == RegSpec => []RegTypeOK
<1>1. RegInv => RegTypeOK
  BY DEF RegInv
<1> QED
  BY <1>1, RegInvHolds, PTL

(* Whatever Get returns is open, carries the name it is listed under, and  *)
(* is still served: no entry is closed, misfiled or left behind.           *)
THEOREM EntriesAreLive == RegSpec => []EntryIsLive
<1>1. RegInv => EntryIsLive
  BY DEF RegInv
<1> QED
  BY <1>1, RegInvHolds, PTL

(* An open connection that is served and not listed can only come from the *)
(* Unregister of a namesake.                                               *)
THEOREM OrphansHaveCulprits == RegSpec => []OrphanHasCulprit
<1>1. RegInv => OrphanHasCulprit
  BY DEF RegInv
<1> QED
  BY <1>1, RegInvHolds, PTL

(* With mutual TLS a Shore is listed under its certified name.             *)
THEOREM NamesAreCertified == RegSpec => []CertifiedName
<1>1. RegInv => CertifiedName
  BY RegistryAssumption
  DEF RegInv, RegTypeOK, HandshakeDone, EntryIsLive, CertifiedName
<1> QED
  BY <1>1, RegInvHolds, PTL

-----------------------------------------------------------------------------
(* A connection has one spell in the map: the step that lists it is its    *)
(* Register, and it is open then.                                          *)
THEOREM OneSpell == RegSpec => NoSecondSpell
<1>1. RegInv /\ [RegNext]_regVars =>
        [\A c \in Conns :
           Listed(c)' => Listed(c) \/ (phase[c] = "registering" /\ c \notin closed')]_regVars
  <2> SUFFICES ASSUME RegInv, RegNext, NEW c \in Conns, Listed(c)'
               PROVE Listed(c) \/ (phase[c] = "registering" /\ c \notin closed')
    OBVIOUS
  <2> USE RegistryAssumption DEF RegInv, RegTypeOK, Listed
  <2>1. CASE \E d \in Conns : Register(d)
    BY <2>1 DEF Register, HandshakeDone, EntryIsLive
  <2>2. CASE \E d \in Conns : Unregister(d)
    BY <2>2 DEF Unregister
  <2>3. CASE \E stale \in SUBSET Conns : Reap(stale)
    BY <2>3 DEF Reap
  <2>4. CASE UNCHANGED shores
    BY <2>4
  <2> QED
    BY <2>1, <2>2, <2>3, <2>4
    DEF RegNext, Accept, Refuse, Announce, HandshakeFails, Ping, ReadLoopEnds,
        CloseSelf, LinkFails, Tick
<1> QED
  BY <1>1, RegInvHolds, PTL DEF RegSpec, NoSecondSpell

-----------------------------------------------------------------------------
(* The registry implements the directory.  Register is Enlist, Unregister  *)
(* is StrikeOff, the reaper's round is Retire, and so is a handler's own   *)
(* Close, which by then has no entry left to take.                         *)
LEMMA DirectoryInit == RegInit => Dir!DirInit
  BY RegistryAssumption DEF RegInit, Dir!DirInit, usedBar

LEMMA DirectoryStep == RegInv /\ [RegNext]_regVars => [Dir!DirNext]_(Dir!dirVars)
<1> SUFFICES ASSUME RegInv, [RegNext]_regVars PROVE [Dir!DirNext]_(Dir!dirVars)
  OBVIOUS
<1> USE RegistryAssumption DEF RegInv, RegTypeOK
<1>1. ASSUME NEW c \in Conns, NEW cert \in Certs, Accept(c, cert) PROVE UNCHANGED Dir!dirVars
  BY <1>1 DEF Accept, Dir!dirVars, usedBar
<1>2. ASSUME NEW c \in Conns, Refuse(c) PROVE UNCHANGED Dir!dirVars
  BY <1>2 DEF Refuse, Dir!dirVars, usedBar
<1>3. ASSUME NEW c \in Conns, NEW n \in Names \union {NoName}, Announce(c, n)
      PROVE UNCHANGED Dir!dirVars
  BY <1>3 DEF Announce, ResolvedName, HandshakeDone, Dir!dirVars, usedBar
<1>4. ASSUME NEW c \in Conns, HandshakeFails(c) PROVE UNCHANGED Dir!dirVars
  BY <1>4 DEF HandshakeFails, HandshakeDone, Dir!dirVars, usedBar
<1>5. ASSUME NEW c \in Conns, Register(c) PROVE Dir!DirNext
  <2>1. name[c] \in Names /\ c \notin closed
    BY <1>5 DEF Register, HandshakeDone
  <2>2. usedBar' = usedBar \union {c} /\ c \notin usedBar
    BY <1>5, <2>1 DEF Register, usedBar
  <2>3. shores[name[c]] # c
    BY <1>5, <2>1 DEF Register, EntryIsLive
  <2>4. (usedBar \ closed)' = ((usedBar \ closed) \ {shores[name[c]]}) \union {c}
    <3>1. closed' = closed \union ({shores[name[c]]} \ {NoConn})
      BY <1>5 DEF Register
    <3>2. NoConn \notin usedBar
      BY DEF usedBar
    <3> QED
      BY <2>1, <2>2, <2>3, <3>1, <3>2
  <2>5. Dir!Enlist(c, name[c])
    BY <1>5, <2>2, <2>4 DEF Register, Dir!Enlist
  <2> QED
    BY <2>1, <2>5 DEF Dir!DirNext
<1>6. ASSUME NEW c \in Conns, Ping(c) PROVE UNCHANGED Dir!dirVars
  BY <1>6 DEF Ping, Dir!dirVars, usedBar
<1>7. ASSUME NEW c \in Conns, ReadLoopEnds(c) PROVE UNCHANGED Dir!dirVars
  BY <1>7 DEF ReadLoopEnds, Dir!dirVars, usedBar
<1>8. ASSUME NEW c \in Conns, Unregister(c) PROVE Dir!DirNext
  <2>1. name[c] \in Names
    BY <1>8 DEF Unregister, HandshakeDone
  <2>2. usedBar' = usedBar
    BY <1>8 DEF Unregister, usedBar
  <2>3. Dir!StrikeOff(name[c])
    BY <1>8, <2>1, <2>2 DEF Unregister, Dir!StrikeOff
  <2> QED
    BY <2>1, <2>3 DEF Dir!DirNext
<1>9. ASSUME NEW c \in Conns, CloseSelf(c) PROVE Dir!DirNext
  <2>1. \A n \in Names : shores[n] # c
    BY <1>9 DEF CloseSelf, EntryIsLive
  <2>2. usedBar' = usedBar
    BY <1>9 DEF CloseSelf, usedBar
  <2>3. Dir!Retire({c})
    BY <1>9, <2>1, <2>2 DEF CloseSelf, Dir!Retire
  <2> QED
    BY <2>3 DEF Dir!DirNext
<1>10. ASSUME NEW c \in Conns, NEW how \in {"silent", "down"}, LinkFails(c, how)
       PROVE UNCHANGED Dir!dirVars
  BY <1>10 DEF LinkFails, Dir!dirVars, usedBar
<1>11. ASSUME NEW stale \in SUBSET Conns, Reap(stale) PROVE Dir!DirNext
  <2>1. usedBar' = usedBar
    BY <1>11 DEF Reap, usedBar
  <2>2. Dir!Retire(stale)
    BY <1>11, <2>1 DEF Reap, Dir!Retire
  <2> QED
    BY <2>2 DEF Dir!DirNext
<1>12. ASSUME Tick PROVE UNCHANGED Dir!dirVars
  BY <1>12 DEF Tick, Dir!dirVars, usedBar
<1>13. ASSUME UNCHANGED regVars PROVE UNCHANGED Dir!dirVars
  BY <1>13 DEF regVars, Dir!dirVars, usedBar
<1> QED
  BY <1>1, <1>2, <1>3, <1>4, <1>5, <1>6, <1>7, <1>8, <1>9, <1>10, <1>11,
     <1>12, <1>13 DEF RegNext

THEOREM RegistryImplementsDirectory == RegSpec => Directory
  BY DirectoryInit, DirectoryStep, RegInvHolds, PTL DEF RegSpec, Directory, Dir!DirSpec

-----------------------------------------------------------------------------
(* Why ConnectedIsFound fails.  The run get_finds_connected refutes it by  *)
(* one step: an Unregister that deletes the entry of a successor.  That    *)
(* step is the only cause: in every behaviour without it each connection   *)
(* that is served and not closed is found under its name.                  *)

DeletesOwnEntry(c) == Unregister(c) => shores[name[c]] \in {c, NoConn}

ServedIsListed ==
  \A c \in Conns : phase[c] = "looping" /\ c \notin closed => shores[name[c]] = c

LEMMA ListedPreserved ==
  ASSUME RegInv, ServedIsListed, [RegNext]_regVars, \A c \in Conns : DeletesOwnEntry(c)
  PROVE  ServedIsListed'
<1> USE RegistryAssumption DEF RegInv, RegTypeOK, HandshakeDone, ServedIsListed
<1>1. ASSUME NEW c \in Conns, Register(c) PROVE ServedIsListed'
  BY <1>1 DEF Register
<1>2. ASSUME NEW c \in Conns, Unregister(c) PROVE ServedIsListed'
  BY <1>2 DEF Unregister, DeletesOwnEntry
<1>3. ASSUME NEW stale \in SUBSET Conns, Reap(stale) PROVE ServedIsListed'
  BY <1>3 DEF Reap
<1>4. ASSUME NEW c \in Conns,
             \/ \E cert \in Certs : Accept(c, cert)
             \/ Refuse(c)
             \/ \E n \in Names \union {NoName} : Announce(c, n)
             \/ HandshakeFails(c)
      PROVE  ServedIsListed'
  BY <1>4 DEF Accept, Refuse, Announce, HandshakeFails
<1>5. ASSUME NEW c \in Conns,
             \/ Ping(c) \/ ReadLoopEnds(c) \/ CloseSelf(c)
             \/ \E how \in {"silent", "down"} : LinkFails(c, how)
      PROVE  ServedIsListed'
  BY <1>5 DEF Ping, ReadLoopEnds, CloseSelf, LinkFails
<1>6. CASE Tick \/ UNCHANGED regVars
  BY <1>6 DEF Tick, regVars
<1> HIDE DEF RegInv, RegTypeOK, HandshakeDone, ServedIsListed
<1> QED BY <1>1, <1>2, <1>3, <1>4, <1>5, <1>6 DEF RegNext

(* As long as no handler deletes an entry that is not its own, whoever is  *)
(* connected is found, and there are no orphans: nothing else in the       *)
(* registry, no order of registrations, replacements, reapings and         *)
(* deferred calls, makes a served connection unreachable.                  *)
THEOREM OnlyForeignDeletesHide ==
  RegSpec /\ [][\A c \in Conns : DeletesOwnEntry(c)]_regVars
    => [](ConnectedIsFound /\ \A c \in Conns : ~Orphan(c))
<1>1. RegInit => ServedIsListed BY DEF RegInit, ServedIsListed
<1>2. /\ RegInv /\ ServedIsListed /\ [RegNext]_regVars
      /\ [\A c \in Conns : DeletesOwnEntry(c)]_regVars
      => ServedIsListed'
  <2>1. CASE UNCHANGED regVars BY <2>1 DEF regVars, ServedIsListed
  <2> QED BY <2>1, ListedPreserved
<1>3. RegInv /\ ServedIsListed => ConnectedIsFound /\ \A c \in Conns : ~Orphan(c)
  BY RegistryAssumption
  DEF RegInv, RegTypeOK, HandshakeDone, ServedIsListed, ConnectedIsFound, Orphan, Listed
<1> QED BY <1>1, <1>2, <1>3, RegInvHolds, PTL DEF RegSpec
=============================================================================
