------------------------------ MODULE Gateway ------------------------------
(***************************************************************************)
(* What the Dock promises as a whole: the directory of connections and the *)
(* broker of requests side by side, and what ties the one to the other.    *)
(*                                                                         *)
(*   - a request is put through to a connection that a name leads to at    *)
(*     that moment;                                                        *)
(*   - what reaches it from a Shore, a response, a frame, the end of a     *)
(*     stream, comes over that connection, while the Dock listens to it;   *)
(*   - it is dropped only if the Dock has closed that connection;          *)
(*   - the Dock listens to a connection from the moment it is entered, and *)
(*     once it has stopped it never listens to it again;                   *)
(*   - a name is struck off only on behalf of a connection that was once   *)
(*     entered under it and is no longer listened to.                      *)
(*                                                                         *)
(* Dock implements this specification (Dock!GatewayHolds).                 *)
(***************************************************************************)
EXTENDS ShoreDirectory, RequestBroker

VARIABLES
  book,   \* <<c, n>> for every connection c that has been entered under n, ever
  heard,  \* the connections the Dock listens to
  via     \* via[h]: the connection h was put through to, or NoConn

gwVars == <<dirVars, brokerVars, book, heard, via>>

GwInit ==
  /\ DirInit /\ BrokerInit
  /\ book = {} /\ heard = {}
  /\ via = [h \in Reqs \union Streams |-> NoConn]

-----------------------------------------------------------------------------
(* The directory's side *)

Connect(c, n) ==
  /\ Enlist(c, n)
  /\ book' = book \union {<<c, n>>}
  /\ heard' = heard \union {c}
  /\ UNCHANGED <<brokerVars, via>>

StopListening(c) ==
  /\ heard' = heard \ {c}
  /\ UNCHANGED <<dirVars, brokerVars, book, via>>

Delist(n) ==
  /\ \E c \in Conns \ heard : <<c, n>> \in book
  /\ StrikeOff(n)
  /\ UNCHANGED <<brokerVars, book, heard, via>>

Disconnect(S) ==
  /\ Retire(S)
  /\ UNCHANGED <<brokerVars, book, heard, via>>

-----------------------------------------------------------------------------
(* The requests' side *)

PutThrough(h, n) ==
  /\ entry[n] # NoConn
  /\ Take(h)
  /\ via' = [via EXCEPT ![h] = entry[n]]
  /\ UNCHANGED <<dirVars, book, heard>>

FromShore(h) ==
  /\ via[h] \in heard
  /\ \/ h \in Reqs /\ Give(h)
     \/ h \in Streams /\ (Frame(h) \/ End(h))
  /\ UNCHANGED <<dirVars, book, heard, via>>

ToBrowser(h) ==
  /\ \/ h \in Reqs /\ Answer(h)
     \/ h \in Streams /\ (Show(h) \/ Finish(h))
  /\ UNCHANGED <<dirVars, book, heard, via>>

ClosedByDock(c) == c \in used \ open

GiveUp(h, f) ==
  /\ f = "dropped" => ClosedByDock(via[h])
  /\ Fail(h, f)
  /\ UNCHANGED <<dirVars, book, heard, via>>

GwNext ==
  \/ \E c \in Conns : StopListening(c) \/ \E n \in Names : Connect(c, n)
  \/ \E n \in Names : Delist(n)
  \/ \E S \in SUBSET Conns : Disconnect(S)
  \/ \E h \in Reqs \union Streams :
       \/ \E n \in Names : PutThrough(h, n)
       \/ FromShore(h) \/ ToBrowser(h)
       \/ \E f \in Failures(h) : GiveUp(h, f)

GwSpec == GwInit /\ [][GwNext]_gwVars
=============================================================================
