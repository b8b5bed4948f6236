--------------------------- MODULE ShoreDirectory ---------------------------
(***************************************************************************)
(* What the registry of connected Shores promises to the rest of the Dock, *)
(* with no handler, lock, clock or network in sight: a map from names to   *)
(* open connections.                                                       *)
(*                                                                         *)
(*   - a name leads to at most one connection, and that connection is open *)
(*     (the Dock has not closed it);                                       *)
(*   - a connection is entered once, under one name, and never again;      *)
(*   - an entry goes away only when its connection is replaced or retired  *)
(*     (and is then closed) or when its name is struck off, which leaves   *)
(*     the connection as it is.                                            *)
(*                                                                         *)
(* ShoreRegistry implements this specification (ShoreRegistry!Directory).  *)
(***************************************************************************)
CONSTANTS Conns, Names, NoConn

VARIABLES
  entry,   \* entry[n]: the connection n leads to, or NoConn
  used,    \* the connections that have been entered, ever
  open     \* the entered connections the Dock has not closed

dirVars == <<entry, used, open>>

DirInit ==
  /\ entry = [n \in Names |-> NoConn]
  /\ used = {}
  /\ open = {}

(* A new connection takes the name n; the one it replaces is closed.       *)
Enlist(c, n) ==
  /\ c \in Conns \ used
  /\ entry' = [entry EXCEPT ![n] = c]
  /\ used' = used \union {c}
  /\ open' = (open \ {entry[n]}) \union {c}

(* The name n is struck off; whatever it led to stays as it is.            *)
StrikeOff(n) ==
  /\ entry' = [entry EXCEPT ![n] = NoConn]
  /\ UNCHANGED <<used, open>>

(* The connections in S are closed and all their entries go in one step.   *)
Retire(S) ==
  /\ entry' = [n \in Names |-> IF entry[n] \in S THEN NoConn ELSE entry[n]]
  /\ open' = open \ S
  /\ UNCHANGED used

DirNext ==
  \/ \E c \in Conns, n \in Names : Enlist(c, n)
  \/ \E n \in Names : StrikeOff(n)
  \/ \E S \in SUBSET Conns : Retire(S)

DirSpec == DirInit /\ [][DirNext]_dirVars
=============================================================================
