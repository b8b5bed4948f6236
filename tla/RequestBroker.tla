---------------------------- MODULE RequestBroker ----------------------------
(***************************************************************************)
(* What the Dock promises a browser whose request it has taken: one        *)
(* outcome; a response only if the Shore gave one, and the first it gave;  *)
(* an event stream's frames in the Shore's order and each once, none lost  *)
(* but for a full buffer; and the end of a stream only after all of them.  *)
(*                                                                         *)
(* Nothing is said of connections, maps, locks or goroutines: that is      *)
(* ShoreConnection, which implements this.                                 *)
(***************************************************************************)
EXTENDS Naturals, Sequences

CONSTANTS
  Reqs,     \* requests for a response
  Streams,  \* requests for an event stream
  Buffer    \* how many frames are kept for a browser that is slow

VARIABLES
  fate,   \* what has become of each request
  given,  \* the open requests the Shore has given a response to
  taken,  \* taken[s]: how many frames the Shore has sent to the open stream s
  inbox,  \* inbox[s]: those of them that wait for the browser
  shown,  \* shown[s]: those the browser has been sent
  done    \* the open streams the Shore has ended

brokerVars == <<fate, given, taken, inbox, shown, done>>

Failures(h) ==
  {"dropped", "failed"}
    \union (IF h \in Reqs THEN {"timedout"} ELSE {"refused", "left"})

BrokerInit ==
  /\ fate = [h \in Reqs \union Streams |-> "new"]
  /\ given = {} /\ done = {}
  /\ taken = [s \in Streams |-> 0]
  /\ inbox = [s \in Streams |-> <<>>]
  /\ shown = [s \in Streams |-> <<>>]

Open(h) == fate[h] = "open"
Becomes(h, f) == fate' = [fate EXCEPT ![h] = f]

Take(h) ==
  /\ fate[h] = "new"
  /\ Becomes(h, "open")
  /\ UNCHANGED <<given, taken, inbox, shown, done>>

(* The Shore's side.                                                       *)
Give(r) ==
  /\ Open(r) /\ r \in Reqs \ given
  /\ given' = given \union {r}
  /\ UNCHANGED <<fate, taken, inbox, shown, done>>

Frame(s) ==
  /\ Open(s) /\ s \in Streams \ done
  /\ taken' = [taken EXCEPT ![s] = @ + 1]
  /\ IF Len(inbox[s]) < Buffer
       THEN inbox' = [inbox EXCEPT ![s] = Append(@, taken'[s])]
       ELSE UNCHANGED inbox
  /\ UNCHANGED <<fate, given, shown, done>>

End(s) ==
  /\ Open(s) /\ s \in Streams \ done
  /\ done' = done \union {s}
  /\ UNCHANGED <<fate, given, taken, inbox, shown>>

(* The browser's side.  A request that is no longer open is forgotten.     *)
Forget(h) ==
  /\ given' = given \ {h}
  /\ done' = done \ {h}
  /\ taken' = [s \in Streams |-> IF s = h THEN 0 ELSE taken[s]]
  /\ inbox' = [s \in Streams |-> IF s = h THEN <<>> ELSE inbox[s]]
  /\ UNCHANGED shown

Answer(r) == Open(r) /\ r \in given /\ Becomes(r, "answered") /\ Forget(r)

Show(s) ==
  /\ Open(s) /\ inbox[s] # <<>>
  /\ shown' = [shown EXCEPT ![s] = Append(@, Head(inbox[s]))]
  /\ inbox' = [inbox EXCEPT ![s] = Tail(@)]
  /\ UNCHANGED <<fate, given, taken, done>>

Finish(s) ==
  /\ Open(s) /\ s \in done /\ inbox[s] = <<>>
  /\ Becomes(s, "over") /\ Forget(s)

Fail(h, f) == Open(h) /\ Becomes(h, f) /\ Forget(h)

BrokerNext ==
  \/ \E h \in Reqs \union Streams : Take(h) \/ \E f \in Failures(h) : Fail(h, f)
  \/ \E r \in Reqs : Give(r) \/ Answer(r)
  \/ \E s \in Streams : Frame(s) \/ End(s) \/ Show(s) \/ Finish(s)

BrokerSpec == BrokerInit /\ [][BrokerNext]_brokerVars
=============================================================================
