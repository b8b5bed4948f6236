--------------------------- MODULE RoutingProofs ---------------------------
(***************************************************************************)
(* Proofs about Routing, for any tabs, users, Shores and paths.            *)
(*                                                                         *)
(* That a part of a page goes astray only behind a rival's cookie rests on *)
(* Astray: while a page is shown or awaited, the cookie is its Shore's, or *)
(* a rival's, or not set at all.                                           *)
(***************************************************************************)
EXTENDS Routing, TLAPS

(* What the cookie can be for a tab that shows or awaits a page of s.      *)
Known(t, s) == active \in {s, None} \union rivals[t]

Astray ==
  \A t \in Tabs :
    /\ page[t] # None => Known(t, page[t])
    /\ nav[t] # None /\ ~ByPrefix(nav[t]) => Known(t, nav[t].target)

RouInv == RouTypeOK /\ Astray

-----------------------------------------------------------------------------
(* What resolveShore returns is no Shore, or a Shore of the user's: the    *)
(* one the path names or the one in the cookie.                            *)
LEMMA Resolved ==
  ASSUME RouTypeOK, NEW path \in Shores \union Others, Resolve(path) # None
  PROVE  /\ Resolve(path) \in Shores
         /\ user # None /\ owner[Resolve(path)] = user
         /\ Resolve(path) \in {path, active}
  BY DEF Resolve, Owns, RouTypeOK

(* Every variable keeps to its type.                                       *)
LEMMA RouTypePreserved == RouTypeOK /\ [RouNext]_rouVars => RouTypeOK'
<1> SUFFICES ASSUME RouTypeOK, [RouNext]_rouVars PROVE RouTypeOK'
  OBVIOUS
<1>0. \A path \in Shores \union Others :
        Resolve(path) # None => Resolve(path) \in Shores
  BY Resolved
<1> USE RoutingAssumption DEF RouTypeOK
<1>1. ASSUME NEW t \in Tabs, NEW path \in Shores \union Others, Navigate(t, path)
      PROVE RouTypeOK'
  <2>1. Resolve(path) # None => [path |-> path, target |-> Resolve(path)] \in Request
    BY <1>0 DEF Request
  <2> QED
    BY <1>1, <2>1 DEF Navigate
<1>2. ASSUME NEW t \in Tabs, NEW path \in Shores \union Others, AskForPart(t, path)
      PROVE RouTypeOK'
  <2>1. [path |-> path, target |-> Resolve(path)] \in Request
    BY <1>0, <1>2 DEF Request, AskForPart
  <2> QED
    BY <1>2, <2>1 DEF AskForPart
<1>3. ASSUME NEW t \in Tabs, PartAnswered(t) PROVE RouTypeOK'
  <2>1. part[t] \in Request
    BY <1>3 DEF PartAnswered
  <2>2. active' \in Shores \union {None} /\ (active' # active => active' \in Shores)
    BY <1>3, <2>1 DEF PartAnswered, Cookie, ByPrefix, Request
  <2>3. rivals' \in [Tabs -> SUBSET Shores]
    BY <1>3, <2>2 DEF PartAnswered, Rivals
  <2> QED
    BY <1>3, <2>2, <2>3 DEF PartAnswered
<1>4. ASSUME NEW t \in Tabs, PageAnswered(t) PROVE RouTypeOK'
  <2>1. nav[t] \in Request /\ nav[t].target \in Shores
    BY <1>4 DEF PageAnswered, Request
  <2>2. active' \in Shores \union {None} /\ (active' # active => active' \in Shores)
    BY <1>4, <2>1 DEF PageAnswered, Cookie, ByPrefix
  <2>3. rivals' \in [Tabs -> SUBSET Shores]
    BY <1>4, <2>2 DEF PageAnswered, Rivals
  <2> QED
    BY <1>4, <2>1, <2>2, <2>3 DEF PageAnswered
<1>5. ASSUME NEW u \in Users \union {None}, SetSession(u) PROVE RouTypeOK'
  BY <1>5 DEF SetSession
<1>6. ASSUME NEW s \in Shores, NEW u \in Users \union {None}, SetOwner(s, u) PROVE RouTypeOK'
  BY <1>6 DEF SetOwner
<1>7. CASE Restart
  BY <1>7 DEF Restart
<1>8. CASE UNCHANGED rouVars
  BY <1>8 DEF rouVars
<1> QED
  BY <1>1, <1>2, <1>3, <1>4, <1>5, <1>6, <1>7, <1>8 DEF RouNext

-----------------------------------------------------------------------------
(* A cookie that changes becomes a rival, so what is known of it stays so. *)
LEMMA KnownStays ==
  ASSUME RouTypeOK, NEW t \in Tabs, NEW s, Known(t, s), rivals' \in [Tabs -> SUBSET Shores],
         rivals'[t] = Rivals(t)
  PROVE  Known(t, s)'
  BY DEF Known, Rivals

LEMMA AstrayPreserved == RouInv /\ [RouNext]_rouVars => Astray'
<1> SUFFICES ASSUME RouTypeOK, Astray, [RouNext]_rouVars PROVE Astray'
  BY DEF RouInv
<1>0. RouTypeOK'
  BY RouTypePreserved
<1>a. \A path \in Shores \union Others :
        Resolve(path) # None => Resolve(path) \in {path, active}
  BY Resolved
<1>b. ASSUME UNCHANGED <<active, page, nav, rivals>> PROVE Astray'
  BY <1>b DEF Astray, Known, ByPrefix
<1>1. ASSUME NEW t \in Tabs, NEW path \in Shores \union Others, Navigate(t, path)
      PROVE Astray'
  <2> SUFFICES ASSUME NEW u \in Tabs
               PROVE  /\ page'[u] # None => Known(u, page[u])'
                      /\ nav'[u] # None /\ ~ByPrefix(nav[u])' => Known(u, nav[u].target)'
    BY DEF Astray
  <2>1. UNCHANGED <<active, rivals>>
    BY <1>1 DEF Navigate
  <2>2. page'[u] # None => page'[u] = page[u]
    BY <1>1 DEF Navigate, RouTypeOK
  <2>3. CASE nav'[u] = nav[u]
    BY <2>1, <2>2, <2>3 DEF Astray, Known, ByPrefix
  <2>4. CASE nav'[u] # nav[u] /\ nav'[u] # None
    <3>1. nav'[u] = [path |-> path, target |-> Resolve(path)] /\ Resolve(path) # None
      BY <1>1, <2>4 DEF Navigate, RouTypeOK
    <3>2. ~ByPrefix(nav[u])' => nav'[u].target = active
      BY <1>a, <3>1 DEF ByPrefix
    <3> QED
      BY <2>1, <2>2, <3>2 DEF Astray, Known
  <2>5. CASE nav'[u] = None
    BY <2>1, <2>2, <2>5 DEF Astray, Known
  <2> QED
    BY <2>3, <2>4, <2>5
<1>2. ASSUME NEW t \in Tabs, NEW path \in Shores \union Others, AskForPart(t, path)
      PROVE Astray'
  BY <1>2, <1>b DEF AskForPart
<1>3. ASSUME NEW t \in Tabs, PartAnswered(t) PROVE Astray'
  <2> SUFFICES ASSUME NEW u \in Tabs
               PROVE  /\ page'[u] # None => Known(u, page[u])'
                      /\ nav'[u] # None /\ ~ByPrefix(nav[u])' => Known(u, nav[u].target)'
    BY DEF Astray
  <2>1. rivals'[u] = Rivals(u) /\ UNCHANGED <<page, nav>>
    BY <1>3 DEF PartAnswered
  <2>2. \A s : Known(u, s) => Known(u, s)'
    BY <1>0, <2>1, KnownStays DEF RouTypeOK
  <2> QED
    BY <2>1, <2>2 DEF Astray, ByPrefix, Known
<1>4. ASSUME NEW t \in Tabs, PageAnswered(t) PROVE Astray'
  <2> SUFFICES ASSUME NEW u \in Tabs
               PROVE  /\ page'[u] # None => Known(u, page[u])'
                      /\ nav'[u] # None /\ ~ByPrefix(nav[u])' => Known(u, nav[u].target)'
    BY DEF Astray
  <2>1. CASE u = t /\ ByPrefix(nav[t])
    <3>1. nav'[u] = None
      BY <1>4, <2>1 DEF PageAnswered, RouTypeOK
    <3>2. PICK own \in BOOLEAN :
            /\ active' = Cookie(nav[t], own)
            /\ rivals'[t] = (IF own THEN {active} \ {None} ELSE {})
            /\ page'[t] = nav[t].target \/ (~own /\ page'[t] = None)
      BY <1>4, <2>1 DEF PageAnswered, RouTypeOK
    <3>3. page'[u] # None => active' \in {page'[u], None} \union rivals'[u]
      BY <2>1, <3>2 DEF Cookie, ByPrefix
    <3> QED
      BY <3>1, <3>3 DEF Known
  <2>2. CASE ~(u = t /\ ByPrefix(nav[t]))
    <3>1. rivals'[u] = Rivals(u)
      BY <1>4, <2>2 DEF PageAnswered, RouTypeOK
    <3>2. \A s : Known(u, s) => Known(u, s)'
      BY <1>0, <3>1, KnownStays DEF RouTypeOK
    <3>3. page'[u] # None =>
            page'[u] = page[u] \/ (u = t /\ page'[u] = nav[t].target /\ nav[t] # None)
      BY <1>4 DEF PageAnswered, RouTypeOK
    <3>4. page'[u] # None => Known(u, page'[u])
      BY <2>2, <3>3 DEF Astray
    <3>5. nav'[u] # None => nav'[u] = nav[u]
      BY <1>4 DEF PageAnswered, RouTypeOK
    <3> QED
      BY <3>2, <3>4, <3>5 DEF Astray, ByPrefix, Known
  <2> QED
    BY <2>1, <2>2
<1>5. ASSUME NEW u \in Users \union {None}, SetSession(u) PROVE Astray'
  BY <1>5, <1>b DEF SetSession
<1>6. ASSUME NEW s \in Shores, NEW u \in Users \union {None}, SetOwner(s, u) PROVE Astray'
  BY <1>6, <1>b DEF SetOwner
<1>7. CASE Restart
  <2>1. \A t \in Tabs : nav'[t] = None /\ (page'[t] # None => page'[t] = page[t])
    BY <1>7 DEF Restart
  <2> QED
    BY <1>7, <2>1 DEF Restart, Astray, Known
<1>8. CASE UNCHANGED rouVars
  BY <1>8, <1>b DEF rouVars
<1> QED
  BY <1>1, <1>2, <1>3, <1>4, <1>5, <1>6, <1>7, <1>8 DEF RouNext

(* The strengthened invariant, from which the others follow.               *)
THEOREM RouInvHolds == RouSpec => []RouInv
<1>1. RouInit => RouInv
  BY RoutingAssumption DEF RouInit, RouInv, RouTypeOK, Astray
<1>2. RouInv /\ [RouNext]_rouVars => RouInv'
  BY RouTypePreserved, AstrayPreserved DEF RouInv
<1> QED
  BY <1>1, <1>2, PTL DEF RouSpec

(* Type correctness of the browser's and the registry's state.             *)
THEOREM RoutingIsTyped == RouSpec => []RouTypeOK
<1>1. RouInv => RouTypeOK
  BY DEF RouInv
<1> QED
  BY <1>1, RouInvHolds, PTL

-----------------------------------------------------------------------------
(* The steps that make a request, and what they ask for.                   *)
LEMMA Asking ==
  ASSUME RouTypeOK, [RouNext]_rouVars, NEW t \in Tabs, NEW r \in Asked(t)
  PROVE  \E path \in Shores \union Others :
           /\ Resolve(path) # None
           /\ r = [path |-> path, target |-> Resolve(path)]
<1>1. CASE r = nav'[t] /\ nav'[t] # nav[t] /\ nav'[t] # None
  <2>1. PICK path \in Shores \union Others : Navigate(t, path)
    BY <1>1 DEF RouNext, rouVars, RouTypeOK, Navigate, AskForPart, PartAnswered,
                PageAnswered, SetSession, SetOwner, Restart
  <2> QED
    BY <1>1, <2>1 DEF Navigate, RouTypeOK
<1>2. CASE r = part'[t] /\ part'[t] # part[t] /\ part'[t] # None
  <2>1. PICK path \in Shores \union Others : AskForPart(t, path)
    BY <1>2 DEF RouNext, rouVars, RouTypeOK, Navigate, AskForPart, PartAnswered,
                PageAnswered, SetSession, SetOwner, Restart
  <2> QED
    BY <1>2, <2>1 DEF AskForPart, RouTypeOK
<1> QED
  BY <1>1, <1>2 DEF Asked

(* Every request goes to a Shore of the user who makes it.                 *)
THEOREM RequestsStayHome == RouSpec => OwnShoresOnly
<1>1. RouTypeOK /\ [RouNext]_rouVars =>
        [\A t \in Tabs : \A r \in Asked(t) : user # None /\ owner[r.target] = user]_rouVars
  <2> SUFFICES ASSUME RouTypeOK, [RouNext]_rouVars, NEW t \in Tabs, NEW r \in Asked(t)
               PROVE  user # None /\ owner[r.target] = user
    OBVIOUS
  <2>1. PICK path \in Shores \union Others :
          Resolve(path) # None /\ r = [path |-> path, target |-> Resolve(path)]
    BY Asking
  <2> QED
    BY <2>1, Resolved
<1> QED
  BY <1>1, RoutingIsTyped, PTL DEF RouSpec, OwnShoresOnly

(* A part goes astray only behind a rival's cookie.                        *)
THEOREM BleedsHaveRivals == RouSpec => BleedHasRival
<1>1. RouInv /\ [RouNext]_rouVars =>
        [\A t \in Tabs :
           LET r == part'[t] IN
             r # None /\ part[t] = None =>
               r.target \in {r.path, page[t]} \union rivals[t]]_rouVars
  <2> SUFFICES ASSUME RouTypeOK, Astray, [RouNext]_rouVars, NEW t \in Tabs,
                      part'[t] # None, part[t] = None
               PROVE  part'[t].target \in {part'[t].path, page[t]} \union rivals[t]
    BY DEF RouInv
  <2>1. PICK path \in Shores \union Others : AskForPart(t, path)
    BY DEF RouNext, rouVars, RouTypeOK, Navigate, AskForPart, PartAnswered,
           PageAnswered, SetSession, SetOwner, Restart
  <2>2. /\ page[t] # None /\ Resolve(path) # None
        /\ part'[t] = [path |-> path, target |-> Resolve(path)]
    BY <2>1 DEF AskForPart, RouTypeOK
  <2>3. Resolve(path) \in {path, active}
    BY <2>2, Resolved
  <2>4. active \in {page[t], None} \union rivals[t]
    BY <2>2 DEF Astray, Known
  <2> QED
    BY <2>2, <2>3, <2>4
<1> QED
  BY <1>1, RouInvHolds, PTL DEF RouSpec, BleedHasRival

-----------------------------------------------------------------------------
(* Why NoSilentCrossover fails.  The run silent_crossover refutes it with  *)
(* two Shores: the cookie is one's, the other is asked for while it is not *)
(* the user's.  A browser that asks for one Shore only, in whatever tabs,  *)
(* is never shown another, whoever logs in and whatever becomes of the     *)
(* Shores and of the Dock.                                                 *)

AsksOnlyFor(s) == \A t \in Tabs : \A r \in Asked(t) : r.path \in Shores => r.path = s

AllOf(s) ==
  /\ active \in {s, None}
  /\ \A t \in Tabs :
       /\ page[t] \in {s, None}
       /\ nav[t] # None => nav[t].target = s /\ nav[t].path \in Others \union {s}
       /\ part[t] # None => part[t].target = s /\ part[t].path \in Others \union {s}

LEMMA AllOfPreserved ==
  ASSUME NEW s \in Shores, RouTypeOK, AllOf(s), [RouNext]_rouVars, AsksOnlyFor(s)
  PROVE  AllOf(s)'
<1> USE DEF RouTypeOK, AllOf
<1>c. ASSUME NEW r \in Request, r.target = s, NEW own \in BOOLEAN
      PROVE  Cookie(r, own) \in {s, None}
  BY <1>c DEF Cookie, ByPrefix
<1>1. ASSUME NEW t \in Tabs, NEW path \in Shores \union Others, Navigate(t, path)
      PROVE  AllOf(s)'
  <2>1. CASE Resolve(path) = None
    BY <1>1, <2>1 DEF Navigate
  <2>2. CASE Resolve(path) # None
    <3>1. nav' = [nav EXCEPT ![t] = [path |-> path, target |-> Resolve(path)]]
          /\ UNCHANGED <<active, page, part>>
      BY <1>1, <2>2 DEF Navigate
    <3>2. PICK q \in Request : q = [path |-> path, target |-> Resolve(path)]
      BY <2>2, Resolved DEF Request
    <3>3. nav'[t] = q /\ q # None /\ q.path = path /\ q.target = Resolve(path)
      BY <3>1, <3>2, RoutingAssumption
    <3>4. path \in Others \union {s}
      <4>1. nav[t] = q => path \in Others \union {s}
        BY <3>3
      <4>2. nav[t] # q => q \in Asked(t)
        BY <3>3 DEF Asked
      <4> QED
        BY <3>3, <4>1, <4>2 DEF AsksOnlyFor
    <3>5. Resolve(path) = s
      BY <2>2, <3>4, Resolved, RoutingAssumption
    <3> QED
      BY <3>1, <3>3, <3>4, <3>5
  <2> QED
    BY <2>1, <2>2
<1>2. ASSUME NEW t \in Tabs, NEW path \in Shores \union Others, AskForPart(t, path)
      PROVE  AllOf(s)'
  <2>1. /\ part[t] = None /\ Resolve(path) # None
        /\ part' = [part EXCEPT ![t] = [path |-> path, target |-> Resolve(path)]]
        /\ UNCHANGED <<active, page, nav>>
    BY <1>2 DEF AskForPart
  <2>2. PICK q \in Request : q = [path |-> path, target |-> Resolve(path)]
    BY <2>1, Resolved DEF Request
  <2>3. part'[t] = q /\ q # None /\ q.path = path /\ q.target = Resolve(path)
    BY <2>1, <2>2, RoutingAssumption
  <2>4. q \in Asked(t)
    BY <2>1, <2>3 DEF Asked
  <2>5. path \in Others \union {s}
    BY <2>3, <2>4 DEF AsksOnlyFor
  <2>6. Resolve(path) = s
    BY <2>1, <2>5, Resolved, RoutingAssumption
  <2> QED
    BY <2>1, <2>3, <2>5, <2>6
<1>3. ASSUME NEW t \in Tabs, PartAnswered(t) PROVE AllOf(s)'
  <2>1. active' \in {s, None}
    BY <1>3, <1>c DEF PartAnswered
  <2> QED
    BY <1>3, <2>1 DEF PartAnswered
<1>4. ASSUME NEW t \in Tabs, PageAnswered(t) PROVE AllOf(s)'
  <2>1. active' \in {s, None}
    BY <1>4, <1>c DEF PageAnswered
  <2>2. nav[t].target = s
    BY <1>4 DEF PageAnswered
  <2> QED
    BY <1>4, <2>1, <2>2 DEF PageAnswered
<1>5. ASSUME NEW u \in Users \union {None}, SetSession(u) PROVE AllOf(s)'
  BY <1>5 DEF SetSession
<1>6. ASSUME NEW x \in Shores, NEW u \in Users \union {None}, SetOwner(x, u) PROVE AllOf(s)'
  BY <1>6 DEF SetOwner
<1>7. ASSUME Restart PROVE AllOf(s)'
  BY <1>7 DEF Restart
<1>8. CASE UNCHANGED rouVars
  BY <1>8 DEF rouVars
<1> QED
  BY <1>1, <1>2, <1>3, <1>4, <1>5, <1>6, <1>7, <1>8 DEF RouNext

(* Pages and their parts come from one Shore as long as no other one is    *)
(* asked for by its prefix (resolveShore, routeToShore).                   *)
THEOREM OneShoreStaysOne ==
  ASSUME NEW s \in Shores
  PROVE  RouSpec /\ [][AsksOnlyFor(s)]_rouVars
           => []AllOf(s) /\ []NoSilentCrossover
<1>1. RouInit => AllOf(s)
  BY DEF RouInit, AllOf
<1>2. RouTypeOK /\ AllOf(s) /\ [RouNext]_rouVars /\ [AsksOnlyFor(s)]_rouVars => AllOf(s)'
  <2>1. CASE UNCHANGED rouVars
    BY <2>1 DEF rouVars, AllOf
  <2> QED
    BY <2>1, AllOfPreserved
<1>3. AllOf(s) => NoSilentCrossover
  BY RoutingAssumption DEF AllOf, NoSilentCrossover
<1> QED
  BY <1>1, <1>2, <1>3, RoutingIsTyped, PTL DEF RouSpec
=============================================================================
