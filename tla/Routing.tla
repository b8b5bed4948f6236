------------------------------ MODULE Routing ------------------------------
(***************************************************************************)
(* Which Shore a browser's request goes to: resolveShore and the cookie    *)
(* hermit_active_shore (gateway.go) behind requireSession (main.go).       *)
(*                                                                         *)
(* One browser, its tabs, and the two cookies they share.  A tab opens     *)
(* pages; the page of a Shore asks for parts (assets, API calls).  A path  *)
(* is its first segment: the short name of a Shore ("master" of            *)
(* "shore-master") or something else.  Cookies and registry are read when  *)
(* a request is resolved, cookies are set when its answer arrives, and in  *)
(* between anything may happen.                                            *)
(*                                                                         *)
(* The registry is reduced to the owner of each listed Shore; how it comes *)
(* to list one is ShoreRegistry.                                           *)
(***************************************************************************)
CONSTANTS
  Tabs,
  Users,
  Shores,  \* short names of Shores
  Others,  \* other first segments
  None

Request == [path : Shores \union Others, target : Shores]

ASSUME RoutingAssumption ==
  /\ None \notin Users \union Shores \union Others \union Request
  /\ Shores \intersect Others = {}

VARIABLES
  owner,   \* the owner of each Shore that is listed, else None
  user,    \* whom the session cookie vouches for, None without a valid one
  active,  \* the cookie hermit_active_shore, or None
  page,    \* the Shore whose page each tab shows, or None
  nav,     \* the page each tab is waiting for, or None
  part,    \* a part the page of each tab is waiting for, or None
  rivals   \* history, see BleedHasRival

rouVars == <<owner, user, active, page, nav, part, rivals>>

RouInit ==
  /\ owner = [s \in Shores |-> None]
  /\ user = None
  /\ active = None
  /\ page = [t \in Tabs |-> None]
  /\ nav = [t \in Tabs |-> None]
  /\ part = [t \in Tabs |-> None]
  /\ rivals = [t \in Tabs |-> {}]

-----------------------------------------------------------------------------
(* GetByOwner: the Shore is listed and the user's.                         *)
Owns(s) == user # None /\ s # None /\ owner[s] = user

(* Mutant: the cookie's Shore is looked up whoever owns it.                *)
ResolveByName(path) ==
  IF path \in Shores /\ Owns(path) THEN path
  ELSE IF active # None /\ user # None /\ owner[active] # None THEN active ELSE None

(* resolveShore: the Shore of the path's first segment, else the Shore of  *)
(* the cookie, else none.                                                  *)
Resolve(path) ==
  IF path \in Shores /\ Owns(path) THEN path
  ELSE IF Owns(active) THEN active ELSE None

(* A tab opens a page, whatever it was waiting for.  Without a session it  *)
(* gets the login page, without a Shore an error.                          *)
Navigate(t, path) ==
  LET s == Resolve(path) IN
    /\ IF s = None
         THEN nav' = [nav EXCEPT ![t] = None] /\ page' = [page EXCEPT ![t] = None]
         ELSE nav' = [nav EXCEPT ![t] = [path |-> path, target |-> s]] /\ UNCHANGED page
    /\ part' = [part EXCEPT ![t] = IF s = None THEN None ELSE @]
    /\ UNCHANGED <<owner, user, active, rivals>>

(* The page of a Shore asks for a part of itself: with the prefix, if its  *)
(* links are relative, without it if they are absolute; an absolute link   *)
(* may begin like another Shore's prefix.                                  *)
AskForPart(t, path) ==
  /\ page[t] # None /\ part[t] = None
  /\ Resolve(path) # None
  /\ part' = [part EXCEPT ![t] = [path |-> path, target |-> Resolve(path)]]
  /\ UNCHANGED <<owner, user, active, page, nav, rivals>>

-----------------------------------------------------------------------------
(* Answers *)

(* The Shore was found by its prefix, and the answer sets the cookie.      *)
ByPrefix(r) == r.path = r.target

(* Mutant: the cookie is set whichever way the Shore was found.            *)
CookieOfAny(r, own) == IF own THEN active ELSE r.path

(* Mutant: a cookie that is set already is left alone.                     *)
CookieOnce(r, own) == IF ByPrefix(r) /\ ~own /\ active = None THEN r.path ELSE active

(* What the cookie is after the answer to r.  It is set before the answer  *)
(* is known, so an error sets it too; an answer of the Shore with a        *)
(* Set-Cookie header of its own replaces it (Header().Set).                *)
Cookie(r, own) == IF ByPrefix(r) /\ ~own THEN r.path ELSE active

Rivals(t) == rivals[t] \union (IF active' = active THEN {} ELSE {active'})

PartAnswered(t) ==
  /\ part[t] # None
  /\ part' = [part EXCEPT ![t] = None]
  /\ \E own \in BOOLEAN : active' = Cookie(part[t], own)
  /\ rivals' = [u \in Tabs |-> Rivals(u)]
  /\ UNCHANGED <<owner, user, page, nav>>

(* The tab shows what the Shore answered, or the error that came instead.  *)
PageAnswered(t) ==
  /\ nav[t] # None
  /\ nav' = [nav EXCEPT ![t] = None]
  /\ part' = [part EXCEPT ![t] = None]
  /\ \E own \in BOOLEAN :
       /\ active' = Cookie(nav[t], own)
       /\ rivals' = [u \in Tabs |->
            IF u = t /\ ByPrefix(nav[t]) THEN (IF own THEN {active} \ {None} ELSE {})
            ELSE Rivals(u)]
       /\ \/ page' = [page EXCEPT ![t] = nav[t].target]
          \/ ~own /\ page' = [page EXCEPT ![t] = None]
  /\ UNCHANGED <<owner, user>>

-----------------------------------------------------------------------------
(* What goes on around them *)

(* Somebody logs in, as anybody, or out; or the session expires.           *)
SetSession(u) ==
  /\ user' = u
  /\ UNCHANGED <<owner, active, page, nav, part, rivals>>

(* A Shore registers, perhaps under another owner, or leaves.              *)
SetOwner(s, u) ==
  /\ owner' = [owner EXCEPT ![s] = u]
  /\ UNCHANGED <<user, active, page, nav, part, rivals>>

(* The Dock is started again: nothing is listed, nothing is answered, and  *)
(* without DOCK_SESSION_SECRET the session is lost.                        *)
Restart ==
  /\ owner' = [s \in Shores |-> None]
  /\ user' \in {user, None}
  /\ page' = [t \in Tabs |-> IF nav[t] = None THEN page[t] ELSE None]
  /\ nav' = [t \in Tabs |-> None]
  /\ part' = [t \in Tabs |-> None]
  /\ UNCHANGED <<active, rivals>>

RouNext ==
  \/ \E t \in Tabs :
       \/ \E path \in Shores \union Others : Navigate(t, path) \/ AskForPart(t, path)
       \/ PartAnswered(t) \/ PageAnswered(t)
  \/ \E u \in Users \union {None} : SetSession(u) \/ \E s \in Shores : SetOwner(s, u)
  \/ Restart

RouSpec == RouInit /\ [][RouNext]_rouVars

-----------------------------------------------------------------------------
RouTypeOK ==
  /\ owner \in [Shores -> Users \union {None}]
  /\ user \in Users \union {None}
  /\ active \in Shores \union {None}
  /\ page \in [Tabs -> Shores \union {None}]
  /\ nav \in [Tabs -> Request \union {None}]
  /\ part \in [Tabs -> Request \union {None}]
  /\ rivals \in [Tabs -> SUBSET Shores]

Asked(t) ==
  {r \in {nav'[t]} \ {nav[t]} : r # None} \union {r \in {part'[t]} \ {part[t]} : r # None}

(* A request goes to a Shore of the user who is logged in when it is made, *)
(* whoever set the cookie, and whoever owned the Shore then (gateway.go,   *)
(* resolveShore).                                                          *)
OwnShoresOnly ==
  [][\A t \in Tabs : \A r \in Asked(t) : user # None /\ owner[r.target] = user]_rouVars

(* A part goes to another Shore than its page's only if it is asked for    *)
(* under that Shore's prefix, or the cookie went astray since the tab last *)
(* opened a Shore by its prefix: an answer of the other Shore, to whatever *)
(* tab, set it, or it was not set because the answer to the tab brought a  *)
(* cookie of its own (gateway.go, routeToShore and resolveShore).          *)
BleedHasRival ==
  [][\A t \in Tabs :
       LET r == part'[t] IN
         r # None /\ part[t] = None => r.target \in {r.path, page[t]} \union rivals[t]]_rouVars

-----------------------------------------------------------------------------
(* What a comment says and the code does not do. *)

(* "/master/... -> shore-master owned by user" (gateway.go:196): a page    *)
(* asked for by a Shore's prefix is that Shore's page or none.             *)
NoSilentCrossover ==
  \A t \in Tabs : nav[t] # None /\ nav[t].path \in Shores => nav[t].target = nav[t].path
=============================================================================
