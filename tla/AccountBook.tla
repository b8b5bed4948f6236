---------------------------- MODULE AccountBook ----------------------------
(***************************************************************************)
(* What the users of the Dock are promised about their accounts, with no   *)
(* statements, retries, failures or crashes in sight: a book in which      *)
(* lines are added and none is changed.                                    *)
(*                                                                         *)
(*   - a username is given away once, to whoever the request that opened   *)
(*     the account speaks for, and never changes hands;                    *)
(*   - a request opens one account at most, and lets its sender into that  *)
(*     one if it opened one, else into an account of the one it speaks     *)
(*     for; a request that has let somebody in does no more;               *)
(*   - admin rights are given to the first account and to the one of the   *)
(*     configured name, and never taken back.                              *)
(*                                                                         *)
(* Accounts implements this specification (Accounts!BookHolds).            *)
(***************************************************************************)
EXTENDS Naturals, Sequences

CONSTANTS Requests, Usernames, Identities, Local, NoUser, AdminUser

VARIABLES
  book,     \* the accounts in the order they were opened: the name, whose
            \* account it is, the request that opened it
  trusted,  \* the lines of the accounts that have admin rights
  claim,    \* the identity each request speaks for, Local if none
  inside    \* the account each request has let its sender into, or NoUser

bookVars == <<book, trusted, claim, inside>>

BookInit ==
  /\ book = <<>> /\ trusted = {}
  /\ claim = [r \in Requests |-> Local]
  /\ inside = [r \in Requests |-> NoUser]

Opened(r, k) == book[k].maker = r

(* A request that has opened no account and let nobody in.                 *)
Undecided(r) == inside[r] = NoUser /\ \A k \in DOMAIN book : ~Opened(r, k)

(* A provider vouches for an identity.                                     *)
Vouch(r, i) ==
  /\ claim[r] = Local
  /\ claim' = [claim EXCEPT ![r] = i]
  /\ UNCHANGED <<book, trusted, inside>>

Open(r, u) ==
  /\ book' = Append(book, [user |-> u, ident |-> claim[r], maker |-> r])
  /\ \A k \in DOMAIN book : book[k].user # u
  /\ UNCHANGED <<trusted, claim, inside>>

LetIn(r, k) ==
  /\ inside[r] = NoUser
  /\ inside' = [inside EXCEPT ![r] = book[k].user]
  /\ book[k].ident = claim[r]
  /\ \A j \in DOMAIN book : Opened(r, j) => j = k
  /\ UNCHANGED <<book, trusted, claim>>

Trust(k) ==
  /\ k = 1 \/ book[k].user = AdminUser
  /\ trusted' = trusted \union {k}
  /\ UNCHANGED <<book, claim, inside>>

BookNext ==
  \/ \E r \in Requests :
       /\ Undecided(r)
       /\ \/ \E i \in Identities : Vouch(r, i)
          \/ \E u \in Usernames : Open(r, u)
  \/ \E k \in DOMAIN book : Trust(k) \/ \E r \in Requests : LetIn(r, k)

BookSpec == BookInit /\ [][BookNext]_bookVars
=============================================================================
