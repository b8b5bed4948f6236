------------------------------ MODULE Sessions ------------------------------
(***************************************************************************)
(* Session tokens over the lives of the Dock's process (main.go).          *)
(*                                                                         *)
(* The process is started in an environment, which decides the signing     *)
(* secret, whether cookies are Secure and which listeners there are; it    *)
(* dies when a listener fails or it is killed, and is started again,       *)
(* perhaps in another environment.                                         *)
(*                                                                         *)
(* One browser logs in and out in several tabs.  Every element of Slots is *)
(* one request of it at a time: the Dock handles it at once, its answer    *)
(* takes time, and answers arrive in any order or never.                   *)
(*                                                                         *)
(* A token is a record of its payload and its signature.  The payload is a *)
(* sequence of characters, since a username may hold the separator; the    *)
(* timestamp is one character of it.  The signature is in hex, so the last *)
(* dot of a token is where it begins.                                      *)
(***************************************************************************)
EXTENDS Naturals, Sequences

CONSTANTS
  Chars,     \* characters of usernames
  Names,     \* usernames
  Colon,     \* the character between username and timestamp
  Dropped,   \* characters that a cookie may not hold
  NoUser,    \* no username
  Slots,     \* requests of the browser
  None,      \* no cookie, an unset variable
  Keys,      \* secrets an operator may generate
  Envs,      \* environments the Dock may be started in
  MaxAge,    \* sessionMaxAge, in seconds
  Second,    \* ticks in a second
  MaxTime,   \* bound of the model, in ticks
  MaxStarts  \* bound of the model

Secrets == [key : Keys, form : {"hex", "base64", "raw"}]

(* What the environment says, as far as it matters: the secret and how it  *)
(* is written; whether DOCK_CA_CERT is set, and the PEM blocks it leads to *)
(* (none, if it cannot be read); whether the store opens; DOCK_TLS_CERT    *)
(* and DOCK_TLS_KEY; whether DOCK_HOST or DOCK_SECURE speak of an edge     *)
(* that terminates TLS; and whether browsers do reach the Dock by https.   *)
Env ==
  [secret : Secrets \union {None},
   mtls   : BOOLEAN, ca : SUBSET {"certificate", "malformed", "other"},
   store  : BOOLEAN,
   cert   : {"unset", "bad", "good"},
   edge   : BOOLEAN, https : BOOLEAN]

ASSUME SessionsAssumption ==
  /\ Names \subseteq Seq(Chars) \ {<<>>}
  /\ NoUser \notin Seq(Chars)
  /\ Colon \notin Nat
  /\ Dropped \intersect ({Colon} \union Nat) = {}
  /\ None \notin Keys
  /\ Envs \subseteq Env
  /\ MaxAge \in Nat \ {0} /\ Second \in Nat \ {0}
  /\ MaxTime \in Nat /\ MaxStarts \in Nat

VARIABLES
  now,       \* the clock, in ticks
  env,       \* the environment of the process, or of the last one
  listener,  \* where its two listeners stand
  secret,    \* sessionSecret of the process, or of the last one
  starts,    \* how often the process has been started
  regime,    \* history: the start since which the operator has kept the secret
  jar,       \* the browser's cookie hermit_session, or None
  wait       \* what is under way to each request

process == <<env, listener, secret, starts, regime>>
sesVars == <<now, process, jar, wait>>

-----------------------------------------------------------------------------
(* Tokens *)

Payload(user, time) == user \o <<Colon, time>>
Mac(payload, key) == [of |-> payload, by |-> key]

CreateSessionToken(user, ticks, key) ==
  LET payload == Payload(user, ticks \div Second)
  IN [payload |-> payload, sig |-> Mac(payload, key)]

(* Mutant: the payload is split at the first colon.                        *)
FirstColon(p) ==
  LET I == {i \in DOMAIN p : p[i] = Colon}
  IN IF I = {} THEN 0 ELSE CHOOSE i \in I : \A j \in I : i <= j

LastColon(p) ==
  LET I == {i \in DOMAIN p : p[i] = Colon}
  IN IF I = {} THEN 0 ELSE CHOOSE i \in I : \A j \in I : j <= i

(* Sscanf leaves 0 when there is no number.                                *)
Timestamp(char) == IF char \in Nat THEN char ELSE 0

(* The signature, the separator and the name, the age: the user or NoUser. *)
ExtractSessionUser(token, key) ==
  LET p == token.payload
      colon == LastColon(p)
  IN IF /\ token.sig = Mac(p, key)
        /\ colon > 1
        /\ now <= (Timestamp(p[colon + 1]) + MaxAge) * Second
       THEN SubSeq(p, 1, colon - 1) ELSE NoUser

Storable(p) == \A i \in DOMAIN p : p[i] \notin Dropped
Kept(c) == c \notin Dropped

(* http.SetCookie drops the characters a cookie may not hold.              *)
Sanitize(token) ==
  IF Storable(token.payload) THEN token
  ELSE [token EXCEPT !.payload = SelectSeq(@, Kept)]

(* requireSession: whom a request that is made now is taken for.  The      *)
(* browser sends the cookie until its Max-Age is over, and one that is     *)
(* Secure by https only.                                                   *)
WhoIs ==
  IF jar = None THEN NoUser
  ELSE IF now > jar.until \/ (jar.secure /\ ~env.https) THEN NoUser
  ELSE ExtractSessionUser(jar.token, secret)

-----------------------------------------------------------------------------
(* The process *)

(* parseCACert: every certificate block must parse, and there must be one. *)
CALoads(e) == "certificate" \in e.ca /\ "malformed" \notin e.ca

(* Whether main gets past the statements that call log.Fatalf.             *)
Loads(e) == (e.mtls => CALoads(e)) /\ e.store

(* secureCookies, which looks at DOCK_TLS_CERT even if it does not load.   *)
Secure(e) == e.cert # "unset" \/ e.edge

Listeners(e) ==
  {"http"} \union (IF e.cert = "good" /\ e.mtls THEN {"mtls"} ELSE {})

HexDecoded(s) == IF s.form = "hex" THEN s.key ELSE None

(* Hex digits are base64 too, of something else.                           *)
Base64Decoded(s) ==
  IF s.form = "base64" THEN s.key
  ELSE IF s.form = "hex" THEN <<s.key, "misread">> ELSE None

(* Mutant: base64 is tried first.                                          *)
LoadBase64First(e, start) ==
  IF e.secret = None THEN <<start, "ephemeral">>
  ELSE IF Base64Decoded(e.secret) # None THEN Base64Decoded(e.secret)
  ELSE IF HexDecoded(e.secret) # None THEN HexDecoded(e.secret)
  ELSE e.secret.key

(* Mutant: a missing secret is not made up for.                            *)
LoadNoSecret(e, start) ==
  IF e.secret = None THEN None ELSE e.secret.key

(* loadSessionSecret: hex, else base64, else the bytes as they are; a      *)
(* secret of this process if there is none.                                *)
LoadSessionSecret(e, start) ==
  IF e.secret = None THEN <<start, "ephemeral">>
  ELSE IF HexDecoded(e.secret) # None THEN HexDecoded(e.secret)
  ELSE IF Base64Decoded(e.secret) # None THEN Base64Decoded(e.secret)
  ELSE e.secret.key

Ports == {"http", "mtls"}
Down == [p \in Ports |-> "off"]
Up == listener["http"] = "serving"

SameSecret(e) ==
  /\ starts > 0
  /\ e.secret # None /\ env.secret # None
  /\ e.secret.key = env.secret.key

(* main, from its first line to the two go statements.  A process that     *)
(* ends with log.Fatalf before them has done nothing.                      *)
Start(e) ==
  /\ listener = Down
  /\ starts < MaxStarts
  /\ Loads(e)
  /\ env' = e
  /\ listener' = [p \in Ports |-> IF p \in Listeners(e) THEN "starting" ELSE "off"]
  /\ secret' = LoadSessionSecret(e, starts + 1)
  /\ starts' = starts + 1
  /\ regime' = IF SameSecret(e) THEN regime ELSE starts + 1
  /\ UNCHANGED <<now, jar, wait>>

ListenerMoves(p, from, to) ==
  /\ listener[p] \in from
  /\ listener' = [listener EXCEPT ![p] = to]
  /\ UNCHANGED <<now, env, secret, starts, regime, jar, wait>>

Listen(p) == ListenerMoves(p, {"starting"}, "serving")
ListenerFails(p) == ListenerMoves(p, {"starting", "serving"}, "failed")

Ends == listener' = Down /\ UNCHANGED <<now, env, secret, starts, regime, jar, wait>>

(* The first error on errCh ends the process, the other listener with it.  *)
Exit == (\E p \in Ports : listener[p] = "failed") /\ Ends

(* The host stops the machine, or somebody deploys.                        *)
Crash == listener # Down /\ Ends

Tick == now < MaxTime /\ now' = now + 1 /\ UNCHANGED <<process, jar, wait>>

-----------------------------------------------------------------------------
(* The browser *)

Idle == [kind |-> "idle"]
Answers(s, answer) ==
  /\ wait[s] = Idle
  /\ wait' = [wait EXCEPT ![s] = answer]
  /\ UNCHANGED <<now, process, jar>>

(* Any of the handlers that end with setSessionCookie, for the user they   *)
(* have found.                                                             *)
Login(s, u) ==
  /\ Up
  /\ Answers(s, [kind |-> "in", user |-> u, made |-> now, start |-> starts,
                 secure |-> Secure(env),
                 token |-> CreateSessionToken(u, now, secret)])

Logout(s) ==
  /\ Up
  /\ Answers(s, [kind |-> "out", secure |-> Secure(env)])

(* The Set-Cookie header of an answer, which browsers ignore if it is      *)
(* Secure and they do not use https.                                       *)
SetCookie(answer) ==
  IF answer.secure /\ ~env.https THEN jar
  ELSE IF answer.kind = "out" THEN None
  ELSE [user |-> answer.user, made |-> answer.made, start |-> answer.start,
        secure |-> answer.secure, token |-> Sanitize(answer.token),
        until |-> now + MaxAge * Second]

Receive(s) ==
  /\ wait[s] # Idle
  /\ jar' = SetCookie(wait[s])
  /\ wait' = [wait EXCEPT ![s] = Idle]
  /\ UNCHANGED <<now, process>>

(* The answer is lost, or nobody waits for it any more.                    *)
Lose(s) ==
  /\ wait[s] # Idle
  /\ wait' = [wait EXCEPT ![s] = Idle]
  /\ UNCHANGED <<now, process, jar>>

SesInit ==
  /\ now = 0
  /\ env \in Envs /\ listener = Down /\ secret = None /\ starts = 0 /\ regime = 0
  /\ jar = None
  /\ wait = [s \in Slots |-> Idle]

ProcessNext ==
  \/ \E e \in Envs : Start(e)
  \/ \E p \in Ports : Listen(p) \/ ListenerFails(p)
  \/ Exit \/ Crash

SesNext ==
  \/ ProcessNext
  \/ Tick
  \/ \E s \in Slots : Logout(s) \/ Receive(s) \/ Lose(s) \/ \E u \in Names : Login(s, u)

SesSpec == SesInit /\ [][SesNext]_sesVars

-----------------------------------------------------------------------------
(* Properties *)

SigningKeys ==
  Keys \union (Keys \X {"misread"}) \union ((Nat \ {0}) \X {"ephemeral"})

Signed == Seq(Chars \union {Colon} \union Nat)
Token == [payload : Signed, sig : [of : Signed, by : SigningKeys]]

(* Type correctness: a process has a secret, whatever its environment      *)
(* says, and the cookie and the answers are well formed.                   *)
SesTypeOK ==
  /\ now \in Nat /\ starts \in Nat /\ regime \in 0 .. starts
  /\ env \in Envs
  /\ listener \in [Ports -> {"off", "starting", "serving", "failed"}]
  /\ IF starts = 0 THEN secret = None ELSE secret \in SigningKeys
  /\ jar # None =>
       /\ jar.user \in Names /\ jar.secure \in BOOLEAN
       /\ {jar.made, jar.start, jar.until} \subseteq Nat
       /\ jar.token.sig \in [of : Signed, by : SigningKeys]
  /\ wait \in [Slots ->
        {Idle} \union [kind : {"out"}, secure : BOOLEAN]
          \union [kind : {"in"}, user : Names, made : Nat, start : Nat,
                  secure : BOOLEAN, token : Token]]

(* requireSession takes a request for nobody but the user who logged in,   *)
(* whatever characters the name holds and whatever became of the process   *)
(* since, and never for longer than sessionMaxAge after the log-in, even   *)
(* if the answer with the cookie came late.                                *)
TokenIsOwn ==
  WhoIs # NoUser =>
    /\ WhoIs = jar.user
    /\ now <= jar.made + MaxAge * Second

(* A session is good for sessionMaxAge (less the part of a second that the *)
(* timestamp does not hold) over any number of restarts, as long as the    *)
(* operator keeps the secret, in whatever form it is written, the name     *)
(* fits into a cookie, and the browser may send it.                        *)
SessionLasts ==
  jar # None =>
    ((/\ jar.start >= regime
      /\ jar.secure => env.https
      /\ Storable(jar.user)
      /\ now + (Second - 1) <= jar.made + MaxAge * Second)
     => WhoIs = jar.user)
=============================================================================
