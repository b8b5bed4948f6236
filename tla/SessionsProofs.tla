--------------------------- MODULE SessionsProofs ---------------------------
(* What Sessions promises, for any names, secrets, environments, times and *)
(* numbers of restarts and of requests.                                    *)
EXTENDS Sessions, TLAPS

-----------------------------------------------------------------------------
(* Tokens *)

(* The user of a payload is what comes before its last colon, and the      *)
(* timestamp what follows it, whatever colons the name holds.              *)
LEMMA PayloadSplits ==
  ASSUME NEW u \in Seq(Chars), NEW t \in Nat
  PROVE  LET p == Payload(u, t) IN
         /\ p \in Signed
         /\ LastColon(p) = Len(u) + 1
         /\ Timestamp(p[LastColon(p) + 1]) = t
         /\ SubSeq(p, 1, LastColon(p) - 1) = u
<1> DEFINE p == Payload(u, t)
           I == {i \in DOMAIN p : p[i] = Colon}
<1>1. /\ p \in Signed
      /\ Len(p) = Len(u) + 2
      /\ p[Len(u) + 1] = Colon /\ p[Len(u) + 2] = t
      /\ \A i \in 1 .. Len(u) : p[i] = u[i]
  <2>1. /\ u \in Signed
        /\ <<Colon, t>> \in Signed
    BY DEF Signed
  <2> QED BY <2>1 DEF Payload, Signed
<1> HIDE DEF p
<1>2. Len(u) \in Nat /\ DOMAIN p = 1 .. Len(u) + 2
  BY <1>1 DEF Signed
<1>3. Len(u) + 1 \in I /\ \A j \in I : j \in Nat /\ j <= Len(u) + 1
  BY <1>1, <1>2, SessionsAssumption
<1>4. LastColon(p) = Len(u) + 1
  <2>1. I # {} BY <1>3
  <2>2. LastColon(p) = CHOOSE i \in I : \A j \in I : j <= i
    BY <2>1 DEF LastColon
  <2> DEFINE c == CHOOSE i \in I : \A j \in I : j <= i
  <2>3. c \in I /\ \A j \in I : j <= c BY <1>3
  <2> HIDE DEF c
  <2> QED BY <1>2, <1>3, <2>2, <2>3 DEF c
<1>5. Timestamp(p[LastColon(p) + 1]) = t
  BY <1>1, <1>2, <1>4 DEF Timestamp
<1>6. SubSeq(p, 1, Len(u)) = u
  BY <1>1, <1>2 DEF Signed
<1> QED BY <1>1, <1>2, <1>4, <1>5, <1>6 DEF p

(* A second's worth of precision is all that the timestamp loses.          *)
LEMMA Truncation ==
  ASSUME NEW t \in Nat
  PROVE  /\ t \div Second \in Nat
         /\ (t \div Second) * Second <= t
         /\ t <= (t \div Second) * Second + (Second - 1)
<1>1. Second \in Nat \ {0} BY SessionsAssumption
<1> QED BY <1>1

LEMMA Window ==
  ASSUME NEW t \in Nat, NEW n \in Nat
  PROVE  /\ n <= ((t \div Second) + MaxAge) * Second => n <= t + MaxAge * Second
         /\ n + (Second - 1) <= t + MaxAge * Second
              => n <= ((t \div Second) + MaxAge) * Second
<1> DEFINE q == t \div Second
<1>1. q \in Nat /\ q * Second <= t /\ t <= q * Second + (Second - 1)
  BY Truncation
<1> HIDE DEF q
<1>2. Second \in Nat /\ MaxAge \in Nat BY SessionsAssumption
<1>3. (q + MaxAge) * Second = q * Second + MaxAge * Second BY <1>1, <1>2
<1> DEFINE x == q * Second
           y == MaxAge * Second
<1>4. x \in Nat /\ y \in Nat BY <1>1, <1>2
<1>5. x <= t /\ t <= x + (Second - 1) BY <1>1
<1> HIDE DEF x, y
<1>6. /\ n <= x + y => n <= t + y
      /\ n + (Second - 1) <= t + y => n <= x + y
  BY <1>2, <1>4, <1>5
<1> QED BY <1>3, <1>6 DEF q, x, y

(* A secret is the operator's key in whatever form it is written.          *)
LEMMA DecodedIsKey ==
  ASSUME NEW e \in Envs, NEW n \in Nat \ {0}
  PROVE  /\ LoadSessionSecret(e, n) \in SigningKeys
         /\ e.secret # None => LoadSessionSecret(e, n) = e.secret.key
<1>1. e.secret \in Secrets \union {None} /\ None \notin Keys
  BY SessionsAssumption DEF Env
<1>2. CASE e.secret = None
  BY <1>2 DEF LoadSessionSecret, SigningKeys
<1>3. CASE e.secret # None
  <2>1. e.secret.key \in Keys /\ e.secret.form \in {"hex", "base64", "raw"}
    BY <1>1, <1>3 DEF Secrets
  <2> QED BY <1>1, <1>3, <2>1 DEF LoadSessionSecret, HexDecoded, Base64Decoded, SigningKeys
<1> QED BY <1>2, <1>3

-----------------------------------------------------------------------------
(* The inductive invariant *)

(* What is signed is the payload of the user and the time of the log-in.   *)
About(x) == x.token.sig.of = Payload(x.user, x.made \div Second)

(* The secret that signed is that of the process, unless the operator has  *)
(* changed it since; nothing is from the future.                           *)
Current(x) ==
  /\ x.made <= now /\ x.start <= starts
  /\ x.start >= regime => x.token.sig.by = secret

Genuine(x) == About(x) /\ Current(x)

(* A cookie holds the token it was given if it can, and is kept long       *)
(* enough.                                                                 *)
Stored(x) ==
  /\ Storable(x.token.sig.of) => x.token.payload = x.token.sig.of
  /\ x.made + MaxAge * Second <= x.until

SesInv ==
  /\ SesTypeOK
  /\ listener # Down => starts > 0
  /\ starts > 0 => (env.secret # None => secret = env.secret.key)
  /\ \A s \in Slots : wait[s].kind = "in" =>
       /\ Genuine(wait[s])
       /\ wait[s].token.payload = wait[s].token.sig.of
  /\ jar # None => Genuine(jar) /\ Stored(jar)

LEMMA SesInitInv == ASSUME SesInit PROVE SesInv
<1> USE DEF SesInit, Down, Ports, Idle
<1>1. SesTypeOK BY DEF SesTypeOK
<1> QED BY <1>1 DEF SesInv

(* What a step of the process or of the clock leaves as it is.             *)
LEMMA AnswersKept ==
  ASSUME SesInv, SesTypeOK', UNCHANGED <<jar, wait>>,
         now' >= now, starts' >= starts,
         \A n \in Nat : n <= starts /\ n >= regime' => n >= regime /\ secret' = secret
  PROVE  /\ \A s \in Slots : wait'[s].kind = "in" =>
              /\ (Genuine(wait[s]))'
              /\ wait'[s].token.payload = wait'[s].token.sig.of
         /\ jar' # None => (Genuine(jar) /\ Stored(jar))'
<1>0. now \in Nat /\ now' \in Nat /\ starts \in Nat /\ starts' \in Nat
  BY DEF SesInv, SesTypeOK
<1>1. ASSUME NEW s \in Slots, wait[s].kind = "in"
      PROVE  (Genuine(wait[s]))' /\ wait'[s].token.payload = wait'[s].token.sig.of
  <2>1. wait[s].made \in Nat /\ wait[s].start \in Nat
    BY <1>1 DEF SesInv, SesTypeOK, Idle
  <2>2. Genuine(wait[s]) /\ wait[s].token.payload = wait[s].token.sig.of
    BY <1>1 DEF SesInv
  <2> QED BY <1>0, <2>1, <2>2 DEF Genuine, About, Current
<1>2. ASSUME jar # None PROVE (Genuine(jar) /\ Stored(jar))'
  <2>1. jar.made \in Nat /\ jar.start \in Nat
    BY <1>2 DEF SesInv, SesTypeOK
  <2>2. Genuine(jar) /\ Stored(jar) BY <1>2 DEF SesInv
  <2> QED BY <1>0, <2>1, <2>2 DEF Genuine, About, Current, Stored, Storable
<1> QED BY <1>1, <1>2

LEMMA StartInv ==
  ASSUME SesInv, NEW e \in Envs, Start(e) PROVE SesInv'
<1> USE DEF Start
<1>1. starts \in Nat /\ regime \in 0 .. starts BY DEF SesInv, SesTypeOK
<1>2. starts + 1 \in Nat \ {0} BY <1>1
<1>3. secret' \in SigningKeys /\ (e.secret # None => secret' = e.secret.key)
  BY <1>2, DecodedIsKey
<1>4. SesTypeOK'
  <2>1. regime' \in 0 .. starts' BY <1>1
  <2>2. listener' \in [Ports -> {"off", "starting", "serving", "failed"}] OBVIOUS
  <2> QED BY <1>1, <1>2, <1>3, <2>1, <2>2 DEF SesInv, SesTypeOK
<1>5. \A n \in Nat : n <= starts /\ n >= regime' => n >= regime /\ secret' = secret
  <2>1. CASE SameSecret(e) BY <1>1, <1>3, <2>1 DEF SesInv, SameSecret
  <2>2. CASE ~SameSecret(e) BY <1>1, <2>2
  <2> QED BY <2>1, <2>2
<1>6. now' >= now /\ starts' >= starts BY <1>1 DEF SesInv, SesTypeOK
<1> QED BY <1>1, <1>3, <1>4, <1>5, <1>6, AnswersKept DEF SesInv

(* The listeners, the end of the process and the clock.                    *)
LEMMA QuietInv ==
  ASSUME SesInv,
         \/ \E p \in Ports : Listen(p) \/ ListenerFails(p)
         \/ Exit \/ Crash \/ Tick
  PROVE  SesInv'
<1>1. /\ UNCHANGED <<env, secret, starts, regime, jar, wait>>
      /\ now' = now \/ now' = now + 1
  BY DEF Listen, ListenerFails, ListenerMoves, Exit, Crash, Ends, Tick, process
<1>2. listener' \in [Ports -> {"off", "starting", "serving", "failed"}]
  BY DEF SesInv, SesTypeOK, Listen, ListenerFails, ListenerMoves, Exit, Crash, Ends,
         Tick, process, Down
<1>3. SesTypeOK' BY <1>1, <1>2 DEF SesInv, SesTypeOK
<1>4. now' >= now /\ starts' >= starts BY <1>1 DEF SesInv, SesTypeOK
<1>5. \A n \in Nat : n <= starts /\ n >= regime' => n >= regime /\ secret' = secret
  BY <1>1
<1>6. listener' # Down => starts > 0
  BY DEF SesInv, Listen, ListenerFails, ListenerMoves, Exit, Crash, Ends, Tick,
         process, Down
<1> QED BY <1>1, <1>3, <1>4, <1>5, <1>6, AnswersKept DEF SesInv

(* An answer that has just been made.                                      *)
LEMMA AnswerInv ==
  ASSUME SesInv, NEW s \in Slots, NEW answer,
         UNCHANGED <<now, process, jar>>,
         wait' = [wait EXCEPT ![s] = answer],
         \/ answer \in {Idle} \union [kind : {"out"}, secure : BOOLEAN]
         \/ /\ answer \in [kind : {"in"}, user : Names, made : Nat, start : Nat,
                           secure : BOOLEAN, token : Token]
            /\ Genuine(answer)
            /\ answer.token.payload = answer.token.sig.of
  PROVE  SesInv'
<1>1. /\ wait \in [Slots -> {Idle} \union [kind : {"out"}, secure : BOOLEAN]
              \union [kind : {"in"}, user : Names, made : Nat, start : Nat,
                      secure : BOOLEAN, token : Token]]
      /\ SesTypeOK
  BY DEF SesInv, SesTypeOK
<1>2. SesTypeOK'
  <2>1. wait' \in [Slots -> {Idle} \union [kind : {"out"}, secure : BOOLEAN]
              \union [kind : {"in"}, user : Names, made : Nat, start : Nat,
                      secure : BOOLEAN, token : Token]]
    BY <1>1
  <2> QED BY <1>1, <2>1 DEF SesTypeOK, process, Idle
<1>3. ASSUME NEW t \in Slots, wait'[t].kind = "in"
      PROVE  (Genuine(wait[t]))' /\ wait'[t].token.payload = wait'[t].token.sig.of
  <2>1. CASE t = s
    <3>1. wait'[t] = answer BY <1>1, <2>1
    <3>2. Genuine(answer) /\ answer.token.payload = answer.token.sig.of
      BY <1>3, <3>1 DEF Idle
    <3> QED BY <3>1, <3>2 DEF Genuine, About, Current, process
  <2>2. CASE t # s
    <3>1. wait'[t] = wait[t] BY <1>1, <2>2
    <3>2. Genuine(wait[t]) /\ wait[t].token.payload = wait[t].token.sig.of
      BY <1>3, <3>1 DEF SesInv
    <3> QED BY <3>1, <3>2 DEF Genuine, About, Current, process
  <2> QED BY <2>1, <2>2
<1>4. jar' # None => (Genuine(jar) /\ Stored(jar))'
  BY DEF SesInv, Genuine, About, Current, Stored, Storable, process
<1> QED BY <1>2, <1>3, <1>4 DEF SesInv, process

LEMMA LoginInv ==
  ASSUME SesInv, NEW s \in Slots, NEW u \in Names, Login(s, u) PROVE SesInv'
<1> DEFINE answer == [kind |-> "in", user |-> u, made |-> now, start |-> starts,
                      secure |-> Secure(env),
                      token |-> CreateSessionToken(u, now, secret)]
<1>1. /\ Up /\ UNCHANGED <<now, process, jar>>
      /\ wait' = [wait EXCEPT ![s] = answer]
  BY DEF Login, Answers
<1>2. now \in Nat /\ starts \in Nat /\ u \in Seq(Chars)
  BY SessionsAssumption DEF SesInv, SesTypeOK
<1>3. Payload(u, now \div Second) \in Signed
  BY <1>2, Truncation, PayloadSplits
<1>4. starts > 0 BY <1>1 DEF SesInv, Up, Down, Ports
<1>5. secret \in SigningKeys BY <1>4 DEF SesInv, SesTypeOK
<1>6. answer \in [kind : {"in"}, user : Names, made : Nat, start : Nat,
                  secure : BOOLEAN, token : Token]
  BY <1>2, <1>3, <1>5 DEF CreateSessionToken, Mac, Token, Secure
<1>7. Genuine(answer) /\ answer.token.payload = answer.token.sig.of
  BY <1>2 DEF Genuine, About, Current, CreateSessionToken, Mac
<1> HIDE DEF answer
<1> QED BY <1>1, <1>6, <1>7, AnswerInv

LEMMA LogoutInv ==
  ASSUME SesInv, NEW s \in Slots, Logout(s) PROVE SesInv'
<1> DEFINE answer == [kind |-> "out", secure |-> Secure(env)]
<1>1. /\ UNCHANGED <<now, process, jar>>
      /\ wait' = [wait EXCEPT ![s] = answer]
  BY DEF Logout, Answers
<1>2. answer \in [kind : {"out"}, secure : BOOLEAN] BY DEF Secure
<1> HIDE DEF answer
<1> QED BY <1>1, <1>2, AnswerInv

LEMMA LoseInv ==
  ASSUME SesInv, NEW s \in Slots, Lose(s) PROVE SesInv'
BY AnswerInv DEF Lose

(* Sanitizing leaves the signature, and a payload that needs none.         *)
LEMMA SanitizeKeeps ==
  ASSUME NEW token \in Token
  PROVE  /\ Sanitize(token).sig = token.sig
         /\ Storable(token.payload) => Sanitize(token) = token
BY DEF Sanitize, Token

LEMMA ReceiveInv ==
  ASSUME SesInv, NEW s \in Slots, Receive(s) PROVE SesInv'
<1> DEFINE answer == wait[s]
<1>1. /\ UNCHANGED <<now, process>> /\ wait' = [wait EXCEPT ![s] = Idle]
      /\ jar' = SetCookie(answer) /\ answer # Idle
  BY DEF Receive
<1>2. /\ SesTypeOK /\ now \in Nat
      /\ wait \in [Slots -> {Idle} \union [kind : {"out"}, secure : BOOLEAN]
              \union [kind : {"in"}, user : Names, made : Nat, start : Nat,
                      secure : BOOLEAN, token : Token]]
  BY DEF SesInv, SesTypeOK
<1>3. (\A t \in Slots : wait[t].kind = "in" =>
        (Genuine(wait[t]) /\ wait[t].token.payload = wait[t].token.sig.of))'
  <2> SUFFICES ASSUME NEW t \in Slots, wait'[t].kind = "in"
               PROVE  (Genuine(wait[t]))' /\ wait'[t].token.payload = wait'[t].token.sig.of
    OBVIOUS
  <2>1. t # s BY <1>1, <1>2 DEF Idle
  <2>2. wait'[t] = wait[t] BY <1>1, <1>2, <2>1
  <2>3. Genuine(wait[t]) /\ wait[t].token.payload = wait[t].token.sig.of
    BY <2>2 DEF SesInv
  <2> QED BY <1>1, <2>2, <2>3 DEF Genuine, About, Current, process
<1>4. wait' \in [Slots -> {Idle} \union [kind : {"out"}, secure : BOOLEAN]
              \union [kind : {"in"}, user : Names, made : Nat, start : Nat,
                      secure : BOOLEAN, token : Token]]
  BY <1>1, <1>2
<1>5. CASE jar' = jar
  <2>1. SesTypeOK' BY <1>1, <1>2, <1>4, <1>5 DEF SesTypeOK, process, Idle
  <2>2. jar' # None => (Genuine(jar) /\ Stored(jar))'
    BY <1>1, <1>5 DEF SesInv, Genuine, About, Current, Stored, Storable, process
  <2> QED BY <1>1, <1>3, <2>1, <2>2 DEF SesInv, process
<1>6. CASE jar' = None
  <2>1. SesTypeOK' BY <1>1, <1>2, <1>4, <1>6 DEF SesTypeOK, process, Idle
  <2> QED BY <1>1, <1>3, <1>6, <2>1 DEF SesInv, process
<1>7. CASE jar' # jar /\ jar' # None
  <2>1. /\ answer.kind = "in"
        /\ jar' = [user |-> answer.user, made |-> answer.made, start |-> answer.start,
                   secure |-> answer.secure, token |-> Sanitize(answer.token),
                   until |-> now + MaxAge * Second]
    <3>1. answer.kind \in {"in", "out"} BY <1>1, <1>2 DEF Idle
    <3>2. answer.kind # "out" BY <1>1, <1>7 DEF SetCookie
    <3> QED BY <1>1, <1>7, <3>1, <3>2 DEF SetCookie
  <2>2. answer \in [kind : {"in"}, user : Names, made : Nat, start : Nat,
                    secure : BOOLEAN, token : Token]
    BY <1>2, <2>1 DEF Idle
  <2>3. Genuine(answer) /\ answer.token.payload = answer.token.sig.of
    BY <2>1 DEF SesInv
  <2>4. /\ jar'.user = answer.user /\ jar'.made = answer.made /\ jar'.start = answer.start
        /\ jar'.secure = answer.secure /\ jar'.until = now + MaxAge * Second
        /\ jar'.token.sig = answer.token.sig
        /\ Storable(answer.token.payload) => jar'.token.payload = answer.token.payload
    <3>1. answer.token \in Token BY <2>2
    <3> QED BY <2>1, <3>1, SanitizeKeeps
  <2>5. jar'.until \in Nat BY <1>2, <2>4, SessionsAssumption
  <2>6. jar'.token.sig \in [of : Signed, by : SigningKeys]
    BY <2>2, <2>4 DEF Token
  <2>7. SesTypeOK'
    BY <1>1, <1>2, <1>4, <2>2, <2>4, <2>5, <2>6 DEF SesTypeOK, process, Idle
  <2>8. answer.made + MaxAge * Second <= now + MaxAge * Second
    <3>1. answer.made \in Nat /\ answer.made <= now
      BY <2>2, <2>3 DEF Genuine, Current
    <3>2. MaxAge * Second \in Nat BY SessionsAssumption
    <3> QED BY <1>2, <3>1, <3>2
  <2>9. (Genuine(jar) /\ Stored(jar))'
    BY <1>1, <2>8, <2>3, <2>4 DEF Genuine, About, Current, Stored, Storable, process
  <2> QED BY <1>1, <1>3, <2>7, <2>9 DEF SesInv, process
<1> QED BY <1>5, <1>6, <1>7

LEMMA SesStep == SesInv /\ [SesNext]_sesVars => SesInv'
<1> SUFFICES ASSUME SesInv, [SesNext]_sesVars PROVE SesInv' OBVIOUS
<1>1. CASE UNCHANGED sesVars
  <2>1. SesTypeOK' BY <1>1 DEF SesInv, SesTypeOK, sesVars, process
  <2>2. now' >= now /\ starts' >= starts
    BY <1>1 DEF SesInv, SesTypeOK, sesVars, process
  <2> QED BY <1>1, <2>1, <2>2, AnswersKept DEF SesInv, sesVars, process
<1>2. ASSUME NEW e \in Envs, Start(e) PROVE SesInv' BY <1>2, StartInv
<1>3. ASSUME NEW s \in Slots,
             Logout(s) \/ Receive(s) \/ Lose(s) \/ \E u \in Names : Login(s, u)
      PROVE  SesInv'
  BY <1>3, LogoutInv, ReceiveInv, LoseInv, LoginInv
<1> QED BY <1>1, <1>2, <1>3, QuietInv DEF SesNext, ProcessNext

(* Type correctness of the process, the browser's cookie and the answers.  *)
THEOREM SessionsAreTyped == SesSpec => []SesTypeOK
<1>1. SesInit => SesInv BY SesInitInv
<1>2. SesInv => SesTypeOK BY DEF SesInv
<1> QED BY <1>1, <1>2, SesStep, PTL DEF SesSpec

-----------------------------------------------------------------------------
(* What a cookie is worth *)

LEMMA CookieDecoded ==
  ASSUME SesInv, jar # None
  PROVE  LET p == jar.token.sig.of
             t == jar.made \div Second IN
         /\ jar.user \in Seq(Chars) \ {<<>>} /\ t \in Nat
         /\ p = Payload(jar.user, t)
         /\ LastColon(p) > 1
         /\ Timestamp(p[LastColon(p) + 1]) = t
         /\ SubSeq(p, 1, LastColon(p) - 1) = jar.user
<1>1. jar.user \in Seq(Chars) \ {<<>>} /\ jar.made \in Nat
  BY SessionsAssumption DEF SesInv, SesTypeOK
<1>2. jar.token.sig.of = Payload(jar.user, jar.made \div Second)
  BY DEF SesInv, Genuine, About
<1>3. jar.made \div Second \in Nat BY <1>1, Truncation
<1>4. Len(jar.user) \in Nat \ {0} BY <1>1
<1> QED BY <1>1, <1>2, <1>3, <1>4, PayloadSplits

(* A token is taken for nobody but the user who logged in, and for no      *)
(* longer than sessionMaxAge.                                              *)
THEOREM TokensAreOwn == SesSpec => []TokenIsOwn
<1>1. SesInit => SesInv BY SesInitInv
<1>2. SesInv => TokenIsOwn
  <2> SUFFICES ASSUME SesInv, WhoIs # NoUser
               PROVE  WhoIs = jar.user /\ now <= jar.made + MaxAge * Second
    BY DEF TokenIsOwn
  <2> DEFINE p == jar.token.payload
  <2>1. /\ jar # None
        /\ jar.token.sig = Mac(p, secret)
        /\ now <= (Timestamp(p[LastColon(p) + 1]) + MaxAge) * Second
        /\ WhoIs = SubSeq(p, 1, LastColon(p) - 1)
    BY DEF WhoIs, ExtractSessionUser
  <2>2. p = jar.token.sig.of BY <2>1 DEF Mac
  <2>3. now \in Nat /\ jar.made \in Nat BY <2>1 DEF SesInv, SesTypeOK
  <2> HIDE DEF p
  <2>4. WhoIs = jar.user BY <2>1, <2>2, CookieDecoded
  <2>5. now <= ((jar.made \div Second) + MaxAge) * Second
    BY <2>1, <2>2, CookieDecoded
  <2> QED BY <2>3, <2>4, <2>5, Window
<1> QED BY <1>1, <1>2, SesStep, PTL DEF SesSpec

(* A session outlives restarts as long as the operator keeps the secret.   *)
THEOREM SessionsLast == SesSpec => []SessionLasts
<1>1. SesInit => SesInv BY SesInitInv
<1>2. SesInv => SessionLasts
  <2> SUFFICES ASSUME SesInv, jar # None, jar.start >= regime,
                      jar.secure => env.https, Storable(jar.user),
                      now + (Second - 1) <= jar.made + MaxAge * Second
               PROVE  WhoIs = jar.user
    BY DEF SessionLasts
  <2> DEFINE p == jar.token.sig.of
  <2>1. now \in Nat /\ jar.made \in Nat /\ jar.until \in Nat
    BY DEF SesInv, SesTypeOK
  <2>2. jar.token.sig \in [of : Signed, by : SigningKeys]
    BY DEF SesInv, SesTypeOK
  <2>3. p = jar.token.payload
    <3>1. Storable(p)
      <4>1. p = Payload(jar.user, jar.made \div Second) /\ jar.user \in Seq(Chars)
            /\ jar.made \div Second \in Nat
        BY CookieDecoded
      <4> HIDE DEF p
      <4>2. Dropped \intersect ({Colon} \union Nat) = {} BY SessionsAssumption
      <4>3. \A i \in DOMAIN jar.user : jar.user[i] \notin Dropped BY DEF Storable
      <4>4. ASSUME NEW i \in DOMAIN p PROVE p[i] \notin Dropped
        <5> DEFINE u == jar.user
                   t == jar.made \div Second
        <5>1. /\ Len(p) = Len(u) + 2 /\ p[Len(u) + 1] = Colon /\ p[Len(u) + 2] = t
              /\ \A j \in 1 .. Len(u) : p[j] = u[j]
              /\ DOMAIN p = 1 .. Len(u) + 2
          <6> HIDE DEF t, u
          <6>1. u \in Signed /\ <<Colon, t>> \in Signed
            BY <4>1 DEF Signed, u, t
          <6> QED BY <4>1, <6>1 DEF Payload, Signed, u, t
        <5>2. Len(u) \in Nat /\ DOMAIN u = 1 .. Len(u) BY <4>1
        <5> HIDE DEF t, u
        <5>3. i \in 1 .. Len(u) \/ i = Len(u) + 1 \/ i = Len(u) + 2
          BY <5>1, <5>2
        <5> QED BY <4>1, <4>2, <4>3, <5>1, <5>2, <5>3 DEF u, t
      <4> QED BY <4>4 DEF Storable
    <3> QED BY <3>1 DEF SesInv, Stored
  <2>4. jar.token.sig = Mac(p, secret)
    BY <2>2 DEF SesInv, Genuine, Current, Mac
  <2>5. now <= jar.until
    <3>1. MaxAge * Second \in Nat /\ Second \in Nat \ {0} BY SessionsAssumption
    <3>2. jar.made + MaxAge * Second <= jar.until BY DEF SesInv, Stored
    <3> QED BY <2>1, <3>1, <3>2
  <2>6. now <= ((jar.made \div Second) + MaxAge) * Second
    BY <2>1, Window
  <2>7. WhoIs = ExtractSessionUser(jar.token, secret)
    BY <2>1, <2>5 DEF WhoIs
  <2> QED BY <2>3, <2>4, <2>6, <2>7, CookieDecoded DEF ExtractSessionUser
<1> QED BY <1>1, <1>2, SesStep, PTL DEF SesSpec
=============================================================================
