# Dock: a TLA+ model of the Shore gateway

Dock is a gateway in front of a number of *Shores*. A Shore dials out to the
Dock over a WebSocket (`/shore/connect`, with a client certificate) and keeps
the connection open; a browser request is authenticated, resolved to one of the
connected Shores, sent over that Shore's WebSocket as a JSON frame with a random
ID, and answered with the frame that comes back under the same ID.

This directory holds TLA+ modules for that program, TLC configurations that
model-check them on small instances, and theorems about every one of its parts
(the registry of Shores, the tunnel, the two composed, accounts, sessions, the
routing of requests, the certificate authority) with proofs checked by TLAPS. Source files are named relative to the repository's root
(`registry.go:155` is line 155 of that file).

Contents: [1 inventory](#1-inventory), [2 modules](#2-the-modules-and-the-code),
[3 runs](#3-what-the-runs-check), [4 disagreements](#4-where-code-and-documents-disagree),
[5 bounds](#5-bounds), [6 fairness](#6-fairness), [7 abstractions](#7-abstractions),
[8 proofs](#8-what-is-proved), [9 plan](#9-plan), [10 how to run](#10-running-it).

## 1 Inventory

| Component | State | Operations | Modelled |
|---|---|---|---|
| **Shore registry** `registry.go:140-258` | the map name → connection, under an `RWMutex`; `LastPing` of each connection | `Register`, `Unregister`, `Get`, `GetByOwner`, `List`, `ListByOwner`, `Default`, the reaper (every 15 s, threshold 45 s) | yes |
| **Shore connection handler** `shore_handler.go` | one goroutine per `/shore/connect`: handshake, read loop, deferred clean-up | certificate check, upgrade, register frame (10 s limit), `Register`, dispatch of ping / http_response / stream_frame / stream_end, `Unregister` + `Close` | yes |
| **Request tunnel** `registry.go:30-138`, `gateway.go:23-190` | per connection: `pending` and `streams` maps under `mu`, the channels in them, `writeMu`, `done` | `routeToShore` (send, then answer / 30 s time-out / done), `handleSSERequest` (frames / browser gone / done), `DeliverResponse`, `DeliverFrame`, `CloseStream`, `CancelPendingRequest`, `Close` | yes |
| **The Dock as a whole** | the three above | a connection closed by its successor, the reaper or its own handler while requests are routed to it | yes |
| **Logging middleware** `main.go:76-136` | none | wraps every `ResponseWriter` | only the interface it hides |
| **Request routing** `gateway.go:39-51,192-227` | the active-Shore cookie, shared by all tabs | `resolveShore`: prefix, owner, cookie; setting the cookie | yes |
| **Accounts and OAuth** `users.go`, `main.go:420-593` | SQLite table `users` | register, login, OAuth find-or-create, first-user-is-admin | yes |
| **Sessions** `main.go:140-268` | the signing secret of a process; tokens in browsers | create, check, expire; log-in and log-out; restart with and without `DOCK_SESSION_SECRET` | yes |
| **Certificate authority** `tools/ca/ca.sh` | the CA's key pair, serial, index and revocation files; directories of keys and certificates | `init`, `issue`, `revoke`; `list` changes nothing | yes |
| **Start-up and configuration** `main.go:320-420,624-712` | whether there is a process, its secret, its two listeners | start or `log.Fatalf`, listeners that serve or fail, exit | yes, with the sessions |
| Release script `scripts/release.sh` | two remotes and a GitHub release | push, tag, publish, resumed after a failure | no: a developer's tool beside the program (section 9) |
| Login page, landing page | browser | | no, but for what routing needs of it |
| Version reporting, deployment files | none | | no: constants and static configuration |

### How the parts interact

Everything that runs concurrently is a goroutine: one per browser request, one
per Shore connection (handshake and read loop), one reaper. They share

- the registry's map, under the registry's lock; `Register`, `Unregister` and
  `reap` hold it from their first to their last statement, `Close` of the
  connections they drop included;
- `pending` and `streams` of a connection, under its `mu`, held for single map
  operations only: what follows a look-up (the send to the channel, the close of
  the channel) happens after `mu` has been released;
- the socket, written by request handlers and by the read loop (pong) under
  `writeMu`, which is held during a write that has no deadline;
- `done`, closed by whoever closes the connection first; every waiting request
  selects on it.

A process fixes its session secret when it starts; the tokens signed with it outlive
the process in the browsers' cookies. Requests share the table `users`, one statement
at a time. A browser's tabs share its cookies: the session and the short name of the
Shore opened last. Invocations of `ca.sh` share the CA's files; nothing in the Dock
reads them but the CA's certificate at start-up.

A browser handler gets a `*ShoreConnection` from the registry once and keeps it,
whatever happens to the connection afterwards.

### What is hard about it

- **Replacement.** A Shore that reconnects replaces its old connection, whose
  handler then unwinds and unregisters *the name*. Which connection that
  deletes depends on the order (`registry.go:169-175`).
- **Hung peers.** There is no read or write deadline after the handshake. A
  blocked write holds `writeMu`; the read loop may wait for it with a pong and
  then reads nothing either. Only a `Close` gets them out, and only the reaper
  provides one, for connections it finds in the map. Nor is there a deadline for
  the body of a browser's request, which is read before anything is sent.
- **Check, unlock, use.** `DeliverFrame` uses a channel it looked up under `mu`
  after releasing it, while the browser's handler may close it.
- **Time-outs that race with answers**, and the maps' entries that have to go
  whichever way a request ends.
- **Order of the clean-up**: unregister, then close.
- **Accounts in several statements.** Finding an account, finding a free name,
  inserting, counting the users and promoting the first are statements of their
  own, without a transaction around them; some of their errors are ignored.
- **Tokens outlive processes.** A token is split at a separator that its name may
  hold, is signed with a secret written in one of three forms, is checked by
  another process than made it, and reaches the browser late, out of order or not
  at all, without the bytes that a cookie may not hold.
- **One cookie for all tabs.** Which Shore gets a request without a prefix is
  decided by a cookie that answers set and requests read, in any order.
- **Shell scripts as transactions.** `ca.sh` takes no lock and dies at the first
  error: a read, an emptied file and a write are three steps, and openssl reads
  one file before it writes another. A name may be issued to any directory
  (`--out`), and its revocation looks a name up in a list of lines.

### What makes each part correct

- *Registry*: a name leads to an open connection of that name whose handler has
  still to unregister it; a connection enters the map once; with mutual TLS it
  is listed under its certified name; a served connection drops out of the map
  for known reasons only.
- *Tunnel*: a response is never lost between map and handler; no map entry is
  leaked; frames arrive in order and at most once, and a stream that ended
  normally is complete but for frames a full channel dropped; a channel has one
  closer, the socket one writer; every request ends whose body has come.
- *Accounts*: a session cookie names the account it was earned for; only the
  first user and the configured one become admins; an identity has one account
  unless it logged in twice at once.
- *Sessions*: a token is taken for the user who logged in and for nobody else, for
  no longer than `sessionMaxAge`, and for all of it over every restart that keeps
  the secret.
- *Routing*: a request reaches a Shore of its user or none; a page gets its parts
  from the Shore it came from unless the cookie moved on.
- *Certificate authority*: a serial is handed out once, key and certificate
  belong together, `revoke` hits the deployed certificate, as long as invocations
  do not overlap and a name keeps to one directory; and what overlap and another
  directory break, and only that.
- *Whole*: everything ends when a Shore hangs; each part's guarantees survive
  the composition.

The hazards behind these, each at its line, are in `PROJECT.json` (`hazards`).

## 2 The modules and the code

| Module | What it is |
|---|---|
| `ShoreDirectory` | abstract: a map from names to open connections |
| `ShoreRegistry` | the registry and the life of each Shore connection around it; implements `ShoreDirectory` |
| `ShoreRegistryProofs` | theorems about `ShoreRegistry` |
| `RequestBroker` | abstract: what a browser is promised for a request |
| `ShoreConnection` | the tunnel: request handlers, read loops, channels; implements `RequestBroker` |
| `ShoreConnectionProofs` | theorems about `ShoreConnection` |
| `Gateway` | abstract: directory and broker together, and which connection a request belongs to |
| `Dock` | `ShoreRegistry` and `ShoreConnection` composed; implements `Gateway` |
| `DockProofs` | the composition is a behaviour of both its parts, and a gateway |
| `AccountBook` | abstract: what users are promised about their accounts |
| `Accounts` | the users table and the requests that read and write it; implements `AccountBook` |
| `AccountsProofs` | theorems about `Accounts` |
| `Sessions` | session tokens and the browser's cookie over the lives of the process |
| `SessionsProofs` | theorems about `Sessions` |
| `Routing` | which Shore a browser's request goes to: tabs, cookies, owners |
| `RoutingProofs` | theorems about `Routing` |
| `CertAuthority` | `ca.sh`, statement by statement |
| `CertAuthorityProofs` | theorems about `CertAuthority` |
| `MC*` | small instances for TLC |

**`ShoreRegistry`.** An element of `Conns` is one request to `/shore/connect`
and the WebSocket it may become; `phase[c]` is where its handler stands.

| Model | Code |
|---|---|
| `cn`, `name` | `certName`; `ShoreConnection.Name` |
| `shores` | `ShoreRegistry.shores` |
| `closed` | connections on which `Close` (or `conn.Close` in a failed handshake) has run |
| `age` | time since `LastPing`, in ticks of the reaper's ticker, cut off just above the threshold |
| `link` | the other end: up, silent (hung, its TCP held open), down |
| `Accept`, `Refuse`, `Announce`, `HandshakeFails` | `shore_handler.go:25-101` and its early returns |
| `Register`, `Unregister`, `Reap` | the registry's methods, one step each because they hold the lock throughout |
| `CloseSelf` | `shore.Close()` after `Unregister`, `shore_handler.go:113` |
| `Ping`, `ReadLoopEnds` | the read loop as far as the registry sees it |
| `Tick` | the reaper's ticker |

**`ShoreDirectory`** knows only `entry`, `used` and `open`. `Register` is an
`Enlist`, `Unregister` a `StrikeOff`, a reaper round a `Retire`, and everything
else a stutter; the mapping takes "used" for "has been through `Register`" and
"open" for "used and not closed". That `CloseSelf` is a stutter or a `Retire`
that touches no entry is what the code's order (unregister, then close) buys.

**`ShoreConnection`.** An element of `Reqs` or `Streams` is one browser request
with its ID; `hpc[h]` is where its handler stands, `loop[c]` where the read
loop of `c` stands, `item[c]` the channel it has looked up.

| Model | Code |
|---|---|
| `Resolve` | the connection `resolveShore` returns |
| `ReadBody` | `io.ReadAll` of the request's body, `gateway.go:96-103`: between the resolution and `SendHTTPRequest`, for as long as the browser likes |
| `RefuseStream` | the `http.Flusher` assertion, `gateway.go:142` |
| `Enqueue`, `TakeWriter`, `WriteOk` / `WriteFails`, `Unsend` | `SendHTTPRequest` and `OpenStream`: map, `writeMu`, write, error path |
| `Collect`, `TimeOut` + `CancelPendingRequest`, `ShoreDone` | the select of `routeToShore` |
| `ForwardFrame`, `StreamOver`, `ClientLeaves` + `CloseLeft`, `ShoreDone` | the select of `handleSSERequest` |
| `Message`, `Receive` | what a Shore may send, and the read loop's switch on it, `shore_handler.go:136-172` |
| `ReadResponse` + `DeliverResponse` | `DeliverResponse`: pop under `mu`, send after it |
| `ReadFrame` + `DeliverFrame` / `SendOnClosed` | `DeliverFrame`: look up under `mu`, send after it |
| `ReadEnd` + `CloseEnded` | `CloseStream` called by the read loop |
| `ReadPing`, `TakeWriterForPong`, `PongOk` / `PongFails` | the pong, written by the read loop |
| `ReadFails`, `SendOnClosed`, `PongFails` | the read loop's ways out (an error, a panic, an error) |
| `Start`, `Close`, `CloseAfterLoop`, `TunLinkFails` | what the registry and the network do to a connection |

`sent`, `lost` and `got` count and collect frames for the properties. The
capacity of a frame channel is `ChanCap` (32 in the code). `Flushable` are the
streams whose `ResponseWriter` is an `http.Flusher`; in the shipped program it
is empty.

**`RequestBroker`** knows requests, not connections: `fate` (new, open, or how a
request ended), the responses `given`, and per stream the frames `taken` from the
Shore, waiting in `inbox` and `shown` to the browser. A response is `Answer`ed only
if the Shore `Give`s one, a frame is kept or, for a full buffer, dropped, and a
stream is `Finish`ed only after all that was kept has been shown. In the mapping
(`Broker` in `ShoreConnection`) a request's fate is decided when a case of its
handler's select is taken, whatever the handler has still to clean up; a response
is given when it enters its channel, and a frame has come when it has entered its
channel or been dropped. Everything done with maps and locks is a stutter.

**`Dock`** instantiates both and shares `closed` and `link` between them. Each
of its actions is an action of one module with the other's state unchanged, or
one of each where the code does both: `Register` starts the read loop and closes
the predecessor, a ping sets `LastPing` and then writes the pong, the end of the
read loop starts the deferred function, the reaper's and the handler's `Close`
close `done`. `Resolve` takes only listed connections.

**`Gateway`** instantiates `ShoreDirectory` and `RequestBroker` and adds what neither
can say: `book`, which name each connection has; `heard`, the connections the Dock
listens to; and `via`, the connection each request was put through to. A request is
put through only to a connection that its name leads to at that moment (`PutThrough`);
answers and frames come over the request's own connection and only while it is heard
(`FromShore`); a request is dropped only if its connection has been closed by the
Dock, and not merely struck off (`GiveUp`); a name is struck off only
behind a connection of that name that is heard no more (`Delist`). In the mapping (`Gw`
in `Dock`) the directory's variables are those of `ShoreRegistry!Directory`, the
broker's those of `ShoreConnection!BrokerHolds`, `heard` are the connections whose
read loop runs, and `via` is `target`.

**`Accounts`.** An element of `Handlers` is one request to `/login`,
`/register` or `/auth/{provider}/callback`; `hpc[h]` is the statement of the
store it comes to next. Requests interleave between any two statements.

| Model | Code |
|---|---|
| `rows`, `admins` | the table `users` (`users.go:44-59`), by id, and its `is_admin` column; a row's `maker` is history |
| `ident`, `want`, `session` | `Provider` and `UserID` of the OAuth user; `username`; the cookie set by `setSessionCookie` |
| `looked` | history: how long the table was when `GetByProvider` found nothing |
| `Login` | `/login`, `main.go:429-464` |
| `Register` | `/register` up to its first statement, `main.go:466-486` |
| `Callback`, `GetByProvider`, `TryName` | the callback, its look-up, and the loop for a free name, `main.go:538-569` |
| `CreateUser`, `CountUsers`, `SetAdmin`, `Return` | the statements both kinds of registration share, `main.go:487-505` and `570-587` |
| `Fail` | the early returns, and the statements whose errors are reported |
| `Crash` | the process dies between two statements |

**`AccountBook`** keeps the accounts in the order in which they were opened, the lines
that are `trusted`, which identity each request speaks for (`claim`) and where it has
let its sender in (`inside`). In the mapping (`Book` in `Accounts`) the lines are the
rows; the insert is an `Open` if the name is free, `SetAdmin` a `Trust`, and every
statement that sets a cookie a `LetIn`. Where a request stands, the name it is trying,
counts, failures and crashes are not visible.

A failed `CountUsers` counts 0 and a failed `SetAdmin` goes unnoticed, as in the
code; a failed look-up of a name counts as a name that is taken.

**`Sessions`.** The process, which is started in one of the environments `Envs`,
and one browser. An element of `Slots` is one request of the browser at a time,
handled at once, whose answer takes its time or gets lost.

| Model | Code |
|---|---|
| `Start`, `Loads`, `CALoads`, `Listeners` | `main` up to the listeners, with what ends it in `log.Fatalf`: `main.go:320-391`, `624-712` |
| `Listen`, `ListenerFails`, `Exit` | the two goroutines and `errCh`, `main.go:638-660` |
| `Crash` | the host stops the machine, or a new version is deployed |
| `LoadSessionSecret` | hex, else base64, else raw, else random: `main.go:140-182` |
| `regime` | history: since which start the operator has kept the secret |
| `CreateSessionToken`, `ExtractSessionUser`, `LastColon`, `Timestamp` | `createSessionToken`, `extractSessionUser`, `main.go:184-229` |
| `WhoIs` | `requireSession`, `main.go:231-254`, of a request made now |
| `Login`, `Logout` | handlers that end with `setSessionCookie`, and `/logout` |
| `Secure`, `Sanitize`, `SetCookie` | `secureCookies`; what net/http does to a cookie's value; the cookie's attributes in the browser |
| `Receive`, `Lose` | an answer arrives, in any order, or does not |
| `Tick` | the clock; `Second` ticks are a second, since a timestamp is cut to seconds |

A username is a sequence of characters here, the one place where its spelling
decides something.

**`Routing`.** One browser. A path is its first segment: the short name of a
Shore, or something else.

| Model | Code |
|---|---|
| `owner` | the registry as `GetByOwner` sees it: who owns each listed Shore |
| `user` | whom the session cookie vouches for when `requireSession` checks it |
| `active` | the cookie `hermit_active_shore` |
| `page`, `nav`, `part` | what each tab shows, the page it waits for, a part it waits for; a request is its path and the Shore it was resolved to |
| `rivals` | history: values the cookie has taken since the tab last opened a page by its prefix |
| `Resolve`, `Owns` | `resolveShore`, `GetByOwner` |
| `Navigate`, `AskForPart` | a request up to its resolution, `main.go:603-620` and `gateway.go:26-37` |
| `PageAnswered`, `PartAnswered`, `Cookie` | the answer and what it does to the cookie, `gateway.go:39-51` and `231-247` |
| `SetSession`, `SetOwner`, `Restart` | log-in, log-out, expiry; Shores that come, go, or come back as somebody else's; a new process |

**`CertAuthority`.** An element of `Runs` is one invocation of `ca.sh`; `pc[p]`
is the statement it comes to next. A redirection with `>` is two steps (the file
is emptied, then written), and so is an openssl that makes one file from others
(these are read, then that is written). A key is named after the invocation that
made it. `Files` are the pairs of a directory (`--out`, or the Shore's own) and a name
that are issued to.

| Model | Code |
|---|---|
| `serialFile`, `index`, `revoked` | `serial.txt` (0: empty; 1 also if there is none), `index.txt`, `revoked.txt` |
| `caKey`, `caCert` | `ca.key`, and the key that `ca.crt` is for |
| `file` | `OUT_DIR` and `SHORE_NAME` of an `issue`, `ca.sh:146-152` |
| `keyFile`, `csrFile`, `certFile`, `certKey` | what lies there, and the key in each certificate |
| `held` | the key, or the request for a key, that an openssl has read and not yet used |
| `Alike` | which names a name, taken as grep's expression, matches besides itself |
| `met`, `blank` | history: who ran at the same time as whom; whether an empty `serial.txt` has been read |
| `StartInit`, `MakeCAKey`, `ReadCAKey`, `WriteCACert`, `ClearSerial`, `WriteSerial` | `cmd_init` |
| `StartIssue`, `ReadSerial`, `ClearSerial`, `WriteSerial`, `MakeKey`, `ReadKey`, `WriteCSR`, `ReadCSR`, `WriteCert`, `RemoveCSR`, `Record` | `cmd_issue` and `next_serial` |
| `StartRevoke`, `FindSerial`, `Revoke` | `cmd_revoke` |
| `Die` | `set -e`, or an interrupt |

## 3 What the runs check

| Run | Instance | Properties | What it shows |
|---|---|---|---|
| `registry` | 3 attempts, 2 names, mTLS, threshold 1 tick; symmetric | `RegTypeOK`, `EntryIsLive`, `OrphanHasCulprit`, `CertifiedName`, `NoSecondSpell`, `Directory` | whatever the interleaving, the map leads to open connections under their own (certified) names, and the registry implements the directory; the only way a served connection is lost is the `Unregister` of a namesake |
| `tunnel` | 1 connection, 1 request, a stream the Dock refuses and one of up to 3 frames, channel of 2 | `TunTypeOK`, `ReplyFits`, `NoLeak`, `OneCloser`, `OneWriter`, `FramesInOrder`, `OverIsComplete`, `PanicHasLeaver`, `BrokerHolds`, `RequestEnds`, `CloseEndsAll` | with pongs competing for `writeMu`, time-outs, a browser that leaves, a Shore that hangs or vanishes and a `Close` at any moment: nothing lost, leaked, doubled or closed twice, the broker's promises kept, and everything ends that does not wait for a browser's body |
| `dock` | 2 attempts of one name, 1 request | `OneGoroutine`, `RegistryHolds`, `TunnelHolds`, `GatewayHolds`, `RequestEndsOrOrphan`, `HungEndsOrOrphan` | the composition is a behaviour of both parts, so what is shown of each holds of the whole, and of the gateway they make: who is replaced, reaped or struck off while requests are under way costs no request more than the gateway says; a hung Shore and the requests stuck on it end through the reaper, unless the connection is an orphan |
| `accounts` | 3 requests, 2 identities, 2 names with numbers up to 3, statements that fail, a crash; symmetric | `AccTypeOK`, `SessionIsOwn`, `AdminIsFirst`, `SecondOverlapsFirst`, `BookHolds` | between statements that interleave and fail, no cookie names another's account, nobody becomes an admin but the first user and the configured one, only logins that overlap make a second account, and the table is the book users are promised |
| `sessions` | 2 requests, 3 names (an ordinary one, one that ends in a colon and a number, one a cookie cannot hold), 5 environments, 2 starts, a clock that passes the maximum age; symmetric | `SesTypeOK`, `TokenIsOwn`, `SessionLasts` | however answers and restarts fall, a token names only who logged in and only until it expires; it lasts that long if the secret is kept, although it changes from hex to base64 |
| `routing` | 2 tabs, 2 users, 2 Shores, 1 other path; symmetric | `RouTypeOK`, `OwnShoresOnly`, `BleedHasRival` | whatever cookies, sessions and owners do, a request reaches a Shore of its user or none; a page gets a part of another Shore only by that Shore's prefix or when the cookie changed since the tab opened its page |
| `cert_authority` | 3 invocations, 2 Shores, the name of one matching the other's as an expression; the first issued to either of 2 directories, the second to its own; dying anywhere; symmetric | `CATypeOK`, `DuplicateHasCause`, `PairMatches`, `RevokeHitsDeployed`, `CAPairMatches` | invocations that do not overlap keep serials unique (unless one died over the emptied `serial.txt`) and key and certificate together; a revocation is on target unless the issue overlapped another to its directory or the last line for the name is about another directory or another Shore |
| `get_finds_connected` | 2 or 3 attempts | `ConnectedIsFound` | violated, see below |
| `streams_are_opened` | nothing flushable | `StreamIsOpened` | violated |
| `request_timeout` | as `dock` | `RequestEnds` | violated |
| `first_user_admin` | 2 requests, nothing fails | `FirstIsAdmin` | violated |
| `silent_crossover` | 1 tab, 1 user, 2 Shores | `NoSilentCrossover` | violated |

Every property of a passing run has a *mutant*: a definition named `Mutant` in
the module (a dropped `delete`, a lock not released, a close before the
unregister, a select without one of its cases ...) that, put in the place of the
code's action, makes TLC find the property violated. They are listed in
`PROJECT.json` and show that each property depends on what the code does.

Some properties describe what goes wrong rather than that nothing does.
`OrphanHasCulprit` gives the only way a served connection becomes unfindable.
`PanicHasLeaver` gives the only way a read loop panics (a send on a channel the
browser's handler has closed between look-up and send). That panic needs an open
event stream, and since no stream is ever opened in the program as it is shipped
(next section) it is latent: it would come with the repair of the middleware.
`SecondOverlapsFirst` gives the only way an identity gets a second account,
`BleedHasRival` the only ways a page gets parts of another Shore, and
`DuplicateHasCause`, `PairMatches`, `RevokeHitsDeployed` and `CAPairMatches` what
must have happened before the CA's files disagree.

The properties of streams (`OneCloser`, `FramesInOrder`, `OverIsComplete`,
`PanicHasLeaver`) are about code that the shipped program never reaches, for the same
reason; they say what it would do with a middleware that lets `Flush` through.

## 4 Where code and documents disagree

1. **A reconnecting Shore can disappear** (`get_finds_connected`). `Get returns
   the named Shore if it is connected` (`registry.go:177`). The handler of the
   replaced connection runs `Unregister(shore.Name)` when its read loop ends and
   deletes the entry of its successor. The successor is served, answers pings
   and is not found; the reaper does not see it either, so if it then hangs
   nothing closes it.
2. **A prefix that finds nothing is not the end of it** (`silent_crossover`).
   `/master/... → shore-master owned by user` (`gateway.go:196`), and a comment
   at line 216 says that a fallback which let Shores' pages bleed into each other
   was removed. When `shore-master` is not listed, `/master/...` goes on to the
   cookie and is answered by whichever Shore was opened last, which gets the path
   unstripped.
3. **Event streams are always refused** (`streams_are_opened`). The logging
   middleware's `statusResponseWriter` passes on `Hijack` and not `Flush`, so the
   assertion at `gateway.go:142` fails for every request.
4. **A request can wait longer than its 30 s** (`request_timeout`).
   `docs/hermit-federation-architecture.md:124` says the Dock waits up to 30 s.
   The timer starts after the write, which has no deadline. The reaper ends a
   write blocked on a hung Shore within a minute if the connection is listed;
   on an orphan (item 1) nothing ends it. `RequestEndsOrOrphan` shows that of the
   requests whose body has been read these are the only ones that never end. A request
   whose browser stops in the middle of its body does not get that far: it waits at
   `gateway.go:98` for as long as the browser keeps the TCP connection, since the server
   has a deadline for headers only (`main.go:636`), and neither the 30 s nor the end of
   the Shore's connection (`done`) reaches it. The model has that wait (`uploading`) and
   expects nothing of it.
5. **There may be no first admin** (`first_user_admin`). `First registered user
   gets admin` (`main.go:495`,
   `docs/hermit-federation-architecture.md:140`). The insert and the count are
   two statements: when two first registrations interleave, both count two
   users and nobody is promoted, then or later.
Other disagreements were met and are not the subject of a run of their own:

- *Two accounts.* `Find or create user` (`main.go:546`) is two statements, and the
  table has no unique index on provider and provider ID: two callbacks of one
  person at once both find nothing and both insert, under different names.
  `SecondOverlapsFirst` shows that nothing else makes a second account.
- *Names that cannot log in.* net/http drops bytes a cookie may not hold from the
  value, so the signature of a token for such a name (`/register` takes any) fails.
  `TokenIsOwn` shows that the token is not taken for another name instead;
  `SessionLasts` has to except these names.
- *Poll of an expired session.* The landing page's poll waits for a 401
  (`static/landing.html:428`); `requireSession` answers with the login page and 200
  (`main.go:239-249`).
- *Secure over plain HTTP.* `DOCK_TLS_CERT` alone makes cookies `Secure` and the
  OAuth callback `https` (`main.go:352-366`, `395-404`), but it is for the Shores'
  listener: the browsers' one stays plain. Without a proxy in front nobody's cookie
  is kept (`SetCookie`).
- Without a client CA the log says `mTLS listener DISABLED ... Shores cannot connect`
  (`main.go:657`); they can, on the plain listener, without a certificate
  (`shore_handler.go:28`, `MTLS` in `ShoreRegistry`).
- `docs/hermit-federation-architecture.md:255-263` describes a register frame on
  a live connection that updates the registry's list of services. The read loop
  logs it as an unknown message (`shore_handler.go:171`).
- `tools/ca/README.md:60` and `:113` say that the Dock reads `revoked.txt` on each
  Shore connection. Nothing in the Dock reads that file: a revoked certificate is
  accepted until it expires (`shore_handler.go:28-46`).
- `tools/ca/README.md:43-47` issues `shore-master` twice, the second time with `--out`,
  and `:56-59` revokes a Shore by its name: `Adds the cert's serial`. Of two certificates
  of a name it is the last one's; the first stays good, and no `revoke` reaches it any
  more. The name is also an expression to grep (`ca.sh:222`): revoking `shore.1`
  revokes `shore-1` if that was issued last. `RevokeHitsDeployed` has to except both.
- `scripts/release.sh --repair` says that it completes an existing tag's release. It
  builds whatever HEAD is and labels it with the tag, and it replaces the notes of a
  release that exists although an earlier run may have deleted `RELEASE_NOTE`.

## 5 Bounds

| Bound | Value | Why it is enough |
|---|---|---|
| `Conns` in `registry` | 3 | a connection that was replaced can unregister its successor or its successor's successor; a fourth adds no new relation between two of one name |
| `Names` | 2 | one name for the races, one to see that the other is left alone |
| `StaleTicks` in `registry` | 1 (code: 3) | the threshold must be reachable, be reset by a ping before it, and be passed; a higher one repeats ticks. The theorems hold for any |
| `StaleTicks` in `dock` | 0 | every listed connection may count as stale in any round and a tick without a ping makes it stale for sure: a superset of the code's reaper rounds |
| `Conns`, `Reqs`, `Streams` in `tunnel` | 1, 1, 2 | handlers of different connections share nothing; on one connection, a request, a stream and the pong are three contenders for `writeMu`, and the stream the Dock refuses touches nothing |
| `ChanCap` | 2 (code: 32) | empty, partly full, full |
| `MaxFrames` | 3 | one more than the channel holds, so that a frame is dropped and a later one delivered |
| `Streams` in `dock` | none | streams are refused by the shipped program; the tunnel run covers them |
| `Handlers` in `accounts` | 3 | two requests that race and a third that finds what they left |
| `Identities`, `Bases` | 2, 2 | the same person twice or two people; the administrator's name and another |
| `MaxTry` | 3 | three requests can want the same base, so three names must be free to try |
| `MaxCrashes` | 1 | a crash ends whatever is under way; requests not yet come start after it |
| `Slots`, `Names` in `sessions` | 2, 3 | two answers that cross; a name for each thing a spelling can do |
| `Second`, `MaxAge`, `MaxTime` | 2, 1, 4 | a log-in in the middle of a second, the last tick of its session, and one after it |
| `MaxStarts` | 2 | a token checked by another process than made it; a third start adds no new relation of two secrets. The theorems hold for any bounds |
| `Tabs`, `Users`, `Shores`, `Others` in `routing` | 2, 2, 2, 1 | a tab and the one that moves the cookie under it; the owner and somebody else; the right Shore and the wrong one; a path that is nobody's prefix. The theorems hold for any |
| `Runs`, `Names`, `Dirs` in `cert_authority` | 3, 2, 3 | two invocations that overlap and a third that finds what they left; a name that matches the other and one that does not; for the first name the same directory and another, for the second its own. Four invocations take TLC beyond its time, and the theorems hold for any number |

Deadlock is checked in `registry`, `tunnel`, `dock` and `routing`. It is switched
off for `Accounts`, `CertAuthority` and `Sessions`: their requests, invocations,
starts and ticks are finitely many and all come to an end.

Connections, requests, identities, tabs, users, Shores and invocations are
symmetric where the configurations say so: no property or action names one.

## 6 Fairness

`ShoreRegistry` has a safety specification only; whether a handler returns
depends on what its read loop is blocked on, so fairness is stated where that is
modelled (`ShoreConnection!TunFairness`, `Dock!DockFairness`):

- a goroutine that can take a step does so in the end (weak fairness of each
  handler and each read loop): Go schedules runnable goroutines;
- waiting for `writeMu` is strongly fair: `sync.Mutex` hands the lock to a waiter
  that has starved for a millisecond;
- a write to a connection returns unless the peer is *silent* and the Dock has
  not closed it; a read fails once either end is closed. On a silent peer
  nothing is assumed of either;
- the 30 s timer fires, and the reaper runs while something is stale;
- browsers take what is written to them: writes to a browser have no deadline either,
  and a handler that is stuck in one is not modelled. But no browser has to come, to
  send the body it announced (`ReadBody` has no fairness, so a request may stay in
  `uploading` for ever, whatever becomes of its Shore) or to leave;
- a Shore has to do nothing: answers, frames, pings and failures are free.

So `RequestEnds` and `RequestEndsOrOrphan` begin where the body has been read, and
`CloseEndsAll` leaves out requests that have still to send theirs.

`Accounts` states safety only. Its one question of progress, whether the loop at
`main.go:563` ends, depends on how long the store keeps failing, which the bound
on numbers (`MaxTry`) cannot tell from a store that recovers.

`Routing`, `Sessions` and `CertAuthority` state safety only: a browser need not ask
for anything, nobody has to start the Dock again, and an operator may stop anywhere.

"Silent" is a Shore process, host or proxy that hangs while its TCP connection
stays alive. (A host that is gone altogether is noticed by TCP keep-alive, which
is `down`.)

## 7 Abstractions

- A frame is its type and ID. Headers, bodies, paths, JSON and base64 are left
  out, and so is the list of services of a register frame; which user a request
  belongs to, and which path it has, is the subject of `Routing` alone.
- `LastPing` is written by the read loop and read by the reaper without a common
  lock, and the reaper may be late: a connection whose age is at the threshold
  may or may not count as stale (`SurelyStale`, `MaybeStale`), and the reaper may
  run at any time.
- `Close` (closing `done`, then the socket) is one step: no step of the model
  distinguishes the two, since a handler that sees `done` touches the socket no
  more.
- A connection's other end can fail only while its read loop runs. Before that a
  failure is a handshake that fails; after it nobody looks.
- A Shore uses only IDs the Dock has begun to write to it (IDs are random); any
  other ID finds no entry and changes nothing. It may send several answers,
  frames after a `stream_end`, or nothing.
- A panic in the read loop runs the deferred function and is recovered by
  `net/http`, as for any handler.
- A username is a base and a number, and no base ends in a number of its own.
  `/register` takes any username, so a name the loop tries may be somebody's.
- Passwords, hashes and the OAuth exchange are what they promise: a login that
  succeeds knew the password of a local account, and a callback comes with an
  identity the provider vouches for and any name.
- In `Sessions` an HMAC is its argument and its key, and the three encodings of a
  secret are what `loadSessionSecret` makes of them: hex digits are valid base64 of
  other bytes, while the base64 of a generated secret is no hex and a raw secret is
  neither. The clock does not go back. The OAuth library's own cookie, the port
  numbers and the providers' keys are left out.
- `Routing` lets the session become any user's, or nobody's, at any moment: more than
  `Sessions` allows.
- In `Routing` a request is resolved in one step, since its cookies come with it
  and each of its two look-ups reads the registry under its lock. A Shore that
  changes between the look-ups has the effect of one that changed before or after
  both; several that change between them are not modelled, nor are `Secure` and
  `SameSite`, nor the Dock's own paths.
- In `CertAuthority` openssl reads its inputs at one moment and its output appears
  whole at another, with any invocation's statements between the two; a call that makes
  a key from nothing is one step. `Die` stands for a call that fails, at either end.
  There is one CA (`--dir` is not varied), a directory has one path, and the names are
  such that grep takes them for an expression that matches them. `serial.txt` that is missing and one that holds 1 are the same, as
  are an empty and a missing `index.txt` or `revoked.txt`. Nobody edits the files
  by hand, which the message of `init` suggests for starting over.

## 8 What is proved

`ShoreRegistryProofs` proves, for any sets of connections, names and services,
with and without mutual TLS, and any threshold:

| Theorem | Statement |
|---|---|
| `RegistryIsTyped` | `RegSpec => []RegTypeOK` |
| `EntriesAreLive` | `RegSpec => []EntryIsLive` |
| `OrphansHaveCulprits` | `RegSpec => []OrphanHasCulprit` |
| `NamesAreCertified` | `RegSpec => []CertifiedName` |
| `OneSpell` | `RegSpec => NoSecondSpell` |
| `RegistryImplementsDirectory` | `RegSpec => Dir!DirSpec` |

The only assumption is `RegistryAssumption`: `NoConn` and `NoName` are no
connection and no name, `MTLS` is a truth value, `StaleTicks` a natural number.
Sets need not be finite.

The inductive invariant is `RegInv`, the type invariant, `EntryIsLive`,
`OrphanHasCulprit` and `HandshakeDone`. `EntryIsLive` is not inductive alone:
that `Register` enters an *open* connection under a *proper* name rests on what
the handshake leaves behind (nothing is closed during it, the name is set when
the connection is built and never changes, and it agrees with the certificate),
which is `HandshakeDone`. Each part has a preservation lemma with a step per
action. `NamesAreCertified` follows from `HandshakeDone` and `EntryIsLive`;
`OneSpell` and the refinement are step properties proved under `RegInv`.

`OnlyForeignDeletesHide` turns the first disagreement of section 4 round. It adds to
`RegSpec` that no `Unregister` deletes an entry other than its own,
`[][\A c \in Conns : DeletesOwnEntry(c)]_regVars`, and concludes `[]ConnectedIsFound`
and that nobody is ever an orphan: the run shows that this step hides a Shore, the
theorem that nothing else does. The invariant is `ServedIsListed`, which that step
alone breaks.

`AccountsProofs` proves, for any requests, identities, names and configured
administrator, any bound on numbers and crashes, with and without failures:

| Theorem | Statement |
|---|---|
| `AccountsAreTyped` | `AccSpec => []AccTypeOK` |
| `SessionsAreOwn` | `AccSpec => []SessionIsOwn` |
| `AdminsAreFirst` | `AccSpec => []AdminIsFirst` |
| `SecondsOverlap` | `AccSpec => []SecondOverlapsFirst` |
| `AccountsAreABook` | `AccSpec => BookHolds` |
| `OnlyRacesHideTheFirst` | with `~StoreFails`: `AccSpec /\ [][FirstCountsAlone]_accVars => []FirstIsAdmin` |

from `AccountsAssumption` alone (the absent values are absent, the administrator
is a username or none, the bounds are natural numbers). None of the three is
inductive: each speaks of the table and of requests that are done, while what
makes it true is what a request under way knows. `AccInv` adds that: `Progress`
(after its insert a handler's row is there; one about to promote wants the first
row's name or the administrator's), `RowsAreMade` (a row carries its maker's name
and identity), `UniqueNames` (so "the row of that name" is one row, which is
the UNIQUE column at work) and `LookedInTime` (until it has inserted, whatever
account of its identity a callback missed is younger than its look-up). A step
of the table is either an insert, summed up in the lemma `RowsGrow`, or leaves
every row alone (`RowsStay`). The refinement of `AccountBook` goes statement by
statement under `AccInv` (`BookStep`); that a request opens one account and enters that
one is `RowsAreMade` with `UniqueNames`, that a promotion is one of the two allowed is
`Progress`. `OnlyRacesHideTheFirst` assumes that no row is inserted while the maker of
the first one is about to count (`FirstCountsAlone`); then the first user is an admin
once it is answered, crashes included. The run `first_user_admin` breaks just that
assumption.

`RoutingProofs` proves, for any tabs, users, Shores and paths, from
`RoutingAssumption` (no user, path or request is the absent value, a Shore's prefix
is no other path):

| Theorem | Statement |
|---|---|
| `RoutingIsTyped` | `RouSpec => []RouTypeOK` |
| `RequestsStayHome` | `RouSpec => OwnShoresOnly` |
| `BleedsHaveRivals` | `RouSpec => BleedHasRival` |
| `OneShoreStaysOne` | for any Shore `s`: `RouSpec /\ [][AsksOnlyFor(s)]_rouVars => []AllOf(s) /\ []NoSilentCrossover` |

`OwnShoresOnly` is what `Resolve` returns, whatever its two look-ups read.
`BleedHasRival` rests on the invariant that the cookie is the Shore of a tab's
page, or one of the tab's rivals, or none: the cookie can only have changed by an
answer, and every answer that changes it is noted with every tab. `OneShoreStaysOne`
is for a browser that asks for one Shore only by prefix: all its pages and parts are
that Shore's (`AllOf`), whoever logs in and whatever becomes of the Shores and of the
Dock. It takes a second Shore to get the crossover of section 4.

`CertAuthorityProofs` proves, for any number of invocations, Shores and directories and
whichever names match each other, from `CAAssumption` (the absent values are absent,
`Alike` is a function from names to sets of names):

| Theorem | Statement |
|---|---|
| `CAIsTyped` | `CASpec => []CATypeOK` |
| `DuplicatesHaveCauses` | `CASpec => []DuplicateHasCause` |
| `PairsMatch` | `CASpec => []PairMatches` |
| `RevokesHit` | `CASpec => []RevokeHitsDeployed` |
| `CAPairsMatch` | `CASpec => []CAPairMatches` |
| `OneOperatorIsSafe` | `CASpec /\ [][WaitsForTheLast /\ WritesWhatItCleared]_vars => [](SerialsAreUnique /\ CAIsAPair /\ PairsMatchAtLast /\ (OneDirectoryPerName => RevokeHits))` |

`CAInv` has one part per file. `Overlaps` says that two invocations under way
have met; `Founding`, that whoever issues beside an `init` has met it. `Counter`
is the heart of the serials: once an invocation that met nobody has its number,
`serial.txt` is ahead of it, and so is whatever is on its way into the file.
What lies in a Shore's files is in four parts. `Certs` and `Keyed` say whose the
certificate and the key there are and how far their invocations have come. `Rivals`: who
else may still touch these files has met the maker of the key, since it had begun when
that key was made. So, as long as the maker has met nobody there, all that it reads and
writes between its key and its certificate is of that key, which is `Own`; none of this
would survive the reads and writes of openssl coming apart without `Rivals`. `Filing`
says who has still to add a line behind that of the certificate that lies there, and
`Filed` whose files the lines are about.
The properties of the run name causes; `OneOperatorIsSafe` says what is left when
there are none. Invocations that never begin beside another one, and may die anywhere
but between emptying `serial.txt` and writing it, give unique serials, a CA and Shores of
matching parts and, if a name always goes to the same directory and matches no other
(`OneDirectoryPerName`), a `revoke` that hits. That last condition is the operator's:
section 4 says what `--out` does to it. The invariant is `Solo`: nobody
has met anybody, and the file is empty only in the hands of one who is to write it.

`ShoreConnectionProofs` proves, for any connections, requests, streams, frames and
channel capacity, from `TunnelAssumption` (handlers and connections are different
things, bounds are natural numbers):

| Theorem | Statement |
|---|---|
| `TunnelIsTyped` | `TunSafety => []TunTypeOK` |
| `RepliesFit` | `TunSafety => []ReplyFits` |
| `NothingLeaks` | `TunSafety => []NoLeak` |
| `ChannelsHaveOneCloser` | `TunSafety => []OneCloser` |
| `SocketsHaveOneWriter` | `TunSafety => []OneWriter` |
| `FramesKeepOrder` | `TunSafety => []FramesInOrder` |
| `EndedStreamsAreComplete` | `TunSafety => []OverIsComplete` |
| `PanicsHaveLeavers` | `TunSafety => []PanicHasLeaver` |
| `TunnelIsABroker` | `TunSafety => BrokerHolds` |

`TunSafety` is the specification without its fairness. All rest on one invariant,
`TunInv`, whose parts say where things are. `Responses`: a response is in one place,
behind its map entry, in the read loop's hand, or in the channel; that is why the
channel of one has room for it. `Endings`: so is the right to close a frame channel,
in the map, in the hand of the loop or of the handler, or used up; that is why two
goroutines that end a stream at the same time never both close its channel.
`Homes` and `Loops` keep a read loop on requests of its own connection, `Writers`
pairs `writeMu` with who writes. `Delivered` is the books of a stream: what has been
passed on, what waits and what was lost add up to what has come (`Settled`), in
order and with the one before the other (`Ledger`); only a browser that left may
unsettle them. `Bounds` opens and closes the books. For the refinement each action
is shown to be a step of the broker or a stutter under `TunInv`.

`DockProofs` proves, for any connections, names and requests:

| Theorem | Statement |
|---|---|
| `HandlerAndLoopAgree` | `DockSafety => []OneGoroutine` |
| `DockHasARegistry` | `DockSafety => RegistryHolds` |
| `DockHasATunnel` | `DockSafety => TunnelHolds` |
| `RegistryInTheDock` | `DockSafety => [](EntryIsLive /\ OrphanHasCulprit /\ CertifiedName)`, of `Reg` |
| `TunnelInTheDock` | the tunnel's invariants, of `Tun`, under `DockSafety` |
| `DockIsAGateway` | `DockSafety => GatewayHolds` |
| `OnlyForeignDeletesOrphan` | `DockSafety /\ [][\A c \in Conns : DeletesOwn(c)]_dockVars => [](\A c \in Conns : ~Orphan(c))` |

from `DockAssumption`, which says of the whole what `RegistryAssumption` and
`TunnelAssumption` say of the parts.

For the first three the interface is where it takes an argument: `Register` closes
what it replaces, which for the tunnel must be connections (`Entries`), and a read
loop may run only in the handler phases that have one (`OneGoroutine`, which needs
`Named`).

The parts' own theorems are then used, not repeated. `DockProofs` instantiates
`ShoreRegistryProofs` and `ShoreConnectionProofs`; their definitions are shown to be
those of the modules `Dock` instantiates (`SameRegistry`, `SameTunnel`,
`SameTunnelSteps`), so their invariants hold in the Dock (`WholeInvHolds`) and the
properties are corollaries.

`DockIsAGateway` has one lemma per action of the Dock. Its hard steps relate the two
halves. `Resolve` puts through only what is listed *now*, which is `EntryIsLive` of the
registry and a step of the broker at once. That a request's handler gives up only when
the Dock has closed its connection holds because a read loop that ends does *not*
by itself end requests: the handler unregisters first and closes then, and in between
requests still wait (`LoopExitSoundly`, `CloseSelfSoundly`). That an answer comes over
a connection that is heard is `Homes` of `TunInv`, and that a name is struck off
by a handler that has stopped listening is `OneGoroutine`.

`OnlyForeignDeletesOrphan` speaks of the exception in `RequestEndsOrOrphan` and
`HungEndsOrOrphan`: without an `Unregister` that deletes a successor's entry it never
arises, so that, as far as TLC has checked those two, every request whose body has been
read then ends.

`SessionsProofs` proves, for any names, characters, environments and bounds, from
`SessionsAssumption` (the separator and digits are characters a cookie may hold, the
absent values are absent):

| Theorem | Statement |
|---|---|
| `SessionsAreTyped` | `SesSpec => []SesTypeOK` |
| `TokensAreOwn` | `SesSpec => []TokenIsOwn` |
| `SessionsLast` | `SesSpec => []SessionLasts` |

The invariant `SesInv` says of the cookie, and of each answer under way, for which
user, when and under which start its token was made, and that a start of the
current regime signed with the secret the process has now. The heart is a lemma
about sequences, `PayloadSplits`: the last colon of a payload is the separator, for
whatever a name holds, since no colon is a timestamp.

The theorems with a second conjunct on the left, `[][...]`, are the only ones that
assume more of the behaviour than the specification. Each assumption is an action
formula that names the steps it excludes, the behaviours that are left are those in
which things go well, and a run shows, or a property of a run excepts, the
behaviours that are excluded.

Model-checked only: liveness (`RequestEnds`, `CloseEndsAll`, `RequestEndsOrOrphan`,
`HungEndsOrOrphan`), which is out of the proof system's reach. Every safety property
of a passing run is proved.

## 9 Plan

Done: every module listed in section 2, proofs of every safety property and of four
refinements (directory, broker, gateway, account book), and the causes of the
disagreements in the registry, the accounts and the routing as theorems.

Next:

- the safety half of `RequestEnds` and `CloseEndsAll` as an invariant: who waits for
  whom in the tunnel, and that the chain ends with somebody who can take a step;
- an abstract specification of a session (opened, valid, over) for `Sessions`;
- `OneOperatorIsSafe` with a weaker assumption: which overlaps of `ca.sh` are harmless.

Not modelled, and why:

- the release script: it is run by hand beside the program and shares no state with
  it; what it resumes from is held by git and by GitHub, of which the repository has
  no code, so most of such a model would be a guess at theirs. What reading it
  showed is in section 4;
- the pages' layout, version strings and deployment files: constants without
  behaviour of the Dock's own;
- key generation, signatures and hashing: taken as what they promise.

Worth adding when the code changes: a `Routing` whose `SetSession` is `Sessions`'
`Login` and `Receive`, once cookies get a path or a Shore of their own; and the
repaired `Unregister` (by connection instead of by name), for which
`ConnectedIsFound` should turn from a violation into a theorem: `OnlyForeignDeletesHide`
without its assumption.

## 10 Running it

    tlc -config ShoreRegistry.cfg MCShoreRegistry.tla      # about 1.3 million states
    tlc -config ShoreConnection.cfg MCShoreConnection.tla  # about 133 000 states
    tlc -config Dock.cfg MCDock.tla                        # about 140 000 states
    tlc -config Accounts.cfg MCAccounts.tla                # about 3.4 million states
    tlc -config Sessions.cfg MCSessions.tla                # about 1.5 million states
    tlc -config Routing.cfg MCRouting.tla                  # about 314 000 states
    tlc -config CertAuthority.cfg MCCertAuthority.tla      # about 1.8 million states
    tlapm ShoreRegistryProofs.tla
    tlapm ShoreConnectionProofs.tla
    tlapm DockProofs.tla
    tlapm AccountsProofs.tla
    tlapm SessionsProofs.tla
    tlapm RoutingProofs.tla
    tlapm CertAuthorityProofs.tla

The runs that end in a violation use the configuration named after the property.
