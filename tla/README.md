# A TLA+ development for apme-web-mash

This directory holds TLA+ models of `apme-web-mash` (the Apostille Me web server, Rust),
the TLC runs that check them on small instances, and TLAPS proofs of the properties that
matter most for every instance. All paths below are relative to the repository root;
`main.rs`, `data_plane.rs` and `auth.rs` are under `src/`.

- [The system](#the-system)
- [Modules and how they correspond to the code](#modules-and-how-they-correspond-to-the-code)
- [Runs](#runs), [Fairness](#fairness), [Findings](#findings), [Proofs](#proofs)
- [What is not modelled](#what-is-not-modelled), [Plan and its state](#plan-and-its-state)

## The system

The web program is one axum process. Everything concurrent in it is a tokio task: one per HTTP
request, one per WebSocket. A request's task may be dropped at any `.await` when its client
goes away. Beside it stand the serverless functions of `src/lambdas/`: small programs that
accept one kind of background call each, deployed as a container, on API Gateway or on
Oracle/Fn. Such a program has one thread of its own logic; what is concurrent there are its
clients and, on one socket path, its predecessors.

| Component | State it keeps | Operations | Interacts with |
|---|---|---|---|
| Data-plane handler (`main.rs`, `data_plane_request`) | none between requests | `GET /api/data-plane/{avenue}` | Shared Auth, then one avenue |
| Shared Auth verifier (`auth.rs`) | configuration only | `verify_user`, `validate_identity` | the authority, over HTTP |
| `direct` avenue (`data_plane.rs`, `direct`) | a connection pool | one read-only transaction | PostgreSQL |
| `http` avenue (`http`) | a reqwest client | `cases` | the API |
| `tcp` avenue (`tcp`) | one `Framed` TLS connection in an `Arc<Mutex<_>>`, opened at startup, never replaced | `cases` | the API |
| `nats` avenue (`nats`) | a JetStream context, the response stream | `connect`, `status` | the broker, and through it the API's worker |
| Live record list (`main.rs`) | `items` (`RwLock<Vec>`), `events` (`broadcast`, 256) | `create_item`, `items_fragment`, `ws_upgrade`, `ws_loop` | the htmx page of `layout` |
| Startup (`main`, `configured_port`, `oracle_fn::run`) | the environment; what has been connected so far | reads configuration, connects, listens | all of the above |
| Serverless dispatch (`src/lambdas/src/lib.rs`) | none | `dispatch`, `http_handler`, `dispatch_request` | API Gateway, container and CloudEvents hosts |
| Oracle Fn server (`src/lambdas/src/bin/support/oracle_fn/`) | the connection being read, its body buffer | `run`, `handle_stream`, `read_request` | the Fn agent, serverless dispatch |
| Oracle Fn socket (`socket.rs` there) | a bound Unix socket and the symbolic link to it | `bind` | the file system, the Fn agent |
| Function entry points (`src/lambdas/src/bin/`) | none | one `RouteSpec` each | the three adapters |
| Environment store (`.just/env.just`, `.just/dotenv.py`, `scripts/sops-entrypoint.sh`) | files of `env/enc` and `env/dec` | encrypt, decrypt, edit, clean | sops, age keys |
| Lint tools, CI workflows, Nix, Dockerfiles | none at run time | | |

What makes each of them correct, and what is hard about it:

- **tcp.** One connection is shared by all requests. A round trip is `send` then `next`, each
  with its own timeout, and may be given up after its frame was written. Correct means: round
  trips do not interleave; no caller is given another's reply; every caller ends, whatever
  the peer and the callers ahead of it do.
- **nats.** A request outlives its caller. Correct means: what the broker acknowledged is
  answered in spite of restarts and deaths; a caller is told once, and only what the API
  produced for it; every call ends.
- **Live list.** Events carry no data, the ring may overwrite them, the list is fetched by
  separate requests whose responses overtake one another. Correct means: a page at rest shows
  what was announced to it, and what it created itself.
- **Data-plane handler and Shared Auth.** The authority's answer is a snapshot that ages while
  the handler waits. Correct means: the data of one tenant goes to bearers of that tenant's
  tokens; a token that was no good on arrival gets nothing and learns nothing; requests end.
- **Startup.** Settings are read one after the other, and peers are contacted in between, so that
  a bad last setting is found when the first peer has long been reached. Correct means: what
  cannot be read is off, what can be read is right or nothing listens; a peer is connected to only
  when all that was read before is in order, and told nothing before its own settings are; startup
  does not hang.
- **Serverless dispatch.** The same checks are made in three adapters and one handler, in two
  files. Correct means: the adapters agree; nothing is accepted that one of the checks should
  have refused; each accepted call has an id to trace it by.
- **Fn server.** One connection at a time, read to its end without a timeout. Correct means: a
  request that was cut off is never taken for a shorter one; the buffer stays within the limit;
  only a client that does not finish its request holds up the others.
- **Fn socket.** Six or seven system calls, leftovers of a crash between any two of them. Correct
  means: a link that can be seen leads to a socket that can be used; a restart always gets there;
  a foreign file is not removed.

`PROJECT.json` lists the hazards of this code one by one, each at its line, with the properties
that cover it or the reason why none does.

## Modules and how they correspond to the code

`CasesRpc` is the abstract specification of what an avenue promises to the handler: an
at-most-once remote call. A call ends once, with its own payload or with a failure; the API
serves a call at most once and perhaps after its caller has failed. `TcpChannel` and
`JetStreamStatus` implement it (checked and proved); `DataPlane` uses it. That is how the
components compose: the handler is verified against the promise, the avenues against the code.

### TcpChannel

The connection is a log with cursors. `sent` lists the requests whose frames were encoded, in
order; `flushed` of them left the `Framed` write buffer; `replies` are the API's answers in
order, `arrived` of them readable, `read` of them consumed. `waiters` and `holder` are the tokio
mutex, which is first come, first served.

| Action | Code |
|---|---|
| `Call`, `Lock`, `LeaveQueue` | `transport.lock().await`, and a handler dropped there |
| `RejectFrame` | `validate_token`, the serialisation and `MAX_REQUEST_BYTES` |
| `Encode`, `Flush`, `SendTimeout`, `SendError` | `timeout(5 s, framed.send(..))`: `poll_ready` (which flushes first at the back-pressure boundary), `start_send`, `poll_flush` |
| `Receive` with `Verdict`, `ReceiveOversize`, `ReceiveClosed`, `ReceiveTimeout` | `timeout(5 s, framed.next())` and the checks of `FrameResponse` |
| `Cancel` | the handler dropped at an await inside `cases` |
| `ApiAnswer`, `Deliver`, `ApiClose` | external: the API and the network |

`ReceiveTimeout` needs nothing readable, since tokio's `timeout` polls the inner future first.
`Ordered` says whether the API answers the frames of the connection in order. TLS and
certificates are inside `Init`: `main` listens only after `Channel::connect` has returned.

### JetStreamStatus

`Connect` is `Transport::connect` with `validate_request_stream` and `validate_response_stream`
over every combination of storage, retention, subject and `allow_direct`. `Publish`,
`Acknowledged`, `PublishError` are the two awaits of `send_publish`; `PollHit`, `PollMiss`,
`PollTimeout` the loop over `direct_get_last_for_subject`. `age` is the elapsed time in units of
`Deadline`; a poll may take any part of what is left. The broker may lose a message on the way,
store it without the caller learning of it, and restart, losing what is in memory; an
`Interest` stream without consumers drops what it acknowledges. The worker may die before or
after it publishes a response, and is then given the request again. The duplicate window that
`connect` also requires is left out: this program never publishes an operation twice.

### LiveRecords

The list only grows, so a snapshot of it is its length. The broadcast ring is `tail` and one
cursor per receiver; `RecvLagged` is tokio's `RecvError::Lagged`, after which the receiver
continues at the oldest retained event. Within `create_item` the push, the send and the
read-back are separate actions, since other tasks run between them; the handler can be dropped
at the two lock awaits but not between push and send. `busy` and `wire` are the event that
`ws_loop` holds and the messages the socket took. The page is external and follows the
attributes that `layout` writes: `#items` loads on `load` and on `record-changed`, htmx keeps
one further request behind a running one, the form's response replaces `#items` as well, and
the WebSocket extension reconnects. `Pages` that are also in `Forms` use their own form;
`Watchers` only watch.

### SharedAuth and DataPlane

`SharedAuth` is `validate_identity` as an operator over claim records. `exp` is read against the
clock first, `nbf` against a later clock. `DataPlane` is `data_plane_request`: `RefuseBearer` and
`Arrive` (the bearer header), `Introspect` (the authority's answer of that moment, or an error),
`AuthError`/`Verify` with `Admission` (the checks in the code's order: identity 401, tenant header
422, tenant mismatch 403, avenue 404, configuration 503), `Query` (the `direct` transaction),
`CallReturns`/`CallFails` (the other avenues), `Cancel`. Tokens can be revoked and time passes
between any two steps. The tenant header and the avenue are chosen in `Verify`, where the handler
first looks at them: earlier nothing depends on them.

### FnSocket

`kind`, `owner` and `public` are the directory: the link of `FN_LISTENER` and the `phony` name
that is bound. `pc[i]` is the next system call of process life `i`.

| Action | Code |
|---|---|
| `Start` | `run` up to `bind` |
| `Stat`, `Remove` | `remove_previous_socket`: `symlink_metadata`, then `remove_file`, for the link and then for the phony path |
| `Bind`, `Chmod`, `Symlink` | `UnixListener::bind`, `set_permissions`, `symlink` |
| `Crash`, `Drop` | external: the process is killed and the directory stays; somebody puts a file at a free name |

`alone[i]` says that no other start overlapped that of `i`, and `Orderly` that none did. The Fn
platform starts one process of a function at a time, and `bind` takes no lock: two starts that
overlap can remove one another's entries. The safety properties therefore speak of orderly
histories; `LeftoversAreNoObstacle` also covers a start after an overlap. `Drop` puts a file only at
a name that is free: a file that takes the place of a socket between `symlink_metadata` and
`remove_file` would be removed with it, which `bind` cannot exclude and `FilesAreKept` does not speak of.

### FnServer

The accept loop and one connection. `stage` is what `read_request` reads next; a *unit* is what
one read returns, and is what it is to the code: a header line is a field, `chunked`, a
`content-length`, nonsense in its place, or blank. `room` and `filled` are the body buffer.

| Action | Code |
|---|---|
| `Connect`, `Close` | external: the Fn agent; a half-close and a full close are different |
| `Accept` | `listener.incoming()` and `try_clone` |
| `ReadRequestLine`, `ReadHeader`, `ReadBody` | `read_request` |
| `ReadSize`, `ReadChunk`, `ReadTerminator`, `ReadTrailer` | `read_chunked_body` |
| `EndOfInput` | `read_line` returning 0, `read_exact` failing |
| `Answer` | the rest of `handle_stream` and the end of the loop's body |

### Dispatch

Three adapters are asked the same call. A call is a record of what the code decides on: the
method and path relative to the route, what exceeds the limit (nothing, only the envelope, or
the body), the body as JSON (or that it cannot be read to its end), the CloudEvent's form and
attributes, the ids that came with it. A status is the one the function answers with, which an Fn
function sends in a header of its own.
`Http`, `Fn` and `Aws` are `http_handler`, `handle_stream` and `dispatch`; each ends in
`DispatchRequest`, which is `dispatch_request`. `HttpUnread` is `to_bytes` failing, for which the
container has one answer, 413, also when the body broke off; `FnBroken` is what `read_request` makes of
such a body, 400 or 500. An id counts as `unusable` when nothing is left of it once it is sanitized:
the container goes on to the next then, an Fn function does not. `Possible` excludes calls that cannot be (an
absent body that is too large). The initial states are all other calls, and the adapters answer
in any order.

### Startup

One module for the three programs, since their startup has one shape: `pc` is the setting read
next. A setting's value says what is wrong with it: the enabling variable is `absent` (or blank) or
`garbled` (set, but not Unicode), another variable is missing (`partial`), one breaks a rule of this
code (`invalid`), the server name of the tcp channel is no name (`misnamed`), only the peer shows
that it is wrong (`rejected`), or nothing is (`good`). `reached` are the peers to which a connection was
opened, `spoken` those to which anything was sent over it.

| Action | Code |
|---|---|
| `Disabled` with `Unread` | `optional_env`, `env::var(..).ok()` and `_ => None`: what is absent and what is not Unicode are the same to them |
| `Refuse`, `Accept` | `auth::Verifier::from_env`, `required`, the `from_env`, `try_new` and `validate` of each avenue, the files that `Channel::connect` reads first |
| `Reach` | `TcpStream::connect`, and what the libraries do in its place |
| `RefuseName` | `ServerName::try_from` in `Channel::connect`, after the connection |
| `Handshake` | TLS and login: the setting is accepted or rejected |
| `GiveUp` | the timeouts of `Database::connect`, `Channel::connect`, `Transport::connect`, before and after there is a connection |
| `ChoosePort` with `ResolvePort` | `configured_port` and `resolve_port` |
| `Bind` | `TcpListener::bind`; for an Fn function the outcome of `FnSocket` |
| `PeerChanges` | external: a peer falls silent or answers again while the process connects to it; what it does at other times nobody notices |

`FnServer` and `Dispatch` compose by what is dispatched: `FnServer` says when a request is handed
over and that it is whole, `Dispatch` what it is then answered. `FnSocket` and `Startup` say when
there is a server at all.

## Runs

Every property of a passing run is also run against a mutant, a changed definition of the
model that a plausible bug would amount to (listed in `PROJECT.json`, each defined beside
the definition it replaces); TLC finds the property violated there.

| Run | Instance | Shows |
|---|---|---|
| `tcp_safety` | 4 calls, boundary 2, API in order | `TypeOK`; `OneOpenTrip`: a frame of one round trip never meets another's; `AbandonmentIsPermanent`: once a round trip was given up with its frame encoded, no later one succeeds; `MismatchHasACause`: and nothing else ever makes a reply mismatch |
| `tcp_unordered` | 3 calls, boundary 1, API in any order, fair | `PayloadWasServed`, `ImplementsRpc`; `EveryCallEnds`: a handler queued on the mutex ends |
| `tcp_isolation` | 2 calls | violation, see Findings |
| `live_records` | one page with its own form, one other client, ring 1, socket 1, 3 records | `TypeOK`; `OwnRecordIsShown` |
| `live_refresh` | one watching page, one client, ring 1, socket 1, 4 records, fair | `WatchersConverge`, `RecordReachesWatchers` |
| `live_stale` | one watching page, one client, 1 record | violation, see Findings |
| `nats_status` | 2 operations, deadline 2, all stream configurations, fair | `TypeOK`; `DurableRequest`, `AnswerIsReadable`: the accepted configurations keep requests and answers; `EveryStatusEnds`; `EveryRequestIsAnswered`; `ImplementsRpc` |
| `data_plane` | 2 requests, 1 token with each of 7 claim records, 2 tenants, `http` not configured, clock 0..2, fair | `TypeOK`; `TenantIsolation`; `DoomedLearnNothing`; `EveryRequestEnds` |
| `fn_socket` | 3 process lives on one path, a file dropped at each name, fair | `TypeOK`; `VisibleIsReady`: the link never leads nowhere; `FilesAreKept`; `LeftoversAreNoObstacle`; `RestartRecovers` |
| `fn_server` | 2 clients, body limit 2, 3 header lines, 12 units of input, fair | `TypeOK`; `DispatchedIsWhole`, `RefusalsAreFair`, `BodyBounded`; `EveryClientHasItsTurn` |
| `dispatch` | all calls, all orders of the adapters | `TypeOK`; `OneVerdict`: the adapters agree; `AcceptedIsComplete`; `Correlated`: an accepted call keeps the first usable id it came with |
| `startup` | all programs, builds and settings, peers changing at any time, fair | `TypeOK`; `ListensAsConfigured`: what could be read is served, and only that; `CautiousContact`; `PreferredPortDecides`; `StartupEnds` |

Why the bounds are enough. *Four calls*: one abandoned, one that reads its late reply, one behind
that, and one leaving the queue; boundary 2 lets the backlog build up over two abandoned
sends, boundary 1 makes the sink flush before every frame. *Ring 1* with 4 records lags by
several events, and with *socket 1* a reload can be pending in every stage at once. *Deadline 2*
lets an answer come before, between and after the polls. *Clock 0..2* has claims that start
and end inside the run, so every order of expiry, arrival, introspection and verification
occurs. *Three lives* are one that crashes, one that crashes over its leftovers, and one
that recovers; two of them may overlap before the third. *Body limit 2* is filled by one
chunk or by two, exceeded by one or by the sum of two, and `MaxInput` 12 has room for two
full chunks, a terminator and a trailer (twelve units is where the history stops telling what a
client sends, not a limit of the code). *Three header lines* are reached with and without a blank one.
`dispatch` and `startup` have no bounds: their state spaces are the whole of the models.
Other capacities and more processes are covered by the proofs.

Deadlock is not checked (`CHECK_DEADLOCK FALSE`) because the instances end: all calls are
done, all records created. That nobody waits for ever is what the liveness properties say.

## Fairness

- Handlers: weak fairness of every step the tokio runtime owes a task that holds what it waits
  for (a runnable task is polled, a timer fires). The mutex is fair by tokio's documentation,
  hence `WF(Lock)`.
- `LiveRecords`: also the page's own steps while its socket is up. A submitted form need not
  proceed, but once a record is pushed its announcement follows, there being no await between.
- `JetStreamStatus`: the worker is given a waiting request again and again, and answers it in
  the end (strong fairness, because deaths interrupt it). Only `EveryRequestIsAnswered` needs this.
- `DataPlane`: the Shared Auth client answers or fails, an avenue's call ends. The latter is
  `EveryCallEnds` and `EveryStatusEnds` of the avenue modules and reqwest's total timeout.
- `FnSocket`: a process that is not killed makes its next system call (`WF(BindStep)`).
- `FnServer`: the server's thread runs whenever it can (`WF` of `Accept`, `EndOfInput` and `Answer`).
  Nothing is assumed of the clients: `EveryClientHasItsTurn` is conditional on each of them finishing
  its request or closing in the end. A client that is silent holds the server, there being no read
  timeout; so does one that sends a line or trailers without end, there being no limit of them. The
  second is here like the first: what it sends leaves `read_request` where it is.
- `Startup`: `WF(Advance)`, because reading the environment never waits and every contact with a
  peer is bounded: the `timeout`s around the TCP connection and the TLS handshake, NATS's
  `connection_timeout` and its client's request timeout, and the database pool's acquire timeout
  (the last two are the libraries' defaults).
- Nothing is assumed of the API behind the tcp channel, of the network, of browsers' requests,
  or of the database.

## Findings

Both runs show places where the code does something else than its documentation says; a third,
which `startup` states as an exception of a property, follows them.

1. `tcp_isolation`. `README.md:44-46` promises "per-round-trip timeouts". A round trip that is
   given up leaves its frame on the only connection, and neither the late reply is drained nor
   the channel replaced, so that the next caller reads that reply and is failed for it
   (`TimeoutsArePerRoundTrip`). `PayloadWasServed` holds all the same: a wrong reply is always
   refused. With an API that answers in order, no later call of the process ever succeeds
   (`AbandonmentIsPermanent`, proved): one slow answer closes the avenue until a restart.
2. `live_stale`. `main.rs:323` tells the user "WebSocket connected changes will refresh the
   list." The page fetches the list once on load and subscribes in a separate request; a record
   created in between, or while the socket reconnects, is announced to others only and the
   connected page stays at the old list until the next record (`ConnectedPageIsCurrent`).
3. `startup`, `ListensAsConfigured`. `README.md:57-58` says: "Optional transports are disabled when
   their enabling variable is absent and fail startup on partial or unsafe configuration." An enabling
   variable that is set to something that is not Unicode is dropped like an absent one
   (`main.rs:68-71`, `data_plane.rs:102-106`, `434-439`, `682-687`): the process listens without the
   transport. A `BIND_ADDR` of that kind gives way to the default (`main.rs:113-114`), where a port of a
   function that is not Unicode is an error. The property calls both *unread*. Likewise the server name
   of the tcp channel is validated only after `TcpStream::connect` (`data_plane.rs:349-354`), so that a
   process with a bad one connects to the peer, sends nothing and exits; `CautiousContact` says so.

## Proofs

Theorems are in the `...Proofs` module of each component. Most have the same shape:
`TypeCorrect`, then an inductive invariant `IInv` (`Invariant`), then the safety properties as
consequences. The only assumptions are the named `ASSUME`s on the constants in the modelled
modules (capacities are positive or natural, the special values are not members of the sets,
the initial claims are claims).

- **TcpChannel.** *Queue* and *Exclusion* tie `waiters`, `holder` and `stage` together; *Frames*
  says each request has at most one frame, and only the last frame may belong to a caller that
  has not ended; *InOrder* (for an in-order API) that the i-th reply answers the i-th frame; *Lag*
  that the number of replies read falls behind the number of frames exactly when a round trip was
  given up. Without *Lag* the pairing property is not inductive: whether a reply will mismatch
  depends on how far behind the reader is, not on what was read. Theorems: `Isolation`,
  `Pairing` (`AbandonmentIsPermanent`), `Causation` (`MismatchHasACause`), `Correlation`
  (`PayloadWasServed`), `Refinement` (`ImplementsRpc`: each step maps to a step of `CasesRpc` or
  to a stutter) and what follows from it, `Guarantee`: under the mapping `CasesRpc!Honest` (a
  payload is one that the API produced for a call that was made) always holds and
  `CasesRpc!Told` (nobody is told twice, nothing served is taken back) holds of every step.
  `Descent`: no step of anybody takes a handler back a stage or adds to what the holder has to
  flush, and each of the holder's own steps does one or the other less. *Queue* and *Exclusion* are what `Descent` needs:
  without them a cancelled waiter could be the holder.
- **LiveRecords.** The properties speak of pages at rest; the invariant says why the others will be
  right: a reload that will see everything is on its way, or the last snapshot the page has is
  new enough. Theorems: `Convergence`, `OwnRecord`. `Monotone`: the list that a watching page
  shows never gets shorter; its invariant *Fresh* says that the response on its way is no older
  than what is shown. (It does not hold of a page with its own form, whose two requests overlap.)
- **JetStreamStatus.** Nothing happens before `connect` accepted both streams, so the
  configurations are durable whenever anything is stored. Theorems: `Durability`
  (`DurableRequest`), `Readability` (`AnswerIsReadable`), `Refinement`, and `Guarantee` from it as
  for the channel. `Descent`: nothing takes a call back or gives its time back, and each step of
  `status` brings it nearer to its end or uses up time, so that it takes at most `Deadline + 2`.
- **DataPlane.** That a token is doomed now does not say that an older answer of the authority
  is bad. The invariant carries the reason: an answer that still says `active`, for a request
  that was doomed on arrival, implies a flaw other than revocation, and those are permanent.
  Theorems: `Isolation` (`TenantIsolation`), `Secrecy` (`DoomedLearnNothing`). `Provenance` is the
  other direction, what it took to be answered with cases: the authority called the token active,
  the tenant is the token's, the avenue is configured, and the answer is the database's or what
  the API produced for this call. Its invariant *Accounts* ties each request's stage to the state of
  its one call.
- **FnSocket.** That a start finds the directory as it left it is not a property of the directory.
  The invariant has *Solitude* (while a start is alone, it is the latest and the only one under
  way), *Origin* (a file at a name was dropped there, never made by `bind`) and *Progress* (what a
  start that is alone knows of the two names at each of its calls).
  Theorems: `Readiness` (`VisibleIsReady`), `Restraint` (`FilesAreKept`), `Recovery`
  (`LeftoversAreNoObstacle`). `Descent` holds of starts that overlap too: `bind` makes at most seven
  calls and repeats none, whatever the others do to the directory.
- **FnServer.** *Room* says where the buffer is full (between chunks) and where it has room left (inside
  a body or a chunk): a chunk is admitted by what has been read, the buffer grows from what it was,
  and the bound holds only because the two then agree. Theorem:
  `Bounded` (`BodyBounded`). *Parse* is the invariant of the parser. That a request is dispatched
  exactly when it is whole says nothing of a request half read, so *Parse* says, stage by stage, what
  the units read so far are (a head without its blank line; a head and less than its length; a head,
  whole chunks and a part of one; ...), and that `headers`, `room` and `filled`, which the
  code keeps instead of the input, are their summary. Theorems: `Parsing`, and from it `Wholeness`
  (`DispatchedIsWhole`) and `Refusals` (`RefusalsAreFair`). They assume that at least one header
  line is allowed (`MAX_HEADER_LINES` is 128). *Turns* ties the backlog to where each client is;
  theorems: `InOrder` (nobody is served or dropped before one that connected earlier) and
  `AnsweredOnce` (a connection is answered at most once, with the verdict on what came over it).
- **Dispatch.** *Faithful*: an answer is the one its adapter gives to the call, so that the
  properties become facts about the adapters' operators. Theorems: `Completeness`
  (`AcceptedIsComplete`), `Correlation` (`Correlated`, from what each adapter makes of the ids it is given), `Verdict` (`OneVerdict`: each adapter's status
  is written as the first of its checks that fails, and the checks are compared one by one).
- **Startup.** *Place* says where which program can be, *Settled*, by what precedes `pc` in the order of
  reading (`Passed`), what is held and that it is good, and `CautiousContact` itself completes the
  invariant: that a connection was opened with all before it in order follows only from *Settled*, and
  stays true because the settings do not change. Theorems: `Configuration` (`ListensAsConfigured`),
  `Caution` (`CautiousContact`). *Resolved* keeps what the one deciding step of a function decided, for
  `Preference` (`PreferredPortDecides`). `Descent`: startup reads each setting once and takes at most ten
  steps of its own (two at a peer), whatever the peers do.

Every invariant that a passing run checks is proved, and `ImplementsRpc` of both avenues. The
`Descent` theorems are the safety half of four liveness properties (`EveryCallEnds`,
`EveryStatusEnds`, `RestartRecovers`, `StartupEnds`): every step is a step forward and there are
only so many. That such a step is enabled, and hence taken, is the other half.

Only model-checked:

- the liveness properties (`EveryCallEnds`, `RecordReachesWatchers`, `EveryStatusEnds`,
  `EveryRequestIsAnswered`, `EveryRequestEnds`, `RestartRecovers`, `EveryClientHasItsTurn`,
  `StartupEnds`), which rest on fairness and `ENABLED` and are beyond the prover;
- the two violations.

## What is not modelled

- Contents: texts, JSON documents, HTML, logging, UUID generation (identifiers are distinct).
- TLS, certificates, credential files, URL rules and name syntax are told apart only as in
  `Startup`: refused before a connection, over one before anything is sent, by the peer, or good. The
  avenue modules start connected.
- A file that takes the place of a socket inside `remove_previous_socket` (see FnSocket).
- How a claim names the tenant is translated (`TenantOf`), not judged: `TenantIsolation` says that the
  answer follows the verified tenant. How long an alert stays on a page is not judged either.
- The web server's own restart: the list is in memory and documented as a bootstrap.
- Lost HTTP responses in `LiveRecords`: a page whose request fails shows the old list until the
  next event; the models assume responses arrive, in any order.
- The limits of the JetStream response stream, assumed to keep a response for longer than
  `ASYNC_TIMEOUT`, and changes of a stream's configuration after `connect`.
- A wall clock that steps back (`DataPlane`'s clock only advances) or is before 1970.
- The statements inside the `direct` transaction and its connection pool: one snapshot is read and
  nothing is written, so what is left is PostgreSQL's promise. It has no timeout of its own.
- The pieces of the `http` avenue's body: reqwest's total timeout bounds it, and `DataPlane` has the
  outcome. Half-open sockets: nothing in the code notices them but a failing write.
- The structured logger and the exact texts of the serverless answers; `Dispatch` has statuses and ids.
- The functions' lists of required fields and event types: every function differs from the others
  only in its `RouteSpec`, and `Dispatch` has one with a required field.
- The encrypted environment store (`.just/env.just`, `.just/dotenv.py`, `scripts/`): shell recipes run
  by one developer at a time. A recipe that stops between two commands leaves a temporary file behind.
- Lint tools, CI, Nix and Docker files have no run-time state.

## Plan and its state

The modules of the plan, in the order in which they were written; all of them are done:

1. `TcpChannel` over `CasesRpc`, with its proofs.
2. `LiveRecords`, with its proofs.
3. `JetStreamStatus` over `CasesRpc`, with its proofs.
4. `SharedAuth` and `DataPlane`, composing the avenues' promise, with their proofs.
5. `FnSocket` and `FnServer`, with their proofs.
6. `Dispatch` and `Startup`, with their proofs.

What could come next, should the code grow that way: a keepalive of the WebSockets and a
reconnecting tcp channel would each change a module's actions and make an accepted hazard a
property; persistence of `items` would give `LiveRecords` crashes; a statement timeout would let
`EveryRequestEnds` hold without the assumption on the database.
