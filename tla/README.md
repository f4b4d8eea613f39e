# any-proxy: a verification project

any-proxy (`src/src`, Rust, axum and hyper) is an HTTP forward proxy without
state on disk: a client asks for `/https://host/path`, the proxy opens a
connection of its own to that host for this one request, and streams bodies in
both directions. These modules model the parts of the program in which order,
time or the steps of several tasks decide whether it is right.
TLC checks them on small instances; TLAPS proves every safety property that the
runs check, for every value of the constants.

Line numbers below are those of the modelled commit. `PROJECT.json` maps every
definition that models code to its lines.

## The system

Everything runs in one process on a multi-threaded tokio runtime. Each
connection is a task, each upstream connection one more, detached, task. A
future that is dropped (the client went away) stops at the `await` it stands at
and drops what it owns.

| component | source | state it keeps | operations |
|---|---|---|---|
| concurrency limit | `concurrency.rs`, `app.rs` | permits of one `Semaphore`; a permit moves into the response body | `limit_concurrency`, drop of `GuardedBody` |
| request relay | `proxy.rs` | per request: headers, current target, body, connection task | `proxy_handler`, `forward_request` |
| budget and rate limit | `budget.rs` | `egress_used` (atomic), token bucket (mutex) | `check_admission`, `add_egress`, `try_acquire` |
| redirect machine | `redirect.rs` | current URL, visited set, hop count | `new`, `visit`, `handle_redirect` |
| body idle timeout | `body_timeout.rs` | timer and its registration, byte count, `finished` | `poll_frame`, drop |
| address policy | `resolver.rs` | denied ranges; snapshot of host addresses (`RwLock`) | `refresh_host_addresses`, `validate`, `validate_all`, `resolve` |
| connector | `connector.rs` | per call: answer, address being dialed, three timeouts | `connect`, `dial`, `dial_each`, TLS |
| startup | `main.rs`, `config.rs` | configuration | `from_env`, `should_gate_startup`, `bind`, `run_health_check` |
| shutdown | `main.rs` | `Notify`, the two branches of a `select!` | signal future, watchdog, forced exit |
| access control | `config.rs`, `target.rs`, `proxy.rs` | none | token, origin, method, URL, host and port checks |
| headers and CORS | `headers.rs`, `error.rs` | none | cleaning, CORS headers, error replies |
| telemetry | `telemetry.rs` | none | request ids, log lines |

Interactions. The limit wraps every route but `/healthz`. The handler reads the
budget once, before it connects; both bodies of a transfer (wrapped by
`IdleTimeoutBody`) write it while they are polled. The redirect machine
and the connector live inside one call of `forward_request`; the connector reads
the snapshot that the refresh task replaces. The connection task owns the
request body, so it runs beside the handler and after it. The signal future
talks to the watchdog through a `Notify` only.

What is hard here, and what makes each part correct:

- A permit must survive the handler (it limits whole transfers) and must come
  back exactly once on every way out: `PermitsExact`, `TransfersBounded`. Its
  handler must not keep it for ever: `HandlersLetGo`. A request is refused at once or served, and refused only when
  all permits are taken: `ImplementsLimiter`.
- The egress cap is soft and is raced by every frame: `BudgetClosesDoor`. The
  bucket must neither add up bursts nor lose refills: `RateBounded`,
  `RefusesOnlyAboveRate`.
- A redirect chain is driven by hostile upstreams: `HopsBounded`,
  `NoTargetTwice`, `NeverDowngraded`, `AuthStaysHome`, `BodySentOnce`. Every hop
  needs a connection of its own, checked like the first, and the waits of all
  hops together must end: `EveryHopIsChecked`, `NothingForbiddenDialed`, `RequestEnds`.
- A timer inside a poll function can lose its wake-up or fire beside data:
  `NoLostWakeup`, `TimeoutMeansIdle`, `OneFinalLine`, `SilenceEndsTransfer`.
- An upload and the wait for headers have timers of their own:
  `SilentClientIsNotTheUpstream`.
- The answer of a resolver is checked as a whole, then dialed one by one, while
  the snapshot changes: `UnroutableNeverDialed`, `LocalNeverDialed`,
  `PeerWasValidated`, `EveryAddressTried`, `WaitBounded`. The table of denied
  ranges must be right to the last address: `AllowsPublicOnly`.
- A signal may arrive between any two steps of the start: `CutOnlyAfterGrace`,
  `EndsOnlyWhenAsked`, `WatchedShutdownEnds`.
- The order of the checks and of the header steps is what protects:
  `RestrictionsHold`, `RefusalsAreDeserved`, `StrangersLearnNothing`,
  `OnlyForwardsAreCharged`, `OpenOnlyOnPurpose`; `PrivateStaysBehind`,
  `RestGoesThrough`, `OneCorsVoice`.
- A URL is read, judged, written again and read again: `OneAddressee`.

The full list of hazards, each at its line, is in `PROJECT.json`.

## The modules

| module | models | abstract or composed |
|---|---|---|
| `Limiter` | what the concurrency limit promises | abstract; `Relay` implements it |
| `Relay` | many requests: permits, screening's outcome, admission, connections, bodies, the detached tasks | composes limit, budget and handler |
| `TokenBucket` | `TokenBucket::try_acquire`, each refill rounded either way | with an observer's window |
| `Redirect` | the loop of `forward_request` around `handle_redirect` | |
| `Forward` | the whole of `forward_request` up to the response headers | extends `Redirect`, one instance of `Connector` per round; implements `Redirect` |
| `IdleTimeoutBody` | one body, its poller and its timer | |
| `Exchange` | the wait for response headers beside the upload | extends `IdleTimeoutBody` |
| `AddressPolicy` | snapshot and refresh task | |
| `AddressTable` | the deny list and the global unicast range; beside them, as a reference, the IANA registries | |
| `Connector` | one `connect`, racing the refresh task | extends `AddressPolicy` |
| `PublicPolicy` | `Connector` with the addresses themselves | extends `Connector` and `AddressTable` |
| `Shutdown` | main's `select!`, signal task, watchdog | |
| `Startup` | environment to listening server | |
| `Target` | `parse_target`, `authority`, `full_url` | |
| `Screening` | the checks of `proxy_handler` in their order | extends `Startup` and `Target` |
| `Headers` | header sets on every hop and on every kind of reply | |
| `MCRelay`, `MCForward`, `MCConnector`, `MCScreening` | sets and symmetry for TLC | |
| `RelayProofs`, `TokenBucketProofs`, `ForwardProofs`, `ConnectorProofs`, `ExchangeProofs`, `ScreeningProofs`, `ShutdownProofs`, `HeadersProofs` | theorems | |

How state and actions correspond to the code:

- **Relay.** `pc[r]` is the place of a request; a step ends at an `await` or at
  access to shared state. `permits`/`available` are the semaphore and its owners
  (handler future, then `GuardedBody`). `check_admission` is two steps, the
  bucket under its mutex and one atomic load. `conns` holds the spawned
  connection tasks, one per hop, which end on their own; `upload` is the request
  body, which belongs to the task of the first hop. `Disconnect` drops handler or
  body at any `await`. What the screening decides is the constant `kind[r]`,
  since nothing another task does changes it; the outcome of a connect and the
  rate limiter's verdict are left open (`Connector`, `TokenBucket` model them).
- **TokenBucket.** One token is `TicksPerSecond` units, so the float of the code
  becomes an integer, and the float sum of a refill is off by at most `Rounding` units,
  either way, at every attempt that finds time has passed. `mark`, `granted` and `refills`
  belong to an observer who may open a window at any moment.
- **Redirect.** `trail` records every request sent; `current`, `visited`, `hops`
  and `auth` are the machine and `req_headers`. URLs are members of a set with
  an origin and a scheme, and `Location` may be any of them, absent or unusable.
- **Forward.** The variables of `Redirect` and of one call of `connect`. While the
  loop is at "send" the call runs; `SendRequest` and `GiveUp` take up what it
  returned, `quiet` is the wait for headers, and `FollowRedirect` resets the
  call for the new target, as entering `connect` again does; the snapshot of host
  addresses and its refresh task live on. `asked` observes which target the last
  lookup was for.
- **IdleTimeoutBody.** `timerWakes` and `innerWakes` are the registered wakers,
  `woken` is the pending wake-up, `room` whether the consumer polls. The
  disjuncts of `PollFrame` are the paths through `poll_frame` in its order:
  timer first, then inner body. `lull` and `stalled` observe why time went by.
- **Exchange.** Adds `head` and `waited`, the handler under
  `UPSTREAM_HEADERS_TIMEOUT`.
- **Connector.** One action per outcome of each `await`. `Accept` and `Block`
  check one address each, with the lock released in between, as
  `validate_all` does. `trusted` observes whether an enumeration had succeeded
  before the checks. `AddressTable` has the list of `default_deny_cidrs`, network by
  network, over addresses as sequences of octets or hextets. `Public` is taken from the IANA
  registries of special-purpose addresses instead (`Reserved` ranges and what is `Allocated` in
  them, by first and last address), and where the two differ has a name: `ForgottenV6` passes
  though the registries reserve it, `WithheldV4` is denied though they do not. `Edges` are the
  addresses at which either could change its mind. `PublicPolicy` ties the two: what
  `Connector` takes as `Unroutable` is what the table rejects.
- **Shutdown.** The first poll of each branch of the biased `select!` is a step;
  `notify_waiters` wakes a watchdog that is registered and is lost otherwise.
- **Startup, Screening.** One action per check in the order of the code, each
  with its early return. A request says which server it means and how it is
  spelled; the handler only sees the text (`Written`), which `Parse` reads token by
  token: brackets, port, numbers, trailing dots. The url crate takes a host that ends in a
  number for an IPv4 address, in any notation, or refuses it (`UrlHost`); behind two dots
  it takes it for a name, from which `parse_host` then strips the dots. The checks judge what
  was parsed, the properties what was meant. A variable that is not Unicode and a header that
  is not visible ASCII are `Unreadable`: `env_str` and `to_str().ok()` take them for absent.
- **Headers.** A message is a set of writers per name, plus the names
  `Connection` nominates, those of its readable values apart from those of the values
  that `to_str().ok()` skips (`unreadable`). `headers` is `req_headers`, from which every hop starts.

Mutants. Definitions named `X_Y` behind a comment `Mutated:` are faulty versions
of `X` (a lost release, an off-by-one, a swapped order). Putting one in the place
of `X` makes TLC violate the property it is listed with, which shows that the
property can tell the difference.

## Runs

| run | module | instance | what it shows |
|---|---|---|---|
| `relay_safety` | `MCRelay` | 3 requests (symmetric), 2 permits, egress cap 1, 1 redirect, 2 frames | permits exact, transfers bounded, refused requests never connect, a used-up budget admits nobody, `Limiter` is implemented |
| `relay_live` | `MCRelay` | 2 requests, 1 permit, 1 frame | no handler keeps its permit for ever |
| `relay_conn_tasks` | `MCRelay` | 2 requests, 1 permit | violation: connection tasks outnumber the permits |
| `token_bucket` | `TokenBucket` | 2 per second, 5 ticks per second, 12 ticks, refills rounded by up to a fifth of a token | rate bounded in every window; a refusal is deserved; both up to the rounding |
| `forward` | `MCForward` | 4 URLs, 2 hops, 3 addresses of 3 sorts, timeouts of 1 | bounded, loop-free, never downgraded, Authorization and body stay home; every hop is resolved, checked and secured for itself; the request ends |
| `redirect_allowlist` | `MCForward` | the same | violation: a redirect leads to a target that is not listed |
| `exchange` | `Exchange` | 3 frames, timeouts 2 (body) and 3 (headers) | no lost wake-up, timeouts mean idleness, one final line, silence ends the transfer while its consumer has room, a silent client is not reported as a silent upstream |
| `connector` | `MCConnector` | 4 addresses, one of the host, one private, one public of each family; timeouts 1, 2, 1; every edge of the table; `DENY_CIDRS` with one network of each family | nothing forbidden is dialed, fail-over complete, wait bounded, the public addresses outside `DENY_CIDRS` are allowed, and of the others the `Forgotten` only |
| `shutdown` | `Shutdown` | 3 connections, grace of 3 | cut only after the grace, ends only when asked, a watched shutdown ends |
| `shutdown_lost_notify` | `Shutdown` | the same | violation: a lost notification leaves a shutdown without bound |
| `headers` | `Headers` | 5 names per side, 1 nominated readably and 1 not, 2 redirects | nothing private leaves, nor what a readable value nominates, Host names the target, the rest passes, one CORS voice |
| `screening` | `MCScreening` | over 680 environments, 540 requests | exactly the readable restrictions decide; strangers learn nothing; open relays are on purpose; a server has one name |

Why the bounds are enough. *Relay*: three requests and two permits are the least
at which one request streams while another is being checked and a third is
refused; one redirect gives two connections per request, the case in which a task
outlives its hop; with a cap of one frame the cap is reached, and a second frame
passes it. *TokenBucket*: the clock runs past several full refills, a window
can begin in the middle of one, and the rounding of several refills adds up to more than
a token. *Forward*: two URLs of one https origin, one of another and an http URL allow leaving
the origin and coming back, a change of path within it, a loop and a downgrade; leaving
and coming back takes two hops, a third is refused. One address is good, one is
unroutable, one the host's, in every order. Timeouts of one tick keep a call short;
`Connector` has longer ones. *Exchange*: with a body timeout of two ticks a frame may come
before, at, or after expiry; three frames allow a restart of the timer between two of
them, and the headers timeout of three is the longer one. *Connector*: four addresses
let a forbidden one stand first, in the middle or last, with two good ones to fail over
between; a connect timeout of two differs from the others, so that a mix-up shows. The edges
are the first and last addresses of all ranges in either description with both neighbours:
between two of them neither changes, and `RoutableIsPublic` proves agreement everywhere.
*Shutdown*: one connection that
closes, one that never does and one that opens late; a grace longer than one tick.
*Headers*: the names were chosen so that every table, the prefix rules, a pass-through
name and Host occur; a name of either side may be nominated in a value that
cannot be read. *Screening*: each restriction is absent, blank, written, unreadable or broken, each check is met and missed, and the URLs have zero to two trailing dots, written and
implied default ports, an IPv4 and two IPv6 literals, a label that only ends like a
listed one, and names that end in a number: an address in octets and in other notations, one
that is no address, and each of them with and without two dots.
Bounds of the models that the code does not have are named: `MaxFrames`
(`Relay`, `Exchange`), `MaxTime` (`TokenBucket`), `MaxNominated` and
`Unreadable` (`Headers`), and the saturation of `elapsed` at `Grace` (`Shutdown`).

Deadlock checking is off where the system may really stop: requests are finite
in number, calls return, processes exit.

### Fairness

- `Relay`: synchronous code of a handler runs to its next `await`; connect and
  the wait for headers are under timeouts (`connector.rs`, `proxy.rs:368`), so
  their failure cannot be put off for ever. Nothing more: no response body is made to end,
  no connection task to finish, no upstream to answer and no client to read on or to leave.
  A stream may therefore keep its permit for ever, as it may in the code, and `HandlersLetGo`
  promises that a request leaves the handler, not that it leaves the stream.
- `Exchange`: a woken task is polled, timers fire and time passes. The upstream need not
  take what is buffered; `SilenceEndsTransfer` is about a consumer that keeps room for data.
- `Forward`: in the call, the checks contain no `await`, time passes and timeouts fire; a
  handler whose call has returned goes on; while headers are awaited time passes and
  that timeout fires. No resolver, peer, handshake or upstream is made to answer, and no client
  is made to stay or leave.
- `Shutdown`: tasks are scheduled and time passes; a connection may stay open for ever.

### Disagreements between the code and its documents

Three have a run of their own:

1. **`relay_conn_tasks`** (`proxy.rs:348`). The comment at `proxy.rs:346` says that the
   number of connection tasks is bounded by the permits, and `DESIGN.md:166` calls
   `MAX_CONCURRENT_REQUESTS` the true bound on sockets and connection tasks. A task is
   detached: after a followed redirect, or after the client left, it runs on
   beside the next connection or without any permit.
2. **`shutdown_lost_notify`** (`main.rs:121`). `DESIGN.md:225` promises an end within
   `SHUTDOWN_GRACE`. `notify_waiters` stores nothing, and the biased `select!` polls
   the server, whose first poll spawns the signal task, before the watchdog creates its
   `Notified`. A signal in that gap starts the drain, and the watchdog waits for ever.
   `WatchedShutdownEnds` is what does hold.
3. **`redirect_allowlist`** (`proxy.rs:194`). `redirect.rs:13` says that each hop starts again
   from step 1 of target validation, and `main.rs:57` offers `ALLOW_TARGETS` as the limit on
   target hosts. `ALLOW_TARGETS` and `ALLOW_PORTS` are consulted for the first target only; the
   address policy, in contrast, is applied on every hop (`NothingForbiddenDialed`).

The others are stated as formulas in the modules, which TLC refutes if they replace the
properties of the run named in the last column. They are not runs, to keep the project
to the questions that matter most.

| formula | the document | the code | run to change |
|---|---|---|---|
| `Exchange!FlowingUploadNeverCut` | `README.md:279`: no limit on the total duration while data flows | the timeout at `proxy.rs:368` also covers the upload | `exchange` |
| `IdleTimeoutBody!NeverCutWhileFlowing` | `DESIGN.md:164`: never cut while data flows | `body_timeout.rs:109` looks at the timer first; after a stall of the consumer a ready frame is dropped | `exchange` |
| `IdleTimeoutBody!TransferEnds` | `proxy.rs:345`, `DESIGN.md:165`: a stuck transfer ends by the idle timeout | the timer acts only when polled; a client that stops reading keeps its permit (a stream that flows for ever keeps it, too, which `README.md:279` intends) | `exchange` |
| `IdleTimeoutBody!EveryEndLogged` | `DESIGN.md:206`: a final line at the end or abort of a transfer | no `Drop`; a dropped body writes none | `exchange` |
| `Headers!FramingHonest` | `proxy.rs:288`: a followed redirect has an empty body | the client's `Content-Length` goes out with it | `headers` |
| `Headers!NominatedStaysBehind` | `DESIGN.md:155`, `README.md:300`: what `Connection` nominates is removed | a value of `Connection` that `to_str` cannot read is skipped whole (`headers.rs:84`, `headers.rs:142`), and what it nominates passes | `headers` |
| `PublicPolicy!SpecialNeverAllowed` | `resolver.rs:42`: the policy holds the IANA table of special-purpose addresses and denies what it cannot classify; `DESIGN.md:112`: documentation, benchmarking and protocol assignment ranges are denied | of `2001::/23` only Teredo and ORCHID are listed, so that `2001:2::/48` (benchmarking) and the unassigned rest pass, and so does `3fff::/20` (documentation); for a full list see `ForgottenV6` | `connector` |
| `Startup!IllegalValuesRefused` | `config.rs:96`, `DESIGN.md:230`: a variable that is set and illegal is an error at startup | a value that is no Unicode text is read as not set (`config.rs:195`): a restriction disappears | `screening` |
| `Screening!UnreadableOriginRefused` | `proxy.rs:129`, `README.md:209`: an `Origin` that is there and not listed is refused | one that is no visible ASCII counts as absent (`proxy.rs:126`) | `screening` |
| `Screening!NumberHostsRefused` | `target.rs:187`: an IPv4 address in another notation is left to the standard parser, which refuses it | the url crate reads most of them as addresses, but `127.1..` as a name; its dots are stripped, and `127.1` goes to the resolver as a name and reads back as 127.0.0.1 | `screening` |
| `Screening!OtherMethodsRefused` | `README.md:254`: CONNECT and TRACE get 405 | `/` and `/healthz` answer before the method is looked at | `screening` |
| `Startup!GateSparesProtected` | `DESIGN.md:131`: the gate spares every listed protection | it counts three of them (`main.rs:233`; `README.md:229` agrees with the code) | `screening` |
| `Startup!HealthyIsReported` | `main.rs:149`: 0 is healthy, 1 is not | it always asks 127.0.0.1 (`main.rs:164`) | `screening` |

## Proofs

All theorems hold for every value of the constants that satisfies the named
assumptions of the modules: sets of requests and addresses are finite, limits
and timeouts are natural numbers (positive where the code requires it).

| module | theorems | argument |
|---|---|---|
| `RelayProofs` | `TypeCorrect`, `PermitsNeverLeak`, `TransfersStayBounded`, `RefusalIsFinal`, `ExhaustedBudgetAdmitsNobody`, `RelayIsALimiter` | `IInv` adds `PlaceInv` to the properties: the answer, the kind and the connections a request can have at each place. Without it `PermitsExact` is not inductive: an `overloaded` request, which owns no permit, could still move. `TransfersStayBounded` follows by cardinality from exact permits; the budget property is an action property under `IInv`. The refinement maps every step to a step of `Limiter` or a stutter |
| `TokenBucketProofs` | `BucketTypeCorrect`, `RateStaysBounded`, `RefusalsAreDeserved` | `WindowInv` bounds, from both sides, what the bucket holds plus what was granted since the window began; the two properties are its two sides at the moments they speak of. Each refill since then loosens either side by `Rounding`, whatever that is |
| `ConnectorProofs`, one call | `ConnectorTypeCorrect`, `RejectedAnswersAreNotDialed`, `HostIsNotDialed`, `PeerIsFromTheAnswer`, `FailOverIsComplete`, `WaitIsBounded` | `ChecksHold`: what is known of the addresses before the index, for any refresh in between; `StepsHold`: dialed addresses are a prefix of the answer; `TimeHolds`: the time spent at each place, an affine bound in the index |
| `ConnectorProofs`, the table | `RoutableIsPublic`, `PolicyAllowsPublicOnly`, `OnlyPublicIsDialed` | `Network4` and `Network6` say which groups a prefix length fixes, `InBlock` which addresses lie between two that differ in one group only; with them each network of the deny list and each range of the registries, reserved, allocated within it or forgotten, becomes a condition on the first groups, and the two disjunctions differ in nothing but the named ranges. `OnlyPublicIsDialed` joins this with `ChecksHold` |
| `ForwardProofs`, the loop | `RedirectTypeCorrect`, `RedirectsAreBounded`, `RedirectsDoNotLoop`, `RedirectsStaySecure`, `AuthorizationStaysHome`, `BodyIsNotReplayed` | `TrailInv` and `HistoryInv` tie the trail of requests to the visited set, the hop count, the current URL and the header that is left; the downgrade check compares neighbours only, so the invariant carries it along the chain |
| `ForwardProofs`, the whole request | `ForwardImplementsRedirect`, `ForwardKeepsAuthorizationHome`, `HopsAreChecked`, `NoHopLeavesThePolicy`, `HopsTakeBoundedTime` | every step of `Forward` is a step of `Redirect` or leaves its variables alone, so the theorems of the loop carry over; `HopInv` ties the place in the loop to the place in the call and the call to its target. `P` is `ConnectorProofs` for the call of the round: its invariant `SafeInv` holds of a call that begins, whatever has become of the snapshot (`FreshIsSafe`), and is kept by every step of the call, so it holds on every hop; `ClockInv` does the same for the time of the call, and for the wait for headers |
| `ExchangeProofs` | `BodyTypeCorrect`, `TaskIsAlwaysWoken`, `TimeoutIsDeserved`, `FinalLineIsUnique`, `ExchangeImplementsBody`, `ExchangeTypeCorrect`, `SilentClientGetsNoGatewayTimeout` | `WakeInv`: a timer that was put in place but not polled belongs to a task that is woken; `ClockInv`: the timer never runs ahead of the silence of the inner body, unless the consumer had no room; `EndInv`: the final line goes with the end. The handler of `Exchange` only watches, so the properties carry over to the upload. The last theorem compares two clocks |
| `ScreeningProofs` | `ParseReadsWhatIsMeant`, `MatchesWhatIsNamed`, `ScreeningTypeCorrect`, `ForwardedMeetsRestrictions`, `NobodyIsTurnedAwayWrongly`, `TokenComesFirst`, `RefusalsAreFree`, `RelayIsNeverOpenByAccident`, `FullUrlReadsBack`, `ServerHasOneName` | first about texts: where each delimiter of a spelled URL stands, hence what `Parse` reads, when two dotted texts are equal or end alike, hence what `Matches` matches, and that an address is written in four octets, whatever its notation was. Then `ServerInv`: whoever listens has the configuration its environment spells, and the gate let it pass; `PassedInv`: which restrictions a request is known to meet at each check, and what its target means; `AnswerInv`: what each answer says about them |
| `ShutdownProofs` | `ShutdownTypes`, `CutsAreLate`, `EndsAreAskedFor` | `IInv` says how far the watchdog can be before and after the drain has begun, and that its sleep never runs ahead of the drain; `CutOnlyAfterGrace` alone says nothing of a watchdog that sleeps already |
| `HeadersProofs` | `HeadersTypes`, `PrivateHeadersStay`, `RestIsCarried`, `RepliesHaveOneVoice` | lemmas say what cleaning, insertion and appending do to each name; `IInv` is then about the last request and the reply |

The type invariant of every module with theorems is proved, so no run repeats it.

What the theorems assume beyond the ranges of the constants:

- `SilentClientGetsNoGatewayTimeout`: the idle timeout of the upload is strictly shorter than
  `UPSTREAM_HEADERS_TIMEOUT`. The defaults of the code are equal (`config.rs:69`, 30 seconds
  each): in a tie the order in which the two tasks are polled decides, and the theorem, like
  the run, says nothing of it.
- `ScreeningProofs`: texts are sequences of tokens. A label of a name is not a mark of
  punctuation, the text of an IPv6 address has a colon and no dot or bracket, and an
  entry of `ALLOW_TARGETS` is a name or an IPv4 address (`Spelled`, `IsEntry`). Entries that are
  IPv6 addresses are not modelled. A number hidden behind two dots (`HiddenNumber`) is the one
  spelling for which `FullUrlReadsBack` and `ServerHasOneName` promise nothing, since they are false
  of it; restrictions that cannot be read are no restrictions to `ForwardedMeetsRestrictions`
  and the others, since the code drops them (see the disagreements for both).
- `PrivateHeadersStay`: what a value of `Connection` that cannot be read nominates may leave.
- `RateStaysBounded`, `RefusalsAreDeserved`: every refill is off by at most `Rounding` units; the code's
  own error is a few units in the last place of a sum of at most `rps` tokens.
- `PolicyAllowsPublicOnly` and `OnlyPublicIsDialed`: `Unroutable` is what the table and
  `DENY_CIDRS` reject (`ProbesAssumption`), for any networks in `DENY_CIDRS`. `RoutableIsPublic`
  assumes nothing.

Only model-checked: every liveness property (`HandlersLetGo`,
`RequestEnds`, `SilenceEndsTransfer`, `WatchedShutdownEnds`), since liveness under fairness and `ENABLED`
are beyond the prover. `Limiter` has a safety specification only: no slot need
ever come free, since no stream need ever end. The proofs about texts and addresses need no induction
over data: a delimiter is described by its place, an address by its first groups.

## Not modelled, and why

- Letter case of hosts, the digits of octal and hexadecimal numbers (`Notation` says what such a label
  is worth), and the joining of a relative reference (`url` crate), TLS and
  certificates (rustls), HTTP framing (hyper).
- Texts and status numbers of replies, log formats, the line per completed request, request
  ids: output that nothing in the program reads again.
- The bits of the bucket's floats: their error is any number of units up to `Rounding`. Overflow of
  the 64-bit egress counter, which no run of the program reaches.
- An error returned by `serve` (`main.rs:134`), after which the process exits with 1: axum documents
  that it never returns one.
- The server may validate an answer before the first enumeration of host
  addresses has run (`main.rs:74`); `LocalNeverDialed` speaks of calls after it.
- How far running transfers overshoot the egress cap: the code has no bound.
- Fail-over after a failed TLS handshake: the code has none (`connector.rs:263`).

## Plan

Done, in this order: `Limiter` and `Relay` with proofs; `TokenBucket`, `Redirect`
and `Connector` with proofs; `IdleTimeoutBody`, `Exchange`, `Shutdown`; `Headers`,
`Startup`, `Screening`; then `Forward`, which composes `Redirect` with `Connector`, the address
table, `Target`, and the proofs about `Forward`, `Shutdown` and `Headers`; last the proofs about
`Exchange`, `Screening`, the policy and the clocks along a whole chain of hops, and the address table.

Next: an abstract specification of one request, "screened, then forwarded under a permit",
which `Screening`, `Relay` and `Forward` together implement; and one bound on the waits of all
hops together, from `HopsTakeBoundedTime` and `RedirectsAreBounded`, with the clocks of
finished hops kept beside the trail.
