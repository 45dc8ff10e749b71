# hyper-cors in TLA+

A verification development of `hyper-cors`, a CORS middleware for hyper 1.x: the
middleware's futures and its builder as state machines, what they promise an application as
an abstract specification, TLC runs on small instances, and theorems about them checked by
TLAPS.

Paths below are relative to the repository: `src/cors.rs` is the middleware.

## The system

`Cors<S>` wraps an inner hyper service. An application fills in a `CorsBuilder`, builds a
`Cors`, and a server clones it for every connection. Each request becomes a `CorsFuture`,
which asks the origin policy, then either answers by itself or calls the inner service, and
adds CORS headers to the answer.

| Component | State it keeps | Operations | What makes it correct |
|---|---|---|---|
| `Cors` (`cors.rs`) | the inner service; the configuration behind an `Arc`, never written after `build` | `call`, `inner_mut`, `config`, `clone` | a request runs on the service it was opened with |
| `CorsFuture` (`cors.rs`) | origin future, `allow_origin_complete`, the service/body/parts not used yet, the inner future, the header buffer | `poll`, drop | no handler runs before the verdict, or for a refused origin; one call at most; no lost wake-up; every request answered; headers match the verdict; the inner service's answer passes |
| `AllowOriginFuture` (`allow_origin.rs`) | `Ready` with the result until it is taken, or a boxed future | `poll` | the verdict reaches the decision once and unchanged |
| `CorsBuilder` (`config.rs`) | one field per knob, `vary_pinned` | eleven setters, `try_build`/`build` | no credentials beside a policy that is `*`; `Vary` neither stale nor too small; a pinned `Vary` survives |
| `HeaderBuf` (`header_buf.rs`) | up to six pairs | `push`, `push_opt`, `iter` | its assertion never fires |
| `merge_headers`, `dedup_vary` (`cors.rs`) | none | merge the buffer into a response | the inner service's `Vary` is kept, no name is repeated, other headers are replaced; nothing is lost between the stack array and the heap |
| knobs (`allow_*.rs`, `expose_headers.rs`, `max_age.rs`, `vary.rs`) | a constant or a predicate each | `to_header`, `to_future`, `is_wildcard`, `varies_with_*` | mirrored values are HTTP tokens, all of them, in order |
| server loops (`examples/`) | a listener, a clone of `Cors` per connection; `multitenant.rs` a table of origins behind an `RwLock` | accept, serve, look an origin up | clones share nothing but the configuration; live policy changes; connections that end |

They interact by call (`call` clones the service and asks the policy), by poll and waker (the
executor polls `CorsFuture`, which polls the origin future and then the inner one), by shared
state (the configuration, read-only; the application's origin table, which changes), and by
dropping (a closed connection drops the future).

What is hard here: a future may be polled at any time and dropped at any time; the verdict of
an asynchronous policy arrives while the table it reads, and the wrapped service, change; the
inner future is created in a poll that may have to return `Pending`, and the next poll may come
from another task; connections clone the middleware and drop it under their futures; four flags, the verdict, an absent `Origin` and a WebSocket header
meet in one condition; the configuration is edited again after it was served; `Vary` is
deduplicated through a fixed array. `PROJECT.json` lists these hazards at their lines, with the
properties that cover each.

## Modules

**`CorsPolicy`** holds the pure part, no state: requests, configurations, the constructors of
every knob (with their panics), `validate`, `update_vary`, `to_future` and
`origin_list_matches`, each knob's header, `push_opt`, `compute_into`, `merge_headers`.
Operators have the names of the functions they translate.

**`CorsFuture`** is `Cors::call` and `CorsFuture::poll` under an executor. Per request it has
the stage of its future, the future's fields, its task (woken or not, and the futures that
hold its waker), and three ghosts: what the policy said, the services that were called, and
the answer. `Call` is `Cors::call` on one clone of the `Cors`. `poll` is one action per path through it:
`PollWaitsForOrigin` (`ready!` of the origin future returned `Pending`), `PollRefuses`,
`PollDispatches` (which calls the inner service and polls its future in the same poll, as the
code does), `PollInner`, `PollPreflight`. Around it: `OriginReply` and `InnerFinish` (the
application's futures resolve), `Clone`, `DropCors` and `InnerMut` (what a server does to its
clones), `ChangeTable`, `Drop`, `SpuriousWake` and `Move` (the future goes to another task,
which polls it; the wakers it left wake the old one).

**`CorsService`** is the promise, without futures or headers: a request is opened, gets one
verdict of the policy while it is open, is handled at most once, by the handler its clone
had when it was opened and only if the verdict admits it, and is closed once. `CorsFuture!KeepsPromise`
states that the futures implement it, under the mapping in `CorsFuture!Promise`. It is a promise
of safety only: that every request is answered is a property of the futures under the
executor (`EveryCallResolves`).

**`CorsBuilder`** is the life of a configuration: setters in any order, `try_build`, a clone
of the served configuration edited and rebuilt. Every built configuration is judged by the
headers it makes for each pair of requests.

**`HeaderMerge`** is `merge_headers` one pair at a time and `dedup_vary` one token at a time:
`Insert` and `AppendWhole` for the pairs that need no deduplication, `EnterDedup`, then `Skip`,
`PushStack`, `Spill` or `PushHeap` per token, and `LeaveDedup`, which appends what was written.
`Merge` starts on a response, and again on its result for a `Cors` around a `Cors`. It has what
`CorsPolicy!merge_headers` abstracts from: lines, separators, order, letter case, sizes in
bytes and the 128-byte array.

**`MirrorHeaders`** is `mirror_sanitized`: `FastScan` and `FastEcho` are the test and the echo
of the fast path, `SlowScan` and `SlowReturn` the filter. It has the white space, the empty
segments and the commas that `CorsPolicy!headers_header` abstracts from.

**`Lines`** has what the loops of these two modules compute: the elements a filter keeps
(`Kept`), a join (`Separated`), a sum (`Total`).

**`CorsPolicyProofs`** holds lemmas about the pure part. On it stand **`CorsBuilderProofs`**
(about `CorsBuilder`) and a chain about `CorsFuture`: **`CorsFutureProofs`** (the inductive
invariant), **`CorsBufferProofs`** (the buffer, and the action properties about it) and
**`CorsServiceProofs`** (the refinement and the answers). **`LinesProofs`** holds lemmas about
`Lines` and about loops; **`HeaderMergeProofs`** and **`MirrorHeadersProofs`** stand on it.
**`MCCorsFuture`, `MCCorsBuilder`, `MCHeaderMerge`, `MCMirrorHeaders`** give the constants
their values for TLC.

In these modules a definition whose name ends in `_Something` is a mutated form of the one it
is named after, kept to show that each property notices a plausible bug; nothing uses it.

### Abstractions

- Outside `HeaderMerge` and `MirrorHeaders` a header value is the set of its tokens; order,
  separators and case are left out. What the middleware does with *names* is kept: which
  header is pushed, in which order, what overwrites what. The two modules check that the
  sets are right (`MergeIsUnion`, `AgreesWithPolicy`).
- `is_valid_token` is the constant set `HttpTokens`: which characters a token may have is data.
- `parts`, `body` and `service`, which the code takes together, are one field. The fields a
  future copies from the configuration at `call` are read from `config`, which never changes.
- A predicate is a look-up of the request's `Origin` in the application's `table`, read at the
  instant the code calls it (at `call` for a synchronous origin predicate, when the boxed
  future resolves for an asynchronous one, when the lazy headers are computed for credentials).
  The origin and the credentials predicate share the table; predicates that look at other
  parts of a request are not modelled.
- The outcome of an inner call is any member of `Outcomes`, at the dispatch or any time later.
- `task[r].wakers` are the futures that hold a waker of the task that owns `r` now. A future
  keeps the last waker it was polled with, as the contract of `Future` requires, so `Move`
  empties the set.
- A panic in the application's code (a predicate, the inner service) unwinds through the task
  and drops the future, which is `Drop`; a panic of a constructor ends the builder.
- Polling a future after it returned `Ready` is against the contract of `Future`, and is not
  modelled.

## Runs

| Run | Instance | What it shows |
|---|---|---|
| `one` | one request out of ten kinds (allowed, disallowed, no `Origin`, an `Origin` that names nothing, an allowed origin beside a disallowed one, handshakes, preflights), eight configurations (each kind of policy; refusing or delivering; preflights delivered or not; `Vary` pinned to nothing; a fixed origin), two clones with one of two services each, two tables, an inner service that succeeds with CORS headers and a `Vary` of its own, or fails | all properties of `CorsFuture` at once: safety, liveness, refinement |
| `two` | two requests in flight (a read and a preflight), asynchronous policy that refuses, the table changing between their verdicts | the requests do not disturb each other |
| `builder` | up to four setter calls, with builds, failed builds, panicking constructors, clones and rebuilds between them; every constructor of every knob, lists that are empty or name `*`, alone or beside something else; judged by reads and preflights with and without an origin, an `Origin: *`, two methods, with or without requested headers, and with a `*` among them that other text accompanies | properties of every configuration built |
| `merge` | five inner responses (no `Vary`, an empty one, another letter case, `*`, two lines, a name twice; CORS headers of their own, also two of a name) and nineteen buffers, merged once or twice; the real sizes of the names the middleware derives, and names that fill the array exactly, exceed it by a byte, or exceed it alone | the bytes written by `dedup_vary` |
| `mirror` | every value of up to four segments, each empty or one of two tokens or a text that is none, with white space or without | both paths of `mirror_sanitized` |
| `credentials`, `exact` | a fixed origin with credentials | two statements of the documentation that the code does not keep, see below |
| `listed` | the instance of `builder` | a third one |

The instance of `one` is complete for a single request: every path of `call` and `poll` fires
in it, and it is polled before, between and after each event. A future keeps nothing of the
clone that made it but its service and the shared configuration, so two clones (`one`) are
enough to tell the right service from another's. Requests share only `config`, `service` and
`table`, so two of them (`two`, with one clone and one service, since `one` varies those) show
every interference there can be; the theorems cover any number of requests and clones. `MaxEdits = 4` lets a knob be set, built, cloned out, set back and
pinned or rebuilt: a stale `Vary` needs two setter calls with a build between them, a lost pin
needs two. The properties of built configurations compare requests in pairs and headers one by
one, so one or two values per knob distinguish what can go wrong. In `merge` the array can be
left empty, in the middle, exactly full and at every kind of first token by the sizes given;
two merges are one nesting, and a further one starts from a response like the second's. In
`mirror` a separator depends on whether something was written before, and the paths on the
first segment that is no token: three segments show every case, the run has four.

Properties of `CorsFuture`:

- `DispatchIsAdmitted`: no handler runs before the verdict, nor for a disallowed request the
  configuration refuses.
- `RefusalIsJustified`: conversely, nothing but a disallowed `Origin` is refused.
- `DispatchedOnce`: one inner call at most, and a poll always finds either a service to call or
  an inner future to poll (`expect("polled after completion")`).
- `OriginFutureAgrees`: the verdict is in the origin future until it is taken, once.
- `NoLostWakeup`: whoever returns `Pending` left a waker with a future that is not ready.
- `BufferFits`: six slots are enough, no header twice, and only `Vary` before the decision.
- `AnswerMatchesVerdict`: an allowed answer names the allowed origin whatever the inner service
  set; a disallowed one has no CORS header but the inner service's own; no `Vary` name is lost.
- `ListedOriginsOnly`: the same from the application's list on, without the ghost verdict: an
  `Origin` is granted exactly if it names at least one origin and none that is not listed; where
  disallowed requests are refused, no other one reaches a handler.
- `InnerAnswerIsKept`: an error of the inner service is the answer, with nothing merged into it; a
  response keeps its status and every header the middleware has none for; no error comes from
  elsewhere.
- `IdlePollIsHarmless` (action property): polls that decide nothing change nothing.
- `CredentialsFollowVerdict` (action property): credentials are granted in the deciding poll,
  after the origin was allowed, and only by what the table says then; an asynchronous verdict
  and the credentials predicate may read different tables, never an earlier or later one.
- `KeepsPromise` (refinement): one verdict while the request is open, one run at most of the
  handler it was opened with, one reply.
- `EveryCallResolves`, `AllowedIsDispatched` (liveness): every request is answered or dropped,
  every allowed one that is not a preflight reaches the service or is dropped.

Properties of `CorsBuilder`: `DerivedVaryIsEnough` (two requests a shared cache cannot tell
apart by a derived `Vary` get the same CORS headers; a cache stores neither answers to
`OPTIONS` requests beside reads nor preflights beside them, so a plain `OPTIONS` is compared
with nothing), `PinSurvives`, `CredentialsNeverMeetWildcard` (beside unconditional credentials
the allowed origin names no `*` and the lists of methods, headers and exposed headers are not
`*`, by whatever constructor and in whatever order they came in, unless the request itself sent
the `*` that is echoed: mirrored values are not validated against it, by design). The property
says of the three lists that they are not `*` alone, because a list that names `*` beside
something else does get past `validate`: that is the run `listed`.

Properties of `HeaderMerge`: `WrittenIsFiltered` (loop invariant: the output is the new tokens
in order with single separators, across the spill), `SpillsOnlyWhenFull` (the slices are in
bounds, the length counter is the bytes written, and the heap is used only for what does not
fit), `MergeIsUnion` (a whole merge is `CorsPolicy!merge_headers`), `VaryLinesDoNotRepeat` (no
appended line repeats a name of an earlier one, nested middlewares included).

Properties of `MirrorHeaders`: `MirrorIsFilter`, `AgreesWithPolicy`. In these two modules the
functions end, so a state without a successor is no deadlock.

### Fairness

`LiveSpec` assumes that the executor eventually polls a woken task (the contract of
`std::task::Wake` with any executor; weak fairness of `Poll`), and that an application's future
on which the present owner left a waker eventually resolves. The latter is strong fairness:
`Move` takes the waker away until the new owner polled, so the condition may come and go, but
an inner future makes progress all the same. Nothing is assumed of a future that was never
polled, of callers, moves, spurious wakes, or of changes to the table, the services and the
clones: the middleware's part, leaving the wakers, is what liveness depends on.

### Where code and documentation differ

- `credentials`: `AllowCredentials::to_header` documents that without an `Origin` header
  credentials are never emitted; `AllowCredentials::yes()` emits them anyway, for a fixed
  origin and for a short-circuited preflight.
- `exact`: `AllowOrigin::exact` is documented to allow a single origin; it allows every
  request and announces that origin, so `deliver_non_allowed_origin(false)` rejects nothing
  (a browser still refuses to share the answer).
- `listed`: `CorsBuilder::try_build` documents an error for `allow_credentials: true` combined
  with `*` in any of four knobs. `is_wildcard` compares the whole value, so
  `AllowMethods::list`, `AllowHeaders::list` and `ExposeHeaders::list` with `*` and another name
  pass, and the names are served beside the credentials. (Beside credentials Fetch reads such a
  `*` as an ordinary name, so what is served grants no more than it lists.)

## Proofs

For all values of the constants TLAPS checks:

| Theorem | Property |
|---|---|
| `TypeCorrect` | `CorsFuture!TypeOK` |
| `NoDisallowedDispatch` | `DispatchIsAdmitted` |
| `OnlyDisallowedAreRefused` | `RefusalIsJustified` |
| `SingleDispatch` | `DispatchedOnce` |
| `VerdictKept` | `OriginFutureAgrees` |
| `WakersRegistered` | `NoLostWakeup` |
| `BufferNeverOverflows` | `BufferFits` |
| `IdlePollsAreHarmless` | `IdlePollIsHarmless` |
| `CredentialsAreDecided` | `CredentialsFollowVerdict` |
| `PromiseKept` | `KeepsPromise` |
| `AnswersMatchVerdicts` | `AnswerMatchesVerdict` |
| `OnlyListedAreGranted` | `ListedOriginsOnly` |
| `InnerAnswersPass` | `InnerAnswerIsKept` |
| `BuilderTypeCorrect` | `CorsBuilder!TypeOK` |
| `PinIsKept` | `PinSurvives` |
| `NoWildcardWithCredentials` | `CredentialsNeverMeetWildcard` |
| `DerivedVarySuffices` | `DerivedVaryIsEnough` |
| `HeaderMergeTypeCorrect` | `HeaderMerge!TypeOK` |
| `StackIsSound` | `SpillsOnlyWhenFull` |
| `DedupIsFilter` | `WrittenIsFiltered` |
| `MergeImplementsPolicy` | `MergeIsUnion` |
| `NoRedundantVary` | `VaryLinesDoNotRepeat` |
| `MirrorTypeCorrect` | `MirrorHeaders!TypeOK` |
| `BothPathsFilter` | `MirrorIsFilter` |
| `MirrorAgrees` | `AgreesWithPolicy` |

These are all the safety and action properties of the passing runs, and the refinement.

The assumptions are the named ones of the modules: the constants have the types the code gives
them; `Absent` and `Running`, which stand for `None` and for a future that is not ready, are
neither values, lines, outcomes nor configurations; a separator and white space are no tokens,
and a token has at least one byte. The sizes and the lower-case forms of tokens, the length of
a header, the number of lines and the depth of the nesting are arbitrary.

**The futures.** None of the first six is inductive by itself. A dispatch is admitted because
the verdict it reads is the policy's (`OriginFutureAgrees`), which holds until the result is
taken, which `DispatchedOnce` ties to `allow_origin_complete`; and the type of `calls` needs
the future to hold a service whenever it has not decided. `CorsFutureProofs!IInv` is the
conjunction of the six with `IdleIsUncalled` (nothing was called for a request not yet made).
It is a conjunction over requests (`GoodIsIInv`), a step of one leaves the others alone
(`OthersAreUnchanged`, `GoodFrame`), and there is one lemma per action. The rest is relative
to it:

- `BufferFits`: an undecided future holds `Vary` alone, the decision adds the allowed origin,
  and the lazy headers at most four more, none of them twice.
- The action properties: every step but the call and the three deciding polls keeps headers
  and calls (`Keeps`); before the lazy headers a buffer holds `Vary` and the allowed origin at
  most, so that credentials in it are the knob's answer at this step (`LazyCredentials`).
- `KeepsPromise` needs one invariant more, `KindInv`: the variant of a future is the kind of
  its request, a preflight the middleware answers has no service and was never called, and no
  verdict comes before the call. Each action then maps to one of `CorsService` or to none
  (`PromiseStep`): the deciding polls to `Handle`, `CloseHandled` and `CloseUnhandled`,
  `OriginReply` to `Decide`, `Drop` to `Abandon`.
- `AnswerMatchesVerdict` says nothing until the request is done. `AnswerInv` carries the
  verdict there: what the origin future will yield is the value of an allowed origin
  (`Expects`), a decided buffer shows the verdict (`Told`), and `merge_headers` makes of such a
  buffer headers that match it (`ShownMatches`), whatever the inner service answered.
- `ListedOriginsOnly` is `AnswerMatchesVerdict` and `DispatchIsAdmitted` once the verdict is
  known to be what the list says. Under a list it is given at the call and never changes
  (`Judged`), and every other step remembers the verdict and the request (`Recalls`).
- `InnerAnswerIsKept` says nothing before the answer. A future that was dispatched is done when
  its inner future is, in the same poll (`Relayed`), and `merge_headers` leaves alone what the
  buffer has no header for (`InnerAnswerRelays`).

**The builder.** `validate` looks at flags and wildcards but never into a list, and
`update_vary` runs at a build only, so the properties of served configurations need an
invariant about builders too. `CorsBuilderProofs!IInv` says of a builder and of the served
configuration that the origin list holds no `*`, and that a fixed origin holds it only if it is
all of it (`Checked`: the constructors' assertions), that a builder whose
`Vary` was pinned has that `Vary`, and that the served configuration was validated and has the
`Vary` that was pinned or the one derived from it. `MergedIsHeld` and `ComputeIntoContents`
then trace each header of an answer to the knob it came from.

**Sequences.** `Kept` and `Total` are recursive functions, and what they compute is a matter of
induction over the length of a sequence. The library's induction theorems take a predicate as
parameter, which the provers cannot instantiate; `LinesProofs` uses a set instead. A set of
numbers that is not empty has a least one (`LeastNumber`), so two functions on `0..n` that start
alike and go on alike are equal (`Induction`, `RecursionIsUnique`), and the function a
recursive definition asks for exists (`Recursion`). From this follow the lemmas the rest cites:
what `Kept`, `Separated` and `Total` make of a sequence with one element more (`KeptAppend`,
`SeparatedAppend`, `TotalAppend`), and what is in the result (`KeptRange`, `SeparatedRange`). A
loop is described by what it has done and what is left of its sequence (`Done`, `Left`); an
iteration moves one element (`LoopStep`).

**The merge.** `HeaderMergeProofs!IInv` has three layers. `Bounds`: in the loop there is a Vary
pair to merge, the tokens left are the end of the value's, and `SpillsOnlyWhenFull` holds, which
makes the flag `needs_sep` and the test of the room correct (`PushFacts`): `len > 0` says that
something was written only because no token is empty.
`Filtered` adds `WrittenIsFiltered`: each of the three ways to write a token appends it to
`Written`, wherever that is at the moment (`PushFiltered`). Then, for the pairs: `MergeIsUnion`
and `VaryLinesDoNotRepeat` say nothing until the merge is over, so `MergeInv` and `NoRepeat` say
the same of the pairs merged so far. A pair changes what `CorsPolicy!merge_headers` says by one
step (`MergeOneMore`), and so it does the lines (`PairMerges`); the line left by `dedup_vary`
names what the value names and the response does not (`WrittenNames`). With `MergeIsUnion`
proved, the abstract `merge_headers` in the theorems about `CorsFuture` stands for the loops of
the code.

**The mirror.** `MirrorHeadersProofs!IInv` says that the fast path has accepted every segment it
looked at and written nothing, and that the slow path has written the tokens of those it looked
at. When the fast path answers, filtering and trimming change nothing (`KeptAll`); both paths
therefore answer the same, and its tokens are those `headers_header` keeps (`FilterAgrees`).

Only model-checked is liveness under fairness (`EveryCallResolves`, `AllowedIsDispatched`) and
the absence of deadlock, which rest on `ENABLED` and are out of the prover's reach.

## Not modelled

- Formatting of seconds, character classes, `Debug` implementations, the messages of
  `ConfigError`, header values that are not valid bytes: data no property tells apart.
- Request and response bodies, and everything else of a request: the middleware moves them.
- hyper's connections and sockets: external; `CorsFuture` has what they do to the middleware
  (clone, call, poll, hand over, drop).
- A cache in front of the middleware: `DerivedVaryIsEnough` compares every pair of requests
  such a cache could confuse, so a history of stores and hits shows nothing more.
- `origin_list_matches` token by token: its loop has no state but a flag, and the set form
  (`origin # {}`, every token listed) is the loop's result.
- The lock around the table of `multitenant.rs`: a reader sees one content of the table, which
  is what reading `table` in one step says.

## Plan

The model is complete in this sense, and all of its safety is proved. Nested `Cors` need no
theorem of their own: those about `CorsFuture` hold for any answer of an inner service, an inner
`Cors` among them, and those about `HeaderMerge` for any number of merges. What is left is to
shorten proofs, and to follow the code.
