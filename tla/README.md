# Formal models of traefik-oidc-auth

TLA+ models of the Traefik OIDC authentication plugin (`src/src`), checked with
TLC on small instances and, for all of its safety properties, proved with TLAPS for every
value of the constants. Paths below are relative to the repository.

## The system

The plugin is a Traefik middleware. Every HTTP request runs in a goroutine of its
own through `ServeHTTP`; an instance is built for each router that uses the
middleware. What the requests share is what makes the program hard.

| Component (source) | State | Operations | Shared with / called by |
|---|---|---|---|
| Request handling (`main.go`) | the `CallbackURL` object, header templates | `ServeHTTP`, `handleCallback`, `handleLogin`, `handleLogout`, `handleUnauthenticated`, `handleUnauthorized`, redirects | all requests of an instance |
| Session life cycle (`session.go`) | none | `getSessionForRequest`, `validateSessionTicket` (validate, renew, validate again), `storeSessionAndAttachCookie` | `ServeHTTP`; storage, provider, cookies |
| Session cookie (`cookie.go`) | the browser's cookies | `setChunkedCookies`, `readChunkedCookie`, `clearChunkedCookie` | every response and request |
| In-memory storage (`session/inMemorySessionStorage.go`) | `entries` under an RWMutex | `StoreSession`, `TryGetSession`, `DeleteSession`, eviction of expired entries | all requests |
| Redis storage (`session/redisSessionStorage.go`) | the server's keys | the same three, as `SET EX`, `GET`, `DEL` | Redis client |
| Redis client (`session/redisClient.go`) | process-wide registry of pools, semaphores, idle stacks, connections | `acquire`, `release`, `take`, `put`, `execute` with one retry, `closeIdle` | Redis storage of every instance |
| Cookie storage (`session/cookieSessionStorage.go`) | none: the ticket is the session | encrypt, decrypt | session life cycle |
| Discovery (`main.go`) | `DiscoveryDocument`, `toa.Lock` | `EnsureOidcDiscovery` | every request |
| Key cache (`oidc/jwks.go`) | `RsaKeys`, `EcdsaKeys`, `CacheDate`, a lock | `EnsureLoaded`, `Keyfunc` | every validation |
| Provider requests (`oidc.go`) | none | `exchangeAuthCode`, `renewToken`, `validateTokenLocally`, `introspectToken`, `getUserInfo` | callback, session life cycle |
| Login state (`oidc/state.go`) | none | encrypted `state` parameter | redirects, callback |
| Authorization rules (`authorization.go`) | none | `isAuthorized` | callback, `ServeHTTP` |
| Bypass rule (`rules/`, `predicate/`) | the compiled rule | `ParseRequestCondition`, `Match` | start-up, `ServeHTTP` |
| Redirect URIs (`utils/utils.go`) | none | `ValidateRedirectUri`, `EnsureAbsoluteUrl` | login, logout |
| Configuration, error pages, logging, encryption | none at run time | parsing, output | start-up, handlers |

Hard behaviours, and what makes each part correct:

- **In-memory storage.** A lookup reads under the read lock and removes under the
  write lock; `now` is older than both. Correct: it is a linearizable store whose
  entries live for the session lifetime, and nothing but a delete drops a live one.
- **Redis client and storage.** Callers compete for slots and for pools; servers die,
  answer late and answer with errors; a failed command on a reused connection is sent
  again, and the server may execute both copies, late. Correct: the limits hold, slots and
  connections are neither leaked nor shared, a reply reaches the command it answers, every
  call returns; what was stored is found, what was deleted stays deleted - up to the calls
  that were sent twice or have failed.
- **Discovery and keys.** `DiscoveryDocument` is looked at without the lock, and the key slices
  are read without one while another request replaces them; the provider rotates its keys.
  Correct: discovery happens once, reloads are limited, keys that are long published are
  accepted and keys long withdrawn are not.
- **Session life cycle.** Requests of one browser load, renew, store and delete the
  same session at the same time; the provider may rotate refresh tokens; storage,
  provider and templates fail between any two steps. Correct: users keep their
  session, the provider's current refresh token is not lost, older renewals never
  overwrite newer ones, a logout is final, what is forwarded satisfied the rules.
- **Session cookie.** A ticket changes its number of chunks while requests with the
  old cookies are on their way. Correct: what the browser sends is one whole ticket,
  and the one it was given last - or none, after the late denial of an older request.
- **Redirects.** Several tabs share one session cookie, one code verifier cookie and,
  with an absolute `CallbackUri`, one URL object. Correct: a tab ends at its page, a
  login fails only if it was disturbed, challenges and redirects come to an end.
- **Decisions about one request.** Rules are rewritten by reflection and by pushing
  negations down, claims come as arrays and scalars in any order, URIs are split and
  matched by hand. Correct: the decision is the one the configuration asks for.

## Modules

| Module | Models |
|---|---|
| `SessionStore` | The abstract contract of `SessionStorage` (`session/sessionStorage.go`): each call takes effect at one instant between its start and its return |
| `InMemorySessionStorage` | The in-memory storage, one action per critical section; instantiates `SessionStore` with `live <- entries` |
| `RedisClient` | Registry, pools, connections, callers and the Redis server |
| `RedisSessionStorage` | Redis storage: extends `RedisClient` with the server's sessions, the content of replies, expiry, and what each call asks |
| `Jwks` | Discovery and the key cache, their concurrent readers, and a provider that rotates keys |
| `Middleware` | Concurrent requests of a browser, session storage, provider, logout |
| `ChunkedCookie` | The session cookie in one or several parts |
| `LoginFlow` | Redirects of logins, challenges and logouts for several tabs and hosts |
| `Authorization` | `isAuthorized`, one step per node |
| `RequestCondition` | The bypass rule: parsing, negation, compiling, matching; and its meaning as a Boolean expression |
| `RedirectUri` | Validation of `redirect_uri` with wildcards; and what an entry of the list stands for |
| `Gate` | `ServeHTTP` for one request: composes the three modules above |
| `InMemorySessionStorage_proofs`, `RedisClient_proofs`, `RedisSessionStorage_proofs`, `Jwks_proofs`, `Middleware_proofs`, `ChunkedCookie_proofs`, `LoginFlow_proofs`, `Gate_proofs` | Theorems |

An `MC` module defines the symmetry and the configurations of a model; each `.cfg`
is one question. `Middleware` and `LoginFlow` have a variable `config` that is chosen
from `Configurations` in the initial state and never changes, so that one run covers
several configurations of the plugin; `Gate` chooses a configuration and a request of one of its `Families`.

Definitions named `..._Fault` are no part of any specification. Each is a definition
as a plausible mistake would have it (a dropped guard, a missing reset, an
off-by-one); put in place of the right one it makes TLC refute the property listed
with it in `PROJECT.json`, which shows that the property can fail.

### InMemorySessionStorage

`clock` is `storage.now()`; `entries` the map; `call` and `pc` say where each caller
is. `Begin` is the start of a call including its read of the clock; `StoreSession`,
`DeleteSession`, `ReadAbsent`, `ReadLive`, `ReadExpired` are the first critical section;
`RecheckRefreshed` and `RecheckRemove` the second one of a lookup. `StoreSession`
includes `evictExpiredLocked`. Tickets that are not UUIDs are refused before the map
is touched and are left out. `SessionStore` allows a store to drop any expired
sessions and a lookup to drop the one it misses; the storage's choices are among these.

### RedisClient

`registry` and `recency` are `registry.pools` with `inUse` and the order of
`lastUsed` (the pairs of keys of which the first was used before the second); `pools` has the semaphore's count and the stack of idle connections;
`conns` has both directions of every connection. A caller passes through
`slot, pop, dial, write, read, put, free, release`, the points of
`redisPool.execute` where another goroutine or the server may act. `Acquire*` is one
step under `registry.mu`. Deadlines are steps that are enabled while their operation may
wait. `Serve` and `Drop` are the server; it executes a command it has received
even after the client has closed the connection. RESP is abstracted to the number
of the command that is answered; a malformed reply is a failed command. `AUTH` and
`SELECT` are part of `Dial`.

### RedisSessionStorage

Extends the client: every step of a caller is a client step, and `Execute` is the client's
`Serve` with its effect on the server's sessions. `db` has the sessions of each
configuration (Redis address, database, prefix), `payload` the reply on a connection. A session's content is the number
of the call that stored it, which is all that the properties tell apart; `Expire` ends its
`EX`. `log` has the command of each call and how it ended: "clean" (one
attempt), "retried" or "failed". The module is not checked against `SessionStore`, which it does not implement: a `SET`
that was sent twice may take effect after its call has returned. Its three properties say what is left of that contract.

### Jwks

A request passes through `discover, discovering, publish` (`EnsureOidcDiscovery`), `ensure,
fetch, decode, install` (`EnsureLoaded`) and `scan, compare, take` (`Keyfunc`: the length of the
slice, the kid of an entry and the entry are three reads without the lock). `discovering`
and `loading` are the two locks. `BeginDiscovery` makes the fresh handler, `DiscoverySucceeds`
publishes the document and `PublishUrl` the URL of its keys: requests that find the document between
the last two fetch from an empty URL. `Fetch` is the provider's answer, with the keys it publishes at that
moment; `answer` keeps it, with its `date`, until it is installed, while the provider may rotate its keys. `InstallRsa` and `InstallEcdsa` are the two assignments that readers see one
at a time. `attempt` is 2 when `validateTokenLocally` has forced a reload. The
provider publishes one of `KeySets`; `provider.since` is when each key was last published or withdrawn.
Time is counted in ages of the cache: `MinCache` is five minutes, `MaxCache` six hours. `CacheDate` is taken at the installation, up to `Latency` after the
answer: a bound of the environment, for the HTTP client has no timeout. A token is valid, expired
(which ends the validation without a second attempt) or invalid.

### Middleware

A request is cut where it leaves the process: `load` (storage), `validate` and
`revalidate` (provider or token), `renew`, `authorize`, `store`, `forward`,
`exchange`, `finish`, `respond`. Tokens are numbered in the order of issue, a session is
named after the token of its login. `age` abstracts time: a token is fresh, past the
renewal threshold, or over. `jar` is the browser's cookie: with server-side storage
it holds the id only, else the session. Responses reach the browser in any order.
The answers of `handleUnauthenticated` (redirect, 401, automatic) are all
"unauthenticated": they have the same effect on the state here, and `Gate` tells them apart. `Checked` is the token that `validateToken`
looks at: the one issued last or, with `keptIdToken` (`TokenValidation` is `IdToken` and the provider renews without a new one,
`src/src/session.go:132-140`), that of the login. `TryGetSession` and `Results` give a value and whether there is an error, and `Refused` goes on from both.
No storage returns neither (`src/src/session.go:99-101` can not be reached), so it is only introspection that refuses without an error. A request
that is forwarded after a failed store keeps the outcome "error" of its 500. `ended` and `final` are
history: sessions that a logout has deleted, and those it deleted while no other request used them.

### ChunkedCookie

A ticket is a number, its only attribute the number of 3072-byte chunks. `Read` is
`readChunkedCookie` and the decryption of what it concatenates: parts that do not make up
one ticket are unreadable. A response's cookies take effect together. `latest` and `overtaken` are history: the ticket attached last, whose
session nobody has ended, and whether the denial of a request sent before it has expired cookies of its form since. The denial of a request
that came with another ticket, or with none, does not change what the browser ought to present.

### LoginFlow

A tab is at a page, at the provider, at the callback, and between the two halves of
`handleCallback` (code exchanged, session stored). `query` is `CallbackURL.RawQuery`:
`GetAbsoluteCallbackURL` returns the shared object itself when the URI is absolute, and
`doubleRedirectToProvider` writes it. `verifier` is the code verifier cookie at each host.
`disturbed` is history: tabs whose code verifier, at the host of their callback, another tab has set or removed. The target of a logout, which `Gate` determines (`PostLogoutRedirectUri` or a validated
parameter), is named after the page that was asked for. The provider accepts only the registered `redirect_uri`.

### Gate, Authorization, RequestCondition, RedirectUri

`Gate` follows one request: `Create` (`New` compiles the rule or refuses to start), `Arrive`
(the rule is matched), the routes of `ServeHTTP`, `Authorize` (the steps of `Authorization`),
`Decide`. How a session came about is an input: none, one of the cookie with its cached
authorization result, or one of a header. A rule is a syntax tree as Go's parser makes it, written as a function from positions (the path of
left and right turns from the root) to nodes; `IsExpression` says which of these are trees. `Evaluate`, `Negate`, `Join` and `Parse` are the walk by reflection
(`predicate/parse.go`), `Invert` is `invert` (`rules/parser.go`), `AddRule` and `Match` are `requestCondition.go` with the checks and matchers of
`httpFuncs.go`. Its meaning, `IsCondition` and `Holds`, is read off the syntax tree without any of these. A regular expression is a literal that occurs
anywhere, or one that does not compile. In `Authorization`, JSON paths are reduced to the nodes they select and values to
their texts; `Satisfied` says what the assertion asks for without the loop. In `RedirectUri` a URI is a sequence of tokens, ":" "/" "/" being three of them;
`Registered` says what an entry of the list stands for: `Parts` takes a URI apart by what may not occur in a scheme or an authority (`Divides`), `Below` says
where a path ends up, without the code's splitting and trimming. `IsHtmlRequest` is the set of answers it may give: `sort.Slice` promises no order to types of the same weight.

## Runs

All passing runs explore their complete state space.

| Run | Instance | Distinct states | Shows |
|---|---|---|---|
| `in_memory` | 3 callers, 2 ids, 2 contents, clock 0..2, lifetime 1 | 287,866 | `TypeOK`; `ImplementsSessionStore`: the storage refines `SessionStore`; `LiveEntriesStay` |
| `redis` | 2 callers, 2 keys, 1 registered pool, 1 connection per pool, 1 idle, 3 calls | 124,561 | `ConnectionLimit`, `SlotsAreOwned`, `NoCrossTalk`, `ConnectionsAreOwned`, `InUseIsExact`, `EveryCallReturns` |
| `redis_storage` | 2 callers, 1 configuration, 2 connections, 2 idle, 1 id, 3 calls | 2,341,518 | `DeletedStaysDeleted`, `FoundIsCurrent`, `StoredIsFound` |
| `jwks` | 2 requests, 2 RSA keys, 1 ECDSA key, 2 key sets, 4 tokens, `MinCache` 0, `MaxCache` 1, `Latency` 1, clock 0..3 | 1,282,026 | `SettledTokensAreAccepted`, `WithdrawnKeysAreRefused`, `LoadsAreSpaced`, `DiscoveryIsFinal` |
| `sessions` | 2 requests, 2 or 3 tokens, nine configurations | 1,103,490 | `StaysLoggedIn`, `RefreshTokenIsKept`, `CleanLogoutIsFinal`, `ForwardedIsEntitled`, `SessionsNeverRollBack` |
| `cookie` | 3 requests, 3 tickets of 1 to 3 chunks | 125,654 | `NeverTorn`, `PresentsLatest` |
| `login` | 2 tabs, 2 hosts, five configurations | 476,277 | `ReturnsToRequestedPage`, `UndisturbedLoginsSucceed`, `EveryNavigationEnds` |
| `gate` | five families, 105,429 initial cases | 560,744 | `VerdictMeetsAssertions`, `RuleMeansWhatItSays`, `ForwardedIsAllowed`, `EntitledIsForwarded`, `TargetsAreRegistered`, `RegisteredIsFollowed` |
| `inactive_token`, `logout_race`, `cookie_logout`, `callback_url` | | | disagreements, below |

### Bounds

- *In-memory storage.* Three callers put a third one between the two critical sections of a
  lookup and a store. Clock 0..2 with a lifetime of 1 lets a session expire, be stored again and
  expire again.
- *Redis client.* Two callers over one connection: one waits. Two configurations over one
  registered pool force evictions and refusals. Three calls reach a retry on a stale connection that an
  earlier call has left idle.
- *Redis storage.* Three calls are a store, a delete and a lookup, with two connections on which a copy of
  one of them can wait. One configuration and one session: configurations meet in the registry only, and that is run `redis`;
  sessions do not meet at all.
- *Keys.* Two requests are the reader and the one that reloads, or two that fail to find a key. Going from one key set to the other
  and back rotates a key in, takes one away, shortens the slice a reader is in, and adds and removes the keys of an algorithm. With `MinCache` 0 and `Latency` 1
  a key is long published after two ticks and a withdrawn one too old after three; clock 0..3 contains both, an answer that is installed a tick
  late, and a rotation in between.
- *Sessions.* Two requests are the least that race, and the races here are between a pair: one
  request between the load and the store of another, or two renewals. Two tokens are
  enough for a login and one renewal that overtakes another request; three add a second
  renewal, or a second login. The configurations: `Rotating` and `Reusable` refresh tokens; `Ending` and `EndingFails`, users who log out and come back from the provider, also while the storage fails (2 tokens); `KeptIdToken`, renewals without a new IdToken; `InCookie`, the session in the cookie (without logouts: there `DeleteSession` does nothing, and no property speaks of the cookie after one); `Sticky`, a cached authorization with introspection and a bypass rule; `OwnTokens`, clients with tokens of
  their own and faults of provider and templates; `Failing`, every fault.
- *Cookie.* The chunk counts include a ticket that grows, one that shrinks and the step between one cookie and several.
- *Logins.* Two tabs and two hosts include another tab in every gap of a login, and a login that starts away from
  the callback: `Separate` (relative `CallbackUri`), `Shared` (absolute, no PKCE), `Routers` (an instance per router, with logouts), `QuietRouters` (without) and
  `OneRouter` (one instance for all hosts, whose double redirects write to the URL that every login uses).
- *Gate.* All rules of up to three operators over matchers that hold, that do not, that have a wrong number or sort of arguments or do
  not compile; one assertion with up to three nodes and two assertions with up to one node per claim; redirect URIs of eight sites (one of them none)
  and fifteen paths against entries of thirteen site and eleven path patterns; every route with each session, behaviour and Accept header.

Each listed `_Fault` is caught within these bounds.

### Conditions inside properties

- `StaysLoggedIn` speaks of reusable refresh tokens: with rotating ones the loser of two concurrent renewals is
  refused by the provider, and the code has no coordination that would prevent it; and it leaves out storage and provider failures. It names the responses that do take a session from the browser: a new
  login, a logout and the callback after it, the refusal of a session whose kept IdToken is over, and the late response to a request that was sent before the browser had the session. `RefreshTokenIsKept` leaves out
  faults, introspection (which may refuse the token it has just got), kept IdTokens and requests that are refused after a renewal (see *lost refresh* below).
- `PresentsLatest` holds while tickets do not change between one cookie and several; `cookie_logout` shows what happens otherwise. It allows for no ticket instead of the
  latest only where `overtaken` tells of a late denial that could expire it: of a request that came with no cookie if the latest ticket has one, of one that came with another ticket in any case.
- `ReturnsToRequestedPage` excludes double redirects (*swapped pages*), `EveryNavigationEnds` logouts: each new
  session may be challenged once more.
- `UndisturbedLoginsSucceed` excuses a login that another tab has disturbed, and, where all hosts share one callback URL object, one
  that finds the query of a double redirect in it (`callback_url` below): the `redirect_uri` of the token request is then not that of the login.
- `DeletedStaysDeleted`, `FoundIsCurrent` and `StoredIsFound` exempt calls that were sent twice or have failed: the server may
  execute a copy of their command after any later call. They relate calls of which one had returned before the other began.
- `SettledTokensAreAccepted` is about valid tokens whose key had been published for more than `MinCache` and `Latency` when the request
  arrived and stays published, and leaves out a provider that fails, a request that arrives between the document and
  the URL of the keys, and readers that are overtaken by an installation on their second attempt or beyond the new end of the slice (`Overtaken`).
- `RefusedIsUnsatisfied` (in `VerdictMeetsAssertions`) and `EntitledIsForwarded` leave out claims with an array that misses a value of `AllOf`
  (`Hidden`) and values listed twice in `AllOf` (`Repeats`).
- `TargetsAreRegistered` and `RegisteredIsFollowed` know of relative URIs with "://" in them (`HidesScheme`), of which the code takes the text before it for a scheme. Such a URI,
  or one matched against such an entry, may be refused although the entry stands for it (`RegisteredIsFollowed` leaves it out), and an entry like `/v?http://*` accepts what begins like it up to the "://"
  (`Misread`): more than the entry stands for, but still a relative URI.

### Fairness

`RedisClient!FairSpec` has weak fairness of a caller's own steps. Each ends by
itself or by a deadline the code sets (`take`'s timer, dial, write and read
deadlines), so a caller in a call always has a step that stays enabled. Nothing is assumed
of the server. `LoginFlow!FairSpec` has weak fairness of each tab's redirects and responses:
a browser follows redirects, and the handlers answer. Users need not do anything.
The other modules state safety only.

### What the code does otherwise

Four runs show a disagreement between the code and what the repository says of it
(quoted in `PROJECT.json` under `findings`):

- `inactive_token`: with introspection an inactive token gives no session and no
  error, and `ServeHTTP` (or `getSessionForRequest`) calls `err.Error()` on nil.
- `logout_race`: a request that is renewing a session stores it again after a logout has
  deleted it. `CleanLogoutIsFinal` shows that a logout with no such request in flight is final.
- `cookie_logout`: when the ticket has changed between one cookie and several, clearing
  one form uncovers what was left of the other.
- `callback_url`: after a double redirect the shared callback URL keeps its query, and later
  logins send it as part of `redirect_uri`, which a provider refuses. A login that is under way at that moment fails as well.

Met while modelling, present in the models, and not run as a question of their own:

- *Lost refresh.* `ServeHTTP` answers an unauthorized request before it stores a
  session it has just renewed (`src/src/main.go:156-171`). With rotating refresh tokens the new
  one is lost, although `src/website/docs/getting-started/authorization.md:95` lets such a session pass
  later "without re-login". In `Middleware` with `checkOnEveryRequest` and mixed
  entitlements, `RefreshTokenIsKept` fails. The same happens when a header template or the storage fails.
- *Late denial.* The answer to a request that came without a session expires the session cookie, or, to one with an old ticket in parts, its parts
  (`src/src/main.go:182-185`, `src/src/cookie.go:94-116`). When it is late it takes the session of a login that was completed in between from the browser.
- *Kept IdToken.* With `TokenValidation` `IdToken` and a provider that returns no new one, each renewal validates the IdToken of the login again
  (`src/src/session.go:132-142`): the session ends at the login page when that is over, whatever the refresh token is worth.
- *Bypass and 403.* A public request that carries a valid session which fails the rules is
  refused (`src/src/main.go:156` does not look at `isPublic`), whereas
  `src/website/docs/getting-started/bypass-authentication-rule.md:10` forwards every match.
- *Swapped pages.* Two requests in `doubleRedirectToProvider` of one instance may both be sent to
  the callback with the state of one of them (`src/src/main.go:823-825`).
- *Host-only session cookie.* With an absolute `CallbackUri` on another host and no
  `SessionCookie.Domain` (`src/src/session.go:240`), the page's host never gets the session and
  each request starts a new login; `src/website/docs/getting-started/callback-uri.md:48` calls the shared
  domain an optimization. Run `login` therefore sets a shared domain.
- A failing store of a renewed session writes a 500 and forwards the request all the same
  (`StoreFails`).
- *Panic of a reader.* `findRsaKey` and `findEcdsaKey` index the shared slice without the lock
  (`src/src/oidc/jwks.go:173`): a shorter one that is installed in between makes the request panic (`Compare`, `Take`).
- *Keys without a URL.* A request that finds `DiscoveryDocument` before `Jwks.Url` is set (`src/src/main.go:75-76`) fails (`ReloadFails`).
- *One node of many.* A comment of `isAuthorized` promises to check "whether for one of the nodes all assertions hold", but the
  first array that misses a value of `AllOf` ends the search (`break matches`): a later array that holds all is not looked at, and
  neither are later scalars. A value listed twice in `AllOf` is never found twice among scalars.
- *redirect_uri of a page.* `handleLogin` validates `redirect_uri` whichever request it answers (`src/src/main.go:644`): an unauthenticated visit to a page with
  a query parameter of that name gets a 400.
- *"://" in a query.* A relative URI whose query contains "://" is taken for an absolute one (`splitSchemeAuthorityPath`,
  `src/src/utils/utils.go:328`) and does not match a relative entry with a wildcard; an entry of this kind matches others of the same "scheme".

## Proofs

Each proof module extends its component and proves its theorems from the component's constant assumptions alone, along an inductive invariant `IInv`.

### InMemorySessionStorage_proofs

For any sets of callers, ids and contents, any lifetime and any bound of the clock, from `InMemoryAssumption`:

- `TypeCorrect`: `Spec => []TypeOK`
- `LiveEntriesAreKept`: `Spec => LiveEntriesStay` - no step of any caller drops a session before
  its expiry, except a delete of it
- `Refinement`: `Spec => ImplementsSessionStore` - the storage implements `SessionStore`

The inductive invariant is `TypeOK /\ CallsAgree`. `TypeOK` alone does not carry the refinement:
`CallsAgree` ties `pc` to `call`: a caller between its two critical sections is in a
pending lookup, one that is idle has no call, one that returns has a result, and `now` is never
later than the clock. `ExpiredIsOver` derives from the last part that what a caller
evicts with its old `now` has expired by the clock as well, which is why
evicting late is harmless: the heart of `LiveEntriesAreKept`. For `Refinement`, `StepRefines`
takes every action to a step of the abstract store or a stutter: `ReadExpired` stutters, the
second look is the abstract `Find` or `Miss`, and a store is `Store` with the expired entries as
the ones it drops (`RemoveOne`, `SameExpiry` relate the two ways of writing the map).

### RedisClient_proofs

For any callers, keys, pools, connections, limits and number of calls, from `RedisClientAssumption` (no constant set need be finite):

- `TypeCorrect`, `EverySlotIsOwned` (`SlotsAreOwned`), `CallersInUseAreCounted` (`InUseIsExact`), `RepliesAreNotConfused` (`NoCrossTalk`),
  `EveryConnectionIsOwned` (`ConnectionsAreOwned`) and `ConnectionsAreLimited` (`ConnectionLimit`)

These hold each other up, hence one invariant for all of them. A call works with the pool its key is registered with (`CallersAgree`),
because a pool is evicted only when `inUse` is zero and `inUse` counts exactly its callers (`RegistryAgrees`): so `release` finds the entry that
`acquire` counted in. The slots taken are those of the callers between `take` and `put` (`SlotsAgree`). An idle connection has nothing in transit in
either direction (`IdleAgrees`), which is what `put` establishes by keeping only connections that have been read from, and a connection in use
carries at most the command of its caller or the reply to it (`HeldAgrees`); together they give `NoCrossTalk`, also for a retry. No connection is open without an owner
(`OpenIsOwned`). `LimitAgrees` counts the open connections and the dials of a key. The only step that could break it is `PopNothing`, where a caller
decides to dial; but it has emptied the stack first, so every connection left open belongs to a caller with a slot (`PopNothingStep`). The limit of the whole process is the sum over
registered keys: a minimal set of keys that exceeded it would have a key that could be taken away. That the counted sets are finite is part of
the invariant.

### RedisSessionStorage_proofs

For any callers, ids, limits and number of calls, from `RedisClientAssumption` alone:

- `StorageRunsClient`: `StorageSpec => Spec` - the storage runs the client of `RedisClient`, whose theorems therefore hold below it
- `StorageTypeCorrect` (`StorageTypeOK`), `DeletesAreFinal` (`DeletedStaysDeleted`), `LookupsAreCurrent` (`FoundIsCurrent`) and `StoresAreFound` (`StoredIsFound`)

The client's `IInv` is kept by every step of the storage, and `StorageIInv` is inductive with it. `LogAgrees`: the log has an entry for every call made, a call's `earlier` ones have
returned, and the calls that callers are in are pending and distinct. `CopiesAgree` is what makes late executions harmless: a command that waits for the server on some
connection, open or closed, is that of a call which is not over, or which was sent more than once or has failed - never of one that returned at its first attempt.
`SessionsAgree` says of the content of every session what it may be (`Agrees`) in view of each command that has been executed (`Done`: its call has succeeded, or has read
its reply, or has the reply on its way): not older than it, and missing after a store only if there is a delete to blame. `AnswersAgree` and `FindingsAgree` say the same of the replies on
their way and of what lookups have found, in view of the calls that were over before the lookup. An execution (`ExecuteStep`, `EffectAgrees`) is where the order matters: by
`CopiesAgree` the command executed belongs to no call that was over cleanly, so no call that is `Done` can have seen it as past. What was said of a content stays true
when the log grows (`AgreesStays`, `ExplainedStays`), which takes care of all other steps; that the reply which is read is the caller's own rests on the client's `HeldAgrees`. Checked with TLC first, on the instance of run `redis_storage`.

### Jwks_proofs

For any requests, kids, key sets, tokens and cache times with `MinCache <= MaxCache`, from `JwksAssumption`:

- `TypeCorrect`: `Spec => []TypeOK`
- `WithdrawnKeysAreForgotten`: `Spec => []WithdrawnKeysAreRefused`
- `LoadsAreLimited`: `Spec => LoadsAreSpaced`
- `DiscoveryHappensOnce`: `Spec => DiscoveryIsFinal`
- `SettledTokensPass`: `Spec => []SettledTokensAreAccepted`

`IInv` adds to these: nothing is later than the clock (`TimesAreOver`); what is cached was still published
`Latency` before `cacheDate`, and what is about to be installed was so at the date of the answer (`CacheIsRecent`); who fetches or installs holds the lock, and the keys to be
replaced are older than `MinCache` (`LoaderHoldsLock`); empty slices mean that nothing has been loaded (`EmptyIsFresh`), which is why
the branch of `MustReload` that ignores every age is no loophole of `LoadsAreSpaced`; and who reads the slices asked for them
when they were no older than `MaxCache`, after the discovery (`ReadersAreInTime`). `RotateStep` is the step where withdrawing a key must
not make a cached one too old, `InstallRsaStep` the one where the slices are of two different loads: the keys of the new one were
published at its date, the others `Latency` before `cacheDate`, and the answer is no older than that. `BeginDiscoveryStep` rests on nobody reading or
loading before there is a document, so that the fresh handler replaces no keys in use.

`SettledTokensPass` needs a second half, `SInv`. A settled request's key is published since before `MinCache` and `Latency` ago and stays so (`Due`). Every key that is published
since more than `Latency` before `cacheDate` is in the cache, and one published since before the date of an answer is in the answer (`Complete`), so a cache that is recent enough to need no forced reload has the key of a settled request; and a first
attempt that misses the key ends in a reload, since one that was refused as too early means a recent cache. On the second attempt the key is
still ahead of the reader (`Reads`): an installation in between, which could take it out of the part not yet read, is what `Overtaken` excludes.

Both invariants were first checked with TLC on the instance of run `jwks`.

### Middleware_proofs

For any requests, number of tokens and set of configurations, from `MiddlewareAssumption`:

- `TypeCorrect`, `OnlyEntitledIsForwarded` (`ForwardedIsEntitled`), `CleanLogoutsAreFinal`
  (`CleanLogoutIsFinal`), `BrowsersStayLoggedIn` (`StaysLoggedIn`), `RefreshTokensAreKept` (`RefreshTokenIsKept`) and `SessionsOnlyAdvance` (`SessionsNeverRollBack`)

`AllRight` says what is true of a request at each point of its way (`Right`) and of what is stored and in the jar (`Full`, `TicketRight`): in particular that a cached
authorization result is that of the session's login, and that what is about to be forwarded, also after a failed store, satisfied the rules. `LogoutsAgree`: a session that is final is in
no request's hands. `TicketsLead`: with reusable refresh tokens every ticket that the browser has, sent or is about to get leads to a stored
session until a logout ends it, and a request that came with a session and is refused shows that the session is over (`RefusedIsOver`); what a response may take from the browser follows
at its delivery. `Ordered` is the heart of the last two theorems: of the tokens of one session that are held anywhere - stored, in the jar, in requests - the older ones are
spent, and those that a request carries from a renewal are later than all others and not yet spent. As the provider accepts a refresh token once, two
renewals of a session are ordered by it, and the one that stores last is the later one; nothing of the kind holds for reusable tokens, which is why the properties
leave them out. `SpentIsReplaced`: a session whose token is spent has a request that brings the new one. Most steps are quiet (they only move a request); issuing, storing, logging out,
delivering a response and ageing are proved by themselves.

### ChunkedCookie_proofs

For any requests, number of tickets and chunk counts, from `ChunkedCookieAssumption`: `TypeCorrect`, `TicketsAreWhole` (`NeverTorn`) and
`LatestIsPresented` (`PresentsLatest`). The invariant adds that every set of cookies, in the browser or in flight, is `Intact`: its parts, if it has any, are
all the parts of one ticket. While tickets keep their form, one of the two forms is never in use (`Uniform`), so what a response sets replaces all that was there, and
clearing what the request was sent with clears all there is - or, where a request came with nothing and the latest ticket is in parts, nothing. `PresentsLatest` is inductive with that: a denial
that makes the browser present nothing is of a request that came with the latest ticket, whose session it ends, or sets `overtaken`.

### LoginFlow_proofs

For any tabs, sites (at least one) and configurations, from `LoginFlowAssumption`: `TypeCorrect`, `TabsReturn` (`ReturnsToRequestedPage`) and
`UndisturbedLoginsAreKept` (`UndisturbedLoginsSucceed`). The invariant says of each tab that it is where its state tells (`OnItsWay`), that a login nobody has
disturbed finds its own code verifier at the host of the callback (`HasItsVerifier`) and, without double redirects, that its state has the page it asked
for (`KeepsItsPage`); and of each callback URL that only double redirects have written to it, and to that of the callback's own host only if all hosts share
an instance (`QueriesAgree`). The attempt to prove `UndisturbedLoginsSucceed` without its second excuse failed at just that point, and TLC has
a counterexample for `OneRouter`.

### Gate_proofs

For any configurations and requests that `IsConfig` and `IsRequest` describe (rules and URIs of any size, any claims and lists), from `FamiliesAssumption`
and `WordsAssumption`:

- of `isAuthorized` by itself (`AuthorizationSpec`), `LoopTypeCorrect` and `VerdictIsRight` (`VerdictMeetsAssertions`)
- of the operators, `RuleIsRead` (`ParseRequestCondition` accepts the rules that are conditions and no others), `RuleMatches` (and `Match` gives their value),
  `MatchedIsRegistered` and `RegisteredIsMatched` (`MatchUriTemplate` accepts what an entry stands for)
- of `ServeHTTP` (`Spec`), `TypeCorrect`, `RequestsAreJudged` (`VerdictMeetsAssertions`), `RulesAreKept` (`RuleMeansWhatItSays`), `OnlyAllowedIsForwarded` (`ForwardedIsAllowed`),
  `EntitledGetThePage` (`EntitledIsForwarded`), `NoOpenRedirect` (`TargetsAreRegistered`) and `ListedIsFollowed` (`RegisteredIsFollowed`)

*The rule.* `Parse`, `Match` and `Holds` are recursive functions over the positions of a tree. That such a definition has a solution is proved first: of all positions whose
subtree has none the deepest would have operands with solutions, which the node joins into one (`FromTheLeaves`; that there is a deepest one is the well-foundedness of the natural numbers, `SmallestNat`). Then
every position's value is related to the meaning of its subtree in the same way: where it is a builder, the tree evaluates for every request to what the expression says (`Means`), and inverting a tree node by
node inverts its value. An error anywhere reaches the root, and only what `AddRule` would refuse remains to be found in the leaves (`FromTheRoot`).

*The redirect_uri.* The code cuts at the first "://" and the first reserved token after it. `SplitIsPart` and `PartIsSplit` show that this is the one way to
take an absolute URI apart; `SameScheme`, that a URI whose scheme is that of an absolute entry is absolute, too; `PathIsBelow`, that trimming and comparing prefixes is `Below`. `MatchedIsMisread` is the case
of an entry that hides a scheme. What fits a host pattern (`Fits`) is the same on both sides: the regular expression is modelled by what it means.

*The loop.* `LoopInv` says that all assertions before the current one are satisfied, and of the current one what the loop knows (`Collecting`): each
match it has noted is one of a scalar, and, unless something is hidden or repeated, every node it has passed is accounted for - an
array did not decide the assertion, and what a scalar matches has been noted. At the end of the nodes this is what makes `Collected` equivalent to
`Satisfied`.

*ServeHTTP.* `IInv` adds to `TypeOK` and `LoopInv` what has become of the rule (`RuleKnown`: compiled before anything is served, asked once) and of the session (`SessionKnown`: the verdict is there
when it is needed, and asked for only where the result is not cached), what the answer says of both (`AnswerGiven`), and the two properties about redirects, which every step that answers establishes and no
other touches. It was checked with TLC first, on the instance of run `gate`. The proof found two flaws of the model, since corrected: `HandleLogin` was a `CASE` with
overlapping guards, which TLA+ leaves open and TLC decides by order, and the meaning of entries did not allow for relative ones that hide a scheme.

### Only model-checked

- `EveryCallReturns` and `EveryNavigationEnds`: liveness under fairness is out of the prover's reach.

Every safety property of every passing run is stated by a theorem.

## Not modelled

- Configuration parsing (`config.go`): the modules take its options as constants. Error pages, logging: output only.
- Encryption, base64, environment expansion, forwarded headers: pure conversions. Formats of RESP, HTTP, JWK and cookies; a
  malformed message is a failure.
- `Authorization`: parse errors of a JSON path (the claim is then missing, as if it selected nothing) and `Unpack` errors of single nodes.
- `Upstream headers`: that rendering may fail, and when, is in `Middleware`; templates and their values are not.
- `predicate/lib.go`, selectors and index expressions of the predicate parser: no rule uses them. Go's own parser is external.
- Tickets that are no UUIDs, which both server-side storages refuse before anything else.
- `LoginFlow`: expiring sessions, requests that do not ask for HTML, `PostLoginRedirectUri` and the `/login` path (the last three are in `Gate`).
- `Middleware`: logouts with a token of the client's own. The provider answers a login with a fresh token; the
  callback ignores the `active` flag of introspection. A failing logout of the storage leaves the session (as in the code, which goes on to clear the cookie).

## Plan

Done: session stores, Redis client and storage, discovery and keys, session life cycle, cookie, redirects, the decisions about a
request; proofs of all safety properties. Left: what *Not modelled* lists, and liveness.
