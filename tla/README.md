# Verification of game-auth-demo

TLA+ models of the game-auth-demo platform, checked with TLC and proved about
with TLAPS. Every definition is translated from the code; `PROJECT.json` maps
each one to the lines it stands for. File names below are relative to the
repository; `auth/`, `videos/` and `users/` stand for
`src/backend/src/modules/<name>/`, `shared/` for `src/backend/src/shared/`.

## The system

| Component | State it keeps | Operations | Hard behaviour | What makes it correct |
|---|---|---|---|---|
| OAuth login and account linking (`auth/services/oauth.service.ts`, `oauth.controller.ts`) | tables `identities`, `user_profiles`, `oauth_accounts`; the state nonces `oauth_state:*` in the cache | start a login or a link, receive the provider's redirect, three linking rules, sign-up | a callback is 6 to 12 awaited calls without a transaction; redirects are repeated; a callback may die anywhere | a session is never for somebody else's identity; an account is never half made; two people are never merged without a link request |
| Sessions (`session.service.ts`, `session.guard.ts`) | `session:*` keys with a TTL in Redis | create, guard, validate and touch, revoke, revokeAll | the refresh reads in one command and writes in another; expiry | a token keeps its identity; sessions end for a reason and stay ended; an unused one expires |
| Video uploads (`videos/`) | table `videos`; objects and multipart uploads in S3 | initiate, part URLs, complete, abort, update, delete | two stores without a common transaction; the client writes to S3 past the backend | what is listed can be played; what was acknowledged is kept; nothing deleted returns |
| Upload client (`src/frontend/src/renderer/services/video.service.ts`, `VideoUploader.tsx`, `VideoList.tsx`) | local variables of `upload()`, the list on the screen, requests under way | upload with a catch-all abort, list, delete | lost and late answers; a sign-out or a restart in the middle | what it says of an upload is true; it shows its user's videos only; it cleans up after itself |
| Event source (`src/frontend/src/event-generation/`, `renderer/App.tsx`, `PipeCard.tsx`) | mock games with timers, a bounded queue, the signed-in profile | open, start, end, close, rate, timers, visit, login, logout | a full queue makes a handler throw half way; logouts wait for the backend | the events of a game make sense and carry one profile |
| Telemetry pipeline (`event.service.ts`, `src/ingestor/`, `src/consumer/`) | batches in flight, a Redis list, two DuckDB tables | POST, LPUSH, BRPOP, insert and update traits | at-most-once at every hop, batches that overtake each other, shutdown | an event is stored at most once; the traits follow the events |
| Sign-in window (`src/frontend/src/main/ipc/auth.ipc.ts`, `renderer/services/auth.service.ts`) | a window, a promise, the stored session, logouts in flight | open, redirect, close, logout | the user closes the window while its page is read; the backend has the session before the client | every sign-in settles; a session logged out is let go |
| Cache and repositories in memory (`shared/services/in-memory-*.ts`) | maps with expiry times; the objects that services change | the cache and repository interfaces | lazy expiry; a read hands out the stored object, with Prisma a copy | the cache behaves as Redis does; what is deleted returns only by an update under way |
| Database connection (`shared/services/prisma.service.ts`) | attempt and delay | connect with backoff | five attempts; the process may end at any point and lose what is in memory | gives up or connects; listens only connected |
| Configuration (`shared/config/env.schema.ts`, the module factories) | the environment | validate, select the stores | two toggles, independent | what is asked for is used; a session leads to an identity after a restart |
| Provider clients, token encryption | none | HTTP calls, AES-GCM | failures | |
| Query API of the consumer, layout of the user interface, health, logging, throttling, infrastructure | none of their own | | | |

How they interact: the controllers call the services, the services call the
repositories (PostgreSQL through Prisma) and the cache (Redis); each call is
awaited, and Node runs other requests meanwhile. The guard in front of the video
endpoints refreshes the session store that the login fills. The client PUTs file
content to S3 with URLs the backend signs. The telemetry pipeline shares only
the profile id with the rest.

The hazards of each part are listed at their lines in `PROJECT.json`.

## The modules

### OAuthLogin, LoginContract

`OAuthLogin` is the flow from `GET /oauth/<provider>` to the session. `req[c]`
holds the local variables of callback `c`, and `req[c].pc` the awaited call it
makes next; each action is one such call with everything that the code does up to
the next one. Discord and Riot share the actions where their handlers do
(`handleDiscordCallback`, `handleRiotCallback` differ in the verified e-mail and
the PKCE verifier). What the provider says of its user, the verified e-mail and the name,
is read afresh at every callback and may differ from what it said before (`Info`). A row
is named after the callback that inserted it, which is
sound because a callback inserts at most one row in each table. `Replays` lets a
redirect arrive twice between the `get` and the `del` of the state store;
`Crashes` stops a callback between two calls; `ServiceCalls` adds `softDelete`
and `unlinkAccount`, which the services offer and no controller calls yet.
Unique indexes of `schema.prisma` are guards of the inserts: an insert that
breaks one fails the callback. A local variable that nothing reads any more is cleared, so
that runs that differ in nothing else are one state.

The session table here is only who may hold which session: it is filled by
`CreateSession`, emptied by `EndSession` (logout or expiry, at any time), and filled
again by `RestoreSession`, a guard or `touch` that had read the session before its
end and writes it back. When that can happen is the subject of `Sessions`; here it
may happen at any time, so SessionsAreOwned holds of restored sessions too.

`LoginContract` is what the flow promises: who owns an identity, and who is
granted sessions of it. Its steps are Found, Join, Grant and Release. `OAuthLogin`
implements it with `owner` read off the accounts, and `ever` and `granted` off the
inserted rows and the finished callbacks.

### Sessions

The `session:*` keys with their TTL; a step is one Redis command. The guard reads
(`GuardGet`) and writes back (`GuardSet`); `validate` reads, then `touch` reads
and writes; `revokeAllForIdentity` lists the keys and then reads and deletes one
after the other. `issued`, `revoked` and `back` are history variables that the
properties need and no guard reads, but for `issued`, by which a token is created
once and only a token that exists is logged out.

### SessionTable

What the rest of the system may assume of the session store: a token is issued once;
after that it is accepted at some times and not at others, and whenever it is accepted
it is its first owner's. `Sessions` implements it, and `OAuthLogin` treats the sessions as it
allows, so the two models agree on what a session is. The
mappings (`Accepted`, and `Issued` of the login) stand in the proof modules.

### VideoUpload, VideoLifecycle

`VideoUpload` is `VideosService` over the table and the bucket. `req[r]` holds the
row that request `r` read and the call it makes next. `PutObject` and `PutParts`
are the client's own writes to the bucket. `Failures` lets a call fail or the
process die before any call. `Postgres` chooses between the repositories: Prisma's
`update` and `delete` throw when the row is gone, the in-memory ones do not.
S3 is not in the repository; the model assumes of it that CompleteMultipartUpload
and AbortMultipartUpload fail with NoSuchUpload when the upload has been completed
or aborted, that DeleteObject succeeds on an absent key, and that calls are atomic.

`VideoLifecycle` is the life of a video as its owner may see it: announced,
stored, published, removed. `VideoUpload` implements it, by reading the status off
the table.

### EventPipes, GameRules

`GameRules` has the five mock games: the actions of each and how many follow-ups
an action brings, which is what the queue notices of them. `EventPipes` is the source of the telemetry: `pipe[p]` is an `EventMockPipe`
together with its card in `App`, which may lag behind it after a handler that
threw. A handler or a timer is one step, as JavaScript runs it. What `enqueue`
refuses is the heart of it: `Close(c, room)` says how far `close()` comes when
`room` more events fit, `EndMatch` clears its timer and may then throw, and
`FailLogout` is a `handleLogout` whose `forEach` stopped at some game. The queue
is its length only; a history field of each game, `phase`, reads the events the
game has enqueued like a parser and turns `malformed` on the first that cannot
follow. `users` collects the profiles they are tagged with.

### EventPipeline, EventChannel

`EventPipeline` takes an event from the visitor's POST to DuckDB. `post[b]` is a
request with the events the ingestor has not pushed yet; `list` is `events:queue`
with its head where BRPOP takes (the code pushes left and pops right); `consumer`
is the consumer loop and the event it has popped. An event is a number, its place
in the client's queue, so "stored in order" is `<`. A step is one call to Redis or
DuckDB. `DropPost` is a request that is lost or whose ingestor dies, `Push` an LPUSH
that works, works and is run again by the Redis client, or fails; `Stop` is SIGTERM,
on which `main` returns without waiting for the loop. `missed` and `again` count what
makes `total_matches` differ from the table; `starts` tells requests apart.

`EventChannel` is what the pipeline promises: each event is sent once, in order, and
then stored for good or lost for good. `Fate` is the refinement mapping.

### ClientSession, VideoClient

`ClientSession` is the session of the desktop client. `window` is the sign-in
window of the main process and `page` the session in the page it shows: the
backend has created it before `FinishLoad` and `ReadPage` bring it to the renderer
(`held`). `CloseWindow` may come in between. A logout asks the backend (`Revoke`) and
then clears `held`, whatever it holds by then (`FinishLogout`). It has no next-state
relation of its own: `VideoClient` extends it with the components that exist while
somebody is signed in, so that signing in loads the list and signing out takes it off
the screen.

`upload[t]` is the upload that runs with session `t`: its `pc` is the request `upload()`
waits for. `loads` and `dels` are requests of `VideoList`. Any request may fail, be
answered to a component that is gone, or be carried out after the client gave it
up (`late`, `ArriveLate`). To the client the backend is `VideoLifecycle`, instantiated on
`status` and `stored`: `VideoUpload` implements it, so its handlers need not be repeated.

### TtlCache, CacheStore, Repositories, Backend

`TtlCache` says what callers may assume of the session cache: a key has a value and a
time to live, and is gone for every call when the time is up. `CacheStore` is both
implementations of it. With Redis an entry goes as its time is up (`Tick`); in the map of
`InMemoryCache` it stays until a call or the interval of `Cleanup` takes it out
(`Purged`), and `delByPattern` lists first and deletes then. `Entries`, the refinement
mapping, is the entries whose time is not up.

`Repositories` is the identities and the accounts, and the updates that read a row,
change it and write all of it back. In memory the row read *is* the stored object; with
Prisma it is a copy. The differences this makes are in the model: a Prisma update takes
back a soft deletion, which an in-memory one does not; an in-memory update stores a
deleted account again, where Prisma throws; and of several accounts of an identity the
in-memory `deleteByIdentityAndProvider` deletes one, Prisma all. So the two are not
"behaviorally identical for correctness-relevant operations", as
`docs/architecture.md:135` has it (finding 3). GoneStaysGone is what a caller may rely on
with either, and exempts an update under way for both; `UnlinkedForEverWithPrisma` and
`DeletedForEverInMemory` say what each gives beyond that and the other does not.

`Backend` composes them under one process: `Boot` validates the environment and
selects the stores, `Connect` and `FailToConnect` are the loop of `PrismaService`, `Serve`
is any call while it listens, `Stop` is its end at any moment, and `Keep` what outlives
it. `ConfigAnswers` is what `ConfigService.get` returns, which is not in the
repository: the string of the environment, or the value `validateEnv` returned for it.
@nestjs/config 4 returns the latter (finding 5). The runs of `Backend` other than that
one, and all other modules, take the toggles to work.

## What the runs check

| Run | Instance | Shows |
|---|---|---|
| `login` | 3 callbacks, 2 nonces; two Discord users who may have one verified e-mail, one of them with or without it from login to login, and a Riot user with the name of the first; replays, crashes, soft deletion and unlinking (1.9 million states) | TypeOK, SessionsAreOwned, AccountsAreWhole, LinksStartFromOwner, SessionsOfOneIdentity, and the refinement of LoginContract |
| `login_retry` | 2 callbacks, no crash | **violated**: RetryCanSucceed (finding 1) |
| `sessions` | 2 tokens, 2 identities, 2 open requests, TTL 2, fair time (280 000 states) | TypeOK, TokensKeepIdentity, RevokeAllLeavesNone, EndedStaysEnded (no resurrection without a refresh under way), EndsForAReason, OnlyTimeShortens, and UnusedExpires (liveness) |
| `session_revocation` | 1 token | **violated**: RevocationIsInstant (finding 2) |
| `video` | 1 video, 5 requests, failures | ReadyHasObject, MultipartNeverOrphaned, AckedKept, PendingCanBeSettled, and the refinement of VideoLifecycle |
| `video_in_memory` | 1 video, 3 requests, in-memory repository, no failures | **violated**: DeletedStaysDeleted (finding 3) |
| `video_abort` | 1 video, 3 requests, failures | **violated**: AbortEndpointWorks (finding 4) |
| `event_pipes` | 2 mock games, each any of the five, 2 profiles, queue of 4, 2 logouts in flight (368 000 states) | TypeOK, WellFormedGames, GameKeepsUser |
| `event_pipeline` | 3 events of 2 users, 2 overlapping requests, failures, repeated pushes, restarts | TypeOK, TraitsFollowEvents, RequestsKeepOrder, the refinement of EventChannel, and NothingStuck (liveness) |
| `client` | 2 sign-ins of 2 identities, 2 logouts, 1 video, 2 list requests, restarts (2.4 million states) | TypeOK, SignInSettles, LoggedOutIsLetGo, ShowsOwnVideos, UploaderTellsTheTruth, LeftBehindForAReason, DeletedStaysOffScreen |
| `backend` | every setting of the toggles, 1 token, 1 identity, 2 accounts, 2 updates under way, TTL 2, restarts (72 000 states) | TypeOK, SessionsHaveIdentity, ListensOnlyConnected, GoneStaysGone, the refinement of TtlCache, and BootSettles (liveness) |
| `backend_toggles` | the same with `ConfigAnswers = "validated"` | **violated**: TogglesWork (finding 5) |

Why the bounds are enough. *Login*: each rule relates at most two users and one
identity; three callbacks give a founder, a second user who collides with it by
name or e-mail or links to it, and a repetition of either, with the same address or
another; with replays two nonces
serve three callbacks. *Sessions*: a
resurrection takes a refresh and a removal, two open requests; two tokens are one
that revokeAll must skip and one it must delete, or two it must delete. TTL 2 tells a
fresh key from an ageing one. *Videos*: steps on different videos touch disjoint rows, objects and
uploads, so one video is enough; five requests are an initiate and four others,
and an answered request is used again. *Events*: two
games are the one whose close fails and one closed before or left after it; a
queue of 4 has room for a whole `close` and for an action with all its follow-ups,
and is full soon; which of the five games they are is chosen in the run. `MaxLogouts` is the one artificial bound: a user may click "Log
Out" more often, but a third logout does nothing a second does not. *Pipeline*:
`MaxEvents` bounds the events the visitor ever sends. Three are a request of two
events, which can be put out of order, overlapped by another request; a repeated
LPUSH puts up to two copies of each into the list. *Client*: a late answer or a second
logout takes two sign-ins, of one identity or of two, to show; two list requests can
overtake each other. Videos meet in the lists only, which treat each on its own, so one
is enough. *Backend*:
an entry is looked up by its own key, so one key is enough for the cache; two accounts
are what `deleteByIdentityAndProvider` treats differently in the two repositories; two
updates are one that deletes and one that had read before. `MaxConnectAttempts` is the
code's own. Apart from these two bounds, and
that a command is repeated at most once, all of this is finite as it is, so TLC
visits every reachable state.

Deadlock is not checked where the system really may stop: when all callbacks have
been answered and all nonces used (login), or when nobody sends another request
(videos). Symmetry is used for safety only, on sets whose members carry no data.

Fairness: `FairSpec` of `Sessions` assumes `WF(Tick)` alone, that time does not
stop. Nothing is assumed of requests: they may stop anywhere. The premise of
UnusedExpires is that refreshes of the token cease. `FairSpec` of `EventPipeline`
assumes that the ingestor's `for` loop and the consumer's loop go on while they can
(`WF` of `Push` per request, `Wake`, `Insert`, `UpdateUserTraits`), and that a BRPOP
tried over and over succeeds some time (`SF(Pop)`; weak fairness would not do, since
each error sends the loop to sleep). The failures need no fairness, nor does the
visitor. `FairSpec` of `Backend` assumes that an attempt to connect ends, one way or
the other (`WF(Connect \/ FailToConnect)`); it may fail every time. That somebody starts the consumer again is not assumed but the premise of
NothingStuck: the repository has no supervisor for it.

## Findings

1. `login_retry`: after a failed sign-up a retry with the same address cannot succeed, although
   `docs/operations.md:109` says "Users can retry — the flow is idempotent."
   (A retry with another address, verified or changed since, succeeds, and leaves the
   identity of the first attempt behind without an account.)
2. `session_revocation`: a refresh under way undoes a logout, although
   `docs/decisions.md:133` counts on "Instant revocation (delete the Redis key)."
3. `video_in_memory`: the two repositories differ where correctness depends on it,
   although `docs/decisions.md:182` and `docs/architecture.md:135` say they must not. The
   run shows it for videos; identities and accounts differ too (see Repositories), in
   operations that no endpoint overlaps yet.
4. `video_abort`: a multipart upload whose row was not written after the bucket
   had closed it can be neither completed, nor aborted, nor deleted, although
   `videos.service.ts:149` sends its owner to the abort endpoint.
5. `backend_toggles`: `USE_POSTGRES=true` and `USE_REDIS=true` select the stores in
   memory, although `backend/README.md:87` lists them with PostgreSQL and Redis.
   `validateEnv` makes booleans of the flags and the factories compare with `'true'`.
   This rests on what `ConfigService.get` of the installed version returns, a constant
   of the model. (Were it the raw string, `TRUE` would pass the validation and still not
   be `'true'`.)

Seen while modelling, and contradicted by nothing the repository says: a second
logout whose answer is late signs out whoever has signed in since; a sign-in window
closed while its page is being read leaves both buttons disabled; `GET /videos` returns no
`downloadUrl`, which the client's list offers; `GET /videos/:id` has no guard and so
never a session, which makes a private video forbidden to its owner too; `MAX_BACKOFF`
of 8 s is never reached in five attempts.

## What is proved

For every number of callbacks, users, tokens, requests, videos, games and events, and
every TTL and queue size:

- `OAuthLoginProofs`: the type invariant, SessionsAreOwned, AccountsAreWhole,
  LinksStartFromOwner, SessionsOfOneIdentity, and that `OAuthLogin` implements
  `LoginContract`; from the refinement, that an account never moves to another
  identity (`AccountsNeverMove`) and that two users share an identity only if somebody
  was granted a session for it (`SharingNeedsLogin`).
- `SessionsProofs`: the type invariant, TokensKeepIdentity, RevokeAllLeavesNone, EndedStaysEnded,
  EndsForAReason, OnlyTimeShortens; that a session which has ended with no refresh under
  way is never accepted again (`EndedForEver`); that every live session has a time to live
  (`SessionsTimed`).
- `VideoUploadProofs`, with either repository: the type invariant,
  MultipartNeverOrphaned, AckedKept and PendingCanBeSettled. With `Postgres` assumed:
  ReadyHasObject and that `VideoUpload` implements `VideoLifecycle`, neither of which
  holds in memory (the run `video_in_memory` shows why).
- `EventPipesProofs`: the type invariant (with it, the capacity of the queue),
  WellFormedGames, GameKeepsUser, and that a game which runs on is the signed-in
  profile's (`RunningGamesSignedIn`).
- `EventPipelineProofs`: the type invariant, TraitsFollowEvents, RequestsKeepOrder, and
  that `EventPipeline` implements `EventChannel`; from the refinement, that an event is
  stored for good or lost for good (`SettledForGood`); and that without a repeated LPUSH
  `total_matches` never exceeds the table (`CountsNeverAhead`).
- `ClientProofs`: the type invariant and every property of the run `client`.
- `BackendProofs`, for either answer of ConfigService: the type invariant,
  SessionsHaveIdentity, ListensOnlyConnected, GoneStaysGone, that `CacheStore`
  under `Backend` implements `TtlCache`, what each pair of repositories keeps that the
  other does not (`UnlinkedForEverWithPrisma`, `DeletedForEverInMemory`), and that the attempts of a start only go down
  (`AttemptsRunOut`).

How the modules fit together is proved as well:

- `SessionsUseTtlCache`: guard and service use their store as `TtlCache` allows, and
  `CacheIsTtlCache` says that Redis and `InMemoryCache` implement it. So `Sessions`
  asks nothing of Redis that `InMemoryCache` does not give.
- `SessionsKeepTable`, `LoginUsesTable`: the store implements `SessionTable`; the login
  does to sessions only what it allows.

The client needs no such theorem for its videos: its backend is `VideoLifecycle` itself,
which `VideoUpload` implements.

Each finding has a theorem that says what it takes to avoid it:

| Violated | Holds, for every value of the other constants, |
|---|---|
| RetryCanSucceed | without unlinking, in every behaviour in which no sign-up fails between its identity and its account row (`RetryAfterWholeSignUps`) |
| RevocationIsInstant | in every behaviour in which no logout of a token overlaps a refresh of it (`InstantWithoutOverlap`) |
| DeletedStaysDeleted | with PostgreSQL (`DeletedIsForEver`) |
| AbortEndpointWorks | if no request dies between two of its calls, with either repository (`AbortWorksUncut`) |
| TogglesWork | if `ConfigService` returned the raw strings (`TogglesWorkOnRaw`); with the validated values no process ever connects (`TogglesIdleOnValidated`) |

The first two have a premise about the behaviour because the code has no switch for
it. Both are met by behaviours the code has: sign-ups that run to their end or fail
before their first insert, and logouts while no request refreshes the same token.

The argument is the same in each. None of the invariants is inductive, because a
handler acts on what it read some calls ago. `IInv` adds what each request may
rely on at each call:

- *Login*, `Knows(c, pc)`: for instance, from `createProfile` on the callback has an
  identity of its own and no account row; from `createSession` on its user has been
  linked to its identity (perhaps no longer), and the profile it carries is of that
  identity. `Founded` and `Granted` are facts that never become false, which is why
  they survive everything other callbacks do; `BoundOK`, `AccountsOK` and
  `SessionsOK` tie the tables to them. A finished callback keeps what its session says
  (`SessionsOK`), which is why a refresh cannot write back a session of somebody
  else's. SessionsOfOneIdentity rests on the unique index over provider and provider
  user, not on the address, which may differ at each attempt. One lemma per action (`...Keeps`) shows
  `IInv'`; `OthersKeep` carries the knowledge of all other callbacks over each step.
  RetryAfterWholeSignUps needs two invariants more: an identity without an account
  row has its sign-up still under way (`SignUpsLead`), and without unlinking a row once
  inserted stays (`RowsKept`).
- *Sessions*, `RequestOK(r)`: a request that will write or delete a key knows the
  identity it was issued to, and a revokeAll only lists issued tokens.
- *Videos*, `RequestOK(r)`: what the row read tells of the bucket later on. The
  essential part is `UploadOK`: while a multipart upload is open nobody is past the
  bucket call, so the one request that closes it is the only one that goes on to the
  row; and a request that will publish a small file either finds it in the bucket or
  somebody has set out to remove it. What only Prisma's `update` provides is guarded by
  `Postgres /\` in its clause; the multipart properties do without, since the bucket
  closes an upload only once. `Focus` reduces each step to the one video it
  is about.
- *Events*, `GameOK(c)`: the parsed phase agrees with `_state`, a timer runs only in
  a match, and an open game that is not late belongs to the profile signed in, with
  no logout under way. The proof is per game, because the condition is.
- *Pipeline*, `StagesOrdered`, `ListOrdered`, `BatchesApart`: of one request, what is
  further on its way (table, consumer, list, ingestor) is earlier or the same event;
  "or the same" is what a repeated LPUSH leaves. That two batches are never of one
  request carries this over the steps of overlapping requests. `AllSent` puts every
  event that is anywhere behind `sent`, which the refinement needs: an unsent event
  cannot turn up. TraitsFollowEvents is inductive once `CountedIsStored` is known.
  CountsNeverAhead needs `Once` besides: without repetition an event is at one place at a
  time, so no insert finds its event in the table.
- *Client*, `SessionInv`: what the window, the page and `loading` say together, and a
  session that is logged out is held only while its logout is under way. `OwnerInv`:
  a list under way holds videos of the session it was asked with, which is why showing it
  to that session only is enough. `UploadInv` and `LateInv`: a video is published only
  by the complete of its own upload, awaited or given up, and in the second case the
  client is `blind` to it.
- *Backend*, `StoresInv`: the stores are those of the toggles from the first start on, and
  a cache in memory is empty while nothing listens. With it the session that a restart
  keeps is in Redis, and its identity is lost only if identities are in memory.

The constants are assumed only to be what they stand for (absent values are no
rows, a user has one provider, a placeholder address is no verified address,
`TTL > 0`); TLC evaluates these assumptions in every run. The refinements are
proved step by step: each step maps to one of the abstract module or to a stutter.

Only model-checked: UnusedExpires, NothingStuck and BootSettles, because TLAPS does not do
liveness here. Of two of them the part that is safety is proved: no write makes a
session immortal (`SessionsTimed`), and the attempts of a start run out (`AttemptsRunOut`).
The five violations are counterexamples. That the
invariants of `login` hold with soft deletion and unlinking is both checked and
proved, since the proofs leave the switches open. SessionTable has no run of its own: its
two refinements are proved.

## What is not modelled, and why

- Provider HTTP calls and token encryption: they succeed or the handler fails.
- In the in-memory mode the calls of a handler do not do I/O, so its interleavings
  are among those modelled; what differs is the missing unique indexes and
  `update`, of which `VideoUpload` and `Repositories` model the second.
- The profiles in memory: `UserProfileService.update` has no caller, and creating and
  reading them is in `OAuthLogin`.
- In the client model a session that has ended stays ended: that a refresh may bring it
  back is in `Sessions` and `OAuthLogin` only.
- Two PATCHes of one video (hazard at `videos.service.ts:142`): visibility is not in the
  model.
- Titles, visibility, sizes, avatars, token contents: no property tells them apart.
- Of the traits, `games_played` (JSON inside a DuckDB statement) and `last_active_at`.
  Redis is assumed to keep its list; docker-compose gives it no volume, so the list
  does not survive the container.
- URL expiry in S3: a URL that expires only removes steps of the client.
- Health probes, logging, throttling, CORS, Terraform and the query API of the
  consumer, which reads only; the layout of the React components; of the game rules
  the weights, of which only that they are positive matters, and the metadata.
- The copies under `src/frontend/src` (`App.tsx`, `index.ts`, `services/`,
  `components/`) that webpack does not build.

## Plan

Done: OAuthLogin, LoginContract, Sessions, SessionTable, VideoUpload, VideoLifecycle,
EventPipes, GameRules, EventPipeline, EventChannel, ClientSession, VideoClient, TtlCache,
CacheStore, Repositories and Backend, with their proofs. Next, in this order:

1. Visibility in `VideoUpload`: what two PATCHes, or a PATCH and a second complete,
   leave of it.
2. `games_played` in `EventPipeline`: what the order of game_opened and match_started
   decides.
3. That a refresh may bring a session back in the model of the client, on an instance
   that TLC still finishes.
