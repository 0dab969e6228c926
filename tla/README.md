# A TLA+ model of the Entitlement System

This directory holds TLA+ specifications of the licence server, the SDKs, the demo
application and the administrators' page of this repository, the TLC configurations that check them on small
instances, and theorems about them proved with TLAPS for every size. Source
paths are relative to the repository root; `server/` is the NestJS server,
`sdk-electron/` the client library, `demo-electron/` an application that embeds it,
`admin/` the web page of the administrators.

## 1. The system

Desktop applications embed an SDK. The SDK activates a licence key for a
device, gets a signed *lease*, keeps it in a cache file, verifies it when the
application starts and renews it with heartbeats. The server checks the licence,
binds devices to it up to a limit, and issues leases up to a limit of devices at
a time. Administrators create licences and card keys, ban licences and remove
devices through an administration API.

| Component | State | Operations | Talks to |
|---|---|---|---|
| Licence runtime `server/src/license` | none of its own; requests in flight | `activate`, `verify`, `heartbeat`, `deactivate` | licence check, devices, leases, versions, risk, audit |
| Licence check and card keys `license.service.ts` | `licenses`, `card_keys` rows | `validateLicense`, `ensureRuntimeValid`, `redeemCardKey` | products, plans |
| Devices `device.service.ts` | `devices` rows: code (unique), licence, status, last seen | `getOrCreateDevice`, `touch`, `findActiveByCode`, `remove` | leases (kick revokes them) |
| Leases `lease.service.ts` | `leases` rows: licence, device, status, expiry | `issue`, `validate`, `revoke`, `revokeActiveByDevice`, `enforceConcurrencyLimit` | devices |
| Administrator access `admin/auth`, `admin/admins` | `admins` rows: status, role, password, changed or not | `login`, guard, `changePassword`, `create`, `updateStatus`, `updateRole` | before every administrators' handler |
| Request guards `common/guards` | two tables in memory | rate limit, signature, nonce | every public handler runs behind them |
| Version policies, risk, audit | rows; risk and audit only grow | `ensureAllowed`, `inspect*`, `activation`, `heartbeat`, `admin` | called by the runtime |
| Administration `server/src/admin` | the same rows | status changes, creation, removal of products | all tables |
| Unbind requests `admin/p2` | `device_unbind_requests` rows | `create` (public and administrators'), `review` | devices |
| Offline packages `admin/p2`, `offline-signature.ts` | `offline_packages` rows; a key pair per process unless configured | issue, revoke and restore, import; sign and verify | licences, products |
| Monitoring `server/src/monitoring` | counters in memory | `record` | around every handler |
| Electron SDK | cache file, state, feature gate, timer | `activate`, `verifyOnStartup`, heartbeats, `deactivate` | the server over HTTP |
| C++, .NET SDKs | none | one HTTP call per function, signed by code of their own | the server |
| Administration page `admin/src` | token, tables shown, one flag for "loading" | every operation sends its calls and then reloads every table | the administration API |
| Demo application, licence window | two windows; the client in it | start, buttons, life of the windows | Electron SDK |
| Device fingerprints, scripts | none that decides anything | reading the host | |

**What is hard.** NestJS runs a handler until it awaits; each Prisma call of the
runtime is a transaction of its own, so handlers interleave between any two
calls, and none of their count-then-create sequences is atomic. A call may fail
or the process stop between any two of them. What was read (a licence, a device,
a lease) is used after others have changed it. The client may lose an answer
after the server has committed; its timer, its user and its start-up make calls
that overlap; it must come to know of a ban through all of that. Two
transactions do exist (redeeming a card key, removing a product); they wait for
each other's locks. The in-memory guards work with fixed windows and expiring
entries. The risk inspections count log rows that other handlers are about to
write. The administrators' page shows what its last reload brought, whichever that was,
and masks itself with one flag for everything under way; the handlers behind it
write a row and its audit row in two calls. A review of an unbind request stores its
verdict in one call and removes the device in another, and may be repeated at any time;
packages are signed with keys that may not outlive the process, and found by codes that
are given out again. Three clients and the server write the text they sign with code of
their own. `PROJECT.json` lists these hazards one by one, each at its line with the
properties that would catch it.

**What makes each component correct.** The device and concurrency limits hold up
to a known overrun; a device code keeps its licence, and leases stay with it; a
dead lease stays dead; a request that arrives after a ban or a removal is
refused; every request is answered; a card key yields one licence and never half
a redemption; nothing of a removed product remains; a nonce is not accepted
twice within its retention, nobody is refused without cause; an administrator
disabled or demoted gets nothing more done, whatever token he holds; the client's cache
is what the server honours unless an answer was lost; a shown ban stays shown; a
deactivated client stays deactivated; a ban reaches a client that heartbeats; no
window holds many more activations, addresses, heartbeats or unbinds than its
threshold without a risk event; an excluded version gets no lease; the page is
masked exactly while something is under way and shows the change it reports; what
an administrator changed is in the audit trail unless the handler failed; no approval of
an unbind request goes uncounted, and an old one does not strike a device set back
since; offline files are imported while they are current, and only then; the demo
application heartbeats while it is usable and its start ends somewhere; the calls the
SDKs make are understood; the metrics count what ran.

## 2. Modules

| Module | Models |
|---|---|
| `LicenseServer` | the four handlers and the services below them, administrators' status changes, the clock, failures |
| `SeatPool` | what the device table promises, without requests: the abstract specification `LicenseServer` implements |
| `RequestGuards` | the rate limiter and the nonce table |
| `SdkCalls` | what the three SDKs send and sign, and what the server makes of it before a handler runs: operators, without state |
| `PublicApi` | the guards with the handlers behind them and the metrics around those |
| `CardKeys` | one card key: redemption, administration, removal of its product |
| `KeyLife` | what a card key promises, without requests and transactions: the abstract specification `CardKeys` implements |
| `AdminAccess` | administrators' accounts, tokens, the guard, password changes |
| `VersionRules` | the comparison of versions and the version policy, without state |
| `RiskWatch` | activation and heartbeat log, unbind counters, risk events, version policies, the handlers that write and count them |
| `AdminConsole` | the administrators' page, the calls it sends, the handlers' rows and audit rows |
| `UnbindRequests`, `OfflinePackages` | requests to unbind a device and their reviews; packages, their files and imports |
| `BackOffice` | both together, with the removal of a product under them |
| `SdkClient` | one Electron client with the server reduced to that client's rows, and the network between them |
| `DemoApp` | the demo application around `SdkClient`: start, windows, buttons, restarts |
| `LicenseServerProofs`, `RequestGuardsProofs`, `CardKeysProofs`, `AdminAccessProofs`, `RiskWatchProofs`, `AdminConsoleProofs`, `BackOfficeProofs`, `DemoAppProofs` | theorems and proofs |
| `MC...` | symmetry sets for TLC |

Definitions beginning with `Fault` are not part of the model: each is a plausible
bug in the definition it precedes, used to see that a property notices it.

### LicenseServer

`licenses`, `devices` and `leases` are the tables; `req[w]` is the handler worker
`w` is running, with `pc` naming its next database call. One action is one call
with the code up to the next: `ActCount` is `device.count` and the comparison,
`ActCreate` the creation that fails on the unique code, `HbRevoke` the
heartbeat's revocation of its old lease. `Begin...` lets any request arrive whose
token was issued or whose key exists; licence, device and token are chosen
independently, as a client may. `Fail` ends a handler at any of its calls; what
it wrote stays. Licence statuses are reduced to usable and not
usable, device statuses to active and removed: the handlers make no other
difference but the error code. The version policy is a free choice. `late`, `gone`
and `granted` are history, read by properties only. The audit and risk rows the
handlers write are never read back into a decision.

### SdkClient

The cache file, the state shown, the feature gate and the timer on the one side,
the licence, the device and its active lease on the other; `call[c]` carries a
call from its start over the server's answer to the client's reaction. Requests
and answers may be lost, cache writes fail, the process restart. The server's
handlers are atomic here, their interleavings being the subject of
`LicenseServer`; the concurrency limit is left out and its refusal included in
the other refusals. Features are all or nothing. What becomes of the timer after an
activation, a verification or a deactivation is the application's business, so those
actions leave it to `DemoApp`.

### DemoApp

`Launch` is `bootstrap`: the client reads its cache file, the main window opens,
`verifyOnStartup` begins. `AppVerified`, `AppActivated`, `AppDeactivated` and
`AppThrown` are the ends of the client's calls together with what the handler of
`main.ts` does in the same turn: start or stop the heartbeats, open or close the
licence window. The licence window is modal, so the buttons of the main window
(`Clickable`) wait while it is open. `CloseMain` covers both platforms: the process
quits, or on macOS goes on without heartbeats until `Reopen`, which makes a window and
nothing else of `bootstrap`. `stopped` is history: the user stopped the heartbeats, by
the button or by closing the last window. Left out: pages that fail to load, drawing.
The button that deactivates asks with `prompt()` (`renderer.ts:108`), which Electron
does not implement; the model lets the click get through.

### RequestGuards

Both guards run without awaiting, so one request is one step. A key of the rate
limiter is client address, method and route. A nonce is remembered with its
timestamp. HMAC is abstracted to `genuine`. `passes` is history: the requests of a
key that passed in the last window, each known by the bucket it was counted in and its
place there.

### SdkCalls and PublicApi

`SdkCalls` follows a call from the SDK that builds it to the door of its handler. A body
is the set of its fields and whether they stand in the order of their names, which two
of the clients leave to a sorting serialiser and the C++ client writes by hand
(`Written`); a string is one of four kinds of text that the three
serialisers spell differently (`JsSpelling`, `CppSpelling`, `DotnetSpelling`); the server parses the
fields and writes the text again (`ServerText`); `SecretFound` is the lookup of the
secret by product and version, `Valid` the DTOs behind the validation pipe, `Answer` the order of
all that. `Supported` is what holds of the code, which is less than one would like:

- the C++ and .NET clients send no `appVersion` with `deactivate`, although their
  README files list it among the calls (`sdk-cpp/README.md:32`,
  `sdk-dotnet/README.md:31`): BAD_REQUEST without signing, UNAUTHORIZED with it, since no
  secret is found;
- neither sends one with the version policy, which is UNAUTHORIZED once signing is on;
- the .NET client spells double quotes and everything outside ASCII as `\uXXXX`, the
  server does not, so a signed call with such a device name is refused.

`PublicApi` puts handlers behind the guards: they run for a while and end in any
order, by an answer, an `AppError` or an error without a code, and `Record` is what the
interceptor counts. `calls` lists the handlers with their route and their end; the
metrics keep only sums of it. Guards run before interceptors, so refusals leave no mark:
RATE_LIMITED is not in the metrics, where `06-生产限流评估.md:62` looks for it. What the
handlers do is the other modules' subject.

### UnbindRequests, OfflinePackages and BackOffice

A review is `BeginReview`, `StoreVerdict` and, for an approval, `Strike`, with `BreakOff`
at any point; the guard of the code is the verdict alone, so requests are reviewed
again, in either direction, as the handler allows. `due` and `kept` are history:
approvals stored but not yet at the device, devices set back and not approved for
removal since. An offline package is a row, a file the client got, and a signature that
names what was signed and by which pair of keys: pair 0 is the environment's, others
belong to a start of the server; the halves are configured independently. `whole` says
that no key of the signed payload was undefined. `import` holds the last
import with what it should have been (`current`), computed from the files alone.
`DeleteProduct` takes the rows of both; codes are free again afterwards, as a later
product may use them, device rows stay gone.

### CardKeys

One key, the rows made with it, the requests that present it, and the
transaction that removes its product. PostgreSQL's locks are guards: an
insertion waits while `Inserting` is not empty, a write of the card row while it is
`CardLocked`. `BreakDeadlock` is its deadlock detection. The product and the plan
of the card are one status. Devices and leases of the licence, which the removal
deletes too, are left out: they could only make it fail, which `AbortRemoval` does.

`KeyLife` has the licence issued for the key, the licences used with it and whether the
product is gone. The refinement maps them to the committed `licenses`, the `answers`
and `product`: a redemption is one `Issue` where it commits and serves, and the removal, which
takes three steps here, is one `Die` at its end.

### AdminAccess

A request goes from `Arrive` through `Guard` (`canActivate`) to its handler;
`changePassword` and `login` have two parts, the comparison of the hash with the
row just read and what follows the next await. `Store` is the update of one
account. A worker's `once` is history: what it asks for has been permitted at
some moment since it arrived. Tokens are the accounts they name, since the guard
reads everything else again; one is not revoked, it only expires. The account a
request is about and the value it stores are chosen when they are stored. Rows are
never deleted. A later run of `seed.ts` is left out.

### RiskWatch and VersionRules

The tables of one licence that its handlers count again: `activations`,
`heartbeats`, the `unbindCount` of the device rows, and the `events` raised. Each
count, each creation and each event is a step of its own, in the order of the code:
an activation is counted, bound and then logged; a heartbeat is logged and then
counted; a deactivation removes the device and then reads its counter. Whatever
else refuses a request (licence, device, lease, limits) is `Fail` here. A version
is the sequence of its numeric parts, with `NaN` for a part that is no number;
`Precedes` is the order it should have, independent of `compareVersion`.
History: `seen` of a heartbeat row says when its inspection ended, `old` of a
request that the policy has excluded its version ever since it arrived, `left` how
often a device was deactivated to the end. Left out: the events one request decides
alone (`fingerprint_changed`, `invalid_version`), the rows of verifications, the
version check of `verify`, which is the same call, and the redaction of audit data.

### AdminConsole

`task[t]` is an async function of the page: the calls it has sent (`write`, then
`audit` on the server, then `done` or `failed`), and, once it reloads, which lists
have been read and what they said. `HandlerWrite` and `HandlerAudit` are the two
database calls of every handler that creates, updates or deletes a row; products,
plans and the deletion of a card key write no audit row (`Audited`, `Logged`),
although `02-待开发计划文档.md:317` speaks of an audit log for high-risk
operations. Several calls at once are the batches (`Promise.all`). When one fails
the page ends the operation while the others go on (`Left`). While `loading` is set
the login and password buttons are disabled and the panels masked; the mask keeps
the pointer from them, not the keyboard, and covers neither refresh and log out nor
the product editor (`App.vue:1046`), so `BeginChange` and `BeginRefresh` are always
possible. `Mount` is the page loaded anew: it forgets whose password must change
until a reload is refused. `crowded` and `unlogged` are history: something was begun
past the mask, and there has been something under way since; writes of
handlers that failed between their two calls. A row is known by how often it was
written, not by what it holds. Forms, filters, copying and export are left out.

## 3. Runs

| Run | Question | Bounds |
|---|---|---|
| `one_request` | Are the limits, ownership and the seat pool exact if requests do not overlap, and who is kicked? | 1 worker, `kick_oldest`, 2 licences, 3 devices for 2 seats, 2 leases, 1 reactivation per licence, clock stopped |
| `one_device` | Do bans, removals, expiry and failures reach requests in flight, and is every request answered? | 2 workers, 1 device, 2 leases, expiry within the run |
| `public_api` | What do both tables let through, and when? Which calls are understood, and what do the metrics count? | 2 keys, limit 2, windows of 2, clock to 4, 2 requests served between restarts, timestamps before and after arrival; every SDK, call and kind of text |
| `demo_app` | When do client and server disagree; do bans and deactivations stay; is a usable application heartbeating? | 1 call at a time, 2 leases, lease time 1, grace 1, clock to 2 |
| `card_keys` | One licence per card, whole redemptions, clean removal, `KeyLife` implemented, no request stuck | 2 workers, 2 card rows, 2 licence ids |
| `admin_access` | Does a token outlive its account's rights, are passwords changed first, is a lockout final? | 2 workers, 2 accounts, 2 passwords |
| `risk_watch` | Can a window fill up without an event; does an excluded version get through? | 2 workers, 1 device, 3 addresses, thresholds 1 and 2, windows of 1, clock to 2, 3 rows |
| `admin_console` | What masks the page, what do its tables show, what is in the audit trail? | 2 operations, 2 tables, one of them audited, 2 writes |
| `back_office` | Are approvals counted and spent; which files are imported? | 2 reviews, 1 device, 2 requests, counter to 2; 1 code, 2 packages, clock to 1, 2 starts, every configuration of keys |
| `device_limit_race` | (counterexample) the device limit as the tests state it | 2 workers, 2 devices, 1 seat |
| `removed_heartbeat` | (counterexample) a removed device is refused | 1 worker, 2 devices |
| `offline_import` | (counterexample) every current file is imported | 2 packages |

Why the bounds suffice: an overrun needs two requests past the same count, a lost
update two requests for one row, so two workers show every race between a pair of
handlers; a third device tells "one too many" from "any number too many". The lease
bound gives each worker a lease to replace and one more. A request that may issue
a lease is let in only while a row is left for it, so no handler is ever stuck on
the bound. Clock values allow a lease to be valid, just expired (the boundary)
and, in the client, in and past its grace period; in `RiskWatch` a row is inside a
window, at its edge, and outside. Where the clock is stopped the property does not
speak of time; expiry is the subject of `one_device`. The limits of devices and leases
under `deny_new` with overlapping requests, and the leases of a device, are proved for
every instance (section 4), so no run repeats them. A second review of a second request
meets the first at every point; two packages under one code are a file and its
successor; two starts are a pair of keys and the next one. Two operations of the page are
enough for one to overtake the other; two tables for a batch of which half fails. Workers, licences, devices and
lease ids are interchangeable, and symmetry is used only in runs without liveness
properties.

**Counterexamples.**

- `device_limit_race`: two activations of new devices count before either creates
  (`device.service.ts:40`, `62`). The limit that holds instead is `DeviceLimit`: one more device per
  other request in flight.
- `removed_heartbeat`: `heartbeat` never looks at the device row
  (`verify-heartbeat.service.ts:44`) and removing a device leaves its leases active, so a
  removed device renews its lease for ever, although the client waits for
  `DEVICE_REMOVED` and the plan document says it is refused.
- `offline_import`: without `deviceId` and a payload of its own a package is signed over a
  payload whose `deviceId` is undefined (`p2.controller.ts:133`). `stableStringify` writes
  the key into the text that is signed, the JSON column and the answer lose it, and
  the import verifies another text: it is refused every time. A package bound to a
  device, or with a payload of its own, imports.

Other limits the properties make explicit: under `kick_oldest` overlapping
activations can all kick the same device and then all create, so the limits are
stated for one request at a time there; the rate limiter passes up to one less
than twice its limit within a window's length; a lost heartbeat answer leaves the
client with a revoked lease and stops its scheduler, and only a new activation
helps; a card key disabled while its redemption is under way is redeemed
nevertheless; overlapping activations miss each other in the risk counts, so a window
can hold as many more than the threshold as there are requests in flight; a refresh,
or a change from the keyboard or the product editor, begun during an operation takes the mask from it when it ends, and the older of two
reloads may be shown last; the last super administrator can disable himself, and two can disable
each other at once, after which no account can be managed through the API; the properties of
the client are stated for one call at a time, since with two an OK from before a ban may
be applied after the answer that showed it (`heartbeat-scheduler.ts:52`), and a
heartbeat's lease written after a deactivation; on macOS a main window reopened from the
dock has no heartbeats until a button starts them (`main.ts:121`); a package issued outside
production is void after a restart unless both keys are configured.

**Fairness.** `FairSpec` of `LicenseServer` says that a handler whose database call
can complete goes on (the event loop comes back to it). It says nothing of
arrivals, administrators or failures. `CardKeys` assumes strong fairness of a
handler, since a waiter on a lock is let through in turn while others come and
go, and weak fairness of deadlock detection. `DemoApp` assumes that the interval
timer goes on firing while it is set (strongly, since other calls may be under way
at any single moment), that a call under way ends, with an answer or an error
(`fetch` does so), and that the handler that awaits it goes on. No fairness of the network: every answer may be lost for ever.
`AdminConsole` assumes that the server works on what it was sent (`Handle`) and that an
answer comes to the page (`Settle`), not that a call is ever lost, the page
loaded anew or anything pressed; `SpinnerEnds` assumes that the page is not loaded
anew for ever, since each load masks it again.

Deadlock is checked in every run.

## 4. Proofs

The theorems hold for every value of the constants that satisfies the named
assumptions in the modules: finite sets of workers, codes and lease ids (so that
they can be counted), limits in Nat, `None` distinct from the rows.

`LicenseServerProofs`:

- `TypeCorrect`: `Spec => []TypeOK`, one lemma per group of actions.
- `LeasesPerDeviceBound`: the active leases of a device never outnumber the
  requests in flight. Not inductive by itself: the invariant counts the active
  leases of a device together with the requests that have passed the revocation
  and not yet created theirs. `IssRevoke` turns any number of leases into one such
  request, `IssCreate` turns one into a lease.
- `DeviceLimitHolds` (`DeviceLimit`), under both policies. Under `deny_new` the limit is
  overrun by no more than the other requests in flight and the administrators' grants:
  the invariant adds to the active devices of a licence the requests that have passed
  the count and not yet created (`act_create`); while there is one, the others are at
  most `Cardinality(Worker) - 1`. Under `kick_oldest`, with one request at a time, the
  request that is about to create knows how many seats it has left (`SeatsAlone`).
- `ConcurrencyLimitHolds` (`ConcurrencyLimit`), in the same two parts: the devices that hold a
  lease are counted together with the requests that have passed the count and are
  about to create theirs (`HoldersAndCreating`), or with the one request there is
  (`HoldersAlone`).
- `DevicesImplementSeatPool` (`ImplementsSeatPool`): every step on the device table is a
  step of `SeatPool` or leaves it alone, under `deny_new` with any number of
  requests at once, under `kick_oldest` with one at a time. What the map needs of
  a request that is about to create is that there is room for its device
  (`RoomToBind`).
- `NoLateServed` (`NoLateService`), from the invariant that a late request is one whose
  licence is not valid now, and a gone one a request whose device is removed now.
- `LeasesOwned` (`LeaseOwner`), because a device row keeps its licence and a request
  that is about to write a lease has checked it (`OwnerInv`); `DeadLeasesStayDead`
  (`DeadLeaseStaysDead`), which needs that a request creates leases in free rows only; `KicksGiveSeats`
  (`KickGivesSeat`), from what each step of `getOrCreateDevice` knows of its device
  while it is alone (`SeatInv`).

`RequestGuardsProofs`: `RefusalsDeserved` and `ReplaysApart`, from the invariant
`Linked` that ties the nonce table to the history: a request let through less than
`Retention` ago is in the table with an expiry at least that far ahead, and
whatever is in the table was let through. `GuardTypeCorrect`. `ApiImplementsGuards`: every
behaviour of `PublicApi` is one of `RequestGuards` (`ApiSpec => Spec`: each step is a step of
the guards or leaves their variables alone), so that `ApiKeepsGuards` carries these theorems
over. `RateHolds` (`RateBounded`), from `LimiterInv`: the passes of an open bucket are its
first places, all of them and each once, and a bucket ends a window before the next
one does. So the last window holds passes of two buckets at most, and of the
older one no longer the first; each pass then has a place of its own among
`2 * Limit - 1`. A refused key finds every place of the open bucket taken
(`LimitUsed`). `ServedCounted` (`MetricsCountServed`): a handler that ends joins the set
each counter stands for, one that begins joins none. `SdksUnderstood`
(`CallsUnderstood`): `HandledWhen` says what a call needs, and each client is shown to
have it; that the C++ client writes its fields in order is `CppInOrder`.

`BackOfficeProofs`: `NoApprovalLost` (`ApprovalsCounted`), because each step adds at most one
request to those that reached a device, and then the counter is raised with it;
`OldApprovalsSpent` (`SetBackStays`), since no approval is on its way to a device that was set back;
`OnlyCurrentImports` (`ImportsCurrent`), from the invariant that a row is that of the last
file issued under its code and each file holds what its signature covers. The two parts
share no variable, so each step is looked at for one of them only. `BackOfficeTypeCorrect`.

`DemoAppProofs`, for a client that makes one call at a time (`Call = {c}`):
`CacheAndServerAgree` (`CacheAgrees`), `ShownBanStays` (`BanShown`), `DeactivationStays`
(`DeactivatedStaysOut`), `UsableHeartbeats` (`HeartbeatsRun`), `AppTypeCorrect`. What these say
between two calls depends on the call under way; the invariant says what each call
knows: it was made with the lease that is still in the cache file (`FromCache`), an answer that
changed the server's lease brings the new one (`Brings`), a heartbeat was sent by a timer only the user
has stopped since (`Beats`), and nothing answered OK is on its way while a ban is shown (`ShownOK`).

`CardKeysProofs`: `CardTypeCorrect`, `OneLicense` (`OneLicensePerKey`), `WholeRedemptions`
(`CardNamesLicense`), `LateNeverRedeemed`, `CleanRemoval` (`RemovedForGood`) and
`KeyImplementsLife` (`ImplementsKeyLife`), from one
invariant: at most one uncommitted licence, none beside a committed one; answers
are among the licences unless the product is gone. For the refinement that says which id an `Issue`
or a `Use` is about; every other step leaves the three mapped values alone.

`AdminAccessProofs`: `AdminTypeCorrect`, `LateRefused` (`LateAdminRefused`), `PasswordIsChosenFirst`
(`PasswordFirst`) and `LockoutForGood` (`LockoutIsFinal`). The invariant adds `Noted`, that what
is permitted now is recorded in `once`, and that a request past the guard has an
existing account. A lockout stays because the three handlers that could end it
are closed to everyone and a password change stores neither status nor role.

`RiskWatchProofs`: `CompareDecides` shows that `compareVersion` is negative exactly when
`Precedes` holds, through the least differing part (`LeastNumber`), and `VersionsOrdered`
that it orders versions. `WatchTypeCorrect`; `BindingNoticed` (`BindingsNoticed`: activations and
their addresses), `RushNoticed` (`HeartbeatsNoticed`), `UnbindingNoticed` (`UnbindsNoticed`), `OldVersionsWait`
(`OldVersionStopped`). A window's rows and the requests that were counted in it and
have not logged yet are counted together: while no event is raised, that sum stays
below the threshold plus the number of requests, because the count a request reads is
below the threshold and only requests past their count can add to it afterwards.
For unbinds the counter exceeds the answered deactivations by those still under way,
so the last one to read it reads enough.

`AdminConsoleProofs`: `TypeCorrect`, `MaskIsHeld` (`MaskHolds`), `TrailIsComplete`
(`TrailComplete`), `TablesKeepUp` (`ShownKeepsUp`). One invariant serves all (`Inv`): `CallsInv`
says what an operation's calls have done at each of its steps, `TrailInv` that the row
an operation is about to log was last written by it, `ListInv` that a
list read for a reload is no older than what the operation wrote, nor than what
the tables show unless something was begun past the mask.

The type invariants of the proved modules are theorems and no run checks them again.

Only model-checked: liveness (`EveryRequestAnswered`, `RedemptionEnds`, `BanReachesApp`,
`StartEnds`, `SpinnerEnds`), which is beyond the prover's reach under fairness. Every
other property of a passing run is a theorem. `LicenseServer`'s limits under `kick_oldest`
and the implementation of `SeatPool` under it are theorems for one request at a time, as
the properties themselves say: with several there is no bound to prove. The
theorems about the client are for one call at a time, too.

## 5. Plan

Done, in this order: the server core with its abstract specification, the client,
the guards, the card keys, administrators' access, versions and risk inspection, the
administrators' page; then unbind requests and offline packages, the demo application
around the client, the SDKs' calls, the metrics around the handlers; proofs of every
safety property the runs check, that the server implements `SeatPool`, and that a card key
implements `KeyLife`.

Next, by importance:

1. The server of `SdkClient` shown to be what `LicenseServer` promises one device: an
   abstract specification of a licence and its device that both are compared with.
2. Two calls of the client at once, with what still holds of them.
3. The spelling of card keys chosen by an administrator, which are stored as typed and looked up in
   upper case (`p2.controller.ts:96`).

## 6. Not modelled

Device fingerprints (pure reading of the host) and the SDK's own licence window
(`license-window.ts`: it opens a page); drawing, themes and the screens of `license-ui` other than the
form that submits a key; encryption of the cache file, the signing and parsing of tokens (a token is the
lease row it names), Ed25519 and HMAC themselves; the fields of products, plans,
tenants, channels, adapters and licences that no decision reads; filters, forms and export of the
administrators' page; the start-up checks of the configuration, migrations, scripts and deployment.
