# Verification of platform-bom

TLA+ models of Platform BOM (`pbom`), the TLC runs that check them on small
instances, and TLAPS proofs of what matters most for every instance.

`pbom` discovers what runs in a platform's clusters, compares it with releases
(documents that pin component versions) and with the releases upstream has
published, and shows the result as a matrix, on the command line or in a web UI.
It is mostly computation over data that is cached, reloaded and fetched
concurrently. The models follow that split: state machines for the parts with
caches, locks, goroutines and files, and pure operators for the analysis.

- [Inventory of the system](#inventory-of-the-system)
- [Modules](#modules)
- [Runs](#runs)
- [Bounds and fairness](#bounds-and-fairness)
- [Proofs](#proofs)
- [Where the code departs from its text](#where-the-code-departs-from-its-text)
- [Not modelled](#not-modelled)
- [Plan](#plan)

## Inventory of the system

Paths are relative to `src/internal/`.

| component | state | operations | what makes it correct |
|---|---|---|---|
| inventory cache, `service/service.go` | `invs`, `invsAt` under `mu`; `refreshMu` | `CachedInventories`, `Inventories(refresh)`; a goroutine per environment | one discovery at a time; an answer belongs to its call, respects the TTL; snapshots never go back; every call is answered |
| upstream cache, `service/service.go` | `ups`, `upsErrs`, `upsAt` under `mu` | `upstreamFor`, `covers`, `Input`, `CachedInput`; a goroutine per component, a few at a time | every component asked for gets releases or an error; what the metrics see recovers from older fetches and failures |
| operator, `operator/source.go` | four informer stores, a channel of capacity one, the reload gauge | informer events, `Run`'s loop, `build` | no change is lost although wake-ups are merged; an invalid one keeps the previous model |
| configuration watcher, `cli/reload.go` | the previous fingerprint | `configFingerprint`, `watchConfig`, `use` | every change is loaded, none twice; one that is invalid or cannot be read keeps the previous service, and is reported |
| serve, `cli/serve.go` | two atomic pointers (service, handler) | `use`, warm-up, landscape refresh, refresh ticker, shutdown | a request sees one configuration, none newer than the metrics; what is served gets warm and is named with the latest landscape |
| upstream client, `upstream/github.go` | memory and file caches, `limitedUntil` | `Releases`, `fetch`, `fetchFeed`, `readDisk`, `writeDisk` | fresh, or GitHub has failed; the limit is respected; a torn file costs a request only |
| discovery, `discovery/` | none | `Discover`, one collector per source, `ResolveVersion` | a failed source hides no other; the version found does not depend on the order of the sources |
| versions, `version/version.go` | none | `Parse`, `Compare`, `Matches` | a total preorder; a short version matches its line |
| releases, `release/`, `cli/release.go` | release files | `FromInventory`, `Write`, `Sort`, `Diff` | a release cut from an environment is fulfilled there |
| kustomization, `cli/kustomize.go` | `kustomization.yaml` | `writeKustomization`, `syncKustomization` | a release that was reported as added is applied; people's files are left alone |
| drafts, `draft/` | none | `Apply`, `Release`, `Offerings`, `Description` | with no release, the source environment is compliant with the draft |
| analysis, `analysis/` | none | `BuildMatrix`, `Satisfies`, `MatchedRelease`, `BuildUpdates` | the views agree with each other |
| catalog, `catalog/` | built-in definitions and overlays | `Load`, `Match` | an overlay replaces by name; matching does not depend on map order |
| landscape, `landscape/` | projects, replaced by a refresh | `Refresh`, lookups | readers see one landscape |
| HTTP server, `server/` | none of its own | handlers; `snapshot` combines both caches | the parts of one page belong together |
| sign-in, `auth/` | sealed session and flow cookies in the browser; `provider` under `mu` | `login`, `callback`, `logout`, `getProvider`, the session check | a sign-in nobody disturbs is not refused; a session survives other tabs; every tab is answered |
| cloud tokens, `cloudauth/` | a bearer token per cluster and its expiry, under `mu` | `RoundTrip`, `current`, the clouds' token functions | never sends an expired token; a failing fetch blocks nobody for ever |
| metrics, `metrics/`; API types, `api/` | counters; none | | the reload gauge (modelled as a variable) tells the truth |
| commands, `cli/`; web UI; charts | none | printing, file writing | |

How they interact. `serve` loads a service (file mode, `cli/reload.go`) or is
handed one by the operator, stores it in a pointer and starts a discovery. A
handler of the HTTP server loads the pointer, asks the service for inventories
(through its cache, which calls discovery) and upstream releases (through its
cache, which calls the upstream client), applies the drafts, and computes the
matrix. The command line does the same once per command. All processes of a user
share the upstream client's cache directory, and all of them read the release
files that `pbom release create` and people write.

What is hard. Requests, a refresh ticker and the landscape refresh call one cache
at once, under the contexts of clients that may go away. A lock is given up
between a test and the use of its result. Informers write stores while a build
reads them. Files change between the reads of one load, and the load and its
fingerprint are taken at different times, and any read may fail for a reason that
passes. Cache files, and the kustomization, are written in place by processes that may
die. GitHub limits, fails and comes back, and its answers are recorded late.
Discovery returns partial results. Versions are partial and partly unparsable.
Upstream is fetched by several calls at once for different names, and the last to
end is kept. The tabs of one browser share the cookies of their sign-ins, which are
sealed with a key that may not survive a restart. A token is looked at some time
before it is sent.
Releases are deleted while something refers to them.
The 40 hazards that matter most, each with its line and its properties, are in `PROJECT.json`.

## Modules

| module | models | extends / uses |
|---|---|---|
| `SnapshotRegister` | what the inventory cache promises: an atomic register of numbered snapshots | |
| `InventoryCache` | `Service.Inventories`, `CachedInventories` | instance of `SnapshotRegister` under a refinement mapping |
| `ConfigSource` | what both sources of configuration promise to `serve`: inputs that change on their own, and the one service loaded from them | |
| `Operator` | the operator's informers, channel, loop and build | instance of `ConfigSource` under a refinement mapping |
| `ConfigWatch` | the load at start, the fingerprint, the reload | instance of `ConfigSource` under a refinement mapping |
| `Discovery` | `discovery.Discover` over a changing cluster, the catalog, the landscape, `ResolveVersion` | `Versions` |
| `UpstreamCache` | `Service.Input`, `upstreamFor`, `CachedInput` | |
| `Serve` | the pointers of `use`, warm-ups, the landscape download, the ticker, requests, over the cache they call | |
| `SignIn` | OpenID Connect sign-in of one browser with several tabs | |
| `CloudToken` | the bearer token the requests to a cluster share | |
| `Kustomization` | the `kustomization.yaml` of a platform directory, the commands that write it, and people | |
| `UpstreamClient` | `Client.Releases` in one or several processes, and GitHub | |
| `Versions` | parsed versions, `Compare`, `Matches` (pure) | |
| `Analysis` | order of releases, cut, diff, drafts, matrix, updates (pure) | `Versions` |
| `Compliance` | the platform's life: upgrades, discoveries, releases, targets | `Analysis` |
| `MC<module>` | the instance TLC checks; `MCCompliance` also has that of `Kustomization` | the module |
| `<module>Proofs` | theorems and proofs | the module |
| `OperatorProofs`, `DiscoveryProofs`, `ComplianceProofs` | also those of `Serve`, of `CloudToken` and of `Kustomization` | extend it too: hence the names `ServeSpec`, `TokenSpec`, `KustomizationSpec` and the like in those three modules |
| `InventoryCacheProofs` | also that `Serve` is a sound abstraction of the cache | an instance of `Serve` under a mapping |

### InventoryCache

A caller is a goroutine that calls the cache again and again; `Modes` says which
calls are considered. One call walks through `check` (the fast path under the
read lock), `lock` (waiting for `refreshMu`), `recheck` (fresh within the last
second?), then `reread` (the read of `s.invs` outside its lock, `service.go:361`)
or `discover` (a goroutine per environment) and `Publish`. A section under `mu`
has no blocking call in it and is one step. `Cancel` ends the context of a
request at any moment: every source not yet collected then fails. What a
discovery finds is abstracted to `full`, `partial` (some sources failed) or
`failed`, with the time it was collected. `id` and `at` of a snapshot, and `at`
and `seen` of a call, are history.

### Operator

What a kind of resource contains over time is a sequence (`History`); the API
server, each informer's store and each build are at points of it. `Watch` moves a
store to a later point, `Deliver` runs the event handler, which leaves a token in
the channel unless one is there, and the loop builds from the four stores in
turn. A Platform is selected as the code does (named, or the only one). Decoding
is abstracted to well formed or not. As a `ConfigSource`, what is latest is what the
API server has of each kind, `Swap` adopts and `Reject` refuses; the informers, the
channel and the reads of a build are stutters.

### ConfigWatch

Every read of a file is a step: one for the hash, one for parsing the platform to
find the other files, one for loading. Files are replaced at once. The component
definitions and the releases stand for one file each; what the code does not hash,
because the platform does not parse, is `Absent` in the fingerprint.

Each of these reads may also fail for a reason that passes, of good files. Then a load
is given up as for an invalid file (`LoadUnread`, `reload.go:98-103`), and at the start
`serve` ends; a fingerprint goes on (`Unhashed`): a file counts as `Empty`
(`reload.go:55`), a directory as not there (`reload.go:66`), and nothing the platform
names is hashed. `MaxErrors` bounds the failures; `loadErrors` and `hashErrors` count
them and are history.

`excuse` is history too. It says why files that load and look as they did at the last
tick may not be the ones served: `start` (edited between the first load and the first
fingerprint), `restored` (edited, read by a load and put back as they were hashed),
`unread` (a load could not read them). A load that begins ends the excuse.

As a `ConfigSource`, the inputs are the files of a load, `Swap` adopts, `LoadFails`
refuses and `LoadUnread` fails; the fingerprints and the single reads are stutters.

### UpstreamClient

A worker is a goroutine, of some process, that calls `Releases`. Sections under
`Client.mu` are one step. `writeDisk` truncates in one step and writes in another,
so another reader can find a torn file, and two writers over each other leave
either a whole file or a torn one. A list of releases is told apart by its source
only: the API lists everything with its pre-release flag, the feed what is recent
without. A refusal of the API is answered in one step (`Refused`) and its reset time
stored under the mutex in a later one (`Record`), over whatever was stored since and
although a new window may have begun (`github.go:275-283`). `Restart` ends a process at
any point; its memory and the limit it knew of are gone, the files stay. `forgotten`
counts how often a process has lost the limit, by a restart or by such a late record,
and is history. GitHub (`Exhaust`, failing requests) is external.

### Discovery

One cluster is discovered again and again. `pc` is the request that comes next;
each either answers (`Reach`, `Groups`, `Page`, `BetaFunctions`) or fails, with the
error the code records. A list is read in pages: the first shows the list as it
is, the later ones continue it (`rest`), as the Kubernetes API does, while objects
come and go. An object is told apart by its list, what it refers to (an image, a
chart, a package, a group), the version this says, and whether its namespace is
ignored and it can be decoded. `Definitions` are the catalog's three layers; a
definition is the set of what its patterns match. `Names` decides which
components an object speaks for. The landscape is read at each Helm release and
may be replaced between any two steps (a page may have one release); `serve` does so once, the model as often as
it likes. `Choices` is `ResolveVersion`: a set, since the code visits a Go map.
`stable` and `seen`, what was there throughout and at some time of the discovery,
are history.

### UpstreamCache

A caller calls `Input` again and again. `Begin` reads the releases (`Refuse` when
they cannot be read), `Collect` gets inventories, the cached ones or those of a
discovery that ends now: all that `InventoryCache` leaves of that cache for a caller.
`Offline`, `FastPath` and `Spawn` are `upstreamFor` up to its goroutines, one per
component with an upstream; `Ask` takes a slot of the semaphore, `Answered` and
`Failed` give it back; `Publish` stores what this call got, whoever stored meanwhile,
and returns it. A list of releases is abstracted to being there. The TTL is one bit
(`expired`), which `Publish` clears. `Cancel` ends the context of a request, after
which its questions fail. `CachedInput` is what the metrics combine from the two
caches.

### Serve

A goroutine is a warm-up (which has the number of the service it was started for),
the ticker, the landscape download or a request. `StoreCurrent` and `StoreHandler`
are the two stores of `use`. A call goes through `check` (unreadable releases, the
cached inventories), `lock`, `discover` as in `InventoryCache`; of an inventory
remains whether it is of the last second and the landscape its charts were named
with. A call of `CachedInventories` that finds nothing goes on as one of `Inventories`
(`CachedMiss`). That nothing is lost of the cache in this is the theorem
`ServeAllowsCache`. `Modes` says which handlers are considered. Configurations come from
`ConfigWatch` or `Operator`: here, any number up to `MaxLoads`. `Exit` ends the
process at any moment.

### SignIn

The server keeps nothing of a sign-in but the provider's metadata; the state is the
browser's jar and what is on its way. A flow is its number, which stands for state
and nonce, and the key it was sealed with. `pc` of a tab is the request that is
being handled (`login`, `callback`, `checked` and `exchange` are one callback before
and after `getProvider` and the exchange), the response that has not arrived
(`redirect`, `reply`, `signout`), or the page it shows. `Fetch`, `FetchFails` and
`HasProvider` are `getProvider`. Responses set cookies only when they arrive,
so that the tabs' responses interleave. `Restart` ends the handlers that run and,
unless a secret is configured (`keyed`), changes the key. `touched` is history.

### CloudToken

A request waits for `bearerTransport.mu` (`lock`), reuses the token or fetches one
under the mutex (`get`), and sends it up to `MaxDelay` later (`send`). A token has
the expiry the cluster sees and the one that was recorded, which is `Slack` earlier. A
token function may return one with little time left. `CutOff` says whether it ends with
its context, as those of AWS and Azure do; Google's ignores it (`gcp.go:28`), and with a
credentials file nothing in this code ends its request.

### Kustomization

`file` is what pbom can tell of `kustomization.yaml`: absent, not its own, its own
(with the releases it lists), or cut short by a write that failed, within the marker
(`torn`) or after it (`damaged`). A command is one of `release create` (`Create`, then
`SyncNothing` or `SyncOwn`) and `kustomize` (also the end of `init`), and goes through
the marker (`Refuse`, `Check`, `CheckUnread`), the directory (`List`) and the write.
Each step may fail, and the command may be killed at each. `SyncNothing` is the
success that says nothing: there is no file, it is not pbom's or it cannot be read
(`kustomize.go:90-93`). `Beside` tells whether the platform's releases directory is the
one that is listed (`kustomize.go:42`). People's edits come between any two steps.
`told` is history.

### Versions, Analysis, Compliance

`Versions` has what `Parse` makes of a string: how many numbers there were (0
when it does not parse), the numbers, and the suffix. A version that does not
parse is compared as text in the code; the only one of the model is the empty
version (a component that does not tell), since other unparsed versions only come
from exported inventory files.

`Analysis` has one operator per function: `Precedes`/`First` (`Sort`),
`FromInventory`, `Change` (`Diff`), `DraftReleases`/`DraftTargets` (`Apply`),
`Status`, `Compliant`, `MatchedRelease`, `Satisfies` (matrix), `Assess`, `Worst`,
`Oldest`, `NewerThan` (updates). Texts, percentages, offerings and descriptions
are left out. Names of releases are versions (the file's name; `Files` is the
directory order).

`Compliance` turns them into a state machine. The inputs of the analysis are what
it reads at every request: the inventories of the latest discovery, the release
files, the targets. Actions are `Upgrade` of a cluster, `Discover` (partial in
`Flaky` environments), `Cut` (`pbom release create`; its kustomization is a module of
its own), and what people do to the files: `Pin`, `Delete`, `Target`. `origin` (which environment a release was cut
from) and `complete` (whose inventory is all that runs) are history.
`release.Write`'s test for the file and its write are one step.

Operators marked as mutants beside the definition they vary are not part of any
behaviour; they are the faulty variants that show that a property can fail.

## Runs

| run | question | distinct states |
|---|---|---|
| `inventory_shared` | is the unlocked read safe, do answers respect the TTL, do snapshots go forward, spaced; does the cache implement the register, and answer every call | 284,110 |
| `operator_rebuild` | is a wake-up ever lost, is the gauge truthful, does the last valid configuration get served; is it a source of configurations | 188,844 |
| `config_watch` | is a change remembered as seen and not served, is every reload paid for by an edit or a failed read, do the last good files get served; is it a source of configurations | 651,189 |
| `upstream_client` | fresh or failed, whole files never fail, fresh files spare requests, one refusal per window and lost limit, every call returns | 540,926 |
| `upstream_cache` | does each answer decide what it was asked for although other calls replace the cache, do the metrics recover, does every call return | 85,687 |
| `serve_swap` | is a request ever ahead of the metrics, is what is served in the end warm and named with the downloaded landscape | 135,744 |
| `sign_in` | what can refuse a sign-in, what can end a session, is every tab answered | 73,506 |
| `cloud_token` | is an expired token ever sent, does every request end if fetches do | 16,840 |
| `compliance_matrix` | do the views agree, are cut and drafted releases fulfilled, does one release disturb others; does a release whose creation told of the update stay in the kustomization | 86,122 |
| `discovery_sources` | is anything missing without an error, do trustworthy sources decide, is a quiet cluster reported exactly, does every discovery end | 56,386 |
| `inventory_cancel`, `config_unread` | each shows one statement of the repository's text that the code does not keep (below) | |

What the properties say, for the code's reviewer:

- `UnlockedReadSafe`: `service.go:361` reads `s.invs` after giving up the lock
  under which it was found fresh. It is safe only because publishers hold
  `refreshMu`, as the reader does.
- `RegisterSpec`: a call takes effect at one instant. The mapping hides the locks,
  the goroutines and the clock: `latest` is the number of the snapshot published,
  a caller is `waiting` until the step that fixes its answer.
- `QuietMeansCurrent`: the channel drops a token when it is full, and a build
  reads stores that are being written; still, when nothing is under way, what is
  served is what the stores hold, or it was refused and the gauge says so.
- `WatchedMeansServed`: the fingerprint is remembered *before* the load it asks
  for, and taken at other times than the load's reads; still a change seen is a
  change served, with three exceptions, each named by `excuse` and none wider than the
  code: an edit between the first load and the first fingerprint; a content put back as the last tick hashed it
  after a load has read the one in between, which the next tick cannot tell; and a
  load that could not read the files, as long as the gauge says that it failed
  (`config_unread` is about that one). A later load that begins ends each.
- `ReloadsPaid`: a reload discards all discovered inventories. The same
  misalignment could cost two reloads for one edit; it does not. A read of a
  fingerprint that fails costs up to two without any edit, since nobody tells an
  unreadable file from an empty one.
- `SourceSpec` (of `ConfigWatch` and of `Operator`): what is served loads, is of points
  that the inputs had reached, and is behind the service it replaces in none. This is
  not plain where the reads of one load are separate and the inputs change between
  them. A load that fails takes nothing away and is reported, and it is reported only
  when something it could have read does not load (`Refuse`) or a read failed (`Fail`).
- `Converges`: once edits and errors stop at files that load, these get served, or the
  excuse stands: no tick retries a load that failed.
- `FewRefusals`: a goroutine that was refused asks again in the same window only if its
  process has lost the limit, by a restart or by a refusal of an earlier window that was
  recorded late. That it is not refused twice otherwise needs the test of the limit, the
  record and the clock together.
- `FreshFileSpares`, `KnownNeverFails`: what the cache directory promises, with
  files that may be torn at any time by another process.
- `AnswerDecides`, `CachedInputRecovers`: without single flight, a fetch for older
  names can replace a later one, an error counts as an answer for a whole TTL, and a
  client that goes away leaves its errors to everyone. No call is misled by it:
  `covers` makes it fetch again. What the metrics read is not checked by `covers`; it
  is complete and free of errors again once things settle, but only because an
  entry expires and somebody calls.
- `NeverAhead`: `use` stores the service before the handler; requests are served by
  the configuration the metrics describe, or the one before.
- `ServedCatchesUp`: the warm-up of a service returns at once while releases cannot
  be read, and the discovery that the landscape download forces is usually coalesced
  (`service.go:357-362`) with the warm-up's, which named charts with the old
  landscape. Nothing tries again but the ticker: the property is lost when it keeps
  the first service it saw.
- `UndisturbedSucceeds`: a callback is refused as expired or mismatched for three
  reasons only. The third, another response in the browser, is not in the text
  (below).
- `SessionLasts`: failing sign-ins in other tabs take nothing from a session. What
  does end it early is a restart without a secret, or the late reply of a flow that
  was sealed before that restart.
- `NeverSendsExpired`: the token is looked at, then sent; the minute of `current` is
  for the time between. A new token is not looked at: the model assumes that token
  functions return tokens that outlive the delay.
- `CompliantMeansSatisfied`: the matrix says compliant by counting cells,
  `MatchedRelease` by `Satisfies`; both must say the same.
- `CutIsFulfilled`: what a complete discovery found is pinned such that the
  environment satisfies it. A release cut from a partial discovery need not be:
  where the trustworthy source of a component failed, another one tells its
  version, and `release create` pins that without a word (`Told`, `Lesser`).
- `UpdatedIsApplied`: a creation that says "Updated" stays true while other creations
  fail, pass over the file or are killed, as long as the file is pbom's and whole, the
  release is there, and people have not taken it out. A creation without that line
  promises nothing: `release create` succeeds without a kustomization, and with
  `releasesDir` elsewhere it says "Updated" without listing anything.
- `MissingIsTold`: an inventory is partial in two ways, a source that failed and
  packages that were never asked for because the groups failed; a reader of
  `errors` must be able to tell both, also when the cluster changes meanwhile.
- `TrustedVersion`, `QuietIsExact`: what `ResolveVersion` promises, over evidence
  that was read at different times; exactly when nothing changed or failed.
- `UpdatesAgree`: a matrix row takes the worst of the environments, an update
  entry judges the oldest version that runs.
- `OthersDoNotMatter`: drafting moves targets of environments without one when a
  release appears; environments with a target are not moved.

## Bounds and fairness

| module | bound | why it is enough |
|---|---|---|
| InventoryCache | 2 callers, 1 environment, `MaxClock` 2, `TTL` 2 | the second caller is the one who waits, coalesces or overtakes; the environment may be found in full, in part or not at all; the clock passes the coalescing window and the TTL. More callers and environments are covered by the proofs |
| Operator | histories of at most 3 points per kind, 7 edits in all | an edit during, before and after each read of a build; ambiguous, broken and repaired states |
| ConfigWatch | at most 3 edits per file, `MaxErrors` 2 | each file edited between any two reads; the platform broken, repaired and rolled back, the components emptied and written again; a failed read in a load and in a fingerprint, or two in one of them |
| UpstreamClient | 2 goroutines of one process, 1 repository, `MaxClock` 1, `MaxForgotten` 1 restart | TTL and window both pass, and a refusal of the first window may be recorded in the second. Two processes are beyond TLC with restarts; torn files appear through restarts and the second writer, and the safety theorems hold for any processes |
| UpstreamCache | 2 callers, one of which may go away, 3 components, 1 slot, 1 change, 1 failure | one component comes and goes, one is only pinned, one has no upstream; the goroutines of a call contend for the slot and the calls for the cache |
| Serve | 2 loads, 1 edit, 1 request in mode `cached` | a swap during each warm-up, download, tick and request; the start, before the releases can be read, is the one that leaves a cold cache |
| SignIn | 2 tabs, 2 sign-ins, 1 restart | each tab has one flow, or one tab a second one while the other is refused; the theorems hold for any number |
| CloudToken | 2 requests, a clock past two lives of a token, `CutOff` TRUE | one fetches while the other waits, reuses or holds a token that expires |
| Discovery | 12 objects in all lists, 1 change, 2 landscapes | images, a chart and groups speak for one component with different versions; every list has a page boundary in it; the change falls between any two requests or pages, and `MissingIsTold` is proved for any number of changes |
| Kustomization | 3 releases, a releases directory that is listed, the file of pbom's at the start | one that is created, one before it and one that comes in between; any number of commands and edits, which reach every other start. `MCCompliance` explores it beside the platform, each while the other is where it starts: they share no state |
| Compliance | 2 environments, 2 components, 2 release names, `MaxEdits` 3, 1 listed newer release (the code's limit is 15) | a cut needs an upgrade before it and an edit after it; versions with one, two and three numbers, a pre-release and none |

`MaxClock`, `MaxTime`, `MaxEdits`, `MaxChanges`, `MaxErrors`, `MaxFailures`, `MaxForgotten`,
`MaxLoads`, `MaxFlows` and `MaxRestarts` bound the exploration. The theorems hold for every
value of them, so for every reachable state of a system without.

Fairness, where liveness is checked:

- goroutines are scheduled and the calls they wait for end: the HTTP client has a
  timeout, discovery runs under one of two minutes (weak fairness on a caller's
  or worker's step and on each discovery goroutine);
- a Go mutex hands itself to the longest waiter after 1 ms (strong fairness on
  `Lock`);
- every request of a discovery is answered or fails: its client has a timeout of
  30 s (weak fairness on the requests together);
- informers keep watching and their handlers run (client-go); the tickers tick
  (with `--refresh-interval 0` there is none, and `ServedCatchesUp` does not hold:
  what the warm-up or the download missed is made up for by requests at most);
- in `UpstreamCache` somebody whose client does not go away keeps calling `Input`
  (a page that is open, or the ticker), and time passes until the TTL has;
- in `SignIn` handlers run, their calls of the provider time out (15 and 30 s), and
  responses arrive. Users and the clock owe nothing;
- in `CloudToken` requests are sent and the mutex is fair; a fetch ends (weak
  fairness on `FetchEnds`) only if `CutOff`, that is, if the token function ends with
  the 30 seconds of its context.

That last condition is one on the other modules too. On a GKE cluster whose token comes
from a credentials file, `gcp.go:25-33` asks for it without any context: the request
holds the transport's mutex for as long as Google does not answer, and neither the 30
seconds of a discovery's client nor the two minutes of a discovery end it.
`EveryCallAnswered`, `RegisterSpec` (whose fairness is that of the calls),
`EveryDiscoveryEnds`, `EveryInputReturns`, `CachedInputRecovers`, `ServedCatchesUp` and
`EveryRequestEnds` are therefore claims about clusters with other credentials. With `CutOff = FALSE`, TLC finds requests that
wait for ever. No text of the repository says otherwise, so no run repeats it.

Nothing forces an edit, a cancellation, a restart or a limit, and, but for that
caller and the tickers, a call.
Runs with `CHECK_DEADLOCK FALSE` are those where the system may really stop
(`serve` exits when its first load fails) or where the bound ends the behaviour
(`SignIn`: all sign-ins are used up and the users do nothing).

## Proofs

Proved with TLAPS, for all values of the constants that satisfy the named
assumptions (finite histories, disjoint sentinels, positive TTL). Every invariant and
every safety action property of the runs that pass is proved. The type invariants are
proved too, and left out of the runs. `PaidInv`,
`EvidenceInv`, `ChosenInv`, `ToldInv`, `NewestInv`, `HolderInv`, `RecordedInv` and `HeldInv`
below were checked by TLC on the instances of the runs before they were proved.

Two assumptions are about data the code produces. `ToldAssumption` (`Compliance`): the
versions in an inventory parse or are empty, because `ResolveVersion` skips versions
that do not parse. `ComponentsAssumption` (`Analysis`): at least one newer release is
listed (`maxNewer` is 15); with none, an entry could be behind and list nothing.
`TimeAssumption` (`CloudToken`) says that a request is sent within `MaxDelay` of
looking at its token, that `MaxDelay` is within the code's minute, and that a token
outlives it when it is new: without these a token may expire in flight, and the code
does nothing about it.

- **`InventoryCacheProofs`**. `IInv` adds to the properties who holds the mutex
  (`LockInv`: exactly the caller between `Lock` and `Unlock`, and only it has
  discovery goroutines) and the clocks (`ClockInv`: nothing is stamped in the
  future, a discovery under way started after the snapshot it will replace).
  `SingleFlight`, `UnlockedReadSafe`, `AnswerInCall`, `BoundedStaleness` follow;
  `NeverOlder` and `Throttled` follow for each step from `IInv` and `IInv'`. It
  is the clock part that makes `Throttled` inductive: a publisher found the
  snapshot at least a second old, and nobody published since.
  `ImplementsRegister` maps every step to a step of `SnapshotRegister` or a stutter
  (safety; its fairness is checked by TLC).
  `ServeAllowsCache` is the other abstraction: through the mapping `View` (the mutex is
  held by whoever discovers, an inventory is recent or not, a call has its place)
  every step is one that `Serve` allows a service's goroutines, or a stutter, for any
  TTL of at least the coalescing second. A tick ages the inventory or is a stutter; a
  read after a miss that finds an expired snapshot is why `Serve` has `CachedMiss`.
  TLC agrees on the instance of `inventory_shared`. The theorem says nothing of the
  initial state: in `Serve` a service is loaded first.
- **`OperatorProofs`**. `NoLostUpdate` is the argument behind `QuietMeansCurrent`:
  each kind whose store differs from the latest view has an event undelivered, a
  token in the channel, or a build that has yet to read it. It needs that two
  different sets of objects differ in some object (`ChangeReported`). For
  `ImplementsSource` a build must not take a kind back: `OrderInv` says that the points
  it has read lie between those served and those of its store, which follows the
  cluster.
- **`ConfigWatchProofs`**. Nothing is assumed of the contents, which may come back.
  `SettledInv` is what the fingerprint is for: when no load is under way, files that load
  and look as they were fingerprinted are the ones served, unless there is an excuse; and
  while the components are being read, a platform that still looks as it was hashed is the
  one the load has read. Of each edit one has to see that it makes the files differ
  from the fingerprint, brings back what is served, or leaves an excuse (`EditIInv`).
  `StartInv` carries this through the first fingerprint, `ExcuseInv` says that what could
  not be read has been reported, which is the third exception of `WatchedMeansServed`.
  `ReloadsPaid` counts swaps against edits, which no step's guard relates: a swap
  follows an edit by up to eight reads of three files. `PaidInv` says that what has
  been swapped, together with what is still `Due`, is paid for. Due is a reload for
  the load under way or the difference that the next comparison will find (`Asked`),
  one more if the files have left that fingerprint behind (`Behind`), and one in hand
  for each file that does not load, as its repair will cause one. An edit makes at
  most one more due (`EditDue`), a read of a fingerprint that fails two (`UnhashedDue`),
  every other step none (`TakeDue`, `CompareDue`, `LoadDue`, `UnreadDue`), and a swap
  takes one (`SwapDue`). `ImplementsSource` rests on the same invariants: what a load has
  read is at or after what is served, a load that goes on has read a platform that
  parses, and one that is refused has read a content the files had since (`DiskLoads`).
- **`Serve`** (in `OperatorProofs`). `NewestInv`: the current service
  is the newest, and a goroutine named after a service without a handler has not
  begun, so no warm-up is started over one that runs. With it `NeverAhead` is
  inductive. `HolderInv`: who discovers holds the mutex of the service it loaded;
  `OneDiscovers` follows, for all the goroutines that share a service.
  `CallsKeepService`: a call that has loaded the pointer stays with its service. The
  one step that could replace a call under way is `StoreHandler`, which starts a warm-up;
  by `NewestInv` its goroutine is idle then.
- **`UpstreamClientProofs`**. `CleanInv`: a worker whose file stayed whole has read
  what is still there, and has gone on only because that was too old. `AnswerInv`:
  an answer is either fresh or the outcome of a failed fetch. `LimitInv`: a
  worker is refused once more often in a window than its process has lost the limit only
  if the limit is in `limitedUntil`, or will be by the record of this very refusal; so
  it does not ask again. A record that is late replaces the limit by an earlier time,
  and `forgotten` counts it.
- **`UpstreamCacheProofs`**. `CacheInv`: what is cached has no name both in its lists
  and in its errors. `FetchInv`: a fetch has a goroutine for each of its names with an
  upstream, so that when none waits or asks, each has an answer (`PublishedCovers`).
  Together with the guard of the fast path, `AnswerDecides` is inductive. `SlotsFlow` is
  the safety part of `EveryInputReturns`, by counting the goroutines that ask: no more
  than the slots, and none waits for a slot that nobody will give back.
  `ErrorsAreFailures` says where errors come from: as long as no request failed and no
  client went away there is none anywhere.
- **`SignInProofs`**. `OwnCookieInv`: as long as nobody else writes the jar, the cookie
  that a tab will send, or has sent, is its own flow's. `KeyInv`: keys are those of
  this process or an earlier one, so a flow that was refused for its key stays
  foreign after a restart, and a session that replaces another with a foreign key
  shows that there was one. `BoundInv` counts the sign-ins that wait.
- **`CloudToken`** (in `DiscoveryProofs`). `HeldInv`: a request that is about to
  send holds a token that, when the request looked at it, outlived the whole delay;
  a reused one by the margin and because no recorded expiry is later than the real
  one (`RecordedInv`), a fetched one because tokens do. `NeverSendsExpired` follows
  when `Send` reads what was looked at before.
- **`DiscoveryProofs`**. `PassedInv`: for a list that was passed, each object that
  was there throughout is accounted for, as evidence or by an error; `PageInv`
  carries this through the pages of the list being read (what was there
  throughout is in `found` or in `rest`); `PackagesInv`: packages are not asked for
  only when the API was not there, so no package was there throughout, or when
  the groups failed; `InventoryInv`: the inventory has every name of `found`.
  `EvidenceInv`: whatever is installed or removed between the requests, evidence is of
  an object that was seen and speaks for its component; `ChosenInv`: the version in the
  inventory is one of those that evidence allows. `TrustedVersion` adds that more
  evidence never makes the deciding kind less trustworthy, and `QuietIsExact` that
  without changes and errors the evidence is exactly what is sure. That there is a
  deciding object at all (`DecidingExists`) is the existence of a minimal element.
  `RequestsGoOn` is the variant behind `EveryDiscoveryEnds`: each request is followed
  by a later one, or by the next page of its list with fewer objects left.
- **`ComplianceProofs`**. `IInv`: a release with an origin pins nothing its cluster
  does not run (`CutFromRunning`), a complete inventory is what runs, and every
  such release is listed. The views need the theory of `Versions`:
  `VersionsPreordered` (the order is total and transitive, which sorting relies
  on), `MatchesItself`, `FullPinsAgree`; and of sorted lists: `NewestExists`,
  `FirstIsNewest`. Existence of a least element is taken from the library's
  theorem that strict inclusion on finite subsets is well founded.
  `UpdatesAgree` relates the two pages, which assess a component by different
  versions: the row by the worst of its environments', the entry by the oldest
  version. `ToldInv` keeps versions that do not parse out; `AssessKnown` says when the
  newest release leaves a version the latest, and `AssessOrders` that without a support
  window an older version is never assessed as better.

- **`Kustomization`** (in `ComplianceProofs`). `ListedInv`: the file
  that is about to be written lists the release being created and whatever creations have
  told of, since the directory is listed after the one and what people delete meanwhile
  no longer counts.

Only model-checked: liveness (`EveryCallAnswered`, `FollowsCluster`, `Converges`,
`EveryCallReturns`, `EveryDiscoveryEnds`, `CachedInputRecovers`, `EveryInputReturns`,
`ServedCatchesUp`, `EveryTabAnswered`, `EveryRequestEnds`) and the register's fairness
(`RegisterSpec`), which are out of the prover's reach. For two of them the theorems have
the safety part of the argument (`RequestsGoOn`, `SlotsFlow`).

## Where the code departs from its text

Two have a run that shows them and an entry under `findings` in `PROJECT.json`.

- `inventory_cancel`: a client that disconnects during a discovery leaves
  inventories of *reachable* environments with errors in the cache of everyone
  (`service.go:372` discovers under the request's context), against
  `service.go:345`.
- `config_unread`: a valid change whose load could not read a file is not loaded by any
  later tick, as its fingerprint is remembered before the load (`reload.go:97`), against
  `usage.md:67` and `reload.go:81`, which excepts invalid changes only.

The modules have the others as the code does, so that TLC's exploration goes through
them; a property that holds excepts them or is not about them, and no run repeats them:

- A file edited between the first load and the first fingerprint is not reloaded
  (`reload.go:84`), against `usage.md:67`: the excuse `start` of `WatchedMeansServed`.
- A refusal of the window before, recorded late, replaces the limit of this one
  (`github.go:282`), and a goroutine is refused twice without a restart, against
  `github_test.go:74`, "once rate limited it must not be retried": `forgotten` in
  `FewRefusals`.
- Without a readable cache file a call fails while expired releases are in memory
  (`github.go:136`), against `github.go:81`; `KnownNeverFails` is about whole files.
- An environment whose target does not exist, a typing error or a release that was
  deleted, has no cell that differs: `pbom drift --exit-code` says "No drift: every
  environment matches its target release" (`cli/matrix.go:131`), while the matrix shows
  it as not compliant (`analysis/matrix.go:298`).
- A `kustomization.yaml` that was cut short while pbom wrote it is refused as not
  generated by pbom (`kustomize.go:29`), and one that people wrote and that cannot be read
  is written over, against `kustomize.go:14`, "starts every kustomization.yaml pbom
  writes, so pbom only ever rewrites its own files": `WriteFails` and `CheckUnread`.
- Two release candidates of one version compare as equal; with equal counts the
  order of a Go map decides which is reported (`discovery.go:504`), against
  `discovery.go:480`. `Choices` in `Discovery` is a set for this reason.
- Read from the feed, a release flagged as a pre-release counts as stable
  (`github.go:255`), against `github.go:81`.
- 1.0.0-rc.1 and 1.0.0, once cut, have the same `version` field, and the
  pre-release is listed first (`release.go:79`), against `release.go:65`.
- Two tabs that sign in disturb each other: the second redirect replaces the flow
  cookie, and the first tab's callback, refused as a mismatch, clears the cookie of
  the second (`oidc.go:177`), which is then refused as expired.
  `authentication.md:189` explains the refusal by ten minutes or blocked cookies
  only. `UndisturbedSucceeds` states what is true.

## Not modelled

- The text of anything: formatting, messages, the YAML and JSON of documents, the
  percentages of the summary, offerings, descriptions.
- HTTP routing, flags, printing; the web UI; charts, manifests and CI.
- The glob patterns of the catalog, the download and parsing of the landscape, the
  cluster's distribution and nodes.
- Of `serve`: the draining of requests at shutdown (`Exit` ends everything at once).
- Of sign-in: the header mode of `auth.go`, which keeps no state; which groups are
  allowed (an outcome of the exchange) and where a sign-in returns to.
- Of the cloud tokens: how each cloud makes one, and credentials of AWS that expire
  before the URL that was signed with them.
- Two commands at once on one directory: a person types them. `Compliance` and
  `Kustomization` have them one after the other.
- Of the kustomization: its namespace, and what it lists besides releases.
- Unparsed versions other than the empty one.
- Go's memory model: every access the models treat as one step is under a lock or
  an atomic in the code, except the one `UnlockedReadSafe` is about.

## Plan

Done: the caches, the sources of configuration, discovery, the analysis and its
life, the upstream cache, the composition of `serve`, sign-in and cloud tokens.
All safety properties of the runs are proved. Left, in order of what it adds:

1. `AnswerDecides` over an `UpstreamClient` in place of an arbitrary answer, as
   `ServeAllowsCache` does for the inventories: the composition is beyond TLC and a
   matter for a proof.
2. `ConfigSource` under `Serve`. That both sources implement it is proved; what is left
   is that `Adopt` is the moment of `StoreCurrent` and `StoreHandler` follows, by the same
   goroutine.
3. The files that `pbom init` writes one after the other, with failures in between;
   `Kustomization` has its last.
