# TLA+ models of Reverse_Proxy

Reverse_Proxy is a Go program for small routers and hosts: a reverse proxy with
TLS, a port forwarder, a dynamic-DNS client, an ACME client, a Cloudflare Tunnel
manager and a management UI, in one process that keeps its configuration in two
files. Its front end is a Vue application that polls that process. This
directory models the core of both in TLA+, checks small instances with TLC and
proves the main results for all instances with TLAPS.

    tlc -workers 2 -config StateStore_safety.cfg MCStateStore.tla
    tlapm StateStoreProofs.tla

`PROJECT.json` lists components, runs, the definitions with the lines they are
translated from (`map`), bug variants that break each property (`mutants`), the
hazards of the code and the theorems.

## 1. Inventory

The process is one Go program. `main.go` builds the services, the HTTP API calls
them, and each service owns goroutines of its own. What they share:

* `config.Config`: the configuration, an `RWMutex` around a struct, written to
  `config.json`;
* `config.StateStore`: the runtime state (TOTP replay counter, what the
  certificates are doing), written to `state.json`;
* the firewall (`uci` on OpenWrt), which sites and forwards open ports in;
* the certificates, read from a directory by the sites;
* `logcenter`, `notify` and `guard`, which everybody reports to.

The UI (`web/src/`) runs in browser tabs, several at once. A tab shares nothing
with another one but the server and what the browser stores: the user's name and
the notice of the initial password. Inside a tab everything happens between two
`await`s, so what races are the answers: a timer's, the user's, and those of a
page or a dialog that was left. The pages guard against it with a flag
(`loading`), a generation that each load counts up, the revision of what was
shown, or a timer that is stopped.

| component | state | operations | interacts with | hard behaviour | correct when |
|---|---|---|---|---|---|
| State store `config/state.go` | data, `dirty`, `gen`, timer, `flushMu`, `state.json` and its `.tmp` | `Update`, `Flush`, `flushAsync`, seed, `Close`, `LoadState` | authentication, certificates | debounce timer against explicit flushes; update during a write; failing writes; crash between write, rename and directory sync | acknowledged writes survive; clean means saved; the file never goes back; unsaved data is scheduled |
| Administrator authentication `api/`, `auth/` | credentials, generation, tokens, login challenges, setup tasks, TOTP counter in memory, state store and file | login, two-factor login, password change, setup/enable/disable/regenerate, confirm for other modules, import of a backup, logout, restart | state store, configuration, update | bcrypt outside the lock; body read between authentication and lock; restart in the window of a code | no session, challenge or setup outlives the credentials it came from; codes work once; racing changes refused |
| Reverse proxy `webproxy/` | site servers and snapshots, handler caches, handlers, shared admissions, node slots, probers, hijacked connections | match, build, serve, fail over, reload, stop, start, probe | configuration, certificates, guard, firewall | reload and stop under requests; reference counts over old and new handlers | served as checked; limits span generations; nothing leaks |
| Encrypted configuration `config/config.go` | struct in memory, `config.json`, key file | `Read`, `Update`, `Restore`, load, reset | everybody | write fails after the change in memory; crash during the write | readers see only what is on disk; no lost update |
| Port forwarding `forward/` | runners, listeners, sessions, connection slots, ring log | `Reload`, `Stop`, accept, relay, reset | firewall, guard | reload gives up its lock while old listeners close; bind failure | running rules are those of the configuration; slots are returned |
| Firewall openings `firewall/` | ports per source, added ports, pending commit; `uci` staged, committed, effective | `SetDesiredFrom`, reconcile, `Rules` | forwarding, sites, API | a command of several fails; process restart between change and commit; reboot | exactly the wanted ports are open in the end; nothing that is not ours is touched |
| Certificates `acme/` | requests under way, pending reloads, files, served cache, failure counts | issue, renew, import, map, delete, reload | configuration, state store, sites, DNS | a certificate arrives after an edit; pairs of files replaced in two steps; failing reload | the key served belongs to the certificate; nothing is written for a deleted entry |
| Dynamic DNS `ddns/` | task loops, last addresses, status | start, stop, edit, run now, upsert | configuration, DNS providers | an edit while a request is at the provider | the record is that of the latest configuration in the end |
| Cloudflare Tunnel `tunnel/` | instances, processes, operation journal, routes | create, publish, delete, reconcile, recover | configuration, cloud API, sites | crash between two cloud calls; answer lost; retry of what was done | no orphan resource without a journal entry; repeated requests create one tunnel |
| Tunnel runtime `tunnel/runtime*.go` | install journal, binary and previous binary | download, install, confirm, roll back, recover | tunnel | crash between two renames | a restart finds a runtime that was confirmed, or the previous one |
| Program update `upgrade/` | staged upload, status file, executable and backup | upload, install, restart, confirm, roll back | authentication | crash between two renames; upload expires during install | there is always an executable; a failed start rolls back once |
| Protection `guard/` | policies, ban table, counters, trap listeners | check, ban, unban, reload, trap | sites, forwarding | reload against checks; table at its cap | bans survive a reload; the table stays within its cap |
| Notifications `notify/` | queue of 64, counters, worker | handle, send, retry, close | everybody | full queue; close while sending | every event is sent, failed or counted as dropped |
| Log center `logcenter/` | ring, files, writer, subscribers | append, clear, rotate, stream, close | everybody | clear against queued entries | cleared entries do not come back; close loses nothing |
| Metrics and dashboard | samples, history on disk or not; per tab the range, the site, the loads under way | sample, save; load, choose, switch | sites | answers of two loads overtake each other; the range changes during a load; a site is deleted elsewhere | what is drawn is what is chosen; the switch shows what the server does |
| Editing of sites and rules `webproxy/api.go`, `web/` site dialog and rule editor | sites with revisions, health checks, `mutationMu`; per tab the list, the dialogs, what they were filled from | change, move, switch, add, delete, with reload and rollback | configuration, proxy, firewall | several tabs; answers late, lost and sent again; a reload that fails | nothing is overwritten that its editor was not shown; nothing is done twice |
| Lists in the UI (forwards, certificates and mappings, DDNS with records and credentials, protection, access groups, trap, notifications, tunnel routes, backend pools) | list, dialog, timer, `loading`, requests under way | load, tick, open, save, switch, remove, leave | the service behind each | a load skipped because one is under way; older answers last; hidden tabs | the list catches up; edits name what they were made on |
| Long operations in the UI (tunnel, runtime, program update) | the operation shown, timer, requests | start, poll, refresh, leave, come back | the service behind each | start and list overtake each other; another client starts the next one | the end of an operation is noticed |
| Network discovery | scans of the server; generation, scan and timer of the dialog | start, load, cancel, close | - | closed while a scan is being started | no scan without a dialog |
| Session of a tab (`Layout.vue`, `Login.vue`, `api/index.js`, router, store) | session cookie, stored user, dialogs, deferred redirects | enter, log in, account dialogs, restore, refuse | authentication, backup | requests refused while a restore or new recovery codes are on the screen | the result is shown; a dead session leads to the login page |
| Rate limits `webproxy/limiter.go`, `api/ratelimit.go` | windows per client | allow, fail, reset, evict | authentication, sites | eviction at the cap | a client that is blocked stays blocked for its window |
| Main, backup archive, static files, WebDAV, CGI, texts and styles of the UI, packaging | - | - | - | - | not modelled, see section 7 |

The hazards that follow from this, each at its line, with the properties that
cover it or the module planned for it, are in `PROJECT.json`.

## 2. Plan

Order: what the rest relies on first, what locks the owner out or serves the
wrong thing next, then the services.

| # | module | composes | abstract specification | status |
|---|---|---|---|---|
| 1 | `StateStore` | - | `DurableMap` | done, proved |
| 2 | `AdminAuth` | the store, as one counter that is saved or not | - | done, proved |
| 3 | `ReverseProxy` | sites, handlers, pools | - | done but for probing and hijacked connections; its safety proved |
| 4 | `ForwardService`, `FirewallManager`, composed in `Openings` | forwarding and sites report their ports to the firewall | at rest, open is what is wanted (`OpenAsWanted`) | done but for connections; its safety and the composition proved |
| 5 | `SiteEditing` | API and UI of sites and rules | - | done; its safety proved |
| 6 | `ListPages`, `Progress`, composed in `Pages`; `Discovery`, `Dashboard`, `SiteSeries`, `LogStream`, `Console`, composed in `Views` | a page each, with the part of the server it follows | - | done; their safety proved |
| 7 | `ConfigStore`, with `CertManager` and `DdnsWorker` as its clients | configuration edited under jobs | an atomic register | planned |
| 8 | `RuntimeInstall`, `UpgradeManager`, `TunnelOperations` | journalled installs with crashes | old or new, never neither | planned |
| 9 | `Observers` (guard, notify, logcenter), `HealthCheck` and hijacked connections in `ReverseProxy`, `FailureLimiter`, `TokenStore` | - | a bounded queue | planned |

Runs to come: one safety run for each of 7 and 8. Theorems to come: type
correctness and the main invariant of each module of 7 and 8.

## 3. Modules and code

### StateStore (`config/state.go`)

A step is one critical section of `st.mu`, or one file-system call made with
`flushMu` held and `mu` released. Values do not matter, only which write of a key
it is, so the state is a version per key and the set of keys that hold a value.

| code | model |
|---|---|
| `Update` and `armFlushLocked` | `Update`, `Armed` |
| `Flush` up to the unlock of `mu` | `FlushClean`, `FlushSnapshot` |
| `writeStateFile`: write and sync of `.tmp`, rename, sync of the directory | `WriteTmp`, `WriteFails`, `Rename`, `DirSync`, `DirSyncFails` (the error of the last is ignored by the code) |
| the end of `Flush`, with the comparison of generations | `FlushFinish` |
| `time.AfterFunc` and `flushAsync` | `TimerExpires`, `AsyncClear`, `AsyncRearm` |
| `seed`, `Close`, `LoadState` | `Seed`, `Close`, `Loaded` |

`ProcessDies` loses memory and keeps the files as the kernel sees them (`view`).
`PowerFails` may put the file back to what was last synced (`durable`), or not.
`Promised` is the refinement mapping to `DurableMap`: memory, file, acknowledged
writes, and whether a rename was ever left without its directory sync (`cut`),
after which the code does not know that the power may still take it back.

### AdminAuth (`api/router.go`, `totp.go`, `auth_state.go`, `backup.go`, `auth/`)

A step is one critical section of `twoFactorMu`, or one read outside it. A
request walks through `pc`: authenticated (`valid`), let through in spite of the
initial password (`allowed`), admitted with the generation of that moment
(`admitted`, a lock taken after the first), its body read (`decoded`), the hash read for
bcrypt (`proved`, `hashed`), and confirmed for another module. A hash is the
password it belongs to, so bcrypt is equality; it takes its time because other
steps come between the read and the use. Rate limits, wrong passwords and bad
input are `Refused`, which may happen at any of these points; the expiry of a
token, its eviction at the cap, and a logout are `TokenGone`, at any moment. A
TOTP code is a secret and a 30-second period and is valid in its own and the two
neighbouring periods. An imported backup of an old format may bring a counter
along, which is taken where there is none. The replay counter exists three times, as in the code: in
memory, in the state store, in `state.json` (`last`, `counter`, `saved`).
`used` is a history variable: how often each code was accepted.

### ReverseProxy (`webproxy/server.go`, `reverse.go`, `backend_pool.go`, `healthcheck.go`)

Several sites with one rule each share one pool, whose revision is the revision
of the rules. A request matches a rule in the snapshot of its server (`Match`),
gets the cached handler or builds one (`Cached`, `Build`, `Join`), enters it,
takes a slot of the pool (`Admit`), picks a node and takes one of its slots
(`Pick`, `Take`, `Full`), may be replayed on another node (`Failover`) and gives
everything back in the order of the deferred calls (`ReleaseNodes`,
`ReleasePool`, `Leave`). A reload is the sequence the code makes of it: the new
snapshot (`UpdateSite`), the retirement of each handler it dropped (`Shutdown`)
and the stop of its prober (`StopProber`); `Edit` is a change of the pool and
the reload that reads it; `StopSite` shuts the cached handlers and closes the
server later (`SiteClosed`). Counts are integers, not naturals: that they never
go below zero is what `CountsAreExact` says. Which nodes are healthy is left
open: a pick may pass over any node, or find none.

### ForwardService (`forward/forward.go`, `forward/api.go`)

A process is a request of the API, or main when it starts and stops the service.
A step is one critical section of the configuration or of `mu`, or one listener
that is opened with `mu` held. Rules are listening addresses with two flags.

| code | model |
|---|---|
| POST, DELETE, toggle: `cfg.Update` | `Edit` |
| PUT: the read of the previous rule, then `cfg.Update` | `ReadPrevious`, then `Put` or `PutRefused` |
| `Reload`: rules, cancel, `<-runner.done`, start | `ReadRules`, `CancelChanged`, `AwaitStopped`, `StartRule` or `StartFails` for each, `Started` |
| `syncFirewall` | `ReadWanted`, `Sync` |
| answer, or undo and reload again | `Answer`, `Rollback` |
| the goroutine of a runner | `RunnerExits` |
| `Start`, `Stop` | `Boot` and the steps of `Reload`; `Stop`, `Drained`, `Closed` |

Listeners are never shared: `Holders` are the runners that keep an address busy,
until `done` is closed. Three history variables say what a property is about:
`failed` (the last start of the rule failed), `met` (two reloads, or a reload and
`Stop`, have overlapped) and `hindered` (a start failed because of a listener
that was just being stopped).

### FirewallManager (`firewall/firewall.go`)

`Report` is `SetDesiredFrom` up to the comparison of wanted and added ports, with
the scan at the first call; then one step per `uci` command: `Delete`, `Add`,
`Commit`, `ReloadFirewall`, each with its failure. An `Add` is six commands;
`AddFails(k, n)` is its failure after `n` attributes were set. `uci` and the
firewall are external: `staged`, `committed` and `effective` sections. `exact`
becomes false when a command other than the commit fails, or when a process dies
with changes or a commit outstanding: the code makes no attempt to repair those.

### Openings (`main.go`)

`Openings` runs both together: `syncFirewall` and the start and stop of the web
service are a step of one and a `Report` of the other, and a process returns from
it when the manager is idle again. A crash, a reboot or the regular end takes
both.

### SiteEditing (`webproxy/api.go`, `WebService.vue`, `SiteDialog.vue`, `RuleEditor.vue`)

What an editor writes is the number of the edit that wrote it, in a cell of the
site: its settings (`head`), the order of its rules, the body of a rule, the
health check of a rule. Every tab shows the site as some answer gave it.

| code | model |
|---|---|
| `load` of the page | `Load`, in one step: an answer that arrives late is as good as a page that was not reloaded since |
| switches, order, deletion on the page | `ClickSite`, `ClickRule` |
| site dialog | `OpenSite`, `CloseSite`, `SaveSite` |
| rule editor, with its health check from a request of its own and its generation | `OpenRule`, `OpenNewRule`, `ServeHealth`, `HealthArrives`, `HealthFails`, `RetryHealth`, `SaveRule`, `CloseRule` |
| `update`, `delete`, `toggle`, `mutateRules`: comparison, write, reload | `Refuse`, `Reject`, `Commit`, `Reloaded` |
| rollback when the reload fails; the rollback that fails itself (`rollbackErr`) | `UndoFailed`; `RollbackFails` |
| the answer, the timeout of the client, an answer nobody waits for | `Answered`, `GiveUp`, `Forgotten` |

`Written` and `HealthWritten` say which cells each kind of change writes and
which revisions it counts up. `blind` is a history variable: whether a change
overwrote a cell with other contents than its editor was filled from, and
whether what it was filled from had been withdrawn after a failed reload
(`undone`, by the stamp `ver` that every copy of the site carries).

`AppliedOnce` and `DraftKept` are about one opening of the rule editor: its save,
sent again because the answer was lost, is made once, and only a change made by
this opening closes it. `AppliedOnce` stops where `EditsAreInformed` does, at the
first change that `blind` blames on a withdrawn version: such a change can delete
the rule and put it back with revision 1 (`bumpSite`, `webproxy/workspace.go:54`,
knows the revision of a rule only from the site it replaces), and then a save that
was already made is not refused. It takes six edits and five saves, more than the
runs have; it is finding 4 seen from the editor.

### ListPages and Progress (composed in `Pages`)

`ListPages` is the ten pages and panels that show a list. They differ in what
their timer does, whether a load may start during a load, and what follows a
change that succeeded, failed or met another revision. These differences are the
small operators named after the pages (`ForwardLoads`, `CertsOffers`,
`DDNSReloads`, ...), each mapped to its page; the actions are common, as are
`useIntervalFn` and `useCrudDialog`. The server's list is a version number. A page
has up to three windows (`Windows`): its own dialog, that of an access user, and a
second one (mappings, a ban, a grant, a DNS record). `Flag` says which of them
share a `saving` flag and `Warning` which share the notice of a conflict;
`BusyUntilLoaded` which saves keep their flag until the list is there again. A
certificate that was asked for is looked at after a timeout, also on a page that
was left meanwhile (`LoadDue`), and its answer may start the timer of that page
(`CertsPolling`). `ReloadDraft` reads a list to fill a window anew, which closes
instead when its item is gone (`Reopen`).
`Progress` is the three pages that follow an operation: a tunnel's (`Tunnel...`,
with the saving of an instance, which goes on to create its tunnel), the
runtime's, an update's (`Status...`), with the server's rule of one operation at a
time.

### Discovery, Dashboard, SiteSeries, LogStream and Console (composed in `Views`)

| code | model |
|---|---|
| `ServiceDiscovery.vue`: generation, `cancelId`, interval; the scans of `discovery.go` | `Discovery`; counting the generation up marks what is under way as stale |
| `Dashboard.vue`: history, range, `metricsPending`, the switch of `metrics/persistence.go` | `Dashboard` |
| `Dashboard.vue`: list of the sites, the chart of one, `seriesGeneration` | `SiteSeries` |
| `Logs.vue`: load, older entries, stream with retry, pause, clear | `LogStream` |
| `Layout.vue`, `Login.vue`, router, store and `api/index.js`: session, dialogs of the account, restore, refused requests | `Console` |

In `Pages` and `Views` a behaviour is about one page, chosen at first: the
pages of a tab do not run side by side, and what two tabs do to each other comes
through the server, whose other clients are actions of each module. To leave a page is to go to another one within the
tab. A tab that is closed or loaded anew runs no `onBeforeUnmount`, so a scan it
started runs to its end: `NoOrphanScan` is not about that. `FollowsAsShown` is
about a page on the screen: a load that ends after the page was left does open a
stream (`startStream` does not look), which the model reaches and no document
denies.

## 4. Runs

| run | instance | shows |
|---|---|---|
| `state_safety` | 2 callers, 1 flusher, 2 keys, 2 updates, 1 each of seed, failed write, failed directory sync, restart | `AckedIsSaved`, `NeverGoesBack`, refinement of `DurableMap` |
| `state_live` | 1 caller, 2 overlapping flushers, 3 updates, 2 failed writes, 1 restart, no seed | `DirtyIsScheduled`; under fairness `UpdatesReachDisk` |
| `auth_safety` | 2 requests, 2 passwords, 1 secret, 1 recovery code, 1 login challenge, 2 periods, 1 restart or 1 failed write (`OneFault`); starts with the initial password or with two-factor on | sessions and pending tasks are current, changes verified, first code works, codes are single use |
| `auth_replay` | 1 failed write, 1 restart | finding 1 |
| `proxy_reload` | 2 requests, 2 sites, a pool of 2 nodes edited to 1, limits 2 then 1, 3 handlers, 2 servers, 1 stop | served as matched, exact counts, budgets kept, retirement |
| `proxy_stop` | 2 requests, 1 site, 1 stop | finding 2 |
| `openings` | 2 requests, 2 rules, 2 addresses, 1 site; 2 edits, 1 failing start or save, 1 stop, 1 failing command, 1 restart, of these at most 3 (`MaxEvents`) | no listener forgotten, deleted stays deleted, runs and opens as configured, `Stop` closes all, what is shown is staged |
| `forward_overlap` | the same, 2 edits and nothing fails | finding 3 |
| `editing` | 2 tabs, each user editing in one way (page, site dialog, rule editor), 1 rule and 1 more, 2 requests at once, 3 sent (`FewEvents`), 2 openings, 3 edits, 1 failed reload, a rollback that fails (`EarlyFailure`), 2 health checks asked for | edits are informed, applied once, the draft is kept |
| `editing_rollback` | the same, all 3 sent at any time, 1 opening and 1 health check | finding 4 |
| `pages` | one of ten pages; 1 request of the user and the timer's, 1 change or 2 operations, 1 lost request | under fairness the lists catch up and operations end on the screen |
| `views` | one of five views; 2 requests or one of each kind, timers, 2 ranges, 2 sites, 2 scans, 1 lost request | no orphan scan, history and chart as chosen, the log follows as shown, restore followed to its end, a dead session leaves |

Bounds and why they suffice. Everything that races here races in pairs: two
writers of one file, two requests on one credential, an old and a new handler
on one pool; so two of each actor and one of each fault reach every order of
two operations, and a third party (the timer, the restart, the reload) comes in
at any step. In `state_safety` two updates are needed to have one that is newer
than the snapshot being written; in `state_live` the second flusher overlaps the
first because a timer is armed while a flush is still writing, and the third
update comes after both. In `proxy_reload` three handlers are two for one site,
before and after the edit, and one for the other site; two servers are two
sites, or one site stopped and started again. `auth_safety` allows two tokens
and two changes of the generation: one session to lose and one to gain; a code
is used a second time by the other request, in the next period, or after the
restart. A period ends, a write fails and the program restarts only where one
request is under way afterwards (`OneAtATime`): what two requests do to each
other does not depend on any of these. After a change of the credentials a
request begins beside another only if that one was admitted, or has taken its
proof, before the change (`BesideOlder`): two requests
that both begin after it race as two do at the start, with two-factor on or off.
Every bound is a constant (`Budget`, `Max...`) named in the module; the theorems hold
for all of their values.

In `openings` a deleted rule comes back, or a listener is lost, after two edits
and one failure; a commit is made good by a third event, the next report. The
constraint `FewEvents` counts edits, faults and restarts together, and stops and
restarts twice once reloads have overlapped: what an overlap can break shows in
the two edits that overlap and one failing start.

In `editing` an overwrite needs two changes, one of them made on what was shown
before the other; the third edit is the one that a failed reload takes back. A
change that is lost and sent again is one of two. The constraint `FewEvents` keeps the third change
to the page and the site dialog after a failed reload, where no answer was given
up, and lets two openings of rule editors meet two changes or one and a failed
reload; `EarlyFailure` lets a
rollback fail for the first change only: one that stays although its user was told
otherwise is overtaken, or overtakes, by the next. Both users may edit in the same way or in
different ways (`OneWayEach`), so that every pair of editors meets.
Finding 4 needs all three: the edit withdrawn, the one that takes its number,
and the one that is not refused; `editing` shows that nothing else gets through.
In `pages` and `views` one lost request
reaches every place where an answer can be missing (among the scans, where there
is one of them: `FewLost`), the second request of a page
is the one that overtakes the first, and what the server keeps takes two values,
the one the page has and the one it does not; a third would be another one it
does not have.

`CHECK_DEADLOCK FALSE` is set in the runs of `ReverseProxy` and of `Openings`.
The bounds of `ReverseProxy` can leave a request waiting for a handler that may
no longer be built, which is the end of the bounded instance and not of the
program; and when the last site is stopped for good there is nothing left to do.
`Openings` rests when its edits are used up and nothing fails; besides, a `Stop`
that overlaps a reload may wait for ever for a listener that the reload started
after it, which is one of the hazards listed. In `pages` and `views` a page that
was left, or whose operation has ended, may rest for good.

Fairness. In `state_live`: timers fire, goroutines run (weak fairness), and a
goroutine that waits for `flushMu` gets it in the end although others take it in
between (strong fairness; `sync.Mutex` serves waiters in order once one has
waited for a millisecond). No caller has to call anything, and writes fail only
finitely often, which the budget says. In `pages` and `views`: a request is
answered or given up, since axios ends each one after its timeout (weak fairness
of every request); a running interval timer fires (for a hidden tab when it is
shown again); an operation of the server ends, as each has a deadline. No user
has to do anything, and nobody has to stay on a page.

## 5. Proofs

All proof modules extend their component's module, so constants, bounds
and assumptions are those TLC evaluates: non-empty or disjoint sets, naturals.

**StateStoreProofs.** `AckedIsSaved` is not inductive: that the file holds what
was promised rests on the snapshot that is being written. `IInv` adds that only
the holder of `flushMu` writes (`Mutex`), that its snapshot lies between file
and memory and is memory as long as the generation stands (`Snapshot`,
`FileOrder`), where the snapshot is at each step of the write (`InTmp`,
`InFile`), that what callers want is in it (`Wanted`), and that platter and file
differ only between rename and directory sync (`Synced`). From it follow
`TypeOK`, `AckedIsSaved`, `NeverGoesBack` and the refinement of `DurableMap`, and
that the store is clean only when its contents are saved (`CleanIsSaved`), which
no run states by itself. `UnsavedIsScheduled` assumes that there are no seeds;
with them it is false, which is one of the hazards listed.

**AdminAuthProofs.** `IInv` joins the session and pending invariants with what
is known of a request on its way (`AdmittedIsCurrent`, `HashIsCurrent`): a
request that holds the lock's proof has the current generation only if its hash
is the current one. A change of the credentials and the revocation of all
sessions are one step, so the generation settles every race. The action
properties follow from it step by step, and so does that the initial password
restricts what a session may do (`InitialPasswordRestricts`). `NoCodeTwice` and `FirstCodeIsAccepted`
assume that no write of `state.json` fails, and need the second invariant
`SingleUse` (memory, store and file agree, and bound every accepted code);
without the assumption the first is false, which is finding 1.

**ReverseProxyProofs.** `ServedAsMatched`: the invariant `IInv` says that a cached
handler has the revision of its server (`CachesFit`), that only one request
builds for a server and holds its lock (`OneBuilder`), and that a request has a
handler of the revision it was matched with (`RequestFits`).

The counts need more. That a count is zero when everybody has left, or never
negative, says nothing about the step that decrements it; so `PoolInv` says of
each count what it counts: the requests inside a handler (`ServedCounted`), those
admitted to a pool (`AdmittedCounted`), those that hold a node (`HeldCounted`), the
handlers that share in a pool and in each of its nodes (`MembersCounted`).
`Counted(S, n)` is that S is finite and has n elements, and the lemmas about it
say what one more or one less does to it. A handler shares in a pool until it is
retired and its last request is done (`HandlersFit`), the pool in the map is the one
not retired and somebody uses it (`AdmissionsFit`, `PoolInUse`), a request holds nodes
only between its first pick and the deferred release (`RequestsHold`), and the bound on
handlers leaves room for those being built (`RoomToBuild`), without which a type
would not be kept. From it follow `CountsAreExact`, `BudgetsKept`,
`RetiredReleaseAll` and `TypeOK`.

**OpeningsProofs.** First the firewall manager by itself. `ShownIsStaged` is
inductive with the types. For `OpenAsWanted` the invariant says, as long as
`exact` holds, that every section is finished and the only one of its key, that the
map knows them all (`AllKnown`), that the job still has to do exactly what is
missing (`Planned`), and that the three copies agree at rest (`Tidy`).

Then forwarding. `NoListenerForgotten` needs that only one process starts
listeners and that what it is about to start does not run (`Starting`), and for
that, since main holds `mu` before there are requests, that requests are served
only when main has started everything (`Booting`). `DeletedStaysDeleted` follows
from what each edit and rollback does to the rules. `ManagerInProgram` shows that
the program's steps are steps of `FirewallManager`, which carries the results
about the manager over.

`RunsAsConfigured`, `OpenAsConfigured` and `StopClosesAll` are about reloads that
do not overlap (`met` is false). `SoloInv` follows the one request that is under
way: everybody else is idle, and what runs is the configuration except for what
this request, at this point of its reload, has still to cancel or to start.
Unconditionally it says that only enabled rules are started. `ToldInv` says what
each source has told the manager, again except where a report is under way; with
`OpenAsWanted` that gives what is open.

**DiscoveryProofs.** `NoOrphanScan`: closing the dialog cancels its scan only if
the dialog takes it for running, so the invariant says that what it takes for
ended has ended (`ShowsEnd`), that an answer of the server that says so is right
(`AnswersTrue`), and that one start of the present generation is under way at
most, during which what is shown has ended (`OneStart`).

**SiteEditingProofs.** `EditsAreInformed`: a revision number stands for certain
contents only because of how the site came to be, so the invariant keeps of its
history what is needed. A copy of the site that a tab or a request holds was taken
back, or is the site as it is or as it was before the reload under way, or is
`Earlier` than both: an earlier revision of the site and, rule by rule, the same
contents or an earlier revision (`Known`). A health check that was read fits the
revision of the rule it was read for (`Fits`), although the page and the editor
read the two at different times. What a tab may hold stays so when a change is
written, reloaded or taken back (`WrittenWorld`, `EndedWorld`, `UndoneWorld`). The
theorem needs no bound on tabs, rules, changes or failed reloads; its limit is the
first editor filled from a version taken back, which is finding 4.

`AppliedOnce` and `DraftKept` rest on `OpeningInv`. The changes an opening sent that
are known to be made are a set, whose size is at most the count of the opening
(`LandedCount`): an answer that closes the editor is of a change that was counted
and not taken back. An opening whose change was made is `Spent`: the site refuses
what it sends, and so does the site that comes back if the reload of somebody else
fails (`Once`). For `TypeOK`, `StampsInv` says that every stamp anybody holds is of an
edit that was made; that no opening has more taken back than was made is
`LandedCount` again.

**ViewsProofs.** An invariant for each page. `HistoryIsTrue` speaks of the moments
at which nothing is under way, so `HistoryInv` says what the last load and the last
change of the switch know while they are (`LoadKnown`, `SwitchKnown`, `OneChange`).
`ChartIsChosen` needs that the load of the present generation is of the chosen site
and range (`CurrentIsChosen`). `FollowsAsShown` is inductive. `RestoreResultKept`
needs that refused requests wait as long as the import is under way
(`ImportDefers`); it says where the page goes from the moment the sessions have
ended until the warnings are shown, what it does when the answer is lost, and who
takes shown warnings away. `NoOrphanScan` is the theorem of `DiscoveryProofs`, instantiated.

**PagesProofs.** Nothing is shown that the server has not had, because no answer
under way says more than the server had (`ListsInv`, `JobsInv`). Four further
theorems are what the liveness of these pages rests on besides fairness: rows are
covered only while a load is under way (`LoadingEnds`); a flag that blocks a
dialog is that of a save or of the load that follows it (`BusyEnds`); no two saves
that share a flag are under way at once (`OneSave`), for the flags the code has,
which are one per dialog except on the pages of protection and of access groups;
and a page that shows an operation as running has not stopped asking how far it is
(`Attended`). `OneSave` is not about the routes of a tunnel: one can be removed
while another is being saved, and the first of the two answers takes the flag off.

The invariants were model-checked on small instances before they were proved.

Only model-checked: liveness (`UpdatesReachDisk`, `ListsCatchUp`, `ProgressEnds`,
`DeadSessionLeaves`), which is out of the prover's reach, and what the runs of
section 6 refute. Every other property of the runs is a theorem.

## 6. Findings

1. **A used TOTP code works again after a restart** when the counter could not
   be written (`auth_replay`, `api/totp.go:143`): the failure is logged and the
   login goes on, contrary to the comment above it.
2. **The first request for a rule that comes in while its site stops leaves a
   prober and a share of the pool behind** (`proxy_stop`,
   `webproxy/server.go:326`): `closeIdleConnections` shuts down the handlers the
   cache lists at that moment, which stay in the cache and answer 503 from then
   on, but a request that is past rule matching and finds no handler of its rule
   still builds one, and nobody shuts that one down.
3. **Overlapping reloads of the forwards leave what runs different from what is
   configured** (`forward_overlap`, `forward/forward.go:105`): the rules are read
   before the critical sections that act on them, and nothing serialises
   reloads. `webproxy`'s `Reload` holds a lock for this.
4. **A revision is used twice after a reload that failed** (`editing_rollback`,
   `webproxy/api.go:730`): the former site is put back with its former revision,
   lists are read meanwhile, and the next edit takes the number again; an editor
   that was filled from the withdrawn version then overwrites that edit, which
   the revisions are documented to refuse. Followed further, a rule deleted that
   way comes back with revision 1, and a save already made is made again.

## 7. Not modelled

* Static files, WebDAV, CGI, redirects, site statistics: per-request I/O without
  state that properties could relate; the probing of addresses in a scan.
* Of the UI: the pollers of the statistics on the web service page; windows that
  only show something (the history and the preview of DDNS, the logs of a forward);
  accounts of a tunnel; the creation of a site; forms and their rules, formats,
  curves, texts and styles.
* Of `ListPages`: where a page reads several lists at once and goes on with those
  that arrived (`Promise.allSettled` of protection, access groups and the
  notifications' `Promise.all`), the version stands for any one of them, so that
  one that is missing is `LoadFails` and one that arrived `LoadArrives`. A cover over
  the rows is taken to keep the user from them, although it does not stop the
  keyboard. A change that was made and then answered with an error is one whose
  answer is lost (`ChangeFails`). Deleting a DNS record reloads the list even when the
  question is answered with no, which is a `Refresh`. That mappings cannot be run
  while they differ from the saved ones, and that the panel of routes waits for
  operations of the page above it, only takes possibilities away and is left out.
* A `state.json` that cannot be read or is damaged, for which `LoadState` starts
  empty: no step of the store leaves one behind, since only a synced file is renamed
  to it (`StateStore`). The documentation calls the contents rebuildable.
* The counter of a legacy backup is taken to be of a period long past (`Past`).
* The rollback of a site that is gone by then (`errSiteNotFound`) in `SiteEditing`:
  `mutationMu` is held from the change to the end of its rollback.
* A scan that is forgotten by the server is an answer that fails (`Serve` of
  `Discovery`).
* The seed of `state.json` whose write fails is not in the liveness run, because
  nothing reschedules it: a listed hazard without a property.
* Parsing and validation of rules, addresses and requests; inspection of
  requests by the protection engine; encryption: pure functions of their input.
* DNS providers, ACME servers, the Cloudflare API, Telegram: external; the
  planned modules will take their answers, or their silence, as choices.
* Connections and UDP sessions of the forwards, their slots and summaries: they
  do not touch the rules, the listeners or the firewall.
* The reload that an imported backup starts (`main.go:191`): one more caller of
  `Reload`, without a rollback. Sections of the firewall that are not ours, and
  edits of its file by others between two commands.
* Sampling of metrics, packaging: display and delivery.
* Time is periods of 30 seconds in `AdminAuth` and absent elsewhere: a timer may
  fire at any moment after it was armed.
