# KwikProxy Secure: TLA+ models, checks and proofs

KwikProxy Secure is a Windows VPN client: a Tauri application (TypeScript user
interface, Rust backend) around the Mihomo engine, with a LocalSystem service
(the *helper*) that runs the engine in TUN mode and holds the WFP kill switch.
What is hard in it is not a computation but a set of promises about *state that
outlives the code that made it*: a SYSTEM process, a network adapter, firewall
filters that cut the machine off, a system proxy that points at a dead port, a
service entry whose binary is gone, a list of servers of a subscription that was
deleted. This directory models the parts that make and keep those promises.

## 1. Inventory

| part | state it keeps | operations | hard behaviour | model |
|---|---|---|---|---|
| **Helper broker** `bin/kwik_helper/dispatch.rs` | `BrokerState.owner`: session, tunnel/firewall marks, TUN alias, engine pid and instance | StartTunnel, MihomoStop, KillSwitchEnable/Disable/ForceCleanup/Heartbeat, TunnelStatus, OrphanCleanup, `on_tunnel_process_exit`, `shutdown_cleanup` | one lock held across awaits; error paths; late monitors | `HelperBroker` |
| **Engine supervision** `mihomo.rs` (helper) | `STATE`: child, job object, instance UUID | start + readiness, stop, `is_running`, exit monitor task | a monitor acting on a replaced child | `HelperBroker` |
| **Kill switch, when** `firewall.rs` | `ENGINE`, `LAST_HEARTBEAT` | enable, disable, heartbeat, watchdog thread, startup cleanup | a thread that takes none of the broker's locks | `HelperBroker` |
| **Kill switch, what** `firewall.rs`, `wfp.rs` | the filters of one WFP transaction | each section of `enable_blocking`, commit, abort | twelve kinds of filter with weights, six settings that combine | `KillSwitchFilters` |
| **TUN adapter** `tun.rs` | the OS interface table | ownership gate, bounded wait for removal | the adapter appears and vanishes on its own | `HelperBroker` |
| **Service and pipe** `service.rs`, `pipe.rs` | service state, pipe instances, workers, permits | start, accept loop, stop, drain, shutdown | silent callers, hung threads, a stop in the middle of requests | `HelperPipe` |
| **Installation** `service.rs`, `security.rs`, `installer-hooks.nsh` | Program Files tree, registry manifest, runtime directories with markers, SCM entry | install, uninstall, uninstall for the installer, NSIS hooks | a failed call or a killed process between any two durable steps | `HelperInstall` |
| **System proxy** `platform/proxy.rs` | registry, `proxy_backup.json`, challenge slot | publish, restore, pending restore, confirmed restore, discard | crash between any two writes; other programs write too; no compare-and-swap | `ProxyRestore` |
| **Connection lifecycle** `ipc/commands.rs`, `platform/lifecycle.rs`, `platform/tray.rs`, `vpn/mihomo.rs` | `MihomoState`, `KillSwitchState`, uncertain markers, lifecycle mutex and shutdown seal | connect, rollback, disconnect, quit, `is_xray_running`, kill-switch apply, recover | partial rollback, client timeouts, status reads outside the mutex | `SessionLifecycle` |
| **Helper client** `platform/helper_client.rs`, `helper_bootstrap.rs` | none | requests with timeouts | the helper finishes after the client gave up | `HelperPipe`, `SessionLifecycle` |
| **Engine configuration** `config/mihomo_config.rs`, `routing_profile.rs`, `subscription.rs` | the generated document | build, patch of a full profile, cache and reload | the order of rules, the zones of the resolver, keys a provider may bring | `MihomoConfig` |
| **Subscription store** `stores/subscriptionStore.ts`, `lib/asyncControl.ts`, `config/subscription_cache.rs` | servers, pings, primary, generations; backend snapshot; encrypted cache | fetch, edit, add, remove, wipe, primary, ping, connect gate, start | slow answers of an older generation, a reload in the middle | `SubscriptionStore` |
| **VPN store** `stores/vpnStore.ts`, `lib/asyncControl.ts`, `App.tsx` | status, attempt epoch, single-flight promise | connect, disconnect, refresh, choose a server, network change, delete | results of older attempts, chains that overlap | `VpnStore` |
| **Configuration files** `config/*.rs` | geofiles, routing profiles on disk, HWID | download, refresh | mostly I/O | - |
| **Session lock, tray menu, watcher, secure storage** | OS objects | - | operating-system glue | - |
| **Diagnostics, UI, settings and update stores** | preferences | - | - | - |

How they interact: the UI calls backend commands; the backend publishes the
system proxy (registry + marker file) and sends the helper one request per pipe
connection; the helper runs the engine, watches it with one task per child and
holds the filters in a *dynamic* WFP session whose closing removes them. The
watchdog thread removes the filters when the backend stops sending heartbeats.
The backend forgets a session only when the proxy was restored and
`TunnelStatus` says that the helper holds nothing. The two stores of the window
meet in the runtime mutex: a connect commits the primary's list under it, a
deletion destroys the list under it. The configuration decides which way
traffic takes, the filters decide what is left when it does not.

What makes each part correct:

* broker - whatever privileged thing exists is recorded under the session that
  caused it, until it is verified gone; no lease leaks; "clear" is never said
  falsely; a dead engine is forgotten unless the lock holder is stuck in a call
  that has no deadline;
* kill switch - filters never outlive their record, lost heartbeats lift them;
  what they close is closed for every combination of settings, and the way to
  the server stays open;
* service - work on the filters always has somebody who waits for it, the pipe
  is never without a listener, a stop ends;
* installation - an entry in the SCM always has its verified helper, manifest
  and runtime directory; what was installed can be removed;
* system proxy - the user's settings survive any crash; nothing another program
  wrote is overwritten unasked; a retry converges; WinINet is always told;
* connection lifecycle - a session is forgotten only when everything it made is
  gone; an error never leaves a state that no command leads out of;
* engine configuration - the user's rules come first, a restart from the cache
  changes nothing, names are resolved where their traffic goes (a rule of the
  user for one application excepted);
* stores - the newest intent wins, a list belongs to its URL, a connection to
  the list it was started from; nothing waits in a circle.

`PROJECT.json` lists every hazard at its line and the properties aimed at it.

## 2. Modules

| module | what it is |
|---|---|
| `HelperLease` | abstract: one session at a time on a clean machine |
| `HelperBroker` | broker, engine supervision, kill switch with watchdog, adapter, service life; implements `HelperLease` |
| `HelperPipe` | service loop, accept loop, workers, blocking threads, drain, shutdown |
| `HelperInstall` | installation and removal, one durable effect per step |
| `AddressRanges`, `KillSwitchFilters` | the filters and the verdict of WFP on a connection |
| `ProxyRestore` | publication and recovery of the system proxy |
| `SessionLifecycle` | the backend's session: connect, rollback, disconnect, quit, recovery, the local engine and its monitor |
| `MihomoConfig` | rules, DNS, inbound of the generated document; the engine's reading of it |
| `SubscriptionStore` | store, backend snapshot and encrypted cache of subscriptions |
| `VpnStore` | the connection as the window sees it |
| `...Proofs` | inductive invariants and theorems: `HelperBroker`, `HelperPipe`, `HelperInstall`, `ProxyRestore`, `SessionLifecycle`, `SubscriptionStore`, `VpnStore`, and `TrafficProofs` for `MihomoConfig` and `KillSwitchFilters` |
| `MC...` | TLC instances |

The modules do not share variables. Where one needs another's promise it uses it
as an assumption, by name: `SessionLifecycle` takes the helper and the proxy for
what `ClearStatusTruthful` and `ReleaseOnlyOriginal` say, `VpnStore` takes a
command of the backend for what `SessionLifecycle` lets it end in, `HelperPipe`
takes a kill-switch request for a thread that changes the filters.

### HelperBroker and HelperLease

| variable | code |
|---|---|
| `service` | life of the service process (`service_loop`) |
| `owner` | `BrokerState.owner` (`ActiveOwner`) |
| `task` | the request that holds the broker `Mutex`, and where it awaits |
| `child`, `alive`, `starter`, `monitors` | `mihomo::STATE`, OS processes, the monitor's captured session, the monitor tasks |
| `adapters` | aliases in the interface table |
| `engine`, `filters` | `firewall::ENGINE`, what WFP holds |
| `heartbeat`, `watchdog` | `LAST_HEARTBEAT` (off / fresh / older than 60 s), the thread's program counter |
| `probe` | TunnelStatus between `is_running` and the lock |

The helper's runtime is `new_current_thread`: code between two awaits is one
step. A request that takes the broker lock is cut at its awaits; the firewall
code runs on a blocking thread, really concurrent with the watchdog, and is cut
at every access to `LAST_HEARTBEAT`, `ENGINE` and WFP. The watchdog is cut in
the same way: read, store the sentinel, drop the engine, clean up. `STATE` stays
locked from the spawn to the end of the readiness wait, so the monitor and
`is_running` wait (`~At("start", "ready")`).

Every outcome the operating system may produce is a choice: the gate or the
readiness wait fails, the child cannot be killed, the adapter stays, the WFP
cleanup fails, the process crashes. A failing process query takes `STATE` and
closes the job object, which kills the child: `ChildExits`, then
`MonitorObserve`. Aliases are fresh UUIDs, so an instance starts at most once.
`OrphanCleanup` only looks and changes nothing. The install generation is fixed
while the service lives, so an owner is matched by session.

`HelperLease` is what the broker promises, without locks, awaits or threads: the
service serves one session at a time, what is privileged (process, filters,
adapter) exists only while a session holds the lease, and the lease ends only
on a clean machine. `HelperBroker` implements it under the mapping `serving` =
"the pipe is published", `holder` = the session of `owner`, `held` = `InForce`;
`ImplementsLease` is checked by TLC and proved.

### ProxyRestore

`registry` has the three fields; a server value is abstracted to what the code
tells apart: exactly the published string, a reordering of the same protocol
map (`strict_proxy_mapping` still matches), another spelling that merely names
one of our loopback ports (`points_to_published_endpoint` matches), a foreign
proxy, or none. `op` is the operation that holds `RESTORE_MUTEX`, with the
in-memory copy of the marker it works on; it is cut at every registry, file and
WinINet access, in the code's order (publication writes server, enable,
override; a restore enable, server, override; a confirmed restore enables last
or disables first). Consecutive reads that must all agree are one step. A token
is a fresh UUID, so a caller presents the one in the slot or a dead one.
`RestoreFails`, `PublishFails` and `Crash` may strike at every step, also between
the deletion of the marker and the read that follows it. `owed`, `displaced`
and `shown` are history: what we overwrote, what was there, what the user was
shown. Markers without ownership metadata (written by older versions) are
refused by every operation and are left out.

### SessionLifecycle

| variable | code |
|---|---|
| `op` | the command that holds the lifecycle mutex, its step and its local flags |
| `sealed` | `SHUTTING_DOWN` |
| `outcome` | the last reply of a connect or disconnect, as far as it says what is left |
| `child`, `pid`, `attempt`, `localUncertain`, `helperSpawned`, `privUncertain` | the fields of `MihomoState` |
| `ksContext` | `KillSwitchState`, with its `expect_tun` |
| `poll` | the status an `is_xray_running` call has read and not applied yet |
| `alive`, `watched` | engine processes, the monitor tasks that still receive events |
| `marker`, `points` | `proxy_backup.json`, the listener the registry names |
| `held` | what the helper holds: engine, adapter, filters |

`rollback_connect`, `disconnect_impl` and `quit_app` make the same calls in
different orders; the calls are actions of their own (`ClearProxy`, `Forget`,
`StopHelper`, `DisableHelper`, `VerifyHelper`), and `AfterProxy`, `Verified` and
`AfterError` hold what each command does next. An await ends a step, and so does
each release of the lock of the attempt token, which the monitor takes too.
`is_xray_running` takes no mutex: `PollAsk` and `PollApply` interleave with
everything. A failing request consumes one of `MaxFaults` and may have had its
effect; the helper's lock is first come, first served, and the client gives up
20 seconds after the helper could read the request, so its effect precedes that
of the next one. The helper and the proxy are what the other two modules say
they promise: `TunnelStatus` is never falsely clear (`ClearStatusTruthful`), and
a restore either puts the original back and deletes the marker or leaves the
marker (`ReleaseOnlyOriginal`). A poisoned mutex is left out.

### HelperPipe

| variable | code |
|---|---|
| `service`, `stop`, `cleaned` | `service_loop`, the flag of the SCM handler, the result of `shutdown_cleanup` |
| `loop`, `listener` | `run_prepared_pipe_server` between its awaits; who has opened the listening instance |
| `stage`, `answer` | each call: where its worker is, what `helper_client::send` returned |
| `broker` | the broker lock |
| `job`, `filters` | the blocking threads, and whose engine is in the slot |

A permit is taken before the connect is awaited, so workers are one fewer than
instances. A worker has a timeout for reading and for writing but none around
the request itself: a blocking thread goes on when its task is aborted. What a
request does to the tunnel is `HelperBroker`'s; here a request is a ping, an enable
or a disable. A thread may hang (`DisableEnds` and `EnableEnds` carry no
fairness), a caller may say nothing, the pipe may fail.

### HelperInstall

The helper is run as a process (`proc`) by NSIS (`nsis`) or by an administrator;
each step is one durable effect, and `Kill` and failures fall between any two.
State is the Program Files tree with its access lists (`files`, `rootAcl`,
`fileAcl`), the registry `manifest`, the `runtime` directories with their
markers, the service entry `svc` with the deletion mark of the SCM, and the
installation the running service loaded (`svcInst`). Hashes, reparse points and
signatures are "verified or not"; an access list is the sequence of its entries
and is compared as the code compares it.

### KillSwitchFilters and AddressRanges

A filter is a record of its conditions, weight and action; `Verdicts` is WFP's
rule (the heaviest filter that matches decides; equal weights are in no order).
One action per section of the transaction, in the order of the code, with
`Abort` at any point. `AddressRanges` holds the ranges that three files of the
backend write down independently and `is_public_ip` octet by octet.

### MihomoConfig

`source` is the server entry in memory, `cache` its copy on disk, `config` the
document the engine runs. `build` and `patch_full_yaml` are operators, section by
section; a key that `sanitize_full_profile` does not list passes (`RemovedKeys`); the engine is external: the first rule that matches decides. Names are
sequences of labels, so that a zone, a suffix and a keyword are different
things. `Connect` generates, `Restart` goes through the cache, `Fetch` replaces.

### SubscriptionStore

A task is one async call of the renderer, cut at its awaits; an invoke is a
message on `wire`, handled in any order, also after the renderer that sent it has
been reloaded. A write of a credential, of the index or of the primary may be
refused, and its rollback too; a list may be too large for the backend (`fits`), which
the renderer only logs. `late` remembers which ids were refreshed behind the deletes
of a wipe. `rust` is `SubscriptionState` (epoch, generations, tombstones),
`cache` the encrypted records, `index`, `storedPrimary`, `creds`, `credQ` what
localStorage and the Credential Manager hold, `mutation` and `runtime` the two FIFO
mutexes. A list carries the URL, the version and the start of the renderer it was
answered for, so that a list of the wrong URL can be told and two lists are equal
only if they are the same answer.

### VpnStore

`epoch` is the attempt counter, `flight` the shared connect attempt, `call` the
disconnect calls by caller, `chain` the two disconnect-then-connect chains,
`deletion` the removal of the subscription, `lifecycle` and `gate` the two FIFO
mutexes. JavaScript runs to the next await and settled promises run before
anything from outside: `Pending` gives continuations priority. A command of the
backend takes effect when its promise resolves.

## 3. Runs

| run | instance | what it shows |
|---|---|---|
| `helper_safety` | 2 sessions, 2 instances, symmetry, cleanups may fail | the owner record is true, the broker implements the lease, "clear" is never false |
| `helper_live` | 1 session, 1 instance, fairness | dead engines forgotten while the calls without a deadline return, lost heartbeats restore the network in any case |
| `proxy_calm` | 2 attempts, 2 originals, 2 foreign writes, 2 faults | nothing lost, nothing foreign overwritten, marker released only in the original state |
| `proxy_racy` | the same, one foreign write at any point, fairness | WinINet always told; retries converge |
| `session` | 2 attempts, every command, 3 faults, recovery only while stopped, fairness | nothing left at a start, an end or an exit; no engine killed under the proxy; a disconnect tried again ends the session |
| `subscriptions` | 2 ids, 2 URLs, 2 concurrent calls, 3 operations, 1 fault, 2 starts, fairness | lists belong to their URLs, the backend holds the screen's list or the primary's newer one when quiet, a URL is on disk or on its way there unless the user was told, what was removed gets no record again, the running list is the primary's, every call returns |
| `install` | 2 users, 3 manifests, 4 faults, fairness | a service entry is always sound, runtime goes after the service, a protected installation can be removed |
| `killswitch_filters` | first and last address of each range and their neighbours, 2 servers, all 128 settings | what weights the filters have, what is closed and what stays open |
| `config_rules` | 6 documents, 576 combinations of settings, a restart at any point | order of rules, resolver of names, no difference after the cache |
| `pipe` | 3 calls, 3 instances, fairness | listener never waits, threads accounted for, a stop ends, callers are taken |
| `vpn_store` | 2 servers, 4 events, 1 new list, fairness | the newest call decides, no deletion under a connection, every call returns |
| `vpn_switch` (violation) | 2 servers, 3 events | the window names one server, the backend is connected to another |

**Bounds.** Two sessions suffice for "another session's request", two instances
for "the monitor of the one acts on the other"; every other component has a
finite state of its own, and the helper model has no counter. In ProxyRestore
`MaxForeign` and `MaxFaults` bound other programs' writes and failing calls; two
of each let a fault hit a retry, and a foreign write follow the dialog about an
earlier one. An attempt publishes once (its id is a UUID); two attempts allow
publication over a pending marker and a stale endpoint of the first attempt
captured as the second one's original. In SessionLifecycle a connect has one
attempt, and two allow a session over the remains of another (of a failed
connect, a crashed process, a survivor of its kill). `MaxFaults` bounds failing
requests, kills and restores together with crashes and restarts of the helper:
three let a connect, its rollback and a retry each meet one. Deaths of engines
and losses of event streams are not bounded. `RecoverOnlyStopped` says whether
the user interface keeps to the documented precondition of the recovery
commands: the run assumes it, because `Retryable` needs it (section 4); the
safety properties do not, and the theorems about them leave it open.
SubscriptionStore: with two ids one subscription is edited or removed while the
other is primary, with two tasks every pair of calls interleaves, and three
operations let a third call meet what two left; a second start is a reload with
messages of the first renderer still under way. Slots of calls and fresh uuids are
interchangeable, so the first free one is taken (`FirstOf`). One fault is one refused
write, one record that cannot be removed or one list too large. HelperInstall: three manifests
are an installation, its repair and a second user's; four faults let each stage
of one cycle fail once. KillSwitchFilters compares addresses with fixed ranges
only, so its classes are the ranges and their edges. HelperPipe: with three
instances two workers can be held by silent callers while a third call waits.
VpnStore: four events are enough for a chain, a network change, a click and a
deletion to overlap; with two servers a choice can change and change back.

Deadlock is checked except in five configurations: the service may stop for
good (`pipe`), an uninstalled machine may stay so (`install`), and the bounds on
operations and events end every behaviour (`subscriptions`, `vpn_store`,
`vpn_switch`).

**Fairness.** HelperBroker: the gate (5 s), the readiness wait (10 s), the wait after a
kill (3 s) and the adapter (2 s) have deadlines in the code, hence
`WF(~Unbounded /\ Proceed)`. `child.kill().await` itself (`mihomo.rs:110`, `:124`,
`:456-460`) and the WFP calls on blocking threads have none: they are `Unbounded`, and
nothing is assumed of them. `DeadEngineForgotten` therefore says what happens if the
lock holder is not stuck in one for ever (`[]<>~Unbounded`), and `LockReleased`, which
says that the lock is released in any case, is refuted (section 4). The watchdog and
the monitors poll in endless loops (`WF`); the watchdog has its own thread and no
broker lock, but its own WFP calls are taken to return. tokio's mutex is first
come, first served, so a monitor that waits for a lock which is free again and
again gets it (`SF(ExitBegin)`). The process is not assumed to stop or to crash. ProxyRestore:
an operation that holds the mutex runs on (`WF(Proceed)`), and a pending marker
is asked about again (`WF(RestorePending)`): the startup check and the user do so;
a user who never does leaves the marker where it is. SessionLifecycle:
a command that was given runs to its end, since every request it makes has a
timeout (`WF(Proceed)`), and a disconnect that the user asks for again and again
gets the lifecycle mutex, which tokio serves in order (`SF(DisconnectBegin)`).
`Retryable` excepts one state, `KillFailed`: the operating system refused to kill
the engine and the handle is gone, so only its death can be waited for.
SubscriptionStore: JavaScript runs a continuation whose promise has settled
(`WF(Resume)`), the backend answers every invoke (`WF(Deliver)`), a queued credential
write is accepted or refused (`WF(KeyringWrites)`). HelperInstall: a
process that was started goes on (`WF` of command, service and installer), and an
uninstaller that is tried again starts (`SF(PreUninstall)`). HelperPipe: the
service and its loop run (`WF`), a client in the listening instance is accepted
and a waiter gets the fair lock when they are free again and again (`SF`), reads and
writes have timeouts; nothing is assumed of the blocking threads. VpnStore:
every command of the backend returns and every continuation runs; nothing is
assumed of the user.

**Every property has a mutant**: a variant of one definition, defined just
before it and used by no action, that a plausible bug would produce. With it
the property fails in the same run.

## 4. Findings

`vpn_switch` is the one disagreement that has a run: *the choice that came
back*. `selectServer` compares the last choice with the one its chain started
from, not with the one it connected to. A click on another server in the pause,
and a click back before the chain ends, leave the backend on the server nobody
has chosen any more; the comment promises the last choice.

The modules state more sentences of the documentation that the code does not
keep; each is a definition with its comment, and a cfg that names it makes TLC
refute it:

* `LockReleased` (HelperBroker) - the lock is held across a kill and across WFP calls
  that have no deadline; one that never returns keeps every later request waiting,
  although each client gives up after its own timeout.
* `HeartbeatMeansBlocking` (HelperBroker) - the watchdog drops the filters but
  the broker keeps `firewall_active`: a UI that was only suspended resumes its
  heartbeats, is answered Ok, and believes it is protected.
* `DisableStopsWatchdog` (HelperBroker) - the sentinel is stored first, but a
  watchdog that has already loaded the expired time goes on. Both cleanups are
  idempotent, so `RecordTruthful` still holds; the comment is wrong.
* `DiscardReleases` (ProxyRestore) - the comment describes a deletion of the
  marker in any state; the code (and its tests) refuse it.
* `AlwaysRetryable` (SessionLifecycle), with `RecoverOnlyStopped = FALSE` - a
  recovery during a session restores and deletes the marker whatever the session
  in memory is; the token stays, and disconnect, quit and connect refuse from then
  on. With quit: an uncertainty that a failed restore left is not lifted by a
  later quit, and no command lifts it any more.
* `FailedKillIsVisible` (SessionLifecycle) - the readiness error path ignores the
  result of its kill and keeps no trace of the process.
* `NoResurrection` (SubscriptionStore) - a record of an id that has left the index: it
  stays when a removal could not delete the file, and the timer (`App.tsx:360`) may
  refresh the primary while a wipe is past its deletes and then save a record with a
  newer generation than theirs. `RemovalIsFinal`, which is checked, says that apart
  from the latter nothing is ever written for such an id.
* `LegacyMirrorsPrimary`, `PingsParallel` (SubscriptionStore) - between two awaits
  the legacy fields are those of another list.
* `OnlyUserPurges` (SubscriptionStore) - a start that cannot read the credential of an
  id drops the id from the index.
* `LeftoversAreRemovable` (HelperInstall) - a tree whose access list is still the
  inherited one is refused by its own uninstaller.
* `RepairReusesItsDirectory` (HelperInstall) - the marker is compared with the
  new generation, so a directory of the previous one is refused.
* `DhcpPasses`, `ExcludedIsReachable` (KillSwitchFilters) - no filter permits DHCP;
  `fc00::/7` is kept out of the tunnel but not let through by allow_lan.
* `ProfileDnsFirst`, `ProviderDnsKept`, `DirectRegexResolvesAtHome`,
  `StrictNeverDefaultsToDirect`, `LocalGoesDirect` (MihomoConfig) - sentences about
  the order of resolvers and of defaults that hold for some documents only.
* `ProxiedNamesUnseen` (MihomoConfig) - the comment of `build_dns`
  (`mihomo_config.rs:727-728`) promises that proxied names are resolved inside the tunnel.
  A rule of the user that sends one application to the proxy comes before the direct
  zones (`mihomo_config.rs:262-281`), but the resolver is asked without knowing the
  application: a name in a direct zone is told to the domestic resolver.
* `CleanupIsLast` (HelperPipe) - after a drain that timed out a thread of an aborted
  enable may install its filters behind the shutdown cleanup; they last until the
  process ends, at most 2 s.

## 5. Proofs

`HelperBrokerProofs`, for any sets of sessions and instances. The inductive
invariant is `TypeOK /\ TaskInv /\ ResourceInv`. The safety properties alone are
not inductive: while a request is between two awaits they hold for reasons that
only its stage knows. `TaskInv` says what each stage guarantees about the owner
record (a start under way owns its device and nothing else; an enable has an
owner; an exit has cleared the tunnel mark), `ResourceInv` says whose adapters,
processes, filters and monitors exist. Each action gets one step; operators on
the owner record (`ReleaseIfIdle`, `ClearTunnel`, ...) are dealt with once, in
`OwnerOps`. From the invariant follow `TypeCorrect`, `PrivilegedStateOwned`,
`NoLeaseLeaks`, `ClearRepliesTruthful`, `ShutdownIsVerified`, `LeaseReleases` and
`RecordIsTruthful`. `BrokerImplementsLease` is the refinement: the initial states map
to initial states, and each step is a `Take`, `Use`, `Release`, `Start`, `Exit` or
`Fade` of the lease or changes nothing of it (`StepIsLeaseStep`); the steps that give
the lease up are those of which the invariant knows that nothing is in force.

`ProxyRestoreProofs`: `TypeCorrect` and `NeverSilent` hold with other programs
writing at any time. The type invariant says that whoever holds `RESTORE_MUTEX`
works on the marker that is on disk; `NotifyInv` adds to `AnnouncedOrPending`
that a restore past its notification has nothing left to announce. The other
three theorems (`OriginalsAreRecoverable`, `ReleasesOnlyOriginal`,
`OverwritesNothingUnseen`) assume `RacyForeign = FALSE`: the registry has no
compare-and-swap, so a write by another program between the code's look at a
field and its write is lost whatever the code does, and the statements are about
the code only when such writes fall between its operations. Their invariant is
`CalmInv`: the types, `SnapshotInv` (fields not published yet hold the saved
value; overwritten ones are in the marker and differ from it; none is left when
the marker goes) and `WindowInv` (what `write`, `force` and `delete` are about to
act on is what the step before looked at, and the token's observed state is the
one the dialog showed). None of the three properties is inductive without it:
each is about a value read in an earlier step.

`SessionLifecycleProofs`, for any set of attempts, any commands, any number of
faults and recovery at any time. `TypeCorrect` needs to know that only a connect
starts engines (`OpInv`). `NothingIsLeft` (`LeavesNothing`) and `ListenerIsKept`
(`ListenerOutlivesProxy`) follow from `Stage`, which says what each step of each
command can rely on: which command may be at which step (`StepInv`), that a pid
without a handle is uncertain and a session with a handle owns the marker
(`ChildInv`), what a connect has not made yet (`ConnectInv`), that a rollback works
on its own publication (`RollbackInv`), that in a teardown the token goes after the
proxy and the engine after the token, and "no error so far" means that the helper
holds nothing (`TeardownInv`), and what a reply promises until the next command
(`EndInv`). The pid is the point: the monitor and the engine's death interleave with
everything, and what makes them harmless at the end of a session is that no pid
is left for a monitor to recognise.

`HelperInstallProofs`, for every set of users and every payload: the invariant joins
`StageInv` (which command the installer has running), `InstallInv` (what each step
of `install` finds done), `RemoveInv` (removal touches tree and runtime only when the
SCM shows no service), `BackedInv` and `ReportInv`; theorems `Types`,
`RunningIsProvisioned`, `EntryHasItsHelper`, `RuntimeGoesLast`, `TrueReports`,
`ServiceIsSound`.

`HelperPipeProofs`, for any finite or infinite set of calls and any number of
instances greater than one: `TypeCorrect`, `ReplacementIsImmediate`,
`ThreadsAreAccounted`. `PermitInv` is the counting argument: the permit that the loop
takes before it listens passes to the client it accepts, so workers and accepted
client together stay one below the instances (cardinalities by
`FiniteSetTheorems`). `JobInv` follows each thread from its worker to the end of the
drain.

`TrafficProofs`, for both halves of what traffic meets. *The kill switch*, for every
set of addresses, servers and resolvers and every failure of a section: first
arithmetic, an address whose octets are in one of the ranges that the code lists is
not one that `is_public_ip` accepts; then the eight reasons for which a filter can
match a connection (`Reasons`) and the verdict of the heaviest (`Decides`, `BlocksUnless`,
`PermitsIf`); then the transaction, what WFP holds is nothing or all sections in order
(`Transaction`, `AllOrNothing`). `AlwaysSealed` and `AlwaysOpen` join them: what must not
leave the machine does not, and what the tunnel itself needs is never cut off.

*The engine*, for all documents a provider may send, all profiles and all settings. The
documents first: what each section of `build` and `patch_full_yaml` leaves in each key,
and that a patch over the neutral patch is the patch (`PatchedFields`, `BuiltFields`,
`PatchAfterNeutral`). The invariant `ConfigInv` says that source and cache are the fetched
document or its sanitised form and that the engine runs what `Generate` made of the
fetched one; `CacheIsAsGood` and `RunningIsChecked` follow. Then the
rules: the first rule that hits exists because a set of positions has a least element
(`Least`, by well-founded induction of the library), and of a concatenation the head
decides what it covers, the tail the rest (`HeadDecides`, `TailDecides`, `RouteOfConcat`).
That the provider's rules without the catch-alls keep their order is a counting argument
on ranks (`KeptRules`, `SpecificOfBoth`). `RulesKeepTheirOrder` and `NamesGoWithTraffic`
follow; the latter meets rules and resolver at the zones of a profile, for the
connections of all applications but those that a rule of the user sends to the proxy.

`VpnStoreProofs`, for every set of servers and any number of clicks, chains and
lists. The invariant joins the types, `HeldInv` (an attempt at work is inside both
mutexes, a deletion inside the runtime mutex), `EpochInv` (a disconnect never has
the attempt number of the flight), `IdleInv` (if the newest call is a disconnect
whose stop worked, nothing is connected and an attempt can only end), `StoppedInv`
("stopped" on the screen) and `DestroyInv` (a deletion that erases comes from such a
disconnect). `TypeCorrect` and `DestroysNoConnection` follow. `NewestCallWins`
(`LastCallWins`) needs to know of every call that is not the newest that its result
will be dropped, and of the newest what its next continuation shows.

`SubscriptionStoreProofs`, for every set of ids, URLs and concurrent calls, and any
number of reloads and restarts. Types are not inductive alone: an await may resume with
an id that is not one. `TaskOk` says what each call relies on at its next await: a
structural mutation holds its mutex (`LockInv`), what it has noted is there (`NoteInv`),
what it removes and what replaces that still exists (`RemoveInv`), what it adds does not
exist yet (`AddInv`). A step of one call leaves the others that (`Frame`, `Others`);
where a call has got to is `Moved`. With `StoreInv` (ids were generated before they are
used) and `ListInv` follow `TypeCorrect` and `ListsFollowUrls`.

TLC confirmed each invariant on the instance of its run before it was proved.
Assumptions are those of the modules: names of pseudo values are not names of
real ones, bounds are natural numbers, an instance count is at least two, addresses
are four or sixteen octets, documents and settings are records of their kinds.

Only model-checked: the liveness properties (fairness and ENABLED are beyond
the prover), `RunningIsPrimary`, `RemovalIsFinal`, what `StoresAgree` says of the screen
and of the disk, `FilterTypes`, and the refutations of section 4.

## 6. Not modelled

* Win32 calls, YAML syntax, parsers of addresses and share links, hashes and
  signatures: they appear as outcomes or verdicts.
* `config/geofiles.rs`, `routing_store.rs`, `hwid.rs`: downloads and files, each
  replaced as a whole; the scheduler of the routing store is a timer over them.
* The single-instance lock, network watcher, secure storage and tray menu: thin
  layers over one operating-system object each.
* `helper_bootstrap.rs` runs the installer of `HelperInstall` and waits for it.
* Diagnostics, ping and leak tests: network I/O whose state ends with the call.
* Settings, update and toast stores, deep links, backup import, rendering:
  assignments without a protocol. A reload of the window shows "stopped" for an
  inherited connection until the first refresh has answered; the model has it
  (`Inherited`), and `DeletionMeetsNoConnection` excepts it.
* The shutdown transaction of `HelperBroker` after a drain that timed out: there it
  starts on a drained service; that it may run beside the thread of an aborted
  request is in `HelperPipe` (`DrainTimesOut`, `CleanupIsLast`).
* `localStorage` failing at the end of a wipe, with the rollback of that; legacy
  migration; the selected index.
* A YAML merge key (`<<`), which the code leaves to the engine; other keys that the
  sanitiser does not list are in the model and pass.
* A poisoned mutex, and a proxy marker of a version without ownership metadata
  (every operation refuses it).

## 7. Plan

What is left, in order of worth: proofs of `RunningIsPrimary` and `RemovalIsFinal`; the backup
merge of the frontend libraries and the geofile transaction as small modules; the
composition of `HelperPipe` with `HelperBroker`, whose requests it now takes as three
kinds.
