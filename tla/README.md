# A TLA+ verification of env-ctl's secrets engine

The repository is a secrets vault with a credential broker: a daemon (`secretd`) holds a vault that is
locked or unlocked, keeps secrets, mints short-lived *relay bearers*, and swaps a bearer for the real key
on the way to an upstream. Every engine call runs on a thread of tokio's blocking pool; the calls share a
store, a few maps in RAM and one `RwLock`, and nothing else orders them. This directory models the engine,
its stores and its daemon in TLA+, checks the models with TLC on small instances and proves most of the
safety results with TLAPS for every value of the constants. Source references are relative to `src/crates/`.

## 1. The system

| Component | State it keeps | Operations | Interacts through |
|---|---|---|---|
| Vault (`secrets-engine/src/lib.rs`, `keyslot.rs`, `vault/`) | keyslots, header MAC, issuance floor, DEK generation in the store; the DEK in RAM | `init_vault`, `unlock`, `lock` | the vault `RwLock`; every other call reads the DEK under it |
| Audit log and anchor (`lib.rs` 1521-1715, `vault/audit.rs`) | the hash-chained rows, the high-water, the head MAC | `audit`, `advance_audit_anchor_if_unlocked`, `verify_audit_anchor_with` | every engine call audits; `unlock` verifies |
| Credential broker (`lib.rs` 679-1455, `broker/`) | policies and bearers in the store; usage counters in RAM | `relay_mint`, `relay_mint_remote`, `relay_revoke`, `relay_revoke_bearer`, `relay_swap`, the pure `decide` and `clamp_ttl` | store, vault lock, USB probe, clocks, upstream |
| Secrets (`lib.rs` 487-666) | versions under reserved row ids | `secret_put`, `secret_get` | vault lock (write), store |
| Remote clients (`lib.rs` 865-934) | registrations | `register_remote_client`, `relay_mint_remote` | store, broker |
| Stores (`vault/store.rs`, `secrets-store-libsql/`) | all of the above | the `Store` trait: one mutex (in memory), or statements and transactions over a stream that may expire and is then opened again (libSQL) | the engine's threads |
| Daemon RPCs (`secretd/src/grpc.rs`, `audit.rs`) | one response stream per call, a mirrored `unlocked` flag | `run_streaming`, `Vault.Add`, `Lock.Unlock`, `Lock.LockNow`, `Lock.Status` | the engine; clients |
| Daemon process (`secretd/src/main.rs`, `server.rs`, `config.rs`) | the socket file, the listener, the resolved store | `StoreConfig::resolve`, `build_engine`, `bind_uds`, `serve` with its shutdown | the file system; other daemons of the user |
| Client (`secretctl/`), protocol (`secrets-proto/`) | none | one RPC per run | the daemon |
| Stubs (`ca.rs`, `inject.rs`, `proxy.rs`, `adapter.rs`), unused `guard.rs` | none | `todo!()` | nothing |

What makes it hard:

* **Interleavings.** The store makes each single call atomic and nothing more. Read-modify-write sequences
  (the anchor's high-water, the policy upsert of the libSQL store, load-flip-save of a revoke, reserve,
  seal and insert of a secret, the check of `init_vault`) run with the vault lock shared, not held at all,
  or held by one of two processes.
* **The lock.** Rust's `RwLock` prefers queued writers: a thread that takes it shared twice can wait for itself.
* **Crashes** between the two writes of the anchor, the writes of `init_vault`, the rows of a revoke, and
  between binding a socket and removing it.
* **Failing store calls**, among them statements that took effect and are reported as errors, and
  statements that are sent twice.
* **Time.** Wall clock and `CLOCK_BOOTTIME` are read once and used later; one is stepped, the other restarts.
* **Two stores** that reach the same ids in different ways.
* **Panics and hang-ups.** A blocking thread may panic with or without the lock; a client may stop reading.

What makes each component correct:

* anchor: an honest vault stays openable, a truncated log is never accepted, the anchor catches up;
* broker: revocation is final, budgets hold under concurrency, limits of different mints do not mix, calls end;
* linkage: a bearer stays bound to its relay, so that a revoke reaches it;
* lifetime: a bearer dies on time by either clock, honest clocks are not turned down, the rate is bounded;
* vault setup: a header MAC means a vault that opens, an opened vault keeps its key, openings are logged;
* secrets: versions are appended and never change, an acknowledged one stays readable, no row id is shared;
* RPCs: a clean end of a stream means the work was done, the flag tells the vault's state, calls and streams end;
* process: clients reach the one daemon that serves, on a private socket, and its store is on this host.

## 2. Modules

| Module | Models | State and code |
|---|---|---|
| `AuditAnchor` | audit log, tail anchor, `unlock`'s verification, `lock` | `chain`, `highWater`, `mac` are the store; `pc`, `read`, `hw` a thread's frame; one action per store call (`AppendAudit`, `GetHighWater`, `PutHighWater`, `PutMac`, `GetMac`, ...) |
| `VaultSetup` | `init_vault` and the reads and checks of `unlock` | `slot`, `mac`, `floor`, `generation`, `head` are the store, `vault` the DEK in RAM (0: locked), `frame` what a call has read or drawn; one action per store call, each of which may fail before or after it took effect |
| `BearerLedger` | what the broker promises about bearers (abstract) | `owner` and `cap` are the relay of each bearer and the largest budget of each relay, `reported` what revokes reported, `sent` the requests sent, `asked`, `barred` and `answer` the swaps under way |
| `RelayBroker` | mint, revoke (relay, bearer), swap, lock, unlock | `policy`, `bearer` are the store, `used` is `Broker::counters`, `vault`/`readers` the lock; one action per store call, lock operation or probe |
| `PolicyStore` | the policy id that links bearers to relays, in both stores | `id`, `revoked` are `relay_policies`, `policy`, `off` are `relay_bearers`; `SaveAtOnce` is the in-memory upsert, `SelectId`, `SelectMax`, `Upsert` the three statements of the libSQL one |
| `BearerClock` | lifetime and rate of a bearer | `up` is the true time nobody reads, `wall` and `bootAt` give the two clocks; a call reads both in its first step and decides in a later one |
| `SecretLog` | what the secret API promises (abstract) | `entries` are the versions there are, `acked` those whose put returned Ok, `seen` what a get holds |
| `SecretStore` | `secret_put`, `secret_get` over the libSQL store, by several engines on one database | `next` and `rows` are the tables `row_id_counter` and `secrets`; a put locks, reserves, seals and inserts; `run_retry`'s second attempt is an action of its own |
| `EventStream` | the streaming RPCs, from the engine's events to the client | `stream` and `heard` are what is under way and what arrived, `sup` the supervisor of `run_streaming`, `flag` the mirror behind `Lock.Status`, `poisoned` the lock after a panic under it |
| `DaemonSocket` | configuration, start, control socket and end of several daemons | `path` is the file at the socket's path, `listening` and `tight` whose listener is open and whose socket was set to 0600; one action per file system call of `bind_uds` |
| `MC...` | values of the constants for TLC | |
| `...Proofs` | theorems about the module of that name, section 5 | |

The models share no variables. They meet where one takes as a single step what another spells out:
`RelayBroker`'s audit row is one append and one advance (spelled out in `AuditAnchor`), its policy save
keeps the row id (spelled out in `PolicyStore`), its swap may always be denied for a reason of time or
request (`BearerClock` has the time); `VaultSetup` keeps of the anchor which DEK keys it (its position
and two writes are `AuditAnchor`'s); `EventStream` keeps of an engine call its events and outcome; and
`SecretStore` and `RelayBroker` are the detailed designs that `SecretLog` and `BearerLedger` abstract.

Abstractions used throughout: a MAC, hash or seal equals another exactly when what it was computed over
does; a bearer, relay, name or thread is a model value, a secret's value the number of its put; a bearer's
token, a salt and a DEK are never drawn twice; the USB probe, the upstream and the host, path, method and
peer clauses of `decide` answer anything. Names marked `Mutant` in the modules are plausible slips of the
same code, kept to show that the property beside them can fail.

History variables (named so where they are declared) record what no single state of the program shows:
which rows were ever anchored, which bearers a revoke reported on, who wrote while a put was under way,
what went wrong so far. No guard of an action of the code reads one, except to note overlaps for the
properties (`happened`, `excuses`, `raced`, `contested`, `muddled`).

## 3. Runs

Every run bounds the number of calls, rows, daemons or ticks by a constant; all behaviours end there, so
deadlock is not checked. Stuck calls are what `WaitersWaitForRunners`, `EveryCallReturns`, `CallsFinish` and `StreamsEnd` look for.

| Run | Question | Bounds |
|---|---|---|
| `anchor` | Do `AnchorAgrees`, `AcceptedLogIsComplete`, `HonestUnlockIsAccepted`, `TailIsBeingAnchored` and `AnchorCatchesUp` hold with crashes, store errors and lost rows? Yes, under the circumstances each names. | two threads, four rows ever: enough for two advances, or two unlocks, to interleave and for a log to be cut and grow past the high-water |
| `anchor_assert` | Does the `debug_assert!` at lib.rs:1608 hold? No: of two concurrent advances, the thread with the older tail finds a higher high-water. | two threads, no fault |
| `vault` | `HeaderMacMeansOpenable`, `OpenedVaultKeepsItsDek`, `EveryOpeningIsLogged` | two threads, four calls, two clock readings, crashes and store errors: an init that died, two that overlap or one that repeats another, and an unlock beside or after them |
| `vault_brick` | Is a header MAC mismatch always tampering, as lib.rs:408 says? No: an init with a USB stick that died early and a later one without make a vault no unlock opens. | one thread, four calls, crashes only |
| `broker` | `RevokedIsReported`, `BudgetHolds`, `LiveLimitsAreLatest`, `WaitersWaitForRunners`, `CallsGetShorter`, `EveryCallReturns`, and the refinement `KeepsThePromise` of `BearerLedger` | three calls on two threads, a relay with an earlier bearer: a revoke, a mint and a swap of one relay in any overlap |
| `broker_audit` | Is every swap outcome durable before the call returns (DESIGN-NOTES.md:55)? No: the audit of a request that was sent may fail and is discarded. | one call |
| `policy` | `BearersKeepTheirRelay`, `RevokeReachesItsBearers`, unique ids (in `TypeOK`), both stores | two threads, two relays, three bearers, four calls, so that a revoke and two mints of its relay overlap a first mint of the other |
| `policy_orphan` | Is no bearer orphaned, as store.rs:384 says? Two first mints at once orphan one. | two calls, no fault |
| `clock` | `BearerDiesOnTime`, `HonestClockIsServed`, `RateIsBounded` | two threads, one bearer, a second of two ticks, a minute of three, five ticks; calls and mishaps share one bound: five calls, or three and a mishap, or two and two mishaps |
| `secrets` | `EveryRowOpens`, `OneRowPerPut`, `OnlyRacesAreRejected`, and the refinement `KeepsThePromise` of `SecretLog` | two engines with two threads and one, two names, three calls, expired streams, store errors, crashes: a put retried after its commit, with another engine's put in between |
| `stream` | `CleanEndMeansDone`, `FlagFollowsVault`, `CallsFinish`, `StreamsEnd` | four RPCs, two at a time, failing store calls and panics: a lock and an unlock overlap, and later ones follow on what they left; one client reads on, the other may hang up |
| `socket` | `ServingIsReachable`, `SocketIsPrivate`, `OnlyLiveDaemonsBlock`, `TokenStaysOnHost` | four daemons, every combination of environment, file and token: one that crashed, one that leaves and two that start |

`clock`, `vault` and `socket` use symmetry between threads or daemons, `secrets` between names and between
the threads of one engine; none of them checks liveness. `Given` in `broker` starts with a bearer of an
earlier mint, which saves a call and is a state any daemon is in.

Faults: `crash` kills the process (RAM and frames are gone; with the in-memory store, the tables too),
`storeError` makes a store call return `Err` (in `VaultSetup` and `SecretStore` before or after it took
effect; an unlock that was verifying the anchor audits a refusal first, as lib.rs:438-447 does, and so
does a swap, lib.rs:1065-1076; any other call just ends), `expiry` loses a statement's stream, `tailLoss` removes rows from the end of the log, `panic` ends
a blocking thread, `step`, `reboot`, `restart` are those of the clocks and the process.

### What the runs found

* **Two advances of the anchor** (`anchor_assert`). The comments at its choke point assume one advance at a
  time, the code takes the vault lock shared. A debug build panics, a release build signs an older row
  under the newer position and the next unlock rejects an honest log.
* **A leftover USB slot** (`vault_brick`). `init_vault` writes slots before the header MAC that makes a vault
  of them. An init that saved slot 2 and died is repeated without the stick: the MAC covers the new slot
  alone, `unlock` computes it over both, and a second init is refused.
* **An orphaned bearer** (`policy_orphan`). The libSQL upsert decides an id in separate statements.
* **A sent request without a row** (`broker_audit`). `relay_swap` discards the result of its last audit.

Observations that came with the modelling and have no run of their own:

* The high-water is called an only-growing floor (lib.rs:1565); concurrent advances lower it (1583-1592),
  by the race of `anchor_assert`.
* Two unlocks at once: the first may commit and anchor its row after the second read the MAC and before it
  read the high-water (lib.rs:1673-1687, with no lock held). The second is refused, and audited, as
  `AuditChainBroken`, although nothing was tampered with; the next unlock finds the vault open.
  `HonestUnlockIsAccepted` says that this is the only way to be refused so, short of faults and overlapping advances.
* A revoke on a locked vault stores the policy as revoked (lib.rs:966) before it finds out that it has no
  DEK; lib.rs:1369-1370 reads as if it could do nothing.
* The rate window is called sliding (broker/mod.rs:201) and tumbles: two windows meet within one minute,
  and a call counts in the window of the moment it is decided with the clock it read when it began
  (lib.rs:1188, 1260), so each other thread may add one request of an earlier minute. `RateIsBounded` says
  that much and no more.
* A call that read the wall clock before it was set back and counts afterwards opens a window ahead of the
  clock, in which the calls that follow count as well (broker/mod.rs:213 compares a negative age). If a
  window has just followed another one, three of them meet in one minute. This needs one slow call and one
  step of the clock; `served` starts over at the count of such a call, so `RateIsBounded` does not speak
  of it.
* The count of the rate includes the request at hand and is compared
  with `>=`: a rate of *r* lets *r* - 1 through in a window, and a rate of 1 none.
* The boot clock's stamp does not say which boot it is of (decide.rs:131-135): a set-back across a reboot
  goes unseen, and `BearerDiesOnTime` allows for it.
* Two daemons that start, or start and stop, within one window of `bind_uds` may leave one that serves
  without a file (main.rs:100, 171-179); `ServingIsReachable` excuses exactly these overlaps (`muddled`).
* A panic under the vault lock poisons it, and `lock()` panics from then on (lib.rs:474): clients are told
  (`CleanEndMeansDone`), the DEK stays in memory until the process ends.

## 4. Fairness

`AnchorCatchesUp` and `EveryCallReturns` are checked under weak fairness of `Step(t)` for every thread
`t`: a call that was started goes on. The threads are OS threads of the blocking pool, store calls and
upstream sends return or fail, and the `RwLock` hands a free lock to a waiter. `EventStream` assumes the
same of the blocking thread (`Task`) and of the tokio task that waits for it (`Supervise`), and of a
patient client that it takes what is sent (`Listen`); the other clients may stop for ever, which must not
hold up anybody else. Nothing is assumed of the caller (no call need ever be made), nor of crashes,
errors, panics, hang-ups, signals or ticks.

## 5. Proofs

All theorems are of the form `Spec => []P`, `Spec => [][A]_vars` or `Spec => Promise!Spec` and hold for any number of threads,
relays, bearers, engines, names, daemons, calls and rows, every bound and every mix of faults. The only
assumptions are the named `ASSUME`s of the modelled modules, about the constants. `RelayBroker`'s and
`BearerClock`'s include that the threads are finitely many (and, in `BearerClock`, that there is one): the
pool has a limit, and the count of readers and the bound on the rate are numbers. `RelayBroker`'s also says
that there are finitely many tokens: they are random strings of one length.

| Module | Theorems | Argument |
|---|---|---|
| `AuditAnchorProofs` | `TypeCorrect`; `Completeness` (`AcceptedLogIsComplete`); `Agreement` (`AnchorAgrees`); `HonestUnlocks` (`HonestUnlockIsAccepted`); `NoRowIsForgotten` (`TailIsBeingAnchored`); `FloorOnlyGrows`, an action property | `CompletenessInv`: the log is in order of appending and has no gap before an anchored row, the stored MAC is over the youngest anchored row, an advance holds a row no older than any anchored one, an unlock past its first read has the current MAC or looks at a complete log. `AgreementInv` adds what an advance under way has read; `ReadingInv` that the position of the MAC an unlock read, the high-water it read and the present one are in that order; `TailInv` that no advance is about to write a high-water below the one that stands |
| `VaultSetupProofs` | `TypeCorrect`; `OpeningsAreLogged` (`EveryOpeningIsLogged`); `OpenedDekStays` (`OpenedVaultKeepsItsDek`); `HeaderMacOpens` (`HeaderMacMeansOpenable`) | what an init that was alone knows of the store between its steps, and an unlock between its reads (`OneDek`); for the last one, of all five cells at once, and what a header MAC says of them while no init died or failed half done, overlapped another or left a slot behind (`Whole`) |
| `PolicyStoreProofs` | `TypeCorrect` with unique ids; `Binding` (`BearersKeepTheirRelay`); `Revocation` (`RevokeReachesItsBearers`) | the table always has a largest id, so the next one is fresh; `LinkInv`: what a mint holds between the choice of the id and the save of the bearer; `RevokeInv`: what a revoke has to reach is minted and bound to its relay |
| `RelayBrokerProofs` | `TypeCorrect`; `RevocationIsFinal` (`RevokedIsReported`); `BudgetsHold` (`BudgetHolds`); `LimitsAreLatest` (`LiveLimitsAreLatest`); `Refinement` (`KeepsThePromise`); `NobodyWaitsInACircle` (`WaitersWaitForRunners`); `CallsTerminate` (`CallsGetShorter`, an action property) | no step undoes a row, a revocation or a granted budget (`Grow`). `Bound` and `Rows` say what a thread holds and which rows there are, `Dying` which bearers a revoke under way has still to reach, `Reading` and `Late` what a swap that began after a report may have read, `Spending` that requests sent and about to be sent stay within the counter. The refinement forgets locks, rows and counters: the first save of a bearer is an `Issue`, a save of a policy a `Raise`, the end of a revoke a `Report`, a send a `Serve`, a denial a `Refuse`, a crash the `Restart`, and every other step a stutter (`RefinesStep`); `Kinds` says which verdicts a swap may hold at each point, so that none returns without an answer. Nobody waits in a circle because the lock is held shared exactly at the labels of `TypeOK`, where no thread waits for it. `Left` counts the steps a call may still take; it shrinks because a revoke works down a list it made once (`Dying`), and a refusal whose audit fails is an error of its own only once (`Kinds`, `Unlocking`) |
| `BearerClockProofs` | `TypeCorrect`; `BearersDieOnTime` (`BearerDiesOnTime`); `HonestClocksAreServed` (`HonestClockIsServed`); `RateStaysBounded` (`RateIsBounded`) | `Clocked`: of any two readings the later one's wall clock is ahead by the true time less what it was set back (`Before`), and a stored bearer carries the stamps of a reading and a clamped, positive ttl (`Stamped`). The rest is arithmetic about `clamp_ttl` (`ClampIsLeast`), whole seconds (`Expiry`) and the two clauses of `decide`. For the rate, `Windows`: the requests served are numbered in their window, fewer than the rate in each, windows follow each other by at least a minute, and only the last request of each other thread was counted later than it read the clock (`OneWindow`, `LateCalls`) |
| `SecretStoreProofs` | `TypeCorrect`; `RowsOpen` (`EveryRowOpens`); `NoDoubleInsert` (`OneRowPerPut`); `LockOrdersPuts` (`OnlyRacesAreRejected`); `Refinement` (`KeepsThePromise`) | what a put holds between reserve, seal and insert; versions of a name are 1, 2, 3, ... without a gap. The refinement maps rows to entries by forgetting id and seal: initial states map to initial states, an insert to `Write`, an answer to `Acknowledge`, the decision of a get to `Reveal`, its return to `Forget`, and every other step to a stutter (`RefinesStep`) |
| `EventStreamProofs` | `TypeCorrect`; `NoMaskedFailure` (`CleanEndMeansDone`); `StatusIsTrue` (`FlagFollowsVault`); `RpcsTerminate`, an invariant and an action property | what was sent at every point of a call (`Sent`, `InCall`), and who may have changed the vault since the flag was last right (`Changes`). `Left` counts the steps of an RPC, a queued event for two, since its twin has to be read as well |
| `DaemonSocketProofs` | `TypeCorrect`; `StoreOnHost` (`TokenStaysOnHost`); `ServedSocketsArePrivate` (`SocketIsPrivate`); `TheServerIsReached` (`ServingIsReachable`); `StaleSocketsAreReaped` (`OnlyLiveDaemonsBlock`, an action property) | what a daemon knows of the path between two of its file system calls (`Knows`) |

The safety invariants are not inductive as stated; the last column names what strengthens them. Every
property was checked by TLC before it was proved. The temporal step is one use of the invariance rule, or
of step simulation for the refinement.

Only model-checked:

* liveness (`AnchorCatchesUp`, `EveryCallReturns`, `CallsFinish`, `StreamsEnd`): fairness and `ENABLED` are
  out of the prover's reach. Its safety halves are proved. A call of the broker takes a bounded number of
  steps (`CallsTerminate`), and whoever waits for the lock waits for a thread that does not
  (`NobodyWaitsInACircle`); that such a thread goes on is the fairness assumed, and that its action is
  enabled is left to TLC. An RPC, its client included, takes at most 15 steps (`RpcsTerminate`). A row
  without an anchor has a thread on its way to write it (`NoRowIsForgotten`); that it gets there is left to TLC.

## 6. Not modelled

* **Remote clients.** `register_remote_client`, `relay_mint_remote` and the proof of possession of a swap are
  called by tests only, no RPC reaches them, so who may use them at the same time is not settled by this
  code. Past its own checks a remote mint is the `mint_bearer_core` of `RelayBroker` and `PolicyStore`.
* **Unary RPCs.** `Vault.Get` and `Relay.Mint` are one engine call and its answer; the others answer
  `Unimplemented`. The owner check compares two uids.
* **Cryptographic primitives and byte encodings** (`aad.rs`, `crypto.rs`, `token.rs`, `audit.rs`'s hashing, row
  serialisation), pure conversions (`conv.rs`, `event.rs`, `paths.rs`, `error.rs`): no state, and out of a
  model checker's reach.
* **Clauses of `decide` about one request** (host, path, method, SNI, peer): pure tests that the repository
  tests by table. The byte budget has the shape of the request budget.
* **The reconnect of the libSQL stream** and the runtime it drives: `SecretStore` takes it by its outcomes.
* **The daemon's listener with a full backlog**, and file system errors other than a path that is or is not
  there. URL parsing is taken by its outcome.
* **Client, protocol, generated code, stubs** (`secretctl/`, `secrets-proto/`, `ca.rs`, `inject.rs`, `proxy.rs`,
  `adapter.rs`, `guard.rs`): one RPC per run, or nothing that runs yet.

Worth adding when the code grows: the remote plane once an RPC reaches it.
