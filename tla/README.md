# A verification of the Korral replenishment server

`duvo_fde` is a Model Context Protocol tool server. An agent asks it for the
stock position of one product at one store, and it raises a replenishment order
in StoreLink, the retailer's system, when and only when the retailer's rule
requires one. This directory holds TLA+ modules translated from its source, the
TLC configurations that model-check them, and TLAPS proofs about them. Paths
below are relative to the repository root; `duvo_fde/` is short for
`src/duvo_fde/`.

## The system

| Part | State it keeps | Operations | Hard because |
| --- | --- | --- | --- |
| Tool server, `mcp_server.py` | none of its own; a correlation identifier per call | three tools; `_invoke` translates a `DuvoError` into a `ToolError` | synchronous tools run on worker threads, so calls interleave; an exception that is no `DuvoError` passes it by |
| Buyer service, `service.py` | none | check a position, raise an order, look an order up | measures again before a write; the deduplication key is settled before the lock is waited for; records in the trail after the write |
| Replenishment policy, `domain/policy.py` | none | gap, threshold, quantity, assessment | boundary of exactly six; direction of the subtraction; "not ranged" is not zero |
| Idempotency store, `idempotency.py` | `_results`, `_lock` | `execute` | one lock for all keys held across a network write; nothing recorded when the write raises; empty after a restart |
| StoreLink client, `storelink.py` | an HTTP client with a timeout | four reads, each retried once after a key rotation; one write, never retried | lost answers, late requests, 401 during a rotation, bodies that are not objects |
| Audit trail, `audit.py` | a file, `_lock` | `record` | runs after the write; raises on a full disk; may raise after the line is in the file |
| Secrets provider, `secrets_provider.py` | value, identity, degraded flag, rotation count per secret | `get`, `state`, both through `_refresh` | no lock; `stat` and `read` are two system calls and an operator renames in between |
| Redaction, `log.py` | the registry of values | `register`, `scrub` | iterates over the set another thread adds to |
| Health, `health.py`, `__main__.py`, `runtime.py` | registered probes | liveness, readiness | degraded against failed; probes run one after the other while files change; `main` registers none; the health command is another process than the server |
| StoreLink stand-in, `testing/mock_upstream.py` | lists of writes | the endpoints of StoreLink | two identical posts are two orders |
| Protocol probe, `tools/mcp_probe.py` | a child process and its pipes | handshake, calls with a deadline, exit code | a silent server, undrained standard error, answers not matched by identifier, SIGTERM ignored |
| Documentation verifiers, `tools/doc_verifier.py`, `tools/prose_guard.py` | none | judge Markdown files | text analysis only |

A tool call enters through `_invoke` on a worker thread and runs to its end
there. It resolves the store's key through the secrets provider before every
request, measures by four reads of StoreLink, applies the policy, and for a
write enters `IdempotencyStore.execute`, which holds its lock while the client
posts the order. Then the audit trail is appended to and the result returned.
All threads share one runtime: the store and its lock, the trail and its lock,
the secrets provider and the redaction registry, which have none. Every log line
and every line of the trail is scrubbed with that registry; the protocol probe
and the health command are processes beside the server. The modules
assume what `idempotency.py` and its tests with eight threads assume, that calls
do run concurrently.

What makes each part correct: an order follows the rule on figures its own call
measured; one call leaves at most one order; one key is confirmed at most once
by one process; the trail and the totals taken from it agree with StoreLink; a
held credential is the current one or is reported degraded; an instance is taken
out of service only for a cause; a probe that passes was answered as expected and
leaves no server behind; every call ends.

## Modules

| Module | Models | Kind |
| --- | --- | --- |
| `Policy` | the rule and the deduplication key | pure operators |
| `PolicyProofs` | theorems about them | proofs |
| `Replenishment` | calls, the store and its lock, the unreliable connection, StoreLink's order book, the trail, midnight, crash and restart | state machine |
| `OrderLedger` | what a buyer is promised, without threads, locks or messages | abstract state machine |
| `ReplenishmentInvariant` | the inductive invariant of `Replenishment` | state predicates |
| `ReplenishmentProofs` | its theorems | proofs |
| `OrderLedgerProofs` | what the ledger alone guarantees | proofs |
| `LedgerProofs` | that `Replenishment` implements `OrderLedger`, and what it inherits | proofs |
| `SecretsProvider` | one secret: the file an operator rotates and the threads that refresh it | state machine |
| `LastKnownValue` | what callers of a provider are promised, without system calls or dictionaries | abstract state machine |
| `SecretsProviderInvariant` | the inductive invariant of `SecretsProvider`, for any threads and for one | state predicates |
| `SecretsProviderProofs` | its theorems | proofs |
| `Measurement` | one call's reads of StoreLink, request by request, against key rotations and the shop | state machine |
| `MeasurementInvariant` | the inductive invariant of `Measurement` | state predicates |
| `MeasurementProofs` | its theorems | proofs |
| `McpProbe` | the protocol probe, the server it launches, the three pipes between them | state machine |
| `McpProbeInvariant` | the inductive invariant of `McpProbe` | state predicates |
| `McpProbeProofs` | its theorems | proofs |
| `Health` | readiness calls of the server and of the health command, step by step, while requests refresh and files change | state machine |
| `HealthInvariant` | the inductive invariant of `Health` | state predicates |
| `HealthProofs` | its theorems | proofs |
| `MCReplenishment`, `MCSecretsProvider`, `MCMeasurement`, `MCMcpProbe`, `MCHealth` | instances for TLC | model checking |

### Replenishment

A call is an element of `Calls`, its correlation identifier; a caller's retry is
another call with the same arguments. `pc` is its place in the code:
`measuring` is `_measure`, `locking` is the wait for `IdempotencyStore._lock`,
`posting` is `create_replenishment_order` inside `execute`, `auditing` is
`_audit`. `lock` and `results` are the store's two fields. A request has a life of
its own: `wire` says whether it was sent and answered, `reply` which order it
was answered with, and StoreLink may accept it long after the caller gave up or
the process died. `orders` is StoreLink's book and `audit` the file. `epoch` and
`boot` name the process incarnation.

| Action | Code |
| --- | --- |
| `Begin`, `ReadFails` | `_invoke`, and every way `_measure` or a lookup can fail |
| `StockRecordError`, `CheckStockPosition`, `RefuseOrder`, `RequireOrder` | `assess` and what each tool makes of it |
| `GetReplenishmentOrderStatus` | the lookup tool |
| `ReplayRecorded`, `PostOrder`, `RecordCreated` | `execute`: key present, key absent, write returned |
| `OrderUnconfirmed` | the `UpstreamError`s of the write, the lock given back by the `with` |
| `AnswerUnusable` | a success status whose body raises in `dict(response.json())` |
| `AcceptOrder`, `RejectOrder` | StoreLink |
| `RecordAudit`, `AuditFails` | `AuditLog.record` |
| `Midnight`, `Restart` | the clock; a fresh `build_runtime` |

Abstracted: identifiers and orders are model values and indices; a measurement
is one step that may return any of `Readings`, since its reads change nothing
here; the deduplication string is the record of its parts, in which it is
injective; an order's further life in StoreLink is left out. A status lookup is
by store and order identifier, so it may be of an order for another product. Under
the lock `execute` resolves the store's key once more before the write; where that
raises nothing is sent, which is the failure of a `PostOrder` whose request
StoreLink never sees. `Faults` says which failures an instance has.

The trail's file is taken as enabled, as it is by default. An empty
`DUVO_AUDIT_LOG_PATH` turns it off (`AuditLog.record` then only logs), and what is
said below of the trail's lines is then said of nothing.

Every log line passes a filter that iterates over the redaction registry. If
another call registers its store's key in the middle, Python raises
`RuntimeError`, and since filters run before a handler's own error handling it
leaves the call that logged. `LogRaces` says when that can be: another call
measures, or is about to sign its write. It is an outcome of the steps that log
or scrub: `ReadFails`, `OrderUnconfirmed`, `AnswerUnusable`, `RecordAudit`, where the
log line comes after the append, and `AuditFails`, where the scrub comes before it.
The line that is logged when an answer to the write has arrived may raise too; it
ends as `AnswerUnusable` does.

### OrderLedger

The ledger holds what each call asks for, the orders that exist, the at most one
order vouched for under each key, and what each caller was told. It says that an
order comes to exist only for a call that has had none and was not refused, and of
the item that call asked for; that an order told as created is the caller's own
and one told as duplicate is another's, both vouched for; and that only a restart
forgets. `Replenishment` maps the calls' items, StoreLink's book, `results` and
the ended calls to it (`ImplementsLedger`). From the ledger alone follows that
callers are told the truth (`ToldIsTrue`), which the server inherits
(`CallersAreToldTheTruth`).

### SecretsProvider

`_refresh` is taken apart at every system call and every dictionary operation:
`stat`, compare identity, `os.access`, `read_text`, compare values, store value,
store identity, discard degraded, read and write the count, register. A thread is
at one of these places (`call[t].at`), and the operator may rename, truncate,
write in pieces, remove, garble or change permissions between any two. `get` and
`state` differ only in what they answer at the end. The identity
`(inode, mtime_ns, size)` is a version number that is fresh with every change of
content: that two contents never share an identity is an assumption (a rewrite
of the same size within one clock tick of the file system breaks it).
`LogRaces` is the scrub of a log line against the registration of another secret:
it ends the call at the warning of a first degradation, or at the line that
reports a rotation, which comes before the new value is registered.

### LastKnownValue

A call asks, looks at the path once, and is answered with what is held: what it
saw, or, where nothing could be read, the last value anybody saw. With one thread
`SecretsProvider` implements it (`ImplementsLastKnownValue`), though a refresh is
up to four system calls and the operator acts between them: the look is the `stat`
where that finds nothing or the identity that is held, and the read otherwise, and
a value counts as held from the read on. With two threads it does not
(`stale_secret`). The promise leaves the degraded flag out: `os.access` may pass on
another file than the one that was identified, so a state read at the end of a call
need not be that of any one moment, though the value is.

### Measurement

`Replenishment` takes `_measure` as one step. `Measurement` takes that step
apart: `request` is the read whose turn it is (store, product, inventory, till)
or the order it leads to, `attempt` the iteration of the loop in `_get`, `key`
what signed the request, `inventory` and `units` the two figures the rule is
applied to. Korral's IT rotates a key in two places, the mounted file (`mount`)
and StoreLink (`accepted`), in any order and at any moment; the shop sells
(stock down, sales up) and is restocked between any two requests.

| Action | Code |
| --- | --- |
| `Begin` | the preflight of `_measure`: no key, nothing is sent |
| `Sign` | `resolve_store_key` before each request |
| `RetryRead`, `RejectRead` | the comparison after a 401, and the one retry |
| `LogRequest` | `_log`, which asks for the secret's `state` and so refreshes it |
| `Unanswered`, `Unauthorised` | no answer or an error status; a 401 |
| `ReadStore`, `ReadSku`, `ReadInventory`, `ReadPos` | the four reads; the last one brings the decision |
| `ReplayRecorded`, `AcceptOrder` | `execute` finds the key; StoreLink takes the order |

The provider is reduced to what `SecretsProvider` shows of calls made one at a
time (`LastKnownValue`): a readable file is what it serves, otherwise what it
holds (`Served`). All
calls are `raise_replenishment_order` for one product of one store;
`check_stock_position` makes the same reads and stops at the decision. `turns`,
`astray` and `restocked` are history that only properties read. Sales that leave
the trailing window while a call runs are left out: they would lower the gap.

### McpProbe

The probe and the server it launches, with the pipes as bounded queues. `pc` is
the place in `main`, `probe` or `_receive`; `step` is the request under way
(1 is `initialize`, 2 `tools/list`, then the calls); `failure` the exception that
ended the conversation; `late` says whether the deadline has passed. The server
is whatever the command launches: it answers what it takes from standard input,
one request at a time and each at most once, and may do what `Faults` allows in
between. Two kinds of message carry an identifier and answer nothing (`Unasked`): a
request of the server's own, and an error with a null `id`, a complaint about a
message it could not read. The probe looks for `"id"` only, so it takes either for
the answer it waits for. A second response to one request would shift the answers
in the same way and is not modelled; nor is `--min-tools 0`, with which the answer
to `initialize`, read as the list of tools, would do.

| Action | Code |
| --- | --- |
| `ReadConfiguration`, `Launch` | `read_server_command`, `Popen` and how each fails |
| `Send` | `_send`, with the notification before the second request |
| `CheckDeadline`, `ReadEnd`, `SkipLine`, `Receive` | one turn of the loop in `_receive`: deadline, end of stream, a line that is no response, one that has an identifier |
| `Initialised`, `Listed`, `Judge` | what `probe` makes of the three kinds of response |
| `Terminate`, `AwaitServer` | the `finally` block |
| `Report` | the exit code of `main` |

A message is `kind` and `id`; `met` and `unmet` stand for a result whose text
holds what the call expects or does not; an unasked message is taken never to hold
it. Lines are read whole, and what the probe
writes fits in its pipe: it has at most one request outstanding.

### Health

Per process and secret, whether a value is held and degraded, and per thread where
it is in a refresh (`stage`). A probe is a refresh and then, in a step of its own,
the reading of the state; the server's worker threads refresh in between, without a
lock, and the files change between any two steps.

| Action | Code |
| --- | --- |
| `Look` by `ServeRequest`, `RunProbe` | `_refresh` begins, for a request that resolves its key or for a probe |
| `Load`, `Confirm` | text was read and is stored; the identity is the held one and `os.access` agrees |
| `DiscardDegraded` | the flag is cleared, and a rotation logged |
| `MarkDegraded`, `DecodeFails` | `_mark_degraded`; `UnicodeDecodeError` leaves `_refresh` |
| `ReadState` | `state` reads both dictionaries, `_secret_probe` judges |
| `Ask`, `Answer` | a readiness call begins; its payload |

`SecretsProvider` has the system calls of a refresh. Here a thread looks for a
while and `met` is every state the file had in that while; it then acts on any of
them, which is at least what `stat`, `os.access` and `read_text`, each at a moment
of its own, may have found. The flag is cleared later, whatever has happened since.
A file may be text, blank, not UTF-8, or absent or closed to the process; all but the
last let `os.access` pass.

The `server` keeps its values between calls; the `command` is the health command,
each run of which is a new process of one thread. `Required` is what
`build_runtime` is given, and `main` gives nothing. `LinesRace` says whether the
server, which has other threads, may meet the raising log line in a probe, which
then counts as failed. `heldFirst`, `seen` and `lately` are history that only
properties read.

`ReadyIsFresh` is no more than the code promises. "Ready" says that every required
secret is held and that its file was accessible during the call, or during a refresh
that another thread had under way when the call began: such a thread may clear the
flag long after it looked, between the probe's marking and its reading of the state.
Nor need an accessible file be the one that was identified: `os.access` may pass
another that is blank or does not decode. Of the health command, which has one thread
and begins with nothing held, more is true (`CommandHasRead`): it has read usable text
of every required secret.

## Runs

| Run | Instance | Question |
| --- | --- | --- |
| `safety` | 2 calls, 2 items, every kind of reading | does any order escape the rule, does anybody hold a result the trail lacks, does every call end though all queue on one lock |
| `retries` | 3 calls, 1 item, 2 order-worthy readings, a midnight, a restart | what may be double, do replays, trail, totals and order book agree, is what callers were told true, and does all of it implement `OrderLedger` |
| `secret_threads` | 2 threads, 2 secrets, all mishaps of a file that decodes | what a provider without a lock still promises |
| `secret_alone` | 1 thread, all mishaps, five changes | what calls made one at a time are promised, that the provider catches up, and that it implements `LastKnownValue` |
| `measurement` | 2 calls, 2 keys, a ranged and an unranged product, 3 events | which rotations a read absorbs, and what figures of different moments can do to an order |
| `probe` | 2 calls, one that is to fail; a server that may do anything but fill standard error | what exit code 0 vouches for, whose answer a call is judged on, is a server left behind, does the probe end |
| `retry_after_lost_answer`, `unaudited_write`, `stale_secret`, `unregistered_secret`, `silent_server`, `unseen_outage` | the least faults that show it | a sentence of the repository that the code does not keep |

Bounds. Two calls are the least that can race or that are a call and its retry;
the third lets a replay race a retry. `LastDay`
of 1 separates two trading dates and `MaxCrashes` of 1 two incarnations.
Readings include both sides of the threshold, a gap of exactly six, an unranged
product, a negative figure and two quantities, so that keys differ. For the
secrets provider, two threads and two changes after the first file are what the
lost update needs; one thread gets four changes, enough to truncate, write a
fragment, complete it and rename. For the measurement, three events are the least that issue a key,
publish it and revoke the old one in the middle of a read, or sell, deliver and
sell; the first position has a gap of exactly six, which a sale carries over the
threshold. Its theorems hold without that bound. For the probe, two calls are the
demonstration's two, one to succeed and one to fail, and let an answer be shifted
by one; a pipe of two lines holds an answer behind something that is none. Two
secrets are enough for an outage of one. Calls are symmetric, as are threads and
secrets where no temporal property is checked. In every instance a call that has
ended stays ended, and only that stutters: deadlock is checked everywhere but in
`silent_server`, which shows one.

Fairness. `FairSpec` of `Replenishment` is weak fairness of each call's own
thread, no more: the operating system schedules threads, and the HTTP client has
a timeout (`StoreLinkClient.__init__`), which is why giving up on an answer is a
step the thread can always take while it waits. Callers need not call, StoreLink
need not answer, and midnight and crashes need not come. `threading.Lock` is not
fair, but the calls are finite in number, so weak fairness is enough. `FairSpec`
of `SecretsProvider` is weak fairness of each thread, including that calls keep
coming: nothing is refreshed otherwise. `FairSpec` of `McpProbe` is weak fairness
of the probe, of time, of the end of a killed process, and of the server's work on
what it was asked, which `ProbeEnds` is conditional on; nothing makes the server
log, notify, ask or exit. In the run `probe` its log fits in the pipe behind
standard error; `silent_server` lifts that.

## What the violation runs show

- **A retry can place a second order.** The tool's description and the
  operations guide promise the original order. A key is recorded only when the
  write returned, so after a lost answer the retry writes again
  (`retry_after_lost_answer`). What does hold is `TwinsNeedAnUnconfirmedWrite`:
  two orders of one key are never both confirmed by one process.
- **An unconfirmed write leaves no line** (`unaudited_write`), though every write
  path is said to record. `QuietReportIsComplete` bounds it: when every call ended
  well, every order has its line.
- **A rotation can be lost for good** (`stale_secret`). A thread that read the old
  file stores its value after another stored the new one and before that one
  stores the new identity. From then on every refresh finds the identity
  unchanged and serves the old key, and the probe reports it healthy. With calls
  made one at a time this cannot happen (`StillFileSettles`,
  `EventuallyCurrent`).
- **A rotated value can stay unredacted for good** (`unregistered_secret`). The
  line that reports the rotation is logged after value and identity are stored
  and before the value is registered. If its filter meets a registration of
  another thread, the exception leaves `_refresh`; the next refresh finds the
  identity unchanged and never registers the value it serves.
- **The probe outlasts its deadline** (`silent_server`). It waits in `readline`,
  which knows no deadline, and it never drains standard error: a server that
  logs more than that pipe holds stops, and each waits for the other.
- **An outage is not seen by the health check** (`unseen_outage`). The guide
  promises that a server working on its last known value reports itself degraded
  through readiness. `main` registers no probe, and the health command is another
  process.

Smaller ones are in the models and have no run of their own:

- `docs/04-operations.md:100` says of a full disk that the request path is
  unaffected; `record` raises after the order was placed, its caller gets the
  error and a retry is told `duplicate` (`AuditFails`).
- Bytes that are not UTF-8 raise through `get` and `state` although a good value
  is held, `UnicodeDecodeError` being no `OSError` (`Garble`).
- A success status with a body that is no JSON object raises an untyped error
  after the order was placed (`AnswerUnusable`).
- A second thread can be given a value that is not registered for redaction yet.
- The first piece of a value written in two is served, because only a blank file
  is taken for a rotation in progress (`WriteFragment`).
- The probe takes a request of the server, or an error with a null `id`, for an
  answer, after which every call is judged on the answer before its own
  (`JudgedOnOwnAnswer` has the condition); no such run passes.
- Readiness can say ready of a file that was unreadable all through the call, when a
  request that looked before clears the flag late (`DiscardDegraded`).
- The probe judges a protocol error like a result: it passes a call that expects
  an error if the text fits, though the comment there says it is recorded as a
  failure; and a `null` result raises `AttributeError` out of `main`.

## Proofs

`ReplenishmentProofs` proves, for any calls, items, readings, faults and bounds
that satisfy the named assumptions of `Replenishment`, that
`IInv` is an invariant, and from it `TypeOK`, `OneOrderPerCall`,
`OrdersRespectPolicy`, `TwinsNeedAnUnconfirmedWrite`, `CallersAgree`,
`NoOrderCountedTwice`, `TrailMatchesOrderBook`, `ResultsAreAudited`,
`QuietReportIsComplete` and `RecordedKeysAreStable`. None of these is inductive
alone. `IInv` adds: the lock is held by exactly the call that waits for an answer
(`LockInv`); a call past the gate holds figures that require an order and does
not change them (`GateInv`); orders and replies name each other (`BookInv`); the
store holds exactly the keys created in this incarnation and never the one a
write is under way for (`StoreInv`), which is what the lock is for and what makes
`ConfirmedInv` inductive; a replay names an order of its own key (`ReplayInv`);
and a line of the trail is the last word of a call that has ended (`TrailInv`).
`ReplayHeldInv` says that the order a replay is about stays in the store as long
as the process lives, which with `StoreInv` is why two callers answered under one
key agree; `AnswerInv` says that a call which has posted is answered with its own
order or with none, and `ReadingInv` where its figures came from.
Four frame lemmas say once what a step leaves alone (an ended call, a key in use,
the store, the trail), and each conjunct has one lemma, with a step for each
action that can disturb it. The arithmetic of the rule is cited from
`PolicyProofs`.

`LedgerProofs` proves `Spec => ImplementsLedger`. Under the mapping `AcceptOrder`
places an order, `RecordCreated` vouches for it, `RecordAudit` gives an order,
refuses or answers plainly, every way a call fails is an answer that promises
nothing, `Restart` forgets, and all else is invisible. Each of these is a lemma,
and each needs a part of `IInv`: placing, that the call was told nothing that a
late order would belie (`AnswerInv`, `OutcomeInv`); vouching, that the lock kept
the key out of the store (`StoreInv`); giving, that the key is still held when the
line is written (`ReplayHeldInv`), some steps after the lock was given back.
`OrderLedgerProofs` proves of the ledger alone, by four predicates inductive
together (`LedgerInv`), that callers are told the truth, and `LedgerProofs`
carries that theorem over: the instance of the proofs and the one in
`Replenishment` have the same initial states and steps (`SameLedger`).

`SecretsProviderProofs` proves, for any number of threads and file changes, what
`secret_threads` checks. The strengthening in `SecretsProviderInvariant` says what
a thread has learned by where it is (`LoadInv`: past the comparison a value is
held, because an identity is held only with one and values are replaced, never
removed); that over a still, healthy file no thread is on its way to a failure
(`StillInv`); that a call which began with a value held finds one (`HeldInv`); and
that a value not registered yet has a thread on its way to register it
(`PendingInv`). Three theorems have a hypothesis on the mishaps, each because the
property is false with it: no log line races (`"race" \notin Mishaps`) for
`AvailableWhenHealthy` and `RegisteredAtRest`, where `unregistered_secret` shows
why, and moreover no bytes that do not decode for `HeldValueNeverFails`. Each action has a lemma that says where it leads and
what of the call it keeps, so that the invariant's steps need no record algebra.

For calls made one at a time it proves what `secret_alone` checks but for liveness:
`StillFileSettles`, `RotationsAreObserved` and `ImplementsLastKnownValue`, under the hypothesis `Alone`, that
all threads are one, without which `stale_secret` refutes the first. `AloneInv`
adds to `IInv` what one call knows because no other moves: while the file keeps
the identity that is held, the value is what it says (`KnownInv`); what the call
has seen is no older than that identity, and what it read is what the file says
if that has not changed since (`SightInv`); over a file still since the call began
it is on its way to the right end, by each place it passes (`SettledInv`); and
identities run ahead of the count of rotations (`CountInv`). The operator may change the
file between any two steps of the call. From `AloneInv` follows too, step by step,
that such calls implement `LastKnownValue` (`OneLookPerCall`): `KnownInv` is what
makes the `stat` a look, and `FileInv` what makes the read one. It is why
`Measurement` may take a refresh for one step.

`MeasurementProofs` proves, with no bound on how often keys or stock change, what
`measurement` checks. `KeyInv` says what a request knows at each place of the
loop while nothing went astray: on the wire for the first time its key is the
served one or the served one has changed; being compared it is known to have
changed; and a second refusal needs a second change. `FigureInv` is the argument
for `NeverMoreThanTheGap`: until a delivery comes, stock only falls and sales only
rise, so the figures read are never worse than those of a later moment. An order
can be too small by what was sold meanwhile, and after a delivery too large.
`StageInv` and `HeldInv` say that only reads are compared and that a key once held
is never lost. `ReadPosMove` and `TurnTypes` say where a step leads, so that the
invariant's lemmas need not take `Assess` apart.

`McpProbeProofs` proves the four invariants of the run `probe` for any list of
calls, any faults and any size of the pipes. The argument counts what is in
flight: until an unasked message is taken for an answer, the request under
way is the only one in a pipe or with the server, and it is there once
(`OneInFlight`), so the next response read is its own. After such a message
everything is one late, and `Shifted` and `NothingAhead` say what is still true:
the answer to `initialize` is the first to be read as the list of tools, which
therefore never has tools enough, and nothing can arrive that was not asked. That
is why exit code 0 vouches for the answers even so (`Earned`, `Reported`).

`HealthProofs` proves, for any secrets, any list of required ones and any worker
threads, that an answer `not_ready` has a cause in the call itself (where no log line
races: `LinesRace` false), what `ready` rests on (`ReadyIsFresh`), and that the
health command has read what it vouches for (`CommandHasRead`). In the invariant,
`Refreshing` says what a thread has met by where it is, and that whoever is about to
clear a flag met the file accessible; `Looked` that between a probe's refresh and its
reading of the state the flag is set unless somebody met the file accessible, which a
late `DiscardDegraded` of another thread keeps true only because `lately` counts what
refreshes under way had met; `Grounded` ties each result to the files, `Asked` the
answer to the results; and `CommandRead` that all the command holds it read during its
run. A value once held is never lost.

`PolicyProofs` has the rule both ways, for every position: an order is required if
and only if the product is ranged, its stock figure is not negative and the gap is
above six (`OrderRequiredIffGap`), and then the order is the gap (`OrderIsTheGap`).

Model-checked only: liveness (`EveryCallEnds`, `EventuallyCurrent`, `ProbeEnds`),
which is out of the proof system's reach. Every other property of a passing run is
a theorem. Proved and in no run of the project: the theorems of `HealthProofs`, whose
properties say nothing of the entry point's instance, which requires no secrets.

## Not modelled, and the plan

What is left of the modelled parts, in the order it would be added: a composition
of `Measurement` with the whole secrets provider, to see what a read is signed
with when two threads refresh the key; the trailing window of sales moving during
a call; and the shutdown of `serve`, once there is a transport behind it.

Left out for good:

- `tools/doc_verifier.py` and `tools/prose_guard.py` read Markdown files from
  beginning to end and judge words. They keep no state, wait for nothing and are
  called by nobody, and a model of their patterns would be the patterns again.
- `tools/demo_buyer_task.py` makes a fixed sequence of calls, one after the other,
  and asserts their outcomes: a test, of operations that are modelled.
- The patterns and key names by which `log.py` recognises a credential, and the
  formats of its lines; message texts, explanations, schemas and environment
  parsing, which are data.
- The shell scripts, which build and rehearse, and the stand-in's fixtures.
