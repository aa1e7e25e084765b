# request-sudo in TLA+

request-sudo lets an agent ask for a privileged command, a person approve it,
and a root daemon run it once. This directory specifies it in TLA+: modules that
model the code, TLC configurations that check them on small instances, and proofs
that TLAPS checks for every value of the constants.

## The system

| Component | State | Operations | Talks to |
|---|---|---|---|
| Event log (`internal/events`) | JSONL file, `lastHash` | `NewLog`, `Append`, `Replay` | broker; the adapter reads the file |
| Projection (`internal/projection`) | request id -> snapshot | `Apply`, `Rebuild` | broker |
| Broker (`internal/broker`) | mutex, log, projection, clock | `Submit`, `Status`, `Approve`, `Deny`, `Execute`, start-up recovery | log, projection, executor |
| Executor (`internal/execution`) | none | `Execute` | the operating system |
| Socket server (`internal/socket`) | two socket paths, connections, allow lists | listen, accept, `dispatch`, close | clients, broker |
| `request-sudod` (`cmd/request-sudod`) | none | start, stop on a signal | systemd restarts it on failure |
| Clients (`cmd/request-sudo`, `cmd/request-sudoctl`) | one connection | one call each | the request lane, the review lane |
| Pending set (`internal/twilioadapter/pending_set.go`) | phone -> slot, audit file | `OpenPending`, `Resolve`, `Release`, `ExpireDue`, `ReplayFromAudit` | tailer, webhooks |
| Canon tailer (`canon_tail.go`) | offset, seen ids | `scanOnce`, `handleLine` | reads the event log, calls `handlePending` |
| Adapter main (`cmd/request-sudo-twilio-adapter`) | none | `handlePending`, start, shutdown | pending set, Twilio |
| Webhook handler (`webhook_handler.go`) | none between requests | `HandleInboundReply` | pending set, Twilio, broker's review socket |
| Configuration (`config.go`, `approvers.go`, `country_guard.go`) | read once, at start-up | `LoadTwilioEnv`, `LoadApprovers`, `ParseAllowedCountryCodes`; later `LookupRecipients`, `IsAllowedCountry` | adapter main |
| Wire protocol, summary, webhook signature, installer | none | pure functions and scripts | |

What is hard about it, and what correctness means:

* **Broker.** `Execute` gives up the mutex while the command runs; an append can
  fail after it wrote; the process or the machine can die anywhere. A command
  must be launched at most once, only with a recorded approval that was checked
  against the deadline, and what clients are told must only move forward.
* **Event log.** A failed append leaves bytes behind that memory does not know
  of. Replay must give back what was acknowledged and nothing that was buried.
* **Projection.** It is maintained one `Apply` at a time and rebuilt at start-up;
  both must agree.
* **Sockets.** `listenSocket` removes whatever is at its path and nothing locks
  the log, so two daemons can serve the same file from two memories. That must
  not pass unnoticed.
* **Tailer.** It reads a file that is being written and may meet half a line. One
  bad line must not cost the others.
* **Adapter.** The tailer and the webhooks share the pending set and release its
  mutex around calls to Twilio and to the broker. A reply must decide the
  request its SMS was about, and a restart must not lose that binding.
* **Configuration.** `parseApprovers` is a hand-written reader of a part of YAML:
  what it makes of a file must be what the file says.

`PROJECT.json` lists the hazards with their lines.

## Modules

| Module | Models |
|---|---|
| `Projection` | `Apply` as the tables `From` and `To`; `Rebuild` as a reference function |
| `EventLog` | the file (`canon`, `eol`, `synced`), `lastHash`, `Append` with its five outcomes, the checks of replay, a crash |
| `Broker` | the daemon: handlers, start-up line by line, recovery, crashes, the clock. Extends the two above |
| `RequestLifecycle` | what the broker promises: statuses move forward, one launch, nothing executing after an outage |
| `BrokerProofs` | proofs about `Broker`: types, one launch, the refinement |
| `LogProofs` | proofs about `Broker`: launches are authorised, executions have a handler. Extends `BrokerProofs` |
| `ReplayProofs` | proofs about `Broker`: what start-up refuses, what it buries, and memory against the file. Extends `LogProofs` |
| `Daemons` | two instances of `Broker` over one file and one pair of socket paths, connections, lanes, clients |
| `DaemonsProofs` | proofs about `Daemons` |
| `CanonTail` | the tailer against a file that grows by bytes |
| `CanonTailProofs` | proofs about `CanonTail` |
| `PendingSet` | the adapter's slots, their audit rows, replay, elapsed time and wall clock |
| `PendingSetProofs` | proofs about `PendingSet` |
| `Adapter` | tailer, `handlePending`, webhook handlers, restarts, over an abstract broker and an external Twilio. Extends `PendingSet` |
| `AdapterProofs` | proofs about `Adapter`. Extends `PendingSetProofs` |
| `AdapterConfig` | the adapter's start-up: country flag, `twilio.env`, `approvers.yaml`; whom a request is sent to |
| `ConfigProofs` | proofs about `AdapterConfig` |
| `MCBroker`, `MCDaemons`, `MCCanonTail`, `MCPendingSet`, `MCAdapter`, `MCAdapterConfig` | values for the constants |

Names follow the code.

**Broker.** A handler runs under `Service.mu` and is one action; `Execute` is
`ExecuteBegin` (up to the unlock), `Launch` (the executor starts the command) and
`ExecuteEnd` (from the second lock on). A handler that returns without writing is
a stuttering step. `phase` says where the process is. `Start` is `NewLog`, whose
replay finds `lastHash`; `NewService` then replays the file a second time for the
projection, in `ReplayLine` steps ended by `Adopt` or `Refuse`.
`recoverExecutingLocked` is a `Recover` step per request, ended by `Serve`.
While the process is down `proj` keeps what was last served, for comparison.
The clock is read twice for an approval: by the deadline check and, later, for the
line's timestamp. Nothing reads the timestamp back, so lines have none; `checked`
records the first reading, for `LaunchAuthorised`.

An append ends in `nil` or is interrupted, by an error or by the death of the
process, with nothing written, a torn line, a line without its newline, or a
line that was not synced. The next write after an unterminated tail is glued to
it. Hashes are numbers that never repeat.

**Daemons.** Each daemon has its own `lastHash`, projection and handlers; the file,
its faults, the clock and the launches are shared. A second daemon may replay
while the first one writes, between its own two replays too. `OpenRequests` and
`OpenReviews` are the two `listenSocket` calls of `Run`: they take the path over. A
connection stays with the listener it was made to. `Kill` leaves the socket
files; `Stop` unlinks them by name, also when they are by now the other daemon's,
and does not wait for handlers. `Dispatch` is one request on a connection: the lane
decides which handlers it can reach, `Reviewers` which peers may decide. The
`VIEW` of `MCDaemons` merges states that have the same future as far as the two
properties go: it leaves out histories and the memory of a dead process, does not
tell the two daemons apart, and once the file is no longer intact keeps only where
the daemons and their commands are (nothing repairs the file while no lines are
lost, and both properties are then true for good).

**CanonTail.** A byte is its line and its place in it; a text decodes if it is
exactly the bytes of one line. A scan takes what is there up to a newline or the
end of the file and moves the offset by one byte more than that, newline or not.

**Adapter.** `HandleInboundReply` is split at its calls: `Receive` (parse and
`Resolve`), `Check` (Twilio), `Call` (broker), `FreeSlot` (`Release`).
`handlePending` is `TailLine`, then per recipient `SkipRecipient` or `ClaimSlot`,
`TwilioAccepts`, and `SendSucceeds` or `SendFails`. The broker is reduced to what the
adapter can tell: a request is absent, pending or decided. A reply carries any code that
was ever sent to the phone, or a wrong one. Its constants `Recipients` and
`Allowed` are what `LookupRecipients` and `IsAllowedCountry` of `AdapterConfig`
give; its tailer hands over whole lines, in order, which `CanonTail` qualifies.

**PendingSet.** The age of a slot is elapsed time, that of a slot rebuilt from the
audit log is wall-clock time; `SetBack` and `SetAhead` set the wall clock. `SetSpec` is the set driven by any calls, restarts and clocks;
`PendingSpec` is the same with a bound on the audit log, for TLC.

**AdapterConfig.** A policy is what an administrator means and a document a policy
together with the lines it was written down as. `Says(d, p)` defines, from the indentation
alone, that lines `d` in the two-space layout mean policy `p`, wherever the sections
stand and whatever else the file holds; it knows nothing of the reader. The
documents are a constant. `MCAdapterConfig` writes policies down in block and in
flow style, and its assumption `BlockSays` has TLC check that the former say what
they were written from. `Header`, `Scalar`, `InSets`, `InApprovers`, `InRouting` and
`Elsewhere` are the branches of `parseApprovers` for one line.

`accepted`, `launches` and a line's `checked`, in `CanonTail` `handed` and `cut`, and in
`Adapter` `sms`, `approvals`, `failed`, `stolen` and `job.since` are history. Definitions named as mutants in
their comments (`RecordEager`, `OverdueLate`, ...) are plausible bugs; each property
has one that violates it.

## Runs

Passing:

| Run | Instance | Shows |
|---|---|---|
| `MCBroker_one` | 1 request, clock 0..2 with TTL 1, 2 interrupted appends, 2 crashes with power loss, oversize lines | `TypeOK`, `AtMostOnce`, `LaunchAuthorised`, `RefusesOnlyDamage`, `IInv` |
| `MCBroker_two` | 2 requests, 1 interrupted append, 2 crashes without loss, restart fairness | `MemoryIsCanon`, `NothingBuried`, `ExecutingHasHandler`, `EvidenceInv`, `ImplementsLifecycle`, `CutOffExecutionEnds` |
| `MCDaemons_daemons` | 2 daemons, 1 request, clock 0..1 with TTL 1, 1 interrupted append, 2 times a daemon is killed or stopped, 2 open connections | `SecondLaunchShows`, `ViewsAgree` |
| `MCCanonTail_tail` | 3 lines of 3 bytes and a newline, 1 write that stops short, 1 restart | `PassedMeansHanded`, `EveryLineReached` |
| `MCPendingSet_slots` | 2 requests, 2 phones, clock 0..3 with TTL 2, calls until there are 4 audit rows, 1 lost row, clock set back by 1 and ahead by 1 | `AuditTellsSlots`, `NotTakenOver` |
| `MCAdapter_replies` | 2 requests, an allowed phone and one that is not, 2 webhooks at once, sends that fail before or after Twilio took them, fairness of the tailer | `CodeApprovesOnce`, `EveryRequestHandled` |
| `MCAdapter_restart` | 2 requests for 1 phone, sends that fail before or after Twilio took them, clock 0..1 with TTL 1, 1 restart | `TypeOK`, `TextIsAnswerable` |
| `MCAdapterConfig_config` | policies in block style in several orders of their sections, flags and env files in order and not | `RecipientsRight`, `StartsIfConfigured` |

What the newer ones say. Two daemons can launch a command twice, each from its
own memory; `SecondLaunchShows` says that the second launch leaves a log whose
chain is broken, which no start accepts. `ViewsAgree` says that as long as the chain
holds, one daemon may lag behind the other but does not contradict it.
`PassedMeansHanded` says that a scan that meets half a line loses at most that
line, and hands over no request twice; `EveryLineReached` that damaged lines stop
nobody. `RecipientsRight` compares the reader and the lookup with the meaning of the
policy; `StartsIfConfigured` says that the adapter runs only if the credentials
stand in the end, and that no document with a policy in it keeps it from starting.
`LaunchAuthorised` says that a launch rests on durable lines: a creation, an approval
by another whose handler had found the clock before the deadline, and the start.
`TextIsAnswerable` says that the request of a text keeps the phone's slot for the
slot's lifetime, with requests that share the phone; it names what may take the
slot away before: a failed send, a broker that answers with an error, the
`Release` of a handler of another request (`stolen`, the defect of
`MCAdapter_overlap`), and a restart with audit rows missing or the wall clock set. In
`MCAdapter_restart` all but the last happen, a stolen slot too: the handler of a
request outlives its slot. Lost rows and clocks that are set are left to
`MCPendingSet_slots` and to the theorems.

Runs that end in a violation, because a document and the code disagree:

| Run | The document says | The code does |
|---|---|---|
| `MCBroker_powerloss` | a denied request stays denied (STATE_MACHINE.md) | an unsynced denial is adopted and served, then lost by a power failure |
| `MCAdapterConfig_flow` | `phones: ["+1..."]`, and "A submitted request triggers an SMS" (twilio-setup.md) | a list on the key's line is skipped without a word; nobody is texted |
| `MCAdapter_overlap` | at most one pending Verify per phone (twilio-setup.md) | `Release` frees the slot of whoever holds it |
| `MCAdapter_binding` | a reply resolves to a single request (README.md) | after a denial by SMS the code is alive and approves the next holder of the slot |

ADR-0004 describes more than the code has (HEAD file, locks, capture modes); only
statements that concern behaviour the code does have are compared. Observations
that follow from the models and have no run of their own:

* ADR-0004 T6 has a partial last line truncated; `ReplayLine` rejects it and start-up
  fails.
* ADR-0004 T30 has stored output cut at 64 KB; all of it is stored, and a line over
  2 MiB cannot be replayed (`big` lines in `MCBroker_one`).
* ADR-0004 has the broker refuse new requests once log writes fail; the code
  reports the error of one append and tries the next (`Record` remembers nothing of
  an interrupted append).
* PROTOCOL.md says the daemon "must never launch a second execve", and ADR-0004 T13
  names a lock file against a second daemon; the code has no lock, and in
  `MCDaemons_daemons` states with two launches are reached.
* A daemon that is stopped late unlinks the sockets of its successor, which runs on
  and cannot be reached (`Stop`).
* A comment in `pending_set.go` says replay gives the map from before the restart.
  Rows are sorted by wall clock, which may have been set back: `AuditTellsSlots`
  excepts that case.
* ADR-0005 T27 says a rate-limited send is not retried; a restarted adapter reads
  the canon from the start and sends again. It meets decided requests first, which
  can hold a phone's slot when a pending one comes.
* A broker that answers with an error or a rejection is no error to `Call`: the slot
  is released, the request is undecided and the text can no longer be answered.
* The timestamp of an approval can be at or past the request's `expires_at`: `Append`
  reads the clock again after the deadline check.
* A slot rebuilt from the audit log ages by the wall clock: a clock set ahead ends it
  early (`NotTakenOver` excepts that case).
* A `request_created` line met half written is never handed over (`cut`).

Why the bounds are enough. Two crashes let recovery itself be interrupted. Two
interrupted appends give a torn tail with a second failure on top, one before a
crash and one after it. Two requests give two recoveries and the interleaving of
handlers; requests share nothing but the log. A buried line needs the second
request too: for a single one the projection rejects what follows it. TTL 1 with
clock 0..2 puts the clock before, at and after the deadline. Three requests are
what the overlap of slots needs: one decided, one pending, one that takes its
place. Two daemons and one request already give the double launch, from either
daemon and with a handler of a dying daemon cut off; with two connections a client
of the first daemon can come back after one of the second. Commands succeed
there, so that a result and a recovery that marks the request failed are different
outcomes. Three
lines give one before, one after and one glued to a torn one; with three bytes a
line can be met empty, begun, and whole without its newline.

Deadlock is not checked: clients may stop calling, the bounds on crashes, appends
and lines end every behaviour, and the start-up of `AdapterConfig` ends.

Fairness. `Broker!FairSpec` assumes weak fairness of start-up only: the unit file
restarts a daemon that failed (`Restart=on-failure`), and start-up is a loop over a
finite file. A daemon that was told to stop is not restarted by the unit:
`CutOffExecutionEnds` assumes that an operator starts it again, and says nothing of a
machine where nobody does. `Recover` is fair with outcome `nil`: the
number of interrupted appends is bounded, and with a disk that keeps failing the
daemon would never come up. Nothing is assumed of clients or of how long a
command runs. `Adapter!FairSpec` assumes that the tailer goroutine runs: it polls
every 200 ms and a send ends after 15 s. `CanonTail!FairSpec` assumes the same of
`ScanLine`, and nothing of the daemon that writes.

## Proofs

The theorems hold for every value of the constants under the named assumptions of
the modules: `ConstantsAssumption`, `DaemonsAssumption`, `TailAssumption`, `PendingAssumption`,
`AdapterAssumption`, `ConfigAssumption`. They
say that bounds are numbers, that special values are not requests or slots,
that the set of phones is finite, that documents, flags and env files are finite
lists of lines or tokens. Bounds are parameters, so a theorem covers any
number of crashes, interrupted appends, lost rows, webhooks and lines.

**One launch, and the life cycle (`BrokerProofs`).**

* `TypeCorrect`, `LaunchLeavesTraces` and `LaunchedAtMostOnce` come from the inductive
  invariant `IInv`. `AtMostOnce` is not inductive: a restart rebuilds the projection
  from the file, so the file must remember the launch. `LaunchInv` says that a
  launch leaves two traces, a durable `execution_started` line (or a line garbled
  under an fsync, which no start-up gets past) and a served status past approved.
  `ReplayInv` says that the projection being rebuilt is at or past the status of
  every line read so far. At `Adopt` the whole file has been read, so the first
  trace gives back the second, and `ExecuteBegin` is disabled. `TailInv` keeps a
  glued write from touching a line that was synced. Power loss is included.
* `ServedIsWritten` and `BrokerRefinesLifecycle` (`Spec => Lifecycle!Spec`) hold under
  `~PowerLoss`. They need `EvidenceInv`: the file holds a line for every status
  served, so a replay ends at or past it. With power loss this fails for a line
  that was adopted unsynced; `MCBroker_powerloss` shows the consequence.

`AppendFacts`, `CrashFacts` and `RecordFacts` state what an append, a crash and a
handler may do to the file, and the step lemmas use only these.

**What the log vouches for (`LogProofs`, `ReplayProofs`).** All of
these include power loss.

* `EveryLaunchAuthorised`. `AuthInv` says that, unless a synced line was garbled,
  every approval in the file stands after a creation and was recorded by a handler
  that found the clock before the deadline, for somebody who may approve, that what memory shows of a request is shown by lines
  of the file, and that what a launch rests on is synced. Memory alone would not
  do, since a crash forgets it, nor the file alone, since a handler decides from
  memory.
* `NoOrphanedExecution`. Together with `IInv` the property is inductive: `Serve` waits
  until recovery has left no request executing, and from then on a request
  becomes executing and its handler starts in one append that succeeds.
* `ErrorsStayBuried`. `ChainInv` says that a line is chained only to an id that
  `Append` or a replay has accepted; so a line that was never accepted has no
  successor the chain check lets through.
* `OnlyDamageRefused`. `CleanInv` says of an undisturbed file that it is chained from
  end to end, that every line is legal after the lines before it, and that it is
  synced, so that power loss takes nothing from it.
* `MemoryMatchesLog`. `CanonInv` says that a new line's id is fresh, that `Rebuild` of
  the accepted lines is the served projection, and that `Rebuild` of the lines
  read so far is the one a replay is building. `Adopt` accepts every line of the
  file, so there the third part gives the second. The lemmas on `Rebuild` and
  `Vouched` say what one more line, accepted or not, does to them.

**Two daemons (`DaemonsProofs`, under `~PowerLoss`).** `DoubleLaunchShows` and
`DaemonsAgree` come from `DInv`. While the file is chained, each daemon's
projection shows the first `n` lines of it, and all of them if its `lastHash` is that
of the last line; one `execution_started` line stands for at most one launch. A
daemon that is behind and appends chains to another line than the last, which
breaks the chain for good. The daemons are alike, so the step lemmas are stated once over a record
of one daemon's memory (`Mem1`, `Mem2`).

**Tailer (`CanonTailProofs`).** `LinesHandedOnce` uses `FileInv` (the bytes of a
line lie next to each other, from its first byte on, and no byte twice) and
`TailerInv` (what was seen was handed over once; a line that is whole, or can still
become whole, and begins before the offset was seen or cut, and ends before the
offset).

**Adapter (`PendingSetProofs`, `AdapterProofs`).**

* `AuditRebuildsSlots`. `AuditTellsSlots` is about a replay that sorts. `PendingInv` adds
  that, while the wall clock was not set back, the file is in time order already, and
  that an age is the same on both clocks while it was not set ahead either.
  A stable sort of such a file moves no row (the rank of a row is the number of
  rows before it, and ranks are a bijection), so the replay plays the rows in
  file order, and every call appends exactly the rows that play its effect.
* `SlotNotTakenOver` follows step by step: a call takes only a slot that is free or
  past its lifetime, and a restart gives back, by the previous theorem, the holder.
* `CodeSpentOnce`. `JobInv` says where the tailer's send job is, and `TokenInv` that a
  code that approved is in no live session and no code is with two handlers: it is
  in a session, with one handler or spent. `AdapterTypeCorrect` rests on the same
  two.

* `AdapterUsesSet` (`Spec => SetSpec`): every step of the adapter is a call of the set, a
  restart, a clock step or nothing to it, given the types. `RestartRebuildsSlots` and
  `SlotKeptInAdapter` carry the two theorems above over to the whole adapter.
* `TextsAreAnswerable` has no condition on the constants. `AnswerInv` says that the texts,
  the job, the slots and the handlers are about known requests, that the slot of a
  send in flight is its request's or free, and that every text, and the one being sent, is
  settled (decided, or excepted by an error or a stolen slot), past its slot's
  lifetime, or has its request in the slot, with a slot no older than the text's.
  Without the part about the slot's age a call could find the slot expired before
  the text is. `FreeSlot` either frees the slot of its own request, which is settled,
  or puts the other one into `stolen`. The parts about slots are claimed only while no
  restart has met lost rows or a clock that was set. `PendingInv` is needed for
  `Start`: the slot that replay gives back has the same holder and the same age.

**Configuration (`ConfigProofs`).** `RecipientsAreRight` and `StartsOnlyConfigured` hold if
every document says its policy (`Says`). `ConfigInv` relates the reader to the lines
read so far. `Reader` says where it is: `section` is the part whose heading is still open,
`current` the key of its open entry, `inPhones` whether a `phones` line is open;
these are facts about indentation, and the layout makes the open line unique.
`Maps` says what it has: each of the three maps has a key for every entry read
and, under it, exactly the values of the lines below that entry. At the end of the file
this is `Says`, read from the other side. What the loops of `LookupRecipients` and
`parseEnvFile` compute is a lemma each: the phones of the members, each once; the last
line that assigns a key. The condition cannot be dropped: `MCAdapterConfig_flow` has
documents in another style.

Induction over sequences (a replay of `n` rows, a rebuild of `n` lines, a loop over
`n` members) is done by the least counterexample: `UpTo` in `ReplayProofs`, `PendingSetProofs`
and `ConfigProofs` is derived from the well-foundedness of the naturals.

Model-checked only: liveness, which is out of the proof system's reach
(`CutOffExecutionEnds`, `EveryRequestHandled`, `EveryLineReached`).

## Not modelled

* Data that is carried and never read: argv, environment, digest, summary,
  reasons, exit codes, captured output (except that it may be too long).
* Collisions of random ids and hashes.
* A command that outlives its daemon: its result is lost, as in the code. There
  is no execution timeout in the code.
* `request_revoked`: the projection accepts it and nothing emits it.
* The wire protocol's record formats, the flags and the output of the clients,
  the daemon's parsing of id lists. `Broker` alone has the reviews that pass the
  lanes and the allow list; these are in `Daemons`.
* Quotes, comments and blank lines of the configuration files. A file that is not read
  to its end is one that cannot be opened: the adapter does not start.
* The HMAC of webhooks, the installer, dry-run, development-only poll mode.
* Twilio beyond one session per phone; its attempt limits are the session's end.

## Plan

`Adapter` over `RequestLifecycle` instead of its own broker statuses.
