# Verification of lazybox: TLA+ models, model checking and proofs

lazybox is a terminal workspace for coding agents. A daemon (`crates/server`)
owns every piece of durable state, talks to the providers (GitHub, Linear, Jira,
Slack), runs agents in pseudo-terminals and sandboxes, and serves any number of
clients over a socket; a relay (`crates/relay`) lets clients reach a daemon
behind NAT. This directory holds TLA+ models of the parts whose correctness
depends on the order in which concurrent things happen, the TLC runs that check
them on small instances, and TLAPS proofs of their invariants for any size.

`PROJECT.json` lists components, runs, mutants, findings, hazards and theorems,
and maps every definition to the source lines it stands for.

## 1. Inventory

| component | state | operations | talks to | what is hard | what makes it correct |
|---|---|---|---|---|---|
| provider-operations ledger (`core/src/provider_ops.rs`) | pending writes, a generation counter per field, the row they paint | Requested, Sent, Acked, Failed, Cancelled, observation, recovery | called by the coordinator and by every ingest of a polled entity | late and duplicate verdicts, stale reads, rollback under a newer write | the row shows the newest intent or the provider's truth, nothing else |
| provider-operations coordinator (`server/src/polling/ops.rs`, `mutate.rs`) | the durable workspace record; per request a task with a queue of effects | request, cancel, drive, send, reconcile, recover | store, provider, poll loop, clients | a crash between persist, send and answer; timeouts; stale copies across awaits | no write is lost, replayed blind, or acknowledged without having happened; every claim ends |
| additive handlers (`polling/handlers.rs`) | none | union with the row, then request | coordinator | read and request are two steps | adds compose |
| relay (`relay/src/server.rs`, `client.rs`) | `boxes`, `pending`, one bounded channel per control connection | register, look up, announce, deliver, splice, time out | boxes, clients, entitlement gate | half-open peers, reconnection races, timeouts against late answers | neither map leaks, each stream has its client, a live box is found, every client ends |
| event forwarding and terminal resync (`server/src/event_forward.rs`, `pty.rs`, `lib.rs` `serve`, `tui/.../terminal_stack.rs`) | replay ring, pump position, bus, ingress, per client: lossless queue, resync queue and debts, coverage; in the client the pane's sequence and request latch | produce, publish, lag, recover, route, replay, receive, ask again | pump, bus, connection, client | five bounded lossy hops, replays from four makers in any order | a pane is never torn, never frozen, and catches up |
| working claims (`server/src/working_claims.rs`, `gh-provider/src/client.rs`) | a durable record per holder; upstream one shared label and a lease comment | acquire, heartbeat, release, maintenance pass, sweep | GitHub, other boxes | crash or timeout between remote and local step, several boxes on one label | no live claim is forgotten, no dead one stays |
| archive, tombstones and removal (`server/src/workspace/mod.rs` 1578-2140, 4650-5300) | archive records with absorbed keys, session tombstones, `deleted_workspaces`, row locks | remove with rollback, archive, unarchive | store, spawns, polls, recovery | multi-key read-modify-write, a failure after each step, spawns and polls that bring the row back | nothing removed comes back, nothing refused stays marked, nothing is stranded |
| auto-merge (`server/src/polling/auto_merge.rs`) | a latch per workspace, in memory | commit, plan, fetch, verify, merge, settle | polls, GitHub, epics | what was green is stale when used; a dozen ways for an attempt to end | only a verified head is merged; a ready pull request is not forgotten |
| agent state (`agents/src/state_machine.rs`, `server/src/spawn_handler.rs`, `registries.rs`) | displayed state in cache, on disk and on the bus; boot latch, streak, turn and timers | hook, reading, quiet timer, watchdog, sweep, answer, exit, kill, recovery | PTY pump, hooks, clients, store | six writers in any order, persist before commit | exit is final, a question is shown and kept, a rest is noticed |
| spawning and sessions (`server/src/spawn_handler.rs`, `spawn_executor.rs`) | terminals, backend sessions, persisted owners | spawn, register, tear down, recover | OS, tmux, removal | removal against a spawn that is provisioning | no terminal without a row |
| poll scheduler (`polling/scheduler.rs`) | staleness cursor, engagement sets | plan, record, prune | poll loop | budget with priorities | every repository gets its turn |
| rate budget (`gh-provider/src/rate_budget.rs`) | tokens, tick allowance, pauses | reserve, observe headers, pause | every GitHub call | shared between tasks | the budget is not overspent |
| work store, agent runs | records and receipts | batched updates | store | atomic batches | receipts match what was delivered |
| store | SQLite | single writes, batches | everything | failure of a write | used through its contract |
| clients beyond the pane, emulator bindings, E2E channel, identity, auth, config | — | — | — | — | presentation, third-party code, cryptography, parsing |

The hazards, each at its line, are in `PROJECT.json`, with the properties that
would catch them.

## 2. Plan

1. **Provider operations** (done): `ProviderOps`, `ProviderLedger` with proofs,
   `OpsCoordinator` refining it.
2. **Relay** (done): `Relay` with proofs.
3. **Terminal stream** (done): `TerminalStream` composed with `TerminalClient`.
4. **Working claims**, **removal**, **auto-merge**, **agent state** (done):
   `WorkingClaims`, `WorkspaceRemoval`, `AutoMerge`, `AgentLifecycle`.
5. **Proofs** (done): the ledger, the relay, auto-merge, removal, agent state, the
   stream, the coordinator with its refinement of the ledger, the claims: every
   safety property the passing runs check. Liveness stays with TLC.
6. **Left to model**: the scheduler's rotation, the rate budget, GitHub's native
   auto-merge, two clocks with bounded skew and writes of two calls in the
   coordinator.

## 3. Modules

| module | models |
|---|---|
| `ProviderOps` | the pure reducer: every handler as an operator from ledger and entity to ledger, entity and effects, the trailing overlay included |
| `ProviderLedger` | the ledger as an open state machine: any event at any time, verdicts for operations long gone included. The abstract specification of the coordinator |
| `ProviderLedgerProofs` | its invariants, proved |
| `OpsCoordinator` | tasks, store, network, provider, poll loop, crash and recovery; `ImplementsLedger` is the refinement |
| `OpsCoordinatorProofs` | the refinement and its safety, proved |
| `Relay`, `RelayProofs` | the relay's tasks and maps, and the proofs |
| `TerminalClient` | the slot of a pane: what it has applied, whether it is coherent, its request latch; pure operators |
| `TerminalStream` | one terminal's output from the reader to that slot, every queue on the way, lag recovery and requested replays |
| `TerminalStreamProofs` | whole grids, answered latches, seamless replays and current quiet panes, proved |
| `WorkingClaims`, `WorkingClaimsProofs` | records of several boxes, the shared label and comments upstream, passes and sweeps; and the proofs |
| `WorkspaceRemoval`, `WorkspaceRemovalProofs` | removals, archive records and tombstones against spawns, the poll's upsert, the user's merges, unarchive and recovery; and the proofs |
| `AutoMerge`, `AutoMergeProofs` | the pull request on GitHub, the stored one, the latch and the attempts; and the proofs |
| `AgentLifecycle`, `AgentLifecycleProofs` | the state machine, the turn's bookkeeping and timers, and every task that feeds them; and the proofs |
| `MC...` | instances for TLC |

**State.** An operation is a record of `PendingMutation`; the ledger keeps them
by identity, which is the order of the code's vector. Every request the daemon
makes claims one field, so an operation has one. A value is opaque in the ledger
and a set of members in the coordinator, where it matters how a provider carries
a write out: as the value, as a union, or as a difference from the row it was
given. `row` is the part of the workspace row the ledger owns. In the
coordinator `driver[d]` is a task: its place (`run`, `build`, `wire`, `fetch`,
`ingest`), its queue of effects, and what it carries across its awaits.
`observed`, `sent`, `refused`, `acked` and `remote.executed` are history
variables.

**Steps.** The code may be interrupted where it awaits or where it leaves the
workspace lock, so `send` is `SendLoad` (read without lock), then `SendUnbuilt`
or `SendDispatch` (credentials have come; Sent is persisted; the write is handed
over), then one of `SendAcked`, `SendRefused`, `SendTimeout`. `reconcile` is
`ReconcileLoad`, `ReconcileFetch` or `ReconcileFails`, `ReconcileIngest`. What
`apply_and_commit` does is one step, since it holds the lock; its failure leaves
the record alone and drops the effects. A crash discards drivers and fetched
replies and keeps the record and what is on the network. In the relay each
`lock().await`, channel operation, gate lookup and timeout is a step; writing an
ack and inserting into `pending` are one, since nothing else is touched between
them.

In `TerminalStream` a chunk is its sequence number and an emulator is the
sequence of what it was fed, so a torn or doubled stream is visible (`pane.grid`
against `pane.last`). The forwarder's loop is biased, hence `Routes`. `excuse` is a
history variable that records five races (section 4). In `WorkingClaims` every
provider call is a step of `task[h]` or `pass[b]`; `CallFails` is one without
effect, and `Answered` may give up (`timed`) on one that took effect. Lifetimes are
kept relative to the clock, whose unit is the heartbeat period. In
`WorkspaceRemoval` a removal is at `rem[r].pc` between its store writes; each of them may fail, and `Abandons` and
`Undoes` are the code's ways out. `deleted` is the in-memory mark that cancels
spawns. The poll folds the rows of the issues a pull request closes into its own
(`Folds`), except those with a terminal, which only the user merges
(`UserMerges`, which re-badges the terminals); a session nobody is attached to
keeps the folded row as its owner (`LeftBehind`). Which of the foldable rows the
user has chosen to keep apart is left open, so a poll folds any part of them, and a
removal that fails to stop its terminals may have stopped some. In `AutoMerge` `ready` stands for all that `auto_merge_block_reason` reads;
what GitHub would answer to a merge is a variable of its own. In `AgentLifecycle`
a transition is `Begins` (fold under the order lock), `Persist`, `Commit`; `txn` is
the task that holds the lock. The process ends by itself, once the pump has read it
to the end (`AgentDies`), or it is killed (`Kill`): the killer claims the teardown
whatever the pump, the queue and the hooks are in the middle of, and the pump reads
what is left (`PumpStops`). `agent` is what the agent really does, which no
code can see, and what the properties compare the display with.

**External parts**, modelled from how the code uses them: the provider (`Land`,
`Edit`), the network (`Lose`, `Drop`), the clock (`Tick`, `Stamp`), process
death (`Crash`), the broadcast channel (`Overwrite`), GitHub and its users
(`Push`, `ChecksReport`, `QueueDecides`, `StripsLabel`, ...), the agent process
(`AgentWorks`, `AgentAsks`, `AgentRests`, `Repaints`).

**X_Y.** A definition `X_Y` in front of `X` is `X` with a plausible mistake. No
specification uses it. Section 5 says which property tells it from `X`.

## 4. Runs

All passing runs are exhaustive on their instance. State counts are distinct
states. `TypeOK` is in the runs of the ledger and the relay; those of the other
modules hold on the same instances and are the first conjunct of the invariants
proved about them.

| run | instance | shows |
|---|---|---|
| `ledger` | 2 entities, 1 field, 2 values, 2 operations, time 0..2; 593k | the row, the claims and the baselines agree in every order of events; a read older than an acknowledgement undoes nothing |
| `ops_safety` | 2 concurrent requests, a crash, a refusal, a cancellation and an outside edit anywhere; 518k | nothing is replayed blind, no acknowledgement is made up or settled by a read that did not see it, the coordinator refines the ledger |
| `ops_drain` | 1 request and one of each fault; 455k | every claim ends, and the row becomes the provider's truth |
| `relay` | 2 connections of one box, 2 clients, 1 slot; 61k | the maps and streams of the relay; every client is spliced or let go, even by a box that never reads again |
| `stream` | 3 chunks, a bus, a channel and a lossless queue of 1, an ingress of 2 with a reserve of 1, one chunk lost, one fault, two lags; 296k | no torn or doubled screen, no orphaned request, seamless replays, a current pane in the end |
| `claims` | 2 boxes with an agent each, leases of 2 periods, one of them faulty; 1.8M | no lease or label is forgotten by every box, and the label ends up true |
| `removal` | a pull request and the issue it closes, 2 removals, a spawn for the issue, a poll, a merge by the user, an unarchive, one fault or restart; 4.6M | no terminal without a row, no mark or archive record left on a row that stands |
| `auto_merge` | 2 heads, 5 outside moves, a fault, a pause, 2 attempts at a time; 794k | only a green head lands, the latch is never wedged, a rejected head is left alone, a ready pull request gets a verdict |
| `agent_state` | 1 hook at a time, a streak of 2, 1 chunk on the wire, 1 submitted input, one upset (a fault, a restart, a redraw or a kill); 1.6M | disk, cache and clients agree, exit is final, a dialog is kept and shown, a rest is noticed |

**Bounds.** Two operations are enough for a supersession, a stale verdict and a
rollback under a newer write; two entities for claims that cross them; time runs
far enough for a claim to reach its settle deadline and for a backoff to expire.
In the relay one slot with two clients lets one announcement be queued while the
other client is blocked; two connections are a task and the one that supersedes
it. (The proofs cover any numbers.) In the stream three chunks are one that was
shown, one that is lost and one that follows; with capacities of one every queue
overflows, and two lags put one inside the debounce window of the other. Two
boxes suffice for a label to be taken from under an agent. Two removals of two
related keys meet each other, the upsert and the unarchive in every phase. Two
heads and two attempts are a push between fetch and merge, and an attempt that
overlaps a later one. `MaxOps`, `MaxGen`, `MaxTime`, `MaxSeq`, `MaxComments`,
`MaxHead`, `MaxWire` bound counters; every other `Max...` bounds how often one
kind of thing goes wrong or is done from outside. Drivers in `ops_safety` and
removals in `removal` are interchangeable, hence their symmetry sets; runs that
check liveness use none. `removal` cuts off states in which every key is excused:
`excused` never shrinks, and of an excused key the properties say nothing. Its view
(`MCView`) identifies states that differ in a spent spawn, or in tombstones that no
recovery can come to read. Its
spawn is for the issue, the row that both removals and folds can take away.

`relay`, `stream` and `agent_state` do not check for deadlock: there the system
really may stop (all connections have ended; the client is disconnected; the
process is gone). Nor do the two violation runs `archive_stranded` and
`merge_stuck`, which are after one behaviour. All other runs do.

**Violations.** Each checks a sentence of the repository and finds it false. The
sentence is quoted in the finding.

| run | setting | what happens |
|---|---|---|
| `ops_diff` | field written as a difference | the row already shows the wish, the difference is empty, nothing is sent, the caller hears Acked |
| `archive_stranded` | two archiving removals of one row, no faults | the second, queued on the row's lock, finds no row, folds nothing in and overwrites the owner's record; unarchiving the owner leaves the issue's tombstone behind for good |
| `merge_stuck` | one attempt at a time, one rate-limit pause, no faults | a re-probe falls into the pause and restores "blocked"; later commits change nothing, so none re-probes |

`DeferredIsRetried` speaks of an attempt that a pause put off and of nothing else: a
pull request GitHub refused and would accept after a change of its rules is left
alone by design (auto_merge.rs 74-79, 251-254). Two controls show that the pause is
the cause: with `MaxPauses = 0` the property holds on the run's instance, and it
holds, with four moves, a fault and two pauses, when an attempt that is put off
releases the latch instead of restoring it.

**What the passing runs leave out.** Where the code does not do what one would
like, the property says so or the instance does. Each of the following was seen
as a counterexample while its property was being stated.

*Provider operations.* `ops_safety` has no store fault, timeout or early client.
`NeverReplayedBlind` fails with `EarlyClients = TRUE` (recovery, `polling/mod.rs`
3120, re-issues an operation that a command served since startup is sending),
with `MaxStoreFaults = 1` (`send` ignores that Sent could not be persisted, ops.rs
294, so a restart sends it again), and with `MaxTimeouts = 1` (a mutation past its
deadline counts as transient and is replayed while the first may still land).
An operation superseded while `send` waits for credentials is sent all the same
(ops.rs 297). Two additive commands that both read the row first do not compose
(handlers.rs 1809). Generations are per field of the workspace, so a request for
its pull request takes the field away from a write to its issue (provider_ops.rs
670). `settled_by` ends an operation that is not acknowledged yet on any revision
at or after its request; `AckedSettledWasSeen` is therefore about acknowledged
ones.

*Relay.* `LatestIsFound` speaks of the last registration, not of the last
connection: the task of an abandoned connection may register after that of its
successor (server.rs 165), and then evicts itself.

*Stream.* `QuietPaneIsCurrent` excuses five races, recorded in `excuse`:
`silent`, a chunk lost while the pump has already announced that it cannot repair
the gap; `skipped`, a lag inside the debounce window, which spawns no recovery
(lib.rs 1661-1676, whose comment says "never skip recovery"), or a recovery that
could not read the store; `overtaken`, a replay built by a detached task and sent
after the pump has handled newer output; `regressed`, a recovery snapshot that
arrives after a newer replay and takes the pane back while the forwarder's floor
stays; `forgotten`, a recovery snapshot without a replay that lowers what a
quarantined pane has asked for (terminal_stack.rs 5465-5473 takes the larger of the
pane's and the snapshot's sequence, where `append_output` and `mark_visible_desynced`
keep the larger request), so that an older replay still on its way is adopted. The
last takes three faults and two requests, more than the run allows: it was found
while looking for the invariant of the proof. In each the pane is coherent but old until the terminal's next output.
`GridIsWhole`, `LatchHasAnswer` and the first half of `Converges` have no excuse.

*Claims.* Two boxes that both search before either has posted leave two comments
(client.rs 6228-6275), after which each box renews its own and the label may flap
for ever; `LabelSettles` is about histories without that (`Duplicated`). With a
second comment, even one posted because the first was deleted, a release that
remembers the older one finds it gone, does not look for its lease in the newer
one and forgets the record: the lease then ends by running out. `ClaimHasRecord`
is about histories with one comment (`OneComment`). (With two faults TLC finds this
if the property only excludes two comments that stand at once.) A label
whose comment was deleted is left alone by the sweep. A label detached by another
box's release is missing until the next heartbeat, hence liveness and not safety.

*Removal.* `excused` collects keys that a failed rollback, an unreadable archived
set, a restart between the archive record and the row's deletion, or a task
routed to another key's row (whose own key the upsert does not check again)
exposed. The archive of one pull request and the unarchive of another that close
the same issue may cross; a record lost there only makes its key absent from the
archive, which `StandingRowIsNotArchived` does not forbid. A failing second removal
rolls back the records of the first. A failed kill of an orphaned session still
forgets who owned it.

*Auto-merge.* Disarming and arming again while an attempt runs starts a second
one; the first then settles the latch of the second (`overlap`). An attempt does
not look at the arm again after its fetch. A merge that was queued counts as done
and is not tried again when the queue ejects it. Only the head rejected last is
remembered, and heads only move forward: a force-push back to a head that was
rejected before another one is not explored.

*Agent state.* A dialog painted and read between the user's input and
`note_user_answered` is discarded with the one that was answered, and the turn
may settle as Done (`left.sound`; the comment at spawn_handler.rs 7838-7850
describes the intended case). A store write that fails on Exited keeps the exit
from being broadcast until the terminal is removed. A terminal shown as Done is
not looked at again by the watchdog: a dialog that is drawn without any byte
reaching the pump stays unseen. `RestIsSettled` is about a daemon whose watchdog is
not configured off. The user submits only while no chunk is on the wire and no hook
is in flight (`UserSubmits`): typing ahead of the screen and an answer that crosses a
hook are not explored.

**Fairness.** `OpsCoordinator`: a task that can run runs (`Drive`), the provider
or the deadline answers every request (`Verdict`, `Land`: a mutation has an
overall timeout), polls repeat, recovery runs at startup, the clock advances.
Faults, edits, requests and re-read failures need never happen. `Relay`: only the
client's own task is fair; each of its waits is bounded by the code (the gate's
lookup has a timeout, `broker_timeout` bounds the announcement and the wait).
Nothing is assumed of boxes. `TerminalStream` and `WorkingClaims`: some step of
the code is taken while one can be (`WF_vars(Progress)`), with no claim as to
which; the terminal need not produce, agents need not start or end. The clock of
`WorkingClaims` waits for passes and polls, since calls are bounded by 20 seconds
and polls are a minute apart where the period is 15 minutes. `AutoMerge`: the poll
ticks, a dispatched attempt runs, a pause ends. `AgentLifecycle`: each task, the
windows and the timers run; the quiet timer is strongly fair, because the
watchdog's window is the longer one and cannot keep a silent terminal's quiet
timer from ever firing. Agents, users and faults owe nothing.

## 5. Mutants

| property | definition replaced by |
|---|---|
| TypeOK (ledger) | `backoff_Backwards`: a retry in the past |
| ClaimsOrdered | `bump_Nothing`: a request takes no new generation |
| RowShowsOwner | `Outcome_Unpainted`: no trailing overlay |
| BaselineIsObserved | `Baseline_OffTheRow`: the baseline is read off our own paint |
| RowIsAccountedFor | `restore_Nothing`: a dropped operation is not rolled back |
| AttemptsBounded | `MayRetry_OneMore`: off by one |
| StaleReadKeepsAckedWrite, AckedSettledWasSeen | `settles_from_Request`: the acknowledgement is not waited for |
| NeverReplayedBlind | `InDoubt_UnlessSent`: recovery re-issues what was sent |
| AckedWasExecuted | `NothingToSend_RowAgrees`: skip the write when the row agrees |
| ImplementsLedger | `Commits_LedgerOnly`: the ledger is moved without the row |
| LedgerDrains | `settled_by_NoDeadline` |
| RowConverges | `Ingest_OnlyNewer`: a read with a known revision is skipped |
| TypeOK (relay) | `Full_Late`: room for one more |
| ParkedHasClient | `Unparked_Never`: giving up leaves the entry |
| EntryIsServed, LatestIsFound | `Evicted_None`, `Evicted_Any`: the eviction without its comparison |
| WaitingIsServed | `Parked_Late`: not parked before the announcement |
| StreamHasClient | `Expired_First`: the timer before the receiver |
| AnnouncedOnce | `Rest_Kept`: an announcement taken stays queued |
| ClientSettles | `Unreachable_Patient`: no timeout on the announcement |
| GridIsWhole | `AppendOutput_Torn`: whatever is newer is fed, holes included |
| LatchHasAnswer | `AppendOutput_Mute`: the latch is set without a request |
| ReplaysAreSeamless | `Scheduled_Lossy`: a dropped chunk leaves no debt |
| QuietPaneIsCurrent | `Announces_Never`: a replay that could not be had is not announced |
| Converges | `TickRetry_Idle`: no retry |
| ClaimHasRecord | `CallFails_Forgets`: a failed release forgets the record |
| LabelSettles | `Lapsed_Released`: a lease that ran out does not count as lapsed |
| NoTerminalWithoutRow | `Tombstones_Archiving`: a session tombstone only with an archive |
| MarkIsReleased | `Abandons_Marked`: a refusal leaves the mark |
| StandingRowIsNotArchived | `Rechecks_Not`: no second check under the lock |
| LandsWhatWasGreen | `Pinned_Not`: the merge names no head |
| InFlightHasAttempt | `FetchFails_Silent`: a failed fetch leaves the latch |
| RejectedStandsDown | `Ticket_Forgets`: the rejected head is not carried over |
| ReadyIsSettled | `Ticket_Changed`: only a changed row dispatches |
| DiskIsShown | `PersistsFirst_Not`: committed before it is on disk |
| ExitIsFinal | `FoldsReading_Late`: the reading of a killed terminal's pump is folded as if it were live |
| DialogIsKept | `suppress_input_needed_exit_Not` |
| RestIsSettled | `Progresses_Any`: a spinner counts as progress |
| AskIsShown | `hooks_gate_allows_causal_Blind`: a hook hides a dialog |


## 6. Proofs

`ProviderLedgerProofs` proves, for every set of entities, fields and values,
every attempt budget, deadline, backoff and bound, that `TypeOK` and the five
invariants hold in every reachable state, and the action property
`StaleReadKeepsAckedWrite`. Assumed is `ReducerConstants` (the budget is a
positive number, deadline and backoff are numbers) and `LedgerBounds`.

The inductive invariant is `IInv`: `TypeOK` with all of `LedgerInv`. None of the
five is inductive alone. That the row shows *the* owner needs that a field has one
(`ClaimsOrdered`); that nothing invented stays on the row when an operation is
dropped needs that its fallback is what the provider said (`BaselineIsObserved`);
that in turn needs the baseline a request inherits to be that of an operation in
the ledger, i.e. that a non-empty set of identities has a least and a greatest
element, proved from the well-foundedness of < on the naturals. The lemmas
follow the code: `OverlaySound` (the trailing overlay establishes the row's
invariants), `PruneSound`, `AppendSound`, `RelabelSound` (removing, appending,
re-phasing operations), one lemma per event on top of them, and `StepSound`.

`RelayProofs` proves the seven invariants of `Relay` for any number of boxes,
connections and clients and any capacity, from `RelayAssumption`. Their
conjunction is inductive; its header says which conjunct leans on which.

Each of the other proof modules states an inductive invariant that TLC checked on
the module's runs before it was proved, shows that `Init` and every action keep it,
and derives the properties from it. All of them are for any sets of actors and any
values of the bounds, faults included, from the `ASSUME` of the component's module.

`OpsCoordinatorProofs` (`CoordInv`). `RefinesLedger` shows that every step maps to a
step of `ProviderLedger` or leaves ledger and row alone; `LP!IInv`, the ledger's
invariant under the mapping, comes with it, and supplies what the coordinator's own
conjuncts need of the ledger. On top: a driver has what it uses and names an
operation that was accepted (`Carried`); a read in flight is of the past and, if it
is as new as an acknowledgement, saw the write (`ReadsArePast`, `NewReadsSaw`); what
anyone calls done is done (`DoneIsDone`); an operation that may still be handed over
is in the hands of one driver and was refused as often as it was sent (`OneHolds`,
`MayBeSent`). Two hypotheses on the constants are part of the statements, because
the code's guarantees end there. `AckedMeansExecuted` and `SettledWasSeen` have
`WholeWrites`: no field is written as a difference; the run `ops_diff` shows the
first false otherwise (an empty difference is acknowledged and never executed, so
no read can have seen it). `NotReplayedBlind` has `Orderly`: no store fault, no mutation past
its deadline, no client served before recovery is through; each of the three
breaks it (section 4). The run `ops_safety` is in the scope of both; crashes,
refusals, cancellations, edits and polls are unrestricted.

`AutoMergeProofs` (`MergeInv`). What lands was green because what an attempt is about
to merge was green when it was fetched, and the merge names that head. A latch in
flight has an attempt because no attempt carries a latch in flight to restore. A
rejected head is left alone because somebody remembers it: the latch, or the one
attempt that runs.

`WorkspaceRemovalProofs` (`RemovalInv`). The argument is who holds a row's lock: a
removal from its first kill to its sweep, a spawn from launch to registration, the
poll from its check to its commit. A removal that has emptied a row finds no new
terminal there; one that drops it has left a tombstone that recovery sees; what the
poll has checked is not archived before it commits.

`AgentLifecycleProofs` (`LifecycleInv`). A task that waits for its write holds the
order lock, so nothing moves the state between fold and commit (`HolderWaits`,
`WriteOrder`); only the exit folds to Exited and nothing folds after it,
although hooks and, after a kill, the pump go on (`ExitIsLast`); the pump's reading is of the buffer as it still is, and no reading
of a dialog takes InputNeeded back (`ReadingIsOfBuffer`, `DialogIsHeld`). `ExitIsFinal`
and `DialogIsKept` are action properties.

`TerminalStreamProofs` (`StreamInv`). The latch follows its request through every
hop to the event that releases it or re-arms it; replays are seamless because each
chunk on its way joins what is ahead of it in the grid, the channel, the
forwarder's queue and debt, the ingress and the bus (`StaysJoined`).
`QuietPaneIsCurrent` speaks of empty queues only; what the steps keep is
`NothingIsLost`. Unless one of the five races has happened, the last event upstream
of the forwarder or, with none there, what it has let pass or owes, speaks for every
chunk the pump has handled, or a recovery from lag is coming (`Accounted`). What the
forwarder calls covered reaches the client as a replay, a chunk or a quarantine that
asks for it (`Lands`), and a loss it has announced as a quarantine (`KnowsLoss`):
both are said of the channel and the pending queue as a whole, by the last event in
them that sets the fact and those after it that could take it back.

`WorkingClaimsProofs` (`ClaimInv`). `ClaimHasRecord` alone is not kept by the step
that deletes a record. What is: a live lease upstream is of a holder that is not
past its comment in a release, and the label is backed by a holder that is not past
the label in one (`LeaseIsKnown`, `LabelIsBacked`); a release that gives way to
another lease leaves it that holder. Both need that the comments a holder remembers
were posted (`Posted`), so that with one comment the one read is the one there is.

Only model-checked: liveness (`LedgerDrains`, `RowConverges`, `ClientSettles`,
`Converges`, `LabelSettles`, `ReadyIsSettled`, `RestIsSettled`, `AskIsShown`), since
fairness and ENABLED are out of the prover's reach. On instances
larger than the runs' (one more fault, connection, operation, comment or slot; up
to 2.4 million states), TLC finds no counterexample to those of the coordinator, the relay,
auto-merge, the claims and the stream either; that of the agent's state was
searched in part (four million).

## 7. Not modelled, and why

- Wording, serialization, logging and UI notifications of the modelled parts.
- Operations that claim several fields: the reducer allows them, no caller makes
  one.
- An entity that has left its workspace while an operation targets it
  (`transition` then does nothing). `cancel` is modelled although only tests call
  it.
- Two clocks, and writes that are two calls: see the plan.
- In the terminal stream: several terminals (each has its own debts; they share
  only queue space), deltas, and authentication terminals.
- In the claims: labels of older builds, a change of the box's identity.
- In removal: worktrees and their inspection beyond "may refuse", dead panes,
  spawns with a directory of their own, the migration of older record formats.
- In auto-merge: GitHub's native auto-merge, the record of costs, and a fetched pull
  request without a head, which the code would merge unpinned (auto_merge.rs 760;
  GitHub's field is never null).
- In the agent state: the blocked states other than InputNeeded (limits, credit,
  Stalled), which the view suppression and the watchdog treat differently, with
  credit recovery and auto-wait; the forced reclaim of a terminal whose I/O lock is
  wedged (spawn_handler.rs 7331-7398); a panic of the pump; the matching of terminal
  text (`detect.rs`).
- The poll scheduler, the rate budget and the work store: plain data behind one
  task or one mutex, with no order of events to explore beyond their callers'.
- Providers beyond the calls named above, the terminal emulator, cryptography,
  configuration and process handling: I/O, third-party code, or text matching
  with no state to check.

Much of the repository's code is presentation, provider payloads, command-line
handling and text matching, in which there is no state machine to check; the
models cover the concurrent core of the daemon.
