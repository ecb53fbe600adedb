--------------------------- MODULE OpsCoordinator ---------------------------
(***************************************************************************)
(* The daemon side of a provider write: crates/server/src/polling/ops.rs.  *)
(*                                                                         *)
(* One workspace with one primary task.  Every request runs in a task of   *)
(* its own (`detach_mutation'), here a driver: it commits the request and  *)
(* then works off the reducer's effects one at a time, reading the store   *)
(* without the workspace lock, waiting for credentials, for the provider   *)
(* and for backoffs, while other drivers and the poll loop do the same.    *)
(* The ledger and the row are durable; drivers, replies and poll results   *)
(* die with the process; a write already handed to the network does not.   *)
(*                                                                         *)
(* A value is a set of members (logins, label names).  How a provider      *)
(* carries out a write depends on the field: it sets the value ("absolute":*)
(* Linear's assignee, a closed state), adds members ("union": GitHub's     *)
(* requestReviews), or sends the difference from the row it was given      *)
(* ("diff": GitHub's assignees and labels).                                *)
(***************************************************************************)
EXTENDS ProviderOps, Sequences

CONSTANTS
    Primary,       \* primary_task() of the workspace
    Members,       \* what a value is a set of
    WriteKind,     \* [Fields -> {"absolute", "union", "diff"}]
    Drivers,       \* slots for concurrently running requests, without Boot
    Boot,          \* the startup driver, `recover'
    None,          \* no value
    EarlyClients,  \* may a client command run before `recover' has?
    MaxOps,        \* bound: operations accepted
    MaxGen,        \* bound: times one field is requested or cancelled
    MaxTime,       \* bound: the clock
    MaxCrashes,    \* bounds: how often each thing goes wrong
    MaxStoreFaults, MaxRefusals, MaxTimeouts, MaxEdits,
    MaxCancels,    \* bounds: commands that withdraw, and that add, something
    MaxAdds

OpIds == 0 .. MaxOps - 1

\* What a read of the provider brings back: the values, their revision stamp,
\* and (history) the operations executed by then.
Snapshots == [value : Entity, revision : 0 .. MaxTime, saw : SUBSET OpIds]

ASSUME CoordinatorConstants ==
    /\ Tasks = {Primary}
    /\ Values = SUBSET Members
    /\ WriteKind \in [Fields -> {"absolute", "union", "diff"}]
    /\ Boot \notin Drivers /\ None \notin Drivers \cup {Boot} \cup Snapshots
    /\ EarlyClients \in BOOLEAN
    /\ \A n \in {MaxOps, MaxGen, MaxTime, MaxCrashes, MaxStoreFaults,
                 MaxRefusals, MaxTimeouts, MaxEdits, MaxCancels, MaxAdds} :
            n \in Nat

VARIABLES
    ledger, row,   \* durable: the workspace record in the store
    driver,        \* [Drivers \cup {Boot} -> what each task is doing]
    wire,          \* writes handed to the network and not yet answered
    remote,        \* the provider's entity: its values, revision stamp, and
                   \* (history) the operations whose write it has executed
    poll,          \* the poll loop's fetched and not yet ingested reply
    booted,        \* has the startup recovery been driven to its end?
    now, stamped,  \* the clock, and whether its instant is used up
    observed,      \* history: the last observation ingested
    sent, refused, \* history: dispatches, and definite refusals, per operation
    acked,         \* history: operations a caller was told "Acked" of
    left           \* what is left of the bounds on what may go wrong

durable == <<ledger, row>>
history == <<observed, sent, refused, acked>>
vars == <<ledger, row, driver, wire, remote, poll, booted, now, stamped,
          observed, sent, refused, acked, left>>

Slots == Drivers \cup {Boot}

Snapshot == [value |-> remote.value, revision |-> remote.revision,
             saw |-> remote.executed]

\* A task: where it is, the effects it still has to run, and what it carries
\* across its waits: the operation and row `send' loaded, the entity
\* `reconcile' fetched, the value an additive command merged.
Idle == [pc |-> "idle", queue |-> << >>, id |-> 0, op |-> None,
         existing |-> None, fetched |-> None, merged |-> None]

Init ==
    /\ ledger = EmptyLedger
    /\ row \in Entity
    /\ driver = [d \in Slots |-> Idle]
    /\ wire = {}
    /\ remote = [value |-> row, revision |-> 0, executed |-> {}]
    /\ poll = None
    /\ booted = TRUE
    /\ now = 0 /\ stamped = TRUE
    /\ observed = Snapshot
    /\ sent = [i \in OpIds |-> 0] /\ refused = [i \in OpIds |-> 0]
    /\ acked = {}
    /\ left = [crash |-> MaxCrashes, store |-> MaxStoreFaults,
               refusal |-> MaxRefusals, timeout |-> MaxTimeouts,
               edit |-> MaxEdits, cancel |-> MaxCancels, add |-> MaxAdds]

-----------------------------------------------------------------------------
\* Two things that happen happen at two instants: a step that stamps uses its
\* instant up.  (At the end of time this cannot be kept up any more.)
Stamp ==
    /\ ~stamped \/ now = MaxTime
    /\ stamped' = TRUE
    /\ UNCHANGED now

Tick ==
    /\ now < MaxTime
    /\ now' = now + 1
    /\ stamped' = FALSE
    /\ UNCHANGED <<durable, driver, wire, remote, poll, booted, history, left>>

NoStamp == UNCHANGED <<now, stamped>>

\* A step that goes wrong in some ways uses up that much of the bounds.
Charge(ways) ==
    /\ \A w \in ways : left[w] > 0
    /\ left' = [w \in DOMAIN left |-> IF w \in ways THEN left[w] - 1 ELSE left[w]]

\* The queue takes the effects in the order of the operations in the ledger.
InOrder(effects) ==
    {s \in UNION {[1 .. n -> effects] : n \in 0 .. MaxOps} :
        /\ \A e \in effects : \E k \in DOMAIN s : s[k] = e
        /\ \A j, k \in DOMAIN s : j < k => s[j].id < s[k].id}

\* `apply_and_commit': the new record becomes durable, or the store refuses it
\* and nothing changes.
Commits_LedgerOnly(outcome, ways) ==
    ledger' = outcome.ledger /\ UNCHANGED row /\ Charge(ways)
Commits(outcome, ways) ==
    /\ ledger' = outcome.ledger
    /\ row' = outcome.entity
    /\ Charge(ways)

CommitFails(ways) == UNCHANGED durable /\ Charge(ways \cup {"store"})

\* The driver goes on with its loop, with more effects at the end of its queue.
Continue(d, effects) ==
    \E s \in InOrder(effects) :
        driver' = [driver EXCEPT
            ![d] = [Idle EXCEPT !.pc = "run", !.queue = driver[d].queue \o s]]

\* `transition': the effects of what could not be persisted are dropped.
Transition(d, outcome, ways) ==
    \/ Commits(outcome, ways) /\ Continue(d, outcome.effects)
    \/ CommitFails(ways) /\ Continue(d, {})

-----------------------------------------------------------------------------
\* Clients are served, and the bounds leave room for one more request.
Accepting(f) ==
    /\ booted \/ EarlyClients
    /\ ledger.next_id < MaxOps /\ ledger.generations[f] < MaxGen
    /\ now + SettleDeadline < MaxTime

\* `request': Set..., Close...: a command that names the whole value.
Request(d, f, v) ==
    /\ driver[d].pc = "idle" /\ Accepting(f)
    /\ Transition(d, on_requested(ledger, Primary, f, v, now, row), {})
    /\ Stamp
    /\ UNCHANGED <<wire, remote, poll, booted, history>>

\* Add..., RequestReviewers: a command that names members to add reads the
\* row first (`union_with_current'), and requests the union afterwards.
AddRead(d, f, picked) ==
    /\ driver[d].pc = "idle" /\ Accepting(f) /\ picked # {}
    /\ Charge({"add"})
    /\ driver' = [driver EXCEPT
            ![d] = [@ EXCEPT !.pc = "merged",
                             !.merged = [field |-> f, value |-> row[f] \cup picked]]]
    /\ NoStamp
    /\ UNCHANGED <<durable, wire, remote, poll, booted, history>>

AddRequest(d) ==
    LET f == driver[d].merged.field
    IN  /\ driver[d].pc = "merged" /\ Accepting(f)
        /\ Transition(d, on_requested(ledger, Primary, f, driver[d].merged.value,
                                      now, row), {})
        /\ Stamp
        /\ UNCHANGED <<wire, remote, poll, booted, history>>

\* `cancel'
Cancel(d, fields) ==
    /\ driver[d].pc = "idle"
    /\ booted \/ EarlyClients
    /\ fields # {} /\ \A f \in fields : ledger.generations[f] < MaxGen
    /\ Transition(d, on_cancelled(ledger, Primary, fields, now, row), {"cancel"})
    /\ NoStamp
    /\ UNCHANGED <<wire, remote, poll, booted, history>>

\* `drive': the loop ends when the queue is empty.
Finish(d) ==
    /\ driver[d].pc = "run" /\ driver[d].queue = << >>
    /\ driver' = [driver EXCEPT ![d] = Idle]
    /\ booted' = (booted \/ d = Boot)
    /\ NoStamp
    /\ UNCHANGED <<durable, wire, remote, poll, history, left>>

NextEffect(d, kinds) ==
    /\ driver[d].pc = "run" /\ driver[d].queue # << >>
    /\ Head(driver[d].queue).kind \in kinds

\* The loop takes an effect off the queue and has nothing more to do for it.
Skip(d) ==
    driver' = [driver EXCEPT ![d].queue = Tail(@)]

Report(d) ==
    /\ NextEffect(d, {"Report"})
    /\ Skip(d)
    /\ NoStamp
    /\ UNCHANGED <<durable, wire, remote, poll, booted, history, left>>

\* `send', up to its first wait: a Retry has slept until its instant; the
\* operation and the workspace are read from the store, and credentials asked
\* for.
SendLoad(d) ==
    LET effect == Head(driver[d].queue)
    IN  /\ NextEffect(d, {"Send", "Retry"})
        /\ effect.kind = "Retry" => (effect.at <= now \/ now = MaxTime)
        /\ IF effect.id \notin DOMAIN ledger.pending THEN Skip(d)
           ELSE driver' = [driver EXCEPT
                    ![d] = [@ EXCEPT !.pc = "build",
                                     !.queue = Tail(driver[d].queue),
                                     !.id = effect.id,
                                     !.op = ledger.pending[effect.id],
                                     !.existing = row]]
        /\ NoStamp
        /\ UNCHANGED <<durable, wire, remote, poll, booted, history, left>>

\* build_provider_for_workspace fails: no credentials.
SendUnbuilt(d) ==
    /\ driver[d].pc = "build"
    /\ Transition(d, on_failed(ledger, Primary, driver[d].id, "Rejected", now, row),
                  {"refusal"})
    /\ NoStamp
    /\ UNCHANGED <<wire, remote, poll, booted, history>>

\* What the provider is asked to do: the members to add and to remove.
Write(d) ==
    LET f       == driver[d].op.field
        desired == driver[d].op.desired
        had     == driver[d].existing[f]
    IN  [driver |-> d, id |-> driver[d].id, field |-> f, landed |-> FALSE,
         add |-> IF WriteKind[f] = "diff" THEN desired \ had ELSE desired,
         del |-> CASE WriteKind[f] = "absolute" -> Members \ desired
                   [] WriteKind[f] = "union"    -> {}
                   [] WriteKind[f] = "diff"     -> had \ desired]

\* A difference that is empty is not sent at all: the provider crate answers
\* Ok by itself.
NothingToSend_RowAgrees(d) ==
    driver[d].op.desired = driver[d].existing[driver[d].op.field]
NothingToSend(d) ==
    WriteKind[driver[d].op.field] = "diff" /\ Write(d).add = {} /\ Write(d).del = {}

\* `send', up to the network: Sent is persisted (and whether that worked is
\* not looked at), then the write is handed over.
SendDispatch(d) ==
    /\ driver[d].pc = "build"
    /\ \/ Commits(on_sent(ledger, Primary, driver[d].id, row), {})
       \/ CommitFails({})
    /\ driver' = [driver EXCEPT ![d].pc = "wire"]
    /\ IF NothingToSend(d)
       THEN wire' = wire \cup {[Write(d) EXCEPT !.landed = TRUE]} /\ UNCHANGED sent
       ELSE /\ wire' = wire \cup {Write(d)}
            /\ sent' = [sent EXCEPT ![driver[d].id] = @ + 1]
    /\ NoStamp
    /\ UNCHANGED <<remote, poll, booted, observed, refused, acked>>

\* The provider executes a write.  One nobody waits for any more may also be
\* lost on the way.
Land(w) ==
    LET value == (remote.value[w.field] \cup w.add) \ w.del
    IN  /\ ~w.landed
        /\ IF value = remote.value[w.field]
           THEN /\ remote' = [remote EXCEPT !.executed = @ \cup {w.id}]
                /\ NoStamp
           ELSE /\ remote' = [value    |-> [remote.value EXCEPT ![w.field] = value],
                              revision |-> now,
                              executed |-> remote.executed \cup {w.id}]
                /\ Stamp
        /\ wire' = (wire \ {w}) \cup (IF w.driver = None THEN {}
                                       ELSE {[w EXCEPT !.landed = TRUE]})
        /\ UNCHANGED <<durable, driver, poll, booted, history, left>>

Lose(w) ==
    /\ w.driver = None
    /\ wire' = wire \ {w}
    /\ NoStamp
    /\ UNCHANGED <<durable, driver, remote, poll, booted, history, left>>

-----------------------------------------------------------------------------
\* `send', after the network: the verdict goes back into the reducer.
Awaits(d, w) == driver[d].pc = "wire" /\ w.driver = d

SendAcked(d, w) ==
    /\ Awaits(d, w) /\ w.landed
    /\ Transition(d, on_acked(ledger, Primary, driver[d].id, now, row), {})
    /\ Stamp
    /\ wire' = wire \ {w}
    /\ acked' = acked \cup {driver[d].id}
    /\ UNCHANGED <<remote, poll, booted, observed, sent, refused>>

\* The provider says no, for good ("Rejected") or for now ("Transient").
SendRefused(d, w, class) ==
    /\ Awaits(d, w) /\ ~w.landed
    /\ Transition(d, on_failed(ledger, Primary, driver[d].id, class, now, row),
                  {"refusal"})
    /\ wire' = wire \ {w}
    /\ refused' = [refused EXCEPT ![driver[d].id] = @ + 1]
    /\ NoStamp
    /\ UNCHANGED <<remote, poll, booted, observed, sent, acked>>

\* The overall deadline of a mutation passes.  The write may have landed, or
\* still land; mutation_provider_error calls that retryable, so `classify'
\* calls it Transient.
SendTimeout(d, w) ==
    /\ Awaits(d, w) /\ ~NothingToSend(d)
    /\ Transition(d, on_failed(ledger, Primary, driver[d].id, "Transient", now, row),
                  {"timeout"})
    /\ wire' = (wire \ {w}) \cup (IF w.landed THEN {}
                                   ELSE {[w EXCEPT !.driver = None]})
    /\ NoStamp
    /\ UNCHANGED <<remote, poll, booted, history>>

-----------------------------------------------------------------------------
\* An observation reaches the workspace: `attach_task_at' under its lock.
Ingest_OnlyNewer(snapshot) ==
    IF snapshot.revision = observed.revision
    THEN UNCHANGED <<durable, observed, left>>
    ELSE LET outcome == reconcile_observation(ledger, Primary, snapshot.value,
                                              snapshot.revision, now)
         IN  Commits(outcome, {}) /\ observed' = snapshot
Ingest(snapshot) ==
    LET outcome == reconcile_observation(ledger, Primary, snapshot.value,
                                         snapshot.revision, now)
    IN  \/ Commits(outcome, {}) /\ observed' = snapshot
        \/ CommitFails({}) /\ UNCHANGED observed

\* `reconcile': re-read the entity, then ingest what came back.
ReconcileLoad(d) ==
    /\ NextEffect(d, {"Reconcile"})
    /\ IF Head(driver[d].queue).id \notin DOMAIN ledger.pending THEN Skip(d)
       ELSE driver' = [driver EXCEPT
                ![d] = [@ EXCEPT !.pc = "fetch", !.queue = Tail(driver[d].queue)]]
    /\ NoStamp
    /\ UNCHANGED <<durable, wire, remote, poll, booted, history, left>>

ReconcileFetch(d) ==
    /\ driver[d].pc = "fetch"
    /\ driver' = [driver EXCEPT ![d] = [@ EXCEPT !.pc = "ingest",
                                                 !.fetched = Snapshot]]
    /\ NoStamp
    /\ UNCHANGED <<durable, wire, remote, poll, booted, history, left>>

\* The re-read fails or finds nothing: the operation stays pending.
ReconcileFails(d) ==
    /\ driver[d].pc = "fetch"
    /\ Charge({"refusal"})
    /\ Continue(d, {})
    /\ NoStamp
    /\ UNCHANGED <<durable, wire, remote, poll, booted, history>>

ReconcileIngest(d) ==
    /\ driver[d].pc = "ingest"
    /\ Ingest(driver[d].fetched)
    /\ Continue(d, {})
    /\ NoStamp
    /\ UNCHANGED <<wire, remote, poll, booted, sent, refused, acked>>

\* The poll loop, which starts once recovery is through.
PollFetch ==
    /\ booted /\ poll = None
    /\ poll' = Snapshot
    /\ NoStamp
    /\ UNCHANGED <<durable, driver, wire, remote, booted, history, left>>

PollIngest ==
    /\ poll # None
    /\ Ingest(poll)
    /\ poll' = None
    /\ NoStamp
    /\ UNCHANGED <<driver, wire, remote, booted, sent, refused, acked>>

-----------------------------------------------------------------------------
\* Somebody else edits the entity: a field of it, or just its revision.
Edit(f, v) ==
    /\ Charge({"edit"})
    /\ remote' = [remote EXCEPT !.value[f] = v, !.revision = now]
    /\ Stamp
    /\ UNCHANGED <<durable, driver, wire, poll, booted, history>>

\* The daemon dies.  What it had handed to the network is beyond it.
Crash ==
    /\ Charge({"crash"})
    /\ driver' = [d \in Slots |->
                    IF d = Boot THEN [Idle EXCEPT !.pc = "boot"] ELSE Idle]
    /\ wire' = {[w EXCEPT !.driver = None] : w \in {x \in wire : ~x.landed}}
    /\ poll' = None
    /\ booted' = FALSE
    /\ NoStamp
    /\ UNCHANGED <<durable, remote, history>>

\* It comes back: `recover', before the first poll.  Its effects are driven
\* whether or not its commit worked.
Recover ==
    /\ driver[Boot].pc = "boot"
    /\ LET recovered == recover(ledger, now)
       IN  /\ \/ Commits([ledger |-> recovered.ledger, entity |-> row], {})
              \/ CommitFails({})
           /\ Continue(Boot, recovered.effects)
    /\ NoStamp
    /\ UNCHANGED <<wire, remote, poll, booted, history>>

-----------------------------------------------------------------------------
\* One step of a task that is running: what the scheduler owes it.
Drive(d) ==
    \/ Finish(d)
    \/ Report(d)
    \/ SendLoad(d)
    \/ SendDispatch(d)
    \/ ReconcileLoad(d)
    \/ ReconcileFetch(d)
    \/ ReconcileIngest(d)

Verdict(d) ==
    \E w \in wire :
        \/ SendAcked(d, w)
        \/ \E class \in {"Rejected", "Transient"} : SendRefused(d, w, class)
        \/ SendTimeout(d, w)

Next ==
    \/ \E d \in Drivers, f \in Fields, v \in Values : Request(d, f, v)
    \/ \E d \in Drivers, f \in Fields, v \in Values : AddRead(d, f, v)
    \/ \E d \in Drivers : AddRequest(d)
    \/ \E d \in Drivers, fields \in SUBSET Fields : Cancel(d, fields)
    \/ \E d \in Slots : Drive(d) \/ SendUnbuilt(d) \/ Verdict(d) \/ ReconcileFails(d)
    \/ \E w \in wire : Land(w) \/ Lose(w)
    \/ PollFetch
    \/ PollIngest
    \/ \E f \in Fields, v \in Values : Edit(f, v)
    \/ Crash
    \/ Recover
    \/ Tick

\* Tasks run, the provider answers what it was asked, polls repeat and time
\* passes.  Nothing that goes wrong has to.
Fairness ==
    /\ \A d \in Slots : WF_vars(Drive(d)) /\ WF_vars(Verdict(d))
    /\ WF_vars(\E w \in wire : Land(w))
    /\ WF_vars(PollFetch) /\ WF_vars(PollIngest)
    /\ WF_vars(Recover)
    /\ WF_vars(Tick)

Spec == Init /\ [][Next]_vars /\ Fairness

-----------------------------------------------------------------------------
(***************************************************************************)
(* Properties.                                                             *)
(***************************************************************************)
Effects == [kind : {"Send", "Retry", "Reconcile", "Report"}, id : Nat, at : Nat]

Doing ==
    [pc : {"idle", "merged", "run", "build", "wire", "fetch", "ingest", "boot"},
     queue : Seq(Effects), id : Nat, op : PendingMutation \cup {None},
     existing : Entity \cup {None}, fetched : Snapshots \cup {None},
     merged : [field : Fields, value : Values] \cup {None}]

Writes ==
    [driver : Slots \cup {None}, id : Nat, field : Fields, landed : BOOLEAN,
     add : SUBSET Members, del : SUBSET Members]

\* Every variable has its type.
TypeOK ==
    /\ IsLedger(ledger) /\ row \in Entity
    /\ driver \in [Slots -> Doing]
    /\ wire \subseteq Writes
    /\ remote \in [value : Entity, revision : 0 .. MaxTime, executed : SUBSET OpIds]
    /\ observed \in Snapshots /\ poll \in Snapshots \cup {None}
    /\ booted \in BOOLEAN /\ stamped \in BOOLEAN /\ now \in 0 .. MaxTime
    /\ sent \in [OpIds -> Nat] /\ refused \in [OpIds -> Nat] /\ acked \subseteq OpIds
    /\ left \in [{"crash", "store", "refusal", "timeout", "edit", "cancel", "add"} -> Nat]

\* The coordinator only ever does to the ledger and the row what the reducer
\* allows: it implements ProviderLedger.
Ledger == INSTANCE ProviderLedger WITH
    row <- [t \in Tasks |-> row],
    observed <- [t \in Tasks |-> [value |-> observed.value,
                                  revision |-> observed.revision]]

ImplementsLedger == Ledger!Spec

\* "... reconciled by a targeted re-fetch and never replayed blind": an
\* operation is handed to the provider again only after the provider refused
\* it, never while an earlier hand-over may have gone through.
NeverReplayedBlind ==
    \A i \in OpIds : sent[i] <= refused[i] + 1

\* A caller that is told its write was acknowledged has had it executed.
AckedWasExecuted ==
    acked \subseteq remote.executed

\* "The observation provably postdates the write, so it has seen it": an
\* acknowledged operation that an observation ends before the settle deadline
\* had been executed when that observation was made.
AckedSettledWasSeen ==
    [][\A i \in DOMAIN ledger.pending :
          ( /\ observed' # observed
            /\ i \notin DOMAIN ledger'.pending
            /\ ledger.pending[i].phase = "Acked"
            /\ now < ledger.pending[i].issued_at + SettleDeadline )
          => i \in observed'.saw]_vars

\* Every claim ends: a request neither paints the row for ever nor stays in
\* the ledger for ever, whatever crashes, store faults, refusals or timeouts.
LedgerDrains == <>[](DOMAIN ledger.pending = {})

\* ... and once it has, the row is the provider's truth.
RowConverges == <>[](row = remote.value)
=============================================================================
