------------------------ MODULE OpsCoordinatorProofs ------------------------
(***************************************************************************)
(* Proofs about the coordinator of provider writes, for any fields, values, *)
(* drivers and bounds.                                                     *)
(*   - It implements the ledger: every step is a step of ProviderLedger or *)
(*     leaves the ledger and the row alone, so what is proved of the ledger *)
(*     holds here.                                                         *)
(*   - An acknowledgement is never made up and is settled only by a read   *)
(*     that saw the write, where a write says all of what is asked for.    *)
(*   - Nothing is replayed blind while the store works, no deadline passes *)
(*     and clients wait for the recovery: an operation that may be handed  *)
(*     over is in the hands of one driver.                                 *)
(***************************************************************************)
EXTENDS OpsCoordinator, TLAPS

\* The ledger, with what is proved about it.
LP == INSTANCE ProviderLedgerProofs WITH
    row <- [t \in Tasks |-> row],
    observed <- [t \in Tasks |-> [value |-> observed.value,
                                  revision |-> observed.revision]]

\* What a driver carries is there when it is used, and names an operation that
\* was accepted; so does a write.
Carries(n, next) ==
    /\ n.pc \in {"build", "wire"} =>
          n.id < next /\ n.op \in PendingMutation /\ n.existing \in Entity
    /\ n.pc = "ingest" => n.fetched \in Snapshots
    /\ n.pc = "merged" => n.merged \in [field : Fields, value : Values]
    /\ \A k \in DOMAIN n.queue : n.queue[k].id < next

Carried ==
    /\ ledger.next_id <= MaxOps
    /\ \A d \in Slots : Carries(driver[d], ledger.next_id)
    /\ \A w \in wire : w.id < ledger.next_id

\* A write somebody waits for is the one its driver waits for.
OneWaits ==
    /\ \A w \in wire : w.driver \in Slots =>
          driver[w.driver].pc = "wire" /\ driver[w.driver].id = w.id
    /\ \A w, x \in wire : w.driver \in Slots /\ x.driver = w.driver => x = w

\* Every write says all of what is asked for, so that one always goes out.
WholeWrites == \A f \in Fields : WriteKind[f] # "diff"

\* What the caller, the ledger and the wire call done is done.
DoneIsDone ==
    /\ \A w \in wire : w.landed => w.id \in remote.executed
    /\ acked \subseteq remote.executed
    /\ \A i \in DOMAIN ledger.pending : ledger.pending[i].phase = "Acked" => i \in acked

\* The reads that have not been ingested, and what the next one would be.
Reads ==
    {Snapshot} \cup {poll} \cup {driver[d].fetched : d \in Slots}

\* Reads are of the past, and of an earlier instant than one not used up.
ReadsArePast ==
    \A s \in Reads \ {None} : s.revision <= now /\ (~stamped => s.revision < now)

\* A read as new as an acknowledgement saw the write.
NewReadsSaw ==
    \A i \in DOMAIN ledger.pending :
        /\ ledger.pending[i].issued_at + SettleDeadline < MaxTime
        /\ ledger.pending[i].phase = "Acked" =>
              /\ ledger.pending[i].at <= now
              /\ ledger.pending[i].at < MaxTime =>
                    \A s \in Reads \ {None} : s.revision >= ledger.pending[i].at => i \in s.saw

\* Nothing but refusals, crashes and edits goes wrong.
Orderly == MaxStoreFaults = 0 /\ MaxTimeouts = 0 /\ ~EarlyClients
WorksOn == left["store"] = 0 /\ left["timeout"] = 0

\* A driver that does n is going to hand operation i over; or has, and waits.
Sends(e, i) == e.kind \in {"Send", "Retry"} /\ e.id = i
Queues(n, i) == \E k \in DOMAIN n.queue : Sends(n.queue[k], i)
Plans(n, i) == Queues(n, i) \/ (n.pc = "build" /\ n.id = i)
Holds(n, i) == Plans(n, i) \/ (n.pc = "wire" /\ n.id = i)

\* ... once.
Once(n) ==
    /\ \A j, k \in DOMAIN n.queue : \A i \in OpIds :
          Sends(n.queue[j], i) /\ Sends(n.queue[k], i) => j = k
    /\ n.pc \in {"build", "wire"} => ~Queues(n, n.id)

\* Until recovery is through no client's driver runs, and before it nobody's.
BootsAlone ==
    /\ ~booted => \A d \in Drivers : driver[d] = Idle
    /\ driver[Boot].pc = "boot" => ~booted /\ driver[Boot].queue = << >>

\* One driver holds an operation, once.
OneHolds ==
    /\ \A d, e \in Slots, i \in OpIds : Holds(driver[d], i) /\ Holds(driver[e], i) => d = e
    /\ \A d \in Slots : Once(driver[d])

\* An operation that is going to be handed over, or would be after a crash, was
\* refused every time it was handed over before.
MayBeSent ==
    /\ \A d \in Slots, i \in OpIds : Plans(driver[d], i) => sent[i] <= refused[i]
    /\ \A i \in DOMAIN ledger.pending :
          ledger.pending[i].phase \in {"Accepted", "RetryScheduled"} => sent[i] <= refused[i]
    /\ \A i \in OpIds : i >= ledger.next_id => sent[i] = 0
    /\ NeverReplayedBlind

InHand == BootsAlone /\ OneHolds /\ MayBeSent

\* What holds whatever the fields and the bounds are.
Base == TypeOK /\ LP!IInv /\ Carried /\ OneWaits /\ ReadsArePast

CoordInv ==
    /\ Base
    /\ WholeWrites => DoneIsDone /\ NewReadsSaw
    /\ Orderly => WorksOn /\ InHand

-----------------------------------------------------------------------------
\* The reducer that the ledger's modules use is the one the coordinator uses.
LEMMA SameRequested ==
    ASSUME NEW l, NEW t, NEW f, NEW v, NEW n, NEW e
    PROVE  /\ LP!on_requested(l, t, f, v, n, e) = on_requested(l, t, f, v, n, e)
           /\ Ledger!on_requested(l, t, f, v, n, e) = on_requested(l, t, f, v, n, e)
BY DEF on_requested, Outcome, overlay, Owners, Newest, Claims, is_current, Baseline,
       Oldest, Effect, remove, bump, reached_provider,
       Ledger!on_requested, Ledger!Outcome, Ledger!overlay, Ledger!Owners,
       Ledger!Newest, Ledger!Claims, Ledger!is_current, Ledger!Baseline,
       Ledger!Oldest, Ledger!Effect, Ledger!remove, Ledger!bump,
       Ledger!reached_provider,
       LP!on_requested, LP!Outcome, LP!overlay, LP!Owners, LP!Newest, LP!Claims,
       LP!is_current, LP!Baseline, LP!Oldest, LP!Effect, LP!remove, LP!bump,
       LP!reached_provider

\* `sent' and `acked'.
LEMMA SameMarks ==
    ASSUME NEW l, NEW t, NEW id, NEW n, NEW e
    PROVE  /\ LP!on_sent(l, t, id, e) = on_sent(l, t, id, e)
           /\ Ledger!on_sent(l, t, id, e) = on_sent(l, t, id, e)
           /\ LP!on_acked(l, t, id, n, e) = on_acked(l, t, id, n, e)
           /\ Ledger!on_acked(l, t, id, n, e) = on_acked(l, t, id, n, e)
BY DEF on_sent, on_acked, Outcome, overlay, Owners, Newest, Claims, is_current, update,
       Ledger!on_sent, Ledger!on_acked, Ledger!Outcome, Ledger!overlay,
       Ledger!Owners, Ledger!Newest, Ledger!Claims, Ledger!is_current, Ledger!update,
       LP!on_sent, LP!on_acked, LP!Outcome, LP!overlay, LP!Owners, LP!Newest,
       LP!Claims, LP!is_current, LP!update

\* `failed'.
LEMMA SameFailed ==
    ASSUME NEW l, NEW t, NEW id, NEW class, NEW n, NEW e
    PROVE  /\ LP!on_failed(l, t, id, class, n, e) = on_failed(l, t, id, class, n, e)
           /\ Ledger!on_failed(l, t, id, class, n, e) = on_failed(l, t, id, class, n, e)
BY DEF on_failed, Outcome, overlay, Owners, Newest, Claims, is_current, update,
       remove, restore, MayRetry, backoff, Effect,
       Ledger!on_failed, Ledger!Outcome, Ledger!overlay, Ledger!Owners,
       Ledger!Newest, Ledger!Claims, Ledger!is_current, Ledger!update,
       Ledger!remove, Ledger!restore, Ledger!MayRetry, Ledger!backoff, Ledger!Effect,
       LP!on_failed, LP!Outcome, LP!overlay, LP!Owners, LP!Newest, LP!Claims,
       LP!is_current, LP!update, LP!remove, LP!restore, LP!MayRetry, LP!backoff,
       LP!Effect

\* `cancelled'.
LEMMA SameCancelled ==
    ASSUME NEW l, NEW t, NEW fields, NEW n, NEW e
    PROVE  /\ LP!on_cancelled(l, t, fields, n, e) = on_cancelled(l, t, fields, n, e)
           /\ Ledger!on_cancelled(l, t, fields, n, e) = on_cancelled(l, t, fields, n, e)
BY DEF on_cancelled, Outcome, overlay, Owners, Newest, Claims, is_current,
       remove, bump, reached_provider, Effect,
       Ledger!on_cancelled, Ledger!Outcome, Ledger!overlay, Ledger!Owners,
       Ledger!Newest, Ledger!Claims, Ledger!is_current, Ledger!remove, Ledger!bump,
       Ledger!reached_provider, Ledger!Effect,
       LP!on_cancelled, LP!Outcome, LP!overlay, LP!Owners, LP!Newest, LP!Claims,
       LP!is_current, LP!remove, LP!bump, LP!reached_provider, LP!Effect

\* An observation, and a restart.
LEMMA SameObservation ==
    ASSUME NEW l, NEW t, NEW o, NEW r, NEW n
    PROVE  /\ LP!reconcile_observation(l, t, o, r, n) = reconcile_observation(l, t, o, r, n)
           /\ Ledger!reconcile_observation(l, t, o, r, n) = reconcile_observation(l, t, o, r, n)
           /\ LP!recover(l, n) = recover(l, n)
           /\ Ledger!recover(l, n) = recover(l, n)
BY DEF reconcile_observation, recover, Outcome, overlay, Owners, Newest, Claims,
       is_current, settled_by, settles_from, remove, InDoubt, Effect,
       Ledger!reconcile_observation, Ledger!recover, Ledger!Outcome, Ledger!overlay,
       Ledger!Owners, Ledger!Newest, Ledger!Claims, Ledger!is_current,
       Ledger!settled_by, Ledger!settles_from, Ledger!remove, Ledger!InDoubt,
       Ledger!Effect,
       LP!reconcile_observation, LP!recover, LP!Outcome, LP!overlay, LP!Owners,
       LP!Newest, LP!Claims, LP!is_current, LP!settled_by, LP!settles_from,
       LP!remove, LP!InDoubt, LP!Effect

-----------------------------------------------------------------------------
\* What the coordinator stores of an outcome is what the ledger commits.
LEMMA CommitIsCommit ==
    ASSUME NEW o, ledger' = o.ledger, row' = o.entity, UNCHANGED <<observed, now>>
    PROVE  LP!Commit(Primary, o) /\ Ledger!Commit(Primary, o)
<1>1. [t \in Tasks |-> row]' = [[t \in Tasks |-> row] EXCEPT ![Primary] = o.entity]
    BY CoordinatorConstants
<1> QED BY <1>1 DEF LP!Commit, Ledger!Commit

\* The row of the only entity is the row.
LEMMA OneRow == [t \in Tasks |-> row][Primary] = row
BY CoordinatorConstants

\* A request that is stored is a step of the ledger.
LEMMA RequestSimulated ==
    ASSUME NEW f \in Fields, NEW v \in Values,
           ledger.next_id < MaxOps, ledger.generations[f] < MaxGen,
           ledger' = on_requested(ledger, Primary, f, v, now, row).ledger,
           row' = on_requested(ledger, Primary, f, v, now, row).entity,
           UNCHANGED <<observed, now>>
    PROVE  LP!Next /\ Ledger!Next
<1>1. PICK o : o = on_requested(ledger, Primary, f, v, now, row) OBVIOUS
<1>2. LP!Commit(Primary, o) /\ Ledger!Commit(Primary, o)
    BY <1>1, CommitIsCommit
<1>3. LP!Request(Primary, f, v) /\ Ledger!Request(Primary, f, v)
    BY <1>1, <1>2, SameRequested, OneRow DEF LP!Request, Ledger!Request
<1> QED BY <1>3, CoordinatorConstants DEF LP!Next, Ledger!Next

\* So are the marks and verdicts of an operation that was accepted ...
LEMMA VerdictSimulated ==
    ASSUME NEW id \in OpIds, id < ledger.next_id, IsLedger(ledger),
           NEW o,
           \/ o = on_sent(ledger, Primary, id, row)
           \/ o = on_acked(ledger, Primary, id, now, row)
           \/ \E class \in {"Rejected", "Transient"} :
                 o = on_failed(ledger, Primary, id, class, now, row),
           ledger' = o.ledger, row' = o.entity, UNCHANGED <<observed, now>>
    PROVE  LP!Next /\ Ledger!Next
<1>1. LP!Commit(Primary, o) /\ Ledger!Commit(Primary, o)
    BY CommitIsCommit
<1>2. id \in DOMAIN ledger.pending => ledger.pending[id].task = Primary
    BY CoordinatorConstants DEF IsLedger, PendingMutation
<1>3. LP!Verdict(id, Primary) /\ Ledger!Verdict(id, Primary)
    BY <1>2 DEF LP!Verdict, Ledger!Verdict
<1>4. id \in 0 .. MaxOps - 1 /\ Primary \in Tasks
    BY CoordinatorConstants DEF OpIds
<1>5. CASE o = on_sent(ledger, Primary, id, row)
    <2>1. LP!Sent(id, Primary) /\ Ledger!Sent(id, Primary)
        BY <1>1, <1>3, <1>5, SameMarks, OneRow DEF LP!Sent, Ledger!Sent
    <2> QED BY <1>4, <2>1 DEF LP!Next, Ledger!Next
<1>6. CASE o = on_acked(ledger, Primary, id, now, row)
    <2>1. LP!Acked(id, Primary) /\ Ledger!Acked(id, Primary)
        BY <1>1, <1>3, <1>6, SameMarks, OneRow DEF LP!Acked, Ledger!Acked
    <2> QED BY <1>4, <2>1 DEF LP!Next, Ledger!Next
<1>7. ASSUME NEW class \in {"Rejected", "Transient"},
             o = on_failed(ledger, Primary, id, class, now, row)
      PROVE  LP!Next /\ Ledger!Next
    <2>1. LP!Failed(id, Primary, class) /\ Ledger!Failed(id, Primary, class)
        BY <1>1, <1>3, <1>7, SameFailed, OneRow DEF LP!Failed, Ledger!Failed
    <2>2. class \in LP!FailureClass /\ class \in Ledger!FailureClass
        BY DEF LP!FailureClass, Ledger!FailureClass
    <2> QED BY <1>4, <2>1, <2>2 DEF LP!Next, Ledger!Next
<1> QED BY <1>5, <1>6, <1>7

\* ... a cancellation ...
LEMMA CancelSimulated ==
    ASSUME NEW fields \in SUBSET Fields, \A f \in fields : ledger.generations[f] < MaxGen,
           ledger' = on_cancelled(ledger, Primary, fields, now, row).ledger,
           row' = on_cancelled(ledger, Primary, fields, now, row).entity,
           UNCHANGED <<observed, now>>
    PROVE  LP!Next /\ Ledger!Next
<1>1. PICK o : o = on_cancelled(ledger, Primary, fields, now, row) OBVIOUS
<1>2. LP!Commit(Primary, o) /\ Ledger!Commit(Primary, o)
    BY <1>1, CommitIsCommit
<1>3. LP!Cancel(Primary, fields) /\ Ledger!Cancel(Primary, fields)
    BY <1>1, <1>2, SameCancelled, OneRow DEF LP!Cancel, Ledger!Cancel
<1> QED BY <1>3, CoordinatorConstants DEF LP!Next, Ledger!Next

\* ... an observation ...
LEMMA ObserveSimulated ==
    ASSUME NEW s \in Snapshots,
           ledger' = reconcile_observation(ledger, Primary, s.value, s.revision, now).ledger,
           row' = reconcile_observation(ledger, Primary, s.value, s.revision, now).entity,
           observed' = s, UNCHANGED now
    PROVE  LP!Next /\ Ledger!Next
<1>1. PICK o : o = reconcile_observation(ledger, Primary, s.value, s.revision, now) OBVIOUS
<1>2. [t \in Tasks |-> row]' = [[t \in Tasks |-> row] EXCEPT ![Primary] = o.entity]
    BY <1>1, CoordinatorConstants
<1>3. [t \in Tasks |-> [value |-> observed.value, revision |-> observed.revision]]'
        = [[t \in Tasks |-> [value |-> observed.value, revision |-> observed.revision]]
             EXCEPT ![Primary] = [value |-> s.value, revision |-> s.revision]]
    BY CoordinatorConstants
<1>a. /\ LP!reconcile_observation(ledger, Primary, s.value, s.revision, now) = o
      /\ Ledger!reconcile_observation(ledger, Primary, s.value, s.revision, now) = o
    BY <1>1, SameObservation
<1>4. LP!Observe(Primary, s.value, s.revision) /\ Ledger!Observe(Primary, s.value, s.revision)
    BY <1>1, <1>2, <1>3, <1>a DEF LP!Observe, Ledger!Observe
<1>5. s.value \in LP!Entity /\ s.value \in Ledger!Entity /\ s.revision \in 0 .. MaxTime
    BY DEF Snapshots, Entity, LP!Entity, Ledger!Entity
<1> QED BY <1>4, <1>5, CoordinatorConstants DEF LP!Next, Ledger!Next

\* ... a recovery, and the passing of time.
LEMMA RecoverSimulated ==
    ASSUME ledger' = recover(ledger, now).ledger, UNCHANGED <<row, observed, now>>
    PROVE  LP!Next /\ Ledger!Next
<1>1. LP!Recover /\ Ledger!Recover
    BY SameObservation DEF LP!Recover, Ledger!Recover
<1> QED BY <1>1 DEF LP!Next, Ledger!Next

\* Time passes for the ledger as it does here.
LEMMA TickSimulated ==
    ASSUME now < MaxTime, now' = now + 1, UNCHANGED <<ledger, row, observed>>
    PROVE  LP!Next /\ Ledger!Next
<1>1. LP!Tick /\ Ledger!Tick
    BY DEF LP!Tick, Ledger!Tick
<1> QED BY <1>1 DEF LP!Next, Ledger!Next

-----------------------------------------------------------------------------
\* A ledger with nothing new in it, and the operations outside `changed' in the
\* phase they were in.
Narrows(m, changed) ==
    /\ m.next_id = ledger.next_id
    /\ DOMAIN m.pending \subseteq DOMAIN ledger.pending
    /\ \A i \in DOMAIN m.pending :
          /\ m.pending[i].issued_at = ledger.pending[i].issued_at
          /\ i \notin changed => /\ m.pending[i].phase = ledger.pending[i].phase
                                 /\ m.pending[i].at = ledger.pending[i].at

\* The ledger with one operation more.
Grows(m) ==
    /\ m.next_id = ledger.next_id + 1
    /\ ledger.next_id \in DOMAIN m.pending
    /\ DOMAIN m.pending \subseteq DOMAIN ledger.pending \cup {ledger.next_id}
    /\ \A i \in DOMAIN m.pending : i # ledger.next_id => m.pending[i] = ledger.pending[i]
    /\ m.pending[ledger.next_id].phase = "Accepted"
    /\ m.pending[ledger.next_id].issued_at = now

\* What a request does: one operation more, to be sent.
LEMMA RequestedOutcome ==
    ASSUME IsLedger(ledger), NEW f \in Fields, NEW v
    PROVE  LET o == on_requested(ledger, Primary, f, v, now, row)
           IN  Grows(o.ledger) /\ o.effects = {Effect("Send", ledger.next_id, now)}
<1>1. PICK gone : gone = {i \in Claims(ledger, Primary, f) : ~reached_provider(ledger.pending[i])}
    OBVIOUS
<1>2. PICK kept : kept = remove(bump(ledger, {f}), gone) OBVIOUS
<1>3. /\ kept.next_id = ledger.next_id
      /\ kept.pending = [i \in (DOMAIN ledger.pending) \ gone |-> ledger.pending[i]]
      /\ kept = [next_id |-> kept.next_id, generations |-> kept.generations,
                 pending |-> kept.pending]
    <2>1. PICK b : b = bump(ledger, {f}) OBVIOUS
    <2>2. /\ b.next_id = ledger.next_id /\ b.pending = ledger.pending
          /\ b = [next_id |-> b.next_id, generations |-> b.generations,
                  pending |-> b.pending]
        BY <2>1 DEF bump, IsLedger
    <2> QED BY <1>2, <2>1, <2>2 DEF remove
<1>4. PICK op : op = [task |-> Primary, field |-> f, desired |-> v,
                      previous |-> Baseline(ledger, Primary, f, row),
                      claimed |-> kept.generations[f], issued_at |-> now,
                      phase |-> "Accepted", at |-> now, attempts |-> 0]
    OBVIOUS
<1>5. PICK m : m = [kept EXCEPT
                      !.next_id = ledger.next_id + 1,
                      !.pending = [i \in DOMAIN kept.pending \cup {ledger.next_id} |->
                                      IF i = ledger.next_id THEN op ELSE kept.pending[i]]]
    OBVIOUS
<1>6. Grows(m)
    <2>1. /\ m.next_id = ledger.next_id + 1
          /\ m.pending = [i \in DOMAIN kept.pending \cup {ledger.next_id} |->
                             IF i = ledger.next_id THEN op ELSE kept.pending[i]]
        BY <1>3, <1>5
    <2>2. op.phase = "Accepted" /\ op.issued_at = now BY <1>4
    <2> QED BY <1>3, <2>1, <2>2 DEF Grows
<1>7. on_requested(ledger, Primary, f, v, now, row)
        = Outcome(m, Primary, row, {Effect("Send", ledger.next_id, now)})
    BY <1>1, <1>2, <1>4, <1>5 DEF on_requested
<1> QED BY <1>6, <1>7 DEF Outcome

\* An operation is put in the place of one of the same request.
LEMMA UpdateNarrows ==
    ASSUME IsLedger(ledger), NEW id \in DOMAIN ledger.pending, NEW op,
           op.issued_at = ledger.pending[id].issued_at
    PROVE  /\ Narrows(update(ledger, id, op), {id})
           /\ DOMAIN update(ledger, id, op).pending = DOMAIN ledger.pending
           /\ update(ledger, id, op).pending[id] = op
<1>1. PICK m : m = update(ledger, id, op) OBVIOUS
<1>2. m.next_id = ledger.next_id /\ m.pending = [ledger.pending EXCEPT ![id] = op]
    BY <1>1 DEF update, IsLedger
<1> QED BY <1>1, <1>2 DEF Narrows, IsLedger

\* `sent'.
LEMMA SentOutcome ==
    ASSUME IsLedger(ledger), NEW id
    PROVE  LET o == on_sent(ledger, Primary, id, row)
           IN  /\ Narrows(o.ledger, {id}) /\ o.effects = {}
               /\ id \in DOMAIN o.ledger.pending => o.ledger.pending[id].phase = "Sent"
<1>1. CASE id \notin DOMAIN ledger.pending
    BY <1>1 DEF on_sent, Outcome, Narrows
<1>2. CASE id \in DOMAIN ledger.pending
    <2>1. PICK op : op = [ledger.pending[id] EXCEPT !.phase = "Sent"] OBVIOUS
    <2>2. op.issued_at = ledger.pending[id].issued_at /\ op.phase = "Sent"
        BY <1>2, <2>1 DEF IsLedger, PendingMutation
    <2>3. /\ Narrows(update(ledger, id, op), {id})
          /\ update(ledger, id, op).pending[id] = op
        BY <1>2, <2>2, UpdateNarrows
    <2> QED BY <1>2, <2>1, <2>2, <2>3 DEF on_sent, Outcome
<1> QED BY <1>1, <1>2

\* `acked'.
LEMMA AckedOutcome ==
    ASSUME IsLedger(ledger), NEW id
    PROVE  LET o == on_acked(ledger, Primary, id, now, row)
           IN  /\ Narrows(o.ledger, {id}) /\ o.effects = {}
               /\ id \in DOMAIN o.ledger.pending => /\ o.ledger.pending[id].phase = "Acked"
                                                    /\ o.ledger.pending[id].at = now
<1>1. CASE id \notin DOMAIN ledger.pending
    BY <1>1 DEF on_acked, Outcome, Narrows
<1>2. CASE id \in DOMAIN ledger.pending
    <2>1. PICK op : op = [ledger.pending[id] EXCEPT !.phase = "Acked", !.at = now] OBVIOUS
    <2>2. op.issued_at = ledger.pending[id].issued_at /\ op.phase = "Acked" /\ op.at = now
        BY <1>2, <2>1 DEF IsLedger, PendingMutation
    <2>3. /\ Narrows(update(ledger, id, op), {id})
          /\ update(ledger, id, op).pending[id] = op
        BY <1>2, <2>2, UpdateNarrows
    <2> QED BY <1>2, <2>1, <2>2, <2>3 DEF on_acked, Outcome
<1> QED BY <1>1, <1>2

\* Operations are dropped and the rest left alone.
LEMMA RemoveNarrows ==
    ASSUME IsLedger(ledger), NEW ids, NEW b,
           b.next_id = ledger.next_id, b.pending = ledger.pending,
           b = [next_id |-> b.next_id, generations |-> b.generations, pending |-> b.pending]
    PROVE  LET m == remove(b, ids)
           IN  /\ Narrows(m, {}) /\ DOMAIN m.pending = DOMAIN ledger.pending \ ids
               /\ m.next_id = ledger.next_id
               /\ m.pending = [i \in DOMAIN ledger.pending \ ids |-> ledger.pending[i]]
               /\ m = [next_id |-> m.next_id, generations |-> m.generations,
                       pending |-> m.pending]
<1>1. PICK m : m = remove(b, ids) OBVIOUS
<1>2. /\ m.next_id = ledger.next_id
      /\ m.pending = [i \in DOMAIN ledger.pending \ ids |-> ledger.pending[i]]
      /\ m = [next_id |-> m.next_id, generations |-> m.generations, pending |-> m.pending]
    BY <1>1 DEF remove
<1>3. Narrows(m, {}) /\ DOMAIN m.pending = DOMAIN ledger.pending \ ids
    BY <1>2 DEF Narrows
<1> QED BY <1>1, <1>2, <1>3

\* ... by a ledger, itself.
LEMMA DropNarrows ==
    ASSUME IsLedger(ledger), NEW ids
    PROVE  LET m == remove(ledger, ids)
           IN  /\ Narrows(m, {}) /\ DOMAIN m.pending = DOMAIN ledger.pending \ ids
               /\ m.next_id = ledger.next_id
               /\ m.pending = [i \in DOMAIN ledger.pending \ ids |-> ledger.pending[i]]
               /\ m = [next_id |-> m.next_id, generations |-> m.generations,
                       pending |-> m.pending]
<1>1. ledger = [next_id |-> ledger.next_id, generations |-> ledger.generations,
                pending |-> ledger.pending]
    BY DEF IsLedger
<1> QED BY <1>1, RemoveNarrows, Zenon

\* `failed', for the classes the coordinator knows: the operation is to be sent
\* again, or leaves the ledger.
LEMMA FailedOutcome ==
    ASSUME IsLedger(ledger), now \in Nat, NEW id, NEW class \in {"Rejected", "Transient"}
    PROVE  LET o == on_failed(ledger, Primary, id, class, now, row)
           IN  /\ Narrows(o.ledger, {id})
               /\ \/ /\ id \notin DOMAIN o.ledger.pending
                     /\ \/ o.effects = {}
                        \/ id \in DOMAIN ledger.pending /\ o.effects = {Effect("Report", id, now)}
                  \/ /\ id \in DOMAIN o.ledger.pending
                     /\ o.ledger.pending[id].phase = "RetryScheduled"
                     /\ \E at \in Nat : o.effects = {Effect("Retry", id, at)}
<1>0. PICK o : o = on_failed(ledger, Primary, id, class, now, row) OBVIOUS
<1> SUFFICES /\ Narrows(o.ledger, {id})
             /\ \/ /\ id \notin DOMAIN o.ledger.pending
                   /\ \/ o.effects = {}
                      \/ id \in DOMAIN ledger.pending /\ o.effects = {Effect("Report", id, now)}
                \/ /\ id \in DOMAIN o.ledger.pending
                   /\ o.ledger.pending[id].phase = "RetryScheduled"
                   /\ \E at \in Nat : o.effects = {Effect("Retry", id, at)}
    BY <1>0
<1>1. CASE id \notin DOMAIN ledger.pending
    <2>1. o.ledger = ledger /\ o.effects = {}
        BY <1>0, <1>1 DEF on_failed, Outcome
    <2> QED BY <1>1, <2>1 DEF Narrows
<1>2. CASE id \in DOMAIN ledger.pending
    <2>1. PICK op : op = ledger.pending[id] OBVIOUS
    <2>2. PICK at : at = now + backoff(op.attempts + 1) OBVIOUS
    <2>3. at \in Nat
        <3>1. op.attempts \in Nat BY <1>2, <2>1 DEF IsLedger, PendingMutation
        <3>2. (op.attempts + 1) * BackoffUnit \in Nat BY <3>1, ReducerConstants
        <3> QED BY <2>2, <3>2 DEF backoff
    <2>4. PICK again : again = [op EXCEPT !.phase = "RetryScheduled",
                                          !.attempts = op.attempts + 1, !.at = at]
        OBVIOUS
    <2>5. again.at = at /\ again.phase = "RetryScheduled" /\ again.issued_at = op.issued_at
        BY <1>2, <2>1, <2>4 DEF IsLedger, PendingMutation
    <2>6. \/ o.ledger = remove(ledger, {id}) /\ o.effects \in {{}, {Effect("Report", id, now)}}
          \/ o.ledger = update(ledger, id, again) /\ o.effects = {Effect("Retry", id, at)}
        BY <1>0, <1>2, <2>1, <2>2, <2>4, <2>5 DEF on_failed, Outcome
    <2>7. CASE o.ledger = remove(ledger, {id}) /\ o.effects \in {{}, {Effect("Report", id, now)}}
        <3>1. Narrows(o.ledger, {}) /\ DOMAIN o.ledger.pending = DOMAIN ledger.pending \ {id}
            BY <2>7, DropNarrows
        <3> QED BY <1>2, <2>7, <3>1 DEF Narrows
    <2>8. CASE o.ledger = update(ledger, id, again) /\ o.effects = {Effect("Retry", id, at)}
        <3>1. /\ Narrows(update(ledger, id, again), {id})
              /\ DOMAIN update(ledger, id, again).pending = DOMAIN ledger.pending
              /\ update(ledger, id, again).pending[id] = again
            BY <1>2, <2>1, <2>5, UpdateNarrows
        <3> QED BY <1>2, <2>3, <2>5, <2>8, <3>1
    <2> QED BY <2>6, <2>7, <2>8
<1> QED BY <1>1, <1>2

\* `cancelled': what is on the wire is to be read back.
LEMMA CancelledOutcome ==
    ASSUME IsLedger(ledger), NEW fields \in SUBSET Fields, fields # {}
    PROVE  LET o == on_cancelled(ledger, Primary, fields, now, row)
           IN  /\ Narrows(o.ledger, {})
               /\ \A e \in o.effects : \E i \in DOMAIN ledger.pending : e = Effect("Reconcile", i, now)
<1>0. PICK o : o = on_cancelled(ledger, Primary, fields, now, row) OBVIOUS
<1>1. PICK b : b = bump(ledger, fields) OBVIOUS
<1>2. /\ b.next_id = ledger.next_id /\ b.pending = ledger.pending
      /\ b = [next_id |-> b.next_id, generations |-> b.generations, pending |-> b.pending]
    BY <1>1 DEF bump, IsLedger
<1>3. PICK affected : affected = UNION {Claims(ledger, Primary, f) : f \in fields} OBVIOUS
<1>4. PICK onWire : onWire = {i \in affected : reached_provider(ledger.pending[i])} OBVIOUS
<1>5. affected \subseteq DOMAIN ledger.pending
    BY <1>3 DEF Claims
<1>6. /\ o.ledger = remove(b, affected \ onWire)
      /\ o.effects = {Effect("Reconcile", i, now) : i \in onWire}
    BY <1>0, <1>1, <1>3, <1>4 DEF on_cancelled, Outcome
<1>7. Narrows(o.ledger, {})
    <2>1. PICK gone : gone = affected \ onWire OBVIOUS
    <2>2. Narrows(remove(b, gone), {}) BY <1>2, RemoveNarrows, Zenon
    <2> QED BY <1>6, <2>1, <2>2
<1>8. \A e \in o.effects : \E i \in DOMAIN ledger.pending : e = Effect("Reconcile", i, now)
    BY <1>4, <1>5, <1>6
<1> QED BY <1>0, <1>7, <1>8

\* An observation: what leaves the ledger is settled by it.
LEMMA ObservedOutcome ==
    ASSUME IsLedger(ledger), NEW value, NEW revision
    PROVE  LET o == reconcile_observation(ledger, Primary, value, revision, now)
           IN  /\ Narrows(o.ledger, {})
               /\ \A i \in DOMAIN ledger.pending \ DOMAIN o.ledger.pending :
                     settled_by(ledger.pending[i], revision, now)
<1>0. PICK o : o = reconcile_observation(ledger, Primary, value, revision, now) OBVIOUS
<1>1. PICK settled : settled = {i \in DOMAIN ledger.pending :
                                  /\ ledger.pending[i].task = Primary
                                  /\ settled_by(ledger.pending[i], revision, now)}
    OBVIOUS
<1>2. PICK kept : kept = remove(ledger, settled) OBVIOUS
<1>3. /\ kept.next_id = ledger.next_id
      /\ kept.pending = [i \in DOMAIN ledger.pending \ settled |-> ledger.pending[i]]
      /\ kept = [next_id |-> kept.next_id, generations |-> kept.generations, pending |-> kept.pending]
    BY <1>2, DropNarrows
<1>4. PICK P : P = [i \in DOMAIN kept.pending |->
                      IF kept.pending[i].task = Primary
                      THEN [kept.pending[i] EXCEPT !.previous = value[kept.pending[i].field]]
                      ELSE kept.pending[i]]
    OBVIOUS
<1>5. o.ledger = [kept EXCEPT !.pending = P]
    BY <1>0, <1>1, <1>2, <1>4 DEF reconcile_observation, Outcome
<1>6. o.ledger.next_id = ledger.next_id /\ o.ledger.pending = P
    BY <1>3, <1>5
<1>7. ASSUME NEW i \in DOMAIN P
      PROVE  /\ i \in DOMAIN ledger.pending
             /\ P[i].issued_at = ledger.pending[i].issued_at
             /\ P[i].phase = ledger.pending[i].phase /\ P[i].at = ledger.pending[i].at
    <2>1. i \in DOMAIN ledger.pending /\ kept.pending[i] = ledger.pending[i]
        BY <1>3, <1>4
    <2>2. kept.pending[i] \in PendingMutation
        BY <2>1 DEF IsLedger
    <2>3. P[i] = kept.pending[i] \/ P[i] = [kept.pending[i] EXCEPT !.previous = value[kept.pending[i].field]]
        BY <1>4
    <2> QED BY <2>1, <2>2, <2>3 DEF PendingMutation
<1>8. Narrows(o.ledger, {})
    BY <1>6, <1>7 DEF Narrows
<1>9. DOMAIN P = DOMAIN ledger.pending \ settled
    BY <1>3, <1>4
<1> QED BY <1>0, <1>1, <1>6, <1>8, <1>9

\* `recover': what may have gone out is in doubt and read back; what is sent
\* was not sent, or is scheduled to be sent again.
LEMMA RecoveredOutcome ==
    ASSUME IsLedger(ledger), now \in Nat
    PROVE  LET o == recover(ledger, now)
           IN  /\ Narrows(o.ledger, {i \in DOMAIN ledger.pending : InDoubt(ledger.pending[i])})
               /\ \A i \in DOMAIN o.ledger.pending :
                     InDoubt(ledger.pending[i]) => o.ledger.pending[i].phase = "Uncertain"
               /\ \A e \in o.effects : \E i \in DOMAIN ledger.pending :
                     /\ e \in Effects /\ e.id = i
                     /\ e.kind # "Reconcile" => ledger.pending[i].phase \in {"Accepted", "RetryScheduled"}
<1>0. PICK o : o = recover(ledger, now) OBVIOUS
<1>1. PICK P : P = [i \in DOMAIN ledger.pending |->
                      IF InDoubt(ledger.pending[i])
                      THEN [ledger.pending[i] EXCEPT !.phase = "Uncertain", !.at = now]
                      ELSE ledger.pending[i]]
    OBVIOUS
<1>2. o.ledger = [ledger EXCEPT !.pending = P]
    BY <1>0, <1>1 DEF recover
<1>3. o.ledger.next_id = ledger.next_id /\ o.ledger.pending = P
    BY <1>2 DEF IsLedger
<1>4. ASSUME NEW i \in DOMAIN P
      PROVE  /\ P[i].issued_at = ledger.pending[i].issued_at
             /\ IF InDoubt(ledger.pending[i]) THEN P[i].phase = "Uncertain" ELSE P[i] = ledger.pending[i]
    <2>1. ledger.pending[i] \in PendingMutation BY <1>1 DEF IsLedger
    <2> QED BY <1>1, <2>1 DEF PendingMutation
<1>5. Narrows(o.ledger, {i \in DOMAIN ledger.pending : InDoubt(ledger.pending[i])})
    BY <1>1, <1>3, <1>4 DEF Narrows
<1>6. ASSUME NEW e \in o.effects
      PROVE  \E i \in DOMAIN ledger.pending :
                /\ e \in Effects /\ e.id = i
                /\ e.kind # "Reconcile" => ledger.pending[i].phase \in {"Accepted", "RetryScheduled"}
    <2>1. PICK i \in DOMAIN ledger.pending :
            /\ ledger.pending[i].phase # "Acked"
            /\ e = IF InDoubt(ledger.pending[i]) THEN Effect("Reconcile", i, now)
                   ELSE IF ledger.pending[i].phase = "RetryScheduled"
                   THEN Effect("Retry", i, IF ledger.pending[i].at > now
                                           THEN ledger.pending[i].at ELSE now)
                   ELSE Effect("Send", i, now)
        BY <1>0 DEF recover
    <2>2. i \in Nat /\ ledger.pending[i].at \in Nat /\ ledger.pending[i].phase \in Phases
        BY DEF IsLedger, PendingMutation
    <2> QED BY <2>1, <2>2 DEF Effect, Effects, InDoubt, Phases
<1> QED BY <1>0, <1>1, <1>3, <1>4, <1>5, <1>6

-----------------------------------------------------------------------------
\* What the ledger's invariant says of the ledger and the row.
LEMMA LedgerTyped ==
    /\ LP!IInv => /\ IsLedger(ledger) /\ row \in Entity
                  /\ \A i \in DOMAIN ledger.pending : i < ledger.next_id
    /\ LP!IInv' => /\ IsLedger(ledger') /\ row' \in Entity
                   /\ \A i \in DOMAIN ledger'.pending : i < ledger'.next_id
<1>1. LP!IInv => /\ LP!IsLedger(ledger) /\ row \in LP!Entity
                 /\ \A i \in DOMAIN ledger.pending : i < ledger.next_id
    BY CoordinatorConstants DEF LP!IInv, LP!TypeOK, LP!LedgerInv, LP!ClaimsOrdered, LP!Ordered
<1>2. LP!IInv' => /\ LP!IsLedger(ledger') /\ row' \in LP!Entity
                  /\ \A i \in DOMAIN ledger'.pending : i < ledger'.next_id
    BY CoordinatorConstants DEF LP!IInv, LP!TypeOK, LP!LedgerInv, LP!ClaimsOrdered, LP!Ordered
<1>3. \A l : LP!IsLedger(l) => IsLedger(l)
    BY DEF LP!IsLedger, IsLedger, LP!PendingMutation, PendingMutation, LP!Phases, Phases
<1>4. LP!Entity = Entity
    BY DEF LP!Entity, Entity
<1> QED BY <1>1, <1>2, <1>3, <1>4

\* A step of the ledger, or none, keeps the ledger's invariant.
LEMMA LedgerKeeps ==
    ASSUME LP!IInv, LP!Next \/ UNCHANGED <<ledger, row, observed, now>>
    PROVE  LP!IInv'
<1>1. [LP!Next]_(LP!vars)
    BY DEF LP!vars
<1> QED BY <1>1, LP!StepSound, CoordinatorConstants, ReducerConstants
        DEF LP!IInv, LP!Next, LP!vars

\* The effects a driver puts at the end of its queue, as a sequence of them in
\* which no operation comes twice.
LEMMA InOrderFacts ==
    ASSUME NEW E, E \subseteq Effects, NEW s \in InOrder(E)
    PROVE  /\ s \in Seq(Effects)
           /\ \A k \in DOMAIN s : s[k] \in E
           /\ \A j, k \in DOMAIN s : j # k => s[j].id # s[k].id
<1>1. PICK n \in 0 .. MaxOps : s \in [1 .. n -> E]
    BY DEF InOrder
<1>2. n \in Nat /\ DOMAIN s = 1 .. n
    BY <1>1, CoordinatorConstants
<1>3. \A k \in DOMAIN s : s[k] \in E /\ s[k] \in Effects /\ s[k].id \in Nat
    BY <1>1, <1>2 DEF Effects
<1>4. s \in [1 .. n -> Effects]
    BY <1>1
<1>5. s \in Seq(Effects)
    BY <1>2, <1>4
<1>6. ASSUME NEW j \in DOMAIN s, NEW k \in DOMAIN s, j # k PROVE s[j].id # s[k].id
    <2>1. j \in Nat /\ k \in Nat BY <1>2
    <2>2. CASE j < k BY <2>2, <1>3 DEF InOrder
    <2>3. CASE k < j BY <2>3, <1>3 DEF InOrder
    <2> QED BY <1>6, <2>1, <2>2, <2>3
<1> QED BY <1>3, <1>5, <1>6

\* A queue with effects at its end.
LEMMA QueueFacts ==
    ASSUME NEW q \in Seq(Effects), NEW s \in Seq(Effects)
    PROVE  /\ q \o s \in Seq(Effects)
           /\ \A k \in DOMAIN (q \o s) :
                 \/ k \in DOMAIN q /\ (q \o s)[k] = q[k]
                 \/ /\ k \notin DOMAIN q /\ k - Len(q) \in DOMAIN s
                    /\ (q \o s)[k] = s[k - Len(q)]
OBVIOUS

\* A queue whose first effect has been taken.
LEMMA TailFacts ==
    ASSUME NEW q \in Seq(Effects), q # << >>
    PROVE  /\ Tail(q) \in Seq(Effects) /\ Head(q) \in Effects
           /\ Head(q) = q[1] /\ 1 \in DOMAIN q
           /\ \A k \in DOMAIN Tail(q) : k + 1 \in DOMAIN q /\ k # 0 /\ k \in Nat /\ Tail(q)[k] = q[k + 1]
OBVIOUS

\* A driver that goes on with its loop: what it carried is gone, and its queue
\* is what it was, with the effects at its end.
LEMMA ContinueFacts ==
    ASSUME driver \in [Slots -> Doing], NEW d \in Slots, NEW E, E \subseteq Effects,
           Continue(d, E)
    PROVE  \E n \in Doing, s \in InOrder(E) :
              /\ driver' = [driver EXCEPT ![d] = n]
              /\ n.pc = "run" /\ n.fetched = None
              /\ n.queue = driver[d].queue \o s
<1>1. PICK s \in InOrder(E) :
        driver' = [driver EXCEPT ![d] = [Idle EXCEPT !.pc = "run", !.queue = driver[d].queue \o s]]
    BY DEF Continue
<1>2. PICK n : n = [Idle EXCEPT !.pc = "run", !.queue = driver[d].queue \o s] OBVIOUS
<1>3. driver[d].queue \in Seq(Effects) BY DEF Doing
<1>4. driver[d].queue \o s \in Seq(Effects)
    BY <1>3, InOrderFacts, QueueFacts
<1>5. n \in Doing /\ n.pc = "run" /\ n.fetched = None /\ n.queue = driver[d].queue \o s
    BY <1>2, <1>4 DEF Idle, Doing
<1> QED BY <1>1, <1>2, <1>5

Ways == {"crash", "store", "refusal", "timeout", "edit", "cancel", "add"}

\* A charge leaves less of the bounds.
LEMMA ChargeFacts ==
    ASSUME left \in [Ways -> Nat], NEW ways, Charge(ways)
    PROVE  /\ left' \in [Ways -> Nat]
           /\ \A w \in Ways : left'[w] <= left[w]
           /\ \A w \in Ways : w \in ways => left[w] > 0
BY DEF Charge

-----------------------------------------------------------------------------
\* Only what driver d does changes.
Turn(d, n) == driver' = [driver EXCEPT ![d] = n]

\* What the other drivers carry stays good while identities only grow.
LEMMA TurnCarries ==
    ASSUME Base, NEW d \in Slots, NEW n \in Doing, Turn(d, n),
           NEW next \in Nat, ledger.next_id <= next, Carries(n, next)
    PROVE  /\ driver' \in [Slots -> Doing]
           /\ \A e \in Slots : Carries(driver'[e], next)
<1>1. driver \in [Slots -> Doing] /\ ledger.next_id \in Nat
    BY DEF Base, TypeOK, IsLedger
<1>2. driver' \in [Slots -> Doing] /\ driver'[d] = n
      /\ \A e \in Slots : e # d => driver'[e] = driver[e]
    BY <1>1 DEF Turn
<1>3. ASSUME NEW e \in Slots, e # d PROVE Carries(driver[e], next)
    <2>1. Carries(driver[e], ledger.next_id) BY DEF Base, Carried
    <2>2. driver[e] \in Doing BY <1>1
    <2>3. driver[e].id \in Nat /\ \A k \in DOMAIN driver[e].queue : driver[e].queue[k].id \in Nat
        <3>1. PICK q : q = driver[e].queue OBVIOUS
        <3>2. q \in Seq(Effects) /\ driver[e].id \in Nat BY <2>2, <3>1 DEF Doing
        <3>3. \A k \in DOMAIN q : q[k] \in Effects BY <3>2
        <3> QED BY <3>1, <3>2, <3>3 DEF Effects
    <2> QED BY <1>1, <2>1, <2>3 DEF Carries
<1> QED BY <1>2, <1>3

\* The reads there are after a driver's step, or a poll's, are the ones there
\* were, unless the entity changed.
LEMMA TurnReads ==
    ASSUME driver \in [Slots -> Doing], NEW d \in Slots, NEW n, Turn(d, n), remote' = remote,
           n.fetched \in {None, driver[d].fetched, Snapshot},
           poll' \in {poll, None, Snapshot}
    PROVE  Reads' \subseteq Reads \cup {None}
<1>1. Snapshot' = Snapshot BY DEF Snapshot
<1>2. \A e \in Slots : driver'[e] = IF e = d THEN n ELSE driver[e] BY DEF Turn
<1> QED BY <1>1, <1>2 DEF Reads

\* Reads stay reads of the past.
LEMMA PastStays ==
    ASSUME ReadsArePast, Reads' \subseteq Reads \cup {None},
           now' = now, stamped' = stamped \/ stamped' = TRUE
    PROVE  ReadsArePast'
<1>1. ~stamped' => ~stamped BY Zenon
<1>2. ASSUME NEW s \in Reads', s # None
      PROVE  s.revision <= now /\ (~stamped => s.revision < now)
    BY <1>2 DEF ReadsArePast
<1> QED BY <1>1, <1>2 DEF ReadsArePast

\* A step in which the provider's entity and the clock stand still keeps the
\* basic invariant, given what it does to the ledger, its driver and the wire.
LEMMA TurnBase ==
    ASSUME Base, LP!IInv', NEW d \in Slots, NEW n \in Doing, Turn(d, n),
           ledger.next_id <= ledger'.next_id, ledger'.next_id <= MaxOps,
           Carries(n, ledger'.next_id),
           n.fetched \in {None, driver[d].fetched, Snapshot},
           poll' \in {poll, None, Snapshot},
           UNCHANGED <<remote, now>>, stamped' = stamped \/ stamped' = TRUE,
           booted' \in BOOLEAN, observed' \in Snapshots,
           sent' \in [OpIds -> Nat], refused' \in [OpIds -> Nat], acked' \subseteq OpIds,
           left' \in [Ways -> Nat],
           wire' \subseteq Writes, \A w \in wire' : w.id < ledger'.next_id,
           OneWaits'
    PROVE  Base' /\ Reads' \subseteq Reads \cup {None}
<1>1. IsLedger(ledger') /\ row' \in Entity /\ ledger'.next_id \in Nat
    BY LedgerTyped DEF IsLedger
<1>2. /\ driver' \in [Slots -> Doing]
      /\ \A e \in Slots : Carries(driver'[e], ledger'.next_id)
    BY <1>1, TurnCarries
<1>3. Carried'
    BY <1>2 DEF Carried
<1>4. Reads' \subseteq Reads \cup {None}
    BY TurnReads DEF Base, TypeOK
<1>5. ReadsArePast'
    BY <1>4, PastStays DEF Base
<1>6. stamped' \in BOOLEAN
    BY Zenon DEF Base, TypeOK
<1>7. poll' \in Snapshots \cup {None}
    <2>1. Snapshot \in Snapshots BY DEF Snapshot, Snapshots, Base, TypeOK
    <2> QED BY <2>1 DEF Base, TypeOK
<1>8. /\ remote' \in [value : Entity, revision : 0 .. MaxTime, executed : SUBSET OpIds]
      /\ now' \in 0 .. MaxTime
    BY DEF Base, TypeOK
<1>9. TypeOK'
    BY <1>1, <1>2, <1>6, <1>7, <1>8, Zenon DEF TypeOK, Ways
<1> QED BY <1>3, <1>4, <1>5, <1>9 DEF Base

\* A driver that waits for no write may do what it likes with itself.
LEMMA WaitsStay ==
    ASSUME Base, NEW d \in Slots, NEW n, Turn(d, n), wire' = wire, driver[d].pc # "wire"
    PROVE  OneWaits'
<1>1. driver \in [Slots -> Doing] /\ OneWaits BY DEF Base, TypeOK
<1>2. \A e \in Slots : e # d => driver'[e] = driver[e] BY <1>1 DEF Turn
<1> QED BY <1>1, <1>2 DEF OneWaits

\* Many steps leave the wire and what is known of writes alone as well.
LEMMA QuietTurnBase ==
    ASSUME Base, LP!IInv', NEW d \in Slots, NEW n \in Doing, Turn(d, n),
           ledger.next_id <= ledger'.next_id, ledger'.next_id <= MaxOps,
           Carries(n, ledger'.next_id), driver[d].pc # "wire",
           n.fetched \in {None, driver[d].fetched, Snapshot},
           poll' \in {poll, None, Snapshot},
           UNCHANGED <<remote, now, wire, sent, refused, acked>>,
           stamped' = stamped \/ stamped' = TRUE,
           booted' \in BOOLEAN, observed' \in Snapshots, left' \in [Ways -> Nat]
    PROVE  Base' /\ Reads' \subseteq Reads \cup {None}
<1>1. OneWaits' BY WaitsStay
<1>2. /\ sent' \in [OpIds -> Nat] /\ refused' \in [OpIds -> Nat] /\ acked' \subseteq OpIds
      /\ wire' \subseteq Writes
    BY DEF Base, TypeOK
<1>3. \A w \in wire' : w.id < ledger'.next_id
    <2>1. /\ \A w \in wire : w.id \in Nat /\ w.id < ledger.next_id
          /\ ledger.next_id \in Nat /\ ledger'.next_id \in Nat
        BY LedgerTyped DEF Base, Carried, TypeOK, Writes, IsLedger
    <2> QED BY <2>1
<1> QED BY <1>1, <1>2, <1>3, TurnBase

-----------------------------------------------------------------------------
\* What a step does to the ledger's operations: one more; some go and the
\* others, but for some, stay in the phase they were in; or one is acknowledged,
\* whose write landed.
LedgerStep ==
    \/ /\ acked' = acked /\ Grows(ledger') /\ now + SettleDeadline < MaxTime
    \/ /\ acked' = acked
       /\ \E S : /\ Narrows(ledger', S)
                 /\ \A i \in S \cap DOMAIN ledger'.pending : ledger'.pending[i].phase # "Acked"
    \/ \E w \in wire :
          /\ w.landed /\ acked' = acked \cup {w.id}
          /\ ~stamped \/ now = MaxTime
          /\ \/ Narrows(ledger', {})
             \/ /\ Narrows(ledger', {w.id})
                /\ w.id \in DOMAIN ledger'.pending => ledger'.pending[w.id].at = now

\* What a step does to what is known of writes.
Foot ==
    /\ Reads' \subseteq Reads \cup {None, Snapshot'}
    /\ remote.executed \subseteq remote'.executed
    /\ now <= now'
    /\ WholeWrites =>
          \A w \in wire' : w.landed => \/ w.id \in remote'.executed
                                       \/ \E x \in wire : x.landed /\ x.id = w.id
    /\ observed' # observed =>
          \E s \in Reads \ {None} :
             /\ observed' = s
             /\ \A i \in DOMAIN ledger.pending \ DOMAIN ledger'.pending :
                   settled_by(ledger.pending[i], s.revision, now)
    /\ LedgerStep

Simulates == Ledger!Next \/ UNCHANGED <<ledger, row, observed, now>>

\* A ledger left alone narrows.
LEMMA SameNarrows ==
    ASSUME ledger' = ledger
    PROVE  /\ Narrows(ledger', {})
           /\ acked' = acked => LedgerStep
<1>1. Narrows(ledger', {}) BY DEF Narrows
<1> QED BY <1>1 DEF LedgerStep

\* A driver that goes on carries nothing but its queue.
LEMMA ContinueCarries ==
    ASSUME Base, NEW d \in Slots, NEW E, E \subseteq Effects, Continue(d, E),
           NEW next \in Nat, ledger.next_id <= next, \A e \in E : e.id < next
    PROVE  \E n \in Doing :
              Turn(d, n) /\ n.pc = "run" /\ n.fetched = None /\ Carries(n, next)
<1>1. driver \in [Slots -> Doing] /\ ledger.next_id \in Nat
    BY DEF Base, TypeOK, IsLedger
<1>2. PICK n \in Doing, s \in InOrder(E) :
        /\ driver' = [driver EXCEPT ![d] = n]
        /\ n.pc = "run" /\ n.fetched = None /\ n.queue = driver[d].queue \o s
    BY <1>1, ContinueFacts
<1>3. PICK q : q = driver[d].queue OBVIOUS
<1>4. q \in Seq(Effects) BY <1>1, <1>3 DEF Doing
<1>5. s \in Seq(Effects) /\ \A k \in DOMAIN s : s[k] \in E BY InOrderFacts
<1>6. ASSUME NEW k \in DOMAIN (q \o s) PROVE (q \o s)[k].id < next
    <2>1. CASE k \in DOMAIN q /\ (q \o s)[k] = q[k]
        <3>1. q[k].id < ledger.next_id BY <1>3, <2>1 DEF Base, Carried, Carries
        <3>2. q[k] \in Effects BY <1>4, <2>1
        <3> QED BY <1>1, <2>1, <3>1, <3>2 DEF Effects
    <2>2. CASE k - Len(q) \in DOMAIN s /\ (q \o s)[k] = s[k - Len(q)]
        BY <1>5, <2>2
    <2> QED BY <1>4, <1>5, <2>1, <2>2, QueueFacts
<1> QED BY <1>2, <1>3, <1>6 DEF Turn, Carries

\* `transition': stored and driven, or neither.
LEMMA TransitionFacts ==
    ASSUME Base, NEW d \in Slots, NEW o, NEW ways, Transition(d, o, ways),
           o.effects \subseteq Effects, o.ledger.next_id \in Nat,
           ledger.next_id <= o.ledger.next_id,
           \A e \in o.effects : e.id < o.ledger.next_id
    PROVE  /\ left' \in [Ways -> Nat]
           /\ \E n \in Doing : /\ Turn(d, n) /\ n.pc = "run" /\ n.fetched = None
                               /\ Carries(n, ledger'.next_id)
           /\ \/ ledger' = o.ledger /\ row' = o.entity
              \/ UNCHANGED <<ledger, row>>
<1>0. left \in [Ways -> Nat] /\ ledger.next_id \in Nat
    BY DEF Base, TypeOK, Ways, IsLedger
<1>1. CASE Commits(o, ways) /\ Continue(d, o.effects)
    <2>1. left' \in [Ways -> Nat] BY <1>0, <1>1, ChargeFacts DEF Commits
    <2>2. ledger' = o.ledger /\ row' = o.entity BY <1>1 DEF Commits
    <2>3. \E n \in Doing : /\ Turn(d, n) /\ n.pc = "run" /\ n.fetched = None
                           /\ Carries(n, o.ledger.next_id)
        BY <1>1, ContinueCarries
    <2> QED BY <2>1, <2>2, <2>3
<1>2. CASE CommitFails(ways) /\ Continue(d, {})
    <2>1. left' \in [Ways -> Nat] BY <1>0, <1>2, ChargeFacts DEF CommitFails
    <2>2. UNCHANGED <<ledger, row>> BY <1>2 DEF CommitFails, durable
    <2>3. \E n \in Doing : /\ Turn(d, n) /\ n.pc = "run" /\ n.fetched = None
                           /\ Carries(n, ledger.next_id)
        BY <1>0, <1>2, ContinueCarries
    <2> QED BY <2>1, <2>2, <2>3
<1> QED BY <1>1, <1>2 DEF Transition

\* Where only the ledger and a driver move.
LEMMA QuietFoot ==
    ASSUME Base, Reads' \subseteq Reads \cup {None}, UNCHANGED <<remote, now, wire>>,
           LedgerStep, UNCHANGED observed
    PROVE  Foot
<1>1. now \in Nat BY CoordinatorConstants DEF Base, TypeOK
<1> QED BY <1>1 DEF Foot

\* A request, of whichever kind.
LEMMA RequestStep ==
    ASSUME Base, NEW d \in Slots, NEW f \in Fields, NEW v \in Values, Accepting(f),
           driver[d].pc # "wire",
           Transition(d, on_requested(ledger, Primary, f, v, now, row), {}), Stamp,
           UNCHANGED <<wire, remote, poll, booted, history>>
    PROVE  Base' /\ Foot /\ Simulates
<1>1. PICK o : o = on_requested(ledger, Primary, f, v, now, row) OBVIOUS
<1>2. /\ IsLedger(ledger) /\ ledger.next_id \in Nat /\ now \in Nat /\ LP!IInv
      /\ ledger.next_id < MaxOps /\ MaxOps \in Nat /\ ledger.generations[f] < MaxGen
      /\ now + SettleDeadline < MaxTime
    BY CoordinatorConstants DEF Base, TypeOK, IsLedger, Accepting
<1>3. Grows(o.ledger) /\ o.effects = {Effect("Send", ledger.next_id, now)}
    BY <1>1, <1>2, RequestedOutcome
<1>4. /\ o.effects \subseteq Effects /\ o.ledger.next_id = ledger.next_id + 1
      /\ \A e \in o.effects : e.id < o.ledger.next_id
    BY <1>2, <1>3 DEF Effects, Effect, Grows
<1>5. /\ left' \in [Ways -> Nat]
      /\ \E n \in Doing : /\ Turn(d, n) /\ n.pc = "run" /\ n.fetched = None
                          /\ Carries(n, ledger'.next_id)
      /\ \/ ledger' = o.ledger /\ row' = o.entity
         \/ UNCHANGED <<ledger, row>>
    BY <1>1, <1>2, <1>4, TransitionFacts
<1>6. UNCHANGED <<remote, now, wire, sent, refused, acked, observed, poll>> /\ stamped' = TRUE
      /\ booted' = booted
    BY DEF Stamp, history
<1>7. (LP!Next /\ Ledger!Next) \/ UNCHANGED <<ledger, row, observed, now>>
    BY <1>1, <1>2, <1>5, <1>6, RequestSimulated
<1>8. LP!IInv'
    BY <1>2, <1>7, LedgerKeeps
<1>9. LedgerStep
    <2>1. CASE ledger' = o.ledger BY <1>2, <1>3, <1>6, <2>1 DEF LedgerStep
    <2>2. CASE ledger' = ledger BY <1>6, <2>2, SameNarrows
    <2> QED BY <1>5, <2>1, <2>2
<1>10. ledger.next_id <= ledger'.next_id /\ ledger'.next_id <= MaxOps
    BY <1>2, <1>4, <1>5
<1>11. observed' \in Snapshots /\ booted' \in BOOLEAN
    BY <1>6 DEF Base, TypeOK
<1>12. PICK n \in Doing : Turn(d, n) /\ n.pc = "run" /\ n.fetched = None
                          /\ Carries(n, ledger'.next_id)
    BY <1>5
<1>13. Base' /\ Reads' \subseteq Reads \cup {None}
    BY <1>5, <1>6, <1>8, <1>10, <1>11, <1>12, QuietTurnBase
<1> QED BY <1>6, <1>7, <1>9, <1>13, QuietFoot DEF Simulates

\* A cancellation.
LEMMA CancelStep ==
    ASSUME Base, NEW d \in Slots, NEW fields \in SUBSET Fields, Cancel(d, fields)
    PROVE  Base' /\ Foot /\ Simulates
<1>1. PICK o : o = on_cancelled(ledger, Primary, fields, now, row) OBVIOUS
<1>2. /\ IsLedger(ledger) /\ ledger.next_id \in Nat /\ now \in Nat /\ LP!IInv
      /\ ledger.next_id <= MaxOps /\ MaxOps \in Nat
      /\ \A i \in DOMAIN ledger.pending : i \in Nat /\ i < ledger.next_id
    BY CoordinatorConstants, LedgerTyped DEF Base, TypeOK, IsLedger, Carried
<1>3. /\ Narrows(o.ledger, {})
      /\ \A e \in o.effects : \E i \in DOMAIN ledger.pending : e = Effect("Reconcile", i, now)
    BY <1>1, <1>2, CancelledOutcome DEF Cancel
<1>4. /\ o.effects \subseteq Effects /\ o.ledger.next_id = ledger.next_id
      /\ \A e \in o.effects : e.id < o.ledger.next_id
    BY <1>2, <1>3 DEF Effects, Effect, Narrows
<1>5. /\ left' \in [Ways -> Nat]
      /\ \E n \in Doing : /\ Turn(d, n) /\ n.pc = "run" /\ n.fetched = None
                          /\ Carries(n, ledger'.next_id)
      /\ \/ ledger' = o.ledger /\ row' = o.entity
         \/ UNCHANGED <<ledger, row>>
    BY <1>1, <1>2, <1>4, TransitionFacts DEF Cancel
<1>6. UNCHANGED <<remote, now, wire, sent, refused, acked, observed, poll, stamped, booted>>
    BY DEF Cancel, NoStamp, history
<1>7. (LP!Next /\ Ledger!Next) \/ UNCHANGED <<ledger, row, observed, now>>
    BY <1>1, <1>2, <1>5, <1>6, CancelSimulated DEF Cancel
<1>8. LP!IInv'
    BY <1>2, <1>7, LedgerKeeps
<1>9. LedgerStep
    <2>1. CASE ledger' = o.ledger BY <1>3, <1>6, <2>1 DEF LedgerStep
    <2>2. CASE ledger' = ledger BY <1>6, <2>2, SameNarrows
    <2> QED BY <1>5, <2>1, <2>2
<1>10. ledger.next_id <= ledger'.next_id /\ ledger'.next_id <= MaxOps
    BY <1>2, <1>4, <1>5
<1>11. observed' \in Snapshots /\ booted' \in BOOLEAN /\ driver[d].pc # "wire"
    BY <1>6 DEF Base, TypeOK, Cancel
<1>12. PICK n \in Doing : Turn(d, n) /\ n.pc = "run" /\ n.fetched = None
                          /\ Carries(n, ledger'.next_id)
    BY <1>5
<1>13. Base' /\ Reads' \subseteq Reads \cup {None}
    BY <1>5, <1>6, <1>8, <1>10, <1>11, <1>12, QuietTurnBase
<1> QED BY <1>6, <1>7, <1>9, <1>13, QuietFoot DEF Simulates

\* What a driver holds names an operation that was accepted.
LEMMA HeldFacts ==
    ASSUME Base, NEW d \in Slots, driver[d].pc \in {"build", "wire"}
    PROVE  /\ driver[d].id \in OpIds /\ driver[d].id < ledger.next_id
           /\ driver[d].op \in PendingMutation /\ driver[d].existing \in Entity
           /\ IsLedger(ledger) /\ ledger.next_id \in Nat /\ ledger.next_id <= MaxOps
           /\ now \in Nat /\ LP!IInv
<1>1. driver[d] \in Doing /\ Carries(driver[d], ledger.next_id)
      /\ IsLedger(ledger) /\ LP!IInv /\ ledger.next_id <= MaxOps /\ now \in Nat
    BY CoordinatorConstants DEF Base, TypeOK, Carried
<1>2. driver[d].id \in Nat /\ ledger.next_id \in Nat BY <1>1 DEF Doing, IsLedger
<1>3. /\ driver[d].id < ledger.next_id /\ driver[d].op \in PendingMutation
      /\ driver[d].existing \in Entity
    BY <1>1 DEF Carries
<1> QED BY <1>1, <1>2, <1>3, CoordinatorConstants DEF OpIds

\* A failure is reported back.
LEMMA FailedTransition ==
    ASSUME Base, NEW d \in Slots, driver[d].pc \in {"build", "wire"},
           NEW class \in {"Rejected", "Transient"}, NEW ways,
           Transition(d, on_failed(ledger, Primary, driver[d].id, class, now, row), ways),
           UNCHANGED <<observed, now, acked>>
    PROVE  /\ left' \in [Ways -> Nat]
           /\ \E n \in Doing : /\ Turn(d, n) /\ n.pc = "run" /\ n.fetched = None
                               /\ Carries(n, ledger'.next_id)
           /\ ledger'.next_id = ledger.next_id
           /\ LedgerStep /\ Simulates /\ LP!IInv'
<1>2. PICK id : id = driver[d].id OBVIOUS
<1>1. PICK o : o = on_failed(ledger, Primary, id, class, now, row) OBVIOUS
<1>3. /\ id \in OpIds /\ id < ledger.next_id /\ IsLedger(ledger) /\ id \in Nat
      /\ ledger.next_id \in Nat /\ ledger.next_id <= MaxOps /\ now \in Nat /\ LP!IInv
    BY <1>2, HeldFacts DEF OpIds
<1>4. /\ Narrows(o.ledger, {id})
      /\ \/ /\ id \notin DOMAIN o.ledger.pending
            /\ \/ o.effects = {}
               \/ id \in DOMAIN ledger.pending /\ o.effects = {Effect("Report", id, now)}
         \/ /\ id \in DOMAIN o.ledger.pending
            /\ o.ledger.pending[id].phase = "RetryScheduled"
            /\ \E at \in Nat : o.effects = {Effect("Retry", id, at)}
    BY <1>1, <1>3, FailedOutcome
<1>5. /\ o.effects \subseteq Effects /\ o.ledger.next_id = ledger.next_id
      /\ \A e \in o.effects : e.id < o.ledger.next_id
    BY <1>3, <1>4 DEF Effects, Effect, Narrows
<1>6. /\ left' \in [Ways -> Nat]
      /\ \E n \in Doing : /\ Turn(d, n) /\ n.pc = "run" /\ n.fetched = None
                          /\ Carries(n, ledger'.next_id)
      /\ \/ ledger' = o.ledger /\ row' = o.entity
         \/ UNCHANGED <<ledger, row>>
    BY <1>1, <1>2, <1>3, <1>5, TransitionFacts
<1>7. (LP!Next /\ Ledger!Next) \/ UNCHANGED <<ledger, row, observed, now>>
    BY <1>1, <1>2, <1>3, <1>6, VerdictSimulated
<1>8. LP!IInv'
    BY <1>3, <1>7, LedgerKeeps
<1>9. LedgerStep
    <2>1. CASE ledger' = o.ledger
        <3>1. \A i \in {id} \cap DOMAIN ledger'.pending : ledger'.pending[i].phase # "Acked"
            BY <1>4, <2>1
        <3> QED BY <1>4, <2>1, <3>1 DEF LedgerStep
    <2>2. CASE ledger' = ledger BY <2>2, SameNarrows
    <2> QED BY <1>6, <2>1, <2>2
<1> QED BY <1>5, <1>6, <1>7, <1>8, <1>9 DEF Simulates

\* No credentials.
LEMMA UnbuiltStep ==
    ASSUME Base, NEW d \in Slots, SendUnbuilt(d)
    PROVE  Base' /\ Foot /\ Simulates
<1>1. UNCHANGED <<remote, now, wire, sent, refused, acked, observed, poll, stamped, booted>>
      /\ driver[d].pc = "build"
    BY DEF SendUnbuilt, NoStamp, history
<1>2. /\ left' \in [Ways -> Nat]
      /\ \E n \in Doing : /\ Turn(d, n) /\ n.pc = "run" /\ n.fetched = None
                          /\ Carries(n, ledger'.next_id)
      /\ ledger'.next_id = ledger.next_id
      /\ LedgerStep /\ Simulates /\ LP!IInv'
    BY <1>1, FailedTransition DEF SendUnbuilt
<1>3. PICK n \in Doing : Turn(d, n) /\ n.pc = "run" /\ n.fetched = None
                         /\ Carries(n, ledger'.next_id)
    BY <1>2
<1>4. ledger.next_id <= ledger'.next_id /\ ledger'.next_id <= MaxOps
      /\ observed' \in Snapshots /\ booted' \in BOOLEAN
    BY <1>1, <1>2, HeldFacts DEF Base, TypeOK
<1>5. Base' /\ Reads' \subseteq Reads \cup {None}
    BY <1>1, <1>2, <1>3, <1>4, QuietTurnBase
<1> QED BY <1>1, <1>2, <1>5, QuietFoot

\* A driver's write leaves the wire, or is left on it with nobody waiting.
LEMMA AnsweredWaits ==
    ASSUME Base, NEW d \in Slots, NEW w \in wire, Awaits(d, w), NEW n, Turn(d, n),
           wire' \in {wire \ {w}, (wire \ {w}) \cup {[w EXCEPT !.driver = None]}}
    PROVE  /\ OneWaits' /\ wire' \subseteq Writes /\ w.id = driver[d].id
           /\ \A x \in wire' : /\ \E y \in wire : y.landed = x.landed /\ y.id = x.id
                               /\ x.id < ledger.next_id
<1>1. /\ driver \in [Slots -> Doing] /\ OneWaits /\ wire \subseteq Writes
      /\ \A x \in wire : x.id < ledger.next_id
    BY DEF Base, TypeOK, Carried
<1>2. \A e \in Slots : e # d => driver'[e] = driver[e] BY <1>1 DEF Turn
<1>3. w.driver = d /\ driver[d].pc = "wire" /\ driver[d].id = w.id
    BY <1>1 DEF Awaits, OneWaits
<1>4. PICK v : v = [w EXCEPT !.driver = None] OBVIOUS
<1>5. v \in Writes /\ v.driver = None /\ v.id = w.id /\ v.landed = w.landed
    BY <1>1, <1>4 DEF Writes
<1>6. None \notin Slots
    BY CoordinatorConstants DEF Slots
<1>7. \A x \in wire' : \/ x \in wire /\ x # w
                       \/ x = v
    BY <1>4
<1>8. OneWaits'
    BY <1>1, <1>2, <1>3, <1>5, <1>6, <1>7 DEF OneWaits
<1> QED BY <1>1, <1>3, <1>5, <1>7, <1>8

\* An answered driver goes on.
LEMMA AnsweredBase ==
    ASSUME Base, NEW d \in Slots, NEW w \in wire, Awaits(d, w),
           NEW n \in Doing, Turn(d, n), n.pc = "run", n.fetched = None,
           Carries(n, ledger'.next_id),
           ledger'.next_id = ledger.next_id, LP!IInv',
           wire' \in {wire \ {w}, (wire \ {w}) \cup {[w EXCEPT !.driver = None]}},
           UNCHANGED <<remote, now, poll, booted, observed, sent>>,
           stamped' = stamped \/ stamped' = TRUE,
           refused' \in [OpIds -> Nat], acked' \subseteq OpIds, left' \in [Ways -> Nat],
           LedgerStep
    PROVE  Base' /\ Foot
<1>1. /\ OneWaits' /\ wire' \subseteq Writes
      /\ \A x \in wire' : /\ \E y \in wire : y.landed = x.landed /\ y.id = x.id
                          /\ x.id < ledger.next_id
    BY AnsweredWaits
<1>2. /\ ledger.next_id <= ledger'.next_id /\ ledger'.next_id <= MaxOps
      /\ observed' \in Snapshots /\ booted' \in BOOLEAN /\ sent' \in [OpIds -> Nat]
      /\ now \in Nat
    BY CoordinatorConstants DEF Base, TypeOK, Carried, IsLedger
<1>3. \A x \in wire' : x.id < ledger'.next_id BY <1>1
<1>4. Base' /\ Reads' \subseteq Reads \cup {None}
    BY <1>1, <1>2, <1>3, TurnBase
<1>5. Foot
    BY <1>1, <1>2, <1>4 DEF Foot
<1> QED BY <1>4, <1>5

\* The provider says no.
LEMMA RefusedStep ==
    ASSUME Base, NEW d \in Slots, NEW w \in wire, NEW class \in {"Rejected", "Transient"},
           SendRefused(d, w, class)
    PROVE  Base' /\ Foot /\ Simulates
<1>1. /\ Awaits(d, w) /\ driver[d].pc = "wire" /\ wire' = wire \ {w}
      /\ UNCHANGED <<remote, now, poll, booted, observed, sent, stamped, acked>>
    BY DEF SendRefused, NoStamp, Awaits
<1>2. /\ left' \in [Ways -> Nat]
      /\ \E n \in Doing : /\ Turn(d, n) /\ n.pc = "run" /\ n.fetched = None
                          /\ Carries(n, ledger'.next_id)
      /\ ledger'.next_id = ledger.next_id
      /\ LedgerStep /\ Simulates /\ LP!IInv'
    BY <1>1, FailedTransition DEF SendRefused
<1>3. PICK n \in Doing : Turn(d, n) /\ n.pc = "run" /\ n.fetched = None
                         /\ Carries(n, ledger'.next_id)
    BY <1>2
<1>4. refused' \in [OpIds -> Nat] /\ acked' \subseteq OpIds
    <2>1. driver[d].id \in OpIds BY <1>1, HeldFacts
    <2>2. refused \in [OpIds -> Nat] /\ acked \subseteq OpIds BY DEF Base, TypeOK
    <2> QED BY <1>1, <2>1, <2>2 DEF SendRefused
<1>5. Base' /\ Foot
    BY <1>1, <1>2, <1>3, <1>4, AnsweredBase
<1> QED BY <1>2, <1>5

\* The deadline passes.
LEMMA TimeoutStep ==
    ASSUME Base, NEW d \in Slots, NEW w \in wire, SendTimeout(d, w)
    PROVE  Base' /\ Foot /\ Simulates
<1>1. /\ Awaits(d, w) /\ driver[d].pc = "wire"
      /\ UNCHANGED <<remote, now, poll, booted, observed, sent, stamped, acked, refused>>
    BY DEF SendTimeout, NoStamp, Awaits, history
<1>2. wire' \in {wire \ {w}, (wire \ {w}) \cup {[w EXCEPT !.driver = None]}}
    <2>1. CASE w.landed BY <2>1 DEF SendTimeout
    <2>2. CASE ~w.landed BY <2>2 DEF SendTimeout
    <2> QED BY <2>1, <2>2
<1>3. /\ left' \in [Ways -> Nat]
      /\ \E n \in Doing : /\ Turn(d, n) /\ n.pc = "run" /\ n.fetched = None
                          /\ Carries(n, ledger'.next_id)
      /\ ledger'.next_id = ledger.next_id
      /\ LedgerStep /\ Simulates /\ LP!IInv'
    BY <1>1, FailedTransition DEF SendTimeout
<1>4. PICK n \in Doing : Turn(d, n) /\ n.pc = "run" /\ n.fetched = None
                         /\ Carries(n, ledger'.next_id)
    BY <1>3
<1>5. refused' \in [OpIds -> Nat] /\ acked' \subseteq OpIds
    BY <1>1 DEF Base, TypeOK
<1>6. Base' /\ Foot
    BY <1>1, <1>2, <1>3, <1>4, <1>5, AnsweredBase
<1> QED BY <1>3, <1>6

\* The provider has done it.
LEMMA AckedStep ==
    ASSUME Base, NEW d \in Slots, NEW w \in wire, SendAcked(d, w)
    PROVE  Base' /\ Foot /\ Simulates
<1>1. /\ Awaits(d, w) /\ driver[d].pc = "wire" /\ w.landed /\ wire' = wire \ {w}
      /\ UNCHANGED <<remote, now, poll, booted, observed, sent, refused>>
      /\ stamped' = TRUE /\ (~stamped \/ now = MaxTime)
      /\ acked' = acked \cup {driver[d].id}
    BY DEF SendAcked, Stamp, Awaits
<1>2. PICK id : id = driver[d].id OBVIOUS
<1>3. /\ id \in OpIds /\ id < ledger.next_id /\ IsLedger(ledger) /\ id \in Nat
      /\ ledger.next_id \in Nat /\ ledger.next_id <= MaxOps /\ now \in Nat /\ LP!IInv
    BY <1>1, <1>2, HeldFacts DEF OpIds
<1>4. w.id = id
    BY <1>1, <1>2 DEF Base, OneWaits, Awaits
<1>5. PICK o : o = on_acked(ledger, Primary, id, now, row) OBVIOUS
<1>6. /\ Narrows(o.ledger, {id}) /\ o.effects = {} /\ o.ledger.next_id = ledger.next_id
      /\ id \in DOMAIN o.ledger.pending => o.ledger.pending[id].at = now
    <2>1. /\ Narrows(o.ledger, {id}) /\ o.effects = {}
          /\ id \in DOMAIN o.ledger.pending => o.ledger.pending[id].at = now
        BY <1>3, <1>5, AckedOutcome
    <2> QED BY <2>1 DEF Narrows
<1>7. /\ left' \in [Ways -> Nat]
      /\ \E n \in Doing : /\ Turn(d, n) /\ n.pc = "run" /\ n.fetched = None
                          /\ Carries(n, ledger'.next_id)
      /\ \/ ledger' = o.ledger /\ row' = o.entity
         \/ UNCHANGED <<ledger, row>>
    BY <1>2, <1>3, <1>5, <1>6, TransitionFacts DEF SendAcked
<1>8. (LP!Next /\ Ledger!Next) \/ UNCHANGED <<ledger, row, observed, now>>
    BY <1>1, <1>3, <1>5, <1>7, VerdictSimulated
<1>9. LP!IInv'
    BY <1>3, <1>8, LedgerKeeps
<1>10. LedgerStep
    <2>1. CASE ledger' = o.ledger
        BY <1>1, <1>2, <1>4, <1>6, <2>1 DEF LedgerStep
    <2>2. CASE ledger' = ledger
        BY <1>1, <1>2, <1>4, <2>2, SameNarrows DEF LedgerStep
    <2> QED BY <1>7, <2>1, <2>2
<1>11. PICK n \in Doing : Turn(d, n) /\ n.pc = "run" /\ n.fetched = None
                          /\ Carries(n, ledger'.next_id)
    BY <1>7
<1>12. refused' \in [OpIds -> Nat] /\ acked' \subseteq OpIds /\ ledger'.next_id = ledger.next_id
    BY <1>1, <1>2, <1>3, <1>6, <1>7 DEF Base, TypeOK
<1>13. Base' /\ Foot
    BY <1>1, <1>7, <1>9, <1>10, <1>11, <1>12, AnsweredBase
<1> QED BY <1>8, <1>13 DEF Simulates

\* What goes out is a write, of the operation the driver holds.
LEMMA WriteFacts ==
    ASSUME Base, NEW d \in Slots, driver[d].pc = "build"
    PROVE  /\ Write(d) \in Writes /\ Write(d).landed = FALSE
           /\ Write(d).driver = d /\ Write(d).id = driver[d].id
<1>1. /\ driver[d].op \in PendingMutation /\ driver[d].existing \in Entity /\ driver[d].id \in Nat
    BY HeldFacts DEF OpIds
<1>2. PICK f : f = driver[d].op.field OBVIOUS
<1>3. f \in Fields /\ driver[d].op.desired \subseteq Members /\ driver[d].existing[f] \subseteq Members
    BY <1>1, <1>2, CoordinatorConstants DEF PendingMutation, Entity
<1>4. PICK add : add = IF WriteKind[f] = "diff" THEN driver[d].op.desired \ driver[d].existing[f]
                       ELSE driver[d].op.desired
    OBVIOUS
<1>5. PICK del : del = CASE WriteKind[f] = "absolute" -> Members \ driver[d].op.desired
                         [] WriteKind[f] = "union"    -> {}
                         [] WriteKind[f] = "diff"     -> driver[d].existing[f] \ driver[d].op.desired
    OBVIOUS
<1>6. add \subseteq Members BY <1>3, <1>4
<1>7. del \subseteq Members
    <2>1. WriteKind[f] \in {"absolute", "union", "diff"} BY <1>3, CoordinatorConstants
    <2> QED BY <1>3, <1>5, <2>1
<1>8. Write(d) = [driver |-> d, id |-> driver[d].id, field |-> f, landed |-> FALSE,
                  add |-> add, del |-> del]
    BY <1>2, <1>4, <1>5 DEF Write
<1> QED BY <1>1, <1>3, <1>6, <1>7, <1>8 DEF Writes

\* A whole write is never left out for being empty.
LEMMA WholeGoesOut ==
    ASSUME Base, NEW d \in Slots, driver[d].pc = "build", WholeWrites
    PROVE  ~NothingToSend(d)
<1>1. driver[d].op.field \in Fields BY HeldFacts DEF PendingMutation
<1> QED BY <1>1 DEF NothingToSend, WholeWrites

\* The hand-over.
LEMMA DispatchStep ==
    ASSUME Base, NEW d \in Slots, SendDispatch(d)
    PROVE  Base' /\ Foot /\ Simulates
<1>1. /\ driver[d].pc = "build"
      /\ UNCHANGED <<remote, now, poll, booted, observed, stamped, refused, acked>>
    BY DEF SendDispatch, NoStamp
<1>2. PICK id : id = driver[d].id OBVIOUS
<1>3. /\ id \in OpIds /\ id < ledger.next_id /\ IsLedger(ledger) /\ id \in Nat
      /\ ledger.next_id \in Nat /\ ledger.next_id <= MaxOps /\ now \in Nat /\ LP!IInv
    BY <1>1, <1>2, HeldFacts DEF OpIds
<1>4. PICK o : o = on_sent(ledger, Primary, id, row) OBVIOUS
<1>5. /\ Narrows(o.ledger, {id}) /\ o.ledger.next_id = ledger.next_id
      /\ id \in DOMAIN o.ledger.pending => o.ledger.pending[id].phase = "Sent"
    <2>1. /\ Narrows(o.ledger, {id})
          /\ id \in DOMAIN o.ledger.pending => o.ledger.pending[id].phase = "Sent"
        BY <1>3, <1>4, SentOutcome
    <2> QED BY <2>1 DEF Narrows
<1>6. /\ left' \in [Ways -> Nat]
      /\ \/ ledger' = o.ledger /\ row' = o.entity
         \/ UNCHANGED <<ledger, row>>
    <2>1. left \in [Ways -> Nat] BY DEF Base, TypeOK, Ways
    <2>2. CASE Commits(o, {})
        BY <2>1, <2>2, ChargeFacts DEF Commits
    <2>3. CASE CommitFails({})
        BY <2>1, <2>3, ChargeFacts DEF CommitFails, durable
    <2> QED BY <1>2, <1>4, <2>2, <2>3 DEF SendDispatch
<1>7. (LP!Next /\ Ledger!Next) \/ UNCHANGED <<ledger, row, observed, now>>
    BY <1>1, <1>3, <1>4, <1>6, VerdictSimulated
<1>8. LP!IInv'
    BY <1>3, <1>7, LedgerKeeps
<1>9. LedgerStep
    <2>1. CASE ledger' = o.ledger
        <3>1. \A i \in {id} \cap DOMAIN ledger'.pending : ledger'.pending[i].phase # "Acked"
            BY <1>5, <2>1
        <3> QED BY <1>1, <1>5, <2>1, <3>1 DEF LedgerStep
    <2>2. CASE ledger' = ledger BY <1>1, <2>2, SameNarrows
    <2> QED BY <1>6, <2>1, <2>2
<1>10. PICK n : n = [driver[d] EXCEPT !.pc = "wire"] OBVIOUS
<1>11. driver \in [Slots -> Doing] BY DEF Base, TypeOK
<1>12. /\ n \in Doing /\ n.pc = "wire" /\ n.fetched = driver[d].fetched
       /\ n.id = id /\ n.op = driver[d].op /\ n.existing = driver[d].existing
       /\ n.queue = driver[d].queue
    BY <1>2, <1>10, <1>11 DEF Doing
<1>13. Turn(d, n)
    BY <1>10 DEF SendDispatch, Turn
<1>14. ledger'.next_id = ledger.next_id BY <1>5, <1>6
<1>15. Carries(n, ledger'.next_id)
    <2>1. Carries(driver[d], ledger.next_id) BY DEF Base, Carried
    <2> QED BY <1>1, <1>2, <1>12, <1>14, <2>1 DEF Carries
<1>16. PICK w \in Writes : /\ w.driver = d /\ w.id = id /\ wire' = wire \cup {w}
                           /\ WholeWrites => ~w.landed
    <2>1. /\ Write(d) \in Writes /\ Write(d).landed = FALSE
          /\ Write(d).driver = d /\ Write(d).id = id
        BY <1>1, <1>2, WriteFacts
    <2>2. CASE NothingToSend(d)
        <3>1. PICK w : w = [Write(d) EXCEPT !.landed = TRUE] OBVIOUS
        <3>2. w \in Writes /\ w.driver = d /\ w.id = id BY <2>1, <3>1 DEF Writes
        <3>3. wire' = wire \cup {w} BY <2>2, <3>1 DEF SendDispatch
        <3>4. ~WholeWrites BY <1>1, <2>2, WholeGoesOut
        <3> QED BY <3>2, <3>3, <3>4
    <2>3. CASE ~NothingToSend(d)
        <3>1. wire' = wire \cup {Write(d)} BY <2>3 DEF SendDispatch
        <3> QED BY <2>1, <3>1
    <2> QED BY <2>2, <2>3
<1>17. sent' \in [OpIds -> Nat]
    <2>1. sent \in [OpIds -> Nat] BY DEF Base, TypeOK
    <2> QED BY <1>2, <1>3, <2>1 DEF SendDispatch
<1>18. /\ refused' \in [OpIds -> Nat] /\ acked' \subseteq OpIds /\ wire \subseteq Writes
       /\ observed' \in Snapshots /\ booted' \in BOOLEAN
       /\ \A x \in wire : x.id < ledger.next_id
    BY <1>1 DEF Base, TypeOK, Carried
<1>19. OneWaits'
    <2>1. OneWaits /\ \A e \in Slots : e # d => driver'[e] = driver[e]
        BY <1>11, <1>13 DEF Turn, Base
    <2>2. driver'[d] = n BY <1>11, <1>13 DEF Turn
    <2>3. \A x \in wire : x.driver # d BY <1>1, <2>1 DEF OneWaits
    <2> QED BY <1>12, <1>16, <2>1, <2>2, <2>3 DEF OneWaits
<1>20. wire' \subseteq Writes /\ \A x \in wire' : x.id < ledger'.next_id
    BY <1>3, <1>14, <1>16, <1>18
<1>21. ledger.next_id <= ledger'.next_id /\ ledger'.next_id <= MaxOps BY <1>3, <1>14
<1>22. Base' /\ Reads' \subseteq Reads \cup {None}
    BY <1>1, <1>6, <1>8, <1>12, <1>13, <1>15, <1>17, <1>18, <1>19, <1>20, <1>21, TurnBase
<1>23. Foot
    BY <1>1, <1>3, <1>9, <1>16, <1>22 DEF Foot
<1> QED BY <1>7, <1>22, <1>23 DEF Simulates

\* A driver's step that touches nothing durable and not the wire.
LEMMA LocalStep ==
    ASSUME Base, NEW d \in Slots, NEW n \in Doing, Turn(d, n), driver[d].pc # "wire",
           Carries(n, ledger.next_id),
           n.fetched \in {None, driver[d].fetched, Snapshot},
           UNCHANGED <<ledger, row, observed, now, stamped, wire, remote, poll, sent,
                       refused, acked>>,
           booted' \in BOOLEAN, left' \in [Ways -> Nat]
    PROVE  Base' /\ Foot /\ Simulates
<1>1. LP!IInv' BY LedgerKeeps DEF Base
<1>2. /\ ledger.next_id <= ledger'.next_id /\ ledger'.next_id <= MaxOps
      /\ observed' \in Snapshots
    BY DEF Base, TypeOK, Carried, IsLedger
<1>3. Base' /\ Reads' \subseteq Reads \cup {None}
    BY <1>1, <1>2, QuietTurnBase
<1>4. LedgerStep BY SameNarrows
<1>5. Foot BY <1>3, <1>4, QuietFoot
<1> QED BY <1>3, <1>5 DEF Simulates

\* Facts every driver's step starts from.
LEMMA SlotFacts ==
    ASSUME Base, NEW d \in Slots
    PROVE  /\ driver \in [Slots -> Doing] /\ driver[d] \in Doing
           /\ driver[d].queue \in Seq(Effects) /\ Carries(driver[d], ledger.next_id)
           /\ left \in [Ways -> Nat] /\ booted \in BOOLEAN /\ row \in Entity
           /\ IsLedger(ledger) /\ ledger.next_id \in Nat
           /\ Snapshot \in Snapshots
<1>1. driver \in [Slots -> Doing] /\ driver[d] \in Doing /\ driver[d].queue \in Seq(Effects)
    BY DEF Base, TypeOK, Doing
<1>2. Snapshot \in Snapshots BY DEF Snapshot, Snapshots, Base, TypeOK
<1> QED BY <1>1, <1>2 DEF Base, TypeOK, Carried, Ways, IsLedger

\* The row is read for an additive command.
LEMMA AddReadStep ==
    ASSUME Base, NEW d \in Slots, NEW f \in Fields, NEW v \in Values, AddRead(d, f, v)
    PROVE  Base' /\ Foot /\ Simulates
<1>1. /\ driver \in [Slots -> Doing] /\ driver[d] \in Doing /\ Carries(driver[d], ledger.next_id)
      /\ left \in [Ways -> Nat] /\ booted \in BOOLEAN /\ row \in Entity
    BY SlotFacts
<1>2. PICK g : g = [field |-> f, value |-> row[f] \cup v] OBVIOUS
<1>3. g \in [field : Fields, value : Values]
    BY <1>1, <1>2, CoordinatorConstants DEF Entity
<1>4. PICK n : n = [driver[d] EXCEPT !.pc = "merged", !.merged = g] OBVIOUS
<1>5. /\ n \in Doing /\ n.pc = "merged" /\ n.merged = g /\ n.fetched = driver[d].fetched
      /\ n.queue = driver[d].queue
    BY <1>1, <1>3, <1>4 DEF Doing
<1>6. Turn(d, n) /\ driver[d].pc = "idle" BY <1>2, <1>4 DEF AddRead, Turn
<1>7. Carries(n, ledger.next_id) BY <1>1, <1>3, <1>5 DEF Carries
<1>8. left' \in [Ways -> Nat] BY <1>1, ChargeFacts DEF AddRead
<1>9. UNCHANGED <<ledger, row, observed, now, stamped, wire, remote, poll, sent, refused,
                  acked, booted>>
    BY DEF AddRead, NoStamp, durable, history
<1> QED BY <1>1, <1>5, <1>6, <1>7, <1>8, <1>9, LocalStep

\* The merged value is requested.
LEMMA AddRequestStep ==
    ASSUME Base, NEW d \in Slots, AddRequest(d)
    PROVE  Base' /\ Foot /\ Simulates
<1>1. driver[d].pc = "merged" /\ Carries(driver[d], ledger.next_id)
    BY SlotFacts DEF AddRequest
<1>2. driver[d].merged \in [field : Fields, value : Values]
    BY <1>1 DEF Carries
<1>3. PICK f \in Fields, v \in Values : f = driver[d].merged.field /\ v = driver[d].merged.value
    BY <1>2
<1>4. /\ Accepting(f) /\ Stamp /\ UNCHANGED <<wire, remote, poll, booted, history>>
      /\ Transition(d, on_requested(ledger, Primary, f, v, now, row), {})
    BY <1>3 DEF AddRequest
<1> QED BY <1>1, <1>4, RequestStep

\* The queue is empty.
LEMMA FinishStep ==
    ASSUME Base, NEW d \in Slots, Finish(d)
    PROVE  Base' /\ Foot /\ Simulates
<1>1. /\ driver[d] \in Doing /\ left \in [Ways -> Nat] /\ booted \in BOOLEAN
    BY SlotFacts
<1>2. PICK n : n = Idle OBVIOUS
<1>3. n \in Doing /\ n.pc = "idle" /\ n.fetched = None /\ n.queue = << >>
    BY <1>2 DEF Idle, Doing
<1>4. Turn(d, n) /\ driver[d].pc = "run" BY <1>2 DEF Finish, Turn
<1>5. Carries(n, ledger.next_id) BY <1>3 DEF Carries
<1>6. UNCHANGED <<ledger, row, observed, now, stamped, wire, remote, poll, sent, refused,
                  acked, left>>
    BY DEF Finish, NoStamp, durable, history
<1>7. booted' \in BOOLEAN BY Zenon DEF Finish
<1>8. left' \in [Ways -> Nat] BY <1>1, <1>6
<1> QED BY <1>3, <1>4, <1>5, <1>6, <1>7, <1>8, LocalStep

\* An effect is taken off the queue, and whatever is carried for it is good.
LEMMA TakeStep ==
    ASSUME Base, NEW d \in Slots, driver[d].pc = "run", driver[d].queue # << >>,
           NEW n \in Doing, Turn(d, n), n.queue = Tail(driver[d].queue),
           n.fetched = driver[d].fetched,
           \/ n.pc \in {"run", "fetch"}
           \/ /\ n.pc = "build" /\ n.id = Head(driver[d].queue).id
              /\ n.op \in PendingMutation /\ n.existing \in Entity,
           UNCHANGED <<durable, wire, remote, poll, booted, history, left>>, NoStamp
    PROVE  Base' /\ Foot /\ Simulates
<1>1. /\ driver[d].queue \in Seq(Effects) /\ Carries(driver[d], ledger.next_id)
      /\ left \in [Ways -> Nat] /\ booted \in BOOLEAN
    BY SlotFacts
<1>2. PICK q : q = driver[d].queue OBVIOUS
<1>3. /\ \A k \in DOMAIN q : q[k].id < ledger.next_id
      /\ q \in Seq(Effects) /\ q # << >>
    BY <1>1, <1>2 DEF Carries
<1>4. /\ \A k \in DOMAIN Tail(q) : Tail(q)[k].id < ledger.next_id
      /\ Head(q).id < ledger.next_id
    BY <1>3, TailFacts
<1>5. Carries(n, ledger.next_id)
    BY <1>2, <1>4 DEF Carries
<1>6. UNCHANGED <<ledger, row, observed, now, stamped, wire, remote, poll, sent, refused,
                  acked, left>>
    BY DEF NoStamp, durable, history
<1>7. left' \in [Ways -> Nat] /\ booted' \in BOOLEAN BY <1>1
<1> QED BY <1>5, <1>6, <1>7, LocalStep

\* An effect that needs nothing more.
LEMMA SkipStep ==
    ASSUME Base, NEW d \in Slots, driver[d].pc = "run", driver[d].queue # << >>, Skip(d),
           UNCHANGED <<durable, wire, remote, poll, booted, history, left>>, NoStamp
    PROVE  Base' /\ Foot /\ Simulates
<1>1. driver \in [Slots -> Doing] /\ driver[d] \in Doing /\ driver[d].queue \in Seq(Effects)
    BY SlotFacts
<1>2. Tail(driver[d].queue) \in Seq(Effects) BY <1>1, TailFacts
<1>3. PICK n : n = [driver[d] EXCEPT !.queue = Tail(driver[d].queue)] OBVIOUS
<1>4. /\ n \in Doing /\ n.pc = "run" /\ n.queue = Tail(driver[d].queue)
      /\ n.fetched = driver[d].fetched
    BY <1>1, <1>2, <1>3 DEF Doing
<1>5. Turn(d, n) BY <1>1, <1>3 DEF Skip, Turn
<1> QED BY <1>4, <1>5, TakeStep

\* The effects that load something.
LEMMA LoadStep ==
    ASSUME Base, NEW d \in Slots, Report(d) \/ SendLoad(d) \/ ReconcileLoad(d)
    PROVE  Base' /\ Foot /\ Simulates
<1>1. /\ driver \in [Slots -> Doing] /\ driver[d] \in Doing /\ driver[d].queue \in Seq(Effects)
      /\ IsLedger(ledger) /\ row \in Entity
    BY SlotFacts
<1>2. /\ driver[d].pc = "run" /\ driver[d].queue # << >>
      /\ UNCHANGED <<durable, wire, remote, poll, booted, history, left>> /\ NoStamp
    BY DEF Report, SendLoad, ReconcileLoad, NextEffect
<1>3. Tail(driver[d].queue) \in Seq(Effects) /\ Head(driver[d].queue) \in Effects
    BY <1>1, <1>2, TailFacts
<1>4. CASE Skip(d)
    BY <1>2, <1>4, SkipStep
<1>5. CASE SendLoad(d) /\ ~Skip(d)
    <2>1. PICK e : e = Head(driver[d].queue) OBVIOUS
    <2>2. e.id \in DOMAIN ledger.pending /\ e.id \in Nat
        BY <1>3, <1>5, <2>1 DEF SendLoad, Effects
    <2>3. PICK n : n = [driver[d] EXCEPT !.pc = "build", !.queue = Tail(driver[d].queue),
                                         !.id = e.id, !.op = ledger.pending[e.id],
                                         !.existing = row]
        OBVIOUS
    <2>4. ledger.pending[e.id] \in PendingMutation BY <1>1, <2>2 DEF IsLedger
    <2>5. /\ n \in Doing /\ n.pc = "build" /\ n.queue = Tail(driver[d].queue) /\ n.id = e.id
          /\ n.op \in PendingMutation /\ n.existing \in Entity /\ n.fetched = driver[d].fetched
        BY <1>1, <1>3, <2>2, <2>3, <2>4 DEF Doing
    <2>6. Turn(d, n)
        BY <1>5, <2>1, <2>2, <2>3 DEF SendLoad, Turn
    <2> QED BY <1>2, <2>1, <2>5, <2>6, TakeStep
<1>6. CASE ReconcileLoad(d) /\ ~Skip(d)
    <2>1. PICK n : n = [driver[d] EXCEPT !.pc = "fetch", !.queue = Tail(driver[d].queue)]
        OBVIOUS
    <2>2. /\ n \in Doing /\ n.pc = "fetch" /\ n.queue = Tail(driver[d].queue)
          /\ n.fetched = driver[d].fetched
        BY <1>1, <1>3, <2>1 DEF Doing
    <2>3. Turn(d, n)
        BY <1>6, <2>1 DEF ReconcileLoad, Turn
    <2> QED BY <1>2, <2>2, <2>3, TakeStep
<1> QED BY <1>4, <1>5, <1>6 DEF Report

\* The entity is re-read, or is not.
LEMMA FetchStep ==
    ASSUME Base, NEW d \in Slots, ReconcileFetch(d) \/ ReconcileFails(d)
    PROVE  Base' /\ Foot /\ Simulates
<1>1. /\ driver \in [Slots -> Doing] /\ driver[d] \in Doing /\ Carries(driver[d], ledger.next_id)
      /\ left \in [Ways -> Nat] /\ booted \in BOOLEAN /\ ledger.next_id \in Nat
      /\ Snapshot \in Snapshots
    BY SlotFacts
<1>2. /\ driver[d].pc = "fetch"
      /\ UNCHANGED <<ledger, row, observed, now, stamped, wire, remote, poll, sent, refused,
                     acked, booted>>
    BY DEF ReconcileFetch, ReconcileFails, NoStamp, durable, history
<1>3. CASE ReconcileFetch(d)
    <2>1. PICK s : s = Snapshot OBVIOUS
    <2>2. PICK n : n = [driver[d] EXCEPT !.pc = "ingest", !.fetched = s] OBVIOUS
    <2>3. n \in Doing /\ n.pc = "ingest" /\ n.fetched = s /\ n.queue = driver[d].queue
        BY <1>1, <2>1, <2>2 DEF Doing
    <2>4. Turn(d, n) BY <1>3, <2>1, <2>2 DEF ReconcileFetch, Turn
    <2>5. Carries(n, ledger.next_id) BY <1>1, <2>1, <2>3 DEF Carries
    <2>6. left' = left BY <1>3 DEF ReconcileFetch
    <2> QED BY <1>1, <1>2, <2>1, <2>3, <2>4, <2>5, <2>6, LocalStep
<1>4. CASE ReconcileFails(d)
    <2>1. left' \in [Ways -> Nat] BY <1>1, <1>4, ChargeFacts DEF ReconcileFails
    <2>2. PICK n \in Doing : Turn(d, n) /\ n.pc = "run" /\ n.fetched = None
                             /\ Carries(n, ledger.next_id)
        BY <1>1, <1>4, ContinueCarries DEF ReconcileFails
    <2> QED BY <1>1, <1>2, <2>1, <2>2, LocalStep
<1> QED BY <1>3, <1>4

\* A read is ingested, or the store refuses it.
LEMMA IngestFacts ==
    ASSUME Base, NEW s \in Snapshots, s \in Reads, Ingest(s), now' = now, acked' = acked
    PROVE  /\ left' \in [Ways -> Nat] /\ observed' \in Snapshots
           /\ ledger'.next_id = ledger.next_id
           /\ LedgerStep /\ Simulates /\ LP!IInv'
           /\ observed' # observed =>
                 /\ observed' = s
                 /\ \A i \in DOMAIN ledger.pending \ DOMAIN ledger'.pending :
                       settled_by(ledger.pending[i], s.revision, now)
<1>1. IsLedger(ledger) /\ LP!IInv /\ left \in [Ways -> Nat] /\ observed \in Snapshots
    BY DEF Base, TypeOK, Ways
<1>2. PICK o : o = reconcile_observation(ledger, Primary, s.value, s.revision, now) OBVIOUS
<1>3. /\ Narrows(o.ledger, {}) /\ o.ledger.next_id = ledger.next_id
      /\ \A i \in DOMAIN ledger.pending \ DOMAIN o.ledger.pending :
            settled_by(ledger.pending[i], s.revision, now)
    <2>1. /\ Narrows(o.ledger, {})
          /\ \A i \in DOMAIN ledger.pending \ DOMAIN o.ledger.pending :
                settled_by(ledger.pending[i], s.revision, now)
        BY <1>1, <1>2, ObservedOutcome
    <2> QED BY <2>1 DEF Narrows
<1>4. /\ left' \in [Ways -> Nat]
      /\ \/ ledger' = o.ledger /\ row' = o.entity /\ observed' = s
         \/ UNCHANGED <<ledger, row, observed>>
    <2>1. CASE Commits(o, {}) /\ observed' = s
        BY <1>1, <2>1, ChargeFacts DEF Commits
    <2>2. CASE CommitFails({}) /\ UNCHANGED observed
        BY <1>1, <2>2, ChargeFacts DEF CommitFails, durable
    <2> QED BY <1>2, <2>1, <2>2 DEF Ingest
<1>5. (LP!Next /\ Ledger!Next) \/ UNCHANGED <<ledger, row, observed, now>>
    BY <1>2, <1>4, ObserveSimulated
<1>6. LP!IInv'
    BY <1>1, <1>5, LedgerKeeps
<1>7. LedgerStep
    <2>1. CASE ledger' = o.ledger BY <1>3, <2>1 DEF LedgerStep
    <2>2. CASE ledger' = ledger BY <2>2, SameNarrows
    <2> QED BY <1>4, <2>1, <2>2
<1> QED BY <1>1, <1>3, <1>4, <1>5, <1>6, <1>7 DEF Simulates

\* An ingestion and whatever its task does with itself.
LEMMA IngestBase ==
    ASSUME Base, NEW s \in Snapshots, s \in Reads, s # None, Ingest(s),
           NEW d \in Slots, NEW n \in Doing, Turn(d, n),
           OneWaits', Carries(n, ledger'.next_id), n.fetched \in {None, driver[d].fetched},
           poll' \in {poll, None},
           UNCHANGED <<wire, remote, booted, sent, refused, acked>>, NoStamp
    PROVE  Base' /\ Foot /\ Simulates
<1>1. now' = now /\ stamped' = stamped BY DEF NoStamp
<1>2. /\ left' \in [Ways -> Nat] /\ observed' \in Snapshots
      /\ ledger'.next_id = ledger.next_id
      /\ LedgerStep /\ Simulates /\ LP!IInv'
      /\ observed' # observed =>
            /\ observed' = s
            /\ \A i \in DOMAIN ledger.pending \ DOMAIN ledger'.pending :
                  settled_by(ledger.pending[i], s.revision, now)
    BY <1>1, IngestFacts
<1>3. /\ ledger.next_id <= ledger'.next_id /\ ledger'.next_id <= MaxOps
      /\ booted' \in BOOLEAN /\ now \in Nat
      /\ sent' \in [OpIds -> Nat] /\ refused' \in [OpIds -> Nat] /\ acked' \subseteq OpIds
      /\ wire' \subseteq Writes /\ \A w \in wire' : w.id < ledger'.next_id
    BY <1>2, CoordinatorConstants DEF Base, TypeOK, Carried, IsLedger
<1>4. Base' /\ Reads' \subseteq Reads \cup {None}
    BY <1>1, <1>2, <1>3, TurnBase
<1>5. Foot
    BY <1>1, <1>2, <1>3, <1>4 DEF Foot
<1> QED BY <1>2, <1>4, <1>5

\* `reconcile' ends.
LEMMA ReconcileIngestStep ==
    ASSUME Base, NEW d \in Slots, ReconcileIngest(d)
    PROVE  Base' /\ Foot /\ Simulates
<1>1. /\ driver \in [Slots -> Doing] /\ Carries(driver[d], ledger.next_id)
      /\ ledger.next_id \in Nat /\ driver[d].pc = "ingest"
    BY SlotFacts DEF ReconcileIngest
<1>2. PICK s : s = driver[d].fetched OBVIOUS
<1>3. s \in Snapshots /\ s \in Reads
    BY <1>1, <1>2 DEF Carries, Reads
<1>4. /\ Ingest(s) /\ NoStamp /\ now' = now
      /\ UNCHANGED <<wire, remote, poll, booted, sent, refused, acked>>
    BY <1>2 DEF ReconcileIngest, NoStamp
<1>5. ledger'.next_id = ledger.next_id
    BY <1>3, <1>4, IngestFacts
<1>6. PICK n \in Doing : Turn(d, n) /\ n.pc = "run" /\ n.fetched = None
                         /\ Carries(n, ledger.next_id)
    BY <1>1, ContinueCarries DEF ReconcileIngest
<1>7. OneWaits' BY <1>1, <1>4, <1>6, WaitsStay
<1>8. s # None
    BY <1>3, CoordinatorConstants
<1> QED BY <1>3, <1>4, <1>5, <1>6, <1>7, <1>8, IngestBase

\* A turn in which a driver does nothing.
LEMMA NoTurn ==
    ASSUME Base, driver' = driver, wire' = wire
    PROVE  /\ Turn(Boot, driver[Boot]) /\ driver[Boot] \in Doing /\ Boot \in Slots
           /\ Carries(driver[Boot], ledger.next_id) /\ OneWaits'
<1>1. Boot \in Slots BY DEF Slots
<1>2. driver \in [Slots -> Doing] /\ Carries(driver[Boot], ledger.next_id) /\ OneWaits
    BY <1>1, SlotFacts DEF Base
<1> QED BY <1>1, <1>2 DEF Turn, OneWaits

\* The poll loop reads, and ingests.
LEMMA PollStep ==
    ASSUME Base, PollFetch \/ PollIngest
    PROVE  Base' /\ Foot /\ Simulates
<1>1. /\ driver' = driver /\ wire' = wire /\ NoStamp
      /\ UNCHANGED <<remote, booted, sent, refused, acked, now, stamped>>
    BY DEF PollFetch, PollIngest, NoStamp, history
<1>2. /\ Turn(Boot, driver[Boot]) /\ driver[Boot] \in Doing /\ Boot \in Slots
      /\ Carries(driver[Boot], ledger.next_id) /\ OneWaits'
    BY <1>1, NoTurn
<1>3. CASE PollFetch
    <2>1. /\ UNCHANGED <<ledger, row, observed, left>> /\ poll' = Snapshot
        BY <1>3 DEF PollFetch, durable, history
    <2>2. LP!IInv' BY <1>1, <2>1, LedgerKeeps DEF Base
    <2>3. /\ ledger.next_id <= ledger'.next_id /\ ledger'.next_id <= MaxOps
          /\ observed' \in Snapshots /\ booted' \in BOOLEAN /\ left' \in [Ways -> Nat]
          /\ sent' \in [OpIds -> Nat] /\ refused' \in [OpIds -> Nat] /\ acked' \subseteq OpIds
          /\ wire' \subseteq Writes /\ \A w \in wire' : w.id < ledger'.next_id
        BY <1>1, <2>1 DEF Base, TypeOK, Carried, IsLedger, Ways
    <2>4. Carries(driver[Boot], ledger'.next_id) BY <1>2, <2>1
    <2>5. Base' /\ Reads' \subseteq Reads \cup {None}
        BY <1>1, <1>2, <2>1, <2>2, <2>3, <2>4, TurnBase
    <2>6. LedgerStep BY <1>1, <2>1, SameNarrows
    <2>7. Foot BY <1>1, <2>1, <2>5, <2>6, QuietFoot
    <2> QED BY <1>1, <2>1, <2>5, <2>7 DEF Simulates
<1>4. CASE PollIngest
    <2>1. poll # None /\ Ingest(poll) /\ poll' = None BY <1>4 DEF PollIngest
    <2>2. PICK s : s = poll OBVIOUS
    <2>3. s \in Snapshots /\ s \in Reads /\ s # None /\ Ingest(s)
        BY <2>1, <2>2 DEF Base, TypeOK, Reads
    <2>4. ledger'.next_id = ledger.next_id
        BY <1>1, <2>3, IngestFacts
    <2>5. Carries(driver[Boot], ledger'.next_id) BY <1>2, <2>4
    <2> QED BY <1>1, <1>2, <2>1, <2>3, <2>5, IngestBase
<1> QED BY <1>3, <1>4

\* `recover': committed or not, its effects are driven.
LEMMA RecoverStep ==
    ASSUME Base, Recover
    PROVE  Base' /\ Foot /\ Simulates
<1>1. Boot \in Slots BY DEF Slots
<1>2. /\ driver \in [Slots -> Doing] /\ IsLedger(ledger) /\ ledger.next_id \in Nat
      /\ left \in [Ways -> Nat] /\ booted \in BOOLEAN
    BY <1>1, SlotFacts
<1>3. /\ LP!IInv /\ now \in Nat /\ ledger.next_id <= MaxOps /\ observed \in Snapshots
      /\ \A i \in DOMAIN ledger.pending : i < ledger.next_id
    BY LedgerTyped, CoordinatorConstants DEF Base, TypeOK, Carried
<1>4. /\ driver[Boot].pc = "boot"
      /\ UNCHANGED <<wire, remote, poll, booted, observed, sent, refused, acked, now, stamped>>
    BY DEF Recover, NoStamp, history
<1>5. PICK o : o = recover(ledger, now) OBVIOUS
<1>6. PICK S : S = {i \in DOMAIN ledger.pending : InDoubt(ledger.pending[i])} OBVIOUS
<1>7. /\ Narrows(o.ledger, S)
      /\ \A i \in DOMAIN o.ledger.pending :
            InDoubt(ledger.pending[i]) => o.ledger.pending[i].phase = "Uncertain"
      /\ \A e \in o.effects : \E i \in DOMAIN ledger.pending : e \in Effects /\ e.id = i
    BY <1>2, <1>3, <1>5, <1>6, RecoveredOutcome
<1>8. /\ o.effects \subseteq Effects /\ \A e \in o.effects : e.id < ledger.next_id
    BY <1>3, <1>7
<1>9. /\ left' \in [Ways -> Nat] /\ Continue(Boot, o.effects)
      /\ row' = row /\ (ledger' = o.ledger \/ ledger' = ledger)
    <2>1. CASE Commits([ledger |-> o.ledger, entity |-> row], {})
        BY <1>2, <1>5, <2>1, ChargeFacts DEF Commits, Recover
    <2>2. CASE CommitFails({})
        BY <1>2, <1>5, <2>2, ChargeFacts DEF CommitFails, durable, Recover
    <2> QED BY <1>5, <2>1, <2>2 DEF Recover
<1>10. PICK n \in Doing : Turn(Boot, n) /\ n.pc = "run" /\ n.fetched = None
                          /\ Carries(n, ledger.next_id)
    BY <1>1, <1>2, <1>8, <1>9, ContinueCarries
<1>11. (LP!Next /\ Ledger!Next) \/ UNCHANGED <<ledger, row, observed, now>>
    BY <1>4, <1>5, <1>9, RecoverSimulated
<1>12. LP!IInv'
    BY <1>3, <1>11, LedgerKeeps
<1>13. LedgerStep
    <2>1. CASE ledger' = o.ledger
        <3>1. \A i \in S \cap DOMAIN ledger'.pending : ledger'.pending[i].phase # "Acked"
            BY <1>6, <1>7, <2>1
        <3> QED BY <1>4, <1>7, <2>1, <3>1 DEF LedgerStep
    <2>2. CASE ledger' = ledger BY <1>4, <2>2, SameNarrows
    <2> QED BY <1>9, <2>1, <2>2
<1>14. ledger'.next_id = ledger.next_id BY <1>7, <1>9 DEF Narrows
<1>15. /\ ledger.next_id <= ledger'.next_id /\ ledger'.next_id <= MaxOps
       /\ observed' \in Snapshots /\ booted' \in BOOLEAN /\ Carries(n, ledger'.next_id)
    BY <1>2, <1>3, <1>4, <1>10, <1>14
<1>16. Base' /\ Reads' \subseteq Reads \cup {None}
    BY <1>1, <1>4, <1>9, <1>10, <1>12, <1>15, QuietTurnBase
<1> QED BY <1>4, <1>11, <1>13, <1>16, QuietFoot DEF Simulates

\* Steps outside the daemon, and its death: nothing durable changes.
LEMMA OutsideStep ==
    ASSUME Base, UNCHANGED <<ledger, row, observed, sent, refused, acked>>,
           Simulates, LP!IInv', now <= now', now' \in 0 .. MaxTime,
           driver' \in [Slots -> Doing], \A d \in Slots : Carries(driver'[d], ledger.next_id),
           wire' \subseteq Writes, \A w \in wire' : w.id < ledger.next_id,
           WholeWrites =>
              \A w \in wire' : w.landed => \/ w.id \in remote'.executed
                                           \/ \E x \in wire : x.landed /\ x.id = w.id,
           OneWaits',
           remote' \in [value : Entity, revision : 0 .. MaxTime, executed : SUBSET OpIds],
           remote.executed \subseteq remote'.executed,
           poll' \in {poll, None},
           \A d \in Slots : driver'[d].fetched \in {None, driver[d].fetched},
           remote'.revision = remote.revision \/ (remote'.revision = now /\ stamped' = TRUE),
           \/ now' = now /\ (stamped' = stamped \/ stamped' = TRUE)
           \/ now' = now + 1 /\ stamped' \in BOOLEAN,
           booted' \in BOOLEAN, left' \in [Ways -> Nat]
    PROVE  Base' /\ Foot
<1>1. Reads' \subseteq Reads \cup {None, Snapshot'}
    BY DEF Reads
<1>2. stamped' \in BOOLEAN /\ now \in Nat
    <2>1. now \in Nat BY CoordinatorConstants DEF Base, TypeOK
    <2>2. stamped' \in BOOLEAN BY Zenon DEF Base, TypeOK
    <2> QED BY <2>1, <2>2
<1>3. ReadsArePast'
    <2>1. \A s \in Reads : s # None => s.revision <= now /\ (~stamped => s.revision < now)
        BY DEF Base, ReadsArePast
    <2>2. \A s \in Reads : s # None => s \in Snapshots
        <3>1. Snapshot \in Snapshots BY DEF Base, TypeOK, Snapshot, Snapshots
        <3>2. \A d \in Slots : driver[d].fetched \in Snapshots \cup {None}
            BY DEF Base, TypeOK, Doing
        <3> QED BY <3>1, <3>2 DEF Base, TypeOK, Reads
    <2>3. CASE remote'.revision = remote.revision
        <3>1. Snapshot \in Reads /\ Snapshot # None /\ Snapshot'.revision = Snapshot.revision
            <4>1. Snapshot \in Snapshots BY DEF Base, TypeOK, Snapshot, Snapshots
            <4> QED BY <2>3, <4>1, CoordinatorConstants DEF Snapshot, Reads
        <3>2. ASSUME NEW s \in Reads', s # None
              PROVE  s.revision <= now' /\ (~stamped' => s.revision < now')
            <4>1. PICK r \in Reads : r # None /\ r.revision = s.revision
                BY <1>1, <3>1, <3>2
            <4>2. s.revision \in Nat BY <2>2, <4>1, CoordinatorConstants DEF Snapshots
            <4>3. s.revision <= now /\ (~stamped => s.revision < now) BY <2>1, <4>1
            <4>4. CASE now' = now + 1 BY <1>2, <4>2, <4>3, <4>4
            <4>5. CASE now' = now /\ (~stamped' => ~stamped) BY <4>3, <4>5
            <4>6. (stamped' = stamped \/ stamped' = TRUE) => (~stamped' => ~stamped) BY Zenon
            <4> QED BY <4>4, <4>5, <4>6
        <3> QED BY <3>2 DEF ReadsArePast
    <2>4. CASE remote'.revision = now /\ stamped' = TRUE
        <3>1. Snapshot'.revision = now BY <2>4 DEF Snapshot
        <3>2. ASSUME NEW s \in Reads', s # None PROVE s.revision <= now'
            <4>1. CASE s = Snapshot' BY <1>2, <3>1, <4>1
            <4>2. CASE s \in Reads
                <5>1. s.revision \in Nat BY <2>2, <3>2, <4>2, CoordinatorConstants DEF Snapshots
                <5> QED BY <1>2, <2>1, <3>2, <4>2, <5>1
            <4> QED BY <1>1, <3>2, <4>1, <4>2
        <3> QED BY <2>4, <3>2 DEF ReadsArePast
    <2> QED BY <2>3, <2>4
<1>4. Carried' BY DEF Base, Carried
<1>5. poll' \in Snapshots \cup {None} BY DEF Base, TypeOK
<1>6. /\ IsLedger(ledger') /\ row' \in Entity /\ observed' \in Snapshots
      /\ sent' \in [OpIds -> Nat] /\ refused' \in [OpIds -> Nat] /\ acked' \subseteq OpIds
    BY DEF Base, TypeOK
<1>7. TypeOK'
    BY <1>2, <1>5, <1>6, Zenon DEF TypeOK, Ways
<1>8. Base' BY <1>3, <1>4, <1>7 DEF Base
<1>9. LedgerStep BY SameNarrows
<1>10. Foot BY <1>1, <1>9 DEF Foot
<1> QED BY <1>8, <1>10

\* What the steps outside the daemon start from.
LEMMA OutsideFacts ==
    ASSUME Base
    PROVE  /\ driver \in [Slots -> Doing] /\ \A d \in Slots : Carries(driver[d], ledger.next_id)
           /\ wire \subseteq Writes /\ \A w \in wire : w.id < ledger.next_id /\ w.id \in OpIds
           /\ remote \in [value : Entity, revision : 0 .. MaxTime, executed : SUBSET OpIds]
           /\ now \in 0 .. MaxTime /\ now \in Nat /\ booted \in BOOLEAN
           /\ left \in [Ways -> Nat] /\ OneWaits /\ LP!IInv /\ None \notin Slots
<1>1. ASSUME NEW w \in wire PROVE w.id < ledger.next_id /\ w.id \in OpIds
    <2>1. w.id < ledger.next_id /\ w.id \in Nat /\ ledger.next_id \in Nat /\ ledger.next_id <= MaxOps
        BY DEF Base, TypeOK, Carried, Writes, IsLedger
    <2> QED BY <2>1, CoordinatorConstants DEF OpIds
<1> QED BY <1>1, CoordinatorConstants DEF Base, TypeOK, Carried, Ways, Slots

\* The provider executes a write.
LEMMA LandStep ==
    ASSUME Base, NEW w \in wire, Land(w)
    PROVE  Base' /\ Foot /\ Simulates
<1>1. /\ driver \in [Slots -> Doing] /\ \A d \in Slots : Carries(driver[d], ledger.next_id)
      /\ wire \subseteq Writes /\ \A x \in wire : x.id < ledger.next_id /\ x.id \in OpIds
      /\ remote \in [value : Entity, revision : 0 .. MaxTime, executed : SUBSET OpIds]
      /\ now \in 0 .. MaxTime /\ now \in Nat /\ booted \in BOOLEAN
      /\ left \in [Ways -> Nat] /\ OneWaits /\ LP!IInv /\ None \notin Slots
    BY OutsideFacts
<1>2. /\ UNCHANGED <<ledger, row, observed, sent, refused, acked, driver, poll, booted, left>>
      /\ now' = now
    BY DEF Land, durable, history, NoStamp, Stamp
<1>3. LP!IInv' /\ Simulates BY <1>1, <1>2, LedgerKeeps DEF Simulates
<1>4. PICK v : v = [w EXCEPT !.landed = TRUE] OBVIOUS
<1>5. v \in Writes /\ v.id = w.id /\ v.driver = w.driver BY <1>1, <1>4 DEF Writes
<1>6. wire' = wire \ {w} \/ wire' = (wire \ {w}) \cup {v}
    BY <1>4 DEF Land
<1>7. PICK value : value = (remote.value[w.field] \cup w.add) \ w.del OBVIOUS
<1>8. w.field \in Fields /\ value \in Values
    BY <1>1, <1>7, CoordinatorConstants DEF Writes, Entity
<1>9. \/ /\ remote' = [remote EXCEPT !.executed = remote.executed \cup {w.id}]
         /\ now' = now /\ stamped' = stamped
      \/ /\ remote' = [value    |-> [remote.value EXCEPT ![w.field] = value],
                       revision |-> now,
                       executed |-> remote.executed \cup {w.id}]
         /\ now' = now /\ stamped' = TRUE
    BY <1>7 DEF Land, NoStamp, Stamp
<1>10. /\ remote' \in [value : Entity, revision : 0 .. MaxTime, executed : SUBSET OpIds]
       /\ remote.executed \subseteq remote'.executed /\ w.id \in remote'.executed
    BY <1>1, <1>8, <1>9 DEF Entity
<1>11. wire' \subseteq Writes /\ \A x \in wire' : x.id < ledger.next_id
    BY <1>1, <1>5, <1>6
<1>12. \A x \in wire' : x.landed => \/ x.id \in remote'.executed
                                    \/ \E y \in wire : y.landed /\ y.id = x.id
    BY <1>5, <1>6, <1>10
<1>13. OneWaits'
    BY <1>1, <1>2, <1>5, <1>6 DEF OneWaits
<1>14. remote'.revision = remote.revision \/ (remote'.revision = now /\ stamped' = TRUE)
    BY <1>1, <1>9
<1>15. now' = now /\ (stamped' = stamped \/ stamped' = TRUE)
    BY <1>9
<1>16. /\ now <= now' /\ now' \in 0 .. MaxTime /\ booted' \in BOOLEAN /\ left' \in [Ways -> Nat]
       /\ driver' \in [Slots -> Doing]
       /\ \A d \in Slots : Carries(driver'[d], ledger.next_id)
       /\ \A d \in Slots : driver'[d].fetched \in {None, driver[d].fetched}
       /\ poll' \in {poll, None}
    BY <1>1, <1>2
<1>17. Base' /\ Foot
    BY <1>2, <1>3, <1>10, <1>11, <1>12, <1>13, <1>14, <1>15, <1>16, OutsideStep
<1> QED BY <1>3, <1>17

\* A write nobody waits for is lost, somebody edits the entity, or time passes.
LEMMA WorldStep ==
    ASSUME Base, \/ \E w \in wire : Lose(w)
                 \/ \E f \in Fields, v \in Values : Edit(f, v)
                 \/ Tick
    PROVE  Base' /\ Foot /\ Simulates
<1>1. /\ driver \in [Slots -> Doing] /\ \A d \in Slots : Carries(driver[d], ledger.next_id)
      /\ wire \subseteq Writes /\ \A x \in wire : x.id < ledger.next_id /\ x.id \in OpIds
      /\ remote \in [value : Entity, revision : 0 .. MaxTime, executed : SUBSET OpIds]
      /\ now \in 0 .. MaxTime /\ now \in Nat /\ booted \in BOOLEAN
      /\ left \in [Ways -> Nat] /\ OneWaits /\ LP!IInv /\ None \notin Slots
    BY OutsideFacts
<1>2. UNCHANGED <<ledger, row, observed, sent, refused, acked, driver, poll, booted>>
    BY DEF Lose, Edit, Tick, durable, history
<1>3. wire' \subseteq wire
    BY DEF Lose, Edit, Tick
<1>4. /\ wire' \subseteq Writes /\ \A x \in wire' : x.id < ledger.next_id
      /\ \A x \in wire' : x.landed => \/ x.id \in remote'.executed
                                      \/ \E y \in wire : y.landed /\ y.id = x.id
      /\ OneWaits'
    BY <1>1, <1>2, <1>3 DEF OneWaits
<1>5. \/ now' = now /\ (stamped' = stamped \/ stamped' = TRUE)
      \/ now' = now + 1 /\ stamped' \in BOOLEAN /\ now < MaxTime
    <2>1. ASSUME NEW w \in wire, Lose(w) PROVE now' = now /\ stamped' = stamped
        BY <2>1 DEF Lose, NoStamp
    <2>2. ASSUME NEW f \in Fields, NEW v \in Values, Edit(f, v) PROVE now' = now /\ stamped' = TRUE
        BY <2>2 DEF Edit, Stamp
    <2>3. ASSUME Tick PROVE now' = now + 1 /\ stamped' \in BOOLEAN /\ now < MaxTime
        BY <2>3 DEF Tick
    <2> QED BY <2>1, <2>2, <2>3
<1>6. LP!IInv' /\ Simulates
    <2>1. CASE now' = now
        BY <1>1, <1>2, <2>1, LedgerKeeps DEF Simulates
    <2>2. CASE now' = now + 1 /\ now < MaxTime
        <3>1. LP!Next /\ Ledger!Next BY <1>2, <2>2, TickSimulated
        <3> QED BY <1>1, <3>1, LedgerKeeps DEF Simulates
    <2> QED BY <1>5, <2>1, <2>2
<1>7. /\ remote' \in [value : Entity, revision : 0 .. MaxTime, executed : SUBSET OpIds]
      /\ remote.executed \subseteq remote'.executed
      /\ remote'.revision = remote.revision \/ (remote'.revision = now /\ stamped' = TRUE)
    <2>1. CASE remote' = remote BY <1>1, <2>1
    <2>2. ASSUME NEW f \in Fields, NEW v \in Values, Edit(f, v)
          PROVE  /\ remote' \in [value : Entity, revision : 0 .. MaxTime, executed : SUBSET OpIds]
                 /\ remote.executed \subseteq remote'.executed
                 /\ remote'.revision = now /\ stamped' = TRUE
        <3>1. remote' = [value |-> [remote.value EXCEPT ![f] = v], revision |-> now,
                         executed |-> remote.executed]
            BY <1>1, <2>2 DEF Edit
        <3>2. stamped' = TRUE BY <2>2 DEF Edit, Stamp
        <3> QED BY <1>1, <3>1, <3>2 DEF Entity
    <2> QED BY <2>1, <2>2 DEF Lose, Tick
<1>8. left' \in [Ways -> Nat]
    <2>1. ASSUME NEW f \in Fields, NEW v \in Values, Edit(f, v) PROVE left' \in [Ways -> Nat]
        BY <1>1, <2>1, ChargeFacts DEF Edit
    <2> QED BY <1>1, <2>1 DEF Lose, Tick
<1>9.  /\ now <= now' /\ now' \in 0 .. MaxTime /\ booted' \in BOOLEAN
       /\ driver' \in [Slots -> Doing]
       /\ \A d \in Slots : Carries(driver'[d], ledger.next_id)
       /\ \A d \in Slots : driver'[d].fetched \in {None, driver[d].fetched}
       /\ poll' \in {poll, None}
    BY <1>1, <1>2, <1>5, CoordinatorConstants
<1>10. Base' /\ Foot
    BY <1>2, <1>4, <1>5, <1>6, <1>7, <1>8, <1>9, OutsideStep
<1> QED BY <1>6, <1>10

\* The daemon dies.
LEMMA CrashStep ==
    ASSUME Base, Crash
    PROVE  Base' /\ Foot /\ Simulates
<1>1. /\ driver \in [Slots -> Doing]
      /\ wire \subseteq Writes /\ \A x \in wire : x.id < ledger.next_id /\ x.id \in OpIds
      /\ remote \in [value : Entity, revision : 0 .. MaxTime, executed : SUBSET OpIds]
      /\ now \in 0 .. MaxTime /\ now \in Nat
      /\ left \in [Ways -> Nat] /\ LP!IInv /\ None \notin Slots
    BY OutsideFacts
<1>2. /\ UNCHANGED <<ledger, row, observed, sent, refused, acked, remote, now, stamped>>
      /\ poll' = None /\ booted' = FALSE
    BY DEF Crash, durable, history, NoStamp
<1>3. LP!IInv' /\ Simulates BY <1>1, <1>2, LedgerKeeps DEF Simulates
<1>4. left' \in [Ways -> Nat] BY <1>1, ChargeFacts DEF Crash
<1>5. ASSUME NEW d \in Slots
      PROVE  /\ driver'[d] \in Doing /\ driver'[d].pc \in {"idle", "boot"}
             /\ driver'[d].queue = << >> /\ driver'[d].fetched = None
    <2>1. PICK n : n = driver'[d] OBVIOUS
    <2>2. n = Idle \/ n = [Idle EXCEPT !.pc = "boot"]
        BY <2>1 DEF Crash
    <2>3. n \in Doing /\ n.pc \in {"idle", "boot"} /\ n.queue = << >> /\ n.fetched = None
        <3>1. << >> \in Seq(Effects) OBVIOUS
        <3>2. CASE n = Idle BY <3>1, <3>2 DEF Idle, Doing
        <3>3. CASE n = [Idle EXCEPT !.pc = "boot"] BY <3>1, <3>3 DEF Idle, Doing
        <3> QED BY <2>2, <3>2, <3>3
    <2> QED BY <2>1, <2>3
<1>6. driver' \in [Slots -> Doing]
    <2>1. driver' = [d \in Slots |-> driver'[d]] BY DEF Crash
    <2> QED BY <1>5, <2>1
<1>7. \A d \in Slots : Carries(driver'[d], ledger.next_id)
    BY <1>5 DEF Carries
<1>8. ASSUME NEW x \in wire'
      PROVE  /\ x \in Writes /\ x.driver = None /\ x.id < ledger.next_id
             /\ \E y \in wire : y.landed = x.landed /\ y.id = x.id
    <2>1. PICK y \in wire : x = [y EXCEPT !.driver = None] BY DEF Crash
    <2>2. y \in Writes BY <1>1
    <2>3. x \in Writes /\ x.driver = None /\ x.id = y.id /\ x.landed = y.landed
        BY <2>1, <2>2 DEF Writes
    <2> QED BY <1>1, <2>3
<1>9. OneWaits' BY <1>1, <1>8 DEF OneWaits
<1>a. now <= now' /\ now' \in 0 .. MaxTime
    BY <1>1, <1>2
<1>c. booted' \in BOOLEAN BY <1>2, Zenon
<1>b. wire' \subseteq Writes /\ \A x \in wire' : x.id < ledger.next_id
    BY <1>8
<1>10. /\ \A d \in Slots : driver'[d].fetched \in {None, driver[d].fetched}
       /\ remote' \in [value : Entity, revision : 0 .. MaxTime, executed : SUBSET OpIds]
       /\ remote.executed \subseteq remote'.executed /\ remote'.revision = remote.revision
    BY <1>1, <1>2, <1>5
<1>11. \A w \in wire' : w.landed => \/ w.id \in remote'.executed
                                    \/ \E x \in wire : x.landed /\ x.id = w.id
    BY <1>8, Zenon
<1>12. Base' /\ Foot
    BY <1>2, <1>3, <1>4, <1>6, <1>7, <1>9, <1>a, <1>b, <1>c, <1>10, <1>11, OutsideStep
<1> QED BY <1>3, <1>12

\* Every step of the coordinator keeps the basic invariant, does to what is
\* known of writes what Foot says, and is a step of the ledger or none.
LEMMA StepBase ==
    ASSUME Base, Next
    PROVE  Base' /\ Foot /\ Simulates
<1>0. Drivers \subseteq Slots /\ Boot \in Slots BY DEF Slots
<1>1. ASSUME NEW d \in Drivers, NEW f \in Fields, NEW v \in Values, Request(d, f, v)
      PROVE  Base' /\ Foot /\ Simulates
    <2>1. /\ driver[d].pc # "wire" /\ Accepting(f) /\ Stamp
          /\ Transition(d, on_requested(ledger, Primary, f, v, now, row), {})
          /\ UNCHANGED <<wire, remote, poll, booted, history>>
        BY <1>1 DEF Request
    <2> QED BY <1>0, <2>1, RequestStep
<1>2. ASSUME NEW d \in Drivers, NEW f \in Fields, NEW v \in Values, AddRead(d, f, v)
      PROVE  Base' /\ Foot /\ Simulates
    BY <1>0, <1>2, AddReadStep
<1>3. ASSUME NEW d \in Drivers, AddRequest(d)
      PROVE  Base' /\ Foot /\ Simulates
    BY <1>0, <1>3, AddRequestStep
<1>4. ASSUME NEW d \in Drivers, NEW fields \in SUBSET Fields, Cancel(d, fields)
      PROVE  Base' /\ Foot /\ Simulates
    BY <1>0, <1>4, CancelStep
<1>5. ASSUME NEW d \in Slots, Drive(d)
      PROVE  Base' /\ Foot /\ Simulates
    BY <1>5, FinishStep, LoadStep, DispatchStep, FetchStep, ReconcileIngestStep DEF Drive
<1>6. ASSUME NEW d \in Slots, SendUnbuilt(d) \/ ReconcileFails(d)
      PROVE  Base' /\ Foot /\ Simulates
    BY <1>6, UnbuiltStep, FetchStep
<1>7. ASSUME NEW d \in Slots, Verdict(d)
      PROVE  Base' /\ Foot /\ Simulates
    BY <1>7, AckedStep, RefusedStep, TimeoutStep DEF Verdict
<1>8. ASSUME NEW w \in wire, Land(w)
      PROVE  Base' /\ Foot /\ Simulates
    BY <1>8, LandStep
<1>9. ASSUME PollFetch \/ PollIngest
      PROVE  Base' /\ Foot /\ Simulates
    BY <1>9, PollStep
<1>10. ASSUME \/ \E w \in wire : Lose(w)
              \/ \E f \in Fields, v \in Values : Edit(f, v)
              \/ Tick
      PROVE  Base' /\ Foot /\ Simulates
    BY <1>10, WorldStep
<1>11. ASSUME Crash PROVE Base' /\ Foot /\ Simulates BY <1>11, CrashStep
<1>12. ASSUME Recover PROVE Base' /\ Foot /\ Simulates BY <1>12, RecoverStep
<1> QED BY <1>1, <1>2, <1>3, <1>4, <1>5, <1>6, <1>7, <1>8, <1>9, <1>10, <1>11, <1>12
        DEF Next

-----------------------------------------------------------------------------
\* Initially.
LEMMA InitBase ==
    ASSUME Init
    PROVE  /\ Base /\ DoneIsDone /\ NewReadsSaw /\ Ledger!Init
<1>1. /\ ledger = EmptyLedger /\ row \in Entity /\ wire = {} /\ poll = None /\ acked = {}
      /\ remote = [value |-> row, revision |-> 0, executed |-> {}]
      /\ now = 0 /\ observed = Snapshot
      /\ sent = [i \in OpIds |-> 0] /\ refused = [i \in OpIds |-> 0]
      /\ driver = [d \in Slots |-> Idle]
    BY DEF Init
<1>2. booted \in BOOLEAN /\ stamped \in BOOLEAN /\ stamped
    BY Zenon DEF Init
<1>3. DOMAIN ledger.pending = {} /\ ledger.next_id = 0 /\ IsLedger(ledger)
    BY <1>1 DEF EmptyLedger, IsLedger
<1>4. /\ observed.value = row /\ observed.revision = 0 /\ observed.saw = {}
      /\ observed \in Snapshots
    BY <1>1, CoordinatorConstants DEF Snapshot, Snapshots
<1>5. PICK n : n = Idle OBVIOUS
<1>6. /\ n \in Doing /\ n.pc = "idle" /\ n.queue = << >> /\ n.fetched = None
    BY <1>5 DEF Idle, Doing
<1>7. driver = [d \in Slots |-> n] BY <1>1, <1>5
<1>8. TypeOK
    <2>1. remote \in [value : Entity, revision : 0 .. MaxTime, executed : SUBSET OpIds]
        BY <1>1, CoordinatorConstants
    <2>2. driver \in [Slots -> Doing] BY <1>6, <1>7
    <2>3. left \in [Ways -> Nat]
        BY CoordinatorConstants DEF Init, Ways
    <2>4. /\ sent \in [OpIds -> Nat] /\ refused \in [OpIds -> Nat] /\ acked \subseteq OpIds
          /\ wire \subseteq Writes /\ now \in 0 .. MaxTime /\ poll \in Snapshots \cup {None}
          /\ row \in Entity
        BY <1>1, CoordinatorConstants
    <2> QED BY <1>2, <1>3, <1>4, <2>1, <2>2, <2>3, <2>4, Zenon DEF TypeOK, Ways
<1>9. Carried
    BY <1>1, <1>3, <1>6, <1>7, CoordinatorConstants DEF Carried, Carries
<1>10. OneWaits BY <1>1 DEF OneWaits
<1>11. ReadsArePast
    <2>1. \A s \in Reads : s = None \/ s.revision = 0
        BY <1>1, <1>6, <1>7 DEF Reads, Snapshot
    <2> QED BY <1>1, <1>2, <2>1 DEF ReadsArePast
<1>12. DoneIsDone /\ NewReadsSaw
    BY <1>1, <1>3 DEF DoneIsDone, NewReadsSaw
<1>13. LP!Init /\ Ledger!Init
    BY <1>1, <1>4 DEF LP!Init, Ledger!Init, EmptyLedger, LP!EmptyLedger, Ledger!EmptyLedger,
                      Entity, LP!Entity, Ledger!Entity
<1>14. LP!IInv
    BY <1>13, LP!InitSound, CoordinatorConstants, ReducerConstants DEF LP!IInv, LP!Init
<1> QED BY <1>8, <1>9, <1>10, <1>11, <1>12, <1>13, <1>14 DEF Base

-----------------------------------------------------------------------------
\* Reads are snapshots.
LEMMA ReadFacts ==
    ASSUME Base, NEW s \in Reads, s # None
    PROVE  s \in Snapshots /\ s.revision \in Nat
<1>1. Snapshot \in Snapshots BY DEF Base, TypeOK, Snapshot, Snapshots
<1>2. \A d \in Slots : driver[d].fetched \in Snapshots \cup {None}
    BY DEF Base, TypeOK, Doing
<1>3. s \in Snapshots BY <1>1, <1>2 DEF Base, TypeOK, Reads
<1> QED BY <1>3, CoordinatorConstants DEF Snapshots

\* An acknowledgement is never made up, and every read as new as one saw it.
LEMMA StepDone ==
    ASSUME Base, Base', Foot, WholeWrites, DoneIsDone, NewReadsSaw
    PROVE  DoneIsDone' /\ NewReadsSaw'
<1>1. \A w \in wire' : w.landed => w.id \in remote'.executed
    BY DEF Foot, DoneIsDone
<1>2. acked \subseteq acked' /\ acked' \subseteq remote'.executed
    BY DEF Foot, LedgerStep, DoneIsDone
<1>3. now \in Nat /\ now' \in Nat /\ now <= now' /\ MaxTime \in Nat /\ SettleDeadline \in Nat
    BY CoordinatorConstants, ReducerConstants DEF Base, TypeOK, Foot
<1>4. /\ IsLedger(ledger) /\ IsLedger(ledger')
    BY DEF Base, TypeOK
<1>5. Snapshot'.saw = remote'.executed BY DEF Snapshot
<1>6. Reads' \subseteq Reads \cup {None, Snapshot'} BY DEF Foot
\* An operation whose acknowledgement is as old as it was stays seen.
<1>7. ASSUME NEW i \in DOMAIN ledger'.pending, i \in DOMAIN ledger.pending,
             ledger'.pending[i].issued_at = ledger.pending[i].issued_at,
             \/ ledger'.pending[i].phase # "Acked"
             \/ /\ ledger'.pending[i].phase = ledger.pending[i].phase
                /\ ledger'.pending[i].at = ledger.pending[i].at
      PROVE  /\ ledger'.pending[i].issued_at + SettleDeadline < MaxTime
             /\ ledger'.pending[i].phase = "Acked" =>
                   /\ i \in acked'
                   /\ ledger'.pending[i].at <= now'
                   /\ ledger'.pending[i].at < MaxTime =>
                         \A s \in Reads' \ {None} :
                            s.revision >= ledger'.pending[i].at => i \in s.saw
    <2>1. ledger'.pending[i].issued_at + SettleDeadline < MaxTime
        BY <1>7 DEF NewReadsSaw
    <2>2. CASE ledger'.pending[i].phase # "Acked" BY <2>1, <2>2
    <2>3. CASE ledger.pending[i].phase = "Acked" /\ ledger'.pending[i].at = ledger.pending[i].at
        <3>1. i \in acked /\ ledger.pending[i].at <= now
            BY <1>7, <2>3 DEF DoneIsDone, NewReadsSaw
        <3>2. ledger.pending[i].at \in Nat BY <1>4, <1>7 DEF IsLedger, PendingMutation
        <3>3. ASSUME NEW s \in Reads', s # None, ledger.pending[i].at < MaxTime,
                     s.revision >= ledger.pending[i].at
              PROVE  i \in s.saw
            <4>1. CASE s = Snapshot' BY <1>2, <1>5, <3>1, <4>1
            <4>2. CASE s \in Reads
                BY <1>7, <2>3, <3>3, <4>2 DEF NewReadsSaw
            <4> QED BY <1>6, <3>3, <4>1, <4>2
        <3> QED BY <1>2, <1>3, <2>1, <2>3, <3>1, <3>2, <3>3
    <2> QED BY <1>7, <2>2, <2>3
<1>8. ASSUME NEW i \in DOMAIN ledger'.pending
      PROVE  /\ ledger'.pending[i].issued_at + SettleDeadline < MaxTime
             /\ ledger'.pending[i].phase = "Acked" =>
                   /\ i \in acked'
                   /\ ledger'.pending[i].at <= now'
                   /\ ledger'.pending[i].at < MaxTime =>
                         \A s \in Reads' \ {None} :
                            s.revision >= ledger'.pending[i].at => i \in s.saw
    <2>1. CASE Grows(ledger') /\ now + SettleDeadline < MaxTime
        <3>1. CASE i = ledger.next_id BY <2>1, <3>1 DEF Grows
        <3>2. CASE i # ledger.next_id
            <4>1. i \in DOMAIN ledger.pending /\ ledger'.pending[i] = ledger.pending[i]
                BY <2>1, <3>2 DEF Grows
            <4> QED BY <1>7, <4>1
        <3> QED BY <3>1, <3>2
    <2>2. ASSUME NEW S, Narrows(ledger', S),
                 i \in S => ledger'.pending[i].phase # "Acked"
          PROVE  /\ ledger'.pending[i].issued_at + SettleDeadline < MaxTime
                 /\ ledger'.pending[i].phase = "Acked" =>
                       /\ i \in acked'
                       /\ ledger'.pending[i].at <= now'
                       /\ ledger'.pending[i].at < MaxTime =>
                             \A s \in Reads' \ {None} :
                                s.revision >= ledger'.pending[i].at => i \in s.saw
        <3>1. /\ i \in DOMAIN ledger.pending
              /\ ledger'.pending[i].issued_at = ledger.pending[i].issued_at
              /\ \/ ledger'.pending[i].phase # "Acked"
                 \/ /\ ledger'.pending[i].phase = ledger.pending[i].phase
                    /\ ledger'.pending[i].at = ledger.pending[i].at
            BY <2>2 DEF Narrows
        <3> QED BY <1>7, <3>1
    <2>3. ASSUME NEW w \in wire, w.landed, acked' = acked \cup {w.id},
                 ~stamped \/ now = MaxTime, i = w.id,
                 Narrows(ledger', {w.id}), ledger'.pending[i].at = now
          PROVE  /\ ledger'.pending[i].issued_at + SettleDeadline < MaxTime
                 /\ ledger'.pending[i].phase = "Acked" =>
                       /\ i \in acked'
                       /\ ledger'.pending[i].at <= now'
                       /\ ledger'.pending[i].at < MaxTime =>
                             \A s \in Reads' \ {None} :
                                s.revision >= ledger'.pending[i].at => i \in s.saw
        <3>1. /\ i \in DOMAIN ledger.pending
              /\ ledger'.pending[i].issued_at = ledger.pending[i].issued_at
            BY <2>3 DEF Narrows
        <3>2. ledger'.pending[i].issued_at + SettleDeadline < MaxTime
            BY <3>1 DEF NewReadsSaw
        <3>3. ASSUME NEW s \in Reads', s # None, now < MaxTime, s.revision >= now
              PROVE  i \in s.saw
            <4>1. CASE s = Snapshot' BY <1>2, <1>5, <2>3, <4>1
            <4>2. CASE s \in Reads
                <5>1. ~stamped BY <1>3, <2>3, <3>3
                <5>2. s.revision < now BY <3>3, <4>2, <5>1 DEF Base, ReadsArePast
                <5>3. s.revision \in Nat BY <3>3, <4>2, ReadFacts
                <5> QED BY <1>3, <3>3, <5>2, <5>3
            <4> QED BY <1>6, <3>3, <4>1, <4>2
        <3> QED BY <1>3, <2>3, <3>2, <3>3
    <2> QED BY <2>1, <2>2, <2>3 DEF Foot, LedgerStep
<1>9. DoneIsDone' BY <1>1, <1>2, <1>8 DEF DoneIsDone
<1>10. NewReadsSaw' BY <1>8 DEF NewReadsSaw
<1> QED BY <1>9, <1>10

-----------------------------------------------------------------------------
\* Where nothing but refusals, crashes and edits goes wrong every outcome is
\* stored.
LEMMA StoreWorks ==
    ASSUME Base, WorksOn, NEW d, NEW o, NEW ways, Transition(d, o, ways)
    PROVE  ledger' = o.ledger /\ Continue(d, o.effects)
<1>1. CASE CommitFails(ways)
    <2>1. left["store"] > 0 BY <1>1 DEF CommitFails, Charge
    <2> QED BY <2>1 DEF WorksOn
<1> QED BY <1>1 DEF Transition, Commits

\* The bounds on what goes wrong never grow.
LEMMA BoundsShrink ==
    ASSUME Base, Next
    PROVE  left' = left \/ \E ways : Charge(ways)
<1>1. ASSUME NEW d, NEW o, NEW ways, Transition(d, o, ways) PROVE \E x : Charge(x)
    BY <1>1 DEF Transition, Commits, CommitFails
<1>2. ASSUME NEW s, Ingest(s) PROVE \E x : Charge(x)
    BY <1>2 DEF Ingest, Commits, CommitFails
<1>3. ASSUME NEW d, NEW f, NEW v, Request(d, f, v) \/ AddRead(d, f, v) PROVE \E x : Charge(x)
    BY <1>1, <1>3 DEF Request, AddRead
<1>4. ASSUME NEW d, NEW fields, AddRequest(d) \/ Cancel(d, fields) PROVE \E x : Charge(x)
    BY <1>1, <1>4 DEF AddRequest, Cancel
<1>5. ASSUME NEW d, Drive(d) PROVE left' = left \/ \E x : Charge(x)
    <2>1. CASE Finish(d) BY <2>1 DEF Finish
    <2>2. CASE Report(d) BY <2>2 DEF Report
    <2>3. CASE SendLoad(d) BY <2>3 DEF SendLoad
    <2>4. CASE SendDispatch(d)
        <3>1. \E x : Charge(x) BY <2>4 DEF SendDispatch, Commits, CommitFails
        <3> QED BY <3>1
    <2>5. CASE ReconcileLoad(d) BY <2>5 DEF ReconcileLoad
    <2>6. CASE ReconcileFetch(d) BY <2>6 DEF ReconcileFetch
    <2>7. CASE ReconcileIngest(d)
        <3>1. Ingest(driver[d].fetched) BY <2>7 DEF ReconcileIngest
        <3> QED BY <1>2, <3>1
    <2> QED BY <1>5, <2>1, <2>2, <2>3, <2>4, <2>5, <2>6, <2>7 DEF Drive
<1>6. ASSUME NEW d, SendUnbuilt(d) \/ Verdict(d) \/ ReconcileFails(d) PROVE \E x : Charge(x)
    BY <1>1, <1>6 DEF SendUnbuilt, Verdict, ReconcileFails, SendAcked, SendRefused, SendTimeout
<1>7. ASSUME NEW w, Land(w) \/ Lose(w) PROVE left' = left
    BY <1>7 DEF Land, Lose
<1>8. ASSUME PollIngest PROVE \E x : Charge(x)
    BY <1>2, <1>8 DEF PollIngest
<1>9. ASSUME NEW f, NEW v, Edit(f, v) PROVE \E x : Charge(x)
    BY <1>9 DEF Edit
<1>10. ASSUME Recover PROVE \E x : Charge(x)
    BY <1>10 DEF Recover, Commits, CommitFails
<1>11. ASSUME Crash PROVE \E x : Charge(x)
    BY <1>11 DEF Crash
<1>12. ASSUME PollFetch \/ Tick PROVE left' = left
    BY <1>12 DEF PollFetch, Tick
<1> QED BY <1>3, <1>4, <1>5, <1>6, <1>7, <1>8, <1>9, <1>10, <1>11, <1>12 DEF Next

\* So what could not go wrong still cannot.
LEMMA StillWorks ==
    ASSUME Base, WorksOn, Next
    PROVE  WorksOn'
<1>1. left \in [Ways -> Nat] BY DEF Base, TypeOK, Ways
<1>2. CASE left' = left BY <1>2 DEF WorksOn
<1>3. ASSUME NEW ways, Charge(ways) PROVE WorksOn'
    <2>1. /\ left' \in [Ways -> Nat] /\ \A w \in Ways : left'[w] <= left[w]
        BY <1>1, <1>3, ChargeFacts
    <2>2. /\ "store" \in Ways /\ "timeout" \in Ways BY DEF Ways
    <2> QED BY <2>1, <2>2 DEF WorksOn
<1> QED BY <1>2, <1>3, BoundsShrink

\* A driver that goes on holds what is in its queue: what was, and the effects.
LEMMA ContinueHolds ==
    ASSUME Base, NEW d \in Slots, NEW E, E \subseteq Effects, Continue(d, E),
           Once(driver[d]),
           \A e \in E : e.kind \in {"Send", "Retry"} =>
                           e.id \in OpIds /\ ~Queues(driver[d], e.id)
    PROVE  \E n \in Doing :
              /\ Turn(d, n) /\ n.pc = "run" /\ Once(n)
              /\ \A i : Holds(n, i) => Queues(driver[d], i) \/ \E e \in E : Sends(e, i)
<1>1. driver \in [Slots -> Doing] BY SlotFacts
<1>2. PICK n \in Doing, s \in InOrder(E) :
        /\ driver' = [driver EXCEPT ![d] = n]
        /\ n.pc = "run" /\ n.fetched = None /\ n.queue = driver[d].queue \o s
    BY <1>1, ContinueFacts
<1>3. PICK q : q = driver[d].queue OBVIOUS
<1>4. q \in Seq(Effects) /\ Len(q) \in Nat BY <1>1, <1>3 DEF Doing
<1>5. /\ s \in Seq(Effects) /\ \A k \in DOMAIN s : s[k] \in E
      /\ \A j, k \in DOMAIN s : j # k => s[j].id # s[k].id
    BY InOrderFacts
<1>6. PICK r : r = q \o s OBVIOUS
<1>7. r \in Seq(Effects) /\ DOMAIN r \subseteq Nat
    BY <1>4, <1>5, <1>6, QueueFacts
<1>8. \A k \in DOMAIN r : \/ k \in DOMAIN q /\ r[k] = q[k]
                          \/ k - Len(q) \in DOMAIN s /\ r[k] = s[k - Len(q)] /\ r[k] \in E
    BY <1>4, <1>5, <1>6, QueueFacts
<1>9. \A i : Queues(n, i) => Queues(driver[d], i) \/ \E e \in E : Sends(e, i)
    BY <1>2, <1>3, <1>6, <1>8 DEF Queues
<1>10. ASSUME NEW j \in DOMAIN r, NEW k \in DOMAIN r, NEW i \in OpIds,
              Sends(r[j], i), Sends(r[k], i)
       PROVE  j = k
    <2>1. CASE j \in DOMAIN q /\ r[j] = q[j] /\ k \in DOMAIN q /\ r[k] = q[k]
        BY <1>3, <1>10, <2>1 DEF Once
    <2>2. ASSUME NEW x \in DOMAIN q, Sends(q[x], i), NEW e \in E, Sends(e, i) PROVE FALSE
        <3>1. Queues(driver[d], i) BY <1>3, <2>2 DEF Queues
        <3> QED BY <2>2, <3>1 DEF Sends
    <2>3. CASE /\ j - Len(q) \in DOMAIN s /\ r[j] = s[j - Len(q)]
               /\ k - Len(q) \in DOMAIN s /\ r[k] = s[k - Len(q)]
        <3>1. s[j - Len(q)].id = s[k - Len(q)].id BY <1>10, <2>3 DEF Sends
        <3>2. j - Len(q) = k - Len(q) BY <1>5, <2>3, <3>1
        <3> QED BY <1>4, <1>7, <3>2
    <2>4. \/ j \in DOMAIN q /\ r[j] = q[j]
          \/ j - Len(q) \in DOMAIN s /\ r[j] = s[j - Len(q)] /\ r[j] \in E
        BY <1>8
    <2>5. \/ k \in DOMAIN q /\ r[k] = q[k]
          \/ k - Len(q) \in DOMAIN s /\ r[k] = s[k - Len(q)] /\ r[k] \in E
        BY <1>8
    <2> QED BY <1>10, <2>1, <2>2, <2>3, <2>4, <2>5
<1>11. Once(n) BY <1>2, <1>3, <1>6, <1>10 DEF Once
<1>12. \A i : Holds(n, i) => Queues(n, i) BY <1>2 DEF Holds, Plans
<1> QED BY <1>2, <1>9, <1>11, <1>12 DEF Turn

-----------------------------------------------------------------------------
\* A driver that takes on only what nobody holds keeps every operation in one
\* hand; and no client's driver moves before recovery is through.
LEMMA TurnHolds ==
    ASSUME Base, InHand, NEW d \in Slots, NEW n \in Doing, Turn(d, n),
           n.pc # "boot", booted \/ d = Boot, ~booted' => ~booted, booted' = booted \/ d = Boot,
           Once(n),
           \A i \in OpIds : Holds(n, i) => \/ Holds(driver[d], i)
                                           \/ \A e \in Slots : ~Holds(driver[e], i)
    PROVE  BootsAlone' /\ OneHolds'
<1>1. driver \in [Slots -> Doing] BY SlotFacts
<1>2. driver'[d] = n /\ \A e \in Slots : e # d => driver'[e] = driver[e]
    BY <1>1 DEF Turn
<1>3. BootsAlone /\ OneHolds BY DEF InHand
<1>4. ASSUME NEW a \in Slots, NEW b \in Slots, NEW i \in OpIds,
             Holds(driver'[a], i), Holds(driver'[b], i)
      PROVE  a = b
    <2>1. CASE a # d /\ b # d
        BY <1>2, <1>3, <1>4, <2>1 DEF OneHolds
    <2>2. CASE a = d /\ b # d
        <3>1. Holds(n, i) /\ Holds(driver[b], i) BY <1>2, <1>4, <2>2
        <3>2. Holds(driver[d], i) BY <3>1
        <3> QED BY <1>3, <2>2, <3>1, <3>2 DEF OneHolds
    <2>3. CASE a # d /\ b = d
        <3>1. Holds(n, i) /\ Holds(driver[a], i) BY <1>2, <1>4, <2>3
        <3>2. Holds(driver[d], i) BY <3>1
        <3> QED BY <1>3, <2>3, <3>1, <3>2 DEF OneHolds
    <2> QED BY <2>1, <2>2, <2>3
<1>5. OneHolds' BY <1>2, <1>3, <1>4 DEF OneHolds
<1>6. Boot \in Slots /\ Boot \notin Drivers /\ Drivers \subseteq Slots
    BY CoordinatorConstants DEF Slots
<1>7. ~booted' => \A e \in Drivers : driver'[e] = Idle
    BY <1>2, <1>3, <1>6 DEF BootsAlone
<1>8. driver'[Boot].pc = "boot" => ~booted' /\ driver'[Boot].queue = << >>
    <2>1. CASE d = Boot BY <1>2, <2>1
    <2>2. CASE d # Boot
        <3>1. driver'[Boot] = driver[Boot] BY <1>2, <1>6, <2>2
        <3>2. booted' = booted BY <2>2
        <3>3. driver[Boot].pc = "boot" => ~booted /\ driver[Boot].queue = << >>
            BY <1>3 DEF BootsAlone
        <3> QED BY <3>1, <3>2, <3>3, Zenon
    <2> QED BY <2>1, <2>2
<1> QED BY <1>5, <1>7, <1>8 DEF BootsAlone

\* A step that hands nothing over, and plans only what was refused as often as
\* it was handed over.
LEMMA TurnSent ==
    ASSUME Base, InHand, NEW d \in Slots, NEW n, Turn(d, n), IsLedger(ledger'),
           \A i \in DOMAIN ledger'.pending : i \in OpIds,
           sent' = sent, refused' \in [OpIds -> Nat], \A i \in OpIds : refused[i] <= refused'[i],
           \A i \in OpIds : Plans(n, i) => Plans(driver[d], i) \/ sent[i] <= refused'[i],
           \A i \in DOMAIN ledger'.pending :
              ledger'.pending[i].phase \in {"Accepted", "RetryScheduled"} =>
                 \/ sent[i] <= refused'[i]
                 \/ /\ i \in DOMAIN ledger.pending
                    /\ ledger.pending[i].phase \in {"Accepted", "RetryScheduled"},
           ledger.next_id <= ledger'.next_id
    PROVE  MayBeSent'
<1>1. /\ driver \in [Slots -> Doing] /\ sent \in [OpIds -> Nat] /\ refused \in [OpIds -> Nat]
      /\ ledger.next_id \in Nat /\ ledger'.next_id \in Nat /\ OpIds \subseteq Nat
    BY DEF Base, TypeOK, IsLedger, OpIds
<1>2. \A e \in Slots : driver'[e] = IF e = d THEN n ELSE driver[e]
    BY <1>1 DEF Turn
<1>3. /\ \A e \in Slots, i \in OpIds : Plans(driver[e], i) => sent[i] <= refused[i]
      /\ \A i \in DOMAIN ledger.pending :
            ledger.pending[i].phase \in {"Accepted", "RetryScheduled"} => sent[i] <= refused[i]
      /\ \A i \in OpIds : i >= ledger.next_id => sent[i] = 0
      /\ NeverReplayedBlind
    BY DEF InHand, MayBeSent
<1>4. ASSUME NEW i \in OpIds, sent[i] <= refused[i] PROVE sent[i] <= refused'[i]
    BY <1>1, <1>4
<1>5. \A e \in Slots, i \in OpIds : Plans(driver'[e], i) => sent'[i] <= refused'[i]
    <2> SUFFICES ASSUME NEW e \in Slots, NEW i \in OpIds, Plans(driver'[e], i)
                 PROVE  sent[i] <= refused'[i]
        OBVIOUS
    <2>1. CASE e = d BY <1>2, <1>3, <1>4, <2>1
    <2>2. CASE e # d BY <1>2, <1>3, <1>4, <2>2
    <2> QED BY <2>1, <2>2
<1>6. \A i \in DOMAIN ledger'.pending :
         ledger'.pending[i].phase \in {"Accepted", "RetryScheduled"} => sent'[i] <= refused'[i]
    BY <1>3, <1>4
<1>7. \A i \in OpIds : i >= ledger'.next_id => sent'[i] = 0
    BY <1>1, <1>3
<1>8. NeverReplayedBlind'
    BY <1>1, <1>3 DEF NeverReplayedBlind
<1> QED BY <1>5, <1>6, <1>7, <1>8 DEF MayBeSent

\* The operations in the ledger have identities a history is kept of.
LEMMA PendingIds ==
    /\ Base => \A i \in DOMAIN ledger.pending : i \in OpIds /\ i < ledger.next_id
    /\ Base' => \A i \in DOMAIN ledger'.pending : i \in OpIds /\ i < ledger'.next_id
<1>1. Base => \A i \in DOMAIN ledger.pending :
                 i < ledger.next_id /\ i \in Nat /\ ledger.next_id \in Nat /\ ledger.next_id <= MaxOps
    BY LedgerTyped DEF Base, IsLedger, Carried
<1>2. Base' => \A i \in DOMAIN ledger'.pending :
                 i < ledger'.next_id /\ i \in Nat /\ ledger'.next_id \in Nat /\ ledger'.next_id <= MaxOps
    BY LedgerTyped DEF Base, IsLedger, Carried
<1> QED BY <1>1, <1>2, CoordinatorConstants DEF OpIds

\* Nobody holds what has not been accepted.
LEMMA HeldWasAccepted ==
    ASSUME Base, NEW e \in Slots, NEW i \in Nat, Holds(driver[e], i)
    PROVE  i < ledger.next_id
BY SlotFacts DEF Holds, Plans, Queues, Sends, Carries

\* A driver that is doing something is the recovery's, or recovery is through.
LEMMA ActiveIsAllowed ==
    ASSUME Base, InHand, NEW d \in Slots, driver[d].pc # "idle"
    PROVE  booted \/ d = Boot
<1>1. d \in Drivers \/ d = Boot BY DEF Slots
<1>2. CASE d \in Drivers /\ ~booted
    <2>1. driver[d] = Idle BY <1>2 DEF InHand, BootsAlone
    <2> QED BY <2>1 DEF Idle
<1> QED BY <1>1, <1>2

\* The operations that would be handed over after a crash: the ones there were,
\* and ones refused as often as they were handed over.
Schedules ==
    \A i \in DOMAIN ledger'.pending :
        ledger'.pending[i].phase \in {"Accepted", "RetryScheduled"} =>
            \/ sent[i] <= refused'[i]
            \/ /\ i \in DOMAIN ledger.pending
               /\ ledger.pending[i].phase \in {"Accepted", "RetryScheduled"}

\* A ledger that narrows schedules nothing but what changed.
LEMMA NarrowsSchedules ==
    ASSUME NEW S, Narrows(ledger', S),
           \A i \in S \cap DOMAIN ledger'.pending :
              \/ ledger'.pending[i].phase \notin {"Accepted", "RetryScheduled"}
              \/ sent[i] <= refused'[i]
    PROVE  Schedules
BY DEF Narrows, Schedules

\* A driver goes on, with effects it may hand over and nobody else will.
LEMMA ContinueInHand ==
    ASSUME Base, Base', InHand, NEW d \in Slots, NEW E, E \subseteq Effects, Continue(d, E),
           booted \/ d = Boot, booted' = booted, sent' = sent,
           \A i \in OpIds : refused[i] <= refused'[i],
           \A e \in E : e.kind \in {"Send", "Retry"} =>
              /\ e.id \in OpIds /\ ~Queues(driver[d], e.id) /\ sent[e.id] <= refused'[e.id]
              /\ Holds(driver[d], e.id) \/ \A x \in Slots : ~Holds(driver[x], e.id),
           Schedules, ledger.next_id <= ledger'.next_id
    PROVE  InHand'
<1>1. Once(driver[d]) BY DEF InHand, OneHolds
<1>2. PICK n \in Doing :
        /\ Turn(d, n) /\ n.pc = "run" /\ Once(n)
        /\ \A i : Holds(n, i) => Queues(driver[d], i) \/ \E e \in E : Sends(e, i)
    BY <1>1, ContinueHolds
<1>3. ASSUME NEW i \in OpIds, Holds(n, i)
      PROVE  \/ Queues(driver[d], i)
             \/ /\ sent[i] <= refused'[i]
                /\ Holds(driver[d], i) \/ \A x \in Slots : ~Holds(driver[x], i)
    BY <1>2, <1>3 DEF Sends
<1>4. \A i : Queues(driver[d], i) => Holds(driver[d], i) /\ Plans(driver[d], i)
    BY DEF Holds, Plans
<1>5. \A i : Plans(n, i) => Holds(n, i) BY DEF Holds
<1>6. ~booted' => ~booted BY Zenon
<1>7. BootsAlone' /\ OneHolds'
    BY <1>2, <1>3, <1>4, <1>6, TurnHolds
<1>8. IsLedger(ledger') /\ refused' \in [OpIds -> Nat]
    BY DEF Base, TypeOK
<1>9. \A i \in DOMAIN ledger'.pending : i \in OpIds BY PendingIds
<1>10. \A i \in OpIds : Plans(n, i) => Plans(driver[d], i) \/ sent[i] <= refused'[i]
    BY <1>3, <1>4, <1>5
<1>11. MayBeSent'
    BY <1>2, <1>8, <1>9, <1>10, TurnSent DEF Schedules
<1> QED BY <1>7, <1>11 DEF InHand

\* A request puts its operation in its driver's hand.
LEMMA RequestInHand ==
    ASSUME Base, Base', Orderly, WorksOn, InHand,
           NEW d \in Slots, NEW f \in Fields, NEW v \in Values, Accepting(f),
           Transition(d, on_requested(ledger, Primary, f, v, now, row), {}),
           UNCHANGED <<booted, sent, refused>>
    PROVE  InHand'
<1>1. PICK o : o = on_requested(ledger, Primary, f, v, now, row) OBVIOUS
<1>2. IsLedger(ledger) /\ ledger.next_id \in Nat /\ ledger.next_id < MaxOps /\ MaxOps \in Nat
      /\ now \in Nat
    BY CoordinatorConstants DEF Base, TypeOK, IsLedger, Accepting
<1>3. Grows(o.ledger) /\ o.effects = {Effect("Send", ledger.next_id, now)}
    BY <1>1, <1>2, RequestedOutcome
<1>4. ledger' = o.ledger /\ Continue(d, o.effects)
    BY <1>1, StoreWorks
<1>5. PICK id : id = ledger.next_id OBVIOUS
<1>6. id \in OpIds /\ id \in Nat BY <1>2, <1>5 DEF OpIds
<1>7. \A x \in Slots : ~Holds(driver[x], id)
    BY <1>2, <1>5, <1>6, HeldWasAccepted
<1>8. ~Queues(driver[d], id) BY <1>7 DEF Holds, Plans
<1>9. /\ \A i \in OpIds : sent[i] \in Nat /\ refused[i] \in Nat
      /\ refused' = refused
    BY DEF Base, TypeOK
<1>10. sent[id] = 0 BY <1>2, <1>5, <1>6 DEF InHand, MayBeSent
<1>11. sent[id] <= refused'[id] BY <1>6, <1>9, <1>10
<1>12. o.effects \subseteq Effects /\ \A e \in o.effects : e.id = id
    BY <1>2, <1>3, <1>5 DEF Effects, Effect
<1>13. Schedules
    <2> SUFFICES ASSUME NEW i \in DOMAIN ledger'.pending
                 PROVE  \/ sent[i] <= refused'[i]
                        \/ i \in DOMAIN ledger.pending /\ ledger'.pending[i] = ledger.pending[i]
        BY DEF Schedules
    <2> QED BY <1>3, <1>4, <1>5, <1>11 DEF Grows
<1>14. ledger.next_id <= ledger'.next_id BY <1>2, <1>3, <1>4 DEF Grows
<1>15. booted BY DEF Accepting, Orderly
<1>16. \A i \in OpIds : refused[i] <= refused'[i] BY <1>9
<1> QED BY <1>4, <1>6, <1>7, <1>8, <1>11, <1>12, <1>13, <1>14, <1>15, <1>16, ContinueInHand

\* What is known of hand-overs and refusals is counted.
LEMMA Counts ==
    ASSUME Base
    PROVE  /\ \A i \in OpIds : sent[i] \in Nat /\ refused[i] \in Nat /\ refused[i] <= refused[i]
           /\ ledger.next_id \in Nat /\ IsLedger(ledger) /\ now \in Nat
BY CoordinatorConstants DEF Base, TypeOK, IsLedger

\* A cancellation hands nothing over.
LEMMA CancelInHand ==
    ASSUME Base, Base', Orderly, WorksOn, InHand,
           NEW d \in Slots, NEW fields \in SUBSET Fields, Cancel(d, fields)
    PROVE  InHand'
<1>1. PICK o : o = on_cancelled(ledger, Primary, fields, now, row) OBVIOUS
<1>2. /\ IsLedger(ledger) /\ ledger.next_id \in Nat /\ now \in Nat
      /\ \A i \in DOMAIN ledger.pending : i \in Nat
    BY Counts DEF IsLedger
<1>3. /\ Narrows(o.ledger, {})
      /\ \A e \in o.effects : \E i \in DOMAIN ledger.pending : e = Effect("Reconcile", i, now)
    BY <1>1, <1>2, CancelledOutcome DEF Cancel
<1>4. ledger' = o.ledger /\ Continue(d, o.effects)
    BY <1>1, StoreWorks DEF Cancel
<1>5. UNCHANGED <<booted, sent, refused>> BY DEF Cancel, history
<1>6. o.effects \subseteq Effects /\ \A e \in o.effects : e.kind = "Reconcile"
    BY <1>2, <1>3 DEF Effects, Effect
<1>7. Schedules BY <1>3, <1>4, NarrowsSchedules
<1>8. ledger.next_id <= ledger'.next_id BY <1>2, <1>3, <1>4 DEF Narrows
<1>9. booted BY DEF Cancel, Orderly
<1>10. \A i \in OpIds : refused[i] <= refused'[i] BY <1>5, Counts
<1> QED BY <1>4, <1>5, <1>6, <1>7, <1>8, <1>9, <1>10, ContinueInHand

\* A failure that is reported back leaves the operation in the same hand: it is
\* not in its driver's queue as well, and was refused as often as handed over.
LEMMA FailedInHand ==
    ASSUME Base, Base', WorksOn, InHand, NEW d \in Slots, driver[d].pc \in {"build", "wire"},
           NEW class \in {"Rejected", "Transient"}, NEW ways,
           Transition(d, on_failed(ledger, Primary, driver[d].id, class, now, row), ways),
           UNCHANGED <<booted, sent>>, \A i \in OpIds : refused[i] <= refused'[i],
           sent[driver[d].id] <= refused'[driver[d].id]
    PROVE  InHand'
<1>1. PICK id : id = driver[d].id OBVIOUS
<1>2. PICK o : o = on_failed(ledger, Primary, id, class, now, row) OBVIOUS
<1>3. id \in OpIds /\ IsLedger(ledger) /\ id \in Nat /\ ledger.next_id \in Nat /\ now \in Nat
    BY <1>1, HeldFacts DEF OpIds
<1>4. /\ Narrows(o.ledger, {id})
      /\ \/ /\ id \notin DOMAIN o.ledger.pending
            /\ \/ o.effects = {}
               \/ id \in DOMAIN ledger.pending /\ o.effects = {Effect("Report", id, now)}
         \/ /\ id \in DOMAIN o.ledger.pending
            /\ o.ledger.pending[id].phase = "RetryScheduled"
            /\ \E at \in Nat : o.effects = {Effect("Retry", id, at)}
    BY <1>2, <1>3, FailedOutcome
<1>5. ledger' = o.ledger /\ Continue(d, o.effects)
    BY <1>1, <1>2, StoreWorks
<1>6. o.effects \subseteq Effects /\ \A e \in o.effects : e.id = id
    BY <1>3, <1>4 DEF Effects, Effect
<1>7. Holds(driver[d], id) /\ ~Queues(driver[d], id)
    BY <1>1 DEF Holds, Plans, InHand, OneHolds, Once
<1>8. Schedules
    BY <1>1, <1>4, <1>5, NarrowsSchedules
<1>9. ledger.next_id <= ledger'.next_id BY <1>3, <1>4, <1>5 DEF Narrows
<1>10. booted \/ d = Boot BY ActiveIsAllowed
<1> QED BY <1>1, <1>3, <1>5, <1>6, <1>7, <1>8, <1>9, <1>10, ContinueInHand

\* No credentials: nothing had been handed over.
LEMMA UnbuiltInHand ==
    ASSUME Base, Base', WorksOn, InHand, NEW d \in Slots, SendUnbuilt(d)
    PROVE  InHand'
<1>1. driver[d].pc = "build" /\ UNCHANGED <<booted, sent, refused>>
    BY DEF SendUnbuilt, history
<1>2. driver[d].id \in OpIds BY <1>1, HeldFacts
<1>3. sent[driver[d].id] <= refused[driver[d].id]
    BY <1>1, <1>2 DEF InHand, MayBeSent, Plans
<1>4. \A i \in OpIds : refused[i] <= refused'[i] BY <1>1, Counts
<1> QED BY <1>1, <1>3, <1>4, FailedInHand DEF SendUnbuilt

\* A refusal is one more.
LEMMA RefusedInHand ==
    ASSUME Base, Base', WorksOn, InHand, NEW d \in Slots, NEW w \in wire,
           NEW class \in {"Rejected", "Transient"}, SendRefused(d, w, class)
    PROVE  InHand'
<1>1. driver[d].pc = "wire" /\ UNCHANGED <<booted, sent>>
    BY DEF SendRefused, Awaits
<1>2. PICK id : id = driver[d].id OBVIOUS
<1>3. id \in OpIds BY <1>1, <1>2, HeldFacts
<1>4. refused \in [OpIds -> Nat] /\ sent \in [OpIds -> Nat] BY DEF Base, TypeOK
<1>5. refused' = [refused EXCEPT ![id] = refused[id] + 1]
    BY <1>2 DEF SendRefused
<1>6. \A i \in OpIds : refused[i] <= refused'[i] BY <1>3, <1>4, <1>5
<1>7. sent[id] <= refused[id] + 1
    BY <1>3 DEF InHand, MayBeSent, NeverReplayedBlind
<1>8. sent[id] <= refused'[id] BY <1>3, <1>4, <1>5, <1>7
<1> QED BY <1>1, <1>2, <1>6, <1>8, FailedInHand DEF SendRefused

\* An acknowledged operation is in nobody's hand any more.
LEMMA AckedInHand ==
    ASSUME Base, Base', WorksOn, InHand, NEW d \in Slots, NEW w \in wire, SendAcked(d, w)
    PROVE  InHand'
<1>1. driver[d].pc = "wire" /\ UNCHANGED <<booted, sent, refused>>
    BY DEF SendAcked, Awaits
<1>2. PICK id : id = driver[d].id OBVIOUS
<1>3. PICK o : o = on_acked(ledger, Primary, id, now, row) OBVIOUS
<1>4. /\ Narrows(o.ledger, {id}) /\ o.effects = {}
      /\ id \in DOMAIN o.ledger.pending => o.ledger.pending[id].phase = "Acked"
    BY <1>3, Counts, AckedOutcome
<1>5. ledger' = o.ledger /\ Continue(d, {})
    BY <1>2, <1>3, <1>4, StoreWorks DEF SendAcked
<1>6. Schedules BY <1>4, <1>5, NarrowsSchedules
<1>7. ledger.next_id <= ledger'.next_id BY <1>4, <1>5, Counts DEF Narrows
<1>8. booted \/ d = Boot BY <1>1, ActiveIsAllowed
<1>9. \A i \in OpIds : refused[i] <= refused'[i] BY <1>1, Counts
<1> QED BY <1>1, <1>5, <1>6, <1>7, <1>8, <1>9, ContinueInHand

\* An ingested read narrows the ledger.
LEMMA IngestNarrows ==
    ASSUME Base, NEW s, Ingest(s)
    PROVE  Narrows(ledger', {})
<1>1. PICK o : o = reconcile_observation(ledger, Primary, s.value, s.revision, now) OBVIOUS
<1>2. Narrows(o.ledger, {}) BY <1>1, Counts, ObservedOutcome
<1>3. ledger' = o.ledger \/ ledger' = ledger
    BY <1>1 DEF Ingest, Commits, CommitFails, durable
<1> QED BY <1>2, <1>3, SameNarrows

\* A re-read, failed or ingested, hands nothing over.
LEMMA ReconcileInHand ==
    ASSUME Base, Base', WorksOn, InHand, NEW d \in Slots,
           ReconcileFails(d) \/ ReconcileIngest(d)
    PROVE  InHand'
<1>1. /\ driver[d].pc \in {"fetch", "ingest"} /\ UNCHANGED <<booted, sent, refused>>
      /\ Continue(d, {})
    BY DEF ReconcileFails, ReconcileIngest, history
<1>2. Narrows(ledger', {})
    <2>1. CASE ReconcileFails(d) BY <2>1, SameNarrows DEF ReconcileFails, durable
    <2>2. CASE ReconcileIngest(d)
        <3>1. Ingest(driver[d].fetched) BY <2>2 DEF ReconcileIngest
        <3> QED BY <3>1, IngestNarrows
    <2> QED BY <2>1, <2>2
<1>3. Schedules BY <1>2, NarrowsSchedules
<1>4. ledger.next_id <= ledger'.next_id BY <1>2, Counts DEF Narrows
<1>5. booted \/ d = Boot BY <1>1, ActiveIsAllowed
<1>6. \A i \in OpIds : refused[i] <= refused'[i] BY <1>1, Counts
<1> QED BY <1>1, <1>3, <1>4, <1>5, <1>6, ContinueInHand

\* A driver that goes on with what it had in hand.
LEMMA TurnInHand ==
    ASSUME Base, Base', InHand, NEW d \in Slots, NEW n \in Doing, Turn(d, n),
           n.pc # "boot", booted \/ d = Boot, ~booted' => ~booted, booted' = booted \/ d = Boot,
           Once(n),
           \A i \in OpIds : /\ Holds(n, i) => Holds(driver[d], i)
                            /\ Plans(n, i) => Plans(driver[d], i),
           UNCHANGED <<ledger, sent, refused>>
    PROVE  InHand'
<1>1. BootsAlone' /\ OneHolds' BY TurnHolds
<1>2. /\ IsLedger(ledger') /\ refused' \in [OpIds -> Nat]
      /\ ledger.next_id \in Nat /\ ledger' = ledger /\ sent' = sent
      /\ \A i \in OpIds : refused[i] <= refused'[i]
    BY Counts DEF Base, TypeOK
<1>3. \A i \in DOMAIN ledger'.pending : i \in OpIds BY PendingIds
<1>4. ledger.next_id <= ledger'.next_id BY <1>2
<1>5. \A i \in DOMAIN ledger'.pending :
         ledger'.pending[i].phase \in {"Accepted", "RetryScheduled"} =>
            \/ sent[i] <= refused'[i]
            \/ /\ i \in DOMAIN ledger.pending
               /\ ledger.pending[i].phase \in {"Accepted", "RetryScheduled"}
    BY <1>2
<1>6. MayBeSent' BY <1>2, <1>3, <1>4, <1>5, TurnSent
<1> QED BY <1>1, <1>6 DEF InHand

\* The row is read, or the entity: nothing more is in hand.
LEMMA ReadInHand ==
    ASSUME Base, Base', Orderly, InHand, NEW d \in Slots,
           ReconcileFetch(d) \/ \E f \in Fields, v \in Values : AddRead(d, f, v)
    PROVE  InHand'
<1>1. driver \in [Slots -> Doing] /\ driver[d] \in Doing BY SlotFacts
<1>2. PICK n : n = driver'[d] OBVIOUS
<1>3. n \in Doing BY <1>2 DEF Base, TypeOK
<1>4. /\ Turn(d, n) /\ n.pc \in {"ingest", "merged"} /\ n.queue = driver[d].queue
      /\ (booted \/ d = Boot) /\ UNCHANGED <<ledger, sent, refused, booted>>
    <2>1. CASE ReconcileFetch(d)
        <3>1. PICK s : s = Snapshot OBVIOUS
        <3>2. driver' = [driver EXCEPT ![d] = [driver[d] EXCEPT !.pc = "ingest", !.fetched = s]]
            BY <2>1, <3>1 DEF ReconcileFetch
        <3>3. n = [driver[d] EXCEPT !.pc = "ingest", !.fetched = s] BY <1>1, <1>2, <3>2
        <3>4. n.pc = "ingest" /\ n.queue = driver[d].queue BY <1>1, <3>3 DEF Doing
        <3>5. booted \/ d = Boot BY <2>1, ActiveIsAllowed DEF ReconcileFetch
        <3>6. UNCHANGED <<ledger, sent, refused, booted>>
            BY <2>1 DEF ReconcileFetch, durable, history
        <3> QED BY <3>2, <3>3, <3>4, <3>5, <3>6 DEF Turn
    <2>2. ASSUME NEW f \in Fields, NEW v \in Values, AddRead(d, f, v)
          PROVE  /\ Turn(d, n) /\ n.pc = "merged" /\ n.queue = driver[d].queue
                 /\ (booted \/ d = Boot) /\ UNCHANGED <<ledger, sent, refused, booted>>
        <3>1. PICK g : g = [field |-> f, value |-> row[f] \cup v] OBVIOUS
        <3>2. driver' = [driver EXCEPT ![d] = [driver[d] EXCEPT !.pc = "merged", !.merged = g]]
            BY <2>2, <3>1 DEF AddRead
        <3>3. n = [driver[d] EXCEPT !.pc = "merged", !.merged = g] BY <1>1, <1>2, <3>2
        <3>4. n.pc = "merged" /\ n.queue = driver[d].queue BY <1>1, <3>3 DEF Doing
        <3>5. booted BY <2>2 DEF AddRead, Accepting, Orderly
        <3>6. UNCHANGED <<ledger, sent, refused, booted>>
            BY <2>2 DEF AddRead, durable, history
        <3> QED BY <3>2, <3>3, <3>4, <3>5, <3>6 DEF Turn
    <2> QED BY <2>1, <2>2
<1>5. Once(driver[d]) BY DEF InHand, OneHolds
<1>6. Once(n) BY <1>4, <1>5 DEF Once, Queues
<1>7. \A i \in OpIds : /\ Holds(n, i) => Holds(driver[d], i)
                       /\ Plans(n, i) => Plans(driver[d], i)
    BY <1>4 DEF Holds, Plans, Queues
<1>8. ~booted' => ~booted BY <1>4, Zenon
<1>9. booted' = booted \/ d = Boot BY <1>4, Zenon
<1>10. booted \/ d = Boot BY <1>4, ActiveIsAllowed, Zenon
<1> QED BY <1>3, <1>4, <1>6, <1>7, <1>8, <1>9, <1>10, TurnInHand

\* A driver that is done has nothing in hand.
LEMMA FinishInHand ==
    ASSUME Base, Base', InHand, NEW d \in Slots, Finish(d)
    PROVE  InHand'
<1>1. PICK n : n = Idle OBVIOUS
<1>2. n \in Doing /\ n.pc = "idle" /\ n.queue = << >>
    BY <1>1 DEF Idle, Doing
<1>3. /\ Turn(d, n) /\ driver[d].pc = "run" /\ UNCHANGED <<ledger, sent, refused>>
    BY <1>1 DEF Finish, Turn, durable, history
<1>4. booted \/ d = Boot BY <1>3, ActiveIsAllowed
<1>5. Once(n) /\ \A i : ~Holds(n, i) /\ ~Plans(n, i)
    BY <1>2 DEF Once, Holds, Plans, Queues
<1>6. booted' = (booted \/ d = Boot) BY DEF Finish
<1>a. booted \in BOOLEAN /\ booted' \in BOOLEAN BY DEF Base, TypeOK
<1>7. ~booted' => ~booted BY <1>6, Zenon
<1>8. booted' = booted \/ d = Boot BY <1>6, <1>a, <1>4, Zenon
<1> QED BY <1>2, <1>3, <1>4, <1>5, <1>7, <1>8, TurnInHand

\* An effect is taken off the queue: what it sends stays in the same hand.
LEMMA TakeInHand ==
    ASSUME Base, Base', InHand, NEW d \in Slots, Report(d) \/ SendLoad(d) \/ ReconcileLoad(d)
    PROVE  InHand'
<1>1. /\ driver \in [Slots -> Doing] /\ driver[d] \in Doing /\ driver[d].queue \in Seq(Effects)
      /\ Carries(driver[d], ledger.next_id)
    BY SlotFacts
<1>2. /\ driver[d].pc = "run" /\ driver[d].queue # << >>
      /\ UNCHANGED <<ledger, sent, refused, booted>>
    BY DEF Report, SendLoad, ReconcileLoad, NextEffect, durable, history
<1>3. PICK q : q = driver[d].queue OBVIOUS
<1>4. q \in Seq(Effects) /\ q # << >> BY <1>1, <1>2, <1>3
<1>5. /\ Head(q) = q[1] /\ 1 \in DOMAIN q /\ Head(q) \in Effects
      /\ \A k \in DOMAIN Tail(q) : k + 1 \in DOMAIN q /\ k # 0 /\ k \in Nat /\ Tail(q)[k] = q[k + 1]
    BY <1>4, TailFacts
<1>6. PICK n : n = driver'[d] OBVIOUS
<1>7. n \in Doing BY <1>6 DEF Base, TypeOK
<1>8. /\ Turn(d, n) /\ n.queue = Tail(q)
      /\ \/ n.pc \in {"run", "fetch"}
         \/ n.pc = "build" /\ n.id = Head(q).id /\ Head(q).kind \in {"Send", "Retry"}
    <2>1. CASE Skip(d)
        <3>1. driver' = [driver EXCEPT ![d] = [driver[d] EXCEPT !.queue = Tail(q)]]
            BY <1>1, <1>3, <2>1 DEF Skip
        <3>2. n = [driver[d] EXCEPT !.queue = Tail(q)] BY <1>1, <1>6, <3>1
        <3>3. n.pc = "run" /\ n.queue = Tail(q) BY <1>1, <1>2, <3>2 DEF Doing
        <3> QED BY <3>1, <3>2, <3>3 DEF Turn
    <2>2. CASE SendLoad(d) /\ ~Skip(d)
        <3>1. PICK e : e = Head(q) OBVIOUS
        <3>2. /\ driver' = [driver EXCEPT ![d] =
                    [driver[d] EXCEPT !.pc = "build", !.queue = Tail(q), !.id = e.id,
                                      !.op = ledger.pending[e.id], !.existing = row]]
              /\ e.kind \in {"Send", "Retry"}
            BY <1>3, <2>2, <3>1 DEF SendLoad, NextEffect
        <3>3. n = [driver[d] EXCEPT !.pc = "build", !.queue = Tail(q), !.id = e.id,
                                    !.op = ledger.pending[e.id], !.existing = row]
            BY <1>1, <1>6, <3>2
        <3>4. n.pc = "build" /\ n.queue = Tail(q) /\ n.id = e.id BY <1>1, <3>3 DEF Doing
        <3> QED BY <3>1, <3>2, <3>3, <3>4 DEF Turn
    <2>3. CASE ReconcileLoad(d) /\ ~Skip(d)
        <3>1. driver' = [driver EXCEPT ![d] = [driver[d] EXCEPT !.pc = "fetch", !.queue = Tail(q)]]
            BY <1>3, <2>3 DEF ReconcileLoad
        <3>2. n = [driver[d] EXCEPT !.pc = "fetch", !.queue = Tail(q)] BY <1>1, <1>6, <3>1
        <3>3. n.pc = "fetch" /\ n.queue = Tail(q) BY <1>1, <3>2 DEF Doing
        <3> QED BY <3>1, <3>2, <3>3 DEF Turn
    <2> QED BY <2>1, <2>2, <2>3 DEF Report
<1>9. \A i : Queues(n, i) => Queues(driver[d], i)
    BY <1>3, <1>5, <1>8 DEF Queues
<1>10. n.pc = "build" => Queues(driver[d], n.id) /\ n.id \in OpIds
    <2>1. n.pc = "build" => Sends(q[1], n.id) BY <1>5, <1>8 DEF Sends
    <2>2. n.pc = "build" => n.id \in Nat /\ n.id < ledger.next_id
        BY <1>1, <1>3, <1>5, <1>8 DEF Carries, Effects
    <2>3. ledger.next_id \in Nat /\ ledger.next_id <= MaxOps /\ MaxOps \in Nat
        BY Counts, CoordinatorConstants DEF Base, Carried
    <2> QED BY <1>3, <1>5, <2>1, <2>2, <2>3 DEF Queues, OpIds
<1>11. \A i \in OpIds : /\ Holds(n, i) => Holds(driver[d], i)
                        /\ Plans(n, i) => Plans(driver[d], i)
    BY <1>8, <1>9, <1>10 DEF Holds, Plans
<1>12. \A j, k \in DOMAIN q : \A i \in OpIds : Sends(q[j], i) /\ Sends(q[k], i) => j = k
    BY <1>3 DEF InHand, OneHolds, Once
<1>13. \A j, k \in DOMAIN Tail(q) : \A i \in OpIds :
          Sends(Tail(q)[j], i) /\ Sends(Tail(q)[k], i) => j = k
    <2> SUFFICES ASSUME NEW j \in DOMAIN Tail(q), NEW k \in DOMAIN Tail(q), NEW i \in OpIds,
                        Sends(Tail(q)[j], i), Sends(Tail(q)[k], i)
                 PROVE  j = k
        OBVIOUS
    <2>1. j + 1 = k + 1 BY <1>5, <1>12
    <2> QED BY <1>5, <2>1
<1>14. n.pc = "build" => ~Queues(n, n.id)
    <2> SUFFICES ASSUME n.pc = "build", NEW k \in DOMAIN Tail(q), Sends(Tail(q)[k], n.id)
                 PROVE  FALSE
        BY <1>8 DEF Queues
    <2>1. Sends(q[1], n.id) /\ Sends(q[k + 1], n.id) BY <1>5, <1>8 DEF Sends
    <2>2. 1 = k + 1 BY <1>5, <1>10, <1>12, <2>1
    <2> QED BY <1>5, <2>2
<1>15. Once(n) BY <1>8, <1>13, <1>14 DEF Once
<1>16. booted \/ d = Boot BY <1>2, ActiveIsAllowed
<1>17. ~booted' => ~booted BY <1>2, Zenon
<1>18. booted' = booted \/ d = Boot BY <1>2, Zenon
<1> QED BY <1>2, <1>7, <1>8, <1>11, <1>15, <1>16, <1>17, <1>18, TurnInHand

\* The merged value is requested.
LEMMA AddRequestInHand ==
    ASSUME Base, Base', Orderly, WorksOn, InHand, NEW d \in Slots, AddRequest(d)
    PROVE  InHand'
<1>1. driver[d].pc = "merged" /\ Carries(driver[d], ledger.next_id)
    BY SlotFacts DEF AddRequest
<1>2. driver[d].merged \in [field : Fields, value : Values]
    BY <1>1 DEF Carries
<1>3. PICK f \in Fields, v \in Values : f = driver[d].merged.field /\ v = driver[d].merged.value
    BY <1>2
<1>4. /\ Accepting(f) /\ UNCHANGED <<booted, sent, refused>>
      /\ Transition(d, on_requested(ledger, Primary, f, v, now, row), {})
    BY <1>3 DEF AddRequest, history
<1> QED BY <1>4, RequestInHand

\* The hand-over: the driver that planned it waits now, and nobody else plans
\* it.
LEMMA DispatchInHand ==
    ASSUME Base, Base', WorksOn, InHand, NEW d \in Slots, SendDispatch(d)
    PROVE  InHand'
<1>1. driver \in [Slots -> Doing] /\ driver[d] \in Doing /\ OpIds \subseteq Nat
    BY SlotFacts DEF OpIds
<1>2. driver[d].pc = "build" /\ UNCHANGED <<booted, refused>>
    BY DEF SendDispatch
<1>3. PICK id : id = driver[d].id OBVIOUS
<1>4. id \in OpIds /\ id < ledger.next_id BY <1>2, <1>3, HeldFacts
<1>5. PICK o : o = on_sent(ledger, Primary, id, row) OBVIOUS
<1>6. /\ Narrows(o.ledger, {id})
      /\ id \in DOMAIN o.ledger.pending => o.ledger.pending[id].phase = "Sent"
    BY <1>5, Counts, SentOutcome
<1>7. ledger' = o.ledger
    <2>1. CASE CommitFails({})
        <3>1. left["store"] > 0 BY <2>1 DEF CommitFails, Charge
        <3> QED BY <3>1 DEF WorksOn
    <2> QED BY <1>3, <1>5, <2>1 DEF SendDispatch, Commits
<1>8. PICK n : n = [driver[d] EXCEPT !.pc = "wire"] OBVIOUS
<1>9. n \in Doing /\ n.pc = "wire" /\ n.id = id /\ n.queue = driver[d].queue
    BY <1>1, <1>3, <1>8 DEF Doing
<1>10. Turn(d, n) BY <1>8 DEF SendDispatch, Turn
<1>11. Once(driver[d]) /\ ~Queues(driver[d], id)
    BY <1>2, <1>3 DEF InHand, OneHolds, Once
<1>12. Once(n) BY <1>9, <1>11 DEF Once, Queues
<1>13. \A i \in OpIds : Holds(n, i) => Holds(driver[d], i)
    BY <1>2, <1>3, <1>9 DEF Holds, Plans, Queues
<1>14. booted \/ d = Boot BY <1>2, ActiveIsAllowed
<1>15. ~booted' => ~booted BY <1>2, Zenon
<1>16. booted' = booted \/ d = Boot BY <1>2, Zenon
<1>17. BootsAlone' /\ OneHolds'
    BY <1>9, <1>10, <1>12, <1>13, <1>14, <1>15, <1>16, TurnHolds
<1>18. /\ sent \in [OpIds -> Nat] /\ refused \in [OpIds -> Nat] /\ refused' = refused
       /\ sent' \in [OpIds -> Nat]
    BY <1>2 DEF Base, TypeOK
<1>19. /\ \A i \in OpIds : i # id => sent'[i] = sent[i]
       /\ sent'[id] <= sent[id] + 1
    <2>1. sent' = sent \/ sent' = [sent EXCEPT ![id] = sent[id] + 1]
        BY <1>3 DEF SendDispatch
    <2> QED BY <1>4, <1>18, <2>1
<1>20. Holds(driver[d], id) /\ Plans(driver[d], id) BY <1>2, <1>3 DEF Holds, Plans
<1>21. sent[id] <= refused[id] BY <1>4, <1>20 DEF InHand, MayBeSent
<1>22. ASSUME NEW e \in Slots, NEW i \in OpIds, Plans(driver'[e], i)
       PROVE  Plans(driver[e], i) /\ i # id
    <2>1. CASE e = d
        <3>1. Plans(n, i) BY <1>1, <1>10, <1>22, <2>1 DEF Turn
        <3>2. Queues(driver[d], i) BY <1>9, <3>1 DEF Plans, Queues
        <3> QED BY <1>11, <2>1, <3>2 DEF Plans
    <2>2. CASE e # d
        <3>1. Plans(driver[e], i) /\ Holds(driver[e], i)
            BY <1>1, <1>10, <1>22, <2>2 DEF Turn, Holds
        <3> QED BY <1>4, <1>20, <2>2, <3>1 DEF InHand, OneHolds
    <2> QED BY <2>1, <2>2
<1>23. \A e \in Slots, i \in OpIds : Plans(driver'[e], i) => sent'[i] <= refused'[i]
    BY <1>18, <1>19, <1>22 DEF InHand, MayBeSent
<1>24. \A i \in DOMAIN ledger'.pending :
          ledger'.pending[i].phase \in {"Accepted", "RetryScheduled"} => sent'[i] <= refused'[i]
    <2> SUFFICES ASSUME NEW i \in DOMAIN ledger'.pending,
                        ledger'.pending[i].phase \in {"Accepted", "RetryScheduled"}
                 PROVE  sent'[i] <= refused'[i]
        OBVIOUS
    <2>1. i # id BY <1>6, <1>7
    <2>2. i \in DOMAIN ledger.pending /\ ledger.pending[i].phase = ledger'.pending[i].phase
        BY <1>6, <1>7, <2>1 DEF Narrows
    <2>3. sent[i] <= refused[i] BY <2>2 DEF InHand, MayBeSent
    <2>4. i \in OpIds BY PendingIds
    <2> QED BY <1>18, <1>19, <2>1, <2>3, <2>4
<1>25. ledger'.next_id = ledger.next_id BY <1>6, <1>7 DEF Narrows
<1>26. \A i \in OpIds : i >= ledger'.next_id => sent'[i] = 0
    <2> SUFFICES ASSUME NEW i \in OpIds, i >= ledger.next_id PROVE sent'[i] = 0
        BY <1>25
    <2>1. i # id BY <1>1, <1>4, Counts
    <2>2. sent[i] = 0 BY DEF InHand, MayBeSent
    <2> QED BY <1>19, <2>1, <2>2
<1>27. NeverReplayedBlind'
    <2> SUFFICES ASSUME NEW i \in OpIds PROVE sent'[i] <= refused'[i] + 1
        BY DEF NeverReplayedBlind
    <2>1. sent[i] <= refused[i] + 1 BY DEF InHand, MayBeSent, NeverReplayedBlind
    <2>2. CASE i = id BY <1>4, <1>18, <1>19, <1>21, <2>2
    <2>3. CASE i # id BY <1>18, <1>19, <2>1, <2>3
    <2> QED BY <2>2, <2>3
<1> QED BY <1>17, <1>23, <1>24, <1>26, <1>27 DEF InHand, MayBeSent

\* No deadline passes where none may.
LEMMA NoTimeout ==
    ASSUME WorksOn, NEW d, NEW w, SendTimeout(d, w)
    PROVE  FALSE
<1>1. left["timeout"] > 0
    BY DEF SendTimeout, Transition, Commits, CommitFails, Charge
<1> QED BY <1>1 DEF WorksOn

\* Recovery takes in hand what nobody holds and would be sent.
LEMMA RecoverInHand ==
    ASSUME Base, Base', WorksOn, InHand, Recover
    PROVE  InHand'
<1>1. /\ driver[Boot].pc = "boot" /\ UNCHANGED <<booted, sent, refused>> /\ Boot \in Slots
      /\ OpIds \subseteq Nat
    BY DEF Recover, history, Slots, OpIds
<1>2. PICK o : o = recover(ledger, now) OBVIOUS
<1>3. /\ Narrows(o.ledger, {i \in DOMAIN ledger.pending : InDoubt(ledger.pending[i])})
      /\ \A i \in DOMAIN o.ledger.pending :
            InDoubt(ledger.pending[i]) => o.ledger.pending[i].phase = "Uncertain"
      /\ \A e \in o.effects : \E i \in DOMAIN ledger.pending :
            /\ e \in Effects /\ e.id = i
            /\ e.kind # "Reconcile" => ledger.pending[i].phase \in {"Accepted", "RetryScheduled"}
    BY <1>2, Counts, RecoveredOutcome
<1>4. ledger' = o.ledger /\ Continue(Boot, o.effects)
    <2>1. CASE CommitFails({})
        <3>1. left["store"] > 0 BY <2>1 DEF CommitFails, Charge
        <3> QED BY <3>1 DEF WorksOn
    <2> QED BY <1>2, <2>1 DEF Recover, Commits
<1>5. ~booted /\ driver[Boot].queue = << >> /\ \A d \in Drivers : driver[d] = Idle
    BY <1>1 DEF InHand, BootsAlone
<1>6. \A x \in Slots : \A i : ~Holds(driver[x], i)
    <2>1. \A x \in Slots : driver[x].pc \notin {"build", "wire"} /\ driver[x].queue = << >>
        BY <1>1, <1>5 DEF Slots, Idle
    <2> QED BY <2>1 DEF Holds, Plans, Queues
<1>7. ~\E i : Queues(driver[Boot], i) BY <1>5 DEF Queues
<1>8. \A i \in OpIds : refused[i] <= refused'[i] BY <1>1, Counts
<1>9. \A e \in o.effects : e.kind \in {"Send", "Retry"} =>
          e.id \in OpIds /\ sent[e.id] <= refused'[e.id]
    <2> SUFFICES ASSUME NEW e \in o.effects, e.kind \in {"Send", "Retry"}
                 PROVE  e.id \in OpIds /\ sent[e.id] <= refused[e.id]
        BY <1>1
    <2>1. e.id \in DOMAIN ledger.pending
          /\ ledger.pending[e.id].phase \in {"Accepted", "RetryScheduled"}
        BY <1>3
    <2> QED BY <2>1, PendingIds DEF InHand, MayBeSent
<1>10. Schedules
    <2>1. \A i \in {j \in DOMAIN ledger.pending : InDoubt(ledger.pending[j])} \cap DOMAIN ledger'.pending :
             ledger'.pending[i].phase \notin {"Accepted", "RetryScheduled"}
        BY <1>3, <1>4
    <2> QED BY <1>3, <1>4, <2>1, NarrowsSchedules
<1>11. ledger.next_id <= ledger'.next_id BY <1>3, <1>4, Counts DEF Narrows
<1>12. o.effects \subseteq Effects BY <1>3
<1> QED BY <1>1, <1>4, <1>6, <1>7, <1>8, <1>9, <1>10, <1>11, <1>12, ContinueInHand

\* What happens elsewhere, or to the poll, puts nothing in anyone's hand.
LEMMA ElsewhereInHand ==
    ASSUME Base, Base', InHand, Narrows(ledger', {}),
           UNCHANGED <<driver, booted, sent, refused>>
    PROVE  InHand'
<1>1. BootsAlone' BY DEF InHand, BootsAlone
<1>2. OneHolds' BY DEF InHand, OneHolds
<1>3. MayBeSent'
    <2>1. \A d \in Slots, i \in OpIds : Plans(driver'[d], i) => sent'[i] <= refused'[i]
        BY DEF InHand, MayBeSent
    <2>2. \A i \in DOMAIN ledger'.pending :
             ledger'.pending[i].phase \in {"Accepted", "RetryScheduled"} => sent'[i] <= refused'[i]
        BY DEF InHand, MayBeSent, Narrows
    <2>3. \A i \in OpIds : i >= ledger'.next_id => sent'[i] = 0
        BY DEF InHand, MayBeSent, Narrows
    <2>4. NeverReplayedBlind' BY DEF InHand, MayBeSent, NeverReplayedBlind
    <2> QED BY <2>1, <2>2, <2>3, <2>4 DEF MayBeSent
<1> QED BY <1>1, <1>2, <1>3 DEF InHand

\* After a crash nobody holds anything.
LEMMA CrashInHand ==
    ASSUME Base, Base', InHand, Crash
    PROVE  InHand'
<1>1. UNCHANGED <<ledger, sent, refused>> /\ booted' = FALSE
    BY DEF Crash, durable, history
<1>2. Boot \in Slots /\ Boot \notin Drivers /\ Drivers \subseteq Slots
    BY CoordinatorConstants DEF Slots
<1>3. ASSUME NEW d \in Slots
      PROVE  /\ driver'[d].pc \notin {"build", "wire"} /\ driver'[d].queue = << >>
             /\ d \in Drivers => driver'[d] = Idle
    <2>1. PICK n : n = driver'[d] OBVIOUS
    <2>2. n = IF d = Boot THEN [Idle EXCEPT !.pc = "boot"] ELSE Idle
        BY <2>1 DEF Crash
    <2>3. n.pc \in {"idle", "boot"} /\ n.queue = << >> BY <2>2 DEF Idle
    <2>4. d \in Drivers => n = Idle BY <1>2, <2>2
    <2> QED BY <2>1, <2>3, <2>4
<1>4. \A d \in Slots : \A i : ~Holds(driver'[d], i) /\ ~Plans(driver'[d], i)
    BY <1>3 DEF Holds, Plans, Queues
<1>5. \A d \in Slots : Once(driver'[d]) BY <1>3 DEF Once
<1>6. OneHolds' BY <1>4, <1>5 DEF OneHolds
<1>7. BootsAlone' BY <1>1, <1>2, <1>3 DEF BootsAlone
<1>8. MayBeSent' BY <1>1, <1>4 DEF InHand, MayBeSent, NeverReplayedBlind
<1> QED BY <1>6, <1>7, <1>8 DEF InHand

\* Where nothing but refusals, crashes and edits goes wrong, every step leaves
\* every operation in at most one hand.
LEMMA StepInHand ==
    ASSUME Base, Base', Orderly, WorksOn, InHand, Next
    PROVE  InHand'
<1>0. Drivers \subseteq Slots BY DEF Slots
<1>1. ASSUME NEW d \in Drivers, NEW f \in Fields, NEW v \in Values, Request(d, f, v)
      PROVE  InHand'
    <2>1. /\ Accepting(f) /\ Transition(d, on_requested(ledger, Primary, f, v, now, row), {})
          /\ UNCHANGED <<booted, sent, refused>>
        BY <1>1 DEF Request, history
    <2> QED BY <1>0, <2>1, RequestInHand
<1>2. ASSUME NEW d \in Drivers, NEW f \in Fields, NEW v \in Values, AddRead(d, f, v)
      PROVE  InHand'
    BY <1>0, <1>2, ReadInHand
<1>3. ASSUME NEW d \in Drivers, AddRequest(d) PROVE InHand'
    BY <1>0, <1>3, AddRequestInHand
<1>4. ASSUME NEW d \in Drivers, NEW fields \in SUBSET Fields, Cancel(d, fields) PROVE InHand'
    BY <1>0, <1>4, CancelInHand
<1>5. ASSUME NEW d \in Slots, Drive(d) PROVE InHand'
    BY <1>5, FinishInHand, TakeInHand, DispatchInHand, ReadInHand, ReconcileInHand DEF Drive
<1>6. ASSUME NEW d \in Slots, SendUnbuilt(d) \/ ReconcileFails(d) PROVE InHand'
    BY <1>6, UnbuiltInHand, ReconcileInHand
<1>7. ASSUME NEW d \in Slots, Verdict(d) PROVE InHand'
    BY <1>7, AckedInHand, RefusedInHand, NoTimeout DEF Verdict
<1>8. ASSUME NEW w \in wire, Land(w) \/ Lose(w) PROVE InHand'
    <2>1. UNCHANGED <<ledger, driver, booted, sent, refused>>
        BY <1>8 DEF Land, Lose, durable, history
    <2> QED BY <2>1, SameNarrows, ElsewhereInHand
<1>9. ASSUME PollFetch \/ Tick PROVE InHand'
    <2>1. UNCHANGED <<ledger, driver, booted, sent, refused>>
        BY <1>9 DEF PollFetch, Tick, durable, history
    <2> QED BY <2>1, SameNarrows, ElsewhereInHand
<1>10. ASSUME PollIngest PROVE InHand'
    <2>1. Ingest(poll) /\ UNCHANGED <<driver, booted, sent, refused>>
        BY <1>10 DEF PollIngest
    <2>2. Narrows(ledger', {}) BY <2>1, IngestNarrows
    <2> QED BY <2>1, <2>2, ElsewhereInHand
<1>11. ASSUME NEW f \in Fields, NEW v \in Values, Edit(f, v) PROVE InHand'
    <2>1. UNCHANGED <<ledger, driver, booted, sent, refused>>
        BY <1>11 DEF Edit, durable, history
    <2> QED BY <2>1, SameNarrows, ElsewhereInHand
<1>12. ASSUME Crash PROVE InHand' BY <1>12, CrashInHand
<1>13. ASSUME Recover PROVE InHand' BY <1>13, RecoverInHand
<1> QED BY <1>1, <1>2, <1>3, <1>4, <1>5, <1>6, <1>7, <1>8, <1>9, <1>10, <1>11, <1>12, <1>13
        DEF Next

\* Initially nobody holds anything.
LEMMA InitInHand ==
    ASSUME Init, Orderly
    PROVE  WorksOn /\ InHand
<1>1. /\ ledger = EmptyLedger /\ driver = [d \in Slots |-> Idle]
      /\ sent = [i \in OpIds |-> 0] /\ refused = [i \in OpIds |-> 0]
    BY DEF Init
<1>2. WorksOn BY DEF Init, WorksOn, Orderly
<1>3. \A d \in Slots : /\ driver[d] = Idle /\ driver[d].pc = "idle" /\ driver[d].queue = << >>
    BY <1>1 DEF Idle
<1>4. \A d \in Slots : \A i : ~Holds(driver[d], i) /\ ~Plans(driver[d], i)
    BY <1>3 DEF Holds, Plans, Queues
<1>5. \A d \in Slots : Once(driver[d]) BY <1>3 DEF Once
<1>6. BootsAlone BY <1>3 DEF BootsAlone, Slots
<1>7. DOMAIN ledger.pending = {} BY <1>1 DEF EmptyLedger
<1>8. MayBeSent BY <1>1, <1>4, <1>7 DEF MayBeSent, NeverReplayedBlind
<1> QED BY <1>2, <1>4, <1>5, <1>6, <1>8 DEF InHand, OneHolds

\* The invariant depends on the variables alone.
LEMMA StutterKeeps ==
    ASSUME CoordInv, UNCHANGED vars
    PROVE  CoordInv'
<1>1. UNCHANGED <<ledger, row, driver, wire, remote, poll, booted, now, stamped,
                  observed, sent, refused, acked, left>>
    BY DEF vars
<1>2. TypeOK' BY <1>1 DEF CoordInv, Base, TypeOK
<1>3. LP!IInv' BY <1>1, LedgerKeeps DEF CoordInv, Base
<1>4. Carried' BY <1>1 DEF CoordInv, Base, Carried
<1>5. OneWaits' BY <1>1 DEF CoordInv, Base, OneWaits
<1>6. Reads' = Reads BY <1>1 DEF Reads, Snapshot
<1>7. ReadsArePast' BY <1>1, <1>6 DEF CoordInv, Base, ReadsArePast
<1>8. DoneIsDone => DoneIsDone' BY <1>1 DEF DoneIsDone
<1>9. NewReadsSaw => NewReadsSaw' BY <1>1, <1>6 DEF NewReadsSaw
<1>10. WorksOn => WorksOn' BY <1>1 DEF WorksOn
<1>11. InHand => InHand'
    <2>1. BootsAlone => BootsAlone' BY <1>1 DEF BootsAlone
    <2>2. OneHolds => OneHolds' BY <1>1 DEF OneHolds
    <2>3. MayBeSent => MayBeSent' BY <1>1 DEF MayBeSent, NeverReplayedBlind
    <2> QED BY <2>1, <2>2, <2>3 DEF InHand
<1> QED BY <1>2, <1>3, <1>4, <1>5, <1>7, <1>8, <1>9, <1>10, <1>11 DEF CoordInv, Base

\* A step keeps the invariant.
LEMMA StepKeeps ==
    ASSUME CoordInv, Next
    PROVE  CoordInv'
<1>1. Base' /\ Foot BY StepBase DEF CoordInv
<1>2. WholeWrites => DoneIsDone' /\ NewReadsSaw'
    BY <1>1, StepDone DEF CoordInv
<1>3. Orderly => WorksOn' /\ InHand'
    BY <1>1, StillWorks, StepInHand DEF CoordInv
<1> QED BY <1>1, <1>2, <1>3 DEF CoordInv

-----------------------------------------------------------------------------
\* Whatever requests, cancellations, refusals, timeouts, crashes, store faults
\* and polls come, in whatever order: what is above called the invariant holds.
THEOREM CoordinatorInvariant == Spec => []CoordInv
<1>1. Init => CoordInv
    BY InitBase, InitInHand DEF CoordInv
<1>2. CoordInv /\ [Next]_vars => CoordInv'
    BY StepKeeps, StutterKeeps
<1> QED BY <1>1, <1>2, PTL DEF Spec

\* Every variable of the coordinator keeps its type: no driver uses a row, an
\* operation or a read it does not have.
THEOREM CoordinatorTypeCorrect == Spec => []TypeOK
<1>1. CoordInv => TypeOK BY DEF CoordInv, Base
<1> QED BY <1>1, CoordinatorInvariant, PTL

\* The coordinator implements the ledger: whatever its drivers, the poll loop
\* and crashes do to each other, the stored ledger and the row change only as a
\* single step of the reducer changes them.
THEOREM RefinesLedger == Spec => ImplementsLedger
<1>1. Init => Ledger!Init BY InitBase
<1>2. CoordInv /\ [Next]_vars => [Ledger!Next]_(Ledger!vars)
    <2>1. ASSUME CoordInv, Next PROVE [Ledger!Next]_(Ledger!vars)
        <3>1. Simulates BY <2>1, StepBase DEF CoordInv
        <3> QED BY <3>1 DEF Simulates, Ledger!vars
    <2>2. ASSUME UNCHANGED vars PROVE UNCHANGED Ledger!vars
        BY <2>2 DEF vars, Ledger!vars
    <2> QED BY <2>1, <2>2
<1> QED BY <1>1, <1>2, CoordinatorInvariant, PTL DEF Spec, ImplementsLedger, Ledger!Spec

\* A caller that is told "Acked" has had its write executed, where a write says
\* all of what is asked for.  (An empty difference is answered without the
\* provider: then the caller is told so of a write that never went out.)
THEOREM AckedMeansExecuted == Spec => [](WholeWrites => AckedWasExecuted)
<1>1. CoordInv => (WholeWrites => AckedWasExecuted)
    BY DEF CoordInv, DoneIsDone, AckedWasExecuted
<1> QED BY <1>1, CoordinatorInvariant, PTL

\* An acknowledged operation that an observation ends before the deadline was
\* executed when that observation was read, however late it is ingested.
THEOREM SettledWasSeen ==
    ASSUME WholeWrites
    PROVE  Spec => AckedSettledWasSeen
<1>1. CoordInv /\ [Next]_vars =>
        [\A i \in DOMAIN ledger.pending :
            ( /\ observed' # observed
              /\ i \notin DOMAIN ledger'.pending
              /\ ledger.pending[i].phase = "Acked"
              /\ now < ledger.pending[i].issued_at + SettleDeadline )
            => i \in observed'.saw]_vars
    <2> SUFFICES ASSUME CoordInv, Next, NEW i \in DOMAIN ledger.pending,
                        observed' # observed, i \notin DOMAIN ledger'.pending,
                        ledger.pending[i].phase = "Acked",
                        now < ledger.pending[i].issued_at + SettleDeadline
                 PROVE  i \in observed'.saw
        OBVIOUS
    <2>1. Foot /\ Base /\ NewReadsSaw BY StepBase DEF CoordInv
    <2>2. PICK s \in Reads \ {None} :
            /\ observed' = s
            /\ settled_by(ledger.pending[i], s.revision, now)
        BY <2>1 DEF Foot
    <2>3. PICK op : op = ledger.pending[i] OBVIOUS
    <2>4. /\ op.issued_at \in Nat /\ op.at \in Nat /\ now \in Nat /\ SettleDeadline \in Nat
          /\ s.revision \in Nat /\ MaxTime \in Nat
        BY <2>1, <2>3, Counts, ReadFacts, CoordinatorConstants, ReducerConstants
           DEF IsLedger, PendingMutation
    <2>5. s.revision >= op.at
        BY <2>2, <2>3, <2>4 DEF settled_by, settles_from
    <2>6. /\ op.issued_at + SettleDeadline < MaxTime /\ op.at <= now
          /\ op.at < MaxTime => (s.revision >= op.at => i \in s.saw)
        BY <2>1, <2>3 DEF NewReadsSaw
    <2>7. op.at < MaxTime BY <2>3, <2>4, <2>6
    <2> QED BY <2>2, <2>5, <2>6, <2>7
<1> QED BY <1>1, CoordinatorInvariant, PTL DEF Spec, AckedSettledWasSeen

\* No operation is handed to the provider again before the provider refused it,
\* whatever refusals, crashes, polls and edits come, while the store takes what
\* it is given, no mutation runs into its deadline and clients wait for the
\* recovery.
THEOREM NotReplayedBlind == Spec => [](Orderly => NeverReplayedBlind)
<1>1. CoordInv => (Orderly => NeverReplayedBlind)
    BY DEF CoordInv, InHand, MayBeSent
<1> QED BY <1>1, CoordinatorInvariant, PTL
=============================================================================
