--------------------------- MODULE ProviderLedger ---------------------------
(***************************************************************************)
(* The provider-operations ledger of one workspace as an open state        *)
(* machine: what the reducer promises whatever the order in which          *)
(* requests, send marks, verdicts, cancellations, observations and         *)
(* restarts reach it.  Its callers (OpsCoordinator) produce some of these  *)
(* orders; late and duplicate verdicts for any operation ever accepted are *)
(* all allowed here.                                                       *)
(***************************************************************************)
EXTENDS ProviderOps

CONSTANTS
    MaxOps,   \* bound: operations ever accepted
    MaxGen,   \* bound: times one field is requested or cancelled
    MaxTime   \* bound: the clock

ASSUME LedgerBounds == MaxOps \in Nat /\ MaxGen \in Nat /\ MaxTime \in Nat

VARIABLES
    ledger,    \* Workspace.provider_ops
    row,       \* the entities as the workspace row shows them
    observed,  \* history: what the provider last said of each entity, and
               \* the revision stamp it said it with
    now        \* Utc::now()

vars == <<ledger, row, observed, now>>

Observations == [value : Entity, revision : Nat]

\* Type invariant.
TypeOK ==
    /\ IsLedger(ledger)
    /\ row \in [Tasks -> Entity]
    /\ observed \in [Tasks -> Observations]
    /\ now \in Nat

Init ==
    /\ ledger = EmptyLedger
    /\ row \in [Tasks -> Entity]
    /\ observed = [t \in Tasks |-> [value |-> row[t], revision |-> 0]]
    /\ now = 0

-----------------------------------------------------------------------------
\* `transition': the reducer's outcome for entity t becomes the stored state.
Commit(t, outcome) ==
    /\ ledger' = outcome.ledger
    /\ row' = [row EXCEPT ![t] = outcome.entity]
    /\ UNCHANGED <<observed, now>>

Request(t, f, v) ==
    /\ ledger.next_id < MaxOps
    /\ ledger.generations[f] < MaxGen
    /\ Commit(t, on_requested(ledger, t, f, v, now, row[t]))

\* A verdict names an operation accepted at some point, and the entity that
\* operation targets.  The operation may be long gone.
Verdict(id, t) ==
    /\ id < ledger.next_id
    /\ id \in DOMAIN ledger.pending => ledger.pending[id].task = t

Sent(id, t) ==
    /\ Verdict(id, t)
    /\ Commit(t, on_sent(ledger, t, id, row[t]))

Acked(id, t) ==
    /\ Verdict(id, t)
    /\ Commit(t, on_acked(ledger, t, id, now, row[t]))

Failed(id, t, class) ==
    /\ Verdict(id, t)
    /\ Commit(t, on_failed(ledger, t, id, class, now, row[t]))

Cancel(t, fields) ==
    /\ \A f \in fields : ledger.generations[f] < MaxGen
    /\ Commit(t, on_cancelled(ledger, t, fields, now, row[t]))

Observe(t, value, revision) ==
    LET outcome == reconcile_observation(ledger, t, value, revision, now)
    IN  /\ ledger' = outcome.ledger
        /\ row' = [row EXCEPT ![t] = outcome.entity]
        /\ observed' = [observed EXCEPT ![t] =
                            [value |-> value, revision |-> revision]]
        /\ UNCHANGED now

Recover ==
    /\ ledger' = recover(ledger, now).ledger
    /\ UNCHANGED <<row, observed, now>>

Tick ==
    /\ now < MaxTime
    /\ now' = now + 1
    /\ UNCHANGED <<ledger, row, observed>>

Next ==
    \/ \E t \in Tasks, f \in Fields, v \in Values : Request(t, f, v)
    \/ \E id \in 0 .. MaxOps - 1, t \in Tasks :
        \/ Sent(id, t)
        \/ Acked(id, t)
        \/ \E class \in FailureClass : Failed(id, t, class)
    \/ \E t \in Tasks, fields \in SUBSET Fields : Cancel(t, fields)
    \/ \E t \in Tasks, value \in Entity, revision \in 0 .. MaxTime :
        Observe(t, value, revision)
    \/ Recover
    \/ Tick

Spec == Init /\ [][Next]_vars

-----------------------------------------------------------------------------
(***************************************************************************)
(* Safety.                                                                 *)
(***************************************************************************)
\* Identities are never reused, and a later claim of a field was accepted at
\* a later generation of it: so no two pending operations can both believe
\* they own a field (`is_current').
Ordered(l) ==
    \A i \in DOMAIN l.pending :
        /\ i < l.next_id
        /\ l.pending[i].claimed <= l.generations[l.pending[i].field]
        /\ \A j \in DOMAIN l.pending :
              (l.pending[i].field = l.pending[j].field /\ i < j)
                  => l.pending[i].claimed < l.pending[j].claimed

ClaimsOrdered == Ordered(ledger)

\* The row shows the owner's intent for as long as a field has an owner: no
\* stale read, no verdict for an older operation and no restart paints over
\* it (`apply': "the ledger and the row it paints move together").
RowShowsOwner ==
    \A t \in Tasks, f \in Fields :
        \A i \in Owners(ledger, t, f) : row[t][f] = ledger.pending[i].desired

\* Every pending operation falls back to what the provider last said of its
\* field, never to a value some other operation of ours had painted there.
BaselineIsObserved ==
    \A i \in DOMAIN ledger.pending :
        LET op == ledger.pending[i]
        IN  op.previous = observed[op.task].value[op.field]

\* Nothing invented is left behind on the row: a field shows what the
\* provider last said or what an operation still in the ledger asked for.
\* So an empty ledger means the row is the last observation.
RowIsAccountedFor ==
    \A t \in Tasks, f \in Fields :
        \/ row[t][f] = observed[t].value[f]
        \/ \E i \in Claims(ledger, t, f) : row[t][f] = ledger.pending[i].desired

\* A transient failure is replayed a bounded number of times.
AttemptsBounded ==
    \A i \in DOMAIN ledger.pending : ledger.pending[i].attempts < MaxAttempts

\* The invariants together: they are inductive only together with TypeOK.
LedgerInv ==
    ClaimsOrdered /\ RowShowsOwner /\ BaselineIsObserved /\ RowIsAccountedFor
        /\ AttemptsBounded

(***************************************************************************)
(* Action properties.                                                      *)
(***************************************************************************)
\* "Anything older is a reply that left before our write and must not undo
\* it": an observation (the only step that changes `observed') whose revision
\* is older than the acknowledgement of a field's owner changes neither the
\* claim nor the row, until the settle deadline.
KeepsAckedWrite ==
    \A t \in Tasks, f \in Fields : \A i \in Owners(ledger, t, f) :
        LET op == ledger.pending[i]
        IN  ( /\ observed' # observed
              /\ op.phase = "Acked"
              /\ observed'[t].revision < op.at
              /\ now < op.issued_at + SettleDeadline )
            => /\ i \in Owners(ledger', t, f)
               /\ row'[t][f] = op.desired

StaleReadKeepsAckedWrite == [][KeepsAckedWrite]_vars
=============================================================================
