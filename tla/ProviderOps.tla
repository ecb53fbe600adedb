---------------------------- MODULE ProviderOps ----------------------------
(***************************************************************************)
(* The pure reducer of crates/core/src/provider_ops.rs: the ledger of      *)
(* provider writes a workspace still has in flight, and what each event    *)
(* does to it and to the row it paints.                                    *)
(*                                                                         *)
(* A ledger is a record.  `pending' is a function from the identities of   *)
(* the operations still in the ledger to the operations: the code keeps a  *)
(* vector, which it only ever appends to in increasing identity order and  *)
(* filters, so increasing identity IS the order of the vector.             *)
(*                                                                         *)
(* Every request the daemon makes is built by one of the one-field         *)
(* constructors of DesiredFields, so an operation claims exactly one       *)
(* field.  The value of a field (a set of logins, a workflow state) is     *)
(* opaque here.                                                            *)
(*                                                                         *)
(* A definition X_Y in front of a definition X is X as a plausible mistake *)
(* would have it; nothing uses it, and the README says which property      *)
(* tells it from X.                                                        *)
(***************************************************************************)
EXTENDS Naturals

CONSTANTS
    Tasks,           \* the entities of the workspace: its PR, its issues
    Fields,          \* MutationField
    Values,          \* what a field can hold
    MaxAttempts,     \* MAX_ATTEMPTS
    SettleDeadline,  \* SETTLE_DEADLINE
    BackoffUnit      \* the 15 seconds of backoff_secs

ASSUME ReducerConstants ==
    /\ MaxAttempts \in Nat \ {0}
    /\ SettleDeadline \in Nat
    /\ BackoffUnit \in Nat

Phases == {"Accepted", "Sent", "Acked", "Uncertain", "RetryScheduled"}

\* `at' is the instant the phase carries: Acked{at}, Uncertain{since},
\* RetryScheduled{not_before}; the other phases leave the last one behind.
PendingMutation ==
    [task : Tasks, field : Fields, desired : Values, previous : Values,
     claimed : Nat, issued_at : Nat, phase : Phases, at : Nat, attempts : Nat]

FailureClass == {"Transient", "Rejected", "Uncertain"}

\* An entity is the part of a Task the ledger owns.
Entity == [Fields -> Values]

EmptyLedger ==
    [next_id |-> 0, generations |-> [f \in Fields |-> 0], pending |-> << >>]

IsLedger(l) ==
    /\ l = [next_id |-> l.next_id, generations |-> l.generations,
            pending |-> l.pending]
    /\ l.next_id \in Nat
    /\ l.generations \in [Fields -> Nat]
    /\ DOMAIN l.pending \subseteq Nat
    /\ l.pending \in [DOMAIN l.pending -> PendingMutation]

-----------------------------------------------------------------------------
reached_provider(op) == op.phase \in {"Sent", "Acked", "Uncertain"}

settles_from_Request(op) == op.issued_at
settles_from(op) == IF op.phase = "Acked" THEN op.at ELSE op.issued_at

settled_by_NoDeadline(op, revision, now) ==
    op.phase = "Uncertain" \/ revision >= settles_from(op)
settled_by(op, revision, now) ==
    \/ op.phase = "Uncertain"
    \/ revision >= settles_from(op)
    \/ now >= op.issued_at + SettleDeadline

is_current(l, op) == l.generations[op.field] = op.claimed

remove(l, ids) ==
    [l EXCEPT !.pending = [i \in (DOMAIN l.pending) \ ids |-> l.pending[i]]]

bump_Nothing(l, fields) == l
bump(l, fields) ==
    [l EXCEPT !.generations =
        [f \in Fields |-> IF f \in fields THEN l.generations[f] + 1
                                          ELSE l.generations[f]]]

\* The pending operations on one field of one entity.
Claims(l, t, f) ==
    {i \in DOMAIN l.pending : l.pending[i].task = t /\ l.pending[i].field = f}

Oldest(ids) == CHOOSE i \in ids : \A j \in ids : i <= j
Newest(ids) == CHOOSE i \in ids : \A j \in ids : j <= i

\* The claims that still own their field: the only ones that paint.
Owners(l, t, f) == {i \in Claims(l, t, f) : is_current(l, l.pending[i])}

overlay(l, t, entity) ==
    [f \in Fields |->
        IF Owners(l, t, f) = {} THEN entity[f]
        ELSE l.pending[Newest(Owners(l, t, f))].desired]

restore_Nothing(op, entity) == entity
restore(op, entity) == [entity EXCEPT ![op.field] = op.previous]

backoff_Backwards(attempts) == 0 - attempts * BackoffUnit
backoff(attempts) == attempts * BackoffUnit

\* A retried effect carries the instant it may run at; the others run at once.
Effect(kind, id, at) == [kind |-> kind, id |-> id, at |-> at]

(***************************************************************************)
(* Each handler returns the ledger, the entity as `apply' leaves it (the   *)
(* trailing overlay included) and the effects.  Settled is left out of the *)
(* effects: the coordinator does nothing but log it.                       *)
(***************************************************************************)
Outcome_Unpainted(l, t, entity, effects) ==
    [ledger |-> l, entity |-> entity, effects |-> effects]
Outcome(l, t, entity, effects) ==
    [ledger |-> l, entity |-> overlay(l, t, entity), effects |-> effects]

\* What the provider last said of a field: the entity does not show it while
\* an earlier write of ours is painting it.
Baseline_OffTheRow(l, t, f, entity) == entity[f]
Baseline(l, t, f, entity) ==
    IF Claims(l, t, f) = {} THEN entity[f]
    ELSE l.pending[Oldest(Claims(l, t, f))].previous

on_requested(l, t, f, v, now, entity) ==
    LET superseded == {i \in Claims(l, t, f) : ~reached_provider(l.pending[i])}
        kept       == remove(bump(l, {f}), superseded)
        id         == l.next_id
        op         == [task |-> t, field |-> f, desired |-> v,
                       previous |-> Baseline(l, t, f, entity),
                       claimed |-> kept.generations[f], issued_at |-> now,
                       phase |-> "Accepted", at |-> now, attempts |-> 0]
    IN  Outcome([kept EXCEPT
                    !.next_id = id + 1,
                    !.pending = [i \in DOMAIN kept.pending \cup {id} |->
                                    IF i = id THEN op ELSE kept.pending[i]]],
                t, entity, {Effect("Send", id, now)})

update(l, id, op) == [l EXCEPT !.pending[id] = op]

\* A verdict may name an operation that has already left the ledger.
on_sent(l, t, id, entity) ==
    IF id \notin DOMAIN l.pending THEN Outcome(l, t, entity, {})
    ELSE Outcome(update(l, id, [l.pending[id] EXCEPT !.phase = "Sent"]),
                 t, entity, {})

on_acked(l, t, id, now, entity) ==
    IF id \notin DOMAIN l.pending THEN Outcome(l, t, entity, {})
    ELSE Outcome(update(l, id, [l.pending[id] EXCEPT !.phase = "Acked",
                                                     !.at = now]),
                 t, entity, {})

MayRetry_OneMore(op, class) == class = "Transient" /\ op.attempts < MaxAttempts
MayRetry(op, class) == class = "Transient" /\ op.attempts + 1 < MaxAttempts

on_failed(l, t, id, class, now, entity) ==
    LET op        == l.pending[id]
        uncertain == [op EXCEPT !.phase = "Uncertain", !.at = now]
        again     == [op EXCEPT !.phase = "RetryScheduled",
                                !.attempts = op.attempts + 1,
                                !.at = now + backoff(op.attempts + 1)]
        dropped(effects) ==
            Outcome(remove(l, {id}), t, restore(op, entity), effects)
    IN  IF id \notin DOMAIN l.pending
        THEN Outcome(l, t, entity, {})
        ELSE IF class = "Uncertain"
        THEN Outcome(update(l, id, uncertain), t, entity,
                     {Effect("Reconcile", id, now)})
        ELSE IF ~is_current(l, op)
        THEN dropped({})
        ELSE IF MayRetry(op, class)
        THEN Outcome(update(l, id, again), t, entity,
                     {Effect("Retry", id, again.at)})
        ELSE dropped({Effect("Report", id, now)})

on_cancelled(l, t, fields, now, entity) ==
    LET affected == UNION {Claims(l, t, f) : f \in fields}
        onWire   == {i \in affected : reached_provider(l.pending[i])}
        dropped  == affected \ onWire
        restored == [f \in Fields |->
                        IF Claims(l, t, f) \cap dropped = {} THEN entity[f]
                        ELSE l.pending[Newest(Claims(l, t, f) \cap dropped)].previous]
    IN  IF fields = {} THEN Outcome(l, t, entity, {})
        ELSE Outcome(remove(bump(l, fields), dropped), t, restored,
                     {Effect("Reconcile", i, now) : i \in onWire})

\* A poll, or a targeted re-read, delivers what the provider holds.
reconcile_observation(l, t, observed, revision, now) ==
    LET settled == {i \in DOMAIN l.pending :
                        /\ l.pending[i].task = t
                        /\ settled_by(l.pending[i], revision, now)}
        kept    == remove(l, settled)
        fresh   == [kept EXCEPT !.pending =
                      [i \in DOMAIN kept.pending |->
                        IF kept.pending[i].task = t
                        THEN [kept.pending[i] EXCEPT
                                !.previous = observed[kept.pending[i].field]]
                        ELSE kept.pending[i]]]
    IN  Outcome(fresh, t, observed, {})

\* Across a restart nobody knows any more what became of these.
InDoubt_UnlessSent(op) == op.phase = "Uncertain"
InDoubt(op) == op.phase \in {"Sent", "Uncertain"}

\* Startup: what is in doubt is read back, what was not sent is (re)issued.
recover(l, now) ==
    LET unknown(i) == InDoubt(l.pending[i])
        again(i)   == l.pending[i].phase = "RetryScheduled"
        effect(i)  == IF unknown(i) THEN Effect("Reconcile", i, now)
                      ELSE IF again(i)
                      THEN Effect("Retry", i, IF l.pending[i].at > now
                                              THEN l.pending[i].at ELSE now)
                      ELSE Effect("Send", i, now)
    IN  [ledger  |-> [l EXCEPT !.pending =
                        [i \in DOMAIN l.pending |->
                            IF unknown(i)
                            THEN [l.pending[i] EXCEPT !.phase = "Uncertain",
                                                      !.at = now]
                            ELSE l.pending[i]]],
         effects |-> {effect(i) : i \in {j \in DOMAIN l.pending :
                                            l.pending[j].phase # "Acked"}}]
=============================================================================
