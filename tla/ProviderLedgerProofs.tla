------------------------ MODULE ProviderLedgerProofs ------------------------
(***************************************************************************)
(* For every set of entities, fields and values, every attempt budget and  *)
(* every bound: the ledger's invariants hold in every reachable state.     *)
(***************************************************************************)
EXTENDS ProviderLedger, TLAPS, WellFoundedInduction

\* < on the naturals, as the relation the well-foundedness theorems speak of.
LEMMA LessIsRelated ==
    ASSUME NEW i \in Nat, NEW j \in Nat, j < i
    PROVE  <<j, i>> \in OpToRel(<, Nat)
BY DEF OpToRel

\* A non-empty set of naturals has a least element.
LEMMA LeastExists ==
    ASSUME NEW S \in SUBSET Nat, S # {}
    PROVE  \E i \in S : \A j \in S : i <= j
<1>1. \E i \in S : \A j \in S : ~(<<j, i>> \in OpToRel(<, Nat))
    BY NatLessThanWellFounded, WFMin
<1>2. PICK i \in S : \A j \in S : ~(<<j, i>> \in OpToRel(<, Nat))
    BY <1>1
<1>3. ASSUME NEW j \in S PROVE i <= j
    <2>1. i \in Nat /\ j \in Nat OBVIOUS
    <2>2. ~(j < i) BY <1>2, <2>1, LessIsRelated
    <2> QED BY <2>1, <2>2
<1> QED BY <1>3

\* A non-empty set of identities has a first and, identities being bounded by
\* the next one, a last: the baseline a request inherits, or a cancellation
\* restores, is that of an operation that is really in the ledger.
LEMMA OldestIsMember ==
    ASSUME NEW S \in SUBSET Nat, S # {}
    PROVE  Oldest(S) \in S
BY LeastExists DEF Oldest

\* The newest of a non-empty set of identities below `next_id' is one of them.
LEMMA NewestIsMember ==
    ASSUME NEW S \in SUBSET Nat, S # {}, NEW n \in Nat, \A s \in S : s < n
    PROVE  Newest(S) \in S
<1> DEFINE T == {n - s : s \in S}
<1>1. T \in SUBSET Nat /\ T # {}
    <2>1. \A s \in S : n - s \in Nat OBVIOUS
    <2>2. PICK s \in S : TRUE OBVIOUS
    <2>3. n - s \in T BY <2>2
    <2> QED BY <2>1, <2>3
<1>2. PICK x \in T : \A y \in T : x <= y BY <1>1, LeastExists
<1>3. PICK s \in S : x = n - s BY <1>2
<1>4. ASSUME NEW r \in S PROVE r <= s
    <2>1. n - s <= n - r BY <1>2, <1>3
    <2> QED BY <2>1
<1> QED BY <1>4 DEF Newest

\* Generations order the claims of a field, so at most one of them owns it.
LEMMA OneOwner ==
    ASSUME NEW l, IsLedger(l), Ordered(l), NEW t, NEW f,
           NEW i \in Owners(l, t, f), NEW j \in Owners(l, t, f)
    PROVE  i = j
<1>1. /\ i \in Nat /\ j \in Nat
      /\ i \in DOMAIN l.pending /\ j \in DOMAIN l.pending
      /\ l.pending[i].field = f /\ l.pending[j].field = f
      /\ l.pending[i].claimed = l.pending[j].claimed
      /\ l.pending[i].claimed \in Nat
    BY DEF Owners, Claims, is_current, IsLedger, PendingMutation
<1> QED BY <1>1 DEF Ordered

\* So "later operations win" has nothing to decide: the operation that paints
\* a field is the one that owns it.
LEMMA OverlayShowsOwner ==
    ASSUME NEW l, IsLedger(l), Ordered(l), NEW t, NEW f \in Fields, NEW e,
           NEW i \in Owners(l, t, f)
    PROVE  overlay(l, t, e)[f] = l.pending[i].desired
<1>1. i \in Nat /\ Owners(l, t, f) \subseteq Nat
    BY DEF Owners, Claims, IsLedger
<1>2. \A j \in Owners(l, t, f) : j = i
    BY OneOwner
<1>3. Newest(Owners(l, t, f)) = i
    BY <1>1, <1>2 DEF Newest
<1> QED BY <1>3 DEF overlay

\* The overlay leaves a field alone that nobody owns.
LEMMA OverlayWithoutOwner ==
    ASSUME NEW l, NEW t, NEW f \in Fields, NEW e, Owners(l, t, f) = {}
    PROVE  overlay(l, t, e)[f] = e[f]
BY DEF overlay

\* The overlay of an entity is an entity.
LEMMA OverlayType ==
    ASSUME NEW l, IsLedger(l), Ordered(l), NEW t, NEW e \in Entity
    PROVE  overlay(l, t, e) \in Entity
<1>1. ASSUME NEW f \in Fields PROVE overlay(l, t, e)[f] \in Values
    <2>1. CASE Owners(l, t, f) = {}
        BY <2>1, OverlayWithoutOwner DEF Entity
    <2>2. CASE Owners(l, t, f) # {}
        <3>1. PICK i \in Owners(l, t, f) : TRUE BY <2>2
        <3>2. overlay(l, t, e)[f] = l.pending[i].desired
            BY OverlayShowsOwner
        <3> QED BY <3>1, <3>2 DEF Owners, Claims, IsLedger, PendingMutation
    <2> QED BY <2>1, <2>2
<1>2. overlay(l, t, e) = [f \in Fields |-> overlay(l, t, e)[f]]
    BY DEF overlay
<1> QED BY <1>1, <1>2 DEF Entity

-----------------------------------------------------------------------------
\* What an event about entity t leaves alone: the operations of the other
\* entities, and every generation's order.
Frame(l, m, t) ==
    /\ \A i \in DOMAIN l.pending : l.pending[i].task # t =>
            i \in DOMAIN m.pending /\ m.pending[i] = l.pending[i]
    /\ \A i \in DOMAIN m.pending : m.pending[i].task # t =>
            i \in DOMAIN l.pending /\ m.pending[i] = l.pending[i]
    /\ \A f \in Fields : l.generations[f] <= m.generations[f]

\* The baselines and budgets of a ledger, against an observation history.
Grounded(l, obs) ==
    \A i \in DOMAIN l.pending :
        /\ l.pending[i].previous = obs[l.pending[i].task].value[l.pending[i].field]
        /\ l.pending[i].attempts < MaxAttempts

\* Every field no operation is about to paint shows something legitimate.
Accounted(l, t, e, obs) ==
    \A f \in Fields :
        \/ Owners(l, t, f) # {}
        \/ e[f] = obs[t].value[f]
        \/ \E i \in Claims(l, t, f) : e[f] = l.pending[i].desired

IInv == TypeOK /\ LedgerInv

\* Every handler ends in the overlay.  If what it did to the ledger is well
\* ordered, grounded and framed, and what it did to the entity is accounted
\* for, the overlay re-establishes the whole invariant.
LEMMA OverlaySound ==
    ASSUME IInv, NEW t \in Tasks, NEW m, NEW e \in Entity,
           IsLedger(m), Ordered(m), Frame(ledger, m, t),
           observed' \in [Tasks -> Observations],
           \A s \in Tasks : s # t => observed'[s] = observed[s],
           Grounded(m, observed'), Accounted(m, t, e, observed'),
           ledger' = m, row' = [row EXCEPT ![t] = overlay(m, t, e)],
           now' \in Nat
    PROVE  IInv'
<1>1. overlay(m, t, e) \in Entity
    BY OverlayType
<1>2. TypeOK'
    BY <1>1 DEF IInv, TypeOK
<1>3. ClaimsOrdered' /\ BaselineIsObserved' /\ AttemptsBounded'
    BY DEF ClaimsOrdered, BaselineIsObserved, AttemptsBounded, Grounded
<1>4. ASSUME NEW s \in Tasks, s # t, NEW f \in Fields
      PROVE  /\ row'[s][f] = row[s][f]
             /\ Claims(m, s, f) = Claims(ledger, s, f)
             /\ \A i \in Claims(m, s, f) : m.pending[i] = ledger.pending[i]
             /\ Owners(m, s, f) \subseteq Owners(ledger, s, f)
    <2>1. row'[s] = row[s]
        BY <1>4 DEF IInv, TypeOK
    <2>2. Claims(m, s, f) = Claims(ledger, s, f)
        BY <1>4 DEF Frame, Claims
    <2>3. \A i \in Claims(m, s, f) : m.pending[i] = ledger.pending[i]
        BY <1>4 DEF Frame, Claims
    <2>4. ASSUME NEW i \in Owners(m, s, f) PROVE i \in Owners(ledger, s, f)
        <3>1. /\ i \in Claims(ledger, s, f) /\ m.pending[i] = ledger.pending[i]
              /\ ledger.pending[i].field = f
              /\ m.generations[f] = ledger.pending[i].claimed
            BY <2>2, <2>3 DEF Owners, Claims, is_current
        <3>2. /\ ledger.pending[i].claimed <= ledger.generations[f]
              /\ ledger.generations[f] <= m.generations[f]
              /\ ledger.generations[f] \in Nat /\ m.generations[f] \in Nat
            BY <3>1 DEF IInv, LedgerInv, ClaimsOrdered, Ordered, Claims, Frame,
                        TypeOK, IsLedger
        <3> QED BY <3>1, <3>2 DEF Owners, is_current
    <2> QED BY <2>1, <2>2, <2>3, <2>4
<1>5. row'[t] = overlay(m, t, e)
    BY DEF IInv, TypeOK
<1>6. RowShowsOwner'
    <2> SUFFICES ASSUME NEW s \in Tasks, NEW f \in Fields,
                        NEW i \in Owners(m, s, f)
                 PROVE  row'[s][f] = m.pending[i].desired
        BY DEF RowShowsOwner
    <2>1. CASE s = t
        BY <2>1, <1>5, OverlayShowsOwner
    <2>2. CASE s # t
        <3>1. i \in Owners(ledger, s, f) /\ i \in Claims(m, s, f)
            BY <2>2, <1>4 DEF Owners
        <3>2. row[s][f] = ledger.pending[i].desired
            BY <3>1 DEF IInv, LedgerInv, RowShowsOwner
        <3> QED BY <2>2, <1>4, <3>1, <3>2
    <2> QED BY <2>1, <2>2
<1>7. RowIsAccountedFor'
    <2> SUFFICES ASSUME NEW s \in Tasks, NEW f \in Fields
                 PROVE  \/ row'[s][f] = observed'[s].value[f]
                        \/ \E i \in Claims(m, s, f) :
                                row'[s][f] = m.pending[i].desired
        BY DEF RowIsAccountedFor
    <2>1. CASE s # t
        BY <2>1, <1>4 DEF IInv, LedgerInv, RowIsAccountedFor
    <2>2. CASE s = t /\ Owners(m, t, f) = {}
        BY <2>2, <1>5, OverlayWithoutOwner DEF Accounted
    <2>3. CASE s = t /\ Owners(m, t, f) # {}
        <3>1. PICK i \in Owners(m, t, f) : TRUE BY <2>3
        <3>2. row'[t][f] = m.pending[i].desired
            BY <1>5, OverlayShowsOwner
        <3> QED BY <2>3, <3>1, <3>2 DEF Owners
    <2> QED BY <2>1, <2>2, <2>3
<1> QED BY <1>2, <1>3, <1>6, <1>7 DEF IInv, LedgerInv

-----------------------------------------------------------------------------
\* An operation of the ledger, unfolded.
LEMMA PendingFacts ==
    ASSUME IInv, NEW i \in DOMAIN ledger.pending
    PROVE  /\ i \in Nat /\ i < ledger.next_id /\ ledger.next_id \in Nat
           /\ ledger.pending[i] \in PendingMutation
           /\ ledger.pending[i].task \in Tasks
           /\ ledger.pending[i].field \in Fields
           /\ ledger.pending[i].claimed \in Nat
           /\ ledger.pending[i].attempts \in Nat
           /\ ledger.pending[i].previous \in Values
           /\ ledger.generations[ledger.pending[i].field] \in Nat
BY DEF IInv, TypeOK, LedgerInv, ClaimsOrdered, Ordered, IsLedger, PendingMutation

\* Dropping operations of entity t, and moving the generations of some
\* fields forward, disorders nothing.
Pruned(m, ids, fields, t) ==
    /\ IsLedger(m) /\ Ordered(m)
    /\ Frame(ledger, m, t) /\ Grounded(m, observed)
    /\ m.next_id = ledger.next_id
    /\ DOMAIN m.pending = (DOMAIN ledger.pending) \ ids
    /\ \A i \in DOMAIN m.pending : m.pending[i] = ledger.pending[i]
    /\ m.generations = [f \in Fields |-> IF f \in fields
                          THEN ledger.generations[f] + 1
                          ELSE ledger.generations[f]]

\* `remove' and `bump', as every handler combines them, prune.
LEMMA PruneSound ==
    ASSUME IInv, NEW ids, NEW fields \in SUBSET Fields, NEW t \in Tasks,
           \A i \in ids : i \in DOMAIN ledger.pending
                            => ledger.pending[i].task = t
    PROVE  Pruned(remove(bump(ledger, fields), ids), ids, fields, t)
<1>a. PICK b : b = bump(ledger, fields) OBVIOUS
<1>b. PICK m : m = remove(b, ids) OBVIOUS
<1>c. /\ b.next_id = ledger.next_id /\ b.pending = ledger.pending
      /\ b.generations = [f \in Fields |-> IF f \in fields
                            THEN ledger.generations[f] + 1
                            ELSE ledger.generations[f]]
      /\ b = [next_id |-> b.next_id, generations |-> b.generations,
              pending |-> b.pending]
    BY <1>a DEF IInv, TypeOK, IsLedger, bump
<1>1. /\ m.next_id = ledger.next_id
      /\ m.generations = [f \in Fields |-> IF f \in fields
                            THEN ledger.generations[f] + 1
                            ELSE ledger.generations[f]]
      /\ m.pending = [i \in (DOMAIN ledger.pending) \ ids |-> ledger.pending[i]]
      /\ m = [next_id |-> m.next_id, generations |-> m.generations,
              pending |-> m.pending]
    BY <1>b, <1>c DEF remove
<1>2. DOMAIN m.pending = (DOMAIN ledger.pending) \ ids
    BY <1>1
<1>3. \A i \in DOMAIN m.pending : m.pending[i] = ledger.pending[i]
    BY <1>1
<1>4. \A f \in Fields : /\ ledger.generations[f] \in Nat
                        /\ m.generations[f] \in Nat
                        /\ ledger.generations[f] <= m.generations[f]
    BY <1>1 DEF IInv, TypeOK, IsLedger
<1>5. IsLedger(m)
    <2>1. m.generations \in [Fields -> Nat] BY <1>1, <1>4
    <2>2. m.pending \in [DOMAIN m.pending -> PendingMutation]
        BY <1>1, <1>2, <1>3, PendingFacts
    <2> QED BY <1>1, <1>2, <2>1, <2>2 DEF IsLedger, IInv, TypeOK
<1>6. Ordered(m)
    <2> SUFFICES ASSUME NEW i \in DOMAIN m.pending
                 PROVE  /\ i < m.next_id
                        /\ m.pending[i].claimed
                              <= m.generations[m.pending[i].field]
                        /\ \A j \in DOMAIN m.pending :
                             (m.pending[i].field = m.pending[j].field /\ i < j)
                               => m.pending[i].claimed < m.pending[j].claimed
        BY DEF Ordered
    <2>1. i \in DOMAIN ledger.pending /\ m.pending[i] = ledger.pending[i]
        BY <1>2, <1>3
    <2>2. m.pending[i].claimed <= m.generations[m.pending[i].field]
        BY <2>1, <1>4, PendingFacts DEF IInv, LedgerInv, ClaimsOrdered, Ordered
    <2> QED BY <1>1, <1>2, <1>3, <2>1, <2>2
            DEF IInv, LedgerInv, ClaimsOrdered, Ordered
<1>7. Frame(ledger, m, t)
    BY <1>2, <1>3, <1>4 DEF Frame
<1>8. Grounded(m, observed)
    BY <1>2, <1>3 DEF Grounded, IInv, LedgerInv, BaselineIsObserved,
                      AttemptsBounded
<1>9. Pruned(m, ids, fields, t)
    BY <1>1, <1>2, <1>3, <1>5, <1>6, <1>7, <1>8 DEF Pruned
<1> QED BY <1>9, <1>a, <1>b

\* Appending a freshly numbered operation, claimed at the newest generation
\* of its field and grounded in the last observation, disorders nothing
\* either, and makes it the owner.
Appended(k, op) ==
    [k EXCEPT !.next_id = ledger.next_id + 1,
              !.pending = [i \in DOMAIN k.pending \cup {ledger.next_id} |->
                              IF i = ledger.next_id THEN op ELSE k.pending[i]]]

Grown(m, k, t, f) ==
    /\ IsLedger(m) /\ Ordered(m)
    /\ Frame(ledger, m, t) /\ Grounded(m, observed)
    /\ ledger.next_id \in Owners(m, t, f)
    /\ DOMAIN k.pending \subseteq DOMAIN m.pending
    /\ \A i \in DOMAIN k.pending : m.pending[i] = ledger.pending[i]

\* What `on_requested' appends grows a pruned ledger.
LEMMA AppendSound ==
    ASSUME IInv, NEW t \in Tasks, NEW f \in Fields, NEW k, NEW ids,
           Pruned(k, ids, {f}, t),
           NEW op \in PendingMutation, op.task = t, op.field = f,
           op.claimed = k.generations[f], op.attempts = 0,
           op.previous = observed[t].value[f]
    PROVE  Grown(Appended(k, op), k, t, f)
<1>0. PICK m : m = Appended(k, op) OBVIOUS
<1> DEFINE id == ledger.next_id
<1>1. /\ k = [next_id |-> k.next_id, generations |-> k.generations,
              pending |-> k.pending]
      /\ k.next_id = id /\ id \in Nat
      /\ ledger.generations[f] \in Nat
      /\ k.generations[f] = ledger.generations[f] + 1
      /\ k.generations \in [Fields -> Nat]
    BY DEF Pruned, IsLedger, IInv, TypeOK
<1>2. /\ m.next_id = id + 1 /\ m.generations = k.generations
      /\ m.pending = [i \in DOMAIN k.pending \cup {id} |->
                          IF i = id THEN op ELSE k.pending[i]]
      /\ m = [next_id |-> m.next_id, generations |-> m.generations,
              pending |-> m.pending]
    BY <1>0, <1>1 DEF Appended
<1>3. \A i \in DOMAIN k.pending :
            /\ i \in DOMAIN ledger.pending /\ i \in Nat /\ i < id
            /\ k.pending[i] = ledger.pending[i]
    BY PendingFacts DEF Pruned
<1>4. /\ DOMAIN m.pending = DOMAIN k.pending \cup {id}
      /\ m.pending[id] = op
      /\ \A i \in DOMAIN k.pending : m.pending[i] = ledger.pending[i]
    BY <1>1, <1>2, <1>3
<1>5. IsLedger(m)
    <2>1. \A i \in DOMAIN m.pending : m.pending[i] \in PendingMutation
        BY <1>3, <1>4, PendingFacts
    <2>2. m.pending \in [DOMAIN m.pending -> PendingMutation]
        BY <1>2, <2>1
    <2>3. DOMAIN m.pending \subseteq Nat
        BY <1>1, <1>3, <1>4
    <2> QED BY <1>1, <1>2, <2>2, <2>3 DEF IsLedger
<1>6. Ordered(m)
    <2> SUFFICES ASSUME NEW i \in DOMAIN m.pending
                 PROVE  /\ i < m.next_id
                        /\ m.pending[i].claimed
                              <= m.generations[m.pending[i].field]
                        /\ \A j \in DOMAIN m.pending :
                             (m.pending[i].field = m.pending[j].field /\ i < j)
                               => m.pending[i].claimed < m.pending[j].claimed
        BY DEF Ordered
    <2>1. CASE i = id
        <3>1. \A j \in DOMAIN m.pending : ~(i < j)
            BY <2>1, <1>1, <1>3, <1>4
        <3> QED BY <2>1, <3>1, <1>1, <1>2, <1>4
    <2>2. CASE i # id
        <3>1. /\ i \in DOMAIN k.pending /\ i \in DOMAIN ledger.pending
              /\ m.pending[i] = ledger.pending[i] /\ i < id /\ i \in Nat
            BY <2>2, <1>3, <1>4
        <3>2. m.pending[i].claimed <= m.generations[m.pending[i].field]
            BY <3>1, <1>2 DEF Pruned, Ordered
        <3>3. ASSUME NEW j \in DOMAIN m.pending,
                     m.pending[i].field = m.pending[j].field, i < j
              PROVE  m.pending[i].claimed < m.pending[j].claimed
            <4>1. CASE j = id
                <5>1. m.pending[i].claimed <= ledger.generations[f]
                    BY <4>1, <3>1, <3>3, <1>4
                       DEF IInv, LedgerInv, ClaimsOrdered, Ordered
                <5>2. m.pending[j].claimed = ledger.generations[f] + 1
                    BY <4>1, <1>1, <1>4
                <5> QED BY <5>1, <5>2, <3>1, <1>1, PendingFacts
            <4>2. CASE j # id
                BY <4>2, <3>1, <3>3, <1>3, <1>4
                   DEF IInv, LedgerInv, ClaimsOrdered, Ordered
            <4> QED BY <4>1, <4>2
        <3>4. i < m.next_id
            BY <3>1, <1>1, <1>2
        <3> QED BY <3>2, <3>3, <3>4
    <2> QED BY <2>1, <2>2
<1>7. Frame(ledger, m, t)
    BY <1>2, <1>3, <1>4 DEF Frame, Pruned
<1>8. Grounded(m, observed)
    <2>1. op.attempts < MaxAttempts BY ReducerConstants
    <2> QED BY <2>1, <1>3, <1>4 DEF Grounded, IInv, LedgerInv,
                                    BaselineIsObserved, AttemptsBounded
<1>9. id \in Owners(m, t, f)
    BY <1>2, <1>4 DEF Owners, Claims, is_current
<1> QED BY <1>0, <1>4, <1>5, <1>6, <1>7, <1>8, <1>9 DEF Grown

\* A request (`on_requested') re-establishes the invariant.
LEMMA RequestSound ==
    ASSUME IInv, NEW t \in Tasks, NEW f \in Fields, NEW v \in Values,
           Request(t, f, v)
    PROVE  IInv'
<1> DEFINE claims == Claims(ledger, t, f)
           previous == IF claims = {} THEN row[t][f]
                       ELSE ledger.pending[Oldest(claims)].previous
           ids == {i \in claims : ~reached_provider(ledger.pending[i])}
           kept == remove(bump(ledger, {f}), ids)
           new == [task |-> t, field |-> f, desired |-> v,
                   previous |-> previous,
                   claimed |-> kept.generations[f], issued_at |-> now,
                   phase |-> "Accepted", at |-> now, attempts |-> 0]
<1>1. Pruned(kept, ids, {f}, t)
    <2>1. {f} \in SUBSET Fields OBVIOUS
    <2>2. \A i \in ids : i \in DOMAIN ledger.pending
                            => ledger.pending[i].task = t
        BY DEF Claims
    <2> QED BY <2>1, <2>2, PruneSound
<1>2. previous = observed[t].value[f] /\ previous \in Values
    <2>1. CASE claims = {}
        <3>1. row[t][f] = observed[t].value[f]
            BY <2>1 DEF IInv, LedgerInv, RowIsAccountedFor
        <3> QED BY <2>1, <3>1 DEF IInv, TypeOK, Entity
    <2>2. CASE claims # {}
        <3>1. claims \in SUBSET Nat BY DEF Claims, IInv, TypeOK, IsLedger
        <3>2. Oldest(claims) \in claims BY <2>2, <3>1, OldestIsMember
        <3> QED BY <2>2, <3>2, PendingFacts
                DEF Claims, IInv, LedgerInv, BaselineIsObserved
    <2> QED BY <2>1, <2>2
<1>3. /\ ledger' = Appended(kept, new)
      /\ row' = [row EXCEPT ![t] = overlay(Appended(kept, new), t, row[t])]
      /\ observed' = observed /\ now' = now
    BY DEF Request, Commit, on_requested, Baseline, Outcome, Appended
<1> HIDE DEF kept
<1>4. new \in PendingMutation
    <2>1. kept.generations[f] \in Nat
        BY <1>1 DEF Pruned, IsLedger
    <2>2. now \in Nat BY DEF IInv, TypeOK
    <2> QED BY <1>2, <2>1, <2>2 DEF PendingMutation, Phases
<1>5. /\ new.task = t /\ new.field = f /\ new.claimed = kept.generations[f]
      /\ new.attempts = 0 /\ new.previous = observed[t].value[f]
    BY <1>2
<1> HIDE DEF new, previous
<1>6. PICK m : m = Appended(kept, new) OBVIOUS
<1>7. Grown(m, kept, t, f)
    <2> HIDE DEF ids
    <2> QED BY <1>1, <1>4, <1>5, <1>6, AppendSound
<1>8. Accounted(m, t, row[t], observed)
    <2> SUFFICES ASSUME NEW g \in Fields, Owners(m, t, g) = {},
                        row[t][g] # observed[t].value[g]
                 PROVE  \E i \in Claims(m, t, g) : row[t][g] = m.pending[i].desired
        BY DEF Accounted
    <2>1. g # f
        BY <1>7 DEF Grown
    <2>2. PICK i \in Claims(ledger, t, g) : row[t][g] = ledger.pending[i].desired
        BY DEF IInv, LedgerInv, RowIsAccountedFor
    <2>3. i \in DOMAIN kept.pending
        BY <2>1, <2>2, <1>1 DEF Claims, Pruned
    <2> QED BY <2>2, <2>3, <1>7 DEF Claims, Grown
<1>9. /\ ledger' = m /\ row' = [row EXCEPT ![t] = overlay(m, t, row[t])]
    BY <1>3, <1>6
<1>10. row[t] \in Entity /\ observed' \in [Tasks -> Observations] /\ now' \in Nat
    BY <1>3 DEF IInv, TypeOK
<1> QED BY <1>3, <1>7, <1>8, <1>9, <1>10, OverlaySound DEF Grown

-----------------------------------------------------------------------------
\* Events that only move operations between phases: who claims what, at which
\* generation, for which value and over which baseline stays as it is.
Relabelled(m) ==
    /\ IsLedger(m)
    /\ m.next_id = ledger.next_id
    /\ m.generations = ledger.generations
    /\ DOMAIN m.pending = DOMAIN ledger.pending
    /\ \A i \in DOMAIN ledger.pending :
          /\ m.pending[i].task = ledger.pending[i].task
          /\ m.pending[i].field = ledger.pending[i].field
          /\ m.pending[i].desired = ledger.pending[i].desired
          /\ m.pending[i].previous = ledger.pending[i].previous
          /\ m.pending[i].claimed = ledger.pending[i].claimed
          /\ m.pending[i].attempts < MaxAttempts

\* Giving operations new phases keeps every claim, owner and baseline.
LEMMA RelabelSound ==
    ASSUME IInv, NEW m, Relabelled(m)
    PROVE  /\ Ordered(m) /\ Grounded(m, observed)
           /\ \A t \in Tasks, f \in Fields :
                /\ Claims(m, t, f) = Claims(ledger, t, f)
                /\ Owners(m, t, f) = Owners(ledger, t, f)
<1>1. Ordered(m)
    BY DEF Relabelled, IInv, LedgerInv, ClaimsOrdered, Ordered
<1>2. Grounded(m, observed)
    BY DEF Relabelled, Grounded, IInv, LedgerInv, BaselineIsObserved
<1>3. \A t \in Tasks, f \in Fields : Claims(m, t, f) = Claims(ledger, t, f)
    BY DEF Relabelled, Claims
<1>4. \A t \in Tasks, f \in Fields : Owners(m, t, f) = Owners(ledger, t, f)
    <2> TAKE t \in Tasks, f \in Fields
    <2>1. \A i \in Claims(ledger, t, f) :
            is_current(m, m.pending[i]) <=> is_current(ledger, ledger.pending[i])
        BY DEF Relabelled, Claims, is_current
    <2> QED BY <1>3, <2>1 DEF Owners
<1> QED BY <1>1, <1>2, <1>3, <1>4

\* ... so an event that relabels one operation of entity t, or none, and ends
\* in the overlay keeps the invariant.
LEMMA RelabelCommitSound ==
    ASSUME IInv, NEW t \in Tasks, NEW m, Relabelled(m),
           \A i \in DOMAIN ledger.pending : ledger.pending[i].task # t
                => m.pending[i] = ledger.pending[i],
           ledger' = m, row' = [row EXCEPT ![t] = overlay(m, t, row[t])],
           observed' = observed, now' = now
    PROVE  IInv'
<1>1. IsLedger(m) /\ Ordered(m) /\ Grounded(m, observed)
    BY RelabelSound DEF Relabelled
<1>2. Frame(ledger, m, t)
    <2>1. \A f \in Fields : m.generations[f] \in Nat
        BY <1>1 DEF IsLedger
    <2> QED BY <2>1 DEF Relabelled, Frame
<1>3. Accounted(m, t, row[t], observed)
    <2> SUFFICES ASSUME NEW f \in Fields, row[t][f] # observed[t].value[f]
                 PROVE  \E i \in Claims(m, t, f) : row[t][f] = m.pending[i].desired
        BY DEF Accounted
    <2>1. PICK i \in Claims(ledger, t, f) : row[t][f] = ledger.pending[i].desired
        BY DEF IInv, LedgerInv, RowIsAccountedFor
    <2>2. i \in Claims(m, t, f) BY <2>1, RelabelSound
    <2>3. m.pending[i].desired = ledger.pending[i].desired
        BY <2>1 DEF Relabelled, Claims
    <2> QED BY <2>1, <2>2, <2>3
<1>4. row[t] \in Entity /\ observed' \in [Tasks -> Observations] /\ now' \in Nat
    BY DEF IInv, TypeOK
<1> QED BY <1>1, <1>2, <1>3, <1>4, OverlaySound

\* `update' with a new phase (and attempt count) is such a relabelling.
LEMMA UpdateSound ==
    ASSUME IInv, NEW id \in DOMAIN ledger.pending,
           NEW op \in PendingMutation, op.attempts < MaxAttempts,
           op.task = ledger.pending[id].task,
           op.field = ledger.pending[id].field,
           op.desired = ledger.pending[id].desired,
           op.previous = ledger.pending[id].previous,
           op.claimed = ledger.pending[id].claimed
    PROVE  /\ Relabelled(update(ledger, id, op))
           /\ \A i \in DOMAIN ledger.pending : i # id =>
                update(ledger, id, op).pending[i] = ledger.pending[i]
<1>0. PICK m : m = update(ledger, id, op) OBVIOUS
<1>3. /\ ledger = [next_id |-> ledger.next_id,
                   generations |-> ledger.generations,
                   pending |-> ledger.pending]
      /\ ledger.next_id \in Nat /\ ledger.generations \in [Fields -> Nat]
      /\ DOMAIN ledger.pending \subseteq Nat
    BY DEF IInv, TypeOK, IsLedger
<1>4. /\ m.next_id = ledger.next_id /\ m.generations = ledger.generations
      /\ m.pending = [i \in DOMAIN ledger.pending |->
                        IF i = id THEN op ELSE ledger.pending[i]]
      /\ m = [next_id |-> m.next_id, generations |-> m.generations,
              pending |-> m.pending]
    BY <1>0, <1>3 DEF update
<1>5. /\ DOMAIN m.pending = DOMAIN ledger.pending /\ m.pending[id] = op
      /\ \A i \in DOMAIN ledger.pending : i # id =>
            m.pending[i] = ledger.pending[i]
    BY <1>4
<1>6. m.pending \in [DOMAIN m.pending -> PendingMutation]
    BY <1>4, <1>5, PendingFacts
<1>7. IsLedger(m)
    BY <1>3, <1>4, <1>5, <1>6 DEF IsLedger
<1>8. \A i \in DOMAIN ledger.pending : m.pending[i].attempts < MaxAttempts
    BY <1>5 DEF IInv, LedgerInv, AttemptsBounded
<1> QED BY <1>0, <1>4, <1>5, <1>7, <1>8 DEF Relabelled

\* An event about an operation that has left the ledger changes no ledger.
LEMMA UnchangedRelabels ==
    ASSUME IInv
    PROVE  Relabelled(ledger)
BY DEF Relabelled, IInv, TypeOK, LedgerInv, AttemptsBounded

\* The mark that an operation is about to be handed over (OpEvent::Sent).
LEMMA SentSound ==
    ASSUME IInv, NEW id, NEW t \in Tasks, Sent(id, t)
    PROVE  IInv'
<1>1. CASE id \notin DOMAIN ledger.pending
    <2>1. /\ ledger' = ledger
          /\ row' = [row EXCEPT ![t] = overlay(ledger, t, row[t])]
          /\ observed' = observed /\ now' = now
        BY <1>1 DEF Sent, Commit, on_sent, Outcome
    <2> QED BY <2>1, UnchangedRelabels, RelabelCommitSound
<1>2. CASE id \in DOMAIN ledger.pending
    <2>1. PICK op : op = [ledger.pending[id] EXCEPT !.phase = "Sent"] OBVIOUS
    <2>2. /\ op \in PendingMutation
          /\ op.attempts = ledger.pending[id].attempts
          /\ op.task = ledger.pending[id].task
          /\ op.field = ledger.pending[id].field
          /\ op.desired = ledger.pending[id].desired
          /\ op.previous = ledger.pending[id].previous
          /\ op.claimed = ledger.pending[id].claimed
        BY <1>2, <2>1, PendingFacts DEF PendingMutation, Phases
    <2>3. op.attempts < MaxAttempts
        BY <1>2, <2>2 DEF IInv, LedgerInv, AttemptsBounded
    <2>4. PICK m : m = update(ledger, id, op) OBVIOUS
    <2>5. /\ Relabelled(m)
          /\ \A i \in DOMAIN ledger.pending : i # id =>
                m.pending[i] = ledger.pending[i]
        BY <1>2, <2>2, <2>3, <2>4, UpdateSound
    <2>6. /\ ledger' = m /\ row' = [row EXCEPT ![t] = overlay(m, t, row[t])]
          /\ observed' = observed /\ now' = now
        BY <1>2, <2>1, <2>4 DEF Sent, Commit, on_sent, Outcome
    <2>7. ledger.pending[id].task = t
        BY <1>2 DEF Sent, Verdict
    <2> QED BY <2>5, <2>6, <2>7, RelabelCommitSound
<1> QED BY <1>1, <1>2

\* The provider's acknowledgement (OpEvent::Acked), late or duplicate or not.
LEMMA AckedSound ==
    ASSUME IInv, NEW id, NEW t \in Tasks, Acked(id, t)
    PROVE  IInv'
<1>1. CASE id \notin DOMAIN ledger.pending
    <2>1. /\ ledger' = ledger
          /\ row' = [row EXCEPT ![t] = overlay(ledger, t, row[t])]
          /\ observed' = observed /\ now' = now
        BY <1>1 DEF Acked, Commit, on_acked, Outcome
    <2> QED BY <2>1, UnchangedRelabels, RelabelCommitSound
<1>2. CASE id \in DOMAIN ledger.pending
    <2>0. now \in Nat BY DEF IInv, TypeOK
    <2>1. PICK op : op = [ledger.pending[id] EXCEPT !.phase = "Acked",
                                                    !.at = now]
        OBVIOUS
    <2>2. /\ op \in PendingMutation
          /\ op.attempts = ledger.pending[id].attempts
          /\ op.task = ledger.pending[id].task
          /\ op.field = ledger.pending[id].field
          /\ op.desired = ledger.pending[id].desired
          /\ op.previous = ledger.pending[id].previous
          /\ op.claimed = ledger.pending[id].claimed
        BY <1>2, <2>0, <2>1, PendingFacts DEF PendingMutation, Phases
    <2>3. op.attempts < MaxAttempts
        BY <1>2, <2>2 DEF IInv, LedgerInv, AttemptsBounded
    <2>4. PICK m : m = update(ledger, id, op) OBVIOUS
    <2>5. /\ Relabelled(m)
          /\ \A i \in DOMAIN ledger.pending : i # id =>
                m.pending[i] = ledger.pending[i]
        BY <1>2, <2>2, <2>3, <2>4, UpdateSound
    <2>6. /\ ledger' = m /\ row' = [row EXCEPT ![t] = overlay(m, t, row[t])]
          /\ observed' = observed /\ now' = now
        BY <1>2, <2>1, <2>4 DEF Acked, Commit, on_acked, Outcome
    <2>7. ledger.pending[id].task = t
        BY <1>2 DEF Acked, Verdict
    <2> QED BY <2>5, <2>6, <2>7, RelabelCommitSound
<1> QED BY <1>1, <1>2

\* Dropping one operation and putting its baseline back.
LEMMA DropSound ==
    ASSUME IInv, NEW t \in Tasks, NEW id \in DOMAIN ledger.pending,
           ledger.pending[id].task = t,
           ledger' = remove(ledger, {id}),
           row' = [row EXCEPT ![t] = overlay(remove(ledger, {id}), t,
                                restore(ledger.pending[id], row[t]))],
           observed' = observed, now' = now
    PROVE  IInv'
<1>1. bump(ledger, {}) = ledger
    BY DEF bump, IInv, TypeOK, IsLedger
<1>2. PICK m : m = remove(ledger, {id}) OBVIOUS
<1>3. Pruned(m, {id}, {}, t)
    <2>1. {} \in SUBSET Fields OBVIOUS
    <2>2. \A i \in {id} : i \in DOMAIN ledger.pending
                            => ledger.pending[i].task = t
        OBVIOUS
    <2> QED BY <1>1, <1>2, <2>1, <2>2, PruneSound
<1>4. PICK e : e = restore(ledger.pending[id], row[t]) OBVIOUS
<1>5. /\ row[t] \in [Fields -> Values]
      /\ ledger.pending[id].field \in Fields
      /\ ledger.pending[id].previous \in Values
      /\ ledger.pending[id].previous
            = observed[t].value[ledger.pending[id].field]
    BY PendingFacts DEF IInv, TypeOK, Entity, LedgerInv, BaselineIsObserved
<1>6. /\ e \in Entity
      /\ e[ledger.pending[id].field] = ledger.pending[id].previous
      /\ \A g \in Fields : g # ledger.pending[id].field => e[g] = row[t][g]
    BY <1>4, <1>5 DEF restore, Entity
<1>7. Accounted(m, t, e, observed)
    <2> SUFFICES ASSUME NEW g \in Fields, e[g] # observed[t].value[g]
                 PROVE  \E i \in Claims(m, t, g) : e[g] = m.pending[i].desired
        BY DEF Accounted
    <2>1. g # ledger.pending[id].field /\ e[g] = row[t][g]
        BY <1>5, <1>6
    <2>2. PICK i \in Claims(ledger, t, g) : row[t][g] = ledger.pending[i].desired
        BY <2>1 DEF IInv, LedgerInv, RowIsAccountedFor
    <2>3. i \in DOMAIN m.pending /\ m.pending[i] = ledger.pending[i]
        BY <2>1, <2>2, <1>3 DEF Claims, Pruned
    <2> QED BY <2>1, <2>2, <2>3 DEF Claims
<1>8. /\ ledger' = m /\ row' = [row EXCEPT ![t] = overlay(m, t, e)]
      /\ observed' \in [Tasks -> Observations] /\ now' \in Nat
    BY <1>2, <1>4 DEF IInv, TypeOK
<1> QED BY <1>3, <1>6, <1>7, <1>8, OverlaySound DEF Pruned

\* A failure verdict (`on_failed'): retried, reconciled, or dropped and restored.
LEMMA FailedSound ==
    ASSUME IInv, NEW id, NEW t \in Tasks, NEW class \in FailureClass,
           Failed(id, t, class)
    PROVE  IInv'
<1>1. CASE id \notin DOMAIN ledger.pending
    <2>1. /\ ledger' = ledger
          /\ row' = [row EXCEPT ![t] = overlay(ledger, t, row[t])]
          /\ observed' = observed /\ now' = now
        BY <1>1 DEF Failed, Commit, on_failed, MayRetry, Outcome
    <2> QED BY <2>1, UnchangedRelabels, RelabelCommitSound
<1>2. CASE id \in DOMAIN ledger.pending
    <2>0. ledger.pending[id].task = t
        BY <1>2 DEF Failed, Verdict
    <2>1. ASSUME NEW op \in PendingMutation, op.attempts < MaxAttempts,
                 op.task = ledger.pending[id].task,
                 op.field = ledger.pending[id].field,
                 op.desired = ledger.pending[id].desired,
                 op.previous = ledger.pending[id].previous,
                 op.claimed = ledger.pending[id].claimed,
                 ledger' = update(ledger, id, op),
                 row' = [row EXCEPT ![t] = overlay(update(ledger, id, op),
                                                   t, row[t])],
                 observed' = observed, now' = now
          PROVE  IInv'
        <3>1. PICK m : m = update(ledger, id, op) OBVIOUS
        <3>2. /\ Relabelled(m)
              /\ \A i \in DOMAIN ledger.pending : i # id =>
                    m.pending[i] = ledger.pending[i]
            BY <1>2, <2>1, <3>1, UpdateSound
        <3>3. ledger' = m /\ row' = [row EXCEPT ![t] = overlay(m, t, row[t])]
            BY <2>1, <3>1
        <3> QED BY <2>0, <2>1, <3>2, <3>3, RelabelCommitSound
    <2>2. /\ now \in Nat
          /\ \A n \in Nat : now + backoff(n) \in Nat
        BY ReducerConstants DEF IInv, TypeOK, backoff
    <2>3. observed' = observed /\ now' = now
        BY DEF Failed, Commit
    <2>4. CASE class = "Uncertain"
        <3>1. PICK op : op = [ledger.pending[id] EXCEPT !.phase = "Uncertain",
                                                        !.at = now]
            OBVIOUS
        <3>2. /\ op \in PendingMutation
              /\ op.attempts = ledger.pending[id].attempts
              /\ op.task = ledger.pending[id].task
              /\ op.field = ledger.pending[id].field
              /\ op.desired = ledger.pending[id].desired
              /\ op.previous = ledger.pending[id].previous
              /\ op.claimed = ledger.pending[id].claimed
            BY <1>2, <2>2, <3>1, PendingFacts DEF PendingMutation, Phases
        <3>3. op.attempts < MaxAttempts
            BY <1>2, <3>2 DEF IInv, LedgerInv, AttemptsBounded
        <3>4. /\ ledger' = update(ledger, id, op)
              /\ row' = [row EXCEPT ![t] = overlay(update(ledger, id, op),
                                                   t, row[t])]
            BY <1>2, <2>4, <3>1 DEF Failed, Commit, on_failed, MayRetry, Outcome
        <3> QED BY <2>1, <2>3, <3>2, <3>3, <3>4
    <2>5. CASE /\ class # "Uncertain"
               /\ is_current(ledger, ledger.pending[id])
               /\ class = "Transient"
               /\ ledger.pending[id].attempts + 1 < MaxAttempts
        <3>1. PICK op : op = [ledger.pending[id] EXCEPT
                                !.phase = "RetryScheduled",
                                !.attempts = ledger.pending[id].attempts + 1,
                                !.at = now + backoff(ledger.pending[id].attempts + 1)]
            OBVIOUS
        <3>2. ledger.pending[id].attempts + 1 \in Nat
            BY <1>2, PendingFacts
        <3>3. /\ op \in PendingMutation
              /\ op.attempts = ledger.pending[id].attempts + 1
              /\ op.at = now + backoff(ledger.pending[id].attempts + 1)
              /\ op.task = ledger.pending[id].task
              /\ op.field = ledger.pending[id].field
              /\ op.desired = ledger.pending[id].desired
              /\ op.previous = ledger.pending[id].previous
              /\ op.claimed = ledger.pending[id].claimed
            BY <1>2, <2>2, <3>1, <3>2, PendingFacts DEF PendingMutation, Phases
        <3>4. /\ ledger' = update(ledger, id, op)
              /\ row' = [row EXCEPT ![t] = overlay(update(ledger, id, op),
                                                   t, row[t])]
            BY <1>2, <2>5, <3>1, <3>3 DEF Failed, Commit, on_failed, MayRetry, Outcome
        <3> QED BY <2>1, <2>3, <2>5, <3>3, <3>4
    <2>6. CASE /\ class # "Uncertain"
               /\ ~( /\ is_current(ledger, ledger.pending[id])
                     /\ class = "Transient"
                     /\ ledger.pending[id].attempts + 1 < MaxAttempts )
        <3>1. PICK op : op = [ledger.pending[id] EXCEPT
                                !.phase = "RetryScheduled",
                                !.attempts = ledger.pending[id].attempts + 1,
                                !.at = now + backoff(ledger.pending[id].attempts + 1)]
            OBVIOUS
        <3>2. op.attempts = ledger.pending[id].attempts + 1
            BY <1>2, <3>1, PendingFacts DEF PendingMutation
        <3>3. /\ ledger' = remove(ledger, {id})
              /\ row' = [row EXCEPT ![t] = overlay(remove(ledger, {id}), t,
                                restore(ledger.pending[id], row[t]))]
            BY <1>2, <2>6, <3>1, <3>2 DEF Failed, Commit, on_failed, MayRetry, Outcome
        <3> QED BY <1>2, <2>0, <2>3, <3>3, DropSound
    <2> QED BY <2>4, <2>5, <2>6
<1> QED BY <1>1, <1>2

\* A cancellation (`on_cancelled'): what never left the daemon is dropped and
\* uncovered, what may have reached the provider stays until it answers.
LEMMA CancelSound ==
    ASSUME IInv, NEW t \in Tasks, NEW fields \in SUBSET Fields,
           Cancel(t, fields)
    PROVE  IInv'
<1>1. CASE fields = {}
    <2>1. /\ ledger' = ledger
          /\ row' = [row EXCEPT ![t] = overlay(ledger, t, row[t])]
          /\ observed' = observed /\ now' = now
        BY <1>1 DEF Cancel, Commit, on_cancelled, Outcome
    <2> QED BY <2>1, UnchangedRelabels, RelabelCommitSound
<1>2. CASE fields # {}
    <2> DEFINE affected == UNION {Claims(ledger, t, f) : f \in fields}
               onWire == {i \in affected : reached_provider(ledger.pending[i])}
               ids == affected \ onWire
               gone(f) == Claims(ledger, t, f) \cap ids
               e == [f \in Fields |->
                        IF gone(f) = {} THEN row[t][f]
                        ELSE ledger.pending[Newest(gone(f))].previous]
               m == remove(bump(ledger, fields), ids)
    <2>1. /\ ledger' = m
          /\ row' = [row EXCEPT ![t] = overlay(m, t, e)]
          /\ observed' = observed /\ now' = now
        BY <1>2 DEF Cancel, Commit, on_cancelled, Outcome
    <2>2. Pruned(m, ids, fields, t)
        <3>1. \A i \in ids : i \in DOMAIN ledger.pending
                                => ledger.pending[i].task = t
            BY DEF Claims
        <3> HIDE DEF ids
        <3> QED BY <3>1, PruneSound
    <2> HIDE DEF m, ids
    <2>3. ASSUME NEW f \in Fields
          PROVE  \/ gone(f) = {} /\ e[f] = row[t][f]
                 \/ e[f] = observed[t].value[f] /\ e[f] \in Values
        <3>1. CASE gone(f) # {}
            <4>1. gone(f) \in SUBSET Nat /\ \A i \in gone(f) : i < ledger.next_id
                BY PendingFacts DEF Claims
            <4>2. ledger.next_id \in Nat BY DEF IInv, TypeOK, IsLedger
            <4> HIDE DEF gone
            <4>3. Newest(gone(f)) \in gone(f)
                BY <3>1, <4>1, <4>2, NewestIsMember
            <4>4. e[f] = ledger.pending[Newest(gone(f))].previous
                BY <3>1
            <4> HIDE DEF e
            <4> QED BY <4>3, <4>4, PendingFacts
                    DEF gone, Claims, IInv, LedgerInv, BaselineIsObserved
        <3>2. CASE gone(f) = {}
            BY <3>2
        <3> QED BY <3>1, <3>2
    <2>4. e \in Entity
        <3>1. \A f \in Fields : e[f] \in Values
            <4> HIDE DEF e, gone
            <4> QED BY <2>3 DEF IInv, TypeOK, Entity
        <3> QED BY <3>1 DEF Entity
    <2> HIDE DEF e
    <2>5. Accounted(m, t, e, observed)
        <3> SUFFICES ASSUME NEW g \in Fields, e[g] # observed[t].value[g]
                     PROVE  \E i \in Claims(m, t, g) : e[g] = m.pending[i].desired
            BY DEF Accounted
        <3>1. gone(g) = {} /\ e[g] = row[t][g]
            BY <2>3
        <3>2. PICK i \in Claims(ledger, t, g) :
                    row[t][g] = ledger.pending[i].desired
            BY <3>1 DEF IInv, LedgerInv, RowIsAccountedFor
        <3>3. i \in DOMAIN m.pending /\ m.pending[i] = ledger.pending[i]
            BY <3>1, <3>2, <2>2 DEF Claims, Pruned
        <3> QED BY <3>1, <3>2, <3>3 DEF Claims
    <2>6. observed' \in [Tasks -> Observations] /\ now' \in Nat
        BY <2>1 DEF IInv, TypeOK
    <2> QED BY <2>1, <2>2, <2>4, <2>5, <2>6, OverlaySound DEF Pruned
<1> QED BY <1>1, <1>2

\* An observation (`reconcile_observation'): what survives it falls back to it.
LEMMA ObserveSound ==
    ASSUME IInv, NEW t \in Tasks, NEW value \in Entity, NEW revision \in Nat,
           Observe(t, value, revision)
    PROVE  IInv'
<1> DEFINE ids == {i \in DOMAIN ledger.pending :
                      /\ ledger.pending[i].task = t
                      /\ settled_by(ledger.pending[i], revision, now)}
           kept == remove(ledger, ids)
           refreshed(i) == IF kept.pending[i].task = t
                           THEN [kept.pending[i] EXCEPT
                                   !.previous = value[kept.pending[i].field]]
                           ELSE kept.pending[i]
           m == [kept EXCEPT !.pending =
                    [i \in DOMAIN kept.pending |-> refreshed(i)]]
<1>1. /\ ledger' = m /\ row' = [row EXCEPT ![t] = overlay(m, t, value)]
      /\ observed' = [observed EXCEPT ![t] =
                        [value |-> value, revision |-> revision]]
      /\ now' = now
    BY DEF Observe, reconcile_observation, Outcome
<1>2. Pruned(kept, ids, {}, t)
    <2>1. bump(ledger, {}) = ledger
        BY DEF bump, IInv, TypeOK, IsLedger
    <2>2. {} \in SUBSET Fields OBVIOUS
    <2>3. \A i \in ids : i \in DOMAIN ledger.pending
                            => ledger.pending[i].task = t
        OBVIOUS
    <2> HIDE DEF ids
    <2> QED BY <2>1, <2>2, <2>3, PruneSound
<1> HIDE DEF kept, ids
<1>3. /\ m.next_id = kept.next_id /\ m.generations = kept.generations
      /\ m.pending = [i \in DOMAIN kept.pending |-> refreshed(i)]
      /\ m = [next_id |-> m.next_id, generations |-> m.generations,
              pending |-> m.pending]
    <2>1. kept = [next_id |-> kept.next_id, generations |-> kept.generations,
                  pending |-> kept.pending]
        BY <1>2 DEF Pruned, IsLedger
    <2> HIDE DEF refreshed
    <2> QED BY <2>1
<1>4. ASSUME NEW i \in DOMAIN kept.pending
      PROVE  /\ refreshed(i) \in PendingMutation
             /\ refreshed(i).task = ledger.pending[i].task
             /\ refreshed(i).field = ledger.pending[i].field
             /\ refreshed(i).claimed = ledger.pending[i].claimed
             /\ refreshed(i).attempts = ledger.pending[i].attempts
             /\ ledger.pending[i].task = t =>
                   refreshed(i).previous = value[ledger.pending[i].field]
             /\ ledger.pending[i].task # t => refreshed(i) = ledger.pending[i]
    <2>1. kept.pending[i] = ledger.pending[i] /\ i \in DOMAIN ledger.pending
        BY <1>2 DEF Pruned
    <2>2. value[ledger.pending[i].field] \in Values
        BY <2>1, PendingFacts DEF Entity
    <2> QED BY <2>1, <2>2, PendingFacts DEF PendingMutation
<1> HIDE DEF refreshed, m
<1>5. /\ DOMAIN m.pending = DOMAIN kept.pending
      /\ \A i \in DOMAIN m.pending : m.pending[i] = refreshed(i)
    BY <1>3
<1>6. IsLedger(m)
    <2>1. m.pending \in [DOMAIN m.pending -> PendingMutation]
        BY <1>3, <1>4, <1>5
    <2> QED BY <1>2, <1>3, <1>5, <2>1 DEF Pruned, IsLedger
<1>7. Ordered(m)
    BY <1>2, <1>3, <1>4, <1>5 DEF Pruned, Ordered
<1>8. Frame(ledger, m, t)
    BY <1>2, <1>3, <1>4, <1>5 DEF Pruned, Frame
<1>9. /\ observed' \in [Tasks -> Observations]
      /\ observed'[t].value = value
      /\ \A s \in Tasks : s # t => observed'[s] = observed[s]
    BY <1>1 DEF IInv, TypeOK, Observations
<1>10. Grounded(m, observed')
    <2> SUFFICES ASSUME NEW i \in DOMAIN m.pending
                 PROVE  /\ m.pending[i].previous =
                            observed'[m.pending[i].task].value[m.pending[i].field]
                        /\ m.pending[i].attempts < MaxAttempts
        BY DEF Grounded
    <2>1. i \in DOMAIN ledger.pending
        BY <1>2, <1>5 DEF Pruned
    <2>2. /\ ledger.pending[i].task \in Tasks
          /\ ledger.pending[i].previous
                = observed[ledger.pending[i].task].value[ledger.pending[i].field]
          /\ ledger.pending[i].attempts < MaxAttempts
        BY <2>1, PendingFacts DEF IInv, LedgerInv, BaselineIsObserved,
                                  AttemptsBounded
    <2> QED BY <1>4, <1>5, <1>9, <2>2
<1>11. Accounted(m, t, value, observed')
    BY <1>9 DEF Accounted
<1>12. now' \in Nat BY <1>1 DEF IInv, TypeOK
<1> QED BY <1>1, <1>6, <1>7, <1>8, <1>9, <1>10, <1>11, <1>12, OverlaySound

\* A restart (`recover') relabels operations of every entity and paints nothing.
LEMMA RecoverSound ==
    ASSUME IInv, Recover
    PROVE  IInv'
<1> DEFINE unknown(i) == ledger.pending[i].phase \in {"Sent", "Uncertain"}
           readopted(i) == IF unknown(i)
                           THEN [ledger.pending[i] EXCEPT !.phase = "Uncertain",
                                                          !.at = now]
                           ELSE ledger.pending[i]
           m == [ledger EXCEPT !.pending =
                    [i \in DOMAIN ledger.pending |-> readopted(i)]]
<1>1. ledger' = m /\ row' = row /\ observed' = observed /\ now' = now
    BY DEF Recover, recover, InDoubt
<1>2. ASSUME NEW i \in DOMAIN ledger.pending
      PROVE  /\ readopted(i) \in PendingMutation
             /\ readopted(i).task = ledger.pending[i].task
             /\ readopted(i).field = ledger.pending[i].field
             /\ readopted(i).desired = ledger.pending[i].desired
             /\ readopted(i).previous = ledger.pending[i].previous
             /\ readopted(i).claimed = ledger.pending[i].claimed
             /\ readopted(i).attempts = ledger.pending[i].attempts
    <2>1. now \in Nat BY DEF IInv, TypeOK
    <2> QED BY <2>1, PendingFacts DEF PendingMutation, Phases
<1> HIDE DEF readopted
<1>3. /\ m.next_id = ledger.next_id /\ m.generations = ledger.generations
      /\ m.pending = [i \in DOMAIN ledger.pending |-> readopted(i)]
      /\ m = [next_id |-> m.next_id, generations |-> m.generations,
              pending |-> m.pending]
    <2>1. ledger = [next_id |-> ledger.next_id,
                    generations |-> ledger.generations,
                    pending |-> ledger.pending]
        BY DEF IInv, TypeOK, IsLedger
    <2> QED BY <2>1
<1> HIDE DEF m
<1>4. Relabelled(m)
    <2>1. /\ DOMAIN m.pending = DOMAIN ledger.pending
          /\ \A i \in DOMAIN m.pending : m.pending[i] = readopted(i)
        BY <1>3
    <2>2. m.pending \in [DOMAIN m.pending -> PendingMutation]
        BY <1>2, <1>3, <2>1
    <2>3. IsLedger(m)
        BY <1>3, <2>1, <2>2 DEF IsLedger, IInv, TypeOK
    <2>4. \A i \in DOMAIN ledger.pending : m.pending[i].attempts < MaxAttempts
        BY <1>2, <2>1 DEF IInv, LedgerInv, AttemptsBounded
    <2> QED BY <1>2, <1>3, <2>1, <2>3, <2>4 DEF Relabelled
<1>5. /\ Ordered(m) /\ Grounded(m, observed)
      /\ \A t \in Tasks, f \in Fields :
            /\ Claims(m, t, f) = Claims(ledger, t, f)
            /\ Owners(m, t, f) = Owners(ledger, t, f)
    BY <1>4, RelabelSound
<1>6. \A i \in DOMAIN ledger.pending :
            m.pending[i].desired = ledger.pending[i].desired
    BY <1>4 DEF Relabelled
<1>7. TypeOK'
    BY <1>1, <1>4 DEF Relabelled, IInv, TypeOK
<1>8. ClaimsOrdered' /\ BaselineIsObserved' /\ AttemptsBounded'
    BY <1>1, <1>5 DEF ClaimsOrdered, BaselineIsObserved, AttemptsBounded, Grounded
<1>9. RowShowsOwner'
    BY <1>1, <1>5, <1>6 DEF RowShowsOwner, IInv, LedgerInv, Owners, Claims
<1>10. RowIsAccountedFor'
    BY <1>1, <1>5, <1>6 DEF RowIsAccountedFor, IInv, LedgerInv, Claims
<1> QED BY <1>7, <1>8, <1>9, <1>10 DEF IInv, LedgerInv

\* A step that only moves the clock, or nothing.
LEMMA IdleSound ==
    ASSUME IInv, ledger' = ledger, row' = row, observed' = observed, now' \in Nat
    PROVE  IInv'
BY DEF IInv, TypeOK, LedgerInv, ClaimsOrdered, RowShowsOwner,
       BaselineIsObserved, RowIsAccountedFor, AttemptsBounded

\* A workspace whose ledger is empty and whose row is what was last observed.
LEMMA InitSound ==
    ASSUME Init
    PROVE  IInv
<1>1. /\ ledger.next_id = 0 /\ ledger.generations = [f \in Fields |-> 0]
      /\ ledger.pending = << >> /\ DOMAIN ledger.pending = {}
      /\ ledger = [next_id |-> ledger.next_id,
                   generations |-> ledger.generations,
                   pending |-> ledger.pending]
    BY DEF Init, EmptyLedger
<1>2. ledger.pending \in [DOMAIN ledger.pending -> PendingMutation]
    BY <1>1
<1>3. IsLedger(ledger)
    BY <1>1, <1>2 DEF IsLedger
<1>4. /\ row \in [Tasks -> Entity] /\ now \in Nat
      /\ observed \in [Tasks -> Observations]
      /\ \A t \in Tasks : observed[t].value = row[t]
    BY DEF Init, Observations
<1>5. TypeOK
    BY <1>3, <1>4 DEF TypeOK
<1>6. ClaimsOrdered /\ BaselineIsObserved /\ AttemptsBounded
    BY <1>1 DEF ClaimsOrdered, Ordered, BaselineIsObserved, AttemptsBounded
<1>7. RowShowsOwner
    BY <1>1 DEF RowShowsOwner, Owners, Claims
<1>8. RowIsAccountedFor
    BY <1>4 DEF RowIsAccountedFor
<1> QED BY <1>5, <1>6, <1>7, <1>8 DEF IInv, LedgerInv

\* Every step of the ledger preserves the invariant.
LEMMA StepSound ==
    ASSUME IInv, [Next]_vars
    PROVE  IInv'
<1>1. ASSUME NEW t \in Tasks, NEW f \in Fields, NEW v \in Values, Request(t, f, v)
      PROVE  IInv'
    BY <1>1, RequestSound
<1>2. ASSUME NEW id \in 0 .. MaxOps - 1, NEW t \in Tasks, Sent(id, t)
      PROVE  IInv'
    BY <1>2, SentSound
<1>3. ASSUME NEW id \in 0 .. MaxOps - 1, NEW t \in Tasks, Acked(id, t)
      PROVE  IInv'
    BY <1>3, AckedSound
<1>4. ASSUME NEW id \in 0 .. MaxOps - 1, NEW t \in Tasks,
             NEW class \in FailureClass, Failed(id, t, class)
      PROVE  IInv'
    BY <1>4, FailedSound
<1>5. ASSUME NEW t \in Tasks, NEW fields \in SUBSET Fields, Cancel(t, fields)
      PROVE  IInv'
    BY <1>5, CancelSound
<1>6. ASSUME NEW t \in Tasks, NEW value \in Entity,
             NEW revision \in 0 .. MaxTime, Observe(t, value, revision)
      PROVE  IInv'
    <2>1. revision \in Nat BY LedgerBounds
    <2> QED BY <1>6, <2>1, ObserveSound
<1>7. CASE Recover
    BY <1>7, RecoverSound
<1>8. CASE Tick
    BY <1>8, IdleSound DEF Tick, IInv, TypeOK
<1>9. CASE UNCHANGED vars
    BY <1>9, IdleSound DEF vars, IInv, TypeOK
<1> QED BY <1>1, <1>2, <1>3, <1>4, <1>5, <1>6, <1>7, <1>8, <1>9 DEF Next

-----------------------------------------------------------------------------
\* The ledger's type and all of its safety invariants, together: neither is
\* inductive alone (the overlay has a type only because claims are ordered,
\* and a baseline is right only because the row is accounted for).
THEOREM LedgerInvariant == Spec => []IInv
<1>1. Init => IInv
    BY InitSound
<1>2. IInv /\ [Next]_vars => IInv'
    BY StepSound
<1> QED BY <1>1, <1>2, PTL DEF Spec

\* The ledger and the row keep their types, whatever order events arrive in.
THEOREM LedgerTypeCorrect == Spec => []TypeOK
<1>1. IInv => TypeOK BY DEF IInv
<1> QED BY <1>1, LedgerInvariant, PTL

\* While a field has an owner the row shows the owner's intent, in every
\* order of requests, verdicts, cancellations, observations and restarts.
THEOREM LedgerRowShowsOwner == Spec => []RowShowsOwner
<1>1. IInv => RowShowsOwner BY DEF IInv, LedgerInv
<1> QED BY <1>1, LedgerInvariant, PTL

\* A field shows what the provider last said, or what an operation that is
\* still in the ledger asked for: nothing invented survives on the row.
THEOREM LedgerRowIsAccountedFor == Spec => []RowIsAccountedFor
<1>1. IInv => RowIsAccountedFor BY DEF IInv, LedgerInv
<1> QED BY <1>1, LedgerInvariant, PTL

\* What an operation falls back to is what the provider last said, through any
\* stack of superseded, cancelled and retried writes.
THEOREM LedgerBaselineIsObserved == Spec => []BaselineIsObserved
<1>1. IInv => BaselineIsObserved BY DEF IInv, LedgerInv
<1> QED BY <1>1, LedgerInvariant, PTL

\* Claims of a field are ordered by their generations, so two pending
\* operations never both own it.
THEOREM LedgerClaimsOrdered == Spec => []ClaimsOrdered
<1>1. IInv => ClaimsOrdered BY DEF IInv, LedgerInv
<1> QED BY <1>1, LedgerInvariant, PTL

\* A transient failure is retried a bounded number of times.
THEOREM LedgerAttemptsBounded == Spec => []AttemptsBounded
<1>1. IInv => AttemptsBounded BY DEF IInv, LedgerInv
<1> QED BY <1>1, LedgerInvariant, PTL

\* An observation drops or repaints nothing of an acknowledged write it is
\* older than, so long as the deadline has not passed.
LEMMA StaleObserveKeeps ==
    ASSUME IInv, IInv', NEW s \in Tasks, NEW value \in Entity,
           NEW revision \in Nat, Observe(s, value, revision)
    PROVE  KeepsAckedWrite
<1> SUFFICES ASSUME NEW t \in Tasks, NEW f \in Fields,
                    NEW i \in Owners(ledger, t, f),
                    ledger.pending[i].phase = "Acked",
                    observed'[t].revision < ledger.pending[i].at,
                    now < ledger.pending[i].issued_at + SettleDeadline
             PROVE  /\ i \in Owners(ledger', t, f)
                    /\ row'[t][f] = ledger.pending[i].desired
    BY DEF KeepsAckedWrite
<1>1. /\ i \in DOMAIN ledger.pending
      /\ ledger.pending[i].task = t /\ ledger.pending[i].field = f
      /\ ledger.generations[f] = ledger.pending[i].claimed
    BY DEF Owners, Claims, is_current
<1>2. /\ ledger.pending[i].at \in Nat /\ ledger.pending[i].issued_at \in Nat
      /\ now \in Nat /\ SettleDeadline \in Nat
    BY <1>1, PendingFacts, ReducerConstants DEF PendingMutation, IInv, TypeOK
<1>3. t = s => observed'[t].revision = revision
    BY DEF Observe, IInv, TypeOK
<1>4. t = s => ~settled_by(ledger.pending[i], revision, now)
    BY <1>2, <1>3 DEF settled_by, settles_from
<1> DEFINE ids == {j \in DOMAIN ledger.pending :
                      /\ ledger.pending[j].task = s
                      /\ settled_by(ledger.pending[j], revision, now)}
           kept == remove(ledger, ids)
           refreshed(j) == IF kept.pending[j].task = s
                           THEN [kept.pending[j] EXCEPT
                                   !.previous = value[kept.pending[j].field]]
                           ELSE kept.pending[j]
           m == [kept EXCEPT !.pending =
                    [j \in DOMAIN kept.pending |-> refreshed(j)]]
<1>5. ledger' = m
    BY DEF Observe, reconcile_observation, Outcome
<1>6. /\ i \in DOMAIN kept.pending /\ kept.pending[i] = ledger.pending[i]
      /\ kept.generations = ledger.generations
      /\ kept = [next_id |-> kept.next_id, generations |-> kept.generations,
                 pending |-> kept.pending]
    <2>1. i \notin ids BY <1>1, <1>4
    <2> HIDE DEF ids
    <2> QED BY <1>1, <2>1 DEF remove, IInv, TypeOK, IsLedger
<1> HIDE DEF kept
<1>7. /\ m.generations = ledger.generations
      /\ i \in DOMAIN m.pending /\ m.pending[i] = refreshed(i)
    <2> HIDE DEF refreshed
    <2> QED BY <1>6
<1>8. /\ refreshed(i).task = t /\ refreshed(i).field = f
      /\ refreshed(i).claimed = ledger.pending[i].claimed
      /\ refreshed(i).desired = ledger.pending[i].desired
    BY <1>1, <1>6, PendingFacts DEF PendingMutation
<1> HIDE DEF refreshed, m
<1>9. i \in Owners(ledger', t, f)
    BY <1>1, <1>5, <1>7, <1>8 DEF Owners, Claims, is_current
<1>10. row'[t][f] = ledger'.pending[i].desired
    BY <1>9 DEF IInv, LedgerInv, RowShowsOwner
<1> QED BY <1>5, <1>7, <1>8, <1>9, <1>10

\* "Anything older is a reply that left before our write and must not undo
\* it": no step at all lets an observation older than the acknowledgement take
\* an owned field back before the settle deadline.
THEOREM LedgerStaleReadKeepsAckedWrite == Spec => StaleReadKeepsAckedWrite
<1>1. IInv /\ IInv' /\ [Next]_vars => [KeepsAckedWrite]_vars
    <2> SUFFICES ASSUME IInv, IInv', Next, observed' # observed
                 PROVE  KeepsAckedWrite
        BY DEF KeepsAckedWrite
    <2>1. PICK s \in Tasks, value \in Entity, revision \in 0 .. MaxTime :
                Observe(s, value, revision)
        BY DEF Next, Request, Sent, Acked, Failed, Cancel, Commit, Recover, Tick
    <2>2. revision \in Nat BY LedgerBounds
    <2> QED BY <2>1, <2>2, StaleObserveKeeps
<1> QED BY <1>1, LedgerInvariant, PTL DEF Spec, StaleReadKeepsAckedWrite
=============================================================================
