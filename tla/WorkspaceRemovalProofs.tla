----------------------- MODULE WorkspaceRemovalProofs -----------------------
(***************************************************************************)
(* Proofs that the properties of WorkspaceRemoval hold for any keys, any   *)
(* number of removals and spawns and any number of faults.  The argument   *)
(* is who holds a row's lock: a removal from its first kill to its sweep,  *)
(* a spawn from its launch to its registration, the poll from its check to *)
(* its commit.  While one of them holds it, none of the others can         *)
(*   - register a terminal for the row a removal has emptied,              *)
(*   - drop the row a spawn has found,                                     *)
(*   - archive the key the poll has checked, or drop the rows it folds in. *)
(***************************************************************************)
EXTENDS WorkspaceRemoval, TLAPS

Holding == {"killing", "inspecting", "archiving", "tombing", "dropping", "sweeping"}
Emptied == Holding \ {"killing"}

OwnRecord(k) == arch[k] # Absent /\ arch[k].by = None

\* An idle removal has no key, any other has one; a session with a persisted
\* owner is that of a spawn that registered, and a launched spawn has one
\* without; a spawn has a key once it begins.
Progress ==
    /\ \A r \in Removals :
          IF rem[r].pc = "idle" THEN rem[r] = NoRemoval ELSE rem[r].key \in Keys
    /\ \A s \in Spawns :
          /\ s \in meta => sp[s].pc = "running"
          /\ sp[s].pc = "launched" => s \in live
          /\ sp[s].pc # "idle" => sp[s].key \in Keys
    /\ una.pc = "deleting" => una.key \in Keys
    /\ ups.pc # "idle" =>
          /\ ups.key \in Keys /\ ups.task \in Keys
          /\ ups.key # ups.task => ups.task \in Closes[ups.key] /\ ups.task \notin rows

\* Who holds which lock.
RemovalHolds == \A r \in Removals : rem[r].pc \in Holding => lock[rem[r].key] = r
SpawnHolds ==
    \A s \in Spawns : sp[s].pc = "launched" => lock[sp[s].key] = s /\ sp[s].key \in rows
PollerHolds ==
    ups.pc = "building" =>
        /\ lock[ups.key] = Poller
        /\ ups.key \in rows \cup {ups.task} => \A j \in Closes[ups.key] : lock[j] = Poller

\* A removal that is past its kills has left no terminal, and one that drops
\* the row has left a tombstone.
EmptiedHasNone ==
    \A r \in Removals : rem[r].pc \in Emptied => \A s \in term : sp[s].key # rem[r].key
DropHasTombstone == \A r \in Removals : rem[r].pc = "dropping" => rem[r].key \in tombs

\* A session that recovery could bring back has a row, or a record that stops it.
SurvivorIsKnown ==
    \A s \in live \cap meta : sp[s].key \in rows \cup excused \cup tombs

\* A standing row has an archive record of its own only while the removal that
\* wrote it can still take it back.
RecordHasWriter ==
    \A k \in rows : OwnRecord(k) =>
        \/ k \in excused
        \/ \E r \in Removals : rem[r].key = k /\ rem[r].pc \in {"tombing", "dropping"} /\ rem[r].archive

\* The key the poll has checked under the lock stays neither archived nor marked.
CheckedStays ==
    ups.pc = "building" /\ ups.key \notin rows =>
        /\ OwnRecord(ups.key) => ups.key \in excused
        /\ ups.key \notin deleted

RemovalInv ==
    /\ TypeOK /\ Progress
    /\ RemovalHolds /\ SpawnHolds /\ PollerHolds
    /\ EmptiedHasNone /\ DropHasTombstone /\ SurvivorIsKnown
    /\ RecordHasWriter /\ CheckedStays
    /\ NoTerminalWithoutRow /\ MarkIsReleased

-----------------------------------------------------------------------------
(* Operators                                                               *)

\* The names are told apart.
LEMMA Names ==
    /\ None \notin Keys /\ None \notin Removals /\ None \notin Spawns /\ None # Poller
    /\ Poller \notin Removals /\ Poller \notin Spawns /\ None # "absent"
    /\ \A x : ~(x \in Removals /\ x \in Spawns)
BY RemovalAssumption DEF Poller

\* The blank values are well formed.
LEMMA Blanks ==
    /\ NoRemoval \in Removal /\ NoRemoval.pc = "idle" /\ NoRemoval.key = None
    /\ NoUpsert \in Upsert /\ NoUpsert.pc = "idle"
    /\ NoUnarchive \in Unarchive /\ NoUnarchive.pc = "idle"
    /\ NoSpawn \in Spawn /\ NoSpawn.pc = "idle"
<1>1. NoRemoval \in Removal /\ NoRemoval.pc = "idle" /\ NoRemoval.key = None
    BY DEF NoRemoval, Removal
<1>2. NoUpsert \in Upsert /\ NoUpsert.pc = "idle"
    BY DEF NoUpsert, Upsert
<1>3. NoUnarchive \in Unarchive /\ NoUnarchive.pc = "idle"
    BY DEF NoUnarchive, Unarchive
<1>4. NoSpawn \in Spawn /\ NoSpawn.pc = "idle"
    BY DEF NoSpawn, Spawn
<1> QED  BY <1>1, <1>2, <1>3, <1>4

\* Faults are counted down to zero.
LEMMA FaultCounts ==
    ASSUME left \in 0..MaxFaults, Fault \/ UNCHANGED left
    PROVE  left' \in 0..MaxFaults
<1>1. MaxFaults \in Nat
    BY RemovalAssumption
<1> QED  BY <1>1 DEF Fault

\* A removal that goes on.
LEMMA GoesEffect ==
    ASSUME TypeOK, NEW r \in Removals, NEW pc \in Holding, Goes(r, pc)
    PROVE  /\ rem' \in [Removals -> Removal]
           /\ rem'[r].pc = pc /\ rem'[r].key = rem[r].key /\ rem'[r].archive = rem[r].archive
           /\ \A q \in Removals : q # r => rem'[q] = rem[q]
<1>1. rem[r] \in Removal /\ rem \in [Removals -> Removal]
    BY DEF TypeOK
<1>2. PICK n : n = [rem[r] EXCEPT !.pc = pc]
    OBVIOUS
<1>3. n \in Removal /\ n.pc = pc /\ n.key = rem[r].key /\ n.archive = rem[r].archive
    BY <1>1, <1>2 DEF Removal, Holding
<1>4. rem' = [rem EXCEPT ![r] = n]
    BY <1>2 DEF Goes
<1> QED  BY <1>1, <1>3, <1>4

\* Records that are dropped, and those of an archived row with what it folded
\* in: a key gets a record of its own only by its own archive.
LEMMA DroppedEffect ==
    ASSUME TypeOK, NEW keys, arch' = Dropped(keys)
    PROVE  /\ arch' \in [Keys -> Record \cup {Absent}]
           /\ \A j \in Keys : OwnRecord(j)' => OwnRecord(j) /\ j \notin keys
BY DEF TypeOK, Dropped, OwnRecord

\* ... only the archived key gains a record of its own ...
LEMMA ArchivedEffect ==
    ASSUME TypeOK, NEW k \in Keys, NEW absorbed \in SUBSET Keys, arch' = Archived(k, absorbed)
    PROVE  /\ arch' \in [Keys -> Record \cup {Absent}]
           /\ \A j \in Keys : OwnRecord(j)' => OwnRecord(j) \/ j = k
<1>1. /\ [absorbed |-> absorbed, by |-> None] \in Record
      /\ [absorbed |-> {}, by |-> k] \in Record /\ [absorbed |-> {}, by |-> k].by = k
    BY DEF Record
<1>2. arch' \in [Keys -> Record \cup {Absent}]
    BY <1>1 DEF TypeOK, Archived
<1>3. ASSUME NEW j \in Keys, OwnRecord(j)' PROVE OwnRecord(j) \/ j = k
    BY <1>1, <1>3, Names DEF Archived, OwnRecord
<1> QED  BY <1>2, <1>3

\* ... and undoing a removal gives nobody one.
LEMMA UndoEffect ==
    ASSUME TypeOK, NEW r \in Removals, NEW stuck \in BOOLEAN, NEW k \in Keys, k = rem[r].key,
           stuck => rem[r].archive, Undoes(r, stuck)
    PROVE  /\ arch' \in [Keys -> Record \cup {Absent}]
           /\ \A j \in Keys : OwnRecord(j)' => OwnRecord(j)
           /\ OwnRecord(k)' => stuck \/ ~rem[r].archive
           /\ stuck \/ k \notin rows => k \in excused'
           /\ excused \subseteq excused' /\ excused' \subseteq Keys
<1>1. excused \subseteq excused' /\ excused' \subseteq Keys
      /\ (stuck \/ k \notin rows => k \in excused')
    BY DEF TypeOK, Undoes
<1>2. CASE rem[r].archive /\ ~stuck
    <2>1. arch' = Dropped({k} \cup Folded(k))
        BY <1>2 DEF Undoes
    <2>2. /\ arch' \in [Keys -> Record \cup {Absent}]
          /\ \A j \in Keys : OwnRecord(j)' =>
                OwnRecord(j) /\ j \notin {k} \cup Folded(k)
        BY <2>1, DroppedEffect
    <2>3. ~OwnRecord(k)'
        BY <2>2
    <2> QED  BY <1>1, <2>2, <2>3
<1>3. CASE ~(rem[r].archive /\ ~stuck)
    <2>1. arch' = arch
        BY <1>3 DEF Undoes
    <2> QED  BY <1>1, <1>3, <2>1 DEF TypeOK, OwnRecord
<1> QED  BY <1>2, <1>3

-----------------------------------------------------------------------------
(* The locks                                                               *)

LocksInv == Progress /\ RemovalHolds /\ SpawnHolds /\ PollerHolds

\* No two holders.
LEMMA HolderIsAlone ==
    ASSUME RemovalInv, NEW r \in Removals, rem[r].pc \in Holding
    PROVE  /\ rem[r].key \in Keys /\ rem[r].pc # "idle"
           /\ \A q \in Removals : q # r /\ rem[q].pc \in Holding => rem[q].key # rem[r].key
           /\ \A s \in Spawns : sp[s].pc = "launched" => sp[s].key # rem[r].key
           /\ ups.pc = "building" =>
                 /\ ups.key # rem[r].key
                 /\ ups.key \in rows \cup {ups.task} => rem[r].key \notin Closes[ups.key]
<1>1. rem[r].pc # "idle" /\ rem[r].key \in Keys
    BY DEF RemovalInv, Progress, Holding
<1> QED
    BY <1>1, Names DEF RemovalInv, RemovalHolds, SpawnHolds, PollerHolds

\* A removal that goes on with the lock may drop its own row.
LEMMA HeldStep ==
    ASSUME RemovalInv, NEW r \in Removals, rem[r].pc \in Holding, NEW pc \in Holding, Goes(r, pc),
           UNCHANGED <<lock, sp, ups, una>>, meta' \subseteq meta, live \ live' \subseteq meta,
           rows' = rows \/ rows' = rows \ {rem[r].key}
    PROVE  LocksInv'
<1>1. /\ rem'[r].pc = pc /\ rem'[r].key = rem[r].key
      /\ \A q \in Removals : q # r => rem'[q] = rem[q]
    BY GoesEffect DEF RemovalInv
<1>2. /\ rem[r].key \in Keys
      /\ \A s \in Spawns : sp[s].pc = "launched" => sp[s].key # rem[r].key
    BY HolderIsAlone
<1>3. Progress'
    BY <1>1, <1>2 DEF RemovalInv, Progress, Holding
<1>4. RemovalHolds'
    BY <1>1 DEF RemovalInv, RemovalHolds
<1>5. SpawnHolds'
    BY <1>2 DEF RemovalInv, SpawnHolds
<1>6. PollerHolds'
    BY DEF RemovalInv, PollerHolds
<1> QED  BY <1>3, <1>4, <1>5, <1>6 DEF LocksInv

\* A removal that ends gives its lock back.
LEMMA EndStep ==
    ASSUME RemovalInv, NEW r \in Removals, rem[r].pc \in Holding,
           rem' = [rem EXCEPT ![r] = NoRemoval], lock' = [lock EXCEPT ![rem[r].key] = None],
           UNCHANGED <<sp, ups, una, rows>>, meta' \subseteq meta, live \ live' \subseteq meta
    PROVE  /\ rem' \in [Removals -> Removal] /\ rem'[r] = NoRemoval
           /\ \A q \in Removals : q # r => rem'[q] = rem[q]
           /\ lock' \in [Keys -> Removals \cup Spawns \cup {Poller, None}]
           /\ LocksInv'
<1>1. /\ rem' \in [Removals -> Removal] /\ rem'[r] = NoRemoval
      /\ \A q \in Removals : q # r => rem'[q] = rem[q]
      /\ lock' \in [Keys -> Removals \cup Spawns \cup {Poller, None}]
      /\ \A k \in Keys : k # rem[r].key => lock'[k] = lock[k]
    BY Blanks DEF RemovalInv, TypeOK
<1>2. /\ rem[r].key \in Keys
      /\ \A q \in Removals : q # r /\ rem[q].pc \in Holding => rem[q].key # rem[r].key
      /\ \A s \in Spawns : sp[s].pc = "launched" => sp[s].key # rem[r].key
      /\ ups.pc = "building" =>
            /\ ups.key # rem[r].key
            /\ ups.key \in rows \cup {ups.task} => rem[r].key \notin Closes[ups.key]
    BY HolderIsAlone
<1>3. Progress'
    BY <1>1, Blanks DEF RemovalInv, Progress
<1>4. RemovalHolds'
    BY <1>1, <1>2, Blanks DEF RemovalInv, RemovalHolds, Progress, Holding
<1>5. SpawnHolds'
    BY <1>1, <1>2 DEF RemovalInv, SpawnHolds, Progress
<1>6. PollerHolds'
    <2>1. \A k \in Keys : Closes[k] \subseteq Keys
        BY RemovalAssumption
    <2> QED  BY <1>1, <1>2, <2>1 DEF RemovalInv, PollerHolds, Progress
<1> QED  BY <1>1, <1>3, <1>4, <1>5, <1>6 DEF LocksInv

-----------------------------------------------------------------------------
(* The steps of a removal                                                  *)

\* A removal is asked for: the mark has a removal to release it.
LEMMA RemoveStep ==
    ASSUME RemovalInv, NEW r \in Removals, NEW k \in Keys, NEW archive \in BOOLEAN,
           Remove(r, k, archive)
    PROVE  RemovalInv'
<1> DEFINE new == [pc |-> "locking", key |-> k, archive |-> archive]
<1>1. new \in Removal /\ new.pc = "locking" /\ new.key = k
    BY DEF Removal
<1>2. rem[r] = NoRemoval /\ rem[r].pc = "idle" /\ rem[r].key = None /\ k \in rows
    BY Blanks DEF RemovalInv, Progress, Remove, At
<1>3. rem' = [rem EXCEPT ![r] = new]
    BY DEF Remove
<1> HIDE DEF new
<1>4. /\ rem' \in [Removals -> Removal] /\ rem'[r] = new
      /\ \A q \in Removals : q # r => rem'[q] = rem[q]
    BY <1>1, <1>3 DEF RemovalInv, TypeOK
<1>5. /\ deleted' = deleted \cup {k}
      /\ UNCHANGED <<rows, attached, arch, tombs, excused, lock, ups, una, sp, live, meta, term,
                     deferred, left>>
    BY DEF Remove, store, sessions
<1>6. TypeOK'
    BY <1>4, <1>5 DEF RemovalInv, TypeOK
<1>7. Progress' /\ SpawnHolds' /\ PollerHolds'
    BY <1>1, <1>4, <1>5 DEF RemovalInv, Progress, SpawnHolds, PollerHolds
<1>8. RemovalHolds' /\ EmptiedHasNone' /\ DropHasTombstone'
    BY <1>1, <1>4, <1>5
    DEF RemovalInv, RemovalHolds, EmptiedHasNone, DropHasTombstone, Holding, Emptied
<1>9. RecordHasWriter'
    BY <1>2, <1>4, <1>5 DEF RemovalInv, RecordHasWriter, OwnRecord
<1>10. CheckedStays' /\ SurvivorIsKnown' /\ NoTerminalWithoutRow'
    BY <1>2, <1>5
    DEF RemovalInv, CheckedStays, OwnRecord, SurvivorIsKnown, NoTerminalWithoutRow
<1>11. MarkIsReleased'
    <2>1. \A j \in Keys : (\E q \in Removals : rem[q].key = j) => \E q \in Removals : rem'[q].key = j
        BY <1>2, <1>4, Names
    <2>2. \E q \in Removals : rem'[q].key = k
        BY <1>1, <1>4
    <2> QED  BY <1>5, <2>1, <2>2 DEF RemovalInv, TypeOK, MarkIsReleased
<1> QED  BY <1>6, <1>7, <1>8, <1>9, <1>10, <1>11 DEF RemovalInv

\* A removal takes the row's lock.
LEMMA RemovalLocksStep ==
    ASSUME RemovalInv, NEW r \in Removals, RemovalLocks(r)
    PROVE  RemovalInv'
<1>1. PICK k \in Keys : k = rem[r].key
    BY DEF RemovalInv, Progress, RemovalLocks, At
<1>2. /\ rem' \in [Removals -> Removal]
      /\ rem'[r].pc = "killing" /\ rem'[r].key = k
      /\ \A q \in Removals : q # r => rem'[q] = rem[q]
    BY <1>1, GoesEffect DEF RemovalInv, RemovalLocks, Holding
<1>3. /\ lock[k] = None /\ lock' = [lock EXCEPT ![k] = r] /\ rem[r].pc = "locking"
      /\ UNCHANGED <<rows, attached, arch, tombs, excused, deleted, ups, una, sp, live, meta, term,
                     deferred, left>>
    BY <1>1 DEF RemovalLocks, At, store, sessions
<1>4. TypeOK'
    BY <1>1, <1>2, <1>3 DEF RemovalInv, TypeOK
<1>5. lock'[k] = r /\ \A j \in Keys : j # k => lock'[j] = lock[j]
    BY <1>1, <1>3 DEF RemovalInv, TypeOK
<1>6. Progress'
    BY <1>1, <1>2, <1>3 DEF RemovalInv, Progress
<1>7. RemovalHolds'
    BY <1>2, <1>3, <1>5, Names DEF RemovalInv, RemovalHolds, Progress, Holding
<1>8. SpawnHolds'
    BY <1>3, <1>5, Names DEF RemovalInv, SpawnHolds, Progress
<1>9. PollerHolds'
    <2>1. \A j \in Keys : Closes[j] \subseteq Keys
        BY RemovalAssumption
    <2> QED  BY <1>3, <1>5, <2>1, Names DEF RemovalInv, PollerHolds, Progress
<1>10. EmptiedHasNone' /\ DropHasTombstone'
    BY <1>2, <1>3 DEF RemovalInv, EmptiedHasNone, DropHasTombstone, Emptied, Holding
<1>11. RecordHasWriter' /\ MarkIsReleased'
    BY <1>1, <1>2, <1>3 DEF RemovalInv, RecordHasWriter, OwnRecord, MarkIsReleased
<1>12. CheckedStays' /\ SurvivorIsKnown' /\ NoTerminalWithoutRow'
    BY <1>3 DEF RemovalInv, CheckedStays, OwnRecord, SurvivorIsKnown, NoTerminalWithoutRow
<1> QED
    BY <1>4, <1>6, <1>7, <1>8, <1>9, <1>10, <1>11, <1>12 DEF RemovalInv

\* A removal that gives up before it has written a record: the mark goes with it.
LEMMA AbandonStep ==
    ASSUME RemovalInv, NEW r \in Removals, rem[r].pc \in Holding \ {"tombing", "dropping"},
           Abandons(r), Fault \/ UNCHANGED left,
           live' \subseteq live, live \ live' \subseteq meta, meta' \subseteq meta,
           term' \subseteq term \cap live' \cap meta',
           UNCHANGED <<rows, attached, arch, tombs, excused, ups, una, sp, deferred>>
    PROVE  RemovalInv'
<1>1. /\ rem' \in [Removals -> Removal] /\ rem'[r] = NoRemoval
      /\ \A q \in Removals : q # r => rem'[q] = rem[q]
      /\ lock' \in [Keys -> Removals \cup Spawns \cup {Poller, None}]
      /\ LocksInv'
    BY EndStep DEF Abandons
<1>2. rem'[r].pc = "idle"
    BY <1>1, Blanks
<1>3. PICK k \in Keys : k = rem[r].key
    BY HolderIsAlone
<1>4. deleted' = deleted \ {k}
    BY <1>3 DEF Abandons
<1>5. TypeOK'
    BY <1>1, <1>4, FaultCounts DEF RemovalInv, TypeOK
<1>6. EmptiedHasNone' /\ DropHasTombstone'
    BY <1>1, <1>2 DEF RemovalInv, EmptiedHasNone, DropHasTombstone, Emptied, Holding
<1>7. RecordHasWriter' /\ CheckedStays'
    BY <1>1, <1>4 DEF RemovalInv, RecordHasWriter, CheckedStays, OwnRecord
<1>8. SurvivorIsKnown' /\ NoTerminalWithoutRow'
    BY DEF RemovalInv, SurvivorIsKnown, NoTerminalWithoutRow
<1>9. MarkIsReleased'
    BY <1>1, <1>3, <1>4 DEF RemovalInv, MarkIsReleased
<1> QED
    BY <1>1, <1>5, <1>6, <1>7, <1>8, <1>9 DEF RemovalInv, LocksInv

\* A removal that goes on without a record: terminals may be stopped.
LEMMA AdvanceStep ==
    ASSUME RemovalInv, NEW r \in Removals, rem[r].pc \in Holding \ {"tombing", "dropping"},
           NEW pc \in Holding \ {"tombing", "dropping"}, Goes(r, pc),
           live' \subseteq live, live \ live' \subseteq meta, meta' \subseteq meta,
           term' \subseteq term \cap live' \cap meta',
           pc \in Emptied => \A s \in term' : sp[s].key # rem[r].key,
           UNCHANGED <<rows, attached, arch, tombs, excused, deleted, lock, ups, una, sp, deferred,
                       left>>
    PROVE  RemovalInv'
<1>1. /\ rem' \in [Removals -> Removal]
      /\ rem'[r].pc = pc /\ rem'[r].key = rem[r].key
      /\ \A q \in Removals : q # r => rem'[q] = rem[q]
    BY GoesEffect DEF RemovalInv
<1>2. LocksInv'
    BY HeldStep
<1>3. TypeOK'
    BY <1>1 DEF RemovalInv, TypeOK
<1>4. EmptiedHasNone' /\ DropHasTombstone'
    BY <1>1 DEF RemovalInv, EmptiedHasNone, DropHasTombstone
<1>5. RecordHasWriter' /\ CheckedStays' /\ MarkIsReleased'
    BY <1>1 DEF RemovalInv, RecordHasWriter, CheckedStays, OwnRecord, MarkIsReleased
<1>6. SurvivorIsKnown' /\ NoTerminalWithoutRow'
    BY DEF RemovalInv, SurvivorIsKnown, NoTerminalWithoutRow
<1> QED  BY <1>2, <1>3, <1>4, <1>5, <1>6 DEF RemovalInv, LocksInv

\* The registered terminals are stopped, or the removal is off.
LEMMA KillsTerminalsStep ==
    ASSUME RemovalInv, NEW r \in Removals, KillsTerminals(r)
    PROVE  RemovalInv'
<1>1. /\ rem[r].pc = "killing" /\ term \subseteq live \cap meta /\ term \subseteq Spawns
      /\ UNCHANGED <<rows, attached, arch, tombs, excused, ups, una, sp, deferred>>
    BY DEF KillsTerminals, At, store, RemovalInv, TypeOK
<1> DEFINE mine == term \cap Of(rem[r].key)
<1>2. CASE /\ live' = live \ mine /\ meta' = meta \ mine /\ term' = term \ mine
           /\ Goes(r, "inspecting")
           /\ UNCHANGED <<deleted, lock, left>>
    <2>1. \A s \in term' : sp[s].key # rem[r].key
        BY <1>1, <1>2 DEF Of
    <2> QED  BY <1>1, <1>2, <2>1, AdvanceStep DEF Holding
<1>3. CASE Abandons(r) /\ UNCHANGED <<live, meta, term, left>>
    BY <1>1, <1>3, AbandonStep DEF Holding
<1>4. ASSUME NEW stopped \in SUBSET mine,
             live' = live \ stopped, meta' = meta \ stopped, term' = term \ stopped,
             Fault, Abandons(r)
      PROVE  RemovalInv'
    BY <1>1, <1>4, AbandonStep DEF Holding
<1> QED  BY <1>2, <1>3, <1>4 DEF KillsTerminals

\* Sessions nobody is attached to are killed, as far as that works.
LEMMA OrphansEffect ==
    ASSUME RemovalInv, NEW r \in Removals, rem[r].pc \in Emptied,
           KillsOrphans(rem[r].key)
    PROVE  /\ live' \subseteq live /\ meta' \subseteq meta /\ (Fault \/ UNCHANGED left)
           /\ live \ live' \subseteq meta
           /\ \A s \in live \cap meta : s \notin live' \cap meta' => sp[s].key = rem[r].key
BY DEF RemovalInv, TypeOK, KillsOrphans, Of

\* The worktree gate.
LEMMA InspectsStep ==
    ASSUME RemovalInv, NEW r \in Removals, Inspects(r)
    PROVE  RemovalInv'
<1>1. /\ rem[r].pc = "inspecting" /\ term \subseteq live \cap meta
      /\ UNCHANGED <<rows, attached, arch, tombs, excused, ups, una, sp, term, deferred>>
      /\ \A s \in term : sp[s].key # rem[r].key
    BY DEF Inspects, At, store, RemovalInv, TypeOK, EmptiedHasNone, Emptied, Holding
<1>2. CASE Goes(r, "archiving") /\ UNCHANGED <<deleted, lock, live, meta, left>>
    BY <1>1, <1>2, AdvanceStep DEF Holding
<1>3. CASE /\ Abandons(r)
           /\ IF rem[r].archive THEN KillsOrphans(rem[r].key) ELSE UNCHANGED <<live, meta, left>>
    <2>1. /\ live' \subseteq live /\ meta' \subseteq meta /\ (Fault \/ UNCHANGED left)
          /\ live \ live' \subseteq meta
          /\ \A s \in live \cap meta : s \notin live' \cap meta' => sp[s].key = rem[r].key
        BY <1>1, <1>3, OrphansEffect DEF Emptied, Holding
    <2>2. term' \subseteq term \cap live' \cap meta'
        BY <1>1, <2>1
    <2> QED  BY <1>1, <1>3, <2>1, <2>2, AbandonStep DEF Holding
<1> QED  BY <1>2, <1>3 DEF Inspects

\* The archive record is written: its removal can take it back.
LEMMA ArchivesStep ==
    ASSUME RemovalInv, NEW r \in Removals, Archives(r)
    PROVE  RemovalInv'
<1>1. /\ rem[r].pc = "archiving"
      /\ UNCHANGED <<rows, attached, tombs, excused, ups, una, sp, live, meta, term, deferred>>
    BY DEF Archives, At, sessions
<1>2. PICK k \in Keys : k = rem[r].key
    BY <1>1, HolderIsAlone DEF Holding
<1>3. CASE rem[r].archive /\ Fault /\ Abandons(r) /\ UNCHANGED arch
    BY <1>1, <1>3, AbandonStep DEF Holding, RemovalInv, TypeOK
<1>4. CASE /\ arch' = IF rem[r].archive THEN Archived(k, attached[k]) ELSE arch
           /\ Goes(r, "tombing") /\ UNCHANGED <<deleted, lock, left>>
    <2>1. /\ rem' \in [Removals -> Removal]
          /\ rem'[r].pc = "tombing" /\ rem'[r].key = k /\ rem'[r].archive = rem[r].archive
          /\ \A q \in Removals : q # r => rem'[q] = rem[q]
        BY <1>2, <1>4, GoesEffect DEF RemovalInv, Holding
    <2>2. LocksInv'
        BY <1>1, <1>4, HeldStep DEF Holding
    <2>3. /\ arch' \in [Keys -> Record \cup {Absent}]
          /\ \A j \in Keys : OwnRecord(j)' => OwnRecord(j) \/ (j = k /\ rem[r].archive)
        <3>1. CASE rem[r].archive
            <4>1. attached[k] \in SUBSET Keys /\ arch' = Archived(k, attached[k])
                BY <1>4, <3>1 DEF RemovalInv, TypeOK
            <4> QED  BY <3>1, <4>1, ArchivedEffect DEF RemovalInv
        <3>2. CASE ~rem[r].archive
            BY <1>4, <3>2 DEF RemovalInv, TypeOK, OwnRecord
        <3> QED  BY <3>1, <3>2
    <2>4. TypeOK'
        BY <1>1, <1>4, <2>1, <2>3 DEF RemovalInv, TypeOK
    <2>5. EmptiedHasNone' /\ DropHasTombstone'
        BY <1>1, <1>2, <2>1 DEF RemovalInv, EmptiedHasNone, DropHasTombstone, Emptied, Holding
    <2>6. RecordHasWriter'
        <3> SUFFICES ASSUME NEW j \in rows', OwnRecord(j)', j \notin excused'
                     PROVE  \E q \in Removals : /\ rem'[q].key = j /\ rem'[q].archive
                                                /\ rem'[q].pc \in {"tombing", "dropping"}
            BY DEF RecordHasWriter
        <3>1. j \in Keys /\ j \in rows /\ j \notin excused
            BY <1>1 DEF RemovalInv, TypeOK
        <3>2. CASE j = k /\ rem[r].archive
            BY <2>1, <3>2
        <3>3. CASE OwnRecord(j)
            <4>1. PICK q \in Removals : /\ rem[q].key = j /\ rem[q].archive
                                        /\ rem[q].pc \in {"tombing", "dropping"}
                BY <3>1, <3>3 DEF RemovalInv, RecordHasWriter
            <4>2. q # r
                BY <1>1, <4>1
            <4> QED  BY <2>1, <4>1, <4>2
        <3> QED  BY <2>3, <3>1, <3>2, <3>3
    <2>7. CheckedStays'
        <3>1. ups.pc = "building" => ups.key # k /\ ups.key \in Keys
            BY <1>1, <1>2, HolderIsAlone DEF Holding, RemovalInv, Progress
        <3> QED  BY <1>1, <1>4, <2>3, <3>1 DEF RemovalInv, CheckedStays
    <2>8. SurvivorIsKnown' /\ NoTerminalWithoutRow'
        BY <1>1 DEF RemovalInv, SurvivorIsKnown, NoTerminalWithoutRow
    <2>9. MarkIsReleased'
        BY <1>1, <1>2, <1>4, <2>1 DEF RemovalInv, MarkIsReleased
    <2> QED
        BY <2>2, <2>4, <2>5, <2>6, <2>7, <2>8, <2>9 DEF RemovalInv, LocksInv
<1> QED  BY <1>2, <1>3, <1>4 DEF Archives

\* A removal that fails past its record: the record is taken back, or the key
\* is excused.
LEMMA UndoStep ==
    ASSUME RemovalInv, NEW r \in Removals, rem[r].pc \in {"tombing", "dropping"},
           NEW stuck \in BOOLEAN, stuck => rem[r].archive, Undoes(r, stuck), Fault,
           rem' = [rem EXCEPT ![r] = NoRemoval], lock' = [lock EXCEPT ![rem[r].key] = None],
           deleted' = deleted \ {rem[r].key} \/ (stuck /\ deleted' = deleted),
           tombs' = tombs \/ tombs' = tombs \ {rem[r].key},
           UNCHANGED <<rows, attached, ups, una, sp, live, meta, term, deferred>>
    PROVE  RemovalInv'
<1>1. /\ rem' \in [Removals -> Removal] /\ rem'[r] = NoRemoval
      /\ \A q \in Removals : q # r => rem'[q] = rem[q]
      /\ lock' \in [Keys -> Removals \cup Spawns \cup {Poller, None}]
      /\ LocksInv'
    BY EndStep DEF Holding
<1>2. rem'[r].pc = "idle"
    BY <1>1, Blanks
<1>3. PICK k \in Keys : k = rem[r].key
    BY HolderIsAlone DEF Holding
<1>4. /\ arch' \in [Keys -> Record \cup {Absent}]
      /\ \A j \in Keys : OwnRecord(j)' => OwnRecord(j)
      /\ OwnRecord(k)' => stuck \/ ~rem[r].archive
      /\ stuck \/ k \notin rows => k \in excused'
      /\ excused \subseteq excused' /\ excused' \subseteq Keys
    BY <1>3, UndoEffect DEF RemovalInv
<1>5. /\ deleted' \subseteq deleted /\ (k \in deleted' => stuck)
      /\ tombs' \subseteq tombs /\ \A j \in tombs : j # k => j \in tombs'
    BY <1>3
<1>6. \A q \in Removals : q # r /\ rem[q].pc = "dropping" => rem[q].key # k
    BY <1>3, HolderIsAlone DEF Holding
<1>7. TypeOK'
    BY <1>1, <1>4, <1>5, FaultCounts DEF RemovalInv, TypeOK
<1>8. EmptiedHasNone' /\ DropHasTombstone'
    BY <1>1, <1>2, <1>5, <1>6 DEF RemovalInv, EmptiedHasNone, DropHasTombstone, Emptied, Holding
<1>9. RecordHasWriter'
    <2> SUFFICES ASSUME NEW j \in rows', OwnRecord(j)', j \notin excused'
                 PROVE  \E q \in Removals : /\ rem'[q].key = j /\ rem'[q].archive
                                            /\ rem'[q].pc \in {"tombing", "dropping"}
        BY DEF RecordHasWriter
    <2>1. j \in Keys /\ j \in rows /\ j \notin excused
        BY <1>4 DEF RemovalInv, TypeOK
    <2>2. PICK q \in Removals : /\ rem[q].key = j /\ rem[q].archive
                                /\ rem[q].pc \in {"tombing", "dropping"}
        BY <1>4, <2>1 DEF RemovalInv, RecordHasWriter
    <2>3. q # r
        BY <1>3, <1>4, <2>2
    <2> QED  BY <1>1, <2>2, <2>3
<1>10. CheckedStays'
    BY <1>4, <1>5 DEF RemovalInv, CheckedStays, Progress
<1>11. SurvivorIsKnown'
    BY <1>4, <1>5 DEF RemovalInv, SurvivorIsKnown
<1>12. NoTerminalWithoutRow'
    BY <1>4 DEF RemovalInv, NoTerminalWithoutRow
<1>13. MarkIsReleased'
    BY <1>1, <1>3, <1>4, <1>5 DEF RemovalInv, MarkIsReleased
<1> QED
    BY <1>1, <1>7, <1>8, <1>9, <1>10, <1>11, <1>12, <1>13 DEF RemovalInv, LocksInv

\* The tombstone is written before the row is dropped.
LEMMA TombstonesStep ==
    ASSUME RemovalInv, NEW r \in Removals, Tombstones(r)
    PROVE  RemovalInv'
<1>1. /\ rem[r].pc = "tombing"
      /\ UNCHANGED <<rows, attached, ups, una, sp, live, meta, term, deferred>>
    BY DEF Tombstones, At, sessions
<1>2. PICK k \in Keys : k = rem[r].key
    BY <1>1, HolderIsAlone DEF Holding
<1>3. CASE /\ \E stuck \in BOOLEAN : (stuck => rem[r].archive) /\ Undoes(r, stuck)
           /\ Fault /\ Abandons(r) /\ UNCHANGED tombs
    <2>1. PICK stuck \in BOOLEAN : (stuck => rem[r].archive) /\ Undoes(r, stuck)
        BY <1>3
    <2> QED  BY <1>1, <1>3, <2>1, UndoStep DEF Abandons
<1>4. CASE /\ tombs' = tombs \cup {k}
           /\ Goes(r, "dropping") /\ UNCHANGED <<arch, excused, deleted, lock, left>>
    <2>1. /\ rem' \in [Removals -> Removal]
          /\ rem'[r].pc = "dropping" /\ rem'[r].key = k /\ rem'[r].archive = rem[r].archive
          /\ \A q \in Removals : q # r => rem'[q] = rem[q]
        BY <1>2, <1>4, GoesEffect DEF RemovalInv, Holding
    <2>2. LocksInv'
        BY <1>1, <1>4, HeldStep DEF Holding
    <2>3. TypeOK'
        BY <1>1, <1>4, <2>1 DEF RemovalInv, TypeOK
    <2>4. EmptiedHasNone' /\ DropHasTombstone'
        BY <1>1, <1>2, <1>4, <2>1
        DEF RemovalInv, EmptiedHasNone, DropHasTombstone, Emptied, Holding
    <2>5. RecordHasWriter' /\ MarkIsReleased'
        BY <1>1, <1>2, <1>4, <2>1 DEF RemovalInv, RecordHasWriter, OwnRecord, MarkIsReleased
    <2>6. CheckedStays' /\ SurvivorIsKnown' /\ NoTerminalWithoutRow'
        BY <1>1, <1>4
        DEF RemovalInv, CheckedStays, OwnRecord, SurvivorIsKnown, NoTerminalWithoutRow
    <2> QED  BY <2>2, <2>3, <2>4, <2>5, <2>6 DEF RemovalInv, LocksInv
<1> QED  BY <1>2, <1>3, <1>4 DEF Tombstones

\* The row is dropped: it has no terminal left and a tombstone stops the rest.
LEMMA DropsRowStep ==
    ASSUME RemovalInv, NEW r \in Removals, DropsRow(r)
    PROVE  RemovalInv'
<1>1. /\ rem[r].pc = "dropping"
      /\ UNCHANGED <<ups, una, sp, live, meta, term, deferred>>
    BY DEF DropsRow, At, sessions
<1>2. PICK k \in Keys : k = rem[r].key
    BY <1>1, HolderIsAlone DEF Holding
<1>3. CASE /\ Fault
           /\ \E stuck \in BOOLEAN :
                 /\ (stuck => rem[r].archive) /\ Undoes(r, stuck)
                 /\ deleted' = IF stuck THEN deleted ELSE deleted \ {k}
           /\ tombs' \in {tombs, tombs \ {k}}
           /\ rem' = [rem EXCEPT ![r] = NoRemoval]
           /\ lock' = [lock EXCEPT ![k] = None]
           /\ UNCHANGED <<rows, attached>>
    <2>1. PICK stuck \in BOOLEAN :
             /\ (stuck => rem[r].archive) /\ Undoes(r, stuck)
             /\ deleted' = IF stuck THEN deleted ELSE deleted \ {k}
        BY <1>3
    <2> QED  BY <1>1, <1>2, <1>3, <2>1, UndoStep
<1>4. CASE /\ rows' = rows \ {k}
           /\ attached' = [attached EXCEPT ![k] = {}]
           /\ Goes(r, "sweeping")
           /\ UNCHANGED <<arch, tombs, excused, deleted, lock, left>>
    <2>1. /\ rem' \in [Removals -> Removal]
          /\ rem'[r].pc = "sweeping" /\ rem'[r].key = k
          /\ \A q \in Removals : q # r => rem'[q] = rem[q]
        BY <1>2, <1>4, GoesEffect DEF RemovalInv, Holding
    <2>2. LocksInv'
        BY <1>1, <1>2, <1>4, HeldStep DEF Holding
    <2>3. TypeOK'
        BY <1>1, <1>4, <2>1 DEF RemovalInv, TypeOK
    <2>4. EmptiedHasNone' /\ DropHasTombstone'
        BY <1>1, <1>2, <1>4, <2>1
        DEF RemovalInv, EmptiedHasNone, DropHasTombstone, Emptied, Holding
    <2>5. RecordHasWriter' /\ MarkIsReleased'
        BY <1>1, <1>2, <1>4, <2>1 DEF RemovalInv, RecordHasWriter, OwnRecord, MarkIsReleased
    <2>6. CheckedStays'
        <3>1. ups.pc = "building" => ups.key # k
            BY <1>1, <1>2, HolderIsAlone DEF Holding
        <3> QED  BY <1>1, <1>4, <3>1 DEF RemovalInv, CheckedStays, OwnRecord
    <2>7. SurvivorIsKnown'
        BY <1>1, <1>2, <1>4 DEF RemovalInv, SurvivorIsKnown, DropHasTombstone
    <2>8. NoTerminalWithoutRow'
        BY <1>1, <1>2, <1>4
        DEF RemovalInv, NoTerminalWithoutRow, EmptiedHasNone, Emptied, Holding
    <2> QED  BY <2>2, <2>3, <2>4, <2>5, <2>6, <2>7, <2>8 DEF RemovalInv, LocksInv
<1> QED  BY <1>2, <1>3, <1>4 DEF DropsRow

\* The sweep, and the release of the mark or its deferral.
LEMMA SweepsStep ==
    ASSUME RemovalInv, NEW r \in Removals, Sweeps(r)
    PROVE  RemovalInv'
<1>1. /\ rem[r].pc = "sweeping" /\ KillsOrphans(rem[r].key)
      /\ rem' = [rem EXCEPT ![r] = NoRemoval] /\ lock' = [lock EXCEPT ![rem[r].key] = None]
      /\ UNCHANGED <<rows, attached, arch, tombs, excused, ups, una, sp, term>>
    BY DEF Sweeps, At, store
<1>2. PICK k \in Keys : k = rem[r].key
    BY <1>1, HolderIsAlone DEF Holding
<1>3. /\ live' \subseteq live /\ meta' \subseteq meta /\ (Fault \/ UNCHANGED left)
      /\ live \ live' \subseteq meta
      /\ \A s \in live \cap meta : s \notin live' \cap meta' => sp[s].key = k
    BY <1>1, <1>2, OrphansEffect DEF Emptied, Holding
<1>4. /\ rem' \in [Removals -> Removal] /\ rem'[r] = NoRemoval
      /\ \A q \in Removals : q # r => rem'[q] = rem[q]
      /\ lock' \in [Keys -> Removals \cup Spawns \cup {Poller, None}]
      /\ LocksInv'
    BY <1>1, <1>3, EndStep DEF Holding
<1>5. rem'[r].pc = "idle"
    BY <1>4, Blanks
<1>6. /\ deleted' \subseteq deleted /\ deferred \subseteq deferred' /\ deferred' \subseteq Keys
      /\ k \in deleted' => k \in deferred'
    BY <1>2 DEF Sweeps, RemovalInv, TypeOK
<1>7. term' \subseteq live' \cap meta'
    BY <1>1, <1>2, <1>3 DEF RemovalInv, TypeOK, EmptiedHasNone, Emptied, Holding
<1>8. TypeOK'
    BY <1>1, <1>3, <1>4, <1>6, <1>7, FaultCounts DEF RemovalInv, TypeOK
<1>9. EmptiedHasNone' /\ DropHasTombstone'
    BY <1>1, <1>4, <1>5 DEF RemovalInv, EmptiedHasNone, DropHasTombstone, Emptied, Holding
<1>10. RecordHasWriter' /\ CheckedStays'
    BY <1>1, <1>4, <1>6 DEF RemovalInv, RecordHasWriter, CheckedStays, OwnRecord
<1>11. SurvivorIsKnown' /\ NoTerminalWithoutRow'
    BY <1>1, <1>3 DEF RemovalInv, SurvivorIsKnown, NoTerminalWithoutRow
<1>12. MarkIsReleased'
    BY <1>1, <1>2, <1>4, <1>6 DEF RemovalInv, MarkIsReleased
<1> QED
    BY <1>4, <1>8, <1>9, <1>10, <1>11, <1>12 DEF RemovalInv, LocksInv

-----------------------------------------------------------------------------
(* Marks, records and spawns                                               *)

\* Steps that take no lock and leave rows, removals and sessions alone.
LEMMA AsideStep ==
    ASSUME RemovalInv, deleted' \subseteq deleted, deferred' \subseteq deferred,
           \A k \in deferred : k \in deferred' \/ k \notin deleted',
           una' \in Unarchive, una'.pc = "deleting" => una'.key \in Keys,
           arch' \in [Keys -> Record \cup {Absent}],
           \A j \in Keys : OwnRecord(j)' => OwnRecord(j),
           UNCHANGED <<rows, attached, tombs, excused, lock, rem, ups, sp, live, meta, term, left>>
    PROVE  RemovalInv'
<1>1. TypeOK' /\ Progress'
    BY DEF RemovalInv, TypeOK, Progress
<1>2. RemovalHolds' /\ SpawnHolds' /\ PollerHolds' /\ EmptiedHasNone' /\ DropHasTombstone'
    BY DEF RemovalInv, RemovalHolds, SpawnHolds, PollerHolds, EmptiedHasNone, DropHasTombstone
<1>3. SurvivorIsKnown' /\ NoTerminalWithoutRow' /\ MarkIsReleased'
    BY DEF RemovalInv, SurvivorIsKnown, NoTerminalWithoutRow, MarkIsReleased
<1>4. RecordHasWriter'
    BY DEF RemovalInv, TypeOK, RecordHasWriter
<1>5. CheckedStays'
    BY DEF RemovalInv, Progress, CheckedStays
<1> QED  BY <1>1, <1>2, <1>3, <1>4, <1>5 DEF RemovalInv

\* An unarchive begins or deletes its records, or a mark is let go.
LEMMA RecordsStep ==
    ASSUME RemovalInv,
           DeletesRecords \/ \E k \in Keys : UserUnarchives(k) \/ ReleasesMark(k)
    PROVE  RemovalInv'
<1>1. CASE DeletesRecords
    <2>1. arch' = Dropped({una.key} \cup una.drop)
        BY <1>1 DEF DeletesRecords
    <2>2. /\ arch' \in [Keys -> Record \cup {Absent}]
          /\ \A j \in Keys : OwnRecord(j)' => OwnRecord(j)
        BY <2>1, DroppedEffect DEF RemovalInv
    <2> QED  BY <1>1, <2>2, Blanks, AsideStep DEF DeletesRecords, sessions
<1>2. ASSUME NEW k \in Keys, UserUnarchives(k) PROVE RemovalInv'
    <2>1. una' = [pc |-> "deleting", key |-> k, drop |-> Folded(k)] /\ IsArchived(k)
        BY <1>2 DEF UserUnarchives
    <2>2. Folded(k) \subseteq Keys
        BY <2>1 DEF RemovalInv, TypeOK, Folded, IsArchived, Record
    <2>3. una' \in Unarchive /\ una'.key = k
        BY <2>1, <2>2 DEF Unarchive
    <2> QED  BY <1>2, <2>3, AsideStep DEF UserUnarchives, store, sessions, RemovalInv, TypeOK, OwnRecord
<1>3. ASSUME NEW k \in Keys, ReleasesMark(k) PROVE RemovalInv'
    BY <1>3, AsideStep DEF ReleasesMark, store, sessions, RemovalInv, TypeOK, OwnRecord, Progress
<1> QED  BY <1>1, <1>2, <1>3

\* A spawn that begins, or that ends without a terminal, or a terminal that
\* goes: no session gains an owner.
LEMMA SpawnBeginsStep ==
    ASSUME RemovalInv, NEW s \in Spawns, NEW k \in Keys, SpawnBegins(s, k)
    PROVE  RemovalInv'
<1>1. /\ sp[s].pc = "idle" /\ s \notin meta /\ s \notin term
      /\ UNCHANGED <<rows, attached, arch, tombs, excused, deleted, lock, rem, ups, una, live, meta,
                     term, deferred, left>>
    BY DEF SpawnBegins, store, RemovalInv, TypeOK, Progress
<1> DEFINE new == [pc |-> "provisioning", key |-> k]
<1>2. new \in Spawn /\ new.pc = "provisioning" /\ new.key = k
    BY DEF Spawn
<1>3. sp' = [sp EXCEPT ![s] = new]
    BY DEF SpawnBegins
<1> HIDE DEF new
<1>4. /\ sp' \in [Spawns -> Spawn] /\ sp'[s] = new
      /\ \A t \in Spawns : t # s => sp'[t] = sp[t]
    BY <1>2, <1>3 DEF RemovalInv, TypeOK
<1>5. TypeOK' /\ Progress'
    BY <1>1, <1>2, <1>4 DEF RemovalInv, TypeOK, Progress
<1>6. RemovalHolds' /\ SpawnHolds' /\ PollerHolds' /\ DropHasTombstone'
    BY <1>1, <1>2, <1>4 DEF RemovalInv, RemovalHolds, SpawnHolds, PollerHolds, DropHasTombstone
<1>7. EmptiedHasNone' /\ SurvivorIsKnown' /\ NoTerminalWithoutRow'
    BY <1>1, <1>4 DEF RemovalInv, TypeOK, EmptiedHasNone, SurvivorIsKnown, NoTerminalWithoutRow
<1>8. RecordHasWriter' /\ CheckedStays' /\ MarkIsReleased'
    BY <1>1 DEF RemovalInv, RecordHasWriter, CheckedStays, OwnRecord, MarkIsReleased
<1> QED  BY <1>5, <1>6, <1>7, <1>8 DEF RemovalInv

\* A spawn that takes the lock has found its row.
LEMMA SpawnLaunchesStep ==
    ASSUME RemovalInv, NEW s \in Spawns, SpawnLaunches(s)
    PROVE  RemovalInv'
<1>1. /\ sp[s].pc = "provisioning" /\ s \notin meta /\ s \notin term
      /\ UNCHANGED <<rows, attached, arch, tombs, excused, deleted, rem, ups, una, meta, term,
                     deferred, left>>
    BY DEF SpawnLaunches, store, RemovalInv, TypeOK, Progress
<1>2. PICK k \in Keys : k = sp[s].key
    BY <1>1 DEF RemovalInv, Progress
<1>3. lock[k] = None
    BY <1>2 DEF SpawnLaunches
<1>4. PICK pc \in {"launched", "over"} :
         /\ sp' = [sp EXCEPT ![s].pc = pc]
         /\ IF pc = "launched"
            THEN k \in rows /\ lock' = [lock EXCEPT ![k] = s] /\ live' = live \cup {s}
            ELSE lock' = lock /\ live' = live
    BY <1>2 DEF SpawnLaunches, Revalidates
<1>5. /\ sp' \in [Spawns -> Spawn] /\ sp'[s].pc = pc /\ sp'[s].key = k
      /\ \A t \in Spawns : t # s => sp'[t] = sp[t]
    <2>1. sp[s] \in Spawn /\ sp \in [Spawns -> Spawn]
        BY DEF RemovalInv, TypeOK
    <2>2. PICK n : n = [sp[s] EXCEPT !.pc = pc]
        OBVIOUS
    <2>3. n \in Spawn /\ n.pc = pc /\ n.key = k
        BY <1>2, <2>1, <2>2 DEF Spawn
    <2>4. sp' = [sp EXCEPT ![s] = n]
        BY <1>4, <2>2
    <2> QED  BY <2>1, <2>3, <2>4
<1>6. /\ lock' \in [Keys -> Removals \cup Spawns \cup {Poller, None}]
      /\ \A j \in Keys : lock[j] # None => lock'[j] = lock[j]
      /\ pc = "launched" => lock'[k] = s
    BY <1>3, <1>4 DEF RemovalInv, TypeOK
<1>7. TypeOK'
    BY <1>1, <1>4, <1>5, <1>6 DEF RemovalInv, TypeOK
<1>8. Progress'
    BY <1>1, <1>2, <1>4, <1>5 DEF RemovalInv, Progress
<1>9. RemovalHolds'
    BY <1>1, <1>6, Names DEF RemovalInv, RemovalHolds, Progress, Holding
<1>10. SpawnHolds'
    BY <1>1, <1>4, <1>5, <1>6, Names DEF RemovalInv, SpawnHolds, Progress
<1>11. PollerHolds'
    <2>1. \A j \in Keys : Closes[j] \subseteq Keys
        BY RemovalAssumption
    <2> QED  BY <1>1, <1>6, <2>1, Names DEF RemovalInv, PollerHolds, Progress
<1>12. EmptiedHasNone' /\ DropHasTombstone' /\ NoTerminalWithoutRow'
    BY <1>1, <1>5 DEF RemovalInv, TypeOK, EmptiedHasNone, DropHasTombstone, NoTerminalWithoutRow
<1>13. SurvivorIsKnown'
    BY <1>1, <1>4, <1>5 DEF RemovalInv, TypeOK, SurvivorIsKnown
<1>14. RecordHasWriter' /\ CheckedStays' /\ MarkIsReleased'
    BY <1>1 DEF RemovalInv, RecordHasWriter, CheckedStays, OwnRecord, MarkIsReleased
<1> QED
    BY <1>7, <1>8, <1>9, <1>10, <1>11, <1>12, <1>13, <1>14 DEF RemovalInv

\* A spawn registers while its row stands and no removal has emptied it.
LEMMA SpawnRegistersStep ==
    ASSUME RemovalInv, NEW s \in Spawns, SpawnRegisters(s)
    PROVE  RemovalInv'
<1>1. /\ sp[s].pc = "launched" /\ s \notin meta /\ s \notin term
      /\ UNCHANGED <<rows, attached, arch, tombs, excused, deleted, rem, ups, una, deferred>>
    BY DEF SpawnRegisters, store, RemovalInv, TypeOK, Progress
<1>2. PICK k \in Keys : k = sp[s].key
    BY <1>1 DEF RemovalInv, Progress
<1>3. lock[k] = s /\ k \in rows /\ lock' = [lock EXCEPT ![k] = None]
    BY <1>1, <1>2 DEF SpawnRegisters, RemovalInv, SpawnHolds
<1>4. PICK pc \in {"running", "over"} :
         /\ sp' = [sp EXCEPT ![s].pc = pc]
         /\ Fault \/ UNCHANGED left
         /\ live' = live \/ (live' = live \ {s} /\ pc = "over")
         /\ IF pc = "running" THEN term' = term \cup {s} /\ meta' = meta \cup {s}
                              ELSE UNCHANGED <<term, meta>>
    BY DEF SpawnRegisters, Fails
<1>5. /\ sp' \in [Spawns -> Spawn] /\ sp'[s].pc = pc /\ sp'[s].key = k
      /\ \A t \in Spawns : t # s => sp'[t] = sp[t]
    <2>1. sp[s] \in Spawn /\ sp \in [Spawns -> Spawn]
        BY DEF RemovalInv, TypeOK
    <2>2. PICK n : n = [sp[s] EXCEPT !.pc = pc]
        OBVIOUS
    <2>3. n \in Spawn /\ n.pc = pc /\ n.key = k
        BY <1>2, <2>1, <2>2 DEF Spawn
    <2>4. sp' = [sp EXCEPT ![s] = n]
        BY <1>4, <2>2
    <2> QED  BY <2>1, <2>3, <2>4
<1>6. /\ lock' \in [Keys -> Removals \cup Spawns \cup {Poller, None}]
      /\ \A j \in Keys : lock[j] # s => lock'[j] = lock[j]
    BY <1>3 DEF RemovalInv, TypeOK
<1>7. s \in live
    BY <1>1 DEF RemovalInv, Progress
<1>8. TypeOK'
    BY <1>1, <1>4, <1>5, <1>6, <1>7, FaultCounts DEF RemovalInv, TypeOK
<1>9. Progress'
    BY <1>1, <1>2, <1>4, <1>5 DEF RemovalInv, Progress
<1>10. RemovalHolds'
    BY <1>1, <1>6, Names DEF RemovalInv, RemovalHolds, Progress, Holding
<1>11. SpawnHolds'
    BY <1>1, <1>4, <1>5, <1>6, Names DEF RemovalInv, SpawnHolds, Progress
<1>12. PollerHolds'
    <2>1. \A j \in Keys : Closes[j] \subseteq Keys
        BY RemovalAssumption
    <2> QED  BY <1>1, <1>6, <2>1, Names DEF RemovalInv, PollerHolds, Progress
<1>13. EmptiedHasNone'
    <2>1. \A r \in Removals : rem[r].pc \in Emptied => rem[r].key # k
        BY <1>3, Names DEF RemovalInv, RemovalHolds, Emptied
    <2> QED  BY <1>1, <1>4, <1>5, <2>1 DEF RemovalInv, TypeOK, EmptiedHasNone
<1>14. DropHasTombstone' /\ RecordHasWriter' /\ CheckedStays' /\ MarkIsReleased'
    BY <1>1
    DEF RemovalInv, DropHasTombstone, RecordHasWriter, CheckedStays, OwnRecord, MarkIsReleased
<1>15. SurvivorIsKnown' /\ NoTerminalWithoutRow'
    BY <1>1, <1>3, <1>4, <1>5 DEF RemovalInv, TypeOK, SurvivorIsKnown, NoTerminalWithoutRow
<1> QED
    BY <1>8, <1>9, <1>10, <1>11, <1>12, <1>13, <1>14, <1>15 DEF RemovalInv

\* A terminal goes.
LEMMA TerminalGoesStep ==
    ASSUME RemovalInv, NEW s \in Spawns, TerminalGoes(s)
    PROVE  RemovalInv'
<1>1. /\ term' \subseteq term
      /\ UNCHANGED <<rows, attached, arch, tombs, excused, deleted, lock, rem, ups, una, sp, live,
                     meta, deferred, left>>
    BY DEF TerminalGoes, store
<1>2. TypeOK' /\ Progress'
    BY <1>1 DEF RemovalInv, TypeOK, Progress
<1>3. RemovalHolds' /\ SpawnHolds' /\ PollerHolds' /\ EmptiedHasNone' /\ DropHasTombstone'
    BY <1>1
    DEF RemovalInv, RemovalHolds, SpawnHolds, PollerHolds, EmptiedHasNone, DropHasTombstone
<1>4. SurvivorIsKnown' /\ NoTerminalWithoutRow' /\ MarkIsReleased'
    BY <1>1 DEF RemovalInv, SurvivorIsKnown, NoTerminalWithoutRow, MarkIsReleased
<1>5. RecordHasWriter' /\ CheckedStays'
    BY <1>1 DEF RemovalInv, RecordHasWriter, CheckedStays, OwnRecord
<1> QED  BY <1>2, <1>3, <1>4, <1>5 DEF RemovalInv

-----------------------------------------------------------------------------
(* The poll's upsert                                                       *)

\* A step of the upsert that writes nothing.
LEMMA UpsertWaits ==
    ASSUME RemovalInv, ups' \in Upsert, ups'.pc # "building",
           ups'.pc # "idle" =>
              /\ ups'.key \in Keys /\ ups'.task \in Keys
              /\ ups'.key # ups'.task => ups'.task \in Closes[ups'.key] /\ ups'.task \notin rows,
           excused \subseteq excused', excused' \subseteq Keys, Fault \/ UNCHANGED left,
           UNCHANGED <<rows, attached, arch, tombs, deleted, lock, rem, una, sp, live, meta, term,
                       deferred>>
    PROVE  RemovalInv'
<1>1. TypeOK' /\ Progress'
    BY FaultCounts DEF RemovalInv, TypeOK, Progress
<1>2. RemovalHolds' /\ SpawnHolds' /\ PollerHolds' /\ EmptiedHasNone' /\ DropHasTombstone'
    BY DEF RemovalInv, RemovalHolds, SpawnHolds, PollerHolds, EmptiedHasNone, DropHasTombstone
<1>3. SurvivorIsKnown' /\ NoTerminalWithoutRow' /\ MarkIsReleased'
    BY DEF RemovalInv, SurvivorIsKnown, NoTerminalWithoutRow, MarkIsReleased
<1>4. RecordHasWriter' /\ CheckedStays'
    BY DEF RemovalInv, RecordHasWriter, CheckedStays, OwnRecord
<1> QED  BY <1>1, <1>2, <1>3, <1>4 DEF RemovalInv

\* A polled task is routed to a row, or given up.
LEMMA PollsStep ==
    ASSUME RemovalInv, UpsertSkips \/ \E k \in Keys : PollsTask(k)
    PROVE  RemovalInv'
<1>1. CASE UpsertSkips
    BY <1>1, UpsertWaits, Blanks DEF UpsertSkips, store, sessions, RemovalInv, TypeOK
<1>2. ASSUME NEW k \in Keys, PollsTask(k) PROVE RemovalInv'
    <2>1. PICK p \in {q \in rows \ {k} : k \in Closes[q] /\ k \notin rows} \cup {k} :
             ups' = [pc |-> "waiting", key |-> p, task |-> k]
        BY <1>2 DEF PollsTask
    <2>2. p \in Keys /\ (p # k => k \in Closes[p] /\ k \notin rows)
        BY <2>1 DEF RemovalInv, TypeOK
    <2>3. ups' \in Upsert /\ ups'.pc = "waiting" /\ ups'.key = p /\ ups'.task = k
        BY <2>1, <2>2 DEF Upsert
    <2>4. /\ excused \subseteq excused' /\ excused' \subseteq Keys /\ (Fault \/ UNCHANGED left)
          /\ UNCHANGED <<rows, attached, arch, tombs, deleted, lock, rem, una, sp, live, meta, term,
                         deferred>>
        BY <1>2 DEF PollsTask, Exposes, Fails, sessions, RemovalInv, TypeOK
    <2> QED  BY <2>2, <2>3, <2>4, UpsertWaits
<1> QED  BY <1>1, <1>2

\* Under the locks the key is looked up again.
LEMMA UpsertLocksStep ==
    ASSUME RemovalInv, UpsertLocks
    PROVE  RemovalInv'
<1>1. PICK unread \in BOOLEAN :
         /\ Fails(unread) /\ Exposes(ups.key, unread)
         /\ IF Rechecks(ups.key, unread)
            THEN /\ lock' = [j \in Keys |-> IF j \in Locked(ups) THEN Poller ELSE lock[j]]
                 /\ ups' = [ups EXCEPT !.pc = "building"]
            ELSE ups' = NoUpsert /\ UNCHANGED lock
    BY DEF UpsertLocks
<1>2. /\ ups.pc = "waiting" /\ \A j \in Locked(ups) : lock[j] = None
      /\ UNCHANGED <<rows, attached, arch, tombs, deleted, rem, una, sp, live, meta, term, deferred>>
    BY DEF UpsertLocks, sessions
<1>3. PICK k \in Keys : k = ups.key
    BY <1>2 DEF RemovalInv, Progress
<1>4. /\ excused \subseteq excused' /\ excused' \subseteq Keys /\ (Fault \/ UNCHANGED left)
      /\ unread => k \in excused'
    BY <1>1, <1>3 DEF Exposes, Fails, RemovalInv, TypeOK
<1>5. CASE ~Rechecks(ups.key, unread)
    BY <1>1, <1>2, <1>4, <1>5, UpsertWaits, Blanks
<1>6. CASE Rechecks(ups.key, unread)
    <2>1. /\ k \notin deleted /\ (OwnRecord(k) => k \in excused')
        BY <1>3, <1>4, <1>6 DEF Rechecks, FindsArchived, IsArchived, OwnRecord
    <2>2. /\ ups' \in Upsert /\ ups'.pc = "building" /\ ups'.key = k /\ ups'.task = ups.task
        BY <1>1, <1>3, <1>6 DEF RemovalInv, TypeOK, Upsert
    <2>3. /\ lock' \in [Keys -> Removals \cup Spawns \cup {Poller, None}]
          /\ \A j \in Keys : lock[j] # None => lock'[j] = lock[j]
          /\ \A j \in Keys : j \in Locked(ups) => lock'[j] = Poller
        BY <1>1, <1>2, <1>6 DEF RemovalInv, TypeOK
    <2>4. TypeOK'
        BY <1>2, <1>4, <2>2, <2>3, FaultCounts DEF RemovalInv, TypeOK
    <2>5. Progress'
        BY <1>2, <1>3, <2>2 DEF RemovalInv, Progress
    <2>6. RemovalHolds'
        BY <1>2, <2>3, Names DEF RemovalInv, RemovalHolds, Progress, Holding
    <2>7. SpawnHolds'
        BY <1>2, <2>3, Names DEF RemovalInv, SpawnHolds, Progress
    <2>8. PollerHolds'
        <3>1. \A j \in Keys : Closes[j] \subseteq Keys
            BY RemovalAssumption
        <3> QED  BY <1>2, <1>3, <2>2, <2>3, <3>1 DEF PollerHolds, Locked
    <2>9. EmptiedHasNone' /\ DropHasTombstone' /\ SurvivorIsKnown' /\ NoTerminalWithoutRow'
        BY <1>2, <1>4
        DEF RemovalInv, EmptiedHasNone, DropHasTombstone, SurvivorIsKnown, NoTerminalWithoutRow
    <2>10. RecordHasWriter' /\ MarkIsReleased'
        BY <1>2, <1>4 DEF RemovalInv, RecordHasWriter, OwnRecord, MarkIsReleased
    <2>11. CheckedStays'
        BY <1>2, <2>1, <2>2 DEF CheckedStays, OwnRecord
    <2> QED
        BY <2>4, <2>5, <2>6, <2>7, <2>8, <2>9, <2>10, <2>11 DEF RemovalInv
<1> QED  BY <1>5, <1>6

\* The rows that go with an upsert are those the poll has locked, and no
\* terminal is registered for them.
LEMMA FoldEffect ==
    ASSUME RemovalInv, ups.pc = "building", NEW k, NEW folds \in Folds(k), NEW folded,
           k = IF ups.key \in rows THEN ups.key ELSE ups.task,
           folded = folds \cup ({ups.task} \ {k})
    PROVE  /\ k \in Keys /\ folded \subseteq Keys
           /\ \A j \in folded : lock[j] = Poller
           /\ \A j \in folded \cap rows : term \cap Of(j) = {}
<1>1. /\ ups.key \in Keys /\ ups.task \in Keys
      /\ ups.key # ups.task => ups.task \in Closes[ups.key] /\ ups.task \notin rows
    BY DEF RemovalInv, Progress
<1>2. /\ \A j \in Keys : Closes[j] \subseteq Keys
      /\ \A i \in Keys : \A j \in Closes[i] : Closes[j] = {}
    <2>1. Closes \in [Keys -> SUBSET Keys]
        BY RemovalAssumption
    <2>2. \A i \in Keys : Closes[i] # {} => \A j \in Closes[i] : Closes[j] = {} /\ j # i
        BY RemovalAssumption, Zenon
    <2> QED  BY <2>1, <2>2
<1>3. folds \subseteq Closes[k] /\ \A j \in folds : term \cap Of(j) = {}
    BY DEF Folds
<1>4. CASE k = ups.key
    <2>1. ups.key \in rows \cup {ups.task}
        BY <1>4
    <2>2. \A j \in Closes[ups.key] : lock[j] = Poller
        BY <2>1 DEF RemovalInv, PollerHolds
    <2>3. folded \subseteq Closes[ups.key]
        BY <1>1, <1>3, <1>4
    <2>4. \A j \in folded \cap rows : j \in folds
        BY <1>1, <1>4
    <2> QED  BY <1>1, <1>2, <1>3, <1>4, <2>2, <2>3, <2>4
<1>5. CASE k # ups.key
    <2>1. k = ups.task /\ ups.key # ups.task
        BY <1>5
    <2>2. Closes[k] = {}
        BY <1>1, <1>2, <2>1
    <2>3. folded = {}
        BY <1>3, <2>1, <2>2
    <2> QED  BY <1>1, <2>1, <2>3
<1> QED  BY <1>4, <1>5

\* The row is built from a key that was checked under its lock.
LEMMA UpsertCommitsStep ==
    ASSUME RemovalInv, UpsertCommits
    PROVE  RemovalInv'
<1>1. ups.pc = "building" /\ ups' = NoUpsert
      /\ UNCHANGED <<arch, tombs, deleted, rem, una, sp, live, meta, term, deferred, left>>
    BY DEF UpsertCommits, sessions
<1>2. PICK k, folded :
         /\ k = IF ups.key \in rows THEN ups.key ELSE ups.task
         /\ \E folds \in Folds(k) : folded = folds \cup ({ups.task} \ {k})
         /\ rows' = (rows \cup {k}) \ folded
         /\ attached' = [attached EXCEPT ![k] = @ \cup folded]
         /\ excused' = excused \cup ({k} \ {ups.key}) \cup LeftBehind(folded)
         /\ lock' = [j \in Keys |-> IF lock[j] = Poller THEN None ELSE lock[j]]
    BY DEF UpsertCommits
<1>3. /\ k \in Keys /\ folded \subseteq Keys
      /\ \A j \in folded : lock[j] = Poller
      /\ \A j \in folded \cap rows : term \cap Of(j) = {}
    BY <1>1, <1>2, FoldEffect
<1>4. /\ rows' \subseteq rows \cup {k} /\ \A j \in rows : j \in rows' \/ j \in folded
      /\ k \notin rows => k \in excused' \/ k = ups.key
      /\ excused \subseteq excused' /\ excused' \subseteq Keys
    BY <1>2, <1>3 DEF LeftBehind, RemovalInv, TypeOK
<1>5. /\ lock' \in [Keys -> Removals \cup Spawns \cup {Poller, None}]
      /\ \A j \in Keys : lock[j] # Poller => lock'[j] = lock[j]
    BY <1>2 DEF RemovalInv, TypeOK
<1>6. attached' \in [Keys -> SUBSET Keys]
    BY <1>2, <1>3 DEF RemovalInv, TypeOK
<1>7. TypeOK'
    BY <1>1, <1>3, <1>4, <1>5, <1>6, Blanks DEF RemovalInv, TypeOK
<1>8. Progress' /\ PollerHolds'
    BY <1>1, Blanks DEF RemovalInv, Progress, PollerHolds
<1>9. RemovalHolds'
    BY <1>1, <1>5, Names DEF RemovalInv, RemovalHolds, Progress, Holding
<1>10. SpawnHolds'
    BY <1>1, <1>3, <1>4, <1>5, Names DEF RemovalInv, SpawnHolds, Progress
<1>11. EmptiedHasNone' /\ DropHasTombstone'
    BY <1>1 DEF RemovalInv, EmptiedHasNone, DropHasTombstone
<1>12. \A s \in term : sp[s].key \in rows => sp[s].key \in rows'
    BY <1>3, <1>4 DEF RemovalInv, TypeOK, Of
<1>13. NoTerminalWithoutRow'
    BY <1>1, <1>4, <1>12 DEF RemovalInv, NoTerminalWithoutRow
<1>14. SurvivorIsKnown'
    <2> SUFFICES ASSUME NEW s \in live \cap meta, sp[s].key \in rows, sp[s].key \notin rows'
                 PROVE  sp[s].key \in excused'
        BY <1>1, <1>4 DEF RemovalInv, SurvivorIsKnown
    <2>1. s \notin term /\ sp[s].key \in folded /\ s \in Spawns
        BY <1>4, <1>12 DEF RemovalInv, TypeOK
    <2>2. sp[s].key \in LeftBehind(folded)
        BY <2>1 DEF LeftBehind, Of
    <2> QED  BY <1>2, <2>2
<1>15. RecordHasWriter'
    BY <1>1, <1>4 DEF RemovalInv, RecordHasWriter, CheckedStays, OwnRecord
<1>16. CheckedStays'
    BY <1>1, Blanks DEF CheckedStays
<1>17. MarkIsReleased'
    BY <1>1, <1>4 DEF RemovalInv, MarkIsReleased, CheckedStays
<1> QED
    BY <1>7, <1>8, <1>9, <1>10, <1>11, <1>13, <1>14, <1>15, <1>16, <1>17 DEF RemovalInv

\* The user has a row folded in: its terminals go over to the other one.
LEMMA UserMergesStep ==
    ASSUME RemovalInv, NEW j \in Keys, NEW k \in Keys, UserMerges(j, k)
    PROVE  RemovalInv'
<1>1. /\ j \in rows /\ k \in rows /\ lock[j] = None /\ lock[k] = None
      /\ rows' = rows \ {j}
      /\ attached' = [attached EXCEPT ![k] = @ \cup {j}]
      /\ excused' = excused \cup LeftBehind({j})
      /\ UNCHANGED <<arch, tombs, deleted, lock, rem, ups, una, live, meta, term, deferred, left>>
    BY DEF UserMerges
<1>2. k # j
    <2>1. \A i \in Keys : Closes[i] # {} => \A h \in Closes[i] : Closes[h] = {} /\ h # i
        BY RemovalAssumption, Zenon
    <2> QED  BY <2>1 DEF UserMerges
<1>3. /\ sp' \in [Spawns -> Spawn]
      /\ \A s \in Spawns : IF s \in term /\ sp[s].key = j
                           THEN sp'[s].key = k /\ sp'[s].pc = sp[s].pc ELSE sp'[s] = sp[s]
    <2>1. sp' = Rebadged(j, k) /\ \A s \in Spawns : sp[s] \in Spawn
        BY DEF UserMerges, RemovalInv, TypeOK
    <2>2. \A s \in Spawns : /\ [sp[s] EXCEPT !.key = k] \in Spawn
                            /\ [sp[s] EXCEPT !.key = k].key = k
                            /\ [sp[s] EXCEPT !.key = k].pc = sp[s].pc
        BY <2>1 DEF Spawn
    <2> QED  BY <2>1, <2>2 DEF Rebadged
<1>4. excused \subseteq excused' /\ excused' \subseteq Keys
    BY <1>1 DEF LeftBehind, RemovalInv, TypeOK
<1>5. TypeOK'
    BY <1>1, <1>3, <1>4 DEF RemovalInv, TypeOK
<1>6. Progress'
    BY <1>1, <1>3 DEF RemovalInv, Progress
<1>7. RemovalHolds' /\ PollerHolds' /\ DropHasTombstone'
    BY <1>1 DEF RemovalInv, RemovalHolds, PollerHolds, DropHasTombstone
<1>8. SpawnHolds'
    BY <1>1, <1>3, Names DEF RemovalInv, TypeOK, SpawnHolds, Progress
<1>9. EmptiedHasNone'
    <2>1. \A r \in Removals : rem[r].pc \in Emptied => rem[r].key # k
        BY <1>1, Names DEF RemovalInv, RemovalHolds, Emptied
    <2> QED  BY <1>1, <1>3, <2>1 DEF RemovalInv, TypeOK, EmptiedHasNone
<1>10. NoTerminalWithoutRow'
    BY <1>1, <1>2, <1>3, <1>4 DEF RemovalInv, TypeOK, NoTerminalWithoutRow
<1>11. SurvivorIsKnown'
    <2> SUFFICES ASSUME NEW s \in live \cap meta
                 PROVE  sp'[s].key \in rows' \cup excused' \cup tombs'
        BY <1>1 DEF SurvivorIsKnown
    <2>1. s \in Spawns /\ sp[s].key \in rows \cup excused \cup tombs
        BY DEF RemovalInv, TypeOK, SurvivorIsKnown
    <2>2. CASE s \in term /\ sp[s].key = j
        BY <1>1, <1>2, <1>3, <2>1, <2>2
    <2>3. CASE s \notin term /\ sp[s].key = j
        <3>1. j \in LeftBehind({j})
            BY <2>1, <2>3 DEF LeftBehind, Of
        <3> QED  BY <1>1, <1>3, <2>1, <2>3, <3>1
    <2>4. CASE sp[s].key # j
        BY <1>1, <1>3, <1>4, <2>1, <2>4
    <2> QED  BY <2>2, <2>3, <2>4
<1>12. RecordHasWriter' /\ MarkIsReleased'
    BY <1>1, <1>4 DEF RemovalInv, RecordHasWriter, OwnRecord, MarkIsReleased
<1>13. CheckedStays'
    BY <1>1, <1>4, Names DEF RemovalInv, CheckedStays, OwnRecord, PollerHolds
<1> QED
    BY <1>5, <1>6, <1>7, <1>8, <1>9, <1>10, <1>11, <1>12, <1>13 DEF RemovalInv

-----------------------------------------------------------------------------
(* The restart, and the theorems                                           *)

\* Recovery brings back a session only for a row, unless the records could not
\* be read.
LEMMA RestartStep ==
    ASSUME RemovalInv, Restart
    PROVE  RemovalInv'
<1>1. /\ Fault /\ deleted' = {} /\ deferred' = {} /\ ups' = NoUpsert /\ una' = NoUnarchive
      /\ lock' = [k \in Keys |-> None] /\ rem' = [r \in Removals |-> NoRemoval]
      /\ UNCHANGED <<rows, attached, arch, tombs>>
    BY DEF Restart
<1>a. PICK owned : owned = live \cap meta OBVIOUS
<1>b. PICK halfway : halfway = {k \in Keys : RemovingAt(k, {"tombing", "dropping"})} OBVIOUS
<1>c. PICK unread \in BOOLEAN :
         /\ live' = live \ {s \in owned : IsTombstoned(sp[s].key, unread)}
         /\ meta' = meta \ {s \in owned : IsTombstoned(sp[s].key, unread)}
         /\ term' = owned \ {s \in owned : IsTombstoned(sp[s].key, unread)}
         /\ excused' = excused \cup halfway
                              \cup (IF unread THEN {sp[s].key : s \in owned} ELSE {})
    BY <1>a, <1>b DEF Restart
<1>2. PICK doomed :
         /\ owned = live \cap meta
         /\ doomed = {s \in owned : IsTombstoned(sp[s].key, unread)}
         /\ halfway = {k \in Keys : RemovingAt(k, {"tombing", "dropping"})}
         /\ live' = live \ doomed
         /\ meta' = meta \ doomed
         /\ term' = owned \ doomed
         /\ excused' = excused \cup halfway
                              \cup (IF unread THEN {sp[s].key : s \in owned} ELSE {})
    BY <1>a, <1>b, <1>c
<1>3. /\ sp' \in [Spawns -> Spawn]
      /\ \A s \in Spawns : /\ sp'[s].key = sp[s].key /\ sp'[s].pc # "launched"
                           /\ sp[s].pc = "running" => sp'[s].pc = "running"
                           /\ sp[s].pc = "idle" => sp'[s].pc = "idle"
    <2>1. \A s \in Spawns : /\ sp[s] \in Spawn /\ [sp[s] EXCEPT !.pc = "over"] \in Spawn
                            /\ [sp[s] EXCEPT !.pc = "over"].key = sp[s].key
                            /\ [sp[s] EXCEPT !.pc = "over"].pc = "over"
        BY DEF RemovalInv, TypeOK, Spawn
    <2>2. sp' = [s \in Spawns |-> IF sp[s].pc \in {"provisioning", "launched"}
                                  THEN [sp[s] EXCEPT !.pc = "over"] ELSE sp[s]]
        BY DEF Restart
    <2> QED  BY <2>1, <2>2
<1>4. \A s \in owned : s \in Spawns /\ sp[s].pc = "running" /\ sp[s].key \in Keys
    BY <1>2 DEF RemovalInv, TypeOK, Progress
<1>5. excused \subseteq excused' /\ halfway \subseteq excused' /\ excused' \subseteq Keys
    BY <1>2, <1>4 DEF RemovalInv, TypeOK
<1>6. \A r \in Removals : rem'[r] = NoRemoval /\ rem'[r].pc = "idle"
    BY <1>1, Blanks
<1>7. TypeOK'
    <2>1. rem' \in [Removals -> Removal] /\ lock' \in [Keys -> Removals \cup Spawns \cup {Poller, None}]
        BY <1>1, Blanks
    <2>2. left' \in 0..MaxFaults
        BY <1>1, FaultCounts DEF RemovalInv, TypeOK
    <2> QED  BY <1>1, <1>2, <1>3, <1>5, <2>1, <2>2, Blanks DEF RemovalInv, TypeOK
<1>8. Progress'
    BY <1>1, <1>2, <1>3, <1>6, Blanks DEF RemovalInv, Progress
<1>9. RemovalHolds' /\ SpawnHolds' /\ PollerHolds' /\ EmptiedHasNone' /\ DropHasTombstone'
      /\ CheckedStays' /\ MarkIsReleased'
    BY <1>1, <1>3, <1>6, Blanks
    DEF RemovalHolds, SpawnHolds, PollerHolds, EmptiedHasNone, DropHasTombstone, CheckedStays,
        MarkIsReleased, Holding, Emptied
<1>10. RecordHasWriter'
    BY <1>1, <1>2, <1>5 DEF RemovalInv, TypeOK, RecordHasWriter, OwnRecord, RemovingAt
<1>11. SurvivorIsKnown'
    BY <1>1, <1>2, <1>3, <1>4, <1>5 DEF RemovalInv, SurvivorIsKnown
<1>12. NoTerminalWithoutRow'
    <2> SUFFICES ASSUME NEW s \in owned \ doomed PROVE sp[s].key \in rows \cup excused'
        BY <1>1, <1>2, <1>3, <1>4 DEF NoTerminalWithoutRow
    <2>1. sp[s].key \in rows \cup excused \cup tombs /\ ~IsTombstoned(sp[s].key, unread)
        BY <1>2 DEF RemovalInv, SurvivorIsKnown
    <2>2. CASE unread
        BY <1>2, <2>2
    <2>3. CASE ~unread
        BY <1>5, <2>1, <2>3 DEF IsTombstoned
    <2> QED  BY <2>2, <2>3
<1> QED
    BY <1>7, <1>8, <1>9, <1>10, <1>11, <1>12 DEF RemovalInv

\* Initially no row, session or record is there to disagree.
LEMMA RemovalInit == Init => RemovalInv
<1> SUFFICES ASSUME Init PROVE RemovalInv  OBVIOUS
<1>1. \A r \in Removals : rem[r] = NoRemoval /\ rem[r].pc = "idle"
    BY Blanks DEF Init
<1>2. \A s \in Spawns : sp[s] = NoSpawn /\ sp[s].pc = "idle"
    BY Blanks DEF Init
<1>3. left \in 0..MaxFaults
    BY RemovalAssumption DEF Init
<1>4. TypeOK
    BY <1>3, Blanks DEF Init, TypeOK
<1>5. Progress
    BY <1>1, <1>2, Blanks DEF Init, Progress
<1>6. RemovalHolds /\ SpawnHolds /\ PollerHolds /\ EmptiedHasNone /\ DropHasTombstone
    BY <1>1, <1>2, Blanks
    DEF Init, RemovalHolds, SpawnHolds, PollerHolds, EmptiedHasNone, DropHasTombstone, Holding,
        Emptied
<1>7. SurvivorIsKnown /\ RecordHasWriter /\ CheckedStays /\ NoTerminalWithoutRow /\ MarkIsReleased
    BY Blanks
    DEF Init, SurvivorIsKnown, RecordHasWriter, CheckedStays, NoTerminalWithoutRow, MarkIsReleased
<1> QED  BY <1>4, <1>5, <1>6, <1>7 DEF RemovalInv

\* RemovalInv is inductive: removals, spawns, the poll, the user and restarts
\* keep it, whichever of their calls fail.
THEOREM RemovalInvariant == Spec => []RemovalInv
<1>1. RemovalInv /\ [Next]_vars => RemovalInv'
    <2> SUFFICES ASSUME RemovalInv, [Next]_vars PROVE RemovalInv'  OBVIOUS
    <2>1. CASE \E r \in Removals :
                  \/ \E k \in Keys, archive \in BOOLEAN : Remove(r, k, archive)
                  \/ RemovalLocks(r) \/ KillsTerminals(r) \/ Inspects(r) \/ Archives(r)
                  \/ Tombstones(r) \/ DropsRow(r) \/ Sweeps(r)
        BY <2>1, RemoveStep, RemovalLocksStep, KillsTerminalsStep, InspectsStep, ArchivesStep,
           TombstonesStep, DropsRowStep, SweepsStep
    <2>2. CASE \E k \in Keys : UserUnarchives(k) \/ ReleasesMark(k) \/ PollsTask(k)
        BY <2>2, RecordsStep, PollsStep
    <2>3. CASE \E j, k \in Keys : UserMerges(j, k)
        BY <2>3, UserMergesStep
    <2>4. CASE DeletesRecords \/ UpsertLocks \/ UpsertSkips \/ UpsertCommits
        BY <2>4, RecordsStep, UpsertLocksStep, PollsStep, UpsertCommitsStep
    <2>5. CASE \E s \in Spawns :
                  \/ \E k \in Keys : SpawnBegins(s, k)
                  \/ SpawnLaunches(s) \/ SpawnRegisters(s) \/ TerminalGoes(s)
        BY <2>5, SpawnBeginsStep, SpawnLaunchesStep, SpawnRegistersStep, TerminalGoesStep
    <2>6. CASE Restart
        BY <2>6, RestartStep
    <2>7. CASE UNCHANGED vars
        BY <2>7, AsideStep DEF vars, RemovalInv, TypeOK, Progress, OwnRecord
    <2> QED  BY <2>1, <2>2, <2>3, <2>4, <2>5, <2>6, <2>7 DEF Next
<1> QED  BY RemovalInit, <1>1, PTL DEF Spec

\* The records, the locks and the progress of every actor are well formed.
THEOREM RemovalTypeCorrect == Spec => []TypeOK
<1>1. RemovalInv => TypeOK
    BY DEF RemovalInv
<1> QED  BY RemovalInvariant, <1>1, PTL

\* No spawn and no recovery registers a terminal for a workspace that is gone,
\* for any number of removals, spawns, folds and faults
\* (cancel_spawn_for_deleted_workspace, workspace_is_tombstoned).
THEOREM NoGhostTerminal == Spec => []NoTerminalWithoutRow
<1>1. RemovalInv => NoTerminalWithoutRow
    BY DEF RemovalInv
<1> QED  BY RemovalInvariant, <1>1, PTL

\* A row that stands is marked as deleted only while something will release
\* the mark (release_delete_tombstone), or its key is excused.
THEOREM MarksAreReleased == Spec => []MarkIsReleased
<1>1. RemovalInv => MarkIsReleased
    BY DEF RemovalInv
<1> QED  BY RemovalInvariant, <1>1, PTL

\* No upsert builds the row of a key that is archived in its own right, and no
\* failed removal leaves one (load_archived_set, re-checked under the lock).
THEOREM ArchivedStaysGone == Spec => []StandingRowIsNotArchived
<1>1. RemovalInv => StandingRowIsNotArchived
    BY DEF RemovalInv, RecordHasWriter, OwnRecord, StandingRowIsNotArchived, IsArchived, RemovingAt
<1> QED  BY RemovalInvariant, <1>1, PTL
=============================================================================
