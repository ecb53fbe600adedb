-------------------------- MODULE WorkspaceRemoval --------------------------
(***************************************************************************)
(* How a workspace is removed and stays removed (WorkspaceLifecycle and    *)
(* the archive and tombstone records of workspace/mod.rs), against what    *)
(* brings one back: the poll's upsert (polling/upsert.rs), a spawn that    *)
(* was provisioning (spawn_handler.rs, spawn_executor.rs), the user's      *)
(* unarchive, and the recovery of surviving sessions after a restart.      *)
(*                                                                         *)
(* A removal marks its key, takes the row's lock, stops the registered     *)
(* terminals, writes an archive record (for some reasons) and a session    *)
(* tombstone, drops the row and kills sessions nobody is attached to; each *)
(* step may fail and is then undone.  Store writes are atomic, one key or  *)
(* one batch at a time.  A spawn with a directory of its own resolves no   *)
(* row and is left out, and so are worktrees, dead panes and the migration *)
(* of older formats.  An operator X_Y stated before X is X with a          *)
(* plausible bug, and is used by no specification.                         *)
(***************************************************************************)
EXTENDS Naturals, FiniteSets

CONSTANTS
    Keys,       \* workspace keys
    Closes,     \* the keys of the issues a pull request's row stands in for
    Removals,   \* removals that may run at a time
    Spawns,     \* spawns, and the backend session each leads to
    SpawnKeys,  \* the rows agents are spawned in
    MaxFaults,  \* bound: failures of the backend or the store, and restarts
    None

ASSUME RemovalAssumption ==
    /\ Closes \in [Keys -> SUBSET Keys]
    /\ \A k \in Keys : Closes[k] # {} => \A j \in Closes[k] : Closes[j] = {} /\ j # k
    /\ SpawnKeys \subseteq Keys /\ MaxFaults \in Nat
    /\ Removals \cap Spawns = {} /\ "poller" \notin Removals \cup Spawns
    /\ None \notin Keys \cup Removals \cup Spawns \cup {"poller", "absent"}

VARIABLES
    rows,       \* the keys that have a row
    attached,   \* the issues folded into each row
    arch,       \* each key's ArchiveRecord
    tombs,      \* the session tombstones
    deleted,    \* deleted_workspaces, in memory
    lock,       \* who holds each row's lock
    rem,        \* each removal
    ups,        \* the upsert being carried out
    una,        \* the unarchive being carried out
    sp,         \* each spawn
    live,       \* the sessions alive on the backend
    meta,       \* the sessions whose owner is persisted
    term,       \* the sessions with a registered terminal
    deferred,   \* keys whose mark is cleared when their spawns have drained
    excused,    \* history: keys that a failure or an unchecked write exposed
    left        \* how many faults may still happen

store == <<rows, attached, arch, tombs, excused>>
sessions == <<sp, live, meta, term>>
vars == <<rows, attached, arch, tombs, deleted, lock, rem, ups, una, sp, live,
          meta, term, deferred, excused, left>>

Record == [absorbed : SUBSET Keys, by : Keys \cup {None}]
Flag == [absorbed |-> {}, by |-> None]
Absent == [absorbed |-> {}, by |-> "absent"]
IsArchived(k) == arch[k] # Absent

Poller == "poller"
Removal == [pc : {"idle", "locking", "killing", "inspecting", "archiving", "tombing",
                  "dropping", "sweeping"},
            key : Keys \cup {None}, archive : BOOLEAN]
Upsert == [pc : {"idle", "waiting", "building"}, key : Keys \cup {None}, task : Keys \cup {None}]
Unarchive == [pc : {"idle", "deleting"}, key : Keys \cup {None}, drop : SUBSET Keys]
Spawn == [pc : {"idle", "provisioning", "launched", "running", "over"}, key : Keys \cup {None}]
NoRemoval == [pc |-> "idle", key |-> None, archive |-> FALSE]
NoUpsert == [pc |-> "idle", key |-> None, task |-> None]
NoUnarchive == [pc |-> "idle", key |-> None, drop |-> {}]
NoSpawn == [pc |-> "idle", key |-> None]

Init ==
    /\ rows = {}
    /\ attached = [k \in Keys |-> {}]
    /\ arch = [k \in Keys |-> Absent]
    /\ tombs = {}
    /\ deleted = {}
    /\ lock = [k \in Keys |-> None]
    /\ rem = [r \in Removals |-> NoRemoval]
    /\ ups = NoUpsert
    /\ una = NoUnarchive
    /\ sp = [s \in Spawns |-> NoSpawn]
    /\ live = {} /\ meta = {} /\ term = {}
    /\ deferred = {}
    /\ excused = {}
    /\ left = MaxFaults

Fault == left > 0 /\ left' = left - 1
Fails(bad) == IF bad THEN Fault ELSE UNCHANGED left

Of(k) == {s \in Spawns : sp[s].key = k}
InFlight(k) == \E s \in Of(k) : sp[s].pc \in {"provisioning", "launched"}

-----------------------------------------------------------------------------
(* The archive records.                                                    *)

\* archive_workspace_key_with_absorbed: one batch.
Archived(k, absorbed) ==
    [j \in Keys |-> IF j = k THEN [absorbed |-> absorbed, by |-> None]
                    ELSE IF j \in absorbed THEN [absorbed |-> {}, by |-> k]
                    ELSE arch[j]]

\* The keys unarchive_workspace_key finds to be archived by k's own record.
Folded(k) == {j \in arch[k].absorbed : arch[j].by = k}

Dropped(keys) == [j \in Keys |-> IF j \in keys THEN Absent ELSE arch[j]]

\* The user's unarchive: an archive, which does not take archive_updates, may
\* come between its reads and its batch.
UserUnarchives(k) ==
    /\ una.pc = "idle" /\ IsArchived(k)
    /\ una' = [pc |-> "deleting", key |-> k, drop |-> Folded(k)]
    /\ UNCHANGED <<store, deleted, lock, rem, ups, sessions, deferred, left>>

DeletesRecords ==
    /\ una.pc = "deleting"
    /\ arch' = Dropped({una.key} \cup una.drop)
    /\ deleted' = deleted \ {una.key}
    /\ una' = NoUnarchive
    /\ UNCHANGED <<rows, attached, tombs, excused, lock, rem, ups, sessions, deferred, left>>

-----------------------------------------------------------------------------
(* WorkspaceLifecycle::remove                                              *)

At(r, pc) == rem[r].pc = pc
RemovingAt(k, pcs) == \E r \in Removals : rem[r].key = k /\ rem[r].pc \in pcs
Goes(r, pc) == rem' = [rem EXCEPT ![r].pc = pc]

\* The removal is refused or fails: the row stays and the mark is cleared.
\* With the bug that a refusal leaves the mark.
Abandons_Marked(r) ==
    /\ rem' = [rem EXCEPT ![r] = NoRemoval]
    /\ lock' = [lock EXCEPT ![rem[r].key] = None]
    /\ UNCHANGED deleted
Abandons(r) ==
    /\ rem' = [rem EXCEPT ![r] = NoRemoval]
    /\ lock' = [lock EXCEPT ![rem[r].key] = None]
    /\ deleted' = deleted \ {rem[r].key}

\* Asked for while the row is there; another removal may drop it first.
Remove(r, k, archive) ==
    /\ At(r, "idle") /\ k \in rows
    /\ deleted' = deleted \cup {k}
    /\ rem' = [rem EXCEPT ![r] = [pc |-> "locking", key |-> k, archive |-> archive]]
    /\ UNCHANGED <<store, lock, ups, una, sessions, deferred, left>>

\* await_inflight_spawns is bounded, so it promises nothing.
RemovalLocks(r) ==
    /\ At(r, "locking") /\ lock[rem[r].key] = None
    /\ lock' = [lock EXCEPT ![rem[r].key] = r]
    /\ Goes(r, "killing")
    /\ UNCHANGED <<store, deleted, ups, una, sessions, deferred, left>>

\* An automatic removal gives way to a row in use; otherwise the registered
\* terminals are stopped one by one, and a kill that fails ends the removal.
KillsTerminals(r) ==
    /\ At(r, "killing")
    /\ LET mine == term \cap Of(rem[r].key)
       IN \/ /\ live' = live \ mine /\ meta' = meta \ mine /\ term' = term \ mine
             /\ Goes(r, "inspecting")
             /\ UNCHANGED <<deleted, lock, left>>
          \/ /\ ~rem[r].archive /\ rem[r].key \in rows
             /\ Abandons(r)
             /\ UNCHANGED <<live, meta, term, left>>
          \/ \E stopped \in (SUBSET mine) \ {mine} :
                /\ live' = live \ stopped /\ meta' = meta \ stopped /\ term' = term \ stopped
                /\ Fault /\ Abandons(r)
    /\ UNCHANGED <<store, ups, una, sp, deferred>>

\* kill_orphan_backend_sessions, best effort: the list may fail, and when a
\* kill fails the owner is forgotten all the same.
KillsOrphans(k) ==
    LET orphans == live \cap meta \cap Of(k)
    IN \/ live' = live \ orphans /\ meta' = meta \ orphans /\ UNCHANGED left
       \/ orphans # {} /\ Fault /\ meta' = meta \ orphans /\ UNCHANGED live
       \/ orphans # {} /\ Fault /\ UNCHANGED <<live, meta>>

\* The worktree gate lets the removal go on, or refuses it; a refused archive
\* still kills the sessions nobody is attached to.
Inspects(r) ==
    /\ At(r, "inspecting")
    /\ \/ /\ Goes(r, "archiving")
          /\ UNCHANGED <<deleted, lock, live, meta, left>>
       \/ /\ rem[r].key \in rows
          /\ Abandons(r)
          /\ IF rem[r].archive THEN KillsOrphans(rem[r].key) ELSE UNCHANGED <<live, meta, left>>
    /\ UNCHANGED <<store, ups, una, sp, term, deferred>>

\* archive_workspace_key_with_absorbed: one batch.
Archives(r) ==
    /\ At(r, "archiving")
    /\ LET k == rem[r].key IN
       \/ /\ arch' = IF rem[r].archive THEN Archived(k, attached[k]) ELSE arch
          /\ Goes(r, "tombing")
          /\ UNCHANGED <<deleted, lock, left>>
       \/ /\ rem[r].archive /\ Fault
          /\ Abandons(r)
          /\ UNCHANGED arch
    /\ UNCHANGED <<rows, attached, tombs, excused, ups, una, sessions, deferred>>

\* The archive record is taken back, unless that fails as well; a removal that
\* found no row takes back the records of the one that dropped it.
Undoes(r, stuck) ==
    LET k == rem[r].key
    IN /\ arch' = IF rem[r].archive /\ ~stuck THEN Dropped({k} \cup Folded(k)) ELSE arch
       /\ excused' = IF stuck \/ k \notin rows THEN excused \cup {k} ELSE excused

\* tombstone_session_key.  With the bug that the tombstone is written only
\* with an archive.
Tombstones_Archiving(r) ==
    /\ At(r, "tombing")
    /\ tombs' = IF rem[r].archive THEN tombs \cup {rem[r].key} ELSE tombs
    /\ Goes(r, "dropping")
    /\ UNCHANGED <<rows, attached, arch, excused, deleted, lock, ups, una, sessions, deferred, left>>
Tombstones(r) ==
    /\ At(r, "tombing")
    /\ \/ /\ tombs' = tombs \cup {rem[r].key}
          /\ Goes(r, "dropping")
          /\ UNCHANGED <<arch, excused, deleted, lock, left>>
       \/ /\ \E stuck \in BOOLEAN : (stuck => rem[r].archive) /\ Undoes(r, stuck)
          /\ Fault /\ Abandons(r)
          /\ UNCHANGED tombs
    /\ UNCHANGED <<rows, attached, ups, una, sessions, deferred>>

\* delete_workspace; when it fails both records are taken back, if they can
\* be, and the mark is kept if the archive record could not.
DropsRow(r) ==
    /\ At(r, "dropping")
    /\ LET k == rem[r].key IN
       \/ /\ rows' = rows \ {k}
          /\ attached' = [attached EXCEPT ![k] = {}]
          /\ Goes(r, "sweeping")
          /\ UNCHANGED <<arch, tombs, excused, deleted, lock, left>>
       \/ /\ Fault
          /\ \E stuck \in BOOLEAN :
                /\ (stuck => rem[r].archive) /\ Undoes(r, stuck)
                /\ deleted' = IF stuck THEN deleted ELSE deleted \ {k}
          /\ tombs' \in {tombs, tombs \ {k}}
          /\ rem' = [rem EXCEPT ![r] = NoRemoval]
          /\ lock' = [lock EXCEPT ![k] = None]
          /\ UNCHANGED <<rows, attached>>
    /\ UNCHANGED <<ups, una, sessions, deferred>>

\* The orphan sweep, then release_delete_tombstone.
Sweeps(r) ==
    /\ At(r, "sweeping")
    /\ LET k == rem[r].key IN
       /\ KillsOrphans(k)
       /\ rem' = [rem EXCEPT ![r] = NoRemoval]
       /\ lock' = [lock EXCEPT ![k] = None]
       /\ deleted' = IF InFlight(k) THEN deleted ELSE deleted \ {k}
       /\ deferred' = IF InFlight(k) THEN deferred \cup {k} ELSE deferred
    /\ UNCHANGED <<store, ups, una, sp, term>>

ReleasesMark(k) ==
    /\ k \in deferred /\ ~InFlight(k)
    /\ deferred' = deferred \ {k}
    /\ deleted' = deleted \ {k}
    /\ UNCHANGED <<store, lock, rem, ups, una, sessions, left>>

-----------------------------------------------------------------------------
(* A spawn: provisioning outside the lock, then a fresh look at the row    *)
(* under it, and the lock is kept until the terminal is registered.        *)

SpawnBegins(s, k) ==
    /\ sp[s].pc = "idle" /\ k \in rows \cap SpawnKeys
    /\ sp' = [sp EXCEPT ![s] = [pc |-> "provisioning", key |-> k]]
    /\ UNCHANGED <<store, deleted, lock, rem, ups, una, live, meta, term, deferred, left>>

Revalidates(s) == sp[s].key \in rows

SpawnLaunches(s) ==
    /\ sp[s].pc = "provisioning" /\ lock[sp[s].key] = None
    /\ IF Revalidates(s)
       THEN /\ lock' = [lock EXCEPT ![sp[s].key] = s]
            /\ live' = live \cup {s}
            /\ sp' = [sp EXCEPT ![s].pc = "launched"]
       ELSE /\ sp' = [sp EXCEPT ![s].pc = "over"]
            /\ UNCHANGED <<lock, live>>
    /\ UNCHANGED <<store, deleted, rem, ups, una, meta, term, deferred, left>>

\* cancel_spawn_for_deleted_workspace, then the registration; a spawn whose
\* policy or lifecycle record cannot be persisted is rolled back.
SpawnRegisters(s) ==
    /\ sp[s].pc = "launched"
    /\ lock' = [lock EXCEPT ![sp[s].key] = None]
    /\ \/ /\ sp[s].key \in deleted
          /\ \E bad \in BOOLEAN : Fails(bad) /\ live' = IF bad THEN live ELSE live \ {s}
          /\ sp' = [sp EXCEPT ![s].pc = "over"]
          /\ UNCHANGED <<meta, term>>
       \/ /\ sp[s].key \notin deleted
          /\ term' = term \cup {s} /\ meta' = meta \cup {s}
          /\ sp' = [sp EXCEPT ![s].pc = "running"]
          /\ UNCHANGED <<live, left>>
       \/ /\ sp[s].key \notin deleted /\ Fault
          /\ live' \in {live, live \ {s}}
          /\ sp' = [sp EXCEPT ![s].pc = "over"]
          /\ UNCHANGED <<meta, term>>
    /\ UNCHANGED <<store, deleted, rem, ups, una, deferred>>

\* The terminal goes and its session stays, with its owner still persisted.
TerminalGoes(s) ==
    /\ s \in term
    /\ term' = term \ {s}
    /\ UNCHANGED <<store, deleted, lock, rem, ups, una, sp, live, meta, deferred, left>>

-----------------------------------------------------------------------------
(* The upsert of a polled task: into the row of a pull request that closes *)
(* it, or into its own.                                                    *)

\* load_archived_set degrades to the empty set.
FindsArchived(k, unread) == IsArchived(k) /\ ~unread
Exposes(k, unread) == excused' = IF unread THEN excused \cup {k} ELSE excused

PollsTask(k) ==
    /\ ups.pc = "idle"
    /\ \E unread \in BOOLEAN :
          /\ unread => IsArchived(k)
          /\ Fails(unread) /\ ~FindsArchived(k, unread) /\ Exposes(k, unread)
    /\ \E p \in {q \in rows \ {k} : k \in Closes[q] /\ k \notin rows} \cup {k} :
          /\ p = k => k \in rows \/ \A q \in rows : k \notin Closes[q]
          /\ ups' = [pc |-> "waiting", key |-> p, task |-> k]
    /\ UNCHANGED <<rows, attached, arch, tombs, deleted, lock, rem, una, sessions, deferred>>

\* lock_workspace_with_closing_issues: the row and the rows it would fold in.
Locked(u) ==
    {u.key} \cup (IF u.key \in rows \cup {u.task} THEN Closes[u.key] ELSE {})

\* The check is repeated under the lock.  With the bug that it is not.
Rechecks_Not(k, unread) == TRUE
Rechecks(k, unread) == ~FindsArchived(k, unread) /\ k \notin deleted

UpsertLocks ==
    /\ ups.pc = "waiting"
    /\ \A j \in Locked(ups) : lock[j] = None
    /\ \E unread \in BOOLEAN :
          /\ unread => IsArchived(ups.key)
          /\ Fails(unread) /\ Exposes(ups.key, unread)
          /\ IF Rechecks(ups.key, unread)
             THEN /\ lock' = [j \in Keys |-> IF j \in Locked(ups) THEN Poller ELSE lock[j]]
                  /\ ups' = [ups EXCEPT !.pc = "building"]
             ELSE ups' = NoUpsert /\ UNCHANGED lock
    /\ UNCHANGED <<rows, attached, arch, tombs, deleted, rem, una, sessions, deferred>>

\* The locks were contended for too long: the tick skips this task.
UpsertSkips ==
    /\ ups.pc = "waiting"
    /\ \E j \in Locked(ups) : lock[j] # None
    /\ ups' = NoUpsert
    /\ UNCHANGED <<store, deleted, lock, rem, una, sessions, deferred, left>>

\* merge_closing_issue_workspaces: the standing rows of the issues a pull
\* request closes, unless a terminal is registered for them.  Any of them may be
\* one that the user keeps apart (prompts.rejected).
Folds(k) == SUBSET {j \in rows \cap Closes[k] : term \cap Of(j) = {}}

\* A session nobody is attached to keeps the folded row as its owner.
LeftBehind(folded) == {j \in folded : (live \cap meta \cap Of(j)) \ term # {}}

\* prepare_upsert and commit_merge: the row, with the standing rows it folds
\* in; a task routed to a row that went meanwhile gets one of its own, whose
\* key was neither locked nor looked up again.
UpsertCommits ==
    /\ ups.pc = "building"
    /\ LET k == IF ups.key \in rows THEN ups.key ELSE ups.task IN
       \E folds \in Folds(k) :
          LET folded == folds \cup ({ups.task} \ {k})
          IN /\ rows' = (rows \cup {k}) \ folded
             /\ attached' = [attached EXCEPT ![k] = @ \cup folded]
             /\ excused' = excused \cup ({k} \ {ups.key}) \cup LeftBehind(folded)
    /\ lock' = [j \in Keys |-> IF lock[j] = Poller THEN None ELSE lock[j]]
    /\ ups' = NoUpsert
    /\ UNCHANGED <<arch, tombs, deleted, rem, una, sessions, deferred, left>>

\* prepare_terminal_rebadges: the registered terminals of j go over to k.
Rebadged(j, k) ==
    [s \in Spawns |-> IF s \in term /\ sp[s].key = j THEN [sp[s] EXCEPT !.key = k] ELSE sp[s]]

\* handle_confirm_merge: the user has a row with terminals folded in.
UserMerges(j, k) ==
    /\ j \in Closes[k] /\ {j, k} \subseteq rows
    /\ lock[j] = None /\ lock[k] = None
    /\ rows' = rows \ {j}
    /\ attached' = [attached EXCEPT ![k] = @ \cup {j}]
    /\ sp' = Rebadged(j, k)
    /\ excused' = excused \cup LeftBehind({j})
    /\ UNCHANGED <<arch, tombs, deleted, lock, rem, ups, una, live, meta, term, deferred, left>>

-----------------------------------------------------------------------------
(* The daemon stops and starts again: what it kept in memory is gone, and  *)
(* recover_sessions decides about every session that survived.             *)

\* workspace_is_tombstoned: a removal record, and no row.  An unreadable set
\* guards nothing.
IsTombstoned(k, unread) == ~unread /\ (IsArchived(k) \/ k \in tombs) /\ k \notin rows

\* A survivor without a persisted owner belongs to no row.
Restart ==
    /\ Fault
    /\ \E unread \in BOOLEAN :
       LET owned == live \cap meta
           doomed == {s \in owned : IsTombstoned(sp[s].key, unread)}
           halfway == {k \in Keys : RemovingAt(k, {"tombing", "dropping"})}
       IN /\ live' = live \ doomed
          /\ meta' = meta \ doomed
          /\ term' = owned \ doomed
          /\ excused' = excused \cup halfway
                               \cup (IF unread THEN {sp[s].key : s \in owned} ELSE {})
    /\ sp' = [s \in Spawns |-> IF sp[s].pc \in {"provisioning", "launched"}
                               THEN [sp[s] EXCEPT !.pc = "over"] ELSE sp[s]]
    /\ deleted' = {}
    /\ lock' = [k \in Keys |-> None]
    /\ rem' = [r \in Removals |-> NoRemoval]
    /\ ups' = NoUpsert /\ una' = NoUnarchive
    /\ deferred' = {}
    /\ UNCHANGED <<rows, attached, arch, tombs>>

-----------------------------------------------------------------------------
Next ==
    \/ \E r \in Removals :
          \/ \E k \in Keys, archive \in BOOLEAN : Remove(r, k, archive)
          \/ RemovalLocks(r) \/ KillsTerminals(r) \/ Inspects(r) \/ Archives(r)
          \/ Tombstones(r) \/ DropsRow(r) \/ Sweeps(r)
    \/ \E k \in Keys : UserUnarchives(k) \/ ReleasesMark(k) \/ PollsTask(k)
    \/ \E j, k \in Keys : UserMerges(j, k)
    \/ DeletesRecords \/ UpsertLocks \/ UpsertSkips \/ UpsertCommits
    \/ \E s \in Spawns :
          \/ \E k \in Keys : SpawnBegins(s, k)
          \/ SpawnLaunches(s) \/ SpawnRegisters(s) \/ TerminalGoes(s)
    \/ Restart

Spec == Init /\ [][Next]_vars

-----------------------------------------------------------------------------
(* Properties                                                              *)

\* The stored records, the locks and the progress of every actor are well
\* formed, and a registered terminal has a session with a persisted owner.
TypeOK ==
    /\ rows \subseteq Keys /\ tombs \subseteq Keys /\ deleted \subseteq Keys
    /\ deferred \subseteq Keys /\ excused \subseteq Keys /\ left \in 0..MaxFaults
    /\ attached \in [Keys -> SUBSET Keys]
    /\ arch \in [Keys -> Record \cup {Absent}]
    /\ lock \in [Keys -> Removals \cup Spawns \cup {Poller, None}]
    /\ rem \in [Removals -> Removal] /\ sp \in [Spawns -> Spawn]
    /\ ups \in Upsert /\ una \in Unarchive
    /\ live \subseteq Spawns /\ meta \subseteq Spawns /\ term \subseteq live \cap meta

\* No terminal is registered for a workspace that is gone: not by a spawn that
\* outlived the removal, not by the recovery of a session whose kill or sweep
\* failed or was never reached, and not when the row is folded into another;
\* only an unreadable tombstone set, a second removal that took back the
\* tombstone of the first, or a fold of a row with a session that nobody was
\* attached to lets one through
\* (cancel_spawn_for_deleted_workspace, workspace_is_tombstoned).
NoTerminalWithoutRow ==
    \A s \in term : sp[s].key \in rows \cup excused

\* A workspace whose removal was refused or failed can be used again: its mark
\* in deleted_workspaces, which cancels every spawn, outlives the removal only
\* while spawns drain, or when the archive record could not be taken back.
MarkIsReleased ==
    \A k \in rows \cap deleted :
        (\E r \in Removals : rem[r].key = k) \/ k \in deferred \/ k \in excused

\* A row that stands is not archived in its own right: a failed removal takes
\* its record back, and no upsert, however its checks and the archive
\* interleave, builds the row of an archived key; only an unreadable archived
\* set, a failing rollback, a restart in the middle of the removal, or a task
\* routed to a row that went leaves the two together.
StandingRowIsNotArchived ==
    \A k \in rows : IsArchived(k) /\ arch[k].by = None =>
        RemovingAt(k, {"tombing", "dropping"}) \/ k \in excused

\* The record of a folded key is listed by the owner it names, so an unarchive
\* of the owner brings it back: "nothing else ever removes it"
\* (archived_records), and a stranded one is "permanent and invisible"
\* (read_archive_record).
NoTombstoneIsStranded ==
    \A j \in Keys : IsArchived(j) /\ arch[j].by # None =>
        j \in arch[arch[j].by].absorbed
=============================================================================
