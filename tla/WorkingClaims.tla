---------------------------- MODULE WorkingClaims ----------------------------
(***************************************************************************)
(* Working claims on one task (working_claims.rs, and the claim calls of   *)
(* gh-provider's client.rs).  An agent's holder keeps a durable record on  *)
(* its box; upstream the claim is one label, shared by every box, and a    *)
(* comment that names the lease.  A box renews or releases its records and *)
(* sweeps lapsed labels in a maintenance pass, once per heartbeat period,  *)
(* which is the unit of time here; acquiring and tearing down an agent     *)
(* work on a record at any moment.  Every call to the provider is a step   *)
(* of its own that may fail, or be given up after it took effect.          *)
(*                                                                         *)
(* All boxes act as one account, so each sees the comments of the others.  *)
(* The clock moves on when every box that runs has finished its pass and   *)
(* has polled what is upstream: calls are bounded by 20 seconds and polls  *)
(* are a minute apart where the period is 15 minutes.  Lifetimes are kept  *)
(* relative to the clock.  The per-claim labels of older builds, a change  *)
(* of a box's identity and the removal of the row are left out.  An        *)
(* operator X_Y stated before X is X with a plausible bug, and is used by  *)
(* no specification.                                                       *)
(***************************************************************************)
EXTENDS Integers, Sequences, FiniteSets

CONSTANTS
    Boxes,
    Holders,        \* agents that may run; each names one lease
    Host,           \* the box of a holder
    TTL,            \* WORKING_CLAIM_TTL_SECS, in heartbeat periods
    MaxComments,    \* bound: claim comments ever posted
    Faulty,         \* the boxes whose calls fail and whose daemon stops
    MaxFaults,      \* bound: calls that fail or are given up, daemons that
                    \* stop, labels and comments a human removes
    None

Note == [by : Holders, life : 0..TTL, released : BOOLEAN]
Record == [life : 0..TTL, applied : BOOLEAN, comment : 0..MaxComments]

ASSUME ClaimsAssumption ==
    /\ Host \in [Holders -> Boxes]
    /\ TTL \in Nat \ {0, 1}
    /\ Faulty \subseteq Boxes
    /\ {MaxComments, MaxFaults} \subseteq Nat
    /\ None \notin Note \cup Record

VARIABLES
    label,      \* is the stable label attached upstream?
    comments,   \* the claim comments upstream, oldest first; None: deleted
    up,         \* the boxes whose daemon runs
    row,        \* each box's local row: does it show the label?
    pass,       \* each box's maintenance pass
    proc,       \* each holder's process: "unborn", "live" or "gone"
    record,     \* each holder's WorkingClaimRecord, durable
    task,       \* what is running under each holder's lock
    owed,       \* calls of acquire and release that wait for the lock
    left        \* how many faults may still happen

remote == <<label, comments>>
local == <<up, row, pass>>
held == <<proc, record, task, owed>>
vars == <<label, comments, up, row, pass, proc, record, task, owed, left>>

Idle == [op |-> "idle", step |-> "idle", at |-> 0, ours |-> FALSE]
Task == [op : {"hold", "release"}, ours : BOOLEAN, at : 0..MaxComments,
         step : {"attach", "read", "write", "search", "edit", "post", "detach", "project"}]
            \cup {Idle}
Pass == [step : {"due", "records", "look", "detach", "project", "done"},
         todo : SUBSET Holders, live : SUBSET Holders]
Rest(step) == [step |-> step, todo |-> {}, live |-> {}]

On(b) == {h \in Holders : Host[h] = b}
Recorded(b) == {h \in On(b) : record[h] # None}

Init ==
    /\ label = FALSE
    /\ comments = <<>>
    /\ up = Boxes
    /\ row = [b \in Boxes |-> FALSE]
    /\ pass = [b \in Boxes |-> Rest("due")]
    /\ proc = [h \in Holders |-> "unborn"]
    /\ record = [h \in Holders |-> None]
    /\ task = [h \in Holders |-> Idle]
    /\ owed = {}
    /\ left = MaxFaults

Fault == left > 0 /\ left' = left - 1

-----------------------------------------------------------------------------
(* The note of a comment.                                                  *)

\* is_active_at
Active(n) == ~n.released /\ n.life > 0

Standing == {i \in 1..Len(comments) : comments[i] # None}

\* find_sticky_comment_body: the newest claim comment, 0 when there is none.
Newest == IF Standing = {} THEN 0 ELSE CHOOSE i \in Standing : \A j \in Standing : j <= i

\* read_sticky_comment_by_id
ById(i) == IF i \in Standing THEN i ELSE 0

-----------------------------------------------------------------------------
(* A synchronisation, under the holder's lock.                             *)

NeedsHeartbeat(r) == ~r.applied \/ r.life <= TTL - 1

\* prepare_heartbeat
Prepared(r) == IF r.life > TTL - 1 THEN r ELSE [r EXCEPT !.life = TTL, !.applied = FALSE]

StableLabelAttached(h) == row[Host[h]]

\* write_sticky_comment starts at the comment it is told of, or searches.
ToWrite(i) == IF i = 0 THEN "search" ELSE "write"

\* heartbeat_record up to the first call: the record is persisted before
\* anything is done upstream.
BeginHold(h, r, ours) ==
    IF NeedsHeartbeat(r)
    THEN /\ record' = [record EXCEPT ![h] = Prepared(r)]
         /\ task' = [task EXCEPT ![h] =
                [op |-> "hold", ours |-> ours, at |-> r.comment,
                 step |-> IF StableLabelAttached(h) THEN ToWrite(r.comment) ELSE "attach"]]
    ELSE /\ record' = [record EXCEPT ![h] = r]
         /\ UNCHANGED task

\* release and heartbeat_holder find no record, or the record.
BeginRelease(h, ours) ==
    IF record[h] = None THEN UNCHANGED task
    ELSE task' = [task EXCEPT ![h] = [op |-> "release", ours |-> ours,
                                      at |-> record[h].comment, step |-> "read"]]

\* A call that took effect is answered, or the caller has given up on it.
Answered(h, step, at) ==
    \/ /\ task' = [task EXCEPT ![h].step = step, ![h].at = at]
       /\ UNCHANGED left
    \/ /\ task' = [task EXCEPT ![h] = Idle]
       /\ Host[h] \in Faulty /\ Fault

Busy(h, step) == task[h].step = step

\* apply_working_claim, the label first
Attach(h) ==
    /\ Busy(h, "attach")
    /\ label' = TRUE
    /\ Answered(h, ToWrite(task[h].at), task[h].at)
    /\ UNCHANGED <<comments, local, proc, record, owed>>

\* The body a holder writes: its lease, or that the lease is over.
Body(h) == [by |-> h, life |-> record[h].life, released |-> task[h].op = "release"]

AfterWrite(h) == IF task[h].op = "hold" THEN "project" ELSE "detach"

\* write_sticky_comment with a remembered comment, which may be gone
Write(h) ==
    /\ Busy(h, "write")
    /\ IF task[h].at \in Standing
       THEN /\ comments' = [comments EXCEPT ![task[h].at] = Body(h)]
            /\ Answered(h, AfterWrite(h), task[h].at)
       ELSE /\ task' = [task EXCEPT ![h].step = "search"]
            /\ UNCHANGED <<comments, left>>
    /\ UNCHANGED <<label, local, proc, record, owed>>

Search(h) ==
    /\ Busy(h, "search")
    /\ task' = [task EXCEPT ![h].step = IF Newest = 0 THEN "post" ELSE "edit",
                            ![h].at = Newest]
    /\ UNCHANGED <<remote, local, proc, record, owed, left>>

\* ... the comment the search found, which may have been removed since
Edit(h) ==
    /\ Busy(h, "edit")
    /\ IF task[h].at \in Standing
       THEN /\ comments' = [comments EXCEPT ![task[h].at] = Body(h)]
            /\ Answered(h, AfterWrite(h), task[h].at)
       ELSE /\ task' = [task EXCEPT ![h] = Idle]
            /\ UNCHANGED <<comments, left>>
    /\ UNCHANGED <<label, local, proc, record, owed>>

Post(h) ==
    /\ Busy(h, "post")
    /\ Len(comments) < MaxComments
    /\ comments' = Append(comments, Body(h))
    /\ Answered(h, AfterWrite(h), Len(comments'))
    /\ UNCHANGED <<label, local, proc, record, owed>>

\* Has another lease taken the claim over?
SupersededBy(h, i) == i # 0 /\ comments[i].by # h /\ Active(comments[i])

\* release_working_claim up to its write: it reads the comment, and leaves
\* label and comment to another live lease.  A release is recorded only in a
\* comment that exists.
Read(h) ==
    /\ Busy(h, "read")
    /\ LET i == IF task[h].at # 0 THEN ById(task[h].at) ELSE Newest
       IN IF SupersededBy(h, i)
          THEN /\ record' = [record EXCEPT ![h] = None]
               /\ task' = [task EXCEPT ![h] = Idle]
          ELSE /\ task' = [task EXCEPT ![h].step = IF i = 0 THEN "detach" ELSE "write",
                                       ![h].at = i]
               /\ UNCHANGED record
    /\ UNCHANGED <<remote, local, proc, owed, left>>

Detach(h) ==
    /\ Busy(h, "detach")
    /\ label' = FALSE
    /\ Answered(h, "project", task[h].at)
    /\ UNCHANGED <<comments, local, proc, record, owed>>

\* What the holder's record becomes once upstream has accepted the change.
Kept(h) == [record[h] EXCEPT !.applied = TRUE, !.comment = task[h].at]

\* project_synced_claim, then the record is marked applied, or deleted.
Project(h) ==
    /\ Busy(h, "project")
    /\ row' = [row EXCEPT ![Host[h]] = task[h].op = "hold"]
    /\ record' = [record EXCEPT ![h] = IF task[h].op = "hold" THEN Kept(h) ELSE None]
    /\ task' = [task EXCEPT ![h] = Idle]
    /\ UNCHANGED <<remote, up, pass, proc, owed, left>>

\* A call fails without effect: the record stays as it was persisted.  With
\* the bug that a release that failed forgets the record all the same.
CallFails_Forgets(h) ==
    /\ task[h] # Idle /\ task[h].step # "project"
    /\ Host[h] \in Faulty /\ Fault
    /\ task' = [task EXCEPT ![h] = Idle]
    /\ record' = [record EXCEPT ![h] = IF task[h].op = "hold" THEN @ ELSE None]
    /\ UNCHANGED <<remote, local, proc, owed>>
CallFails(h) ==
    /\ task[h] # Idle /\ task[h].step # "project"
    /\ Host[h] \in Faulty /\ Fault
    /\ task' = [task EXCEPT ![h] = Idle]
    /\ UNCHANGED <<remote, local, proc, record, owed>>

Sync(h) ==
    \/ Attach(h) \/ Write(h) \/ Search(h) \/ Edit(h) \/ Post(h)
    \/ Read(h) \/ Detach(h) \/ Project(h)

-----------------------------------------------------------------------------
(* Who starts one.                                                         *)

NewRecord == [life |-> TTL, applied |-> FALSE, comment |-> 0]

\* An agent starts, and its holder is acquired before its output is pumped.
Spawns(h) ==
    /\ proc[h] = "unborn" /\ Host[h] \in up
    /\ proc' = [proc EXCEPT ![h] = "live"]
    /\ BeginHold(h, NewRecord, FALSE)
    /\ UNCHANGED <<remote, local, owed, left>>

\* It ends, under a daemon that tears it down or under none.
Ends(h) ==
    /\ proc[h] = "live"
    /\ proc' = [proc EXCEPT ![h] = "gone"]
    /\ owed' = IF Host[h] \in up THEN owed \cup {<<"release", h>>} ELSE owed
    /\ UNCHANGED <<remote, local, record, task, left>>

\* Recovery finishes a contended acquire detached, so it may come after the
\* agent's end, and even after its release.
Acquire(h) ==
    /\ <<"acquire", h>> \in owed /\ task[h] = Idle
    /\ owed' = owed \ {<<"acquire", h>>}
    /\ BeginHold(h, IF record[h] = None THEN NewRecord ELSE record[h], FALSE)
    /\ UNCHANGED <<remote, local, proc, left>>

Release(h) ==
    /\ <<"release", h>> \in owed /\ task[h] = Idle
    /\ owed' = owed \ {<<"release", h>>}
    /\ BeginRelease(h, FALSE)
    /\ UNCHANGED <<remote, local, proc, record, left>>

-----------------------------------------------------------------------------
(* maintain_once: the records found at its start, one after the other, and *)
(* then retire_lapsed_stable_claims.                                       *)

PassStarts(b) ==
    /\ b \in up /\ pass[b].step = "due"
    /\ pass' = [pass EXCEPT ![b] = [step |-> "records", todo |-> Recorded(b),
                                    live |-> {h \in Recorded(b) : proc[h] = "live"}]]
    /\ UNCHANGED <<remote, up, row, held, left>>

PassIdle(b) == pass[b].step = "records" /\ \A h \in On(b) : ~task[h].ours

PassTakes(b, h) ==
    /\ PassIdle(b) /\ h \in pass[b].todo /\ task[h] = Idle
    /\ pass' = [pass EXCEPT ![b].todo = @ \ {h}, ![b].live = @ \ {h}]
    /\ IF h \notin pass[b].live
       THEN BeginRelease(h, TRUE) /\ UNCHANGED record
       ELSE IF record[h] = None THEN UNCHANGED <<record, task>>
       ELSE BeginHold(h, record[h], TRUE)
    /\ UNCHANGED <<remote, up, row, proc, owed, left>>

\* The sweep is for a row that shows the label and that no record of this box
\* accounts for.
PassSweeps(b) ==
    /\ PassIdle(b) /\ pass[b].todo = {}
    /\ pass' = [pass EXCEPT ![b] =
            Rest(IF Recorded(b) = {} /\ row[b] THEN "look" ELSE "done")]
    /\ UNCHANGED <<remote, up, row, held, left>>

SweepAnswered(b, step) ==
    \/ pass' = [pass EXCEPT ![b] = Rest(step)] /\ UNCHANGED left
    \/ pass' = [pass EXCEPT ![b] = Rest("done")] /\ b \in Faulty /\ Fault

\* Is the claim over?  Only a comment can say so.  With the bug that a lease
\* that ran out does not count.
Lapsed_Released(i) == i # 0 /\ comments[i].released
Lapsed(i) == i # 0 /\ ~Active(comments[i])

SweepLooks(b) ==
    /\ pass[b].step = "look"
    /\ SweepAnswered(b, IF Lapsed(Newest) THEN "detach" ELSE "done")
    /\ UNCHANGED <<remote, up, row, held>>

SweepDetaches(b) ==
    /\ pass[b].step = "detach"
    /\ label' = FALSE
    /\ SweepAnswered(b, "project")
    /\ UNCHANGED <<comments, up, row, held>>

SweepProjects(b) ==
    /\ pass[b].step = "project"
    /\ row' = [row EXCEPT ![b] = FALSE]
    /\ pass' = [pass EXCEPT ![b] = Rest("done")]
    /\ UNCHANGED <<remote, up, held, left>>

-----------------------------------------------------------------------------
(* The poll, the clock, the daemon, and the people on the other side.      *)

Poll(b) ==
    /\ b \in up /\ row[b] # label
    /\ row' = [row EXCEPT ![b] = label]
    /\ UNCHANGED <<remote, up, pass, held, left>>

Sooner(n) == IF n > 0 THEN n - 1 ELSE 0

Tick ==
    /\ owed = {}
    /\ \A b \in up : pass[b].step = "done" /\ row[b] = label
    /\ \A h \in Holders : task[h] = Idle
    /\ record' = [h \in Holders |-> IF record[h] = None THEN None
                                    ELSE [record[h] EXCEPT !.life = Sooner(@)]]
    /\ comments' = [i \in 1..Len(comments) |-> IF comments[i] = None THEN None
                                    ELSE [comments[i] EXCEPT !.life = Sooner(@)]]
    /\ pass' = [b \in Boxes |-> IF b \in up THEN Rest("due") ELSE pass[b]]
    /\ UNCHANGED <<label, up, row, proc, task, owed, left>>

Crash(b) ==
    /\ b \in up \cap Faulty /\ Fault
    /\ up' = up \ {b}
    /\ pass' = [pass EXCEPT ![b] = Rest("done")]
    /\ task' = [h \in Holders |-> IF h \in On(b) THEN Idle ELSE task[h]]
    /\ owed' = {o \in owed : o[2] \notin On(b)}
    /\ UNCHANGED <<remote, row, proc, record>>

\* Recovery acquires for the agents that outlived the daemon.
Restart(b) ==
    /\ b \notin up
    /\ up' = up \cup {b}
    /\ pass' = [pass EXCEPT ![b] = Rest("due")]
    /\ owed' = owed \cup {<<"acquire", h>> : h \in {g \in On(b) : proc[g] = "live"}}
    /\ UNCHANGED <<remote, row, proc, record, task, left>>

StripsLabel ==
    /\ label
    /\ label' = FALSE
    /\ Fault
    /\ UNCHANGED <<comments, local, held>>

DeletesComment(i) ==
    /\ i \in Standing
    /\ comments' = [comments EXCEPT ![i] = None]
    /\ Fault
    /\ UNCHANGED <<label, local, held>>

-----------------------------------------------------------------------------
Progress ==
    \/ \E h \in Holders : Sync(h) \/ Acquire(h) \/ Release(h)
    \/ \E b \in Boxes :
          \/ PassStarts(b) \/ PassSweeps(b) \/ Poll(b)
          \/ SweepLooks(b) \/ SweepDetaches(b) \/ SweepProjects(b)
          \/ \E h \in On(b) : PassTakes(b, h)
    \/ Tick

Next ==
    \/ Progress
    \/ \E h \in Holders : Spawns(h) \/ Ends(h) \/ CallFails(h)
    \/ \E b \in Boxes : Crash(b) \/ Restart(b)
    \/ StripsLabel
    \/ \E i \in 1..MaxComments : DeletesComment(i)

Spec == Init /\ [][Next]_vars

\* The runtime runs its tasks and timers and the poller polls.  Nothing makes
\* an agent start or end, or a daemon that stopped start again.
FairSpec == Spec /\ WF_vars(Progress)

-----------------------------------------------------------------------------
(* Properties                                                              *)

\* Types, with the steps of a task that each operation can be at.
TypeOK ==
    /\ label \in BOOLEAN
    /\ comments \in Seq(Note \cup {None}) /\ Len(comments) <= MaxComments
    /\ up \subseteq Boxes
    /\ row \in [Boxes -> BOOLEAN]
    /\ pass \in [Boxes -> Pass]
    /\ proc \in [Holders -> {"unborn", "live", "gone"}]
    /\ record \in [Holders -> Record \cup {None}]
    /\ task \in [Holders -> Task]
    /\ \A h \in Holders : task[h] # Idle => record[h] # None
    /\ owed \subseteq {"acquire", "release"} \X Holders
    /\ left \in 0..MaxFaults

\* Two boxes that both search before either has posted post two comments.
Duplicated == Cardinality(Standing) > 1

\* Nobody had to post a second comment: no two boxes searched at once, and
\* none was wanted again after somebody deleted the first.  Where one was, a
\* release that remembers the older comment does not see its own lease in the
\* newer one; that lease is forgotten and ends by running out.
OneComment == Len(comments) <= 1

\* What reads as a claim upstream has a record behind it, so that somebody will
\* converge it: a live lease is one its own box still knows, to renew or to
\* release (release, 366-377; heartbeat_record, 405-423), and a label one of
\* some box.  No order of acquires, releases, failures and crashes leaves a
\* lease or a label every box has forgotten.
ClaimHasRecord ==
    OneComment =>
        /\ \A i \in Standing : Active(comments[i]) => record[comments[i].by] # None
        /\ label => \E h \in Holders : record[h] # None

Working == \E h \in Holders : proc[h] = "live" /\ Host[h] \in up

\* What the label should be: on while an agent of a running daemon works, off
\* otherwise unless no comment backs it (953-980: such a label is left alone).
Truthful == IF Working THEN label ELSE label => Standing = {}

\* Once agents stop coming and going and faults stop, the shared label tells
\* the truth for good: a label stripped, or detached by another box's release
\* or sweep, is put back, and one whose box went away is retired.
LabelSettles == [](~Duplicated) => <>[](up # {} => Truthful)
=============================================================================
