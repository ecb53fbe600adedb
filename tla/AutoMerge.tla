------------------------------ MODULE AutoMerge ------------------------------
(***************************************************************************)
(* Merge on green (polling/auto_merge.rs): the poll commits what GitHub    *)
(* shows of an armed pull request, a latch in memory decides whether to    *)
(* dispatch an attempt, and the attempt, on a task of its own, fetches the *)
(* pull request again, verifies it and merges the head it verified.        *)
(*                                                                         *)
(* One pull request.  "ready" stands for everything auto_merge_block_reason*)
(* reads from it: open, green, reviewed, without conflicts, by an allowed  *)
(* author.  What GitHub would answer to a merge is a variable of its own,  *)
(* because rules, permissions and the base move without the pull request   *)
(* changing.  GitHub's native auto-merge and the cost record are left out. *)
(* An operator X_Y stated before X is X with a plausible bug, and is used  *)
(* by no specification.                                                    *)
(***************************************************************************)
EXTENDS Naturals, FiniteSets

CONSTANTS
    MaxHead,    \* bound: heads pushed
    MaxMoves,   \* bound: what users and GitHub do to the pull request
    MaxFaults,  \* bound: failing calls and restarts
    MaxPauses,  \* bound: pauses
    Attempts,   \* bound: attempts that may run at a time
    None

ASSUME MergeAssumption == MaxHead \in Nat \ {0} /\ {MaxMoves, MaxFaults, MaxPauses} \subseteq Nat

Heads == 1..MaxHead
NoHead == 0
Answers == {"merges", "queues", "not yet", "never"}

VARIABLES
    pr,         \* the pull request on GitHub
    answer,     \* GitHub's answer to a merge of its head
    row,        \* the stored pull request
    armed,      \* auto_merge_on_green
    held,       \* an epic holds the row back
    latch,      \* AutoMergeMemory
    att,        \* the attempts
    paused,     \* GitHub has the token on a pause
    greens,     \* history: heads that were ready at some time
    landed,     \* history: heads an attempt's merge was accepted for
    refused,    \* history: heads GitHub refused since the latch last forgot
    overlap,    \* history: two attempts ran at the same time
    deferred,   \* history: a pause put the last attempt off
    moves, left, pauses \* what may still happen

history == <<greens, landed, refused, overlap, deferred>>
upstream == <<pr, answer>>
vars == <<pr, answer, row, armed, held, latch, att, paused, greens, landed,
          refused, overlap, deferred, moves, left, pauses>>

PullRequest == [head : Heads, ready : BOOLEAN, state : {"open", "queued", "merged"}]

\* Latch.  Without an entry for the key it is Released.
Released == [kind |-> "released", head |-> NoHead]
InFlight == [kind |-> "in flight", head |-> NoHead]
Done(h) == [kind |-> "done", head |-> h]
Blocked(h) == [kind |-> "blocked", head |-> h]
Rejected(h) == [kind |-> "rejected", head |-> h]
Latch == [kind : {"released", "in flight", "done", "blocked", "rejected"},
          head : Heads \cup {NoHead}]

\* An attempt: the head it stands down on, the latch it restores, the task it
\* has fetched.
Attempt == [pc : {"idle", "begun", "fetching", "merging", "committing"},
            skip : Heads \cup {NoHead}, restore : Latch, fresh : PullRequest \cup {None}]
Idle == [pc |-> "idle", skip |-> NoHead, restore |-> Released, fresh |-> None]
Running == {a \in Attempts : att[a].pc \in {"begun", "fetching", "merging"}}

Init ==
    /\ pr = [head |-> 1, ready |-> FALSE, state |-> "open"]
    /\ answer = "merges"
    /\ row = pr
    /\ armed = TRUE /\ held = FALSE
    /\ latch = Released
    /\ att = [a \in Attempts |-> Idle]
    /\ paused = FALSE
    /\ greens = {} /\ landed = {} /\ refused = {}
    /\ overlap = FALSE /\ deferred = FALSE
    /\ moves = MaxMoves /\ left = MaxFaults /\ pauses = MaxPauses

Move == moves > 0 /\ moves' = moves - 1 /\ UNCHANGED <<left, pauses>>
Fault == left > 0 /\ left' = left - 1 /\ UNCHANGED <<moves, pauses>>
Free == UNCHANGED <<moves, left, pauses>>

-----------------------------------------------------------------------------
(* The pull request, the user and the rest of the fleet                    *)

\* A head once left does not come back: force-pushes to an earlier one are left out.
Push ==
    /\ Move /\ pr.state # "merged" /\ pr.head < MaxHead
    /\ pr' = [head |-> pr.head + 1, ready |-> FALSE, state |-> "open"]
    /\ answer' \in Answers
    /\ UNCHANGED <<row, armed, held, latch, att, paused, history>>

ChecksReport ==
    /\ Move /\ pr.state # "merged"
    /\ pr' = [pr EXCEPT !.ready = ~@]
    /\ greens' = IF pr.ready THEN greens ELSE greens \cup {pr.head}
    /\ UNCHANGED <<answer, row, armed, held, latch, att, paused, landed, refused,
                   overlap, deferred>>

RulesMove ==
    /\ Move /\ answer' \in Answers \ {answer}
    /\ UNCHANGED <<pr, row, armed, held, latch, att, paused, history>>

QueueDecides ==
    /\ pr.state = "queued"
    /\ \/ Free /\ pr' = [pr EXCEPT !.state = "merged"]
       \/ Move /\ pr' = [pr EXCEPT !.state = "open"]
    /\ UNCHANGED <<answer, row, armed, held, latch, att, paused, history>>

OthersMerge ==
    /\ Move /\ pr.state # "merged"
    /\ pr' = [pr EXCEPT !.state = "merged"]
    /\ UNCHANGED <<answer, row, armed, held, latch, att, paused, history>>

\* set_auto_merge_on_green commits the row without the hook.
Arm ==
    /\ Move /\ armed' = ~armed
    /\ UNCHANGED <<upstream, row, held, latch, att, paused, history>>

EpicHolds ==
    /\ Move /\ ~held /\ held' = TRUE
    /\ UNCHANGED <<upstream, row, armed, latch, att, paused, history>>

\* A hold by a review ends with a clean verdict, which calls no hook.
ReviewClears ==
    /\ Free /\ held /\ held' = FALSE
    /\ UNCHANGED <<upstream, row, armed, latch, att, paused, history>>

Pause ==
    /\ pauses > 0 /\ pauses' = pauses - 1
    /\ ~paused /\ paused' = TRUE
    /\ UNCHANGED <<upstream, row, armed, held, latch, att, history, moves, left>>

PauseLifts ==
    /\ Free /\ paused /\ paused' = FALSE
    /\ UNCHANGED <<upstream, row, armed, held, latch, att, history>>

-----------------------------------------------------------------------------
(* signal_for, plan and on_workspace_committed                             *)

Signal(r, hold) ==
    IF ~armed \/ r.state = "merged" THEN "release"
    ELSE IF r.ready /\ ~hold THEN "fire" ELSE "hold"

\* What plan does with the latch when the row can fire: whether it dispatches,
\* the head the attempt stands down on, and the latch it puts back.  With the
\* bug that the head of a rejection is not carried over.
Ticket_Forgets(changed) ==
    [go |-> latch.kind = "released" \/ (changed /\ latch.kind \in {"blocked", "rejected"}),
     skip |-> NoHead,
     restore |-> latch]
\* With the bug that only a commit that changed the row dispatches.
Ticket_Changed(changed) ==
    [go |-> changed /\ latch.kind \in {"released", "blocked", "rejected"},
     skip |-> IF latch.kind = "rejected" THEN latch.head ELSE NoHead,
     restore |-> latch]
Ticket(changed) ==
    [go |-> latch.kind = "released" \/ (changed /\ latch.kind \in {"blocked", "rejected"}),
     skip |-> IF latch.kind = "rejected" THEN latch.head ELSE NoHead,
     restore |-> latch]

\* A commit of the row r.
Commit(r, hold, changed) ==
    LET signal == Signal(r, hold)
        ticket == Ticket(changed)
    IN /\ row' = r
       /\ IF signal = "fire" /\ ticket.go
          THEN /\ \E a \in Attempts :
                     /\ att[a].pc = "idle"
                     /\ att' = [att EXCEPT ![a] = [pc |-> "begun", skip |-> ticket.skip,
                                                   restore |-> ticket.restore, fresh |-> None]]
               /\ latch' = InFlight
               /\ overlap' = (overlap \/ Running # {})
               /\ deferred' = FALSE
               /\ UNCHANGED refused
          ELSE /\ latch' = IF signal = "release" THEN Released ELSE latch
               /\ refused' = IF signal = "release" THEN {} ELSE refused
               /\ UNCHANGED <<att, overlap, deferred>>
       /\ UNCHANGED <<upstream, armed, paused, greens, landed>>

Poll == Free /\ Commit(pr, held, pr # row) /\ UNCHANGED held

\* apply_pr_details: fetched once for a pull request, and taken for a change.
DetailsArrive == Move /\ Commit(pr, held, TRUE) /\ UNCHANGED held

\* epics::on_pr_merged, of the predecessor the row waits for: the stored row,
\* taken for a change.
HoldLifts == Free /\ held /\ held' = FALSE /\ Commit(row, FALSE, TRUE)

-----------------------------------------------------------------------------
(* run_real_attempt and run_attempt                                        *)

\* The attempt settles the latch and is done, or has the fetched task to commit.
Settle(a, l, fresh) ==
    /\ latch' = l
    /\ att' = [att EXCEPT ![a] = IF fresh = None THEN Idle
                                 ELSE [Idle EXCEPT !.pc = "committing", !.fresh = fresh]]
    /\ refused' = IF l \in {Released, Blocked(NoHead)} THEN {}
                  ELSE IF l.kind = "rejected" THEN refused \cup {l.head} ELSE refused

\* A pause puts the attempt off: it keeps the verdict it was dispatched on.
PutOff(a) ==
    /\ Free /\ armed /\ paused
    /\ Settle(a, att[a].restore, None)
    /\ deferred' = TRUE

\* The arm, the client and the pause, before anything is fetched.
AttemptBegins(a) ==
    /\ att[a].pc = "begun"
    /\ \/ PutOff(a)
       \/ Free /\ ~armed /\ Settle(a, Released, None) /\ UNCHANGED deferred
       \/ /\ Fault /\ armed
          /\ Settle(a, IF att[a].restore = Released THEN Blocked(NoHead)
                       ELSE att[a].restore, None)
          /\ UNCHANGED deferred
       \/ /\ Free /\ armed /\ ~paused
          /\ att' = [att EXCEPT ![a].pc = "fetching"]
          /\ UNCHANGED <<latch, refused, deferred>>
    /\ UNCHANGED <<upstream, row, armed, held, paused, greens, landed, overlap>>

\* The fetch, or the policy in the configuration, cannot be read.  With the
\* bug that the latch is not settled.
FetchFails_Silent(a) ==
    /\ Fault /\ att' = [att EXCEPT ![a] = Idle] /\ UNCHANGED <<latch, refused>>
FetchFails(a) ==
    /\ Fault /\ Settle(a, att[a].restore, None)

\* The pull request is not visible: what was known of its head is lost.
NotVisible(a) ==
    /\ Fault /\ Settle(a, Blocked(NoHead), None)

\* It stands down: on a head GitHub rejected, on what it now shows, or on a
\* parent that the stored rows show open.
StandsDown(a) ==
    \/ Free /\ att[a].skip = pr.head /\ Settle(a, Rejected(pr.head), pr)
    \/ /\ att[a].skip # pr.head
       /\ \/ Free /\ (~pr.ready \/ pr.state = "merged")
          \/ Fault /\ pr.ready /\ pr.state # "merged"
       /\ Settle(a, Blocked(pr.head), pr)

Verifies(a) ==
    /\ Free /\ att[a].skip # pr.head /\ pr.ready /\ pr.state # "merged"
    /\ att' = [att EXCEPT ![a].pc = "merging", ![a].fresh = pr]
    /\ UNCHANGED <<latch, refused>>

AttemptFetches(a) ==
    /\ att[a].pc = "fetching"
    /\ FetchFails(a) \/ NotVisible(a) \/ StandsDown(a) \/ Verifies(a)
    /\ UNCHANGED <<upstream, row, armed, held, paused, greens, landed, overlap, deferred>>

\* The merge is pinned to the head that was fetched, which GitHub never leaves
\* out of its answer.  With the bug that it is not.
Pinned_Not(a) == TRUE
Pinned(a) == pr.head = att[a].fresh.head

\* A pull request that is already merged counts as merged by this attempt.
Accepts(a) ==
    /\ Free
    /\ pr.state = "merged" \/ (Pinned(a) /\ answer \in {"merges", "queues"})
    /\ LET queues == pr.state # "merged" /\ answer = "queues" IN
       /\ pr' = [pr EXCEPT !.state = IF queues THEN "queued" ELSE "merged"]
       /\ Settle(a, Done(att[a].fresh.head),
                 IF queues THEN [att[a].fresh EXCEPT !.state = "queued"] ELSE None)
    /\ landed' = IF pr.state = "merged" THEN landed ELSE landed \cup {pr.head}

\* A rejection that may clear on the same head, or a head that moved.
NotYet(a) ==
    /\ Free /\ pr.state # "merged"
    /\ ~Pinned(a) \/ answer = "not yet"
    /\ Settle(a, Blocked(att[a].fresh.head), att[a].fresh)
    /\ UNCHANGED <<pr, landed>>

Never(a) ==
    /\ Free /\ Pinned(a) /\ answer = "never" /\ pr.state # "merged"
    /\ Settle(a, Rejected(pr.head), att[a].fresh)
    /\ UNCHANGED <<pr, landed>>

\* A rate limit: the latch is released and the next green poll tries again.
Limited(a) ==
    /\ Fault /\ Settle(a, Released, att[a].fresh)
    /\ UNCHANGED <<pr, landed>>

AttemptMerges(a) ==
    /\ att[a].pc = "merging"
    /\ Accepts(a) \/ NotYet(a) \/ Never(a) \/ Limited(a)
    /\ UNCHANGED <<answer, row, armed, held, paused, greens, overlap, deferred>>

\* commit_fresh_task: the row, without the hook.
AttemptCommits(a) ==
    /\ att[a].pc = "committing" /\ Free
    /\ row' = att[a].fresh
    /\ att' = [att EXCEPT ![a] = Idle]
    /\ UNCHANGED <<upstream, armed, held, latch, paused, history>>

Restart ==
    /\ Fault
    /\ latch' = Released /\ att' = [a \in Attempts |-> Idle]
    /\ refused' = {} /\ overlap' = FALSE /\ deferred' = FALSE
    /\ UNCHANGED <<upstream, row, armed, held, paused, greens, landed>>

-----------------------------------------------------------------------------
Runs == \E a \in Attempts :
            AttemptBegins(a) \/ AttemptFetches(a) \/ AttemptMerges(a) \/ AttemptCommits(a)

Next ==
    \/ Push \/ ChecksReport \/ RulesMove \/ QueueDecides \/ OthersMerge
    \/ Arm \/ EpicHolds \/ ReviewClears \/ Pause \/ PauseLifts
    \/ Poll \/ DetailsArrive \/ HoldLifts
    \/ Runs
    \/ Restart

Spec == Init /\ [][Next]_vars

\* The poll ticks, a dispatched attempt runs, a pause ends.
FairSpec == Spec /\ WF_vars(Poll) /\ WF_vars(Runs) /\ WF_vars(PauseLifts)

-----------------------------------------------------------------------------
(* Properties                                                              *)

\* The stored and the real pull request, the latch and every attempt are well
\* formed; only a verified attempt has a task in hand.
TypeOK ==
    /\ pr \in PullRequest /\ row \in PullRequest /\ answer \in Answers
    /\ armed \in BOOLEAN /\ held \in BOOLEAN /\ paused \in BOOLEAN
    /\ overlap \in BOOLEAN /\ deferred \in BOOLEAN
    /\ greens \subseteq Heads /\ landed \subseteq Heads /\ refused \subseteq Heads
    /\ latch \in Latch
    /\ att \in [Attempts -> Attempt]
    /\ \A a \in Attempts :
          /\ att[a].pc \in {"merging", "committing"} => att[a].fresh \in PullRequest
          /\ att[a].restore.kind \in {"released", "blocked", "rejected"}
    /\ moves \in 0..MaxMoves /\ left \in 0..MaxFaults /\ pauses \in 0..MaxPauses

\* Only a head that was green is ever merged: a push that lands between the
\* fetch and the mutation is refused, whatever the poll and the attempts do
\* meanwhile (run_attempt, expected_head_oid).
LandsWhatWasGreen == landed \subseteq greens

\* A latch in flight has an attempt that will settle it: no exit path, failed
\* call, release or overlapping attempt leaves the key wedged (run_attempt:
\* "Every exit path settles the InFlight latch").
InFlightHasAttempt == latch = InFlight => Running # {}

\* A head GitHub rejected for good is not sent again, through pauses, failed
\* fetches, holds, red phases and re-probes, until the latch is released or
\* forgotten: unless two attempts overlap, no attempt that was not told to
\* stand down on the head gets as far as the mutation.
RejectedStandsDown ==
    \A a \in Attempts : att[a].pc = "merging" =>
        att[a].fresh.head \notin refused \/ overlap

Ready == pr.ready /\ pr.state = "open" /\ armed /\ ~held /\ answer = "merges"

\* An armed pull request that stays green and that GitHub would merge is not
\* forgotten: it is merged, or the latch holds a verdict an attempt reached.
ReadyIsSettled ==
    <>[]Ready => []<>(latch.kind \in {"blocked", "rejected", "done"})

\* A probe that a pause put off is taken up again: "Keep the prior verdict; the
\* next commit after the pause lifts re-probes normally" (run_attempt).  Of an
\* armed pull request that stays green and that GitHub would merge, so that every
\* commit could dispatch, the last attempt is not for ever one that was put off.
DeferredIsRetried == ~<>[](Ready /\ deferred)
=============================================================================
