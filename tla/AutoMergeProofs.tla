--------------------------- MODULE AutoMergeProofs ---------------------------
(***************************************************************************)
(* Proofs that the safety properties of AutoMerge hold for any number of   *)
(* heads and of attempts at a time, and any bounds.  The three properties  *)
(* need one another's strengthenings:                                      *)
(*   - what lands was green because what an attempt is about to merge was  *)
(*     green when it was fetched, and a head that shows green is recorded; *)
(*   - a latch in flight has an attempt because no attempt restores a      *)
(*     latch in flight;                                                    *)
(*   - a rejected head is left alone because somebody always remembers it: *)
(*     the latch, or the one attempt that runs and stands down on it.      *)
(***************************************************************************)
EXTENDS AutoMerge, TLAPS

\* What shows green, and what an attempt holds to merge, was green.
ReadyIsGreen == pr.ready => pr.head \in greens
VerifiedIsGreen == \A a \in Attempts : att[a].pc = "merging" => att[a].fresh.head \in greens

\* Without overlap one attempt runs, and it owns the latch or was released.
OneRuns == ~overlap => \A a, b \in Running : a = b
RunnerHolds == ~overlap /\ Running # {} => latch \in {InFlight, Released}

\* Rejections are of heads that exist; a released latch knows of none.
RejectedExists ==
    /\ refused \subseteq 1..pr.head
    /\ latch.kind = "rejected" => latch.head \in 1..pr.head
    /\ \A a \in Attempts : att[a].restore.kind = "rejected" => att[a].restore.head \in 1..pr.head
ReleasedForgets == latch = Released => refused = {}

\* An attempt that stands down on a head restores the rejection of that head.
SkipIsRestored ==
    \A a \in Running : att[a].skip # NoHead => att[a].restore = Rejected(att[a].skip)

\* A refused head that is still the head is remembered.
RefusedIsKnown ==
    ~overlap /\ pr.head \in refused =>
        \/ latch = Rejected(pr.head)
        \/ \E a \in Running : att[a].pc # "merging" /\ att[a].skip = pr.head

MergeInv ==
    /\ TypeOK
    /\ ReadyIsGreen /\ VerifiedIsGreen /\ LandsWhatWasGreen
    /\ InFlightHasAttempt
    /\ OneRuns /\ RunnerHolds /\ RejectedExists /\ ReleasedForgets
    /\ SkipIsRestored /\ RefusedIsKnown /\ RejectedStandsDown

\* MergeInv in two parts: the latch and the attempts, and all around them.
AttemptTypes ==
    /\ refused \subseteq Heads /\ latch \in Latch /\ att \in [Attempts -> Attempt]
    /\ \A a \in Attempts :
          /\ att[a].pc \in {"merging", "committing"} => att[a].fresh \in PullRequest
          /\ att[a].restore.kind \in {"released", "blocked", "rejected"}
AttemptInv ==
    /\ AttemptTypes
    /\ VerifiedIsGreen /\ InFlightHasAttempt /\ OneRuns /\ RunnerHolds
    /\ RejectedExists /\ ReleasedForgets /\ SkipIsRestored /\ RefusedIsKnown
    /\ RejectedStandsDown
Budgets == moves \in 0..MaxMoves /\ left \in 0..MaxFaults /\ pauses \in 0..MaxPauses
OutsideInv ==
    /\ pr \in PullRequest /\ row \in PullRequest /\ answer \in Answers
    /\ armed \in BOOLEAN /\ held \in BOOLEAN /\ paused \in BOOLEAN
    /\ overlap \in BOOLEAN /\ deferred \in BOOLEAN
    /\ greens \subseteq Heads /\ landed \subseteq Heads
    /\ Budgets
    /\ ReadyIsGreen /\ LandsWhatWasGreen

-----------------------------------------------------------------------------
(* Operators                                                               *)

\* The two parts are the whole, now and after a step.
LEMMA MergeParts ==
    /\ MergeInv <=> AttemptInv /\ OutsideInv
    /\ MergeInv' <=> AttemptInv' /\ OutsideInv'
<1>1. MergeInv <=> AttemptInv /\ OutsideInv
    BY Zenon DEF MergeInv, AttemptInv, OutsideInv, AttemptTypes, Budgets, TypeOK
<1>2. MergeInv' <=> AttemptInv' /\ OutsideInv'
    BY Zenon DEF MergeInv, AttemptInv, OutsideInv, AttemptTypes, Budgets, TypeOK
<1> QED  BY <1>1, <1>2

\* The bounds on what may still happen are counted down to zero.
LEMMA BudgetStep ==
    ASSUME MergeInv, Move \/ Fault \/ Free \/ (pauses > 0 /\ pauses' = pauses - 1 /\ UNCHANGED <<moves, left>>)
    PROVE  Budgets'
<1>1. Budgets
    BY MergeParts DEF OutsideInv
<1>2. MaxMoves \in Nat /\ MaxFaults \in Nat /\ MaxPauses \in Nat
    BY MergeAssumption, Zenon
<1> QED  BY <1>1, <1>2 DEF Budgets, Move, Fault, Free

USE DEF NoHead

\* The latches the code sets are latches, and are told apart by their kind.
LEMMA LatchKinds ==
    /\ Released \in Latch /\ InFlight \in Latch /\ Released # InFlight
    /\ Blocked(NoHead) \in Latch
    /\ \A h \in Heads : Blocked(h) \in Latch /\ Rejected(h) \in Latch /\ Done(h) \in Latch
    /\ \A h : Blocked(h).kind = "blocked" /\ Blocked(h).head = h
    /\ \A h : Rejected(h).kind = "rejected" /\ Rejected(h).head = h
    /\ \A h : Done(h).kind = "done"
    /\ Released.kind = "released" /\ InFlight.kind = "in flight"
    /\ \A l \in Latch : l.kind = "rejected" => l = Rejected(l.head)
<1>1. /\ Released \in Latch /\ InFlight \in Latch
      /\ Released.kind = "released" /\ InFlight.kind = "in flight"
    BY DEF Latch, Released, InFlight
<1>2. Blocked(NoHead) \in Latch
    BY DEF Latch, Blocked
<1>3. ASSUME NEW h \in Heads
      PROVE  Blocked(h) \in Latch /\ Rejected(h) \in Latch /\ Done(h) \in Latch
    BY DEF Latch, Blocked, Rejected, Done
<1>4. ASSUME NEW h
      PROVE  /\ Blocked(h).kind = "blocked" /\ Blocked(h).head = h
             /\ Rejected(h).kind = "rejected" /\ Rejected(h).head = h
             /\ Done(h).kind = "done"
    BY DEF Blocked, Rejected, Done
<1>5. ASSUME NEW l \in Latch, l.kind = "rejected"
      PROVE  l = Rejected(l.head)
    BY <1>5 DEF Latch, Rejected
<1> QED  BY <1>1, <1>2, <1>3, <1>4, <1>5

\* The heads up to the head of a pull request are heads.
LEMMA HeadBounds ==
    ASSUME NEW p \in PullRequest
    PROVE  /\ p.head \in Heads /\ p.head \in Nat /\ 1 <= p.head /\ p.head <= MaxHead
           /\ p.head \in 1..p.head /\ 1..p.head \subseteq Heads
           /\ NoHead \notin 1..p.head
<1>1. p.head \in Heads
    BY DEF PullRequest
<1>2. MaxHead \in Nat
    BY MergeAssumption
<1> QED  BY <1>1, <1>2 DEF Heads

\* An attempt that settles leaves the running ones; the others are as they were.
LEMMA SettleEffect ==
    ASSUME TypeOK, NEW a \in Attempts, NEW l \in Latch, NEW fresh \in PullRequest \cup {None},
           Settle(a, l, fresh)
    PROVE  /\ latch' = l
           /\ att' \in [Attempts -> Attempt]
           /\ att'[a].pc \in {"idle", "committing"}
           /\ att'[a].pc = "committing" => att'[a].fresh \in PullRequest
           /\ att'[a].restore = Released
           /\ \A b \in Attempts : b # a => att'[b] = att[b]
           /\ Running' = Running \ {a}
<1>1. /\ Idle \in Attempt /\ Idle.pc = "idle" /\ Idle.restore = Released
      /\ [Idle EXCEPT !.pc = "committing", !.fresh = fresh] \in Attempt
    BY LatchKinds DEF Idle, Attempt
<1>2. /\ [Idle EXCEPT !.pc = "committing", !.fresh = fresh].pc = "committing"
      /\ [Idle EXCEPT !.pc = "committing", !.fresh = fresh].restore = Released
      /\ [Idle EXCEPT !.pc = "committing", !.fresh = fresh].fresh = fresh
    BY DEF Idle
<1>3. /\ att' \in [Attempts -> Attempt]
      /\ \A b \in Attempts : b # a => att'[b] = att[b]
      /\ att'[a] = IF fresh = None THEN Idle
                   ELSE [Idle EXCEPT !.pc = "committing", !.fresh = fresh]
    BY <1>1 DEF TypeOK, Settle
<1>4. /\ att'[a].pc \in {"idle", "committing"} /\ att'[a].restore = Released
      /\ att'[a].pc = "committing" => att'[a].fresh \in PullRequest
    BY <1>1, <1>2, <1>3
<1>5. Running' = Running \ {a}
    BY <1>3, <1>4 DEF Running
<1> QED  BY <1>3, <1>4, <1>5 DEF Settle

\* The conjuncts about the latch and the attempts survive a settlement, if the
\* new latch is a verdict and remembers a refused head that is still the head.
LEMMA SettleKeeps ==
    ASSUME MergeInv, NEW a \in Running, NEW l \in Latch, NEW fresh \in PullRequest \cup {None},
           Settle(a, l, fresh),
           l.kind # "in flight",
           l.kind = "rejected" => l.head \in 1..pr.head,
           ~overlap /\ pr.head \in refused' => l = Rejected(pr.head),
           pr'.head = pr.head, greens' = greens, overlap' = overlap
    PROVE  AttemptInv'
<1> a \in Attempts  BY DEF Running
<1>1. /\ latch' = l
      /\ att' \in [Attempts -> Attempt]
      /\ att'[a].pc \in {"idle", "committing"}
      /\ att'[a].pc = "committing" => att'[a].fresh \in PullRequest
      /\ att'[a].restore = Released
      /\ \A b \in Attempts : b # a => att'[b] = att[b]
      /\ Running' = Running \ {a}
    BY SettleEffect DEF MergeInv
<1>2. pr.head \in Heads /\ 1..pr.head \subseteq Heads
    BY HeadBounds DEF MergeInv, TypeOK
<1>3. refused' \subseteq 1..pr.head
    BY DEF MergeInv, RejectedExists, Settle
<1>4. \A b \in Attempts :
         /\ att'[b].pc \in {"merging", "committing"} => att'[b].fresh \in PullRequest
         /\ att'[b].restore.kind \in {"released", "blocked", "rejected"}
    BY <1>1, LatchKinds DEF MergeInv, TypeOK
<1>5. VerifiedIsGreen'
    BY <1>1 DEF MergeInv, VerifiedIsGreen
<1>6. InFlightHasAttempt'
    BY <1>1, LatchKinds DEF InFlightHasAttempt
<1>7. OneRuns' /\ SkipIsRestored'
    BY <1>1 DEF MergeInv, OneRuns, SkipIsRestored, Running
<1>8. ~overlap => Running' = {}
    BY <1>1 DEF MergeInv, OneRuns
<1>9. RunnerHolds'
    BY <1>8 DEF RunnerHolds
<1>10. RejectedExists'
    <2>1. Released.kind # "rejected"
        BY LatchKinds
    <2> QED  BY <1>1, <1>3, <2>1 DEF MergeInv, RejectedExists
<1>11. ReleasedForgets'
    BY <1>1 DEF ReleasedForgets, Settle
<1>12. RefusedIsKnown'
    BY <1>1 DEF RefusedIsKnown
<1>13. RejectedStandsDown'
    BY <1>8 DEF RejectedStandsDown, Running
<1> QED
    BY <1>1, <1>2, <1>3, <1>4, <1>5, <1>6, <1>7, <1>9, <1>10, <1>11, <1>12, <1>13
    DEF AttemptInv, AttemptTypes

-----------------------------------------------------------------------------
(* The steps                                                               *)

\* Initially nothing is in flight and nothing has landed.
LEMMA MergeInit == Init => MergeInv
<1> SUFFICES ASSUME Init PROVE MergeInv  OBVIOUS
<1>1. pr \in PullRequest /\ pr.head = 1 /\ ~pr.ready
    BY MergeAssumption DEF Init, PullRequest, Heads
<1>2. Idle \in Attempt /\ Idle.pc = "idle" /\ Idle.restore.kind = "released"
    BY LatchKinds DEF Idle, Attempt
<1>3. moves \in 0..MaxMoves /\ left \in 0..MaxFaults /\ pauses \in 0..MaxPauses
    <2>1. MaxMoves \in Nat /\ MaxFaults \in Nat /\ MaxPauses \in Nat
        BY MergeAssumption, Zenon
    <2> QED  BY <2>1 DEF Init
<1>a. TypeOK
    BY <1>1, <1>2, <1>3, LatchKinds DEF Init, TypeOK, Answers
<1>4. Running = {}
    BY <1>2 DEF Init, Running
<1> QED
    BY <1>1, <1>2, <1>a, <1>4, LatchKinds
    DEF Init, MergeInv, ReadyIsGreen, VerifiedIsGreen, LandsWhatWasGreen, InFlightHasAttempt,
        OneRuns, RunnerHolds, RejectedExists, ReleasedForgets, SkipIsRestored,
        RefusedIsKnown, RejectedStandsDown

\* Steps around the latch and the attempts: a head is only ever succeeded by a
\* new one, which GitHub cannot have refused.
LEMMA OutsideKeeps ==
    ASSUME MergeInv, UNCHANGED <<latch, att, refused, overlap>>,
           pr' \in PullRequest, pr'.head = pr.head \/ pr'.head = pr.head + 1,
           greens \subseteq greens'
    PROVE  AttemptInv'
<1>1. Running' = Running
    BY DEF Running
<1>2. /\ pr.head \in Nat /\ pr'.head \in Nat /\ 1..pr.head \subseteq 1..pr'.head
      /\ pr'.head \in 1..pr.head => pr'.head = pr.head
    BY HeadBounds DEF MergeInv, TypeOK
<1>3. AttemptTypes'
    BY DEF MergeInv, TypeOK, AttemptTypes
<1>4. VerifiedIsGreen' /\ RejectedStandsDown'
    BY DEF MergeInv, VerifiedIsGreen, RejectedStandsDown
<1>5. InFlightHasAttempt' /\ OneRuns' /\ RunnerHolds' /\ ReleasedForgets' /\ SkipIsRestored'
    BY <1>1 DEF MergeInv, InFlightHasAttempt, OneRuns, RunnerHolds, ReleasedForgets, SkipIsRestored
<1>6. RejectedExists'
    BY <1>2 DEF MergeInv, RejectedExists
<1>7. RefusedIsKnown'
    BY <1>1, <1>2 DEF MergeInv, RejectedExists, RefusedIsKnown
<1> QED  BY <1>3, <1>4, <1>5, <1>6, <1>7 DEF AttemptInv

\* A push: the new head is not green and not refused.
LEMMA PushStep == MergeInv /\ Push => MergeInv'
<1> SUFFICES ASSUME MergeInv, Push PROVE MergeInv'  OBVIOUS
<1>1. pr.head \in Nat /\ 1 <= pr.head /\ MaxHead \in Nat
    BY HeadBounds, MergeAssumption DEF MergeInv, TypeOK
<1>2. pr.head + 1 \in Heads
    BY <1>1 DEF Push, Heads
<1>3. pr' \in PullRequest /\ pr'.head = pr.head + 1 /\ pr'.ready = FALSE
    BY <1>2 DEF Push, PullRequest
<1>4. AttemptInv'
    BY <1>3, OutsideKeeps DEF Push, history
<1>5. Budgets'
    BY BudgetStep DEF Push
<1>6. OutsideInv'
    BY <1>3, <1>5, MergeParts DEF OutsideInv, Push, history, ReadyIsGreen, LandsWhatWasGreen
<1> QED  BY <1>4, <1>6, MergeParts

\* Checks report: a head that turns green is recorded.
LEMMA ChecksStep == MergeInv /\ ChecksReport => MergeInv'
<1> SUFFICES ASSUME MergeInv, ChecksReport PROVE MergeInv'  OBVIOUS
<1>1. pr \in PullRequest /\ pr.head \in Heads
    BY HeadBounds DEF MergeInv, TypeOK
<1>2. pr' \in PullRequest /\ pr'.head = pr.head /\ pr'.ready = ~pr.ready
    BY <1>1 DEF ChecksReport, PullRequest
<1>3. AttemptInv'
    BY <1>2, OutsideKeeps DEF ChecksReport
<1>4. Budgets'
    BY BudgetStep DEF ChecksReport
<1>5. OutsideInv
    BY MergeParts
<1>6. OutsideInv'
    BY <1>1, <1>2, <1>4, <1>5 DEF OutsideInv, ChecksReport, ReadyIsGreen, LandsWhatWasGreen
<1> QED  BY <1>3, <1>6, MergeParts

\* What else GitHub and other people do keeps the head and whether it is green.
LEMMA UpstreamStep == MergeInv /\ (RulesMove \/ QueueDecides \/ OthersMerge) => MergeInv'
<1> SUFFICES ASSUME MergeInv, RulesMove \/ QueueDecides \/ OthersMerge PROVE MergeInv'  OBVIOUS
<1>1. pr \in PullRequest
    BY DEF MergeInv, TypeOK
<1>2. pr' \in PullRequest /\ pr'.head = pr.head /\ pr'.ready = pr.ready
    BY <1>1 DEF RulesMove, QueueDecides, OthersMerge, PullRequest
<1>3. AttemptInv'
    BY <1>2, OutsideKeeps DEF RulesMove, QueueDecides, OthersMerge, history
<1>4. Budgets'
    BY BudgetStep DEF RulesMove, QueueDecides, OthersMerge
<1>5. OutsideInv
    BY MergeParts
<1>6. OutsideInv'
    BY <1>2, <1>4, <1>5
    DEF OutsideInv, RulesMove, QueueDecides, OthersMerge, history, ReadyIsGreen, LandsWhatWasGreen
<1> QED  BY <1>3, <1>6, MergeParts

\* The arm, the epic and the pause are read by the attempts and nothing more.
LEMMA SwitchStep == MergeInv /\ (Arm \/ EpicHolds \/ ReviewClears \/ Pause \/ PauseLifts) => MergeInv'
<1> SUFFICES ASSUME MergeInv, Arm \/ EpicHolds \/ ReviewClears \/ Pause \/ PauseLifts PROVE MergeInv'  OBVIOUS
<1>1. pr' = pr /\ pr \in PullRequest
    BY DEF MergeInv, TypeOK, Arm, EpicHolds, ReviewClears, Pause, PauseLifts, upstream
<1>2. AttemptInv'
    BY <1>1, OutsideKeeps DEF Arm, EpicHolds, ReviewClears, Pause, PauseLifts, history
<1>3. Budgets'
    BY BudgetStep DEF Arm, EpicHolds, ReviewClears, Pause, PauseLifts
<1>4. OutsideInv
    BY MergeParts
<1>5. OutsideInv'
    BY <1>1, <1>3, <1>4
    DEF OutsideInv, Arm, EpicHolds, ReviewClears, Pause, PauseLifts, history, upstream, ReadyIsGreen,
        LandsWhatWasGreen
<1> QED  BY <1>2, <1>5, MergeParts

-----------------------------------------------------------------------------
(* The hook                                                                *)

\* A commit that dispatches: without overlap nothing else was running, and the
\* attempt takes over the rejection the latch remembered.
LEMMA DispatchKeeps ==
    ASSUME MergeInv, NEW changed \in BOOLEAN, NEW a \in Attempts, att[a].pc = "idle",
           Ticket(changed).go,
           att' = [att EXCEPT ![a] = [pc |-> "begun", skip |-> Ticket(changed).skip,
                                      restore |-> Ticket(changed).restore, fresh |-> None]],
           latch' = InFlight, overlap' = (overlap \/ Running # {}),
           UNCHANGED <<pr, greens, refused>>
    PROVE  AttemptInv'
<1> DEFINE new == [pc |-> "begun", skip |-> Ticket(changed).skip,
                   restore |-> Ticket(changed).restore, fresh |-> None]
<1>1. /\ latch \in Latch /\ latch.kind \in {"released", "blocked", "rejected"}
      /\ latch.head \in Heads \cup {NoHead}
    BY DEF MergeInv, TypeOK, Ticket, Latch
<1>2. /\ Ticket(changed).restore = latch
      /\ Ticket(changed).skip = IF latch.kind = "rejected" THEN latch.head ELSE NoHead
    BY DEF Ticket
<1>3. /\ new \in Attempt /\ new.pc = "begun" /\ new.restore = latch
      /\ new.skip = IF latch.kind = "rejected" THEN latch.head ELSE NoHead
    BY <1>1, <1>2 DEF Attempt
<1> HIDE DEF new
<1>4. /\ att' \in [Attempts -> Attempt] /\ att'[a] = new
      /\ \A b \in Attempts : b # a => att'[b] = att[b]
    BY <1>3 DEF MergeInv, TypeOK, new
<1>5. Running' = Running \cup {a} /\ a \notin Running
    BY <1>3, <1>4 DEF Running
<1>6. ~overlap' => Running = {} /\ ~overlap
    BY DEF MergeInv, TypeOK
<1>7. AttemptTypes'
    BY <1>1, <1>3, <1>4, LatchKinds DEF MergeInv, TypeOK, AttemptTypes
<1>8. VerifiedIsGreen'
    BY <1>3, <1>4 DEF MergeInv, VerifiedIsGreen
<1>9. InFlightHasAttempt' /\ RunnerHolds' /\ ReleasedForgets'
    BY <1>5, LatchKinds DEF InFlightHasAttempt, RunnerHolds, ReleasedForgets
<1>10. OneRuns'
    BY <1>5, <1>6 DEF OneRuns
<1>11. RejectedExists'
    BY <1>3, <1>4, LatchKinds DEF MergeInv, RejectedExists
<1>12. SkipIsRestored'
    <2>1. new.skip # NoHead => new.restore = Rejected(new.skip)
        BY <1>1, <1>3, LatchKinds
    <2>2. \A b \in Running : b \in Attempts /\ b # a
        BY <1>5 DEF Running
    <2> QED  BY <1>4, <1>5, <2>1, <2>2 DEF MergeInv, SkipIsRestored
<1>13. RefusedIsKnown'
    <2> SUFFICES ASSUME ~overlap', pr'.head \in refused'
                 PROVE  \E b \in Running' : att'[b].pc # "merging" /\ att'[b].skip = pr'.head
        BY DEF RefusedIsKnown
    <2>1. Running = {} /\ ~overlap
        BY <1>6 DEF MergeInv, TypeOK
    <2>2. latch = Rejected(pr.head) /\ pr.head \in Heads
        BY <2>1, HeadBounds DEF MergeInv, TypeOK, RefusedIsKnown
    <2>3. latch.kind = "rejected" /\ latch.head = pr.head
        BY <2>2, LatchKinds
    <2> QED  BY <1>3, <1>4, <1>5, <2>3
<1>14. RejectedStandsDown'
    BY <1>3, <1>4 DEF MergeInv, TypeOK, RejectedStandsDown
<1> QED
    BY <1>7, <1>8, <1>9, <1>10, <1>11, <1>12, <1>13, <1>14 DEF AttemptInv

\* A commit that does not dispatch leaves the latch or releases it.
LEMMA ReleaseKeeps ==
    ASSUME MergeInv, UNCHANGED <<pr, greens, att, overlap>>,
           \/ latch' = Released /\ refused' = {}
           \/ UNCHANGED <<latch, refused>>
    PROVE  AttemptInv'
<1>1. Running' = Running
    BY DEF Running
<1>2. AttemptTypes'
    BY LatchKinds DEF MergeInv, TypeOK, AttemptTypes
<1>3. VerifiedIsGreen' /\ InFlightHasAttempt' /\ OneRuns' /\ RunnerHolds' /\ SkipIsRestored'
    BY <1>1, LatchKinds
    DEF MergeInv, VerifiedIsGreen, InFlightHasAttempt, OneRuns, RunnerHolds, SkipIsRestored
<1>4. RejectedExists' /\ ReleasedForgets' /\ RefusedIsKnown' /\ RejectedStandsDown'
    BY <1>1, LatchKinds
    DEF MergeInv, RejectedExists, ReleasedForgets, RefusedIsKnown, RejectedStandsDown
<1> QED  BY <1>2, <1>3, <1>4 DEF AttemptInv

\* A commit, by the poll, with the details or when a hold lifts.
LEMMA CommitStep == MergeInv /\ (Poll \/ DetailsArrive \/ HoldLifts) => MergeInv'
<1> SUFFICES ASSUME MergeInv, Poll \/ DetailsArrive \/ HoldLifts PROVE MergeInv'  OBVIOUS
<1>1. PICK r \in PullRequest, hold \in BOOLEAN, changed \in BOOLEAN : Commit(r, hold, changed)
    BY DEF MergeInv, TypeOK, Poll, DetailsArrive, HoldLifts
<1>2. AttemptInv'
    <2>1. CASE Signal(r, hold) = "fire" /\ Ticket(changed).go
        <3>1. PICK a \in Attempts :
                 /\ att[a].pc = "idle"
                 /\ att' = [att EXCEPT ![a] = [pc |-> "begun", skip |-> Ticket(changed).skip,
                                               restore |-> Ticket(changed).restore,
                                               fresh |-> None]]
            BY <1>1, <2>1 DEF Commit
        <3>2. latch' = InFlight /\ overlap' = (overlap \/ Running # {}) /\ refused' = refused
            BY <1>1, <2>1 DEF Commit
        <3>3. UNCHANGED <<pr, greens, refused>>
            BY <1>1, <3>2 DEF Commit, upstream
        <3> QED  BY <2>1, <3>1, <3>2, <3>3, DispatchKeeps
    <2>2. CASE ~(Signal(r, hold) = "fire" /\ Ticket(changed).go)
        <3>1. /\ UNCHANGED <<pr, greens, att, overlap>>
              /\ \/ latch' = Released /\ refused' = {}
                 \/ UNCHANGED <<latch, refused>>
            BY <1>1, <2>2 DEF Commit, upstream
        <3> QED  BY <3>1, ReleaseKeeps
    <2> QED  BY <2>1, <2>2
<1>3. Budgets'
    BY BudgetStep DEF Poll, DetailsArrive, HoldLifts
<1>4. OutsideInv
    BY MergeParts
<1>5. /\ row' \in PullRequest /\ held' \in BOOLEAN
      /\ overlap' \in BOOLEAN /\ deferred' \in BOOLEAN
      /\ UNCHANGED <<pr, answer, armed, paused, greens, landed>>
    BY <1>1, <1>4 DEF Commit, upstream, OutsideInv, Poll, DetailsArrive, HoldLifts
<1>6. OutsideInv'
    BY <1>3, <1>4, <1>5 DEF OutsideInv, ReadyIsGreen, LandsWhatWasGreen
<1> QED  BY <1>2, <1>6, MergeParts

-----------------------------------------------------------------------------
(* The attempts                                                            *)

\* The memory of a refusal: while one attempt runs, it is the attempt that
\* remembers a refused head, and it has not got as far as the mutation.
LEMMA AttemptRemembers ==
    ASSUME MergeInv, NEW a \in Running, ~overlap, pr.head \in refused
    PROVE  att[a].pc # "merging" /\ att[a].skip = pr.head /\ att[a].restore = Rejected(pr.head)
<1>1. pr.head \in Heads /\ pr.head # NoHead
    BY HeadBounds DEF MergeInv, TypeOK
<1>2. latch # Rejected(pr.head)
    BY <1>1, LatchKinds DEF MergeInv, RunnerHolds
<1>3. PICK b \in Running : att[b].pc # "merging" /\ att[b].skip = pr.head
    BY <1>2 DEF MergeInv, RefusedIsKnown
<1>4. a = b
    BY DEF MergeInv, OneRuns
<1> QED  BY <1>1, <1>3, <1>4 DEF MergeInv, SkipIsRestored

\* An attempt that goes on keeps what it was told to stand down on, and
\* reaches the mutation only with a green head that is another one.
LEMMA ProgressKeeps ==
    ASSUME MergeInv, NEW a \in Running, NEW n \in Attempt,
           att' = [att EXCEPT ![a] = n],
           n.pc \in {"fetching", "merging"}, n.skip = att[a].skip, n.restore = att[a].restore,
           n.pc = "merging" => /\ n.fresh = pr /\ pr.head \in greens
                               /\ att[a].skip # pr.head,
           UNCHANGED <<pr, greens, latch, refused, overlap>>
    PROVE  AttemptInv'
<1>1. a \in Attempts /\ pr \in PullRequest
    BY DEF Running, MergeInv, TypeOK
<1>2. /\ att' \in [Attempts -> Attempt] /\ att'[a] = n
      /\ \A b \in Attempts : b # a => att'[b] = att[b]
    BY <1>1 DEF MergeInv, TypeOK
<1>3. Running' = Running
    BY <1>1, <1>2 DEF Running
<1>4. AttemptTypes'
    BY <1>1, <1>2 DEF MergeInv, TypeOK, AttemptTypes
<1>5. VerifiedIsGreen'
    BY <1>2 DEF MergeInv, VerifiedIsGreen
<1>6. InFlightHasAttempt' /\ OneRuns' /\ RunnerHolds' /\ ReleasedForgets'
    BY <1>3 DEF MergeInv, InFlightHasAttempt, OneRuns, RunnerHolds, ReleasedForgets
<1>7. RejectedExists'
    BY <1>1, <1>2 DEF MergeInv, RejectedExists
<1>8. SkipIsRestored'
    <2>1. \A b \in Running : b \in Attempts
        BY DEF Running
    <2> QED  BY <1>2, <1>3, <2>1 DEF MergeInv, SkipIsRestored
<1>9. ~overlap /\ pr.head \in refused => n.pc # "merging" /\ n.skip = pr.head
    BY AttemptRemembers
<1>10. RefusedIsKnown'
    BY <1>2, <1>3, <1>9 DEF RefusedIsKnown
<1>11. RejectedStandsDown'
    BY <1>2, <1>9 DEF MergeInv, RejectedStandsDown
<1> QED
    BY <1>4, <1>5, <1>6, <1>7, <1>8, <1>10, <1>11 DEF AttemptInv

\* An attempt that puts back the latch it found, or that forgets, keeps the
\* memory of a refused head or drops it with the history.
LEMMA RestoreKeeps ==
    ASSUME MergeInv, NEW a \in Running, NEW l, NEW fresh \in PullRequest \cup {None},
           l \in {att[a].restore, Released, Blocked(NoHead)},
           Settle(a, l, fresh),
           pr'.head = pr.head, greens' = greens, overlap' = overlap
    PROVE  AttemptInv'
<1>1. a \in Attempts
    BY DEF Running
<1>2. att[a].restore \in Latch /\ att[a].restore.kind \in {"released", "blocked", "rejected"}
    BY <1>1 DEF MergeInv, TypeOK, Attempt
<1>3. l \in Latch /\ l.kind # "in flight"
    BY <1>2, LatchKinds
<1>4. l.kind = "rejected" => l.head \in 1..pr.head
    BY <1>1, LatchKinds DEF MergeInv, RejectedExists
<1>5. ASSUME ~overlap, pr.head \in refused' PROVE l = Rejected(pr.head)
    <2>1. l \notin {Released, Blocked(NoHead)} /\ l = att[a].restore
        BY <1>5 DEF Settle
    <2>2. CASE pr.head \in refused
        BY <1>5, <2>1, <2>2, AttemptRemembers
    <2>3. CASE pr.head \notin refused
        <3>1. l.kind = "rejected" /\ l.head = pr.head
            BY <1>5, <2>1, <2>3 DEF Settle
        <3> QED  BY <1>3, <3>1, LatchKinds
    <2> QED  BY <2>2, <2>3
<1> QED  BY <1>3, <1>4, <1>5, SettleKeeps

\* A verdict on a head that GitHub has not refused, or the refusal itself.
LEMMA VerdictKeeps ==
    ASSUME MergeInv, NEW a \in Running, NEW l, NEW h \in Heads,
           NEW fresh \in PullRequest \cup {None},
           \/ l = Rejected(pr.head)
           \/ l \in {Blocked(h), Done(h)} /\ (overlap \/ pr.head \notin refused),
           Settle(a, l, fresh),
           pr'.head = pr.head, greens' = greens, overlap' = overlap
    PROVE  AttemptInv'
<1>1. pr.head \in Heads /\ pr.head \in 1..pr.head
    BY HeadBounds DEF MergeInv, TypeOK
<1>2. l \in Latch /\ l.kind # "in flight" /\ (l.kind = "rejected" => l.head \in 1..pr.head)
    BY <1>1, LatchKinds
<1>3. l # Rejected(pr.head) => l.kind # "rejected" /\ refused' \subseteq refused
    BY LatchKinds DEF Settle
<1> QED  BY <1>2, <1>3, SettleKeeps

\* Before anything is fetched.
LEMMA BeginsStep ==
    ASSUME MergeInv, NEW a \in Attempts, AttemptBegins(a)
    PROVE  MergeInv'
<1>1. a \in Running
    BY DEF AttemptBegins, Running
<1>2. UNCHANGED <<pr, answer, row, armed, held, paused, greens, landed, overlap>>
    BY DEF AttemptBegins, upstream
<1>3. AttemptInv'
    <2>1. ASSUME NEW l \in {att[a].restore, Released, Blocked(NoHead)}, Settle(a, l, None)
          PROVE  AttemptInv'
        BY <1>1, <1>2, <2>1, RestoreKeeps
    <2>2. ASSUME att' = [att EXCEPT ![a].pc = "fetching"], UNCHANGED <<latch, refused>>
          PROVE  AttemptInv'
        <3>1. att[a] \in Attempt
            BY DEF MergeInv, TypeOK
        <3>2. PICK n : n = [att[a] EXCEPT !.pc = "fetching"]
            OBVIOUS
        <3>3. /\ n \in Attempt /\ n.pc = "fetching" /\ n.skip = att[a].skip
              /\ n.restore = att[a].restore
            BY <3>1, <3>2 DEF Attempt
        <3>4. att' = [att EXCEPT ![a] = n]
            BY <2>2, <3>2
        <3> QED  BY <1>1, <1>2, <2>2, <3>3, <3>4, ProgressKeeps
    <2> QED  BY <2>1, <2>2 DEF AttemptBegins, PutOff
<1>4. Budgets'
    BY BudgetStep DEF AttemptBegins, PutOff
<1>5. deferred' \in BOOLEAN
    BY DEF AttemptBegins, PutOff, MergeInv, TypeOK
<1>6. OutsideInv'
    BY <1>2, <1>4, <1>5, MergeParts DEF OutsideInv, ReadyIsGreen, LandsWhatWasGreen
<1> QED  BY <1>3, <1>6, MergeParts

\* The fetch and the checks on what it returns.
LEMMA FetchesStep ==
    ASSUME MergeInv, NEW a \in Attempts, AttemptFetches(a)
    PROVE  MergeInv'
<1>1. a \in Running /\ att[a].pc = "fetching"
    BY DEF AttemptFetches, Running
<1>2. UNCHANGED <<pr, answer, row, armed, held, paused, greens, landed, overlap, deferred>>
    BY DEF AttemptFetches, upstream
<1>3. pr \in PullRequest /\ pr.head \in Heads
    BY HeadBounds DEF MergeInv, TypeOK
<1>4. ASSUME FetchFails(a) \/ NotVisible(a) PROVE AttemptInv'
    BY <1>1, <1>2, <1>4, RestoreKeeps DEF FetchFails, NotVisible
<1>5. ASSUME StandsDown(a) PROVE AttemptInv'
    <2>1. Settle(a, Rejected(pr.head), pr) => AttemptInv'
        BY <1>1, <1>2, <1>3, VerdictKeeps
    <2>2. att[a].skip # pr.head => overlap \/ pr.head \notin refused
        BY <1>1, AttemptRemembers
    <2>3. att[a].skip # pr.head /\ Settle(a, Blocked(pr.head), pr) => AttemptInv'
        BY <1>1, <1>2, <1>3, <2>2, VerdictKeeps
    <2> QED  BY <1>5, <2>1, <2>3 DEF StandsDown
<1>6. ASSUME Verifies(a) PROVE AttemptInv'
    <2>1. att[a] \in Attempt
        BY DEF MergeInv, TypeOK
    <2>2. PICK n : n = [att[a] EXCEPT !.pc = "merging", !.fresh = pr]
        OBVIOUS
    <2>3. /\ n \in Attempt /\ n.pc = "merging" /\ n.skip = att[a].skip
          /\ n.restore = att[a].restore /\ n.fresh = pr
        BY <1>3, <2>1, <2>2 DEF Attempt
    <2>4. att' = [att EXCEPT ![a] = n]
        BY <1>6, <2>1, <2>2 DEF Verifies, MergeInv, TypeOK, Attempt
    <2>5. pr.head \in greens /\ att[a].skip # pr.head /\ UNCHANGED <<latch, refused>>
        BY <1>6 DEF Verifies, MergeInv, ReadyIsGreen
    <2> QED  BY <1>1, <1>2, <2>3, <2>4, <2>5, ProgressKeeps
<1>7. AttemptInv'
    BY <1>4, <1>5, <1>6 DEF AttemptFetches
<1>8. Budgets'
    BY BudgetStep DEF AttemptFetches, FetchFails, NotVisible, StandsDown, Verifies
<1>9. OutsideInv'
    BY <1>2, <1>8, MergeParts DEF OutsideInv, ReadyIsGreen, LandsWhatWasGreen
<1> QED  BY <1>7, <1>9, MergeParts

\* The mutation: what it lands is the head that was verified.
LEMMA MergesStep ==
    ASSUME MergeInv, NEW a \in Attempts, AttemptMerges(a)
    PROVE  MergeInv'
<1>1. a \in Running /\ att[a].pc = "merging"
    BY DEF AttemptMerges, Running
<1>2. UNCHANGED <<answer, row, armed, held, paused, greens, overlap, deferred>>
    BY DEF AttemptMerges
<1>3. pr \in PullRequest /\ pr.head \in Heads /\ OutsideInv
    BY HeadBounds, MergeParts DEF MergeInv, TypeOK
<1>4. att[a].fresh \in PullRequest /\ att[a].fresh.head \in Heads /\ att[a].fresh.head \in greens
    BY <1>1, HeadBounds DEF MergeInv, TypeOK, VerifiedIsGreen
<1>5. overlap \/ pr.head \notin refused
    BY <1>1, AttemptRemembers
<1>6. pr' \in PullRequest /\ pr'.head = pr.head /\ pr'.ready = pr.ready
    <2>1. \A q \in {"queued", "merged"} :
             /\ [pr EXCEPT !.state = q] \in PullRequest
             /\ [pr EXCEPT !.state = q].head = pr.head /\ [pr EXCEPT !.state = q].ready = pr.ready
        BY <1>3 DEF PullRequest
    <2>2. Accepts(a) => \E q \in {"queued", "merged"} : pr' = [pr EXCEPT !.state = q]
        BY DEF Accepts
    <2> QED  BY <1>3, <2>1, <2>2 DEF AttemptMerges, NotYet, Never, Limited
<1>7. AttemptInv'
    <2>1. CASE Accepts(a)
        <3>1. [att[a].fresh EXCEPT !.state = "queued"] \in PullRequest
            BY <1>4 DEF PullRequest
        <3>2. PICK fresh \in PullRequest \cup {None} : Settle(a, Done(att[a].fresh.head), fresh)
            BY <2>1, <3>1 DEF Accepts
        <3> QED  BY <1>1, <1>2, <1>4, <1>5, <1>6, <3>2, VerdictKeeps
    <2>2. CASE NotYet(a)
        BY <1>1, <1>2, <1>4, <1>5, <1>6, <2>2, VerdictKeeps DEF NotYet
    <2>3. CASE Never(a)
        BY <1>1, <1>2, <1>3, <1>4, <1>6, <2>3, VerdictKeeps DEF Never
    <2>4. CASE Limited(a)
        BY <1>1, <1>2, <1>4, <1>6, <2>4, RestoreKeeps DEF Limited
    <2> QED  BY <2>1, <2>2, <2>3, <2>4 DEF AttemptMerges
<1>8. Budgets'
    BY BudgetStep DEF AttemptMerges, Accepts, NotYet, Never, Limited
<1>9. landed' \subseteq greens /\ landed' \subseteq Heads
    <2>1. landed \subseteq greens /\ landed \subseteq Heads
        BY <1>3 DEF OutsideInv, LandsWhatWasGreen
    <2>2. landed' = landed \/ (landed' = landed \cup {pr.head} /\ pr.head = att[a].fresh.head)
        BY DEF AttemptMerges, Accepts, NotYet, Never, Limited, Pinned
    <2> QED  BY <1>4, <2>1, <2>2
<1>10. OutsideInv'
    BY <1>2, <1>3, <1>6, <1>8, <1>9 DEF OutsideInv, ReadyIsGreen, LandsWhatWasGreen
<1> QED  BY <1>7, <1>10, MergeParts

\* The fetched task is committed, without the hook.
LEMMA CommitsStep ==
    ASSUME MergeInv, NEW a \in Attempts, AttemptCommits(a)
    PROVE  MergeInv'
<1>1. /\ att[a].fresh \in PullRequest
      /\ UNCHANGED <<pr, answer, armed, held, latch, paused, greens, landed, refused, overlap,
                     deferred>>
    BY DEF AttemptCommits, upstream, history, MergeInv, TypeOK
<1>2. Idle \in Attempt /\ Idle.pc = "idle" /\ Idle.restore = Released
    BY LatchKinds DEF Idle, Attempt
<1>3. /\ att' \in [Attempts -> Attempt] /\ att'[a] = Idle
      /\ \A b \in Attempts : b # a => att'[b] = att[b]
    BY <1>2 DEF AttemptCommits, MergeInv, TypeOK
<1>4. Running' = Running /\ a \notin Running /\ Running \subseteq Attempts
    BY <1>2, <1>3 DEF AttemptCommits, Running
<1>5. AttemptTypes'
    BY <1>1, <1>2, <1>3, LatchKinds DEF MergeInv, TypeOK, AttemptTypes
<1>6. VerifiedIsGreen' /\ RejectedStandsDown'
    BY <1>1, <1>2, <1>3 DEF MergeInv, VerifiedIsGreen, RejectedStandsDown
<1>7. InFlightHasAttempt' /\ OneRuns' /\ RunnerHolds' /\ ReleasedForgets'
    BY <1>1, <1>4 DEF MergeInv, InFlightHasAttempt, OneRuns, RunnerHolds, ReleasedForgets
<1>8. RejectedExists'
    BY <1>1, <1>2, <1>3, LatchKinds DEF MergeInv, RejectedExists
<1>9. SkipIsRestored'
    BY <1>3, <1>4 DEF MergeInv, SkipIsRestored
<1>10. RefusedIsKnown'
    BY <1>1, <1>3, <1>4 DEF MergeInv, RefusedIsKnown
<1>11. AttemptInv'
    BY <1>5, <1>6, <1>7, <1>8, <1>9, <1>10 DEF AttemptInv
<1>12. Budgets'
    BY BudgetStep DEF AttemptCommits
<1>13. OutsideInv'
    BY <1>1, <1>12, MergeParts DEF OutsideInv, AttemptCommits, ReadyIsGreen, LandsWhatWasGreen
<1> QED  BY <1>11, <1>13, MergeParts

\* The daemon restarts: latch, attempts and memory are gone together.
LEMMA RestartStep == MergeInv /\ Restart => MergeInv'
<1> SUFFICES ASSUME MergeInv, Restart PROVE MergeInv'  OBVIOUS
<1>1. Idle \in Attempt /\ Idle.pc = "idle" /\ Idle.restore = Released
    BY LatchKinds DEF Idle, Attempt
<1>2. /\ att' \in [Attempts -> Attempt] /\ \A b \in Attempts : att'[b] = Idle
      /\ latch' = Released /\ refused' = {} /\ overlap' = FALSE /\ deferred' = FALSE
      /\ UNCHANGED <<pr, answer, row, armed, held, paused, greens, landed>>
    BY <1>1 DEF Restart, upstream
<1>3. Running' = {}
    BY <1>1, <1>2 DEF Running
<1>4. AttemptInv'
    BY <1>1, <1>2, <1>3, LatchKinds
    DEF AttemptInv, AttemptTypes, VerifiedIsGreen, InFlightHasAttempt, OneRuns, RunnerHolds,
        RejectedExists, ReleasedForgets, SkipIsRestored, RefusedIsKnown, RejectedStandsDown
<1>5. Budgets'
    BY BudgetStep DEF Restart
<1>6. OutsideInv'
    BY <1>2, <1>5, MergeParts DEF OutsideInv, ReadyIsGreen, LandsWhatWasGreen
<1> QED  BY <1>4, <1>6, MergeParts

-----------------------------------------------------------------------------
(* Theorems                                                                *)

\* MergeInv is inductive: every step of the poll, of the attempts and of the
\* world around them keeps it.
THEOREM MergeInvariant == Spec => []MergeInv
<1>1. MergeInv /\ [Next]_vars => MergeInv'
    <2> SUFFICES ASSUME MergeInv, [Next]_vars PROVE MergeInv'  OBVIOUS
    <2>1. CASE Push \/ ChecksReport \/ RulesMove \/ QueueDecides \/ OthersMerge
        BY <2>1, PushStep, ChecksStep, UpstreamStep
    <2>2. CASE Arm \/ EpicHolds \/ ReviewClears \/ Pause \/ PauseLifts
        BY <2>2, SwitchStep
    <2>3. CASE Poll \/ DetailsArrive \/ HoldLifts
        BY <2>3, CommitStep
    <2>4. CASE Runs
        BY <2>4, BeginsStep, FetchesStep, MergesStep, CommitsStep DEF Runs
    <2>5. CASE Restart
        BY <2>5, RestartStep
    <2>6. CASE UNCHANGED vars
        <3>1. AttemptInv'
            BY <2>6, ReleaseKeeps DEF vars
        <3>2. Budgets'
            BY <2>6, BudgetStep DEF vars, Free
        <3>3. OutsideInv'
            BY <2>6, <3>2, MergeParts DEF vars, OutsideInv, ReadyIsGreen, LandsWhatWasGreen
        <3> QED  BY <3>1, <3>3, MergeParts
    <2> QED  BY <2>1, <2>2, <2>3, <2>4, <2>5, <2>6 DEF Next
<1> QED  BY MergeInit, <1>1, PTL DEF Spec

\* The latch, the attempts and the rows are always well formed.
THEOREM MergeTypeCorrect == Spec => []TypeOK
<1>1. MergeInv => TypeOK
    BY DEF MergeInv
<1> QED  BY MergeInvariant, <1>1, PTL

\* Only a head that was green is ever merged, for any number of pushes and of
\* attempts at a time (run_attempt, expected_head_oid).
THEOREM OnlyGreenLands == Spec => []LandsWhatWasGreen
<1>1. MergeInv => LandsWhatWasGreen
    BY DEF MergeInv
<1> QED  BY MergeInvariant, <1>1, PTL

\* No exit path of run_attempt, release or overlap leaves the latch in flight
\* without an attempt that will settle it.
THEOREM LatchNotWedged == Spec => []InFlightHasAttempt
<1>1. MergeInv => InFlightHasAttempt
    BY DEF MergeInv
<1> QED  BY MergeInvariant, <1>1, PTL

\* Unless two attempts overlapped, a head that GitHub refused for good is not
\* sent again before the latch forgets (plan, run_attempt: skip_head).
THEOREM RefusedNotResent == Spec => []RejectedStandsDown
<1>1. MergeInv => RejectedStandsDown
    BY DEF MergeInv
<1> QED  BY MergeInvariant, <1>1, PTL
=============================================================================
