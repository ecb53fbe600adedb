------------------------- MODULE WorkingClaimsProofs -------------------------
(***************************************************************************)
(* For any boxes, agents, lifetimes and bounds, with every box faulty: what *)
(* reads as a claim upstream has a record behind it, as long as nobody had *)
(* to post a second comment.                                               *)
(***************************************************************************)
EXTENDS WorkingClaims, TLAPS, WellFoundedInduction

\* A release that is past its comment, and past the label too.
LetGo(t) == t.op = "release" /\ t.step \in {"detach", "project"}
Detached(t) == t.op = "release" /\ t.step = "project"

\* The comments a record or a call remembers were posted.
Posted ==
    /\ \A h \in Holders : task[h].at <= Len(comments)
    /\ \A h \in Holders : record[h] # None => record[h].comment <= Len(comments)

\* A live lease is of a holder that has a record and is not about to forget it.
LeaseIsKnown ==
    \A i \in Standing : Active(comments[i]) =>
        record[comments[i].by] # None /\ ~LetGo(task[comments[i].by])

\* The label is backed by a record that is not about to be forgotten.
LabelIsBacked ==
    label => \E h \in Holders : record[h] # None /\ ~Detached(task[h])

Known == LeaseIsKnown /\ LabelIsBacked

ClaimInv == TypeOK /\ Posted /\ (OneComment => Known)

-----------------------------------------------------------------------------
\* < on the naturals, as the relation the well-foundedness theorems speak of.
LEMMA Related ==
    ASSUME NEW i \in Nat, NEW j \in Nat, j < i
    PROVE  <<j, i>> \in OpToRel(<, Nat)
BY DEF OpToRel

\* A non-empty set of naturals up to a bound has a greatest element.
LEMMA GreatestExists ==
    ASSUME NEW n \in Nat, NEW S \in SUBSET (0..n), S # {}
    PROVE  \E i \in S : \A j \in S : j <= i
<1> DEFINE T == {n - s : s \in S}
<1>1. T \subseteq Nat /\ T # {}
    <2>1. \A s \in S : n - s \in Nat OBVIOUS
    <2>2. PICK s \in S : TRUE OBVIOUS
    <2>3. n - s \in T BY <2>2
    <2> QED BY <2>1, <2>3
<1>2. PICK t \in T : \A u \in T : ~(<<u, t>> \in OpToRel(<, Nat))
    BY <1>1, NatLessThanWellFounded, WFMin
<1>3. PICK i \in S : t = n - i OBVIOUS
<1>4. ASSUME NEW j \in S PROVE j <= i
    <2>1. n - j \in T /\ n - j \in Nat /\ t \in Nat BY <1>1
    <2>2. ~(n - j < t) BY <1>2, <2>1, Related
    <2> QED BY <1>3, <2>2
<1> QED BY <1>4

\* The search finds a comment exactly when there is one.
LEMMA NewestFacts ==
    ASSUME comments \in Seq(Note \cup {None})
    PROVE  /\ Newest \in 0..Len(comments)
           /\ Newest = 0 <=> Standing = {}
           /\ Newest # 0 => Newest \in Standing
<1>1. Len(comments) \in Nat /\ Standing \in SUBSET (0..Len(comments)) /\ 0 \notin Standing
    BY DEF Standing
<1>2. CASE Standing = {}
    BY <1>1, <1>2 DEF Newest
<1>3. CASE Standing # {}
    <2>1. \E i \in Standing : \A j \in Standing : j <= i BY <1>1, <1>3, GreatestExists
    <2>2. Newest \in Standing BY <1>3, <2>1 DEF Newest
    <2> QED BY <1>1, <1>3, <2>2
<1> QED BY <1>2, <1>3

\* A comment is rewritten.
LEMMA RewriteFacts ==
    ASSUME NEW s \in Seq(Note \cup {None}), NEW i \in 1..Len(s), NEW v \in Note \cup {None}
    PROVE  /\ [s EXCEPT ![i] = v] \in Seq(Note \cup {None})
           /\ Len([s EXCEPT ![i] = v]) = Len(s)
           /\ \A j \in 1..Len(s) : [s EXCEPT ![i] = v][j] = IF j = i THEN v ELSE s[j]
OBVIOUS

\* A comment is posted.
LEMMA PostFacts ==
    ASSUME NEW s \in Seq(Note \cup {None}), NEW v \in Note \cup {None}
    PROVE  /\ Append(s, v) \in Seq(Note \cup {None})
           /\ Len(Append(s, v)) = Len(s) + 1
           /\ \A j \in 1..Len(s) : Append(s, v)[j] = s[j]
           /\ Append(s, v)[Len(s) + 1] = v
OBVIOUS

-----------------------------------------------------------------------------
\* What a step that works on one holder's call starts from.
LEMMA HolderFacts ==
    ASSUME TypeOK, NEW h \in Holders
    PROVE  /\ task \in [Holders -> Task] /\ task[h] \in Task
           /\ record \in [Holders -> Record \cup {None}]
           /\ comments \in Seq(Note \cup {None}) /\ Len(comments) \in Nat
           /\ Len(comments) <= MaxComments /\ MaxComments \in Nat /\ TTL \in Nat /\ TTL > 1
           /\ left \in 0..MaxFaults /\ MaxFaults \in Nat
           /\ Idle \in Task /\ Idle.op = "idle" /\ Idle.step = "idle" /\ Idle.at = 0
           /\ task[h].at \in 0..MaxComments
           /\ task[h].step # "idle" =>
                 /\ task[h] # Idle /\ record[h] # None /\ record[h] \in Record
                 /\ task[h].op \in {"hold", "release"} /\ task[h].ours \in BOOLEAN
<1>1. task[h] \in Task /\ record[h] \in Record \cup {None} BY DEF TypeOK
<1>2. Idle \in Task /\ Idle.op = "idle" /\ Idle.step = "idle" /\ Idle.at = 0 BY DEF Task, Idle
<1>3. task[h].at \in 0..MaxComments BY <1>1, ClaimsAssumption DEF Task, Idle
<1>4. task[h].step # "idle" => task[h] # Idle /\ task[h].op \in {"hold", "release"}
    BY <1>1 DEF Task, Idle
<1>5. task[h].step # "idle" => task[h].ours \in BOOLEAN
    BY <1>1, <1>4 DEF Task, Idle
<1> QED BY <1>1, <1>2, <1>3, <1>4, <1>5, ClaimsAssumption DEF TypeOK

\* A fault is one less.
LEMMA FaultFacts ==
    ASSUME left \in 0..MaxFaults, MaxFaults \in Nat, Fault \/ UNCHANGED left
    PROVE  left' \in 0..MaxFaults
BY DEF Fault

\* A call is answered, and the holder goes on; or it was given up, and the
\* holder is idle.
LEMMA AnsweredFacts ==
    ASSUME TypeOK, NEW h \in Holders, task[h].step # "idle",
           NEW step \in {"attach", "read", "write", "search", "edit", "post", "detach", "project"},
           NEW at \in 0..MaxComments, Answered(h, step, at)
    PROVE  /\ left' \in 0..MaxFaults
           /\ \E t \in Task :
                 /\ task' = [task EXCEPT ![h] = t]
                 /\ t.at \in {0, at}
                 /\ t.step # "idle" => t.op = task[h].op /\ t.step = step
<1>1. /\ task \in [Holders -> Task] /\ task[h] \in Task /\ task[h] # Idle
      /\ left \in 0..MaxFaults /\ MaxFaults \in Nat
      /\ Idle \in Task /\ Idle.step = "idle" /\ Idle.at = 0
    BY HolderFacts
<1>2. left' \in 0..MaxFaults BY <1>1, FaultFacts DEF Answered
<1>3. PICK t : t = [task[h] EXCEPT !.step = step, !.at = at] OBVIOUS
<1>4. t \in Task /\ t.at = at /\ t.op = task[h].op /\ t.step = step
    BY <1>1, <1>3 DEF Task
<1>5. \/ task' = [task EXCEPT ![h] = t]
      \/ task' = [task EXCEPT ![h] = Idle]
    BY <1>1, <1>3 DEF Answered
<1> QED BY <1>1, <1>2, <1>4, <1>5

-----------------------------------------------------------------------------
\* One holder's call moves on: types, and what is remembered.
LEMMA CallTypes ==
    ASSUME ClaimInv, NEW h \in Holders, NEW t \in Task, task' = [task EXCEPT ![h] = t],
           NEW r \in Record \cup {None}, record' = [record EXCEPT ![h] = r],
           t # Idle => r # None,
           comments' \in Seq(Note \cup {None}),
           Len(comments) <= Len(comments'), Len(comments') <= MaxComments,
           t.at <= Len(comments'), r # None => r.comment <= Len(comments'),
           UNCHANGED up, proc' \in [Holders -> {"unborn", "live", "gone"}],
           row' \in [Boxes -> BOOLEAN], pass' \in [Boxes -> Pass], label' \in BOOLEAN,
           owed' \subseteq {"acquire", "release"} \X Holders, left' \in 0..MaxFaults
    PROVE  TypeOK' /\ Posted'
<1>1. /\ task \in [Holders -> Task] /\ record \in [Holders -> Record \cup {None}]
      /\ Len(comments) \in Nat /\ Len(comments') \in Nat
      /\ \A g \in Holders : task[g] # Idle => record[g] # None
      /\ \A g \in Holders : task[g].at <= Len(comments)
      /\ \A g \in Holders : record[g] # None => record[g].comment <= Len(comments)
    BY DEF ClaimInv, TypeOK, Posted
<1>2. \A g \in Holders : task[g].at \in Nat /\ (record[g] # None => record[g].comment \in Nat)
    <2> SUFFICES ASSUME NEW g \in Holders
                 PROVE  task[g].at \in Nat /\ (record[g] # None => record[g].comment \in Nat)
        OBVIOUS
    <2>1. task[g].at \in 0..MaxComments BY HolderFacts DEF ClaimInv
    <2>2. record[g] # None => record[g] \in Record BY <1>1
    <2> QED BY <2>1, <2>2, ClaimsAssumption DEF Record
<1>3. /\ task' \in [Holders -> Task] /\ record' \in [Holders -> Record \cup {None}]
      /\ \A g \in Holders : task'[g] # Idle => record'[g] # None
    BY <1>1
<1>4. Posted'
    <2>1. \A g \in Holders : task'[g].at <= Len(comments') BY <1>1, <1>2
    <2>2. \A g \in Holders : record'[g] # None => record'[g].comment <= Len(comments')
        BY <1>1, <1>2
    <2> QED BY <2>1, <2>2 DEF Posted
<1>5. up' \subseteq Boxes BY DEF ClaimInv, TypeOK
<1>6. TypeOK' BY <1>3, <1>5 DEF TypeOK
<1> QED BY <1>4, <1>6

\* A holder that keeps its record, and whose lease is over before it lets go of
\* it, keeps every claim known: what it attaches it backs itself.
LEMMA CallKnown ==
    ASSUME TypeOK, Known, NEW h \in Holders, NEW t \in Task, task' = [task EXCEPT ![h] = t],
           NEW r \in Record, record' = [record EXCEPT ![h] = r],
           ~Detached(t),
           comments' \in Seq(Note \cup {None}),
           \A j \in Standing' : Active(comments'[j]) =>
              \/ comments'[j].by = h /\ ~LetGo(t)
              \/ /\ comments'[j].by # h /\ j \in Standing /\ Active(comments[j])
                 /\ comments'[j].by = comments[j].by
    PROVE  Known'
<1>1. /\ task \in [Holders -> Task] /\ record \in [Holders -> Record \cup {None}]
      /\ r # None
    BY ClaimsAssumption DEF TypeOK
<1>2. /\ task'[h] = t /\ record'[h] = r
      /\ \A g \in Holders : g # h => task'[g] = task[g] /\ record'[g] = record[g]
    BY <1>1
<1>3. ASSUME NEW j \in Standing', Active(comments'[j])
      PROVE  record'[comments'[j].by] # None /\ ~LetGo(task'[comments'[j].by])
    <2>1. CASE comments'[j].by = h /\ ~LetGo(t)
        BY <1>1, <1>2, <2>1
    <2>2. CASE /\ comments'[j].by # h /\ j \in Standing /\ Active(comments[j])
               /\ comments'[j].by = comments[j].by
        <3>1. PICK g : g = comments[j].by OBVIOUS
        <3>2. comments[j] \in Note BY <2>2 DEF TypeOK, Standing
        <3>3. g \in Holders /\ g # h BY <2>2, <3>1, <3>2 DEF Note
        <3>4. record[g] # None /\ ~LetGo(task[g]) BY <2>2, <3>1 DEF Known, LeaseIsKnown
        <3> QED BY <1>2, <2>2, <3>1, <3>3, <3>4
    <2> QED BY <1>3, <2>1, <2>2
<1>4. LeaseIsKnown' BY <1>3 DEF LeaseIsKnown
<1>5. LabelIsBacked' BY <1>1, <1>2 DEF LabelIsBacked
<1> QED BY <1>4, <1>5 DEF Known

\* A holder that keeps its record goes on.
LEMMA CallStep ==
    ASSUME ClaimInv, NEW h \in Holders, NEW t \in Task, task' = [task EXCEPT ![h] = t],
           NEW r \in Record, record' = [record EXCEPT ![h] = r],
           comments' \in Seq(Note \cup {None}),
           Len(comments) <= Len(comments'), Len(comments') <= MaxComments,
           t.at <= Len(comments'), r.comment <= Len(comments'),
           UNCHANGED up, proc' \in [Holders -> {"unborn", "live", "gone"}],
           row' \in [Boxes -> BOOLEAN], pass' \in [Boxes -> Pass], label' \in BOOLEAN,
           owed' \subseteq {"acquire", "release"} \X Holders, left' \in 0..MaxFaults,
           ~Detached(t),
           OneComment' => \A j \in Standing' : Active(comments'[j]) =>
              \/ comments'[j].by = h /\ ~LetGo(t)
              \/ /\ comments'[j].by # h /\ j \in Standing /\ Active(comments[j])
                 /\ comments'[j].by = comments[j].by
    PROVE  ClaimInv'
<1>1. r # None BY ClaimsAssumption
<1>2. TypeOK' /\ Posted' BY <1>1, CallTypes
<1>3. OneComment' => OneComment
    <2>1. Len(comments) \in Nat /\ Len(comments') \in Nat BY DEF ClaimInv, TypeOK
    <2> QED BY <2>1 DEF OneComment
<1>4. OneComment' => Known' BY <1>3, CallKnown DEF ClaimInv
<1> QED BY <1>2, <1>4 DEF ClaimInv

\* ... and nothing upstream but the label changes: the holder does not let go
\* of its lease, or has none upstream.
LEMMA LocalCall ==
    ASSUME ClaimInv, NEW h \in Holders, NEW t \in Task, task' = [task EXCEPT ![h] = t],
           NEW r \in Record, record' = [record EXCEPT ![h] = r],
           t.at <= Len(comments), r.comment <= Len(comments),
           UNCHANGED <<comments, up>>, proc' \in [Holders -> {"unborn", "live", "gone"}],
           row' \in [Boxes -> BOOLEAN], pass' \in [Boxes -> Pass], label' \in BOOLEAN,
           owed' \subseteq {"acquire", "release"} \X Holders, left' \in 0..MaxFaults,
           ~Detached(t),
           OneComment /\ LetGo(t) => \A j \in Standing : comments[j].by = h => ~Active(comments[j])
    PROVE  ClaimInv'
<1>1. comments' = comments /\ Standing' = Standing BY DEF Standing
<1>2. /\ comments' \in Seq(Note \cup {None}) /\ Len(comments) \in Nat
      /\ Len(comments) <= Len(comments') /\ Len(comments') <= MaxComments
      /\ t.at <= Len(comments') /\ r.comment <= Len(comments')
    BY <1>1 DEF ClaimInv, TypeOK
<1>3. OneComment' = OneComment BY <1>1 DEF OneComment
<1>4. OneComment' => \A j \in Standing' : Active(comments'[j]) =>
              \/ comments'[j].by = h /\ ~LetGo(t)
              \/ /\ comments'[j].by # h /\ j \in Standing /\ Active(comments[j])
                 /\ comments'[j].by = comments[j].by
    BY <1>1, <1>3
<1> QED BY <1>2, <1>4, CallStep

\* What a call's step leaves alone keeps its type.
LEMMA Around ==
    ASSUME ClaimInv
    PROVE  /\ proc \in [Holders -> {"unborn", "live", "gone"}]
           /\ row \in [Boxes -> BOOLEAN] /\ pass \in [Boxes -> Pass] /\ label \in BOOLEAN
           /\ owed \subseteq {"acquire", "release"} \X Holders
           /\ TypeOK /\ left \in 0..MaxFaults
BY DEF ClaimInv, TypeOK

\* What a call remembers was posted.
LEMMA Remembered ==
    ASSUME ClaimInv, NEW h \in Holders
    PROVE  /\ task[h].at <= Len(comments)
           /\ record[h] # None => record[h].comment <= Len(comments)
BY DEF ClaimInv, Posted

\* A lease is written into a comment.
LEMMA WrittenStep ==
    ASSUME ClaimInv, NEW h \in Holders, task[h].step # "idle",
           NEW at \in 1..MaxComments, comments' \in Seq(Note \cup {None}),
           Len(comments) <= Len(comments'), Len(comments') <= MaxComments,
           at <= Len(comments'), comments'[at] = Body(h),
           Answered(h, AfterWrite(h), at),
           UNCHANGED <<label, up, row, pass, proc, record, owed>>
    PROVE  ClaimInv'
<1>1. /\ task \in [Holders -> Task] /\ record \in [Holders -> Record \cup {None}]
      /\ task[h].op \in {"hold", "release"} /\ record[h] \in Record /\ record[h] # None
      /\ Len(comments) \in Nat /\ MaxComments \in Nat
    BY HolderFacts, Around
<1>2. AfterWrite(h) \in {"attach", "read", "write", "search", "edit", "post", "detach", "project"}
    BY DEF AfterWrite
<1>3. at \in 0..MaxComments BY <1>1
<1>4. /\ left' \in 0..MaxFaults
      /\ \E t \in Task :
            /\ task' = [task EXCEPT ![h] = t]
            /\ t.at \in {0, at}
            /\ t.step # "idle" => t.op = task[h].op /\ t.step = AfterWrite(h)
    BY <1>2, <1>3, Around, AnsweredFacts
<1>5. PICK t \in Task :
            /\ task' = [task EXCEPT ![h] = t]
            /\ t.at \in {0, at}
            /\ t.step # "idle" => t.op = task[h].op /\ t.step = AfterWrite(h)
    BY <1>4
<1>6. PICK r \in Record : r = record[h] BY <1>1
<1>7. record' = [record EXCEPT ![h] = r] BY <1>1, <1>6
<1>8. ~Detached(t) /\ (LetGo(t) => task[h].op = "release")
    BY <1>1, <1>5 DEF Detached, LetGo, AfterWrite
<1>9. Len(comments') \in Nat OBVIOUS
<1>10. t.at <= Len(comments') BY <1>1, <1>5, <1>9
<1>11. r.comment <= Len(comments')
    <2>1. r.comment <= Len(comments) BY <1>1, <1>6, Remembered
    <2>2. r.comment \in Nat BY <1>1 DEF Record
    <2> QED BY <1>1, <1>9, <2>1, <2>2
<1>12. ASSUME OneComment', NEW j \in Standing', Active(comments'[j])
       PROVE  comments'[j].by = h /\ ~LetGo(t)
    <2>1. j \in 1..Len(comments') BY DEF Standing
    <2>2. j = at BY <1>9, <1>12, <2>1 DEF OneComment
    <2>3. comments'[j] = Body(h) BY <2>2
    <2>4. ~Body(h).released BY <1>12, <2>3 DEF Active
    <2>5. task[h].op # "release" BY <2>4 DEF Body
    <2> QED BY <1>8, <2>3, <2>5 DEF Body
<1>13. /\ proc' \in [Holders -> {"unborn", "live", "gone"}]
       /\ row' \in [Boxes -> BOOLEAN] /\ pass' \in [Boxes -> Pass] /\ label' \in BOOLEAN
       /\ owed' \subseteq {"acquire", "release"} \X Holders
    BY Around
<1>14. OneComment' => \A j \in Standing' : Active(comments'[j]) =>
              \/ comments'[j].by = h /\ ~LetGo(t)
              \/ /\ comments'[j].by # h /\ j \in Standing /\ Active(comments[j])
                 /\ comments'[j].by = comments[j].by
    BY <1>12
<1>15. left' \in 0..MaxFaults /\ UNCHANGED up BY <1>4
<1> QED BY <1>5, <1>7, <1>8, <1>10, <1>11, <1>13, <1>14, <1>15, CallStep

\* The body a holder writes is a note.
LEMMA BodyIsNote ==
    ASSUME ClaimInv, NEW h \in Holders, task[h].step # "idle"
    PROVE  Body(h) \in Note
<1>1. record[h] \in Record BY HolderFacts, Around
<1> QED BY <1>1 DEF Body, Note, Record

\* The remembered comment is edited, or the one the search found, or a new one
\* is posted.
LEMMA WriteStep ==
    ASSUME ClaimInv, NEW h \in Holders,
           Write(h) \/ Edit(h), task[h].at \in Standing
    PROVE  ClaimInv'
<1>1. /\ task[h].step # "idle" /\ Answered(h, AfterWrite(h), task[h].at)
      /\ comments' = [comments EXCEPT ![task[h].at] = Body(h)]
      /\ UNCHANGED <<label, up, row, pass, proc, record, owed>>
    BY DEF Write, Edit, Busy, local
<1>2. PICK at : at = task[h].at OBVIOUS
<1>3. comments \in Seq(Note \cup {None}) /\ Len(comments) <= MaxComments /\ Len(comments) \in Nat
      /\ MaxComments \in Nat
    BY HolderFacts, Around
<1>4. at \in 1..Len(comments) BY <1>2 DEF Standing
<1>5. Body(h) \in Note \cup {None} BY <1>1, BodyIsNote
<1>6. /\ comments' \in Seq(Note \cup {None}) /\ Len(comments') = Len(comments)
      /\ comments'[at] = Body(h)
    BY <1>1, <1>2, <1>3, <1>4, <1>5, RewriteFacts
<1>7. at \in 1..MaxComments /\ at <= Len(comments') BY <1>3, <1>4, <1>6
<1>8. Len(comments) <= Len(comments') /\ Len(comments') <= MaxComments BY <1>3, <1>6
<1> QED BY <1>1, <1>2, <1>6, <1>7, <1>8, WrittenStep

\* A comment is posted.
LEMMA PostStep ==
    ASSUME ClaimInv, NEW h \in Holders, Post(h)
    PROVE  ClaimInv'
<1>1. /\ task[h].step # "idle" /\ Answered(h, AfterWrite(h), Len(comments'))
      /\ comments' = Append(comments, Body(h)) /\ Len(comments) < MaxComments
      /\ UNCHANGED <<label, up, row, pass, proc, record, owed>>
    BY DEF Post, Busy, local
<1>2. comments \in Seq(Note \cup {None}) /\ Len(comments) \in Nat /\ MaxComments \in Nat
    BY HolderFacts, Around
<1>3. Body(h) \in Note \cup {None} BY <1>1, BodyIsNote
<1>4. PICK at : at = Len(comments) + 1 OBVIOUS
<1>5. /\ comments' \in Seq(Note \cup {None}) /\ Len(comments') = at
      /\ comments'[at] = Body(h)
    BY <1>1, <1>2, <1>3, <1>4, PostFacts
<1>6. at \in 1..MaxComments /\ at <= Len(comments') BY <1>1, <1>2, <1>4, <1>5
<1>7. Len(comments) <= Len(comments') /\ Len(comments') <= MaxComments BY <1>1, <1>2, <1>4, <1>5
<1> QED BY <1>1, <1>5, <1>6, <1>7, WrittenStep

\* A holder that has a record takes one step on, and keeps the record as it is.
LEMMA StepsOn ==
    ASSUME ClaimInv, NEW h \in Holders, task[h].step # "idle",
           NEW t \in Task, task' = [task EXCEPT ![h] = t], t.at <= Len(comments),
           UNCHANGED <<comments, up, row, pass, proc, record, owed>>,
           label' \in BOOLEAN, left' \in 0..MaxFaults,
           ~Detached(t),
           OneComment /\ LetGo(t) => \A j \in Standing : comments[j].by = h => ~Active(comments[j])
    PROVE  ClaimInv'
<1>1. record \in [Holders -> Record \cup {None}] /\ record[h] \in Record /\ record[h] # None
    BY HolderFacts, Around
<1>2. PICK r \in Record : r = record[h] BY <1>1
<1>3. record' = [record EXCEPT ![h] = r] BY <1>1, <1>2
<1>4. r.comment <= Len(comments) BY <1>1, <1>2, Remembered
<1>5. /\ proc' \in [Holders -> {"unborn", "live", "gone"}]
      /\ row' \in [Boxes -> BOOLEAN] /\ pass' \in [Boxes -> Pass]
      /\ owed' \subseteq {"acquire", "release"} \X Holders
    BY Around
<1> QED BY <1>3, <1>4, <1>5, LocalCall

\* The label goes on: the holder that attaches it has a record.
LEMMA AttachStep ==
    ASSUME ClaimInv, NEW h \in Holders, Attach(h)
    PROVE  ClaimInv'
<1>1. /\ task[h].step = "attach" /\ Answered(h, ToWrite(task[h].at), task[h].at)
      /\ UNCHANGED <<comments, up, row, pass, proc, record, owed>>
    BY DEF Attach, Busy, local
<1>2. label' \in BOOLEAN BY Zenon DEF Attach
<1>3. task[h].at \in 0..MaxComments /\ task[h].at <= Len(comments) /\ Len(comments) \in Nat
    BY HolderFacts, Around, Remembered
<1>4. PICK step \in {"search", "write"} : step = ToWrite(task[h].at) BY DEF ToWrite
<1>5. PICK at : at = task[h].at OBVIOUS
<1>6. /\ left' \in 0..MaxFaults
      /\ \E t \in Task :
            /\ task' = [task EXCEPT ![h] = t]
            /\ t.at \in {0, at}
            /\ t.step # "idle" => t.op = task[h].op /\ t.step = step
    BY <1>1, <1>3, <1>4, <1>5, Around, AnsweredFacts
<1>7. PICK t \in Task :
            /\ task' = [task EXCEPT ![h] = t]
            /\ t.at \in {0, at}
            /\ t.step # "idle" => t.op = task[h].op /\ t.step = step
    BY <1>6
<1>8. ~Detached(t) /\ ~LetGo(t) BY <1>4, <1>7 DEF Detached, LetGo
<1>9. t.at <= Len(comments) BY <1>3, <1>5, <1>7
<1> QED BY <1>1, <1>2, <1>6, <1>7, <1>8, <1>9, StepsOn

\* The comment it wanted to write is gone, or it searches for one.
LEMMA SearchStep ==
    ASSUME ClaimInv, NEW h \in Holders,
           Search(h) \/ (task[h].at \notin Standing /\ (Write(h) \/ Edit(h)))
    PROVE  ClaimInv'
<1>1. /\ task[h].step # "idle" /\ UNCHANGED <<label, comments, up, row, pass, proc, record, owed, left>>
    BY DEF Search, Write, Edit, Busy, remote, local
<1>2. /\ task \in [Holders -> Task] /\ task[h] \in Task /\ task[h] # Idle
      /\ task[h].at \in 0..MaxComments /\ task[h].at <= Len(comments) /\ Len(comments) \in Nat
      /\ MaxComments \in Nat /\ Len(comments) <= MaxComments
      /\ Idle \in Task /\ Idle.step = "idle" /\ Idle.at = 0
      /\ comments \in Seq(Note \cup {None})
    BY <1>1, HolderFacts, Around, Remembered
<1>3. label' \in BOOLEAN /\ left' \in 0..MaxFaults BY <1>1, Around
<1>4. PICK t \in Task : /\ task' = [task EXCEPT ![h] = t] /\ t.at <= Len(comments)
                        /\ t.step \in {"idle", "search", "post", "edit"}
    <2>1. CASE Search(h)
        <3>1. PICK at : at = Newest OBVIOUS
        <3>2. at \in 0..Len(comments) BY <1>2, <3>1, NewestFacts
        <3>7. at \in 0..MaxComments /\ at <= Len(comments) BY <1>2, <3>2
        <3>3. PICK step \in {"post", "edit"} : step = IF Newest = 0 THEN "post" ELSE "edit" OBVIOUS
        <3>4. PICK t : t = [task[h] EXCEPT !.step = step, !.at = at] OBVIOUS
        <3>5. t \in Task /\ t.at = at /\ t.step = step BY <1>2, <3>3, <3>4, <3>7 DEF Task
        <3>6. task' = [task EXCEPT ![h] = t] BY <1>2, <2>1, <3>1, <3>3, <3>4 DEF Search
        <3>8. t.at <= Len(comments) /\ t.step \in {"post", "edit"} BY <3>3, <3>5, <3>7
        <3> QED BY <3>5, <3>6, <3>8
    <2>2. CASE task[h].at \notin Standing /\ Write(h)
        <3>1. PICK t : t = [task[h] EXCEPT !.step = "search"] OBVIOUS
        <3>2. t \in Task /\ t.at = task[h].at /\ t.step = "search" BY <1>2, <3>1 DEF Task
        <3>3. task' = [task EXCEPT ![h] = t] BY <1>2, <2>2, <3>1 DEF Write
        <3> QED BY <1>2, <3>2, <3>3
    <2>3. CASE task[h].at \notin Standing /\ Edit(h)
        <3>1. task' = [task EXCEPT ![h] = Idle] BY <2>3 DEF Edit
        <3>2. Idle.at <= Len(comments) BY <1>2
        <3> QED BY <1>2, <3>1, <3>2
    <2> QED BY <2>1, <2>2, <2>3
<1>5. ~Detached(t) /\ ~LetGo(t) BY <1>4 DEF Detached, LetGo
<1> QED BY <1>1, <1>3, <1>4, <1>5, StepsOn

\* A call fails.
LEMMA FailsStep ==
    ASSUME ClaimInv, NEW h \in Holders, CallFails(h)
    PROVE  ClaimInv'
<1>1. /\ task' = [task EXCEPT ![h] = Idle] /\ task[h] # Idle /\ Fault
      /\ UNCHANGED <<label, comments, up, row, pass, proc, record, owed>>
    BY DEF CallFails, remote, local
<1>2. /\ Idle \in Task /\ Idle.step = "idle" /\ Idle.at = 0 /\ Len(comments) \in Nat
      /\ left \in 0..MaxFaults /\ MaxFaults \in Nat /\ task[h] \in Task
    BY HolderFacts, Around
<1>3. task[h].step # "idle" BY <1>1, <1>2 DEF Task
<1>4. left' \in 0..MaxFaults /\ label' \in BOOLEAN BY <1>1, <1>2, FaultFacts, Around
<1>5. PICK t \in Task : t = Idle BY <1>2
<1>6. ~Detached(t) /\ ~LetGo(t) /\ t.at <= Len(comments) BY <1>2, <1>5 DEF Detached, LetGo
<1> QED BY <1>1, <1>3, <1>4, <1>5, <1>6, StepsOn

-----------------------------------------------------------------------------
\* Of one comment, a holder that finds none has no lease upstream, and one that
\* finds another's live lease is not the last to know of the claim.
LEMMA ReadStep ==
    ASSUME ClaimInv, NEW h \in Holders, Read(h)
    PROVE  ClaimInv'
<1>1. /\ task[h].step = "read"
      /\ UNCHANGED <<label, comments, up, row, pass, proc, owed, left>>
    BY DEF Read, Busy, remote, local
<1>2. /\ task \in [Holders -> Task] /\ task[h] \in Task /\ task[h] # Idle
      /\ record \in [Holders -> Record \cup {None}]
      /\ task[h].at \in 0..MaxComments /\ task[h].at <= Len(comments) /\ Len(comments) \in Nat
      /\ MaxComments \in Nat /\ Len(comments) <= MaxComments
      /\ Idle \in Task /\ Idle.step = "idle" /\ Idle.at = 0
      /\ comments \in Seq(Note \cup {None})
    BY <1>1, HolderFacts, Around, Remembered
<1>3. PICK i : i = IF task[h].at # 0 THEN ById(task[h].at) ELSE Newest OBVIOUS
<1>4. /\ i \in 0..Len(comments) /\ (i # 0 => i \in Standing)
      /\ OneComment /\ i = 0 => Standing = {}
    <2>1. CASE task[h].at = 0
        BY <1>2, <1>3, <2>1, NewestFacts
    <2>2. CASE task[h].at # 0
        <3>1. i = ById(task[h].at) BY <1>3, <2>2
        <3>2. i \in 0..Len(comments) /\ (i # 0 => i \in Standing)
            BY <1>2, <3>1 DEF ById, Standing
        <3>3. OneComment /\ i = 0 => Standing = {}
            BY <1>2, <2>2, <3>1 DEF ById, Standing, OneComment
        <3> QED BY <3>2, <3>3
    <2> QED BY <2>1, <2>2
<1>5. label' \in BOOLEAN /\ left' \in 0..MaxFaults BY <1>1, Around
<1>6. CASE ~SupersededBy(h, i)
    <2>1. PICK step \in {"detach", "write"} : step = IF i = 0 THEN "detach" ELSE "write" OBVIOUS
    <2>2. PICK t : t = [task[h] EXCEPT !.step = step, !.at = i] OBVIOUS
    <2>a. i \in 0..MaxComments BY <1>2, <1>4
    <2>3. t \in Task /\ t.at = i /\ t.step = step BY <1>2, <2>1, <2>2, <2>a DEF Task
    <2>4. task' = [task EXCEPT ![h] = t] /\ UNCHANGED record
        BY <1>2, <1>3, <1>6, <2>1, <2>2 DEF Read
    <2>5. ~Detached(t) BY <2>1, <2>3 DEF Detached
    <2>6. LetGo(t) => i = 0 BY <2>1, <2>3 DEF LetGo
    <2>7. OneComment /\ LetGo(t) => \A j \in Standing : comments[j].by = h => ~Active(comments[j])
        BY <1>4, <2>6
    <2>8. t.at <= Len(comments) BY <1>2, <1>4, <2>3
    <2> QED BY <1>1, <1>5, <2>3, <2>4, <2>5, <2>7, <2>8, StepsOn
<1>7. CASE SupersededBy(h, i)
    <2>1. record' = [record EXCEPT ![h] = None] /\ task' = [task EXCEPT ![h] = Idle]
        BY <1>3, <1>7 DEF Read
    <2>2. /\ proc' \in [Holders -> {"unborn", "live", "gone"}]
          /\ row' \in [Boxes -> BOOLEAN] /\ pass' \in [Boxes -> Pass]
          /\ owed' \subseteq {"acquire", "release"} \X Holders
          /\ comments' \in Seq(Note \cup {None}) /\ Len(comments) <= Len(comments')
          /\ Len(comments') <= MaxComments /\ Idle.at <= Len(comments')
        BY <1>1, <1>2, Around
    <2>3. TypeOK' /\ Posted' BY <1>1, <1>2, <1>5, <2>1, <2>2, CallTypes
    <2>4. PICK g : g = comments[i].by OBVIOUS
    <2>5. i \in Standing /\ g # h /\ Active(comments[i]) BY <1>4, <1>7, <2>4 DEF SupersededBy
    <2>6. comments[i] \in Note BY <1>2, <2>5 DEF Standing
    <2>7. g \in Holders BY <2>4, <2>6 DEF Note
    <2>8. ASSUME OneComment PROVE Known'
        <3>1. record[g] # None /\ ~LetGo(task[g])
            BY <2>4, <2>5, <2>8 DEF ClaimInv, Known, LeaseIsKnown
        <3>2. record'[g] # None /\ ~LetGo(task'[g]) BY <1>2, <2>1, <2>5, <2>7, <3>1
        <3>3. Standing' = Standing /\ comments' = comments BY <1>1 DEF Standing
        <3>4. \A j \in Standing : j = i BY <1>2, <2>5, <2>8 DEF Standing, OneComment
        <3>5. LeaseIsKnown' BY <2>4, <3>2, <3>3, <3>4 DEF LeaseIsKnown
        <3>6. LabelIsBacked' BY <2>7, <3>2 DEF LabelIsBacked, LetGo, Detached
        <3> QED BY <3>5, <3>6 DEF Known
    <2>9. OneComment' = OneComment BY <1>1 DEF OneComment
    <2> QED BY <2>3, <2>8, <2>9 DEF ClaimInv
<1> QED BY <1>6, <1>7

\* The label goes off: a release that lets go of it had let go of its lease.
LEMMA DetachStep ==
    ASSUME ClaimInv, NEW h \in Holders, Detach(h)
    PROVE  ClaimInv'
<1>1. /\ task[h].step = "detach" /\ Answered(h, "project", task[h].at)
      /\ UNCHANGED <<comments, up, row, pass, proc, record, owed>>
    BY DEF Detach, Busy, local
<1>2. label' = FALSE /\ label' \in BOOLEAN BY Zenon DEF Detach
<1>3. /\ task \in [Holders -> Task] /\ record \in [Holders -> Record \cup {None}]
      /\ task[h].at \in 0..MaxComments /\ task[h].at <= Len(comments) /\ Len(comments) \in Nat
      /\ record[h] \in Record /\ record[h] # None /\ Len(comments) <= MaxComments
      /\ comments \in Seq(Note \cup {None})
    BY <1>1, HolderFacts, Around, Remembered
<1>4. PICK at : at = task[h].at OBVIOUS
<1>5. /\ left' \in 0..MaxFaults
      /\ \E t \in Task :
            /\ task' = [task EXCEPT ![h] = t]
            /\ t.at \in {0, at}
            /\ t.step # "idle" => t.op = task[h].op /\ t.step = "project"
    BY <1>1, <1>3, <1>4, Around, AnsweredFacts
<1>6. PICK t \in Task :
            /\ task' = [task EXCEPT ![h] = t]
            /\ t.at \in {0, at}
            /\ t.step # "idle" => t.op = task[h].op /\ t.step = "project"
    BY <1>5
<1>7. PICK r \in Record : r = record[h] BY <1>3
<1>8. record' = [record EXCEPT ![h] = r] /\ r # None BY <1>1, <1>3, <1>7
<1>9. r.comment <= Len(comments') /\ t.at <= Len(comments') /\ Len(comments) <= Len(comments')
      /\ Len(comments') <= MaxComments /\ comments' \in Seq(Note \cup {None})
    BY <1>1, <1>3, <1>4, <1>6, <1>7, Remembered
<1>10. /\ proc' \in [Holders -> {"unborn", "live", "gone"}]
       /\ row' \in [Boxes -> BOOLEAN] /\ pass' \in [Boxes -> Pass]
       /\ owed' \subseteq {"acquire", "release"} \X Holders
    BY <1>1, Around
<1>11. TypeOK' /\ Posted'
    BY <1>1, <1>2, <1>5, <1>6, <1>8, <1>9, <1>10, CallTypes
<1>12. LetGo(t) => LetGo(task[h]) BY <1>1, <1>6 DEF LetGo
<1>13. ASSUME OneComment PROVE Known'
    <2>1. LeaseIsKnown BY <1>13 DEF ClaimInv, Known
    <2>2. Standing' = Standing /\ comments' = comments /\ record' = record BY <1>1 DEF Standing
    <2>3. \A g \in Holders : LetGo(task'[g]) => LetGo(task[g]) BY <1>3, <1>6, <1>12
    <2>4. \A j \in Standing : comments[j].by \in Holders BY <1>3 DEF Standing, Note
    <2>5. LeaseIsKnown' BY <2>1, <2>2, <2>3, <2>4 DEF LeaseIsKnown
    <2>6. LabelIsBacked' BY <1>2 DEF LabelIsBacked
    <2> QED BY <2>5, <2>6 DEF Known
<1>14. OneComment' = OneComment BY <1>1 DEF OneComment
<1> QED BY <1>11, <1>13, <1>14 DEF ClaimInv

\* What upstream accepted is recorded: a record is deleted only when another
\* backs the label.
LEMMA ProjectStep ==
    ASSUME ClaimInv, NEW h \in Holders, Project(h)
    PROVE  ClaimInv'
<1>1. /\ task[h].step = "project" /\ task' = [task EXCEPT ![h] = Idle]
      /\ record' = [record EXCEPT ![h] = IF task[h].op = "hold" THEN Kept(h) ELSE None]
      /\ UNCHANGED <<label, comments, up, pass, proc, owed, left>>
    BY DEF Project, Busy, remote
<1>2. /\ task \in [Holders -> Task] /\ record \in [Holders -> Record \cup {None}]
      /\ task[h].op \in {"hold", "release"}
      /\ task[h].at \in 0..MaxComments /\ task[h].at <= Len(comments) /\ Len(comments) \in Nat
      /\ record[h] \in Record /\ record[h] # None /\ Len(comments) <= MaxComments
      /\ comments \in Seq(Note \cup {None})
      /\ Idle \in Task /\ Idle.step = "idle" /\ Idle.at = 0
    BY <1>1, HolderFacts, Around, Remembered
<1>3. row' \in [Boxes -> BOOLEAN]
    <2>1. row \in [Boxes -> BOOLEAN] BY Around
    <2>2. PICK v \in BOOLEAN : v = (task[h].op = "hold") OBVIOUS
    <2>3. row' = [row EXCEPT ![Host[h]] = v] BY <2>2 DEF Project
    <2> QED BY <2>1, <2>3
<1>4. /\ proc' \in [Holders -> {"unborn", "live", "gone"}]
      /\ pass' \in [Boxes -> Pass] /\ label' \in BOOLEAN /\ left' \in 0..MaxFaults
      /\ owed' \subseteq {"acquire", "release"} \X Holders
    BY <1>1, Around
<1>5. CASE task[h].op = "hold"
    <2>1. PICK at : at = task[h].at OBVIOUS
    <2>2. PICK r : r = [record[h] EXCEPT !.applied = TRUE, !.comment = at] OBVIOUS
    <2>3. r \in Record /\ r.comment = at BY <1>2, <2>1, <2>2 DEF Record
    <2>4. record' = [record EXCEPT ![h] = r] BY <1>1, <1>5, <2>1, <2>2 DEF Kept
    <2>5. PICK t \in Task : t = Idle BY <1>2
    <2>6. ~Detached(t) /\ ~LetGo(t) /\ t.at <= Len(comments) BY <1>2, <2>5 DEF Detached, LetGo
    <2>7. r.comment <= Len(comments) BY <1>2, <2>1, <2>3
    <2> QED BY <1>1, <1>3, <1>4, <2>3, <2>4, <2>5, <2>6, <2>7, LocalCall
<1>6. CASE task[h].op = "release"
    <2>1. record' = [record EXCEPT ![h] = None] BY <1>1, <1>6
    <2>2. /\ comments' \in Seq(Note \cup {None}) /\ Len(comments) <= Len(comments')
          /\ Len(comments') <= MaxComments /\ Idle.at <= Len(comments')
        BY <1>1, <1>2
    <2>3. TypeOK' /\ Posted' BY <1>1, <1>2, <1>3, <1>4, <2>1, <2>2, CallTypes
    <2>4. LetGo(task[h]) /\ Detached(task[h]) BY <1>1, <1>6 DEF LetGo, Detached
    <2>5. ~LetGo(Idle) /\ ~Detached(Idle) BY <1>2 DEF LetGo, Detached
    <2>6. ASSUME OneComment PROVE Known'
        <3>1. LeaseIsKnown /\ LabelIsBacked BY <2>6 DEF ClaimInv, Known
        <3>2. Standing' = Standing /\ comments' = comments /\ label' = label BY <1>1 DEF Standing
        <3>3. \A g \in Holders : g # h => task'[g] = task[g] /\ record'[g] = record[g]
            BY <1>1, <1>2, <2>1
        <3>4. ASSUME NEW j \in Standing, Active(comments[j])
              PROVE  record'[comments[j].by] # None /\ ~LetGo(task'[comments[j].by])
            <4>1. comments[j].by \in Holders BY <1>2 DEF Standing, Note
            <4>2. record[comments[j].by] # None /\ ~LetGo(task[comments[j].by])
                BY <3>1, <3>4 DEF LeaseIsKnown
            <4>3. comments[j].by # h BY <2>4, <4>2
            <4> QED BY <3>3, <4>1, <4>2, <4>3
        <3>5. LeaseIsKnown' BY <3>2, <3>4 DEF LeaseIsKnown
        <3>6. ASSUME label PROVE \E g \in Holders : record'[g] # None /\ ~Detached(task'[g])
            <4>1. PICK g \in Holders : record[g] # None /\ ~Detached(task[g])
                BY <3>1, <3>6 DEF LabelIsBacked
            <4>2. g # h BY <2>4, <4>1
            <4> QED BY <3>3, <4>1, <4>2
        <3>7. LabelIsBacked' BY <3>2, <3>6 DEF LabelIsBacked
        <3> QED BY <3>5, <3>7 DEF Known
    <2>7. OneComment' = OneComment BY <1>1 DEF OneComment
    <2> QED BY <2>3, <2>6, <2>7 DEF ClaimInv
<1> QED BY <1>2, <1>5, <1>6

\* Every step of a synchronisation.
LEMMA SyncStep ==
    ASSUME ClaimInv, NEW h \in Holders, Sync(h)
    PROVE  ClaimInv'
BY AttachStep, WriteStep, SearchStep, PostStep, ReadStep, DetachStep, ProjectStep DEF Sync

-----------------------------------------------------------------------------
\* A heartbeat or an acquire begins: the record is there before anything is
\* done upstream.
LEMMA HoldBegins ==
    ASSUME ClaimInv, NEW h \in Holders, NEW r \in Record, r.comment <= Len(comments),
           NEW ours \in BOOLEAN, BeginHold(h, r, ours), ~r.applied \/ task[h] = Idle,
           UNCHANGED <<label, comments, up, row, left>>,
           proc' \in [Holders -> {"unborn", "live", "gone"}], pass' \in [Boxes -> Pass],
           owed' \subseteq {"acquire", "release"} \X Holders
    PROVE  ClaimInv'
<1>1. /\ task \in [Holders -> Task] /\ record \in [Holders -> Record \cup {None}]
      /\ Len(comments) \in Nat /\ MaxComments \in Nat /\ TTL \in Nat
      /\ Idle \in Task /\ Idle.op = "idle" /\ Idle.at = 0
    BY HolderFacts, Around
<1>2. label' \in BOOLEAN /\ row' \in [Boxes -> BOOLEAN] /\ left' \in 0..MaxFaults BY Around
<1>3. CASE NeedsHeartbeat(r)
    <2>1. PICK q : q = Prepared(r) OBVIOUS
    <2>2. q \in Record /\ q.comment = r.comment
        <3>1. CASE r.life > TTL - 1
            BY <2>1, <3>1 DEF Prepared
        <3>2. CASE ~(r.life > TTL - 1)
            <4>1. TTL \in 0..TTL BY <1>1
            <4>2. q = [r EXCEPT !.life = TTL, !.applied = FALSE] BY <2>1, <3>2 DEF Prepared
            <4> QED BY <4>1, <4>2 DEF Record
        <3> QED BY <3>1, <3>2
    <2>3. record' = [record EXCEPT ![h] = q] BY <1>3, <2>1 DEF BeginHold
    <2>4. PICK step \in {"attach", "search", "write"} :
            step = IF StableLabelAttached(h) THEN ToWrite(r.comment) ELSE "attach"
        BY DEF ToWrite
    <2>5. PICK t : t = [op |-> "hold", ours |-> ours, at |-> r.comment, step |-> step] OBVIOUS
    <2>6. r.comment \in 0..MaxComments BY DEF Record
    <2>7. t \in Task /\ t.at = r.comment /\ t.op = "hold" BY <2>4, <2>5, <2>6 DEF Task
    <2>8. task' = [task EXCEPT ![h] = t] BY <1>3, <2>4, <2>5 DEF BeginHold
    <2>9. ~Detached(t) /\ ~LetGo(t) BY <2>7 DEF Detached, LetGo
    <2>10. q.comment <= Len(comments) /\ t.at <= Len(comments) BY <2>2, <2>7
    <2> QED BY <1>2, <2>2, <2>3, <2>7, <2>8, <2>9, <2>10, LocalCall
<1>4. CASE ~NeedsHeartbeat(r)
    <2>1. record' = [record EXCEPT ![h] = r] /\ task' = task BY <1>4 DEF BeginHold
    <2>2. task[h] = Idle BY <1>4 DEF NeedsHeartbeat
    <2>3. PICK t \in Task : t = Idle BY <1>1
    <2>4. task' = [task EXCEPT ![h] = t] BY <1>1, <2>1, <2>2, <2>3
    <2>5. ~Detached(t) /\ ~LetGo(t) /\ t.at <= Len(comments) BY <1>1, <2>3 DEF Detached, LetGo
    <2> QED BY <1>2, <2>1, <2>4, <2>5, LocalCall
<1> QED BY <1>3, <1>4

\* Nothing happens to a claim.
LEMMA Elsewhere ==
    ASSUME ClaimInv, UNCHANGED <<comments, task, record>>, label' \in BOOLEAN, label' => label,
           up' \subseteq Boxes, row' \in [Boxes -> BOOLEAN], pass' \in [Boxes -> Pass],
           proc' \in [Holders -> {"unborn", "live", "gone"}],
           owed' \subseteq {"acquire", "release"} \X Holders, left' \in 0..MaxFaults
    PROVE  ClaimInv'
<1>1. TypeOK' BY DEF ClaimInv, TypeOK
<1>2. Posted' BY DEF ClaimInv, Posted
<1>3. Standing' = Standing BY DEF Standing
<1>4. LeaseIsKnown => LeaseIsKnown' BY <1>3 DEF LeaseIsKnown
<1>5. LabelIsBacked => LabelIsBacked' BY DEF LabelIsBacked
<1>6. OneComment' = OneComment BY DEF OneComment
<1> QED BY <1>1, <1>2, <1>4, <1>5, <1>6 DEF ClaimInv, Known

\* A release begins.
LEMMA ReleaseBegins ==
    ASSUME ClaimInv, NEW h \in Holders, NEW ours \in BOOLEAN, BeginRelease(h, ours),
           UNCHANGED <<label, comments, up, row, proc, record, left>>, pass' \in [Boxes -> Pass],
           owed' \subseteq {"acquire", "release"} \X Holders
    PROVE  ClaimInv'
<1>1. /\ task \in [Holders -> Task] /\ record \in [Holders -> Record \cup {None}]
      /\ MaxComments \in Nat
    BY HolderFacts, Around
<1>2. /\ label' \in BOOLEAN /\ row' \in [Boxes -> BOOLEAN] /\ left' \in 0..MaxFaults
      /\ proc' \in [Holders -> {"unborn", "live", "gone"}]
    BY Around
<1>3. CASE record[h] = None
    <2>1. task' = task BY <1>3 DEF BeginRelease
    <2>2. up' \subseteq Boxes BY DEF ClaimInv, TypeOK
    <2>3. label' => label BY Zenon
    <2> QED BY <1>2, <2>1, <2>2, <2>3, Elsewhere
<1>4. CASE record[h] # None
    <2>1. PICK r \in Record : r = record[h] BY <1>1, <1>4
    <2>2. record' = [record EXCEPT ![h] = r] BY <1>1, <2>1
    <2>3. PICK t : t = [op |-> "release", ours |-> ours, at |-> r.comment, step |-> "read"] OBVIOUS
    <2>4. r.comment \in 0..MaxComments BY DEF Record
    <2>5. t \in Task /\ t.at = r.comment /\ t.step = "read" BY <2>3, <2>4 DEF Task
    <2>6. task' = [task EXCEPT ![h] = t] BY <1>4, <2>1, <2>3 DEF BeginRelease
    <2>7. ~Detached(t) /\ ~LetGo(t) BY <2>5 DEF Detached, LetGo
    <2>8. r.comment <= Len(comments) /\ t.at <= Len(comments) BY <1>4, <2>1, <2>5, Remembered
    <2> QED BY <1>2, <2>2, <2>5, <2>6, <2>7, <2>8, LocalCall
<1> QED BY <1>3, <1>4

\* A record just made.
LEMMA NewRecordFacts ==
    NewRecord \in Record /\ ~NewRecord.applied /\ NewRecord.comment = 0
<1>1. TTL \in 0..TTL /\ 0 \in 0..MaxComments BY ClaimsAssumption
<1>2. NewRecord \in Record /\ NewRecord.comment = 0 BY <1>1 DEF NewRecord, Record
<1>3. NewRecord.applied = FALSE BY DEF NewRecord
<1> QED BY <1>2, <1>3

\* An agent starts.
LEMMA SpawnsStep ==
    ASSUME ClaimInv, NEW h \in Holders, Spawns(h)
    PROVE  ClaimInv'
<1>1. /\ BeginHold(h, NewRecord, FALSE) /\ proc' = [proc EXCEPT ![h] = "live"]
      /\ UNCHANGED <<label, comments, up, row, left, pass, owed>>
    BY DEF Spawns, remote, local
<1>2. /\ proc' \in [Holders -> {"unborn", "live", "gone"}] /\ pass' \in [Boxes -> Pass]
      /\ owed' \subseteq {"acquire", "release"} \X Holders
    BY <1>1, Around
<1>3. Len(comments) \in Nat BY HolderFacts, Around
<1>4. NewRecord.comment <= Len(comments) BY <1>3, NewRecordFacts
<1> QED BY <1>1, <1>2, <1>4, NewRecordFacts, HoldBegins

\* An agent ends.
LEMMA EndsStep ==
    ASSUME ClaimInv, NEW h \in Holders, Ends(h)
    PROVE  ClaimInv'
<1>1. /\ UNCHANGED <<label, comments, up, row, pass, record, task, left>>
      /\ proc' = [proc EXCEPT ![h] = "gone"]
      /\ owed' = owed \/ owed' = owed \cup {<<"release", h>>}
    BY DEF Ends, remote, local
<1>2. /\ label' \in BOOLEAN /\ row' \in [Boxes -> BOOLEAN] /\ pass' \in [Boxes -> Pass]
      /\ proc' \in [Holders -> {"unborn", "live", "gone"}] /\ left' \in 0..MaxFaults
    BY <1>1, Around
<1>3. owed' \subseteq {"acquire", "release"} \X Holders BY <1>1, Around
<1>4. up' \subseteq Boxes BY <1>1 DEF ClaimInv, TypeOK
<1>5. label' => label BY <1>1, Zenon
<1> QED BY <1>1, <1>2, <1>3, <1>4, <1>5, Elsewhere

\* An acquire gets the lock.
LEMMA AcquireStep ==
    ASSUME ClaimInv, NEW h \in Holders, Acquire(h)
    PROVE  ClaimInv'
<1>1. /\ owed' = owed \ {<<"acquire", h>>} /\ task[h] = Idle
      /\ UNCHANGED <<label, comments, up, row, pass, proc, left>>
    BY DEF Acquire, remote, local
<1>2. PICK r : r = IF record[h] = None THEN NewRecord ELSE record[h] OBVIOUS
<1>3. BeginHold(h, r, FALSE) BY <1>2 DEF Acquire
<1>4. record \in [Holders -> Record \cup {None}] /\ Len(comments) \in Nat
    BY HolderFacts, Around
<1>5. r \in Record /\ r.comment <= Len(comments)
    BY <1>2, <1>4, NewRecordFacts, Remembered
<1>6. /\ proc' \in [Holders -> {"unborn", "live", "gone"}] /\ pass' \in [Boxes -> Pass]
      /\ owed' \subseteq {"acquire", "release"} \X Holders
    BY <1>1, Around
<1> QED BY <1>1, <1>3, <1>5, <1>6, HoldBegins

\* A release gets the lock.
LEMMA ReleaseStep ==
    ASSUME ClaimInv, NEW h \in Holders, Release(h)
    PROVE  ClaimInv'
<1>1. /\ owed' = owed \ {<<"release", h>>} /\ BeginRelease(h, FALSE)
      /\ UNCHANGED <<label, comments, up, row, pass, proc, record, left>>
    BY DEF Release, remote, local
<1>2. pass' \in [Boxes -> Pass] /\ owed' \subseteq {"acquire", "release"} \X Holders
    BY <1>1, Around
<1> QED BY <1>1, <1>2, ReleaseBegins

-----------------------------------------------------------------------------
\* The maintenance pass takes the next of its records.
LEMMA PassTakesStep ==
    ASSUME ClaimInv, NEW b \in Boxes, NEW h \in Holders, PassTakes(b, h)
    PROVE  ClaimInv'
<1>1. /\ UNCHANGED <<label, comments, up, row, proc, owed, left>> /\ task[h] = Idle
      /\ pass' = [pass EXCEPT ![b].todo = @ \ {h}, ![b].live = @ \ {h}]
    BY DEF PassTakes, remote
<1>2. pass \in [Boxes -> Pass] /\ pass[b] \in Pass BY Around
<1>3. PICK n : n = [pass[b] EXCEPT !.todo = pass[b].todo \ {h}, !.live = pass[b].live \ {h}]
    OBVIOUS
<1>4. n \in Pass BY <1>2, <1>3 DEF Pass
<1>5. pass' = [pass EXCEPT ![b] = n] BY <1>1, <1>2, <1>3
<1>6. /\ pass' \in [Boxes -> Pass] /\ proc' \in [Holders -> {"unborn", "live", "gone"}]
      /\ owed' \subseteq {"acquire", "release"} \X Holders
    BY <1>1, <1>2, <1>4, <1>5, Around
<1>7. CASE h \notin pass[b].live
    <2>1. BeginRelease(h, TRUE) /\ UNCHANGED record BY <1>7 DEF PassTakes
    <2> QED BY <1>1, <1>6, <2>1, ReleaseBegins
<1>8. CASE h \in pass[b].live /\ record[h] = None
    <2>1. UNCHANGED <<record, task>> BY <1>8 DEF PassTakes
    <2>2. /\ label' \in BOOLEAN /\ row' \in [Boxes -> BOOLEAN] /\ left' \in 0..MaxFaults
        BY <1>1, Around
    <2>3. up' \subseteq Boxes BY <1>1 DEF ClaimInv, TypeOK
    <2>4. label' => label BY <1>1, Zenon
    <2> QED BY <1>1, <1>6, <2>1, <2>2, <2>3, <2>4, Elsewhere
<1>9. CASE h \in pass[b].live /\ record[h] # None
    <2>1. PICK r : r = record[h] OBVIOUS
    <2>2. BeginHold(h, r, TRUE) BY <1>9, <2>1 DEF PassTakes
    <2>3. record \in [Holders -> Record \cup {None}] BY HolderFacts, Around
    <2>4. r \in Record /\ r.comment <= Len(comments) BY <1>9, <2>1, <2>3, Remembered
    <2> QED BY <1>1, <1>6, <2>2, <2>4, HoldBegins
<1> QED BY <1>7, <1>8, <1>9

\* A pass at rest is a pass.
LEMMA RestFacts ==
    ASSUME NEW step \in {"due", "records", "look", "detach", "project", "done"}
    PROVE  Rest(step) \in Pass
BY DEF Rest, Pass

\* A pass moves on, and at most takes the label off: a sweep never writes a
\* lease or a record.
LEMMA PassMoves ==
    ASSUME ClaimInv, NEW b \in Boxes, NEW n \in Pass, pass' = [pass EXCEPT ![b] = n],
           UNCHANGED <<comments, up, proc, record, task, owed>>,
           row' \in [Boxes -> BOOLEAN], label' \in BOOLEAN, label' => label,
           Fault \/ UNCHANGED left
    PROVE  ClaimInv'
<1>1. left \in 0..MaxFaults /\ MaxFaults \in Nat BY ClaimsAssumption, Around
<1>2. left' \in 0..MaxFaults BY <1>1, FaultFacts
<1>3. /\ pass' \in [Boxes -> Pass] /\ proc' \in [Holders -> {"unborn", "live", "gone"}]
      /\ owed' \subseteq {"acquire", "release"} \X Holders
    BY Around
<1>4. up' \subseteq Boxes BY DEF ClaimInv, TypeOK
<1> QED BY <1>2, <1>3, <1>4, Elsewhere

\* A maintenance pass starts.
LEMMA PassStartsStep ==
    ASSUME ClaimInv, NEW b \in Boxes, PassStarts(b)
    PROVE  ClaimInv'
<1>1. PICK n : n = [step |-> "records", todo |-> Recorded(b),
                    live |-> {h \in Recorded(b) : proc[h] = "live"}]
    OBVIOUS
<1>2. n \in Pass BY <1>1 DEF Pass, Recorded, On
<1>3. pass' = [pass EXCEPT ![b] = n] /\ UNCHANGED <<label, comments, up, row, proc, record, task, owed, left>>
    BY <1>1 DEF PassStarts, remote, held
<1>4. row' \in [Boxes -> BOOLEAN] /\ label' \in BOOLEAN BY <1>3, Around
<1>5. label' => label BY <1>3, Zenon
<1> QED BY <1>2, <1>3, <1>4, <1>5, PassMoves

\* The pass is through with its records.
LEMMA PassSweepsStep ==
    ASSUME ClaimInv, NEW b \in Boxes, PassSweeps(b)
    PROVE  ClaimInv'
<1>1. PICK step \in {"look", "done"} :
        step = IF Recorded(b) = {} /\ row[b] THEN "look" ELSE "done"
    OBVIOUS
<1>2. Rest(step) \in Pass BY <1>1, RestFacts
<1>3. pass' = [pass EXCEPT ![b] = Rest(step)]
      /\ UNCHANGED <<label, comments, up, row, proc, record, task, owed, left>>
    BY <1>1 DEF PassSweeps, remote, held
<1>4. row' \in [Boxes -> BOOLEAN] /\ label' \in BOOLEAN BY <1>3, Around
<1>5. label' => label BY <1>3, Zenon
<1> QED BY <1>2, <1>3, <1>4, <1>5, PassMoves

\* A call of the sweep is answered or given up.
LEMMA SweepAnsweredFacts ==
    ASSUME NEW b \in Boxes, NEW step \in {"detach", "project", "done"}, SweepAnswered(b, step)
    PROVE  /\ \E n \in Pass : pass' = [pass EXCEPT ![b] = n]
           /\ Fault \/ UNCHANGED left
<1>1. Rest(step) \in Pass /\ Rest("done") \in Pass BY RestFacts
<1> QED BY <1>1 DEF SweepAnswered

\* The sweep reads the claim.
LEMMA SweepLooksStep ==
    ASSUME ClaimInv, NEW b \in Boxes, SweepLooks(b)
    PROVE  ClaimInv'
<1>1. PICK step \in {"detach", "done"} : step = IF Lapsed(Newest) THEN "detach" ELSE "done"
    OBVIOUS
<1>2. /\ SweepAnswered(b, step)
      /\ UNCHANGED <<label, comments, up, row, proc, record, task, owed>>
    BY <1>1 DEF SweepLooks, remote, held
<1>3. PICK n \in Pass : pass' = [pass EXCEPT ![b] = n] BY <1>2, SweepAnsweredFacts
<1>4. Fault \/ UNCHANGED left BY <1>2, SweepAnsweredFacts
<1>5. row' \in [Boxes -> BOOLEAN] /\ label' \in BOOLEAN BY <1>2, Around
<1>6. label' => label BY <1>2, Zenon
<1> QED BY <1>2, <1>3, <1>4, <1>5, <1>6, PassMoves

\* The sweep takes the label off.
LEMMA SweepDetachesStep ==
    ASSUME ClaimInv, NEW b \in Boxes, SweepDetaches(b)
    PROVE  ClaimInv'
<1>1. /\ SweepAnswered(b, "project")
      /\ UNCHANGED <<comments, up, row, proc, record, task, owed>>
    BY DEF SweepDetaches, held
<1>2. label' = FALSE /\ label' \in BOOLEAN BY Zenon DEF SweepDetaches
<1>3. PICK n \in Pass : pass' = [pass EXCEPT ![b] = n] BY <1>1, SweepAnsweredFacts
<1>4. Fault \/ UNCHANGED left BY <1>1, SweepAnsweredFacts
<1>5. row' \in [Boxes -> BOOLEAN] BY <1>1, Around
<1> QED BY <1>1, <1>2, <1>3, <1>4, <1>5, PassMoves

\* The sweep clears its own row.
LEMMA SweepProjectsStep ==
    ASSUME ClaimInv, NEW b \in Boxes, SweepProjects(b)
    PROVE  ClaimInv'
<1>1. /\ pass' = [pass EXCEPT ![b] = Rest("done")]
      /\ UNCHANGED <<label, comments, up, proc, record, task, owed, left>>
    BY DEF SweepProjects, remote, held
<1>2. Rest("done") \in Pass BY RestFacts
<1>3. row' \in [Boxes -> BOOLEAN]
    <2>1. row \in [Boxes -> BOOLEAN] BY Around
    <2>2. row' = [row EXCEPT ![b] = FALSE] BY DEF SweepProjects
    <2> QED BY <2>1, <2>2, Zenon
<1>4. label' \in BOOLEAN BY <1>1, Around
<1>5. label' => label BY <1>1, Zenon
<1> QED BY <1>1, <1>2, <1>3, <1>4, <1>5, PassMoves

-----------------------------------------------------------------------------
\* The box polls what is upstream.
LEMMA PollStep ==
    ASSUME ClaimInv, NEW b \in Boxes, Poll(b)
    PROVE  ClaimInv'
<1>1. UNCHANGED <<label, comments, up, pass, proc, record, task, owed, left>>
    BY DEF Poll, remote, held
<1>2. row' \in [Boxes -> BOOLEAN]
    <2>1. row \in [Boxes -> BOOLEAN] /\ label \in BOOLEAN BY Around
    <2>2. row' = [row EXCEPT ![b] = label] BY DEF Poll
    <2> QED BY <2>1, <2>2, Zenon
<1>3. /\ label' \in BOOLEAN /\ pass' \in [Boxes -> Pass]
      /\ proc' \in [Holders -> {"unborn", "live", "gone"}]
      /\ owed' \subseteq {"acquire", "release"} \X Holders /\ left' \in 0..MaxFaults
    BY <1>1, Around
<1>4. up' \subseteq Boxes BY <1>1 DEF ClaimInv, TypeOK
<1>5. label' => label BY <1>1, Zenon
<1> QED BY <1>1, <1>2, <1>3, <1>4, <1>5, Elsewhere

\* A daemon comes back.
LEMMA RestartStep ==
    ASSUME ClaimInv, NEW b \in Boxes, Restart(b)
    PROVE  ClaimInv'
<1>1. /\ UNCHANGED <<label, comments, row, proc, record, task, left>>
      /\ up' = up \cup {b} /\ pass' = [pass EXCEPT ![b] = Rest("due")]
      /\ owed' = owed \cup {<<"acquire", h>> : h \in {g \in On(b) : proc[g] = "live"}}
    BY DEF Restart, remote
<1>2. up' \subseteq Boxes BY <1>1 DEF ClaimInv, TypeOK
<1>3. Rest("due") \in Pass BY RestFacts
<1>4. pass' \in [Boxes -> Pass] BY <1>1, <1>3, Around
<1>5. owed' \subseteq {"acquire", "release"} \X Holders BY <1>1, Around DEF On
<1>6. /\ label' \in BOOLEAN /\ row' \in [Boxes -> BOOLEAN]
      /\ proc' \in [Holders -> {"unborn", "live", "gone"}] /\ left' \in 0..MaxFaults
    BY <1>1, Around
<1>7. label' => label BY <1>1, Zenon
<1> QED BY <1>1, <1>2, <1>4, <1>5, <1>6, <1>7, Elsewhere

\* Somebody takes the label off.
LEMMA StripsStep ==
    ASSUME ClaimInv, StripsLabel
    PROVE  ClaimInv'
<1>1. UNCHANGED <<comments, up, row, pass, proc, record, task, owed>> /\ Fault
    BY DEF StripsLabel, local, held
<1>2. label' = FALSE /\ label' \in BOOLEAN BY Zenon DEF StripsLabel
<1>3. left' \in 0..MaxFaults BY <1>1, ClaimsAssumption, Around, FaultFacts
<1>4. /\ row' \in [Boxes -> BOOLEAN] /\ pass' \in [Boxes -> Pass]
      /\ proc' \in [Holders -> {"unborn", "live", "gone"}]
      /\ owed' \subseteq {"acquire", "release"} \X Holders
    BY <1>1, Around
<1>5. up' \subseteq Boxes BY <1>1 DEF ClaimInv, TypeOK
<1> QED BY <1>1, <1>2, <1>3, <1>4, <1>5, Elsewhere

\* A stuttering step.
LEMMA StutterStep ==
    ASSUME ClaimInv, UNCHANGED vars
    PROVE  ClaimInv'
<1>1. UNCHANGED <<label, comments, up, row, pass, proc, record, task, owed, left>> BY DEF vars
<1>2. /\ label' \in BOOLEAN /\ row' \in [Boxes -> BOOLEAN] /\ pass' \in [Boxes -> Pass]
      /\ proc' \in [Holders -> {"unborn", "live", "gone"}]
      /\ owed' \subseteq {"acquire", "release"} \X Holders /\ left' \in 0..MaxFaults
    BY <1>1, Around
<1>3. up' \subseteq Boxes BY <1>1 DEF ClaimInv, TypeOK
<1>4. label' => label BY <1>1, Zenon
<1> QED BY <1>1, <1>2, <1>3, <1>4, Elsewhere

\* Somebody deletes a comment.
LEMMA DeletesStep ==
    ASSUME ClaimInv, NEW i \in 1..MaxComments, DeletesComment(i)
    PROVE  ClaimInv'
<1>1. /\ i \in Standing /\ comments' = [comments EXCEPT ![i] = None] /\ Fault
      /\ UNCHANGED <<label, up, row, pass, proc, record, task, owed>>
    BY DEF DeletesComment, local, held
<1>2. comments \in Seq(Note \cup {None}) /\ Len(comments) \in Nat /\ Len(comments) <= MaxComments
    BY DEF ClaimInv, TypeOK
<1>3. i \in 1..Len(comments) BY <1>1 DEF Standing
<1>4. /\ comments' \in Seq(Note \cup {None}) /\ Len(comments') = Len(comments)
      /\ \A j \in 1..Len(comments) : comments'[j] = IF j = i THEN None ELSE comments[j]
    BY <1>1, <1>2, <1>3, RewriteFacts
<1>5. left' \in 0..MaxFaults BY <1>1, ClaimsAssumption, Around, FaultFacts
<1>6. TypeOK' BY <1>1, <1>2, <1>4, <1>5 DEF ClaimInv, TypeOK
<1>7. Posted' BY <1>1, <1>4 DEF ClaimInv, Posted
<1>8. \A j \in Standing' : j \in Standing /\ comments'[j] = comments[j]
    BY <1>4 DEF Standing
<1>9. LeaseIsKnown => LeaseIsKnown' BY <1>1, <1>8 DEF LeaseIsKnown
<1>10. LabelIsBacked => LabelIsBacked' BY <1>1 DEF LabelIsBacked
<1>11. OneComment' = OneComment BY <1>4 DEF OneComment
<1> QED BY <1>6, <1>7, <1>9, <1>10, <1>11 DEF ClaimInv, Known

\* A daemon stops: what its calls were at is lost, and no record is.
LEMMA CrashStep ==
    ASSUME ClaimInv, NEW b \in Boxes, Crash(b)
    PROVE  ClaimInv'
<1>1. /\ up' = up \ {b} /\ pass' = [pass EXCEPT ![b] = Rest("done")] /\ Fault
      /\ task' = [h \in Holders |-> IF h \in On(b) THEN Idle ELSE task[h]]
      /\ owed' = {o \in owed : o[2] \notin On(b)}
      /\ UNCHANGED <<label, comments, row, proc, record>>
    BY DEF Crash, remote
<1>2. /\ Idle \in Task /\ Idle.op = "idle" /\ Idle.at = 0 BY DEF Task, Idle
<1>3. comments \in Seq(Note \cup {None}) /\ Len(comments) \in Nat /\ task \in [Holders -> Task]
    BY DEF ClaimInv, TypeOK
<1>4. task' \in [Holders -> Task] /\ \A h \in Holders : task'[h] \in {Idle, task[h]}
    BY <1>1, <1>2, <1>3
<1>5. left' \in 0..MaxFaults BY <1>1, ClaimsAssumption, Around, FaultFacts
<1>6. Rest("done") \in Pass BY RestFacts
<1>7. pass' \in [Boxes -> Pass] BY <1>1, <1>6, Around
<1>8. up' \subseteq Boxes /\ owed' \subseteq {"acquire", "release"} \X Holders
    BY <1>1 DEF ClaimInv, TypeOK
<1>9. \A h \in Holders : task'[h] # Idle => record'[h] # None
    BY <1>1, <1>4 DEF ClaimInv, TypeOK
<1>10. TypeOK' BY <1>1, <1>4, <1>5, <1>7, <1>8, <1>9 DEF ClaimInv, TypeOK
<1>11. Posted'
    <2>1. \A h \in Holders : task[h].at <= Len(comments) BY DEF ClaimInv, Posted
    <2>2. \A h \in Holders : task'[h].at <= Len(comments') BY <1>1, <1>2, <1>3, <1>4, <2>1
    <2> QED BY <1>1, <2>2 DEF ClaimInv, Posted
<1>12. \A h \in Holders : /\ LetGo(task'[h]) => LetGo(task[h])
                          /\ Detached(task'[h]) => Detached(task[h])
    BY <1>2, <1>4 DEF LetGo, Detached
<1>13. Standing' = Standing BY <1>1 DEF Standing
<1>14. \A j \in Standing : comments[j].by \in Holders BY <1>3 DEF Standing, Note
<1>15. LeaseIsKnown => LeaseIsKnown' BY <1>1, <1>12, <1>13, <1>14 DEF LeaseIsKnown
<1>16. LabelIsBacked => LabelIsBacked' BY <1>1, <1>12 DEF LabelIsBacked
<1>17. OneComment' = OneComment BY <1>1 DEF OneComment
<1> QED BY <1>10, <1>11, <1>15, <1>16, <1>17 DEF ClaimInv, Known

-----------------------------------------------------------------------------
\* A lifetime runs down to nothing.
LEMMA SoonerFacts ==
    ASSUME NEW n \in 0..TTL
    PROVE  Sooner(n) \in 0..TTL /\ Sooner(n) <= n
BY ClaimsAssumption DEF Sooner

\* A lease grows older: it is the same holder's, and none comes to life.
LEMMA OlderNote ==
    ASSUME NEW n \in Note, NEW q, q = [n EXCEPT !.life = Sooner(n.life)]
    PROVE  q \in Note /\ q.by = n.by /\ (Active(q) => Active(n))
<1>1. n.life \in 0..TTL /\ n.by \in Holders BY DEF Note
<1>2. PICK l : l = Sooner(n.life) OBVIOUS
<1>3. l \in 0..TTL /\ l <= n.life BY <1>1, <1>2, SoonerFacts
<1>4. q = [n EXCEPT !.life = l] BY <1>2
<1>5. q \in Note /\ q.by = n.by /\ q.life = l /\ q.released = n.released
    BY <1>3, <1>4 DEF Note
<1>6. l > 0 => n.life > 0 BY <1>1, <1>3, ClaimsAssumption
<1> QED BY <1>5, <1>6 DEF Active

\* A record grows older.
LEMMA OlderRecord ==
    ASSUME NEW r \in Record, NEW q, q = [r EXCEPT !.life = Sooner(r.life)]
    PROVE  q \in Record /\ q.comment = r.comment
<1>1. r.life \in 0..TTL BY DEF Record
<1>2. PICK l : l = Sooner(r.life) OBVIOUS
<1>3. l \in 0..TTL BY <1>1, <1>2, SoonerFacts
<1>4. q = [r EXCEPT !.life = l] BY <1>2
<1> QED BY <1>3, <1>4 DEF Record

\* The clock moves on.
LEMMA TickStep ==
    ASSUME ClaimInv, Tick
    PROVE  ClaimInv'
<1>1. /\ UNCHANGED <<label, up, row, proc, task, owed, left>>
      /\ record' = [h \in Holders |-> IF record[h] = None THEN None
                        ELSE [record[h] EXCEPT !.life = Sooner(record[h].life)]]
      /\ comments' = [i \in 1..Len(comments) |-> IF comments[i] = None THEN None
                        ELSE [comments[i] EXCEPT !.life = Sooner(comments[i].life)]]
      /\ pass' = [b \in Boxes |-> IF b \in up THEN Rest("due") ELSE pass[b]]
    BY DEF Tick
<1>2. /\ comments \in Seq(Note \cup {None}) /\ Len(comments) \in Nat
      /\ record \in [Holders -> Record \cup {None}] /\ pass \in [Boxes -> Pass]
    BY DEF ClaimInv, TypeOK
<1>3. None \notin Note /\ None \notin Record BY ClaimsAssumption
<1>4. ASSUME NEW h \in Holders
      PROVE  /\ record'[h] \in Record \cup {None}
             /\ record'[h] # None <=> record[h] # None
             /\ record'[h] # None => record'[h].comment = record[h].comment
    <2>1. CASE record[h] = None
        BY <1>1, <2>1
    <2>2. CASE record[h] # None
        <3>1. record[h] \in Record BY <1>2, <2>2
        <3>2. record'[h] = [record[h] EXCEPT !.life = Sooner(record[h].life)] BY <1>1, <2>2
        <3>3. record'[h] \in Record /\ record'[h].comment = record[h].comment
            BY <3>1, <3>2, OlderRecord
        <3> QED BY <1>3, <2>2, <3>3
    <2> QED BY <2>1, <2>2
<1>5. ASSUME NEW i \in 1..Len(comments)
      PROVE  /\ comments'[i] \in Note \cup {None}
             /\ comments'[i] # None =>
                   /\ comments[i] # None /\ comments'[i].by = comments[i].by
                   /\ Active(comments'[i]) => Active(comments[i])
    <2>1. CASE comments[i] = None
        BY <1>1, <2>1
    <2>2. CASE comments[i] # None
        <3>1. comments[i] \in Note BY <1>2, <2>2
        <3>2. comments'[i] = [comments[i] EXCEPT !.life = Sooner(comments[i].life)]
            BY <1>1, <2>2
        <3>3. /\ comments'[i] \in Note /\ comments'[i].by = comments[i].by
              /\ Active(comments'[i]) => Active(comments[i])
            BY <3>1, <3>2, OlderNote
        <3> QED BY <2>2, <3>3
    <2> QED BY <2>1, <2>2
<1>6. comments' \in Seq(Note \cup {None}) /\ Len(comments') = Len(comments)
    <2>1. \A i \in 1..Len(comments) : comments'[i] \in Note \cup {None} BY <1>5
    <2>2. DOMAIN comments' = 1..Len(comments) BY <1>1
    <2>3. comments' = [i \in 1..Len(comments) |-> comments'[i]] BY <1>1
    <2>4. comments' \in [1..Len(comments) -> Note \cup {None}] BY <2>1, <2>3
    <2> QED BY <1>2, <2>2, <2>4
<1>7. record' \in [Holders -> Record \cup {None}]
    <2>1. record' = [h \in Holders |-> record'[h]] BY <1>1
    <2> QED BY <1>4, <2>1
<1>8. pass' \in [Boxes -> Pass]
    <2>1. Rest("due") \in Pass BY RestFacts
    <2> QED BY <1>1, <1>2, <2>1
<1>9. TypeOK'
    <2>1. \A h \in Holders : task'[h] # Idle => record'[h] # None
        BY <1>1, <1>4 DEF ClaimInv, TypeOK
    <2> QED BY <1>1, <1>6, <1>7, <1>8, <2>1 DEF ClaimInv, TypeOK
<1>10. Posted' BY <1>1, <1>4, <1>6 DEF ClaimInv, Posted
<1>11. \A j \in Standing' :
          /\ j \in Standing /\ comments'[j].by = comments[j].by
          /\ Active(comments'[j]) => Active(comments[j])
    BY <1>5, <1>6 DEF Standing
<1>12. \A j \in Standing : comments[j].by \in Holders BY <1>2 DEF Standing, Note
<1>13. LeaseIsKnown => LeaseIsKnown' BY <1>1, <1>4, <1>11, <1>12 DEF LeaseIsKnown
<1>14. LabelIsBacked => LabelIsBacked' BY <1>1, <1>4 DEF LabelIsBacked
<1>15. OneComment' = OneComment BY <1>6 DEF OneComment
<1> QED BY <1>9, <1>10, <1>13, <1>14, <1>15 DEF ClaimInv, Known

-----------------------------------------------------------------------------
\* The invariant holds when no box has done anything.
LEMMA InitHolds == Init => ClaimInv
<1> SUFFICES ASSUME Init PROVE ClaimInv OBVIOUS
<1>1. /\ comments = <<>> /\ up = Boxes /\ owed = {} /\ left = MaxFaults
      /\ pass = [b \in Boxes |-> Rest("due")] /\ proc = [h \in Holders |-> "unborn"]
      /\ record = [h \in Holders |-> None] /\ task = [h \in Holders |-> Idle]
    BY DEF Init
<1>2. label = FALSE /\ label \in BOOLEAN BY Zenon DEF Init
<1>3. row \in [Boxes -> BOOLEAN] BY DEF Init
<1>4. Idle \in Task /\ Idle.at = 0 BY DEF Task, Idle
<1>5. Rest("due") \in Pass BY RestFacts
<1>6. /\ comments \in Seq(Note \cup {None}) /\ Len(comments) = 0 /\ Len(comments) <= MaxComments
      /\ left \in 0..MaxFaults
    BY <1>1, ClaimsAssumption
<1>7. TypeOK BY <1>1, <1>2, <1>3, <1>4, <1>5, <1>6 DEF TypeOK
<1>8. Posted BY <1>1, <1>4, <1>6 DEF Posted
<1>9. Standing = {} BY <1>6 DEF Standing
<1>10. LeaseIsKnown BY <1>9 DEF LeaseIsKnown
<1>11. LabelIsBacked BY <1>2 DEF LabelIsBacked
<1> QED BY <1>7, <1>8, <1>10, <1>11 DEF ClaimInv, Known

\* Every step keeps the invariant.
LEMMA StepKeeps == ClaimInv /\ [Next]_vars => ClaimInv'
<1> SUFFICES ASSUME ClaimInv, [Next]_vars PROVE ClaimInv' OBVIOUS
<1>1. CASE UNCHANGED vars BY <1>1, StutterStep
<1>2. CASE Progress
    <2>1. CASE \E h \in Holders : Sync(h) \/ Acquire(h) \/ Release(h)
        BY <2>1, SyncStep, AcquireStep, ReleaseStep
    <2>2. CASE \E b \in Boxes :
                  \/ PassStarts(b) \/ PassSweeps(b) \/ Poll(b)
                  \/ SweepLooks(b) \/ SweepDetaches(b) \/ SweepProjects(b)
        BY <2>2, PassStartsStep, PassSweepsStep, PollStep, SweepLooksStep, SweepDetachesStep,
           SweepProjectsStep
    <2>3. CASE \E b \in Boxes : \E h \in On(b) : PassTakes(b, h)
        <3>1. PICK b \in Boxes, h \in Holders : PassTakes(b, h) BY <2>3 DEF On
        <3> QED BY <3>1, PassTakesStep
    <2>4. CASE Tick BY <2>4, TickStep
    <2> QED BY <1>2, <2>1, <2>2, <2>3, <2>4 DEF Progress
<1>3. CASE \E h \in Holders : Spawns(h) \/ Ends(h) \/ CallFails(h)
    BY <1>3, SpawnsStep, EndsStep, FailsStep
<1>4. CASE \E b \in Boxes : Crash(b) \/ Restart(b)
    BY <1>4, CrashStep, RestartStep
<1>5. CASE StripsLabel BY <1>5, StripsStep
<1>6. CASE \E i \in 1..MaxComments : DeletesComment(i) BY <1>6, DeletesStep
<1> QED BY <1>1, <1>2, <1>3, <1>4, <1>5, <1>6 DEF Next

\* The inductive invariant holds in every reachable state: whoever lets go of
\* a claim upstream has first seen to it that nothing there still counts on
\* its record (release, heartbeat_record).
THEOREM ClaimsInvariant == Spec => []ClaimInv
<1>1. Init => ClaimInv BY InitHolds
<1>2. ClaimInv /\ [Next]_vars => ClaimInv' BY StepKeeps
<1> QED BY <1>1, <1>2, PTL DEF Spec

\* The types of TypeOK, and that a call runs only for a holder with a record,
\* so that no step reads a record that is gone.
THEOREM ClaimsTypeCorrect == Spec => []TypeOK
<1>1. ClaimInv => TypeOK BY DEF ClaimInv
<1> QED BY <1>1, ClaimsInvariant, PTL

\* While nobody had to post a second comment, no order of acquires, releases,
\* failing calls, crashes and meddling upstream leaves a live lease its own box
\* has forgotten, or a label that no box has a record for (release,
\* heartbeat_record; release_working_claim, apply_working_claim).
THEOREM ClaimsAreKnown == Spec => []ClaimHasRecord
<1>1. ClaimInv => ClaimHasRecord
    BY DEF ClaimInv, Known, LeaseIsKnown, LabelIsBacked, ClaimHasRecord
<1> QED BY <1>1, ClaimsInvariant, PTL
=============================================================================
