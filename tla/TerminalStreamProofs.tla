------------------------- MODULE TerminalStreamProofs -------------------------
(***************************************************************************)
(* Proofs that the safety properties of TerminalStream hold for any number *)
(* of chunks, any capacities and any number of faults.                     *)
(*   - The grid is whole because the client feeds the next chunk only, or  *)
(*     a replay of all of them.                                            *)
(*   - A latch has its answer because what a request turns into, step by   *)
(*     step, is an event that releases or re-arms it.                      *)
(*   - Replays are seamless because, without faults, each chunk on its way *)
(*     joins what is ahead of it: the grid, the channel, the forwarder's   *)
(*     queue and debt, the ingress, the bus.                               *)
(*   - A quiet pane is current because, short of the five races, the last  *)
(*     event of the way down speaks for every chunk the pump has handled,  *)
(*     and the client ends up showing that chunk or asking for it.         *)
(***************************************************************************)
EXTENDS TerminalStream, TLAPS

\* How often the bus may still outrun the connection bounds the generations.
LagsAreCounted == lag.gen + lag.left + (IF lag.lagged THEN 1 ELSE 0) <= MaxLags

\* The ring is ahead of the pump and of what is on its way there.
RingIsAhead == pump.seq <= ring /\ pump.heard <= ring /\ \A i \in DOMAIN live : live[i] <= ring

\* Detached tasks build answers.
Only(q, kinds) == \A i \in DOMAIN q : q[i].kind \in kinds
ReadyAnswers == Only(ready, Answers)

\* A queue holds the chunk x or one after it; every chunk it holds follows the
\* chunk b or one before it in the queue; its sequences rise from lo to hi.
Has(q, x) == \E i \in DOMAIN q : q[i].seq >= x
Joins(q, b) ==
    \A i \in DOMAIN q :
        q[i].kind = "Output" =>
            q[i].seq <= b + 1 \/ \E j \in DOMAIN q : j < i /\ q[i].seq <= q[j].seq + 1
Rises(q, lo, hi) ==
    \A i \in DOMAIN q :
        /\ lo <= q[i].seq /\ q[i].seq <= hi
        /\ \A j \in DOMAIN q : j < i => q[j].seq <= q[i].seq

\* The client gets as far as x by what the forwarder has let pass; by what it
\* has let pass or owes; by that and the ingress.
Reach(x) == pane.last >= x \/ Has(chan, x) \/ Has(fwd.pending, x)
Owed(x) == Reach(x) \/ fwd.debt >= x
Routed(x) == Owed(x) \/ Has(raw, x)

\* Without faults nobody asks, recovers or gives up, ...
Calm ==
    /\ ~pane.asking /\ asks = <<>> /\ ready = <<>>
    /\ lag.building = {} /\ ~lag.lagged /\ ~pump.announced
    /\ Only(bus, {"Output", "Resync"}) /\ Only(raw, {"Output", "Resync"})
    /\ Only(chan, {"Output", "Resync"}) /\ Only(fwd.pending, {"Resync"})
\* ... what is in the ingress and on the bus joins what is ahead of it, in
\* order and past the debt, and together they get as far as the pump, ...
Upstream ==
    /\ \E b \in Nat : Owed(b) /\ Joins(raw, b)
    /\ \E c \in Nat : Routed(c) /\ Joins(bus, c)
    /\ Routed(pump.seq) \/ Has(bus, pump.seq)
    /\ \E m \in Nat : fwd.debt <= m /\ m <= pump.seq
                      /\ Rises(raw, fwd.debt, m) /\ Rises(bus, m, pump.seq)
\* ... and so does what is in the channel; what the forwarder calls covered is.
Flowing == Calm /\ Upstream /\ Joins(chan, pane.last) /\ Reach(fwd.covered)

StaysJoined == Healthy => ~Desynced(pane) /\ (up => Flowing)

StreamInv ==
    /\ TypeOK /\ LagsAreCounted /\ RingIsAhead /\ ReadyAnswers
    /\ GridIsWhole /\ LatchHasAnswer /\ StaysJoined

-----------------------------------------------------------------------------
(* Queues                                                                  *)

\* The bounds are numbers, and None is no sequence.
LEMMA StreamBounds ==
    /\ MaxSeq \in Nat /\ PendMax \in Nat /\ MaxLost \in Nat /\ MaxFaults \in Nat
    /\ MaxLags \in Nat /\ Reserve \in Nat /\ MaxAsks \in Nat /\ None \notin Nat
<1>1. {MaxSeq, PendMax, MaxLost, MaxFaults, MaxLags, Reserve} \subseteq Nat
    BY StreamAssumption
<1>2. {BusCap, RawCap, ChanCap, MaxAsks} \subseteq Nat \ {0} /\ None \notin Nat
    BY StreamAssumption
<1>3. MaxSeq \in Nat /\ PendMax \in Nat /\ MaxLost \in Nat /\ MaxFaults \in Nat
      /\ MaxLags \in Nat /\ Reserve \in Nat
    BY <1>1, Zenon
<1>4. MaxAsks \in Nat
    BY <1>2, Zenon
<1> QED  BY <1>2, <1>3, <1>4

\* Events carry sequences that exist.
LEMMA EventSeq ==
    ASSUME NEW e \in Events
    PROVE  e.seq \in Nat /\ e.seq <= MaxSeq /\ e.seq >= 0
BY StreamBounds DEF Events

\* A queue at its ends.
LEMMA QueueEnds ==
    ASSUME NEW S, NEW q \in Seq(S), NEW e \in S
    PROVE  /\ Append(q, e) \in Seq(S) /\ Len(q) \in Nat
           /\ DOMAIN q = 1 .. Len(q)
           /\ DOMAIN Append(q, e) = 1 .. Len(q) + 1
           /\ \A i \in 1 .. Len(q) : Append(q, e)[i] = q[i] /\ q[i] \in S
           /\ Append(q, e)[Len(q) + 1] = e
           /\ q # <<>> => /\ Head(q) = q[1] /\ Head(q) \in S /\ 1 \in DOMAIN q
                          /\ Tail(q) \in Seq(S) /\ Len(q) >= 1
                          /\ DOMAIN Tail(q) = 1 .. Len(q) - 1
                          /\ \A i \in 1 .. Len(q) - 1 : Tail(q)[i] = q[i + 1]
OBVIOUS

\* A queue after a push.
LEMMA QueuePush ==
    ASSUME NEW S, NEW q \in Seq(S), NEW e \in S
    PROVE  Append(q, e) \in Seq(S)
OBVIOUS

\* The same of a queue that only loses its head.
LEMMA QueuePop ==
    ASSUME NEW S, NEW q \in Seq(S), q # <<>>
    PROVE  /\ Head(q) = q[1] /\ Head(q) \in S /\ 1 \in DOMAIN q
           /\ Tail(q) \in Seq(S)
           /\ \A i \in DOMAIN Tail(q) : i + 1 \in DOMAIN q /\ Tail(q)[i] = q[i + 1]
OBVIOUS

\* A queue without one of its elements.
LEMMA QueueRemove ==
    ASSUME NEW S, NEW q \in Seq(S), NEW i \in DOMAIN q
    PROVE  /\ RemoveAt(q, i) \in Seq(S)
           /\ \A j \in DOMAIN RemoveAt(q, i) : \E k \in DOMAIN q : RemoveAt(q, i)[j] = q[k]
<1>1. i \in 1 .. Len(q) /\ Len(q) \in Nat
    OBVIOUS
<1>2. PICK a : a = SubSeq(q, 1, i - 1)
    OBVIOUS
<1>3. PICK b : b = SubSeq(q, i + 1, Len(q))
    OBVIOUS
<1>4. a \in Seq(S) /\ \A j \in DOMAIN a : a[j] = q[j] /\ j \in DOMAIN q
    BY <1>1, <1>2
<1>5. b \in Seq(S) /\ \A j \in DOMAIN b : b[j] = q[i + j] /\ i + j \in DOMAIN q
    BY <1>1, <1>3
<1>6. RemoveAt(q, i) = a \o b
    BY <1>2, <1>3 DEF RemoveAt
<1>7. /\ a \o b \in Seq(S)
      /\ \A j \in DOMAIN (a \o b) : (j \in DOMAIN a /\ (a \o b)[j] = a[j])
                                    \/ (j - Len(a) \in DOMAIN b /\ (a \o b)[j] = b[j - Len(a)])
    BY <1>4, <1>5
<1> QED  BY <1>4, <1>5, <1>6, <1>7

\* What a queue carries after a push and after a pop.
LEMMA CarriesEnds ==
    ASSUME NEW q \in Seq(Events), NEW e \in Events, NEW kinds
    PROVE  /\ Carries(Append(q, e), kinds) <=> Carries(q, kinds) \/ e.kind \in kinds
           /\ q # <<>> => (Carries(q, kinds) <=> Carries(Tail(q), kinds) \/ Head(q).kind \in kinds)
<1>1. Carries(Append(q, e), kinds) <=> Carries(q, kinds) \/ e.kind \in kinds
    BY QueueEnds DEF Carries
<1>2. ASSUME q # <<>>
      PROVE  Carries(q, kinds) <=> Carries(Tail(q), kinds) \/ Head(q).kind \in kinds
  <2>1. ASSUME NEW i \in DOMAIN q, q[i].kind \in kinds
        PROVE  Carries(Tail(q), kinds) \/ Head(q).kind \in kinds
    <3>1. CASE i = 1
        BY <1>2, <2>1, <3>1, QueueEnds
    <3>2. CASE i # 1
      <4>1. i - 1 \in DOMAIN Tail(q) /\ Tail(q)[i - 1] = q[i]
          BY <1>2, <3>2, QueueEnds
      <4> QED  BY <2>1, <4>1 DEF Carries
    <3> QED  BY <3>1, <3>2
  <2>2. ASSUME NEW i \in DOMAIN Tail(q), Tail(q)[i].kind \in kinds
        PROVE  Carries(q, kinds)
    <3>1. i + 1 \in DOMAIN q /\ q[i + 1] = Tail(q)[i]
        BY <1>2, QueueEnds
    <3> QED  BY <2>2, <3>1 DEF Carries
  <2>3. Head(q).kind \in kinds => Carries(q, kinds)
      BY <1>2, QueueEnds DEF Carries
  <2> QED  BY <2>1, <2>2, <2>3 DEF Carries
<1> QED  BY <1>1, <1>2

\* The kinds a queue is restricted to.
LEMMA OnlyEnds ==
    ASSUME NEW q \in Seq(Events), NEW e \in Events, NEW kinds, Only(q, kinds)
    PROVE  /\ e.kind \in kinds => Only(Append(q, e), kinds)
           /\ q # <<>> => Only(Tail(q), kinds) /\ Head(q).kind \in kinds
<1>1. e.kind \in kinds => Only(Append(q, e), kinds)
    BY QueueEnds DEF Only
<1>2. ASSUME q # <<>>
      PROVE  Only(Tail(q), kinds) /\ Head(q).kind \in kinds
    BY <1>2, QueueEnds DEF Only
<1> QED  BY <1>1, <1>2

\* How far a queue gets.
LEMMA HasEnds ==
    ASSUME NEW q \in Seq(Events), NEW e \in Events, NEW x \in Nat
    PROVE  /\ Has(Append(q, e), x) <=> Has(q, x) \/ e.seq >= x
           /\ q # <<>> => (Has(q, x) <=> Has(Tail(q), x) \/ Head(q).seq >= x)
           /\ ~Has(<<>>, x)
           /\ \A y \in Nat : y <= x /\ Has(q, x) => Has(q, y)
<1>1. Has(Append(q, e), x) <=> Has(q, x) \/ e.seq >= x
    BY QueueEnds DEF Has
<1>2. ASSUME q # <<>>
      PROVE  Has(q, x) <=> Has(Tail(q), x) \/ Head(q).seq >= x
  <2>1. ASSUME NEW i \in DOMAIN q, q[i].seq >= x
        PROVE  Has(Tail(q), x) \/ Head(q).seq >= x
    <3>1. CASE i = 1
        BY <1>2, <2>1, <3>1, QueueEnds
    <3>2. CASE i # 1
      <4>1. i - 1 \in DOMAIN Tail(q) /\ Tail(q)[i - 1] = q[i]
          BY <1>2, <3>2, QueueEnds
      <4> QED  BY <2>1, <4>1 DEF Has
    <3> QED  BY <3>1, <3>2
  <2>2. ASSUME NEW i \in DOMAIN Tail(q), Tail(q)[i].seq >= x
        PROVE  Has(q, x)
    <3>1. i + 1 \in DOMAIN q /\ q[i + 1] = Tail(q)[i]
        BY <1>2, QueueEnds
    <3> QED  BY <2>2, <3>1 DEF Has
  <2>3. Head(q).seq >= x => Has(q, x)
      BY <1>2, QueueEnds DEF Has
  <2> QED  BY <2>1, <2>2, <2>3 DEF Has
<1>3. ~Has(<<>>, x)
    BY DEF Has
<1>4. ASSUME NEW y \in Nat, y <= x, NEW i \in DOMAIN q, q[i].seq >= x
      PROVE  q[i].seq >= y
    BY <1>4, QueueEnds, EventSeq
<1> QED  BY <1>1, <1>2, <1>3, <1>4 DEF Has

\* Joining a queue: the next chunk joins the base or the queue, and what is
\* taken off the front becomes part of the base.
LEMMA JoinsEnds ==
    ASSUME NEW q \in Seq(Events), NEW e \in Events, NEW b \in Nat, Joins(q, b)
    PROVE  /\ e.kind # "Output" \/ e.seq <= b + 1 => Joins(Append(q, e), b)
           /\ \A x \in Nat : Has(q, x) /\ e.seq <= x + 1 => Joins(Append(q, e), b)
           /\ \A c \in Nat : b <= c => Joins(q, c)
           /\ q # <<>> => /\ Head(q).kind = "Output" => Head(q).seq <= b + 1
                          /\ \A c \in Nat : b <= c /\ Head(q).seq <= c => Joins(Tail(q), c)
<1>1. ASSUME NEW i \in DOMAIN q, q[i].kind = "Output"
      PROVE  q[i].seq <= b + 1 \/ \E j \in DOMAIN q : j < i /\ q[i].seq <= q[j].seq + 1
    BY <1>1 DEF Joins
<1>2. \A i \in DOMAIN q : q[i].seq \in Nat /\ i \in Nat
    BY QueueEnds, EventSeq
<1>3. ASSUME e.kind # "Output" \/ e.seq <= b + 1 \/ \E j \in DOMAIN q : e.seq <= q[j].seq + 1
      PROVE  Joins(Append(q, e), b)
  <2> SUFFICES ASSUME NEW i \in DOMAIN Append(q, e), Append(q, e)[i].kind = "Output"
               PROVE  \/ Append(q, e)[i].seq <= b + 1
                      \/ \E j \in DOMAIN Append(q, e) :
                            j < i /\ Append(q, e)[i].seq <= Append(q, e)[j].seq + 1
      BY DEF Joins
  <2>1. CASE i = Len(q) + 1
      BY <1>3, <2>1, QueueEnds
  <2>2. CASE i # Len(q) + 1
    <3>1. i \in DOMAIN q /\ Append(q, e)[i] = q[i]
        BY <2>2, QueueEnds
    <3> QED  BY <1>1, <3>1, QueueEnds
  <2> QED  BY <2>1, <2>2
<1>4. ASSUME NEW x \in Nat, Has(q, x), e.seq <= x + 1
      PROVE  \E j \in DOMAIN q : e.seq <= q[j].seq + 1
    BY <1>2, <1>4, EventSeq DEF Has
<1>5. ASSUME NEW c \in Nat, b <= c
      PROVE  Joins(q, c)
    BY <1>2, <1>5 DEF Joins
<1>6. ASSUME q # <<>>, Head(q).kind = "Output"
      PROVE  Head(q).seq <= b + 1
  <2>1. 1 \in DOMAIN q /\ q[1] = Head(q)
      BY <1>6, QueueEnds
  <2> QED  BY <1>1, <1>2, <1>6, <2>1, QueueEnds
<1>7. ASSUME q # <<>>, NEW c \in Nat, b <= c, Head(q).seq <= c
      PROVE  Joins(Tail(q), c)
  <2> SUFFICES ASSUME NEW i \in DOMAIN Tail(q), Tail(q)[i].kind = "Output"
               PROVE  \/ Tail(q)[i].seq <= c + 1
                      \/ \E j \in DOMAIN Tail(q) :
                            j < i /\ Tail(q)[i].seq <= Tail(q)[j].seq + 1
      BY DEF Joins
  <2>1. i + 1 \in DOMAIN q /\ Tail(q)[i] = q[i + 1] /\ i \in Nat
      BY <1>7, QueueEnds
  <2>2. CASE q[i + 1].seq <= b + 1
      BY <1>2, <1>7, <2>1, <2>2
  <2>3. ASSUME NEW j \in DOMAIN q, j < i + 1, q[i + 1].seq <= q[j].seq + 1
        PROVE  \/ Tail(q)[i].seq <= c + 1
               \/ \E k \in DOMAIN Tail(q) : k < i /\ Tail(q)[i].seq <= Tail(q)[k].seq + 1
    <3>1. CASE j = 1
        BY <1>2, <1>7, <2>1, <2>3, <3>1, QueueEnds
    <3>2. CASE j # 1
      <4>1. j - 1 \in DOMAIN Tail(q) /\ Tail(q)[j - 1] = q[j] /\ j - 1 < i
          BY <1>2, <1>7, <2>1, <2>3, <3>2, QueueEnds
      <4> QED  BY <2>1, <2>3, <4>1
    <3> QED  BY <3>1, <3>2
  <2> QED  BY <1>1, <2>1, <2>2, <2>3
<1> QED  BY <1>3, <1>4, <1>5, <1>6, <1>7

\* A queue of rising sequences at its ends.
LEMMA RisesEnds ==
    ASSUME NEW q \in Seq(Events), NEW e \in Events, NEW lo \in Nat, NEW hi \in Nat, Rises(q, lo, hi)
    PROVE  /\ lo <= e.seq /\ hi <= e.seq => Rises(Append(q, e), lo, e.seq)
           /\ \A l \in Nat, h \in Nat : l <= lo /\ hi <= h => Rises(q, l, h)
           /\ q # <<>> => /\ lo <= Head(q).seq /\ Head(q).seq <= hi
                          /\ Rises(Tail(q), Head(q).seq, hi)
<1>1. \A i \in DOMAIN q : q[i].seq \in Nat /\ i \in Nat
    BY QueueEnds, EventSeq
<1>2. ASSUME lo <= e.seq, hi <= e.seq
      PROVE  Rises(Append(q, e), lo, e.seq)
  <2>1. e.seq \in Nat
      BY EventSeq
  <2>2. \A i \in DOMAIN q : lo <= q[i].seq /\ q[i].seq <= hi
      BY DEF Rises
  <2> SUFFICES ASSUME NEW i \in DOMAIN Append(q, e)
               PROVE  /\ lo <= Append(q, e)[i].seq /\ Append(q, e)[i].seq <= e.seq
                      /\ \A j \in DOMAIN Append(q, e) :
                            j < i => Append(q, e)[j].seq <= Append(q, e)[i].seq
      BY DEF Rises
  <2>3. CASE i = Len(q) + 1
      BY <1>1, <1>2, <2>1, <2>2, <2>3, QueueEnds
  <2>4. CASE i # Len(q) + 1
    <3>1. i \in DOMAIN q /\ Append(q, e)[i] = q[i]
        BY <2>4, QueueEnds
    <3>2. \A j \in DOMAIN Append(q, e) : j < i => j \in DOMAIN q /\ Append(q, e)[j] = q[j]
        BY <3>1, QueueEnds
    <3> QED  BY <1>1, <1>2, <2>1, <2>2, <3>1, <3>2 DEF Rises
  <2> QED  BY <2>3, <2>4
<1>3. ASSUME NEW l \in Nat, NEW h \in Nat, l <= lo, hi <= h
      PROVE  Rises(q, l, h)
    BY <1>1, <1>3 DEF Rises
<1>4. ASSUME q # <<>>
      PROVE  /\ lo <= Head(q).seq /\ Head(q).seq <= hi
             /\ Rises(Tail(q), Head(q).seq, hi)
  <2>1. 1 \in DOMAIN q /\ q[1] = Head(q)
      BY <1>4, QueueEnds
  <2>2. lo <= Head(q).seq /\ Head(q).seq <= hi
      BY <2>1 DEF Rises
  <2>3. \A i \in DOMAIN Tail(q) : i + 1 \in DOMAIN q /\ Tail(q)[i] = q[i + 1] /\ i \in Nat /\ i >= 1
      BY <1>4, QueueEnds
  <2>4. ASSUME NEW i \in DOMAIN Tail(q)
        PROVE  /\ Head(q).seq <= Tail(q)[i].seq /\ Tail(q)[i].seq <= hi
               /\ \A j \in DOMAIN Tail(q) : j < i => Tail(q)[j].seq <= Tail(q)[i].seq
    <3>1. i + 1 \in DOMAIN q /\ Tail(q)[i] = q[i + 1] /\ 1 < i + 1
        BY <2>3
    <3>2. Head(q).seq <= Tail(q)[i].seq /\ Tail(q)[i].seq <= hi
        BY <2>1, <3>1 DEF Rises
    <3>3. ASSUME NEW j \in DOMAIN Tail(q), j < i
          PROVE  Tail(q)[j].seq <= Tail(q)[i].seq
      <4>1. j + 1 \in DOMAIN q /\ Tail(q)[j] = q[j + 1] /\ j + 1 < i + 1
          BY <2>3, <3>3
      <4> QED  BY <3>1, <4>1 DEF Rises
    <3> QED  BY <3>2, <3>3
  <2> QED  BY <2>2, <2>4 DEF Rises
<1> QED  BY <1>2, <1>3, <1>4

-----------------------------------------------------------------------------
(* The client                                                              *)

PaneOK(p) ==
    /\ p \in Panes /\ p.last <= MaxSeq /\ p.required <= MaxSeq
    /\ p.grid = ReplayOf(p.last)

\* The replay through s is a sequence, and the next chunk extends it to the next.
LEMMA ReplayExtends ==
    ASSUME NEW s \in Nat
    PROVE  /\ ReplayOf(s) \in Seq(Nat)
           /\ Append(ReplayOf(s), s + 1) = ReplayOf(s + 1)
<1>1. ReplayOf(s) \in Seq(Nat) /\ Len(ReplayOf(s)) = s
    BY DEF ReplayOf
<1>2. ReplayOf(s + 1) \in Seq(Nat) /\ Len(ReplayOf(s + 1)) = s + 1
    BY DEF ReplayOf
<1>3. Append(ReplayOf(s), s + 1) \in Seq(Nat) /\ Len(Append(ReplayOf(s), s + 1)) = s + 1
    BY <1>1
<1>4. \A i \in 1 .. s + 1 : Append(ReplayOf(s), s + 1)[i] = ReplayOf(s + 1)[i]
    BY <1>1 DEF ReplayOf
<1> QED  BY <1>1, <1>2, <1>3, <1>4

\* What a quarantine leaves of a pane.
LEMMA AskEffect ==
    ASSUME NEW p, PaneOK(p), NEW r \in 0 .. MaxSeq
    PROVE  PaneOK(Ask(p, r)) /\ Ask(p, r).asking /\ Ask(p, r).latch /\ Desynced(Ask(p, r))
<1>1. PICK n : n = Ask(p, r)
    OBVIOUS
<1>2. p \in Panes /\ r \in Nat
    BY StreamBounds DEF PaneOK
<1>3. /\ n \in Panes /\ n.last = p.last /\ n.required = r /\ n.grid = p.grid
      /\ n.sync = "Desynced" /\ n.asking /\ n.latch
    BY <1>1, <1>2 DEF Ask, Panes
<1> QED  BY <1>1, <1>2, <1>3, StreamBounds DEF PaneOK, Desynced

\* What a replay leaves of it.
LEMMA RebuiltEffect ==
    ASSUME NEW p, PaneOK(p), NEW s \in 0 .. MaxSeq
    PROVE  /\ PaneOK(Rebuilt(p, s)) /\ ~Desynced(Rebuilt(p, s)) /\ Rebuilt(p, s).last = s
           /\ Rebuilt(p, s).asking = p.asking
<1>1. PICK n : n = Rebuilt(p, s)
    OBVIOUS
<1>2. s \in Nat /\ s <= MaxSeq /\ ReplayOf(s) \in Seq(Nat)
    BY StreamBounds, ReplayExtends
<1>3. /\ n \in Panes /\ n.last = s /\ n.required = 0 /\ n.grid = ReplayOf(s)
      /\ n.sync = "Coherent" /\ n.asking = p.asking
    BY <1>1, <1>2 DEF Rebuilt, PaneOK, Panes
<1> QED  BY <1>1, <1>2, <1>3, StreamBounds DEF PaneOK, Desynced

\* The debt of a pane exists.
LEMMA DebtExists ==
    ASSUME NEW p, PaneOK(p), NEW s \in 0 .. MaxSeq
    PROVE  /\ Debt(p) \in 0 .. MaxSeq /\ p.last \in 0 .. MaxSeq
           /\ Larger(s, Debt(p)) \in 0 .. MaxSeq /\ Larger(p.last, s) \in 0 .. MaxSeq
           /\ Larger(Debt(p), p.last) \in 0 .. MaxSeq
BY StreamBounds DEF PaneOK, Panes, Debt, Larger

\* A chunk is fed when it is the next one, and is fed nowhere else; a pane that
\* is already latched is not asked for again.
LEMMA AppendEffect ==
    ASSUME NEW p, PaneOK(p), NEW s \in 0 .. MaxSeq
    PROVE  /\ PaneOK(AppendOutput(p, s))
           /\ Desynced(AppendOutput(p, s)) /\ AppendOutput(p, s).latch =>
                 AppendOutput(p, s).asking \/ (Desynced(p) /\ p.latch)
           /\ ~Desynced(p) /\ s <= p.last + 1 =>
                 /\ ~Desynced(AppendOutput(p, s)) /\ AppendOutput(p, s).last = Larger(p.last, s)
                 /\ AppendOutput(p, s).asking = p.asking
           /\ p.asking => AppendOutput(p, s).asking
<1>1. p.last \in Nat /\ s \in Nat /\ s <= MaxSeq /\ p.last <= MaxSeq /\ p.grid = ReplayOf(p.last)
      /\ p \in Panes /\ p.required \in Nat /\ p.required <= MaxSeq
    BY StreamBounds DEF PaneOK, Panes
<1>2. CASE s <= p.last
    BY <1>1, <1>2 DEF AppendOutput, Larger
<1>3. CASE s > p.last /\ Desynced(p)
  <2>1. PICK a \in BOOLEAN : a = (p.asking \/ ~p.latch)
      BY Zenon
  <2>2. PICK r \in Nat : r = Larger(p.required, s) /\ r <= MaxSeq
      BY <1>1 DEF Larger
  <2>3. PICK n : n = [p EXCEPT !.required = r, !.latch = TRUE, !.asking = a]
      OBVIOUS
  <2>4. /\ n \in Panes /\ n.last = p.last /\ n.required = r /\ n.grid = p.grid
        /\ n.sync = p.sync /\ n.asking = a /\ n.latch
      BY <1>1, <2>2, <2>3 DEF Panes
  <2>5. AppendOutput(p, s) = n
      BY <1>1, <1>3, <2>1, <2>2, <2>3 DEF AppendOutput
  <2> QED  BY <1>1, <1>3, <2>1, <2>2, <2>4, <2>5 DEF PaneOK, Desynced
<1>4. CASE s > p.last + 1 /\ ~Desynced(p)
  <2>1. AppendOutput(p, s) = Ask(p, s)
      BY <1>1, <1>4 DEF AppendOutput
  <2> QED  BY <1>1, <1>4, <2>1, AskEffect
<1>5. CASE s = p.last + 1 /\ ~Desynced(p)
  <2>1. PICK n : n = [p EXCEPT !.last = s, !.grid = Append(p.grid, s)]
      OBVIOUS
  <2>2. Append(p.grid, s) = ReplayOf(s) /\ ReplayOf(s) \in Seq(Nat)
      BY <1>1, <1>5, ReplayExtends
  <2>3. /\ n \in Panes /\ n.last = s /\ n.required = p.required /\ n.grid = ReplayOf(s)
        /\ n.sync = p.sync /\ n.asking = p.asking
      BY <1>1, <2>1, <2>2 DEF Panes
  <2>4. AppendOutput(p, s) = n
      BY <1>1, <1>5, <2>1 DEF AppendOutput
  <2> QED  BY <1>1, <1>5, <2>3, <2>4 DEF PaneOK, Desynced, Larger
<1> QED  BY <1>1, <1>2, <1>3, <1>4, <1>5

\* A replay is adopted, ignored, or asked for again.
LEMMA ResyncEffect ==
    ASSUME NEW p, PaneOK(p), NEW s \in 0 .. MaxSeq, NEW adopts \in BOOLEAN
    PROVE  /\ PaneOK(ResyncTerminal(p, s, adopts))
           /\ Desynced(ResyncTerminal(p, s, adopts)) => ResyncTerminal(p, s, adopts).asking
           /\ ~Desynced(p) /\ adopts =>
                 /\ ~Desynced(ResyncTerminal(p, s, adopts))
                 /\ ResyncTerminal(p, s, adopts).last = Larger(p.last, s)
                 /\ ResyncTerminal(p, s, adopts).asking = p.asking
<1>1. p.last \in Nat /\ s \in Nat /\ Debt(p) \in Nat /\ p \in Panes /\ (~Desynced(p) => Debt(p) = p.last)
    BY StreamBounds, DebtExists DEF PaneOK, Panes, Debt
<1>2. CASE (s < p.last \/ s < Debt(p)) /\ Desynced(p)
  <2>1. PICK n : n = [p EXCEPT !.latch = TRUE, !.asking = TRUE]
      OBVIOUS
  <2>2. /\ n \in Panes /\ n.last = p.last /\ n.required = p.required /\ n.grid = p.grid
        /\ n.sync = p.sync /\ n.asking
      BY <1>1, <2>1 DEF Panes
  <2>3. ResyncTerminal(p, s, adopts) = n
      BY <1>2, <2>1 DEF ResyncTerminal
  <2> QED  BY <1>2, <2>2, <2>3 DEF PaneOK, Desynced
<1>3. CASE ~Desynced(p) /\ s <= p.last
  <2>1. ResyncTerminal(p, s, adopts) = p
      BY <1>1, <1>3 DEF ResyncTerminal
  <2> QED  BY <1>1, <1>3, <2>1 DEF Larger
<1>4. CASE s >= p.last /\ s >= Debt(p) /\ ~(~Desynced(p) /\ s = p.last)
  <2>1. ResyncTerminal(p, s, adopts) =
           (IF adopts THEN Rebuilt(p, s) ELSE Ask(p, Larger(s, Debt(p))))
      BY <1>1, <1>4 DEF ResyncTerminal
  <2>2. CASE adopts
      BY <1>1, <1>4, <2>1, <2>2, RebuiltEffect DEF Larger
  <2>3. CASE ~adopts
      BY <2>1, <2>3, AskEffect, DebtExists
  <2> QED  BY <2>2, <2>3
<1> QED  BY <1>1, <1>2, <1>3, <1>4

\* The handlers that are about no chunk.
LEMMA NoticeEffects ==
    ASSUME NEW p, PaneOK(p)
    PROVE  /\ PaneOK(OnUnavailable(p)) /\ ~OnUnavailable(p).latch
           /\ PaneOK(TickRetry(p)) /\ TickRetry(p).asking
           /\ PaneOK(Distrust(p)) /\ Distrust(p).asking
           /\ PaneOK([p EXCEPT !.asking = FALSE])
           /\ [p EXCEPT !.asking = FALSE].sync = p.sync
           /\ [p EXCEPT !.asking = FALSE].latch = p.latch
<1>1. p \in Panes /\ 0 \in 0 .. MaxSeq
    BY StreamBounds DEF PaneOK
<1>2. PaneOK(OnUnavailable(p)) /\ ~OnUnavailable(p).latch
  <2>1. PICK n : n = OnUnavailable(p)
      OBVIOUS
  <2>2. PICK d \in Nat : d = Debt(p) /\ d <= MaxSeq
      BY <1>1, StreamBounds, DebtExists
  <2>3. /\ n \in Panes /\ n.last = p.last /\ n.required = d /\ n.grid = p.grid /\ ~n.latch
      BY <1>1, <2>1, <2>2 DEF Panes, OnUnavailable
  <2> QED  BY <2>1, <2>2, <2>3 DEF PaneOK
<1>3. PaneOK(TickRetry(p)) /\ TickRetry(p).asking
  <2>1. PICK n : n = TickRetry(p)
      OBVIOUS
  <2>2. n \in Panes /\ n.last = p.last /\ n.required = p.required /\ n.grid = p.grid /\ n.asking
      BY <1>1, <2>1 DEF Panes, TickRetry
  <2> QED  BY <2>1, <2>2 DEF PaneOK
<1>4. PaneOK(Distrust(p)) /\ Distrust(p).asking
    BY <1>1, AskEffect, DebtExists DEF Distrust
<1>5. /\ PaneOK([p EXCEPT !.asking = FALSE])
      /\ [p EXCEPT !.asking = FALSE].sync = p.sync
      /\ [p EXCEPT !.asking = FALSE].latch = p.latch
  <2>1. PICK n : n = [p EXCEPT !.asking = FALSE]
      OBVIOUS
  <2>2. /\ n \in Panes /\ n.last = p.last /\ n.required = p.required /\ n.grid = p.grid
        /\ n.sync = p.sync /\ n.latch = p.latch
      BY <1>1, <2>1 DEF Panes
  <2> QED  BY <2>1, <2>2 DEF PaneOK
<1> QED  BY <1>2, <1>3, <1>4, <1>5

\* A snapshot replaces the grid, or has it asked for.
LEMMA SnapshotEffect ==
    ASSUME NEW p, PaneOK(p), NEW s \in 0 .. MaxSeq, NEW available \in BOOLEAN
    PROVE  /\ PaneOK(OnSnapshot(p, s, available))
           /\ Desynced(OnSnapshot(p, s, available)) => OnSnapshot(p, s, available).asking
           /\ available => /\ ~Desynced(OnSnapshot(p, s, available))
                           /\ OnSnapshot(p, s, available).last = s
           /\ ~available => Desynced(OnSnapshot(p, s, available))
BY AskEffect, RebuiltEffect, DebtExists DEF OnSnapshot

-----------------------------------------------------------------------------
(* StreamInv by the variables its parts are about                          *)

Forwarder == [pending: Seq(Events), queued: BOOLEAN, debt: 0 .. MaxSeq,
              covered: 0 .. MaxSeq, announced: BOOLEAN, paced: BOOLEAN]
SourceInv ==
    /\ ring \in 0 .. MaxSeq /\ live \in Seq(1 .. MaxSeq)
    /\ pump \in [seq: 0 .. MaxSeq, heard: 0 .. MaxSeq, announced: BOOLEAN]
    /\ RingIsAhead
LagInv ==
    /\ lag \in [lagged: BOOLEAN, recent: BOOLEAN, gen: 0 .. MaxLags,
                building: SUBSET (1 .. MaxLags), left: 0 .. MaxLags]
    /\ LagsAreCounted
QueueInv ==
    /\ bus \in Seq(Events) /\ raw \in Seq(Events)
    /\ chan \in Seq(Events) /\ ready \in Seq(Events)
    /\ fwd \in Forwarder /\ asks \in Seq(0 .. MaxSeq)
    /\ ReadyAnswers
RestInv ==
    /\ up \in BOOLEAN
    /\ budget \in [lost: 0 .. MaxLost, faults: 0 .. MaxFaults]
    /\ excuse \subseteq {"silent", "skipped", "overtaken", "regressed", "forgotten"}

\* The parts are the whole, now and after a step.
LEMMA StreamParts ==
    /\ StreamInv <=> /\ SourceInv /\ LagInv /\ QueueInv /\ PaneOK(pane) /\ RestInv
                     /\ LatchHasAnswer /\ StaysJoined
    /\ StreamInv' <=> /\ SourceInv' /\ LagInv' /\ QueueInv' /\ PaneOK(pane') /\ RestInv'
                      /\ LatchHasAnswer' /\ StaysJoined'
<1>1. StreamInv <=> /\ SourceInv /\ LagInv /\ QueueInv /\ PaneOK(pane) /\ RestInv
                    /\ LatchHasAnswer /\ StaysJoined
    BY Zenon DEF StreamInv, TypeOK, SourceInv, LagInv, QueueInv, RestInv, PaneOK, GridIsWhole,
       Forwarder
<1>2. StreamInv' <=> /\ SourceInv' /\ LagInv' /\ QueueInv' /\ PaneOK(pane') /\ RestInv'
                     /\ LatchHasAnswer' /\ StaysJoined'
    BY Zenon DEF StreamInv, TypeOK, SourceInv, LagInv, QueueInv, RestInv, PaneOK, GridIsWhole,
       Forwarder
<1> QED  BY <1>1, <1>2

\* A spent budget is counted down.
LEMMA SpendEffect ==
    ASSUME RestInv, NEW what \in {"lost", "faults"}, Spend(what)
    PROVE  /\ budget' \in [lost: 0 .. MaxLost, faults: 0 .. MaxFaults]
           /\ what = "faults" => budget'.faults < budget.faults
           /\ what = "lost" => budget'.faults = budget.faults
<1>1. budget.lost \in 0 .. MaxLost /\ budget.faults \in 0 .. MaxFaults
      /\ budget \in [lost: 0 .. MaxLost, faults: 0 .. MaxFaults]
    BY DEF RestInv
<1>2. CASE what = "lost"
  <2>1. budget.lost > 0 /\ budget' = [budget EXCEPT !.lost = budget.lost - 1]
      BY <1>2 DEF Spend
  <2>2. budget.lost - 1 \in 0 .. MaxLost
      BY <1>1, <2>1, StreamBounds
  <2> QED  BY <1>1, <1>2, <2>1, <2>2
<1>3. CASE what = "faults"
  <2>1. budget.faults > 0 /\ budget' = [budget EXCEPT !.faults = budget.faults - 1]
      BY <1>3 DEF Spend
  <2>2. budget.faults - 1 \in 0 .. MaxFaults
      BY <1>1, <2>1, StreamBounds
  <2> QED  BY <1>1, <1>3, <2>1, <2>2, StreamBounds
<1> QED  BY <1>2, <1>3

\* The terminal and its pump keep their types and their order.
LEMMA SourceStep ==
    ASSUME StreamInv, Next
    PROVE  SourceInv'
<1>1. SourceInv
    BY StreamParts
<1>2. CASE UNCHANGED <<ring, live, pump>>
    BY <1>1, <1>2 DEF SourceInv, RingIsAhead
<1>3. live # <<>> => /\ Head(live) \in 1 .. MaxSeq /\ Head(live) <= ring
                     /\ Tail(live) \in Seq(1 .. MaxSeq)
                     /\ \A i \in DOMAIN Tail(live) : Tail(live)[i] <= ring
  <2>1. live \in Seq(1 .. MaxSeq) /\ \A i \in DOMAIN live : live[i] <= ring
      BY <1>1 DEF SourceInv, RingIsAhead
  <2> QED  BY <2>1, QueuePop
<1>4. CASE Produce
  <2>1. /\ ring < MaxSeq /\ ring' = ring + 1 /\ pump' = pump
        /\ live' = live \/ live' = Append(live, ring + 1)
      BY <1>4 DEF Produce
  <2>2. ring' \in 0 .. MaxSeq /\ ring' \in 1 .. MaxSeq /\ ring \in Nat
      BY <1>1, <2>1, StreamBounds DEF SourceInv
  <2>3. live' \in Seq(1 .. MaxSeq)
    <3>1. PICK S : S = 1 .. MaxSeq
        OBVIOUS
    <3>2. live \in Seq(S) /\ ring + 1 \in S
        BY <1>1, <2>1, <2>2, <3>1 DEF SourceInv
    <3>3. Append(live, ring + 1) \in Seq(S)
        BY <3>2
    <3> QED  BY <2>1, <3>1, <3>2, <3>3
  <2>4. \A i \in DOMAIN live' : live'[i] <= ring'
    <3>1. \A i \in DOMAIN live : live[i] <= ring + 1 /\ live[i] \in Nat
        BY <1>1, <2>2, StreamBounds DEF SourceInv, RingIsAhead
    <3> QED  BY <1>1, <2>1, <2>2, <3>1 DEF SourceInv
  <2>5. pump'.seq <= ring' /\ pump'.heard <= ring'
      BY <1>1, <2>1, <2>2, StreamBounds DEF SourceInv, RingIsAhead
  <2> QED  BY <1>1, <2>1, <2>2, <2>3, <2>4, <2>5 DEF SourceInv, RingIsAhead
<1>5. CASE Pump
  <2>1. live # <<>> /\ live' = Tail(live) /\ ring' = ring
      BY <1>5 DEF Pump, PumpDuplicate, PumpForward, PumpResync, PumpUnavailable
  <2>2. PICK s \in {pump.seq, Head(live), ring}, h \in {pump.heard, Head(live)},
             a \in {pump.announced, TRUE, FALSE} :
           pump' = [seq |-> s, heard |-> h, announced |-> a]
    <3>1. pump = [seq |-> pump.seq, heard |-> pump.heard, announced |-> pump.announced]
        BY <1>1 DEF SourceInv
    <3>2. CASE PumpDuplicate
        BY <3>1, <3>2 DEF PumpDuplicate
    <3>3. CASE PumpForward
        BY <1>1, <3>3 DEF PumpForward, SourceInv
    <3>4. CASE PumpResync
        BY <3>4 DEF PumpResync
    <3>5. CASE PumpUnavailable
        BY <1>1, <3>5 DEF PumpUnavailable, SourceInv
    <3> QED  BY <1>5, <3>2, <3>3, <3>4, <3>5 DEF Pump
  <2>3. /\ pump.seq \in 0 .. MaxSeq /\ pump.heard \in 0 .. MaxSeq /\ ring \in 0 .. MaxSeq
        /\ Head(live) \in 0 .. MaxSeq /\ Head(live) <= ring /\ ring <= ring
        /\ pump.seq <= ring /\ pump.heard <= ring
      BY <1>1, <1>3, <2>1, StreamBounds DEF SourceInv, RingIsAhead
  <2>4. s \in 0 .. MaxSeq /\ s <= ring /\ h \in 0 .. MaxSeq /\ h <= ring
      BY <2>3
  <2>5. a \in BOOLEAN
    <3>1. pump.announced \in BOOLEAN
        BY <1>1 DEF SourceInv
    <3> QED  BY <3>1, Zenon
  <2> QED  BY <1>1, <1>3, <2>1, <2>2, <2>4, <2>5 DEF SourceInv, RingIsAhead
<1>6. Overwrite \/ Connection \/ Forward \/ Client => UNCHANGED <<ring, live, pump>>
    BY DEF Overwrite, Connection, ServeBus, ServeLagged, LagWindowCloses, BuildRecovery,
       AbandonRecovery, ReadRing, Reply, Forward, RouteSuperseded, RouteOutput, RouteStructured,
       DeliverPending, DeliverResync, DeliverUnavailable, PaceElapses, Client, Receive, Retry,
       UserDistrusts, Flush
<1> QED  BY <1>2, <1>4, <1>5, <1>6 DEF Next

\* The connection's lag is counted.
LEMMA LagStep ==
    ASSUME StreamInv, Next
    PROVE  LagInv'
<1>1. LagInv
    BY StreamParts
<1> DEFINE L == [lagged: BOOLEAN, recent: BOOLEAN, gen: 0 .. MaxLags,
                 building: SUBSET (1 .. MaxLags), left: 0 .. MaxLags]
<1>2. CASE UNCHANGED lag
    BY <1>1, <1>2 DEF LagInv, LagsAreCounted
<1>3. /\ lag.gen \in Nat /\ lag.left \in Nat /\ lag.building \subseteq 1 .. MaxLags
      /\ lag.gen <= MaxLags /\ lag.left <= MaxLags /\ lag \in L
    BY <1>1, StreamBounds DEF LagInv
<1>4. CASE Overwrite
  <2>1. PICK k : k = (IF lag.lagged THEN lag.left ELSE lag.left - 1)
      OBVIOUS
  <2>2. lag.lagged \/ lag.left > 0
      BY <1>4 DEF Overwrite
  <2>3. k \in 0 .. MaxLags /\ lag.gen + k + 1 <= MaxLags
      BY <1>1, <1>3, <2>1, <2>2, StreamBounds DEF LagInv, LagsAreCounted
  <2>4. lag' = [lag EXCEPT !.lagged = TRUE, !.left = k]
      BY <1>4, <2>1 DEF Overwrite
  <2>5. lag' \in L /\ lag'.lagged /\ lag'.left = k /\ lag'.gen = lag.gen
      BY <1>3, <2>3, <2>4
  <2> QED  BY <2>3, <2>5 DEF LagInv, LagsAreCounted
<1>5. CASE ServeLagged
  <2>1. lag.lagged
      BY <1>5 DEF ServeLagged
  <2>2. lag.gen + 1 + lag.left <= MaxLags
      BY <1>1, <1>3, <2>1, StreamBounds DEF LagInv, LagsAreCounted
  <2>3. CASE Recovers
    <3>1. PICK g, b : g = lag.gen + 1 /\ b = lag.building \cup {g}
        OBVIOUS
    <3>2. g \in 0 .. MaxLags /\ b \subseteq 1 .. MaxLags
        BY <1>3, <2>2, <3>1, StreamBounds
    <3>3. lag' = [lag EXCEPT !.lagged = FALSE, !.recent = TRUE, !.gen = g, !.building = b]
        BY <1>5, <2>3, <3>1 DEF ServeLagged
    <3>4. lag' \in L /\ ~lag'.lagged /\ lag'.left = lag.left /\ lag'.gen = g
        BY <1>3, <3>2, <3>3
    <3> QED  BY <1>3, <2>2, <3>1, <3>4, StreamBounds DEF LagInv, LagsAreCounted
  <2>4. CASE ~Recovers
    <3>1. lag' = [lag EXCEPT !.lagged = FALSE]
        BY <1>5, <2>4 DEF ServeLagged
    <3>2. lag' \in L /\ ~lag'.lagged /\ lag'.left = lag.left /\ lag'.gen = lag.gen
        BY <1>3, <3>1
    <3> QED  BY <1>3, <2>2, <3>2, StreamBounds DEF LagInv, LagsAreCounted
  <2> QED  BY <2>3, <2>4
<1>6. CASE LagWindowCloses
  <2>1. lag' = [lag EXCEPT !.recent = FALSE]
      BY <1>6 DEF LagWindowCloses
  <2>2. lag' \in L /\ lag'.lagged = lag.lagged /\ lag'.left = lag.left /\ lag'.gen = lag.gen
      BY <1>3, <2>1
  <2> QED  BY <1>1, <2>2 DEF LagInv, LagsAreCounted
<1>7. ASSUME NEW g, BuildRecovery(g) \/ AbandonRecovery(g)
      PROVE  LagInv'
  <2>1. PICK b : b = lag.building \ {g}
      OBVIOUS
  <2>2. lag' = [lag EXCEPT !.building = b] /\ b \subseteq 1 .. MaxLags
      BY <1>3, <1>7, <2>1 DEF BuildRecovery, AbandonRecovery
  <2>3. lag' \in L /\ lag'.lagged = lag.lagged /\ lag'.left = lag.left /\ lag'.gen = lag.gen
      BY <1>3, <2>2
  <2> QED  BY <1>1, <2>3 DEF LagInv, LagsAreCounted
<1>8. Produce \/ Pump \/ ServeBus \/ (\E i \in DOMAIN asks : ReadRing(i))
      \/ (\E i \in DOMAIN ready : Reply(i)) \/ Forward \/ Client => UNCHANGED lag
    BY DEF Produce, Pump, PumpDuplicate, PumpForward, PumpResync, PumpUnavailable, ServeBus,
       ReadRing, Reply, Forward, RouteSuperseded, RouteOutput, RouteStructured,
       DeliverPending, DeliverResync, DeliverUnavailable, PaceElapses, Client, Receive, Retry,
       UserDistrusts, Flush
<1> QED  BY <1>2, <1>4, <1>5, <1>6, <1>7, <1>8 DEF Next, Connection

-----------------------------------------------------------------------------
(* The queues                                                              *)

\* The events of the model, by kind.
LEMMA EventKinds ==
    ASSUME NEW s \in 0 .. MaxSeq, NEW b \in BOOLEAN
    PROVE  /\ Output(s) \in Events /\ Output(s).kind = "Output" /\ Output(s).seq = s
           /\ Resync(s, b) \in Events /\ Resync(s, b).kind = "Resync" /\ Resync(s, b).seq = s
           /\ Unavailable \in Events /\ Unavailable.kind = "Unavailable"
           /\ Snapshot(s, b) \in Events /\ Snapshot(s, b).seq = s
           /\ Snapshot(s, b).kind = IF b THEN "Snapshot" ELSE "NoReplay"
<1>1. Output(s) \in Events /\ Output(s).kind = "Output" /\ Output(s).seq = s
    BY DEF Output, Events
<1>2. Resync(s, b) \in Events /\ Resync(s, b).kind = "Resync" /\ Resync(s, b).seq = s
    BY DEF Resync, Events
<1>3. Unavailable \in Events /\ Unavailable.kind = "Unavailable"
    BY StreamBounds DEF Unavailable, Events
<1>4. /\ Snapshot(s, b) \in Events /\ Snapshot(s, b).seq = s
      /\ Snapshot(s, b).kind = IF b THEN "Snapshot" ELSE "NoReplay"
    BY DEF Snapshot, Events
<1> QED  BY <1>1, <1>2, <1>3, <1>4

\* An event is admitted to the ingress, or the client is disconnected.
LEMMA AdmitEffect ==
    ASSUME raw \in Seq(Events), up, NEW e \in Events, Admit(e)
    PROVE  /\ raw' \in Seq(Events)
           /\ (raw' = Append(raw, e) /\ up' = up) \/ (raw' = raw /\ up' = FALSE)
<1>1. (raw' = Append(raw, e) /\ up' = up) \/ (raw' = raw /\ up' = FALSE)
    BY Zenon DEF Admit
<1>2. Append(raw, e) \in Seq(Events)
    BY QueueEnds
<1> QED  BY <1>1, <1>2

\* What the forwarder's bookkeeping sets.
LEMMA ForwarderUpdates ==
    ASSUME fwd \in Forwarder, ring \in 0 .. MaxSeq, NEW e \in Events
    PROVE  /\ Covering(e) \in Forwarder /\ Covering(e).pending = fwd.pending
           /\ e.kind \in Replays => /\ Covering(e).covered = Larger(fwd.covered, e.seq)
                                    /\ Covering(e).debt = 0
           /\ e.kind \notin Replays => Covering(e) = fwd
           /\ Scheduled(e.seq) \in Forwarder /\ Scheduled(e.seq).pending = fwd.pending
           /\ Scheduled(e.seq).debt = Larger(fwd.debt, e.seq)
           /\ Scheduled(e.seq).covered = fwd.covered /\ Scheduled(e.seq).queued
           /\ Paid \in Forwarder /\ Paid.pending = fwd.pending /\ Paid.debt = 0
           /\ Paid.covered = Larger(fwd.covered, ring)
<1>1. /\ e.seq \in 0 .. MaxSeq /\ fwd.covered \in 0 .. MaxSeq /\ fwd.debt \in 0 .. MaxSeq
      /\ 0 \in 0 .. MaxSeq
    BY StreamBounds DEF Events, Forwarder
<1>2. /\ Larger(fwd.covered, e.seq) \in 0 .. MaxSeq /\ Larger(fwd.debt, e.seq) \in 0 .. MaxSeq
      /\ Larger(fwd.covered, ring) \in 0 .. MaxSeq
    BY <1>1 DEF Larger
<1>3. PICK c : c = [fwd EXCEPT !.covered = Larger(fwd.covered, e.seq), !.queued = FALSE,
                               !.debt = 0, !.announced = FALSE]
    OBVIOUS
<1>4. /\ c \in Forwarder /\ c.pending = fwd.pending /\ c.debt = 0
      /\ c.covered = Larger(fwd.covered, e.seq)
    BY <1>1, <1>2, <1>3 DEF Forwarder
<1>5. Covering(e) = IF e.kind \in Replays THEN c ELSE fwd
    BY <1>3 DEF Covering
<1>6. PICK d : d = [fwd EXCEPT !.debt = Larger(fwd.debt, e.seq), !.queued = TRUE]
    OBVIOUS
<1>7. /\ d \in Forwarder /\ d.pending = fwd.pending /\ d.queued
      /\ d.debt = Larger(fwd.debt, e.seq) /\ d.covered = fwd.covered
    BY <1>2, <1>6 DEF Forwarder
<1>8. Scheduled(e.seq) = d
    BY <1>6 DEF Scheduled
<1>9. PICK p : p = [fwd EXCEPT !.queued = FALSE, !.covered = Larger(fwd.covered, ring),
                               !.debt = 0, !.announced = FALSE, !.paced = TRUE]
    OBVIOUS
<1>10. /\ p \in Forwarder /\ p.pending = fwd.pending /\ p.debt = 0
       /\ p.covered = Larger(fwd.covered, ring)
    BY <1>1, <1>2, <1>9 DEF Forwarder
<1>11. Paid = p
    BY <1>9 DEF Paid
<1> QED  BY <1>4, <1>5, <1>7, <1>8, <1>10, <1>11

\* The forwarder's queue at its ends.
LEMMA PendingUpdates ==
    ASSUME NEW f \in Forwarder, NEW e \in Events
    PROVE  /\ [f EXCEPT !.pending = Append(@, e)] \in Forwarder
           /\ [f EXCEPT !.pending = Append(@, e)].pending = Append(f.pending, e)
           /\ [f EXCEPT !.pending = Append(@, e)].debt = f.debt
           /\ [f EXCEPT !.pending = Append(@, e)].covered = f.covered
           /\ f.pending \in Seq(Events)
           /\ f.pending # <<>> =>
                 /\ Head(f.pending) \in Events
                 /\ [f EXCEPT !.pending = Tail(@)] \in Forwarder
                 /\ [f EXCEPT !.pending = Tail(@)].pending = Tail(f.pending)
                 /\ [f EXCEPT !.pending = Tail(@)].debt = f.debt
                 /\ [f EXCEPT !.pending = Tail(@)].covered = f.covered
<1>1. f.pending \in Seq(Events)
    BY DEF Forwarder
<1>2. PICK a : a = Append(f.pending, e)
    OBVIOUS
<1>3. a \in Seq(Events)
    BY <1>1, <1>2, QueueEnds
<1>4. /\ [f EXCEPT !.pending = a] \in Forwarder /\ [f EXCEPT !.pending = a].pending = a
      /\ [f EXCEPT !.pending = a].debt = f.debt /\ [f EXCEPT !.pending = a].covered = f.covered
    BY <1>3 DEF Forwarder
<1>5. ASSUME f.pending # <<>>
      PROVE  /\ Head(f.pending) \in Events
             /\ [f EXCEPT !.pending = Tail(@)] \in Forwarder
             /\ [f EXCEPT !.pending = Tail(@)].pending = Tail(f.pending)
             /\ [f EXCEPT !.pending = Tail(@)].debt = f.debt
             /\ [f EXCEPT !.pending = Tail(@)].covered = f.covered
  <2>1. PICK t : t = Tail(f.pending)
      OBVIOUS
  <2>2. t \in Seq(Events) /\ Head(f.pending) \in Events
      BY <1>1, <1>5, <2>1, QueuePop
  <2>3. /\ [f EXCEPT !.pending = t] \in Forwarder /\ [f EXCEPT !.pending = t].pending = t
        /\ [f EXCEPT !.pending = t].debt = f.debt /\ [f EXCEPT !.pending = t].covered = f.covered
      BY <2>2 DEF Forwarder
  <2> QED  BY <2>1, <2>2, <2>3
<1> QED  BY <1>1, <1>2, <1>4, <1>5

\* What a detached task has built is an answer.
LEMMA ReadyUpdates ==
    ASSUME QueueInv, NEW e \in Events, e.kind \in Answers
    PROVE  /\ Append(ready, e) \in Seq(Events) /\ Only(Append(ready, e), Answers)
           /\ \A i \in DOMAIN ready :
                 /\ RemoveAt(ready, i) \in Seq(Events) /\ Only(RemoveAt(ready, i), Answers)
                 /\ ready[i] \in Events /\ ready[i].kind \in Answers
<1>1. ready \in Seq(Events) /\ Only(ready, Answers)
    BY DEF QueueInv, ReadyAnswers
<1>2. Append(ready, e) \in Seq(Events) /\ Only(Append(ready, e), Answers)
    BY <1>1, QueueEnds, OnlyEnds
<1>3. ASSUME NEW i \in DOMAIN ready
      PROVE  /\ RemoveAt(ready, i) \in Seq(Events) /\ Only(RemoveAt(ready, i), Answers)
             /\ ready[i] \in Events /\ ready[i].kind \in Answers
  <2>1. RemoveAt(ready, i) \in Seq(Events)
      BY <1>1, QueueRemove
  <2>2. \A j \in DOMAIN RemoveAt(ready, i) : \E k \in DOMAIN ready : RemoveAt(ready, i)[j] = ready[k]
      BY <1>1, QueueRemove
  <2>3. ready[i] \in Events
      BY <1>1
  <2> QED  BY <1>1, <2>1, <2>2, <2>3 DEF Only
<1> QED  BY <1>2, <1>3

\* Every step keeps events in the queues, and answers in what tasks have built.
LEMMA QueueStep ==
    ASSUME StreamInv, Next
    PROVE  QueueInv'
<1>1. QueueInv /\ SourceInv /\ PaneOK(pane)
    BY StreamParts
<1>2. CASE UNCHANGED <<bus, raw, chan, ready, fwd, asks>>
    BY <1>1, <1>2 DEF QueueInv, ReadyAnswers, Only
<1>3. /\ bus \in Seq(Events) /\ raw \in Seq(Events) /\ chan \in Seq(Events)
      /\ ready \in Seq(Events) /\ fwd \in Forwarder /\ asks \in Seq(0 .. MaxSeq)
      /\ ReadyAnswers /\ ring \in 0 .. MaxSeq /\ 0 \in 0 .. MaxSeq
    BY <1>1, StreamBounds DEF QueueInv, SourceInv
<1>4. CASE Pump
  <2>1. UNCHANGED <<raw, chan, ready, fwd, asks>>
      BY <1>4 DEF Pump, PumpDuplicate, PumpForward, PumpResync, PumpUnavailable
  <2>2. live # <<>> => Head(live) \in 0 .. MaxSeq
    <3>1. live \in Seq(1 .. MaxSeq)
        BY <1>1 DEF SourceInv
    <3>2. live # <<>> => Head(live) \in 1 .. MaxSeq
        BY <3>1, QueuePop
    <3> QED  BY <3>2, StreamBounds
  <2>3. bus' = bus \/ \E e \in Events : bus' = Append(bus, e)
    <3>1. CASE PumpDuplicate
        BY <3>1 DEF PumpDuplicate
    <3>2. CASE PumpForward
        BY <2>2, <3>2, EventKinds DEF PumpForward, Publish
    <3>3. CASE PumpResync
        BY <1>3, <3>3, EventKinds DEF PumpResync, Publish
    <3>4. CASE PumpUnavailable
        BY <1>3, <3>4, EventKinds DEF PumpUnavailable, Publish
    <3> QED  BY <1>4, <3>1, <3>2, <3>3, <3>4 DEF Pump
  <2>4. bus' \in Seq(Events)
    <3>1. \A e \in Events : Append(bus, e) \in Seq(Events)
        BY <1>3, QueuePush
    <3> QED  BY <1>3, <2>3, <3>1
  <2> QED  BY <1>3, <2>1, <2>4 DEF QueueInv, ReadyAnswers, Only
<1>5. CASE Overwrite
  <2>1. bus # <<>> /\ bus' = Tail(bus) /\ UNCHANGED <<raw, chan, ready, fwd, asks>>
      BY <1>5 DEF Overwrite
  <2>2. bus' \in Seq(Events)
      BY <1>3, <2>1, QueuePop
  <2> QED  BY <1>3, <2>1, <2>2 DEF QueueInv, ReadyAnswers, Only
<1>6. CASE ServeBus
  <2>1. /\ up /\ bus # <<>> /\ bus' = Tail(bus) /\ Admit(Head(bus))
        /\ UNCHANGED <<chan, ready, fwd, asks>>
      BY <1>6 DEF ServeBus
  <2>2. bus' \in Seq(Events) /\ Head(bus) \in Events
      BY <1>3, <2>1, QueuePop
  <2>3. raw' \in Seq(Events)
      BY <1>3, <2>1, <2>2, AdmitEffect
  <2> QED  BY <1>3, <2>1, <2>2, <2>3 DEF QueueInv, ReadyAnswers, Only
<1>7. ASSUME NEW g, BuildRecovery(g)
      PROVE  QueueInv'
  <2>1. /\ \/ ready' = ready
           \/ \E s \in {0, ring}, b \in BOOLEAN : ready' = Append(ready, Snapshot(s, b))
        /\ UNCHANGED <<bus, raw, chan, fwd, asks>>
      BY <1>7 DEF BuildRecovery
  <2>2. ASSUME NEW s \in {0, ring}, NEW b \in BOOLEAN, ready' = Append(ready, Snapshot(s, b))
        PROVE  ready' \in Seq(Events) /\ Only(ready', Answers)
    <3>1. s \in 0 .. MaxSeq
        BY <1>3
    <3>2. Snapshot(s, b) \in Events /\ Snapshot(s, b).kind \in Answers
        BY <3>1, EventKinds DEF Answers
    <3> QED  BY <1>1, <2>2, <3>2, ReadyUpdates
  <2>3. ready' \in Seq(Events) /\ Only(ready', Answers)
      BY <1>3, <2>1, <2>2 DEF ReadyAnswers
  <2> QED  BY <1>3, <2>1, <2>3 DEF QueueInv, ReadyAnswers
<1>8. ASSUME NEW i \in DOMAIN asks, ReadRing(i)
      PROVE  QueueInv'
  <2>1. /\ asks' = RemoveAt(asks, i)
        /\ ready' = Append(ready, Resync(ring, TRUE)) \/ ready' = Append(ready, Unavailable)
        /\ UNCHANGED <<bus, raw, chan, fwd>>
      BY <1>8 DEF ReadRing
  <2>2. asks' \in Seq(0 .. MaxSeq)
      BY <1>3, <2>1, QueueRemove
  <2>3. /\ Resync(ring, TRUE) \in Events /\ Resync(ring, TRUE).kind \in Answers
        /\ Unavailable \in Events /\ Unavailable.kind \in Answers
      BY <1>3, EventKinds DEF Answers
  <2>4. ready' \in Seq(Events) /\ Only(ready', Answers)
      BY <1>1, <2>1, <2>3, ReadyUpdates
  <2> QED  BY <1>3, <2>1, <2>2, <2>4 DEF QueueInv, ReadyAnswers
<1>9. ASSUME NEW i \in DOMAIN ready, Reply(i)
      PROVE  QueueInv'
  <2>1. up /\ ready' = RemoveAt(ready, i) /\ Admit(ready[i]) /\ UNCHANGED <<bus, chan, fwd, asks>>
      BY <1>9 DEF Reply
  <2>2. Unavailable \in Events /\ Unavailable.kind \in Answers
      BY <1>3, EventKinds DEF Answers
  <2>3. ready' \in Seq(Events) /\ Only(ready', Answers) /\ ready[i] \in Events
      BY <1>1, <2>1, <2>2, ReadyUpdates
  <2>4. raw' \in Seq(Events)
      BY <1>3, <2>1, <2>3, AdmitEffect
  <2> QED  BY <1>3, <2>1, <2>3, <2>4 DEF QueueInv, ReadyAnswers
<1>10. CASE RouteSuperseded \/ RouteOutput \/ RouteStructured
  <2>1. raw # <<>> /\ raw' = Tail(raw) /\ UNCHANGED <<bus, ready, asks>>
      BY <1>10 DEF RouteSuperseded, RouteOutput, RouteStructured, Routes
  <2>2. raw' \in Seq(Events) /\ Head(raw) \in Events
      BY <1>3, <2>1, QueuePop
  <2>3. PICK e \in Events : e = Head(raw)
      BY <2>2
  <2>4. Append(chan, e) \in Seq(Events) /\ Covering(e) \in Forwarder /\ Scheduled(e.seq) \in Forwarder
        /\ [Covering(e) EXCEPT !.pending = Append(@, e)] \in Forwarder
      BY <1>3, QueueEnds, ForwarderUpdates, PendingUpdates
  <2>5. chan' \in {chan, Append(chan, e)}
      BY <1>10, <2>3 DEF RouteSuperseded, RouteOutput, RouteStructured
  <2>6. fwd' \in {fwd, Scheduled(e.seq), Covering(e), [Covering(e) EXCEPT !.pending = Append(@, e)]}
      BY <1>10, <2>3, Zenon DEF RouteSuperseded, RouteOutput, RouteStructured
  <2> QED  BY <1>3, <2>1, <2>2, <2>4, <2>5, <2>6 DEF QueueInv, ReadyAnswers, Only
<1>11. CASE DeliverPending
  <2>1. /\ fwd.pending # <<>> /\ chan' = Append(chan, Head(fwd.pending))
        /\ fwd' = [fwd EXCEPT !.pending = Tail(@)] /\ UNCHANGED <<bus, raw, ready, asks>>
      BY <1>11 DEF DeliverPending
  <2>2. Unavailable \in Events
      BY <1>3, EventKinds
  <2>3. Head(fwd.pending) \in Events /\ fwd' \in Forwarder
      BY <1>3, <2>1, <2>2, PendingUpdates
  <2>4. chan' \in Seq(Events)
      BY <1>3, <2>1, <2>3, QueueEnds
  <2> QED  BY <1>3, <2>1, <2>3, <2>4 DEF QueueInv, ReadyAnswers, Only
<1>12. CASE DeliverResync
  <2>1. chan' = Append(chan, Resync(ring, FALSE)) /\ fwd' = Paid /\ UNCHANGED <<bus, raw, ready, asks>>
      BY <1>12 DEF DeliverResync
  <2>2. Resync(ring, FALSE) \in Events
      BY <1>3, EventKinds
  <2>3. chan' \in Seq(Events) /\ fwd' \in Forwarder
      BY <1>3, <2>1, <2>2, QueueEnds, ForwarderUpdates
  <2> QED  BY <1>3, <2>1, <2>3 DEF QueueInv, ReadyAnswers, Only
<1>13. CASE DeliverUnavailable
  <2>1. /\ chan' = chan \/ chan' = Append(chan, Unavailable)
        /\ fwd' = [fwd EXCEPT !.queued = FALSE, !.announced = TRUE]
        /\ UNCHANGED <<bus, raw, ready, asks>>
      BY <1>13 DEF DeliverUnavailable
  <2>2. Unavailable \in Events
      BY <1>3, EventKinds
  <2>3. chan' \in Seq(Events)
    <3>1. Append(chan, Unavailable) \in Seq(Events)
        BY <1>3, <2>2, QueuePush
    <3> QED  BY <1>3, <2>1, <3>1
  <2>4. fwd' \in Forwarder
      BY <1>3, <2>1 DEF Forwarder
  <2> QED  BY <1>3, <2>1, <2>3, <2>4 DEF QueueInv, ReadyAnswers, Only
<1>14. CASE PaceElapses
  <2>1. fwd' = [fwd EXCEPT !.paced = FALSE] /\ UNCHANGED <<bus, raw, chan, ready, asks>>
      BY <1>14 DEF PaceElapses
  <2>2. fwd' \in Forwarder
      BY <1>3, <2>1 DEF Forwarder
  <2> QED  BY <1>3, <2>1, <2>2 DEF QueueInv, ReadyAnswers, Only
<1>15. CASE Receive
  <2>1. chan # <<>> /\ chan' = Tail(chan) /\ UNCHANGED <<bus, raw, ready, fwd, asks>>
      BY <1>15 DEF Receive
  <2>2. chan' \in Seq(Events)
      BY <1>3, <2>1, QueuePop
  <2> QED  BY <1>3, <2>1, <2>2 DEF QueueInv, ReadyAnswers, Only
<1>16. CASE Flush
  <2>1. /\ asks' = asks \/ asks' = Append(asks, pane.required)
        /\ UNCHANGED <<bus, raw, chan, ready, fwd>>
      BY <1>16 DEF Flush, Drained
  <2>2. PICK r \in 0 .. MaxSeq : r = pane.required
      BY <1>1, StreamBounds DEF PaneOK, Panes
  <2>3. asks' \in Seq(0 .. MaxSeq)
    <3>1. Append(asks, r) \in Seq(0 .. MaxSeq)
        BY <1>3, QueuePush
    <3> QED  BY <1>3, <2>1, <2>2, <3>1
  <2> QED  BY <1>3, <2>1, <2>3 DEF QueueInv, ReadyAnswers, Only
<1>17. Produce \/ ServeLagged \/ LagWindowCloses \/ (\E g \in lag.building : AbandonRecovery(g))
       \/ Retry \/ UserDistrusts => UNCHANGED <<bus, raw, chan, ready, fwd, asks>>
    BY DEF Produce, ServeLagged, LagWindowCloses, AbandonRecovery, Retry, UserDistrusts
<1> QED  BY <1>2, <1>4, <1>5, <1>6, <1>7, <1>8, <1>9, <1>10, <1>11, <1>12, <1>13, <1>14, <1>15,
            <1>16, <1>17, Zenon DEF Next, Connection, Forward, Client

-----------------------------------------------------------------------------
(* The pane, the budgets and the latch                                     *)

\* An event received leaves a whole grid, and a latch only with a request
\* queued, unless it was a chunk and the latch was there before.
LEMMA ReceiveEffect ==
    ASSUME StreamInv, Receive
    PROVE  /\ chan # <<>> /\ Head(chan) \in Events /\ chan' = Tail(chan)
           /\ PaneOK(pane')
           /\ Desynced(pane') /\ pane'.latch =>
                 pane'.asking \/ (Head(chan).kind = "Output" /\ Desynced(pane) /\ pane.latch)
           /\ budget' \in [lost: 0 .. MaxLost, faults: 0 .. MaxFaults]
           /\ budget' = budget \/ budget'.faults < budget.faults
<1>1. QueueInv /\ PaneOK(pane) /\ RestInv
    BY StreamParts
<1>2. chan # <<>> /\ chan' = Tail(chan) /\ Head(chan) \in Events
    BY <1>1, QueuePop DEF Receive, QueueInv
<1>3. PICK e \in Events : e = Head(chan)
    BY <1>2
<1>4. e.seq \in 0 .. MaxSeq
    BY DEF Events
<1>5. \/ e.kind = "Output" /\ pane' = AppendOutput(pane, e.seq) /\ UNCHANGED budget
      \/ e.kind = "Resync" /\ pane' = ResyncTerminal(pane, e.seq, TRUE) /\ UNCHANGED budget
      \/ e.kind = "Resync" /\ pane' = ResyncTerminal(pane, e.seq, FALSE) /\ Spend("faults")
      \/ e.kind = "Unavailable" /\ pane' = OnUnavailable(pane) /\ UNCHANGED budget
      \/ /\ e.kind \in {"Snapshot", "NoReplay"}
         /\ pane' = OnSnapshot(pane, e.seq, e.kind = "Snapshot") /\ UNCHANGED budget
    BY <1>3, Zenon DEF Receive
<1>6. /\ budget' \in [lost: 0 .. MaxLost, faults: 0 .. MaxFaults]
      /\ budget' = budget \/ budget'.faults < budget.faults
    BY <1>1, <1>5, SpendEffect DEF RestInv
<1>7. CASE e.kind = "Output" /\ pane' = AppendOutput(pane, e.seq)
    BY <1>1, <1>2, <1>3, <1>4, <1>6, <1>7, AppendEffect
<1>8. ASSUME NEW a \in BOOLEAN, pane' = ResyncTerminal(pane, e.seq, a)
      PROVE  PaneOK(pane') /\ (Desynced(pane') => pane'.asking)
    BY <1>1, <1>4, <1>8, ResyncEffect
<1>9. CASE pane' = OnUnavailable(pane)
    BY <1>1, <1>2, <1>6, <1>9, NoticeEffects
<1>10. CASE pane' = OnSnapshot(pane, e.seq, e.kind = "Snapshot")
  <2>1. PICK b \in BOOLEAN : b = (e.kind = "Snapshot")
      BY Zenon
  <2>2. pane' = OnSnapshot(pane, e.seq, b)
      BY <1>10, <2>1
  <2> QED  BY <1>1, <1>2, <1>4, <1>6, <2>2, SnapshotEffect
<1> QED  BY <1>2, <1>5, <1>6, <1>7, <1>8, <1>9, <1>10

\* The grid stays whole.
LEMMA PaneStep ==
    ASSUME StreamInv, Next
    PROVE  PaneOK(pane')
<1>1. PaneOK(pane)
    BY StreamParts
<1>2. CASE Receive
    BY <1>2, ReceiveEffect
<1>3. CASE Retry \/ UserDistrusts \/ Flush
  <2>1. pane' \in {TickRetry(pane), Distrust(pane), [pane EXCEPT !.asking = FALSE]}
      BY <1>3 DEF Retry, UserDistrusts, Flush
  <2>2. /\ PaneOK(TickRetry(pane)) /\ PaneOK(Distrust(pane))
        /\ PaneOK([pane EXCEPT !.asking = FALSE])
      BY <1>1, NoticeEffects
  <2> QED  BY <2>1, <2>2, Zenon
<1>4. Produce \/ Overwrite \/ Pump \/ Connection \/ Forward => pane' = pane
    BY DEF Produce, Overwrite, Pump, PumpDuplicate, PumpForward, PumpResync, PumpUnavailable,
       Connection, ServeBus, ServeLagged, LagWindowCloses, BuildRecovery, AbandonRecovery,
       ReadRing, Reply, Forward, RouteSuperseded, RouteOutput, RouteStructured,
       DeliverPending, DeliverResync, DeliverUnavailable, PaceElapses
<1> QED  BY <1>1, <1>2, <1>3, <1>4 DEF Next, Client

\* The budgets are only spent, and what happened is recorded.
LEMMA RestStep ==
    ASSUME StreamInv, Next
    PROVE  RestInv' /\ (Healthy' => Healthy) /\ (up' => up)
<1>1. RestInv /\ LagInv /\ QueueInv
    BY StreamParts
<1>2. /\ budget' \in [lost: 0 .. MaxLost, faults: 0 .. MaxFaults]
      /\ budget'.faults = budget.faults \/ budget'.faults < budget.faults
  <2>1. CASE UNCHANGED budget
      BY <1>1, <2>1 DEF RestInv
  <2>2. CASE Spend("lost") \/ Spend("faults")
      BY <1>1, <2>2, SpendEffect
  <2>3. CASE Receive
      BY <2>3, ReceiveEffect
  <2>4. Produce \/ Overwrite \/ Pump \/ Connection \/ Forward \/ Retry \/ UserDistrusts \/ Flush
           => UNCHANGED budget \/ Spend("lost") \/ Spend("faults")
      BY DEF Produce, Overwrite, Pump, PumpDuplicate, PumpForward, PumpResync, PumpUnavailable,
         Connection, ServeBus, ServeLagged, LagWindowCloses, BuildRecovery, AbandonRecovery,
         ReadRing, Reply, Forward, RouteSuperseded, RouteOutput, RouteStructured,
         DeliverPending, DeliverResync, DeliverUnavailable, PaceElapses, Retry, UserDistrusts,
         Flush
  <2> QED  BY <2>1, <2>2, <2>3, <2>4 DEF Next, Client
<1>3. up' = up \/ up' = FALSE
    BY DEF Next, Produce, Overwrite, Pump, PumpDuplicate, PumpForward, PumpResync, PumpUnavailable,
       Connection, ServeBus, ServeLagged, LagWindowCloses, BuildRecovery, AbandonRecovery,
       ReadRing, Reply, Admit, Forward, RouteSuperseded, RouteOutput, RouteStructured,
       DeliverPending, DeliverResync, DeliverUnavailable, PaceElapses, Client, Receive, Retry,
       UserDistrusts, Flush
<1>4. excuse' \subseteq excuse \cup {"silent", "skipped", "overtaken", "regressed", "forgotten"}
    BY DEF Next, Produce, Overwrite, Pump, PumpDuplicate, PumpForward, PumpResync, PumpUnavailable,
       Connection, ServeBus, ServeLagged, LagWindowCloses, BuildRecovery, AbandonRecovery,
       ReadRing, Reply, Admit, Forward, RouteSuperseded, RouteOutput, RouteStructured,
       DeliverPending, DeliverResync, DeliverUnavailable, PaceElapses, Client, Receive, Retry,
       UserDistrusts, Flush
<1>5. up' \in BOOLEAN /\ (up' => up)
  <2>1. up \in BOOLEAN
      BY <1>1 DEF RestInv
  <2>2. CASE up' = up
      BY <2>1, <2>2
  <2>3. CASE up' = FALSE
      BY <2>3
  <2> QED  BY <1>3, <2>2, <2>3
<1>6. RestInv'
    BY <1>1, <1>2, <1>4, <1>5 DEF RestInv
<1>7. lag'.left = lag.left \/ lag'.left < lag.left
  <2>1. lag.left \in Nat /\ lag \in [lagged: BOOLEAN, recent: BOOLEAN, gen: 0 .. MaxLags,
                                     building: SUBSET (1 .. MaxLags), left: 0 .. MaxLags]
      BY <1>1, StreamBounds DEF LagInv
  <2>2. CASE Overwrite
    <3>1. PICK k \in {lag.left, lag.left - 1} : lag' = [lag EXCEPT !.lagged = TRUE, !.left = k]
        BY <2>2 DEF Overwrite
    <3>2. lag'.left = k
        BY <2>1, <3>1
    <3> QED  BY <2>1, <3>1, <3>2
  <2>3. CASE ServeLagged \/ LagWindowCloses \/ \E g \in lag.building : BuildRecovery(g) \/ AbandonRecovery(g)
      BY <2>1, <2>3 DEF ServeLagged, LagWindowCloses, BuildRecovery, AbandonRecovery
  <2>4. Produce \/ Pump \/ ServeBus \/ (\E i \in DOMAIN asks : ReadRing(i))
        \/ (\E i \in DOMAIN ready : Reply(i)) \/ Forward \/ Client => lag' = lag
      BY DEF Produce, Pump, PumpDuplicate, PumpForward, PumpResync, PumpUnavailable, ServeBus,
         ReadRing, Reply, Forward, RouteSuperseded, RouteOutput, RouteStructured,
         DeliverPending, DeliverResync, DeliverUnavailable, PaceElapses, Client, Receive, Retry,
         UserDistrusts, Flush
  <2> QED  BY <2>2, <2>3, <2>4 DEF Next, Connection
<1>8. Healthy' => Healthy
  <2>1. budget.faults \in 0 .. MaxFaults /\ lag.left \in 0 .. MaxLags
      BY <1>1 DEF RestInv, LagInv
  <2> QED  BY <1>2, <1>7, <2>1, StreamBounds DEF Healthy
<1> QED  BY <1>5, <1>6, <1>8

Answered ==
    \/ pane.asking \/ asks # <<>>
    \/ Carries(raw, Answers) \/ Carries(fwd.pending, Answers)
    \/ Carries(chan, Answers) \/ Carries(ready, Answers)

\* The latch property, queue by queue.
LEMMA LatchUnfolds ==
    /\ LatchHasAnswer <=> (up /\ Desynced(pane) /\ pane.latch => Answered)
    /\ LatchHasAnswer' <=> (up' /\ Desynced(pane') /\ pane'.latch => Answered')
<1>1. LatchHasAnswer <=> (up /\ Desynced(pane) /\ pane.latch => Answered)
    BY Zenon DEF LatchHasAnswer, Answered
<1>2. LatchHasAnswer' <=> (up' /\ Desynced(pane') /\ pane'.latch => Answered')
    BY Zenon DEF LatchHasAnswer, Answered
<1> QED  BY <1>1, <1>2

\* On its way, an answer is handed on and never dropped.
LEMMA AnswerMoves ==
    ASSUME StreamInv, Produce \/ Overwrite \/ Pump \/ Connection \/ Forward, up', Answered,
           pane' = pane
    PROVE  Answered'
<1>1. QueueInv /\ SourceInv
    BY StreamParts
<1>2. /\ bus \in Seq(Events) /\ raw \in Seq(Events) /\ chan \in Seq(Events)
      /\ ready \in Seq(Events) /\ fwd \in Forwarder /\ ring \in 0 .. MaxSeq
      /\ fwd.pending \in Seq(Events)
    BY <1>1 DEF QueueInv, SourceInv, Forwarder
<1>3. up
    BY RestStep DEF Next
<1>4. CASE UNCHANGED <<raw, chan, ready, fwd, asks>>
    BY <1>4 DEF Answered
<1>5. CASE ServeBus
  <2>1. bus # <<>> /\ Admit(Head(bus)) /\ UNCHANGED <<chan, ready, fwd, asks>>
      BY <1>5 DEF ServeBus
  <2>2. Head(bus) \in Events
      BY <1>2, <2>1, QueuePop
  <2>3. raw' = Append(raw, Head(bus))
      BY <1>2, <1>3, <2>1, <2>2, AdmitEffect
  <2> QED  BY <1>2, <2>1, <2>2, <2>3, CarriesEnds DEF Answered
<1>6. ASSUME NEW g, BuildRecovery(g)
      PROVE  Answered'
  <2>1. /\ \/ ready' = ready
           \/ \E s \in {0, ring}, b \in BOOLEAN : ready' = Append(ready, Snapshot(s, b))
        /\ UNCHANGED <<raw, chan, fwd, asks>>
      BY <1>6 DEF BuildRecovery
  <2>2. ASSUME NEW s \in {0, ring}, NEW b \in BOOLEAN
        PROVE  Carries(ready, Answers) => Carries(Append(ready, Snapshot(s, b)), Answers)
    <3>1. s \in 0 .. MaxSeq
        BY <1>2, StreamBounds
    <3>2. Snapshot(s, b) \in Events
        BY <3>1, EventKinds
    <3> QED  BY <1>2, <3>2, CarriesEnds
  <2>3. Carries(ready, Answers) => Carries(ready', Answers)
      BY <2>1, <2>2
  <2> QED  BY <2>1, <2>3 DEF Answered
<1>7. ASSUME NEW i \in DOMAIN asks, ReadRing(i)
      PROVE  Answered'
  <2>1. \E e \in {Resync(ring, TRUE), Unavailable} : ready' = Append(ready, e)
      BY <1>7 DEF ReadRing
  <2>2. PICK e : e \in Events /\ e.kind \in Answers /\ ready' = Append(ready, e)
    <3>1. Resync(ring, TRUE) \in Events /\ Resync(ring, TRUE).kind \in Answers
        BY <1>2, EventKinds DEF Answers
    <3>2. Unavailable \in Events /\ Unavailable.kind \in Answers
        BY <1>2, EventKinds DEF Answers
    <3> QED  BY <2>1, <3>1, <3>2
  <2>3. Carries(Append(ready, e), Answers)
      BY <1>2, <2>2, CarriesEnds
  <2> QED  BY <2>2, <2>3 DEF Answered
<1>8. ASSUME NEW i \in DOMAIN ready, Reply(i)
      PROVE  Answered'
  <2>1. Admit(ready[i])
      BY <1>8 DEF Reply
  <2>2. ready[i] \in Events /\ ready[i].kind \in Answers
    <3>1. Unavailable \in Events /\ Unavailable.kind \in Answers
        BY <1>2, EventKinds DEF Answers
    <3> QED  BY <1>1, <3>1, ReadyUpdates
  <2>3. raw' = Append(raw, ready[i])
      BY <1>2, <1>3, <2>1, <2>2, AdmitEffect
  <2>4. Carries(raw', Answers)
      BY <1>2, <2>2, <2>3, CarriesEnds
  <2> QED  BY <2>4 DEF Answered
<1>9. CASE RouteSuperseded \/ RouteOutput
  <2>1. /\ raw # <<>> /\ Head(raw).kind = "Output" /\ raw' = Tail(raw)
        /\ fwd' = fwd \/ fwd' = Scheduled(Head(raw).seq)
        /\ chan' = chan \/ chan' = Append(chan, Head(raw))
        /\ UNCHANGED <<ready, asks>>
      BY <1>9 DEF RouteSuperseded, RouteOutput, Routes
  <2>2. Head(raw) \in Events
      BY <1>2, <2>1, QueuePop
  <2>3. Carries(raw, Answers) => Carries(raw', Answers)
    <3>1. Carries(raw, Answers) <=> Carries(Tail(raw), Answers) \/ Head(raw).kind \in Answers
        BY <1>2, <2>1, <2>2, CarriesEnds
    <3> QED  BY <2>1, <3>1 DEF Answers
  <2>4. Carries(chan, Answers) => Carries(chan', Answers)
    <3>1. Carries(chan, Answers) => Carries(Append(chan, Head(raw)), Answers)
        BY <1>2, <2>2, CarriesEnds
    <3> QED  BY <2>1, <3>1
  <2>5. fwd'.pending = fwd.pending
      BY <1>2, <2>1, <2>2, ForwarderUpdates
  <2> QED  BY <2>1, <2>3, <2>4, <2>5 DEF Answered
<1>10. CASE RouteStructured
  <2>1. raw # <<>> /\ Head(raw).kind # "Output"
      BY <1>10 DEF RouteStructured, Routes
  <2>2. Head(raw) \in Events
      BY <1>2, <2>1, QueuePop
  <2>3. PICK e \in Events : e = Head(raw) /\ e.kind \in Answers
      BY <2>1, <2>2 DEF Events, Answers
  <2>4. \/ chan' = Append(chan, e)
        \/ fwd' = [Covering(e) EXCEPT !.pending = Append(@, e)]
      BY <1>10, <2>3, Zenon DEF RouteStructured
  <2>5. CASE chan' = Append(chan, e)
    <3>1. Carries(chan', Answers)
        BY <1>2, <2>3, <2>5, CarriesEnds
    <3> QED  BY <3>1 DEF Answered
  <2>6. CASE fwd' = [Covering(e) EXCEPT !.pending = Append(@, e)]
    <3>1. fwd'.pending = Append(fwd.pending, e)
        BY <1>2, <2>6, ForwarderUpdates, PendingUpdates
    <3>2. Carries(fwd'.pending, Answers)
        BY <1>2, <2>3, <3>1, CarriesEnds
    <3> QED  BY <3>2 DEF Answered
  <2> QED  BY <2>4, <2>5, <2>6
<1>11. CASE DeliverPending
  <2>1. /\ fwd.pending # <<>> /\ chan' = Append(chan, Head(fwd.pending))
        /\ fwd' = [fwd EXCEPT !.pending = Tail(@)] /\ UNCHANGED <<raw, ready, asks>>
      BY <1>11 DEF DeliverPending
  <2>2. Head(fwd.pending) \in Events /\ fwd'.pending = Tail(fwd.pending)
    <3>1. Unavailable \in Events
        BY <1>2, EventKinds
    <3> QED  BY <1>2, <2>1, <3>1, PendingUpdates
  <2>3. Carries(fwd.pending, Answers) \/ Carries(chan, Answers) =>
           Carries(fwd'.pending, Answers) \/ Carries(chan', Answers)
    <3>1. PICK q, e : q = fwd.pending /\ e = Head(q)
        OBVIOUS
    <3>2. q \in Seq(Events) /\ q # <<>> /\ e \in Events
        BY <1>2, <2>1, <2>2, <3>1
    <3>3. Carries(q, Answers) => Carries(Tail(q), Answers) \/ e.kind \in Answers
        BY <3>1, <3>2, CarriesEnds
    <3>4. Carries(Append(chan, e), Answers) <=> Carries(chan, Answers) \/ e.kind \in Answers
        BY <1>2, <3>2, CarriesEnds
    <3> QED  BY <2>1, <2>2, <3>1, <3>3, <3>4
  <2> QED  BY <2>1, <2>3 DEF Answered
<1>12. CASE DeliverResync \/ DeliverUnavailable
  <2>1. /\ chan' = chan \/ \E e \in {Resync(ring, FALSE), Unavailable} : chan' = Append(chan, e)
        /\ UNCHANGED <<raw, ready, asks>>
      BY <1>12 DEF DeliverResync, DeliverUnavailable
  <2>2. \A e \in {Resync(ring, FALSE), Unavailable} : e \in Events
      BY <1>2, EventKinds
  <2>3. Carries(chan, Answers) => Carries(chan', Answers)
    <3>1. \A e \in Events : Carries(chan, Answers) => Carries(Append(chan, e), Answers)
        BY <1>2, CarriesEnds
    <3> QED  BY <2>1, <2>2, <3>1
  <2>4. fwd'.pending = fwd.pending
    <3>1. fwd' = Paid \/ fwd' = [fwd EXCEPT !.queued = FALSE, !.announced = TRUE]
        BY <1>12 DEF DeliverResync, DeliverUnavailable
    <3>2. Paid.pending = fwd.pending
        BY <1>2, <2>2, ForwarderUpdates
    <3>3. [fwd EXCEPT !.queued = FALSE, !.announced = TRUE].pending = fwd.pending
        BY <1>2 DEF Forwarder
    <3> QED  BY <3>1, <3>2, <3>3
  <2> QED  BY <2>1, <2>3, <2>4 DEF Answered
<1>13. CASE PaceElapses
  <2>1. fwd' = [fwd EXCEPT !.paced = FALSE] /\ UNCHANGED <<raw, chan, ready, asks>>
      BY <1>13 DEF PaceElapses
  <2>2. fwd'.pending = fwd.pending
      BY <1>2, <2>1 DEF Forwarder
  <2> QED  BY <2>1, <2>2 DEF Answered
<1>14. Produce \/ Overwrite \/ Pump \/ ServeLagged \/ LagWindowCloses
       \/ (\E g \in lag.building : AbandonRecovery(g))
          => UNCHANGED <<raw, chan, ready, fwd, asks>>
    BY DEF Produce, Overwrite, Pump, PumpDuplicate, PumpForward, PumpResync, PumpUnavailable,
       ServeLagged, LagWindowCloses, AbandonRecovery
<1> QED  BY <1>4, <1>5, <1>6, <1>7, <1>8, <1>9, <1>10, <1>11, <1>12, <1>13, <1>14, Zenon
            DEF Connection, Forward

\* A latch keeps its answer.
LEMMA LatchStep ==
    ASSUME StreamInv, Next
    PROVE  LatchHasAnswer'
<1>1. QueueInv /\ PaneOK(pane) /\ LatchHasAnswer
    BY StreamParts
<1>2. CASE ~up'
    BY <1>2, LatchUnfolds
<1>3. CASE up' /\ (Produce \/ Overwrite \/ Pump \/ Connection \/ Forward)
  <2>1. pane' = pane
      BY <1>3 DEF Produce, Overwrite, Pump, PumpDuplicate, PumpForward, PumpResync,
         PumpUnavailable, Connection, ServeBus, ServeLagged, LagWindowCloses, BuildRecovery,
         AbandonRecovery, ReadRing, Reply, Forward, RouteSuperseded, RouteOutput,
         RouteStructured, DeliverPending, DeliverResync, DeliverUnavailable, PaceElapses
  <2>2. up
      BY <1>3, RestStep
  <2>3. Answered => Answered'
      BY <1>3, <2>1, AnswerMoves
  <2> QED  BY <1>1, <2>1, <2>2, <2>3, LatchUnfolds
<1>4. CASE up' /\ Receive
  <2>1. /\ chan # <<>> /\ Head(chan) \in Events /\ chan' = Tail(chan) /\ chan \in Seq(Events)
        /\ UNCHANGED <<raw, ready, fwd, asks>>
      BY <1>1, <1>4, ReceiveEffect DEF Receive, QueueInv
  <2>2. up
      BY <1>4, RestStep
  <2>3. SUFFICES ASSUME Desynced(pane'), pane'.latch, ~pane'.asking
                 PROVE  Answered'
      BY LatchUnfolds DEF Answered
  <2>4. Head(chan).kind = "Output" /\ Desynced(pane) /\ pane.latch
      BY <1>4, <2>3, ReceiveEffect
  <2>5. Answered
      BY <1>1, <2>2, <2>4, LatchUnfolds
  <2>6. ~pane.asking
    <3>1. pane' = AppendOutput(pane, Head(chan).seq)
        BY <1>4, <2>4, Zenon DEF Receive
    <3>2. Head(chan).seq \in 0 .. MaxSeq
        BY <2>1 DEF Events
    <3> QED  BY <1>1, <2>3, <3>1, <3>2, AppendEffect
  <2>7. Carries(chan, Answers) => Carries(chan', Answers)
      BY <2>1, <2>4, CarriesEnds DEF Answers
  <2> QED  BY <2>1, <2>5, <2>6, <2>7 DEF Answered
<1>5. CASE Retry \/ UserDistrusts
  <2>1. pane' \in {TickRetry(pane), Distrust(pane)}
      BY <1>5 DEF Retry, UserDistrusts
  <2>2. pane'.asking
      BY <1>1, <2>1, NoticeEffects
  <2> QED  BY <2>2, LatchUnfolds DEF Answered
<1>6. CASE up' /\ Flush
  <2>1. /\ pane.asking /\ pane' = [pane EXCEPT !.asking = FALSE]
        /\ asks' = IF Drained(pane) = None THEN asks ELSE Append(asks, Drained(pane))
        /\ UNCHANGED <<raw, chan, ready, fwd>>
      BY <1>6 DEF Flush
  <2>2. SUFFICES ASSUME Desynced(pane'), pane'.latch
                 PROVE  Answered'
      BY LatchUnfolds
  <2>3. Desynced(pane) /\ pane.latch
      BY <1>1, <2>1, <2>2, NoticeEffects DEF Desynced
  <2>4. Drained(pane) = pane.required /\ pane.required \in 0 .. MaxSeq
      BY <1>1, <2>1, <2>3, StreamBounds DEF Drained, PaneOK, Panes
  <2>5. PICK r \in 0 .. MaxSeq : r = pane.required /\ r # None
      BY <2>4, StreamBounds
  <2>6. asks' = Append(asks, r)
      BY <2>1, <2>4, <2>5
  <2>7. asks' # <<>>
      BY <1>1, <2>6 DEF QueueInv
  <2> QED  BY <2>7 DEF Answered
<1> QED  BY <1>2, <1>3, <1>4, <1>5, <1>6 DEF Next, Client

-----------------------------------------------------------------------------
(* The stream without faults                                               *)

\* There are events.
LEMMA SomeEvent ==
    Unavailable \in Events
BY StreamBounds DEF Unavailable, Events

\* Getting as far as a chunk is getting as far as the ones before it.
LEMMA ReachesLess ==
    ASSUME QueueInv, PaneOK(pane), NEW x \in Nat, NEW y \in Nat, y <= x
    PROVE  /\ Reach(x) => Reach(y)
           /\ Owed(x) => Owed(y)
           /\ Routed(x) => Routed(y)
<1>1. /\ raw \in Seq(Events) /\ chan \in Seq(Events) /\ fwd.pending \in Seq(Events)
      /\ fwd.debt \in Nat /\ pane.last \in Nat
    BY StreamBounds DEF QueueInv, PaneOK, Panes, Forwarder
<1>2. \A q \in Seq(Events) : Has(q, x) => Has(q, y)
    BY SomeEvent, HasEnds
<1>3. Reach(x) => Reach(y)
    BY <1>1, <1>2 DEF Reach
<1>4. Owed(x) => Owed(y)
    BY <1>1, <1>3 DEF Owed
<1>5. Routed(x) => Routed(y)
    BY <1>1, <1>2, <1>4 DEF Routed
<1> QED  BY <1>3, <1>4, <1>5

\* A step past the ingress that loses nothing owed.
LEMMA UpstreamKept ==
    ASSUME SourceInv, QueueInv, QueueInv', Upstream, UNCHANGED <<bus, raw, pump>>,
           \A x \in Nat : Owed(x) => Owed(x)', fwd'.debt <= fwd.debt
    PROVE  Upstream'
<1>1. /\ raw \in Seq(Events) /\ bus \in Seq(Events) /\ fwd.debt \in Nat /\ fwd'.debt \in Nat
      /\ pump.seq \in Nat
    BY StreamBounds DEF SourceInv, QueueInv, Forwarder
<1>2. \A x \in Nat : Routed(x) => Routed(x)'
    BY DEF Routed
<1>3. (\E b \in Nat : Owed(b) /\ Joins(raw, b))'
    BY DEF Upstream
<1>4. (\E c \in Nat : Routed(c) /\ Joins(bus, c))'
    BY <1>2 DEF Upstream
<1>5. PICK m \in Nat : fwd.debt <= m /\ m <= pump.seq
                       /\ Rises(raw, fwd.debt, m) /\ Rises(bus, m, pump.seq)
    BY DEF Upstream
<1>6. Rises(raw, fwd'.debt, m)
    BY <1>1, <1>5, SomeEvent, RisesEnds
<1>7. fwd'.debt <= m
    BY <1>1, <1>5
<1>8. (Routed(pump.seq) \/ Has(bus, pump.seq))'
  <2>1. CASE Has(bus, pump.seq)
      BY <2>1
  <2>2. CASE Routed(pump.seq)
    <3>1. PICK n \in Nat : n = pump.seq /\ n = pump'.seq
        BY <1>1
    <3>2. Routed(n)'
        BY <1>2, <2>2, <3>1
    <3> QED  BY <3>1, <3>2
  <2> QED  BY <2>1, <2>2 DEF Upstream
<1> QED  BY <1>3, <1>4, <1>5, <1>6, <1>7, <1>8 DEF Upstream

\* A step that takes the head of the ingress, which is owed from then on.
LEMMA UpstreamRouted ==
    ASSUME SourceInv, QueueInv, QueueInv', PaneOK(pane), PaneOK(pane'), Upstream,
           raw # <<>>, raw' = Tail(raw), UNCHANGED <<bus, pump>>,
           \A x \in Nat : Owed(x) => Owed(x)',
           NEW n \in Nat, n = Head(raw).seq, Owed(n)', fwd'.debt <= n
    PROVE  Upstream'
<1>1. /\ raw \in Seq(Events) /\ bus \in Seq(Events) /\ fwd.debt \in Nat /\ fwd'.debt \in Nat
      /\ pump.seq \in Nat /\ raw' \in Seq(Events)
    BY StreamBounds DEF SourceInv, QueueInv, Forwarder
<1>2. \A x \in Nat, y \in Nat : y <= x /\ Owed(x)' => Owed(y)'
  <2> SUFFICES ASSUME NEW x \in Nat, NEW y \in Nat, y <= x, Owed(x)'
               PROVE  Owed(y)'
      OBVIOUS
  <2>1. /\ chan' \in Seq(Events) /\ fwd'.pending \in Seq(Events) /\ pane'.last \in Nat
      BY StreamBounds DEF QueueInv, PaneOK, Panes, Forwarder
  <2>2. \A q \in Seq(Events) : Has(q, x) => Has(q, y)
      BY SomeEvent, HasEnds
  <2> QED  BY <1>1, <2>1, <2>2 DEF Owed, Reach
<1>3. \A x \in Nat : Routed(x) => Routed(x)'
  <2> SUFFICES ASSUME NEW x \in Nat, Routed(x)
               PROVE  Routed(x)'
      OBVIOUS
  <2>1. CASE Owed(x)
      BY <2>1 DEF Routed
  <2>2. CASE Has(raw, x)
    <3>1. Has(raw', x) \/ n >= x
        BY <1>1, <2>2, SomeEvent, HasEnds
    <3> QED  BY <1>2, <3>1 DEF Routed
  <2> QED  BY <2>1, <2>2 DEF Routed
<1>4. (\E b \in Nat : Owed(b) /\ Joins(raw, b))'
  <2>1. PICK b \in Nat : Owed(b) /\ Joins(raw, b)
      BY DEF Upstream
  <2>2. PICK c \in {b, n} : b <= c /\ n <= c
      OBVIOUS
  <2>3. Joins(Tail(raw), c)
      BY <1>1, <2>1, <2>2, SomeEvent, JoinsEnds
  <2>4. Owed(c)' /\ c \in Nat
      BY <2>1, <2>2
  <2> QED  BY <2>3, <2>4
<1>5. (\E c \in Nat : Routed(c) /\ Joins(bus, c))'
    BY <1>3 DEF Upstream
<1>6. (Routed(pump.seq) \/ Has(bus, pump.seq))'
  <2>1. PICK p \in Nat : p = pump.seq /\ p = pump'.seq
      BY <1>1
  <2>2. Routed(p) => Routed(p)'
      BY <1>3
  <2> QED  BY <2>1, <2>2 DEF Upstream
<1>7. PICK m \in Nat : fwd.debt <= m /\ m <= pump.seq
                       /\ Rises(raw, fwd.debt, m) /\ Rises(bus, m, pump.seq)
    BY DEF Upstream
<1>8. n <= m /\ Rises(Tail(raw), n, m)
    BY <1>1, <1>7, SomeEvent, RisesEnds
<1>9. Rises(raw', fwd'.debt, m)
  <2>1. PICK d \in Nat : d = fwd'.debt /\ d <= n
      BY <1>1
  <2>2. PICK q \in Seq(Events) : q = Tail(raw)
      BY <1>1
  <2>3. Rises(q, n, m) /\ m <= m
      BY <1>8, <2>2
  <2>4. \A l \in Nat, h \in Nat : l <= n /\ m <= h => Rises(q, l, h)
      BY <2>3, SomeEvent, RisesEnds
  <2>5. Rises(q, d, m)
      BY <2>1, <2>3, <2>4
  <2> QED  BY <2>1, <2>2, <2>5
<1>10. fwd'.debt <= m
    BY <1>1, <1>8
<1> QED  BY <1>4, <1>5, <1>6, <1>7, <1>9, <1>10 DEF Upstream

\* A step of a healthy connection comes from one where all is joined, and is
\* no fault.
LEMMA HealthyStep ==
    ASSUME StreamInv, Next, Healthy'
    PROVE  up /\ ~Desynced(pane) /\ Flowing /\ ~Spend("faults") /\ ~Overwrite
<1>1. up
    BY DEF Next, Produce, Overwrite, Pump, PumpDuplicate, PumpForward, PumpResync, PumpUnavailable,
       Connection, ServeBus, ServeLagged, LagWindowCloses, BuildRecovery, AbandonRecovery,
       ReadRing, Reply, Forward, RouteSuperseded, RouteOutput, RouteStructured, DeliverPending,
       DeliverResync, DeliverUnavailable, Delivers, PaceElapses, Client, Receive, Retry,
       UserDistrusts, Flush
<1>2. Healthy /\ StaysJoined /\ RestInv /\ LagInv
    BY RestStep, StreamParts
<1>3. ~Desynced(pane) /\ Flowing
    BY <1>1, <1>2 DEF StaysJoined
<1>4. ~Spend("faults")
  <2> SUFFICES ASSUME Spend("faults") PROVE FALSE
      OBVIOUS
  <2>1. budget'.faults < budget.faults
      BY <1>2, SpendEffect
  <2> QED  BY <1>2, <2>1, StreamBounds DEF Healthy
<1>5. ~Overwrite
  <2> SUFFICES ASSUME Overwrite PROVE FALSE
      OBVIOUS
  <2>1. ~lag.lagged
      BY <1>3 DEF Flowing, Calm
  <2>2. lag' = [lag EXCEPT !.lagged = TRUE, !.left = lag.left - 1]
      BY <2>1 DEF Overwrite
  <2>3. lag'.left = lag.left - 1
      BY <1>2, <2>2 DEF LagInv
  <2> QED  BY <1>2, <2>3, StreamBounds DEF Healthy
<1> QED  BY <1>1, <1>3, <1>4, <1>5

\* What the pump publishes joins what it has published.
LEMMA PumpFlow ==
    ASSUME StreamInv, Flowing, PumpForward \/ PumpResync
    PROVE  Flowing'
<1>1. QueueInv /\ SourceInv /\ PaneOK(pane)
    BY StreamParts
<1>2. /\ raw \in Seq(Events) /\ bus \in Seq(Events) /\ pump.seq \in Nat /\ ring \in 0 .. MaxSeq
      /\ live \in Seq(1 .. MaxSeq) /\ pump.seq <= ring /\ pump.announced \in BOOLEAN
      /\ pump \in [seq: 0 .. MaxSeq, heard: 0 .. MaxSeq, announced: BOOLEAN]
    BY <1>1, StreamBounds DEF SourceInv, QueueInv, RingIsAhead
<1>3. UNCHANGED <<lag, raw, fwd, chan, pane, asks, ready>>
    BY DEF PumpForward, PumpResync
<1>4. PICK e \in Events :
        /\ bus' = Append(bus, e) /\ pump'.seq = e.seq /\ ~pump'.announced
        /\ e.kind \in {"Output", "Resync"} /\ pump.seq <= e.seq
        /\ e.kind # "Output" \/ e.seq = pump.seq + 1
  <2>1. ~pump.announced
      BY DEF Flowing, Calm
  <2>2. CASE PumpForward
    <3>1. /\ live # <<>> /\ Head(live) = pump.seq + 1 /\ bus' = Append(bus, Output(Head(live)))
          /\ pump' = [pump EXCEPT !.seq = Head(live), !.heard = Head(live)]
        BY <2>2 DEF PumpForward, Publish
    <3>2. PICK s \in 0 .. MaxSeq : s = Head(live) /\ s = pump.seq + 1
      <4>1. Head(live) \in 1 .. MaxSeq
          BY <1>2, <3>1, QueuePop
      <4> QED  BY <3>1, <4>1
    <3>3. pump'.seq = s /\ ~pump'.announced
        BY <1>2, <2>1, <3>1, <3>2
    <3>4. Output(s) \in Events /\ Output(s).kind = "Output" /\ Output(s).seq = s
        BY EventKinds
    <3> QED  BY <1>2, <3>1, <3>2, <3>3, <3>4
  <2>3. CASE PumpResync
    <3>1. /\ bus' = Append(bus, Resync(ring, FALSE))
          /\ pump' = [seq |-> ring, heard |-> Head(live), announced |-> FALSE]
        BY <2>3 DEF PumpResync, Publish
    <3>2. pump'.seq = ring /\ ~pump'.announced
        BY <3>1
    <3>3. /\ Resync(ring, FALSE) \in Events /\ Resync(ring, FALSE).kind = "Resync"
          /\ Resync(ring, FALSE).seq = ring
        BY <1>2, EventKinds
    <3> QED  BY <1>2, <3>1, <3>2, <3>3
  <2> QED  BY <2>2, <2>3
<1>5. e.seq \in Nat
    BY EventSeq
<1>6. Calm'
  <2>1. Only(bus, {"Output", "Resync"})
      BY DEF Flowing, Calm
  <2>2. Only(bus', {"Output", "Resync"})
      BY <1>2, <1>4, <2>1, OnlyEnds
  <2> QED  BY <1>3, <1>4, <2>2 DEF Flowing, Calm
<1>7. \A x \in Nat : (Owed(x)' <=> Owed(x)) /\ (Routed(x)' <=> Routed(x))
    BY <1>3 DEF Owed, Reach, Routed
<1>8. (\E c \in Nat : Routed(c) /\ Joins(bus, c))'
  <2>1. PICK c \in Nat : Routed(c) /\ Joins(bus, c)
      BY DEF Flowing, Upstream
  <2>2. CASE e.kind # "Output"
    <3>1. Joins(Append(bus, e), c)
        BY <1>2, <2>1, <2>2, JoinsEnds
    <3> QED  BY <1>4, <1>7, <2>1, <3>1
  <2>3. CASE e.seq = pump.seq + 1 /\ Has(bus, pump.seq)
    <3>1. Joins(Append(bus, e), c)
        BY <1>2, <2>1, <2>3, JoinsEnds
    <3> QED  BY <1>4, <1>7, <2>1, <3>1
  <2>4. CASE e.seq = pump.seq + 1 /\ Routed(pump.seq)
    <3>1. PICK d \in {c, pump.seq} : c <= d /\ pump.seq <= d
        BY <1>2
    <3>2. d \in Nat /\ Routed(d) /\ e.seq <= d + 1
        BY <1>2, <2>1, <2>4, <3>1
    <3>3. Joins(bus, d)
        BY <1>2, <2>1, <3>1, <3>2, JoinsEnds
    <3>4. Joins(Append(bus, e), d)
        BY <1>2, <3>2, <3>3, JoinsEnds
    <3> QED  BY <1>4, <1>7, <3>2, <3>4
  <2> QED  BY <1>4, <2>2, <2>3, <2>4 DEF Flowing, Upstream
<1>9. Has(bus', pump'.seq)
    BY <1>2, <1>4, <1>5, HasEnds
<1>10. PICK m \in Nat : fwd.debt <= m /\ m <= pump.seq
                       /\ Rises(raw, fwd.debt, m) /\ Rises(bus, m, pump.seq)
    BY DEF Flowing, Upstream
<1>11. Rises(Append(bus, e), m, e.seq) /\ m <= e.seq
    BY <1>2, <1>4, <1>5, <1>10, RisesEnds
<1>12. (\E b \in Nat : Owed(b) /\ Joins(raw, b))'
    BY <1>3, <1>7 DEF Flowing, Upstream
<1>13. Upstream'
    BY <1>3, <1>4, <1>8, <1>9, <1>10, <1>11, <1>12 DEF Upstream
<1>14. (Joins(chan, pane.last) /\ Reach(fwd.covered))'
    BY <1>3 DEF Flowing, Reach
<1> QED  BY <1>6, <1>13, <1>14 DEF Flowing

\* What is served joins the ingress, and what stays on the bus joins it.
LEMMA ServeFlow ==
    ASSUME StreamInv, Flowing, ServeBus, up'
    PROVE  Flowing'
<1>1. QueueInv /\ SourceInv /\ PaneOK(pane)
    BY StreamParts
<1>2. /\ raw \in Seq(Events) /\ bus \in Seq(Events) /\ pump.seq \in Nat /\ fwd.debt \in Nat
    BY <1>1, StreamBounds DEF SourceInv, QueueInv, Forwarder
<1>3. UNCHANGED <<lag, pump, fwd, chan, pane, asks, ready>> /\ up /\ bus # <<>> /\ bus' = Tail(bus)
    BY DEF ServeBus
<1>4. PICK e \in Events : e = Head(bus) /\ e.seq \in Nat
    BY <1>2, <1>3, QueuePop, EventSeq
<1>5. raw' = Append(raw, e)
    BY <1>2, <1>3, <1>4, AdmitEffect DEF ServeBus
<1>6. e.kind \in {"Output", "Resync"} /\ Only(bus', {"Output", "Resync"})
    BY <1>2, <1>3, <1>4, OnlyEnds DEF Flowing, Calm
<1>7. Calm'
  <2>1. Only(raw', {"Output", "Resync"})
      BY <1>2, <1>5, <1>6, OnlyEnds DEF Flowing, Calm
  <2> QED  BY <1>3, <1>6, <2>1 DEF Flowing, Calm
<1>8. \A x \in Nat : /\ Owed(x) => Owed(x)'
                     /\ Routed(x) => Routed(x)'
                     /\ e.seq >= x => Routed(x)'
    BY <1>2, <1>3, <1>5, HasEnds DEF Owed, Reach, Routed
<1>9. PICK c \in Nat : Routed(c) /\ Joins(bus, c)
    BY DEF Flowing, Upstream
<1>10. e.kind = "Output" => e.seq <= c + 1
    BY <1>2, <1>3, <1>4, <1>9, JoinsEnds
<1>11. (\E b \in Nat : Owed(b) /\ Joins(raw, b))'
  <2>1. PICK b \in Nat : Owed(b) /\ Joins(raw, b)
      BY DEF Flowing, Upstream
  <2>2. CASE e.kind # "Output"
    <3>1. Joins(Append(raw, e), b)
        BY <1>2, <2>1, <2>2, JoinsEnds
    <3> QED  BY <1>5, <1>8, <2>1, <3>1
  <2>3. CASE e.seq <= c + 1 /\ Has(raw, c)
    <3>1. Joins(Append(raw, e), b)
        BY <1>2, <2>1, <2>3, JoinsEnds
    <3> QED  BY <1>5, <1>8, <2>1, <3>1
  <2>4. CASE e.seq <= c + 1 /\ Owed(c)
    <3>1. PICK d \in {b, c} : b <= d /\ c <= d
        OBVIOUS
    <3>2. d \in Nat /\ Owed(d) /\ e.seq <= d + 1
        BY <1>4, <2>1, <2>4, <3>1
    <3>3. Joins(raw, d)
        BY <1>2, <2>1, <3>1, <3>2, JoinsEnds
    <3>4. Joins(Append(raw, e), d)
        BY <1>2, <3>2, <3>3, JoinsEnds
    <3> QED  BY <1>5, <1>8, <3>2, <3>4
  <2> QED  BY <1>9, <1>10, <2>2, <2>3, <2>4 DEF Routed
<1>12. (\E d \in Nat : Routed(d) /\ Joins(bus, d))'
  <2>1. PICK d \in {c, e.seq} : c <= d /\ e.seq <= d
      BY <1>4
  <2>2. d \in Nat /\ Routed(d)'
      BY <1>4, <1>8, <1>9, <2>1
  <2>3. Joins(Tail(bus), d)
      BY <1>2, <1>3, <1>4, <1>9, <2>1, <2>2, JoinsEnds
  <2> QED  BY <1>3, <2>2, <2>3
<1>13. (Routed(pump.seq) \/ Has(bus, pump.seq))'
  <2>1. PICK p \in Nat : p = pump.seq /\ p = pump'.seq
      BY <1>2, <1>3
  <2>2. Has(bus, p) => Has(Tail(bus), p) \/ e.seq >= p
      BY <1>2, <1>3, <1>4, HasEnds
  <2>3. Routed(p) \/ Has(bus, p)
      BY <2>1 DEF Flowing, Upstream
  <2> QED  BY <1>3, <1>8, <2>1, <2>2, <2>3
<1>14. PICK m \in Nat : fwd.debt <= m /\ m <= pump.seq
                       /\ Rises(raw, fwd.debt, m) /\ Rises(bus, m, pump.seq)
    BY DEF Flowing, Upstream
<1>15. m <= e.seq /\ e.seq <= pump.seq /\ Rises(Tail(bus), e.seq, pump.seq)
    BY <1>2, <1>3, <1>4, <1>14, RisesEnds
<1>16. fwd.debt <= e.seq
    BY <1>2, <1>4, <1>14, <1>15
<1>17. Rises(Append(raw, e), fwd.debt, e.seq)
    BY <1>2, <1>14, <1>15, <1>16, RisesEnds
<1>18. Upstream'
    BY <1>3, <1>4, <1>5, <1>11, <1>12, <1>13, <1>15, <1>16, <1>17 DEF Upstream
<1>19. (Joins(chan, pane.last) /\ Reach(fwd.covered))'
    BY <1>3 DEF Flowing, Reach
<1> QED  BY <1>7, <1>18, <1>19 DEF Flowing

\* A chunk that is routed is covered, owed, or passed on where it joins.
LEMMA RouteFlow ==
    ASSUME StreamInv, Flowing, RouteSuperseded \/ RouteOutput, QueueInv'
    PROVE  Flowing'
<1>1. QueueInv /\ SourceInv /\ PaneOK(pane)
    BY StreamParts
<1>2. /\ raw \in Seq(Events) /\ chan \in Seq(Events) /\ fwd.debt \in Nat /\ fwd.covered \in Nat
      /\ fwd.pending \in Seq(Events) /\ pane.last \in Nat /\ fwd \in Forwarder
      /\ ring \in 0 .. MaxSeq
    BY <1>1, StreamBounds DEF SourceInv, QueueInv, Forwarder, PaneOK, Panes
<1>3. /\ UNCHANGED <<lag, pump, bus, pane, asks, ready>> /\ raw # <<>> /\ raw' = Tail(raw)
      /\ Head(raw).kind = "Output"
    BY DEF RouteSuperseded, RouteOutput, Routes
<1>4. PICK e \in Events : e = Head(raw) /\ e.seq \in Nat
    BY <1>2, <1>3, QueuePop, EventSeq
<1>5. PICK b \in Nat : Owed(b) /\ Joins(raw, b)
    BY DEF Flowing, Upstream
<1>6. e.seq <= b + 1
    BY <1>2, <1>3, <1>4, <1>5, JoinsEnds
<1>7. fwd.debt <= e.seq
  <2>1. PICK m \in Nat : Rises(raw, fwd.debt, m)
      BY DEF Flowing, Upstream
  <2> QED  BY <1>2, <1>3, <1>4, <2>1, RisesEnds
<1>8. Only(raw', {"Output", "Resync"})
    BY <1>2, <1>3, <1>4, OnlyEnds DEF Flowing, Calm
<1>9. CASE fwd' = fwd /\ chan' = chan /\ e.seq <= fwd.covered
  <2>1. Calm' /\ (Joins(chan, pane.last) /\ Reach(fwd.covered))'
      BY <1>3, <1>8, <1>9 DEF Flowing, Calm, Reach
  <2>2. \A x \in Nat : Owed(x) => Owed(x)'
      BY <1>3, <1>9 DEF Owed, Reach
  <2>3. Owed(e.seq)
      BY <1>1, <1>2, <1>4, <1>9, ReachesLess DEF Flowing, Owed
  <2>4. Upstream'
      BY <1>1, <1>3, <1>4, <1>7, <1>9, <2>2, <2>3, UpstreamRouted DEF Flowing
  <2> QED  BY <2>1, <2>4 DEF Flowing
<1>10. CASE fwd' = Scheduled(e.seq) /\ chan' = chan
  <2>1. /\ fwd'.pending = fwd.pending /\ fwd'.covered = fwd.covered
        /\ fwd'.debt = Larger(fwd.debt, e.seq)
      BY <1>2, <1>10, ForwarderUpdates
  <2>2. fwd'.debt = e.seq
      BY <1>2, <1>4, <1>7, <2>1 DEF Larger
  <2>3. Calm' /\ (Joins(chan, pane.last) /\ Reach(fwd.covered))'
      BY <1>3, <1>8, <1>10, <2>1 DEF Flowing, Calm, Reach
  <2>4. \A x \in Nat : Owed(x) => Owed(x)'
      BY <1>2, <1>3, <1>4, <1>7, <1>10, <2>1, <2>2 DEF Owed, Reach
  <2>5. Owed(e.seq)'
      BY <1>4, <2>2 DEF Owed
  <2>6. Upstream'
      BY <1>1, <1>3, <1>4, <2>2, <2>4, <2>5, UpstreamRouted DEF Flowing
  <2> QED  BY <2>3, <2>6 DEF Flowing
<1>11. CASE fwd' = fwd /\ chan' = Append(chan, e) /\ fwd.pending = <<>> /\ fwd.debt = 0
  <2>1. Only(chan', {"Output", "Resync"})
      BY <1>2, <1>3, <1>4, <1>11, OnlyEnds DEF Flowing, Calm
  <2>2. \A x \in Nat : /\ Reach(x) => Reach(x)'
                       /\ Owed(x) => Owed(x)'
                       /\ e.seq >= x => Owed(x)'
      BY <1>2, <1>3, <1>11, HasEnds DEF Owed, Reach
  <2>3. Joins(chan', pane'.last)
    <3>1. pane.last >= b \/ Has(chan, b) \/ b = 0
      <4>1. ~Has(fwd.pending, b)
          BY <1>11 DEF Has
      <4> QED  BY <1>5, <1>11, <4>1 DEF Owed, Reach
    <3>2. Joins(chan, pane.last)
        BY DEF Flowing
    <3>3. CASE Has(chan, b)
        BY <1>2, <1>3, <1>6, <1>11, <3>2, <3>3, JoinsEnds
    <3>4. CASE pane.last >= b \/ b = 0
      <4>1. e.seq <= pane.last + 1
          BY <1>2, <1>4, <1>6, <3>4
      <4> QED  BY <1>2, <1>3, <1>11, <3>2, <4>1, JoinsEnds
    <3> QED  BY <3>1, <3>3, <3>4
  <2>4. Reach(fwd.covered)'
    <3>1. PICK x \in Nat : x = fwd.covered /\ x = fwd'.covered
        BY <1>2, <1>11
    <3>2. Reach(x)
        BY <3>1 DEF Flowing
    <3> QED  BY <2>2, <3>1, <3>2
  <2>5. Calm'
      BY <1>3, <1>8, <1>11, <2>1 DEF Flowing, Calm
  <2>6. Owed(e.seq)' /\ fwd'.debt <= e.seq
      BY <1>4, <1>7, <1>11, <2>2
  <2>7. PaneOK(pane')
      BY <1>1, <1>3
  <2>8. Upstream'
      BY <1>1, <1>3, <1>4, <2>2, <2>6, <2>7, UpstreamRouted DEF Flowing
  <2> QED  BY <2>3, <2>4, <2>5, <2>8 DEF Flowing
<1>12. CASE RouteSuperseded
    BY <1>4, <1>9, <1>12 DEF RouteSuperseded
<1>13. CASE RouteOutput
  <2>1. CASE Blocked \/ ~HasRoom
      BY <1>4, <1>10, <1>13, <2>1 DEF RouteOutput
  <2>2. CASE ~(Blocked \/ ~HasRoom)
      BY <1>2, <1>4, <1>11, <1>13, <2>2 DEF RouteOutput, Blocked
  <2> QED  BY <2>1, <2>2
<1> QED  BY <1>12, <1>13

\* A replay, routed or materialised by the forwarder, pays what is owed.
LEMMA ReplayFlow ==
    ASSUME StreamInv, Flowing, RouteStructured \/ DeliverResync, up', QueueInv'
    PROVE  Flowing'
<1>1. QueueInv /\ SourceInv /\ PaneOK(pane)
    BY StreamParts
<1>2. /\ raw \in Seq(Events) /\ chan \in Seq(Events) /\ fwd.debt \in Nat /\ fwd.covered \in Nat
      /\ fwd.pending \in Seq(Events) /\ pane.last \in Nat /\ fwd \in Forwarder
      /\ ring \in 0 .. MaxSeq
    BY <1>1, StreamBounds DEF SourceInv, QueueInv, Forwarder, PaneOK, Panes
<1>3. UNCHANGED <<lag, pump, bus, pane, asks, ready>>
    BY DEF RouteStructured, DeliverResync
<1>4. PICK e \in Events :
        /\ e.kind = "Resync" /\ e.seq \in Nat /\ fwd.debt <= e.seq
        /\ \/ raw' = raw
           \/ raw # <<>> /\ e = Head(raw) /\ raw' = Tail(raw)
        /\ \/ chan' = Append(chan, e) /\ fwd'.pending = fwd.pending
           \/ chan' = chan /\ fwd'.pending = Append(fwd.pending, e)
        /\ fwd'.debt = 0 /\ fwd'.covered = Larger(fwd.covered, e.seq)
  <2>1. CASE RouteStructured
    <3>1. raw # <<>> /\ raw' = Tail(raw) /\ Head(raw).kind # "Output"
        BY <2>1 DEF RouteStructured, Routes
    <3>2. PICK e \in Events : e = Head(raw) /\ e.seq \in Nat
        BY <1>2, <3>1, QueuePop, EventSeq
    <3>3. e.kind = "Resync"
        BY <1>2, <3>1, <3>2, OnlyEnds DEF Flowing, Calm
    <3>4. fwd.debt <= e.seq
      <4>1. PICK m \in Nat : Rises(raw, fwd.debt, m)
          BY DEF Flowing, Upstream
      <4> QED  BY <1>2, <3>1, <3>2, <4>1, RisesEnds
    <3>5. /\ Covering(e) \in Forwarder /\ Covering(e).pending = fwd.pending
          /\ Covering(e).debt = 0 /\ Covering(e).covered = Larger(fwd.covered, e.seq)
        BY <1>2, <3>3, ForwarderUpdates DEF Replays
    <3>6. \/ chan' = Append(chan, e) /\ fwd' = Covering(e)
          \/ chan' = chan /\ fwd' = [Covering(e) EXCEPT !.pending = Append(@, e)]
        BY <2>1, <3>2, Zenon DEF RouteStructured
    <3>7. CASE chan' = Append(chan, e) /\ fwd' = Covering(e)
        BY <3>1, <3>2, <3>3, <3>4, <3>5, <3>7
    <3>8. CASE chan' = chan /\ fwd' = [Covering(e) EXCEPT !.pending = Append(@, e)]
      <4>1. /\ fwd'.pending = Append(fwd.pending, e) /\ fwd'.debt = 0
            /\ fwd'.covered = Larger(fwd.covered, e.seq)
          BY <3>5, <3>8, PendingUpdates
      <4> QED  BY <3>1, <3>2, <3>3, <3>4, <3>8, <4>1
    <3> QED  BY <3>6, <3>7, <3>8
  <2>2. CASE DeliverResync
    <3>1. /\ chan' = Append(chan, Resync(ring, FALSE)) /\ fwd' = Paid /\ raw' = raw
          /\ ring >= fwd.debt
        BY <2>2 DEF DeliverResync
    <3>2. PICK e \in Events : e = Resync(ring, FALSE) /\ e.kind = "Resync" /\ e.seq = ring
        BY <1>2, EventKinds
    <3>3. /\ fwd'.pending = fwd.pending /\ fwd'.debt = 0
          /\ fwd'.covered = Larger(fwd.covered, ring)
        BY <1>2, <3>1, <3>2, ForwarderUpdates
    <3>4. ring \in Nat
        BY <1>2, StreamBounds
    <3> QED  BY <1>2, <3>1, <3>2, <3>3, <3>4
  <2> QED  BY <2>1, <2>2
<1>5. /\ Only(chan', {"Output", "Resync"}) /\ Only(fwd'.pending, {"Resync"})
      /\ Only(raw', {"Output", "Resync"})
  <2>1. /\ Only(chan, {"Output", "Resync"}) /\ Only(fwd.pending, {"Resync"})
        /\ Only(raw, {"Output", "Resync"})
      BY DEF Flowing, Calm
  <2>2. Only(Append(chan, e), {"Output", "Resync"}) /\ Only(Append(fwd.pending, e), {"Resync"})
      BY <1>2, <1>4, <2>1, OnlyEnds
  <2>3. raw # <<>> => Only(Tail(raw), {"Output", "Resync"})
      BY <1>2, <2>1, SomeEvent, OnlyEnds
  <2> QED  BY <1>4, <2>1, <2>2, <2>3
<1>6. Calm'
    BY <1>3, <1>5 DEF Flowing, Calm
<1>7. \A x \in Nat : /\ Reach(x) => Reach(x)'
                     /\ e.seq >= x => Reach(x)'
  <2> SUFFICES ASSUME NEW x \in Nat
               PROVE  (Reach(x) => Reach(x)') /\ (e.seq >= x => Reach(x)')
      OBVIOUS
  <2>1. /\ Has(Append(chan, e), x) <=> Has(chan, x) \/ e.seq >= x
        /\ Has(Append(fwd.pending, e), x) <=> Has(fwd.pending, x) \/ e.seq >= x
      BY <1>2, HasEnds
  <2> QED  BY <1>3, <1>4, <2>1 DEF Reach
<1>8. \A x \in Nat : Owed(x) => Owed(x)'
  <2>1. \A x \in Nat : fwd.debt >= x => e.seq >= x
      BY <1>2, <1>4
  <2> QED  BY <1>7, <2>1 DEF Owed
<1>9. Reach(fwd.covered)'
  <2>1. PICK x \in {fwd.covered, e.seq} : x = fwd'.covered
      BY <1>4 DEF Larger
  <2>2. CASE x = fwd.covered
      BY <1>2, <1>7, <2>1, <2>2 DEF Flowing
  <2>3. CASE x = e.seq
    <3>1. e.seq >= e.seq
        BY <1>4
    <3> QED  BY <1>4, <1>7, <2>1, <2>3, <3>1
  <2> QED  BY <2>1, <2>2, <2>3
<1>10. Joins(chan', pane'.last)
  <2>1. Joins(chan, pane.last)
      BY DEF Flowing
  <2>2. Joins(Append(chan, e), pane.last)
      BY <1>2, <1>4, <2>1, JoinsEnds
  <2> QED  BY <1>3, <1>4, <2>1, <2>2
<1>11. PaneOK(pane')
    BY <1>1, <1>3
<1>12. Upstream'
  <2>1. CASE raw' = raw
    <3>1. fwd'.debt <= fwd.debt
        BY <1>2, <1>4
    <3> QED  BY <1>1, <1>3, <1>8, <2>1, <3>1, UpstreamKept DEF Flowing
  <2>2. CASE raw # <<>> /\ e = Head(raw) /\ raw' = Tail(raw)
    <3>1. PICK n \in Nat : n = e.seq /\ n >= n
        BY <1>4
    <3>2. Owed(n)' /\ fwd'.debt <= n
        BY <1>4, <1>7, <3>1 DEF Owed
    <3> QED  BY <1>1, <1>3, <1>8, <1>11, <2>2, <3>1, <3>2, UpstreamRouted DEF Flowing
  <2> QED  BY <1>4, <2>1, <2>2
<1> QED  BY <1>6, <1>9, <1>10, <1>12 DEF Flowing

\* What waits is delivered where it joins, and a timer changes nothing of it.
LEMMA DeliverFlow ==
    ASSUME StreamInv, Flowing, DeliverPending \/ PaceElapses, QueueInv'
    PROVE  Flowing'
<1>1. QueueInv /\ SourceInv /\ PaneOK(pane)
    BY StreamParts
<1>2. /\ chan \in Seq(Events) /\ fwd.debt \in Nat /\ fwd.covered \in Nat
      /\ fwd.pending \in Seq(Events) /\ pane.last \in Nat /\ fwd \in Forwarder
    BY <1>1, StreamBounds DEF QueueInv, Forwarder, PaneOK, Panes
<1>3. UNCHANGED <<lag, raw, pump, bus, pane, asks, ready>>
    BY DEF DeliverPending, PaceElapses
<1>4. /\ \/ chan' = chan /\ fwd'.pending = fwd.pending
         \/ /\ fwd.pending # <<>> /\ Head(fwd.pending) \in Events
            /\ chan' = Append(chan, Head(fwd.pending)) /\ fwd'.pending = Tail(fwd.pending)
      /\ fwd'.debt = fwd.debt /\ fwd'.covered = fwd.covered
  <2>1. CASE DeliverPending
    <3>1. /\ fwd.pending # <<>> /\ chan' = Append(chan, Head(fwd.pending))
          /\ fwd' = [fwd EXCEPT !.pending = Tail(@)]
        BY <2>1 DEF DeliverPending
    <3> QED  BY <1>2, <3>1, SomeEvent, PendingUpdates
  <2>2. CASE PaceElapses
    <3>1. chan' = chan /\ fwd' = [fwd EXCEPT !.paced = FALSE]
        BY <2>2 DEF PaceElapses
    <3> QED  BY <1>2, <3>1 DEF Forwarder
  <2> QED  BY <2>1, <2>2
<1>5. CASE chan' = chan /\ fwd'.pending = fwd.pending
  <2>1. \A x \in Nat : Owed(x) => Owed(x)'
      BY <1>3, <1>4, <1>5 DEF Owed, Reach
  <2>2. fwd'.debt <= fwd.debt
      BY <1>2, <1>4
  <2>3. Upstream'
      BY <1>1, <1>3, <2>1, <2>2, UpstreamKept DEF Flowing
  <2>4. Calm' /\ Joins(chan', pane'.last) /\ Reach(fwd.covered)'
      BY <1>3, <1>4, <1>5 DEF Flowing, Calm, Reach
  <2> QED  BY <2>3, <2>4 DEF Flowing
<1>6. ASSUME NEW e \in Events, fwd.pending # <<>>, e = Head(fwd.pending), chan' = Append(chan, e),
             fwd'.pending = Tail(fwd.pending)
      PROVE  Flowing'
  <2>1. e.kind = "Resync" /\ Only(fwd'.pending, {"Resync"})
      BY <1>2, <1>6, OnlyEnds DEF Flowing, Calm
  <2>2. Only(chan', {"Output", "Resync"})
      BY <1>2, <1>6, <2>1, OnlyEnds DEF Flowing, Calm
  <2>3. Calm'
      BY <1>3, <2>1, <2>2 DEF Flowing, Calm
  <2>4. \A x \in Nat : Reach(x) => Reach(x)'
    <3> SUFFICES ASSUME NEW x \in Nat, Reach(x)
                 PROVE  Reach(x)'
        OBVIOUS
    <3>1. /\ Has(Append(chan, e), x) <=> Has(chan, x) \/ e.seq >= x
          /\ Has(fwd.pending, x) => Has(Tail(fwd.pending), x) \/ e.seq >= x
        BY <1>2, <1>6, HasEnds
    <3> QED  BY <1>3, <1>6, <3>1 DEF Reach
  <2>5. \A x \in Nat : Owed(x) => Owed(x)'
      BY <1>4, <2>4 DEF Owed
  <2>6. fwd'.debt <= fwd.debt
      BY <1>2, <1>4
  <2>7. Upstream'
      BY <1>1, <1>3, <2>5, <2>6, UpstreamKept DEF Flowing
  <2>8. Joins(chan', pane'.last)
      BY <1>2, <1>3, <1>6, <2>1, JoinsEnds DEF Flowing
  <2>9. Reach(fwd.covered)'
    <3>1. PICK x \in Nat : x = fwd.covered /\ x = fwd'.covered
        BY <1>2, <1>4
    <3> QED  BY <2>4, <3>1 DEF Flowing
  <2> QED  BY <2>3, <2>7, <2>8, <2>9 DEF Flowing
<1> QED  BY <1>4, <1>5, <1>6

\* What the client receives is the next chunk, an old one, or a replay.
LEMMA ReceiveFlow ==
    ASSUME StreamInv, Flowing, ~Desynced(pane), Receive, ~Spend("faults"), QueueInv'
    PROVE  Flowing' /\ ~Desynced(pane')
<1>1. QueueInv /\ SourceInv /\ PaneOK(pane)
    BY StreamParts
<1>2. /\ chan \in Seq(Events) /\ fwd.debt \in Nat /\ fwd.covered \in Nat
      /\ fwd.pending \in Seq(Events) /\ pane.last \in Nat /\ fwd \in Forwarder
    BY <1>1, StreamBounds DEF QueueInv, Forwarder, PaneOK, Panes
<1>3. UNCHANGED <<lag, raw, pump, bus, fwd, asks, ready>> /\ chan # <<>> /\ chan' = Tail(chan)
    BY DEF Receive
<1>4. PICK e \in Events : e = Head(chan) /\ e.seq \in Nat
    BY <1>2, <1>3, QueuePop, EventSeq
<1>5. e.kind \in {"Output", "Resync"} /\ Only(chan', {"Output", "Resync"})
    BY <1>2, <1>3, <1>4, OnlyEnds DEF Flowing, Calm
<1>6. e.kind = "Output" => e.seq <= pane.last + 1
    BY <1>2, <1>3, <1>4, JoinsEnds DEF Flowing
<1>7. \/ e.kind = "Output" /\ pane' = AppendOutput(pane, e.seq)
      \/ e.kind = "Resync" /\ pane' = ResyncTerminal(pane, e.seq, TRUE)
    BY <1>4, <1>5 DEF Receive
<1>8. /\ ~Desynced(pane') /\ pane'.last = Larger(pane.last, e.seq)
      /\ pane'.asking = pane.asking
  <2>1. e.seq \in 0 .. MaxSeq
      BY DEF Events
  <2>2. CASE e.kind = "Output" /\ pane' = AppendOutput(pane, e.seq)
      BY <1>1, <1>6, <2>1, <2>2, AppendEffect
  <2>3. CASE pane' = ResyncTerminal(pane, e.seq, TRUE)
      BY <1>1, <2>1, <2>3, ResyncEffect
  <2> QED  BY <1>7, <2>2, <2>3
<1>9. /\ pane'.last \in Nat /\ pane.last <= pane'.last /\ e.seq <= pane'.last
    BY <1>2, <1>4, <1>8 DEF Larger
<1>10. Calm'
    BY <1>3, <1>5, <1>8 DEF Flowing, Calm
<1>11. Joins(chan', pane'.last)
    BY <1>2, <1>3, <1>4, <1>9, JoinsEnds DEF Flowing
<1>12. \A x \in Nat : Reach(x) => Reach(x)'
  <2> SUFFICES ASSUME NEW x \in Nat, Reach(x)
               PROVE  Reach(x)'
      OBVIOUS
  <2>1. Has(chan, x) => Has(Tail(chan), x) \/ e.seq >= x
      BY <1>2, <1>3, <1>4, HasEnds
  <2> QED  BY <1>2, <1>3, <1>4, <1>9, <2>1 DEF Reach
<1>13. \A x \in Nat : Owed(x) => Owed(x)'
    BY <1>3, <1>12 DEF Owed
<1>14. fwd'.debt <= fwd.debt
    BY <1>2, <1>3
<1>15. Upstream'
    BY <1>1, <1>3, <1>13, <1>14, UpstreamKept DEF Flowing
<1>16. Reach(fwd.covered)'
  <2>1. PICK x \in Nat : x = fwd.covered /\ x = fwd'.covered
      BY <1>2, <1>3
  <2> QED  BY <1>12, <2>1 DEF Flowing
<1> QED  BY <1>8, <1>10, <1>11, <1>15, <1>16 DEF Flowing

\* All stays joined.
LEMMA JoinedStep ==
    ASSUME StreamInv, Next
    PROVE  StaysJoined'
<1> SUFFICES ASSUME Healthy'
             PROVE  ~Desynced(pane') /\ (up' => Flowing')
    BY DEF StaysJoined
<1>1. up /\ ~Desynced(pane) /\ Flowing /\ ~Spend("faults") /\ ~Overwrite
    BY HealthyStep
<1>2. QueueInv'
    BY QueueStep
<1>3. /\ ~pane.asking /\ asks = <<>> /\ ready = <<>>
      /\ lag.building = {} /\ ~lag.lagged /\ ~pump.announced
    BY <1>1 DEF Flowing, Calm
<1>4. CASE Produce \/ PumpDuplicate
  <2>1. UNCHANGED <<pump, bus, lag, raw, fwd, chan, pane, asks, ready>>
      BY <1>4 DEF Produce, PumpDuplicate
  <2> QED  BY <1>1, <2>1 DEF Flowing, Calm, Upstream, Routed, Owed, Reach
<1>5. CASE PumpForward \/ PumpResync
  <2>1. pane' = pane
      BY <1>5 DEF PumpForward, PumpResync
  <2> QED  BY <1>1, <1>5, <2>1, PumpFlow
<1>6. CASE ServeBus
  <2>1. pane' = pane
      BY <1>6 DEF ServeBus
  <2> QED  BY <1>1, <1>6, <2>1, ServeFlow
<1>7. CASE LagWindowCloses
  <2>1. /\ UNCHANGED <<pump, bus, raw, fwd, chan, pane, asks, ready>>
        /\ lag' = [lag EXCEPT !.recent = FALSE]
      BY <1>7 DEF LagWindowCloses
  <2>2. lag'.building = lag.building /\ lag'.lagged = lag.lagged
    <3>1. LagInv
        BY StreamParts
    <3> QED  BY <2>1, <3>1 DEF LagInv
  <2> QED  BY <1>1, <2>1, <2>2 DEF Flowing, Calm, Upstream, Routed, Owed, Reach
<1>8. CASE Forward
  <2>1. CASE RouteSuperseded \/ RouteOutput
    <3>1. pane' = pane
        BY <2>1 DEF RouteSuperseded, RouteOutput
    <3> QED  BY <1>1, <1>2, <2>1, <3>1, RouteFlow
  <2>2. CASE RouteStructured \/ DeliverResync
    <3>1. pane' = pane
        BY <2>2 DEF RouteStructured, DeliverResync
    <3> QED  BY <1>1, <1>2, <2>2, <3>1, ReplayFlow
  <2>3. CASE DeliverPending \/ PaceElapses
    <3>1. pane' = pane
        BY <2>3 DEF DeliverPending, PaceElapses
    <3> QED  BY <1>1, <1>2, <2>3, <3>1, DeliverFlow
  <2>4. ~DeliverUnavailable
      BY <1>1 DEF DeliverUnavailable
  <2> QED  BY <1>8, <2>1, <2>2, <2>3, <2>4 DEF Forward
<1>9. CASE Receive
    BY <1>1, <1>2, <1>9, ReceiveFlow
<1>10. ~PumpUnavailable /\ ~ServeLagged /\ ~Retry /\ ~UserDistrusts /\ ~Flush
    BY <1>1, <1>3 DEF PumpUnavailable, ServeLagged, Retry, UserDistrusts, Flush
<1>11. /\ ~(\E g \in lag.building : BuildRecovery(g) \/ AbandonRecovery(g))
       /\ ~(\E i \in DOMAIN asks : ReadRing(i)) /\ ~(\E i \in DOMAIN ready : Reply(i))
    BY <1>3
<1> QED  BY <1>1, <1>4, <1>5, <1>6, <1>7, <1>8, <1>9, <1>10, <1>11
            DEF Next, Pump, Connection, Client

-----------------------------------------------------------------------------
(* The theorems                                                            *)

\* The stream starts empty and joined.
LEMMA StreamInit ==
    ASSUME Init
    PROVE  StreamInv
<1> USE DEF Init
<1>1. 0 \in 0 .. MaxSeq /\ MaxLags \in 0 .. MaxLags /\ 0 \in 0 .. MaxLags
      /\ MaxLost \in 0 .. MaxLost /\ MaxFaults \in 0 .. MaxFaults
    BY StreamBounds
<1>2. SourceInv
    BY <1>1 DEF SourceInv, RingIsAhead
<1>3. LagInv
    BY <1>1, StreamBounds DEF LagInv, LagsAreCounted
<1>4. QueueInv
    BY <1>1 DEF QueueInv, ReadyAnswers, Only, Forwarder
<1>5. PaneOK(pane) /\ ~pane.latch /\ ~Desynced(pane) /\ ~pane.asking /\ pane.last = 0
  <2>1. ReplayOf(0) = <<>>
      BY DEF ReplayOf
  <2> QED  BY <2>1, StreamBounds DEF PaneOK, FreshPane, Panes, Desynced
<1>6. RestInv
    BY <1>1 DEF RestInv
<1>7. LatchHasAnswer
    BY <1>5 DEF LatchHasAnswer
<1>8. Flowing
  <2>1. Calm
      BY <1>5 DEF Calm, Only
  <2>2. Reach(0) /\ Owed(0) /\ Routed(0)
      BY <1>5 DEF Reach, Owed, Routed
  <2>3. Joins(<<>>, 0) /\ Rises(<<>>, 0, 0)
      BY DEF Joins, Rises
  <2>4. Upstream
      BY <2>2, <2>3 DEF Upstream
  <2> QED  BY <1>5, <2>1, <2>2, <2>3, <2>4 DEF Flowing
<1>9. StaysJoined
    BY <1>5, <1>8 DEF StaysJoined
<1> QED  BY <1>2, <1>3, <1>4, <1>5, <1>6, <1>7, <1>9, StreamParts

\* Whatever is lost, delayed, repeated or replayed on the way, the stream keeps
\* the inductive invariant.
THEOREM StreamInvariant == Spec => []StreamInv
<1>1. Init => StreamInv
    BY StreamInit
<1>2. StreamInv /\ [Next]_vars => StreamInv'
  <2> SUFFICES ASSUME StreamInv, [Next]_vars
               PROVE  StreamInv'
      OBVIOUS
  <2>1. CASE Next
      BY <2>1, SourceStep, LagStep, QueueStep, PaneStep, RestStep, LatchStep, JoinedStep,
         StreamParts
  <2>2. CASE UNCHANGED vars
    <3>1. SourceInv' /\ LagInv' /\ QueueInv' /\ PaneOK(pane') /\ RestInv'
        BY <2>2, StreamParts DEF vars, SourceInv, LagInv, QueueInv, RestInv, RingIsAhead,
           LagsAreCounted, ReadyAnswers
    <3>2. LatchHasAnswer'
        BY <2>2 DEF vars, StreamInv, LatchHasAnswer
    <3>3. Flowing => Flowing'
        BY <2>2 DEF vars, Flowing, Calm, Upstream, Routed, Owed, Reach
    <3>4. StaysJoined'
        BY <2>2, <3>3 DEF vars, StreamInv, StaysJoined, Healthy
    <3> QED  BY <3>1, <3>2, <3>4, StreamParts
  <2> QED  BY <2>1, <2>2
<1> QED  BY <1>1, <1>2, PTL DEF Spec

\* Every event on its way carries a sequence that exists, and every counter
\* stays within its bound.
THEOREM StreamTypeCorrect == Spec => []TypeOK
<1>1. StreamInv => TypeOK
    BY DEF StreamInv
<1> QED  BY <1>1, StreamInvariant, PTL

\* The emulator of a pane has been fed every chunk through its last, once and
\* in order: AppendOutput feeds the next chunk only, and a replay resets first.
THEOREM GridStaysWhole == Spec => []GridIsWhole
<1>1. StreamInv => GridIsWhole
    BY DEF StreamInv
<1> QED  BY <1>1, StreamInvariant, PTL

\* A set request latch has its request queued, being answered, or an answer on
\* the way, through every hop and whatever fails: no pane freezes on it.
THEOREM LatchIsAnswered == Spec => []LatchHasAnswer
<1>1. StreamInv => LatchHasAnswer
    BY DEF StreamInv
<1> QED  BY <1>1, StreamInvariant, PTL

\* While no snapshot fails and the bus is kept up with, however many chunks the
\* pump's bridge and the forwarder drop, the client never sees a gap.
THEOREM SeamlessReplays == Spec => []ReplaysAreSeamless
<1>1. StreamInv => ReplaysAreSeamless
    BY DEF StreamInv, StaysJoined, ReplaysAreSeamless
<1> QED  BY <1>1, StreamInvariant, PTL

-----------------------------------------------------------------------------
(* A quiet pane is current                                                 *)

\* An event in s is in the queue with none of c after it; none of c is in it.
Sets(q, s, c) == \E i \in DOMAIN q : q[i] \in s /\ \A j \in DOMAIN q : j > i => q[j] \notin c
Keeps(q, c) == \A i \in DOMAIN q : q[i] \notin c
\* The same of the channel h with the forwarder's queue p behind it.
Arrives(h, p, s, c) == Sets(p, s, c) \/ (Keeps(p, c) /\ Sets(h, s, c))
Spares(h, p, c) == Keeps(p, c) /\ Keeps(h, c)

\* The pane shows the chunk t, or is quarantined and asks for it.
Minds(p, t) == p.last >= t \/ (Desynced(p) /\ p.required >= t)
\* The events that bring a pane there, and the only ones that take it back.
Lifting(t) == {e \in Events : e.kind # "Unavailable" /\ e.seq >= t}
Dropping(t) == {e \in Events : e.kind = "Snapshot" /\ e.seq < t}
\* The events that quarantine a pane, and the ones that may end it.
Losing == {e \in Events : e.kind \in {"Unavailable", "NoReplay"}}
Restoring == {e \in Events : e.kind \in Replays}

\* Once the client has received what the forwarder has let pass, it minds the
\* chunk t; it is quarantined.
Lands(t) ==
    \/ Arrives(chan, fwd.pending, Lifting(t), Dropping(t))
    \/ Spares(chan, fwd.pending, Dropping(t)) /\ Minds(pane, t)
KnowsLoss ==
    \/ Arrives(chan, fwd.pending, Losing, Restoring)
    \/ Spares(chan, fwd.pending, Restoring) /\ Desynced(pane)

\* A recovery from bus lag is owed, under way or built.
RecoveryComing ==
    \/ lag.lagged \/ lag.gen \in lag.building
    \/ Carries(ready, {"Snapshot", "NoReplay"})

\* The event speaks for every chunk the pump has handled.
Tells(e) == e.kind \in {"Unavailable", "NoReplay"} \/ e.seq >= pump.heard

(* What the forwarder calls covered the client minds, and a failure it has *)
(* announced the client knows of; and the last event still upstream, or if *)
(* there is none what the forwarder has let pass or owes, speaks for every *)
(* chunk the pump has handled, unless a recovery is coming.                *)
Accounted ==
    /\ Lands(fwd.covered)
    /\ fwd.announced => KnowsLoss
    /\ bus # <<>> => Tells(Last(bus))
    /\ bus = <<>> /\ raw # <<>> => RecoveryComing \/ Tells(Last(raw))
    /\ bus = <<>> /\ raw = <<>> =>
          RecoveryComing \/ fwd.queued \/ Lands(pump.heard) \/ KnowsLoss
NothingIsLost == up /\ excuse = {} => Accounted

\* What a queue sets and keeps after a push and after a pop.
LEMMA SetsEnds ==
    ASSUME NEW q \in Seq(Events), NEW e \in Events, NEW s, NEW c
    PROVE  /\ Sets(Append(q, e), s, c) <=> e \in s \/ (Sets(q, s, c) /\ e \notin c)
           /\ Keeps(Append(q, e), c) <=> Keeps(q, c) /\ e \notin c
           /\ q # <<>> => /\ Sets(q, s, c) <=>
                                Sets(Tail(q), s, c) \/ (Keeps(Tail(q), c) /\ Head(q) \in s)
                          /\ Keeps(q, c) <=> Keeps(Tail(q), c) /\ Head(q) \notin c
           /\ ~Sets(<<>>, s, c) /\ Keeps(<<>>, c)
<1>1. Keeps(Append(q, e), c) <=> Keeps(q, c) /\ e \notin c
    BY QueueEnds DEF Keeps
<1>0. PICK n, a : n = Len(q) /\ a = Append(q, e)
    OBVIOUS
<1>2. /\ n \in Nat /\ n = Len(q) /\ a = Append(q, e)
      /\ DOMAIN q = 1 .. n /\ DOMAIN a = 1 .. n + 1
      /\ a[n + 1] = e /\ \A i \in 1 .. n : a[i] = q[i]
    BY <1>0, QueueEnds
<1>3. Sets(a, s, c) <=> e \in s \/ (Sets(q, s, c) /\ e \notin c)
  <2>1. ASSUME NEW i \in 1 .. n + 1, a[i] \in s, \A j \in 1 .. n + 1 : j > i => a[j] \notin c
        PROVE  e \in s \/ (Sets(q, s, c) /\ e \notin c)
    <3>1. CASE i = n + 1
        BY <1>2, <2>1, <3>1
    <3>2. CASE i # n + 1
      <4>1. i \in 1 .. n /\ q[i] \in s
          BY <1>2, <2>1, <3>2
      <4>2. n + 1 \in 1 .. n + 1 /\ n + 1 > i
          BY <1>2, <4>1
      <4>3. e \notin c
          BY <1>2, <2>1, <4>2
      <4>4. \A j \in 1 .. n : j > i => q[j] \notin c
          BY <1>2, <2>1
      <4> QED  BY <1>2, <4>1, <4>3, <4>4 DEF Sets
    <3> QED  BY <3>1, <3>2
  <2>2. ASSUME e \in s
        PROVE  Sets(a, s, c)
    <3>1. n + 1 \in 1 .. n + 1 /\ ~\E j \in 1 .. n + 1 : j > n + 1
        BY <1>2
    <3> QED  BY <1>2, <2>2, <3>1 DEF Sets
  <2>3. ASSUME NEW i \in 1 .. n, q[i] \in s, \A j \in 1 .. n : j > i => q[j] \notin c, e \notin c
        PROVE  Sets(a, s, c)
    <3>1. i \in 1 .. n + 1 /\ a[i] \in s
        BY <1>2, <2>3
    <3>2. ASSUME NEW j \in 1 .. n + 1, j > i
          PROVE  a[j] \notin c
        BY <1>2, <2>3, <3>2
    <3> QED  BY <1>2, <3>1, <3>2 DEF Sets
  <2> QED  BY <1>2, <2>1, <2>2, <2>3 DEF Sets
<1>4. ASSUME q # <<>>
      PROVE  /\ Sets(q, s, c) <=>
                   Sets(Tail(q), s, c) \/ (Keeps(Tail(q), c) /\ Head(q) \in s)
             /\ Keeps(q, c) <=> Keeps(Tail(q), c) /\ Head(q) \notin c
  <2>0. PICK r : r = Tail(q)
      OBVIOUS
  <2>1. /\ r = Tail(q) /\ DOMAIN r = 1 .. n - 1 /\ n >= 1 /\ Head(q) = q[1]
        /\ \A i \in 1 .. n - 1 : r[i] = q[i + 1]
      BY <1>2, <1>4, <2>0, QueueEnds
  <2>2. \A i \in 1 .. n : i = 1 \/ (i - 1 \in 1 .. n - 1 /\ q[i] = r[i - 1])
      BY <1>2, <2>1
  <2>3. \A i \in 1 .. n - 1 : i + 1 \in 1 .. n
      BY <1>2, <2>1
  <2>4. Keeps(q, c) <=> Keeps(r, c) /\ Head(q) \notin c
    <3>1. Keeps(q, c) => Keeps(r, c) /\ Head(q) \notin c
        BY <1>2, <2>1, <2>3 DEF Keeps
    <3>2. Keeps(r, c) /\ Head(q) \notin c => Keeps(q, c)
        BY <1>2, <2>1, <2>2 DEF Keeps
    <3> QED  BY <3>1, <3>2
  <2>5. ASSUME NEW i \in 1 .. n, q[i] \in s, \A j \in 1 .. n : j > i => q[j] \notin c
        PROVE  Sets(r, s, c) \/ (Keeps(r, c) /\ Head(q) \in s)
    <3>1. ASSUME NEW j \in 1 .. n - 1, j > i - 1
          PROVE  r[j] \notin c
      <4>1. j + 1 \in 1 .. n /\ j + 1 > i
          BY <2>3, <3>1
      <4> QED  BY <2>1, <2>5, <4>1
    <3>2. CASE i = 1
      <4>1. \A j \in 1 .. n - 1 : j > i - 1
          BY <3>2
      <4> QED  BY <2>1, <2>5, <3>1, <3>2, <4>1 DEF Keeps
    <3>3. CASE i # 1
      <4>1. i - 1 \in 1 .. n - 1 /\ r[i - 1] \in s
          BY <2>2, <2>5, <3>3
      <4> QED  BY <2>1, <3>1, <4>1 DEF Sets
    <3> QED  BY <3>2, <3>3
  <2>6. ASSUME NEW i \in 1 .. n - 1, r[i] \in s, \A j \in 1 .. n - 1 : j > i => r[j] \notin c
        PROVE  Sets(q, s, c)
    <3>1. i + 1 \in 1 .. n /\ q[i + 1] \in s
        BY <2>1, <2>3, <2>6
    <3>2. ASSUME NEW j \in 1 .. n, j > i + 1
          PROVE  q[j] \notin c
      <4>1. j - 1 \in 1 .. n - 1 /\ q[j] = r[j - 1] /\ j - 1 > i
          BY <2>2, <3>1, <3>2
      <4> QED  BY <2>6, <4>1
    <3> QED  BY <1>2, <3>1, <3>2 DEF Sets
  <2>7. ASSUME Keeps(r, c), Head(q) \in s
        PROVE  Sets(q, s, c)
    <3>1. ASSUME NEW j \in 1 .. n, j > 1
          PROVE  q[j] \notin c
      <4>1. j - 1 \in 1 .. n - 1 /\ q[j] = r[j - 1]
          BY <2>2, <3>1
      <4> QED  BY <2>1, <2>7, <4>1 DEF Keeps
    <3> QED  BY <1>2, <2>1, <2>7, <3>1 DEF Sets
  <2>8. Sets(q, s, c) <=> Sets(r, s, c) \/ (Keeps(r, c) /\ Head(q) \in s)
      BY <1>2, <2>1, <2>5, <2>6, <2>7 DEF Sets
  <2> QED  BY <2>1, <2>4, <2>8
<1>5. ~Sets(<<>>, s, c) /\ Keeps(<<>>, c)
    BY DEF Sets, Keeps
<1> QED  BY <1>1, <1>2, <1>3, <1>4, <1>5

\* The end of a queue after a push and after a pop.
LEMMA LastEnds ==
    ASSUME NEW q \in Seq(Events), NEW e \in Events
    PROVE  /\ Append(q, e) # <<>> /\ Last(Append(q, e)) = e
           /\ q # <<>> => /\ Last(q) \in Events
                          /\ Tail(q) # <<>> => Last(Tail(q)) = Last(q)
                          /\ Tail(q) = <<>> => Last(q) = Head(q)
<1>1. Append(q, e) # <<>> /\ Last(Append(q, e)) = e
    BY DEF Last
<1>2. ASSUME q # <<>>
      PROVE  /\ Last(q) \in Events
             /\ Tail(q) # <<>> => Last(Tail(q)) = Last(q)
             /\ Tail(q) = <<>> => Last(q) = Head(q)
  <2>1. /\ Len(q) \in Nat /\ Len(q) >= 1 /\ DOMAIN q = 1 .. Len(q) /\ Head(q) = q[1]
        /\ Len(Tail(q)) = Len(q) - 1 /\ Tail(q) \in Seq(Events)
        /\ \A i \in 1 .. Len(q) - 1 : Tail(q)[i] = q[i + 1]
      BY <1>2
  <2>2. Last(q) \in Events
      BY <2>1 DEF Last
  <2>3. ASSUME Tail(q) # <<>>
        PROVE  Last(Tail(q)) = Last(q)
    <3>1. Len(q) - 1 \in 1 .. Len(q) - 1
        BY <2>1, <2>3
    <3> QED  BY <2>1, <3>1 DEF Last
  <2>4. ASSUME Tail(q) = <<>>
        PROVE  Last(q) = Head(q)
    <3>1. Len(q) = 1
        BY <2>1, <2>4
    <3> QED  BY <2>1, <3>1 DEF Last
  <2> QED  BY <2>2, <2>3, <2>4
<1> QED  BY <1>1, <1>2

\* An event let pass goes to the end of the channel, or of the queue behind it;
\* what moves from the one to the other changes nothing; and what is received
\* comes off the front.
LEMMA ArrivesEnds ==
    ASSUME NEW h \in Seq(Events), NEW p \in Seq(Events), NEW e \in Events, NEW s, NEW c
    PROVE  /\ p = <<>> => /\ Arrives(Append(h, e), p, s, c) <=>
                                e \in s \/ (Arrives(h, p, s, c) /\ e \notin c)
                          /\ Spares(Append(h, e), p, c) <=> Spares(h, p, c) /\ e \notin c
           /\ Arrives(h, Append(p, e), s, c) <=> e \in s \/ (Arrives(h, p, s, c) /\ e \notin c)
           /\ Spares(h, Append(p, e), c) <=> Spares(h, p, c) /\ e \notin c
           /\ p # <<>> => /\ Arrives(Append(h, Head(p)), Tail(p), s, c) <=> Arrives(h, p, s, c)
                          /\ Spares(Append(h, Head(p)), Tail(p), c) <=> Spares(h, p, c)
           /\ h # <<>> => /\ Arrives(h, p, s, c) <=>
                                Arrives(Tail(h), p, s, c) \/ (Spares(Tail(h), p, c) /\ Head(h) \in s)
                          /\ Spares(h, p, c) <=> Spares(Tail(h), p, c) /\ Head(h) \notin c
           /\ ~Arrives(<<>>, <<>>, s, c) /\ Spares(<<>>, <<>>, c)
<1>1. /\ Sets(Append(h, e), s, c) <=> e \in s \/ (Sets(h, s, c) /\ e \notin c)
      /\ Keeps(Append(h, e), c) <=> Keeps(h, c) /\ e \notin c
      /\ Sets(Append(p, e), s, c) <=> e \in s \/ (Sets(p, s, c) /\ e \notin c)
      /\ Keeps(Append(p, e), c) <=> Keeps(p, c) /\ e \notin c
      /\ ~Sets(<<>>, s, c) /\ Keeps(<<>>, c)
    BY SetsEnds
<1>2. h # <<>> => /\ Sets(h, s, c) <=>
                        Sets(Tail(h), s, c) \/ (Keeps(Tail(h), c) /\ Head(h) \in s)
                  /\ Keeps(h, c) <=> Keeps(Tail(h), c) /\ Head(h) \notin c
    BY SetsEnds
<1>3. ASSUME p # <<>>
      PROVE  /\ Sets(p, s, c) <=>
                   Sets(Tail(p), s, c) \/ (Keeps(Tail(p), c) /\ Head(p) \in s)
             /\ Keeps(p, c) <=> Keeps(Tail(p), c) /\ Head(p) \notin c
             /\ Sets(Append(h, Head(p)), s, c) <=>
                   Head(p) \in s \/ (Sets(h, s, c) /\ Head(p) \notin c)
             /\ Keeps(Append(h, Head(p)), c) <=> Keeps(h, c) /\ Head(p) \notin c
  <2>1. PICK x \in Events : x = Head(p)
      BY <1>3, QueuePop
  <2>2. /\ Sets(Append(h, x), s, c) <=> x \in s \/ (Sets(h, s, c) /\ x \notin c)
        /\ Keeps(Append(h, x), c) <=> Keeps(h, c) /\ x \notin c
      BY SetsEnds
  <2> QED  BY <1>3, <2>1, <2>2, SetsEnds
<1>4. p # <<>> => /\ Arrives(Append(h, Head(p)), Tail(p), s, c) <=> Arrives(h, p, s, c)
                  /\ Spares(Append(h, Head(p)), Tail(p), c) <=> Spares(h, p, c)
    BY <1>3, Zenon DEF Arrives, Spares
<1>5. h # <<>> => /\ Arrives(h, p, s, c) <=>
                        Arrives(Tail(h), p, s, c) \/ (Spares(Tail(h), p, c) /\ Head(h) \in s)
                  /\ Spares(h, p, c) <=> Spares(Tail(h), p, c) /\ Head(h) \notin c
    BY <1>2, Zenon DEF Arrives, Spares
<1>6. p = <<>> => /\ Arrives(Append(h, e), p, s, c) <=>
                        e \in s \/ (Arrives(h, p, s, c) /\ e \notin c)
                  /\ Spares(Append(h, e), p, c) <=> Spares(h, p, c) /\ e \notin c
    BY <1>1, Zenon DEF Arrives, Spares
<1>7. /\ Arrives(h, Append(p, e), s, c) <=> e \in s \/ (Arrives(h, p, s, c) /\ e \notin c)
      /\ Spares(h, Append(p, e), c) <=> Spares(h, p, c) /\ e \notin c
    BY <1>1, Zenon DEF Arrives, Spares
<1>8. ~Arrives(<<>>, <<>>, s, c) /\ Spares(<<>>, <<>>, c)
    BY <1>1, Zenon DEF Arrives, Spares
<1> QED  BY <1>4, <1>5, <1>6, <1>7, <1>8

\* What the classes of events are.
LEMMA EventSides ==
    ASSUME NEW e \in Events, NEW t
    PROVE  /\ e \in Lifting(t) <=> e.kind # "Unavailable" /\ e.seq >= t
           /\ e \in Dropping(t) <=> e.kind = "Snapshot" /\ e.seq < t
           /\ e \in Losing <=> e.kind \in {"Unavailable", "NoReplay"}
           /\ e \in Restoring <=> e.kind \in Replays
BY DEF Lifting, Dropping, Losing, Restoring

\* No chunk a pane minds is forgotten by another chunk, a replay or a notice,
\* and a chunk or a replay is minded.
LEMMA MindsEffect ==
    ASSUME NEW p, PaneOK(p), NEW s \in 0 .. MaxSeq, NEW t \in 0 .. MaxSeq, NEW a \in BOOLEAN
    PROVE  /\ Minds(p, t) \/ s >= t => Minds(AppendOutput(p, s), t)
           /\ Desynced(p) => Desynced(AppendOutput(p, s))
           /\ Minds(p, t) \/ s >= t => Minds(ResyncTerminal(p, s, a), t)
           /\ Minds(p, t) => Minds(OnUnavailable(p), t)
           /\ Desynced(OnUnavailable(p))
<1>1. p.last \in Nat /\ s \in Nat /\ t \in Nat /\ p.required \in Nat /\ p \in Panes
      /\ Debt(p) \in Nat /\ (~Desynced(p) => Debt(p) = p.last)
      /\ (Desynced(p) => Debt(p) = p.required)
    BY StreamBounds DEF PaneOK, Panes, Debt
<1>2. /\ Minds(p, t) \/ s >= t => Minds(AppendOutput(p, s), t)
      /\ Desynced(p) => Desynced(AppendOutput(p, s))
  <2>1. CASE s <= p.last
      BY <1>1, <2>1 DEF AppendOutput, Minds
  <2>2. CASE s > p.last /\ Desynced(p)
    <3>1. PICK b \in BOOLEAN : b = (p.asking \/ ~p.latch)
        BY Zenon
    <3>2. PICK r \in Nat : r = Larger(p.required, s) /\ r >= p.required /\ r >= s
        BY <1>1 DEF Larger
    <3>3. PICK n : n = [p EXCEPT !.required = r, !.latch = TRUE, !.asking = b]
        OBVIOUS
    <3>4. n.last = p.last /\ n.required = r /\ n.sync = p.sync
        BY <1>1, <3>2, <3>3 DEF Panes
    <3>5. AppendOutput(p, s) = n
        BY <1>1, <2>2, <3>1, <3>2, <3>3 DEF AppendOutput
    <3> QED  BY <1>1, <2>2, <3>2, <3>4, <3>5 DEF Minds, Desynced
  <2>3. CASE s > p.last + 1 /\ ~Desynced(p)
    <3>1. PICK n : n = Ask(p, s)
        OBVIOUS
    <3>2. n.last = p.last /\ n.required = s /\ n.sync = "Desynced"
        BY <1>1, <3>1 DEF Panes, Ask
    <3>3. AppendOutput(p, s) = n
        BY <1>1, <2>3, <3>1 DEF AppendOutput
    <3> QED  BY <1>1, <2>3, <3>2, <3>3 DEF Minds, Desynced
  <2>4. CASE s = p.last + 1 /\ ~Desynced(p)
    <3>1. PICK n : n = [p EXCEPT !.last = s, !.grid = Append(p.grid, s)]
        OBVIOUS
    <3>2. n.last = s
        BY <1>1, <3>1 DEF Panes
    <3>3. AppendOutput(p, s) = n
        BY <1>1, <2>4, <3>1 DEF AppendOutput
    <3> QED  BY <1>1, <2>4, <3>2, <3>3 DEF Minds
  <2> QED  BY <1>1, <2>1, <2>2, <2>3, <2>4
<1>3. Minds(p, t) \/ s >= t => Minds(ResyncTerminal(p, s, a), t)
  <2>1. CASE (s < p.last \/ s < Debt(p)) /\ Desynced(p)
    <3>1. PICK n : n = [p EXCEPT !.latch = TRUE, !.asking = TRUE]
        OBVIOUS
    <3>2. n.last = p.last /\ n.required = p.required /\ n.sync = p.sync
        BY <1>1, <3>1 DEF Panes
    <3>3. ResyncTerminal(p, s, a) = n
        BY <2>1, <3>1 DEF ResyncTerminal
    <3> QED  BY <1>1, <2>1, <3>2, <3>3 DEF Minds, Desynced
  <2>2. CASE ~Desynced(p) /\ s <= p.last
    <3>1. ResyncTerminal(p, s, a) = p
        BY <1>1, <2>2 DEF ResyncTerminal
    <3> QED  BY <1>1, <2>2, <3>1 DEF Minds
  <2>3. CASE s >= p.last /\ s >= Debt(p) /\ ~(~Desynced(p) /\ s = p.last)
    <3>1. ResyncTerminal(p, s, a) = (IF a THEN Rebuilt(p, s) ELSE Ask(p, Larger(s, Debt(p))))
        BY <1>1, <2>3 DEF ResyncTerminal
    <3>2. Larger(s, Debt(p)) = s
        BY <1>1, <2>3 DEF Larger
    <3>3. PICK n, m : n = Rebuilt(p, s) /\ m = Ask(p, s)
        OBVIOUS
    <3>4. n.last = s /\ m.last = p.last /\ m.required = s /\ m.sync = "Desynced"
        BY <1>1, <3>3 DEF Panes, Ask, Rebuilt
    <3>5. Minds(p, t) \/ s >= t => s >= t
        BY <1>1, <2>3 DEF Minds
    <3>6. s >= t => Minds(n, t) /\ Minds(m, t)
        BY <1>1, <3>4 DEF Minds, Desynced
    <3> QED  BY <3>1, <3>2, <3>3, <3>5, <3>6
  <2> QED  BY <1>1, <2>1, <2>2, <2>3
<1>4. (Minds(p, t) => Minds(OnUnavailable(p), t)) /\ Desynced(OnUnavailable(p))
  <2>1. PICK n, d : n = OnUnavailable(p) /\ d = Debt(p)
      OBVIOUS
  <2>2. n.last = p.last /\ n.required = d /\ n.sync = "Desynced"
      BY <1>1, <2>1 DEF Panes, OnUnavailable
  <2> QED  BY <1>1, <2>1, <2>2 DEF Minds, Desynced
<1> QED  BY <1>2, <1>3, <1>4

\* Minding a chunk is minding those before it.
LEMMA LandsLess ==
    ASSUME QueueInv, PaneOK(pane), NEW x \in 0 .. MaxSeq, NEW y \in 0 .. MaxSeq, y <= x, Lands(x)
    PROVE  Lands(y)
<1>1. /\ x \in Nat /\ y \in Nat /\ pane.last \in Nat /\ pane.required \in Nat
      /\ chan \in Seq(Events) /\ fwd.pending \in Seq(Events)
    BY StreamBounds DEF QueueInv, PaneOK, Panes, Forwarder
<1>2. \A e \in Events : e.seq \in Nat
    BY EventSeq
<1>3. Lifting(x) \subseteq Lifting(y) /\ Dropping(y) \subseteq Dropping(x)
    BY <1>1, <1>2 DEF Lifting, Dropping
<1>4. ASSUME NEW q
      PROVE  /\ Keeps(q, Dropping(x)) => Keeps(q, Dropping(y))
             /\ Sets(q, Lifting(x), Dropping(x)) => Sets(q, Lifting(y), Dropping(y))
    BY <1>3, Zenon DEF Keeps, Sets
<1>5. Minds(pane, x) => Minds(pane, y)
    BY <1>1 DEF Minds
<1> QED  BY <1>4, <1>5, Zenon DEF Lands, Arrives, Spares

\* What an event received does to what the pane minds and knows.
LEMMA ReceiveMinds ==
    ASSUME StreamInv, Receive, excuse' = {}, NEW t \in 0 .. MaxSeq
    PROVE  /\ Head(chan) \in Lifting(t) => Minds(pane', t)
           /\ Minds(pane, t) /\ Head(chan) \notin Dropping(t) => Minds(pane', t)
           /\ Head(chan) \in Losing => Desynced(pane')
           /\ Desynced(pane) /\ Head(chan) \notin Restoring => Desynced(pane')
<1>1. PaneOK(pane) /\ chan # <<>> /\ Head(chan) \in Events
    BY StreamParts, ReceiveEffect
<1>2. PICK e \in Events : e = Head(chan)
    BY <1>1
<1>3. e.seq \in 0 .. MaxSeq /\ e.seq \in Nat /\ t \in Nat
    BY StreamBounds DEF Events
<1>4. \/ e.kind = "Output" /\ pane' = AppendOutput(pane, e.seq)
      \/ e.kind = "Resync" /\ \E a \in BOOLEAN : pane' = ResyncTerminal(pane, e.seq, a)
      \/ e.kind = "Unavailable" /\ pane' = OnUnavailable(pane)
      \/ e.kind = "Snapshot" /\ pane' = Rebuilt(pane, e.seq)
      \/ e.kind = "NoReplay" /\ pane' = Ask(pane, Larger(pane.last, e.seq))
    BY <1>2 DEF Receive, OnSnapshot
<1>5. ~Forgets(e)
    BY <1>2 DEF Receive
<1>6. /\ e \in Lifting(t) <=> e.kind # "Unavailable" /\ e.seq >= t
      /\ e \in Dropping(t) <=> e.kind = "Snapshot" /\ e.seq < t
      /\ e \in Losing <=> e.kind \in {"Unavailable", "NoReplay"}
      /\ e \in Restoring <=> e.kind \in Replays
    BY EventSides
<1>7. CASE e.kind = "Output" /\ pane' = AppendOutput(pane, e.seq)
    BY <1>1, <1>2, <1>3, <1>6, <1>7, MindsEffect
<1>8. CASE e.kind = "Resync" /\ \E a \in BOOLEAN : pane' = ResyncTerminal(pane, e.seq, a)
    BY <1>1, <1>2, <1>3, <1>6, <1>8, MindsEffect DEF Replays
<1>9. CASE e.kind = "Unavailable" /\ pane' = OnUnavailable(pane)
    BY <1>1, <1>2, <1>3, <1>6, <1>9, MindsEffect
<1>10. CASE e.kind = "Snapshot" /\ pane' = Rebuilt(pane, e.seq)
  <2>1. pane'.last = e.seq
      BY <1>1, <1>3, <1>10, RebuiltEffect
  <2> QED  BY <1>2, <1>3, <1>6, <1>10, <2>1 DEF Minds, Replays
<1>11. CASE e.kind = "NoReplay" /\ pane' = Ask(pane, Larger(pane.last, e.seq))
  <2>1. PICK r \in Nat : r = Larger(pane.last, e.seq) /\ r >= pane.last /\ r >= e.seq
      BY <1>1, <1>3 DEF Larger, PaneOK, Panes
  <2>2. pane'.required = r /\ pane'.sync = "Desynced"
      BY <1>1, <1>11, <2>1 DEF Ask, PaneOK, Panes
  <2>3. pane.last \in Nat /\ pane.required \in Nat
      BY <1>1 DEF PaneOK, Panes
  <2>4. Desynced(pane) => r >= pane.required
      BY <1>5, <1>11, <2>1, <2>3 DEF Forgets
  <2> QED  BY <1>2, <1>3, <1>6, <1>11, <2>1, <2>2, <2>3, <2>4 DEF Minds, Desynced
<1> QED  BY <1>4, <1>7, <1>8, <1>9, <1>10, <1>11

\* The client's own steps make it mind no less.
LEMMA ClientMinds ==
    ASSUME StreamInv, Retry \/ UserDistrusts \/ Flush, NEW t \in 0 .. MaxSeq
    PROVE  (Minds(pane, t) => Minds(pane', t)) /\ (Desynced(pane) => Desynced(pane'))
<1>1. PaneOK(pane)
    BY StreamParts
<1>2. pane \in Panes /\ t \in Nat /\ pane.last \in Nat /\ pane.required \in Nat
    BY <1>1, StreamBounds DEF PaneOK, Panes
<1>3. CASE Retry \/ Flush
  <2>1. pane'.last = pane.last /\ pane'.required = pane.required /\ pane'.sync = pane.sync
      BY <1>2, <1>3 DEF Retry, Flush, TickRetry, Panes
  <2> QED  BY <2>1 DEF Minds, Desynced
<1>4. CASE UserDistrusts
  <2>1. PICK r \in Nat : r = Larger(Debt(pane), pane.last) /\ r >= pane.last
                         /\ (Desynced(pane) => r >= pane.required)
      BY <1>2 DEF Larger, Debt
  <2>2. pane' = Ask(pane, r)
      BY <1>4, <2>1 DEF UserDistrusts, Distrust
  <2>3. pane'.last = pane.last /\ pane'.required = r /\ pane'.sync = "Desynced"
      BY <1>2, <2>1, <2>2 DEF Ask, Panes
  <2> QED  BY <1>2, <2>1, <2>3 DEF Minds, Desynced
<1> QED  BY <1>3, <1>4

\* The rest of what the forwarder's bookkeeping sets.
LEMMA FlagUpdates ==
    ASSUME fwd \in Forwarder, NEW e \in Events
    PROVE  /\ e.kind \in Replays => ~Covering(e).announced
           /\ Scheduled(e.seq).announced = fwd.announced
           /\ ~Paid.announced
           /\ [Covering(e) EXCEPT !.pending = Append(@, e)].announced = Covering(e).announced
           /\ [fwd EXCEPT !.pending = Tail(@)].announced = fwd.announced
           /\ [fwd EXCEPT !.pending = Tail(@)].queued = fwd.queued
<1>1. PICK c : c = [fwd EXCEPT !.covered = Larger(fwd.covered, e.seq), !.queued = FALSE,
                               !.debt = 0, !.announced = FALSE]
    OBVIOUS
<1>2. ~c.announced
    BY <1>1 DEF Forwarder
<1>3. Covering(e) = IF e.kind \in Replays THEN c ELSE fwd
    BY <1>1 DEF Covering
<1>4. Scheduled(e.seq).announced = fwd.announced
    BY DEF Scheduled, Forwarder
<1>5. ~Paid.announced
    BY DEF Paid, Forwarder
<1>6. PICK a, b : a = Append(Covering(e).pending, e) /\ b = Tail(fwd.pending)
    OBVIOUS
<1>7. ASSUME NEW f \in {c, fwd}
      PROVE  [f EXCEPT !.pending = a].announced = f.announced
    BY <1>1 DEF Forwarder
<1>8. [Covering(e) EXCEPT !.pending = a].announced = Covering(e).announced
    BY <1>3, <1>7
<1>9. [fwd EXCEPT !.pending = b].announced = fwd.announced
      /\ [fwd EXCEPT !.pending = b].queued = fwd.queued
    BY DEF Forwarder
<1> QED  BY <1>2, <1>3, <1>4, <1>5, <1>6, <1>8, <1>9

\* An event let pass, and what the client will mind and know once it has it.
LEMMA PassedOn ==
    ASSUME QueueInv, pane' = pane, NEW e \in Events, NEW t \in 0 .. MaxSeq,
           \/ fwd.pending = <<>> /\ fwd'.pending = fwd.pending /\ chan' = Append(chan, e)
           \/ fwd'.pending = Append(fwd.pending, e) /\ chan' = chan
    PROVE  /\ e \in Lifting(t) => Lands(t)'
           /\ Lands(t) /\ e \notin Dropping(t) => Lands(t)'
           /\ e \in Losing => KnowsLoss'
           /\ KnowsLoss /\ e \notin Restoring => KnowsLoss'
<1>1. chan \in Seq(Events) /\ fwd.pending \in Seq(Events)
    BY DEF QueueInv, Forwarder
<1>2. ASSUME NEW s, NEW c
      PROVE  /\ Arrives(chan', fwd'.pending, s, c) <=>
                   e \in s \/ (Arrives(chan, fwd.pending, s, c) /\ e \notin c)
             /\ Spares(chan', fwd'.pending, c) <=> Spares(chan, fwd.pending, c) /\ e \notin c
  <2>1. CASE fwd.pending = <<>> /\ fwd'.pending = fwd.pending /\ chan' = Append(chan, e)
    <3>1. PICK p \in Seq(Events) : p = fwd.pending
        BY <1>1
    <3>2. p = <<>> => /\ Arrives(Append(chan, e), p, s, c) <=>
                            e \in s \/ (Arrives(chan, p, s, c) /\ e \notin c)
                      /\ Spares(Append(chan, e), p, c) <=> Spares(chan, p, c) /\ e \notin c
        BY <1>1, ArrivesEnds
    <3> QED  BY <2>1, <3>1, <3>2
  <2>2. CASE fwd'.pending = Append(fwd.pending, e) /\ chan' = chan
      BY <1>1, <2>2, ArrivesEnds
  <2> QED  BY <2>1, <2>2
<1>3. /\ e \in Lifting(t) => Lands(t)'
      /\ Lands(t) /\ e \notin Dropping(t) => Lands(t)'
  <2>1. PICK s, c : s = Lifting(t) /\ c = Dropping(t)
      OBVIOUS
  <2>2. /\ Lands(t) <=> \/ Arrives(chan, fwd.pending, s, c)
                        \/ Spares(chan, fwd.pending, c) /\ Minds(pane, t)
        /\ Lands(t)' <=> \/ Arrives(chan', fwd'.pending, s, c)
                         \/ Spares(chan', fwd'.pending, c) /\ Minds(pane', t)
      BY <2>1, Zenon DEF Lands
  <2> QED  BY <1>2, <2>1, <2>2
<1>4. /\ e \in Losing => KnowsLoss'
      /\ KnowsLoss /\ e \notin Restoring => KnowsLoss'
  <2>1. PICK s, c : s = Losing /\ c = Restoring
      OBVIOUS
  <2>2. /\ KnowsLoss <=> \/ Arrives(chan, fwd.pending, s, c)
                         \/ Spares(chan, fwd.pending, c) /\ Desynced(pane)
        /\ KnowsLoss' <=> \/ Arrives(chan', fwd'.pending, s, c)
                          \/ Spares(chan', fwd'.pending, c) /\ Desynced(pane')
      BY <2>1, Zenon DEF KnowsLoss
  <2> QED  BY <1>2, <2>1, <2>2
<1> QED  BY <1>3, <1>4

\* A step that leaves the client and what is let pass alone.
LEMMA LeftAlone ==
    ASSUME pane' = pane, chan' = chan, fwd'.pending = fwd.pending, NEW t
    PROVE  (Lands(t)' <=> Lands(t)) /\ (KnowsLoss' <=> KnowsLoss)
BY DEF Lands, KnowsLoss

\* Routing an event accounts for it.
LEMMA RouteAccounts ==
    ASSUME StreamInv, Accounted, RouteSuperseded \/ RouteOutput \/ RouteStructured,
           up', excuse' = {}
    PROVE  Accounted'
<1>1. QueueInv /\ SourceInv /\ PaneOK(pane)
    BY StreamParts
<1>2. /\ raw \in Seq(Events) /\ fwd \in Forwarder /\ ring \in 0 .. MaxSeq
      /\ fwd.covered \in 0 .. MaxSeq /\ pump.heard \in 0 .. MaxSeq
      /\ fwd.covered \in Nat /\ pump.heard \in Nat
    BY <1>1, StreamBounds DEF QueueInv, SourceInv, Forwarder
<1>3. raw # <<>> /\ raw' = Tail(raw) /\ UNCHANGED <<bus, pump, lag, ready, pane>>
    BY DEF RouteSuperseded, RouteOutput, RouteStructured, Routes
<1>4. PICK e \in Events : e = Head(raw) /\ e.seq \in Nat
    BY <1>2, <1>3, QueuePop, EventSeq
<1>5. /\ \A t : e \in Lifting(t) <=> e.kind # "Unavailable" /\ e.seq >= t
      /\ \A t : e \in Dropping(t) <=> e.kind = "Snapshot" /\ e.seq < t
      /\ e \in Losing <=> e.kind \in {"Unavailable", "NoReplay"}
      /\ e \in Restoring <=> e.kind \in Replays
    BY EventSides
<1>6. /\ Lands(fwd.covered)'
      /\ fwd'.announced => KnowsLoss'
      /\ Tells(e) => fwd'.queued \/ Lands(pump.heard)' \/ KnowsLoss'
  <2>1. PICK x \in 0 .. MaxSeq, y \in 0 .. MaxSeq : x = fwd.covered /\ y = pump.heard
      BY <1>2
  <2>2. x \in Nat /\ y \in Nat /\ Lands(x) /\ (fwd.announced => KnowsLoss) /\ y = pump'.heard
      BY <1>2, <1>3, <2>1 DEF Accounted
  <2> SUFFICES ASSUME NEW z \in 0 .. MaxSeq, z = fwd'.covered
               PROVE  /\ Lands(z)'
                      /\ fwd'.announced => KnowsLoss'
                      /\ Tells(e) => fwd'.queued \/ Lands(y)' \/ KnowsLoss'
    <3>1. fwd' \in Forwarder
        BY QueueStep DEF Next, Forward, QueueInv
    <3>2. fwd'.covered \in 0 .. MaxSeq
        BY <3>1 DEF Forwarder
    <3> QED  BY <2>2, <3>2 DEF Lands
  <2>3. CASE RouteSuperseded
    <3>1. chan' = chan /\ fwd' = fwd /\ e.kind = "Output" /\ e.seq <= x
        BY <1>4, <2>1, <2>3 DEF RouteSuperseded
    <3>2. (Lands(x)' <=> Lands(x)) /\ (Lands(y)' <=> Lands(y)) /\ (KnowsLoss' <=> KnowsLoss)
        BY <1>3, <3>1, LeftAlone
    <3>3. Tells(e) => y <= x
        BY <1>4, <2>1, <2>2, <3>1 DEF Tells
    <3>4. y <= x => Lands(y)
        BY <1>1, <2>2, LandsLess
    <3> QED  BY <2>1, <2>2, <3>1, <3>2, <3>3, <3>4
  <2>4. CASE RouteOutput
    <3>1. e.kind = "Output"
        BY <1>4, <2>4 DEF RouteOutput
    <3>2. CASE Blocked \/ ~HasRoom
      <4>1. chan' = chan /\ fwd' = Scheduled(e.seq)
          BY <1>4, <2>4, <3>2 DEF RouteOutput
      <4>2. fwd'.pending = fwd.pending /\ fwd'.queued /\ fwd'.covered = x
          BY <1>2, <2>1, <4>1, ForwarderUpdates
      <4>3. fwd'.announced = fwd.announced
          BY <1>2, <4>1, FlagUpdates
      <4>4. (Lands(x)' <=> Lands(x)) /\ (KnowsLoss' <=> KnowsLoss)
          BY <1>3, <4>1, <4>2, LeftAlone
      <4> QED  BY <2>2, <4>2, <4>3, <4>4
    <3>3. CASE ~(Blocked \/ ~HasRoom)
      <4>1. chan' = Append(chan, e) /\ fwd' = fwd /\ fwd.pending = <<>>
          BY <1>4, <2>4, <3>3 DEF RouteOutput, Blocked
      <4>2. /\ Lands(x) /\ e \notin Dropping(x) => Lands(x)'
            /\ e \in Lifting(y) => Lands(y)'
            /\ KnowsLoss /\ e \notin Restoring => KnowsLoss'
          BY <1>1, <1>3, <4>1, PassedOn
      <4>3. e \notin Dropping(x) /\ e \notin Restoring /\ (Tells(e) => e \in Lifting(y))
          BY <1>5, <2>1, <3>1 DEF Replays, Tells
      <4> QED  BY <2>1, <2>2, <4>1, <4>2, <4>3
    <3> QED  BY <3>2, <3>3
  <2>5. CASE RouteStructured
    <3>1. /\ e.kind # "Output" /\ ~Regresses(e)
          /\ \/ fwd.pending = <<>> /\ chan' = Append(chan, e) /\ fwd' = Covering(e)
             \/ chan' = chan /\ fwd' = [Covering(e) EXCEPT !.pending = Append(@, e)]
      <4>1. e.kind # "Output" /\ ~Regresses(e)
          BY <1>4, <2>5 DEF RouteStructured
      <4>2. \/ fwd.pending = <<>> /\ chan' = Append(chan, e) /\ fwd' = Covering(e)
            \/ chan' = chan /\ fwd' = [Covering(e) EXCEPT !.pending = Append(@, e)]
            \/ ~up'
          BY <1>4, <2>5, Zenon DEF RouteStructured
      <4> QED  BY <4>1, <4>2
    <3>2. /\ \/ fwd.pending = <<>> /\ fwd'.pending = fwd.pending /\ chan' = Append(chan, e)
             \/ fwd'.pending = Append(fwd.pending, e) /\ chan' = chan
          /\ fwd'.covered = Covering(e).covered
      <4>1. Covering(e) \in Forwarder /\ Covering(e).pending = fwd.pending
          BY <1>2, ForwarderUpdates
      <4>2. PICK f \in Forwarder : f = Covering(e)
          BY <4>1
      <4>3. /\ [f EXCEPT !.pending = Append(@, e)].pending = Append(f.pending, e)
            /\ [f EXCEPT !.pending = Append(@, e)].covered = f.covered
          BY PendingUpdates
      <4> QED  BY <3>1, <4>1, <4>2, <4>3
    <3>3. e.kind \in Replays => ~fwd'.announced
        BY <1>2, <3>1, FlagUpdates
    <3>4. /\ e.kind \in Replays => z = Larger(x, e.seq)
          /\ e.kind \notin Replays => z = x
        BY <1>2, <2>1, <3>2, ForwarderUpdates
    <3>5. /\ Lands(z) /\ e \notin Dropping(z) => Lands(z)'
          /\ e \in Lifting(z) => Lands(z)'
          /\ e \in Lifting(y) => Lands(y)'
          /\ e \in Losing => KnowsLoss'
        BY <1>1, <1>3, <3>2, PassedOn
    <3>6. e.kind \in {"Resync", "Snapshot", "Unavailable", "NoReplay"}
        BY <3>1 DEF Events
    <3>7. Lands(z)'
      <4>1. CASE e.kind \in Replays /\ e.seq >= x
        <5>1. z = e.seq /\ e.kind # "Unavailable"
            BY <1>4, <2>2, <3>4, <4>1 DEF Larger, Replays
        <5> QED  BY <1>4, <1>5, <3>5, <5>1
      <4>2. CASE e.kind \in Replays /\ ~(e.seq >= x)
        <5>1. z = x /\ e.kind # "Snapshot"
            BY <1>4, <2>1, <2>2, <3>1, <3>4, <4>2 DEF Larger, Regresses
        <5> QED  BY <1>5, <2>2, <3>5, <5>1
      <4>3. CASE e.kind \notin Replays
        <5>1. z = x /\ e.kind # "Snapshot"
            BY <3>4, <4>3 DEF Replays
        <5> QED  BY <1>5, <2>2, <3>5, <5>1
      <4> QED  BY <4>1, <4>2, <4>3
    <3>8. fwd'.announced => KnowsLoss'
      <4>1. e.kind \notin Replays => e \in Losing
          BY <1>5, <3>6 DEF Replays
      <4> QED  BY <3>3, <3>5, <4>1
    <3>9. Tells(e) => Lands(y)' \/ KnowsLoss'
        BY <1>5, <2>1, <3>5, <3>6 DEF Tells
    <3> QED  BY <3>7, <3>8, <3>9
  <2> QED  BY <2>3, <2>4, <2>5
<1>7. RecoveryComing' <=> RecoveryComing
    BY <1>3 DEF RecoveryComing
<1>8. \A d : Tells(d)' <=> Tells(d)
    BY <1>3 DEF Tells
<1>9. bus # <<>> => Tells(Last(bus))'
    BY <1>3, <1>8 DEF Accounted, Tells
<1>10. bus = <<>> /\ raw' # <<>> => RecoveryComing' \/ Tells(Last(raw))'
  <2>1. raw' # <<>> => Last(raw') = Last(raw)
      BY <1>2, <1>3, <1>4, LastEnds
  <2> QED  BY <1>3, <1>7, <2>1 DEF Accounted, Tells
<1>11. bus = <<>> /\ raw' = <<>> => RecoveryComing \/ Tells(e)
  <2>1. raw' = <<>> => Last(raw) = e
      BY <1>2, <1>3, <1>4, LastEnds
  <2> QED  BY <1>3, <2>1 DEF Accounted
<1> QED  BY <1>3, <1>6, <1>7, <1>9, <1>10, <1>11 DEF Accounted

\* A step that only touches the client and what the forwarder lets pass keeps
\* the account when the client minds and knows no less.
LEMMA DownstreamAccounts ==
    ASSUME Accounted, UNCHANGED <<bus, raw, pump, lag, ready>>,
           Lands(fwd.covered)', fwd'.announced => KnowsLoss',
           fwd.queued \/ Lands(pump.heard) \/ KnowsLoss
               => fwd'.queued \/ Lands(pump.heard)' \/ KnowsLoss'
    PROVE  Accounted'
<1>1. RecoveryComing' <=> RecoveryComing
    BY DEF RecoveryComing
<1>2. bus' # <<>> => Tells(Last(bus))'
    BY DEF Accounted, Tells
<1>3. bus' = <<>> /\ raw' # <<>> => RecoveryComing' \/ Tells(Last(raw))'
    BY <1>1 DEF Accounted, Tells
<1> QED  BY <1>1, <1>2, <1>3 DEF Accounted

\* What the forwarder delivers, and the replay it makes itself, is accounted for.
LEMMA DeliverAccounts ==
    ASSUME StreamInv, Accounted,
           DeliverPending \/ DeliverResync \/ DeliverUnavailable \/ PaceElapses
    PROVE  Accounted'
<1>1. QueueInv /\ SourceInv /\ PaneOK(pane)
    BY StreamParts
<1>2. /\ chan \in Seq(Events) /\ fwd.pending \in Seq(Events) /\ fwd \in Forwarder
      /\ ring \in 0 .. MaxSeq /\ ring \in Nat /\ pump.heard <= ring
      /\ Unavailable \in Events /\ Unavailable.kind = "Unavailable"
    BY <1>1, StreamBounds, EventKinds DEF QueueInv, SourceInv, Forwarder, RingIsAhead
<1>3. UNCHANGED <<bus, raw, pump, lag, ready, pane>>
    BY DEF DeliverPending, DeliverResync, DeliverUnavailable, PaceElapses
<1>4. PICK x \in 0 .. MaxSeq, y \in 0 .. MaxSeq :
           x = fwd.covered /\ y = pump.heard /\ x \in Nat /\ y \in Nat
    BY <1>1, StreamBounds DEF QueueInv, SourceInv, Forwarder
<1>5. Lands(x) /\ (fwd.announced => KnowsLoss) /\ y = pump'.heard
    BY <1>3, <1>4 DEF Accounted
<1>6. CASE DeliverPending
  <2>1. /\ fwd.pending # <<>> /\ chan' = Append(chan, Head(fwd.pending))
        /\ fwd' = [fwd EXCEPT !.pending = Tail(@)]
      BY <1>6 DEF DeliverPending
  <2>2. fwd'.pending = Tail(fwd.pending) /\ fwd'.covered = fwd.covered
      BY <1>2, <2>1, PendingUpdates
  <2>3. fwd'.announced = fwd.announced /\ fwd'.queued = fwd.queued
      BY <1>2, <2>1, FlagUpdates
  <2>4. ASSUME NEW s, NEW c
        PROVE  /\ Arrives(chan', fwd'.pending, s, c) <=> Arrives(chan, fwd.pending, s, c)
               /\ Spares(chan', fwd'.pending, c) <=> Spares(chan, fwd.pending, c)
    <3>1. PICK p \in Seq(Events) : p = fwd.pending
        BY <1>2
    <3>2. p # <<>> => /\ Arrives(Append(chan, Head(p)), Tail(p), s, c) <=> Arrives(chan, p, s, c)
                      /\ Spares(Append(chan, Head(p)), Tail(p), c) <=> Spares(chan, p, c)
        BY <1>2, ArrivesEnds
    <3> QED  BY <2>1, <2>2, <3>1, <3>2
  <2>5. (Lands(x)' <=> Lands(x)) /\ (Lands(y)' <=> Lands(y)) /\ (KnowsLoss' <=> KnowsLoss)
      BY <1>3, <2>4 DEF Lands, KnowsLoss
  <2>6. Lands(fwd.covered)' /\ (Lands(pump.heard)' <=> Lands(pump.heard))
      BY <1>4, <1>5, <2>2, <2>5 DEF Lands
  <2> QED  BY <1>3, <1>5, <2>3, <2>5, <2>6, DownstreamAccounts
<1>7. CASE DeliverResync
  <2>1. /\ chan' = Append(chan, Resync(ring, FALSE)) /\ fwd' = Paid /\ fwd.pending = <<>>
      BY <1>7 DEF DeliverResync, Delivers
  <2>2. PICK e \in Events : e = Resync(ring, FALSE) /\ e.kind = "Resync" /\ e.seq = ring
      BY <1>2, EventKinds
  <2>3. fwd'.pending = fwd.pending /\ fwd'.covered = Larger(x, ring) /\ ~fwd'.announced
      BY <1>2, <1>4, <2>1, <2>2, ForwarderUpdates, FlagUpdates
  <2>4. PICK z \in 0 .. MaxSeq : z = fwd'.covered /\ (z = x \/ z = ring)
      BY <1>2, <1>4, <2>3 DEF Larger
  <2>5. /\ Lands(z) /\ e \notin Dropping(z) => Lands(z)'
        /\ e \in Lifting(z) => Lands(z)'
        /\ e \in Lifting(y) => Lands(y)'
      BY <1>1, <1>3, <2>1, <2>2, <2>3, PassedOn
  <2>6. e \notin Dropping(z) /\ e \in Lifting(ring) /\ e \in Lifting(y)
    <3>1. e.kind # "Unavailable" /\ e.kind # "Snapshot"
        BY <2>2
    <3>2. e.seq >= ring
      <4>1. ring >= ring
          BY <1>2
      <4> QED  BY <2>2, <4>1
    <3>3. e.seq >= y
        BY <1>2, <1>4, <2>2
    <3>4. e \notin Dropping(z)
        BY <3>1, EventSides
    <3>5. e \in Lifting(ring)
        BY <3>1, <3>2, EventSides
    <3>6. e \in Lifting(y)
        BY <3>1, <3>3, EventSides
    <3> QED  BY <3>4, <3>5, <3>6
  <2>7. Lands(z)' /\ Lands(y)'
      BY <1>5, <2>4, <2>5, <2>6
  <2>8. Lands(fwd.covered)' /\ Lands(pump.heard)'
      BY <1>5, <2>4, <2>7 DEF Lands
  <2> QED  BY <1>3, <2>3, <2>8, DownstreamAccounts
<1>8. CASE DeliverUnavailable
  <2>1. /\ chan' = IF Announces THEN Append(chan, Unavailable) ELSE chan
        /\ fwd' = [fwd EXCEPT !.queued = FALSE, !.announced = TRUE] /\ fwd.pending = <<>>
      BY <1>8 DEF DeliverUnavailable, Delivers
  <2>2. fwd'.pending = fwd.pending /\ fwd'.covered = x
      BY <1>2, <1>4, <2>1 DEF Forwarder
  <2>3. Unavailable \notin Dropping(x) /\ Unavailable \in Losing
      BY <1>2, EventSides
  <2>4. Lands(x)' /\ KnowsLoss'
    <3>1. CASE fwd.announced
      <4>1. chan' = chan
          BY <2>1, <3>1 DEF Announces
      <4> QED  BY <1>3, <1>5, <2>2, <3>1, <4>1, LeftAlone
    <3>2. CASE ~fwd.announced
      <4>1. chan' = Append(chan, Unavailable)
          BY <2>1, <3>2 DEF Announces
      <4>2. /\ Lands(x) /\ Unavailable \notin Dropping(x) => Lands(x)'
            /\ Unavailable \in Losing => KnowsLoss'
          BY <1>1, <1>2, <1>3, <2>1, <2>2, <4>1, PassedOn
      <4> QED  BY <1>5, <2>3, <4>2
    <3> QED  BY <3>1, <3>2
  <2>5. Lands(fwd.covered)'
      BY <2>2, <2>4 DEF Lands
  <2> QED  BY <1>3, <2>4, <2>5, DownstreamAccounts
<1>9. CASE PaceElapses
  <2>1. chan' = chan /\ fwd' = [fwd EXCEPT !.paced = FALSE]
      BY <1>9 DEF PaceElapses
  <2>2. /\ fwd'.pending = fwd.pending /\ fwd'.covered = fwd.covered
        /\ fwd'.announced = fwd.announced /\ fwd'.queued = fwd.queued
      BY <1>2, <2>1 DEF Forwarder
  <2>3. (Lands(x)' <=> Lands(x)) /\ (Lands(y)' <=> Lands(y)) /\ (KnowsLoss' <=> KnowsLoss)
      BY <1>3, <2>1, <2>2, LeftAlone
  <2>4. Lands(fwd.covered)' /\ (Lands(pump.heard)' <=> Lands(pump.heard))
      BY <1>4, <1>5, <2>2, <2>3 DEF Lands
  <2> QED  BY <1>3, <1>5, <2>2, <2>3, <2>4, DownstreamAccounts
<1> QED  BY <1>6, <1>7, <1>8, <1>9

\* The client minds what it receives.
LEMMA ClientAccounts ==
    ASSUME StreamInv, Accounted, Client, excuse' = {}
    PROVE  Accounted'
<1>1. QueueInv /\ SourceInv /\ PaneOK(pane)
    BY StreamParts
<1>2. chan \in Seq(Events) /\ fwd.pending \in Seq(Events)
    BY <1>1 DEF QueueInv, Forwarder
<1>3. UNCHANGED <<bus, raw, pump, lag, fwd>>
    BY DEF Client, Receive, Retry, UserDistrusts, Flush
<1>4. ready' = ready
    BY DEF Client, Receive, Retry, UserDistrusts, Flush
<1>5. PICK x \in 0 .. MaxSeq, y \in 0 .. MaxSeq : x = fwd.covered /\ y = pump.heard
    BY <1>1 DEF QueueInv, SourceInv, Forwarder
<1>6. ASSUME NEW t \in 0 .. MaxSeq
      PROVE  (Lands(t) => Lands(t)') /\ (KnowsLoss => KnowsLoss')
  <2>1. CASE Receive
    <3>1. chan # <<>> /\ chan' = Tail(chan) /\ Head(chan) \in Events
        BY <2>1, ReceiveEffect
    <3>2. ASSUME NEW s, NEW c
          PROVE  /\ Arrives(chan, fwd.pending, s, c) <=>
                       \/ Arrives(chan', fwd'.pending, s, c)
                       \/ Spares(chan', fwd'.pending, c) /\ Head(chan) \in s
                 /\ Spares(chan, fwd.pending, c) <=>
                       Spares(chan', fwd'.pending, c) /\ Head(chan) \notin c
      <4>1. PICK p \in Seq(Events) : p = fwd.pending
          BY <1>2
      <4>2. chan # <<>> =>
               /\ Arrives(chan, p, s, c) <=>
                     Arrives(Tail(chan), p, s, c) \/ (Spares(Tail(chan), p, c) /\ Head(chan) \in s)
               /\ Spares(chan, p, c) <=> Spares(Tail(chan), p, c) /\ Head(chan) \notin c
          BY <1>2, <3>1, ArrivesEnds
      <4> QED  BY <1>3, <3>1, <4>1, <4>2
    <3>3. /\ Head(chan) \in Lifting(t) => Minds(pane', t)
          /\ Minds(pane, t) /\ Head(chan) \notin Dropping(t) => Minds(pane', t)
          /\ Head(chan) \in Losing => Desynced(pane')
          /\ Desynced(pane) /\ Head(chan) \notin Restoring => Desynced(pane')
        BY <2>1, ReceiveMinds
    <3>4. Lands(t) => Lands(t)'
      <4>1. PICK s, c : s = Lifting(t) /\ c = Dropping(t)
          OBVIOUS
      <4>2. /\ Lands(t) <=> \/ Arrives(chan, fwd.pending, s, c)
                            \/ Spares(chan, fwd.pending, c) /\ Minds(pane, t)
            /\ Lands(t)' <=> \/ Arrives(chan', fwd'.pending, s, c)
                             \/ Spares(chan', fwd'.pending, c) /\ Minds(pane', t)
          BY <4>1, Zenon DEF Lands
      <4> QED  BY <3>2, <3>3, <4>1, <4>2
    <3>5. KnowsLoss => KnowsLoss'
      <4>1. PICK s, c : s = Losing /\ c = Restoring
          OBVIOUS
      <4>2. /\ KnowsLoss <=> \/ Arrives(chan, fwd.pending, s, c)
                             \/ Spares(chan, fwd.pending, c) /\ Desynced(pane)
            /\ KnowsLoss' <=> \/ Arrives(chan', fwd'.pending, s, c)
                              \/ Spares(chan', fwd'.pending, c) /\ Desynced(pane')
          BY <4>1, Zenon DEF KnowsLoss
      <4> QED  BY <3>2, <3>3, <4>1, <4>2
    <3> QED  BY <3>4, <3>5
  <2>2. CASE Retry \/ UserDistrusts \/ Flush
    <3>1. chan' = chan
        BY <2>2 DEF Retry, UserDistrusts, Flush
    <3>2. (Minds(pane, t) => Minds(pane', t)) /\ (Desynced(pane) => Desynced(pane'))
        BY <2>2, ClientMinds
    <3> QED  BY <1>3, <3>1, <3>2 DEF Lands, KnowsLoss
  <2> QED  BY <2>1, <2>2 DEF Client
<1>7. Lands(fwd.covered)' /\ (Lands(pump.heard) => Lands(pump.heard)')
  <2>1. Lands(x)' /\ (Lands(y) => Lands(y)') /\ x = fwd'.covered /\ y = pump'.heard
      BY <1>3, <1>5, <1>6 DEF Accounted
  <2> QED  BY <1>5, <2>1 DEF Lands
<1>8. KnowsLoss => KnowsLoss'
    BY <1>5, <1>6
<1> QED  BY <1>3, <1>4, <1>7, <1>8, DownstreamAccounts DEF Accounted

\* A recovery that is owed stays so until it is built, and until then it is.
LEMMA RecoveryKept ==
    ASSUME StreamInv, RecoveryComing, excuse' = {}, Next,
           ~\E i \in DOMAIN ready : Reply(i)
    PROVE  RecoveryComing'
<1>1. QueueInv /\ LagInv /\ SourceInv
    BY StreamParts
<1>2. /\ ready \in Seq(Events) /\ ring \in 0 .. MaxSeq /\ 0 \in 0 .. MaxSeq
      /\ lag.gen \in Nat /\ lag.building \subseteq 1 .. MaxLags
      /\ lag \in [lagged: BOOLEAN, recent: BOOLEAN, gen: 0 .. MaxLags,
                  building: SUBSET (1 .. MaxLags), left: 0 .. MaxLags]
    BY <1>1, StreamBounds DEF QueueInv, LagInv, SourceInv
<1> DEFINE K == {"Snapshot", "NoReplay"}
<1>3. CASE UNCHANGED <<lag, ready>>
    BY <1>3 DEF RecoveryComing
<1>4. CASE Overwrite
  <2>1. PICK k \in {lag.left, lag.left - 1} : lag' = [lag EXCEPT !.lagged = TRUE, !.left = k]
      BY <1>4 DEF Overwrite
  <2>2. lag'.lagged
      BY <1>2, <2>1
  <2> QED  BY <2>2 DEF RecoveryComing
<1>5. CASE ServeLagged
  <2>1. Recovers
      BY <1>5 DEF ServeLagged
  <2>2. PICK g, b : g = lag.gen + 1 /\ b = lag.building \cup {g}
      OBVIOUS
  <2>3. lag' = [lag EXCEPT !.lagged = FALSE, !.recent = TRUE, !.gen = g, !.building = b]
      BY <1>5, <2>1, <2>2 DEF ServeLagged
  <2>4. lag'.gen = g /\ lag'.building = b
      BY <1>2, <2>3
  <2> QED  BY <2>2, <2>4 DEF RecoveryComing
<1>6. CASE LagWindowCloses
  <2>1. lag' = [lag EXCEPT !.recent = FALSE] /\ ready' = ready
      BY <1>6 DEF LagWindowCloses
  <2>2. lag'.lagged = lag.lagged /\ lag'.gen = lag.gen /\ lag'.building = lag.building
      BY <1>2, <2>1
  <2> QED  BY <2>1, <2>2 DEF RecoveryComing
<1>7. ASSUME NEW g, BuildRecovery(g)
      PROVE  RecoveryComing'
  <2>1. PICK b : b = lag.building \ {g}
      OBVIOUS
  <2>2. /\ lag' = [lag EXCEPT !.building = b]
        /\ g < lag.gen => ready' = ready
        /\ ~(g < lag.gen) => \E s \in {0, ring}, v \in BOOLEAN : ready' = Append(ready, Snapshot(s, v))
      BY <1>7, <2>1 DEF BuildRecovery
  <2>3. lag'.lagged = lag.lagged /\ lag'.gen = lag.gen /\ lag'.building = b
      BY <1>2, <2>2
  <2>4. CASE g < lag.gen
    <3>1. lag.gen # g
        BY <1>2, <2>4
    <3> QED  BY <2>1, <2>2, <2>3, <2>4, <3>1 DEF RecoveryComing
  <2>5. CASE ~(g < lag.gen)
    <3>1. PICK s \in {0, ring}, v \in BOOLEAN : ready' = Append(ready, Snapshot(s, v))
        BY <2>2, <2>5
    <3>2. s \in 0 .. MaxSeq
        BY <1>2
    <3>3. Snapshot(s, v) \in Events /\ Snapshot(s, v).kind \in K
        BY <3>2, EventKinds
    <3>4. Carries(ready', K)
        BY <1>2, <3>1, <3>3, CarriesEnds
    <3> QED  BY <3>4 DEF RecoveryComing
  <2> QED  BY <2>4, <2>5
<1>8. ASSUME NEW g, AbandonRecovery(g)
      PROVE  FALSE
    BY <1>8 DEF AbandonRecovery
<1>9. ASSUME NEW i \in DOMAIN asks, ReadRing(i)
      PROVE  RecoveryComing'
  <2>1. lag' = lag /\ \E e \in {Resync(ring, TRUE), Unavailable} : ready' = Append(ready, e)
      BY <1>9 DEF ReadRing
  <2>2. Resync(ring, TRUE) \in Events /\ Unavailable \in Events
    <3>1. Resync(ring, TRUE) \in Events
        BY <1>2, EventKinds
    <3>2. Unavailable \in Events
        BY <1>2, EventKinds
    <3> QED  BY <3>1, <3>2
  <2>3. Carries(ready, K) => Carries(ready', K)
    <3>1. \A e \in Events : Carries(ready, K) => Carries(Append(ready, e), K)
        BY <1>2, CarriesEnds
    <3> QED  BY <2>1, <2>2, <3>1
  <2> QED  BY <2>1, <2>3 DEF RecoveryComing
<1>10. Produce \/ Pump \/ ServeBus \/ Forward \/ Client => UNCHANGED <<lag, ready>>
    BY DEF Produce, Pump, PumpDuplicate, PumpForward, PumpResync, PumpUnavailable, ServeBus,
       Forward, RouteSuperseded, RouteOutput, RouteStructured, DeliverPending, DeliverResync,
       DeliverUnavailable, PaceElapses, Client, Receive, Retry, UserDistrusts, Flush
<1> QED  BY <1>3, <1>4, <1>5, <1>6, <1>7, <1>8, <1>9, <1>10 DEF Next, Connection

\* A step upstream of the forwarder keeps its part of the account.
LEMMA ForwarderIdle ==
    ASSUME Accounted, UNCHANGED <<chan, fwd, pane>>
    PROVE  /\ Lands(fwd.covered)' /\ (fwd'.announced => KnowsLoss')
           /\ pump' = pump /\ (fwd.queued \/ Lands(pump.heard) \/ KnowsLoss)
                => fwd'.queued \/ Lands(pump.heard)' \/ KnowsLoss'
<1>1. Lands(fwd.covered)' /\ (fwd'.announced => KnowsLoss')
    BY DEF Accounted, Lands, KnowsLoss
<1>2. pump' = pump /\ (fwd.queued \/ Lands(pump.heard) \/ KnowsLoss)
         => fwd'.queued \/ Lands(pump.heard)' \/ KnowsLoss'
    BY DEF Lands, KnowsLoss
<1> QED  BY <1>1, <1>2

\* What the pump publishes speaks for every chunk it has handled.
LEMMA PumpAccounts ==
    ASSUME StreamInv, Accounted, Pump, excuse' = {}
    PROVE  Accounted'
<1>1. QueueInv /\ SourceInv
    BY StreamParts
<1>2. /\ UNCHANGED <<raw, chan, fwd, pane, lag, ready>> /\ live # <<>>
      /\ bus \in Seq(Events) /\ ring \in 0 .. MaxSeq /\ live \in Seq(1 .. MaxSeq)
      /\ pump \in [seq: 0 .. MaxSeq, heard: 0 .. MaxSeq, announced: BOOLEAN]
    BY <1>1 DEF Pump, PumpDuplicate, PumpForward, PumpResync, PumpUnavailable, QueueInv, SourceInv
<1>3. Head(live) \in 0 .. MaxSeq /\ Head(live) <= ring
  <2>1. Head(live) \in 1 .. MaxSeq /\ 1 \in DOMAIN live /\ Head(live) = live[1]
      BY <1>2, QueuePop
  <2> QED  BY <1>1, <2>1, StreamBounds DEF SourceInv, RingIsAhead
<1>4. Lands(fwd.covered)' /\ (fwd'.announced => KnowsLoss')
    BY <1>2, ForwarderIdle
<1>5. ASSUME NEW e \in Events, bus' = Append(bus, e),
             e.kind = "Unavailable" \/ e.seq >= pump'.heard
      PROVE  Accounted'
  <2>1. bus' # <<>> /\ Last(bus') = e
      BY <1>2, <1>5, LastEnds
  <2>2. Tells(Last(bus))'
      BY <1>5, <2>1 DEF Tells
  <2> QED  BY <1>4, <2>1, <2>2 DEF Accounted
<1>6. CASE PumpDuplicate
  <2>1. pump' = pump /\ bus' = bus
      BY <1>6 DEF PumpDuplicate
  <2> QED  BY <1>2, <1>4, <2>1, DownstreamAccounts, ForwarderIdle
<1>7. CASE PumpForward
  <2>1. bus' = Append(bus, Output(Head(live))) /\ pump'.heard = Head(live)
      BY <1>2, <1>7 DEF PumpForward, Publish
  <2>2. Output(Head(live)) \in Events /\ Output(Head(live)).seq = Head(live)
      BY <1>3, EventKinds
  <2>3. Output(Head(live)).seq >= pump'.heard
      BY <1>3, <2>1, <2>2, StreamBounds
  <2> QED  BY <1>5, <2>1, <2>2, <2>3
<1>8. CASE PumpResync
  <2>1. bus' = Append(bus, Resync(ring, FALSE)) /\ pump'.heard = Head(live)
      BY <1>8 DEF PumpResync, Publish
  <2>2. Resync(ring, FALSE) \in Events /\ Resync(ring, FALSE).seq = ring
      BY <1>2, EventKinds
  <2>3. Resync(ring, FALSE).seq >= pump'.heard
      BY <1>2, <1>3, <2>1, <2>2, StreamBounds
  <2> QED  BY <1>5, <2>1, <2>2, <2>3
<1>9. CASE PumpUnavailable
  <2>1. bus' = Append(bus, Unavailable)
      BY <1>9 DEF PumpUnavailable, Publish
  <2>2. Unavailable \in Events /\ Unavailable.kind = "Unavailable"
      BY <1>2, EventKinds
  <2> QED  BY <1>5, <2>1, <2>2
<1> QED  BY <1>6, <1>7, <1>8, <1>9 DEF Pump

\* The connection hands on what speaks for every chunk, or recovers.
LEMMA ConnectionAccounts ==
    ASSUME StreamInv, Accounted, Overwrite \/ Connection, up', excuse' = {}
    PROVE  Accounted'
<1>1. QueueInv /\ LagInv /\ SourceInv
    BY StreamParts
<1>2. /\ UNCHANGED <<chan, fwd, pane, pump>>
      /\ bus \in Seq(Events) /\ raw \in Seq(Events) /\ ready \in Seq(Events)
      /\ ring \in 0 .. MaxSeq
    BY <1>1 DEF Overwrite, Connection, ServeBus, ServeLagged, LagWindowCloses, BuildRecovery,
       AbandonRecovery, ReadRing, Reply, QueueInv, SourceInv
<1>3. /\ Lands(fwd.covered)' /\ (fwd'.announced => KnowsLoss')
      /\ fwd.queued \/ Lands(pump.heard) \/ KnowsLoss
           => fwd'.queued \/ Lands(pump.heard)' \/ KnowsLoss'
    BY <1>2, ForwarderIdle
<1>4. Next /\ up
    BY RestStep DEF Next
<1>5. \A d : (d.kind \in {"Unavailable", "NoReplay"} \/ d.seq >= pump'.heard)
              <=> (d.kind \in {"Unavailable", "NoReplay"} \/ d.seq >= pump.heard)
    BY <1>2
<1>6. (bus # <<>> => Tells(Last(bus)))
      /\ (bus = <<>> /\ raw # <<>> => RecoveryComing \/ Tells(Last(raw)))
      /\ (bus = <<>> /\ raw = <<>> =>
             RecoveryComing \/ fwd.queued \/ Lands(pump.heard) \/ KnowsLoss)
    BY DEF Accounted
<1>7. ASSUME UNCHANGED <<bus, raw>>, RecoveryComing => RecoveryComing'
      PROVE  Accounted'
  <2>1. bus' # <<>> => Tells(Last(bus))'
      BY <1>2, <1>6, <1>7 DEF Tells
  <2>2. bus' = <<>> /\ raw' # <<>> => RecoveryComing' \/ Tells(Last(raw))'
      BY <1>2, <1>6, <1>7 DEF Tells
  <2>3. bus' = <<>> /\ raw' = <<>> =>
           RecoveryComing' \/ fwd'.queued \/ Lands(pump.heard)' \/ KnowsLoss'
      BY <1>3, <1>6, <1>7
  <2> QED  BY <1>3, <2>1, <2>2, <2>3 DEF Accounted
<1>8. CASE Overwrite
  <2>1. bus # <<>> /\ bus' = Tail(bus) /\ raw' = raw
      BY <1>8 DEF Overwrite
  <2>2. RecoveryComing'
    <3>1. PICK k \in {lag.left, lag.left - 1} : lag' = [lag EXCEPT !.lagged = TRUE, !.left = k]
        BY <1>8 DEF Overwrite
    <3>2. lag'.lagged
        BY <1>1, <3>1 DEF LagInv
    <3> QED  BY <3>2 DEF RecoveryComing
  <2>3. bus' # <<>> => Tells(Last(bus))'
    <3>1. Unavailable \in Events
        BY <1>2, EventKinds
    <3>2. bus' # <<>> => Last(bus') = Last(bus)
        BY <1>2, <2>1, <3>1, LastEnds
    <3> QED  BY <1>2, <1>6, <2>1, <3>2 DEF Tells
  <2> QED  BY <1>3, <2>2, <2>3 DEF Accounted
<1>9. CASE ServeBus
  <2>1. bus # <<>> /\ bus' = Tail(bus) /\ Admit(Head(bus)) /\ UNCHANGED <<lag, ready>>
      BY <1>9 DEF ServeBus
  <2>2. PICK e \in Events : e = Head(bus)
      BY <1>2, <2>1, QueuePop
  <2>3. raw' = Append(raw, e)
      BY <1>2, <1>4, <2>1, <2>2, AdmitEffect
  <2>4. raw' # <<>> /\ Last(raw') = e
      BY <1>2, <2>3, LastEnds
  <2>5. bus' # <<>> => Tells(Last(bus))'
    <3>1. bus' # <<>> => Last(bus') = Last(bus)
        BY <1>2, <2>1, <2>2, LastEnds
    <3> QED  BY <1>2, <1>6, <2>1, <3>1 DEF Tells
  <2>6. bus' = <<>> => Tells(Last(raw))'
    <3>1. bus' = <<>> => Last(bus) = e
        BY <1>2, <2>1, <2>2, LastEnds
    <3> QED  BY <1>2, <1>6, <2>1, <2>4, <3>1 DEF Tells
  <2> QED  BY <1>3, <2>4, <2>5, <2>6 DEF Accounted
<1>10. ASSUME NEW i \in DOMAIN ready, Reply(i)
       PROVE  Accounted'
  <2>1. Admit(ready[i]) /\ bus' = bus /\ ~Overtaken(ready[i])
      BY <1>10 DEF Reply
  <2>2. PICK e \in Events : e = ready[i] /\ e.kind \in Answers
    <3>1. Unavailable \in Events /\ Unavailable.kind \in Answers
        BY <1>2, EventKinds DEF Answers
    <3> QED  BY <1>1, <3>1, ReadyUpdates
  <2>3. raw' = Append(raw, e)
      BY <1>2, <1>4, <2>1, <2>2, AdmitEffect
  <2>4. raw' # <<>> /\ Last(raw') = e
      BY <1>2, <2>3, LastEnds
  <2>5. e.kind \in {"Unavailable", "NoReplay"} \/ e.seq >= pump.heard
    <3>1. e.seq \in Nat /\ pump.heard \in Nat
        BY <1>1, EventSeq, StreamBounds DEF SourceInv
    <3> QED  BY <2>1, <2>2, <3>1 DEF Overtaken, Replays, Answers
  <2>6. Tells(Last(raw))'
      BY <1>2, <2>4, <2>5 DEF Tells
  <2>7. bus' # <<>> => Tells(Last(bus))'
      BY <1>2, <1>6, <2>1 DEF Tells
  <2> QED  BY <1>3, <2>4, <2>6, <2>7 DEF Accounted
<1>11. CASE ~Overwrite /\ ~ServeBus /\ ~\E i \in DOMAIN ready : Reply(i)
  <2>1. UNCHANGED <<bus, raw>>
      BY <1>11 DEF Connection, ServeLagged, LagWindowCloses, BuildRecovery, AbandonRecovery,
         ReadRing
  <2>2. RecoveryComing => RecoveryComing'
      BY <1>4, <1>11, RecoveryKept
  <2> QED  BY <1>7, <2>1, <2>2
<1> QED  BY <1>8, <1>9, <1>10, <1>11

\* Every chunk the pump has handled stays accounted for.
LEMMA AccountedStep ==
    ASSUME StreamInv, NothingIsLost, Next
    PROVE  NothingIsLost'
<1> SUFFICES ASSUME up', excuse' = {}
             PROVE  Accounted'
    BY DEF NothingIsLost
<1>1. excuse \subseteq excuse'
    BY DEF Next, Produce, Overwrite, Pump, PumpDuplicate, PumpForward, PumpResync, PumpUnavailable,
       Connection, ServeBus, ServeLagged, LagWindowCloses, BuildRecovery, AbandonRecovery,
       ReadRing, Reply, Forward, RouteSuperseded, RouteOutput, RouteStructured,
       DeliverPending, DeliverResync, DeliverUnavailable, PaceElapses, Client, Receive, Retry,
       UserDistrusts, Flush
<1>2. Accounted
    BY <1>1, RestStep DEF NothingIsLost
<1>3. CASE Produce
  <2>1. UNCHANGED <<bus, raw, pump, lag, ready>> /\ UNCHANGED <<chan, fwd, pane>>
      BY <1>3 DEF Produce
  <2> QED  BY <1>2, <2>1, DownstreamAccounts, ForwarderIdle
<1>4. CASE Pump
    BY <1>2, <1>4, PumpAccounts
<1>5. CASE Overwrite \/ Connection
    BY <1>2, <1>5, ConnectionAccounts
<1>6. CASE Forward
  <2>1. CASE RouteSuperseded \/ RouteOutput \/ RouteStructured
      BY <1>2, <2>1, RouteAccounts
  <2>2. CASE DeliverPending \/ DeliverResync \/ DeliverUnavailable \/ PaceElapses
      BY <1>2, <2>2, DeliverAccounts
  <2> QED  BY <1>6, <2>1, <2>2 DEF Forward
<1>7. CASE Client
    BY <1>2, <1>7, ClientAccounts
<1> QED  BY <1>3, <1>4, <1>5, <1>6, <1>7 DEF Next

\* When all the queues are empty, what is accounted for is shown.
LEMMA AccountedIsShown ==
    ASSUME StreamInv, NothingIsLost
    PROVE  QuietPaneIsCurrent
<1> SUFFICES ASSUME Settled, excuse = {}
             PROVE  ShowsAll
    BY DEF QuietPaneIsCurrent
<1>1. /\ Accounted /\ bus = <<>> /\ raw = <<>> /\ chan = <<>> /\ ready = <<>>
      /\ fwd.pending = <<>> /\ ~lag.lagged /\ lag.building = {} /\ ~fwd.queued /\ ~Desynced(pane)
    BY DEF Settled, NothingIsLost
<1>2. ~Carries(<<>>, {"Snapshot", "NoReplay"})
    BY DEF Carries
<1>3. ~RecoveryComing
    BY <1>1, <1>2 DEF RecoveryComing
<1>4. Lands(pump.heard) \/ KnowsLoss
    BY <1>1, <1>3 DEF Accounted
<1>5. ASSUME NEW s, NEW c
      PROVE  ~Arrives(<<>>, <<>>, s, c)
    BY DEF Arrives, Sets
<1>6. Minds(pane, pump.heard)
    BY <1>1, <1>4, <1>5 DEF Lands, KnowsLoss
<1> QED  BY <1>1, <1>6 DEF Minds, ShowsAll

\* Whatever was lost, dropped, delayed or repaired on the way, and by whichever
\* of the four makers of replays, a client at rest that believes it is coherent
\* shows every chunk that reached the pump, unless one of the five recorded
\* races happened: the tail of a stream that goes quiet is never just missing.
THEOREM QuietPaneShowsAll == Spec => []QuietPaneIsCurrent
<1>1. Init => NothingIsLost
  <2> SUFFICES ASSUME Init
               PROVE  Accounted
      BY DEF NothingIsLost
  <2>1. /\ chan = <<>> /\ fwd.pending = <<>> /\ bus = <<>> /\ raw = <<>>
        /\ fwd.covered = 0 /\ pump.heard = 0 /\ ~fwd.announced /\ pane.last = 0
      BY DEF Init, FreshPane
  <2>2. Spares(<<>>, <<>>, Dropping(0))
      BY DEF Spares, Keeps
  <2>3. Minds(pane, 0)
      BY <2>1 DEF Minds
  <2>4. Lands(fwd.covered) /\ Lands(pump.heard)
      BY <2>1, <2>2, <2>3 DEF Lands
  <2> QED  BY <2>1, <2>4 DEF Accounted
<1>2. StreamInv /\ NothingIsLost /\ [Next]_vars => NothingIsLost'
  <2> SUFFICES ASSUME StreamInv, NothingIsLost, [Next]_vars
               PROVE  NothingIsLost'
      OBVIOUS
  <2>1. CASE Next
      BY <2>1, AccountedStep
  <2>2. CASE UNCHANGED vars
    <3>1. (Lands(fwd.covered)' <=> Lands(fwd.covered)) /\ (Lands(pump.heard)' <=> Lands(pump.heard))
          /\ (KnowsLoss' <=> KnowsLoss) /\ (RecoveryComing' <=> RecoveryComing)
        BY <2>2 DEF vars, Lands, KnowsLoss, RecoveryComing
    <3>2. (Tells(Last(bus))' <=> Tells(Last(bus))) /\ (Tells(Last(raw))' <=> Tells(Last(raw)))
        BY <2>2 DEF vars, Tells
    <3> QED  BY <2>2, <3>1, <3>2 DEF vars, NothingIsLost, Accounted
  <2> QED  BY <2>1, <2>2
<1>3. StreamInv /\ NothingIsLost => QuietPaneIsCurrent
    BY AccountedIsShown
<1> QED  BY <1>1, <1>2, <1>3, StreamInvariant, PTL DEF Spec
=============================================================================
