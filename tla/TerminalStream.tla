--------------------------- MODULE TerminalStream ---------------------------
(***************************************************************************)
(* The output of one terminal on its way to one client: the backend's      *)
(* reader pushes a chunk to the replay ring and then to the pump           *)
(* (spawn_handler.rs), the pump publishes on the daemon's broadcast bus,   *)
(* the connection's serve loop (lib.rs) moves bus events into the          *)
(* connection's ordered ingress, the forwarder (event_forward.rs) moves    *)
(* those into the bounded client channel, and the client (TerminalClient)  *)
(* feeds its emulator.  Output is lossy at every hop: the bridge to the    *)
(* pump and the bus overwrite, the forwarder drops.  What is lost is       *)
(* repaired by a replay of the ring, materialised by the pump, by the      *)
(* forwarder, by a detached task answering a client's request, or by a     *)
(* detached task recovering from bus lag; those four are not ordered with  *)
(* each other nor with live output.                                        *)
(*                                                                         *)
(* Chunks are numbered; their bytes are left out, and so is the terminal's *)
(* exit.  Other events only fill the bus (Overwrite).  A client that       *)
(* overflows a structured queue is disconnected and starts afresh, which   *)
(* ends the behaviour modelled here.  An operator X_Y stated before X is X *)
(* with a plausible bug, and is used by no specification.                  *)
(***************************************************************************)
EXTENDS TerminalClient, SequencesExt

CONSTANTS
    MaxSeq,     \* bound: chunks the terminal produces
    BusCap,     \* this terminal's events the broadcast bus holds unread
    RawCap,     \* normal events the connection's ingress holds
    Reserve,    \* slots of the ingress only authoritative events may use
    ChanCap,    \* capacity of the client channel
    PendMax,    \* MAX_PENDING_STRUCTURED_EVENTS
    MaxLost,    \* bound: chunks lost between the reader and the pump
    MaxFaults,  \* bound: failed snapshots (of the pump: episodes of them),
                \* failed adoptions, and times the user distrusts the grid
    MaxLags,    \* bound: times the connection finds that it lagged the bus
    MaxAsks     \* bound: client requests being answered at a time

ASSUME StreamAssumption ==
    /\ {MaxSeq, PendMax, MaxLost, MaxFaults, MaxLags, Reserve} \subseteq Nat
    /\ {BusCap, RawCap, ChanCap, MaxAsks} \subseteq Nat \ {0}
    /\ None \notin Nat

VARIABLES
    ring,       \* last sequence in the replay ring
    live,       \* chunks on their way to the pump
    pump,       \* the pump: last sequence published, notice announced, and
                \* (history) the last chunk that reached it
    bus,        \* what the connection has not received from the bus yet
    lag,        \* lagged: the bus overwrote events; recent: inside the
                \* debounce window; gen: lag_recovery_generation; building:
                \* the recovery tasks that have not read the terminals yet;
                \* left: how often the bus may still outrun the connection
    raw,        \* the connection's ingress
    fwd,        \* ForwardState
    chan,       \* the client channel
    pane,       \* the client's slot
    asks,       \* client requests a detached task has not read the ring for
    ready,      \* events detached tasks have built and not sent yet
    up,         \* is the client still connected?
    budget,     \* how often each bounded fault may still happen
    excuse      \* history: the races that left the client behind for good

vars == <<ring, live, pump, bus, lag, raw, fwd, chan, pane, asks, ready, up, budget, excuse>>

Output(s) == [kind |-> "Output", seq |-> s, auth |-> FALSE]
Resync(s, a) == [kind |-> "Resync", seq |-> s, auth |-> a]
Unavailable == [kind |-> "Unavailable", seq |-> 0, auth |-> FALSE]
Snapshot(s, available) ==
    [kind |-> IF available THEN "Snapshot" ELSE "NoReplay", seq |-> s, auth |-> TRUE]

Events ==
    [kind: {"Output", "Resync", "Unavailable", "Snapshot", "NoReplay"},
     seq: 0 .. MaxSeq, auth: BOOLEAN]

Init ==
    /\ ring = 0 /\ live = <<>>
    /\ pump = [seq |-> 0, heard |-> 0, announced |-> FALSE]
    /\ bus = <<>>
    /\ lag = [lagged |-> FALSE, recent |-> FALSE, gen |-> 0, building |-> {},
              left |-> MaxLags]
    /\ raw = <<>> /\ chan = <<>>
    /\ fwd = [pending |-> <<>>, queued |-> FALSE, debt |-> 0, covered |-> 0,
              announced |-> FALSE, paced |-> FALSE]
    /\ pane = FreshPane
    /\ asks = <<>> /\ ready = <<>>
    /\ up = TRUE
    /\ budget = [lost |-> MaxLost, faults |-> MaxFaults]
    /\ excuse = {}

Spend(what) ==
    /\ budget[what] > 0
    /\ budget' = [budget EXCEPT ![what] = @ - 1]

-----------------------------------------------------------------------------
(* The terminal and its pump.                                              *)

\* The reader pushes to the ring before it hands the chunk on; a full
\* bridge loses the chunk.
Produce ==
    /\ up /\ ring < MaxSeq
    /\ ring' = ring + 1
    /\ \/ live' = Append(live, ring + 1) /\ UNCHANGED budget
       \/ Spend("lost") /\ UNCHANGED live
    /\ UNCHANGED <<pump, bus, lag, raw, fwd, chan, pane, asks, ready, up, excuse>>

\* bus.send
Publish(e) == Len(bus) < BusCap /\ bus' = Append(bus, e)

\* Every event of the daemon goes over the same bus: one that outruns the
\* connection by the capacity of the bus overwrites what it has not read.
Overwrite ==
    /\ up /\ bus # <<>> /\ (lag.lagged \/ lag.left > 0)
    /\ bus' = Tail(bus)
    /\ lag' = [lag EXCEPT !.lagged = TRUE, !.left = IF lag.lagged THEN @ ELSE @ - 1]
    /\ UNCHANGED <<ring, live, pump, raw, fwd, chan, pane, asks, ready, up, budget, excuse>>

PumpDuplicate ==
    /\ up /\ live # <<>> /\ Head(live) <= pump.seq
    /\ live' = Tail(live)
    /\ UNCHANGED <<ring, pump, bus, lag, raw, fwd, chan, pane, asks, ready, up, budget, excuse>>

PumpForward ==
    /\ up /\ live # <<>> /\ Head(live) = pump.seq + 1
    /\ live' = Tail(live)
    /\ pump' = [pump EXCEPT !.seq = Head(live), !.heard = Head(live)]
    /\ Publish(Output(Head(live)))
    /\ UNCHANGED <<ring, lag, raw, fwd, chan, pane, asks, ready, up, budget, excuse>>

\* A gap, and a snapshot that reaches past it.
PumpResync ==
    /\ up /\ live # <<>> /\ Head(live) > pump.seq + 1
    /\ live' = Tail(live)
    /\ pump' = [seq |-> ring, heard |-> Head(live), announced |-> FALSE]
    /\ Publish(Resync(ring, FALSE))
    /\ UNCHANGED <<ring, lag, raw, fwd, chan, pane, asks, ready, up, budget, excuse>>

\* A gap, and no snapshot: announced once, and the chunk is gone.
PumpUnavailable ==
    /\ up /\ live # <<>> /\ Head(live) > pump.seq + 1
    /\ live' = Tail(live)
    /\ IF pump.announced
       THEN /\ excuse' = excuse \cup {"silent"}
            /\ pump' = [pump EXCEPT !.heard = Head(live)]
            /\ UNCHANGED <<bus, budget>>
       ELSE /\ pump' = [pump EXCEPT !.heard = Head(live), !.announced = TRUE]
            /\ Publish(Unavailable) /\ Spend("faults")
            /\ UNCHANGED excuse
    /\ UNCHANGED <<ring, lag, raw, fwd, chan, pane, asks, ready, up>>

-----------------------------------------------------------------------------
(* The connection: ingress, lag recovery and requested replays.            *)

IsNormal(e) == ~e.auth

\* EventSender::send and send_authoritative: a normal event takes one of the
\* normal slots of the channel too.  No room disconnects.
Admit(e) ==
    IF /\ Len(raw) < RawCap + Reserve
       /\ ~e.auth => Len(SelectSeq(raw, IsNormal)) < RawCap
    THEN raw' = Append(raw, e) /\ UNCHANGED up
    ELSE up' = FALSE /\ UNCHANGED raw

ServeBus ==
    /\ up /\ ~lag.lagged /\ bus # <<>>
    /\ bus' = Tail(bus)
    /\ Admit(Head(bus))
    /\ UNCHANGED <<ring, live, pump, lag, fwd, chan, pane, asks, ready, budget, excuse>>

\* A lag inside the debounce window of the last recovery spawns none.
Recovers == ~lag.recent

ServeLagged ==
    /\ up /\ lag.lagged
    /\ IF Recovers
       THEN /\ lag' = [lag EXCEPT !.lagged = FALSE, !.recent = TRUE, !.gen = @ + 1,
                                  !.building = @ \cup {lag.gen + 1}]
            /\ UNCHANGED excuse
       ELSE /\ lag' = [lag EXCEPT !.lagged = FALSE]
            /\ excuse' = excuse \cup {"skipped"}
    /\ UNCHANGED <<ring, live, pump, bus, raw, fwd, chan, pane, asks, ready, up, budget>>

LagWindowCloses ==
    /\ up /\ lag.recent
    /\ lag' = [lag EXCEPT !.recent = FALSE]
    /\ UNCHANGED <<ring, live, pump, bus, raw, fwd, chan, pane, asks, ready, up, budget, excuse>>

\* The task has read the store; superseded by a newer one, it ends, and
\* otherwise it reads the terminals.  The replay may be over the budget of a
\* snapshot (the sequence is kept) or not be had at all (it is 0).
BuildRecovery(g) ==
    /\ up /\ g \in lag.building
    /\ lag' = [lag EXCEPT !.building = @ \ {g}]
    /\ IF g < lag.gen
       THEN UNCHANGED <<ready, budget>>
       ELSE \/ ready' = Append(ready, Snapshot(ring, TRUE)) /\ UNCHANGED budget
            \/ /\ Spend("faults")
               /\ \E s \in {0, ring} : ready' = Append(ready, Snapshot(s, FALSE))
    /\ UNCHANGED <<ring, live, pump, bus, raw, fwd, chan, pane, asks, up, excuse>>

\* The store could not be read: nothing is sent.
AbandonRecovery(g) ==
    /\ up /\ g \in lag.building
    /\ Spend("faults")
    /\ lag' = [lag EXCEPT !.building = @ \ {g}]
    /\ excuse' = excuse \cup {"skipped"}
    /\ UNCHANGED <<ring, live, pump, bus, raw, fwd, chan, pane, asks, ready, up>>

\* handle_terminal_resync_request reads the ring...
ReadRing(i) ==
    /\ up /\ i \in DOMAIN asks
    /\ asks' = RemoveAt(asks, i)
    /\ \/ /\ ring >= asks[i]
          /\ ready' = Append(ready, Resync(ring, TRUE))
          /\ UNCHANGED budget
       \/ /\ Spend("faults")
          /\ ready' = Append(ready, Unavailable)
    /\ UNCHANGED <<ring, live, pump, bus, lag, raw, fwd, chan, pane, up, excuse>>

Replays == {"Resync", "Snapshot"}

\* The pump has already handled a chunk that is newer than the replay.
Overtaken(e) == e.kind \in Replays /\ e.seq < pump.heard

\* ... and sends what it built; so does a recovery.
Reply(i) ==
    /\ up /\ i \in DOMAIN ready
    /\ ready' = RemoveAt(ready, i)
    /\ Admit(ready[i])
    /\ excuse' = IF Overtaken(ready[i]) THEN excuse \cup {"overtaken"} ELSE excuse
    /\ UNCHANGED <<ring, live, pump, bus, lag, fwd, chan, pane, asks, budget>>

-----------------------------------------------------------------------------
(* The forwarder (ForwardState).  fwd.pending is the lossless queue; queued *)
(* is membership in resync_queue and resync_set; debt 0 is no debt; paced  *)
(* is TRUE until the floor set by the last replay has passed.              *)

HasRoom == Len(chan) < ChanCap

HasDeliverable == fwd.pending # <<>> \/ (fwd.queued /\ ~fwd.paced)

\* The loop is biased: nothing is routed while something can be delivered.
Routes == raw # <<>> /\ ~(HasDeliverable /\ HasRoom)

\* Every event of the lossless queue is about this terminal's stream.
Blocked == fwd.pending # <<>> \/ fwd.queued \/ fwd.debt > 0

\* A replay already carried the chunk; nothing is owed for it.
RouteSuperseded ==
    /\ up /\ Routes
    /\ Head(raw).kind = "Output" /\ Head(raw).seq <= fwd.covered
    /\ raw' = Tail(raw)
    /\ UNCHANGED <<ring, live, pump, bus, lag, fwd, chan, pane, asks, ready, up, budget, excuse>>

\* The chunk is forgotten.
Scheduled_Lossy(s) == fwd
\* schedule_resync
Scheduled(s) == [fwd EXCEPT !.debt = Larger(@, s), !.queued = TRUE]

RouteOutput ==
    /\ up /\ Routes
    /\ Head(raw).kind = "Output" /\ Head(raw).seq > fwd.covered
    /\ raw' = Tail(raw)
    /\ IF Blocked \/ ~HasRoom
       THEN fwd' = Scheduled(Head(raw).seq) /\ UNCHANGED chan
       ELSE chan' = Append(chan, Head(raw)) /\ UNCHANGED fwd
    /\ UNCHANGED <<ring, live, pump, bus, lag, pane, asks, ready, up, budget, excuse>>

\* mark_covered and drop_resync, for an event that carries a replay.
Covering(e) ==
    IF e.kind \in Replays
    THEN [fwd EXCEPT !.covered = Larger(@, e.seq), !.queued = FALSE, !.debt = 0,
                     !.announced = FALSE]
    ELSE fwd

\* A replay of the forwarder's own went ahead of an older snapshot, which
\* takes the client back while the floor stays.
Regresses(e) == e.kind = "Snapshot" /\ e.seq < fwd.covered

RouteStructured ==
    /\ up /\ Routes
    /\ Head(raw).kind # "Output"
    /\ raw' = Tail(raw)
    /\ LET e == Head(raw) IN
        /\ excuse' = IF Regresses(e) THEN excuse \cup {"regressed"} ELSE excuse
        /\ \/ /\ fwd.pending = <<>> /\ HasRoom
              /\ chan' = Append(chan, e)
              /\ fwd' = Covering(e)
              /\ UNCHANGED up
           \/ /\ ~(fwd.pending = <<>> /\ HasRoom)
              /\ fwd.pending = <<>> \/ Len(fwd.pending) < PendMax
              /\ fwd' = [Covering(e) EXCEPT !.pending = Append(@, e)]
              /\ UNCHANGED <<chan, up>>
           \/ /\ fwd.pending # <<>> /\ Len(fwd.pending) >= PendMax
              /\ up' = FALSE
              /\ UNCHANGED <<chan, fwd>>
    /\ UNCHANGED <<ring, live, pump, bus, lag, pane, asks, ready, budget>>

DeliverPending ==
    /\ up /\ HasRoom /\ fwd.pending # <<>>
    /\ chan' = Append(chan, Head(fwd.pending))
    /\ fwd' = [fwd EXCEPT !.pending = Tail(@)]
    /\ UNCHANGED <<ring, live, pump, bus, lag, raw, pane, asks, ready, up, budget, excuse>>

\* The next debtor is taken off the queue before its replay is fetched.
Delivers == up /\ HasRoom /\ fwd.pending = <<>> /\ fwd.queued /\ ~fwd.paced

\* The replay in hand, the chunks it carries are covered.
Paid == [fwd EXCEPT !.queued = FALSE, !.covered = Larger(@, ring), !.debt = 0,
                    !.announced = FALSE, !.paced = TRUE]

DeliverResync ==
    /\ Delivers /\ ring >= fwd.debt
    /\ chan' = Append(chan, Resync(ring, FALSE))
    /\ fwd' = Paid
    /\ UNCHANGED <<ring, live, pump, bus, lag, raw, pane, asks, ready, up, budget, excuse>>

\* The failure is not announced.
Announces_Never == FALSE
\* The first failure of an episode is announced.
Announces == ~fwd.announced

\* No snapshot, a stale one, or one over the budget: the debt stays, off
\* the queue.
DeliverUnavailable ==
    /\ Delivers
    /\ Spend("faults")
    /\ fwd' = [fwd EXCEPT !.queued = FALSE, !.announced = TRUE]
    /\ chan' = IF Announces THEN Append(chan, Unavailable) ELSE chan
    /\ UNCHANGED <<ring, live, pump, bus, lag, raw, pane, asks, ready, up, excuse>>

PaceElapses ==
    /\ up /\ fwd.paced
    /\ fwd' = [fwd EXCEPT !.paced = FALSE]
    /\ UNCHANGED <<ring, live, pump, bus, lag, raw, chan, pane, asks, ready, up, budget, excuse>>

-----------------------------------------------------------------------------
(* The client.                                                             *)

\* A snapshot without a replay asks anew, for less than was asked before:
\* append_output and mark_visible_desynced keep the larger, this does not.
Forgets(e) ==
    e.kind = "NoReplay" /\ Desynced(pane) /\ Larger(pane.last, e.seq) < pane.required

Receive ==
    /\ up /\ chan # <<>>
    /\ chan' = Tail(chan)
    /\ LET e == Head(chan) IN
        /\ \/ /\ e.kind = "Output"
              /\ pane' = AppendOutput(pane, e.seq) /\ UNCHANGED budget
           \/ /\ e.kind = "Resync"
              /\ pane' = ResyncTerminal(pane, e.seq, TRUE) /\ UNCHANGED budget
           \/ /\ e.kind = "Resync" \* the emulator cannot be reset
              /\ pane' = ResyncTerminal(pane, e.seq, FALSE) /\ Spend("faults")
           \/ /\ e.kind = "Unavailable"
              /\ pane' = OnUnavailable(pane) /\ UNCHANGED budget
           \/ /\ e.kind \in {"Snapshot", "NoReplay"}
              /\ pane' = OnSnapshot(pane, e.seq, e.kind = "Snapshot")
              /\ UNCHANGED budget
        /\ excuse' = IF Forgets(e) THEN excuse \cup {"forgotten"} ELSE excuse
    /\ UNCHANGED <<ring, live, pump, bus, lag, raw, fwd, asks, ready, up>>

Retry ==
    /\ up /\ Desynced(pane) /\ ~pane.latch
    /\ pane' = TickRetry(pane)
    /\ UNCHANGED <<ring, live, pump, bus, lag, raw, fwd, chan, asks, ready, up, budget, excuse>>

UserDistrusts ==
    /\ up /\ Spend("faults")
    /\ pane' = Distrust(pane)
    /\ UNCHANGED <<ring, live, pump, bus, lag, raw, fwd, chan, asks, ready, up, excuse>>

\* flush_pending_terminal_resyncs; requests the command lane refuses are
\* requeued, which changes nothing.
Flush ==
    /\ up /\ pane.asking /\ Len(asks) + Len(ready) < MaxAsks
    /\ pane' = [pane EXCEPT !.asking = FALSE]
    /\ asks' = IF Drained(pane) = None THEN asks ELSE Append(asks, Drained(pane))
    /\ UNCHANGED <<ring, live, pump, bus, lag, raw, fwd, chan, ready, up, budget, excuse>>

Pump == PumpDuplicate \/ PumpForward \/ PumpResync \/ PumpUnavailable
Connection ==
    \/ ServeBus \/ ServeLagged \/ LagWindowCloses
    \/ \E g \in lag.building : BuildRecovery(g) \/ AbandonRecovery(g)
    \/ \E i \in DOMAIN asks : ReadRing(i)
    \/ \E i \in DOMAIN ready : Reply(i)
Forward ==
    \/ RouteSuperseded \/ RouteOutput \/ RouteStructured
    \/ DeliverPending \/ DeliverResync \/ DeliverUnavailable \/ PaceElapses
Client == Receive \/ Retry \/ UserDistrusts \/ Flush

Next == Produce \/ Overwrite \/ Pump \/ Connection \/ Forward \/ Client

Spec == Init /\ [][Next]_vars
-----------------------------------------------------------------------------
(* Types: events carry sequences that exist.                               *)
TypeOK ==
    /\ ring \in 0 .. MaxSeq
    /\ live \in Seq(1 .. MaxSeq)
    /\ pump \in [seq: 0 .. MaxSeq, heard: 0 .. MaxSeq, announced: BOOLEAN]
    /\ bus \in Seq(Events) /\ raw \in Seq(Events)
    /\ chan \in Seq(Events) /\ ready \in Seq(Events)
    /\ lag \in [lagged: BOOLEAN, recent: BOOLEAN, gen: 0 .. MaxLags,
                building: SUBSET (1 .. MaxLags), left: 0 .. MaxLags]
    /\ fwd \in [pending: Seq(Events), queued: BOOLEAN, debt: 0 .. MaxSeq,
                covered: 0 .. MaxSeq, announced: BOOLEAN, paced: BOOLEAN]
    /\ pane \in Panes /\ pane.last <= MaxSeq /\ pane.required <= MaxSeq
    /\ asks \in Seq(0 .. MaxSeq)
    /\ up \in BOOLEAN
    /\ budget \in [lost: 0 .. MaxLost, faults: 0 .. MaxFaults]
    /\ excuse \subseteq {"silent", "skipped", "overtaken", "regressed", "forgotten"}

(* However output was dropped, replayed, delayed or repeated, and whichever *)
(* of the four producers of replays was first, the emulator has been fed   *)
(* every chunk through the pane's sequence, once and in order: no torn     *)
(* escape sequence, no double-drawn screen.                                *)
GridIsWhole == pane.grid = ReplayOf(pane.last)

\* The events that answer a request, or settle it.
Answers == {"Resync", "Unavailable", "Snapshot", "NoReplay"}

Carries(q, kinds) == \E i \in DOMAIN q : q[i].kind \in kinds

(* A request latch never outlives its request: while it is set, the request *)
(* is queued in the client, is being answered, or an answer that releases  *)
(* or re-arms it is on the way.  A latch without one freezes the pane.     *)
LatchHasAnswer ==
    up /\ Desynced(pane) /\ pane.latch =>
        \/ pane.asking \/ asks # <<>>
        \/ \E q \in {raw, fwd.pending, chan, ready} : Carries(q, Answers)

\* No fault but chunks lost on their way to the pump.
Healthy ==
    budget.faults = MaxFaults /\ lag.left = MaxLags

(* While snapshots succeed and the connection keeps up with the bus, the   *)
(* forwarder's and the pump's replays are seamless: however many chunks    *)
(* they dropped, the stream the client sees has no gap and it never has to *)
(* ask (the resumed live stream applies exactly once).                     *)
ReplaysAreSeamless == Healthy => ~Desynced(pane)

\* Nothing is on its way to the client, and it believes it is coherent.
Settled ==
    /\ up /\ live = <<>> /\ bus = <<>> /\ raw = <<>> /\ chan = <<>>
    /\ asks = <<>> /\ ready = <<>> /\ fwd.pending = <<>>
    /\ ~lag.lagged /\ lag.building = {} /\ ~fwd.queued /\ ~Desynced(pane)

ShowsAll == pane.last >= pump.heard

(* A terminal that has gone quiet is shown in full: when nothing is on its *)
(* way any more and the client is coherent, it has every chunk that reached *)
(* the pump.  The exceptions are five races, recorded when they happen: a  *)
(* chunk the pump lost in an episode it had already announced; a lag inside *)
(* the debounce window (or one whose recovery could not read the store); a *)
(* replay built by a detached task and sent after the pump handled a newer *)
(* chunk; a recovery snapshot routed after a newer replay; a recovery      *)
(* without a replay that lowers what a quarantined pane had asked for.     *)
QuietPaneIsCurrent == Settled /\ excuse = {} => ShowsAll

\* The steps of the code that are not faults.
Progress ==
    \/ PumpDuplicate \/ PumpForward \/ PumpResync
    \/ ServeBus \/ ServeLagged
    \/ \E g \in lag.building : BuildRecovery(g)
    \/ \E i \in DOMAIN asks : ReadRing(i)
    \/ \E i \in DOMAIN ready : Reply(i)
    \/ RouteSuperseded \/ RouteOutput \/ RouteStructured
    \/ DeliverPending \/ DeliverResync \/ PaceElapses
    \/ Receive \/ Retry \/ Flush

(* Tasks are scheduled, timers fire, the client reads its channel and keeps *)
(* ticking.  Only that some step is taken while one can be is assumed, not *)
(* which; that the terminal produces, or a fault happens, never is.        *)
FairSpec == Spec /\ WF_vars(Progress)

(* Once the faults stop, a connected client becomes coherent and stays so, *)
(* and unless one of the recorded races happened it shows every chunk,     *)
(* although the terminal may never produce another byte.                   *)
Converges ==
    <>[](up => ~Desynced(pane) /\ (excuse = {} => ShowsAll))
=============================================================================
