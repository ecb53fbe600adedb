------------------------ MODULE AgentLifecycleProofs ------------------------
(***************************************************************************)
(* Proofs that the safety properties of AgentLifecycle hold for any number *)
(* of hooks at a time, any streak and any bounds.  All three rest on the   *)
(* order lock: a task that waits for its write is the one that holds it,   *)
(* so nothing moves the state between a fold and its commit.  On top:      *)
(*   - disk and cache differ only from the write of a transition to its    *)
(*     commit;                                                             *)
(*   - only the exit folds to Exited, and after it nothing folds;          *)
(*   - the pump's reading is of the buffer as it still is, and no reading  *)
(*     of a dialog takes an InputNeeded back.                              *)
(***************************************************************************)
EXTENDS AgentLifecycle, TLAPS

Holds(src) == txn # None /\ txn.src = src

\* A task that waits for its write holds the lock, and the holder waits.
HolderWaits ==
    /\ pump.at = "wait" <=> Holds("pump")
    /\ flip = "wait" <=> Holds("flip")
    /\ phase = "exiting" <=> Holds("exit")
    /\ \A h \in Hooks : (hook[h] # None /\ hook[h].at = "wait") <=> Holds(h)

\* The cache is what was shown; the disk is ahead by a saved transition only.
WriteOrder ==
    /\ phase # "removed" => shown = state
    /\ phase # "removed" /\ (txn = None \/ ~txn.saved) => disk = state
    /\ txn # None /\ txn.saved => disk = txn.to

\* Exited is the exit's to fold, and once it has folded nobody folds.
ExitIsLast ==
    /\ txn # None => (txn.to = "Exited" <=> txn.src = "exit")
    /\ phase \in {"closing", "removed"} => txn = None
    /\ shown = "Exited" => phase \in {"closing", "removed"}

\* A reading about to be folded is one the buffer gives: the buffer waits for
\* the pump.
ReadingIsOfBuffer ==
    pump.at = "fold" =>
        /\ pump.reading \in Readings /\ pump.reading.state # "Exited"
        /\ pump.reading.state = "Idle" => buf = "composer"
        /\ pump.reading.state = "Working" /\ pump.reading.clear => buf = "work"

\* What the pump is about to commit takes no dialog of the buffer back.
DialogIsHeld == Holds("pump") /\ buf = "dialog" => state # "InputNeeded"

LifecycleInv ==
    TypeOK /\ HolderWaits /\ WriteOrder /\ ExitIsLast /\ ReadingIsOfBuffer /\ DialogIsHeld

\* LifecycleInv in parts, by the variables they are about: the terminal with its
\* clocks, the machine, the state in its three places, the tasks, the pump.
ScreenInv ==
    /\ agent \in {"boot", "busy", "asking", "resting", "gone", "killed"}
    /\ wire \in Seq(Chunks) /\ Len(wire) <= MaxWire
    /\ buf \in Chunks \cup {"empty", "unknown"}
    /\ view \in {"none", "armed", "observed"}
    /\ left \in [submits : 0 .. MaxSubmits, upsets : 0 .. MaxUpsets, sound : BOOLEAN]
ClockInv ==
    /\ turn \in [hook : {"none", "affirms", "waiting"}, answered : BOOLEAN,
                 output : BOOLEAN, ticks : 0..2]
    /\ reset \in BOOLEAN /\ quiet \in BOOLEAN /\ stable \in 0..2
    /\ due \in {None} \cup 0 .. MaxWire
MachineInv == machine \in [booted : BOOLEAN, streak : 0 .. Streak - 1]
RecordInv ==
    /\ state \in States \cup {None} /\ disk \in States \cup {None}
    /\ shown \in States \cup {None}
    /\ phase \in {"live", "claimed", "exiting", "closing", "removed"}
    /\ txn \in Transition \cup {None}
    /\ WriteOrder /\ ExitIsLast
Pump == [at : {"idle", "force", "fold", "wait", "stopped"},
         op : {None, "chunk", "quiet", "watchdog", "force"},
         reading : Readings \cup {None}, authority : Authorities]
TaskInv ==
    /\ pump \in Pump
    /\ flip \in {"idle", "fold", "wait", "note"}
    /\ hook \in [Hooks -> HookTask \cup {None}]
    /\ HolderWaits
PumpInv == ReadingIsOfBuffer /\ DialogIsHeld

-----------------------------------------------------------------------------
(* Operators                                                               *)

\* The parts are the whole, now and after a step.
LEMMA LifecycleParts ==
    /\ LifecycleInv <=> ScreenInv /\ ClockInv /\ MachineInv /\ RecordInv /\ TaskInv /\ PumpInv
    /\ LifecycleInv' <=> ScreenInv' /\ ClockInv' /\ MachineInv' /\ RecordInv' /\ TaskInv' /\ PumpInv'
<1>1. LifecycleInv <=> ScreenInv /\ ClockInv /\ MachineInv /\ RecordInv /\ TaskInv /\ PumpInv
    BY Zenon DEF LifecycleInv, ScreenInv, ClockInv, MachineInv, RecordInv, TaskInv,
       PumpInv, Pump, TypeOK
<1>2. LifecycleInv' <=> ScreenInv' /\ ClockInv' /\ MachineInv' /\ RecordInv' /\ TaskInv' /\ PumpInv'
    BY Zenon DEF LifecycleInv, ScreenInv, ClockInv, MachineInv, RecordInv, TaskInv,
       PumpInv, Pump, TypeOK
<1> QED  BY <1>1, <1>2

\* The bounds are numbers.
LEMMA Bounds ==
    /\ Streak \in Nat /\ Streak > 0 /\ MaxWire \in Nat
    /\ MaxSubmits \in Nat /\ MaxUpsets \in Nat
<1>1. MaxSubmits \in Nat /\ MaxUpsets \in Nat
    BY LifecycleAssumption, Zenon
<1>2. Streak \in Nat \ {0} /\ MaxWire \in Nat \ {0}
    BY LifecycleAssumption
<1> QED  BY <1>1, <1>2

\* The holders of the lock are told apart, and None is no state and no task.
LEMMA Names ==
    /\ \A h \in Hooks : h \in Sources /\ h \notin {"pump", "flip", "exit", "sweep"}
    /\ {"pump", "flip", "exit", "sweep"} \subseteq Sources
    /\ None \notin States /\ None \notin Transition /\ None \notin HookTask
<1>1. {"pump", "flip", "exit", "sweep"} \cap Hooks = {}
    BY LifecycleAssumption
<1>2. None \notin States \cup Transition \cup HookTask
    BY LifecycleAssumption
<1>3. None \notin States /\ None \notin Transition /\ None \notin HookTask
    BY <1>2, Zenon
<1> QED  BY <1>1, <1>3 DEF Sources

-----------------------------------------------------------------------------
(* What the state machine answers                                          *)

\* A transition leads where it was asked to, and never from the state to itself.
LEMMA TransitionTo ==
    ASSUME NEW from, NEW to
    PROVE  /\ transition(from, to) \in {to, None}
           /\ transition(from, to) # None => from # to
BY DEF transition

\* A reading is folded into what it reads, or Done, or nothing; the streak
\* stays below its bound.
LEMMA ReadingFolds ==
    ASSUME NEW cur \in States \cup {None}, NEW m \in [booted : BOOLEAN, streak : 0 .. Streak - 1],
           NEW r \in Readings, r.state # "Exited"
    PROVE  /\ on_reading(cur, m, r).to \in (States \ {"Exited"}) \cup {None}
           /\ on_reading(cur, m, r).machine \in [booted : BOOLEAN, streak : 0 .. Streak - 1]
<1>1. r.state \in States /\ r.clear \in BOOLEAN /\ r.progress \in BOOLEAN
    BY DEF Readings
<1>2. m.booted \in BOOLEAN /\ m.streak \in 0 .. Streak - 1
    OBVIOUS
<1>3. PICK seen : seen = [booted |-> m.booted \/ r.clear,
                          streak |-> IF cur = "Done" /\ ~r.clear THEN m.streak ELSE 0]
    OBVIOUS
<1>4. seen \in [booted : BOOLEAN, streak : 0 .. Streak - 1]
    BY <1>1, <1>2, <1>3, Bounds
<1>5. /\ [seen EXCEPT !.streak = 0] \in [booted : BOOLEAN, streak : 0 .. Streak - 1]
      /\ seen.streak + 1 < Streak =>
            [seen EXCEPT !.streak = @ + 1] \in [booted : BOOLEAN, streak : 0 .. Streak - 1]
      /\ [seen EXCEPT !.streak = @] = seen
    BY <1>4, Bounds
<1>6. \A to : transition(cur, to) \in {to, None}
    BY TransitionTo
<1>7. \A to, n : Fold(to, n).to = to /\ Fold(to, n).machine = n
    BY DEF Fold
<1> QED  BY <1>1, <1>3, <1>4, <1>5, <1>6, <1>7, Bounds DEF on_reading, States

\* The same behind the hook gate.
LEMMA CausalFolds ==
    ASSUME NEW cur \in States \cup {None}, NEW m \in [booted : BOOLEAN, streak : 0 .. Streak - 1],
           NEW r \in Readings, r.state # "Exited", NEW authority
    PROVE  /\ on_pty_reading_causal(cur, m, r, authority).to \in (States \ {"Exited"}) \cup {None}
           /\ on_pty_reading_causal(cur, m, r, authority).machine
                 \in [booted : BOOLEAN, streak : 0 .. Streak - 1]
<1>1. Fold(None, m).to = None /\ Fold(None, m).machine = m
    BY DEF Fold
<1>2. ASSUME NEW c \in BOOLEAN
      PROVE  /\ on_reading(cur, m, [r EXCEPT !.clear = c]).to \in (States \ {"Exited"}) \cup {None}
             /\ on_reading(cur, m, [r EXCEPT !.clear = c]).machine
                   \in [booted : BOOLEAN, streak : 0 .. Streak - 1]
  <2>1. PICK q : q = [r EXCEPT !.clear = c]
      OBVIOUS
  <2>2. q \in Readings /\ q.state # "Exited"
      BY <2>1 DEF Readings
  <2> QED  BY <2>1, <2>2, ReadingFolds
<1>3. PICK c \in BOOLEAN :
         c = (r.clear \/ (authority = "PtyNewer" /\ is_blocked(cur) /\ r.state = "Working"))
    BY DEF Readings
<1>4. on_pty_reading_causal(cur, m, r, authority) \in
         {Fold(None, m), on_reading(cur, m, [r EXCEPT !.clear = c])}
    BY <1>3 DEF on_pty_reading_causal
<1> QED  BY <1>1, <1>2, <1>4

\* No reading of a dialog moves a state that waits on the user: work in a chunk
\* is no clear reading, and proves nothing while the dialog is what is painted.
LEMMA DialogFolds ==
    ASSUME NEW m, NEW r \in Readings, NEW authority, buf = "dialog",
           r.state \notin {"Idle", "Exited"}, r.state = "Working" => ~r.clear
    PROVE  on_pty_reading_causal("InputNeeded", m, r, authority).to = None
<1> DEFINE proved == authority = "PtyNewer" /\ is_blocked("InputNeeded") /\ r.state = "Working"
           q == [r EXCEPT !.clear = @ \/ proved]
<1>1. \A to, n : Fold(to, n).to = to
    BY DEF Fold
<1>2. CASE authority # "None" /\ ~hooks_gate_allows_causal("InputNeeded", r, authority = "PtyNewer")
    BY <1>1, <1>2 DEF on_pty_reading_causal
<1>3. CASE ~(authority # "None" /\ ~hooks_gate_allows_causal("InputNeeded", r, authority = "PtyNewer"))
  <2>1. on_pty_reading_causal("InputNeeded", m, r, authority) = on_reading("InputNeeded", m, q)
      BY <1>3 DEF on_pty_reading_causal
  <2>2. ~proved
      BY <1>3 DEF hooks_gate_allows_causal, Supersedes, is_blocked
  <2>3. q.state = r.state /\ q.clear = r.clear
      BY <2>2 DEF Readings
  <2>4. r.state \in {"InputNeeded", "Working", "Done"}
      BY DEF Readings, States
  <2>5. transition("InputNeeded", "InputNeeded") = None
      BY DEF transition
  <2>6. on_reading("InputNeeded", m, q).to = None
      BY <1>1, <2>3, <2>4, <2>5, LifecycleAssumption
         DEF on_reading, suppress_input_needed_exit, is_blocked
  <2> QED  BY <2>1, <2>6
<1> QED  BY <1>2, <1>3

\* No hook reports the end of the process.
LEMMA HookStates ==
    ASSUME NEW kind, NEW cur
    PROVE  hook_to_state(kind, cur) \in (States \ {"Exited"}) \cup {None}
BY DEF hook_to_state, States

-----------------------------------------------------------------------------
(* What the shared parts of the actions do                                 *)

\* What may still happen is counted down to zero.
LEMMA UpsetEffect ==
    ASSUME ScreenInv, NEW fault \in BOOLEAN, Upset(fault)
    PROVE  left' \in [submits : 0 .. MaxSubmits, upsets : 0 .. MaxUpsets, sound : BOOLEAN]
<1>1. /\ left.submits \in 0 .. MaxSubmits /\ left.upsets \in 0 .. MaxUpsets
      /\ left.upsets - 1 \in 0 .. MaxUpsets
    BY Bounds DEF ScreenInv, Upset
<1>2. PICK b \in BOOLEAN : b = (left.sound /\ ~fault)
    BY Zenon
<1>3. left' = [left EXCEPT !.upsets = left.upsets - 1, !.sound = b]
    BY <1>2 DEF Upset
<1> QED  BY <1>1, <1>3 DEF ScreenInv

\* A painted chunk finds room on the wire.
LEMMA PaintsEffect ==
    ASSUME ScreenInv, NEW c \in Chunks, Paints(c)
    PROVE  wire' \in Seq(Chunks) /\ Len(wire') <= MaxWire
BY Bounds DEF ScreenInv, Paints

\* The end of an operation of the pump waits for no write and folds nothing.
LEMMA PumpEndsAt ==
    ASSUME NEW op
    PROVE  PumpEnds(op) \in Pump /\ PumpEnds(op).at \in {"idle", "force"}
BY DEF PumpEnds, Resting, Pump, Readings, Authorities

\* What a chunk is read as: a dialog on sight, or unclear work.
LEMMA ChunkReadings ==
    /\ Reading("InputNeeded", TRUE, FALSE, "Streaming", FALSE) \in Readings
    /\ Reading("InputNeeded", TRUE, FALSE, "Streaming", FALSE).state = "InputNeeded"
    /\ \A p \in BOOLEAN :
          /\ Reading("Working", FALSE, p, "Streaming", FALSE) \in Readings
          /\ Reading("Working", FALSE, p, "Streaming", FALSE).state = "Working"
          /\ ~Reading("Working", FALSE, p, "Streaming", FALSE).clear
<1>1. /\ Reading("InputNeeded", TRUE, FALSE, "Streaming", FALSE) \in Readings
      /\ Reading("InputNeeded", TRUE, FALSE, "Streaming", FALSE).state = "InputNeeded"
    BY DEF Reading, Readings, States
<1>2. ASSUME NEW p \in BOOLEAN
      PROVE  /\ Reading("Working", FALSE, p, "Streaming", FALSE) \in Readings
             /\ Reading("Working", FALSE, p, "Streaming", FALSE).state = "Working"
             /\ ~Reading("Working", FALSE, p, "Streaming", FALSE).clear
    BY DEF Reading, Readings, States
<1> QED  BY <1>1, <1>2

\* A reading weighed by the pump is one of the buffer, when it was before.
LEMMA WeighsEffect ==
    ASSUME ScreenInv, NEW op \in {"quiet", "watchdog", "force"}, NEW t,
           NEW r \in Readings, r.state # "Exited",
           r.state = "Idle" => buf = "composer",
           r.state = "Working" /\ r.clear => buf = "work",
           Weighs(op, r, t), buf' = buf
    PROVE  /\ view' \in {"none", "armed", "observed"}
           /\ pump' \in Pump /\ pump'.at # "wait" /\ ReadingIsOfBuffer'
<1>1. view' \in {"none", "armed", "observed"}
    BY DEF ScreenInv, Weighs
<1>2. PICK n : n = [at |-> "fold", op |-> op, reading |-> r, authority |-> hook_authority(t)]
    OBVIOUS
<1>3. hook_authority(t) \in Authorities
    BY DEF hook_authority, Authorities
<1>4. n \in Pump /\ n.at = "fold" /\ n.reading = r
    BY <1>2, <1>3 DEF Pump
<1>5. pump' = n \/ pump' = PumpEnds(op)
    BY <1>2 DEF Weighs
<1>6. CASE pump' = n
    BY <1>1, <1>4, <1>6 DEF ReadingIsOfBuffer
<1>7. CASE pump' = PumpEnds(op)
    BY <1>1, <1>7, PumpEndsAt DEF ReadingIsOfBuffer
<1> QED  BY <1>5, <1>6, <1>7

\* So is the reading of the screen that the timers take.
LEMMA LooksEffect ==
    ASSUME ScreenInv, NEW op \in {"quiet", "watchdog"}, NEW t, Looks(op, t), buf' = buf
    PROVE  /\ view' \in {"none", "armed", "observed"}
           /\ pump' \in Pump /\ pump'.at # "wait" /\ ReadingIsOfBuffer'
<1>1. CASE ~reset /\ buf = "empty"
  <2>1. pump' = PumpEnds(op) /\ view' = view
      BY <1>1 DEF Looks
  <2> QED  BY <2>1, PumpEndsAt DEF ScreenInv, ReadingIsOfBuffer
<1>2. CASE reset
  <2>1. PICK r : r = Settles("Stalled")
      OBVIOUS
  <2>2. r \in Readings /\ r.state = "Done"
      BY <2>1 DEF Settles, Reading, Readings, States
  <2>3. Weighs(op, r, t)
      BY <1>2, <2>1 DEF Looks
  <2> QED  BY <2>2, <2>3, WeighsEffect
<1>3. CASE ~reset /\ buf # "empty"
  <2>1. PICK l : l = (IF op = "watchdog" THEN "Watchdog" ELSE "Silent")
      OBVIOUS
  <2>2. PICK r : r = Classified(l)
      OBVIOUS
  <2>3. /\ r \in Readings /\ r.state # "Exited"
        /\ r.state = "Idle" => buf = "composer"
        /\ r.state = "Working" => buf = "work"
      BY <2>1, <2>2 DEF Classified, Reading, Readings, States, ScreenInv
  <2>4. Weighs(op, r, t)
      BY <1>3, <2>1, <2>2 DEF Looks
  <2> QED  BY <2>3, <2>4, WeighsEffect
<1> QED  BY <1>1, <1>2, <1>3

\* And the one that closes a turn the watchdog still finds working.
LEMMA ForceEffect ==
    ASSUME ScreenInv, ForceClose
    PROVE  /\ view' \in {"none", "armed", "observed"}
           /\ pump' \in Pump /\ pump'.at # "wait" /\ ReadingIsOfBuffer'
<1>1. buf' = buf
    BY DEF ForceClose
<1>2. CASE state = "Working"
  <2>1. PICK r : r = Settles("Watchdog")
      OBVIOUS
  <2>2. r \in Readings /\ r.state = "Done"
      BY <2>1 DEF Settles, Reading, Readings, States
  <2>3. PICK t : t = turn
      OBVIOUS
  <2>4. Weighs("force", r, t)
      BY <1>2, <2>1, <2>3 DEF ForceClose
  <2> QED  BY <1>1, <2>2, <2>4, WeighsEffect
<1>3. CASE state # "Working"
  <2>1. pump' = Resting /\ view' = view
      BY <1>3 DEF ForceClose
  <2> QED  BY <2>1 DEF ScreenInv, ReadingIsOfBuffer, Resting, Pump, Readings, Authorities
<1> QED  BY <1>2, <1>3

\* The watchdog's first half looks at a parked turn, or passes it by.
LEMMA WatchdogEffect ==
    ASSUME ScreenInv, WatchdogFires
    PROVE  /\ view' \in {"none", "armed", "observed"}
           /\ pump' \in Pump /\ pump'.at # "wait" /\ ReadingIsOfBuffer'
<1>1. buf' = buf
    BY DEF WatchdogFires
<1>2. PICK t : t = turn'
    OBVIOUS
<1>3. \/ Looks("watchdog", t)
      \/ /\ pump' = PumpEnds("watchdog") \/ pump' = Resting
         /\ view' = view
    BY <1>2, Zenon DEF WatchdogFires
<1>4. CASE Looks("watchdog", t)
    BY <1>1, <1>4, LooksEffect
<1>5. CASE (pump' = PumpEnds("watchdog") \/ pump' = Resting) /\ view' = view
  <2>1. Resting \in Pump /\ Resting.at = "idle"
      BY DEF Resting, Pump, Readings, Authorities
  <2> QED  BY <1>5, <2>1, PumpEndsAt DEF ScreenInv, ReadingIsOfBuffer
<1> QED  BY <1>3, <1>4, <1>5

-----------------------------------------------------------------------------
(* The parts that do not depend on the lock                                *)

\* A step keeps the terminal and what may still happen within their types.
LEMMA ScreenStep ==
    ASSUME LifecycleInv, Next
    PROVE  ScreenInv'
<1>1. ScreenInv
    BY LifecycleParts
<1>2. CASE UNCHANGED <<agent, wire, buf, view, left>>
    BY <1>1, <1>2 DEF ScreenInv
<1>3. CASE \E h \in Hooks : HookNotes(h)
    BY <1>1, <1>3 DEF ScreenInv, HookNotes
<1>4. CASE QuietFires \/ Reclassifies
  <2>1. Looks("quiet", turn) /\ UNCHANGED <<agent, wire, buf, left>>
      BY <1>4 DEF QuietFires, Reclassifies
  <2>2. PICK t : t = turn
      OBVIOUS
  <2>3. view' \in {"none", "armed", "observed"}
      BY <1>1, <2>1, <2>2, LooksEffect
  <2> QED  BY <1>1, <2>1, <2>3 DEF ScreenInv
<1>5. CASE WatchdogFires
  <2>1. UNCHANGED <<agent, wire, buf, left>>
      BY <1>5 DEF WatchdogFires
  <2> QED  BY <1>1, <1>5, <2>1, WatchdogEffect DEF ScreenInv
<1>6. CASE ForceClose
  <2>1. UNCHANGED <<agent, wire, buf, left>>
      BY <1>6 DEF ForceClose
  <2> QED  BY <1>1, <1>6, <2>1, ForceEffect DEF ScreenInv
<1>7. CASE TakeChunk
  <2>1. /\ wire # <<>> /\ wire' = Tail(wire) /\ agent' = agent
        /\ view' \in {"none", "observed"}
        /\ buf' = Detected(IF reset THEN "empty" ELSE buf, Head(wire))
        /\ left' = [left EXCEPT !.sound = @ /\ ~(flip # "idle" /\ Head(wire) = "dialog")]
      BY <1>7 DEF TakeChunk
  <2>2. wire' \in Seq(Chunks) /\ Len(wire') <= MaxWire /\ Head(wire) \in Chunks
      BY <1>1, <2>1, Bounds DEF ScreenInv
  <2>3. buf' \in Chunks \cup {"empty", "unknown"}
      BY <1>1, <2>1, <2>2 DEF ScreenInv, Detected
  <2>4. PICK b \in BOOLEAN : b = (left.sound /\ ~(flip # "idle" /\ Head(wire) = "dialog"))
      BY Zenon
  <2>5. left' = [left EXCEPT !.sound = b]
      BY <2>1, <2>4
  <2>6. left' \in [submits : 0 .. MaxSubmits, upsets : 0 .. MaxUpsets, sound : BOOLEAN]
      BY <1>1, <2>5 DEF ScreenInv
  <2> QED  BY <1>1, <2>1, <2>2, <2>3, <2>6 DEF ScreenInv
<1>8. CASE AgentWorks \/ AgentAsks \/ AgentRests
  <2>1. /\ \E c \in Chunks : Paints(c)
        /\ agent' \in {agent, "asking", "resting"}
        /\ UNCHANGED <<buf, view, left>>
      BY <1>8 DEF AgentWorks, AgentAsks, AgentRests, Chunks
  <2> QED  BY <1>1, <2>1, PaintsEffect DEF ScreenInv
<1>9. CASE Repaints
  <2>1. Paints("churn") /\ UNCHANGED <<agent, buf, view>> /\ (UNCHANGED left \/ Upset(FALSE))
      BY <1>9 DEF Repaints
  <2>2. left' \in [submits : 0 .. MaxSubmits, upsets : 0 .. MaxUpsets, sound : BOOLEAN]
      BY <1>1, <2>1, UpsetEffect DEF ScreenInv
  <2>3. "churn" \in Chunks
      BY DEF Chunks
  <2> QED  BY <1>1, <2>1, <2>2, <2>3, PaintsEffect DEF ScreenInv
<1>10. CASE AgentDies \/ PumpStops \/ ExitFinishes
  <2>1. /\ agent' \in {agent, "gone"} /\ buf' \in {buf, "empty"} /\ view' \in {view, "none"}
        /\ UNCHANGED <<wire, left>>
      BY <1>10 DEF AgentDies, PumpStops, ExitFinishes
  <2> QED  BY <1>1, <2>1 DEF ScreenInv
<1>11. CASE ClientViews \/ PersistFails \/ Starves \/ Kill
  <2>1. /\ \E f \in BOOLEAN : Upset(f)
        /\ agent' \in {agent, "killed"} /\ view' \in {view, "armed"} /\ UNCHANGED <<wire, buf>>
      BY <1>11 DEF ClientViews, PersistFails, Starves, Kill
  <2> QED  BY <1>1, <2>1, UpsetEffect DEF ScreenInv
<1>12. CASE UserSubmits
  <2>1. /\ left.submits > 0 /\ left' = [left EXCEPT !.submits = left.submits - 1]
        /\ agent' = "busy" /\ view' = "none" /\ UNCHANGED <<wire, buf>>
      BY <1>12 DEF UserSubmits
  <2>2. left.submits \in 0 .. MaxSubmits /\ left.submits - 1 \in 0 .. MaxSubmits
      BY <1>1, <2>1, Bounds DEF ScreenInv
  <2>3. left' \in [submits : 0 .. MaxSubmits, upsets : 0 .. MaxUpsets, sound : BOOLEAN]
      BY <1>1, <2>1, <2>2 DEF ScreenInv
  <2> QED  BY <1>1, <2>1, <2>3 DEF ScreenInv
<1>13. CASE Restart
  <2>1. Upset(FALSE) /\ wire' = <<>> /\ buf' = Painted(agent) /\ view' = "none" /\ agent' = agent
      BY <1>13 DEF Restart
  <2>2. wire' \in Seq(Chunks) /\ Len(wire') <= MaxWire
      BY <2>1, Bounds
  <2>3. buf' \in Chunks
      BY <2>1 DEF Painted, Chunks
  <2> QED  BY <1>1, <2>1, <2>2, <2>3, UpsetEffect DEF ScreenInv
<1>14. Persist \/ Commit \/ FlipFolds \/ FlipNotes \/ (\E h \in Hooks : HookFolds(h) \/ HookDropped(h))
       \/ PumpFolds \/ ExitFolds \/ WindowPasses \/ Sweep
          => UNCHANGED <<agent, wire, buf, view, left>>
    BY DEF Persist, Commit, FlipFolds, FlipNotes, HookFolds, HookDropped, PumpFolds,
       ExitFolds, WindowPasses, Sweep
<1> QED  BY <1>2, <1>3, <1>4, <1>5, <1>6, <1>7, <1>8, <1>9, <1>10, <1>11, <1>12, <1>13, <1>14,
            Zenon DEF Next, Daemon, Timers, Task

\* A step keeps the clocks within their types.
LEMMA ClockStep ==
    ASSUME LifecycleInv, Next
    PROVE  ClockInv'
<1>1. ClockInv /\ ScreenInv
    BY LifecycleParts
<1>2. CASE UNCHANGED <<turn, reset, quiet, due, stable>>
    BY <1>1, <1>2 DEF ClockInv
<1>3. FreshTurn \in [hook : {"none", "affirms", "waiting"}, answered : BOOLEAN,
                     output : BOOLEAN, ticks : 0..2]
    BY DEF FreshTurn
<1>4. CASE \E h \in Hooks : HookNotes(h)
  <2>1. PICK h \in Hooks : HookNotes(h)
      BY <1>4
  <2>2. PICK k \in {"affirms", "waiting"} : turn' = [FreshTurn EXCEPT !.hook = k]
      BY <2>1 DEF HookNotes
  <2>3. turn' \in [hook : {"none", "affirms", "waiting"}, answered : BOOLEAN,
                   output : BOOLEAN, ticks : 0..2]
      BY <1>3, <2>2
  <2>4. stable' \in {stable, 0} /\ due' \in {due, None} /\ UNCHANGED <<reset, quiet>>
      BY <2>1 DEF HookNotes
  <2> QED  BY <1>1, <2>3, <2>4 DEF ClockInv
<1>5. CASE FlipNotes
  <2>1. PICK b \in BOOLEAN : b = (turn.hook = "waiting")
      BY Zenon
  <2>2. turn' = [turn EXCEPT !.answered = b] /\ reset' = TRUE /\ UNCHANGED <<quiet, due, stable>>
      BY <1>5, <2>1 DEF FlipNotes
  <2> QED  BY <1>1, <2>2 DEF ClockInv
<1>6. CASE TakeChunk
  <2>1. PICK b \in BOOLEAN : b = (turn.hook # "none")
      BY Zenon
  <2>2. turn' = [turn EXCEPT !.output = b]
      BY <1>6, <2>1 DEF TakeChunk
  <2>3. turn' \in [hook : {"none", "affirms", "waiting"}, answered : BOOLEAN,
                   output : BOOLEAN, ticks : 0..2]
      BY <1>1, <2>2 DEF ClockInv
  <2>4. /\ due # 0 /\ (due' = None \/ (due # None /\ due' = due - 1))
        /\ stable' \in {0, stable}
      BY <1>6 DEF TakeChunk
  <2>5. due' \in {None} \cup 0 .. MaxWire
      BY <1>1, <2>4, Bounds DEF ClockInv
  <2>6. reset' \in BOOLEAN /\ quiet' \in BOOLEAN
      BY <1>6, Zenon DEF TakeChunk
  <2> QED  BY <1>1, <2>3, <2>4, <2>5, <2>6 DEF ClockInv
<1>7. CASE QuietFires
  <2>1. quiet' = FALSE /\ UNCHANGED <<turn, reset, due, stable>>
      BY <1>7 DEF QuietFires
  <2> QED  BY <1>1, <2>1 DEF ClockInv
<1>8. CASE WindowPasses
  <2>1. /\ due' = Len(wire) /\ stable' = (IF stable < 2 THEN stable + 1 ELSE 2)
        /\ UNCHANGED <<turn, reset, quiet>>
      BY <1>8 DEF WindowPasses
  <2>2. Len(wire) \in 0 .. MaxWire
      BY <1>1, Bounds DEF ScreenInv
  <2> QED  BY <1>1, <2>1, <2>2 DEF ClockInv
<1>9. CASE Starves
  <2>1. stable' = 2 /\ UNCHANGED <<turn, reset, quiet, due>>
      BY <1>9 DEF Starves
  <2> QED  BY <1>1, <2>1 DEF ClockInv
<1>10. CASE WatchdogFires
  <2>1. /\ due' = None /\ UNCHANGED <<reset, quiet, stable>>
        /\ turn' = turn \/ (turn.ticks < 2 /\ turn' = [turn EXCEPT !.ticks = turn.ticks + 1])
      BY <1>10, Zenon DEF WatchdogFires
  <2>2. turn.ticks < 2 => turn.ticks + 1 \in 0..2
      BY <1>1 DEF ClockInv
  <2>3. turn' \in [hook : {"none", "affirms", "waiting"}, answered : BOOLEAN,
                   output : BOOLEAN, ticks : 0..2]
      BY <1>1, <2>1, <2>2 DEF ClockInv
  <2> QED  BY <1>1, <2>1, <2>3 DEF ClockInv
<1>11. CASE AgentDies \/ PumpStops
  <2>1. due' = None /\ UNCHANGED <<turn, reset, stable>>
      BY <1>11 DEF AgentDies, PumpStops
  <2>2. quiet' \in BOOLEAN
      BY <1>11, Zenon DEF AgentDies, PumpStops
  <2> QED  BY <1>1, <2>1, <2>2 DEF ClockInv
<1>12. CASE ExitFinishes
  <2>1. turn' = FreshTurn /\ due' = None /\ stable' = 0
      BY <1>12 DEF ExitFinishes
  <2>2. reset' \in BOOLEAN /\ quiet' \in BOOLEAN
      BY <1>1, <1>12, Zenon DEF ExitFinishes, ClockInv
  <2> QED  BY <1>3, <2>1, <2>2 DEF ClockInv
<1>13. CASE Restart
  <2>1. turn' = FreshTurn /\ due' = None /\ stable' = 0
      BY <1>13 DEF Restart
  <2>2. reset' \in BOOLEAN /\ quiet' \in BOOLEAN
      BY <1>13, Zenon DEF Restart
  <2> QED  BY <1>3, <2>1, <2>2 DEF ClockInv
<1>14. Persist \/ Commit \/ FlipFolds \/ (\E h \in Hooks : HookFolds(h) \/ HookDropped(h))
       \/ ForceClose \/ PumpFolds \/ ExitFolds \/ AgentWorks \/ AgentAsks \/ AgentRests
       \/ Repaints \/ ClientViews \/ UserSubmits \/ PersistFails \/ Reclassifies \/ Sweep \/ Kill
          => UNCHANGED <<turn, reset, quiet, due, stable>>
    BY DEF Persist, Commit, FlipFolds, HookFolds, HookDropped, ForceClose, PumpFolds, ExitFolds,
       AgentWorks, AgentAsks, AgentRests, Repaints, ClientViews, UserSubmits, PersistFails,
       Reclassifies, Sweep, Kill, clock
<1> QED  BY <1>2, <1>4, <1>5, <1>6, <1>7, <1>8, <1>9, <1>10, <1>11, <1>12, <1>13, <1>14,
            Zenon DEF Next, Daemon, Timers, Task

\* A reading that is folded becomes a transition of a live terminal, or none.
LEMMA PumpFoldsTo ==
    ASSUME LifecycleInv, PumpFolds
    PROVE  \E to \in (States \ {"Exited"}) \cup {None},
              m \in [booted : BOOLEAN, streak : 0 .. Streak - 1] :
              /\ Begins("pump", to)
              /\ machine' = [m EXCEPT !.booted = @ \/ (pump.op = "chunk" /\ buf = "composer")]
              /\ pump' = IF to = None THEN PumpEnds(pump.op) ELSE [pump EXCEPT !.at = "wait"]
              /\ to # None => phase = "live"
              /\ buf = "dialog" /\ state = "InputNeeded" => to = None
<1>1. RecordInv /\ MachineInv /\ TaskInv /\ PumpInv
    BY LifecycleParts
<1>2. /\ pump.reading \in Readings /\ pump.reading.state # "Exited"
      /\ pump.reading.state = "Idle" => buf = "composer"
      /\ pump.reading.state = "Working" /\ pump.reading.clear => buf = "work"
    BY <1>1 DEF PumpFolds, PumpInv, ReadingIsOfBuffer
<1>3. PICK f : /\ f = FoldsReading
               /\ f = IF Live
                      THEN on_pty_reading_causal(state, machine, pump.reading, pump.authority)
                      ELSE Fold(None, machine)
    BY DEF FoldsReading
<1>4. /\ Begins("pump", f.to)
      /\ machine' = [f.machine EXCEPT !.booted = @ \/ (pump.op = "chunk" /\ buf = "composer")]
      /\ pump' = IF f.to = None THEN PumpEnds(pump.op) ELSE [pump EXCEPT !.at = "wait"]
    BY <1>3 DEF PumpFolds
<1>5. Fold(None, machine).to = None /\ Fold(None, machine).machine = machine
    BY DEF Fold
<1>6. /\ f.to \in (States \ {"Exited"}) \cup {None}
      /\ f.machine \in [booted : BOOLEAN, streak : 0 .. Streak - 1]
  <2>1. /\ on_pty_reading_causal(state, machine, pump.reading, pump.authority).to
              \in (States \ {"Exited"}) \cup {None}
        /\ on_pty_reading_causal(state, machine, pump.reading, pump.authority).machine
              \in [booted : BOOLEAN, streak : 0 .. Streak - 1]
      BY <1>1, <1>2, CausalFolds DEF RecordInv, MachineInv
  <2> QED  BY <1>1, <1>3, <1>5, <2>1 DEF MachineInv
<1>7. f.to # None => phase = "live"
    BY <1>3, <1>5 DEF Live
<1>8. ASSUME buf = "dialog", state = "InputNeeded"
      PROVE  f.to = None
    BY <1>2, <1>3, <1>5, <1>8, DialogFolds
<1> QED  BY <1>4, <1>6, <1>7, <1>8

\* A step keeps the streak below its bound.
LEMMA MachineStep ==
    ASSUME LifecycleInv, Next
    PROVE  MachineInv'
<1>1. MachineInv
    BY LifecycleParts
<1>2. CASE UNCHANGED machine
    BY <1>1, <1>2 DEF MachineInv
<1>3. ASSUME NEW m \in [booted : BOOLEAN, streak : 0 .. Streak - 1], NEW b,
             machine' = [m EXCEPT !.booted = @ \/ b]
      PROVE  MachineInv'
  <2>1. PICK c \in BOOLEAN : c = (m.booted \/ b)
      BY Zenon
  <2>2. machine' = [m EXCEPT !.booted = c]
      BY <1>3, <2>1
  <2> QED  BY <2>2 DEF MachineInv
<1>4. CASE TakeChunk
  <2>1. \/ UNCHANGED machine
        \/ \E b : machine' = [machine EXCEPT !.booted = @ \/ b]
      BY <1>4, Zenon DEF TakeChunk
  <2> QED  BY <1>1, <1>2, <1>3, <2>1 DEF MachineInv
<1>5. CASE PumpFolds
    BY <1>3, <1>5, PumpFoldsTo
<1>6. CASE AgentDies \/ PumpStops
  <2>1. machine' = FreshMachine
      BY <1>6 DEF AgentDies, PumpStops
  <2> QED  BY <2>1, Bounds DEF MachineInv, FreshMachine
<1>7. CASE Restart
  <2>1. PICK b \in BOOLEAN : b = ((IF disk = None THEN "Working" ELSE disk) # "Idle")
      BY Zenon
  <2>2. machine' = [booted |-> b, streak |-> 0]
      BY <1>7, <2>1 DEF Restart
  <2> QED  BY <2>2, Bounds DEF MachineInv
<1>8. Persist \/ Commit \/ FlipFolds \/ FlipNotes \/ (\E h \in Hooks : Task(h)) \/ ForceClose
      \/ ExitFolds \/ ExitFinishes \/ Timers \/ AgentWorks \/ AgentAsks \/ AgentRests \/ Repaints
      \/ ClientViews \/ UserSubmits \/ PersistFails \/ Reclassifies \/ WindowPasses \/ Starves \/ Sweep
      \/ Kill
         => UNCHANGED machine
    BY DEF Persist, Commit, FlipFolds, FlipNotes, Task, HookNotes, HookFolds, HookDropped,
       ForceClose, ExitFolds, ExitFinishes, Timers, QuietFires, WatchdogFires, AgentWorks,
       AgentAsks, AgentRests, Repaints, ClientViews, UserSubmits, PersistFails, Reclassifies,
       WindowPasses, Starves, Sweep, Kill
<1> QED  BY <1>2, <1>4, <1>5, <1>6, <1>7, <1>8, Zenon DEF Next, Daemon

-----------------------------------------------------------------------------
(* The state in its three places                                           *)

\* A task of a live terminal that takes the lock changes none of them yet.
LEMMA BeginsRecord ==
    ASSUME RecordInv, txn = None, NEW src \in Sources \ {"exit"},
           NEW to \in (States \ {"Exited"}) \cup {None}, Begins(src, to),
           to # None => phase = "live", UNCHANGED <<state, disk, shown, phase>>
    PROVE  RecordInv'
<1>1. CASE to = None
    BY <1>1 DEF Begins, RecordInv, WriteOrder, ExitIsLast
<1>2. CASE to # None
  <2>1. PICK n : n = [src |-> src, to |-> to, saved |-> FALSE]
      OBVIOUS
  <2>2. n \in Transition /\ n.src = src /\ n.to = to /\ ~n.saved
      BY <1>2, <2>1 DEF Transition
  <2>3. txn' = n
      BY <1>2, <2>1 DEF Begins
  <2> QED  BY <1>2, <2>2, <2>3 DEF RecordInv, WriteOrder, ExitIsLast
<1> QED  BY <1>1, <1>2

\* A step keeps the order in which the state reaches disk, cache and clients.
LEMMA RecordStep ==
    ASSUME LifecycleInv, Next
    PROVE  RecordInv'
<1>1. RecordInv /\ TaskInv
    BY LifecycleParts
<1>2. CASE UNCHANGED <<state, disk, shown, phase, txn>>
    BY <1>1, <1>2 DEF RecordInv, WriteOrder, ExitIsLast
<1>3. txn # None => txn \in Transition /\ txn.to \in States /\ txn.src \in Sources
    BY <1>1 DEF RecordInv, Transition
<1>4. CASE Persist
  <2>1. PICK n : n = [txn EXCEPT !.saved = TRUE]
      OBVIOUS
  <2>2. n \in Transition /\ n.src = txn.src /\ n.to = txn.to /\ n.saved
      BY <1>3, <1>4, <2>1 DEF Persist, Transition
  <2>3. /\ txn # None /\ ~txn.saved /\ disk' = txn.to /\ txn' = n
        /\ UNCHANGED <<state, shown, phase>>
      BY <1>4, <2>1 DEF Persist
  <2> QED  BY <1>1, <1>3, <2>2, <2>3, Names DEF RecordInv, WriteOrder, ExitIsLast
<1>5. CASE PersistFails
  <2>1. /\ txn # None /\ ~txn.saved /\ txn' = None
        /\ phase' = (IF txn.src = "exit" THEN "closing" ELSE phase)
        /\ UNCHANGED <<state, disk, shown>>
      BY <1>5 DEF PersistFails, Resumes, record
  <2> QED  BY <1>1, <1>3, <2>1 DEF RecordInv, WriteOrder, ExitIsLast
<1>6. CASE Commit
  <2>1. /\ txn # None /\ txn.saved /\ txn' = None
        /\ phase' = (IF txn.src = "exit" THEN "closing" ELSE phase)
        /\ state' = txn.to /\ shown' = txn.to /\ disk' = disk
      BY <1>6 DEF Commit, Resumes, PersistsFirst
  <2> QED  BY <1>1, <1>3, <2>1 DEF RecordInv, WriteOrder, ExitIsLast
<1>7. CASE FlipFolds
  <2>1. PICK to : /\ to = (IF Live /\ Flippable(state) THEN transition(state, "Working") ELSE None)
                  /\ Begins("flip", to) /\ txn = None
                  /\ UNCHANGED <<state, disk, shown, phase>>
      BY <1>7 DEF FlipFolds, Unlocked, record
  <2>2. to \in {"Working", None} /\ (to # None => phase = "live")
      BY <2>1, TransitionTo DEF Live
  <2>3. to \in (States \ {"Exited"}) \cup {None} /\ "flip" \in Sources \ {"exit"}
      BY <2>2, Names DEF States
  <2> QED  BY <1>1, <2>1, <2>2, <2>3, BeginsRecord
<1>8. ASSUME NEW h \in Hooks, HookFolds(h)
      PROVE  RecordInv'
  <2>1. PICK c, to : /\ c = hook_to_state(hook[h].kind, state)
                     /\ to = (IF Live /\ c # None THEN transition(state, c) ELSE None)
                     /\ Begins(h, to) /\ txn = None
                     /\ UNCHANGED <<state, disk, shown, phase>>
      BY <1>8 DEF HookFolds, Unlocked, record
  <2>2. to \in {c, None} /\ (to # None => phase = "live")
      BY <2>1, TransitionTo DEF Live
  <2>3. to \in (States \ {"Exited"}) \cup {None} /\ h \in Sources \ {"exit"}
      BY <2>1, <2>2, HookStates, Names
  <2> QED  BY <1>1, <2>1, <2>2, <2>3, BeginsRecord
<1>9. CASE PumpFolds
  <2>1. txn = None /\ UNCHANGED <<state, disk, shown, phase>>
      BY <1>9 DEF PumpFolds, Unlocked, record
  <2>2. "pump" \in Sources \ {"exit"}
      BY Names
  <2> QED  BY <1>1, <1>9, <2>1, <2>2, PumpFoldsTo, BeginsRecord
<1>10. CASE Sweep
  <2>1. txn = None /\ Begins("sweep", "Done") /\ phase = "live" /\ UNCHANGED <<state, disk, shown, phase>>
      BY <1>10 DEF Sweep, Unlocked, record
  <2>2. "sweep" \in Sources \ {"exit"} /\ "Done" \in States \ {"Exited"}
      BY Names DEF States
  <2> QED  BY <1>1, <2>1, <2>2, BeginsRecord
<1>11. CASE ExitFolds
  <2>1. PICK n : n = [src |-> "exit", to |-> "Exited", saved |-> FALSE]
      OBVIOUS
  <2>2. n \in Transition /\ n.src = "exit" /\ n.to = "Exited" /\ ~n.saved
      BY <2>1, Names DEF Transition, States
  <2>3. "Exited" # None
      BY Names DEF States
  <2>4. txn = None /\ phase = "claimed" /\ txn' = n /\ phase' = "exiting"
        /\ UNCHANGED <<state, disk, shown>>
      BY <1>11, <2>1, <2>3 DEF ExitFolds, Unlocked, Begins, record
  <2> QED  BY <1>1, <2>2, <2>4 DEF RecordInv, WriteOrder, ExitIsLast
<1>12. CASE AgentDies \/ Kill
  <2>1. phase = "live" /\ phase' = "claimed" /\ UNCHANGED <<state, disk, shown, txn>>
      BY <1>12 DEF AgentDies, Kill, record
  <2> QED  BY <1>1, <2>1 DEF RecordInv, WriteOrder, ExitIsLast
<1>13. CASE ExitFinishes
  <2>1. /\ phase = "closing" /\ phase' = "removed" /\ state' = None /\ disk' = None
        /\ UNCHANGED <<shown, txn>>
      BY <1>13 DEF ExitFinishes
  <2> QED  BY <1>1, <2>1 DEF RecordInv, WriteOrder, ExitIsLast
<1>14. CASE Restart
  <2>1. PICK kept : /\ kept = (IF disk = None THEN "Working" ELSE disk)
                    /\ state' = kept /\ disk' = kept /\ shown' = kept
                    /\ txn' = None /\ phase = "live" /\ phase' = phase
      BY <1>14 DEF Restart
  <2>2. disk # "Exited"
    <3>1. phase # "exiting" /\ (txn # None => txn.src # "exit")
        BY <1>1, <2>1 DEF TaskInv, HolderWaits, Holds
    <3> QED  BY <1>1, <2>1, <3>1 DEF RecordInv, WriteOrder, ExitIsLast
  <2>3. kept \in States \ {"Exited"}
      BY <1>1, <2>1, <2>2 DEF RecordInv, States
  <2> QED  BY <2>1, <2>3 DEF RecordInv, WriteOrder, ExitIsLast
<1>15. FlipNotes \/ (\E h \in Hooks : HookNotes(h) \/ HookDropped(h)) \/ TakeChunk \/ ForceClose
       \/ Timers \/ AgentWorks \/ AgentAsks \/ AgentRests \/ Repaints \/ ClientViews
       \/ UserSubmits \/ Reclassifies \/ WindowPasses \/ Starves \/ PumpStops
          => UNCHANGED <<state, disk, shown, phase, txn>>
    BY DEF FlipNotes, HookNotes, HookDropped, TakeChunk, ForceClose, Timers, QuietFires,
       WatchdogFires, AgentWorks, AgentAsks, AgentRests, Repaints, ClientViews, UserSubmits,
       Reclassifies, WindowPasses, Starves, PumpStops, record
<1> QED  BY <1>2, <1>4, <1>5, <1>6, <1>7, <1>8, <1>9, <1>10, <1>11, <1>12, <1>13, <1>14, <1>15,
            Zenon DEF Next, Daemon, Task

-----------------------------------------------------------------------------
(* The tasks and the lock                                                  *)

\* Taking the lock makes its taker the holder.
LEMMA BeginsHolds ==
    ASSUME txn = None, NEW src \in Sources, NEW to \in States \cup {None}, Begins(src, to)
    PROVE  \A s : Holds(s)' <=> (to # None /\ s = src)
<1>1. CASE to = None
    BY <1>1 DEF Begins, Holds
<1>2. CASE to # None
  <2>1. PICK n : n = [src |-> src, to |-> to, saved |-> FALSE]
      OBVIOUS
  <2>2. n \in Transition /\ n.src = src
      BY <1>2, <2>1 DEF Transition
  <2>3. txn' = n /\ n # None
      BY <1>2, <2>1, <2>2, Names DEF Begins
  <2> QED  BY <1>2, <2>2, <2>3 DEF Holds
<1> QED  BY <1>1, <1>2

\* Work of the pump that waits for no write.
LEMMA PumpOnly ==
    ASSUME TaskInv, pump.at # "wait", pump' \in Pump, pump'.at # "wait",
           UNCHANGED <<flip, hook, phase, txn>>
    PROVE  TaskInv'
BY DEF TaskInv, HolderWaits, Holds

\* Work of a hook that waits for no write.
LEMMA HookOnly ==
    ASSUME TaskInv, NEW h \in Hooks, hook[h] # None => hook[h].at # "wait",
           NEW n \in HookTask \cup {None}, n # None => n.at # "wait",
           hook' = [hook EXCEPT ![h] = n], UNCHANGED <<pump, flip, phase, txn>>
    PROVE  TaskInv'
<1>1. hook' \in [Hooks -> HookTask \cup {None}]
    BY DEF TaskInv
<1>2. \A g \in Hooks : (hook'[g] # None /\ hook'[g].at = "wait") <=> Holds(g)'
    BY DEF TaskInv, HolderWaits, Holds
<1> QED  BY <1>1, <1>2 DEF TaskInv, HolderWaits, Holds

\* A hook that was sent waits for no write.
LEMMA SendsEffect ==
    ASSUME TaskInv, NEW kinds \in SUBSET Kinds, Sends(kinds), UNCHANGED <<pump, flip, phase, txn>>
    PROVE  TaskInv'
<1>1. CASE UNCHANGED hook
    BY <1>1 DEF TaskInv, HolderWaits, Holds
<1>2. ASSUME NEW h \in Hooks, NEW k \in kinds, hook[h] = None,
             hook' = [hook EXCEPT ![h] = [at |-> "sent", kind |-> k]]
      PROVE  TaskInv'
  <2>1. PICK n : n = [at |-> "sent", kind |-> k]
      OBVIOUS
  <2>2. n \in HookTask /\ n.at = "sent"
      BY <2>1 DEF HookTask
  <2> QED  BY <1>2, <2>1, <2>2, HookOnly
<1> QED  BY <1>1, <1>2 DEF Sends

\* The end of a transition leaves nobody waiting.
LEMMA ResumesEffect ==
    ASSUME TaskInv, RecordInv, txn # None, txn' = None, NEW committed, Resumes(committed)
    PROVE  TaskInv'
<1>1. pump' \in Pump /\ pump'.at # "wait"
    BY PumpEndsAt DEF TaskInv, HolderWaits, Holds, Resumes
<1>2. flip' \in {"idle", "fold", "note"}
    BY DEF TaskInv, HolderWaits, Holds, Resumes
<1>3. phase' # "exiting"
    BY DEF TaskInv, HolderWaits, Holds, Resumes
<1>4. /\ hook' \in [Hooks -> HookTask \cup {None}]
      /\ \A h \in Hooks : ~(hook'[h] # None /\ hook'[h].at = "wait")
    BY DEF TaskInv, HolderWaits, Holds, Resumes
<1> QED  BY <1>1, <1>2, <1>3, <1>4 DEF TaskInv, HolderWaits, Holds

\* A step keeps the waiting tasks and the lock in step.
LEMMA TaskStep ==
    ASSUME LifecycleInv, Next
    PROVE  TaskInv'
<1>1. TaskInv /\ RecordInv /\ ScreenInv /\ PumpInv
    BY LifecycleParts
<1>2. CASE UNCHANGED <<pump, flip, hook, phase, txn>>
    BY <1>1, <1>2 DEF TaskInv, HolderWaits, Holds
<1>3. CASE Persist
  <2>1. PICK n : n = [txn EXCEPT !.saved = TRUE]
      OBVIOUS
  <2>2. txn \in Transition /\ txn # None
      BY <1>1, <1>3 DEF Persist, RecordInv
  <2>3. n.src = txn.src /\ n # None
      BY <2>1, <2>2, Names DEF Transition
  <2>4. txn' = n /\ UNCHANGED <<pump, flip, hook, phase>>
      BY <1>3, <2>1 DEF Persist
  <2> QED  BY <1>1, <2>2, <2>3, <2>4 DEF TaskInv, HolderWaits, Holds
<1>4. CASE PersistFails \/ Commit
  <2>1. txn # None /\ txn' = None /\ (Resumes(FALSE) \/ Resumes(TRUE))
      BY <1>4 DEF PersistFails, Commit
  <2> QED  BY <1>1, <2>1, ResumesEffect
<1>5. CASE FlipFolds
  <2>1. PICK to : /\ to = (IF Live /\ Flippable(state) THEN transition(state, "Working") ELSE None)
                  /\ Begins("flip", to) /\ txn = None /\ flip = "fold"
                  /\ flip' = (IF to = None THEN "idle" ELSE "wait")
                  /\ UNCHANGED <<pump, hook, phase>>
      BY <1>5 DEF FlipFolds, Unlocked
  <2>2. to \in States \cup {None} /\ "flip" \in Sources
      BY <2>1, TransitionTo, Names DEF States
  <2>3. \A s : Holds(s)' <=> (to # None /\ s = "flip")
      BY <2>1, <2>2, BeginsHolds
  <2>4. \A s : ~Holds(s)
      BY <2>1 DEF Holds
  <2> QED  BY <1>1, <2>1, <2>3, <2>4, Names DEF TaskInv, HolderWaits
<1>6. ASSUME NEW h \in Hooks, HookFolds(h)
      PROVE  TaskInv'
  <2>1. PICK c, to : /\ c = hook_to_state(hook[h].kind, state)
                     /\ to = (IF Live /\ c # None THEN transition(state, c) ELSE None)
                     /\ Begins(h, to) /\ txn = None
                     /\ hook' = [hook EXCEPT ![h] = IF to = None THEN None
                                                    ELSE [@ EXCEPT !.at = "wait"]]
                     /\ UNCHANGED <<pump, flip, phase>>
      BY <1>6 DEF HookFolds, Unlocked
  <2>2. to \in States \cup {None} /\ h \in Sources
      BY <2>1, TransitionTo, HookStates, Names
  <2>3. \A s : Holds(s)' <=> (to # None /\ s = h)
      BY <2>1, <2>2, BeginsHolds
  <2>4. \A s : ~Holds(s)
      BY <2>1 DEF Holds
  <2>5. PICK n : n = (IF to = None THEN None ELSE [hook[h] EXCEPT !.at = "wait"])
      OBVIOUS
  <2>6. hook[h] \in HookTask
      BY <1>1, <1>6 DEF HookFolds, TaskInv
  <2>7. /\ n \in HookTask \cup {None} /\ (to = None => n = None)
        /\ to # None => n # None /\ n.at = "wait"
      BY <2>5, <2>6, Names DEF HookTask
  <2>8. hook' = [hook EXCEPT ![h] = n]
      BY <2>1, <2>5
  <2> QED  BY <1>1, <2>1, <2>3, <2>4, <2>7, <2>8, Names DEF TaskInv, HolderWaits
<1>7. CASE PumpFolds
  <2>1. PICK to \in (States \ {"Exited"}) \cup {None} :
           /\ Begins("pump", to)
           /\ pump' = IF to = None THEN PumpEnds(pump.op) ELSE [pump EXCEPT !.at = "wait"]
      BY <1>7, PumpFoldsTo
  <2>2. txn = None /\ UNCHANGED <<flip, hook, phase>>
      BY <1>7 DEF PumpFolds, Unlocked
  <2>3. \A s : Holds(s)' <=> (to # None /\ s = "pump")
      BY <2>1, <2>2, Names, BeginsHolds
  <2>4. \A s : ~Holds(s)
      BY <2>2 DEF Holds
  <2>5. PICK n : n = [pump EXCEPT !.at = "wait"]
      OBVIOUS
  <2>6. n \in Pump /\ n.at = "wait"
      BY <1>1, <2>5 DEF TaskInv, Pump
  <2>7. pump' \in Pump /\ (pump'.at = "wait" <=> to # None)
      BY <2>1, <2>5, <2>6, PumpEndsAt
  <2> QED  BY <1>1, <2>2, <2>3, <2>4, <2>7, Names DEF TaskInv, HolderWaits
<1>8. CASE Sweep
  <2>1. txn = None /\ Begins("sweep", "Done") /\ UNCHANGED <<pump, flip, hook, phase>>
      BY <1>8 DEF Sweep, Unlocked
  <2>2. \A s : Holds(s)' => s = "sweep"
      BY <2>1, Names, BeginsHolds DEF States
  <2>3. \A s : ~Holds(s)
      BY <2>1 DEF Holds
  <2> QED  BY <1>1, <2>1, <2>2, <2>3, Names DEF TaskInv, HolderWaits
<1>9. CASE ExitFolds
  <2>1. /\ txn = None /\ Begins("exit", "Exited") /\ phase' = "exiting"
        /\ UNCHANGED <<pump, flip, hook>>
      BY <1>9 DEF ExitFolds, Unlocked
  <2>2. \A s : Holds(s)' <=> s = "exit"
      BY <2>1, Names, BeginsHolds DEF States
  <2>3. \A s : ~Holds(s)
      BY <2>1 DEF Holds
  <2> QED  BY <1>1, <2>1, <2>2, <2>3, Names DEF TaskInv, HolderWaits
<1>10. CASE FlipNotes \/ UserSubmits
  <2>1. flip # "wait" /\ flip' \in {"idle", "fold"} /\ UNCHANGED <<pump, hook, phase, txn>>
      BY <1>10 DEF FlipNotes, UserSubmits
  <2> QED  BY <1>1, <2>1 DEF TaskInv, HolderWaits, Holds
<1>11. ASSUME NEW h \in Hooks, HookNotes(h)
       PROVE  TaskInv'
  <2>1. PICK n : n = [hook[h] EXCEPT !.at = "fold"]
      OBVIOUS
  <2>2. hook[h] \in HookTask /\ hook[h].at # "wait"
      BY <1>1, <1>11 DEF HookNotes, TaskInv
  <2>3. n \in HookTask /\ n.at = "fold"
      BY <2>1, <2>2 DEF HookTask
  <2>4. hook' = [hook EXCEPT ![h] = n] /\ UNCHANGED <<pump, flip, phase, txn>>
      BY <1>11, <2>1 DEF HookNotes
  <2> QED  BY <1>1, <2>2, <2>3, <2>4, HookOnly
<1>12. ASSUME NEW h \in Hooks, HookDropped(h)
       PROVE  TaskInv'
  <2>1. /\ hook[h].at # "wait" /\ hook' = [hook EXCEPT ![h] = None]
        /\ UNCHANGED <<pump, flip, phase, txn>>
      BY <1>12 DEF HookDropped
  <2> QED  BY <1>1, <2>1, HookOnly
<1>13. CASE TakeChunk
  <2>1. pump.at = "idle" /\ UNCHANGED <<flip, hook, phase, txn>>
      BY <1>13 DEF TakeChunk
  <2>2. PICK r, t : /\ \/ r = Reading("InputNeeded", TRUE, FALSE, "Streaming", FALSE)
                       \/ \E p \in BOOLEAN : r = Reading("Working", FALSE, p, "Streaming", FALSE)
                    /\ \/ pump' = Resting
                       \/ pump' = [at |-> "fold", op |-> "chunk", reading |-> r,
                                   authority |-> hook_authority(t)]
      BY <1>13, Zenon DEF TakeChunk, Progresses
  <2>3. r \in Readings
      BY <2>2, ChunkReadings
  <2>4. hook_authority(t) \in Authorities
      BY DEF hook_authority, Authorities
  <2>5. pump' \in Pump /\ pump'.at # "wait"
      BY <2>2, <2>3, <2>4 DEF Pump, Resting, Authorities
  <2> QED  BY <1>1, <2>1, <2>5, PumpOnly
<1>14. CASE ForceClose
  <2>1. pump.at = "force" /\ UNCHANGED <<flip, hook, phase, txn>>
      BY <1>14 DEF ForceClose
  <2> QED  BY <1>1, <1>14, <2>1, ForceEffect, PumpOnly
<1>15. CASE WatchdogFires
  <2>1. pump.at = "idle" /\ UNCHANGED <<flip, hook, phase, txn>>
      BY <1>15 DEF WatchdogFires
  <2> QED  BY <1>1, <1>15, <2>1, WatchdogEffect, PumpOnly
<1>16. CASE QuietFires \/ Reclassifies
  <2>1. pump.at = "idle" /\ Looks("quiet", turn) /\ UNCHANGED <<flip, hook, phase, txn, buf>>
      BY <1>16 DEF QuietFires, Reclassifies
  <2>2. PICK t : t = turn
      OBVIOUS
  <2> QED  BY <1>1, <2>1, <2>2, LooksEffect, PumpOnly
<1>17. CASE AgentWorks \/ AgentRests \/ Repaints
  <2>1. /\ UNCHANGED <<pump, flip, phase, txn>>
        /\ \E kinds \in SUBSET Kinds : Sends(kinds)
      BY <1>17 DEF AgentWorks, AgentRests, Repaints, Sends, Kinds
  <2> QED  BY <1>1, <2>1, SendsEffect
<1>18. CASE AgentDies \/ PumpStops \/ Kill \/ ExitFinishes
  <2>1. PICK n : n = [Resting EXCEPT !.at = "stopped"]
      OBVIOUS
  <2>2. n \in Pump /\ n.at = "stopped"
      BY <2>1 DEF Resting, Pump, Readings, Authorities
  <2>3. /\ phase' = phase \/ (phase # "exiting" /\ phase' \in {"claimed", "removed"})
        /\ pump' = pump \/ (pump.at = "idle" /\ pump' = n)
        /\ UNCHANGED <<flip, hook, txn>>
      BY <1>18, <2>1 DEF AgentDies, PumpStops, Kill, ExitFinishes
  <2> QED  BY <1>1, <2>2, <2>3 DEF TaskInv, HolderWaits, Holds
<1>19. CASE Restart
  <2>1. PICK r : r = Reading("Working", FALSE, FALSE, "Streaming", FALSE)
      OBVIOUS
  <2>2. r \in Readings
      BY <2>1 DEF Reading, Readings, States
  <2>3. /\ txn' = None /\ flip' = "idle" /\ hook' = [h \in Hooks |-> None]
        /\ phase = "live" /\ phase' = phase
        /\ pump' = [at |-> "fold", op |-> "chunk", authority |-> "None", reading |-> r]
      BY <1>19, <2>1 DEF Restart
  <2>4. pump' \in Pump /\ pump'.at = "fold"
      BY <2>2, <2>3 DEF Pump, Authorities
  <2> QED  BY <2>3, <2>4 DEF TaskInv, HolderWaits, Holds
<1>20. AgentAsks \/ ClientViews \/ WindowPasses \/ Starves => UNCHANGED <<pump, flip, hook, phase, txn>>
    BY DEF AgentAsks, ClientViews, WindowPasses, Starves
<1> QED  BY <1>2, <1>3, <1>4, <1>5, <1>6, <1>7, <1>8, <1>9, <1>10, <1>11, <1>12, <1>13, <1>14,
            <1>15, <1>16, <1>17, <1>18, <1>19, <1>20, Zenon DEF Next, Daemon, Timers, Task

-----------------------------------------------------------------------------
(* The pump and its buffer                                                 *)

\* A step keeps the pump's reading true to the buffer, and a dialog safe.
LEMMA PumpStep ==
    ASSUME LifecycleInv, Next
    PROVE  PumpInv'
<1>1. TaskInv /\ RecordInv /\ ScreenInv /\ PumpInv
    BY LifecycleParts
<1>2. CASE UNCHANGED <<pump, buf, txn, state>>
    BY <1>1, <1>2 DEF PumpInv, ReadingIsOfBuffer, DialogIsHeld, Holds
<1>3. ASSUME pump'.at # "wait", TaskInv'
      PROVE  DialogIsHeld'
    BY <1>3 DEF TaskInv, HolderWaits, DialogIsHeld
<1>4. TaskInv'
    BY TaskStep
<1>5. CASE Persist
  <2>1. /\ txn # None /\ txn' = [txn EXCEPT !.saved = TRUE] /\ txn \in Transition
        /\ UNCHANGED <<pump, buf, state>>
      BY <1>1, <1>5 DEF Persist, RecordInv
  <2>2. txn'.src = txn.src
      BY <2>1 DEF Transition
  <2> QED  BY <1>1, <2>1, <2>2 DEF PumpInv, ReadingIsOfBuffer, DialogIsHeld, Holds
<1>6. CASE PersistFails \/ Commit
  <2>1. /\ txn' = None /\ buf' = buf
        /\ pump' = (IF txn.src = "pump" THEN PumpEnds(pump.op) ELSE pump)
      BY <1>6 DEF PersistFails, Commit, Resumes
  <2>2. ReadingIsOfBuffer'
      BY <1>1, <2>1, PumpEndsAt DEF PumpInv, ReadingIsOfBuffer
  <2> QED  BY <2>1, <2>2 DEF PumpInv, DialogIsHeld, Holds
<1>7. CASE FlipFolds \/ (\E h \in Hooks : HookFolds(h)) \/ Sweep \/ ExitFolds
  <2>1. UNCHANGED <<pump, buf, state>> /\ txn = None
      BY <1>7 DEF FlipFolds, HookFolds, Sweep, ExitFolds, Unlocked, record
  <2>2. pump.at # "wait"
      BY <1>1, <2>1 DEF TaskInv, HolderWaits, Holds
  <2> QED  BY <1>1, <1>3, <1>4, <2>1, <2>2 DEF PumpInv, ReadingIsOfBuffer
<1>8. CASE PumpFolds
  <2>1. PICK to :
           /\ pump' = IF to = None THEN PumpEnds(pump.op) ELSE [pump EXCEPT !.at = "wait"]
           /\ buf = "dialog" /\ state = "InputNeeded" => to = None
      BY <1>8, PumpFoldsTo
  <2>2. buf' = buf /\ state' = state
      BY <1>8 DEF PumpFolds, record
  <2>3. CASE to = None
    <3>1. pump'.at \in {"idle", "force"}
        BY <2>1, <2>3, PumpEndsAt
    <3> QED  BY <1>3, <1>4, <3>1 DEF PumpInv, ReadingIsOfBuffer
  <2>4. CASE to # None
    <3>1. pump'.at = "wait"
        BY <1>1, <2>1, <2>4 DEF TaskInv, Pump
    <3> QED  BY <2>1, <2>2, <2>4, <3>1 DEF PumpInv, ReadingIsOfBuffer, DialogIsHeld
  <2> QED  BY <2>3, <2>4
<1>9. CASE TakeChunk
  <2>1. PICK r, t : /\ \/ r = Reading("InputNeeded", TRUE, FALSE, "Streaming", FALSE)
                       \/ \E p \in BOOLEAN : r = Reading("Working", FALSE, p, "Streaming", FALSE)
                    /\ \/ pump' = Resting
                       \/ pump' = [at |-> "fold", op |-> "chunk", reading |-> r,
                                   authority |-> hook_authority(t)]
      BY <1>9, Zenon DEF TakeChunk, Progresses
  <2>2. r \in Readings /\ r.state \in {"InputNeeded", "Working"} /\ (r.state = "Working" => ~r.clear)
      BY <2>1, ChunkReadings
  <2>3. pump'.at # "wait" /\ (pump'.at = "fold" => pump'.reading = r)
      BY <2>1 DEF Resting
  <2> QED  BY <1>3, <1>4, <2>2, <2>3 DEF PumpInv, ReadingIsOfBuffer
<1>10. CASE ForceClose
    BY <1>1, <1>3, <1>4, <1>10, ForceEffect DEF PumpInv
<1>11. CASE WatchdogFires
    BY <1>1, <1>3, <1>4, <1>11, WatchdogEffect DEF PumpInv
<1>12. CASE QuietFires \/ Reclassifies
  <2>1. Looks("quiet", turn) /\ buf' = buf
      BY <1>12 DEF QuietFires, Reclassifies
  <2>2. PICK t : t = turn
      OBVIOUS
  <2> QED  BY <1>1, <1>3, <1>4, <2>1, <2>2, LooksEffect DEF PumpInv
<1>13. CASE AgentDies \/ PumpStops
  <2>1. pump'.at = "stopped"
      BY <1>13 DEF AgentDies, PumpStops, Resting
  <2> QED  BY <1>3, <1>4, <2>1 DEF PumpInv, ReadingIsOfBuffer
<1>14. CASE ExitFinishes
  <2>1. UNCHANGED <<pump, buf, txn>> /\ phase = "closing"
      BY <1>14 DEF ExitFinishes
  <2>2. txn = None
      BY <1>1, <2>1 DEF RecordInv, ExitIsLast
  <2> QED  BY <1>1, <2>1, <2>2 DEF PumpInv, ReadingIsOfBuffer, DialogIsHeld, Holds
<1>15. CASE Restart
  <2>1. PICK r : r = Reading("Working", FALSE, FALSE, "Streaming", FALSE)
      OBVIOUS
  <2>2. r \in Readings /\ r.state = "Working" /\ ~r.clear
      BY <2>1, ChunkReadings
  <2>3. pump' = [at |-> "fold", op |-> "chunk", authority |-> "None", reading |-> r]
      BY <1>15, <2>1 DEF Restart
  <2> QED  BY <1>3, <1>4, <2>2, <2>3 DEF PumpInv, ReadingIsOfBuffer
<1>16. FlipNotes \/ (\E h \in Hooks : HookNotes(h) \/ HookDropped(h)) \/ AgentWorks \/ AgentAsks
       \/ AgentRests \/ Repaints \/ ClientViews \/ UserSubmits \/ WindowPasses \/ Starves \/ Kill
          => UNCHANGED <<pump, buf, txn, state>>
    BY DEF FlipNotes, HookNotes, HookDropped, AgentWorks, AgentAsks, AgentRests, Repaints,
       ClientViews, UserSubmits, WindowPasses, Starves, Kill, record
<1> QED  BY <1>2, <1>5, <1>6, <1>7, <1>8, <1>9, <1>10, <1>11, <1>12, <1>13, <1>14, <1>15, <1>16,
            Zenon DEF Next, Daemon, Timers, Task

-----------------------------------------------------------------------------
(* The theorems                                                            *)

\* A terminal that has just been spawned satisfies the invariant.
LEMMA LifecycleInit ==
    ASSUME Init
    PROVE  LifecycleInv
<1>1. ScreenInv
  <2>1. wire = <<>> /\ agent = "boot" /\ buf = "empty" /\ view = "none"
        /\ left = [submits |-> MaxSubmits, upsets |-> MaxUpsets, sound |-> TRUE]
      BY DEF Init
  <2> QED  BY <2>1, Bounds DEF ScreenInv
<1>2. ClockInv
  <2>1. turn = FreshTurn /\ due = None /\ stable = 0
      BY DEF Init
  <2>2. reset \in BOOLEAN /\ quiet \in BOOLEAN
      BY Zenon DEF Init
  <2> QED  BY <2>1, <2>2 DEF ClockInv, FreshTurn
<1>3. MachineInv
    BY Bounds DEF Init, MachineInv, FreshMachine
<1>4. RecordInv
    BY Names DEF Init, RecordInv, WriteOrder, ExitIsLast, States
<1>5. TaskInv /\ PumpInv
    BY DEF Init, TaskInv, PumpInv, Pump, Resting, HolderWaits, ReadingIsOfBuffer, DialogIsHeld,
       Holds, Authorities
<1> QED  BY <1>1, <1>2, <1>3, <1>4, <1>5, LifecycleParts

\* The inductive invariant: the lock, the order of the writes, the end and the
\* pump's reading, together.
THEOREM LifecycleInvariant == Spec => []LifecycleInv
<1>1. Init => LifecycleInv
    BY LifecycleInit
<1>2. LifecycleInv /\ [Next]_vars => LifecycleInv'
  <2>1. ASSUME LifecycleInv, Next
        PROVE  LifecycleInv'
      BY <2>1, ScreenStep, ClockStep, MachineStep, RecordStep, TaskStep, PumpStep, LifecycleParts
  <2>2. ASSUME LifecycleInv, UNCHANGED vars
        PROVE  LifecycleInv'
      BY <2>2 DEF vars, LifecycleInv, TypeOK, HolderWaits, WriteOrder, ExitIsLast,
         ReadingIsOfBuffer, DialogIsHeld, Holds
  <2> QED  BY <2>1, <2>2
<1> QED  BY <1>1, <1>2, PTL DEF Spec

\* Every variable keeps its type, whatever folds and fails.
THEOREM LifecycleTypeCorrect == Spec => []TypeOK
<1>1. LifecycleInv => TypeOK
    BY DEF LifecycleInv
<1> QED  BY <1>1, LifecycleInvariant, PTL

\* Outside a transition a live terminal's disk, cache and clients agree
\* (fold_and_broadcast_agent_state).
THEOREM DurableOrder == Spec => []DiskIsShown
<1>1. LifecycleInv => DiskIsShown
    BY DEF LifecycleInv, WriteOrder, DiskIsShown
<1> QED  BY <1>1, LifecycleInvariant, PTL

\* No late hook, no reading of a pump still at work when its process was killed
\* and no sweep shows an exited terminal as anything else (terminal_live under
\* the order lock).
THEOREM ExitStays == Spec => ExitIsFinal
<1>1. ASSUME LifecycleInv, [Next]_vars, shown = "Exited"
      PROVE  shown' = "Exited"
  <2>1. RecordInv
      BY <1>1, LifecycleParts
  <2>2. phase # "live" /\ txn = None
      BY <1>1, <2>1 DEF RecordInv, ExitIsLast
  <2>3. shown' = shown
      BY <1>1, <2>2 DEF Next, Daemon, Timers, Task, Persist, Commit, FlipFolds, FlipNotes,
         HookNotes, HookFolds, HookDropped, TakeChunk, ForceClose, PumpFolds, ExitFolds,
         ExitFinishes, QuietFires, WatchdogFires, AgentWorks, AgentAsks, AgentRests, Repaints,
         AgentDies, Kill, PumpStops, ClientViews, UserSubmits, PersistFails, Reclassifies, WindowPasses, Starves,
         Sweep, Restart, record, vars
  <2> QED  BY <1>1, <2>3
<1>2. LifecycleInv /\ [Next]_vars => [shown = "Exited" => shown' = "Exited"]_vars
    BY <1>1
<1> QED  BY <1>2, LifecycleInvariant, PTL DEF Spec, ExitIsFinal

\* A dialog on the screen that is known as one is not taken back by the pump
\* (on_reading behind hooks_gate_allows_causal).
THEOREM DialogStays == Spec => DialogIsKept
<1>1. ASSUME LifecycleInv, [Next]_vars, buf = "dialog", shown = "InputNeeded", shown' # "InputNeeded"
      PROVE  (txn # None /\ txn.src # "pump") \/ left'.upsets < left.upsets
  <2>1. RecordInv /\ TaskInv /\ PumpInv /\ ScreenInv
      BY <1>1, LifecycleParts
  <2>2. Commit \/ Restart
      BY <1>1 DEF Next, Daemon, Timers, Task, Persist, FlipFolds, FlipNotes,
         HookNotes, HookFolds, HookDropped, TakeChunk, ForceClose, PumpFolds, ExitFolds,
         ExitFinishes, QuietFires, WatchdogFires, AgentWorks, AgentAsks, AgentRests, Repaints,
         AgentDies, Kill, PumpStops, ClientViews, UserSubmits, PersistFails, Reclassifies, WindowPasses, Starves,
         Sweep, record, vars
  <2>3. CASE Commit
    <3>1. txn # None
        BY <2>3 DEF Commit
    <3>2. state = "InputNeeded"
        BY <1>1, <2>1, <3>1 DEF RecordInv, WriteOrder, ExitIsLast
    <3> QED  BY <1>1, <2>1, <3>1, <3>2 DEF PumpInv, DialogIsHeld, Holds
  <2>4. CASE Restart
    <3>1. /\ left.upsets > 0 /\ left.upsets \in Nat
          /\ left' = [left EXCEPT !.upsets = left.upsets - 1, !.sound = @ /\ ~FALSE]
        BY <2>1, <2>4, Bounds DEF Restart, Upset, ScreenInv
    <3>2. left'.upsets = left.upsets - 1
        BY <2>1, <3>1 DEF ScreenInv
    <3> QED  BY <3>1, <3>2
  <2> QED  BY <2>2, <2>3, <2>4
<1>2. LifecycleInv /\ [Next]_vars =>
         [(/\ agent = "asking" /\ wire = <<>> /\ buf = "dialog"
           /\ shown = "InputNeeded" /\ shown' # "InputNeeded")
          => (txn # None /\ txn.src # "pump") \/ left'.upsets < left.upsets]_vars
    BY <1>1
<1> QED  BY <1>2, LifecycleInvariant, PTL DEF Spec, DialogIsKept
=============================================================================
