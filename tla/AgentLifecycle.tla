--------------------------- MODULE AgentLifecycle ---------------------------
(***************************************************************************)
(* The displayed state of one agent terminal: the state machine of         *)
(* agents/src/state_machine.rs and the tasks of server/src/spawn_handler.rs*)
(* that feed it.  The output pump reads the screen, lifecycle hooks arrive *)
(* on tasks of their own, the user answers, a sweep runs beside all of     *)
(* them, and the process ends or is killed while any of them is at work;   *)
(* each folds its candidate into the state, persists the result and only   *)
(* then commits and broadcasts it.                                         *)
(*                                                                         *)
(* InputNeeded is the only blocked state here.  LimitReached, AwaitingReset, *)
(* CreditExhausted and Stalled are left out, with the credit recovery and  *)
(* auto-wait that move between them: the machine treats them alike, but a  *)
(* redraw's suppression and the watchdog look at InputNeeded alone.  Bytes *)
(* are abstracted to what a chunk shows, and the rolling buffer to what    *)
(* the detector would read off it.  Time is abstracted: a timer that is    *)
(* armed may fire.  An operator X_Y stated before X is X with a plausible  *)
(* bug, and is used by no specification.                                   *)
(***************************************************************************)
EXTENDS Naturals, Sequences

CONSTANTS
    Hooks,          \* bound: hooks being handled at a time
    Streak,         \* DONE_EXIT_PROGRESS_STREAK
    MaxWire,        \* bound: chunks between the backend and the pump
    MaxSubmits,     \* bound: inputs the user submits
    MaxUpsets,      \* bound: failing store writes, starved pumps, restarts of the
                    \* daemon, kills and redraws a client provokes, together
    None

VARIABLES
    agent,      \* what the agent really does
    wire,       \* chunks on their way to the pump
    buf,        \* what the detector reads off the rolling buffer
    machine,    \* AgentStateMachine
    state,      \* the cached state
    disk,       \* the persisted state
    shown,      \* the last state broadcast
    phase,      \* the terminal's entry and its teardown
    turn,       \* AgentTurn: what is newer than the last hook
    reset,      \* agent_detect_reset
    quiet,      \* the quiet timer is armed
    due,        \* the watchdog is due: chunks it still lets pass
    stable,     \* watchdog windows since the content last moved
    view,       \* the client's redraw whose output is not agent work
    txn,        \* the transition that holds the order lock
    pump, flip, hook,   \* tasks
    left        \* what may still happen, and whether no ask was put at risk

screen == <<agent, wire>>
clock == <<turn, quiet, due, stable>>
record == <<state, disk, shown>>
vars == <<agent, wire, buf, machine, state, disk, shown, phase, turn, reset,
          quiet, due, stable, view, txn, pump, flip, hook, left>>

States == {"Idle", "Working", "InputNeeded", "Done", "Exited"}
Chunks == {"work", "churn", "dialog", "composer"}
Readings == [state : States, clear : BOOLEAN, progress : BOOLEAN,
             liveness : {"Streaming", "Silent", "Stalled", "Watchdog"},
             ready : BOOLEAN]

Kinds == {"start", "tool", "subagent", "stop", "nudge"}
Authorities == {"None", "HookNewer", "PtyNewer"}
Sources == Hooks \cup {"pump", "flip", "exit", "sweep"}

\* A transition under the order lock, and a hook being handled.
Transition == [src : Sources, to : States, saved : BOOLEAN]
HookTask == [at : {"sent", "fold", "wait"}, kind : Kinds]

ASSUME LifecycleAssumption ==
    /\ Streak \in Nat \ {0} /\ MaxWire \in Nat \ {0}
    /\ {MaxSubmits, MaxUpsets} \subseteq Nat
    /\ {"pump", "flip", "exit", "sweep"} \cap Hooks = {}
    /\ None \notin States \cup Transition \cup HookTask

\* AgentTurn, as far as hook_authority tells its sequence numbers apart: answers
\* and watchdog ticks count after a hook that waits on the user only.
FreshTurn == [hook |-> "none", answered |-> FALSE, output |-> FALSE, ticks |-> 0]
FreshMachine == [booted |-> FALSE, streak |-> 0]
Resting == [at |-> "idle", op |-> None, reading |-> None, authority |-> "None"]

\* What the terminal shows while the agent is in each condition.
Painted(a) == CASE a = "asking" -> "dialog"
                [] a = "resting" -> "composer"
                [] OTHER -> "work"

Init ==
    /\ agent = "boot" /\ wire = <<>> /\ buf = "empty"
    /\ machine = FreshMachine
    /\ state = None /\ disk = None /\ shown = None
    /\ phase = "live"
    /\ turn = FreshTurn /\ reset = FALSE /\ quiet = FALSE
    /\ due = None /\ stable = 0 /\ view = "none"
    /\ txn = None /\ pump = Resting /\ flip = "idle"
    /\ hook = [h \in Hooks |-> None]
    /\ left = [submits |-> MaxSubmits, upsets |-> MaxUpsets, sound |-> TRUE]

Upset(fault) ==
    /\ left.upsets > 0
    /\ left' = [left EXCEPT !.upsets = @ - 1, !.sound = @ /\ ~fault]

-----------------------------------------------------------------------------
(* The state machine                                                       *)

is_blocked(s) == s = "InputNeeded"

transition_allowed(from, to) ==
    /\ from # "Exited"
    /\ ~(from \in {"Done", "Working"} /\ to = "Idle")

\* The state to commit, or None.
transition(from, to) ==
    IF from # to /\ (from = None \/ transition_allowed(from, to)) THEN to ELSE None

Fold(to, m) == [to |-> to, machine |-> m]

suppress_input_needed_exit_Not(cur, r) == FALSE

suppress_input_needed_exit(cur, r) == is_blocked(cur) /\ r.state # cur /\ ~r.clear

on_reading(cur, m, r) ==
    LET seen == [booted |-> m.booted \/ r.clear,
                 streak |-> IF cur = "Done" /\ ~r.clear THEN m.streak ELSE 0]
        settled == IF cur = "Working" /\ r.clear /\ ~is_blocked(r.state)
                   THEN "Done" ELSE r.state
        resumes == cur = "Done" /\ settled = "Working" /\ ~r.clear
    IN IF cur = None /\ r.state = "Working" /\ ~r.clear /\ ~m.booted
         THEN Fold(None, seen)
       ELSE IF settled = "Done" /\ cur # "Working" THEN Fold(None, seen)
       ELSE IF resumes /\ r.progress /\ seen.streak + 1 >= Streak
         THEN Fold("Working", [seen EXCEPT !.streak = 0])
       ELSE IF resumes
         THEN Fold(None, [seen EXCEPT !.streak = IF r.progress THEN @ + 1 ELSE @])
       ELSE IF suppress_input_needed_exit(cur, r) THEN Fold(None, seen)
       ELSE Fold(transition(cur, settled), seen)

\* working_reading_supersedes_dialog: work painted after the dialog.
Supersedes == buf = "work"

hooks_gate_allows_causal_Blind(cur, r, newer) ==
    \/ r.liveness \in {"Silent", "Watchdog"} /\ cur = "Working" /\ ~is_blocked(r.state)
    \/ newer /\ (is_blocked(cur) /\ r.state = "Working" => Supersedes)
    \/ ~newer /\ r.state = "Idle" /\ r.ready /\ ~is_blocked(cur)

hooks_gate_allows_causal(cur, r, newer) ==
    \/ r.liveness \in {"Silent", "Watchdog"} /\ cur = "Working"
    \/ newer /\ (is_blocked(cur) /\ r.state = "Working" => Supersedes)
    \/ ~newer /\ is_blocked(r.state)
    \/ ~newer /\ r.state = "Idle" /\ r.ready /\ ~is_blocked(cur)

on_pty_reading_causal(cur, m, r, authority) ==
    LET newer == authority = "PtyNewer"
        proved == newer /\ is_blocked(cur) /\ r.state = "Working"
    IN IF authority # "None" /\ ~hooks_gate_allows_causal(cur, r, newer)
         THEN Fold(None, m)
         ELSE on_reading(cur, m, [r EXCEPT !.clear = @ \/ proved])

\* hook_authority of a reading whose evidence is the latest output.
hook_authority(t) ==
    IF t.hook = "none" THEN "None"
    ELSE IF t.hook = "waiting" /\ ~t.answered /\ t.ticks < 2 THEN "HookNewer"
    ELSE IF t.output THEN "PtyNewer" ELSE "HookNewer"

hook_to_state(kind, cur) ==
    CASE kind = "tool" -> "Working"
      [] kind = "stop" -> "Done"
      [] kind = "subagent" -> IF cur = "Working" THEN "Working" ELSE None
      [] kind = "nudge" /\ cur \in {"Working", "Done"} -> "InputNeeded"
      [] kind = "nudge" /\ cur = "InputNeeded" -> None
      [] OTHER -> "Idle"

-----------------------------------------------------------------------------
(* fold_and_broadcast_agent_state.  txn is the per-terminal transition     *)
(* lock with what its holder is about to commit.                           *)

Unlocked == txn = None

\* terminal_live, read again under the order lock
Live == phase = "live"

Begins(src, to) ==
    txn' = IF to = None THEN txn ELSE [src |-> src, to |-> to, saved |-> FALSE]

PersistsFirst_Not == TRUE

PersistsFirst == txn.saved

\* durability.persist, outside every lock but the terminal's own.
Persist ==
    /\ txn # None /\ ~txn.saved
    /\ disk' = txn.to
    /\ txn' = [txn EXCEPT !.saved = TRUE]
    /\ UNCHANGED <<agent, wire, buf, machine, state, shown, phase, turn, reset,
                   quiet, due, stable, view, pump, flip, hook, left>>

\* A watchdog's reading is followed by its second half, ForceClose.
PumpEnds(op) ==
    IF op = "watchdog" THEN [Resting EXCEPT !.at = "force", !.op = "watchdog"]
    ELSE Resting

\* Where the task goes on once its transition has ended.
Resumes(committed) ==
    /\ pump' = IF txn.src = "pump" THEN PumpEnds(pump.op) ELSE pump
    /\ flip' = IF txn.src # "flip" THEN flip ELSE IF committed THEN "note" ELSE "idle"
    /\ hook' = [h \in Hooks |-> IF txn.src = h THEN None ELSE hook[h]]
    /\ phase' = IF txn.src = "exit" THEN "closing" ELSE phase

PersistFails ==
    /\ txn # None /\ ~txn.saved
    /\ Upset(TRUE)
    /\ txn' = None
    /\ Resumes(FALSE)
    /\ UNCHANGED <<agent, wire, buf, machine, record, clock, reset, view>>

Commit ==
    /\ txn # None /\ PersistsFirst
    /\ state' = txn.to /\ shown' = txn.to
    /\ txn' = None
    /\ Resumes(TRUE)
    /\ UNCHANGED <<agent, wire, buf, machine, disk, clock, reset, view, left>>

-----------------------------------------------------------------------------
(* The agent, and the user in front of it                                  *)

\* A hook the agent sends; it may find no room, which is a hook lost.
Sends(kinds) ==
    \/ UNCHANGED hook
    \/ \E h \in Hooks, k \in kinds :
          hook[h] = None /\ hook' = [hook EXCEPT ![h] = [at |-> "sent", kind |-> k]]

Paints(chunk) == Len(wire) < MaxWire /\ wire' = Append(wire, chunk)

AgentWorks ==
    /\ agent \in {"boot", "busy"}
    /\ \E c \in {"work", "churn"} : Paints(c)
    /\ IF agent = "busy" THEN Sends({"tool", "subagent"}) ELSE Sends({"start"})
    /\ UNCHANGED <<agent, buf, machine, record, phase, clock, reset, view, txn,
                   pump, flip, left>>

AgentAsks ==
    /\ agent = "busy"
    /\ Paints("dialog")
    /\ agent' = "asking"
    /\ UNCHANGED <<buf, machine, record, phase, clock, reset, view, txn, pump,
                   flip, hook, left>>

AgentRests ==
    /\ agent \in {"boot", "busy"}
    /\ Paints("composer")
    /\ agent' = "resting"
    /\ IF agent = "busy" THEN Sends({"stop"}) ELSE UNCHANGED hook
    /\ UNCHANGED <<buf, machine, record, phase, clock, reset, view, txn, pump,
                   flip, left>>

\* A background shell repaints beside a resting agent as often as it likes; a
\* parked dialog emits nothing by itself, but a click may redraw it.
Repaints ==
    /\ Paints("churn")
    /\ \/ agent = "resting" /\ Sends({"nudge"}) /\ UNCHANGED left
       \/ agent = "asking" /\ Upset(FALSE) /\ UNCHANGED hook
    /\ UNCHANGED <<agent, buf, machine, record, phase, clock, reset, view, txn,
                   pump, flip>>

\* A client resizes or focuses the pane; the redraw is not agent output.
ClientViews ==
    /\ phase = "live" /\ view = "none"
    /\ Upset(FALSE)
    /\ view' = "armed"
    /\ UNCHANGED <<agent, wire, buf, machine, record, phase, clock, reset, txn,
                   pump, flip, hook>>

\* The states a submitted input turns into Working.
Flippable(s) == s \notin {"Working", "Exited"}

\* handle_write_batch up to its state fold: the input reaches the agent.  The
\* user answers what the terminal shows, long after its hooks were handled.
UserSubmits ==
    /\ phase = "live" /\ flip = "idle"
    /\ agent \in {"asking", "resting"} /\ wire = <<>>
    /\ \A h \in Hooks : hook[h] = None
    /\ left.submits > 0 /\ left' = [left EXCEPT !.submits = @ - 1]
    /\ agent' = "busy"
    /\ flip' = IF Flippable(state) THEN "fold" ELSE "idle"
    /\ view' = "none"
    /\ UNCHANGED <<wire, buf, machine, record, phase, clock, reset, txn, pump,
                   hook>>

FlipFolds ==
    /\ flip = "fold" /\ Unlocked
    /\ LET to == IF Live /\ Flippable(state)
                 THEN transition(state, "Working") ELSE None
       IN /\ Begins("flip", to)
          /\ flip' = IF to = None THEN "idle" ELSE "wait"
    /\ UNCHANGED <<agent, wire, buf, machine, record, phase, clock, reset, view,
                   pump, hook, left>>

\* note_user_answered
FlipNotes ==
    /\ flip = "note" /\ flip' = "idle"
    /\ turn' = [turn EXCEPT !.answered = turn.hook = "waiting"]
    /\ reset' = TRUE
    /\ UNCHANGED <<agent, wire, buf, machine, record, phase, quiet, due, stable,
                   view, txn, pump, hook, left>>

-----------------------------------------------------------------------------
(* handle_ingest_hook                                                      *)

HookNotes(h) ==
    /\ hook[h] # None /\ hook[h].at = "sent" /\ phase = "live"
    /\ LET waits == hook_to_state(hook[h].kind, state) = "InputNeeded" IN
       /\ turn' = [FreshTurn EXCEPT !.hook = IF waits THEN "waiting" ELSE "affirms"]
       /\ stable' = IF waits THEN stable ELSE 0
       /\ due' = IF waits THEN due ELSE None
    /\ view' = "none"
    /\ hook' = [hook EXCEPT ![h].at = "fold"]
    /\ UNCHANGED <<agent, wire, buf, machine, record, phase, quiet, reset, txn,
                   pump, flip, left>>

HookFolds(h) ==
    /\ hook[h] # None /\ hook[h].at = "fold" /\ Unlocked
    /\ LET candidate == hook_to_state(hook[h].kind, state)
           to == IF Live /\ candidate # None
                 THEN transition(state, candidate) ELSE None
       IN /\ Begins(h, to)
          /\ hook' = [hook EXCEPT ![h] = IF to = None THEN None
                                         ELSE [@ EXCEPT !.at = "wait"]]
    /\ UNCHANGED <<agent, wire, buf, machine, record, phase, clock, reset, view,
                   pump, flip, left>>

\* A hook that finds no terminal is dropped.
HookDropped(h) ==
    /\ hook[h] # None /\ hook[h].at = "sent" /\ phase # "live"
    /\ hook' = [hook EXCEPT ![h] = None]
    /\ UNCHANGED <<agent, wire, buf, machine, record, phase, clock, reset, view,
                   txn, pump, flip, left>>

-----------------------------------------------------------------------------
(* The output pump                                                         *)

Reading(s, clear, progress, liveness, ready) ==
    [state |-> s, clear |-> clear, progress |-> progress, liveness |-> liveness,
     ready |-> ready]

\* The buffer after a chunk.  A repaint alone changes nothing the detector
\* reads, and after a clear leaves it a screen it does not recognize.
Detected(old, c) ==
    IF c # "churn" THEN c ELSE IF old = "empty" THEN "unknown" ELSE old

\* detect_observation, and the bare Done of a screen it does not recognize.
Classified(liveness) ==
    Reading(CASE buf = "dialog" -> "InputNeeded"
              [] buf = "composer" -> "Idle"
              [] buf = "work" -> "Working"
              [] OTHER -> "Done",
            TRUE, FALSE, liveness, buf = "composer")

Settles(liveness) == Reading("Done", TRUE, FALSE, liveness, FALSE)

Progresses_Any(c) == TRUE

\* Whether a chunk moves the meaningful content: a spinner or a counter does not.
Progresses(c) == c # "churn"

\* begin_pty_chunk and the reading of note_pty_activity_with.  Some adapters
\* recognize a dialog in the chunk that paints it.  A killed terminal's output
\* is read to the end: without an entry no timer is armed for it.
TakeChunk ==
    /\ pump.at = "idle" /\ wire # <<>> /\ due # 0
    /\ LET c == Head(wire)
           progress == Progresses(c)
           clock1 == [turn EXCEPT !.output = turn.hook # "none"]
           suppressed == view # "none"
       IN \E atOnce \in (IF c = "dialog" THEN BOOLEAN ELSE {FALSE}) :
            LET r == IF atOnce THEN Reading("InputNeeded", TRUE, FALSE, "Streaming", FALSE)
                     ELSE Reading("Working", FALSE, progress, "Streaming", FALSE)
            IN /\ buf' = Detected(IF reset THEN "empty" ELSE buf, c)
               /\ turn' = clock1
               /\ due' = IF progress \/ due = None THEN None ELSE due - 1
               /\ stable' = IF progress THEN 0 ELSE stable
               /\ view' = IF suppressed THEN "observed" ELSE "none"
               /\ IF suppressed /\ ~is_blocked(r.state)
                    THEN /\ pump' = Resting
                         /\ machine' = [machine EXCEPT !.booted = @ \/ buf' = "composer"]
                    ELSE /\ pump' = [at |-> "fold", op |-> "chunk", reading |-> r,
                                     authority |-> hook_authority(clock1)]
                         /\ UNCHANGED machine
    /\ wire' = Tail(wire)
    /\ reset' = FALSE /\ quiet' = (phase # "removed")
    /\ left' = [left EXCEPT !.sound = @ /\ ~(flip # "idle" /\ Head(wire) = "dialog")]
    /\ UNCHANGED <<agent, record, phase, txn, flip, hook>>

\* commit_pty_reading up to its fold, for a reading that is not of a chunk: a
\* redraw's silence is no reading either, and hook_authority is taken here.
Weighs(op, r, t) ==
    LET suppressed == view = "observed" IN
    /\ view' = IF suppressed THEN "none" ELSE view
    /\ pump' = IF suppressed /\ ~is_blocked(r.state) THEN PumpEnds(op)
               ELSE [at |-> "fold", op |-> op, reading |-> r,
                     authority |-> hook_authority(t)]

\* classify_quiet_screen: an answer not yet followed by output settles the
\* turn, any other screen is classified.
Looks(op, t) ==
    IF ~reset /\ buf = "empty" THEN pump' = PumpEnds(op) /\ UNCHANGED view
    ELSE Weighs(op, IF reset THEN Settles("Stalled")
                    ELSE Classified(IF op = "watchdog" THEN "Watchdog" ELSE "Silent"), t)

\* The quiet timer; pending output is drained first.
QuietFires ==
    /\ pump.at = "idle" /\ wire = <<>> /\ quiet /\ due = None
    /\ quiet' = FALSE
    /\ Looks("quiet", turn)
    /\ UNCHANGED <<agent, wire, buf, machine, record, phase, turn, reset, due,
                   stable, txn, flip, hook, left>>

\* A deferred injection asks for the screen to be read again.
Reclassifies ==
    /\ pump.at = "idle" /\ wire = <<>> /\ due = None /\ ~reset
    /\ Looks("quiet", turn)
    /\ UNCHANGED <<agent, wire, buf, machine, record, phase, clock, reset, txn,
                   flip, hook, left>>

\* The content has been stable for another watchdog window.  Windows are long:
\* hooks and answers are handled within one, the pump alone may be starved.
WindowPasses ==
    /\ due = None /\ phase # "removed" /\ pump.at # "stopped"
    /\ txn = None /\ flip = "idle" /\ \A h \in Hooks : hook[h] = None
    /\ due' = Len(wire)
    /\ stable' = IF stable < 2 THEN stable + 1 ELSE 2
    /\ UNCHANGED <<agent, wire, buf, machine, record, phase, turn, quiet, reset,
                   view, txn, pump, flip, hook, left>>

\* The pump gets no turn until the next window has passed too.
Starves ==
    /\ due # None /\ stable = 1
    /\ Upset(TRUE)
    /\ stable' = 2
    /\ UNCHANGED <<agent, wire, buf, machine, record, phase, turn, quiet, due,
                   reset, view, txn, pump, flip, hook>>

\* watchdog_reverify_parked_turn up to its classification, which an answer
\* that has seen no output skips.
WatchdogFires ==
    /\ pump.at = "idle" /\ due # None /\ (due = 0 \/ wire = <<>>)
    /\ due' = None
    /\ LET parked == state \in {"Working", "InputNeeded"}
           looks == parked /\ ~reset
           ticked == [turn EXCEPT !.ticks = @ + 1]
       IN /\ turn' = IF looks /\ turn.hook = "waiting" /\ turn.ticks < 2 THEN ticked
                     ELSE turn
          /\ IF looks THEN Looks("watchdog", turn')
             ELSE /\ pump' = IF parked THEN PumpEnds("watchdog") ELSE Resting
                  /\ UNCHANGED view
    /\ UNCHANGED <<agent, wire, buf, machine, record, phase, quiet, stable,
                   reset, txn, flip, hook, left>>

\* Its second half: a turn that still reads Working is closed.
ForceClose ==
    /\ pump.at = "force"
    /\ IF state = "Working" THEN Weighs("force", Settles("Watchdog"), turn)
       ELSE pump' = Resting /\ UNCHANGED view
    /\ UNCHANGED <<agent, wire, buf, machine, record, phase, clock, reset, txn,
                   flip, hook, left>>

FoldsReading_Late ==
    on_pty_reading_causal(state, machine, pump.reading, pump.authority)

\* The fold of commit_pty_reading, which rejects a reading of a terminal whose
\* teardown was claimed while it was taken.
FoldsReading ==
    IF Live THEN on_pty_reading_causal(state, machine, pump.reading, pump.authority)
    ELSE Fold(None, machine)

PumpFolds ==
    /\ pump.at = "fold" /\ Unlocked
    /\ LET f == FoldsReading
       IN /\ Begins("pump", f.to)
          /\ machine' = [f.machine EXCEPT
                !.booted = @ \/ (pump.op = "chunk" /\ buf = "composer")]
          /\ pump' = IF f.to = None THEN PumpEnds(pump.op)
                     ELSE [pump EXCEPT !.at = "wait"]
    /\ UNCHANGED <<agent, wire, buf, record, phase, clock, reset, view, flip,
                   hook, left>>

\* force_stalled_working_to_done, from the sweep beside the pumps
Sweep ==
    /\ stable = 2 /\ state = "Working" /\ phase = "live" /\ Unlocked
    /\ Begins("sweep", "Done")
    /\ UNCHANGED <<agent, wire, buf, machine, record, phase, clock, reset, view,
                   pump, flip, hook, left>>

-----------------------------------------------------------------------------
(* The end of the process, and of the daemon                               *)

\* The process ends.  That is first seen when its output has been read to the
\* end: the pump stops, with its buffer and its wait for timers, and goes on to
\* claim the teardown (finish_terminal, claim_teardown), which joins an input
\* being written.
AgentDies ==
    /\ phase = "live" /\ flip = "idle" /\ pump.at = "idle" /\ wire = <<>> /\ due # 0
    /\ agent' = "gone" /\ phase' = "claimed"
    /\ pump' = [Resting EXCEPT !.at = "stopped"]
    /\ buf' = "empty" /\ machine' = FreshMachine
    /\ quiet' = FALSE /\ due' = None
    /\ UNCHANGED <<wire, record, turn, stable, reset, view, txn, flip, hook, left>>

\* A removal, the reaper or a sign-in kills the process and claims the teardown
\* itself (detach_killed_terminal).  It joins an input being written and nothing
\* the pump does: readings, hooks and queued output stay where they are.
Kill ==
    /\ phase = "live" /\ flip = "idle"
    /\ Upset(FALSE)
    /\ agent' = "killed" /\ phase' = "claimed"
    /\ UNCHANGED <<wire, buf, machine, record, clock, reset, view, txn, pump, flip,
                   hook>>

\* The pump of a killed process has read it to the end: the teardown is no
\* longer its to claim.
PumpStops ==
    /\ agent = "killed" /\ pump.at = "idle" /\ wire = <<>> /\ due # 0
    /\ pump' = [Resting EXCEPT !.at = "stopped"]
    /\ buf' = "empty" /\ machine' = FreshMachine
    /\ quiet' = FALSE /\ due' = None
    /\ UNCHANGED <<agent, wire, record, phase, turn, stable, reset, view, txn,
                   flip, hook, left>>

ExitFolds ==
    /\ phase = "claimed" /\ Unlocked
    /\ Begins("exit", "Exited")
    /\ phase' = "exiting"
    /\ UNCHANGED <<agent, wire, buf, machine, record, clock, reset, view, pump,
                   flip, hook, left>>

\* finish_teardown and the sweep of the persisted fields.  The clocks go with
\* the entry; a quiet timer the pump already waits for still fires.
ExitFinishes ==
    /\ phase = "closing"
    /\ phase' = "removed"
    /\ state' = None /\ disk' = None /\ reset' = FALSE /\ turn' = FreshTurn
    /\ due' = None /\ stable' = 0 /\ view' = "none"
    /\ UNCHANGED <<agent, wire, buf, machine, shown, quiet, txn, pump, flip, hook,
                   left>>

\* The daemon dies and recovers the surviving session: the state from disk, the
\* buffer from the replay, everything else afresh.
Restart ==
    /\ phase = "live"
    /\ Upset(FALSE)
    /\ LET kept == IF disk = None THEN "Working" ELSE disk IN
       /\ state' = kept /\ disk' = kept /\ shown' = kept
       /\ machine' = [booted |-> kept # "Idle", streak |-> 0]
    /\ wire' = <<>> /\ buf' = Painted(agent)
    /\ turn' = FreshTurn /\ reset' = FALSE /\ quiet' = TRUE
    /\ due' = None /\ stable' = 0 /\ view' = "none"
    /\ txn' = None /\ flip' = "idle"
    /\ hook' = [h \in Hooks |-> None]
    /\ pump' = [at |-> "fold", op |-> "chunk", authority |-> "None",
                reading |-> Reading("Working", FALSE, FALSE, "Streaming", FALSE)]
    /\ UNCHANGED <<agent, phase>>

-----------------------------------------------------------------------------
Task(h) == HookNotes(h) \/ HookFolds(h) \/ HookDropped(h)

Daemon ==
    \/ Persist \/ Commit \/ FlipFolds \/ FlipNotes
    \/ \E h \in Hooks : Task(h)
    \/ TakeChunk \/ ForceClose \/ PumpFolds \/ PumpStops
    \/ ExitFolds \/ ExitFinishes

Timers == QuietFires \/ WatchdogFires

Next ==
    \/ Daemon \/ Timers
    \/ AgentWorks \/ AgentAsks \/ AgentRests \/ Repaints \/ AgentDies \/ Kill
    \/ ClientViews \/ UserSubmits
    \/ PersistFails \/ Reclassifies \/ WindowPasses \/ Starves \/ Sweep \/ Restart

Spec == Init /\ [][Next]_vars

\* Tasks run, timers fire and windows pass; agents, users and faults owe nothing.
\* The quiet window is shorter than the watchdog's, so a watchdog that comes
\* round again and again does not keep the quiet timer of a silent terminal
\* from firing.
Fairness ==
    /\ WF_vars(Persist \/ Commit)
    /\ WF_vars(FlipFolds \/ FlipNotes)
    /\ WF_vars(\E h \in Hooks : Task(h))
    /\ WF_vars(TakeChunk \/ ForceClose \/ PumpFolds \/ PumpStops \/ WatchdogFires)
    /\ SF_vars(QuietFires)
    /\ WF_vars(ExitFolds \/ ExitFinishes)
    /\ WF_vars(WindowPasses)
    /\ WF_vars(Sweep)

FairSpec == Spec /\ Fairness

-----------------------------------------------------------------------------
\* What the state machine, the timers, the tasks and their lock can hold.
TypeOK ==
    /\ agent \in {"boot", "busy", "asking", "resting", "gone", "killed"}
    /\ wire \in Seq(Chunks) /\ Len(wire) <= MaxWire
    /\ buf \in Chunks \cup {"empty", "unknown"}
    /\ machine \in [booted : BOOLEAN, streak : 0 .. Streak - 1]
    /\ {state, disk, shown} \subseteq States \cup {None}
    /\ phase \in {"live", "claimed", "exiting", "closing", "removed"}
    /\ turn \in [hook : {"none", "affirms", "waiting"}, answered : BOOLEAN,
                 output : BOOLEAN, ticks : 0..2]
    /\ reset \in BOOLEAN /\ quiet \in BOOLEAN /\ stable \in 0..2
    /\ due \in {None} \cup 0 .. MaxWire
    /\ view \in {"none", "armed", "observed"}
    /\ txn \in Transition \cup {None}
    /\ pump \in [at : {"idle", "force", "fold", "wait", "stopped"},
                 op : {None, "chunk", "quiet", "watchdog", "force"},
                 reading : Readings \cup {None}, authority : Authorities]
    /\ flip \in {"idle", "fold", "wait", "note"}
    /\ hook \in [Hooks -> HookTask \cup {None}]
    /\ left \in [submits : 0 .. MaxSubmits, upsets : 0 .. MaxUpsets, sound : BOOLEAN]

\* What clients were last told, the cache and the disk agree whenever no
\* transition is between its fold and its commit.  (spawn_handler.rs:
\* "Durable order, cache order, and bus order are identical".)
DiskIsShown == txn = None /\ phase = "live" => disk = state /\ shown = state

\* Once a terminal was shown as exited no late hook, and no reading of a pump
\* that was still at work when the process was killed, shows it as anything
\* else.  (finish_terminal: "a racing late hook/PTY reading sees the absorbing
\* state and cannot resurrect the process".  Answers cannot be late: the
\* teardown joins them.)
ExitIsFinal == [][shown = "Exited" => shown' = "Exited"]_vars

\* A dialog that is on the screen and known as such is not taken back by the
\* pump, whatever repaints, timers and redraws make it read (#374).
DialogIsKept ==
    [][(/\ agent = "asking" /\ wire = <<>> /\ buf = "dialog"
        /\ shown = "InputNeeded" /\ shown' # "InputNeeded")
       => (txn # None /\ txn.src # "pump") \/ left'.upsets < left.upsets]_vars

\* An agent that has come to rest, or whose process is gone, is not shown as
\* working for ever, whatever hooks, store writes and timers were lost.
RestIsSettled ==
    []<>(agent \notin {"resting", "gone", "killed"} \/ shown # "Working" \/ phase = "removed")

\* An agent that keeps asking is shown as asking, unless a store write failed,
\* the pump was starved, or the dialog was read between an input and its note,
\* which discards it with the answered one (note_user_answered).
AskIsShown ==
    []<>(agent # "asking" \/ shown = "InputNeeded" \/ ~left.sound)

=============================================================================
