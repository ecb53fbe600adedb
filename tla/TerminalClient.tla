--------------------------- MODULE TerminalClient ---------------------------
(***************************************************************************)
(* How a client reconstructs one terminal (TerminalStack in                *)
(* crates/tui/src/components/terminal_stack.rs): live chunks are fed to the *)
(* emulator in sequence, a gap quarantines the pane until an authoritative *)
(* replay of the daemon's ring arrives.  The operators below are the       *)
(* handlers of the events about one terminal, as functions of its slot.    *)
(* What a chunk holds is left out; the grid is the sequence of the chunks  *)
(* fed to the emulator since it was last reset, so that a chunk fed twice, *)
(* out of order or after a hole is visible.  A replay through s feeds the  *)
(* chunks 1 to s.                                                          *)
(***************************************************************************)
EXTENDS Naturals, Sequences

CONSTANT None

Larger(a, b) == IF a >= b THEN a ELSE b

\* What the emulator holds after a reset and a replay through s.
ReplayOf(s) == [i \in 1 .. s |-> i]

(* last: last_seq.  required, latch: the request and request_pending of    *)
(* TerminalStreamSync::Desynced (0 and FALSE while coherent).  asking: the *)
(* terminal is in pending_resync_requests.                                 *)
Panes ==
    [last: Nat, grid: Seq(Nat), sync: {"Coherent", "Desynced"},
     required: Nat, latch: BOOLEAN, asking: BOOLEAN]

FreshPane ==
    [last |-> 0, grid |-> <<>>, sync |-> "Coherent",
     required |-> 0, latch |-> FALSE, asking |-> FALSE]

Desynced(p) == p.sync = "Desynced"

\* Quarantined until a replay through r arrives, and the request queued.
Ask(p, r) ==
    [p EXCEPT !.sync = "Desynced", !.required = r, !.latch = TRUE, !.asking = TRUE]

\* Feeds whatever is newer than the last chunk, holes included.
AppendOutput_Torn(p, s) ==
    IF s <= p.last THEN p ELSE [p EXCEPT !.last = s, !.grid = Append(@, s)]
\* Re-arms no request for a pane that is already quarantined.
AppendOutput_Mute(p, s) ==
    CASE s <= p.last -> p
      [] s > p.last /\ Desynced(p) -> [p EXCEPT !.required = Larger(@, s), !.latch = TRUE]
      [] s > p.last + 1 /\ ~Desynced(p) -> Ask(p, s)
      [] OTHER -> [p EXCEPT !.last = s, !.grid = Append(@, s)]
AppendOutput(p, s) ==
    CASE s <= p.last -> p
      [] s > p.last /\ Desynced(p) ->
            [p EXCEPT !.required = Larger(@, s), !.latch = TRUE,
                      !.asking = @ \/ ~p.latch]
      [] s > p.last + 1 /\ ~Desynced(p) -> Ask(p, s)
      [] OTHER -> [p EXCEPT !.last = s, !.grid = Append(@, s)]

Rebuilt(p, s) ==
    [p EXCEPT !.last = s, !.grid = ReplayOf(s), !.sync = "Coherent",
              !.required = 0, !.latch = FALSE]

\* The pane's debt: the sequence a replay has to reach to be adopted.
Debt(p) == IF Desynced(p) THEN p.required ELSE p.last

\* adopts: could the emulator be reset?
ResyncTerminal(p, s, adopts) ==
    CASE s < p.last \/ s < Debt(p) ->
            IF Desynced(p) THEN [p EXCEPT !.latch = TRUE, !.asking = TRUE] ELSE p
      [] s >= p.last /\ s >= Debt(p) /\ ~Desynced(p) /\ s = p.last -> p
      [] OTHER -> IF adopts THEN Rebuilt(p, s) ELSE Ask(p, Larger(s, Debt(p)))

\* A snapshot without a replay keeps the grid and asks for one; one with a
\* replay replaces the slot, at whatever sequence the replay has.
OnSnapshot(p, s, available) ==
    IF available THEN Rebuilt(p, s) ELSE Ask(p, Larger(p.last, s))

OnUnavailable(p) ==
    [p EXCEPT !.sync = "Desynced", !.required = Debt(p), !.latch = FALSE]

\* The retry never fires.
TickRetry_Idle(p) == p
\* tick_resync_retries, once the back-off of an unlatched request has passed.
TickRetry(p) == [p EXCEPT !.latch = TRUE, !.asking = TRUE]

\* mark_visible_desynced: the user distrusts the grid.
Distrust(p) == Ask(p, Larger(Debt(p), p.last))

\* What draining the queued requests sends, if anything.
Drained(p) ==
    IF p.asking /\ Desynced(p) /\ p.latch THEN p.required ELSE None
=============================================================================
