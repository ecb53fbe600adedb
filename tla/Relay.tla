-------------------------------- MODULE Relay --------------------------------
(***************************************************************************)
(* The rendezvous relay (crates/relay).  A box dials out and holds a       *)
(* control connection; a client asks for a box id; the relay announces the *)
(* client's session down the control connection, the box dials a data      *)
(* connection back and the relay splices the two streams.  Every           *)
(* connection is served by a task of its own; the tasks share the maps     *)
(* `boxes` and `pending` and one bounded announcement channel per control  *)
(* connection, and a task may be suspended wherever the code awaits.       *)
(*                                                                         *)
(* A session id is a fresh UUID per client task, so the client's name      *)
(* stands for it.  What the streams carry is opaque to the relay and is    *)
(* left out; so is who may prove which identity: the proof either verifies *)
(* or the task ends.  An operator X_Y stated before X is X with a          *)
(* plausible bug, and is used by no specification.                         *)
(***************************************************************************)
EXTENDS Naturals, Sequences

CONSTANTS
    Conns,      \* control connections, each dialled at most once
    Clients,    \* client connections, each of them one session
    BoxIds,     \* the ids boxes register under
    IdOf,       \* the id each control connection registers under
    Slots,      \* capacity of an announcement channel (16 in the code)
    None

ASSUME RelayAssumption ==
    /\ IdOf \in [Conns -> BoxIds]
    /\ Slots \in Nat \ {0}
    /\ None \notin Conns \cup Clients

VARIABLES
    ctl,        \* where the task of each control connection is
    up,         \* is the box's end of the connection still there?
    chan,       \* announcements queued for each control connection
    hand,       \* the announcement its task is writing, or None
    boxes,      \* Relay::boxes: the connection registered under each id
    pending,    \* Relay::pending: sessions parked for their data connection
    pc,         \* where the task of each client is
    target,     \* the channel (named by its connection) the client looked up
    data,       \* the data connection of each session
    latest      \* history: the last connection registered under each id

ctlVars == <<ctl, up, chan, hand, boxes, latest>>
cliVars == <<pc, target>>
vars == <<ctl, up, chan, hand, boxes, pending, pc, target, data, latest>>

CtlPhases == {"Undialled", "Proving", "Checking", "Inserting",
              "Serving", "Writing", "Closing", "Ended"}
CliPhases == {"Unconnected", "Checking", "Announcing", "Waiting",
              "GivingUp", "Spliced", "Ended"}
DataPhases == {"Undialled", "Dialling", "Failed", "Delivered", "Spliced", "Dropped"}

Init ==
    /\ ctl = [c \in Conns |-> "Undialled"]
    /\ up = [c \in Conns |-> FALSE]
    /\ chan = [c \in Conns |-> <<>>]
    /\ hand = [c \in Conns |-> None]
    /\ boxes = [b \in BoxIds |-> None]
    /\ latest = [b \in BoxIds |-> None]
    /\ pending = {}
    /\ pc = [k \in Clients |-> "Unconnected"]
    /\ target = [k \in Clients |-> None]
    /\ data = [k \in Clients |-> "Undialled"]

-----------------------------------------------------------------------------
(* The task of a control connection (register_box) and the box behind it.  *)

ToCtl(c, from, to) ==
    /\ ctl[c] = from
    /\ ctl' = [ctl EXCEPT ![c] = to]

\* A box redials only when its previous control connection is gone
\* (the loop around serve_box).
Dial(c) ==
    /\ \A d \in Conns : IdOf[d] = IdOf[c] => ~up[d]
    /\ ToCtl(c, "Undialled", "Proving")
    /\ up' = [up EXCEPT ![c] = TRUE]
    /\ UNCHANGED <<chan, hand, boxes, latest, pending, cliVars, data>>

\* The box or the network goes away; the relay need not notice, now or ever.
Drop(c) ==
    /\ up[c]
    /\ up' = [up EXCEPT ![c] = FALSE]
    /\ UNCHANGED <<ctl, chan, hand, boxes, latest, pending, cliVars, data>>

Prove(c) ==
    /\ ToCtl(c, "Proving", "Checking")
    /\ UNCHANGED <<up, chan, hand, boxes, latest, pending, cliVars, data>>

\* Entitled, and Ack::Ok written; writing to a connection whose other end
\* has just gone succeeds.
Admit(c) ==
    /\ ToCtl(c, "Checking", "Inserting")
    /\ UNCHANGED <<up, chan, hand, boxes, latest, pending, cliVars, data>>

\* No proof in time, a wrong one, no subscription, or an ack that cannot be
\* written: the task returns and its stream closes with it.
Refuse(c) ==
    /\ ctl[c] \in {"Proving", "Checking"}
    /\ ctl' = [ctl EXCEPT ![c] = "Ended"]
    /\ up' = [up EXCEPT ![c] = FALSE]
    /\ UNCHANGED <<chan, hand, boxes, latest, pending, cliVars, data>>

Register(c) ==
    /\ ToCtl(c, "Inserting", "Serving")
    /\ boxes' = [boxes EXCEPT ![IdOf[c]] = c]
    /\ latest' = [latest EXCEPT ![IdOf[c]] = c]
    /\ UNCHANGED <<up, chan, hand, pending, cliVars, data>>

\* The announcement taken stays in the channel.
Rest_Kept(c) == chan[c]
Rest(c) == Tail(chan[c])

Receive(c) ==
    /\ chan[c] # <<>>
    /\ ToCtl(c, "Serving", "Writing")
    /\ hand' = [hand EXCEPT ![c] = Head(chan[c])]
    /\ chan' = [chan EXCEPT ![c] = Rest(c)]
    /\ UNCHANGED <<up, boxes, latest, pending, cliVars, data>>

\* The frame is written.  A box that is there reads it and dials a data
\* connection for the session; otherwise it is lost in a socket buffer.
Written(c) ==
    /\ ToCtl(c, "Writing", "Serving")
    /\ data' = IF up[c] THEN [data EXCEPT ![hand[c]] = "Dialling"] ELSE data
    /\ hand' = [hand EXCEPT ![c] = None]
    /\ UNCHANGED <<up, chan, boxes, latest, pending, cliVars>>

\* A failed write, or EOF or an error on the read side, ends the loop.
LosesBox(c) ==
    /\ ~up[c]
    /\ ctl[c] \in {"Serving", "Writing"}
    /\ ctl' = [ctl EXCEPT ![c] = "Closing"]
    /\ hand' = [hand EXCEPT ![c] = None]
    /\ UNCHANGED <<up, chan, boxes, latest, pending, cliVars, data>>

\* Evicts whatever is registered under the id.
Evicted_Any(c) == [boxes EXCEPT ![IdOf[c]] = None]
\* Leaves the entry behind.
Evicted_None(c) == boxes
\* The registry without the entry of c, if the entry is still c's own.
Evicted(c) == [boxes EXCEPT ![IdOf[c]] = IF @ = c THEN None ELSE @]

\* The last step of register_box; the receiver is dropped on return and
\* what is queued in the channel with it.
Deregister(c) ==
    /\ ToCtl(c, "Closing", "Ended")
    /\ boxes' = Evicted(c)
    /\ up' = [up EXCEPT ![c] = FALSE]
    /\ chan' = [chan EXCEPT ![c] = <<>>]
    /\ UNCHANGED <<hand, latest, pending, cliVars, data>>

-----------------------------------------------------------------------------
(* The task of a client (broker_client).                                   *)

ToCli(k, from, to) ==
    /\ pc[k] = from
    /\ pc' = [pc EXCEPT ![k] = to]

LookUp(k) ==
    \E b \in BoxIds :
        /\ ToCli(k, "Unconnected", IF boxes[b] = None THEN "Ended" ELSE "Checking")
        /\ target' = [target EXCEPT ![k] = boxes[b]]
        /\ UNCHANGED <<ctlVars, pending, data>>

\* The box's account is not entitled, or the client's ack cannot be written.
Turned(k) ==
    /\ ToCli(k, "Checking", "Ended")
    /\ UNCHANGED <<ctlVars, pending, target, data>>

\* The session is not entered in `pending` before the box hears of it.
Parked_Late(k) == pending
Parked(k) == pending \cup {k}

Park(k) ==
    /\ ToCli(k, "Checking", "Announcing")
    /\ pending' = Parked(k)
    /\ UNCHANGED <<ctlVars, target, data>>

Closed(c) == ctl[c] = "Ended"
\* Room for one more than the capacity.
Full_Late(c) == Len(chan[c]) > Slots
Full(c) == Len(chan[c]) >= Slots

Announce(k) ==
    /\ ToCli(k, "Announcing", "Waiting")
    /\ ~Closed(target[k]) /\ ~Full(target[k])
    /\ chan' = [chan EXCEPT ![target[k]] = Append(@, k)]
    /\ UNCHANGED <<ctl, up, hand, boxes, latest, pending, target, data>>

\* A full channel is waited on for as long as it takes.
Unreachable_Patient(k) == Closed(target[k])
\* `send` fails on a closed channel at once, on a full one when the time is up.
Unreachable(k) == Closed(target[k]) \/ Full(target[k])

AnnounceFails(k) ==
    /\ ToCli(k, "Announcing", "GivingUp")
    /\ Unreachable(k)
    /\ UNCHANGED <<ctlVars, pending, target, data>>

\* The timer is looked at before the receiver.
Expired_First(k) == TRUE
\* `timeout` polls the receiver first: a stream that is there wins.
Expired(k) == data[k] # "Delivered"

\* The receiver of the oneshot is dropped, the entry in `pending` not yet.
WaitTimesOut(k) ==
    /\ Expired(k)
    /\ ToCli(k, "Waiting", "GivingUp")
    /\ UNCHANGED <<ctlVars, pending, target, data>>

\* The task returns and leaves its entry behind.
Unparked_Never(k) == pending
Unparked(k) == pending \ {k}

Withdraw(k) ==
    /\ ToCli(k, "GivingUp", "Ended")
    /\ pending' = Unparked(k)
    /\ UNCHANGED <<ctlVars, target, data>>

Splice(k) ==
    /\ data[k] = "Delivered"
    /\ ToCli(k, "Waiting", "Spliced")
    /\ data' = [data EXCEPT ![k] = "Spliced"]
    /\ UNCHANGED <<ctlVars, pending, target>>

Hangup(k) ==
    /\ ToCli(k, "Spliced", "Ended")
    /\ data' = [data EXCEPT ![k] = "Dropped"]
    /\ UNCHANGED <<ctlVars, pending, target>>

-----------------------------------------------------------------------------
(* The data connection of a session (dial_data, deliver_box_data).         *)

DialFails(k) ==
    /\ data[k] = "Dialling"
    /\ data' = [data EXCEPT ![k] = "Failed"]
    /\ UNCHANGED <<ctlVars, pending, cliVars>>

\* Takes the session out of `pending` and hands it the stream; with no entry,
\* or with a receiver that is gone, the stream is dropped.
Deliver(k) ==
    /\ data[k] = "Dialling"
    /\ pending' = pending \ {k}
    /\ data' = [data EXCEPT ![k] = IF k \in pending /\ pc[k] = "Waiting"
                                     THEN "Delivered" ELSE "Dropped"]
    /\ UNCHANGED <<ctlVars, cliVars>>

-----------------------------------------------------------------------------

CtlStep(c) ==
    \/ Dial(c) \/ Drop(c) \/ Prove(c) \/ Admit(c) \/ Refuse(c) \/ Register(c)
    \/ Receive(c) \/ Written(c) \/ LosesBox(c) \/ Deregister(c)

ClientTask(k) ==
    \/ Turned(k) \/ Park(k) \/ Announce(k) \/ AnnounceFails(k)
    \/ WaitTimesOut(k) \/ Withdraw(k) \/ Splice(k)

Next ==
    \/ \E c \in Conns : CtlStep(c)
    \/ \E k \in Clients : ClientTask(k) \/ LookUp(k) \/ Hangup(k)
                          \/ DialFails(k) \/ Deliver(k)

\* A client's task always has a bounded wait ahead of it: the entitlement
\* lookup, a write, or one of the two broker timeouts.  Nothing is assumed of
\* boxes, of their connections, or of how long a spliced session lasts.
Fairness == \A k \in Clients : WF_vars(ClientTask(k))

Spec == Init /\ [][Next]_vars
FairSpec == Spec /\ Fairness

-----------------------------------------------------------------------------
(* Properties.                                                             *)

\* Type invariant.  A client that has a target was given a connection.
TypeOK ==
    /\ ctl \in [Conns -> CtlPhases]
    /\ up \in [Conns -> BOOLEAN]
    /\ chan \in [Conns -> Seq(Clients)]
    /\ \A c \in Conns : Len(chan[c]) <= Slots
    /\ hand \in [Conns -> Clients \cup {None}]
    /\ \A c \in Conns : (hand[c] # None) = (ctl[c] = "Writing")
    /\ boxes \in [BoxIds -> Conns \cup {None}]
    /\ latest \in [BoxIds -> Conns \cup {None}]
    /\ pending \in SUBSET Clients
    /\ pc \in [Clients -> CliPhases]
    /\ target \in [Clients -> Conns \cup {None}]
    /\ \A k \in Clients : target[k] = None => pc[k] \in {"Unconnected", "Ended"}
    /\ data \in [Clients -> DataPhases]

\* The session k has been announced to c and its box has not heard of it.
Queued(k, c) ==
    /\ target[k] = c
    /\ pc[k] \notin {"Unconnected", "Checking", "Announcing"}
    /\ data[k] = "Undialled"

\* Every entry of `pending` belongs to a client task that will still take it
\* out, and its stream has not been handed over (server.rs 234-272): no
\* session outlives its client, and none is served twice.
ParkedHasClient ==
    \A k \in pending :
        /\ pc[k] \in {"Announcing", "Waiting", "GivingUp"}
        /\ data[k] \in {"Undialled", "Dialling", "Failed"}

\* An entry of `boxes` belongs to a connection registered under that id whose
\* task is running and has yet to evict it (register_box, server.rs 160-208):
\* no client is sent to a channel that nobody will ever close.
EntryIsServed ==
    \A b \in BoxIds : boxes[b] # None =>
        /\ IdOf[boxes[b]] = b
        /\ ctl[boxes[b]] \in {"Serving", "Writing", "Closing"}

\* The task that registered last is the one clients find for as long as it
\* serves, whatever older tasks do on their way out (server.rs 198-208).
LatestIsFound ==
    \A b \in BoxIds : latest[b] # None =>
        /\ IdOf[latest[b]] = b
        /\ ctl[latest[b]] \in {"Serving", "Writing"} => boxes[b] = latest[b]

\* A client between its ack and its timeout can still be served: either its
\* session is parked and the box's data connection has not been thrown away,
\* or it holds that connection already (server.rs 234-272).
WaitingIsServed ==
    \A k \in Clients : pc[k] \in {"Announcing", "Waiting"} =>
        (k \in pending /\ data[k] # "Dropped") \/ data[k] = "Delivered"

\* A session is announced once, to the connection its client looked up, and
\* only then dialled (server.rs 241-249, 179-184): the box never opens two
\* data connections for one client.
AnnouncedOnce ==
    \A c \in Conns :
        /\ \A i \in 1..Len(chan[c]) :
              /\ Queued(chan[c][i], c)
              /\ chan[c][i] # hand[c]
              /\ \A j \in 1..Len(chan[c]) : chan[c][i] = chan[c][j] => i = j
        /\ hand[c] # None => Queued(hand[c], c)

\* A stream that was handed over has its client: waiting to splice it, or
\* spliced (server.rs 251-272), and it never came before the announcement.
\* No data connection is held by nobody.
StreamHasClient ==
    \A k \in Clients :
        /\ data[k] = "Delivered" => pc[k] = "Waiting"
        /\ data[k] = "Spliced" <=> pc[k] = "Spliced"
        /\ data[k] # "Undialled" => pc[k] \notin {"Unconnected", "Checking", "Announcing"}

\* Whatever the box does, a client that was told to proceed is spliced or let
\* go (broker_client, server.rs 238-257: both waits are bounded).
ClientSettles ==
    \A k \in Clients : pc[k] = "Checking" ~> pc[k] \in {"Spliced", "Ended"}
=============================================================================
