----------------------------- MODULE RelayProofs -----------------------------
(***************************************************************************)
(* Proofs that the invariants of Relay hold for any number of boxes,       *)
(* connections and clients and any channel capacity.  No conjunct of       *)
(* RelayInv but TypeOK is inductive alone: an entry of `pending` is known  *)
(* to have a client only because a stream that was handed over left        *)
(* `pending` first (StreamHasClient), and that an announcement finds its   *)
(* session undialled rests on each session being queued once               *)
(* (AnnouncedOnce).  One lemma per action, one step per conjunct the       *)
(* action can disturb and one for the conjuncts it leaves alone.           *)
(***************************************************************************)
EXTENDS Relay, TLAPS

RelayInv ==
    /\ TypeOK
    /\ ParkedHasClient
    /\ EntryIsServed
    /\ LatestIsFound
    /\ WaitingIsServed
    /\ StreamHasClient
    /\ AnnouncedOnce

-----------------------------------------------------------------------------
(* The steps of a control connection's task and of its box.                *)

\* A box dials (serve_box): only the connection's own task is touched.
LEMMA DialKeeps ==
    ASSUME RelayInv, NEW c \in Conns, Dial(c)
    PROVE  RelayInv'
<1>1. TypeOK'
    BY RelayAssumption DEF RelayInv, TypeOK, CtlPhases, CliPhases, DataPhases,
           Dial, ToCtl, cliVars
<1>2. EntryIsServed'
    BY RelayAssumption DEF RelayInv, TypeOK, EntryIsServed, Dial, ToCtl,
           cliVars
<1>3. LatestIsFound'
    BY RelayAssumption DEF RelayInv, TypeOK, LatestIsFound, Dial, ToCtl,
           cliVars
<1>4. ParkedHasClient' /\ WaitingIsServed' /\ StreamHasClient' /\
      AnnouncedOnce'
    BY DEF RelayInv, ParkedHasClient, WaitingIsServed, StreamHasClient,
           AnnouncedOnce, Queued, Dial, ToCtl, cliVars
<1> QED  BY <1>1, <1>2, <1>3, <1>4 DEF RelayInv

\* A connection is lost on the box's side: the relay's state is as it was.
LEMMA DropKeeps ==
    ASSUME RelayInv, NEW c \in Conns, Drop(c)
    PROVE  RelayInv'
<1>1. TypeOK'
    BY RelayAssumption DEF RelayInv, TypeOK, CtlPhases, CliPhases, DataPhases,
           Drop, cliVars
<1>2. ParkedHasClient' /\ EntryIsServed' /\ LatestIsFound' /\ WaitingIsServed'
      /\ StreamHasClient' /\ AnnouncedOnce'
    BY DEF RelayInv, ParkedHasClient, EntryIsServed, LatestIsFound,
           WaitingIsServed, StreamHasClient, AnnouncedOnce, Queued, Drop,
           cliVars
<1> QED  BY <1>1, <1>2 DEF RelayInv

\* The identity proof verifies: nothing is shared yet.
LEMMA ProveKeeps ==
    ASSUME RelayInv, NEW c \in Conns, Prove(c)
    PROVE  RelayInv'
<1>1. TypeOK'
    BY RelayAssumption DEF RelayInv, TypeOK, CtlPhases, CliPhases, DataPhases,
           Prove, ToCtl, cliVars
<1>2. EntryIsServed'
    BY RelayAssumption DEF RelayInv, TypeOK, EntryIsServed, Prove, ToCtl,
           cliVars
<1>3. LatestIsFound'
    BY RelayAssumption DEF RelayInv, TypeOK, LatestIsFound, Prove, ToCtl,
           cliVars
<1>4. ParkedHasClient' /\ WaitingIsServed' /\ StreamHasClient' /\
      AnnouncedOnce'
    BY DEF RelayInv, ParkedHasClient, WaitingIsServed, StreamHasClient,
           AnnouncedOnce, Queued, Prove, ToCtl, cliVars
<1> QED  BY <1>1, <1>2, <1>3, <1>4 DEF RelayInv

\* The entitlement check passes and the ack is written: still unregistered.
LEMMA AdmitKeeps ==
    ASSUME RelayInv, NEW c \in Conns, Admit(c)
    PROVE  RelayInv'
<1>1. TypeOK'
    BY RelayAssumption DEF RelayInv, TypeOK, CtlPhases, CliPhases, DataPhases,
           Admit, ToCtl, cliVars
<1>2. EntryIsServed'
    BY RelayAssumption DEF RelayInv, TypeOK, EntryIsServed, Admit, ToCtl,
           cliVars
<1>3. LatestIsFound'
    BY RelayAssumption DEF RelayInv, TypeOK, LatestIsFound, Admit, ToCtl,
           cliVars
<1>4. ParkedHasClient' /\ WaitingIsServed' /\ StreamHasClient' /\
      AnnouncedOnce'
    BY DEF RelayInv, ParkedHasClient, WaitingIsServed, StreamHasClient,
           AnnouncedOnce, Queued, Admit, ToCtl, cliVars
<1> QED  BY <1>1, <1>2, <1>3, <1>4 DEF RelayInv

\* A refused registration leaves no entry, since it never made one.
LEMMA RefuseKeeps ==
    ASSUME RelayInv, NEW c \in Conns, Refuse(c)
    PROVE  RelayInv'
<1>1. TypeOK'
    BY RelayAssumption DEF RelayInv, TypeOK, CtlPhases, CliPhases, DataPhases,
           Refuse, cliVars
<1>2. EntryIsServed'
    BY RelayAssumption DEF RelayInv, TypeOK, EntryIsServed, Refuse, cliVars
<1>3. LatestIsFound'
    BY RelayAssumption DEF RelayInv, TypeOK, LatestIsFound, Refuse, cliVars
<1>4. ParkedHasClient' /\ WaitingIsServed' /\ StreamHasClient' /\
      AnnouncedOnce'
    BY DEF RelayInv, ParkedHasClient, WaitingIsServed, StreamHasClient,
           AnnouncedOnce, Queued, Refuse, cliVars
<1> QED  BY <1>1, <1>2, <1>3, <1>4 DEF RelayInv

\* Registering: the new entry is served, whatever it replaces.
LEMMA RegisterKeeps ==
    ASSUME RelayInv, NEW c \in Conns, Register(c)
    PROVE  RelayInv'
<1>1. TypeOK'
    BY RelayAssumption DEF RelayInv, TypeOK, CtlPhases, CliPhases, DataPhases,
           Register, ToCtl, cliVars
<1>2. EntryIsServed'
    BY RelayAssumption DEF RelayInv, TypeOK, EntryIsServed, Register, ToCtl,
           cliVars
<1>3. LatestIsFound'
    BY RelayAssumption DEF RelayInv, TypeOK, LatestIsFound, Register, ToCtl,
           cliVars
<1>4. ParkedHasClient' /\ WaitingIsServed' /\ StreamHasClient' /\
      AnnouncedOnce'
    BY DEF RelayInv, ParkedHasClient, WaitingIsServed, StreamHasClient,
           AnnouncedOnce, Queued, Register, ToCtl, cliVars
<1> QED  BY <1>1, <1>2, <1>3, <1>4 DEF RelayInv

\* The task takes the oldest announcement out of its channel.
LEMMA ReceiveKeeps ==
    ASSUME RelayInv, NEW c \in Conns, Receive(c)
    PROVE  RelayInv'
<1>1. TypeOK'
    BY RelayAssumption DEF RelayInv, TypeOK, CtlPhases, CliPhases, DataPhases,
           Receive, Rest, ToCtl, cliVars
<1>2. EntryIsServed'
    BY RelayAssumption DEF RelayInv, TypeOK, EntryIsServed, Receive, Rest,
           ToCtl, cliVars
<1>3. LatestIsFound'
    BY RelayAssumption DEF RelayInv, TypeOK, LatestIsFound, Receive, Rest,
           ToCtl, cliVars
<1>4. AnnouncedOnce'
    BY RelayAssumption DEF RelayInv, TypeOK, AnnouncedOnce, Queued, Receive,
           Rest, ToCtl, cliVars
<1>5. ParkedHasClient' /\ WaitingIsServed' /\ StreamHasClient'
    BY DEF RelayInv, ParkedHasClient, WaitingIsServed, StreamHasClient,
           Receive, Rest, ToCtl, cliVars
<1> QED  BY <1>1, <1>2, <1>3, <1>4, <1>5 DEF RelayInv

\* The announcement reaches the box, or is lost: its session was undialled.
LEMMA WrittenKeeps ==
    ASSUME RelayInv, NEW c \in Conns, Written(c)
    PROVE  RelayInv'
<1>1. TypeOK'
    BY RelayAssumption DEF RelayInv, TypeOK, CtlPhases, CliPhases, DataPhases,
           Written, ToCtl, cliVars
<1>2. ParkedHasClient'
    BY DEF RelayInv, TypeOK, ParkedHasClient, AnnouncedOnce, Queued, Written,
           ToCtl, cliVars
<1>3. EntryIsServed'
    BY RelayAssumption DEF RelayInv, TypeOK, EntryIsServed, Written, ToCtl,
           cliVars
<1>4. LatestIsFound'
    BY RelayAssumption DEF RelayInv, TypeOK, LatestIsFound, Written, ToCtl,
           cliVars
<1>5. WaitingIsServed'
    BY DEF RelayInv, TypeOK, WaitingIsServed, AnnouncedOnce, Queued, Written,
           ToCtl, cliVars
<1>6. StreamHasClient'
    BY DEF RelayInv, TypeOK, StreamHasClient, AnnouncedOnce, Queued, Written,
           ToCtl, cliVars
<1>7. AnnouncedOnce'
    BY RelayAssumption DEF RelayInv, TypeOK, AnnouncedOnce, Queued, Written,
           ToCtl, cliVars
<1> QED  BY <1>1, <1>2, <1>3, <1>4, <1>5, <1>6, <1>7 DEF RelayInv

\* The box is noticed gone: the announcement in hand is lost, no other.
LEMMA LosesBoxKeeps ==
    ASSUME RelayInv, NEW c \in Conns, LosesBox(c)
    PROVE  RelayInv'
<1>1. TypeOK'
    BY RelayAssumption DEF RelayInv, TypeOK, CtlPhases, CliPhases, DataPhases,
           LosesBox, cliVars
<1>2. EntryIsServed'
    BY RelayAssumption DEF RelayInv, TypeOK, EntryIsServed, LosesBox, cliVars
<1>3. LatestIsFound'
    BY RelayAssumption DEF RelayInv, TypeOK, LatestIsFound, LosesBox, cliVars
<1>4. AnnouncedOnce'
    BY RelayAssumption DEF RelayInv, TypeOK, AnnouncedOnce, Queued, LosesBox,
           cliVars
<1>5. ParkedHasClient' /\ WaitingIsServed' /\ StreamHasClient'
    BY DEF RelayInv, ParkedHasClient, WaitingIsServed, StreamHasClient,
           LosesBox, cliVars
<1> QED  BY <1>1, <1>2, <1>3, <1>4, <1>5 DEF RelayInv

\* The task evicts its own entry only, and its channel dies with it.
LEMMA DeregisterKeeps ==
    ASSUME RelayInv, NEW c \in Conns, Deregister(c)
    PROVE  RelayInv'
<1>1. TypeOK'
  <2>1. boxes' \in [BoxIds -> Conns \cup {None}]
      BY RelayAssumption DEF RelayInv, TypeOK, Deregister, Evicted
  <2>2. chan' \in [Conns -> Seq(Clients)] /\ \A d \in Conns : Len(chan'[d]) <= Slots
      BY RelayAssumption DEF RelayInv, TypeOK, Deregister
  <2> QED
      BY <2>1, <2>2 DEF RelayInv, TypeOK, CtlPhases, Deregister, ToCtl, cliVars
<1>2. EntryIsServed'
    BY RelayAssumption DEF RelayInv, TypeOK, EntryIsServed, Deregister,
           Evicted, ToCtl, cliVars
<1>3. LatestIsFound'
    BY RelayAssumption DEF RelayInv, TypeOK, LatestIsFound, EntryIsServed,
           Deregister, Evicted, ToCtl, cliVars
<1>4. AnnouncedOnce'
    BY DEF RelayInv, TypeOK, AnnouncedOnce, Queued, Deregister, Evicted, ToCtl,
           cliVars
<1>5. ParkedHasClient' /\ WaitingIsServed' /\ StreamHasClient'
    BY DEF RelayInv, ParkedHasClient, WaitingIsServed, StreamHasClient,
           Deregister, Evicted, ToCtl, cliVars
<1> QED  BY <1>1, <1>2, <1>3, <1>4, <1>5 DEF RelayInv

-----------------------------------------------------------------------------
(* The steps of a client's task and of its data connection.                *)

\* A client looks its box up: it has announced nothing yet.
LEMMA LookUpKeeps ==
    ASSUME RelayInv, NEW k \in Clients, LookUp(k)
    PROVE  RelayInv'
<1>1. TypeOK'
    BY RelayAssumption DEF RelayInv, TypeOK, CtlPhases, CliPhases, DataPhases,
           LookUp, ToCli, ctlVars
<1>2. ParkedHasClient'
    BY DEF RelayInv, TypeOK, ParkedHasClient, LookUp, ToCli, ctlVars
<1>3. WaitingIsServed'
    BY DEF RelayInv, TypeOK, WaitingIsServed, LookUp, ToCli, ctlVars
<1>4. StreamHasClient'
    BY DEF RelayInv, TypeOK, StreamHasClient, LookUp, ToCli, ctlVars
<1>5. AnnouncedOnce'
    BY DEF RelayInv, TypeOK, AnnouncedOnce, Queued, LookUp, ToCli, ctlVars
<1>6. EntryIsServed' /\ LatestIsFound'
    BY DEF RelayInv, EntryIsServed, LatestIsFound, LookUp, ToCli, ctlVars
<1> QED  BY <1>1, <1>2, <1>3, <1>4, <1>5, <1>6 DEF RelayInv

\* A client turned away was never parked.
LEMMA TurnedKeeps ==
    ASSUME RelayInv, NEW k \in Clients, Turned(k)
    PROVE  RelayInv'
<1>1. TypeOK'
    BY RelayAssumption DEF RelayInv, TypeOK, CtlPhases, CliPhases, DataPhases,
           Turned, ToCli, ctlVars
<1>2. ParkedHasClient'
    BY DEF RelayInv, TypeOK, ParkedHasClient, Turned, ToCli, ctlVars
<1>3. WaitingIsServed'
    BY DEF RelayInv, TypeOK, WaitingIsServed, Turned, ToCli, ctlVars
<1>4. StreamHasClient'
    BY DEF RelayInv, TypeOK, StreamHasClient, Turned, ToCli, ctlVars
<1>5. AnnouncedOnce'
    BY DEF RelayInv, TypeOK, AnnouncedOnce, Queued, Turned, ToCli, ctlVars
<1>6. EntryIsServed' /\ LatestIsFound'
    BY DEF RelayInv, EntryIsServed, LatestIsFound, Turned, ToCli, ctlVars
<1> QED  BY <1>1, <1>2, <1>3, <1>4, <1>5, <1>6 DEF RelayInv

\* A client parks before it announces, so its session is undialled.
LEMMA ParkKeeps ==
    ASSUME RelayInv, NEW k \in Clients, Park(k)
    PROVE  RelayInv'
<1>1. TypeOK'
    BY RelayAssumption DEF RelayInv, TypeOK, CtlPhases, CliPhases, DataPhases,
           Park, Parked, ToCli, ctlVars
<1>2. ParkedHasClient'
    BY DEF RelayInv, TypeOK, ParkedHasClient, StreamHasClient, Park, Parked,
           ToCli, ctlVars
<1>3. WaitingIsServed'
    BY DEF RelayInv, TypeOK, WaitingIsServed, StreamHasClient, Park, Parked,
           ToCli, ctlVars
<1>4. StreamHasClient'
    BY DEF RelayInv, TypeOK, StreamHasClient, Park, Parked, ToCli, ctlVars
<1>5. AnnouncedOnce'
    BY DEF RelayInv, TypeOK, AnnouncedOnce, Queued, Park, Parked, ToCli,
           ctlVars
<1>6. EntryIsServed' /\ LatestIsFound'
    BY DEF RelayInv, EntryIsServed, LatestIsFound, Park, Parked, ToCli, ctlVars
<1> QED  BY <1>1, <1>2, <1>3, <1>4, <1>5, <1>6 DEF RelayInv

\* An announcement is queued once, in the channel the client looked up.
LEMMA AnnounceKeeps ==
    ASSUME RelayInv, NEW k \in Clients, Announce(k)
    PROVE  RelayInv'
<1>1. TypeOK'
    BY RelayAssumption DEF RelayInv, TypeOK, CtlPhases, CliPhases, DataPhases,
           Announce, Closed, Full, ToCli, ctlVars
<1>2. ParkedHasClient'
    BY DEF RelayInv, TypeOK, ParkedHasClient, Announce, Closed, Full, ToCli,
           ctlVars
<1>3. WaitingIsServed'
    BY DEF RelayInv, TypeOK, WaitingIsServed, Announce, Closed, Full, ToCli,
           ctlVars
<1>4. StreamHasClient'
    BY DEF RelayInv, TypeOK, StreamHasClient, Announce, Closed, Full, ToCli,
           ctlVars
<1>5. AnnouncedOnce'
    BY RelayAssumption DEF RelayInv, TypeOK, AnnouncedOnce, StreamHasClient,
           Queued, Announce, Closed, Full, ToCli, ctlVars
<1>6. EntryIsServed' /\ LatestIsFound'
    BY DEF RelayInv, EntryIsServed, LatestIsFound, Announce, Closed, Full,
           ToCli, ctlVars
<1> QED  BY <1>1, <1>2, <1>3, <1>4, <1>5, <1>6 DEF RelayInv

\* An announcement that fails was never queued.
LEMMA AnnounceFailsKeeps ==
    ASSUME RelayInv, NEW k \in Clients, AnnounceFails(k)
    PROVE  RelayInv'
<1>1. TypeOK'
    BY RelayAssumption DEF RelayInv, TypeOK, CtlPhases, CliPhases, DataPhases,
           AnnounceFails, Unreachable, ToCli, ctlVars
<1>2. ParkedHasClient'
    BY DEF RelayInv, TypeOK, ParkedHasClient, AnnounceFails, Unreachable,
           ToCli, ctlVars
<1>3. WaitingIsServed'
    BY DEF RelayInv, TypeOK, WaitingIsServed, AnnounceFails, Unreachable,
           ToCli, ctlVars
<1>4. StreamHasClient'
    BY DEF RelayInv, TypeOK, StreamHasClient, AnnounceFails, Unreachable,
           ToCli, ctlVars
<1>5. AnnouncedOnce'
    BY DEF RelayInv, TypeOK, AnnouncedOnce, Queued, AnnounceFails, Unreachable,
           ToCli, ctlVars
<1>6. EntryIsServed' /\ LatestIsFound'
    BY DEF RelayInv, EntryIsServed, LatestIsFound, AnnounceFails, Unreachable,
           ToCli, ctlVars
<1> QED  BY <1>1, <1>2, <1>3, <1>4, <1>5, <1>6 DEF RelayInv

\* Giving up on the wait: no stream had been handed over.
LEMMA WaitTimesOutKeeps ==
    ASSUME RelayInv, NEW k \in Clients, WaitTimesOut(k)
    PROVE  RelayInv'
<1>1. TypeOK'
    BY RelayAssumption DEF RelayInv, TypeOK, CtlPhases, CliPhases, DataPhases,
           WaitTimesOut, Expired, ToCli, ctlVars
<1>2. ParkedHasClient'
    BY DEF RelayInv, TypeOK, ParkedHasClient, WaitTimesOut, Expired, ToCli,
           ctlVars
<1>3. WaitingIsServed'
    BY DEF RelayInv, TypeOK, WaitingIsServed, WaitTimesOut, Expired, ToCli,
           ctlVars
<1>4. StreamHasClient'
    BY DEF RelayInv, TypeOK, StreamHasClient, WaitTimesOut, Expired, ToCli,
           ctlVars
<1>5. AnnouncedOnce'
    BY DEF RelayInv, TypeOK, AnnouncedOnce, Queued, WaitTimesOut, Expired,
           ToCli, ctlVars
<1>6. EntryIsServed' /\ LatestIsFound'
    BY DEF RelayInv, EntryIsServed, LatestIsFound, WaitTimesOut, Expired,
           ToCli, ctlVars
<1> QED  BY <1>1, <1>2, <1>3, <1>4, <1>5, <1>6 DEF RelayInv

\* Taking the entry out of `pending` ends the client's task.
LEMMA WithdrawKeeps ==
    ASSUME RelayInv, NEW k \in Clients, Withdraw(k)
    PROVE  RelayInv'
<1>1. TypeOK'
    BY RelayAssumption DEF RelayInv, TypeOK, CtlPhases, CliPhases, DataPhases,
           Withdraw, Unparked, ToCli, ctlVars
<1>2. ParkedHasClient'
    BY DEF RelayInv, TypeOK, ParkedHasClient, Withdraw, Unparked, ToCli,
           ctlVars
<1>3. WaitingIsServed'
    BY DEF RelayInv, TypeOK, WaitingIsServed, Withdraw, Unparked, ToCli,
           ctlVars
<1>4. StreamHasClient'
    BY DEF RelayInv, TypeOK, StreamHasClient, Withdraw, Unparked, ToCli,
           ctlVars
<1>5. AnnouncedOnce'
    BY DEF RelayInv, TypeOK, AnnouncedOnce, Queued, Withdraw, Unparked, ToCli,
           ctlVars
<1>6. EntryIsServed' /\ LatestIsFound'
    BY DEF RelayInv, EntryIsServed, LatestIsFound, Withdraw, Unparked, ToCli,
           ctlVars
<1> QED  BY <1>1, <1>2, <1>3, <1>4, <1>5, <1>6 DEF RelayInv

\* A stream handed over is spliced; its session has left `pending`.
LEMMA SpliceKeeps ==
    ASSUME RelayInv, NEW k \in Clients, Splice(k)
    PROVE  RelayInv'
<1>1. TypeOK'
    BY RelayAssumption DEF RelayInv, TypeOK, CtlPhases, CliPhases, DataPhases,
           Splice, ToCli, ctlVars
<1>2. ParkedHasClient'
    BY DEF RelayInv, TypeOK, ParkedHasClient, StreamHasClient, Splice, ToCli,
           ctlVars
<1>3. WaitingIsServed'
    BY DEF RelayInv, TypeOK, WaitingIsServed, Splice, ToCli, ctlVars
<1>4. StreamHasClient'
    BY DEF RelayInv, TypeOK, StreamHasClient, Splice, ToCli, ctlVars
<1>5. AnnouncedOnce'
    BY DEF RelayInv, TypeOK, AnnouncedOnce, StreamHasClient, Queued, Splice,
           ToCli, ctlVars
<1>6. EntryIsServed' /\ LatestIsFound'
    BY DEF RelayInv, EntryIsServed, LatestIsFound, Splice, ToCli, ctlVars
<1> QED  BY <1>1, <1>2, <1>3, <1>4, <1>5, <1>6 DEF RelayInv

\* A spliced session ends; it is neither queued nor parked.
LEMMA HangupKeeps ==
    ASSUME RelayInv, NEW k \in Clients, Hangup(k)
    PROVE  RelayInv'
<1>1. TypeOK'
    BY RelayAssumption DEF RelayInv, TypeOK, CtlPhases, CliPhases, DataPhases,
           Hangup, ToCli, ctlVars
<1>2. ParkedHasClient'
    BY DEF RelayInv, TypeOK, ParkedHasClient, StreamHasClient, Hangup, ToCli,
           ctlVars
<1>3. WaitingIsServed'
    BY DEF RelayInv, TypeOK, WaitingIsServed, Hangup, ToCli, ctlVars
<1>4. StreamHasClient'
    BY DEF RelayInv, TypeOK, StreamHasClient, Hangup, ToCli, ctlVars
<1>5. AnnouncedOnce'
    BY DEF RelayInv, TypeOK, AnnouncedOnce, StreamHasClient, Queued, Hangup,
           ToCli, ctlVars
<1>6. EntryIsServed' /\ LatestIsFound'
    BY DEF RelayInv, EntryIsServed, LatestIsFound, Hangup, ToCli, ctlVars
<1> QED  BY <1>1, <1>2, <1>3, <1>4, <1>5, <1>6 DEF RelayInv

\* A data connection that fails leaves its client parked.
LEMMA DialFailsKeeps ==
    ASSUME RelayInv, NEW k \in Clients, DialFails(k)
    PROVE  RelayInv'
<1>1. TypeOK'
    BY RelayAssumption DEF RelayInv, TypeOK, CtlPhases, CliPhases, DataPhases,
           DialFails, ctlVars, cliVars
<1>2. ParkedHasClient'
    BY DEF RelayInv, TypeOK, ParkedHasClient, DialFails, ctlVars, cliVars
<1>3. WaitingIsServed'
    BY DEF RelayInv, TypeOK, WaitingIsServed, DialFails, ctlVars, cliVars
<1>4. StreamHasClient'
    BY DEF RelayInv, TypeOK, StreamHasClient, DialFails, ctlVars, cliVars
<1>5. AnnouncedOnce'
    BY DEF RelayInv, TypeOK, AnnouncedOnce, Queued, DialFails, ctlVars, cliVars
<1>6. EntryIsServed' /\ LatestIsFound'
    BY DEF RelayInv, EntryIsServed, LatestIsFound, DialFails, ctlVars, cliVars
<1> QED  BY <1>1, <1>2, <1>3, <1>4, <1>5, <1>6 DEF RelayInv

\* Handing a stream over takes its session out of `pending`.
LEMMA DeliverKeeps ==
    ASSUME RelayInv, NEW k \in Clients, Deliver(k)
    PROVE  RelayInv'
<1>1. TypeOK'
    BY RelayAssumption DEF RelayInv, TypeOK, CtlPhases, CliPhases, DataPhases,
           Deliver, ctlVars, cliVars
<1>2. ParkedHasClient'
    BY DEF RelayInv, TypeOK, ParkedHasClient, Deliver, ctlVars, cliVars
<1>3. WaitingIsServed'
    BY DEF RelayInv, TypeOK, WaitingIsServed, StreamHasClient, Deliver,
           ctlVars, cliVars
<1>4. StreamHasClient'
    BY DEF RelayInv, TypeOK, StreamHasClient, Deliver, ctlVars, cliVars
<1>5. AnnouncedOnce'
    BY DEF RelayInv, TypeOK, AnnouncedOnce, Queued, Deliver, ctlVars, cliVars
<1>6. EntryIsServed' /\ LatestIsFound'
    BY DEF RelayInv, EntryIsServed, LatestIsFound, Deliver, ctlVars, cliVars
<1> QED  BY <1>1, <1>2, <1>3, <1>4, <1>5, <1>6 DEF RelayInv

-----------------------------------------------------------------------------
(* The theorems.                                                           *)

\* The initial state satisfies the invariant.
LEMMA RelayInit == Init => RelayInv
<1> SUFFICES ASSUME Init PROVE RelayInv  OBVIOUS
<1>1. TypeOK
    BY RelayAssumption DEF Init, TypeOK, CtlPhases, CliPhases, DataPhases
<1>2. ParkedHasClient /\ EntryIsServed /\ LatestIsFound /\ WaitingIsServed /\ StreamHasClient
    BY DEF Init, ParkedHasClient, EntryIsServed, LatestIsFound, WaitingIsServed,
           StreamHasClient
<1>3. AnnouncedOnce
  <2>1. \A c \in Conns : Len(chan[c]) = 0 /\ hand[c] = None
      BY DEF Init
  <2>2. 1..0 = {}
      OBVIOUS
  <2> QED  BY <2>1, <2>2 DEF AnnouncedOnce
<1> QED  BY <1>1, <1>2, <1>3 DEF RelayInv

\* Every step preserves it.
LEMMA RelayStep == RelayInv /\ [Next]_vars => RelayInv'
<1> SUFFICES ASSUME RelayInv, [Next]_vars PROVE RelayInv'  OBVIOUS
<1>1. ASSUME NEW c \in Conns, CtlStep(c) PROVE RelayInv'
    BY <1>1, DialKeeps, DropKeeps, ProveKeeps, AdmitKeeps, RefuseKeeps, RegisterKeeps,
       ReceiveKeeps, WrittenKeeps, LosesBoxKeeps, DeregisterKeeps DEF CtlStep
<1>2. ASSUME NEW k \in Clients, ClientTask(k) PROVE RelayInv'
    BY <1>2, TurnedKeeps, ParkKeeps, AnnounceKeeps, AnnounceFailsKeeps, WaitTimesOutKeeps,
       WithdrawKeeps, SpliceKeeps DEF ClientTask
<1>3. ASSUME NEW k \in Clients,
             LookUp(k) \/ Hangup(k) \/ DialFails(k) \/ Deliver(k)
      PROVE  RelayInv'
    BY <1>3, LookUpKeeps, HangupKeeps, DialFailsKeeps, DeliverKeeps
<1>4. CASE UNCHANGED vars
    BY <1>4 DEF RelayInv, vars, TypeOK, ParkedHasClient, EntryIsServed, LatestIsFound,
                WaitingIsServed, StreamHasClient, AnnouncedOnce, Queued
<1> QED  BY <1>1, <1>2, <1>3, <1>4 DEF Next

\* RelayInv holds in every reachable state of the relay (crates/relay/src/server.rs).
THEOREM RelayInvariant == Spec => []RelayInv
BY RelayInit, RelayStep, PTL DEF Spec

\* The relay's maps, channels and tasks keep their types, and no channel ever
\* holds more than its capacity (server.rs 160).
THEOREM RelayTypeCorrect == Spec => []TypeOK
<1>1. RelayInv => TypeOK  BY DEF RelayInv
<1> QED  BY <1>1, RelayInvariant, PTL

\* `pending` never holds a session whose client is gone or served (server.rs 234-272).
THEOREM RelayParkedHasClient == Spec => []ParkedHasClient
<1>1. RelayInv => ParkedHasClient  BY DEF RelayInv
<1> QED  BY <1>1, RelayInvariant, PTL

\* `boxes` never holds the channel of a task that has ended (server.rs 160-208).
THEOREM RelayEntryIsServed == Spec => []EntryIsServed
<1>1. RelayInv => EntryIsServed  BY DEF RelayInv
<1> QED  BY <1>1, RelayInvariant, PTL

\* No older task evicts the connection registered last (server.rs 198-208).
THEOREM RelayLatestIsFound == Spec => []LatestIsFound
<1>1. RelayInv => LatestIsFound  BY DEF RelayInv
<1> QED  BY <1>1, RelayInvariant, PTL

\* A client that has not timed out can still be served (server.rs 234-272).
THEOREM RelayWaitingIsServed == Spec => []WaitingIsServed
<1>1. RelayInv => WaitingIsServed  BY DEF RelayInv
<1> QED  BY <1>1, RelayInvariant, PTL

\* A stream handed over always has its client (server.rs 251-272).
THEOREM RelayStreamHasClient == Spec => []StreamHasClient
<1>1. RelayInv => StreamHasClient  BY DEF RelayInv
<1> QED  BY <1>1, RelayInvariant, PTL

\* A session is announced at most once, to one box (server.rs 241-249).
THEOREM RelayAnnouncedOnce == Spec => []AnnouncedOnce
<1>1. RelayInv => AnnouncedOnce  BY DEF RelayInv
<1> QED  BY <1>1, RelayInvariant, PTL
=============================================================================
