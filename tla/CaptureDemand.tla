--------------------------- MODULE CaptureDemand ----------------------------
(***************************************************************************)
(* Asking the phone for one more picture (internal/web/capture_demand.go,  *)
(* relay.go SendCaptureDemand and readLoop, server.go handlePhoneMessage). *)
(* All browser credit is coalesced into one demand: a sender goroutine     *)
(* writes it to the phone's media socket, and its receipt stands until a   *)
(* picture arrives or its time to live ends.                               *)
(*                                                                         *)
(* captureDemandFence only ever tells whether a sender is still the one    *)
(* that was started last, so the model keeps that sender.  One viewer      *)
(* stands for all.  A reader may hold a message it took from a connection  *)
(* that has been replaced since, and a request may hold an epoch that has. *)
(***************************************************************************)
EXTENDS Naturals, FiniteSets

CONSTANTS
    Senders,        \* sender goroutines that may run at once
    MaxEpoch,       \* bound on stream epochs
    MaxConnection,  \* bound on videoConnectionGeneration
    None            \* no value

VARIABLES
    epoch,     \* the hub's current stream epoch, 0 for none
    conn,      \* videoConnectionGeneration
    connected, \* the relay has a current media socket
    reader,    \* per connection: its reader's message, None, or "ended"
    owed,      \* demands the phone has got on the current connection
    viewer,    \* epoch whose configuration was written, credit, visibility
    asking,    \* epochs held by calls of requestOrdinaryCaptureIfUseful
    demand,    \* captureDemandEpoch, -Connection, sender in charge, receipt
    sender     \* what each sender goroutine is doing

vars == <<epoch, conn, connected, reader, owed, viewer, asking, demand, sender>>

Epochs == 1..MaxEpoch
Connections == 1..MaxConnection
Receipt == [epoch : Epochs, conn : Connections]
Message == [kind : {"text", "frame"}, epoch : {0}] \cup [kind : {"config"}, epoch : Epochs]
Nothing == [kind |-> "none", epoch |-> 0]
Ended == [kind |-> "ended", epoch |-> 0]
Idle == [at |-> "idle", epoch |-> 0, conn |-> 0]

TypeOK ==
    /\ epoch \in 0..MaxEpoch /\ conn \in 0..MaxConnection /\ connected \in BOOLEAN
    /\ reader \in [Connections -> Message \cup {Nothing, Ended}]
    /\ owed \in 0..Cardinality(Senders)
    /\ viewer \in [epoch : 0..MaxEpoch, credit : BOOLEAN, visible : BOOLEAN]
    /\ asking \subseteq Epochs
    /\ demand \in [epoch : 0..MaxEpoch, conn : 0..MaxConnection,
                   sending : Senders \cup {None}, receipt : Receipt \cup {None}]
    /\ sender \in [Senders -> [at : {"idle", "check", "write", "finish"},
                               epoch : 0..MaxEpoch, conn : 0..MaxConnection]]

Init ==
    /\ epoch = 0 /\ conn = 0 /\ connected = FALSE
    /\ reader = [c \in Connections |-> Ended]
    /\ owed = 0
    /\ viewer = [epoch |-> 0, credit |-> TRUE, visible |-> TRUE]
    /\ asking = {}
    /\ demand = [epoch |-> 0, conn |-> 0, sending |-> None, receipt |-> None]
    /\ sender = [s \in Senders |-> Idle]

-----------------------------------------------------------------------------
\* canUseOrdinaryCapture: the viewer has written this epoch's configuration,
\* is not hidden and has its delivery credit.
Useful(v, e) == e # 0 /\ v.epoch = e /\ v.credit /\ v.visible

\* requestOrdinaryCaptureIfUseful up to its lock: the epoch is read here and
\* used after the lock.
Ask == asking' = IF Useful(viewer', epoch') THEN asking \cup {epoch'} ELSE asking

\* cancelCaptureDemandSendLocked, captureDemandFence++ and
\* clearCaptureDemandReceiptLocked, which always go together.
Fenced(d) == [d EXCEPT !.sending = None, !.receipt = None]

\* fenceOrdinaryCaptureDemand.
FencedAt(d, e) == [Fenced(d) EXCEPT !.epoch = e]

\* Mutant of Observed: another connection is noted, but fences nothing.
ObservedUnfenced(d, c) == [d EXCEPT !.conn = c]

\* observeOrdinaryCaptureConnection: the first message of another connection
\* fences what was asked of the one before.
Observed(d, c) ==
    [(IF d.conn \notin {0, c} THEN Fenced(d) ELSE d) EXCEPT !.conn = c]

\* completeOrdinaryCaptureOpportunity: a picture consumes whatever is under way.
Completed(d) == Fenced(d)

-----------------------------------------------------------------------------
\* The rest of requestOrdinaryCaptureIfUseful, under captureDemandMu.
Request(e) ==
    /\ e \in asking
    /\ asking' = asking \ {e}
    /\ LET d == [(IF demand.epoch \notin {0, e} THEN Fenced(demand) ELSE demand)
                    EXCEPT !.epoch = e] IN
       IF d.receipt # None \/ d.sending # None
       THEN demand' = d /\ UNCHANGED sender
       ELSE \E s \in Senders :
              /\ sender[s].at = "idle"
              /\ sender' = [sender EXCEPT ![s] = [at |-> "check", epoch |-> e, conn |-> 0]]
              /\ demand' = [d EXCEPT !.sending = s]
    /\ UNCHANGED <<epoch, conn, connected, reader, owed, viewer>>

\* The goroutine looks once more whether the picture is wanted.
SenderChecks(s) ==
    /\ sender[s].at = "check"
    /\ sender' = [sender EXCEPT ![s].at =
                    IF Useful(viewer, sender[s].epoch) THEN "write" ELSE "finish"]
    /\ UNCHANGED <<epoch, conn, connected, reader, owed, viewer, asking, demand>>

\* SendCaptureDemand: written to the current socket, or refused without one or
\* after a cancel.  The phone answers a demand of its own epoch.
SenderWrites(s) ==
    /\ sender[s].at = "write"
    /\ \/ /\ connected
          /\ sender' = [sender EXCEPT ![s].at = "finish", ![s].conn = conn]
          /\ owed' = IF sender[s].epoch = epoch THEN owed + 1 ELSE owed
       \/ /\ ~connected \/ demand.sending # s
          /\ sender' = [sender EXCEPT ![s].at = "finish"]
          /\ UNCHANGED owed
    /\ owed' <= Cardinality(Senders)
    /\ UNCHANGED <<epoch, conn, connected, reader, viewer, asking, demand>>

\* The stillCurrent check and finishOrdinaryCaptureDemandSend.
SenderFinishes(s) ==
    /\ sender[s].at = "finish"
    /\ LET x == sender[s]
           arrived == x.conn # 0 /\ connected /\ conn = x.conn
                      /\ demand.conn \in {0, x.conn} IN
       demand' = IF demand.sending # s \/ demand.epoch # x.epoch THEN demand
                 ELSE [demand EXCEPT !.sending = None,
                         !.receipt = IF arrived THEN [epoch |-> x.epoch, conn |-> x.conn] ELSE @]
    /\ sender' = [sender EXCEPT ![s] = Idle]
    /\ UNCHANGED <<epoch, conn, connected, reader, owed, viewer, asking>>

\* expireOrdinaryCaptureDemand: the receipt's own timer, then another request.
Expire ==
    /\ demand.receipt # None
    /\ demand' = [demand EXCEPT !.receipt = None]
    /\ UNCHANGED <<epoch, conn, connected, reader, owed, viewer, sender>>
    /\ Ask

-----------------------------------------------------------------------------
(* The media socket: its life, its reader and the handler of its messages. *)

\* A new connection; the phone greets it with its configuration.
Connect(e) ==
    /\ ~connected /\ conn < MaxConnection
    /\ conn' = conn + 1 /\ connected' = TRUE
    /\ owed' = 0
    /\ reader' = [reader EXCEPT ![conn + 1] = [kind |-> "config", epoch |-> e]]
    /\ UNCHANGED <<epoch, viewer, asking, demand, sender>>

\* The socket breaks or is closed; its reader may still be in its handler.
LoseConnection ==
    /\ connected
    /\ connected' = FALSE /\ owed' = 0
    /\ UNCHANGED <<epoch, conn, reader, viewer, asking, demand, sender>>

\* readLoop returns and handlePhoneDisconnect runs.
ReaderEnds(c) ==
    /\ reader[c] = Nothing
    /\ c # conn \/ ~connected
    /\ reader' = [reader EXCEPT ![c] = Ended]
    /\ demand' = FencedAt(demand, 0)
    /\ UNCHANGED <<epoch, conn, connected, owed, viewer, asking, sender>>

\* readLoop takes a message while its connection is current.
Read(m) ==
    /\ connected /\ reader[conn] = Nothing
    /\ m.kind = "frame" => owed > 0
    /\ m.kind = "config" => m.epoch >= epoch
    /\ owed' = CASE m.kind = "frame" -> owed - 1
                 [] m.kind = "config" /\ m.epoch # epoch -> 0
                 [] OTHER -> owed
    /\ reader' = [reader EXCEPT ![conn] = m]
    /\ UNCHANGED <<epoch, conn, connected, viewer, asking, demand, sender>>

\* handlePhoneMessage.  A configuration that regresses is dropped; an accepted
\* one fences a changed epoch and makes the viewer wait for its configuration.
\* A picture is the viewer's if it could use one, and more are asked for.
Handle(c) ==
    LET m == reader[c]
        d == Observed(demand, c)
        accepted == m.kind = "config" /\ m.epoch >= epoch IN
    /\ m \in Message
    /\ reader' = [reader EXCEPT ![c] = Nothing]
    /\ epoch' = IF accepted THEN m.epoch ELSE epoch
    /\ viewer' = CASE accepted -> [viewer EXCEPT !.epoch = 0, !.credit = TRUE]
                   [] m.kind = "frame" /\ viewer.epoch = epoch -> [viewer EXCEPT !.credit = FALSE]
                   [] OTHER -> viewer
    /\ demand' = CASE accepted /\ m.epoch # epoch -> FencedAt(d, m.epoch)
                   [] m.kind = "frame" -> Completed(d)
                   [] OTHER -> d
    /\ IF m.kind = "frame" THEN Ask ELSE UNCHANGED asking
    /\ UNCHANGED <<conn, connected, owed, sender>>

-----------------------------------------------------------------------------
(* The viewer: its writer, its receipts and its visibility.                *)

\* onVideoConfigWritten, a released receipt, or the page becoming visible.
ViewerChanges(v) ==
    /\ viewer' = v
    /\ UNCHANGED <<epoch, conn, connected, reader, owed, demand, sender>>
    /\ Ask

WritesConfig == epoch # 0 /\ viewer.epoch # epoch
                /\ ViewerChanges([viewer EXCEPT !.epoch = epoch])
ReceiptReleased == ~viewer.credit /\ ViewerChanges([viewer EXCEPT !.credit = TRUE])
BecomesVisible == ~viewer.visible /\ ViewerChanges([viewer EXCEPT !.visible = TRUE])

Hides ==
    /\ viewer.visible
    /\ viewer' = [viewer EXCEPT !.visible = FALSE]
    /\ UNCHANGED <<epoch, conn, connected, reader, owed, asking, demand, sender>>

-----------------------------------------------------------------------------
Next ==
    \/ \E e \in Epochs : Request(e) \/ Connect(e)
    \/ \E s \in Senders : SenderChecks(s) \/ SenderWrites(s) \/ SenderFinishes(s)
    \/ \E c \in Connections : ReaderEnds(c) \/ Handle(c)
    \/ \E m \in Message : Read(m)
    \/ Expire \/ LoseConnection
    \/ WritesConfig \/ ReceiptReleased \/ BecomesVisible \/ Hides

Spec == Init /\ [][Next]_vars

-----------------------------------------------------------------------------
\* "A same-epoch reconnect therefore cannot inherit the old socket's permit"
\* (line 99): a receipt in force is of the demand's epoch and, once a message
\* has named the connection, of that connection; no sender runs beside it.
ReceiptIsCurrent ==
    demand.receipt # None =>
        /\ demand.receipt.epoch = demand.epoch
        /\ demand.conn \in {0, demand.receipt.conn}
        /\ demand.sending = None

\* A viewer that can use a picture is not forgotten: while the connection is
\* up, some request, sender, receipt, picture or configuration is under way.
NoForgottenViewer ==
    connected /\ Useful(viewer, epoch) =>
        \/ asking # {} \/ owed > 0 \/ demand.receipt # None \/ demand.sending # None
        \/ \E c \in Connections : reader[c] \in Message
        \/ \E s \in Senders : sender[s].at # "idle"
=============================================================================
