---------------------------- MODULE FileDropPage ----------------------------
(***************************************************************************)
(* The FileDropApp of static/js/app.js in one page, with the part of       *)
(* ui.js it acts on: the start of the page, the flows that create and join *)
(* a room, the reconnect timer, the replacement of WebRTC managers, and    *)
(* what starts the sending of files.                                       *)
(*                                                                         *)
(* A step is a task of the page's event loop with the code that follows it *)
(* in resolved promises; so a flow goes on in the step that answers its    *)
(* fetch or opens the socket it awaits, and one that awaits a socket that  *)
(* fails goes on never.  Server, peer and user are the environment.  A     *)
(* page that is loaded again is a new page.                                *)
(***************************************************************************)
EXTENDS SignalingClient, FiniteSets

CONSTANTS
    MaxFlows,       \* bound: how often the user starts a flow
    MaxBreaks,      \* bound: how many sockets fail or break
    MaxOpens        \* bound: how many data channels open

ASSUME PageAssumption == {MaxFlows, MaxBreaks, MaxOpens} \subseteq Nat

VARIABLES
    installed,      \* init() has installed its handlers on the client and the buttons
    timers,         \* reconnect timers that have not fired
    online,         \* the status dot says "Signaling Online"
    roomCode, role, \* this.roomCode, this.role
    view,           \* ui.currentView; "join" stands for the landing view, too
    filesSelected,  \* ui.selectedFiles is not empty, and Start is enabled
    manager,        \* this.webrtc; history: whether a flow that had the page for itself
                    \* made it, and how many rooms the page has put on screen since
                    \* whose sockets were still to be opened
    engine,         \* this.fileEngine: whether its channel is open, and how many calls
                    \* of sendFiles have not ended on it
    fetching,       \* fetching[k]: flows of kind k that await the answer of the server
    created,        \* history: rooms the server created for this page
    flow,           \* history: what became of the flow that was started last
    flows, breaks, opens    \* counted for the bounds

appVars == <<roomCode, role, view, filesSelected, manager, engine, fetching, created, flow>>
vars == <<signaling, installed, timers, online, appVars, flows, breaks, opens>>

----------------------------------------------------------------------------
Closed == [open |-> FALSE, sending |-> 0]
NoManager == [initiator |-> FALSE, listening |-> FALSE, negotiating |-> FALSE, alone |-> FALSE, shown |-> 0]

\* Mutant: a page that has a manager keeps it.
setupWebRTC_Once(isInitiator) ==
    /\ manager' = IF manager.listening THEN manager
                  ELSE [initiator |-> isInitiator, listening |-> TRUE,
                        negotiating |-> FALSE, alone |-> flow = "alone", shown |-> 0]
    /\ engine' = engine

\* The former manager is closed, and its data channel with it.
setupWebRTC(isInitiator) ==
    /\ manager' = [initiator |-> isInitiator, listening |-> TRUE,
                   negotiating |-> FALSE, alone |-> flow = "alone", shown |-> 0]
    /\ engine' = Closed

\* Flows that will still go on: they await a fetch, or a socket that may open.
FlowsUnderway ==
    \/ fetching["create"] + fetching["join"] > 0
    \/ \E i \in 1..ws(signaling) : /\ signaling.sockets[i].state = "connecting"
                                   /\ signaling.sockets[i].waiter \in {"create", "join"}

FlowEnds(how) == flow' = IF flow = "alone" THEN how ELSE flow

\* The end of startCreateFlow, with client c and this.roomCode r.
EndCreate(c, r) ==
    /\ signaling' = join(c, r, "sender")
    /\ setupWebRTC(TRUE)
    /\ FlowEnds("done")

\* The end of joinExistingRoom: the room joined is what this.roomCode is now.
EndJoin(c, r) ==
    /\ signaling' = join(c, r, "receiver")
    /\ setupWebRTC(FALSE)
    /\ FlowEnds("done")

----------------------------------------------------------------------------
(* Sockets *)

\* What awaited socket i goes on, with client c.
Continue(waiter, c) ==
    \/ /\ waiter = "init"
       /\ online' = TRUE /\ installed' = TRUE
       /\ signaling' = c
       /\ UNCHANGED <<view, manager, engine, flow>>
    \/ /\ waiter = "timer"
       /\ online' = TRUE
       /\ signaling' = c
       /\ UNCHANGED <<installed, view, manager, engine, flow>>
    \/ /\ waiter = "create"
       /\ EndCreate(c, roomCode)
       /\ UNCHANGED <<online, installed, view>>
    \/ /\ waiter = "join"
       /\ EndJoin(c, roomCode)
       /\ view' = "dashboard"
       /\ UNCHANGED <<online, installed>>

SocketOpens(i) ==
    /\ signaling.sockets[i].state = "connecting"
    /\ Continue(signaling.sockets[i].waiter, onopen(signaling, i))
    /\ UNCHANGED <<timers, roomCode, role, filesSelected, fetching, created, flows, breaks, opens>>

\* Mutant: a connection that was not there before is not retried.
SocketCloses_OnceOnly(i) ==
    /\ signaling' = onclose(signaling, i)
    /\ IF installed THEN online' = FALSE /\ timers' = timers + (IF online THEN 1 ELSE 0)
       ELSE UNCHANGED <<online, timers>>

\* Mutant: the error event starts a timer too.
SocketCloses_TwoTimers(i) ==
    /\ signaling' = onclose(signaling, i)
    /\ IF installed THEN online' = FALSE /\ timers' = timers + 2
       ELSE UNCHANGED <<online, timers>>

\* onclose, and the 'close' handler of the page.
SocketCloses(i) ==
    /\ signaling' = onclose(signaling, i)
    /\ IF installed THEN online' = FALSE /\ timers' = timers + 1
       ELSE UNCHANGED <<online, timers>>

\* The connection attempt fails, for want of a server or a network: the flow that
\* awaits it is never heard of again.
SocketFails(i) ==
    /\ signaling.sockets[i].state = "connecting" /\ breaks < MaxBreaks
    /\ SocketCloses(i)
    /\ breaks' = breaks + 1
    /\ IF signaling.sockets[i].waiter \in {"create", "join"} THEN FlowEnds("stranded") ELSE UNCHANGED flow
    /\ UNCHANGED <<installed, roomCode, role, view, filesSelected, manager, engine, fetching, created, flows, opens>>

\* The connection is lost ...
SocketBreaks(i) ==
    /\ signaling.sockets[i].state = "open" /\ breaks < MaxBreaks
    /\ SocketCloses(i)
    /\ breaks' = breaks + 1
    /\ UNCHANGED <<installed, appVars, flows, opens>>

\* ... or the server closes it, and the close event follows later.
SocketClosing(i) ==
    /\ signaling.sockets[i].state = "open" /\ breaks < MaxBreaks
    /\ signaling' = closing(signaling, i)
    /\ breaks' = breaks + 1
    /\ UNCHANGED <<installed, timers, online, appVars, flows, opens>>

SocketClosed(i) ==
    /\ signaling.sockets[i].state = "closing"
    /\ SocketCloses(i)
    /\ UNCHANGED <<installed, appVars, flows, breaks, opens>>

\* Three seconds after a close event.
TimerFires ==
    /\ timers > 0
    /\ timers' = timers - 1
    /\ IF Resolved(signaling) THEN online' = TRUE /\ UNCHANGED signaling
       ELSE signaling' = connect(signaling, "timer") /\ UNCHANGED online
    /\ UNCHANGED <<installed, appVars, flows, breaks, opens>>

----------------------------------------------------------------------------
(* Flows *)

Starts(kind) ==
    /\ installed /\ flows < MaxFlows
    /\ flows' = flows + 1
    /\ fetching' = [fetching EXCEPT ![kind] = @ + 1]
    /\ flow' = IF FlowsUnderway THEN "mixed" ELSE "alone"
    /\ UNCHANGED <<signaling, installed, timers, online, view, filesSelected, manager, engine, created, breaks, opens>>

\* startCreateFlow, from the navigation bar or the landing page, up to its fetch.
startCreateFlow == Starts("create") /\ UNCHANGED <<roomCode, role>>

\* joinExistingRoom up to its fetch: the page names the room before it is verified.
joinExistingRoom(r) ==
    /\ view = "join"
    /\ Starts("join")
    /\ roomCode' = r /\ role' = "receiver"

Answered(kind) ==
    /\ fetching[kind] > 0
    /\ fetching' = [fetching EXCEPT ![kind] = @ - 1]
    /\ UNCHANGED <<installed, timers, online, filesSelected, flows, breaks, opens>>

\* Does a flow go on at once, or must it open a socket and await it?
GoesOn == signaling.isConnected \/ Resolved(signaling)

Awaits(kind) ==
    /\ signaling' = connect(signaling, kind)
    /\ UNCHANGED <<engine, flow>>

\* The room was created, and is shown.  Which fresh code it got does not matter.
RoomCreated ==
    LET r == CHOOSE r \in NewRooms \ created : TRUE
    IN  /\ Answered("create")
        /\ created # NewRooms
        /\ created' = created \cup {r}
        /\ roomCode' = r /\ role' = "sender" /\ view' = "create"
        /\ IF GoesOn THEN EndCreate(signaling, r)
           ELSE Awaits("create") /\ manager' = [manager EXCEPT !.shown = @ + 1]

\* The code the user entered may be joined.
RoomVerified ==
    /\ Answered("join")
    /\ IF GoesOn THEN EndJoin(signaling, roomCode) /\ view' = "dashboard"
       ELSE Awaits("join") /\ UNCHANGED <<view, manager>>
    /\ UNCHANGED <<roomCode, role, created>>

\* The server refuses, or cannot be reached: a toast, and nothing is restored.
Refused(kind) ==
    /\ Answered(kind)
    /\ FlowEnds("refused")
    /\ UNCHANGED <<signaling, roomCode, role, view, manager, engine, created>>

----------------------------------------------------------------------------
(* Views and files *)

\* The navigation bar and the back buttons, which work from the start.
ShowJoin ==
    /\ view # "join"
    /\ view' = "join"
    /\ UNCHANGED <<signaling, installed, timers, online, roomCode, role, filesSelected, manager, engine,
                   fetching, created, flow, flows, breaks, opens>>

\* handleFileSelection, and the Remove buttons of the list.
SelectFiles ==
    /\ view = "create"
    /\ filesSelected' = ~filesSelected
    /\ UNCHANGED <<signaling, installed, timers, online, roomCode, role, view, manager, engine,
                   fetching, created, flow, flows, breaks, opens>>

\* confirmSenderFiles over an open channel; otherwise it shows a toast.
confirmSenderFiles ==
    /\ installed /\ view = "create" /\ filesSelected /\ engine.open
    /\ view' = "dashboard"
    /\ engine' = [engine EXCEPT !.sending = @ + 1]
    /\ UNCHANGED <<signaling, installed, timers, online, roomCode, role, filesSelected, manager,
                   fetching, created, flow, flows, breaks, opens>>

----------------------------------------------------------------------------
(* The manager and its data channel *)

ManagerStep ==
    UNCHANGED <<signaling, installed, timers, online, roomCode, role, filesSelected,
                fetching, created, flow, flows, breaks>>

\* The server announces the peer, or the peer sends an offer: the connection starts
\* over.  Nobody asks whether the message is about the present room.
Negotiate ==
    /\ manager.listening /\ readyState(signaling) = "open"
    /\ signaling.sockets[ws(signaling)].room # None
    /\ manager' = [manager EXCEPT !.negotiating = TRUE]
    /\ engine' = Closed
    /\ ManagerStep /\ UNCHANGED <<view, opens>>

\* Mutant: the files are sent by whoever has selected some.
DataChannelOpens_AnyRole ==
    /\ manager.negotiating /\ opens < MaxOpens
    /\ opens' = opens + 1
    /\ manager' = [manager EXCEPT !.negotiating = FALSE]
    /\ engine' = [open |-> TRUE, sending |-> IF filesSelected THEN 1 ELSE 0]
    /\ view' = IF role = "sender" /\ ~filesSelected THEN view ELSE "dashboard"
    /\ ManagerStep

\* datachannel-open: a new engine, and the sender's files are sent at once.
DataChannelOpens ==
    /\ manager.negotiating /\ opens < MaxOpens
    /\ opens' = opens + 1
    /\ manager' = [manager EXCEPT !.negotiating = FALSE]
    /\ engine' = [open |-> TRUE, sending |-> IF role = "sender" /\ filesSelected THEN 1 ELSE 0]
    /\ view' = IF role = "sender" /\ ~filesSelected THEN view ELSE "dashboard"
    /\ ManagerStep

\* peer-left makes the manager close; the connection of the peers may also be lost.
PeerLeft ==
    /\ manager.listening /\ readyState(signaling) = "open"
    /\ manager' = [manager EXCEPT !.listening = FALSE, !.negotiating = FALSE]
    /\ engine' = Closed
    /\ ManagerStep /\ UNCHANGED <<view, opens>>

DataChannelLost ==
    /\ engine.open
    /\ engine' = Closed
    /\ ManagerStep /\ UNCHANGED <<manager, view, opens>>

\* A call of sendFiles is over, cancelled or failed.
SendingEnds ==
    /\ engine.sending > 0
    /\ engine' = [engine EXCEPT !.sending = @ - 1]
    /\ ManagerStep /\ UNCHANGED <<manager, view, opens>>

----------------------------------------------------------------------------
PageInit ==
    /\ signaling = connect(Client, "init")
    /\ installed = FALSE /\ timers = 0 /\ online = TRUE
    /\ roomCode = None /\ role = None /\ view = "join" /\ filesSelected = FALSE
    /\ manager = NoManager /\ engine = Closed
    /\ fetching = [kind \in {"create", "join"} |-> 0]
    /\ created = {} /\ flow = "none"
    /\ flows = 0 /\ breaks = 0 /\ opens = 0

SomeSocketOpens == \E i \in 1..ws(signaling) : SocketOpens(i)
SomeSocketClosed == \E i \in 1..ws(signaling) : SocketClosed(i)
FetchAnswered ==
    \/ RoomCreated \/ RoomVerified
    \/ \E kind \in {"create", "join"} : Refused(kind)

PageNext ==
    \/ SomeSocketOpens \/ SomeSocketClosed \/ TimerFires \/ FetchAnswered
    \/ \E i \in 1..ws(signaling) : SocketFails(i) \/ SocketBreaks(i) \/ SocketClosing(i)
    \/ startCreateFlow
    \/ \E r \in OldRooms \cup created : joinExistingRoom(r)
    \/ ShowJoin \/ SelectFiles \/ confirmSenderFiles
    \/ Negotiate \/ DataChannelOpens \/ PeerLeft \/ DataChannelLost \/ SendingEnds

PageSpec == PageInit /\ [][PageNext]_vars

\* Timers fire, a server that is asked answers, and a socket that neither opens nor
\* fails does not exist.  The sockets that fail are bounded: the server comes back.
FairPageSpec ==
    /\ PageSpec
    /\ WF_vars(SomeSocketOpens) /\ WF_vars(SomeSocketClosed)
    /\ WF_vars(TimerFires) /\ WF_vars(FetchAnswered)

----------------------------------------------------------------------------
(* Properties *)

Managers == [initiator : BOOLEAN, listening : BOOLEAN, negotiating : BOOLEAN, alone : BOOLEAN, shown : Nat]

\* Type invariant of the page and its client.
PageTypeOK ==
    /\ ClientTypeOK
    /\ {installed, online, filesSelected, engine.open} \subseteq BOOLEAN
    /\ timers \in 0..breaks
    /\ roomCode \in Rooms \cup {None} /\ role \in Roles \cup {None}
    /\ view \in {"create", "join", "dashboard"}
    /\ manager \in Managers
    /\ engine.sending \in Nat
    /\ fetching \in [{"create", "join"} -> 0..flows]
    /\ created \subseteq NewRooms
    /\ flow \in {"none", "alone", "mixed", "done", "refused", "stranded"}

\* A flow that had the page for itself leaves it in one room: page, client and
\* manager agree on the room and on who sends, and a page is the sender only of a
\* room it created, whatever sockets broke and opened meanwhile and since.
FlowLeavesOneRoom ==
    flow = "done" =>
        /\ roomCode = signaling.room /\ role = signaling.role
        /\ manager.initiator = (role = "sender")
        /\ role = "sender" => roomCode \in created

\* The channel opening and the Start button never both send on one engine, and what
\* sends is the page that created the room, so that its loop has the engine for
\* itself.  The code keeps this with two exceptions.  A room that is put on screen
\* while its socket is still to be opened brings the Start button back beside the
\* former manager (app.js:143-149): each such room may add one loop on that manager's
\* engine, the page of a receiver may then send, too, and it lasts until a flow
\* makes the next manager, which is never if the socket fails.  And a manager made by
\* a flow that another one overlapped need not go with the page's role.
OneBatchAsSender ==
    /\ engine.sending <= 1 + manager.shown
    /\ engine.sending > 0 /\ manager.alone /\ manager.shown = 0 => manager.initiator

\* Once the page has started, it ends up connected and says so, whatever timers and
\* flows do to the sockets, if the server can be reached again.
SettlesOnline == installed ~> [](readyState(signaling) = "open" /\ online)

\* A flow that has the page for itself gets its room joined on an open socket,
\* unless the server refuses or the socket that the flow itself opened fails.
FlowReachesItsRoom ==
    flow = "alone" ~>
        \/ /\ flow = "done" /\ readyState(signaling) = "open"
           /\ signaling.sockets[ws(signaling)].room = roomCode
           /\ signaling.sockets[ws(signaling)].role = role
        \/ flow \in {"refused", "stranded", "mixed"}

\* Claim (app.js:259, "Switch sender to dashboard and begin streaming selected
\* files"): when the channel of the page that created the room opens, files are
\* selected and no flow is under way, they are sent.  The code does not keep it: a
\* join that was refused leaves its role and room code in the page.
SenderStreams ==
    [][opens' > opens /\ ~FlowsUnderway /\ manager.initiator /\ filesSelected =>
          engine'.sending > 0]_vars

----------------------------------------------------------------------------
(* The argument behind FlowLeavesOneRoom and OneBatchAsSender. *)

\* A flow that has the page for itself is at its fetch or at its socket, and from the
\* moment on which its room is settled nobody else changes the room or the role.
FlowAlone ==
    flow = "alone" =>
        \/ fetching["create"] = 1 /\ fetching["join"] = 0 /\ Awaiting(signaling) = "none"
        \/ fetching["create"] = 0 /\ fetching["join"] = 1 /\ Awaiting(signaling) = "none" /\ role = "receiver"
        \/ /\ fetching["create"] = 0 /\ fetching["join"] = 0
           /\ \/ Awaiting(signaling) = "create" /\ role = "sender" /\ roomCode \in created
              \/ Awaiting(signaling) = "join" /\ role = "receiver"

\* When it is done, nothing is under way that could come after it.
FlowDone ==
    flow = "done" => fetching["create"] = 0 /\ fetching["join"] = 0 /\ Awaiting(signaling) = "none"

\* Whoever sends has left the view with the Start button, and comes back to it only
\* with another room on screen; and where no room was put on screen since the manager
\* was made, the view of a room, the role and the files on their way are the sender's
\* only if the manager is.
SenderSends ==
    /\ engine.sending <= manager.shown + (IF view = "create" THEN 0 ELSE 1)
    /\ manager.shown = 0 /\ view = "create" => manager.initiator
    /\ manager.shown = 0 /\ manager.alone /\ (role = "sender" \/ engine.sending > 0) => manager.initiator

AppTypeOK ==
    /\ roomCode \in Rooms \cup {None} /\ role \in Roles \cup {None} /\ created \subseteq NewRooms
    /\ view \in {"create", "join", "dashboard"}
    /\ manager \in Managers
    /\ engine \in [open : BOOLEAN, sending : Nat]
    /\ fetching \in [{"create", "join"} -> Nat]

FlowInv ==
    /\ ClientInv(signaling) /\ AppTypeOK
    /\ FlowAlone /\ FlowDone /\ FlowLeavesOneRoom /\ SenderSends

\* The argument behind PageTypeOK: a socket that failed or broke has started one
\* reconnect timer at most, and none while its close event is still to come; a flow
\* awaits one answer at most.
CountInv ==
    /\ {timers, breaks, flows} \subseteq Nat
    /\ timers + Cardinality(Leaving(signaling)) <= breaks
    /\ fetching["create"] + fetching["join"] <= flows
    /\ {installed, online, filesSelected} \subseteq BOOLEAN
    /\ flow \in {"none", "alone", "mixed", "done", "refused", "stranded"}

PageInv == FlowInv /\ CountInv
=============================================================================
