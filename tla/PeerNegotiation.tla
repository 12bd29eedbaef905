--------------------------- MODULE PeerNegotiation ---------------------------
(***************************************************************************)
(* The WebRTCManagers of static/js/webrtc.js in the two pages of a room:   *)
(* from the server's "peer-joined" through offer, answer and candidates to *)
(* an open data channel.                                                   *)
(*                                                                         *)
(* Between two awaits nothing else runs in a page.  Every await of the     *)
(* manager is on an operation of its RTCPeerConnection; the browser runs   *)
(* those of one connection one after another (the operations chain), and   *)
(* drops them when the connection is closed, so that an async function     *)
(* never resumes on another connection than the one it awaited.  ops is    *)
(* that chain; completing its head resumes the function.                   *)
(*                                                                         *)
(* An RTCPeerConnection is a number; a description is the number of the    *)
(* connection it came from.  The server is a relay that keeps the order of *)
(* messages to one page and drops what is sent to or by a page whose       *)
(* WebSocket is closed.                                                    *)
(***************************************************************************)
EXTENDS Naturals, Sequences, SequencesExt

CONSTANTS
    MaxAnnouncements,   \* bound: how often the server announces the pair
    MaxBreaks,          \* bound: how often a WebSocket breaks
    MaxCandidates       \* bound: candidates per connection

ASSUME NegotiationAssumption == {MaxAnnouncements, MaxBreaks, MaxCandidates} \subseteq Nat

VARIABLES
    mgr,            \* mgr[p]: the WebRTCManager of page p and its RTCPeerConnection
    inbox,          \* inbox[p]: signaling messages on their way to page p, in order
    online,         \* pages whose WebSocket is open and has joined the room
    announced,      \* how often the pair was announced (for the bound)
    breaks          \* how often a WebSocket broke (for the bound)

negotiationVars == <<mgr, inbox, online, announced, breaks>>

----------------------------------------------------------------------------
Pages == {"sender", "receiver"}
Other(p) == IF p = "sender" THEN "receiver" ELSE "sender"

\* The sender's manager is the initiator (app.js:153, 208).
isInitiator(p) == p = "sender"

Candidate(pc, n) == [type |-> "ice-candidate", pc |-> pc, n |-> n]
Offer(pc) == [type |-> "offer", pc |-> pc]
Answer(pc) == [type |-> "answer", pc |-> pc]
PeerJoined == [type |-> "peer-joined"]
PeerLeft == [type |-> "peer-left"]

NoConnection ==
    [listening |-> TRUE, pc |-> 0, made |-> 0, local |-> FALSE, remote |-> 0,
     gathered |-> 0, added |-> {}, queue |-> <<>>, ops |-> <<>>, open |-> FALSE]

\* The queue of early candidates is not emptied.
initializePeerConnection(m) ==
    [NoConnection EXCEPT !.pc = m.made + 1, !.made = m.made + 1, !.queue = m.queue]

Await(m, op) == [m EXCEPT !.ops = Append(@, op)]

\* Mutant: the connection is forgotten, and not closed.
close_Forgotten(m) == [m EXCEPT !.listening = FALSE, !.pc = 0]

\* The listeners are removed for good, and the connection is closed.
close(m) == [NoConnection EXCEPT !.listening = FALSE, !.made = m.made]

\* sendSignal and the server's relay.
Relay(p, m) ==
    IF online = Pages THEN [inbox EXCEPT ![Other(p)] = Append(@, m)] ELSE inbox

----------------------------------------------------------------------------
(* Messages from the server *)

Arrives(p, type) == inbox[p] # <<>> /\ Head(inbox[p]).type = type

\* Page p handles the message at the head of its inbox; its manager becomes m.
Handle(p, m) ==
    /\ mgr[p].listening
    /\ mgr' = [mgr EXCEPT ![p] = m]
    /\ inbox' = [inbox EXCEPT ![p] = Tail(@)]
    /\ UNCHANGED <<online, announced, breaks>>

\* The initiator starts over with a new connection, whatever the old one was doing.
HearPeerJoined(p) ==
    /\ Arrives(p, "peer-joined")
    /\ Handle(p, IF isInitiator(p)
                 THEN Await(initializePeerConnection(mgr[p]), [op |-> "createOffer"])
                 ELSE mgr[p])

\* Mutant: a page that has a connection ignores further offers.
HearOffer_FirstOnly(p) ==
    /\ Arrives(p, "offer")
    /\ Handle(p, IF mgr[p].pc # 0 THEN mgr[p]
                 ELSE Await(initializePeerConnection(mgr[p]),
                            [op |-> "setRemoteDescription", description |-> Head(inbox[p])]))

\* handleRemoteOffer up to its first await.
HearOffer(p) ==
    /\ Arrives(p, "offer")
    /\ Handle(p, Await(initializePeerConnection(mgr[p]),
                       [op |-> "setRemoteDescription", description |-> Head(inbox[p])]))

\* handleRemoteAnswer; without a connection it throws, and catches.
HearAnswer(p) ==
    /\ Arrives(p, "answer")
    /\ Handle(p, IF mgr[p].pc = 0 THEN mgr[p]
                 ELSE Await(mgr[p], [op |-> "setRemoteDescription", description |-> Head(inbox[p])]))

\* Mutant: candidates that come too early are thrown away.
HearCandidate_NotQueued(p) ==
    /\ Arrives(p, "ice-candidate")
    /\ Handle(p, IF mgr[p].pc # 0 /\ mgr[p].remote # 0
                 THEN Await(mgr[p], [op |-> "addIceCandidate", candidate |-> Head(inbox[p]), draining |-> FALSE])
                 ELSE mgr[p])

\* handleRemoteIceCandidate
HearCandidate(p) ==
    /\ Arrives(p, "ice-candidate")
    /\ Handle(p, IF mgr[p].pc # 0 /\ mgr[p].remote # 0
                 THEN Await(mgr[p], [op |-> "addIceCandidate", candidate |-> Head(inbox[p]), draining |-> FALSE])
                 ELSE [mgr[p] EXCEPT !.queue = Append(@, Head(inbox[p]))])

HearPeerLeft(p) == Arrives(p, "peer-left") /\ Handle(p, close(mgr[p]))

\* Nobody listens any more.
Unheard(p) ==
    /\ inbox[p] # <<>> /\ ~mgr[p].listening
    /\ inbox' = [inbox EXCEPT ![p] = Tail(@)]
    /\ UNCHANGED <<mgr, online, announced, breaks>>

----------------------------------------------------------------------------
(* Operations of the RTCPeerConnection *)

Pending(p, op) == mgr[p].ops # <<>> /\ Head(mgr[p].ops).op = op

Done(m) == [m EXCEPT !.ops = Tail(@)]

\* Operation at the head is over: the manager becomes m and nothing is sent.
Resume(p, m) ==
    /\ mgr' = [mgr EXCEPT ![p] = m]
    /\ UNCHANGED <<inbox, online, announced, breaks>>

\* Mutant: the candidates that waited are not added.
drainIceQueue_Skipped(p, m) ==
    IF isInitiator(p) THEN m ELSE Await(m, [op |-> "createAnswer"])

\* drainIceQueue, and what handleRemoteOffer and handleRemoteAnswer do after it.
drainIceQueue(p, m) ==
    CASE m.queue # <<>> ->
            Await([m EXCEPT !.queue = Tail(@)],
                  [op |-> "addIceCandidate", candidate |-> Head(m.queue), draining |-> TRUE])
      [] m.queue = <<>> /\ isInitiator(p) -> m
      [] m.queue = <<>> /\ ~isInitiator(p) -> Await(m, [op |-> "createAnswer"])

OfferCreated(p) ==
    /\ Pending(p, "createOffer")
    /\ Resume(p, Await(Done(mgr[p]), [op |-> "setLocalDescription", description |-> Offer(mgr[p].pc)]))

\* A remote answer is taken only while a local offer waits for it.
Acceptable(m, description) ==
    description.type = "answer" => m.local /\ m.remote = 0

RemoteDescriptionSet(p) ==
    LET description == Head(mgr[p].ops).description
    IN  /\ Pending(p, "setRemoteDescription") /\ Acceptable(mgr[p], description)
        /\ Resume(p, drainIceQueue(p, [Done(mgr[p]) EXCEPT !.remote = description.pc]))

\* The promise is rejected; the error is caught and reported.
RemoteDescriptionRefused(p) ==
    /\ Pending(p, "setRemoteDescription") /\ ~Acceptable(mgr[p], Head(mgr[p].ops).description)
    /\ Resume(p, Done(mgr[p]))

\* A candidate of another connection than the described one is refused.
CandidateAdded(p) ==
    LET op == Head(mgr[p].ops)
        m == [Done(mgr[p]) EXCEPT !.added = IF op.candidate.pc = mgr[p].remote THEN @ \cup {op.candidate.n} ELSE @]
    IN  /\ Pending(p, "addIceCandidate")
        /\ Resume(p, IF op.draining THEN drainIceQueue(p, m) ELSE m)

AnswerCreated(p) ==
    /\ Pending(p, "createAnswer")
    /\ Resume(p, Await(Done(mgr[p]), [op |-> "setLocalDescription", description |-> Answer(mgr[p].pc)]))

\* The offer or answer is set, and sent.
LocalDescriptionSet(p) ==
    /\ Pending(p, "setLocalDescription")
    /\ mgr' = [mgr EXCEPT ![p] = [Done(mgr[p]) EXCEPT !.local = TRUE]]
    /\ inbox' = Relay(p, Head(mgr[p].ops).description)
    /\ UNCHANGED <<online, announced, breaks>>

\* onicecandidate
CandidateGathered(p) ==
    /\ mgr[p].local /\ mgr[p].gathered < MaxCandidates
    /\ mgr' = [mgr EXCEPT ![p].gathered = @ + 1]
    /\ inbox' = Relay(p, Candidate(mgr[p].pc, mgr[p].gathered + 1))
    /\ UNCHANGED <<online, announced, breaks>>

\* The connections of the two pages hold each other's descriptions.
Matched ==
    /\ mgr["sender"].local /\ mgr["receiver"].local
    /\ mgr["sender"].remote = mgr["receiver"].pc
    /\ mgr["receiver"].remote = mgr["sender"].pc

\* onopen: matching connections find each other once one side has a candidate.
ChannelOpens(p) ==
    /\ Matched /\ \E q \in Pages : mgr[q].added # {}
    /\ ~mgr[p].open
    /\ mgr' = [mgr EXCEPT ![p].open = TRUE]
    /\ UNCHANGED <<inbox, online, announced, breaks>>

----------------------------------------------------------------------------
(* The server *)

\* peer-joined to both: after a join, and again when the other of two concurrent
\* joins, or a repeated one, finds both peers present.
Announce ==
    /\ online = Pages /\ announced < MaxAnnouncements
    /\ announced' = announced + 1
    /\ inbox' = [p \in Pages |-> Append(inbox[p], PeerJoined)]
    /\ UNCHANGED <<mgr, online, breaks>>

\* The WebSocket of a page breaks: the other one is told.
Break(p) ==
    /\ p \in online /\ breaks < MaxBreaks
    /\ breaks' = breaks + 1
    /\ online' = online \ {p}
    /\ inbox' = [q \in Pages |-> IF q = p THEN <<>>
                                 ELSE IF q \in online THEN Append(inbox[q], PeerLeft) ELSE inbox[q]]
    /\ UNCHANGED <<mgr, announced>>

\* onopen joins the remembered room again; the server may announce the pair.
Rejoin(p) ==
    /\ p \notin online
    /\ online' = online \cup {p}
    /\ UNCHANGED <<mgr, inbox, announced, breaks>>

----------------------------------------------------------------------------
NegotiationInit ==
    /\ mgr = [p \in Pages |-> NoConnection]
    /\ inbox = [p \in Pages |-> <<>>]
    /\ online = Pages
    /\ announced = 0 /\ breaks = 0

Hear(p) ==
    \/ HearPeerJoined(p) \/ HearOffer(p) \/ HearAnswer(p) \/ HearCandidate(p)
    \/ HearPeerLeft(p) \/ Unheard(p)

Complete(p) ==
    \/ OfferCreated(p) \/ RemoteDescriptionSet(p) \/ RemoteDescriptionRefused(p)
    \/ CandidateAdded(p) \/ AnswerCreated(p) \/ LocalDescriptionSet(p)

NegotiationNext ==
    \/ \E p \in Pages : Hear(p) \/ Complete(p) \/ CandidateGathered(p) \/ ChannelOpens(p)
    \/ \E p \in Pages : Break(p) \/ Rejoin(p)
    \/ Announce

NegotiationSpec == NegotiationInit /\ [][NegotiationNext]_negotiationVars

\* Messages arrive, operations of open connections complete, candidates are found.
FairNegotiationSpec ==
    /\ NegotiationSpec
    /\ \A p \in Pages :
          /\ WF_negotiationVars(Hear(p)) /\ WF_negotiationVars(Complete(p))
          /\ WF_negotiationVars(CandidateGathered(p)) /\ WF_negotiationVars(ChannelOpens(p))

----------------------------------------------------------------------------
(* Properties *)

Op(m) ==
    /\ m.op \in {"createOffer", "createAnswer", "setLocalDescription", "setRemoteDescription", "addIceCandidate"}
    /\ m.op = "addIceCandidate" => m.candidate.type = "ice-candidate" /\ m.draining \in BOOLEAN

\* Type invariant.  A manager without a connection has nothing of one.
NegotiationTypeOK ==
    /\ \A p \in Pages :
          /\ mgr[p].pc \in {0, mgr[p].made}
          /\ mgr[p].pc = 0 => mgr[p].ops = <<>> /\ mgr[p].added = {} /\ mgr[p].remote = 0 /\ ~mgr[p].open
          /\ mgr[p].remote \in 0..mgr[Other(p)].made
          /\ mgr[p].added \subseteq 1..MaxCandidates
          /\ \A k \in 1..Len(mgr[p].ops) : Op(mgr[p].ops[k])
          /\ \A k \in 1..Len(mgr[p].queue) : mgr[p].queue[k].type = "ice-candidate"
    /\ online \subseteq Pages
    /\ announced \in 0..MaxAnnouncements /\ breaks \in 0..MaxBreaks

\* Queued candidates do not stay behind: a connection that knows the remote
\* description, with no operation pending, has an empty queue.
NoCandidateStranded ==
    \A p \in Pages : mgr[p].remote # 0 /\ mgr[p].ops = <<>> => mgr[p].queue = <<>>

\* No candidate of the connection described by the remote description is lost,
\* whenever it arrives relative to the descriptions: it is added, or still queued,
\* being added or on its way, while no socket has broken (a broken one drops
\* candidates, too).
Underway(p) ==
    ToSet(inbox[p]) \cup ToSet(mgr[p].queue)
      \cup {op.candidate : op \in {o \in ToSet(mgr[p].ops) : o.op = "addIceCandidate"}}

NoCandidateLost ==
    breaks = 0 => \A p \in Pages :
        LET peer == mgr[Other(p)]
        IN  mgr[p].remote # 0 /\ mgr[p].remote = peer.pc =>
                \A n \in 1..peer.gathered : n \in mgr[p].added \/ Candidate(peer.pc, n) \in Underway(p)

\* Nothing is on its way or pending.
Quiet == \A p \in Pages : inbox[p] = <<>> /\ mgr[p].ops = <<>>

\* However often the pair is announced, the receiver ends with the connection that
\* answers the sender's current offer, while no socket has broken (a broken one drops
\* offers, and JoinedPeerIsOffered is about what comes after it).
ReceiverFollowsSender ==
    Quiet /\ breaks = 0 => mgr["receiver"].remote = mgr["sender"].pc

\* A pair that is announced once and not disturbed gets its data channel, in every
\* order in which operations complete and candidates arrive.
NegotiationCompletes ==
    announced = 1 ~> (\A p \in Pages : mgr[p].open) \/ announced > 1 \/ breaks > 0

\* Claim (README.md:107 ends the handshake with "WebRTC P2P DataChannel OPEN!"): when
\* the pair was announced, both pages stayed connected and signaling is over, the two
\* connections match.  The code does not keep it: an answer to the first offer that
\* arrives after a second peer-joined is set on the second connection.
AnnouncedPairMatches == Quiet /\ announced > 0 /\ breaks = 0 => Matched

\* Claim (webrtc.js:35): when the peer joins, the initiator creates and sends an
\* offer.  The code does not keep it: close(), called when the peer left, removes
\* the listeners, and nothing hears the peer join again.
JoinedPeerIsOffered ==
    [][Arrives("sender", "peer-joined") /\ inbox'["sender"] = Tail(inbox["sender"]) =>
          mgr'["sender"].made > mgr["sender"].made \/ "sender" \notin online']_negotiationVars

----------------------------------------------------------------------------
(* The argument behind the type invariant, NoCandidateStranded, NoCandidateLost   *)
(* and ReceiverFollowsSender: who sends what, that each connection is described    *)
(* once and before its candidates, and where a candidate can be.                   *)

Candidates == [type : {"ice-candidate"}, pc : Nat \ {0}, n : 1..MaxCandidates]
Descriptions == [type : {"offer", "answer"}, pc : Nat \ {0}]
Signals == {PeerJoined, PeerLeft} \cup Descriptions \cup Candidates

Operations ==
    [op : {"createOffer", "createAnswer"}]
      \cup [op : {"setLocalDescription", "setRemoteDescription"}, description : Descriptions]
      \cup [op : {"addIceCandidate"}, candidate : Candidates, draining : BOOLEAN]

Manager ==
    [listening : BOOLEAN, pc : Nat, made : Nat, local : BOOLEAN, remote : Nat,
     gathered : 0..MaxCandidates, added : SUBSET (1..MaxCandidates),
     queue : Seq(Candidates), ops : Seq(Operations), open : BOOLEAN]

\* Page p sends descriptions of one type, the other page those of the other.
Describing(p) == IF isInitiator(p) THEN "offer" ELSE "answer"

\* The message b describes connection c; or it is one of its candidates.
Describes(b, c) == b.type \in {"offer", "answer"} /\ b.pc = c
About(b, c) == b.type \in {"offer", "answer", "ice-candidate"} /\ b.pc = c

SetsRemote(o) == o.op = "setRemoteDescription"
Adds(o) == o.op = "addIceCandidate"
Drains(o) == Adds(o) /\ o.draining

\* The operations that lead page p to its local description, one after the other.
Leads(p, o) ==
    \/ o.op \in {"createOffer", "createAnswer", "setLocalDescription"}
    \/ ~isInitiator(p) /\ (SetsRemote(o) \/ Drains(o))

OneLeads(p, ops) ==
    \A j, k \in 1..Len(ops) : Leads(p, ops[j]) /\ Leads(p, ops[k]) => j = k

NoneLeads(p, ops) == \A o \in ToSet(ops) : ~Leads(p, o)

\* An operation of manager m of page p, whose peer has made so many connections.
Proper(p, m, made, o) ==
    /\ o.op = "createOffer" => isInitiator(p)
    /\ o.op = "createAnswer" => ~isInitiator(p)
    /\ o.op = "setLocalDescription" => o.description = [type |-> Describing(p), pc |-> m.pc]
    /\ SetsRemote(o) => o.description.type = Describing(Other(p)) /\ o.description.pc <= made
    /\ SetsRemote(o) /\ ~isInitiator(p) => m.remote = 0
    /\ Adds(o) => m.remote # 0 /\ o.candidate.pc <= made

ManagerInv(p, m, made) ==
    /\ m.pc \in {0, m.made} /\ m.remote <= made
    /\ m.pc = 0 => m.ops = <<>> /\ m.added = {} /\ m.remote = 0 /\ ~m.open /\ ~m.local
    /\ m.gathered > 0 => m.local
    /\ \A b \in ToSet(m.queue) : b.pc <= made
    /\ \A o \in ToSet(m.ops) : Proper(p, m, made, o)
    /\ OneLeads(p, m.ops)
    /\ m.local => NoneLeads(p, m.ops)

\* Somebody takes care of the candidates that wait.
QueueInv(m) == m.remote # 0 /\ m.queue # <<>> => \E o \in ToSet(m.ops) : Drains(o)

\* What is on its way to page p has been sent by a peer that has made so many connections.
InboxInv(p, box, made) ==
    \A b \in ToSet(box) :
        /\ b.type \in {"offer", "answer", "ice-candidate"} => b.pc <= made
        /\ b.type \in {"offer", "answer"} => b.type = Describing(Other(p))

\* Candidates that manager m has still to add, and descriptions that it has still to set.
ToAdd(m) == ToSet(m.queue) \cup {op.candidate : op \in {o \in ToSet(m.ops) : Adds(o)}}
ToSetRemote(m) == {op.description : op \in {o \in ToSet(m.ops) : SetsRemote(o)}}

\* Manager m has heard something about connection c that still matters to it.
Reached(m, c) == m.remote = c \/ \E b \in ToAdd(m) \cup ToSetRemote(m) : b.pc = c

\* Manager m has added candidate n of connection c, or will do so.
Holds(m, c, n) == (m.remote = c /\ n \in m.added) \/ Candidate(c, n) \in ToAdd(m)

\* Manager m is not going to be described connection c.
Missed(m, c) == m.remote # c /\ (m.remote = 0 => \A d \in ToSetRemote(m) : d.pc # c)

\* Between the current connection of peer and manager m, which has these messages to
\* hear: the connection's description comes once, and before its candidates; each of
\* these is on its way or held, or came too late for any use.
Ordered(box, m, peer) ==
    LET c == peer.pc
    IN  c # 0 =>
          /\ ~peer.local => ~Reached(m, c) /\ \A b \in ToSet(box) : ~About(b, c)
          /\ \A k \in 1..Len(box) : Describes(box[k], c) =>
                ~Reached(m, c) /\ \A j \in 1..(k - 1) : ~About(box[j], c)
          /\ \A n \in 1..peer.gathered :
                \/ Candidate(c, n) \in ToSet(box)
                \/ Holds(m, c, n)
                \/ Missed(m, c) /\ \A b \in ToSet(box) : ~Describes(b, c)

\* Manager s is making an offer.
Offering(s) == \E o \in ToSet(s.ops) : o.op \in {"createOffer", "setLocalDescription"}

\* Manager r is set, or being set, to connection c and no other.
Settled(r, c) == (\A d \in ToSetRemote(r) : d.pc = c) /\ (r.remote = c \/ ToSetRemote(r) # {})

\* The offer of the sender's manager s is being made, or is the last one on its way to
\* the receiver's manager r, or is what r follows.
Follows(box, s, r) ==
    \/ Offering(s)
    \/ \E k \in 1..Len(box) :
          /\ box[k].type = "offer" /\ box[k].pc = s.pc
          /\ \A j \in (k + 1)..Len(box) : box[j].type # "offer"
    \/ (\A b \in ToSet(box) : b.type # "offer") /\ Settled(r, s.pc)

\* While no WebSocket has broken.
Undisturbed ==
    /\ online = Pages
    /\ \A p \in Pages : /\ mgr[p].listening
                        /\ \A b \in ToSet(inbox[p]) : b.type # "peer-left"
                        /\ Ordered(inbox[p], mgr[p], mgr[Other(p)])
    /\ Follows(inbox["receiver"], mgr["sender"], mgr["receiver"])

NegotiationInv ==
    /\ mgr \in [Pages -> Manager] /\ inbox \in [Pages -> Seq(Signals)]
    /\ online \subseteq Pages /\ announced \in 0..MaxAnnouncements /\ breaks \in 0..MaxBreaks
    /\ \A p \in Pages : /\ ManagerInv(p, mgr[p], mgr[Other(p)].made) /\ QueueInv(mgr[p])
                        /\ InboxInv(p, inbox[p], mgr[Other(p)].made)
    /\ breaks = 0 => Undisturbed
=============================================================================
