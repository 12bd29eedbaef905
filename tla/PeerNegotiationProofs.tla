------------------------ MODULE PeerNegotiationProofs ------------------------
(***************************************************************************)
(* Theorems about PeerNegotiation: its types, that no candidate is         *)
(* stranded or lost, and that the receiver follows the sender, from the    *)
(* invariant NegotiationInv.  First what the operators on a manager do,    *)
(* then how its step looks from the other page, then the actions.          *)
(***************************************************************************)
EXTENDS PeerNegotiation, TLAPS

----------------------------------------------------------------------------
(* Sequences *)

LEMMA Appended ==
    ASSUME NEW S, NEW q \in Seq(S), NEW x \in S
    PROVE  /\ Append(q, x) \in Seq(S) /\ Append(q, x) # <<>>
           /\ Len(q) \in Nat /\ Len(Append(q, x)) = Len(q) + 1
           /\ \A k \in 1..Len(q) : Append(q, x)[k] = q[k]
           /\ Append(q, x)[Len(q) + 1] = x
           /\ ToSet(Append(q, x)) = ToSet(q) \cup {x}
<1>1. /\ Append(q, x) \in Seq(S) /\ Append(q, x) # <<>>
      /\ Len(q) \in Nat /\ Len(Append(q, x)) = Len(q) + 1
      /\ DOMAIN q = 1..Len(q) /\ DOMAIN Append(q, x) = 1..(Len(q) + 1)
      /\ \A k \in 1..Len(q) : Append(q, x)[k] = q[k]
      /\ Append(q, x)[Len(q) + 1] = x
    OBVIOUS
<1>2. ToSet(Append(q, x)) = ToSet(q) \cup {x}
    <2>1. \A k : k \in 1..(Len(q) + 1) <=> k \in 1..Len(q) \/ k = Len(q) + 1
        BY <1>1
    <2> HIDE DEF ToSet
    <2> QED
        BY <1>1, <2>1 DEF ToSet
<1> QED
    BY <1>1, <1>2

LEMMA Beheaded ==
    ASSUME NEW S, NEW q \in Seq(S), q # <<>>
    PROVE  /\ Len(q) \in Nat \ {0} /\ 1 \in 1..Len(q) /\ Head(q) = q[1] /\ q[1] \in S
           /\ Tail(q) \in Seq(S) /\ Len(Tail(q)) = Len(q) - 1
           /\ \A k \in 1..(Len(q) - 1) : Tail(q)[k] = q[k + 1] /\ k + 1 \in 1..Len(q)
           /\ ToSet(q) = {q[1]} \cup ToSet(Tail(q))
<1>1. /\ Len(q) \in Nat \ {0} /\ 1 \in 1..Len(q) /\ Head(q) = q[1] /\ q[1] \in S
      /\ Tail(q) \in Seq(S) /\ Len(Tail(q)) = Len(q) - 1
      /\ DOMAIN q = 1..Len(q) /\ DOMAIN Tail(q) = 1..(Len(q) - 1)
      /\ \A k \in 1..(Len(q) - 1) : Tail(q)[k] = q[k + 1] /\ k + 1 \in 1..Len(q)
    OBVIOUS
<1>2. ToSet(q) = {q[1]} \cup ToSet(Tail(q))
    <2>1. \A k \in 1..Len(q) : k = 1 \/ (k - 1 \in 1..(Len(q) - 1) /\ q[k] = Tail(q)[k - 1])
        BY <1>1
    <2>2. ToSet(q) = {q[k] : k \in 1..Len(q)} /\ ToSet(Tail(q)) = {Tail(q)[k] : k \in 1..(Len(q) - 1)}
        BY <1>1 DEF ToSet
    <2>3. ToSet(q) \subseteq {q[1]} \cup ToSet(Tail(q))
        BY <2>1, <2>2
    <2>4. {q[1]} \cup ToSet(Tail(q)) \subseteq ToSet(q)
        BY <1>1, <2>2
    <2> QED
        BY <2>3, <2>4
<1> QED
    BY <1>1, <1>2

LEMMA Listed ==
    ASSUME NEW S, NEW q \in Seq(S)
    PROVE  /\ ToSet(q) \subseteq S /\ ToSet(<<>>) = {}
           /\ Len(q) \in Nat
           /\ \A k \in 1..Len(q) : q[k] \in ToSet(q)
           /\ \A x \in ToSet(q) : \E k \in 1..Len(q) : q[k] = x
BY DEF ToSet

----------------------------------------------------------------------------
(* Managers *)

LEMMA Fields ==
    ASSUME NEW m \in Manager
    PROVE  /\ m.listening \in BOOLEAN /\ m.pc \in Nat /\ m.made \in Nat /\ m.local \in BOOLEAN
           /\ m.remote \in Nat /\ m.gathered \in 0..MaxCandidates /\ m.added \subseteq 1..MaxCandidates
           /\ m.queue \in Seq(Candidates) /\ m.ops \in Seq(Operations) /\ m.open \in BOOLEAN
           /\ ToSet(m.queue) \subseteq Candidates /\ ToSet(m.ops) \subseteq Operations
<1>1. /\ m.listening \in BOOLEAN /\ m.pc \in Nat /\ m.made \in Nat /\ m.local \in BOOLEAN
      /\ m.remote \in Nat /\ m.gathered \in 0..MaxCandidates /\ m.added \subseteq 1..MaxCandidates
      /\ m.queue \in Seq(Candidates) /\ m.ops \in Seq(Operations) /\ m.open \in BOOLEAN
    BY DEF Manager
<1> QED
    BY <1>1, Listed

LEMMA OperationKinds ==
    ASSUME NEW o \in Operations
    PROVE  /\ o.op \in {"createOffer", "createAnswer", "setLocalDescription", "setRemoteDescription",
                        "addIceCandidate"}
           /\ o.op \in {"setLocalDescription", "setRemoteDescription"} => o.description \in Descriptions
           /\ o.op = "addIceCandidate" => o.candidate \in Candidates /\ o.draining \in BOOLEAN
BY DEF Operations

\* Manager x has the fields of m that no operation touches.
Alike(m, x) ==
    /\ x.listening = m.listening /\ x.pc = m.pc /\ x.made = m.made
    /\ x.gathered = m.gathered /\ x.open = m.open

LEMMA Awaited ==
    ASSUME NEW m \in Manager, NEW o \in Operations, NEW x, x = Await(m, o)
    PROVE  /\ x \in Manager /\ Alike(m, x) /\ x.ops = Append(m.ops, o) /\ x.ops # <<>>
           /\ x.local = m.local /\ x.remote = m.remote /\ x.added = m.added /\ x.queue = m.queue
<1>1. Append(m.ops, o) \in Seq(Operations) /\ Append(m.ops, o) # <<>>
    BY Fields, Appended
<1>2. /\ x \in Manager /\ Alike(m, x) /\ x.ops = Append(m.ops, o)
      /\ x.local = m.local /\ x.remote = m.remote /\ x.added = m.added /\ x.queue = m.queue
    BY <1>1 DEF Manager, Await, Alike
<1> QED
    BY <1>1, <1>2

LEMMA AwaitedOps ==
    ASSUME NEW m \in Manager, NEW o \in Operations, NEW x, x = Await(m, o)
    PROVE  ToSet(x.ops) = ToSet(m.ops) \cup {o}
<1>1. ToSet(Append(m.ops, o)) = ToSet(m.ops) \cup {o}
    BY Fields, Appended
<1> QED
    BY <1>1, Awaited

LEMMA AwaitedSignals ==
    ASSUME NEW m \in Manager, NEW o \in Operations, NEW x, x = Await(m, o)
    PROVE  /\ Adds(o) => ToAdd(x) = ToAdd(m) \cup {o.candidate}
           /\ ~Adds(o) => ToAdd(x) = ToAdd(m)
           /\ SetsRemote(o) => ToSetRemote(x) = ToSetRemote(m) \cup {o.description}
           /\ ~SetsRemote(o) => ToSetRemote(x) = ToSetRemote(m)
<1>1. ToSet(x.ops) = ToSet(m.ops) \cup {o} /\ ToSet(x.queue) = ToSet(m.queue)
    BY Awaited, AwaitedOps
<1>2. Adds(o) => ToAdd(x) = ToAdd(m) \cup {o.candidate}
    BY <1>1 DEF ToAdd
<1>3. ~Adds(o) => ToAdd(x) = ToAdd(m)
    BY <1>1 DEF ToAdd
<1>4. SetsRemote(o) => ToSetRemote(x) = ToSetRemote(m) \cup {o.description}
    BY <1>1 DEF ToSetRemote
<1>5. ~SetsRemote(o) => ToSetRemote(x) = ToSetRemote(m)
    BY <1>1 DEF ToSetRemote
<1> QED
    BY <1>2, <1>3, <1>4, <1>5

LEMMA Popped ==
    ASSUME NEW m \in Manager, m.ops # <<>>, NEW x, x = Done(m)
    PROVE  /\ x \in Manager /\ Alike(m, x) /\ x.ops = Tail(m.ops)
           /\ x.local = m.local /\ x.remote = m.remote /\ x.added = m.added /\ x.queue = m.queue
<1>1. Tail(m.ops) \in Seq(Operations)
    BY Fields, Beheaded
<1>2. /\ x \in Manager /\ Alike(m, x) /\ x.ops = Tail(m.ops)
      /\ x.local = m.local /\ x.remote = m.remote /\ x.added = m.added /\ x.queue = m.queue
    BY <1>1 DEF Manager, Done, Alike
<1> QED
    BY <1>1, <1>2

LEMMA PoppedOps ==
    ASSUME NEW m \in Manager, m.ops # <<>>, NEW o, o = Head(m.ops), NEW x, x = Done(m)
    PROVE  o \in Operations /\ ToSet(m.ops) = {o} \cup ToSet(x.ops)
<1>1. o \in Operations /\ o = m.ops[1] /\ ToSet(m.ops) = {m.ops[1]} \cup ToSet(Tail(m.ops))
    BY Fields, Beheaded
<1> QED
    BY <1>1, Popped

LEMMA PoppedSignals ==
    ASSUME NEW m \in Manager, m.ops # <<>>, NEW o, o = Head(m.ops), NEW x, x = Done(m)
    PROVE  /\ Adds(o) => ToAdd(m) = ToAdd(x) \cup {o.candidate}
           /\ ~Adds(o) => ToAdd(x) = ToAdd(m)
           /\ SetsRemote(o) => ToSetRemote(m) = ToSetRemote(x) \cup {o.description}
           /\ ~SetsRemote(o) => ToSetRemote(x) = ToSetRemote(m)
<1>1. ToSet(m.ops) = {o} \cup ToSet(x.ops) /\ ToSet(x.queue) = ToSet(m.queue)
    BY Popped, PoppedOps
<1>2. Adds(o) => ToAdd(m) = ToAdd(x) \cup {o.candidate}
    BY <1>1 DEF ToAdd
<1>3. ~Adds(o) => ToAdd(x) = ToAdd(m)
    BY <1>1 DEF ToAdd
<1>4. SetsRemote(o) => ToSetRemote(m) = ToSetRemote(x) \cup {o.description}
    BY <1>1 DEF ToSetRemote
<1>5. ~SetsRemote(o) => ToSetRemote(x) = ToSetRemote(m)
    BY <1>1 DEF ToSetRemote
<1> QED
    BY <1>2, <1>3, <1>4, <1>5

LEMMA Initialized ==
    ASSUME NEW m \in Manager, NEW x, x = initializePeerConnection(m)
    PROVE  /\ x \in Manager /\ x.ops = <<>> /\ ToSet(x.ops) = {}
           /\ x.listening /\ x.pc = m.made + 1 /\ x.made = m.made + 1 /\ ~x.local
           /\ x.remote = 0 /\ x.gathered = 0 /\ x.added = {} /\ x.queue = m.queue /\ ~x.open
           /\ ToAdd(x) \subseteq ToAdd(m) /\ ToSetRemote(x) = {}
<1>1. /\ x.ops = <<>> /\ x.listening = TRUE /\ x.pc = m.made + 1 /\ x.made = m.made + 1 /\ x.local = FALSE
      /\ x.remote = 0 /\ x.gathered = 0 /\ x.added = {} /\ x.queue = m.queue /\ x.open = FALSE
      /\ x = [listening |-> TRUE, pc |-> m.made + 1, made |-> m.made + 1, local |-> FALSE, remote |-> 0,
              gathered |-> 0, added |-> {}, queue |-> m.queue, ops |-> <<>>, open |-> FALSE]
    BY DEF initializePeerConnection, NoConnection
<1>2. /\ m.made + 1 \in Nat /\ m.queue \in Seq(Candidates) /\ <<>> \in Seq(Operations)
      /\ 0 \in 0..MaxCandidates /\ {} \in SUBSET (1..MaxCandidates)
    BY Fields, NegotiationAssumption
<1>3. x \in Manager
    BY <1>1, <1>2 DEF Manager
<1>4. ToSet(x.ops) = {}
    BY <1>1 DEF ToSet
<1>5. ToAdd(x) \subseteq ToAdd(m) /\ ToSetRemote(x) = {}
    BY <1>1, <1>4 DEF ToAdd, ToSetRemote
<1> QED
    BY <1>1, <1>3, <1>4, <1>5

\* The candidate b is put into the queue.
LEMMA Queued ==
    ASSUME NEW m \in Manager, NEW b \in Candidates, NEW x, x = [m EXCEPT !.queue = Append(@, b)]
    PROVE  /\ x \in Manager /\ Alike(m, x) /\ x.ops = m.ops
           /\ x.local = m.local /\ x.remote = m.remote /\ x.added = m.added
           /\ ToSet(x.queue) = ToSet(m.queue) \cup {b}
           /\ ToAdd(x) = ToAdd(m) \cup {b} /\ ToSetRemote(x) = ToSetRemote(m)
<1>1. Append(m.queue, b) \in Seq(Candidates) /\ ToSet(Append(m.queue, b)) = ToSet(m.queue) \cup {b}
    BY Fields, Appended
<1>2. /\ x \in Manager /\ Alike(m, x) /\ x.ops = m.ops /\ x.queue = Append(m.queue, b)
      /\ x.local = m.local /\ x.remote = m.remote /\ x.added = m.added
    BY <1>1 DEF Manager, Alike
<1> QED
    BY <1>1, <1>2 DEF ToAdd, ToSetRemote

LEMMA Described ==
    ASSUME NEW m \in Manager, NEW c \in Nat, NEW x, x = [m EXCEPT !.remote = c]
    PROVE  /\ x \in Manager /\ Alike(m, x) /\ x.ops = m.ops
           /\ x.local = m.local /\ x.remote = c /\ x.added = m.added /\ x.queue = m.queue
           /\ ToAdd(x) = ToAdd(m) /\ ToSetRemote(x) = ToSetRemote(m)
BY DEF Manager, Alike, ToAdd, ToSetRemote

LEMMA Added ==
    ASSUME NEW m \in Manager, NEW A, A \subseteq 1..MaxCandidates, NEW x, x = [m EXCEPT !.added = A]
    PROVE  /\ x \in Manager /\ Alike(m, x) /\ x.ops = m.ops
           /\ x.local = m.local /\ x.remote = m.remote /\ x.added = A /\ x.queue = m.queue
           /\ ToAdd(x) = ToAdd(m) /\ ToSetRemote(x) = ToSetRemote(m)
BY DEF Manager, Alike, ToAdd, ToSetRemote

\* What drainIceQueue awaits: no candidate is forgotten.
LEMMA Drained ==
    ASSUME NEW m \in Manager, NEW p \in Pages, NEW x, x = drainIceQueue(p, m)
    PROVE  /\ x \in Manager /\ Alike(m, x)
           /\ x.local = m.local /\ x.remote = m.remote /\ x.added = m.added
           /\ ToAdd(x) = ToAdd(m) /\ ToSetRemote(x) = ToSetRemote(m)
           /\ ToSet(x.queue) \subseteq ToSet(m.queue)
           /\ \/ \E o \in Operations : /\ Drains(o) /\ o.candidate \in ToSet(m.queue)
                                       /\ x.ops = Append(m.ops, o)
              \/ isInitiator(p) /\ x.queue = <<>> /\ x.ops = m.ops
              \/ ~isInitiator(p) /\ x.queue = <<>> /\ x.ops = Append(m.ops, [op |-> "createAnswer"])
<1>1. CASE m.queue # <<>>
    <2> DEFINE o == [op |-> "addIceCandidate", candidate |-> Head(m.queue), draining |-> TRUE]
               y == [m EXCEPT !.queue = Tail(@)]
    <2>1. /\ Tail(m.queue) \in Seq(Candidates) /\ Head(m.queue) \in Candidates
          /\ ToSet(m.queue) = {Head(m.queue)} \cup ToSet(Tail(m.queue))
        BY <1>1, Fields, Beheaded
    <2>2. o \in Operations /\ Drains(o) /\ Adds(o) /\ ~SetsRemote(o) /\ o.candidate = Head(m.queue)
        BY <2>1 DEF Operations, Drains, Adds, SetsRemote
    <2>3. /\ y \in Manager /\ y.queue = Tail(m.queue) /\ y.ops = m.ops /\ Alike(m, y)
          /\ y.local = m.local /\ y.remote = m.remote /\ y.added = m.added
        BY <2>1 DEF Manager, Alike
    <2>4. x = Await(y, o) /\ y \in Manager /\ o \in Operations /\ Adds(o) /\ ~SetsRemote(o)
        BY <1>1, <2>2, <2>3 DEF drainIceQueue
    <2> HIDE DEF o, y
    <2>5. /\ x \in Manager /\ Alike(y, x) /\ x.ops = Append(y.ops, o)
          /\ x.local = y.local /\ x.remote = y.remote /\ x.added = y.added /\ x.queue = y.queue
          /\ ToAdd(x) = ToAdd(y) \cup {o.candidate} /\ ToSetRemote(x) = ToSetRemote(y)
        BY <2>4, Awaited, AwaitedSignals
    <2>6. ToAdd(m) = ToAdd(y) \cup {o.candidate} /\ ToSetRemote(m) = ToSetRemote(y)
        BY <2>1, <2>2, <2>3 DEF ToAdd, ToSetRemote
    <2>7. Alike(m, x)
        BY <2>3, <2>5 DEF Alike
    <2> QED
        BY <2>1, <2>2, <2>3, <2>5, <2>6, <2>7
<1>2. CASE m.queue = <<>> /\ isInitiator(p)
    <2>1. x = m
        BY <1>2 DEF drainIceQueue
    <2> QED
        BY <1>2, <2>1 DEF Alike
<1>3. CASE m.queue = <<>> /\ ~isInitiator(p)
    <2> DEFINE o == [op |-> "createAnswer"]
    <2>1. x = Await(m, o) /\ o \in Operations /\ ~Adds(o) /\ ~SetsRemote(o)
        BY <1>3 DEF drainIceQueue, Operations, Adds, SetsRemote
    <2> HIDE DEF o
    <2>2. /\ x \in Manager /\ x.ops = Append(m.ops, o) /\ x.queue = m.queue /\ Alike(m, x)
          /\ x.local = m.local /\ x.remote = m.remote /\ x.added = m.added
          /\ ToAdd(x) = ToAdd(m) /\ ToSetRemote(x) = ToSetRemote(m)
        BY <2>1, Awaited, AwaitedSignals
    <2> QED
        BY <1>3, <2>2 DEF o
<1> QED
    BY <1>1, <1>2, <1>3

LEMMA Localized ==
    ASSUME NEW m \in Manager, NEW x, x = [m EXCEPT !.local = TRUE]
    PROVE  /\ x \in Manager /\ Alike(m, x) /\ x.ops = m.ops
           /\ x.local /\ x.remote = m.remote /\ x.added = m.added /\ x.queue = m.queue
           /\ ToAdd(x) = ToAdd(m) /\ ToSetRemote(x) = ToSetRemote(m)
BY DEF Manager, Alike, ToAdd, ToSetRemote

LEMMA Closed ==
    ASSUME NEW m \in Manager, NEW x, x = close(m)
    PROVE  /\ x \in Manager /\ x.ops = <<>> /\ x.pc = 0 /\ x.made = m.made /\ ~x.local /\ x.remote = 0
           /\ x.gathered = 0 /\ x.added = {} /\ x.queue = <<>> /\ ~x.open
           /\ ToSet(x.ops) = {} /\ ToSet(x.queue) = {}
<1>1. /\ x.ops = <<>> /\ x.listening = FALSE /\ x.pc = 0 /\ x.made = m.made /\ x.local = FALSE
      /\ x.remote = 0 /\ x.gathered = 0 /\ x.added = {} /\ x.queue = <<>> /\ x.open = FALSE
      /\ x = [listening |-> FALSE, pc |-> 0, made |-> m.made, local |-> FALSE, remote |-> 0,
              gathered |-> 0, added |-> {}, queue |-> <<>>, ops |-> <<>>, open |-> FALSE]
    BY DEF close, NoConnection
<1>2. /\ m.made \in Nat /\ <<>> \in Seq(Candidates) /\ <<>> \in Seq(Operations) /\ 0 \in Nat
      /\ 0 \in 0..MaxCandidates /\ {} \in SUBSET (1..MaxCandidates)
    BY Fields, NegotiationAssumption
<1>3. x \in Manager
    BY <1>1, <1>2 DEF Manager
<1> QED
    BY <1>1, <1>3 DEF ToSet

LEMMA DrainedFields ==
    ASSUME NEW m \in Manager, NEW p \in Pages, NEW x, x = drainIceQueue(p, m)
    PROVE  /\ x \in Manager /\ Alike(m, x)
           /\ x.local = m.local /\ x.remote = m.remote /\ x.added = m.added
           /\ ToAdd(x) = ToAdd(m) /\ ToSetRemote(x) = ToSetRemote(m)
BY Drained

LEMMA DrainedOps ==
    ASSUME NEW m \in Manager, NEW p \in Pages, NEW x, x = drainIceQueue(p, m)
    PROVE  ToSet(m.ops) \subseteq ToSet(x.ops)
<1>1. [op |-> "createAnswer"] \in Operations
    BY DEF Operations
<1>2. \/ \E o \in Operations : x.ops = Append(m.ops, o)
      \/ x.ops = m.ops
    BY <1>1, Drained
<1>3. \A o \in Operations : ToSet(m.ops) \subseteq ToSet(Append(m.ops, o))
    BY Fields, Appended
<1> QED
    BY <1>2, <1>3

\* After a candidate of the queue the next one is due, after any other nothing.
LEMMA MaybeDrained ==
    ASSUME NEW m \in Manager, NEW p \in Pages, NEW x, NEW h,
           h.draining => x = drainIceQueue(p, m), ~h.draining => x = m
    PROVE  /\ x \in Manager /\ Alike(m, x)
           /\ x.local = m.local /\ x.remote = m.remote /\ x.added = m.added
           /\ ToAdd(x) = ToAdd(m) /\ ToSetRemote(x) = ToSetRemote(m) /\ ToSet(m.ops) \subseteq ToSet(x.ops)
<1>1. CASE x = drainIceQueue(p, m)
    BY <1>1, DrainedFields, DrainedOps
<1>2. CASE x = m
    BY <1>2 DEF Alike
<1> QED
    BY <1>1, <1>2

----------------------------------------------------------------------------
(* ManagerInv *)

LEMMA OneAtATime ==
    ASSUME NEW p \in Pages, NEW q \in Seq(Operations), OneLeads(p, q)
    PROVE  /\ q # <<>> => /\ OneLeads(p, Tail(q))
                          /\ Leads(p, Head(q)) => NoneLeads(p, Tail(q))
           /\ \A o \in Operations : ~Leads(p, o) \/ NoneLeads(p, q) => OneLeads(p, Append(q, o))
<1>1. ASSUME q # <<>>
      PROVE  OneLeads(p, Tail(q)) /\ (Leads(p, Head(q)) => NoneLeads(p, Tail(q)))
    <2>1. /\ Len(q) \in Nat \ {0} /\ 1 \in 1..Len(q) /\ Head(q) = q[1]
          /\ Len(Tail(q)) = Len(q) - 1 /\ Tail(q) \in Seq(Operations)
          /\ \A k \in 1..(Len(q) - 1) : Tail(q)[k] = q[k + 1] /\ k + 1 \in 1..Len(q)
        BY <1>1, Beheaded
    <2>2. \A j, k \in 1..(Len(q) - 1) : j \in Int /\ k \in Int /\ (j + 1 = k + 1 => j = k) /\ j + 1 # 1
        BY <2>1
    <2>3. OneLeads(p, Tail(q))
        BY <2>1, <2>2 DEF OneLeads
    <2>4. ASSUME Leads(p, Head(q)), NEW o \in ToSet(Tail(q)) PROVE ~Leads(p, o)
        <3> DEFINE t == Tail(q)
        <3>1. t \in Seq(Operations) /\ o \in ToSet(t)
            BY <2>1, <2>4
        <3> HIDE DEF t
        <3>2. \E k \in 1..Len(t) : t[k] = o
            BY <3>1, Listed
        <3>3. PICK k \in 1..Len(Tail(q)) : Tail(q)[k] = o
            BY <3>2 DEF t
        <3>4. k + 1 \in 1..Len(q) /\ k + 1 # 1 /\ q[k + 1] = o
            BY <2>1, <2>2, <3>3
        <3>5. Leads(p, q[k + 1]) /\ Leads(p, q[1]) => k + 1 = 1
            BY <2>1, <3>4 DEF OneLeads
        <3> QED
            BY <2>1, <2>4, <3>4, <3>5
    <2> QED
        BY <2>3, <2>4 DEF NoneLeads
<1>2. ASSUME NEW o \in Operations, ~Leads(p, o) \/ NoneLeads(p, q)
      PROVE  OneLeads(p, Append(q, o))
    <2>1. /\ Len(q) \in Nat /\ Len(Append(q, o)) = Len(q) + 1
          /\ \A k \in 1..Len(q) : Append(q, o)[k] = q[k] /\ q[k] \in ToSet(q)
          /\ Append(q, o)[Len(q) + 1] = o
        BY Appended, Listed
    <2>2. \A k \in 1..(Len(q) + 1) : k \in 1..Len(q) \/ k = Len(q) + 1
        BY <2>1
    <2> QED
        BY <1>2, <2>1, <2>2 DEF OneLeads, NoneLeads
<1> QED
    BY <1>1, <1>2

\* An operation is appended; candidates may leave the queue.
LEMMA AppendKeeps ==
    ASSUME NEW p \in Pages, NEW made \in Nat, NEW m \in Manager, ManagerInv(p, m, made), m.pc # 0,
           NEW o \in Operations, Proper(p, m, made, o), Leads(p, o) => NoneLeads(p, m.ops) /\ ~m.local,
           NEW x \in Manager, Alike(m, x), x.ops = Append(m.ops, o), x.local = m.local,
           x.remote = m.remote, x.added = m.added, ToSet(x.queue) \subseteq ToSet(m.queue)
    PROVE  ManagerInv(p, x, made)
<1>1. ToSet(x.ops) = ToSet(m.ops) \cup {o}
    BY Fields, Appended
<1>2. \A r \in ToSet(x.ops) : Proper(p, x, made, r)
    BY <1>1 DEF Proper, ManagerInv, Alike
<1>3. OneLeads(p, x.ops)
    <2>1. m.ops \in Seq(Operations) /\ OneLeads(p, m.ops)
        BY Fields DEF ManagerInv
    <2> QED
        BY <2>1, OneAtATime
<1>4. x.local => NoneLeads(p, x.ops)
    BY <1>1 DEF NoneLeads, ManagerInv
<1> QED
    BY <1>2, <1>3, <1>4 DEF ManagerInv, Alike

LEMMA AwaitKeeps ==
    ASSUME NEW p \in Pages, NEW made \in Nat, NEW m \in Manager, ManagerInv(p, m, made), m.pc # 0,
           NEW o \in Operations, Proper(p, m, made, o), Leads(p, o) => NoneLeads(p, m.ops) /\ ~m.local,
           NEW x, x = Await(m, o)
    PROVE  ManagerInv(p, x, made)
<1>1. /\ x \in Manager /\ Alike(m, x) /\ x.ops = Append(m.ops, o) /\ x.local = m.local
      /\ x.remote = m.remote /\ x.added = m.added /\ ToSet(x.queue) \subseteq ToSet(m.queue)
    BY Awaited, AwaitedOps, AwaitedSignals
<1> QED
    BY <1>1, AppendKeeps

LEMMA DoneKeeps ==
    ASSUME NEW p \in Pages, NEW made \in Nat, NEW m \in Manager, ManagerInv(p, m, made), m.ops # <<>>,
           NEW o, o = Head(m.ops), NEW x, x = Done(m)
    PROVE  /\ ManagerInv(p, x, made) /\ m.pc # 0
           /\ Proper(p, m, made, o) /\ (Leads(p, o) => NoneLeads(p, x.ops) /\ ~m.local)
<1>1. /\ x \in Manager /\ Alike(m, x) /\ x.ops = Tail(m.ops) /\ o \in Operations
      /\ x.local = m.local /\ x.remote = m.remote /\ x.added = m.added /\ x.queue = m.queue
      /\ ToSet(m.ops) = {o} \cup ToSet(x.ops)
    BY Popped, PoppedOps, PoppedSignals
<1>2. m.pc # 0 /\ Proper(p, m, made, o)
    BY <1>1 DEF ManagerInv
<1>3. OneLeads(p, x.ops) /\ (Leads(p, o) => NoneLeads(p, x.ops))
    <2>1. m.ops \in Seq(Operations) /\ OneLeads(p, m.ops)
        BY Fields DEF ManagerInv
    <2> QED
        BY <1>1, <2>1, OneAtATime
<1>4. \A r \in ToSet(x.ops) : Proper(p, x, made, r)
    BY <1>1 DEF Proper, ManagerInv, Alike
<1>5. (x.local => NoneLeads(p, x.ops)) /\ (Leads(p, o) => ~m.local)
    BY <1>1 DEF NoneLeads, ManagerInv
<1> QED
    BY <1>1, <1>2, <1>3, <1>4, <1>5 DEF ManagerInv, Alike

LEMMA InitializedKeeps ==
    ASSUME NEW p \in Pages, NEW made \in Nat, NEW m \in Manager, ManagerInv(p, m, made),
           NEW x, x = initializePeerConnection(m)
    PROVE  ManagerInv(p, x, made) /\ x.pc # 0 /\ NoneLeads(p, x.ops)
<1>1. /\ x \in Manager /\ x.ops = <<>> /\ ToSet(x.ops) = {}
      /\ x.pc = m.made + 1 /\ x.made = m.made + 1 /\ ~x.local
      /\ x.remote = 0 /\ x.gathered = 0 /\ x.added = {} /\ x.queue = m.queue /\ ~x.open
    BY Initialized
<1>2. m.made + 1 # 0
    BY Fields
<1>3. OneLeads(p, x.ops)
    BY <1>1 DEF OneLeads
<1> QED
    BY <1>1, <1>2, <1>3 DEF ManagerInv, NoneLeads

LEMMA QueuedKeeps ==
    ASSUME NEW p \in Pages, NEW made \in Nat, NEW m \in Manager, ManagerInv(p, m, made),
           NEW b \in Candidates, b.pc <= made, NEW x, x = [m EXCEPT !.queue = Append(@, b)]
    PROVE  ManagerInv(p, x, made)
<1>1. /\ x \in Manager /\ Alike(m, x) /\ x.ops = m.ops
      /\ x.local = m.local /\ x.remote = m.remote /\ x.added = m.added
      /\ ToSet(x.queue) = ToSet(m.queue) \cup {b}
    BY Queued
<1> QED
    BY <1>1 DEF ManagerInv, Proper, Alike

LEMMA DescribedKeeps ==
    ASSUME NEW p \in Pages, NEW made \in Nat, NEW m \in Manager, ManagerInv(p, m, made),
           m.remote = 0, m.pc # 0, ~isInitiator(p) => NoneLeads(p, m.ops),
           NEW c \in Nat, c <= made, c # 0, NEW x, x = [m EXCEPT !.remote = c]
    PROVE  ManagerInv(p, x, made)
<1>1. /\ x \in Manager /\ Alike(m, x) /\ x.ops = m.ops
      /\ x.local = m.local /\ x.remote = c /\ x.added = m.added /\ x.queue = m.queue
    BY Described
<1>2. \A o \in ToSet(x.ops) : Proper(p, x, made, o)
    BY <1>1 DEF ManagerInv, Proper, Alike, NoneLeads, Leads
<1> QED
    BY <1>1, <1>2 DEF ManagerInv, Alike

LEMMA AddedKeeps ==
    ASSUME NEW p \in Pages, NEW made \in Nat, NEW m \in Manager, ManagerInv(p, m, made), m.pc # 0,
           NEW A, A \subseteq 1..MaxCandidates, NEW x, x = [m EXCEPT !.added = A]
    PROVE  ManagerInv(p, x, made)
<1>1. /\ x \in Manager /\ Alike(m, x) /\ x.ops = m.ops
      /\ x.local = m.local /\ x.remote = m.remote /\ x.queue = m.queue
    BY Added
<1> QED
    BY <1>1 DEF ManagerInv, Proper, Alike

LEMMA DrainedKeeps ==
    ASSUME NEW p \in Pages, NEW made \in Nat, NEW m \in Manager, ManagerInv(p, m, made),
           m.pc # 0, m.remote # 0, ~isInitiator(p) => NoneLeads(p, m.ops) /\ ~m.local,
           NEW x, x = drainIceQueue(p, m)
    PROVE  ManagerInv(p, x, made) /\ QueueInv(x)
<1>1. /\ x \in Manager /\ Alike(m, x) /\ x.local = m.local /\ x.remote = m.remote /\ x.added = m.added
      /\ ToSet(x.queue) \subseteq ToSet(m.queue)
    BY Drained
<1>2. CASE \E o \in Operations : /\ Drains(o) /\ o.candidate \in ToSet(m.queue)
                                 /\ x.ops = Append(m.ops, o)
    <2>1. PICK o \in Operations : /\ Drains(o) /\ o.candidate \in ToSet(m.queue)
                                  /\ x.ops = Append(m.ops, o)
        BY <1>2
    <2>2. o.candidate.pc <= made
        BY <2>1 DEF ManagerInv
    <2>3. Proper(p, m, made, o)
        BY <2>1, <2>2 DEF Proper, Drains, Adds, SetsRemote
    <2>4. Leads(p, o) => NoneLeads(p, m.ops) /\ ~m.local
        BY <2>1 DEF Leads, Drains, Adds, SetsRemote
    <2>5. ManagerInv(p, x, made)
        BY <1>1, <2>1, <2>3, <2>4, AppendKeeps
    <2>6. o \in ToSet(x.ops)
        BY <2>1, Fields, Appended
    <2> QED
        BY <2>1, <2>5, <2>6 DEF QueueInv
<1>3. CASE isInitiator(p) /\ x.queue = <<>> /\ x.ops = m.ops
    BY <1>1, <1>3 DEF ManagerInv, Proper, Alike, QueueInv
<1>4. CASE ~isInitiator(p) /\ x.queue = <<>> /\ x.ops = Append(m.ops, [op |-> "createAnswer"])
    <2> DEFINE o == [op |-> "createAnswer"]
    <2>1. o \in Operations /\ Proper(p, m, made, o) /\ Leads(p, o)
        BY <1>4 DEF Operations, Proper, Leads, SetsRemote, Adds
    <2> HIDE DEF o
    <2>2. ManagerInv(p, x, made)
        BY <1>1, <1>4, <2>1, AppendKeeps DEF o
    <2> QED
        BY <1>4, <2>2 DEF QueueInv
<1> QED
    BY <1>2, <1>3, <1>4, Drained

LEMMA LocalizedKeeps ==
    ASSUME NEW p \in Pages, NEW made \in Nat, NEW m \in Manager, ManagerInv(p, m, made),
           m.pc # 0, NoneLeads(p, m.ops), NEW x, x = [m EXCEPT !.local = TRUE]
    PROVE  ManagerInv(p, x, made)
<1>1. /\ x \in Manager /\ Alike(m, x) /\ x.ops = m.ops
      /\ x.local /\ x.remote = m.remote /\ x.added = m.added /\ x.queue = m.queue
    BY Localized
<1> QED
    BY <1>1 DEF ManagerInv, Proper, Alike

LEMMA ClosedKeeps ==
    ASSUME NEW p \in Pages, NEW made \in Nat, NEW m \in Manager, ManagerInv(p, m, made), NEW x, x = close(m)
    PROVE  ManagerInv(p, x, made) /\ QueueInv(x)
<1>1. /\ x \in Manager /\ x.ops = <<>> /\ x.pc = 0 /\ x.made = m.made /\ ~x.local /\ x.remote = 0
      /\ x.gathered = 0 /\ x.added = {} /\ x.queue = <<>> /\ ~x.open
      /\ ToSet(x.ops) = {} /\ ToSet(x.queue) = {}
    BY Closed
<1> QED
    BY <1>1 DEF ManagerInv, QueueInv, OneLeads, NoneLeads

\* The peer has made another connection.
LEMMA MoreMade ==
    ASSUME NEW p \in Pages, NEW made \in Nat, NEW more \in Nat, made <= more,
           NEW m \in Manager, NEW box \in Seq(Signals)
    PROVE  /\ ManagerInv(p, m, made) => ManagerInv(p, m, more)
           /\ InboxInv(p, box, made) => InboxInv(p, box, more)
<1>1. /\ m.remote \in Nat
      /\ \A b \in ToSet(m.queue) : b.pc \in Nat
      /\ \A o \in ToSet(m.ops) : /\ SetsRemote(o) => o.description.pc \in Nat
                                 /\ Adds(o) => o.candidate.pc \in Nat
    <2>1. m.remote \in Nat /\ ToSet(m.queue) \subseteq Candidates /\ ToSet(m.ops) \subseteq Operations
        BY Fields
    <2> QED
        BY <2>1, OperationKinds DEF Candidates, Descriptions, SetsRemote, Adds
<1>2. \A b \in ToSet(box) : b.type \in {"offer", "answer", "ice-candidate"} => b.pc \in Nat
    <2>1. ToSet(box) \subseteq Signals
        BY Listed
    <2> QED
        BY <2>1 DEF Signals, Descriptions, Candidates, PeerJoined, PeerLeft
<1>3. ASSUME ManagerInv(p, m, made) PROVE ManagerInv(p, m, more)
    <2>1. \A o \in ToSet(m.ops) : Proper(p, m, more, o)
        BY <1>1, <1>3 DEF ManagerInv, Proper
    <2> QED
        BY <1>1, <1>3, <2>1 DEF ManagerInv
<1> QED
    BY <1>2, <1>3 DEF InboxInv

----------------------------------------------------------------------------
(* Ordered *)

\* From m to x the manager forgets nothing of connection c that it could still use.
Advances(m, x, c) ==
    /\ Reached(x, c) => Reached(m, c)
    /\ \A n \in 1..MaxCandidates : Holds(m, c, n) => Holds(x, c, n) \/ (Missed(x, c) /\ Reached(m, c))
    /\ Missed(m, c) => Missed(x, c)

\* What manager m that becomes x makes of message b, as far as connection c goes.
HearsOf(m, x, b, c) ==
    /\ About(b, c) \/ (Reached(x, c) => Reached(m, c))
    /\ \/ Describes(b, c)
       \/ /\ \A n \in 1..MaxCandidates : Holds(m, c, n) => Holds(x, c, n) \/ (Missed(x, c) /\ Reached(m, c))
          /\ Missed(m, c) => Missed(x, c)
    /\ \A n \in 1..MaxCandidates : b = Candidate(c, n) => Holds(x, c, n)

\* A manager hears the message at the head of its inbox.
LEMMA Heard ==
    ASSUME NEW m \in Manager, NEW x \in Manager, NEW peer \in Manager, NEW box \in Seq(Signals), box # <<>>,
           Ordered(box, m, peer), NEW c, c = peer.pc, NEW b, b = Head(box),
           c # 0 => HearsOf(m, x, b, c)
    PROVE  Ordered(Tail(box), x, peer)
<1> SUFFICES ASSUME c # 0
             PROVE  /\ ~peer.local => ~Reached(x, c) /\ \A s \in ToSet(Tail(box)) : ~About(s, c)
                    /\ \A k \in 1..Len(Tail(box)) : Describes(Tail(box)[k], c) =>
                          ~Reached(x, c) /\ \A j \in 1..(k - 1) : ~About(Tail(box)[j], c)
                    /\ \A n \in 1..peer.gathered :
                          \/ Candidate(c, n) \in ToSet(Tail(box))
                          \/ Holds(x, c, n)
                          \/ Missed(x, c) /\ \A s \in ToSet(Tail(box)) : ~Describes(s, c)
    BY DEF Ordered
<1>1. /\ Len(box) \in Nat \ {0} /\ 1 \in 1..Len(box) /\ b = box[1]
      /\ Tail(box) \in Seq(Signals) /\ Len(Tail(box)) = Len(box) - 1
      /\ \A k \in 1..(Len(box) - 1) : Tail(box)[k] = box[k + 1] /\ k + 1 \in 1..Len(box)
      /\ ToSet(box) = {b} \cup ToSet(Tail(box))
    BY Beheaded
<1>2. \A s \in ToSet(box) : \E k \in 1..Len(box) : box[k] = s
    BY Listed
<1>3. /\ ~peer.local => ~Reached(m, c) /\ \A s \in ToSet(box) : ~About(s, c)
      /\ \A k \in 1..Len(box) : Describes(box[k], c) =>
            ~Reached(m, c) /\ \A j \in 1..(k - 1) : ~About(box[j], c)
      /\ \A n \in 1..peer.gathered :
            \/ Candidate(c, n) \in ToSet(box)
            \/ Holds(m, c, n)
            \/ Missed(m, c) /\ \A s \in ToSet(box) : ~Describes(s, c)
    BY DEF Ordered
<1>4. ~peer.local => ~Reached(x, c) /\ \A s \in ToSet(Tail(box)) : ~About(s, c)
    BY <1>1, <1>3 DEF HearsOf
<1>5. ASSUME NEW k \in 1..Len(Tail(box)), Describes(Tail(box)[k], c)
      PROVE  ~Reached(x, c) /\ \A j \in 1..(k - 1) : ~About(Tail(box)[j], c)
    <2>1. /\ k \in 1..(Len(box) - 1) /\ k + 1 \in 1..Len(box) /\ Describes(box[k + 1], c)
          /\ k \in Nat /\ 1 \in 1..((k + 1) - 1)
        BY <1>1, <1>5
    <2>2. ~Reached(m, c) /\ \A j \in 1..((k + 1) - 1) : ~About(box[j], c)
        BY <1>3, <2>1
    <2>3. ~About(b, c)
        BY <1>1, <2>1, <2>2
    <2>4. \A j \in 1..(k - 1) : Tail(box)[j] = box[j + 1] /\ j + 1 \in 1..((k + 1) - 1)
        BY <1>1, <2>1
    <2> QED
        BY <2>2, <2>3, <2>4 DEF HearsOf
<1>6. Reached(m, c) => \A s \in ToSet(box) : ~Describes(s, c)
    BY <1>2, <1>3
<1>7. ASSUME NEW n \in 1..peer.gathered
      PROVE  \/ Candidate(c, n) \in ToSet(Tail(box))
             \/ Holds(x, c, n)
             \/ Missed(x, c) /\ \A s \in ToSet(Tail(box)) : ~Describes(s, c)
    <2>1. n \in 1..MaxCandidates
        BY Fields, NegotiationAssumption
    <2>2. CASE Candidate(c, n) \in ToSet(box)
        BY <1>1, <2>1, <2>2 DEF HearsOf
    <2>3. CASE Holds(m, c, n)
        <3>1. Reached(m, c)
            BY <2>3 DEF Holds, Reached, Candidate
        <3>2. \A s \in ToSet(box) : ~Describes(s, c)
            BY <1>6, <3>1
        <3> QED
            BY <1>1, <2>1, <2>3, <3>2 DEF HearsOf
    <2>4. CASE Missed(m, c) /\ \A s \in ToSet(box) : ~Describes(s, c)
        BY <1>1, <2>4 DEF HearsOf
    <2> QED
        BY <1>3, <2>2, <2>3, <2>4
<1> QED
    BY <1>4, <1>5, <1>7

\* A manager goes on, and hears nothing.
LEMMA Resumed ==
    ASSUME NEW m \in Manager, NEW x \in Manager, NEW peer \in Manager, NEW box \in Seq(Signals),
           Ordered(box, m, peer), peer.pc # 0 => Advances(m, x, peer.pc)
    PROVE  Ordered(box, x, peer)
<1> DEFINE c == peer.pc
<1> SUFFICES ASSUME c # 0 PROVE Ordered(box, x, peer)
    BY DEF Ordered
<1>1. /\ ~peer.local => ~Reached(m, c) /\ \A s \in ToSet(box) : ~About(s, c)
      /\ \A k \in 1..Len(box) : Describes(box[k], c) =>
            ~Reached(m, c) /\ \A j \in 1..(k - 1) : ~About(box[j], c)
      /\ \A n \in 1..peer.gathered :
            \/ Candidate(c, n) \in ToSet(box)
            \/ Holds(m, c, n)
            \/ Missed(m, c) /\ \A s \in ToSet(box) : ~Describes(s, c)
    BY DEF Ordered
<1>2. /\ Reached(x, c) => Reached(m, c)
      /\ \A n \in 1..MaxCandidates : Holds(m, c, n) => Holds(x, c, n) \/ (Missed(x, c) /\ Reached(m, c))
      /\ Missed(m, c) => Missed(x, c)
    BY DEF Advances
<1>3. Reached(m, c) => \A s \in ToSet(box) : ~Describes(s, c)
    <2>1. \A s \in ToSet(box) : \E k \in 1..Len(box) : box[k] = s
        BY Listed
    <2> QED
        BY <1>1, <2>1
<1>4. \A n \in 1..peer.gathered : n \in 1..MaxCandidates
    BY Fields, NegotiationAssumption
<1>5. \A n \in 1..peer.gathered :
            \/ Candidate(c, n) \in ToSet(box)
            \/ Holds(x, c, n)
            \/ Missed(x, c) /\ \A s \in ToSet(box) : ~Describes(s, c)
    BY <1>1, <1>2, <1>3, <1>4
<1> QED
    BY <1>1, <1>2, <1>5 DEF Ordered

\* The other page sends nothing of its connection.
LEMMA PeerAlike ==
    ASSUME NEW box, NEW m, NEW peer, NEW y, Ordered(box, m, peer),
           y.pc = peer.pc, y.local = peer.local, y.gathered = peer.gathered
    PROVE  Ordered(box, m, y)
BY DEF Ordered

LEMMA PeerAppends ==
    ASSUME NEW m, NEW peer, NEW box \in Seq(Signals), NEW b \in Signals, Ordered(box, m, peer),
           ~About(b, peer.pc)
    PROVE  Ordered(Append(box, b), m, peer)
<1>1. /\ Len(box) \in Nat /\ Len(Append(box, b)) = Len(box) + 1
      /\ \A k \in 1..Len(box) : Append(box, b)[k] = box[k]
      /\ Append(box, b)[Len(box) + 1] = b
      /\ ToSet(Append(box, b)) = ToSet(box) \cup {b}
    BY Appended
<1>2. ~Describes(b, peer.pc)
    BY DEF About, Describes
<1>3. \A k \in 1..(Len(box) + 1) : k = Len(box) + 1 \/ (k \in 1..Len(box) /\ \A j \in 1..(k - 1) : j \in 1..Len(box))
    BY <1>1
<1>4. ASSUME peer.pc # 0, NEW k \in 1..Len(Append(box, b)), Describes(Append(box, b)[k], peer.pc)
      PROVE  ~Reached(m, peer.pc) /\ \A j \in 1..(k - 1) : ~About(Append(box, b)[j], peer.pc)
    <2>1. /\ k \in 1..Len(box) /\ Append(box, b)[k] = box[k]
          /\ \A j \in 1..(k - 1) : Append(box, b)[j] = box[j]
        BY <1>1, <1>2, <1>3, <1>4
    <2> QED
        BY <1>4, <2>1 DEF Ordered
<1> QED
    BY <1>1, <1>2, <1>4 DEF Ordered

\* The other page has made a connection, of which nobody has heard.
LEMMA PeerFresh ==
    ASSUME NEW p \in Pages, NEW made \in Nat, NEW m \in Manager, ManagerInv(p, m, made),
           NEW box \in Seq(Signals), InboxInv(p, box, made), NEW y, y.pc = made + 1, y.gathered = 0
    PROVE  Ordered(box, m, y)
<1> DEFINE c == made + 1
<1>1. ~Reached(m, c)
    <2>1. m.remote # c
        BY Fields DEF ManagerInv
    <2>2. ToSet(m.queue) \subseteq Candidates /\ ToSet(m.ops) \subseteq Operations
        BY Fields
    <2>3. \A b \in ToSet(m.queue) : b.pc # c
        BY <2>2 DEF ManagerInv, Candidates
    <2>4. \A o \in ToSet(m.ops) : /\ Adds(o) => o.candidate.pc # c
                                  /\ SetsRemote(o) => o.description.pc # c
        BY <2>2, OperationKinds DEF ManagerInv, Proper, Candidates, Descriptions, Adds, SetsRemote
    <2> HIDE DEF c
    <2> QED
        BY <2>1, <2>3, <2>4 DEF Reached, ToAdd, ToSetRemote
<1>2. \A b \in ToSet(box) : ~About(b, c)
    <2>1. \A b \in ToSet(box) : b.type \in {"offer", "answer", "ice-candidate"} => b.pc \in Nat /\ b.pc <= made
        BY Listed DEF InboxInv, Signals, Descriptions, Candidates, PeerJoined, PeerLeft
    <2> QED
        BY <2>1 DEF About
<1>3. \A k \in 1..Len(box) : box[k] \in ToSet(box)
    BY Listed
<1>4. \A k \in 1..Len(box) : ~Describes(box[k], c)
    BY <1>2, <1>3 DEF Describes, About
<1> HIDE DEF c
<1> QED
    BY <1>1, <1>2, <1>4 DEF Ordered, c

\* The other page sends its description.
LEMMA PeerDescribes ==
    ASSUME NEW m, NEW peer, NEW y, NEW box \in Seq(Signals), NEW b \in Signals, Ordered(box, m, peer),
           ~peer.local, y.pc = peer.pc, y.local, y.gathered = 0
    PROVE  Ordered(Append(box, b), m, y)
<1> SUFFICES ASSUME peer.pc # 0 PROVE Ordered(Append(box, b), m, y)
    BY DEF Ordered
<1>1. ~Reached(m, peer.pc) /\ \A s \in ToSet(box) : ~About(s, peer.pc)
    BY DEF Ordered
<1>2. /\ Len(box) \in Nat /\ Len(Append(box, b)) = Len(box) + 1
      /\ \A k \in 1..Len(box) : Append(box, b)[k] = box[k] /\ box[k] \in ToSet(box)
    BY Appended, Listed
<1>3. \A k \in 1..(Len(box) + 1) : \A j \in 1..(k - 1) : j \in 1..Len(box)
    BY <1>2
<1>4. \A k \in 1..Len(Append(box, b)) : \A j \in 1..(k - 1) : ~About(Append(box, b)[j], peer.pc)
    BY <1>1, <1>2, <1>3
<1> QED
    BY <1>1, <1>4 DEF Ordered

\* The other page sends its next candidate.
LEMMA PeerGathers ==
    ASSUME NEW m, NEW peer \in Manager, NEW y, NEW box \in Seq(Signals), NEW b \in Signals, Ordered(box, m, peer),
           peer.local, y.pc = peer.pc, y.local, y.gathered = peer.gathered + 1,
           b = Candidate(peer.pc, peer.gathered + 1)
    PROVE  Ordered(Append(box, b), m, y)
<1> DEFINE c == peer.pc
<1> SUFFICES ASSUME c # 0 PROVE Ordered(Append(box, b), m, y)
    BY DEF Ordered
<1>1. /\ Len(box) \in Nat /\ Len(Append(box, b)) = Len(box) + 1
      /\ \A k \in 1..Len(box) : Append(box, b)[k] = box[k]
      /\ Append(box, b)[Len(box) + 1] = b
      /\ ToSet(Append(box, b)) = ToSet(box) \cup {b}
    BY Appended
<1>2. ~Describes(b, c)
    BY DEF Describes, Candidate
<1>3. \A k \in 1..(Len(box) + 1) : k = Len(box) + 1 \/ (k \in 1..Len(box) /\ \A j \in 1..(k - 1) : j \in 1..Len(box))
    BY <1>1
<1>4. ASSUME NEW k \in 1..Len(Append(box, b)), Describes(Append(box, b)[k], c)
      PROVE  ~Reached(m, c) /\ \A j \in 1..(k - 1) : ~About(Append(box, b)[j], c)
    <2>1. /\ k \in 1..Len(box) /\ Append(box, b)[k] = box[k]
          /\ \A j \in 1..(k - 1) : Append(box, b)[j] = box[j]
        BY <1>1, <1>2, <1>3, <1>4
    <2> QED
        BY <1>4, <2>1 DEF Ordered
<1>5. \A n \in 1..(peer.gathered + 1) : n \in 1..peer.gathered \/ Candidate(c, n) = b
    BY Fields
<1>6. \A n \in 1..(peer.gathered + 1) :
          \/ Candidate(c, n) \in ToSet(Append(box, b))
          \/ Holds(m, c, n)
          \/ Missed(m, c) /\ \A s \in ToSet(Append(box, b)) : ~Describes(s, c)
    BY <1>1, <1>2, <1>5 DEF Ordered
<1> QED
    BY <1>4, <1>6 DEF Ordered

----------------------------------------------------------------------------
(* Operations of the connection *)

LEMMA AdvancesTwice ==
    ASSUME NEW m, NEW y, NEW x, NEW c, Advances(m, y, c), Advances(y, x, c)
    PROVE  Advances(m, x, c)
BY DEF Advances

LEMMA AdvancesAlike ==
    ASSUME NEW m, NEW x, NEW c, x.remote = m.remote, m.added \subseteq x.added, ToAdd(x) = ToAdd(m),
           ToSetRemote(x) \subseteq ToSetRemote(m)
    PROVE  Advances(m, x, c)
BY DEF Advances, Reached, Holds, Missed

LEMMA AdvancesToNew ==
    ASSUME NEW m \in Manager, NEW x, x = initializePeerConnection(m), NEW c, c # 0
    PROVE  Advances(m, x, c) /\ Missed(x, c)
<1>1. x.remote = 0 /\ x.added = {} /\ ToAdd(x) \subseteq ToAdd(m) /\ ToSetRemote(x) = {}
    BY Initialized
<1>2. Missed(x, c)
    BY <1>1 DEF Missed
<1>3. Reached(x, c) => Reached(m, c)
    BY <1>1 DEF Reached
<1>4. \A n \in 1..MaxCandidates : Holds(m, c, n) => Reached(m, c)
    BY DEF Holds, Reached, Candidate
<1> QED
    BY <1>2, <1>3, <1>4 DEF Advances

LEMMA QueueAwaits ==
    ASSUME NEW m \in Manager, QueueInv(m), NEW o \in Operations, NEW x, x = Await(m, o)
    PROVE  QueueInv(x)
<1>1. x.remote = m.remote /\ x.queue = m.queue
    BY Awaited
<1>2. ToSet(x.ops) = ToSet(m.ops) \cup {o}
    BY AwaitedOps
<1> QED
    BY <1>1, <1>2 DEF QueueInv

LEMMA QueueDone ==
    ASSUME NEW m \in Manager, QueueInv(m), m.ops # <<>>, ~Drains(Head(m.ops)), NEW x, x = Done(m)
    PROVE  QueueInv(x)
BY Popped, PoppedOps, PoppedSignals DEF QueueInv

\* An operation of manager m is over, m becomes x, and nothing is sent.
Continues(p, m, x, made) ==
    /\ x \in Manager /\ Alike(m, x) /\ x.local = m.local
    /\ ManagerInv(p, x, made) /\ QueueInv(x)
    /\ \A c \in Nat \ {0} : Advances(m, x, c)
    /\ isInitiator(p) => (Offering(m) => Offering(x))
    /\ ~isInitiator(p) => \A c : Settled(m, c) => Settled(x, c)

\* An offer or answer was created and is now set.
LEMMA CreatedContinues ==
    ASSUME NEW p \in Pages, NEW made \in Nat, NEW m \in Manager, ManagerInv(p, m, made), QueueInv(m),
           m.ops # <<>>, Head(m.ops).op \in {"createOffer", "createAnswer"},
           NEW o \in Operations, o.op = "setLocalDescription", Proper(p, m, made, o),
           NEW y, y = Done(m), NEW x, x = Await(y, o)
    PROVE  Continues(p, m, x, made)
<1> DEFINE h == Head(m.ops)
<1>1. ~Adds(h) /\ ~SetsRemote(h) /\ ~Drains(h) /\ Leads(p, h)
    BY DEF Adds, SetsRemote, Drains, Leads
<1>2. /\ y \in Manager /\ Alike(m, y) /\ y.local = m.local /\ y.remote = m.remote /\ y.added = m.added
      /\ ToSet(m.ops) = {h} \cup ToSet(y.ops)
      /\ ToAdd(y) = ToAdd(m) /\ ToSetRemote(y) = ToSetRemote(m)
    BY <1>1, Popped, PoppedOps, PoppedSignals
<1>3. /\ ManagerInv(p, y, made) /\ m.pc # 0 /\ NoneLeads(p, y.ops) /\ ~m.local /\ QueueInv(y)
    BY <1>1, DoneKeeps, QueueDone
<1>4. ~Adds(o) /\ ~SetsRemote(o) /\ Proper(p, y, made, o)
    BY <1>2 DEF Adds, SetsRemote, Proper, Alike
<1>5. y \in Manager
    BY <1>2
<1>6. /\ x \in Manager /\ Alike(y, x) /\ x.local = y.local /\ x.remote = y.remote /\ x.added = y.added
      /\ ToAdd(x) = ToAdd(y) /\ ToSetRemote(x) = ToSetRemote(y)
    BY <1>4, <1>5, Awaited, AwaitedSignals
<1>12. ToSet(x.ops) = ToSet(y.ops) \cup {o}
    BY <1>5, AwaitedOps
<1>7. y.pc # 0 /\ ~y.local
    BY <1>2, <1>3 DEF Alike
<1>8. ManagerInv(p, x, made) /\ QueueInv(x)
    BY <1>3, <1>4, <1>5, <1>7, AwaitKeeps, QueueAwaits
<1>9. \A c \in Nat \ {0} : Advances(m, x, c)
    BY <1>2, <1>6, AdvancesAlike
<1>10. Alike(m, x)
    BY <1>2, <1>6 DEF Alike
<1>11. Offering(x) /\ \A c : Settled(m, c) => Settled(x, c)
    BY <1>2, <1>6, <1>12 DEF Offering, Settled
<1> QED
    BY <1>2, <1>6, <1>8, <1>9, <1>10, <1>11 DEF Continues

\* The remote description is set, and the candidates that waited for it are next.
LEMMA RemoteSetContinues ==
    ASSUME NEW p \in Pages, NEW made \in Nat, NEW m \in Manager, ManagerInv(p, m, made), QueueInv(m),
           m.ops # <<>>, SetsRemote(Head(m.ops)), NEW d, d = Head(m.ops).description, Acceptable(m, d),
           NEW x, x = drainIceQueue(p, [Done(m) EXCEPT !.remote = d.pc])
    PROVE  Continues(p, m, x, made)
<1> DEFINE h == Head(m.ops)
           y == Done(m)
           z == [Done(m) EXCEPT !.remote = d.pc]
<1>1. ~Adds(h) /\ ~Drains(h) /\ h.op = "setRemoteDescription"
    BY DEF Adds, SetsRemote, Drains
<1>2. /\ y \in Manager /\ Alike(m, y) /\ y.local = m.local /\ y.remote = m.remote /\ y.added = m.added
      /\ h \in Operations /\ ToSet(m.ops) = {h} \cup ToSet(y.ops)
      /\ ToAdd(y) = ToAdd(m) /\ ToSetRemote(m) = ToSetRemote(y) \cup {d}
    BY <1>1, Popped, PoppedOps, PoppedSignals
<1>3. /\ ManagerInv(p, y, made) /\ m.pc # 0 /\ Proper(p, m, made, h)
      /\ Leads(p, h) => NoneLeads(p, y.ops) /\ ~m.local
    BY DoneKeeps
<1>4. d \in Descriptions /\ d.pc \in Nat /\ d.pc # 0 /\ d.pc <= made
    BY <1>1, <1>2, <1>3, OperationKinds DEF Descriptions, Proper
<1>5. m.remote = 0
    BY <1>3 DEF Proper, Acceptable, Describing, Other, isInitiator, Pages
<1>6. ~isInitiator(p) => NoneLeads(p, y.ops) /\ ~y.local
    BY <1>2, <1>3 DEF Leads
<1>7. y.remote = 0 /\ y.pc # 0
    BY <1>2, <1>3, <1>5 DEF Alike
<1> HIDE DEF h, y
<1>8. z = [y EXCEPT !.remote = d.pc]
    BY DEF y
<1> HIDE DEF z
<1>9. /\ z \in Manager /\ Alike(y, z) /\ z.ops = y.ops /\ z.local = y.local /\ z.remote = d.pc
      /\ z.added = y.added /\ ToAdd(z) = ToAdd(y) /\ ToSetRemote(z) = ToSetRemote(y)
    BY <1>2, <1>4, <1>8, Described
<1>10. ManagerInv(p, z, made)
    BY <1>2, <1>3, <1>4, <1>6, <1>7, <1>8, DescribedKeeps
<1>11. z.pc # 0 /\ z.remote # 0 /\ (~isInitiator(p) => NoneLeads(p, z.ops) /\ ~z.local)
    BY <1>4, <1>6, <1>7, <1>9 DEF Alike
<1>12. x = drainIceQueue(p, z)
    BY DEF z
<1>13. ManagerInv(p, x, made) /\ QueueInv(x)
    BY <1>9, <1>10, <1>11, <1>12, DrainedKeeps
<1>14. /\ x \in Manager /\ Alike(z, x) /\ x.local = z.local /\ x.remote = z.remote /\ x.added = z.added
       /\ ToAdd(x) = ToAdd(z) /\ ToSetRemote(x) = ToSetRemote(z) /\ ToSet(z.ops) \subseteq ToSet(x.ops)
    BY <1>9, <1>12, DrainedFields, DrainedOps
<1>15. ASSUME NEW c \in Nat \ {0} PROVE Advances(m, x, c)
    <2>1. x.remote = d.pc /\ ToAdd(x) = ToAdd(m) /\ ToSetRemote(m) = ToSetRemote(x) \cup {d} /\ x.added = m.added
        BY <1>2, <1>9, <1>14
    <2>2. Reached(x, c) => Reached(m, c)
        BY <2>1 DEF Reached
    <2>3. \A n \in 1..MaxCandidates : Holds(m, c, n) => Holds(x, c, n)
        BY <1>5, <2>1 DEF Holds
    <2>4. Missed(m, c) => Missed(x, c)
        BY <1>4, <1>5, <2>1 DEF Missed
    <2> QED
        BY <2>2, <2>3, <2>4 DEF Advances
<1>16. \A c : Settled(m, c) => Settled(x, c)
    BY <1>2, <1>9, <1>14 DEF Settled
<1>17. Offering(m) => Offering(x)
    <2>1. \A o \in ToSet(m.ops) : o.op \in {"createOffer", "setLocalDescription"} => o \in ToSet(z.ops)
        BY <1>1, <1>2, <1>9
    <2> QED
        BY <1>14, <2>1 DEF Offering
<1>18. Alike(m, x) /\ x.local = m.local
    BY <1>2, <1>9, <1>14 DEF Alike
<1> QED
    BY <1>13, <1>14, <1>15, <1>16, <1>17, <1>18 DEF Continues

\* An answer that nobody waits for is refused.
LEMMA RefusedContinues ==
    ASSUME NEW p \in Pages, NEW made \in Nat, NEW m \in Manager, ManagerInv(p, m, made), QueueInv(m),
           m.ops # <<>>, SetsRemote(Head(m.ops)), ~Acceptable(m, Head(m.ops).description),
           NEW x, x = Done(m)
    PROVE  Continues(p, m, x, made)
<1> DEFINE h == Head(m.ops)
<1>1. ~Adds(h) /\ ~Drains(h) /\ h.op = "setRemoteDescription"
    BY DEF Adds, SetsRemote, Drains
<1>2. /\ x \in Manager /\ Alike(m, x) /\ x.local = m.local /\ x.remote = m.remote /\ x.added = m.added
      /\ ToSet(m.ops) = {h} \cup ToSet(x.ops)
      /\ ToAdd(x) = ToAdd(m) /\ ToSetRemote(x) \subseteq ToSetRemote(m)
    BY <1>1, Popped, PoppedOps, PoppedSignals
<1>3. ManagerInv(p, x, made) /\ QueueInv(x) /\ Proper(p, m, made, h)
    BY <1>1, DoneKeeps, QueueDone
<1>4. isInitiator(p)
    BY <1>3 DEF Proper, Acceptable, Describing, Other, isInitiator, Pages
<1>5. \A c \in Nat \ {0} : Advances(m, x, c)
    BY <1>2, AdvancesAlike
<1>6. Offering(m) => Offering(x)
    BY <1>1, <1>2 DEF Offering
<1> QED
    BY <1>2, <1>3, <1>4, <1>5, <1>6 DEF Continues

\* A candidate was added, or refused.
LEMMA CandidateTaken ==
    ASSUME NEW p \in Pages, NEW made \in Nat, NEW m \in Manager, ManagerInv(p, m, made), QueueInv(m),
           m.ops # <<>>, NEW h, h = Head(m.ops), Adds(h), NEW A, A \subseteq 1..MaxCandidates,
           NEW y, y = Done(m), NEW z, z = [y EXCEPT !.added = A]
    PROVE  /\ z \in Manager /\ Alike(m, z) /\ z.local = m.local /\ z.remote = m.remote /\ z.added = A
           /\ ToSet(m.ops) = {h} \cup ToSet(z.ops) /\ ToSetRemote(z) = ToSetRemote(m)
           /\ ToAdd(m) = ToAdd(z) \cup {h.candidate}
           /\ ManagerInv(p, z, made) /\ z.pc # 0 /\ z.remote # 0
           /\ ~isInitiator(p) /\ h.draining => NoneLeads(p, z.ops) /\ ~z.local
           /\ ~h.draining => QueueInv(z)
<1>1. ~SetsRemote(h) /\ h.op = "addIceCandidate"
    BY DEF Adds, SetsRemote
<1>2. /\ y \in Manager /\ Alike(m, y) /\ y.local = m.local /\ y.remote = m.remote
      /\ h \in Operations /\ ToSet(m.ops) = {h} \cup ToSet(y.ops)
      /\ ToSetRemote(y) = ToSetRemote(m) /\ ToAdd(m) = ToAdd(y) \cup {h.candidate}
    BY <1>1, Popped, PoppedOps, PoppedSignals
<1>3. /\ ManagerInv(p, y, made) /\ m.pc # 0 /\ Proper(p, m, made, h)
      /\ Leads(p, h) => NoneLeads(p, y.ops) /\ ~m.local
    BY DoneKeeps
<1>4. y.remote # 0 /\ y.pc # 0 /\ (~isInitiator(p) /\ h.draining => NoneLeads(p, y.ops) /\ ~y.local)
    BY <1>2, <1>3 DEF Alike, Leads, Drains, Proper
<1>5. ~h.draining => QueueInv(y)
    <2> SUFFICES ASSUME ~h.draining PROVE QueueInv(y)
        OBVIOUS
    <2>1. ~Drains(Head(m.ops))
        BY DEF Drains
    <2> QED
        BY <2>1, QueueDone
<1>6. y \in Manager
    BY <1>2
<1>7. /\ z \in Manager /\ Alike(y, z) /\ z.ops = y.ops /\ z.local = y.local /\ z.remote = y.remote
      /\ z.added = A /\ z.queue = y.queue /\ ToAdd(z) = ToAdd(y) /\ ToSetRemote(z) = ToSetRemote(y)
    BY <1>6 DEF Manager, Alike, ToAdd, ToSetRemote
<1>8. ManagerInv(p, z, made)
    BY <1>3, <1>4, <1>6, AddedKeeps
<1>9. Alike(m, z)
    BY <1>2, <1>7 DEF Alike
<1>10. ~h.draining => QueueInv(z)
    BY <1>5, <1>7 DEF QueueInv
<1>11. z.pc # 0 /\ z.remote # 0 /\ (~isInitiator(p) /\ h.draining => NoneLeads(p, z.ops) /\ ~z.local)
    BY <1>4, <1>7 DEF Alike
<1> QED
    BY <1>2, <1>7, <1>8, <1>9, <1>10, <1>11

\* Then the next one of the queue is on.
LEMMA AddedContinues ==
    ASSUME NEW p \in Pages, NEW made \in Nat, NEW m \in Manager, NEW h, h.candidate \in Candidates,
           NEW A, m.added \subseteq A, h.candidate.pc = m.remote => h.candidate.n \in A,
           h.op = "addIceCandidate", NEW z \in Manager,
           Alike(m, z), z.local = m.local, z.remote = m.remote, z.added = A,
           ToSet(m.ops) = {h} \cup ToSet(z.ops), ToSetRemote(z) = ToSetRemote(m),
           ToAdd(m) = ToAdd(z) \cup {h.candidate}, ManagerInv(p, z, made), z.pc # 0, z.remote # 0,
           ~isInitiator(p) /\ h.draining => NoneLeads(p, z.ops) /\ ~z.local,
           ~h.draining => QueueInv(z),
           NEW x, h.draining => x = drainIceQueue(p, z), ~h.draining => x = z
    PROVE  Continues(p, m, x, made)
<1>1. /\ x \in Manager /\ Alike(z, x) /\ x.local = z.local /\ x.remote = z.remote /\ x.added = z.added
      /\ ToAdd(x) = ToAdd(z) /\ ToSetRemote(x) = ToSetRemote(z) /\ ToSet(z.ops) \subseteq ToSet(x.ops)
    BY MaybeDrained
<1>2. ManagerInv(p, x, made) /\ QueueInv(x)
    <2>1. CASE h.draining
        BY <2>1, DrainedKeeps
    <2>2. CASE ~h.draining
        BY <2>2
    <2> QED
        BY <2>1, <2>2
<1>3. ASSUME NEW c \in Nat \ {0} PROVE Advances(m, x, c)
    <2>1. /\ x.remote = m.remote /\ x.added = A /\ ToSetRemote(x) = ToSetRemote(m)
          /\ ToAdd(m) = ToAdd(x) \cup {h.candidate}
        BY <1>1
    <2>2. Reached(x, c) => Reached(m, c)
        BY <2>1 DEF Reached
    <2>3. Missed(m, c) => Missed(x, c)
        BY <2>1 DEF Missed
    <2>4. ASSUME NEW n \in 1..MaxCandidates, Holds(m, c, n)
          PROVE  Holds(x, c, n) \/ (Missed(x, c) /\ Reached(m, c))
        <3>1. CASE m.remote = c /\ n \in m.added
            BY <2>1, <3>1 DEF Holds
        <3>2. CASE Candidate(c, n) \in ToAdd(x)
            BY <3>2 DEF Holds
        <3>3. CASE Candidate(c, n) = h.candidate
            <4>1. h.candidate.pc = c /\ h.candidate.n = n
                BY <3>3 DEF Candidate
            <4>2. CASE m.remote = c
                <5>1. x.remote = c /\ n \in x.added
                    BY <2>1, <4>1, <4>2
                <5> QED
                    BY <5>1 DEF Holds
            <4>3. CASE m.remote # c
                BY <2>1, <4>1, <4>3 DEF Missed, Reached
            <4> QED
                BY <4>2, <4>3
        <3> QED
            BY <2>1, <2>4, <3>1, <3>2, <3>3 DEF Holds
    <2> QED
        BY <2>2, <2>3, <2>4 DEF Advances
<1>4. \A c : Settled(m, c) => Settled(x, c)
    BY <1>1 DEF Settled
<1>5. Offering(m) => Offering(x)
    <2>1. \A o \in ToSet(m.ops) : o.op \in {"createOffer", "setLocalDescription"} => o \in ToSet(x.ops)
        BY <1>1
    <2> QED
        BY <2>1 DEF Offering
<1>6. Alike(m, x) /\ x.local = m.local
    BY <1>1 DEF Alike
<1> QED
    BY <1>1, <1>2, <1>3, <1>4, <1>5, <1>6 DEF Continues

----------------------------------------------------------------------------
(* Messages *)

\* Manager m of page p hears b, and becomes x.
Hears(p, m, x, made, b) ==
    /\ x \in Manager /\ ManagerInv(p, x, made) /\ QueueInv(x)
    /\ m.listening => x.listening
    /\ \/ x.pc = m.pc /\ x.made = m.made /\ x.local = m.local /\ x.gathered = m.gathered
       \/ x.pc = m.made + 1 /\ x.made = m.made + 1 /\ x.gathered = 0
    /\ \A c \in Nat \ {0} : HearsOf(m, x, b, c)
    /\ isInitiator(p) => Offering(x) \/ (x.pc = m.pc /\ (Offering(m) => Offering(x)))
    /\ ~isInitiator(p) => IF b.type = "offer" THEN Settled(x, b.pc) ELSE \A c : Settled(m, c) => Settled(x, c)

LEMMA HearsNothing ==
    ASSUME NEW p \in Pages, NEW made \in Nat, NEW m \in Manager, ManagerInv(p, m, made), QueueInv(m),
           NEW b \in Signals, b.type # "ice-candidate", b.type = "offer" => isInitiator(p)
    PROVE  Hears(p, m, m, made, b)
<1>1. \A c : HearsOf(m, m, b, c)
    BY DEF HearsOf, Candidate
<1> QED
    BY <1>1 DEF Hears

LEMMA HearsPeerJoined ==
    ASSUME NEW p \in Pages, NEW made \in Nat, NEW m \in Manager, ManagerInv(p, m, made), QueueInv(m),
           NEW b \in Signals, b.type = "peer-joined", isInitiator(p),
           NEW o \in Operations, o.op = "createOffer",
           NEW y, y = initializePeerConnection(m), NEW x, x = Await(y, o)
    PROVE  Hears(p, m, x, made, b)
<1>1. /\ y \in Manager /\ y.ops = <<>> /\ y.listening /\ y.pc = m.made + 1 /\ y.made = m.made + 1
      /\ ~y.local /\ y.gathered = 0 /\ y.remote = 0
    BY Initialized
<1>2. ManagerInv(p, y, made) /\ y.pc # 0 /\ NoneLeads(p, y.ops)
    BY InitializedKeeps
<1>3. ~Adds(o) /\ ~SetsRemote(o) /\ Proper(p, y, made, o)
    BY DEF Adds, SetsRemote, Proper
<1>4. QueueInv(y)
    BY <1>1 DEF QueueInv
<1>5. ManagerInv(p, x, made) /\ QueueInv(x)
    BY <1>1, <1>2, <1>3, <1>4, AwaitKeeps, QueueAwaits
<1>6. /\ x \in Manager /\ Alike(y, x) /\ x.remote = y.remote /\ x.added = y.added
      /\ ToAdd(x) = ToAdd(y) /\ ToSetRemote(x) = ToSetRemote(y)
    BY <1>1, <1>3, Awaited, AwaitedSignals
<1>7. Offering(x)
    <2>1. ToSet(x.ops) = ToSet(y.ops) \cup {o}
        BY <1>1, AwaitedOps
    <2> QED
        BY <2>1 DEF Offering
<1>8. ASSUME NEW c \in Nat \ {0} PROVE HearsOf(m, x, b, c)
    <2>1. Advances(m, y, c)
        BY AdvancesToNew
    <2>2. Advances(y, x, c)
        BY <1>6, AdvancesAlike
    <2>3. Advances(m, x, c)
        BY <2>1, <2>2, AdvancesTwice
    <2> QED
        BY <2>3 DEF Advances, HearsOf, Candidate
<1>9. x.listening /\ x.pc = m.made + 1 /\ x.made = m.made + 1 /\ x.gathered = 0
    BY <1>1, <1>6 DEF Alike
<1> QED
    BY <1>5, <1>6, <1>7, <1>8, <1>9 DEF Hears

LEMMA HearsOffer ==
    ASSUME NEW p \in Pages, NEW made \in Nat, NEW m \in Manager, ManagerInv(p, m, made), QueueInv(m),
           NEW b \in Descriptions, b.type = "offer", b.pc <= made, ~isInitiator(p),
           NEW o \in Operations, o.op = "setRemoteDescription", o.description = b,
           NEW y, y = initializePeerConnection(m), NEW x, x = Await(y, o)
    PROVE  Hears(p, m, x, made, b)
<1>1. /\ y \in Manager /\ y.ops = <<>> /\ y.listening /\ y.pc = m.made + 1 /\ y.made = m.made + 1
      /\ ~y.local /\ y.gathered = 0 /\ y.remote = 0 /\ ToSetRemote(y) = {}
    BY Initialized
<1>2. ManagerInv(p, y, made) /\ y.pc # 0 /\ NoneLeads(p, y.ops)
    BY InitializedKeeps
<1>3. ~Adds(o) /\ SetsRemote(o) /\ Proper(p, y, made, o)
    BY <1>1 DEF Adds, SetsRemote, Proper, Describing, Other, isInitiator, Pages
<1>4. QueueInv(y)
    BY <1>1 DEF QueueInv
<1>5. ManagerInv(p, x, made) /\ QueueInv(x)
    BY <1>1, <1>2, <1>3, <1>4, AwaitKeeps, QueueAwaits
<1>6. /\ x \in Manager /\ Alike(y, x) /\ x.remote = 0 /\ x.added = y.added
      /\ ToAdd(x) = ToAdd(y)
    BY <1>1, <1>3, Awaited, AwaitedSignals
<1>7. ToSetRemote(x) = {b}
    <2>1. ToSetRemote(x) = ToSetRemote(y) \cup {o.description}
        BY <1>1, <1>3, AwaitedSignals
    <2> QED
        BY <1>1, <2>1
<1>8. ASSUME NEW c \in Nat \ {0} PROVE HearsOf(m, x, b, c)
    <2>1. Advances(m, y, c) /\ Missed(y, c)
        BY AdvancesToNew
    <2>2. Reached(x, c) => Reached(y, c) \/ b.pc = c
        BY <1>1, <1>6, <1>7 DEF Reached
    <2>3. \A n \in 1..MaxCandidates : Holds(y, c, n) => Holds(x, c, n)
        BY <1>1, <1>6 DEF Holds
    <2>4. b.pc # c => Missed(x, c)
        BY <1>6, <1>7 DEF Missed
    <2>5. b.pc = c => About(b, c) /\ Describes(b, c)
        BY DEF About, Describes
    <2>6. \A n \in 1..MaxCandidates : b # Candidate(c, n)
        BY DEF Candidate
    <2> QED
        BY <2>1, <2>2, <2>3, <2>4, <2>5, <2>6 DEF HearsOf, Advances
<1>9. x.listening /\ x.pc = m.made + 1 /\ x.made = m.made + 1 /\ x.gathered = 0
    BY <1>1, <1>6 DEF Alike
<1>10. Settled(x, b.pc)
    BY <1>7 DEF Settled
<1> QED
    BY <1>5, <1>6, <1>8, <1>9, <1>10 DEF Hears

LEMMA HearsAnswer ==
    ASSUME NEW p \in Pages, NEW made \in Nat, NEW m \in Manager, ManagerInv(p, m, made), QueueInv(m),
           NEW b \in Descriptions, b.type = "answer", b.pc <= made, isInitiator(p), m.pc # 0,
           NEW o \in Operations, o.op = "setRemoteDescription", o.description = b, NEW x, x = Await(m, o)
    PROVE  Hears(p, m, x, made, b)
<1>1. ~Adds(o) /\ SetsRemote(o) /\ Proper(p, m, made, o) /\ ~Leads(p, o)
    BY DEF Adds, SetsRemote, Drains, Proper, Leads, Describing, Other, isInitiator, Pages
<1>2. ManagerInv(p, x, made) /\ QueueInv(x)
    BY <1>1, AwaitKeeps, QueueAwaits
<1>3. x \in Manager /\ Alike(m, x) /\ x.local = m.local /\ x.remote = m.remote /\ x.added = m.added
    BY Awaited
<1>4. ToAdd(x) = ToAdd(m) /\ ToSetRemote(x) = ToSetRemote(m) \cup {b}
    BY <1>1, AwaitedSignals
<1>5. ToSet(x.ops) = ToSet(m.ops) \cup {o}
    BY AwaitedOps
<1>6. ASSUME NEW c \in Nat \ {0} PROVE HearsOf(m, x, b, c)
    <2>1. b.pc = c => About(b, c) /\ Describes(b, c)
        BY DEF About, Describes
    <2>2. \A n \in 1..MaxCandidates : b # Candidate(c, n)
        BY DEF Candidate
    <2>3. b.pc # c => (Reached(x, c) => Reached(m, c))
        BY <1>3, <1>4 DEF Reached
    <2>4. \A n : Holds(m, c, n) => Holds(x, c, n)
        BY <1>3, <1>4 DEF Holds
    <2>5. b.pc # c => (Missed(m, c) => Missed(x, c))
        BY <1>3, <1>4 DEF Missed
    <2> QED
        BY <2>1, <2>2, <2>3, <2>4, <2>5 DEF HearsOf
<1>7. Offering(m) => Offering(x)
    BY <1>5 DEF Offering
<1> QED
    BY <1>2, <1>3, <1>6, <1>7 DEF Hears, Alike

LEMMA HearsCandidate ==
    ASSUME NEW p \in Pages, NEW made \in Nat, NEW m \in Manager, ManagerInv(p, m, made), QueueInv(m),
           NEW b \in Candidates, b.pc <= made, m.pc # 0, m.remote # 0,
           NEW o \in Operations, o.op = "addIceCandidate", o.candidate = b, ~o.draining,
           NEW x, x = Await(m, o)
    PROVE  Hears(p, m, x, made, b)
<1>1. Adds(o) /\ ~SetsRemote(o) /\ Proper(p, m, made, o) /\ ~Leads(p, o)
    BY DEF Adds, SetsRemote, Drains, Proper, Leads
<1>2. ManagerInv(p, x, made) /\ QueueInv(x)
    BY <1>1, AwaitKeeps, QueueAwaits
<1>3. x \in Manager /\ Alike(m, x) /\ x.local = m.local /\ x.remote = m.remote /\ x.added = m.added
    BY Awaited
<1>4. ToAdd(x) = ToAdd(m) \cup {b} /\ ToSetRemote(x) = ToSetRemote(m)
    BY <1>1, AwaitedSignals
<1>5. ToSet(x.ops) = ToSet(m.ops) \cup {o}
    BY AwaitedOps
<1>6. ASSUME NEW c \in Nat \ {0} PROVE HearsOf(m, x, b, c)
    BY <1>3, <1>4 DEF HearsOf, About, Reached, Holds, Missed, Candidates
<1>7. (Offering(m) => Offering(x)) /\ \A c : Settled(m, c) => Settled(x, c)
    BY <1>3, <1>4, <1>5 DEF Offering, Settled
<1>8. b.type # "offer"
    BY DEF Candidates
<1> QED
    BY <1>2, <1>3, <1>6, <1>7, <1>8 DEF Hears, Alike

LEMMA HearsEarlyCandidate ==
    ASSUME NEW p \in Pages, NEW made \in Nat, NEW m \in Manager, ManagerInv(p, m, made),
           NEW b \in Candidates, b.pc <= made, m.pc = 0 \/ m.remote = 0,
           NEW x, x = [m EXCEPT !.queue = Append(@, b)]
    PROVE  Hears(p, m, x, made, b)
<1>1. ManagerInv(p, x, made)
    BY QueuedKeeps
<1>2. /\ x \in Manager /\ Alike(m, x) /\ x.ops = m.ops
      /\ x.local = m.local /\ x.remote = m.remote /\ x.added = m.added
      /\ ToAdd(x) = ToAdd(m) \cup {b} /\ ToSetRemote(x) = ToSetRemote(m)
    BY Queued
<1>3. QueueInv(x)
    BY <1>2 DEF QueueInv, ManagerInv
<1>4. ASSUME NEW c \in Nat \ {0} PROVE HearsOf(m, x, b, c)
    BY <1>2 DEF HearsOf, About, Reached, Holds, Missed, Candidates
<1>5. (Offering(m) => Offering(x)) /\ \A c : Settled(m, c) => Settled(x, c)
    BY <1>2 DEF Offering, Settled
<1>6. b.type # "offer"
    BY DEF Candidates
<1> QED
    BY <1>1, <1>2, <1>3, <1>4, <1>5, <1>6 DEF Hears, Alike

----------------------------------------------------------------------------
(* Follows *)

LEMMA FollowsAppend ==
    ASSUME NEW box \in Seq(Signals), NEW b \in Signals, b.type # "offer", NEW s, NEW r, Follows(box, s, r)
    PROVE  Follows(Append(box, b), s, r)
<1>1. /\ Len(box) \in Nat /\ Len(Append(box, b)) = Len(box) + 1
      /\ \A k \in 1..Len(box) : Append(box, b)[k] = box[k]
      /\ Append(box, b)[Len(box) + 1] = b
      /\ ToSet(Append(box, b)) = ToSet(box) \cup {b}
    BY Appended
<1>2. CASE \E k \in 1..Len(box) : /\ box[k].type = "offer" /\ box[k].pc = s.pc
                                  /\ \A j \in (k + 1)..Len(box) : box[j].type # "offer"
    <2>1. PICK k \in 1..Len(box) : /\ box[k].type = "offer" /\ box[k].pc = s.pc
                                   /\ \A j \in (k + 1)..Len(box) : box[j].type # "offer"
        BY <1>2
    <2>2. \A j \in (k + 1)..(Len(box) + 1) : j = Len(box) + 1 \/ (j \in (k + 1)..Len(box) /\ j \in 1..Len(box))
        BY <1>1
    <2>3. k \in 1..Len(Append(box, b)) /\ Append(box, b)[k] = box[k]
        BY <1>1
    <2>4. \A j \in (k + 1)..Len(Append(box, b)) : Append(box, b)[j].type # "offer"
        BY <1>1, <2>1, <2>2
    <2> QED
        BY <2>1, <2>3, <2>4 DEF Follows
<1> QED
    BY <1>1, <1>2 DEF Follows

LEMMA FollowsSender ==
    ASSUME NEW box, NEW s, NEW r, NEW x, Follows(box, s, r), x.pc = s.pc, Offering(s) => Offering(x)
    PROVE  Follows(box, x, r)
BY DEF Follows

LEMMA FollowsReceiver ==
    ASSUME NEW box, NEW s, NEW r, NEW x, Follows(box, s, r), \A c : Settled(r, c) => Settled(x, c)
    PROVE  Follows(box, s, x)
BY DEF Follows

LEMMA FollowsHeard ==
    ASSUME NEW box \in Seq(Signals), box # <<>>, NEW b, b = Head(box), NEW s, NEW r, NEW x,
           Follows(box, s, r),
           IF b.type = "offer" THEN Settled(x, b.pc) ELSE \A c : Settled(r, c) => Settled(x, c)
    PROVE  Follows(Tail(box), s, x)
<1>1. /\ Len(box) \in Nat \ {0} /\ 1 \in 1..Len(box) /\ b = box[1]
      /\ Tail(box) \in Seq(Signals) /\ Len(Tail(box)) = Len(box) - 1
      /\ \A k \in 1..(Len(box) - 1) : Tail(box)[k] = box[k + 1] /\ k + 1 \in 1..Len(box)
      /\ ToSet(box) = {b} \cup ToSet(Tail(box))
    BY Beheaded
<1>2. CASE \E k \in 1..Len(box) : /\ box[k].type = "offer" /\ box[k].pc = s.pc
                                  /\ \A j \in (k + 1)..Len(box) : box[j].type # "offer"
    <2>1. PICK k \in 1..Len(box) : /\ box[k].type = "offer" /\ box[k].pc = s.pc
                                   /\ \A j \in (k + 1)..Len(box) : box[j].type # "offer"
        BY <1>2
    <2>2. CASE k = 1
        <3> DEFINE t == Tail(box)
        <3>1. t \in Seq(Signals) /\ \A i \in 1..Len(t) : t[i].type # "offer"
            BY <1>1, <2>1, <2>2
        <3> HIDE DEF t
        <3>2. \A a \in ToSet(t) : a.type # "offer"
            BY <3>1, Listed
        <3> USE DEF t
        <3> QED
            BY <1>1, <2>1, <2>2, <3>2 DEF Follows
    <2>3. CASE k # 1
        <3>1. k - 1 \in 1..Len(Tail(box)) /\ Tail(box)[k - 1] = box[k]
            BY <1>1, <2>3
        <3>2. \A j \in ((k - 1) + 1)..Len(Tail(box)) : Tail(box)[j].type # "offer"
            <4>1. \A j \in ((k - 1) + 1)..Len(Tail(box)) : j \in 1..(Len(box) - 1) /\ j + 1 \in (k + 1)..Len(box)
                BY <1>1, <2>3
            <4> QED
                BY <1>1, <2>1, <4>1
        <3> QED
            BY <2>1, <3>1, <3>2 DEF Follows
    <2> QED
        BY <2>2, <2>3
<1>3. CASE (\A a \in ToSet(box) : a.type # "offer") /\ Settled(r, s.pc)
    BY <1>1, <1>3 DEF Follows
<1> QED
    BY <1>2, <1>3 DEF Follows

LEMMA FollowsOffer ==
    ASSUME NEW box \in Seq(Signals), NEW b \in Signals, b.type = "offer", NEW s, b.pc = s.pc, NEW r
    PROVE  Follows(Append(box, b), s, r)
<1>1. /\ Len(box) \in Nat /\ Len(Append(box, b)) = Len(box) + 1
      /\ Append(box, b)[Len(box) + 1] = b
    BY Appended
<1>2. Len(box) + 1 \in 1..Len(Append(box, b)) /\ \A j \in (Len(box) + 2)..Len(Append(box, b)) : FALSE
    BY <1>1
<1>3. (Len(box) + 1) + 1 = Len(box) + 2
    BY <1>1
<1> QED
    BY <1>1, <1>2, <1>3 DEF Follows

----------------------------------------------------------------------------
(* Steps *)

LEMMA TwoPages ==
    /\ \A p \in Pages : /\ Other(p) \in Pages /\ Other(p) # p /\ Other(Other(p)) = p
                        /\ \A r \in Pages : r = p \/ r = Other(p)
    /\ Other("sender") = "receiver" /\ Other("receiver") = "sender"
    /\ "sender" \in Pages /\ "receiver" \in Pages
BY DEF Pages, Other

\* What the invariant says of page p.
LEMMA AtPage ==
    ASSUME NegotiationInv, NEW p \in Pages
    PROVE  /\ mgr[p] \in Manager /\ mgr[Other(p)] \in Manager /\ mgr[Other(p)].made \in Nat /\ mgr[p].made \in Nat
           /\ inbox[p] \in Seq(Signals) /\ inbox[Other(p)] \in Seq(Signals)
           /\ ManagerInv(p, mgr[p], mgr[Other(p)].made) /\ QueueInv(mgr[p])
           /\ InboxInv(p, inbox[p], mgr[Other(p)].made) /\ InboxInv(Other(p), inbox[Other(p)], mgr[p].made)
           /\ breaks = 0 =>
                 /\ online = Pages /\ mgr[p].listening
                 /\ Ordered(inbox[p], mgr[p], mgr[Other(p)])
                 /\ Ordered(inbox[Other(p)], mgr[Other(p)], mgr[p])
                 /\ \A b \in ToSet(inbox[p]) \cup ToSet(inbox[Other(p)]) : b.type # "peer-left"
                 /\ Follows(inbox["receiver"], mgr["sender"], mgr["receiver"])
<1>1. Other(p) \in Pages /\ Other(Other(p)) = p
    BY TwoPages
<1>2. mgr[p] \in Manager /\ mgr[Other(p)] \in Manager
    BY <1>1 DEF NegotiationInv
<1>3. mgr[p].made \in Nat /\ mgr[Other(p)].made \in Nat
    BY <1>2, Fields
<1> QED
    BY <1>1, <1>2, <1>3 DEF NegotiationInv, Undisturbed

\* The manager of page p becomes x.
LEMMA PageStep ==
    ASSUME NegotiationInv, NEW p \in Pages, NEW q, q = Other(p), NEW x \in Manager,
           mgr' = [mgr EXCEPT ![p] = x], inbox' \in [Pages -> Seq(Signals)], UNCHANGED <<online, announced, breaks>>,
           ManagerInv(p, x, mgr[q].made), QueueInv(x), mgr[p].made <= x.made,
           InboxInv(p, inbox'[p], mgr[q].made), InboxInv(q, inbox'[q], x.made),
           breaks = 0 =>
             /\ x.listening
             /\ \A b \in ToSet(inbox'[p]) \cup ToSet(inbox'[q]) : b.type # "peer-left"
             /\ Ordered(inbox'[p], x, mgr[q]) /\ Ordered(inbox'[q], mgr[q], x)
             /\ p = "sender" => Follows(inbox'["receiver"], x, mgr["receiver"])
             /\ p = "receiver" => Follows(inbox'["receiver"], mgr["sender"], x)
    PROVE  NegotiationInv'
<1>1. /\ q \in Pages /\ q # p /\ Other(q) = p /\ \A r \in Pages : r = p \/ r = q
      /\ (p = "sender" /\ q = "receiver") \/ (p = "receiver" /\ q = "sender")
    BY DEF Pages, Other
<1>2. /\ mgr[q] \in Manager /\ mgr[q].made \in Nat /\ mgr[p].made \in Nat
      /\ inbox'[q] \in Seq(Signals) /\ ManagerInv(q, mgr[q], mgr[p].made) /\ QueueInv(mgr[q])
      /\ breaks = 0 => mgr[q].listening /\ online = Pages
    BY <1>1, AtPage
<1>3. x.made \in Nat
    BY Fields
<1>4. ManagerInv(q, mgr[q], x.made)
    BY <1>1, <1>2, <1>3, MoreMade
<1>5. mgr' \in [Pages -> Manager] /\ mgr'[p] = x /\ mgr'[q] = mgr[q]
    BY <1>1 DEF NegotiationInv
<1>6. \A r \in Pages : /\ ManagerInv(r, mgr'[r], mgr'[Other(r)].made) /\ QueueInv(mgr'[r])
                       /\ InboxInv(r, inbox'[r], mgr'[Other(r)].made)
    BY <1>1, <1>2, <1>4, <1>5
<1>7. ASSUME breaks = 0
      PROVE  /\ online' = Pages
             /\ \A r \in Pages : /\ mgr'[r].listening
                                 /\ \A b \in ToSet(inbox'[r]) : b.type # "peer-left"
                                 /\ Ordered(inbox'[r], mgr'[r], mgr'[Other(r)])
             /\ Follows(inbox'["receiver"], mgr'["sender"], mgr'["receiver"])
    BY <1>1, <1>2, <1>5, <1>7
<1> QED
    BY <1>5, <1>6, <1>7 DEF NegotiationInv, Undisturbed

\* An operation of a connection is over.
LEMMA ContinueStep ==
    ASSUME NegotiationInv, NEW p \in Pages, NEW x, Continues(p, mgr[p], x, mgr[Other(p)].made), Resume(p, x)
    PROVE  NegotiationInv'
<1> DEFINE q == Other(p)
           m == mgr[p]
<1>1. q \in Pages /\ q # p
    BY TwoPages
<1>2. x \in Manager /\ x.made = m.made /\ m.made \in Nat /\ ManagerInv(p, x, mgr[q].made) /\ QueueInv(x)
    BY AtPage DEF Continues, Alike
<1>3. /\ mgr' = [mgr EXCEPT ![p] = x] /\ inbox' = inbox /\ UNCHANGED <<online, announced, breaks>>
      /\ inbox' \in [Pages -> Seq(Signals)]
    BY DEF Resume, NegotiationInv
<1>4. InboxInv(p, inbox'[p], mgr[q].made) /\ InboxInv(q, inbox'[q], x.made)
    BY <1>2, <1>3, AtPage
<1>5. ASSUME breaks = 0
      PROVE  /\ x.listening
             /\ \A b \in ToSet(inbox'[p]) \cup ToSet(inbox'[q]) : b.type # "peer-left"
             /\ Ordered(inbox'[p], x, mgr[q]) /\ Ordered(inbox'[q], mgr[q], x)
             /\ p = "sender" => Follows(inbox'["receiver"], x, mgr["receiver"])
             /\ p = "receiver" => Follows(inbox'["receiver"], mgr["sender"], x)
    <2>1. /\ m \in Manager /\ mgr[q] \in Manager /\ inbox[p] \in Seq(Signals)
          /\ m.listening /\ Ordered(inbox[p], m, mgr[q]) /\ Ordered(inbox[q], mgr[q], m)
          /\ \A b \in ToSet(inbox[p]) \cup ToSet(inbox[q]) : b.type # "peer-left"
          /\ Follows(inbox["receiver"], mgr["sender"], mgr["receiver"])
        BY <1>5, AtPage
    <2>2. x.listening
        BY <2>1 DEF Continues, Alike
    <2>3. Ordered(inbox[p], x, mgr[q])
        <3>1. mgr[q].pc # 0 => Advances(m, x, mgr[q].pc)
            BY <2>1, Fields DEF Continues
        <3> QED
            BY <1>2, <2>1, <3>1, Resumed
    <2>4. Ordered(inbox[q], mgr[q], x)
        BY <2>1, PeerAlike DEF Continues, Alike
    <2>5. ASSUME p = "sender" PROVE Follows(inbox["receiver"], x, mgr["receiver"])
        BY <2>1, <2>5, FollowsSender DEF Continues, Alike, isInitiator
    <2>6. ASSUME p = "receiver" PROVE Follows(inbox["receiver"], mgr["sender"], x)
        BY <2>1, <2>6, FollowsReceiver DEF Continues, isInitiator
    <2> QED
        BY <1>3, <2>1, <2>2, <2>3, <2>4, <2>5, <2>6
<1> QED
    <2>1. m.made <= x.made
        BY <1>2
    <2> QED
        BY <1>2, <1>3, <1>4, <1>5, <2>1, PageStep

\* A manager hears the message at the head of its inbox.
LEMMA HearStep ==
    ASSUME NegotiationInv, NEW p \in Pages, inbox[p] # <<>>, NEW x,
           Hears(p, mgr[p], x, mgr[Other(p)].made, Head(inbox[p])), Handle(p, x)
    PROVE  NegotiationInv'
<1> DEFINE q == Other(p)
           m == mgr[p]
           b == Head(inbox[p])
<1>1. q \in Pages /\ q # p
    BY TwoPages
<1>2. /\ x \in Manager /\ m.made \in Nat /\ m.made <= x.made /\ x.made \in Nat
      /\ ManagerInv(p, x, mgr[q].made) /\ QueueInv(x)
    BY AtPage, Fields DEF Hears
<1>3. /\ inbox[p] \in Seq(Signals) /\ Tail(inbox[p]) \in Seq(Signals)
      /\ ToSet(Tail(inbox[p])) \subseteq ToSet(inbox[p])
    <2>1. inbox[p] \in Seq(Signals)
        BY AtPage
    <2> QED
        BY <2>1, Beheaded
<1>4. /\ mgr' = [mgr EXCEPT ![p] = x] /\ UNCHANGED <<online, announced, breaks>>
      /\ inbox' \in [Pages -> Seq(Signals)] /\ inbox'[p] = Tail(inbox[p]) /\ inbox'[q] = inbox[q]
    BY <1>1, <1>3 DEF Handle, NegotiationInv
<1>5. InboxInv(p, inbox'[p], mgr[q].made) /\ InboxInv(q, inbox'[q], x.made)
    <2>1. InboxInv(p, Tail(inbox[p]), mgr[q].made)
        BY <1>3, AtPage DEF InboxInv
    <2>2. InboxInv(q, inbox[q], x.made)
        BY <1>1, <1>2, AtPage, MoreMade
    <2> QED
        BY <1>4, <2>1, <2>2
<1>6. ASSUME breaks = 0
      PROVE  /\ x.listening
             /\ \A a \in ToSet(inbox'[p]) \cup ToSet(inbox'[q]) : a.type # "peer-left"
             /\ Ordered(inbox'[p], x, mgr[q]) /\ Ordered(inbox'[q], mgr[q], x)
             /\ p = "sender" => Follows(inbox'["receiver"], x, mgr["receiver"])
             /\ p = "receiver" => Follows(inbox'["receiver"], mgr["sender"], x)
    <2>1. /\ m \in Manager /\ mgr[q] \in Manager /\ inbox[q] \in Seq(Signals)
          /\ m.listening /\ Ordered(inbox[p], m, mgr[q]) /\ Ordered(inbox[q], mgr[q], m)
          /\ \A a \in ToSet(inbox[p]) \cup ToSet(inbox[q]) : a.type # "peer-left"
          /\ Follows(inbox["receiver"], mgr["sender"], mgr["receiver"])
          /\ ManagerInv(q, mgr[q], m.made) /\ InboxInv(q, inbox[q], m.made)
        BY <1>1, <1>6, AtPage, TwoPages
    <2>2. x.listening
        BY <2>1 DEF Hears
    <2>3. Ordered(Tail(inbox[p]), x, mgr[q])
        <3>1. mgr[q].pc # 0 => HearsOf(m, x, b, mgr[q].pc)
            BY <2>1, Fields DEF Hears
        <3> QED
            BY <1>2, <1>3, <2>1, <3>1, Heard
    <2>4. Ordered(inbox[q], mgr[q], x)
        <3>1. CASE x.pc = m.pc /\ x.made = m.made /\ x.local = m.local /\ x.gathered = m.gathered
            BY <2>1, <3>1, PeerAlike
        <3>2. CASE x.pc = m.made + 1 /\ x.made = m.made + 1 /\ x.gathered = 0
            BY <1>1, <1>2, <2>1, <3>2, PeerFresh
        <3> QED
            BY <3>1, <3>2 DEF Hears
    <2>5. ASSUME p = "sender"
          PROVE  Follows(inbox'["receiver"], x, mgr["receiver"])
        <3>1. q = "receiver" /\ inbox'["receiver"] = inbox["receiver"]
            BY <1>4, <2>5, TwoPages
        <3>2. Offering(x) \/ (x.pc = m.pc /\ (Offering(m) => Offering(x)))
            BY <2>5 DEF Hears, isInitiator
        <3>3. CASE Offering(x)
            BY <3>3 DEF Follows
        <3>4. CASE x.pc = m.pc /\ (Offering(m) => Offering(x))
            BY <2>1, <2>5, <3>1, <3>4, FollowsSender
        <3> QED
            BY <3>2, <3>3, <3>4
    <2>6. ASSUME p = "receiver"
          PROVE  Follows(inbox'["receiver"], mgr["sender"], x)
        <3>1. IF b.type = "offer" THEN Settled(x, b.pc) ELSE \A c : Settled(m, c) => Settled(x, c)
            BY <2>6 DEF Hears, isInitiator
        <3> QED
            BY <1>3, <1>4, <2>1, <2>6, <3>1, FollowsHeard
    <2> QED
        BY <1>3, <1>4, <2>1, <2>2, <2>3, <2>4, <2>5, <2>6
<1> QED
    BY <1>2, <1>4, <1>5, <1>6, PageStep

\* A connection changes, but not what it knows of the other one; message b is sent.
LEMMA SendStep ==
    ASSUME NegotiationInv, NEW p \in Pages, NEW x \in Manager, NEW b \in Signals,
           mgr' = [mgr EXCEPT ![p] = x], inbox' = Relay(p, b), UNCHANGED <<online, announced, breaks>>,
           ManagerInv(p, x, mgr[Other(p)].made), QueueInv(x),
           x.made = mgr[p].made, x.listening = mgr[p].listening, x.pc = mgr[p].pc,
           x.remote = mgr[p].remote, x.added = mgr[p].added,
           ToAdd(x) = ToAdd(mgr[p]), ToSetRemote(x) = ToSetRemote(mgr[p]),
           b.type \in {"offer", "answer", "ice-candidate"}, b.pc <= x.made,
           b.type \in {"offer", "answer"} => b.type = Describing(p),
           Ordered(inbox[Other(p)], mgr[Other(p)], mgr[p])
              => Ordered(Append(inbox[Other(p)], b), mgr[Other(p)], x),
           isInitiator(p) => (b.type = "offer" /\ b.pc = x.pc) \/ (b.type # "offer" /\ (Offering(mgr[p]) => Offering(x)))
    PROVE  NegotiationInv'
<1> DEFINE q == Other(p)
           m == mgr[p]
<1>1. q \in Pages /\ q # p /\ Other(q) = p
    BY TwoPages
<1>2. inbox[p] \in Seq(Signals) /\ inbox[q] \in Seq(Signals) /\ m \in Manager /\ mgr[q] \in Manager
    BY AtPage
<1>3. Append(inbox[q], b) \in Seq(Signals) /\ ToSet(Append(inbox[q], b)) = ToSet(inbox[q]) \cup {b}
    BY <1>2, Appended
<1>4. /\ inbox' \in [Pages -> Seq(Signals)] /\ inbox'[p] = inbox[p]
      /\ inbox'[q] = inbox[q] \/ inbox'[q] = Append(inbox[q], b)
      /\ online = Pages => inbox'[q] = Append(inbox[q], b)
    BY <1>1, <1>3 DEF Relay, NegotiationInv
<1>5. InboxInv(p, inbox'[p], mgr[q].made) /\ InboxInv(q, inbox'[q], x.made)
    <2>1. InboxInv(p, inbox[p], mgr[q].made) /\ InboxInv(q, inbox[q], x.made)
        BY AtPage
    <2>2. InboxInv(q, Append(inbox[q], b), x.made)
        BY <1>1, <1>3, <2>1 DEF InboxInv
    <2> QED
        BY <1>4, <2>1, <2>2
<1>6. ASSUME breaks = 0
      PROVE  /\ x.listening
             /\ \A a \in ToSet(inbox'[p]) \cup ToSet(inbox'[q]) : a.type # "peer-left"
             /\ Ordered(inbox'[p], x, mgr[q]) /\ Ordered(inbox'[q], mgr[q], x)
             /\ p = "sender" => Follows(inbox'["receiver"], x, mgr["receiver"])
             /\ p = "receiver" => Follows(inbox'["receiver"], mgr["sender"], x)
    <2>1. /\ m.listening /\ Ordered(inbox[p], m, mgr[q]) /\ Ordered(inbox[q], mgr[q], m)
          /\ \A a \in ToSet(inbox[p]) \cup ToSet(inbox[q]) : a.type # "peer-left"
          /\ Follows(inbox["receiver"], mgr["sender"], mgr["receiver"])
          /\ inbox'[q] = Append(inbox[q], b)
        BY <1>4, <1>6, AtPage
    <2>2. Ordered(inbox'[p], x, mgr[q])
        <3>1. Advances(m, x, mgr[q].pc)
            BY AdvancesAlike
        <3> QED
            BY <1>2, <1>4, <2>1, <3>1, Resumed
    <2>3. ASSUME p = "sender"
          PROVE  Follows(inbox'["receiver"], x, mgr["receiver"])
        <3>1. q = "receiver"
            BY <2>3, TwoPages
        <3>2. CASE b.type = "offer" /\ b.pc = x.pc
            BY <1>2, <2>1, <3>1, <3>2, FollowsOffer
        <3>3. CASE b.type # "offer" /\ (Offering(m) => Offering(x))
            <4>1. Follows(inbox["receiver"], x, mgr["receiver"])
                BY <2>1, <2>3, <3>3, FollowsSender
            <4> QED
                BY <1>2, <2>1, <3>1, <3>3, <4>1, FollowsAppend
        <3> QED
            BY <2>3, <3>2, <3>3 DEF isInitiator
    <2>4. ASSUME p = "receiver"
          PROVE  Follows(inbox'["receiver"], mgr["sender"], x)
        <3>1. \A c : Settled(m, c) => Settled(x, c)
            BY DEF Settled
        <3> QED
            BY <1>4, <2>1, <2>4, <3>1, FollowsReceiver
    <2> QED
        BY <1>3, <1>4, <2>1, <2>2, <2>3, <2>4
<1>7. m.made <= x.made
    BY <1>2, Fields
<1> QED
    BY <1>4, <1>5, <1>6, <1>7, PageStep

----------------------------------------------------------------------------
(* Actions *)

LEMMA HearPeerJoinedStep == ASSUME NegotiationInv, NEW p \in Pages, HearPeerJoined(p) PROVE NegotiationInv'
<1>1. /\ mgr[p] \in Manager /\ ManagerInv(p, mgr[p], mgr[Other(p)].made) /\ QueueInv(mgr[p])
      /\ mgr[Other(p)].made \in Nat /\ inbox[p] # <<>> /\ Head(inbox[p]) \in Signals
      /\ Head(inbox[p]).type = "peer-joined"
    BY AtPage, Beheaded DEF HearPeerJoined, Arrives
<1>2. CASE isInitiator(p)
    <2> DEFINE o == [op |-> "createOffer"]
               y == initializePeerConnection(mgr[p])
               x == Await(y, o)
    <2>1. Handle(p, x)
        BY <1>2 DEF HearPeerJoined
    <2>2. o \in Operations /\ o.op = "createOffer"
        BY DEF Operations
    <2> HIDE DEF o, y
    <2>3. Hears(p, mgr[p], x, mgr[Other(p)].made, Head(inbox[p]))
        BY <1>1, <1>2, <2>2, HearsPeerJoined DEF y
    <2> HIDE DEF x
    <2> QED
        BY <1>1, <2>1, <2>3, HearStep
<1>3. CASE ~isInitiator(p)
    <2>1. Handle(p, mgr[p])
        BY <1>3 DEF HearPeerJoined
    <2>2. Hears(p, mgr[p], mgr[p], mgr[Other(p)].made, Head(inbox[p]))
        BY <1>1, HearsNothing
    <2> QED
        BY <1>1, <2>1, <2>2, HearStep
<1> QED
    BY <1>2, <1>3

\* The message at the head of an inbox was sent by the peer.
LEMMA AtHead ==
    ASSUME NegotiationInv, NEW p \in Pages, inbox[p] # <<>>, NEW b, b = Head(inbox[p])
    PROVE  /\ b \in Signals
           /\ b.type \in {"offer", "answer"} =>
                 b \in Descriptions /\ b.pc <= mgr[Other(p)].made /\ b.type = Describing(Other(p))
           /\ b.type = "ice-candidate" => b \in Candidates /\ b.pc <= mgr[Other(p)].made
<1>1. inbox[p] \in Seq(Signals) /\ InboxInv(p, inbox[p], mgr[Other(p)].made)
    BY AtPage
<1>2. b \in Signals /\ b \in ToSet(inbox[p])
    BY <1>1, Beheaded
<1>3. /\ b.type \in {"offer", "answer"} => b \in Descriptions
      /\ b.type = "ice-candidate" => b \in Candidates
    BY <1>2 DEF Signals, PeerJoined, PeerLeft, Descriptions, Candidates
<1> QED
    BY <1>1, <1>2, <1>3 DEF InboxInv

LEMMA HearOfferStep == ASSUME NegotiationInv, NEW p \in Pages, HearOffer(p) PROVE NegotiationInv'
<1> DEFINE b == Head(inbox[p])
           o == [op |-> "setRemoteDescription", description |-> b]
           y == initializePeerConnection(mgr[p])
           x == Await(y, o)
<1>1. /\ mgr[p] \in Manager /\ ManagerInv(p, mgr[p], mgr[Other(p)].made) /\ QueueInv(mgr[p])
      /\ mgr[Other(p)].made \in Nat
    BY AtPage
<1>2. inbox[p] # <<>> /\ b.type = "offer" /\ Handle(p, x)
    BY DEF HearOffer, Arrives
<1>3. b \in Descriptions /\ b.pc <= mgr[Other(p)].made /\ b.type = Describing(Other(p))
    BY <1>2, AtHead
<1>4. ~isInitiator(p)
    BY <1>2, <1>3 DEF Describing, isInitiator, Other, Pages
<1>5. o \in Operations /\ o.op = "setRemoteDescription" /\ o.description = b
    BY <1>3 DEF Operations
<1> HIDE DEF o, y, b
<1>6. Hears(p, mgr[p], x, mgr[Other(p)].made, b)
    BY <1>1, <1>2, <1>3, <1>4, <1>5, HearsOffer DEF y
<1> HIDE DEF x
<1> QED
    BY <1>2, <1>6, HearStep DEF b

LEMMA HearAnswerStep == ASSUME NegotiationInv, NEW p \in Pages, HearAnswer(p) PROVE NegotiationInv'
<1> DEFINE b == Head(inbox[p])
           o == [op |-> "setRemoteDescription", description |-> b]
           x == Await(mgr[p], o)
<1>1. /\ mgr[p] \in Manager /\ ManagerInv(p, mgr[p], mgr[Other(p)].made) /\ QueueInv(mgr[p])
      /\ mgr[Other(p)].made \in Nat
    BY AtPage
<1>2. inbox[p] # <<>> /\ b.type = "answer" /\ Handle(p, IF mgr[p].pc = 0 THEN mgr[p] ELSE x)
    BY DEF HearAnswer, Arrives
<1>3. /\ b \in Descriptions /\ b.pc <= mgr[Other(p)].made /\ b.type = Describing(Other(p)) /\ b \in Signals
    BY <1>2, AtHead
<1>4. isInitiator(p)
    BY <1>2, <1>3 DEF Describing, isInitiator, Other, Pages
<1>5. o \in Operations /\ o.op = "setRemoteDescription" /\ o.description = b
    BY <1>3 DEF Operations
<1> HIDE DEF o, b
<1>6. CASE mgr[p].pc = 0
    <2>1. Hears(p, mgr[p], mgr[p], mgr[Other(p)].made, b)
        BY <1>1, <1>2, <1>3, HearsNothing
    <2>2. Handle(p, mgr[p])
        BY <1>2, <1>6
    <2> QED
        BY <1>2, <2>1, <2>2, HearStep DEF b
<1>7. CASE mgr[p].pc # 0
    <2>1. Hears(p, mgr[p], x, mgr[Other(p)].made, b)
        BY <1>1, <1>2, <1>3, <1>4, <1>5, <1>7, HearsAnswer
    <2>2. Handle(p, x)
        BY <1>2, <1>7
    <2> HIDE DEF x
    <2> QED
        BY <1>2, <2>1, <2>2, HearStep DEF b
<1> QED
    BY <1>6, <1>7

LEMMA HearCandidateStep == ASSUME NegotiationInv, NEW p \in Pages, HearCandidate(p) PROVE NegotiationInv'
<1> DEFINE b == Head(inbox[p])
           o == [op |-> "addIceCandidate", candidate |-> b, draining |-> FALSE]
           x == Await(mgr[p], o)
           z == [mgr[p] EXCEPT !.queue = Append(@, b)]
<1>1. /\ mgr[p] \in Manager /\ ManagerInv(p, mgr[p], mgr[Other(p)].made) /\ QueueInv(mgr[p])
      /\ mgr[Other(p)].made \in Nat
    BY AtPage
<1>2. /\ inbox[p] # <<>> /\ b.type = "ice-candidate"
      /\ Handle(p, IF mgr[p].pc # 0 /\ mgr[p].remote # 0 THEN x ELSE z)
    BY DEF HearCandidate, Arrives
<1>3. b \in Candidates /\ b.pc <= mgr[Other(p)].made
    BY <1>2, AtHead
<1>4. o \in Operations /\ o.op = "addIceCandidate" /\ o.candidate = b /\ ~o.draining
    BY <1>3 DEF Operations
<1> HIDE DEF o, b
<1>5. CASE mgr[p].pc # 0 /\ mgr[p].remote # 0
    <2>1. Hears(p, mgr[p], x, mgr[Other(p)].made, b)
        BY <1>1, <1>3, <1>4, <1>5, HearsCandidate
    <2>2. Handle(p, x)
        BY <1>2, <1>5
    <2> HIDE DEF x
    <2> QED
        BY <1>2, <2>1, <2>2, HearStep DEF b
<1>6. CASE ~(mgr[p].pc # 0 /\ mgr[p].remote # 0)
    <2>1. Hears(p, mgr[p], z, mgr[Other(p)].made, b)
        BY <1>1, <1>3, <1>6, HearsEarlyCandidate
    <2>2. Handle(p, z)
        BY <1>2, <1>6
    <2> HIDE DEF z
    <2> QED
        BY <1>2, <2>1, <2>2, HearStep DEF b
<1> QED
    BY <1>5, <1>6

LEMMA HearPeerLeftStep == ASSUME NegotiationInv, NEW p \in Pages, HearPeerLeft(p) PROVE NegotiationInv'
<1> DEFINE q == Other(p)
           m == mgr[p]
           x == close(m)
<1>1. /\ m \in Manager /\ ManagerInv(p, m, mgr[q].made) /\ mgr[q].made \in Nat /\ m.made \in Nat
      /\ inbox[p] \in Seq(Signals) /\ q \in Pages /\ q # p
    BY AtPage, TwoPages
<1>2. inbox[p] # <<>> /\ Head(inbox[p]).type = "peer-left" /\ Handle(p, x)
    BY DEF HearPeerLeft, Arrives
<1>3. /\ Tail(inbox[p]) \in Seq(Signals) /\ ToSet(Tail(inbox[p])) \subseteq ToSet(inbox[p])
      /\ Head(inbox[p]) \in ToSet(inbox[p])
    BY <1>1, <1>2, Beheaded
<1>4. breaks # 0
    BY <1>2, <1>3, AtPage
<1>5. ManagerInv(p, x, mgr[q].made) /\ QueueInv(x) /\ x \in Manager /\ x.made = m.made
    BY <1>1, ClosedKeeps, Closed
<1> HIDE DEF x
<1>6. /\ mgr' = [mgr EXCEPT ![p] = x] /\ UNCHANGED <<online, announced, breaks>>
      /\ inbox' \in [Pages -> Seq(Signals)] /\ inbox'[p] = Tail(inbox[p]) /\ inbox'[q] = inbox[q]
    BY <1>1, <1>2, <1>3 DEF Handle, NegotiationInv
<1>7. InboxInv(p, inbox'[p], mgr[q].made) /\ InboxInv(q, inbox'[q], x.made)
    BY <1>3, <1>5, <1>6, AtPage DEF InboxInv
<1>8. m.made <= x.made
    BY <1>1, <1>5
<1> QED
    BY <1>4, <1>5, <1>6, <1>7, <1>8, PageStep

LEMMA UnheardStep == ASSUME NegotiationInv, NEW p \in Pages, Unheard(p) PROVE NegotiationInv'
<1> DEFINE q == Other(p)
<1>1. /\ inbox[p] # <<>> /\ ~mgr[p].listening /\ inbox' = [inbox EXCEPT ![p] = Tail(@)]
      /\ UNCHANGED <<mgr, online, announced, breaks>>
    BY DEF Unheard
<1>2. inbox[p] \in Seq(Signals)
    BY AtPage
<1>3. Tail(inbox[p]) \in Seq(Signals) /\ ToSet(Tail(inbox[p])) \subseteq ToSet(inbox[p])
    BY <1>1, <1>2, Beheaded
<1>4. breaks # 0
    BY <1>1, AtPage
<1>5. inbox' \in [Pages -> Seq(Signals)]
    BY <1>1, <1>3 DEF NegotiationInv
<1>6. \A r \in Pages : InboxInv(r, inbox'[r], mgr[Other(r)].made)
    <2>1. \A r \in Pages : ToSet(inbox'[r]) \subseteq ToSet(inbox[r])
        BY <1>1, <1>3 DEF NegotiationInv
    <2> QED
        BY <2>1 DEF NegotiationInv, InboxInv
<1> QED
    BY <1>1, <1>4, <1>5, <1>6 DEF NegotiationInv

LEMMA PendingHead ==
    ASSUME NegotiationInv, NEW p \in Pages, NEW kind, Pending(p, kind)
    PROVE  /\ mgr[p] \in Manager /\ mgr[Other(p)].made \in Nat
           /\ ManagerInv(p, mgr[p], mgr[Other(p)].made) /\ QueueInv(mgr[p])
           /\ mgr[p].ops # <<>> /\ Head(mgr[p].ops).op = kind /\ Head(mgr[p].ops) \in Operations
           /\ Proper(p, mgr[p], mgr[Other(p)].made, Head(mgr[p].ops))
           /\ mgr[p].pc \in Nat \ {0} /\ mgr[p].pc = mgr[p].made
<1>1. /\ mgr[p] \in Manager /\ mgr[Other(p)].made \in Nat
      /\ ManagerInv(p, mgr[p], mgr[Other(p)].made) /\ QueueInv(mgr[p])
    BY AtPage
<1>2. mgr[p].ops # <<>> /\ Head(mgr[p].ops).op = kind
    BY DEF Pending
<1>3. Head(mgr[p].ops) \in Operations /\ Head(mgr[p].ops) \in ToSet(mgr[p].ops)
    <2>1. mgr[p].ops \in Seq(Operations)
        BY <1>1, Fields
    <2> QED
        BY <1>2, <2>1, Beheaded
<1>4. mgr[p].pc \in Nat
    BY <1>1, Fields
<1> QED
    BY <1>1, <1>2, <1>3, <1>4 DEF ManagerInv

LEMMA CreatedStep ==
    ASSUME NegotiationInv, NEW p \in Pages, OfferCreated(p) \/ AnswerCreated(p)
    PROVE  NegotiationInv'
<1> DEFINE m == mgr[p]
           d == [type |-> Describing(p), pc |-> m.pc]
           o == [op |-> "setLocalDescription", description |-> d]
           y == Done(m)
           x == Await(y, o)
<1>1. Pending(p, "createOffer") \/ Pending(p, "createAnswer")
    BY DEF OfferCreated, AnswerCreated
<1>2. /\ m \in Manager /\ mgr[Other(p)].made \in Nat
      /\ ManagerInv(p, m, mgr[Other(p)].made) /\ QueueInv(m)
      /\ m.ops # <<>> /\ Head(m.ops).op \in {"createOffer", "createAnswer"}
      /\ Proper(p, m, mgr[Other(p)].made, Head(m.ops)) /\ m.pc \in Nat \ {0}
    BY <1>1, PendingHead
<1>3. Resume(p, x)
    <2>1. CASE OfferCreated(p)
        <3>1. isInitiator(p)
            BY <1>2, <2>1 DEF OfferCreated, Pending, Proper
        <3> QED
            BY <2>1, <3>1 DEF OfferCreated, Offer, Describing
    <2>2. CASE AnswerCreated(p)
        <3>1. ~isInitiator(p)
            BY <1>2, <2>2 DEF AnswerCreated, Pending, Proper
        <3> QED
            BY <2>2, <3>1 DEF AnswerCreated, Answer, Describing
    <2> QED
        BY <2>1, <2>2
<1>4. d \in Descriptions
    BY <1>2 DEF Descriptions, Describing
<1>5. o \in Operations /\ o.op = "setLocalDescription" /\ Proper(p, m, mgr[Other(p)].made, o)
    BY <1>4 DEF Operations, Proper, SetsRemote, Adds
<1> HIDE DEF o, d, y
<1>6. Continues(p, m, x, mgr[Other(p)].made)
    BY <1>2, <1>5, CreatedContinues DEF y
<1> HIDE DEF x
<1> QED
    BY <1>3, <1>6, ContinueStep

LEMMA RemoteDescriptionSetStep ==
    ASSUME NegotiationInv, NEW p \in Pages, RemoteDescriptionSet(p)
    PROVE  NegotiationInv'
<1> DEFINE m == mgr[p]
           d == Head(m.ops).description
           x == drainIceQueue(p, [Done(m) EXCEPT !.remote = d.pc])
<1>1. Pending(p, "setRemoteDescription") /\ Acceptable(m, d) /\ Resume(p, x)
    BY DEF RemoteDescriptionSet
<1>2. /\ m \in Manager /\ mgr[Other(p)].made \in Nat
      /\ ManagerInv(p, m, mgr[Other(p)].made) /\ QueueInv(m)
      /\ m.ops # <<>> /\ SetsRemote(Head(m.ops))
    BY <1>1, PendingHead DEF SetsRemote
<1>3. Continues(p, m, x, mgr[Other(p)].made)
    BY <1>1, <1>2, RemoteSetContinues
<1> HIDE DEF x
<1> QED
    BY <1>1, <1>3, ContinueStep

LEMMA RemoteDescriptionRefusedStep ==
    ASSUME NegotiationInv, NEW p \in Pages, RemoteDescriptionRefused(p)
    PROVE  NegotiationInv'
<1> DEFINE m == mgr[p]
           x == Done(m)
<1>1. /\ Pending(p, "setRemoteDescription") /\ ~Acceptable(m, Head(m.ops).description)
      /\ Resume(p, x)
    BY DEF RemoteDescriptionRefused
<1>2. /\ m \in Manager /\ mgr[Other(p)].made \in Nat
      /\ ManagerInv(p, m, mgr[Other(p)].made) /\ QueueInv(m)
      /\ m.ops # <<>> /\ SetsRemote(Head(m.ops))
    BY <1>1, PendingHead DEF SetsRemote
<1>3. Continues(p, m, x, mgr[Other(p)].made)
    BY <1>1, <1>2, RefusedContinues
<1> HIDE DEF x
<1> QED
    BY <1>1, <1>3, ContinueStep

LEMMA CandidateAddedStep == ASSUME NegotiationInv, NEW p \in Pages, CandidateAdded(p) PROVE NegotiationInv'
<1> DEFINE m == mgr[p]
           h == Head(m.ops)
           A == IF h.candidate.pc = m.remote THEN m.added \cup {h.candidate.n} ELSE m.added
           y == Done(m)
           z == [y EXCEPT !.added = A]
           x == IF h.draining THEN drainIceQueue(p, z) ELSE z
<1>1. Pending(p, "addIceCandidate")
    BY DEF CandidateAdded
<1>2. /\ m \in Manager /\ mgr[Other(p)].made \in Nat
      /\ ManagerInv(p, m, mgr[Other(p)].made) /\ QueueInv(m)
      /\ m.ops # <<>> /\ h.op = "addIceCandidate" /\ h \in Operations
    BY <1>1, PendingHead
<1>3. Adds(h) /\ h.candidate \in Candidates
    BY <1>2, OperationKinds DEF Adds
<1>4. m.added \subseteq 1..MaxCandidates
    BY <1>2, Fields
<1>5. A \subseteq 1..MaxCandidates /\ m.added \subseteq A /\ (h.candidate.pc = m.remote => h.candidate.n \in A)
    BY <1>3, <1>4 DEF Candidates
<1>6. Resume(p, x)
    <2>1. y.added = m.added
        BY <1>2, Popped
    <2>2. z = [Done(m) EXCEPT !.added = IF h.candidate.pc = mgr[p].remote THEN @ \cup {h.candidate.n} ELSE @]
        BY <2>1
    <2> QED
        BY <2>2 DEF CandidateAdded
<1> HIDE DEF h, A
<1>7. /\ z \in Manager /\ Alike(m, z) /\ z.local = m.local /\ z.remote = m.remote /\ z.added = A
      /\ ToSet(m.ops) = {h} \cup ToSet(z.ops) /\ ToSetRemote(z) = ToSetRemote(m)
      /\ ToAdd(m) = ToAdd(z) \cup {h.candidate}
      /\ ManagerInv(p, z, mgr[Other(p)].made) /\ z.pc # 0 /\ z.remote # 0
      /\ ~isInitiator(p) /\ h.draining => NoneLeads(p, z.ops) /\ ~z.local
      /\ ~h.draining => QueueInv(z)
    BY <1>2, <1>3, <1>5, CandidateTaken DEF h
<1> HIDE DEF z
<1>8. (h.draining => x = drainIceQueue(p, z)) /\ (~h.draining => x = z)
    OBVIOUS
<1> HIDE DEF x
<1>9. Continues(p, m, x, mgr[Other(p)].made)
    BY <1>2, <1>3, <1>5, <1>7, <1>8, AddedContinues
<1> QED
    BY <1>6, <1>9, ContinueStep

LEMMA LocalDescriptionSetStep ==
    ASSUME NegotiationInv, NEW p \in Pages, LocalDescriptionSet(p)
    PROVE  NegotiationInv'
<1> DEFINE m == mgr[p]
           h == Head(m.ops)
           b == h.description
           y == Done(m)
           x == [y EXCEPT !.local = TRUE]
<1>1. /\ Pending(p, "setLocalDescription") /\ mgr' = [mgr EXCEPT ![p] = x] /\ inbox' = Relay(p, b)
      /\ UNCHANGED <<online, announced, breaks>>
    BY DEF LocalDescriptionSet
<1>2. /\ m \in Manager /\ mgr[Other(p)].made \in Nat
      /\ ManagerInv(p, m, mgr[Other(p)].made) /\ QueueInv(m)
      /\ m.ops # <<>> /\ h.op = "setLocalDescription" /\ h \in Operations
      /\ Proper(p, m, mgr[Other(p)].made, h) /\ m.pc \in Nat \ {0} /\ m.pc = m.made
    BY <1>1, PendingHead
<1>3. b = [type |-> Describing(p), pc |-> m.pc] /\ b \in Signals
    BY <1>2, OperationKinds DEF Proper, Signals
<1>4. ~Adds(h) /\ ~SetsRemote(h) /\ Leads(p, h) /\ ~Drains(h)
    BY <1>2 DEF Adds, SetsRemote, Drains, Leads
<1>5. /\ y \in Manager /\ Alike(m, y) /\ y.local = m.local /\ y.remote = m.remote /\ y.added = m.added
      /\ ToAdd(y) = ToAdd(m) /\ ToSetRemote(y) = ToSetRemote(m)
    BY <1>2, <1>4, Popped, PoppedSignals
<1>6. ManagerInv(p, y, mgr[Other(p)].made) /\ NoneLeads(p, y.ops) /\ ~m.local /\ QueueInv(y)
    BY <1>2, <1>4, DoneKeeps, QueueDone
<1>7. y.pc # 0 /\ m.gathered = 0
    <2>1. m.gathered \in Nat
        BY <1>2, Fields, NegotiationAssumption
    <2> QED
        BY <1>2, <1>5, <1>6, <2>1 DEF Alike, ManagerInv
<1> HIDE DEF y
<1>8. /\ x \in Manager /\ Alike(y, x) /\ x.ops = y.ops /\ x.local /\ x.remote = y.remote /\ x.added = y.added
      /\ x.queue = y.queue /\ ToAdd(x) = ToAdd(y) /\ ToSetRemote(x) = ToSetRemote(y)
    BY <1>5, Localized
<1>9. ManagerInv(p, x, mgr[Other(p)].made) /\ QueueInv(x)
    <2>1. ManagerInv(p, x, mgr[Other(p)].made)
        BY <1>2, <1>5, <1>6, <1>7, LocalizedKeeps
    <2> HIDE DEF x
    <2> QED
        BY <1>6, <1>8, <2>1 DEF QueueInv
<1> HIDE DEF x, h
<1>10. Ordered(inbox[Other(p)], mgr[Other(p)], m) => Ordered(Append(inbox[Other(p)], b), mgr[Other(p)], x)
    <2>1. inbox[Other(p)] \in Seq(Signals)
        BY AtPage
    <2>2. x.pc = m.pc /\ x.local /\ x.gathered = 0
        BY <1>5, <1>7, <1>8 DEF Alike
    <2> QED
        BY <1>3, <1>6, <2>1, <2>2, PeerDescribes
<1>11. /\ b.type \in {"offer", "answer"} /\ b.type = Describing(p) /\ b.pc = m.pc
       /\ isInitiator(p) => b.type = "offer"
    BY <1>3 DEF Describing
<1>12. x.made = m.made /\ x.listening = m.listening /\ x.pc = m.pc /\ b.pc <= x.made
    BY <1>2, <1>5, <1>8, <1>11 DEF Alike
<1> HIDE DEF b
<1> QED
    BY <1>1, <1>3, <1>5, <1>8, <1>9, <1>10, <1>11, <1>12, SendStep

LEMMA CandidateGatheredStep ==
    ASSUME NegotiationInv, NEW p \in Pages, CandidateGathered(p)
    PROVE  NegotiationInv'
<1> DEFINE m == mgr[p]
           g == m.gathered + 1
           b == Candidate(m.pc, g)
           x == [m EXCEPT !.gathered = g]
<1>1. /\ m \in Manager /\ mgr[Other(p)].made \in Nat /\ inbox[Other(p)] \in Seq(Signals)
      /\ ManagerInv(p, m, mgr[Other(p)].made) /\ QueueInv(m) /\ m.pc \in Nat
    BY AtPage, Fields
<1>2. /\ m.local /\ m.gathered < MaxCandidates /\ mgr' = [mgr EXCEPT ![p] = x] /\ inbox' = Relay(p, b)
      /\ UNCHANGED <<online, announced, breaks>>
    BY <1>1 DEF CandidateGathered, Manager
<1>3. g \in 1..MaxCandidates /\ g \in 0..MaxCandidates
    BY <1>1, <1>2, Fields, NegotiationAssumption
<1>4. m.pc = m.made /\ m.pc # 0
    BY <1>1, <1>2 DEF ManagerInv
<1>5. b \in Candidates /\ b \in Signals /\ b.type = "ice-candidate" /\ b.pc = m.pc
    BY <1>1, <1>3, <1>4 DEF Candidate, Candidates, Signals
<1>6. /\ x \in Manager /\ x.listening = m.listening /\ x.pc = m.pc /\ x.made = m.made /\ x.local = m.local
      /\ x.remote = m.remote /\ x.gathered = g /\ x.added = m.added /\ x.queue = m.queue /\ x.ops = m.ops
      /\ x.open = m.open
    BY <1>1, <1>3 DEF Manager
<1> HIDE DEF x, b
<1>7. ToAdd(x) = ToAdd(m) /\ ToSetRemote(x) = ToSetRemote(m) /\ (Offering(m) => Offering(x))
    BY <1>6 DEF ToAdd, ToSetRemote, Offering
<1>8. ManagerInv(p, x, mgr[Other(p)].made) /\ QueueInv(x)
    BY <1>1, <1>2, <1>6 DEF ManagerInv, Proper, QueueInv
<1>9. Ordered(inbox[Other(p)], mgr[Other(p)], m) => Ordered(Append(inbox[Other(p)], b), mgr[Other(p)], x)
    BY <1>1, <1>2, <1>5, <1>6, PeerGathers DEF b
<1>10. b.pc <= x.made
    BY <1>1, <1>4, <1>5, <1>6
<1> HIDE DEF g
<1> QED
    BY <1>2, <1>5, <1>6, <1>7, <1>8, <1>9, <1>10, SendStep

LEMMA ChannelOpensStep == ASSUME NegotiationInv, NEW p \in Pages, ChannelOpens(p) PROVE NegotiationInv'
<1> DEFINE q == Other(p)
           m == mgr[p]
           x == [m EXCEPT !.open = TRUE]
<1>1. /\ m \in Manager /\ mgr[q] \in Manager /\ mgr[q].made \in Nat /\ m.made \in Nat /\ inbox[p] \in Seq(Signals)
      /\ ManagerInv(p, m, mgr[q].made) /\ QueueInv(m)
      /\ InboxInv(p, inbox[p], mgr[q].made) /\ InboxInv(q, inbox[q], m.made)
    BY AtPage
<1>2. /\ mgr' = [mgr EXCEPT ![p] = x] /\ UNCHANGED <<inbox, online, announced, breaks>> /\ Matched
    BY <1>1 DEF ChannelOpens, Manager
<1>3. m.local
    BY <1>2 DEF Matched, Pages
<1>4. /\ x \in Manager /\ x.listening = m.listening /\ x.pc = m.pc /\ x.made = m.made /\ x.local = m.local
      /\ x.remote = m.remote /\ x.gathered = m.gathered /\ x.added = m.added /\ x.queue = m.queue /\ x.ops = m.ops
    BY <1>1 DEF Manager
<1> HIDE DEF x
<1>5. ToAdd(x) = ToAdd(m) /\ ToSetRemote(x) = ToSetRemote(m)
    BY <1>4 DEF ToAdd, ToSetRemote
<1>6. ManagerInv(p, x, mgr[q].made) /\ QueueInv(x)
    BY <1>1, <1>3, <1>4 DEF ManagerInv, Proper, QueueInv
<1>7. ASSUME breaks = 0
      PROVE  /\ x.listening
             /\ \A b \in ToSet(inbox'[p]) \cup ToSet(inbox'[q]) : b.type # "peer-left"
             /\ Ordered(inbox'[p], x, mgr[q]) /\ Ordered(inbox'[q], mgr[q], x)
             /\ p = "sender" => Follows(inbox'["receiver"], x, mgr["receiver"])
             /\ p = "receiver" => Follows(inbox'["receiver"], mgr["sender"], x)
    <2>1. /\ m.listening /\ Ordered(inbox[p], m, mgr[q]) /\ Ordered(inbox[q], mgr[q], m)
          /\ \A b \in ToSet(inbox[p]) \cup ToSet(inbox[q]) : b.type # "peer-left"
          /\ Follows(inbox["receiver"], mgr["sender"], mgr["receiver"])
        BY <1>7, AtPage
    <2>2. Ordered(inbox[p], x, mgr[q])
        <3>1. Advances(m, x, mgr[q].pc)
            BY <1>4, <1>5, AdvancesAlike
        <3> QED
            BY <1>1, <1>4, <2>1, <3>1, Resumed
    <2>3. Ordered(inbox[q], mgr[q], x)
        BY <1>4, <2>1, PeerAlike
    <2>4. ASSUME p = "sender" PROVE Follows(inbox["receiver"], x, mgr["receiver"])
        BY <1>4, <2>1, <2>4, FollowsSender DEF Offering
    <2>5. ASSUME p = "receiver" PROVE Follows(inbox["receiver"], mgr["sender"], x)
        BY <1>4, <1>5, <2>1, <2>5, FollowsReceiver DEF Settled
    <2> QED
        BY <1>2, <1>4, <2>1, <2>2, <2>3, <2>4, <2>5
<1>8. m.made <= x.made /\ inbox' \in [Pages -> Seq(Signals)] /\ UNCHANGED <<online, announced, breaks>>
    BY <1>1, <1>2, <1>4 DEF NegotiationInv
<1>9. InboxInv(p, inbox'[p], mgr[q].made) /\ InboxInv(q, inbox'[q], x.made)
    BY <1>1, <1>2, <1>4
<1> QED
    BY <1>2, <1>4, <1>6, <1>7, <1>8, <1>9, PageStep

LEMMA AnnounceStep == ASSUME NegotiationInv, Announce PROVE NegotiationInv'
<1>1. /\ announced' = announced + 1 /\ announced < MaxAnnouncements /\ UNCHANGED <<mgr, online, breaks>>
      /\ inbox' = [p \in Pages |-> Append(inbox[p], PeerJoined)]
    BY DEF Announce
<1>2. PeerJoined \in Signals /\ PeerJoined.type = "peer-joined"
    BY DEF PeerJoined, Signals
<1>3. announced' \in 0..MaxAnnouncements
    BY <1>1, NegotiationAssumption DEF NegotiationInv
<1>4. ASSUME NEW p \in Pages
      PROVE  /\ inbox'[p] \in Seq(Signals) /\ inbox'[p] = Append(inbox[p], PeerJoined)
             /\ ToSet(inbox'[p]) = ToSet(inbox[p]) \cup {PeerJoined}
    <2>1. inbox[p] \in Seq(Signals)
        BY AtPage
    <2>2. inbox'[p] = Append(inbox[p], PeerJoined)
        BY <1>1
    <2> HIDE DEF PeerJoined
    <2> QED
        BY <1>2, <2>1, <2>2, Appended
<1>5. \A p \in Pages : InboxInv(p, inbox'[p], mgr[Other(p)].made)
    BY <1>2, <1>4 DEF NegotiationInv, InboxInv
<1>6. ASSUME breaks = 0
      PROVE  /\ \A p \in Pages : /\ \A b \in ToSet(inbox'[p]) : b.type # "peer-left"
                                 /\ Ordered(inbox'[p], mgr[p], mgr[Other(p)])
             /\ Follows(inbox'["receiver"], mgr["sender"], mgr["receiver"])
    <2>1. ASSUME NEW p \in Pages
          PROVE  /\ \A b \in ToSet(inbox'[p]) : b.type # "peer-left"
                 /\ Ordered(inbox'[p], mgr[p], mgr[Other(p)])
        <3>1. /\ inbox[p] \in Seq(Signals) /\ Ordered(inbox[p], mgr[p], mgr[Other(p)])
              /\ \A b \in ToSet(inbox[p]) : b.type # "peer-left"
            BY <1>6, AtPage
        <3>2. ~About(PeerJoined, mgr[Other(p)].pc)
            BY <1>2 DEF About
        <3>3. Ordered(Append(inbox[p], PeerJoined), mgr[p], mgr[Other(p)])
            BY <1>2, <3>1, <3>2, PeerAppends
        <3>4. inbox'[p] = Append(inbox[p], PeerJoined) /\ ToSet(inbox'[p]) = ToSet(inbox[p]) \cup {PeerJoined}
            BY <1>4
        <3>5. Ordered(inbox'[p], mgr[p], mgr[Other(p)])
            BY <3>3, <3>4
        <3>6. \A b \in ToSet(inbox'[p]) : b.type # "peer-left"
            BY <1>2, <3>1, <3>4
        <3> QED
            BY <3>5, <3>6
    <2>2. Follows(inbox'["receiver"], mgr["sender"], mgr["receiver"])
        <3>1. "receiver" \in Pages
            BY TwoPages
        <3>2. inbox["receiver"] \in Seq(Signals) /\ Follows(inbox["receiver"], mgr["sender"], mgr["receiver"])
            BY <1>6, <3>1, AtPage
        <3>3. PeerJoined.type # "offer" /\ inbox'["receiver"] = Append(inbox["receiver"], PeerJoined)
            BY <1>2, <1>4, <3>1
        <3> HIDE DEF PeerJoined
        <3> QED
            BY <1>2, <3>2, <3>3, FollowsAppend
    <2> QED
        BY <2>1, <2>2
<1>7. inbox' \in [Pages -> Seq(Signals)]
    BY <1>1, <1>4
<1> QED
    BY <1>1, <1>3, <1>5, <1>6, <1>7 DEF NegotiationInv, Undisturbed

LEMMA BreakStep == ASSUME NegotiationInv, NEW p \in Pages, Break(p) PROVE NegotiationInv'
<1>1. /\ p \in online /\ breaks < MaxBreaks /\ breaks' = breaks + 1 /\ online' = online \ {p}
      /\ UNCHANGED <<mgr, announced>>
      /\ inbox' = [r \in Pages |-> IF r = p THEN <<>>
                                   ELSE IF r \in online THEN Append(inbox[r], PeerLeft) ELSE inbox[r]]
    BY DEF Break
<1>2. PeerLeft \in Signals /\ PeerLeft.type = "peer-left"
    BY DEF PeerLeft, Signals
<1>3. breaks' \in 0..MaxBreaks /\ breaks' # 0
    BY <1>1, NegotiationAssumption DEF NegotiationInv
<1>4. ASSUME NEW r \in Pages
      PROVE  inbox'[r] \in Seq(Signals) /\ ToSet(inbox'[r]) \subseteq ToSet(inbox[r]) \cup {PeerLeft}
    <2>1. inbox[r] \in Seq(Signals)
        BY AtPage
    <2>2. /\ Append(inbox[r], PeerLeft) \in Seq(Signals)
          /\ ToSet(Append(inbox[r], PeerLeft)) = ToSet(inbox[r]) \cup {PeerLeft}
        BY <1>2, <2>1, Appended
    <2>3. ToSet(<<>>) = {} /\ <<>> \in Seq(Signals)
        BY <2>1, Listed
    <2>4. inbox'[r] \in {<<>>, Append(inbox[r], PeerLeft), inbox[r]}
        BY <1>1
    <2> QED
        BY <2>1, <2>2, <2>3, <2>4
<1>5. \A r \in Pages : InboxInv(r, inbox'[r], mgr[Other(r)].made)
    BY <1>2, <1>4 DEF NegotiationInv, InboxInv
<1>6. inbox' \in [Pages -> Seq(Signals)]
    BY <1>1, <1>4
<1> QED
    BY <1>1, <1>3, <1>5, <1>6 DEF NegotiationInv

LEMMA RejoinStep == ASSUME NegotiationInv, NEW p \in Pages, Rejoin(p) PROVE NegotiationInv'
<1>1. online' = online \cup {p} /\ UNCHANGED <<mgr, inbox, announced, breaks>> /\ p \notin online
    BY DEF Rejoin
<1>2. breaks # 0
    BY <1>1 DEF NegotiationInv, Undisturbed
<1> QED
    BY <1>1, <1>2 DEF NegotiationInv

LEMMA NegotiationStep == ASSUME NegotiationInv, [NegotiationNext]_negotiationVars PROVE NegotiationInv'
<1>1. ASSUME NEW p \in Pages, Hear(p) PROVE NegotiationInv'
    BY <1>1, HearPeerJoinedStep, HearOfferStep, HearAnswerStep, HearCandidateStep, HearPeerLeftStep, UnheardStep
       DEF Hear
<1>2. ASSUME NEW p \in Pages, Complete(p) PROVE NegotiationInv'
    BY <1>2, CreatedStep, RemoteDescriptionSetStep, RemoteDescriptionRefusedStep, CandidateAddedStep,
       LocalDescriptionSetStep
       DEF Complete
<1>3. CASE UNCHANGED negotiationVars
    BY <1>3 DEF negotiationVars, NegotiationInv, Undisturbed
<1> QED
    BY <1>1, <1>2, <1>3, CandidateGatheredStep, ChannelOpensStep, BreakStep, RejoinStep, AnnounceStep
       DEF NegotiationNext

LEMMA NegotiationStart == ASSUME NegotiationInit PROVE NegotiationInv
<1>1. /\ mgr = [p \in Pages |-> NoConnection] /\ inbox = [p \in Pages |-> <<>>]
      /\ online = Pages /\ announced = 0 /\ breaks = 0
    BY DEF NegotiationInit
<1>2. \A p \in Pages : mgr[p] = NoConnection /\ inbox[p] = <<>> /\ Other(p) \in Pages
    BY <1>1, TwoPages
<1>3. NoConnection \in Manager
    BY NegotiationAssumption DEF NoConnection, Manager
<1>4. /\ NoConnection.listening /\ NoConnection.pc = 0 /\ NoConnection.made = 0 /\ ~NoConnection.local
      /\ NoConnection.remote = 0 /\ NoConnection.gathered = 0 /\ NoConnection.added = {}
      /\ NoConnection.queue = <<>> /\ NoConnection.ops = <<>> /\ ~NoConnection.open
    BY DEF NoConnection
<1> HIDE DEF NoConnection
<1>5. ToSet(<<>>) = {} /\ Len(<<>>) = 0
    BY DEF ToSet
<1>6. \A p \in Pages : ManagerInv(p, NoConnection, 0) /\ QueueInv(NoConnection) /\ InboxInv(p, <<>>, 0)
    BY <1>4, <1>5 DEF ManagerInv, OneLeads, NoneLeads, QueueInv, InboxInv
<1>7. Ordered(<<>>, NoConnection, NoConnection)
    BY <1>4 DEF Ordered
<1>8. ToSetRemote(NoConnection) = {}
    BY <1>4, <1>5 DEF ToSetRemote
<1>9. Follows(<<>>, NoConnection, NoConnection)
    BY <1>4, <1>5, <1>8 DEF Follows, Settled
<1>10. Undisturbed
    BY <1>1, <1>2, <1>4, <1>5, <1>7, <1>9, TwoPages DEF Undisturbed
<1> QED
    BY <1>1, <1>2, <1>3, <1>4, <1>6, <1>10, NegotiationAssumption DEF NegotiationInv

----------------------------------------------------------------------------
(* The theorems *)

\* In every reachable state the messages, the operations and the queues of the two
\* managers are what the argument says: who sends what, that a connection is described
\* once and before its candidates, and where each candidate is.
THEOREM NegotiationSafety == NegotiationSpec => []NegotiationInv
<1>1. NegotiationInit => NegotiationInv
    BY NegotiationStart
<1>2. NegotiationInv /\ [NegotiationNext]_negotiationVars => NegotiationInv'
    BY NegotiationStep
<1> QED
    BY <1>1, <1>2, PTL DEF NegotiationSpec

LEMMA TypesFollow == NegotiationInv => NegotiationTypeOK
<1> SUFFICES ASSUME NegotiationInv PROVE NegotiationTypeOK
    OBVIOUS
<1>1. ASSUME NEW p \in Pages
      PROVE  /\ mgr[p].pc \in {0, mgr[p].made}
             /\ mgr[p].pc = 0 => mgr[p].ops = <<>> /\ mgr[p].added = {} /\ mgr[p].remote = 0 /\ ~mgr[p].open
             /\ mgr[p].remote \in 0..mgr[Other(p)].made
             /\ mgr[p].added \subseteq 1..MaxCandidates
             /\ \A k \in 1..Len(mgr[p].ops) : Op(mgr[p].ops[k])
             /\ \A k \in 1..Len(mgr[p].queue) : mgr[p].queue[k].type = "ice-candidate"
    <2>1. /\ mgr[p] \in Manager /\ ManagerInv(p, mgr[p], mgr[Other(p)].made) /\ mgr[Other(p)].made \in Nat
        BY AtPage
    <2>2. /\ mgr[p].remote \in Nat /\ mgr[p].added \subseteq 1..MaxCandidates
          /\ mgr[p].queue \in Seq(Candidates) /\ mgr[p].ops \in Seq(Operations)
        BY <2>1, Fields
    <2>3. mgr[p].remote \in 0..mgr[Other(p)].made
        BY <2>1, <2>2 DEF ManagerInv
    <2>4. ASSUME NEW k \in 1..Len(mgr[p].ops) PROVE Op(mgr[p].ops[k])
        <3>1. mgr[p].ops[k] \in Operations
            BY <2>2
        <3> QED
            BY <3>1, OperationKinds DEF Op, Candidates
    <2>5. ASSUME NEW k \in 1..Len(mgr[p].queue) PROVE mgr[p].queue[k].type = "ice-candidate"
        <3>1. mgr[p].queue[k] \in Candidates
            BY <2>2
        <3> QED
            BY <3>1 DEF Candidates
    <2> QED
        BY <2>1, <2>2, <2>3, <2>4, <2>5 DEF ManagerInv
<1> QED
    BY <1>1 DEF NegotiationInv, NegotiationTypeOK

\* Whatever the pages do, a manager that has no connection has nothing of one, and
\* its chain holds operations of a connection.
THEOREM NegotiationTypeCorrect == NegotiationSpec => []NegotiationTypeOK
BY NegotiationSafety, TypesFollow, PTL

\* drainIceQueue and the test in handleRemoteIceCandidate never leave a candidate in
\* the queue of a connection that knows its remote description.
THEOREM NoCandidateStrandedHolds == NegotiationSpec => []NoCandidateStranded
<1>1. NegotiationInv => NoCandidateStranded
    <2> SUFFICES ASSUME NegotiationInv, NEW p \in Pages, mgr[p].remote # 0, mgr[p].ops = <<>>
                 PROVE  mgr[p].queue = <<>>
        BY DEF NoCandidateStranded
    <2>1. QueueInv(mgr[p])
        BY AtPage
    <2>2. ToSet(mgr[p].ops) = {}
        BY DEF ToSet
    <2> QED
        BY <2>1, <2>2 DEF QueueInv
<1> QED
    BY <1>1, NegotiationSafety, PTL

\* While no WebSocket breaks, every candidate of the connection that the remote
\* description describes reaches the other connection, or is still on its way there.
THEOREM NoCandidateLostHolds == NegotiationSpec => []NoCandidateLost
<1>1. NegotiationInv => NoCandidateLost
    <2> SUFFICES ASSUME NegotiationInv, breaks = 0, NEW p \in Pages, NEW peer, peer = mgr[Other(p)],
                        mgr[p].remote # 0, mgr[p].remote = peer.pc, NEW n \in 1..peer.gathered
                 PROVE  n \in mgr[p].added \/ Candidate(peer.pc, n) \in Underway(p)
        BY DEF NoCandidateLost
    <2>1. Ordered(inbox[p], mgr[p], peer)
        BY AtPage
    <2>2. \/ Candidate(peer.pc, n) \in ToSet(inbox[p])
          \/ Holds(mgr[p], peer.pc, n)
        BY <2>1 DEF Ordered, Missed
    <2>3. Holds(mgr[p], peer.pc, n) => n \in mgr[p].added \/ Candidate(peer.pc, n) \in ToAdd(mgr[p])
        BY DEF Holds
    <2>4. Underway(p) = ToSet(inbox[p]) \cup ToAdd(mgr[p])
        BY DEF Underway, ToAdd, Adds
    <2> QED
        BY <2>2, <2>3, <2>4
<1> QED
    BY <1>1, NegotiationSafety, PTL

\* When signaling is over and no WebSocket broke, the receiver is set to the sender's
\* current connection, however often the pair was announced.
THEOREM ReceiverFollowsSenderHolds == NegotiationSpec => []ReceiverFollowsSender
<1>1. NegotiationInv => ReceiverFollowsSender
    <2> SUFFICES ASSUME NegotiationInv, Quiet, breaks = 0
                 PROVE  mgr["receiver"].remote = mgr["sender"].pc
        BY DEF ReceiverFollowsSender
    <2>1. Follows(inbox["receiver"], mgr["sender"], mgr["receiver"])
        BY DEF NegotiationInv, Undisturbed
    <2>2. inbox["receiver"] = <<>> /\ mgr["sender"].ops = <<>> /\ mgr["receiver"].ops = <<>>
        BY TwoPages DEF Quiet
    <2>3. ToSet(<<>>) = {} /\ Len(<<>>) = 0
        BY DEF ToSet
    <2>4. ~Offering(mgr["sender"]) /\ ToSetRemote(mgr["receiver"]) = {}
        BY <2>2, <2>3 DEF Offering, ToSetRemote
    <2> QED
        BY <2>1, <2>2, <2>3, <2>4 DEF Follows, Settled
<1> QED
    BY <1>1, NegotiationSafety, PTL
=============================================================================
