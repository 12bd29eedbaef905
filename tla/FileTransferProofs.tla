------------------------- MODULE FileTransferProofs -------------------------
(***************************************************************************)
(* Proofs about FileTransfer, for any batches, chunk size, buffer limits,  *)
(* cancellations and losses of the channel.                                *)
(*                                                                         *)
(* The first part is about the pieces of a file, the second about the      *)
(* channel, whatever is sent and handled; the third goes through the steps *)
(* of both engines.                                                        *)
(***************************************************************************)
EXTENDS FileTransfer, TLAPS

----------------------------------------------------------------------------
(* Sequences and pieces. *)

LEMMA Appended ==
    ASSUME NEW S, NEW q \in Seq(S), NEW m \in S
    PROVE  /\ Append(q, m) \in Seq(S) /\ Append(q, m) # <<>>
           /\ Len(q) \in Nat /\ Len(Append(q, m)) = Len(q) + 1
           /\ \A k \in 1..Len(q) : Append(q, m)[k] = q[k]
           /\ Append(q, m)[Len(q) + 1] = m
OBVIOUS

LEMMA Behead ==
    ASSUME NEW S, NEW q \in Seq(S), q # <<>>
    PROVE  /\ Len(q) \in Nat \ {0} /\ Head(q) = q[1] /\ Head(q) \in S
           /\ Tail(q) \in Seq(S) /\ Len(Tail(q)) = Len(q) - 1
           /\ \A k \in 1..(Len(q) - 1) : Tail(q)[k] = q[k + 1]
OBVIOUS

LEMMA Cut ==
    ASSUME NEW S, NEW q \in Seq(S), NEW n \in 0..Len(q)
    PROVE  /\ SubSeq(q, 1, n) \in Seq(S) /\ Len(SubSeq(q, 1, n)) = n
           /\ \A k \in 1..n : SubSeq(q, 1, n)[k] = q[k]
OBVIOUS

LEMMA Replaced ==
    ASSUME NEW S, NEW q \in Seq(S), NEW x \in S, NEW i
    PROVE  /\ [q EXCEPT ![i] = x] \in Seq(S) /\ Len([q EXCEPT ![i] = x]) = Len(q)
           /\ \A k \in 1..Len(q) : [q EXCEPT ![i] = x][k] = IF k = i THEN x ELSE q[k]
<1> DEFINE n == Len(q)
           e == [q EXCEPT ![i] = x]
<1>1. n \in Nat /\ q \in [1..n -> S]
    OBVIOUS
<1> HIDE DEF n
<1>2. e \in [1..n -> S] /\ \A k \in 1..n : e[k] = IF k = i THEN x ELSE q[k]
    BY <1>1
<1> HIDE DEF e
<1>3. e \in Seq(S) /\ Len(e) = n
    <2>1. e \in Seq(S)
        BY <1>1, <1>2
    <2> QED
        BY <1>1, <1>2, <2>1
<1> QED
    BY <1>2, <1>3 DEF n, e

\* How many pieces a file has: the least number that reaches its end.
LEMMA PieceCount ==
    ASSUME NEW size \in Nat, NEW c \in Nat, size <= c * ChunkSize,
           c # 0 => (c - 1) * ChunkSize < size
    PROVE  (size + ChunkSize - 1) \div ChunkSize = c
<1>1. ChunkSize \in Nat \ {0}
    BY TransferAssumption
<1>2. (c - 1) * ChunkSize = c * ChunkSize - ChunkSize /\ c * ChunkSize \in Nat
    BY <1>1
<1>3. c = 0 => c * ChunkSize = 0
    BY <1>1
<1>4. c * ChunkSize <= size + ChunkSize - 1 /\ size + ChunkSize - 1 < c * ChunkSize + ChunkSize
    BY <1>1, <1>2, <1>3
<1> QED
    BY <1>1, <1>4

\* One more piece.
LEMMA PieceAdded ==
    ASSUME NEW i \in Nat, NEW size \in Nat, NEW c \in Nat, NEW from \in Nat,
           from < size, from = BytesOf(c, size)
    PROVE  /\ from = c * ChunkSize
           /\ Piece(i, size, from).size \in Nat \ {0}
           /\ from + Piece(i, size, from).size <= size
           /\ BytesOf(c + 1, size) = from + Piece(i, size, from).size
<1>1. ChunkSize \in Nat \ {0}
    BY TransferAssumption
<1>2. from = c * ChunkSize
    BY DEF BytesOf
<1>3. (c + 1) * ChunkSize = from + ChunkSize
    BY <1>1, <1>2
<1> QED
    BY <1>1, <1>2, <1>3 DEF BytesOf, Piece

----------------------------------------------------------------------------
(* The channel. *)

\* Nothing is sent or handled.
LEMMA Kept ==
    ASSUME ChannelInv, UNCHANGED <<channel, batch>>, onWire' \in 0..Len(channel),
           rx'.told = rx.told, ReceiverAt(rx') = ReceiverAt(rx), isCancelled => isCancelled'
    PROVE  /\ ChannelInv'
           /\ \A p : EndsAt(channel, rx, p) => EndsAt(channel', rx', p)
BY DEF ChannelInv, EndsAt

\* A message is sent where it belongs, or to cancel.
LEMMA Sent ==
    ASSUME ChannelInv, NEW m \in Messages(batch), OfBatch(m, batch),
           channel' = Append(channel, m), UNCHANGED <<batch, onWire, rx>>,
           IsCancel(m) \/ EndsAt(channel, rx, Before(m, batch)),
           isCancelled \/ IsCancel(m) => isCancelled',
           isCancelled => Harmless(m)
    PROVE  /\ ChannelInv'
           /\ \A p : IsCancel(m) \/ After(m) = p => EndsAt(channel', rx', p)
<1> DEFINE n == Len(channel)
           q == channel'
<1>1. channel \in Seq(Messages(batch))
    BY DEF ChannelInv
<1>2. /\ q \in Seq(Messages(batch)) /\ q # <<>> /\ n \in Nat /\ Len(q) = n + 1
      /\ \A k \in 1..n : q[k] = channel[k]
      /\ q[n + 1] = m
    BY <1>1, Appended
<1> HIDE DEF q
<1>3. \A k \in 1..Len(q) : (k \in 1..n /\ q[k] = channel[k]) \/ (k = n + 1 /\ q[k] = m)
    BY <1>2
<1> HIDE DEF n
<1>4. q \in Seq(Messages(batch)) /\ onWire \in 0..Len(q)
    BY <1>2 DEF ChannelInv, n
<1>5. \A k \in 1..Len(q) : OfBatch(q[k], batch)
    BY <1>3 DEF ChannelInv, n
<1>6. ASSUME NEW k \in 2..Len(q)
      PROVE  IsCancel(q[k-1]) \/ IsCancel(q[k]) \/ Before(q[k], batch) = After(q[k-1])
    <2>1. CASE k \in 2..n
        <3>1. k \in 1..n /\ k - 1 \in 1..n
            BY <1>2, <2>1
        <3>2. q[k] = channel[k] /\ q[k-1] = channel[k-1]
            BY <1>2, <3>1
        <3> QED
            BY <2>1, <3>2 DEF ChannelInv, n
    <2>2. CASE k = n + 1
        <3>1. n \in 1..n /\ k - 1 = n /\ q[k-1] = channel[n] /\ q[k] = m /\ channel # <<>>
            BY <1>1, <1>2, <1>6, <2>2 DEF n
        <3> QED
            BY <3>1 DEF EndsAt, n
    <2> QED
        BY <1>2, <1>6, <2>1, <2>2
<1>7. rx.told \/ IsCancel(q[1]) \/ Before(q[1], batch) = ReceiverAt(rx)
    <2>1. CASE channel = <<>>
        <3>1. q[1] = m
            BY <1>2, <2>1 DEF n
        <3> QED
            BY <2>1, <3>1 DEF EndsAt
    <2>2. CASE channel # <<>>
        <3>1. 1 \in 1..n
            BY <1>1, <1>2, <2>2 DEF n
        <3> QED
            BY <1>2, <2>2, <3>1 DEF ChannelInv
    <2> QED
        BY <2>1, <2>2
<1>8. ASSUME NEW j \in 1..Len(q), NEW k \in 1..Len(q), j < k, IsCancel(q[j]) PROVE Harmless(q[k])
    <2>1. j \in 1..n /\ q[j] = channel[j] /\ isCancelled
        BY <1>2, <1>8 DEF ChannelInv, n
    <2>2. CASE k \in 1..n
        BY <1>2, <1>8, <2>1, <2>2 DEF ChannelInv, n
    <2>3. CASE k = n + 1
        BY <1>2, <2>1, <2>3
    <2> QED
        BY <1>3, <2>2, <2>3
<1>9. rx.told => isCancelled' /\ \A k \in 1..Len(q) : Harmless(q[k])
    BY <1>3 DEF ChannelInv, n
<1>10. \A k \in 1..Len(q) : IsCancel(q[k]) => isCancelled'
    BY <1>3 DEF ChannelInv, n
<1>11. ChannelInv'
    BY <1>4, <1>5, <1>6, <1>7, <1>8, <1>9, <1>10 DEF ChannelInv, q
<1>12. \A p : IsCancel(m) \/ After(m) = p => EndsAt(q, rx', p)
    BY <1>2 DEF EndsAt
<1> QED
    BY <1>11, <1>12 DEF q

\* The receiver handles the message at the head, which moves it on or cancels.
LEMMA Handled ==
    ASSUME ChannelInv, onWire > 0, channel' = Tail(channel), onWire' = onWire - 1,
           UNCHANGED <<batch, isCancelled>>,
           rx'.told <=> rx.told \/ IsCancel(Head(channel)),
           rx'.told \/ ReceiverAt(rx') = After(Head(channel))
    PROVE  /\ ChannelInv'
           /\ \A p : EndsAt(channel, rx, p) => EndsAt(channel', rx', p)
<1> DEFINE n == Len(channel)
           q == channel'
<1>1. channel \in Seq(Messages(batch)) /\ onWire \in 0..n
    BY DEF ChannelInv
<1>2. channel # <<>>
    BY <1>1
<1>3. /\ n \in Nat \ {0} /\ Head(channel) = channel[1]
      /\ q \in Seq(Messages(batch)) /\ Len(q) = n - 1
      /\ \A k \in 1..(n - 1) : q[k] = channel[k + 1]
    BY <1>1, <1>2, Behead
<1> HIDE DEF q
<1>4. q \in Seq(Messages(batch)) /\ onWire' \in 0..Len(q)
    BY <1>1, <1>3
<1>5. \A k \in 1..Len(q) : k + 1 \in 2..n /\ k + 1 \in 1..n /\ q[k] = channel[k + 1]
    BY <1>3
<1> HIDE DEF n
<1>6. \A k \in 1..Len(q) : OfBatch(q[k], batch)
    BY <1>5 DEF ChannelInv, n
<1>7. ASSUME NEW k \in 2..Len(q)
      PROVE  IsCancel(q[k-1]) \/ IsCancel(q[k]) \/ Before(q[k], batch) = After(q[k-1])
    <2>1. /\ k \in 1..Len(q) /\ k - 1 \in 1..Len(q) /\ (k - 1) + 1 = k /\ (k + 1) - 1 = k
        BY <1>3, <1>7
    <2>2. q[k] = channel[k + 1] /\ q[k-1] = channel[k] /\ k + 1 \in 2..n
        BY <1>5, <2>1
    <2> QED
        BY <2>1, <2>2 DEF ChannelInv, n
<1>8. q # <<>> => rx'.told \/ IsCancel(q[1]) \/ Before(q[1], batch) = ReceiverAt(rx')
    <2> SUFFICES ASSUME q # <<>>, ~rx'.told PROVE IsCancel(q[1]) \/ Before(q[1], batch) = ReceiverAt(rx')
        OBVIOUS
    <2>1. 1 \in 1..Len(q)
        BY <1>4
    <2>2. 2 \in 2..n /\ q[1] = channel[2] /\ 2 - 1 = 1
        BY <1>5, <2>1
    <2>3. IsCancel(channel[1]) \/ IsCancel(channel[2]) \/ Before(channel[2], batch) = After(channel[1])
        BY <2>2 DEF ChannelInv, n
    <2> QED
        BY <1>3, <2>2, <2>3
<1>9. ASSUME NEW j \in 1..Len(q), NEW k \in 1..Len(q), j < k, IsCancel(q[j]) PROVE Harmless(q[k])
    <2>1. /\ j + 1 \in 1..n /\ k + 1 \in 1..n /\ j + 1 < k + 1
          /\ q[j] = channel[j + 1] /\ q[k] = channel[k + 1]
        BY <1>5, <1>9
    <2> QED
        BY <1>9, <2>1 DEF ChannelInv, n
<1>10. rx'.told => isCancelled /\ \A k \in 1..Len(q) : Harmless(q[k])
    <2>1. CASE rx.told
        BY <1>5, <2>1 DEF ChannelInv, n
    <2>2. CASE IsCancel(channel[1])
        <3>1. 1 \in 1..n
            BY <1>3
        <3>2. isCancelled
            BY <2>2, <3>1 DEF ChannelInv, n
        <3>3. ASSUME NEW k \in 1..Len(q) PROVE Harmless(q[k])
            <4>1. k + 1 \in 1..n /\ 1 < k + 1 /\ q[k] = channel[k + 1]
                BY <1>5, <3>3
            <4> QED
                BY <2>2, <3>1, <4>1 DEF ChannelInv, n
        <3> QED
            BY <3>2, <3>3
    <2> QED
        BY <1>3, <2>1, <2>2
<1>11. \A k \in 1..Len(q) : IsCancel(q[k]) => isCancelled
    BY <1>5 DEF ChannelInv, n
<1>12. ChannelInv'
    BY <1>4, <1>6, <1>7, <1>8, <1>9, <1>10, <1>11 DEF ChannelInv, q
<1>13. ASSUME NEW p, EndsAt(channel, rx, p) PROVE EndsAt(q, rx', p)
    <2>1. IsCancel(channel[n]) \/ After(channel[n]) = p
        BY <1>2, <1>13 DEF EndsAt, n
    <2>2. CASE q = <<>>
        <3>1. n = 1
            BY <1>3, <2>2
        <3> QED
            BY <1>3, <2>1, <2>2, <3>1 DEF EndsAt
    <2>3. CASE q # <<>>
        <3>1. Len(q) \in 1..Len(q) /\ Len(q) + 1 = n
            BY <1>3, <1>4, <2>3
        <3>2. q[Len(q)] = channel[n]
            BY <1>5, <3>1
        <3> QED
            BY <2>1, <2>3, <3>2 DEF EndsAt
    <2> QED
        BY <2>2, <2>3
<1> QED
    BY <1>12, <1>13 DEF q

\* The end of the stream is lost with the channel.
LEMMA Lost ==
    ASSUME ChannelInv, NEW n \in 0..onWire, channel' = SubSeq(channel, 1, n), onWire' = n,
           UNCHANGED <<batch, isCancelled, rx>>
    PROVE  ChannelInv'
<1> DEFINE q == channel'
<1>1. channel \in Seq(Messages(batch)) /\ onWire \in 0..Len(channel) /\ Len(channel) \in Nat
    BY DEF ChannelInv
<1>2. n \in 0..Len(channel)
    BY <1>1
<1>3. q \in Seq(Messages(batch)) /\ Len(q) = n /\ \A k \in 1..n : q[k] = channel[k]
    BY <1>1, <1>2, Cut
<1> HIDE DEF q
<1>4. \A k \in 1..Len(q) : k \in 1..Len(channel) /\ q[k] = channel[k]
    BY <1>1, <1>2, <1>3
<1>5. ASSUME NEW k \in 2..Len(q)
      PROVE  IsCancel(q[k-1]) \/ IsCancel(q[k]) \/ Before(q[k], batch) = After(q[k-1])
    <2>1. k \in 1..Len(q) /\ k - 1 \in 1..Len(q) /\ k \in 2..Len(channel)
        BY <1>1, <1>2, <1>3, <1>5
    <2> QED
        BY <1>4, <2>1 DEF ChannelInv
<1>6. q # <<>> => rx.told \/ IsCancel(q[1]) \/ Before(q[1], batch) = ReceiverAt(rx)
    <2> SUFFICES ASSUME q # <<>> PROVE rx.told \/ IsCancel(q[1]) \/ Before(q[1], batch) = ReceiverAt(rx)
        OBVIOUS
    <2>1. 1 \in 1..Len(q)
        BY <1>3
    <2>2. q[1] = channel[1] /\ channel # <<>>
        BY <1>1, <1>4, <2>1
    <2> QED
        BY <2>2 DEF ChannelInv
<1> QED
    BY <1>2, <1>3, <1>4, <1>5, <1>6 DEF ChannelInv, q

----------------------------------------------------------------------------
(* The sender. *)

\* Batches are sequences of sizes.
LEMMA BatchType ==
    ASSUME batch \in Batches \cup {<<>>}
    PROVE  batch \in Seq(Nat) /\ Len(batch) \in Nat /\ \A i \in 1..Len(batch) : batch[i] \in Nat
<1>1. CASE batch \in Batches
    BY <1>1, TransferAssumption
<1>2. CASE batch = <<>>
    BY <1>2
<1> QED
    BY <1>1, <1>2

\* Neither the sender nor its channel does anything.
LEMMA SenderKept ==
    ASSUME SenderInv, UNCHANGED <<batch, pc, fileIndex, offset, isCancelled>>, open' => open,
           pc = "idle" => channel' = <<>> /\ ReceiverAt(rx') = ReceiverAt(rx),
           open' => \A p : EndsAt(channel, rx, p) => EndsAt(channel', rx', p)
    PROVE  SenderInv'
BY DEF SenderInv

LEMMA ReceiverKept == ASSUME ReceiverInv, UNCHANGED <<batch, rx>> PROVE ReceiverInv'
BY DEF ReceiverInv

\* A control message is sent, or dropped because the channel is closed.
LEMMA ControlSent ==
    ASSUME ChannelInv, NEW m \in Messages(batch), OfBatch(m, batch),
           sendControlMessage(m), UNCHANGED <<batch, onWire, rx>>,
           open => IsCancel(m) \/ EndsAt(channel, rx, Before(m, batch)),
           isCancelled \/ IsCancel(m) => isCancelled',
           isCancelled => Harmless(m)
    PROVE  /\ ChannelInv'
           /\ open => \A p : IsCancel(m) \/ After(m) = p => EndsAt(channel', rx', p)
<1>1. CASE open
    <2>1. channel' = Append(channel, m)
        BY <1>1 DEF sendControlMessage
    <2> QED
        BY <1>1, <2>1, Sent
<1>2. CASE ~open
    <2>1. UNCHANGED channel
        BY <1>2 DEF sendControlMessage
    <2>2. onWire' \in 0..Len(channel)
        BY DEF ChannelInv
    <2> QED
        BY <1>2, <2>1, <2>2, Kept
<1> QED
    BY <1>1, <1>2

\* The sender's messages are what they say.
LEMMA ControlMessages ==
    /\ Cancelled \in Messages(batch) /\ OfBatch(Cancelled, batch) /\ IsCancel(Cancelled) /\ Harmless(Cancelled)
    /\ BatchComplete \in Messages(batch) /\ OfBatch(BatchComplete, batch) /\ ~IsCancel(BatchComplete)
    /\ Before(BatchComplete, batch) = Between(Len(batch))
BY DEF Cancelled, BatchComplete, Messages, OfBatch, IsCancel, Harmless, Before

LEMMA FileMessages ==
    ASSUME batch \in Seq(Nat), fileIndex \in 1..Len(batch)
    PROVE  /\ FileStart \in Messages(batch) /\ OfBatch(FileStart, batch) /\ ~IsCancel(FileStart)
           /\ Before(FileStart, batch) = Between(fileIndex - 1) /\ After(FileStart) = In(fileIndex, 0)
           /\ FileEnd \in Messages(batch) /\ OfBatch(FileEnd, batch) /\ ~IsCancel(FileEnd)
           /\ Before(FileEnd, batch) = In(fileIndex, batch[fileIndex]) /\ After(FileEnd) = Between(fileIndex)
<1>1. fileIndex \in Nat /\ batch[fileIndex] \in Nat
    OBVIOUS
<1> QED
    BY <1>1 DEF FileStart, FileEnd, Messages, OfBatch, IsCancel, Before, After

LEMMA SendFilesKeeps == ASSUME StreamInv, NEW files \in Batches, sendFiles(files) PROVE StreamInv'
<1> DEFINE m == [type |-> "batch-start", files |-> files]
           q == channel'
<1>1. /\ SenderInv /\ ReceiverInv /\ ChannelInv
      /\ pc = "idle" /\ batch = <<>> /\ channel = <<>> /\ ~isCancelled /\ ReceiverAt(rx) = Nowhere
      /\ batch' = files /\ q = Append(channel, m) /\ pc' = "file" /\ fileIndex' = 1
      /\ UNCHANGED <<offset, isCancelled, open, onWire, rx>>
    BY DEF StreamInv, SenderInv, sendFiles
<1>2. files \in Seq(Nat) /\ files # <<>> /\ Len(files) \in Nat
    <2>1. files \in Seq(Nat) /\ files # <<>>
        BY TransferAssumption
    <2> QED
        BY <2>1
<1>3. m \in Messages(files) /\ m.type = "batch-start"
    BY DEF Messages
<1>4. <<>> \in Seq(Messages(files)) /\ Len(<<>>) = 0
    OBVIOUS
<1> HIDE DEF m, q
<1>5. q \in Seq(Messages(files)) /\ q # <<>> /\ Len(q) = 1 /\ q[1] = m
    BY <1>1, <1>3, <1>4, Appended
<1>6. \A k \in 1..Len(q) : k = 1 /\ q[k] = m
    BY <1>5
<1>7. OfBatch(m, files) /\ ~IsCancel(m) /\ Before(m, files) = Nowhere /\ After(m) = Between(0)
    BY <1>3 DEF OfBatch, IsCancel, Before, After
<1>8. ~rx.told /\ onWire = 0
    BY <1>1 DEF ChannelInv, ReceiverInv
<1>9. ChannelInv'
    <2>1. \A k \in 2..Len(q) : FALSE
        BY <1>5
    <2>2. onWire \in 0..Len(q)
        BY <1>5, <1>8
    <2>3. \A k \in 1..Len(q) : OfBatch(q[k], files) /\ ~IsCancel(q[k])
        BY <1>6, <1>7
    <2> QED
        BY <1>1, <1>5, <1>7, <1>8, <2>1, <2>2, <2>3 DEF ChannelInv, q
<1>10. EndsAt(q, rx, Between(0))
    BY <1>5, <1>7 DEF EndsAt
<1>11. SenderInv'
    BY <1>1, <1>2, <1>10 DEF SenderInv, q
<1>12. rx.files = <<>> /\ rx.received = <<>> /\ rx.current = NoFile /\ ~rx.finished
    BY <1>1 DEF ReceiverInv, ReceiverAt, Nowhere, Behind, Between, In, Place
<1>13. ReceiverInv'
    BY <1>1, <1>2, <1>12 DEF ReceiverInv
<1> QED
    BY <1>9, <1>11, <1>13 DEF StreamInv

\* The end of the loop, regular or after the user has cancelled.
LEMMA StopKeeps == ASSUME StreamInv, StopBetweenFiles \/ FinishBatch PROVE StreamInv'
<1>1. /\ ChannelInv /\ SenderInv /\ ReceiverInv /\ pc = "file" /\ pc' = "over"
      /\ UNCHANGED <<batch, fileIndex, offset, isCancelled, open, onWire, rx>>
    BY DEF StreamInv, StopBetweenFiles, FinishBatch
<1>2. SenderInv'
    BY <1>1 DEF SenderInv
<1>3. ChannelInv'
    <2>1. CASE StopBetweenFiles
        <3>1. isCancelled /\ sendControlMessage(Cancelled)
            BY <2>1 DEF StopBetweenFiles
        <3> QED
            BY <1>1, <3>1, ControlSent, ControlMessages
    <2>2. CASE FinishBatch /\ isCancelled
        <3>1. UNCHANGED channel /\ onWire' \in 0..Len(channel)
            BY <1>1, <2>2 DEF FinishBatch, ChannelInv
        <3> QED
            BY <1>1, <3>1, Kept
    <2>3. CASE FinishBatch /\ ~isCancelled
        <3>1. sendControlMessage(BatchComplete) /\ fileIndex > Len(batch)
            BY <2>3 DEF FinishBatch
        <3>2. Len(batch) \in Nat /\ fileIndex \in 1..(Len(batch) + 1)
            BY <1>1, BatchType DEF SenderInv
        <3>3. fileIndex - 1 = Len(batch)
            BY <3>1, <3>2
        <3>4. open => EndsAt(channel, rx, Between(Len(batch)))
            BY <1>1, <2>3, <3>3 DEF SenderInv
        <3> QED
            BY <1>1, <2>3, <3>1, <3>4, ControlSent, ControlMessages
    <2> QED
        BY <2>1, <2>2, <2>3
<1> QED
    BY <1>1, <1>2, <1>3, ReceiverKept DEF StreamInv

LEMMA StartFileKeeps == ASSUME StreamInv, StartFile PROVE StreamInv'
<1>1. /\ ChannelInv /\ SenderInv /\ ReceiverInv /\ pc = "file" /\ fileIndex <= Len(batch) /\ ~isCancelled
      /\ sendControlMessage(FileStart) /\ offset' = 0 /\ pc' = "chunk"
      /\ UNCHANGED <<batch, fileIndex, isCancelled, open, onWire, rx>>
    BY DEF StreamInv, StartFile
<1>2. batch \in Seq(Nat) /\ fileIndex \in 1..Len(batch) /\ batch[fileIndex] \in Nat
    BY <1>1, BatchType DEF SenderInv
<1>3. open => EndsAt(channel, rx, Between(fileIndex - 1))
    BY <1>1 DEF SenderInv
<1>4. ChannelInv' /\ (open => EndsAt(channel', rx', In(fileIndex, 0)))
    BY <1>1, <1>2, <1>3, ControlSent, FileMessages
<1>5. SenderInv'
    BY <1>1, <1>2, <1>4 DEF SenderInv
<1> QED
    BY <1>1, <1>4, <1>5, ReceiverKept DEF StreamInv

LEMMA EndFileKeeps == ASSUME StreamInv, EndFile PROVE StreamInv'
<1>1. /\ ChannelInv /\ SenderInv /\ ReceiverInv /\ pc = "chunk" /\ ~MoreToSend
      /\ IF isCancelled THEN UNCHANGED channel ELSE sendControlMessage(FileEnd)
      /\ fileIndex' = fileIndex + 1 /\ pc' = "file"
      /\ UNCHANGED <<batch, offset, isCancelled, open, onWire, rx>>
    BY DEF StreamInv, EndFile
<1>2. /\ batch \in Seq(Nat) /\ fileIndex \in 1..Len(batch) /\ Len(batch) \in Nat
      /\ batch[fileIndex] \in Nat /\ offset \in 0..batch[fileIndex]
    BY <1>1, BatchType DEF SenderInv
<1>3. fileIndex' \in 1..(Len(batch) + 1) /\ fileIndex' - 1 = fileIndex
    BY <1>1, <1>2
<1>4. CASE isCancelled
    <2>1. UNCHANGED channel /\ onWire' \in 0..Len(channel)
        BY <1>1, <1>4 DEF ChannelInv
    <2>2. ChannelInv'
        BY <1>1, <2>1, Kept
    <2>3. SenderInv'
        BY <1>1, <1>3, <1>4 DEF SenderInv
    <2> QED
        BY <1>1, <2>2, <2>3, ReceiverKept DEF StreamInv
<1>5. CASE ~isCancelled
    <2>1. offset = batch[fileIndex]
        BY <1>1, <1>2, <1>5 DEF MoreToSend
    <2>2. open => EndsAt(channel, rx, In(fileIndex, batch[fileIndex]))
        BY <1>1, <2>1 DEF SenderInv
    <2>3. ChannelInv' /\ (open => EndsAt(channel', rx', Between(fileIndex)))
        BY <1>1, <1>2, <1>5, <2>2, ControlSent, FileMessages
    <2>4. SenderInv'
        BY <1>1, <1>3, <2>3 DEF SenderInv
    <2> QED
        BY <1>1, <2>3, <2>4, ReceiverKept DEF StreamInv
<1> QED
    BY <1>4, <1>5

LEMMA SendChunkKeeps == ASSUME StreamInv, SendChunk PROVE StreamInv'
<1> DEFINE m == Piece(fileIndex, batch[fileIndex], offset)
<1>1. /\ ChannelInv /\ SenderInv /\ ReceiverInv /\ pc = "read" /\ open
      /\ channel' = Append(channel, m) /\ offset' = offset + m.size /\ pc' = "chunk"
      /\ UNCHANGED <<batch, fileIndex, isCancelled, open, onWire, rx>>
    BY DEF StreamInv, SendChunk
<1>2. /\ batch \in Seq(Nat) /\ fileIndex \in 1..Len(batch) /\ fileIndex \in Nat
      /\ batch[fileIndex] \in Nat /\ offset \in Nat /\ offset < batch[fileIndex]
    BY <1>1, BatchType DEF SenderInv
<1>3. /\ m.type = "chunk" /\ m.file = fileIndex /\ m.from = offset
      /\ m.size \in Nat /\ offset + m.size \in 0..batch[fileIndex] /\ m \in ChunkMessage
    BY <1>2, TransferAssumption DEF Piece, ChunkMessage
<1>4. m \in Messages(batch) /\ OfBatch(m, batch)
    BY <1>2, <1>3 DEF Messages, OfBatch
<1> HIDE DEF m
<1>5. ~IsCancel(m) /\ Harmless(m) /\ Before(m, batch) = In(fileIndex, offset) /\ After(m) = In(fileIndex, offset + m.size)
    BY <1>3 DEF IsCancel, Harmless, Before, After
<1>6. EndsAt(channel, rx, Before(m, batch))
    BY <1>1, <1>5 DEF SenderInv
<1>7. ChannelInv' /\ EndsAt(channel', rx', In(fileIndex, offset + m.size))
    BY <1>1, <1>4, <1>5, <1>6, Sent
<1>8. SenderInv'
    BY <1>1, <1>2, <1>3, <1>7 DEF SenderInv
<1> QED
    BY <1>1, <1>7, <1>8, ReceiverKept DEF StreamInv

\* Steps that only decide where sendFiles goes on.
LEMMA LoopKeeps ==
    ASSUME StreamInv, NextChunk \/ BufferLow \/ DrainTimeout \/ SendFails
    PROVE  StreamInv'
<1>1. /\ ChannelInv /\ SenderInv /\ ReceiverInv
      /\ UNCHANGED <<batch, fileIndex, offset, isCancelled, open, channel, onWire, rx>>
    BY DEF StreamInv, NextChunk, BufferLow, DrainTimeout, SendFails
<1>2. ChannelInv'
    BY <1>1 DEF ChannelInv
<1>3. SenderInv'
    <2>1. CASE NextChunk
        <3>1. pc = "chunk" /\ pc' \in {"drain", "read"} /\ offset < batch[fileIndex]
            BY <2>1 DEF NextChunk, MoreToSend
        <3> QED
            BY <1>1, <3>1 DEF SenderInv
    <2>2. CASE BufferLow \/ DrainTimeout
        <3>1. pc = "drain" /\ pc' = "read"
            BY <2>2 DEF BufferLow, DrainTimeout
        <3> QED
            BY <1>1, <3>1 DEF SenderInv
    <2>3. CASE SendFails
        <3>1. pc = "read" /\ pc' = "failed"
            BY <2>3 DEF SendFails
        <3> QED
            BY <1>1, <3>1 DEF SenderInv
    <2> QED
        BY <2>1, <2>2, <2>3
<1> QED
    BY <1>1, <1>2, <1>3, ReceiverKept DEF StreamInv

LEMMA CancelKeeps == ASSUME StreamInv, cancelTransfer PROVE StreamInv'
<1>1. /\ ChannelInv /\ SenderInv /\ ReceiverInv /\ pc \notin {"idle", "file", "chunk"}
      /\ isCancelled' = TRUE /\ sendControlMessage(Cancelled)
      /\ UNCHANGED <<batch, pc, fileIndex, offset, open, onWire, rx>>
    BY DEF StreamInv, cancelTransfer, Running
<1>2. ChannelInv' /\ (open => EndsAt(channel', rx', In(fileIndex, offset)))
    BY <1>1, ControlSent, ControlMessages
<1>3. SenderInv'
    BY <1>1, <1>2 DEF SenderInv
<1> QED
    BY <1>1, <1>2, <1>3, ReceiverKept DEF StreamInv

----------------------------------------------------------------------------
(* The receiver. *)

\* The message at the head, where the receiver is.
LEMMA Incoming ==
    ASSUME StreamInv, NEW type, Arrives(type)
    PROVE  /\ Head(channel) \in Messages(batch) /\ Head(channel).type = type
           /\ OfBatch(Head(channel), batch)
           /\ rx.told => Harmless(Head(channel))
           /\ rx.told \/ IsCancel(Head(channel)) \/ Before(Head(channel), batch) = ReceiverAt(rx)
           /\ pc # "idle" /\ batch \in Batches /\ batch # <<>>
           /\ batch \in Seq(Nat) /\ Len(batch) \in Nat
           /\ \A i \in 1..Len(batch) : batch[i] \in Nat
<1>1. ChannelInv /\ SenderInv /\ onWire > 0 /\ Head(channel).type = type
    BY DEF StreamInv, Arrives
<1>2. channel \in Seq(Messages(batch)) /\ onWire \in 0..Len(channel)
    BY <1>1 DEF ChannelInv
<1>3. channel # <<>>
    BY <1>1, <1>2
<1>4. /\ Head(channel) \in Messages(batch) /\ Head(channel) = channel[1]
      /\ 1 \in 1..Len(channel)
    BY <1>2, <1>3, Behead
<1>5. pc # "idle" /\ batch \in Batches /\ batch # <<>>
    BY <1>1, <1>3 DEF SenderInv
<1>6. /\ OfBatch(Head(channel), batch)
      /\ rx.told => Harmless(Head(channel))
      /\ rx.told \/ IsCancel(Head(channel)) \/ Before(Head(channel), batch) = ReceiverAt(rx)
    BY <1>1, <1>3, <1>4 DEF ChannelInv
<1> QED
    BY <1>1, <1>4, <1>5, <1>6, BatchType

\* A message is handled: the channel and the sender follow.
LEMMA TakeKeeps ==
    ASSUME StreamInv, NEW type, Arrives(type), Take, ReceiverInv',
           rx'.told <=> rx.told \/ IsCancel(Head(channel)),
           rx'.told \/ ReceiverAt(rx') = After(Head(channel))
    PROVE  StreamInv'
<1>1. /\ ChannelInv /\ SenderInv /\ onWire > 0 /\ pc # "idle"
      /\ channel' = Tail(channel) /\ onWire' = onWire - 1
      /\ UNCHANGED <<batch, pc, fileIndex, offset, isCancelled, open>>
    BY Incoming DEF StreamInv, Arrives, Take, senderVars
<1>2. ChannelInv' /\ \A p : EndsAt(channel, rx, p) => EndsAt(channel', rx', p)
    BY <1>1, Handled
<1>3. SenderInv'
    BY <1>1, <1>2, SenderKept
<1> QED
    BY <1>2, <1>3 DEF StreamInv

\* What a message of each type holds.
LEMMA MessageKinds ==
    ASSUME NEW m \in Messages(batch)
    PROVE  /\ m.type = "batch-start" => m.files = batch
           /\ m.type = "file-start" => m.file \in Nat /\ m.size \in Nat
           /\ m.type = "chunk" => m \in ChunkMessage /\ m.file \in Nat /\ m.from \in Nat /\ m.size \in Nat
           /\ m.type = "file-end" => m.file \in Nat
BY DEF Messages, BatchComplete, Cancelled, ChunkMessage

\* What the receiver's place says of its engine.
LEMMA WhereItIs ==
    ASSUME ReceiverInv
    PROVE  /\ ReceiverAt(rx) = Nowhere => ~rx.finished /\ rx.current = NoFile /\ rx.files = <<>>
           /\ \A i : ReceiverAt(rx) = Between(i) =>
                 ~rx.finished /\ rx.current = NoFile /\ rx.files # <<>> /\ Len(rx.received) = i
           /\ \A i, n : ReceiverAt(rx) = In(i, n) =>
                 /\ ~rx.finished /\ rx.current # NoFile /\ rx.current.file = i
                 /\ BytesOf(Len(rx.chunks), rx.current.size) = n
BY DEF ReceiverAt, Nowhere, Between, In, Behind, Place

LEMMA ReceiveBatchStartKeeps == ASSUME StreamInv, ReceiveBatchStart PROVE StreamInv'
<1> DEFINE m == Head(channel)
<1>1. /\ ReceiverInv /\ Arrives("batch-start") /\ Take /\ UNCHANGED batch
      /\ rx' = [rx EXCEPT !.files = m.files, !.total = 0, !.received = <<>>, !.cards = renderQueue(m.files)]
    BY DEF StreamInv, ReceiveBatchStart, Take, senderVars
<1>2. /\ m \in Messages(batch) /\ m.type = "batch-start" /\ ~rx.told
      /\ IsCancel(m) \/ Before(m, batch) = ReceiverAt(rx)
      /\ batch \in Seq(Nat) /\ batch # <<>> /\ Len(batch) \in Nat
    BY <1>1, Incoming DEF Harmless
<1>3. m.files = batch
    BY <1>2, MessageKinds
<1>4. ~IsCancel(m) /\ Before(m, batch) = Nowhere /\ After(m) = Between(0)
    BY <1>2 DEF IsCancel, Before, After
<1> HIDE DEF m
<1>5. ~rx.finished /\ rx.current = NoFile /\ rx \in Engines
    BY <1>1, <1>2, <1>4, WhereItIs DEF ReceiverInv
<1>6. renderQueue(batch) \in Seq(CardRecord) /\ Len(renderQueue(batch)) = Len(batch)
    <2>1. Card("waiting", <<>>) \in CardRecord
        BY DEF Card, CardRecord
    <2> HIDE DEF CardRecord
    <2> QED
        BY <1>2, <2>1 DEF renderQueue
<1>7. /\ rx' \in Engines /\ rx'.files = batch /\ rx'.received = <<>> /\ rx'.cards = renderQueue(batch)
      /\ rx'.current = NoFile /\ ~rx'.finished /\ ~rx'.told /\ rx'.chunks = rx.chunks
      /\ rx'.replaced = rx.replaced
    <2>1. renderQueue(batch) \in Seq(CardRecord) /\ <<>> \in Seq(FileRecord) /\ 0 \in Nat
        BY <1>6
    <2> DEFINE cards == renderQueue(batch)
    <2>2. cards \in Seq(CardRecord)
        BY <2>1
    <2> HIDE DEF cards
    <2>3. rx' = [rx EXCEPT !.files = batch, !.total = 0, !.received = <<>>, !.cards = cards]
        BY <1>1, <1>3 DEF cards
    <2>4. rx' \in Engines
        BY <1>2, <1>5, <2>1, <2>2, <2>3 DEF Engines
    <2>5. /\ rx'.files = batch /\ rx'.received = <<>> /\ rx'.cards = cards
          /\ rx'.current = NoFile /\ ~rx'.finished /\ ~rx'.told /\ rx'.chunks = rx.chunks
          /\ rx'.replaced = rx.replaced
        BY <1>2, <1>5, <2>3 DEF Engines
    <2> QED
        BY <2>4, <2>5 DEF cards
<1>8. ReceiverInv'
    BY <1>1, <1>2, <1>6, <1>7 DEF ReceiverInv
<1>9. ReceiverAt(rx') = Between(0)
    BY <1>2, <1>7 DEF ReceiverAt
<1> QED
    BY <1>1, <1>2, <1>4, <1>7, <1>8, <1>9, TakeKeeps DEF m

LEMMA ReceiveFileStartKeeps == ASSUME StreamInv, ReceiveFileStart PROVE StreamInv'
<1> DEFINE m == Head(channel)
<1>1. /\ ReceiverInv /\ Arrives("file-start") /\ Take /\ UNCHANGED batch
      /\ rx' = [rx EXCEPT !.current = [file |-> m.file, size |-> m.size], !.chunks = <<>>]
    BY DEF StreamInv, ReceiveFileStart, Take, senderVars
<1>2. /\ m \in Messages(batch) /\ m.type = "file-start" /\ ~rx.told /\ OfBatch(m, batch)
      /\ IsCancel(m) \/ Before(m, batch) = ReceiverAt(rx)
      /\ batch \in Seq(Nat) /\ batch # <<>> /\ Len(batch) \in Nat
      /\ \A i \in 1..Len(batch) : batch[i] \in Nat
    BY <1>1, Incoming DEF Harmless
<1>3. m.file \in 1..Len(batch) /\ m.file \in Nat /\ m.size = batch[m.file] /\ m.size \in Nat
    BY <1>2 DEF OfBatch
<1>4. ~IsCancel(m) /\ Before(m, batch) = Between(m.file - 1) /\ After(m) = In(m.file, 0)
    BY <1>2 DEF IsCancel, Before, After
<1> HIDE DEF m
<1>5. /\ ~rx.finished /\ rx.current = NoFile /\ rx.files # <<>> /\ Len(rx.received) = m.file - 1
      /\ rx \in Engines
    BY <1>1, <1>2, <1>4, WhereItIs DEF ReceiverInv
<1>6. /\ rx' \in Engines /\ rx'.current = [file |-> m.file, size |-> m.size] /\ rx'.chunks = <<>>
      /\ rx'.files = rx.files /\ rx'.received = rx.received /\ rx'.cards = rx.cards
      /\ ~rx'.finished /\ ~rx'.told /\ rx'.replaced = rx.replaced
    <2>1. <<>> \in Seq(ChunkMessage) /\ [file |-> m.file, size |-> m.size] \in [file : Nat, size : Nat]
        BY <1>3
    <2>2. rx' \in Engines
        BY <1>1, <1>5, <2>1 DEF Engines
    <2>3. /\ rx'.current = [file |-> m.file, size |-> m.size] /\ rx'.chunks = <<>>
          /\ rx'.files = rx.files /\ rx'.received = rx.received /\ rx'.cards = rx.cards
          /\ ~rx'.finished /\ ~rx'.told /\ rx'.replaced = rx.replaced
        BY <1>1, <1>2, <1>5 DEF Engines
    <2> QED
        BY <2>2, <2>3
<1>7. rx'.current # NoFile
    BY <1>3, <1>6 DEF NoFile
<1>8. ReceiverInv'
    <2>1. rx'.chunks = PiecesTo(m.file, m.size, Len(rx'.chunks))
        BY <1>6 DEF PiecesTo
    <2>2. Len(rx'.received) < Len(batch) /\ m.file = Len(rx'.received) + 1
        <3>1. Len(rx'.received) = m.file - 1
            BY <1>5, <1>6
        <3>2. m.file \in 1..Len(batch) /\ Len(batch) \in Nat /\ m.file \in Nat
            BY <1>2, <1>3
        <3> QED
            BY <3>1, <3>2
    <2> QED
        BY <1>1, <1>3, <1>5, <1>6, <1>7, <2>1, <2>2 DEF ReceiverInv
<1>9. ReceiverAt(rx') = In(m.file, 0)
    <2>1. Len(rx'.chunks) = 0 /\ 0 * ChunkSize = 0
        BY <1>6, TransferAssumption
    <2>2. BytesOf(0, m.size) = 0
        BY <1>3, <2>1 DEF BytesOf
    <2> QED
        BY <1>6, <1>7, <2>1, <2>2 DEF ReceiverAt
<1> QED
    BY <1>1, <1>2, <1>4, <1>6, <1>8, <1>9, TakeKeeps DEF m

\* A chunk that belongs to the file is the next piece of it.
LEMMA NextPiece ==
    ASSUME ReceiverInv, ~rx.told, rx.current # NoFile, NEW m \in ChunkMessage, OfBatch(m, batch),
           Before(m, batch) = ReceiverAt(rx), \A i \in 1..Len(batch) : batch[i] \in Nat
    PROVE  LET c == Len(rx.chunks)
               i == rx.current.file
               size == rx.current.size
           IN  /\ Append(rx.chunks, m) = PiecesTo(i, size, c + 1)
               /\ c * ChunkSize < size /\ c \in Nat
               /\ m.file = i /\ BytesOf(c + 1, size) = m.from + m.size
<1> DEFINE c == Len(rx.chunks)
           i == rx.current.file
           size == rx.current.size
<1>1. /\ m.type = "chunk" /\ m.file \in 1..Len(batch) /\ m.from \in Nat
      /\ m.from < batch[m.file] /\ m = Piece(m.file, batch[m.file], m.from)
      /\ batch[m.file] \in Nat /\ m.file \in Nat
    BY DEF OfBatch, ChunkMessage
<1>2. ReceiverAt(rx) = In(m.file, m.from)
    BY <1>1 DEF Before
<1>3. i = m.file /\ BytesOf(c, size) = m.from /\ rx.chunks \in Seq(ChunkMessage)
    BY <1>2, WhereItIs DEF ReceiverInv, Engines
<1>4. size = batch[m.file] /\ rx.chunks = PiecesTo(i, size, c)
    BY <1>3 DEF ReceiverInv
<1>5. c \in Nat
    BY <1>3
<1> HIDE DEF c, i, size
<1>6. m.from = c * ChunkSize /\ BytesOf(c + 1, size) = m.from + Piece(m.file, size, m.from).size
    BY <1>1, <1>3, <1>4, <1>5, PieceAdded
<1>7. m = Piece(i, size, c * ChunkSize)
    BY <1>1, <1>3, <1>4, <1>6
<1>8. Append(rx.chunks, m) = PiecesTo(i, size, c + 1)
    <2>1. PiecesTo(i, size, c) = [k \in 1..c |-> Piece(i, size, (k - 1) * ChunkSize)]
        BY DEF PiecesTo
    <2>2. PiecesTo(i, size, c + 1) = [k \in 1..(c + 1) |-> Piece(i, size, (k - 1) * ChunkSize)]
        BY DEF PiecesTo
    <2> DEFINE q == Append(rx.chunks, m)
    <2>3. /\ q \in Seq(ChunkMessage) /\ Len(q) = c + 1
          /\ \A k \in 1..c : q[k] = rx.chunks[k]
          /\ q[c + 1] = m
        BY <1>3, Appended DEF c
    <2>4. q = [k \in 1..(c + 1) |-> q[k]]
        BY <1>5, <2>3
    <2> HIDE DEF q
    <2>5. ASSUME NEW k \in 1..(c + 1) PROVE q[k] = Piece(i, size, (k - 1) * ChunkSize)
        <3>1. CASE k \in 1..c
            BY <1>4, <2>1, <2>3, <3>1
        <3>2. CASE k = c + 1
            <4>1. k - 1 = c
                BY <1>5, <3>2
            <4> QED
                BY <1>7, <2>3, <3>2, <4>1
        <3> QED
            BY <1>5, <2>5, <3>1, <3>2
    <2>6. q = PiecesTo(i, size, c + 1)
        BY <2>2, <2>4, <2>5
    <2> QED
        BY <2>6 DEF q
<1> QED
    BY <1>1, <1>3, <1>4, <1>5, <1>6, <1>7, <1>8 DEF c, i, size

LEMMA ReceiveChunkKeeps == ASSUME StreamInv, ReceiveChunk PROVE StreamInv'
<1> DEFINE m == Head(channel)
           i == rx.current.file
           cards == updateTelemetryUI(rx.cards, i)
           chunks == Append(rx.chunks, m)
<1>1. /\ ReceiverInv /\ Arrives("chunk") /\ Take /\ UNCHANGED batch
      /\ rx' = IF rx.current = NoFile THEN rx
               ELSE [rx EXCEPT !.chunks = chunks, !.total = @ + m.size, !.cards = cards]
    BY DEF StreamInv, ReceiveChunk, Take, senderVars
<1>2. /\ m \in Messages(batch) /\ m.type = "chunk" /\ OfBatch(m, batch)
      /\ rx.told \/ IsCancel(m) \/ Before(m, batch) = ReceiverAt(rx)
      /\ Len(batch) \in Nat /\ \A j \in 1..Len(batch) : batch[j] \in Nat
    BY <1>1, Incoming
<1>3. m \in ChunkMessage /\ m.from \in Nat /\ m.size \in Nat
    BY <1>2, MessageKinds
<1>4. ~IsCancel(m) /\ Before(m, batch) = In(m.file, m.from) /\ After(m) = In(m.file, m.from + m.size)
    BY <1>2 DEF IsCancel, Before, After
<1> HIDE DEF m
<1>5. rx \in Engines /\ rx.told \in BOOLEAN /\ rx.total \in Nat /\ rx.chunks \in Seq(ChunkMessage) /\ rx.cards \in Seq(CardRecord)
    BY <1>1 DEF ReceiverInv, Engines
<1>6. CASE rx.current = NoFile
    <2>1. rx' = rx
        BY <1>1, <1>6
    <2>2. rx.told
        BY <1>1, <1>2, <1>4, <1>6, WhereItIs
    <2>3. ReceiverInv'
        BY <1>1, <2>1, ReceiverKept
    <2> QED
        BY <1>1, <2>1, <2>2, <2>3, TakeKeeps
<1>7. CASE rx.current # NoFile
    <2>1. /\ Len(rx.received) < Len(batch) /\ Len(rx.received) \in Nat
          /\ i = Len(rx.received) + 1 /\ rx.current.size = batch[i]
          /\ rx.files # <<>> /\ ~rx.finished
          /\ ~rx.replaced =>
                /\ Len(rx.cards) = Len(batch)
                /\ \A k \in 1..Len(rx.received) : rx.cards[k] = Card("download", Pieces(k, batch[k]))
        <3>1. Len(rx.received) \in Nat
            BY <1>5 DEF Engines
        <3>2. /\ Len(rx.received) < Len(batch)
              /\ rx.current = [file |-> Len(rx.received) + 1, size |-> batch[Len(rx.received) + 1]]
            BY <1>1, <1>7 DEF ReceiverInv
        <3>3. rx.files # <<>> /\ ~rx.finished
            BY <1>1, <1>7 DEF ReceiverInv
        <3>4. ~rx.replaced => Len(rx.cards) = Len(batch)
            BY <1>1, <3>3 DEF ReceiverInv
        <3>5. ~rx.replaced => \A k \in 1..Len(rx.received) : rx.cards[k] = Card("download", Pieces(k, batch[k]))
            BY <1>1 DEF ReceiverInv
        <3> QED
            BY <3>1, <3>2, <3>3, <3>4, <3>5
    <2> HIDE DEF i
    <2>2. Card("progress", <<>>) \in CardRecord
        BY DEF Card, CardRecord
    <2>3. /\ cards \in Seq(CardRecord) /\ Len(cards) = Len(rx.cards)
          /\ ~rx.replaced => \A k \in 1..Len(rx.received) : cards[k] = rx.cards[k]
        <3>1. /\ cards \in Seq(CardRecord) /\ Len(cards) = Len(rx.cards)
              /\ \A k \in 1..Len(rx.cards) : k # i => cards[k] = rx.cards[k]
            BY <1>5, <2>2, Replaced DEF updateTelemetryUI
        <3> QED
            BY <1>2, <2>1, <3>1
    <2>4. chunks \in Seq(ChunkMessage) /\ Len(chunks) = Len(rx.chunks) + 1 /\ chunks # <<>>
        BY <1>3, <1>5, Appended
    <2> HIDE DEF cards, chunks
    <2> DEFINE total == rx.total + m.size
    <2>5. total \in Nat
        BY <1>3, <1>5
    <2>6. rx' = [rx EXCEPT !.chunks = chunks, !.total = total, !.cards = cards]
        BY <1>1, <1>7
    <2> HIDE DEF total
    <2>7. rx' \in Engines
        BY <1>5, <2>3, <2>4, <2>6, <2>5 DEF Engines
    <2>8. /\ rx'.chunks = chunks /\ rx'.cards = cards /\ rx'.files = rx.files /\ rx'.current = rx.current
          /\ rx'.received = rx.received /\ rx'.told = rx.told /\ rx'.finished = rx.finished
          /\ rx'.replaced = rx.replaced
        BY <1>5, <2>6 DEF Engines
    <2>9. ASSUME ~rx.told
          PROVE  /\ chunks = PiecesTo(i, rx.current.size, Len(chunks))
                 /\ (Len(chunks) - 1) * ChunkSize < rx.current.size
                 /\ m.file = i /\ BytesOf(Len(chunks), rx.current.size) = m.from + m.size
        <3>1. Before(m, batch) = ReceiverAt(rx)
            BY <1>2, <1>4, <2>9
        <3>2. /\ chunks = PiecesTo(i, rx.current.size, Len(rx.chunks) + 1)
              /\ Len(rx.chunks) * ChunkSize < rx.current.size /\ Len(rx.chunks) \in Nat
              /\ m.file = i /\ BytesOf(Len(rx.chunks) + 1, rx.current.size) = m.from + m.size
            BY <1>1, <1>2, <1>3, <1>7, <2>9, <3>1, NextPiece DEF i, chunks
        <3>3. Len(chunks) - 1 = Len(rx.chunks)
            BY <2>4, <3>2
        <3> QED
            BY <2>4, <3>2, <3>3
    <2>10. ReceiverInv'
        <3>1. \A k \in 1..Len(rx'.received) :
                 /\ rx'.received[k] = [file |-> k, size |-> batch[k], chunks |-> Pieces(k, batch[k])]
                 /\ ~rx'.replaced => rx'.cards[k] = Card("download", Pieces(k, batch[k]))
            BY <1>1, <2>1, <2>3, <2>8 DEF ReceiverInv
        <3>2. rx'.current # NoFile =>
                 /\ Len(rx'.received) < Len(batch)
                 /\ rx'.current = [file |-> Len(rx'.received) + 1, size |-> batch[Len(rx'.received) + 1]]
            BY <1>1, <2>8 DEF ReceiverInv
        <3>3. rx'.current # NoFile /\ ~rx'.told =>
                 /\ rx'.chunks = PiecesTo(rx'.current.file, rx'.current.size, Len(rx'.chunks))
                 /\ rx'.chunks # <<>> => (Len(rx'.chunks) - 1) * ChunkSize < rx'.current.size
            BY <2>8, <2>9 DEF i
        <3>4. /\ rx'.files \in {<<>>, batch}
              /\ rx'.files # <<>> /\ (~rx'.replaced => Len(rx'.cards) = Len(batch))
              /\ Len(rx'.received) <= Len(batch)
              /\ ~rx'.finished
            BY <1>1, <2>1, <2>3, <2>8 DEF ReceiverInv
        <3> QED
            BY <1>1, <2>7, <3>1, <3>2, <3>3, <3>4 DEF ReceiverInv
    <2>11. rx'.told \/ ReceiverAt(rx') = After(m)
        <3>1. CASE ~rx.told
            BY <1>4, <1>7, <2>1, <2>8, <2>9, <3>1 DEF ReceiverAt, i
        <3>2. CASE rx.told
            BY <2>8, <3>2
        <3> QED
            BY <3>1, <3>2
    <2>12. rx'.told <=> rx.told \/ IsCancel(m)
        BY <1>4, <2>8
    <2> QED
        BY <1>1, <2>10, <2>11, <2>12, TakeKeeps DEF m
<1> QED
    BY <1>6, <1>7

LEMMA ReceiveFileEndKeeps == ASSUME StreamInv, ReceiveFileEnd PROVE StreamInv'
<1> DEFINE m == Head(channel)
           n == Len(rx.received)
           done == [file |-> rx.current.file, size |-> rx.current.size, chunks |-> rx.chunks]
           cards == markFileCompleted(rx.cards, rx.current.file, rx.chunks)
           received == Append(rx.received, done)
<1>1. /\ ReceiverInv /\ Arrives("file-end") /\ Take /\ UNCHANGED batch
      /\ rx' = IF rx.current = NoFile THEN rx
               ELSE [rx EXCEPT !.received = received, !.cards = cards, !.current = NoFile, !.chunks = <<>>]
    BY DEF StreamInv, ReceiveFileEnd, Take, senderVars
<1>2. /\ m \in Messages(batch) /\ m.type = "file-end" /\ ~rx.told /\ OfBatch(m, batch)
      /\ IsCancel(m) \/ Before(m, batch) = ReceiverAt(rx)
      /\ Len(batch) \in Nat /\ \A j \in 1..Len(batch) : batch[j] \in Nat
    BY <1>1, Incoming DEF Harmless
<1>3. ~IsCancel(m) /\ Before(m, batch) = In(m.file, batch[m.file]) /\ After(m) = Between(m.file)
      /\ m.file \in 1..Len(batch)
    BY <1>2 DEF IsCancel, Before, After, OfBatch
<1> HIDE DEF m
<1>4. /\ ~rx.finished /\ rx.current # NoFile /\ rx.current.file = m.file
      /\ BytesOf(Len(rx.chunks), rx.current.size) = batch[m.file]
    BY <1>1, <1>2, <1>3, WhereItIs
<1>5. /\ rx \in Engines /\ rx.chunks \in Seq(ChunkMessage) /\ rx.cards \in Seq(CardRecord)
      /\ rx.received \in Seq(FileRecord) /\ n \in Nat /\ Len(rx.chunks) \in Nat
    BY <1>1 DEF ReceiverInv, Engines
<1>6. /\ n < Len(batch) /\ rx.current = [file |-> n + 1, size |-> batch[n + 1]]
      /\ rx.chunks = PiecesTo(rx.current.file, rx.current.size, Len(rx.chunks))
      /\ rx.chunks # <<>> => (Len(rx.chunks) - 1) * ChunkSize < rx.current.size
      /\ rx.files # <<>> /\ (~rx.replaced => Len(rx.cards) = Len(batch))
    BY <1>1, <1>2, <1>4 DEF ReceiverInv
<1>7. m.file = n + 1 /\ rx.current.size = batch[n + 1] /\ batch[n + 1] \in Nat /\ n + 1 \in 1..Len(batch)
    BY <1>2, <1>4, <1>5, <1>6
<1>8. rx.chunks = Pieces(n + 1, batch[n + 1])
    <2> DEFINE c == Len(rx.chunks)
               size == batch[n + 1]
    <2>1. c \in Nat /\ size \in Nat /\ BytesOf(c, size) = size
        BY <1>4, <1>5, <1>7
    <2>2. c # 0 => (c - 1) * ChunkSize < size
        BY <1>5, <1>6, <1>7
    <2>3. size <= c * ChunkSize
        BY <2>1, TransferAssumption DEF BytesOf
    <2> HIDE DEF c, size
    <2>4. (size + ChunkSize - 1) \div ChunkSize = c
        BY <2>1, <2>2, <2>3, PieceCount
    <2>5. Pieces(n + 1, size) = PiecesTo(n + 1, size, c)
        BY <2>4 DEF Pieces, PiecesTo
    <2> QED
        BY <1>4, <1>6, <1>7, <2>5 DEF c, size
<1>9. done = [file |-> n + 1, size |-> batch[n + 1], chunks |-> Pieces(n + 1, batch[n + 1])] /\ done \in FileRecord
    BY <1>2, <1>5, <1>6, <1>7, <1>8 DEF FileRecord
<1>10. /\ cards \in Seq(CardRecord)
       /\ ~rx.replaced =>
             /\ Len(cards) = Len(batch)
             /\ \A k \in 1..n : cards[k] = rx.cards[k]
             /\ cards[n + 1] = Card("download", Pieces(n + 1, batch[n + 1]))
    <2>1. Card("download", rx.chunks) \in CardRecord
        BY <1>5 DEF Card, CardRecord
    <2>2. cards = [rx.cards EXCEPT ![n + 1] = Card("download", rx.chunks)]
        BY <1>6, <1>7 DEF markFileCompleted
    <2> HIDE DEF cards
    <2>3. /\ cards \in Seq(CardRecord) /\ Len(cards) = Len(rx.cards)
          /\ \A k \in 1..Len(rx.cards) : cards[k] = IF k = n + 1 THEN Card("download", rx.chunks) ELSE rx.cards[k]
        BY <1>5, <2>1, <2>2, Replaced
    <2>4. n + 1 \in 1..Len(batch) /\ \A k \in 1..n : k \in 1..Len(batch) /\ k # n + 1
        BY <1>5, <1>6, <1>7
    <2>5. ASSUME ~rx.replaced
          PROVE  /\ Len(cards) = Len(batch)
                 /\ \A k \in 1..n : cards[k] = rx.cards[k]
                 /\ cards[n + 1] = Card("download", Pieces(n + 1, batch[n + 1]))
        BY <1>6, <1>8, <2>3, <2>4, <2>5
    <2> QED
        BY <2>3, <2>5
<1> HIDE DEF done, cards
<1>11. /\ received \in Seq(FileRecord) /\ Len(received) = n + 1
       /\ \A k \in 1..n : received[k] = rx.received[k]
       /\ received[n + 1] = done
    BY <1>5, <1>9, Appended
<1> HIDE DEF received
<1>12. rx' = [rx EXCEPT !.received = received, !.cards = cards, !.current = NoFile, !.chunks = <<>>]
    BY <1>1, <1>4
<1>13. rx' \in Engines
    <2>1. NoFile \in [file : Nat, size : Nat] /\ <<>> \in Seq(ChunkMessage)
        BY DEF NoFile
    <2> QED
        BY <1>5, <1>10, <1>11, <1>12, <2>1 DEF Engines
<1>14. /\ rx'.received = received /\ rx'.cards = cards /\ rx'.current = NoFile
       /\ rx'.files = rx.files /\ rx'.told = rx.told /\ rx'.finished = rx.finished
       /\ rx'.replaced = rx.replaced
    BY <1>5, <1>12 DEF Engines
<1>15. ReceiverInv'
    <2>1. ASSUME NEW k \in 1..Len(received)
          PROVE  /\ received[k] = [file |-> k, size |-> batch[k], chunks |-> Pieces(k, batch[k])]
                 /\ ~rx.replaced => cards[k] = Card("download", Pieces(k, batch[k]))
        <3>1. CASE k \in 1..n
            BY <1>1, <1>10, <1>11, <3>1 DEF ReceiverInv
        <3>2. CASE k = n + 1
            BY <1>9, <1>10, <1>11, <3>2
        <3> QED
            BY <1>5, <1>11, <2>1, <3>1, <3>2
    <2>2. Len(received) <= Len(batch) /\ rx'.files \in {<<>>, batch}
        BY <1>1, <1>2, <1>5, <1>6, <1>11, <1>14 DEF ReceiverInv
    <2> QED
        BY <1>1, <1>4, <1>6, <1>10, <1>13, <1>14, <2>1, <2>2 DEF ReceiverInv
<1>16. ReceiverAt(rx') = After(m)
    BY <1>3, <1>4, <1>6, <1>7, <1>11, <1>14 DEF ReceiverAt
<1> QED
    BY <1>1, <1>2, <1>3, <1>14, <1>15, <1>16, TakeKeeps DEF m

LEMMA ReceiveBatchCompleteKeeps == ASSUME StreamInv, ReceiveBatchComplete PROVE StreamInv'
<1> DEFINE m == Head(channel)
<1>1. /\ ReceiverInv /\ Arrives("batch-complete") /\ Take /\ UNCHANGED batch
      /\ rx' = [rx EXCEPT !.finished = TRUE]
    BY DEF StreamInv, ReceiveBatchComplete, Take, senderVars
<1>2. /\ m \in Messages(batch) /\ m.type = "batch-complete" /\ ~rx.told
      /\ IsCancel(m) \/ Before(m, batch) = ReceiverAt(rx)
    BY <1>1, Incoming DEF Harmless
<1>3. ~IsCancel(m) /\ Before(m, batch) = Between(Len(batch)) /\ After(m) = Behind
    BY <1>2 DEF IsCancel, Before, After
<1> HIDE DEF m
<1>4. rx.current = NoFile /\ rx.files # <<>> /\ Len(rx.received) = Len(batch) /\ rx \in Engines
    BY <1>1, <1>2, <1>3, WhereItIs DEF ReceiverInv
<1>5. /\ rx' \in Engines /\ rx'.finished /\ rx'.current = NoFile /\ rx'.files = rx.files
      /\ rx'.received = rx.received /\ rx'.cards = rx.cards /\ rx'.told = rx.told
      /\ rx'.replaced = rx.replaced
    BY <1>1, <1>4 DEF Engines
<1>6. ReceiverInv'
    BY <1>1, <1>4, <1>5 DEF ReceiverInv
<1>7. ReceiverAt(rx') = Behind
    BY <1>5 DEF ReceiverAt
<1> QED
    BY <1>1, <1>2, <1>3, <1>5, <1>6, <1>7, TakeKeeps DEF m

\* Of the receiver's engine, only told and cancelled change.
LEMMA OnlyFlags ==
    ASSUME ReceiverInv, UNCHANGED batch, NEW b \in BOOLEAN,
           rx' = [rx EXCEPT !.told = TRUE] \/ rx' = [rx EXCEPT !.cancelled = b]
    PROVE  /\ ReceiverInv' /\ ReceiverAt(rx') = ReceiverAt(rx)
           /\ rx'.received = rx.received /\ rx'.finished = rx.finished
           /\ rx' = [rx EXCEPT !.told = TRUE] => rx'.told
           /\ rx' = [rx EXCEPT !.cancelled = b] => rx'.told = rx.told
<1>1. rx \in Engines
    BY DEF ReceiverInv
<1>2. rx' \in Engines
    BY <1>1 DEF Engines
<1>3. /\ rx'.files = rx.files /\ rx'.current = rx.current /\ rx'.chunks = rx.chunks
      /\ rx'.received = rx.received /\ rx'.cards = rx.cards /\ rx'.finished = rx.finished
      /\ rx'.replaced = rx.replaced /\ (rx.told => rx'.told)
    BY <1>1 DEF Engines
<1>4. ReceiverInv'
    BY <1>2, <1>3 DEF ReceiverInv
<1>5. ReceiverAt(rx') = ReceiverAt(rx)
    BY <1>3 DEF ReceiverAt
<1>6. rx' = [rx EXCEPT !.told = TRUE] => rx'.told
    BY <1>1 DEF Engines
<1>7. rx' = [rx EXCEPT !.cancelled = b] => rx'.told = rx.told
    BY <1>1 DEF Engines
<1> QED
    BY <1>3, <1>4, <1>5, <1>6, <1>7

LEMMA ReceiveCancelledKeeps == ASSUME StreamInv, ReceiveCancelled PROVE StreamInv'
<1>1. /\ ReceiverInv /\ Arrives("transfer-cancelled") /\ Take /\ UNCHANGED batch
      /\ rx' = [rx EXCEPT !.told = TRUE]
    BY DEF StreamInv, ReceiveCancelled, Take, senderVars
<1>2. IsCancel(Head(channel))
    BY <1>1 DEF Arrives, IsCancel
<1>3. ReceiverInv' /\ rx'.told
    BY <1>1, OnlyFlags
<1> QED
    BY <1>1, <1>2, <1>3, TakeKeeps

\* The receiver's button, its message, the transport and the end of the channel.
LEMMA TransportKeeps ==
    ASSUME StreamInv, CancelReceiving \/ HearReceiver \/ Transmit \/ Close
    PROVE  StreamInv'
<1>1. /\ ChannelInv /\ SenderInv /\ ReceiverInv
      /\ UNCHANGED <<batch, pc, fileIndex, offset, isCancelled>>
    BY DEF StreamInv, CancelReceiving, HearReceiver, Transmit, Close, senderVars
<1>2. channel \in Seq(Messages(batch)) /\ onWire \in 0..Len(channel) /\ Len(channel) \in Nat
    BY <1>1 DEF ChannelInv
<1>3. CASE CancelReceiving
    <2>1. rx' = [rx EXCEPT !.cancelled = TRUE] /\ UNCHANGED <<open, channel, onWire>>
        BY <1>3 DEF CancelReceiving
    <2>2. PICK b \in BOOLEAN : rx' = [rx EXCEPT !.cancelled = b]
        BY <2>1
    <2>3. ReceiverInv' /\ ReceiverAt(rx') = ReceiverAt(rx) /\ rx'.told = rx.told
        BY <1>1, <2>2, OnlyFlags
    <2>4. ChannelInv' /\ \A p : EndsAt(channel, rx, p) => EndsAt(channel', rx', p)
        BY <1>1, <1>2, <2>1, <2>3, Kept
    <2>5. SenderInv'
        <3>1. pc = "idle" => channel' = <<>>
            BY <1>1, <2>1 DEF SenderInv
        <3> QED
            BY <1>1, <2>1, <2>3, <2>4, <3>1, SenderKept
    <2> QED
        BY <2>3, <2>4, <2>5 DEF StreamInv
<1>4. CASE HearReceiver \/ Transmit
    <2>1. UNCHANGED <<open, channel, rx>> /\ onWire' \in 0..Len(channel)
        BY <1>2, <1>4 DEF HearReceiver, Transmit
    <2>2. ChannelInv' /\ \A p : EndsAt(channel, rx, p) => EndsAt(channel', rx', p)
        BY <1>1, <2>1, Kept
    <2>3. SenderInv'
        <3>1. pc = "idle" => channel' = <<>>
            BY <1>1, <2>1 DEF SenderInv
        <3> QED
            BY <1>1, <2>1, <2>2, <3>1, SenderKept
    <2> QED
        BY <1>1, <2>1, <2>2, <2>3, ReceiverKept DEF StreamInv
<1>5. CASE Close
    <2>1. PICK n \in 0..onWire : channel' = SubSeq(channel, 1, n) /\ onWire' = n
        BY <1>5 DEF Close
    <2>2. open' = FALSE /\ UNCHANGED rx
        BY <1>5 DEF Close
    <2>3. ChannelInv'
        BY <1>1, <2>1, <2>2, Lost
    <2>4. pc = "idle" => channel' = <<>>
        <3> SUFFICES ASSUME pc = "idle" PROVE channel' = <<>>
            OBVIOUS
        <3>1. channel = <<>>
            BY <1>1 DEF SenderInv
        <3>2. n = 0
            BY <1>2, <3>1
        <3> QED
            BY <2>1, <3>1, <3>2
    <2>5. SenderInv'
        BY <1>1, <2>2, <2>4, SenderKept
    <2> QED
        BY <1>1, <2>2, <2>3, <2>5, ReceiverKept DEF StreamInv
<1> QED
    BY <1>3, <1>4, <1>5

\* The cards go, and what was on its way with them.
LEMMA ReplacedEngine ==
    ASSUME rx \in Engines, ShowDashboard
    PROVE  /\ rx' \in Engines /\ rx'.replaced
           /\ rx'.files = rx.files /\ rx'.current = rx.current /\ rx'.chunks = rx.chunks
           /\ rx'.received = rx.received /\ rx'.total = rx.total /\ rx'.finished = rx.finished
           /\ rx'.told = rx.told
<1>1. renderQueue(<<>>) \in Seq(CardRecord)
    BY DEF renderQueue
<1> DEFINE cards == renderQueue(<<>>)
<1>2. cards \in Seq(CardRecord) /\ rx' = [rx EXCEPT !.cards = cards, !.replaced = TRUE]
    BY <1>1 DEF ShowDashboard
<1> HIDE DEF cards
<1> QED
    BY <1>2 DEF Engines

LEMMA ShowDashboardKeeps == ASSUME StreamInv, ShowDashboard PROVE StreamInv'
<1>1. /\ ChannelInv /\ SenderInv /\ ReceiverInv /\ rx \in Engines
      /\ channel' = <<>> /\ onWire' = 0 /\ ~open
      /\ UNCHANGED <<batch, pc, fileIndex, offset, isCancelled, open>>
    BY DEF StreamInv, ReceiverInv, ShowDashboard, senderVars
<1>2. ReceiverInv'
    BY <1>1, ReplacedEngine DEF ReceiverInv
<1>3. ReceiverAt(rx') = ReceiverAt(rx) /\ rx'.told = rx.told
    BY <1>1, ReplacedEngine DEF ReceiverAt
<1>4. ChannelInv'
    BY <1>1, <1>3 DEF ChannelInv
<1>5. SenderInv'
    BY <1>1, <1>3, SenderKept
<1> QED
    BY <1>2, <1>4, <1>5 DEF StreamInv

----------------------------------------------------------------------------
(* The theorems. *)

LEMMA StreamInvInit == Init => StreamInv
<1> SUFFICES ASSUME Init PROVE StreamInv
    OBVIOUS
<1>1. rx.files = <<>> /\ rx.current = NoFile /\ rx.received = <<>> /\ ~rx.told /\ ~rx.finished
    BY DEF Init
<1>2. rx \in Engines
    <2>1. NoFile \in [file : Nat, size : Nat]
        BY DEF NoFile
    <2> QED
        BY <2>1 DEF Init, Engines
<1>3. ReceiverInv
    BY <1>1, <1>2 DEF Init, ReceiverInv
<1>4. ReceiverAt(rx) = Nowhere
    BY <1>1 DEF ReceiverAt
<1>5. SenderInv
    BY <1>4 DEF Init, SenderInv
<1>6. ChannelInv
    BY <1>1 DEF Init, ChannelInv
<1> QED
    BY <1>3, <1>5, <1>6 DEF StreamInv

LEMMA StreamInvStep == StreamInv /\ [Next]_vars => StreamInv'
<1> SUFFICES ASSUME StreamInv, [Next]_vars PROVE StreamInv'
    OBVIOUS
<1>1. CASE \E files \in Batches : sendFiles(files)
    BY <1>1, SendFilesKeeps
<1>2. CASE StopBetweenFiles \/ FinishBatch
    BY <1>2, StopKeeps
<1>3. CASE StartFile
    BY <1>3, StartFileKeeps
<1>4. CASE EndFile
    BY <1>4, EndFileKeeps
<1>5. CASE SendChunk
    BY <1>5, SendChunkKeeps
<1>6. CASE NextChunk \/ BufferLow \/ DrainTimeout \/ SendFails
    BY <1>6, LoopKeeps
<1>7. CASE cancelTransfer
    BY <1>7, CancelKeeps
<1>8. CASE ReceiveBatchStart
    BY <1>8, ReceiveBatchStartKeeps
<1>9. CASE ReceiveFileStart
    BY <1>9, ReceiveFileStartKeeps
<1>10. CASE ReceiveChunk
    BY <1>10, ReceiveChunkKeeps
<1>11. CASE ReceiveFileEnd
    BY <1>11, ReceiveFileEndKeeps
<1>12. CASE ReceiveBatchComplete
    BY <1>12, ReceiveBatchCompleteKeeps
<1>13. CASE ReceiveCancelled
    BY <1>13, ReceiveCancelledKeeps
<1>14. CASE CancelReceiving \/ HearReceiver \/ Transmit \/ Close
    BY <1>14, TransportKeeps
<1>15. CASE UNCHANGED vars
    <2>1. UNCHANGED <<batch, pc, fileIndex, offset, isCancelled, open, channel, onWire, rx>>
        BY <1>15 DEF vars, senderVars
    <2> QED
        BY <2>1 DEF StreamInv, ChannelInv, SenderInv, ReceiverInv
<1>16. CASE ShowDashboard
    BY <1>16, ShowDashboardKeeps
<1> QED
    BY <1>1, <1>2, <1>3, <1>4, <1>5, <1>6, <1>7, <1>8, <1>9, <1>10, <1>11, <1>12, <1>13, <1>14, <1>15, <1>16
    DEF Next, SenderStep, ReceiverStep, UserStep

\* The channel holds a connected stretch of the batch between receiver and sender,
\* in every interleaving of sending, handling, cancelling and losing the channel.
THEOREM StreamSafety == Spec => []StreamInv
<1> QED
    BY StreamInvInit, StreamInvStep, PTL DEF Spec

\* What ReceiverInv says of the files received, in the words of the properties.
LEMMA ReceivedFiles ==
    StreamInv =>
        \A k \in 1..Len(rx.received) :
            /\ rx.received[k].file = k /\ Intact(rx.received[k])
            /\ ~rx.replaced => rx.cards[k] = Card("download", Pieces(k, batch[k]))
<1> SUFFICES ASSUME StreamInv, NEW k \in 1..Len(rx.received)
             PROVE  /\ rx.received[k].file = k /\ Intact(rx.received[k])
                    /\ ~rx.replaced => rx.cards[k] = Card("download", Pieces(k, batch[k]))
    OBVIOUS
<1>1. ReceiverInv /\ SenderInv
    BY DEF StreamInv
<1>2. /\ rx.received[k] = [file |-> k, size |-> batch[k], chunks |-> Pieces(k, batch[k])]
      /\ ~rx.replaced => rx.cards[k] = Card("download", Pieces(k, batch[k]))
    BY <1>1 DEF ReceiverInv
<1>3. k \in 1..Len(batch)
    <2>1. rx.received \in Seq(FileRecord) /\ Len(rx.received) <= Len(batch)
        BY <1>1 DEF ReceiverInv, Engines
    <2>2. Len(batch) \in Nat
        BY <1>1, BatchType DEF SenderInv
    <2> QED
        BY <2>1, <2>2
<1> QED
    BY <1>2, <1>3 DEF Intact

\* FilesIntact (finalizeReceivedFile hands over only whole files).
THEOREM FilesIntactHolds == Spec => []FilesIntact
<1>1. StreamInv => FilesIntact
    BY ReceivedFiles DEF FilesIntact
<1> QED
    BY <1>1, StreamSafety, PTL

\* DownloadsOffered (markFileCompleted after updateTelemetryUI of every other file), up
\* to the next initDashboard of the page.
THEOREM DownloadsOfferedHolds == Spec => []DownloadsOffered
<1>1. StreamInv => DownloadsOffered
    <2> SUFFICES ASSUME StreamInv, ~rx.replaced, NEW k \in 1..Len(rx.received)
                 PROVE  rx.cards[rx.received[k].file]
                          = Card("download", Pieces(rx.received[k].file, batch[rx.received[k].file]))
        BY DEF DownloadsOffered
    <2>1. rx.received[k].file = k /\ rx.cards[k] = Card("download", Pieces(k, batch[k]))
        BY ReceivedFiles
    <2> QED
        BY <2>1
<1> QED
    BY <1>1, StreamSafety, PTL

\* TypeOK is inductive beside StreamInv.
LEMMA TypeStep == StreamInv /\ StreamInv' /\ TypeOK /\ [Next]_vars => TypeOK'
<1> SUFFICES ASSUME StreamInv, StreamInv', TypeOK, [Next]_vars PROVE TypeOK'
    OBVIOUS
<1>1. /\ batch' \in Batches \cup {<<>>} /\ isCancelled' \in BOOLEAN
      /\ channel' \in Seq(Messages(batch')) /\ onWire' \in 0..Len(channel') /\ rx' \in Engines
      /\ pc' \in {"idle", "file", "chunk", "drain", "read", "over", "failed"}
    BY DEF StreamInv, SenderInv, ChannelInv, ReceiverInv
<1>2. /\ fileIndex \in 0..(Len(batch) + 1) /\ offset \in Nat /\ {sentAll, open} \subseteq BOOLEAN
      /\ back \in Seq({Cancelled}) /\ Len(batch) \in Nat
    BY BatchType DEF TypeOK
<1>3. {sentAll', open'} \subseteq BOOLEAN /\ back' \in Seq({Cancelled})
    <2>1. back' \in Seq({Cancelled})
        <3>1. CASE CancelReceiving
            BY <1>2, <3>1 DEF CancelReceiving
        <3>2. CASE HearReceiver
            BY <1>2, <3>2 DEF HearReceiver
        <3>3. CASE Close
            BY <3>3 DEF Close
        <3>4. CASE SenderStep \/ ReceiverStep \/ (\E files \in Batches : sendFiles(files)) \/ cancelTransfer
                   \/ SendFails \/ Transmit \/ ShowDashboard \/ UNCHANGED vars
            <4>1. UNCHANGED back
                BY <3>4 DEF SenderStep, ReceiverStep, sendFiles, StopBetweenFiles, StartFile, FinishBatch,
                    NextChunk, EndFile, BufferLow, DrainTimeout, SendChunk, SendFails, cancelTransfer,
                    ReceiveBatchStart, ReceiveFileStart, ReceiveChunk, ReceiveFileEnd, ReceiveBatchComplete,
                    ReceiveCancelled, Transmit, ShowDashboard, Take, vars
            <4> QED
                BY <1>2, <4>1
        <3> QED
            BY <3>1, <3>2, <3>3, <3>4 DEF Next, UserStep
    <2>2. sentAll' \in {sentAll, TRUE} /\ open' \in {open, FALSE}
        BY DEF Next, SenderStep, ReceiverStep, UserStep, sendFiles, StopBetweenFiles, StartFile, FinishBatch,
            NextChunk, EndFile, BufferLow, DrainTimeout, SendChunk, SendFails, cancelTransfer, HearReceiver,
            ReceiveBatchStart, ReceiveFileStart, ReceiveChunk, ReceiveFileEnd, ReceiveBatchComplete,
            ReceiveCancelled, CancelReceiving, Transmit, Close, ShowDashboard, Take, vars, senderVars
    <2> QED
        BY <1>2, <2>1, <2>2
<1>4. fileIndex' \in 0..(Len(batch') + 1) /\ offset' \in Nat
    <2>1. CASE \E files \in Batches : sendFiles(files)
        <3>1. batch' \in Batches /\ fileIndex' = 1 /\ UNCHANGED offset
            BY <2>1 DEF sendFiles
        <3>2. Len(batch') \in Nat
            BY <3>1, TransferAssumption
        <3> QED
            BY <1>2, <3>1, <3>2
    <2>2. CASE EndFile
        <3>1. fileIndex \in 1..Len(batch) /\ fileIndex' = fileIndex + 1 /\ UNCHANGED <<batch, offset>>
            BY <2>2 DEF EndFile, StreamInv, SenderInv
        <3> QED
            BY <1>2, <3>1
    <2>3. CASE StartFile
        BY <1>2, <2>3 DEF StartFile
    <2>4. CASE SendChunk
        <3>1. /\ fileIndex \in 1..Len(batch) /\ offset < batch[fileIndex] /\ UNCHANGED <<batch, fileIndex>>
              /\ offset' = offset + Piece(fileIndex, batch[fileIndex], offset).size
            BY <2>4 DEF SendChunk, StreamInv, SenderInv
        <3>2. batch[fileIndex] \in Nat
            BY <3>1, BatchType DEF StreamInv, SenderInv
        <3>3. Piece(fileIndex, batch[fileIndex], offset).size \in Nat
            BY <1>2, <3>1, <3>2, TransferAssumption DEF Piece
        <3> QED
            BY <1>2, <3>1, <3>3
    <2>5. CASE \/ StopBetweenFiles \/ FinishBatch \/ NextChunk \/ BufferLow \/ DrainTimeout \/ ReceiverStep
               \/ cancelTransfer \/ CancelReceiving \/ SendFails \/ HearReceiver \/ Transmit \/ Close
               \/ ShowDashboard \/ UNCHANGED vars
        <3>1. UNCHANGED <<batch, fileIndex, offset>>
            BY <2>5 DEF StopBetweenFiles, FinishBatch, NextChunk, BufferLow, DrainTimeout, ReceiverStep,
                cancelTransfer, CancelReceiving, SendFails, HearReceiver, Transmit, Close, vars, senderVars,
                ReceiveBatchStart, ReceiveFileStart, ReceiveChunk, ReceiveFileEnd, ReceiveBatchComplete,
                ReceiveCancelled, ShowDashboard, Take
        <3> QED
            BY <1>2, <3>1
    <2> QED
        BY <2>1, <2>2, <2>3, <2>4, <2>5 DEF Next, SenderStep, UserStep
<1> QED
    BY <1>1, <1>3, <1>4 DEF TypeOK

\* TypeOK: both engines and the channel keep their types.
THEOREM TransferTypeCorrect == Spec => []TypeOK
<1>1. Init => TypeOK
    <2> SUFFICES ASSUME Init PROVE TypeOK
        OBVIOUS
    <2>1. /\ batch = <<>> /\ fileIndex = 0 /\ offset = 0 /\ pc = "idle" /\ onWire = 0 /\ channel = <<>>
          /\ {isCancelled, sentAll, open} \subseteq BOOLEAN
        BY DEF Init
    <2>2. back \in Seq({Cancelled}) /\ Len(batch) = 0 /\ Len(channel) = 0
        BY DEF Init
    <2>3. channel \in Seq(Messages(batch)) /\ rx \in Engines
        BY StreamInvInit DEF StreamInv, ChannelInv, ReceiverInv
    <2> QED
        BY <2>1, <2>2, <2>3 DEF TypeOK
<1> QED
    BY <1>1, TypeStep, StreamSafety, PTL DEF Spec

----------------------------------------------------------------------------
(* The engines implement the abstract transfer. *)

LEMMA WholeFilesAre == StreamInv => WholeFiles = [k \in 1..Len(rx.received) |-> k]
<1> SUFFICES ASSUME StreamInv
             PROVE  \A k \in 1..Len(rx.received) : Intact(rx.received[k]) /\ rx.received[k].file = k
    BY DEF WholeFiles
<1> QED
    BY ReceivedFiles

\* A step that changes neither the batch nor what the receiver has finished or been told.
LEMMA NothingArrives ==
    ASSUME UNCHANGED batch, rx'.received = rx.received, rx'.finished = rx.finished, rx'.told = rx.told
    PROVE  UNCHANGED Transfer!transferVars
BY DEF Transfer!transferVars, WholeFiles, Intact

LEMMA TransferSteps ==
    ASSUME StreamInv, WholeFiles = [k \in 1..Len(rx.received) |-> k],
           WholeFiles' = [k \in 1..Len(rx'.received) |-> k], [Next]_vars
    PROVE  [Transfer!Next]_(Transfer!transferVars)
<1>1. SenderInv /\ ReceiverInv /\ rx \in Engines /\ rx.received \in Seq(FileRecord) /\ Len(rx.received) \in Nat
    BY DEF StreamInv, ReceiverInv, Engines
<1>2. CASE \E files \in Batches : sendFiles(files)
    <2>1. pc = "idle" /\ batch' \in Batches /\ UNCHANGED rx
        BY <1>2 DEF sendFiles
    <2>2. batch = <<>> /\ ReceiverAt(rx) = Nowhere
        BY <1>1, <2>1 DEF SenderInv
    <2>3. UNCHANGED WholeFiles
        BY <2>1
    <2> QED
        BY <2>1, <2>2, <2>3 DEF Transfer!Next, Transfer!Choose
<1>3. CASE ReceiveFileEnd
    <2>1. /\ UNCHANGED batch /\ ~rx.told /\ Arrives("file-end")
          /\ Head(channel).type = "file-end" /\ OfBatch(Head(channel), batch)
          /\ Before(Head(channel), batch) = ReceiverAt(rx)
        BY <1>3, Incoming DEF ReceiveFileEnd, Take, senderVars, Harmless, IsCancel
    <2>2. Before(Head(channel), batch) = In(Head(channel).file, batch[Head(channel).file])
        BY <2>1 DEF Before
    <2>3. ~rx.finished /\ rx.current # NoFile
        BY <1>1, <2>1, <2>2, WhereItIs
    <2>4. Len(rx.received) < Len(batch)
        BY <1>1, <2>3 DEF ReceiverInv
    <2>5. /\ rx'.finished = rx.finished /\ rx'.told = rx.told /\ Len(rx'.received) = Len(rx.received) + 1
        BY <1>1, <1>3, <2>3 DEF ReceiveFileEnd, Engines
    <2>6. Len(WholeFiles) = Len(rx.received) /\ WholeFiles' = Append(WholeFiles, Len(WholeFiles) + 1)
        BY <1>1, <2>5
    <2> QED
        BY <2>1, <2>3, <2>4, <2>5, <2>6 DEF Transfer!Next, Transfer!Receive
<1>4. CASE ReceiveBatchComplete
    <2>1. /\ UNCHANGED batch /\ ~rx.told /\ batch # <<>>
          /\ Head(channel).type = "batch-complete"
          /\ Before(Head(channel), batch) = ReceiverAt(rx)
        BY <1>4, Incoming DEF ReceiveBatchComplete, Take, senderVars, Harmless, IsCancel
    <2>2. Before(Head(channel), batch) = Between(Len(batch))
        BY <2>1 DEF Before
    <2>3. ~rx.finished /\ Len(rx.received) = Len(batch)
        BY <1>1, <2>1, <2>2, WhereItIs
    <2>4. rx'.finished = TRUE /\ rx'.received = rx.received /\ rx'.told = rx.told
        BY <1>1, <1>4 DEF ReceiveBatchComplete, Engines
    <2>5. Len(WholeFiles) = Len(rx.received) /\ UNCHANGED WholeFiles
        BY <1>1, <2>4
    <2> QED
        BY <2>1, <2>3, <2>4, <2>5 DEF Transfer!Next, Transfer!Complete
<1>5. CASE ReceiveBatchStart
    <2>1. /\ UNCHANGED batch /\ ~rx.told /\ Head(channel).type = "batch-start"
          /\ Before(Head(channel), batch) = ReceiverAt(rx)
        BY <1>5, Incoming DEF ReceiveBatchStart, Take, senderVars, Harmless, IsCancel
    <2>2. Before(Head(channel), batch) = Nowhere
        BY <2>1 DEF Before
    <2>3. rx.files = <<>>
        BY <1>1, <2>1, <2>2, WhereItIs
    <2>4. rx.received = <<>>
        BY <1>1, <2>3 DEF ReceiverInv
    <2>5. rx'.received = <<>> /\ rx'.finished = rx.finished /\ rx'.told = rx.told
        BY <1>1, <1>5 DEF ReceiveBatchStart, Engines
    <2> QED
        BY <2>1, <2>4, <2>5, NothingArrives
<1>6. CASE ReceiveFileStart \/ ReceiveChunk
    <2>1. UNCHANGED batch /\ rx'.received = rx.received /\ rx'.finished = rx.finished /\ rx'.told = rx.told
        BY <1>1, <1>6 DEF ReceiveFileStart, ReceiveChunk, Take, senderVars, Engines
    <2> QED
        BY <2>1, NothingArrives
<1>7. CASE CancelReceiving
    <2>1. UNCHANGED batch /\ rx'.received = rx.received /\ rx'.finished = rx.finished /\ rx'.told = rx.told
        BY <1>1, <1>7 DEF CancelReceiving, senderVars, Engines
    <2> QED
        BY <2>1, NothingArrives
<1>8. CASE ReceiveCancelled
    <2>1. /\ UNCHANGED batch /\ rx'.received = rx.received /\ rx'.finished = rx.finished /\ rx'.told = TRUE
        BY <1>1, <1>8 DEF ReceiveCancelled, Take, senderVars, Engines
    <2>2. CASE rx.told
        <3>1. rx'.told = rx.told
            BY <1>1, <2>1, <2>2 DEF Engines
        <3> QED
            BY <2>1, <3>1, NothingArrives
    <2>3. CASE ~rx.told
        <3>1. batch # <<>>
            BY <1>8, Incoming DEF ReceiveCancelled
        <3>2. UNCHANGED WholeFiles
            BY <2>1
        <3> QED
            BY <2>1, <2>3, <3>1, <3>2 DEF Transfer!Next, Transfer!Stop
    <2> QED
        BY <2>2, <2>3
<1>9. CASE SenderStep \/ cancelTransfer \/ SendFails \/ HearReceiver \/ Transmit \/ Close \/ UNCHANGED vars
    <2>1. UNCHANGED <<batch, rx>>
        BY <1>9 DEF SenderStep, StopBetweenFiles, StartFile, FinishBatch, NextChunk, EndFile, BufferLow,
            DrainTimeout, SendChunk, cancelTransfer, SendFails, HearReceiver, Transmit, Close, senderVars, vars
    <2> QED
        BY <2>1, NothingArrives
<1>10. CASE ShowDashboard
    <2>1. UNCHANGED batch /\ rx'.received = rx.received /\ rx'.finished = rx.finished /\ rx'.told = rx.told
        BY <1>1, <1>10, ReplacedEngine DEF ShowDashboard, senderVars
    <2> QED
        BY <2>1, NothingArrives
<1> QED
    BY <1>2, <1>3, <1>4, <1>5, <1>6, <1>7, <1>8, <1>9, <1>10 DEF Next, ReceiverStep, UserStep

\* ImplementsTransfer: whatever the two engines and the channel do, the receiver's
\* files arrive whole, in the order of the batch, completion is reported last, and
\* nothing of this happens after the receiver is told that the sender cancelled.
THEOREM EnginesImplementTransfer == Spec => ImplementsTransfer
<1>1. Init => Transfer!Init
    BY DEF Init, Transfer!Init, WholeFiles
<1>2. StreamInv /\ StreamInv' /\ [Next]_vars => [Transfer!Next]_(Transfer!transferVars)
    <2> SUFFICES ASSUME StreamInv, StreamInv', [Next]_vars PROVE [Transfer!Next]_(Transfer!transferVars)
        OBVIOUS
    <2>1. WholeFiles = [k \in 1..Len(rx.received) |-> k]
        BY WholeFilesAre
    <2>2. (WholeFiles = [k \in 1..Len(rx.received) |-> k])'
        BY WholeFilesAre, PTL
    <2> QED
        BY <2>1, <2>2, TransferSteps
<1> QED
    BY <1>1, <1>2, StreamSafety, PTL DEF Spec, ImplementsTransfer, Transfer!Spec

----------------------------------------------------------------------------
(* What is sent after a cancellation. *)

\* All of it is chunks and cancellations, and nothing is before somebody cancels.
LEMMA AfterCancellation ==
    StreamInv =>
        /\ channel \in Seq(Messages(batch)) /\ Len(channel) \in Nat
        /\ \A k \in 1..Len(channel) : IsCancel(channel[k]) <=> channel[k] = Cancelled
        /\ \A k \in AfterCancel \ LateChunks : channel[k] = Cancelled
        /\ AfterCancel # {} => isCancelled
<1> SUFFICES ASSUME StreamInv
             PROVE  /\ channel \in Seq(Messages(batch)) /\ Len(channel) \in Nat
                    /\ \A k \in 1..Len(channel) : IsCancel(channel[k]) <=> channel[k] = Cancelled
                    /\ \A k \in AfterCancel \ LateChunks : channel[k] = Cancelled
                    /\ AfterCancel # {} => isCancelled
    OBVIOUS
<1>1. ChannelInv /\ channel \in Seq(Messages(batch)) /\ Len(channel) \in Nat
    BY DEF StreamInv, ChannelInv
<1>2. \A m \in Messages(batch) : IsCancel(m) <=> m = Cancelled
    BY DEF Messages, IsCancel, Cancelled, BatchComplete, ChunkMessage
<1>3. ASSUME NEW k \in 1..Len(channel) PROVE IsCancel(channel[k]) <=> channel[k] = Cancelled
    BY <1>1, <1>2
<1>4. ASSUME NEW k \in AfterCancel PROVE Harmless(channel[k]) /\ isCancelled /\ k \in 1..Len(channel)
    <2>1. k \in 1..Len(channel) /\ (rx.told \/ \E j \in 1..(k - 1) : channel[j] = Cancelled)
        BY DEF AfterCancel
    <2>2. CASE rx.told
        BY <1>1, <2>1, <2>2 DEF ChannelInv
    <2>3. CASE \E j \in 1..(k - 1) : channel[j] = Cancelled
        <3>1. PICK j \in 1..(k - 1) : channel[j] = Cancelled
            BY <2>3
        <3>2. j \in 1..Len(channel) /\ j < k /\ IsCancel(channel[j])
            BY <1>1, <1>3, <2>1, <3>1
        <3> QED
            BY <1>1, <2>1, <3>2 DEF ChannelInv
    <2> QED
        BY <2>1, <2>2, <2>3
<1>5. ASSUME NEW k \in AfterCancel \ LateChunks PROVE channel[k] = Cancelled
    BY <1>3, <1>4 DEF LateChunks, Harmless, IsCancel
<1> QED
    BY <1>1, <1>3, <1>4, <1>5

\* No message joins the late chunks; d of those ahead of them have been handled.
LEMMA NoMoreLate ==
    ASSUME CancelStops, AfterCancel # {} => isCancelled,
           \A k \in (AfterCancel \ LateChunks)' : channel'[k] = Cancelled,
           NEW d \in {0, 1}, \A k \in LateChunks' : k + d \in LateChunks,
           isCancelled /\ pc' \in {"read", "drain"} => pc \in {"read", "drain"}
    PROVE  CancelStops'
<1>1. \A k \in LateChunks' : k \in Nat
    BY DEF LateChunks, AfterCancel
<1>2. \A j, k \in LateChunks' : j = k
    BY <1>1 DEF CancelStops
<1>3. LateChunks' # {} => LateChunks # {} /\ isCancelled
    BY DEF LateChunks
<1>4. isCancelled' /\ LateChunks' # {} => pc' \notin {"read", "drain"}
    BY <1>3 DEF CancelStops
<1> QED
    BY <1>2, <1>4 DEF CancelStops, Cancelled

\* A message is sent: the late chunks are those of before, and perhaps this one.
LEMMA SentLate ==
    ASSUME NEW S, channel \in Seq(S), NEW m \in S, channel' = Append(channel, m), rx'.told = rx.told,
           NEW k \in LateChunks'
    PROVE  k \in LateChunks \/ (k = Len(channel) + 1 /\ m.type = "chunk")
<1>1. /\ Len(channel) \in Nat /\ Len(channel') = Len(channel) + 1
      /\ \A j \in 1..Len(channel) : channel'[j] = channel[j]
      /\ channel'[Len(channel) + 1] = m
    BY Appended
<1>2. /\ k \in 1..Len(channel') /\ channel'[k].type = "chunk"
      /\ rx.told \/ \E j \in 1..(k - 1) : channel'[j] = Cancelled
    BY DEF LateChunks, AfterCancel, Cancelled
<1>3. CASE k \in 1..Len(channel)
    <2>1. rx.told \/ \E j \in 1..(k - 1) : channel[j] = Cancelled
        BY <1>1, <1>2, <1>3
    <2> QED
        BY <1>1, <1>2, <1>3, <2>1 DEF LateChunks, AfterCancel
<1>4. CASE k = Len(channel) + 1
    BY <1>1, <1>2, <1>4
<1> QED
    BY <1>1, <1>2, <1>3, <1>4

\* The first message is handled.
LEMMA HandledLate ==
    ASSUME NEW S, channel \in Seq(S), channel # <<>>, channel' = Tail(channel),
           rx'.told => rx.told \/ Head(channel) = Cancelled, NEW k \in LateChunks'
    PROVE  k + 1 \in LateChunks
<1>1. /\ Len(channel) \in Nat /\ Len(channel') = Len(channel) - 1 /\ Head(channel) = channel[1]
      /\ \A j \in 1..(Len(channel) - 1) : channel'[j] = channel[j + 1]
    BY Behead
<1>2. /\ k \in 1..Len(channel') /\ channel'[k].type = "chunk"
      /\ rx'.told \/ \E j \in 1..(k - 1) : channel'[j] = Cancelled
    BY DEF LateChunks, AfterCancel, Cancelled
<1>3. k + 1 \in 1..Len(channel) /\ channel[k + 1].type = "chunk"
    BY <1>1, <1>2
<1>4. rx.told \/ \E j \in 1..k : channel[j] = Cancelled
    <2>1. CASE rx'.told
        BY <1>1, <1>2, <2>1
    <2>2. CASE \E j \in 1..(k - 1) : channel'[j] = Cancelled
        <3>1. PICK j \in 1..(k - 1) : channel'[j] = Cancelled
            BY <2>2
        <3>2. j + 1 \in 1..k /\ channel[j + 1] = Cancelled
            BY <1>1, <1>2, <3>1
        <3> QED
            BY <3>2
    <2> QED
        BY <1>2, <2>1, <2>2
<1>5. (k + 1) - 1 = k
    BY <1>2
<1> QED
    BY <1>3, <1>4, <1>5 DEF LateChunks, AfterCancel

\* The end of the channel is lost.
LEMMA LostLate ==
    ASSUME NEW S, channel \in Seq(S), NEW n \in 0..Len(channel), channel' = SubSeq(channel, 1, n),
           rx'.told = rx.told, NEW k \in LateChunks'
    PROVE  k \in LateChunks
<1>1. Len(channel) \in Nat /\ Len(channel') = n /\ \A j \in 1..n : channel'[j] = channel[j]
    BY Cut
<1>2. /\ k \in 1..n /\ channel'[k].type = "chunk"
      /\ rx.told \/ \E j \in 1..(k - 1) : channel'[j] = Cancelled
    BY <1>1 DEF LateChunks, AfterCancel, Cancelled
<1>3. rx.told \/ \E j \in 1..(k - 1) : channel[j] = Cancelled
    BY <1>1, <1>2
<1> QED
    BY <1>1, <1>2, <1>3 DEF LateChunks, AfterCancel

\* Only SendChunk adds to the late chunks; of the others, the first message may be gone.
LEMMA LateOnes ==
    ASSUME StreamInv, [Next]_vars, ~SendChunk
    PROVE  \E d \in {0, 1} : \A k \in LateChunks' : k + d \in LateChunks
<1>1. /\ channel \in Seq(Messages(batch)) /\ Len(channel) \in Nat
      /\ \A k \in 1..Len(channel) : IsCancel(channel[k]) <=> channel[k] = Cancelled
    BY AfterCancellation
<1>2. \A k \in LateChunks : k \in Nat
    BY DEF LateChunks, AfterCancel
<1>3. CASE (\E files \in Batches : sendFiles(files)) \/ StopBetweenFiles \/ StartFile \/ FinishBatch
           \/ EndFile \/ cancelTransfer
    <2>1. UNCHANGED rx
        BY <1>3 DEF sendFiles, StopBetweenFiles, StartFile, FinishBatch, EndFile, cancelTransfer
    <2>2. UNCHANGED channel \/ \E m : m.type # "chunk" /\ channel' = Append(channel, m)
        BY <1>3 DEF sendFiles, StopBetweenFiles, StartFile, FinishBatch, EndFile, cancelTransfer,
            sendControlMessage, FileStart, FileEnd, BatchComplete, Cancelled
    <2>3. ASSUME NEW k \in LateChunks' PROVE k + 0 \in LateChunks
        <3>1. CASE UNCHANGED channel
            BY <1>2, <2>1, <3>1 DEF LateChunks, AfterCancel, Cancelled
        <3>2. CASE \E m : m.type # "chunk" /\ channel' = Append(channel, m)
            <4>1. PICK m : m.type # "chunk" /\ channel' = Append(channel, m)
                BY <3>2
            <4>2. channel \in Seq(Messages(batch) \cup {m})
                BY <1>1
            <4>3. k \in LateChunks
                BY <2>1, <4>1, <4>2, SentLate
            <4> QED
                BY <1>2, <4>3
        <3> QED
            BY <2>2, <3>1, <3>2
    <2> QED
        BY <2>3
<1>4. CASE NextChunk \/ BufferLow \/ DrainTimeout \/ SendFails \/ HearReceiver \/ Transmit
           \/ CancelReceiving \/ UNCHANGED vars
    <2>1. UNCHANGED channel
        BY <1>4 DEF NextChunk, BufferLow, DrainTimeout, SendFails, HearReceiver, Transmit,
            CancelReceiving, vars
    <2>2. rx'.told = rx.told
        <3>1. rx \in Engines
            BY DEF StreamInv, ReceiverInv
        <3> QED
            BY <1>4, <3>1 DEF NextChunk, BufferLow, DrainTimeout, SendFails, HearReceiver, Transmit,
                CancelReceiving, vars, Engines
    <2>3. \A k \in LateChunks' : k + 0 \in LateChunks
        BY <1>2, <2>1, <2>2 DEF LateChunks, AfterCancel, Cancelled
    <2> QED
        BY <2>3
<1>5. CASE ReceiverStep
    <2>1. Take /\ onWire > 0 /\ rx \in Engines
        BY <1>5 DEF ReceiverStep, ReceiveBatchStart, ReceiveFileStart, ReceiveChunk, ReceiveFileEnd,
            ReceiveBatchComplete, ReceiveCancelled, Arrives, StreamInv, ReceiverInv
    <2>2. channel # <<>> /\ Head(channel) = channel[1] /\ 1 \in 1..Len(channel)
        BY <1>1, <2>1 DEF StreamInv, ChannelInv
    <2>3. rx'.told => rx.told \/ Head(channel) = Cancelled
        <3>1. CASE ReceiveCancelled
            BY <1>1, <2>2, <3>1 DEF ReceiveCancelled, Arrives, IsCancel
        <3>2. CASE ReceiveBatchStart \/ ReceiveFileStart \/ ReceiveChunk \/ ReceiveFileEnd \/ ReceiveBatchComplete
            BY <2>1, <3>2 DEF ReceiveBatchStart, ReceiveFileStart, ReceiveChunk, ReceiveFileEnd,
                ReceiveBatchComplete, Engines
        <3> QED
            BY <1>5, <3>1, <3>2 DEF ReceiverStep
    <2>4. \A k \in LateChunks' : k + 1 \in LateChunks
        BY <1>1, <2>1, <2>2, <2>3, HandledLate DEF Take
    <2> QED
        BY <2>4
<1>6. CASE Close
    <2>1. PICK n \in 0..onWire : channel' = SubSeq(channel, 1, n)
        BY <1>6 DEF Close
    <2>2. UNCHANGED rx /\ n \in 0..Len(channel)
        BY <1>1, <1>6 DEF Close, StreamInv, ChannelInv
    <2>3. \A k \in LateChunks' : k + 0 \in LateChunks
        BY <1>1, <1>2, <2>1, <2>2, LostLate
    <2> QED
        BY <2>3
<1>7. CASE ShowDashboard
    <2>1. LateChunks' = {}
        BY <1>7 DEF ShowDashboard, LateChunks, AfterCancel
    <2> QED
        BY <2>1
<1> QED
    BY <1>3, <1>4, <1>5, <1>6, <1>7 DEF Next, SenderStep, UserStep

LEMMA LateStep == StreamInv /\ StreamInv' /\ CancelStops /\ [Next]_vars => CancelStops'
<1> SUFFICES ASSUME StreamInv, StreamInv', CancelStops, [Next]_vars PROVE CancelStops'
    OBVIOUS
<1>1. channel \in Seq(Messages(batch)) /\ (AfterCancel # {} => isCancelled)
    BY AfterCancellation
<1>2. /\ (\A k \in AfterCancel \ LateChunks : channel[k] = Cancelled)'
      /\ (AfterCancel # {} => isCancelled)'
    BY AfterCancellation, PTL
<1>3. CASE SendChunk
    <2>1. /\ pc = "read" /\ pc' = "chunk" /\ UNCHANGED <<rx, isCancelled>>
          /\ channel' = Append(channel, Piece(fileIndex, batch[fileIndex], offset))
        BY <1>3 DEF SendChunk
    <2>2. CASE isCancelled
        <3>1. LateChunks = {}
            BY <2>1, <2>2 DEF CancelStops
        <3>2. channel \in Seq(Messages(batch) \cup {Piece(fileIndex, batch[fileIndex], offset)})
            BY <1>1
        <3>3. \A k \in LateChunks' : k = Len(channel) + 1
            BY <2>1, <3>1, <3>2, SentLate
        <3> QED
            BY <1>2, <2>1, <3>3 DEF CancelStops, Cancelled
    <2>3. CASE ~isCancelled
        <3>1. LateChunks' = {}
            BY <1>2, <2>1, <2>3 DEF LateChunks
        <3> QED
            BY <1>2, <3>1 DEF CancelStops, Cancelled
    <2> QED
        BY <2>2, <2>3
<1>4. CASE ~SendChunk
    <2>1. PICK d \in {0, 1} : \A k \in LateChunks' : k + d \in LateChunks
        BY <1>4, LateOnes
    <2>2. isCancelled /\ pc' \in {"read", "drain"} => pc \in {"read", "drain"}
        BY <1>4 DEF Next, SenderStep, UserStep, ReceiverStep, sendFiles, StopBetweenFiles, StartFile,
            FinishBatch, EndFile, cancelTransfer, NextChunk, MoreToSend, BufferLow, DrainTimeout, SendFails,
            HearReceiver, Transmit, CancelReceiving, Close, ReceiveBatchStart, ReceiveFileStart, ReceiveChunk,
            ReceiveFileEnd, ReceiveBatchComplete, ReceiveCancelled, ShowDashboard, Take, vars, senderVars
    <2> QED
        BY <1>1, <1>2, <2>1, <2>2, NoMoreLate
<1> QED
    BY <1>3, <1>4

\* CancelStops: after the sender's Cancel button, no file is finished, started or
\* completed, and one slice at most is still sent.
THEOREM CancelStopsHolds == Spec => []CancelStops
<1>1. Init => CancelStops
    BY DEF Init, CancelStops, LateChunks, AfterCancel
<1> QED
    BY <1>1, LateStep, StreamSafety, PTL DEF Spec
=============================================================================
