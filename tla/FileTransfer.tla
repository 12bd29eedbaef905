---------------------------- MODULE FileTransfer ----------------------------
(***************************************************************************)
(* The FileTransferEngine of static/js/file-transfer.js at both ends of    *)
(* one RTCDataChannel: the sender's chunk loop with backpressure, the      *)
(* receiver's reassembly, cancellation from either side and the loss of    *)
(* the channel.  An engine is created per open channel and sends one batch *)
(* (app.js:248-263).                                                       *)
(*                                                                         *)
(* The sender is an async function: between two awaits nothing else runs   *)
(* in its page.  At "file" and "chunk" it is running; at "read" it awaits  *)
(* a slice of the file and at "drain" the buffer.  A file is its position  *)
(* in the batch and its size; a chunk is a piece of a file.  The bytes of  *)
(* control messages are not counted in bufferedAmount.                     *)
(***************************************************************************)
EXTENDS Naturals, Sequences

CONSTANTS
    Batches,        \* the batches a user may pick: non-empty sequences of file sizes
    ChunkSize,      \* CHUNK_SIZE
    MaxBuffer,      \* MAX_BUFFER_AMOUNT
    LowWater        \* BUFFER_THRESHOLD

ASSUME TransferAssumption ==
    /\ \A b \in Batches : b \in Seq(Nat) /\ b # <<>>
    /\ ChunkSize \in Nat \ {0}
    /\ MaxBuffer \in Nat /\ LowWater \in 0..MaxBuffer

VARIABLES
    batch,          \* filesToSend: the sizes, <<>> before sendFiles
    pc,             \* where sendFiles is
    fileIndex,      \* the file being sent (counted from 1)
    offset,         \* the bytes of it that were sent
    isCancelled,    \* the sender cancelled
    sentAll,        \* the sender emitted transfer-complete
    open,           \* readyState is "open" at both ends
    channel,        \* messages sent and not yet handled by the receiver, in order
    onWire,         \* how many of them have left the sender's buffer
    back,           \* messages on their way from the receiver to the sender
    rx              \* the receiver's engine

senderVars == <<batch, pc, fileIndex, offset, isCancelled, sentAll>>
vars == <<senderVars, open, channel, onWire, back, rx>>

----------------------------------------------------------------------------
(* Messages *)

Piece(i, size, from) ==
    [type |-> "chunk", file |-> i, from |-> from,
     size |-> IF size - from < ChunkSize THEN size - from ELSE ChunkSize]

BatchStart == [type |-> "batch-start", files |-> batch]
FileStart == [type |-> "file-start", file |-> fileIndex, size |-> batch[fileIndex]]
FileEnd == [type |-> "file-end", file |-> fileIndex]
BatchComplete == [type |-> "batch-complete"]
Cancelled == [type |-> "transfer-cancelled"]

\* The sum of a sequence of sizes: a recursive function, which can be reasoned about.
Total(sizes) ==
    LET sum[k \in 0..Len(sizes)] == IF k = 0 THEN 0 ELSE sum[k - 1] + sizes[k]
    IN  sum[Len(sizes)]

Payload(m) == IF m.type = "chunk" THEN m.size ELSE 0
Bytes(messages) == Total([k \in 1..Len(messages) |-> Payload(messages[k])])

bufferedAmount == Bytes(SubSeq(channel, onWire + 1, Len(channel)))

\* sendControlMessage drops the message when the channel is not open.
sendControlMessage(m) == channel' = IF open THEN Append(channel, m) ELSE channel

----------------------------------------------------------------------------
(* Sender *)

Running == pc \in {"file", "chunk"}

\* sendFiles up to its first file.
sendFiles(files) ==
    /\ pc = "idle" /\ open
    /\ batch' = files
    /\ channel' = Append(channel, [type |-> "batch-start", files |-> files])
    /\ pc' = "file" /\ fileIndex' = 1
    /\ UNCHANGED <<offset, isCancelled, sentAll, open, onWire, back, rx>>

\* The for loop finds that the user has cancelled.
StopBetweenFiles ==
    /\ pc = "file" /\ fileIndex <= Len(batch) /\ isCancelled
    /\ sendControlMessage(Cancelled)
    /\ pc' = "over"
    /\ UNCHANGED <<batch, fileIndex, offset, isCancelled, sentAll, open, onWire, back, rx>>

\* Mutant: waits for data before a file starts, and an empty file has none.
StartFile_NonEmpty ==
    /\ pc = "file" /\ fileIndex <= Len(batch) /\ ~isCancelled /\ batch[fileIndex] > 0
    /\ sendControlMessage(FileStart)
    /\ offset' = 0 /\ pc' = "chunk"
    /\ UNCHANGED <<batch, fileIndex, isCancelled, sentAll, open, onWire, back, rx>>

StartFile ==
    /\ pc = "file" /\ fileIndex <= Len(batch) /\ ~isCancelled
    /\ sendControlMessage(FileStart)
    /\ offset' = 0 /\ pc' = "chunk"
    /\ UNCHANGED <<batch, fileIndex, isCancelled, sentAll, open, onWire, back, rx>>

\* Mutant: completion is announced whether or not the user cancelled.
FinishBatch_Always ==
    /\ pc = "file" /\ fileIndex > Len(batch)
    /\ sendControlMessage(BatchComplete) /\ sentAll' = TRUE
    /\ pc' = "over"
    /\ UNCHANGED <<batch, fileIndex, offset, isCancelled, open, onWire, back, rx>>

\* Mutant: the loop may stop before the last file.
FinishBatch_OneEarly ==
    /\ pc = "file" /\ fileIndex >= Len(batch)
    /\ IF isCancelled THEN UNCHANGED <<channel, sentAll>>
       ELSE sendControlMessage(BatchComplete) /\ sentAll' = TRUE
    /\ pc' = "over"
    /\ UNCHANGED <<batch, fileIndex, offset, isCancelled, open, onWire, back, rx>>

FinishBatch ==
    /\ pc = "file" /\ fileIndex > Len(batch)
    /\ IF isCancelled THEN UNCHANGED <<channel, sentAll>>
       ELSE sendControlMessage(BatchComplete) /\ sentAll' = TRUE
    /\ pc' = "over"
    /\ UNCHANGED <<batch, fileIndex, offset, isCancelled, open, onWire, back, rx>>

\* Mutant: a last chunk that is shorter than the others is forgotten.
MoreToSend_WholeChunks == offset + ChunkSize <= batch[fileIndex] /\ ~isCancelled

MoreToSend == offset < batch[fileIndex] /\ ~isCancelled

\* The while loop goes on: with the next slice, or first with the wait for the buffer.
NextChunk ==
    /\ pc = "chunk" /\ MoreToSend
    /\ pc' = IF bufferedAmount > MaxBuffer THEN "drain" ELSE "read"
    /\ UNCHANGED <<batch, fileIndex, offset, isCancelled, sentAll, open, channel, onWire, back, rx>>

\* Mutant: the end of the file is announced although its loop was broken off.
EndFile_Always ==
    /\ pc = "chunk" /\ ~MoreToSend
    /\ sendControlMessage(FileEnd)
    /\ fileIndex' = fileIndex + 1 /\ pc' = "file"
    /\ UNCHANGED <<batch, offset, isCancelled, sentAll, open, onWire, back, rx>>

\* Mutant: the index advances in the loop's head and in its body.
EndFile_Twice ==
    /\ pc = "chunk" /\ ~MoreToSend
    /\ IF isCancelled THEN UNCHANGED channel ELSE sendControlMessage(FileEnd)
    /\ fileIndex' = fileIndex + 2 /\ pc' = "file"
    /\ UNCHANGED <<batch, offset, isCancelled, sentAll, open, onWire, back, rx>>

EndFile ==
    /\ pc = "chunk" /\ ~MoreToSend
    /\ IF isCancelled THEN UNCHANGED channel ELSE sendControlMessage(FileEnd)
    /\ fileIndex' = fileIndex + 1 /\ pc' = "file"
    /\ UNCHANGED <<batch, offset, isCancelled, sentAll, open, onWire, back, rx>>

\* waitForBufferDrain: bufferedamountlow fires ...
BufferLow ==
    /\ pc = "drain" /\ bufferedAmount <= LowWater
    /\ pc' = "read"
    /\ UNCHANGED <<batch, fileIndex, offset, isCancelled, sentAll, open, channel, onWire, back, rx>>

\* ... or 200 ms have passed, however full the buffer is.
DrainTimeout ==
    /\ pc = "drain"
    /\ pc' = "read"
    /\ UNCHANGED <<batch, fileIndex, offset, isCancelled, sentAll, open, channel, onWire, back, rx>>

\* The slice has been read and is sent, without another look at isCancelled.
SendChunk ==
    LET piece == Piece(fileIndex, batch[fileIndex], offset)
    IN  /\ pc = "read" /\ open
        /\ channel' = Append(channel, piece)
        /\ offset' = offset + piece.size
        /\ pc' = "chunk"
        /\ UNCHANGED <<batch, fileIndex, isCancelled, sentAll, open, onWire, back, rx>>

\* The slice cannot be read, or the channel is closed and send() throws: the
\* promise of sendFiles is rejected and the receiver hears nothing.
SendFails ==
    /\ pc = "read"
    /\ pc' = "failed"
    /\ UNCHANGED <<batch, fileIndex, offset, isCancelled, sentAll, open, channel, onWire, back, rx>>

\* The Cancel button of the sender's dashboard.  (It may be pressed again; the bound
\* is one of its messages at a time on its way.)
cancelTransfer ==
    /\ pc # "idle" /\ ~Running
    /\ \A k \in 1..Len(channel) : channel[k] # Cancelled
    /\ isCancelled' = TRUE
    /\ sendControlMessage(Cancelled)
    /\ UNCHANGED <<batch, pc, fileIndex, offset, sentAll, open, onWire, back, rx>>

\* A message from the receiver: the only one there is makes the page show a toast.
HearReceiver ==
    /\ back # <<>> /\ ~Running
    /\ back' = Tail(back)
    /\ UNCHANGED <<senderVars, open, channel, onWire, rx>>

----------------------------------------------------------------------------
(* Receiver *)

NoFile == [file |-> 0, size |-> 0]

\* The queue of files in the receiver's dashboard: what a card shows, and the chunks
\* of the file it offers.
Card(shows, chunks) == [shows |-> shows, chunks |-> chunks]

renderQueue(files) == [k \in 1..Len(files) |-> Card("waiting", <<>>)]
updateTelemetryUI(cards, i) == [cards EXCEPT ![i] = Card("progress", <<>>)]

\* Mutant: the card is looked up by the number of files received before.
markFileCompleted_ByCount(cards, i, chunks) ==
    [cards EXCEPT ![IF i > 1 THEN i - 1 ELSE i] = Card("download", chunks)]

markFileCompleted(cards, i, chunks) == [cards EXCEPT ![i] = Card("download", chunks)]

Arrives(type) == onWire > 0 /\ Head(channel).type = type

Take == channel' = Tail(channel) /\ onWire' = onWire - 1 /\ UNCHANGED <<senderVars, open, back>>

ReceiveBatchStart ==
    /\ Arrives("batch-start")
    /\ rx' = [rx EXCEPT !.files = Head(channel).files, !.total = 0, !.received = <<>>,
                        !.cards = renderQueue(Head(channel).files)]
    /\ Take

ReceiveFileStart ==
    /\ Arrives("file-start")
    /\ rx' = [rx EXCEPT !.current = [file |-> Head(channel).file, size |-> Head(channel).size],
                        !.chunks = <<>>]
    /\ Take

\* handleIncomingChunk
ReceiveChunk ==
    /\ Arrives("chunk")
    /\ rx' = IF rx.current = NoFile THEN rx
             ELSE [rx EXCEPT !.chunks = Append(@, Head(channel)), !.total = @ + Head(channel).size,
                             !.cards = updateTelemetryUI(@, rx.current.file)]
    /\ Take

\* Mutant: the newest file is listed first.
ReceiveFileEnd_NewestFirst ==
    /\ Arrives("file-end")
    /\ rx' = IF rx.current = NoFile THEN rx
             ELSE [rx EXCEPT !.received = <<[file |-> rx.current.file, size |-> rx.current.size,
                                             chunks |-> rx.chunks]>> \o @,
                             !.current = NoFile, !.chunks = <<>>]
    /\ Take

\* finalizeReceivedFile
ReceiveFileEnd ==
    /\ Arrives("file-end")
    /\ rx' = IF rx.current = NoFile THEN rx
             ELSE [rx EXCEPT !.received = Append(@, [file |-> rx.current.file, size |-> rx.current.size,
                                                     chunks |-> rx.chunks]),
                             !.cards = markFileCompleted(@, rx.current.file, rx.chunks),
                             !.current = NoFile, !.chunks = <<>>]
    /\ Take

ReceiveBatchComplete ==
    /\ Arrives("batch-complete")
    /\ rx' = [rx EXCEPT !.finished = TRUE]
    /\ Take

ReceiveCancelled ==
    /\ Arrives("transfer-cancelled")
    /\ rx' = [rx EXCEPT !.told = TRUE]
    /\ Take

\* The same page starts over: it joins again, or another connection opens.  Either way
\* it has closed this one, and initDashboard renders an empty queue where the cards,
\* with the downloads they offer, were.
ShowDashboard ==
    /\ ~open /\ ~rx.replaced
    /\ rx' = [rx EXCEPT !.cards = renderQueue(<<>>), !.replaced = TRUE]
    /\ channel' = <<>> /\ onWire' = 0
    /\ UNCHANGED <<senderVars, open, back>>

\* The receiver's Cancel button sets isCancelled in an engine that sends nothing.
CancelReceiving ==
    /\ open /\ ~rx.cancelled
    /\ rx' = [rx EXCEPT !.cancelled = TRUE]
    /\ back' = Append(back, Cancelled)
    /\ UNCHANGED <<senderVars, open, channel, onWire>>

----------------------------------------------------------------------------
(* The channel: ordered and reliable until it closes.  Closing loses what has *)
(* not arrived, or any tail of it.                                           *)

Transmit ==
    /\ open /\ onWire < Len(channel)
    /\ onWire' = onWire + 1
    /\ UNCHANGED <<senderVars, open, channel, back, rx>>

Close ==
    /\ open /\ ~Running
    /\ open' = FALSE
    /\ \E n \in 0..onWire : channel' = SubSeq(channel, 1, n) /\ onWire' = n
    /\ back' = <<>>
    /\ UNCHANGED <<senderVars, rx>>

----------------------------------------------------------------------------
Init ==
    /\ batch = <<>> /\ pc = "idle" /\ fileIndex = 0 /\ offset = 0
    /\ isCancelled = FALSE /\ sentAll = FALSE
    /\ open = TRUE /\ channel = <<>> /\ onWire = 0
    /\ back = <<>>
    /\ rx = [files |-> <<>>, current |-> NoFile, chunks |-> <<>>, received |-> <<>>,
             cards |-> <<>>, total |-> 0, finished |-> FALSE, told |-> FALSE, cancelled |-> FALSE,
             replaced |-> FALSE]

SenderStep ==
    \/ StopBetweenFiles \/ StartFile \/ FinishBatch \/ NextChunk \/ EndFile
    \/ BufferLow \/ DrainTimeout \/ SendChunk

ReceiverStep ==
    \/ ReceiveBatchStart \/ ReceiveFileStart \/ ReceiveChunk
    \/ ReceiveFileEnd \/ ReceiveBatchComplete \/ ReceiveCancelled

UserStep == (\E files \in Batches : sendFiles(files)) \/ cancelTransfer \/ CancelReceiving

Next ==
    \/ SenderStep \/ ReceiverStep \/ UserStep
    \/ SendFails \/ HearReceiver \/ Transmit \/ Close \/ ShowDashboard

Spec == Init /\ [][Next]_vars

\* The event loops of both pages and the transport make progress; timers fire.
Fairness == WF_vars(SenderStep) /\ WF_vars(ReceiverStep) /\ WF_vars(Transmit) /\ WF_vars(HearReceiver)

FairSpec == Spec /\ Fairness

----------------------------------------------------------------------------
(* Properties *)

\* The pieces of a file, in order.
Pieces(i, size) ==
    [k \in 1..((size + ChunkSize - 1) \div ChunkSize) |-> Piece(i, size, (k - 1) * ChunkSize)]

Intact(f) == f.file \in 1..Len(batch) /\ f.size = batch[f.file] /\ f.chunks = Pieces(f.file, f.size)

ChunkMessage == [type : {"chunk"}, file : Nat, from : Nat, size : Nat]

Messages(files) ==
    {[type |-> "batch-start", files |-> files], BatchComplete, Cancelled} \cup ChunkMessage
      \cup [type : {"file-start"}, file : Nat, size : Nat] \cup [type : {"file-end"}, file : Nat]

FileRecord == [file : Nat, size : Nat, chunks : Seq(ChunkMessage)]
CardRecord == [shows : {"waiting", "progress", "download"}, chunks : Seq(ChunkMessage)]

Engines ==
    [files : Seq(Nat), current : [file : Nat, size : Nat], chunks : Seq(ChunkMessage),
     received : Seq(FileRecord), cards : Seq(CardRecord), total : Nat,
     finished : BOOLEAN, told : BOOLEAN, cancelled : BOOLEAN, replaced : BOOLEAN]

\* Type invariant of both engines and the channel.
TypeOK ==
    /\ batch \in Batches \cup {<<>>}
    /\ pc \in {"idle", "file", "chunk", "drain", "read", "over", "failed"}
    /\ fileIndex \in 0..(Len(batch) + 1)
    /\ offset \in Nat
    /\ {isCancelled, sentAll, open} \subseteq BOOLEAN
    /\ channel \in Seq(Messages(batch)) /\ onWire \in 0..Len(channel)
    /\ back \in Seq({Cancelled})
    /\ rx \in Engines

\* A file is handed to the receiver's user only whole: every byte of it, in order,
\* and none of another file, whenever the sender or the receiver cancels and
\* wherever the channel breaks.
FilesIntact == \A k \in 1..Len(rx.received) : Intact(rx.received[k])

\* Every file the receiver has finished is offered for download on its own card, and
\* nothing that happens on this connection or to it takes the offer away, until the
\* page shows another dashboard.
DownloadsOffered ==
    ~rx.replaced => \A k \in 1..Len(rx.received) :
        LET f == rx.received[k]
        IN  rx.cards[f.file] = Card("download", Pieces(f.file, batch[f.file]))

\* The receiver reports completion (and audits COMPLETED) only with every file of
\* the announced batch, and the byte count it reports is that of the batch.
CompleteMeansEverything ==
    rx.finished =>
        /\ rx.files = batch
        /\ [k \in 1..Len(rx.received) |-> rx.received[k].size] = batch
        /\ rx.total = Total(batch)

\* What follows the sender's own cancellation in the channel is at most the one
\* chunk whose slice was being read: no file is finished, started or completed
\* after it.
AfterCancel == {k \in 1..Len(channel) : rx.told \/ \E j \in 1..(k - 1) : channel[j] = Cancelled}
LateChunks == {k \in AfterCancel : channel[k].type = "chunk"}

CancelStops ==
    /\ \A k \in AfterCancel \ LateChunks : channel[k] = Cancelled
    /\ \A j, k \in LateChunks : j = k
    /\ isCancelled /\ LateChunks # {} => pc \notin {"read", "drain"}

\* Completion is reported by the sender only when the receiver has, or the open
\* channel still carries, all of the batch.
SenderReportsEverything ==
    sentAll /\ open => rx.total + Bytes(channel) = Total(batch)

\* Every batch is delivered, unless somebody cancels, the channel closes or a file
\* cannot be read.
BatchArrives == pc = "file" ~> rx.finished \/ isCancelled \/ ~open \/ pc = "failed"

\* The receiver's whole files: their places in the batch, in order of arrival.
WholeFiles ==
    [k \in 1..Len(rx.received) |-> IF Intact(rx.received[k]) THEN rx.received[k].file ELSE 0]

\* What the receiver has received and reported, as the abstract transfer sees it.
Transfer == INSTANCE AbstractTransfer WITH
    wanted <- batch, got <- WholeFiles, complete <- rx.finished, stopped <- rx.told

\* The engines implement the abstract transfer: files arrive whole, each once, in
\* the order of the batch, completion is reported after the last of them, and neither
\* comes after the sender's cancellation.
ImplementsTransfer == Transfer!Spec

----------------------------------------------------------------------------
(* The argument behind FilesIntact, DownloadsOffered and ImplementsTransfer:     *)
(* the messages in the channel are a connected stretch of one batch, which       *)
(* begins where the receiver is and, while the channel is open, ends where the   *)
(* sender is.  Only after a cancellation it may be torn, and from then on no     *)
(* file is finished.                                                             *)

\* Places in the stream: before the batch, between files, in a file, behind the end.
Place(at, file, bytes) == [at |-> at, file |-> file, bytes |-> bytes]
Nowhere == Place("idle", 0, 0)
Between(i) == Place("between", i, 0)
In(i, bytes) == Place("in", i, bytes)
Behind == Place("behind", 0, 0)

IsCancel(m) == m.type = "transfer-cancelled"

\* Where message m leads ...
After(m) ==
    CASE m.type = "batch-start" -> Between(0)
      [] m.type = "file-start" -> In(m.file, 0)
      [] m.type = "chunk" -> In(m.file, m.from + m.size)
      [] m.type = "file-end" -> Between(m.file)
      [] OTHER -> Behind

\* ... and where it belongs, in a batch of these files.
Before(m, files) ==
    CASE m.type = "batch-start" -> Nowhere
      [] m.type = "file-start" -> Between(m.file - 1)
      [] m.type = "chunk" -> In(m.file, m.from)
      [] m.type = "file-end" -> In(m.file, files[m.file])
      [] OTHER -> Between(Len(files))

\* The bytes in the first c pieces of a file.
BytesOf(c, size) == IF c * ChunkSize < size THEN c * ChunkSize ELSE size

ReceiverAt(r) ==
    IF r.finished THEN Behind
    ELSE IF r.current # NoFile THEN In(r.current.file, BytesOf(Len(r.chunks), r.current.size))
    ELSE IF r.files = <<>> THEN Nowhere
    ELSE Between(Len(r.received))

\* Receiver r and the messages q on their way to it: the stream, as far as it was
\* sent, ends at place p or with a cancellation.
EndsAt(q, r, p) ==
    IF q = <<>> THEN r.told \/ ReceiverAt(r) = p
    ELSE IsCancel(q[Len(q)]) \/ After(q[Len(q)]) = p

\* Message m belongs to the batch of these files.
OfBatch(m, files) ==
    /\ m.type \in {"file-start", "chunk", "file-end"} => m.file \in 1..Len(files)
    /\ m.type = "file-start" => m.size = files[m.file]
    /\ m.type = "chunk" => m.from < files[m.file] /\ m = Piece(m.file, files[m.file], m.from)

\* What may come after a cancellation.
Harmless(m) == m.type \in {"chunk", "transfer-cancelled"}

ChannelInv ==
    /\ channel \in Seq(Messages(batch)) /\ onWire \in 0..Len(channel)
    /\ \A k \in 1..Len(channel) : OfBatch(channel[k], batch)
    /\ \A k \in 2..Len(channel) :
          \/ IsCancel(channel[k-1]) \/ IsCancel(channel[k])
          \/ Before(channel[k], batch) = After(channel[k-1])
    /\ channel # <<>> =>
          rx.told \/ IsCancel(channel[1]) \/ Before(channel[1], batch) = ReceiverAt(rx)
    /\ \A j, k \in 1..Len(channel) : j < k /\ IsCancel(channel[j]) => Harmless(channel[k])
    /\ rx.told => isCancelled /\ \A k \in 1..Len(channel) : Harmless(channel[k])
    /\ \A k \in 1..Len(channel) : IsCancel(channel[k]) => isCancelled

SenderInv ==
    /\ batch \in Batches \cup {<<>>} /\ isCancelled \in BOOLEAN
    /\ pc \in {"idle", "file", "chunk", "drain", "read", "over", "failed"}
    /\ pc = "idle" => batch = <<>> /\ channel = <<>> /\ ~isCancelled /\ ReceiverAt(rx) = Nowhere
    /\ pc # "idle" => batch # <<>>
    /\ pc = "file" => fileIndex \in 1..(Len(batch) + 1)
    /\ pc \in {"chunk", "drain", "read"} => fileIndex \in 1..Len(batch) /\ offset \in 0..batch[fileIndex]
    /\ pc \in {"drain", "read"} => offset < batch[fileIndex]
    /\ open /\ pc = "file" /\ ~isCancelled =>
          EndsAt(channel, rx, Between(fileIndex - 1))
    /\ open /\ pc \in {"chunk", "drain", "read"} =>
          EndsAt(channel, rx, In(fileIndex, offset))

\* The first c pieces of a file.
PiecesTo(i, size, c) == [k \in 1..c |-> Piece(i, size, (k - 1) * ChunkSize)]

ReceiverInv ==
    /\ rx \in Engines
    /\ rx.files \in {<<>>, batch}
    /\ rx.files = <<>> => rx.received = <<>> /\ rx.current = NoFile
    /\ rx.files # <<>> /\ ~rx.replaced => Len(rx.cards) = Len(batch)
    /\ Len(rx.received) <= Len(batch)
    /\ \A k \in 1..Len(rx.received) :
          /\ rx.received[k] = [file |-> k, size |-> batch[k], chunks |-> Pieces(k, batch[k])]
          /\ ~rx.replaced => rx.cards[k] = Card("download", Pieces(k, batch[k]))
    /\ rx.current # NoFile =>
          /\ Len(rx.received) < Len(batch)
          /\ rx.current = [file |-> Len(rx.received) + 1, size |-> batch[Len(rx.received) + 1]]
          /\ ~rx.told =>
                /\ rx.chunks = PiecesTo(rx.current.file, rx.current.size, Len(rx.chunks))
                /\ rx.chunks # <<>> => (Len(rx.chunks) - 1) * ChunkSize < rx.current.size
    /\ rx.finished => rx.files = batch /\ rx.current = NoFile /\ Len(rx.received) = Len(batch)

StreamInv == ChannelInv /\ SenderInv /\ ReceiverInv

\* The bytes of the files before the i-th, those that the receiver has got, and those
\* that the sender has sent.
BytesBefore(i) == Total(SubSeq(batch, 1, i - 1))
BytesHeld ==
    BytesBefore(Len(rx.received) + 1)
      + IF rx.current = NoFile THEN 0 ELSE BytesOf(Len(rx.chunks), rx.current.size)
BytesSent == BytesBefore(fileIndex) + IF pc = "file" THEN 0 ELSE offset

\* The argument behind the byte counts: every byte sent is counted by the receiver or
\* is still in the open channel, unless the sender cancels; and what the receiver has
\* counted is what it has got, unless it is told so before the end.  A cancellation
\* behind the end spoils nothing, as no chunk follows it.
AccountInv ==
    /\ rx.finished \/ ~rx.told => rx.total = BytesHeld
    /\ open /\ ~isCancelled /\ pc \in {"file", "chunk", "drain", "read"} =>
          rx.total + Bytes(channel) = BytesSent
    /\ SenderReportsEverything
    /\ sentAll => pc = "over" /\ LateChunks = {}

TransferInv == StreamInv /\ AccountInv
=============================================================================
