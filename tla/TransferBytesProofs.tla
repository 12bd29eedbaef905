------------------------ MODULE TransferBytesProofs ------------------------
(***************************************************************************)
(* Proofs about the byte counts of FileTransfer: what the receiver has     *)
(* counted and what is still in the channel is what the sender has sent,   *)
(* so that both ends report completion only of the whole batch.            *)
(*                                                                         *)
(* The first part is induction over the natural numbers, for sets; the     *)
(* second proves the laws of Total by it; the third accounts for the bytes *)
(* in every step.                                                          *)
(***************************************************************************)
EXTENDS FileTransferProofs, WellFoundedInduction

----------------------------------------------------------------------------
(* Induction, from the well-foundedness of the natural numbers. *)

\* The relation < on the natural numbers, as a set.
Below == {pair \in Nat \X Nat : pair[1] < pair[2]}

\* A library theorem, about this set.
LEMMA BelowIsWellFounded == IsWellFoundedOn(Below, Nat)
BY NatLessThanWellFounded DEF OpToRel, Below

\* A set that holds 0 and with each number the next holds all of them: else the
\* least number outside it would have a predecessor inside.
LEMMA Induction ==
    ASSUME NEW S \in SUBSET Nat, 0 \in S, \A n \in S : n + 1 \in S
    PROVE  S = Nat
<1> DEFINE T == Nat \ S
<1> SUFFICES ASSUME T # {} PROVE FALSE
    OBVIOUS
<1>1. \E n \in T : \A m \in T : <<m, n>> \notin Below
    <2> HIDE DEF T
    <2> SUFFICES T \subseteq Nat
        BY BelowIsWellFounded, WFMin
    <2> QED
        BY DEF T
<1>2. PICK n \in T : \A m \in T : <<m, n>> \notin Below
    BY <1>1
<1>3. n \in Nat \ {0} /\ n - 1 \in Nat /\ n - 1 < n
    OBVIOUS
<1>4. <<n - 1, n>> \in Below
    BY <1>3 DEF Below
<1>5. n - 1 \in S
    BY <1>2, <1>3, <1>4
<1> QED
    BY <1>3, <1>5

----------------------------------------------------------------------------
(* Sums. *)

\* s[k] is the sum of the first k sizes, for each k up to n: what the recursive
\* function of Total is meant to be.
Sums(s, sizes, n) ==
    s = [k \in 0..n |-> IF k = 0 THEN 0 ELSE s[k - 1] + sizes[k]]

\* The equations of s, in both directions.
LEMMA SumsAre ==
    ASSUME NEW sizes, NEW n \in Nat, NEW s,
           DOMAIN s = 0..n, s = [k \in 0..n |-> s[k]],
           s[0] = 0, \A k \in 1..n : s[k] = s[k - 1] + sizes[k]
    PROVE  Sums(s, sizes, n)
<1>1. \A k \in 0..n : s[k] = IF k = 0 THEN 0 ELSE s[k - 1] + sizes[k]
    OBVIOUS
<1> QED
    BY <1>1 DEF Sums

LEMMA SumsStep ==
    ASSUME NEW sizes, NEW n \in Nat, NEW s, Sums(s, sizes, n)
    PROVE  /\ s[0] = 0 /\ s = [k \in 0..n |-> s[k]]
           /\ \A k \in 1..n : s[k] = s[k - 1] + sizes[k]
BY DEF Sums

\* There is such a function ...
LEMMA SumsExist ==
    ASSUME NEW sizes \in Seq(Nat)
    PROVE  \E s \in [0..Len(sizes) -> Nat] : Sums(s, sizes, Len(sizes))
<1> DEFINE Upto(n, s) == s[0] = 0 /\ \A k \in 1..n : s[k] = s[k - 1] + sizes[k]
           G == {n \in Nat : n <= Len(sizes) => \E s \in [0..n -> Nat] : Upto(n, s)}
<1>1. 0 \in G
    <2>1. [k \in 0..0 |-> 0] \in [0..0 -> Nat] /\ Upto(0, [k \in 0..0 |-> 0])
        OBVIOUS
    <2> QED
        BY <2>1
<1>2. ASSUME NEW n \in G PROVE n + 1 \in G
    <2>1. n + 1 \in Nat
        OBVIOUS
    <2>2. ASSUME n + 1 <= Len(sizes) PROVE \E s \in [0..(n + 1) -> Nat] : Upto(n + 1, s)
        <3>0. n \in Nat /\ n <= Len(sizes)
            BY <2>2
        <3>1. PICK s \in [0..n -> Nat] : Upto(n, s)
            BY <3>0
        <3> DEFINE t == [k \in 0..(n + 1) |-> IF k = n + 1 THEN s[n] + sizes[n + 1] ELSE s[k]]
        <3>2. n + 1 \in 1..Len(sizes) /\ sizes[n + 1] \in Nat /\ s[n] \in Nat
            BY <2>2
        <3>3. t \in [0..(n + 1) -> Nat] /\ t[0] = 0
            BY <3>1, <3>2
        <3>4. ASSUME NEW k \in 1..(n + 1) PROVE t[k] = t[k - 1] + sizes[k]
            <4>1. CASE k = n + 1
                BY <4>1
            <4>2. CASE k \in 1..n
                BY <3>1, <4>2
            <4> QED
                BY <4>1, <4>2
        <3> QED
            BY <3>3, <3>4
    <2> QED
        BY <2>1, <2>2
<1>3. Len(sizes) \in G
    <2> HIDE DEF G
    <2>1. G \in SUBSET Nat
        BY DEF G
    <2>2. G = Nat
        BY <1>1, <1>2, <2>1, Induction
    <2> QED
        BY <2>2
<1>4. PICK s \in [0..Len(sizes) -> Nat] : Upto(Len(sizes), s)
    BY <1>3
<1>5. DOMAIN s = 0..Len(sizes) /\ s = [k \in 0..Len(sizes) |-> s[k]] /\ Len(sizes) \in Nat
    OBVIOUS
<1>6. Sums(s, sizes, Len(sizes))
    BY <1>4, <1>5, SumsAre
<1> QED
    BY <1>6

\* ... and only one, ...
LEMMA SumsUnique ==
    ASSUME NEW sizes, NEW n \in Nat, NEW s, NEW t, Sums(s, sizes, n), Sums(t, sizes, n)
    PROVE  s = t
<1>0. /\ s[0] = 0 /\ t[0] = 0
      /\ \A k \in 1..n : s[k] = s[k - 1] + sizes[k] /\ t[k] = t[k - 1] + sizes[k]
    BY SumsStep
<1> DEFINE G == {k \in Nat : k <= n => s[k] = t[k]}
<1>1. 0 \in G
    BY <1>0
<1>2. ASSUME NEW k \in G PROVE k + 1 \in G
    <2>1. k + 1 \in Nat
        OBVIOUS
    <2>2. ASSUME k + 1 <= n PROVE s[k + 1] = t[k + 1]
        <3>1. k + 1 \in 1..n /\ (k + 1) - 1 = k /\ s[k] = t[k]
            BY <2>2
        <3> QED
            BY <1>0, <3>1
    <2> QED
        BY <2>1, <2>2
<1>3. G = Nat
    <2>1. G \in SUBSET Nat
        OBVIOUS
    <2> HIDE DEF G
    <2> QED
        BY <1>1, <1>2, <2>1, Induction
<1>4. \A k \in 0..n : s[k] = t[k]
    BY <1>3
<1>5. s = [k \in 0..n |-> s[k]] /\ t = [k \in 0..n |-> t[k]]
    BY SumsStep
<1> QED
    BY <1>4, <1>5

\* ... so that Total, which chooses one, is its last value.
LEMMA TotalIs ==
    ASSUME NEW sizes \in Seq(Nat), NEW s, Sums(s, sizes, Len(sizes))
    PROVE  Total(sizes) = s[Len(sizes)] /\ Total(sizes) \in Nat
<1> DEFINE n == Len(sizes)
           sum == CHOOSE t : t = [k \in 0..n |-> IF k = 0 THEN 0 ELSE t[k - 1] + sizes[k]]
<1>1. PICK t \in [0..n -> Nat] : Sums(t, sizes, n)
    BY SumsExist
<1>2. Sums(sum, sizes, n)
    BY <1>1 DEF Sums
<1>3. n \in Nat
    OBVIOUS
<1>4. Total(sizes) = sum[n]
    BY DEF Total
<1> HIDE DEF sum
<1>5. sum = s /\ sum = t
    BY <1>1, <1>2, <1>3, SumsUnique
<1> QED
    BY <1>1, <1>3, <1>4, <1>5

\* The laws of a sum: a number, 0 for no sizes, and more by the size added behind or
\* less by the size removed in front.
LEMMA TotalType == ASSUME NEW sizes \in Seq(Nat) PROVE Total(sizes) \in Nat
BY SumsExist, TotalIs

LEMMA TotalEmpty == Total(<<>>) = 0
<1> DEFINE s == [k \in 0..0 |-> 0]
<1>1. Sums(s, <<>>, 0)
    BY DEF Sums
<1>2. <<>> \in Seq(Nat) /\ Len(<<>>) = 0
    OBVIOUS
<1>3. Total(<<>>) = s[0]
    BY <1>1, <1>2, TotalIs
<1> QED
    BY <1>3

LEMMA TotalAppend ==
    ASSUME NEW sizes \in Seq(Nat), NEW x \in Nat
    PROVE  Total(Append(sizes, x)) = Total(sizes) + x
<1> DEFINE n == Len(sizes)
           q == Append(sizes, x)
<1>1. /\ n \in Nat /\ n + 1 \in Nat /\ q \in Seq(Nat) /\ Len(q) = n + 1 /\ q[n + 1] = x
      /\ \A k \in 1..n : q[k] = sizes[k]
    OBVIOUS
<1>2. PICK s \in [0..(n + 1) -> Nat] : Sums(s, q, n + 1)
    BY <1>1, SumsExist
<1>3. s[0] = 0 /\ \A k \in 1..(n + 1) : s[k] = s[k - 1] + q[k]
    BY <1>1, <1>2, SumsStep
<1> DEFINE t == [k \in 0..n |-> s[k]]
<1>4. DOMAIN t = 0..n /\ t = [k \in 0..n |-> t[k]] /\ t[0] = 0 /\ t[n] = s[n]
    BY <1>1, <1>3
<1>5. \A k \in 1..n : t[k] = t[k - 1] + sizes[k]
    BY <1>1, <1>3
<1>6. Sums(t, sizes, n)
    <2> HIDE DEF t
    <2> QED
        BY <1>1, <1>4, <1>5, SumsAre
<1>7. Total(sizes) = t[n]
    BY <1>6, TotalIs
<1>8. Total(q) = s[n + 1]
    <2> HIDE DEF q, n
    <2> QED
        BY <1>1, <1>2, TotalIs
<1>9. s[n + 1] = s[n] + x
    BY <1>1, <1>3
<1> QED
    BY <1>4, <1>7, <1>8, <1>9

LEMMA TotalTail ==
    ASSUME NEW sizes \in Seq(Nat), sizes # <<>>
    PROVE  Total(sizes) = Head(sizes) + Total(Tail(sizes))
<1> DEFINE n == Len(sizes)
           q == Tail(sizes)
<1>1. /\ n \in Nat \ {0} /\ n - 1 \in Nat /\ q \in Seq(Nat) /\ Len(q) = n - 1
      /\ Head(sizes) = sizes[1] /\ sizes[1] \in Nat
      /\ \A k \in 1..(n - 1) : q[k] = sizes[k + 1]
    OBVIOUS
<1>2. PICK s \in [0..n -> Nat] : Sums(s, sizes, n)
    BY SumsExist
<1>3. s[0] = 0 /\ \A k \in 1..n : s[k] = s[k - 1] + sizes[k]
    BY <1>1, <1>2, SumsStep
<1>4. s[1] = sizes[1]
    BY <1>1, <1>3
<1> DEFINE t == [k \in 0..(n - 1) |-> s[k + 1] - sizes[1]]
<1>5. DOMAIN t = 0..(n - 1) /\ t = [k \in 0..(n - 1) |-> t[k]] /\ t[0] = 0 /\ t[n - 1] = s[n] - sizes[1]
    BY <1>1, <1>4
<1>6. ASSUME NEW k \in 1..(n - 1) PROVE t[k] = t[k - 1] + q[k]
    <2>1. k + 1 \in 1..n /\ s[k + 1] = s[k] + sizes[k + 1] /\ q[k] = sizes[k + 1]
        BY <1>1, <1>3
    <2>2. t[k] = s[k + 1] - sizes[1] /\ t[k - 1] = s[k] - sizes[1]
        BY <1>1
    <2>3. s[k] \in Nat /\ sizes[k + 1] \in Nat
        BY <1>1, <2>1
    <2> QED
        BY <1>1, <2>1, <2>2, <2>3
<1>7. Sums(t, q, n - 1)
    <2> HIDE DEF t, q
    <2> QED
        BY <1>1, <1>5, <1>6, SumsAre
<1>8. Total(q) = t[n - 1]
    <2> HIDE DEF t, q, n
    <2> QED
        BY <1>1, <1>7, TotalIs
<1>9. Total(sizes) = s[n]
    BY <1>2, TotalIs
<1>10. s[n] \in Nat
    BY <1>1
<1> QED
    BY <1>1, <1>5, <1>8, <1>9, <1>10
----------------------------------------------------------------------------
(* The bytes in the channel and in the batch. *)

\* The payloads of messages that are sent, and of those that remain.
LEMMA BytesLaws ==
    ASSUME NEW S, \A m \in S : Payload(m) \in Nat, NEW q \in Seq(S)
    PROVE  /\ Bytes(q) \in Nat
           /\ \A m \in S : Bytes(Append(q, m)) = Bytes(q) + Payload(m)
           /\ q # <<>> => Bytes(q) = Payload(Head(q)) + Bytes(Tail(q))
<1> DEFINE sizes(r) == [k \in 1..Len(r) |-> Payload(r[k])]
<1>1. \A r \in Seq(S) : sizes(r) \in Seq(Nat) /\ Len(sizes(r)) = Len(r) /\ Bytes(r) = Total(sizes(r))
    BY DEF Bytes
<1>2. ASSUME NEW m \in S PROVE Bytes(Append(q, m)) = Bytes(q) + Payload(m)
    <2> DEFINE r == Append(q, m)
    <2>1. /\ r \in Seq(S) /\ Len(q) \in Nat /\ Len(r) = Len(q) + 1
          /\ \A k \in 1..Len(q) : r[k] = q[k]
          /\ r[Len(q) + 1] = m
        BY Appended
    <2>2. sizes(r) = Append(sizes(q), Payload(m))
        <3> HIDE DEF r
        <3>1. sizes(q) \in Seq(Nat) /\ Len(sizes(q)) = Len(q) /\ Payload(m) \in Nat
            BY <1>1
        <3> DEFINE p == Append(sizes(q), Payload(m))
        <3>2. /\ Len(p) = Len(q) + 1 /\ p = [k \in 1..(Len(q) + 1) |-> p[k]]
              /\ \A k \in 1..Len(q) : p[k] = Payload(q[k])
              /\ p[Len(q) + 1] = Payload(m)
            BY <2>1, <3>1
        <3> HIDE DEF p
        <3>3. \A k \in 1..(Len(q) + 1) : p[k] = Payload(r[k])
            <4> SUFFICES ASSUME NEW k \in 1..(Len(q) + 1) PROVE p[k] = Payload(r[k])
                OBVIOUS
            <4>1. CASE k \in 1..Len(q)
                BY <2>1, <3>2, <4>1
            <4>2. CASE k = Len(q) + 1
                BY <2>1, <3>2, <4>2
            <4> QED
                BY <2>1, <4>1, <4>2
        <3>4. p = sizes(r)
            BY <2>1, <3>2, <3>3
        <3> QED
            BY <3>4 DEF p
    <2>3. Total(sizes(r)) = Total(sizes(q)) + Payload(m)
        <3> HIDE DEF sizes, r
        <3> QED
            BY <1>1, <2>2, TotalAppend
    <2> QED
        BY <1>1, <2>1, <2>3
<1>3. ASSUME q # <<>> PROVE Bytes(q) = Payload(Head(q)) + Bytes(Tail(q))
    <2> DEFINE r == Tail(q)
    <2>1. /\ Len(q) \in Nat \ {0} /\ Head(q) = q[1] /\ r \in Seq(S) /\ Len(r) = Len(q) - 1
          /\ \A k \in 1..(Len(q) - 1) : r[k] = q[k + 1]
        BY <1>3, Behead
    <2>2. sizes(q) # <<>> /\ Head(sizes(q)) = Payload(Head(q)) /\ sizes(r) = Tail(sizes(q))
        <3> HIDE DEF r
        <3> DEFINE p == Tail(sizes(q))
        <3>1. sizes(q) \in Seq(Nat) /\ Len(sizes(q)) = Len(q)
            BY <1>1
        <3>2. sizes(q) # <<>> /\ Head(sizes(q)) = Payload(q[1])
            BY <2>1, <3>1
        <3>3. /\ p = [k \in 1..(Len(q) - 1) |-> p[k]]
              /\ \A k \in 1..(Len(q) - 1) : p[k] = Payload(q[k + 1])
            BY <2>1, <3>1, <3>2
        <3> HIDE DEF p
        <3>4. p = sizes(r)
            BY <2>1, <3>3
        <3> QED
            BY <2>1, <3>2, <3>4 DEF p
    <2>3. Total(sizes(q)) = Payload(Head(q)) + Total(sizes(r))
        <3> HIDE DEF sizes, r
        <3> QED
            BY <1>1, <2>2, TotalTail
    <2> QED
        BY <1>1, <2>1, <2>3
<1>4. Bytes(q) \in Nat
    <2> HIDE DEF sizes
    <2> QED
        BY <1>1, TotalType
<1> QED
    BY <1>2, <1>3, <1>4

\* What a prefix of the batch adds up to.
LEMMA PrefixLaws ==
    ASSUME NEW files \in Seq(Nat)
    PROVE  /\ Total(SubSeq(files, 1, 0)) = 0
           /\ Total(SubSeq(files, 1, Len(files))) = Total(files)
           /\ \A i \in 0..Len(files) : Total(SubSeq(files, 1, i)) \in Nat
           /\ \A i \in 1..Len(files) :
                 Total(SubSeq(files, 1, i)) = Total(SubSeq(files, 1, i - 1)) + files[i]
<1>1. Len(files) \in Nat
    OBVIOUS
<1>2. SubSeq(files, 1, 0) = <<>> /\ SubSeq(files, 1, Len(files)) = files
    OBVIOUS
<1>3. ASSUME NEW i \in 0..Len(files) PROVE SubSeq(files, 1, i) \in Seq(Nat)
    BY <1>3, Cut
<1>4. ASSUME NEW i \in 1..Len(files)
      PROVE  Total(SubSeq(files, 1, i)) = Total(SubSeq(files, 1, i - 1)) + files[i]
    <2> DEFINE p == SubSeq(files, 1, i - 1)
               q == SubSeq(files, 1, i)
               r == Append(p, files[i])
    <2>1. /\ i \in Nat /\ i \in 0..Len(files) /\ i - 1 \in 0..Len(files) /\ files[i] \in Nat
        BY <1>1
    <2>2. /\ p \in Seq(Nat) /\ Len(p) = i - 1 /\ \A k \in 1..(i - 1) : p[k] = files[k]
          /\ q \in Seq(Nat) /\ Len(q) = i /\ \A k \in 1..i : q[k] = files[k]
        BY <2>1, Cut
    <2> HIDE DEF p, q
    <2>3. /\ r \in Seq(Nat) /\ Len(r) = (i - 1) + 1 /\ \A k \in 1..(i - 1) : r[k] = p[k]
          /\ r[(i - 1) + 1] = files[i]
        BY <2>1, <2>2, Appended
    <2>4. Len(r) = i /\ r[i] = files[i]
        BY <2>1, <2>3
    <2> HIDE DEF r
    <2>5. \A k \in 1..i : k \in 1..(i - 1) \/ k = i
        BY <2>1
    <2>6. \A k \in 1..i : q[k] = r[k]
        BY <2>2, <2>3, <2>4, <2>5
    <2>7. q = [k \in 1..i |-> q[k]] /\ r = [k \in 1..i |-> r[k]]
        BY <2>2, <2>3, <2>4
    <2>8. q = r
        BY <2>6, <2>7
    <2>9. Total(r) = Total(p) + files[i]
        BY <2>1, <2>2, TotalAppend DEF r
    <2> QED
        BY <2>8, <2>9 DEF p, q
<1> QED
    BY <1>2, <1>3, <1>4, TotalEmpty, TotalType

----------------------------------------------------------------------------
(* Accounting for the bytes in every step. *)

LEMMA Bytewise ==
    ASSUME StreamInv
    PROVE  /\ rx \in Engines /\ rx.total \in Nat /\ Bytes(channel) \in Nat
           /\ channel \in Seq(Messages(batch)) /\ \A m \in Messages(batch) : Payload(m) \in Nat
           /\ batch \in Seq(Nat) /\ Len(batch) \in Nat
           /\ \A i \in 1..Len(batch) : batch[i] \in Nat
           /\ Len(rx.received) \in Nat /\ Len(rx.received) <= Len(batch)
<1>1. ChannelInv /\ SenderInv /\ ReceiverInv
    BY DEF StreamInv
<1>2. rx \in Engines /\ Len(rx.received) <= Len(batch) /\ channel \in Seq(Messages(batch))
    BY <1>1 DEF ReceiverInv, ChannelInv
<1>3. rx.total \in Nat /\ Len(rx.received) \in Nat
    BY <1>2 DEF Engines
<1>4. ASSUME NEW m \in Messages(batch) PROVE Payload(m) \in Nat
    BY MessageKinds DEF Payload
<1> QED
    BY <1>1, <1>2, <1>3, <1>4, BatchType, BytesLaws DEF SenderInv

\* Nothing is counted, sent or handled, and nobody ceases to cancel.
LEMMA NothingSent ==
    ASSUME AccountInv, UNCHANGED <<batch, fileIndex, offset, channel, sentAll>>,
           rx'.received = rx.received, rx'.current = rx.current, rx'.chunks = rx.chunks,
           rx'.total = rx.total, rx'.finished = rx.finished, rx'.told = rx.told,
           isCancelled => isCancelled', open' => open,
           sentAll => pc' = pc,
           pc' \in {"chunk", "drain", "read"} => pc \in {"chunk", "drain", "read"},
           pc' = "file" => pc = "file"
    PROVE  AccountInv'
<1>1. BytesHeld' = BytesHeld
    BY DEF BytesHeld, BytesBefore
<1>2. open' /\ ~isCancelled' /\ pc' \in {"file", "chunk", "drain", "read"} => BytesSent' = BytesSent
    BY DEF BytesSent, BytesBefore
<1>3. LateChunks' = LateChunks
    BY DEF LateChunks, AfterCancel, Cancelled
<1>4. (Bytes(channel))' = Bytes(channel) /\ (Total(batch))' = Total(batch)
    OBVIOUS
<1> QED
    BY <1>1, <1>2, <1>3, <1>4 DEF AccountInv, SenderReportsEverything

\* What the batch adds up to, file by file.
LEMMA BatchBytes ==
    StreamInv =>
        /\ BytesBefore(1) = 0 /\ BytesBefore(Len(batch) + 1) = Total(batch)
        /\ \A i \in 1..(Len(batch) + 1) : BytesBefore(i) \in Nat
        /\ \A i \in 1..Len(batch) : BytesBefore(i + 1) = BytesBefore(i) + batch[i]
<1> SUFFICES ASSUME StreamInv
             PROVE  /\ BytesBefore(1) = 0 /\ BytesBefore(Len(batch) + 1) = Total(batch)
                    /\ \A i \in 1..(Len(batch) + 1) : BytesBefore(i) \in Nat
                    /\ \A i \in 1..Len(batch) : BytesBefore(i + 1) = BytesBefore(i) + batch[i]
    OBVIOUS
<1>1. batch \in Seq(Nat) /\ Len(batch) \in Nat
    BY Bytewise
<1>2. (Len(batch) + 1) - 1 = Len(batch) /\ 1 - 1 = 0
    BY <1>1
<1>3. ASSUME NEW i \in 1..(Len(batch) + 1) PROVE BytesBefore(i) \in Nat
    <2>1. i - 1 \in 0..Len(batch)
        BY <1>1
    <2> QED
        BY <1>1, <2>1, PrefixLaws DEF BytesBefore
<1>4. ASSUME NEW i \in 1..Len(batch) PROVE BytesBefore(i + 1) = BytesBefore(i) + batch[i]
    <2>1. (i + 1) - 1 = i
        OBVIOUS
    <2> QED
        BY <1>1, <2>1, PrefixLaws DEF BytesBefore
<1> QED
    BY <1>1, <1>2, <1>3, <1>4, PrefixLaws DEF BytesBefore

\* A message without a payload is sent, or dropped because the channel is closed.
LEMMA ControlBytes ==
    ASSUME StreamInv, NEW m \in Messages(batch), Payload(m) = 0, sendControlMessage(m)
    PROVE  Bytes(channel') = Bytes(channel)
<1>1. Bytes(Append(channel, m)) = Bytes(channel) + 0 /\ Bytes(channel) \in Nat
    BY Bytewise, BytesLaws
<1> QED
    BY <1>1 DEF sendControlMessage

LEMMA SendFilesBytes ==
    ASSUME StreamInv, StreamInv', AccountInv, NEW files \in Batches, sendFiles(files)
    PROVE  AccountInv'
<1> DEFINE m == [type |-> "batch-start", files |-> files]
<1>1. /\ pc = "idle" /\ batch' = files /\ channel' = Append(channel, m) /\ pc' = "file" /\ fileIndex' = 1
      /\ UNCHANGED <<isCancelled, sentAll, open, rx>>
    BY DEF sendFiles
<1>2. channel = <<>> /\ ReceiverAt(rx) = Nowhere /\ ~sentAll
    BY <1>1 DEF StreamInv, SenderInv, AccountInv
<1>3. rx.current = NoFile /\ rx.received = <<>>
    BY <1>2, WhereItIs DEF StreamInv, ReceiverInv
<1>4. BytesBefore(1) = 0 /\ (BytesBefore(1) = 0)'
    BY BatchBytes, PTL
<1>5. BytesHeld = 0 /\ BytesHeld' = 0
    <2>1. Len(rx.received) + 1 = 1 /\ (Len(rx.received) + 1)' = 1
        BY <1>1, <1>3
    <2> QED
        BY <1>1, <1>3, <1>4, <2>1 DEF BytesHeld
<1>6. BytesSent' = 0
    BY <1>1, <1>4 DEF BytesSent
<1>7. Bytes(channel') = 0
    <2>1. m \in Messages(files) /\ Payload(m) = 0
        BY DEF Messages, Payload
    <2>2. Bytes(<<>>) = 0
        <3>1. [k \in 1..Len(<<>>) |-> Payload(<<>>[k])] = <<>>
            OBVIOUS
        <3> QED
            BY <3>1, TotalEmpty DEF Bytes
    <2> DEFINE S == {m}
    <2> HIDE DEF m
    <2>3. m \in S /\ <<>> \in Seq(S) /\ \A x \in S : Payload(x) \in Nat
        BY <2>1
    <2> HIDE DEF S
    <2>4. Bytes(Append(<<>>, m)) = Bytes(<<>>) + Payload(m)
        BY <2>3, BytesLaws
    <2> QED
        BY <1>1, <1>2, <2>1, <2>2, <2>4
<1>8. rx.finished \/ ~rx.told => rx.total = 0
    BY <1>5 DEF AccountInv
<1>9. ~rx.told
    BY <1>1 DEF StreamInv, SenderInv, ChannelInv
<1> QED
    BY <1>1, <1>2, <1>5, <1>6, <1>7, <1>8, <1>9 DEF AccountInv, SenderReportsEverything

LEMMA StartFileBytes == ASSUME StreamInv, AccountInv, StartFile PROVE AccountInv'
<1>1. /\ pc = "file" /\ fileIndex <= Len(batch) /\ sendControlMessage(FileStart) /\ offset' = 0 /\ pc' = "chunk"
      /\ UNCHANGED <<batch, fileIndex, isCancelled, sentAll, open, rx>>
    BY DEF StartFile
<1>2. fileIndex \in 1..Len(batch)
    BY <1>1, Bytewise DEF StreamInv, SenderInv
<1>3. Bytes(channel') = Bytes(channel)
    <2>1. FileStart \in Messages(batch) /\ Payload(FileStart) = 0
        BY <1>2, Bytewise, FileMessages DEF FileStart, Payload
    <2> QED
        BY <1>1, <2>1, ControlBytes
<1>4. BytesHeld' = BytesHeld
    BY <1>1 DEF BytesHeld, BytesBefore
<1>5. BytesSent' = BytesSent
    BY <1>1 DEF BytesSent, BytesBefore
<1>6. ~sentAll
    BY <1>1 DEF AccountInv
<1> QED
    BY <1>1, <1>3, <1>4, <1>5, <1>6 DEF AccountInv, SenderReportsEverything

LEMMA EndFileBytes == ASSUME StreamInv, AccountInv, EndFile PROVE AccountInv'
<1>1. /\ pc = "chunk" /\ ~MoreToSend /\ fileIndex' = fileIndex + 1 /\ pc' = "file"
      /\ UNCHANGED <<batch, isCancelled, sentAll, open, rx>>
    BY DEF EndFile
<1>2. fileIndex \in 1..Len(batch) /\ offset \in 0..batch[fileIndex] /\ batch[fileIndex] \in Nat /\ ~sentAll
    BY <1>1, Bytewise DEF StreamInv, SenderInv, AccountInv
<1>3. BytesHeld' = BytesHeld
    BY <1>1 DEF BytesHeld, BytesBefore
<1>4. ASSUME ~isCancelled, open PROVE rx'.total + Bytes(channel') = BytesSent'
    <2>1. sendControlMessage(FileEnd)
        BY <1>4 DEF EndFile
    <2>2. FileEnd \in Messages(batch) /\ Payload(FileEnd) = 0
        BY <1>2, Bytewise, FileMessages DEF FileEnd, Payload
    <2>3. Bytes(channel') = Bytes(channel)
        BY <2>1, <2>2, ControlBytes
    <2>4. offset = batch[fileIndex]
        BY <1>1, <1>2, <1>4 DEF MoreToSend
    <2>5. BytesBefore(fileIndex + 1) = BytesBefore(fileIndex) + offset /\ BytesBefore(fileIndex + 1) \in Nat
        <3>1. fileIndex + 1 \in 1..(Len(batch) + 1)
            BY <1>2, Bytewise
        <3> QED
            BY <1>2, <2>4, <3>1, BatchBytes
    <2>6. BytesSent' = BytesSent
        BY <1>1, <2>5 DEF BytesSent, BytesBefore
    <2> QED
        BY <1>1, <1>4, <2>3, <2>6 DEF AccountInv
<1> QED
    BY <1>1, <1>2, <1>3, <1>4 DEF AccountInv, SenderReportsEverything

\* The loop ends, and reports what it has sent.
LEMMA StopBytes ==
    ASSUME StreamInv, StreamInv', AccountInv, StopBetweenFiles \/ FinishBatch
    PROVE  AccountInv'
<1>1. /\ pc = "file" /\ pc' = "over" /\ ~sentAll /\ UNCHANGED <<batch, fileIndex, isCancelled, open, rx>>
    BY DEF StopBetweenFiles, FinishBatch, AccountInv
<1>2. BytesHeld' = BytesHeld
    BY <1>1 DEF BytesHeld, BytesBefore
<1>3. ASSUME sentAll'
      PROVE  /\ LateChunks' = {}
             /\ open => rx.total + Bytes(channel') = Total(batch)
    <2>1. FinishBatch /\ ~isCancelled /\ sendControlMessage(BatchComplete) /\ fileIndex > Len(batch)
        BY <1>1, <1>3 DEF StopBetweenFiles, FinishBatch
    <2>2. fileIndex = Len(batch) + 1
        BY <1>1, <2>1, Bytewise DEF StreamInv, SenderInv
    <2>3. BytesSent = Total(batch)
        <3>1. BytesBefore(Len(batch) + 1) = Total(batch) /\ Total(batch) \in Nat
            BY BatchBytes, Bytewise, TotalType
        <3> QED
            BY <1>1, <2>2, <3>1 DEF BytesSent
    <2>4. Bytes(channel') = Bytes(channel)
        <3>1. Payload(BatchComplete) = 0
            BY DEF BatchComplete, Payload
        <3> QED
            BY <2>1, <3>1, ControlBytes, ControlMessages
    <2>5. LateChunks' = {}
        <3>1. (AfterCancel # {} => isCancelled)'
            BY AfterCancellation, PTL
        <3> QED
            BY <1>1, <2>1, <3>1 DEF LateChunks
    <2> QED
        BY <1>1, <2>1, <2>3, <2>4, <2>5 DEF AccountInv
<1> QED
    BY <1>1, <1>2, <1>3 DEF AccountInv, SenderReportsEverything

LEMMA SendChunkBytes == ASSUME StreamInv, AccountInv, SendChunk PROVE AccountInv'
<1> DEFINE m == Piece(fileIndex, batch[fileIndex], offset)
<1>1. /\ pc = "read" /\ channel' = Append(channel, m) /\ offset' = offset + m.size /\ pc' = "chunk"
      /\ UNCHANGED <<batch, fileIndex, isCancelled, sentAll, open, rx>>
    BY DEF SendChunk
<1>2. /\ fileIndex \in 1..Len(batch) /\ fileIndex \in Nat /\ batch[fileIndex] \in Nat
      /\ offset \in Nat /\ offset < batch[fileIndex] /\ ~sentAll
    BY <1>1, Bytewise DEF StreamInv, SenderInv, AccountInv
<1>3. m \in Messages(batch) /\ Payload(m) = m.size /\ m.size \in Nat
    BY <1>2, TransferAssumption DEF Piece, Messages, ChunkMessage, Payload
<1> HIDE DEF m
<1>4. Bytes(channel') = Bytes(channel) + m.size /\ Bytes(channel) \in Nat /\ rx.total \in Nat
    BY <1>1, <1>3, Bytewise, BytesLaws
<1>5. BytesBefore(fileIndex) \in Nat
    <2>1. fileIndex \in 1..(Len(batch) + 1)
        BY <1>2, Bytewise
    <2> QED
        BY <2>1, BatchBytes
<1>6. BytesSent' = BytesSent + m.size
    BY <1>1, <1>2, <1>3, <1>5 DEF BytesSent, BytesBefore
<1>7. BytesHeld' = BytesHeld
    BY <1>1 DEF BytesHeld, BytesBefore
<1>8. open /\ ~isCancelled => rx.total + Bytes(channel') = BytesSent'
    BY <1>1, <1>3, <1>4, <1>6 DEF AccountInv
<1> QED
    BY <1>1, <1>2, <1>7, <1>8 DEF AccountInv, SenderReportsEverything

\* Once everything was sent, no late chunk appears any more.
LEMMA NoneLate ==
    ASSUME StreamInv, AccountInv, [Next]_vars, ~SendChunk, sentAll
    PROVE  LateChunks' = {}
<1>1. LateChunks = {}
    BY DEF AccountInv
<1> QED
    BY <1>1, LateOnes

LEMMA CancelBytes == ASSUME StreamInv, AccountInv, cancelTransfer PROVE AccountInv'
<1>1. /\ isCancelled' /\ sendControlMessage(Cancelled)
      /\ UNCHANGED <<batch, pc, fileIndex, offset, sentAll, open, rx>>
    BY DEF cancelTransfer
<1>2. Bytes(channel') = Bytes(channel)
    <2>1. Payload(Cancelled) = 0
        BY DEF Cancelled, Payload
    <2> QED
        BY <1>1, <2>1, ControlBytes, ControlMessages
<1>3. BytesHeld' = BytesHeld
    BY <1>1 DEF BytesHeld, BytesBefore
<1>4. sentAll => LateChunks' = {}
    <2>1. ~SendChunk /\ Next
        BY <1>1 DEF SendChunk, cancelTransfer, Next, UserStep
    <2> QED
        BY <2>1, NoneLate
<1> QED
    BY <1>1, <1>2, <1>3, <1>4 DEF AccountInv, SenderReportsEverything

\* Steps that move no bytes.
LEMMA QuietBytes ==
    ASSUME StreamInv, AccountInv,
           \/ NextChunk \/ BufferLow \/ DrainTimeout \/ SendFails
           \/ CancelReceiving \/ HearReceiver \/ Transmit \/ UNCHANGED vars
    PROVE  AccountInv'
<1>1. /\ UNCHANGED <<batch, fileIndex, offset, isCancelled, sentAll, open, channel>>
      /\ \/ pc' = pc
         \/ pc \in {"chunk", "drain", "read"} /\ pc' \in {"drain", "read", "failed"}
    BY DEF NextChunk, BufferLow, DrainTimeout, SendFails, CancelReceiving, HearReceiver, Transmit, vars, senderVars
<1>2. rx' = rx \/ rx' = [rx EXCEPT !.cancelled = TRUE]
    BY DEF NextChunk, BufferLow, DrainTimeout, SendFails, CancelReceiving, HearReceiver, Transmit, vars
<1>3. /\ rx'.received = rx.received /\ rx'.current = rx.current /\ rx'.chunks = rx.chunks
      /\ rx'.total = rx.total /\ rx'.finished = rx.finished /\ rx'.told = rx.told
    <2>1. rx \in Engines
        BY Bytewise
    <2> QED
        BY <1>2, <2>1 DEF Engines
<1>4. sentAll => pc' = pc
    BY <1>1 DEF AccountInv
<1> QED
    BY <1>1, <1>3, <1>4, NothingSent

LEMMA CloseBytes == ASSUME StreamInv, AccountInv, Close PROVE AccountInv'
<1>1. ~open' /\ UNCHANGED <<batch, pc, sentAll, rx>>
    BY DEF Close, senderVars
<1>2. BytesHeld' = BytesHeld
    BY <1>1 DEF BytesHeld, BytesBefore
<1>3. sentAll => LateChunks' = {}
    <2>1. ~SendChunk /\ Next
        BY <1>1 DEF SendChunk, Close, Next
    <2> QED
        BY <2>1, NoneLate
<1> QED
    BY <1>1, <1>2, <1>3 DEF AccountInv, SenderReportsEverything

LEMMA ShowDashboardBytes == ASSUME StreamInv, AccountInv, ShowDashboard PROVE AccountInv'
<1>1. ~open' /\ UNCHANGED <<batch, pc, sentAll>> /\ rx \in Engines
    BY Bytewise DEF ShowDashboard, senderVars
<1>2. /\ BytesHeld' = BytesHeld /\ rx'.total = rx.total
      /\ rx'.finished = rx.finished /\ rx'.told = rx.told
    BY <1>1, ReplacedEngine DEF BytesHeld, BytesBefore
<1>3. sentAll => LateChunks' = {}
    BY DEF ShowDashboard, LateChunks, AfterCancel
<1> QED
    BY <1>1, <1>2, <1>3 DEF AccountInv, SenderReportsEverything

----------------------------------------------------------------------------
(* The receiver counts what it takes from the channel. *)

\* A message is handled: if it is counted, no byte is lost between the two engines.
LEMMA TakeBytes ==
    ASSUME StreamInv, AccountInv, Next, Take, NEW type, Arrives(type), rx'.total \in Nat,
           rx'.finished \/ ~rx'.told => rx'.total = BytesHeld',
           ~isCancelled \/ sentAll => rx'.total = rx.total + Payload(Head(channel))
    PROVE  AccountInv'
<1>1. /\ channel' = Tail(channel) /\ onWire > 0
      /\ UNCHANGED <<batch, pc, fileIndex, offset, isCancelled, sentAll, open>>
    BY DEF Take, Arrives, senderVars
<1>2. /\ channel \in Seq(Messages(batch)) /\ \A m \in Messages(batch) : Payload(m) \in Nat
      /\ rx.total \in Nat /\ Bytes(channel) \in Nat
    BY Bytewise
<1>3. channel # <<>>
    <2>1. onWire \in 0..Len(channel)
        BY DEF StreamInv, ChannelInv
    <2> QED
        BY <1>1, <1>2, <2>1
<1>4. /\ Bytes(channel) = Payload(Head(channel)) + Bytes(channel')
      /\ Payload(Head(channel)) \in Nat /\ Bytes(channel') \in Nat
    <2>1. Tail(channel) \in Seq(Messages(batch)) /\ Head(channel) \in Messages(batch)
        BY <1>2, <1>3, Behead
    <2> QED
        BY <1>1, <1>2, <1>3, <2>1, BytesLaws
<1>5. ~isCancelled \/ sentAll => rx'.total + Bytes(channel') = rx.total + Bytes(channel)
    BY <1>2, <1>4
<1>6. BytesSent' = BytesSent
    BY <1>1 DEF BytesSent, BytesBefore
<1>7. sentAll => LateChunks' = {}
    <2>1. sentAll => ~SendChunk
        BY DEF SendChunk, AccountInv
    <2> QED
        BY <2>1, NoneLate
<1> QED
    BY <1>1, <1>5, <1>6, <1>7 DEF AccountInv, SenderReportsEverything

\* Where the receiver's engine and its message are.
LEMMA TakenAs ==
    ASSUME StreamInv, NEW type, Arrives(type), ~rx.told, type # "transfer-cancelled"
    PROVE  /\ ReceiverInv /\ Head(channel).type = type /\ Head(channel) \in Messages(batch)
           /\ OfBatch(Head(channel), batch) /\ Before(Head(channel), batch) = ReceiverAt(rx)
BY Incoming DEF StreamInv, IsCancel

LEMMA BatchStartBytes == ASSUME StreamInv, AccountInv, ReceiveBatchStart PROVE AccountInv'
<1> DEFINE m == Head(channel)
<1>1. Arrives("batch-start") /\ Take /\ Next /\ UNCHANGED batch
    BY DEF ReceiveBatchStart, Take, senderVars, Next, ReceiverStep
<1>2. ~rx.told
    BY <1>1, Incoming DEF Harmless
<1>3. ReceiverInv /\ m.type = "batch-start" /\ Before(m, batch) = ReceiverAt(rx)
    BY <1>1, <1>2, TakenAs
<1>4. ReceiverAt(rx) = Nowhere
    BY <1>3 DEF Before
<1>5. rx.current = NoFile /\ rx.received = <<>> /\ ~rx.finished
    BY <1>3, <1>4, WhereItIs DEF ReceiverInv
<1>6. rx'.total = 0 /\ rx'.received = <<>> /\ rx'.current = NoFile
    <2>1. rx \in Engines
        BY Bytewise
    <2> QED
        BY <1>5, <2>1 DEF ReceiveBatchStart, Engines
<1>7. BytesHeld = 0 /\ BytesHeld' = 0
    <2>1. BytesBefore(1) = 0 /\ Len(rx.received) + 1 = 1 /\ Len(rx'.received) + 1 = 1
        BY <1>5, <1>6, BatchBytes
    <2>2. Total(SubSeq(batch, 1, 1 - 1)) = 0
        BY <2>1 DEF BytesBefore
    <2> QED
        BY <1>1, <1>5, <1>6, <2>1, <2>2 DEF BytesHeld, BytesBefore
<1>8. rx.total = 0
    BY <1>2, <1>7 DEF AccountInv
<1>9. Payload(m) = 0
    BY <1>3 DEF Payload
<1> QED
    BY <1>1, <1>6, <1>7, <1>8, <1>9, TakeBytes

LEMMA FileStartBytes == ASSUME StreamInv, AccountInv, ReceiveFileStart PROVE AccountInv'
<1> DEFINE m == Head(channel)
<1>1. Arrives("file-start") /\ Take /\ Next /\ UNCHANGED batch
    BY DEF ReceiveFileStart, Take, senderVars, Next, ReceiverStep
<1>2. ~rx.told
    BY <1>1, Incoming DEF Harmless
<1>3. ReceiverInv /\ m.type = "file-start" /\ Before(m, batch) = ReceiverAt(rx) /\ m \in Messages(batch)
    BY <1>1, <1>2, TakenAs
<1>4. ReceiverAt(rx) = Between(m.file - 1)
    BY <1>3 DEF Before
<1>5. rx.current = NoFile
    BY <1>3, <1>4, WhereItIs
<1>6. /\ rx'.total = rx.total /\ rx'.received = rx.received
      /\ rx'.current = [file |-> m.file, size |-> m.size] /\ rx'.chunks = <<>> /\ rx.total \in Nat
    <2>1. rx \in Engines /\ rx.total \in Nat
        BY Bytewise
    <2> QED
        BY <2>1 DEF ReceiveFileStart, Engines
<1>7. BytesHeld' = BytesHeld
    <2>1. BytesOf(0, m.size) = 0 /\ Len(rx'.chunks) = 0
        <3>1. m.size \in Nat /\ 0 * ChunkSize = 0
            BY <1>3, MessageKinds, TransferAssumption
        <3> QED
            BY <1>6, <3>1 DEF BytesOf
    <2>2. rx'.current.size = m.size
        BY <1>6
    <2>3. IF rx'.current = NoFile THEN TRUE ELSE BytesOf(Len(rx'.chunks), rx'.current.size) = 0
        BY <2>1, <2>2
    <2> QED
        BY <1>1, <1>5, <1>6, <2>3 DEF BytesHeld, BytesBefore
<1>8. rx.total = BytesHeld
    BY <1>2 DEF AccountInv
<1>9. Payload(m) = 0
    BY <1>3 DEF Payload
<1>10. rx'.total = rx.total + Payload(m)
    BY <1>6, <1>9
<1> QED
    BY <1>1, <1>6, <1>7, <1>8, <1>10, TakeBytes

\* A chunk that counts, for the sender or at its end, is not late.
LEMMA NotLate ==
    ASSUME StreamInv, AccountInv, Arrives("chunk"), ~isCancelled \/ sentAll
    PROVE  ~rx.told
<1> SUFFICES ASSUME rx.told PROVE FALSE
    OBVIOUS
<1>1. sentAll
    BY DEF StreamInv, ChannelInv
<1>2. channel \in Seq(Messages(batch)) /\ onWire \in 0..Len(channel) /\ onWire > 0
    BY DEF StreamInv, ChannelInv, Arrives
<1>3. 1 \in 1..Len(channel) /\ Head(channel) = channel[1]
    BY <1>2
<1>4. 1 \in LateChunks
    BY <1>3 DEF LateChunks, AfterCancel, Arrives
<1> QED
    BY <1>1, <1>4 DEF AccountInv

LEMMA ChunkBytes == ASSUME StreamInv, AccountInv, ReceiveChunk PROVE AccountInv'
<1> DEFINE m == Head(channel)
<1>1. Arrives("chunk") /\ Take /\ Next /\ UNCHANGED batch
    BY DEF ReceiveChunk, Take, senderVars, Next, ReceiverStep
<1>2. rx \in Engines /\ rx.total \in Nat /\ ReceiverInv
    BY Bytewise DEF StreamInv
<1>3. m.type = "chunk" /\ m \in Messages(batch) /\ \A i \in 1..Len(batch) : batch[i] \in Nat
    BY <1>1, Incoming
<1>4. m \in ChunkMessage /\ m.size \in Nat /\ m.from \in Nat /\ Payload(m) = m.size
    BY <1>3, MessageKinds DEF Payload
<1>5. /\ rx'.received = rx.received /\ rx'.current = rx.current /\ rx'.told = rx.told
      /\ rx'.finished = rx.finished
      /\ rx.current = NoFile => rx'.total = rx.total /\ rx'.chunks = rx.chunks
      /\ rx.current # NoFile => rx'.total = rx.total + m.size /\ rx'.chunks = Append(rx.chunks, m)
    BY <1>2 DEF ReceiveChunk, Engines
<1>6. ASSUME ~rx.told
      PROVE  rx.current # NoFile /\ rx'.total = rx.total + m.size /\ rx'.total = BytesHeld'
    <2>1. OfBatch(m, batch) /\ Before(m, batch) = ReceiverAt(rx)
        BY <1>1, <1>6, TakenAs
    <2>2. ReceiverAt(rx) = In(m.file, m.from)
        BY <1>3, <2>1 DEF Before
    <2>3. rx.current # NoFile /\ BytesOf(Len(rx.chunks), rx.current.size) = m.from
        BY <1>2, <2>2, WhereItIs
    <2>4. BytesOf(Len(rx.chunks) + 1, rx.current.size) = m.from + m.size
        BY <1>2, <1>3, <1>4, <1>6, <2>1, <2>3, NextPiece
    <2>5. Len(rx'.chunks) = Len(rx.chunks) + 1
        <3>1. rx.chunks \in Seq(ChunkMessage)
            BY <1>2 DEF Engines
        <3> QED
            BY <1>4, <1>5, <2>3, <3>1
    <2>6. BytesBefore(Len(rx.received) + 1) \in Nat
        <3>1. Len(rx.received) + 1 \in 1..(Len(batch) + 1)
            BY Bytewise
        <3> QED
            BY <3>1, BatchBytes
    <2>7. rx.total = BytesBefore(Len(rx.received) + 1) + m.from
        BY <1>6, <2>3 DEF AccountInv, BytesHeld
    <2>8. BytesHeld' = BytesBefore(Len(rx.received) + 1) + (m.from + m.size)
        BY <1>1, <1>5, <2>3, <2>4, <2>5 DEF BytesHeld, BytesBefore
    <2> QED
        BY <1>4, <1>5, <2>3, <2>6, <2>7, <2>8
<1>7. rx'.finished \/ ~rx'.told => rx'.total = BytesHeld'
    <2>1. CASE ~rx.told
        BY <1>6, <2>1
    <2>2. CASE rx.finished
        <3>1. rx.current = NoFile
            BY <1>2, <2>2 DEF ReceiverInv
        <3>2. BytesHeld' = BytesHeld
            BY <1>1, <1>5, <3>1 DEF BytesHeld, BytesBefore
        <3> QED
            BY <1>5, <2>2, <3>1, <3>2 DEF AccountInv
    <2> QED
        BY <1>5, <2>1, <2>2
<1>8. ~isCancelled \/ sentAll => rx'.total = rx.total + Payload(m)
    BY <1>1, <1>4, <1>6, NotLate
<1>9. rx'.total \in Nat
    BY <1>2, <1>4, <1>5
<1> QED
    BY <1>1, <1>7, <1>8, <1>9, TakeBytes

LEMMA FileEndBytes == ASSUME StreamInv, AccountInv, ReceiveFileEnd PROVE AccountInv'
<1> DEFINE m == Head(channel)
           n == Len(rx.received)
<1>1. Arrives("file-end") /\ Take /\ Next /\ UNCHANGED batch
    BY DEF ReceiveFileEnd, Take, senderVars, Next, ReceiverStep
<1>2. ~rx.told
    BY <1>1, Incoming DEF Harmless
<1>3. ReceiverInv /\ m.type = "file-end" /\ Before(m, batch) = ReceiverAt(rx)
    BY <1>1, <1>2, TakenAs
<1>4. ReceiverAt(rx) = In(m.file, batch[m.file])
    BY <1>3 DEF Before
<1>5. /\ rx.current # NoFile /\ rx.current.file = m.file
      /\ BytesOf(Len(rx.chunks), rx.current.size) = batch[m.file]
    BY <1>3, <1>4, WhereItIs
<1>6. n < Len(batch) /\ m.file = n + 1
    BY <1>3, <1>5 DEF ReceiverInv
<1>7. rx \in Engines /\ rx.total \in Nat /\ rx.received \in Seq(FileRecord) /\ n \in Nat /\ Len(batch) \in Nat
    BY Bytewise DEF Engines
<1>8. /\ rx'.total = rx.total /\ rx'.current = NoFile /\ Len(rx'.received) = n + 1
    BY <1>5, <1>7 DEF ReceiveFileEnd, Engines
<1>9. BytesHeld' = BytesHeld
    <2>1. n + 1 \in 1..Len(batch) /\ n + 1 \in Nat
        BY <1>6, <1>7
    <2>2. BytesBefore((n + 1) + 1) = BytesBefore(n + 1) + batch[n + 1]
        BY <2>1, BatchBytes
    <2>3. BytesHeld = BytesBefore(n + 1) + batch[n + 1]
        BY <1>5, <1>6 DEF BytesHeld
    <2>4. BytesBefore((n + 1) + 1) \in Nat
        <3>1. (n + 1) + 1 \in 1..(Len(batch) + 1)
            BY <1>7, <2>1
        <3> QED
            BY <3>1, BatchBytes
    <2>5. BytesHeld' = BytesBefore((n + 1) + 1) + 0
        BY <1>1, <1>8 DEF BytesHeld, BytesBefore
    <2> QED
        BY <2>2, <2>3, <2>4, <2>5
<1>10. rx.total = BytesHeld
    BY <1>2 DEF AccountInv
<1>11. rx'.total = rx.total + Payload(m)
    BY <1>3, <1>7, <1>8 DEF Payload
<1> QED
    BY <1>1, <1>7, <1>8, <1>9, <1>10, <1>11, TakeBytes

LEMMA LastBytes ==
    ASSUME StreamInv, AccountInv, ReceiveBatchComplete \/ ReceiveCancelled
    PROVE  AccountInv'
<1> DEFINE m == Head(channel)
           type == IF ReceiveCancelled THEN "transfer-cancelled" ELSE "batch-complete"
<1>1. Arrives(type) /\ Take /\ Next /\ UNCHANGED batch /\ m.type # "chunk"
    BY DEF ReceiveBatchComplete, ReceiveCancelled, Arrives, Take, senderVars, Next, ReceiverStep
<1>2. rx \in Engines /\ rx.total \in Nat
    BY Bytewise
<1>3. /\ rx'.total = rx.total /\ rx'.received = rx.received /\ rx'.current = rx.current
      /\ rx'.chunks = rx.chunks /\ (rx.told => rx'.told)
    BY <1>2 DEF ReceiveBatchComplete, ReceiveCancelled, Engines
<1>4. BytesHeld' = BytesHeld
    BY <1>1, <1>3 DEF BytesHeld, BytesBefore
<1>5. rx'.finished \/ ~rx'.told => rx.finished \/ ~rx.told
    <2>1. CASE ReceiveCancelled
        BY <1>2, <2>1 DEF ReceiveCancelled, Engines
    <2>2. CASE ReceiveBatchComplete
        BY <2>2, Incoming DEF ReceiveBatchComplete, Harmless
    <2> QED
        BY <2>1, <2>2
<1>6. rx'.total = rx.total + Payload(m)
    BY <1>1, <1>2, <1>3 DEF Payload
<1>7. rx'.finished \/ ~rx'.told => rx'.total = BytesHeld'
    BY <1>3, <1>4, <1>5 DEF AccountInv
<1> HIDE DEF m, type
<1> QED
    BY <1>1, <1>2, <1>3, <1>6, <1>7, TakeBytes DEF m

----------------------------------------------------------------------------
(* The theorems. *)

LEMMA AccountInvInit == Init => AccountInv
<1> SUFFICES ASSUME Init PROVE AccountInv
    OBVIOUS
<1>1. StreamInv
    BY StreamInvInit
<1>2. rx.total = 0 /\ rx.received = <<>> /\ rx.current = NoFile /\ pc = "idle" /\ ~sentAll
    BY DEF Init
<1>3. BytesHeld = 0
    <2>1. BytesBefore(1) = 0 /\ Len(rx.received) + 1 = 1
        BY <1>1, <1>2, BatchBytes
    <2> QED
        BY <1>2, <2>1 DEF BytesHeld
<1> QED
    BY <1>2, <1>3 DEF AccountInv, SenderReportsEverything

LEMMA AccountStep == StreamInv /\ StreamInv' /\ AccountInv /\ [Next]_vars => AccountInv'
<1> SUFFICES ASSUME StreamInv, StreamInv', AccountInv, [Next]_vars PROVE AccountInv'
    OBVIOUS
<1>1. CASE \E files \in Batches : sendFiles(files)
    BY <1>1, SendFilesBytes
<1>2. CASE StopBetweenFiles \/ FinishBatch
    BY <1>2, StopBytes
<1>3. CASE StartFile
    BY <1>3, StartFileBytes
<1>4. CASE EndFile
    BY <1>4, EndFileBytes
<1>5. CASE SendChunk
    BY <1>5, SendChunkBytes
<1>6. CASE cancelTransfer
    BY <1>6, CancelBytes
<1>7. CASE ReceiveBatchStart
    BY <1>7, BatchStartBytes
<1>8. CASE ReceiveFileStart
    BY <1>8, FileStartBytes
<1>9. CASE ReceiveChunk
    BY <1>9, ChunkBytes
<1>10. CASE ReceiveFileEnd
    BY <1>10, FileEndBytes
<1>11. CASE ReceiveBatchComplete \/ ReceiveCancelled
    BY <1>11, LastBytes
<1>12. CASE \/ NextChunk \/ BufferLow \/ DrainTimeout \/ SendFails
            \/ CancelReceiving \/ HearReceiver \/ Transmit \/ UNCHANGED vars
    BY <1>12, QuietBytes
<1>13. CASE Close
    BY <1>13, CloseBytes
<1>14. CASE ShowDashboard
    BY <1>14, ShowDashboardBytes
<1> QED
    BY <1>1, <1>2, <1>3, <1>4, <1>5, <1>6, <1>7, <1>8, <1>9, <1>10, <1>11, <1>12, <1>13, <1>14
    DEF Next, SenderStep, ReceiverStep, UserStep

\* TransferInv, the invariant that the other theorems rest on: the stream between the
\* engines is connected, and every byte of it is accounted for.
THEOREM TransferSafety == Spec => []TransferInv
<1> QED
    BY StreamSafety, AccountInvInit, AccountStep, PTL DEF Spec, TransferInv

\* CompleteMeansEverything: the receiver's transfer-complete (file-transfer.js:231)
\* comes with every file of the batch, and with exactly the batch's bytes counted.
THEOREM CompleteMeansEverythingHolds == Spec => []CompleteMeansEverything
<1>1. TransferInv => CompleteMeansEverything
    <2> SUFFICES ASSUME TransferInv, rx.finished
                 PROVE  /\ rx.files = batch
                        /\ [k \in 1..Len(rx.received) |-> rx.received[k].size] = batch
                        /\ rx.total = Total(batch)
        BY DEF CompleteMeansEverything
    <2>1. StreamInv /\ AccountInv /\ ReceiverInv
        BY DEF TransferInv, StreamInv
    <2>2. rx.files = batch /\ rx.current = NoFile /\ Len(rx.received) = Len(batch)
        BY <2>1 DEF ReceiverInv
    <2>3. ASSUME NEW k \in 1..Len(rx.received) PROVE rx.received[k].size = batch[k]
        <3>1. rx.received[k] = [file |-> k, size |-> batch[k], chunks |-> Pieces(k, batch[k])]
            BY <2>1 DEF ReceiverInv
        <3> QED
            BY <3>1
    <2>4. batch = [k \in 1..Len(batch) |-> batch[k]] /\ Total(batch) \in Nat
        <3>1. batch \in Seq(Nat)
            BY <2>1, Bytewise
        <3> QED
            BY <3>1, TotalType
    <2>5. BytesBefore(Len(batch) + 1) = Total(batch)
        BY <2>1, BatchBytes
    <2>6. rx.total = Total(batch)
        BY <2>1, <2>2, <2>4, <2>5 DEF AccountInv, BytesHeld
    <2> QED
        BY <2>2, <2>3, <2>4, <2>6
<1> QED
    BY <1>1, TransferSafety, PTL

\* SenderReportsEverything: when the sender's loop ends with transfer-complete
\* (file-transfer.js:97), the receiver has counted, or the open channel still holds,
\* every byte of the batch.
THEOREM SenderReportsEverythingHolds == Spec => []SenderReportsEverything
<1>1. TransferInv => SenderReportsEverything
    BY DEF TransferInv, AccountInv
<1> QED
    BY <1>1, TransferSafety, PTL
=============================================================================
