-------------------------- MODULE LogBuffer_proofs --------------------------
(* What the debug log sends, for any size of the ring, any messages and any *)
(* room of the serial port.                                                 *)
EXTENDS LogBuffer, SequenceTheorems, TLAPS

Size == LOG_BUFFER_SIZE
Bytes == 1 .. MaxPrinted

\* The types the ring rests on.
Places ==
    /\ log_buf \in [Index -> 0 .. MaxPrinted]
    /\ head \in Index /\ tail \in Index
    /\ printed \in 0 .. MaxPrinted
    /\ accepted \in Seq(Bytes) /\ sent \in Seq(Bytes)

\* SentInOrder, byte by byte.
InOrder ==
    /\ Len(accepted) = Len(sent) + rb_used
    /\ \A j \in 1 .. Len(sent) : accepted[j] = sent[j]
    /\ \A k \in 1 .. rb_used : accepted[Len(sent) + k] = log_buf[Advance(tail, k - 1)]

Counts == dropped \in Nat

CallsOK == calls \in Seq(Calls) /\ Len(calls) <= 3

RingInv == Places /\ InOrder /\ Counts /\ CallsOK

-----------------------------------------------------------------------------
(* The arithmetic of the ring. *)

LEMMA Wrap ==
    ASSUME NEW i \in Index, NEW n \in 0 .. Size
    PROVE  /\ Advance(i, n) = IF i + n < Size THEN i + n ELSE i + n - Size
           /\ Advance(i, n) \in Index
<1>1. Size \in Nat \ {0} /\ i \in 0 .. Size - 1
  BY LogBufferAssumption DEF Size, Index
<1>2. CASE i + n < Size
  BY <1>1, <1>2 DEF Advance, Size, Index
<1>3. CASE i + n >= Size
  <2>1. i + n - Size \in 0 .. Size - 1
    BY <1>1, <1>3
  <2>2. (i + n) % Size = i + n - Size
    BY <1>1, <1>3, <2>1
  <2> QED
    BY <1>1, <1>3, <2>1, <2>2 DEF Advance, Size, Index
<1> QED
  BY <1>1, <1>2, <1>3

LEMMA Occupied ==
    ASSUME Places
    PROVE  /\ Size \in Nat \ {0} /\ head \in 0 .. Size - 1 /\ tail \in 0 .. Size - 1
           /\ rb_used = IF head >= tail THEN head - tail ELSE Size - (tail - head)
           /\ rb_used \in 0 .. Size - 1
           /\ Room = Size - rb_used - 1 /\ Room \in Nat
BY LogBufferAssumption DEF Places, Size, Index, rb_used, Room

LEMMA OfLength ==
    ASSUME NEW S, NEW n \in Nat, NEW f \in [1 .. n -> S]
    PROVE  f \in Seq(S) /\ Len(f) = n /\ \A k \in 1 .. n : f[k] \in S
OBVIOUS

\* Byte by byte is as good as SentInOrder.
LEMMA ByteByByte ==
    ASSUME Places, InOrder
    PROVE  SentInOrder
<1> DEFINE ring == [k \in 1 .. rb_used |-> log_buf[Advance(tail, k - 1)]]
<1>1. rb_used \in Nat /\ Len(sent) \in Nat /\ Len(accepted) \in Nat
  BY Occupied DEF Places
<1>2. \A k \in 1 .. rb_used : /\ accepted[Len(sent) + k] \in Bytes
                             /\ ring[k] = accepted[Len(sent) + k]
  BY <1>1, ElementOfSeq DEF InOrder, Places
<1>3. ring \in [1 .. rb_used -> Bytes]
  BY <1>2
<1>4. InRing = ring
  BY Occupied DEF InRing, Advance
<1> HIDE DEF ring
<1>5. ring \in Seq(Bytes) /\ Len(ring) = rb_used
  BY <1>1, <1>3, OfLength
<1>6. /\ sent \o ring \in Seq(Bytes) /\ Len(sent \o ring) = Len(sent) + rb_used
      /\ \A j \in 1 .. Len(sent) + rb_used :
            (sent \o ring)[j] = IF j <= Len(sent) THEN sent[j] ELSE ring[j - Len(sent)]
  BY <1>5, ConcatProperties DEF Places
<1>7. \A j \in 1 .. Len(accepted) : accepted[j] = (sent \o ring)[j]
  <2> SUFFICES ASSUME NEW j \in 1 .. Len(accepted) PROVE accepted[j] = (sent \o ring)[j]
    OBVIOUS
  <2>0. j <= Len(sent) \/ j > Len(sent)
    BY <1>1
  <2>1. CASE j <= Len(sent)
    BY <1>1, <1>6, <2>1 DEF InOrder
  <2>2. CASE j > Len(sent)
    <3>1. j - Len(sent) \in 1 .. rb_used /\ Len(sent) + (j - Len(sent)) = j
      BY <1>1, <2>2 DEF InOrder
    <3> QED
      BY <1>1, <1>2, <1>6, <2>2, <3>1 DEF InOrder
  <2> QED
    BY <2>0, <2>1, <2>2
<1>8. accepted = sent \o ring
  BY <1>6, <1>7, SeqEqual DEF InOrder, Places
<1> QED
  BY <1>4, <1>8 DEF SentInOrder

-----------------------------------------------------------------------------
(* The steps. *)

\* Bytes that enter the ring take places that are free.
LEMMA Written ==
    ASSUME RingInv, NEW len \in Nat, rb_write(len),
           tail' = tail, sent' = sent
    PROVE  Places' /\ InOrder'
<1> DEFINE n == Smaller(len, Room)
           news == [k \in 1 .. n |-> printed + k]
           off(i) == (i + LOG_BUFFER_SIZE - head) % LOG_BUFFER_SIZE
<1>0. Places /\ InOrder
  BY DEF RingInv
<1>20. /\ Len(sent) \in Nat /\ Len(accepted) \in Nat
       /\ Len(accepted) = Len(sent) + rb_used
  BY <1>0 DEF Places, InOrder
<1>21. /\ \A j \in 1 .. Len(sent) : accepted[j] = sent[j]
       /\ \A k \in 1 .. rb_used : accepted[Len(sent) + k] = log_buf[Advance(tail, k - 1)]
  BY <1>0 DEF InOrder
<1>1. /\ Size \in Nat \ {0} /\ head \in 0 .. Size - 1 /\ tail \in 0 .. Size - 1
      /\ rb_used = IF head >= tail THEN head - tail ELSE Size - (tail - head)
      /\ rb_used \in 0 .. Size - 1
      /\ Room = Size - rb_used - 1 /\ Room \in Nat
  BY <1>0, Occupied
<1>2. n \in Nat /\ n <= len /\ n <= Room /\ n \in 0 .. Size
  BY <1>1 DEF Smaller
<1>3. /\ printed + len <= MaxPrinted /\ printed \in Nat /\ MaxPrinted \in Nat
      /\ printed' = printed + len /\ head' = Advance(head, n)
      /\ accepted' = accepted \o news
      /\ log_buf' = [i \in Index |->
                        IF off(i) < n THEN printed + off(i) + 1 ELSE log_buf[i]]
  BY <1>0, LogBufferAssumption DEF rb_write, Places
<1>4. \A i \in Index : off(i) = IF i >= head THEN i - head ELSE i + Size - head
  <2> SUFFICES ASSUME NEW i \in Index
               PROVE  off(i) = IF i >= head THEN i - head ELSE i + Size - head
    OBVIOUS
  <2>1. i \in 0 .. Size - 1 /\ LOG_BUFFER_SIZE = Size
    BY DEF Index, Size
  <2>2. CASE i >= head
    <3>1. i - head \in 0 .. Size - 1 /\ i + Size - head = (i - head) + Size
      BY <1>1, <2>1, <2>2
    <3>2. (i + Size - head) % Size = i - head
      BY <1>1, <3>1
    <3> QED
      BY <2>1, <2>2, <3>2
  <2>3. CASE i < head
    <3>1. i + Size - head \in 0 .. Size - 1
      BY <1>1, <2>1, <2>3
    <3>2. (i + Size - head) % Size = i + Size - head
      BY <1>1, <3>1
    <3> QED
      BY <1>1, <2>1, <2>3, <3>2
  <2> QED
    BY <1>1, <2>1, <2>2, <2>3
<1>5. head' = (IF head + n < Size THEN head + n ELSE head + n - Size) /\ head' \in Index
  BY <1>0, <1>2, <1>3, Wrap DEF Places
<1>6. rb_used' = rb_used + n
  BY <1>1, <1>2, <1>5 DEF rb_used, Size
<1>7. news \in Seq(Bytes) /\ Len(news) = n
  <2>1. news \in [1 .. n -> Bytes]
    BY <1>2, <1>3 DEF Bytes
  <2> QED
    BY <1>2, <2>1, OfLength
<1> HIDE DEF n, news, off
<1>8. /\ accepted' \in Seq(Bytes) /\ Len(accepted') = Len(accepted) + n
      /\ \A j \in 1 .. Len(accepted) + n :
            accepted'[j] = IF j <= Len(accepted) THEN accepted[j] ELSE news[j - Len(accepted)]
  BY <1>0, <1>3, <1>7, ConcatProperties DEF Places
<1>9. Places'
  <2>1. \A i \in Index : off(i) < n => printed + off(i) + 1 \in 0 .. MaxPrinted
    <3> SUFFICES ASSUME NEW i \in Index, off(i) < n
                 PROVE  printed + off(i) + 1 \in 0 .. MaxPrinted
      OBVIOUS
    <3>1. off(i) \in Nat
      BY <1>1, <1>4 DEF Index, Size
    <3> QED
      BY <1>2, <1>3, <3>1
  <2>2. log_buf' \in [Index -> 0 .. MaxPrinted]
    BY <1>0, <1>3, <2>1 DEF Places
  <2>3. printed' \in 0 .. MaxPrinted
    BY <1>3
  <2> QED
    BY <1>0, <1>5, <1>8, <2>2, <2>3 DEF Places
<1>10. ASSUME NEW k \in 1 .. rb_used'
       PROVE  accepted'[Len(sent) + k] = log_buf'[Advance(tail, k - 1)]
  <2> DEFINE p == Advance(tail, k - 1)
  <2>1. k \in Nat \ {0} /\ k <= rb_used + n /\ k - 1 \in 0 .. Size
    BY <1>1, <1>2, <1>6
  <2>2. p = (IF tail + (k - 1) < Size THEN tail + (k - 1) ELSE tail + (k - 1) - Size)
        /\ p \in Index
    BY <1>0, <2>1, Wrap DEF Places
  <2> HIDE DEF p
  <2>4. CASE k <= rb_used
    <3>1. ~(off(p) < n)
      BY <1>1, <1>2, <1>4, <2>1, <2>2, <2>4
    <3>2. log_buf'[p] = log_buf[p]
      BY <1>3, <2>2, <3>1
    <3>3. accepted'[Len(sent) + k] = accepted[Len(sent) + k]
      BY <1>20, <1>1, <1>2, <1>8, <2>1, <2>4
    <3>4. accepted[Len(sent) + k] = log_buf[p]
      <4>1. k \in 1 .. rb_used
        BY <1>1, <2>1, <2>4
      <4> QED
        BY <1>21, <4>1, Zenon DEF p
    <3> QED
      BY <3>2, <3>3, <3>4 DEF p
  <2>5. CASE k > rb_used
    <3>1. off(p) = k - 1 - rb_used
      BY <1>1, <1>2, <1>4, <2>1, <2>2, <2>5
    <3>2. log_buf'[p] = printed + (k - rb_used)
      BY <1>1, <1>2, <1>3, <2>1, <2>2, <2>5, <3>1
    <3>3. k - rb_used \in 1 .. n /\ Len(sent) + k - Len(accepted) = k - rb_used
      BY <1>20, <1>1, <1>2, <2>1, <2>5
    <3>4. accepted'[Len(sent) + k] = news[k - rb_used]
      <4>1. /\ Len(sent) + k \in 1 .. Len(accepted) + n
            /\ ~(Len(sent) + k <= Len(accepted))
        BY <1>20, <1>1, <1>2, <2>1, <2>5
      <4> QED
        BY <1>8, <3>3, <4>1
    <3> QED
      BY <3>2, <3>3, <3>4 DEF p, news
  <2> QED
    BY <1>1, <2>1, <2>4, <2>5
<1>11. Len(accepted') = Len(sent) + rb_used'
  <2>1. Len(accepted') = Len(accepted) + n
    BY <1>8
  <2> QED
    BY <1>20, <1>1, <1>2, <1>6, <2>1
<1>12. \A j \in 1 .. Len(sent) : accepted'[j] = sent[j]
  <2>1. \A j \in 1 .. Len(sent) : j \in 1 .. Len(accepted) + n /\ j <= Len(accepted)
    BY <1>20, <1>1, <1>2
  <2> QED
    BY <1>8, <1>21, <2>1
<1> QED
  BY <1>9, <1>10, <1>11, <1>12 DEF InOrder, Advance

\* Bytes that are sent leave their places, in two parts if need be.
LEMMA Flushed ==
    ASSUME RingInv, NEW avail \in Nat, FlushChunk(avail)
    PROVE  Places' /\ InOrder'
<1> DEFINE chunk == Smaller(rb_used, avail)
           first == Smaller(chunk, LOG_BUFFER_SIZE - tail)
           rest == chunk - first
           a == Part(tail, first)
           b == Part(SecondPart(first), rest)
           at(k) == IF tail + (k - 1) < Size THEN tail + (k - 1) ELSE tail + (k - 1) - Size
<1>0. Places /\ InOrder
  BY DEF RingInv
<1>1. /\ Size \in Nat \ {0} /\ head \in 0 .. Size - 1 /\ tail \in 0 .. Size - 1
      /\ rb_used = IF head >= tail THEN head - tail ELSE Size - (tail - head)
      /\ rb_used \in 0 .. Size - 1
  BY <1>0, Occupied
<1>2. /\ chunk \in Nat /\ chunk <= rb_used /\ first \in Nat /\ first <= chunk
      /\ first <= Size - tail
      /\ first = chunk \/ first = Size - tail
  BY <1>1 DEF Smaller, Size
<1>3. /\ sent' = (sent \o a) \o b /\ tail' = Advance(Advance(tail, first), rest)
      /\ UNCHANGED <<log_buf, head, printed, accepted>>
  BY DEF FlushChunk
<1>4. /\ Len(sent) \in Nat /\ Len(accepted) \in Nat
      /\ Len(accepted) = Len(sent) + rb_used
  BY <1>0 DEF Places, InOrder
<1>5. \A k \in 1 .. rb_used : /\ accepted[Len(sent) + k] = log_buf[at(k)]
                             /\ accepted[Len(sent) + k] \in Bytes
  <2> SUFFICES ASSUME NEW k \in 1 .. rb_used
               PROVE  /\ accepted[Len(sent) + k] = log_buf[at(k)]
                      /\ accepted[Len(sent) + k] \in Bytes
    OBVIOUS
  <2>1. tail \in Index /\ k - 1 \in 0 .. Size
    BY <1>0, <1>1 DEF Places
  <2>2. Advance(tail, k - 1) = at(k)
    BY <2>1, Wrap
  <2>3. accepted[Len(sent) + k] = log_buf[Advance(tail, k - 1)]
    BY <1>0, Zenon DEF InOrder
  <2>4. Len(sent) + k \in 1 .. Len(accepted)
    BY <1>1, <1>4
  <2> QED
    BY <1>0, <2>2, <2>3, <2>4, ElementOfSeq DEF Places
<1>6. /\ Advance(tail, first) = (IF tail + first < Size THEN tail + first ELSE 0)
      /\ Advance(tail, first) \in Index
  <2>1. tail \in Index /\ first \in 0 .. Size
    BY <1>0, <1>1, <1>2 DEF Places
  <2> QED
    BY <1>1, <1>2, <2>1, Wrap
<1>7. /\ tail' = IF tail + chunk < Size THEN tail + chunk ELSE tail + chunk - Size
      /\ tail' \in Index
  <2> DEFINE m == Advance(tail, first)
  <2>1. rest \in 0 .. Size /\ m \in Index /\ tail' = Advance(m, rest)
    BY <1>1, <1>2, <1>3, <1>6
  <2>2. m = IF tail + first < Size THEN tail + first ELSE 0
    BY <1>6
  <2> HIDE DEF m, rest
  <2>3. /\ tail' = IF m + rest < Size THEN m + rest ELSE m + rest - Size
        /\ tail' \in Index
    BY <2>1, Wrap
  <2> QED
    BY <1>1, <1>2, <2>2, <2>3 DEF rest
<1>8. rb_used' = rb_used - chunk
  <2>1. rb_used' = IF head >= tail' THEN head - tail' ELSE Size - (tail' - head)
    BY <1>3 DEF rb_used, Size
  <2> HIDE DEF chunk, first, rest
  <2> QED
    BY <1>1, <1>2, <1>7, <2>1
<1>9. a = [k \in 1 .. first |-> log_buf[tail + k - 1]]
      /\ b = [k \in 1 .. rest |-> log_buf[Advance(tail, first) + k - 1]]
  BY DEF Part, SecondPart
<1> HIDE DEF chunk, first, a, b
<1>10. a \in Seq(Bytes) /\ Len(a) = first
       /\ \A k \in 1 .. first : a[k] = accepted[Len(sent) + k]
  <2>1. \A k \in 1 .. first : k \in 1 .. rb_used /\ at(k) = tail + k - 1
    BY <1>1, <1>2
  <2>2. \A k \in 1 .. first : a[k] = accepted[Len(sent) + k] /\ a[k] \in Bytes
    BY <1>5, <1>9, <2>1
  <2>3. a \in [1 .. first -> Bytes]
    BY <1>9, <2>2
  <2> QED
    BY <1>2, <2>2, <2>3, OfLength
<1>11. b \in Seq(Bytes) /\ Len(b) = rest
       /\ \A k \in 1 .. rest : b[k] = accepted[Len(sent) + first + k]
  <2>1. \A k \in 1 .. rest : /\ first + k \in 1 .. rb_used
                            /\ at(first + k) = Advance(tail, first) + k - 1
                            /\ Len(sent) + (first + k) = Len(sent) + first + k
    BY <1>1, <1>2, <1>4, <1>6
  <2>2. \A k \in 1 .. rest : b[k] = accepted[Len(sent) + first + k] /\ b[k] \in Bytes
    <3> SUFFICES ASSUME NEW k \in 1 .. rest
                 PROVE  b[k] = accepted[Len(sent) + first + k] /\ b[k] \in Bytes
      OBVIOUS
    <3>1. /\ accepted[Len(sent) + (first + k)] = log_buf[at(first + k)]
          /\ accepted[Len(sent) + (first + k)] \in Bytes
      BY <1>5, <2>1
    <3>2. b[k] = log_buf[Advance(tail, first) + k - 1]
      BY <1>9
    <3> QED
      BY <2>1, <3>1, <3>2
  <2>3. b \in [1 .. rest -> Bytes]
    BY <1>9, <2>2
  <2>4. rest \in Nat
    BY <1>2
  <2> QED
    BY <2>2, <2>3, <2>4, OfLength
<1>12. /\ sent' \in Seq(Bytes) /\ Len(sent') = Len(sent) + chunk
       /\ \A j \in 1 .. Len(sent) + chunk :
             sent'[j] = IF j <= Len(sent) THEN sent[j]
                        ELSE IF j <= Len(sent) + first THEN a[j - Len(sent)]
                        ELSE b[j - (Len(sent) + first)]
  <2> DEFINE c == sent \o a
  <2>1. /\ c \in Seq(Bytes) /\ Len(c) = Len(sent) + first
        /\ \A j \in 1 .. Len(sent) + first :
              c[j] = IF j <= Len(sent) THEN sent[j] ELSE a[j - Len(sent)]
    BY <1>0, <1>10, ConcatProperties DEF Places
  <2>2. sent' = c \o b
    BY <1>3
  <2> HIDE DEF c, rest
  <2>3. /\ sent' \in Seq(Bytes) /\ Len(sent') = Len(c) + rest
        /\ \A j \in 1 .. Len(c) + rest :
              sent'[j] = IF j <= Len(c) THEN c[j] ELSE b[j - Len(c)]
    <3>1. c \in Seq(Bytes) /\ b \in Seq(Bytes) /\ Len(b) = rest
      BY <1>11, <2>1
    <3>2. /\ c \o b \in Seq(Bytes) /\ Len(c \o b) = Len(c) + Len(b)
          /\ \A j \in 1 .. Len(c) + Len(b) :
                (c \o b)[j] = IF j <= Len(c) THEN c[j] ELSE b[j - Len(c)]
      BY <3>1, ConcatProperties
    <3> QED
      BY <2>2, <3>1, <3>2, Zenon
  <2> USE DEF rest
  <2>4. Len(c) + rest = Len(sent) + chunk
    BY <1>2, <1>4, <2>1
  <2>5. \A j \in 1 .. Len(sent) + chunk : j <= Len(c) => j \in 1 .. Len(sent) + first
    BY <1>2, <1>4, <2>1
  <2>6. ASSUME NEW j \in 1 .. Len(sent) + chunk
        PROVE  sent'[j] = IF j <= Len(sent) THEN sent[j]
                          ELSE IF j <= Len(sent) + first THEN a[j - Len(sent)]
                          ELSE b[j - (Len(sent) + first)]
    <3>1. sent'[j] = IF j <= Len(c) THEN c[j] ELSE b[j - Len(c)]
      BY <2>3, <2>4
    <3>2. CASE j <= Len(c)
      BY <2>1, <2>5, <3>1, <3>2
    <3>3. CASE ~(j <= Len(c))
      <4>1. ~(j <= Len(sent))
        BY <1>2, <1>4, <2>1, <3>3
      <4> QED
        BY <2>1, <3>1, <3>3, <4>1
    <3> QED
      BY <3>2, <3>3
  <2> QED
    BY <2>3, <2>4, <2>6
<1>13. Places'
  BY <1>0, <1>3, <1>7, <1>12 DEF Places
<1>14. Len(accepted) = Len(sent') + rb_used'
  <2>1. Len(sent') = Len(sent) + chunk
    BY <1>12
  <2> QED
    BY <1>1, <1>2, <1>4, <1>8, <2>1
<1>15. \A j \in 1 .. Len(sent') : accepted[j] = sent'[j]
  <2> SUFFICES ASSUME NEW j \in 1 .. Len(sent) + chunk PROVE accepted[j] = sent'[j]
    BY <1>12
  <2>1. CASE j <= Len(sent)
    <3>1. accepted[j] = sent[j]
      BY <1>0, <1>4, <2>1 DEF InOrder
    <3> QED
      BY <1>12, <2>1, <3>1
  <2>2. CASE j > Len(sent) /\ j <= Len(sent) + first
    <3>1. j - Len(sent) \in 1 .. first /\ Len(sent) + (j - Len(sent)) = j
      BY <1>2, <1>4, <2>2
    <3>2. a[j - Len(sent)] = accepted[j]
      BY <1>10, <3>1
    <3> QED
      BY <1>2, <1>4, <1>12, <2>2, <3>2
  <2>3. CASE j > Len(sent) + first
    <3>1. /\ j - (Len(sent) + first) \in 1 .. rest
          /\ Len(sent) + first + (j - (Len(sent) + first)) = j
      BY <1>2, <1>4, <2>3
    <3>2. b[j - (Len(sent) + first)] = accepted[j]
      BY <1>11, <3>1
    <3> QED
      BY <1>2, <1>4, <1>12, <2>3, <3>2
  <2> QED
    BY <1>2, <1>4, <2>1, <2>2, <2>3
<1>16. \A k \in 1 .. rb_used' : accepted[Len(sent') + k] = log_buf[Advance(tail', k - 1)]
  <2> SUFFICES ASSUME NEW k \in 1 .. rb_used - chunk
               PROVE  accepted[Len(sent) + chunk + k] = log_buf[Advance(tail', k - 1)]
    BY <1>8, <1>12
  <2>1. k - 1 \in 0 .. Size /\ chunk + k \in 1 .. rb_used
        /\ Len(sent) + (chunk + k) = Len(sent) + chunk + k
    BY <1>1, <1>2, <1>4
  <2>2. Advance(tail', k - 1) = IF tail' + (k - 1) < Size THEN tail' + (k - 1)
                                                         ELSE tail' + (k - 1) - Size
    BY <1>7, <2>1, Wrap
  <2>3. Advance(tail', k - 1) = at(chunk + k)
    BY <1>1, <1>2, <1>7, <2>1, <2>2
  <2>4. accepted[Len(sent) + (chunk + k)] = log_buf[at(chunk + k)]
    BY <1>5, <2>1
  <2> QED
    BY <2>1, <2>3, <2>4
<1> QED
  BY <1>3, <1>13, <1>14, <1>15, <1>16 DEF InOrder, Advance

LEMMA Lengths ==
    /\ MaxMessage \in Nat /\ NewlineLen \in Nat
    /\ MaxRoom \in Nat /\ MaxPrinted \in Nat
BY LogBufferAssumption

LEMMA Returned ==
    ASSUME CallsOK, calls # <<>>, Return
    PROVE  CallsOK'
<1>1. Tail(calls) \in Seq(Calls) /\ Len(Tail(calls)) = Len(calls) - 1
  BY HeadTailProperties DEF CallsOK
<1> QED
  BY <1>1, LenProperties DEF CallsOK, Return

LEMMA RingInvInit == Init => RingInv
<1> SUFFICES ASSUME Init PROVE RingInv
  OBVIOUS
<1> USE LogBufferAssumption DEF Init
<1>1. head \in Index /\ tail \in Index
  BY DEF Index
<1>2. <<>> \in Seq(Bytes) /\ <<>> \in Seq(Calls) /\ Len(<<>>) = 0
  BY EmptySeq
<1>3. Places
  BY <1>1, <1>2 DEF Places
<1>4. rb_used = 0
  BY DEF rb_used
<1>5. InOrder
  BY <1>2, <1>4 DEF InOrder
<1>6. Counts /\ CallsOK
  BY <1>2 DEF Counts, CallsOK
<1> QED
  BY <1>3, <1>5, <1>6 DEF RingInv

LEMMA RingInvNext == RingInv /\ [Next]_vars => RingInv'
<1> SUFFICES ASSUME RingInv, [Next]_vars PROVE RingInv'
  OBVIOUS
<1>0. Places /\ InOrder /\ Counts /\ CallsOK
  BY DEF RingInv
<1>1. ASSUME UNCHANGED <<log_buf, head, tail, dropped, printed, accepted, sent>>, CallsOK'
      PROVE  RingInv'
  <2>1. Places' /\ Counts'
    BY <1>0, <1>1 DEF Places, Counts
  <2>2. InOrder'
    BY <1>0, <1>1 DEF InOrder, rb_used, Advance
  <2> QED
    BY <1>1, <2>1, <2>2 DEF RingInv
<1>2. CASE Info
  <2>1. /\ <<"print", "newline", "flush">> \in Seq(Calls)
        /\ Len(<<"print", "newline", "flush">>) = 3
    BY DEF Calls
  <2>2. CallsOK'
    BY <1>2, <2>1 DEF Info, CallsOK
  <2> QED
    BY <1>1, <1>2, <2>2 DEF Info
<1>3. CASE PrintNothing \/ FlushEnd
  <2>1. CallsOK'
    BY <1>0, <1>3, Returned DEF PrintNothing, FlushEnd, Calling
  <2> QED
    BY <1>1, <1>3, <2>1 DEF PrintNothing, FlushEnd
<1>4. ASSUME NEW len \in 1 .. MaxMessage, PrintMessage(len) PROVE RingInv'
  <2>1. len \in Nat
    BY Lengths
  <2>2. Places' /\ InOrder'
    BY <1>4, <2>1, Written DEF PrintMessage
  <2>3. Counts'
    BY <1>0, <1>4 DEF PrintMessage, rb_write, Counts
  <2>4. CallsOK'
    BY <1>0, <1>4, Returned DEF PrintMessage, Calling
  <2> QED
    BY <2>2, <2>3, <2>4 DEF RingInv
<1>5. ASSUME NEW avail \in 1 .. MaxRoom, FlushChunk(avail) PROVE RingInv'
  <2>1. avail \in Nat
    BY Lengths
  <2>2. Places' /\ InOrder'
    BY <1>5, <2>1, Flushed
  <2>3. Counts' /\ CallsOK'
    BY <1>0, <1>5 DEF FlushChunk, Counts, CallsOK
  <2> QED
    BY <2>2, <2>3 DEF RingInv
<1>6. CASE UNCHANGED vars
  BY <1>0, <1>1, <1>6 DEF vars, CallsOK
<1> QED
  BY <1>2, <1>3, <1>4, <1>5, <1>6 DEF Next

-----------------------------------------------------------------------------
(* The theorems. *)

\* Positions stay in the ring, and only bytes that were printed are sent.
THEOREM LogTypeCorrect == Spec => []TypeOK
<1>1. RingInv => TypeOK
  BY DEF RingInv, Places, Counts, CallsOK, TypeOK, Bytes
<1> QED
  BY <1>1, RingInvInit, RingInvNext, PTL DEF Spec

\* Every byte that entered the ring leaves it once and in order, for any size
\* of the ring, however the port's room splits the flushes (rb_write,
\* usb_log_flush).
THEOREM SentInOrderInvariant == Spec => []SentInOrder
<1>1. RingInv => SentInOrder
  BY ByteByByte DEF RingInv
<1> QED
  BY <1>1, RingInvInit, RingInvNext, PTL DEF Spec
=============================================================================
