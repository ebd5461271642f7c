---------------------------- MODULE CtapHid_proofs -----------------------------
(***************************************************************************)
(* Proofs about the virtual authenticator, for any programs, messages and  *)
(* sizes of reports: first framing, then the inductive invariant and why   *)
(* each part of it is kept, then what follows of channels and answers.     *)
(***************************************************************************)
EXTENDS CtapHid, FiniteSetTheorems, SequenceTheorems, TLAPS

\* Division with remainder, as chunks are numbered.
LEMMA Division ==
    ASSUME NEW m \in Nat, NEW c \in Nat, c > 0
    PROVE  /\ m \div c \in Nat /\ m % c \in 0..(c - 1)
           /\ m = c * (m \div c) + (m % c)
BY Z3

\* The widths of the two kinds of packets.
LEMMA Widths ==
    /\ First \in Nat /\ First > 0
    /\ Continued \in Nat /\ Continued = First + 2
BY SizeAssumption DEF First, Continued

\* A product grows with its factor.
LEMMA Times ==
    ASSUME NEW c \in Nat, c > 0, NEW j \in Nat, NEW k \in Nat
    PROVE  /\ c * j \in Nat
           /\ c * (j + 1) = c * j + c
           /\ j < k => c * j + c <= c * k
           /\ c * j < c * k => j < k
OBVIOUS

\* How many continuations Frame makes of rest bytes: each begins within them, and
\* each byte is in one of them.
LEMMA Chunks ==
    ASSUME NEW rest \in Nat, NEW c \in Nat, c > 0
    PROVE  /\ (rest + c - 1) \div c \in Nat
           /\ \A k \in 1..((rest + c - 1) \div c) : c * (k - 1) \in Nat /\ c * (k - 1) < rest
           /\ \A j \in Nat : c * j < rest => j + 1 \in 1..((rest + c - 1) \div c)
<1>. DEFINE m == rest + c - 1
            d == m \div c
<1>1. d \in Nat /\ m \in Nat /\ m = c * d + (m % c) /\ m % c \in 0..(c - 1)
  BY Division
<1>2. ASSUME NEW k \in 1..d
      PROVE  c * (k - 1) \in Nat /\ c * (k - 1) < rest
  <2>1. k - 1 \in Nat /\ k - 1 < d /\ d \in Nat
    BY <1>1
  <2>2. c * (k - 1) \in Nat /\ c * (k - 1) + c <= c * d /\ c * d \in Nat
    BY <2>1, Times
  <2>. QED  BY <1>1, <2>2
<1>3. ASSUME NEW j \in Nat, c * j < rest
      PROVE  j + 1 \in 1..d
  <2>. SUFFICES ASSUME d <= j
                PROVE  FALSE
    BY <1>1
  <2>1. c * d <= c * j /\ c * j \in Nat /\ c * d \in Nat
    BY <1>1, Times
  <2>. QED  BY <1>1, <1>3, <2>1
<1>. QED  BY <1>1, <1>2, <1>3

-------------------------------------------------------------------------------
\* The bytes of a payload from an offset on, as wide as a packet.
From(p, offset, width) ==
    [i \in 1..width |-> IF offset + i <= Len(p) THEN p[offset + i] ELSE None]

\* What From makes of a payload fits into a packet.
LEMMA FromIsData ==
    ASSUME NEW p \in Payload, NEW offset \in Nat, NEW width \in Nat
    PROVE  From(p, offset, width) \in Data(width)
<1>1. ASSUME NEW i \in 1..width
      PROVE  (IF offset + i <= Len(p) THEN p[offset + i] ELSE None) \in Byte \cup {None}
  BY LenProperties, ElementOfSeq DEF Payload
<1>. QED  BY <1>1 DEF From, Data

\* What is within a payload needs no padding.
LEMMA ChunkIsFrom ==
    ASSUME NEW p \in Payload, NEW offset \in Nat, offset < Len(p), NEW width \in Nat
    PROVE  Padded(SubSeq(p, offset + 1, Least(offset + width, Len(p))), width)
             = From(p, offset, width)
<1>. DEFINE n == Least(offset + width, Len(p))
            chunk == SubSeq(p, offset + 1, n)
<1>1. Len(p) \in Nat /\ n \in Nat /\ n <= Len(p) /\ n <= offset + width
      /\ (n = Len(p) \/ n = offset + width)
  BY LenProperties DEF Payload, Least
<1>2. /\ Len(chunk) = n - offset
      /\ \A i \in 1..(n - offset) : chunk[i] = p[offset + i]
  <2>1. \A i \in (offset + 1)..n : p[i] \in Byte \cup {None}
    BY <1>1, ElementOfSeq DEF Payload
  <2>2. /\ Len(chunk) = IF offset + 1 <= n THEN n - (offset + 1) + 1 ELSE 0
        /\ \A i \in 1..(n - (offset + 1) + 1) : chunk[i] = p[offset + 1 + i - 1]
    BY <1>1, <2>1, SubSeqProperties
  <2>. QED  BY <1>1, <2>2
<1>3. \A i \in 1..width : i <= Len(chunk) <=> offset + i <= Len(p)
  BY <1>1, <1>2
<1>4. \A i \in 1..width :
        (IF i <= Len(chunk) THEN chunk[i] ELSE None)
          = (IF offset + i <= Len(p) THEN p[offset + i] ELSE None)
  BY <1>1, <1>2, <1>3
<1>. QED  BY <1>4 DEF Padded, From

\* What Frame makes of a payload: a first packet with its length and its beginning,
\* and continuations that take turns with what is left, to the last byte.
IsFrame(f, channel, command, payload) ==
    /\ f \in Seq(Report) /\ Len(f) >= 1
    /\ \A k \in 1..Len(f) : f[k].channel = channel
    /\ f[1].first /\ f[1].command = command /\ f[1].length = Len(payload)
    /\ f[1].data = From(payload, 0, First)
    /\ \A k \in 2..Len(f) :
         /\ ~f[k].first
         /\ Continued * (k - 2) \in Nat /\ First + Continued * (k - 2) < Len(payload)
         /\ f[k].data = From(payload, First + Continued * (k - 2), Continued)
    /\ \A j \in Nat : First + Continued * j < Len(payload) => j + 2 \in 2..Len(f)

\* So it does, for every payload.
LEMMA FrameIsFrame ==
    ASSUME NEW channel \in Channels, NEW command \in Commands \cup {"init"},
           NEW payload \in Payload
    PROVE  IsFrame(Frame(channel, command, payload), channel, command, payload)
<1>. DEFINE head == Least(Len(payload), First)
            rest == Len(payload) - head
            K == (rest + Continued - 1) \div Continued
            Chunk(k) == SubSeq(payload, head + (k - 1) * Continued + 1,
                               Least(head + k * Continued, Len(payload)))
            one == [first |-> TRUE, channel |-> channel, command |-> command,
                    length |-> Len(payload), data |-> Padded(payload, First)]
            Cont(k) == [first |-> FALSE, channel |-> channel, seq |-> (k - 1) % 256,
                        data |-> Padded(Chunk(k), Continued)]
            conts == [k \in 1..K |-> Cont(k)]
            f == Frame(channel, command, payload)
<1>. HIDE DEF head, rest, K, Chunk, one, Cont, conts, f
<1>1. /\ Len(payload) \in Nat /\ head \in Nat /\ rest \in Nat
      /\ head = IF Len(payload) <= First THEN Len(payload) ELSE First
  BY Widths, LenProperties DEF Payload, Least, head, rest
<1>2. /\ K \in Nat
      /\ \A k \in 1..K : Continued * (k - 1) \in Nat /\ Continued * (k - 1) < rest
      /\ \A j \in Nat : Continued * j < rest => j + 1 \in 1..K
  BY <1>1, Widths, Chunks DEF K
<1>3. K > 0 => head = First
  <2>1. K > 0 => 1 \in 1..K
    BY <1>2
  <2>2. K > 0 => rest > 0
    BY <1>1, <1>2, <2>1
  <2>. QED  BY <1>1, <2>2, Widths DEF rest
<1>4. Padded(payload, First) = From(payload, 0, First) /\ one \in Report
  <2>1. Padded(payload, First) = From(payload, 0, First)
    BY <1>1, Widths DEF Padded, From
  <2>2. From(payload, 0, First) \in Data(First)
    BY FromIsData, Widths
  <2>. QED  BY <1>1, <2>1, <2>2 DEF Report, one
<1>5. ASSUME NEW k \in 1..K
      PROVE  /\ Padded(Chunk(k), Continued)
                  = From(payload, First + Continued * (k - 1), Continued)
             /\ Cont(k) \in Report
             /\ First + Continued * (k - 1) < Len(payload)
  <2>. DEFINE o == First + Continued * (k - 1)
  <2>. HIDE DEF o
  <2>1. o \in Nat /\ o < Len(payload) /\ head = First
    <3>1. k \in Nat /\ K > 0 /\ Continued * (k - 1) \in Nat /\ Continued * (k - 1) < rest
      BY <1>2
    <3>2. head = First
      BY <1>3, <3>1
    <3>. QED  BY <1>1, <3>1, <3>2, Widths DEF o, rest
  <2>2. (k - 1) * Continued = Continued * (k - 1) /\ k * Continued = Continued * (k - 1) + Continued
    BY Widths
  <2>3. Chunk(k) = SubSeq(payload, o + 1, Least(o + Continued, Len(payload)))
    <3>1. head + (k - 1) * Continued + 1 = o + 1 /\ head + k * Continued = o + Continued
      BY <1>2, <2>1, <2>2, Widths DEF o
    <3>. QED  BY <3>1 DEF Chunk
  <2>4. Padded(Chunk(k), Continued) = From(payload, o, Continued)
    BY <2>1, <2>3, ChunkIsFrom, Widths
  <2>5. From(payload, o, Continued) \in Data(Continued)
    BY <2>1, FromIsData, Widths
  <2>6. (k - 1) % 256 \in 0..255
    BY <1>2
  <2>7. Cont(k) \in Report
    BY <2>4, <2>5, <2>6 DEF Report, Cont
  <2>. QED  BY <2>1, <2>4, <2>7 DEF o
<1>6. f = <<one>> \o conts
  BY DEF Frame, f, one, conts, Cont, Chunk, K, rest, head
<1>7. conts \in Seq(Report) /\ Len(conts) = K /\ \A k \in 1..K : conts[k] = Cont(k)
  <2>1. conts \in [1..K -> Report]
    BY <1>5 DEF conts
  <2>2. conts \in Seq(Report)
    BY <1>2, <2>1, SeqDef
  <2>3. Len(conts) = K
    BY <1>2, <2>1, <2>2, LenProperties
  <2>. QED  BY <2>2, <2>3 DEF conts
<1>8. /\ f \in Seq(Report) /\ Len(f) = 1 + K
      /\ f[1] = one /\ \A k \in 2..(1 + K) : f[k] = Cont(k - 1)
  <2>1. <<one>> \in Seq(Report) /\ Len(<<one>>) = 1 /\ <<one>>[1] = one
    BY <1>4
  <2>2. /\ f \in Seq(Report) /\ Len(f) = 1 + K
        /\ \A i \in 1..(1 + K) : f[i] = IF i <= 1 THEN <<one>>[i] ELSE conts[i - 1]
    BY <1>6, <1>7, <2>1, ConcatProperties
  <2>3. f[1] = one
    BY <1>2, <2>1, <2>2
  <2>4. ASSUME NEW k \in 2..(1 + K)
        PROVE  f[k] = Cont(k - 1)
    <3>1. k \in 1..(1 + K) /\ ~(k <= 1) /\ k - 1 \in 1..K
      BY <1>2
    <3>2. f[k] = conts[k - 1]
      BY <2>2, <3>1
    <3>. QED  BY <1>7, <3>1, <3>2
  <2>. QED  BY <2>2, <2>3, <2>4
<1>9. \A k \in 2..(1 + K) :
        /\ f[k].channel = channel /\ ~f[k].first
        /\ Continued * (k - 2) \in Nat /\ First + Continued * (k - 2) < Len(payload)
        /\ f[k].data = From(payload, First + Continued * (k - 2), Continued)
  <2>1. ASSUME NEW k \in 2..(1 + K)
        PROVE  /\ f[k].channel = channel /\ ~f[k].first
               /\ Continued * (k - 2) \in Nat /\ First + Continued * (k - 2) < Len(payload)
               /\ f[k].data = From(payload, First + Continued * (k - 2), Continued)
    <3>1. k - 1 \in 1..K /\ (k - 1) - 1 = k - 2 /\ f[k] = Cont(k - 1)
      BY <1>2, <1>8
    <3>2. f[k].channel = channel /\ ~f[k].first
          /\ f[k].data = Padded(Chunk(k - 1), Continued)
      BY <3>1 DEF Cont
    <3>. QED  BY <1>2, <1>5, <3>1, <3>2
  <2>. QED  BY <2>1
<1>10. \A j \in Nat : First + Continued * j < Len(payload) => j + 2 \in 2..(1 + K)
  <2>1. ASSUME NEW j \in Nat, First + Continued * j < Len(payload)
        PROVE  j + 2 \in 2..(1 + K)
    <3>1. Continued * j \in Nat
      BY Widths
    <3>2. Continued * j < rest
      <4>1. head = First
        BY <1>1, <2>1, <3>1, Widths
      <4>. QED  BY <1>1, <2>1, <3>1, <4>1, Widths DEF rest
    <3>3. j + 1 \in 1..K
      BY <1>2, <3>2
    <3>. QED  BY <1>2, <3>3
  <2>. QED  BY <2>1
<1>11. f[1].channel = channel /\ f[1].first /\ f[1].command = command
       /\ f[1].length = Len(payload) /\ f[1].data = From(payload, 0, First)
  BY <1>4, <1>8 DEF one
<1>12. \A k \in 1..Len(f) : f[k].channel = channel
  BY <1>2, <1>8, <1>9, <1>11
<1>. QED  BY <1>2, <1>8, <1>9, <1>10, <1>11, <1>12 DEF IsFrame, f

\* Unframing what frame made gives the payload back, whatever its length and the size of
\* a report: nothing is cut, doubled or padded at the ends of packets (uhid.rs:265).
THEOREM EchoIsWhole ==
    ASSUME NEW channel \in Channels, NEW command \in Commands \cup {"init"},
           NEW payload \in Payload
    PROVE  Unframed(Frame(channel, command, payload)) = payload
<1>. DEFINE f == Frame(channel, command, payload)
<1>. HIDE DEF f
<1>1. IsFrame(f, channel, command, payload)
  BY FrameIsFrame DEF f
<1>2. Len(payload) \in Nat /\ payload = [i \in 1..Len(payload) |-> payload[i]]
  BY LenProperties DEF Payload
<1>3. ASSUME NEW i \in 1..Len(payload), i <= First
      PROVE  f[1].data[i] = payload[i]
  BY <1>1, <1>2, <1>3, Widths DEF IsFrame, From
<1>4. ASSUME NEW i \in 1..Len(payload), ~(i <= First)
      PROVE  f[2 + (i - First - 1) \div Continued].data[1 + ((i - First - 1) % Continued)]
               = payload[i]
  <2>. DEFINE j == i - First - 1
              q == j \div Continued
              m == j % Continued
  <2>. HIDE DEF j, q, m
  <2>1. j \in Nat /\ First + j + 1 = i
    BY <1>2, <1>4, Widths DEF j
  <2>2. q \in Nat /\ m \in 0..(Continued - 1) /\ j = Continued * q + m
    BY <2>1, Widths, Division DEF q, m
  <2>3. Continued * q \in Nat
    BY <2>2, Widths
  <2>4. First + Continued * q < Len(payload) /\ First + Continued * q + (1 + m) = i
    <3>. DEFINE x == Continued * q
    <3>. HIDE DEF x
    <3>1. x \in Nat /\ j = x + m /\ m \in Nat
      BY <2>2, <2>3, Widths DEF x
    <3>2. i \in Nat /\ i <= Len(payload)
      BY <1>2
    <3>3. First + x < Len(payload) /\ First + x + (1 + m) = i
      BY <1>2, <2>1, <3>1, <3>2, Widths
    <3>. QED  BY <3>3 DEF x
  <2>5. q + 2 \in 2..Len(f) /\ (q + 2) - 2 = q /\ 2 + q = q + 2
    BY <1>1, <2>2, <2>4 DEF IsFrame
  <2>6. f[2 + q].data = From(payload, First + Continued * q, Continued)
    BY <1>1, <2>5 DEF IsFrame
  <2>7. 1 + m \in 1..Continued /\ First + Continued * q + (1 + m) <= Len(payload)
    BY <2>2, <2>4, Widths
  <2>8. f[2 + q].data[1 + m] = payload[First + Continued * q + (1 + m)]
    BY <2>6, <2>7 DEF From
  <2>. QED  BY <2>4, <2>8 DEF q, m, j
<1>5. \A i \in 1..Len(payload) :
        (IF i <= First THEN f[1].data[i]
         ELSE f[2 + (i - First - 1) \div Continued].data[1 + ((i - First - 1) % Continued)])
          = payload[i]
  BY <1>3, <1>4
<1>6. f[1].length = Len(payload)
  BY <1>1 DEF IsFrame
<1>7. Unframed(f) = [i \in 1..Len(payload) |-> payload[i]]
  BY <1>5, <1>6 DEF Unframed
<1>. QED  BY <1>2, <1>7 DEF f

-------------------------------------------------------------------------------
\* Another byte of the message of b.
At(b, i) == [app |-> b.app, n |-> b.n, of |-> b.of, at |-> i]

\* Bytes of one message, in order from the first on, as many as the width and the
\* message allow.
IsPiece(data, width) ==
    /\ data[1] \in Byte
    /\ data = [i \in 1..width |->
                 IF data[1].at + i - 1 <= data[1].of THEN At(data[1], data[1].at + i - 1)
                                                     ELSE None]

\* Reports as programs write them: an INIT without a nonce, the first packet of a
\* message, or another packet of it.
Empty(r) == r.first /\ r.length = 0
Sound ==
    {r \in Report :
       \/ Empty(r) /\ r.command = "init"
       \/ /\ r.first /\ r.length > 0 /\ IsPiece(r.data, First)
          /\ r.data[1].at = 1 /\ r.data[1].of = r.length
          /\ (r.command = "init" => r.length = 1)
       \/ /\ ~r.first /\ IsPiece(r.data, Continued)
          /\ r.data[1].at > First /\ r.data[1].at <= r.data[1].of}

\* A packet of a message of several, and the one that comes before another.
Part(r) == ~r.first \/ r.length > First
Width(r) == IF r.first THEN First ELSE Continued
Precedes(q, r) ==
    /\ Part(q) /\ ~r.first /\ q.channel = r.channel
    /\ r.data[1] = At(q.data[1], q.data[1].at + Width(q))

\* The bytes of the n-th message of a.
Message(a, n, length) ==
    [i \in 1..length |-> [app |-> a, n |-> n, of |-> length, at |-> i]]

\* The frame of a message: sound reports, each the successor of the one before.
MessageFrame(f, channel, command, a, n) ==
    /\ f \in Seq(Sound) /\ f # <<>>
    /\ f[1].first /\ f[1].command = command
    /\ \A k \in 1..Len(f) :
         /\ f[k].channel = channel
         /\ Empty(f[k]) \/ (f[k].data[1].app = a /\ f[k].data[1].n = n)
    /\ \A k \in 2..Len(f) : ~f[k].first /\ Precedes(f[k - 1], f[k])

\* Frame makes one of every message.
LEMMA FrameOfMessage ==
    ASSUME NEW channel \in Channels, NEW command \in Commands \cup {"init"},
           NEW a \in Apps, NEW n \in Nat, NEW length \in Nat,
           command = "init" => length <= 1,
           command # "init" => length > 0,
           NEW f, f = Frame(channel, command, Message(a, n, length))
    PROVE  MessageFrame(f, channel, command, a, n)
<1>. DEFINE p == Message(a, n, length)
<1>. HIDE DEF p
<1>0. /\ p \in Payload /\ Len(p) = length
      /\ \A i \in 1..length : p[i] = [app |-> a, n |-> n, of |-> length, at |-> i]
  <2>1. \A i \in 1..length : [app |-> a, n |-> n, of |-> length, at |-> i] \in Byte
    BY DEF Byte
  <2>2. p \in [1..length -> Byte \cup {None}]
    BY <2>1 DEF p, Message
  <2>3. p \in Payload
    BY <2>2, SeqDef DEF Payload
  <2>4. Len(p) = length
    BY <2>2, <2>3, LenProperties DEF Payload
  <2>. QED  BY <2>3, <2>4 DEF p, Message
<1>1. IsFrame(f, channel, command, p)
  BY <1>0, FrameIsFrame DEF p
<1>2. Len(f) \in Nat /\ Len(f) >= 1 /\ f \in Seq(Report) /\ DOMAIN f = 1..Len(f)
  BY <1>1, LenProperties DEF IsFrame
<1>3. ASSUME NEW offset \in Nat, offset < length, NEW w \in Nat, w > 0,
             NEW data, data = From(p, offset, w)
      PROVE  /\ IsPiece(data, w)
             /\ data[1] = [app |-> a, n |-> n, of |-> length, at |-> offset + 1]
  <2>1. data[1] = [app |-> a, n |-> n, of |-> length, at |-> offset + 1]
    BY <1>0, <1>3 DEF From
  <2>2. data[1] \in Byte
    BY <2>1 DEF Byte
  <2>3. \A i \in 1..w :
          (IF offset + i <= Len(p) THEN p[offset + i] ELSE None)
           = (IF data[1].at + i - 1 <= data[1].of
              THEN At(data[1], data[1].at + i - 1) ELSE None)
    <3>1. ASSUME NEW i \in 1..w
          PROVE  /\ data[1].at + i - 1 = offset + i
                 /\ offset + i <= length => p[offset + i] = At(data[1], offset + i)
      BY <1>0, <2>1 DEF At
    <3>. QED  BY <1>0, <2>1, <3>1
  <2>. QED  BY <1>3, <2>1, <2>2, <2>3 DEF From, IsPiece
<1>4. /\ f[1] \in Report /\ f[1] \in Sound /\ (Empty(f[1]) <=> length = 0)
      /\ length > 0 => f[1].data[1] = [app |-> a, n |-> n, of |-> length, at |-> 1]
  <2>1. f[1] \in Report /\ f[1].first /\ f[1].command = command /\ f[1].length = length
        /\ f[1].data = From(p, 0, First)
    BY <1>0, <1>1, <1>2, ElementOfSeq DEF IsFrame
  <2>2. CASE length = 0
    BY <2>1, <2>2 DEF Sound, Empty
  <2>3. CASE length > 0
    <3>1. /\ IsPiece(f[1].data, First)
          /\ f[1].data[1] = [app |-> a, n |-> n, of |-> length, at |-> 1]
      BY <1>3, <2>1, <2>3, Widths
    <3>2. f[1].data[1].at = 1 /\ f[1].data[1].of = f[1].length
      BY <2>1, <3>1
    <3>. QED  BY <2>1, <2>3, <3>1, <3>2 DEF Sound, Empty
  <2>. QED  BY <2>2, <2>3
<1>5. ASSUME NEW k \in 2..Len(f)
      PROVE  /\ f[k] \in Sound /\ ~f[k].first
             /\ Continued * (k - 2) \in Nat /\ First + Continued * (k - 2) < length
             /\ f[k].data[1] = [app |-> a, n |-> n, of |-> length,
                                at |-> First + Continued * (k - 2) + 1]
  <2>. DEFINE offset == First + Continued * (k - 2)
  <2>1. k \in 1..Len(f)
    BY <1>2
  <2>2. f[k] \in Report /\ ~f[k].first /\ offset \in Nat /\ offset < length
        /\ f[k].data = From(p, offset, Continued) /\ Continued * (k - 2) \in Nat
    BY <1>0, <1>1, <1>2, <2>1, ElementOfSeq, Widths DEF IsFrame
  <2>. HIDE DEF offset
  <2>3. /\ IsPiece(f[k].data, Continued)
        /\ f[k].data[1] = [app |-> a, n |-> n, of |-> length, at |-> offset + 1]
    BY <1>3, <2>2, Widths
  <2>4. f[k].data[1].at > First /\ f[k].data[1].at <= f[k].data[1].of
    <3>1. offset >= First
      BY <2>2, Widths DEF offset
    <3>. QED  BY <2>2, <2>3, <3>1, Widths
  <2>5. f[k] \in Sound
    BY <2>2, <2>3, <2>4 DEF Sound
  <2>. QED  BY <2>2, <2>3, <2>5 DEF offset
<1>6. ASSUME NEW k \in 2..Len(f)
      PROVE  Precedes(f[k - 1], f[k])
  <2>1. k - 1 \in 1..Len(f) /\ k \in 1..Len(f)
    BY <1>2
  <2>2. f[k - 1].channel = f[k].channel
    BY <1>1, <2>1 DEF IsFrame
  <2>3. CASE k = 2
    <3>1. Continued * (2 - 2) = 0
      BY Widths
    <3>2. First < length /\ f[k].data[1] = [app |-> a, n |-> n, of |-> length, at |-> First + 1]
      BY <1>5, <2>3, <3>1, Widths
    <3>3. f[1].data[1] = [app |-> a, n |-> n, of |-> length, at |-> 1] /\ f[1].first
          /\ f[1].length = length
      BY <1>0, <1>1, <1>4, <3>2, Widths DEF IsFrame
    <3>4. f[k].data[1] = At(f[1].data[1], f[1].data[1].at + Width(f[1]))
      BY <3>2, <3>3, Widths DEF At, Width
    <3>5. k - 1 = 1 /\ ~f[k].first /\ Part(f[1])
      BY <1>5, <2>3, <3>2, <3>3, Widths DEF Part
    <3>. QED  BY <2>2, <3>4, <3>5 DEF Precedes
  <2>4. CASE k # 2
    <3>1. k - 1 \in 2..Len(f) /\ (k - 1) - 2 = k - 3 /\ k - 3 \in Nat
      BY <1>2, <2>4
    <3>2. Continued * (k - 2) = Continued * (k - 3) + Continued
      <4>1. Continued * ((k - 3) + 1) = Continued * (k - 3) + Continued
        BY <3>1, Widths, Times
      <4>. QED  BY <3>1, <4>1
    <3>3. /\ f[k - 1].data[1] = [app |-> a, n |-> n, of |-> length,
                                 at |-> First + Continued * (k - 3) + 1]
          /\ ~f[k - 1].first /\ Continued * (k - 3) \in Nat
      BY <1>5, <3>1
    <3>4. f[k].data[1] = At(f[k - 1].data[1], f[k - 1].data[1].at + Width(f[k - 1]))
      <4>1. First + Continued * (k - 2) + 1 = First + Continued * (k - 3) + 1 + Continued
        BY <3>2, <3>3, Widths
      <4>. QED  BY <1>5, <3>3, <4>1 DEF At, Width
    <3>. QED  BY <1>5, <2>2, <3>3, <3>4 DEF Precedes, Part
  <2>. QED  BY <2>3, <2>4
<1>7. f \in Seq(Sound)
  <2>1. \A k \in 1..Len(f) : f[k] \in Sound
    <3>1. \A k \in 1..Len(f) : k = 1 \/ k \in 2..Len(f)
      BY <1>2
    <3>. QED  BY <1>4, <1>5, <3>1
  <2>2. f \in [1..Len(f) -> Sound]
    BY <1>2, <2>1, LenProperties
  <2>. QED  BY <1>2, <2>2, SeqDef
<1>8. \A k \in 1..Len(f) : Empty(f[k]) \/ (f[k].data[1].app = a /\ f[k].data[1].n = n)
  <2>1. \A k \in 1..Len(f) : k = 1 \/ k \in 2..Len(f)
    BY <1>2
  <2>2. Empty(f[1]) \/ (f[1].data[1].app = a /\ f[1].data[1].n = n)
    BY <1>4
  <2>3. ASSUME NEW k \in 2..Len(f)
        PROVE  f[k].data[1].app = a /\ f[k].data[1].n = n
    <3>. DEFINE b == f[k].data[1]
    <3>1. b = [app |-> a, n |-> n, of |-> length, at |-> First + Continued * (k - 2) + 1]
      BY <1>5
    <3>. QED  BY <3>1
  <2>. QED  BY <2>1, <2>2, <2>3
<1>9. f # <<>>
  BY <1>2, EmptySeq
<1>10. f[1].first /\ f[1].command = command /\ \A k \in 1..Len(f) : f[k].channel = channel
  BY <1>1 DEF IsFrame
<1>. QED  BY <1>5, <1>6, <1>7, <1>8, <1>9, <1>10 DEF MessageFrame

-------------------------------------------------------------------------------
(***************************************************************************)
(* The inductive invariant.                                                *)
(***************************************************************************)

\* Types, and that what programs write are packets of messages; a helper that has
\* ended waits for nobody.
Base ==
    /\ TypeOK
    /\ events \in Seq(Sound) /\ sending \in [Apps -> Seq(Sound)]
    /\ helper # "running" => asked = None

\* Programs write on their own channel; only who asks for one uses the shared one.
OwnChannel(r) ==
    \/ r.channel = chan[r.data[1].app]
    \/ r.first /\ r.command = "init" /\ r.channel = Broadcast

EventsOwned ==
    \A i \in 1..Len(events) : LET r == events[i] IN
        Empty(r) \/ (r.data[1].n \in 1..sent[r.data[1].app] /\ OwnChannel(r))

SendingOwned ==
    \A a \in Apps : \A k \in 1..Len(sending[a]) : LET r == sending[a][k] IN
        Empty(r) \/ (r.data[1].app = a /\ r.data[1].n = sent[a] /\ sent[a] > 0 /\ OwnChannel(r))

SendingOrdered ==
    \A a \in Apps : \A k \in 2..Len(sending[a]) :
        ~sending[a][k].first /\ Precedes(sending[a][k - 1], sending[a][k])

Owned == EventsOwned /\ SendingOwned /\ SendingOrdered

\* Each message asks for a channel once, so the counter is behind their number, and
\* the channels handed out are different ones below it.
Ticket(b) == <<b.app, b.n>>
Tickets == UNION {{a} \X (1..MaxMessages[a]) : a \in Apps}
Used == {Ticket(x.of[1]) : x \in Assignments}
Asks(r) == r.first /\ ~Empty(r)

Numbered ==
    /\ next_channel \in 1..(1 + Cardinality(Used))
    /\ \A x \in Assignments :
         /\ x.of[1] \in Byte /\ x.of[1].n \in 1..sent[x.of[1].app]
         /\ x.assigned \in 2..next_channel
    /\ \A x, y \in Assignments : x.assigned = y.assigned => x = y

Fresh ==
    /\ \A i \in 1..Len(events) : Asks(events[i]) =>
         /\ Ticket(events[i].data[1]) \notin Used
         /\ \A j \in 1..Len(events) : Asks(events[j]) /\ j # i =>
              Ticket(events[j].data[1]) # Ticket(events[i].data[1])
    /\ \A a \in Apps : sending[a] # <<>> /\ Asks(sending[a][1]) =>
         /\ <<a, sent[a]>> \notin Used
         /\ \A i \in 1..Len(events) :
              Asks(events[i]) => Ticket(events[i].data[1]) # <<a, sent[a]>>

Taken ==
    \A a \in Apps : chan[a] # None =>
        \E y \in Assignments : y.assigned = chan[a] /\ y.of[1].app = a

\* What the helper holds for a channel came from the program whose channel it is.
Mine(c, p) ==
    \E a \in Apps : chan[a] = c /\ \A i \in 1..Len(p) : p[i] = None \/ p[i].app = a

AssemblyOwned == assembly # None => Mine(assembly.channel, assembly.payload)
AskedOwned == asked # None => Mine(asked.channel, asked.payload)

\* The program the channel was given to has sent all of these.
Attributed(c, p) ==
    \E y \in Assignments :
        /\ y.assigned = c
        /\ \A i \in 1..Len(p) : p[i] = None \/ p[i].app = y.of[1].app

AnswersOwned == \A x \in answers : x.command # "init" => Attributed(x.channel, x.of)

Held == AssemblyOwned /\ AskedOwned /\ AnswersOwned

\* As long as no report was lost, a continuation finds its message so far: the packet
\* before it is the last one of its channel ahead of it, or was the last one read.
Prefix(b, k) == [i \in 1..k |-> At(b, i)]
Holds(r) ==
    /\ assembly.payload = Prefix(r.data[1], r.data[1].at - 1)
    /\ assembly.expected = r.data[1].of

Other(k, r) == ~(Part(events[k]) /\ events[k].channel = r.channel)
Ready(r, hi) ==
    \/ \E j \in 1..(hi - 1) :
         Precedes(events[j], r) /\ \A k \in (j + 1)..(hi - 1) : Other(k, r)
    \/ /\ \A k \in 1..(hi - 1) : Other(k, r)
       /\ assembly # None /\ assembly.channel = r.channel => Holds(r)

Ordered ==
    ~lost =>
        /\ \A i \in 1..Len(events) : ~events[i].first => Ready(events[i], i)
        /\ \A a \in Apps : sending[a] # <<>> /\ ~sending[a][1].first =>
             Ready(sending[a][1], Len(events) + 1)

WholeHeld ==
    ~lost => /\ asked # None => Whole(asked.payload)
             /\ \A x \in answers : x.command # "init" => Whole(x.of)

Echoes == \A x \in answers : x.command = "ping" => Unframed(x.packets) = x.of

\* Fewer messages than channels, so that the counter does not come round.
ChannelsSuffice == IsFiniteSet(Tickets) /\ Cardinality(Tickets) + 1 < MaxChannel

-------------------------------------------------------------------------------
(***************************************************************************)
(* Types.                                                                  *)
(***************************************************************************)
AnswerRecord ==
    [channel : Channels, command : Commands \cup {"init"}, of : Payload,
     packets : Seq(Report), assigned : Channels \cup {None}]

\* What is read is none of the records that are held.
LEMMA NoneApart ==
    /\ \A x \in Asking \cup Assembling \cup Byte \cup Channels : x # None
    /\ "init" \notin Commands
BY NoneAssumption, SizeAssumption

\* The head of the queue is a sound report, and the rest of it is a queue.
LEMMA HeadAndTail ==
    ASSUME NEW S, NEW s \in Seq(S), s # <<>>
    PROVE  /\ Head(s) \in S /\ Head(s) = s[1] /\ Tail(s) \in Seq(S)
           /\ Len(s) \in Nat /\ Len(s) > 0 /\ Len(Tail(s)) = Len(s) - 1
           /\ \A i \in 1..Len(Tail(s)) : i + 1 \in 2..Len(s) /\ Tail(s)[i] = s[i + 1]
<1>1. Len(s) \in Nat \ {0}
  BY EmptySeq, LenProperties
<1>. QED  BY <1>1, HeadTailProperties

\* An answer is typed.
LEMMA AnswerTyped ==
    ASSUME NEW channel \in Channels, NEW command \in Commands \cup {"init"},
           NEW of \in Payload, NEW body \in Payload, NEW assigned \in Channels \cup {None}
    PROVE  [channel |-> channel, command |-> command, of |-> of,
            packets |-> Frame(channel, command, body), assigned |-> assigned] \in AnswerRecord
<1>1. Frame(channel, command, body) \in Seq(Report)
  BY FrameIsFrame DEF IsFrame
<1>. QED  BY <1>1 DEF AnswerRecord

\* The empty payload is one.
LEMMA NothingIsPayload == <<>> \in Payload
BY EmptySeq DEF Payload

\* The counter stays within its width.
LEMMA CounterTyped ==
    ASSUME NEW channel, next_channel \in Channels
    PROVE  NextChannel(channel) \in Channels
<1>1. (next_channel + 1) % (MaxChannel + 1) \in 0..MaxChannel
  BY SizeAssumption, Division DEF Channels
<1>. QED  BY <1>1 DEF NextChannel, Channels

\* Dispatch keeps the types, and starts a thread when it has the loop wait.
LEMMA DispatchTyped ==
    ASSUME Base, NEW channel \in Channels, NEW command \in Commands \cup {"init"},
           NEW payload \in Payload, helper = "running", asked = None,
           Dispatch(channel, command, payload)
    PROVE  /\ helper' \in {"running", "failed", "stopped"}
           /\ next_channel' \in Channels
           /\ asked' \in Asking \cup {None}
           /\ worker' \in {"none", "parsing", "asking", "created", "refused"}
           /\ asked' = None <=> worker' = "none"
           /\ answers' \subseteq AnswerRecord
           /\ helper' # "running" => asked' = None
<1>1. next_channel \in Channels /\ answers \subseteq AnswerRecord /\ worker = "none"
  BY DEF AnswerRecord, Base, TypeOK
<1>2. ASSUME command = "init", payload # <<>>,
             next_channel' = NextChannel(channel),
             Answer(channel, "init", payload, <<>>,
                    IF channel = Broadcast THEN next_channel' ELSE channel),
             UNCHANGED <<helper, phoneVars>>
      PROVE  next_channel' \in Channels /\ answers' \subseteq AnswerRecord
  <2>1. next_channel' \in Channels
    BY <1>1, <1>2, CounterTyped
  <2>2. (IF channel = Broadcast THEN next_channel' ELSE channel) \in Channels \cup {None}
    BY <2>1
  <2>. DEFINE given == IF channel = Broadcast THEN next_channel' ELSE channel
  <2>. HIDE DEF given
  <2>3. [channel |-> channel, command |-> "init", of |-> payload,
         packets |-> Frame(channel, "init", <<>>), assigned |-> given] \in AnswerRecord
    BY <2>2, AnswerTyped, NothingIsPayload DEF given
  <2>4. Answer(channel, "init", payload, <<>>, given)
    BY <1>2 DEF given
  <2>. QED  BY <1>1, <2>1, <2>3, <2>4 DEF Answer
<1>3. ASSUME Answer(channel, command, payload, IF command = "ping" THEN payload ELSE <<>>, None)
      PROVE  answers' \subseteq AnswerRecord
  <2>1. (IF command = "ping" THEN payload ELSE <<>>) \in Payload
    BY NothingIsPayload
  <2>. DEFINE body == IF command = "ping" THEN payload ELSE <<>>
  <2>. HIDE DEF body
  <2>2. [channel |-> channel, command |-> command, of |-> payload,
         packets |-> Frame(channel, command, body), assigned |-> None] \in AnswerRecord
    BY <2>1, AnswerTyped DEF body
  <2>3. Answer(channel, command, payload, body, None)
    BY <1>3 DEF body
  <2>. QED  BY <1>1, <2>2, <2>3 DEF Answer
<1>4. ASSUME command \in {"makecred", "assert"}
      PROVE  /\ [channel |-> channel, command |-> command, payload |-> payload] \in Asking
             /\ [channel |-> channel, command |-> command, payload |-> payload] # None
  BY <1>4, NoneApart DEF Asking
<1>5. CASE command = "init" /\ payload # <<>>
  BY <1>1, <1>2, <1>5 DEF Dispatch, phoneVars
<1>6. CASE command = "init" /\ payload = <<>>
  BY <1>1, <1>6 DEF Dispatch, phoneVars
<1>7. CASE command \in {"ping", "info", "cancel"}
  BY <1>1, <1>3, <1>7 DEF Dispatch, phoneVars
<1>8. CASE command \in {"makecred", "assert"}
  BY <1>1, <1>4, <1>8 DEF Dispatch
<1>. QED  BY <1>5, <1>6, <1>7, <1>8 DEF Dispatch

\* The beginning of a packet's bytes is a payload.
LEMMA DataIsPayload ==
    ASSUME NEW w \in Nat, NEW data \in Data(w), NEW m \in 0..w
    PROVE  /\ data \in Payload /\ Len(data) = w
           /\ SubSeq(data, 1, m) \in Payload /\ Len(SubSeq(data, 1, m)) = m
           /\ \A i \in 1..m : SubSeq(data, 1, m)[i] = data[i]
<1>1. data \in Payload
  BY SeqDef DEF Data, Payload
<1>2. Len(data) = w
  BY <1>1, LenProperties DEF Data, Payload
<1>3. \A i \in 1..m : data[i] \in Byte \cup {None}
  BY DEF Data
<1>4. /\ SubSeq(data, 1, m) \in Payload
      /\ Len(SubSeq(data, 1, m)) = IF 1 <= m THEN m - 1 + 1 ELSE 0
      /\ \A i \in 1..(m - 1 + 1) : SubSeq(data, 1, m)[i] = data[1 + i - 1]
  BY <1>3, SubSeqProperties DEF Payload
<1>. QED  BY <1>1, <1>2, <1>4

\* What a continuation adds to the message under way: what that still lacks, or all.
LEMMA ExtendedTyped ==
    ASSUME Base, assembly # None, NEW r \in Report, ~r.first
    PROVE  LET n == Len(assembly.payload)
               m == Least(assembly.expected - n, Continued)
           IN  /\ n \in Nat /\ n >= First /\ n < assembly.expected /\ assembly.expected \in Nat
               /\ m \in 1..Continued
               /\ Extended(r) \in Payload /\ Len(Extended(r)) = n + m
               /\ \A i \in 1..n : Extended(r)[i] = assembly.payload[i]
               /\ \A i \in (n + 1)..(n + m) : Extended(r)[i] = r.data[i - n]
<1>. DEFINE n == Len(assembly.payload)
            m == Least(assembly.expected - n, Continued)
            more == SubSeq(r.data, 1, m)
<1>1. assembly \in Assembling /\ n \in First..(assembly.expected - 1)
  BY DEF Base, TypeOK
<1>2. /\ n \in Nat /\ n >= First /\ n < assembly.expected /\ assembly.expected \in Nat
      /\ assembly.payload \in Payload
  BY <1>1, Widths, LenProperties DEF Assembling, Payload
<1>3. m \in 1..Continued /\ m \in 0..Continued
  BY <1>2, Widths DEF Least
<1>4. r.data \in Data(Continued)
  BY DEF Report
<1>. HIDE DEF n, m, more
<1>5. /\ more \in Payload /\ Len(more) = m
      /\ \A i \in 1..m : more[i] = r.data[i]
  BY <1>3, <1>4, DataIsPayload, Widths DEF more
<1>6. Extended(r) = assembly.payload \o more
  BY DEF Extended, more, m, n
<1>7. /\ Extended(r) \in Payload /\ Len(Extended(r)) = n + m
      /\ \A i \in 1..(n + m) :
           Extended(r)[i] = IF i <= n THEN assembly.payload[i] ELSE more[i - n]
  <2>1. assembly.payload \in Seq(Byte \cup {None}) /\ more \in Seq(Byte \cup {None})
    BY <1>2, <1>5 DEF Payload
  <2>2. Len(assembly.payload) = n /\ Len(more) = m
    BY <1>5 DEF n
  <2>3. assembly.payload \o more \in Payload
    BY <2>1, ConcatProperties DEF Payload
  <2>4. Len(assembly.payload \o more) = n + m
    BY <2>1, <2>2, ConcatProperties
  <2>5. \A i \in 1..(n + m) : (assembly.payload \o more)[i]
                               = IF i <= n THEN assembly.payload[i] ELSE more[i - n]
    BY <2>1, <2>2, ConcatProperties
  <2>. QED  BY <1>6, <2>3, <2>4, <2>5
<1>8. \A i \in 1..n : Extended(r)[i] = assembly.payload[i]
  BY <1>2, <1>3, <1>7
<1>9. ASSUME NEW i \in (n + 1)..(n + m)
      PROVE  Extended(r)[i] = r.data[i - n]
  <2>1. i \in 1..(n + m) /\ ~(i <= n) /\ i - n \in 1..m
    BY <1>2, <1>3
  <2>. QED  BY <1>5, <1>7, <2>1
<1>. QED  BY <1>2, <1>3, <1>7, <1>8, <1>9 DEF n, m

\* Reading takes the head of the queue.
LEMMA ReadTyped ==
    ASSUME Base, NEW r, Reads(r)
    PROVE  /\ r = events[1] /\ r \in Sound /\ r \in Report /\ r.channel \in Channels
           /\ events' \in Seq(Sound) /\ events' \in Seq(Report)
           /\ Len(events) \in Nat /\ Len(events) > 0 /\ Len(events') = Len(events) - 1
           /\ \A i \in 1..Len(events') :
                i + 1 \in 1..Len(events) /\ i + 1 > 1 /\ events'[i] = events[i + 1]
<1>1. /\ events \in Seq(Sound) /\ events # <<>> /\ r = Head(events) /\ events' = Tail(events)
      /\ events \in Seq(Report)
  BY DEF Reads, Base, TypeOK
<1>2. /\ r = events[1] /\ r \in Sound /\ events' \in Seq(Sound) /\ events' \in Seq(Report)
      /\ Len(events) \in Nat /\ Len(events) > 0 /\ Len(events') = Len(events) - 1
      /\ \A i \in 1..Len(events') : i + 1 \in 2..Len(events) /\ events'[i] = events[i + 1]
  BY <1>1, HeadAndTail
<1>3. r \in Report /\ r.channel \in Channels
  BY <1>2 DEF Sound, Report
<1>. QED  BY <1>2, <1>3

\* A packet that is a whole message.
LEMMA SingleTyped ==
    ASSUME NEW r \in Sound, r.first, r.length <= First
    PROVE  /\ SubSeq(r.data, 1, r.length) \in Payload
           /\ Len(SubSeq(r.data, 1, r.length)) = r.length /\ r.length \in Nat
           /\ \A i \in 1..r.length : SubSeq(r.data, 1, r.length)[i] = r.data[i]
           /\ r.command \in Commands \cup {"init"}
<1>1. r.length \in Nat /\ r.data \in Data(First) /\ r.command \in Commands \cup {"init"}
  BY DEF Sound, Report
<1>2. r.length \in 0..First
  BY <1>1, Widths
<1>. QED  BY <1>1, <1>2, DataIsPayload, Widths

\* The first packet of several begins a message under way.
LEMMA MultiTyped ==
    ASSUME NEW r \in Sound, r.first, r.length > First
    PROVE  /\ [channel |-> r.channel, command |-> r.command,
               expected |-> r.length, payload |-> r.data] \in Assembling
           /\ r.data \in Payload /\ Len(r.data) = First /\ Len(r.data) \in First..(r.length - 1)
<1>1. r.length \in Nat /\ r.data \in Data(First) /\ r.channel \in Channels
      /\ r.command \in Commands \cup {"init"}
  BY DEF Sound, Report
<1>2. r.command \in Commands
  BY <1>1, Widths DEF Sound, Empty
<1>3. r.data \in Payload /\ Len(r.data) = First
  <2>1. First \in 0..First
    BY Widths
  <2>. QED  BY <1>1, <2>1, DataIsPayload, Widths
<1>. QED  BY <1>1, <1>2, <1>3, Widths DEF Assembling

\* A program begins a message.
LEMMA BeginFrames ==
    ASSUME Base, NEW a \in Apps, NEW channel \in Channels,
           NEW command \in Commands \cup {"init"}, NEW length \in Nat,
           command = "init" => length <= 1,
           command # "init" => length > 0,
           Begin(a, channel, command, length)
    PROVE  /\ sending'[a] = Frame(channel, command, Message(a, sent[a] + 1, length))
           /\ sent' = [sent EXCEPT ![a] = sent[a] + 1]
           /\ sent[a] + 1 \in Nat /\ sent[a] + 1 <= MaxMessages[a]
           /\ sending'[a] \in Seq(Sound)
           /\ \A b \in Apps \ {a} : sending'[b] = sending[b]
           /\ sending' = [sending EXCEPT ![a] = sending'[a]]
<1>1. sending \in [Apps -> Seq(Sound)] /\ sent \in [Apps -> Nat] /\ MaxMessages[a] \in Nat
  BY SizeAssumption DEF Base, TypeOK
<1>2. Bytes(a, length) = Message(a, sent[a] + 1, length)
  BY DEF Bytes, Message
<1>3. sending' = [sending EXCEPT ![a] = Frame(channel, command, Message(a, sent[a] + 1, length))]
  BY <1>2 DEF Begin
<1>4. Frame(channel, command, Message(a, sent[a] + 1, length)) \in Seq(Sound)
  <2>1. PICK f : f = Frame(channel, command, Message(a, sent[a] + 1, length))
    OBVIOUS
  <2>2. sent[a] + 1 \in Nat
    BY <1>1
  <2>3. MessageFrame(f, channel, command, a, sent[a] + 1)
    BY <2>1, <2>2, FrameOfMessage
  <2>. QED  BY <2>1, <2>3 DEF MessageFrame
<1>5. sent' = [sent EXCEPT ![a] = sent[a] + 1] /\ sent[a] < MaxMessages[a]
  BY DEF Begin
<1>. QED  BY <1>1, <1>3, <1>4, <1>5

\* The messages programs begin: INIT, or a command on their own channel.
LEMMA Begins ==
    ASSUME Base, NEW a \in Apps, AppInits(a) \/ AppSends(a)
    PROVE  \E channel \in Channels, command \in Commands \cup {"init"}, length \in Nat :
               /\ command = "init" => length <= 1
               /\ command # "init" => length > 0
               /\ channel = chan[a] \/ (command = "init" /\ channel = Broadcast)
               /\ Begin(a, channel, command, length)
<1>1. chan[a] # None => chan[a] \in Channels
  BY DEF Base, TypeOK
<1>2. CASE AppInits(a)
  <2>1. PICK length \in {0, 1} :
           Begin(a, IF chan[a] = None THEN Broadcast ELSE chan[a], "init", length)
    BY <1>2 DEF AppInits
  <2>2. (IF chan[a] = None THEN Broadcast ELSE chan[a]) \in Channels
    BY <1>1, SizeAssumption DEF Broadcast, Channels
  <2>. QED  BY <2>1, <2>2
<1>3. CASE AppSends(a)
  <2>1. chan[a] \in Channels
    BY <1>1, <1>3 DEF AppSends
  <2>2. PICK command \in Commands, length \in Lengths : Begin(a, chan[a], command, length)
    BY <1>3 DEF AppSends
  <2>3. length \in Nat /\ length > 0 /\ command # "init"
    BY SizeAssumption, NoneApart
  <2>. QED  BY <2>1, <2>2, <2>3
<1>. QED  BY <1>2, <1>3

\* Nothing is on its way at first.
LEMMA BaseInit == Init => Base
<1>. SUFFICES ASSUME Init
              PROVE  Base
  OBVIOUS
<1>1. <<>> \in Seq(Report) /\ <<>> \in Seq(Sound) /\ Len(<<>>) = 0
  BY EmptySeq
<1>2. 1 \in Channels /\ 0 \in 0..MaxRestarts /\ 0 <= MaxEvents
  BY SizeAssumption DEF Channels
<1>3. \A a \in Apps : 0 <= MaxMessages[a]
  BY SizeAssumption
<1>4. /\ sent \in [Apps -> Nat] /\ \A a \in Apps : sent[a] <= MaxMessages[a]
      /\ chan \in [Apps -> Channels \cup {None}]
  BY <1>3 DEF Init
<1>5. /\ sending \in [Apps -> Seq(Report)] /\ sending \in [Apps -> Seq(Sound)]
      /\ events \in Seq(Report) /\ events \in Seq(Sound) /\ Len(events) <= MaxEvents
  BY <1>1, <1>2 DEF Init
<1>. QED  BY <1>2, <1>4, <1>5 DEF Init, Base, TypeOK

\* Every report that is read leaves the types as they are.
LEMMA ReadBase == Base /\ (ReadFirst \/ ReadContinuation) => Base'
<1>. SUFFICES ASSUME Base, NEW r, Reads(r),
                     \/ /\ r.first
                        /\ \/ /\ r.length > First
                              /\ assembly' = [channel |-> r.channel, command |-> r.command,
                                              expected |-> r.length, payload |-> r.data]
                              /\ UNCHANGED <<helper, next_channel, phoneVars, answers>>
                           \/ /\ r.length <= First
                              /\ Dispatch(r.channel, r.command, SubSeq(r.data, 1, r.length))
                              /\ UNCHANGED assembly
                     \/ /\ ~r.first
                        /\ \/ /\ ~Continues(r)
                              /\ UNCHANGED <<helper, next_channel, assembly, phoneVars, answers>>
                           \/ /\ Continues(r) /\ ~Complete(Extended(r))
                              /\ assembly' = [assembly EXCEPT !.payload = Extended(r)]
                              /\ UNCHANGED <<helper, next_channel, phoneVars, answers>>
                           \/ /\ Continues(r) /\ Complete(Extended(r))
                              /\ assembly' = None
                              /\ Dispatch(assembly.channel, assembly.command, Extended(r))
              PROVE  Base'
  BY DEF ReadFirst, ReadContinuation
<1>1. /\ helper = "running" /\ asked = None
      /\ UNCHANGED <<restarts, lost, chan, sending, sent>>
      /\ r \in Sound /\ r \in Report /\ r.channel \in Channels
      /\ events' \in Seq(Sound) /\ events' \in Seq(Report) /\ Len(events') <= MaxEvents
  <2>1. Len(events) <= MaxEvents /\ MaxEvents \in Nat
    BY SizeAssumption DEF Base, TypeOK
  <2>. QED  BY <2>1, ReadTyped DEF Reads, appVars
<1>2. ASSUME assembly' \in Assembling \cup {None},
             assembly' # None =>
               Len(assembly'.payload) \in First..(assembly'.expected - 1),
             UNCHANGED <<helper, next_channel, phoneVars, answers>>
      PROVE  Base'
  BY <1>1, <1>2 DEF Base, TypeOK, phoneVars
<1>3. ASSUME assembly' \in {assembly, None},
             NEW channel \in Channels, NEW command \in Commands \cup {"init"},
             NEW payload \in Payload, Dispatch(channel, command, payload)
      PROVE  Base'
  <2>1. /\ helper' \in {"running", "failed", "stopped"}
        /\ next_channel' \in Channels
        /\ asked' \in Asking \cup {None}
        /\ worker' \in {"none", "parsing", "asking", "created", "refused"}
        /\ asked' = None <=> worker' = "none"
        /\ answers' \subseteq AnswerRecord
        /\ helper' # "running" => asked' = None
    BY <1>1, <1>3, DispatchTyped
  <2>2. /\ assembly' \in Assembling \cup {None}
        /\ assembly' # None => Len(assembly'.payload) \in First..(assembly'.expected - 1)
    BY <1>3 DEF Base, TypeOK
  <2>. QED  BY <1>1, <2>1, <2>2 DEF Base, TypeOK, AnswerRecord
<1>4. CASE r.first
  <2>0. r.length \in Nat /\ ~(r.length > First /\ r.length <= First)
    <3>1. r.length \in Nat
      BY <1>1, <1>4 DEF Report
    <3>. QED  BY <3>1, Widths
  <2>1. CASE r.length > First
    <3>1. assembly' = [channel |-> r.channel, command |-> r.command,
                       expected |-> r.length, payload |-> r.data]
          /\ UNCHANGED <<helper, next_channel, phoneVars, answers>>
      BY <1>4, <2>0, <2>1
    <3>2. /\ [channel |-> r.channel, command |-> r.command,
              expected |-> r.length, payload |-> r.data] \in Assembling
          /\ Len(r.data) \in First..(r.length - 1)
      BY <1>1, <1>4, <2>1, MultiTyped
    <3>3. assembly' \in Assembling /\ Len(assembly'.payload) \in First..(assembly'.expected - 1)
      BY <3>1, <3>2
    <3>. QED  BY <1>2, <3>1, <3>3
  <2>2. CASE r.length <= First
    <3>1. Dispatch(r.channel, r.command, SubSeq(r.data, 1, r.length)) /\ assembly' = assembly
      BY <1>4, <2>0, <2>2
    <3>2. r.command \in Commands \cup {"init"} /\ SubSeq(r.data, 1, r.length) \in Payload
      BY <1>1, <1>4, <2>2, SingleTyped
    <3>. QED  BY <1>1, <1>3, <3>1, <3>2
  <2>. QED  BY <1>4, <2>1, <2>2
<1>5. CASE ~r.first
  <2>1. CASE ~Continues(r)
    BY <1>2, <1>5, <2>1 DEF Base, TypeOK
  <2>2. CASE Continues(r)
    <3>1. assembly # None /\ assembly \in Assembling
      BY <2>2 DEF Continues, Base, TypeOK
    <3>2. LET n == Len(assembly.payload)
              m == Least(assembly.expected - n, Continued)
          IN  /\ n \in Nat /\ n >= First /\ assembly.expected \in Nat
              /\ m \in 1..Continued
              /\ Extended(r) \in Payload /\ Len(Extended(r)) = n + m
      BY <1>1, <1>5, <3>1, ExtendedTyped
    <3>3. CASE ~Complete(Extended(r))
      <4>1. assembly' = [assembly EXCEPT !.payload = Extended(r)]
            /\ UNCHANGED <<helper, next_channel, phoneVars, answers>>
        BY <1>5, <2>2, <3>3
      <4>2. assembly' \in Assembling /\ assembly'.payload = Extended(r)
            /\ assembly'.expected = assembly.expected
        BY <3>1, <3>2, <4>1 DEF Assembling
      <4>3. Len(Extended(r)) \in First..(assembly.expected - 1)
        BY <3>2, <3>3, Widths DEF Complete
      <4>. QED  BY <1>2, <4>1, <4>2, <4>3
    <3>4. CASE Complete(Extended(r))
      <4>1. assembly.channel \in Channels /\ assembly.command \in Commands \cup {"init"}
            /\ Extended(r) \in Payload
        BY <3>1, <3>2 DEF Assembling
      <4>. QED  BY <1>3, <1>5, <2>2, <3>4, <4>1
    <3>. QED  BY <3>3, <3>4
  <2>. QED  BY <2>1, <2>2
<1>. QED  BY <1>4, <1>5

\* What programs write are packets of messages.
LEMMA AppBase ==
    ASSUME Base, NEW a \in Apps, App(a)
    PROVE  Base'
<1>1. CASE AppInits(a) \/ AppSends(a)
  <2>1. PICK channel \in Channels, command \in Commands \cup {"init"}, length \in Nat :
               /\ command = "init" => length <= 1
               /\ command # "init" => length > 0
               /\ Begin(a, channel, command, length)
    BY <1>1, Begins
  <2>2. /\ sent' = [sent EXCEPT ![a] = sent[a] + 1]
        /\ sent[a] + 1 \in Nat /\ sent[a] + 1 <= MaxMessages[a]
        /\ sending' = [sending EXCEPT ![a] = sending'[a]] /\ sending'[a] \in Seq(Sound)
    BY <2>1, BeginFrames
  <2>3. sending'[a] \in Seq(Report)
    <3>1. Sound \subseteq Report
      BY DEF Sound
    <3>. QED  BY <2>2, <3>1, SeqMonotonic
  <2>4. UNCHANGED <<helperVars, phoneVars, events, lost, chan, answers>>
    BY <2>1 DEF Begin
  <2>. QED  BY <2>2, <2>3, <2>4 DEF Base, TypeOK, helperVars, phoneVars
<1>2. CASE AppWrites(a)
  <2>1. sending[a] \in Seq(Sound) /\ sending[a] \in Seq(Report) /\ sending[a] # <<>>
    BY <1>2 DEF Base, TypeOK, AppWrites
  <2>2. /\ Head(sending[a]) \in Sound /\ Tail(sending[a]) \in Seq(Sound)
        /\ Head(sending[a]) \in Report /\ Tail(sending[a]) \in Seq(Report)
    BY <2>1, HeadTailProperties
  <2>3. \/ events' = Append(events, Head(sending[a])) /\ Len(events) < MaxEvents /\ lost' = lost
        \/ events' = events /\ lost' = TRUE
    BY <1>2 DEF AppWrites
  <2>4. Len(events) \in Nat /\ Len(events) <= MaxEvents /\ MaxEvents \in Nat
        /\ events \in Seq(Sound) /\ events \in Seq(Report) /\ lost \in BOOLEAN
    <3>1. events \in Seq(Sound) /\ events \in Seq(Report) /\ lost \in BOOLEAN
          /\ Len(events) <= MaxEvents
      BY DEF Base, TypeOK
    <3>. QED  BY <3>1, LenProperties, SizeAssumption
  <2>5. events' \in Seq(Sound) /\ events' \in Seq(Report) /\ Len(events') <= MaxEvents
        /\ lost' \in BOOLEAN
    <3>1. CASE events' = Append(events, Head(sending[a])) /\ Len(events) < MaxEvents
               /\ lost' = lost
      <4>1. events' \in Seq(Sound) /\ Len(events') = Len(events) + 1
        BY <2>2, <2>4, <3>1, AppendProperties
      <4>2. events' \in Seq(Report)
        BY <2>2, <2>4, <3>1, AppendProperties
      <4>. QED  BY <2>4, <3>1, <4>1, <4>2
    <3>2. CASE events' = events /\ lost' = TRUE
      BY <2>4, <3>2
    <3>. QED  BY <2>3, <3>1, <3>2
  <2>6. sending' = [sending EXCEPT ![a] = Tail(sending[a])]
        /\ UNCHANGED <<helperVars, phoneVars, chan, sent, answers>>
    BY <1>2 DEF AppWrites
  <2>. QED  BY <2>2, <2>5, <2>6 DEF Base, TypeOK, helperVars, phoneVars
<1>3. CASE AppTakesChannel(a)
  <2>1. PICK x \in answers : x.command = "init" /\ x.channel = Broadcast /\ x.of[1].app = a
                             /\ chan' = [chan EXCEPT ![a] = x.assigned]
    BY <1>3 DEF AppTakesChannel
  <2>2. x.assigned \in Channels \cup {None}
    BY DEF Base, TypeOK
  <2>. QED  BY <1>3, <2>1, <2>2 DEF AppTakesChannel, Base, TypeOK, helperVars, phoneVars
<1>. QED  BY <1>1, <1>2, <1>3 DEF App

\* Every step keeps the types.
LEMMA BaseStep == Base /\ [Next]_vars => Base'
<1>. SUFFICES ASSUME Base, [Next]_vars
              PROVE  Base'
  OBVIOUS
<1>1. CASE \E a \in Apps : App(a)
  BY <1>1, AppBase
<1>2. CASE ReadFirst \/ ReadContinuation
  BY <1>2, ReadBase
<1>3. CASE AnswerPhone
  <2>1. asked \in Asking /\ helper = "running"
    BY <1>3 DEF AnswerPhone, Base, TypeOK
  <2>2. asked.channel \in Channels /\ asked.command \in Commands \cup {"init"}
        /\ asked.payload \in Payload
    BY <2>1 DEF Asking
  <2>3. [channel |-> asked.channel, command |-> asked.command, of |-> asked.payload,
         packets |-> Frame(asked.channel, asked.command, <<>>), assigned |-> None]
           \in AnswerRecord
    BY <2>2, AnswerTyped, NothingIsPayload
  <2>4. answers' \subseteq AnswerRecord
    BY <1>3, <2>3 DEF AnswerPhone, Answer, Base, TypeOK, AnswerRecord
  <2>5. asked' = None /\ worker' = "none"
        /\ UNCHANGED <<helperVars, events, lost, appVars>>
    BY <1>3 DEF AnswerPhone
  <2>. QED  BY <2>4, <2>5 DEF Base, TypeOK, AnswerRecord, helperVars, appVars
<1>4. CASE HostStops
  BY <1>4 DEF HostStops, Base, TypeOK, phoneVars, appVars
<1>5. CASE Restart
  <2>1. <<>> \in Seq(Report) /\ <<>> \in Seq(Sound) /\ Len(<<>>) = 0
    BY EmptySeq
  <2>2. 1 \in Channels /\ restarts' \in 0..MaxRestarts /\ 0 <= MaxEvents
    <3>1. restarts \in 0..MaxRestarts /\ restarts < MaxRestarts /\ restarts' = restarts + 1
      BY <1>5 DEF Restart, Base, TypeOK
    <3>. QED  BY <3>1, SizeAssumption DEF Channels
  <2>3. asked = None
    BY <1>5 DEF Restart, Base
  <2>4. /\ helper' = "running" /\ next_channel' = 1 /\ assembly' = None
        /\ events' = <<>> /\ answers' = {} /\ chan' = [a \in Apps |-> None]
        /\ sending' = [a \in Apps |-> <<>>] /\ UNCHANGED <<phoneVars, lost, sent>>
    BY <1>5 DEF Restart
  <2>. QED  BY <2>1, <2>2, <2>3, <2>4 DEF Base, TypeOK, phoneVars
<1>6. CASE Worker
  BY <1>6 DEF Worker, RequestFails, RequestSent, DaemonAnswers, ReadTimesOut, Work,
              Base, TypeOK, helperVars, appVars
<1>7. CASE UNCHANGED vars
  BY <1>7 DEF vars, helperVars, phoneVars, appVars, Base, TypeOK
<1>. QED  BY <1>1, <1>2, <1>3, <1>4, <1>5, <1>6, <1>7 DEF Next

\* The types of the authenticator, for any programs, sizes of reports and queue: a
\* message under way is never complete, and a thread runs exactly while one is awaited.
THEOREM CtapHidTyped == Spec => []TypeOK
<1>1. Base => TypeOK
  BY DEF Base
<1>. QED  BY <1>1, BaseInit, BaseStep, PTL DEF Spec

-------------------------------------------------------------------------------
(***************************************************************************)
(* Whose packets are where.                                                *)
(***************************************************************************)

\* Sound reports that say whose they are name a program.
LEMMA OwnersExist ==
    ASSUME NEW r \in Sound
    PROVE  /\ r.channel \in Channels /\ r.channel # None
           /\ ~Empty(r) => r.data[1] \in Byte /\ r.data[1].app \in Apps /\ r.data[1].n \in Nat
<1>1. r.channel \in Channels
  BY DEF Sound, Report
<1>2. ~Empty(r) => r.data[1] \in Byte
  BY DEF Sound, IsPiece
<1>. QED  BY <1>1, <1>2, NoneApart DEF Byte

\* Nobody has written anything at first.
LEMMA OwnedInit == Init => Owned
<1>1. Len(<<>>) = 0
  BY EmptySeq
<1>. QED  BY <1>1 DEF Init, Owned, EventsOwned, SendingOwned, SendingOrdered

\* Reading a report takes it out of the queue.
LEMMA OwnedRead == Base /\ Owned /\ (ReadFirst \/ ReadContinuation) => Owned'
<1>. SUFFICES ASSUME Base, Owned, NEW r, Reads(r)
              PROVE  Owned'
  BY DEF ReadFirst, ReadContinuation
<1>1. UNCHANGED <<chan, sending, sent>>
  BY DEF Reads, appVars
<1>2. \A i \in 1..Len(events') : i + 1 \in 1..Len(events) /\ events'[i] = events[i + 1]
  BY ReadTyped
<1>3. EventsOwned'
  BY <1>1, <1>2 DEF Owned, EventsOwned, OwnChannel
<1>4. SendingOwned' /\ SendingOrdered'
  BY <1>1 DEF Owned, SendingOwned, SendingOrdered, OwnChannel
<1>. QED  BY <1>3, <1>4 DEF Owned

\* A message begun is its program's latest, and goes to its channel.
LEMMA OwnedBegin ==
    ASSUME Base, Owned, NEW a \in Apps, AppInits(a) \/ AppSends(a)
    PROVE  Owned'
<1>1. PICK channel \in Channels, command \in Commands \cup {"init"}, length \in Nat :
             /\ command = "init" => length <= 1
             /\ command # "init" => length > 0
             /\ channel = chan[a] \/ (command = "init" /\ channel = Broadcast)
             /\ Begin(a, channel, command, length)
  BY Begins
<1>2. PICK f : f = Frame(channel, command, Message(a, sent[a] + 1, length))
  OBVIOUS
<1>3. /\ sending'[a] = f /\ sent' = [sent EXCEPT ![a] = sent[a] + 1] /\ sent[a] + 1 \in Nat
      /\ \A b \in Apps \ {a} : sending'[b] = sending[b]
  BY <1>1, <1>2, BeginFrames
<1>4. UNCHANGED <<events, chan>> /\ sent \in [Apps -> Nat] /\ events \in Seq(Sound)
  BY <1>1 DEF Begin, Base, TypeOK
<1>5. /\ f \in Seq(Sound) /\ f # <<>>
      /\ f[1].first /\ f[1].command = command
      /\ \A k \in 1..Len(f) :
           /\ f[k].channel = channel
           /\ Empty(f[k]) \/ (f[k].data[1].app = a /\ f[k].data[1].n = sent[a] + 1)
      /\ \A k \in 2..Len(f) : ~f[k].first /\ Precedes(f[k - 1], f[k])
  <2>1. MessageFrame(f, channel, command, a, sent[a] + 1)
    BY <1>1, <1>2, <1>3, FrameOfMessage
  <2>. QED  BY <2>1 DEF MessageFrame
<1>6. Len(f) \in Nat /\ Len(f) > 0
  BY <1>5, EmptySeq
<1>7. ASSUME command = "init"
      PROVE  ~(Len(f) >= 2)
  <2>1. ASSUME Len(f) >= 2
        PROVE  FALSE
    <3>1. 2 \in 2..Len(f) /\ 2 - 1 = 1
      BY <1>6, <2>1
    <3>2. Part(f[1])
      BY <1>5, <3>1 DEF Precedes
    <3>3. f[1] \in Sound /\ f[1].length > First
      BY <1>5, <1>6, <3>2, ElementOfSeq DEF Part
    <3>. QED  BY <1>5, <1>7, <3>3, MultiTyped, NoneApart DEF Assembling
  <2>. QED  BY <2>1
<1>8. ASSUME NEW k \in 1..Len(f)
      PROVE  Empty(f[k]) \/ (/\ f[k].data[1].app = a /\ f[k].data[1].n = sent'[a]
                             /\ sent'[a] > 0 /\ OwnChannel(f[k])')
  <2>1. sent'[a] = sent[a] + 1 /\ sent'[a] > 0 /\ chan' = chan
    BY <1>3, <1>4
  <2>2. CASE channel = chan[a]
    <3>1. /\ f[k].channel = chan[a]
          /\ Empty(f[k]) \/ (f[k].data[1].app = a /\ f[k].data[1].n = sent[a] + 1)
      BY <1>5, <2>2
    <3>2. f[k].data[1].app = a => OwnChannel(f[k])'
      BY <2>1, <3>1 DEF OwnChannel
    <3>. QED  BY <2>1, <3>1, <3>2
  <2>3. CASE command = "init" /\ channel = Broadcast
    <3>1. k = 1
      BY <1>6, <1>7, <2>3
    <3>. QED  BY <1>5, <2>1, <2>3, <3>1 DEF OwnChannel
  <2>. QED  BY <1>1, <2>2, <2>3
<1>9. SendingOwned'
  <2>1. \A b \in Apps \ {a} : sending'[b] = sending[b] /\ sent'[b] = sent[b] /\ chan' = chan
    BY <1>3, <1>4
  <2>. QED  BY <1>3, <1>8, <2>1 DEF Owned, SendingOwned, OwnChannel
<1>10. SendingOrdered'
  BY <1>3, <1>5 DEF Owned, SendingOrdered
<1>11. EventsOwned'
  <2>1. \A b \in Apps : sent[b] \in Nat /\ sent'[b] \in Nat /\ sent[b] <= sent'[b]
    BY <1>3, <1>4
  <2>2. \A i \in 1..Len(events) : ~Empty(events[i]) => events[i].data[1].app \in Apps
    BY <1>4, ElementOfSeq, OwnersExist
  <2>. QED  BY <1>4, <2>1, <2>2 DEF Owned, EventsOwned, OwnChannel
<1>. QED  BY <1>9, <1>10, <1>11 DEF Owned

\* What a program writes is at the end of the queue, or lost.
Moves(a) ==
    /\ sending[a] # <<>> /\ sending[a][1] \in Sound
    /\ Len(events) \in Nat /\ Len(sending[a]) \in Nat /\ Len(sending[a]) > 0
    /\ \A b \in Apps \ {a} : sending'[b] = sending[b]
    /\ Len(sending'[a]) = Len(sending[a]) - 1
    /\ \A k \in 1..Len(sending'[a]) :
         k + 1 \in 2..Len(sending[a]) /\ sending'[a][k] = sending[a][k + 1]
    /\ UNCHANGED <<helper, restarts, next_channel, assembly, asked, worker, chan, sent, answers>>
    /\ \/ /\ lost' = lost /\ Len(events') = Len(events) + 1
          /\ events'[Len(events) + 1] = sending[a][1]
          /\ \A i \in 1..Len(events) : events'[i] = events[i]
       \/ lost' = TRUE /\ events' = events

\* So it is, since the kernel appends.
LEMMA Writes ==
    ASSUME Base, NEW a \in Apps, AppWrites(a)
    PROVE  Moves(a)
<1>1. /\ sending \in [Apps -> Seq(Sound)] /\ events \in Seq(Sound) /\ sending[a] # <<>>
      /\ sending' = [sending EXCEPT ![a] = Tail(sending[a])]
  BY DEF AppWrites, Base, TypeOK
<1>2. sending'[a] = Tail(sending[a])
  BY <1>1
<1>3. /\ Head(sending[a]) \in Sound /\ Head(sending[a]) = sending[a][1]
      /\ Len(sending[a]) \in Nat /\ Len(sending[a]) > 0
      /\ Len(sending'[a]) = Len(sending[a]) - 1
      /\ \A k \in 1..Len(sending'[a]) :
           k + 1 \in 2..Len(sending[a]) /\ sending'[a][k] = sending[a][k + 1]
  BY <1>1, <1>2, HeadAndTail
<1>4. Len(events) \in Nat
  BY <1>1, LenProperties
<1>5. \/ events' = Append(events, Head(sending[a])) /\ lost' = lost
      \/ events' = events /\ lost' = TRUE
  BY DEF AppWrites
<1>6. ASSUME events' = Append(events, Head(sending[a]))
      PROVE  /\ Len(events') = Len(events) + 1
             /\ events'[Len(events) + 1] = sending[a][1]
             /\ \A i \in 1..Len(events) : events'[i] = events[i]
  BY <1>1, <1>3, <1>6, AppendProperties
<1>7. UNCHANGED <<helper, restarts, next_channel, assembly, asked, worker, chan, sent, answers>>
  BY DEF AppWrites, helperVars, phoneVars
<1>8. \A b \in Apps \ {a} : sending'[b] = sending[b]
  BY <1>1
<1>. QED  BY <1>1, <1>2, <1>3, <1>4, <1>5, <1>6, <1>7, <1>8 DEF Moves

\* What is written stays its program's.
LEMMA OwnedWrite ==
    ASSUME Base, Owned, NEW a \in Apps, AppWrites(a)
    PROVE  Owned'
<1>0. Moves(a)
  BY Writes
<1>1. UNCHANGED <<chan, sent>>
  BY <1>0 DEF Moves
<1>2. SendingOwned' /\ SendingOrdered'
  <2>1. \A b \in Apps \ {a} : sending'[b] = sending[b]
    BY <1>0 DEF Moves
  <2>2. \A k \in 1..Len(sending'[a]) :
          k + 1 \in 1..Len(sending[a]) /\ sending'[a][k] = sending[a][k + 1]
    BY <1>0 DEF Moves
  <2>3. ASSUME NEW k \in 2..Len(sending'[a])
        PROVE  ~sending'[a][k].first /\ Precedes(sending'[a][k - 1], sending'[a][k])
    <3>1. /\ k \in 1..Len(sending'[a]) /\ k - 1 \in 1..Len(sending'[a])
          /\ (k - 1) + 1 = k /\ (k + 1) - 1 = k
          /\ k + 1 \in 2..Len(sending[a])
      BY <1>0 DEF Moves
    <3>2. sending'[a][k] = sending[a][k + 1] /\ sending'[a][k - 1] = sending[a][k]
      BY <2>2, <3>1
    <3>. QED  BY <3>1, <3>2 DEF Owned, SendingOrdered
  <2>4. SendingOrdered'
    BY <2>1, <2>3 DEF Owned, SendingOrdered
  <2>5. SendingOwned'
    <3>1. ASSUME NEW k \in 1..Len(sending'[a])
          PROVE  \/ Empty(sending'[a][k])
                 \/ /\ sending'[a][k].data[1].app = a /\ sending'[a][k].data[1].n = sent[a]
                    /\ sent[a] > 0 /\ OwnChannel(sending'[a][k])
      <4>1. k + 1 \in 1..Len(sending[a]) /\ sending'[a][k] = sending[a][k + 1]
        BY <2>2
      <4>2. \/ Empty(sending[a][k + 1])
            \/ /\ sending[a][k + 1].data[1].app = a /\ sending[a][k + 1].data[1].n = sent[a]
               /\ sent[a] > 0 /\ OwnChannel(sending[a][k + 1])
        BY <4>1 DEF Owned, SendingOwned
      <4>. QED  BY <4>1, <4>2
    <3>. QED  BY <1>1, <2>1, <3>1 DEF Owned, SendingOwned, OwnChannel
  <2>. QED  BY <2>4, <2>5
<1>3. EventsOwned'
  <2>1. sent[a] \in Nat /\ Len(events) \in Nat
    BY <1>0 DEF Moves, Base, TypeOK
  <2>2. CASE events' = events
    BY <1>1, <2>2 DEF Owned, EventsOwned, OwnChannel
  <2>3. CASE /\ Len(events') = Len(events) + 1
             /\ events'[Len(events) + 1] = sending[a][1]
             /\ \A i \in 1..Len(events) : events'[i] = events[i]
    <3>1. \A i \in 1..Len(events') : i = Len(events) + 1 \/ i \in 1..Len(events)
      BY <2>1, <2>3
    <3>2. 1 \in 1..Len(sending[a])
      BY <1>0 DEF Moves
    <3>3. LET r == sending[a][1] IN
            Empty(r) \/ (r.data[1].n \in 1..sent[r.data[1].app] /\ OwnChannel(r))
      BY <2>1, <3>2 DEF Owned, SendingOwned
    <3>. QED  BY <1>1, <2>3, <3>1, <3>3 DEF Owned, EventsOwned, OwnChannel
  <2>. QED  BY <2>2, <2>3, <1>0 DEF Moves
<1>. QED  BY <1>2, <1>3 DEF Owned

\* Whoever takes a channel had none, so nothing of its is under way but what asks for one.
LEMMA OwnedTake ==
    ASSUME Base, Owned, NEW a \in Apps, AppTakesChannel(a)
    PROVE  Owned'
<1>1. /\ UNCHANGED <<events, sending, sent>> /\ chan[a] = None
      /\ \A b \in Apps \ {a} : chan'[b] = chan[b]
  BY DEF AppTakesChannel, Base, TypeOK
<1>2. ASSUME NEW r \in Sound, ~Empty(r), OwnChannel(r)
      PROVE  OwnChannel(r)'
  <2>1. r.data[1].app \in Apps /\ r.channel # None
    BY <1>2, OwnersExist
  <2>. QED  BY <1>1, <1>2, <2>1 DEF OwnChannel
<1>3. EventsOwned'
  <2>1. \A i \in 1..Len(events) : events[i] \in Sound
    BY ElementOfSeq DEF Base
  <2>. QED  BY <1>1, <1>2, <2>1 DEF Owned, EventsOwned
<1>4. SendingOwned'
  <2>1. \A b \in Apps : \A k \in 1..Len(sending[b]) : sending[b][k] \in Sound
    BY ElementOfSeq DEF Base
  <2>. QED  BY <1>1, <1>2, <2>1 DEF Owned, SendingOwned
<1>5. SendingOrdered'
  BY <1>1 DEF Owned, SendingOrdered
<1>. QED  BY <1>3, <1>4, <1>5 DEF Owned

\* Every step leaves each packet with its owner.
LEMMA OwnedStep == Base /\ Owned /\ [Next]_vars => Owned'
<1>. SUFFICES ASSUME Base, Owned, [Next]_vars
              PROVE  Owned'
  OBVIOUS
<1>1. CASE \E a \in Apps : App(a)
  BY <1>1, OwnedBegin, OwnedWrite, OwnedTake DEF App
<1>2. CASE ReadFirst \/ ReadContinuation
  BY <1>2, OwnedRead
<1>3. CASE Restart
  <2>1. Len(<<>>) = 0
    BY EmptySeq
  <2>. QED  BY <1>3, <2>1 DEF Restart, Owned, EventsOwned, SendingOwned, SendingOrdered
<1>4. CASE AnswerPhone \/ HostStops \/ Worker \/ UNCHANGED vars
  <2>1. UNCHANGED <<events, chan, sending, sent>>
    BY <1>4 DEF AnswerPhone, HostStops, Worker, RequestFails, RequestSent, DaemonAnswers,
                ReadTimesOut, Work, appVars, vars
  <2>. QED  BY <2>1 DEF Owned, EventsOwned, SendingOwned, SendingOrdered, OwnChannel
<1>. QED  BY <1>1, <1>2, <1>3, <1>4 DEF Next

-------------------------------------------------------------------------------
(***************************************************************************)
(* Channels.                                                               *)
(***************************************************************************)

\* Handing out a channel: who asked, on the shared one, is told the next number.
Assigns(b) ==
    /\ next_channel' = NextChannel(Broadcast)
    /\ \E x : /\ x.of[1] = b /\ x.assigned = next_channel'
              /\ Assignments' = Assignments \cup {x}

\* Only an INIT on the shared channel has one handed out.
LEMMA DispatchAssigns ==
    ASSUME NEW channel, NEW command, NEW payload,
           Dispatch(channel, command, payload)
    PROVE  \/ next_channel' = next_channel /\ Assignments' = Assignments
           \/ /\ command = "init" /\ payload # <<>> /\ channel = Broadcast
              /\ Assigns(payload[1])
<1>1. CASE command = "init" /\ payload # <<>>
  <2>1. next_channel' = NextChannel(channel)
        /\ Answer(channel, "init", payload, <<>>,
                  IF channel = Broadcast THEN next_channel' ELSE channel)
    BY <1>1 DEF Dispatch
  <2>2. CASE channel = Broadcast
    <3>. DEFINE x == [channel |-> channel, command |-> "init", of |-> payload,
                      packets |-> Frame(channel, "init", <<>>), assigned |-> next_channel']
    <3>1. answers' = answers \cup {x}
      BY <2>1, <2>2 DEF Answer
    <3>2. /\ x.command = "init" /\ x.channel = Broadcast
          /\ x.of = payload /\ x.assigned = next_channel'
      BY <2>2
    <3>. HIDE DEF x
    <3>3. Assignments' = Assignments \cup {x}
      BY <3>1, <3>2 DEF Assignments
    <3>. QED  BY <1>1, <2>1, <2>2, <3>2, <3>3 DEF Assigns
  <2>3. CASE channel # Broadcast
    <3>. DEFINE x == [channel |-> channel, command |-> "init", of |-> payload,
                      packets |-> Frame(channel, "init", <<>>), assigned |-> channel]
    <3>1. answers' = answers \cup {x}
      BY <2>1, <2>3 DEF Answer
    <3>2. x.channel # Broadcast
      BY <2>3
    <3>. HIDE DEF x
    <3>3. Assignments' = Assignments
      BY <3>1, <3>2 DEF Assignments
    <3>. QED  BY <2>1, <2>3, <3>3 DEF NextChannel
  <2>. QED  BY <2>2, <2>3
<1>2. CASE command \in {"ping", "info", "cancel"}
  <2>. DEFINE x == [channel |-> channel, command |-> command, of |-> payload,
                    packets |-> Frame(channel, command,
                                      IF command = "ping" THEN payload ELSE <<>>),
                    assigned |-> None]
  <2>1. answers' = answers \cup {x} /\ next_channel' = next_channel
    BY <1>2 DEF Dispatch, Answer
  <2>2. x.command # "init"
    BY <1>2
  <2>. HIDE DEF x
  <2>3. Assignments' = Assignments
    BY <2>1, <2>2 DEF Assignments
  <2>. QED  BY <2>1, <2>3
<1>3. CASE command \in {"makecred", "assert"} \/ (command = "init" /\ payload = <<>>)
  <2>1. answers' = answers /\ next_channel' = next_channel
    BY <1>3 DEF Dispatch
  <2>. QED  BY <2>1 DEF Assignments
<1>. QED  BY <1>1, <1>2, <1>3 DEF Dispatch

\* What a report that is read does to the channels: nothing, or it asks for one.
LEMMA ReadAssigns ==
    ASSUME Base, ReadFirst \/ ReadContinuation
    PROVE  /\ Reads(events[1])
           /\ \/ next_channel' = next_channel /\ Assignments' = Assignments
              \/ Asks(events[1]) /\ Assigns(events[1].data[1])
<1>. PICK r : /\ Reads(r)
              /\ \/ /\ r.first
                    /\ \/ UNCHANGED <<next_channel, answers>>
                       \/ /\ r.length <= First
                          /\ Dispatch(r.channel, r.command, SubSeq(r.data, 1, r.length))
                 \/ /\ ~r.first
                    /\ \/ UNCHANGED <<next_channel, answers>>
                       \/ /\ Continues(r)
                          /\ Dispatch(assembly.channel, assembly.command, Extended(r))
  BY DEF ReadFirst, ReadContinuation
<1>1. r = events[1] /\ r \in Sound
  BY ReadTyped
<1>2. CASE UNCHANGED <<next_channel, answers>>
  BY <1>1, <1>2 DEF Assignments
<1>3. CASE /\ r.first /\ r.length <= First
           /\ Dispatch(r.channel, r.command, SubSeq(r.data, 1, r.length))
  <2>. DEFINE payload == SubSeq(r.data, 1, r.length)
  <2>1. /\ payload \in Payload /\ Len(payload) = r.length /\ r.length \in Nat
        /\ \A i \in 1..r.length : payload[i] = r.data[i]
    BY <1>1, <1>3, SingleTyped
  <2>. HIDE DEF payload
  <2>2. payload # <<>> => r.length # 0 /\ 1 \in 1..r.length
    <3>1. payload # <<>> => Len(payload) \in Nat \ {0}
      BY <2>1, EmptySeq DEF Payload
    <3>. QED  BY <2>1, <3>1
  <2>3. payload # <<>> => Asks(r) /\ payload[1] = r.data[1]
    BY <1>3, <2>1, <2>2 DEF Asks, Empty
  <2>4. Dispatch(r.channel, r.command, payload)
    BY <1>3 DEF payload
  <2>5. \/ next_channel' = next_channel /\ Assignments' = Assignments
        \/ payload # <<>> /\ Assigns(payload[1])
    BY <2>4, DispatchAssigns
  <2>. QED  BY <1>1, <2>3, <2>5
<1>4. CASE Continues(r) /\ Dispatch(assembly.channel, assembly.command, Extended(r))
  <2>1. assembly.command # "init"
    BY <1>4, NoneApart DEF Continues, Base, TypeOK, Assembling
  <2>. QED  BY <1>1, <1>4, <2>1, DispatchAssigns
<1>. QED  BY <1>2, <1>3, <1>4

\* The number of a channel handed out is that of one more request.
LEMMA CountAssigned ==
    ASSUME Base, Owned, Numbered, ChannelsSuffice, NEW b \in Byte, Assigns(b),
           Ticket(b) \notin Used, b.n \in 1..sent[b.app], sent' = sent
    PROVE  /\ Numbered' /\ Used' = Used \cup {Ticket(b)}
           /\ Assignments \subseteq Assignments'
<1>1. PICK x : x.of[1] = b /\ x.assigned = next_channel' /\ Assignments' = Assignments \cup {x}
  BY DEF Assigns
<1>2. Used' = Used \cup {Ticket(b)}
  BY <1>1 DEF Used
<1>3. Used' \subseteq Tickets
  <2>1. ASSUME NEW c \in Byte, c.n \in 1..sent[c.app]
        PROVE  Ticket(c) \in Tickets
    <3>1. c.app \in Apps
      BY DEF Byte
    <3>2. sent[c.app] \in Nat /\ sent[c.app] <= MaxMessages[c.app] /\ MaxMessages[c.app] \in Nat
      BY <3>1, SizeAssumption DEF Base, TypeOK
    <3>3. c.n \in 1..MaxMessages[c.app]
      BY <2>1, <3>2
    <3>. QED  BY <3>1, <3>3 DEF Ticket, Tickets
  <2>. QED  BY <1>2, <2>1 DEF Used, Numbered
<1>4. IsFiniteSet(Used) /\ Cardinality(Used) \in Nat
      /\ Cardinality(Used') = Cardinality(Used) + 1
      /\ Cardinality(Used') <= Cardinality(Tickets) /\ Cardinality(Tickets) \in Nat
  <2>1. IsFiniteSet(Tickets) /\ Cardinality(Tickets) \in Nat
    BY FS_CardinalityType DEF ChannelsSuffice
  <2>2. IsFiniteSet(Used') /\ Cardinality(Used') <= Cardinality(Tickets)
    BY <1>3, <2>1, FS_Subset
  <2>3. IsFiniteSet(Used)
    BY <1>2, <2>2, FS_Subset
  <2>4. Cardinality(Used') = Cardinality(Used) + 1
    BY <1>2, <2>3, FS_AddElement
  <2>. QED  BY <2>1, <2>2, <2>3, <2>4, FS_CardinalityType
<1>5. next_channel' = next_channel + 1
  <2>1. next_channel \in Nat /\ next_channel + 1 < MaxChannel + 1 /\ MaxChannel \in Nat
    BY <1>4, SizeAssumption DEF Numbered, ChannelsSuffice
  <2>2. (next_channel + 1) % (MaxChannel + 1) = next_channel + 1
    BY <2>1
  <2>. QED  BY <2>2 DEF Assigns, NextChannel
<1>6. Numbered'
  <2>1. next_channel' \in 1..(1 + Cardinality(Used'))
    BY <1>4, <1>5 DEF Numbered
  <2>2. \A y \in Assignments : y.assigned \in 2..next_channel /\ y.assigned # next_channel'
        /\ y.assigned \in 2..next_channel'
    BY <1>4, <1>5 DEF Numbered
  <2>3. x.assigned \in 2..next_channel'
    BY <1>1, <1>4, <1>5 DEF Numbered
  <2>4. \A y \in Assignments' : /\ y.of[1] \in Byte /\ y.of[1].n \in 1..sent'[y.of[1].app]
                               /\ y.assigned \in 2..next_channel'
    BY <1>1, <2>2, <2>3 DEF Numbered
  <2>5. \A y, z \in Assignments' : y.assigned = z.assigned => y = z
    BY <1>1, <2>2 DEF Numbered
  <2>. QED  BY <2>1, <2>4, <2>5 DEF Numbered
<1>. QED  BY <1>1, <1>2, <1>6

Channelled == Numbered /\ Fresh /\ Taken

\* Without a new channel the numbers stand.
LEMMA NumbersStand ==
    ASSUME Base, Numbered, Assignments' = Assignments, next_channel' = next_channel,
           sent' \in [Apps -> Nat], \A a \in Apps : sent[a] <= sent'[a]
    PROVE  Numbered' /\ Used' = Used
<1>1. Used' = Used
  BY DEF Used
<1>2. ASSUME NEW x \in Assignments
      PROVE  x.of[1].n \in 1..sent'[x.of[1].app]
  <2>1. x.of[1].app \in Apps /\ x.of[1].n \in 1..sent[x.of[1].app]
    BY DEF Numbered, Byte
  <2>2. sent[x.of[1].app] \in Nat
    BY <2>1 DEF Base, TypeOK
  <2>. QED  BY <2>1, <2>2
<1>. QED  BY <1>1, <1>2 DEF Numbered

\* Nothing is handed out at first.
LEMMA ChannelledInit == Init => Channelled
<1>. SUFFICES ASSUME Init
              PROVE  Channelled
  OBVIOUS
<1>1. Assignments = {} /\ Used = {} /\ Cardinality({}) = 0
  BY FS_EmptySet DEF Init, Assignments, Used
<1>2. Len(<<>>) = 0
  BY EmptySeq
<1>3. Numbered
  BY <1>1 DEF Init, Numbered
<1>. QED  BY <1>1, <1>2, <1>3 DEF Init, Channelled, Fresh, Taken

\* A report that is read has been waiting, so its message has no channel yet.
LEMMA ChannelledRead ==
    Base /\ Owned /\ Channelled /\ ChannelsSuffice /\ (ReadFirst \/ ReadContinuation)
      => Channelled'
<1>. SUFFICES ASSUME Base, Owned, Channelled, ChannelsSuffice, ReadFirst \/ ReadContinuation
              PROVE  Channelled'
  OBVIOUS
<1>. DEFINE r == events[1]
<1>1. Reads(r)
  BY ReadAssigns
<1>2. UNCHANGED <<chan, sending, sent>> /\ sent \in [Apps -> Nat]
  BY <1>1 DEF Reads, appVars, Base, TypeOK
<1>3. /\ Len(events) \in Nat /\ Len(events) > 0 /\ r \in Sound
      /\ \A i \in 1..Len(events') :
           i + 1 \in 1..Len(events) /\ i + 1 > 1 /\ events'[i] = events[i + 1]
  BY <1>1, ReadTyped
<1>4. CASE next_channel' = next_channel /\ Assignments' = Assignments
  <2>1. Numbered' /\ Used' = Used
    BY <1>2, <1>4, NumbersStand DEF Base, TypeOK, Channelled
  <2>2. Taken'
    BY <1>2, <1>4 DEF Channelled, Taken
  <2>3. ASSUME NEW i \in 1..Len(events'), Asks(events'[i])
        PROVE  /\ Ticket(events'[i].data[1]) \notin Used'
               /\ \A j \in 1..Len(events') : Asks(events'[j]) /\ j # i =>
                    Ticket(events'[j].data[1]) # Ticket(events'[i].data[1])
    <3>1. i + 1 \in 1..Len(events) /\ events'[i] = events[i + 1]
      BY <1>3
    <3>2. /\ Ticket(events[i + 1].data[1]) \notin Used
          /\ \A j \in 1..Len(events) : Asks(events[j]) /\ j # i + 1 =>
               Ticket(events[j].data[1]) # Ticket(events[i + 1].data[1])
      BY <2>3, <3>1 DEF Channelled, Fresh
    <3>3. \A j \in 1..Len(events') : j # i =>
            j + 1 \in 1..Len(events) /\ j + 1 # i + 1 /\ events'[j] = events[j + 1]
      BY <1>3
    <3>. QED  BY <2>1, <3>1, <3>2, <3>3
  <2>4. ASSUME NEW a \in Apps, sending'[a] # <<>>, Asks(sending'[a][1])
        PROVE  /\ <<a, sent'[a]>> \notin Used'
               /\ \A i \in 1..Len(events') :
                    Asks(events'[i]) => Ticket(events'[i].data[1]) # <<a, sent'[a]>>
    <3>1. /\ <<a, sent[a]>> \notin Used
          /\ \A i \in 1..Len(events) :
               Asks(events[i]) => Ticket(events[i].data[1]) # <<a, sent[a]>>
      BY <1>2, <2>4 DEF Channelled, Fresh
    <3>. QED  BY <1>2, <1>3, <2>1, <3>1
  <2>5. Fresh'
    BY <2>3, <2>4 DEF Fresh
  <2>. QED  BY <2>1, <2>2, <2>5 DEF Channelled
<1>5. CASE Asks(r) /\ Assigns(r.data[1])
  <2>. DEFINE b == r.data[1]
  <2>1. b \in Byte /\ 1 \in 1..Len(events) /\ ~Empty(r)
    BY <1>3, <1>5, OwnersExist DEF Asks
  <2>2. b.n \in 1..sent[b.app]
    BY <2>1 DEF Owned, EventsOwned
  <2>3. Ticket(b) \notin Used
    BY <1>5, <2>1 DEF Channelled, Fresh
  <2>4. Numbered' /\ Used' = Used \cup {Ticket(b)} /\ Assignments \subseteq Assignments'
    BY <1>2, <1>5, <2>1, <2>2, <2>3, CountAssigned DEF Channelled
  <2>5. Taken'
    BY <1>2, <2>4 DEF Channelled, Taken
  <2>6. ASSUME NEW i \in 1..Len(events'), Asks(events'[i])
        PROVE  /\ Ticket(events'[i].data[1]) \notin Used'
               /\ \A j \in 1..Len(events') : Asks(events'[j]) /\ j # i =>
                    Ticket(events'[j].data[1]) # Ticket(events'[i].data[1])
    <3>1. i + 1 \in 1..Len(events) /\ i + 1 # 1 /\ events'[i] = events[i + 1]
      BY <1>3
    <3>2. /\ Ticket(events[i + 1].data[1]) \notin Used
          /\ \A j \in 1..Len(events) : Asks(events[j]) /\ j # i + 1 =>
               Ticket(events[j].data[1]) # Ticket(events[i + 1].data[1])
      BY <2>6, <3>1 DEF Channelled, Fresh
    <3>3. Ticket(events[i + 1].data[1]) # Ticket(b)
      BY <1>5, <2>1, <3>1, <3>2
    <3>4. \A j \in 1..Len(events') : j # i =>
            j + 1 \in 1..Len(events) /\ j + 1 # i + 1 /\ events'[j] = events[j + 1]
      BY <1>3
    <3>. QED  BY <2>4, <3>1, <3>2, <3>3, <3>4
  <2>7. ASSUME NEW a \in Apps, sending'[a] # <<>>, Asks(sending'[a][1])
        PROVE  /\ <<a, sent'[a]>> \notin Used'
               /\ \A i \in 1..Len(events') :
                    Asks(events'[i]) => Ticket(events'[i].data[1]) # <<a, sent'[a]>>
    <3>1. /\ <<a, sent[a]>> \notin Used
          /\ \A i \in 1..Len(events) :
               Asks(events[i]) => Ticket(events[i].data[1]) # <<a, sent[a]>>
      BY <1>2, <2>7 DEF Channelled, Fresh
    <3>2. Ticket(b) # <<a, sent[a]>>
      BY <1>5, <2>1, <3>1
    <3>. QED  BY <1>2, <1>3, <2>4, <3>1, <3>2
  <2>8. Fresh'
    BY <2>6, <2>7 DEF Fresh
  <2>. QED  BY <2>4, <2>5, <2>8 DEF Channelled
<1>. QED  BY <1>4, <1>5, ReadAssigns

\* A message begun has a number no message had.
LEMMA ChannelledBegin ==
    ASSUME Base, Owned, Channelled, NEW a \in Apps, AppInits(a) \/ AppSends(a)
    PROVE  Channelled'
<1>1. PICK channel \in Channels, command \in Commands \cup {"init"}, length \in Nat :
             /\ command = "init" => length <= 1
             /\ command # "init" => length > 0
             /\ Begin(a, channel, command, length)
  BY Begins
<1>2. /\ sent' = [sent EXCEPT ![a] = sent[a] + 1] /\ sent \in [Apps -> Nat]
      /\ \A b \in Apps \ {a} : sending'[b] = sending[b]
  BY <1>1, BeginFrames DEF Base, TypeOK
<1>3. UNCHANGED <<events, chan, next_channel, answers>>
  BY <1>1 DEF Begin, helperVars
<1>4. Assignments' = Assignments
  BY <1>3 DEF Assignments
<1>5. /\ sent'[a] = sent[a] + 1 /\ sent' \in [Apps -> Nat]
      /\ \A b \in Apps : sent[b] <= sent'[b]
      /\ \A b \in Apps \ {a} : sent'[b] = sent[b]
  BY <1>2
<1>6. Numbered' /\ Used' = Used
  BY <1>3, <1>4, <1>5, NumbersStand DEF Channelled
<1>7. Taken'
  BY <1>3, <1>4 DEF Channelled, Taken
<1>8. <<a, sent'[a]>> \notin Used
  <2>1. ASSUME NEW x \in Assignments, Ticket(x.of[1]) = <<a, sent[a] + 1>>
        PROVE  FALSE
    <3>1. x.of[1].app = a /\ x.of[1].n = sent[a] + 1
      BY <2>1 DEF Ticket
    <3>2. x.of[1].n \in 1..sent[a] /\ sent[a] \in Nat
      BY <1>2, <3>1 DEF Channelled, Numbered
    <3>. QED  BY <3>1, <3>2
  <2>. QED  BY <1>5, <2>1 DEF Used
<1>9. ASSUME NEW i \in 1..Len(events), Asks(events[i])
      PROVE  Ticket(events[i].data[1]) # <<a, sent'[a]>>
  <2>. SUFFICES ASSUME Ticket(events[i].data[1]) = <<a, sent[a] + 1>>
                PROVE  FALSE
    BY <1>5
  <2>1. events[i].data[1].app = a /\ events[i].data[1].n = sent[a] + 1
    BY DEF Ticket
  <2>2. events[i].data[1].n \in 1..sent[a] /\ sent[a] \in Nat
    BY <1>2, <1>9, <2>1 DEF Owned, EventsOwned, Asks
  <2>. QED  BY <2>1, <2>2
<1>10. Fresh'
  BY <1>2, <1>3, <1>5, <1>6, <1>8, <1>9 DEF Channelled, Fresh
<1>. QED  BY <1>6, <1>7, <1>10 DEF Channelled

\* A first packet that is written leaves none of its message behind.
LEMMA ChannelledWrite ==
    ASSUME Base, Owned, Channelled, NEW a \in Apps, AppWrites(a)
    PROVE  Channelled'
<1>1. Moves(a)
  BY Writes
<1>2. UNCHANGED <<chan, sent, next_channel, answers>> /\ sent \in [Apps -> Nat]
  BY <1>1 DEF Moves, Base, TypeOK
<1>3. Assignments' = Assignments
  BY <1>2 DEF Assignments
<1>4. Numbered' /\ Used' = Used
  BY <1>2, <1>3, NumbersStand DEF Channelled
<1>5. Taken'
  BY <1>2, <1>3 DEF Channelled, Taken
<1>6. sending'[a] # <<>> => ~Asks(sending'[a][1])
  <2>1. ASSUME sending'[a] # <<>>
        PROVE  ~sending'[a][1].first
    <3>1. sending \in [Apps -> Seq(Sound)] /\ sending'[a] = Tail(sending[a])
      BY DEF Base, AppWrites
    <3>2. Len(sending'[a]) \in Nat \ {0}
      <4>1. sending'[a] \in Seq(Sound)
        BY <1>1, <3>1, HeadAndTail DEF Moves
      <4>. QED  BY <2>1, <4>1, EmptySeq
    <3>3. 1 \in 1..Len(sending'[a]) /\ 1 + 1 = 2
      BY <3>2
    <3>4. 2 \in 2..Len(sending[a]) /\ sending'[a][1] = sending[a][2]
      BY <1>1, <3>3 DEF Moves
    <3>. QED  BY <3>4 DEF Owned, SendingOrdered
  <2>. QED  BY <2>1 DEF Asks
<1>7. ASSUME Asks(sending[a][1])
      PROVE  /\ Ticket(sending[a][1].data[1]) = <<a, sent[a]>>
             /\ <<a, sent[a]>> \notin Used
             /\ \A i \in 1..Len(events) :
                  Asks(events[i]) => Ticket(events[i].data[1]) # <<a, sent[a]>>
  <2>1. 1 \in 1..Len(sending[a])
    BY <1>1 DEF Moves
  <2>2. sending[a][1].data[1].app = a /\ sending[a][1].data[1].n = sent[a]
    BY <1>7, <2>1 DEF Owned, SendingOwned, Asks
  <2>. QED  BY <1>1, <1>7, <2>2 DEF Moves, Ticket, Channelled, Fresh
<1>8. ASSUME NEW i \in 1..Len(events'), i \notin 1..Len(events), Asks(events'[i])
      PROVE  events'[i] = sending[a][1] /\ i = Len(events) + 1 /\ Asks(sending[a][1])
  BY <1>1, <1>8 DEF Moves
<1>9. \A i \in 1..Len(events) : events'[i] = events[i]
  BY <1>1 DEF Moves
<1>10. ASSUME NEW i \in 1..Len(events'), Asks(events'[i])
       PROVE  /\ Ticket(events'[i].data[1]) \notin Used
              /\ \A j \in 1..Len(events') : Asks(events'[j]) /\ j # i =>
                   Ticket(events'[j].data[1]) # Ticket(events'[i].data[1])
  <2>1. CASE i \in 1..Len(events)
    <3>1. /\ Ticket(events[i].data[1]) \notin Used /\ events'[i] = events[i]
          /\ \A j \in 1..Len(events) : Asks(events[j]) /\ j # i =>
               Ticket(events[j].data[1]) # Ticket(events[i].data[1])
      BY <1>9, <1>10, <2>1 DEF Channelled, Fresh
    <3>2. ASSUME NEW j \in 1..Len(events'), Asks(events'[j]), j # i
          PROVE  Ticket(events'[j].data[1]) # Ticket(events'[i].data[1])
      <4>1. CASE j \in 1..Len(events)
        BY <1>9, <3>1, <3>2, <4>1
      <4>2. CASE j \notin 1..Len(events)
        BY <1>7, <1>8, <1>10, <2>1, <3>1, <3>2, <4>2
      <4>. QED  BY <4>1, <4>2
    <3>. QED  BY <3>1, <3>2
  <2>2. CASE i \notin 1..Len(events)
    <3>1. events'[i] = sending[a][1] /\ i = Len(events) + 1 /\ Asks(sending[a][1])
      BY <1>8, <1>10, <2>2
    <3>2. ASSUME NEW j \in 1..Len(events'), Asks(events'[j]), j # i
          PROVE  Ticket(events'[j].data[1]) # Ticket(events'[i].data[1])
      <4>1. j \in 1..Len(events)
        BY <1>8, <3>1, <3>2
      <4>. QED  BY <1>7, <1>9, <3>1, <3>2, <4>1
    <3>. QED  BY <1>7, <3>1, <3>2
  <2>. QED  BY <2>1, <2>2
<1>11. ASSUME NEW b \in Apps, sending'[b] # <<>>, Asks(sending'[b][1])
       PROVE  /\ <<b, sent[b]>> \notin Used
              /\ \A i \in 1..Len(events') :
                   Asks(events'[i]) => Ticket(events'[i].data[1]) # <<b, sent[b]>>
  <2>1. b # a /\ sending'[b] = sending[b]
    BY <1>1, <1>6, <1>11 DEF Moves
  <2>2. /\ <<b, sent[b]>> \notin Used
        /\ \A i \in 1..Len(events) :
             Asks(events[i]) => Ticket(events[i].data[1]) # <<b, sent[b]>>
    BY <1>11, <2>1 DEF Channelled, Fresh
  <2>3. ASSUME NEW i \in 1..Len(events'), Asks(events'[i])
        PROVE  Ticket(events'[i].data[1]) # <<b, sent[b]>>
    <3>1. CASE i \in 1..Len(events)
      BY <1>9, <2>2, <2>3, <3>1
    <3>2. CASE i \notin 1..Len(events)
      <4>1. Ticket(events'[i].data[1]) = <<a, sent[a]>>
        BY <1>7, <1>8, <2>3, <3>2
      <4>. QED  BY <2>1, <4>1
    <3>. QED  BY <3>1, <3>2
  <2>. QED  BY <2>2, <2>3
<1>12. Fresh'
  BY <1>2, <1>4, <1>10, <1>11 DEF Fresh
<1>. QED  BY <1>4, <1>5, <1>12 DEF Channelled

\* Every step keeps the channels apart, unless they run out.
LEMMA ChannelledStep == Base /\ Owned /\ Channelled /\ ChannelsSuffice /\ [Next]_vars => Channelled'
<1>. SUFFICES ASSUME Base, Owned, Channelled, ChannelsSuffice, [Next]_vars
              PROVE  Channelled'
  OBVIOUS
<1>1. ASSUME NEW a \in Apps, AppTakesChannel(a)
      PROVE  Channelled'
  <2>1. PICK x \in answers : /\ x.command = "init" /\ x.channel = Broadcast /\ x.of[1].app = a
                             /\ chan' = [chan EXCEPT ![a] = x.assigned]
    BY <1>1 DEF AppTakesChannel
  <2>2. x \in Assignments
    BY <2>1 DEF Assignments
  <2>3. UNCHANGED <<events, sending, sent, answers, next_channel>> /\ sent \in [Apps -> Nat]
        /\ chan \in [Apps -> Channels \cup {None}]
    BY <1>1 DEF AppTakesChannel, helperVars, Base, TypeOK
  <2>4. Assignments' = Assignments
    BY <2>3 DEF Assignments
  <2>5. Numbered' /\ Used' = Used
    BY <2>3, <2>4, NumbersStand DEF Channelled
  <2>6. Taken'
    BY <2>1, <2>2, <2>3, <2>4 DEF Channelled, Taken
  <2>7. Fresh'
    BY <2>3, <2>5 DEF Channelled, Fresh
  <2>. QED  BY <2>5, <2>6, <2>7 DEF Channelled
<1>2. CASE \E a \in Apps : App(a)
  BY <1>1, <1>2, ChannelledBegin, ChannelledWrite DEF App
<1>3. CASE ReadFirst \/ ReadContinuation
  BY <1>3, ChannelledRead
<1>4. CASE Restart
  <2>1. Assignments' = {} /\ Used' = {} /\ Cardinality({}) = 0 /\ Len(<<>>) = 0
    BY <1>4, FS_EmptySet, EmptySeq DEF Restart, Assignments, Used
  <2>2. Numbered'
    BY <1>4, <2>1 DEF Restart, Numbered
  <2>. QED  BY <1>4, <2>1, <2>2 DEF Restart, Channelled, Fresh, Taken
<1>5. CASE AnswerPhone \/ HostStops \/ Worker \/ UNCHANGED vars
  <2>1. UNCHANGED <<events, chan, sending, sent, next_channel>> /\ sent \in [Apps -> Nat]
    BY <1>5 DEF AnswerPhone, HostStops, Worker, RequestFails, RequestSent, DaemonAnswers,
                ReadTimesOut, Work, appVars, vars, helperVars, Base, TypeOK
  <2>2. Assignments' = Assignments
    <3>1. CASE AnswerPhone
      <4>. DEFINE x == [channel |-> asked.channel, command |-> asked.command,
                        of |-> asked.payload,
                        packets |-> Frame(asked.channel, asked.command, <<>>),
                        assigned |-> None]
      <4>1. answers' = answers \cup {x}
        BY <3>1 DEF AnswerPhone, Answer
      <4>2. x.command # "init"
        BY <3>1, NoneApart DEF AnswerPhone, Base, TypeOK, Asking
      <4>. HIDE DEF x
      <4>. QED  BY <4>1, <4>2 DEF Assignments
    <3>2. CASE ~AnswerPhone
      BY <1>5, <3>2 DEF HostStops, Worker, RequestFails, RequestSent, DaemonAnswers,
                        ReadTimesOut, Work, vars, Assignments
    <3>. QED  BY <3>1, <3>2
  <2>3. Numbered' /\ Used' = Used
    BY <2>1, <2>2, NumbersStand DEF Channelled
  <2>4. Taken' /\ Fresh'
    BY <2>1, <2>2, <2>3 DEF Channelled, Taken, Fresh
  <2>. QED  BY <2>3, <2>4 DEF Channelled
<1>. QED  BY <1>2, <1>3, <1>4, <1>5 DEF Next

\* Programs that asked for a channel have different ones, none of them the shared one,
\* as long as there are fewer messages than channels, however they are interleaved,
\* given up or lost and whatever the helper's restarts make start over.
THEOREM ChannelsDifferCorrect ==
    ASSUME ChannelsSuffice
    PROVE  Spec => []ChannelsDiffer
<1>1. Base /\ Channelled => ChannelsDiffer
  <2>. SUFFICES ASSUME Base, Channelled
                PROVE  ChannelsDiffer
    OBVIOUS
  <2>1. Used \subseteq Tickets
    <3>1. ASSUME NEW c \in Byte, c.n \in 1..sent[c.app]
          PROVE  Ticket(c) \in Tickets
      <4>1. c.app \in Apps
        BY DEF Byte
      <4>2. sent[c.app] \in Nat /\ sent[c.app] <= MaxMessages[c.app] /\ MaxMessages[c.app] \in Nat
        BY <4>1, SizeAssumption DEF Base, TypeOK
      <4>3. c.n \in 1..MaxMessages[c.app]
        BY <3>1, <4>2
      <4>. QED  BY <4>1, <4>3 DEF Ticket, Tickets
    <3>. QED  BY <3>1 DEF Used, Channelled, Numbered
  <2>2. /\ Cardinality(Used) \in Nat /\ Cardinality(Tickets) \in Nat
        /\ Cardinality(Used) <= Cardinality(Tickets)
    BY <2>1, FS_Subset, FS_CardinalityType DEF ChannelsSuffice
  <2>3. next_channel \in Nat /\ next_channel < MaxChannel /\ MaxChannel \in Nat
    BY <2>2, SizeAssumption DEF Channelled, Numbered, ChannelsSuffice
  <2>4. \A x \in Assignments : x.assigned # Broadcast
    BY <2>3 DEF Channelled, Numbered, Broadcast
  <2>. QED  BY <2>4 DEF Channelled, Numbered, ChannelsDiffer
<1>2. Base /\ Owned /\ Channelled /\ [Next]_vars => (Base /\ Owned /\ Channelled)'
  BY BaseStep, OwnedStep, ChannelledStep
<1>. QED  BY <1>1, <1>2, BaseInit, OwnedInit, ChannelledInit, PTL DEF Spec

-------------------------------------------------------------------------------
(***************************************************************************)
(* Whose message is held and answered.                                     *)
(***************************************************************************)

\* Who has a channel was given it.
LEMMA MineIsAttributed ==
    ASSUME Taken, NEW c \in Channels, NEW p, Mine(c, p)
    PROVE  Attributed(c, p)
<1>1. PICK a \in Apps : chan[a] = c /\ \A i \in 1..Len(p) : p[i] = None \/ p[i].app = a
  BY DEF Mine
<1>2. chan[a] # None
  BY <1>1, NoneApart
<1>3. PICK y \in Assignments : y.assigned = chan[a] /\ y.of[1].app = a
  BY <1>2 DEF Taken
<1>. QED  BY <1>1, <1>3 DEF Attributed

\* No two programs have one channel.
LEMMA ChannelsApart ==
    ASSUME Numbered, Taken, NEW a \in Apps, NEW b \in Apps,
           chan[a] # None, chan[a] = chan[b]
    PROVE  a = b
<1>1. PICK y \in Assignments : y.assigned = chan[a] /\ y.of[1].app = a
  BY DEF Taken
<1>2. PICK z \in Assignments : z.assigned = chan[b] /\ z.of[1].app = b
  BY DEF Taken
<1>. QED  BY <1>1, <1>2 DEF Numbered

\* The bytes of a packet are all of one message.
LEMMA PieceIsOwn ==
    ASSUME NEW r \in Sound, ~Empty(r)
    PROVE  /\ IsPiece(r.data, Width(r)) /\ Width(r) \in Nat
           /\ \A i \in 1..Width(r) : r.data[i] = None \/ r.data[i].app = r.data[1].app
<1>1. IsPiece(r.data, Width(r))
  BY DEF Sound, Empty, Width
<1>2. Width(r) \in Nat
  BY Widths DEF Width
<1>3. ASSUME NEW i \in 1..Width(r)
      PROVE  r.data[i] = None \/ r.data[i].app = r.data[1].app
  <2>1. r.data[i] = IF r.data[1].at + i - 1 <= r.data[1].of
                    THEN At(r.data[1], r.data[1].at + i - 1) ELSE None
    BY <1>1 DEF IsPiece
  <2>. QED  BY <2>1 DEF At
<1>. QED  BY <1>1, <1>2, <1>3

\* The report to be read is of the program whose channel it is on.
LEMMA HeadIsMine ==
    ASSUME Base, Owned, NEW r, Reads(r), ~Empty(r), r.first => r.command # "init"
    PROVE  r.data[1].app \in Apps /\ chan[r.data[1].app] = r.channel
<1>1. r = events[1] /\ r \in Sound /\ Len(events) \in Nat /\ Len(events) > 0
  BY ReadTyped
<1>2. OwnChannel(r)
  BY <1>1 DEF Owned, EventsOwned
<1>. QED  BY <1>1, <1>2, OwnersExist DEF OwnChannel

\* What a report that is read asks or continues is of the program whose channel it is.
LEMMA ReadMine ==
    ASSUME Base, Owned, Numbered, Taken, AssemblyOwned, NEW r, Reads(r)
    PROVE  /\ r.first /\ r.length > First => Mine(r.channel, r.data)
           /\ r.first /\ r.length <= First /\ r.command # "init" =>
                Mine(r.channel, SubSeq(r.data, 1, r.length))
           /\ ~r.first /\ Continues(r) =>
                Mine(assembly.channel, Extended(r))
<1>1. r \in Sound /\ r \in Report
  BY ReadTyped
<1>2. CASE r.first /\ r.length > First
  <2>0. r.length \in Nat /\ ~(r.length <= First)
    <3>1. r.length \in Nat
      BY <1>1, <1>2 DEF Report
    <3>. QED  BY <1>2, <3>1, Widths
  <2>1. r.command # "init" /\ ~Empty(r) /\ Len(r.data) = First /\ Width(r) = First
    <3>1. r.command # "init"
      BY <1>1, <1>2, MultiTyped, NoneApart DEF Assembling
    <3>2. Len(r.data) = First
      BY <1>1, <1>2, MultiTyped
    <3>. QED  BY <1>2, <2>0, <3>1, <3>2, Widths DEF Empty, Width
  <2>2. r.data[1].app \in Apps /\ chan[r.data[1].app] = r.channel
    BY <2>1, HeadIsMine
  <2>3. \A i \in 1..Len(r.data) : r.data[i] = None \/ r.data[i].app = r.data[1].app
    BY <1>1, <2>1, PieceIsOwn
  <2>4. Mine(r.channel, r.data)
    BY <2>2, <2>3 DEF Mine
  <2>. QED  BY <1>2, <2>0, <2>4
<1>3. CASE r.first /\ ~(r.length > First) /\ r.command # "init"
  <2>0. r.length \in Nat /\ r.length <= First
    <3>1. r.length \in Nat
      BY <1>1, <1>3 DEF Report
    <3>. QED  BY <1>3, <3>1, Widths
  <2>. DEFINE p == SubSeq(r.data, 1, r.length)
  <2>1. Len(p) = r.length /\ \A i \in 1..r.length : p[i] = r.data[i]
    BY <1>1, <1>3, <2>0, SingleTyped
  <2>2. ~Empty(r) /\ Width(r) = First
    BY <1>1, <1>3 DEF Sound, Width, Empty
  <2>3. r.data[1].app \in Apps /\ chan[r.data[1].app] = r.channel
    BY <1>3, <2>2, HeadIsMine
  <2>4. \A i \in 1..First : r.data[i] = None \/ r.data[i].app = r.data[1].app
    BY <1>1, <2>2, PieceIsOwn
  <2>. HIDE DEF p
  <2>5. \A i \in 1..Len(p) : p[i] = None \/ p[i].app = r.data[1].app
    BY <2>0, <2>1, <2>4, Widths
  <2>6. Mine(r.channel, p)
    BY <2>3, <2>5 DEF Mine
  <2>. QED  BY <1>3, <2>6 DEF p
<1>4. CASE ~r.first /\ Continues(r)
  <2>1. assembly # None /\ assembly.channel = r.channel /\ ~Empty(r) /\ Width(r) = Continued
    BY <1>4 DEF Continues, Empty, Width
  <2>2. r.data[1].app \in Apps /\ chan[r.data[1].app] = r.channel
    BY <1>4, <2>1, HeadIsMine
  <2>3. PICK a \in Apps : /\ chan[a] = assembly.channel
                          /\ \A i \in 1..Len(assembly.payload) :
                               assembly.payload[i] = None \/ assembly.payload[i].app = a
    BY <2>1 DEF AssemblyOwned, Mine
  <2>4. chan[a] # None
    BY <1>1, <2>1, <2>3, OwnersExist
  <2>5. a = r.data[1].app
    BY <2>1, <2>2, <2>3, <2>4, ChannelsApart
  <2>. DEFINE n == Len(assembly.payload)
              m == Least(assembly.expected - n, Continued)
              p == Extended(r)
  <2>6. /\ n \in Nat /\ m \in 1..Continued /\ Len(p) = n + m
        /\ \A i \in 1..n : p[i] = assembly.payload[i]
        /\ \A i \in (n + 1)..(n + m) : p[i] = r.data[i - n]
    BY <1>1, <1>4, <2>1, ExtendedTyped
  <2>7. \A i \in 1..Continued : r.data[i] = None \/ r.data[i].app = a
    BY <1>1, <2>1, <2>5, PieceIsOwn
  <2>8. \A i \in 1..n : assembly.payload[i] = None \/ assembly.payload[i].app = a
    BY <2>3
  <2>. HIDE DEF n, m, p
  <2>9. ASSUME NEW i \in 1..Len(p)
        PROVE  p[i] = None \/ p[i].app = a
    <3>1. CASE i \in 1..n
      BY <2>6, <2>8, <3>1
    <3>2. CASE i \notin 1..n
      <4>1. i \in (n + 1)..(n + m) /\ i - n \in 1..Continued
        BY <2>6, <3>2, Widths
      <4>. QED  BY <2>6, <2>7, <4>1
    <3>. QED  BY <3>1, <3>2
  <2>10. Mine(assembly.channel, p)
    BY <2>3, <2>9 DEF Mine
  <2>. QED  BY <1>4, <2>10 DEF p
<1>5. r.first => ~(r.length > First /\ r.length <= First)
  <2>1. r.first => r.length \in Nat
    BY <1>1 DEF Report
  <2>. QED  BY <2>1, Widths
<1>. QED  BY <1>2, <1>3, <1>4, <1>5

\* Whoever asks is answered as its owner.
LEMMA DispatchHeld ==
    ASSUME Taken, AnswersOwned, NEW c \in Channels, NEW command, NEW p,
           command # "init" => Mine(c, p),
           asked = None, UNCHANGED chan, Assignments \subseteq Assignments',
           Dispatch(c, command, p)
    PROVE  AnswersOwned' /\ AskedOwned'
<1>1. ASSUME NEW d, NEW q, Attributed(d, q)
      PROVE  Attributed(d, q)'
  BY <1>1 DEF Attributed
<1>2. ASSUME NEW x, answers' = answers \cup {x}, x.command # "init" => Attributed(x.channel, x.of)
      PROVE  AnswersOwned'
  BY <1>1, <1>2 DEF AnswersOwned
<1>3. answers' = answers => AnswersOwned'
  BY <1>1 DEF AnswersOwned
<1>4. CASE command = "init"
  <2>1. UNCHANGED phoneVars
    BY <1>4 DEF Dispatch
  <2>2. AskedOwned'
    BY <2>1 DEF AskedOwned, phoneVars
  <2>3. AnswersOwned'
    <3>1. CASE p # <<>>
      <4>. DEFINE x(given) == [channel |-> c, command |-> "init", of |-> p,
                               packets |-> Frame(c, "init", <<>>), assigned |-> given]
      <4>1. PICK given : answers' = answers \cup {x(given)}
        BY <1>4, <3>1 DEF Dispatch, Answer
      <4>2. x(given).command = "init"
        OBVIOUS
      <4>. HIDE DEF x
      <4>. QED  BY <1>2, <4>1, <4>2
    <3>2. CASE p = <<>>
      BY <1>3, <1>4, <3>2 DEF Dispatch
    <3>. QED  BY <3>1, <3>2
  <2>. QED  BY <2>2, <2>3
<1>5. CASE command \in {"ping", "info", "cancel"}
  <2>. DEFINE x == [channel |-> c, command |-> command, of |-> p,
                    packets |-> Frame(c, command, IF command = "ping" THEN p ELSE <<>>),
                    assigned |-> None]
  <2>1. answers' = answers \cup {x} /\ UNCHANGED phoneVars
    BY <1>5 DEF Dispatch, Answer
  <2>2. Attributed(x.channel, x.of)
    BY <1>5, MineIsAttributed
  <2>. HIDE DEF x
  <2>. QED  BY <1>2, <2>1, <2>2 DEF AskedOwned, phoneVars
<1>6. CASE command \in {"makecred", "assert"}
  <2>1. asked' = [channel |-> c, command |-> command, payload |-> p] /\ answers' = answers
    BY <1>6 DEF Dispatch
  <2>2. asked'.channel = c /\ asked'.payload = p
    BY <2>1
  <2>3. Mine(c, p)'
    BY <1>6 DEF Mine
  <2>. QED  BY <1>3, <2>1, <2>2, <2>3 DEF AskedOwned
<1>. QED  BY <1>4, <1>5, <1>6 DEF Dispatch

\* Reading keeps apart what is of different programs.
LEMMA HeldRead ==
    Base /\ Owned /\ Channelled /\ Held /\ (ReadFirst \/ ReadContinuation) => Held'
<1>. SUFFICES ASSUME Base, Owned, Channelled, Held, NEW r, Reads(r),
                     Assignments \subseteq Assignments',
                     \/ /\ r.first
                        /\ \/ /\ r.length > First
                              /\ assembly' = [channel |-> r.channel, command |-> r.command,
                                              expected |-> r.length, payload |-> r.data]
                              /\ UNCHANGED <<helper, next_channel, phoneVars, answers>>
                           \/ /\ r.length <= First
                              /\ Dispatch(r.channel, r.command, SubSeq(r.data, 1, r.length))
                              /\ UNCHANGED assembly
                     \/ /\ ~r.first
                        /\ \/ /\ ~Continues(r)
                              /\ UNCHANGED <<helper, next_channel, assembly, phoneVars, answers>>
                           \/ /\ Continues(r) /\ ~Complete(Extended(r))
                              /\ assembly' = [assembly EXCEPT !.payload = Extended(r)]
                              /\ UNCHANGED <<helper, next_channel, phoneVars, answers>>
                           \/ /\ Continues(r) /\ Complete(Extended(r))
                              /\ assembly' = None
                              /\ Dispatch(assembly.channel, assembly.command, Extended(r))
              PROVE  Held'
  <2>1. Base /\ (ReadFirst \/ ReadContinuation) => Assignments \subseteq Assignments'
    BY ReadAssigns DEF Assigns
  <2>. QED  BY <2>1 DEF ReadFirst, ReadContinuation
<1>1. chan' = chan /\ asked = None /\ r.channel \in Channels
  BY ReadTyped DEF Reads, appVars
<1>2. Numbered /\ Taken /\ AssemblyOwned /\ AnswersOwned
  BY DEF Channelled, Held
<1>3. ASSUME NEW c, NEW p, Mine(c, p)
      PROVE  Mine(c, p)'
  BY <1>1, <1>3 DEF Mine
<1>4. ASSUME UNCHANGED <<phoneVars, answers>>
      PROVE  AnswersOwned' /\ AskedOwned'
  <2>1. Assignments' = Assignments
    BY <1>4 DEF Assignments
  <2>. QED  BY <1>1, <1>2, <1>4, <2>1 DEF AnswersOwned, AskedOwned, Attributed, phoneVars
<1>5. CASE r.first /\ r.length > First /\ UNCHANGED <<helper, next_channel, phoneVars, answers>>
           /\ assembly' = [channel |-> r.channel, command |-> r.command,
                           expected |-> r.length, payload |-> r.data]
  <2>1. Mine(r.channel, r.data)
    BY <1>2, <1>5, ReadMine
  <2>2. Mine(r.channel, r.data)' /\ assembly'.channel = r.channel /\ assembly'.payload = r.data
    BY <1>3, <1>5, <2>1
  <2>3. AssemblyOwned'
    BY <2>2 DEF AssemblyOwned
  <2>. QED  BY <1>4, <1>5, <2>3 DEF Held
<1>6. CASE r.first /\ r.length <= First /\ UNCHANGED assembly
           /\ Dispatch(r.channel, r.command, SubSeq(r.data, 1, r.length))
  <2>1. r.command # "init" => Mine(r.channel, SubSeq(r.data, 1, r.length))
    BY <1>2, <1>6, ReadMine
  <2>2. AnswersOwned' /\ AskedOwned'
    BY <1>1, <1>2, <1>6, <2>1, DispatchHeld
  <2>3. AssemblyOwned'
    BY <1>2, <1>3, <1>6 DEF AssemblyOwned
  <2>. QED  BY <2>2, <2>3 DEF Held
<1>7. CASE ~r.first /\ ~Continues(r)
           /\ UNCHANGED <<helper, next_channel, assembly, phoneVars, answers>>
  BY <1>2, <1>3, <1>4, <1>7 DEF AssemblyOwned, Held
<1>8. CASE ~r.first /\ Continues(r)
  <2>1. Mine(assembly.channel, Extended(r))
    BY <1>2, <1>8, ReadMine
  <2>2. assembly \in Assembling
    BY <1>8 DEF Continues, Base, TypeOK
  <2>3. CASE assembly' = [assembly EXCEPT !.payload = Extended(r)]
             /\ UNCHANGED <<helper, next_channel, phoneVars, answers>>
    <3>1. assembly'.channel = assembly.channel /\ assembly'.payload = Extended(r)
      BY <2>2, <2>3 DEF Assembling
    <3>2. PICK d, q : d = assembly.channel /\ q = Extended(r)
      OBVIOUS
    <3>3. Mine(d, q)'
      BY <1>3, <2>1, <3>2
    <3>4. AssemblyOwned'
      BY <3>1, <3>2, <3>3 DEF AssemblyOwned
    <3>. QED  BY <1>4, <2>3, <3>4 DEF Held
  <2>4. CASE assembly' = None /\ Dispatch(assembly.channel, assembly.command, Extended(r))
    <3>1. assembly.channel \in Channels
      BY <2>2 DEF Assembling
    <3>2. AnswersOwned' /\ AskedOwned'
      BY <1>1, <1>2, <2>1, <2>4, <3>1, DispatchHeld
    <3>. QED  BY <2>4, <3>2 DEF Held, AssemblyOwned
  <2>. QED  BY <1>8, <2>3, <2>4
<1>. QED  BY <1>5, <1>6, <1>7, <1>8

\* Every step keeps them apart.
LEMMA HeldStep == Base /\ Owned /\ Channelled /\ Held /\ [Next]_vars => Held'
<1>. SUFFICES ASSUME Base, Owned, Channelled, Held, [Next]_vars
              PROVE  Held'
  OBVIOUS
<1>0. AssemblyOwned /\ AskedOwned /\ AnswersOwned /\ Taken
  BY DEF Held, Channelled
<1>1. ASSUME NEW a \in Apps, AppTakesChannel(a)
      PROVE  Held'
  <2>1. chan[a] = None /\ UNCHANGED <<assembly, asked, answers>>
        /\ \A b \in Apps \ {a} : chan'[b] = chan[b]
    BY <1>1 DEF AppTakesChannel, helperVars, phoneVars, Base, TypeOK
  <2>2. ASSUME NEW c \in Channels, NEW p, Mine(c, p)
        PROVE  Mine(c, p)'
    <3>1. PICK b \in Apps : chan[b] = c /\ \A i \in 1..Len(p) : p[i] = None \/ p[i].app = b
      BY <2>2 DEF Mine
    <3>2. chan'[b] = c
      BY <2>1, <3>1, NoneApart
    <3>. QED  BY <3>1, <3>2 DEF Mine
  <2>3. assembly # None => assembly.channel \in Channels
    BY DEF Base, TypeOK, Assembling
  <2>4. asked # None => asked.channel \in Channels
    BY DEF Base, TypeOK, Asking
  <2>5. Assignments' = Assignments
    BY <2>1 DEF Assignments
  <2>. QED  BY <1>0, <2>1, <2>2, <2>3, <2>4, <2>5
            DEF Held, AssemblyOwned, AskedOwned, AnswersOwned, Attributed
<1>2. ASSUME UNCHANGED <<assembly, chan, answers>>, asked' = asked
      PROVE  Held'
  <2>1. Assignments' = Assignments
    BY <1>2 DEF Assignments
  <2>. QED  BY <1>0, <1>2, <2>1
            DEF Held, AssemblyOwned, AskedOwned, AnswersOwned, Attributed, Mine
<1>3. ASSUME NEW a \in Apps, AppInits(a) \/ AppSends(a)
      PROVE  Held'
  <2>1. PICK channel \in Channels, command \in Commands \cup {"init"}, length \in Nat :
           Begin(a, channel, command, length)
    BY <1>3, Begins
  <2>. QED  BY <1>2, <2>1 DEF Begin, helperVars, phoneVars
<1>4. ASSUME NEW a \in Apps, AppWrites(a)
      PROVE  Held'
  BY <1>2, <1>4 DEF AppWrites, helperVars, phoneVars
<1>5. CASE \E a \in Apps : App(a)
  BY <1>1, <1>3, <1>4, <1>5 DEF App
<1>6. CASE ReadFirst \/ ReadContinuation
  BY <1>6, HeldRead
<1>7. CASE AnswerPhone
  <2>1. asked \in Asking /\ helper = "running"
    BY <1>7 DEF AnswerPhone, Base, TypeOK
  <2>2. asked.channel \in Channels /\ Mine(asked.channel, asked.payload)
    BY <1>0, <2>1, NoneApart DEF Asking, AskedOwned
  <2>3. Attributed(asked.channel, asked.payload)
    BY <1>0, <2>2, MineIsAttributed
  <2>. DEFINE x == [channel |-> asked.channel, command |-> asked.command,
                    of |-> asked.payload,
                    packets |-> Frame(asked.channel, asked.command, <<>>),
                    assigned |-> None]
  <2>4. answers' = answers \cup {x} /\ asked' = None /\ UNCHANGED <<assembly, chan>>
    BY <1>7 DEF AnswerPhone, Answer, helperVars, appVars
  <2>5. x.command # "init" /\ Attributed(x.channel, x.of)
    BY <2>1, <2>3, NoneApart DEF Asking
  <2>. HIDE DEF x
  <2>6. Assignments' = Assignments
    BY <2>4, <2>5 DEF Assignments
  <2>. QED  BY <1>0, <2>4, <2>5, <2>6
            DEF Held, AssemblyOwned, AskedOwned, AnswersOwned, Attributed, Mine
<1>8. CASE HostStops
  BY <1>2, <1>8 DEF HostStops, phoneVars, appVars
<1>9. CASE Restart
  <2>1. asked = None /\ asked' = asked /\ assembly' = None /\ answers' = {}
    BY <1>9 DEF Restart, Base, phoneVars
  <2>. QED  BY <2>1 DEF Held, AssemblyOwned, AskedOwned, AnswersOwned
<1>10. CASE Worker
  BY <1>2, <1>10 DEF Worker, RequestFails, RequestSent, DaemonAnswers, ReadTimesOut, Work,
                     helperVars, appVars
<1>11. CASE UNCHANGED vars
  BY <1>2, <1>11 DEF vars, helperVars, phoneVars, appVars
<1>. QED  BY <1>5, <1>6, <1>7, <1>8, <1>9, <1>10, <1>11 DEF Next

-------------------------------------------------------------------------------
(***************************************************************************)
(* In which order the packets of a message come.                           *)
(***************************************************************************)

\* Another byte of a message is one, with the same others.
LEMMA Others ==
    ASSUME NEW b \in Byte, NEW i \in Nat
    PROVE  /\ At(b, i) \in Byte /\ At(b, i).at = i
           /\ At(b, i).app = b.app /\ At(b, i).n = b.n /\ At(b, i).of = b.of
           /\ \A j \in Nat : At(At(b, i), j) = At(b, j)
           /\ [b EXCEPT !.at = i] = At(b, i)
           /\ b.at \in Nat /\ b.of \in Nat /\ At(b, b.at) = b
BY DEF At, Byte

\* The bytes of a continuation.
LEMMA PieceOfContinuation ==
    ASSUME NEW r \in Sound, ~r.first
    PROVE  /\ r.data[1] \in Byte /\ r \in Report
           /\ r.data[1].at \in Nat /\ r.data[1].of \in Nat
           /\ r.data[1].at > First /\ r.data[1].at <= r.data[1].of
           /\ \A i \in 1..Continued :
                r.data[1].at + i - 1 <= r.data[1].of
                  => r.data[i] = At(r.data[1], r.data[1].at + i - 1)
<1>1. r \in Report /\ IsPiece(r.data, Continued)
      /\ r.data[1].at > First /\ r.data[1].at <= r.data[1].of
  BY DEF Sound, Empty
<1>2. r.data[1] \in Byte
  BY <1>1 DEF IsPiece
<1>3. \A i \in 1..Continued :
        r.data[i] = IF r.data[1].at + i - 1 <= r.data[1].of
                    THEN At(r.data[1], r.data[1].at + i - 1) ELSE None
  BY <1>1 DEF IsPiece
<1>. QED  BY <1>1, <1>2, <1>3 DEF Byte

\* The bytes of a first packet.
LEMMA PieceOfFirst ==
    ASSUME NEW r \in Sound, r.first, ~Empty(r)
    PROVE  /\ r.data[1] \in Byte /\ r.length \in Nat /\ r.length > 0
           /\ r.data[1].at = 1 /\ r.data[1].of = r.length
           /\ \A i \in 1..First : i <= r.length => r.data[i] = At(r.data[1], i)
           /\ r.length > First => r.command # "init"
<1>1. r.length \in Nat
  BY DEF Sound, Report
<1>2. IsPiece(r.data, First) /\ r.data[1].at = 1 /\ r.data[1].of = r.length
      /\ (r.command = "init" => r.length = 1)
  BY DEF Sound
<1>3. \A i \in 1..First :
        r.data[i] = IF r.data[1].at + i - 1 <= r.data[1].of
                    THEN At(r.data[1], r.data[1].at + i - 1) ELSE None
  BY <1>2 DEF IsPiece
<1>4. \A i \in 1..First : r.data[1].at + i - 1 = i
  BY <1>2
<1>5. r.length > 0
  BY <1>1 DEF Empty
<1>6. r.length > First => r.command # "init"
  BY <1>1, <1>2, Widths
<1>7. r.data[1] \in Byte
  BY <1>2 DEF IsPiece
<1>. QED  BY <1>1, <1>2, <1>3, <1>4, <1>5, <1>6, <1>7

\* A prefix is a payload of its length.
LEMMA PrefixIsPayload ==
    ASSUME NEW b \in Byte, NEW k \in Nat
    PROVE  Prefix(b, k) \in Payload /\ Len(Prefix(b, k)) = k
<1>1. \A i \in 1..k : At(b, i) \in Byte
  BY Others
<1>2. Prefix(b, k) \in [1..k -> Byte \cup {None}]
  BY <1>1 DEF Prefix
<1>3. Prefix(b, k) \in Payload
  BY <1>2, SeqDef DEF Payload
<1>. QED  BY <1>2, <1>3, LenProperties DEF Payload

\* A payload with the bytes of a message in order is a prefix of it.
LEMMA PrefixIs ==
    ASSUME NEW b \in Byte, NEW k \in Nat, NEW p \in Payload, Len(p) = k,
           \A i \in 1..k : p[i] = At(b, i)
    PROVE  p = Prefix(b, k)
<1>1. p = [i \in 1..k |-> p[i]]
  BY LenProperties DEF Payload
<1>. QED  BY <1>1 DEF Prefix

\* A prefix as long as the message is whole.
LEMMA PrefixIsWhole ==
    ASSUME NEW b \in Byte, NEW p \in Payload, Len(p) = b.of, b.of > 0,
           \A i \in 1..Len(p) : p[i] = At(b, i)
    PROVE  Whole(p)
<1>1. b.of \in Nat /\ 1 \in 1..Len(p) /\ DOMAIN p = 1..Len(p)
  BY LenProperties DEF Byte, Payload
<1>2. p[1] = At(b, 1) /\ p[1] \in Byte /\ p[1].of = b.of
  BY <1>1, Others
<1>3. ASSUME NEW i \in 1..Len(p)
      PROVE  p[i] = [p[1] EXCEPT !.at = i]
  <2>1. i \in Nat
    BY <1>1
  <2>2. [p[1] EXCEPT !.at = i] = At(p[1], i)
    BY <1>2, <2>1, Others
  <2>3. At(p[1], i) = At(b, i)
    BY <1>2, <2>1, Others
  <2>. QED  BY <2>2, <2>3
<1>. QED  BY <1>1, <1>2, <1>3 DEF Whole

\* A continuation that finds its message so far makes a longer prefix of it, all of it
\* or as much as a packet holds more.
LEMMA ExtendedHolds ==
    ASSUME Base, assembly # None, NEW r \in Sound, ~r.first, Holds(r)
    PROVE  LET b == r.data[1] IN
           /\ Extended(r) \in Payload /\ Len(Extended(r)) <= b.of
           /\ \A i \in 1..Len(Extended(r)) : Extended(r)[i] = At(b, i)
           /\ Complete(Extended(r)) => Len(Extended(r)) = b.of
           /\ ~Complete(Extended(r)) => /\ Len(Extended(r)) = b.at - 1 + Continued
                                        /\ Len(Extended(r)) < b.of
<1>. DEFINE b == r.data[1]
            p == assembly.payload
            n == Len(p)
            e == assembly.expected
            m == Least(e - n, Continued)
            q == Extended(r)
<1>1. /\ b \in Byte /\ b.at \in Nat /\ b.of \in Nat /\ b.at > First /\ b.at <= b.of
      /\ r \in Report
      /\ \A i \in 1..Continued : b.at + i - 1 <= b.of => r.data[i] = At(b, b.at + i - 1)
  BY PieceOfContinuation
<1>2. /\ n \in Nat /\ n < e /\ e \in Nat /\ m \in 1..Continued
      /\ q \in Payload /\ Len(q) = n + m
      /\ \A i \in 1..n : q[i] = p[i]
      /\ \A i \in (n + 1)..(n + m) : q[i] = r.data[i - n]
  BY <1>1, ExtendedTyped
<1>3. p = Prefix(b, b.at - 1) /\ e = b.of
  BY DEF Holds
<1>4. b.at - 1 \in Nat
  BY <1>1, Widths
<1>. HIDE DEF b, p, q
<1>5. n = b.at - 1
  BY <1>1, <1>3, <1>4, PrefixIsPayload
<1>. HIDE DEF n, e
<1>6. m = (IF e - n <= Continued THEN e - n ELSE Continued)
  BY DEF Least
<1>7. \A i \in 1..n : p[i] = At(b, i)
  BY <1>3, <1>5 DEF Prefix
<1>. HIDE DEF m
<1>8. n + m <= e /\ (n + m < e => m = Continued)
  BY <1>2, <1>6, Widths
<1>9. ASSUME NEW i \in 1..Len(q)
      PROVE  q[i] = At(b, i)
  <2>1. CASE i \in 1..n
    BY <1>2, <1>7, <2>1
  <2>2. CASE i \notin 1..n
    <3>1. i \in (n + 1)..(n + m) /\ i - n \in 1..Continued
      BY <1>2, <2>2, Widths
    <3>2. b.at + (i - n) - 1 = i /\ i <= b.of
      <4>1. i \in Nat /\ i <= n + m
        BY <1>2
      <4>2. b.at = n + 1
        BY <1>1, <1>5
      <4>3. b.at + (i - n) - 1 = i
        BY <1>2, <4>1, <4>2
      <4>4. i <= e
        BY <1>2, <1>8, <4>1
      <4>. QED  BY <1>3, <4>3, <4>4
    <3>3. r.data[i - n] = At(b, i)
      BY <1>1, <3>1, <3>2
    <3>. QED  BY <1>2, <3>1, <3>3
  <2>. QED  BY <2>1, <2>2
<1>10. Complete(q) <=> n + m >= e
  BY <1>2 DEF Complete, e
<1>11. Complete(q) => Len(q) = b.of
  BY <1>2, <1>3, <1>8, <1>10
<1>12. ~Complete(q) => Len(q) = b.at - 1 + Continued /\ Len(q) < b.of
  BY <1>1, <1>2, <1>3, <1>5, <1>8, <1>10, Widths
<1>13. Len(q) <= b.of
  BY <1>2, <1>3, <1>8
<1>. QED  BY <1>2, <1>9, <1>11, <1>12, <1>13 DEF q, b

\* What reading a report does to the message under way.
Assembles(h) ==
    \/ h.first /\ ~Part(h) /\ assembly' = assembly
    \/ h.first /\ Part(h) /\ assembly' = [channel |-> h.channel, command |-> h.command,
                                          expected |-> h.length, payload |-> h.data]
    \/ ~h.first /\ ~Continues(h) /\ assembly' = assembly
    \/ ~h.first /\ Continues(h) /\ ~Complete(Extended(h))
         /\ assembly' = [assembly EXCEPT !.payload = Extended(h)]
    \/ ~h.first /\ Continues(h) /\ Complete(Extended(h)) /\ assembly' = None

\* That is what it does.
LEMMA ReadAssembles ==
    ASSUME Base, ReadFirst \/ ReadContinuation
    PROVE  Reads(events[1]) /\ Assembles(events[1])
<1>1. PICK r : /\ Reads(r)
               /\ \/ r.first /\ \/ /\ r.length > First
                                   /\ assembly' = [channel |-> r.channel, command |-> r.command,
                                                   expected |-> r.length, payload |-> r.data]
                                \/ r.length <= First /\ UNCHANGED assembly
                  \/ ~r.first /\ \/ ~Continues(r) /\ UNCHANGED assembly
                                 \/ /\ Continues(r) /\ ~Complete(Extended(r))
                                    /\ assembly' = [assembly EXCEPT !.payload = Extended(r)]
                                 \/ Continues(r) /\ Complete(Extended(r)) /\ assembly' = None
  BY DEF ReadFirst, ReadContinuation
<1>2. r = events[1] /\ r \in Report
  BY <1>1, ReadTyped
<1>3. r.first /\ r.length <= First => ~Part(r)
  <2>1. r.first => r.length \in Nat
    BY <1>2 DEF Report
  <2>. QED  BY <2>1, Widths DEF Part
<1>. QED  BY <1>1, <1>2, <1>3 DEF Assembles, Part

\* The packet after one that was read finds what the helper made of it.
LEMMA HoldsNext ==
    ASSUME Base, NEW h, Reads(h), Assembles(h),
           ~h.first => Ready(h, 1),
           NEW r \in Sound, ~r.first, Precedes(h, r),
           assembly' # None, assembly'.channel = r.channel
    PROVE  Holds(r)'
<1>. DEFINE b == r.data[1]
<1>1. h \in Sound /\ h \in Report
  BY ReadTyped
<1>2. Part(h) /\ h.channel = r.channel /\ b = At(h.data[1], h.data[1].at + Width(h))
  BY DEF Precedes
<1>3. CASE h.first
  <2>1. h.length \in Nat /\ h.length > First /\ ~Empty(h) /\ Width(h) = First
    <3>1. h.length \in Nat
      BY <1>1, <1>3 DEF Report
    <3>. QED  BY <1>2, <1>3, <3>1, Widths DEF Part, Empty, Width
  <2>2. /\ h.data[1] \in Byte /\ h.data[1].at = 1 /\ h.data[1].of = h.length
        /\ \A i \in 1..First : h.data[i] = At(h.data[1], i)
    BY <1>1, <1>3, <2>1, PieceOfFirst, Widths
  <2>3. assembly'.payload = h.data /\ assembly'.expected = h.length
    BY <1>2, <1>3 DEF Assembles
  <2>4. /\ b \in Byte /\ b.at - 1 = First /\ b.of = h.length
        /\ \A i \in Nat : At(b, i) = At(h.data[1], i)
    BY <1>2, <2>1, <2>2, Others, Widths
  <2>5. h.data \in Payload /\ Len(h.data) = First
    BY <1>1, <1>3, <2>1, MultiTyped
  <2>6. \A i \in 1..First : h.data[i] = At(b, i)
    BY <2>2, <2>4, Widths
  <2>7. h.data = Prefix(b, First)
    BY <2>4, <2>5, <2>6, PrefixIs, Widths
  <2>. QED  BY <2>3, <2>4, <2>7 DEF Holds
<1>4. CASE ~h.first
  <2>1. Continues(h) /\ ~Complete(Extended(h))
        /\ assembly' = [assembly EXCEPT !.payload = Extended(h)]
    BY <1>2, <1>4 DEF Assembles, Continues
  <2>2. assembly # None /\ assembly.channel = h.channel /\ assembly \in Assembling
    BY <2>1 DEF Continues, Base, TypeOK
  <2>3. Holds(h)
    <3>1. ~\E j \in 1..(1 - 1) : Precedes(events[j], h)
      OBVIOUS
    <3>. QED  BY <1>4, <2>2, <3>1 DEF Ready
  <2>4. /\ h.data[1] \in Byte /\ h.data[1].at \in Nat /\ h.data[1].at > First
    BY <1>1, <1>4, PieceOfContinuation
  <2>5. /\ Extended(h) \in Payload
        /\ \A i \in 1..Len(Extended(h)) : Extended(h)[i] = At(h.data[1], i)
        /\ Len(Extended(h)) = h.data[1].at - 1 + Continued
    BY <1>1, <1>4, <2>1, <2>2, <2>3, ExtendedHolds
  <2>6. assembly'.payload = Extended(h) /\ assembly'.expected = assembly.expected
        /\ assembly.expected = h.data[1].of
    BY <2>1, <2>2, <2>3 DEF Assembling, Holds
  <2>7. Width(h) = Continued
    BY <1>4 DEF Width
  <2>8. b \in Byte /\ b.at = h.data[1].at + Continued /\ b.of = h.data[1].of
        /\ \A i \in Nat : At(b, i) = At(h.data[1], i)
    <3>1. h.data[1].at + Continued \in Nat
      BY <2>4, Widths
    <3>. QED  BY <1>2, <2>4, <2>7, <3>1, Others
  <2>9. b.at - 1 = Len(Extended(h)) /\ Len(Extended(h)) \in Nat
    BY <2>4, <2>5, <2>8, Widths
  <2>10. \A i \in 1..Len(Extended(h)) : Extended(h)[i] = At(b, i)
    BY <2>5, <2>8, <2>9
  <2>11. Extended(h) = Prefix(b, b.at - 1)
    BY <2>5, <2>8, <2>9, <2>10, PrefixIs
  <2>. QED  BY <2>6, <2>8, <2>11 DEF Holds
<1>. QED  BY <1>3, <1>4

\* A report that is read leaves those behind it ready.
LEMMA ReadyNext ==
    ASSUME Base, Reads(events[1]), Assembles(events[1]),
           ~events[1].first => Ready(events[1], 1),
           NEW r \in Sound, ~r.first, NEW hi \in 2..(Len(events) + 1), Ready(r, hi)
    PROVE  Ready(r, hi - 1)'
<1>. DEFINE h == events[1]
<1>1. /\ Len(events) \in Nat /\ Len(events') = Len(events) - 1
      /\ \A i \in 1..Len(events') : i + 1 \in 1..Len(events) /\ events'[i] = events[i + 1]
  BY ReadTyped
<1>2. ASSUME NEW k \in 1..(hi - 2), Other(k + 1, r)
      PROVE  Other(k, r)'
  <2>1. k \in 1..Len(events')
    BY <1>1
  <2>. QED  BY <1>1, <1>2, <2>1 DEF Other
<1>3. ASSUME NEW j \in 2..(hi - 1), Precedes(events[j], r),
             \A k \in (j + 1)..(hi - 1) : Other(k, r)
      PROVE  Ready(r, hi - 1)'
  <2>1. j - 1 \in 1..((hi - 1) - 1) /\ j - 1 \in 1..Len(events') /\ (j - 1) + 1 = j
    BY <1>1
  <2>2. Precedes(events'[j - 1], r)
    BY <1>1, <1>3, <2>1
  <2>3. ASSUME NEW k \in ((j - 1) + 1)..((hi - 1) - 1)
        PROVE  Other(k, r)'
    <3>1. k \in 1..(hi - 2) /\ k + 1 \in (j + 1)..(hi - 1)
      BY <1>1
    <3>. QED  BY <1>2, <1>3, <3>1
  <2>4. \E i \in 1..((hi - 1) - 1) :
          Precedes(events'[i], r) /\ \A k \in (i + 1)..((hi - 1) - 1) : Other(k, r)'
    BY <2>1, <2>2, <2>3
  <2>. QED  BY <2>4 DEF Ready
<1>4. ASSUME \A k \in 2..(hi - 1) : Other(k, r),
             assembly' # None /\ assembly'.channel = r.channel => Holds(r)'
      PROVE  Ready(r, hi - 1)'
  <2>1. ASSUME NEW k \in 1..((hi - 1) - 1)
        PROVE  Other(k, r)'
    <3>1. k \in 1..(hi - 2) /\ k + 1 \in 2..(hi - 1)
      BY <1>1
    <3>. QED  BY <1>2, <1>4, <3>1
  <2>. QED  BY <1>4, <2>1 DEF Ready
<1>5. CASE Precedes(h, r) /\ \A k \in 2..(hi - 1) : Other(k, r)
  BY <1>4, <1>5, HoldsNext
<1>6. CASE /\ \A k \in 1..(hi - 1) : Other(k, r)
           /\ assembly # None /\ assembly.channel = r.channel => Holds(r)
  <2>1. 1 \in 1..(hi - 1) /\ \A k \in 2..(hi - 1) : k \in 1..(hi - 1)
    BY <1>1
  <2>2. Other(1, r) /\ \A k \in 2..(hi - 1) : Other(k, r)
    BY <1>6, <2>1
  <2>3. ~(Part(h) /\ h.channel = r.channel)
    BY <2>2 DEF Other
  <2>4. assembly' # None /\ assembly'.channel = r.channel => assembly' = assembly
    <3>1. assembly # None => assembly \in Assembling
      BY DEF Base, TypeOK
    <3>2. CASE h.first
      BY <2>3, <3>2 DEF Assembles
    <3>3. CASE ~h.first
      <4>1. h.channel # r.channel
        BY <2>3, <3>3 DEF Part
      <4>2. Continues(h) /\ assembly' = [assembly EXCEPT !.payload = Extended(h)]
              => assembly'.channel = h.channel
        BY <3>1 DEF Continues, Assembling
      <4>. QED  BY <3>3, <4>1, <4>2 DEF Assembles
    <3>. QED  BY <3>2, <3>3
  <2>5. assembly' # None /\ assembly'.channel = r.channel => Holds(r)'
    BY <1>6, <2>4 DEF Holds
  <2>. QED  BY <1>4, <2>2, <2>5
<1>7. CASE \E j \in 1..(hi - 1) :
             Precedes(events[j], r) /\ \A k \in (j + 1)..(hi - 1) : Other(k, r)
  <2>1. PICK j \in 1..(hi - 1) :
          Precedes(events[j], r) /\ \A k \in (j + 1)..(hi - 1) : Other(k, r)
    BY <1>7
  <2>2. j = 1 \/ j \in 2..(hi - 1)
    BY <1>1
  <2>3. j = 1 => Precedes(h, r) /\ \A k \in 2..(hi - 1) : Other(k, r)
    BY <2>1
  <2>. QED  BY <1>3, <1>5, <2>1, <2>2, <2>3
<1>. QED  BY <1>6, <1>7 DEF Ready

\* The order at first.
LEMMA OrderedInit == Init => Ordered
<1>1. Len(<<>>) = 0
  BY EmptySeq
<1>. QED  BY <1>1 DEF Init, Ordered

\* Reading keeps the rest in order.
LEMMA OrderedRead ==
    Base /\ Ordered /\ (ReadFirst \/ ReadContinuation) => Ordered'
<1>. SUFFICES ASSUME Base, Ordered, ReadFirst \/ ReadContinuation, ~lost'
              PROVE  Ordered'
  BY DEF Ordered
<1>1. Reads(events[1]) /\ Assembles(events[1])
  BY ReadAssembles
<1>2. UNCHANGED <<lost, sending>>
  BY <1>1 DEF Reads, appVars
<1>3. /\ \A i \in 1..Len(events) : ~events[i].first => Ready(events[i], i)
      /\ \A a \in Apps : sending[a] # <<>> /\ ~sending[a][1].first =>
           Ready(sending[a][1], Len(events) + 1)
  BY <1>2 DEF Ordered
<1>4. /\ Len(events) \in Nat /\ Len(events) > 0 /\ Len(events') = Len(events) - 1
      /\ \A i \in 1..Len(events') : i + 1 \in 1..Len(events) /\ events'[i] = events[i + 1]
      /\ \A i \in 1..Len(events) : events[i] \in Sound
  <2>1. \A i \in 1..Len(events) : events[i] \in Sound
    BY ElementOfSeq DEF Base
  <2>. QED  BY <1>1, <2>1, ReadTyped
<1>5. ~events[1].first => Ready(events[1], 1)
  BY <1>3, <1>4
<1>6. ASSUME NEW i \in 1..Len(events'), ~events'[i].first
      PROVE  Ready(events[i], i)'
  <2>1. /\ i + 1 \in 1..Len(events) /\ i + 1 \in 2..(Len(events) + 1) /\ (i + 1) - 1 = i
        /\ events'[i] = events[i + 1]
    BY <1>4
  <2>2. PICK r : r = events[i + 1]
    OBVIOUS
  <2>3. r \in Sound /\ ~r.first /\ Ready(r, i + 1)
    BY <1>3, <1>4, <1>6, <2>1, <2>2
  <2>4. Ready(r, (i + 1) - 1)'
    BY <1>1, <1>5, <2>1, <2>3, ReadyNext
  <2>5. Ready(r, i)'
    BY <2>1, <2>4
  <2>. QED  BY <2>1, <2>2, <2>5
<1>7. ASSUME NEW a \in Apps, sending'[a] # <<>>, ~sending'[a][1].first
      PROVE  Ready(sending[a][1], Len(events) + 1)'
  <2>1. sending[a] # <<>> /\ ~sending[a][1].first /\ sending[a] \in Seq(Sound)
    BY <1>2, <1>7 DEF Base
  <2>2. PICK r : r = sending[a][1]
    OBVIOUS
  <2>3. r \in Sound /\ ~r.first /\ Ready(r, Len(events) + 1)
    BY <1>3, <2>1, <2>2, HeadAndTail
  <2>4. PICK hi : hi = Len(events) + 1
    OBVIOUS
  <2>5. hi \in 2..(Len(events) + 1) /\ Ready(r, hi) /\ hi - 1 = Len(events') + 1
    BY <1>4, <2>3, <2>4
  <2>6. Ready(r, hi - 1)'
    BY <1>1, <1>5, <2>3, <2>5, ReadyNext
  <2>. QED  BY <1>2, <2>2, <2>5, <2>6
<1>. QED  BY <1>6, <1>7 DEF Ordered

\* What is written at the end leaves what is ahead of it.
LEMMA ReadyStays ==
    ASSUME assembly' = assembly, Len(events) \in Nat,
           \A i \in 1..Len(events) : events'[i] = events[i],
           NEW r, NEW hi \in 1..(Len(events) + 1), Ready(r, hi)
    PROVE  Ready(r, hi)'
<1>1. \A k \in 1..(hi - 1) : k \in 1..Len(events) /\ events'[k] = events[k]
  OBVIOUS
<1>2. \A k \in 1..(hi - 1) : Other(k, r) => Other(k, r)'
  BY <1>1 DEF Other
<1>3. CASE /\ \A k \in 1..(hi - 1) : Other(k, r)
           /\ assembly # None /\ assembly.channel = r.channel => Holds(r)
  BY <1>2, <1>3 DEF Ready, Holds
<1>4. CASE \E j \in 1..(hi - 1) :
             Precedes(events[j], r) /\ \A k \in (j + 1)..(hi - 1) : Other(k, r)
  <2>1. PICK j \in 1..(hi - 1) :
          Precedes(events[j], r) /\ \A k \in (j + 1)..(hi - 1) : Other(k, r)
    BY <1>4
  <2>2. Precedes(events'[j], r)
    BY <1>1, <2>1
  <2>3. \A k \in (j + 1)..(hi - 1) : Other(k, r)'
    <3>1. \A k \in (j + 1)..(hi - 1) : k \in 1..(hi - 1)
      OBVIOUS
    <3>. QED  BY <1>2, <2>1, <3>1
  <2>. QED  BY <2>2, <2>3 DEF Ready
<1>. QED  BY <1>3, <1>4 DEF Ready

\* Nor does it come between a packet and the one before it, unless it is of the channel.
LEMMA ReadyAfter ==
    ASSUME assembly' = assembly, Len(events) \in Nat,
           \A i \in 1..Len(events) : events'[i] = events[i],
           NEW r, NEW hi \in 1..(Len(events) + 1), Ready(r, hi),
           ~(Part(events'[hi]) /\ events'[hi].channel = r.channel)
    PROVE  Ready(r, hi + 1)'
<1>1. Ready(r, hi)'
  BY ReadyStays
<1>2. Other(hi, r)'
  BY DEF Other
<1>3. \A k \in 1..((hi + 1) - 1) : k = hi \/ k \in 1..(hi - 1)
  OBVIOUS
<1>4. CASE (/\ \A k \in 1..(hi - 1) : Other(k, r)
            /\ assembly # None /\ assembly.channel = r.channel => Holds(r))'
  BY <1>2, <1>3, <1>4 DEF Ready
<1>5. CASE (\E j \in 1..(hi - 1) :
              Precedes(events[j], r) /\ \A k \in (j + 1)..(hi - 1) : Other(k, r))'
  <2>1. PICK j \in 1..(hi - 1) :
          Precedes(events'[j], r) /\ \A k \in (j + 1)..(hi - 1) : Other(k, r)'
    BY <1>5
  <2>2. j \in 1..((hi + 1) - 1)
    OBVIOUS
  <2>3. \A k \in (j + 1)..((hi + 1) - 1) : Other(k, r)'
    <3>1. \A k \in (j + 1)..((hi + 1) - 1) : k = hi \/ k \in (j + 1)..(hi - 1)
      OBVIOUS
    <3>. QED  BY <1>2, <2>1, <3>1
  <2>. QED  BY <2>1, <2>2, <2>3 DEF Ready
<1>. QED  BY <1>1, <1>4, <1>5 DEF Ready

\* Packets a program writes come after what it wrote, and on no other's channel.
LEMMA OrderedWrite ==
    ASSUME Base, Owned, Channelled, Ordered, NEW a \in Apps, AppWrites(a)
    PROVE  Ordered'
<1>. SUFFICES ASSUME ~lost'
              PROVE  Ordered'
  BY DEF Ordered
<1>. DEFINE h == sending[a][1]
<1>1. Moves(a)
  BY Writes
<1>2. /\ ~lost /\ assembly' = assembly /\ Len(events) \in Nat
      /\ Len(events') = Len(events) + 1 /\ events'[Len(events) + 1] = h
      /\ \A i \in 1..Len(events) : events'[i] = events[i]
      /\ h \in Sound /\ sending[a] # <<>>
  BY <1>1 DEF Moves
<1>3. /\ \A i \in 1..Len(events) : ~events[i].first => Ready(events[i], i)
      /\ \A b \in Apps : sending[b] # <<>> /\ ~sending[b][1].first =>
           Ready(sending[b][1], Len(events) + 1)
  BY <1>2 DEF Ordered
<1>4. ASSUME NEW i \in 1..Len(events'), ~events'[i].first
      PROVE  Ready(events[i], i)'
  <2>1. PICK r : r = events'[i]
    OBVIOUS
  <2>2. i \in 1..(Len(events) + 1) /\ Ready(r, i)
    <3>1. CASE i \in 1..Len(events)
      BY <1>2, <1>3, <1>4, <2>1, <3>1
    <3>2. CASE i \notin 1..Len(events)
      <4>1. i = Len(events) + 1
        BY <1>2, <3>2
      <4>. QED  BY <1>2, <1>3, <1>4, <2>1, <4>1
    <3>. QED  BY <3>1, <3>2
  <2>3. Ready(r, i)'
    BY <1>2, <2>2, ReadyStays
  <2>. QED  BY <2>1, <2>3
<1>5. ASSUME NEW b \in Apps \ {a}, sending'[b] # <<>>, ~sending'[b][1].first
      PROVE  Ready(sending[b][1], Len(events) + 1)'
  <2>1. PICK r : r = sending[b][1]
    OBVIOUS
  <2>2. sending'[b] = sending[b] /\ r = sending'[b][1] /\ r \in Sound /\ ~r.first
        /\ Ready(r, Len(events) + 1) /\ Len(sending[b]) \in Nat /\ Len(sending[b]) > 0
    <3>1. sending'[b] = sending[b] /\ sending[b] \in Seq(Sound)
      BY <1>1 DEF Moves, Base
    <3>. QED  BY <1>3, <1>5, <2>1, <3>1, HeadAndTail
  <2>3. r.channel = chan[b] /\ chan[b] # None
    <3>1. 1 \in 1..Len(sending[b]) /\ ~Empty(r)
      BY <2>2 DEF Empty
    <3>2. r.data[1].app = b /\ OwnChannel(r)
      BY <2>1, <3>1 DEF Owned, SendingOwned
    <3>. QED  BY <2>2, <3>2, OwnersExist DEF OwnChannel
  <2>4. Part(h) => h.channel = chan[a]
    <3>1. ASSUME Part(h)
          PROVE  h.channel = chan[a]
      <4>1. h.first => h.length \in Nat /\ h.length > First
        <5>1. h.first => h.length \in Nat
          BY <1>2 DEF Sound, Report
        <5>. QED  BY <3>1, <5>1 DEF Part
      <4>2. ~Empty(h)
        BY <4>1, Widths DEF Empty
      <4>3. 1 \in 1..Len(sending[a])
        BY <1>1 DEF Moves
      <4>4. h.data[1].app = a /\ OwnChannel(h)
        BY <4>2, <4>3 DEF Owned, SendingOwned
      <4>5. h.first => h.command # "init"
        BY <1>2, <4>1, <4>2, PieceOfFirst
      <4>. QED  BY <4>4, <4>5 DEF OwnChannel
    <3>. QED  BY <3>1
  <2>5. Part(h) => h.channel # r.channel
    BY <2>3, <2>4, ChannelsApart DEF Channelled
  <2>6. PICK hi : hi = Len(events) + 1
    OBVIOUS
  <2>7. Ready(r, hi + 1)'
    <3>1. /\ hi \in 1..(Len(events) + 1) /\ Ready(r, hi)
          /\ ~(Part(events'[hi]) /\ events'[hi].channel = r.channel)
      BY <1>2, <2>2, <2>5, <2>6
    <3>. QED  BY <1>2, <3>1, ReadyAfter
  <2>8. Len(events') + 1 = hi + 1
    BY <1>2, <2>6
  <2>. QED  BY <2>2, <2>7, <2>8
<1>6. ASSUME sending'[a] # <<>>, ~sending'[a][1].first
      PROVE  Ready(sending[a][1], Len(events) + 1)'
  <2>1. PICK r : r = sending'[a][1]
    OBVIOUS
  <2>2. Precedes(h, r)
    <3>1. sending'[a] \in Seq(Sound) /\ Len(sending'[a]) \in Nat /\ Len(sending'[a]) > 0
      <4>1. sending'[a] = Tail(sending[a]) /\ sending[a] \in Seq(Sound)
        BY DEF AppWrites, Base
      <4>2. sending'[a] \in Seq(Sound)
        BY <1>2, <4>1, HeadAndTail
      <4>. QED  BY <1>6, <4>2, HeadAndTail
    <3>2. 1 \in 1..Len(sending'[a]) /\ 1 + 1 = 2 /\ 2 - 1 = 1
      BY <3>1
    <3>3. 2 \in 2..Len(sending[a]) /\ sending'[a][1] = sending[a][2]
      BY <1>1, <3>2 DEF Moves
    <3>. QED  BY <2>1, <3>2, <3>3 DEF Owned, SendingOrdered
  <2>3. PICK hi : hi = Len(events') + 1
    OBVIOUS
  <2>4. Len(events') \in 1..(hi - 1) /\ events'[Len(events')] = h
        /\ \A k \in (Len(events') + 1)..(hi - 1) : FALSE
    BY <1>2, <2>3
  <2>5. PICK j \in 1..(hi - 1) : events'[j] = h /\ \A k \in (j + 1)..(hi - 1) : FALSE
    BY <2>4
  <2>6. Precedes(events'[j], r) /\ \A k \in (j + 1)..(hi - 1) : Other(k, r)'
    BY <2>2, <2>5
  <2>7. Ready(r, hi)'
    BY <2>6 DEF Ready
  <2>. QED  BY <2>1, <2>3, <2>7
<1>. QED  BY <1>4, <1>5, <1>6 DEF Ordered

\* Every step keeps the order, or says that a report was lost.
LEMMA OrderedStep ==
    Base /\ Owned /\ Channelled /\ Ordered /\ [Next]_vars => Ordered'
<1>. SUFFICES ASSUME Base, Owned, Channelled, Ordered, [Next]_vars
              PROVE  Ordered'
  OBVIOUS
<1>1. ASSUME UNCHANGED <<events, sending, assembly, lost>>
      PROVE  Ordered'
  BY <1>1 DEF Ordered, Ready, Other, Holds
<1>2. ASSUME NEW a \in Apps, AppInits(a) \/ AppSends(a)
      PROVE  Ordered'
  <2>1. PICK channel \in Channels, command \in Commands \cup {"init"}, length \in Nat :
               /\ command = "init" => length <= 1
               /\ command # "init" => length > 0
               /\ Begin(a, channel, command, length)
    BY <1>2, Begins
  <2>2. PICK f : f = Frame(channel, command, Message(a, sent[a] + 1, length))
    OBVIOUS
  <2>3. /\ sending'[a] = f /\ sent[a] + 1 \in Nat
        /\ \A b \in Apps \ {a} : sending'[b] = sending[b]
    BY <2>1, <2>2, BeginFrames
  <2>4. f[1].first
    <3>1. MessageFrame(f, channel, command, a, sent[a] + 1)
      BY <2>1, <2>2, <2>3, FrameOfMessage
    <3>. QED  BY <3>1 DEF MessageFrame
  <2>5. UNCHANGED <<events, assembly, lost>>
    BY <2>1 DEF Begin, helperVars
  <2>6. \A b \in Apps : sending'[b] # <<>> /\ ~sending'[b][1].first =>
          sending'[b] = sending[b]
    BY <2>3, <2>4
  <2>. QED  BY <2>5, <2>6 DEF Ordered, Ready, Other, Holds
<1>3. ASSUME NEW a \in Apps, AppTakesChannel(a)
      PROVE  Ordered'
  BY <1>1, <1>3 DEF AppTakesChannel, helperVars
<1>4. CASE \E a \in Apps : App(a)
  BY <1>2, <1>3, <1>4, OrderedWrite DEF App
<1>5. CASE ReadFirst \/ ReadContinuation
  BY <1>5, OrderedRead
<1>6. CASE Restart
  <2>1. Len(<<>>) = 0 /\ events' = <<>> /\ sending' = [a \in Apps |-> <<>>]
    BY <1>6, EmptySeq DEF Restart
  <2>. QED  BY <2>1 DEF Ordered
<1>7. CASE AnswerPhone \/ HostStops \/ Worker \/ UNCHANGED vars
  <2>1. UNCHANGED <<events, sending, assembly, lost>>
    BY <1>7 DEF AnswerPhone, HostStops, Worker, RequestFails, RequestSent, DaemonAnswers,
                ReadTimesOut, Work, appVars, helperVars, vars
  <2>. QED  BY <1>1, <2>1
<1>. QED  BY <1>4, <1>5, <1>6, <1>7 DEF Next

-------------------------------------------------------------------------------
(***************************************************************************)
(* Answers.                                                                *)
(***************************************************************************)

AskedWhole == asked # None => Whole(asked.payload)
AnswersWhole == \A x \in answers : x.command # "init" => Whole(x.of)

\* What is dispatched is whole, so is what it has answered or asked.
LEMMA DispatchWhole ==
    ASSUME NEW c, NEW command, NEW p, Dispatch(c, command, p), asked = None,
           AnswersWhole, command # "init" => Whole(p)
    PROVE  AnswersWhole' /\ AskedWhole'
<1>1. ASSUME NEW x, answers' = answers \cup {x}, x.command # "init" => Whole(x.of)
      PROVE  AnswersWhole'
  BY <1>1 DEF AnswersWhole
<1>2. answers' = answers => AnswersWhole'
  BY DEF AnswersWhole
<1>3. CASE command = "init"
  <2>1. UNCHANGED phoneVars
    BY <1>3 DEF Dispatch
  <2>2. AskedWhole'
    BY <2>1 DEF AskedWhole, phoneVars
  <2>3. CASE p # <<>>
    <3>. DEFINE x(given) == [channel |-> c, command |-> "init", of |-> p,
                             packets |-> Frame(c, "init", <<>>), assigned |-> given]
    <3>1. PICK given : answers' = answers \cup {x(given)}
      BY <1>3, <2>3 DEF Dispatch, Answer
    <3>2. x(given).command = "init"
      OBVIOUS
    <3>. HIDE DEF x
    <3>. QED  BY <1>1, <2>2, <3>1, <3>2
  <2>4. CASE p = <<>>
    BY <1>2, <1>3, <2>2, <2>4 DEF Dispatch
  <2>. QED  BY <2>3, <2>4
<1>4. CASE command \in {"ping", "info", "cancel"}
  <2>. DEFINE x == [channel |-> c, command |-> command, of |-> p,
                    packets |-> Frame(c, command, IF command = "ping" THEN p ELSE <<>>),
                    assigned |-> None]
  <2>1. answers' = answers \cup {x} /\ UNCHANGED phoneVars
    BY <1>4 DEF Dispatch, Answer
  <2>2. Whole(x.of)
    BY <1>4
  <2>. HIDE DEF x
  <2>. QED  BY <1>1, <2>1, <2>2 DEF AskedWhole, phoneVars
<1>5. CASE command \in {"makecred", "assert"}
  <2>1. asked' = [channel |-> c, command |-> command, payload |-> p] /\ answers' = answers
    BY <1>5 DEF Dispatch
  <2>2. Whole(asked'.payload)
    BY <1>5, <2>1
  <2>. QED  BY <1>2, <2>1, <2>2 DEF AskedWhole
<1>. QED  BY <1>3, <1>4, <1>5 DEF Dispatch

\* A packet that is a whole message has all of it.
LEMMA SingleIsWhole ==
    ASSUME NEW r \in Sound, r.first, r.length <= First, r.command # "init"
    PROVE  Whole(SubSeq(r.data, 1, r.length))
<1>1. ~Empty(r)
  BY DEF Sound, Empty
<1>2. /\ r.data[1] \in Byte /\ r.length \in Nat /\ r.length > 0 /\ r.data[1].of = r.length
      /\ \A i \in 1..First : i <= r.length => r.data[i] = At(r.data[1], i)
  BY <1>1, PieceOfFirst
<1>3. PICK p : p = SubSeq(r.data, 1, r.length)
  OBVIOUS
<1>4. p \in Payload /\ Len(p) = r.length /\ \A i \in 1..r.length : p[i] = r.data[i]
  BY <1>3, SingleTyped
<1>5. \A i \in 1..Len(p) : p[i] = At(r.data[1], i)
  <2>1. \A i \in 1..r.length : i \in 1..First /\ i <= r.length
    BY <1>2, Widths
  <2>. QED  BY <1>2, <1>4, <2>1
<1>. QED  BY <1>2, <1>3, <1>4, <1>5, PrefixIsWhole

\* What is read is dispatched whole, unless the kernel dropped a report.
LEMMA WholeRead ==
    Base /\ Ordered /\ WholeHeld /\ (ReadFirst \/ ReadContinuation) => WholeHeld'
<1>. SUFFICES ASSUME Base, Ordered, WholeHeld, ~lost', NEW r, Reads(r),
                     \/ /\ r.first
                        /\ \/ UNCHANGED <<phoneVars, answers>>
                           \/ /\ r.length <= First
                              /\ Dispatch(r.channel, r.command, SubSeq(r.data, 1, r.length))
                     \/ /\ ~r.first
                        /\ \/ UNCHANGED <<phoneVars, answers>>
                           \/ /\ Continues(r) /\ Complete(Extended(r))
                              /\ Dispatch(assembly.channel, assembly.command, Extended(r))
              PROVE  AnswersWhole' /\ AskedWhole'
  BY DEF ReadFirst, ReadContinuation, WholeHeld, AnswersWhole, AskedWhole
<1>1. /\ ~lost /\ asked = None /\ r = events[1] /\ r \in Sound
      /\ Len(events) \in Nat /\ Len(events) > 0
  BY ReadTyped DEF Reads
<1>2. AnswersWhole
  BY <1>1 DEF WholeHeld, AnswersWhole
<1>3. CASE UNCHANGED <<phoneVars, answers>>
  BY <1>1, <1>2, <1>3 DEF AnswersWhole, AskedWhole, phoneVars
<1>4. CASE /\ r.first /\ r.length <= First
           /\ Dispatch(r.channel, r.command, SubSeq(r.data, 1, r.length))
  <2>1. r.command # "init" => Whole(SubSeq(r.data, 1, r.length))
    BY <1>1, <1>4, SingleIsWhole
  <2>. QED  BY <1>1, <1>2, <1>4, <2>1, DispatchWhole
<1>5. CASE /\ ~r.first /\ Continues(r) /\ Complete(Extended(r))
           /\ Dispatch(assembly.channel, assembly.command, Extended(r))
  <2>1. Ready(r, 1)
    BY <1>1, <1>5 DEF Ordered
  <2>2. assembly # None /\ Holds(r)
    <3>1. ~\E j \in 1..(1 - 1) : Precedes(events[j], r)
      OBVIOUS
    <3>. QED  BY <1>5, <2>1, <3>1 DEF Ready, Continues
  <2>3. PICK b, p : b = r.data[1] /\ p = Extended(r)
    OBVIOUS
  <2>4. /\ p \in Payload /\ Len(p) = b.of /\ \A i \in 1..Len(p) : p[i] = At(b, i)
    BY <1>1, <1>5, <2>2, <2>3, ExtendedHolds
  <2>5. b \in Byte /\ b.of > 0
    <3>1. b \in Byte /\ b.at \in Nat /\ b.of \in Nat /\ b.at > First /\ b.at <= b.of
      BY <1>1, <1>5, <2>3, PieceOfContinuation
    <3>. QED  BY <3>1, Widths
  <2>6. Whole(Extended(r))
    BY <2>3, <2>4, <2>5, PrefixIsWhole
  <2>. QED  BY <1>1, <1>2, <1>5, <2>6, DispatchWhole
<1>. QED  BY <1>3, <1>4, <1>5

\* An echo is what it answers.
LEMMA DispatchEchoes ==
    ASSUME Echoes, NEW c \in Channels, NEW command \in Commands \cup {"init"},
           NEW p \in Payload, Dispatch(c, command, p)
    PROVE  Echoes'
<1>1. ASSUME NEW x, answers' = answers \cup {x},
             x.command = "ping" => Unframed(x.packets) = x.of
      PROVE  Echoes'
  BY <1>1 DEF Echoes
<1>2. CASE answers' = answers
  BY <1>2 DEF Echoes
<1>3. CASE command = "init" /\ p # <<>>
  <2>. DEFINE x(given) == [channel |-> c, command |-> "init", of |-> p,
                           packets |-> Frame(c, "init", <<>>), assigned |-> given]
  <2>1. PICK given : answers' = answers \cup {x(given)}
    BY <1>3 DEF Dispatch, Answer
  <2>2. x(given).command # "ping"
    OBVIOUS
  <2>. HIDE DEF x
  <2>. QED  BY <1>1, <2>1, <2>2
<1>4. CASE command \in {"ping", "info", "cancel"}
  <2>. DEFINE x == [channel |-> c, command |-> command, of |-> p,
                    packets |-> Frame(c, command, IF command = "ping" THEN p ELSE <<>>),
                    assigned |-> None]
  <2>1. answers' = answers \cup {x}
    BY <1>4 DEF Dispatch, Answer
  <2>2. x.command = command /\ x.of = p
        /\ (command = "ping" => x.packets = Frame(c, command, p))
    OBVIOUS
  <2>. HIDE DEF x
  <2>3. Unframed(Frame(c, command, p)) = p
    BY EchoIsWhole
  <2>4. x.command = "ping" => Unframed(x.packets) = x.of
    BY <2>2, <2>3
  <2>. QED  BY <1>1, <2>1, <2>4
<1>. QED  BY <1>2, <1>3, <1>4 DEF Dispatch

\* Reading keeps the echoes true.
LEMMA EchoesRead == Base /\ Echoes /\ (ReadFirst \/ ReadContinuation) => Echoes'
<1>. SUFFICES ASSUME Base, Echoes, NEW r, Reads(r),
                     \/ answers' = answers
                     \/ /\ r.first /\ r.length <= First
                        /\ Dispatch(r.channel, r.command, SubSeq(r.data, 1, r.length))
                     \/ /\ ~r.first /\ Continues(r)
                        /\ Dispatch(assembly.channel, assembly.command, Extended(r))
              PROVE  Echoes'
  BY DEF ReadFirst, ReadContinuation
<1>1. r \in Sound /\ r \in Report /\ r.channel \in Channels
  BY ReadTyped
<1>2. CASE answers' = answers
  BY <1>2 DEF Echoes
<1>3. CASE /\ r.first /\ r.length <= First
           /\ Dispatch(r.channel, r.command, SubSeq(r.data, 1, r.length))
  <2>1. r.command \in Commands \cup {"init"} /\ SubSeq(r.data, 1, r.length) \in Payload
    BY <1>1, <1>3, SingleTyped
  <2>. QED  BY <1>1, <1>3, <2>1, DispatchEchoes
<1>4. CASE /\ ~r.first /\ Continues(r)
           /\ Dispatch(assembly.channel, assembly.command, Extended(r))
  <2>1. assembly # None /\ assembly \in Assembling
    BY <1>4 DEF Continues, Base, TypeOK
  <2>2. assembly.channel \in Channels /\ assembly.command \in Commands \cup {"init"}
        /\ Extended(r) \in Payload
    BY <1>1, <1>4, <2>1, ExtendedTyped DEF Assembling
  <2>. QED  BY <1>4, <2>2, DispatchEchoes
<1>. QED  BY <1>2, <1>3, <1>4

\* Every step keeps answers whole and echoes true.
LEMMA WholeStep ==
    Base /\ Ordered /\ WholeHeld /\ Echoes /\ [Next]_vars => WholeHeld' /\ Echoes'
<1>. SUFFICES ASSUME Base, Ordered, WholeHeld, Echoes, [Next]_vars
              PROVE  WholeHeld' /\ Echoes'
  OBVIOUS
<1>1. ASSUME UNCHANGED <<asked, answers>>, lost' = lost \/ lost' = TRUE
      PROVE  WholeHeld' /\ Echoes'
  BY <1>1 DEF WholeHeld, Echoes
<1>2. CASE \E a \in Apps : App(a)
  <2>1. ASSUME NEW a \in Apps, AppInits(a) \/ AppSends(a)
        PROVE  UNCHANGED <<asked, answers, lost>>
    BY <2>1 DEF AppInits, AppSends, Begin, phoneVars
  <2>2. ASSUME NEW a \in Apps, AppWrites(a)
        PROVE  UNCHANGED <<asked, answers>> /\ (lost' = lost \/ lost' = TRUE)
    BY <2>2 DEF AppWrites, phoneVars
  <2>3. ASSUME NEW a \in Apps, AppTakesChannel(a)
        PROVE  UNCHANGED <<asked, answers, lost>>
    BY <2>3 DEF AppTakesChannel, phoneVars
  <2>. QED  BY <1>1, <1>2, <2>1, <2>2, <2>3 DEF App
<1>3. CASE ReadFirst \/ ReadContinuation
  BY <1>3, WholeRead, EchoesRead
<1>4. CASE AnswerPhone
  <2>1. asked \in Asking /\ asked # None /\ lost' = lost /\ asked' = None
    BY <1>4, NoneApart DEF AnswerPhone, Base, TypeOK
  <2>. DEFINE x == [channel |-> asked.channel, command |-> asked.command,
                    of |-> asked.payload,
                    packets |-> Frame(asked.channel, asked.command, <<>>),
                    assigned |-> None]
  <2>2. answers' = answers \cup {x}
    BY <1>4 DEF AnswerPhone, Answer
  <2>3. x.command # "ping" /\ x.of = asked.payload
    BY <2>1 DEF Asking
  <2>. HIDE DEF x
  <2>. QED  BY <2>1, <2>2, <2>3 DEF WholeHeld, Echoes
<1>5. CASE HostStops
  BY <1>1, <1>5 DEF HostStops, phoneVars
<1>6. CASE Restart
  <2>1. asked = None /\ asked' = asked /\ answers' = {} /\ lost' = lost
    BY <1>6 DEF Restart, Base, phoneVars
  <2>. QED  BY <2>1 DEF WholeHeld, Echoes
<1>7. CASE Worker
  BY <1>1, <1>7 DEF Worker, RequestFails, RequestSent, DaemonAnswers, ReadTimesOut, Work
<1>8. CASE UNCHANGED vars
  BY <1>1, <1>8 DEF vars, phoneVars
<1>. QED  BY <1>2, <1>3, <1>4, <1>5, <1>6, <1>7, <1>8 DEF Next

\* Every answer is to what the program its channel was given to has sent, to one whole
\* message of it unless the kernel dropped a report, and an echo is that message: for
\* any programs, messages and sizes of reports, however their packets interleave, as
\* long as there are fewer messages than channels.
THEOREM AnswersAreOwnCorrect ==
    ASSUME ChannelsSuffice
    PROVE  Spec => []AnswersAreOwn
<1>. DEFINE Inv == Base /\ Owned /\ Channelled /\ Held /\ Ordered /\ WholeHeld /\ Echoes
<1>1. Init => Inv
  <2>1. Init => Held /\ WholeHeld /\ Echoes
    BY DEF Init, Held, AssemblyOwned, AskedOwned, AnswersOwned, WholeHeld, Echoes
  <2>. QED  BY <2>1, BaseInit, OwnedInit, ChannelledInit, OrderedInit
<1>2. Inv /\ [Next]_vars => Inv'
  BY BaseStep, OwnedStep, ChannelledStep, HeldStep, OrderedStep, WholeStep
<1>3. Inv => AnswersAreOwn
  <2>. SUFFICES ASSUME Base, Held, WholeHeld, Echoes,
                       NEW x \in answers, x.command # "init"
                PROVE  /\ \E y \in Assignments :
                            /\ y.assigned = x.channel
                            /\ \A byte \in Range(x.of) \ {None} : byte.app = y.of[1].app
                       /\ ~lost => Whole(x.of)
                       /\ x.command = "ping" => Unframed(x.packets) = x.of
    BY DEF AnswersAreOwn
  <2>1. DOMAIN x.of = 1..Len(x.of)
    <3>1. x.of \in Payload
      BY DEF Base, TypeOK
    <3>. QED  BY <3>1, LenProperties DEF Payload
  <2>2. PICK y \in Assignments :
          /\ y.assigned = x.channel
          /\ \A i \in 1..Len(x.of) : x.of[i] = None \/ x.of[i].app = y.of[1].app
    BY DEF Held, AnswersOwned, Attributed
  <2>3. \A byte \in Range(x.of) \ {None} : byte.app = y.of[1].app
    BY <2>1, <2>2 DEF Range
  <2>. QED  BY <2>2, <2>3 DEF WholeHeld, Echoes
<1>. QED  BY <1>1, <1>2, <1>3, PTL DEF Spec
================================================================================
