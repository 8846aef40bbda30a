---------------------------- MODULE CServer_proof ----------------------------
(***************************************************************************)
(* Proofs about the echo server, for any sessions, any bytes the peers may *)
(* send, any cut of them into reads, any MAX_SENDQUE and any MAX_LENGTH    *)
(* that MsgNode's shorts can hold.                                         *)
(***************************************************************************)
EXTENDS CServer, SequenceLemmas, SequenceTheorems, TLAPS

(* Flattening a sequence of sequences *)

\* f[i] is what the first i sequences of q give, for i up to n.
IsFlat(f, q, n) == f = [i \in 1..n |-> IF i = 1 THEN q[i] ELSE f[i-1] \o q[i]]

\* There is such an f.
LEMMA FlatExists ==
  ASSUME NEW q, NEW n \in Nat
  PROVE  \E f : IsFlat(f, q, n)
<1> DEFINE G == {k \in Nat : \E f : IsFlat(f, q, k)}
<1>1. 0 \in G
  <2>1. IsFlat([i \in 1..0 |-> 0], q, 0)
    BY DEF IsFlat
  <2> QED
    BY <2>1
<1>2. ASSUME NEW k \in G PROVE k + 1 \in G
  <2>1. PICK f : IsFlat(f, q, k)
    BY <1>2
  <2>2. /\ k \in Nat
        /\ \A i \in 1..k : f[i] = IF i = 1 THEN q[i] ELSE f[i-1] \o q[i]
    BY <2>1 DEF IsFlat
  <2> DEFINE g == [i \in 1..(k + 1) |->
                     IF i <= k THEN f[i] ELSE IF i = 1 THEN q[i] ELSE f[i-1] \o q[i]]
  <2>3. ASSUME NEW i \in 1..(k + 1) PROVE g[i] = IF i = 1 THEN q[i] ELSE g[i-1] \o q[i]
    <3>1. CASE i <= k
      <4>1. g[i] = f[i] /\ (i # 1 => g[i-1] = f[i-1])
        BY <2>2, <3>1
      <4> QED
        BY <2>2, <3>1, <4>1
    <3>2. CASE i = k + 1 /\ i # 1
      <4>1. ~(i <= k) /\ i - 1 \in 1..(k + 1) /\ i - 1 <= k
        BY <2>2, <3>2
      <4>2. g[i] = f[i-1] \o q[i] /\ g[i-1] = f[i-1]
        BY <3>2, <4>1, Zenon
      <4> QED
        BY <3>2, <4>2, Zenon
    <3>3. CASE i = k + 1 /\ i = 1
      BY <2>2, <3>3
    <3> QED
      BY <2>2, <3>1, <3>2, <3>3
  <2>4. g = [i \in 1..(k + 1) |-> g[i]]
    OBVIOUS
  <2> HIDE DEF g
  <2>5. IsFlat(g, q, k + 1)
    BY <2>3, <2>4, Zenon DEF IsFlat
  <2> QED
    BY <2>2, <2>5
<1> HIDE DEF G
<1>3. n \in G
  BY <1>1, <1>2, NaturalsBySteps DEF G
<1> QED
  BY <1>3 DEF G

\* It gives sequences.
LEMMA FlatType ==
  ASSUME NEW S, NEW q, NEW n \in Nat, \A i \in 1..n : q[i] \in Seq(S), NEW f, IsFlat(f, q, n)
  PROVE  \A i \in 1..n : f[i] \in Seq(S)
<1> DEFINE G == {k \in Nat : k \in 1..n => f[k] \in Seq(S)}
<1>0. \A i \in 1..n : f[i] = IF i = 1 THEN q[i] ELSE f[i-1] \o q[i]
  BY DEF IsFlat
<1>1. 0 \in G
  OBVIOUS
<1>2. ASSUME NEW k \in G PROVE k + 1 \in G
  <2>1. CASE k + 1 \in 1..n
    <3>1. CASE k = 0
      BY <1>0, <2>1, <3>1
    <3>2. CASE k # 0
      <4>1. /\ k \in Nat /\ k \in 1..n /\ k + 1 # 1 /\ (k + 1) - 1 = k
            /\ f[k] \in Seq(S) /\ q[k + 1] \in Seq(S)
        BY <1>2, <2>1, <3>2
      <4>2. f[k + 1] = f[k] \o q[k + 1]
        BY <1>0, <2>1, <4>1, Zenon
      <4>3. f[k + 1] \in Seq(S)
        BY <4>1, <4>2, ConcatProperties, ZenonT(30)
      <4> QED
        BY <4>1, <4>3
    <3> QED
      BY <3>1, <3>2
  <2> QED
    BY <2>1
<1> HIDE DEF G
<1>3. \A k \in Nat : k \in G
  BY <1>1, <1>2, NaturalsBySteps DEF G
<1> QED
  BY <1>3 DEF G

Agree(q, r, n) == \A i \in 1..n : q[i] = r[i]

\* It depends on the sequences flattened only.
LEMMA FlatAgree ==
  ASSUME NEW q, NEW r, NEW n \in Nat, NEW m \in Nat, n <= m, Agree(q, r, n),
         NEW f, NEW g, IsFlat(f, q, n), IsFlat(g, r, m)
  PROVE  Agree(f, g, n)
<1> DEFINE G == {k \in Nat : k \in 1..n => f[k] = g[k]}
<1>0. /\ \A i \in 1..n : f[i] = IF i = 1 THEN q[i] ELSE f[i-1] \o q[i]
      /\ \A i \in 1..m : g[i] = IF i = 1 THEN r[i] ELSE g[i-1] \o r[i]
  BY DEF IsFlat
<1>1. 0 \in G
  OBVIOUS
<1>2. ASSUME NEW k \in G PROVE k + 1 \in G
  <2>1. CASE k + 1 \in 1..n
    <3>0. k + 1 \in 1..m /\ (k + 1) - 1 = k /\ q[k + 1] = r[k + 1]
      BY <1>2, <2>1 DEF Agree
    <3>1. CASE k = 0
      BY <1>0, <2>1, <3>0, <3>1
    <3>2. CASE k # 0
      <4>1. k \in Nat /\ f[k] = g[k] /\ k + 1 # 1
        BY <1>2, <2>1, <3>2
      <4>2. f[k + 1] = f[k] \o q[k + 1] /\ g[k + 1] = g[k] \o r[k + 1]
        BY <1>0, <2>1, <3>0, <4>1, Zenon
      <4>3. f[k + 1] = g[k + 1]
        BY <3>0, <4>1, <4>2, Zenon
      <4> QED
        BY <4>1, <4>3
    <3> QED
      BY <3>1, <3>2
  <2> QED
    BY <2>1
<1> HIDE DEF G
<1>3. \A k \in Nat : k \in G
  BY <1>1, <1>2, NaturalsBySteps DEF G
<1> QED
  BY <1>3 DEF G, Agree

\* The library's FlattenSeq is the last of them.
LEMMA FlattenIs ==
  ASSUME NEW q, Len(q) \in Nat, Len(q) # 0
  PROVE  \E f : IsFlat(f, q, Len(q)) /\ FlattenSeq(q) = f[Len(q)]
<1> DEFINE f == CHOOSE f : f = [i \in 1..Len(q) |-> IF i = 1 THEN q[i] ELSE f[i-1] \o q[i]]
<1>1. FlattenSeq(q) = f[Len(q)]
  BY Zenon DEF FlattenSeq
<1>2. \E g : g = [i \in 1..Len(q) |-> IF i = 1 THEN q[i] ELSE g[i-1] \o q[i]]
  BY FlatExists, Zenon DEF IsFlat
<1>3. f = [i \in 1..Len(q) |-> IF i = 1 THEN q[i] ELSE f[i-1] \o q[i]]
  BY <1>2, Zenon
<1> QED
  BY <1>1, <1>3, Zenon DEF IsFlat

\* Flattening gives a sequence.
LEMMA FlattenType ==
  ASSUME NEW S, NEW q \in Seq(Seq(S))
  PROVE  FlattenSeq(q) \in Seq(S)
<1>0. Len(q) \in Nat /\ \A i \in 1..Len(q) : q[i] \in Seq(S)
  OBVIOUS
<1>1. CASE Len(q) = 0
  <2>1. FlattenSeq(q) = q /\ q = << >>
    BY <1>1, EmptySeq, Zenon DEF FlattenSeq
  <2> QED
    BY <2>1
<1>2. CASE Len(q) # 0
  <2>1. PICK f : IsFlat(f, q, Len(q)) /\ FlattenSeq(q) = f[Len(q)]
    BY <1>0, <1>2, FlattenIs, Zenon
  <2>2. \A i \in 1..Len(q) : f[i] \in Seq(S)
    BY <1>0, <2>1, FlatType, Zenon
  <2>3. Len(q) \in 1..Len(q)
    BY <1>0, <1>2
  <2> QED
    BY <2>1, <2>2, <2>3, Zenon
<1> QED
  BY <1>1, <1>2

\* One more sequence at the end.
LEMMA FlattenAppend ==
  ASSUME NEW S, NEW q \in Seq(Seq(S)), NEW x \in Seq(S)
  PROVE  FlattenSeq(Append(q, x)) = FlattenSeq(q) \o x
<1> DEFINE r == Append(q, x)
           n == Len(q)
<1>0. /\ n \in Nat /\ Len(r) = n + 1 /\ r[n + 1] = x
      /\ \A i \in 1..n : q[i] = r[i]
      /\ n + 1 \in Nat /\ n + 1 # 0 /\ n <= n + 1 /\ n + 1 \in 1..(n + 1) /\ (n + 1) - 1 = n
  OBVIOUS
<1> HIDE DEF r, n
<1>1. PICK g : IsFlat(g, r, n + 1) /\ FlattenSeq(r) = g[n + 1]
  BY <1>0, FlattenIs, Zenon
<1>2. g[n + 1] = IF n + 1 = 1 THEN r[n + 1] ELSE g[n] \o r[n + 1]
  <2>1. g[n + 1] = IF n + 1 = 1 THEN r[n + 1] ELSE g[(n + 1) - 1] \o r[n + 1]
    BY <1>0, <1>1, Zenon DEF IsFlat
  <2> QED
    BY <1>0, <2>1, Zenon
<1>3. CASE n = 0
  <2>1. FlattenSeq(q) = << >>
    BY <1>3, EmptySeq, Zenon DEF FlattenSeq, n
  <2>2. << >> \o x = x
    BY ConcatEmptySeq
  <2>3. n + 1 = 1
    BY <1>3
  <2>4. g[n + 1] = x
    BY <1>0, <1>2, <2>3, Zenon
  <2> QED
    BY <1>1, <2>1, <2>2, <2>4, Zenon DEF r
<1>4. CASE n # 0
  <2>1. PICK f : IsFlat(f, q, n) /\ FlattenSeq(q) = f[n]
    BY <1>0, <1>4, FlattenIs, Zenon DEF n
  <2>2. Agree(f, g, n)
    <3>1. Agree(q, r, n)
      BY <1>0, Zenon DEF Agree
    <3> QED
      BY <1>0, <1>1, <2>1, <3>1, FlatAgree, Zenon
  <2>3. n \in 1..n /\ n + 1 # 1
    BY <1>0, <1>4
  <2> QED
    BY <1>0, <1>1, <1>2, <2>1, <2>2, <2>3, Zenon DEF r, Agree
<1> QED
  BY <1>3, <1>4

-----------------------------------------------------------------------------
(* Frames and the bytes on the wire *)

\* Concatenating bytes gives bytes, as many as both.
LEMMA ByteConcat ==
  ASSUME NEW s \in Seq(Bytes), NEW t \in Seq(Bytes)
  PROVE  s \o t \in Seq(Bytes) /\ Len(s \o t) = Len(s) + Len(t)
BY ConcatProperties

\* The order of concatenations does not matter.
LEMMA ByteAssoc ==
  ASSUME NEW s \in Seq(Bytes), NEW t \in Seq(Bytes), NEW u \in Seq(Bytes)
  PROVE  (s \o t) \o u = s \o (t \o u)
BY ConcatAssociative

\* What HandleRead may hand over: a body of at most MAX_LENGTH bytes.
Framable == {b \in Seq(Bytes) : Len(b) <= MAX_LENGTH}

\* The first length that a short does not hold.
FrameLimit == 32768

\* Two bytes are the quotient and the remainder of the length they make up.
LEMMA TwoBytes ==
  ASSUME NEW a \in Int, NEW b \in Bytes
  PROVE  (a * 256 + b) \div 256 = a /\ (a * 256 + b) % 256 = b
BY SMT DEF Bytes

\* Every length is made up of two such numbers.
LEMMA EveryLength ==
  ASSUME NEW n \in Nat
  PROVE  \E a \in Nat, b \in Bytes : n = a * 256 + b
<1> DEFINE G == {k \in Nat : \E a \in Nat, b \in Bytes : k = a * 256 + b}
<1>1. 0 \in G
  <2>1. 0 \in Nat /\ 0 \in Bytes /\ 0 = 0 * 256 + 0
    BY DEF Bytes
  <2> QED
    BY <2>1
<1>2. ASSUME NEW k \in G PROVE k + 1 \in G
  <2>1. PICK a \in Nat, b \in Bytes : k = a * 256 + b
    BY <1>2
  <2>2. CASE b = 255
    <3>1. a + 1 \in Nat /\ 0 \in Bytes /\ k + 1 = (a + 1) * 256 + 0
      BY <2>1, <2>2 DEF Bytes
    <3>2. \E c \in Nat, d \in Bytes : k + 1 = c * 256 + d
      BY <3>1, ZenonT(30)
    <3> QED
      BY <3>2
  <2>3. CASE b # 255
    <3>1. b + 1 \in Bytes /\ k + 1 = a * 256 + (b + 1)
      BY <2>1, <2>3 DEF Bytes
    <3>2. \E c \in Nat, d \in Bytes : k + 1 = c * 256 + d
      BY <3>1, ZenonT(30)
    <3> QED
      BY <3>2
  <2> QED
    BY <2>2, <2>3
<1> HIDE DEF G
<1>3. n \in G
  BY <1>1, <1>2, NaturalsBySteps DEF G
<1> QED
  BY <1>3 DEF G

\* A header is two bytes, whatever it says.
LEMMA HeaderIs ==
  ASSUME NEW n \in Int
  PROVE  /\ Header(n) \in Seq(Bytes) /\ Len(Header(n)) = 2
         /\ Header(n)[1] = (n \div 256) % 256 /\ Header(n)[2] = n % 256
<1>1. (n \div 256) % 256 \in Bytes /\ n % 256 \in Bytes
  BY SMT DEF Bytes
<1> QED
  BY <1>1 DEF Header

\* DataLen reads what a header says, whatever the header, negative lengths included.
LEMMA DataLenIs ==
  ASSUME NEW h \in Seq(Bytes), Len(h) = 2
  PROVE  DataLen(h) \in Int /\ h = Header(DataLen(h))
<1>0. PICK a \in Bytes, b \in Bytes : h[1] = a /\ h[2] = b
  OBVIOUS
<1> DEFINE c == IF a * 256 + b < 32768 THEN a ELSE a - 256
           n == c * 256 + b
<1>1. c \in Int /\ n \in Int /\ c % 256 = a
  BY SMT DEF Bytes
<1>2. DataLen(h) = n
  <2>1. DataLen(h) = IF a * 256 + b < 32768 THEN a * 256 + b ELSE a * 256 + b - 65536
    BY <1>0 DEF DataLen, Bytes
  <2> QED
    BY <2>1 DEF Bytes
<1> HIDE DEF c
<1>3. n \div 256 = c /\ n % 256 = b
  BY <1>1, TwoBytes, ZenonT(30)
<1> HIDE DEF n
<1>4. /\ Header(n) \in Seq(Bytes) /\ Len(Header(n)) = 2
      /\ Header(n)[1] = a /\ Header(n)[2] = b
  BY <1>1, <1>3, HeaderIs, ZenonT(30)
<1>5. \A i \in 1..Len(h) : h[i] = Header(n)[i]
  BY <1>0, <1>4
<1>6. h = Header(n)
  BY <1>4, <1>5, SeqEqual
<1> QED
  BY <1>1, <1>2, <1>6, Zenon

\* And it reads what was written there.
LEMMA DataLenOf ==
  ASSUME NEW n \in Nat, n < FrameLimit
  PROVE  DataLen(Header(n)) = n
<1>1. PICK a \in Nat, b \in Bytes : n = a * 256 + b
  BY EveryLength
<1>2. n \div 256 = a /\ n % 256 = b
  <2>1. ASSUME NEW c \in Int PROVE (c * 256 + b) \div 256 = c /\ (c * 256 + b) % 256 = b
    BY TwoBytes
  <2>2. a \in Int
    BY <1>1
  <2> QED
    BY <1>1, <2>1, <2>2, Zenon
<1>3. a % 256 = a /\ a * 256 + b < 32768
  BY <1>1 DEF Bytes, FrameLimit
<1>4. Header(n)[1] = a /\ Header(n)[2] = b
  BY <1>2, <1>3 DEF Header
<1>5. a * 256 + b \in Int /\ a \in Int /\ b \in Int
  BY <1>1 DEF Bytes
<1> QED
  BY <1>1, <1>3, <1>4, <1>5 DEF DataLen

\* A frame is its header and its body.
LEMMA FrameIs ==
  ASSUME NEW b \in Framable
  PROVE  /\ b \in Seq(Bytes) /\ Len(b) \in Nat /\ Len(b) < FrameLimit
         /\ Frame(b) = Header(Len(b)) \o b
         /\ Frame(b) \in Seq(Bytes) /\ Len(Frame(b)) = Len(b) + 2
<1>1. b \in Seq(Bytes) /\ Len(b) \in Nat /\ Len(b) < FrameLimit
  BY LengthAssumption DEF Framable, HEAD_LENGTH, FrameLimit
<1>2. Frame(b) = Header(Len(b)) \o b
  BY DEF Frame
<1>3. Header(Len(b)) \in Seq(Bytes) /\ Len(Header(Len(b))) = 2
  BY <1>1, HeaderIs
<1>4. /\ Header(Len(b)) \o b \in Seq(Bytes)
      /\ Len(Header(Len(b)) \o b) = Len(Header(Len(b))) + Len(b)
  BY <1>1, <1>3, ConcatProperties, Zenon
<1>5. Len(Header(Len(b))) + Len(b) = Len(b) + 2
  BY <1>1, <1>3
<1> QED
  BY <1>1, <1>2, <1>4, <1>5, Zenon

\* Bodies, framed.
LEMMA FramedType ==
  ASSUME NEW p \in Seq(Framable)
  PROVE  [i \in DOMAIN p |-> Frame(p[i])] \in Seq(Seq(Bytes))
<1>1. \A i \in DOMAIN p : Frame(p[i]) \in Seq(Bytes)
  BY FrameIs
<1> QED
  BY <1>1

\* What is on the wire is bytes.
LEMMA WireType ==
  ASSUME NEW p \in Seq(Framable)
  PROVE  Wire(p) \in Seq(Bytes)
BY FramedType, FlattenType, Zenon DEF Wire

\* No message, no bytes.
LEMMA WireEmpty == Wire(<< >>) = << >>
<1>1. [i \in DOMAIN << >> |-> Frame(<< >>[i])] = << >>
  OBVIOUS
<1>2. Len(<< >>) = 0
  OBVIOUS
<1> QED
  BY <1>1, <1>2, Zenon DEF Wire, FlattenSeq

\* One more message at the end.
LEMMA WireAppend ==
  ASSUME NEW p \in Seq(Framable), NEW b \in Framable
  PROVE  Wire(Append(p, b)) = Wire(p) \o Frame(b)
<1> DEFINE F(q) == [i \in DOMAIN q |-> Frame(q[i])]
<1>1. F(p) \in Seq(Seq(Bytes)) /\ Frame(b) \in Seq(Bytes)
  BY FramedType, FrameIs
<1>2. F(Append(p, b)) = Append(F(p), Frame(b))
  <2>1. Append(p, b) \in Seq(Framable)
    OBVIOUS
  <2>2. F(Append(p, b)) \in Seq(Seq(Bytes)) /\ Append(F(p), Frame(b)) \in Seq(Seq(Bytes))
    BY <1>1, <2>1, FramedType
  <2>3. /\ Len(F(Append(p, b))) = Len(p) + 1 /\ Len(Append(F(p), Frame(b))) = Len(p) + 1
        /\ Len(p) \in Nat
    BY <1>1
  <2>4. \A i \in 1..(Len(p) + 1) : F(Append(p, b))[i] = Append(F(p), Frame(b))[i]
    OBVIOUS
  <2> QED
    BY <2>2, <2>3, <2>4, SeqEqual
<1>3. FlattenSeq(Append(F(p), Frame(b))) = FlattenSeq(F(p)) \o Frame(b)
  BY <1>1, FlattenAppend, Zenon
<1> QED
  BY <1>2, <1>3, Zenon DEF Wire

\* No frame begins another: the bytes on the wire leave no choice of the messages in them.
LEMMA FirstFrame ==
  ASSUME NEW b \in Framable, NEW c \in Framable, NEW r \in Seq(Bytes), NEW t \in Seq(Bytes),
         Frame(b) \o r = Frame(c) \o t
  PROVE  b = c
<1> DEFINE X(z, y) == Frame(z) \o y
<1>1. ASSUME NEW z \in Framable, NEW y \in Seq(Bytes)
      PROVE  /\ Len(z) \in Nat /\ Len(z) < FrameLimit /\ z \in Seq(Bytes) /\ Len(Header(Len(z))) = 2
             /\ Header(Len(z)) \in Seq(Bytes)
             /\ \A i \in 1..2 : X(z, y)[i] = Header(Len(z))[i]
             /\ \A i \in 1..Len(z) : X(z, y)[i + 2] = z[i]
  <2>1. /\ z \in Seq(Bytes) /\ Len(z) \in Nat /\ Len(z) < FrameLimit
        /\ Frame(z) = Header(Len(z)) \o z
        /\ Frame(z) \in Seq(Bytes) /\ Len(Frame(z)) = Len(z) + 2
    BY FrameIs
  <2>2. Header(Len(z)) \in Seq(Bytes) /\ Len(Header(Len(z))) = 2
    BY <2>1, HeaderIs
  <2>3. \A i \in 1..(2 + Len(z)) :
          Frame(z)[i] = IF i <= 2 THEN Header(Len(z))[i] ELSE z[i - 2]
    BY <2>1, <2>2, ConcatProperties
  <2>4. \A i \in 1..(Len(Frame(z)) + Len(y)) :
          X(z, y)[i] = IF i <= Len(Frame(z)) THEN Frame(z)[i] ELSE y[i - Len(Frame(z))]
    BY <2>1, ConcatProperties
  <2>5. Len(y) \in Nat
    OBVIOUS
  <2>6. \A i \in 1..(2 + Len(z)) : X(z, y)[i] = Frame(z)[i]
    BY <2>1, <2>4, <2>5
  <2>7. \A i \in 1..2 : X(z, y)[i] = Header(Len(z))[i]
    BY <2>1, <2>3, <2>6
  <2>8. ASSUME NEW i \in 1..Len(z) PROVE X(z, y)[i + 2] = z[i]
    <3>1. i + 2 \in 1..(2 + Len(z)) /\ ~(i + 2 <= 2) /\ (i + 2) - 2 = i
      BY <2>1
    <3> QED
      BY <2>3, <2>6, <3>1
  <2> QED
    BY <2>1, <2>2, <2>7, <2>8
<1>2. X(b, r) = X(c, t)
  OBVIOUS
<1> HIDE DEF X
<1>b. /\ \A i \in 1..2 : X(b, r)[i] = Header(Len(b))[i]
      /\ \A i \in 1..Len(b) : X(b, r)[i + 2] = b[i]
  BY <1>1, Zenon
<1>c. /\ \A i \in 1..2 : X(c, t)[i] = Header(Len(c))[i]
      /\ \A i \in 1..Len(c) : X(c, t)[i + 2] = c[i]
  BY <1>1, Zenon
<1>3. Header(Len(b)) = Header(Len(c))
  <2>1. \A i \in 1..2 : Header(Len(b))[i] = Header(Len(c))[i]
    BY <1>b, <1>c, <1>2
  <2>2. /\ Header(Len(b)) \in Seq(Bytes) /\ Header(Len(c)) \in Seq(Bytes)
        /\ Len(Header(Len(b))) = 2 /\ Len(Header(Len(c))) = 2
    BY <1>1
  <2> QED
    BY <2>1, <2>2, SeqEqual
<1>4. Len(b) = Len(c)
  <2>1. DataLen(Header(Len(b))) = Len(b) /\ DataLen(Header(Len(c))) = Len(c)
    BY <1>1, DataLenOf, Zenon
  <2> QED
    BY <1>3, <2>1, Zenon
<1>5. \A i \in 1..Len(b) : b[i] = c[i]
  BY <1>b, <1>c, <1>2, <1>4, Zenon
<1> QED
  BY <1>1, <1>4, <1>5, SeqEqual

-----------------------------------------------------------------------------
(* The inductive invariant *)

Buffers == {d \in Seq(Bytes) : Len(d) <= MAX_LENGTH}
Heads   == {h \in Seq(Bytes) : Len(h) < HEAD_LENGTH}
Nodes   == {m \in [total : Int, data : Seq(Bytes)] : -1 <= m.total /\ m.total <= MAX_LENGTH}

\* The sessions made, accepted and kept, and the accept under way.
Sessioning ==
  /\ _sessions \subseteq started /\ started \subseteq Sessions
  /\ handling \in Sessions \cup {NoSession}
  /\ accepting \in Sessions \cup {NoSession} /\ accepting \notin started
  /\ acceptState \in {"pending", "done", "failed"}
  /\ acceptState = "done" => accepting \in Sessions

SocketShape ==
  /\ _b_close \in [Sessions -> BOOLEAN]
  /\ reading \in [Sessions -> {"none", "pending", "done", "failed"}]
  /\ stream \in [Sessions -> Seq(Bytes)]
  /\ script \in [Sessions -> Seq(Bytes)]

RecvShape ==
  /\ _data \in [Sessions -> Buffers]
  /\ _b_head_parse \in [Sessions -> BOOLEAN]
  /\ _recv_head_node \in [Sessions -> Heads]
  /\ _recv_msg_node \in [Sessions -> Nodes]
  /\ parsed \in [Sessions -> Seq(Framable)]

SendShape ==
  /\ _send_que \in [Sessions -> Seq(Seq(Bytes))]
  /\ writing \in [Sessions -> Seq(Seq(Bytes))]
  /\ written \in [Sessions -> {"none", "done", "failed"}]
  /\ accepted \in [Sessions -> Seq(Seq(Bytes))]
  /\ echoed \in [Sessions -> Seq(Seq(Bytes))]

Shape == Sessioning /\ SocketShape /\ RecvShape /\ SendShape

\* A session that was not accepted yet has received nothing and reads nothing.
Fresh(s) ==
  s \notin started =>
    /\ reading[s] = "none" /\ handling # s
    /\ _data[s] = << >> /\ ~_b_head_parse[s] /\ _recv_head_node[s] = << >>
    /\ parsed[s] = << >>

\* Of the bytes q, p has been handed over, h is of the message under way, d in the buffer, r unread.
Whole(p, h, d, r, q) == Wire(p) \o h \o d \o r = q

(***************************************************************************)
(* What the buffer holds is read only while no read may overwrite it, and  *)
(* no byte is lost.                                                        *)
(***************************************************************************)
Receiving(s) ==
  /\ reading[s] = "pending" => _data[s] = << >>
  /\ handling = s => reading[s] = "none"
  /\ Whole(parsed[s], InProgress(s), _data[s], stream[s], script[s])

\* What is being written is the first of the queue, which is therefore not empty.
Sending(s) ==
  /\ writing[s] # << >> =>
       _send_que[s] # << >> /\ written[s] = "none" /\ writing[s] = <<Head(_send_que[s])>>
  /\ _send_que[s] = << >> => written[s] = "none"
  /\ _send_que[s] # << >> /\ ~_b_close[s] => writing[s] # << >> \/ written[s] # "none"
  /\ accepted[s] = echoed[s] \o (IF written[s] = "done" THEN Tail(_send_que[s]) ELSE _send_que[s])

\* A session in the map reads or is in its handler.
Alive(s) == s \in _sessions => reading[s] # "none" \/ handling = s

\* Every session is right.  The inductive invariant is Shape /\ EachRight.
EachRight == \A t \in Sessions : Fresh(t) /\ Receiving(t) /\ Alive(t) /\ Sending(t)

-----------------------------------------------------------------------------
(* Cutting what was received *)

\* The first n bytes and the rest.
LEMMA Cut ==
  ASSUME NEW d \in Seq(Bytes), NEW n \in Nat, n <= Len(d)
  PROVE  /\ First(d, n) \in Seq(Bytes) /\ Len(First(d, n)) = n
         /\ Without(d, n) \in Seq(Bytes) /\ Len(Without(d, n)) = Len(d) - n
         /\ First(d, n) \o Without(d, n) = d
<1>1. First(d, n) \in Seq(Bytes) /\ Len(First(d, n)) = n
  BY SubSeqProperties DEF First
<1>2. Without(d, n) \in Seq(Bytes) /\ Len(Without(d, n)) = Len(d) - n
  BY SubSeqProperties DEF Without
<1>3. SubSeq(d, 1, n) \o SubSeq(d, n + 1, Len(d)) = SubSeq(d, 1, Len(d))
  <2>1. 1 \in 1..(Len(d) + 1) /\ n \in (1 - 1)..Len(d) /\ Len(d) \in n..Len(d)
    OBVIOUS
  <2> QED
    BY <2>1, ConcatAdjacentSubSeq
<1>4. SubSeq(d, 1, Len(d)) = d
  BY SubSeqFull
<1> QED
  BY <1>1, <1>2, <1>3, <1>4, Zenon DEF First, Without

\* A header that is not complete.
LEMMA ShortHead ==
  ASSUME NEW h \in Seq(Bytes), NEW d \in Seq(Bytes), Len(d) + Len(h) < HEAD_LENGTH
  PROVE  h \o d \in Heads
<1>1. h \o d \in Seq(Bytes) /\ Len(h \o d) < HEAD_LENGTH
  BY ByteConcat
<1> QED
  BY <1>1, Zenon DEF Heads

\* Enough bytes for the header h.
Enough(h, d) == Len(d) + Len(h) >= HEAD_LENGTH

\* The first n of the bytes d, copied behind h, complete the header.
HeadCut(h, d, n) ==
  /\ h \o First(d, n) \in Seq(Bytes) /\ Len(h \o First(d, n)) = 2
  /\ Without(d, n) \in Seq(Bytes) /\ Len(Without(d, n)) <= Len(d)
  /\ (h \o First(d, n)) \o Without(d, n) = h \o d

\* The missing bytes of a header, copied behind those it has.
LEMMA CutHead ==
  ASSUME NEW h \in Heads, NEW d \in Seq(Bytes), Enough(h, d)
  PROVE  HeadCut(h, d, HEAD_LENGTH - Len(h))
<1> DEFINE n == HEAD_LENGTH - Len(h)
<1> DEFINE f == First(d, n)
           w == h \o f
           a == Without(d, n)
<1>1. h \in Seq(Bytes) /\ Len(h) \in Nat /\ n \in Nat /\ n <= Len(d) /\ Len(h) + n = 2
  BY DEF Heads, HEAD_LENGTH, Enough
<1>2. /\ f \in Seq(Bytes) /\ Len(f) = n
      /\ Without(d, n) \in Seq(Bytes) /\ Len(Without(d, n)) = Len(d) - n
      /\ f \o Without(d, n) = d
  BY <1>1, Cut, Zenon
<1>3. w = h \o f /\ a = Without(d, n)
  OBVIOUS
<1> HIDE DEF f, w, a, n
<1>4. w \in Seq(Bytes) /\ Len(w) = 2
  BY <1>1, <1>2, <1>3, ByteConcat
<1>5. a \in Seq(Bytes) /\ Len(a) <= Len(d)
  BY <1>1, <1>2, <1>3
<1>6. (h \o f) \o a = h \o (f \o a)
  BY <1>1, <1>2, <1>5, ByteAssoc, Zenon
<1> QED
  BY <1>2, <1>3, <1>4, <1>5, <1>6, Zenon DEF f, n, HeadCut

-----------------------------------------------------------------------------
(* No byte is lost *)

\* A peer has connected and none of its bytes has been read.
LEMMA WholeAtStart ==
  ASSUME NEW q \in Seq(Bytes)
  PROVE  Whole(<< >>, << >>, << >>, q, q)
<1>1. << >> \o << >> = << >>
  OBVIOUS
<1>2. << >> \o q = q
  BY ConcatEmptySeq
<1> QED
  BY <1>1, <1>2, WireEmpty, Zenon DEF Whole

\* Bytes are read into the buffer, which is empty.
LEMMA WholeAfterRead ==
  ASSUME NEW p \in Seq(Framable), NEW q \in Seq(Bytes), NEW h \in Seq(Bytes),
         NEW r \in Seq(Bytes), NEW d2 \in Seq(Bytes), NEW r2 \in Seq(Bytes), d2 \o r2 = r,
         Whole(p, h, << >>, r, q)
  PROVE  Whole(p, h, d2, r2, q)
<1> DEFINE w == Wire(p) \o h
<1>1. Wire(p) \in Seq(Bytes)
  BY WireType
<1>2. w \in Seq(Bytes)
  BY <1>1, ByteConcat
<1>3. w \o << >> \o r = q
  BY DEF Whole
<1> HIDE DEF w
<1>4. w \o << >> = w
  BY <1>2, ConcatEmptySeq
<1>5. (w \o d2) \o r2 = w \o (d2 \o r2)
  BY <1>2, ByteAssoc, Zenon
<1> QED
  BY <1>3, <1>4, <1>5, Zenon DEF Whole, w

\* Bytes are copied from the buffer.
LEMMA WholeRegrouped ==
  ASSUME NEW p \in Seq(Framable), NEW q \in Seq(Bytes), NEW h \in Seq(Bytes),
         NEW d \in Seq(Bytes), NEW r \in Seq(Bytes), NEW h2 \in Seq(Bytes), NEW d2 \in Seq(Bytes),
         h \o d = h2 \o d2, Whole(p, h, d, r, q)
  PROVE  Whole(p, h2, d2, r, q)
<1>1. Wire(p) \in Seq(Bytes)
  BY WireType
<1>2. Wire(p) \o h \o d = Wire(p) \o (h \o d)
  BY <1>1, ByteAssoc, Zenon
<1>3. Wire(p) \o h2 \o d2 = Wire(p) \o (h2 \o d2)
  BY <1>1, ByteAssoc, Zenon
<1> QED
  BY <1>2, <1>3, Zenon DEF Whole

\* A message is complete and handed over.
LEMMA WholeAfterMessage ==
  ASSUME NEW p \in Seq(Framable), NEW q \in Seq(Bytes), NEW h \in Seq(Bytes),
         NEW d \in Seq(Bytes), NEW r \in Seq(Bytes), NEW b \in Framable, NEW d2 \in Seq(Bytes),
         h \o d = Frame(b) \o d2, Whole(p, h, d, r, q)
  PROVE  Whole(Append(p, b), << >>, d2, r, q)
<1> DEFINE f == Frame(b)
<1>1. Wire(p) \in Seq(Bytes) /\ f \in Seq(Bytes)
  BY WireType, FrameIs
<1>2. Whole(p, f, d2, r, q)
  BY <1>1, WholeRegrouped, Zenon
<1>3. /\ Wire(p) \o f \in Seq(Bytes) /\ d2 \o r \in Seq(Bytes) /\ f \o d2 \in Seq(Bytes)
  BY <1>1, ByteConcat
<1> HIDE DEF f
<1>4. ((Wire(p) \o f) \o d2) \o r = (Wire(p) \o f) \o (d2 \o r)
  <2> DEFINE x == Wire(p) \o f
  <2>1. x \in Seq(Bytes)
    BY <1>3
  <2> HIDE DEF x
  <2>2. (x \o d2) \o r = x \o (d2 \o r)
    BY <2>1, ByteAssoc, Zenon
  <2> QED
    BY <2>2, Zenon DEF x
<1>6. (Wire(p) \o f) \o (d2 \o r) = q
  BY <1>2, <1>4, Zenon DEF Whole
<1>7. Wire(Append(p, b)) \o (d2 \o r) = q
  BY <1>6, WireAppend, Zenon DEF f
<1>8. Append(p, b) \in Seq(Framable)
  OBVIOUS
<1>9. Wire(Append(p, b)) \in Seq(Bytes)
  BY <1>8, WireType
<1>10. Wire(Append(p, b)) \o << >> = Wire(Append(p, b))
  BY <1>9, ConcatEmptySeq
<1>11. (Wire(Append(p, b)) \o d2) \o r = Wire(Append(p, b)) \o (d2 \o r)
  BY <1>9, ByteAssoc, Zenon
<1> QED
  BY <1>7, <1>10, <1>11, Zenon DEF Whole

-----------------------------------------------------------------------------
(* The rounds of HandleRead's loop *)

\* The part of a message that has been received.
Received(bp, h, m) == IF bp THEN Header(m.total) \o m.data ELSE h

\* The lengths of a node: -1, which HandleRead lets through, or a body's.
Lengths == {n \in Int : -1 <= n /\ n <= MAX_LENGTH}

\* A component of the session has a value of its type in a session.
LEMMA Typed ==
  ASSUME Shape, NEW s \in Sessions
  PROVE  /\ stream[s] \in Seq(Bytes) /\ script[s] \in Seq(Bytes)
         /\ _data[s] \in Buffers /\ _recv_head_node[s] \in Heads /\ _recv_msg_node[s] \in Nodes
         /\ parsed[s] \in Seq(Framable) /\ _b_head_parse[s] \in BOOLEAN
         /\ _data[s] \in Seq(Bytes) /\ Len(_data[s]) \in Nat /\ Len(_data[s]) <= MAX_LENGTH
         /\ _recv_head_node[s] \in Seq(Bytes) /\ Len(_recv_head_node[s]) \in Nat
         /\ _recv_msg_node[s].total \in Lengths
         /\ _recv_msg_node[s].data \in Seq(Bytes)
<1>1. /\ stream[s] \in Seq(Bytes) /\ script[s] \in Seq(Bytes)
      /\ _data[s] \in Buffers /\ _recv_head_node[s] \in Heads /\ _recv_msg_node[s] \in Nodes
      /\ parsed[s] \in Seq(Framable) /\ _b_head_parse[s] \in BOOLEAN
  BY Zenon DEF Shape, SocketShape, RecvShape
<1>2. _data[s] \in Seq(Bytes) /\ Len(_data[s]) \in Nat /\ Len(_data[s]) <= MAX_LENGTH
  BY <1>1 DEF Buffers
<1>3. _recv_head_node[s] \in Seq(Bytes) /\ Len(_recv_head_node[s]) \in Nat
  <2>1. _recv_head_node[s] \in Seq(Bytes)
    BY <1>1, Zenon DEF Heads
  <2> QED
    BY <2>1
<1>4. /\ _recv_msg_node[s].total \in Lengths
      /\ _recv_msg_node[s].data \in Seq(Bytes)
  <2> DEFINE m == _recv_msg_node[s]
  <2>1. m \in [total : Int, data : Seq(Bytes)] /\ -1 <= m.total /\ m.total <= MAX_LENGTH
    BY <1>1, Zenon DEF Nodes
  <2> HIDE DEF m
  <2>2. m.total \in Int /\ m.data \in Seq(Bytes)
    BY <2>1
  <2> QED
    BY <2>1, <2>2, Zenon DEF m, Lengths
<1> QED
  BY <1>1, <1>2, <1>3, <1>4, Zenon

\* InProgress in these terms.
LEMMA InProgressIs ==
  ASSUME Shape, NEW s \in Sessions
  PROVE  /\ InProgress(s) = Received(_b_head_parse[s], _recv_head_node[s], _recv_msg_node[s])
         /\ InProgress(s) \in Seq(Bytes)
<1> DEFINE m == _recv_msg_node[s]
<1>1. m.total \in Int /\ m.data \in Seq(Bytes) /\ _recv_head_node[s] \in Seq(Bytes)
  BY Typed, Zenon DEF Lengths
<1>2. Header(m.total) \in Seq(Bytes)
  BY <1>1, HeaderIs
<1>3. Header(m.total) \o m.data \in Seq(Bytes)
  BY <1>1, <1>2, ByteConcat
<1>4. InProgress(s) = Received(_b_head_parse[s], _recv_head_node[s], m)
  BY Zenon DEF InProgress, Received
<1>5. Received(_b_head_parse[s], _recv_head_node[s], m) \in Seq(Bytes)
  BY <1>1, <1>3, Zenon DEF Received
<1> QED
  BY <1>4, <1>5, Zenon

\* A round that copies all that is left in the buffer and reads again.
Copies(s) ==
  /\ handling = s
  /\ \E bp \in BOOLEAN, h \in Heads, m \in Nodes :
       /\ Received(bp, h, m) = InProgress(s) \o _data[s]
       /\ _b_head_parse' = [_b_head_parse EXCEPT ![s] = bp]
       /\ _recv_head_node' = [_recv_head_node EXCEPT ![s] = h]
       /\ _recv_msg_node' = [_recv_msg_node EXCEPT ![s] = m]
  /\ ReadMore(s)
  /\ UNCHANGED <<_sessions, _b_close, stream, sendVars, written, script, parsed, echoed>>

\* A round that completes a message and hands it to Send.
Completes(s) ==
  /\ handling = s
  /\ \E total \in Int, b \in Framable, rest \in Buffers :
       /\ [total |-> total, data |-> b] \in Nodes
       /\ InProgress(s) \o _data[s] = Frame(b) \o rest
       /\ MessageComplete(s, total, b, rest)

\* A function does not change where it gets the value it has.
LEMMA SameValue ==
  ASSUME NEW S, NEW T, NEW f \in [S -> T], NEW x \in S, NEW v, f[x] = v
  PROVE  f = [f EXCEPT ![x] = v]
OBVIOUS

\* HeadShort copies.
LEMMA HeadShortCopies ==
  ASSUME Shape, NEW s \in Sessions, HeadShort(s)
  PROVE  Copies(s)
<1> DEFINE h == _recv_head_node[s] \o _data[s]
<1>1. /\ _data[s] \in Seq(Bytes) /\ _recv_head_node[s] \in Seq(Bytes) /\ _recv_msg_node[s] \in Nodes
      /\ Len(_data[s]) \in Nat /\ Len(_recv_head_node[s]) \in Nat
  BY Typed
<1>2. ~_b_head_parse[s] /\ Len(_data[s]) + Len(_recv_head_node[s]) < HEAD_LENGTH
  BY Zenon DEF HeadShort
<1>4. h \in Heads
  BY <1>1, <1>2, ShortHead, Zenon
<1>5. InProgress(s) = _recv_head_node[s]
  BY <1>2, Zenon DEF InProgress
<1>6. Received(FALSE, h, _recv_msg_node[s]) = InProgress(s) \o _data[s]
  BY <1>5, Zenon DEF Received
<1>7. _b_head_parse' = [_b_head_parse EXCEPT ![s] = FALSE]
  <2>1. _b_head_parse[s] = FALSE
    BY <1>2, Typed, Zenon
  <2>2. _b_head_parse' = _b_head_parse
    BY DEF HeadShort
  <2> QED
    BY <2>1, <2>2, SameValue, Zenon DEF Shape, RecvShape
<1>8. _recv_msg_node' = [_recv_msg_node EXCEPT ![s] = _recv_msg_node[s]]
  <2>1. _recv_msg_node' = _recv_msg_node
    BY DEF HeadShort
  <2> QED
    BY <2>1, SameValue, Zenon DEF Shape, RecvShape
<1>9. _recv_head_node' = [_recv_head_node EXCEPT ![s] = h]
  BY Zenon DEF HeadShort
<1>10. /\ handling = s /\ ReadMore(s)
       /\ UNCHANGED <<_sessions, _b_close, stream, sendVars, written, script, parsed, echoed>>
  BY DEF HeadShort
<1> HIDE DEF h
<1>11. \E bp \in BOOLEAN, k \in Heads, m \in Nodes :
         /\ Received(bp, k, m) = InProgress(s) \o _data[s]
         /\ _b_head_parse' = [_b_head_parse EXCEPT ![s] = bp]
         /\ _recv_head_node' = [_recv_head_node EXCEPT ![s] = k]
         /\ _recv_msg_node' = [_recv_msg_node EXCEPT ![s] = m]
  <2>1. FALSE \in BOOLEAN
    OBVIOUS
  <2> QED
    BY <1>1, <1>4, <1>6, <1>7, <1>8, <1>9, <2>1, Zenon
<1> QED
  BY <1>10, <1>11, Zenon DEF Copies

\* The header once it is complete, and what follows it.
LEMMA WholeHeadIs ==
  ASSUME Shape, NEW s \in Sessions, HeadComplete(s)
  PROVE  /\ DataLen(WholeHead(s)) \in Int
         /\ AfterHead(s) \in Seq(Bytes) /\ Len(AfterHead(s)) <= Len(_data[s])
         /\ Header(DataLen(WholeHead(s))) \o AfterHead(s) = InProgress(s) \o _data[s]
<1>1. /\ _data[s] \in Seq(Bytes) /\ _recv_head_node[s] \in Heads
      /\ Len(_data[s]) + Len(_recv_head_node[s]) >= HEAD_LENGTH /\ ~_b_head_parse[s]
  BY Typed, Zenon DEF HeadComplete
<1>2. /\ WholeHead(s) = _recv_head_node[s] \o First(_data[s], HeadRemain(s))
      /\ AfterHead(s) = Without(_data[s], HeadRemain(s))
      /\ HeadRemain(s) = HEAD_LENGTH - Len(_recv_head_node[s])
  BY Zenon DEF WholeHead, AfterHead, HeadRemain
<1>3. /\ WholeHead(s) \in Seq(Bytes) /\ Len(WholeHead(s)) = 2
      /\ AfterHead(s) \in Seq(Bytes) /\ Len(AfterHead(s)) <= Len(_data[s])
      /\ WholeHead(s) \o AfterHead(s) = _recv_head_node[s] \o _data[s]
  <2>1. Enough(_recv_head_node[s], _data[s])
    BY <1>1, Zenon DEF Enough
  <2>2. HeadCut(_recv_head_node[s], _data[s], HEAD_LENGTH - Len(_recv_head_node[s]))
    BY <1>1, <2>1, CutHead, Zenon
  <2> QED
    BY <1>2, <2>2, Zenon DEF HeadCut
<1>4. /\ DataLen(WholeHead(s)) \in Int
      /\ WholeHead(s) = Header(DataLen(WholeHead(s)))
  BY <1>3, DataLenIs, Zenon
<1>5. InProgress(s) = _recv_head_node[s]
  BY <1>1, Zenon DEF InProgress
<1> QED
  BY <1>3, <1>4, <1>5, Zenon

\* A node for a body of n bytes that holds b.
Node(n, b) == [total |-> n, data |-> b]

\* A node of such a length.
LEMMA NodeIs ==
  ASSUME NEW n \in Lengths, NEW b \in Seq(Bytes)
  PROVE  /\ Node(n, b) \in Nodes /\ Node(n, b).total = n /\ Node(n, b).data = b
<1>1. n \in Int /\ -1 <= n /\ n <= MAX_LENGTH
  BY DEF Lengths
<1>2. /\ Node(n, b) \in [total : Int, data : Seq(Bytes)]
      /\ Node(n, b).total = n /\ Node(n, b).data = b
  BY <1>1 DEF Node
<1> QED
  BY <1>1, <1>2, Zenon DEF Nodes

\* Copying bytes to a node.
LEMMA NodeCopied ==
  ASSUME NEW m \in Nodes, NEW b
  PROVE  [m EXCEPT !.data = b] = Node(m.total, b) /\ m.total \in Lengths
<1>1. m \in [total : Int, data : Seq(Bytes)] /\ -1 <= m.total /\ m.total <= MAX_LENGTH
  BY Zenon DEF Nodes
<1>2. [m EXCEPT !.data = b] = [total |-> m.total, data |-> b]
  BY <1>1
<1>3. m.total \in Int
  BY <1>1
<1> QED
  BY <1>1, <1>2, <1>3, Zenon DEF Node, Lengths

\* The bytes d are n at least, as HandleRead's size_t sees it.
Long(d, n) == ~LessSize(Len(d), n)

\* b is a message of n bytes, whole, with rest behind it; h is all of that.
Finished(n, b, rest, h) ==
  /\ b \in Framable /\ rest \in Buffers /\ Node(n, b) \in Nodes
  /\ h = Frame(b) \o rest

\* The rest of a body completes the message.
LEMMA BodyFinished ==
  ASSUME NEW n \in Lengths, NEW m \in Seq(Bytes), NEW d \in Buffers,
         Long(d, n - Len(m))
  PROVE  Finished(n, m \o First(d, n - Len(m)), Without(d, n - Len(m)), (Header(n) \o m) \o d)
<1> DEFINE k == n - Len(m)
           f == First(d, k)
           r == Without(d, k)
           b == m \o f
<1>1. /\ n \in Nat /\ n <= MAX_LENGTH /\ d \in Seq(Bytes) /\ Len(d) \in Nat
      /\ Len(d) <= MAX_LENGTH /\ Len(m) \in Nat /\ k \in Nat /\ k <= Len(d) /\ Len(m) + k = n
  BY LengthAssumption DEF Lengths, Buffers, LessSize, Long
<1>2. /\ f \in Seq(Bytes) /\ Len(f) = k /\ r \in Seq(Bytes) /\ Len(r) = Len(d) - k
      /\ f \o r = d
  BY <1>1, Cut, Zenon
<1> HIDE DEF k, f, r
<1>3. b \in Seq(Bytes) /\ Len(b) = n
  BY <1>1, <1>2, ByteConcat
<1>4. b \in Framable
  BY <1>1, <1>3 DEF Framable
<1>5. r \in Buffers
  <2>1. Len(r) <= MAX_LENGTH
    BY <1>1, <1>2, LengthAssumption
  <2> QED
    BY <1>2, <2>1, Zenon DEF Buffers
<1>6. Node(n, b) \in Nodes
  BY <1>3, NodeIs
<1> HIDE DEF b
<1>7. Frame(b) = Header(n) \o b
  BY <1>3, <1>4, FrameIs
<1>8. Header(n) \in Seq(Bytes)
  BY <1>1, HeaderIs
<1>9. (Header(n) \o m) \o d = Header(n) \o (m \o d)
  BY <1>1, <1>8, ByteAssoc, Zenon
<1>10. (m \o f) \o r = m \o (f \o r)
  BY <1>2, ByteAssoc, Zenon
<1>11. (Header(n) \o b) \o r = Header(n) \o (b \o r)
  BY <1>2, <1>3, <1>8, ByteAssoc, Zenon
<1>12. (Header(n) \o m) \o d = Frame(b) \o r
  BY <1>2, <1>7, <1>9, <1>10, <1>11, Zenon DEF b
<1> QED
  BY <1>4, <1>5, <1>6, <1>12, Zenon DEF Finished, k, f, r, b

\* A header and a whole body behind it.
LEMMA HeadFinished ==
  ASSUME NEW n \in Lengths, NEW a \in Buffers, Long(a, n)
  PROVE  Finished(n, First(a, n), Without(a, n), Header(n) \o a)
<1> DEFINE f == First(a, n)
           r == Without(a, n)
<1>1. /\ n \in Nat /\ n <= MAX_LENGTH /\ a \in Seq(Bytes) /\ Len(a) \in Nat
      /\ Len(a) <= MAX_LENGTH /\ n <= Len(a)
  BY LengthAssumption DEF Lengths, Buffers, LessSize, Long
<1>2. /\ f \in Seq(Bytes) /\ Len(f) = n /\ r \in Seq(Bytes) /\ Len(r) = Len(a) - n
      /\ f \o r = a
  BY <1>1, Cut, Zenon
<1> HIDE DEF f, r
<1>3. f \in Framable
  BY <1>1, <1>2 DEF Framable
<1>4. r \in Buffers
  <2>1. Len(r) <= MAX_LENGTH
    BY <1>1, <1>2, LengthAssumption
  <2> QED
    BY <1>2, <2>1, Zenon DEF Buffers
<1>5. Node(n, f) \in Nodes
  BY <1>2, NodeIs
<1>6. Frame(f) = Header(n) \o f
  BY <1>2, <1>3, FrameIs
<1>7. Header(n) \in Seq(Bytes)
  BY <1>1, HeaderIs
<1>8. (Header(n) \o f) \o r = Header(n) \o (f \o r)
  BY <1>2, <1>7, ByteAssoc, Zenon
<1> QED
  BY <1>2, <1>3, <1>4, <1>5, <1>6, <1>8, Zenon DEF Finished, f, r

\* HeadThenWhole completes a message.
LEMMA HeadThenWholeCompletes ==
  ASSUME Shape, NEW s \in Sessions, HeadThenWhole(s)
  PROVE  Completes(s)
<1> DEFINE n == DataLen(WholeHead(s))
           a == AfterHead(s)
<1>1. HeadComplete(s) /\ n <= MAX_LENGTH /\ Long(a, n)
  BY Zenon DEF HeadThenWhole, Long
<1>2. /\ n \in Int /\ a \in Seq(Bytes) /\ Len(a) <= Len(_data[s])
      /\ Header(n) \o a = InProgress(s) \o _data[s]
  BY <1>1, WholeHeadIs, Zenon
<1>3. MessageComplete(s, n, First(a, n), Without(a, n)) /\ handling = s
  BY Zenon DEF HeadThenWhole, HeadComplete
<1>4. Len(_data[s]) \in Nat /\ Len(_data[s]) <= MAX_LENGTH
  BY Typed
<1> HIDE DEF n, a
<1>5. n \in Lengths
  BY <1>1, <1>2 DEF Lengths, LessSize, Long
<1>6. a \in Buffers
  <2>1. ASSUME NEW x \in Nat, x <= MAX_LENGTH, Len(a) <= x PROVE Len(a) <= MAX_LENGTH
    BY <1>2, <2>1, LengthAssumption
  <2>2. Len(a) <= MAX_LENGTH
    BY <1>2, <1>4, <2>1, Zenon
  <2> QED
    BY <1>2, <2>2, Zenon DEF Buffers
<1>7. Finished(n, First(a, n), Without(a, n), Header(n) \o a)
  BY <1>1, <1>5, <1>6, HeadFinished, Zenon
<1> QED
  BY <1>2, <1>3, <1>7, Zenon DEF Completes, Finished, Node

\* BodyWhole completes a message.
LEMMA BodyWholeCompletes ==
  ASSUME Shape, NEW s \in Sessions, BodyWhole(s)
  PROVE  Completes(s)
<1> DEFINE n == _recv_msg_node[s].total
           m == _recv_msg_node[s].data
           k == n - Len(m)
<1>1. n \in Lengths /\ n \in Int
  BY Typed, Zenon DEF Lengths
<1>2. m \in Seq(Bytes) /\ _data[s] \in Buffers
  BY Typed, Zenon
<1>3. handling = s /\ _b_head_parse[s] /\ Long(_data[s], k)
  BY Zenon DEF BodyWhole, RemainMsg, Long
<1>5. MessageComplete(s, n, m \o First(_data[s], k), Without(_data[s], k))
  BY Zenon DEF BodyWhole, RemainMsg
<1>6. InProgress(s) = Header(n) \o m
  BY <1>3, InProgressIs, Zenon DEF Received
<1> HIDE DEF n, m
<1>7. Finished(n, m \o First(_data[s], k), Without(_data[s], k), (Header(n) \o m) \o _data[s])
  BY <1>1, <1>2, <1>3, BodyFinished, Zenon
<1> QED
  BY <1>1, <1>3, <1>5, <1>6, <1>7, Zenon DEF Completes, Finished, Node

\* HeadThenPart copies.
LEMMA HeadThenPartCopies ==
  ASSUME Shape, NEW s \in Sessions, HeadThenPart(s)
  PROVE  Copies(s)
<1> DEFINE n == DataLen(WholeHead(s))
           a == AfterHead(s)
<1>1. HeadComplete(s) /\ handling = s /\ n \in -1..MAX_LENGTH
  BY Zenon DEF HeadThenPart, HeadComplete
<1>2. /\ n \in Int /\ a \in Seq(Bytes)
      /\ Header(n) \o a = InProgress(s) \o _data[s]
  BY <1>1, WholeHeadIs, Zenon
<1>3. /\ _recv_msg_node' = [_recv_msg_node EXCEPT ![s] = Node(n, a)]
      /\ _b_head_parse' = [_b_head_parse EXCEPT ![s] = TRUE]
  BY Zenon DEF HeadThenPart, Node
<1>4. _recv_head_node' = [_recv_head_node EXCEPT ![s] = _recv_head_node[s]]
  <2>1. _recv_head_node' = _recv_head_node
    BY DEF HeadThenPart
  <2> QED
    BY <2>1, SameValue, Zenon DEF Shape, RecvShape
<1>5. /\ ReadMore(s)
      /\ UNCHANGED <<_sessions, _b_close, stream, sendVars, written, script, parsed, echoed>>
  BY DEF HeadThenPart
<1> HIDE DEF n, a
<1>6. n \in Lengths
  BY <1>1, LengthAssumption DEF Lengths
<1>7. Node(n, a) \in Nodes /\ Node(n, a).total = n /\ Node(n, a).data = a
  BY <1>2, <1>6, NodeIs, Zenon
<1>8. Received(TRUE, _recv_head_node[s], Node(n, a)) = InProgress(s) \o _data[s]
  BY <1>1, <1>2, <1>7, Zenon DEF Received
<1>9. _recv_head_node[s] \in Heads /\ TRUE \in BOOLEAN
  BY Typed, Zenon
<1>10. \E bp \in BOOLEAN, h \in Heads, m \in Nodes :
         /\ Received(bp, h, m) = InProgress(s) \o _data[s]
         /\ _b_head_parse' = [_b_head_parse EXCEPT ![s] = bp]
         /\ _recv_head_node' = [_recv_head_node EXCEPT ![s] = h]
         /\ _recv_msg_node' = [_recv_msg_node EXCEPT ![s] = m]
  BY <1>3, <1>4, <1>7, <1>8, <1>9, Zenon
<1> QED
  BY <1>1, <1>5, <1>10, Zenon DEF Copies

\* BodyPart copies.
LEMMA BodyPartCopies ==
  ASSUME Shape, NEW s \in Sessions, BodyPart(s)
  PROVE  Copies(s)
<1> DEFINE n == _recv_msg_node[s].total
           m == _recv_msg_node[s].data
           b == m \o _data[s]
<1>1. n \in Lengths /\ n \in Int
  BY Typed, Zenon DEF Lengths
<1>2. m \in Seq(Bytes) /\ _data[s] \in Seq(Bytes)
  BY Typed, Zenon
<1>3. handling = s /\ _b_head_parse[s]
  BY Zenon DEF BodyPart
<1>4. InProgress(s) = Header(n) \o m
  BY <1>3, InProgressIs, Zenon DEF Received
<1>5. _recv_msg_node' = [_recv_msg_node EXCEPT ![s] = Node(n, b)]
  <2>1. _recv_msg_node' = [_recv_msg_node EXCEPT ![s] = [_recv_msg_node[s] EXCEPT !.data = b]]
    BY DEF BodyPart
  <2> QED
    BY <2>1, Typed, NodeCopied, Zenon
<1>6. _b_head_parse' = [_b_head_parse EXCEPT ![s] = TRUE]
  <2>1. _b_head_parse[s] = TRUE
    BY <1>3, Typed, Zenon
  <2>2. _b_head_parse' = _b_head_parse
    BY DEF BodyPart
  <2> QED
    BY <2>1, <2>2, SameValue, Zenon DEF Shape, RecvShape
<1>7. _recv_head_node' = [_recv_head_node EXCEPT ![s] = _recv_head_node[s]]
  <2>1. _recv_head_node' = _recv_head_node
    BY DEF BodyPart
  <2> QED
    BY <2>1, SameValue, Zenon DEF Shape, RecvShape
<1>8. /\ ReadMore(s)
      /\ UNCHANGED <<_sessions, _b_close, stream, sendVars, written, script, parsed, echoed>>
  BY DEF BodyPart
<1> HIDE DEF n, m
<1>9. b \in Seq(Bytes)
  BY <1>2, ByteConcat, Zenon
<1>10. Node(n, b) \in Nodes /\ Node(n, b).total = n /\ Node(n, b).data = b
  BY <1>1, <1>9, NodeIs, Zenon
<1>11. Header(n) \o b = (Header(n) \o m) \o _data[s]
  <2>1. Header(n) \in Seq(Bytes)
    BY <1>1, HeaderIs, Zenon
  <2> QED
    BY <1>2, <2>1, ByteAssoc, Zenon
<1>12. Received(TRUE, _recv_head_node[s], Node(n, b)) = InProgress(s) \o _data[s]
  BY <1>4, <1>9, <1>10, <1>11, Zenon DEF Received
<1>13. _recv_head_node[s] \in Heads /\ TRUE \in BOOLEAN
  BY Typed, Zenon
<1> HIDE DEF b
<1>14. \E bp \in BOOLEAN, h \in Heads, k \in Nodes :
         /\ Received(bp, h, k) = InProgress(s) \o _data[s]
         /\ _b_head_parse' = [_b_head_parse EXCEPT ![s] = bp]
         /\ _recv_head_node' = [_recv_head_node EXCEPT ![s] = h]
         /\ _recv_msg_node' = [_recv_msg_node EXCEPT ![s] = k]
  BY <1>5, <1>6, <1>7, <1>10, <1>12, <1>13, Zenon
<1> QED
  BY <1>3, <1>8, <1>14, Zenon DEF Copies

\* A round of the loop copies the buffer, completes a message, gives the session up or is the last.
LEMMA LoopRounds ==
  ASSUME Shape, NEW s \in Sessions, HandleReadLoop(s)
  PROVE  Copies(s) \/ Completes(s) \/ HeadInvalid(s) \/ UNCHANGED sessionVars
<1>1. HeadThrows(s) \/ HeadOverruns(s) \/ BodyOverruns(s) => UNCHANGED sessionVars
  BY Zenon DEF HeadThrows, HeadOverruns, BodyOverruns
<1> QED
  BY <1>1, HeadShortCopies, HeadThenPartCopies, BodyPartCopies, HeadThenWholeCompletes,
     BodyWholeCompletes, Zenon DEF HandleReadLoop

-----------------------------------------------------------------------------
(* What the steps do, in the terms of the invariant *)

\* A message is handed to Send, and the bytes behind it stay in the buffer.
HandsOver(s, m, b, rest) ==
  /\ handling = s
  /\ m \in Nodes /\ b \in Framable /\ rest \in Buffers
  /\ InProgress(s) \o _data[s] = Frame(b) \o rest
  /\ _recv_msg_node' = [_recv_msg_node EXCEPT ![s] = m]
  /\ _b_head_parse' = [_b_head_parse EXCEPT ![s] = FALSE]
  /\ _recv_head_node' = [_recv_head_node EXCEPT ![s] = << >>]
  /\ parsed' = [parsed EXCEPT ![s] = Append(parsed[s], b)]
  /\ _data' = [_data EXCEPT ![s] = rest]
  /\ \/ rest = << >> /\ reading' = [reading EXCEPT ![s] = "pending"] /\ handling' = NoSession
     \/ rest # << >> /\ reading' = reading /\ handling' = handling

\* What Send does to the queue with the frame f.
Queues(s, f) ==
  \/ UNCHANGED sendVars
  \/ /\ _send_que' = [_send_que EXCEPT ![s] = Append(_send_que[s], f)]
     /\ accepted' = [accepted EXCEPT ![s] = Append(accepted[s], f)]
     /\ \/ _send_que[s] # << >> /\ writing' = writing
        \/ _send_que[s] = << >> /\ writing' = [writing EXCEPT ![s] = Append(writing[s], f)]

\* A queue that is not empty.
LEMMA NotEmpty ==
  ASSUME NEW S, NEW q \in Seq(S)
  PROVE  Len(q) > 0 <=> q # << >>
OBVIOUS

\* A round that completes a message.
LEMMA CompletesDoes ==
  ASSUME Shape, NEW s \in Sessions, Completes(s)
  PROVE  /\ \E m, b, rest : HandsOver(s, m, b, rest) /\ Queues(s, Frame(b))
         /\ UNCHANGED <<_sessions, _b_close, stream, written, script, echoed>>
<1>1. PICK total \in Int, b \in Framable, rest \in Buffers :
        /\ [total |-> total, data |-> b] \in Nodes
        /\ InProgress(s) \o _data[s] = Frame(b) \o rest
        /\ MessageComplete(s, total, b, rest)
  BY Zenon DEF Completes
<1>2. UNCHANGED <<_sessions, _b_close, stream, written, script, echoed>>
  BY <1>1 DEF MessageComplete
<1>3. Queues(s, Frame(b))
  <2>1. Send(s, b)
    BY <1>1, Zenon DEF MessageComplete
  <2>2. _send_que[s] \in Seq(Seq(Bytes))
    BY Zenon DEF Shape, SendShape
  <2>3. Len(_send_que[s]) > 0 <=> _send_que[s] # << >>
    BY <2>2, NotEmpty, Zenon
  <2> QED
    BY <2>1, <2>3, Zenon DEF Send, Queues
<1>4. HandsOver(s, [total |-> total, data |-> b], b, rest)
  <2>1. /\ _recv_msg_node' = [_recv_msg_node EXCEPT ![s] = [total |-> total, data |-> b]]
        /\ _b_head_parse' = [_b_head_parse EXCEPT ![s] = FALSE]
        /\ _recv_head_node' = [_recv_head_node EXCEPT ![s] = << >>]
        /\ parsed' = [parsed EXCEPT ![s] = Append(parsed[s], b)]
    BY <1>1, Zenon DEF MessageComplete, Send
  <2>2. \/ /\ rest = << >> /\ reading' = [reading EXCEPT ![s] = "pending"]
           /\ handling' = NoSession /\ _data' = [_data EXCEPT ![s] = rest]
        \/ /\ rest # << >> /\ reading' = reading
           /\ handling' = handling /\ _data' = [_data EXCEPT ![s] = rest]
    BY <1>1, Zenon DEF MessageComplete, ReadMore, AsyncRead
  <2>3. handling = s
    BY Zenon DEF Completes
  <2> QED
    BY <1>1, <2>1, <2>2, <2>3, Zenon DEF HandsOver
<1> QED
  BY <1>2, <1>3, <1>4, Zenon

\* What a read takes from the stream fits the buffer.
LEMMA ReadCut ==
  ASSUME NEW r \in Seq(Bytes), NEW n \in 1..MAX_LENGTH, n <= Len(r)
  PROVE  /\ First(r, n) \in Buffers /\ Without(r, n) \in Seq(Bytes)
         /\ First(r, n) \o Without(r, n) = r
<1>1. n \in Nat /\ n <= MAX_LENGTH
  BY LengthAssumption
<1>2. /\ First(r, n) \in Seq(Bytes) /\ Len(First(r, n)) = n /\ Without(r, n) \in Seq(Bytes)
      /\ First(r, n) \o Without(r, n) = r
  BY <1>1, Cut, Zenon
<1> QED
  BY <1>1, <1>2, Zenon DEF Buffers

\* What a completed read does.
LEMMA ReadCompletesDoes ==
  ASSUME Shape, NEW s \in Sessions, ReadCompletes(s)
  PROVE  /\ \E d \in Buffers, r \in Seq(Bytes) :
              /\ d \o r = stream[s]
              /\ _data' = [_data EXCEPT ![s] = d]
              /\ stream' = [stream EXCEPT ![s] = r]
         /\ reading[s] = "pending" /\ reading' = [reading EXCEPT ![s] = "done"]
         /\ UNCHANGED <<_sessions, handling, _b_close, _b_head_parse, _recv_head_node,
                        _recv_msg_node, sendVars, written, script, parsed, echoed>>
<1>1. PICK n \in 1..MAX_LENGTH :
        /\ n <= Len(stream[s])
        /\ _data' = [_data EXCEPT ![s] = First(stream[s], n)]
        /\ stream' = [stream EXCEPT ![s] = Without(stream[s], n)]
  BY Zenon DEF ReadCompletes
<1>2. stream[s] \in Seq(Bytes)
  BY Typed, Zenon
<1>3. /\ First(stream[s], n) \in Buffers /\ Without(stream[s], n) \in Seq(Bytes)
      /\ First(stream[s], n) \o Without(stream[s], n) = stream[s]
  BY <1>1, <1>2, ReadCut, Zenon
<1>4. /\ reading[s] = "pending" /\ reading' = [reading EXCEPT ![s] = "done"]
      /\ UNCHANGED <<_sessions, handling, _b_close, _b_head_parse, _recv_head_node,
                     _recv_msg_node, sendVars, written, script, parsed, echoed>>
  BY DEF ReadCompletes
<1> QED
  BY <1>1, <1>3, <1>4, Zenon

\* A step of a session, in these terms.
Step(s) ==
  \/ ReadCompletes(s) \/ ReadFails(s) \/ HandleRead(s) \/ HandleReadError(s)
  \/ Copies(s) \/ Completes(s) \/ HeadInvalid(s)
  \/ WriteCompletes(s) \/ WriteFails(s) \/ HandleWrite(s) \/ HandleWriteError(s)

\* Every step of the server is one of these, of the acceptor, or leaves the sessions alone.
LEMMA Steps ==
  ASSUME Shape, [Next]_vars
  PROVE  \/ \E s \in Sessions : Step(s) /\ UNCHANGED acceptVars
         \/ AcceptCompletes \/ AcceptFails \/ HandleAccept \/ HandleAcceptError
         \/ UNCHANGED sessionVars /\ UNCHANGED acceptVars
<1>1. ASSUME NEW s \in Sessions, Socket(s) \/ Handler(s) \/ HandleReadLoop(s)
      PROVE  Step(s) \/ UNCHANGED sessionVars
  <2>1. HandleReadLoop(s) => \/ Copies(s) \/ Completes(s) \/ HeadInvalid(s)
                             \/ UNCHANGED sessionVars
    BY LoopRounds, Zenon
  <2> QED
    BY <1>1, <2>1, Zenon DEF Step, Socket, Handler
<1>2. CASE UNCHANGED vars
  BY <1>2 DEF vars
<1>3. CASE Next
  BY <1>1, <1>3, Zenon DEF Next, Accept, Session
<1> QED
  BY <1>2, <1>3

-----------------------------------------------------------------------------
(* Types *)

\* A function stays of its type when it gets a value of its type.
LEMMA Update ==
  ASSUME NEW S, NEW T, NEW f \in [S -> T], NEW x, NEW v \in T
  PROVE  [f EXCEPT ![x] = v] \in [S -> T]
OBVIOUS

\* Sessioning is kept when sessions only leave the map and nothing is accepted.
LEMMA SessioningKept ==
  ASSUME Sessioning, _sessions' \subseteq _sessions, UNCHANGED acceptVars,
         handling' \in Sessions \cup {NoSession}
  PROVE  Sessioning'
BY Zenon DEF Sessioning, acceptVars

\* The steps of a session keep the sessions right.
LEMMA StepSessioning ==
  ASSUME Shape, NEW s \in Sessions, Step(s), UNCHANGED acceptVars
  PROVE  Sessioning'
<1>1. _sessions' \subseteq _sessions
  <2>1. CASE Completes(s)
    BY <2>1, CompletesDoes
  <2>2. CASE ReadCompletes(s)
    BY <2>2 DEF ReadCompletes
  <2>3. CASE Copies(s)
    BY <2>3 DEF Copies
  <2>4. CASE ~(Completes(s) \/ ReadCompletes(s) \/ Copies(s))
    BY <2>4 DEF Step, ReadFails, HandleRead, HandleReadError, HeadInvalid, WriteCompletes,
                WriteFails, HandleWrite, HandleWriteError, ClearSession
  <2> QED
    BY <2>1, <2>2, <2>3, <2>4
<1>2. handling' \in Sessions \cup {NoSession}
  <2>0. handling \in Sessions \cup {NoSession}
    BY DEF Shape, Sessioning
  <2>1. CASE Completes(s)
    BY <2>0, <2>1, CompletesDoes, Zenon DEF HandsOver
  <2>2. CASE ReadCompletes(s)
    BY <2>0, <2>2 DEF ReadCompletes
  <2>3. CASE Copies(s)
    BY <2>3, Zenon DEF Copies, ReadMore
  <2>4. CASE ~(Completes(s) \/ ReadCompletes(s) \/ Copies(s))
    BY <2>0, <2>4 DEF Step, ReadFails, HandleRead, HandleReadError, HeadInvalid, WriteCompletes,
                WriteFails, HandleWrite, HandleWriteError
  <2> QED
    BY <2>1, <2>2, <2>3, <2>4
<1> QED
  BY <1>1, <1>2, SessioningKept, Zenon DEF Shape

\* The steps of a session keep the types of what concerns its socket.
LEMMA StepSocketShape ==
  ASSUME Shape, NEW s \in Sessions, Step(s)
  PROVE  SocketShape'
<1> USE DEF SocketShape
<1>0. SocketShape
  BY Zenon DEF Shape
<1>1. \A r \in {"none", "pending", "done", "failed"} :
        [reading EXCEPT ![s] = r] \in [Sessions -> {"none", "pending", "done", "failed"}]
  BY <1>0, Update, Zenon
<1>2. /\ "none" \in {"none", "pending", "done", "failed"}
      /\ "pending" \in {"none", "pending", "done", "failed"}
      /\ "done" \in {"none", "pending", "done", "failed"}
      /\ "failed" \in {"none", "pending", "done", "failed"}
  OBVIOUS
<1>3. [_b_close EXCEPT ![s] = TRUE] \in [Sessions -> BOOLEAN]
  <2>1. TRUE \in BOOLEAN
    OBVIOUS
  <2> QED
    BY <1>0, <2>1, Update, Zenon
<1>4. CASE ReadCompletes(s)
  <2>1. stream' \in [Sessions -> Seq(Bytes)]
    BY <1>0, <1>4, ReadCompletesDoes, Update, Zenon
  <2>2. reading' = [reading EXCEPT ![s] = "done"] /\ _b_close' = _b_close /\ script' = script
    BY <1>4, ReadCompletesDoes
  <2> QED
    BY <1>0, <1>1, <1>2, <2>1, <2>2, Zenon
<1>5. CASE Completes(s)
  <2>1. stream' = stream /\ _b_close' = _b_close /\ script' = script
    BY <1>5, CompletesDoes
  <2>2. reading' = reading \/ reading' = [reading EXCEPT ![s] = "pending"]
    BY <1>5, CompletesDoes, Zenon DEF HandsOver
  <2> QED
    BY <1>0, <1>1, <1>2, <2>1, <2>2, Zenon
<1>6. CASE ~(ReadCompletes(s) \/ Completes(s))
  <2>1. stream' = stream /\ script' = script
    BY <1>6 DEF Step, ReadFails, HandleRead, HandleReadError, Copies, HeadInvalid, WriteCompletes,
                WriteFails, HandleWrite, HandleWriteError
  <2>2. _b_close' = _b_close \/ _b_close' = [_b_close EXCEPT ![s] = TRUE]
    BY <1>6 DEF Step, ReadFails, HandleRead, HandleReadError, Copies, HeadInvalid, WriteCompletes,
                WriteFails, HandleWrite, HandleWriteError, Close
  <2>3. reading' = reading \/ \E r \in {"none", "pending", "done", "failed"} :
                                reading' = [reading EXCEPT ![s] = r]
    BY <1>2, <1>6 DEF Step, ReadFails, HandleRead, HandleReadError, Copies, ReadMore, AsyncRead,
                HeadInvalid, WriteCompletes, WriteFails, HandleWrite, HandleWriteError
  <2>4. reading' \in [Sessions -> {"none", "pending", "done", "failed"}]
    BY <1>0, <1>1, <2>3, Zenon
  <2>5. _b_close' \in [Sessions -> BOOLEAN]
    BY <1>0, <1>3, <2>2, Zenon
  <2> QED
    BY <1>0, <2>1, <2>4, <2>5, Zenon
<1> QED
  BY <1>4, <1>5, <1>6, Zenon

\* The steps of a session keep the types of what it receives.
LEMMA StepRecvShape ==
  ASSUME Shape, NEW s \in Sessions, Step(s)
  PROVE  RecvShape'
<1>0. RecvShape
  BY Zenon DEF Shape
<1>1. << >> \in Buffers /\ << >> \in Heads
  <2>1. << >> \in Seq(Bytes) /\ Len(<< >>) <= MAX_LENGTH /\ Len(<< >>) < HEAD_LENGTH
    BY LengthAssumption DEF HEAD_LENGTH
  <2> QED
    BY <2>1, Zenon DEF Buffers, Heads
<1>4. CASE ReadCompletes(s)
  <2>1. _data' \in [Sessions -> Buffers]
    BY <1>0, <1>4, ReadCompletesDoes, Update, Zenon DEF RecvShape
  <2>2. UNCHANGED <<_b_head_parse, _recv_head_node, _recv_msg_node, parsed>>
    BY <1>4, ReadCompletesDoes
  <2> QED
    BY <1>0, <2>1, <2>2, Zenon DEF RecvShape
<1>5. CASE Completes(s)
  <2>1. PICK m, b, rest : HandsOver(s, m, b, rest)
    BY <1>5, CompletesDoes, Zenon
  <2>2. _data' \in [Sessions -> Buffers]
    BY <1>0, <2>1, Update, Zenon DEF RecvShape, HandsOver
  <2>3. _b_head_parse' \in [Sessions -> BOOLEAN]
    <3>1. FALSE \in BOOLEAN
      OBVIOUS
    <3> QED
      BY <1>0, <2>1, <3>1, Update, Zenon DEF RecvShape, HandsOver
  <2>4. _recv_head_node' \in [Sessions -> Heads]
    BY <1>0, <1>1, <2>1, Update, Zenon DEF RecvShape, HandsOver
  <2>5. _recv_msg_node' \in [Sessions -> Nodes]
    BY <1>0, <2>1, Update, Zenon DEF RecvShape, HandsOver
  <2>6. parsed' \in [Sessions -> Seq(Framable)]
    <3>1. parsed[s] \in Seq(Framable) /\ b \in Framable
      BY <2>1, Typed, Zenon DEF HandsOver
    <3>2. Append(parsed[s], b) \in Seq(Framable)
      BY <3>1, AppendProperties, Zenon
    <3> QED
      BY <1>0, <2>1, <3>2, Update, Zenon DEF RecvShape, HandsOver
  <2> QED
    BY <2>2, <2>3, <2>4, <2>5, <2>6, Zenon DEF RecvShape
<1>6. CASE Copies(s)
  <2>1. PICK bp \in BOOLEAN, h \in Heads, m \in Nodes :
          /\ _b_head_parse' = [_b_head_parse EXCEPT ![s] = bp]
          /\ _recv_head_node' = [_recv_head_node EXCEPT ![s] = h]
          /\ _recv_msg_node' = [_recv_msg_node EXCEPT ![s] = m]
    BY <1>6, Zenon DEF Copies
  <2>2. _data' = [_data EXCEPT ![s] = << >>] /\ parsed' = parsed
    BY <1>6 DEF Copies, ReadMore
  <2>3. _data' \in [Sessions -> Buffers]
    BY <1>0, <1>1, <2>2, Update, Zenon DEF RecvShape
  <2>4. _b_head_parse' \in [Sessions -> BOOLEAN]
    BY <1>0, <2>1, Update, Zenon DEF RecvShape
  <2>5. _recv_head_node' \in [Sessions -> Heads]
    BY <1>0, <2>1, Update, Zenon DEF RecvShape
  <2>6. _recv_msg_node' \in [Sessions -> Nodes]
    BY <1>0, <2>1, Update, Zenon DEF RecvShape
  <2> QED
    BY <1>0, <2>2, <2>3, <2>4, <2>5, <2>6, Zenon DEF RecvShape
<1>7. CASE ~(ReadCompletes(s) \/ Completes(s) \/ Copies(s))
  <2>1. UNCHANGED <<recvVars, parsed>>
    BY <1>7 DEF Step, ReadFails, HandleRead, HandleReadError, HeadInvalid, WriteCompletes,
                WriteFails, HandleWrite, HandleWriteError
  <2>2. UNCHANGED <<_data, _b_head_parse, _recv_head_node, _recv_msg_node, parsed>>
    BY <2>1 DEF recvVars
  <2> QED
    BY <1>0, <2>2, Zenon DEF RecvShape
<1> QED
  BY <1>4, <1>5, <1>6, <1>7, Zenon

\* The values that Sending is about.
LEMMA SendTyped ==
  ASSUME Shape, NEW s \in Sessions
  PROVE  /\ _send_que[s] \in Seq(Seq(Bytes)) /\ writing[s] \in Seq(Seq(Bytes))
         /\ accepted[s] \in Seq(Seq(Bytes)) /\ echoed[s] \in Seq(Seq(Bytes))
         /\ written[s] \in {"none", "done", "failed"} /\ _b_close[s] \in BOOLEAN
BY Zenon DEF Shape, SendShape, SocketShape

\* The steps of a session keep the types of what it sends, while Sending holds.
LEMMA StepSendShape ==
  ASSUME Shape, NEW s \in Sessions, Sending(s), Step(s)
  PROVE  SendShape'
<1>0. SendShape
  BY Zenon DEF Shape
<1>1. \A w \in {"none", "done", "failed"} :
        [written EXCEPT ![s] = w] \in [Sessions -> {"none", "done", "failed"}]
  BY <1>0, Update, Zenon DEF SendShape
<1>2. /\ "none" \in {"none", "done", "failed"} /\ "done" \in {"none", "done", "failed"}
      /\ "failed" \in {"none", "done", "failed"}
  OBVIOUS
<1>3. ASSUME NEW f \in [Sessions -> Seq(Seq(Bytes))], NEW q \in Seq(Seq(Bytes))
      PROVE  [f EXCEPT ![s] = q] \in [Sessions -> Seq(Seq(Bytes))]
  BY Update, Zenon
<1>4. ASSUME NEW q \in Seq(Seq(Bytes)), NEW b \in Seq(Bytes)
      PROVE  Append(q, b) \in Seq(Seq(Bytes))
  BY AppendProperties, Zenon
<1>5. ASSUME NEW q \in Seq(Seq(Bytes)), q # << >>
      PROVE  Head(q) \in Seq(Bytes) /\ Tail(q) \in Seq(Seq(Bytes))
  BY <1>5, HeadTailProperties, Zenon
<1>6. CASE Completes(s)
  <2>1. PICK m, b, rest : HandsOver(s, m, b, rest) /\ Queues(s, Frame(b))
    BY <1>6, CompletesDoes, Zenon
  <2>2. Frame(b) \in Seq(Bytes)
    BY <2>1, FrameIs, Zenon DEF HandsOver
  <2>3. written' = written /\ echoed' = echoed
    BY <1>6, CompletesDoes
  <2>4. CASE UNCHANGED sendVars
    <3>1. UNCHANGED <<_send_que, writing, accepted>>
      BY <2>4 DEF sendVars
    <3> QED
      BY <1>0, <2>3, <3>1, Zenon DEF SendShape
  <2>5. CASE ~UNCHANGED sendVars
    <3>1. /\ Append(_send_que[s], Frame(b)) \in Seq(Seq(Bytes))
          /\ Append(accepted[s], Frame(b)) \in Seq(Seq(Bytes))
          /\ Append(writing[s], Frame(b)) \in Seq(Seq(Bytes))
      BY <1>4, <2>2, SendTyped, Zenon
    <3>2. /\ _send_que' \in [Sessions -> Seq(Seq(Bytes))]
          /\ accepted' \in [Sessions -> Seq(Seq(Bytes))]
          /\ writing' \in [Sessions -> Seq(Seq(Bytes))]
      <4>1. /\ _send_que' = [_send_que EXCEPT ![s] = Append(_send_que[s], Frame(b))]
            /\ accepted' = [accepted EXCEPT ![s] = Append(accepted[s], Frame(b))]
            /\ \/ writing' = writing
               \/ writing' = [writing EXCEPT ![s] = Append(writing[s], Frame(b))]
        BY <2>1, <2>5, Zenon DEF Queues
      <4>2. /\ _send_que \in [Sessions -> Seq(Seq(Bytes))]
            /\ accepted \in [Sessions -> Seq(Seq(Bytes))]
            /\ writing \in [Sessions -> Seq(Seq(Bytes))]
        BY <1>0, Zenon DEF SendShape
      <4>3. _send_que' \in [Sessions -> Seq(Seq(Bytes))]
        BY <1>3, <3>1, <4>1, <4>2, Zenon
      <4>4. accepted' \in [Sessions -> Seq(Seq(Bytes))]
        BY <1>3, <3>1, <4>1, <4>2, Zenon
      <4>5. writing' \in [Sessions -> Seq(Seq(Bytes))]
        BY <1>3, <3>1, <4>1, <4>2, Zenon
      <4> QED
        BY <4>3, <4>4, <4>5, Zenon
    <3> QED
      BY <1>0, <2>3, <3>2, Zenon DEF SendShape
  <2> QED
    BY <2>4, <2>5, Zenon
<1>7. CASE WriteCompletes(s)
  <2>1. /\ writing[s] # << >> /\ written' = [written EXCEPT ![s] = "done"]
        /\ echoed' = [echoed EXCEPT ![s] = Append(echoed[s], Head(writing[s]))]
        /\ writing' = [writing EXCEPT ![s] = Tail(writing[s])]
        /\ _send_que' = _send_que /\ accepted' = accepted
    BY <1>7 DEF WriteCompletes
  <2>2. /\ Append(echoed[s], Head(writing[s])) \in Seq(Seq(Bytes))
        /\ Tail(writing[s]) \in Seq(Seq(Bytes))
    BY <1>4, <1>5, <2>1, SendTyped, Zenon
  <2> QED
    BY <1>0, <1>1, <1>2, <1>3, <2>1, <2>2, Zenon DEF SendShape
<1>8. CASE WriteFails(s)
  <2>1. /\ writing[s] # << >> /\ written' = [written EXCEPT ![s] = "failed"]
        /\ writing' = [writing EXCEPT ![s] = Tail(writing[s])]
        /\ _send_que' = _send_que /\ accepted' = accepted /\ echoed' = echoed
    BY <1>8 DEF WriteFails
  <2>2. Tail(writing[s]) \in Seq(Seq(Bytes))
    BY <1>5, <2>1, SendTyped, Zenon
  <2> QED
    BY <1>0, <1>1, <1>2, <1>3, <2>1, <2>2, Zenon DEF SendShape
<1>9. CASE HandleWrite(s)
  <2>1. /\ written[s] = "done" /\ written' = [written EXCEPT ![s] = "none"]
        /\ _send_que' = [_send_que EXCEPT ![s] = Tail(_send_que[s])]
        /\ accepted' = accepted /\ echoed' = echoed
    BY <1>9 DEF HandleWrite
  <2>2. writing' = writing \/ (/\ Tail(_send_que[s]) # << >>
                               /\ writing' = [writing EXCEPT
                                    ![s] = Append(writing[s], Head(Tail(_send_que[s])))])
    BY <1>9, Zenon DEF HandleWrite
  <2>3. _send_que[s] # << >>
    <3>1. "done" # "none"
      OBVIOUS
    <3> QED
      BY <2>1, <3>1, Zenon DEF Sending
  <2>4. Tail(_send_que[s]) \in Seq(Seq(Bytes))
    BY <1>5, <2>3, SendTyped, Zenon
  <2>5. Tail(_send_que[s]) # << >> =>
          Append(writing[s], Head(Tail(_send_que[s]))) \in Seq(Seq(Bytes))
    BY <1>4, <1>5, <2>4, SendTyped, Zenon
  <2>6. writing' \in [Sessions -> Seq(Seq(Bytes))]
    BY <1>0, <1>3, <2>2, <2>5, Zenon DEF SendShape
  <2> QED
    BY <1>0, <1>1, <1>2, <1>3, <2>1, <2>4, <2>6, Zenon DEF SendShape
<1>10. CASE HandleWriteError(s)
  <2>1. written' = [written EXCEPT ![s] = "none"] /\ UNCHANGED <<sendVars, echoed>>
    BY <1>10 DEF HandleWriteError
  <2>2. UNCHANGED <<_send_que, writing, accepted, echoed>>
    BY <2>1 DEF sendVars
  <2> QED
    BY <1>0, <1>1, <1>2, <2>1, <2>2, Zenon DEF SendShape
<1>11. CASE ReadCompletes(s) \/ ReadFails(s) \/ HandleRead(s) \/ HandleReadError(s)
              \/ Copies(s) \/ HeadInvalid(s)
  <2>1. UNCHANGED <<sendVars, written, echoed>>
    BY <1>11 DEF ReadCompletes, ReadFails, HandleRead, HandleReadError, Copies, HeadInvalid
  <2>2. UNCHANGED <<_send_que, writing, accepted, written, echoed>>
    BY <2>1 DEF sendVars
  <2> QED
    BY <1>0, <2>2, Zenon DEF SendShape
<1> QED
  BY <1>6, <1>7, <1>8, <1>9, <1>10, <1>11, Zenon DEF Step

\* The steps of a session keep all types.
LEMMA StepShape ==
  ASSUME Shape, NEW s \in Sessions, Sending(s), Step(s), UNCHANGED acceptVars
  PROVE  Shape'
BY StepSessioning, StepSocketShape, StepRecvShape, StepSendShape, Zenon DEF Shape

\* The object made for the next accept was not used before.
LEMMA NewSessionIsNew ==
  ASSUME NEW used \in SUBSET Sessions
  PROVE  NewSession(used) \in Sessions \cup {NoSession} /\ NewSession(used) \notin used
<1>1. CASE used = Sessions
  BY <1>1, LengthAssumption DEF NewSession
<1>2. CASE used # Sessions
  <2>1. \E s \in Sessions : s \notin used
    BY <1>2
  <2>2. /\ (CHOOSE s \in Sessions : s \notin used) \in Sessions
        /\ (CHOOSE s \in Sessions : s \notin used) \notin used
    BY <2>1, Zenon
  <2> QED
    BY <1>2, <2>2, Zenon DEF NewSession
<1> QED
  BY <1>1, <1>2

\* What a peer sends is bytes.
LEMMA ScriptType ==
  ASSUME NEW s \in Sessions, NEW bytes \in Scripts[s]
  PROVE  bytes \in Seq(Bytes)
BY ScriptAssumption

\* The steps of the acceptor keep all types.
LEMMA AcceptShape ==
  ASSUME Shape, AcceptCompletes \/ AcceptFails \/ HandleAccept \/ HandleAcceptError
  PROVE  Shape'
<1>1. CASE AcceptCompletes
  <2>1. /\ accepting \in Sessions /\ acceptState' = "done"
        /\ UNCHANGED <<_sessions, handling, _b_close, reading, recvVars, sendVars, written, parsed,
                       echoed, accepting, started>>
    BY <1>1 DEF AcceptCompletes, Shape, Sessioning
  <2>2. PICK bytes \in Scripts[accepting] :
          /\ script' = [script EXCEPT ![accepting] = bytes]
          /\ stream' = [stream EXCEPT ![accepting] = bytes]
    BY <1>1, Zenon DEF AcceptCompletes
  <2>3. bytes \in Seq(Bytes)
    BY <2>1, ScriptType, Zenon
  <2>5. script' \in [Sessions -> Seq(Bytes)] /\ stream' \in [Sessions -> Seq(Bytes)]
    BY <2>2, <2>3, Update, Zenon DEF Shape, SocketShape
  <2>6. Sessioning'
    BY <2>1 DEF Shape, Sessioning
  <2>7. UNCHANGED <<_b_close, reading, _data, _b_head_parse, _recv_head_node, _recv_msg_node,
                    parsed, _send_que, writing, written, accepted, echoed>>
    BY <2>1 DEF recvVars, sendVars
  <2> QED
    BY <2>5, <2>6, <2>7, Zenon DEF Shape, SocketShape, RecvShape, SendShape
<1>2. CASE AcceptFails
  <2>1. UNCHANGED sessionVars /\ accepting' = accepting /\ started' = started
        /\ acceptState' = "failed"
    BY <1>2 DEF AcceptFails
  <2>2. UNCHANGED <<_sessions, handling, _b_close, stream, script, reading, _data, _b_head_parse,
                    _recv_head_node, _recv_msg_node,
                    parsed, _send_que, writing, written, accepted, echoed>>
    BY <2>1 DEF sessionVars, recvVars, sendVars
  <2>3. Sessioning'
    BY <2>1, <2>2 DEF Shape, Sessioning
  <2> QED
    BY <2>2, <2>3, Zenon DEF Shape, SocketShape, RecvShape, SendShape
<1>3. CASE HandleAccept
  <2>1. /\ acceptState = "done" /\ _sessions' = _sessions \cup {accepting}
        /\ started' = started \cup {accepting} /\ reading' = [reading EXCEPT ![accepting] = "pending"]
        /\ acceptState' = "pending" /\ accepting' = NewSession(started')
        /\ UNCHANGED <<handling, _b_close, stream, recvVars, sendVars, written, script, parsed, echoed>>
    BY <1>3 DEF HandleAccept, StartAccept, AsyncRead
  <2>2. UNCHANGED <<handling, _b_close, stream, script, _data, _b_head_parse,
                    _recv_head_node, _recv_msg_node,
                    parsed, _send_que, writing, written, accepted, echoed>>
    BY <2>1 DEF recvVars, sendVars
  <2>3. Sessioning'
    <3>1. started' \in SUBSET Sessions /\ _sessions' \subseteq started'
      BY <2>1 DEF Shape, Sessioning
    <3>2. accepting' \in Sessions \cup {NoSession} /\ accepting' \notin started'
      BY <2>1, <3>1, NewSessionIsNew, Zenon
    <3> QED
      BY <2>1, <2>2, <3>1, <3>2 DEF Shape, Sessioning
  <2>4. reading' \in [Sessions -> {"none", "pending", "done", "failed"}]
    <3>1. "pending" \in {"none", "pending", "done", "failed"}
      OBVIOUS
    <3> QED
      BY <2>1, <3>1, Update, Zenon DEF Shape, SocketShape
  <2> QED
    BY <2>2, <2>3, <2>4, Zenon DEF Shape, SocketShape, RecvShape, SendShape
<1>4. CASE HandleAcceptError
  <2>1. /\ UNCHANGED sessionVars /\ started' = started
        /\ acceptState' = "pending" /\ accepting' = NewSession(started')
    BY <1>4 DEF HandleAcceptError, StartAccept
  <2>2. UNCHANGED <<_sessions, handling, _b_close, stream, script, reading, _data, _b_head_parse,
                    _recv_head_node, _recv_msg_node,
                    parsed, _send_que, writing, written, accepted, echoed>>
    BY <2>1 DEF sessionVars, recvVars, sendVars
  <2>3. Sessioning'
    <3>1. started' \in SUBSET Sessions
      BY <2>1 DEF Shape, Sessioning
    <3>2. accepting' \in Sessions \cup {NoSession} /\ accepting' \notin started'
      BY <2>1, <3>1, NewSessionIsNew, Zenon
    <3> QED
      BY <2>1, <2>2, <3>2 DEF Shape, Sessioning
  <2> QED
    BY <2>2, <2>3, Zenon DEF Shape, SocketShape, RecvShape, SendShape
<1> QED
  BY <1>1, <1>2, <1>3, <1>4, Zenon

-----------------------------------------------------------------------------
(* A step of a session leaves the others alone *)

\* f2 differs from f in s only.
Only(f2, f, s) == f2 = f \/ \E v : f2 = [f EXCEPT ![s] = v]

\* What t receives does not change.
SameRecv(t) ==
  /\ reading'[t] = reading[t] /\ stream'[t] = stream[t] /\ script'[t] = script[t]
  /\ _data'[t] = _data[t] /\ _b_head_parse'[t] = _b_head_parse[t]
  /\ _recv_head_node'[t] = _recv_head_node[t] /\ _recv_msg_node'[t] = _recv_msg_node[t]
  /\ parsed'[t] = parsed[t]
  /\ handling' = t <=> handling = t

\* What t sends does not change, except that its socket may be closed.
SameSend(t) ==
  /\ _send_que'[t] = _send_que[t] /\ writing'[t] = writing[t] /\ written'[t] = written[t]
  /\ accepted'[t] = accepted[t] /\ echoed'[t] = echoed[t]
  /\ _b_close[t] => _b_close'[t]

\* Such a session still is as it should be.
LEMMA RecvKept ==
  ASSUME NEW t, SameRecv(t), Fresh(t), Receiving(t), Alive(t), t \in started => t \in started',
         t \in _sessions' => t \in _sessions
  PROVE  Fresh(t)' /\ Receiving(t)' /\ Alive(t)'
<1>1. Fresh(t)'
  BY Zenon DEF SameRecv, Fresh
<1>2. InProgress(t)' = InProgress(t)
  <2>1. /\ _b_head_parse'[t] = _b_head_parse[t]
        /\ _recv_head_node'[t] = _recv_head_node[t] /\ _recv_msg_node'[t] = _recv_msg_node[t]
    BY Zenon DEF SameRecv
  <2> QED
    BY <2>1, Zenon DEF InProgress
<1>3. Receiving(t)'
  BY <1>2, Zenon DEF SameRecv, Receiving
<1>4. Alive(t)'
  BY Zenon DEF SameRecv, Alive
<1> QED
  BY <1>1, <1>3, <1>4, Zenon

\* Such a session still is as it should be.
LEMMA SendKept ==
  ASSUME NEW t, SameSend(t), Sending(t)
  PROVE  Sending(t)'
BY Zenon DEF SameSend, Sending

\* What a step changes for its own session only.
LEMMA StepOnlyRecv ==
  ASSUME Shape, NEW s \in Sessions, Step(s)
  PROVE  /\ Only(reading', reading, s) /\ Only(stream', stream, s) /\ Only(script', script, s)
         /\ Only(_data', _data, s) /\ Only(_b_head_parse', _b_head_parse, s)
         /\ Only(_recv_head_node', _recv_head_node, s)
         /\ Only(_recv_msg_node', _recv_msg_node, s) /\ Only(parsed', parsed, s)
<1>1. CASE ReadCompletes(s)
  <2>1. UNCHANGED <<_b_head_parse, _recv_head_node, _recv_msg_node, script, parsed>>
    BY <1>1 DEF ReadCompletes
  <2> QED
    BY <1>1, <2>1, ReadCompletesDoes, Zenon DEF Only
<1>2. CASE Completes(s)
  <2>1. PICK m, b, rest : HandsOver(s, m, b, rest)
    BY <1>2, CompletesDoes, Zenon
  <2>2. UNCHANGED <<stream, script>>
    BY <1>2, CompletesDoes
  <2>3. Only(reading', reading, s)
    BY <2>1, Zenon DEF Only, HandsOver
  <2>4. /\ Only(_data', _data, s) /\ Only(_b_head_parse', _b_head_parse, s)
        /\ Only(_recv_head_node', _recv_head_node, s)
        /\ Only(_recv_msg_node', _recv_msg_node, s) /\ Only(parsed', parsed, s)
    BY <2>1, Zenon DEF Only, HandsOver
  <2> QED
    BY <2>2, <2>3, <2>4, Zenon DEF Only
<1>3. CASE Copies(s)
  <2>1. UNCHANGED <<stream, script, parsed>>
    BY <1>3 DEF Copies
  <2>2. Only(reading', reading, s) /\ Only(_data', _data, s)
    BY <1>3, Zenon DEF Only, Copies, ReadMore, AsyncRead
  <2>3. /\ Only(_b_head_parse', _b_head_parse, s) /\ Only(_recv_head_node', _recv_head_node, s)
        /\ Only(_recv_msg_node', _recv_msg_node, s)
    BY <1>3, Zenon DEF Only, Copies
  <2> QED
    BY <2>1, <2>2, <2>3, Zenon DEF Only
<1>4. CASE ReadFails(s) \/ HandleRead(s) \/ HandleReadError(s) \/ HeadInvalid(s)
             \/ WriteCompletes(s) \/ WriteFails(s) \/ HandleWrite(s) \/ HandleWriteError(s)
  <2>1. UNCHANGED <<stream, script, recvVars, parsed>>
    BY <1>4 DEF ReadFails, HandleRead, HandleReadError, HeadInvalid, WriteCompletes,
                WriteFails, HandleWrite, HandleWriteError
  <2>2. UNCHANGED <<stream, script, _data, _b_head_parse, _recv_head_node, _recv_msg_node, parsed>>
    BY <2>1 DEF recvVars
  <2>3. \/ reading' = reading \/ reading' = [reading EXCEPT ![s] = "none"]
        \/ reading' = [reading EXCEPT ![s] = "failed"]
    BY <1>4 DEF ReadFails, HandleRead, HandleReadError, HeadInvalid, WriteCompletes,
                WriteFails, HandleWrite, HandleWriteError
  <2> QED
    BY <2>2, <2>3, Zenon DEF Only
<1> QED
  BY <1>1, <1>2, <1>3, <1>4, Zenon DEF Step

\* What a step changes for its own session only.
LEMMA StepOnlySend ==
  ASSUME Shape, NEW s \in Sessions, Step(s)
  PROVE  /\ Only(_send_que', _send_que, s) /\ Only(writing', writing, s)
         /\ Only(written', written, s) /\ Only(accepted', accepted, s)
         /\ Only(echoed', echoed, s) /\ Only(_b_close', _b_close, s)
<1>1. CASE Completes(s)
  <2>1. PICK b : Queues(s, Frame(b))
    BY <1>1, CompletesDoes, Zenon
  <2>2. UNCHANGED <<_b_close, written, echoed>>
    BY <1>1, CompletesDoes
  <2>3. CASE UNCHANGED sendVars
    <3>1. UNCHANGED <<_send_que, writing, accepted>>
      BY <2>3 DEF sendVars
    <3> QED
      BY <2>2, <3>1, Zenon DEF Only
  <2>4. CASE ~UNCHANGED sendVars
    <3>1. Only(_send_que', _send_que, s) /\ Only(accepted', accepted, s)
      BY <2>1, <2>4, Zenon DEF Only, Queues
    <3>2. Only(writing', writing, s)
      BY <2>1, <2>4, Zenon DEF Only, Queues
    <3> QED
      BY <2>2, <3>1, <3>2, Zenon DEF Only
  <2> QED
    BY <2>3, <2>4, Zenon
<1>2. CASE ReadCompletes(s) \/ ReadFails(s) \/ HandleRead(s) \/ Copies(s) \/ HeadInvalid(s)
             \/ HandleReadError(s)
  <2>1. UNCHANGED <<sendVars, written, echoed>>
    BY <1>2 DEF ReadCompletes, ReadFails, HandleRead, Copies, HeadInvalid, HandleReadError
  <2>2. UNCHANGED <<_send_que, writing, accepted, written, echoed>>
    BY <2>1 DEF sendVars
  <2>3. _b_close' = _b_close \/ _b_close' = [_b_close EXCEPT ![s] = TRUE]
    BY <1>2 DEF ReadCompletes, ReadFails, HandleRead, Copies, HeadInvalid, HandleReadError, Close
  <2> QED
    BY <2>2, <2>3, Zenon DEF Only
<1>3. CASE WriteCompletes(s) \/ WriteFails(s)
  <2>1. UNCHANGED <<_send_que, accepted, _b_close>>
    BY <1>3 DEF WriteCompletes, WriteFails
  <2>2. Only(writing', writing, s) /\ Only(written', written, s)
    BY <1>3, Zenon DEF Only, WriteCompletes, WriteFails
  <2>3. Only(echoed', echoed, s)
    <3>1. echoed' = echoed \/ echoed' = [echoed EXCEPT ![s] = Append(@, Head(writing[s]))]
      BY <1>3 DEF WriteCompletes, WriteFails
    <3> QED
      BY <3>1, Zenon DEF Only
  <2> QED
    BY <2>1, <2>2, <2>3, Zenon DEF Only
<1>4. CASE HandleWrite(s)
  <2>1. UNCHANGED <<accepted, _b_close, echoed>>
    BY <1>4 DEF HandleWrite
  <2>2. Only(written', written, s) /\ Only(_send_que', _send_que, s)
    BY <1>4, Zenon DEF Only, HandleWrite
  <2>3. Only(writing', writing, s)
    BY <1>4, Zenon DEF Only, HandleWrite
  <2> QED
    BY <2>1, <2>2, <2>3, Zenon DEF Only
<1>5. CASE HandleWriteError(s)
  <2>1. UNCHANGED <<sendVars, echoed>>
    BY <1>5 DEF HandleWriteError
  <2>2. UNCHANGED <<_send_que, writing, accepted, echoed>>
    BY <2>1 DEF sendVars
  <2>3. Only(written', written, s) /\ Only(_b_close', _b_close, s)
    BY <1>5, Zenon DEF Only, HandleWriteError, Close
  <2> QED
    BY <2>2, <2>3, Zenon DEF Only
<1> QED
  BY <1>1, <1>2, <1>3, <1>4, <1>5, Zenon DEF Step

\* The handler that runs afterwards is the one before, none, or the session's own.
LEMMA StepHandling ==
  ASSUME Shape, NEW s \in Sessions, Step(s)
  PROVE  /\ _sessions' \subseteq _sessions
         /\ handling' = handling \/ (handling \in {s, NoSession} /\ handling' \in {s, NoSession})
<1>1. CASE Completes(s)
  <2>1. _sessions' = _sessions
    BY <1>1, CompletesDoes
  <2>2. handling = s /\ (handling' = handling \/ handling' = NoSession)
    BY <1>1, CompletesDoes, Zenon DEF HandsOver
  <2> QED
    BY <2>1, <2>2
<1>2. CASE ReadCompletes(s)
  BY <1>2 DEF ReadCompletes
<1>3. CASE Copies(s)
  <2>1. _sessions' = _sessions
    BY <1>3 DEF Copies
  <2>2. handling = s /\ handling' = NoSession
    BY <1>3, Zenon DEF Copies, ReadMore
  <2> QED
    BY <2>1, <2>2
<1>4. CASE ReadFails(s) \/ HandleRead(s) \/ HandleReadError(s) \/ HeadInvalid(s)
             \/ WriteCompletes(s) \/ WriteFails(s) \/ HandleWrite(s) \/ HandleWriteError(s)
  BY <1>4 DEF ReadFails, HandleRead, HandleReadError, HeadInvalid, HeadComplete, WriteCompletes,
              WriteFails, HandleWrite, HandleWriteError, ClearSession
<1> QED
  BY <1>1, <1>2, <1>3, <1>4, Zenon DEF Step

\* The other sessions.
LEMMA StepOthers ==
  ASSUME Shape, NEW s \in Sessions, Step(s), NEW t \in Sessions, t # s
  PROVE  SameRecv(t) /\ SameSend(t) /\ (t \in _sessions' => t \in _sessions)
<1>0. ASSUME NEW T, NEW f \in [Sessions -> T], NEW g, Only(g, f, s) PROVE g[t] = f[t]
  BY <1>0 DEF Only
<1>1. /\ reading'[t] = reading[t] /\ stream'[t] = stream[t] /\ script'[t] = script[t]
  <2>1. Only(reading', reading, s) /\ Only(stream', stream, s) /\ Only(script', script, s)
    BY StepOnlyRecv, Zenon
  <2>2. SocketShape
    BY Zenon DEF Shape
  <2> QED
    BY <1>0, <2>1, <2>2, Zenon DEF SocketShape
<1>2. /\ _data'[t] = _data[t] /\ _b_head_parse'[t] = _b_head_parse[t]
      /\ _recv_head_node'[t] = _recv_head_node[t] /\ _recv_msg_node'[t] = _recv_msg_node[t]
      /\ parsed'[t] = parsed[t]
  <2>1. /\ Only(_data', _data, s) /\ Only(_b_head_parse', _b_head_parse, s)
        /\ Only(_recv_head_node', _recv_head_node, s)
        /\ Only(_recv_msg_node', _recv_msg_node, s) /\ Only(parsed', parsed, s)
    BY StepOnlyRecv, Zenon
  <2>2. RecvShape
    BY Zenon DEF Shape
  <2> QED
    BY <1>0, <2>1, <2>2, Zenon DEF RecvShape
<1>3. /\ _send_que'[t] = _send_que[t] /\ writing'[t] = writing[t] /\ written'[t] = written[t]
      /\ accepted'[t] = accepted[t] /\ echoed'[t] = echoed[t]
  <2>1. /\ Only(_send_que', _send_que, s) /\ Only(writing', writing, s)
        /\ Only(written', written, s) /\ Only(accepted', accepted, s)
        /\ Only(echoed', echoed, s)
    BY StepOnlySend, Zenon
  <2>2. SendShape
    BY Zenon DEF Shape
  <2> QED
    BY <1>0, <2>1, <2>2, Zenon DEF SendShape
<1>4. _b_close'[t] = _b_close[t]
  BY <1>0, StepOnlySend, Zenon DEF Shape, SocketShape
<1>5. handling' = t <=> handling = t
  <2>1. t # NoSession
    BY LengthAssumption
  <2> QED
    BY <2>1, StepHandling
<1>6. t \in _sessions' => t \in _sessions
  BY StepHandling
<1> QED
  BY <1>1, <1>2, <1>3, <1>4, <1>5, <1>6, Zenon DEF SameRecv, SameSend

-----------------------------------------------------------------------------
(* What a step does to the receiving side of its own session *)

\* The value that a function gets.
LEMMA At ==
  ASSUME NEW S, NEW T, NEW f \in [S -> T], NEW s \in S, NEW v
  PROVE  [f EXCEPT ![s] = v][s] = v
OBVIOUS

\* InProgress after a step, in terms of Received.
LEMMA InProgressNext ==
  ASSUME NEW s, NEW bp, NEW h, NEW m \in Nodes,
         _b_head_parse'[s] = bp, _recv_head_node'[s] = h, _recv_msg_node'[s] = m
  PROVE  InProgress(s)' = Received(bp, h, m)
BY Zenon DEF InProgress, Received

\* InProgress does not change when nothing it depends on does.
LEMMA InProgressSame ==
  ASSUME NEW s, UNCHANGED <<_b_head_parse, _recv_head_node, _recv_msg_node>>
  PROVE  InProgress(s)' = InProgress(s)
BY Zenon DEF InProgress

\* A session that reads, or is in its handler, was accepted.
LEMMA Accepted ==
  ASSUME NEW s, Fresh(s), reading[s] # "none" \/ handling = s, started' = started
  PROVE  Fresh(s)'
BY Zenon DEF Fresh

\* A completed read.
LEMMA ReadCompletesRecv ==
  ASSUME Shape, NEW s \in Sessions, Fresh(s), Receiving(s), ReadCompletes(s), started' = started
  PROVE  Fresh(s)' /\ Receiving(s)' /\ Alive(s)'
<1>1. PICK d \in Buffers, r \in Seq(Bytes) :
        /\ d \o r = stream[s]
        /\ _data' = [_data EXCEPT ![s] = d]
        /\ stream' = [stream EXCEPT ![s] = r]
  BY ReadCompletesDoes, Zenon
<1>2. /\ reading[s] = "pending" /\ reading' = [reading EXCEPT ![s] = "done"]
      /\ UNCHANGED <<handling, _b_head_parse, _recv_head_node, _recv_msg_node, script, parsed>>
  BY ReadCompletesDoes
<1>3. "pending" # "none" /\ "done" # "none" /\ "done" # "pending"
  OBVIOUS
<1>4. /\ _data'[s] = d /\ stream'[s] = r /\ reading'[s] = "done"
  BY <1>1, <1>2, At, Zenon DEF Shape, SocketShape, RecvShape
<1>5. handling' # s
  BY <1>2, <1>3, Zenon DEF Receiving
<1>6. InProgress(s)' = InProgress(s)
  BY <1>2, InProgressSame
<1>7. Whole(parsed[s], InProgress(s), << >>, stream[s], script[s])
  BY <1>2, Zenon DEF Receiving
<1>8. Whole(parsed[s], InProgress(s), d, r, script[s])
  <2>1. /\ parsed[s] \in Seq(Framable) /\ script[s] \in Seq(Bytes) /\ stream[s] \in Seq(Bytes)
        /\ InProgress(s) \in Seq(Bytes) /\ d \in Seq(Bytes)
    BY Typed, InProgressIs, Zenon DEF Buffers
  <2> QED
    BY <1>1, <1>7, <2>1, WholeAfterRead, Zenon
<1>9. _b_head_parse'[s] = _b_head_parse[s] /\ _recv_msg_node'[s] = _recv_msg_node[s]
      /\ parsed'[s] = parsed[s] /\ script'[s] = script[s]
  BY <1>2
<1>10. Receiving(s)'
  BY <1>3, <1>4, <1>5, <1>6, <1>8, <1>9, Zenon DEF Receiving
<1> QED
  BY <1>2, <1>3, <1>4, <1>10, Accepted, Zenon DEF Alive

\* The buffer is copied and the next read started.
LEMMA CopiesRecv ==
  ASSUME Shape, NEW s \in Sessions, Fresh(s), Receiving(s), Copies(s), started' = started
  PROVE  Fresh(s)' /\ Receiving(s)' /\ Alive(s)'
<1>1. PICK bp \in BOOLEAN, h \in Heads, m \in Nodes :
        /\ Received(bp, h, m) = InProgress(s) \o _data[s]
        /\ _b_head_parse' = [_b_head_parse EXCEPT ![s] = bp]
        /\ _recv_head_node' = [_recv_head_node EXCEPT ![s] = h]
        /\ _recv_msg_node' = [_recv_msg_node EXCEPT ![s] = m]
  BY Zenon DEF Copies
<1>2. /\ handling = s /\ handling' = NoSession /\ _data' = [_data EXCEPT ![s] = << >>]
      /\ reading' = [reading EXCEPT ![s] = "pending"]
  BY Zenon DEF Copies, ReadMore, AsyncRead
<1>3. UNCHANGED <<stream, script, parsed>>
  BY DEF Copies
<1>4. _b_head_parse'[s] = bp /\ _recv_head_node'[s] = h /\ _recv_msg_node'[s] = m
  BY <1>1, At, Zenon DEF Shape, RecvShape
<1>5. _data'[s] = << >> /\ reading'[s] = "pending"
  BY <1>2, At, Zenon DEF Shape, SocketShape, RecvShape
<1>6. InProgress(s)' = InProgress(s) \o _data[s]
  BY <1>1, <1>4, InProgressNext, Zenon
<1>7. Whole(parsed[s], InProgress(s) \o _data[s], << >>, stream[s], script[s])
  <2> DEFINE h2 == InProgress(s) \o _data[s]
  <2>1. /\ parsed[s] \in Seq(Framable) /\ script[s] \in Seq(Bytes) /\ stream[s] \in Seq(Bytes)
        /\ InProgress(s) \in Seq(Bytes) /\ _data[s] \in Seq(Bytes)
    BY Typed, InProgressIs, Zenon
  <2>2. h2 \in Seq(Bytes)
    BY <2>1, ByteConcat, Zenon
  <2>3. << >> \in Seq(Bytes) /\ InProgress(s) \o _data[s] = h2 \o << >>
    BY <2>2, ConcatEmptySeq
  <2>4. Whole(parsed[s], InProgress(s), _data[s], stream[s], script[s])
    BY Zenon DEF Receiving
  <2> HIDE DEF h2
  <2>5. Whole(parsed[s], h2, << >>, stream[s], script[s])
    BY <2>1, <2>2, <2>3, <2>4, WholeRegrouped, Zenon
  <2> QED
    BY <2>5, Zenon DEF h2
<1>8. stream'[s] = stream[s] /\ script'[s] = script[s] /\ parsed'[s] = parsed[s]
  BY <1>3
<1>9. handling' # s /\ "pending" # "none"
  BY <1>2, LengthAssumption
<1>10. Receiving(s)'
  BY <1>1, <1>4, <1>5, <1>6, <1>7, <1>8, <1>9, Zenon DEF Receiving
<1> QED
  BY <1>2, <1>5, <1>9, <1>10, Accepted, Zenon DEF Alive

\* A message is complete.
LEMMA CompletesRecv ==
  ASSUME Shape, NEW s \in Sessions, Fresh(s), Receiving(s), Completes(s), started' = started
  PROVE  Fresh(s)' /\ Receiving(s)' /\ Alive(s)'
<1>1. PICK m, b, rest : HandsOver(s, m, b, rest)
  BY CompletesDoes, Zenon
<1>2. UNCHANGED <<stream, script>>
  BY CompletesDoes
<1>3. stream'[s] = stream[s] /\ script'[s] = script[s]
  BY <1>2
<1>4. /\ _b_head_parse'[s] = FALSE /\ _recv_head_node'[s] = << >> /\ _recv_msg_node'[s] = m
      /\ parsed'[s] = Append(parsed[s], b) /\ _data'[s] = rest
  BY <1>1, At, Zenon DEF HandsOver, Shape, RecvShape
<1>5. /\ handling = s /\ m \in Nodes /\ b \in Framable /\ rest \in Buffers
      /\ InProgress(s) \o _data[s] = Frame(b) \o rest
  BY <1>1, Zenon DEF HandsOver
<1>6. InProgress(s)' = << >>
  BY <1>4, <1>5, InProgressNext, Zenon DEF Received
<1>7. Whole(Append(parsed[s], b), << >>, rest, stream[s], script[s])
  <2>1. /\ parsed[s] \in Seq(Framable) /\ script[s] \in Seq(Bytes) /\ stream[s] \in Seq(Bytes)
        /\ InProgress(s) \in Seq(Bytes) /\ _data[s] \in Seq(Bytes) /\ rest \in Seq(Bytes)
    BY <1>5, Typed, InProgressIs, Zenon DEF Buffers
  <2>2. Whole(parsed[s], InProgress(s), _data[s], stream[s], script[s])
    BY Zenon DEF Receiving
  <2> QED
    BY <1>5, <2>1, <2>2, WholeAfterMessage, Zenon
<1>8. reading[s] = "none" /\ s # NoSession /\ "pending" # "none"
  <2>1. s # NoSession
    BY LengthAssumption
  <2> QED
    BY <1>5, <2>1, Zenon DEF Receiving
<1>9. \/ rest = << >> /\ reading'[s] = "pending" /\ handling' = NoSession
      \/ reading'[s] = "none" /\ handling' = s
  <2>1. CASE rest = << >>
    BY <1>1, <2>1, At, Zenon DEF HandsOver, Shape, SocketShape
  <2>2. CASE rest # << >>
    BY <1>1, <1>5, <1>8, <2>2, Zenon DEF HandsOver
  <2> QED
    BY <2>1, <2>2, Zenon
<1>10. Receiving(s)'
  BY <1>3, <1>4, <1>6, <1>7, <1>8, <1>9, Zenon DEF Receiving
<1> QED
  BY <1>5, <1>8, <1>9, <1>10, Accepted, Zenon DEF Alive

\* The steps of the receiving side that leave what was received alone.
LEMMA OtherRecv ==
  ASSUME Shape, NEW s \in Sessions, Fresh(s), Receiving(s),
         ReadFails(s) \/ HandleRead(s) \/ HandleReadError(s) \/ HeadInvalid(s), started' = started
  PROVE  Fresh(s)' /\ Receiving(s)' /\ Alive(s)'
<1>1. UNCHANGED <<stream, script, recvVars, parsed>>
  BY DEF ReadFails, HandleRead, HandleReadError, HeadInvalid
<1>2. UNCHANGED <<stream, script, _data, _b_head_parse, _recv_head_node, _recv_msg_node, parsed>>
  BY <1>1 DEF recvVars
<1>3. InProgress(s)' = InProgress(s)
  BY <1>2, InProgressSame
<1>4. Whole(parsed'[s], InProgress(s)', _data'[s], stream'[s], script'[s])
  BY <1>2, <1>3, Zenon DEF Receiving
<1>5. s # NoSession
  BY LengthAssumption
<1>6. CASE ReadFails(s)
  <2>1. reading[s] = "pending" /\ reading' = [reading EXCEPT ![s] = "failed"] /\ handling' = handling
    BY <1>6 DEF ReadFails
  <2>2. reading'[s] = "failed"
    BY <2>1, At, Zenon DEF Shape, SocketShape
  <2>3. "pending" # "none" /\ "failed" # "none" /\ "failed" # "pending"
    OBVIOUS
  <2>4. handling' # s
    BY <2>1, <2>3, Zenon DEF Receiving
  <2> QED
    BY <1>4, <2>1, <2>2, <2>3, <2>4, Accepted, Zenon DEF Receiving, Alive
<1>7. CASE HandleRead(s)
  <2>1. reading[s] = "done" /\ reading' = [reading EXCEPT ![s] = "none"] /\ handling' = s
    BY <1>7 DEF HandleRead
  <2>2. reading'[s] = "none"
    BY <2>1, At, Zenon DEF Shape, SocketShape
  <2>3. "none" # "pending" /\ "done" # "none"
    OBVIOUS
  <2> QED
    BY <1>4, <2>1, <2>2, <2>3, Accepted, Zenon DEF Receiving, Alive
<1>8. CASE HandleReadError(s)
  <2>1. /\ reading[s] = "failed" /\ reading' = [reading EXCEPT ![s] = "none"]
        /\ handling = NoSession /\ handling' = handling /\ s \notin _sessions'
    BY <1>8 DEF HandleReadError, ClearSession
  <2>2. reading'[s] = "none"
    BY <2>1, At, Zenon DEF Shape, SocketShape
  <2>3. "none" # "pending" /\ "failed" # "none"
    OBVIOUS
  <2> QED
    BY <1>4, <1>5, <2>1, <2>2, <2>3, Accepted, Zenon DEF Receiving, Alive
<1>9. CASE HeadInvalid(s)
  <2>1. /\ handling = s /\ reading' = reading /\ handling' = NoSession /\ s \notin _sessions'
    BY <1>9 DEF HeadInvalid, HeadComplete, ClearSession
  <2>2. reading'[s] = "none" /\ "none" # "pending"
    BY <2>1, Zenon DEF Receiving
  <2> QED
    BY <1>4, <1>5, <2>1, <2>2, Accepted, Zenon DEF Receiving, Alive
<1> QED
  BY <1>6, <1>7, <1>8, <1>9, Zenon

\* The steps of the sending side leave the receiving side alone.
LEMMA WriteRecv ==
  ASSUME Shape, NEW s \in Sessions, Fresh(s), Receiving(s), Alive(s), started' = started,
         WriteCompletes(s) \/ WriteFails(s) \/ HandleWrite(s) \/ HandleWriteError(s)
  PROVE  Fresh(s)' /\ Receiving(s)' /\ Alive(s)'
<1>1. UNCHANGED <<reading, handling, stream, script, recvVars, parsed>>
  BY DEF WriteCompletes, WriteFails, HandleWrite, HandleWriteError
<1>2. UNCHANGED <<reading, handling, stream, script, _data, _b_head_parse, _recv_head_node,
                  _recv_msg_node, parsed>>
  BY <1>1 DEF recvVars
<1>3. SameRecv(s)
  BY <1>2, Zenon DEF SameRecv
<1>4. s \in _sessions' => s \in _sessions
  <2>1. Step(s)
    BY Zenon DEF Step
  <2> QED
    BY <2>1, StepHandling, Zenon
<1> QED
  BY <1>3, <1>4, RecvKept, Zenon

\* Every step keeps the receiving side of its session right.
LEMMA StepRecv ==
  ASSUME Shape, NEW s \in Sessions, Fresh(s), Receiving(s), Alive(s), Step(s), started' = started
  PROVE  Fresh(s)' /\ Receiving(s)' /\ Alive(s)'
BY ReadCompletesRecv, CopiesRecv, CompletesRecv, OtherRecv, WriteRecv, Zenon DEF Step

-----------------------------------------------------------------------------
(* What a step does to the sending side of its own session *)

\* Sending, of a queue q, a write w, its state st, and the histories acc and ech.
SendOK(q, w, st, cl, acc, ech) ==
  /\ w # << >> => q # << >> /\ st = "none" /\ w = <<Head(q)>>
  /\ q = << >> => st = "none"
  /\ q # << >> /\ ~cl => w # << >> \/ st # "none"
  /\ acc = ech \o (IF st = "done" THEN Tail(q) ELSE q)

Frames == Seq(Bytes)

\* A frame joins a queue that is not empty.
LEMMA QueuedBehind ==
  ASSUME NEW q \in Seq(Frames), NEW w, NEW st, NEW cl, NEW acc, NEW ech \in Seq(Frames),
         SendOK(q, w, st, cl, acc, ech), q # << >>, NEW f \in Frames
  PROVE  SendOK(Append(q, f), w, st, cl, Append(acc, f), ech)
<1>1. /\ Append(q, f) # << >> /\ Head(Append(q, f)) = Head(q)
      /\ Tail(Append(q, f)) = Append(Tail(q), f) /\ Tail(q) \in Seq(Frames)
  BY HeadTailAppend, HeadTailProperties
<1>2. CASE st = "done"
  <2>1. acc = ech \o Tail(q)
    BY <1>2, Zenon DEF SendOK
  <2>2. Append(acc, f) = ech \o Append(Tail(q), f)
    <3>1. ech \o Append(Tail(q), f) = Append(ech \o Tail(q), f)
      BY <1>1, AppendConcat
    <3> QED
      BY <2>1, <3>1, Zenon
  <2> QED
    BY <1>1, <1>2, <2>2, Zenon DEF SendOK
<1>3. CASE st # "done"
  <2>1. acc = ech \o q
    BY <1>3, Zenon DEF SendOK
  <2>2. Append(acc, f) = ech \o Append(q, f)
    <3>1. ech \o Append(q, f) = Append(ech \o q, f)
      BY AppendConcat
    <3> QED
      BY <2>1, <3>1, Zenon
  <2> QED
    BY <1>1, <1>3, <2>2, Zenon DEF SendOK
<1> QED
  BY <1>2, <1>3, Zenon

\* A frame joins a queue that is empty, and is written.
LEMMA QueuedFirst ==
  ASSUME NEW q \in Seq(Frames), NEW w, NEW st, NEW cl, NEW acc, NEW ech \in Seq(Frames),
         SendOK(q, w, st, cl, acc, ech), q = << >>, NEW f \in Frames
  PROVE  SendOK(Append(q, f), Append(w, f), st, cl, Append(acc, f), ech)
<1>1. w = << >> /\ st = "none" /\ "none" # "done"
  BY Zenon DEF SendOK
<1>2. acc = ech \o q
  BY <1>1, Zenon DEF SendOK
<1>3. Append(acc, f) = ech \o Append(q, f)
  <2>1. ech \o Append(q, f) = Append(ech \o q, f)
    BY AppendConcat
  <2> QED
    BY <1>2, <2>1, Zenon
<1>4. Append(q, f) # << >> /\ Append(w, f) = <<f>> /\ Head(Append(q, f)) = f /\ <<f>> # << >>
  BY <1>1
<1> QED
  BY <1>1, <1>3, <1>4, Zenon DEF SendOK

\* The frame being written reaches the peer.
LEMMA WriteDone ==
  ASSUME NEW q \in Seq(Frames), NEW w, NEW cl, NEW acc, NEW ech \in Seq(Frames),
         SendOK(q, w, "none", cl, acc, ech), w # << >>
  PROVE  SendOK(q, Tail(w), "done", cl, acc, Append(ech, Head(w)))
<1>1. q # << >> /\ w = <<Head(q)>> /\ "none" # "done"
  BY Zenon DEF SendOK
<1>2. Tail(w) = << >> /\ Head(w) = Head(q)
  BY <1>1
<1>3. acc = ech \o q
  BY <1>1, Zenon DEF SendOK
<1>4. acc = Append(ech, Head(q)) \o Tail(q)
  BY <1>1, <1>3, HeadMoves, Zenon
<1> QED
  BY <1>1, <1>2, <1>4, Zenon DEF SendOK

\* The frame being written does not reach the peer.
LEMMA WriteNotDone ==
  ASSUME NEW q \in Seq(Frames), NEW w, NEW cl, NEW acc, NEW ech \in Seq(Frames),
         SendOK(q, w, "none", cl, acc, ech), w # << >>
  PROVE  SendOK(q, Tail(w), "failed", cl, acc, ech)
<1>1. q # << >> /\ w = <<Head(q)>> /\ "none" # "done" /\ "failed" # "done" /\ "failed" # "none"
  BY Zenon DEF SendOK
<1>2. Tail(w) = << >>
  BY <1>1
<1> QED
  BY <1>1, <1>2, Zenon DEF SendOK

\* The written frame leaves the queue, and the next one is written.
LEMMA WriteNext ==
  ASSUME NEW q \in Seq(Frames), NEW w, NEW cl, NEW acc, NEW ech \in Seq(Frames),
         SendOK(q, w, "done", cl, acc, ech)
  PROVE  /\ Tail(q) = << >> => SendOK(Tail(q), w, "none", cl, acc, ech)
         /\ Tail(q) # << >> => SendOK(Tail(q), Append(w, Head(Tail(q))), "none", cl, acc, ech)
<1>1. w = << >> /\ "none" # "done" /\ acc = ech \o Tail(q)
  <2>1. "none" # "done"
    OBVIOUS
  <2> QED
    BY <2>1, Zenon DEF SendOK
<1>2. Append(w, Head(Tail(q))) = <<Head(Tail(q))>> /\ <<Head(Tail(q))>> # << >>
  BY <1>1
<1>3. Tail(q) = << >> => SendOK(Tail(q), w, "none", cl, acc, ech)
  BY <1>1, Zenon DEF SendOK
<1>4. Tail(q) # << >> => SendOK(Tail(q), Append(w, Head(Tail(q))), "none", cl, acc, ech)
  BY <1>1, <1>2, Zenon DEF SendOK
<1> QED
  BY <1>3, <1>4, Zenon

\* The session is closed after a write that failed.
LEMMA WriteClosed ==
  ASSUME NEW q, NEW w, NEW cl, NEW acc, NEW ech, SendOK(q, w, "failed", cl, acc, ech)
  PROVE  SendOK(q, w, "none", TRUE, acc, ech)
<1>1. "none" # "failed" /\ "none" # "done" /\ "failed" # "done"
  OBVIOUS
<1> QED
  BY <1>1, Zenon DEF SendOK

\* Sending in these terms, before and after a step.
LEMMA SendingIs ==
  ASSUME NEW s
  PROVE  /\ Sending(s) <=> SendOK(_send_que[s], writing[s], written[s], _b_close[s],
                                  accepted[s], echoed[s])
         /\ Sending(s)' <=> SendOK(_send_que'[s], writing'[s], written'[s], _b_close'[s],
                                   accepted'[s], echoed'[s])
BY Zenon DEF Sending, SendOK

\* Every step keeps the sending side of its session right.
LEMMA StepSend ==
  ASSUME Shape, NEW s \in Sessions, Sending(s), Step(s)
  PROVE  Sending(s)'
<1> DEFINE q   == _send_que[s]
           w   == writing[s]
           st  == written[s]
           cl  == _b_close[s]
           acc == accepted[s]
           ech == echoed[s]
<1>1. q \in Seq(Frames) /\ w \in Seq(Frames) /\ acc \in Seq(Frames) /\ ech \in Seq(Frames)
  BY SendTyped, Zenon DEF Frames
<1>2. SendOK(q, w, st, cl, acc, ech)
  BY SendingIs, Zenon
<1>3. ASSUME NEW f \in [Sessions -> Seq(Seq(Bytes))], NEW v PROVE [f EXCEPT ![s] = v][s] = v
  BY At, Zenon
<1>4. ASSUME NEW v PROVE [written EXCEPT ![s] = v][s] = v
  BY At, Zenon DEF Shape, SendShape
<1>5. SendShape
  BY Zenon DEF Shape
<1>6. CASE Completes(s)
  <2>1. PICK m, b, rest : HandsOver(s, m, b, rest) /\ Queues(s, Frame(b))
    BY <1>6, CompletesDoes, Zenon
  <2>2. UNCHANGED <<_b_close, written, echoed>>
    BY <1>6, CompletesDoes
  <2>3. Frame(b) \in Frames
    BY <2>1, FrameIs, Zenon DEF HandsOver, Frames
  <2>4. written'[s] = st /\ _b_close'[s] = cl /\ echoed'[s] = ech
    BY <2>2
  <2>5. CASE UNCHANGED sendVars
    <3>1. UNCHANGED <<_send_que, writing, accepted>>
      BY <2>5 DEF sendVars
    <3>2. _send_que'[s] = q /\ writing'[s] = w /\ accepted'[s] = acc
      BY <3>1
    <3> QED
      BY <1>2, <2>4, <3>2, SendingIs, Zenon
  <2>6. CASE ~UNCHANGED sendVars
    <3>1. _send_que'[s] = Append(q, Frame(b)) /\ accepted'[s] = Append(acc, Frame(b))
      BY <1>3, <1>5, <2>1, <2>6, Zenon DEF Queues, SendShape
    <3>2. CASE q # << >>
      <4>1. writing'[s] = w
        BY <2>1, <2>6, <3>2, Zenon DEF Queues
      <4>2. SendOK(Append(q, Frame(b)), w, st, cl, Append(acc, Frame(b)), ech)
        BY <1>1, <1>2, <2>3, <3>2, QueuedBehind, Zenon
      <4> QED
        BY <2>4, <3>1, <4>1, <4>2, SendingIs, Zenon
    <3>3. CASE q = << >>
      <4>1. writing'[s] = Append(w, Frame(b))
        BY <1>3, <1>5, <2>1, <2>6, <3>3, Zenon DEF Queues, SendShape
      <4>2. SendOK(Append(q, Frame(b)), Append(w, Frame(b)), st, cl, Append(acc, Frame(b)), ech)
        BY <1>1, <1>2, <2>3, <3>3, QueuedFirst, Zenon
      <4> QED
        BY <2>4, <3>1, <4>1, <4>2, SendingIs, Zenon
    <3> QED
      BY <3>2, <3>3, Zenon
  <2> QED
    BY <2>5, <2>6, Zenon
<1>7. CASE WriteCompletes(s)
  <2>1. /\ w # << >> /\ st = "none" /\ written' = [written EXCEPT ![s] = "done"]
        /\ echoed' = [echoed EXCEPT ![s] = Append(ech, Head(w))]
        /\ writing' = [writing EXCEPT ![s] = Tail(w)]
        /\ _send_que' = _send_que /\ accepted' = accepted /\ _b_close' = _b_close
    BY <1>7 DEF WriteCompletes
  <2>2. /\ written'[s] = "done" /\ echoed'[s] = Append(ech, Head(w)) /\ writing'[s] = Tail(w)
        /\ _send_que'[s] = q /\ accepted'[s] = acc /\ _b_close'[s] = cl
    BY <1>3, <1>4, <1>5, <2>1, Zenon DEF SendShape
  <2>3. SendOK(q, Tail(w), "done", cl, acc, Append(ech, Head(w)))
    BY <1>1, <1>2, <2>1, WriteDone, Zenon
  <2> QED
    BY <2>2, <2>3, SendingIs, Zenon
<1>8. CASE WriteFails(s)
  <2>1. /\ w # << >> /\ st = "none" /\ written' = [written EXCEPT ![s] = "failed"]
        /\ writing' = [writing EXCEPT ![s] = Tail(w)]
        /\ _send_que' = _send_que /\ accepted' = accepted /\ _b_close' = _b_close /\ echoed' = echoed
    BY <1>8 DEF WriteFails
  <2>2. /\ written'[s] = "failed" /\ echoed'[s] = ech /\ writing'[s] = Tail(w)
        /\ _send_que'[s] = q /\ accepted'[s] = acc /\ _b_close'[s] = cl
    BY <1>3, <1>4, <1>5, <2>1, Zenon DEF SendShape
  <2>3. SendOK(q, Tail(w), "failed", cl, acc, ech)
    BY <1>1, <1>2, <2>1, WriteNotDone, Zenon
  <2> QED
    BY <2>2, <2>3, SendingIs, Zenon
<1>9. CASE HandleWrite(s)
  <2>1. /\ st = "done" /\ written' = [written EXCEPT ![s] = "none"]
        /\ _send_que' = [_send_que EXCEPT ![s] = Tail(q)]
        /\ accepted' = accepted /\ echoed' = echoed /\ _b_close' = _b_close
    BY <1>9 DEF HandleWrite
  <2>2. /\ written'[s] = "none" /\ _send_que'[s] = Tail(q)
        /\ accepted'[s] = acc /\ echoed'[s] = ech /\ _b_close'[s] = cl
    BY <1>3, <1>4, <1>5, <2>1, Zenon DEF SendShape
  <2>3. SendOK(q, w, "done", cl, acc, ech)
    BY <1>2, <2>1, Zenon
  <2>4. CASE Tail(q) = << >>
    <3>1. writing'[s] = w
      BY <1>9, <2>4, Zenon DEF HandleWrite
    <3>2. SendOK(Tail(q), w, "none", cl, acc, ech)
      BY <1>1, <2>3, <2>4, WriteNext, Zenon
    <3> QED
      BY <2>2, <3>1, <3>2, SendingIs, Zenon
  <2>5. CASE Tail(q) # << >>
    <3>1. writing' = [writing EXCEPT ![s] = Append(w, Head(Tail(q)))]
      BY <1>9, <2>5, Zenon DEF HandleWrite
    <3>2. writing'[s] = Append(w, Head(Tail(q)))
      BY <1>3, <1>5, <3>1, Zenon DEF SendShape
    <3>3. SendOK(Tail(q), Append(w, Head(Tail(q))), "none", cl, acc, ech)
      BY <1>1, <2>3, <2>5, WriteNext, Zenon
    <3> QED
      BY <2>2, <3>2, <3>3, SendingIs, Zenon
  <2> QED
    BY <2>4, <2>5, Zenon
<1>10. CASE HandleWriteError(s)
  <2>1. /\ st = "failed" /\ written' = [written EXCEPT ![s] = "none"]
        /\ _b_close' = [_b_close EXCEPT ![s] = TRUE] /\ UNCHANGED <<sendVars, echoed>>
    BY <1>10 DEF HandleWriteError, Close
  <2>2. UNCHANGED <<_send_que, writing, accepted, echoed>>
    BY <2>1 DEF sendVars
  <2>3. _b_close'[s] = TRUE
    BY <2>1, At, Zenon DEF Shape, SocketShape
  <2>4. /\ written'[s] = "none" /\ _send_que'[s] = q /\ writing'[s] = w
        /\ accepted'[s] = acc /\ echoed'[s] = ech
    BY <1>4, <2>1, <2>2, Zenon
  <2>5. SendOK(q, w, "none", TRUE, acc, ech)
    BY <1>2, <2>1, WriteClosed, Zenon
  <2> QED
    BY <2>3, <2>4, <2>5, SendingIs, Zenon
<1>11. CASE ReadCompletes(s) \/ ReadFails(s) \/ HandleRead(s) \/ HandleReadError(s)
              \/ Copies(s) \/ HeadInvalid(s)
  <2>1. UNCHANGED <<sendVars, written, echoed>>
    BY <1>11 DEF ReadCompletes, ReadFails, HandleRead, HandleReadError, Copies, HeadInvalid
  <2>2. UNCHANGED <<_send_que, writing, accepted, written, echoed>>
    BY <2>1 DEF sendVars
  <2>3. _b_close' = _b_close \/ _b_close' = [_b_close EXCEPT ![s] = TRUE]
    BY <1>11 DEF ReadCompletes, ReadFails, HandleRead, HandleReadError, Copies, HeadInvalid, Close
  <2>4. _b_close'[s] = _b_close[s] \/ _b_close'[s] = TRUE
    BY <2>3, At, Zenon DEF Shape, SocketShape
  <2>5. SameSend(s)
    BY <2>2, <2>4, Zenon DEF SameSend
  <2> QED
    BY <2>5, SendKept, Zenon
<1> QED
  BY <1>6, <1>7, <1>8, <1>9, <1>10, <1>11, Zenon DEF Step

-----------------------------------------------------------------------------
(* The acceptor *)

\* A session that nothing happens to.
LEMMA AllKept ==
  ASSUME NEW t, UNCHANGED sessionVars, started' = started,
         Fresh(t), Receiving(t), Alive(t), Sending(t)
  PROVE  Fresh(t)' /\ Receiving(t)' /\ Alive(t)' /\ Sending(t)'
<1>1. UNCHANGED <<_sessions, handling, _b_close, stream, script, reading, _data, _b_head_parse,
                  _recv_head_node, _recv_msg_node, parsed, _send_que, writing, written, accepted,
                  echoed>>
  BY DEF sessionVars, recvVars, sendVars
<1>2. SameRecv(t) /\ SameSend(t) /\ (t \in _sessions' => t \in _sessions)
  BY <1>1, Zenon DEF SameRecv, SameSend
<1>3. Fresh(t)' /\ Receiving(t)' /\ Alive(t)'
  BY <1>2, RecvKept, Zenon
<1> QED
  BY <1>2, <1>3, SendKept, Zenon

\* A peer connects and sends its bytes.
LEMMA AcceptCompletesInv ==
  ASSUME Shape, AcceptCompletes, NEW t \in Sessions,
         Fresh(t), Receiving(t), Alive(t), Sending(t)
  PROVE  Fresh(t)' /\ Receiving(t)' /\ Alive(t)' /\ Sending(t)'
<1>1. /\ accepting \in Sessions /\ accepting \notin started
      /\ UNCHANGED <<_sessions, handling, _b_close, reading, recvVars, sendVars, written, parsed,
                     echoed, started>>
  BY DEF AcceptCompletes, Shape, Sessioning
<1>2. PICK bytes \in Scripts[accepting] :
        /\ script' = [script EXCEPT ![accepting] = bytes]
        /\ stream' = [stream EXCEPT ![accepting] = bytes]
  BY Zenon DEF AcceptCompletes
<1>3. UNCHANGED <<_sessions, handling, _b_close, reading, _data, _b_head_parse, _recv_head_node,
                  _recv_msg_node, parsed, _send_que, writing, written, accepted, echoed, started>>
  BY <1>1 DEF recvVars, sendVars
<1>4. Sending(t)'
  <2>1. SameSend(t)
    BY <1>3, Zenon DEF SameSend
  <2> QED
    BY <2>1, SendKept, Zenon
<1>5. CASE t # accepting
  <2>1. script'[t] = script[t] /\ stream'[t] = stream[t]
    BY <1>2, <1>5 DEF Shape, SocketShape
  <2>2. SameRecv(t) /\ (t \in _sessions' => t \in _sessions)
    BY <1>3, <2>1, Zenon DEF SameRecv
  <2> QED
    BY <1>3, <1>4, <2>2, RecvKept, Zenon
<1>6. CASE t = accepting
  <2>1. /\ reading[t] = "none" /\ handling # t /\ _data[t] = << >> /\ ~_b_head_parse[t]
        /\ _recv_head_node[t] = << >> /\ parsed[t] = << >>
    BY <1>1, <1>6, Zenon DEF Fresh
  <2>2. script'[t] = bytes /\ stream'[t] = bytes
    BY <1>2, <1>6, At, Zenon DEF Shape, SocketShape
  <2>3. bytes \in Seq(Bytes)
    BY <1>1, ScriptType, Zenon
  <2>4. InProgress(t)' = << >>
    <3>1. ~_b_head_parse'[t] /\ _recv_head_node'[t] = << >>
      BY <1>3, <2>1, Zenon
    <3> QED
      BY <3>1, Zenon DEF InProgress
  <2>5. Whole(parsed'[t], InProgress(t)', _data'[t], stream'[t], script'[t])
    <3>1. parsed'[t] = << >> /\ _data'[t] = << >>
      BY <1>3, <2>1, Zenon
    <3> QED
      BY <2>2, <2>3, <2>4, <3>1, WholeAtStart, Zenon
  <2>6. Receiving(t)'
    BY <1>3, <2>1, <2>5, Zenon DEF Receiving
  <2>7. Fresh(t)'
    BY <1>3, <2>1, Zenon DEF Fresh
  <2>8. Alive(t)'
    BY <1>3, Zenon DEF Alive
  <2> QED
    BY <1>4, <2>6, <2>7, <2>8, Zenon
<1> QED
  BY <1>5, <1>6, Zenon

\* The accepted session starts to read.
LEMMA HandleAcceptInv ==
  ASSUME Shape, HandleAccept, NEW t \in Sessions,
         Fresh(t), Receiving(t), Alive(t), Sending(t)
  PROVE  Fresh(t)' /\ Receiving(t)' /\ Alive(t)' /\ Sending(t)'
<1>1. /\ accepting \in Sessions /\ accepting \notin started
      /\ _sessions' = _sessions \cup {accepting} /\ started' = started \cup {accepting}
      /\ reading' = [reading EXCEPT ![accepting] = "pending"]
      /\ UNCHANGED <<handling, _b_close, stream, recvVars, sendVars, written, script, parsed, echoed>>
  BY DEF HandleAccept, AsyncRead, Shape, Sessioning
<1>2. UNCHANGED <<handling, _b_close, stream, script, _data, _b_head_parse, _recv_head_node,
                  _recv_msg_node, parsed, _send_que, writing, written, accepted, echoed>>
  BY <1>1 DEF recvVars, sendVars
<1>3. Sending(t)'
  <2>1. SameSend(t)
    BY <1>2, Zenon DEF SameSend
  <2> QED
    BY <2>1, SendKept, Zenon
<1>4. CASE t # accepting
  <2>1. reading'[t] = reading[t]
    BY <1>1, <1>4 DEF Shape, SocketShape
  <2>2. SameRecv(t)
    BY <1>2, <2>1, Zenon DEF SameRecv
  <2>3. (t \in _sessions' => t \in _sessions) /\ (t \in started => t \in started')
    BY <1>1, <1>4
  <2> QED
    BY <1>3, <2>2, <2>3, RecvKept, Zenon
<1>5. CASE t = accepting
  <2>1. handling # t /\ _data[t] = << >>
    BY <1>1, <1>5, Zenon DEF Fresh
  <2>2. reading'[t] = "pending" /\ "pending" # "none"
    BY <1>1, <1>5, At, Zenon DEF Shape, SocketShape
  <2>3. t \in started'
    BY <1>1, <1>5
  <2>4. InProgress(t)' = InProgress(t)
    BY <1>2, InProgressSame
  <2>5. Receiving(t)'
    BY <1>2, <2>1, <2>2, <2>4, Zenon DEF Receiving
  <2> QED
    BY <1>3, <2>2, <2>3, <2>5, Zenon DEF Fresh, Alive
<1> QED
  BY <1>4, <1>5, Zenon

-----------------------------------------------------------------------------
(* The invariant *)

\* The sessions when the server starts.
LEMMA InitRight == ASSUME Init PROVE Shape /\ EachRight
<1>1. Sessioning
  <2>1. NewSession({}) \in Sessions \cup {NoSession}
    BY NewSessionIsNew
  <2>2. "pending" # "done"
    OBVIOUS
  <2> QED
    BY <2>1, <2>2 DEF Init, Sessioning
<1>2. << >> \in Seq(Bytes) /\ << >> \in Seq(Seq(Bytes)) /\ << >> \in Seq(Framable)
  OBVIOUS
<1>3. << >> \in Buffers /\ << >> \in Heads
  <2>1. Len(<< >>) <= MAX_LENGTH /\ Len(<< >>) < HEAD_LENGTH
    BY LengthAssumption DEF HEAD_LENGTH
  <2> QED
    BY <1>2, <2>1, Zenon DEF Buffers, Heads
<1>4. NoMsg \in Nodes
  <2>1. 0 \in Lengths
    BY LengthAssumption DEF Lengths
  <2> QED
    BY <1>2, <2>1, NodeIs, Zenon DEF NoMsg, Node
<1>5. SocketShape
  BY <1>2 DEF Init, SocketShape
<1>6. RecvShape
  <2>1. _data \in [Sessions -> Buffers] /\ _recv_head_node \in [Sessions -> Heads]
    BY <1>3 DEF Init
  <2>2. _recv_msg_node \in [Sessions -> Nodes] /\ parsed \in [Sessions -> Seq(Framable)]
    BY <1>2, <1>4 DEF Init
  <2>3. _b_head_parse \in [Sessions -> BOOLEAN]
    BY DEF Init
  <2> QED
    BY <2>1, <2>2, <2>3, Zenon DEF RecvShape
<1>7. SendShape
  BY <1>2 DEF Init, SendShape
<1>8. ASSUME NEW t \in Sessions PROVE Fresh(t) /\ Receiving(t) /\ Alive(t) /\ Sending(t)
  <2>1. /\ reading[t] = "none" /\ _data[t] = << >> /\ _b_head_parse[t] = FALSE
        /\ _recv_head_node[t] = << >> /\ parsed[t] = << >> /\ handling = NoSession
        /\ stream[t] = << >> /\ script[t] = << >> /\ _sessions = {}
        /\ _send_que[t] = << >> /\ writing[t] = << >> /\ written[t] = "none"
        /\ accepted[t] = << >> /\ echoed[t] = << >>
    BY DEF Init
  <2>2. t # NoSession /\ "none" # "pending" /\ "none" # "done"
    BY LengthAssumption
  <2>3. InProgress(t) = << >>
    BY <2>1, Zenon DEF InProgress
  <2>4. Whole(<< >>, << >>, << >>, << >>, << >>)
    BY <1>2, WholeAtStart, Zenon
  <2>5. Receiving(t)
    BY <2>1, <2>2, <2>3, <2>4, Zenon DEF Receiving
  <2>6. << >> = << >> \o << >>
    OBVIOUS
  <2>7. Sending(t)
    BY <2>1, <2>2, <2>6, Zenon DEF Sending
  <2>8. Fresh(t)
    BY <2>1, <2>2, Zenon DEF Fresh
  <2>9. Alive(t)
    BY <2>1 DEF Alive
  <2> QED
    BY <2>5, <2>7, <2>8, <2>9, Zenon
<1> QED
  BY <1>1, <1>5, <1>6, <1>7, <1>8, Zenon DEF Shape, EachRight

\* Every step keeps every session right.
LEMMA NextRight == ASSUME Shape, EachRight, [Next]_vars PROVE Shape' /\ EachRight'
<1>0. \A t \in Sessions : Fresh(t) /\ Receiving(t) /\ Alive(t) /\ Sending(t)
  BY Zenon DEF EachRight
<1>1. \/ \E s \in Sessions : Step(s) /\ UNCHANGED acceptVars
      \/ AcceptCompletes \/ AcceptFails \/ HandleAccept \/ HandleAcceptError
      \/ UNCHANGED sessionVars /\ UNCHANGED acceptVars
  BY Steps, Zenon
<1>2. CASE \E s \in Sessions : Step(s) /\ UNCHANGED acceptVars
  <2>1. PICK s \in Sessions : Step(s) /\ UNCHANGED acceptVars
    BY <1>2
  <2>2. started' = started
    BY <2>1 DEF acceptVars
  <2>3. Fresh(s) /\ Receiving(s) /\ Alive(s) /\ Sending(s)
    BY <1>0, Zenon
  <2>4. Shape'
    BY <2>1, <2>3, StepShape, Zenon
  <2>5. Fresh(s)' /\ Receiving(s)' /\ Alive(s)' /\ Sending(s)'
    BY <2>1, <2>2, <2>3, StepRecv, StepSend, Zenon
  <2>6. ASSUME NEW t \in Sessions, t # s
        PROVE  Fresh(t)' /\ Receiving(t)' /\ Alive(t)' /\ Sending(t)'
    <3>1. SameRecv(t) /\ SameSend(t) /\ (t \in _sessions' => t \in _sessions)
      BY <2>1, <2>6, StepOthers, Zenon
    <3>2. Fresh(t) /\ Receiving(t) /\ Alive(t) /\ Sending(t)
      BY <1>0, Zenon
    <3>3. Fresh(t)' /\ Receiving(t)' /\ Alive(t)'
      BY <2>2, <3>1, <3>2, RecvKept, Zenon
    <3> QED
      BY <3>1, <3>2, <3>3, SendKept, Zenon
  <2> QED
    BY <2>4, <2>5, <2>6, Zenon DEF EachRight
<1>3. CASE AcceptCompletes
  <2>1. Shape'
    BY <1>3, AcceptShape, Zenon
  <2> QED
    BY <1>0, <1>3, <2>1, AcceptCompletesInv, Zenon DEF EachRight
<1>4. CASE HandleAccept
  <2>1. Shape'
    BY <1>4, AcceptShape, Zenon
  <2> QED
    BY <1>0, <1>4, <2>1, HandleAcceptInv, Zenon DEF EachRight
<1>5. CASE AcceptFails \/ HandleAcceptError
  <2>1. Shape'
    BY <1>5, AcceptShape, Zenon
  <2>2. UNCHANGED sessionVars /\ started' = started
    BY <1>5 DEF AcceptFails, HandleAcceptError
  <2> QED
    BY <1>0, <2>1, <2>2, AllKept, Zenon DEF EachRight
<1>6. CASE UNCHANGED sessionVars /\ UNCHANGED acceptVars
  <2>1. UNCHANGED sessionVars /\ UNCHANGED acceptVars
    BY <1>6
  <2>2. UNCHANGED <<started, accepting, acceptState>>
    BY <2>1 DEF acceptVars
  <2>3. UNCHANGED <<_sessions, handling, _b_close, stream, script, reading, _data, _b_head_parse,
                    _recv_head_node, _recv_msg_node, parsed, _send_que, writing, written,
                    accepted, echoed>>
    BY <2>1 DEF sessionVars, recvVars, sendVars
  <2>4. Shape'
    BY <2>2, <2>3, Zenon DEF Shape, Sessioning, SocketShape, RecvShape, SendShape
  <2>5. \A t \in Sessions : Fresh(t)' /\ Receiving(t)' /\ Alive(t)' /\ Sending(t)'
    BY <1>0, <2>1, <2>2, AllKept, Zenon
  <2> QED
    BY <2>4, <2>5, Zenon DEF EachRight
<1> QED
  BY <1>1, <1>2, <1>3, <1>4, <1>5, <1>6, Zenon

\* The inductive invariant holds always.
LEMMA AlwaysRight == Spec => [](Shape /\ EachRight)
<1>1. Init => Shape /\ EachRight
  BY InitRight
<1>2. (Shape /\ EachRight) /\ [Next]_vars => (Shape /\ EachRight)'
  BY NextRight
<1> QED
  BY <1>1, <1>2, PTL DEF Spec

\* How the io_context is.
LEMMA IocType == Spec => [](ioc \in {"running", "thrown", "undefined"})
<1> DEFINE T == ioc \in {"running", "thrown", "undefined"}
<1>1. Init => T
  BY DEF Init
<1>2. T /\ [Next]_vars => T'
  <2> SUFFICES ASSUME T, [Next]_vars PROVE T'
    OBVIOUS
  <2>1. ASSUME NEW s \in Sessions, HandleReadLoop(s)
        PROVE  ioc' \in {ioc, "thrown", "undefined"}
    BY <2>1 DEF HandleReadLoop, HeadThrows, HeadOverruns, BodyOverruns
  <2>2. CASE UNCHANGED vars
    BY <2>2 DEF vars
  <2>3. CASE Next
    <3>1. UNCHANGED ioc \/ \E s \in Sessions : HandleReadLoop(s)
      BY <2>3, Zenon DEF Next, Session
    <3> QED
      BY <2>1, <3>1
  <2> QED
    BY <2>2, <2>3
<1> QED
  BY <1>1, <1>2, PTL DEF Spec

(***************************************************************************)
(* Whatever the peers send, the buffers of a session never hold more than  *)
(* MAX_LENGTH bytes, its header node never more than one between reads,    *)
(* the length of a message under way is never above MAX_LENGTH nor below   *)
(* -1, and only accepted sessions are in the map.                          *)
(***************************************************************************)
THEOREM TypeCorrect == Spec => []TypeOK
<1>1. ASSUME Shape, EachRight, ioc \in {"running", "thrown", "undefined"} PROVE TypeOK
  <2>1. ASSUME NEW s \in Sessions
        PROVE  /\ {script[s], stream[s], _data[s]} \subseteq Seq(Bytes)
               /\ Len(_data[s]) <= MAX_LENGTH
               /\ _recv_head_node[s] \in Seq(Bytes) /\ Len(_recv_head_node[s]) < HEAD_LENGTH
               /\ _recv_msg_node[s].total \in -1..MAX_LENGTH
               /\ _recv_msg_node[s].data \in Seq(Bytes)
               /\ {_send_que[s], writing[s], accepted[s], echoed[s], parsed[s]}
                    \subseteq Seq(Seq(Bytes))
    <3>1. /\ stream[s] \in Seq(Bytes) /\ _data[s] \in Seq(Bytes) /\ Len(_data[s]) <= MAX_LENGTH
          /\ _recv_msg_node[s].data \in Seq(Bytes) /\ script[s] \in Seq(Bytes)
          /\ parsed[s] \in Seq(Framable)
      BY <1>1, Typed, Zenon
    <3>2. _recv_head_node[s] \in Seq(Bytes) /\ Len(_recv_head_node[s]) < HEAD_LENGTH
      BY <1>1, Typed, Zenon DEF Heads
    <3>3. _recv_msg_node[s].total \in -1..MAX_LENGTH
      <4>1. \A n \in Lengths : n \in -1..MAX_LENGTH
        BY LengthAssumption DEF Lengths
      <4> QED
        BY <1>1, <4>1, Typed, Zenon
    <3>4. /\ _send_que[s] \in Seq(Seq(Bytes)) /\ writing[s] \in Seq(Seq(Bytes))
          /\ accepted[s] \in Seq(Seq(Bytes)) /\ echoed[s] \in Seq(Seq(Bytes))
      BY <1>1, SendTyped, Zenon
    <3>5. parsed[s] \in Seq(Seq(Bytes))
      <4>1. Framable \subseteq Seq(Bytes)
        BY Zenon DEF Framable
      <4>2. \A q \in Seq(Framable) : q \in Seq(Seq(Bytes))
        BY <4>1
      <4> QED
        BY <3>1, <4>2, Zenon
    <3> QED
      BY <3>1, <3>2, <3>3, <3>4, <3>5, Zenon
  <2>2. Sessioning /\ SocketShape /\ RecvShape /\ SendShape
    BY <1>1, Zenon DEF Shape
  <2> QED
    BY <1>1, <2>1, <2>2, Zenon DEF TypeOK, Sessioning, SocketShape, RecvShape, SendShape
<1> QED
  BY <1>1, AlwaysRight, IocType, PTL

(***************************************************************************)
(* However the peers' bytes are cut into reads, the messages handed to     *)
(* Send are those the peer sent, in their order, none longer than          *)
(* MAX_LENGTH, and no byte is lost.                                        *)
(***************************************************************************)
THEOREM ReassemblyHolds == Spec => []Reassembly
<1>1. ASSUME Shape, EachRight PROVE Reassembly
  <2>1. ASSUME NEW s \in Sessions, NEW i \in DOMAIN parsed[s]
        PROVE  Len(parsed[s][i]) <= MAX_LENGTH
    <3>1. parsed[s] \in Seq(Framable)
      BY <1>1, Typed, Zenon
    <3>2. parsed[s][i] \in Framable
      BY <3>1
    <3> QED
      BY <3>2, Zenon DEF Framable
  <2> QED
    BY <1>1, <2>1, Zenon DEF EachRight, Receiving, Whole, Reassembly
<1> QED
  BY <1>1, AlwaysRight, PTL

(***************************************************************************)
(* A peer gets back what Send accepted, each message once and in order.    *)
(***************************************************************************)
THEOREM EchoInOrderHolds == Spec => []EchoInOrder
<1>1. ASSUME Shape, EachRight PROVE EchoInOrder
  BY <1>1, Zenon DEF EachRight, Sending, EchoInOrder
<1> QED
  BY <1>1, AlwaysRight, PTL

(***************************************************************************)
(* A session writes one message at a time, and what is queued is being     *)
(* written or was left behind by a closed socket.                          *)
(***************************************************************************)
THEOREM OneWriteAtATimeHolds == Spec => []OneWriteAtATime
<1>1. ASSUME Shape, EachRight PROVE OneWriteAtATime
  BY <1>1, Zenon DEF EachRight, Sending, OneWriteAtATime
<1> QED
  BY <1>1, AlwaysRight, PTL

(***************************************************************************)
(* No session stays in the map without a read under way.                   *)
(***************************************************************************)
THEOREM NoZombieHolds == Spec => []NoZombie
<1>1. ASSUME Shape, EachRight PROVE NoZombie
  <2>1. _sessions \subseteq Sessions
    BY <1>1 DEF Shape, Sessioning
  <2> QED
    BY <1>1, <2>1, Zenon DEF EachRight, Alive, NoZombie
<1> QED
  BY <1>1, AlwaysRight, PTL
=============================================================================
