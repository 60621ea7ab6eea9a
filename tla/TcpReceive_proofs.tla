-------------------------- MODULE TcpReceive_proofs --------------------------
(***************************************************************************)
(* Proofs about TcpReceive, for any sizes, any number of frames and any    *)
(* pieces the stream comes in.                                             *)
(***************************************************************************)
EXTENDS TcpReceive, Induction

----------------------------------------------------------------------------
(* Where the frames of a stream begin: what Before computes. *)

\* g has the places of the first n frames of f.
IsSum(g, f, n) ==
    g = [j \in 0 .. n |-> IF j = 0 THEN 0 ELSE g[j - 1] + f[j] + 8]

Sum(f, i) ==
    LET sum[j \in 0 .. i] == IF j = 0 THEN 0 ELSE sum[j - 1] + f[j] + 8
    IN  sum[i]

LEMMA SumExists ==
    ASSUME NEW f, NEW n \in Nat
    PROVE  \E g : IsSum(g, f, n)
<1> DEFINE S == {k \in Nat : \E g : IsSum(g, f, k)}
<1>1. 0 \in S
  <2> DEFINE g == [j \in 0 .. 0 |-> 0]
  <2>1. IsSum(g, f, 0)
    BY DEF IsSum
  <2> QED BY <2>1
<1>2. ASSUME NEW k \in S PROVE k + 1 \in S
  <2>1. PICK g : IsSum(g, f, k)
    OBVIOUS
  <2> DEFINE h == [j \in 0 .. k + 1 |->
                     IF j = k + 1 THEN g[k] + f[k + 1] + 8 ELSE g[j]]
  <2>2. ASSUME NEW j \in 0 .. k + 1
        PROVE  h[j] = IF j = 0 THEN 0 ELSE h[j - 1] + f[j] + 8
    <3>1. CASE j = k + 1
      <4>1. h[j] = g[k] + f[k + 1] + 8 /\ h[k] = g[k] /\ j - 1 = k /\ j # 0
        BY <3>1
      <4> QED BY <3>1, <4>1
    <3>2. CASE j # k + 1
      <4>1. j \in 0 .. k /\ h[j] = g[j]
        BY <3>2
      <4>2. j # 0 => j - 1 \in 0 .. k /\ h[j - 1] = g[j - 1]
        BY <4>1
      <4>3. g[j] = IF j = 0 THEN 0 ELSE g[j - 1] + f[j] + 8
        BY <2>1, <4>1 DEF IsSum
      <4> QED BY <4>1, <4>2, <4>3
    <3> QED BY <3>1, <3>2
  <2>3. IsSum(h, f, k + 1)
    <3>1. h = [j \in 0 .. k + 1 |-> h[j]]
      OBVIOUS
    <3> HIDE DEF h
    <3> QED BY <2>2, <3>1, Zenon DEF IsSum
  <2> QED BY <2>3
<1> HIDE DEF S
<1>3. S = Nat
  BY <1>1, <1>2, SetInduction DEF S
<1> QED BY <1>3 DEF S

LEMMA SumUnique ==
    ASSUME NEW f, NEW n \in Nat, NEW m \in n .. n + 1, NEW g, NEW h, 
           IsSum(g, f, n), IsSum(h, f, m)
    PROVE  \A j \in 0 .. n : g[j] = h[j]
<1> DEFINE S == {k \in Nat : k <= n => g[k] = h[k]}
<1>1. 0 \in S
  BY DEF IsSum
<1>2. ASSUME NEW k \in S PROVE k + 1 \in S
  <2> SUFFICES ASSUME k + 1 <= n PROVE g[k + 1] = h[k + 1]
    OBVIOUS
  <2>1. k + 1 \in 0 .. n /\ k + 1 \in 0 .. m /\ (k + 1) - 1 = k /\ k + 1 # 0
    OBVIOUS
  <2>2. g[k + 1] = g[k] + f[k + 1] + 8 /\ h[k + 1] = h[k] + f[k + 1] + 8
    BY <2>1 DEF IsSum
  <2> QED BY <2>2
<1> HIDE DEF S
<1>3. S = Nat
  BY <1>1, <1>2, SetInduction DEF S
<1> QED BY <1>3 DEF S

\* The recursion of Before.
LEMMA SumIs ==
    ASSUME NEW f, NEW n \in Nat
    PROVE  /\ Sum(f, 0) = 0
           /\ Sum(f, n + 1) = Sum(f, n) + f[n + 1] + 8
<1> DEFINE g(i) == CHOOSE g : IsSum(g, f, i)
<1>1. ASSUME NEW i \in Nat PROVE Sum(f, i) = g(i)[i] /\ IsSum(g(i), f, i)
  <2>1. Sum(f, i) = g(i)[i]
    BY DEF Sum, IsSum
  <2>2. IsSum(g(i), f, i)
    BY SumExists
  <2> QED BY <2>1, <2>2
<1> HIDE DEF g
<1>2. Sum(f, 0) = 0
  BY <1>1 DEF IsSum
<1>3. g(n + 1)[n + 1] = g(n + 1)[n] + f[n + 1] + 8
  <2>1. n + 1 \in Nat /\ n + 1 \in 0 .. n + 1 /\ n + 1 # 0 /\ (n + 1) - 1 = n
    OBVIOUS
  <2> QED BY <1>1, <2>1 DEF IsSum
<1>4. g(n)[n] = g(n + 1)[n]
  <2>1. n + 1 \in Nat /\ n + 1 \in n .. n + 1 /\ n \in 0 .. n
    OBVIOUS
  <2>2. IsSum(g(n), f, n) /\ IsSum(g(n + 1), f, n + 1)
    BY <1>1, <2>1
  <2> QED BY <2>1, <2>2, SumUnique
<1> QED BY <1>1, <1>2, <1>3, <1>4

----------------------------------------------------------------------------
(* The stream. *)

LEMMA SumSame ==
    ASSUME NEW f, NEW h, NEW n \in Nat, \A j \in 1 .. n : f[j] = h[j]
    PROVE  Sum(f, n) = Sum(h, n)
<1> DEFINE S == {k \in Nat : k <= n => Sum(f, k) = Sum(h, k)}
<1>1. 0 \in S
  BY SumIs
<1>2. ASSUME NEW k \in S PROVE k + 1 \in S
  <2> SUFFICES ASSUME k + 1 <= n PROVE Sum(f, k + 1) = Sum(h, k + 1)
    OBVIOUS
  <2>1. k + 1 \in 1 .. n
    OBVIOUS
  <2> QED BY <2>1, SumIs
<1> HIDE DEF S
<1>3. S = Nat
  BY <1>1, <1>2, SetInduction DEF S
<1> QED BY <1>3 DEF S

LEMMA BeforeIs ==
    ASSUME NEW i
    PROVE  Before(i) = Sum(frames, i)
BY DEF Before, Sum

\* A frame takes its payload and eight bytes.
LEMMA NextFrame ==
    ASSUME frames \in Seq(Sizes)
    PROVE  /\ Before(0) = 0
           /\ \A i \in 1 .. Len(frames) :
                /\ Before(i) = Before(i - 1) + frames[i] + 8
                /\ frames[i] \in Sizes
<1>1. Before(0) = 0
  BY BeforeIs, SumIs
<1>2. ASSUME NEW i \in 1 .. Len(frames)
      PROVE  Before(i) = Before(i - 1) + frames[i] + 8
  <2>1. i - 1 \in Nat /\ (i - 1) + 1 = i
    OBVIOUS
  <2> QED BY <2>1, BeforeIs, SumIs
<1> QED BY <1>1, <1>2

LEMMA SizesAre ==
    ASSUME NEW s \in Sizes
    PROVE  s \in Nat /\ s + 8 \in Byte /\ ByteMax \in Nat
BY SizesAssumption, ByteAssumption DEF Byte

LEMMA BeforeType ==
    ASSUME frames \in Seq(Sizes)
    PROVE  \A i \in 0 .. Len(frames) :
             Before(i) \in Nat /\ Before(i) <= i * ByteMax
<1> DEFINE S == {k \in Nat : k <= Len(frames) =>
                   Before(k) \in Nat /\ Before(k) <= k * ByteMax}
<1>1. 0 \in S
  BY NextFrame, ByteAssumption
<1>2. ASSUME NEW k \in S PROVE k + 1 \in S
  <2> SUFFICES ASSUME k + 1 <= Len(frames)
               PROVE  /\ Before(k + 1) \in Nat
                      /\ Before(k + 1) <= (k + 1) * ByteMax
    OBVIOUS
  <2>1. k + 1 \in 1 .. Len(frames) /\ (k + 1) - 1 = k
    OBVIOUS
  <2>2. Before(k + 1) = Before(k) + frames[k + 1] + 8 /\ frames[k + 1] \in Sizes
    BY <2>1, NextFrame
  <2>3. Before(k) \in Nat /\ Before(k) <= k * ByteMax
    OBVIOUS
  <2>4. (k + 1) * ByteMax = k * ByteMax + ByteMax /\ k * ByteMax \in Nat
    BY ByteAssumption
  <2>5. frames[k + 1] \in Nat /\ frames[k + 1] + 8 <= ByteMax
    BY <2>2, SizesAre DEF Byte
  <2> DEFINE b == Before(k)  c == Before(k + 1)  p == k * ByteMax
             q == (k + 1) * ByteMax
  <2>6. c = b + frames[k + 1] + 8 /\ b \in Nat /\ b <= p /\ q = p + ByteMax
    BY <2>2, <2>3, <2>4
  <2>7. p \in Nat /\ ByteMax \in Nat
    BY <2>4, ByteAssumption
  <2> HIDE DEF b, c, p, q
  <2>8. c \in Nat /\ c <= q
    BY <2>5, <2>6, <2>7
  <2> QED BY <2>8 DEF c, q
<1> HIDE DEF S
<1>3. S = Nat
  BY <1>1, <1>2, SetInduction DEF S
<1> QED BY <1>3 DEF S

\* The places rise.
LEMMA BeforeRises ==
    ASSUME frames \in Seq(Sizes), NEW i \in 0 .. Len(frames),
           NEW j \in 0 .. Len(frames), i < j
    PROVE  Before(i) + 8 <= Before(j)
<1> DEFINE S == {k \in Nat : i + k + 1 <= Len(frames) =>
                   Before(i) + 8 <= Before(i + k + 1)}
<1>1. \A k \in 0 .. Len(frames) : Before(k) \in Nat
  BY BeforeType
<1>2. \A k \in 0 .. Len(frames) - 1 : Before(k) + 8 <= Before(k + 1)
  <2> SUFFICES ASSUME NEW k \in 0 .. Len(frames) - 1
               PROVE  Before(k) + 8 <= Before(k + 1)
    OBVIOUS
  <2>1. k + 1 \in 1 .. Len(frames) /\ (k + 1) - 1 = k /\ k \in 0 .. Len(frames)
    OBVIOUS
  <2>2. Before(k + 1) = Before(k) + frames[k + 1] + 8 /\ frames[k + 1] \in Nat
    BY <2>1, NextFrame, SizesAre
  <2> QED BY <1>1, <2>1, <2>2
<1>3. 0 \in S
  BY <1>2
<1>4. ASSUME NEW k \in S PROVE k + 1 \in S
  <2> SUFFICES ASSUME i + (k + 1) + 1 <= Len(frames)
               PROVE  Before(i) + 8 <= Before(i + (k + 1) + 1)
    OBVIOUS
  <2>1. /\ i + k + 1 \in 0 .. Len(frames) - 1 /\ i + k + 1 \in 0 .. Len(frames)
        /\ (i + k + 1) + 1 = i + (k + 1) + 1
        /\ i + (k + 1) + 1 \in 0 .. Len(frames)
    OBVIOUS
  <2>2. Before(i) + 8 <= Before(i + k + 1)
    BY <2>1
  <2> QED BY <1>1, <1>2, <2>1, <2>2
<1> HIDE DEF S
<1>5. S = Nat
  BY <1>3, <1>4, SetInduction DEF S
<1> DEFINE d == j - i - 1
<1>6. d \in Nat /\ i + d + 1 = j /\ j <= Len(frames)
  OBVIOUS
<1> HIDE DEF d
<1>7. d \in S
  BY <1>5, <1>6
<1> QED BY <1>6, <1>7 DEF S

\* One more frame at the end.
LEMMA OneMore ==
    ASSUME frames \in Seq(Sizes), NEW s \in Sizes, frames' = Append(frames, s)
    PROVE  /\ frames' \in Seq(Sizes) /\ Len(frames') = Len(frames) + 1
           /\ \A i \in 1 .. Len(frames) : frames'[i] = frames[i]
           /\ \A i \in 0 .. Len(frames) : Before(i)' = Before(i)
           /\ Before(Len(frames))' = Before(Len(frames)) + s + 8
<1>1. /\ frames' \in Seq(Sizes) /\ Len(frames') = Len(frames) + 1
      /\ \A i \in 1 .. Len(frames) : frames'[i] = frames[i]
      /\ frames'[Len(frames) + 1] = s /\ Len(frames) \in Nat
  OBVIOUS
<1>2. ASSUME NEW i \in 0 .. Len(frames) PROVE Before(i)' = Before(i)
  <2>1. Before(i)' = Sum(frames', i) /\ Before(i) = Sum(frames, i)
    BY DEF Before, Sum
  <2>2. i \in Nat /\ \A j \in 1 .. i : frames'[j] = frames[j]
    BY <1>1
  <2>3. Sum(frames', i) = Sum(frames, i)
    BY <2>2, SumSame
  <2> QED BY <2>1, <2>3
<1>3. Sum(frames', Len(frames')) = Before(Len(frames)) + s + 8
  <2> DEFINE n == Len(frames)
  <2>1. n \in Nat /\ Len(frames') = n + 1 /\ frames'[n + 1] = s
    BY <1>1
  <2>2. \A j \in 1 .. n : frames'[j] = frames[j]
    BY <1>1
  <2>3. Before(n) = Sum(frames, n)
    BY BeforeIs
  <2> HIDE DEF n
  <2>4. Sum(frames', n + 1) = Sum(frames', n) + frames'[n + 1] + 8
    BY <2>1, SumIs
  <2>5. Sum(frames', n) = Sum(frames, n)
    BY <2>1, <2>2, SumSame
  <2>6. Sum(frames', Len(frames')) = Before(n) + s + 8
    BY <2>1, <2>3, <2>4, <2>5
  <2> QED BY <2>6 DEF n
<1>4. Before(Len(frames))' = Sum(frames', Len(frames'))
  BY DEF Before, Sum
<1>5. Before(Len(frames))' = Before(Len(frames)) + s + 8
  BY <1>3, <1>4
<1> QED BY <1>1, <1>2, <1>5

\* Every place in the stream lies in one frame.
LEMMA FrameOf ==
    ASSUME frames \in Seq(Sizes), NEW p \in Nat, p < Before(Len(frames))
    PROVE  \E i \in 1 .. Len(frames) :
             /\ Before(i - 1) <= p /\ p < Before(i)
             /\ \A j \in 1 .. Len(frames) :
                  Before(j - 1) <= p /\ p < Before(j) => j = i
<1> DEFINE S == {k \in 0 .. Len(frames) : p < Before(k)}
<1>1. \A k \in 0 .. Len(frames) : Before(k) \in Nat
  BY BeforeType
<1>2. S \in SUBSET Nat /\ S # {}
  OBVIOUS
<1>3. PICK i \in S : \A k \in S : i <= k
  BY <1>2, Smallest
<1>4. i # 0
  BY <1>3, NextFrame
<1>5. i \in 1 .. Len(frames) /\ i - 1 \in 0 .. Len(frames)
  BY <1>3, <1>4
<1>6. ~ (p < Before(i - 1))
  BY <1>3, <1>5
<1>7. Before(i - 1) <= p
  BY <1>1, <1>5, <1>6
<1>8. ASSUME NEW j \in 1 .. Len(frames), Before(j - 1) <= p, p < Before(j)
      PROVE  j = i
  <2>1. j \in S
    BY <1>8
  <2>2. i <= j
    BY <1>3, <2>1
  <2>3. CASE i < j
    <3>1. i \in 0 .. Len(frames) /\ j - 1 \in 0 .. Len(frames)
      BY <1>5
    <3>2. Before(i) <= Before(j - 1)
      <4>1. CASE i = j - 1
        BY <1>1, <3>1, <4>1
      <4>2. CASE i < j - 1
        <5>1. Before(i) + 8 <= Before(j - 1)
          BY <3>1, <4>2, BeforeRises
        <5> QED BY <1>1, <3>1, <5>1
      <4> QED BY <1>5, <2>3, <4>1, <4>2
    <3> QED BY <1>1, <1>3, <1>8, <3>1, <3>2
  <2> QED BY <1>5, <2>2, <2>3
<1> QED BY <1>3, <1>5, <1>7, <1>8

\* The bytes of the stream: those of a frame's size where it begins.
LEMMA ByteIs ==
    ASSUME frames \in Seq(Sizes), NEW p \in Nat, p < Before(Len(frames))
    PROVE  /\ ByteAfter(p) \in Byte
           /\ \A i \in 1 .. Len(frames), k \in 1 .. 4 :
                p = Before(i - 1) + k - 1 =>
                  ByteAfter(p) = Low(frames[i] + 8)[k]
<1>1. PICK i \in 1 .. Len(frames) :
             /\ Before(i - 1) <= p /\ p < Before(i)
             /\ \A j \in 1 .. Len(frames) :
                  Before(j - 1) <= p /\ p < Before(j) => j = i
  BY FrameOf
<1> DEFINE k == p - Before(i - 1) + 1
<1>2. (CHOOSE j \in DOMAIN frames : Before(j - 1) <= p /\ p < Before(j)) = i
  BY <1>1
<1>3. /\ Before(i - 1) \in Nat /\ i - 1 \in 0 .. Len(frames)
      /\ i \in 0 .. Len(frames) /\ Before(i) \in Nat
  BY BeforeType
<1>4. k \in Nat /\ k >= 1
  BY <1>1, <1>3
<1>5. ByteAfter(p) = CASE k \in 1 .. 4 -> ToWire(Low(frames[i] + 8))[k]
                       [] k \in 5 .. 8 -> ToWire(Low(i % SignBit))[k - 4]
                       [] k > 8        -> 1
  BY <1>2 DEF ByteAfter
<1> HIDE DEF k
<1>6. frames[i] + 8 \in Byte /\ i % SignBit \in Byte /\ 1 \in Byte /\ 0 \in Byte
  <2>1. i % SignBit \in 0 .. SignBit - 1
    BY ByteAssumption
  <2> QED BY <1>1, <2>1, NextFrame, SizesAre, ByteAssumption DEF Byte
<1>7. /\ k \in 1 .. 4 => ByteAfter(p) = Low(frames[i] + 8)[k]
      /\ k \in 5 .. 8 => ByteAfter(p) = Low(i % SignBit)[k - 4]
      /\ k > 8 => ByteAfter(p) = 1
  <2>1. CASE k \in 1 .. 4
    BY <1>4, <1>5, <2>1 DEF ToWire
  <2>2. CASE k \in 5 .. 8
    BY <1>4, <1>5, <2>2 DEF ToWire
  <2>3. CASE k > 8
    BY <1>4, <1>5, <2>3 DEF ToWire
  <2> QED BY <1>4, <2>1, <2>2, <2>3
<1>8. \A b \in Byte, n \in 1 .. 4 : Low(b)[n] \in Byte
  BY <1>6 DEF Low
<1>9. ByteAfter(p) \in Byte
  BY <1>4, <1>6, <1>7, <1>8
<1>10. ASSUME NEW j \in 1 .. Len(frames), NEW n \in 1 .. 4,
              p = Before(j - 1) + n - 1
       PROVE  ByteAfter(p) = Low(frames[j] + 8)[n]
  <2>1. /\ j - 1 \in 0 .. Len(frames) /\ Before(j - 1) \in Nat
        /\ j \in 0 .. Len(frames) /\ Before(j) \in Nat
    BY BeforeType
  <2>2. Before(j - 1) + 8 <= Before(j)
    BY <2>1, BeforeRises
  <2>3. j = i
    BY <1>1, <1>10, <2>1, <2>2
  <2>4. k = n
    BY <1>10, <2>1, <2>3 DEF k
  <2> QED BY <1>7, <2>3, <2>4
<1> QED BY <1>9, <1>10

----------------------------------------------------------------------------
(* The inductive invariant for any sizes and any way of cutting. *)

\* The last frame has at least a byte on the stream, and all of it while the
\* sender goes on.
StreamInv ==
    /\ peer = "open" => wr = Before(Len(frames))
    /\ Len(frames) > 0 => wr > Before(Len(frames) - 1)

\* A call begins where it is called.  Its total is what it took from the stream
\* but for the recvs that failed, and so few can fail before it returns.
CallInv ==
    /\ pc = "size" => start = rd /\ total = 0
    /\ pc = "id" => total >= -1
    /\ pc = "body" => total >= -2
    /\ total <= rd - start

IInv == TypeOK /\ StreamInv /\ CallInv

LEMMA SameStream ==
    ASSUME UNCHANGED frames
    PROVE  \A i : Before(i)' = Before(i)
BY DEF Before

LEMMA Bounds ==
    /\ MaxFrames \in Nat /\ MaxTries \in Nat /\ BufSize \in Nat
    /\ BufSize > ByteMax /\ ByteMax \in Nat /\ Huge \in Nat
    /\ BufSize <= Huge /\ ByteMax <= Huge
    /\ SignBit \in Nat /\ SignBit <= ByteMax
<1>1. MaxFrames * ByteMax \in Nat
  BY SizesAssumption, ByteAssumption
<1> DEFINE p == MaxFrames * ByteMax
<1>2. p \in Nat /\ Huge = BufSize + p
  BY <1>1 DEF Huge
<1> HIDE DEF p
<1> QED BY <1>2, SizesAssumption, ByteAssumption

\* No stream is as long as Huge.
LEMMA StreamShort ==
    ASSUME TypeOK
    PROVE  wr \in Nat /\ wr <= Huge /\ Before(Len(frames)) \in Nat
<1>1. /\ Len(frames) \in 0 .. Len(frames) /\ Len(frames) <= MaxFrames
      /\ frames \in Seq(Sizes)
  BY DEF TypeOK
<1>2. /\ Before(Len(frames)) \in Nat
      /\ Before(Len(frames)) <= Len(frames) * ByteMax
  BY <1>1, BeforeType
<1>3. Len(frames) * ByteMax <= MaxFrames * ByteMax
  <2> DEFINE d == MaxFrames - Len(frames)
  <2>1. d \in Nat /\ MaxFrames = Len(frames) + d /\ Len(frames) \in Nat
    BY <1>1, Bounds
  <2> HIDE DEF d
  <2>2. MaxFrames * ByteMax = Len(frames) * ByteMax + d * ByteMax
    BY <2>1, Bounds
  <2>3. d * ByteMax \in Nat /\ Len(frames) * ByteMax \in Nat
    BY <2>1, Bounds
  <2> QED BY <2>2, <2>3
<1>4. Huge = BufSize + MaxFrames * ByteMax
  BY DEF Huge
<1> DEFINE p == MaxFrames * ByteMax  q == Len(frames) * ByteMax
<1>5. p \in Nat /\ q \in Nat
  BY <1>1, Bounds
<1>6. wr \in 0 .. Before(Len(frames))
  BY DEF TypeOK
<1>7. q <= p /\ Before(Len(frames)) <= q /\ Huge = BufSize + p
  BY <1>2, <1>3, <1>4
<1> HIDE DEF p, q
<1> QED BY <1>2, <1>5, <1>6, <1>7, Bounds

\* What recv gives is there, and no more than was asked for.
LEMMA GivenIs ==
    ASSUME TypeOK, NEW n \in Nat, NEW k \in Given(n)
    PROVE  k \in 1 .. wr - rd /\ k <= n /\ peer # "rst"
<1>1. wr \in Nat /\ rd \in 0 .. wr
  BY StreamShort DEF TypeOK
<1>2. AtMost(n, wr - rd) \in Nat
  BY <1>1 DEF AtMost
<1>3. k \in 1 .. AtMost(n, wr - rd) /\ peer # "rst"
  BY <1>2 DEF Given
<1> QED BY <1>1, <1>2, <1>3 DEF AtMost

\* A size is the low byte, or too large; a low byte of 0 leaves the buffer's.
LEMMA ValueIs ==
    ASSUME NEW s, s[4] \in Byte
    PROVE  /\ Value(FromWire(s)) \in {s[4], Huge} /\ FromWire(s)[4] = s[4]
           /\ s[4] = 0 /\ FromWire(s) # Low(0) => Value(FromWire(s)) = Huge
<1>1. Value(FromWire(s)) \in {s[4], Huge} /\ FromWire(s)[4] = s[4]
  BY DEF Value, FromWire, ShiftOr, Widen
<1>2. ASSUME s[4] = 0, FromWire(s) # Low(0)
      PROVE  Value(FromWire(s)) = Huge
  <2>1. PICK a, b, c : FromWire(s) = <<a, b, c, s[4]>>
    <3> DEFINE w == ShiftOr(ShiftOr(Widen(s[1]), s[2]), s[3])
    <3>1. FromWire(s) = ShiftOr(w, s[4])
      BY DEF FromWire
    <3> HIDE DEF w
    <3> QED BY <3>1 DEF ShiftOr
  <2> QED BY <1>2, <2>1 DEF Value, Low
<1> QED BY <1>1, <1>2

LEMMA OutGrows ==
    ASSUME TypeOK, NEW w \in Nat, wr <= w, NEW a \in 0 .. w, NEW n \in 1 .. w
    PROVE  /\ out \in Seq([from : 0 .. w, len : 1 .. w])
           /\ Append(out, [from |-> a, len |-> n])
                \in Seq([from : 0 .. w, len : 1 .. w])
<1>1. wr \in Nat /\ out \in Seq([from : 0 .. wr, len : 1 .. wr])
  BY StreamShort DEF TypeOK
<1>2. [from : 0 .. wr, len : 1 .. wr] \subseteq [from : 0 .. w, len : 1 .. w]
  BY <1>1
<1>3. out \in Seq([from : 0 .. w, len : 1 .. w])
  BY <1>1, <1>2, SeqOfMore, Zenon
<1>4. [from |-> a, len |-> n] \in [from : 0 .. w, len : 1 .. w]
  OBVIOUS
<1> QED BY <1>3, <1>4

LEMMA Initially == Init => IInv
<1> SUFFICES ASSUME Init PROVE IInv
  OBVIOUS
<1>1. frames \in Seq(Sizes) /\ Len(frames) = 0 /\ Before(Len(frames)) = 0
  BY NextFrame DEF Init
<1>2. out \in Seq([from : 0 .. wr, len : 1 .. wr]) /\ max \in 0 .. Huge
  BY Bounds DEF Init
<1>3. wr \in 0 .. Before(Len(frames)) /\ rd \in 0 .. wr /\ start \in 0 .. rd
  BY <1>1 DEF Init
<1>4. /\ tries \in 0 .. MaxTries /\ ret \in -3 .. Huge /\ total \in -3 .. Huge
      /\ Len(frames) <= MaxFrames
  BY <1>1, Bounds DEF Init
<1>5. TypeOK
  BY <1>1, <1>2, <1>3, <1>4 DEF Init, TypeOK
<1> QED BY <1>1, <1>5 DEF Init, StreamInv, CallInv, IInv

LEMMA SendKeeps == IInv /\ Send => IInv'
<1> SUFFICES ASSUME IInv, Send PROVE IInv'
  OBVIOUS
<1>1. PICK s \in Sizes : frames' = Append(frames, s) /\ wr' = wr + s + 8
  BY DEF Send
<1>2. /\ peer = "open" /\ Len(frames) < MaxFrames
      /\ UNCHANGED <<peer, rd, pc, start, total, max, tries, ret, out, lost>>
  BY DEF Send, local
<1>3. frames \in Seq(Sizes) /\ TypeOK /\ s \in Nat
  BY SizesAre DEF IInv, TypeOK
<1>4. /\ frames' \in Seq(Sizes) /\ Len(frames') = Len(frames) + 1
      /\ Before(Len(frames))' = Before(Len(frames)) + s + 8
      /\ \A i \in 0 .. Len(frames) : Before(i)' = Before(i)
  BY <1>1, <1>3, OneMore
<1>5. wr = Before(Len(frames)) /\ wr \in Nat
  BY <1>2, <1>3, StreamShort DEF IInv, StreamInv
<1>6. wr' = Before(Len(frames))' /\ wr' \in Nat /\ wr <= wr'
  BY <1>1, <1>3, <1>4, <1>5
<1>7. out' \in Seq([from : 0 .. wr', len : 1 .. wr'])
  <2>1. wr' \in 1 .. wr'
    BY <1>1, <1>3, <1>5
  <2> QED BY <1>2, <1>3, <1>6, <2>1, OutGrows
<1>8. TypeOK'
  BY <1>2, <1>3, <1>4, <1>5, <1>6, <1>7, Bounds DEF TypeOK
<1>9. StreamInv'
  <2>1. /\ Len(frames') - 1 = Len(frames) /\ Len(frames) \in 0 .. Len(frames)
    BY <1>3, <1>4
  <2>2. Before(Len(frames) - 1)' = Before(Len(frames))
    BY <1>4, <2>1
  <2>3. wr' > Before(Len(frames))
    BY <1>1, <1>3, <1>5
  <2> QED BY <1>6, <2>2, <2>3 DEF StreamInv
<1>10. CallInv'
  BY <1>2 DEF IInv, CallInv
<1> QED BY <1>8, <1>9, <1>10 DEF IInv

LEMMA CloseKeeps == IInv /\ Close => IInv'
<1> SUFFICES ASSUME IInv, Close PROVE IInv'
  OBVIOUS
<1>1. /\ peer = "open" /\ peer' = "fin"
      /\ UNCHANGED <<rd, pc, start, total, max, tries, ret, out, lost>>
  BY DEF Close, local
<1>2. frames \in Seq(Sizes) /\ TypeOK /\ wr \in Nat
  BY StreamShort DEF IInv, TypeOK
<1>3. CASE UNCHANGED <<frames, wr>>
  <2>1. \A i : Before(i)' = Before(i)
    BY <1>3, SameStream
  <2>2. Before(Len(frames))' = Before(Len(frames))
        /\ Before(Len(frames) - 1)' = Before(Len(frames) - 1)
    BY <1>3, <2>1
  <2> QED BY <1>1, <1>2, <1>3, <2>2
          DEF IInv, TypeOK, StreamInv, CallInv
<1>4. ASSUME Len(frames) < MaxFrames, NEW s \in Sizes, NEW k \in 1 .. s + 7,
             frames' = Append(frames, s), wr' = wr + k
      PROVE  IInv'
  <2>1. s \in Nat
    BY SizesAre
  <2>2. /\ frames' \in Seq(Sizes) /\ Len(frames') = Len(frames) + 1
        /\ Before(Len(frames))' = Before(Len(frames)) + s + 8
        /\ \A i \in 0 .. Len(frames) : Before(i)' = Before(i)
    BY <1>2, <1>4, OneMore
  <2>3. wr = Before(Len(frames))
    BY <1>1 DEF IInv, StreamInv
  <2>4. wr' \in 0 .. Before(Len(frames))' /\ wr' \in Nat /\ wr < wr'
    BY <1>2, <1>4, <2>1, <2>2, <2>3
  <2>5. out' \in Seq([from : 0 .. wr', len : 1 .. wr'])
    <3>1. wr' \in 1 .. wr' /\ wr <= wr'
      BY <1>2, <2>4
    <3> QED BY <1>1, <1>2, <2>4, <3>1, OutGrows
  <2>6. TypeOK'
    <3>1. Len(frames') <= MaxFrames /\ rd' \in 0 .. wr'
      BY <1>1, <1>2, <1>4, <2>2, <2>4, Bounds DEF TypeOK
    <3> QED BY <1>1, <1>2, <2>2, <2>4, <2>5, <3>1 DEF TypeOK
  <2>7. StreamInv'
    <3>1. Len(frames') - 1 = Len(frames) /\ Len(frames) \in 0 .. Len(frames)
      BY <1>2, <2>2
    <3>2. Before(Len(frames) - 1)' = Before(Len(frames))
      BY <2>2, <3>1
    <3> QED BY <1>1, <2>3, <2>4, <3>2 DEF StreamInv
  <2>8. CallInv'
    BY <1>1 DEF IInv, CallInv
  <2> QED BY <2>6, <2>7, <2>8 DEF IInv
<1> QED BY <1>3, <1>4 DEF Close

LEMMA ResetKeeps == IInv /\ Reset => IInv'
<1> SUFFICES ASSUME IInv, Reset PROVE IInv'
  OBVIOUS
<1>1. Before(Len(frames))' = Before(Len(frames))
      /\ Before(Len(frames) - 1)' = Before(Len(frames) - 1)
  BY SameStream DEF Reset
<1> QED BY <1>1 DEF Reset, local, IInv, TypeOK, StreamInv, CallInv

\* Receive leaves the stream alone: what it moves is the place in it.
LEMMA ReceiveKeeps ==
    ASSUME IInv, UNCHANGED stream, rd' \in rd .. wr,
           pc' \in {"idle", "size", "id", "body", "ended"}, start' \in 0 .. rd',
           total' \in -3 .. Huge, max' \in 0 .. Huge, tries' \in 0 .. MaxTries,
           ret' \in -3 .. Huge,
           \/ UNCHANGED out
           \/ \E n \in 1 .. wr : out' = Append(out, [from |-> start, len |-> n]),
           lost' \in BOOLEAN, CallInv'
    PROVE  IInv'
<1>1. Before(Len(frames))' = Before(Len(frames))
      /\ Before(Len(frames) - 1)' = Before(Len(frames) - 1)
  BY SameStream DEF stream
<1>2. wr \in Nat /\ start \in 0 .. wr /\ rd \in 0 .. wr /\ TypeOK
  BY StreamShort DEF IInv, TypeOK
<1>3. out' \in Seq([from : 0 .. wr', len : 1 .. wr'])
  <2>1. out \in Seq([from : 0 .. wr', len : 1 .. wr']) /\ wr' = wr
    BY <1>2 DEF stream, TypeOK
  <2>2. ASSUME NEW n \in 1 .. wr
        PROVE  Append(out, [from |-> start, len |-> n])
                 \in Seq([from : 0 .. wr, len : 1 .. wr])
    <3>1. wr <= wr
      BY <1>2
    <3> QED BY <1>2, <3>1, OutGrows
  <2> QED BY <2>1, <2>2
<1>4. StreamInv'
  BY <1>1 DEF stream, IInv, StreamInv
<1>5. TypeOK'
  BY <1>1, <1>2, <1>3 DEF stream, TypeOK
<1> QED BY <1>4, <1>5 DEF IInv

LEMMA CallKeeps == IInv /\ Call => IInv'
<1> SUFFICES ASSUME IInv, Call PROVE IInv'
  OBVIOUS
<1>1. wr \in Nat /\ rd \in 0 .. wr
  BY StreamShort DEF IInv, TypeOK
<1>2. CallInv'
  BY <1>1 DEF Call, CallInv
<1>3. /\ total' \in -3 .. Huge /\ max' \in 0 .. Huge /\ tries' \in 0 .. MaxTries
      /\ rd' \in rd .. wr /\ start' \in 0 .. rd'
  BY <1>1, Bounds DEF Call
<1> QED BY <1>2, <1>3, ReceiveKeeps DEF Call, IInv, TypeOK

LEMMA InBounds ==
    ASSUME NEW a \in Nat, NEW r \in Nat, NEW w \in Nat, NEW t \in Int,
           a <= r, r <= w, t <= r - a
    PROVE  t <= w /\ (t > 0 => r - a \in 1 .. w)
OBVIOUS

\* A call that returns gives no more than it took.
LEMMA ReturnKeeps ==
    ASSUME IInv, UNCHANGED stream, rd' \in rd .. wr, NEW t \in Int, t >= -3,
           t <= rd' - start, Return(t), tries' \in 0 .. MaxTries,
           lost' \in BOOLEAN
    PROVE  IInv'
<1>1. wr \in Nat /\ rd \in 0 .. wr /\ start \in 0 .. rd /\ wr <= Huge
  BY StreamShort DEF IInv, TypeOK
<1>2. /\ start' = start /\ max' = max /\ pc' = "idle" /\ total' = t /\ ret' = t
      /\ out' = IF t > 0
                THEN Append(out, [from |-> start, len |-> rd' - start])
                ELSE out
  BY DEF Return
<1>0. rd' \in Nat /\ rd <= rd' /\ rd' <= wr /\ rd \in Nat /\ start \in Nat
      /\ start <= rd /\ Huge \in Nat
  BY <1>1, Bounds
<1>3. t \in -3 .. Huge /\ start' \in 0 .. rd'
  <2>1. start <= rd'
    BY <1>0
  <2>2. t <= wr
    BY <1>0, <1>1, <2>1, InBounds
  <2>3. t <= Huge
    BY <1>0, <1>1, <2>2
  <2> QED BY <1>0, <1>2, <2>1, <2>3
<1>4. t > 0 => rd' - start \in 1 .. wr
  <2>1. start <= rd'
    BY <1>0
  <2> QED BY <1>0, <1>1, <2>1, InBounds
<1>5. CallInv'
  BY <1>2 DEF CallInv
<1>6. max' \in 0 .. Huge
  BY <1>2 DEF IInv, TypeOK
<1> QED BY <1>2, <1>3, <1>4, <1>5, <1>6, ReceiveKeeps

LEMMA LoopKeeps ==
    ASSUME IInv, pc = "body", UNCHANGED stream, rd' \in rd .. wr,
           NEW t \in Int, t >= -3, t <= rd' - start, Loop(t),
           tries' \in 0 .. MaxTries, lost' \in BOOLEAN
    PROVE  IInv'
<1>1. CASE Return(t)
  BY <1>1, ReturnKeeps
<1>2. CASE t \in 0 .. max - 1 /\ total' = t /\ UNCHANGED <<pc, start, max, ret, out>>
  <2>1. wr \in Nat /\ rd \in 0 .. wr /\ start \in 0 .. rd /\ max \in 0 .. Huge
    BY StreamShort DEF IInv, TypeOK
  <2>2. total' \in -3 .. Huge /\ start' \in 0 .. rd'
    BY <1>2, <2>1, Bounds
  <2>3. CallInv'
    BY <1>2 DEF CallInv
  <2> QED BY <1>2, <2>1, <2>2, <2>3, ReceiveKeeps DEF IInv, TypeOK
<1> QED BY <1>1, <1>2 DEF Loop

\* The four chars that the first recv of a call put into the buffer.
Field(n) == [k \in 1 .. 4 |-> IF k <= n THEN ByteAfter(rd + k - 1) ELSE 0]

LEMMA FieldIs ==
    ASSUME IInv, NEW n \in Given(4)
    PROVE  /\ \A k \in 1 .. 4 : Field(n)[k] \in Byte
           /\ Value(FromWire(Field(n))) \in 0 .. Huge
           /\ n < 4 /\ FromWire(Field(n)) # Low(0) =>
                Value(FromWire(Field(n))) = Huge
<1>1. /\ TypeOK /\ wr \in Nat /\ rd \in 0 .. wr /\ frames \in Seq(Sizes)
      /\ wr \in 0 .. Before(Len(frames)) /\ Before(Len(frames)) \in Nat
  BY StreamShort DEF IInv, TypeOK
<1>2. n \in 1 .. wr - rd
  BY <1>1, GivenIs
<1>3. ASSUME NEW k \in 1 .. 4 PROVE Field(n)[k] \in Byte
  <2>1. CASE k <= n
    <3>1. rd + k - 1 \in Nat /\ rd + k - 1 < Before(Len(frames))
      BY <1>1, <1>2, <2>1
    <3>2. ByteAfter(rd + k - 1) \in Byte
      BY <1>1, <3>1, ByteIs
    <3> QED BY <2>1, <3>2 DEF Field
  <2>2. CASE ~ (k <= n)
    BY <2>2, Bounds DEF Field, Byte
  <2> QED BY <2>1, <2>2
<1>4. Value(FromWire(Field(n))) \in {Field(n)[4], Huge}
  BY <1>3, ValueIs
<1>5. n < 4 => Field(n)[4] = 0
  BY <1>2 DEF Field
<1> QED BY <1>3, <1>4, <1>5, ValueIs, Bounds DEF Byte

\* A recv of the header that fails, or that gives n bytes.
LEMMA HeaderKeeps ==
    ASSUME IInv, UNCHANGED <<stream, tries, start, ret, out>>, rd' \in rd .. wr,
           pc \in {"size", "id"}, pc' \in {"id", "body", "ended"},
           pc' = "id" => pc = "size", total' \in Int, max' \in 0 .. Huge,
           total' <= rd' - start, total' >= total - 1, lost' \in BOOLEAN
    PROVE  IInv'
<1>1. wr \in Nat /\ rd \in 0 .. wr /\ start \in 0 .. rd /\ total \in Int
      /\ wr <= Huge
  BY StreamShort DEF IInv, TypeOK
<1>2. total >= -1 /\ (pc = "size" => total = 0)
  BY <1>1 DEF IInv, CallInv
<1>3. rd' \in Nat /\ rd <= rd' /\ rd' <= wr /\ rd \in Nat /\ start \in Nat
      /\ start <= rd /\ Huge \in Nat /\ start' = start
  BY <1>1, Bounds
<1>4. total' \in -3 .. Huge /\ start' \in 0 .. rd'
  <2>1. start <= rd' /\ total' >= -3
    BY <1>1, <1>2, <1>3
  <2>2. total' <= wr
    <3>1. total' \in Int /\ total' <= rd' - start /\ wr \in Nat
      BY <1>1
    <3> QED BY <1>3, <2>1, <3>1, InBounds
  <2>3. total' <= Huge
    BY <1>1, <1>3, <2>2
  <2> QED BY <1>3, <2>1, <2>3
<1>5. CallInv'
  <2>1. pc' # "size" /\ (pc' = "id" => total' >= -1) /\ total' >= -2
    BY <1>1, <1>2
  <2> QED BY <1>3, <2>1 DEF CallInv
<1> QED BY <1>4, <1>5, ReceiveKeeps DEF IInv, TypeOK

LEMMA RecvSizeKeeps == IInv /\ RecvSize => IInv'
<1> SUFFICES ASSUME IInv, RecvSize PROVE IInv'
  OBVIOUS
<1>1. /\ wr \in Nat /\ rd \in 0 .. wr /\ start = rd /\ total = 0
      /\ UNCHANGED <<stream, tries>> /\ pc = "size" /\ max \in 0 .. Huge
      /\ tries' \in 0 .. MaxTries /\ lost \in BOOLEAN
  BY StreamShort DEF IInv, TypeOK, CallInv, RecvSize
<1>2. CASE AtEnd /\ Return(0) /\ UNCHANGED <<rd, lost>>
  BY <1>1, <1>2, ReturnKeeps
<1>3. ASSUME NEW n \in Given(4), rd' = rd + n, total' = n,
             max' = IF FromWire(Field(n)) = Low(0) THEN BufSize
                    ELSE Value(FromWire(Field(n))),
             lost' = (lost \/ (n < 4 /\ ~AtEnd')), pc' = "id",
             UNCHANGED <<start, ret, out>>
      PROVE  IInv'
  <2>1. n \in 1 .. wr - rd
    BY GivenIs DEF IInv
  <2>2. max' \in 0 .. Huge
    BY <1>3, FieldIs, Bounds
  <2>3. /\ rd' \in rd .. wr /\ total' \in Int /\ total' <= rd' - start
        /\ total' >= total - 1 /\ lost' \in BOOLEAN
    BY <1>1, <1>3, <2>1
  <2> QED BY <1>1, <1>3, <2>2, <2>3, HeaderKeeps
<1>4. CASE /\ total' = -1 /\ lost' = (lost \/ peer # "rst") /\ pc' = "id"
           /\ UNCHANGED <<rd, start, max, ret, out>>
  <2>1. /\ rd' \in rd .. wr /\ total' \in Int /\ total' <= rd' - start
        /\ total' >= total - 1 /\ lost' \in BOOLEAN /\ max' \in 0 .. Huge
    BY <1>1, <1>4
  <2> QED BY <1>1, <1>4, <2>1, HeaderKeeps
<1> QED BY <1>2, <1>3, <1>4 DEF RecvSize, Field

LEMMA RecvIdKeeps == IInv /\ RecvId => IInv'
<1> SUFFICES ASSUME IInv, RecvId PROVE IInv'
  OBVIOUS
<1>1. /\ wr \in Nat /\ rd \in 0 .. wr /\ start \in 0 .. rd /\ total \in Int
      /\ total <= rd - start
      /\ UNCHANGED <<stream, tries>> /\ pc = "id" /\ max \in 0 .. Huge
      /\ tries' \in 0 .. MaxTries /\ lost \in BOOLEAN
  BY StreamShort DEF IInv, TypeOK, CallInv, RecvId
<1>2. CASE AtEnd /\ Return(0) /\ UNCHANGED <<rd, lost>>
  BY <1>1, <1>2, ReturnKeeps
<1>3. ASSUME NEW n \in Given(4), rd' = rd + n, total' = total + n,
             pc' \in {"body", "ended"},
             UNCHANGED <<start, max, ret, out, lost>>
      PROVE  IInv'
  <2>1. n \in 1 .. wr - rd
    BY GivenIs DEF IInv
  <2>2. /\ rd' \in rd .. wr /\ total' \in Int /\ total' <= rd' - start
        /\ total' >= total - 1 /\ lost' \in BOOLEAN /\ max' \in 0 .. Huge
    BY <1>1, <1>3, <2>1
  <2> QED BY <1>1, <1>3, <2>2, HeaderKeeps
<1>4. CASE /\ total' = total - 1 /\ lost' = (lost \/ peer # "rst")
           /\ pc' = "body" /\ UNCHANGED <<rd, start, max, ret, out>>
  <2>1. /\ rd' \in rd .. wr /\ total' \in Int /\ total' <= rd' - start
        /\ total' >= total - 1 /\ lost' \in BOOLEAN /\ max' \in 0 .. Huge
    BY <1>1, <1>4
  <2> QED BY <1>1, <1>4, <2>1, HeaderKeeps
<1> QED BY <1>2, <1>3, <1>4 DEF RecvId

LEMMA WantIs == IInv => Want \in Nat
BY StreamShort, Bounds DEF IInv, TypeOK, Want

LEMMA BodyKeeps == IInv /\ (RecvBody \/ RecvNoBufs \/ RecvFail) => IInv'
<1> SUFFICES ASSUME IInv, RecvBody \/ RecvNoBufs \/ RecvFail PROVE IInv'
  OBVIOUS
<1>1. /\ wr \in Nat /\ rd \in 0 .. wr /\ start \in 0 .. rd /\ total \in Int
      /\ total <= rd - start /\ total >= -2 /\ pc = "body" /\ UNCHANGED stream
      /\ tries \in 0 .. MaxTries /\ lost \in BOOLEAN
  BY StreamShort DEF IInv, TypeOK, CallInv, RecvBody, RecvNoBufs, RecvFail
<1>2. CASE RecvBody
  <2>1. CASE rd' = rd /\ Return(total)
    BY <1>1, <1>2, <2>1, ReturnKeeps DEF RecvBody
  <2>2. ASSUME NEW n \in Given(Want), rd' = rd + n, Loop(total + n)
        PROVE  IInv'
    <3>1. n \in 1 .. wr - rd
      BY WantIs, GivenIs DEF IInv
    <3>2. /\ rd' \in rd .. wr /\ total + n \in Int /\ total + n <= rd' - start
          /\ total + n >= -3
      BY <1>1, <2>2, <3>1
    <3> QED BY <1>1, <1>2, <2>2, <3>2, LoopKeeps DEF RecvBody
  <2> QED BY <1>2, <2>1, <2>2 DEF RecvBody
<1>3. CASE RecvNoBufs
  <2>1. tries < MaxTries => tries + 1 \in 0 .. MaxTries
    BY <1>1, Bounds
  <2>2. rd' = rd /\ rd' \in rd .. wr
    BY <1>1, <1>3 DEF RecvNoBufs
  <2>3. CASE tries < MaxTries
    <3>1. tries' \in 0 .. MaxTries /\ Loop(total) /\ lost' \in BOOLEAN
      BY <1>1, <1>3, <2>1, <2>3 DEF RecvNoBufs
    <3>2. total >= -3 /\ total <= rd' - start
      BY <1>1, <2>2
    <3> QED BY <1>1, <2>2, <3>1, <3>2, LoopKeeps
  <2>4. CASE ~ (tries < MaxTries)
    <3>1. tries' \in 0 .. MaxTries /\ Return(total) /\ lost' \in BOOLEAN
      BY <1>1, <1>3, <2>4 DEF RecvNoBufs
    <3>2. total >= -3 /\ total <= rd' - start
      BY <1>1, <2>2
    <3> QED BY <1>1, <2>2, <3>1, <3>2, ReturnKeeps
  <2> QED BY <2>3, <2>4
<1>4. CASE RecvFail
  <2>1. total - 1 \in Int /\ total - 1 >= -3 /\ total - 1 <= rd' - start
        /\ rd' \in rd .. wr
    BY <1>1, <1>4 DEF RecvFail
  <2> QED BY <1>1, <1>4, <2>1, LoopKeeps DEF RecvFail
<1> QED BY <1>2, <1>3, <1>4

LEMMA Inductive == IInv /\ [Next]_vars => IInv'
<1> SUFFICES ASSUME IInv, [Next]_vars PROVE IInv'
  OBVIOUS
<1>1. CASE UNCHANGED vars
  <2>1. Before(Len(frames))' = Before(Len(frames))
        /\ Before(Len(frames) - 1)' = Before(Len(frames) - 1)
    BY <1>1, SameStream DEF vars, stream
  <2> QED BY <1>1, <2>1
          DEF vars, stream, local, IInv, TypeOK, StreamInv, CallInv
<1>2. CASE Send
  BY <1>2, SendKeeps
<1>3. CASE Close
  BY <1>3, CloseKeeps
<1>4. CASE Reset
  BY <1>4, ResetKeeps
<1>5. CASE Receive
  BY <1>5, CallKeeps, RecvSizeKeeps, RecvIdKeeps, BodyKeeps DEF Receive
<1> QED BY <1>1, <1>2, <1>3, <1>4, <1>5 DEF Next

THEOREM Invariance == Spec => []IInv
BY Initially, Inductive, PTL DEF Spec

\* For any sizes of frames and bytes, whichever recvs fail or give only a part: no
\* number leaves its range, and Receive never reads past what was
\* written.
THEOREM TypeCorrect == Spec => []TypeOK
<1>1. IInv => TypeOK
  BY DEF IInv
<1> QED BY Invariance, <1>1, PTL

----------------------------------------------------------------------------
(* Sizes that arrive: what was sent is what is returned, until the end of  *)
(* a frame is lost.                                                        *)

\* The sizes that are not negative as a char.
SizesArrive == \A s \in Sizes : s + 8 < SignBit

\* The frame that a call of Receive is to return.
SizeIs == /\ start = Before(Len(out)) /\ Len(out) < Len(frames)
          /\ max = frames[Len(out) + 1] + 8

\* Between calls the stream is read up to the end of a frame, or a close ended it
\* sooner; within a call the size is that of the frame it began with.  Once the
\* connection is broken a call only counts down.
PlaceInv ==
    /\ peer # "rst" =>
         /\ pc \in {"idle", "size"} => AtEnd \/ rd = Before(Len(out))
         /\ pc = "id" =>
              \/ SizeIs /\ rd = start + 4 /\ total = 4
              \/ /\ AtEnd /\ Len(out) < Len(frames) /\ max >= 8
                 /\ start = Before(Len(out)) /\ wr < start + 4
         /\ pc = "body" =>
              /\ SizeIs /\ total = rd - start
              /\ start + 4 < rd /\ rd <= start + max
    /\ peer = "rst" /\ pc \in {"id", "body"} => total <= max
    /\ pc # "ended"

\* A frame that lacks its end is the last that was sent.
OutInv ==
    /\ ret = 0 => Ended
    /\ Len(out) <= Len(frames)
    /\ \A i \in 1 .. Len(out) :
         \/ out[i] = Whole(i)
         \/ /\ i = Len(out) /\ i = Len(frames) /\ Ended
            /\ out[i] = [from |-> Before(i - 1), len |-> wr - Before(i - 1)]

ExactInv == IInv /\ (~lost => PlaceInv /\ OutInv)

LEMMA InRange ==
    ASSUME IInv
    PROVE  /\ wr \in Nat /\ rd \in 0 .. wr /\ start \in 0 .. rd
           /\ frames \in Seq(Sizes) /\ Len(frames) \in Nat /\ Len(out) \in Nat
           /\ max \in 0 .. Huge /\ wr \in 0 .. Before(Len(frames))
           /\ \A i \in 0 .. Len(frames) : Before(i) \in Nat
           /\ \A i \in 1 .. Len(frames) :
                /\ Before(i) = Before(i - 1) + frames[i] + 8
                /\ frames[i] \in Sizes /\ frames[i] \in Nat
           /\ TypeOK
<1>1. TypeOK /\ frames \in Seq(Sizes)
  BY DEF IInv, TypeOK
<1>2. \A i \in 0 .. Len(frames) : Before(i) \in Nat
  BY <1>1, BeforeType
<1>3. \A i \in 1 .. Len(frames) :
        /\ Before(i) = Before(i - 1) + frames[i] + 8
        /\ frames[i] \in Sizes /\ frames[i] \in Nat
  BY <1>1, NextFrame, SizesAre
<1>4. Len(out) \in Nat /\ Len(frames) \in Nat
  BY <1>1 DEF TypeOK
<1> QED BY <1>1, <1>2, <1>3, <1>4, StreamShort DEF TypeOK

LEMMA ExactInitially == Init => ExactInv
<1> SUFFICES ASSUME Init PROVE ExactInv
  OBVIOUS
<1>1. frames \in Seq(Sizes) /\ Len(frames) = 0 /\ Before(0) = 0 /\ Len(out) = 0
  BY NextFrame DEF Init
<1>2. PlaceInv /\ OutInv
  BY <1>1 DEF Init, PlaceInv, OutInv
<1> QED BY <1>2, Initially DEF ExactInv

\* The sender moves nothing of what was returned, nor of the frame being read.
LEMMA SenderKeepsOut ==
    ASSUME IInv, PlaceInv, OutInv, IInv', peer = "open", peer' # "rst",
           UNCHANGED <<local, ret, out>>,
           \/ UNCHANGED <<frames, wr>>
           \/ \E s \in Sizes : frames' = Append(frames, s)
    PROVE  PlaceInv' /\ OutInv'
<1>1. /\ Len(frames') \in Nat /\ Len(frames) <= Len(frames')
      /\ \A i \in 1 .. Len(frames) : frames'[i] = frames[i]
      /\ \A i \in 0 .. Len(frames) : Before(i)' = Before(i)
  <2>1. CASE UNCHANGED <<frames, wr>>
    BY <2>1, SameStream, InRange
  <2>2. ASSUME NEW s \in Sizes, frames' = Append(frames, s)
        PROVE  /\ Len(frames') \in Nat /\ Len(frames) <= Len(frames')
               /\ \A i \in 1 .. Len(frames) : frames'[i] = frames[i]
               /\ \A i \in 0 .. Len(frames) : Before(i)' = Before(i)
    BY <2>2, OneMore, InRange
  <2> QED BY <2>1, <2>2
<1>2. Len(out) \in Nat /\ Len(out) <= Len(frames)
  BY InRange DEF OutInv
<1>3. Before(Len(out))' = Before(Len(out))
  <2>1. Len(out) \in 0 .. Len(frames) /\ Len(out)' = Len(out)
    BY <1>2, InRange
  <2> QED BY <1>1, <2>1
<1>4. Len(out) < Len(frames) =>
        Len(out) < Len(frames') /\ frames'[Len(out) + 1] = frames[Len(out) + 1]
  BY <1>1, <1>2, InRange
<1>5. ~ AtEnd /\ ~ Ended /\ peer # "rst"
  BY DEF AtEnd, Ended
<1>6. SizeIs => SizeIs'
  BY <1>3, <1>4 DEF SizeIs, local
<1>7. PlaceInv'
  BY <1>3, <1>5, <1>6 DEF PlaceInv, local
<1>8. OutInv'
  <2>1. Len(out') <= Len(frames') /\ ret' # 0
    BY <1>1, <1>2, <1>5, InRange DEF OutInv
  <2>2. ASSUME NEW i \in 1 .. Len(out) PROVE out'[i] = Whole(i)'
    <3>1. i \in 1 .. Len(frames) /\ i \in 0 .. Len(frames) /\ i - 1 \in 0 .. Len(frames)
      BY <1>2, InRange
    <3>2. out[i] = Whole(i)
      BY <1>5 DEF OutInv
    <3> QED BY <1>1, <3>1, <3>2 DEF Whole
  <2> QED BY <2>1, <2>2 DEF OutInv
<1> QED BY <1>7, <1>8

\* A step of Receive that leaves the stream alone leaves every place alone.
LEMMA SamePlaces ==
    ASSUME UNCHANGED stream
    PROVE  /\ \A i : Before(i)' = Before(i)
           /\ \A i : Whole(i)' = Whole(i)
           /\ frames' = frames /\ wr' = wr /\ peer' = peer
BY SameStream DEF stream, Whole

\* What a call returned stays as it is; only a frame that lacks its end depends on
\* where the stream is read up to, and it is read to its end.
LEMMA SameOut ==
    ASSUME IInv, OutInv, UNCHANGED <<stream, out>>, rd' = rd \/ ~ Ended,
           ret' = ret \/ (ret' = 0 => Ended')
    PROVE  OutInv'
BY SamePlaces DEF OutInv, Ended

LEMMA ResetExact ==
    IInv /\ PlaceInv /\ OutInv /\ Reset => PlaceInv' /\ OutInv'
<1> SUFFICES ASSUME IInv, PlaceInv, OutInv, Reset PROVE PlaceInv' /\ OutInv'
  OBVIOUS
<1>1. /\ UNCHANGED <<frames, wr, ret, out>> /\ UNCHANGED local
      /\ peer # "rst" /\ peer' = "rst"
  BY DEF Reset
<1>2. \A i : Before(i)' = Before(i) /\ Whole(i)' = Whole(i)
  BY <1>1, SameStream DEF Whole
<1>3. ASSUME SizeIs PROVE max \in Nat /\ max >= 8
  <2>1. Len(out) + 1 \in 1 .. Len(frames)
    BY <1>3, InRange DEF SizeIs
  <2> QED BY <1>3, <2>1, InRange DEF SizeIs
<1>4. pc \in {"id", "body"} => total <= max
  <2>1. CASE pc = "id"
    <3>1. CASE SizeIs /\ total = 4
      BY <1>3, <3>1
    <3>2. CASE AtEnd /\ wr < start + 4 /\ max >= 8
      <4>1. total \in Int /\ total <= rd - start /\ rd = wr /\ max \in Nat
        BY <3>2, InRange, Bounds DEF IInv, TypeOK, CallInv, AtEnd
      <4> QED BY <3>2, <4>1, InRange
    <3> QED BY <1>1, <2>1, <3>1, <3>2 DEF PlaceInv
  <2>2. CASE pc = "body"
    BY <1>1, <1>3, <2>2, InRange DEF PlaceInv
  <2> QED BY <2>1, <2>2
<1>5. PlaceInv'
  BY <1>1, <1>4 DEF PlaceInv, local
<1>6. Ended => Ended'
  BY <1>1 DEF Ended, local
<1>7. OutInv'
  BY <1>1, <1>2, <1>6 DEF OutInv
<1> QED BY <1>5, <1>7

\* The four bytes a header begins with, if they come in one piece.
LEMMA FieldArrives ==
    ASSUME SizesArrive, IInv, NEW i \in 1 .. Len(frames), rd = Before(i - 1),
           4 \in Given(4)
    PROVE  FromWire(Field(4)) = Low(frames[i] + 8)
<1>1. 4 <= wr - rd
  BY InRange, GivenIs
<1>2. ASSUME NEW k \in 1 .. 4
      PROVE  Field(4)[k] = Low(frames[i] + 8)[k]
  <2>1. /\ rd + k - 1 \in Nat /\ rd + k - 1 < Before(Len(frames))
        /\ rd + k - 1 = Before(i - 1) + k - 1
    <3>1. Len(frames) \in 0 .. Len(frames) /\ Before(Len(frames)) \in Nat
      BY InRange
    <3> QED BY <1>1, <3>1, InRange
  <2>2. ByteAfter(rd + k - 1) = Low(frames[i] + 8)[k]
    BY <2>1, ByteIs, InRange
  <2> QED BY <2>2 DEF Field
<1> DEFINE b == frames[i] + 8
<1>3. b \in Nat /\ b < SignBit /\ 0 < SignBit
  BY InRange, ByteAssumption DEF SizesArrive
<1> HIDE DEF b
<1>4. Field(4)[1] = 0 /\ Field(4)[2] = 0 /\ Field(4)[3] = 0 /\ Field(4)[4] = b
  BY <1>2 DEF Low, b
<1>5. FromWire(Field(4)) = <<0, 0, 0, b>>
  BY <1>3, <1>4 DEF FromWire, ShiftOr, Widen
<1> QED BY <1>5 DEF Low, b

\* A call that gives up before the loop.
LEMMA EndExact ==
    ASSUME IInv, PlaceInv, OutInv, AtEnd, Return(0), UNCHANGED <<stream, rd>>
    PROVE  PlaceInv' /\ OutInv'
<1>1. out' = out /\ pc' = "idle" /\ ret' = 0
  BY DEF Return
<1>2. AtEnd' /\ Ended'
  BY DEF AtEnd, Ended, stream
<1>3. OutInv'
  BY <1>1, <1>2, SameOut
<1>4. peer' # "rst"
  BY <1>2 DEF AtEnd
<1> QED BY <1>1, <1>2, <1>3, <1>4 DEF PlaceInv

LEMMA RecvSizeExact ==
    SizesArrive /\ IInv /\ PlaceInv /\ OutInv /\ RecvSize /\ ~lost'
      => PlaceInv' /\ OutInv'
<1> SUFFICES ASSUME SizesArrive, IInv, PlaceInv, OutInv, RecvSize, ~lost'
             PROVE  PlaceInv' /\ OutInv'
  OBVIOUS
<1>0. UNCHANGED <<stream, tries>> /\ pc = "size" /\ start = rd
  BY DEF RecvSize, IInv, CallInv
<1>1. CASE AtEnd /\ Return(0) /\ UNCHANGED rd
  BY <1>0, <1>1, EndExact
<1>2. ASSUME NEW n \in Given(4), rd' = rd + n, total' = n,
             max' = IF FromWire(Field(n)) = Low(0) THEN BufSize
                    ELSE Value(FromWire(Field(n))),
             lost' = (lost \/ (n < 4 /\ ~AtEnd')), pc' = "id",
             UNCHANGED <<start, ret, out>>
      PROVE  PlaceInv' /\ OutInv'
  <2>1. n \in 1 .. wr - rd /\ n <= 4 /\ ~ AtEnd /\ peer # "rst" /\ ~ Ended
    BY InRange, GivenIs DEF AtEnd, Ended
  <2>2. rd = Before(Len(out))
    BY <1>0, <2>1 DEF PlaceInv
  <2>3. OutInv'
    BY <1>0, <1>2, <2>1, SameOut
  <2>4. Len(out) < Len(frames)
    <3>1. Len(out) # Len(frames)
      BY <2>1, <2>2, InRange
    <3> QED BY <3>1, InRange DEF OutInv
  <2> DEFINE i == Len(out) + 1
  <2>5. i \in 1 .. Len(frames) /\ i - 1 = Len(out) /\ frames[i] \in Nat
    BY <2>4, InRange
  <2>6. Before(Len(out))' = Before(Len(out)) /\ peer' = peer
    BY <1>0, <1>2, SamePlaces
  <2>7. CASE n = 4
    <3>1. FromWire(Field(4)) = Low(frames[i] + 8)
      BY <2>2, <2>5, <2>7, FieldArrives
    <3>2. Low(frames[i] + 8) # Low(0) /\ Value(Low(frames[i] + 8)) = frames[i] + 8
      BY <2>5 DEF Low, Value
    <3>3. max' = frames[i] + 8
      BY <1>2, <2>7, <3>1, <3>2
    <3>4. SizeIs' /\ rd' = start' + 4 /\ total' = 4
      BY <1>0, <1>2, <2>2, <2>4, <2>6, <2>7, <3>3 DEF SizeIs, stream
    <3> QED BY <1>2, <2>1, <2>3, <2>6, <3>4 DEF PlaceInv
  <2>8. CASE n < 4
    <3>1. AtEnd'
      BY <1>2, <2>8
    <3>2. wr' < start' + 4
      BY <1>0, <1>2, <2>1, <2>8, <3>1, InRange DEF AtEnd, stream
    <3>3. max' \in {BufSize, Huge}
      BY <1>2, <2>8, FieldIs
    <3>4. BufSize >= 8 /\ Huge >= 8
      <4>1. frames[i] \in Sizes
        BY <2>5, InRange
      <4>2. frames[i] + 8 <= ByteMax
        BY <2>5, <4>1, SizesAre DEF Byte
      <4> QED BY <2>5, <4>2, Bounds
    <3>5. start' = Before(Len(out))' /\ Len(out') < Len(frames')
      BY <1>0, <1>2, <2>2, <2>4, <2>6 DEF stream
    <3> QED BY <1>2, <2>1, <2>3, <2>6, <3>1, <3>2, <3>3, <3>4, <3>5 DEF PlaceInv
  <2> QED BY <2>1, <2>7, <2>8
<1>3. CASE /\ total' = -1 /\ lost' = (lost \/ peer # "rst") /\ pc' = "id"
           /\ UNCHANGED <<rd, start, max, ret, out>>
  <2>1. peer = "rst" /\ peer' = "rst"
    BY <1>0, <1>3 DEF stream
  <2>2. total' <= max'
    BY <1>3, InRange, Bounds
  <2>3. OutInv'
    BY <1>0, <1>3, SameOut
  <2> QED BY <1>3, <2>1, <2>2, <2>3 DEF PlaceInv
<1> QED BY <1>1, <1>2, <1>3 DEF RecvSize, Field

LEMMA RecvIdExact ==
    IInv /\ PlaceInv /\ OutInv /\ RecvId /\ ~lost' => PlaceInv' /\ OutInv'
<1> SUFFICES ASSUME IInv, PlaceInv, OutInv, RecvId, ~lost'
             PROVE  PlaceInv' /\ OutInv'
  OBVIOUS
<1>0. UNCHANGED <<stream, tries>> /\ pc = "id" /\ peer' = peer
  BY DEF RecvId, stream
<1>1. CASE AtEnd /\ Return(0) /\ UNCHANGED rd
  BY <1>0, <1>1, EndExact
<1>2. ASSUME NEW n \in Given(4), rd' = rd + n, total' = total + n,
             pc' \in {"body"} \union IF total < 0 THEN {"ended"} ELSE {},
             UNCHANGED <<start, max, ret, out, lost>>
      PROVE  PlaceInv' /\ OutInv'
  <2>1. n \in 1 .. wr - rd /\ n <= 4 /\ ~ AtEnd /\ ~ Ended /\ peer # "rst"
    BY InRange, GivenIs DEF AtEnd, Ended
  <2>2. SizeIs /\ rd = start + 4 /\ total = 4
    BY <1>0, <2>1 DEF PlaceInv
  <2>3. max \in Nat /\ max >= 8
    <3>1. Len(out) + 1 \in 1 .. Len(frames)
      BY <2>2, InRange DEF SizeIs
    <3> QED BY <2>2, <3>1, InRange DEF SizeIs
  <2>4. SizeIs'
    BY <1>0, <1>2, <2>2, SamePlaces DEF SizeIs
  <2>5. /\ start' + 4 < rd' /\ rd' <= start' + max' /\ total' = rd' - start'
        /\ pc' = "body"
    BY <1>2, <2>1, <2>2, <2>3, InRange
  <2>6. OutInv'
    BY <1>0, <1>2, <2>1, SameOut
  <2> QED BY <1>0, <2>1, <2>4, <2>5, <2>6 DEF PlaceInv
<1>3. CASE /\ total' = total - 1 /\ lost' = (lost \/ peer # "rst")
           /\ pc' = "body" /\ UNCHANGED <<rd, start, max, ret, out>>
  <2>1. peer = "rst"
    BY <1>3
  <2>2. total \in Int /\ total <= max /\ max \in Int
    BY <1>0, <2>1, InRange, Bounds DEF PlaceInv, IInv, TypeOK
  <2>3. OutInv'
    BY <1>0, <1>3, SameOut
  <2>4. total' <= max'
    BY <1>3, <2>2
  <2> QED BY <1>0, <1>3, <2>1, <2>3, <2>4 DEF PlaceInv
<1> QED BY <1>1, <1>2, <1>3 DEF RecvId

\* A call returns the frame it began with, or what a close left of it.
LEMMA SuccessExact ==
    ASSUME IInv, PlaceInv, OutInv, pc = "body", peer # "rst",
           NEW n \in 0 .. wr - rd, Return(total + n), UNCHANGED stream,
           rd' = rd + n, total + n = max \/ (AtEnd /\ n = 0)
    PROVE  PlaceInv' /\ OutInv'
<1>1. /\ SizeIs /\ start + 4 < rd /\ rd <= start + max
      /\ total = rd - start
  BY DEF PlaceInv
<1>0. PICK i \in Nat : i = Len(out) + 1
  BY InRange
<1>2. /\ i \in 1 .. Len(frames) /\ i - 1 = Len(out) /\ i \in Nat
      /\ start = Before(i - 1) /\ max = frames[i] + 8 /\ max \in Nat
      /\ Before(i) = start + max /\ Before(i) \in Nat
  <2>1. i \in 1 .. Len(frames) /\ i - 1 = Len(out)
    <3>1. Len(out) \in Nat /\ Len(frames) \in Nat /\ Len(out) < Len(frames)
      BY <1>1, InRange DEF SizeIs
    <3> QED BY <1>0, <3>1
  <2>2. frames[i] \in Nat /\ Before(i) = Before(i - 1) + frames[i] + 8
        /\ i \in 0 .. Len(frames)
    BY <2>1, InRange
  <2>3. start = Before(i - 1) /\ max = frames[i] + 8
    BY <1>0, <1>1, <2>1 DEF SizeIs
  <2>4. start \in Nat /\ max \in Nat /\ Before(i) = start + max
    <3>1. start \in Nat
      BY InRange
    <3> QED BY <2>2, <2>3, <3>1
  <2>5. Before(i) \in Nat
    BY <2>2, InRange
  <2> QED BY <2>1, <2>3, <2>4, <2>5
<1>3. /\ out' = Append(out, [from |-> start, len |-> rd' - start])
      /\ pc' = "idle" /\ ret' # 0
  <2>1. total + n > 0
    BY <1>1, InRange
  <2> QED BY <2>1 DEF Return
<1>4. /\ Len(out') = i /\ out'[i] = [from |-> start, len |-> rd' - start]
      /\ \A j \in 1 .. Len(out) : out'[j] = out[j]
  BY <1>0, <1>3 DEF IInv, TypeOK
<1>5. \A j : Before(j)' = Before(j) /\ Whole(j)' = Whole(j)
  BY SamePlaces
<1>6. frames' = frames /\ wr' = wr /\ peer' = peer
  BY SamePlaces
<1>7. ASSUME NEW j \in 1 .. Len(out) PROVE out'[j] = Whole(j)'
  <2>1. Len(out) # Len(frames)
    BY <1>1, InRange DEF SizeIs
  <2>2. out[j] = Whole(j)
    BY <2>1 DEF OutInv
  <2> QED BY <1>4, <1>5, <2>2
<1>8. CASE total + n = max
  <2>0. rd' - start = max /\ rd' = Before(i)
    <3>1. rd \in Nat /\ start \in Nat /\ n \in Nat
      BY InRange
    <3>2. (rd + n) - start = max
      BY <1>1, <1>2, <1>8, <3>1
    <3>3. rd + n = Before(i)
      BY <1>2, <3>1, <3>2
    <3>4. rd' = rd + n
      OBVIOUS
    <3> QED BY <3>2, <3>3, <3>4, Zenon
  <2>1. out'[i] = Whole(i)'
    BY <1>2, <1>4, <1>5, <2>0 DEF Whole
  <2>2. rd' = Before(Len(out))'
    BY <1>4, <1>5, <2>0
  <2>3. PlaceInv'
    BY <1>3, <1>6, <2>2 DEF PlaceInv
  <2>4. OutInv'
    BY <1>2, <1>3, <1>4, <1>6, <1>7, <2>1 DEF OutInv
  <2> QED BY <2>3, <2>4
<1>9. CASE AtEnd /\ n = 0 /\ total + n # max
  <2>1. rd' = rd /\ AtEnd' /\ Ended' /\ rd = wr
    BY <1>6, <1>9, InRange DEF AtEnd, Ended
  <2>2. PlaceInv'
    BY <1>3, <1>6, <2>1 DEF PlaceInv
  <2>3. i = Len(frames)
    <3>1. CASE i < Len(frames)
      <4>1. /\ i \in 0 .. Len(frames) /\ Len(frames) - 1 \in 0 .. Len(frames)
            /\ Before(Len(frames) - 1) \in Nat
        <5>1. Len(frames) - 1 \in 0 .. Len(frames)
          <6>1. Len(frames) \in Nat
            BY InRange
          <6> QED BY <1>2, <3>1, <6>1
        <5>2. Before(Len(frames) - 1) \in Nat
          BY <5>1, InRange
        <5> QED BY <1>2, <5>1, <5>2
      <4>2. Before(i) <= Before(Len(frames) - 1)
        <5>1. CASE i < Len(frames) - 1
          <6>1. frames \in Seq(Sizes)
            BY InRange
          <6>2. Before(i) + 8 <= Before(Len(frames) - 1)
            BY <4>1, <5>1, <6>1, BeforeRises
          <6> QED BY <1>2, <4>1, <6>2
        <5>2. CASE i = Len(frames) - 1
          BY <1>2, <5>2
        <5> QED BY <1>2, <3>1, <5>1, <5>2, InRange
      <4>3. wr > Before(Len(frames) - 1)
        BY <3>1, <1>2, InRange DEF IInv, StreamInv
      <4>4. wr \in Nat /\ wr <= Before(i)
        BY <1>1, <1>2, <2>1, InRange
      <4> QED BY <1>2, <4>1, <4>2, <4>3, <4>4
    <3> QED BY <1>2, <3>1
  <2>4. out'[i] = [from |-> Before(i - 1), len |-> wr - Before(i - 1)]'
    <3>1. rd' - start = wr - Before(i - 1)
      BY <1>2, <2>1
    <3>2. Before(i - 1)' = Before(i - 1)
      BY <1>5
    <3> QED BY <1>2, <1>4, <1>6, <3>1, <3>2
  <2>5. OutInv'
    <3>1. \A j \in 1 .. Len(out') : j = i \/ j \in 1 .. Len(out)
      BY <1>2, <1>4
    <3>2. /\ ret' # 0 /\ Len(out') <= Len(frames') /\ i = Len(out')
          /\ i = Len(frames')
      BY <1>2, <1>3, <1>4, <1>6, <2>3
    <3> QED BY <1>7, <2>1, <2>4, <3>1, <3>2 DEF OutInv
  <2> QED BY <2>2, <2>5
<1> QED BY <1>8, <1>9

\* The loop goes on as long as the frame is not whole.
LEMMA WantExact ==
    ASSUME IInv, PlaceInv, pc = "body", peer # "rst"
    PROVE  /\ SizeIs /\ total = rd - start /\ max \in Nat /\ total \in Nat
           /\ Want = max - total /\ Want \in Nat /\ total <= max /\ max < Huge
<1>1. /\ SizeIs /\ start + 4 < rd /\ rd <= start + max /\ total = rd - start
  BY DEF PlaceInv
<1>2. Len(out) + 1 \in 1 .. Len(frames)
  BY <1>1, InRange DEF SizeIs
<1>3. frames[Len(out) + 1] \in Nat /\ frames[Len(out) + 1] + 8 <= ByteMax
  BY <1>2, InRange, SizesAre DEF Byte
<1>4. max \in Nat /\ max < Huge
  BY <1>1, <1>3, Bounds DEF SizeIs
<1>5. total \in Nat /\ total <= max
  BY <1>1, <1>4, InRange
<1> QED BY <1>1, <1>4, <1>5 DEF Want

LEMMA RecvBodyExact ==
    IInv /\ PlaceInv /\ OutInv /\ RecvBody => PlaceInv' /\ OutInv'
<1> SUFFICES ASSUME IInv, PlaceInv, OutInv, RecvBody
             PROVE  PlaceInv' /\ OutInv'
  OBVIOUS
<1>1. UNCHANGED stream /\ peer' = peer /\ pc = "body"
  BY DEF RecvBody, stream
<1>2. CASE /\ AtEnd \/ (Want = 0 /\ peer # "rst")
           /\ rd' = rd /\ Return(total)
  <2>1. peer # "rst"
    BY <1>2 DEF AtEnd
  <2>2. /\ total + 0 = total /\ rd + 0 = rd /\ 0 \in 0 .. wr - rd
        /\ total = max \/ AtEnd
    BY <1>1, <1>2, <2>1, WantExact, InRange
  <2> QED BY <1>1, <1>2, <2>1, <2>2, SuccessExact
<1>3. ASSUME NEW n \in Given(Want), rd' = rd + n, Loop(total + n)
      PROVE  PlaceInv' /\ OutInv'
  <2>0. n \in 1 .. wr - rd /\ n <= Want /\ peer # "rst"
    BY InRange, WantIs, GivenIs
  <2>1. ~ AtEnd /\ ~ Ended
    BY <2>0, InRange DEF AtEnd, Ended
  <2>2. /\ SizeIs /\ total = rd - start /\ max \in Nat /\ total \in Nat
        /\ Want = max - total /\ start + 4 < rd
    BY <1>1, <2>0, WantExact DEF PlaceInv
  <2>5. rd \in Nat /\ start \in Nat /\ n \in Nat /\ n > 0 /\ wr \in Nat
        /\ n <= wr - rd
    BY <2>0, InRange
  <2>3. CASE total + n < max
    <3>1. total' = total + n /\ UNCHANGED <<pc, start, max, ret, out>>
      BY <1>3, <2>0, <2>2, <2>3 DEF Loop
    <3>2. OutInv'
      BY <1>1, <2>1, <3>1, SameOut
    <3>3. SizeIs'
      BY <1>1, <2>2, <3>1, SamePlaces DEF SizeIs
    <3>4. /\ start' + 4 < rd' /\ rd' <= start' + max' /\ total' = rd' - start'
      BY <1>3, <2>2, <2>3, <2>5, <3>1
    <3> QED BY <1>1, <2>0, <3>1, <3>2, <3>3, <3>4 DEF PlaceInv
  <2>4. CASE ~ (total + n < max)
    <3>1. total + n = max /\ n \in 0 .. wr - rd /\ Return(total + n)
      BY <1>3, <2>0, <2>2, <2>4, <2>5 DEF Loop
    <3> QED BY <1>1, <1>3, <2>0, <3>1, SuccessExact
  <2> QED BY <2>3, <2>4
<1> QED BY <1>2, <1>3 DEF RecvBody

LEMMA NoBufsExact ==
    IInv /\ PlaceInv /\ OutInv /\ RecvNoBufs /\ ~lost' => PlaceInv' /\ OutInv'
<1> SUFFICES ASSUME IInv, PlaceInv, OutInv, RecvNoBufs, ~lost'
             PROVE  PlaceInv' /\ OutInv'
  OBVIOUS
<1>1. /\ UNCHANGED <<stream, rd>> /\ pc = "body" /\ peer # "rst" /\ Want > 0
      /\ Loop(total) /\ peer' = peer
  BY DEF RecvNoBufs, stream
<1>2. total \in 0 .. max - 1
  BY <1>1, WantExact
<1>3. total' = total /\ UNCHANGED <<pc, start, max, ret, out>>
  BY <1>1, <1>2 DEF Loop
<1>4. OutInv' /\ SizeIs' = SizeIs
  BY <1>1, <1>3, SameOut, SamePlaces DEF SizeIs
<1> QED BY <1>1, <1>3, <1>4 DEF PlaceInv

\* A call on a broken connection returns nothing.
LEMMA FailExact ==
    IInv /\ PlaceInv /\ OutInv /\ RecvFail => PlaceInv' /\ OutInv' /\ out' = out
<1> SUFFICES ASSUME IInv, PlaceInv, OutInv, RecvFail
             PROVE  PlaceInv' /\ OutInv' /\ out' = out
  OBVIOUS
<1>1. /\ UNCHANGED <<stream, rd>> /\ pc = "body" /\ Loop(total - 1)
      /\ peer' = peer
  BY DEF RecvFail, stream
<1>2. peer = "rst"
  BY <1>1, WantExact, Bounds DEF RecvFail
<1>3. total \in Int /\ max \in Int /\ total <= max
  BY <1>1, <1>2, InRange, Bounds DEF PlaceInv, IInv, TypeOK
<1>4. CASE total - 1 \in 0 .. max - 1
  <2>1. total' = total - 1 /\ UNCHANGED <<pc, start, max, ret, out>>
    BY <1>1, <1>4 DEF Loop
  <2>2. OutInv' /\ total' <= max'
    BY <1>1, <1>3, <2>1, SameOut
  <2> QED BY <1>1, <1>2, <2>1, <2>2 DEF PlaceInv
<1>5. CASE total - 1 \notin 0 .. max - 1
  <2>1. Return(total - 1) /\ total - 1 < 0
    BY <1>1, <1>3, <1>5 DEF Loop
  <2>2. out' = out /\ pc' = "idle" /\ ret' # 0
    BY <1>3, <2>1 DEF Return
  <2>3. OutInv'
    BY <1>1, <2>2, SameOut
  <2> QED BY <1>1, <1>2, <2>2, <2>3 DEF PlaceInv
<1> QED BY <1>4, <1>5

\* What is lost stays lost.
LEMMA LostStays ==
    [Next]_vars /\ lost => lost'
BY DEF Next, Receive, Send, Close, Reset, Call, RecvSize, RecvId, RecvBody,
       RecvNoBufs, RecvFail, vars

LEMMA ExactInductive ==
    SizesArrive /\ ExactInv /\ [Next]_vars => ExactInv'
<1> SUFFICES ASSUME SizesArrive, ExactInv, [Next]_vars, ~ lost'
             PROVE  PlaceInv' /\ OutInv'
  BY Inductive DEF ExactInv
<1>1. IInv /\ IInv'
  BY Inductive DEF ExactInv
<1>2. ~ lost
  BY LostStays
<1>3. PlaceInv /\ OutInv
  BY <1>2 DEF ExactInv
<1>4. CASE UNCHANGED vars
  <2>1. UNCHANGED <<stream, rd, start, total, max, ret, out>> /\ pc' = pc
    BY <1>4 DEF vars, local
  <2>2. AtEnd' = AtEnd /\ SizeIs' = SizeIs
    BY <2>1, SamePlaces DEF AtEnd, SizeIs
  <2>3. Before(Len(out))' = Before(Len(out))
    BY <2>1, SamePlaces
  <2>4. PlaceInv'
    BY <1>3, <2>1, <2>2, <2>3 DEF PlaceInv, stream
  <2> QED BY <1>1, <1>3, <2>1, <2>4, SameOut
<1>5. CASE Send
  BY <1>1, <1>3, <1>5, SenderKeepsOut DEF Send
<1>6. CASE Close
  BY <1>1, <1>3, <1>6, SenderKeepsOut DEF Close
<1>7. CASE Call
  <2>1. /\ UNCHANGED <<stream, rd, ret, out>> /\ pc = "idle" /\ pc' = "size"
    BY <1>7 DEF Call
  <2>2. AtEnd' = AtEnd /\ peer' = peer
    BY <2>1 DEF AtEnd, stream
  <2>3. Before(Len(out))' = Before(Len(out))
    BY <2>1, SamePlaces
  <2>4. PlaceInv'
    BY <1>3, <2>1, <2>2, <2>3 DEF PlaceInv
  <2> QED BY <1>1, <1>3, <2>1, <2>4, SameOut
<1> QED BY <1>1, <1>3, <1>4, <1>5, <1>6, <1>7, ResetExact, RecvSizeExact,
           RecvIdExact, RecvBodyExact, NoBufsExact, FailExact DEF Next, Receive

THEOREM ExactInvariance ==
    ASSUME SizesArrive
    PROVE  Spec => []ExactInv
<1>1. SizesArrive
  OBVIOUS
<1>2. ExactInv /\ [Next]_vars => ExactInv'
  BY <1>1, ExactInductive
<1> QED BY ExactInitially, <1>2, PTL DEF Spec

\* Whatever pieces all but the size field comes in, and for any number of frames
\* of any sizes below the sign bit: until a recv of the header fails or gives only
\* a part of the size, or buffers run out, what Receive returns is what was sent.
THEOREM ReceivesExactly ==
    ASSUME SizesArrive
    PROVE  Spec => []FramesExact
<1>1. ExactInv => FramesExact
  <2> SUFFICES ASSUME ExactInv PROVE FramesExact
    OBVIOUS
  <2>2. DOMAIN out = 1 .. Len(out)
    BY DEF ExactInv, IInv, TypeOK
  <2> QED BY <2>2 DEF ExactInv, OutInv, FramesExact
<1> QED BY ExactInvariance, <1>1, PTL

----------------------------------------------------------------------------
(* TcpReceive implements FrameChannel until the end of a frame is lost. *)

LEMMA ChannelInit == Init => Channel!Init
BY DEF Init, Channel!Init

LEMMA ChannelStep ==
    ASSUME ExactInv, [Next]_vars
    PROVE  [Channel!Next \/ lost']_Channel!chan
<1>1. Len(out) \in Nat /\ Len(frames) \in Nat
  BY InRange DEF ExactInv
<1>2. CASE Len(frames') = Len(frames) /\ Len(out') = Len(out) /\ peer' = peer
  BY <1>2 DEF Channel!chan
<1>3. CASE Send
  <2>1. Len(frames') = Len(frames) + 1 /\ UNCHANGED <<peer, out>> /\ peer = "open"
    BY <1>3, InRange DEF Send, ExactInv, IInv, TypeOK
  <2>2. Channel!Put
    BY <2>1 DEF Channel!Put
  <2> QED BY <2>2 DEF Channel!Next
<1>4. CASE Close
  <2>1. /\ Len(frames') \in {Len(frames), Len(frames) + 1} /\ out' = out
        /\ peer = "open" /\ peer' = "fin"
    BY <1>4 DEF Close, ExactInv, IInv, TypeOK
  <2>2. Channel!Close
    BY <2>1 DEF Channel!Close
  <2> QED BY <2>2 DEF Channel!Next
<1>5. CASE Reset
  <2>1. Channel!Break
    BY <1>5 DEF Reset, Channel!Break, ExactInv, IInv, TypeOK
  <2> QED BY <2>1 DEF Channel!Next
<1>6. CASE lost'
  BY <1>6
<1>7. ASSUME ~ lost', UNCHANGED stream, NEW t, Return(t),
             t > 0 => pc = "body" /\ peer # "rst"
      PROVE  Channel!Next \/ UNCHANGED Channel!chan
  <2>1. frames' = frames /\ peer' = peer
    BY <1>7 DEF stream
  <2>2. CASE ~ (t > 0)
    BY <1>7, <2>1, <2>2 DEF Return, Channel!chan
  <2>3. CASE t > 0
    <3>1. Len(out') = Len(out) + 1
      BY <1>7, <2>3 DEF Return, ExactInv, IInv, TypeOK
    <3>2. Len(out) < Len(frames) /\ peer \in {"open", "fin"}
      BY <1>7, <2>3, LostStays DEF ExactInv, PlaceInv, SizeIs, IInv, TypeOK
    <3> QED BY <2>1, <3>1, <3>2 DEF Channel!Get, Channel!Next
  <2> QED BY <2>2, <2>3
<1>8. CASE RecvBody /\ ~ lost'
  <2>1. UNCHANGED stream /\ pc = "body"
    BY <1>8 DEF RecvBody
  <2>2. \/ \E t : Return(t) /\ peer # "rst"
        \/ UNCHANGED out
    BY <1>8 DEF RecvBody, Loop, AtEnd, Given
  <2> QED BY <1>2, <1>7, <1>8, <2>1, <2>2 DEF stream
<1>9. CASE (RecvSize \/ RecvId) /\ ~ lost'
  <2>1. UNCHANGED stream /\ (Return(0) \/ UNCHANGED out)
    BY <1>9 DEF RecvSize, RecvId
  <2> QED BY <1>2, <1>7, <1>9, <2>1 DEF stream
<1>10. CASE RecvFail /\ ~ lost'
  <2>1. UNCHANGED <<stream, out>>
    BY <1>10, FailExact, LostStays DEF RecvFail, ExactInv
  <2> QED BY <1>2, <2>1 DEF stream
<1>11. CASE RecvNoBufs /\ ~ lost'
  <2>1. UNCHANGED stream
    BY <1>11 DEF RecvNoBufs
  <2>2. UNCHANGED out
    <3>1. /\ pc = "body" /\ peer # "rst" /\ Want > 0 /\ Loop(total)
      BY <1>11 DEF RecvNoBufs
    <3>2. total \in 0 .. max - 1
      BY <1>11, <3>1, LostStays, WantExact DEF ExactInv
    <3> QED BY <3>1, <3>2 DEF Loop
  <2> QED BY <1>2, <2>1, <2>2 DEF stream
<1>12. CASE Call
  BY <1>2, <1>12 DEF Call, stream
<1>13. CASE UNCHANGED vars
  BY <1>2, <1>13 DEF vars, stream
<1> QED BY <1>3, <1>4, <1>5, <1>6, <1>8, <1>9, <1>10, <1>11, <1>12, <1>13
        DEF Next, Receive

\* Every call that succeeds takes the next frame of the channel; the sender puts
\* them in, closes or breaks it; all else is a stutter.
THEOREM Refines ==
    ASSUME SizesArrive
    PROVE  Spec => ImplementsChannel
<1>1. ExactInv /\ [Next]_vars => [Channel!Next \/ lost']_Channel!chan
  BY ChannelStep
<1> QED BY ExactInvariance, ChannelInit, <1>1, PTL DEF Spec, ImplementsChannel
=============================================================================
