----------------------- MODULE TransportFeedbackProofs -----------------------
(***************************************************************************)
(* Proofs about TransportFeedback for every modulus of the packet numbers, *)
(* every limit on samples and statuses, and every reach of the packets in  *)
(* play up to half the modulus: what the sender reads from a feedback is   *)
(* the truth about a window of the receiver.                               *)
(***************************************************************************)
EXTENDS TransportFeedback, FiniteSetTheorems, SequenceTheorems, Lemmas

LEMMA FeedbackTypes ==
  /\ Modulus \in Nat \ {0} /\ MaxPending \in Nat \ {0} /\ MaxStatuses \in Nat \ {0}
  /\ Fresh \in Nat \ {0} /\ Reach \in Nat \ {0} /\ MaxPackets \in Nat \ {0}
  /\ 2 * Reach <= Modulus /\ MaxStatuses < Modulus
BY FeedbackAssumption

-----------------------------------------------------------------------------
(* Packet numbers *)

LEMMA NumberType ==
  ASSUME NEW a \in Int
  PROVE  Number(a) \in 0 .. Modulus - 1
BY FeedbackTypes, WrapRange DEF Number

(* The difference of two numbers is that of the packets, if they are less   *)
(* than half a turn apart.                                                  *)
LEMMA DeltaIsDistance ==
  ASSUME NEW a \in Int, NEW b \in Int, a - b < Reach, b - a < Reach
  PROVE  Delta(Number(a), Number(b)) = a - b
<1> DEFINE x == a - b
           d == (Number(a) - Number(b)) % Modulus
<1>1. x \in Int /\ x < Reach /\ - Reach < x /\ d = x % Modulus
  <2>1. x \in Int /\ x < Reach /\ - Reach < x
    BY FeedbackTypes
  <2>2. ((a % Modulus) - (b % Modulus)) % Modulus = x % Modulus
    BY FeedbackTypes, WrapSub
  <2> QED
    BY <2>1, <2>2 DEF Number
<1>2. Delta(Number(a), Number(b)) = IF 2 * d < Modulus THEN d ELSE d - Modulus
  BY DEF Delta
<1>3. CASE x >= 0
  <2>1. x \in 0 .. Modulus - 1 /\ 2 * x < Modulus
    <3> HIDE DEF x
    <3> QED
      BY <1>1, <1>3, FeedbackTypes
  <2>2. d = x
    <3> HIDE DEF x, d
    <3>1. x % Modulus = x
      BY <2>1, FeedbackTypes, SMT
    <3> QED
      BY <1>1, <3>1
  <2> HIDE DEF x, d
  <2>3. Delta(Number(a), Number(b)) = x
    BY <1>2, <2>1, <2>2
  <2> QED
    BY <2>3 DEF x
<1>4. CASE ~ (x >= 0)
  <2>1. /\ x + Modulus \in 0 .. Modulus - 1 /\ ~ (2 * (x + Modulus) < Modulus)
        /\ (x + Modulus) - Modulus = x
    <3> HIDE DEF x
    <3> QED
      BY <1>1, <1>4, FeedbackTypes
  <2>2. d = x + Modulus
    <3> DEFINE y == x + Modulus
    <3> HIDE DEF x, d
    <3>1. (x + 1 * Modulus) % Modulus = x % Modulus
      <4>1. x \in Int /\ 1 \in Int /\ Modulus \in Nat \ {0}
        BY <1>1, FeedbackTypes
      <4> HIDE DEF y
      <4> QED
        BY <4>1, WrapTurns
    <3>2. x + 1 * Modulus = y
      BY FeedbackTypes, <1>1
    <3>3. y % Modulus = y
      <4>1. y \in 0 .. Modulus - 1
        BY <2>1
      <4> HIDE DEF y
      <4> QED
        BY <4>1, FeedbackTypes, SMT
    <3> QED
      BY <1>1, <3>1, <3>2, <3>3
  <2> HIDE DEF x, d
  <2>3. Delta(Number(a), Number(b)) = x
    BY <1>2, <2>1, <2>2
  <2> QED
    BY <2>3 DEF x
<1> QED
  BY <1>3, <1>4

(* Packets in play are told apart by their numbers. *)
LEMMA NumbersDiffer ==
  ASSUME NEW a \in Int, NEW b \in Int, a - b < Reach, b - a < Reach, Number(a) = Number(b)
  PROVE  a = b
<1>1. - Modulus < a - b /\ a - b < Modulus
  BY FeedbackTypes
<1> QED
  BY <1>1, FeedbackTypes, WrapInjective DEF Number

-----------------------------------------------------------------------------
(* Windows *)

(* Samples of packets sent, any two of them in play at the same time. *)
Window(ps) ==
    /\ ps \in Seq(1 .. sent)
    /\ \A p, q \in Range(ps) : p - q < Reach

(* The packet q is the newest of the first i samples and the first one. *)
NewestOf(ps, i, q) ==
    /\ q \in Range(ps)
    /\ ps[1] <= q
    /\ \A j \in 1 .. i : ps[j] <= q

LEMMA WindowElements ==
  ASSUME NEW ps, Window(ps), ps # <<>>, sent \in Nat
  PROVE  /\ Len(ps) \in Nat /\ 1 \in 1 .. Len(ps) /\ DOMAIN ps = 1 .. Len(ps)
         /\ \A i \in 1 .. Len(ps) : ps[i] \in Range(ps)
         /\ \A p \in Range(ps) : /\ p \in 1 .. sent /\ p \in Int
                                /\ \E i \in 1 .. Len(ps) : p = ps[i]
         /\ ps[1] \in Range(ps) /\ ps[1] \in Int
<1>1. ps \in Seq(1 .. sent)
  BY DEF Window
<1>2. Len(ps) \in Nat /\ DOMAIN ps = 1 .. Len(ps) /\ Len(ps) # 0
  BY <1>1, LenProperties, EmptySeq
<1>3. \A i \in 1 .. Len(ps) : ps[i] \in Range(ps) /\ ps[i] \in 1 .. sent
  BY <1>1, <1>2, ElementOfSeq DEF Range
<1>4. \A p \in Range(ps) : \E i \in 1 .. Len(ps) : p = ps[i]
  BY <1>2 DEF Range
<1> QED
  BY <1>2, <1>3, <1>4

(* The loop over the samples of a window. *)
LEMMA NewestLoop ==
  ASSUME NEW ps, Window(ps), ps # <<>>, sent \in Nat
  PROVE  \E g : /\ NewestNumber(ps) = g[Len(ps)]
               /\ g[0] = Number(ps[1])
               /\ \A i \in 1 .. Len(ps) :
                     g[i] = IF Follows(Number(ps[i]), g[i - 1]) THEN Number(ps[i]) ELSE g[i - 1]
<1> DEFINE c == Len(ps)
           S == 0 .. Modulus - 1
           Round(t, i) == IF Follows(Number(ps[i]), t) THEN Number(ps[i]) ELSE t
           start == Number(ps[1])
           step == [x \in S \X (1 .. c) |-> Round(x[1], x[2])]
           Body(h) == [i \in 0 .. c |-> IF i = 0 THEN Number(ps[1])
                                        ELSE IF Follows(Number(ps[i]), h[i - 1])
                                        THEN Number(ps[i]) ELSE h[i - 1]]
           m == CHOOSE h : h = Body(h)
<1>1. c \in Nat /\ 1 \in 1 .. c /\ \A i \in 1 .. c : ps[i] \in Int
  BY WindowElements
<1>2. step \in [S \X (1 .. c) -> S] /\ start \in S
  <2>1. \A i \in 1 .. c : Number(ps[i]) \in S
    BY <1>1, NumberType
  <2> HIDE DEF S, c
  <2> QED
    BY <1>1, <2>1
<1>3. \A t \in S, i \in 1 .. c : step[<<t, i>>] = Round(t, i)
  OBVIOUS
<1>4. 0 \in 0 .. c /\ \A i \in 1 .. c : i \in 0 .. c /\ i - 1 \in 0 .. c /\ i # 0
  BY <1>1
<1>5. NewestNumber(ps) = m[c]
  BY DEF NewestNumber
<1> HIDE DEF step, S, c
<1>6. PICK g : IsRun(g, c, S, start, step)
  <2> HIDE DEF start
  <2> QED
    BY <1>1, <1>2, LoopRuns
<1>7. /\ g \in [0 .. c -> S] /\ g[0] = Number(ps[1])
      /\ \A i \in 1 .. c : g[i] = Round(g[i - 1], i)
  <2>1. /\ g \in [0 .. c -> S] /\ g[0] = Number(ps[1])
        /\ \A i \in 1 .. c : g[i] = step[<<g[i - 1], i>>]
    BY <1>6 DEF IsRun
  <2> HIDE DEF Round
  <2> QED
    BY <1>3, <1>4, <2>1
<1>8. g = Body(g)
  <2>1. \A i \in 0 .. c : i # 0 => i \in 1 .. c
    BY <1>1
  <2> QED
    BY <1>7, <2>1
<1>9. m = Body(m)
  <2> HIDE DEF Body
  <2> QED
    BY <1>8
<1> HIDE DEF m
<1>10. m[0] = Number(ps[1]) /\ \A i \in 1 .. c : m[i] = Round(m[i - 1], i)
  BY <1>4, <1>9
<1> QED
  BY <1>5, <1>10 DEF c

(* The newest number is the number of the newest packet. *)
LEMMA NewestIsNewest ==
  ASSUME NEW ps, Window(ps), ps # <<>>, sent \in Nat
  PROVE  \E q : NewestOf(ps, Len(ps), q) /\ NewestNumber(ps) = Number(q)
<1> DEFINE c == Len(ps)
<1>1. c \in Nat
  BY WindowElements
<1>2. PICK g : /\ NewestNumber(ps) = g[c]
               /\ g[0] = Number(ps[1])
               /\ \A i \in 1 .. c :
                     g[i] = IF Follows(Number(ps[i]), g[i - 1]) THEN Number(ps[i]) ELSE g[i - 1]
  BY NewestLoop
<1> DEFINE T == {i \in 0 .. c : \E q : NewestOf(ps, i, q) /\ g[i] = Number(q)}
<1>3. 0 \in T
  <2>1. NewestOf(ps, 0, ps[1])
    BY WindowElements DEF NewestOf
  <2> QED
    BY <1>1, <1>2, <2>1
<1>4. ASSUME NEW i \in 1 .. c, i - 1 \in T
      PROVE  i \in T
  <2>1. PICK q : NewestOf(ps, i - 1, q) /\ g[i - 1] = Number(q)
    BY <1>4
  <2> DEFINE p == ps[i]
  <2>2. /\ p \in Int /\ q \in Int /\ ps[1] \in Int /\ p \in Range(ps) /\ q \in Range(ps)
        /\ p - q < Reach /\ q - p < Reach
        /\ i \in 0 .. c /\ 1 .. i = (1 .. i - 1) \cup {i}
        /\ \A j \in 1 .. i - 1 : ps[j] \in Int
    <3>1. p \in Range(ps) /\ q \in Range(ps)
      BY <2>1, WindowElements DEF NewestOf
    <3>2. p \in Int /\ q \in Int /\ ps[1] \in Int
      BY <3>1, WindowElements
    <3>3. p - q < Reach /\ q - p < Reach
      BY <3>1 DEF Window
    <3>4. i \in 0 .. c /\ 1 .. i = (1 .. i - 1) \cup {i}
      BY <1>1
    <3>5. \A j \in 1 .. i - 1 : ps[j] \in Int
      <4>1. 1 .. i - 1 \subseteq 1 .. c
        BY <1>1
      <4> QED
        BY <4>1, WindowElements
    <3> QED
      BY <3>1, <3>2, <3>3, <3>4, <3>5
  <2>3. Follows(Number(p), g[i - 1]) <=> p > q
    <3>1. Delta(Number(p), Number(q)) = p - q
      BY <2>2, DeltaIsDistance
    <3> HIDE DEF p
    <3> QED
      BY <2>1, <2>2, <3>1 DEF Follows
  <2>4. CASE p > q
    <3>1. g[i] = Number(p)
      BY <1>2, <2>3, <2>4
    <3>2. NewestOf(ps, i, p)
      BY <2>1, <2>2, <2>4 DEF NewestOf
    <3> QED
      BY <2>2, <3>1, <3>2
  <2>5. CASE ~ (p > q)
    <3>1. g[i] = Number(q)
      BY <1>2, <2>1, <2>3, <2>5
    <3>2. NewestOf(ps, i, q)
      BY <2>1, <2>2, <2>5 DEF NewestOf
    <3> QED
      BY <2>2, <3>1, <3>2
  <2> QED
    BY <2>4, <2>5
<1>5. c \in T
  <2>1. 0 .. c \subseteq T
    <3> HIDE DEF T, c
    <3> QED
      BY <1>1, <1>3, <1>4, LoopInvariant
  <2> HIDE DEF T, c
  <2> QED
    BY <1>1, <2>1
<1> QED
  BY <1>2, <1>5

(* The statuses of a feedback run from the first sample to the newest. *)
LEMMA StatusCountIsSpan ==
  ASSUME NEW ps, Window(ps), ps # <<>>, sent \in Nat, NEW q, NewestOf(ps, Len(ps), q),
         NewestNumber(ps) = Number(q)
  PROVE  /\ StatusCount(ps) = q - ps[1] + 1
         /\ q \in Int /\ ps[1] \in Int /\ ps[1] <= q
<1>1. q \in Range(ps) /\ ps[1] \in Range(ps) /\ ps[1] <= q
  BY WindowElements DEF NewestOf
<1>2. q \in Int /\ ps[1] \in Int
  BY <1>1, WindowElements
<1>3. q - ps[1] < Reach
  BY <1>1 DEF Window
<1>4. q - ps[1] \in 0 .. Modulus - 1
  BY <1>1, <1>2, <1>3, FeedbackTypes
<1>5. ((q % Modulus) - (ps[1] % Modulus)) % Modulus = q - ps[1]
  BY <1>2, <1>4, FeedbackTypes, WrapDistance
<1> QED
  BY <1>1, <1>2, <1>5 DEF StatusCount, Number

(* A status says whether the packet at its place was collected, and not     *)
(* another with the same number.                                            *)
LEMMA CollectedIs ==
  ASSUME NEW ps, Window(ps), ps # <<>>, sent \in Nat, NEW q, NewestOf(ps, Len(ps), q),
         NEW i \in 0 .. q - ps[1]
  PROVE  Collected(ps, i) <=> ps[1] + i \in Range(ps)
<1> DEFINE b == ps[1]
           n == b + i
<1>1. q \in Range(ps) /\ b \in Range(ps) /\ b <= q
  BY WindowElements DEF NewestOf
<1>2. q \in Int /\ b \in Int /\ i \in Int /\ n \in Int /\ b <= n /\ n <= q
  <2>1. q \in Int /\ b \in Int
    BY <1>1, WindowElements
  <2> HIDE DEF b
  <2> QED
    BY <2>1 DEF b
<1>3. ASSUME NEW p \in Range(ps), Number(p) = Number(n)
      PROVE  p = n
  <2>1. p \in Int /\ p - b < Reach /\ q - p < Reach
    BY <1>1, WindowElements DEF Window
  <2> HIDE DEF b, n
  <2>2. p - n < Reach /\ n - p < Reach
    BY <1>2, <2>1, FeedbackTypes
  <2> QED
    BY <1>2, <1>3, <2>1, <2>2, NumbersDiffer
<1> QED
  BY <1>3 DEF Collected

-----------------------------------------------------------------------------
(* Runs of equal statuses *)

Chunk == [received : BOOLEAN, run : Nat]

(* The chunks cover the first k statuses of the samples ps, the j-th one    *)
(* those from e[j-1] up to e[j].                                            *)
Cover(chunks, e, ps, k) ==
    /\ chunks \in Seq(Chunk)
    /\ e \in [0 .. Len(chunks) -> 0 .. k]
    /\ e[0] = 0 /\ e[Len(chunks)] = k
    /\ \A j \in 1 .. Len(chunks) : e[j] = e[j - 1] + chunks[j].run
    /\ \A j \in 1 .. Len(chunks) : \A i \in e[j - 1] .. e[j] - 1 :
           chunks[j].received <=> Collected(ps, i)

LEMMA AddStatusType ==
  ASSUME NEW chunks \in Seq(Chunk), NEW received \in BOOLEAN
  PROVE  AddStatus(chunks, received) \in Seq(Chunk)
<1> DEFINE L == Len(chunks)
<1>1. CASE chunks # <<>> /\ Last(chunks).received = received
  <2>1. L \in 1 .. L
    BY <1>1, EmptySeq, LenProperties
  <2>2. chunks[L] \in Chunk
    BY <2>1, ElementOfSeq
  <2>3. [received |-> received, run |-> chunks[L].run + 1] \in Chunk
    BY <2>2 DEF Chunk
  <2>4. AddStatus(chunks, received) =
          [chunks EXCEPT ![L] = [received |-> received, run |-> chunks[L].run + 1]]
    BY <1>1 DEF AddStatus, Last
  <2> QED
    BY <2>1, <2>3, <2>4, ExceptSeq
<1>2. CASE ~ (chunks # <<>> /\ Last(chunks).received = received)
  <2>1. [received |-> received, run |-> 1] \in Chunk
    BY DEF Chunk
  <2> QED
    BY <1>2, <2>1, AppendProperties DEF AddStatus
<1> QED
  BY <1>1, <1>2

LEMMA CoverGrows ==
  ASSUME NEW chunks, NEW e, NEW ps, NEW k \in Nat, Cover(chunks, e, ps, k)
  PROVE  \E e2 : Cover(AddStatus(chunks, Collected(ps, k)), e2, ps, k + 1)
<1> DEFINE L == Len(chunks)
           r == Collected(ps, k)
           new == AddStatus(chunks, r)
<1>1. L \in Nat /\ r \in BOOLEAN /\ \A j \in 1 .. L : chunks[j] \in Chunk
  BY LenProperties, ElementOfSeq DEF Cover, Collected
<1>2. /\ chunks \in Seq(Chunk)
      /\ e \in [0 .. L -> 0 .. k] /\ e[0] = 0 /\ e[L] = k
      /\ \A j \in 1 .. L : e[j] = e[j - 1] + chunks[j].run
      /\ \A j \in 1 .. L : \A i \in e[j - 1] .. e[j] - 1 :
             chunks[j].received <=> Collected(ps, i)
  BY DEF Cover
<1>3. new \in Seq(Chunk)
  BY <1>1, <1>2, AddStatusType
<1> HIDE DEF r
<1>4. CASE chunks # <<>> /\ Last(chunks).received = r
  <2> DEFINE last == [received |-> r, run |-> Last(chunks).run + 1]
             e2 == [e EXCEPT ![L] = k + 1]
  <2>1. L \in 1 .. L /\ Last(chunks) = chunks[L]
    BY <1>1, <1>2, <1>4, EmptySeq DEF Last
  <2>2. new = [chunks EXCEPT ![L] = last]
    BY <1>4 DEF AddStatus
  <2>3. last \in Chunk /\ last.received = r /\ last.run = chunks[L].run + 1 /\ chunks[L].received = r
    BY <1>1, <1>4, <2>1 DEF Chunk
  <2> HIDE DEF new, last
  <2>4. Len(new) = L /\ new[L] = last /\ \A j \in 1 .. L : j # L => new[j] = chunks[j]
    BY <1>2, <2>1, <2>2, <2>3, ExceptSeq
  <2> HIDE DEF L
  <2>5. /\ e2 \in [0 .. L -> 0 .. k + 1] /\ e2[L] = k + 1
        /\ \A j \in 0 .. L : j # L => e2[j] = e[j]
    BY <1>1, <1>2
  <2> HIDE DEF e2
  <2>6. ASSUME NEW j \in 1 .. L
        PROVE  /\ e2[j] = e2[j - 1] + new[j].run
               /\ \A i \in e2[j - 1] .. e2[j] - 1 : new[j].received <=> Collected(ps, i)
    <3>1. j - 1 \in 0 .. L /\ j \in 0 .. L /\ j - 1 # L /\ e2[j - 1] = e[j - 1]
      BY <1>1, <2>5
    <3>2. CASE j # L
      BY <1>2, <2>4, <2>5, <3>1, <3>2
    <3>3. CASE j = L
      <4>1. e2[j] = k + 1 /\ new[j] = last
        BY <2>4, <2>5, <3>3
      <4>2. e[j - 1] \in Int /\ chunks[L].run \in Int /\ k = e[j - 1] + chunks[L].run
        BY <1>1, <1>2, <2>1, <3>1, <3>3 DEF Chunk
      <4>3. \A i \in e[j - 1] .. k - 1 : r <=> Collected(ps, i)
        BY <1>2, <2>3, <3>3
      <4>4. r <=> Collected(ps, k)
        BY DEF r
      <4>5. \A i \in e[j - 1] .. (k + 1) - 1 : i \in e[j - 1] .. k - 1 \/ i = k
        BY <4>2
      <4> QED
        BY <2>3, <3>1, <4>1, <4>2, <4>3, <4>4, <4>5
    <3> QED
      BY <3>2, <3>3
  <2>7. e2[0] = 0
    BY <1>2, <2>1, <2>5
  <2>8. Cover(new, e2, ps, k + 1)
    BY <1>3, <2>4, <2>5, <2>6, <2>7 DEF Cover
  <2> QED
    BY <2>8 DEF new, r
<1>5. CASE ~ (chunks # <<>> /\ Last(chunks).received = r)
  <2> DEFINE last == [received |-> r, run |-> 1]
             e2 == [j \in 0 .. L + 1 |-> IF j <= L THEN e[j] ELSE k + 1]
  <2>1. new = Append(chunks, last)
    BY <1>5 DEF AddStatus
  <2>2. last \in Chunk /\ last.received = r /\ last.run = 1
    BY <1>1 DEF Chunk
  <2> HIDE DEF new, last
  <2>3. Len(new) = L + 1 /\ new[L + 1] = last /\ \A j \in 1 .. L : new[j] = chunks[j]
    BY <1>2, <2>1, <2>2, AppendProperties
  <2> HIDE DEF L
  <2>4. /\ e2 \in [0 .. L + 1 -> 0 .. k + 1] /\ e2[L + 1] = k + 1
        /\ \A j \in 0 .. L : e2[j] = e[j]
    BY <1>1, <1>2
  <2> HIDE DEF e2
  <2>5. ASSUME NEW j \in 1 .. L + 1
        PROVE  /\ e2[j] = e2[j - 1] + new[j].run
               /\ \A i \in e2[j - 1] .. e2[j] - 1 : new[j].received <=> Collected(ps, i)
    <3>1. CASE j \in 1 .. L
      <4>1. j - 1 \in 0 .. L /\ j \in 0 .. L
        BY <1>1, <3>1
      <4> QED
        BY <1>2, <2>3, <2>4, <3>1, <4>1
    <3>2. CASE j = L + 1
      <4>1. e2[j] = k + 1 /\ e2[j - 1] = k /\ new[j] = last
        BY <1>1, <1>2, <2>3, <2>4, <3>2
      <4>2. r <=> Collected(ps, k)
        BY DEF r
      <4>3. \A i \in k .. (k + 1) - 1 : i = k
        OBVIOUS
      <4> QED
        BY <2>2, <4>1, <4>2, <4>3
    <3> QED
      BY <1>1, <3>1, <3>2
  <2>6. e2[0] = 0
    BY <1>1, <1>2, <2>4
  <2>7. Cover(new, e2, ps, k + 1)
    BY <1>3, <2>3, <2>4, <2>5, <2>6 DEF Cover
  <2> QED
    BY <2>7 DEF new, r
<1> QED
  BY <1>4, <1>5

(* The loop over the statuses of a feedback. *)
LEMMA ChunksLoop ==
  ASSUME NEW ps, NEW count \in Nat
  PROVE  \E g : /\ Chunks(ps, count) = g[count]
               /\ g[0] = <<>>
               /\ \A i \in 1 .. count : g[i] = AddStatus(g[i - 1], Collected(ps, i - 1))
<1> DEFINE S == Seq(Chunk)
           start == <<>>
           step == [x \in S \X (1 .. count) |-> AddStatus(x[1], Collected(ps, x[2] - 1))]
           Body(h) == [i \in 0 .. count |-> IF i = 0 THEN <<>>
                                            ELSE AddStatus(h[i - 1], Collected(ps, i - 1))]
           m == CHOOSE h : h = Body(h)
<1>1. \A i \in 1 .. count : Collected(ps, i - 1) \in BOOLEAN
  BY DEF Collected
<1>2. step \in [S \X (1 .. count) -> S] /\ start \in S
  BY <1>1, AddStatusType, EmptySeq
<1>3. \A t \in S, i \in 1 .. count : step[<<t, i>>] = AddStatus(t, Collected(ps, i - 1))
  OBVIOUS
<1>4. 0 \in 0 .. count /\ \A i \in 1 .. count : i \in 0 .. count /\ i - 1 \in 0 .. count /\ i # 0
  OBVIOUS
<1>5. Chunks(ps, count) = m[count]
  BY DEF Chunks
<1> HIDE DEF step, S
<1>6. PICK g : IsRun(g, count, S, start, step)
  <2> HIDE DEF start
  <2> QED
    BY <1>2, LoopRuns
<1>7. /\ g \in [0 .. count -> S] /\ g[0] = <<>>
      /\ \A i \in 1 .. count : g[i] = AddStatus(g[i - 1], Collected(ps, i - 1))
  <2>1. /\ g \in [0 .. count -> S] /\ g[0] = <<>>
        /\ \A i \in 1 .. count : g[i] = step[<<g[i - 1], i>>]
    BY <1>6 DEF IsRun
  <2> QED
    BY <1>3, <1>4, <2>1
<1>8. g = Body(g)
  <2>1. \A i \in 0 .. count : i # 0 => i \in 1 .. count
    OBVIOUS
  <2> QED
    BY <1>7, <2>1
<1>9. m = Body(m)
  <2> HIDE DEF Body
  <2> QED
    BY <1>8
<1> HIDE DEF m
<1>10. m[0] = <<>> /\ \A i \in 1 .. count : m[i] = AddStatus(m[i - 1], Collected(ps, i - 1))
  BY <1>4, <1>9
<1> QED
  BY <1>5, <1>10

LEMMA ChunksCover ==
  ASSUME NEW ps, NEW count \in Nat
  PROVE  \E e : Cover(Chunks(ps, count), e, ps, count)
<1>1. PICK g : /\ Chunks(ps, count) = g[count]
               /\ g[0] = <<>>
               /\ \A i \in 1 .. count : g[i] = AddStatus(g[i - 1], Collected(ps, i - 1))
  BY ChunksLoop
<1> DEFINE Good(i) == \E e : Cover(g[i], e, ps, i)
           T == {i \in 0 .. count : Good(i)}
<1>2. 0 \in T
  <2> DEFINE e == [j \in 0 .. 0 |-> 0]
  <2>1. <<>> \in Seq(Chunk) /\ Len(<<>>) = 0
    BY EmptySeq
  <2>2. Cover(<<>>, e, ps, 0)
    BY <2>1 DEF Cover
  <2> HIDE DEF e
  <2>3. Good(0)
    BY <1>1, <2>2
  <2> HIDE DEF Good
  <2> QED
    BY <2>3
<1>3. ASSUME NEW i \in 1 .. count, i - 1 \in T
      PROVE  i \in T
  <2>1. PICK e : Cover(g[i - 1], e, ps, i - 1)
    BY <1>3
  <2>2. i - 1 \in Nat /\ (i - 1) + 1 = i /\ i \in 0 .. count
    OBVIOUS
  <2>3. \E e2 : Cover(AddStatus(g[i - 1], Collected(ps, i - 1)), e2, ps, (i - 1) + 1)
    <3> HIDE DEF T
    <3> QED
      BY <2>1, <2>2, CoverGrows
  <2>4. Good(i)
    BY <1>1, <2>2, <2>3
  <2> HIDE DEF Good
  <2> QED
    BY <2>2, <2>4
<1>4. count \in T
  <2>1. 0 .. count \subseteq T
    <3> HIDE DEF T
    <3> QED
      BY <1>2, <1>3, LoopInvariant
  <2> HIDE DEF T
  <2> QED
    BY <2>1
<1> QED
  BY <1>1, <1>4

-----------------------------------------------------------------------------
(* Reading a feedback *)

(* The loop over the chunks of a feedback. *)
LEMMA CountsLoop ==
  ASSUME NEW f, f.chunks \in Seq(Chunk), f.count \in Nat
  PROVE  \E g : /\ Counts(f) = g[Len(f.chunks)]
               /\ g[0] = [expected |-> 0, lost |-> 0]
               /\ \A k \in 1 .. Len(f.chunks) :
                     g[k] = AddChunk(g[k - 1], f.chunks[k], f.count)
<1> DEFINE c == Len(f.chunks)
           S == [expected : Int, lost : Int]
           start == [expected |-> 0, lost |-> 0]
           step == [x \in S \X (1 .. c) |-> AddChunk(x[1], f.chunks[x[2]], f.count)]
           Body(h) == [k \in 0 .. c |-> IF k = 0 THEN [expected |-> 0, lost |-> 0]
                                        ELSE AddChunk(h[k - 1], f.chunks[k], f.count)]
           m == CHOOSE h : h = Body(h)
<1>1. c \in Nat /\ \A k \in 1 .. c : f.chunks[k] \in Chunk
  BY LenProperties, ElementOfSeq
<1>2. \A t \in S, k \in 1 .. c : AddChunk(t, f.chunks[k], f.count) \in S
  <2> TAKE t \in S, k \in 1 .. c
  <2> DEFINE chunk == f.chunks[k]
             left == f.count - t.expected
             n == IF chunk.run < left THEN chunk.run ELSE left
  <2>1. chunk.run \in Int /\ left \in Int /\ t.expected \in Int /\ t.lost \in Int
    BY <1>1 DEF Chunk
  <2>2. n \in Int
    BY <2>1
  <2>3. AddChunk(t, chunk, f.count) =
          [expected |-> t.expected + n, lost |-> t.lost + IF chunk.received THEN 0 ELSE n]
    BY DEF AddChunk
  <2> HIDE DEF n, chunk, c
  <2> QED
    BY <2>1, <2>2, <2>3 DEF chunk
<1>3. step \in [S \X (1 .. c) -> S] /\ start \in S
  <2>1. start \in S
    OBVIOUS
  <2> HIDE DEF S, c, start
  <2> QED
    BY <1>2, <2>1
<1>4. \A t \in S, k \in 1 .. c : step[<<t, k>>] = AddChunk(t, f.chunks[k], f.count)
  <2> HIDE DEF S, c
  <2> QED
    OBVIOUS
<1>5. 0 \in 0 .. c /\ \A k \in 1 .. c : k \in 0 .. c /\ k - 1 \in 0 .. c /\ k # 0
  BY <1>1
<1>6. Counts(f) = m[c]
  BY DEF Counts
<1> HIDE DEF step, S, c
<1>7. PICK g : IsRun(g, c, S, start, step)
  <2> HIDE DEF start
  <2> QED
    BY <1>1, <1>3, LoopRuns
<1>8. /\ g \in [0 .. c -> S] /\ g[0] = start
      /\ \A k \in 1 .. c : g[k] = AddChunk(g[k - 1], f.chunks[k], f.count)
  <2>1. /\ g \in [0 .. c -> S] /\ g[0] = start
        /\ \A k \in 1 .. c : g[k] = step[<<g[k - 1], k>>]
    BY <1>7 DEF IsRun
  <2> QED
    BY <1>4, <1>5, <2>1
<1>9. g = Body(g)
  <2>1. \A k \in 0 .. c : k # 0 => k \in 1 .. c
    BY <1>1
  <2> QED
    BY <1>8, <2>1
<1>10. m = Body(m)
  <2> HIDE DEF Body
  <2> QED
    BY <1>9
<1> HIDE DEF m
<1>11. /\ m[0] = [expected |-> 0, lost |-> 0]
       /\ \A k \in 1 .. c : m[k] = AddChunk(m[k - 1], f.chunks[k], f.count)
  BY <1>5, <1>10
<1> QED
  BY <1>6, <1>11 DEF c

(* How many of the y packets from b on are not in R. *)
Absent(b, y, R) == Cardinality((b .. b + y - 1) \ R)

AllIn(b, x, y, R) == \A i \in x .. y - 1 : b + i \in R
NoneIn(b, x, y, R) == \A i \in x .. y - 1 : b + i \notin R

(* The packets from b + x up to b + y add none or all of them.              *)
LEMMA AbsentGrows ==
  ASSUME NEW b \in Int, NEW x \in Nat, NEW y \in Nat, x <= y, NEW R
  PROVE  /\ Absent(b, x, R) \in Nat
         /\ AllIn(b, x, y, R) => Absent(b, y, R) = Absent(b, x, R)
         /\ NoneIn(b, x, y, R) => Absent(b, y, R) = Absent(b, x, R) + (y - x)
<1> DEFINE A == (b .. b + x - 1) \ R
           B == b + x .. b + y - 1
           C == (b .. b + y - 1) \ R
<1>1. b .. b + y - 1 = (b .. b + x - 1) \cup B
  OBVIOUS
<1>2. \A n \in B : n - b \in x .. y - 1 /\ b + (n - b) = n
  OBVIOUS
<1>3. IsFiniteSet(A) /\ Cardinality(A) \in Nat
  <2>1. b + x - 1 \in Int
    OBVIOUS
  <2>2. IsFiniteSet(b .. b + x - 1)
    BY <2>1, FS_Interval
  <2>3. IsFiniteSet(A)
    BY <2>2, FS_Difference
  <2> QED
    BY <2>3, FS_CardinalityType
<1>4. ASSUME AllIn(b, x, y, R)
      PROVE  C = A
  <2>1. \A n \in B : n \in R
    BY <1>2, <1>4 DEF AllIn
  <2> HIDE DEF B
  <2> QED
    BY <1>1, <2>1
<1>5. ASSUME NoneIn(b, x, y, R)
      PROVE  Cardinality(C) = Cardinality(A) + (y - x)
  <2>1. \A n \in B : n \notin R
    BY <1>2, <1>5 DEF NoneIn
  <2>2. C = A \cup B
    <3> HIDE DEF B
    <3> QED
      BY <1>1, <2>1
  <2>3. A \cap B = {}
    OBVIOUS
  <2>4. IsFiniteSet(B) /\ Cardinality(B) = y - x
    <3> DEFINE u == b + x
               v == b + y - 1
    <3>1. u \in Int /\ v \in Int /\ (IF u > v THEN 0 ELSE v - u + 1) = y - x
      OBVIOUS
    <3> HIDE DEF u, v
    <3>2. IsFiniteSet(u .. v) /\ Cardinality(u .. v) = y - x
      BY <3>1, FS_Interval
    <3> QED
      BY <3>2 DEF u, v
  <2> HIDE DEF A, B, C
  <2>5. Cardinality(C) = Cardinality(A) + Cardinality(B) - Cardinality(A \cap B)
    BY <1>3, <2>2, <2>4, FS_Union
  <2>6. Cardinality(A \cap B) = 0
    BY <2>3, FS_EmptySet
  <2> QED
    BY <1>3, <2>4, <2>5, <2>6
<1>6. Absent(b, x, R) = Cardinality(A) /\ Absent(b, y, R) = Cardinality(C)
  BY DEF Absent
<1> HIDE DEF A, C
<1> QED
  BY <1>3, <1>4, <1>5, <1>6

(* Reading chunks that cover the packets from b on: all of them are         *)
(* expected, and those not in R are lost.                                   *)
LEMMA ReadingCounts ==
  ASSUME NEW f, NEW e, NEW ps, NEW b \in Int, NEW R, f.count \in Nat,
         Cover(f.chunks, e, ps, f.count),
         \A i \in 0 .. f.count - 1 : Collected(ps, i) <=> b + i \in R
  PROVE  Counts(f) = [expected |-> f.count,
                      lost |-> Absent(b, f.count, R)]
<1> DEFINE c == Len(f.chunks)
           Read(k) == [expected |-> e[k], lost |-> Absent(b, e[k], R)]
<1>1. /\ f.chunks \in Seq(Chunk)
      /\ e \in [0 .. c -> 0 .. f.count] /\ e[0] = 0 /\ e[c] = f.count
      /\ \A j \in 1 .. c : e[j] = e[j - 1] + f.chunks[j].run
      /\ \A j \in 1 .. c : \A i \in e[j - 1] .. e[j] - 1 :
             f.chunks[j].received <=> Collected(ps, i)
  BY DEF Cover
<1>2. c \in Nat /\ \A j \in 1 .. c : f.chunks[j] \in Chunk
  BY <1>1, LenProperties, ElementOfSeq
<1>3. PICK g : /\ Counts(f) = g[c]
               /\ g[0] = [expected |-> 0, lost |-> 0]
               /\ \A k \in 1 .. c : g[k] = AddChunk(g[k - 1], f.chunks[k], f.count)
  BY <1>1, CountsLoop
<1> DEFINE T == {k \in 0 .. c : g[k] = Read(k)}
<1>4. 0 \in T
  <2>1. (b .. b + 0 - 1) \ R = {}
    OBVIOUS
  <2>2. Absent(b, 0, R) = 0
    BY <2>1, FS_EmptySet DEF Absent
  <2>3. 0 \in 0 .. c
    BY <1>2
  <2> QED
    BY <1>1, <1>3, <2>2, <2>3
<1>5. ASSUME NEW k \in 1 .. c, k - 1 \in T
      PROVE  k \in T
  <2> DEFINE x == e[k - 1]
             run == f.chunks[k].run
             received == f.chunks[k].received
             lost == Absent(b, x, R)
  <2>1. k \in 0 .. c /\ k - 1 \in 0 .. c
    BY <1>2
  <2>2. run \in Nat /\ received \in BOOLEAN
    BY <1>2 DEF Chunk
  <2>3. x \in Nat /\ e[k] = x + run /\ x + run <= f.count
    <3>1. e[k - 1] \in 0 .. f.count /\ e[k] \in 0 .. f.count
      BY <1>1, <2>1
    <3> HIDE DEF run
    <3> QED
      BY <1>1, <2>2, <3>1 DEF run
  <2>4. \A i \in x .. e[k] - 1 : received <=> b + i \in R
    <3> TAKE i \in x .. e[k] - 1
    <3>1. received <=> Collected(ps, i)
      BY <1>1
    <3> HIDE DEF x, run, received
    <3>2. i \in 0 .. f.count - 1
      BY <2>2, <2>3
    <3> QED
      BY <3>1, <3>2
  <2>5. g[k - 1] = [expected |-> x, lost |-> lost]
    BY <1>5
  <2>6. Absent(b, e[k], R) = lost + IF received THEN 0 ELSE run
    <3>1. /\ lost \in Nat
          /\ AllIn(b, x, e[k], R) => Absent(b, e[k], R) = lost
          /\ NoneIn(b, x, e[k], R) => Absent(b, e[k], R) = lost + (e[k] - x)
      <4>1. x \in Nat /\ e[k] \in Nat /\ x <= e[k]
        <5> HIDE DEF x, run
        <5> QED
          BY <2>2, <2>3
      <4> HIDE DEF x
      <4> QED
        BY <4>1, AbsentGrows
    <3>2. received => Absent(b, e[k], R) = lost
      BY <2>4, <3>1 DEF AllIn
    <3>3. ~ received => Absent(b, e[k], R) = lost + (e[k] - x)
      BY <2>4, <3>1 DEF NoneIn
    <3> HIDE DEF lost, x, run, received
    <3>4. e[k] - x = run
      BY <2>2, <2>3
    <3> QED
      BY <3>1, <3>2, <3>3, <3>4
  <2> DEFINE left == f.count - g[k - 1].expected
             n == IF run < left THEN run ELSE left
  <2>7. left = f.count - x
    BY <2>5
  <2>8. g[k] = [expected |-> g[k - 1].expected + n,
                lost |-> g[k - 1].lost + IF received THEN 0 ELSE n]
    BY <1>3 DEF AddChunk
  <2>9. n = run
    <3> HIDE DEF x, run, left
    <3> QED
      BY <2>2, <2>3, <2>7
  <2> HIDE DEF x, run, received, lost, n
  <2>10. g[k] = [expected |-> x + run, lost |-> lost + IF received THEN 0 ELSE run]
    BY <2>5, <2>8, <2>9
  <2>11. g[k] = Read(k)
    BY <2>3, <2>6, <2>10
  <2> QED
    BY <2>1, <2>11
<1>6. c \in T
  <2>1. 0 .. c \subseteq T
    <3> HIDE DEF T, c
    <3> QED
      BY <1>2, <1>4, <1>5, LoopInvariant
  <2> HIDE DEF T, c
  <2> QED
    BY <1>2, <2>1
<1> QED
  BY <1>1, <1>3, <1>6

-----------------------------------------------------------------------------
(* The truth about a window *)

LEMMA AbsentBound ==
  ASSUME NEW b \in Int, NEW y \in Nat, NEW R
  PROVE  Absent(b, y, R) \in 0 .. y
<1> DEFINE v == b + y - 1
           A == b .. v
<1>1. v \in Int /\ (IF b > v THEN 0 ELSE v - b + 1) = y
  OBVIOUS
<1> HIDE DEF v
<1>2. IsFiniteSet(A) /\ Cardinality(A) = y
  BY <1>1, FS_Interval
<1> HIDE DEF A
<1>3. IsFiniteSet(A \ R) /\ Cardinality(A \ R) <= Cardinality(A)
  <2>1. A \ R \in SUBSET A
    OBVIOUS
  <2> QED
    BY <1>2, <2>1, FS_Subset
<1>4. Cardinality(A \ R) \in Nat
  BY <1>3, FS_CardinalityType
<1> QED
  BY <1>2, <1>3, <1>4 DEF Absent, A, v

LEMMA TruthOfWindow ==
  ASSUME NEW ps, Window(ps), ps # <<>>, sent \in 0 .. MaxPackets,
         NEW q, NewestOf(ps, Len(ps), q)
  PROVE  Truth(ps) = [expected |-> q - ps[1] + 1,
                      lost |-> Absent(ps[1], q - ps[1] + 1, Range(ps))]
<1> DEFINE b == ps[1]
           R == Range(ps)
           span == {n \in Packets : b <= n /\ \E p \in R : n <= p}
           y == q - b + 1
<1>1. sent \in Nat /\ MaxPackets \in Nat /\ sent <= MaxPackets
  BY FeedbackTypes
<1>2. /\ q \in R /\ b \in R /\ b <= q /\ R \subseteq 1 .. sent
      /\ b \in Int /\ q \in Int
  BY <1>1, WindowElements DEF NewestOf
<1>3. \A p \in R : p <= q
  BY <1>1, WindowElements DEF NewestOf
<1>4. Truth(ps) = [expected |-> Cardinality(span), lost |-> Cardinality(span \ R)]
  BY DEF Truth
<1> HIDE DEF b, R
<1>5. span = b .. b + y - 1
  <2>1. b .. b + y - 1 = b .. q
    BY <1>2
  <2>2. span = b .. q
    BY <1>1, <1>2, <1>3 DEF Packets
  <2> QED
    BY <2>1, <2>2
<1>6. Cardinality(b .. b + y - 1) = y
  <2>1. Cardinality(b .. q) = IF b > q THEN 0 ELSE q - b + 1
    BY <1>2, FS_Interval
  <2>2. b .. b + y - 1 = b .. q
    BY <1>2
  <2> QED
    BY <1>2, <2>1, <2>2
<1>7. Cardinality(span \ R) = Absent(b, y, R)
  BY <1>5 DEF Absent
<1> HIDE DEF span, y
<1> QED
  BY <1>4, <1>5, <1>6, <1>7 DEF b, R, y

(* What is read from the feedback about a window is the truth about it.     *)
LEMMA FeedbackTells ==
  ASSUME NEW ps, Window(ps), ps # <<>>, sent \in 0 .. MaxPackets
  PROVE  /\ StatusCount(ps) \in Nat \ {0}
         /\ Number(ps[1]) \in 0 .. Modulus - 1
         /\ LET c == Counts(Feedback(ps, StatusCount(ps)))
            IN /\ c = Truth(ps)
               /\ c = [expected |-> StatusCount(ps), lost |-> c.lost]
               /\ c.lost \in 0 .. StatusCount(ps)
<1> DEFINE b == ps[1]
           R == Range(ps)
           y == StatusCount(ps)
           f == Feedback(ps, y)
<1>1. sent \in Nat
  BY FeedbackTypes
<1>2. PICK q : NewestOf(ps, Len(ps), q) /\ NewestNumber(ps) = Number(q)
  BY <1>1, NewestIsNewest
<1>3. y = q - b + 1 /\ q \in Int /\ b \in Int /\ b <= q
  BY <1>1, <1>2, StatusCountIsSpan
<1>4. y \in Nat \ {0} /\ 0 .. y - 1 = 0 .. q - b
  <2> HIDE DEF b, y
  <2> QED
    BY <1>3
<1>5. \A i \in 0 .. y - 1 : Collected(ps, i) <=> b + i \in R
  BY <1>1, <1>2, <1>4, CollectedIs
<1>6. f.count = y /\ f.chunks = Chunks(ps, y)
  BY DEF Feedback
<1>7. Number(b) \in 0 .. Modulus - 1
  BY <1>3, NumberType
<1> HIDE DEF b, y, f, R
<1>8. PICK e : Cover(f.chunks, e, ps, f.count)
  BY <1>4, <1>6, ChunksCover
<1>9. Counts(f) = [expected |-> y, lost |-> Absent(b, y, R)]
  BY <1>3, <1>4, <1>5, <1>6, <1>8, ReadingCounts
<1>10. Absent(b, y, R) \in 0 .. y
  BY <1>3, <1>4, AbsentBound
<1>11. Truth(ps) = [expected |-> y, lost |-> Absent(b, y, R)]
  BY <1>2, <1>3, TruthOfWindow DEF b, R
<1> QED
  BY <1>4, <1>7, <1>9, <1>10, <1>11 DEF b, y, f

-----------------------------------------------------------------------------
(* The invariant *)

(* Packets whose numbers can still be told apart. *)
InPlay == {q \in 1 .. sent : sent - q < Reach}

PendingInv == pending \in Seq(InPlay) /\ Len(pending) <= MaxPending

(* A feedback under way is about a window, and not too long. *)
WireInv ==
    wire # NoFeedback =>
        /\ Window(wire.about) /\ wire.about # <<>>
        /\ wire = Feedback(wire.about, StatusCount(wire.about))
        /\ StatusCount(wire.about) <= MaxStatuses

(* A report still fresh is about some packets, of which no more are lost.   *)
RemoteInv ==
    /\ remote \in [expected : Nat, lost : Nat, age : 0 .. Fresh]
    /\ remote.lost <= remote.expected
    /\ remote.age < Fresh => remote.expected > 0

FeedbackInv ==
    /\ sent \in 0 .. MaxPackets
    /\ due \in BOOLEAN
    /\ PendingInv
    /\ WireInv
    /\ RemoteInv

LEMMA SeqWithin ==
  ASSUME NEW S, NEW T, NEW s \in Seq(S), Range(s) \subseteq T
  PROVE  s \in Seq(T)
<1>1. /\ Len(s) \in Nat /\ DOMAIN s = 1 .. Len(s) /\ s \in [1 .. Len(s) -> S]
  BY LenProperties
<1>2. \A i \in 1 .. Len(s) : s[i] \in T
  BY <1>1 DEF Range
<1>3. s \in [1 .. Len(s) -> T]
  BY <1>1, <1>2
<1> QED
  BY <1>1, <1>3, IsASeq

LEMMA InPlayWindow ==
  ASSUME NEW ps \in Seq(InPlay), sent \in 0 .. MaxPackets
  PROVE  Window(ps)
<1>1. sent \in Nat
  BY FeedbackTypes
<1>2. DOMAIN ps = 1 .. Len(ps) /\ \A i \in 1 .. Len(ps) : ps[i] \in InPlay
  BY LenProperties, ElementOfSeq
<1>3. Range(ps) \subseteq InPlay
  BY <1>2 DEF Range
<1>4. \A p, q \in InPlay : p - q < Reach
  BY <1>1, FeedbackTypes DEF InPlay
<1>5. ps \in Seq(1 .. sent)
  <2>1. Range(ps) \subseteq 1 .. sent
    BY <1>3 DEF InPlay
  <2> QED
    BY <2>1, SeqWithin
<1> QED
  BY <1>3, <1>4, <1>5 DEF Window

LEMMA CollectInPlay ==
  ASSUME sent \in Nat, PendingInv, NEW p \in 1 .. sent, sent - p < Reach
  PROVE  Collect(p) \in Seq(InPlay) /\ Len(Collect(p)) <= MaxPending
<1> DEFINE all == Append(pending, p)
<1>1. p \in InPlay /\ pending \in Seq(InPlay) /\ Len(pending) <= MaxPending
  BY DEF InPlay, PendingInv
<1>2. all \in Seq(InPlay) /\ Len(all) = Len(pending) + 1 /\ Len(pending) \in Nat
  BY <1>1, AppendProperties, LenProperties
<1>3. Collect(p) = IF Len(all) > MaxPending THEN Tail(all) ELSE all
  BY DEF Collect
<1> HIDE DEF all
<1>4. all # <<>>
  BY <1>2, EmptySeq
<1>5. Tail(all) \in Seq(InPlay) /\ Len(Tail(all)) = Len(all) - 1
  BY <1>2, <1>4, HeadTailProperties
<1> QED
  BY <1>1, <1>2, <1>3, <1>5, FeedbackTypes

(* What maybe_send_twcc_feedback leaves, when the samples are in play.      *)
LEMMA MaybeSendInv ==
  ASSUME FeedbackInv, NEW ps \in Seq(InPlay), Len(ps) <= MaxPending,
         MaybeSend(ps), UNCHANGED <<sent, remote>>
  PROVE  FeedbackInv'
<1>1. /\ sent \in 0 .. MaxPackets /\ due \in BOOLEAN /\ WireInv /\ RemoteInv
      /\ sent' = sent /\ remote' = remote
  BY DEF FeedbackInv
<1>2. InPlay' = InPlay /\ \A s : Window(s)' <=> Window(s)
  BY <1>1 DEF InPlay, Window
<1>3. RemoteInv'
  BY <1>1 DEF RemoteInv
<1>4. CASE due /\ ps # <<>>
  <2> DEFINE count == StatusCount(ps)
  <2>1. /\ pending' = <<>> /\ due' = FALSE
        /\ wire' = IF count <= MaxStatuses THEN Feedback(ps, count) ELSE wire
    BY <1>4 DEF MaybeSend
  <2>2. PendingInv'
    <3>1. <<>> \in Seq(InPlay) /\ Len(<<>>) = 0
      BY EmptySeq
    <3> QED
      BY <1>2, <2>1, <3>1, FeedbackTypes DEF PendingInv
  <2>3. CASE count <= MaxStatuses
    <3>1. Window(ps)
      BY <1>1, InPlayWindow
    <3>2. wire' = Feedback(ps, count) /\ wire'.about = ps
      BY <2>1, <2>3 DEF Feedback
    <3>3. WireInv'
      <4>1. Window(wire.about)'
        BY <1>1, <3>1, <3>2 DEF Window
      <4>2. wire' = Feedback(wire'.about, StatusCount(wire'.about))
        BY <3>2
      <4>3. StatusCount(wire'.about) <= MaxStatuses /\ wire'.about # <<>>
        BY <1>4, <2>3, <3>2
      <4> QED
        BY <4>1, <4>2, <4>3 DEF WireInv
    <3> QED
      BY <1>1, <1>3, <2>1, <2>2, <3>3 DEF FeedbackInv
  <2>4. CASE ~ (count <= MaxStatuses)
    <3>1. wire' = wire
      BY <2>1, <2>4
    <3>2. WireInv'
      BY <1>1, <3>1 DEF WireInv, Window
    <3> QED
      BY <1>1, <1>3, <2>1, <2>2, <3>2 DEF FeedbackInv
  <2> QED
    BY <2>3, <2>4
<1>5. CASE ~ (due /\ ps # <<>>)
  <2>1. pending' = ps /\ due' = due /\ wire' = wire
    BY <1>5 DEF MaybeSend
  <2>2. PendingInv'
    BY <1>2, <2>1 DEF PendingInv
  <2>3. WireInv'
    BY <1>1, <2>1 DEF WireInv, Window
  <2> QED
    BY <1>1, <1>3, <2>1, <2>2, <2>3 DEF FeedbackInv
<1> QED
  BY <1>4, <1>5

LEMMA InvInit == Init => FeedbackInv
<1> SUFFICES ASSUME Init
             PROVE  FeedbackInv
  OBVIOUS
<1>1. /\ sent = 0 /\ pending = <<>> /\ due = TRUE /\ wire = NoFeedback
      /\ remote = [expected |-> 0, lost |-> 0, age |-> Fresh]
  BY DEF Init, NoReport
<1>2. PendingInv
  <2>1. <<>> \in Seq(InPlay) /\ Len(<<>>) = 0
    BY EmptySeq
  <2> QED
    BY <1>1, <2>1, FeedbackTypes DEF PendingInv
<1>3. WireInv
  BY <1>1 DEF WireInv
<1>4. RemoteInv
  BY <1>1, FeedbackTypes DEF RemoteInv
<1> QED
  BY <1>1, <1>2, <1>3, <1>4, FeedbackTypes DEF FeedbackInv

LEMMA SendInv == FeedbackInv /\ Send => FeedbackInv'
<1> SUFFICES ASSUME FeedbackInv, Send
             PROVE  FeedbackInv'
  OBVIOUS
<1>1. /\ sent < MaxPackets /\ sent' = sent + 1
      /\ \A q \in Range(pending) : sent + 1 - q < Reach
      /\ UNCHANGED <<pending, due, wire, remote>>
  BY DEF Send
<1>2. sent \in 0 .. MaxPackets /\ sent' \in 0 .. MaxPackets /\ MaxPackets \in Nat
  BY <1>1, FeedbackTypes DEF FeedbackInv
<1>3. 1 .. sent \subseteq 1 .. sent'
  BY <1>1, <1>2
<1>4. PendingInv'
  <2>1. pending \in Seq(InPlay) /\ Len(pending) <= MaxPending
    BY DEF FeedbackInv, PendingInv
  <2>2. Range(pending) \subseteq InPlay
    <3>1. DOMAIN pending = 1 .. Len(pending) /\ \A i \in 1 .. Len(pending) : pending[i] \in InPlay
      BY <2>1, LenProperties, ElementOfSeq
    <3> QED
      BY <3>1 DEF Range
  <2>3. Range(pending) \subseteq InPlay'
    <3> SUFFICES ASSUME NEW q \in Range(pending)
                 PROVE  q \in 1 .. sent' /\ sent' - q < Reach
      BY DEF InPlay
    <3>1. q \in 1 .. sent
      BY <2>2 DEF InPlay
    <3>2. sent + 1 - q < Reach
      BY <1>1
    <3> QED
      BY <1>1, <1>2, <3>1, <3>2
  <2>4. pending \in Seq(InPlay')
    BY <2>1, <2>3, SeqWithin
  <2> QED
    BY <1>1, <2>1, <2>4 DEF PendingInv
<1>5. WireInv'
  <2> SUFFICES ASSUME wire # NoFeedback
               PROVE  Window(wire.about)'
    BY <1>1 DEF FeedbackInv, WireInv
  <2>1. wire' = wire /\ Window(wire.about)
    BY <1>1 DEF FeedbackInv, WireInv
  <2>2. wire.about \in Seq(1 .. sent) /\ \A p, q \in Range(wire.about) : p - q < Reach
    BY <2>1 DEF Window
  <2>3. wire.about \in Seq(1 .. sent')
    <3>1. Range(wire.about) \subseteq 1 .. sent
      <4>1. /\ DOMAIN wire.about = 1 .. Len(wire.about)
            /\ \A i \in 1 .. Len(wire.about) : wire.about[i] \in 1 .. sent
        BY <2>2, LenProperties, ElementOfSeq
      <4> QED
        BY <4>1 DEF Range
    <3> QED
      BY <1>3, <2>2, <3>1, SeqWithin
  <2> QED
    BY <2>1, <2>2, <2>3 DEF Window
<1>6. RemoteInv'
  BY <1>1 DEF FeedbackInv, RemoteInv
<1> QED
  BY <1>1, <1>2, <1>4, <1>5, <1>6 DEF FeedbackInv

LEMMA ReceiveInv ==
  ASSUME FeedbackInv, NEW p \in 1 .. sent, Receive(p)
  PROVE  FeedbackInv'
<1>1. sent - p < Reach /\ MaybeSend(Collect(p)) /\ UNCHANGED <<sent, remote>>
  BY DEF Receive
<1>2. sent \in Nat /\ PendingInv
  BY FeedbackTypes DEF FeedbackInv
<1>3. Collect(p) \in Seq(InPlay) /\ Len(Collect(p)) <= MaxPending
  BY <1>1, <1>2, CollectInPlay
<1> QED
  BY <1>1, <1>3, MaybeSendInv

LEMMA ReceiveControlInv == FeedbackInv /\ ReceiveControl => FeedbackInv'
<1> SUFFICES ASSUME FeedbackInv, ReceiveControl
             PROVE  FeedbackInv'
  OBVIOUS
<1>1. MaybeSend(pending) /\ UNCHANGED <<sent, remote>>
  BY DEF ReceiveControl
<1>2. pending \in Seq(InPlay) /\ Len(pending) <= MaxPending
  BY DEF FeedbackInv, PendingInv
<1> QED
  BY <1>1, <1>2, MaybeSendInv

(* A report is taken from a feedback that tells of some packets.            *)
LEMMA ReceiveFeedbackInv == FeedbackInv /\ ReceiveFeedback => FeedbackInv'
<1> SUFFICES ASSUME FeedbackInv, ReceiveFeedback
             PROVE  FeedbackInv'
  OBVIOUS
<1> DEFINE ps == wire.about
           y == StatusCount(ps)
           c == Counts(wire)
<1>1. /\ wire # NoFeedback /\ wire' = NoFeedback
      /\ remote' = IF c.expected > 0
                   THEN [expected |-> c.expected,
                         lost |-> IF c.lost < c.expected THEN c.lost ELSE c.expected,
                         age |-> 0]
                   ELSE remote
      /\ UNCHANGED <<sent, pending, due>>
  BY DEF ReceiveFeedback, OnTransportLossReport
<1>2. /\ sent \in 0 .. MaxPackets /\ Window(ps) /\ ps # <<>> /\ wire = Feedback(ps, y)
  BY <1>1 DEF FeedbackInv, WireInv
<1>3. y \in Nat \ {0} /\ c.expected = y /\ c.lost \in 0 .. y
  BY <1>2, FeedbackTells
<1> HIDE DEF c, y
<1>4. remote' = [expected |-> y, lost |-> IF c.lost < y THEN c.lost ELSE y, age |-> 0]
  BY <1>1, <1>3
<1>5. RemoteInv'
  <2> DEFINE l == IF c.lost < y THEN c.lost ELSE y
  <2>1. l \in Nat /\ l <= y /\ y > 0 /\ y \in Nat /\ 0 \in 0 .. Fresh
    BY <1>3, FeedbackTypes
  <2>2. remote' = [expected |-> y, lost |-> l, age |-> 0]
    BY <1>4
  <2> HIDE DEF l
  <2> QED
    BY <2>1, <2>2 DEF RemoteInv
<1>6. PendingInv' /\ WireInv'
  BY <1>1 DEF FeedbackInv, PendingInv, WireInv, InPlay
<1> QED
  BY <1>1, <1>5, <1>6 DEF FeedbackInv

LEMMA LoseFeedbackInv == FeedbackInv /\ LoseFeedback => FeedbackInv'
BY DEF FeedbackInv, LoseFeedback, PendingInv, WireInv, RemoteInv, InPlay

LEMMA TickInv == FeedbackInv /\ Tick => FeedbackInv'
<1> SUFFICES ASSUME FeedbackInv, Tick
             PROVE  FeedbackInv'
  OBVIOUS
<1>1. /\ due' = TRUE /\ UNCHANGED <<sent, pending, wire>>
      /\ remote' = IF remote.age + 1 < Fresh
                   THEN [expected |-> remote.expected, lost |-> remote.lost,
                         age |-> remote.age + 1]
                   ELSE [expected |-> 0, lost |-> 0, age |-> Fresh]
  BY DEF Tick, NoReport
<1>2. RemoteInv
  BY DEF FeedbackInv
<1>3. RemoteInv'
  <2>1. CASE remote.age + 1 < Fresh
    <3>1. remote' = [expected |-> remote.expected, lost |-> remote.lost,
                     age |-> remote.age + 1]
      BY <1>1, <2>1
    <3>2. /\ remote.age + 1 \in 0 .. Fresh /\ remote.age < Fresh
          /\ remote.expected \in Nat /\ remote.lost \in Nat
      BY <1>2, <2>1, FeedbackTypes DEF RemoteInv
    <3> QED
      BY <1>2, <3>1, <3>2 DEF RemoteInv
  <2>2. CASE ~ (remote.age + 1 < Fresh)
    <3>1. remote' = [expected |-> 0, lost |-> 0, age |-> Fresh]
      BY <1>1, <2>2
    <3> QED
      BY <3>1, FeedbackTypes DEF RemoteInv
  <2> QED
    BY <2>1, <2>2
<1>4. PendingInv' /\ WireInv'
  BY <1>1 DEF FeedbackInv, PendingInv, WireInv, InPlay, Window
<1> QED
  BY <1>1, <1>3, <1>4 DEF FeedbackInv

LEMMA InvStep == FeedbackInv /\ [Next]_vars => FeedbackInv'
<1> SUFFICES ASSUME FeedbackInv, [Next]_vars
             PROVE  FeedbackInv'
  OBVIOUS
<1>1. CASE Send
  BY <1>1, SendInv
<1>2. CASE \E p \in 1 .. sent : Receive(p)
  BY <1>2, ReceiveInv
<1>3. CASE ReceiveControl
  BY <1>3, ReceiveControlInv
<1>4. CASE ReceiveFeedback
  BY <1>4, ReceiveFeedbackInv
<1>5. CASE LoseFeedback
  BY <1>5, LoseFeedbackInv
<1>6. CASE Tick
  BY <1>6, TickInv
<1>7. CASE UNCHANGED vars
  BY <1>7 DEF vars, FeedbackInv, PendingInv, WireInv, RemoteInv, InPlay, Window
<1> QED
  BY <1>1, <1>2, <1>3, <1>4, <1>5, <1>6, <1>7 DEF Next

-----------------------------------------------------------------------------
(* What follows from it *)

LEMMA InvTypeOK == FeedbackInv => TypeOK
<1> SUFFICES ASSUME FeedbackInv
             PROVE  TypeOK
  OBVIOUS
<1>1. sent \in 0 .. MaxPackets /\ due \in BOOLEAN
  BY DEF FeedbackInv
<1>2. Range(pending) \subseteq 1 .. sent /\ Len(pending) <= MaxPending
  <2>1. pending \in Seq(InPlay) /\ Len(pending) <= MaxPending
    BY DEF FeedbackInv, PendingInv
  <2>2. DOMAIN pending = 1 .. Len(pending) /\ \A i \in 1 .. Len(pending) : pending[i] \in InPlay
    BY <2>1, LenProperties, ElementOfSeq
  <2> QED
    BY <2>1, <2>2 DEF Range, InPlay
<1>3. wire.base \in 0 .. Modulus - 1 /\ wire.count \in 0 .. MaxStatuses
  <2>1. CASE wire = NoFeedback
    BY <2>1, FeedbackTypes DEF NoFeedback
  <2>2. CASE wire # NoFeedback
    <3> DEFINE ps == wire.about
               y == StatusCount(ps)
    <3>1. Window(ps) /\ ps # <<>> /\ wire = Feedback(ps, y) /\ y <= MaxStatuses
      BY <2>2 DEF FeedbackInv, WireInv
    <3>2. y \in Nat \ {0} /\ Number(ps[1]) \in 0 .. Modulus - 1
      BY <1>1, <3>1, FeedbackTells
    <3>3. wire.base = Number(ps[1]) /\ wire.count = y
      BY <3>1 DEF Feedback
    <3> HIDE DEF ps, y
    <3> QED
      BY <3>1, <3>2, <3>3, FeedbackTypes
  <2> QED
    BY <2>1, <2>2
<1>4. remote.age \in 0 .. Fresh
  BY DEF FeedbackInv, RemoteInv
<1>5. TransportLoss \in 0 .. 100
  <2>1. CASE remote.age < Fresh
    <3> DEFINE n == remote.lost * 100
               d == remote.expected
    <3>1. n \in Nat /\ d \in Nat \ {0} /\ 0 * d <= n /\ n <= 100 * d
      BY <2>1 DEF FeedbackInv, RemoteInv
    <3> HIDE DEF n, d
    <3>2. n \div d \in Int /\ 0 <= n \div d /\ n \div d <= 100
      BY <3>1, DivBounds
    <3> QED
      BY <2>1, <3>2 DEF TransportLoss, n, d
  <2>2. CASE ~ (remote.age < Fresh)
    BY <2>2 DEF TransportLoss
  <2> QED
    BY <2>1, <2>2
<1> QED
  BY <1>1, <1>2, <1>3, <1>4, <1>5 DEF TypeOK

LEMMA InvReports == FeedbackInv => ReportsTheWindow
<1> SUFFICES ASSUME FeedbackInv, wire # NoFeedback
             PROVE  Counts(wire) = Truth(wire.about)
  BY DEF ReportsTheWindow
<1> DEFINE ps == wire.about
<1>1. /\ sent \in 0 .. MaxPackets /\ Window(ps) /\ ps # <<>>
      /\ wire = Feedback(ps, StatusCount(ps))
  BY DEF FeedbackInv, WireInv
<1>2. Counts(Feedback(ps, StatusCount(ps))) = Truth(ps)
  BY <1>1, FeedbackTells
<1> QED
  BY <1>1, <1>2

-----------------------------------------------------------------------------
(* The invariant holds in every reachable state. *)
THEOREM FeedbackInvariant == Spec => []FeedbackInv
<1> QED
  BY InvInit, InvStep, PTL DEF Spec

(* The samples kept are bounded, a feedback never carries too many          *)
(* statuses, and the loss given to the adaptation controller is a           *)
(* percentage: no report still fresh is of no packets.                      *)
THEOREM FeedbackTypeCorrect == Spec => []TypeOK
<1> QED
  BY FeedbackInvariant, InvTypeOK, PTL

(* What the sender counts in a feedback is how many packets there are from  *)
(* the first collected to the newest, and how many of them the receiver did *)
(* not collect.                                                             *)
THEOREM AlwaysReportsTheWindow == Spec => []ReportsTheWindow
<1> QED
  BY FeedbackInvariant, InvReports, PTL
=============================================================================
