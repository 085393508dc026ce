------------------------ MODULE RetransmissionProofs ------------------------
(***************************************************************************)
(* Proofs about Retransmission for every sequence of frames, first number, *)
(* modulus and width of a mask: what stands at a place of a frame is what  *)
(* was sent for it, and a NACK asks for exactly what is missing.           *)
(***************************************************************************)
EXTENDS Retransmission, FiniteSetTheorems, SequenceTheorems, Lemmas

-----------------------------------------------------------------------------
(* Packets *)

LEMMA FrameTypes ==
  /\ Len(Frames) \in Nat /\ FrameIds = 1 .. Len(Frames)
  /\ \A f \in FrameIds : /\ Frames[f] \in [epoch : Nat, key : BOOLEAN, count : Nat \ {0}]
                         /\ Frames[f].count \in Nat \ {0}
                         /\ Frames[f].count <= Modulus
  /\ Modulus \in Nat \ {0} /\ FirstNumber \in Int
<1>1. Frames \in Seq([epoch : Nat, key : BOOLEAN, count : Nat \ {0}])
  BY RetransmissionAssumption
<1>2. /\ Len(Frames) \in Nat /\ DOMAIN Frames = 1 .. Len(Frames)
      /\ \A f \in 1 .. Len(Frames) :
            Frames[f] \in [epoch : Nat, key : BOOLEAN, count : Nat \ {0}]
  BY <1>1, LenProperties, ElementOfSeq
<1> QED
  BY <1>2, RetransmissionAssumption DEF FrameIds, Numbers

LEMMA BeforeType ==
  ASSUME NEW f \in FrameIds
  PROVE  Before[f] \in Nat
<1> DEFINE Of(g) == {g} \X (0 .. Frames[g].count - 1)
           UpTo(k) == UNION {Of(g) : g \in 1 .. k}
           T == {k \in 0 .. f - 1 : IsFiniteSet(UpTo(k))}
<1>1. f \in 1 .. Len(Frames) /\ f - 1 \in Nat
  BY FrameTypes
<1>2. 0 \in T
  <2>1. UpTo(0) = {}
    OBVIOUS
  <2> QED
    BY <1>1, <2>1, FS_EmptySet
<1>3. ASSUME NEW k \in 1 .. f - 1, k - 1 \in T
      PROVE  k \in T
  <2>1. k \in FrameIds /\ Frames[k].count \in Nat
    BY <1>1, FrameTypes
  <2>2. IsFiniteSet(Of(k))
    <3> DEFINE c == Frames[k].count - 1
    <3>1. c \in Int /\ 0 \in Int
      BY <2>1
    <3> HIDE DEF c
    <3>2. IsFiniteSet(0 .. c)
      BY <3>1, FS_Interval
    <3>3. IsFiniteSet({k})
      BY FS_Singleton
    <3> QED
      BY <3>2, <3>3, FS_Product DEF c
  <2>3. UpTo(k) = UpTo(k - 1) \cup Of(k)
    <3>1. 1 .. k = (1 .. k - 1) \cup {k}
      BY <1>3
    <3> QED
      BY <3>1
  <2>4. IsFiniteSet(UpTo(k - 1))
    BY <1>3
  <2>5. IsFiniteSet(UpTo(k))
    <3> DEFINE A == UpTo(k - 1)
               B == Of(k)
    <3>1. IsFiniteSet(A) /\ IsFiniteSet(B) /\ UpTo(k) = A \cup B
      BY <2>2, <2>3, <2>4
    <3> HIDE DEF A, B
    <3>2. IsFiniteSet(A \cup B)
      BY <3>1, FS_Union
    <3> QED
      BY <3>1, <3>2
  <2> QED
    BY <1>1, <2>5
<1>4. f - 1 \in T
  <2> HIDE DEF T
  <2> QED
    BY <1>1, <1>2, <1>3, LoopInvariant
<1>5. Cardinality(UpTo(f - 1)) \in Nat
  BY <1>4, FS_CardinalityType
<1> QED
  BY <1>5 DEF Before

LEMMA NumberType ==
  ASSUME NEW n \in Nat
  PROVE  Number(n) \in Numbers
<1>1. FirstNumber + n \in Int
  BY FrameTypes
<1> QED
  BY <1>1, FrameTypes, WrapRange DEF Number, Numbers

(* A packet as it is sent: both handlers' extensions are in it. *)
LEMMA PacketFields ==
  ASSUME NEW f, NEW i
  PROVE  Packet(f, i) = [stream |-> "video", seq |-> Number(Before[f] + i),
                         ext |-> [twcc |-> Before[f] + i, frame |-> Metadata(f, i)],
                         payload |-> <<<<f, i>>>>]
BY DEF Packet, AddFrameMetadata, Packetized, TwccExtension

LEMMA PairOfValues ==
  ASSUME NEW x, NEW y
  PROVE  /\ <<x>> \o <<y>> = <<x, y>>
         /\ Head(<<x, y>>) = x
         /\ Tail(<<x, y>>) = <<y>>
<1> DEFINE S == {x, y}
<1>1. <<x>> \in Seq(S) /\ <<y>> \in Seq(S) /\ <<x, y>> \in Seq(S)
  OBVIOUS
<1>2. Len(<<x>>) = 1 /\ Len(<<y>>) = 1 /\ Len(<<x, y>>) = 2
  OBVIOUS
<1>3. <<x>> \o <<y>> = <<x, y>>
  <2>1. /\ <<x>> \o <<y>> \in Seq(S)
        /\ Len(<<x>> \o <<y>>) = 2
        /\ \A i \in 1 .. 2 :
              (<<x>> \o <<y>>)[i] = IF i <= 1 THEN <<x>>[i] ELSE <<y>>[i - 1]
    BY <1>1, <1>2, ConcatProperties
  <2>2. \A i \in 1 .. 2 : (<<x>> \o <<y>>)[i] = <<x, y>>[i]
    BY <2>1
  <2> QED
    BY <1>1, <1>2, <2>1, <2>2, SeqEqual
<1>4. Tail(<<x, y>>) = <<y>>
  <2>1. <<x, y>> # <<>>
    BY <1>2, EmptySeq
  <2>2. /\ Tail(<<x, y>>) \in Seq(S) /\ Len(Tail(<<x, y>>)) = 1
        /\ \A i \in 1 .. Len(Tail(<<x, y>>)) : Tail(<<x, y>>)[i] = <<x, y>>[i + 1]
    BY <1>1, <1>2, <2>1, HeadTailProperties
  <2>3. \A i \in 1 .. 1 : Tail(<<x, y>>)[i] = <<y>>[i]
    BY <2>2
  <2> QED
    BY <1>1, <1>2, <2>2, <2>3, SeqEqual
<1> QED
  BY <1>3, <1>4

(* A packet sent again comes out of the RTX packet as it was. *)
LEMMA RestoreRetransmitted ==
  ASSUME NEW f, NEW i
  PROVE  Restore(Retransmitted(Packet(f, i))) = Packet(f, i)
<1> DEFINE p == Packet(f, i)
           r == Retransmitted(p)
           n == Number(Before[f] + i)
           e == [twcc |-> Before[f] + i, frame |-> Metadata(f, i)]
           x == <<f, i>>
<1>1. p = [stream |-> "video", seq |-> n, ext |-> e, payload |-> <<x>>]
  BY PacketFields
<1>2. <<n>> \o <<x>> = <<n, x>> /\ Head(<<n, x>>) = n /\ Tail(<<n, x>>) = <<x>>
  BY PairOfValues
<1> HIDE DEF p, n, e, x
<1>3. r = [stream |-> "rtx", seq |-> 0, ext |-> e, payload |-> <<n>> \o <<x>>]
  BY <1>1 DEF Retransmitted
<1> HIDE DEF r
<1>4. Restore(r) = [stream |-> "video", seq |-> Head(<<n, x>>), ext |-> e,
                    payload |-> Tail(<<n, x>>)]
  BY <1>2, <1>3 DEF Restore
<1> QED
  BY <1>1, <1>2, <1>4 DEF p, r

LEMMA PacketKept ==
  ASSUME sent \in 0 .. Len(Frames), NEW p \in Kept
  PROVE  \E f \in FrameIds : \E i \in 0 .. Frames[f].count - 1 : p = Packet(f, i)
<1>1. PICK f \in 1 .. sent : p \in Packets[f]
  BY DEF Kept
<1>2. f \in FrameIds
  BY FrameTypes
<1> QED
  BY <1>1, <1>2 DEF Packets

-----------------------------------------------------------------------------
(* Assemblies *)

(* An assembly of frame f: the number of its first packet, whichever packet *)
(* it was worked out from, and at each place nothing or the packet sent.    *)
WellAssembled(f, a) ==
    /\ a = [first |-> Number(Before[f]), count |-> Frames[f].count, packets |-> a.packets]
    /\ a.packets \in [0 .. Frames[f].count - 1 -> Packets[f] \cup {Nothing}]
    /\ \A i \in 0 .. Frames[f].count - 1 : a.packets[i] \in {Nothing, Packet(f, i)}

AssemblyInv ==
    /\ frames \in [FrameIds -> {frames[f] : f \in FrameIds}]
    /\ \A f \in FrameIds : frames[f] # Nothing => WellAssembled(f, frames[f])

WireInv ==
    /\ sent \in 0 .. Len(Frames)
    /\ air \subseteq Kept
    /\ rtx \subseteq {Retransmitted(p) : p \in Kept}

(* The number of the first packet can be worked out from any packet. *)
LEMMA FirstOfAny ==
  ASSUME NEW f \in FrameIds, NEW i \in 0 .. Frames[f].count - 1
  PROVE  FirstSequence(Packet(f, i)) = Number(Before[f])
<1>1. /\ Before[f] \in Nat /\ Frames[f].count \in Nat /\ i \in Int
      /\ FirstNumber \in Int /\ Modulus \in Nat \ {0}
  BY BeforeType, FrameTypes
<1>2. FirstSequence(Packet(f, i)) = (((FirstNumber + (Before[f] + i)) % Modulus) - i) % Modulus
  BY PacketFields DEF FirstSequence, Metadata, Number
<1> DEFINE a == FirstNumber + (Before[f] + i)
           b == - i
<1>3. a \in Int /\ b \in Int /\ a + b = FirstNumber + Before[f]
  BY <1>1
<1>4. ((a % Modulus) + b) % Modulus = (a + b) % Modulus
  <2> HIDE DEF a, b
  <2> QED
    BY <1>1, <1>3, WrapAdd
<1>5. (a % Modulus) + b = (a % Modulus) - i
  <2> HIDE DEF a
  <2>1. a % Modulus \in Int
    BY <1>1, <1>3, WrapRange
  <2> QED
    BY <1>1, <2>1
<1> QED
  BY <1>2, <1>3, <1>4, <1>5 DEF Number

LEMMA NewWellAssembled ==
  ASSUME NEW f \in FrameIds, NEW i \in 0 .. Frames[f].count - 1
  PROVE  WellAssembled(f, NewAssembly(Packet(f, i)))
<1>1. /\ Packet(f, i).ext.frame.count = Frames[f].count
      /\ FirstSequence(Packet(f, i)) = Number(Before[f])
  BY PacketFields, FirstOfAny DEF Metadata
<1> QED
  BY <1>1 DEF NewAssembly, WellAssembled

(* Filing a packet keeps every assembly well made. *)
LEMMA StoredWellAssembled ==
  ASSUME AssemblyInv, NEW f \in FrameIds, NEW i \in 0 .. Frames[f].count - 1,
         frames' = Stored(Packet(f, i))
  PROVE  AssemblyInv'
<1> DEFINE p == Packet(f, i)
           a == IF frames[f] = Nothing THEN NewAssembly(p) ELSE frames[f]
           b == [a EXCEPT !.packets[i] = p]
<1>1. p.ext.frame.frame = f /\ p.ext.frame.index = i /\ p \in Packets[f]
  BY PacketFields DEF Metadata, Packets
<1>2. WellAssembled(f, a)
  BY NewWellAssembled DEF AssemblyInv
<1>3. frames' = IF a.packets[i] # Nothing THEN frames ELSE [frames EXCEPT ![f] = b]
  BY <1>1 DEF Stored
<1> HIDE DEF a
<1>4. WellAssembled(f, b)
  <2>1. b = [first |-> Number(Before[f]), count |-> Frames[f].count,
             packets |-> [a.packets EXCEPT ![i] = p]]
    BY <1>2 DEF WellAssembled
  <2>2. b.packets = [a.packets EXCEPT ![i] = p]
    BY <2>1
  <2> HIDE DEF b
  <2>3. b.packets \in [0 .. Frames[f].count - 1 -> Packets[f] \cup {Nothing}]
    BY <1>1, <1>2, <2>2 DEF WellAssembled
  <2>4. \A j \in 0 .. Frames[f].count - 1 : b.packets[j] \in {Nothing, Packet(f, j)}
    BY <1>2, <2>2 DEF WellAssembled
  <2> QED
    BY <2>1, <2>2, <2>3, <2>4 DEF WellAssembled
<1> HIDE DEF b, p
<1>5. /\ frames' \in [FrameIds -> {frames'[g] : g \in FrameIds}]
      /\ \A g \in FrameIds : frames'[g] = frames[g] \/ (g = f /\ frames'[g] = b)
  BY <1>3 DEF AssemblyInv
<1> QED
  BY <1>4, <1>5 DEF AssemblyInv, WellAssembled

-----------------------------------------------------------------------------
(* What is missing *)

(* The sequence s lists, in order, the numbers of the packets missing from  *)
(* assembly a of frame f at the places in order of e, all below k.          *)
Lists(s, e, f, a, k) ==
    /\ s \in Seq(Numbers)
    /\ e \in [1 .. Len(s) -> 0 .. k - 1]
    /\ \A j \in 1 .. Len(s) : s[j] = Number(Before[f] + e[j])
    /\ \A i, j \in 1 .. Len(s) : i < j => e[i] < e[j]
    /\ {e[j] : j \in 1 .. Len(s)} = {i \in 0 .. k - 1 : a.packets[i] = Nothing}

LEMMA NumberFromFirst ==
  ASSUME NEW f \in FrameIds, NEW i \in Nat
  PROVE  /\ (Number(Before[f]) + i) % Modulus = Number(Before[f] + i)
         /\ Number(Before[f] + i) \in Numbers
<1>1. Before[f] \in Nat /\ FirstNumber \in Int /\ Modulus \in Nat \ {0}
  BY BeforeType, FrameTypes
<1> DEFINE n == FirstNumber + Before[f]
<1>2. n \in Int /\ i \in Int /\ n + i = FirstNumber + (Before[f] + i)
  BY <1>1
<1>3. ((n % Modulus) + i) % Modulus = (n + i) % Modulus
  <2> HIDE DEF n
  <2> QED
    BY <1>1, <1>2, WrapAdd
<1>4. Before[f] + i \in Nat
  BY <1>1
<1>5. (Number(Before[f]) + i) % Modulus = Number(Before[f] + i)
  <2> HIDE DEF n
  <2>1. Number(Before[f]) = n % Modulus /\ Number(Before[f] + i) = (n + i) % Modulus
    BY <1>2 DEF Number, n
  <2> QED
    BY <1>3, <2>1
<1> QED
  BY <1>4, <1>5, NumberType

(* The loop of send_nack over the packets of the frame. *)
LEMMA MissingLoop ==
  ASSUME NEW f \in FrameIds, NEW a, WellAssembled(f, a)
  PROVE  \E m \in [0 .. a.count -> Seq(Numbers)] :
            /\ Missing(a) = m[a.count]
            /\ m[0] = <<>>
            /\ \A k \in 1 .. a.count :
                  m[k] = IF a.packets[k - 1] # Nothing THEN m[k - 1]
                         ELSE Append(m[k - 1], Number(Before[f] + (k - 1)))
<1> DEFINE c == a.count
           S == Seq(Numbers)
           Next1(s, k) == IF a.packets[k - 1] # Nothing THEN s
                          ELSE Append(s, (a.first + k - 1) % Modulus)
           start == <<>>
           step == [x \in S \X (1 .. c) |-> Next1(x[1], x[2])]
           Body(h) == [k \in 0 .. c |-> IF k = 0 THEN <<>> ELSE Next1(h[k - 1], k)]
<1>1. c = Frames[f].count /\ c \in Nat /\ a.first = Number(Before[f])
  BY FrameTypes DEF WellAssembled
<1>2. \A k \in 1 .. c : /\ (a.first + k - 1) % Modulus = Number(Before[f] + (k - 1))
                        /\ (a.first + k - 1) % Modulus \in Numbers
  <2> TAKE k \in 1 .. c
  <2>1. k - 1 \in Nat
    BY <1>1
  <2>2. a.first \in Int
    <3>1. Before[f] \in Nat /\ Modulus \in Nat
      BY BeforeType, FrameTypes
    <3> QED
      BY <1>1, <3>1, NumberType DEF Numbers
  <2>3. a.first + k - 1 = Number(Before[f]) + (k - 1)
    BY <1>1, <2>1, <2>2
  <2> QED
    BY <2>1, <2>3, NumberFromFirst
<1>3. \A s \in S, k \in 1 .. c : Next1(s, k) \in S
  BY <1>2, AppendProperties
<1>4. step \in [S \X (1 .. c) -> S] /\ <<>> \in S
  BY <1>3
<1>5. \A t \in S, k \in 1 .. c : step[<<t, k>>] = Next1(t, k)
  OBVIOUS
<1>6. <<>> \in S /\ 0 \in 0 .. c /\ \A k \in 1 .. c : k \in 0 .. c /\ k - 1 \in 0 .. c /\ k # 0
  BY <1>1
<1> HIDE DEF Next1, step, S, c
<1>7. PICK g \in [0 .. c -> S] : g[0] = <<>> /\ \A k \in 1 .. c : g[k] = step[<<g[k - 1], k>>]
  <2>1. start \in S /\ c \in Nat /\ step \in [S \X (1 .. c) -> S]
    BY <1>1, <1>4
  <2>2. \E g : IsRun(g, c, S, start, step)
    BY <2>1, LoopRuns
  <2> QED
    BY <2>2 DEF IsRun
<1>8. \A k \in 1 .. c : g[k] = Next1(g[k - 1], k)
  BY <1>5, <1>6, <1>7
<1>9. g = Body(g)
  <2>1. \A k \in 0 .. c : k # 0 => k \in 1 .. c
    BY <1>1
  <2> QED
    BY <1>7, <1>8, <2>1
<1> DEFINE m == CHOOSE h : h = Body(h)
<1>10. m = Body(m)
  <2> HIDE DEF Body
  <2> QED
    BY <1>9
<1>11. Missing(a) = m[c]
  BY DEF Missing, c, Next1
<1> HIDE DEF m
<1>12. m[0] = <<>> /\ \A k \in 1 .. c : m[k] = Next1(m[k - 1], k)
  BY <1>6, <1>10
<1>13. \A k \in 0 .. c : m[k] \in S
  <2> DEFINE T == {k \in 0 .. c : m[k] \in S}
  <2>1. 0 \in T
    BY <1>6, <1>12
  <2>2. \A k \in 1 .. c : k - 1 \in T => k \in T
    BY <1>3, <1>6, <1>12
  <2>3. 0 .. c \subseteq T
    <3> HIDE DEF T
    <3> QED
      BY <1>1, <2>1, <2>2, LoopInvariant
  <2> QED
    BY <2>3
<1>14. m \in [0 .. c -> S]
  BY <1>10, <1>13
<1>15. \A k \in 1 .. c :
          m[k] = IF a.packets[k - 1] # Nothing THEN m[k - 1]
                 ELSE Append(m[k - 1], Number(Before[f] + (k - 1)))
  BY <1>2, <1>12 DEF Next1
<1> QED
  BY <1>11, <1>12, <1>14, <1>15 DEF S, c

LEMMA ListsGrows ==
  ASSUME NEW f \in FrameIds, NEW a, NEW k \in Nat \ {0}, NEW s, NEW e,
         Lists(s, e, f, a, k - 1), a.packets[k - 1] = Nothing
  PROVE  \E e2 : Lists(Append(s, Number(Before[f] + (k - 1))), e2, f, a, k)
<1> DEFINE n == Number(Before[f] + (k - 1))
           L == Len(s)
           t == Append(s, n)
           e2 == [j \in 1 .. L + 1 |-> IF j <= L THEN e[j] ELSE k - 1]
<1>1. n \in Numbers /\ L \in Nat /\ s \in Seq(Numbers)
  <2>1. Before[f] + (k - 1) \in Nat
    BY BeforeType
  <2> QED
    BY <2>1, NumberType, LenProperties DEF Lists
<1>2. /\ t \in Seq(Numbers) /\ Len(t) = L + 1 /\ t[L + 1] = n
      /\ \A j \in 1 .. L : t[j] = s[j]
  BY <1>1, AppendProperties
<1>3. /\ e \in [1 .. L -> 0 .. k - 2]
      /\ \A j \in 1 .. L : s[j] = Number(Before[f] + e[j])
      /\ \A i, j \in 1 .. L : i < j => e[i] < e[j]
      /\ {e[j] : j \in 1 .. L} = {i \in 0 .. k - 2 : a.packets[i] = Nothing}
  <2>1. (k - 1) - 1 = k - 2
    OBVIOUS
  <2> QED
    BY <2>1 DEF Lists
<1>4. /\ e2 \in [1 .. L + 1 -> 0 .. k - 1]
      /\ e2[L + 1] = k - 1
      /\ \A j \in 1 .. L : e2[j] = e[j] /\ e[j] \in 0 .. k - 2
  BY <1>1, <1>3
<1>5. 1 .. L + 1 = (1 .. L) \cup {L + 1} /\ 0 .. k - 1 = (0 .. k - 2) \cup {k - 1}
  BY <1>1
<1> HIDE DEF e2, n, L, t
<1>6. \A j \in 1 .. L + 1 : t[j] = Number(Before[f] + e2[j])
  BY <1>2, <1>3, <1>4, <1>5 DEF n
<1>7. \A i, j \in 1 .. L + 1 : i < j => e2[i] < e2[j]
  <2> TAKE i, j \in 1 .. L + 1
  <2> HAVE i < j
  <2>1. i \in 1 .. L
    BY <1>1
  <2>2. CASE j \in 1 .. L
    BY <1>3, <1>4, <2>1, <2>2
  <2>3. CASE j = L + 1
    <3>1. e2[i] \in 0 .. k - 2
      BY <1>4, <2>1
    <3> QED
      BY <1>4, <2>3, <3>1
  <2> QED
    BY <1>5, <2>2, <2>3
<1>8. {e2[j] : j \in 1 .. L + 1} = {i \in 0 .. k - 1 : a.packets[i] = Nothing}
  <2>1. {e2[j] : j \in 1 .. L + 1} = {e2[j] : j \in 1 .. L} \cup {k - 1}
    BY <1>4, <1>5
  <2>2. {e2[j] : j \in 1 .. L} = {e[j] : j \in 1 .. L}
    BY <1>4
  <2> QED
    BY <1>3, <1>5, <2>1, <2>2
<1>9. Lists(t, e2, f, a, k)
  BY <1>2, <1>4, <1>6, <1>7, <1>8 DEF Lists
<1> QED
  BY <1>9 DEF t, n

(* The loop lists what is missing. *)
LEMMA MissingLists ==
  ASSUME NEW f \in FrameIds, NEW a, WellAssembled(f, a)
  PROVE  \E e : Lists(Missing(a), e, f, a, a.count)
<1> DEFINE c == a.count
<1>1. c \in Nat
  BY FrameTypes DEF WellAssembled
<1>2. PICK m \in [0 .. c -> Seq(Numbers)] :
        /\ Missing(a) = m[c]
        /\ m[0] = <<>>
        /\ \A k \in 1 .. c :
              m[k] = IF a.packets[k - 1] # Nothing THEN m[k - 1]
                     ELSE Append(m[k - 1], Number(Before[f] + (k - 1)))
  BY MissingLoop
<1> DEFINE T == {k \in 0 .. c : \E e : Lists(m[k], e, f, a, k)}
<1>3. 0 \in T
  <2>1. Lists(<<>>, <<>>, f, a, 0)
    <3>1. <<>> \in Seq(Numbers) /\ Len(<<>>) = 0
      BY EmptySeq
    <3>2. 1 .. 0 = {} /\ 0 .. 0 - 1 = {} /\ <<>> \in [{} -> {}]
      OBVIOUS
    <3> QED
      BY <3>1, <3>2 DEF Lists
  <2>2. 0 \in 0 .. c
    BY <1>1
  <2> QED
    BY <1>2, <2>1, <2>2
<1>4. ASSUME NEW k \in 1 .. c, k - 1 \in T
      PROVE  k \in T
  <2>1. PICK e : Lists(m[k - 1], e, f, a, k - 1)
    BY <1>4
  <2>2. k \in Nat \ {0} /\ k \in 0 .. c
    BY <1>1
  <2>3. CASE a.packets[k - 1] = Nothing
    <3>1. m[k] = Append(m[k - 1], Number(Before[f] + (k - 1)))
      BY <1>2, <2>3
    <3> HIDE DEF T
    <3>2. \E e2 : Lists(m[k], e2, f, a, k)
      BY <2>1, <2>2, <2>3, <3>1, ListsGrows
    <3> QED
      BY <2>2, <3>2 DEF T
  <2>4. CASE a.packets[k - 1] # Nothing
    <3>1. m[k] = m[k - 1]
      BY <1>2, <2>4
    <3>2. {i \in 0 .. k - 1 : a.packets[i] = Nothing}
            = {i \in 0 .. (k - 1) - 1 : a.packets[i] = Nothing}
      <4>1. 0 .. k - 1 = (0 .. (k - 1) - 1) \cup {k - 1}
        BY <2>2
      <4> QED
        BY <2>4, <4>1
    <3>3. e \in [1 .. Len(m[k]) -> 0 .. k - 1]
      <4>1. e \in [1 .. Len(m[k]) -> 0 .. (k - 1) - 1]
        BY <2>1, <3>1 DEF Lists
      <4>2. 0 .. (k - 1) - 1 \subseteq 0 .. k - 1
        BY <2>2
      <4> QED
        BY <4>1, <4>2
    <3>4. Lists(m[k], e, f, a, k)
      BY <2>1, <3>1, <3>2, <3>3 DEF Lists
    <3> QED
      BY <2>2, <3>4
  <2> QED
    BY <2>3, <2>4
<1>5. c \in T
  <2>1. 0 .. c \subseteq T
    <3> HIDE DEF T, c
    <3> QED
      BY <1>1, <1>3, <1>4, LoopInvariant
  <2> QED
    BY <1>1, <2>1
<1> QED
  BY <1>2, <1>5

-----------------------------------------------------------------------------
(* How it is asked for *)

Group == [pid : Numbers, blp : SUBSET (0 .. MaskBits - 1)]

(* A number that fits a group is asked for once it is in the mask. *)
LEMMA AskedGrows ==
  ASSUME NEW group \in Group, NEW n \in Numbers, n # group.pid, FitsGroup(group, n)
  PROVE  /\ AddToGroup(group, n) \in Group
         /\ AddToGroup(group, n).pid = group.pid
         /\ Asked(AddToGroup(group, n)) = Asked(group) \cup {n}
<1> DEFINE pid == group.pid
           d == (n - pid) % Modulus
           bit == (n - pid - 1) % Modulus
           mask == group.blp \cup ({bit} \cap 0 .. MaskBits - 1)
<1>1. /\ Modulus \in Nat \ {0} /\ MaskBits \in Nat \ {0}
      /\ pid \in 0 .. Modulus - 1 /\ n \in 0 .. Modulus - 1
      /\ n \in Int /\ pid \in Int /\ n - pid \in Int
  BY RetransmissionAssumption DEF Group, Numbers
<1>2. d \in 0 .. Modulus - 1 /\ d <= MaskBits
  BY <1>1, WrapRange DEF FitsGroup
<1>3. (d + pid) % Modulus = n
  <2>1. (d + pid) % Modulus = ((n - pid) + pid) % Modulus
    BY <1>1, WrapAdd
  <2>2. (n - pid) + pid = n
    BY <1>1
  <2>3. n % Modulus = n
    BY <1>1, SMT
  <2> QED
    BY <2>1, <2>2, <2>3
<1>4. d # 0
  <2>1. ASSUME d = 0
        PROVE  FALSE
    <3>1. d + pid = pid
      BY <1>1, <2>1
    <3>2. pid % Modulus = pid
      BY <1>1, SMT
    <3> QED
      BY <1>3, <3>1, <3>2
  <2> QED
    BY <2>1
<1>5. bit = d - 1
  <2>1. (d + (-1)) % Modulus = ((n - pid) + (-1)) % Modulus
    <3>1. -1 \in Int
      OBVIOUS
    <3> QED
      BY <1>1, <3>1, WrapAdd
  <2>2. (n - pid) + (-1) = n - pid - 1
    BY <1>1
  <2> HIDE DEF d
  <2>3. d + (-1) = d - 1 /\ d - 1 \in 0 .. Modulus - 1
    BY <1>1, <1>2, <1>4
  <2>4. (d - 1) % Modulus = d - 1
    BY <1>1, <2>3, SMT
  <2> QED
    BY <2>1, <2>2, <2>3, <2>4
<1>6. bit \in 0 .. MaskBits - 1 /\ (pid + 1 + bit) % Modulus = n
  <2> HIDE DEF d, bit
  <2>1. pid + 1 + bit = d + pid /\ bit \in 0 .. MaskBits - 1
    BY <1>1, <1>2, <1>4, <1>5
  <2> QED
    BY <1>3, <2>1
<1>7. group = [pid |-> pid, blp |-> group.blp] /\ group.blp \subseteq 0 .. MaskBits - 1
  BY DEF Group
<1>8. AddToGroup(group, n) = [pid |-> pid, blp |-> mask]
  BY DEF AddToGroup
<1>9. mask = group.blp \cup {bit} /\ mask \subseteq 0 .. MaskBits - 1
  BY <1>6, <1>7
<1> HIDE DEF d, bit, mask
<1>10. Asked(AddToGroup(group, n)) = Asked(group) \cup {n}
  BY <1>6, <1>8, <1>9 DEF Asked
<1> QED
  BY <1>1, <1>8, <1>9, <1>10 DEF Group, Numbers

(* Adding a number to a list of groups asks for that number besides. *)
LEMMA AddNumberAsks ==
  ASSUME NEW G \in Seq(Group), NEW n \in Numbers,
         G # <<>> => n # Last(G).pid
  PROVE  /\ AddNumber(G, n) \in Seq(Group)
         /\ AddNumber(G, n) # <<>>
         /\ Last(AddNumber(G, n)).pid \in {n} \cup (IF G = <<>> THEN {} ELSE {Last(G).pid})
         /\ Requested(AddNumber(G, n)) = Requested(G) \cup {n}
<1> DEFINE H == AddNumber(G, n)
           L == Len(G)
<1>1. L \in Nat /\ DOMAIN G = 1 .. L /\ \A k \in 1 .. L : G[k] \in Group
  BY LenProperties, ElementOfSeq
<1>2. CASE G = <<>> \/ ~ FitsGroup(Last(G), n)
  <2> DEFINE new == [pid |-> n, blp |-> {}]
  <2>1. H = Append(G, new)
    BY <1>2 DEF AddNumber
  <2>2. new \in Group
    BY DEF Group
  <2>3. new.pid = n /\ Asked(new) = {n}
    BY DEF Asked
  <2> HIDE DEF new, H
  <2>4. /\ H \in Seq(Group) /\ Len(H) = L + 1 /\ H[L + 1] = new
        /\ \A k \in 1 .. L : H[k] = G[k]
    BY <2>1, <2>2, AppendProperties
  <2>5. DOMAIN H = (1 .. L) \cup {L + 1} /\ H # <<>> /\ Last(H) = new
    BY <1>1, <2>4, LenProperties, EmptySeq DEF Last
  <2>6. Requested(H) = Requested(G) \cup {n}
    <3>1. Requested(H) = UNION {Asked(H[k]) : k \in (1 .. L) \cup {L + 1}}
      BY <2>5 DEF Requested
    <3>2. Requested(G) = UNION {Asked(G[k]) : k \in 1 .. L}
      BY <1>1 DEF Requested
    <3>3. \A k \in 1 .. L : Asked(H[k]) = Asked(G[k])
      BY <2>4
    <3>4. Asked(H[L + 1]) = {n}
      BY <2>3, <2>4
    <3> HIDE DEF L
    <3> QED
      BY <3>1, <3>2, <3>3, <3>4, Zenon
  <2> QED
    BY <2>3, <2>4, <2>5, <2>6 DEF H
<1>3. CASE G # <<>> /\ FitsGroup(Last(G), n)
  <2> DEFINE new == AddToGroup(G[L], n)
  <2>1. L \in 1 .. L /\ G[L] \in Group /\ Last(G) = G[L]
    BY <1>1, <1>3, EmptySeq DEF Last
  <2>2. H = [G EXCEPT ![L] = new]
    BY <1>3 DEF AddNumber
  <2>3. new \in Group /\ new.pid = G[L].pid /\ Asked(new) = Asked(G[L]) \cup {n}
    BY <1>3, <2>1, AskedGrows
  <2> HIDE DEF new, H
  <2>4. /\ H \in Seq(Group) /\ Len(H) = L /\ H[L] = new
        /\ \A k \in 1 .. L : k # L => H[k] = G[k]
    BY <2>1, <2>2, <2>3, ExceptSeq
  <2>5. DOMAIN H = 1 .. L /\ H # <<>> /\ Last(H) = new
    <3>1. DOMAIN H = 1 .. L
      BY <2>4, LenProperties
    <3>2. H # <<>>
      BY <2>1, <2>4, EmptySeq
    <3> QED
      BY <2>4, <3>1, <3>2 DEF Last
  <2>6. Requested(H) = Requested(G) \cup {n}
    <3>1. Requested(H) = UNION {Asked(H[k]) : k \in 1 .. L}
      BY <2>5 DEF Requested
    <3>2. Requested(G) = UNION {Asked(G[k]) : k \in 1 .. L}
      BY <1>1 DEF Requested
    <3>3. \A k \in 1 .. L : Asked(H[k]) = IF k = L THEN Asked(G[k]) \cup {n} ELSE Asked(G[k])
      BY <2>3, <2>4
    <3>4. L \in 1 .. L
      BY <2>1
    <3>5. \A x : x \in Requested(H) <=> x \in Requested(G) \/ x = n
      <4> HIDE DEF L
      <4>1. ASSUME NEW x, x \in Requested(H)
            PROVE  x \in Requested(G) \/ x = n
        <5>1. PICK k \in 1 .. L : x \in Asked(H[k])
          BY <3>1, <4>1
        <5> QED
          BY <3>2, <3>3, <5>1
      <4>2. ASSUME NEW x, x \in Requested(G)
            PROVE  x \in Requested(H)
        <5>1. PICK k \in 1 .. L : x \in Asked(G[k])
          BY <3>2, <4>2
        <5>2. x \in Asked(H[k])
          BY <3>3, <5>1
        <5> QED
          BY <3>1, <5>1, <5>2
      <4>3. n \in Requested(H)
        BY <3>1, <3>3, <3>4
      <4> QED
        BY <4>1, <4>2, <4>3
    <3> QED
      BY <3>5
  <2> QED
    BY <1>3, <2>1, <2>3, <2>4, <2>5, <2>6 DEF H
<1> QED
  BY <1>2, <1>3

LEMMA AddNumberType ==
  ASSUME NEW G \in Seq(Group), NEW n \in Numbers
  PROVE  AddNumber(G, n) \in Seq(Group)
<1> DEFINE L == Len(G)
<1>1. CASE G = <<>> \/ ~ FitsGroup(Last(G), n)
  <2>1. [pid |-> n, blp |-> {}] \in Group
    BY DEF Group
  <2> QED
    BY <1>1, <2>1, AppendProperties DEF AddNumber
<1>2. CASE ~ (G = <<>> \/ ~ FitsGroup(Last(G), n))
  <2>1. L \in 1 .. L
    BY <1>2, EmptySeq, LenProperties
  <2>2. G[L] \in Group
    BY <2>1, ElementOfSeq
  <2>3. G[L].pid \in Numbers /\ G[L].blp \in SUBSET (0 .. MaskBits - 1)
    BY <2>2 DEF Group
  <2>4. AddToGroup(G[L], n) \in Group
    <3> DEFINE X == {(n - G[L].pid - 1) % Modulus}
    <3>1. G[L].blp \cup (X \cap 0 .. MaskBits - 1) \in SUBSET (0 .. MaskBits - 1)
      BY <2>3
    <3> HIDE DEF X
    <3> QED
      BY <2>3, <3>1 DEF AddToGroup, Group, X
  <2>5. AddNumber(G, n) = [G EXCEPT ![L] = AddToGroup(G[L], n)]
    BY <1>2 DEF AddNumber
  <2> QED
    BY <2>1, <2>4, <2>5, ExceptSeq
<1> QED
  BY <1>1, <1>2

(* The loop of send_nack over the numbers listed. *)
LEMMA GroupsLoop ==
  ASSUME NEW s \in Seq(Numbers)
  PROVE  \E g : /\ Groups(s) = g[Len(s)]
               /\ g[0] = <<>>
               /\ \A k \in 1 .. Len(s) : g[k] = AddNumber(g[k - 1], s[k])
<1> DEFINE c == Len(s)
           S == Seq(Group)
           start == <<>>
           step == [x \in S \X (1 .. c) |-> AddNumber(x[1], s[x[2]])]
           Body(h) == [k \in 0 .. c |-> IF k = 0 THEN <<>> ELSE AddNumber(h[k - 1], s[k])]
           m == CHOOSE h : h = Body(h)
<1>1. c \in Nat /\ \A k \in 1 .. c : s[k] \in Numbers
  BY LenProperties, ElementOfSeq
<1>2. step \in [S \X (1 .. c) -> S] /\ start \in S
  BY <1>1, AddNumberType, EmptySeq
<1>3. \A t \in S, k \in 1 .. c : step[<<t, k>>] = AddNumber(t, s[k])
  OBVIOUS
<1>4. 0 \in 0 .. c /\ \A k \in 1 .. c : k \in 0 .. c /\ k - 1 \in 0 .. c /\ k # 0
  BY <1>1
<1>5. Groups(s) = m[c]
  BY DEF Groups
<1> HIDE DEF step, S, c
<1>6. PICK g : IsRun(g, c, S, start, step)
  <2> HIDE DEF start
  <2> QED
    BY <1>1, <1>2, LoopRuns
<1>7. /\ g \in [0 .. c -> S] /\ g[0] = <<>>
      /\ \A k \in 1 .. c : g[k] = AddNumber(g[k - 1], s[k])
  <2>1. /\ g \in [0 .. c -> S] /\ g[0] = <<>>
        /\ \A k \in 1 .. c : g[k] = step[<<g[k - 1], k>>]
    BY <1>6 DEF IsRun
  <2> QED
    BY <1>3, <1>4, <2>1
<1>8. g = Body(g)
  <2>1. \A k \in 0 .. c : k # 0 => k \in 1 .. c
    BY <1>1
  <2> QED
    BY <1>7, <2>1
<1>9. m = Body(m)
  <2> HIDE DEF Body
  <2> QED
    BY <1>8
<1> HIDE DEF m
<1>10. m[0] = <<>> /\ \A k \in 1 .. c : m[k] = AddNumber(m[k - 1], s[k])
  BY <1>4, <1>9
<1> QED
  BY <1>5, <1>10 DEF c

(* The groups ask for exactly the numbers they were made of. *)
LEMMA GroupsAsk ==
  ASSUME NEW s \in Seq(Numbers),
         \A i, j \in 1 .. Len(s) : i < j => s[i] # s[j]
  PROVE  /\ Groups(s) \in Seq(Group)
         /\ Requested(Groups(s)) = {s[i] : i \in 1 .. Len(s)}
<1> DEFINE c == Len(s)
           UpTo(k) == {s[i] : i \in 1 .. k}
<1>1. c \in Nat /\ \A k \in 1 .. c : s[k] \in Numbers
  BY LenProperties, ElementOfSeq
<1>2. PICK g : /\ Groups(s) = g[c]
               /\ g[0] = <<>>
               /\ \A k \in 1 .. c : g[k] = AddNumber(g[k - 1], s[k])
  BY GroupsLoop
<1> DEFINE Good(k) == /\ g[k] \in Seq(Group)
                      /\ Requested(g[k]) = UpTo(k)
                      /\ g[k] # <<>> => Last(g[k]).pid \in UpTo(k)
           T == {k \in 0 .. c : Good(k)}
<1>3. 0 \in T
  <2>1. UpTo(0) = {} /\ 0 \in 0 .. c
    BY <1>1
  <2>2. Requested(<<>>) = {} /\ <<>> \in Seq(Group)
    BY EmptySeq DEF Requested
  <2> QED
    BY <1>2, <2>1, <2>2
<1>4. ASSUME NEW k \in 1 .. c, k - 1 \in T
      PROVE  k \in T
  <2> DEFINE G == g[k - 1]
  <2>1. Good(k - 1)
    BY <1>4
  <2>2. s[k] \in Numbers /\ s[k] \notin UpTo(k - 1)
    BY <1>1
  <2>3. g[k] = AddNumber(G, s[k])
    BY <1>2
  <2>4. UpTo(k) = UpTo(k - 1) \cup {s[k]}
    <3>1. 1 .. k = (1 .. k - 1) \cup {k}
      BY <1>1
    <3> QED
      BY <3>1
  <2> HIDE DEF G, UpTo
  <2>5. /\ G \in Seq(Group) /\ Requested(G) = UpTo(k - 1)
        /\ G # <<>> => Last(G).pid \in UpTo(k - 1)
    BY <2>1 DEF G
  <2>6. /\ g[k] \in Seq(Group)
        /\ Last(g[k]).pid \in {s[k]} \cup (IF G = <<>> THEN {} ELSE {Last(G).pid})
        /\ Requested(g[k]) = Requested(G) \cup {s[k]}
    <3>1. G # <<>> => s[k] # Last(G).pid
      BY <2>2, <2>5
    <3> QED
      BY <2>2, <2>3, <2>5, <3>1, AddNumberAsks
  <2>7. Good(k)
    BY <2>4, <2>5, <2>6
  <2>8. k \in 0 .. c
    BY <1>1
  <2> QED
    BY <2>7, <2>8
<1>5. c \in T
  <2>1. 0 .. c \subseteq T
    <3> HIDE DEF T, c
    <3> QED
      BY <1>1, <1>3, <1>4, LoopInvariant
  <2> HIDE DEF T, c
  <2> QED
    BY <1>1, <2>1
<1> QED
  BY <1>2, <1>5

(* A NACK for frame f asks for what is missing from its assembly. *)
LEMMA NackAsks ==
  ASSUME NEW f \in FrameIds, NEW a, WellAssembled(f, a)
  PROVE  /\ Groups(Missing(a)) \in Seq(Group)
         /\ Requested(Groups(Missing(a))) =
               {Number(Before[f] + i) : i \in {j \in 0 .. Frames[f].count - 1 :
                                                 a.packets[j] = Nothing}}
<1> DEFINE s == Missing(a)
           c == a.count
<1>1. /\ c = Frames[f].count /\ c \in Nat /\ c <= Modulus
      /\ Modulus \in Nat \ {0} /\ FirstNumber \in Int /\ Before[f] \in Nat
  BY FrameTypes, BeforeType DEF WellAssembled
<1>2. PICK e : Lists(s, e, f, a, c)
  BY MissingLists
<1>3. /\ s \in Seq(Numbers)
      /\ e \in [1 .. Len(s) -> 0 .. c - 1]
      /\ \A j \in 1 .. Len(s) : s[j] = Number(Before[f] + e[j])
      /\ \A i, j \in 1 .. Len(s) : i < j => e[i] < e[j]
      /\ {e[j] : j \in 1 .. Len(s)} = {i \in 0 .. c - 1 : a.packets[i] = Nothing}
  BY <1>2 DEF Lists
<1> HIDE DEF s, c
<1>4. ASSUME NEW i \in 1 .. Len(s), NEW j \in 1 .. Len(s), i < j
      PROVE  s[i] # s[j]
  <2> DEFINE x == FirstNumber + (Before[f] + e[i])
             y == FirstNumber + (Before[f] + e[j])
  <2>1. e[i] \in 0 .. c - 1 /\ e[j] \in 0 .. c - 1 /\ e[i] < e[j]
    BY <1>3, <1>4
  <2>2. x \in Int /\ y \in Int /\ x # y /\ - Modulus < x - y /\ x - y < Modulus
    <3> DEFINE b == Before[f]
               u == e[i]
               v == e[j]
    <3>1. /\ u \in Int /\ v \in Int /\ 0 <= u /\ 0 <= v /\ u < c /\ v < c /\ u < v
          /\ b \in Int /\ x = FirstNumber + (b + u) /\ y = FirstNumber + (b + v)
      BY <1>1, <2>1
    <3> HIDE DEF x, y, u, v, b
    <3> QED
      BY <1>1, <3>1
  <2>3. s[i] = x % Modulus /\ s[j] = y % Modulus
    BY <1>3 DEF Number
  <2> HIDE DEF x, y
  <2> QED
    BY <1>1, <2>2, <2>3, WrapInjective
<1>5. /\ Groups(s) \in Seq(Group)
      /\ Requested(Groups(s)) = {s[i] : i \in 1 .. Len(s)}
  BY <1>3, <1>4, GroupsAsk
<1>6. {s[i] : i \in 1 .. Len(s)} = {Number(Before[f] + i) : i \in {e[j] : j \in 1 .. Len(s)}}
  BY <1>3
<1> QED
  BY <1>1, <1>3, <1>5, <1>6 DEF s

-----------------------------------------------------------------------------
(* The invariant: on the wire only packets that were sent, as they were     *)
(* sent; assemblies well made; NACKs well formed.                           *)
RetransmissionInv ==
    /\ WireInv
    /\ AssemblyInv
    /\ nacks \in [FrameIds -> Seq(Group)]
    /\ given \subseteq FrameIds

LEMMA InvInit == Init => RetransmissionInv
<1> SUFFICES ASSUME Init
             PROVE  RetransmissionInv
  OBVIOUS
<1>1. sent = 0 /\ air = {} /\ rtx = {} /\ given = {}
  BY DEF Init
<1>2. /\ frames = [f \in FrameIds |-> Nothing]
      /\ nacks = [f \in FrameIds |-> Nothing]
  BY DEF Init
<1>3. WireInv
  BY <1>1, FrameTypes DEF WireInv
<1>4. AssemblyInv
  BY <1>2 DEF AssemblyInv
<1>5. Nothing \in Seq(Group)
  BY EmptySeq DEF Nothing
<1> QED
  BY <1>1, <1>2, <1>3, <1>4, <1>5 DEF RetransmissionInv

LEMMA SendFrameInv == RetransmissionInv /\ SendFrame => RetransmissionInv'
<1> SUFFICES ASSUME RetransmissionInv, SendFrame
             PROVE  RetransmissionInv'
  OBVIOUS
<1>1. /\ sent < Len(Frames) /\ sent' = sent + 1
      /\ air' = air \cup Packets[sent + 1]
      /\ UNCHANGED <<rtx, nacks, frames, given>>
  BY DEF SendFrame
<1>2. sent \in 0 .. Len(Frames) /\ air \subseteq Kept /\ rtx \subseteq {Retransmitted(p) : p \in Kept}
  BY DEF RetransmissionInv, WireInv
<1>3. sent' \in 0 .. Len(Frames)
  BY <1>1, <1>2, FrameTypes
<1>4. Kept \subseteq Kept' /\ Packets[sent + 1] \subseteq Kept'
  <2>1. sent + 1 \in 1 .. sent' /\ 1 .. sent \subseteq 1 .. sent'
    BY <1>1, <1>2
  <2>2. Kept' = UNION {Packets[f] : f \in 1 .. sent'}
    BY DEF Kept
  <2> QED
    BY <2>1, <2>2 DEF Kept
<1>5. WireInv'
  BY <1>1, <1>2, <1>3, <1>4 DEF WireInv
<1>6. AssemblyInv'
  BY <1>1 DEF RetransmissionInv, AssemblyInv, WellAssembled
<1> QED
  BY <1>1, <1>5, <1>6 DEF RetransmissionInv

LEMMA ReceiveMediaInv ==
  ASSUME RetransmissionInv, NEW p \in air, ReceiveMedia(p)
  PROVE  RetransmissionInv'
<1>1. air' = air \ {p} /\ frames' = Stored(p) /\ UNCHANGED <<sent, rtx, nacks, given>>
  BY DEF ReceiveMedia
<1>2. Kept' = Kept
  BY <1>1 DEF Kept
<1>3. WireInv'
  BY <1>1, <1>2 DEF RetransmissionInv, WireInv
<1>4. PICK f \in FrameIds : \E i \in 0 .. Frames[f].count - 1 : p = Packet(f, i)
  BY PacketKept DEF RetransmissionInv, WireInv
<1>5. AssemblyInv'
  BY <1>1, <1>4, StoredWellAssembled DEF RetransmissionInv
<1> QED
  BY <1>1, <1>3, <1>5 DEF RetransmissionInv

LEMMA ReceiveRtxInv ==
  ASSUME RetransmissionInv, NEW p \in rtx, ReceiveRtx(p)
  PROVE  RetransmissionInv'
<1>1. rtx' = rtx \ {p} /\ frames' = Stored(Restore(p)) /\ UNCHANGED <<sent, air, nacks, given>>
  BY DEF ReceiveRtx
<1>2. Kept' = Kept
  BY <1>1 DEF Kept
<1>3. WireInv'
  BY <1>1, <1>2 DEF RetransmissionInv, WireInv
<1>4. PICK q \in Kept : p = Retransmitted(q)
  BY DEF RetransmissionInv, WireInv
<1>5. PICK f \in FrameIds : \E i \in 0 .. Frames[f].count - 1 : q = Packet(f, i)
  BY PacketKept DEF RetransmissionInv, WireInv
<1>6. PICK i \in 0 .. Frames[f].count - 1 : q = Packet(f, i)
  BY <1>5
<1>7. frames' = Stored(Packet(f, i))
  BY <1>1, <1>4, <1>6, RestoreRetransmitted
<1>8. AssemblyInv'
  BY <1>7, StoredWellAssembled DEF RetransmissionInv
<1> QED
  BY <1>1, <1>3, <1>8 DEF RetransmissionInv

LEMMA PollInv ==
  ASSUME RetransmissionInv, NEW f \in FrameIds, Poll(f)
  PROVE  /\ RetransmissionInv'
         /\ nacks' = [nacks EXCEPT ![f] = Groups(Missing(frames[f]))]
         /\ Requested(Groups(Missing(frames[f]))) =
               {Number(Before[f] + i) : i \in {j \in 0 .. Frames[f].count - 1 :
                                                 frames[f].packets[j] = Nothing}}
<1>1. /\ frames[f] # Nothing
      /\ nacks' = [nacks EXCEPT ![f] = Groups(Missing(frames[f]))]
      /\ UNCHANGED <<sent, air, rtx, frames, given>>
  BY DEF Poll, Incomplete
<1>2. WellAssembled(f, frames[f])
  BY <1>1 DEF RetransmissionInv, AssemblyInv
<1>3. /\ Groups(Missing(frames[f])) \in Seq(Group)
      /\ Requested(Groups(Missing(frames[f]))) =
            {Number(Before[f] + i) : i \in {j \in 0 .. Frames[f].count - 1 :
                                              frames[f].packets[j] = Nothing}}
  BY <1>2, NackAsks
<1>4. nacks' \in [FrameIds -> Seq(Group)]
  BY <1>1, <1>3 DEF RetransmissionInv
<1>5. Kept' = Kept
  BY <1>1 DEF Kept
<1>6. WireInv' /\ AssemblyInv'
  BY <1>1, <1>5 DEF RetransmissionInv, WireInv, AssemblyInv, WellAssembled
<1> QED
  BY <1>1, <1>3, <1>4, <1>6 DEF RetransmissionInv

LEMMA ReceiveNackInv ==
  ASSUME RetransmissionInv, NEW f \in FrameIds, ReceiveNack(f)
  PROVE  RetransmissionInv'
<1>1. /\ nacks' = [nacks EXCEPT ![f] = Nothing]
      /\ rtx' \subseteq rtx \cup {Retransmitted(p) : p \in Kept}
      /\ UNCHANGED <<sent, air, frames, given>>
  BY DEF ReceiveNack
<1>2. Nothing \in Seq(Group)
  BY EmptySeq DEF Nothing
<1>3. Kept' = Kept
  BY <1>1 DEF Kept
<1>4. WireInv' /\ AssemblyInv'
  BY <1>1, <1>3 DEF RetransmissionInv, WireInv, AssemblyInv, WellAssembled
<1>5. nacks' \in [FrameIds -> Seq(Group)]
  BY <1>1, <1>2 DEF RetransmissionInv
<1> QED
  BY <1>1, <1>4, <1>5 DEF RetransmissionInv

LEMMA GiveUpInv ==
  ASSUME RetransmissionInv, NEW f \in FrameIds, GiveUp(f)
  PROVE  RetransmissionInv'
<1>1. /\ frames' = [frames EXCEPT ![f] = Nothing]
      /\ given' = given \cup {f}
      /\ UNCHANGED <<sent, air, rtx, nacks>>
  BY DEF GiveUp
<1>2. Kept' = Kept
  BY <1>1 DEF Kept
<1>3. WireInv'
  BY <1>1, <1>2 DEF RetransmissionInv, WireInv
<1>4. AssemblyInv'
  BY <1>1 DEF RetransmissionInv, AssemblyInv, WellAssembled
<1> QED
  BY <1>1, <1>3, <1>4 DEF RetransmissionInv

LEMMA LossInv ==
  ASSUME RetransmissionInv,
         (\E p \in rtx : LoseRtx(p)) \/ (\E f \in FrameIds : LoseNack(f))
  PROVE  RetransmissionInv'
<1>1. /\ rtx' \subseteq rtx
      /\ \/ nacks' = nacks
         \/ \E f \in FrameIds : nacks' = [nacks EXCEPT ![f] = Nothing]
      /\ UNCHANGED <<sent, air, frames, given>>
  BY DEF LoseRtx, LoseNack
<1>2. Nothing \in Seq(Group)
  BY EmptySeq DEF Nothing
<1>3. Kept' = Kept
  BY <1>1 DEF Kept
<1>4. WireInv' /\ AssemblyInv'
  BY <1>1, <1>3 DEF RetransmissionInv, WireInv, AssemblyInv, WellAssembled
<1>5. nacks' \in [FrameIds -> Seq(Group)]
  BY <1>1, <1>2 DEF RetransmissionInv
<1> QED
  BY <1>1, <1>4, <1>5 DEF RetransmissionInv

LEMMA InvStep == RetransmissionInv /\ [Next]_vars => RetransmissionInv'
<1> SUFFICES ASSUME RetransmissionInv, [Next]_vars
             PROVE  RetransmissionInv'
  OBVIOUS
<1>1. CASE SendFrame
  BY <1>1, SendFrameInv
<1>2. CASE \E p \in air : ReceiveMedia(p)
  BY <1>2, ReceiveMediaInv
<1>3. CASE \E p \in rtx : ReceiveRtx(p)
  BY <1>3, ReceiveRtxInv
<1>4. CASE \E f \in FrameIds : Poll(f)
  BY <1>4, PollInv
<1>5. CASE \E f \in FrameIds : ReceiveNack(f)
  BY <1>5, ReceiveNackInv
<1>6. CASE \E f \in FrameIds : GiveUp(f)
  BY <1>6, GiveUpInv
<1>7. CASE (\E p \in rtx : LoseRtx(p)) \/ (\E f \in FrameIds : LoseNack(f))
  BY <1>7, LossInv
<1>8. CASE UNCHANGED vars
  <2>1. Kept' = Kept
    BY <1>8 DEF vars, Kept
  <2> QED
    BY <1>8, <2>1 DEF vars, RetransmissionInv, WireInv, AssemblyInv, WellAssembled
<1> QED
  BY <1>1, <1>2, <1>3, <1>4, <1>5, <1>6, <1>7, <1>8 DEF Next

LEMMA InvTypeOK == RetransmissionInv => TypeOK
<1> SUFFICES ASSUME RetransmissionInv
             PROVE  TypeOK
  OBVIOUS
<1>1. /\ sent \in 0 .. Len(Frames) /\ air \subseteq Kept
      /\ rtx \subseteq {Retransmitted(p) : p \in Kept} /\ given \subseteq FrameIds
  BY DEF RetransmissionInv, WireInv
<1>2. \A f \in FrameIds : nacks[f] \in Seq([pid : Numbers, blp : SUBSET (0 .. MaskBits - 1)])
  BY DEF RetransmissionInv, Group
<1>3. ASSUME NEW f \in FrameIds, frames[f] # Nothing
      PROVE  frames[f].first \in Numbers /\ frames[f].count = Frames[f].count
  <2> DEFINE n == Number(Before[f])
  <2>1. n \in Numbers
    BY BeforeType, NumberType
  <2> HIDE DEF n
  <2>2. frames[f] = [first |-> n, count |-> Frames[f].count, packets |-> frames[f].packets]
    BY <1>3 DEF RetransmissionInv, AssemblyInv, WellAssembled, n
  <2> QED
    BY <2>1, <2>2
<1> QED
  BY <1>1, <1>2, <1>3 DEF TypeOK

LEMMA InvRestored == RetransmissionInv => Restored
<1> SUFFICES ASSUME RetransmissionInv, NEW f \in FrameIds, frames[f] # Nothing,
                    NEW i \in DOMAIN frames[f].packets, frames[f].packets[i] # Nothing
             PROVE  LET p == frames[f].packets[i]
                    IN /\ p.stream = "video"
                       /\ p.seq = Number(Before[f] + i)
                       /\ p.payload = <<<<f, i>>>>
                       /\ p.ext.twcc = Before[f] + i
  BY DEF Restored
<1>1. frames[f].packets[i] = Packet(f, i)
  BY DEF RetransmissionInv, AssemblyInv, WellAssembled
<1> QED
  BY <1>1, PacketFields

-----------------------------------------------------------------------------
(* The invariant holds in every reachable state. *)
THEOREM RetransmissionInvariant == Spec => []RetransmissionInv
<1> QED
  BY InvInit, InvStep, PTL DEF Spec

(* The numbers of an assembly and of a NACK are 16-bit ones, whatever was   *)
(* received, and on the wire are only packets that were sent.               *)
THEOREM RetransmissionTypeCorrect == Spec => []TypeOK
<1> QED
  BY RetransmissionInvariant, InvTypeOK, PTL

(* What stands at a place of a frame is the packet sent for that place,     *)
(* with its number, payload and extensions, also when it came as an RTX     *)
(* packet.                                                                  *)
THEOREM AlwaysRestored == Spec => []Restored
<1> QED
  BY RetransmissionInvariant, InvRestored, PTL

(* A NACK made by the poll asks for exactly what is missing from the frame, *)
(* across the wrap of the numbers and however many groups it takes.         *)
THEOREM AsksForTheMissing == Spec => RequestsTheMissing
<1> DEFINE A(f) == nacks[f] = Nothing /\ nacks'[f] # Nothing =>
             Requested(nacks'[f]) =
                 {Number(Before[f] + i) : i \in {j \in 0 .. Frames[f].count - 1 :
                                                   frames[f].packets[j] = Nothing}}
<1>1. RetransmissionInv /\ [Next]_vars => [\A f \in FrameIds : A(f)]_vars
  <2> SUFFICES ASSUME RetransmissionInv, [Next]_vars, NEW f \in FrameIds,
                      nacks[f] = Nothing, nacks'[f] # Nothing
               PROVE  A(f)
    OBVIOUS
  <2>1. nacks \in [FrameIds -> Seq(Group)]
    BY DEF RetransmissionInv
  <2>2. \E g \in FrameIds : Poll(g)
    BY <2>1 DEF Next, vars, SendFrame, ReceiveMedia, ReceiveRtx, LoseRtx, ReceiveNack,
                LoseNack, GiveUp
  <2>3. PICK g \in FrameIds : Poll(g)
    BY <2>2
  <2>4. /\ nacks' = [nacks EXCEPT ![g] = Groups(Missing(frames[g]))]
        /\ Requested(Groups(Missing(frames[g]))) =
              {Number(Before[g] + i) : i \in {j \in 0 .. Frames[g].count - 1 :
                                                frames[g].packets[j] = Nothing}}
    BY <2>3, PollInv
  <2>5. g = f /\ nacks'[f] = Groups(Missing(frames[f]))
    BY <2>1, <2>4
  <2> QED
    BY <2>4, <2>5
<1> QED
  BY <1>1, RetransmissionInvariant, PTL DEF Spec, RequestsTheMissing
=============================================================================
