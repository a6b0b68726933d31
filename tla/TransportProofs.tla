-------------------------- MODULE TransportProofs --------------------------
(***************************************************************************)
(* Proofs about Transport, for any payloads and any sizes that satisfy     *)
(* SizesAssumption: transport_recv implements FrameChannel, and the bytes  *)
(* transport_send has written are the marker and the frames it accepted.   *)
(* StartOf and StreamOf are sums over a sequence: what they are for n + 1  *)
(* payloads from what they are for n is proved from the least n at which   *)
(* it would fail.                                                          *)
(***************************************************************************)
EXTENDS Transport, SequenceTheorems, WellFoundedInduction, TLAPS

\* A non-empty set of natural numbers has a least element.
LEMMA Least ==
  ASSUME NEW S, S \subseteq Nat, S # {}
  PROVE  \E i \in S : \A j \in S : i <= j
<1> DEFINE R == OpToRel(<, Nat)
<1>1. IsWellFoundedOn(R, Nat)
  BY NatLessThanWellFounded
<1>2. \E x \in S : \A y \in S : ~(<<y, x>> \in R)
  <2> HIDE DEF R
  <2> QED BY <1>1, WFMin
<1>3. \A x, y \in Nat : y < x => <<y, x>> \in R
  BY DEF OpToRel
<1>4. PICK x \in S : \A y \in S : ~(<<y, x>> \in R)
  BY <1>2
<1>5. \A y \in S : ~(y < x)
  <2> HIDE DEF R
  <2> QED BY <1>3, <1>4, Zenon
<1>6. \A y \in S : x <= y
  BY <1>5, SMT
<1> QED BY <1>6


\* The payloads are made of bytes.
Byte == 0..(BYTE - 1)
N == Len(Incoming)
Units(i) == Len(Incoming[i]) \div UNIT
Enc(i) == Encode(Incoming[i])
PL(i) == Len(LenPrefix(Units(i)))

\* What the sizes and the payloads are assumed to be.
LEMMA Sizes ==
  /\ UNIT \in Nat \ {0} /\ BYTE \in Nat \ {0} /\ EXT \in Nat \ {0} /\ EXT < BYTE
  /\ N \in Nat /\ MAX_LEN \in Nat
  /\ \A i \in 1..N : /\ Incoming[i] \in Seq(Byte) /\ Len(Incoming[i]) \in Nat
                    /\ Len(Incoming[i]) % UNIT = 0
                    /\ Len(Incoming[i]) \div UNIT < BYTE * BYTE * BYTE
<1>1. /\ UNIT \in Nat \ {0} /\ BYTE \in Nat \ {0} /\ EXT \in 1..(BYTE - 1)
      /\ MAX_LEN \in Nat
      /\ Incoming \in Seq(Seq(0..(BYTE - 1)))
      /\ \A i \in 1..Len(Incoming) :
           /\ Len(Incoming[i]) % UNIT = 0
           /\ Len(Incoming[i]) \div UNIT < BYTE * BYTE * BYTE
  BY SizesAssumption, Zenon
<1>2. EXT \in Nat \ {0} /\ EXT < BYTE
  BY <1>1
<1>3. Incoming \in Seq(Seq(Byte)) /\ N \in Nat
  BY <1>1 DEF Byte, N
<1>4. ASSUME NEW i \in 1..N
      PROVE  Incoming[i] \in Seq(Byte) /\ Len(Incoming[i]) \in Nat
  <2> HIDE DEF Byte
  <2>1. Incoming[i] \in Seq(Byte)
    BY <1>3 DEF N
  <2> QED BY <2>1, LenProperties
<1> QED BY <1>1, <1>2, <1>3, <1>4, Zenon DEF N

\* Division with a remainder.
LEMMA DivMod ==
  ASSUME NEW n \in Nat, NEW b \in Nat \ {0}
  PROVE  n \div b \in Nat /\ n % b \in 0..(b - 1) /\ n = b * (n \div b) + (n % b)
OBVIOUS

\* There is only one quotient and remainder.
LEMMA DivUnique ==
  ASSUME NEW b \in Nat \ {0}, NEW q \in Nat, NEW r \in 0..(b - 1)
  PROVE  (b * q + r) \div b = q /\ (b * q + r) % b = r
OBVIOUS

\* A payload of whole units has that many times the bytes of one.
LEMMA UnitsFacts ==
  ASSUME NEW i \in 1..N
  PROVE  Units(i) \in Nat /\ Units(i) * UNIT = Len(Incoming[i])
<1>1. Len(Incoming[i]) \in Nat /\ UNIT \in Nat \ {0} /\ Len(Incoming[i]) % UNIT = 0
  BY Sizes
<1> DEFINE n == Len(Incoming[i])
           q == n \div UNIT
           r == n % UNIT
<1>2. q \in Nat /\ n = UNIT * q + r
  BY <1>1, DivMod, Zenon
<1>3. r = 0 /\ Units(i) = q
  BY <1>1, Zenon DEF Units
<1> HIDE DEF n, q, r
<1>4. q * UNIT = n
  BY <1>1, <1>2, <1>3
<1> QED BY <1>2, <1>3, <1>4, Zenon DEF n

\* The three bytes hold the length.
LEMMA ThreeBytes ==
  ASSUME NEW n \in Nat, n < BYTE * BYTE * BYTE
  PROVE  (n % BYTE) + ((n \div BYTE) % BYTE) * BYTE
           + ((n \div (BYTE * BYTE)) % BYTE) * BYTE * BYTE = n
<1> DEFINE B == BYTE
           q == n \div B
           r == n % B
           q2 == q \div B
           r2 == q % B
<1>0. B \in Nat \ {0} /\ B * B \in Nat \ {0}
  BY Sizes
<1>1. q \in Nat /\ r \in 0..(B - 1) /\ n = B * q + r
  BY <1>0, DivMod
<1>2. q2 \in Nat /\ r2 \in 0..(B - 1) /\ q = B * q2 + r2
  <2> HIDE DEF q
  <2> QED BY <1>0, <1>1, DivMod
<1> HIDE DEF q, r, q2, r2, B
<1>3. n = (B * B) * q2 + (B * r2 + r) /\ B * r2 + r \in 0..(B * B - 1)
  <2>1. n = (B * B) * q2 + (B * r2 + r)
    BY <1>0, <1>1, <1>2
  <2>2. B * r2 <= B * (B - 1)
    BY <1>0, <1>2
  <2>3. B * r2 \in Nat /\ B * (B - 1) = B * B - B
    BY <1>0, <1>2
  <2> QED BY <1>0, <1>1, <1>2, <2>1, <2>2, <2>3
<1>4. n \div (B * B) = q2
  BY <1>0, <1>2, <1>3, DivUnique
<1>5. q2 < B
  <2>1. (B * B) * q2 <= n /\ n < (B * B) * B
    BY <1>0, <1>2, <1>3 DEF B
  <2> QED BY <1>0, <1>2, <2>1
<1>6. q2 % B = q2
  BY <1>0, <1>2, <1>5
<1> QED BY <1>0, <1>1, <1>2, <1>4, <1>6 DEF B, q, r, r2

\* The bytes of two strings one after the other.
LEMMA ConcatFacts ==
  ASSUME NEW d \in Seq(Byte), NEW u \in Seq(Byte)
  PROVE  /\ d \o u \in Seq(Byte) /\ Len(d \o u) = Len(d) + Len(u)
         /\ \A j \in 1..Len(d) : (d \o u)[j] = d[j]
         /\ \A j \in 1..Len(u) : (d \o u)[Len(d) + j] = u[j]
BY ConcatProperties

\* A frame: the prefix, which gives the number of units back, and the payload.
LEMMA EncFacts ==
  ASSUME NEW i \in 1..N
  PROVE  /\ Enc(i) \in Seq(Byte) /\ PL(i) \in Nat
         /\ Len(Enc(i)) = PL(i) + Len(Incoming[i])
         /\ \A j \in 1..Len(Incoming[i]) : Enc(i)[PL(i) + j] = Incoming[i][j]
         /\ Units(i) < EXT => PL(i) = 1 /\ Enc(i)[1] = Units(i)
         /\ ~(Units(i) < EXT) =>
              /\ PL(i) = 4 /\ Enc(i)[1] = EXT
              /\ Enc(i)[2] + Enc(i)[3] * BYTE + Enc(i)[4] * BYTE * BYTE = Units(i)
<1> DEFINE n == Units(i)
           p == LenPrefix(n)
           s == Incoming[i]
<1>0. /\ n \in Nat /\ s \in Seq(Byte) /\ Len(s) \in Nat
      /\ n < BYTE * BYTE * BYTE /\ Enc(i) = p \o s /\ PL(i) = Len(p)
  BY Sizes, UnitsFacts DEF Enc, Encode, PL, Units
<1>m. \A m \in Nat : m % BYTE \in Byte
  BY Sizes, DivMod DEF Byte
<1>d. n \div BYTE \in Nat /\ n \div (BYTE * BYTE) \in Nat
  <2>1. BYTE \in Nat \ {0} /\ BYTE * BYTE \in Nat \ {0}
    BY Sizes
  <2> QED BY <1>0, <2>1, DivMod, Zenon
<1>c. ASSUME NEW u \in Seq(Byte)
      PROVE  /\ u \o s \in Seq(Byte) /\ Len(u \o s) = Len(u) + Len(s)
             /\ \A j \in 1..Len(u) : (u \o s)[j] = u[j]
             /\ \A j \in 1..Len(s) : (u \o s)[Len(u) + j] = s[j]
  BY <1>0, ConcatFacts, Zenon
<1> HIDE DEF n, s
<1>1. CASE n < EXT
  <2>1. p = <<n>> /\ n \in Byte
    BY <1>0, <1>1, Sizes DEF LenPrefix, Byte
  <2>2. p \in Seq(Byte) /\ Len(p) = 1 /\ p[1] = n
    <3> HIDE DEF p
    <3> QED BY <2>1
  <2> HIDE DEF p
  <2>3. 1 \in 1..Len(p)
    BY <2>2
  <2>4. /\ p \o s \in Seq(Byte) /\ Len(p \o s) = Len(p) + Len(s)
        /\ (p \o s)[1] = p[1] /\ \A j \in 1..Len(s) : (p \o s)[Len(p) + j] = s[j]
    BY <1>c, <2>2, <2>3, Zenon
  <2>5. Len(p) \in Nat /\ Units(i) < EXT
    BY <1>1, <2>2 DEF n
  <2> QED BY <1>0, <2>2, <2>4, <2>5, Zenon DEF n, s
<1>2. CASE ~(n < EXT)
  <2> DEFINE a == n % BYTE
             b == (n \div BYTE) % BYTE
             c == (n \div (BYTE * BYTE)) % BYTE
  <2>1. p = <<EXT, a, b, c>>
    BY <1>2 DEF LenPrefix
  <2>2. EXT \in Byte /\ a \in Byte /\ b \in Byte /\ c \in Byte
    <3>1. EXT \in Byte
      BY Sizes DEF Byte
    <3> QED BY <1>0, <1>m, <1>d, <3>1, Zenon
  <2>3. a + b * BYTE + c * BYTE * BYTE = n
    BY <1>0, ThreeBytes
  <2> HIDE DEF a, b, c, p
  <2>4. p \in Seq(Byte) /\ Len(p) = 4 /\ p[1] = EXT /\ p[2] = a /\ p[3] = b /\ p[4] = c
    BY <2>1, <2>2
  <2>5. 1 \in 1..Len(p) /\ 2 \in 1..Len(p) /\ 3 \in 1..Len(p) /\ 4 \in 1..Len(p)
    BY <2>4
  <2>6. Enc(i)[1] = EXT /\ Enc(i)[2] = a /\ Enc(i)[3] = b /\ Enc(i)[4] = c
    <3>1. \A j \in 1..Len(p) : (p \o s)[j] = p[j]
      BY <1>c, <2>4, Zenon
    <3>2. \A j \in 1..Len(p) : Enc(i)[j] = p[j]
      BY <1>0, <3>1, Zenon
    <3>3. Enc(i)[1] = p[1] /\ Enc(i)[2] = p[2] /\ Enc(i)[3] = p[3] /\ Enc(i)[4] = p[4]
      BY <2>5, <3>2, Zenon
    <3> QED BY <2>4, <3>3, Zenon
  <2>7. /\ p \o s \in Seq(Byte) /\ Len(p \o s) = Len(p) + Len(s)
        /\ \A j \in 1..Len(s) : (p \o s)[Len(p) + j] = s[j]
    BY <1>c, <2>4, Zenon
  <2>8. Len(p) \in Nat /\ ~(Units(i) < EXT)
    BY <1>2, <2>4 DEF n
  <2> QED BY <1>0, <2>3, <2>4, <2>6, <2>7, <2>8, Zenon DEF n, s
<1> QED BY <1>1, <1>2

\* Where each frame starts in the stream of all of them.
StartOf(f, n) ==
  /\ f \in [1..(n + 1) -> Int] /\ f[1] = 0
  /\ \A i \in 1..n : f[i + 1] = f[i] + Len(Enc(i))

Start == CHOOSE f : StartOf(f, N)

\* Each frame starts where the one before it ends.
LEMMA StartFacts ==
  /\ \A i \in 1..(N + 1) : Start[i] \in Int
  /\ Start[1] = 0
  /\ \A i \in 1..N : Start[i + 1] = Start[i] + Len(Enc(i))
<1>n. N \in Nat /\ \A i \in 1..N : Len(Enc(i)) \in Int
  BY Sizes, EncFacts, LenProperties
<1>1. \E f : StartOf(f, N)
  <2> DEFINE Bad == {n \in Nat : n <= N /\ ~ \E f : StartOf(f, n)}
  <2> SUFFICES ASSUME N \in Bad PROVE FALSE
    BY <1>n
  <2>1. PICK n \in Bad : \A m \in Bad : n <= m
    BY Least, Zenon
  <2>2. n \in Nat /\ n <= N /\ ~ \E f : StartOf(f, n)
    OBVIOUS
  <2>3. n # 0
    <3> SUFFICES ASSUME n = 0 PROVE FALSE
      OBVIOUS
    <3>1. StartOf([i \in 1..1 |-> 0], 0)
      BY DEF StartOf
    <3> QED BY <2>2, <3>1, Zenon
  <2>4. n - 1 \in Nat /\ n - 1 <= N /\ n - 1 \notin Bad
    BY <1>n, <2>1, <2>2, <2>3
  <2>5. PICK f : StartOf(f, n - 1)
    BY <2>4
  <2> HIDE DEF Bad
  <2> DEFINE g == [i \in 1..(n + 1) |-> IF i <= n THEN f[i] ELSE f[n] + Len(Enc(n))]
  <2>6. f \in [1..n -> Int] /\ f[1] = 0
        /\ \A i \in 1..(n - 1) : f[i + 1] = f[i] + Len(Enc(i))
    BY <2>2, <2>3, <2>5 DEF StartOf
  <2>7. n \in 1..N /\ Len(Enc(n)) \in Int
    BY <1>n, <2>2, <2>3
  <2>8. g \in [1..(n + 1) -> Int] /\ g[1] = 0
    BY <2>2, <2>3, <2>6, <2>7
  <2>9. ASSUME NEW i \in 1..n PROVE g[i + 1] = g[i] + Len(Enc(i))
    BY <2>2, <2>3, <2>6, <2>7
  <2> QED BY <2>2, <2>8, <2>9 DEF StartOf
<1>2. StartOf(Start, N)
  BY <1>1, Zenon DEF Start
<1> HIDE DEF Start
<1> QED BY <1>2 DEF StartOf

-----------------------------------------------------------------------------
\* The types of what the receiver uses.
TType ==
  /\ t \in [pc : {"idle", "prefix", "payload", "first", "extra", "body"},
            data : Seq(Byte), len : Nat]
  /\ down \in Seq(Byte) /\ served \in 0..N
  /\ got \in Seq(Seq(Byte)) /\ failed \in BOOLEAN

\* The frame being received, what was read of it, and of the stream.
Cur == Len(got) + 1
Consumed == IF t.pc = "extra" THEN 1
            ELSE IF t.pc = "body" THEN PL(Cur) + Len(t.data) ELSE 0
Base == Start[served + 1] - Len(down)

\* d is the stream of the frames i..j from the position b on.
Stream(d, b, lo, hi) ==
  \A i \in lo..hi : \A j \in 1..Len(Enc(i)) :
    Start[i] + j > b => /\ Start[i] + j - b <= Len(d)
                        /\ d[Start[i] + j - b] = Enc(i)[j]

\* Why transport_recv stays in step: what is left to read begins as many bytes
\* after the start of the frame it is at as it has read of that frame.
InStep ==
  /\ Len(got) <= served
  /\ Base = Start[Cur] + Consumed
  /\ Stream(down, Base, Cur, served)
  /\ t.pc = "extra" => Cur <= served /\ ~(Units(Cur) < EXT)
  /\ t.pc = "body" =>
       /\ Cur <= served /\ t.len = Len(Incoming[Cur]) /\ Len(t.data) < t.len
       /\ \A j \in 1..Len(t.data) : t.data[j] = Incoming[Cur][j]

ChanInv == TType /\ (~failed => InStep)

\* What a step may do to the frames sent and received.
ChanStep ==
  \/ failed'
  \/ UNCHANGED <<got, served, failed>>
  \/ Cur <= served /\ got' = Append(got, Incoming[Cur]) /\ UNCHANGED <<served, failed>>
  \/ served < N /\ served' = served + 1 /\ UNCHANGED <<got, failed>>

\* What is left of a string when its first bytes are taken.
LEMMA RestFacts ==
  ASSUME NEW d \in Seq(Byte), NEW k \in 0..Len(d)
  PROVE  /\ Rest(d, k) \in Seq(Byte) /\ Len(Rest(d, k)) = Len(d) - k
         /\ \A x \in 1..(Len(d) - k) : Rest(d, k)[x] = d[x + k]
BY SubSeqProperties, LenProperties DEF Rest

\* The first byte and the rest.
LEMMA TailFacts ==
  ASSUME NEW d \in Seq(Byte), d # <<>>
  PROVE  Tail(d) = Rest(d, 1) /\ Head(d) = d[1] /\ 1 \in 0..Len(d)
BY HeadTailProperties, LenProperties, EmptySeq DEF Rest

\* Reading takes bytes off the front.
LEMMA StreamRead ==
  ASSUME NEW d \in Seq(Byte), NEW k \in 0..Len(d), NEW b \in Int, NEW lo \in Nat \ {0},
         NEW hi \in 0..N, Stream(d, b, lo, hi)
  PROVE  Stream(Rest(d, k), b + k, lo, hi)
<1> SUFFICES ASSUME NEW i \in lo..hi, NEW j \in 1..Len(Enc(i)), Start[i] + j > b + k
             PROVE  /\ Start[i] + j - (b + k) <= Len(Rest(d, k))
                    /\ Rest(d, k)[Start[i] + j - (b + k)] = Enc(i)[j]
  BY DEF Stream
<1>1. i \in 1..N /\ Start[i] \in Int /\ Len(Enc(i)) \in Int /\ Len(d) \in Nat
  <2>1. i \in 1..N
    BY Sizes
  <2> QED BY <2>1, Sizes, StartFacts, EncFacts, LenProperties
<1> DEFINE a == Start[i]
<1>a. a \in Int /\ j \in Int /\ k \in Nat /\ k <= Len(d) /\ a + j > b + k
  BY <1>1
<1>2. Start[i] + j - b <= Len(d) /\ d[Start[i] + j - b] = Enc(i)[j]
  <2> HIDE DEF a
  <2>1. a + j > b
    BY <1>a
  <2> QED BY <2>1, Zenon DEF Stream, a
<1> DEFINE x == Start[i] + j - (b + k)
<1>3. x \in 1..(Len(d) - k) /\ x + k = Start[i] + j - b
  <2>1. a + j - b <= Len(d)
    BY <1>2
  <2>2. x = a + j - (b + k) /\ Start[i] + j - b = a + j - b
    OBVIOUS
  <2> HIDE DEF a, x
  <2> QED BY <1>1, <1>a, <2>1, <2>2
<1>4. Rest(d, k)[x] = d[x + k] /\ Len(Rest(d, k)) = Len(d) - k
  BY <1>3, RestFacts
<1>5. x <= Len(d) - k
  BY <1>1, <1>3
<1> HIDE DEF x
<1> QED BY <1>2, <1>3, <1>4, <1>5 DEF x

\* Facts about the current frame and where the receiver is.
LEMMA CurFacts ==
  ASSUME TType
  PROVE  /\ Len(got) \in Nat /\ Len(down) \in Nat /\ served \in Nat /\ Cur \in Nat \ {0}
         /\ N \in Nat /\ served <= N
         /\ Start[served + 1] \in Int /\ Base \in Int
         /\ Cur <= served => /\ Cur \in 1..N /\ Start[Cur] \in Int
                             /\ Start[Cur + 1] = Start[Cur] + PL(Cur) + Len(Incoming[Cur])
                             /\ PL(Cur) \in Nat /\ Len(Incoming[Cur]) \in Nat
<1>1. Len(got) \in Nat /\ Len(down) \in Nat /\ served \in Nat /\ N \in Nat /\ served <= N
  BY LenProperties, Sizes DEF TType
<1>2. Cur \in Nat \ {0} /\ served + 1 \in 1..(N + 1)
  BY <1>1 DEF Cur
<1>3. Start[served + 1] \in Int
  BY <1>2, StartFacts, Zenon
<1>4. Base \in Int
  BY <1>1, <1>3 DEF Base
<1>5. ASSUME Cur <= served
      PROVE  /\ Cur \in 1..N /\ Start[Cur] \in Int
             /\ Start[Cur + 1] = Start[Cur] + PL(Cur) + Len(Incoming[Cur])
             /\ PL(Cur) \in Nat /\ Len(Incoming[Cur]) \in Nat
  <2>1. Cur \in 1..N /\ Cur \in 1..(N + 1)
    BY <1>1, <1>2, <1>5
  <2>2. Start[Cur] \in Int /\ Start[Cur + 1] = Start[Cur] + Len(Enc(Cur))
    BY <2>1, StartFacts, Zenon
  <2>3. /\ PL(Cur) \in Nat /\ Len(Incoming[Cur]) \in Nat
        /\ Len(Enc(Cur)) = PL(Cur) + Len(Incoming[Cur])
    BY <2>1, EncFacts, Sizes
  <2> QED BY <2>1, <2>2, <2>3
<1> QED BY <1>1, <1>2, <1>3, <1>4, <1>5

\* Reading k bytes moves the position by k.
LEMMA ReadDown ==
  ASSUME TType, InStep, NEW k \in 0..Len(down), down' = Rest(down, k), served' = served
  PROVE  /\ down' \in Seq(Byte) /\ Base' = Base + k
         /\ Stream(down, Base, Cur, served)' = Stream(down', Base + k, Cur', served)
         /\ Stream(down', Base + k, Cur, served)
<1>1. down' \in Seq(Byte) /\ Len(down') = Len(down) - k
  BY RestFacts DEF TType
<1>2. Base' = Base + k
  <2> DEFINE a == Start[served + 1]
  <2>1. a \in Int /\ Len(down) \in Nat /\ k \in Int
    BY CurFacts
  <2>2. Base = a - Len(down) /\ Base' = a - Len(down')
    BY DEF Base
  <2> HIDE DEF a
  <2> QED BY <1>1, <2>1, <2>2
<1>3. Stream(down', Base + k, Cur, served)
  <2>1. Base \in Int /\ Cur \in Nat \ {0} /\ served \in 0..N /\ down \in Seq(Byte)
    BY CurFacts DEF TType
  <2> QED BY <2>1, StreamRead DEF InStep
<1> QED BY <1>1, <1>2, <1>3 DEF Stream

\* The byte the receiver is at.
LEMMA ByteAt ==
  ASSUME TType, InStep, Cur <= served, NEW x \in Nat \ {0}, Consumed \in Nat,
         Consumed + x <= PL(Cur) + Len(Incoming[Cur])
  PROVE  x <= Len(down) /\ down[x] = Enc(Cur)[Consumed + x]
<1> DEFINE j == Consumed + x
           a == Start[Cur]
<1>1. Cur \in Cur..served /\ Cur \in 1..N /\ a \in Int
  BY CurFacts
<1>2. Len(Enc(Cur)) = PL(Cur) + Len(Incoming[Cur])
  BY <1>1, EncFacts
<1>3. j \in 1..Len(Enc(Cur))
  BY <1>2, CurFacts
<1>4. Base = a + Consumed
  BY DEF InStep
<1>5. a + j > Base /\ a + j - Base = x
  <2> HIDE DEF a
  <2> QED BY <1>1, <1>4
<1>6. Stream(down, Base, Cur, served)
  BY DEF InStep
<1>7. a + j - Base <= Len(down) /\ down[a + j - Base] = Enc(Cur)[j]
  BY <1>1, <1>3, <1>5, <1>6, Zenon DEF Stream
<1> QED BY <1>5, <1>7, Zenon

\* The frame is complete and returned.
LEMMA Delivered ==
  ASSUME TType, ~failed, Cur <= served, got' = Append(got, Incoming[Cur]), t' = Idle,
         down' \in Seq(Byte), served' = served, failed' = failed,
         Base' = Start[Cur + 1], Stream(down', Base', Cur, served)
  PROVE  ChanInv' /\ ChanStep
<1>1. /\ Cur \in Nat \ {0} /\ Cur \in 1..N /\ served \in Nat /\ Len(got) \in Nat
      /\ Start[Cur + 1] \in Int /\ got \in Seq(Seq(Byte))
  <2>1. Cur \in 1..N /\ N \in Nat
    BY CurFacts, Zenon
  <2>2. Cur + 1 \in 1..(N + 1)
    BY <2>1
  <2> QED BY <2>1, <2>2, CurFacts, StartFacts DEF TType
<1>2. got' \in Seq(Seq(Byte)) /\ Len(got') = Len(got) + 1
  BY <1>1, Sizes, AppendProperties
<1>3. Cur' = Cur + 1 /\ Len(got') = Cur
  BY <1>1, <1>2 DEF Cur
<1>4. t'.pc = "idle"
      /\ t' \in [pc : {"idle", "prefix", "payload", "first", "extra", "body"},
                              data : Seq(Byte), len : Nat]
  BY DEF Idle
<1>5. TType'
  BY <1>2, <1>4, Zenon DEF TType
<1>6. Consumed' = 0
  BY <1>4, Zenon DEF Consumed
<1>7. Stream(down', Base', Cur + 1, served)
  <2>1. \A i \in (Cur + 1)..served : i \in Cur..served
    BY <1>1
  <2> QED BY <2>1, Zenon DEF Stream
<1>8. Base' = Start[Cur'] + Consumed'
  BY <1>1, <1>3, <1>6
<1>9. Stream(down, Base, Cur, served)'
  BY <1>3, <1>7, Zenon DEF Stream
<1>10. InStep'
  BY <1>3, <1>4, <1>8, <1>9 DEF InStep
<1> QED BY <1>5, <1>10, Zenon DEF ChanInv, ChanStep

\* The length is read.
LEMMA LengthGot ==
  ASSUME TType, InStep, ~failed, Cur <= served, down' \in Seq(Byte), served' = served,
         Base' = Start[Cur] + PL(Cur), Stream(down', Base', Cur, served),
         LengthRead(Units(Cur))
  PROVE  ChanInv' /\ ChanStep
<1>1. /\ Cur \in 1..N /\ Units(Cur) * UNIT = Len(Incoming[Cur])
      /\ Len(Incoming[Cur]) \in Nat
      /\ Incoming[Cur] \in Seq(Byte) /\ Start[Cur] \in Int /\ PL(Cur) \in Nat
      /\ Start[Cur + 1] = Start[Cur] + PL(Cur) + Len(Incoming[Cur])
  BY CurFacts, UnitsFacts, Sizes
<1>2. CASE Units(Cur) * UNIT = 0
  <2>1. Incoming[Cur] = <<>>
    BY <1>1, <1>2, EmptySeq
  <2>2. t' = Idle /\ got' = Append(got, Incoming[Cur]) /\ failed' = failed
    BY <1>2, <2>1, Zenon DEF LengthRead
  <2>3. Base' = Start[Cur + 1]
    BY <1>1, <1>2
  <2> QED BY <2>2, <2>3, Delivered
<1>3. CASE Units(Cur) * UNIT # 0 /\ Units(Cur) * UNIT > MAX_LEN
  <2>1. t' = Idle /\ failed' = TRUE /\ got' = got
    BY <1>3, Zenon DEF LengthRead
  <2>2. t' \in [pc : {"idle", "prefix", "payload", "first", "extra", "body"},
               data : Seq(Byte), len : Nat]
    BY <2>1 DEF Idle
  <2> QED BY <2>1, <2>2, Zenon DEF TType, ChanInv, ChanStep
<1>4. CASE Units(Cur) * UNIT # 0 /\ ~(Units(Cur) * UNIT > MAX_LEN)
  <2>1. /\ t' = [pc |-> "body", data |-> <<>>, len |-> Len(Incoming[Cur])]
        /\ got' = got /\ failed' = failed
    BY <1>1, <1>4, Zenon DEF LengthRead
  <2>2. /\ t' \in [pc : {"idle", "prefix", "payload", "first", "extra", "body"},
                  data : Seq(Byte), len : Nat]
        /\ t'.pc = "body" /\ t'.data = <<>> /\ t'.len = Len(Incoming[Cur])
    BY <1>1, <2>1
  <2>3. Cur' = Cur /\ Len(t'.data) = 0
    BY <2>1, <2>2 DEF Cur
  <2>4. TType'
    BY <2>1, <2>2, Zenon DEF TType
  <2>5. PL(Cur)' = PL(Cur) /\ Incoming[Cur]' = Incoming[Cur]
    BY <2>3, Zenon DEF PL, Units
  <2>6. Consumed' = PL(Cur)
    BY <1>1, <2>2, <2>3, <2>5 DEF Consumed
  <2>7. Base' = Start[Cur'] + Consumed'
    BY <2>3, <2>6, Zenon
  <2>8. Stream(down, Base, Cur, served)'
    BY <2>3, Zenon DEF Stream
  <2>9. Len(t'.data) < t'.len /\ \A j \in 1..Len(t'.data) : t'.data[j] = Incoming[Cur][j]
    BY <1>1, <1>4, <2>2, <2>3
  <2>10. Len(got') <= served' /\ Cur' <= served'
    BY <2>1, <2>3, Zenon DEF InStep
  <2>11. InStep'
    BY <2>2, <2>3, <2>7, <2>8, <2>9, <2>10 DEF InStep
  <2> QED BY <2>1, <2>4, <2>11, Zenon DEF ChanInv, ChanStep
<1> QED BY <1>2, <1>3, <1>4, Zenon

\* recv_first: one byte gives the length or announces three more.
LEMMA RecvFirst ==
  ASSUME ChanInv, ~failed, recv_first
  PROVE  ChanInv' /\ ChanStep
<1>0. TType /\ InStep /\ t.pc = "first" /\ down # <<>> /\ served' = served
  BY Zenon DEF ChanInv, recv_first
<1>1. Consumed = 0 /\ Len(down) \in Nat \ {0}
  BY <1>0, EmptySeq, LenProperties DEF Consumed, TType
<1>2. Cur <= served
  <2> SUFFICES ASSUME ~(Cur <= served) PROVE FALSE
    OBVIOUS
  <2>1. Cur = served + 1
    BY <1>0, CurFacts DEF InStep, Cur
  <2>2. Base = Start[served + 1] + 0
    BY <1>0, <1>1, <2>1, Zenon DEF InStep
  <2> DEFINE a == Start[served + 1]
  <2>3. a \in Int /\ Base = a - Len(down)
    BY <1>0, CurFacts DEF Base
  <2> HIDE DEF a
  <2> QED BY <1>1, <2>2, <2>3 DEF a
<1>3. /\ Cur \in 1..N /\ PL(Cur) \in Nat /\ Len(Incoming[Cur]) \in Nat /\ Start[Cur] \in Int
      /\ Units(Cur) \in Nat
  BY <1>0, <1>2, CurFacts, UnitsFacts
<1>4. /\ Units(Cur) < EXT => PL(Cur) = 1 /\ Enc(Cur)[1] = Units(Cur)
      /\ ~(Units(Cur) < EXT) => PL(Cur) = 4 /\ Enc(Cur)[1] = EXT
  BY <1>3, EncFacts, Zenon
<1>5. down[1] = Enc(Cur)[1]
  <2>1. Consumed + 1 <= PL(Cur) + Len(Incoming[Cur]) /\ Consumed + 1 = 1
    BY <1>1, <1>3, <1>4
  <2> QED BY <1>0, <1>1, <1>2, <2>1, ByteAt
<1>6. Head(down) = down[1] /\ down' = Rest(down, 1) /\ 1 \in 0..Len(down)
  BY <1>0, TailFacts DEF recv_first, TType
<1>7. down' \in Seq(Byte) /\ Base' = Base + 1 /\ Stream(down', Base + 1, Cur, served)
  BY <1>0, <1>6, ReadDown
<1>8. Base' = Start[Cur] + 1
  BY <1>0, <1>1, <1>3, <1>7 DEF InStep
<1>9. CASE Units(Cur) < EXT
  <2>1. Head(down) = Units(Cur) /\ PL(Cur) = 1
    BY <1>4, <1>5, <1>6, <1>9
  <2>2. LengthRead(Units(Cur))
    BY <1>9, <2>1, Zenon DEF recv_first
  <2>3. Base' = Start[Cur] + PL(Cur) /\ Stream(down', Base', Cur, served)
    BY <1>7, <1>8, <2>1, Zenon
  <2> QED BY <1>0, <1>2, <1>7, <2>2, <2>3, LengthGot
<1>10. CASE ~(Units(Cur) < EXT)
  <2>1. Head(down) = EXT
    BY <1>4, <1>5, <1>6, <1>10
  <2>2. ~(Head(down) < EXT)
    BY <2>1, Sizes
  <2>3. t' = [t EXCEPT !.pc = "extra"] /\ got' = got /\ failed' = failed
    BY <2>2, Zenon DEF recv_first
  <2>4. /\ t' \in [pc : {"idle", "prefix", "payload", "first", "extra", "body"},
                  data : Seq(Byte), len : Nat]
        /\ t'.pc = "extra"
    BY <1>0, <2>3 DEF TType
  <2>5. TType'
    BY <1>0, <1>7, <2>3, <2>4, Zenon DEF TType
  <2>6. Cur' = Cur /\ Consumed' = 1
    BY <2>3, <2>4 DEF Cur, Consumed
  <2>7. Stream(down, Base, Cur, served)'
    BY <1>0, <1>7, <2>6, Zenon DEF Stream
  <2>8. Units(Cur)' = Units(Cur)
    BY <2>6, Zenon DEF Units
  <2>9. InStep'
    BY <1>0, <1>2, <1>8, <1>10, <2>3, <2>4, <2>6, <2>7, <2>8 DEF InStep
  <2> QED BY <1>0, <2>3, <2>5, <2>9, Zenon DEF ChanInv, ChanStep
<1> QED BY <1>9, <1>10, Zenon

\* recv_extra: three bytes give the length, fewer fail.
LEMMA RecvExtra ==
  ASSUME ChanInv, ~failed, NEW k, recv_extra(k)
  PROVE  ChanInv' /\ ChanStep
<1>0. /\ TType /\ InStep /\ t.pc = "extra" /\ k \in 1..3 /\ k <= Len(down)
      /\ down' = Rest(down, k) /\ served' = served
  BY Zenon DEF ChanInv, recv_extra
<1>1. Consumed = 1 /\ Cur <= served /\ ~(Units(Cur) < EXT) /\ k \in 0..Len(down)
  BY <1>0, CurFacts DEF Consumed, InStep
<1>3. /\ Cur \in 1..N /\ PL(Cur) \in Nat /\ Len(Incoming[Cur]) \in Nat /\ Start[Cur] \in Int
  BY <1>0, <1>1, CurFacts
<1>4. /\ PL(Cur) = 4
      /\ Enc(Cur)[2] + Enc(Cur)[3] * BYTE + Enc(Cur)[4] * BYTE * BYTE = Units(Cur)
  BY <1>1, <1>3, EncFacts, Zenon
<1>5. down' \in Seq(Byte) /\ Base' = Base + k /\ Stream(down', Base + k, Cur, served)
  BY <1>0, <1>1, ReadDown
<1>6. CASE k = 3
  <2>1. /\ Consumed + 1 <= PL(Cur) + Len(Incoming[Cur]) /\ Consumed + 1 = 2
        /\ Consumed + 2 <= PL(Cur) + Len(Incoming[Cur]) /\ Consumed + 2 = 3
        /\ Consumed + 3 <= PL(Cur) + Len(Incoming[Cur]) /\ Consumed + 3 = 4
        /\ Consumed \in Nat
    BY <1>1, <1>3, <1>4
  <2>2. down[1] = Enc(Cur)[2] /\ down[2] = Enc(Cur)[3] /\ down[3] = Enc(Cur)[4]
    <3>1. down[1] = Enc(Cur)[Consumed + 1]
      BY <1>0, <1>1, <2>1, ByteAt
    <3>2. down[2] = Enc(Cur)[Consumed + 2]
      BY <1>0, <1>1, <2>1, ByteAt
    <3>3. down[3] = Enc(Cur)[Consumed + 3]
      BY <1>0, <1>1, <2>1, ByteAt
    <3> QED BY <2>1, <3>1, <3>2, <3>3, Zenon
  <2>3. LengthRead(down[1] + down[2] * BYTE + down[3] * BYTE * BYTE)
    BY <1>6, Zenon DEF recv_extra
  <2>4. LengthRead(Units(Cur))
    BY <1>4, <2>2, <2>3, Zenon
  <2>5. Base' = Start[Cur] + PL(Cur) /\ Stream(down', Base', Cur, served)
    <3>1. Base = Start[Cur] + 1
      BY <1>0, <1>1, Zenon DEF InStep
    <3>2. Base' = Start[Cur] + PL(Cur)
      BY <1>3, <1>4, <1>5, <1>6, <3>1
    <3> QED BY <1>5, <3>2, Zenon
  <2> QED BY <1>0, <1>1, <1>5, <2>4, <2>5, LengthGot
<1>7. CASE k # 3
  <2>1. t' = Idle /\ failed' = TRUE /\ got' = got
    BY <1>7, Zenon DEF recv_extra
  <2>2. t' \in [pc : {"idle", "prefix", "payload", "first", "extra", "body"},
               data : Seq(Byte), len : Nat]
    BY <2>1 DEF Idle
  <2> QED BY <1>0, <1>5, <2>1, <2>2, Zenon DEF TType, ChanInv, ChanStep
<1> QED BY <1>6, <1>7, Zenon

\* recv_body: the bytes taken are the next ones of the payload.
LEMMA RecvBody ==
  ASSUME ChanInv, ~failed, NEW k, recv_body(k)
  PROVE  ChanInv' /\ ChanStep
<1> DEFINE new == t.data \o First(down, k)
           m == Len(t.data)
<1>0. /\ TType /\ InStep /\ t.pc = "body" /\ k \in 1..Len(down) /\ k <= t.len - m
      /\ down' = Rest(down, k) /\ served' = served /\ failed' = failed
      /\ IF Len(new) = t.len
         THEN t' = Idle /\ got' = Append(got, new)
         ELSE t' = [t EXCEPT !.data = new] /\ got' = got
  BY Zenon DEF ChanInv, recv_body
<1>1. /\ Cur <= served /\ t.len = Len(Incoming[Cur]) /\ Consumed = PL(Cur) + m
      /\ m \in Nat /\ Len(down) \in Nat /\ m < t.len
      /\ \A j \in 1..m : t.data[j] = Incoming[Cur][j]
      /\ t.data \in Seq(Byte) /\ down \in Seq(Byte)
  <2>1. t.data \in Seq(Byte) /\ m \in Nat
    BY <1>0, LenProperties DEF TType
  <2> QED BY <1>0, <2>1, CurFacts DEF Consumed, InStep, TType
<1>2. /\ k \in Nat \ {0} /\ k <= Len(down) /\ m + k <= t.len /\ k \in 0..Len(down)
      /\ t.len \in Nat
  <2>1. t.len \in Nat
    BY <1>0 DEF TType
  <2> HIDE DEF m
  <2> QED BY <1>0, <1>1, <2>1
<1>3. /\ Cur \in 1..N /\ PL(Cur) \in Nat /\ Len(Incoming[Cur]) \in Nat /\ Start[Cur] \in Int
      /\ Incoming[Cur] \in Seq(Byte)
      /\ Start[Cur + 1] = Start[Cur] + PL(Cur) + Len(Incoming[Cur])
  BY <1>0, <1>1, CurFacts, Sizes
<1>4. down' \in Seq(Byte) /\ Base' = Base + k /\ Stream(down', Base + k, Cur, served)
  BY <1>0, <1>2, ReadDown
<1>5. Base' = Start[Cur] + PL(Cur) + m + k
  <2>1. Base = Start[Cur] + (PL(Cur) + m)
    BY <1>0, <1>1, Zenon DEF InStep
  <2> HIDE DEF m
  <2> QED BY <1>1, <1>2, <1>3, <1>4, <2>1, SMTT(20)
<1>6. /\ First(down, k) \in Seq(Byte) /\ Len(First(down, k)) = k
      /\ \A j \in 1..k : First(down, k)[j] = down[j]
  BY <1>1, <1>2, SubSeqProperties DEF First
<1>7. /\ new \in Seq(Byte) /\ Len(new) = m + k
      /\ \A j \in 1..m : new[j] = t.data[j]
      /\ \A j \in 1..k : new[m + j] = down[j]
  <2> DEFINE u == First(down, k)
  <2>1. u \in Seq(Byte) /\ Len(u) = k /\ \A j \in 1..k : u[j] = down[j]
    BY <1>6
  <2> HIDE DEF u
  <2>2. /\ t.data \o u \in Seq(Byte) /\ Len(t.data \o u) = m + k
        /\ \A j \in 1..m : (t.data \o u)[j] = t.data[j]
        /\ \A j \in 1..k : (t.data \o u)[m + j] = u[j]
    <3> DEFINE d == t.data
    <3>1. d \in Seq(Byte) /\ m = Len(d)
      BY <1>1
    <3> HIDE DEF d, m
    <3>2. /\ d \o u \in Seq(Byte) /\ Len(d \o u) = m + k
          /\ \A j \in 1..m : (d \o u)[j] = d[j]
          /\ \A j \in 1..k : (d \o u)[m + j] = u[j]
      BY <2>1, <3>1, ConcatFacts, Zenon
    <3> QED BY <3>2, Zenon DEF d
  <2> QED BY <2>1, <2>2, Zenon DEF u
<1>8. \A j \in 1..(m + k) : new[j] = Incoming[Cur][j]
  <2> SUFFICES ASSUME NEW j \in 1..(m + k) PROVE new[j] = Incoming[Cur][j]
    OBVIOUS
  <2> HIDE DEF new, m
  <2>1. CASE j <= m
    BY <1>1, <1>7, <2>1
  <2>2. CASE j > m
    <3> DEFINE x == j - m
    <3>1. /\ x \in Nat \ {0} /\ x \in 1..k /\ m + x = j /\ j \in 1..Len(Incoming[Cur])
          /\ Consumed \in Nat /\ Consumed + x = PL(Cur) + j
          /\ Consumed + x <= PL(Cur) + Len(Incoming[Cur])
      <4> DEFINE q == PL(Cur)
                 z == Len(Incoming[Cur])
      <4>1. /\ q \in Nat /\ z \in Nat /\ m \in Nat /\ k \in Nat /\ m + k <= z
            /\ Consumed = q + m
        BY <1>1, <1>2, <1>3, Zenon
      <4> HIDE DEF q, z
      <4>2. /\ x \in Nat \ {0} /\ x \in 1..k /\ m + x = j /\ j \in 1..z
            /\ Consumed \in Nat /\ Consumed + x = q + j /\ Consumed + x <= q + z
        BY <2>2, <4>1
      <4> QED BY <4>2 DEF q, z
    <3> HIDE DEF x
    <3>2. down[x] = Enc(Cur)[Consumed + x]
      BY <1>0, <1>1, <3>1, ByteAt, SMTT(20)
    <3>3. Enc(Cur)[PL(Cur) + j] = Incoming[Cur][j]
      BY <1>3, <3>1, EncFacts, Zenon
    <3> QED BY <1>7, <3>1, <3>2, <3>3, Zenon
  <2> QED BY <1>1, <2>1, <2>2
<1> HIDE DEF new, m
<1>9. CASE Len(new) = t.len
  <2>1. new = Incoming[Cur]
    BY <1>1, <1>3, <1>7, <1>8, <1>9, SeqEqual
  <2>2. t' = Idle /\ got' = Append(got, Incoming[Cur])
    BY <1>0, <1>9, <2>1, Zenon
  <2>3. Base' = Start[Cur + 1]
    <3>1. m + k = Len(Incoming[Cur])
      BY <1>1, <1>7, <1>9, Zenon
    <3> DEFINE a == Start[Cur]
               q == PL(Cur)
    <3>2. a \in Int /\ q \in Nat /\ m \in Nat /\ k \in Nat /\ Base' = a + q + m + k
          /\ Start[Cur + 1] = a + q + (m + k)
      BY <1>1, <1>2, <1>3, <1>5, <3>1, Zenon
    <3> HIDE DEF a, q
    <3> QED BY <3>2
  <2> QED BY <1>0, <1>1, <1>4, <2>2, <2>3, Delivered
<1>10. CASE Len(new) # t.len
  <2>1. t' = [t EXCEPT !.data = new] /\ got' = got
    BY <1>0, <1>10, Zenon
  <2>2. /\ t' \in [pc : {"idle", "prefix", "payload", "first", "extra", "body"},
                  data : Seq(Byte), len : Nat]
        /\ t'.pc = "body" /\ t'.data = new /\ t'.len = t.len
    BY <1>0, <1>7, <2>1 DEF TType
  <2>3. Cur' = Cur
    BY <2>1 DEF Cur
  <2>4. TType'
    BY <1>0, <1>4, <2>1, <2>2, Zenon DEF TType
  <2>5. PL(Cur)' = PL(Cur)
    BY <2>3, Zenon DEF PL, Units
  <2>6. Consumed' = PL(Cur) + (m + k)
    BY <1>7, <2>2, <2>3, <2>5 DEF Consumed
  <2>7. Base' = Start[Cur'] + Consumed'
    BY <1>1, <1>2, <1>3, <1>5, <2>3, <2>6, SMTT(20)
  <2>8. Stream(down, Base, Cur, served)'
    BY <1>0, <1>4, <2>3, Zenon DEF Stream
  <2>9. Len(t'.data) < t'.len
    BY <1>1, <1>2, <1>7, <1>10, <2>2
  <2>10. \A j \in 1..Len(t'.data) : t'.data[j] = Incoming[Cur][j]
    BY <1>7, <1>8, <2>2, Zenon
  <2>11. Len(got') <= served' /\ Cur' <= served' /\ t'.len = Len(Incoming[Cur'])
    BY <1>0, <1>1, <2>1, <2>2, <2>3, Zenon DEF InStep
  <2>12. InStep'
    BY <2>2, <2>3, <2>7, <2>8, <2>9, <2>10, <2>11 DEF InStep
  <2> QED BY <1>0, <2>1, <2>4, <2>12, Zenon DEF ChanInv, ChanStep
<1> QED BY <1>9, <1>10, Zenon

\* The server writes its next frame behind the others.
LEMMA ServeStep ==
  ASSUME ChanInv, ~failed, Serve
  PROVE  ChanInv' /\ ChanStep
<1> DEFINE i == served + 1
<1>0. /\ TType /\ InStep /\ served < N /\ served' = i /\ down' = down \o Enc(i)
      /\ t' = t /\ got' = got /\ failed' = failed
  BY Zenon DEF ChanInv, Serve, N, Enc
<1>1. /\ i \in 1..N /\ i \in Nat /\ served \in Nat /\ N \in Nat /\ Len(down) \in Nat
      /\ Cur \in Nat \ {0} /\ Base \in Int /\ down \in Seq(Byte)
  BY <1>0, CurFacts DEF TType
<1>2. Enc(i) \in Seq(Byte) /\ Len(Enc(i)) \in Nat
  BY <1>1, EncFacts, LenProperties
<1> DEFINE a == Start[i]
           b == Start[i + 1]
<1>3. a \in Int /\ b = a + Len(Enc(i)) /\ Base = a - Len(down)
  <2>1. i \in 1..(N + 1)
    BY <1>1
  <2> QED BY <1>1, <2>1, StartFacts, Zenon DEF Base
<1>4. /\ down' \in Seq(Byte) /\ Len(down') = Len(down) + Len(Enc(i))
      /\ \A j \in 1..Len(down) : down'[j] = down[j]
      /\ \A j \in 1..Len(Enc(i)) : down'[Len(down) + j] = Enc(i)[j]
  BY <1>0, <1>1, <1>2, ConcatProperties
<1>5. Base' = Base
  <2>1. Base' = b - Len(down')
    BY <1>0, Zenon DEF Base
  <2> HIDE DEF a, b
  <2> QED BY <1>1, <1>2, <1>3, <1>4, <2>1
<1>6. Cur' = Cur /\ Consumed' = Consumed /\ Units(Cur)' = Units(Cur)
  BY <1>0, Zenon DEF Cur, Consumed, PL, Units
<1>7. TType'
  <2>1. served' \in 0..N
    BY <1>0, <1>1
  <2> QED BY <1>0, <1>4, <2>1, Zenon DEF TType
<1>8. Stream(down', Base, Cur, i)
  <2> SUFFICES ASSUME NEW x \in Cur..i, NEW j \in 1..Len(Enc(x)), Start[x] + j > Base
               PROVE  /\ Start[x] + j - Base <= Len(down')
                      /\ down'[Start[x] + j - Base] = Enc(x)[j]
    BY Zenon DEF Stream
  <2>1. CASE x = i
    <3>1. Start[x] + j - Base = Len(down) + j /\ j \in 1..Len(Enc(i)) /\ Enc(x) = Enc(i)
      <4>1. Start[x] = a /\ j \in 1..Len(Enc(i)) /\ Enc(x) = Enc(i)
        BY <2>1, Zenon
      <4> HIDE DEF a, i
      <4> QED BY <1>1, <1>2, <1>3, <4>1
    <3>2. Len(down) + j <= Len(down')
      BY <1>1, <1>2, <1>4, <3>1
    <3> QED BY <1>4, <3>1, <3>2, Zenon
  <2>2. CASE x # i
    <3>1. x \in Cur..served /\ x \in 1..(N + 1)
      BY <1>1, <2>2
    <3> DEFINE y == Start[x] + j - Base
    <3>2. y <= Len(down) /\ down[y] = Enc(x)[j]
      BY <1>0, <3>1, Zenon DEF InStep, Stream
    <3>3. y \in Int /\ y > 0
      <4> DEFINE c == Start[x]
      <4>1. c \in Int /\ c + j > Base
        BY <3>1, StartFacts
      <4> HIDE DEF c
      <4>2. c + j - Base \in Int /\ c + j - Base > 0
        BY <1>1, <4>1
      <4> QED BY <4>2 DEF c
    <3> HIDE DEF y
    <3>4. y \in 1..Len(down) /\ y <= Len(down')
      BY <1>1, <1>2, <1>4, <3>2, <3>3
    <3>5. down'[y] = Enc(x)[j]
      BY <1>4, <3>2, <3>4, Zenon
    <3> QED BY <3>4, <3>5 DEF y
  <2> QED BY <2>1, <2>2, Zenon
<1>9. Stream(down, Base, Cur, served)'
  BY <1>0, <1>5, <1>6, <1>8, Zenon DEF Stream
<1>10. Len(got') <= served' /\ (Cur <= served => Cur' <= served')
  BY <1>0, <1>1, <1>6, CurFacts DEF InStep
<1>11. Base' = Start[Cur'] + Consumed'
  BY <1>0, <1>5, <1>6, Zenon DEF InStep
<1>12. InStep'
  BY <1>0, <1>6, <1>9, <1>10, <1>11, Zenon DEF InStep
<1> QED BY <1>0, <1>7, <1>12, Zenon DEF ChanInv, ChanStep

\* Every step keeps the types, and a failure is never forgotten.
LEMMA TypeStep ==
  ASSUME TType, [TNext]_tvars
  PROVE  TType' /\ (failed => failed')
<1> DEFINE Call == [pc : {"idle", "prefix", "payload", "first", "extra", "body"},
                    data : Seq(Byte), len : Nat]
<1>t. /\ t \in Call /\ down \in Seq(Byte) /\ served \in 0..N
      /\ got \in Seq(Seq(Byte)) /\ failed \in BOOLEAN
  BY Zenon DEF TType
<1>i. Idle \in Call
  BY DEF Idle
<1>e. <<>> \in Seq(Byte) /\ \A d \in Outgoing : d \in Seq(Byte)
  BY SizesAssumption DEF Byte
<1>p. \A x \in {"idle", "prefix", "payload", "first", "extra", "body"} :
        [t EXCEPT !.pc = x] \in Call
  BY <1>t
<1>l. \A x \in Nat : [t EXCEPT !.len = x] \in Call
  BY <1>t
<1>d. \A x \in Seq(Byte) : [t EXCEPT !.data = x] \in Call
  BY <1>t
<1>a. \A x \in Seq(Byte) : Append(got, x) \in Seq(Seq(Byte))
  BY <1>t
<1>n. \A x \in {"prefix", "first", "body"} : \A y \in Seq(Byte) : \A z \in Nat :
        [pc |-> x, data |-> y, len |-> z] \in Call
  OBVIOUS
<1>z. t.data \in Seq(Byte) /\ t.len \in Nat /\ Len(down) \in Nat
  BY <1>t, LenProperties
<1>f. (\A k \in 0..Len(down) : Rest(down, k) \in Seq(Byte) /\ First(down, k) \in Seq(Byte))
  <2> SUFFICES ASSUME NEW k \in 0..Len(down)
               PROVE  Rest(down, k) \in Seq(Byte) /\ First(down, k) \in Seq(Byte)
    OBVIOUS
  <2> QED BY <1>t, <1>z, SubSeqProperties DEF First, Rest
<1> HIDE DEF Call
<1>L. ASSUME NEW u \in Nat, LengthRead(u)
      PROVE  t' \in Call /\ got' \in Seq(Seq(Byte)) /\ failed' \in BOOLEAN /\ (failed => failed')
  <2>1. u * UNIT \in Nat
    BY Sizes
  <2>2. \/ t' = Idle /\ got' = Append(got, <<>>) /\ failed' = failed
        \/ t' = Idle /\ failed' = TRUE /\ got' = got
        \/ /\ t' = [pc |-> "body", data |-> <<>>, len |-> u * UNIT]
           /\ got' = got /\ failed' = failed
    BY <1>L, Zenon DEF LengthRead
  <2> QED BY <1>t, <1>i, <1>e, <1>a, <1>n, <2>1, <2>2
<1>1. CASE transport_connect \/ transport_close \/ Hangup \/ UNCHANGED tvars
  BY <1>1, Zenon DEF transport_connect, transport_close, Hangup, tvars, TType
<1>2. CASE transport_recv
  <2>1. t' \in Call
    BY <1>2, <1>e, <1>n DEF transport_recv, Idle
  <2> QED BY <1>2, <1>t, <2>1, Zenon DEF transport_recv, TType, Call
<1>3. ASSUME NEW data \in Outgoing, transport_send(data) PROVE TType' /\ (failed => failed')
  <2>1. t' \in Call
    BY <1>3, <1>e, <1>n DEF transport_send
  <2> QED BY <1>3, <1>t, <2>1, Zenon DEF transport_send, TType, Call
<1>4. CASE Serve
  <2>1. served + 1 \in 1..N /\ served' \in 0..N
    BY <1>4, <1>t, Sizes DEF Serve, N
  <2>2. down' \in Seq(Byte)
    BY <1>4, <1>t, <2>1, EncFacts, ConcatFacts DEF Serve, Enc
  <2> QED BY <1>4, <1>t, <2>1, <2>2, Zenon DEF Serve, TType, Call
<1>5. CASE CallFails
  BY <1>5, <1>t, <1>i, Zenon DEF CallFails, TType, Call
<1>6. CASE recv_first
  <2>1. Head(down) \in Nat /\ down' \in Seq(Byte)
    <3>1. down # <<>> /\ down' = Tail(down)
      BY <1>6, Zenon DEF recv_first
    <3>2. Head(down) \in Byte /\ Tail(down) \in Seq(Byte)
      BY <1>t, <3>1, HeadTailProperties
    <3> QED BY <3>1, <3>2 DEF Byte
  <2>2. t' \in Call /\ got' \in Seq(Seq(Byte)) /\ failed' \in BOOLEAN /\ (failed => failed')
    <3>1. CASE LengthRead(Head(down))
      BY <1>L, <2>1, <3>1, Zenon
    <3>2. CASE t' = [t EXCEPT !.pc = "extra"] /\ got' = got /\ failed' = failed
      BY <1>t, <1>p, <3>2
    <3> QED BY <1>6, <3>1, <3>2, Zenon DEF recv_first
  <2> QED BY <1>6, <1>t, <2>1, <2>2, Zenon DEF recv_first, TType, Call
<1>7. ASSUME NEW k, recv_extra(k) PROVE TType' /\ (failed => failed')
  <2>0. k \in 1..3 /\ k \in 0..Len(down) /\ down' = Rest(down, k)
    BY <1>7, <1>z DEF recv_extra
  <2>1. t' \in Call /\ got' \in Seq(Seq(Byte)) /\ failed' \in BOOLEAN /\ (failed => failed')
    <3>1. CASE k = 3
      <4>1. down[1] \in Nat /\ down[2] \in Nat /\ down[3] \in Nat
        <5>1. 1 \in 1..Len(down) /\ 2 \in 1..Len(down) /\ 3 \in 1..Len(down)
          BY <1>z, <2>0, <3>1
        <5>2. down[1] \in Byte /\ down[2] \in Byte /\ down[3] \in Byte
          BY <1>t, <5>1, ElementOfSeq
        <5>3. \A x \in Byte : x \in Nat
          BY DEF Byte
        <5> QED BY <5>2, <5>3, Zenon
      <4>2. down[1] + down[2] * BYTE + down[3] * BYTE * BYTE \in Nat
        <5>1. \A a, b, c \in Nat : a + b * BYTE + c * BYTE * BYTE \in Nat
          <6>1. BYTE \in Nat
            BY Sizes
          <6>2. \A a, b \in Nat : a + b \in Nat /\ a * b \in Nat
            OBVIOUS
          <6> QED BY <6>1, <6>2, Zenon
        <5> QED BY <4>1, <5>1, Zenon
      <4>3. LengthRead(down[1] + down[2] * BYTE + down[3] * BYTE * BYTE)
        BY <1>7, <3>1, Zenon DEF recv_extra
      <4> QED BY <1>L, <4>2, <4>3, Zenon
    <3>2. CASE k # 3
      <4>1. t' = Idle /\ failed' = TRUE /\ got' = got
        BY <1>7, <3>2, Zenon DEF recv_extra
      <4> QED BY <1>t, <1>i, <4>1
    <3> QED BY <3>1, <3>2, Zenon
  <2> QED BY <1>7, <1>t, <1>f, <2>0, <2>1, Zenon DEF recv_extra, TType, Call
<1>8. ASSUME NEW k, recv_body(k) PROVE TType' /\ (failed => failed')
  <2>0. k \in 0..Len(down) /\ down' = Rest(down, k)
    BY <1>8, <1>z DEF recv_body
  <2>1. t.data \o First(down, k) \in Seq(Byte)
    BY <1>f, <1>z, <2>0, ConcatFacts, Zenon
  <2>2. \/ t' = Idle /\ got' = Append(got, t.data \o First(down, k))
        \/ t' = [t EXCEPT !.data = t.data \o First(down, k)] /\ got' = got
    BY <1>8, Zenon DEF recv_body
  <2>3. t' \in Call /\ got' \in Seq(Seq(Byte))
    BY <1>t, <1>i, <1>a, <1>d, <2>1, <2>2, Zenon
  <2> QED BY <1>8, <1>t, <1>f, <2>0, <2>3, Zenon DEF recv_body, TType, Call
<1>9. ASSUME NEW k, send_prefix(k) PROVE TType' /\ (failed => failed')
  <2>1. /\ t' = [t EXCEPT !.pc = "payload"] \/ t' = Idle
        /\ failed' \in BOOLEAN /\ (failed => failed')
    BY <1>9, <1>t, Zenon DEF send_prefix
  <2>2. t' \in Call
    BY <1>i, <1>p, <2>1
  <2> QED BY <1>9, <1>t, <2>1, <2>2, Zenon DEF send_prefix, TType, Call
<1>10. ASSUME NEW k, send_payload(k) PROVE TType' /\ (failed => failed')
  <2>1. k \in Nat /\ (t' = Idle \/ t' = [t EXCEPT !.len = t.len + k])
    BY <1>10, <1>z DEF send_payload
  <2>2. t' \in Call
    BY <1>i, <1>l, <1>z, <2>1
  <2> QED BY <1>10, <1>t, <2>2, Zenon DEF send_payload, TType, Call
<1> QED BY <1>1, <1>2, <1>3, <1>4, <1>5, <1>6, <1>7, <1>8, <1>9, <1>10, Zenon
        DEF TNext, Work

\* The other steps leave the received bytes and frames alone.
LEMMA QuietChan ==
  ASSUME ChanInv, ~failed, TType', UNCHANGED <<down, served, got>>,
         \/ failed'
         \/ /\ failed' = failed
            /\ \/ t' = t
               \/ t.pc \notin {"extra", "body"} /\ t'.pc \notin {"extra", "body"}
  PROVE  ChanInv' /\ ChanStep
<1>1. CASE failed'
  BY <1>1, Zenon DEF ChanInv, ChanStep
<1>2. CASE failed' = failed
  <2>1. InStep /\ Cur' = Cur /\ Units(Cur)' = Units(Cur) /\ Base' = Base
    BY Zenon DEF ChanInv, Cur, Units, Base
  <2>2. Consumed' = Consumed
    <3>1. CASE t' = t
      BY <2>1, <3>1, Zenon DEF Consumed, PL
    <3>2. CASE t.pc \notin {"extra", "body"} /\ t'.pc \notin {"extra", "body"}
      BY <3>2, Zenon DEF Consumed
    <3> QED BY <1>2, <3>1, <3>2, Zenon
  <2>3. Stream(down, Base, Cur, served)'
    BY <2>1, Zenon DEF InStep, Stream
  <2>4. Len(got') <= served' /\ Base' = Start[Cur'] + Consumed'
    BY <2>1, <2>2, Zenon DEF InStep
  <2>5. InStep'
    <3>1. CASE t' = t
      BY <2>1, <2>3, <2>4, <3>1, Zenon DEF InStep
    <3>2. CASE t.pc \notin {"extra", "body"} /\ t'.pc \notin {"extra", "body"}
      BY <2>3, <2>4, <3>2, Zenon DEF InStep
    <3> QED BY <1>2, <3>1, <3>2, Zenon
  <2> QED BY <1>2, <2>5, Zenon DEF ChanInv, ChanStep
<1> QED BY <1>1, <1>2, Zenon

\* Every step keeps the invariant.
LEMMA NextChan ==
  ASSUME ChanInv, [TNext]_tvars
  PROVE  ChanInv' /\ ChanStep
<1>0. TType /\ TType' /\ (failed => failed')
  BY TypeStep, Zenon DEF ChanInv
<1>1. CASE failed
  BY <1>0, <1>1, Zenon DEF ChanInv, ChanStep
<1>2. CASE ~failed
  <2>1. CASE transport_connect \/ transport_close \/ Hangup \/ UNCHANGED tvars
    <3>1. UNCHANGED <<down, served, got>> /\ t' = t /\ failed' = failed
      BY <2>1, Zenon DEF transport_connect, transport_close, Hangup, tvars
    <3> QED BY <1>0, <1>2, <3>1, QuietChan, Zenon
  <2>2. CASE transport_recv
    <3>1. UNCHANGED <<down, served, got>> /\ t.pc = "idle"
          /\ t' = [Idle EXCEPT !.pc = "first"]
          /\ failed' = failed
      BY <2>2, Zenon DEF transport_recv
    <3>2. t.pc \notin {"extra", "body"} /\ t'.pc \notin {"extra", "body"}
      BY <3>1 DEF Idle
    <3> QED BY <1>0, <1>2, <3>1, <3>2, QuietChan, Zenon
  <2>3. ASSUME NEW data \in Outgoing, transport_send(data) PROVE ChanInv' /\ ChanStep
    <3>1. /\ UNCHANGED <<down, served, got>> /\ t.pc = "idle" /\ failed' = failed
          /\ t' = [pc |-> "prefix", data |-> data, len |-> 0]
      BY <2>3, Zenon DEF transport_send
    <3>2. t.pc \notin {"extra", "body"} /\ t'.pc \notin {"extra", "body"}
      BY <3>1
    <3> QED BY <1>0, <1>2, <3>1, <3>2, QuietChan, Zenon
  <2>4. CASE Serve
    BY <1>2, <2>4, ServeStep
  <2>5. CASE CallFails
    <3>1. UNCHANGED <<down, served, got>> /\ failed'
      BY <2>5, Zenon DEF CallFails
    <3> QED BY <1>0, <1>2, <3>1, QuietChan, Zenon
  <2>6. CASE recv_first
    BY <1>2, <2>6, RecvFirst
  <2>7. ASSUME NEW k, recv_extra(k) PROVE ChanInv' /\ ChanStep
    BY <1>2, <2>7, RecvExtra
  <2>8. ASSUME NEW k, recv_body(k) PROVE ChanInv' /\ ChanStep
    BY <1>2, <2>8, RecvBody
  <2>9. ASSUME NEW k, send_prefix(k) PROVE ChanInv' /\ ChanStep
    <3>1. /\ UNCHANGED <<down, served, got>> /\ t.pc = "prefix"
          /\ failed' = (failed \/ k < Len(LenPrefix(Len(t.data) \div UNIT)))
          /\ t' = [t EXCEPT !.pc = "payload"] \/ t' = Idle
      BY <2>9, Zenon DEF send_prefix
    <3>d. DOMAIN t = {"pc", "data", "len"}
      BY <1>0 DEF TType
    <3>2. t.pc \notin {"extra", "body"} /\ t'.pc \notin {"extra", "body"}
      <4>1. CASE t' = Idle
        BY <3>1, <4>1 DEF Idle
      <4>2. CASE t' # Idle
        BY <3>d, <3>1, <4>2
      <4> QED BY <4>1, <4>2
    <3>3. failed' \/ failed' = failed
      BY <1>0, <1>2, <3>1, Zenon DEF TType
    <3> QED BY <1>0, <1>2, <3>1, <3>2, <3>3, QuietChan, Zenon
  <2>10. ASSUME NEW k, send_payload(k) PROVE ChanInv' /\ ChanStep
    <3>1. /\ UNCHANGED <<down, served, got>> /\ t.pc = "payload" /\ failed' = failed
          /\ t' = Idle \/ t' = [t EXCEPT !.len = t.len + k]
      BY <2>10, Zenon DEF send_payload
    <3>d. DOMAIN t = {"pc", "data", "len"}
      BY <1>0 DEF TType
    <3>2. t.pc \notin {"extra", "body"} /\ t'.pc \notin {"extra", "body"}
      <4>1. CASE t' = Idle
        BY <3>1, <4>1 DEF Idle
      <4>2. CASE t' # Idle
        BY <3>d, <3>1, <4>2
      <4> QED BY <4>1, <4>2
    <3> QED BY <1>0, <1>2, <3>1, <3>2, QuietChan, Zenon
  <2> QED BY <2>1, <2>2, <2>3, <2>4, <2>5, <2>6, <2>7, <2>8, <2>9, <2>10, Zenon
          DEF TNext, Work
<1> QED BY <1>1, <1>2, Zenon

\* The first state has the invariant.
LEMMA InitChan == TInit => ChanInv
<1> SUFFICES ASSUME TInit PROVE ChanInv
  OBVIOUS
<1>1. TType
  <2>1. /\ t = [pc |-> "idle", data |-> <<>>, len |-> 0] /\ down = <<>> /\ served = 0
        /\ got = <<>> /\ failed = FALSE
    BY Zenon DEF TInit, Idle
  <2>2. t \in [pc : {"idle", "prefix", "payload", "first", "extra", "body"},
              data : Seq(Byte), len : Nat]
    BY <2>1
  <2>3. down \in Seq(Byte) /\ got \in Seq(Seq(Byte)) /\ served \in 0..N
    BY <2>1, Sizes
  <2>4. failed \in BOOLEAN
    BY <2>1, Zenon
  <2> QED BY <2>2, <2>3, <2>4, Zenon DEF TType
<1>2. /\ Len(got) = 0 /\ served = 0 /\ Cur = 1 /\ Len(down) = 0 /\ t.pc = "idle"
      /\ Consumed = 0 /\ served + 1 = 1
  BY DEF TInit, Idle, Cur, Consumed
<1>3. Start[1] = 0
  BY StartFacts, Zenon
<1>4. Base = 0 /\ Base = Start[Cur] + Consumed
  BY <1>2, <1>3 DEF Base
<1>5. Stream(down, Base, Cur, served)
  <2>1. \A i \in Cur..served : FALSE
    BY <1>2
  <2> QED BY <2>1, Zenon DEF Stream
<1> QED BY <1>1, <1>2, <1>4, <1>5 DEF ChanInv, InStep

\* What the frames sent are, one more being written.
LEMMA SentFacts ==
  ASSUME NEW n \in 0..N
  PROVE  /\ Len(First(Incoming, n)) = n /\ First(Incoming, n) \in Seq(Seq(Byte))
         /\ \A i \in 1..n : First(Incoming, n)[i] = Incoming[i]
<1>1. Incoming \in Seq(Seq(Byte)) /\ N = Len(Incoming) /\ N \in Nat
  BY SizesAssumption, Sizes DEF Byte, N
<1> QED BY <1>1, SubSeqProperties DEF First

\* What the steps do is what FrameChannel allows.
LEMMA ChanRefines ==
  ASSUME TType, TType', ChanStep
  PROVE  [Frames!CNext]_(Frames!cvars)
<1>1. CASE failed'
  BY <1>1, Zenon DEF Frames!CNext
<1>2. CASE UNCHANGED <<got, served, failed>>
  BY <1>2, Zenon DEF Frames!cvars
<1>3. CASE Cur <= served /\ got' = Append(got, Incoming[Cur])
           /\ UNCHANGED <<served, failed>>
  <2>1. Cur \in 1..served /\ served \in 0..N /\ Len(got) < served
    BY <1>3, CurFacts DEF TType, Cur
  <2>2. Len(First(Incoming, served)) = served
        /\ First(Incoming, served)[Cur] = Incoming[Cur]
    BY <2>1, SentFacts, Zenon
  <2>3. First(Incoming, served)' = First(Incoming, served)
    BY <1>3, Zenon
  <2>4. Frames!Take
    BY <1>3, <2>1, <2>2, <2>3, Zenon DEF Frames!Take, Cur
  <2> QED BY <2>4, Zenon DEF Frames!CNext
<1>4. CASE served < N /\ served' = served + 1 /\ UNCHANGED <<got, failed>>
  <2> DEFINE u == First(Incoming, served)
             v == First(Incoming, served')
  <2>1. served \in 0..N /\ served' \in 0..N /\ served \in Nat /\ served' = served + 1
    BY <1>4, CurFacts DEF TType
  <2>2. Len(u) = served /\ Len(v) = served' /\ u \in Seq(Seq(Byte)) /\ v \in Seq(Seq(Byte))
    BY <2>1, SentFacts, Zenon
  <2>3. /\ \A i \in 1..served : u[i] = Incoming[i]
        /\ \A i \in 1..served' : v[i] = Incoming[i]
    BY <2>1, SentFacts, Zenon
  <2> HIDE DEF u, v
  <2>4. /\ SubSeq(v, 1, served) \in Seq(Seq(Byte)) /\ Len(SubSeq(v, 1, served)) = served
        /\ \A i \in 1..served : SubSeq(v, 1, served)[i] = v[i]
    BY <2>1, <2>2, SubSeqProperties
  <2>5. \A i \in 1..served : i \in 1..served'
    BY <2>1
  <2>6. u = SubSeq(v, 1, served)
    BY <2>2, <2>3, <2>4, <2>5, SeqEqual
  <2>7. u = SubSeq(v, 1, Len(u)) /\ Len(v) = Len(u) + 1
    BY <2>1, <2>2, <2>6, Zenon
  <2>8. Frames!Put
    BY <1>4, <2>7, Zenon DEF Frames!Put, u, v
  <2> QED BY <2>8, Zenon DEF Frames!CNext
<1> QED BY <1>1, <1>2, <1>3, <1>4, Zenon DEF ChanStep

(***************************************************************************)
(* For as long as no call has failed, transport_recv returns the payloads  *)
(* the server sent, whole, once and in order, however recv splits the      *)
(* stream: transport.c implements FrameChannel.                            *)
(***************************************************************************)
THEOREM FramesArriveWhole == TSpec => ImplementsChannel
<1>1. TInit => Frames!CInit
  <2> SUFFICES ASSUME TInit PROVE Frames!CInit
    OBVIOUS
  <2>1. 0 \in 0..N
    BY Sizes
  <2>2. Len(First(Incoming, 0)) = 0 /\ First(Incoming, 0) \in Seq(Seq(Byte))
    BY <2>1, SentFacts, Zenon
  <2>3. First(Incoming, 0) = <<>>
    BY <2>2, EmptySeq
  <2> QED BY <2>3, Zenon DEF TInit, Frames!CInit
<1>2. TInit => ChanInv
  BY InitChan
<1>3. ChanInv /\ [TNext]_tvars => ChanInv' /\ [Frames!CNext]_(Frames!cvars)
  BY NextChan, ChanRefines, Zenon DEF ChanInv
<1> QED BY <1>1, <1>2, <1>3, PTL DEF TSpec, ImplementsChannel, Frames!CSpec

-----------------------------------------------------------------------------

\* The function StreamOf is defined with.
StreamFn(s, f) ==
  s = [n \in 0..Len(f) |-> IF n = 0 THEN <<ABRIDGED_MARKER>> ELSE s[n - 1] \o Encode(f[n])]

\* StreamOf is the last value of such a function.
LEMMA StreamOfFn ==
  ASSUME NEW f
  PROVE  StreamOf(f) = (CHOOSE s : StreamFn(s, f))[Len(f)]
BY Zenon DEF StreamOf, StreamFn

\* There is one.
LEMMA StreamExists ==
  ASSUME NEW f, Len(f) \in Nat
  PROVE  \E s : StreamFn(s, f)
<1> DEFINE L == Len(f)
           Part(s, n) == /\ s = [i \in 0..n |-> s[i]] /\ s[0] = <<ABRIDGED_MARKER>>
                         /\ \A i \in 1..n : s[i] = s[i - 1] \o Encode(f[i])
           Bad == {n \in Nat : n <= L /\ ~ \E s : Part(s, n)}
<1>1. \E s : Part(s, L)
  <2> SUFFICES ASSUME L \in Bad PROVE FALSE
    <3>1. L \in Nat /\ L <= L
      OBVIOUS
    <3> HIDE DEF L
    <3> QED BY <3>1, Zenon
  <2>1. PICK n \in Bad : \A m \in Bad : n <= m
    BY Least, Zenon
  <2>2. n \in Nat /\ n <= L /\ ~ \E s : Part(s, n)
    BY Zenon
  <2>3. n # 0
    <3> SUFFICES ASSUME n = 0 PROVE FALSE
      OBVIOUS
    <3>1. Part([i \in 0..0 |-> <<ABRIDGED_MARKER>>], 0)
      OBVIOUS
    <3> QED BY <2>2, <3>1, Zenon
  <2>4. n - 1 \in Nat /\ n - 1 <= L /\ n - 1 \notin Bad
    <3> HIDE DEF Bad
    <3> QED BY <2>1, <2>2, <2>3
  <2>5. PICK s : Part(s, n - 1)
    BY <2>4, Zenon
  <2> DEFINE g == [i \in 0..n |-> IF i < n THEN s[i] ELSE s[n - 1] \o Encode(f[n])]
  <2>6. g = [i \in 0..n |-> g[i]]
    OBVIOUS
  <2>p. /\ s[0] = <<ABRIDGED_MARKER>>
        /\ \A i \in 1..(n - 1) : s[i] = s[i - 1] \o Encode(f[i])
    BY <2>5, Zenon
  <2> HIDE DEF Part, Bad
  <2>7. g[0] = <<ABRIDGED_MARKER>>
    <3>1. 0 \in 0..n /\ 0 < n
      BY <2>2, <2>3
    <3>2. g[0] = s[0]
      BY <3>1, SMTT(20)
    <3> QED BY <2>p, <3>2, Zenon
  <2>8. ASSUME NEW i \in 1..n PROVE g[i] = g[i - 1] \o Encode(f[i])
    <3>1. CASE i = n
      BY <2>2, <2>3, <3>1
    <3>2. CASE i # n
      <4>1. i \in 1..(n - 1) /\ i \in 0..n /\ i - 1 \in 0..n /\ i < n /\ i - 1 < n
        BY <2>2, <3>2
      <4>2. g[i] = s[i] /\ g[i - 1] = s[i - 1]
        BY <4>1
      <4> QED BY <2>p, <4>1, <4>2, Zenon
    <3> QED BY <3>1, <3>2
  <2>9. Part(g, n)
    BY <2>6, <2>7, <2>8, Zenon DEF Part
  <2> QED BY <2>2, <2>9, Zenon
<1>2. PICK s : Part(s, L)
  BY <1>1, Zenon
<1>3. StreamFn(s, f)
  <2>1. \A n \in 0..L : s[n] = IF n = 0 THEN <<ABRIDGED_MARKER>> ELSE s[n - 1] \o Encode(f[n])
    <3> SUFFICES ASSUME NEW n \in 0..L
                 PROVE  s[n] = IF n = 0 THEN <<ABRIDGED_MARKER>> ELSE s[n - 1] \o Encode(f[n])
      BY Zenon
    <3>1. n = 0 \/ n \in 1..L
      OBVIOUS
    <3> QED BY <1>2, <3>1, Zenon
  <2> QED BY <1>2, <2>1 DEF StreamFn
<1> QED BY <1>3, Zenon

\* The stream of no payload, and that of one more.
LEMMA StreamFacts ==
  /\ StreamOf(<<>>) = <<ABRIDGED_MARKER>>
  /\ \A f \in Seq(Seq(Byte)) : \A x \in Seq(Byte) :
       StreamOf(Append(f, x)) = StreamOf(f) \o Encode(x)
<1>1. StreamOf(<<>>) = <<ABRIDGED_MARKER>>
  <2> DEFINE s == CHOOSE z : StreamFn(z, <<>>)
  <2>1. Len(<<>>) = 0
    OBVIOUS
  <2>2. StreamFn(s, <<>>)
    BY <2>1, StreamExists, Zenon
  <2> HIDE DEF s
  <2>3. s[0] = <<ABRIDGED_MARKER>>
    BY <2>1, <2>2 DEF StreamFn
  <2> QED BY <2>1, <2>3, StreamOfFn, Zenon DEF s
<1>2. ASSUME NEW f \in Seq(Seq(Byte)), NEW x \in Seq(Byte)
      PROVE  StreamOf(Append(f, x)) = StreamOf(f) \o Encode(x)
  <2> DEFINE h == Append(f, x)
             L == Len(f)
             s == CHOOSE z : StreamFn(z, f)
             r == CHOOSE z : StreamFn(z, h)
  <2>1. L \in Nat /\ Len(h) = L + 1 /\ (\A i \in 1..L : h[i] = f[i]) /\ h[L + 1] = x
    BY AppendProperties, LenProperties
  <2>2. StreamFn(s, f) /\ StreamFn(r, h)
    <3>1. Len(f) \in Nat /\ Len(h) \in Nat
      BY <2>1
    <3> HIDE DEF h
    <3> QED BY <3>1, StreamExists, Zenon
  <2> HIDE DEF h, s, r
  <2>3. /\ s[0] = <<ABRIDGED_MARKER>> /\ r[0] = <<ABRIDGED_MARKER>>
        /\ \A i \in 1..L : s[i] = s[i - 1] \o Encode(f[i])
        /\ \A i \in 1..(L + 1) : r[i] = r[i - 1] \o Encode(h[i])
    <3>1. \A i \in 1..L : i \in 0..L /\ i # 0
      BY <2>1
    <3>2. \A i \in 1..(L + 1) : i \in 0..(L + 1) /\ i # 0
      BY <2>1
    <3>3. 0 \in 0..L /\ 0 \in 0..(L + 1)
      BY <2>1
    <3>4. \A i \in 0..L :
            s[i] = IF i = 0 THEN <<ABRIDGED_MARKER>> ELSE s[i - 1] \o Encode(f[i])
      BY <2>2, Zenon DEF StreamFn
    <3>5. \A i \in 0..(L + 1) :
            r[i] = IF i = 0 THEN <<ABRIDGED_MARKER>> ELSE r[i - 1] \o Encode(h[i])
      BY <2>1, <2>2, Zenon DEF StreamFn
    <3> QED BY <3>1, <3>2, <3>3, <3>4, <3>5, Zenon
  <2>4. s[L] = r[L]
    <3> DEFINE Bad == {n \in Nat : n <= L /\ s[n] # r[n]}
    <3> SUFFICES ASSUME L \in Bad PROVE FALSE
      BY <2>1
    <3>1. PICK n \in Bad : \A m \in Bad : n <= m
      BY Least, Zenon
    <3>2. n \in Nat /\ n <= L /\ s[n] # r[n]
      BY Zenon
    <3>3. n # 0
      BY <2>3, <3>2
    <3>4. n - 1 \in Nat /\ n - 1 <= L /\ n - 1 \notin Bad
      <4> HIDE DEF Bad
      <4> QED BY <2>1, <3>1, <3>2, <3>3
    <3>5. s[n - 1] = r[n - 1]
      BY <3>4, Zenon
    <3>6. n \in 1..L /\ n \in 1..(L + 1)
      BY <2>1, <3>2, <3>3
    <3> QED BY <2>1, <2>3, <3>2, <3>5, <3>6, Zenon
  <2>5. L + 1 \in 1..(L + 1) /\ (L + 1) - 1 = L
    BY <2>1
  <2>6. r[L + 1] = s[L] \o Encode(x)
    BY <2>1, <2>3, <2>4, <2>5, Zenon
  <2>7. StreamOf(f) = s[L] /\ StreamOf(h) = r[Len(h)]
    BY StreamOfFn, Zenon DEF s, r
  <2> QED BY <2>1, <2>6, <2>7, Zenon DEF h
<1> QED BY <1>1, <1>2, Zenon

\* What is written: bytes and the marker.
Oct == 0..BYTE

\* StreamInStep, with what a call in progress has sent.
SendInv ==
  /\ TType
  /\ accepted \in Seq(Seq(Byte)) /\ StreamOf(accepted) \in Seq(Oct)
  /\ conn = "none" => t = Idle /\ accepted = <<>>
  /\ t.pc = "prefix" => t.len = 0
  /\ t.pc = "payload" => t.len <= Len(t.data)
  /\ StreamInStep

\* A prefix and a frame are made of bytes.
LEMMA PrefixOct ==
  ASSUME NEW d \in Seq(Byte)
  PROVE  /\ LenPrefix(Len(d) \div UNIT) \in Seq(Oct) /\ d \in Seq(Oct)
         /\ Encode(d) \in Seq(Oct)
<1> DEFINE n == Len(d) \div UNIT
<1>1. n \in Nat
  BY Sizes, DivMod, LenProperties
<1>2. d \in Seq(Oct)
  BY Sizes DEF Oct, Byte
<1>m. \A m \in Nat : m % BYTE \in Oct
  BY Sizes, DivMod DEF Oct
<1>3. LenPrefix(n) \in Seq(Oct)
  <2>1. CASE n < EXT
    <3> HIDE DEF n
    <3>1. n \in Oct
      BY <1>1, <2>1, Sizes DEF Oct
    <3> QED BY <2>1, <3>1 DEF LenPrefix
  <2>2. CASE ~(n < EXT)
    <3> HIDE DEF n
    <3>1. BYTE \in Nat \ {0} /\ BYTE * BYTE \in Nat \ {0}
      BY Sizes
    <3>2. n \div BYTE \in Nat /\ n \div (BYTE * BYTE) \in Nat
      BY <1>1, <3>1, DivMod, Zenon
    <3> DEFINE a == n % BYTE
               b == (n \div BYTE) % BYTE
               c == (n \div (BYTE * BYTE)) % BYTE
    <3>3. EXT \in Oct
      BY Sizes DEF Oct
    <3>4. a \in Oct /\ b \in Oct /\ c \in Oct
      BY <1>1, <1>m, <3>2, Zenon
    <3>5. LenPrefix(n) = <<EXT, a, b, c>>
      BY <2>2, Zenon DEF LenPrefix
    <3> HIDE DEF a, b, c
    <3> QED BY <3>3, <3>4, <3>5
  <2> QED BY <2>1, <2>2
<1>4. LenPrefix(n) \o d \in Seq(Oct)
  BY <1>2, <1>3, ConcatProperties
<1> QED BY <1>2, <1>3, <1>4, Zenon DEF Encode

\* Sequences cut and put together.
LEMMA CutFacts ==
  ASSUME NEW d \in Seq(Oct), NEW m \in 0..Len(d), NEW k \in 0..(Len(d) - m)
  PROVE  /\ First(d, m) \in Seq(Oct) /\ First(Rest(d, m), k) \in Seq(Oct)
         /\ First(d, m) \o First(Rest(d, m), k) = First(d, m + k)
         /\ First(d, 0) = <<>> /\ First(d, Len(d)) = d
<1>0. Len(d) \in Nat
  BY LenProperties
<1>1. \A x \in 0..Len(d) : /\ First(d, x) \in Seq(Oct) /\ Len(First(d, x)) = x
                           /\ \A i \in 1..x : First(d, x)[i] = d[i]
  <2> SUFFICES ASSUME NEW x \in 0..Len(d)
               PROVE  /\ First(d, x) \in Seq(Oct) /\ Len(First(d, x)) = x
                      /\ \A i \in 1..x : First(d, x)[i] = d[i]
    OBVIOUS
  <2> QED BY <1>0, SubSeqProperties DEF First
<1> DEFINE e == Rest(d, m)
<1>2. /\ e \in Seq(Oct) /\ Len(e) = Len(d) - m
      /\ \A i \in 1..(Len(d) - m) : e[i] = d[i + m]
  BY <1>0, SubSeqProperties DEF Rest
<1> HIDE DEF e
<1>3. /\ First(e, k) \in Seq(Oct) /\ Len(First(e, k)) = k
      /\ \A i \in 1..k : First(e, k)[i] = e[i]
  BY <1>0, <1>2, SubSeqProperties DEF First
<1>4. First(d, 0) = <<>> /\ First(d, Len(d)) = d
  <2>1. 0 \in 0..Len(d) /\ Len(d) \in 0..Len(d)
    BY <1>0
  <2>2. First(d, 0) = <<>>
    BY <1>1, <2>1, EmptySeq
  <2>3. First(d, Len(d)) = d
    BY <1>1, <2>1, SeqEqual
  <2> QED BY <2>2, <2>3
<1>5. First(d, m) \o First(e, k) = First(d, m + k)
  <2> DEFINE u == First(d, m)
             v == First(e, k)
             w == First(d, m + k)
  <2>1. m \in Nat /\ k \in Nat /\ m + k \in 0..Len(d)
    BY <1>0
  <2>2. /\ u \in Seq(Oct) /\ Len(u) = m /\ \A i \in 1..m : u[i] = d[i]
        /\ w \in Seq(Oct) /\ Len(w) = m + k /\ \A i \in 1..(m + k) : w[i] = d[i]
    BY <1>1, <2>1, Zenon
  <2>3. v \in Seq(Oct) /\ Len(v) = k /\ \A i \in 1..k : v[i] = d[i + m]
    <3>1. \A i \in 1..k : i \in 1..(Len(d) - m)
      BY <1>0, <2>1
    <3> QED BY <1>2, <1>3, <3>1, Zenon
  <2> HIDE DEF u, v, w
  <2>4. /\ u \o v \in Seq(Oct) /\ Len(u \o v) = m + k
        /\ \A i \in 1..m : (u \o v)[i] = u[i]
        /\ \A i \in 1..(m + k) : i > m => (u \o v)[i] = v[i - m]
    BY <2>1, <2>2, <2>3, ConcatProperties
  <2>5. ASSUME NEW i \in 1..(m + k) PROVE (u \o v)[i] = w[i]
    <3>1. CASE i <= m
      BY <2>1, <2>2, <2>4, <3>1
    <3>2. CASE i > m
      <4>1. i - m \in 1..k /\ (i - m) + m = i
        BY <2>1, <3>2
      <4>2. (u \o v)[i] = v[i - m]
        BY <2>4, <3>2, Zenon
      <4>3. v[i - m] = d[(i - m) + m]
        BY <2>3, <4>1, Zenon
      <4>4. w[i] = d[i]
        BY <2>2, Zenon
      <4> QED BY <4>1, <4>2, <4>3, <4>4, Zenon
    <3>3. i <= m \/ i > m
      BY <2>1
    <3> QED BY <3>1, <3>2, <3>3, Zenon
  <2>6. u \o v = w
    BY <2>2, <2>4, <2>5, SeqEqual
  <2> QED BY <2>6 DEF u, v, w
<1>6. m \in 0..Len(d)
  OBVIOUS
<1> QED BY <1>1, <1>3, <1>4, <1>5, <1>6, Zenon DEF e

\* Three strings one after the other.
LEMMA Assoc == \A a, b, c \in Seq(Oct) : (a \o b) \o c = a \o (b \o c)
<1> SUFFICES ASSUME NEW a \in Seq(Oct), NEW b \in Seq(Oct), NEW c \in Seq(Oct)
             PROVE  (a \o b) \o c = a \o (b \o c)
  BY Zenon
<1> QED BY ConcatAssociative

\* Bytes added to the end of what the call has sent.
LEMMA AddBytes ==
  ASSUME NEW a \in Seq(Oct), NEW p \in Seq(Oct), NEW d \in Seq(Oct),
         NEW m \in 0..Len(d), NEW k \in 0..(Len(d) - m)
  PROVE  (a \o (p \o First(d, m))) \o First(Rest(d, m), k) = a \o (p \o First(d, m + k))
<1> DEFINE u == First(d, m)
           v == First(Rest(d, m), k)
           w == First(d, m + k)
<1>1. u \in Seq(Oct) /\ v \in Seq(Oct) /\ u \o v = w
  BY CutFacts, Zenon
<1> HIDE DEF u, v, w
<1>2. p \o u \in Seq(Oct)
  BY <1>1, ConcatProperties
<1>3. (a \o (p \o u)) \o v = a \o ((p \o u) \o v)
  <2> DEFINE x == p \o u
  <2>1. x \in Seq(Oct)
    BY <1>2
  <2> HIDE DEF x
  <2>2. v \in Seq(Oct)
    BY <1>1
  <2>3. \A c \in Seq(Oct) : (a \o x) \o c = a \o (x \o c)
    BY <2>1, Assoc, Zenon
  <2>4. (a \o x) \o v = a \o (x \o v)
    BY <2>2, <2>3, Zenon
  <2> QED BY <2>4, Zenon DEF x
<1>4. (p \o u) \o v = p \o (u \o v)
  BY <1>1, Assoc, Zenon
<1> QED BY <1>1, <1>3, <1>4, Zenon DEF u, v, w

\* It holds at first.
LEMMA InitSend == TInit => SendInv
<1> SUFFICES ASSUME TInit PROVE SendInv
  OBVIOUS
<1>1. TType
  BY InitChan, Zenon DEF ChanInv
<1>2. accepted = <<>> /\ t = Idle /\ conn = "none" /\ t.pc = "idle"
  BY DEF TInit, Idle
<1>3. <<ABRIDGED_MARKER>> \in Seq(Oct) /\ accepted \in Seq(Seq(Byte))
  BY <1>2, Sizes DEF Oct, ABRIDGED_MARKER
<1>4. StreamOf(accepted) \in Seq(Oct)
  BY <1>2, <1>3, StreamFacts, Zenon
<1>5. StreamInStep
  BY <1>2, Zenon DEF StreamInStep
<1> QED BY <1>1, <1>2, <1>3, <1>4, <1>5 DEF SendInv

\* Every step keeps it.
LEMMA NextSend ==
  ASSUME SendInv, [TNext]_tvars
  PROVE  SendInv'
<1>0. /\ TType /\ TType' /\ (failed => failed') /\ t.data \in Seq(Byte) /\ t.len \in Nat
      /\ DOMAIN t = {"pc", "data", "len"}
  <2>1. TType /\ TType' /\ (failed => failed')
    BY TypeStep, Zenon DEF SendInv
  <2> QED BY <2>1 DEF TType
<1> DEFINE acc == StreamOf(accepted)
<1>a. /\ accepted \in Seq(Seq(Byte)) /\ acc \in Seq(Oct)
      /\ conn = "none" => t = Idle /\ accepted = <<>>
      /\ t.pc = "prefix" => t.len = 0
      /\ t.pc = "payload" => t.len <= Len(t.data)
      /\ (conn # "none" /\ ~failed) => up = acc \o Unfinished
  BY Zenon DEF SendInv, StreamInStep
\* A step that neither sends nor starts to.
<1>q. ASSUME accepted' = accepted, up' = up, conn # "none",
             t' = t \/ (t.pc # "payload" /\ t'.pc \notin {"prefix", "payload"})
      PROVE  conn' # "none" => SendInv'
  <2> SUFFICES ASSUME conn' # "none" PROVE SendInv'
    OBVIOUS
  <2>1. Unfinished' = Unfinished
    BY <1>q, Zenon DEF Unfinished
  <2>2. StreamOf(accepted)' = acc
    BY <1>q, Zenon
  <2>3. StreamInStep'
    BY <1>0, <1>a, <1>q, <2>1, <2>2, Zenon DEF StreamInStep
  <2> QED BY <1>0, <1>a, <1>q, <2>2, <2>3, Zenon DEF SendInv
<1>1. CASE UNCHANGED tvars
  BY <1>1, Zenon DEF tvars, SendInv, TType, StreamInStep, Unfinished
<1>2. CASE transport_connect
  <2>1. /\ conn = "none" /\ conn' = "open" /\ up' = <<ABRIDGED_MARKER>> /\ t' = t
        /\ accepted' = accepted /\ t = Idle /\ accepted = <<>>
    BY <1>2, <1>a, Zenon DEF transport_connect
  <2>2. t.pc = "idle" /\ t'.pc = "idle"
    BY <2>1 DEF Idle
  <2>3. acc = <<ABRIDGED_MARKER>> /\ StreamOf(accepted)' = acc
    BY <2>1, StreamFacts, Zenon
  <2>4. Unfinished' = <<>>
    BY <2>2 DEF Unfinished
  <2>5. acc \o <<>> = acc
    BY <1>a, ConcatEmptySeq
  <2>6. StreamInStep'
    BY <2>1, <2>3, <2>4, <2>5, Zenon DEF StreamInStep
  <2> QED BY <1>0, <1>a, <2>1, <2>2, <2>3, <2>6 DEF SendInv
<1>3. CASE transport_close \/ Hangup \/ Serve
  <2>1. conn # "none" /\ conn' # "none" /\ t' = t /\ accepted' = accepted /\ up' = up
    BY <1>3 DEF transport_close, Hangup, Serve
  <2>2. t' = t \/ (t.pc # "payload" /\ t'.pc \notin {"prefix", "payload"})
    BY <2>1, Zenon
  <2> QED BY <1>q, <2>1, <2>2
<1>i. t.pc # "idle" => conn # "none"
  BY <1>a DEF Idle
<1>4. CASE transport_recv
  <2>1. conn # "none" /\ conn' = conn /\ accepted' = accepted /\ up' = up /\ t.pc = "idle"
        /\ t' = [Idle EXCEPT !.pc = "first"]
    BY <1>4, Zenon DEF transport_recv
  <2>2. t'.pc = "first"
    BY <2>1 DEF Idle
  <2> QED BY <1>q, <2>1, <2>2, Zenon
<1>5. CASE CallFails
  <2>1. /\ conn # "none" /\ conn' = conn /\ accepted' = accepted /\ failed' = TRUE
        /\ t' = Idle
    BY <1>5, Zenon DEF CallFails
  <2>2. t'.pc = "idle" /\ StreamOf(accepted)' = acc
    BY <2>1 DEF Idle
  <2>3. StreamInStep'
    BY <2>1, Zenon DEF StreamInStep
  <2> QED BY <1>0, <1>a, <2>1, <2>2, <2>3 DEF SendInv
<1>L. ASSUME NEW u, LengthRead(u) PROVE t'.pc \notin {"prefix", "payload"}
  BY <1>L DEF LengthRead, Idle
<1>6. CASE recv_first
  <2>1. conn' = conn /\ accepted' = accepted /\ up' = up /\ t.pc = "first"
    BY <1>6, Zenon DEF recv_first
  <2>2. t'.pc \notin {"prefix", "payload"}
    <3>1. CASE LengthRead(Head(down))
      BY <1>L, <3>1
    <3>2. CASE t' = [t EXCEPT !.pc = "extra"]
      BY <1>0, <3>2
    <3> QED BY <1>6, <3>1, <3>2, Zenon DEF recv_first
  <2> QED BY <1>i, <1>q, <2>1, <2>2, Zenon
<1>7. ASSUME NEW k, recv_extra(k) PROVE SendInv'
  <2>1. conn' = conn /\ accepted' = accepted /\ up' = up /\ t.pc = "extra"
    BY <1>7, Zenon DEF recv_extra
  <2>2. t'.pc \notin {"prefix", "payload"}
    <3>1. CASE k = 3
      BY <1>7, <1>L, <3>1, Zenon DEF recv_extra
    <3>2. CASE k # 3
      BY <1>7, <3>2 DEF recv_extra, Idle
    <3> QED BY <3>1, <3>2
  <2> QED BY <1>i, <1>q, <2>1, <2>2, Zenon
<1>8. ASSUME NEW k, recv_body(k) PROVE SendInv'
  <2>1. /\ conn' = conn /\ accepted' = accepted /\ up' = up /\ t.pc = "body"
        /\ t' = Idle \/ t' = [t EXCEPT !.data = t.data \o First(down, k)]
    BY <1>8, Zenon DEF recv_body
  <2>2. t'.pc \notin {"prefix", "payload"}
    <3>1. CASE t' = Idle
      BY <3>1 DEF Idle
    <3>2. CASE t' # Idle
      BY <1>0, <2>1, <3>2
    <3> QED BY <3>1, <3>2
  <2> QED BY <1>i, <1>q, <2>1, <2>2, Zenon
<1>e. acc \o <<>> = acc
  BY <1>a, ConcatEmptySeq
<1> DEFINE prefix == LenPrefix(Len(t.data) \div UNIT)
<1>p. prefix \in Seq(Oct) /\ t.data \in Seq(Oct) /\ Len(t.data) \in Nat
  BY <1>0, PrefixOct, LenProperties
<1>9. ASSUME NEW data \in Outgoing, transport_send(data) PROVE SendInv'
  <2>1. /\ conn # "none" /\ conn' = conn /\ accepted' = accepted /\ up' = up
        /\ t.pc = "idle" /\ t' = [pc |-> "prefix", data |-> data, len |-> 0]
        /\ failed' = failed
    BY <1>9, Zenon DEF transport_send
  <2>2. t'.pc = "prefix" /\ t'.len = 0
    BY <2>1
  <2>3. Unfinished' = Unfinished /\ StreamOf(accepted)' = acc
    BY <2>1, <2>2 DEF Unfinished
  <2>4. StreamInStep'
    BY <1>a, <2>1, <2>3, Zenon DEF StreamInStep
  <2> QED BY <1>0, <1>a, <2>1, <2>2, <2>3, <2>4 DEF SendInv
<1>10. ASSUME NEW k, send_prefix(k) PROVE SendInv'
  <2>1. /\ t.pc = "prefix" /\ conn' = conn /\ accepted' = accepted
        /\ up' = up \o First(prefix, k) /\ k \in 1..Len(prefix)
        /\ t' = IF k = Len(prefix) THEN [t EXCEPT !.pc = "payload"] ELSE Idle
        /\ failed' = (failed \/ k < Len(prefix))
    BY <1>10, Zenon DEF send_prefix
  <2>2. StreamOf(accepted)' = acc /\ Len(prefix) \in Nat
    BY <1>p, <2>1, LenProperties
  <2> HIDE DEF acc, prefix
  <2>3. CASE k = Len(prefix)
    <3>1. t'.pc = "payload" /\ t'.data = t.data /\ t'.len = 0 /\ failed' = failed
      <4>1. t' = [t EXCEPT !.pc = "payload"] /\ t.len = 0
        BY <1>a, <2>1, <2>3, Zenon
      <4>2. t'.pc = "payload" /\ t'.data = t.data /\ t'.len = t.len
        BY <1>0, <4>1
      <4>3. ~(k < Len(prefix))
        BY <2>2, <2>3
      <4>4. failed' = failed
        BY <1>0, <2>1, <4>3, Zenon DEF TType
      <4> QED BY <4>1, <4>2, <4>4, Zenon
    <3>2. First(prefix, k) = prefix
      <4>1. 0 \in 0..Len(prefix) /\ 0 \in 0..(Len(prefix) - 0)
        BY <2>2
      <4> QED BY <1>p, <2>3, <4>1, CutFacts, Zenon
    <3>3. First(t.data, 0) = <<>> /\ prefix \o <<>> = prefix
      <4>1. 0 \in 0..Len(t.data) /\ 0 \in 0..(Len(t.data) - 0)
        BY <1>p
      <4> QED BY <1>p, <4>1, CutFacts, ConcatEmptySeq
    <3>4. Unfinished' = prefix /\ Unfinished = <<>>
      BY <2>1, <3>1, <3>3 DEF Unfinished, prefix
    <3>5. StreamInStep'
      BY <1>a, <1>e, <2>1, <2>2, <3>1, <3>2, <3>4, Zenon DEF StreamInStep
    <3>6. t'.len <= Len(t'.data)
      BY <1>p, <3>1
    <3> QED BY <1>0, <1>a, <1>i, <2>1, <2>2, <3>1, <3>5, <3>6 DEF SendInv
  <2>4. CASE k # Len(prefix)
    <3>1. t' = Idle /\ failed'
      <4>1. k < Len(prefix)
        BY <2>1, <2>2, <2>4
      <4> QED BY <2>1, <2>4, <4>1, Zenon
    <3>2. t'.pc = "idle"
      BY <3>1 DEF Idle
    <3>3. StreamInStep'
      BY <3>1, Zenon DEF StreamInStep
    <3> QED BY <1>0, <1>a, <1>i, <2>1, <2>2, <3>2, <3>3 DEF SendInv
  <2> QED BY <2>3, <2>4
<1>11. ASSUME NEW k, send_payload(k) PROVE SendInv'
  <2> DEFINE d == t.data
             m == t.len
  <2>1. /\ t.pc = "payload" /\ conn' = conn /\ failed' = failed /\ k \in 1..(Len(d) - m)
        /\ up' = up \o First(Rest(d, m), k)
        /\ IF m + k = Len(d)
           THEN t' = Idle /\ accepted' = Append(accepted, d)
           ELSE t' = [t EXCEPT !.len = m + k] /\ accepted' = accepted
    BY <1>11, Zenon DEF send_payload
  <2>2. /\ m \in Nat /\ m <= Len(d) /\ d \in Seq(Oct) /\ d \in Seq(Byte) /\ Len(d) \in Nat
        /\ conn # "none"
    BY <1>0, <1>a, <1>i, <1>p, <2>1
  <2>u. Unfinished = prefix \o First(d, m)
    BY <2>1, Zenon DEF Unfinished
  <2>p. prefix \in Seq(Oct) /\ Encode(d) = prefix \o d
    BY <1>p, Zenon DEF Encode
  <2>k. DOMAIN t = {"pc", "data", "len"} /\ t.data = d
    BY <1>0
  <2> HIDE DEF acc, prefix, d, m
  <2>3. m \in 0..Len(d) /\ k \in 0..(Len(d) - m) /\ m + k <= Len(d) /\ m + k \in Nat
    BY <2>1, <2>2
  <2>4. ~failed => up' = acc \o (prefix \o First(d, m + k))
    <3>1. ~failed => up = acc \o (prefix \o First(d, m))
      BY <1>a, <2>2, <2>u, Zenon
    <3>2. (acc \o (prefix \o First(d, m))) \o First(Rest(d, m), k)
            = acc \o (prefix \o First(d, m + k))
      BY <1>a, <2>2, <2>3, <2>p, AddBytes, Zenon
    <3> QED BY <2>1, <3>1, <3>2, Zenon
  <2>5. CASE m + k = Len(d)
    <3>1. First(d, m + k) = d
      BY <2>2, <2>3, <2>5, CutFacts, Zenon
    <3>2. t' = Idle /\ accepted' = Append(accepted, d) /\ accepted' \in Seq(Seq(Byte))
      <4>1. t' = Idle /\ accepted' = Append(accepted, d)
        BY <2>1, <2>5, Zenon
      <4>2. Append(accepted, d) \in Seq(Seq(Byte))
        BY <1>a, <2>2, AppendProperties, Zenon
      <4> QED BY <4>1, <4>2, Zenon
    <3>3. StreamOf(accepted)' = acc \o (prefix \o d)
      BY <1>a, <2>2, <2>p, <3>2, StreamFacts, Zenon DEF acc
    <3>4. StreamOf(accepted)' \in Seq(Oct)
      <4>1. prefix \o d \in Seq(Oct)
        BY <2>2, <2>p, ConcatProperties
      <4>2. acc \o (prefix \o d) \in Seq(Oct)
        BY <1>a, <4>1, ConcatProperties
      <4> QED BY <3>3, <4>2, Zenon
    <3>5. t'.pc = "idle"
      BY <3>2 DEF Idle
    <3>6. Unfinished' = <<>>
      BY <3>5 DEF Unfinished
    <3>7. StreamOf(accepted)' \o <<>> = StreamOf(accepted)'
      BY <3>4, ConcatEmptySeq
    <3>8. StreamInStep'
      BY <2>1, <2>4, <3>1, <3>3, <3>6, <3>7, Zenon DEF StreamInStep
    <3> QED BY <1>0, <2>1, <2>2, <3>2, <3>4, <3>5, <3>8 DEF SendInv
  <2>6. CASE m + k # Len(d)
    <3>1. t' = [t EXCEPT !.len = m + k] /\ accepted' = accepted
      BY <2>1, <2>6, Zenon
    <3>2. t'.pc = "payload" /\ t'.data = d /\ t'.len = m + k
      BY <2>1, <2>k, <3>1
    <3>3. StreamOf(accepted)' = acc
      BY <3>1, Zenon DEF acc
    <3>4. Unfinished' = prefix \o First(d, m + k)
      BY <2>k, <3>2, Zenon DEF Unfinished, prefix
    <3>5. StreamInStep'
      BY <2>1, <2>4, <3>3, <3>4, Zenon DEF StreamInStep
    <3>6. t'.len <= Len(t'.data)
      BY <2>3, <3>2, Zenon
    <3> QED BY <1>0, <1>a, <2>1, <2>2, <3>1, <3>2, <3>3, <3>5, <3>6 DEF SendInv
  <2> QED BY <2>5, <2>6
<1> QED BY <1>1, <1>2, <1>3, <1>4, <1>5, <1>6, <1>7, <1>8, <1>9, <1>10, <1>11, Zenon
        DEF TNext, Work

(***************************************************************************)
(* For as long as no call of transport_send has failed, the socket was     *)
(* given the marker, the accepted frames and the beginning of the one      *)
(* being sent, and nothing else.                                           *)
(***************************************************************************)
THEOREM WritesStayInStep == TSpec => []StreamInStep
<1>1. SendInv => StreamInStep
  BY Zenon DEF SendInv
<1> QED BY InitSend, NextSend, <1>1, PTL DEF TSpec
=============================================================================
