------------------------- MODULE PacketStreamProofs -------------------------
(***************************************************************************)
(* Proofs about the frame codec and the packet stream, for every alphabet, *)
(* every width of the fields and every limit: parse_frames is the inverse  *)
(* of encode_frame, and the reader returns the packets that were sent.     *)
(***************************************************************************)
EXTENDS MCPacketStream, SequenceTheorems, WellFoundedInduction, TLAPS

-----------------------------------------------------------------------------
(* Induction and recursion over numbers. *)

\* A set of natural numbers has a least one.
LEMMA Least == ASSUME NEW T, T \subseteq Nat, T # {}
  PROVE \E m \in T : \A n \in T : m <= n
<1> DEFINE R == {p \in Nat \X Nat : p[1] < p[2]}
<1>1. IsWellFoundedOn(R, Nat)
  BY NatLessThanWellFounded, Zenon DEF OpToRel
<1>2. \E m \in T : \A n \in T : ~(<<n,m>> \in R)
  <2> HIDE DEF R
  <2> QED BY <1>1, WFMin
<1>3. PICK m \in T : \A n \in T : ~(<<n,m>> \in R)
  BY <1>2
<1>4. ASSUME NEW n \in T PROVE m <= n
  <2>1. m \in Nat /\ n \in Nat
    OBVIOUS
  <2>2. ~(n < m)
    BY <1>3, <2>1
  <2> QED BY <2>1, <2>2
<1> QED BY <1>4

\* Induction with a set of numbers for the predicate.
LEMMA Induction == ASSUME NEW T, 0 \in T, \A n \in Nat : n \in T => n + 1 \in T
  PROVE Nat \subseteq T
<1> DEFINE B == {n \in Nat : n \notin T}
<1> SUFFICES ASSUME B # {} PROVE FALSE
  OBVIOUS
<1>1. PICK m \in B : \A n \in B : m <= n
  BY Least
<1>2. m \in Nat /\ m \notin T /\ m # 0
  BY <1>1
<1>3. m - 1 \in Nat /\ (m-1)+1 = m /\ ~(m <= m - 1)
  BY <1>2
<1>4. m - 1 \notin B
  BY <1>1, <1>3
<1> QED BY <1>2, <1>3, <1>4

\* The same up to a number.
LEMMA BoundedInduction ==
  ASSUME NEW n \in Nat, NEW T, 0 \in T, \A i \in 1 .. n : i - 1 \in T => i \in T
  PROVE  0 .. n \subseteq T
<1> DEFINE U == {i \in Nat : i <= n => i \in T}
<1>1. 0 \in U
  OBVIOUS
<1>2. ASSUME NEW i \in Nat, i \in U
      PROVE  i + 1 \in U
  <2>1. CASE i + 1 <= n
    <3>1. i + 1 \in 1 .. n /\ (i + 1) - 1 = i /\ i \in T
      BY <1>2, <2>1
    <3> QED
      BY <3>1
  <2> QED
    BY <2>1
<1>3. Nat \subseteq U
  <2> HIDE DEF U
  <2> QED
    BY <1>1, <1>2, Induction
<1> QED
  BY <1>3

\* f begins with start, and step makes each further value from the one before.
Follows(f, n, start, step) ==
  f[0] = start /\ \A i \in 1 .. n : f[i] = step[<<f[i - 1], i>>]

\* A start and a step make a function on 0 .. n.
LEMMA Recursion ==
  ASSUME NEW n \in Nat, NEW S, NEW start \in S, NEW step \in [S \X (1 .. n) -> S]
  PROVE  \E f \in [0 .. n -> S] : Follows(f, n, start, step)
<1> DEFINE G(f, m) == f[0] = start /\ \A i \in 1 .. m : f[i] = step[<<f[i - 1], i>>]
           T == {m \in Nat : m <= n => \E f \in [0 .. m -> S] : G(f, m)}
<1>1. 0 \in T
  <2>1. [i \in 0 .. 0 |-> start] \in [0 .. 0 -> S] /\ G([i \in 0 .. 0 |-> start], 0)
    OBVIOUS
  <2> QED
    BY <2>1
<1>2. ASSUME NEW m \in Nat, m \in T
      PROVE  m + 1 \in T
  <2> SUFFICES ASSUME m + 1 <= n
               PROVE  \E f \in [0 .. m + 1 -> S] : G(f, m + 1)
    <3> HIDE DEF G
    <3> QED
      OBVIOUS
  <2>1. PICK f \in [0 .. m -> S] : G(f, m)
    <3> HIDE DEF G
    <3> QED
      BY <1>2
  <2>2. step[<<f[m], m + 1>>] \in S
    <3>1. m + 1 \in 1 .. n /\ f[m] \in S
      OBVIOUS
    <3> QED
      BY <3>1
  <2> DEFINE g == [i \in 0 .. m + 1 |-> IF i = m + 1 THEN step[<<f[m], m + 1>>] ELSE f[i]]
  <2>3. g \in [0 .. m + 1 -> S]
    <3>1. \A i \in 0 .. m + 1 : i # m + 1 => i \in 0 .. m
      OBVIOUS
    <3> QED
      BY <2>2, <3>1
  <2>4. \A i \in 1 .. m + 1 : g[i] = step[<<g[i - 1], i>>]
    <3> TAKE i \in 1 .. m + 1
    <3>1. CASE i = m + 1
      <4>1. m \in 0 .. m + 1 /\ m # m + 1 /\ i - 1 = m
        BY <3>1
      <4>2. g[i] = step[<<f[m], m + 1>>] /\ g[i - 1] = f[m]
        BY <3>1, <4>1
      <4> QED
        BY <3>1, <4>2
    <3>2. CASE i # m + 1
      <4>1. i \in 1 .. m /\ i - 1 \in 0 .. m /\ i - 1 # m + 1
        BY <3>2
      <4>2. g[i] = f[i] /\ g[i - 1] = f[i - 1]
        BY <3>2, <4>1
      <4> QED
        BY <2>1, <4>1, <4>2
    <3> QED
      BY <3>1, <3>2
  <2>5. g[0] = start
    BY <2>1
  <2> HIDE DEF g
  <2> QED
    BY <2>3, <2>4, <2>5
<1>3. Nat \subseteq T
  <2> HIDE DEF T
  <2> QED
    BY <1>1, <1>2, Induction
<1>4. PICK f \in [0 .. n -> S] : G(f, n)
  <2>1. n \in T
    <3> HIDE DEF T
    <3> QED
      BY <1>3
  <2> QED
    BY <2>1
<1> QED
  BY <1>4 DEF Follows

\* Two functions on 0 .. n that start alike, and whose values follow alike from the
\* ones before, are alike.
LEMMA Alike ==
  ASSUME NEW n \in Nat, NEW f, NEW g, f[0] = g[0],
         \A i \in 1 .. n : f[i - 1] = g[i - 1] => f[i] = g[i]
  PROVE  \A i \in 0 .. n : f[i] = g[i]
<1> DEFINE T == {i \in 0 .. n : f[i] = g[i]}
<1>1. 0 \in T
  OBVIOUS
<1>2. \A i \in 1 .. n : i - 1 \in T => i \in T
  OBVIOUS
<1>3. 0 .. n \subseteq T
  <2> HIDE DEF T
  <2> QED
    BY <1>1, <1>2, BoundedInduction
<1> QED
  BY <1>3

-----------------------------------------------------------------------------
(* Numbers and their digits (BigEndian, FromBigEndian). *)

\* The numbers that the codec is built from.
LEMMA BaseFacts ==
  /\ Base \in Nat /\ Base >= 2
  /\ SidWidth \in Nat /\ SidWidth >= 1
  /\ LenWidth \in Nat /\ LenWidth >= 1
  /\ MaxBatchFrames \in Nat /\ MaxBatchFrames >= 1
  /\ HeaderSize \in Nat /\ HeaderSize = 1 + SidWidth + LenWidth
BY CodecAssumption DEF HeaderSize

\* Powers, as Power builds them.
Powers(f, k) == f = [i \in 0 .. k |-> IF i = 0 THEN 1 ELSE Base * f[i - 1]]

\* What Powers says of each power.
LEMMA PowersAre ==
  ASSUME NEW k \in Nat, NEW f, Powers(f, k)
  PROVE  f[0] = 1 /\ \A i \in 1 .. k : f[i] = Base * f[i - 1]
<1>1. \A i \in 1 .. k : i # 0 /\ i \in 0 .. k
  OBVIOUS
<1> QED
  BY <1>1 DEF Powers

\* There are powers up to any number.
LEMMA PowersExist ==
  ASSUME NEW k \in Nat
  PROVE  \E f \in [0 .. k -> Nat] : Powers(f, k)
<1> DEFINE step == [x \in Nat \X (1 .. k) |-> Base * x[1]]
<1>1. step \in [Nat \X (1 .. k) -> Nat]
  <2>1. \A n \in Nat : Base * n \in Nat
    BY BaseFacts
  <2> QED
    BY <2>1
<1>2. \A n \in Nat, i \in 1 .. k : step[<<n, i>>] = Base * n
  OBVIOUS
<1>3. PICK f \in [0 .. k -> Nat] : Follows(f, k, 1, step)
  <2> HIDE DEF step
  <2> QED
    BY <1>1, Recursion
<1>4. \A i \in 1 .. k : f[i] = Base * f[i - 1]
  <2> HIDE DEF step
  <2>1. \A i \in 1 .. k : f[i - 1] \in Nat
    OBVIOUS
  <2> QED
    BY <1>2, <1>3, <2>1 DEF Follows
<1>5. \A i \in 0 .. k : f[i] = IF i = 0 THEN 1 ELSE Base * f[i - 1]
  BY <1>3, <1>4 DEF Follows
<1> QED
  BY <1>5 DEF Powers

\* Power is the last of the powers.
LEMMA PowerIs ==
  ASSUME NEW k \in Nat, NEW f, Powers(f, k)
  PROVE  Power(k) = f[k]
<1> DEFINE upTo == CHOOSE g : Powers(g, k)
<1>1. Powers(upTo, k)
  OBVIOUS
<1>2. Power(k) = upTo[k]
  BY DEF Power, Powers
<1> HIDE DEF upTo
<1>3. \A i \in 0 .. k : upTo[i] = f[i]
  BY <1>1, PowersAre, Alike
<1> QED
  BY <1>2, <1>3

\* No byte tells one value apart,
LEMMA PowerZero == Power(0) = 1
BY PowersExist, PowersAre, PowerIs

\* and a further byte Base times as many.
LEMMA PowerStep ==
  ASSUME NEW k \in Nat
  PROVE  Power(k + 1) = Base * Power(k)
<1>0. k + 1 \in Nat
  OBVIOUS
<1>1. PICK f \in [0 .. k + 1 -> Nat] : Powers(f, k + 1)
  BY <1>0, PowersExist, Zenon
<1> DEFINE g == [i \in 0 .. k |-> f[i]]
<1>2. f[0] = 1 /\ \A i \in 1 .. k + 1 : f[i] = Base * f[i - 1]
  BY <1>0, <1>1, PowersAre, Zenon
<1>3. \A i \in 0 .. k : g[i] = IF i = 0 THEN 1 ELSE Base * g[i - 1]
  <2> TAKE i \in 0 .. k
  <2>1. i \in 0 .. k + 1 /\ (i # 0 => i \in 1 .. k + 1 /\ i - 1 \in 0 .. k)
    OBVIOUS
  <2> QED
    BY <1>2, <2>1
<1>4. Powers(g, k)
  BY <1>3 DEF Powers
<1>5. Power(k) = g[k] /\ g[k] = f[k]
  <2> HIDE DEF g
  <2>1. Power(k) = g[k]
    BY <1>4, PowerIs
  <2> QED
    BY <2>1 DEF g
<1>6. Power(k + 1) = f[k + 1]
  BY <1>1, PowerIs
<1>7. k + 1 \in 1 .. k + 1 /\ (k + 1) - 1 = k
  OBVIOUS
<1> QED
  BY <1>2, <1>5, <1>6, <1>7

\* A power is a positive number.
LEMMA PowerPositive == \A k \in Nat : Power(k) \in Nat /\ Power(k) >= 1
<1> DEFINE T == {k \in Nat : Power(k) \in Nat /\ Power(k) >= 1}
<1>1. 0 \in T
  BY PowerZero
<1>2. ASSUME NEW k \in Nat, k \in T
      PROVE  k + 1 \in T
  <2>1. Power(k + 1) = Base * Power(k)
    BY PowerStep
  <2>2. \A b, p \in Nat : b >= 2 /\ p >= 1 => b * p \in Nat /\ b * p >= 1
    OBVIOUS
  <2>3. Base * Power(k) \in Nat /\ Base * Power(k) >= 1
    BY <1>2, <2>2, BaseFacts
  <2> QED
    BY <2>1, <2>3
<1>3. Nat \subseteq T
  <2> HIDE DEF T
  <2> QED
    BY <1>1, <1>2, Induction
<1> QED
  BY <1>3

\* The values of the prefixes of a byte string, as FromBigEndian builds them.
Values(f, s) == f = [i \in 0 .. Len(s) |-> IF i = 0 THEN 0 ELSE f[i - 1] * Base + s[i]]

\* What the values of a byte string's beginnings are, one by one.
LEMMA ValuesAre ==
  ASSUME NEW s \in Seq(Bytes), NEW f, Values(f, s)
  PROVE  f[0] = 0 /\ \A i \in 1 .. Len(s) : f[i] = f[i - 1] * Base + s[i]
<1>1. \A i \in 1 .. Len(s) : i # 0 /\ i \in 0 .. Len(s)
  OBVIOUS
<1>2. 0 \in 0 .. Len(s)
  OBVIOUS
<1> QED
  BY <1>1, <1>2 DEF Values

\* Every byte string has them.
LEMMA ValuesExist ==
  ASSUME NEW s \in Seq(Bytes)
  PROVE  \E f \in [0 .. Len(s) -> Nat] : Values(f, s)
<1> DEFINE step == [x \in Nat \X (1 .. Len(s)) |-> x[1] * Base + s[x[2]]]
<1>0. Len(s) \in Nat /\ \A i \in 1 .. Len(s) : s[i] \in Nat
  BY BaseFacts DEF Bytes
<1>1. step \in [Nat \X (1 .. Len(s)) -> Nat]
  <2>1. \A n, m \in Nat : n * Base + m \in Nat
    BY BaseFacts
  <2> QED
    BY <1>0, <2>1
<1>2. \A n \in Nat, i \in 1 .. Len(s) : step[<<n, i>>] = n * Base + s[i]
  OBVIOUS
<1>3. PICK f \in [0 .. Len(s) -> Nat] : Follows(f, Len(s), 0, step)
  <2> HIDE DEF step
  <2> QED
    BY <1>0, <1>1, Recursion
<1>4. \A i \in 1 .. Len(s) : f[i] = f[i - 1] * Base + s[i]
  <2> HIDE DEF step
  <2>1. \A i \in 1 .. Len(s) : f[i - 1] \in Nat
    BY <1>0
  <2> QED
    BY <1>2, <1>3, <2>1 DEF Follows
<1>5. \A i \in 0 .. Len(s) : f[i] = IF i = 0 THEN 0 ELSE f[i - 1] * Base + s[i]
  BY <1>0, <1>3, <1>4 DEF Follows
<1> QED
  BY <1>5 DEF Values

\* FromBigEndian is the last of the values.
LEMMA FromBigEndianIs ==
  ASSUME NEW s \in Seq(Bytes), NEW f, Values(f, s)
  PROVE  FromBigEndian(s) = f[Len(s)]
<1> DEFINE value == CHOOSE g : Values(g, s)
<1>1. Values(value, s)
  OBVIOUS
<1>2. FromBigEndian(s) = value[Len(s)]
  BY DEF FromBigEndian, Values
<1> HIDE DEF value
<1>3. Len(s) \in Nat
  OBVIOUS
<1>4. \A i \in 0 .. Len(s) : value[i] = f[i]
  <2>1. value[0] = 0 /\ \A i \in 1 .. Len(s) : value[i] = value[i - 1] * Base + s[i]
    BY <1>1, ValuesAre
  <2>2. f[0] = 0 /\ \A i \in 1 .. Len(s) : f[i] = f[i - 1] * Base + s[i]
    BY ValuesAre
  <2>3. \A i \in 1 .. Len(s) : value[i - 1] = f[i - 1] => value[i] = f[i]
    BY <2>1, <2>2
  <2>4. value[0] = f[0]
    BY <2>1, <2>2
  <2> QED
    BY <1>3, <2>3, <2>4, Alike, ZenonT(30)
<1> QED
  BY <1>2, <1>3, <1>4

\* No digit is read as zero.
LEMMA FromEmpty == FromBigEndian(<<>>) = 0
<1>1. <<>> \in Seq(Bytes) /\ Len(<<>>) = 0
  OBVIOUS
<1> QED
  BY <1>1, ValuesExist, ValuesAre, FromBigEndianIs

\* A further digit.
LEMMA FromAppend ==
  ASSUME NEW s \in Seq(Bytes), NEW b \in Bytes
  PROVE  FromBigEndian(Append(s, b)) = FromBigEndian(s) * Base + b
<1> DEFINE t == Append(s, b)
<1>1. /\ t \in Seq(Bytes) /\ Len(t) = Len(s) + 1 /\ t[Len(s) + 1] = b
      /\ \A i \in 1 .. Len(s) : t[i] = s[i]
      /\ Len(s) \in Nat
  OBVIOUS
<1> HIDE DEF t
<1>2. PICK f \in [0 .. Len(t) -> Nat] : Values(f, t)
  BY <1>1, ValuesExist
<1> DEFINE g == [i \in 0 .. Len(s) |-> f[i]]
<1>3. f[0] = 0 /\ \A i \in 1 .. Len(t) : f[i] = f[i - 1] * Base + t[i]
  BY <1>1, <1>2, ValuesAre
<1>4. \A i \in 0 .. Len(s) : g[i] = IF i = 0 THEN 0 ELSE g[i - 1] * Base + s[i]
  <2> TAKE i \in 0 .. Len(s)
  <2>1. i # 0 => i \in 1 .. Len(t) /\ i \in 1 .. Len(s) /\ i - 1 \in 0 .. Len(s)
    BY <1>1
  <2> QED
    BY <1>1, <1>3, <2>1
<1>5. Values(g, s)
  BY <1>4 DEF Values
<1>6. FromBigEndian(s) = f[Len(s)]
  <2>1. FromBigEndian(s) = g[Len(s)]
    <3> HIDE DEF g
    <3> QED
      BY <1>5, FromBigEndianIs
  <2> QED
    BY <1>1, <2>1
<1>7. FromBigEndian(t) = f[Len(t)]
  BY <1>1, <1>2, FromBigEndianIs
<1>8. Len(t) \in 1 .. Len(t) /\ Len(t) - 1 = Len(s)
  BY <1>1
<1> QED
  BY <1>1, <1>3, <1>6, <1>7, <1>8 DEF t

\* A byte string of some length is a shorter one and a last byte.
LEMMA LastByte ==
  ASSUME NEW w \in Nat, NEW s \in Seq(Bytes), Len(s) = w + 1
  PROVE  \E t \in Seq(Bytes), b \in Bytes : s = Append(t, b) /\ Len(t) = w
<1>1. PICK t \in Seq(Bytes), b \in Bytes : s = Append(t, b)
  BY SequenceEmptyOrAppend
<1> QED
  BY <1>1

\* A number is what a division leaves of it.
LEMMA Remainder ==
  ASSUME NEW n \in Nat, NEW b \in Nat, b > 0
  PROVE  n = (n \div b) * b + (n % b)
OBVIOUS

\* Division and digits.
LEMMA Division ==
  /\ \A n \in Nat : /\ n \div Base \in Nat /\ n % Base \in Bytes
                  /\ n = (n \div Base) * Base + (n % Base)
  /\ \A n \in Nat, b \in Bytes : (n * Base + b) \div Base = n /\ (n * Base + b) % Base = b
  /\ \A n, p \in Nat : p >= 1 => (n \div Base) \div p = n \div (Base * p)
  /\ \A n, p \in Nat : n < Base * p => n \div Base < p
<1> USE BaseFacts DEF Bytes
<1>1. \A n \in Nat : /\ n \div Base \in Nat /\ n % Base \in Bytes
                   /\ n = (n \div Base) * Base + (n % Base)
  <2>1. \A n \in Nat : n \div Base \in Nat
    OBVIOUS
  <2>2. \A n \in Nat : n % Base \in Bytes
    OBVIOUS
  <2>3. \A n \in Nat : n = (n \div Base) * Base + (n % Base)
    BY Remainder
  <2> QED
    BY <2>1, <2>2, <2>3
<1>2. \A n \in Nat, b \in Bytes : (n * Base + b) \div Base = n /\ (n * Base + b) % Base = b
  OBVIOUS
<1>3. \A n, p \in Nat : p >= 1 => (n \div Base) \div p = n \div (Base * p)
  OBVIOUS
<1>4. \A n, p \in Nat : n < Base * p => n \div Base < p
  OBVIOUS
<1> QED
  BY <1>1, <1>2, <1>3, <1>4

\* BigEndian gives a byte string of the width.
LEMMA BigEndianType ==
  ASSUME NEW n \in Nat, NEW w \in Nat
  PROVE  /\ BigEndian(n, w) \in Seq(Bytes) /\ Len(BigEndian(n, w)) = w
         /\ \A i \in 1 .. w : BigEndian(n, w)[i] = (n \div Power(w - i)) % Base
<1>1. ASSUME NEW i \in 1 .. w
      PROVE  (n \div Power(w - i)) % Base \in Bytes
  <2>1. Power(w - i) \in Nat /\ Power(w - i) >= 1
    <3>1. w - i \in Nat
      OBVIOUS
    <3> QED
      BY <3>1, PowerPositive
  <2>2. n \div Power(w - i) \in Nat
    <3>1. \A p \in Nat : p >= 1 => n \div p \in Nat
      OBVIOUS
    <3> QED
      BY <2>1, <3>1
  <2> QED
    BY <2>2, Division
<1>2. BigEndian(n, w) \in [1 .. w -> Bytes]
  BY <1>1 DEF BigEndian
<1>3. \A i \in 1 .. w : BigEndian(n, w)[i] = (n \div Power(w - i)) % Base
  BY DEF BigEndian
<1>4. BigEndian(n, w) \in Seq(Bytes) /\ Len(BigEndian(n, w)) = w
  BY <1>2
<1> QED
  BY <1>3, <1>4

\* The last digit, and the ones before it.
LEMMA BigEndianStep ==
  ASSUME NEW n \in Nat, NEW w \in Nat
  PROVE  BigEndian(n, w + 1) = Append(BigEndian(n \div Base, w), n % Base)
<1> DEFINE s == BigEndian(n, w + 1)
           t == BigEndian(n \div Base, w)
<1>1. n \div Base \in Nat /\ n % Base \in Bytes
  BY Division
<1>2. /\ s \in Seq(Bytes) /\ Len(s) = w + 1
      /\ \A i \in 1 .. w + 1 : s[i] = (n \div Power(w + 1 - i)) % Base
  <2>1. w + 1 \in Nat
    OBVIOUS
  <2> QED
    BY <2>1, BigEndianType
<1>3. /\ t \in Seq(Bytes) /\ Len(t) = w
      /\ \A i \in 1 .. w : t[i] = ((n \div Base) \div Power(w - i)) % Base
  BY <1>1, BigEndianType
<1>4. \A i \in 1 .. w : s[i] = t[i]
  <2> TAKE i \in 1 .. w
  <2>1. w - i \in Nat /\ w + 1 - i = (w - i) + 1
    OBVIOUS
  <2>2. Power(w + 1 - i) = Base * Power(w - i)
    BY <2>1, PowerStep
  <2>3. Power(w - i) \in Nat /\ Power(w - i) >= 1
    BY <2>1, PowerPositive
  <2>4. (n \div Base) \div Power(w - i) = n \div Power(w + 1 - i)
    BY <2>2, <2>3, Division
  <2>5. i \in 1 .. w + 1
    OBVIOUS
  <2> QED
    BY <1>2, <1>3, <2>4, <2>5
<1>5. s[w + 1] = n % Base
  <2>1. w + 1 \in 1 .. w + 1 /\ w + 1 - (w + 1) = 0
    OBVIOUS
  <2>2. s[w + 1] = (n \div 1) % Base
    BY <1>2, <2>1, PowerZero
  <2>3. n \div 1 = n
    OBVIOUS
  <2> QED
    BY <2>2, <2>3
<1> HIDE DEF s, t
<1>6. /\ Append(t, n % Base) \in Seq(Bytes)
      /\ Len(Append(t, n % Base)) = w + 1
      /\ \A i \in 1 .. w + 1 : Append(t, n % Base)[i] = IF i = w + 1 THEN n % Base ELSE t[i]
  BY <1>1, <1>3
<1>7. s = Append(t, n % Base)
  <2>1. \A i \in 1 .. w + 1 : i # w + 1 => i \in 1 .. w
    OBVIOUS
  <2>2. \A i \in 1 .. Len(s) : s[i] = Append(t, n % Base)[i]
    BY <1>2, <1>4, <1>5, <1>6, <2>1
  <2> QED
    BY <1>2, <1>6, <2>2, SeqEqual
<1> QED
  BY <1>7 DEF s, t

\* A number that fits is read back as it was written.
LEMMA WrittenIsRead ==
  \A w \in Nat : \A n \in Nat : n < Power(w) => FromBigEndian(BigEndian(n, w)) = n
<1> DEFINE T == {w \in Nat : \A n \in Nat :
                   n < Power(w) => FromBigEndian(BigEndian(n, w)) = n}
<1>1. 0 \in T
  <2>1. \A n \in Nat : n < Power(0) => n = 0
    BY PowerZero
  <2>2. \A n \in Nat : BigEndian(n, 0) = <<>>
    <3> TAKE n \in Nat
    <3>1. BigEndian(n, 0) \in Seq(Bytes) /\ Len(BigEndian(n, 0)) = 0
      BY BigEndianType
    <3> QED
      BY <3>1
  <2> QED
    BY <2>1, <2>2, FromEmpty
<1>2. ASSUME NEW w \in Nat, w \in T
      PROVE  w + 1 \in T
  <2> SUFFICES ASSUME NEW n \in Nat, n < Power(w + 1)
               PROVE  FromBigEndian(BigEndian(n, w + 1)) = n
    OBVIOUS
  <2>1. n \div Base \in Nat /\ n % Base \in Bytes /\ n = (n \div Base) * Base + (n % Base)
    BY Division
  <2>2. n \div Base < Power(w)
    BY PowerStep, PowerPositive, Division
  <2>3. FromBigEndian(BigEndian(n \div Base, w)) = n \div Base
    BY <1>2, <2>1, <2>2
  <2>4. BigEndian(n \div Base, w) \in Seq(Bytes)
    BY <2>1, BigEndianType
  <2> QED
    BY <2>1, <2>3, <2>4, BigEndianStep, FromAppend
<1>3. Nat \subseteq T
  <2> HIDE DEF T
  <2> QED
    BY <1>1, <1>2, Induction
<1> QED
  BY <1>3

\* A further digit leaves a number below the next power.
LEMMA FurtherDigit ==
  ASSUME NEW p \in Nat, NEW x \in Nat, NEW d \in Nat, NEW c \in Nat, x < p, d < c
  PROVE  x * c + d \in Nat /\ x * c + d < c * p
<1>1. PICK k \in Nat : p = x + 1 + k
  <2>1. p - x - 1 \in Nat /\ p = x + 1 + (p - x - 1)
    OBVIOUS
  <2> QED
    BY <2>1
<1>2. x * c \in Nat /\ k * c \in Nat
  OBVIOUS
<1>3. c * p = x * c + c + k * c
  BY <1>1
<1>4. \A u, v \in Nat : u + d \in Nat /\ u + d < u + c + v
  OBVIOUS
<1> QED
  BY <1>2, <1>3, <1>4

\* A byte string is the digits of the number it is read as.
LEMMA ReadIsWritten ==
  ASSUME NEW s \in Seq(Bytes)
  PROVE  /\ FromBigEndian(s) \in Nat
         /\ FromBigEndian(s) < Power(Len(s))
         /\ BigEndian(FromBigEndian(s), Len(s)) = s
<1> DEFINE Good(t) == /\ FromBigEndian(t) \in Nat
                      /\ FromBigEndian(t) < Power(Len(t))
                      /\ BigEndian(FromBigEndian(t), Len(t)) = t
           T == {w \in Nat : \A t \in Seq(Bytes) : Len(t) = w => Good(t)}
<1>1. 0 \in T
  <2>1. \A t \in Seq(Bytes) : Len(t) = 0 => t = <<>>
    OBVIOUS
  <2>2. BigEndian(0, 0) = <<>>
    <3>1. BigEndian(0, 0) \in Seq(Bytes) /\ Len(BigEndian(0, 0)) = 0
      BY BigEndianType
    <3> QED
      BY <2>1, <3>1
  <2>3. Good(<<>>)
    BY <2>2, FromEmpty, PowerZero
  <2> QED
    BY <2>1, <2>3
<1>2. ASSUME NEW w \in Nat, w \in T
      PROVE  w + 1 \in T
  <2> SUFFICES ASSUME NEW t \in Seq(Bytes), Len(t) = w + 1
               PROVE  Good(t)
    <3> HIDE DEF Good
    <3> QED
      OBVIOUS
  <2>1. PICK u \in Seq(Bytes), b \in Bytes : t = Append(u, b) /\ Len(u) = w
    BY LastByte
  <2>2. Good(u)
    <3> HIDE DEF Good
    <3> QED
      BY <1>2, <2>1
  <2> DEFINE v == FromBigEndian(u)
  <2>3. FromBigEndian(t) = v * Base + b
    BY <2>1, FromAppend
  <2> HIDE DEF v
  <2>4. v \in Nat /\ v < Power(w) /\ BigEndian(v, w) = u
    BY <2>1, <2>2 DEF v
  <2>5. b \in Nat /\ b < Base
    BY BaseFacts DEF Bytes
  <2>6. Power(w) \in Nat /\ Power(w + 1) = Base * Power(w)
    BY PowerPositive, PowerStep
  <2>7. v * Base + b \in Nat /\ v * Base + b < Base * Power(w)
    BY <2>4, <2>5, <2>6, FurtherDigit, BaseFacts
  <2>8. (v * Base + b) \div Base = v /\ (v * Base + b) % Base = b
    BY <2>4, Division
  <2>9. BigEndian(v * Base + b, w + 1) = Append(u, b)
    BY <2>4, <2>7, <2>8, BigEndianStep
  <2> QED
    BY <2>1, <2>3, <2>6, <2>7, <2>9
<1>3. Nat \subseteq T
  <2> HIDE DEF T
  <2> QED
    BY <1>1, <1>2, Induction
<1>4. Len(s) \in Nat
  OBVIOUS
<1>5. Good(s)
  <2> HIDE DEF Good
  <2> QED
    BY <1>3, <1>4
<1> QED
  BY <1>5

-----------------------------------------------------------------------------
(* Concatenations (FlattenSeq). *)

\* Induction over sequences, with a set for the predicate.
LEMMA SeqInduction ==
  ASSUME NEW S, NEW T, <<>> \in T,
         \A s \in Seq(S) : \A x \in S : s \in T => Append(s, x) \in T
  PROVE  Seq(S) \subseteq T
<1> DEFINE U == {n \in Nat : \A s \in Seq(S) : Len(s) = n => s \in T}
<1>1. 0 \in U
  <2>1. \A s \in Seq(S) : Len(s) = 0 => s = <<>>
    OBVIOUS
  <2> QED
    BY <2>1
<1>2. ASSUME NEW n \in Nat, n \in U
      PROVE  n + 1 \in U
  <2> SUFFICES ASSUME NEW s \in Seq(S), Len(s) = n + 1
               PROVE  s \in T
    OBVIOUS
  <2>1. s # <<>>
    OBVIOUS
  <2>2. PICK t \in Seq(S), x \in S : s = Append(t, x)
    BY <2>1, SequenceEmptyOrAppend
  <2>3. Len(t) = n
    BY <2>2
  <2> QED
    BY <1>2, <2>2, <2>3
<1>3. Nat \subseteq U
  <2> HIDE DEF U
  <2> QED
    BY <1>1, <1>2, Induction
<1>4. \A s \in Seq(S) : Len(s) \in Nat
  OBVIOUS
<1> QED
  BY <1>3, <1>4

\* The concatenations of the prefixes, as FlattenSeq builds them.
Flattens(f, s) == f = [i \in 1 .. Len(s) |-> IF i = 1 THEN s[i] ELSE f[i - 1] \o s[i]]

\* What the concatenations of the first parts are, one by one.
LEMMA FlattensAre ==
  ASSUME NEW S, NEW s \in Seq(Seq(S)), NEW f, Flattens(f, s)
  PROVE  /\ Len(s) >= 1 => f[1] = s[1]
         /\ \A i \in 2 .. Len(s) : f[i] = f[i - 1] \o s[i]
<1>1. \A i \in 2 .. Len(s) : i # 1 /\ i \in 1 .. Len(s)
  OBVIOUS
<1>2. Len(s) >= 1 => 1 \in 1 .. Len(s)
  OBVIOUS
<1> QED
  BY <1>1, <1>2 DEF Flattens

\* Any parts have them.
LEMMA FlattensExist ==
  ASSUME NEW S, NEW s \in Seq(Seq(S))
  PROVE  \E f \in [1 .. Len(s) -> Seq(S)] : Flattens(f, s)
<1> DEFINE n == Len(s)
           step == [x \in Seq(S) \X (1 .. n) |-> x[1] \o s[x[2]]]
<1>0. n \in Nat /\ (\A i \in 1 .. n : s[i] \in Seq(S)) /\ <<>> \in Seq(S)
  OBVIOUS
<1>1. step \in [Seq(S) \X (1 .. n) -> Seq(S)]
  <2>1. \A t, u \in Seq(S) : t \o u \in Seq(S)
    OBVIOUS
  <2> QED
    BY <1>0, <2>1
<1>2. \A t \in Seq(S), i \in 1 .. n : step[<<t, i>>] = t \o s[i]
  OBVIOUS
<1> HIDE DEF step, n
<1>3. PICK g \in [0 .. n -> Seq(S)] : Follows(g, n, <<>>, step)
  BY <1>0, <1>1, Recursion
<1> DEFINE f == [i \in 1 .. n |-> g[i]]
<1>4. f \in [1 .. n -> Seq(S)]
  BY <1>0
<1>5. \A i \in 1 .. n : g[i] = g[i - 1] \o s[i]
  <2>1. \A i \in 1 .. n : g[i - 1] \in Seq(S)
    BY <1>0
  <2> QED
    BY <1>2, <1>3, <2>1 DEF Follows
<1>6. \A i \in 1 .. n : f[i] = IF i = 1 THEN s[i] ELSE f[i - 1] \o s[i]
  <2> TAKE i \in 1 .. n
  <2>1. CASE i = 1
    <3>1. g[1] = <<>> \o s[1]
      <4>1. 1 \in 1 .. n /\ 1 - 1 = 0 /\ g[0] = <<>>
        BY <1>3, <2>1 DEF Follows
      <4> QED
        BY <1>5, <4>1
    <3>2. <<>> \o s[1] = s[1]
      BY <1>0, <2>1
    <3> QED
      BY <2>1, <3>1, <3>2
  <2>2. CASE i # 1
    <3>1. i - 1 \in 1 .. n
      BY <1>0, <2>2
    <3> QED
      BY <1>5, <2>2, <3>1
  <2> QED
    BY <2>1, <2>2
<1>7. Flattens(f, s)
  BY <1>6 DEF Flattens, n
<1> HIDE DEF f
<1> QED
  BY <1>4, <1>7 DEF n

\* FlattenSeq is the last of the concatenations.
LEMMA FlattenSeqIs ==
  ASSUME NEW S, NEW s \in Seq(Seq(S)), s # <<>>, NEW f, Flattens(f, s)
  PROVE  FlattenSeq(s) = f[Len(s)]
<1> DEFINE flatten == CHOOSE g : Flattens(g, s)
<1>0. Len(s) \in Nat /\ Len(s) >= 1
  OBVIOUS
<1>1. Flattens(flatten, s)
  OBVIOUS
<1>2. FlattenSeq(s) = flatten[Len(s)]
  BY <1>0 DEF FlattenSeq, Flattens
<1> HIDE DEF flatten
<1> DEFINE T == {i \in 0 .. Len(s) : i # 0 => flatten[i] = f[i]}
<1>3. 0 \in T
  BY <1>0
<1>4. ASSUME NEW i \in 1 .. Len(s), i - 1 \in T
      PROVE  i \in T
  <2>1. CASE i = 1
    <3>1. flatten[1] = s[1] /\ f[1] = s[1]
      BY <1>0, <1>1, FlattensAre
    <3> QED
      BY <1>0, <2>1, <3>1
  <2>2. CASE i # 1
    <3>1. i \in 2 .. Len(s) /\ i - 1 # 0 /\ i \in 0 .. Len(s)
      BY <1>0, <2>2
    <3>2. flatten[i] = flatten[i - 1] \o s[i]
      BY <1>1, <3>1, FlattensAre
    <3>3. f[i] = f[i - 1] \o s[i]
      BY <3>1, FlattensAre
    <3> QED
      BY <1>4, <3>1, <3>2, <3>3
  <2> QED
    BY <2>1, <2>2
<1>5. 0 .. Len(s) \subseteq T
  <2> HIDE DEF T
  <2> QED
    BY <1>0, <1>3, <1>4, BoundedInduction
<1> QED
  BY <1>0, <1>2, <1>5

\* No parts make nothing.
LEMMA FlattenEmpty == FlattenSeq(<<>>) = <<>>
BY DEF FlattenSeq

\* Parts over a set make a sequence over it.
LEMMA FlattenType ==
  ASSUME NEW S, NEW s \in Seq(Seq(S))
  PROVE  FlattenSeq(s) \in Seq(S)
<1>1. CASE s = <<>>
  <2>1. <<>> \in Seq(S)
    OBVIOUS
  <2> QED
    BY <1>1, <2>1, FlattenEmpty
<1>2. CASE s # <<>>
  <2>1. PICK f \in [1 .. Len(s) -> Seq(S)] : Flattens(f, s)
    BY FlattensExist
  <2>2. Len(s) \in 1 .. Len(s)
    BY <1>2
  <2>3. FlattenSeq(s) = f[Len(s)]
    BY <1>2, <2>1, FlattenSeqIs
  <2> QED
    BY <2>2, <2>3
<1> QED
  BY <1>1, <1>2

\* A further part comes at the end.
LEMMA FlattenAppend ==
  ASSUME NEW S, NEW s \in Seq(Seq(S)), NEW x \in Seq(S)
  PROVE  FlattenSeq(Append(s, x)) = FlattenSeq(s) \o x
<1> DEFINE t == Append(s, x)
<1>1. /\ t \in Seq(Seq(S)) /\ Len(t) = Len(s) + 1 /\ t[Len(s) + 1] = x /\ t # <<>>
      /\ \A i \in 1 .. Len(s) : t[i] = s[i]
      /\ Len(s) \in Nat
  BY AppendProperties
<1> HIDE DEF t
<1>2. PICK f \in [1 .. Len(t) -> Seq(S)] : Flattens(f, t)
  BY <1>1, FlattensExist
<1>3. FlattenSeq(t) = f[Len(t)]
  BY <1>1, <1>2, FlattenSeqIs
<1>4. f[1] = t[1] /\ \A i \in 2 .. Len(t) : f[i] = f[i - 1] \o t[i]
  <2>1. Len(t) >= 1
    BY <1>1
  <2> QED
    BY <1>1, <1>2, <2>1, FlattensAre
<1>5. CASE s = <<>>
  <2>1. Len(s) = 0
    BY <1>5
  <2>2. FlattenSeq(t) = x
    BY <1>1, <1>3, <1>4, <2>1
  <2>3. <<>> \o x = x
    OBVIOUS
  <2> QED
    BY <1>5, <2>2, <2>3, FlattenEmpty DEF t
<1>6. CASE s # <<>>
  <2>1. Len(s) >= 1
    BY <1>6
  <2> DEFINE g == [i \in 1 .. Len(s) |-> f[i]]
  <2>2. \A i \in 1 .. Len(s) : g[i] = IF i = 1 THEN s[i] ELSE g[i - 1] \o s[i]
    <3> TAKE i \in 1 .. Len(s)
    <3>1. i # 1 => i \in 2 .. Len(t) /\ i - 1 \in 1 .. Len(s)
      BY <1>1
    <3> QED
      BY <1>1, <1>4, <3>1
  <2>3. Flattens(g, s)
    BY <2>2 DEF Flattens
  <2>4. FlattenSeq(s) = f[Len(s)]
    <3>1. FlattenSeq(s) = g[Len(s)]
      <4> HIDE DEF g
      <4> QED
        BY <1>6, <2>3, FlattenSeqIs
    <3> QED
      BY <1>1, <2>1, <3>1
  <2>5. Len(t) \in 2 .. Len(t) /\ Len(t) - 1 = Len(s)
    BY <1>1, <2>1
  <2> QED
    BY <1>1, <1>3, <1>4, <2>4, <2>5, ZenonT(30) DEF t
<1> QED
  BY <1>5, <1>6

\* Two sequences of parts, one behind the other.
LEMMA FlattenConcat ==
  ASSUME NEW S, NEW s \in Seq(Seq(S)), NEW t \in Seq(Seq(S))
  PROVE  FlattenSeq(s \o t) = FlattenSeq(s) \o FlattenSeq(t)
<1> DEFINE T == {u \in Seq(Seq(S)) : FlattenSeq(s \o u) = FlattenSeq(s) \o FlattenSeq(u)}
<1>1. <<>> \in T
  <2>1. s \o <<>> = s /\ FlattenSeq(s) \o <<>> = FlattenSeq(s)
    BY FlattenType, ConcatEmptySeq
  <2>2. <<>> \in Seq(Seq(S))
    OBVIOUS
  <2> QED
    BY <2>1, <2>2, FlattenEmpty
<1>2. ASSUME NEW u \in Seq(Seq(S)), NEW x \in Seq(S), u \in T
      PROVE  Append(u, x) \in T
  <2>1. s \o Append(u, x) = Append(s \o u, x) /\ s \o u \in Seq(Seq(S))
    OBVIOUS
  <2>2. FlattenSeq(s \o Append(u, x)) = (FlattenSeq(s) \o FlattenSeq(u)) \o x
    BY <1>2, <2>1, FlattenAppend
  <2>3. FlattenSeq(Append(u, x)) = FlattenSeq(u) \o x
    BY FlattenAppend
  <2>4. (FlattenSeq(s) \o FlattenSeq(u)) \o x = FlattenSeq(s) \o (FlattenSeq(u) \o x)
    BY FlattenType, ConcatAssociative
  <2>5. Append(u, x) \in Seq(Seq(S))
    OBVIOUS
  <2> QED
    BY <2>2, <2>3, <2>4, <2>5
<1>3. Seq(Seq(S)) \subseteq T
  <2> HIDE DEF T
  <2> QED
    BY <1>1, <1>2, SeqInduction
<1> QED
  BY <1>3

\* The first part comes first.
LEMMA FlattenHead ==
  ASSUME NEW S, NEW s \in Seq(Seq(S)), s # <<>>
  PROVE  FlattenSeq(s) = Head(s) \o FlattenSeq(Tail(s))
<1>1. Head(s) \in Seq(S) /\ Tail(s) \in Seq(Seq(S)) /\ s = <<Head(s)>> \o Tail(s)
  OBVIOUS
<1>2. <<Head(s)>> = Append(<<>>, Head(s)) /\ <<>> \in Seq(Seq(S)) /\ <<Head(s)>> \in Seq(Seq(S))
  BY <1>1
<1>3. FlattenSeq(<<Head(s)>>) = Head(s)
  <2>1. FlattenSeq(Append(<<>>, Head(s))) = <<>> \o Head(s)
    BY <1>1, <1>2, FlattenAppend, FlattenEmpty
  <2> QED
    BY <1>1, <1>2, <2>1, ConcatEmptySeq
<1> QED
  BY <1>1, <1>2, <1>3, FlattenConcat

-----------------------------------------------------------------------------
(* Slices. *)

\* A slice, with the position before its first element and that of its last.
LEMMA Slice ==
  ASSUME NEW S, NEW s \in Seq(S), NEW a \in Nat, NEW b \in Nat, a <= b, b <= Len(s)
  PROVE  /\ SubSeq(s, a + 1, b) \in Seq(S) /\ Len(SubSeq(s, a + 1, b)) = b - a
         /\ \A i \in 1 .. b - a : SubSeq(s, a + 1, b)[i] = s[a + i]
<1>1. a + 1 \in Int /\ b \in Int /\ \A i \in a + 1 .. b : s[i] \in S
  OBVIOUS
<1>2. /\ SubSeq(s, a + 1, b) \in Seq(S)
      /\ Len(SubSeq(s, a + 1, b)) = IF a + 1 <= b THEN b - (a + 1) + 1 ELSE 0
      /\ \A i \in 1 .. b - (a + 1) + 1 : SubSeq(s, a + 1, b)[i] = s[(a + 1) + i - 1]
  BY <1>1, SubSeqProperties
<1>3. b - (a + 1) + 1 = b - a /\ (~(a + 1 <= b) => b - a = 0)
  OBVIOUS
<1>4. \A i \in 1 .. b - a : (a + 1) + i - 1 = a + i
  OBVIOUS
<1> QED
  BY <1>2, <1>3, <1>4

\* A slice of a slice.
LEMMA SliceOfSlice ==
  ASSUME NEW S, NEW s \in Seq(S), NEW a \in Nat, NEW b \in Nat, a <= b, b <= Len(s),
         NEW c \in Nat, NEW d \in Nat, c <= d, d <= b - a
  PROVE  SubSeq(SubSeq(s, a + 1, b), c + 1, d) = SubSeq(s, (a + c) + 1, a + d)
<1> DEFINE t == SubSeq(s, a + 1, b)
           u == SubSeq(t, c + 1, d)
           v == SubSeq(s, (a + c) + 1, a + d)
<1>1. t \in Seq(S) /\ Len(t) = b - a /\ \A i \in 1 .. b - a : t[i] = s[a + i]
  BY Slice
<1> HIDE DEF t
<1>2. u \in Seq(S) /\ Len(u) = d - c /\ \A i \in 1 .. d - c : u[i] = t[c + i]
  BY <1>1, Slice
<1>3. v \in Seq(S) /\ Len(v) = d - c /\ \A i \in 1 .. d - c : v[i] = s[(a + c) + i]
  <2>1. a + c \in Nat /\ a + d \in Nat /\ a + c <= a + d /\ a + d <= Len(s)
        /\ (a + d) - (a + c) = d - c
    OBVIOUS
  <2> QED
    BY <2>1, Slice
<1> HIDE DEF u, v
<1>4. \A i \in 1 .. d - c : u[i] = v[i]
  <2> TAKE i \in 1 .. d - c
  <2>1. c + i \in 1 .. b - a /\ a + (c + i) = (a + c) + i
    OBVIOUS
  <2> QED
    BY <1>1, <1>2, <1>3, <2>1
<1>5. u = v
  BY <1>2, <1>3, <1>4, SeqEqual
<1> QED
  BY <1>5 DEF t, u, v

\* A slice of the left part of a concatenation,
LEMMA SliceOfLeft ==
  ASSUME NEW S, NEW s \in Seq(S), NEW t \in Seq(S),
         NEW a \in Nat, NEW b \in Nat, a <= b, b <= Len(s)
  PROVE  SubSeq(s \o t, a + 1, b) = SubSeq(s, a + 1, b)
<1> DEFINE w == s \o t
           u == SubSeq(w, a + 1, b)
           v == SubSeq(s, a + 1, b)
<1>1. w \in Seq(S) /\ Len(w) = Len(s) + Len(t) /\ \A i \in 1 .. Len(s) : w[i] = s[i]
  OBVIOUS
<1> HIDE DEF w
<1>2. u \in Seq(S) /\ Len(u) = b - a /\ \A i \in 1 .. b - a : u[i] = w[a + i]
  <2>1. b <= Len(w)
    BY <1>1
  <2> QED
    BY <1>1, <2>1, Slice
<1>3. v \in Seq(S) /\ Len(v) = b - a /\ \A i \in 1 .. b - a : v[i] = s[a + i]
  BY Slice
<1> HIDE DEF u, v
<1>4. \A i \in 1 .. b - a : a + i \in 1 .. Len(s)
  OBVIOUS
<1>5. u = v
  BY <1>1, <1>2, <1>3, <1>4, SeqEqual
<1> QED
  BY <1>5 DEF u, v, w

\* and of the right part.
LEMMA SliceOfRight ==
  ASSUME NEW S, NEW s \in Seq(S), NEW t \in Seq(S),
         NEW a \in Nat, NEW b \in Nat, a <= b, b <= Len(t)
  PROVE  SubSeq(s \o t, (Len(s) + a) + 1, Len(s) + b) = SubSeq(t, a + 1, b)
<1> DEFINE w == s \o t
           n == Len(s)
           u == SubSeq(w, (n + a) + 1, n + b)
           v == SubSeq(t, a + 1, b)
<1>1. /\ w \in Seq(S) /\ Len(w) = n + Len(t) /\ n \in Nat
      /\ \A i \in 1 .. Len(t) : w[n + i] = t[i]
  OBVIOUS
<1> HIDE DEF w, n
<1>2. u \in Seq(S) /\ Len(u) = b - a /\ \A i \in 1 .. b - a : u[i] = w[(n + a) + i]
  <2>1. n + a \in Nat /\ n + b \in Nat /\ n + a <= n + b /\ n + b <= Len(w)
        /\ (n + b) - (n + a) = b - a
    BY <1>1
  <2> QED
    BY <1>1, <2>1, Slice
<1>3. v \in Seq(S) /\ Len(v) = b - a /\ \A i \in 1 .. b - a : v[i] = t[a + i]
  BY Slice
<1> HIDE DEF u, v
<1>4. \A i \in 1 .. b - a : a + i \in 1 .. Len(t) /\ n + (a + i) = (n + a) + i
  BY <1>1
<1>5. u = v
  BY <1>1, <1>2, <1>3, <1>4, SeqEqual, ZenonT(30)
<1> QED
  BY <1>5 DEF u, v, w, n

\* A sequence that is cut into parts is put together from them.
LEMMA FlattenParts ==
  ASSUME NEW S, NEW s \in Seq(S), NEW parts \in Seq(Seq(S)),
         NEW cut \in [0 .. Len(parts) -> 0 .. Len(s)],
         cut[0] = 0,
         \A i \in 1 .. Len(parts) :
           cut[i - 1] <= cut[i] /\ parts[i] = SubSeq(s, cut[i - 1] + 1, cut[i])
  PROVE  FlattenSeq(parts) = SubSeq(s, 1, cut[Len(parts)])
<1> DEFINE n == Len(parts)
           T == {i \in 0 .. n : FlattenSeq(SubSeq(parts, 1, i)) = SubSeq(s, 1, cut[i])}
<1>1. n \in Nat /\ Len(s) \in Nat
  OBVIOUS
<1>2. 0 \in T
  <2>1. SubSeq(parts, 1, 0) = <<>> /\ SubSeq(s, 1, 0) = <<>>
    BY SubSeqEmpty
  <2>2. FlattenSeq(SubSeq(parts, 1, 0)) = SubSeq(s, 1, cut[0])
    BY <2>1, FlattenEmpty
  <2> QED
    BY <1>1, <2>2
<1>3. ASSUME NEW i \in 1 .. n, i - 1 \in T
      PROVE  i \in T
  <2>1. i \in 0 .. n /\ i - 1 \in 0 .. n /\ parts[i] \in Seq(S)
    OBVIOUS
  <2>2. /\ SubSeq(parts, 1, i - 1) \in Seq(Seq(S))
        /\ SubSeq(parts, 1, i) = Append(SubSeq(parts, 1, i - 1), parts[i])
    <3>1. /\ SubSeq(parts, 0 + 1, i - 1) \in Seq(Seq(S))
          /\ Len(SubSeq(parts, 0 + 1, i - 1)) = (i - 1) - 0
          /\ \A j \in 1 .. (i - 1) - 0 : SubSeq(parts, 0 + 1, i - 1)[j] = parts[0 + j]
      BY <2>1, Slice
    <3>2. /\ SubSeq(parts, 0 + 1, i) \in Seq(Seq(S)) /\ Len(SubSeq(parts, 0 + 1, i)) = i - 0
          /\ \A j \in 1 .. i - 0 : SubSeq(parts, 0 + 1, i)[j] = parts[0 + j]
      BY <2>1, Slice
    <3>3. 0 + 1 = 1 /\ (i - 1) - 0 = i - 1 /\ i - 0 = i /\ \A j \in 1 .. i : 0 + j = j
      OBVIOUS
    <3> DEFINE p == SubSeq(parts, 1, i - 1)
               q == SubSeq(parts, 1, i)
               r == Append(p, parts[i])
    <3>4. p \in Seq(Seq(S)) /\ Len(p) = i - 1 /\ \A j \in 1 .. i - 1 : p[j] = parts[j]
      BY <3>1, <3>3
    <3>5. q \in Seq(Seq(S)) /\ Len(q) = i /\ \A j \in 1 .. i : q[j] = parts[j]
      BY <3>2, <3>3
    <3> HIDE DEF p, q
    <3>6. r \in Seq(Seq(S)) /\ Len(r) = i /\ \A j \in 1 .. i : r[j] = parts[j]
      <4>1. /\ r \in Seq(Seq(S)) /\ Len(r) = Len(p) + 1
            /\ (\A j \in 1 .. Len(p) : r[j] = p[j]) /\ r[Len(p) + 1] = parts[i]
        BY <2>1, <3>4, AppendProperties
      <4>2. \A j \in 1 .. i : j = i \/ j \in 1 .. i - 1
        OBVIOUS
      <4> QED
        BY <3>4, <4>1, <4>2
    <3> HIDE DEF r
    <3>7. q = r
      BY <3>5, <3>6, SeqEqual
    <3> QED
      BY <3>4, <3>7 DEF p, q, r
  <2>3. FlattenSeq(SubSeq(parts, 1, i)) = FlattenSeq(SubSeq(parts, 1, i - 1)) \o parts[i]
    BY <2>1, <2>2, FlattenAppend
  <2>4. FlattenSeq(SubSeq(parts, 1, i - 1)) = SubSeq(s, 1, cut[i - 1])
    BY <1>3
  <2>5. SubSeq(s, 1, cut[i - 1]) \o SubSeq(s, cut[i - 1] + 1, cut[i]) = SubSeq(s, 1, cut[i])
    <3>1. cut[i - 1] \in 0 .. Len(s) /\ cut[i] \in 0 .. Len(s) /\ cut[i - 1] <= cut[i]
      BY <2>1
    <3>2. /\ cut[i - 1] \in 1 - 1 .. Len(s) /\ cut[i] \in cut[i - 1] .. Len(s)
          /\ 1 \in 1 .. Len(s) + 1
      BY <1>1, <3>1
    <3> QED
      BY <3>2, ConcatAdjacentSubSeq
  <2> QED
    BY <2>1, <2>3, <2>4, <2>5
<1>4. 0 .. n \subseteq T
  <2> HIDE DEF T, n
  <2> QED
    BY <1>1, <1>2, <1>3, BoundedInduction
<1>5. SubSeq(parts, 1, n) = parts
  BY SubSeqFull
<1>6. n \in T
  <2> HIDE DEF T, n
  <2> QED
    BY <1>1, <1>4
<1> QED
  BY <1>5, <1>6

\* The parts that a sequence is put together from can be found in it.
LEMMA PartsOfFlatten ==
  ASSUME NEW S, NEW parts \in Seq(Seq(S))
  PROVE  \E cut \in [0 .. Len(parts) -> 0 .. Len(FlattenSeq(parts))] :
           /\ cut[0] = 0 /\ cut[Len(parts)] = Len(FlattenSeq(parts))
           /\ \A i \in 1 .. Len(parts) :
                /\ cut[i] = cut[i - 1] + Len(parts[i])
                /\ SubSeq(FlattenSeq(parts), cut[i - 1] + 1, cut[i]) = parts[i]
<1> DEFINE Cuts(p, cut) ==
             /\ cut[0] = 0 /\ cut[Len(p)] = Len(FlattenSeq(p))
             /\ \A i \in 1 .. Len(p) :
                  /\ cut[i] = cut[i - 1] + Len(p[i])
                  /\ SubSeq(FlattenSeq(p), cut[i - 1] + 1, cut[i]) = p[i]
           T == {p \in Seq(Seq(S)) :
                   \E cut \in [0 .. Len(p) -> 0 .. Len(FlattenSeq(p))] : Cuts(p, cut)}
<1>1. <<>> \in T
  <2>1. <<>> \in Seq(Seq(S)) /\ Len(<<>>) = 0 /\ Len(FlattenSeq(<<>>)) = 0
    BY FlattenEmpty
  <2>2. [i \in 0 .. 0 |-> 0] \in [0 .. 0 -> 0 .. 0]
    OBVIOUS
  <2>3. Cuts(<<>>, [i \in 0 .. 0 |-> 0])
    BY <2>1
  <2> HIDE DEF Cuts
  <2> QED
    BY <2>1, <2>2, <2>3
<1>2. ASSUME NEW p \in Seq(Seq(S)), NEW x \in Seq(S), p \in T
      PROVE  Append(p, x) \in T
  <2> DEFINE q == Append(p, x)
             s == FlattenSeq(p)
             t == FlattenSeq(q)
  <2>1. PICK cut \in [0 .. Len(p) -> 0 .. Len(s)] : Cuts(p, cut)
    <3> HIDE DEF Cuts
    <3> QED
      BY <1>2
  <2>2. /\ q \in Seq(Seq(S)) /\ Len(q) = Len(p) + 1 /\ q[Len(p) + 1] = x
        /\ \A i \in 1 .. Len(p) : q[i] = p[i]
        /\ Len(p) \in Nat
    BY AppendProperties
  <2>3. t = s \o x /\ s \in Seq(S) /\ Len(s) \in Nat /\ Len(x) \in Nat
        /\ Len(t) = Len(s) + Len(x) /\ t \in Seq(S)
    <3>1. t = s \o x /\ s \in Seq(S)
      BY FlattenAppend, FlattenType
    <3> HIDE DEF s, t
    <3> QED
      BY <3>1
  <2>4. /\ cut[0] = 0 /\ cut[Len(p)] = Len(s)
        /\ \A i \in 1 .. Len(p) : /\ cut[i] = cut[i - 1] + Len(p[i])
                                  /\ SubSeq(s, cut[i - 1] + 1, cut[i]) = p[i]
    BY <2>1
  <2> HIDE DEF q, s, t
  <2> DEFINE new == [i \in 0 .. Len(q) |-> IF i = Len(q) THEN Len(t) ELSE cut[i]]
  <2>5. new \in [0 .. Len(q) -> 0 .. Len(t)]
    <3>1. \A i \in 0 .. Len(q) : i # Len(q) => cut[i] \in 0 .. Len(t)
      <4> TAKE i \in 0 .. Len(q)
      <4> HAVE i # Len(q)
      <4>1. i \in 0 .. Len(p)
        BY <2>2
      <4>2. cut[i] \in 0 .. Len(s)
        BY <4>1
      <4> QED
        BY <2>3, <4>2
    <3> QED
      BY <2>3, <3>1
  <2>6. new[0] = 0 /\ new[Len(q)] = Len(t) /\ \A i \in 0 .. Len(p) : new[i] = cut[i]
    BY <2>2, <2>4
  <2> HIDE DEF new
  <2>7. ASSUME NEW i \in 1 .. Len(q)
        PROVE  new[i] = new[i - 1] + Len(q[i]) /\ SubSeq(t, new[i - 1] + 1, new[i]) = q[i]
    <3>1. CASE i = Len(q)
      <4>1. new[i] = Len(t) /\ new[i - 1] = Len(s) /\ q[i] = x
        BY <2>2, <2>4, <2>6, <3>1
      <4>2. SubSeq(t, (Len(s) + 0) + 1, Len(s) + Len(x)) = SubSeq(x, 0 + 1, Len(x))
        BY <2>3, SliceOfRight
      <4>3. SubSeq(x, 1, Len(x)) = x
        BY SubSeqFull
      <4>4. Len(s) + 0 = Len(s) /\ 0 + 1 = 1
        BY <2>3
      <4> QED
        BY <2>3, <4>1, <4>2, <4>3, <4>4
    <3>2. CASE i # Len(q)
      <4>1. i \in 1 .. Len(p) /\ i \in 0 .. Len(p) /\ i - 1 \in 0 .. Len(p)
        BY <2>2, <3>2
      <4>2. new[i] = cut[i] /\ new[i - 1] = cut[i - 1] /\ q[i] = p[i]
        BY <2>2, <2>6, <4>1
      <4>3. cut[i] = cut[i - 1] + Len(p[i]) /\ SubSeq(s, cut[i - 1] + 1, cut[i]) = p[i]
        BY <2>4, <4>1
      <4>4. cut[i - 1] \in Nat /\ cut[i] \in Nat /\ cut[i] <= Len(s) /\ Len(p[i]) \in Nat
        <5>1. cut[i - 1] \in 0 .. Len(s) /\ cut[i] \in 0 .. Len(s)
          BY <4>1
        <5>2. p[i] \in Seq(S)
          BY <4>1
        <5> QED
          BY <2>3, <5>1, <5>2
      <4>5. SubSeq(t, cut[i - 1] + 1, cut[i]) = SubSeq(s, cut[i - 1] + 1, cut[i])
        <5>1. cut[i - 1] <= cut[i]
          BY <4>3, <4>4
        <5>2. /\ t = s \o x /\ s \in Seq(S) /\ x \in Seq(S)
              /\ cut[i - 1] \in Nat /\ cut[i] \in Nat
              /\ cut[i - 1] <= cut[i] /\ cut[i] <= Len(s)
          BY <2>3, <4>4, <5>1
        <5> QED
          BY <5>2, SliceOfLeft, ZenonT(30)
      <4> QED
        BY <4>2, <4>3, <4>5
    <3> QED
      BY <3>1, <3>2
  <2>8. Cuts(q, new)
    BY <2>6, <2>7 DEF t
  <2> HIDE DEF Cuts
  <2>9. q \in T
    BY <2>2, <2>5, <2>8 DEF t
  <2> QED
    BY <2>9 DEF q
<1>3. Seq(Seq(S)) \subseteq T
  <2> HIDE DEF T
  <2> QED
    BY <1>1, <1>2, SeqInduction
<1>4. PICK cut \in [0 .. Len(parts) -> 0 .. Len(FlattenSeq(parts))] : Cuts(parts, cut)
  <2> HIDE DEF Cuts
  <2> QED
    BY <1>3
<1> QED
  BY <1>4

-----------------------------------------------------------------------------
(* One frame (EncodeFrame, FrameFits, FrameAt). *)

\* The frames that encode_frame can write and parse_frames returns.
Frames ==
  [type : Bytes, sid : 0 .. Power(SidWidth) - 1,
   payload : {p \in Seq(Bytes) : Len(p) <= MaxPayload}]

\* encode_frame refuses none of them.
LEMMA FramesEncodable == \A f \in Frames : Encodable(f)
BY PowerPositive, BaseFacts DEF Frames, Encodable, MaxStreamId

\* The length of a payload fits into its field.
LEMMA LengthFits ==
  ASSUME NEW n \in Nat, n <= MaxPayload
  PROVE  n < Power(LenWidth) /\ MaxPayload \in Nat
BY CodecAssumption, PowerPositive, BaseFacts

\* The fields of a frame, and what they are limited to.
LEMMA FrameFields ==
  ASSUME NEW f \in Frames
  PROVE  /\ f.type \in Bytes /\ f.payload \in Seq(Bytes)
         /\ Len(f.payload) \in Nat /\ Len(f.payload) <= MaxPayload
         /\ f.sid \in Nat /\ f.sid < Power(SidWidth)
         /\ f = [type |-> f.type, sid |-> f.sid, payload |-> f.payload]
<1>1. /\ f.type \in Bytes /\ f.sid \in 0 .. Power(SidWidth) - 1
      /\ f.payload \in {p \in Seq(Bytes) : Len(p) <= MaxPayload}
      /\ f = [type |-> f.type, sid |-> f.sid, payload |-> f.payload]
  BY DEF Frames
<1>2. f.payload \in Seq(Bytes) /\ Len(f.payload) <= MaxPayload
  BY <1>1
<1>3. Len(f.payload) \in Nat
  BY <1>2
<1>4. Power(SidWidth) \in Nat
  BY PowerPositive, BaseFacts
<1>5. f.sid \in Nat /\ f.sid < Power(SidWidth)
  BY <1>1, <1>4
<1> QED
  BY <1>1, <1>2, <1>3, <1>5

\* One sequence behind another.
LEMMA Join ==
  ASSUME NEW S, NEW s \in Seq(S), NEW t \in Seq(S)
  PROVE  /\ s \o t \in Seq(S) /\ Len(s \o t) = Len(s) + Len(t)
         /\ \A i \in 1 .. Len(s) : (s \o t)[i] = s[i]
         /\ \A i \in 1 .. Len(t) : (s \o t)[Len(s) + i] = t[i]
OBVIOUS

\* The fields of an encoded frame, and where they are.
LEMMA EncodedFrame ==
  ASSUME NEW f \in Frames
  PROVE  /\ EncodeFrame(f) \in Seq(Bytes)
         /\ Len(EncodeFrame(f)) = HeaderSize + Len(f.payload)
         /\ EncodeFrame(f)[1] = f.type
         /\ SubSeq(EncodeFrame(f), 1 + 1, 1 + SidWidth) = BigEndian(f.sid, SidWidth)
         /\ SubSeq(EncodeFrame(f), (1 + SidWidth) + 1, HeaderSize)
              = BigEndian(Len(f.payload), LenWidth)
         /\ SubSeq(EncodeFrame(f), HeaderSize + 1, HeaderSize + Len(f.payload)) = f.payload
<1> DEFINE t == <<f.type>>
           A == BigEndian(f.sid, SidWidth)
           B == BigEndian(Len(f.payload), LenWidth)
           P == f.payload
           tA == t \o A
           tAB == tA \o B
           e == tAB \o P
<1>1. /\ f.type \in Bytes /\ P \in Seq(Bytes) /\ Len(P) \in Nat /\ Len(P) <= MaxPayload
      /\ f.sid \in Nat
  BY FrameFields
<1>2. A \in Seq(Bytes) /\ Len(A) = SidWidth
  BY <1>1, BigEndianType, BaseFacts
<1>3. B \in Seq(Bytes) /\ Len(B) = LenWidth
  BY <1>1, BigEndianType, BaseFacts
<1>4. t \in Seq(Bytes) /\ Len(t) = 1 /\ t[1] = f.type
  BY <1>1
<1>5. EncodeFrame(f) = e
  BY DEF EncodeFrame
<1> HIDE DEF t, A, B, P
<1>6. tA \in Seq(Bytes) /\ Len(tA) = 1 + SidWidth /\ tA[1] = f.type
  <2>1. 1 \in 1 .. Len(t)
    BY <1>4
  <2> QED
    BY <1>2, <1>4, <2>1, Join
<1> HIDE DEF tA
<1>7. tAB \in Seq(Bytes) /\ Len(tAB) = HeaderSize /\ tAB[1] = f.type
  <2>1. 1 \in 1 .. Len(tA) /\ (1 + SidWidth) + LenWidth = HeaderSize
    BY <1>6, BaseFacts
  <2> QED
    BY <1>3, <1>6, <2>1, Join, ZenonT(30)
<1> HIDE DEF tAB
<1>8. e \in Seq(Bytes) /\ Len(e) = HeaderSize + Len(P) /\ e[1] = f.type
  <2>1. 1 \in 1 .. Len(tAB)
    BY <1>7, BaseFacts
  <2> QED
    BY <1>1, <1>7, <2>1, Join, ZenonT(30)
<1>9. SubSeq(e, 1 + 1, 1 + SidWidth) = A
  <2>1. SubSeq(e, 1 + 1, 1 + SidWidth) = SubSeq(tAB, 1 + 1, 1 + SidWidth)
    BY <1>1, <1>7, SliceOfLeft, BaseFacts
  <2>2. SubSeq(tAB, 1 + 1, 1 + SidWidth) = SubSeq(tA, 1 + 1, 1 + SidWidth)
    BY <1>3, <1>6, SliceOfLeft, BaseFacts DEF tAB
  <2>3. SubSeq(tA, (1 + 0) + 1, 1 + SidWidth) = SubSeq(A, 0 + 1, SidWidth)
    <3>1. 0 \in Nat /\ 0 <= SidWidth /\ SidWidth <= Len(A) /\ SidWidth \in Nat
      BY <1>2, BaseFacts
    <3>2. SubSeq(tA, (Len(t) + 0) + 1, Len(t) + SidWidth) = SubSeq(A, 0 + 1, SidWidth)
      BY <1>2, <1>4, <3>1, SliceOfRight, ZenonT(30) DEF tA
    <3> QED
      BY <1>4, <3>2
  <2>4. SubSeq(A, 1, SidWidth) = A
    BY <1>2, SubSeqFull
  <2>5. (1 + 0) + 1 = 1 + 1 /\ 0 + 1 = 1
    OBVIOUS
  <2> QED
    BY <2>1, <2>2, <2>3, <2>4, <2>5
<1>10. SubSeq(e, (1 + SidWidth) + 1, HeaderSize) = B
  <2>1. SubSeq(e, (1 + SidWidth) + 1, HeaderSize) = SubSeq(tAB, (1 + SidWidth) + 1, HeaderSize)
    BY <1>1, <1>7, SliceOfLeft, BaseFacts
  <2>2. SubSeq(tAB, ((1 + SidWidth) + 0) + 1, (1 + SidWidth) + LenWidth)
          = SubSeq(B, 0 + 1, LenWidth)
    <3>1. 0 \in Nat /\ 0 <= LenWidth /\ LenWidth <= Len(B)
      BY <1>3, BaseFacts
    <3> QED
      BY <1>3, <1>6, <3>1, SliceOfRight, BaseFacts DEF tAB
  <2>3. SubSeq(B, 1, LenWidth) = B
    BY <1>3, SubSeqFull
  <2>4. (1 + SidWidth) + 0 = 1 + SidWidth /\ (1 + SidWidth) + LenWidth = HeaderSize /\ 0 + 1 = 1
    BY BaseFacts
  <2> QED
    BY <2>1, <2>2, <2>3, <2>4
<1>11. SubSeq(e, HeaderSize + 1, HeaderSize + Len(P)) = P
  <2>1. SubSeq(e, (HeaderSize + 0) + 1, HeaderSize + Len(P)) = SubSeq(P, 0 + 1, Len(P))
    BY <1>1, <1>7, SliceOfRight, BaseFacts
  <2>2. SubSeq(P, 1, Len(P)) = P
    BY <1>1, SubSeqFull
  <2>3. HeaderSize + 0 = HeaderSize /\ 0 + 1 = 1
    BY BaseFacts
  <2> QED
    BY <2>1, <2>2, <2>3
<1> HIDE DEF e
<1> QED
  BY <1>5, <1>8, <1>9, <1>10, <1>11 DEF A, B, P

\* The places where the parser looks, counted from the byte before the frame.
LEMMA Places ==
  ASSUME NEW data, NEW a \in Nat
  PROVE  /\ PayloadLen(data, a + 1)
              = FromBigEndian(SubSeq(data, (a + (1 + SidWidth)) + 1, a + HeaderSize))
         /\ FrameAt(data, a + 1).type = data[a + 1]
         /\ FrameAt(data, a + 1).sid
              = FromBigEndian(SubSeq(data, (a + 1) + 1, a + (1 + SidWidth)))
         /\ \A n \in Nat : PayloadLen(data, a + 1) = n =>
              FrameAt(data, a + 1).payload
                = SubSeq(data, (a + HeaderSize) + 1, a + (HeaderSize + n))
         /\ FrameAt(data, a + 1) =
              [type    |-> FrameAt(data, a + 1).type,
               sid     |-> FrameAt(data, a + 1).sid,
               payload |-> FrameAt(data, a + 1).payload]
<1>1. /\ (a + 1) + 1 + SidWidth = (a + (1 + SidWidth)) + 1
      /\ (a + 1) + HeaderSize - 1 = a + HeaderSize
      /\ (a + 1) + SidWidth = a + (1 + SidWidth)
      /\ (a + 1) + HeaderSize = (a + HeaderSize) + 1
      /\ \A n \in Nat : (a + 1) + HeaderSize + n - 1 = a + (HeaderSize + n)
  BY BaseFacts
<1>2. PayloadLen(data, a + 1)
        = FromBigEndian(SubSeq(data, (a + (1 + SidWidth)) + 1, a + HeaderSize))
  BY <1>1 DEF PayloadLen
<1>3. FrameAt(data, a + 1).sid
        = FromBigEndian(SubSeq(data, (a + 1) + 1, a + (1 + SidWidth)))
  BY <1>1 DEF FrameAt
<1>4. \A n \in Nat : PayloadLen(data, a + 1) = n =>
        FrameAt(data, a + 1).payload
          = SubSeq(data, (a + HeaderSize) + 1, a + (HeaderSize + n))
  BY <1>1 DEF FrameAt
<1>5. /\ FrameAt(data, a + 1).type = data[a + 1]
      /\ FrameAt(data, a + 1) =
           [type    |-> FrameAt(data, a + 1).type,
            sid     |-> FrameAt(data, a + 1).sid,
            payload |-> FrameAt(data, a + 1).payload]
  BY DEF FrameAt
<1> QED
  BY <1>2, <1>3, <1>4, <1>5

\* A frame that has been written is found and read.
LEMMA FrameFound ==
  ASSUME NEW data \in Seq(Bytes), NEW a \in Nat, NEW f \in Frames,
         NEW b \in Nat, b = a + Len(EncodeFrame(f)), b <= Len(data),
         SubSeq(data, a + 1, b) = EncodeFrame(f)
  PROVE  /\ FrameFits(data, a + 1)
         /\ NextFrame(data, a + 1) = b + 1
         /\ FrameAt(data, a + 1) = f
<1> DEFINE e == EncodeFrame(f)
           n == Len(f.payload)
<1>1. /\ f.type \in Bytes /\ f.payload \in Seq(Bytes) /\ n \in Nat /\ n <= MaxPayload
      /\ f.sid \in Nat /\ f.sid < Power(SidWidth)
  BY FrameFields
<1>0. f = [type |-> f.type, sid |-> f.sid, payload |-> f.payload]
  BY FrameFields
<1>2. /\ e \in Seq(Bytes) /\ Len(e) = HeaderSize + n /\ e[1] = f.type
      /\ SubSeq(e, 1 + 1, 1 + SidWidth) = BigEndian(f.sid, SidWidth)
      /\ SubSeq(e, (1 + SidWidth) + 1, HeaderSize) = BigEndian(n, LenWidth)
      /\ SubSeq(e, HeaderSize + 1, HeaderSize + n) = f.payload
  BY EncodedFrame
<1> HIDE DEF e, n
<1>3. b = a + (HeaderSize + n) /\ a <= b /\ b - a = HeaderSize + n /\ SubSeq(data, a + 1, b) = e
  BY <1>1, <1>2, BaseFacts DEF e
<1>4. \A c, d \in Nat : c <= d /\ d <= HeaderSize + n =>
        SubSeq(e, c + 1, d) = SubSeq(data, (a + c) + 1, a + d)
  <2> TAKE c, d \in Nat
  <2> HAVE c <= d /\ d <= HeaderSize + n
  <2>1. SubSeq(SubSeq(data, a + 1, b), c + 1, d) = SubSeq(data, (a + c) + 1, a + d)
    BY <1>3, SliceOfSlice
  <2> QED
    BY <1>3, <2>1
<1>5. PayloadLen(data, a + 1) = n
  <2>1. SubSeq(data, (a + (1 + SidWidth)) + 1, a + HeaderSize) = BigEndian(n, LenWidth)
    <3>1. 1 + SidWidth \in Nat /\ 1 + SidWidth <= HeaderSize /\ HeaderSize <= HeaderSize + n
      BY <1>1, BaseFacts
    <3> QED
      BY <1>2, <1>4, <3>1, BaseFacts
  <2>2. n < Power(LenWidth)
    BY <1>1, LengthFits
  <2>3. FromBigEndian(BigEndian(n, LenWidth)) = n
    BY <1>1, <2>2, WrittenIsRead, BaseFacts
  <2>4. PayloadLen(data, a + 1)
          = FromBigEndian(SubSeq(data, (a + (1 + SidWidth)) + 1, a + HeaderSize))
    BY Places
  <2> QED
    BY <2>1, <2>3, <2>4
<1>6. FrameAt(data, a + 1).sid = f.sid
  <2>1. SubSeq(data, (a + 1) + 1, a + (1 + SidWidth)) = BigEndian(f.sid, SidWidth)
    <3>1. 1 + SidWidth \in Nat /\ 1 <= 1 + SidWidth /\ 1 + SidWidth <= HeaderSize + n
      BY <1>1, BaseFacts
    <3> QED
      BY <1>2, <1>4, <3>1, BaseFacts
  <2>2. FromBigEndian(BigEndian(f.sid, SidWidth)) = f.sid
    BY <1>1, WrittenIsRead, BaseFacts
  <2>3. FrameAt(data, a + 1).sid
          = FromBigEndian(SubSeq(data, (a + 1) + 1, a + (1 + SidWidth)))
    BY Places
  <2> QED
    BY <2>1, <2>2, <2>3
<1>7. FrameAt(data, a + 1).payload = f.payload
  <2>1. HeaderSize + n \in Nat /\ HeaderSize <= HeaderSize + n
    BY <1>1, BaseFacts
  <2>2. SubSeq(data, (a + HeaderSize) + 1, a + (HeaderSize + n)) = f.payload
    <3>1. SubSeq(e, HeaderSize + 1, HeaderSize + n)
            = SubSeq(data, (a + HeaderSize) + 1, a + (HeaderSize + n))
      <4>1. HeaderSize \in Nat /\ HeaderSize + n <= HeaderSize + n
        BY <2>1, BaseFacts
      <4> QED
        BY <1>4, <2>1, <4>1
    <3> QED
      BY <1>2, <3>1
  <2>3. \A m \in Nat : PayloadLen(data, a + 1) = m =>
          FrameAt(data, a + 1).payload = SubSeq(data, (a + HeaderSize) + 1, a + (HeaderSize + m))
    BY Places
  <2> QED
    BY <1>1, <1>5, <2>2, <2>3
<1>8. FrameAt(data, a + 1).type = f.type
  <2>1. 1 \in 1 .. b - a
    BY <1>1, <1>3, BaseFacts
  <2>2. SubSeq(data, a + 1, b)[1] = data[a + 1]
    BY <1>3, <2>1, Slice
  <2> QED
    BY <1>2, <1>3, <2>2, Places
<1>9. FrameAt(data, a + 1) = f
  BY <1>0, <1>6, <1>7, <1>8, Places
<1>10. (a + 1) + HeaderSize + n = b + 1 /\ (a + 1) + HeaderSize <= b + 1
  <2>1. b = a + (HeaderSize + n)
    BY <1>3
  <2>2. n \in Nat /\ HeaderSize \in Nat
    BY <1>1, BaseFacts
  <2>3. \A h, m \in Nat : /\ (a + 1) + h + m = (a + (h + m)) + 1
                          /\ (a + 1) + h <= (a + (h + m)) + 1
    OBVIOUS
  <2> QED
    BY <2>1, <2>2, <2>3
<1>11. FrameFits(data, a + 1) /\ NextFrame(data, a + 1) = b + 1
  <2>1. FrameFits(data, a + 1)
    BY <1>1, <1>5, <1>10, BaseFacts DEF FrameFits
  <2> QED
    BY <1>5, <1>10, <2>1 DEF NextFrame
<1> QED
  BY <1>9, <1>11

\* A frame that fits has a payload of some length, and reaches to within the data.
LEMMA FrameReach ==
  ASSUME NEW data \in Seq(Bytes), NEW a \in Nat, FrameFits(data, a + 1)
  PROVE  \E n \in Nat : /\ PayloadLen(data, a + 1) = n /\ n <= MaxPayload
                        /\ a + (HeaderSize + n) <= Len(data)
                        /\ NextFrame(data, a + 1) = (a + (HeaderSize + n)) + 1
<1> DEFINE s == SubSeq(data, (a + (1 + SidWidth)) + 1, a + HeaderSize)
<1>1. (a + 1) + HeaderSize <= Len(data) + 1
  BY DEF FrameFits
<1>2. s \in Seq(Bytes) /\ Len(s) = LenWidth
  <2>1. /\ a + (1 + SidWidth) \in Nat /\ a + HeaderSize \in Nat
        /\ a + (1 + SidWidth) <= a + HeaderSize /\ a + HeaderSize <= Len(data)
        /\ (a + HeaderSize) - (a + (1 + SidWidth)) = LenWidth
    BY <1>1, BaseFacts
  <2> QED
    BY <2>1, Slice
<1>3. PayloadLen(data, a + 1) = FromBigEndian(s)
  BY Places
<1> HIDE DEF s
<1>4. PICK n \in Nat : PayloadLen(data, a + 1) = n
  BY <1>2, <1>3, ReadIsWritten
<1>5. n <= MaxPayload /\ (a + 1) + HeaderSize + n <= Len(data) + 1
  BY <1>4 DEF FrameFits
<1>6. NextFrame(data, a + 1) = (a + 1) + HeaderSize + n
  BY <1>4 DEF NextFrame
<1>7. (a + 1) + HeaderSize + n = (a + (HeaderSize + n)) + 1 /\ Len(data) \in Nat
  BY BaseFacts
<1>8. a + (HeaderSize + n) <= Len(data)
  BY <1>5, <1>7, BaseFacts
<1> QED
  BY <1>4, <1>5, <1>6, <1>7, <1>8

\* A frame that is read is written back as it was.
LEMMA FrameTaken ==
  ASSUME NEW data \in Seq(Bytes), NEW a \in Nat, FrameFits(data, a + 1)
  PROVE  /\ FrameAt(data, a + 1) \in Frames
         /\ EncodeFrame(FrameAt(data, a + 1)) = SubSeq(data, a + 1, NextFrame(data, a + 1) - 1)
<1>1. PICK n \in Nat : /\ PayloadLen(data, a + 1) = n /\ n <= MaxPayload
                       /\ a + (HeaderSize + n) <= Len(data)
                       /\ NextFrame(data, a + 1) = (a + (HeaderSize + n)) + 1
  BY FrameReach
<1> DEFINE f == FrameAt(data, a + 1)
           A == SubSeq(data, (a + 1) + 1, a + (1 + SidWidth))
           B == SubSeq(data, (a + (1 + SidWidth)) + 1, a + HeaderSize)
           P == SubSeq(data, (a + HeaderSize) + 1, a + (HeaderSize + n))
<1>2. /\ f.type = data[a + 1] /\ f.sid = FromBigEndian(A) /\ f.payload = P
      /\ n = FromBigEndian(B)
      /\ f = [type |-> f.type, sid |-> f.sid, payload |-> f.payload]
  BY <1>1, Places
<1>3. /\ a + 1 \in Nat /\ a + (1 + SidWidth) \in Nat /\ a + HeaderSize \in Nat
      /\ a + (HeaderSize + n) \in Nat
      /\ a + 1 <= a + (1 + SidWidth) /\ a + (1 + SidWidth) <= a + HeaderSize
      /\ a + HeaderSize <= a + (HeaderSize + n)
      /\ a + (1 + SidWidth) <= Len(data) /\ a + HeaderSize <= Len(data)
      /\ (a + (1 + SidWidth)) - (a + 1) = SidWidth
      /\ (a + HeaderSize) - (a + (1 + SidWidth)) = LenWidth
      /\ (a + (HeaderSize + n)) - (a + HeaderSize) = n
      /\ Len(data) \in Nat
  BY <1>1, BaseFacts
<1>4. A \in Seq(Bytes) /\ Len(A) = SidWidth
  BY <1>3, Slice
<1>5. B \in Seq(Bytes) /\ Len(B) = LenWidth
  BY <1>3, Slice
<1>6. P \in Seq(Bytes) /\ Len(P) = n
  BY <1>1, <1>3, Slice
<1>7. data[a + 1] \in Bytes /\ SubSeq(data, a + 1, a + 1) = <<data[a + 1]>>
  <2>1. a + 1 \in 1 .. Len(data)
    BY <1>3, BaseFacts
  <2>2. data[a + 1] \in Bytes
    BY <2>1, ElementOfSeq
  <2>3. SubSeq(data, a + 1, a + 1) = <<data[a + 1]>>
    <3>1. a <= a + 1 /\ a + 1 <= Len(data) /\ (a + 1) - a = 1
      BY <2>1
    <3>2. /\ SubSeq(data, a + 1, a + 1) \in Seq(Bytes) /\ Len(SubSeq(data, a + 1, a + 1)) = 1
          /\ \A i \in 1 .. 1 : SubSeq(data, a + 1, a + 1)[i] = data[a + i]
      BY <1>3, <3>1, Slice
    <3>3. <<data[a + 1]>> \in Seq(Bytes) /\ Len(<<data[a + 1]>>) = 1
      BY <2>2
    <3>4. \A i \in 1 .. 1 : SubSeq(data, a + 1, a + 1)[i] = <<data[a + 1]>>[i]
      BY <3>2
    <3> QED
      BY <3>2, <3>3, <3>4, SeqEqual
  <2> QED
    BY <2>2, <2>3
<1> HIDE DEF f, A, B, P
<1>8. /\ BigEndian(f.sid, SidWidth) = A /\ BigEndian(n, LenWidth) = B
      /\ f.sid \in 0 .. Power(SidWidth) - 1
  <2>1. /\ FromBigEndian(A) \in Nat /\ FromBigEndian(A) < Power(SidWidth)
        /\ BigEndian(FromBigEndian(A), SidWidth) = A
    BY <1>4, ReadIsWritten
  <2>2. BigEndian(FromBigEndian(B), LenWidth) = B
    BY <1>5, ReadIsWritten
  <2>3. Power(SidWidth) \in Nat
    BY PowerPositive, BaseFacts
  <2> QED
    BY <1>2, <2>1, <2>2, <2>3
<1>9. f \in Frames
  BY <1>1, <1>2, <1>6, <1>7, <1>8 DEF Frames
<1>10. EncodeFrame(f) = ((<<data[a + 1]>> \o A) \o B) \o P
  BY <1>2, <1>6, <1>8 DEF EncodeFrame
<1>11. <<data[a + 1]>> \o A = SubSeq(data, a + 1, a + (1 + SidWidth))
  <2>1. /\ a + 1 \in 1 .. Len(data) + 1 /\ a + 1 \in (a + 1) - 1 .. Len(data)
        /\ a + (1 + SidWidth) \in a + 1 .. Len(data)
    BY <1>3
  <2>2. SubSeq(data, a + 1, a + 1) \o SubSeq(data, (a + 1) + 1, a + (1 + SidWidth))
          = SubSeq(data, a + 1, a + (1 + SidWidth))
    BY <2>1, ConcatAdjacentSubSeq
  <2> QED
    BY <1>7, <2>2 DEF A
<1>12. SubSeq(data, a + 1, a + (1 + SidWidth)) \o B = SubSeq(data, a + 1, a + HeaderSize)
  <2>1. /\ a + 1 \in 1 .. Len(data) + 1 /\ a + (1 + SidWidth) \in (a + 1) - 1 .. Len(data)
        /\ a + HeaderSize \in a + (1 + SidWidth) .. Len(data)
    BY <1>3
  <2> QED
    BY <2>1, ConcatAdjacentSubSeq DEF B
<1>13. SubSeq(data, a + 1, a + HeaderSize) \o P = SubSeq(data, a + 1, a + (HeaderSize + n))
  <2>1. /\ a + 1 \in 1 .. Len(data) + 1 /\ a + HeaderSize \in (a + 1) - 1 .. Len(data)
        /\ a + (HeaderSize + n) \in a + HeaderSize .. Len(data)
    BY <1>1, <1>3
  <2> QED
    BY <2>1, ConcatAdjacentSubSeq DEF P
<1>14. NextFrame(data, a + 1) - 1 = a + (HeaderSize + n)
  BY <1>1, <1>3
<1> QED
  BY <1>9, <1>10, <1>11, <1>12, <1>13, <1>14 DEF f

\* What a batch is cut into is what the scan finds.
LEMMA FrameIsFound ==
  ASSUME NEW data \in Seq(Bytes), NEW a \in Nat, NEW b \in Nat, b <= Len(data)
  PROVE  IsFrame(SubSeq(data, a + 1, b)) <=>
           FrameFits(data, a + 1) /\ NextFrame(data, a + 1) = b + 1
<1> DEFINE s == SubSeq(data, a + 1, b)
<1>1. CASE a + HeaderSize <= b
  <2>1. a <= b /\ b - a \in Nat /\ Len(data) \in Nat /\ HeaderSize <= b - a
    BY <1>1, BaseFacts
  <2>2. s \in Seq(Bytes) /\ Len(s) = b - a
    BY <2>1, Slice
  <2>3. PayloadLen(s, 1) = PayloadLen(data, a + 1)
    <3>1. PayloadLen(s, 0 + 1)
            = FromBigEndian(SubSeq(s, (0 + (1 + SidWidth)) + 1, 0 + HeaderSize))
      BY Places
    <3>2. 1 + SidWidth \in Nat /\ 1 + SidWidth <= HeaderSize
      BY BaseFacts
    <3>3. SubSeq(s, (1 + SidWidth) + 1, HeaderSize)
            = SubSeq(data, (a + (1 + SidWidth)) + 1, a + HeaderSize)
      BY <2>1, <3>2, SliceOfSlice, BaseFacts
    <3>4. 0 + 1 = 1 /\ 0 + (1 + SidWidth) = 1 + SidWidth /\ 0 + HeaderSize = HeaderSize
      BY BaseFacts
    <3> QED
      BY <3>1, <3>3, <3>4, Places, ZenonT(30)
  <2>4. IsFrame(s) => FrameFits(data, a + 1) /\ NextFrame(data, a + 1) = b + 1
    <3> SUFFICES ASSUME IsFrame(s)
                 PROVE  FrameFits(data, a + 1) /\ NextFrame(data, a + 1) = b + 1
      OBVIOUS
    <3>1. /\ PayloadLen(data, a + 1) = (b - a) - HeaderSize
          /\ PayloadLen(data, a + 1) <= MaxPayload
      BY <2>2, <2>3 DEF IsFrame
    <3>2. /\ (a + 1) + HeaderSize <= Len(data) + 1
          /\ (a + 1) + HeaderSize + ((b - a) - HeaderSize) = b + 1
      BY <1>1, <2>1, BaseFacts
    <3>3. FrameFits(data, a + 1)
      BY <2>1, <3>1, <3>2 DEF FrameFits
    <3> QED
      BY <3>1, <3>2, <3>3 DEF NextFrame
  <2>5. FrameFits(data, a + 1) /\ NextFrame(data, a + 1) = b + 1 => IsFrame(s)
    <3> SUFFICES ASSUME FrameFits(data, a + 1), NextFrame(data, a + 1) = b + 1
                 PROVE  IsFrame(s)
      OBVIOUS
    <3>1. PICK n \in Nat : /\ PayloadLen(data, a + 1) = n /\ n <= MaxPayload
                           /\ NextFrame(data, a + 1) = (a + (HeaderSize + n)) + 1
      BY FrameReach
    <3>2. n = (b - a) - HeaderSize
      BY <3>1, BaseFacts
    <3> QED
      BY <2>1, <2>2, <2>3, <3>1, <3>2 DEF IsFrame
  <2> QED
    BY <2>4, <2>5
<1>2. CASE ~(a + HeaderSize <= b)
  <2>1. ~IsFrame(s)
    <3>1. CASE a <= b
      <4>1. Len(s) = b - a
        BY <3>1, Slice
      <4>2. ~(b - a >= HeaderSize)
        BY <1>2, BaseFacts
      <4> HIDE DEF s
      <4> QED
        BY <4>1, <4>2 DEF IsFrame
    <3>2. CASE ~(a <= b)
      <4>1. s = <<>>
        <5>1. a + 1 \in Int /\ b \in Int /\ b < a + 1
          BY <3>2
        <5> QED
          BY <5>1, SubSeqEmpty
      <4> HIDE DEF s
      <4>2. Len(s) = 0 /\ ~(0 >= HeaderSize)
        BY <4>1, BaseFacts
      <4> QED
        BY <4>2 DEF IsFrame
    <3> QED
      BY <3>1, <3>2
  <2>2. ~(FrameFits(data, a + 1) /\ NextFrame(data, a + 1) = b + 1)
    <3> SUFFICES ASSUME FrameFits(data, a + 1), NextFrame(data, a + 1) = b + 1
                 PROVE  FALSE
      OBVIOUS
    <3>1. PICK n \in Nat : NextFrame(data, a + 1) = (a + (HeaderSize + n)) + 1
      BY FrameReach
    <3> QED
      BY <1>2, <3>1, BaseFacts
  <2> QED
    BY <2>1, <2>2
<1> QED
  BY <1>1, <1>2

-----------------------------------------------------------------------------
(* The scan of a batch (ParseFrames, EncodeBatch). *)

\* The scan moves within the data, and moves where a frame fits.
LEMMA ScanStep ==
  ASSUME NEW data \in Seq(Bytes), NEW o \in 1 .. Len(data) + 1
  PROVE  /\ NextFrame(data, o) \in 1 .. Len(data) + 1
         /\ FrameFits(data, o) => o <= Len(data) /\ NextFrame(data, o) > o
         /\ ~FrameFits(data, o) => NextFrame(data, o) = o
<1>0. Len(data) \in Nat
  OBVIOUS
<1>1. CASE FrameFits(data, o)
  <2>1. o - 1 \in Nat /\ (o - 1) + 1 = o
    OBVIOUS
  <2>2. PICK n \in Nat : /\ (o - 1) + (HeaderSize + n) <= Len(data)
                         /\ NextFrame(data, o) = ((o - 1) + (HeaderSize + n)) + 1
    <3>1. FrameFits(data, (o - 1) + 1)
      BY <1>1, <2>1
    <3>2. PICK n \in Nat : /\ (o - 1) + (HeaderSize + n) <= Len(data)
                           /\ NextFrame(data, (o - 1) + 1) = ((o - 1) + (HeaderSize + n)) + 1
      BY <2>1, <3>1, FrameReach
    <3> QED
      BY <2>1, <3>2
  <2>3. /\ ((o - 1) + (HeaderSize + n)) + 1 \in 1 .. Len(data) + 1
        /\ ((o - 1) + (HeaderSize + n)) + 1 > o /\ o <= Len(data)
    BY <1>0, <2>2, BaseFacts
  <2> QED
    BY <1>1, <2>2, <2>3
<1>2. CASE ~FrameFits(data, o)
  BY <1>2 DEF NextFrame
<1> QED
  BY <1>1, <1>2

\* The places a scan comes to, as ParseFrames builds them.
Scans(at, data) ==
  at = [n \in 0 .. MaxBatchFrames |-> IF n = 0 THEN 1 ELSE NextFrame(data, at[n - 1])]

\* What Scans says of each place.
LEMMA ScansAre ==
  ASSUME NEW data, NEW at, Scans(at, data)
  PROVE  at[0] = 1 /\ \A i \in 1 .. MaxBatchFrames : at[i] = NextFrame(data, at[i - 1])
<1>1. \A i \in 1 .. MaxBatchFrames : i # 0 /\ i \in 0 .. MaxBatchFrames
  BY BaseFacts
<1>2. 0 \in 0 .. MaxBatchFrames
  BY BaseFacts
<1> QED
  BY <1>1, <1>2 DEF Scans

\* A scan comes to places, whatever the data.
LEMMA ScansExist ==
  ASSUME NEW data \in Seq(Bytes)
  PROVE  \E at \in [0 .. MaxBatchFrames -> 1 .. Len(data) + 1] : Scans(at, data)
<1> DEFINE N == MaxBatchFrames
           S == 1 .. Len(data) + 1
           step == [x \in S \X (1 .. N) |-> NextFrame(data, x[1])]
<1>0. N \in Nat /\ 1 \in S
  BY BaseFacts
<1>1. step \in [S \X (1 .. N) -> S]
  BY ScanStep
<1>2. \A o \in S, i \in 1 .. N : step[<<o, i>>] = NextFrame(data, o)
  OBVIOUS
<1> HIDE DEF step, N, S
<1>3. PICK f \in [0 .. N -> S] : Follows(f, N, 1, step)
  BY <1>0, <1>1, Recursion
<1>4. \A i \in 1 .. N : f[i] = NextFrame(data, f[i - 1])
  <2>1. \A i \in 1 .. N : f[i - 1] \in S
    BY <1>0
  <2> QED
    BY <1>2, <1>3, <2>1 DEF Follows
<1>5. \A i \in 0 .. N : f[i] = IF i = 0 THEN 1 ELSE NextFrame(data, f[i - 1])
  BY <1>0, <1>3, <1>4 DEF Follows
<1>6. Scans(f, data)
  BY <1>5 DEF Scans, N
<1> QED
  BY <1>6 DEF N, S

\* What ParseFrames returns, by the places the scan comes to.
LEMMA ParseFramesIs ==
  ASSUME NEW data \in Seq(Bytes),
         NEW at \in [0 .. MaxBatchFrames -> 1 .. Len(data) + 1], Scans(at, data)
  PROVE  /\ ParseFrames(data).ok = (data # <<>> /\ at[MaxBatchFrames] > Len(data))
         /\ ParseFrames(data).ok =>
              \E k \in 1 .. MaxBatchFrames :
                /\ at[k - 1] <= Len(data) /\ at[k] > Len(data)
                /\ ParseFrames(data).frames = [i \in 1 .. k |-> FrameAt(data, at[i - 1])]
         /\ ParseFrames(data) = [ok |-> ParseFrames(data).ok,
                                 frames |-> ParseFrames(data).frames]
<1> DEFINE place == CHOOSE g : Scans(g, data)
           count == CHOOSE n \in 1 .. MaxBatchFrames :
                      place[n - 1] <= Len(data) /\ place[n] > Len(data)
           ok    == data # <<>> /\ place[MaxBatchFrames] > Len(data)
<1>1. Scans(place, data)
  OBVIOUS
<1>2. ParseFrames(data) =
        [ok     |-> ok,
         frames |-> IF ok THEN [i \in 1 .. count |-> FrameAt(data, place[i - 1])] ELSE <<>>]
  BY DEF ParseFrames, Scans
<1> HIDE DEF place
<1>3. \A i \in 0 .. MaxBatchFrames : place[i] = at[i]
  <2>1. place[0] = at[0]
    BY <1>1, ScansAre
  <2>2. \A i \in 1 .. MaxBatchFrames : place[i - 1] = at[i - 1] => place[i] = at[i]
    BY <1>1, ScansAre
  <2>3. MaxBatchFrames \in Nat
    BY BaseFacts
  <2> QED
    BY <2>1, <2>2, <2>3, Alike, ZenonT(60)
<1>4. MaxBatchFrames \in 0 .. MaxBatchFrames
  BY BaseFacts
<1>5. ok = (data # <<>> /\ at[MaxBatchFrames] > Len(data))
  BY <1>3, <1>4
<1>6. ASSUME ok
      PROVE  \E k \in 1 .. MaxBatchFrames :
               /\ at[k - 1] <= Len(data) /\ at[k] > Len(data)
               /\ [i \in 1 .. count |-> FrameAt(data, place[i - 1])]
                    = [i \in 1 .. k |-> FrameAt(data, at[i - 1])]
  <2>1. \E n \in 1 .. MaxBatchFrames : place[n - 1] <= Len(data) /\ place[n] > Len(data)
    <3> SUFFICES ASSUME \A n \in 1 .. MaxBatchFrames :
                          ~(place[n - 1] <= Len(data) /\ place[n] > Len(data))
                 PROVE  FALSE
      OBVIOUS
    <3> DEFINE T == {i \in 0 .. MaxBatchFrames : place[i] <= Len(data)}
    <3>1. 0 \in T
      <4>1. place[0] = 1
        BY <1>1, ScansAre
      <4>2. Len(data) \in Nat /\ Len(data) # 0
        BY <1>6
      <4>3. 0 \in 0 .. MaxBatchFrames
        BY BaseFacts
      <4> QED
        BY <4>1, <4>2, <4>3
    <3>2. ASSUME NEW i \in 1 .. MaxBatchFrames, i - 1 \in T
          PROVE  i \in T
      <4>1. i \in 0 .. MaxBatchFrames /\ at[i] \in 1 .. Len(data) + 1 /\ Len(data) \in Nat
        BY BaseFacts
      <4>2. ~(place[i] > Len(data))
        BY <3>2
      <4> QED
        BY <1>3, <4>1, <4>2
    <3>3. 0 .. MaxBatchFrames \subseteq T
      <4>1. MaxBatchFrames \in Nat
        BY BaseFacts
      <4> HIDE DEF T
      <4> QED
        BY <3>1, <3>2, <4>1, BoundedInduction
    <3>4. place[MaxBatchFrames] <= Len(data)
      BY <1>4, <3>3
    <3>5. Len(data) \in Nat /\ place[MaxBatchFrames] \in Int
      BY <1>3, <1>4
    <3> QED
      BY <1>6, <3>4, <3>5
  <2>2. count \in 1 .. MaxBatchFrames /\ place[count - 1] <= Len(data) /\ place[count] > Len(data)
    BY <2>1
  <2> HIDE DEF count
  <2>3. /\ count \in 0 .. MaxBatchFrames /\ count - 1 \in 0 .. MaxBatchFrames
        /\ \A i \in 1 .. count : i - 1 \in 0 .. MaxBatchFrames
    BY <2>2, BaseFacts
  <2> QED
    BY <1>3, <2>2, <2>3
<1> HIDE DEF ok, count
<1>7. /\ ParseFrames(data).ok = ok
      /\ ok => ParseFrames(data).frames = [i \in 1 .. count |-> FrameAt(data, place[i - 1])]
  BY <1>2
<1>8. ParseFrames(data) = [ok |-> ParseFrames(data).ok, frames |-> ParseFrames(data).frames]
  BY <1>2
<1>9. ParseFrames(data).ok => ok
  BY <1>7, Zenon
<1>10. ParseFrames(data).ok =>
         \E k \in 1 .. MaxBatchFrames :
           /\ at[k - 1] <= Len(data) /\ at[k] > Len(data)
           /\ ParseFrames(data).frames = [i \in 1 .. k |-> FrameAt(data, at[i - 1])]
  BY <1>6, <1>7, <1>9
<1> QED
  BY <1>5, <1>7, <1>8, <1>10

\* A scan that stays stays.
LEMMA ScanStays ==
  ASSUME NEW data \in Seq(Bytes),
         NEW at \in [0 .. MaxBatchFrames -> 1 .. Len(data) + 1], Scans(at, data),
         NEW i \in 0 .. MaxBatchFrames, ~FrameFits(data, at[i])
  PROVE  \A j \in i .. MaxBatchFrames : at[j] = at[i]
<1> DEFINE T == {j \in 0 .. MaxBatchFrames : j >= i => at[j] = at[i]}
<1>0. MaxBatchFrames \in Nat
  BY BaseFacts
<1>1. 0 \in T
  <2>1. 0 >= i => i = 0
    OBVIOUS
  <2> QED
    BY <1>0, <2>1
<1>2. ASSUME NEW j \in 1 .. MaxBatchFrames, j - 1 \in T
      PROVE  j \in T
  <2>1. j \in 0 .. MaxBatchFrames /\ j - 1 \in 0 .. MaxBatchFrames
    BY <1>0
  <2>2. CASE j - 1 >= i
    <3>1. at[j - 1] = at[i]
      BY <1>2, <2>2
    <3>2. at[j] = NextFrame(data, at[j - 1])
      BY ScansAre
    <3>3. NextFrame(data, at[i]) = at[i]
      BY ScanStep
    <3> QED
      BY <2>1, <3>1, <3>2, <3>3
  <2>3. CASE ~(j - 1 >= i)
    <3>1. j >= i => j = i
      BY <2>3
    <3> QED
      BY <2>1, <3>1
  <2> QED
    BY <2>2, <2>3
<1>3. 0 .. MaxBatchFrames \subseteq T
  <2> HIDE DEF T
  <2> QED
    BY <1>0, <1>1, <1>2, BoundedInduction
<1>4. \A j \in i .. MaxBatchFrames : j \in 0 .. MaxBatchFrames /\ j >= i
  BY <1>0
<1> QED
  BY <1>3, <1>4

\* A scan that has come to the end has taken a frame with every step.
LEMMA ScanTakesFrames ==
  ASSUME NEW data \in Seq(Bytes),
         NEW at \in [0 .. MaxBatchFrames -> 1 .. Len(data) + 1], Scans(at, data),
         NEW k \in 1 .. MaxBatchFrames, at[k - 1] <= Len(data), at[k] > Len(data)
  PROVE  \A i \in 1 .. k : FrameFits(data, at[i - 1]) /\ at[i] > at[i - 1]
<1> TAKE i \in 1 .. k
<1>0. MaxBatchFrames \in Nat /\ Len(data) \in Nat
  BY BaseFacts
<1>1. /\ i - 1 \in 0 .. MaxBatchFrames /\ k \in i - 1 .. MaxBatchFrames
      /\ k - 1 \in i - 1 .. MaxBatchFrames /\ i \in 1 .. MaxBatchFrames
      /\ k \in 0 .. MaxBatchFrames /\ k - 1 \in 0 .. MaxBatchFrames
  BY <1>0
<1>2. FrameFits(data, at[i - 1])
  <2> SUFFICES ASSUME ~FrameFits(data, at[i - 1])
               PROVE  FALSE
    OBVIOUS
  <2>1. at[k] = at[i - 1] /\ at[k - 1] = at[i - 1]
    <3>1. \A j \in i - 1 .. MaxBatchFrames : at[j] = at[i - 1]
      BY <1>1, ScanStays, Zenon
    <3> QED
      BY <1>1, <3>1
  <2>2. at[k] \in Int
    BY <1>1
  <2> QED
    BY <1>0, <2>1, <2>2
<1>3. at[i] = NextFrame(data, at[i - 1])
  BY <1>1, ScansAre
<1> QED
  BY <1>1, <1>2, <1>3, ScanStep

\* A scan that has come to the end of data stays there.
LEMMA ScanHasEnded ==
  ASSUME NEW data \in Seq(Bytes),
         NEW at \in [0 .. MaxBatchFrames -> 1 .. Len(data) + 1], Scans(at, data),
         NEW k \in 0 .. MaxBatchFrames, at[k] = Len(data) + 1
  PROVE  \A j \in k .. MaxBatchFrames : at[j] = Len(data) + 1
<1>1. ~FrameFits(data, at[k])
  <2>1. at[k] \in 1 .. Len(data) + 1 /\ ~(at[k] <= Len(data))
    OBVIOUS
  <2> QED
    BY <2>1, ScanStep
<1>2. \A j \in k .. MaxBatchFrames : at[j] = at[k]
  BY <1>1, ScanStays, Zenon
<1> QED
  BY <1>2

\* A scan of data that is made of frames comes to the end of each, and stays at the
\* end of the last.
LEMMA ScanOfBatch ==
  ASSUME NEW data \in Seq(Bytes),
         NEW at \in [0 .. MaxBatchFrames -> 1 .. Len(data) + 1], Scans(at, data),
         NEW k \in 1 .. MaxBatchFrames, NEW cut \in [0 .. k -> 0 .. Len(data)],
         cut[0] = 0, cut[k] = Len(data),
         \A i \in 1 .. k : /\ FrameFits(data, cut[i - 1] + 1)
                           /\ NextFrame(data, cut[i - 1] + 1) = cut[i] + 1
  PROVE  /\ \A i \in 0 .. k : at[i] = cut[i] + 1
         /\ at[MaxBatchFrames] = Len(data) + 1
         /\ data # <<>>
<1> DEFINE T == {i \in 0 .. k : at[i] = cut[i] + 1}
<1>0. MaxBatchFrames \in Nat /\ Len(data) \in Nat /\ k \in Nat
  BY BaseFacts
<1>1. 0 \in T
  <2>1. at[0] = 1 /\ 0 \in 0 .. k
    BY <1>0, ScansAre
  <2> QED
    BY <2>1
<1>2. ASSUME NEW i \in 1 .. k, i - 1 \in T
      PROVE  i \in T
  <2>1. i \in 1 .. MaxBatchFrames /\ i \in 0 .. k /\ at[i - 1] = cut[i - 1] + 1
    BY <1>0, <1>2
  <2>2. at[i] = NextFrame(data, at[i - 1])
    BY <2>1, ScansAre
  <2>3. NextFrame(data, cut[i - 1] + 1) = cut[i] + 1
    OBVIOUS
  <2> QED
    BY <2>1, <2>2, <2>3
<1>3. 0 .. k \subseteq T
  <2> HIDE DEF T
  <2> QED
    BY <1>0, <1>1, <1>2, BoundedInduction
<1>4. k \in 0 .. k /\ k \in 0 .. MaxBatchFrames /\ MaxBatchFrames \in k .. MaxBatchFrames
  BY <1>0
<1>5. at[k] = Len(data) + 1
  BY <1>3, <1>4
<1>7. at[MaxBatchFrames] = Len(data) + 1
  BY <1>4, <1>5, ScanHasEnded
<1>8. data # <<>>
  <2> SUFFICES ASSUME data = <<>>
               PROVE  FALSE
    OBVIOUS
  <2>1. Len(data) = 0 /\ 1 \in 1 .. k /\ 1 - 1 = 0
    OBVIOUS
  <2>2. FrameFits(data, 1)
    BY <2>1
  <2>3. 1 \in 1 .. Len(data) + 1
    BY <2>1
  <2> QED
    BY <2>1, <2>2, <2>3, ScanStep
<1> QED
  BY <1>3, <1>7, <1>8

\* What encode_frame wrote, up to the limit of a batch, parse_frames returns:
\* the frames as they were, in their order, and nothing else.
THEOREM ParseInvertsEncode ==
  \A frames \in Seq(Frames) :
    Len(frames) \in 1 .. MaxBatchFrames =>
      ParseFrames(EncodeBatch(frames)) = [ok |-> TRUE, frames |-> frames]
<1> SUFFICES ASSUME NEW frames \in Seq(Frames), Len(frames) \in 1 .. MaxBatchFrames
             PROVE  ParseFrames(EncodeBatch(frames)) = [ok |-> TRUE, frames |-> frames]
  OBVIOUS
<1> DEFINE k == Len(frames)
           parts == [i \in 1 .. k |-> EncodeFrame(frames[i])]
           data == FlattenSeq(parts)
<1>0. k \in Nat /\ k \in 1 .. MaxBatchFrames /\ MaxBatchFrames \in Nat
  BY BaseFacts
<1>1. \A i \in 1 .. k : frames[i] \in Frames /\ parts[i] \in Seq(Bytes)
  BY EncodedFrame
<1>2. parts \in Seq(Seq(Bytes)) /\ Len(parts) = k
  <2>1. parts \in [1 .. k -> Seq(Bytes)]
    BY <1>1
  <2> HIDE DEF parts
  <2> QED
    BY <1>0, <2>1
<1>3. EncodeBatch(frames) = data
  BY DEF EncodeBatch
<1>4. data \in Seq(Bytes) /\ Len(data) \in Nat
  <2>1. data \in Seq(Bytes)
    BY <1>2, FlattenType
  <2> HIDE DEF data
  <2> QED
    BY <2>1
<1>5. \A i \in 1 .. k : parts[i] = EncodeFrame(frames[i])
  OBVIOUS
<1> HIDE DEF parts
<1>6. PICK cut \in [0 .. k -> 0 .. Len(data)] :
        /\ cut[0] = 0 /\ cut[k] = Len(data)
        /\ \A i \in 1 .. k : /\ cut[i] = cut[i - 1] + Len(parts[i])
                             /\ SubSeq(data, cut[i - 1] + 1, cut[i]) = parts[i]
  <2> HIDE DEF k
  <2> QED
    BY <1>2, PartsOfFlatten
<1> HIDE DEF data, k
<1>7. \A i \in 1 .. k : /\ FrameFits(data, cut[i - 1] + 1)
                        /\ NextFrame(data, cut[i - 1] + 1) = cut[i] + 1
                        /\ FrameAt(data, cut[i - 1] + 1) = frames[i]
  <2> TAKE i \in 1 .. k
  <2>1. cut[i - 1] \in 0 .. Len(data) /\ cut[i] \in 0 .. Len(data)
    BY <1>0
  <2>2. cut[i - 1] \in Nat /\ cut[i] \in Nat /\ cut[i] <= Len(data)
    BY <1>4, <2>1
  <2>3. /\ cut[i] = cut[i - 1] + Len(EncodeFrame(frames[i]))
        /\ SubSeq(data, cut[i - 1] + 1, cut[i]) = EncodeFrame(frames[i])
    BY <1>5, <1>6
  <2>4. frames[i] \in Frames
    BY <1>1
  <2> QED
    BY <1>4, <2>2, <2>3, <2>4, FrameFound
<1>8. PICK at \in [0 .. MaxBatchFrames -> 1 .. Len(data) + 1] : Scans(at, data)
  BY <1>4, ScansExist
<1>9. /\ \A i \in 0 .. k : at[i] = cut[i] + 1
      /\ at[MaxBatchFrames] = Len(data) + 1
      /\ data # <<>>
  BY <1>0, <1>4, <1>6, <1>7, <1>8, ScanOfBatch
<1>10. /\ ParseFrames(data).ok = (data # <<>> /\ at[MaxBatchFrames] > Len(data))
       /\ ParseFrames(data).ok =>
            \E n \in 1 .. MaxBatchFrames :
              /\ at[n - 1] <= Len(data) /\ at[n] > Len(data)
              /\ ParseFrames(data).frames = [i \in 1 .. n |-> FrameAt(data, at[i - 1])]
       /\ ParseFrames(data) = [ok |-> ParseFrames(data).ok, frames |-> ParseFrames(data).frames]
  BY <1>4, <1>8, ParseFramesIs
<1>11. ParseFrames(data).ok = TRUE
  <2>1. at[MaxBatchFrames] > Len(data) /\ data # <<>>
    BY <1>4, <1>9
  <2> QED
    BY <1>10, <2>1
<1>12. PICK n \in 1 .. MaxBatchFrames :
         /\ at[n - 1] <= Len(data) /\ at[n] > Len(data)
         /\ ParseFrames(data).frames = [i \in 1 .. n |-> FrameAt(data, at[i - 1])]
  BY <1>10, <1>11
<1>13. n = k
  <2>1. at[k] = Len(data) + 1 /\ k \in 0 .. k
    BY <1>0, <1>6, <1>9
  <2>2. CASE n < k
    <3>1. n \in 0 .. MaxBatchFrames /\ n + 1 \in 1 .. k /\ (n + 1) - 1 = n
      BY <1>0, <2>2
    <3>2. FrameFits(data, at[n])
      <4>1. n \in 0 .. k
        BY <1>0, <2>2
      <4>2. FrameFits(data, cut[(n + 1) - 1] + 1)
        BY <1>7, <3>1
      <4> QED
        BY <1>9, <3>1, <4>1, <4>2
    <3>3. at[n] \in 1 .. Len(data) + 1
      BY <1>8, <3>1
    <3>4. at[n] <= Len(data)
      BY <1>4, <3>2, <3>3, ScanStep
    <3> QED
      BY <1>4, <1>12, <3>3, <3>4
  <2>3. CASE k < n
    <3>1. k \in 0 .. MaxBatchFrames /\ n - 1 \in k .. MaxBatchFrames
      BY <1>0, <2>3
    <3>2. data \in Seq(Bytes) /\ at[k] = Len(data) + 1 /\ k \in 0 .. MaxBatchFrames
      BY <1>4, <2>1, <3>1
    <3>3. \A j \in k .. MaxBatchFrames : at[j] = Len(data) + 1
      BY <1>8, <3>2, ScanHasEnded
    <3>4. at[n - 1] = Len(data) + 1
      BY <2>1, <3>1, <3>3
    <3> QED
      BY <1>4, <1>12, <3>4
  <2> QED
    BY <1>0, <2>2, <2>3
<1>14. [i \in 1 .. n |-> FrameAt(data, at[i - 1])] = frames
  <2>1. \A i \in 1 .. k : FrameAt(data, at[i - 1]) = frames[i]
    <3> TAKE i \in 1 .. k
    <3>1. i - 1 \in 0 .. k
      BY <1>0
    <3> QED
      BY <1>7, <1>9, <3>1
  <2>2. [i \in 1 .. k |-> FrameAt(data, at[i - 1])] = [i \in 1 .. k |-> frames[i]]
    BY <2>1
  <2>3. frames = [i \in 1 .. k |-> frames[i]]
    BY DEF k
  <2> QED
    BY <1>13, <2>2, <2>3
<1> QED
  BY <1>3, <1>10, <1>11, <1>12, <1>14

\* parse_frames accepts a byte string exactly if it is a batch, and its frames
\* are what the batch is made of.
LEMMA ParsesEveryInput ==
  ASSUME NEW data \in Seq(Bytes)
  PROVE  ParsesExactly(data)
<1>0. Len(data) \in Nat /\ MaxBatchFrames \in Nat
  BY BaseFacts
<1>1. PICK at \in [0 .. MaxBatchFrames -> 1 .. Len(data) + 1] : Scans(at, data)
  BY ScansExist
<1> DEFINE parsed == ParseFrames(data)
<1>2. /\ parsed.ok = (data # <<>> /\ at[MaxBatchFrames] > Len(data))
      /\ parsed.ok =>
           \E k \in 1 .. MaxBatchFrames :
             /\ at[k - 1] <= Len(data) /\ at[k] > Len(data)
             /\ parsed.frames = [i \in 1 .. k |-> FrameAt(data, at[i - 1])]
  BY <1>1, ParseFramesIs
<1> HIDE DEF parsed
<1>3. ASSUME parsed.ok
      PROVE  /\ IsBatch(data)
             /\ \A i \in DOMAIN parsed.frames : Encodable(parsed.frames[i])
             /\ EncodeBatch(parsed.frames) = data
  <2>1. PICK k \in 1 .. MaxBatchFrames :
          /\ at[k - 1] <= Len(data) /\ at[k] > Len(data)
          /\ parsed.frames = [i \in 1 .. k |-> FrameAt(data, at[i - 1])]
    BY <1>2, <1>3
  <2>2. /\ k \in Nat /\ k \in 0 .. k
        /\ \A i \in 0 .. k : i \in 0 .. MaxBatchFrames
        /\ \A i \in 1 .. k : i \in 0 .. k /\ i - 1 \in 0 .. k /\ i \in 1 .. MaxBatchFrames
    BY <1>0
  <2>3. \A i \in 0 .. k : at[i] \in 1 .. Len(data) + 1
    BY <1>1, <2>2
  <2>4. at[0] = 1 /\ \A i \in 1 .. k : at[i] = NextFrame(data, at[i - 1])
    BY <1>1, <2>2, ScansAre
  <2>5. \A i \in 1 .. k : FrameFits(data, at[i - 1]) /\ at[i] > at[i - 1]
    BY <1>1, <2>1, ScanTakesFrames
  <2> DEFINE cut == [i \in 0 .. k |-> at[i] - 1]
  <2>6. cut \in [0 .. k -> 0 .. Len(data)] /\ cut[0] = 0 /\ cut[k] = Len(data)
    <3>1. \A i \in 0 .. k : at[i] - 1 \in 0 .. Len(data)
      BY <1>0, <2>3
    <3>2. at[k] - 1 = Len(data)
      BY <1>0, <2>1, <2>2, <2>3
    <3> QED
      BY <2>2, <2>4, <3>1, <3>2
  <2>7. \A i \in 0 .. k : cut[i] \in Nat /\ cut[i] + 1 = at[i] /\ cut[i] <= Len(data)
    BY <1>0, <2>3
  <2>8. \A i \in 1 .. k : cut[i - 1] < cut[i]
    BY <2>2, <2>3, <2>5
  <2> HIDE DEF cut
  <2>9. ASSUME NEW i \in 1 .. k
        PROVE  /\ IsFrame(SubSeq(data, cut[i - 1] + 1, cut[i]))
               /\ Encodable(FrameAt(data, at[i - 1]))
               /\ EncodeFrame(FrameAt(data, at[i - 1])) = SubSeq(data, cut[i - 1] + 1, cut[i])
    <3>1. /\ cut[i - 1] \in Nat /\ cut[i] \in Nat /\ cut[i] <= Len(data)
          /\ at[i - 1] = cut[i - 1] + 1 /\ at[i] = cut[i] + 1
      BY <2>2, <2>7
    <3>2. FrameFits(data, cut[i - 1] + 1) /\ NextFrame(data, cut[i - 1] + 1) = cut[i] + 1
      BY <2>4, <2>5, <3>1
    <3>3. IsFrame(SubSeq(data, cut[i - 1] + 1, cut[i]))
      BY <3>1, <3>2, FrameIsFound
    <3>4. EncodeFrame(FrameAt(data, cut[i - 1] + 1))
            = SubSeq(data, cut[i - 1] + 1, NextFrame(data, cut[i - 1] + 1) - 1)
      BY <3>1, <3>2, FrameTaken
    <3>5. NextFrame(data, cut[i - 1] + 1) - 1 = cut[i]
      BY <3>1, <3>2
    <3>6. Encodable(FrameAt(data, cut[i - 1] + 1))
      BY <3>1, <3>2, FrameTaken, FramesEncodable
    <3> QED
      BY <3>1, <3>3, <3>4, <3>5, <3>6
  <2>10. IsBatch(data)
    <3> DEFINE reach == [i \in 1 .. k |-> cut[i]]
    <3>1. reach \in [1 .. k -> 1 .. Len(data)]
      <4> SUFFICES ASSUME NEW i \in 1 .. k
                   PROVE  cut[i] \in 1 .. Len(data)
        OBVIOUS
      <4>1. cut[i - 1] \in Nat /\ cut[i] \in Nat /\ cut[i] <= Len(data) /\ cut[i - 1] < cut[i]
        BY <2>2, <2>7, <2>8
      <4> QED
        BY <1>0, <4>1
    <3>2. reach[k] = Len(data)
      BY <2>6
    <3>3. CutsIntoFrames(data, reach)
      <4>1. DOMAIN reach = 1 .. k
        OBVIOUS
      <4>2. ASSUME NEW i \in 1 .. k
            PROVE  IsFrame(SubSeq(data, IF i = 1 THEN 1 ELSE reach[i - 1] + 1, reach[i]))
        <5>1. CASE i = 1
          <6>1. cut[i - 1] + 1 = 1
            BY <2>6, <5>1
          <6> QED
            BY <2>9, <5>1, <6>1
        <5>2. CASE i # 1
          <6>1. i - 1 \in 1 .. k
            BY <2>2, <5>2
          <6>2. reach[i - 1] = cut[i - 1]
            BY <6>1
          <6> QED
            BY <2>9, <5>2, <6>2
        <5> QED
          BY <5>1, <5>2
      <4> QED
        BY <4>1, <4>2 DEF CutsIntoFrames
    <3> HIDE DEF reach
    <3> QED
      BY <3>1, <3>2, <3>3 DEF IsBatch
  <2>11. EncodeBatch(parsed.frames) = data
    <3> DEFINE parts == [i \in 1 .. k |-> EncodeFrame(FrameAt(data, at[i - 1]))]
    <3>1. EncodeBatch(parsed.frames) = FlattenSeq(parts)
      <4>1. DOMAIN parsed.frames = 1 .. k
        BY <2>1
      <4>2. \A i \in 1 .. k : parsed.frames[i] = FrameAt(data, at[i - 1])
        BY <2>1
      <4>3. [i \in DOMAIN parsed.frames |-> EncodeFrame(parsed.frames[i])] = parts
        BY <4>1, <4>2
      <4> QED
        BY <4>3 DEF EncodeBatch
    <3>2. \A i \in 1 .. k : /\ parts[i] = SubSeq(data, cut[i - 1] + 1, cut[i])
                            /\ parts[i] \in Seq(Bytes)
      <4> TAKE i \in 1 .. k
      <4>1. /\ cut[i - 1] \in Nat /\ cut[i] \in Nat /\ cut[i] <= Len(data)
            /\ cut[i - 1] <= cut[i]
        BY <2>2, <2>7, <2>8
      <4>2. SubSeq(data, cut[i - 1] + 1, cut[i]) \in Seq(Bytes)
        BY <4>1, Slice
      <4> QED
        BY <2>9, <4>2
    <3>3. parts \in Seq(Seq(Bytes)) /\ Len(parts) = k
      <4>1. parts \in [1 .. k -> Seq(Bytes)]
        <5>1. \A i \in 1 .. k : EncodeFrame(FrameAt(data, at[i - 1])) \in Seq(Bytes)
          BY <3>2
        <5> QED
          BY <5>1
      <4> HIDE DEF parts
      <4> QED
        BY <2>2, <4>1
    <3> HIDE DEF parts
    <3>4. \A i \in 1 .. k : cut[i - 1] <= cut[i]
      BY <2>2, <2>7, <2>8
    <3>5. FlattenSeq(parts) = SubSeq(data, 1, cut[k])
      BY <2>6, <3>2, <3>3, <3>4, FlattenParts
    <3>6. SubSeq(data, 1, Len(data)) = data
      BY SubSeqFull
    <3> QED
      BY <2>6, <3>1, <3>5, <3>6
  <2>12. \A i \in DOMAIN parsed.frames : Encodable(parsed.frames[i])
    BY <2>1, <2>9
  <2> QED
    BY <2>10, <2>11, <2>12
<1>4. ASSUME IsBatch(data)
      PROVE  parsed.ok
  <2>0. PICK k \in 1 .. MaxBatchFrames :
          \E reach \in [1 .. k -> 1 .. Len(data)] :
            reach[k] = Len(data) /\ CutsIntoFrames(data, reach)
    BY <1>4 DEF IsBatch
  <2>1. PICK reach \in [1 .. k -> 1 .. Len(data)] :
          reach[k] = Len(data) /\ CutsIntoFrames(data, reach)
    BY <2>0
  <2> DEFINE cut == [i \in 0 .. k |-> IF i = 0 THEN 0 ELSE reach[i]]
  <2>2. cut \in [0 .. k -> 0 .. Len(data)] /\ cut[0] = 0 /\ cut[k] = Len(data)
    <3>1. k \in 1 .. k /\ k # 0 /\ k \in 0 .. k /\ 0 \in 0 .. k
      BY <1>0
    <3>2. \A i \in 0 .. k : i # 0 => reach[i] \in 0 .. Len(data)
      <4> TAKE i \in 0 .. k
      <4> HAVE i # 0
      <4>1. i \in 1 .. k
        BY <1>0
      <4>2. reach[i] \in 1 .. Len(data)
        BY <4>1
      <4> QED
        BY <1>0, <4>2
    <3>3. 0 \in 0 .. Len(data)
      BY <1>0
    <3> QED
      BY <2>1, <3>1, <3>2, <3>3
  <2>3. ASSUME NEW i \in 1 .. k
        PROVE  FrameFits(data, cut[i - 1] + 1) /\ NextFrame(data, cut[i - 1] + 1) = cut[i] + 1
    <3>1. IsFrame(SubSeq(data, IF i = 1 THEN 1 ELSE reach[i - 1] + 1, reach[i]))
      BY <2>1 DEF CutsIntoFrames
    <3>2. cut[i] = reach[i]
      BY <1>0
    <3>3. (IF i = 1 THEN 1 ELSE reach[i - 1] + 1) = cut[i - 1] + 1
      <4>1. CASE i = 1
        BY <1>0, <4>1
      <4>2. CASE i # 1
        <5>1. i - 1 \in 0 .. k /\ i - 1 # 0
          BY <1>0, <4>2
        <5> QED
          BY <4>2, <5>1
      <4> QED
        BY <4>1, <4>2
    <3>4. cut[i - 1] \in 0 .. Len(data) /\ cut[i] \in 0 .. Len(data)
      <4>1. i - 1 \in 0 .. k /\ i \in 0 .. k
        BY <1>0
      <4> HIDE DEF cut
      <4> QED
        BY <2>2, <4>1
    <3> HIDE DEF cut
    <3>5. IsFrame(SubSeq(data, cut[i - 1] + 1, cut[i]))
      BY <3>1, <3>2, <3>3
    <3>6. cut[i - 1] \in Nat /\ cut[i] \in Nat /\ cut[i] <= Len(data)
      BY <1>0, <3>4
    <3>7. IsFrame(SubSeq(data, cut[i - 1] + 1, cut[i])) <=>
            /\ FrameFits(data, cut[i - 1] + 1)
            /\ NextFrame(data, cut[i - 1] + 1) = cut[i] + 1
      BY <3>6, FrameIsFound
    <3> QED
      BY <3>5, <3>7
  <2> HIDE DEF cut
  <2>4. at[MaxBatchFrames] = Len(data) + 1 /\ data # <<>>
    BY <1>1, <2>2, <2>3, ScanOfBatch
  <2>5. at[MaxBatchFrames] > Len(data)
    BY <1>0, <2>4
  <2> QED
    BY <1>2, <2>4, <2>5
<1>5. parsed.ok \in BOOLEAN /\ IsBatch(data) \in BOOLEAN
  BY <1>2 DEF IsBatch
<1>6. parsed.ok = IsBatch(data)
  BY <1>3, <1>4, <1>5
<1> QED
  BY <1>3, <1>6 DEF ParsesExactly, parsed

\* Whatever bytes a batch is made of, parse_frames is exact about it.
THEOREM ParseIsExact == MCSpec => []ParseExact
<1>1. MCInit => input \in Seq(Bytes)
  BY DEF MCInit
<1>2. input \in Seq(Bytes) /\ [(TriesInput \/ Streams) /\ InBounds']_<<vars, input>>
        => (input \in Seq(Bytes))'
  BY DEF TriesInput, Streams
<1>3. input \in Seq(Bytes) => ParseExact
  BY ParsesEveryInput DEF ParseExact
<1> QED
  BY <1>1, <1>2, <1>3, PTL DEF MCSpec

-----------------------------------------------------------------------------
(* Packets and the cipher (pack_frame, unpack_frame, encrypt, decrypt). *)

\* Reversed twice, a sequence is as it was.
LEMMA ReverseTwice ==
  ASSUME NEW S, NEW s \in Seq(S)
  PROVE  /\ Reverse(s) \in Seq(S) /\ Len(Reverse(s)) = Len(s)
         /\ Reverse(Reverse(s)) = s
<1> DEFINE r == Reverse(s)
           t == Reverse(r)
<1>1. r \in Seq(S) /\ Len(r) = Len(s) /\ \A i \in 1 .. Len(s) : r[i] = s[(Len(s) - i) + 1]
  <2>1. r \in [1 .. Len(s) -> S]
    <3>1. \A i \in 1 .. Len(s) : (Len(s) - i) + 1 \in 1 .. Len(s)
      OBVIOUS
    <3> QED
      BY <3>1 DEF Reverse
  <2>2. r \in Seq(S) /\ Len(r) = Len(s)
    <3> HIDE DEF r
    <3> QED
      BY <2>1
  <2> QED
    BY <2>2 DEF Reverse
<1> HIDE DEF r
<1>2. t \in Seq(S) /\ Len(t) = Len(r) /\ \A i \in 1 .. Len(r) : t[i] = r[(Len(r) - i) + 1]
  <2>1. t \in [1 .. Len(r) -> S]
    <3>1. \A i \in 1 .. Len(r) : (Len(r) - i) + 1 \in 1 .. Len(r)
      BY <1>1
    <3> QED
      BY <1>1, <3>1 DEF Reverse
  <2>2. t \in Seq(S) /\ Len(t) = Len(r)
    <3> HIDE DEF t
    <3>1. Len(r) \in Nat
      BY <1>1
    <3> QED
      BY <2>1, <3>1
  <2> QED
    BY <2>2 DEF Reverse
<1> HIDE DEF t
<1>3. \A i \in 1 .. Len(t) : t[i] = s[i]
  <2> TAKE i \in 1 .. Len(t)
  <2>1. Len(t) = Len(s) /\ Len(s) \in Nat
    BY <1>1, <1>2
  <2>2. (Len(s) - i) + 1 \in 1 .. Len(s) /\ (Len(s) - ((Len(s) - i) + 1)) + 1 = i
    BY <2>1
  <2> QED
    BY <1>1, <1>2, <2>1, <2>2
<1>4. t = s
  BY <1>1, <1>2, <1>3, SeqEqual
<1> QED
  BY <1>1, <1>4 DEF r, t

\* A length that a signed field can hold is read back as it was written.
LEMMA LengthIsRead ==
  ASSUME NEW w \in Nat, NEW n \in Nat, n < Power(w) \div 2
  PROVE  /\ LittleEndian(n, w) \in Seq(Bytes) /\ Len(LittleEndian(n, w)) = w
         /\ FromLittleEndian(LittleEndian(n, w)) = n
<1> DEFINE s == BigEndian(n, w)
           r == LittleEndian(n, w)
<1>1. s \in Seq(Bytes) /\ Len(s) = w
  BY BigEndianType
<1>2. r \in Seq(Bytes) /\ Len(r) = w /\ Reverse(r) = s
  BY <1>1, ReverseTwice DEF LittleEndian
<1>3. Power(w) \in Nat
  BY PowerPositive
<1>4. n < Power(w)
  BY <1>3
<1>5. FromBigEndian(s) = n
  BY <1>4, WrittenIsRead
<1> HIDE DEF r, s
<1>6. FromLittleEndian(r) = n
  BY <1>2, <1>5 DEF FromLittleEndian
<1> QED
  BY <1>2, <1>6 DEF r

\* The key stream is made of bytes; what it adds to a byte, it takes off again.
LEMMA KeyStreamIsBytes ==
  ASSUME NEW i \in Nat
  PROVE  KeyStream(i) \in Bytes
<1>1. i \div 2 \in Nat
  OBVIOUS
<1> QED
  BY <1>1, Division DEF KeyStream

\* What the cipher does to one byte, it can undo.
LEMMA Combination ==
  ASSUME NEW x \in Bytes, NEW y \in Bytes
  PROVE  /\ (x + y) % Base \in Bytes
         /\ (x + Base - y) % Base \in Bytes
         /\ (((x + y) % Base) + Base - y) % Base = x
<1>0. Base \in Nat /\ Base >= 2 /\ x \in Nat /\ y \in Nat /\ x < Base /\ y < Base
  BY BaseFacts DEF Bytes
<1>1. x + y \in Nat /\ x + Base - y \in Nat
  BY <1>0
<1>2. (x + y) % Base \in Bytes /\ (x + Base - y) % Base \in Bytes
  BY <1>1, Division
<1>3. (((x + y) % Base) + Base - y) % Base = x
  <2>1. CASE x + y < Base
    <3>1. (x + y) % Base = x + y
      BY <1>0, <2>1
    <3>2. x + y + Base - y = x + Base
      BY <1>0
    <3>3. (x + Base) % Base = x
      BY <1>0
    <3> QED
      BY <3>1, <3>2, <3>3
  <2>2. CASE x + y >= Base
    <3>1. (x + y) % Base = x + y - Base
      BY <1>0, <2>2
    <3>2. x + y - Base + Base - y = x
      BY <1>0
    <3>3. x % Base = x
      BY <1>0
    <3> QED
      BY <3>1, <3>2, <3>3
  <2> QED
    BY <1>0, <2>1, <2>2
<1> QED
  BY <1>2, <1>3

\* Enciphered or deciphered, bytes are as many bytes.
LEMMA CipherType ==
  ASSUME NEW s \in Seq(Bytes), NEW before \in Nat
  PROVE  /\ Encrypt(s, before) \in Seq(Bytes) /\ Len(Encrypt(s, before)) = Len(s)
         /\ \A i \in 1 .. Len(s) :
              Encrypt(s, before)[i] = (s[i] + KeyStream(before + i)) % Base
         /\ Decrypt(s, before) \in Seq(Bytes) /\ Len(Decrypt(s, before)) = Len(s)
         /\ \A i \in 1 .. Len(s) :
              Decrypt(s, before)[i] = (s[i] + Base - KeyStream(before + i)) % Base
<1>0. Len(s) \in Nat /\ DOMAIN s = 1 .. Len(s)
  OBVIOUS
<1>1. \A i \in 1 .. Len(s) : /\ (s[i] + KeyStream(before + i)) % Base \in Bytes
                             /\ (s[i] + Base - KeyStream(before + i)) % Base \in Bytes
  <2> TAKE i \in 1 .. Len(s)
  <2>1. before + i \in Nat /\ s[i] \in Bytes
    OBVIOUS
  <2> QED
    BY <2>1, KeyStreamIsBytes, Combination
<1>2. Encrypt(s, before) \in [1 .. Len(s) -> Bytes]
  BY <1>0, <1>1 DEF Encrypt
<1>3. Decrypt(s, before) \in [1 .. Len(s) -> Bytes]
  BY <1>0, <1>1 DEF Decrypt
<1>4. \A i \in 1 .. Len(s) :
        /\ Encrypt(s, before)[i] = (s[i] + KeyStream(before + i)) % Base
        /\ Decrypt(s, before)[i] = (s[i] + Base - KeyStream(before + i)) % Base
  BY <1>0 DEF Encrypt, Decrypt
<1>5. /\ Encrypt(s, before) \in Seq(Bytes) /\ Len(Encrypt(s, before)) = Len(s)
      /\ Decrypt(s, before) \in Seq(Bytes) /\ Len(Decrypt(s, before)) = Len(s)
  BY <1>0, <1>2, <1>3
<1> QED
  BY <1>4, <1>5

\* Deciphered at the place where they were enciphered, bytes are as they were.
LEMMA CipherInverse ==
  ASSUME NEW s \in Seq(Bytes), NEW before \in Nat
  PROVE  Decrypt(Encrypt(s, before), before) = s
<1> DEFINE e == Encrypt(s, before)
           d == Decrypt(e, before)
<1>1. /\ e \in Seq(Bytes) /\ Len(e) = Len(s)
      /\ \A i \in 1 .. Len(s) : e[i] = (s[i] + KeyStream(before + i)) % Base
  BY CipherType
<1> HIDE DEF e
<1>2. /\ d \in Seq(Bytes) /\ Len(d) = Len(e)
      /\ \A i \in 1 .. Len(e) : d[i] = (e[i] + Base - KeyStream(before + i)) % Base
  BY <1>1, CipherType
<1> HIDE DEF d
<1>3. \A i \in 1 .. Len(d) : d[i] = s[i]
  <2> TAKE i \in 1 .. Len(d)
  <2>1. before + i \in Nat /\ s[i] \in Bytes /\ i \in 1 .. Len(s) /\ i \in 1 .. Len(e)
    BY <1>1, <1>2
  <2>2. KeyStream(before + i) \in Bytes
    BY <2>1, KeyStreamIsBytes
  <2>3. (((s[i] + KeyStream(before + i)) % Base) + Base - KeyStream(before + i)) % Base = s[i]
    BY <2>1, <2>2, Combination
  <2> QED
    BY <1>1, <1>2, <2>1, <2>3
<1>4. d = s
  BY <1>1, <1>2, <1>3, SeqEqual
<1> QED
  BY <1>4 DEF d, e

\* Bytes are deciphered alike in one piece and in two.
LEMMA CipherConcat ==
  ASSUME NEW s \in Seq(Bytes), NEW t \in Seq(Bytes), NEW before \in Nat
  PROVE  Decrypt(s \o t, before) = Decrypt(s, before) \o Decrypt(t, before + Len(s))
<1> DEFINE n == Len(s)
           u == s \o t
           ds == Decrypt(s, before)
           dt == Decrypt(t, before + n)
           du == Decrypt(u, before)
           w == ds \o dt
<1>1. /\ u \in Seq(Bytes) /\ Len(u) = n + Len(t) /\ n \in Nat /\ Len(t) \in Nat
      /\ \A i \in 1 .. n : u[i] = s[i]
      /\ \A i \in 1 .. Len(t) : u[n + i] = t[i]
  OBVIOUS
<1>2. /\ ds \in Seq(Bytes) /\ Len(ds) = n
      /\ \A i \in 1 .. n : ds[i] = (s[i] + Base - KeyStream(before + i)) % Base
  BY CipherType
<1>3. /\ dt \in Seq(Bytes) /\ Len(dt) = Len(t)
      /\ \A i \in 1 .. Len(t) : dt[i] = (t[i] + Base - KeyStream((before + n) + i)) % Base
  <2>1. before + n \in Nat
    BY <1>1
  <2> QED
    BY <2>1, CipherType
<1> HIDE DEF n, u, ds, dt
<1>4. /\ du \in Seq(Bytes) /\ Len(du) = Len(u)
      /\ \A i \in 1 .. Len(u) : du[i] = (u[i] + Base - KeyStream(before + i)) % Base
  BY <1>1, CipherType
<1>5. /\ w \in Seq(Bytes) /\ Len(w) = n + Len(t)
      /\ \A i \in 1 .. n : w[i] = ds[i]
      /\ \A i \in 1 .. Len(t) : w[n + i] = dt[i]
  <2>0. ds \in Seq(Bytes) /\ dt \in Seq(Bytes)
    BY <1>2, <1>3
  <2>1. /\ w \in Seq(Bytes) /\ Len(w) = Len(ds) + Len(dt)
        /\ \A i \in 1 .. Len(ds) : w[i] = ds[i]
        /\ \A i \in 1 .. Len(dt) : w[Len(ds) + i] = dt[i]
    BY <2>0, Join
  <2> HIDE DEF w
  <2> QED
    BY <1>2, <1>3, <2>1
<1> HIDE DEF w, du
<1>6. \A i \in 1 .. Len(du) : du[i] = w[i]
  <2> TAKE i \in 1 .. Len(du)
  <2>0. i \in 1 .. Len(u) /\ i \in Nat /\ n \in Nat /\ Len(t) \in Nat
    BY <1>1, <1>4
  <2>1. CASE i <= n
    <3>1. i \in 1 .. n
      BY <2>0, <2>1
    <3> QED
      BY <1>1, <1>2, <1>4, <1>5, <2>0, <3>1
  <2>2. CASE n < i
    <3>1. i - n \in 1 .. Len(t) /\ n + (i - n) = i /\ (before + n) + (i - n) = before + i
      BY <1>1, <2>0, <2>2
    <3>2. u[i] = t[i - n] /\ w[i] = dt[i - n]
      BY <1>1, <1>5, <3>1
    <3> QED
      BY <1>3, <1>4, <2>0, <3>1, <3>2
  <2> QED
    BY <2>0, <2>1, <2>2
<1>7. du = w
  BY <1>1, <1>4, <1>5, <1>6, SeqEqual
<1> QED
  BY <1>7 DEF du, w, ds, dt, u, n

\* A packet of the payload, with padding that the reader can tell from it.
IsPacket(bytes, payload) ==
  LET n == Len(bytes) - PacketLenWidth
  IN  /\ n - Len(payload) \in 0 .. 3 /\ (~Randomized => n = Len(payload))
      /\ SubSeq(bytes, 1, PacketLenWidth) = LittleEndian(n, PacketLenWidth)
      /\ SubSeq(bytes, PacketLenWidth + 1, PacketLenWidth + Len(payload)) = payload

\* A packet's length, with its padding, fits into its field.
LEMMA PacketFacts ==
  /\ PacketLenWidth \in Nat /\ PacketLenWidth >= 1
  /\ \A n \in PayloadSizes : n \in Nat /\ n % 4 = 0 /\ n + 3 < Power(PacketLenWidth) \div 2
BY PacketAssumption

\* pack_frame makes a packet.
LEMMA PacketWritten ==
  ASSUME NEW payload \in Seq(Bytes), Len(payload) \in PayloadSizes,
         NEW padding \in Seq(Bytes), Len(padding) \in PadSizes(payload)
  PROVE  /\ PackFrame(payload, padding) \in Seq(Bytes)
         /\ Len(PackFrame(payload, padding)) = PacketLenWidth + Len(payload) + Len(padding)
         /\ IsPacket(PackFrame(payload, padding), payload)
<1> DEFINE W == PacketLenWidth
           m == Len(payload)
           p == Len(padding)
           h == LittleEndian(m + p, W)
           hp == h \o payload
           b == hp \o padding
<1>1. /\ W \in Nat /\ m \in Nat /\ p \in Nat /\ m + p \in Nat
      /\ p \in 0 .. 3 /\ (~Randomized => p = 0)
      /\ m + p < Power(W) \div 2
  <2>1. p \in 0 .. 3 /\ (~Randomized => p = 0)
    BY DEF PadSizes
  <2>2. m \in Nat /\ W \in Nat /\ m + 3 < Power(W) \div 2
    BY PacketFacts
  <2>3. Power(W) \div 2 \in Nat
    <3>1. Power(W) \in Nat
      BY <2>2, PowerPositive
    <3>2. \A x \in Nat : x \div 2 \in Nat
      OBVIOUS
    <3> QED
      BY <3>1, <3>2
  <2> HIDE DEF m, p, W
  <2> QED
    BY <2>1, <2>2, <2>3
<1>2. h \in Seq(Bytes) /\ Len(h) = W
  BY <1>1, LengthIsRead
<1>3. PackFrame(payload, padding) = b
  BY DEF PackFrame
<1> HIDE DEF h
<1>4. hp \in Seq(Bytes) /\ Len(hp) = W + m
  BY <1>2
<1> HIDE DEF W, m, p
<1>5. SubSeq(hp, 0 + 1, W) = h
  <2>1. SubSeq(hp, 0 + 1, W) = SubSeq(h, 0 + 1, W)
    BY <1>1, <1>2, SliceOfLeft
  <2>2. SubSeq(h, 0 + 1, W) = h
    BY <1>2, SubSeqFull
  <2> HIDE DEF hp
  <2> QED
    BY <2>1, <2>2
<1>6. SubSeq(hp, W + 1, W + m) = payload
  <2>1. SubSeq(hp, (Len(h) + 0) + 1, Len(h) + m) = SubSeq(payload, 0 + 1, m)
    BY <1>1, <1>2, SliceOfRight DEF m
  <2>2. SubSeq(payload, 0 + 1, m) = payload
    BY SubSeqFull DEF m
  <2>3. Len(h) + 0 = W /\ Len(h) + m = W + m
    BY <1>1, <1>2
  <2> HIDE DEF hp
  <2> QED
    BY <2>1, <2>2, <2>3
<1> HIDE DEF hp
<1>7. b \in Seq(Bytes) /\ Len(b) = W + m + p
  <2>1. b \in Seq(Bytes) /\ Len(b) = Len(hp) + Len(padding)
    BY <1>4, Join
  <2> HIDE DEF b
  <2> QED
    BY <1>1, <1>4, <2>1 DEF p
<1>8. SubSeq(b, 0 + 1, W) = h
  <2>1. SubSeq(b, 0 + 1, W) = SubSeq(hp, 0 + 1, W)
    BY <1>1, <1>4, SliceOfLeft
  <2> QED
    BY <1>5, <2>1
<1>9. SubSeq(b, W + 1, W + m) = payload
  <2>1. W <= W + m /\ W + m <= Len(hp) /\ W + m \in Nat
    BY <1>1, <1>4
  <2>2. SubSeq(b, W + 1, W + m) = SubSeq(hp, W + 1, W + m)
    BY <1>1, <1>4, <2>1, SliceOfLeft
  <2> QED
    BY <1>6, <2>2
<1> HIDE DEF b
<1>10. Len(b) - W = m + p /\ (m + p) - m = p
  BY <1>1, <1>7
<1>11. IsPacket(b, payload)
  <2>1. SubSeq(b, 1, W) = LittleEndian(m + p, W)
    BY <1>8 DEF h
  <2>2. (Len(b) - W) - m \in 0 .. 3
    BY <1>1, <1>10
  <2>3. ~Randomized => Len(b) - W = m
    BY <1>1, <1>10
  <2>4. SubSeq(b, 1, W) = LittleEndian(Len(b) - W, W)
    BY <1>10, <2>1
  <2> QED
    BY <1>9, <2>2, <2>3, <2>4 DEF IsPacket, W, m
<1> QED
  BY <1>3, <1>7, <1>11 DEF W, m, p

\* read finds a packet's end and, with unpack_frame, its payload.
LEMMA PacketRead ==
  ASSUME NEW bytes \in Seq(Bytes), NEW payload \in Seq(Bytes),
         Len(payload) \in PayloadSizes, IsPacket(bytes, payload)
  PROVE  /\ Len(bytes) >= PacketLenWidth
         /\ PacketLenWidth + FromLittleEndian(SubSeq(bytes, 1, PacketLenWidth)) = Len(bytes)
         /\ UnpackFrame(SubSeq(bytes, PacketLenWidth + 1, Len(bytes))) = payload
<1> DEFINE W == PacketLenWidth
           m == Len(payload)
           n == Len(bytes) - W
           body == SubSeq(bytes, W + 1, Len(bytes))
<1>1. /\ n - m \in 0 .. 3 /\ (~Randomized => n = m)
      /\ SubSeq(bytes, 1, W) = LittleEndian(n, W)
      /\ SubSeq(bytes, W + 1, W + m) = payload
  BY DEF IsPacket
<1>2. /\ W \in Nat /\ m \in Nat /\ n \in Nat /\ Len(bytes) \in Nat
      /\ m <= n /\ n <= m + 3 /\ n < Power(W) \div 2
  <2>1. Len(bytes) \in Nat /\ m \in Nat /\ W \in Nat
    BY PacketFacts
  <2>2. n \in Nat /\ m <= n /\ n <= m + 3
    <3>1. n \in Int
      BY <2>1
    <3> HIDE DEF n, m
    <3> QED
      BY <1>1, <2>1, <3>1
  <2>3. m + 3 < Power(W) \div 2 /\ Power(W) \in Nat
    BY <2>1, PacketFacts, PowerPositive
  <2> HIDE DEF n, m, W
  <2>4. n < Power(W) \div 2
    <3>1. Power(W) \div 2 \in Nat
      BY <2>3
    <3> QED
      BY <2>1, <2>2, <2>3, <3>1
  <2> QED
    BY <2>1, <2>2, <2>4
<1>3. FromLittleEndian(SubSeq(bytes, 1, W)) = n
  <2> HIDE DEF n, W
  <2>1. FromLittleEndian(LittleEndian(n, W)) = n
    BY <1>2, LengthIsRead
  <2> QED
    BY <1>1, <2>1
<1>4. Len(bytes) >= W /\ W + n = Len(bytes)
  BY <1>2
<1>5. body \in Seq(Bytes) /\ Len(body) = n
  <2>1. W \in Nat /\ Len(bytes) \in Nat /\ W <= Len(bytes) /\ Len(bytes) <= Len(bytes)
    BY <1>2, <1>4
  <2> HIDE DEF W
  <2> QED
    BY <2>1, Slice DEF n
<1>6. SubSeq(body, 0 + 1, m) = payload
  <2>1. SubSeq(body, 0 + 1, m) = SubSeq(bytes, (W + 0) + 1, W + m)
    <3>1. 0 \in Nat /\ 0 <= m /\ m <= Len(bytes) - W /\ W <= Len(bytes) /\ Len(bytes) <= Len(bytes)
      BY <1>2
    <3>2. W \in Nat /\ m \in Nat /\ Len(bytes) \in Nat
      BY <1>2
    <3> QED
      BY <3>1, <3>2, SliceOfSlice
  <2>2. W + 0 = W
    BY <1>2
  <2> HIDE DEF W, m, body
  <2> QED
    BY <1>1, <2>1, <2>2
<1>7. UnpackFrame(body) = payload
  <2>1. CASE Randomized
    <3>1. UnpackFrame(body) = SubSeq(body, 1, Len(body) - (Len(body) % 4))
      BY <2>1 DEF UnpackFrame
    <3>2. m % 4 = 0
      BY PacketFacts
    <3>3. n - (n % 4) = m
      <4>1. \A x, y \in Nat : x % 4 = 0 /\ x <= y /\ y <= x + 3 => y - (y % 4) = x
        OBVIOUS
      <4> HIDE DEF n, m
      <4> QED
        BY <1>2, <3>2, <4>1
    <3> HIDE DEF body, n
    <3> QED
      BY <1>5, <1>6, <3>1, <3>3
  <2>2. CASE ~Randomized
    <3>1. UnpackFrame(body) = body
      BY <2>2 DEF UnpackFrame
    <3>2. n = m
      BY <1>1, <1>2, <2>2
    <3> HIDE DEF body, n
    <3>3. SubSeq(body, 1, Len(body)) = body
      BY <1>5, SubSeqFull
    <3> QED
      BY <1>5, <1>6, <3>1, <3>2, <3>3
  <2> QED
    BY <2>1, <2>2
<1> QED
  BY <1>3, <1>4, <1>7

-----------------------------------------------------------------------------
(* The relay's frames and the chunks made of them (_dispatch_frame). *)

\* A function that never falls is greatest at its end.
LEMMA NeverFalls ==
  ASSUME NEW n \in Nat, NEW f \in [0 .. n -> Nat], \A i \in 1 .. n : f[i - 1] <= f[i]
  PROVE  \A i \in 0 .. n : f[i] <= f[n]
<1> DEFINE T == {j \in 0 .. n : \A i \in 0 .. j : f[i] <= f[j]}
<1>1. 0 \in T
  OBVIOUS
<1>2. ASSUME NEW j \in 1 .. n, j - 1 \in T
      PROVE  j \in T
  <2> SUFFICES ASSUME NEW i \in 0 .. j
               PROVE  f[i] <= f[j]
    OBVIOUS
  <2>1. CASE i = j
    <3>1. f[j] \in Nat
      OBVIOUS
    <3> QED
      BY <2>1, <3>1
  <2>2. CASE i # j
    <3>1. i \in 0 .. j - 1 /\ i \in 0 .. n /\ j - 1 \in 0 .. n /\ j \in 0 .. n
      BY <2>2
    <3>2. f[i] <= f[j - 1] /\ f[j - 1] <= f[j]
      BY <1>2, <3>1
    <3>3. f[i] \in Nat /\ f[j - 1] \in Nat /\ f[j] \in Nat
      BY <3>1
    <3> QED
      BY <3>2, <3>3
  <2> QED
    BY <2>1, <2>2
<1>3. 0 .. n \subseteq T
  <2> HIDE DEF T
  <2> QED
    BY <1>1, <1>2, BoundedInduction
<1> QED
  BY <1>3

\* Two slices that meet.
LEMMA SlicesMeet ==
  ASSUME NEW S, NEW s \in Seq(S), NEW a \in Nat, NEW b \in Nat, a <= b, b <= Len(s)
  PROVE  SubSeq(s, 1, a) \o SubSeq(s, a + 1, b) = SubSeq(s, 1, b)
<1> DEFINE l == SubSeq(s, 0 + 1, a)
           r == SubSeq(s, a + 1, b)
           w == SubSeq(s, 0 + 1, b)
           j == l \o r
<1>0. Len(s) \in Nat /\ 0 <= a /\ 0 <= b /\ a <= Len(s) /\ a - 0 = a /\ b - 0 = b
  OBVIOUS
<1>1. l \in Seq(S) /\ Len(l) = a /\ \A i \in 1 .. a : l[i] = s[0 + i]
  BY <1>0, Slice
<1>2. r \in Seq(S) /\ Len(r) = b - a /\ \A i \in 1 .. b - a : r[i] = s[a + i]
  BY <1>0, Slice
<1>3. w \in Seq(S) /\ Len(w) = b /\ \A i \in 1 .. b : w[i] = s[0 + i]
  BY <1>0, Slice
<1> HIDE DEF l, r, w
<1>4. /\ j \in Seq(S) /\ Len(j) = Len(l) + Len(r)
      /\ \A i \in 1 .. Len(l) : j[i] = l[i]
      /\ \A i \in 1 .. Len(r) : j[Len(l) + i] = r[i]
  <2>1. l \in Seq(S) /\ r \in Seq(S)
    BY <1>1, <1>2
  <2> QED
    BY <2>1, Join
<1> HIDE DEF j
<1>5. Len(j) = b
  BY <1>1, <1>2, <1>4
<1>6. \A i \in 1 .. Len(j) : j[i] = w[i]
  <2> TAKE i \in 1 .. Len(j)
  <2>0. i \in 1 .. b
    BY <1>5
  <2>1. CASE i <= a
    <3>1. i \in 1 .. a
      BY <2>0, <2>1
    <3> QED
      BY <1>1, <1>3, <1>4, <2>0, <3>1
  <2>2. CASE a < i
    <3>1. i - a \in 1 .. b - a /\ a + (i - a) = i /\ 0 + i = i
      BY <2>0, <2>2
    <3>2. j[a + (i - a)] = r[i - a]
      BY <1>1, <1>2, <1>4, <3>1
    <3>3. r[i - a] = s[a + (i - a)]
      BY <1>2, <3>1
    <3> QED
      BY <1>3, <2>0, <3>1, <3>2, <3>3
  <2> QED
    BY <2>0, <2>1, <2>2
<1>7. j = w
  BY <1>3, <1>4, <1>5, <1>6, SeqEqual
<1> QED
  BY <1>7 DEF j, l, r, w

\* A frame of the stream.
Own(f) == f.type = DataType /\ f.sid = Stream

\* The chunks of the first frames, as Chunks builds them.
ChunksBuild(g, frames) ==
  g = [n \in 0 .. Len(frames) |->
         IF n = 0 THEN <<>>
         ELSE IF Own(frames[n]) THEN Append(g[n - 1], frames[n].payload)
         ELSE g[n - 1]]

\* What ChunksBuild says of each chunk sequence.
LEMMA ChunksAre ==
  ASSUME NEW S, NEW frames \in Seq(S), NEW g, ChunksBuild(g, frames)
  PROVE  /\ g[0] = <<>>
         /\ \A n \in 1 .. Len(frames) :
              g[n] = IF Own(frames[n]) THEN Append(g[n - 1], frames[n].payload) ELSE g[n - 1]
<1>1. \A n \in 1 .. Len(frames) : n # 0 /\ n \in 0 .. Len(frames)
  OBVIOUS
<1>2. 0 \in 0 .. Len(frames)
  OBVIOUS
<1> QED
  BY <1>1, <1>2 DEF ChunksBuild

\* Any frames have chunk sequences.
LEMMA ChunksExist ==
  ASSUME NEW frames \in Seq(Frames)
  PROVE  \E g \in [0 .. Len(frames) -> Seq(Seq(Bytes))] : ChunksBuild(g, frames)
<1> DEFINE n == Len(frames)
           C == Seq(Seq(Bytes))
           step == [x \in C \X (1 .. n) |->
                      IF Own(frames[x[2]]) THEN Append(x[1], frames[x[2]].payload) ELSE x[1]]
<1>0. n \in Nat /\ <<>> \in C
  OBVIOUS
<1>1. step \in [C \X (1 .. n) -> C]
  <2>1. \A i \in 1 .. n : frames[i].payload \in Seq(Bytes)
    <3> TAKE i \in 1 .. n
    <3>1. frames[i] \in Frames
      OBVIOUS
    <3> QED
      BY <3>1, FrameFields
  <2>2. \A c \in C, i \in 1 .. n :
          (IF Own(frames[i]) THEN Append(c, frames[i].payload) ELSE c) \in C
    BY <2>1
  <2> QED
    BY <2>2
<1>2. \A c \in C, i \in 1 .. n :
        step[<<c, i>>] = IF Own(frames[i]) THEN Append(c, frames[i].payload) ELSE c
  OBVIOUS
<1> HIDE DEF step, C, n
<1>3. PICK g \in [0 .. n -> C] : Follows(g, n, <<>>, step)
  BY <1>0, <1>1, Recursion
<1>4. \A i \in 1 .. n :
        g[i] = IF Own(frames[i]) THEN Append(g[i - 1], frames[i].payload) ELSE g[i - 1]
  <2> TAKE i \in 1 .. n
  <2>1. g[i - 1] \in C
    BY <1>0
  <2>2. g[i] = step[<<g[i - 1], i>>]
    BY <1>3 DEF Follows
  <2> QED
    BY <1>2, <2>1, <2>2
<1>5. ChunksBuild(g, frames)
  <2>1. \A i \in 0 .. n : g[i] = IF i = 0 THEN <<>>
                                 ELSE IF Own(frames[i]) THEN Append(g[i - 1], frames[i].payload)
                                 ELSE g[i - 1]
    <3> TAKE i \in 0 .. n
    <3>1. CASE i = 0
      BY <1>3, <3>1 DEF Follows
    <3>2. CASE i # 0
      <4>1. i \in 1 .. n
        BY <1>0, <3>2
      <4> QED
        BY <1>4, <3>2, <4>1
    <3> QED
      BY <3>1, <3>2
  <2>2. DOMAIN g = 0 .. n
    OBVIOUS
  <2> QED
    BY <2>1, <2>2 DEF ChunksBuild, n
<1> QED
  BY <1>5 DEF C, n

\* Chunks is the last of them.
LEMMA ChunksIs ==
  ASSUME NEW frames \in Seq(Frames), NEW g, ChunksBuild(g, frames)
  PROVE  Chunks(frames) = g[Len(frames)]
<1> DEFINE upTo == CHOOSE h : ChunksBuild(h, frames)
<1>1. ChunksBuild(upTo, frames)
  OBVIOUS
<1>2. Chunks(frames) = upTo[Len(frames)]
  BY DEF Chunks, ChunksBuild, Own
<1> HIDE DEF upTo
<1>3. Len(frames) \in Nat
  OBVIOUS
<1>4. \A i \in 0 .. Len(frames) : upTo[i] = g[i]
  <2>1. /\ upTo[0] = <<>>
        /\ \A n \in 1 .. Len(frames) :
             upTo[n] = IF Own(frames[n]) THEN Append(upTo[n - 1], frames[n].payload) ELSE upTo[n - 1]
    BY <1>1, ChunksAre
  <2>2. /\ g[0] = <<>>
        /\ \A n \in 1 .. Len(frames) :
             g[n] = IF Own(frames[n]) THEN Append(g[n - 1], frames[n].payload) ELSE g[n - 1]
    BY ChunksAre
  <2>3. \A i \in 1 .. Len(frames) : upTo[i - 1] = g[i - 1] => upTo[i] = g[i]
    BY <2>1, <2>2
  <2>4. upTo[0] = g[0]
    BY <2>1, <2>2
  <2> QED
    BY <1>3, <2>3, <2>4, Alike, ZenonT(30)
<1> QED
  BY <1>2, <1>3, <1>4

\* Where the relay cuts, as RelaySends adds up the sizes.
CutsBuild(c, sizes) ==
  c = [i \in 0 .. Len(sizes) |-> IF i = 0 THEN 0 ELSE c[i - 1] + sizes[i]]

\* What CutsBuild says of each cut.
LEMMA CutsAre ==
  ASSUME NEW sizes \in Seq(Nat), NEW c, CutsBuild(c, sizes)
  PROVE  /\ c \in [0 .. Len(sizes) -> Nat]
         /\ c[0] = 0
         /\ \A i \in 1 .. Len(sizes) : c[i] = c[i - 1] + sizes[i]
<1>0. Len(sizes) \in Nat /\ 0 \in 0 .. Len(sizes)
  OBVIOUS
<1>1. \A i \in 1 .. Len(sizes) : i # 0 /\ i \in 0 .. Len(sizes)
  OBVIOUS
<1>2. c[0] = 0 /\ \A i \in 1 .. Len(sizes) : c[i] = c[i - 1] + sizes[i]
  BY <1>0, <1>1 DEF CutsBuild
<1> DEFINE T == {i \in 0 .. Len(sizes) : c[i] \in Nat}
<1>3. 0 \in T
  BY <1>0, <1>2
<1>4. \A i \in 1 .. Len(sizes) : i - 1 \in T => i \in T
  <2> TAKE i \in 1 .. Len(sizes)
  <2> HAVE i - 1 \in T
  <2>1. c[i - 1] \in Nat /\ sizes[i] \in Nat /\ i \in 0 .. Len(sizes)
    BY <1>1
  <2> QED
    BY <1>2, <2>1
<1>5. 0 .. Len(sizes) \subseteq T
  <2> HIDE DEF T
  <2> QED
    BY <1>0, <1>3, <1>4, BoundedInduction
<1>6. \A i \in 0 .. Len(sizes) : c[i] \in Nat
  BY <1>5
<1>7. c \in [0 .. Len(sizes) -> Nat]
  BY <1>6 DEF CutsBuild
<1> QED
  BY <1>2, <1>7

\* Any sizes have cuts.
LEMMA CutsExist ==
  ASSUME NEW sizes \in Seq(Nat)
  PROVE  \E c : CutsBuild(c, sizes)
<1> DEFINE n == Len(sizes)
           step == [x \in Nat \X (1 .. n) |-> x[1] + sizes[x[2]]]
<1>0. n \in Nat /\ \A i \in 1 .. n : sizes[i] \in Nat
  OBVIOUS
<1>1. step \in [Nat \X (1 .. n) -> Nat]
  BY <1>0
<1>2. \A m \in Nat, i \in 1 .. n : step[<<m, i>>] = m + sizes[i]
  OBVIOUS
<1> HIDE DEF step, n
<1>3. PICK c \in [0 .. n -> Nat] : Follows(c, n, 0, step)
  BY <1>0, <1>1, Recursion
<1>4. \A i \in 1 .. n : c[i] = c[i - 1] + sizes[i]
  <2> TAKE i \in 1 .. n
  <2>1. c[i - 1] \in Nat
    BY <1>0
  <2> QED
    BY <1>2, <1>3, <2>1 DEF Follows
<1>5. \A i \in 0 .. n : c[i] = IF i = 0 THEN 0 ELSE c[i - 1] + sizes[i]
  <2> TAKE i \in 0 .. n
  <2>1. i # 0 => i \in 1 .. n
    BY <1>0
  <2> QED
    BY <1>3, <1>4, <2>1 DEF Follows
<1> QED
  BY <1>5 DEF CutsBuild, n

\* The frames of the relay's batch.
Cuts(sizes) == CHOOSE c : CutsBuild(c, sizes)
Frame(sizes, i) ==
  IF sizes[i] = 0 THEN Other
  ELSE [type |-> DataType, sid |-> Stream,
        payload |-> SubSeq(wire, Cuts(sizes)[i - 1] + 1, Cuts(sizes)[i])]
RelayFrames(sizes) == [i \in DOMAIN sizes |-> Frame(sizes, i)]

\* What the relay does, in the terms of the lemmas.
LEMMA RelayStep ==
  ASSUME NEW sizes, RelaySends(sizes)
  PROVE  LET total == Cuts(sizes)[Len(sizes)]
         IN  /\ 0 < total /\ total <= Len(wire)
             /\ queue' = queue \o Chunks(ParseFrames(EncodeBatch(RelayFrames(sizes))).frames)
             /\ wire' = SubSeq(wire, total + 1, Len(wire))
             /\ UNCHANGED <<sent, ends, buffer, deciphered, delivered, closed>>
BY DEF RelaySends, Dispatch, Cuts, CutsBuild, RelayFrames, Frame

\* A size of zero stands for no byte of the stream, and the others are a frame's.
LEMMA SizesAre ==
  ASSUME NEW k \in 1 .. MaxBatchFrames, NEW sizes \in [1 .. k -> FrameSizes \cup {0}]
  PROVE  /\ sizes \in Seq(Nat) /\ Len(sizes) = k /\ DOMAIN sizes = 1 .. k
         /\ \A i \in 1 .. k : sizes[i] \in Nat /\ (sizes[i] # 0 => sizes[i] <= MaxPayload)
<1>1. FrameSizes \subseteq 1 .. MaxPayload /\ MaxPayload \in Nat /\ k \in Nat
  <2>1. 0 \in Nat /\ Power(LenWidth) \in Nat
    BY PowerPositive, BaseFacts
  <2> QED
    BY <2>1, PacketAssumption, CodecAssumption, BaseFacts
<1>2. \A i \in 1 .. k : sizes[i] \in Nat /\ (sizes[i] # 0 => sizes[i] <= MaxPayload)
  <2> TAKE i \in 1 .. k
  <2>1. CASE sizes[i] = 0
    BY <2>1
  <2>2. CASE sizes[i] \in FrameSizes
    <3>1. sizes[i] \in 1 .. MaxPayload
      BY <1>1, <2>2
    <3> QED
      BY <1>1, <3>1
  <2> QED
    BY <2>1, <2>2
<1>3. sizes \in [1 .. k -> Nat]
  BY <1>2
<1> QED
  BY <1>1, <1>2, <1>3

\* A cut of some bytes needs a size that is not zero.
LEMMA SomeSize ==
  ASSUME NEW sizes \in Seq(Nat), NEW c, CutsBuild(c, sizes), c[Len(sizes)] > 0
  PROVE  \E i \in 1 .. Len(sizes) : sizes[i] # 0
<1> SUFFICES ASSUME \A i \in 1 .. Len(sizes) : sizes[i] = 0
             PROVE  FALSE
  OBVIOUS
<1>0. Len(sizes) \in Nat /\ Len(sizes) \in 0 .. Len(sizes)
  OBVIOUS
<1>1. c[0] = 0 /\ \A i \in 1 .. Len(sizes) : c[i] = c[i - 1] + sizes[i]
  BY CutsAre
<1> DEFINE T == {i \in 0 .. Len(sizes) : c[i] = 0}
<1>2. 0 \in T
  BY <1>0, <1>1
<1>3. \A i \in 1 .. Len(sizes) : i - 1 \in T => i \in T
  <2> TAKE i \in 1 .. Len(sizes)
  <2> HAVE i - 1 \in T
  <2>1. i \in 0 .. Len(sizes) /\ c[i] = 0 + 0
    BY <1>0, <1>1
  <2> QED
    BY <2>1
<1>4. 0 .. Len(sizes) \subseteq T
  <2> HIDE DEF T
  <2> QED
    BY <1>0, <1>2, <1>3, BoundedInduction
<1> QED
  BY <1>0, <1>4

\* A frame of another stream is a frame.
LEMMA OtherIsFrame ==
  ASSUME MaxPayload >= 1
  PROVE  Other \in Frames /\ ~Own(Other)
<1>1. 0 \in Bytes /\ 1 \in Bytes
  BY BaseFacts DEF Bytes
<1>2. 0 \in 0 .. Power(SidWidth) - 1
  <2>1. Power(SidWidth) \in Nat /\ Power(SidWidth) >= 1
    BY BaseFacts, PowerPositive
  <2> QED
    BY <2>1
<1>3. <<1>> \in Seq(Bytes) /\ Len(<<1>>) = 1
  BY <1>1
<1>4. <<1>> \in {p \in Seq(Bytes) : Len(p) <= MaxPayload}
  BY <1>3
<1>5. Other \in Frames
  BY <1>1, <1>2, <1>4 DEF Other, Frames
<1>6. Other.type # DataType
  BY DEF Other, DataType
<1> QED
  BY <1>5, <1>6 DEF Own

\* So is one of the stream.
LEMMA DataIsFrame ==
  ASSUME NEW p \in Seq(Bytes), Len(p) <= MaxPayload
  PROVE  LET f == [type |-> DataType, sid |-> Stream, payload |-> p]
         IN  f \in Frames /\ Own(f)
<1>1. 1 \in Bytes
  BY BaseFacts DEF Bytes
<1>2. 1 \in 0 .. Power(SidWidth) - 1
  <2>1. SidWidth - 1 \in Nat /\ (SidWidth - 1) + 1 = SidWidth
    BY BaseFacts
  <2>2. Power(SidWidth) = Base * Power(SidWidth - 1)
    BY <2>1, PowerStep
  <2>3. Power(SidWidth - 1) \in Nat /\ Power(SidWidth - 1) >= 1
    BY <2>1, PowerPositive
  <2>4. \A b, q \in Nat : b >= 2 /\ q >= 1 => b * q \in Nat /\ b * q >= 2
    OBVIOUS
  <2>5. Power(SidWidth) \in Nat /\ Power(SidWidth) >= 2
    BY <2>2, <2>3, <2>4, BaseFacts
  <2> QED
    BY <2>5
<1>3. p \in {q \in Seq(Bytes) : Len(q) <= MaxPayload}
  OBVIOUS
<1> QED
  BY <1>1, <1>2, <1>3 DEF Frames, Own, DataType, Stream

\* Bytes put together in either order.
LEMMA BytesAssociate == \A a, b, c \in Seq(Bytes) : (a \o b) \o c = a \o (b \o c)
BY ConcatAssociative

\* What the relay sends, the stream's receive queue gets: a batch of its frames is
\* parsed, and its chunks are the bytes that are taken off the wire.
LEMMA RelayKeepsBytes ==
  ASSUME wire \in Seq(Bytes), queue \in Seq(Seq(Bytes)),
         NEW k \in 1 .. MaxBatchFrames, NEW sizes \in [1 .. k -> FrameSizes \cup {0}],
         RelaySends(sizes)
  PROVE  /\ queue' \in Seq(Seq(Bytes)) /\ wire' \in Seq(Bytes)
         /\ FlattenSeq(queue') \o wire' = FlattenSeq(queue) \o wire
<1> DEFINE c == Cuts(sizes)
           total == c[Len(sizes)]
           frames == RelayFrames(sizes)
<1>0. k \in Nat /\ k \in 1 .. MaxBatchFrames /\ MaxBatchFrames \in Nat
  BY BaseFacts
<1>1. /\ sizes \in Seq(Nat) /\ Len(sizes) = k /\ DOMAIN sizes = 1 .. k
      /\ \A i \in 1 .. k : sizes[i] \in Nat /\ (sizes[i] # 0 => sizes[i] <= MaxPayload)
  BY SizesAre
<1>2. CutsBuild(c, sizes)
  BY <1>1, CutsExist DEF Cuts
<1>3. /\ 0 < total /\ total <= Len(wire)
      /\ queue' = queue \o Chunks(ParseFrames(EncodeBatch(frames)).frames)
      /\ wire' = SubSeq(wire, total + 1, Len(wire))
  BY RelayStep
<1>4. /\ c \in [0 .. k -> Nat] /\ c[0] = 0
      /\ \A i \in 1 .. k : c[i] = c[i - 1] + sizes[i]
  <2> HIDE DEF c
  <2>1. /\ c \in [0 .. Len(sizes) -> Nat] /\ c[0] = 0
        /\ \A i \in 1 .. Len(sizes) : c[i] = c[i - 1] + sizes[i]
    BY <1>1, <1>2, CutsAre
  <2> QED
    BY <1>1, <2>1
<1>5. DOMAIN frames = 1 .. k /\ \A i \in 1 .. k :
        frames[i] = IF sizes[i] = 0 THEN Other
                    ELSE [type |-> DataType, sid |-> Stream,
                          payload |-> SubSeq(wire, c[i - 1] + 1, c[i])]
  BY <1>1 DEF RelayFrames, Frame
<1>6. total = c[k]
  BY <1>1
<1> HIDE DEF c, total, frames
<1>7. MaxPayload >= 1
  <2>1. PICK i \in 1 .. k : sizes[i] # 0
    <3>1. c[Len(sizes)] > 0
      BY <1>1, <1>3, <1>6
    <3> QED
      BY <1>1, <1>2, <3>1, SomeSize
  <2>2. MaxPayload \in Nat
    BY LengthFits, CodecAssumption, PowerPositive, BaseFacts
  <2> QED
    BY <1>1, <2>1, <2>2
<1>8. \A i \in 0 .. k : c[i] <= total /\ c[i] <= Len(wire) /\ c[i] \in Nat
  <2>1. \A i \in 1 .. k : c[i - 1] <= c[i]
    <3> TAKE i \in 1 .. k
    <3>1. i - 1 \in 0 .. k
      BY <1>0
    <3>2. c[i - 1] \in Nat /\ sizes[i] \in Nat
      BY <1>1, <1>4, <3>1
    <3> QED
      BY <1>4, <3>2
  <2>2. \A i \in 0 .. k : c[i] <= c[k]
    BY <1>0, <1>4, <2>1, NeverFalls
  <2>3. Len(wire) \in Nat /\ c[k] \in Nat /\ k \in 0 .. k
    BY <1>0, <1>4
  <2> QED
    BY <1>3, <1>4, <1>6, <2>2, <2>3
<1>9. ASSUME NEW i \in 1 .. k, sizes[i] # 0
      PROVE  /\ SubSeq(wire, c[i - 1] + 1, c[i]) \in Seq(Bytes)
             /\ Len(SubSeq(wire, c[i - 1] + 1, c[i])) <= MaxPayload
             /\ c[i - 1] <= c[i]
  <2>1. i - 1 \in 0 .. k /\ i \in 0 .. k
    BY <1>0
  <2>2. c[i - 1] \in Nat /\ c[i] \in Nat /\ c[i] <= Len(wire) /\ sizes[i] \in Nat
    BY <1>1, <1>8, <2>1
  <2>3. c[i] = c[i - 1] + sizes[i] /\ c[i - 1] <= c[i] /\ c[i] - c[i - 1] = sizes[i]
    BY <1>4, <2>2
  <2>4. /\ SubSeq(wire, c[i - 1] + 1, c[i]) \in Seq(Bytes)
        /\ Len(SubSeq(wire, c[i - 1] + 1, c[i])) = c[i] - c[i - 1]
    <3>1. /\ wire \in Seq(Bytes) /\ c[i - 1] \in Nat /\ c[i] \in Nat
          /\ c[i - 1] <= c[i] /\ c[i] <= Len(wire)
      BY <2>2, <2>3
    <3> QED
      BY <3>1, Slice
  <2> QED
    BY <1>1, <1>9, <2>3, <2>4
<1>10. \A i \in 1 .. k : /\ frames[i] \in Frames
                         /\ sizes[i] = 0 <=> ~Own(frames[i])
                         /\ sizes[i] # 0 => frames[i].payload = SubSeq(wire, c[i - 1] + 1, c[i])
  <2> TAKE i \in 1 .. k
  <2>1. CASE sizes[i] = 0
    <3>1. frames[i] = Other
      BY <1>5, <2>1
    <3> QED
      BY <1>7, <2>1, <3>1, OtherIsFrame
  <2>2. CASE sizes[i] # 0
    <3> DEFINE p == SubSeq(wire, c[i - 1] + 1, c[i])
    <3>1. frames[i] = [type |-> DataType, sid |-> Stream, payload |-> p]
      BY <1>5, <2>2
    <3>2. p \in Seq(Bytes) /\ Len(p) <= MaxPayload
      BY <1>9, <2>2
    <3> HIDE DEF p
    <3>3. frames[i] \in Frames /\ Own(frames[i])
      BY <3>1, <3>2, DataIsFrame
    <3>4. frames[i].payload = p
      BY <3>1
    <3> QED
      BY <2>2, <3>3, <3>4 DEF p
  <2> QED
    BY <2>1, <2>2
<1>11. frames \in Seq(Frames) /\ Len(frames) = k
  <2>1. frames \in [1 .. k -> Frames]
    <3>1. frames = [i \in 1 .. k |-> frames[i]]
      BY <1>5 DEF frames, RelayFrames
    <3> QED
      BY <1>10, <3>1
  <2> QED
    BY <1>0, <2>1
<1>12. ParseFrames(EncodeBatch(frames)).frames = frames
  <2>1. frames \in Seq(Frames) /\ Len(frames) \in 1 .. MaxBatchFrames
    BY <1>0, <1>11
  <2>2. ParseFrames(EncodeBatch(frames)) = [ok |-> TRUE, frames |-> frames]
    BY <2>1, ParseInvertsEncode
  <2> QED
    BY <2>2
<1>13. PICK g \in [0 .. k -> Seq(Seq(Bytes))] : ChunksBuild(g, frames)
  BY <1>11, ChunksExist
<1>14. /\ g[0] = <<>>
       /\ \A n \in 1 .. k :
            g[n] = IF Own(frames[n]) THEN Append(g[n - 1], frames[n].payload) ELSE g[n - 1]
  BY <1>11, <1>13, ChunksAre
<1>15. Chunks(frames) = g[k]
  BY <1>11, <1>13, ChunksIs
<1> DEFINE T == {n \in 0 .. k : FlattenSeq(g[n]) = SubSeq(wire, 1, c[n])}
<1>16. 0 \in T
  <2>1. SubSeq(wire, 1, 0) = <<>>
    OBVIOUS
  <2>2. FlattenSeq(g[0]) = SubSeq(wire, 1, c[0])
    BY <1>4, <1>14, <2>1, FlattenEmpty
  <2> QED
    BY <1>0, <2>2
<1>17. ASSUME NEW n \in 1 .. k, n - 1 \in T
       PROVE  n \in T
  <2>1. n - 1 \in 0 .. k /\ n \in 0 .. k
    BY <1>0
  <2>2. FlattenSeq(g[n - 1]) = SubSeq(wire, 1, c[n - 1]) /\ g[n - 1] \in Seq(Seq(Bytes))
    BY <1>13, <1>17, <2>1
  <2>3. CASE sizes[n] = 0
    <3>1. g[n] = g[n - 1]
      BY <1>10, <1>14, <2>3
    <3>2. c[n] = c[n - 1]
      <4>1. c[n] = c[n - 1] + 0 /\ c[n - 1] \in Nat
        BY <1>4, <1>8, <2>1, <2>3
      <4> QED
        BY <4>1
    <3> QED
      BY <2>1, <2>2, <3>1, <3>2
  <2>4. CASE sizes[n] # 0
    <3> DEFINE p == SubSeq(wire, c[n - 1] + 1, c[n])
    <3>1. g[n] = Append(g[n - 1], p)
      BY <1>10, <1>14, <2>4
    <3>2. p \in Seq(Bytes) /\ c[n - 1] <= c[n]
      BY <1>9, <2>4
    <3>3. SubSeq(wire, 1, c[n - 1]) \o p = SubSeq(wire, 1, c[n])
      <4>1. c[n - 1] \in Nat /\ c[n] \in Nat /\ c[n] <= Len(wire)
        BY <1>8, <2>1
      <4> QED
        BY <3>2, <4>1, SlicesMeet
    <3> HIDE DEF p
    <3>4. FlattenSeq(g[n]) = FlattenSeq(g[n - 1]) \o p
      BY <2>2, <3>1, <3>2, FlattenAppend
    <3> QED
      BY <2>1, <2>2, <3>3, <3>4
  <2> QED
    BY <2>3, <2>4
<1>18. 0 .. k \subseteq T
  <2> HIDE DEF T
  <2> QED
    BY <1>0, <1>16, <1>17, BoundedInduction
<1>19. k \in 0 .. k
  BY <1>0
<1>20. FlattenSeq(g[k]) = SubSeq(wire, 1, total) /\ g[k] \in Seq(Seq(Bytes))
  BY <1>6, <1>13, <1>18, <1>19
<1>21. queue' = queue \o g[k]
  BY <1>3, <1>12, <1>15
<1>22. total \in Nat /\ total <= Len(wire) /\ Len(wire) \in Nat /\ Len(wire) <= Len(wire)
  BY <1>6, <1>8, <1>19
<1> DEFINE a == SubSeq(wire, 1, total)
           b == SubSeq(wire, total + 1, Len(wire))
<1>23. a \o b = wire
  <2>1. a \o b = SubSeq(wire, 1, Len(wire))
    BY <1>22, SlicesMeet
  <2>2. SubSeq(wire, 1, Len(wire)) = wire
    BY SubSeqFull
  <2> QED
    BY <2>1, <2>2
<1>24. a \in Seq(Bytes) /\ b \in Seq(Bytes)
  <2>1. b \in Seq(Bytes)
    BY <1>22, Slice
  <2>2. a \in Seq(Bytes)
    BY <1>20, FlattenType
  <2> QED
    BY <2>1, <2>2
<1> DEFINE q == FlattenSeq(queue)
<1>25. q \in Seq(Bytes) /\ FlattenSeq(queue') = q \o a
  <2>1. q \in Seq(Bytes)
    BY FlattenType
  <2>2. FlattenSeq(queue \o g[k]) = q \o FlattenSeq(g[k])
    BY <1>20, FlattenConcat
  <2> HIDE DEF a, q
  <2> QED
    BY <1>20, <1>21, <2>1, <2>2 DEF a
<1>26. wire' = b
  BY <1>3
<1> HIDE DEF a, b, q
<1>27. (q \o a) \o b = q \o (a \o b)
  <2>1. q \in Seq(Bytes) /\ a \in Seq(Bytes) /\ b \in Seq(Bytes)
    BY <1>24, <1>25
  <2> QED
    BY <2>1, BytesAssociate, ZenonT(30)
<1>28. queue' \in Seq(Seq(Bytes))
  BY <1>20, <1>21
<1> QED
  BY <1>23, <1>24, <1>25, <1>26, <1>27, <1>28 DEF q

-----------------------------------------------------------------------------
(* The invariant. *)

\* Where packet i ends in the stream, and what read() has returned of it.
EndIn(positions, i) == IF i = 0 THEN 0 ELSE positions[i]
StreamEnd(i) == EndIn(ends, i)
Returned == StreamEnd(Len(delivered))

\* What is still to be deciphered, and everything that read() has not returned.
Incoming == FlattenSeq(queue) \o wire
Pending == buffer \o Decrypt(Incoming, deciphered)

\* Each packet has a place of its own in the stream.
Placed ==
  /\ Len(ends) = Len(sent)
  /\ \A i \in 1 .. Len(sent) : Len(sent[i]) \in PayloadSizes
  /\ \A i \in 1 .. Len(sent) : \A j \in 0 .. i - 1 : StreamEnd(j) < StreamEnd(i)

InOrder == Len(delivered) <= Len(sent) /\ delivered = SubSeq(sent, 1, Len(delivered))

\* The rest of the stream, wherever its bytes are, is what the reader waits for: the
\* packets it has not returned, deciphered at their places.
RestPending ==
  /\ Returned + Len(buffer) = deciphered
  /\ Returned + Len(Pending) = StreamEnd(Len(sent))
  /\ \A i \in Len(delivered) + 1 .. Len(sent) :
       IsPacket(SubSeq(Pending, (StreamEnd(i - 1) - Returned) + 1, StreamEnd(i) - Returned),
                sent[i])

IInv == TypeOK /\ Placed /\ InOrder /\ RestPending

\* The places of the invariant are numbers.
LEMMA Ends ==
  ASSUME TypeOK, Placed, InOrder
  PROVE  /\ Len(sent) \in Nat /\ Len(delivered) \in Nat /\ Len(delivered) <= Len(sent)
         /\ \A i \in 0 .. Len(sent) : StreamEnd(i) \in Nat
         /\ Returned \in Nat
         /\ \A i \in Len(delivered) .. Len(sent) : Returned <= StreamEnd(i)
         /\ Flushed = StreamEnd(Len(sent))
<1>1. Len(sent) \in Nat /\ Len(delivered) \in Nat /\ Len(delivered) <= Len(sent)
  BY DEF TypeOK, InOrder
<1>2. \A i \in 0 .. Len(sent) : StreamEnd(i) \in Nat
  <2> TAKE i \in 0 .. Len(sent)
  <2>1. CASE i = 0
    BY <2>1 DEF StreamEnd, EndIn
  <2>2. CASE i # 0
    <3>1. i \in 1 .. Len(ends)
      BY <1>1, <2>2 DEF Placed
    <3>2. ends[i] \in Nat
      BY <3>1 DEF TypeOK
    <3> QED
      BY <2>2, <3>2 DEF StreamEnd, EndIn
  <2> QED
    BY <2>1, <2>2
<1>3. Returned \in Nat
  <2>1. Len(delivered) \in 0 .. Len(sent)
    BY <1>1
  <2> QED
    BY <1>2, <2>1 DEF Returned
<1>4. \A i \in Len(delivered) .. Len(sent) : Returned <= StreamEnd(i)
  <2> TAKE i \in Len(delivered) .. Len(sent)
  <2>1. i \in 0 .. Len(sent) /\ StreamEnd(i) \in Nat
    BY <1>1, <1>2
  <2>2. CASE i = Len(delivered)
    BY <1>3, <2>2 DEF Returned
  <2>3. CASE i # Len(delivered)
    <3>1. i \in 1 .. Len(sent) /\ Len(delivered) \in 0 .. i - 1
      BY <1>1, <2>3
    <3>2. Returned < StreamEnd(i)
      BY <3>1 DEF Placed, Returned
    <3> QED
      BY <1>3, <2>1, <3>2
  <2> QED
    BY <2>2, <2>3
<1>5. Flushed = StreamEnd(Len(sent))
  <2>1. Len(ends) = Len(sent) /\ ends \in Seq(Nat)
    BY DEF TypeOK, Placed
  <2>2. CASE ends = <<>>
    <3>1. Len(sent) = 0
      BY <2>1, <2>2
    <3> QED
      BY <2>2, <3>1 DEF Flushed, StreamEnd, EndIn
  <2>3. CASE ends # <<>>
    <3>1. Len(sent) # 0
      BY <2>1, <2>3
    <3> QED
      BY <2>1, <2>3, <3>1 DEF Flushed, StreamEnd, EndIn, Last
  <2> QED
    BY <2>2, <2>3
<1> QED
  BY <1>1, <1>2, <1>3, <1>4, <1>5

\* The bytes of the invariant.
LEMMA Rest ==
  ASSUME TypeOK
  PROVE  /\ Incoming \in Seq(Bytes)
         /\ Decrypt(Incoming, deciphered) \in Seq(Bytes)
         /\ Len(Decrypt(Incoming, deciphered)) = Len(Incoming)
         /\ Pending \in Seq(Bytes) /\ Len(Pending) = Len(buffer) + Len(Incoming)
<1>1. Incoming \in Seq(Bytes)
  <2>1. FlattenSeq(queue) \in Seq(Bytes) /\ wire \in Seq(Bytes)
    BY FlattenType DEF TypeOK
  <2>2. FlattenSeq(queue) \o wire \in Seq(Bytes)
    BY <2>1, Join
  <2> QED
    BY <2>2 DEF Incoming
<1> DEFINE d == Decrypt(Incoming, deciphered)
<1>2. d \in Seq(Bytes) /\ Len(d) = Len(Incoming)
  BY <1>1, CipherType DEF TypeOK
<1> HIDE DEF d
<1>3. buffer \o d \in Seq(Bytes) /\ Len(buffer \o d) = Len(buffer) + Len(d)
  BY <1>2, Join DEF TypeOK
<1> QED
  BY <1>1, <1>2, <1>3 DEF Pending, d

\* The first bytes of what is pending are those of the buffer.
LEMMA BufferFirst ==
  ASSUME TypeOK, NEW a \in Nat, NEW b \in Nat, a <= b, b <= Len(buffer)
  PROVE  SubSeq(Pending, a + 1, b) = SubSeq(buffer, a + 1, b)
<1> DEFINE d == Decrypt(Incoming, deciphered)
<1>1. d \in Seq(Bytes) /\ buffer \in Seq(Bytes)
  BY Rest DEF TypeOK
<1> HIDE DEF d
<1>2. SubSeq(buffer \o d, a + 1, b) = SubSeq(buffer, a + 1, b)
  BY <1>1, SliceOfLeft
<1> QED
  BY <1>2 DEF Pending, d

\* What is pending begins with the next packet, if there is one.
LEMMA FirstPacket ==
  ASSUME IInv, Len(delivered) + 1 \in 1 .. Len(sent)
  PROVE  LET d == Len(delivered)
             e == StreamEnd(d + 1) - Returned
         IN  /\ e \in Nat /\ e >= PacketLenWidth /\ e <= Len(Pending)
             /\ PacketLenWidth + FromLittleEndian(SubSeq(Pending, 1, PacketLenWidth)) = e
             /\ UnpackFrame(SubSeq(Pending, PacketLenWidth + 1, e)) = sent[d + 1]
<1> DEFINE d == Len(delivered)
           e == StreamEnd(d + 1) - Returned
           W == PacketLenWidth
<1>0. TypeOK /\ Placed /\ InOrder /\ RestPending
  BY DEF IInv
<1>1. /\ Len(sent) \in Nat /\ d \in Nat /\ d <= Len(sent)
      /\ \A i \in 0 .. Len(sent) : StreamEnd(i) \in Nat
      /\ Returned \in Nat
  BY <1>0, Ends
<1>2. /\ Pending \in Seq(Bytes) /\ Len(Pending) = Len(buffer) + Len(Incoming)
      /\ Len(buffer) \in Nat /\ Len(Incoming) \in Nat /\ Len(Pending) \in Nat
      /\ W \in Nat /\ W >= 1
  BY <1>0, Rest, PacketFacts DEF TypeOK
<1>3. Returned + Len(Pending) = StreamEnd(Len(sent))
  BY <1>0 DEF RestPending
<1>4. d + 1 \in 1 .. Len(sent) /\ d + 1 \in 0 .. Len(sent)
  BY <1>1
<1>5. Returned < StreamEnd(d + 1)
  <2>1. d \in 0 .. (d + 1) - 1
    BY <1>1
  <2> QED
    BY <1>0, <1>4, <2>1 DEF Placed, Returned
<1>6. StreamEnd(d + 1) <= StreamEnd(Len(sent))
  <2>1. CASE d + 1 = Len(sent)
    BY <1>1, <1>4, <2>1
  <2>2. CASE d + 1 # Len(sent)
    <3>1. Len(sent) \in 1 .. Len(sent) /\ d + 1 \in 0 .. Len(sent) - 1
      BY <1>1, <1>4, <2>2
    <3>2. StreamEnd(d + 1) < StreamEnd(Len(sent))
      BY <1>0, <3>1 DEF Placed
    <3>3. StreamEnd(d + 1) \in Nat /\ StreamEnd(Len(sent)) \in Nat
      <4>1. Len(sent) \in 0 .. Len(sent)
        BY <3>1
      <4> QED
        BY <1>1, <1>4, <4>1
    <3> QED
      BY <3>2, <3>3
  <2> QED
    BY <2>1, <2>2
<1>7. e \in Nat /\ e <= Len(Pending)
  <2>1. StreamEnd(d + 1) \in Nat /\ StreamEnd(Len(sent)) \in Nat
    <3>1. Len(sent) \in 0 .. Len(sent)
      BY <1>1
    <3> QED
      BY <1>1, <1>4, <3>1
  <2> HIDE DEF d
  <2> QED
    BY <1>1, <1>2, <1>3, <1>5, <1>6, <2>1
<1> DEFINE p == SubSeq(Pending, 0 + 1, e)
<1>8. IsPacket(p, sent[d + 1])
  <2>1. d + 1 \in d + 1 .. Len(sent)
    BY <1>1, <1>4
  <2>2. IsPacket(SubSeq(Pending, (StreamEnd((d + 1) - 1) - Returned) + 1,
                        StreamEnd(d + 1) - Returned), sent[d + 1])
    BY <1>0, <2>1 DEF RestPending
  <2>3. StreamEnd((d + 1) - 1) - Returned = 0
    <3>1. (d + 1) - 1 = d
      BY <1>1
    <3>2. StreamEnd(d) = Returned
      BY DEF Returned
    <3> QED
      BY <1>1, <3>1, <3>2
  <2> QED
    BY <2>2, <2>3
<1> HIDE DEF e
<1>9. p \in Seq(Bytes) /\ Len(p) = e
  <2>1. 0 \in Nat /\ 0 <= e /\ e - 0 = e
    BY <1>7
  <2> QED
    BY <1>2, <1>7, <2>1, Slice
<1>10. sent[d + 1] \in Seq(Bytes) /\ Len(sent[d + 1]) \in PayloadSizes
  BY <1>0, <1>4 DEF TypeOK, Placed
<1> DEFINE payload == sent[d + 1]
<1> HIDE DEF p, payload
<1>11. /\ Len(p) >= W
       /\ W + FromLittleEndian(SubSeq(p, 1, W)) = Len(p)
       /\ UnpackFrame(SubSeq(p, W + 1, Len(p))) = payload
  <2>1. p \in Seq(Bytes) /\ payload \in Seq(Bytes) /\ Len(payload) \in PayloadSizes
    BY <1>9, <1>10 DEF payload
  <2>2. IsPacket(p, payload)
    BY <1>8 DEF payload
  <2> QED
    BY <2>1, <2>2, PacketRead
<1>12. SubSeq(p, 0 + 1, W) = SubSeq(Pending, 0 + 1, W)
  <2>1. 0 \in Nat /\ 0 <= e /\ 0 <= W /\ W <= e - 0 /\ 0 + 0 = 0 /\ 0 + W = W
    BY <1>2, <1>7, <1>9, <1>11
  <2>2. SubSeq(p, 0 + 1, W) = SubSeq(Pending, (0 + 0) + 1, 0 + W)
    BY <1>2, <1>7, <2>1, SliceOfSlice DEF p
  <2> QED
    BY <2>1, <2>2
<1>13. W + FromLittleEndian(SubSeq(Pending, 1, W)) = e
  <2>1. SubSeq(p, 1, W) = SubSeq(Pending, 1, W)
    <3>1. 0 + 1 = 1
      OBVIOUS
    <3> QED
      BY <1>12, <3>1
  <2> QED
    BY <1>9, <1>11, <2>1
<1>14. SubSeq(p, W + 1, e) = SubSeq(Pending, W + 1, e)
  <2>1. 0 \in Nat /\ 0 <= e /\ W <= e /\ e <= e - 0 /\ 0 + W = W /\ 0 + e = e
    BY <1>2, <1>7, <1>9, <1>11
  <2>2. SubSeq(p, W + 1, e) = SubSeq(Pending, (0 + W) + 1, 0 + e)
    BY <1>2, <1>7, <2>1, SliceOfSlice DEF p
  <2> QED
    BY <2>1, <2>2
<1> QED
  BY <1>7, <1>9, <1>11, <1>13, <1>14 DEF e, payload

\* Once its length has come, the buffer begins with the next packet, all of it or not.
LEMMA NextPacket ==
  ASSUME IInv, Len(buffer) >= PacketLenWidth
  PROVE  /\ Len(delivered) + 1 \in 1 .. Len(sent)
         /\ Total = StreamEnd(Len(delivered) + 1) - Returned
<1>0. TypeOK /\ Placed /\ InOrder /\ RestPending
  BY DEF IInv
<1> DEFINE d == Len(delivered)
           W == PacketLenWidth
<1>1. Len(sent) \in Nat /\ d \in Nat /\ d <= Len(sent) /\ Returned \in Nat
  BY <1>0, Ends
<1>2. /\ Len(Pending) = Len(buffer) + Len(Incoming)
      /\ Len(buffer) \in Nat /\ Len(Incoming) \in Nat
      /\ W \in Nat /\ W >= 1
  <2>1. Incoming \in Seq(Bytes) /\ buffer \in Seq(Bytes)
    BY <1>0, Rest DEF TypeOK
  <2> QED
    BY <1>0, <2>1, Rest, PacketFacts
<1>3. Returned + Len(Pending) = StreamEnd(Len(sent))
  BY <1>0 DEF RestPending
<1>4. d # Len(sent)
  <2> SUFFICES ASSUME d = Len(sent)
               PROVE  FALSE
    OBVIOUS
  <2>1. Returned = StreamEnd(Len(sent))
    BY DEF Returned
  <2> QED
    BY <1>1, <1>2, <1>3, <2>1
<1>5. d + 1 \in 1 .. Len(sent)
  <2> HIDE DEF d
  <2> QED
    BY <1>1, <1>4
<1>6. W + FromLittleEndian(SubSeq(Pending, 1, W)) = StreamEnd(d + 1) - Returned
  BY <1>5, FirstPacket
<1>7. SubSeq(Pending, 0 + 1, W) = SubSeq(buffer, 0 + 1, W)
  <2>1. 0 \in Nat /\ 0 <= W
    BY <1>2
  <2> QED
    BY <1>0, <1>2, <2>1, BufferFirst
<1>8. SubSeq(Pending, 1, W) = SubSeq(buffer, 1, W)
  <2>1. 0 + 1 = 1
    OBVIOUS
  <2> QED
    BY <1>7, <2>1
<1> QED
  BY <1>5, <1>6, <1>8 DEF Total

\* Nothing is withheld and nothing is out of order where the invariant holds.
LEMMA InvariantSuffices ==
  ASSUME IInv
  PROVE  TypeOK /\ PacketsIntact /\ NothingWithheld
<1>0. TypeOK /\ Placed /\ InOrder /\ RestPending
  BY DEF IInv
<1>1. /\ Len(sent) \in Nat /\ Len(delivered) \in Nat
      /\ \A i \in 0 .. Len(sent) : StreamEnd(i) \in Nat
      /\ Returned \in Nat /\ Len(buffer) \in Nat
  BY <1>0, Ends DEF TypeOK
<1>2. PacketsIntact
  <2>1. SubSeq(delivered, 1, Len(delivered)) = delivered
    BY <1>0, SubSeqFull DEF TypeOK
  <2> QED
    BY <1>0, <2>1 DEF PacketsIntact, IsPrefix, InOrder
<1>3. NothingWithheld
  <2> SUFFICES ASSUME ~HasPacket, NEW i \in DOMAIN ends, ends[i] <= deciphered,
                      ~(i <= Len(delivered))
               PROVE  FALSE
    BY DEF NothingWithheld
  <2> DEFINE d == Len(delivered)
  <2>1. i \in 1 .. Len(sent) /\ i \in 0 .. Len(sent) /\ d + 1 <= i
    <3>1. i \in 1 .. Len(sent)
      BY <1>0 DEF TypeOK, Placed
    <3> QED
      BY <1>1, <3>1
  <2>2. d + 1 \in 1 .. Len(sent) /\ d + 1 \in 0 .. Len(sent)
    BY <1>1, <2>1
  <2>3. StreamEnd(d + 1) <= StreamEnd(i)
    <3>1. CASE d + 1 = i
      BY <1>1, <2>2, <3>1
    <3>2. CASE d + 1 # i
      <4>1. d + 1 \in 0 .. i - 1
        BY <1>1, <2>1, <3>2
      <4>2. StreamEnd(d + 1) < StreamEnd(i)
        BY <1>0, <2>1, <4>1 DEF Placed
      <4>3. StreamEnd(d + 1) \in Nat /\ StreamEnd(i) \in Nat
        BY <1>1, <2>1, <2>2
      <4> QED
        BY <4>2, <4>3
    <3> QED
      BY <3>1, <3>2
  <2>4. StreamEnd(i) = ends[i]
    BY <2>1 DEF StreamEnd, EndIn
  <2>5. StreamEnd(d + 1) <= Returned + Len(buffer)
    <3>1. Returned + Len(buffer) = deciphered
      BY <1>0 DEF RestPending
    <3>2. StreamEnd(d + 1) \in Nat /\ StreamEnd(i) \in Nat
      BY <1>1, <2>1, <2>2
    <3> QED
      BY <1>1, <2>3, <2>4, <3>1, <3>2
  <2>6. PacketLenWidth <= StreamEnd(d + 1) - Returned
    BY <2>2, FirstPacket
  <2>7. StreamEnd(d + 1) \in Nat /\ PacketLenWidth \in Nat
    BY <1>1, <2>2, PacketFacts
  <2>8. Len(buffer) >= PacketLenWidth /\ Len(buffer) >= StreamEnd(d + 1) - Returned
    BY <1>1, <2>5, <2>6, <2>7
  <2>9. Total = StreamEnd(d + 1) - Returned
    BY <2>8, NextPacket
  <2> QED
    BY <2>8, <2>9 DEF HasPacket
<1> QED
  BY <1>0, <1>2, <1>3

-----------------------------------------------------------------------------
(* Every step keeps it. *)

\* It holds at the start.
LEMMA InitSound ==
  ASSUME Init
  PROVE  IInv
<1>1. TypeOK
  <2>1. \A S : <<>> \in Seq(S)
    OBVIOUS
  <2>2. /\ sent = <<>> /\ ends = <<>> /\ wire = <<>> /\ queue = <<>> /\ buffer = <<>>
        /\ deciphered = 0 /\ delivered = <<>> /\ closed = FALSE
    BY DEF Init
  <2>3. <<>> \in Seq(Seq(Bytes)) /\ <<>> \in Seq(Nat) /\ <<>> \in Seq(Bytes)
    BY <2>1
  <2> QED
    BY <2>2, <2>3 DEF TypeOK
<1>2. Len(<<>>) = 0
  OBVIOUS
<1>3. /\ Len(sent) = 0 /\ Len(ends) = 0 /\ Len(delivered) = 0 /\ Len(buffer) = 0
      /\ Len(wire) = 0
  BY <1>2 DEF Init
<1>4. Placed
  BY <1>3 DEF Placed
<1>5. InOrder
  BY <1>3 DEF Init, InOrder
<1>6. Returned = 0 /\ StreamEnd(Len(sent)) = 0
  BY <1>3 DEF Returned, StreamEnd, EndIn
<1>7. Len(Pending) = 0
  <2>1. FlattenSeq(queue) = <<>>
    BY FlattenEmpty DEF Init
  <2>2. Incoming = <<>>
    BY <2>1 DEF Init, Incoming
  <2>3. Len(Pending) = Len(buffer) + Len(Incoming)
    BY <1>1, Rest
  <2> QED
    BY <1>2, <1>3, <2>2, <2>3
<1>8. RestPending
  BY <1>3, <1>6, <1>7 DEF Init, RestPending
<1> QED
  BY <1>1, <1>4, <1>5, <1>8 DEF IInv

\* A step that only moves the stream's bytes, some of them to the buffer, keeps the
\* invariant.
LEMMA BytesMove ==
  ASSUME IInv, TypeOK', UNCHANGED <<sent, ends, delivered>>, Pending' = Pending,
         Returned + Len(buffer') = deciphered'
  PROVE  IInv'
<1>1. Placed /\ InOrder /\ RestPending
  BY DEF IInv
<1>2. sent' = sent /\ ends' = ends /\ delivered' = delivered
  OBVIOUS
<1>3. Placed'
  BY <1>1, <1>2 DEF Placed, StreamEnd, EndIn
<1>4. InOrder'
  BY <1>1, <1>2 DEF InOrder
<1>5. Returned' = Returned
  BY <1>2 DEF Returned, StreamEnd, EndIn
<1>6. RestPending'
  BY <1>1, <1>2, <1>5 DEF RestPending, StreamEnd, EndIn
<1> QED
  BY <1>3, <1>4, <1>6 DEF IInv

\* One that moves them no further than into the queue.
LEMMA BytesWait ==
  ASSUME IInv, TypeOK', UNCHANGED <<sent, ends, delivered, buffer, deciphered>>,
         Incoming' = Incoming
  PROVE  IInv'
<1>1. Pending' = Pending
  BY DEF Pending, Decrypt
<1>2. Returned + Len(buffer') = deciphered'
  BY DEF IInv, RestPending
<1> QED
  BY <1>1, <1>2, BytesMove

\* A batch moves bytes from the wire to the queue, and changes none.
LEMMA BatchArrivesSound ==
  ASSUME IInv, BatchArrives
  PROVE  IInv'
<1>0. TypeOK
  BY DEF IInv
<1>6. PICK k \in 1 .. MaxBatchFrames :
        \E sizes \in [1 .. k -> FrameSizes \cup {0}] : RelaySends(sizes)
  BY DEF BatchArrives
<1>1. PICK sizes \in [1 .. k -> FrameSizes \cup {0}] : RelaySends(sizes)
  BY <1>6
<1>2. /\ queue' \in Seq(Seq(Bytes)) /\ wire' \in Seq(Bytes)
      /\ FlattenSeq(queue') \o wire' = FlattenSeq(queue) \o wire
  BY <1>0, <1>1, RelayKeepsBytes DEF TypeOK
<1>3. UNCHANGED <<sent, ends, buffer, deciphered, delivered, closed>>
  BY <1>1 DEF RelaySends
<1>4. TypeOK'
  BY <1>0, <1>2, <1>3 DEF TypeOK
<1>5. Incoming' = Incoming
  BY <1>2 DEF Incoming
<1> QED
  BY <1>3, <1>4, <1>5, BytesWait

\* The end of the stream comes behind its bytes.
LEMMA StreamEndsSound ==
  ASSUME IInv, StreamEnds
  PROVE  IInv'
<1>0. TypeOK
  BY DEF IInv
<1>1. /\ queue' = Append(queue, Eof) /\ Eof \in Seq(Bytes) /\ queue \in Seq(Seq(Bytes))
      /\ UNCHANGED <<sent, ends, wire, buffer, deciphered, delivered, closed>>
  BY <1>0 DEF StreamEnds, TypeOK, Eof
<1>2. TypeOK'
  BY <1>0, <1>1 DEF TypeOK
<1>3. FlattenSeq(queue') = FlattenSeq(queue)
  <2>1. FlattenSeq(queue') = FlattenSeq(queue) \o Eof
    BY <1>1, FlattenAppend
  <2>2. FlattenSeq(queue) \in Seq(Bytes)
    BY <1>1, FlattenType
  <2>3. FlattenSeq(queue) \o <<>> = FlattenSeq(queue)
    BY <2>2, ConcatEmptySeq
  <2> QED
    BY <2>1, <2>3 DEF Eof
<1>4. Incoming' = Incoming
  BY <1>1, <1>3 DEF Incoming
<1> QED
  BY <1>1, <1>2, <1>4, BytesWait

\* The queue's first chunk is the first of what is to be deciphered.
LEMMA FirstChunk ==
  ASSUME TypeOK, queue # <<>>
  PROVE  /\ Head(queue) \in Seq(Bytes) /\ Tail(queue) \in Seq(Seq(Bytes))
         /\ FlattenSeq(Tail(queue)) \in Seq(Bytes)
         /\ FlattenSeq(Tail(queue)) \o wire \in Seq(Bytes)
         /\ Incoming = Head(queue) \o (FlattenSeq(Tail(queue)) \o wire)
<1>1. Head(queue) \in Seq(Bytes) /\ Tail(queue) \in Seq(Seq(Bytes)) /\ wire \in Seq(Bytes)
  BY DEF TypeOK
<1>2. FlattenSeq(queue) = Head(queue) \o FlattenSeq(Tail(queue))
  BY FlattenHead DEF TypeOK
<1> DEFINE h == Head(queue)
           t == FlattenSeq(Tail(queue))
<1>3. t \in Seq(Bytes) /\ h \in Seq(Bytes)
  BY <1>1, FlattenType
<1>4. Incoming = (h \o t) \o wire
  BY <1>2 DEF Incoming
<1> HIDE DEF h, t
<1>5. t \o wire \in Seq(Bytes)
  BY <1>1, <1>3, Join
<1>6. (h \o t) \o wire = h \o (t \o wire)
  <2>1. h \in Seq(Bytes) /\ t \in Seq(Bytes) /\ wire \in Seq(Bytes)
    BY <1>1, <1>3
  <2> QED
    BY <2>1, ConcatAssociative
<1> QED
  BY <1>1, <1>3, <1>4, <1>5, <1>6 DEF h, t

\* A chunk is deciphered where it was enciphered, and comes behind the buffer.
LEMMA ReadTakesSound ==
  ASSUME IInv, ReadTakes
  PROVE  IInv'
<1>0. TypeOK /\ RestPending
  BY DEF IInv
<1> DEFINE h == Head(queue)
           r == FlattenSeq(Tail(queue)) \o wire
           dh == Decrypt(h, deciphered)
           dr == Decrypt(r, deciphered + Len(h))
<1>1. /\ queue # <<>> /\ buffer' = buffer \o dh /\ deciphered' = deciphered + Len(h)
      /\ queue' = Tail(queue) /\ UNCHANGED <<sent, ends, wire, delivered, closed>>
  BY DEF ReadTakes
<1>2. /\ h \in Seq(Bytes) /\ r \in Seq(Bytes) /\ Tail(queue) \in Seq(Seq(Bytes))
      /\ Incoming = h \o r
  BY <1>0, <1>1, FirstChunk
<1>3. Incoming' = r
  BY <1>1 DEF Incoming
<1>4. deciphered \in Nat /\ buffer \in Seq(Bytes)
  BY <1>0 DEF TypeOK
<1> HIDE DEF h, r
<1>5. dh \in Seq(Bytes) /\ Len(dh) = Len(h)
  BY <1>2, <1>4, CipherType
<1>6. Len(h) \in Nat /\ deciphered + Len(h) \in Nat
  BY <1>2, <1>4
<1>7. dr \in Seq(Bytes)
  BY <1>2, <1>6, CipherType
<1>8. Decrypt(Incoming, deciphered) = dh \o dr
  BY <1>2, <1>4, CipherConcat
<1>9. Decrypt(Incoming', deciphered') = dr
  BY <1>1, <1>3
<1> HIDE DEF dh, dr
<1>10. Pending' = (buffer \o dh) \o dr
  <2>1. Pending' = buffer' \o Decrypt(Incoming', deciphered')
    BY DEF Pending, Decrypt, KeyStream
  <2> QED
    BY <1>1, <1>9, <2>1
<1>11. Pending' = Pending
  <2>1. (buffer \o dh) \o dr = buffer \o (dh \o dr)
    BY <1>4, <1>5, <1>7, ConcatAssociative
  <2> QED
    BY <1>8, <1>10, <2>1 DEF Pending
<1>12. buffer' \in Seq(Bytes) /\ Len(buffer') = Len(buffer) + Len(dh)
  BY <1>1, <1>4, <1>5, Join
<1>13. TypeOK'
  BY <1>0, <1>1, <1>2, <1>6, <1>12 DEF TypeOK
<1>14. Returned + Len(buffer') = deciphered'
  <2>1. Returned + Len(buffer) = deciphered
    BY <1>0 DEF RestPending
  <2>2. Returned \in Nat /\ Len(buffer) \in Nat
    BY <1>4, Ends DEF IInv
  <2> QED
    BY <1>1, <1>5, <1>6, <1>12, <2>1, <2>2
<1> QED
  BY <1>1, <1>11, <1>13, <1>14, BytesMove

\* The end of the stream, once read, changes no byte.
LEMMA ReadRaisesSound ==
  ASSUME IInv, ReadRaises
  PROVE  IInv'
<1>0. TypeOK
  BY DEF IInv
<1>1. /\ queue # <<>> /\ Head(queue) = Eof /\ queue' = Tail(queue) /\ closed' = TRUE
      /\ UNCHANGED <<sent, ends, wire, buffer, deciphered, delivered>>
  BY DEF ReadRaises
<1> DEFINE r == FlattenSeq(Tail(queue)) \o wire
<1>2. r \in Seq(Bytes) /\ Tail(queue) \in Seq(Seq(Bytes)) /\ Incoming = Eof \o r
  BY <1>0, <1>1, FirstChunk
<1>3. Incoming' = r
  BY <1>1 DEF Incoming
<1> HIDE DEF r
<1>4. <<>> \o r = r
  BY <1>2, ConcatEmptySeq
<1>5. Incoming' = Incoming
  BY <1>2, <1>3, <1>4 DEF Eof
<1>6. TypeOK'
  BY <1>0, <1>1, <1>2 DEF TypeOK
<1> QED
  BY <1>1, <1>5, <1>6, BytesWait

\* A packet that is sent comes behind everything that is pending.
LEMMA SendPacketSound ==
  ASSUME IInv,
         NEW payload \in Seq(Bytes), Len(payload) \in PayloadSizes,
         NEW padding \in Seq(Bytes), Len(padding) \in PadSizes(payload),
         SendPacket(payload, padding)
  PROVE  IInv'
<1> DEFINE bytes == PackFrame(payload, padding)
           cipher == Encrypt(bytes, Flushed)
           n == Len(sent)
           d == Len(delivered)
           m == Len(bytes)
<1>0. TypeOK /\ Placed /\ InOrder /\ RestPending
  BY DEF IInv
<1>1. /\ sent' = Append(sent, payload) /\ ends' = Append(ends, Flushed + m)
      /\ wire' = wire \o cipher
      /\ UNCHANGED <<queue, buffer, deciphered, delivered, closed>>
  BY DEF SendPacket
<1>2. bytes \in Seq(Bytes) /\ m \in Nat /\ m >= 1 /\ IsPacket(bytes, payload)
  <2>1. /\ bytes \in Seq(Bytes) /\ IsPacket(bytes, payload)
        /\ m = PacketLenWidth + Len(payload) + Len(padding)
    BY PacketWritten
  <2>2. Len(payload) \in Nat /\ Len(padding) \in Nat
    OBVIOUS
  <2> QED
    BY <2>1, <2>2, PacketFacts
<1>3. /\ n \in Nat /\ d \in Nat /\ d <= n /\ Returned \in Nat
      /\ \A i \in 0 .. n : StreamEnd(i) \in Nat
      /\ \A i \in d .. n : Returned <= StreamEnd(i)
      /\ Flushed = StreamEnd(n) /\ Flushed \in Nat
  <2>1. n \in Nat /\ n \in 0 .. n
    BY <1>0, Ends
  <2> QED
    BY <1>0, <2>1, Ends
<1>4. /\ Incoming \in Seq(Bytes) /\ Pending \in Seq(Bytes)
      /\ Decrypt(Incoming, deciphered) \in Seq(Bytes)
      /\ Len(Pending) = Len(buffer) + Len(Incoming)
      /\ buffer \in Seq(Bytes) /\ deciphered \in Nat /\ wire \in Seq(Bytes)
      /\ queue \in Seq(Seq(Bytes))
  BY <1>0, Rest DEF TypeOK
<1> HIDE DEF bytes
<1>5. cipher \in Seq(Bytes)
  BY <1>2, <1>3, CipherType
<1>6. deciphered + Len(Incoming) = Flushed
  <2>1. Returned + Len(buffer) = deciphered /\ Returned + Len(Pending) = Flushed
    BY <1>0, <1>3 DEF RestPending
  <2>2. /\ Len(buffer) \in Nat /\ Len(Incoming) \in Nat
        /\ Len(Pending) = Len(buffer) + Len(Incoming)
    BY <1>4
  <2>3. Returned \in Nat /\ Flushed \in Nat
    BY <1>3
  <2> QED
    BY <2>1, <2>2, <2>3
<1>7. Decrypt(cipher, Flushed) = bytes
  BY <1>2, <1>3, CipherInverse
<1> HIDE DEF cipher
<1>8. Incoming' = Incoming \o cipher
  <2> DEFINE q == FlattenSeq(queue)
  <2>1. q \in Seq(Bytes)
    BY <1>4, FlattenType
  <2>2. Incoming' = q \o (wire \o cipher)
    BY <1>1 DEF Incoming
  <2>3. Incoming = q \o wire
    BY DEF Incoming
  <2> HIDE DEF q
  <2>4. wire \in Seq(Bytes)
    BY <1>4
  <2>5. (q \o wire) \o cipher = q \o (wire \o cipher)
    BY <1>5, <2>1, <2>4, BytesAssociate
  <2> QED
    BY <2>2, <2>3, <2>5
<1>9. Pending' = Pending \o bytes
  <2> DEFINE r == Decrypt(Incoming, deciphered)
  <2>1. Decrypt(Incoming \o cipher, deciphered) = r \o Decrypt(cipher, deciphered + Len(Incoming))
    BY <1>4, <1>5, CipherConcat
  <2>2. Pending' = buffer' \o Decrypt(Incoming', deciphered')
    BY DEF Pending, Decrypt, KeyStream
  <2>3. buffer \in Seq(Bytes) /\ r \in Seq(Bytes) /\ bytes \in Seq(Bytes)
    BY <1>2, <1>4
  <2>4. Pending = buffer \o r
    BY DEF Pending
  <2> HIDE DEF r
  <2>5. Pending' = buffer \o (r \o bytes)
    BY <1>1, <1>6, <1>7, <1>8, <2>1, <2>2
  <2>6. (buffer \o r) \o bytes = buffer \o (r \o bytes)
    BY <2>3, BytesAssociate, ZenonT(30)
  <2> QED
    BY <2>4, <2>5, <2>6
<1>10. Pending' \in Seq(Bytes) /\ Len(Pending') = Len(Pending) + m
  <2>1. bytes \in Seq(Bytes) /\ Pending \in Seq(Bytes)
    BY <1>2, <1>4
  <2> QED
    BY <1>9, <2>1, Join
<1> HIDE DEF m
<1>11. /\ sent \in Seq(Seq(Bytes)) /\ ends \in Seq(Nat) /\ Len(ends) = n
       /\ Len(sent') = n + 1 /\ Len(ends') = n + 1
       /\ sent' \in Seq(Seq(Bytes)) /\ ends' \in Seq(Nat)
       /\ sent'[n + 1] = payload /\ ends'[n + 1] = Flushed + m
       /\ \A i \in 1 .. n : sent'[i] = sent[i] /\ ends'[i] = ends[i]
  <2>1. sent \in Seq(Seq(Bytes)) /\ ends \in Seq(Nat) /\ Len(ends) = n
    BY <1>0 DEF TypeOK, Placed
  <2>2. Flushed + m \in Nat
    BY <1>2, <1>3
  <2> QED
    BY <1>1, <1>3, <2>1, <2>2, AppendProperties
<1>12. TypeOK'
  <2>1. wire' \in Seq(Bytes)
    BY <1>1, <1>4, <1>5
  <2> QED
    BY <1>0, <1>1, <1>11, <2>1 DEF TypeOK
<1>13. \A i \in 0 .. n : EndIn(ends', i) = StreamEnd(i)
  <2> TAKE i \in 0 .. n
  <2>1. CASE i = 0
    BY <2>1 DEF StreamEnd, EndIn
  <2>2. CASE i # 0
    <3>1. i \in 1 .. n
      BY <1>3, <2>2
    <3> QED
      BY <1>11, <2>2, <3>1 DEF StreamEnd, EndIn
  <2> QED
    BY <2>1, <2>2
<1>14. EndIn(ends', n + 1) = Flushed + m
  <2>1. n + 1 # 0
    BY <1>3
  <2> QED
    BY <1>11, <2>1 DEF StreamEnd, EndIn
<1>15. Returned' = Returned
  <2>1. d \in 0 .. n
    BY <1>3
  <2>2. Returned' = EndIn(ends', d)
    BY <1>1 DEF Returned, StreamEnd
  <2>3. Returned = StreamEnd(d)
    BY DEF Returned
  <2> QED
    BY <1>13, <2>1, <2>2, <2>3
<1>16. Placed'
  <2>1. \A i \in 1 .. n + 1 : Len(sent'[i]) \in PayloadSizes
    <3> TAKE i \in 1 .. n + 1
    <3>1. i = n + 1 \/ i \in 1 .. n
      BY <1>3
    <3> QED
      BY <1>0, <1>11, <3>1 DEF Placed
  <2>2. ASSUME NEW i \in 1 .. n + 1, NEW j \in 0 .. i - 1
        PROVE  EndIn(ends', j) < EndIn(ends', i)
    <3>1. j \in 0 .. n /\ EndIn(ends', j) = StreamEnd(j)
      BY <1>3, <1>13
    <3>2. CASE i \in 1 .. n
      <4>1. StreamEnd(j) < StreamEnd(i) /\ i \in 0 .. n
        BY <1>0, <1>3, <3>2 DEF Placed
      <4> QED
        BY <1>13, <3>1, <4>1
    <3>3. CASE i = n + 1
      <4>1. StreamEnd(j) <= StreamEnd(n)
        <5>1. CASE j = n
          BY <1>3, <3>1, <5>1
        <5>2. CASE j # n
          <6>1. n \in 1 .. n /\ j \in 0 .. n - 1 /\ n \in 0 .. n
            BY <1>3, <3>1, <5>2
          <6>2. StreamEnd(j) < StreamEnd(n)
            BY <1>0, <6>1 DEF Placed
          <6>3. StreamEnd(j) \in Nat /\ StreamEnd(n) \in Nat
            BY <1>3, <3>1, <6>1
          <6> QED
            BY <6>2, <6>3
        <5> QED
          BY <5>1, <5>2
      <4>2. EndIn(ends', i) = Flushed + m
        BY <1>14, <3>3
      <4>3. StreamEnd(j) \in Nat
        BY <1>3, <3>1
      <4> QED
        BY <1>2, <1>3, <3>1, <4>1, <4>2, <4>3 DEF m
    <3>4. i \in 1 .. n \/ i = n + 1
      BY <1>3
    <3> QED
      BY <3>2, <3>3, <3>4
  <2>3. \A i \in 1 .. n + 1 : \A j \in 0 .. i - 1 : EndIn(ends', j) < EndIn(ends', i)
    BY <2>2
  <2>4. Len(sent') = n + 1 /\ Len(ends') = n + 1
    BY <1>11
  <2> QED
    BY <2>1, <2>3, <2>4 DEF Placed, StreamEnd
<1>17. InOrder'
  <2>1. d <= n + 1
    BY <1>3
  <2>2. delivered = SubSeq(sent, 1, d)
    BY <1>0 DEF InOrder
  <2>3. SubSeq(sent', 0 + 1, d) = SubSeq(sent, 0 + 1, d)
    <3>1. <<payload>> \in Seq(Seq(Bytes)) /\ sent' = sent \o <<payload>>
      BY <1>1, <1>11
    <3>2. 0 <= d /\ 0 \in Nat
      BY <1>3
    <3> QED
      BY <1>3, <1>11, <3>1, <3>2, SliceOfLeft
  <2>4. 0 + 1 = 1
    OBVIOUS
  <2>5. SubSeq(sent', 1, d) = SubSeq(sent, 1, d)
    BY <2>3, <2>4
  <2> QED
    BY <1>1, <1>11, <2>1, <2>2, <2>5 DEF InOrder
<1>18. RestPending'
  <2>1. Returned' + Len(buffer') = deciphered'
    BY <1>0, <1>1, <1>15 DEF RestPending
  <2>2. Returned + Len(Pending) = Flushed /\ Len(Pending) \in Nat
    BY <1>0, <1>3, <1>4 DEF RestPending
  <2>3. Returned' + Len(Pending') = EndIn(ends', Len(sent'))
    <3>1. EndIn(ends', Len(sent')) = EndIn(ends', n + 1)
      BY <1>11
    <3>2. Returned + (Len(Pending) + m) = Flushed + m
      BY <1>2, <1>3, <2>2 DEF m
    <3> QED
      BY <1>10, <1>14, <1>15, <3>1, <3>2
  <2>4. ASSUME NEW i \in d + 1 .. n + 1
        PROVE  IsPacket(SubSeq(Pending', (EndIn(ends', i - 1) - Returned) + 1,
                               EndIn(ends', i) - Returned), sent'[i])
    <3>1. CASE i \in d + 1 .. n
      <4>1. i \in 1 .. n /\ i \in 0 .. n /\ i - 1 \in 0 .. n /\ i - 1 \in d .. n /\ i \in d .. n
            /\ i - 1 \in 0 .. i - 1
        BY <1>3, <3>1
      <4> DEFINE a == StreamEnd(i - 1) - Returned
                 b == StreamEnd(i) - Returned
      <4>2. StreamEnd(i - 1) < StreamEnd(i)
        BY <1>0, <4>1 DEF Placed
      <4>3. StreamEnd(i) <= Flushed
        <5>1. CASE i = n
          BY <1>3, <5>1
        <5>2. CASE i # n
          <6>1. n \in 1 .. n /\ i \in 0 .. n - 1
            BY <1>3, <4>1, <5>2
          <6>2. StreamEnd(i) < StreamEnd(n)
            BY <1>0, <6>1 DEF Placed
          <6> QED
            BY <1>3, <4>1, <6>2
        <5> QED
          BY <5>1, <5>2
      <4>4. a \in Nat /\ b \in Nat /\ a <= b /\ b <= Len(Pending)
        <5>1. StreamEnd(i - 1) \in Nat /\ StreamEnd(i) \in Nat
              /\ Returned <= StreamEnd(i - 1) /\ Returned <= StreamEnd(i)
          BY <1>3, <4>1
        <5>2. Returned \in Nat /\ Flushed \in Nat
          BY <1>3
        <5> QED
          BY <2>2, <4>2, <4>3, <5>1, <5>2
      <4>5. IsPacket(SubSeq(Pending, a + 1, b), sent[i])
        BY <1>0, <3>1 DEF RestPending
      <4>6. EndIn(ends', i - 1) - Returned = a /\ EndIn(ends', i) - Returned = b
        BY <1>13, <4>1
      <4> HIDE DEF a, b
      <4>7. SubSeq(Pending', a + 1, b) = SubSeq(Pending, a + 1, b)
        BY <1>2, <1>4, <1>9, <4>4, SliceOfLeft
      <4>8. sent'[i] = sent[i]
        BY <1>11, <4>1
      <4> QED
        BY <4>5, <4>6, <4>7, <4>8
    <3>2. CASE i = n + 1
      <4> DEFINE p == Len(Pending)
      <4>1. EndIn(ends', i - 1) - Returned = p
        <5>1. i - 1 = n /\ n \in 0 .. n
          BY <1>3, <3>2
        <5>2. EndIn(ends', i - 1) = Flushed
          BY <1>3, <1>13, <5>1
        <5> QED
          BY <1>3, <2>2, <5>2
      <4>2. EndIn(ends', i) - Returned = p + m
        <5>1. EndIn(ends', i) = Flushed + m
          BY <1>14, <3>2
        <5> QED
          BY <1>2, <1>3, <2>2, <5>1 DEF m
      <4>3. /\ p \in Nat /\ p + 0 = p /\ 0 \in Nat /\ 0 + 1 = 1
            /\ m \in Nat /\ 0 <= m /\ m <= Len(bytes)
        BY <1>2, <2>2 DEF m
      <4>4. SubSeq(Pending \o bytes, (p + 0) + 1, p + m) = SubSeq(bytes, 0 + 1, m)
        <5>1. /\ Pending \in Seq(Bytes) /\ bytes \in Seq(Bytes)
              /\ 0 \in Nat /\ m \in Nat /\ 0 <= m /\ m <= Len(bytes)
          BY <1>2, <1>4, <4>3
        <5> QED
          BY <5>1, SliceOfRight
      <4>5. SubSeq(bytes, 1, m) = bytes
        BY <1>2, SubSeqFull DEF m
      <4> HIDE DEF p
      <4>6. SubSeq(Pending', p + 1, p + m) = bytes
        BY <1>9, <4>3, <4>4, <4>5
      <4>7. sent'[i] = payload
        BY <1>11, <3>2
      <4> QED
        BY <1>2, <4>1, <4>2, <4>6, <4>7
    <3>3. i \in d + 1 .. n \/ i = n + 1
      BY <1>3
    <3> QED
      BY <3>1, <3>2, <3>3
  <2>5. \A i \in d + 1 .. n + 1 :
          IsPacket(SubSeq(Pending', (EndIn(ends', i - 1) - Returned') + 1,
                          EndIn(ends', i) - Returned'), sent'[i])
    BY <1>15, <2>4
  <2>6. Len(delivered') = d /\ Len(sent') = n + 1
    BY <1>1, <1>11
  <2> QED
    BY <2>1, <2>3, <2>5, <2>6 DEF RestPending, StreamEnd
<1> QED
  BY <1>12, <1>16, <1>17, <1>18 DEF IInv

\* The far end sends a packet as pack_frame makes it.
LEMMA PeerSendsSound ==
  ASSUME IInv, PeerSends
  PROVE  IInv'
<1>1. \A size, k \in Nat : Filled(size, k) \in Seq(Bytes) /\ Len(Filled(size, k)) = size
  <2> TAKE size, k \in Nat
  <2>1. k % Base \in Bytes
    BY Division
  <2>2. Filled(size, k) \in [1 .. size -> Bytes]
    BY <2>1 DEF Filled
  <2> QED
    BY <2>2
<1>2. Len(sent) \in Nat /\ Len(sent) + 1 \in Nat
  BY DEF IInv, TypeOK
<1>3. PICK size \in PayloadSizes :
        \E pad \in PadSizes(Filled(size, Len(sent))) :
          SendPacket(Filled(size, Len(sent)), Filled(pad, Len(sent) + 1))
  BY DEF PeerSends
<1>4. PICK pad \in PadSizes(Filled(size, Len(sent))) :
        SendPacket(Filled(size, Len(sent)), Filled(pad, Len(sent) + 1))
  BY <1>3
<1>5. size \in Nat /\ pad \in Nat
  <2>1. pad \in 0 .. 3
    BY DEF PadSizes
  <2> QED
    BY <2>1, PacketFacts
<1> DEFINE payload == Filled(size, Len(sent))
           padding == Filled(pad, Len(sent) + 1)
<1>6. /\ payload \in Seq(Bytes) /\ Len(payload) \in PayloadSizes
      /\ padding \in Seq(Bytes) /\ Len(padding) \in PadSizes(payload)
  BY <1>1, <1>2, <1>5
<1>7. SendPacket(payload, padding)
  BY <1>4
<1> HIDE DEF payload, padding
<1> QED
  BY <1>6, <1>7, SendPacketSound

\* The end of what two sequences make.
LEMMA EndOfJoin ==
  ASSUME NEW S, NEW s \in Seq(S), NEW t \in Seq(S), NEW e \in Nat, e <= Len(s)
  PROVE  SubSeq(s, e + 1, Len(s)) \o t = SubSeq(s \o t, e + 1, Len(s \o t))
<1> DEFINE n == Len(s)
           w == s \o t
           l == SubSeq(s, e + 1, n)
           u == l \o t
           v == SubSeq(w, e + 1, Len(w))
<1>1. /\ w \in Seq(S) /\ Len(w) = n + Len(t) /\ n \in Nat /\ Len(t) \in Nat
      /\ \A i \in 1 .. n : w[i] = s[i]
      /\ \A i \in 1 .. Len(t) : w[n + i] = t[i]
  OBVIOUS
<1>2. l \in Seq(S) /\ Len(l) = n - e /\ \A i \in 1 .. n - e : l[i] = s[e + i]
  <2>1. n \in Nat /\ n <= Len(s)
    BY <1>1
  <2> QED
    BY <2>1, Slice
<1> HIDE DEF w, l, n
<1>3. v \in Seq(S) /\ Len(v) = Len(w) - e /\ \A i \in 1 .. Len(w) - e : v[i] = w[e + i]
  <2>1. Len(w) \in Nat /\ e <= Len(w) /\ Len(w) <= Len(w)
    BY <1>1 DEF n
  <2> QED
    BY <1>1, <2>1, Slice
<1>4. /\ u \in Seq(S) /\ Len(u) = Len(l) + Len(t)
      /\ \A i \in 1 .. Len(l) : u[i] = l[i]
      /\ \A i \in 1 .. Len(t) : u[Len(l) + i] = t[i]
  <2>1. l \in Seq(S)
    BY <1>2
  <2> QED
    BY <2>1, Join
<1> HIDE DEF u, v
<1>5. e <= n /\ Len(u) = Len(v) /\ Len(u) = (n - e) + Len(t)
  BY <1>1, <1>2, <1>3, <1>4 DEF n
<1>6. \A i \in 1 .. Len(u) : u[i] = v[i]
  <2> TAKE i \in 1 .. Len(u)
  <2>0. i \in 1 .. (n - e) + Len(t) /\ i \in 1 .. Len(w) - e
    BY <1>1, <1>3, <1>5
  <2>1. CASE i <= n - e
    <3>1. i \in 1 .. n - e /\ e + i \in 1 .. n /\ i \in 1 .. Len(l)
      BY <1>1, <1>2, <1>5, <2>0, <2>1
    <3>2. u[i] = s[e + i]
      BY <1>2, <1>4, <3>1
    <3>3. v[i] = s[e + i]
      BY <1>1, <1>3, <2>0, <3>1
    <3> QED
      BY <3>2, <3>3
  <2>2. CASE n - e < i
    <3> DEFINE j == i - (n - e)
    <3>1. j \in 1 .. Len(t) /\ Len(l) + j = i /\ n + j = e + i
      BY <1>1, <1>2, <1>5, <2>0, <2>2
    <3> HIDE DEF j
    <3>2. u[i] = t[j]
      BY <1>4, <3>1
    <3>3. v[i] = t[j]
      BY <1>1, <1>3, <2>0, <3>1
    <3> QED
      BY <3>2, <3>3
  <2> QED
    BY <1>1, <1>5, <2>0, <2>1, <2>2
<1>7. u = v
  BY <1>3, <1>4, <1>5, <1>6, SeqEqual
<1> QED
  BY <1>7 DEF u, v, w, l, n

\* One more of a sequence.
LEMMA OneMore ==
  ASSUME NEW S, NEW s \in Seq(S), NEW k \in Nat, k + 1 <= Len(s)
  PROVE  Append(SubSeq(s, 1, k), s[k + 1]) = SubSeq(s, 1, k + 1)
<1> DEFINE l == SubSeq(s, 0 + 1, k)
           w == SubSeq(s, 0 + 1, k + 1)
           u == Append(l, s[k + 1])
<1>0. 0 \in Nat /\ 0 <= k /\ k <= Len(s) /\ 0 <= k + 1 /\ k + 1 \in Nat /\ k - 0 = k
      /\ (k + 1) - 0 = k + 1
  OBVIOUS
<1>1. l \in Seq(S) /\ Len(l) = k /\ \A i \in 1 .. k : l[i] = s[0 + i]
  BY <1>0, Slice
<1>2. w \in Seq(S) /\ Len(w) = k + 1 /\ \A i \in 1 .. k + 1 : w[i] = s[0 + i]
  BY <1>0, Slice
<1> HIDE DEF l, w
<1>3. /\ u \in Seq(S) /\ Len(u) = k + 1 /\ u[k + 1] = s[k + 1]
      /\ \A i \in 1 .. k : u[i] = l[i]
  <2>1. s[k + 1] \in S
    OBVIOUS
  <2> QED
    BY <1>1, <2>1, AppendProperties
<1> HIDE DEF u
<1>4. \A i \in 1 .. Len(u) : u[i] = w[i]
  <2> TAKE i \in 1 .. Len(u)
  <2>1. i \in 1 .. k + 1 /\ 0 + i = i
    BY <1>3
  <2>2. i = k + 1 \/ i \in 1 .. k
    BY <2>1
  <2> QED
    BY <1>1, <1>2, <1>3, <2>1, <2>2
<1>5. u = w
  BY <1>2, <1>3, <1>4, SeqEqual
<1>6. 0 + 1 = 1
  OBVIOUS
<1> QED
  BY <1>5, <1>6 DEF u, w, l

\* What read() returns is the next packet, and the rest stays pending.
LEMMA ReadReturnsSound ==
  ASSUME IInv, ReadReturns
  PROVE  IInv'
<1> DEFINE d == Len(delivered)
           e == StreamEnd(d + 1) - Returned
           W == PacketLenWidth
<1>0. TypeOK /\ Placed /\ InOrder /\ RestPending
  BY DEF IInv
<1>1. /\ Len(buffer) >= W /\ Len(buffer) >= Total
      /\ delivered' = Append(delivered, UnpackFrame(Body))
      /\ buffer' = SubSeq(buffer, Cut + 1, Len(buffer))
      /\ sent' = sent /\ ends' = ends /\ wire' = wire /\ queue' = queue
      /\ deciphered' = deciphered /\ closed' = closed
  BY DEF ReadReturns, HasPacket
<1>2. d + 1 \in 1 .. Len(sent) /\ Total = e
  BY <1>1, NextPacket
<1>3. /\ e \in Nat /\ e >= W /\ e <= Len(Pending)
      /\ UnpackFrame(SubSeq(Pending, W + 1, e)) = sent[d + 1]
  BY <1>2, FirstPacket
<1>4. /\ Len(sent) \in Nat /\ d \in Nat /\ d <= Len(sent) /\ Returned \in Nat
      /\ \A i \in 0 .. Len(sent) : StreamEnd(i) \in Nat
  BY <1>0, Ends
<1>5. /\ Incoming \in Seq(Bytes) /\ Pending \in Seq(Bytes)
      /\ Decrypt(Incoming, deciphered) \in Seq(Bytes)
      /\ buffer \in Seq(Bytes) /\ Len(buffer) \in Nat /\ Len(Pending) \in Nat
      /\ W \in Nat
  BY <1>0, Rest, PacketFacts DEF TypeOK
<1> HIDE DEF e
<1>6. Cut = e /\ e <= Len(buffer)
  BY <1>1, <1>2, <1>3 DEF Cut
<1>7. UnpackFrame(Body) = sent[d + 1]
  <2>1. SubSeq(Pending, W + 1, e) = SubSeq(buffer, W + 1, e)
    BY <1>0, <1>3, <1>5, <1>6, BufferFirst
  <2> QED
    BY <1>3, <1>6, <2>1 DEF Body
<1>8. delivered' = Append(delivered, sent[d + 1]) /\ buffer' = SubSeq(buffer, e + 1, Len(buffer))
  BY <1>1, <1>6, <1>7
<1>9. sent \in Seq(Seq(Bytes)) /\ sent[d + 1] \in Seq(Bytes) /\ delivered \in Seq(Seq(Bytes))
  BY <1>0, <1>2 DEF TypeOK
<1>10. delivered' \in Seq(Seq(Bytes)) /\ Len(delivered') = d + 1
  BY <1>8, <1>9
<1>11. buffer' \in Seq(Bytes) /\ Len(buffer') = Len(buffer) - e
  <2>1. /\ buffer \in Seq(Bytes) /\ e \in Nat /\ Len(buffer) \in Nat
        /\ e <= Len(buffer) /\ Len(buffer) <= Len(buffer)
    BY <1>3, <1>5, <1>6
  <2>2. /\ SubSeq(buffer, e + 1, Len(buffer)) \in Seq(Bytes)
        /\ Len(SubSeq(buffer, e + 1, Len(buffer))) = Len(buffer) - e
    BY <2>1, Slice
  <2> QED
    BY <1>8, <2>2
<1>12. TypeOK'
  BY <1>0, <1>1, <1>10, <1>11 DEF TypeOK
<1>13. Placed'
  BY <1>0, <1>1 DEF Placed, StreamEnd, EndIn
<1>14. InOrder'
  <2>1. delivered = SubSeq(sent, 1, d)
    BY <1>0 DEF InOrder
  <2>2. d + 1 <= Len(sent)
    BY <1>2, <1>4
  <2>3. Append(SubSeq(sent, 1, d), sent[d + 1]) = SubSeq(sent, 1, d + 1)
    BY <1>4, <1>9, <2>2, OneMore
  <2> QED
    BY <1>1, <1>8, <1>10, <2>1, <2>2, <2>3 DEF InOrder
<1>15. Returned' = Returned + e
  <2>1. Returned' = StreamEnd(d + 1)
    BY <1>1, <1>10 DEF Returned, StreamEnd
  <2>2. StreamEnd(d + 1) \in Nat
    <3>1. d + 1 \in 0 .. Len(sent)
      BY <1>2, <1>4
    <3> QED
      BY <1>4, <3>1
  <2> QED
    BY <1>4, <2>1, <2>2 DEF e
<1>16. Pending' = SubSeq(Pending, e + 1, Len(Pending))
  <2> DEFINE r == Decrypt(Incoming, deciphered)
  <2>1. Pending' = buffer' \o Decrypt(Incoming', deciphered')
    BY DEF Pending, Decrypt, KeyStream
  <2>2. Incoming' = Incoming
    BY <1>1 DEF Incoming
  <2>3. Pending = buffer \o r
    BY DEF Pending
  <2>4. r \in Seq(Bytes)
    BY <1>5
  <2>5. Pending' = buffer' \o r
    BY <1>1, <2>1, <2>2
  <2> HIDE DEF r
  <2>6. buffer \in Seq(Bytes) /\ e \in Nat /\ e <= Len(buffer)
    BY <1>3, <1>5, <1>6
  <2>7. SubSeq(buffer, e + 1, Len(buffer)) \o r = SubSeq(buffer \o r, e + 1, Len(buffer \o r))
    BY <2>4, <2>6, EndOfJoin
  <2> QED
    BY <1>8, <2>3, <2>5, <2>7
<1>17. Len(Pending') = Len(Pending) - e
  <2>1. Len(SubSeq(Pending, e + 1, Len(Pending))) = Len(Pending) - e
    <3>1. Pending \in Seq(Bytes) /\ e \in Nat /\ Len(Pending) \in Nat /\ e <= Len(Pending)
          /\ Len(Pending) <= Len(Pending)
      BY <1>3, <1>5
    <3> QED
      BY <3>1, Slice
  <2> QED
    BY <1>16, <2>1
<1>18. RestPending'
  <2>1. Returned + Len(buffer) = deciphered /\ Returned + Len(Pending) = StreamEnd(Len(sent))
    BY <1>0 DEF RestPending
  <2>2. Returned' + Len(buffer') = deciphered'
    <3>1. \A x, y, z \in Nat : (x + z) + (y - z) = x + y
      OBVIOUS
    <3>2. Returned \in Nat /\ Len(buffer) \in Nat /\ e \in Nat
      BY <1>3, <1>4, <1>5
    <3>3. (Returned + e) + (Len(buffer) - e) = Returned + Len(buffer)
      BY <3>1, <3>2
    <3> QED
      BY <1>1, <1>11, <1>15, <2>1, <3>3
  <2>3. Returned' + Len(Pending') = StreamEnd(Len(sent))
    BY <1>3, <1>4, <1>5, <1>15, <1>17, <2>1
  <2>4. ASSUME NEW i \in d + 2 .. Len(sent)
        PROVE  IsPacket(SubSeq(Pending', (StreamEnd(i - 1) - Returned') + 1,
                               StreamEnd(i) - Returned'), sent[i])
    <3>1. /\ i \in 1 .. Len(sent) /\ i \in 0 .. Len(sent) /\ i - 1 \in 0 .. Len(sent)
          /\ i \in d + 1 .. Len(sent) /\ d + 1 \in 0 .. i - 1 /\ i - 1 \in 0 .. i - 1
          /\ d + 1 \in 0 .. Len(sent)
      BY <1>4
    <3> DEFINE a == StreamEnd(i - 1) - Returned'
               b == StreamEnd(i) - Returned'
    <3>2. StreamEnd(i - 1) < StreamEnd(i)
      BY <1>0, <3>1 DEF Placed
    <3>3. StreamEnd(i - 1) \in Nat /\ StreamEnd(i) \in Nat /\ StreamEnd(d + 1) \in Nat
      BY <1>4, <3>1
    <3>4. StreamEnd(d + 1) <= StreamEnd(i - 1)
      <4>1. CASE d + 1 = i - 1
        BY <3>3, <4>1
      <4>2. CASE d + 1 # i - 1
        <5>1. d + 1 \in 0 .. (i - 1) - 1 /\ i - 1 \in 1 .. Len(sent)
          BY <1>4, <3>1, <4>2
        <5>2. StreamEnd(d + 1) < StreamEnd(i - 1)
          BY <1>0, <5>1 DEF Placed
        <5> QED
          BY <3>3, <5>2
      <4> QED
        BY <4>1, <4>2
    <3>5. StreamEnd(i) <= StreamEnd(Len(sent))
      <4>1. CASE i = Len(sent)
        BY <3>3, <4>1
      <4>2. CASE i # Len(sent)
        <5>1. Len(sent) \in 1 .. Len(sent) /\ i \in 0 .. Len(sent) - 1
              /\ Len(sent) \in 0 .. Len(sent)
          BY <1>4, <3>1, <4>2
        <5>2. StreamEnd(i) < StreamEnd(Len(sent))
          BY <1>0, <5>1 DEF Placed
        <5>3. StreamEnd(Len(sent)) \in Nat
          BY <1>4, <5>1
        <5> QED
          BY <3>3, <5>2, <5>3
      <4> QED
        BY <4>1, <4>2
    <3>6. Returned + e = StreamEnd(d + 1)
      BY <1>4, <3>3 DEF e
    <3>7. /\ a \in Nat /\ b \in Nat /\ a <= b /\ b <= Len(Pending) - e
          /\ StreamEnd(i - 1) - Returned = e + a /\ StreamEnd(i) - Returned = e + b
      <4>1. \A x, z, u, v, l \in Nat :
              x + z <= u /\ u < v /\ v <= x + l =>
                /\ u - (x + z) \in Nat /\ v - (x + z) \in Nat
                /\ u - (x + z) <= v - (x + z) /\ v - (x + z) <= l - z
                /\ u - x = z + (u - (x + z)) /\ v - x = z + (v - (x + z))
        OBVIOUS
      <4>2. /\ Returned \in Nat /\ e \in Nat /\ Len(Pending) \in Nat
            /\ StreamEnd(i - 1) \in Nat /\ StreamEnd(i) \in Nat
        BY <1>3, <1>4, <1>5, <3>3
      <4>3. /\ Returned + e <= StreamEnd(i - 1) /\ StreamEnd(i - 1) < StreamEnd(i)
            /\ StreamEnd(i) <= Returned + Len(Pending)
        BY <2>1, <3>2, <3>4, <3>5, <3>6
      <4>4. a = StreamEnd(i - 1) - (Returned + e) /\ b = StreamEnd(i) - (Returned + e)
        BY <1>15
      <4> HIDE DEF a, b
      <4> QED
        BY <4>1, <4>2, <4>3, <4>4
    <3>8. IsPacket(SubSeq(Pending, (StreamEnd(i - 1) - Returned) + 1, StreamEnd(i) - Returned),
                   sent[i])
      BY <1>0, <3>1 DEF RestPending
    <3> HIDE DEF a, b
    <3>9. SubSeq(Pending', a + 1, b) = SubSeq(Pending, (e + a) + 1, e + b)
      <4>1. /\ Pending \in Seq(Bytes) /\ e \in Nat /\ Len(Pending) \in Nat
            /\ e <= Len(Pending) /\ Len(Pending) <= Len(Pending)
        BY <1>3, <1>5
      <4>2. a \in Nat /\ b \in Nat /\ a <= b /\ b <= Len(Pending) - e
        BY <3>7
      <4>3. SubSeq(SubSeq(Pending, e + 1, Len(Pending)), a + 1, b)
              = SubSeq(Pending, (e + a) + 1, e + b)
        BY <4>1, <4>2, SliceOfSlice
      <4> QED
        BY <1>16, <4>3
    <3>10. IsPacket(SubSeq(Pending', a + 1, b), sent[i])
      BY <3>7, <3>8, <3>9
    <3> QED
      BY <3>10 DEF a, b
  <2>5. Len(delivered') + 1 = d + 2 /\ sent' = sent /\ ends' = ends
    BY <1>1, <1>4, <1>10
  <2>6. \A i \in Len(delivered') + 1 .. Len(sent') :
          IsPacket(SubSeq(Pending', (EndIn(ends', i - 1) - Returned') + 1,
                          EndIn(ends', i) - Returned'), sent'[i])
    BY <2>4, <2>5 DEF StreamEnd
  <2>7. Returned' + Len(Pending') = EndIn(ends', Len(sent'))
    BY <2>3, <2>5 DEF StreamEnd
  <2> QED
    BY <2>2, <2>6, <2>7 DEF RestPending, StreamEnd
<1> QED
  BY <1>12, <1>13, <1>14, <1>18 DEF IInv

-----------------------------------------------------------------------------
(* The theorems. *)

\* The invariant holds in every state of every stream, for every alphabet, every
\* width of the fields, every size of the packets and of the relay's frames.
THEOREM Inductive == Spec => []IInv
<1>1. Init => IInv
  BY InitSound
<1>2. IInv /\ [Next]_vars => IInv'
  <2> SUFFICES ASSUME IInv, [Next]_vars
               PROVE  IInv'
    OBVIOUS
  <2>1. CASE PeerSends
    BY <2>1, PeerSendsSound
  <2>2. CASE BatchArrives
    BY <2>2, BatchArrivesSound
  <2>3. CASE StreamEnds
    BY <2>3, StreamEndsSound
  <2>4. CASE ReadReturns
    BY <2>4, ReadReturnsSound
  <2>5. CASE ReadTakes
    BY <2>5, ReadTakesSound
  <2>6. CASE ReadRaises
    BY <2>6, ReadRaisesSound
  <2>7. CASE UNCHANGED vars
    <3>1. UNCHANGED <<sent, ends, wire, queue, buffer, deciphered, delivered, closed>>
      BY <2>7 DEF vars
    <3>2. TypeOK'
      BY <3>1 DEF IInv, TypeOK
    <3>3. Incoming' = Incoming
      BY <3>1 DEF Incoming
    <3> QED
      BY <3>1, <3>2, <3>3, BytesWait
  <2> QED
    BY <2>1, <2>2, <2>3, <2>4, <2>5, <2>6, <2>7 DEF Next
<1> QED
  BY <1>1, <1>2, PTL DEF Spec

\* The stream's state has its type, a deciphered byte is a byte and a packet that is
\* returned is made of bytes (decrypt, unpack_frame).
THEOREM StreamTyped == Spec => []TypeOK
<1>1. IInv => TypeOK
  BY InvariantSuffices
<1> QED
  BY <1>1, Inductive, PTL

\* read() returns the packets that were sent, whole and in order, however they are
\* padded, enciphered, cut into frames and batches, and queued.
THEOREM PacketsStayIntact == Spec => []PacketsIntact
<1>1. IInv => PacketsIntact
  BY InvariantSuffices
<1> QED
  BY <1>1, Inductive, PTL

\* A reader that waits, or has raised, has returned each packet it was given.
THEOREM PacketsAreReturned == Spec => []NothingWithheld
<1>1. IInv => NothingWithheld
  BY InvariantSuffices
<1> QED
  BY <1>1, Inductive, PTL
=============================================================================
