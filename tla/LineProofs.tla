------------------------------ MODULE LineProofs ------------------------------
(***************************************************************************)
(* Theorems about the serial line, for any messages, reads and faults: what*)
(* the I/O thread cuts out of its buffer is what the whole stream says, and*)
(* a fault takes no frame beyond the reach of the length byte it spoiled.  *)
(***************************************************************************)
EXTENDS SerialLine, FiniteSetTheorems, SequenceTheorems, WellFoundedInduction, TLAPS

-----------------------------------------------------------------------------
(* Functions by recursion *)

\* What holds of zero, and of the next number whenever it holds of one, holds of all.
LEMMA Upwards ==
  ASSUME NEW n \in Nat, NEW M \in SUBSET (0..n), 0 \in M,
         \A m \in 1..n : m - 1 \in M => m \in M
  PROVE  M = 0..n
<1>1. SUFFICES ASSUME (0..n) \ M # {} PROVE FALSE
  OBVIOUS
<1>2. IsWellFoundedOn(OpToRel(<, Nat), Nat)
  BY NatLessThanWellFounded
<1>3. (0..n) \ M \in SUBSET Nat /\ (0..n) \ M # {}
  BY <1>1
<1>4. PICK m \in (0..n) \ M : \A y \in (0..n) \ M : ~ (<<y, m>> \in OpToRel(<, Nat))
  BY <1>2, <1>3, WFMin
<1>5. m \in 0..n /\ m # 0 /\ m \notin M
  OBVIOUS
<1>6. m \in 1..n /\ m - 1 \in 0..n /\ m - 1 \in Nat /\ m \in Nat /\ m - 1 < m
  BY <1>5
<1>7. m - 1 \notin M
  BY <1>5, <1>6
<1>8. <<m - 1, m>> \in OpToRel(<, Nat)
  BY <1>6 DEF OpToRel
<1> QED
  BY <1>4, <1>6, <1>7, <1>8

\* What makes the next value of each, n times
MakesNext(next, n, D) == next \in [1..n -> [D -> D]]

\* The values from a first one on
Goes(f, n, D, first, next) ==
  f \in [0..n -> D] /\ f[0] = first /\ \A k \in 1..n : f[k] = next[k][f[k - 1]]

\* A first value and what makes the next one of each give a function.
LEMMA Recursion ==
  ASSUME NEW n \in Nat, NEW D, NEW first \in D, NEW next, MakesNext(next, n, D)
  PROVE  \E f : Goes(f, n, D, first, next)
<1> DEFINE Good(f, m) == f[0] = first /\ \A k \in 1..n : k <= m => f[k] = next[k][f[k - 1]]
           M == {m \in 0..n : \E f \in [0..n -> D] : Good(f, m)}
<1> USE DEF MakesNext
<1>1. 0 \in M
  <2>1. [k \in 0..n |-> first] \in [0..n -> D] /\ Good([k \in 0..n |-> first], 0)
    OBVIOUS
  <2> QED
    BY <2>1
<1>2. ASSUME NEW m \in 1..n, m - 1 \in M PROVE m \in M
  <2>1. PICK f \in [0..n -> D] : Good(f, m - 1)
    BY <1>2
  <2>2. m - 1 \in 0..n /\ m \in 0..n /\ m # 0
    OBVIOUS
  <2>3. PICK v \in D : v = next[m][f[m - 1]]
    BY <2>2
  <2>4. PICK g : g = [k \in 0..n |-> IF k = m THEN v ELSE f[k]]
    OBVIOUS
  <2>5. g \in [0..n -> D]
    BY <2>4
  <2>6. g[0] = first
    BY <2>1, <2>2, <2>4
  <2>7. ASSUME NEW k \in 1..n, k <= m PROVE g[k] = next[k][g[k - 1]]
    <3>1. k - 1 \in 0..n /\ k - 1 # m /\ k \in 0..n
      BY <2>7
    <3>2. g[k - 1] = f[k - 1]
      BY <2>4, <3>1
    <3>3. CASE k = m
      BY <2>2, <2>3, <2>4, <3>2, <3>3
    <3>4. CASE k # m
      <4>1. k <= m - 1
        BY <2>7, <3>4
      <4>2. g[k] = f[k]
        BY <2>4, <3>1, <3>4
      <4> QED
        BY <2>1, <3>2, <4>1, <4>2
    <3> QED
      BY <3>3, <3>4
  <2> QED
    BY <2>2, <2>5, <2>6, <2>7
<1>3. M = 0..n
  <2> HIDE DEF M
  <2>1. M \in SUBSET (0..n)
    BY DEF M
  <2> QED
    BY <1>1, <1>2, <2>1, Upwards
<1>4. PICK f \in [0..n -> D] : Good(f, n)
  <2>1. n \in 0..n
    OBVIOUS
  <2> QED
    BY <1>3, <2>1
<1>5. f[0] = first /\ \A k \in 1..n : f[k] = next[k][f[k - 1]]
  <2>1. \A k \in 1..n : k <= n
    OBVIOUS
  <2> HIDE DEF M
  <2> QED
    BY <1>4, <2>1
<1> QED
  BY <1>4, <1>5, Zenon DEF Goes

-----------------------------------------------------------------------------
(* Sequences of a known length *)

\* The elements of two sequences, one behind the other
LEMMA ConcatAt ==
  ASSUME NEW S, NEW s \in Seq(S), NEW t \in Seq(S),
         NEW m \in Nat, m = Len(s), NEW n \in Nat, n = Len(t)
  PROVE  /\ s \o t \in Seq(S)
         /\ Len(s \o t) = m + n
         /\ \A i \in 1..m : (s \o t)[i] = s[i]
         /\ \A i \in 1..n : (s \o t)[m + i] = t[i]
<1>1. /\ s \o t \in Seq(S)
      /\ Len(s \o t) = m + n
      /\ \A i \in 1..(m + n) : (s \o t)[i] = IF i <= m THEN s[i] ELSE t[i - m]
  BY ConcatProperties
<1>2. \A i \in 1..m : i \in 1..(m + n) /\ i <= m
  OBVIOUS
<1>3. \A i \in 1..n : m + i \in 1..(m + n) /\ ~ (m + i <= m) /\ m + i - m = i
  OBVIOUS
<1>4. ASSUME NEW i \in 1..n PROVE (s \o t)[m + i] = t[i]
  <2>1. PICK j \in 1..(m + n) : j = m + i /\ ~ (j <= m) /\ j - m = i
    BY <1>3
  <2> QED
    BY <1>1, <2>1
<1> QED
  BY <1>1, <1>2, <1>4

\* The elements of a part of a sequence
LEMMA SubSeqAt ==
  ASSUME NEW S, NEW s \in Seq(S), NEW a \in Nat \ {0}, NEW b \in Nat, a <= b + 1,
         b <= Len(s), NEW n \in Nat, n = b + 1 - a
  PROVE  /\ SubSeq(s, a, b) \in Seq(S)
         /\ Len(SubSeq(s, a, b)) = n
         /\ \A i \in 1..n : SubSeq(s, a, b)[i] = s[a + i - 1]
<1>1. PICK m \in Nat : m = Len(s) /\ \A i \in 1..m : s[i] \in S
  BY ElementOfSeq
<1>2. \A i \in a..b : i \in 1..m
  BY <1>1
<1>3. \A i \in a..b : s[i] \in S
  BY <1>1, <1>2
<1>4. a \in Int /\ b \in Int /\ b - a + 1 = n /\ (IF a <= b THEN b - a + 1 ELSE 0) = n
  OBVIOUS
<1>5. /\ SubSeq(s, a, b) \in Seq(S)
      /\ Len(SubSeq(s, a, b)) = IF a <= b THEN b - a + 1 ELSE 0
      /\ \A i \in 1..(b - a + 1) : SubSeq(s, a, b)[i] = s[a + i - 1]
  BY <1>3, <1>4, SubSeqProperties
<1> QED
  BY <1>4, <1>5

\* Sequences with the same length and elements are the same.
LEMMA SameSeq ==
  ASSUME NEW S, NEW s \in Seq(S), NEW t \in Seq(S),
         NEW n \in Nat, n = Len(s), n = Len(t), \A i \in 1..n : s[i] = t[i]
  PROVE  s = t
BY SeqEqual

\* The elements of a sequence with one more
LEMMA AppendAt ==
  ASSUME NEW S, NEW s \in Seq(S), NEW x \in S, NEW n \in Nat, n = Len(s)
  PROVE  /\ Append(s, x) \in Seq(S)
         /\ Len(Append(s, x)) = n + 1
         /\ \A i \in 1..n : Append(s, x)[i] = s[i]
         /\ Append(s, x)[n + 1] = x
BY AppendProperties

-----------------------------------------------------------------------------
(* Bytes and frames *)

\* What a frame is made of
Frame == [kind : Kinds, sequence : Char, payload : Seq(Char)]

\* A checksum is a byte.
LEMMA CrcIsByte ==
  ASSUME NEW bytes \in Seq(Char), bytes # <<>>
  PROVE  Crc(bytes) \in Char
<1>1. PICK n \in Nat \ {0} : n = Len(bytes)
  BY EmptySeq
<1>2. PICK m \in Nat : m = n - 1
  OBVIOUS
<1>3. \A i \in 1..n : bytes[i] \in Char
  BY <1>1, ElementOfSeq
<1>4. \A v, b \in Char : v \o b \in Char
  <2>1. \A v, b \in Char : v \in Seq(Nat) /\ b \in Seq(Nat) /\ b # <<>>
    BY DEF Char
  <2> QED
    BY <2>1, ConcatProperties, ConcatEqualIffEmpty DEF Char
<1> DEFINE IsIt(f) == f = [i \in 1..n |-> IF i = 1 THEN bytes[i] ELSE f[i - 1] \o bytes[i]]
<1>5. Crc(bytes) = (CHOOSE f : IsIt(f))[n]
  BY <1>1 DEF Crc, FlattenSeq
<1>6. \E f : IsIt(f)
  <2>1. PICK next : next = [k \in 1..m |-> [v \in Char |-> v \o bytes[k + 1]]]
    OBVIOUS
  <2>2. \A k \in 1..m : k + 1 \in 1..n
    BY <1>2
  <2>3. MakesNext(next, m, Char)
    BY <1>3, <1>4, <2>1, <2>2 DEF MakesNext
  <2>4. bytes[1] \in Char
    BY <1>3
  <2>5. PICK g : Goes(g, m, Char, bytes[1], next)
    BY <2>3, <2>4, Recursion
  <2>6. PICK f : f = [i \in 1..n |-> g[i - 1]]
    OBVIOUS
  <2>7. ASSUME NEW i \in 1..n, i # 1 PROVE f[i] = f[i - 1] \o bytes[i]
    <3>1. i - 1 \in 1..m /\ i - 1 \in 1..n /\ i - 1 - 1 \in 0..m /\ i - 1 + 1 = i
      BY <1>2, <2>7
    <3>2. g[i - 1] = next[i - 1][g[i - 1 - 1]] /\ g[i - 1 - 1] \in Char
      BY <2>5, <3>1 DEF Goes
    <3> QED
      BY <2>1, <2>6, <3>1, <3>2
  <2>8. f[1] = bytes[1]
    BY <2>5, <2>6 DEF Goes
  <2>9. f = [i \in 1..n |-> f[i]]
    BY <2>6
  <2>10. \A i \in 1..n : f[i] = IF i = 1 THEN bytes[i] ELSE f[i - 1] \o bytes[i]
    BY <2>7, <2>8
  <2>11. f = [i \in 1..n |-> IF i = 1 THEN bytes[i] ELSE f[i - 1] \o bytes[i]]
    BY <2>9, <2>10, Zenon
  <2>12. IsIt(f)
    BY <2>11, Zenon
  <2> QED
    BY <2>12, Zenon
<1> HIDE DEF IsIt
<1>7. PICK g : IsIt(g) /\ Crc(bytes) = g[n]
  <2>1. PICK g : g = CHOOSE f : IsIt(f)
    OBVIOUS
  <2> QED
    BY <1>5, <1>6, <2>1
<1>8. g[1] = bytes[1] /\ \A i \in 1..n : i # 1 => g[i] = g[i - 1] \o bytes[i]
  <2>1. 1 \in 1..n
    OBVIOUS
  <2> QED
    BY <1>7, <2>1 DEF IsIt
<1> DEFINE M == {k \in 0..m : g[k + 1] \in Char}
<1>9. 0 \in M
  BY <1>3, <1>8
<1>10. ASSUME NEW k \in 1..m, k - 1 \in M PROVE k \in M
  <2>1. PICK i \in 1..n : i = k + 1 /\ i # 1 /\ k = i - 1 /\ k \in 0..m
    BY <1>2
  <2>2. g[i - 1] \in Char
    BY <1>10, <2>1
  <2>3. g[i] = g[i - 1] \o bytes[i]
    BY <1>8, <2>1
  <2>4. g[i] \in Char
    BY <1>3, <1>4, <2>2, <2>3
  <2> QED
    BY <2>1, <2>4
<1>11. M \in SUBSET (0..m)
  OBVIOUS
<1> HIDE DEF M
<1>12. M = 0..m
  BY <1>9, <1>10, <1>11, Upwards
<1>13. m \in M /\ m + 1 = n
  BY <1>2, <1>12
<1> QED
  BY <1>7, <1>13 DEF M

\* What a length byte declares is within its range.
LEMMA DeclaredIs ==
  ASSUME NEW byte \in Char
  PROVE  Declared(byte) \in 0..MaxByte
<1>1. Head(byte) \in Nat
  BY HeadTailProperties DEF Char
<1> QED
  BY <1>1, LineAssumption DEF Declared

\* A frame that may be sent
Small == {f \in Frame : Len(f.payload) <= MaxPayload}

\* Two bytes and three are five; the first two of a sequence are it.
LEMMA TwoAndThree ==
  ASSUME NEW a \in Char, NEW b \in Char, NEW c \in Char, NEW d \in Char, NEW e \in Char
  PROVE  <<a, b>> \o <<c, d, e>> = <<a, b, c, d, e>>
<1>1. PICK s \in Seq(Char), m \in Nat : s = <<a, b>> /\ m = Len(s) /\ m = 2
  BY <<a, b>> \in Seq(Char)
<1>2. PICK t \in Seq(Char), n \in Nat : t = <<c, d, e>> /\ n = Len(t) /\ n = 3
  BY <<c, d, e>> \in Seq(Char)
<1>3. PICK u \in Seq(Char) : u = <<a, b, c, d, e>> /\ Len(u) = 5
  BY <<a, b, c, d, e>> \in Seq(Char)
<1>4. /\ s \o t \in Seq(Char)
      /\ Len(s \o t) = m + n
      /\ \A i \in 1..m : (s \o t)[i] = s[i]
      /\ \A i \in 1..n : (s \o t)[m + i] = t[i]
  <2>1. m = Len(s) /\ n = Len(t)
    BY <1>1, <1>2
  <2> QED
    BY <2>1, ConcatAt
<1>5. PICK v \in Seq(Char) : v = s \o t /\ Len(v) = 5
  <2>1. m + n = 5
    BY <1>1, <1>2
  <2> QED
    BY <1>4, <2>1
<1>6. v[1] = a /\ v[2] = b /\ v[3] = c /\ v[4] = d /\ v[5] = e
  <2>1. v[1] = s[1] /\ v[2] = s[2] /\ v[2 + 1] = t[1] /\ v[2 + 2] = t[2] /\ v[2 + 3] = t[3]
    BY <1>1, <1>2, <1>4, <1>5
  <2> QED
    BY <1>1, <1>2, <2>1
<1>7. \A i \in 1..5 : v[i] = u[i]
  BY <1>3, <1>6
<1>8. v = u
  BY <1>3, <1>5, <1>7, SameSeq
<1> QED
  BY <1>1, <1>2, <1>3, <1>5, <1>8

\* The first two elements of a sequence
LEMMA FirstTwo ==
  ASSUME NEW s \in Seq(Char), NEW n \in Nat, n = Len(s), n >= 2
  PROVE  SubSeq(s, 1, 2) = <<s[1], s[2]>>
<1>1. PICK a \in Char, b \in Char : a = s[1] /\ b = s[2]
  BY ElementOfSeq
<1>2. PICK t \in Seq(Char) : /\ t = SubSeq(s, 1, 2)
                             /\ Len(t) = 2
                             /\ \A i \in 1..2 : t[i] = s[1 + i - 1]
  <2>1. PICK x \in Nat \ {0}, y \in Nat, m \in Nat : x = 1 /\ y = 2 /\ m = 2 /\ m = y + 1 - x
    OBVIOUS
  <2>2. /\ SubSeq(s, x, y) \in Seq(Char)
        /\ Len(SubSeq(s, x, y)) = m
        /\ \A i \in 1..m : SubSeq(s, x, y)[i] = s[x + i - 1]
    BY <2>1, SubSeqAt
  <2> QED
    BY <2>1, <2>2
<1>3. t[1] = a /\ t[2] = b
  BY <1>1, <1>2
<1>4. PICK u \in Seq(Char) : u = <<a, b>> /\ Len(u) = 2 /\ u[1] = a /\ u[2] = b
  BY <<a, b>> \in Seq(Char)
<1>5. \A i \in 1..2 : t[i] = u[i]
  BY <1>3, <1>4
<1>6. t = u
  BY <1>2, <1>4, <1>5, SameSeq
<1> QED
  BY <1>1, <1>2, <1>4, <1>6

\* The place of each part of a frame on the line.
LEMMA EncodedIs ==
  ASSUME NEW f \in Small, NEW n \in Nat, n = Len(f.payload)
  PROVE  /\ EncodeFrame(f) \in Seq(Char)
         /\ Len(EncodeFrame(f)) = n + 6
         /\ EncodeFrame(f)[1] = <<8>> /\ EncodeFrame(f)[2] = <<9>>
         /\ EncodeFrame(f)[3] = <<KindByte[f.kind]>>
         /\ EncodeFrame(f)[4] = f.sequence
         /\ EncodeFrame(f)[5] = <<n>>
         /\ \A j \in 1..n : EncodeFrame(f)[5 + j] = f.payload[j]
         /\ EncodeFrame(f)[n + 6] = Crc(SubSeq(EncodeFrame(f), 1, n + 5))
<1>1. PICK p \in Seq(Char), q \in Char : p = f.payload /\ q = f.sequence /\ Len(p) = n
  BY DEF Small, Frame
<1>2. \A v \in Nat : <<v>> \in Char
  BY DEF Char
<1>3. KindByte[f.kind] \in Nat
  BY DEF Small, Frame, Kinds, KindByte
<1>4. PICK a \in Char, b \in Char, c \in Char, d \in Char :
        a = <<8>> /\ b = <<9>> /\ c = <<KindByte[f.kind]>> /\ d = <<n>>
  <2>1. <<8>> \in Char /\ <<9>> \in Char /\ <<KindByte[f.kind]>> \in Char /\ <<n>> \in Char
    BY <1>2, <1>3
  <2> QED
    BY <2>1
<1>5. PICK head \in Seq(Char), five \in Nat :
        head = <<a, b, c, q, d>> /\ five = Len(head) /\ five = 5
  BY <<a, b, c, q, d>> \in Seq(Char)
<1>6. PICK body \in Seq(Char) : /\ body = head \o p
                                /\ Len(body) = 5 + n
                                /\ \A j \in 1..5 : body[j] = head[j]
                                /\ \A j \in 1..n : body[5 + j] = p[j]
  <2>1. /\ head \o p \in Seq(Char)
        /\ Len(head \o p) = five + n
        /\ \A j \in 1..five : (head \o p)[j] = head[j]
        /\ \A j \in 1..n : (head \o p)[five + j] = p[j]
    <3>1. five = Len(head) /\ n = Len(p)
      BY <1>1, <1>5
    <3> QED
      BY <3>1, ConcatAt
  <2>2. five = 5
    BY <1>5
  <2> QED
    BY <2>1, <2>2
<1>7. PICK m \in Nat : m = n + 5 /\ m = Len(body) /\ body # <<>>
  BY <1>6
<1>8. PICK crc \in Char : crc = Crc(body)
  BY <1>7, CrcIsByte
<1>9. EncodeFrame(f) = Append(body, crc)
  <2>1. Magic \o <<c, q, d>> = head
    <3>1. <<a, b>> \o <<c, q, d>> = <<a, b, c, q, d>>
      BY TwoAndThree
    <3> QED
      BY <1>4, <1>5, <3>1, Zenon DEF Magic
  <2>2. EncodeFrame(f) =
          Append((Magic \o <<c, q, d>>) \o p, Crc((Magic \o <<c, q, d>>) \o p))
    BY <1>1, <1>4 DEF EncodeFrame
  <2> QED
    BY <1>6, <1>8, <2>1, <2>2
<1>10. PICK e \in Seq(Char) : /\ e = EncodeFrame(f)
                              /\ Len(e) = m + 1
                              /\ \A j \in 1..m : e[j] = body[j]
                              /\ e[m + 1] = crc
  <2>1. m = Len(body)
    BY <1>7
  <2>2. /\ Append(body, crc) \in Seq(Char)
        /\ Len(Append(body, crc)) = m + 1
        /\ \A j \in 1..m : Append(body, crc)[j] = body[j]
        /\ Append(body, crc)[m + 1] = crc
    BY <2>1, AppendAt
  <2> QED
    BY <1>9, <2>2
<1>11. Len(e) = n + 6 /\ e[n + 6] = crc
  BY <1>7, <1>10
<1>12. /\ \A j \in 1..5 : e[j] = head[j]
       /\ \A j \in 1..n : e[5 + j] = p[j]
  <2>1. \A j \in 1..5 : j \in 1..m
    BY <1>7
  <2>2. \A j \in 1..n : 5 + j \in 1..m
    BY <1>7
  <2> QED
    BY <1>6, <1>10, <2>1, <2>2
<1>13. SubSeq(e, 1, m) = body
  <2>1. PICK t \in Seq(Char) : /\ t = SubSeq(e, 1, m)
                               /\ Len(t) = m
                               /\ \A j \in 1..m : t[j] = e[1 + j - 1]
    <3>1. PICK x \in Nat \ {0} : x = 1 /\ x <= m + 1 /\ m <= Len(e) /\ m = m + 1 - x
      BY <1>10
    <3>2. /\ SubSeq(e, x, m) \in Seq(Char)
          /\ Len(SubSeq(e, x, m)) = m
          /\ \A j \in 1..m : SubSeq(e, x, m)[j] = e[x + j - 1]
      BY <3>1, SubSeqAt
    <3> QED
      BY <3>1, <3>2
  <2>2. \A j \in 1..m : 1 + j - 1 = j
    OBVIOUS
  <2>3. \A j \in 1..m : t[j] = body[j]
    BY <1>10, <2>1, <2>2
  <2> QED
    BY <1>7, <2>1, <2>3, SameSeq, ZenonT(60)
<1>14. /\ e[1] = a /\ e[2] = b /\ e[3] = c /\ e[4] = q /\ e[5] = d
  BY <1>5, <1>12
<1>15. Crc(SubSeq(e, 1, n + 5)) = e[n + 6]
  BY <1>7, <1>8, <1>11, <1>13
<1> QED
  BY <1>1, <1>4, <1>10, <1>11, <1>12, <1>14, <1>15

\* Reading it back gives the frame.
LEMMA DecodeEncoded ==
  ASSUME NEW f \in Small
  PROVE  DecodeFrame(EncodeFrame(f)) = <<f>>
<1>1. PICK n \in Nat : n = Len(f.payload)
  BY DEF Small, Frame
<1>2. PICK e \in Seq(Char) : e = EncodeFrame(f)
  BY <1>1, EncodedIs
<1>3. /\ Len(e) = n + 6 /\ e[1] = <<8>> /\ e[2] = <<9>>
      /\ e[3] = <<KindByte[f.kind]>> /\ e[4] = f.sequence /\ e[5] = <<n>>
      /\ \A j \in 1..n : e[5 + j] = f.payload[j]
      /\ e[n + 6] = Crc(SubSeq(e, 1, n + 5))
  BY <1>1, <1>2, EncodedIs
<1>4. Declared(e[5]) = n
  BY <1>1, <1>3, LineAssumption DEF Declared, Small
<1>5. EndOf(e, 1) - 1 - CrcLen = n + 5
  BY <1>4 DEF EndOf, HeaderLen, CrcLen
<1>6. SubSeq(e, 1, Len(Magic)) = Magic
  <2>1. SubSeq(e, 1, 2) = << e[1], e[2] >>
    <3>1. PICK m \in Nat : m = Len(e) /\ m >= 2
      BY <1>3
    <3> QED
      BY <3>1, FirstTwo
  <2> QED
    BY <1>3, <2>1 DEF Magic
<1>7. f.kind \in Kinds /\ \A k \in Kinds : e[3] = <<KindByte[k]>> => k = f.kind
  BY <1>3 DEF Small, Frame, Kinds, KindByte
<1>8. (CHOOSE k \in Kinds : e[3] = <<KindByte[k]>>) = f.kind
  BY <1>3, <1>7
<1>9. SubSeq(e, HeaderLen + 1, n + 5) = f.payload
  <2>1. f.payload \in Seq(Char)
    BY DEF Small, Frame
  <2>2. \A j \in 6..(n + 5) : e[j] \in Char
    BY <1>3, ElementOfSeq
  <2>3. /\ SubSeq(e, 6, n + 5) \in Seq(Char)
        /\ Len(SubSeq(e, 6, n + 5)) = IF 6 <= n + 5 THEN n + 5 - 6 + 1 ELSE 0
        /\ \A j \in 1..(n + 5 - 6 + 1) : SubSeq(e, 6, n + 5)[j] = e[6 + j - 1]
    BY <2>2, SubSeqProperties
  <2>4. Len(SubSeq(e, 6, n + 5)) = n
    BY <2>3
  <2>5. ASSUME NEW j \in 1..n PROVE SubSeq(e, 6, n + 5)[j] = f.payload[j]
    <3>1. j \in 1..(n + 5 - 6 + 1) /\ 6 + j - 1 = 5 + j
      OBVIOUS
    <3> QED
      BY <1>3, <2>3, <3>1
  <2>6. SubSeq(e, 6, n + 5) = f.payload
    BY <1>1, <2>1, <2>3, <2>4, <2>5, SeqEqual
  <2> QED
    BY <2>6 DEF HeaderLen
<1>10. f = [kind |-> f.kind, sequence |-> f.sequence, payload |-> f.payload]
  BY DEF Small, Frame
<1>11. DecodeFrame(e) = << [kind |-> f.kind, sequence |-> e[4], payload |-> f.payload] >>
  <2>1. Len(e) = n + 5 + CrcLen /\ e[n + 5 + 1] = Crc(SubSeq(e, 1, n + 5))
    BY <1>3 DEF CrcLen
  <2>2. \E k \in Kinds : e[3] = <<KindByte[k]>>
    BY <1>3, <1>7
  <2> QED
    BY <1>5, <1>6, <1>8, <1>9, <2>1, <2>2 DEF DecodeFrame
<1> QED
  BY <1>2, <1>3, <1>10, <1>11

\* Whatever decodes is a frame.
LEMMA DecodedIs ==
  ASSUME NEW bytes \in Seq(Char), NEW n \in Nat, n = Len(bytes), n >= 6
  PROVE  DecodeFrame(bytes) \in Seq(Frame)
<1>1. bytes[5] \in Char /\ bytes[4] \in Char
  <2>1. 4 \in 1..n /\ 5 \in 1..n
    OBVIOUS
  <2> QED
    BY <2>1, ElementOfSeq
<1>2. PICK d \in Nat : d = Declared(bytes[5])
  BY <1>1, DeclaredIs, LineAssumption
<1>3. EndOf(bytes, 1) - 1 - CrcLen = d + 5
  BY <1>2 DEF EndOf, HeaderLen, CrcLen
<1>4. <<>> \in Seq(Frame)
  BY EmptySeq
<1>5. ASSUME Len(bytes) = d + 5 + CrcLen, NEW k \in Kinds
      PROVE  << [kind |-> k, sequence |-> bytes[4],
                 payload |-> SubSeq(bytes, HeaderLen + 1, d + 5)] >> \in Seq(Frame)
  <2>1. PICK a \in Nat \ {0}, b \in Nat : a = 6 /\ b = d + 5 /\ a <= b + 1 /\ d = b + 1 - a
    OBVIOUS
  <2>2. b <= Len(bytes)
    BY <1>5, <2>1 DEF CrcLen
  <2>3. PICK t \in Seq(Char) : t = SubSeq(bytes, a, b)
    BY <2>1, <2>2, SubSeqAt
  <2>4. t = SubSeq(bytes, HeaderLen + 1, d + 5)
    BY <2>1, <2>3 DEF HeaderLen
  <2>5. [kind |-> k, sequence |-> bytes[4], payload |-> t] \in Frame
    BY <1>1, Zenon DEF Frame
  <2> QED
    BY <2>4, <2>5
<1>6. (\E k \in Kinds : bytes[3] = <<KindByte[k]>>) =>
        (CHOOSE k \in Kinds : bytes[3] = <<KindByte[k]>>) \in Kinds
  OBVIOUS
<1> QED
  BY <1>3, <1>4, <1>5, <1>6 DEF DecodeFrame

-----------------------------------------------------------------------------
(* Frames in a stream *)

\* A place behind what is declared
LEMMA EndIs ==
  ASSUME NEW b \in Seq(Char), NEW n \in Nat, n = Len(b), NEW i \in Nat \ {0}, i + 4 <= n
  PROVE  /\ EndOf(b, i) \in Nat
         /\ i + 6 <= EndOf(b, i) /\ EndOf(b, i) <= i + 6 + MaxByte
         /\ EndOf(b, i) = i + 6 + Declared(b[i + 4])
<1>1. i + 4 \in 1..n /\ i + HeaderLen - 1 = i + 4
  BY DEF HeaderLen
<1>2. b[i + 4] \in Char
  BY <1>1, ElementOfSeq
<1>3. PICK d \in 0..MaxByte : d = Declared(b[i + 4])
  BY <1>2, DeclaredIs
<1>4. EndOf(b, i) = i + 6 + d
  BY <1>1, <1>3 DEF EndOf, HeaderLen, CrcLen
<1> QED
  BY <1>3, <1>4, LineAssumption

\* The bytes of a whole frame decode.
LEMMA WholeIs ==
  ASSUME NEW b \in Seq(Char), NEW n \in Nat, n = Len(b), NEW i \in Nat \ {0}, Whole(b, i)
  PROVE  /\ i + 4 <= n
         /\ EndOf(b, i) \in Nat /\ i + 6 <= EndOf(b, i) /\ EndOf(b, i) <= n + 1
         /\ DecodeFrame(SubSeq(b, i, EndOf(b, i) - 1)) \in Seq(Frame)
<1>1. i + 4 <= n /\ EndOf(b, i) <= n + 1
  BY DEF Whole, HeaderLen
<1>2. PICK e \in Nat : e = EndOf(b, i) /\ i + 6 <= e /\ e <= n + 1
  BY <1>1, EndIs
<1>3. PICK l \in Nat, m \in Nat : l = e - 1 /\ m = l + 1 - i /\ m >= 6 /\ i <= l + 1 /\ l <= n
  BY <1>2
<1>4. PICK t \in Seq(Char) : t = SubSeq(b, i, l) /\ Len(t) = m
  <2>1. i <= l + 1 /\ l <= Len(b) /\ m = l + 1 - i
    BY <1>3
  <2>2. SubSeq(b, i, l) \in Seq(Char) /\ Len(SubSeq(b, i, l)) = m
    BY <2>1, SubSeqAt
  <2> QED
    BY <2>2
<1>5. m = Len(t)
  BY <1>4
<1>6. DecodeFrame(t) \in Seq(Frame)
  BY <1>3, <1>5, DecodedIs
<1> QED
  BY <1>1, <1>2, <1>3, <1>4, <1>6

\* A least number
LEMMA LeastIs ==
  ASSUME NEW S \in SUBSET Nat, S # {}
  PROVE  Least(S) \in S /\ \A j \in S : Least(S) <= j
<1>1. PICK m \in S : \A z \in S : ~ (<<z, m>> \in OpToRel(<, Nat))
  BY NatLessThanWellFounded, WFMin
<1>2. \A z \in S : m <= z
  <2>1. ASSUME NEW z \in S, z < m PROVE FALSE
    <3>1. <<z, m>> \in OpToRel(<, Nat)
      BY <2>1 DEF OpToRel
    <3> QED
      BY <1>1, <3>1
  <2>2. \A z \in S : z \in Nat /\ m \in Nat
    OBVIOUS
  <2> QED
    BY <2>1, <2>2
<1> QED
  BY <1>2 DEF Least

\* No frame begins from one place to before another.
Quiet(b, x, y) == \A i \in MagicAt(b) : ~ (x <= i /\ i < y)

\* The next frame begins at a place.
Begins(b, x, i) == i \in MagicAt(b) /\ x <= i /\ Quiet(b, x, i)

\* A turn finds no frame, a part of one, or a whole one.
LEMMA TurnIs ==
  ASSUME NEW b \in Seq(Char), NEW n \in Nat, n = Len(b),
         NEW at \in 1..(n + 1), NEW F \in Seq(Frame), NEW d, d = [at |-> at, frames |-> F]
  PROVE  \/ /\ Quiet(b, at, n + 1)
            /\ Drained(b, d) = [at |-> IF at > n THEN at ELSE n, frames |-> F]
         \/ \E i \in 1..n :
              /\ Begins(b, at, i) /\ ~ Whole(b, i)
              /\ Drained(b, d) = [at |-> i, frames |-> F]
         \/ \E i \in 1..n :
              /\ Begins(b, at, i) /\ Whole(b, i)
              /\ Drained(b, d) =
                   [at |-> EndOf(b, i),
                    frames |-> F \o DecodeFrame(SubSeq(b, i, EndOf(b, i) - 1))]
<1>1. PICK ahead : ahead = {i \in MagicAt(b) : i >= at}
  OBVIOUS
<1>2. \A i \in MagicAt(b) : i \in 1..n /\ i \in Nat /\ i < n + 1
  BY DEF MagicAt
<1>3. CASE ahead = {}
  <2>1. Quiet(b, at, n + 1)
    BY <1>1, <1>2, <1>3 DEF Quiet
  <2>2. Drained(b, d) = [at |-> KeepTail(b, at), frames |-> F]
    BY <1>1, <1>3 DEF Drained
  <2>3. KeepTail(b, at) = IF at > n THEN at ELSE n
    BY DEF KeepTail, Magic
  <2> QED
    BY <2>1, <2>2, <2>3
<1>4. CASE ahead # {}
  <2>1. ahead \in SUBSET Nat
    BY <1>1, <1>2
  <2>2. PICK i \in ahead : i = Least(ahead) /\ \A j \in ahead : i <= j
    BY <1>4, <2>1, LeastIs
  <2>3. i \in 1..n /\ Begins(b, at, i)
    <3>1. i \in MagicAt(b) /\ i >= at /\ i \in Nat /\ i \in 1..n
      BY <1>1, <1>2, <2>2
    <3>2. ASSUME NEW j \in MagicAt(b), at <= j, j < i PROVE FALSE
      BY <1>1, <1>2, <2>2, <3>1, <3>2
    <3>3. Quiet(b, at, i)
      BY <3>2 DEF Quiet
    <3> QED
      BY <3>1, <3>3 DEF Begins
  <2>4. CASE Whole(b, i)
    <3>1. Drained(b, d) = [at |-> EndOf(b, i),
            frames |-> F \o DecodeFrame(SubSeq(b, i, EndOf(b, i) - 1))]
      BY <1>1, <1>4, <2>2, <2>4 DEF Drained
    <3> QED
      BY <2>3, <2>4, <3>1
  <2>5. CASE ~ Whole(b, i)
    <3>1. Drained(b, d) = [at |-> i, frames |-> F]
      BY <1>1, <1>4, <2>2, <2>5 DEF Drained
    <3> QED
      BY <2>3, <2>5, <3>1
  <2> QED
    BY <2>4, <2>5
<1> QED
  BY <1>3, <1>4

\* What drain_frames goes by: where the buffer begins, and the frames so far
Cutting(n) == [at : 1..(n + 1), frames : Seq(Frame)]

\* A turn moves the beginning of the buffer, or changes nothing.
LEMMA TurnMoves ==
  ASSUME NEW b \in Seq(Char), NEW n \in Nat, n = Len(b), NEW d \in Cutting(n)
  PROVE  /\ Drained(b, d) \in Cutting(n)
         /\ Drained(b, d) = d \/ d.at < Drained(b, d).at
<1>1. PICK at \in 1..(n + 1), F \in Seq(Frame) : d = [at |-> at, frames |-> F]
  BY DEF Cutting
<1>2. CASE /\ Quiet(b, at, n + 1)
           /\ Drained(b, d) = [at |-> IF at > n THEN at ELSE n, frames |-> F]
  <2>1. PICK to \in 1..(n + 1) : to = (IF at > n THEN at ELSE n) /\ (to = at \/ at < to)
    OBVIOUS
  <2> QED
    BY <1>1, <1>2, <2>1 DEF Cutting
<1>3. ASSUME NEW i \in 1..n, Begins(b, at, i), Drained(b, d) = [at |-> i, frames |-> F]
      PROVE  Drained(b, d) \in Cutting(n) /\ (Drained(b, d) = d \/ d.at < Drained(b, d).at)
  <2>1. i \in 1..(n + 1) /\ (i = at \/ at < i)
    BY <1>3 DEF Begins
  <2> QED
    BY <1>1, <1>3, <2>1 DEF Cutting
<1>4. ASSUME NEW i \in 1..n, Begins(b, at, i), Whole(b, i),
             Drained(b, d) =
               [at |-> EndOf(b, i), frames |-> F \o DecodeFrame(SubSeq(b, i, EndOf(b, i) - 1))]
      PROVE  Drained(b, d) \in Cutting(n) /\ (Drained(b, d) = d \/ d.at < Drained(b, d).at)
  <2>1. PICK G \in Seq(Frame) : G = DecodeFrame(SubSeq(b, i, EndOf(b, i) - 1))
    BY <1>4, WholeIs
  <2>2. EndOf(b, i) \in Nat /\ i + 6 <= EndOf(b, i) /\ EndOf(b, i) <= n + 1
    BY <1>4, WholeIs
  <2>3. PICK e \in 1..(n + 1) : e = EndOf(b, i) /\ at < e
    BY <1>4, <2>2 DEF Begins
  <2>4. PICK H \in Seq(Frame) : H = F \o G
    BY ConcatProperties
  <2>5. Drained(b, d) = [at |-> e, frames |-> H]
    BY <1>4, <2>1, <2>3, <2>4
  <2> QED
    BY <1>1, <2>3, <2>5 DEF Cutting
<1> QED
  BY <1>1, <1>2, <1>3, <1>4, TurnIs

\* drain_frames takes its turns one after the other.
LEMMA TurnsAre ==
  ASSUME NEW b \in Seq(Char), NEW n \in Nat, n = Len(b)
  PROVE  /\ Turns(b)[0] = [at |-> 1, frames |-> <<>>]
         /\ \A k \in 0..n : Turns(b)[k] \in Cutting(n)
         /\ \A k \in 1..n : Turns(b)[k] = Drained(b, Turns(b)[k - 1])
<1> DEFINE IsIt(f) == f = [k \in 0..n |-> IF k = 0 THEN [at |-> 1, frames |-> <<>>]
                                          ELSE Drained(b, f[k - 1])]
<1>1. PICK g : g = Turns(b) /\ g = CHOOSE f : IsIt(f)
  BY DEF Turns
<1>2. PICK first \in Cutting(n) : first = [at |-> 1, frames |-> <<>>]
  <2>1. <<>> \in Seq(Frame) /\ 1 \in 1..(n + 1)
    BY EmptySeq
  <2>2. [at |-> 1, frames |-> <<>>] \in Cutting(n)
    BY <2>1, Zenon DEF Cutting
  <2> QED
    BY <2>2
<1>3. \A d \in Cutting(n) : Drained(b, d) \in Cutting(n)
  BY TurnMoves
<1>4. \A k \in 1..n : k - 1 \in 0..n /\ k \in 0..n /\ k # 0
  OBVIOUS
<1>5. \E f : IsIt(f)
  <2>1. PICK next : next = [k \in 1..n |-> [d \in Cutting(n) |-> Drained(b, d)]]
    OBVIOUS
  <2>2. MakesNext(next, n, Cutting(n))
    BY <1>3, <2>1 DEF MakesNext
  <2>3. PICK f : Goes(f, n, Cutting(n), first, next)
    BY <2>2, Recursion
  <2>4. \A k \in 1..n : f[k] = Drained(b, f[k - 1])
    BY <1>4, <2>1, <2>3 DEF Goes
  <2>5. f[0] = first /\ f = [k \in 0..n |-> f[k]]
    BY <2>3 DEF Goes
  <2>6. \A k \in 0..n : k = 0 \/ k \in 1..n
    OBVIOUS
  <2>7. \A k \in 0..n : f[k] = IF k = 0 THEN [at |-> 1, frames |-> <<>>]
                               ELSE Drained(b, f[k - 1])
    BY <1>2, <2>4, <2>5, <2>6
  <2> QED
    BY <2>5, <2>7
<1> HIDE DEF IsIt
<1>6. IsIt(g)
  BY <1>1, <1>5
<1>7. g[0] = first /\ \A k \in 1..n : g[k] = Drained(b, g[k - 1])
  <2>1. 0 \in 0..n
    OBVIOUS
  <2> QED
    BY <1>2, <1>4, <1>6, <2>1 DEF IsIt
<1>8. \A k \in 0..n : g[k] \in Cutting(n)
  <2> DEFINE M == {k \in 0..n : g[k] \in Cutting(n)}
  <2>1. 0 \in M
    BY <1>7
  <2>2. ASSUME NEW k \in 1..n, k - 1 \in M PROVE k \in M
    BY <1>3, <1>4, <1>7, <2>2
  <2>3. M \in SUBSET (0..n)
    OBVIOUS
  <2> HIDE DEF M
  <2>4. M = 0..n
    BY <2>1, <2>2, <2>3, Upwards
  <2> QED
    BY <2>4 DEF M
<1> QED
  BY <1>1, <1>2, <1>7, <1>8

\* What is known of a stream at a place
Found == [free : Nat \ {0}, frames : Seq(Frame)]

\* A turn of the scan finds frames and a later place.
LEMMA ScannedIs ==
  ASSUME NEW s \in Seq(Char), NEW n \in Nat, n = Len(s), NEW p \in 1..n, NEW r \in Found
  PROVE  Scanned(s, p, r) \in Found
<1>1. PICK free \in Nat \ {0}, F \in Seq(Frame) : r = [free |-> free, frames |-> F]
  <2>1. r = [free |-> r.free, frames |-> r.frames] /\ r.frames \in Seq(Frame)
        /\ r.free \in Nat \ {0}
    BY Zenon DEF Found
  <2> QED
    BY <2>1
<1>2. CASE p < r.free \/ p \notin MagicAt(s)
  <2>1. Scanned(s, p, r) = r
    BY <1>1, <1>2 DEF Scanned
  <2> QED
    BY <2>1
<1>3. CASE ~ (p < r.free \/ p \notin MagicAt(s)) /\ Whole(s, p)
  <2>1. PICK G \in Seq(Frame), e \in Nat \ {0} :
          e = EndOf(s, p) /\ G = DecodeFrame(SubSeq(s, p, EndOf(s, p) - 1))
    BY <1>3, WholeIs
  <2>2. F \o G \in Seq(Frame)
    BY ConcatProperties
  <2>3. Scanned(s, p, r) = [free |-> e, frames |-> F \o G]
    <3>1. p >= r.free /\ p \in MagicAt(s)
      BY <1>1, <1>3
    <3> QED
      BY <1>1, <1>3, <2>1, <3>1 DEF Scanned
  <2> QED
    BY <2>2, <2>3 DEF Found
<1>4. CASE ~ (p < r.free \/ p \notin MagicAt(s)) /\ ~ Whole(s, p)
  <2>1. Scanned(s, p, r) = [free |-> n + 1, frames |-> F]
    BY <1>1, <1>4 DEF Scanned
  <2> QED
    BY <2>1 DEF Found
<1> QED
  BY <1>2, <1>3, <1>4

\* The scan goes byte by byte.
LEMMA ScanIs ==
  ASSUME NEW s \in Seq(Char), NEW n \in Nat, n = Len(s)
  PROVE  /\ Scan(s)[0] = [free |-> 1, frames |-> <<>>]
         /\ \A p \in 0..n : Scan(s)[p] \in Found
         /\ \A p \in 1..n : Scan(s)[p] = Scanned(s, p, Scan(s)[p - 1])
<1> DEFINE IsIt(f) == f = [p \in 0..n |-> IF p = 0 THEN [free |-> 1, frames |-> <<>>]
                                          ELSE Scanned(s, p, f[p - 1])]
<1>1. PICK g : g = Scan(s) /\ g = CHOOSE f : IsIt(f)
  BY DEF Scan
<1>2. PICK first \in Found : first = [free |-> 1, frames |-> <<>>]
  <2>1. <<>> \in Seq(Frame) /\ 1 \in Nat \ {0}
    BY EmptySeq
  <2>2. [free |-> 1, frames |-> <<>>] \in Found
    BY <2>1, Zenon DEF Found
  <2> QED
    BY <2>2
<1>3. \A p \in 1..n, r \in Found : Scanned(s, p, r) \in Found
  BY ScannedIs
<1>4. \A p \in 1..n : p - 1 \in 0..n /\ p \in 0..n /\ p # 0
  OBVIOUS
<1>5. \E f : IsIt(f)
  <2>1. PICK next : next = [p \in 1..n |-> [r \in Found |-> Scanned(s, p, r)]]
    OBVIOUS
  <2>2. MakesNext(next, n, Found)
    BY <1>3, <2>1 DEF MakesNext
  <2>3. PICK f : Goes(f, n, Found, first, next)
    BY <2>2, Recursion
  <2>4. \A p \in 1..n : f[p] = Scanned(s, p, f[p - 1])
    BY <1>4, <2>1, <2>3 DEF Goes
  <2>5. f[0] = first /\ f = [p \in 0..n |-> f[p]]
    BY <2>3 DEF Goes
  <2>6. \A p \in 0..n : p = 0 \/ p \in 1..n
    OBVIOUS
  <2>7. \A p \in 0..n : f[p] = IF p = 0 THEN [free |-> 1, frames |-> <<>>]
                               ELSE Scanned(s, p, f[p - 1])
    BY <1>2, <2>4, <2>5, <2>6
  <2> QED
    BY <2>5, <2>7
<1> HIDE DEF IsIt
<1>6. IsIt(g)
  BY <1>1, <1>5
<1>7. g[0] = first /\ \A p \in 1..n : g[p] = Scanned(s, p, g[p - 1])
  <2>1. 0 \in 0..n
    OBVIOUS
  <2> QED
    BY <1>2, <1>4, <1>6, <2>1 DEF IsIt
<1>8. \A p \in 0..n : g[p] \in Found
  <2> DEFINE M == {p \in 0..n : g[p] \in Found}
  <2>1. 0 \in M
    BY <1>7
  <2>2. ASSUME NEW p \in 1..n, p - 1 \in M PROVE p \in M
    BY <1>3, <1>4, <1>7, <2>2
  <2>3. M \in SUBSET (0..n)
    OBVIOUS
  <2> HIDE DEF M
  <2>4. M = 0..n
    BY <2>1, <2>2, <2>3, Upwards
  <2> QED
    BY <2>4 DEF M
<1> QED
  BY <1>1, <1>2, <1>7, <1>8

\* Where no frame starts, the scan finds nothing.
LEMMA ScanSkips ==
  ASSUME NEW s \in Seq(Char), NEW n \in Nat, n = Len(s),
         NEW x \in 1..(n + 1), NEW y \in 1..(n + 1), x <= y,
         NEW r \in Found, r = Scan(s)[x - 1],
         \A p \in 1..n : x <= p /\ p < y => p < r.free \/ p \notin MagicAt(s)
  PROVE  Scan(s)[y - 1] = r
<1>1. PICK c \in Nat : c = y - x
  OBVIOUS
<1> DEFINE M == {k \in 0..c : Scan(s)[x - 1 + k] = r}
<1>2. 0 \in M
  <2>1. x - 1 + 0 = x - 1
    OBVIOUS
  <2> QED
    BY <2>1
<1>3. ASSUME NEW k \in 1..c, k - 1 \in M PROVE k \in M
  <2>1. PICK p \in 1..n : /\ p = x - 1 + k /\ p - 1 = x - 1 + (k - 1)
                          /\ x <= p /\ p < y
    BY <1>1
  <2>2. Scan(s)[p - 1] = r
    BY <1>3, <2>1
  <2>3. Scan(s)[p] = Scanned(s, p, r)
    BY <2>2, ScanIs
  <2>4. p < r.free \/ p \notin MagicAt(s)
    BY <2>1
  <2>5. r.free \in Nat /\ p \in Nat
    BY DEF Found
  <2>6. Scanned(s, p, r) = r
    BY <2>4, <2>5 DEF Scanned
  <2> QED
    BY <2>1, <2>3, <2>6
<1>4. M \in SUBSET (0..c)
  OBVIOUS
<1> HIDE DEF M
<1>5. c \in M
  <2>1. M = 0..c
    BY <1>2, <1>3, <1>4, Upwards
  <2> QED
    BY <2>1
<1>6. x - 1 + c = y - 1
  BY <1>1
<1> QED
  BY <1>5, <1>6 DEF M

\* A buffer covers a stretch of a stream, behind its first bytes.
Covers(b, t, o) ==
  /\ o + Len(b) <= Len(t)
  /\ \A i \in 1..Len(b) : b[i] = t[o + i]

\* A magic is one in the buffer if it is one in the stream.
LEMMA MagicShifts ==
  ASSUME NEW b \in Seq(Char), NEW n \in Nat, n = Len(b),
         NEW t \in Seq(Char), NEW m \in Nat, m = Len(t),
         NEW o \in Nat, Covers(b, t, o), NEW i \in 1..n, NEW q \in Nat, q = o + i
  PROVE  /\ i \in MagicAt(b) => q \in MagicAt(t)
         /\ i < n /\ q \in MagicAt(t) => i \in MagicAt(b)
<1>1. o + n <= m /\ \A j \in 1..n : b[j] = t[o + j]
  BY DEF Covers
<1>2. ASSUME i < n
      PROVE  b[i] = t[q] /\ b[i + 1] = t[q + 1] /\ i \in 1..(n - 1) /\ q \in 1..(m - 1)
  <2>1. PICK j \in 1..n : j = i + 1 /\ o + j = q + 1
    BY <1>2
  <2>2. b[i] = t[o + i] /\ b[j] = t[o + j]
    BY <1>1
  <2> QED
    BY <1>1, <1>2, <2>1, <2>2
<1>3. i \in MagicAt(b) => i < n
  BY DEF MagicAt
<1> QED
  BY <1>2, <1>3 DEF MagicAt

\* The same frame is at a place of one and at a place of the other.
SameFrame(b, i, t, q, o) ==
  /\ Whole(t, q)
  /\ EndOf(t, q) = o + EndOf(b, i)
  /\ SubSeq(t, q, EndOf(t, q) - 1) = SubSeq(b, i, EndOf(b, i) - 1)

\* The same bytes are the same sequence.
LEMMA SameBytes ==
  \A r, w \in Seq(Char) :
    Len(r) = Len(w) /\ (\A j \in 1..Len(r) : r[j] = w[j]) => r = w
BY SeqEqual, Zenon

\* What is whole in the buffer is whole in the stream, and the same.
LEMMA WholeShifts ==
  ASSUME NEW b \in Seq(Char), NEW n \in Nat, n = Len(b),
         NEW t \in Seq(Char), NEW m \in Nat, m = Len(t),
         NEW o \in Nat, Covers(b, t, o), NEW i \in 1..n, Whole(b, i),
         NEW q \in Nat \ {0}, q = o + i
  PROVE  SameFrame(b, i, t, q, o)
<1>1. o + n <= m /\ \A j \in 1..n : b[j] = t[o + j]
  BY DEF Covers
<1>2. i + 4 <= n /\ EndOf(b, i) \in Nat /\ i + 6 <= EndOf(b, i) /\ EndOf(b, i) <= n + 1
  <2>1. i \in Nat \ {0}
    OBVIOUS
  <2> QED
    BY <2>1, WholeIs
<1>3. b[i + 4] = t[q + 4]
  <2>1. PICK j \in 1..n : j = i + 4 /\ o + j = q + 4
    BY <1>2
  <2> QED
    BY <1>1, <2>1
<1>4. EndOf(b, i) = i + 6 + Declared(b[i + 4])
  <2>1. i \in Nat \ {0} /\ i + 4 <= n
    BY <1>2
  <2> QED
    BY <2>1, EndIs
<1>5. q + 4 <= m /\ EndOf(t, q) = q + 6 + Declared(t[q + 4])
  <2>1. q + 4 <= m /\ q \in Nat \ {0}
    BY <1>1, <1>2
  <2> QED
    BY <2>1, EndIs
<1>6. PICK d \in Nat : d = Declared(b[i + 4]) /\ EndOf(b, i) = i + 6 + d
  <2>1. i + 4 \in 1..n
    BY <1>2
  <2>2. b[i + 4] \in Char
    BY <2>1, ElementOfSeq
  <2>3. Declared(b[i + 4]) \in 0..MaxByte
    BY <2>2, DeclaredIs
  <2>4. Declared(b[i + 4]) \in Nat
    BY <2>3, LineAssumption
  <2> QED
    BY <1>4, <2>4
<1>7. PICK e \in Nat, u \in Nat : /\ e = EndOf(b, i) /\ i + 6 <= e /\ e <= n + 1
                                  /\ u = EndOf(t, q) /\ u = o + e /\ u <= m + 1
  <2>1. EndOf(b, i) = i + 6 + d /\ EndOf(t, q) = q + 6 + d
    BY <1>3, <1>5, <1>6, Zenon
  <2>2. i + 6 + d <= n + 1 /\ o + n <= m
    BY <1>1, <1>2, <2>1, Zenon
  <2>3. /\ i + 6 + d \in Nat /\ i + 6 <= i + 6 + d /\ i + 6 + d <= n + 1
        /\ q + 6 + d \in Nat /\ q + 6 + d = o + (i + 6 + d) /\ q + 6 + d <= m + 1
    BY <2>2
  <2>4. /\ EndOf(b, i) \in Nat /\ i + 6 <= EndOf(b, i) /\ EndOf(b, i) <= n + 1
        /\ EndOf(t, q) \in Nat /\ EndOf(t, q) = o + EndOf(b, i) /\ EndOf(t, q) <= m + 1
    BY <2>1, <2>3, Zenon
  <2> QED
    BY <2>4, Zenon
<1>8. Whole(t, q)
  BY <1>5, <1>7 DEF Whole, HeaderLen
<1>9. PICK l \in Nat, v \in Nat, c \in Nat : l = e - 1 /\ v = u - 1 /\ c = e - i
  <2>1. i + 6 <= e /\ u = o + e
    BY <1>7, Zenon
  <2>2. e - 1 \in Nat /\ u - 1 \in Nat /\ e - i \in Nat
    BY <2>1
  <2> QED
    BY <2>2, Zenon
<1>10. /\ c = l + 1 - i /\ c = v + 1 - q
       /\ i <= l + 1 /\ q <= v + 1 /\ l <= n /\ v <= m /\ i + c = e
  <2>1. i + 6 <= e /\ e <= n + 1 /\ u = o + e /\ u <= m + 1
    BY <1>7
  <2>2. c = l + 1 - i /\ i <= l + 1 /\ l <= n /\ i + c = e
    BY <1>9, <2>1
  <2>3. c = v + 1 - q /\ q <= v + 1 /\ v <= m
    BY <1>9, <2>1
  <2> QED
    BY <2>2, <2>3
<1>11. PICK x \in Seq(Char) : /\ x = SubSeq(b, i, l) /\ Len(x) = c
                              /\ \A j \in 1..c : x[j] = b[i + j - 1]
  <2>1. c = l + 1 - i /\ i <= l + 1 /\ l <= Len(b) /\ i \in Nat \ {0}
    BY <1>10
  <2>2. /\ SubSeq(b, i, l) \in Seq(Char) /\ Len(SubSeq(b, i, l)) = c
        /\ \A j \in 1..c : SubSeq(b, i, l)[j] = b[i + j - 1]
    BY <2>1, SubSeqAt
  <2> QED
    BY <2>2
<1>12. PICK y \in Seq(Char) : /\ y = SubSeq(t, q, v) /\ Len(y) = c
                              /\ \A j \in 1..c : y[j] = t[q + j - 1]
  <2>1. c = v + 1 - q /\ q <= v + 1 /\ v <= Len(t) /\ q \in Nat \ {0}
    BY <1>10
  <2>2. /\ SubSeq(t, q, v) \in Seq(Char) /\ Len(SubSeq(t, q, v)) = c
        /\ \A j \in 1..c : SubSeq(t, q, v)[j] = t[q + j - 1]
    BY <2>1, SubSeqAt
  <2> QED
    BY <2>2
<1>13. \A j \in 1..c : x[j] = y[j]
  <2>1. ASSUME NEW j \in 1..c PROVE x[j] = y[j]
    <3>1. PICK k \in 1..n : k = i + j - 1 /\ o + k = q + j - 1
      <4>1. j \in Nat /\ 1 <= j /\ j <= c /\ i + c <= n + 1
        BY <1>7, <1>10
      <4>2. i + j - 1 \in 1..n /\ o + (i + j - 1) = q + j - 1
        BY <4>1
      <4> QED
        BY <4>2
    <3>2. x[j] = b[i + j - 1] /\ y[j] = t[q + j - 1]
      BY <1>11, <1>12, Zenon
    <3>3. b[k] = t[o + k]
      BY <1>1, Zenon
    <3> QED
      BY <3>1, <3>2, <3>3, Zenon
  <2> QED
    BY <2>1
<1>14. x = y
  <2>1. Len(x) = Len(y) /\ \A j \in 1..Len(x) : x[j] = y[j]
    BY <1>11, <1>12, <1>13, Zenon
  <2> QED
    BY <2>1, SameBytes, Zenon
<1> QED
  <2>1. EndOf(t, q) - 1 = v /\ EndOf(b, i) - 1 = l
    BY <1>7, <1>9
  <2> QED
    BY <1>7, <1>8, <1>11, <1>12, <1>14, <2>1 DEF SameFrame

\* What is not all there at the end of the buffer is not all there in the stream.
LEMMA PartShifts ==
  ASSUME NEW b \in Seq(Char), NEW n \in Nat, n = Len(b),
         NEW t \in Seq(Char), NEW m \in Nat, m = Len(t),
         NEW o \in Nat, Covers(b, t, o), o + n = m,
         NEW i \in 1..n, NEW q \in Nat \ {0}, q = o + i, Whole(t, q)
  PROVE  Whole(b, i)
<1>1. \A j \in 1..n : b[j] = t[o + j]
  BY DEF Covers
<1>2. q + 4 <= m /\ EndOf(t, q) \in Nat /\ EndOf(t, q) <= m + 1
  BY WholeIs
<1>3. PICK j \in 1..n : j = i + 4 /\ o + j = q + 4
  BY <1>2
<1>4. b[i + 4] = t[q + 4] /\ t[q + 4] \in Char
  <2>1. q + 4 \in 1..m
    BY <1>2
  <2> QED
    BY <1>1, <1>3, <2>1, ElementOfSeq
<1>5. PICK d \in Nat : d = Declared(t[q + 4])
  <2>1. Declared(t[q + 4]) \in 0..MaxByte
    BY <1>4, DeclaredIs
  <2>2. Declared(t[q + 4]) \in Nat
    BY <2>1, LineAssumption
  <2> QED
    BY <2>2, Zenon
<1>6. EndOf(t, q) = q + 6 + d
  BY <1>2, <1>5, EndIs
<1>7. i + 4 <= n
  BY <1>3
<1>8. EndOf(b, i) = i + 6 + d
  <2>1. i \in Nat \ {0} /\ i + 4 <= n
    BY <1>7
  <2>2. EndOf(b, i) = i + 6 + Declared(b[i + 4])
    BY <2>1, EndIs
  <2> QED
    BY <1>4, <1>5, <2>2
<1> QED
  BY <1>2, <1>6, <1>7, <1>8 DEF Whole, HeaderLen

\* The scan holds these frames where it reaches a place, and a frame may start there.
Reads(t, at, F) ==
  /\ at \in 1..(Len(t) + 1)
  /\ Scan(t)[at - 1].free <= at
  /\ Scan(t)[at - 1].frames = F

\* Past places where no frame begins it holds them still.
LEMMA ReadsOn ==
  ASSUME NEW t \in Seq(Char), NEW m \in Nat, m = Len(t),
         NEW x \in 1..(m + 1), NEW y \in 1..(m + 1), x <= y,
         NEW F, Reads(t, x, F), Quiet(t, x, y)
  PROVE  Reads(t, y, F)
<1>1. x - 1 \in 0..m
  OBVIOUS
<1>2. PICK r \in Found : r = Scan(t)[x - 1] /\ r.free <= x /\ r.frames = F
  BY <1>1, ScanIs DEF Reads
<1>3. \A p \in 1..m : x <= p /\ p < y => p \notin MagicAt(t)
  BY DEF Quiet
<1>4. Scan(t)[y - 1] = r
  BY <1>2, <1>3, ScanSkips
<1>5. r.free <= y
  BY <1>2 DEF Found
<1> QED
  BY <1>2, <1>4, <1>5 DEF Reads

\* Past a whole frame it holds that frame too.
LEMMA ReadsWhole ==
  ASSUME NEW t \in Seq(Char), NEW m \in Nat, m = Len(t), NEW x \in 1..m,
         NEW F \in Seq(Frame), Reads(t, x, F), x \in MagicAt(t), Whole(t, x)
  PROVE  Reads(t, EndOf(t, x), F \o DecodeFrame(SubSeq(t, x, EndOf(t, x) - 1)))
<1>1. x \in Nat \ {0} /\ x - 1 \in 0..m
  OBVIOUS
<1>2. PICK e \in Nat : e = EndOf(t, x) /\ x + 6 <= e /\ e <= m + 1
  BY <1>1, WholeIs
<1>3. PICK G \in Seq(Frame) : G = DecodeFrame(SubSeq(t, x, EndOf(t, x) - 1))
  BY <1>1, WholeIs
<1>4. PICK r \in Found : r = Scan(t)[x - 1] /\ r.free <= x /\ r.frames = F
  BY <1>1, ScanIs DEF Reads
<1>5. Scan(t)[x] = Scanned(t, x, r)
  BY <1>4, ScanIs
<1>6. Scanned(t, x, r) = [free |-> e, frames |-> F \o G]
  <2>1. x >= r.free /\ ~ (x < r.free)
    BY <1>4 DEF Found
  <2> QED
    BY <1>2, <1>3, <1>4, <2>1 DEF Scanned
<1>7. PICK w \in Found : w = Scan(t)[x] /\ w.free = e /\ w.frames = F \o G
  <2>1. x \in 0..m
    OBVIOUS
  <2>2. Scan(t)[x] \in Found
    BY <2>1, ScanIs
  <2>3. Scan(t)[x].free = e /\ Scan(t)[x].frames = F \o G
    BY <1>5, <1>6
  <2> QED
    BY <2>2, <2>3
<1>8. Scan(t)[e - 1] = w
  <2>1. PICK y \in 1..(m + 1), z \in 1..(m + 1) : y = x + 1 /\ z = e /\ y <= z /\ x = y - 1
    <3>1. x + 1 \in 1..(m + 1) /\ e \in 1..(m + 1) /\ x + 1 <= e /\ x = x + 1 - 1
      BY <1>2
    <3> QED
      BY <3>1
  <2>2. \A p \in 1..m : y <= p /\ p < z => p < w.free \/ p \notin MagicAt(t)
    BY <1>7, <2>1
  <2>3. w = Scan(t)[y - 1]
    BY <1>7, <2>1
  <2>4. Scan(t)[z - 1] = w
    BY <2>1, <2>2, <2>3, ScanSkips
  <2> QED
    BY <2>1, <2>4
<1>9. e \in 1..(m + 1) /\ w.free <= e
  BY <1>2, <1>7
<1> QED
  BY <1>2, <1>3, <1>7, <1>8, <1>9 DEF Reads

\* A whole frame in the buffer is one in the stream.
LEMMA WholeReads ==
  ASSUME NEW b \in Seq(Char), NEW n \in Nat, n = Len(b),
         NEW t \in Seq(Char), NEW m \in Nat, m = Len(t),
         NEW o \in Nat, Covers(b, t, o), NEW i \in 1..n, i \in MagicAt(b), Whole(b, i),
         NEW H \in Seq(Frame), Reads(t, o + i, H)
  PROVE  Reads(t, o + EndOf(b, i), H \o DecodeFrame(SubSeq(b, i, EndOf(b, i) - 1)))
<1>1. o + n <= m
  BY DEF Covers
<1>2. PICK q \in 1..m : q = o + i /\ q \in Nat \ {0} /\ Reads(t, q, H)
  BY <1>1
<1>3. q = o + i /\ q \in Nat \ {0}
  BY <1>2
<1>4. SameFrame(b, i, t, q, o)
  BY <1>3, WholeShifts
<1>5. q \in MagicAt(t)
  BY <1>3, MagicShifts
<1>6. Reads(t, EndOf(t, q), H \o DecodeFrame(SubSeq(t, q, EndOf(t, q) - 1)))
  BY <1>2, <1>4, <1>5, ReadsWhole DEF SameFrame
<1> QED
  BY <1>4, <1>6 DEF SameFrame

\* Frames one after the other, however they are grouped
LEMMA Regrouped ==
  \A s, t, u \in Seq(Frame) : (s \o t) \o u = s \o (t \o u)
BY ConcatAssociative

\* Bytes one after the other, however they are grouped
LEMMA BytesRegrouped ==
  \A s, t, u \in Seq(Char) : (s \o t) \o u = s \o (t \o u)
BY ConcatAssociative

\* A turn on the buffer reads on in the stream.
LEMMA TurnReads ==
  ASSUME NEW b \in Seq(Char), NEW n \in Nat, n = Len(b),
         NEW t \in Seq(Char), NEW m \in Nat, m = Len(t),
         NEW o \in Nat, Covers(b, t, o), NEW d \in Cutting(n), NEW G \in Seq(Frame),
         Reads(t, o + d.at, G \o d.frames)
  PROVE  Reads(t, o + Drained(b, d).at, G \o Drained(b, d).frames)
<1>1. PICK at \in 1..(n + 1), F \in Seq(Frame) : d = [at |-> at, frames |-> F]
  BY DEF Cutting
<1>2. PICK x \in Nat \ {0}, H \in Seq(Frame) : x = o + at /\ H = G \o F
  <2>1. G \o F \in Seq(Frame) /\ o + at \in Nat \ {0}
    BY ConcatProperties
  <2> QED
    BY <2>1
<1>3. o + n <= m /\ x \in 1..(m + 1) /\ Reads(t, x, H)
  BY <1>1, <1>2 DEF Covers
<1>4. ASSUME NEW y \in 1..(n + 1), at <= y, y <= n, Quiet(b, at, y) PROVE Reads(t, o + y, H)
  <2>1. PICK z \in 1..(m + 1) : z = o + y /\ x <= z
    BY <1>2, <1>3, <1>4
  <2>2. ASSUME NEW q \in MagicAt(t), x <= q, q < z PROVE FALSE
    <3>1. q \in Nat
      BY DEF MagicAt
    <3>2. PICK i \in 1..n : i < n /\ q = o + i /\ at <= i /\ i < y
      <4>1. q - o \in 1..n /\ q - o < n /\ q = o + (q - o) /\ at <= q - o /\ q - o < y
        BY <1>2, <1>4, <2>1, <2>2, <3>1
      <4> QED
        BY <4>1
    <3>3. i \in MagicAt(b)
      BY <3>1, <3>2, MagicShifts
    <3> QED
      BY <1>4, <3>2, <3>3 DEF Quiet
  <2>3. Quiet(t, x, z)
    BY <2>2 DEF Quiet
  <2>4. Reads(t, z, H)
    BY <1>3, <2>1, <2>3, ReadsOn
  <2> QED
    BY <2>1, <2>4
<1>5. CASE /\ Quiet(b, at, n + 1)
           /\ Drained(b, d) = [at |-> IF at > n THEN at ELSE n, frames |-> F]
  <2>1. CASE at > n
    BY <1>1, <1>2, <1>3, <1>5, <2>1
  <2>2. CASE ~ (at > n)
    <3>1. n \in 1..(n + 1) /\ at <= n
      BY <2>2
    <3>2. Quiet(b, at, n)
      BY <1>5 DEF Quiet, MagicAt
    <3>3. Reads(t, o + n, H)
      BY <1>4, <3>1, <3>2
    <3> QED
      BY <1>2, <1>5, <2>2, <3>3
  <2> QED
    BY <2>1, <2>2
<1>6. ASSUME NEW i \in 1..n, Begins(b, at, i) PROVE Reads(t, o + i, H)
  <2>1. i \in 1..(n + 1) /\ i <= n /\ at <= i /\ Quiet(b, at, i)
    BY <1>6 DEF Begins
  <2> QED
    BY <1>4, <2>1
<1>7. ASSUME NEW i \in 1..n, Begins(b, at, i), Drained(b, d) = [at |-> i, frames |-> F]
      PROVE  Reads(t, o + Drained(b, d).at, G \o Drained(b, d).frames)
  BY <1>2, <1>6, <1>7
<1>8. ASSUME NEW i \in 1..n, Begins(b, at, i), Whole(b, i),
             Drained(b, d) =
               [at |-> EndOf(b, i), frames |-> F \o DecodeFrame(SubSeq(b, i, EndOf(b, i) - 1))]
      PROVE  Reads(t, o + Drained(b, d).at, G \o Drained(b, d).frames)
  <2>1. PICK K \in Seq(Frame) : K = DecodeFrame(SubSeq(b, i, EndOf(b, i) - 1))
    BY <1>8, WholeIs
  <2>2. Reads(t, o + EndOf(b, i), H \o K)
    <3>1. i \in MagicAt(b) /\ Whole(b, i) /\ Reads(t, o + i, H)
      BY <1>6, <1>8 DEF Begins
    <3> QED
      BY <2>1, <3>1, WholeReads
  <2>3. H \o K = G \o (F \o K)
    <3>1. (G \o F) \o K = G \o (F \o K)
      BY Regrouped, ZenonT(30)
    <3> QED
      BY <1>2, <3>1
  <2>4. Drained(b, d).at = EndOf(b, i) /\ Drained(b, d).frames = F \o K
    BY <1>8, <2>1
  <2> QED
    BY <2>2, <2>3, <2>4
<1> QED
  BY <1>1, <1>5, <1>7, <1>8, TurnIs

\* Where a turn changes nothing, no frame begins, or one that is not all there.
LEMMA TurnStops ==
  ASSUME NEW b \in Seq(Char), NEW n \in Nat, n = Len(b), NEW d \in Cutting(n), Drained(b, d) = d
  PROVE  \/ Quiet(b, d.at, n + 1)
         \/ d.at \in 1..n /\ d.at \in MagicAt(b) /\ ~ Whole(b, d.at)
<1>1. PICK at \in 1..(n + 1), F \in Seq(Frame) : d = [at |-> at, frames |-> F]
  BY DEF Cutting
<1>2. ASSUME NEW i \in 1..n, Begins(b, at, i), ~ Whole(b, i),
             Drained(b, d) = [at |-> i, frames |-> F]
      PROVE  i = at
  BY <1>1, <1>2
<1>3. ASSUME NEW i \in 1..n, Begins(b, at, i), Whole(b, i),
             Drained(b, d) =
               [at |-> EndOf(b, i), frames |-> F \o DecodeFrame(SubSeq(b, i, EndOf(b, i) - 1))]
      PROVE  FALSE
  <2>1. EndOf(b, i) = at
    BY <1>1, <1>3
  <2>2. i \in Nat \ {0}
    OBVIOUS
  <2>3. i + 6 <= EndOf(b, i) /\ EndOf(b, i) \in Nat
    BY <1>3, <2>2, WholeIs
  <2> QED
    BY <1>3, <2>1, <2>3 DEF Begins
<1>4. ASSUME NEW i \in 1..n, Begins(b, at, i), ~ Whole(b, i), i = at
      PROVE  d.at \in 1..n /\ d.at \in MagicAt(b) /\ ~ Whole(b, d.at)
  BY <1>1, <1>4 DEF Begins
<1>5. d.at = at
  BY <1>1
<1> QED
  BY <1>1, <1>2, <1>3, <1>4, <1>5, TurnIs

\* Where no frame begins any more, the scan finds none.
LEMMA QuietReads ==
  ASSUME NEW b \in Seq(Char), NEW n \in Nat, n = Len(b),
         NEW t \in Seq(Char), NEW m \in Nat, m = Len(t),
         NEW o \in Nat, Covers(b, t, o), o + n = m,
         NEW at \in 1..(n + 1), Quiet(b, at, n + 1), NEW F, Reads(t, o + at, F)
  PROVE  Reading(t) = F
<1>1. PICK x \in 1..(m + 1) : x = o + at /\ Reads(t, x, F)
  <2>1. o + at \in 1..(m + 1)
    OBVIOUS
  <2> QED
    BY <2>1
<1>2. PICK last \in 1..(m + 1) : last = m + 1 /\ last - 1 = m
  OBVIOUS
<1>3. ASSUME NEW q \in MagicAt(t), x <= q, q < last PROVE FALSE
  <2>1. q \in Nat /\ q < m
    BY DEF MagicAt
  <2>2. PICK i \in 1..n : i < n /\ q = o + i /\ at <= i
    <3>1. q - o \in 1..n /\ q - o < n /\ q = o + (q - o) /\ at <= q - o
      BY <1>1, <1>3, <2>1
    <3> QED
      BY <3>1
  <2>3. i \in MagicAt(b)
    BY <2>1, <2>2, MagicShifts
  <2> QED
    BY <2>2, <2>3 DEF Quiet
<1>4. Quiet(t, x, last)
  BY <1>3 DEF Quiet
<1>5. Reads(t, last, F)
  BY <1>1, <1>2, <1>4, ReadsOn
<1> QED
  BY <1>2, <1>5 DEF Reads, Reading

\* Where a frame is not all there, the scan finds nothing more.
LEMMA PartReads ==
  ASSUME NEW b \in Seq(Char), NEW n \in Nat, n = Len(b),
         NEW t \in Seq(Char), NEW m \in Nat, m = Len(t),
         NEW o \in Nat, Covers(b, t, o), o + n = m,
         NEW i \in 1..n, i \in MagicAt(b), ~ Whole(b, i), NEW F, Reads(t, o + i, F)
  PROVE  Reading(t) = F
<1>1. PICK x \in 1..m : x \in Nat \ {0} /\ x = o + i /\ Reads(t, x, F)
  <2>1. o + i \in 1..m /\ o + i \in Nat \ {0}
    OBVIOUS
  <2> QED
    BY <2>1
<1>2. PICK last \in 1..(m + 1) : last = m + 1 /\ last - 1 = m
  OBVIOUS
<1>3. x \in MagicAt(t)
  BY <1>1, MagicShifts
<1>4. ~ Whole(t, x)
  BY <1>1, PartShifts
<1>5. PICK r \in Found : r = Scan(t)[x - 1] /\ r.free <= x /\ r.frames = F
  <2>1. x - 1 \in 0..m
    OBVIOUS
  <2> QED
    BY <1>1, <2>1, ScanIs DEF Reads
<1>6. Scanned(t, x, r) = [free |-> m + 1, frames |-> F]
  <2>1. x >= r.free /\ ~ (x < r.free)
    BY <1>5 DEF Found
  <2> QED
    BY <1>3, <1>4, <1>5, <2>1 DEF Scanned
<1>7. Scan(t)[x] = Scanned(t, x, r)
  BY <1>5, ScanIs
<1>8. PICK w \in Found : w = Scan(t)[x] /\ w.free = m + 1 /\ w.frames = F
  <2>1. x \in 0..m
    OBVIOUS
  <2>2. Scan(t)[x] \in Found
    BY <2>1, ScanIs
  <2> QED
    BY <1>6, <1>7, <2>2
<1>9. PICK y \in 1..(m + 1) : y = x + 1 /\ y <= last /\ x = y - 1
  BY <1>2
<1>10. \A p \in 1..m : y <= p /\ p < last => p < w.free \/ p \notin MagicAt(t)
  BY <1>2, <1>8
<1>11. w = Scan(t)[y - 1]
  BY <1>8, <1>9
<1>12. Scan(t)[last - 1] = w
  BY <1>9, <1>10, <1>11, ScanSkips
<1> QED
  BY <1>2, <1>8, <1>12 DEF Reading

\* A buffer that reaches to the end of the stream.
Fits(b, t, o) == Covers(b, t, o) /\ o + Len(b) = Len(t)

\* The scan comes as far as a turn.
ReadsTurn(t, o, d, F) == Reads(t, o + d.at, F)

\* Where a turn changes nothing, the scan finds nothing more.
LEMMA LastReads ==
  ASSUME NEW b \in Seq(Char), NEW t \in Seq(Char), NEW o \in Nat, Fits(b, t, o),
         NEW d \in Cutting(Len(b)), Drained(b, d) = d, NEW F, ReadsTurn(t, o, d, F)
  PROVE  Reading(t) = F
<1>1. PICK n \in Nat, m \in Nat : n = Len(b) /\ m = Len(t)
  OBVIOUS
<1>2. Covers(b, t, o) /\ o + n = m
  BY <1>1 DEF Fits
<1>3. PICK at \in 1..(n + 1) : at = d.at
  BY <1>1 DEF Cutting
<1>4. \/ Quiet(b, at, n + 1)
      \/ at \in 1..n /\ at \in MagicAt(b) /\ ~ Whole(b, at)
  BY <1>1, <1>3, TurnStops
<1>5. Reads(t, o + at, F)
  BY <1>3 DEF ReadsTurn
<1>6. CASE Quiet(b, at, n + 1)
  BY <1>1, <1>2, <1>5, <1>6, QuietReads
<1>7. CASE at \in 1..n /\ at \in MagicAt(b) /\ ~ Whole(b, at)
  <2>1. \A x \in 1..n : x \in MagicAt(b) /\ ~ Whole(b, x) /\ Reads(t, o + x, F) => Reading(t) = F
    BY <1>1, <1>2, PartReads
  <2> QED
    BY <1>5, <1>7, <2>1, Zenon
<1> QED
  BY <1>4, <1>6, <1>7

\* The turns there are suffice: one more would change nothing.
LEMMA TurnsEnd ==
  ASSUME NEW b \in Seq(Char), NEW n \in Nat, n = Len(b)
  PROVE  Drained(b, Turns(b)[n]) = Turns(b)[n]
<1>1. PICK T : T = Turns(b)
  OBVIOUS
<1>2. /\ T[0] = [at |-> 1, frames |-> <<>>]
      /\ \A k \in 0..n : T[k] \in Cutting(n)
      /\ \A k \in 1..n : T[k] = Drained(b, T[k - 1])
  BY <1>1, TurnsAre
<1> DEFINE M == {k \in 0..n : T[k].at >= k + 1 \/ Drained(b, T[k]) = T[k]}
<1>3. 0 \in M
  BY <1>2
<1>4. ASSUME NEW k \in 1..n, k - 1 \in M PROVE k \in M
  <2>1. PICK j \in 0..n : j = k - 1 /\ k = j + 1 /\ k \in 0..n
    OBVIOUS
  <2>2. PICK d \in Cutting(n) : d = T[j] /\ T[k] = Drained(b, d)
    BY <1>2, <2>1
  <2>3. d.at >= k \/ Drained(b, d) = d
    BY <1>4, <2>1, <2>2
  <2>4. Drained(b, d) = d \/ d.at < Drained(b, d).at
    BY TurnMoves
  <2>5. CASE Drained(b, d) = d
    BY <2>1, <2>2, <2>5
  <2>6. CASE d.at >= k /\ d.at < Drained(b, d).at
    <3>1. PICK x \in 1..(n + 1) : x = d.at
      BY DEF Cutting
    <3>2. Drained(b, d) \in Cutting(n)
      BY TurnMoves
    <3>3. PICK y \in 1..(n + 1) : y = Drained(b, d).at
      BY <3>2 DEF Cutting
    <3>4. y >= k + 1
      BY <2>6, <3>1, <3>3
    <3> QED
      BY <2>1, <2>2, <3>3, <3>4
  <2> QED
    BY <2>3, <2>4, <2>5, <2>6
<1>5. M \in SUBSET (0..n)
  OBVIOUS
<1>6. n \in M
  <2> HIDE DEF M
  <2>1. M = 0..n
    BY <1>3, <1>4, <1>5, Upwards
  <2> QED
    BY <2>1
<1>7. PICK d \in Cutting(n) : d = T[n]
  BY <1>2
<1>8. d.at >= n + 1 \/ Drained(b, d) = d
  BY <1>6, <1>7
<1>9. ASSUME d.at >= n + 1 PROVE Drained(b, d) = d
  <2>1. Drained(b, d) \in Cutting(n)
    BY TurnMoves
  <2>2. PICK x \in 1..(n + 1), y \in 1..(n + 1) : x = d.at /\ y = Drained(b, d).at
    BY <2>1 DEF Cutting
  <2>3. ~ (x < y)
    BY <1>9, <2>2
  <2> QED
    BY <2>2, <2>3, TurnMoves
<1> QED
  BY <1>1, <1>7, <1>8, <1>9

\* Draining the buffer reads on in the stream.
LEMMA DrainReads ==
  ASSUME NEW b \in Seq(Char), NEW n \in Nat, n = Len(b),
         NEW t \in Seq(Char), NEW m \in Nat, m = Len(t),
         NEW o \in Nat, Covers(b, t, o), NEW G \in Seq(Frame), Reads(t, o + 1, G)
  PROVE  Reads(t, o + Turns(b)[n].at, G \o Turns(b)[n].frames)
<1>1. PICK T : T = Turns(b)
  OBVIOUS
<1>2. /\ T[0] = [at |-> 1, frames |-> <<>>]
      /\ \A k \in 0..n : T[k] \in Cutting(n)
      /\ \A k \in 1..n : T[k] = Drained(b, T[k - 1])
  BY <1>1, TurnsAre
<1> DEFINE M == {k \in 0..n : Reads(t, o + T[k].at, G \o T[k].frames)}
<1>3. 0 \in M
  <2>1. G \o <<>> = G
    BY ConcatEmptySeq
  <2>2. T[0].at = 1 /\ T[0].frames = <<>>
    BY <1>2
  <2>3. Reads(t, o + T[0].at, G \o T[0].frames)
    BY <2>1, <2>2
  <2> QED
    BY <2>3
<1>4. ASSUME NEW k \in 1..n, k - 1 \in M PROVE k \in M
  <2>1. PICK j \in 0..n : j = k - 1 /\ k \in 0..n
    OBVIOUS
  <2>2. PICK d \in Cutting(n) : d = T[j] /\ T[k] = Drained(b, d)
    BY <1>2, <2>1
  <2>3. Reads(t, o + d.at, G \o d.frames)
    BY <1>4, <2>1, <2>2
  <2>4. Reads(t, o + Drained(b, d).at, G \o Drained(b, d).frames)
    BY <2>3, TurnReads
  <2> QED
    BY <2>1, <2>2, <2>4
<1>5. M \in SUBSET (0..n)
  OBVIOUS
<1>6. n \in M
  <2> HIDE DEF M
  <2>1. M = 0..n
    BY <1>3, <1>4, <1>5, Upwards
  <2> QED
    BY <2>1
<1> QED
  BY <1>1, <1>6

\* The buffer holds the stream from a place the scan comes to, whatever follows.
Streams(h, buffer, F) ==
  /\ F \in Seq(Frame) /\ F = Reading(h)
  /\ \E o \in 0..Len(h) :
       /\ buffer = From(h, o + 1)
       /\ \A c \in Seq(Char) : Reads(h \o c, o + 1, F)

\* An empty line
LEMMA StreamStart == Streams(<<>>, <<>>, <<>>)
<1>1. <<>> \in Seq(Frame) /\ <<>> \in Seq(Char) /\ Len(<<>>) = 0 /\ 0 \in 0..0 /\ 0 \in Nat
  BY EmptySeq
<1>2. Scan(<<>>)[0] = [free |-> 1, frames |-> <<>>]
  BY <1>1, ScanIs
<1>3. Reading(<<>>) = <<>>
  BY <1>1, <1>2 DEF Reading
<1>4. From(<<>>, 0 + 1) = <<>>
  BY <1>1, SubSeqEmpty DEF From
<1>5. ASSUME NEW c \in Seq(Char) PROVE Reads(<<>> \o c, 0 + 1, <<>>)
  <2>1. <<>> \o c = c
    BY ConcatEmptySeq
  <2>2. PICK n \in Nat : n = Len(c)
    OBVIOUS
  <2>3. Scan(c)[0] = [free |-> 1, frames |-> <<>>]
    BY <2>2, ScanIs
  <2> QED
    <3>1. 0 + 1 \in 1..(Len(c) + 1) /\ 0 + 1 - 1 = 0
      BY <2>2
    <3>2. Scan(c)[0].free <= 0 + 1 /\ Scan(c)[0].frames = <<>>
      BY <2>3
    <3>3. Reads(c, 0 + 1, <<>>)
      BY <3>1, <3>2 DEF Reads
    <3> QED
      BY <2>1, <3>3
<1> QED
  BY <1>1, <1>3, <1>4, <1>5 DEF Streams

\* A piece of the stream from one place on has its bytes.
LEMMA FromAt ==
  ASSUME NEW h \in Seq(Char), NEW o \in Nat, NEW k \in Nat, o + k = Len(h)
  PROVE  /\ From(h, o + 1) \in Seq(Char) /\ Len(From(h, o + 1)) = k
         /\ \A i \in 1..k : From(h, o + 1)[i] = h[o + i]
<1>1. PICK p \in Nat, from \in Nat \ {0} : p = o + k /\ from = o + 1 /\ k = p + 1 - from
  <2>1. o + k \in Nat /\ o + 1 \in Nat \ {0} /\ k = (o + k) + 1 - (o + 1)
    OBVIOUS
  <2> QED
    BY <2>1
<1>2. from <= p + 1 /\ p <= Len(h) /\ p = Len(h)
  BY <1>1
<1>3. /\ SubSeq(h, from, p) \in Seq(Char) /\ Len(SubSeq(h, from, p)) = k
      /\ \A i \in 1..k : SubSeq(h, from, p)[i] = h[from + i - 1]
  BY <1>1, <1>2, SubSeqAt
<1>4. \A i \in 1..k : from + i - 1 = o + i
  BY <1>1
<1>5. From(h, o + 1) = SubSeq(h, from, p)
  BY <1>1, <1>2 DEF From
<1> QED
  BY <1>3, <1>4, <1>5

\* Two byte sequences, one behind the other.
LEMMA BytesAt ==
  ASSUME NEW s \in Seq(Char), NEW t \in Seq(Char)
  PROVE  /\ s \o t \in Seq(Char)
         /\ Len(s \o t) = Len(s) + Len(t)
         /\ \A i \in 1..Len(s) : (s \o t)[i] = s[i]
         /\ \A i \in 1..Len(t) : (s \o t)[Len(s) + i] = t[i]
<1>1. PICK m \in Nat, n \in Nat : m = Len(s) /\ n = Len(t)
  OBVIOUS
<1> QED
  BY <1>1, ConcatAt

\* What is read behind a buffer that holds the stream from some place on, it holds too.
LEMMA ReadFits ==
  ASSUME NEW h \in Seq(Char), NEW o \in Nat, NEW a \in Seq(Char), Fits(a, h, o),
         NEW got \in Seq(Char)
  PROVE  Fits(a \o got, h \o got, o)
<1>1. PICK k \in Nat, p \in Nat, g \in Nat : k = Len(a) /\ p = Len(h) /\ g = Len(got)
  OBVIOUS
<1>2. o + k = p /\ \A i \in 1..k : a[i] = h[o + i]
  BY <1>1 DEF Fits, Covers
<1>3. /\ Len(a \o got) = k + g
      /\ \A i \in 1..k : (a \o got)[i] = a[i]
      /\ \A i \in 1..g : (a \o got)[k + i] = got[i]
  BY <1>1, BytesAt
<1>4. /\ Len(h \o got) = p + g
      /\ \A i \in 1..p : (h \o got)[i] = h[i]
      /\ \A i \in 1..g : (h \o got)[p + i] = got[i]
  BY <1>1, BytesAt
<1>5. ASSUME NEW i \in 1..k PROVE (a \o got)[i] = (h \o got)[o + i]
  <2>1. o + i \in 1..p
    BY <1>2
  <2> QED
    BY <1>2, <1>3, <1>4, <2>1
<1>6. ASSUME NEW i \in 1..(k + g), ~ (i <= k) PROVE (a \o got)[i] = (h \o got)[o + i]
  <2>1. PICK j \in 1..g : i = k + j /\ o + i = p + j
    <3>1. i - k \in 1..g /\ i = k + (i - k) /\ o + i = p + (i - k)
      BY <1>2, <1>6
    <3> QED
      BY <3>1
  <2>2. (a \o got)[k + j] = got[j]
    BY <1>3
  <2>3. (h \o got)[p + j] = got[j]
    BY <1>4
  <2> QED
    BY <2>1, <2>2, <2>3
<1>7. ASSUME NEW i \in 1..(k + g) PROVE (a \o got)[i] = (h \o got)[o + i]
  <2>1. CASE i <= k
    <3>1. i \in 1..k
      BY <2>1
    <3> QED
      BY <1>5, <3>1
  <2>2. CASE ~ (i <= k)
    BY <1>6, <2>2
  <2> QED
    BY <2>1, <2>2
<1>8. o + k = p
  BY <1>2
<1>9. o + (k + g) = p + g
  BY <1>8
<1> QED
  BY <1>3, <1>4, <1>7, <1>9 DEF Fits, Covers

\* A piece of the stream from one place on fits it.
LEMMA FromFits ==
  ASSUME NEW h \in Seq(Char), NEW o \in 0..Len(h)
  PROVE  From(h, o + 1) \in Seq(Char) /\ Fits(From(h, o + 1), h, o)
<1>1. PICK k \in Nat : o \in Nat /\ o + k = Len(h)
  <2>1. Len(h) - o \in Nat /\ o \in Nat /\ o + (Len(h) - o) = Len(h)
    OBVIOUS
  <2> QED
    BY <2>1
<1>2. /\ From(h, o + 1) \in Seq(Char) /\ Len(From(h, o + 1)) = k
      /\ \A i \in 1..k : From(h, o + 1)[i] = h[o + i]
  BY <1>1, FromAt, ZenonT(60)
<1>3. o + Len(From(h, o + 1)) = Len(h)
  BY <1>1, <1>2
<1> QED
  BY <1>2, <1>3 DEF Fits, Covers

\* What follows in the stream does not change what the buffer holds.
LEMMA CoversMore ==
  ASSUME NEW b \in Seq(Char), NEW s \in Seq(Char), NEW o \in Nat, Covers(b, s, o),
         NEW c \in Seq(Char)
  PROVE  s \o c \in Seq(Char) /\ Covers(b, s \o c, o)
<1>1. PICK e \in Nat, m \in Nat, n \in Nat : e = Len(c) /\ m = Len(s) /\ n = Len(b)
  OBVIOUS
<1>2. /\ s \o c \in Seq(Char) /\ Len(s \o c) = m + e
      /\ \A i \in 1..m : (s \o c)[i] = s[i]
  BY <1>1, ConcatAt
<1>3. o + n <= m /\ \A i \in 1..n : b[i] = s[o + i]
  BY <1>1 DEF Covers
<1>4. ASSUME NEW i \in 1..n PROVE b[i] = (s \o c)[o + i]
  <2>1. o + i \in 1..m
    BY <1>3
  <2> QED
    BY <1>2, <1>3, <2>1
<1>5. o + n <= m + e
  BY <1>3
<1> QED
  BY <1>1, <1>2, <1>4, <1>5 DEF Covers

\* The end of the buffer is the end of the stream.
LEMMA FromShifts ==
  ASSUME NEW b \in Seq(Char), NEW s \in Seq(Char), NEW o \in Nat, Fits(b, s, o),
         NEW q \in 0..Len(b)
  PROVE  o + q \in 0..Len(s) /\ From(b, q + 1) = From(s, (o + q) + 1)
<1>1. PICK n \in Nat, m \in Nat : n = Len(b) /\ m = Len(s)
  OBVIOUS
<1>2. o + n = m /\ \A i \in 1..n : b[i] = s[o + i]
  BY <1>1 DEF Fits, Covers
<1>3. PICK x \in Nat, v \in 0..m : q \in Nat /\ q + x = n /\ v = o + q /\ v + x = m
  <2>1. o + n = m /\ q \in 0..n
    BY <1>1, <1>2
  <2>2. /\ n - q \in Nat /\ q + (n - q) = n /\ o + q \in 0..m /\ (o + q) + (n - q) = m
        /\ q \in Nat
    BY <2>1
  <2> QED
    BY <2>2, Zenon
<1>4. PICK a \in Seq(Char) : a = From(b, q + 1) /\ Fits(a, b, q)
  BY <1>1, FromFits
<1>5. PICK z \in Seq(Char) : z = From(s, v + 1) /\ Fits(z, s, v)
  BY <1>1, FromFits
<1>6. Len(a) = x /\ \A i \in 1..x : a[i] = b[q + i]
  <2>1. q + Len(a) = Len(b)
    BY <1>4 DEF Fits
  <2>2. Len(a) = x
    <3>1. q + Len(a) = n
      BY <1>1, <2>1, Zenon
    <3>2. Len(a) \in Nat
      OBVIOUS
    <3> QED
      BY <1>3, <3>1, <3>2
  <2> QED
    BY <1>4, <2>2 DEF Fits, Covers
<1>7. Len(z) = x /\ \A i \in 1..x : z[i] = s[v + i]
  <2>1. v + Len(z) = Len(s)
    BY <1>5 DEF Fits
  <2>2. Len(z) = x
    <3>1. v + Len(z) = m
      BY <1>1, <2>1, Zenon
    <3>2. Len(z) \in Nat
      OBVIOUS
    <3> QED
      BY <1>3, <3>1, <3>2
  <2> QED
    BY <1>5, <2>2 DEF Fits, Covers
<1>8. ASSUME NEW i \in 1..x PROVE a[i] = z[i]
  <2>1. PICK j \in 1..n : j = q + i /\ o + j = v + i
    <3>1. q + i \in 1..n /\ o + (q + i) = v + i
      BY <1>3
    <3> QED
      BY <3>1
  <2>2. a[i] = b[q + i] /\ z[i] = s[v + i]
    BY <1>6, <1>7
  <2>3. b[j] = s[o + j]
    BY <1>2
  <2>4. b[q + i] = b[j] /\ s[v + i] = s[o + j]
    BY <2>1
  <2> QED
    BY <2>2, <2>3, <2>4, Zenon
<1>9. a = z
  BY <1>6, <1>7, <1>8, SameSeq
<1> QED
  BY <1>1, <1>3, <1>4, <1>5, <1>9

\* The bytes of three pieces of the stream are the stream's, however they are joined.
LEMMA Continued ==
  ASSUME NEW h \in Seq(Char), NEW got \in Seq(Char), NEW c \in Seq(Char)
  PROVE  got \o c \in Seq(Char) /\ (h \o got) \o c = h \o (got \o c)
<1>1. got \o c \in Seq(Char)
  BY ConcatProperties
<1>2. (h \o got) \o c = h \o (got \o c)
  BY BytesRegrouped, Zenon
<1> QED
  BY <1>1, <1>2

\* The last turn on the buffer
LastTurn(b) == Turns(b)[Len(b)]

\* What is known of the last turn
LEMMA LastTurnIs ==
  ASSUME NEW b \in Seq(Char)
  PROVE  /\ LastTurn(b) \in Cutting(Len(b))
         /\ Drained(b, LastTurn(b)) = LastTurn(b)
<1>1. PICK n \in Nat : n = Len(b)
  OBVIOUS
<1>2. n \in 0..n
  OBVIOUS
<1>3. Turns(b)[n] \in Cutting(n)
  BY <1>1, <1>2, TurnsAre
<1>4. Drained(b, Turns(b)[n]) = Turns(b)[n]
  BY <1>1, TurnsEnd
<1> QED
  BY <1>1, <1>3, <1>4 DEF LastTurn

\* It goes on from where the last turn stopped, whatever follows.
LEMMA DrainGoesOn ==
  ASSUME NEW b \in Seq(Char), NEW s \in Seq(Char),
         NEW o \in Nat, Covers(b, s, o), NEW F \in Seq(Frame), NEW c \in Seq(Char),
         Reads(s \o c, o + 1, F)
  PROVE  ReadsTurn(s \o c, o, LastTurn(b), F \o LastTurn(b).frames)
<1>1. PICK t \in Seq(Char) : t = s \o c /\ Covers(b, t, o)
  BY CoversMore
<1>2. PICK n \in Nat, m \in Nat : n = Len(b) /\ m = Len(t)
  OBVIOUS
<1>3. Reads(t, o + 1, F)
  BY <1>1
<1>4. Reads(t, o + Turns(b)[n].at, F \o Turns(b)[n].frames)
  BY <1>1, <1>2, <1>3, DrainReads
<1>5. LastTurn(b) = Turns(b)[n]
  BY <1>2 DEF LastTurn
<1> QED
  BY <1>1, <1>4, <1>5 DEF ReadsTurn

\* What a drained buffer leaves holds the stream from a place the scan comes to.
LEMMA DrainKeeps ==
  ASSUME NEW b \in Seq(Char), NEW s \in Seq(Char),
         NEW o \in Nat, Fits(b, s, o), NEW F \in Seq(Frame),
         \A c \in Seq(Char) : Reads(s \o c, o + 1, F)
  PROVE  /\ DrainFrames(b).frames \in Seq(Frame)
         /\ Streams(s, DrainFrames(b).left, F \o DrainFrames(b).frames)
<1>1. PICK d \in Cutting(Len(b)) : d = LastTurn(b)
  BY LastTurnIs
<1>2. d.frames \in Seq(Frame) /\ F \o d.frames \in Seq(Frame)
  BY ConcatProperties DEF Cutting
<1>3. Covers(b, s, o)
  BY DEF Fits
<1>4. \A c \in Seq(Char) : ReadsTurn(s \o c, o, d, F \o d.frames)
  BY <1>1, <1>3, DrainGoesOn
<1>5. Reading(s) = F \o d.frames
  <2>1. s \o <<>> = s /\ <<>> \in Seq(Char)
    BY ConcatEmptySeq, EmptySeq
  <2>2. ReadsTurn(s, o, d, F \o d.frames)
    BY <1>4, <2>1
  <2>3. Drained(b, d) = d
    BY <1>1, LastTurnIs
  <2> QED
    BY <2>2, <2>3, LastReads
<1>6. PICK q \in 0..Len(b) : d.at = q + 1 /\ q \in Nat
  <2>1. d.at \in 1..(Len(b) + 1)
    BY DEF Cutting
  <2>2. d.at - 1 \in 0..Len(b) /\ d.at = (d.at - 1) + 1 /\ d.at - 1 \in Nat
    BY <2>1
  <2> QED
    BY <2>2
<1>7. PICK v \in 0..Len(s) : v = o + q /\ From(b, q + 1) = From(s, v + 1)
  BY FromShifts
<1>8. \A c \in Seq(Char) : Reads(s \o c, v + 1, F \o d.frames)
  <2>1. o + (q + 1) = v + 1
    BY <1>6, <1>7
  <2> QED
    BY <1>1, <1>4, <1>6, <2>1 DEF ReadsTurn
<1>9. DrainFrames(b).left = From(s, v + 1) /\ DrainFrames(b).frames = d.frames
  BY <1>1, <1>6, <1>7 DEF DrainFrames, LastTurn
<1>10. Streams(s, From(s, v + 1), F \o d.frames)
  BY <1>2, <1>5, <1>8, Zenon DEF Streams
<1> QED
  BY <1>2, <1>9, <1>10

\* A read leaves the buffer at such a place, with all the frames before it.
LEMMA ReadKeeps ==
  ASSUME NEW h \in Seq(Char), NEW buffer, NEW F, Streams(h, buffer, F), NEW got \in Seq(Char)
  PROVE  /\ DrainFrames(buffer \o got).frames \in Seq(Frame)
         /\ Streams(h \o got, DrainFrames(buffer \o got).left,
                    F \o DrainFrames(buffer \o got).frames)
<1>1. \A c \in Seq(Char) : got \o c \in Seq(Char) /\ (h \o got) \o c = h \o (got \o c)
  BY Continued
<1>2. PICK o \in 0..Len(h) : /\ F \in Seq(Frame) /\ buffer = From(h, o + 1)
                             /\ \A c \in Seq(Char) : Reads(h \o c, o + 1, F)
  BY Zenon DEF Streams
<1>3. \A c \in Seq(Char) : Reads((h \o got) \o c, o + 1, F)
  BY <1>1, <1>2
<1>4. buffer \in Seq(Char) /\ Fits(buffer, h, o)
  BY <1>2, FromFits
<1>5. o \in Nat
  OBVIOUS
<1>6. Fits(buffer \o got, h \o got, o)
  BY <1>4, <1>5, ReadFits
<1>7. h \o got \in Seq(Char) /\ buffer \o got \in Seq(Char)
  BY <1>4, ConcatProperties
<1> QED
  BY <1>2, <1>3, <1>5, <1>6, <1>7, DrainKeeps

-----------------------------------------------------------------------------
(* Queues *)

\* Appending behind the second of two sequences is appending behind both.
LEMMA AppendBehind ==
  ASSUME NEW s \in Seq(Frame), NEW t \in Seq(Frame), NEW f \in Frame
  PROVE  Append(s \o t, f) = s \o Append(t, f)
<1>1. <<f>> \in Seq(Frame) /\ s \o t \in Seq(Frame)
  BY ConcatProperties
<1>2. Append(s \o t, f) = (s \o t) \o <<f>>
  BY <1>1, AppendIsConcat
<1>3. Append(t, f) = t \o <<f>>
  BY AppendIsConcat
<1>4. (s \o t) \o <<f>> = s \o (t \o <<f>>)
  BY <1>1, Regrouped, Zenon
<1> QED
  BY <1>2, <1>3, <1>4

\* A queue was given these of the decoded frames, in order and once.
InOrder(took, D, K) ==
  /\ took \in Seq(Frame) /\ D \in Seq(Frame) /\ K \in SUBSET (1..Len(D)) /\ IsFiniteSet(K)
  /\ Len(took) = Cardinality(K)
  /\ \A i \in K : took[Cardinality(K \cap 1..i)] = D[i]

\* A frame that goes elsewhere, or nowhere, leaves it so.
LEMMA OrderStays ==
  ASSUME NEW took, NEW D, NEW K, InOrder(took, D, K), NEW f \in Frame
  PROVE  InOrder(took, Append(D, f), K)
<1>1. D \in Seq(Frame) /\ K \in SUBSET (1..Len(D))
  BY DEF InOrder
<1>2. PICK n \in Nat : n = Len(D)
  BY <1>1
<1>3. /\ Append(D, f) \in Seq(Frame) /\ Len(Append(D, f)) = n + 1
      /\ \A i \in 1..n : Append(D, f)[i] = D[i]
  BY <1>1, <1>2, AppendAt
<1>4. K \in SUBSET (1..n) /\ K \in SUBSET (1..(n + 1))
  BY <1>1, <1>2
<1>5. K \in SUBSET (1..Len(Append(D, f)))
  BY <1>3, <1>4
<1>6. \A i \in K : Append(D, f)[i] = D[i]
  BY <1>3, <1>4
<1> QED
  BY <1>3, <1>5, <1>6, Zenon DEF InOrder

\* How many of a set of numbers are no larger than one of them
LEMMA CountUpTo ==
  ASSUME NEW n \in Nat, NEW K \in SUBSET (1..n), IsFiniteSet(K), NEW i \in K
  PROVE  Cardinality(K \cap 1..i) \in 1..Cardinality(K)
<1>1. PICK J : J = K \cap 1..i /\ J \in SUBSET K /\ i \in J
  <2>1. K \cap 1..i \in SUBSET K /\ i \in K \cap 1..i
    OBVIOUS
  <2> QED
    BY <2>1
<1>2. IsFiniteSet(J) /\ Cardinality(J) <= Cardinality(K)
  BY <1>1, FS_Subset
<1>3. Cardinality(J) \in Nat /\ Cardinality(K) \in Nat
  BY <1>2, FS_CardinalityType
<1>4. Cardinality(J) # 0
  BY <1>1, <1>2, FS_EmptySet
<1> QED
  BY <1>1, <1>2, <1>3, <1>4

\* A frame that goes to the queue is its last.
LEMMA OrderGrows ==
  ASSUME NEW took, NEW D, NEW K, InOrder(took, D, K), NEW f \in Frame,
         NEW N, N = Len(D) + 1
  PROVE  InOrder(Append(took, f), Append(D, f), K \cup {N})
<1>1. D \in Seq(Frame) /\ K \in SUBSET (1..Len(D)) /\ took \in Seq(Frame) /\ IsFiniteSet(K)
  BY DEF InOrder
<1>2. PICK n \in Nat, c \in Nat : n = Len(D) /\ c = Len(took)
  BY <1>1
<1>3. /\ Append(D, f) \in Seq(Frame) /\ Len(Append(D, f)) = n + 1
      /\ \A i \in 1..n : Append(D, f)[i] = D[i]
      /\ Append(D, f)[n + 1] = f
  BY <1>1, <1>2, AppendAt
<1>4. /\ Append(took, f) \in Seq(Frame) /\ Len(Append(took, f)) = c + 1
      /\ \A i \in 1..c : Append(took, f)[i] = took[i]
      /\ Append(took, f)[c + 1] = f
  BY <1>1, <1>2, AppendAt
<1>5. PICK L : L = K \cup {N}
  OBVIOUS
<1>6. K \in SUBSET (1..n) /\ N = n + 1 /\ N \notin K /\ Cardinality(K) = c
  <2>1. K \in SUBSET (1..n) /\ N = n + 1
    BY <1>1, <1>2
  <2>2. Cardinality(K) = c
    BY <1>2 DEF InOrder
  <2> QED
    BY <2>1, <2>2
<1>7. IsFiniteSet(L) /\ Cardinality(L) = c + 1
  BY <1>1, <1>5, <1>6, FS_AddElement
<1>8. L \in SUBSET (1..Len(Append(D, f)))
  <2>1. L \in SUBSET (1..(n + 1))
    <3>1. K \in SUBSET (1..n) /\ N = n + 1 /\ L = K \cup {N}
      BY <1>5, <1>6
    <3>2. \A i \in 1..n : i \in 1..(n + 1)
      OBVIOUS
    <3>3. n + 1 \in 1..(n + 1)
      OBVIOUS
    <3> QED
      BY <3>1, <3>2, <3>3, Zenon
  <2>2. 1..Len(Append(D, f)) = 1..(n + 1)
    BY <1>3, Zenon
  <2> QED
    BY <2>1, <2>2, Zenon
<1>9. ASSUME NEW i \in K PROVE Append(took, f)[Cardinality(L \cap 1..i)] = Append(D, f)[i]
  <2>1. L \cap 1..i = K \cap 1..i
    BY <1>5, <1>6
  <2>2. Cardinality(K \cap 1..i) \in 1..c
    BY <1>1, <1>6, CountUpTo
  <2>3. took[Cardinality(K \cap 1..i)] = D[i]
    BY DEF InOrder
  <2>4. i \in 1..n
    BY <1>6
  <2>5. Append(D, f)[i] = D[i]
    BY <1>3, <2>4
  <2>6. Append(took, f)[Cardinality(K \cap 1..i)] = took[Cardinality(K \cap 1..i)]
    BY <1>4, <2>2, Zenon
  <2> QED
    BY <2>1, <2>3, <2>5, <2>6, Zenon
<1>10. Append(took, f)[Cardinality(L \cap 1..N)] = Append(D, f)[N]
  <2>1. L \cap 1..N = L
    <3>1. K \in SUBSET (1..n) /\ N = n + 1 /\ L = K \cup {N}
      BY <1>5, <1>6
    <3>2. \A i \in 1..n : i \in 1..N
      BY <3>1
    <3>3. N \in 1..N
      BY <3>1
    <3>4. \A i \in L : i \in 1..N
      BY <3>1, <3>2, <3>3, Zenon
    <3> QED
      BY <3>4, Zenon
  <2> QED
    BY <1>3, <1>4, <1>6, <1>7, <2>1
<1>11. \A i \in L : Append(took, f)[Cardinality(L \cap 1..i)] = Append(D, f)[i]
  BY <1>5, <1>9, <1>10
<1>12. Len(Append(took, f)) = Cardinality(L)
  BY <1>4, <1>7
<1>13. InOrder(Append(took, f), Append(D, f), L)
  BY <1>3, <1>4, <1>7, <1>8, <1>11, <1>12, Zenon DEF InOrder
<1> QED
  BY <1>5, <1>13

\* What LoraInboxes and the histories of it are made of
Collection == [boxes : [Kinds -> Seq(Frame)], decoded : Seq(Frame), refused : SUBSET Nat]

\* The frames of a kind that were not dropped
KeptOf(c, kind) ==
  {i \in DOMAIN c.decoded : c.decoded[i].kind = kind /\ i \notin c.refused}

\* Only sync requests were dropped.
Dropped(c) ==
  \A i \in c.refused : i \in 1..Len(c.decoded) /\ c.decoded[i].kind = "syncRequest"

\* Every queue, with what the polls took from it, holds the decoded frames of its kind.
Queues(took, c) ==
  /\ took \in [Kinds -> Seq(Frame)] /\ c \in Collection /\ Dropped(c)
  /\ \A kind \in Kinds : InOrder(took[kind] \o c.boxes[kind], c.decoded, KeptOf(c, kind))

\* The number the next decoded frame gets
NextOf(c) == Len(c.decoded) + 1

\* What a frame's queue does with it
LEMMA CollectedIs ==
  ASSUME NEW c \in Collection, NEW f \in Frame
  PROVE  /\ Collected(c, f) \in Collection
         /\ Collected(c, f).decoded = Append(c.decoded, f)
         /\ \/ /\ f.kind = "syncRequest" /\ Collected(c, f).boxes = c.boxes
               /\ Collected(c, f).refused = c.refused \cup {NextOf(c)}
            \/ /\ Collected(c, f).refused = c.refused
               /\ Collected(c, f).boxes = [c.boxes EXCEPT ![f.kind] = Append(@, f)]
<1>1. c.boxes \in [Kinds -> Seq(Frame)] /\ c.decoded \in Seq(Frame) /\ c.refused \in SUBSET Nat
  BY DEF Collection
<1>2. f.kind \in Kinds /\ c.boxes[f.kind] \in Seq(Frame)
  BY <1>1 DEF Frame
<1>3. PICK grown : grown = [c.boxes EXCEPT ![f.kind] = Append(@, f)]
  OBVIOUS
<1>4. PICK box \in Seq(Frame), n \in Nat : box = c.boxes[f.kind] /\ n = Len(box)
  <2>1. Len(c.boxes[f.kind]) \in Nat
    BY <1>2
  <2> QED
    BY <1>2, <2>1
<1>5. Append(box, f) \in Seq(Frame) /\ Append(box, f) # box
  <2>1. Append(box, f) \in Seq(Frame) /\ Len(Append(box, f)) = n + 1
    BY <1>4, AppendAt
  <2>2. n + 1 # n
    OBVIOUS
  <2> QED
    BY <1>4, <2>1, <2>2
<1>6. grown \in [Kinds -> Seq(Frame)] /\ grown # c.boxes
  <2>1. grown[f.kind] = Append(box, f)
    BY <1>1, <1>2, <1>4, <1>3
  <2>2. grown \in [Kinds -> Seq(Frame)]
    BY <1>1, <1>4, <1>5, <1>3
  <2> QED
    BY <1>4, <1>5, <2>1, <2>2
<1>7. PICK D \in Seq(Frame), R \in SUBSET Nat :
        D = Append(c.decoded, f) /\ R = c.refused \cup {NextOf(c)}
  <2>1. NextOf(c) \in Nat
    BY <1>1 DEF NextOf
  <2>2. Append(c.decoded, f) \in Seq(Frame)
    BY <1>1, AppendProperties
  <2>3. c.refused \cup {NextOf(c)} \in SUBSET Nat
    BY <1>1, <2>1
  <2> QED
    BY <2>2, <2>3
<1>8. \/ f.kind = "syncRequest" /\ Queued(c.boxes, f) = c.boxes
      \/ Queued(c.boxes, f) = grown
  BY <1>3 DEF Queued
<1>9. CASE f.kind = "syncRequest" /\ Queued(c.boxes, f) = c.boxes
  <2>1. Collected(c, f) = [boxes |-> c.boxes, decoded |-> D, refused |-> R]
    BY <1>7, <1>9 DEF Collected, NextOf
  <2>2. PICK boxes \in [Kinds -> Seq(Frame)] : boxes = c.boxes
    BY <1>1
  <2>3. Collected(c, f) \in Collection
    BY <2>1, <2>2 DEF Collection
  <2> QED
    BY <1>7, <1>9, <2>1, <2>3
<1>10. CASE Queued(c.boxes, f) = grown
  <2>1. Collected(c, f) = [boxes |-> grown, decoded |-> D, refused |-> c.refused]
    BY <1>6, <1>7, <1>10 DEF Collected
  <2>2. PICK old \in SUBSET Nat : old = c.refused
    BY <1>1
  <2>3. Collected(c, f) \in Collection
    BY <1>6, <2>1, <2>2 DEF Collection
  <2> QED
    BY <1>7, <1>3, <2>1, <2>3
<1> QED
  BY <1>8, <1>9, <1>10

\* What LoraInboxes keeps of the frames that were decoded before
LEMMA KeptStays ==
  ASSUME NEW c \in Collection, Dropped(c), NEW f \in Frame, NEW e \in Collection,
         e.decoded = Append(c.decoded, f), NEW kind \in Kinds
  PROVE  /\ e.refused = c.refused /\ f.kind = kind =>
              KeptOf(e, kind) = KeptOf(c, kind) \cup {NextOf(c)}
         /\ e.refused = c.refused /\ f.kind # kind => KeptOf(e, kind) = KeptOf(c, kind)
         /\ e.refused = c.refused \cup {NextOf(c)} => KeptOf(e, kind) = KeptOf(c, kind)
<1>1. PICK N : N = NextOf(c) /\ N = Len(c.decoded) + 1
  BY DEF NextOf
<1>2. PICK D \in Seq(Frame), E \in Seq(Frame) : D = c.decoded /\ E = e.decoded
  BY DEF Collection
<1>3. PICK n \in Nat : n = Len(D)
  OBVIOUS
<1>4. Len(E) = n + 1 /\ E[n + 1] = f /\ \A i \in 1..n : E[i] = D[i]
  BY <1>2, <1>3, AppendAt
<1>5. DOMAIN D = 1..n /\ DOMAIN E = 1..(n + 1) /\ N = n + 1
  BY <1>2, <1>3, <1>4, <1>1
<1>6. N \notin c.refused
  <2>1. \A i \in c.refused : i \in 1..n
    BY <1>2, <1>3 DEF Dropped
  <2> QED
    BY <1>5, <2>1
<1>7. \A i : i \in 1..(n + 1) <=> i \in 1..n \/ i = N
  BY <1>5
<1>8. N \notin 1..n /\ E[N] = f
  BY <1>4, <1>5
<1>9. KeptOf(c, kind) = {i \in 1..n : D[i].kind = kind /\ i \notin c.refused}
  BY <1>2, <1>5, Zenon DEF KeptOf
<1>10. KeptOf(e, kind) = {i \in 1..(n + 1) : E[i].kind = kind /\ i \notin e.refused}
  BY <1>2, <1>5, Zenon DEF KeptOf
<1>11. ASSUME e.refused = c.refused
       PROVE  /\ f.kind = kind => KeptOf(e, kind) = KeptOf(c, kind) \cup {N}
              /\ f.kind # kind => KeptOf(e, kind) = KeptOf(c, kind)
  BY <1>4, <1>6, <1>7, <1>8, <1>9, <1>10, <1>11
<1>12. ASSUME e.refused = c.refused \cup {N} PROVE KeptOf(e, kind) = KeptOf(c, kind)
  BY <1>4, <1>6, <1>7, <1>8, <1>9, <1>10, <1>12
<1> QED
  BY <1>11, <1>12, <1>1

\* A frame that goes to its queue, or is dropped, leaves the queues in order.
LEMMA CollectedKeeps ==
  ASSUME NEW took, NEW c, Queues(took, c), NEW f \in Frame
  PROVE  Queues(took, Collected(c, f))
<1>1. /\ took \in [Kinds -> Seq(Frame)] /\ c \in Collection /\ Dropped(c)
      /\ \A kind \in Kinds : InOrder(took[kind] \o c.boxes[kind], c.decoded, KeptOf(c, kind))
  BY DEF Queues
<1>2. PICK e \in Collection :
        /\ e = Collected(c, f) /\ e.decoded = Append(c.decoded, f)
        /\ \/ /\ f.kind = "syncRequest" /\ e.boxes = c.boxes
              /\ e.refused = c.refused \cup {NextOf(c)}
           \/ /\ e.refused = c.refused
              /\ e.boxes = [c.boxes EXCEPT ![f.kind] = Append(@, f)]
  <2>1. /\ Collected(c, f) \in Collection
        /\ Collected(c, f).decoded = Append(c.decoded, f)
        /\ \/ /\ f.kind = "syncRequest" /\ Collected(c, f).boxes = c.boxes
              /\ Collected(c, f).refused = c.refused \cup {NextOf(c)}
           \/ /\ Collected(c, f).refused = c.refused
              /\ Collected(c, f).boxes = [c.boxes EXCEPT ![f.kind] = Append(@, f)]
    BY <1>1, CollectedIs
  <2> QED
    BY <2>1
<1>3. c.boxes \in [Kinds -> Seq(Frame)] /\ c.decoded \in Seq(Frame) /\ f.kind \in Kinds
  BY <1>1 DEF Collection, Frame
<1>4. PICK n \in Nat, N \in Nat : n = Len(c.decoded) /\ N = NextOf(c) /\ N = n + 1
  <2>1. Len(c.decoded) \in Nat /\ Len(c.decoded) + 1 \in Nat
    BY <1>3
  <2> QED
    BY <2>1 DEF NextOf
<1>5. /\ Len(e.decoded) = n + 1
      /\ \A i \in 1..n : e.decoded[i] = c.decoded[i]
      /\ e.decoded[N] = f
  BY <1>2, <1>3, <1>4, AppendAt
<1>6. Dropped(e)
  <2>1. \A i \in c.refused : i \in 1..n /\ c.decoded[i].kind = "syncRequest"
    BY <1>1, <1>4 DEF Dropped
  <2>2. \A i \in 1..n : i \in 1..Len(e.decoded)
    BY <1>5
  <2>3. N \in 1..Len(e.decoded)
    BY <1>4, <1>5
  <2>4. \A i \in c.refused : i \in 1..Len(e.decoded) /\ e.decoded[i].kind = "syncRequest"
    BY <1>5, <2>1, <2>2
  <2>5. N = NextOf(c)
    BY <1>4
  <2>6. e.refused = c.refused \/ (e.refused = c.refused \cup {N} /\ f.kind = "syncRequest")
    BY <1>2, <2>5
  <2>7. \A i \in e.refused : i \in c.refused \/ (i = N /\ f.kind = "syncRequest")
    BY <2>6
  <2> QED
    BY <1>5, <2>3, <2>4, <2>7 DEF Dropped
<1>7. ASSUME NEW kind \in Kinds
      PROVE  InOrder(took[kind] \o e.boxes[kind], e.decoded, KeptOf(e, kind))
  <2>1. took[kind] \in Seq(Frame) /\ c.boxes[kind] \in Seq(Frame)
    BY <1>1, <1>3
  <2>2. PICK had : had = took[kind] \o c.boxes[kind] /\ InOrder(had, c.decoded, KeptOf(c, kind))
    BY <1>1
  <2>3. /\ e.refused = c.refused /\ f.kind = kind =>
              KeptOf(e, kind) = KeptOf(c, kind) \cup {N}
        /\ e.refused = c.refused /\ f.kind # kind => KeptOf(e, kind) = KeptOf(c, kind)
        /\ e.refused = c.refused \cup {N} => KeptOf(e, kind) = KeptOf(c, kind)
    <3>1. N = NextOf(c)
      BY <1>4
    <3>2. c \in Collection /\ Dropped(c) /\ e.decoded = Append(c.decoded, f)
      BY <1>1, <1>2
    <3> QED
      BY <3>1, <3>2, KeptStays
  <2>4. InOrder(had, e.decoded, KeptOf(c, kind))
    BY <1>2, <2>2, OrderStays
  <2>5. CASE e.boxes = c.boxes /\ e.refused = c.refused \cup {N}
    BY <2>2, <2>3, <2>4, <2>5
  <2>6. CASE /\ e.refused = c.refused
             /\ e.boxes = [c.boxes EXCEPT ![f.kind] = Append(@, f)] /\ f.kind # kind
    <3>1. e.boxes[kind] = c.boxes[kind]
      BY <1>3, <2>6
    <3> QED
      BY <2>2, <2>3, <2>4, <2>6, <3>1
  <2>7. CASE /\ e.refused = c.refused
             /\ e.boxes = [c.boxes EXCEPT ![f.kind] = Append(@, f)] /\ f.kind = kind
    <3>1. e.boxes[kind] = Append(c.boxes[kind], f)
      BY <1>3, <2>7
    <3>2. took[kind] \o e.boxes[kind] = Append(had, f)
      BY <2>1, <2>2, <3>1, AppendBehind
    <3>3. N = Len(c.decoded) + 1
      BY <1>4
    <3>4. InOrder(Append(had, f), Append(c.decoded, f), KeptOf(c, kind) \cup {N})
      BY <2>2, <3>3, OrderGrows
    <3> QED
      BY <1>2, <2>3, <2>7, <3>2, <3>4
  <2> QED
    BY <1>2, <1>4, <2>5, <2>6, <2>7
<1> QED
  BY <1>1, <1>2, <1>6, <1>7 DEF Queues

\* The frames of a read go to their queues one after the other.
LEMMA RoutedIs ==
  ASSUME NEW c \in Collection, NEW frames \in Seq(Frame), NEW n \in Nat, n = Len(frames)
  PROVE  /\ Routed(c, frames)[0] = c
         /\ \A k \in 1..n : Routed(c, frames)[k] = Collected(Routed(c, frames)[k - 1], frames[k])
<1> DEFINE IsIt(f) == f = [k \in 0..n |-> IF k = 0 THEN c ELSE Collected(f[k - 1], frames[k])]
<1>1. PICK g : g = Routed(c, frames) /\ g = CHOOSE f : IsIt(f)
  BY DEF Routed
<1>2. \A k \in 1..n : frames[k] \in Frame
  OBVIOUS
<1>3. \A k \in 1..n : \A d \in Collection : Collected(d, frames[k]) \in Collection
  BY <1>2, CollectedIs
<1>4. \A k \in 1..n : k - 1 \in 0..n /\ k \in 0..n /\ k # 0
  OBVIOUS
<1>5. \E f : IsIt(f)
  <2>1. PICK next : next = [k \in 1..n |-> [d \in Collection |-> Collected(d, frames[k])]]
    OBVIOUS
  <2>2. MakesNext(next, n, Collection)
    BY <1>3, <2>1 DEF MakesNext
  <2>3. PICK f : Goes(f, n, Collection, c, next)
    BY <2>2, Recursion
  <2>4. \A k \in 1..n : f[k] = Collected(f[k - 1], frames[k])
    BY <1>4, <2>1, <2>3 DEF Goes
  <2>5. f[0] = c /\ f = [k \in 0..n |-> f[k]]
    BY <2>3 DEF Goes
  <2>6. \A k \in 0..n : k = 0 \/ k \in 1..n
    OBVIOUS
  <2>7. \A k \in 0..n : f[k] = IF k = 0 THEN c ELSE Collected(f[k - 1], frames[k])
    BY <2>4, <2>5, <2>6
  <2> QED
    BY <2>5, <2>7
<1> HIDE DEF IsIt
<1>6. IsIt(g)
  BY <1>1, <1>5
<1>7. g[0] = c /\ \A k \in 1..n : g[k] = Collected(g[k - 1], frames[k])
  <2>1. 0 \in 0..n
    OBVIOUS
  <2> QED
    BY <1>4, <1>6, <2>1 DEF IsIt
<1> QED
  BY <1>1, <1>7

\* The first frames of a read and the next one are the first ones of one more.
LEMMA OneMore ==
  ASSUME NEW s \in Seq(Frame), NEW k \in Nat, k + 1 <= Len(s)
  PROVE  SubSeq(s, 1, k + 1) = Append(SubSeq(s, 1, k), s[k + 1])
<1>1. PICK m \in Nat : m = k + 1 /\ 1 <= m + 1 /\ m <= Len(s) /\ m = m + 1 - 1
  OBVIOUS
<1>2. /\ SubSeq(s, 1, m) \in Seq(Frame) /\ Len(SubSeq(s, 1, m)) = m
      /\ \A i \in 1..m : SubSeq(s, 1, m)[i] = s[1 + i - 1]
  BY <1>1, SubSeqAt
<1>3. k <= Len(s) /\ 1 <= k + 1 /\ k = k + 1 - 1
  OBVIOUS
<1>4. /\ SubSeq(s, 1, k) \in Seq(Frame) /\ Len(SubSeq(s, 1, k)) = k
      /\ \A i \in 1..k : SubSeq(s, 1, k)[i] = s[1 + i - 1]
  BY <1>3, SubSeqAt
<1>5. s[k + 1] \in Frame
  OBVIOUS
<1>6. PICK t \in Seq(Frame) : t = SubSeq(s, 1, k) /\ k = Len(t)
  BY <1>4
<1>7. /\ Append(t, s[k + 1]) \in Seq(Frame) /\ Len(Append(t, s[k + 1])) = k + 1
      /\ \A i \in 1..k : Append(t, s[k + 1])[i] = t[i]
      /\ Append(t, s[k + 1])[k + 1] = s[k + 1]
  BY <1>5, <1>6, AppendAt
<1>8. ASSUME NEW i \in 1..m PROVE SubSeq(s, 1, m)[i] = Append(t, s[k + 1])[i]
  <2>1. 1 + i - 1 = i
    OBVIOUS
  <2>2. CASE i = k + 1
    BY <1>2, <1>7, <2>1, <2>2
  <2>3. CASE i \in 1..k
    BY <1>2, <1>4, <1>6, <1>7, <2>1, <2>3
  <2>4. i = k + 1 \/ i \in 1..k
    BY <1>1
  <2> QED
    BY <2>2, <2>3, <2>4
<1>9. m = Len(SubSeq(s, 1, m)) /\ m = Len(Append(t, s[k + 1]))
  BY <1>1, <1>2, <1>7
<1>10. SubSeq(s, 1, m) = Append(t, s[k + 1])
  BY <1>2, <1>7, <1>8, <1>9, SameSeq
<1> QED
  BY <1>1, <1>6, <1>10

\* The frames of a read go to their queues in order, and none is forgotten.
LEMMA RouteKeeps ==
  ASSUME NEW took, NEW c, Queues(took, c), NEW frames \in Seq(Frame)
  PROVE  /\ Queues(took, Route(c, frames))
         /\ Route(c, frames).decoded = c.decoded \o frames
<1>1. PICK n \in Nat : n = Len(frames)
  OBVIOUS
<1>2. c \in Collection /\ c.decoded \in Seq(Frame)
  BY DEF Queues, Collection
<1>3. PICK R : R = Routed(c, frames) /\ R[0] = c
               /\ \A k \in 1..n : R[k] = Collected(R[k - 1], frames[k])
  BY <1>1, <1>2, RoutedIs
<1>4. \A d \in Collection, f \in Frame : Collected(d, f).decoded = Append(d.decoded, f)
  BY CollectedIs
<1>5. \A s, t \in Seq(Frame), f \in Frame : Append(s \o t, f) = s \o Append(t, f)
  BY AppendBehind
<1> DEFINE M == {k \in 0..n : /\ Queues(took, R[k])
                              /\ R[k].decoded = c.decoded \o SubSeq(frames, 1, k)}
<1>6. 0 \in M
  <2>1. SubSeq(frames, 1, 0) = <<>>
    BY SubSeqEmpty
  <2>2. c.decoded \o <<>> = c.decoded
    BY <1>2, ConcatEmptySeq
  <2>3. 0 \in 0..n
    OBVIOUS
  <2>4. Queues(took, R[0]) /\ R[0].decoded = c.decoded \o SubSeq(frames, 1, 0)
    BY <1>3, <2>1, <2>2, Zenon
  <2> QED
    BY <2>3, <2>4
<1>7. ASSUME NEW k \in 1..n, k - 1 \in M PROVE k \in M
  <2>1. PICK j \in Nat : j = k - 1 /\ k = j + 1 /\ j + 1 <= Len(frames) /\ k \in 0..n
    BY <1>1
  <2>2. frames[k] \in Frame
    BY <1>1
  <2>3. PICK d : d = R[j] /\ Queues(took, d) /\ R[k] = Collected(d, frames[k])
                 /\ d.decoded = c.decoded \o SubSeq(frames, 1, j)
    BY <1>3, <1>7, <2>1
  <2>4. Queues(took, R[k])
    BY <2>2, <2>3, CollectedKeeps
  <2>5. R[k].decoded = Append(d.decoded, frames[k])
    <3>1. d \in Collection
      BY <2>3, Zenon DEF Queues
    <3> QED
      BY <1>4, <2>2, <2>3, <3>1, Zenon
  <2>6. SubSeq(frames, 1, k) = Append(SubSeq(frames, 1, j), frames[k])
    BY <2>1, OneMore
  <2>7. SubSeq(frames, 1, j) \in Seq(Frame)
    <3>1. j <= Len(frames) /\ 1 <= j + 1 /\ j = j + 1 - 1
      BY <2>1
    <3> QED
      BY <3>1, SubSeqAt
  <2>8. c.decoded \o SubSeq(frames, 1, k) = Append(d.decoded, frames[k])
    <3>1. Append(c.decoded \o SubSeq(frames, 1, j), frames[k])
            = c.decoded \o Append(SubSeq(frames, 1, j), frames[k])
      BY <1>2, <1>5, <2>2, <2>7
    <3> QED
      BY <2>3, <2>6, <3>1
  <2> QED
    BY <2>1, <2>4, <2>5, <2>8
<1>8. M \in SUBSET (0..n)
  OBVIOUS
<1>9. n \in M
  <2> HIDE DEF M
  <2>1. M = 0..n
    BY <1>6, <1>7, <1>8, Upwards
  <2> QED
    BY <2>1
<1>10. SubSeq(frames, 1, n) = frames
  BY <1>1, SubSeqFull
<1>11. Route(c, frames) = R[n]
  BY <1>1, <1>3 DEF Route
<1> QED
  BY <1>9, <1>10, <1>11

-----------------------------------------------------------------------------
(* The line *)

\* What is known of a frame that was written
Sent == [frame : Small, at : Nat \ {0}, ok : BOOLEAN]

\* A frame's bytes lie on the line from its place up to another: all of them if it is intact,
\* and if not then its last ones, from behind the last damaged byte on.
Spread(E, at, ok, end, line, D) ==
  /\ at <= end /\ end <= at + Len(E)
  /\ ok => end = at + Len(E)
  /\ ~ ok => at <= D
  /\ \A p \in at..(end - 1) : (ok \/ D < p) => line[p] = E[p + Len(E) + 1 - end]

Lies(s, end, line, D) == Spread(EncodeFrame(s.frame), s.at, s.ok, end, line, D)

\* Where the bytes of a frame end
EndAt(frames, line, i) == IF i < Len(frames) THEN frames[i + 1].at ELSE Len(line) + 1

\* The line is the frames written, one behind the other.
Laid(frames, line, D) ==
  /\ frames = <<>> => line = <<>>
  /\ frames # <<>> => frames[1].at = 1
  /\ \A a, b \in 1..Len(frames) : a <= b => frames[a].at <= frames[b].at
  /\ \A i \in 1..Len(frames) : Lies(frames[i], EndAt(frames, line, i), line, D)

\* The same bytes up to a place
SameUpTo(line, next, P) == \A p \in Nat \ {0} : p < P => next[p] = line[p]

\* The same bytes from behind a place up to another, where some are gone
SameBehind(line, next, P, end, gone) ==
  \A p \in Nat : P < p /\ p < end => next[p] = line[p + gone]

\* The encoding's length is a number.
LEMMA EncodedLen ==
  ASSUME NEW f \in Small
  PROVE  Len(EncodeFrame(f)) \in Nat /\ Len(EncodeFrame(f)) >= 6 /\ EncodeFrame(f) \in Seq(Char)
<1>1. PICK n \in Nat : n = Len(f.payload)
  BY DEF Small, Frame
<1>2. EncodeFrame(f) \in Seq(Char) /\ Len(EncodeFrame(f)) = n + 6
  BY <1>1, EncodedIs
<1> QED
  BY <1>2

\* What happens behind a frame does not move it.
LEMMA SpreadStill ==
  ASSUME NEW E \in Seq(Char), NEW at \in Nat \ {0}, NEW ok \in BOOLEAN, NEW end \in Nat, NEW line,
         NEW D \in Nat, Spread(E, at, ok, end, line, D),
         NEW next, NEW D2 \in Nat, D <= D2, NEW P \in Nat, end <= P, SameUpTo(line, next, P)
  PROVE  Spread(E, at, ok, end, next, D2)
<1>1. PICK e \in Nat : e = Len(E)
  OBVIOUS
<1>2. /\ at <= end /\ end <= at + e
      /\ ok => end = at + e
      /\ ~ ok => at <= D
      /\ \A p \in at..(end - 1) : (ok \/ D < p) => line[p] = E[p + e + 1 - end]
  BY <1>1, Zenon DEF Spread
<1>3. ASSUME NEW p \in at..(end - 1), ok \/ D2 < p PROVE next[p] = E[p + e + 1 - end]
  <2>1. p \in Nat \ {0} /\ p < P /\ (ok \/ D < p)
    BY <1>3
  <2>2. next[p] = line[p]
    BY <2>1 DEF SameUpTo
  <2> QED
    BY <1>2, <2>1, <2>2
<1>4. ~ ok => at <= D2
  BY <1>2
<1> QED
  BY <1>1, <1>2, <1>3, <1>4, Zenon DEF Spread

\* A byte damaged or lost leaves the last ones of its frame.
LEMMA SpreadSpoilt ==
  ASSUME NEW E \in Seq(Char), NEW at \in Nat \ {0}, NEW ok \in BOOLEAN, NEW end \in Nat, NEW line,
         NEW D \in Nat, Spread(E, at, ok, end, line, D),
         NEW next, NEW D2 \in Nat, D <= D2, NEW P \in Nat, at <= P, P < end, P <= D2,
         NEW gone \in Nat, gone <= 1, NEW end2 \in Nat, end2 + gone = end,
         SameBehind(line, next, P, end2, gone)
  PROVE  Spread(E, at, FALSE, end2, next, D2)
<1>1. PICK e \in Nat : e = Len(E)
  OBVIOUS
<1>2. /\ at <= end /\ end <= at + e
      /\ \A p \in at..(end - 1) : (ok \/ D < p) => line[p] = E[p + e + 1 - end]
  BY <1>1, Zenon DEF Spread
<1>3. ASSUME NEW p \in at..(end2 - 1), D2 < p PROVE next[p] = E[p + e + 1 - end2]
  <2>1. p \in Nat /\ P < p /\ D < p /\ p < end2
    BY <1>3
  <2>2. PICK q \in at..(end - 1) : q = p + gone /\ D < q /\ q + e + 1 - end = p + e + 1 - end2
    <3>1. /\ p + gone \in at..(end - 1) /\ D < p + gone
          /\ (p + gone) + e + 1 - end = p + e + 1 - end2
      BY <2>1
    <3> QED
      BY <3>1
  <2>3. next[p] = line[q]
    BY <2>1, <2>2 DEF SameBehind
  <2> QED
    BY <1>2, <2>2, <2>3
<1>4. at <= D2 /\ at <= end2 /\ end2 <= at + e
  BY <1>2
<1>5. \A p \in at..(end2 - 1) : (FALSE \/ D2 < p) => next[p] = E[p + e + 1 - end2]
  BY <1>3
<1> QED
  BY <1>1, <1>4, <1>5, Zenon DEF Spread

\* A frame just written is intact.
LEMMA SpreadNew ==
  ASSUME NEW E \in Seq(Char), NEW line \in Seq(Char), NEW D \in Nat,
         NEW at \in Nat \ {0}, at = Len(line) + 1, NEW end \in Nat, end = Len(line \o E) + 1
  PROVE  Spread(E, at, TRUE, end, line \o E, D)
<1>1. PICK e \in Nat, n \in Nat : e = Len(E) /\ n = Len(line)
  OBVIOUS
<1>2. Len(line \o E) = n + e /\ \A i \in 1..e : (line \o E)[n + i] = E[i]
  BY <1>1, BytesAt
<1>3. at = n + 1 /\ end = n + e + 1 /\ end = at + e
  BY <1>1, <1>2
<1>4. ASSUME NEW p \in at..(end - 1) PROVE (line \o E)[p] = E[p + e + 1 - end]
  <2>1. PICK i \in 1..e : i = p + e + 1 - end /\ n + i = p
    <3>1. p + e + 1 - end \in 1..e /\ n + (p + e + 1 - end) = p
      BY <1>3
    <3> QED
      BY <3>1
  <2>2. (line \o E)[n + i] = E[i]
    BY <1>2
  <2> QED
    BY <2>1, <2>2
<1>5. at <= end /\ end <= at + e
  BY <1>3
<1> QED
  BY <1>1, <1>3, <1>4, <1>5, Zenon DEF Spread

\* Frames begin and end on the line.
LEMMA EndsOnLine ==
  ASSUME NEW frames \in Seq(Sent), NEW line \in Seq(Char), NEW D, Laid(frames, line, D),
         NEW i \in 1..Len(frames)
  PROVE  /\ EndAt(frames, line, i) \in Nat
         /\ frames[i].at <= EndAt(frames, line, i) /\ EndAt(frames, line, i) <= Len(line) + 1
<1>1. PICK c \in Nat, n \in Nat : c = Len(frames) /\ n = Len(line)
  OBVIOUS
<1>2. \A j \in 1..c : frames[j] \in Sent /\ frames[j].at \in Nat \ {0}
  <2>1. \A j \in 1..c : frames[j] \in Sent
    BY <1>1
  <2> QED
    BY <2>1 DEF Sent
<1>3. \A a, b \in 1..c : a <= b => frames[a].at <= frames[b].at
  BY <1>1 DEF Laid
<1>4. \A j \in 1..c : frames[j].at <= EndAt(frames, line, j)
  BY <1>1 DEF Laid, Lies, Spread
<1>5. frames[c].at <= n + 1
  <2>1. c \in 1..c /\ EndAt(frames, line, c) = n + 1
    BY <1>1 DEF EndAt
  <2> QED
    BY <1>4, <2>1
<1>6. CASE i < c
  <2>1. PICK j \in 1..c : j = i + 1 /\ j <= c /\ c \in 1..c
    <3>1. i + 1 \in 1..c /\ c \in 1..c
      BY <1>6
    <3> QED
      BY <3>1
  <2>2. EndAt(frames, line, i) = frames[j].at
    BY <1>1, <1>6, <2>1 DEF EndAt
  <2>3. PICK x \in Nat, y \in Nat : x = frames[j].at /\ y = frames[c].at /\ x <= y /\ y <= n + 1
    BY <1>2, <1>3, <1>5, <2>1
  <2>4. x <= n + 1
    BY <2>3
  <2> QED
    BY <1>1, <1>4, <2>2, <2>3, <2>4
<1>7. CASE ~ (i < c)
  <2>1. EndAt(frames, line, i) = n + 1
    BY <1>1, <1>7 DEF EndAt
  <2> QED
    BY <1>1, <1>4, <2>1
<1> QED
  BY <1>6, <1>7

\* A frame is written behind the others.
LEMMA LaidWritten ==
  ASSUME NEW frames \in Seq(Sent), NEW line \in Seq(Char), NEW D \in Nat, Laid(frames, line, D),
         NEW f \in Small, NEW s, s = [frame |-> f, at |-> Len(line) + 1, ok |-> TRUE]
  PROVE  /\ Append(frames, s) \in Seq(Sent)
         /\ Laid(Append(frames, s), line \o EncodeFrame(f), D)
<1>1. PICK c \in Nat, n \in Nat, at \in Nat \ {0} : c = Len(frames) /\ n = Len(line) /\ at = n + 1
  <2>1. Len(frames) \in Nat /\ Len(line) \in Nat /\ Len(line) + 1 \in Nat \ {0}
    OBVIOUS
  <2> QED
    BY <2>1
<1>2. PICK E \in Seq(Char) : E = EncodeFrame(f)
  BY EncodedLen
<1>3. PICK next \in Seq(Char) : next = line \o E
  BY BytesAt
<1>4. s \in Sent /\ s = [frame |-> f, at |-> at, ok |-> TRUE]
  BY <1>1 DEF Sent
<1>5. PICK all \in Seq(Sent) : /\ all = Append(frames, s) /\ Len(all) = c + 1
                               /\ \A i \in 1..c : all[i] = frames[i]
                               /\ all[c + 1] = s
  <2>1. /\ Append(frames, s) \in Seq(Sent) /\ Len(Append(frames, s)) = c + 1
        /\ \A i \in 1..c : Append(frames, s)[i] = frames[i]
        /\ Append(frames, s)[c + 1] = s
    BY <1>1, <1>4, AppendAt
  <2> QED
    BY <2>1
<1>6. \A i \in 1..c : frames[i] \in Sent /\ frames[i].at \in Nat \ {0}
  <2>1. \A j \in 1..c : frames[j] \in Sent
    BY <1>1
  <2> QED
    BY <2>1 DEF Sent
<1>7. \A i \in 1..c : /\ EndAt(frames, line, i) \in Nat
                      /\ frames[i].at <= EndAt(frames, line, i)
                      /\ EndAt(frames, line, i) <= at
  BY <1>1, EndsOnLine
<1>8. all # <<>> /\ (frames = <<>> => line = <<>>)
  <2>1. all # <<>>
    BY <1>4, <1>5, AppendProperties
  <2> QED
    BY <2>1 DEF Laid
<1>9. all[1].at = 1
  <2>1. CASE c = 0
    <3>1. n = 0
      <4>1. frames = <<>>
        BY <1>1, <2>1, EmptySeq
      <4>2. line = <<>>
        BY <1>8, <4>1
      <4> QED
        BY <1>1, <4>2
    <3> QED
      BY <1>1, <1>4, <1>5, <2>1, <3>1
  <2>2. CASE c # 0
    <3>1. 1 \in 1..c /\ frames # <<>>
      BY <1>1, <2>2
    <3>2. frames[1].at = 1
      BY <3>1 DEF Laid
    <3> QED
      BY <1>5, <3>1, <3>2
  <2> QED
    BY <2>1, <2>2
<1>10. ASSUME NEW a \in 1..(c + 1), NEW b \in 1..(c + 1), a <= b PROVE all[a].at <= all[b].at
  <2>1. CASE b <= c
    <3>1. a \in 1..c /\ b \in 1..c
      BY <1>10, <2>1
    <3>2. frames[a].at <= frames[b].at
      BY <1>1, <1>10, <3>1 DEF Laid
    <3> QED
      BY <1>5, <3>1, <3>2
  <2>2. CASE a <= c /\ b = c + 1
    <3>1. a \in 1..c
      BY <2>2
    <3>2. /\ frames[a].at \in Nat /\ EndAt(frames, line, a) \in Nat
          /\ frames[a].at <= EndAt(frames, line, a) /\ EndAt(frames, line, a) <= at
      BY <1>6, <1>7, <3>1
    <3>3. frames[a].at <= at
      BY <3>2, SMTT(20)
    <3> QED
      BY <1>4, <1>5, <2>2, <3>1, <3>3
  <2>3. CASE a = c + 1 /\ b = c + 1
    BY <1>4, <1>5, <2>3
  <2>4. b <= c \/ (a <= c /\ b = c + 1) \/ (a = c + 1 /\ b = c + 1)
    BY <1>10
  <2> QED
    BY <2>1, <2>2, <2>3, <2>4
<1>11. SameUpTo(line, next, at)
  <2>1. \A i \in 1..n : next[i] = line[i]
    BY <1>1, <1>3, BytesAt
  <2>2. \A p \in Nat \ {0} : p < at => p \in 1..n
    BY <1>1
  <2> QED
    BY <2>1, <2>2 DEF SameUpTo
<1>12. ASSUME NEW i \in 1..c PROVE Lies(all[i], EndAt(all, next, i), next, D)
  <2>1. PICK j \in Nat : j = EndAt(frames, line, i) /\ j <= at
    BY <1>7
  <2>2. EndAt(all, next, i) = j
    <3>1. EndAt(all, next, i) = all[i + 1].at
      BY <1>5 DEF EndAt
    <3>2. CASE i < c
      <4>1. i + 1 \in 1..c
        BY <3>2
      <4> QED
        BY <1>1, <1>5, <2>1, <3>1, <3>2, <4>1 DEF EndAt
    <3>3. CASE i = c
      BY <1>1, <1>4, <1>5, <2>1, <3>1, <3>3 DEF EndAt
    <3>4. i < c \/ i = c
      OBVIOUS
    <3> QED
      BY <3>2, <3>3, <3>4
  <2>3. Lies(frames[i], j, line, D)
    BY <1>1, <2>1 DEF Laid
  <2>4. PICK g \in Sent : g = frames[i] /\ g = all[i]
    BY <1>5, <1>6
  <2>5. g.frame \in Small /\ g.at \in Nat \ {0} /\ g.ok \in BOOLEAN
    BY DEF Sent
  <2>6. EncodeFrame(g.frame) \in Seq(Char)
    BY <2>5, EncodedLen
  <2>7. D <= D /\ at \in Nat
    OBVIOUS
  <2>8. Spread(EncodeFrame(g.frame), g.at, g.ok, j, next, D)
    <3>1. Spread(EncodeFrame(g.frame), g.at, g.ok, j, line, D)
      BY <2>3, <2>4 DEF Lies
    <3>2. j <= at
      BY <2>1
    <3> QED
      BY <1>11, <2>5, <2>6, <2>7, <3>1, <3>2, SpreadStill
  <2> QED
    BY <2>2, <2>4, <2>8 DEF Lies
<1>13. Lies(all[c + 1], EndAt(all, next, c + 1), next, D)
  <2>1. PICK end \in Nat : end = Len(next) + 1 /\ end = EndAt(all, next, c + 1)
    <3>1. EndAt(all, next, c + 1) = Len(next) + 1 /\ Len(next) + 1 \in Nat
      BY <1>5 DEF EndAt
    <3> QED
      BY <3>1
  <2>2. Spread(E, at, TRUE, end, line \o E, D)
    <3>1. at = Len(line) + 1 /\ end = Len(line \o E) + 1
      BY <1>1, <1>3, <2>1
    <3> QED
      BY <3>1, SpreadNew
  <2>3. all[c + 1].frame = f /\ all[c + 1].at = at /\ all[c + 1].ok = TRUE
    BY <1>4, <1>5
  <2>4. Spread(EncodeFrame(f), at, TRUE, end, next, D)
    BY <1>2, <1>3, <2>2
  <2> QED
    BY <2>1, <2>3, <2>4, Zenon DEF Lies
<1>14. \A i \in 1..(c + 1) : i \in 1..c \/ i = c + 1
  OBVIOUS
<1>15. \A i \in 1..(c + 1) : Lies(all[i], EndAt(all, next, i), next, D)
  BY <1>12, <1>13, <1>14
<1>16. 1..Len(all) = 1..(c + 1)
  BY <1>5
<1>17. Laid(all, next, D)
  BY <1>8, <1>9, <1>10, <1>15, <1>16 DEF Laid
<1> QED
  BY <1>2, <1>3, <1>5, <1>17

\* A byte of the last frame is damaged or lost.
Spoils(line, next, P, gone) ==
  /\ next \in Seq(Char) /\ Len(next) + gone = Len(line)
  /\ SameUpTo(line, next, P) /\ SameBehind(line, next, P, Len(next) + 1, gone)

\* Of one frame's record, one field changes.
Spoilt(F, c) == [F EXCEPT ![c].ok = FALSE]
WithFrame(F, c, x, y) == [F EXCEPT ![c] = [frame |-> x, at |-> y, ok |-> FALSE]]

\* To harm a frame is to write its record again, harmed.
LEMMA OkChanged ==
  \A F, c, x, y, z : F[c] = [frame |-> x, at |-> y, ok |-> z]
    => Spoilt(F, c) = WithFrame(F, c, x, y)
<1> SUFFICES ASSUME NEW F, NEW c, NEW x, NEW y, NEW z, F[c] = [frame |-> x, at |-> y, ok |-> z]
    PROVE [F EXCEPT ![c].ok = FALSE] = [F EXCEPT ![c] = [frame |-> x, at |-> y, ok |-> FALSE]]
  BY DEF Spoilt, WithFrame
<1>1. PICK w : w = FALSE
  OBVIOUS
<1>2. [F EXCEPT ![c].ok = w] = [F EXCEPT ![c] = [frame |-> x, at |-> y, ok |-> w]]
  <2>1. [F[c] EXCEPT !.ok = w] = [frame |-> x, at |-> y, ok |-> w]
    OBVIOUS
  <2>2. [F EXCEPT ![c].ok = w] = [F EXCEPT ![c] = [F[c] EXCEPT !.ok = w]]
    OBVIOUS
  <2> QED
    BY <2>1, <2>2
<1>3. [F EXCEPT ![c].ok = w] = [F EXCEPT ![c].ok = FALSE]
  BY <1>1, Zenon
<1>4. [frame |-> x, at |-> y, ok |-> w] = [frame |-> x, at |-> y, ok |-> FALSE]
  BY <1>1, Zenon
<1> QED
  BY <1>2, <1>3, <1>4, Zenon

\* The frame spoilt is not intact any more, and the others lie where they did.
LEMMA LaidSpoilt ==
  ASSUME NEW frames \in Seq(Sent), NEW line \in Seq(Char), NEW D \in Nat, Laid(frames, line, D),
         NEW c \in Nat \ {0}, c = Len(frames), NEW P \in Nat, frames[c].at <= P, P <= Len(line),
         NEW D2 \in Nat, D <= D2, P <= D2, NEW gone \in Nat, gone <= 1,
         NEW next, Spoils(line, next, P, gone)
  PROVE  /\ [frames EXCEPT ![c].ok = FALSE] \in Seq(Sent)
         /\ Laid([frames EXCEPT ![c].ok = FALSE], next, D2)
<1>1. c \in 1..c /\ \A i \in 1..c : frames[i] \in Sent
  OBVIOUS
<1>2. PICK f \in Small, at \in Nat \ {0}, ok \in BOOLEAN :
        frames[c] = [frame |-> f, at |-> at, ok |-> ok]
  <2>1. frames[c] \in Sent
    BY <1>1
  <2> QED
    BY <2>1 DEF Sent
<1>3. PICK s \in Sent : s = [frame |-> f, at |-> at, ok |-> FALSE]
  BY DEF Sent
<1>4. PICK all \in Seq(Sent) : /\ all = [frames EXCEPT ![c].ok = FALSE] /\ c = Len(all)
                               /\ all[c] = s /\ \A i \in 1..c : i # c => all[i] = frames[i]
  <2>1. [frames EXCEPT ![c].ok = FALSE] = [frames EXCEPT ![c] = s]
    <3>1. Spoilt(frames, c) = WithFrame(frames, c, f, at)
      BY <1>2, OkChanged, Zenon
    <3>2. [frames EXCEPT ![c].ok = FALSE]
          = [frames EXCEPT ![c] = [frame |-> f, at |-> at, ok |-> FALSE]]
      BY <3>1 DEF Spoilt, WithFrame
    <3> QED
      BY <1>3, <3>2, Zenon
  <2>2. /\ [frames EXCEPT ![c] = s] \in Seq(Sent) /\ Len([frames EXCEPT ![c] = s]) = c
        /\ [frames EXCEPT ![c] = s][c] = s
        /\ \A i \in 1..c : i # c => [frames EXCEPT ![c] = s][i] = frames[i]
    BY <1>1
  <2> QED
    BY <2>1, <2>2
<1>5. \A i \in 1..c : all[i].at = frames[i].at
  BY <1>2, <1>3, <1>4
<1>6. next \in Seq(Char) /\ Len(next) + gone = Len(line) /\ SameUpTo(line, next, P)
      /\ SameBehind(line, next, P, Len(next) + 1, gone)
  BY DEF Spoils
<1>7. ASSUME NEW i \in 1..c, i # c PROVE Lies(all[i], EndAt(all, next, i), next, D2)
  <2>1. PICK j \in 1..c : j = i + 1 /\ i < c
    <3>1. i + 1 \in 1..c /\ i < c
      BY <1>7
    <3> QED
      BY <3>1
  <2>2. PICK x \in Nat : x = frames[j].at /\ x = EndAt(frames, line, i) /\ x = EndAt(all, next, i)
    <3>1. EndAt(frames, line, i) = frames[j].at
      BY <2>1 DEF EndAt
    <3>2. EndAt(all, next, i) = all[j].at
      BY <1>4, <2>1 DEF EndAt
    <3>3. frames[j].at \in Nat
      BY <1>1 DEF Sent
    <3> QED
      BY <1>5, <3>1, <3>2, <3>3
  <2>3. x <= P
    <3>1. frames[j].at <= frames[c].at
      BY <1>1, <2>1 DEF Laid
    <3>2. frames[c].at = at
      BY <1>2
    <3> QED
      BY <2>2, <3>1, <3>2
  <2>4. PICK g \in Sent : g = frames[i] /\ g = all[i]
    BY <1>1, <1>4, <1>7
  <2>5. g.frame \in Small /\ g.at \in Nat \ {0} /\ g.ok \in BOOLEAN
    BY DEF Sent
  <2>6. EncodeFrame(g.frame) \in Seq(Char)
    BY <2>5, EncodedLen
  <2>7. Spread(EncodeFrame(g.frame), g.at, g.ok, x, line, D)
    BY <2>2, <2>4 DEF Lies, Laid
  <2>8. Spread(EncodeFrame(g.frame), g.at, g.ok, x, next, D2)
    BY <1>6, <2>3, <2>5, <2>6, <2>7, SpreadStill
  <2> QED
    BY <2>2, <2>4, <2>8 DEF Lies
<1>8. Lies(all[c], EndAt(all, next, c), next, D2)
  <2>1. PICK x \in Nat : x = Len(line) + 1 /\ x = EndAt(frames, line, c)
    <3>1. EndAt(frames, line, c) = Len(line) + 1 /\ Len(line) + 1 \in Nat
      BY DEF EndAt
    <3> QED
      BY <3>1
  <2>2. PICK y \in Nat : y = Len(next) + 1 /\ y = EndAt(all, next, c) /\ y + gone = x
    <3>1. EndAt(all, next, c) = Len(next) + 1
      BY <1>4 DEF EndAt
    <3>2. Len(next) \in Nat /\ Len(next) + gone = Len(line)
      BY <1>6
    <3>3. Len(next) + 1 \in Nat /\ (Len(next) + 1) + gone = x
      BY <2>1, <3>2
    <3> QED
      BY <3>1, <3>3
  <2>3. PICK E \in Seq(Char) : E = EncodeFrame(f)
    BY EncodedLen
  <2>4. Spread(E, at, ok, x, line, D)
    <3>1. Lies(frames[c], x, line, D)
      BY <1>1, <2>1 DEF Laid
    <3>2. frames[c].frame = f /\ frames[c].at = at /\ frames[c].ok = ok
      BY <1>2
    <3> QED
      BY <2>3, <3>1, <3>2, Zenon DEF Lies
  <2>5. at <= P /\ P < x /\ SameBehind(line, next, P, y, gone)
    BY <1>2, <1>6, <2>1, <2>2
  <2>6. Spread(E, at, FALSE, y, next, D2)
    <3>1. y + gone = x /\ D <= D2 /\ P <= D2
      BY <2>2
    <3> QED
      BY <2>4, <2>5, <3>1, SpreadSpoilt
  <2>7. all[c].frame = f /\ all[c].at = at /\ all[c].ok = FALSE
    BY <1>3, <1>4
  <2> QED
    BY <2>2, <2>3, <2>6, <2>7, Zenon DEF Lies
<1>9. all # <<>> /\ all[1].at = 1
  <2>1. frames # <<>> /\ all # <<>>
    BY <1>4, EmptySeq
  <2>2. frames[1].at = 1
    BY <2>1 DEF Laid
  <2>3. 1 \in 1..c
    OBVIOUS
  <2> QED
    BY <1>5, <2>1, <2>2, <2>3
<1>10. \A a, b \in 1..c : a <= b => all[a].at <= all[b].at
  BY <1>5 DEF Laid
<1>11. \A i \in 1..c : Lies(all[i], EndAt(all, next, i), next, D2)
  BY <1>7, <1>8
<1>12. Laid(all, next, D2)
  BY <1>4, <1>9, <1>10, <1>11 DEF Laid
<1> QED
  BY <1>4, <1>12

\* A damaged byte spoils the line at its place.
LEMMA DamageSpoils ==
  ASSUME NEW h \in Seq(Char), NEW a \in Seq(Char), NEW i \in 1..Len(a), NEW b \in Char
  PROVE  /\ [a EXCEPT ![i] = b] \in Seq(Char)
         /\ Spoils(h \o a, h \o [a EXCEPT ![i] = b], Len(h) + i, 0)
<1>1. PICK m \in Nat, n \in Nat, P \in Nat : m = Len(h) /\ n = Len(a) /\ P = m + i
  <2>1. Len(h) \in Nat /\ Len(a) \in Nat /\ Len(h) + i \in Nat
    OBVIOUS
  <2> QED
    BY <2>1
<1>2. PICK z \in Seq(Char) : /\ z = [a EXCEPT ![i] = b] /\ n = Len(z)
                             /\ \A j \in 1..n : j # i => z[j] = a[j]
  <2>1. /\ [a EXCEPT ![i] = b] \in Seq(Char) /\ Len([a EXCEPT ![i] = b]) = n
        /\ \A j \in 1..n : j # i => [a EXCEPT ![i] = b][j] = a[j]
    BY <1>1
  <2> QED
    BY <2>1
<1>3. PICK x \in Seq(Char) : /\ x = h \o a /\ Len(x) = m + n
                             /\ \A j \in 1..m : x[j] = h[j]
                             /\ \A j \in 1..n : x[m + j] = a[j]
  <2>1. /\ h \o a \in Seq(Char) /\ Len(h \o a) = m + n
        /\ \A j \in 1..m : (h \o a)[j] = h[j]
        /\ \A j \in 1..n : (h \o a)[m + j] = a[j]
    BY <1>1, ConcatAt
  <2> QED
    BY <2>1
<1>4. PICK y \in Seq(Char) : /\ y = h \o z /\ Len(y) = m + n
                             /\ \A j \in 1..m : y[j] = h[j]
                             /\ \A j \in 1..n : y[m + j] = z[j]
  <2>1. /\ h \o z \in Seq(Char) /\ Len(h \o z) = m + n
        /\ \A j \in 1..m : (h \o z)[j] = h[j]
        /\ \A j \in 1..n : (h \o z)[m + j] = z[j]
    BY <1>1, <1>2, ConcatAt
  <2> QED
    BY <2>1
<1>5. ASSUME NEW p \in 1..(m + n), p # P PROVE y[p] = x[p]
  <2>1. CASE p <= m
    <3>1. p \in 1..m
      BY <2>1
    <3> QED
      BY <1>3, <1>4, <3>1
  <2>2. CASE ~ (p <= m)
    <3>1. PICK j \in 1..n : p = m + j /\ j # i
      <4>1. p - m \in 1..n /\ p = m + (p - m) /\ p - m # i
        BY <1>1, <1>5, <2>2
      <4> QED
        BY <4>1
    <3> QED
      BY <1>2, <1>3, <1>4, <3>1
  <2> QED
    BY <2>1, <2>2
<1>6. SameUpTo(x, y, P)
  <2>1. \A p \in Nat \ {0} : p < P => p \in 1..(m + n) /\ p # P
    BY <1>1
  <2> QED
    BY <1>5, <2>1 DEF SameUpTo
<1>7. SameBehind(x, y, P, Len(y) + 1, 0)
  <2>1. ASSUME NEW p \in Nat, P < p, p < Len(y) + 1 PROVE y[p] = x[p + 0]
    <3>1. p \in 1..(m + n) /\ p # P /\ p + 0 = p
      BY <1>1, <1>4, <2>1
    <3> QED
      BY <1>5, <3>1
  <2> QED
    BY <2>1 DEF SameBehind
<1>8. Len(y) + 0 = Len(x)
  BY <1>3, <1>4
<1> QED
  BY <1>1, <1>2, <1>3, <1>4, <1>6, <1>7, <1>8 DEF Spoils

\* One sequence behind the other
Joined(x, s, t, m, n) ==
  /\ Len(x) = m + n
  /\ \A j \in 1..m : x[j] = s[j]
  /\ \A j \in 1..n : x[m + j] = t[j]

\* What concatenation joins
LEMMA JoinedIs ==
  ASSUME NEW s \in Seq(Char), NEW t \in Seq(Char),
         NEW m \in Nat, m = Len(s), NEW n \in Nat, n = Len(t)
  PROVE  Joined(s \o t, s, t, m, n)
BY ConcatAt DEF Joined

\* A sequence without the byte behind k others
Without(z, a, k, w) ==
  /\ Len(z) = k + w
  /\ \A j \in 1..k : z[j] = a[j]
  /\ \A j \in 1..w : z[k + j] = a[k + 1 + j]

\* A number of bytes before one and a number behind it
Parts(n, k, w) == n = k + 1 + w

\* A sequence without one of its bytes
LEMMA Removed ==
  ASSUME NEW a \in Seq(Char), NEW k \in Nat, NEW w \in Nat, Parts(Len(a), k, w)
  PROVE  RemoveByte(a, k + 1) \in Seq(Char) /\ Without(RemoveByte(a, k + 1), a, k, w)
<1>1. PICK n \in Nat : n = Len(a) /\ Parts(n, k, w)
  OBVIOUS
<1>2. PICK u \in Seq(Char) : u = SubSeq(a, 1, k) /\ Len(u) = k /\ \A j \in 1..k : u[j] = a[j]
  <2>1. /\ SubSeq(a, 1, k) \in Seq(Char) /\ Len(SubSeq(a, 1, k)) = k
        /\ \A j \in 1..k : SubSeq(a, 1, k)[j] = a[1 + j - 1]
    BY <1>1, SubSeqAt DEF Parts
  <2>2. \A j \in 1..k : 1 + j - 1 = j
    OBVIOUS
  <2> QED
    BY <2>1, <2>2
<1>3. PICK v \in Seq(Char) : /\ v = SubSeq(a, (k + 1) + 1, n) /\ Len(v) = w
                             /\ \A j \in 1..w : v[j] = a[k + 1 + j]
  <2>1. PICK c \in Nat \ {0} : c = k + 1 + 1 /\ c <= n + 1 /\ w = n + 1 - c
    <3>1. k + 1 + 1 \in Nat \ {0} /\ k + 1 + 1 <= n + 1 /\ w = n + 1 - (k + 1 + 1)
      BY <1>1 DEF Parts
    <3> QED
      BY <3>1
  <2>2. c <= n + 1 /\ w = n + 1 - c /\ n <= Len(a)
    BY <1>1, <2>1
  <2>3. /\ SubSeq(a, c, n) \in Seq(Char) /\ Len(SubSeq(a, c, n)) = w
        /\ \A j \in 1..w : SubSeq(a, c, n)[j] = a[c + j - 1]
    BY <2>2, SubSeqAt
  <2>4. \A j \in 1..w : c + j - 1 = k + 1 + j
    BY <2>1
  <2>5. SubSeq(a, (k + 1) + 1, n) = SubSeq(a, c, n)
    BY <2>1
  <2>6. \A j \in 1..w : SubSeq(a, c, n)[j] = a[k + 1 + j]
    BY <2>3, <2>4, Zenon
  <2> QED
    BY <2>3, <2>5, <2>6, Zenon
<1>4. /\ u \o v \in Seq(Char) /\ Len(u \o v) = k + w
      /\ \A j \in 1..k : (u \o v)[j] = u[j]
      /\ \A j \in 1..w : (u \o v)[k + j] = v[j]
  <2>1. k = Len(u) /\ w = Len(v)
    BY <1>2, <1>3
  <2> QED
    BY <2>1, ConcatAt, SMTT(20)
<1>5. u \o v = RemoveByte(a, k + 1)
  <2>1. RemoveByte(a, k + 1) = SubSeq(a, 1, k) \o SubSeq(a, (k + 1) + 1, n)
    <3>1. (k + 1) - 1 = k
      OBVIOUS
    <3>2. RemoveByte(a, k + 1) = SubSeq(a, 1, (k + 1) - 1) \o SubSeq(a, (k + 1) + 1, Len(a))
      BY Zenon DEF RemoveByte, From
    <3> QED
      BY <1>1, <3>1, <3>2, Zenon
  <2> QED
    BY <1>2, <1>3, <2>1, Zenon
<1>6. Without(u \o v, a, k, w)
  BY <1>2, <1>3, <1>4, Zenon DEF Without
<1> QED
  BY <1>4, <1>5, <1>6, Zenon

\* A lost byte spoils the line at its place, and what is behind it moves up.
LEMMA LossSpoils ==
  ASSUME NEW h \in Seq(Char), NEW a \in Seq(Char), NEW k \in Nat, NEW w \in Nat,
         Parts(Len(a), k, w)
  PROVE  Spoils(h \o a, h \o RemoveByte(a, k + 1), Len(h) + (k + 1), 1)
<1>1. PICK m \in Nat, n \in Nat, l \in Nat, P \in Nat :
        m = Len(h) /\ n = Len(a) /\ Parts(n, k, w) /\ l = k + w /\ P = m + (k + 1)
  <2>1. Len(h) \in Nat /\ Len(a) \in Nat /\ k + w \in Nat /\ Len(h) + (k + 1) \in Nat
    OBVIOUS
  <2> QED
    BY <2>1
<1>2. m = Len(h) /\ n = Len(a)
  BY <1>1
<1>3. n = k + 1 + w /\ l = k + w /\ P = m + (k + 1)
  BY <1>1 DEF Parts
<1>4. PICK z \in Seq(Char) : z = RemoveByte(a, k + 1)
  BY Removed
<1>5. PICK x \in Seq(Char) : x = h \o a
  BY ConcatProperties
<1>6. PICK y \in Seq(Char) : y = h \o z
  BY ConcatProperties
<1>7. Without(z, a, k, w)
  BY <1>4, Removed
<1>8. Joined(x, h, a, m, n)
  <2>1. Joined(h \o a, h, a, m, n)
    BY <1>2, JoinedIs
  <2> QED
    BY <1>5, <2>1, Zenon
<1>9. Joined(y, h, z, m, l)
  <2>1. l = Len(z) /\ m = Len(h)
    BY <1>2, <1>3, <1>7 DEF Without
  <2>2. Joined(h \o z, h, z, m, l)
    BY <2>1, JoinedIs
  <2> QED
    BY <1>6, <2>2, Zenon
<1>10. SameUpTo(x, y, P)
  <2>1. ASSUME NEW p \in Nat \ {0}, p < P PROVE y[p] = x[p]
    <3>1. CASE p <= m
      <4>1. p \in 1..m
        BY <3>1
      <4> QED
        BY <1>8, <1>9, <4>1 DEF Joined
    <3>2. CASE ~ (p <= m)
      <4>1. PICK j \in 1..k : p = m + j /\ j \in 1..l /\ j \in 1..n
        <5>1. p - m \in 1..k /\ p = m + (p - m) /\ p - m \in 1..l /\ p - m \in 1..n
          BY <1>3, <2>1, <3>2
        <5> QED
          BY <5>1
      <4> QED
        BY <1>7, <1>8, <1>9, <4>1 DEF Joined, Without
    <3> QED
      BY <3>1, <3>2
  <2> QED
    BY <2>1 DEF SameUpTo
<1>11. SameBehind(x, y, P, Len(y) + 1, 1)
  <2>1. ASSUME NEW p \in Nat, P < p, p < m + l + 1 PROVE y[p] = x[p + 1]
    <3>1. PICK j \in 1..w, u \in 1..l, v \in 1..n :
            p = m + u /\ p + 1 = m + v /\ u = k + j /\ v = k + 1 + j
      <4>1. PICK j \in 1..w : j = p - m - k
        BY <1>3, <2>1
      <4>2. /\ k + j \in 1..l /\ k + 1 + j \in 1..n
            /\ p = m + (k + j) /\ p + 1 = m + (k + 1 + j)
        BY <1>3, <4>1
      <4> QED
        BY <4>2
    <3>2. y[p] = z[u]
      <4>1. p = m + u
        BY <3>1
      <4>2. y[m + u] = z[u]
        BY <1>9 DEF Joined
      <4> QED
        BY <4>1, <4>2
    <3>3. x[p + 1] = a[v]
      <4>1. p + 1 = m + v
        BY <3>1
      <4>2. x[m + v] = a[v]
        BY <1>8 DEF Joined
      <4> QED
        BY <4>1, <4>2
    <3>4. z[u] = a[v]
      <4>1. z[k + j] = a[k + 1 + j]
        BY <1>7 DEF Without
      <4> QED
        BY <3>1, <4>1
    <3> QED
      BY <3>2, <3>3, <3>4
  <2> QED
    BY <1>9, <2>1 DEF Joined, SameBehind
<1>12. Len(y) + 1 = Len(x)
  BY <1>3, <1>8, <1>9 DEF Joined
<1> QED
  BY <1>1, <1>4, <1>5, <1>6, <1>10, <1>11, <1>12 DEF Spoils

-----------------------------------------------------------------------------
(* The frames beyond the reach of a fault *)

\* Every frame that begins before a place is all there and ends by it.
Clear(t, x) == \A q \in MagicAt(t) : q < x => Whole(t, q) /\ EndOf(t, q) <= x

\* A frame is among those found.
Holds(r, f) == \E k \in 1..Len(r.frames) : r.frames[k] = f

\* Within a frame, or off a magic, the scan finds nothing.
LEMMA ScannedSkips ==
  ASSUME NEW t, NEW p \in Nat, NEW r \in Found, p < r.free \/ p \notin MagicAt(t)
  PROVE  Scanned(t, p, r) = r
<1>1. r.free \in Nat
  BY DEF Found
<1>2. CASE p < r.free
  <2>1. ~ (p >= r.free)
    BY <1>1, <1>2
  <2> QED
    BY <1>2, <2>1 DEF Scanned
<1>3. CASE p \notin MagicAt(t)
  BY <1>3 DEF Scanned
<1> QED
  BY <1>2, <1>3

\* Then a frame may start at that place.
LEMMA ClearReads ==
  ASSUME NEW t \in Seq(Char), NEW m \in Nat, m = Len(t), NEW x \in 1..(m + 1), Clear(t, x)
  PROVE  Scan(t)[x - 1].free <= x
<1>1. PICK n \in Nat : n = x - 1 /\ n <= m /\ \A p \in 0..n : p \in 0..m
  BY x - 1 \in Nat
<1> DEFINE M == {p \in 0..n : Scan(t)[p].free <= x}
<1>2. 0 \in M
  <2>1. Scan(t)[0].free = 1
    BY ScanIs
  <2> QED
    BY <2>1
<1>3. ASSUME NEW p \in 1..n, p - 1 \in M PROVE p \in M
  <2>1. p \in 1..m /\ p - 1 \in 0..m /\ p < x
    BY <1>1
  <2>2. PICK r \in Found : r = Scan(t)[p - 1] /\ r.free <= x
    BY <1>3, <2>1, ScanIs
  <2>3. Scan(t)[p] = Scanned(t, p, r)
    BY <2>1, <2>2, ScanIs
  <2>4. r.free \in Nat /\ p \in Nat
    BY DEF Found
  <2>5. CASE p < r.free \/ p \notin MagicAt(t)
    <3>1. Scanned(t, p, r) = r
      BY <2>4, <2>5, ScannedSkips
    <3> QED
      BY <2>2, <2>3, <3>1
  <2>6. CASE ~ (p < r.free \/ p \notin MagicAt(t))
    <3>1. p >= r.free /\ p \in MagicAt(t)
      BY <2>4, <2>6
    <3>2. Whole(t, p) /\ EndOf(t, p) <= x
      BY <2>1, <3>1 DEF Clear
    <3>3. Scanned(t, p, r).free = EndOf(t, p)
      BY <2>6, <3>1, <3>2 DEF Scanned
    <3> QED
      BY <2>3, <3>2, <3>3
  <2> QED
    BY <2>5, <2>6
<1>4. M \in SUBSET (0..n)
  OBVIOUS
<1> HIDE DEF M
<1>5. n \in M
  <2>1. M = 0..n
    BY <1>2, <1>3, <1>4, Upwards
  <2> QED
    BY <2>1
<1> QED
  BY <1>1, <1>5 DEF M

\* What the scan has found stays found.
LEMMA HoldsOn ==
  ASSUME NEW t \in Seq(Char), NEW m \in Nat, m = Len(t), NEW p \in 1..m, NEW r \in Found,
         NEW f, Holds(r, f)
  PROVE  Holds(Scanned(t, p, r), f)
<1>1. CASE p < r.free \/ p \notin MagicAt(t)
  <2>1. Scanned(t, p, r) = r
    BY <1>1, ScannedSkips
  <2> QED
    BY <2>1
<1>2. CASE ~ (p < r.free \/ p \notin MagicAt(t)) /\ Whole(t, p)
  <2>1. PICK F \in Seq(Frame), a \in Nat : F = r.frames /\ a = Len(F)
    BY DEF Found
  <2>2. PICK G \in Seq(Frame), b \in Nat :
          G = DecodeFrame(SubSeq(t, p, EndOf(t, p) - 1)) /\ b = Len(G)
    BY <1>2, WholeIs
  <2>3. r.free \in Nat /\ p >= r.free /\ p \in MagicAt(t)
    BY <1>2 DEF Found
  <2>4. Scanned(t, p, r).frames = F \o G
    BY <1>2, <2>1, <2>2, <2>3 DEF Scanned
  <2>5. Len(F \o G) = a + b /\ \A k \in 1..a : (F \o G)[k] = F[k]
    <3>1. a = Len(F) /\ b = Len(G)
      BY <2>1, <2>2
    <3> QED
      BY <3>1, ConcatAt
  <2>6. PICK k \in 1..a : F[k] = f
    BY <2>1 DEF Holds
  <2>7. k \in 1..(a + b)
    OBVIOUS
  <2> QED
    BY <2>4, <2>5, <2>6, <2>7 DEF Holds
<1>3. CASE ~ (p < r.free \/ p \notin MagicAt(t)) /\ ~ Whole(t, p)
  <2>1. Scanned(t, p, r).frames = r.frames
    BY <1>3 DEF Scanned
  <2> QED
    BY <2>1 DEF Holds
<1> QED
  BY <1>1, <1>2, <1>3

\* A frame found is read.
LEMMA HoldsRead ==
  ASSUME NEW t \in Seq(Char), NEW m \in Nat, m = Len(t), NEW x \in 0..m, NEW f,
         Holds(Scan(t)[x], f)
  PROVE  \E k \in 1..Len(Reading(t)) : Reading(t)[k] = f
<1>1. PICK n \in Nat : n = m - x /\ x + n = m
  <2>1. m - x \in Nat /\ x + (m - x) = m
    OBVIOUS
  <2> QED
    BY <2>1
<1> DEFINE M == {k \in 0..n : Holds(Scan(t)[x + k], f)}
<1>2. 0 \in M
  <2>1. x + 0 = x
    OBVIOUS
  <2> QED
    BY <2>1
<1>3. ASSUME NEW k \in 1..n, k - 1 \in M PROVE k \in M
  <2>1. PICK p \in 1..m : p = x + k /\ p - 1 = x + (k - 1) /\ p - 1 \in 0..m
    <3>1. x + k \in 1..m /\ (x + k) - 1 = x + (k - 1) /\ (x + k) - 1 \in 0..m
      BY <1>1
    <3> QED
      BY <3>1
  <2>2. PICK r \in Found : r = Scan(t)[p - 1] /\ Holds(r, f)
    BY <1>3, <2>1, ScanIs
  <2>3. Scan(t)[p] = Scanned(t, p, r)
    BY <2>2, ScanIs
  <2>4. Holds(Scanned(t, p, r), f)
    BY <2>2, HoldsOn
  <2> QED
    BY <2>1, <2>3, <2>4
<1>4. M \in SUBSET (0..n)
  OBVIOUS
<1> HIDE DEF M
<1>5. n \in M
  <2>1. M = 0..n
    BY <1>2, <1>3, <1>4, Upwards
  <2> QED
    BY <2>1
<1>6. Holds(Scan(t)[m], f)
  BY <1>1, <1>5 DEF M
<1> QED
  BY <1>6 DEF Holds, Reading

\* The encoding on a line is a whole frame there.
LEMMA LiesWhole ==
  ASSUME NEW t \in Seq(Char), NEW m \in Nat, m = Len(t), NEW q \in Nat \ {0}, NEW o \in Nat,
         q = o + 1, NEW f \in Small, Covers(EncodeFrame(f), t, o)
  PROVE  /\ Whole(t, q) /\ q \in MagicAt(t) /\ EndOf(t, q) = q + Len(EncodeFrame(f))
         /\ DecodeFrame(SubSeq(t, q, EndOf(t, q) - 1)) = <<f>>
<1>1. PICK n \in Nat : n = Len(f.payload) /\ n <= MaxPayload
  BY DEF Small, Frame
<1>2. PICK E \in Seq(Char), e \in Nat : E = EncodeFrame(f) /\ e = Len(E) /\ e = n + 6
  BY <1>1, EncodedIs
<1>3. E[1] = <<8>> /\ E[2] = <<9>> /\ E[5] = <<n>>
  BY <1>1, <1>2, EncodedIs
<1>4. 1 \in MagicAt(E)
  BY <1>2, <1>3 DEF MagicAt, Magic
<1>5. EndOf(E, 1) = n + 7
  <2>1. Head(E[5]) = n
    BY <1>3
  <2>2. Declared(E[5]) = n
    <3>1. ~ (n > MaxByte)
      BY <1>1, LineAssumption
    <3> QED
      BY <2>1, <3>1 DEF Declared
  <2>3. EndOf(E, 1) = 1 + 5 + Declared(E[1 + 5 - 1]) + 1
    BY DEF EndOf, HeaderLen, CrcLen
  <2>4. 1 + 5 - 1 = 5
    OBVIOUS
  <2> QED
    BY <2>2, <2>3, <2>4
<1>6. Whole(E, 1)
  BY <1>2, <1>5 DEF Whole, HeaderLen
<1>7. Covers(E, t, o) /\ e = Len(E) /\ 1 \in 1..e
  BY <1>2
<1>8. SameFrame(E, 1, t, q, o)
  BY <1>6, <1>7, WholeShifts
<1>9. q \in MagicAt(t)
  BY <1>4, <1>7, MagicShifts
<1>10. EndOf(t, q) = q + e
  BY <1>2, <1>5, <1>8 DEF SameFrame
<1>11. SubSeq(E, 1, EndOf(E, 1) - 1) = E
  <2>1. EndOf(E, 1) - 1 = Len(E)
    BY <1>2, <1>5
  <2>2. PICK s \in Seq(Char) : s = SubSeq(E, 1, e) /\ Len(s) = e /\ \A i \in 1..e : s[i] = E[i]
    <3>1. /\ SubSeq(E, 1, e) \in Seq(Char) /\ Len(SubSeq(E, 1, e)) = e
          /\ \A i \in 1..e : SubSeq(E, 1, e)[i] = E[1 + i - 1]
      <4>1. e <= Len(E) /\ e = e + 1 - 1 /\ 1 <= e + 1
        BY <1>2
      <4> QED
        BY <4>1, SubSeqAt
    <3>2. \A i \in 1..e : 1 + i - 1 = i
      OBVIOUS
    <3> QED
      BY <3>1, <3>2
  <2>3. s = E
    BY <1>7, <2>2, SameSeq
  <2> QED
    BY <1>7, <2>1, <2>2, <2>3
<1>12. DecodeFrame(SubSeq(t, q, EndOf(t, q) - 1)) = <<f>>
  BY <1>2, <1>8, <1>11, DecodeEncoded DEF SameFrame
<1> QED
  BY <1>2, <1>8, <1>9, <1>10, <1>12 DEF SameFrame

\* A frame that lies whole on a line clear up to it is read.
LEMMA FrameIsRead ==
  ASSUME NEW t \in Seq(Char), NEW m \in Nat, m = Len(t), NEW o \in Nat, NEW f \in Small,
         Covers(EncodeFrame(f), t, o), Clear(t, o + 1)
  PROVE  \E k \in 1..Len(Reading(t)) : Reading(t)[k] = f
<1>1. Len(EncodeFrame(f)) \in Nat /\ Len(EncodeFrame(f)) >= 6
  BY EncodedLen
<1>2. PICK q \in 1..m : q = o + 1 /\ q \in Nat \ {0} /\ q \in 1..(m + 1) /\ q - 1 \in 0..m
  <2>1. o + Len(EncodeFrame(f)) <= m
    BY DEF Covers
  <2> QED
    BY <1>1, <2>1
<1>3. /\ Whole(t, q) /\ q \in MagicAt(t)
      /\ DecodeFrame(SubSeq(t, q, EndOf(t, q) - 1)) = <<f>>
  BY <1>2, LiesWhole
<1>4. PICK r \in Found : r = Scan(t)[q - 1] /\ r.free <= q
  <2>1. Clear(t, q)
    BY <1>2
  <2> QED
    BY <1>2, <2>1, ClearReads, ScanIs
<1>5. Scan(t)[q] = Scanned(t, q, r)
  BY <1>4, ScanIs
<1>6. Scanned(t, q, r).frames = r.frames \o <<f>>
  <2>1. q >= r.free /\ ~ (q < r.free)
    BY <1>4 DEF Found
  <2> QED
    BY <1>3, <2>1 DEF Scanned
<1>7. Holds(Scan(t)[q], f)
  <2>1. PICK F \in Seq(Frame), a \in Nat : F = r.frames /\ a = Len(F)
    BY DEF Found
  <2>2. f \in Frame /\ <<f>> \in Seq(Frame) /\ 1 = Len(<<f>>) /\ <<f>>[1] = f
    BY DEF Small
  <2>3. Len(F \o <<f>>) = a + 1 /\ (F \o <<f>>)[a + 1] = f
    <3>1. F \o <<f>> = Append(F, f)
      BY <2>2, AppendIsConcat
    <3>2. Len(Append(F, f)) = a + 1 /\ Append(F, f)[a + 1] = f
      BY <2>1, <2>2, AppendAt
    <3> QED
      BY <3>1, <3>2
  <2>4. a + 1 \in 1..(a + 1)
    OBVIOUS
  <2> QED
    BY <1>5, <1>6, <2>1, <2>3, <2>4 DEF Holds
<1> QED
  BY <1>2, <1>7, HoldsRead

\* A place before a frame is one of a frame written earlier: the last that begins by it.
LEMMA Owner ==
  ASSUME NEW frames \in Seq(Sent), NEW c \in Nat, c = Len(frames), NEW line, NEW D,
         Laid(frames, line, D), NEW i \in 1..c, NEW p \in Nat \ {0}, p < frames[i].at
  PROVE  \E j \in 1..c :
           /\ j < i /\ frames[j].at <= p /\ p < EndAt(frames, line, j)
           /\ EndAt(frames, line, j) = frames[j + 1].at /\ EndAt(frames, line, j) <= frames[i].at
           /\ \A k \in 1..c : j < k => p < frames[k].at
<1>1. \A k \in 1..c : frames[k].at \in Nat \ {0}
  <2>1. \A k \in 1..c : frames[k] \in Sent
    OBVIOUS
  <2> QED
    BY <2>1 DEF Sent
<1>2. \A a, b \in 1..c : a <= b => frames[a].at <= frames[b].at
  BY DEF Laid
<1>3. frames[1].at = 1 /\ 1 \in 1..c
  <2>1. frames # <<>>
    BY EmptySeq
  <2> QED
    BY <2>1 DEF Laid
<1>4. PICK K \in SUBSET Nat : K = {k \in 1..c : p < frames[k].at} /\ K # {}
  <2>1. {k \in 1..c : p < frames[k].at} \in SUBSET Nat /\ i \in {k \in 1..c : p < frames[k].at}
    OBVIOUS
  <2> QED
    BY <2>1
<1>5. PICK l \in 1..c : p < frames[l].at /\ \A k \in K : l <= k
  <2>1. Least(K) \in K /\ \A k \in K : Least(K) <= k
    BY <1>4, LeastIs
  <2> QED
    BY <1>4, <2>1
<1>6. l # 1
  BY <1>3, <1>5
<1>7. PICK j \in 1..c : j + 1 = l
  <2>1. l - 1 \in 1..c /\ (l - 1) + 1 = l
    BY <1>6
  <2> QED
    BY <2>1
<1>8. l <= i
  BY <1>4, <1>5
<1>9. frames[j].at <= p
  <2>1. j \notin K
    BY <1>5, <1>7
  <2> QED
    BY <1>1, <1>4, <2>1
<1>10. EndAt(frames, line, j) = frames[j + 1].at /\ frames[j + 1].at = frames[l].at
  BY <1>7 DEF EndAt
<1>11. ASSUME NEW k \in 1..c, j < k PROVE p < frames[k].at
  <2>1. l <= k
    BY <1>7, <1>11
  <2>2. frames[l].at <= frames[k].at
    BY <1>2, <2>1
  <2> QED
    BY <1>1, <1>5, <2>2
<1>12. frames[l].at <= frames[i].at
  BY <1>2, <1>8
<1>13. j < i
  BY <1>7, <1>8
<1> QED
  BY <1>5, <1>9, <1>10, <1>11, <1>12, <1>13

\* A magic among the bytes of a frame that spells it but at its start is the frame's own.
LEMMA OwnMagic ==
  ASSUME NEW E \in Seq(Char), NEW e \in Nat, e = Len(E), MagicAt(E) = {1},
         NEW at \in Nat \ {0}, NEW ok \in BOOLEAN, NEW end \in Nat, NEW line, NEW D \in Nat,
         Spread(E, at, ok, end, line, D),
         NEW p \in Nat, at <= p, p + 1 < end, D < p, line[p] = << 8 >>, line[p + 1] = << 9 >>
  PROVE  ok /\ p = at /\ end = at + e
<1>1. /\ at <= end /\ end <= at + e
      /\ ok => end = at + e
      /\ ~ ok => at <= D
      /\ \A r \in at..(end - 1) : (ok \/ D < r) => line[r] = E[r + e + 1 - end]
  BY Zenon DEF Spread
<1>2. PICK x \in 1..e : x = p + e + 1 - end /\ x + 1 \in 1..e /\ x + 1 = p + 1 + e + 1 - end
  <2>1. /\ p + e + 1 - end \in 1..e /\ (p + e + 1 - end) + 1 \in 1..e
        /\ (p + e + 1 - end) + 1 = p + 1 + e + 1 - end
    BY <1>1
  <2> QED
    BY <2>1
<1>3. E[x] = <<8>>
  <2>1. p \in at..(end - 1)
    OBVIOUS
  <2>2. line[p] = E[p + e + 1 - end]
    BY <1>1, <2>1
  <2> QED
    BY <1>2, <2>2
<1>4. E[x + 1] = <<9>>
  <2>1. p + 1 \in at..(end - 1) /\ D < p + 1
    OBVIOUS
  <2>2. line[p + 1] = E[p + 1 + e + 1 - end]
    BY <1>1, <2>1
  <2> QED
    BY <1>2, <2>2
<1>5. x \in MagicAt(E)
  <2>1. x \in 1..(e - 1)
    BY <1>2
  <2> QED
    BY <1>3, <1>4, <2>1 DEF MagicAt, Magic
<1>6. x = 1
  BY <1>5
<1>7. p = end - e
  BY <1>2, <1>6
<1>8. ok
  BY <1>1, <1>7
<1> QED
  BY <1>1, <1>7, <1>8

\* The first byte of an intact frame is that of its magic.
LEMMA OwnStart ==
  ASSUME NEW E \in Seq(Char), NEW e \in Nat, e = Len(E), E[1] = << 8 >>,
         NEW at \in Nat \ {0}, NEW ok \in BOOLEAN, NEW end \in Nat, NEW line, NEW D \in Nat,
         Spread(E, at, ok, end, line, D), at < end, ok \/ D < at
  PROVE  line[at] = <<8>>
<1>1. /\ ok => end = at + e
      /\ ~ ok => at <= D
      /\ \A r \in at..(end - 1) : (ok \/ D < r) => line[r] = E[r + e + 1 - end]
  BY Zenon DEF Spread
<1>2. ok
  BY <1>1
<1>3. at \in at..(end - 1) /\ at + e + 1 - end = 1
  BY <1>1, <1>2
<1>4. line[at] = E[at + e + 1 - end]
  BY <1>1, <1>2, <1>3
<1> QED
  BY <1>3, <1>4

\* A place is the one behind another.
Behind(at, o) == at = o + 1

\* What has been heard of a line
HeardOf(h, line) == Len(h) <= Len(line) /\ \A k \in 1..Len(h) : h[k] = line[k]

\* An intact frame heard to its end is covered.
LEMMA IntactCovers ==
  ASSUME NEW E \in Seq(Char), NEW e \in Nat, e = Len(E),
         NEW at \in Nat \ {0}, NEW ok \in BOOLEAN, ok, NEW end \in Nat, NEW line, NEW D \in Nat,
         Spread(E, at, ok, end, line, D),
         NEW h \in Seq(Char), NEW n \in Nat, n = Len(h), HeardOf(h, line),
         NEW o \in Nat, Behind(at, o), at + e <= n + 1
  PROVE  Covers(E, h, o) /\ end = at + e
<1>1. end = at + e /\ \A r \in at..(end - 1) : line[r] = E[r + e + 1 - end]
  BY Zenon DEF Spread
<1>2. ASSUME NEW k \in 1..e PROVE E[k] = h[o + k]
  <2>1. PICK r \in 1..n : r = o + k /\ r \in at..(end - 1) /\ r + e + 1 - end = k
    <3>1. o + k \in 1..n /\ o + k \in at..(end - 1) /\ (o + k) + e + 1 - end = k
      BY <1>1 DEF Behind
    <3> QED
      BY <3>1
  <2>2. h[r] = line[r]
    BY <2>1 DEF HeardOf
  <2>3. line[r] = E[r + e + 1 - end]
    BY <1>1, <2>1
  <2> QED
    BY <2>1, <2>2, <2>3
<1>3. o + e <= n
  BY DEF Behind
<1> QED
  BY <1>1, <1>2, <1>3 DEF Covers

\* A fault and the length byte it spoiled are too far ahead of a place to reach it.
BeyondReach(x, D) == D # 0 => x >= D + HeaderLen + MaxByte + CrcLen

\* No frame up to one spells the magic but at its start.
Honest(frames, i) == \A j \in 1..i : ~ Misleads(frames[j].frame)

\* What is known of a frame on the line
Known(s, z, line, D) ==
  /\ s \in Sent /\ z \in Nat
  /\ MagicAt(EncodeFrame(s.frame)) = {1}
  /\ Lies(s, z, line, D)

\* Each frame up to an honest one is known.
LEMMA KnownIs ==
  ASSUME NEW frames \in Seq(Sent), NEW c \in Nat, c = Len(frames), NEW line \in Seq(Char),
         NEW D \in Nat, Laid(frames, line, D), NEW i \in 1..c, Honest(frames, i),
         NEW j \in 1..i
  PROVE  Known(frames[j], EndAt(frames, line, j), line, D)
<1>1. j \in 1..c
  OBVIOUS
<1>2. frames[j] \in Sent
  BY <1>1
<1>3. EndAt(frames, line, j) \in Nat
  BY <1>1, EndsOnLine
<1>4. MagicAt(EncodeFrame(frames[j].frame)) = {1}
  BY DEF Honest, Misleads
<1>5. Lies(frames[j], EndAt(frames, line, j), line, D)
  BY <1>1 DEF Laid
<1> QED
  BY <1>2, <1>3, <1>4, <1>5 DEF Known

\* Its parts
LEMMA KnownParts ==
  ASSUME NEW s, NEW z, NEW line, NEW D, Known(s, z, line, D)
  PROVE  \E E \in Seq(Char), e \in Nat :
           /\ E = EncodeFrame(s.frame) /\ e = Len(E) /\ e >= 6 /\ E[1] = <<8>>
           /\ MagicAt(E) = {1} /\ Spread(E, s.at, s.ok, z, line, D)
<1>1. s.frame \in Small
  BY DEF Known, Sent
<1>2. PICK f \in Small : f = s.frame
  BY <1>1
<1>3. PICK E \in Seq(Char), e \in Nat : E = EncodeFrame(f) /\ e = Len(E) /\ e >= 6
  <2>1. /\ EncodeFrame(f) \in Seq(Char) /\ Len(EncodeFrame(f)) \in Nat
        /\ Len(EncodeFrame(f)) >= 6
    BY EncodedLen
  <2> QED
    BY <2>1
<1>4. E[1] = <<8>>
  <2>1. PICK n \in Nat : n = Len(f.payload)
    BY DEF Small, Frame
  <2> QED
    BY <1>3, <2>1, EncodedIs
<1>5. MagicAt(E) = {1} /\ Spread(E, s.at, s.ok, z, line, D)
  BY <1>2, <1>3, Zenon DEF Known, Lies
<1> QED
  BY <1>2, <1>3, <1>4, <1>5

\* A magic among its bytes is its own.
LEMMA KnownMagic ==
  ASSUME NEW s, NEW z, NEW line, NEW D \in Nat, Known(s, z, line, D),
         NEW p \in Nat, s.at <= p, p + 1 < z, D < p, line[p] = << 8 >>, line[p + 1] = << 9 >>
  PROVE  s.ok /\ p = s.at
<1>1. PICK at \in Nat \ {0}, ok \in BOOLEAN : at = s.at /\ ok = s.ok
  BY DEF Known, Sent
<1>2. PICK E \in Seq(Char), e \in Nat :
        /\ E = EncodeFrame(s.frame) /\ e = Len(E) /\ e >= 6 /\ E[1] = <<8>>
        /\ MagicAt(E) = {1} /\ Spread(E, s.at, s.ok, z, line, D)
  BY KnownParts
<1>3. Spread(E, at, ok, z, line, D) /\ MagicAt(E) = {1} /\ e = Len(E)
  BY <1>1, <1>2, Zenon
<1>4. z \in Nat /\ at <= p
  BY <1>1 DEF Known
<1>5. ok /\ p = at
  BY <1>3, <1>4, OwnMagic
<1> QED
  BY <1>1, <1>5

\* Its first byte is that of the magic.
LEMMA KnownStart ==
  ASSUME NEW s, NEW z, NEW line, NEW D \in Nat, Known(s, z, line, D),
         s.at < z, s.ok \/ D < s.at
  PROVE  line[s.at] = <<8>>
<1>1. PICK at \in Nat \ {0}, ok \in BOOLEAN : at = s.at /\ ok = s.ok
  BY DEF Known, Sent
<1>2. PICK E \in Seq(Char), e \in Nat :
        /\ E = EncodeFrame(s.frame) /\ e = Len(E) /\ e >= 6 /\ E[1] = <<8>>
        /\ MagicAt(E) = {1} /\ Spread(E, s.at, s.ok, z, line, D)
  BY KnownParts
<1>3. Spread(E, at, ok, z, line, D) /\ E[1] = <<8>> /\ e = Len(E)
  BY <1>1, <1>2, Zenon
<1>4. z \in Nat /\ at < z /\ (ok \/ D < at)
  BY <1>1 DEF Known
<1>5. line[at] = <<8>>
  BY <1>3, <1>4, OwnStart
<1> QED
  BY <1>1, <1>5

\* Intact, it ends behind all its bytes.
LEMMA KnownEnd ==
  ASSUME NEW s, NEW z, NEW line, NEW D, Known(s, z, line, D), s.ok
  PROVE  z = s.at + Len(EncodeFrame(s.frame)) /\ s.at < z
<1>1. PICK at \in Nat \ {0} : at = s.at
  BY DEF Known, Sent
<1>2. PICK E \in Seq(Char), e \in Nat :
        /\ E = EncodeFrame(s.frame) /\ e = Len(E) /\ e >= 6 /\ E[1] = <<8>>
        /\ MagicAt(E) = {1} /\ Spread(E, s.at, s.ok, z, line, D)
  BY KnownParts
<1>3. z = s.at + Len(E)
  BY <1>2, Zenon DEF Spread
<1>4. z = at + e
  BY <1>1, <1>2, <1>3
<1>5. at < z
  BY <1>2, <1>4
<1> QED
  BY <1>1, <1>2, <1>3, <1>5

\* A place is that of an intact frame, which ends by another.
Owned(frames, c, line, i, q) ==
  \E j \in 1..c :
    j < i /\ frames[j].ok /\ q = frames[j].at /\ EndAt(frames, line, j) <= frames[i].at

\* A magic behind the last fault and before an intact frame is that of an intact one.
LEMMA MagicOwned ==
  ASSUME NEW frames \in Seq(Sent), NEW c \in Nat, c = Len(frames), NEW line \in Seq(Char),
         NEW D \in Nat, Laid(frames, line, D), NEW i \in 1..c, Honest(frames, i), frames[i].ok,
         NEW q \in Nat \ {0}, D < q, q < frames[i].at, line[q] = << 8 >>, line[q + 1] = << 9 >>
  PROVE  Owned(frames, c, line, i, q)
<1>1. \A j \in 1..i : Known(frames[j], EndAt(frames, line, j), line, D)
  BY KnownIs
<1>2. \A j \in 1..c : frames[j].at \in Nat \ {0}
  <2>1. \A j \in 1..c : frames[j] \in Sent
    OBVIOUS
  <2> QED
    BY <2>1 DEF Sent
<1>3. PICK j \in 1..c :
        /\ j < i /\ frames[j].at <= q /\ q < EndAt(frames, line, j)
        /\ EndAt(frames, line, j) = frames[j + 1].at /\ EndAt(frames, line, j) <= frames[i].at
        /\ \A k \in 1..c : j < k => q < frames[k].at
  BY Owner
<1>4. j \in 1..i /\ i \in 1..i
  BY <1>3
<1>5. PICK l \in 1..c : l = j + 1 /\ EndAt(frames, line, j) = frames[l].at
  BY <1>3
<1>6. CASE q + 1 < EndAt(frames, line, j)
  <2>1. Known(frames[j], EndAt(frames, line, j), line, D)
    BY <1>1, <1>4
  <2>2. q \in Nat /\ frames[j].at <= q
    BY <1>3
  <2>3. \A s, z : Known(s, z, line, D) /\ s.at <= q /\ q + 1 < z => s.ok /\ q = s.at
    BY <2>2, KnownMagic
  <2>4. frames[j].ok /\ q = frames[j].at
    BY <1>6, <2>1, <2>2, <2>3, Zenon
  <2> QED
    BY <1>3, <2>4 DEF Owned
<1>7. ASSUME q + 1 = frames[l].at PROVE FALSE
  <2>1. CASE l = i
    <3>1. Known(frames[i], EndAt(frames, line, i), line, D)
      BY <1>1, <1>4
    <3>2. frames[i].at < EndAt(frames, line, i)
      BY <3>1, KnownEnd
    <3>3. line[frames[i].at] = <<8>>
      BY <3>1, <3>2, KnownStart
    <3> QED
      BY <1>7, <2>1, <3>3
  <2>2. CASE q + 1 < frames[i].at
    <3>1. PICK p \in Nat \ {0} : p = q + 1 /\ p < frames[i].at
      BY <2>2
    <3>2. PICK k \in 1..c :
            /\ k < i /\ frames[k].at <= p /\ p < EndAt(frames, line, k)
            /\ EndAt(frames, line, k) = frames[k + 1].at
            /\ EndAt(frames, line, k) <= frames[i].at
            /\ \A n \in 1..c : k < n => p < frames[n].at
      <4>1. p < frames[i].at
        BY <3>1
      <4> QED
        BY <4>1, Owner, ZenonT(60)
    <3>3. k \in 1..i
      BY <3>2
    <3>4. Known(frames[k], EndAt(frames, line, k), line, D)
      BY <1>1, <3>3
    <3>5. l <= k
      <4>1. ~ (p < frames[l].at)
        BY <1>7, <3>1
      <4> QED
        BY <3>2, <4>1
    <3>6. frames[k].at = p
      <4>1. frames[l].at <= frames[k].at
        BY <3>5 DEF Laid
      <4>2. frames[k].at \in Nat
        BY <1>2
      <4> QED
        BY <1>7, <3>1, <3>2, <4>1, <4>2, SMTT(20)
    <3>7. frames[k].at < EndAt(frames, line, k) /\ D < frames[k].at
      BY <3>1, <3>2, <3>6
    <3>8. line[frames[k].at] = <<8>>
      BY <3>4, <3>7, KnownStart
    <3> QED
      BY <3>1, <3>6, <3>8
  <2>3. CASE ~ (l = i) /\ ~ (q + 1 < frames[i].at)
    <3>1. l \in 1..i /\ frames[i].at = q + 1
      <4>1. frames[l].at <= frames[i].at
        BY <1>3, <1>5, Zenon
      <4>2. l \in 1..i
        BY <1>3, <1>5
      <4>3. frames[i].at \in Nat
        BY <1>2
      <4>4. q + 1 <= frames[i].at
        BY <1>7, <4>1, Zenon
      <4>5. frames[i].at = q + 1
        BY <2>3, <4>3, <4>4, SMTT(20)
      <4> QED
        BY <4>2, <4>5
    <3>2. Known(frames[i], EndAt(frames, line, i), line, D)
      BY <1>1, <1>4
    <3>3. frames[i].at < EndAt(frames, line, i)
      BY <3>2, KnownEnd
    <3>4. line[frames[i].at] = <<8>>
      BY <3>2, <3>3, KnownStart
    <3> QED
      BY <3>1, <3>4
  <2> QED
    BY <2>1, <2>2, <2>3
<1>8. q + 1 < frames[l].at \/ q + 1 = frames[l].at
  <2>1. frames[l].at \in Nat
    BY <1>2
  <2>2. q < frames[l].at
    BY <1>3, <1>5, Zenon
  <2> QED
    BY <2>1, <2>2
<1> QED
  BY <1>5, <1>6, <1>7, <1>8

\* Intact and heard to its end, it is covered, and so it is whole.
LEMMA KnownCovers ==
  ASSUME NEW s, NEW z, NEW line, NEW D \in Nat, Known(s, z, line, D), s.ok,
         NEW h \in Seq(Char), NEW n \in Nat, n = Len(h), HeardOf(h, line),
         NEW q \in Nat \ {0}, q = s.at, NEW o \in Nat, Behind(q, o), z <= n + 1
  PROVE  Covers(EncodeFrame(s.frame), h, o)
<1>1. PICK E \in Seq(Char), e \in Nat :
        /\ E = EncodeFrame(s.frame) /\ e = Len(E) /\ e >= 6 /\ E[1] = <<8>>
        /\ MagicAt(E) = {1} /\ Spread(E, s.at, s.ok, z, line, D)
  BY KnownParts
<1>2. PICK ok \in BOOLEAN : ok = s.ok
  BY DEF Known, Sent
<1>3. Spread(E, q, ok, z, line, D) /\ e = Len(E)
  BY <1>1, <1>2, Zenon
<1>4. ok /\ z = q + e
  <2>1. z = s.at + Len(EncodeFrame(s.frame))
    BY KnownEnd
  <2> QED
    BY <1>1, <1>2, <2>1
<1>5. q + e <= n + 1 /\ z \in Nat /\ ok
  BY <1>4
<1>6. Covers(E, h, o)
  BY <1>3, <1>5, IntactCovers
<1> QED
  BY <1>1, <1>6, Zenon

\* An intact frame that has been heard is whole, and ends where the next one starts.
LEMMA KnownWhole ==
  ASSUME NEW s, NEW z, NEW line, NEW D \in Nat, Known(s, z, line, D), s.ok,
         NEW h \in Seq(Char), HeardOf(h, line), z <= Len(h) + 1
  PROVE  Whole(h, s.at) /\ EndOf(h, s.at) = z
<1>1. PICK q \in Nat \ {0}, n \in Nat : q = s.at /\ n = Len(h)
  BY DEF Known, Sent
<1>2. n = Len(h) /\ z <= n + 1
  BY <1>1
<1>3. PICK o \in Nat : q = o + 1
  <2>1. q - 1 \in Nat /\ q = (q - 1) + 1
    OBVIOUS
  <2> QED
    BY <2>1
<1>4. PICK f \in Small : f = s.frame
  BY DEF Known, Sent
<1>5. Covers(EncodeFrame(f), h, o)
  <2>1. Covers(EncodeFrame(s.frame), h, o)
    <3>1. Behind(q, o)
      BY <1>3 DEF Behind
    <3> QED
      BY <1>1, <1>2, <3>1, KnownCovers
  <2> QED
    BY <1>4, <2>1
<1>6. Whole(h, q) /\ EndOf(h, q) = q + Len(EncodeFrame(f))
  BY <1>3, <1>5, <1>2, LiesWhole
<1>7. z = q + Len(EncodeFrame(f))
  BY <1>4, <1>1, KnownEnd
<1> QED
  BY <1>6, <1>7, <1>1

\* Up to an intact frame beyond the reach of the faults, every frame is all there.
LEMMA ClearBeyond ==
  ASSUME NEW frames \in Seq(Sent), NEW c \in Nat, c = Len(frames), NEW line \in Seq(Char),
         NEW D \in Nat, Laid(frames, line, D), NEW i \in 1..c, Honest(frames, i), frames[i].ok,
         NEW X \in Nat \ {0}, X = frames[i].at, BeyondReach(X, D),
         NEW h \in Seq(Char), NEW n \in Nat, n = Len(h), HeardOf(h, line), X + 5 <= n
  PROVE  Clear(h, X)
<1>1. \A j \in 1..i : Known(frames[j], EndAt(frames, line, j), line, D)
  BY KnownIs
<1>2. \A k \in 1..n : h[k] = line[k]
  BY DEF HeardOf
<1>3. SUFFICES ASSUME NEW q \in MagicAt(h), q < X
               PROVE  Whole(h, q) /\ EndOf(h, q) <= X
  BY DEF Clear
<1>4. /\ q \in Nat \ {0} /\ q \in 1..n /\ q + 1 \in 1..n
      /\ h[q] = <<8>> /\ h[q + 1] = <<9>>
  <2>1. h[q] = Magic[1] /\ h[q + 1] = Magic[2]
    BY Zenon DEF MagicAt
  <2>2. Magic[1] = <<8>> /\ Magic[2] = <<9>>
    BY DEF Magic
  <2>3. q \in 1..(Len(h) - 1)
    BY Zenon DEF MagicAt
  <2>4. q \in 1..(n - 1)
    BY <2>3, Zenon
  <2>5. q \in Nat \ {0} /\ q \in 1..n /\ q + 1 \in 1..n
    BY <2>4
  <2> QED
    BY <2>1, <2>2, <2>5, Zenon
<1>5. CASE q <= D
  <2>1. X >= D + 6 + MaxByte
    BY <1>4, <1>5, LineAssumption DEF BeyondReach, HeaderLen, CrcLen
  <2>2. q + 4 <= n
    BY <1>3, <1>4, SMTT(20)
  <2>3. EndOf(h, q) \in Nat /\ EndOf(h, q) <= q + 6 + MaxByte
    BY <1>4, <2>2, EndIs
  <2>4. EndOf(h, q) <= X
    BY <1>4, <1>5, <2>1, <2>3, LineAssumption
  <2>5. EndOf(h, q) <= n + 1
    BY <2>3, <2>4
  <2> QED
    BY <1>4, <2>2, <2>4, <2>5 DEF Whole, HeaderLen
<1>6. CASE D < q
  <2>1. line[q] = <<8>> /\ line[q + 1] = <<9>>
    BY <1>2, <1>4
  <2>2. PICK j \in 1..c : /\ j < i /\ frames[j].ok /\ q = frames[j].at
                          /\ EndAt(frames, line, j) <= frames[i].at
    <3>1. q < frames[i].at
      BY <1>3
    <3>2. q \in Nat \ {0}
      BY <1>4
    <3>3. Owned(frames, c, line, i, q)
      BY <1>6, <2>1, <3>1, <3>2, MagicOwned
    <3> QED
      BY <3>3, Zenon DEF Owned
  <2>3. Known(frames[j], EndAt(frames, line, j), line, D)
    BY <1>1, <2>2
  <2>4. EndAt(frames, line, j) <= X
    BY <2>2
  <2>5. EndAt(frames, line, j) <= Len(h) + 1
    BY <2>3, <2>4 DEF Known
  <2>6. Whole(h, q) /\ EndOf(h, q) = EndAt(frames, line, j)
    <3>1. Whole(h, frames[j].at) /\ EndOf(h, frames[j].at) = EndAt(frames, line, j)
      BY <2>2, <2>3, <2>5, KnownWhole
    <3> QED
      BY <2>2, <3>1, Zenon
  <2> QED
    BY <2>4, <2>6
<1> QED
  BY <1>4, <1>5, <1>6

\* Such a frame is read.
LEMMA BeyondIsRead ==
  ASSUME NEW frames \in Seq(Sent), NEW line \in Seq(Char), NEW D \in Nat, Laid(frames, line, D),
         NEW h \in Seq(Char), HeardOf(h, line), NEW i \in 1..Len(frames), Honest(frames, i),
         frames[i].ok, BeyondReach(frames[i].at, D),
         Len(h) >= frames[i].at + Len(EncodeFrame(frames[i].frame)) - 1
  PROVE  \E k \in 1..Len(Reading(h)) : Reading(h)[k] = frames[i].frame
<1>1. PICK c \in Nat : c = Len(frames) /\ i \in 1..c
  OBVIOUS
<1>2. Known(frames[i], EndAt(frames, line, i), line, D)
  <2>1. i \in 1..i
    OBVIOUS
  <2> QED
    BY <1>1, <2>1, KnownIs
<1>3. PICK f \in Small, at \in Nat \ {0}, n \in Nat, e \in Nat :
        /\ f = frames[i].frame /\ at = frames[i].at /\ n = Len(h)
        /\ e = Len(EncodeFrame(f)) /\ e >= 6
  <2>1. PICK f \in Small, at \in Nat \ {0} : f = frames[i].frame /\ at = frames[i].at
    BY <1>2 DEF Known, Sent
  <2>2. Len(EncodeFrame(f)) \in Nat /\ Len(EncodeFrame(f)) >= 6 /\ Len(h) \in Nat
    BY EncodedLen
  <2> QED
    BY <2>1, <2>2
<1>4. n = Len(h) /\ at + e <= n + 1 /\ at + 5 <= n
  <2>1. n >= at + e - 1
    BY <1>3
  <2>2. e >= 6
    BY <1>3, Zenon
  <2>3. at + e <= n + 1 /\ at + 5 <= n
    BY <2>1, <2>2
  <2> QED
    BY <1>3, <2>3, Zenon
<1>5. Clear(h, at)
  <2>1. at = frames[i].at /\ BeyondReach(at, D)
    BY <1>3
  <2> QED
    BY <1>1, <1>4, <2>1, ClearBeyond
<1>6. PICK o \in Nat : at = o + 1
  <2>1. at - 1 \in Nat /\ at = (at - 1) + 1
    OBVIOUS
  <2> QED
    BY <2>1
<1>7. Covers(EncodeFrame(f), h, o)
  <2>1. EndAt(frames, line, i) = at + e
    BY <1>2, <1>3, KnownEnd
  <2>3. at = frames[i].at /\ frames[i].ok /\ f = frames[i].frame
    BY <1>3
  <2>4. EndAt(frames, line, i) <= n + 1
    BY <1>4, <2>1
  <2>5. Covers(EncodeFrame(frames[i].frame), h, o)
    <3>1. Behind(at, o)
      BY <1>6 DEF Behind
    <3> QED
      BY <1>2, <1>4, <2>3, <2>4, <3>1, KnownCovers
  <2> QED
    BY <2>3, <2>5, Zenon
<1>8. Clear(h, o + 1) /\ n = Len(h)
  BY <1>4, <1>5, <1>6
<1>9. \E k \in 1..Len(Reading(h)) : Reading(h)[k] = f
  BY <1>7, <1>8, FrameIsRead
<1> QED
  BY <1>3, <1>9

-----------------------------------------------------------------------------
(* The line's invariant *)

\* The queues and the histories of them
Inboxes == [boxes |-> inboxes, decoded |-> decoded, refused |-> refused]

LineTypes ==
  /\ commands \in Seq(Small) /\ sent \in Seq(Sent)
  /\ heard \in Seq(Char) /\ air \in Seq(Char) /\ damage \in Nat

\* The buffer is what the stream has of a frame that is not all there, the queues are what the
\* stream said, and the line is the frames written.
LineInv ==
  /\ LineTypes
  /\ Streams(heard, pending, decoded)
  /\ Queues(handed, Inboxes)
  /\ Laid(sent, heard \o air, damage)

\* A sequence is its first elements and the others.
LEMMA Divided ==
  ASSUME NEW S, NEW s \in Seq(S), NEW n \in Nat, n <= Len(s)
  PROVE  /\ SubSeq(s, 1, n) \in Seq(S) /\ From(s, n + 1) \in Seq(S)
         /\ SubSeq(s, 1, n) \o From(s, n + 1) = s
<1>1. PICK l \in Nat, w \in Nat : l = Len(s) /\ n + w = l
  <2>1. Len(s) \in Nat /\ Len(s) - n \in Nat /\ n + (Len(s) - n) = Len(s)
    OBVIOUS
  <2> QED
    BY <2>1
<1>2. PICK u \in Seq(S) : u = SubSeq(s, 1, n) /\ Len(u) = n /\ \A i \in 1..n : u[i] = s[i]
  <2>1. n \in Nat /\ 1 <= n + 1 /\ n <= Len(s) /\ n = n + 1 - 1
    BY <1>1
  <2>2. /\ SubSeq(s, 1, n) \in Seq(S) /\ Len(SubSeq(s, 1, n)) = n
        /\ \A i \in 1..n : SubSeq(s, 1, n)[i] = s[1 + i - 1]
    BY <2>1, SubSeqAt
  <2>3. \A i \in 1..n : 1 + i - 1 = i
    OBVIOUS
  <2> QED
    BY <2>2, <2>3
<1>3. PICK v \in Seq(S) : v = From(s, n + 1) /\ Len(v) = w /\ \A i \in 1..w : v[i] = s[n + i]
  <2>1. PICK a \in Nat \ {0} : a = n + 1 /\ a <= l + 1 /\ l <= Len(s) /\ w = l + 1 - a
    <3>1. n + 1 \in Nat \ {0} /\ n + 1 <= l + 1 /\ l <= Len(s) /\ w = l + 1 - (n + 1)
      BY <1>1
    <3> QED
      BY <3>1
  <2>2. /\ SubSeq(s, a, l) \in Seq(S) /\ Len(SubSeq(s, a, l)) = w
        /\ \A i \in 1..w : SubSeq(s, a, l)[i] = s[a + i - 1]
    <3>1. a <= l + 1 /\ l <= Len(s)
      BY <2>1
    <3>2. w = l + 1 - a
      BY <2>1
    <3> QED
      BY <3>1, <3>2, SubSeqAt
  <2>3. \A i \in 1..w : a + i - 1 = n + i
    BY <2>1
  <2>4. SubSeq(s, a, l) = From(s, n + 1)
    BY <1>1, <2>1 DEF From
  <2> QED
    <3>1. /\ From(s, n + 1) \in Seq(S) /\ Len(From(s, n + 1)) = w
          /\ \A i \in 1..w : From(s, n + 1)[i] = s[a + i - 1]
      BY <2>2, <2>4, Zenon
    <3>2. \A i \in 1..w : From(s, n + 1)[i] = s[n + i]
      BY <2>3, <3>1, Zenon
    <3> QED
      BY <3>1, <3>2, Zenon
<1>4. /\ u \o v \in Seq(S) /\ Len(u \o v) = n + w
      /\ \A i \in 1..n : (u \o v)[i] = u[i]
      /\ \A i \in 1..w : (u \o v)[n + i] = v[i]
  <2>1. n = Len(u) /\ w = Len(v) /\ n \in Nat
    BY <1>2, <1>3
  <2> QED
    BY <2>1, ConcatAt
<1>5. ASSUME NEW i \in 1..l PROVE (u \o v)[i] = s[i]
  <2>1. CASE i <= n
    <3>1. i \in 1..n
      BY <2>1
    <3> QED
      BY <1>2, <1>4, <3>1
  <2>2. CASE ~ (i <= n)
    <3>1. PICK k \in 1..w : i = n + k
      <4>1. i - n \in 1..w /\ i = n + (i - n)
        BY <1>1, <2>2
      <4> QED
        BY <4>1
    <3>2. (u \o v)[n + k] = v[k] /\ v[k] = s[n + k]
      BY <1>3, <1>4
    <3> QED
      BY <3>1, <3>2
  <2> QED
    BY <2>1, <2>2
<1>6. l = Len(u \o v) /\ l = Len(s)
  BY <1>1, <1>4
<1>7. u \o v = s
  BY <1>4, <1>5, <1>6, SameSeq
<1> QED
  BY <1>2, <1>3, <1>7

\* Frames taken from a queue's front go behind those taken before.
LEMMA Moved ==
  ASSUME NEW t \in Seq(Frame), NEW b \in Seq(Frame), NEW n \in Nat, n <= Len(b)
  PROVE  \E u, v \in Seq(Frame) :
           /\ u = SubSeq(b, 1, n) /\ v = From(b, n + 1)
           /\ t \o u \in Seq(Frame) /\ (t \o u) \o v = t \o b
<1>1. PICK u \in Seq(Frame), v \in Seq(Frame) :
        u = SubSeq(b, 1, n) /\ v = From(b, n + 1) /\ u \o v = b
  <2>1. /\ SubSeq(b, 1, n) \in Seq(Frame) /\ From(b, n + 1) \in Seq(Frame)
        /\ SubSeq(b, 1, n) \o From(b, n + 1) = b
    BY Divided
  <2> QED
    BY <2>1, Zenon
<1>2. t \o u \in Seq(Frame)
  BY ConcatProperties
<1>3. (t \o u) \o v = t \o (u \o v)
  BY Regrouped
<1> QED
  BY <1>1, <1>2, <1>3, Zenon

\* A poll takes from a queue what it was given first.
LEMMA PollKeeps ==
  ASSUME NEW took, NEW c, Queues(took, c), NEW kind \in Kinds,
         NEW n \in Nat, n <= Len(c.boxes[kind]),
         NEW took2, took2 = [took EXCEPT ![kind] = @ \o SubSeq(c.boxes[kind], 1, n)],
         NEW boxes2, boxes2 = [c.boxes EXCEPT ![kind] = From(c.boxes[kind], n + 1)],
         NEW d, d = [boxes |-> boxes2, decoded |-> c.decoded, refused |-> c.refused]
  PROVE  Queues(took2, d)
<1>1. took \in [Kinds -> Seq(Frame)] /\ c \in Collection /\ Dropped(c)
  BY DEF Queues
<1>2. PICK boxes \in [Kinds -> Seq(Frame)], D \in Seq(Frame), R \in SUBSET Nat :
        boxes = c.boxes /\ D = c.decoded /\ R = c.refused
  BY <1>1 DEF Collection
<1>3. PICK b \in Seq(Frame), t \in Seq(Frame) : b = boxes[kind] /\ t = took[kind]
  BY <1>1
<1>4. n <= Len(b)
  BY <1>2, <1>3
<1>5. PICK u, v \in Seq(Frame) :
        /\ u = SubSeq(b, 1, n) /\ v = From(b, n + 1)
        /\ t \o u \in Seq(Frame) /\ (t \o u) \o v = t \o b
  BY <1>4, Moved
<1>6. /\ took2 \in [Kinds -> Seq(Frame)] /\ took2[kind] = t \o u
      /\ \A k \in Kinds : k # kind => took2[k] = took[k]
  <2>1. took2 = [took EXCEPT ![kind] = t \o u]
    BY <1>2, <1>3, <1>5
  <2> QED
    BY <1>1, <1>5, <2>1
<1>7. /\ boxes2 \in [Kinds -> Seq(Frame)] /\ boxes2[kind] = v
      /\ \A k \in Kinds : k # kind => boxes2[k] = boxes[k]
  <2>1. boxes2 = [boxes EXCEPT ![kind] = v]
    BY <1>2, <1>3, <1>5
  <2> QED
    BY <2>1
<1>8. d.boxes = boxes2 /\ d.decoded = D /\ d.refused = R
  BY <1>2
<1>9. d \in Collection
  BY <1>2, <1>7 DEF Collection
<1>10. Dropped(d)
  BY <1>1, <1>2, <1>8, Zenon DEF Dropped
<1>11. ASSUME NEW k \in Kinds
       PROVE InOrder(took2[k] \o d.boxes[k], d.decoded, KeptOf(d, k))
  <2>1. KeptOf(d, k) = KeptOf(c, k)
    BY <1>2, <1>8, Zenon DEF KeptOf
  <2>2. InOrder(took[k] \o boxes[k], D, KeptOf(c, k))
    BY <1>2, Zenon DEF Queues
  <2>3. took2[k] \o boxes2[k] = took[k] \o boxes[k]
    BY <1>3, <1>5, <1>6, <1>7, Zenon
  <2> QED
    BY <1>8, <2>1, <2>2, <2>3, Zenon
<1> QED
  BY <1>6, <1>9, <1>10, <1>11 DEF Queues

\* What has been heard is the line's beginning.
LEMMA LineHeard ==
  ASSUME NEW h \in Seq(Char), NEW a \in Seq(Char)
  PROVE  h \o a \in Seq(Char) /\ HeardOf(h, h \o a) /\ Len(h \o a) = Len(h) + Len(a)
<1>1. PICK m \in Nat, n \in Nat : m = Len(h) /\ n = Len(a)
  OBVIOUS
<1>2. /\ h \o a \in Seq(Char) /\ Len(h \o a) = m + n
      /\ \A i \in 1..m : (h \o a)[i] = h[i]
  BY <1>1, ConcatAt
<1>3. m <= Len(h \o a)
  BY <1>2
<1> QED
  BY <1>1, <1>2, <1>3 DEF HeardOf

\* The invariant says what the line promises.
LEMMA LineInvFaithful == LineInv => LineIsFaithful
<1> SUFFICES ASSUME LineInv PROVE LineIsFaithful
  OBVIOUS
<1>1. LineTypes /\ Streams(heard, pending, decoded) /\ Queues(handed, Inboxes)
      /\ Laid(sent, heard \o air, damage)
  BY DEF LineInv
<1>2. decoded = Reading(heard) /\ decoded \in Seq(Frame)
  BY <1>1 DEF Streams
<1>3. Inboxes.boxes = inboxes /\ Inboxes.decoded = decoded /\ Inboxes.refused = refused
  BY DEF Inboxes
<1>4. /\ \A i \in refused : i \in 1..Len(decoded) /\ decoded[i].kind = "syncRequest"
      /\ \A kind \in Kinds : InOrder(Took(kind), decoded, KeptOf(Inboxes, kind))
  <2>1. Dropped(Inboxes)
    BY <1>1 DEF Queues
  <2>2. \A kind \in Kinds :
          InOrder(handed[kind] \o Inboxes.boxes[kind], Inboxes.decoded, KeptOf(Inboxes, kind))
    BY <1>1 DEF Queues
  <2> QED
    BY <1>3, <2>1, <2>2 DEF Dropped, Took
<1>5. \A kind \in Kinds : KeptOf(Inboxes, kind) = Kept(kind)
  BY <1>3, Zenon DEF KeptOf, Kept
<1>6. \A kind \in Kinds : InOrder(Took(kind), decoded, Kept(kind))
  BY <1>4, <1>5, Zenon
<1>7. ReadsAsOneStream
  <2>1. \A kind \in Kinds :
          /\ Len(Took(kind)) = Cardinality(Kept(kind))
          /\ \A i \in Kept(kind) : Took(kind)[Cardinality(Kept(kind) \cap 1..i)] = decoded[i]
    BY <1>6, Zenon DEF InOrder
  <2> QED
    BY <1>2, <1>4, <2>1, Zenon DEF ReadsAsOneStream
<1>8. DamageIsBounded
  <2> SUFFICES ASSUME NEW i \in 1..Len(sent), sent[i].ok,
                      damage # 0 => sent[i].at >= damage + HeaderLen + MaxByte + CrcLen,
                      \A j \in 1..i : ~ Misleads(sent[j].frame),
                      Len(heard) >= sent[i].at + Len(EncodeFrame(sent[i].frame)) - 1
               PROVE  \/ \E k \in refused : decoded[k] = sent[i].frame
                      \/ \E k \in DOMAIN Took(sent[i].frame.kind) :
                           Took(sent[i].frame.kind)[k] = sent[i].frame
    BY DEF DamageIsBounded
  <2>1. Honest(sent, i) /\ BeyondReach(sent[i].at, damage)
    BY DEF Honest, BeyondReach
  <2>2. /\ sent \in Seq(Sent) /\ heard \in Seq(Char) /\ heard \o air \in Seq(Char)
        /\ damage \in Nat /\ HeardOf(heard, heard \o air)
    BY <1>1, LineHeard DEF LineTypes
  <2>3. PICK c \in Nat : c = Len(sent) /\ i \in 1..c
    BY <2>2
  <2>4. \E k \in 1..Len(Reading(heard)) : Reading(heard)[k] = sent[i].frame
    <3>1. PICK line \in Seq(Char) : line = heard \o air
      BY <2>2
    <3>2. Laid(sent, line, damage) /\ HeardOf(heard, line)
      BY <1>1, <2>2, <3>1
    <3>3. sent \in Seq(Sent) /\ heard \in Seq(Char) /\ damage \in Nat
      BY <2>2
    <3> QED
      BY <2>1, <3>2, <3>3, BeyondIsRead
  <2>5. PICK f \in Frame : f = sent[i].frame
    <3>1. sent[i] \in Sent
      BY <2>2
    <3> QED
      BY <3>1 DEF Sent, Small
  <2>6. PICK k \in 1..Len(decoded) : decoded[k] = f
    BY <1>2, <2>4, <2>5, Zenon
  <2>7. CASE k \in refused
    BY <2>5, <2>6, <2>7
  <2>8. CASE k \notin refused
    <3>1. PICK kind \in Kinds : kind = f.kind
      BY DEF Frame
    <3>2. k \in Kept(kind)
      BY <1>2, <2>6, <2>8, <3>1 DEF Kept
    <3>3. PICK n, K, x :
            /\ n = Len(decoded) /\ K = Kept(kind) /\ IsFiniteSet(K)
            /\ Took(kind) \in Seq(Frame) /\ Len(Took(kind)) = Cardinality(K)
            /\ x = Cardinality(K \cap 1..k) /\ x \in 1..Cardinality(K)
            /\ Took(kind)[x] = decoded[k]
      <4>1. /\ Took(kind) \in Seq(Frame) /\ Kept(kind) \in SUBSET (1..Len(decoded))
            /\ IsFiniteSet(Kept(kind)) /\ Len(Took(kind)) = Cardinality(Kept(kind))
            /\ \A j \in Kept(kind) :
                 Took(kind)[Cardinality(Kept(kind) \cap 1..j)] = decoded[j]
        BY <1>6, Zenon DEF InOrder
      <4>2. PICK n \in Nat : n = Len(decoded)
        BY <1>2
      <4>3. PICK K \in SUBSET (1..n) : K = Kept(kind) /\ IsFiniteSet(K) /\ k \in K
        BY <3>2, <4>1, <4>2
      <4>4. Cardinality(K \cap 1..k) \in 1..Cardinality(K)
        BY <4>3, CountUpTo
      <4>5. Took(kind)[Cardinality(K \cap 1..k)] = decoded[k]
        BY <4>1, <4>3, Zenon
      <4>6. Cardinality(K \cap 1..k) \in Nat
        BY <4>4
      <4> QED
        BY <4>1, <4>2, <4>3, <4>4, <4>5, <4>6, Zenon
    <3>4. x \in DOMAIN Took(kind)
      <4>1. DOMAIN Took(kind) = 1..Len(Took(kind))
        BY <3>3
      <4> QED
        BY <3>3, <4>1, Zenon
    <3>5. Took(kind)[x] = f
      BY <2>6, <3>3, Zenon
    <3> QED
      BY <2>5, <3>1, <3>4, <3>5, Zenon
  <2> QED
    BY <2>7, <2>8
<1> QED
  BY <1>7, <1>8 DEF LineIsFaithful

\* Nothing was sent and nothing read.
LEMMA LineInvInit == LineInit => LineInv
<1> SUFFICES ASSUME LineInit PROVE LineInv
  OBVIOUS
<1>1. /\ <<>> \in Seq(Char) /\ <<>> \in Seq(Frame) /\ <<>> \in Seq(Sent) /\ <<>> \in Seq(Small)
      /\ Len(<<>>) = 0
  BY EmptySeq
<1>2. <<>> \o <<>> = <<>>
  BY <1>1, ConcatEmptySeq
<1>3. LineTypes
  BY <1>1 DEF LineInit, LineTypes
<1>4. Streams(heard, pending, decoded)
  BY StreamStart DEF LineInit
<1>5. Laid(sent, heard \o air, damage)
  <2>1. sent = <<>> /\ heard \o air = <<>>
    BY <1>2 DEF LineInit
  <2>2. 1..Len(sent) = {}
    BY <1>1, <2>1
  <2> QED
    BY <2>1, <2>2 DEF Laid
<1>6. Queues(handed, Inboxes)
  <2>1. handed = [k \in Kinds |-> <<>>] /\ inboxes = handed /\ decoded = <<>> /\ refused = {}
    BY DEF LineInit
  <2>2. /\ Inboxes.boxes = inboxes /\ Inboxes.decoded = decoded /\ Inboxes.refused = refused
        /\ Inboxes = [boxes |-> inboxes, decoded |-> decoded, refused |-> refused]
    BY DEF Inboxes
  <2>3. handed \in [Kinds -> Seq(Frame)] /\ inboxes \in [Kinds -> Seq(Frame)]
    BY <1>1, <2>1
  <2>4. Inboxes \in Collection
    BY <1>1, <2>1, <2>2, <2>3 DEF Collection
  <2>5. Dropped(Inboxes)
    BY <2>1, <2>2 DEF Dropped
  <2>6. ASSUME NEW kind \in Kinds
        PROVE InOrder(handed[kind] \o Inboxes.boxes[kind], Inboxes.decoded, KeptOf(Inboxes, kind))
    <3>1. handed[kind] = <<>> /\ Inboxes.boxes[kind] = <<>> /\ Inboxes.decoded = <<>>
      BY <2>1, <2>2
    <3>2. KeptOf(Inboxes, kind) = {}
      <4>1. DOMAIN Inboxes.decoded = {}
        BY <1>1, <3>1
      <4> QED
        BY <4>1 DEF KeptOf
    <3>3. IsFiniteSet({}) /\ Cardinality({}) = 0
      BY FS_EmptySet
    <3>4. InOrder(<<>>, <<>>, {})
      BY <1>1, <3>3 DEF InOrder
    <3> QED
      BY <1>2, <3>1, <3>2, <3>4
  <2> QED
    BY <2>3, <2>4, <2>5, <2>6 DEF Queues
<1> QED
  BY <1>3, <1>4, <1>5, <1>6 DEF LineInv

\* What the invariant says of the next state, given what it is made of
LEMMA LineInvNext ==
  \A r, b :
    /\ r = [boxes |-> inboxes', decoded |-> decoded', refused |-> refused']
    /\ b = heard' \o air'
    /\ commands' \in Seq(Small) /\ sent' \in Seq(Sent)
    /\ heard' \in Seq(Char) /\ air' \in Seq(Char) /\ damage' \in Nat
    /\ Streams(heard', pending', decoded') /\ Queues(handed', r) /\ Laid(sent', b, damage')
    => LineInv'
BY DEF LineInv, LineTypes, Inboxes

\* What does not touch the buffer, the stream or the queues keeps them.
LEMMA AirOnly ==
  ASSUME LineInv, UNCHANGED <<heard, pending, inboxes, decoded, handed, refused>>,
         commands' \in Seq(Small), sent' \in Seq(Sent), air' \in Seq(Char), damage' \in Nat,
         NEW b, b = heard \o air', Laid(sent', b, damage')
  PROVE  LineInv'
<1>1. heard \in Seq(Char) /\ Streams(heard, pending, decoded) /\ Queues(handed, Inboxes)
  BY DEF LineInv, LineTypes
<1>2. heard' \in Seq(Char) /\ Streams(heard', pending', decoded') /\ b = heard' \o air'
  BY <1>1
<1>3. PICK r : r = [boxes |-> inboxes', decoded |-> decoded', refused |-> refused'] /\ r = Inboxes
  BY DEF Inboxes
<1>4. Queues(handed', r)
  BY <1>1, <1>3
<1> QED
  BY <1>2, <1>3, <1>4, LineInvNext

\* A frame handed to the thread
LEMMA SendStep ==
  ASSUME LineInv, NEW m \in Messages, SendFrame(m[1], m[2])
  PROVE  LineInv'
<1>1. commands \in Seq(Small) /\ sent \in Seq(Sent) /\ air \in Seq(Char) /\ damage \in Nat
      /\ Laid(sent, heard \o air, damage)
  BY DEF LineInv, LineTypes
<1>2. PICK n \in Nat : n = Len(sent) + Len(commands) + 1
  <2>1. Len(sent) \in Nat /\ Len(commands) \in Nat
    BY <1>1
  <2> QED
    BY <2>1
<1>3. PICK f : /\ f = [kind |-> m[1], sequence |-> <<n>>, payload |-> m[2]]
               /\ commands' = Append(commands, f) /\ Len(m[2]) <= MaxPayload
  BY <1>2 DEF SendFrame
<1>4. f \in Small
  <2>1. m[1] \in Kinds /\ m[2] \in Seq(Char)
    BY LineAssumption
  <2>2. <<n>> \in Char
    BY DEF Char
  <2>3. f \in Frame
    BY <1>3, <2>1, <2>2 DEF Frame
  <2>4. Len(f.payload) <= MaxPayload
    BY <1>3
  <2> QED
    BY <2>3, <2>4 DEF Small
<1>5. commands' \in Seq(Small)
  BY <1>1, <1>3, <1>4, AppendProperties
<1>6. UNCHANGED <<sent, air, damage, heard, pending, inboxes, decoded, handed, refused>>
  BY DEF SendFrame
<1>7. heard \o air' = heard \o air /\ Laid(sent', heard \o air, damage')
  BY <1>1, <1>6
<1> QED
  BY <1>1, <1>5, <1>6, <1>7, AirOnly

\* A frame written
LEMMA WriteStep ==
  ASSUME LineInv, WritePort
  PROVE  LineInv'
<1>1. /\ commands \in Seq(Small) /\ sent \in Seq(Sent) /\ air \in Seq(Char) /\ damage \in Nat
      /\ heard \in Seq(Char) /\ Laid(sent, heard \o air, damage)
  BY DEF LineInv, LineTypes
<1>2. PICK f \in Small : f = Head(commands) /\ Tail(commands) \in Seq(Small)
  <2>1. commands # <<>>
    BY DEF WritePort
  <2> QED
    BY <1>1, <2>1, HeadTailProperties
<1>3. PICK E \in Seq(Char) : E = EncodeFrame(f)
  BY EncodedLen
<1>4. PICK line \in Seq(Char) : /\ line = heard \o air
                               /\ Len(line) + 1 = Len(heard) + Len(air) + 1
  BY <1>1, LineHeard
<1>5. PICK s : s = [frame |-> f, at |-> Len(line) + 1, ok |-> TRUE]
  OBVIOUS
<1>6. /\ commands' = Tail(commands) /\ sent' = Append(sent, s) /\ air' = air \o E
      /\ UNCHANGED <<damage, heard, pending, inboxes, decoded, handed, refused>>
  BY <1>2, <1>3, <1>4, <1>5, Zenon DEF WritePort
<1>7. Append(sent, s) \in Seq(Sent) /\ Laid(Append(sent, s), line \o E, damage)
  BY <1>1, <1>3, <1>4, <1>5, LaidWritten
<1>8. heard \o (air \o E) = line \o E
  BY <1>1, <1>4, BytesRegrouped, SMTT(20)
<1>9. air \o E \in Seq(Char)
  BY <1>1, ConcatProperties
<1>10. /\ commands' \in Seq(Small) /\ sent' \in Seq(Sent) /\ air' \in Seq(Char)
       /\ damage' \in Nat /\ heard \o air' = line \o E /\ Laid(sent', line \o E, damage')
  BY <1>1, <1>2, <1>6, <1>7, <1>8, <1>9
<1> QED
  BY <1>6, <1>10, AirOnly

\* A byte damaged or lost
LEMMA SpoilStep ==
  ASSUME LineInv, NEW i \in LastFrameOnAir, NEW bytes \in Seq(Char), NEW gone \in Nat, gone <= 1,
         Spoils(heard \o air, heard \o bytes, Len(heard) + i, gone), Spoil(i, bytes)
  PROVE  LineInv'
<1>1. /\ commands \in Seq(Small) /\ sent \in Seq(Sent) /\ air \in Seq(Char) /\ damage \in Nat
      /\ heard \in Seq(Char) /\ Laid(sent, heard \o air, damage)
  BY DEF LineInv, LineTypes
<1>2. PICK m \in Nat, n \in Nat : m = Len(heard) /\ n = Len(air)
  BY <1>1
<1>3. PICK P \in Nat : P = Len(heard) + i /\ i \in 1..n
  <2>1. i \in 1..n
    BY <1>2 DEF LastFrameOnAir
  <2> QED
    BY <1>2, <2>1
<1>4. PICK line \in Seq(Char) : line = heard \o air /\ P <= Len(line)
  <2>1. heard \o air \in Seq(Char) /\ Len(heard \o air) = m + n
    BY <1>1, <1>2, LineHeard
  <2>2. P <= m + n
    BY <1>2, <1>3
  <2> QED
    BY <2>1, <2>2
<1>5. sent # <<>>
  <2>1. air # <<>>
    BY DEF Spoil
  <2>2. line # <<>>
    <3>1. n # 0
      BY <1>1, <1>2, <2>1, EmptySeq
    <3>2. Len(line) # 0
      BY <1>1, <1>2, <1>4, <3>1, LineHeard
    <3> QED
      BY <3>2
  <2> QED
    BY <1>1, <1>4, <2>2 DEF Laid
<1>6. PICK c \in Nat \ {0} : c = Len(sent)
  <2>1. Len(sent) \in Nat /\ Len(sent) # 0
    BY <1>1, <1>5, EmptySeq
  <2> QED
    BY <2>1
<1>7. sent[c].at <= P
  BY <1>3, <1>6 DEF LastFrameOnAir
<1>8. PICK D2 \in Nat : damage' = D2 /\ damage <= D2 /\ P <= D2
  <2>1. damage' = IF P > damage THEN P ELSE damage
    BY <1>3 DEF Spoil
  <2> QED
    BY <1>1, <2>1
<1>9. PICK next : next = heard \o bytes /\ Spoils(line, next, P, gone)
  BY <1>3, <1>4
<1>10. /\ [sent EXCEPT ![c].ok = FALSE] \in Seq(Sent)
       /\ Laid([sent EXCEPT ![c].ok = FALSE], next, D2)
  BY <1>1, <1>4, <1>6, <1>7, <1>8, <1>9, LaidSpoilt
<1>11. /\ sent' = [sent EXCEPT ![c].ok = FALSE] /\ air' = bytes
       /\ UNCHANGED <<commands, heard, pending, inboxes, decoded, handed, refused>>
  BY <1>6 DEF Spoil
<1>12. /\ commands' \in Seq(Small) /\ sent' \in Seq(Sent) /\ air' \in Seq(Char)
       /\ damage' \in Nat /\ next = heard \o air' /\ Laid(sent', next, damage')
  BY <1>1, <1>8, <1>9, <1>10, <1>11
<1> QED
  BY <1>11, <1>12, AirOnly

\* A byte of the last frame on the air damaged
LEMMA DamageStep ==
  ASSUME LineInv, Damage
  PROVE  LineInv'
<1>1. PICK i \in LastFrameOnAir, v \in Noise : Spoil(i, [air EXCEPT ![i] = <<v>>])
  BY DEF Damage
<1>2. heard \in Seq(Char) /\ air \in Seq(Char) /\ i \in 1..Len(air) /\ <<v>> \in Char
  <2>1. v \in Nat
    BY LineAssumption
  <2>2. <<v>> \in Char
    BY <2>1 DEF Char
  <2> QED
    BY <2>2 DEF LineInv, LineTypes, LastFrameOnAir
<1>3. PICK bytes \in Seq(Char) : /\ bytes = [air EXCEPT ![i] = <<v>>]
                                /\ Spoils(heard \o air, heard \o bytes, Len(heard) + i, 0)
  BY <1>2, DamageSpoils
<1>4. 0 \in Nat /\ 0 <= 1
  OBVIOUS
<1> QED
  BY <1>1, <1>3, <1>4, SpoilStep

\* A byte of the last frame on the air lost
LEMMA LossStep ==
  ASSUME LineInv, LoseByte
  PROVE  LineInv'
<1>1. PICK i \in LastFrameOnAir : Spoil(i, RemoveByte(air, i))
  BY DEF LoseByte
<1>2. heard \in Seq(Char) /\ air \in Seq(Char) /\ i \in 1..Len(air)
  BY DEF LineInv, LineTypes, LastFrameOnAir
<1>3. PICK k \in Nat, w \in Nat : i = k + 1 /\ Parts(Len(air), k, w)
  <2>1. i - 1 \in Nat /\ Len(air) - i \in Nat /\ i = (i - 1) + 1
        /\ Len(air) = (i - 1) + 1 + (Len(air) - i)
    BY <1>2
  <2> QED
    BY <2>1 DEF Parts
<1>4. RemoveByte(air, k + 1) \in Seq(Char)
  BY <1>2, <1>3, Removed
<1>5. Spoils(heard \o air, heard \o RemoveByte(air, k + 1), Len(heard) + (k + 1), 1)
  BY <1>2, <1>3, LossSpoils
<1>6. PICK bytes \in Seq(Char) : /\ bytes = RemoveByte(air, i)
                                /\ Spoils(heard \o air, heard \o bytes, Len(heard) + i, 1)
  BY <1>3, <1>4, <1>5
<1>7. 1 \in Nat /\ 1 <= 1
  OBVIOUS
<1> QED
  BY <1>1, <1>6, <1>7, SpoilStep

\* Bytes read: they move from the air to the buffer, and its frames to their queues.
LEMMA ReadStep ==
  ASSUME LineInv, NEW n \in Chunks, ReadPort(n)
  PROVE  LineInv'
<1>1. /\ commands \in Seq(Small) /\ sent \in Seq(Sent) /\ damage \in Nat
      /\ heard \in Seq(Char) /\ air \in Seq(Char)
      /\ Streams(heard, pending, decoded) /\ Queues(handed, Inboxes)
      /\ Laid(sent, heard \o air, damage)
  BY DEF LineInv, LineTypes
<1>2. PICK got \in Nat : got = (IF n < Len(air) THEN n ELSE Len(air)) /\ got <= Len(air)
  <2>1. n \in Nat /\ Len(air) \in Nat
    BY <1>1, LineAssumption
  <2> QED
    BY <2>1
<1>3. PICK g \in Seq(Char), rest \in Seq(Char) :
        g = SubSeq(air, 1, got) /\ rest = From(air, got + 1) /\ g \o rest = air
  <2>1. got <= Len(air)
    BY <1>2
  <2>2. /\ SubSeq(air, 1, got) \in Seq(Char) /\ From(air, got + 1) \in Seq(Char)
        /\ SubSeq(air, 1, got) \o From(air, got + 1) = air
    BY <1>1, <2>1, Divided
  <2> QED
    BY <2>2, Zenon
<1>4. PICK drained : drained = DrainFrames(pending \o g)
  OBVIOUS
<1>5. PICK routed : routed = Route(Inboxes, drained.frames)
  OBVIOUS
<1>6. /\ heard' = heard \o g /\ air' = rest /\ pending' = drained.left
      /\ inboxes' = routed.boxes /\ decoded' = routed.decoded /\ refused' = routed.refused
      /\ UNCHANGED <<commands, sent, damage, faults, handed>>
  BY <1>2, <1>3, <1>4, <1>5, Zenon DEF ReadPort, Inboxes
<1>7. drained.frames \in Seq(Frame) /\ Streams(heard \o g, drained.left, decoded \o drained.frames)
  BY <1>1, <1>3, <1>4, ReadKeeps
<1>8. Queues(handed, routed) /\ routed.decoded = Inboxes.decoded \o drained.frames
  BY <1>1, <1>5, <1>7, RouteKeeps
<1>9. Inboxes.decoded = decoded
  BY DEF Inboxes
<1>10. routed = [boxes |-> inboxes', decoded |-> decoded', refused |-> refused']
  <2>1. routed \in Collection
    BY <1>8 DEF Queues
  <2> QED
    BY <1>6, <2>1 DEF Collection
<1>11. Streams(heard', pending', decoded')
  BY <1>6, <1>7, <1>8, <1>9, Zenon
<1>12. heard' \in Seq(Char) /\ air' \in Seq(Char) /\ heard' \o air' = heard \o air
  <2>1. heard \o g \in Seq(Char)
    BY <1>1, <1>3, ConcatProperties
  <2>2. heard \in Seq(Char)
    BY <1>1
  <2>3. (heard \o g) \o rest = heard \o (g \o rest)
    BY <2>2, BytesRegrouped
  <2> QED
    BY <1>3, <1>6, <2>1, <2>3, Zenon
<1>13. /\ commands' \in Seq(Small) /\ sent' \in Seq(Sent) /\ damage' \in Nat
       /\ Queues(handed', routed) /\ Laid(sent', heard \o air, damage')
  BY <1>1, <1>6, <1>8
<1> QED
  BY <1>10, <1>11, <1>12, <1>13, LineInvNext

\* Frames polled
LEMMA PollStep ==
  ASSUME LineInv, NEW kind \in Kinds, NEW most \in Nat, Poll(kind, most)
  PROVE  LineInv'
<1>1. /\ LineTypes /\ Streams(heard, pending, decoded) /\ Queues(handed, Inboxes)
      /\ Laid(sent, heard \o air, damage)
  BY DEF LineInv
<1>2. inboxes[kind] \in Seq(Frame) /\ Inboxes.boxes = inboxes
  BY <1>1 DEF Queues, Collection, Inboxes
<1>3. PICK n \in Nat :
        /\ n = (IF kind # "syncRequest" \/ most > Len(inboxes[kind]) THEN Len(inboxes[kind])
                ELSE most)
        /\ n <= Len(Inboxes.boxes[kind])
  BY <1>2
<1>4. /\ handed' = [handed EXCEPT ![kind] = @ \o SubSeq(Inboxes.boxes[kind], 1, n)]
      /\ inboxes' = [Inboxes.boxes EXCEPT ![kind] = From(Inboxes.boxes[kind], n + 1)]
      /\ UNCHANGED <<commands, sent, air, damage, heard, pending, decoded, refused>>
  BY <1>2, <1>3, Zenon DEF Poll
<1>5. PICK d : d = [boxes |-> inboxes', decoded |-> decoded', refused |-> refused']
  OBVIOUS
<1>6. d = [boxes |-> inboxes', decoded |-> Inboxes.decoded, refused |-> Inboxes.refused]
  BY <1>4, <1>5 DEF Inboxes
<1>7. Queues(handed', d)
  BY <1>1, <1>3, <1>4, <1>6, PollKeeps
<1>8. /\ commands' \in Seq(Small) /\ sent' \in Seq(Sent) /\ damage' \in Nat
      /\ heard' \in Seq(Char) /\ air' \in Seq(Char) /\ heard' \o air' = heard \o air
      /\ Streams(heard', pending', decoded') /\ Laid(sent', heard \o air, damage')
  BY <1>1, <1>4 DEF LineTypes
<1> QED
  BY <1>5, <1>7, <1>8, LineInvNext

\* Every step of the sender, the radio and the reader keeps the invariant.
LEMMA LineInvStep == LineInv /\ [LineNext]_lineVars => LineInv'
<1> SUFFICES ASSUME LineInv, [LineNext]_lineVars PROVE LineInv'
  OBVIOUS
<1>1. CASE \E m \in Messages : SendFrame(m[1], m[2])
  BY <1>1, SendStep
<1>2. CASE WritePort
  BY <1>2, WriteStep
<1>3. CASE Damage
  BY <1>3, DamageStep
<1>4. CASE LoseByte
  BY <1>4, LossStep
<1>5. CASE \E n \in Chunks : ReadPort(n)
  BY <1>5, ReadStep
<1>6. CASE \E kind \in Kinds : Poll(kind, 1)
  <2>1. 1 \in Nat
    OBVIOUS
  <2> QED
    BY <1>6, <2>1, PollStep
<1>7. CASE UNCHANGED lineVars
  <2>1. /\ commands \in Seq(Small) /\ sent \in Seq(Sent) /\ air \in Seq(Char) /\ damage \in Nat
        /\ Laid(sent, heard \o air, damage)
    BY DEF LineInv, LineTypes
  <2>2. UNCHANGED <<commands, sent, air, damage>>
    BY <1>7 DEF lineVars
  <2>3. UNCHANGED <<heard, pending, inboxes, decoded, handed, refused>>
    BY <1>7 DEF lineVars
  <2>4. /\ commands' \in Seq(Small) /\ sent' \in Seq(Sent) /\ air' \in Seq(Char)
        /\ damage' \in Nat /\ heard \o air = heard \o air' /\ Laid(sent', heard \o air, damage')
    BY <2>1, <2>2
  <2> QED
    BY <2>3, <2>4, AirOnly
<1> QED
  BY <1>1, <1>2, <1>3, <1>4, <1>5, <1>6, <1>7, Zenon DEF LineNext

\* However the reads cut the stream, each queue is given the frames the stream holds of its kind,
\* in order and once; and a byte damaged or lost costs no intact frame beyond its reach
\* (run_lora_io, drain_frames, LoraInboxes).
THEOREM LineFaithful == LineSpec => []LineIsFaithful
<1>1. LineInit => LineInv
  BY LineInvInit
<1>2. LineInv /\ [LineNext]_lineVars => LineInv'
  BY LineInvStep
<1>3. LineInv => LineIsFaithful
  BY LineInvFaithful
<1> QED
  BY <1>1, <1>2, <1>3, PTL DEF LineSpec
=============================================================================
