----------------------------- MODULE DataProof -----------------------------
(***************************************************************************)
(* What the operators on data compute, for inputs of every size: lengths,  *)
(* text and binary rows, terminators, time stamps and local times.         *)
(*                                                                         *)
(* As in TextProof, induction is over sets of numbers, and each recursive  *)
(* definition has its chain; the theorems about rows rest on one lemma,    *)
(* RowReads, about a reader that takes piece after piece of a packet.  The *)
(* invariants, those about texts too, follow since each probe is such an   *)
(* input.                                                                  *)
(***************************************************************************)
EXTENDS TextProof

(***************************************************************************)
(* Little-endian numbers.                                                  *)
(***************************************************************************)
Shifts(s, n, k) == s = [i \in 0..k |-> IF i = 0 THEN n ELSE s[i - 1] \div 256]

LEMMA ShiftsExist ==
    ASSUME NEW n \in Int, NEW k \in Nat
    PROVE  \E s \in [0..k -> Int] : Shifts(s, n, k)
<1> DEFINE T == {j \in Nat : \E s \in [0..j -> Int] : Shifts(s, n, j)}
<1>1. 0 \in T
    <2> DEFINE s == [i \in 0..0 |-> n]
    <2>1. s \in [0..0 -> Int] /\ Shifts(s, n, 0)
        BY DEF Shifts
    <2> QED BY <2>1
<1>2. ASSUME NEW j \in T PROVE j + 1 \in T
    <2>1. PICK s \in [0..j -> Int] : Shifts(s, n, j)
        OBVIOUS
    <2> DEFINE r == [i \in 0..(j + 1) |-> IF i = j + 1 THEN s[j] \div 256 ELSE s[i]]
    <2>2. r \in [0..(j + 1) -> Int]
        OBVIOUS
    <2>3. \A i \in 0..(j + 1) : r[i] = IF i = 0 THEN n ELSE r[i - 1] \div 256
        BY <2>1 DEF Shifts
    <2>4. Shifts(r, n, j + 1)
        <3> HIDE DEF r
        <3>1. r = [i \in 0..(j + 1) |-> r[i]]
            BY ONLY <2>2
        <3> QED BY ONLY <2>3, <3>1 DEF Shifts
    <2> QED BY <2>2, <2>4
<1>3. Nat \subseteq T
    <2> HIDE DEF T
    <2>1. T \subseteq Nat
        BY DEF T
    <2> QED BY <1>1, <1>2, <2>1, NatSets
<1> QED BY <1>3

\* s[i] is n without its i lowest bytes, and the bytes are taken from there.
LEVia(s, n, k) ==
    /\ s \in [0..k -> Int]
    /\ s[0] = n
    /\ \A i \in 1..k : s[i] = s[i - 1] \div 256
    /\ LE(n, k) = [i \in 1..k |-> s[i - 1] % 256]

LEMMA LEChain ==
    ASSUME NEW n \in Int, NEW k \in Nat
    PROVE  \E s : LEVia(s, n, k)
<1> DEFINE c == CHOOSE s : Shifts(s, n, k)
<1>1. Shifts(c, n, k)
    BY ShiftsExist
<1>2. LE(n, k) = [i \in 1..k |-> c[i - 1] % 256]
    BY DEF LE, Shifts
<1> HIDE DEF c
<1> DEFINE A == {j \in Nat : j \in 0..k => c[j] \in Int}
<1>3. \A i \in 0..k : c[i] = IF i = 0 THEN n ELSE c[i - 1] \div 256
    BY <1>1 DEF Shifts
<1>4. Nat \subseteq A
    <2>1. 0 \in A
        BY <1>3
    <2>2. ASSUME NEW j \in A PROVE j + 1 \in A
        BY <1>3
    <2> HIDE DEF A
    <2>3. A \subseteq Nat
        BY DEF A
    <2> QED BY <2>1, <2>2, <2>3, NatSets
<1>5. c \in [0..k -> Int]
    <2>1. \A j \in 0..k : c[j] \in Int
        BY <1>4
    <2>2. c = [i \in 0..k |-> c[i]]
        BY <1>1 DEF Shifts
    <2> QED BY <2>1, <2>2
<1>6. c[0] = n /\ \A i \in 1..k : c[i] = c[i - 1] \div 256
    BY <1>3
<1>7. LEVia(c, n, k)
    BY <1>2, <1>5, <1>6 DEF LEVia
<1> QED BY <1>7

LEMMA MinIs ==
    ASSUME NEW S \in SUBSET Int, NEW a \in S, \A x \in S : a <= x
    PROVE  Min(S) = a
<1>1. \A x \in S : (\A y \in S : x <= y) => x = a
    OBVIOUS
<1> QED BY <1>1 DEF Min

Folding(f, b, D) == f = [s \in SUBSET D |-> IF s = {} THEN 0 ELSE b[Min(s)] + 256 * f[s \ {Min(s)}]]

LEMMA FoldingExists ==
    ASSUME NEW b \in Seq(Int)
    PROVE  \E f : Folding(f, b, 1..Len(b))
<1> DEFINE k == Len(b)
           T == {j \in Nat : j <= k => \E f : Folding(f, b, (k + 1 - j)..k)}
<1>0. k \in Nat
    OBVIOUS
<1> HIDE DEF k
<1>1. 0 \in T
    <2> DEFINE f == [s \in SUBSET ((k + 1)..k) |-> 0]
    <2>1. \A s \in SUBSET ((k + 1)..k) : s = {}
        BY <1>0
    <2>2. Folding(f, b, (k + 1)..k)
        BY <2>1 DEF Folding
    <2> QED BY <2>2, <1>0
<1>2. ASSUME NEW j \in T PROVE j + 1 \in T
    <2> SUFFICES ASSUME j + 1 <= k PROVE \E f : Folding(f, b, (k + 1 - (j + 1))..k)
        OBVIOUS
    <2> DEFINE lo == k - j
    <2>1. lo \in Nat /\ lo >= 1 /\ lo <= k /\ k + 1 - j = lo + 1 /\ k + 1 - (j + 1) = lo
        BY <1>0
    <2> HIDE DEF lo
    <2>2. PICK f : Folding(f, b, (lo + 1)..k)
        <3>1. j \in Nat /\ j <= k
            BY <1>0
        <3>2. \E f : Folding(f, b, (k + 1 - j)..k)
            BY <3>1
        <3> QED BY <3>2, <2>1
    <2> DEFINE r == [s \in SUBSET (lo..k) |-> IF lo \in s THEN b[lo] + 256 * f[s \ {lo}] ELSE f[s]]
    <2>3. ASSUME NEW s \in SUBSET (lo..k)
          PROVE  r[s] = IF s = {} THEN 0 ELSE b[Min(s)] + 256 * r[s \ {Min(s)}]
        <3>1. CASE lo \in s
            <4>1. Min(s) = lo
                BY <3>1, <1>0, <2>1, MinIs
            <4>2. s \ {lo} \in SUBSET (lo..k) /\ s \ {lo} \in SUBSET ((lo + 1)..k) /\ lo \notin s \ {lo}
                BY <1>0, <2>1
            <4>3. r[s] = b[lo] + 256 * f[s \ {lo}] /\ r[s \ {lo}] = f[s \ {lo}]
                BY <3>1, <4>2
            <4> QED BY <3>1, <4>1, <4>3
        <3>2. CASE lo \notin s
            <4>1. s \in SUBSET ((lo + 1)..k)
                BY <3>2, <1>0, <2>1
            <4>2. s \ {Min(s)} \in SUBSET (lo..k) /\ lo \notin s \ {Min(s)}
                BY <3>2
            <4>3. r[s] = f[s] /\ r[s \ {Min(s)}] = f[s \ {Min(s)}]
                BY <3>2, <4>2
            <4>4. f[s] = IF s = {} THEN 0 ELSE b[Min(s)] + 256 * f[s \ {Min(s)}]
                BY <2>2, <4>1 DEF Folding
            <4> QED BY <4>3, <4>4
        <3> QED BY <3>1, <3>2
    <2>4. Folding(r, b, lo..k)
        <3>1. r = [s \in SUBSET (lo..k) |-> r[s]]
            OBVIOUS
        <3> HIDE DEF r
        <3> QED BY <2>3, <3>1, Zenon DEF Folding
    <2> HIDE DEF r
    <2> QED BY <2>1, <2>4
<1>3. Nat \subseteq T
    <2> HIDE DEF T
    <2>1. T \subseteq Nat
        BY DEF T
    <2> QED BY <1>1, <1>2, <2>1, NatSets
<1>4. k \in T
    BY <1>0, <1>3
<1>5. \E f : Folding(f, b, (k + 1 - k)..k)
    BY <1>0, <1>4
<1>6. k + 1 - k = 1
    BY <1>0
<1> QED BY <1>5, <1>6 DEF k

\* g[j] is the number that the bytes from j on stand for.
UnLEVia(g, b) ==
    /\ g[Len(b) + 1] = 0
    /\ \A j \in 1..Len(b) : g[j] = b[j] + 256 * g[j + 1]
    /\ UnLE(b) = g[1]

LEMMA UnLEChain ==
    ASSUME NEW b \in Seq(Int)
    PROVE  \E g : UnLEVia(g, b)
<1> DEFINE c == CHOOSE f : Folding(f, b, DOMAIN b)
           k == Len(b)
           g == [j \in 1..(k + 1) |-> c[j..k]]
<1>0. k \in Nat /\ DOMAIN b = 1..k
    OBVIOUS
<1>1. Folding(c, b, 1..k)
    BY FoldingExists
<1>2. UnLE(b) = c[DOMAIN b]
    BY DEF UnLE, FoldRight, MapThenFoldSet, Folding
<1> HIDE DEF c, k
<1>3. \A s \in SUBSET (1..k) : c[s] = IF s = {} THEN 0 ELSE b[Min(s)] + 256 * c[s \ {Min(s)}]
    BY <1>1 DEF Folding
<1>4. ASSUME NEW j \in 1..k PROVE g[j] = b[j] + 256 * g[j + 1]
    <2>1. j..k \in SUBSET (1..k) /\ j..k # {} /\ (j..k) \ {j} = (j + 1)..k
        BY <1>0
    <2>2. Min(j..k) = j
        <3>1. j..k \in SUBSET Int /\ j \in j..k /\ \A x \in j..k : j <= x
            BY <1>0
        <3> QED BY <3>1, MinIs
    <2>3. c[j..k] = b[j] + 256 * c[(j + 1)..k]
        <3>1. PICK s \in SUBSET (1..k) : s = j..k /\ s # {}
            BY ONLY <2>1
        <3>2. Min(s) = j /\ s \ {j} = (j + 1)..k
            BY ONLY <2>1, <2>2, <3>1
        <3>3. c[s] = b[Min(s)] + 256 * c[s \ {Min(s)}]
            BY ONLY <1>3, <3>1, s \in SUBSET (1..k)
        <3> QED BY ONLY <3>1, <3>2, <3>3
    <2> QED BY <2>3, <1>0
<1>5. g[k + 1] = 0
    <2>1. (k + 1)..k = {}
        BY <1>0
    <2>2. c[{}] = 0
        BY <1>3
    <2> QED BY <2>1, <2>2, <1>0
<1>6. g[1] = c[1..k]
    BY <1>0
<1> HIDE DEF g
<1>7. UnLEVia(g, b)
    BY <1>0, <1>2, <1>4, <1>5, <1>6 DEF UnLEVia, k
<1> QED BY <1>7

\* What k bytes hold: a number below 256 ^ k, written out for the widths of the protocol.
Limit(k) == IF k = 1 THEN 256
            ELSE IF k = 2 THEN 65536
            ELSE IF k = 3 THEN 16777216
            ELSE IF k = 4 THEN 4294967296
            ELSE 18446744073709551616
FixedWidths == {1, 2, 3, 4, 8}
Byte == 0..255

LEMMA BytesAreInts ==
    ASSUME NEW b \in Seq(Byte)
    PROVE  b \in Seq(Int)
<1>1. \A i \in 1..Len(b) : b[i] \in Byte
    OBVIOUS
<1>2. ASSUME NEW i \in 1..Len(b) PROVE b[i] \in Int
    <2>1. b[i] \in Byte
        BY <1>1
    <2>2. \A x \in Byte : x \in Int
        BY DEF Byte
    <2> QED BY <2>1, <2>2, Zenon
<1> QED BY <1>2

LEMMA LEType ==
    ASSUME NEW n \in Int, NEW k \in Nat
    PROVE  LE(n, k) \in Seq(Byte) /\ Len(LE(n, k)) = k
<1>1. PICK s : LEVia(s, n, k)
    BY LEChain
<1>2. ASSUME NEW i \in 1..k PROVE s[i - 1] % 256 \in Byte
    <2>1. i - 1 \in 0..k /\ s[i - 1] \in Int
        BY <1>1 DEF LEVia
    <2> QED BY <2>1 DEF Byte
<1>3. LE(n, k) = [i \in 1..k |-> s[i - 1] % 256]
    BY <1>1 DEF LEVia
<1> QED BY <1>2, <1>3

LEMMA ByteOff ==
    ASSUME NEW n \in Nat, NEW m \in Nat, n < 256 * m
    PROVE  n \div 256 \in Nat /\ n \div 256 < m
OBVIOUS

\* A number comes back from its bytes.
LEMMA UnLEOfLE ==
    ASSUME NEW k \in FixedWidths, NEW n \in Nat, n < Limit(k)
    PROVE  UnLE(LE(n, k)) = n
<1>0. k \in Nat /\ n \in Int
    BY DEF FixedWidths
<1>1. PICK s : LEVia(s, n, k)
    BY <1>0, LEChain
<1>2. LE(n, k) \in Seq(Int) /\ Len(LE(n, k)) = k
    <2>1. LE(n, k) \in Seq(Byte) /\ Len(LE(n, k)) = k
        BY <1>0, LEType
    <2> QED BY <2>1, BytesAreInts
<1>3. PICK g : UnLEVia(g, LE(n, k))
    BY <1>2, UnLEChain
<1> DEFINE b == LE(n, k)
<1>4. /\ s \in [0..k -> Int] /\ s[0] = n /\ UnLE(b) = g[1] /\ g[k + 1] = 0
      /\ \A i \in 1..k : s[i] = s[i - 1] \div 256 /\ b[i] = s[i - 1] % 256 /\ g[i] = b[i] + 256 * g[i + 1]
    <2>1. /\ s \in [0..k -> Int] /\ s[0] = n /\ b = [i \in 1..k |-> s[i - 1] % 256]
          /\ \A i \in 1..k : s[i] = s[i - 1] \div 256
        BY ONLY <1>1 DEF LEVia
    <2>2. UnLE(b) = g[1] /\ g[k + 1] = 0 /\ \A i \in 1..k : g[i] = b[i] + 256 * g[i + 1]
        <3>1. Len(b) = k
            BY ONLY <1>2
        <3> HIDE DEF b
        <3>2. UnLEVia(g, b)
            BY ONLY <1>3 DEF b
        <3> QED BY ONLY <3>1, <3>2 DEF UnLEVia
    <2>3. \A i \in 1..k : b[i] = s[i - 1] % 256
        <3> HIDE DEF b
        <3> QED BY ONLY <2>1
    <2> QED BY ONLY <2>1, <2>2, <2>3
<1> HIDE DEF b
<1>5. s[k] = 0
    <2> DEFINE Below(i, m) == s[i] \in Nat /\ s[i] < m
    <2>1. ASSUME NEW i \in 1..k, NEW m \in Nat, Below(i - 1, 256 * m) PROVE Below(i, m)
        BY <1>4, <2>1, ByteOff
    <2>2. Below(0, Limit(k))
        BY <1>4
    <2> HIDE DEF Below
    <2>3. CASE k = 1
        BY <2>3, <2>1, <2>2 DEF Limit, Below
    <2>4. CASE k = 2
        <3>1. Below(1, 256)
            BY <2>4, <2>1, <2>2 DEF Limit
        <3> QED BY <3>1, <2>4, <2>1 DEF Below
    <2>5. CASE k = 3
        <3>1. Below(1, 65536)
            BY <2>5, <2>1, <2>2 DEF Limit
        <3>2. Below(2, 256)
            BY <3>1, <2>5, <2>1
        <3> QED BY <3>2, <2>5, <2>1 DEF Below
    <2>6. CASE k = 4
        <3>1. Below(1, 16777216)
            BY <2>6, <2>1, <2>2 DEF Limit
        <3>2. Below(2, 65536)
            BY <3>1, <2>6, <2>1
        <3>3. Below(3, 256)
            BY <3>2, <2>6, <2>1
        <3> QED BY <3>3, <2>6, <2>1 DEF Below
    <2>7. CASE k = 8
        <3>1. Below(1, 72057594037927936)
            BY <2>7, <2>1, <2>2 DEF Limit
        <3>2. Below(2, 281474976710656)
            BY <3>1, <2>7, <2>1
        <3>3. Below(3, 1099511627776)
            BY <3>2, <2>7, <2>1
        <3>4. Below(4, 4294967296)
            BY <3>3, <2>7, <2>1
        <3>5. Below(5, 16777216)
            BY <3>4, <2>7, <2>1
        <3>6. Below(6, 65536)
            BY <3>5, <2>7, <2>1
        <3>7. Below(7, 256)
            BY <3>6, <2>7, <2>1
        <3> QED BY <3>7, <2>7, <2>1 DEF Below
    <2> QED BY <2>3, <2>4, <2>5, <2>6, <2>7 DEF FixedWidths
<1>6. ASSUME NEW j \in 1..k, g[j + 1] = s[j] PROVE g[j] = s[j - 1]
    <2>1. PICK x \in Int : x = s[j - 1]
        BY <1>0, <1>4
    <2>2. s[j] = x \div 256 /\ b[j] = x % 256 /\ g[j] = b[j] + 256 * g[j + 1]
        BY <2>1, <1>4
    <2> QED BY <2>1, <2>2, <1>6
<1> DEFINE T == {d \in Nat : d <= k => g[k - d + 1] = s[k - d]}
<1>7. Nat \subseteq T
    <2>1. 0 \in T
        BY <1>0, <1>4, <1>5
    <2>2. ASSUME NEW d \in T PROVE d + 1 \in T
        <3> SUFFICES ASSUME d + 1 <= k PROVE g[k - (d + 1) + 1] = s[k - (d + 1)]
            OBVIOUS
        <3>1. k - d \in 1..k /\ k - (d + 1) + 1 = k - d /\ k - (d + 1) = (k - d) - 1 /\ g[(k - d) + 1] = s[k - d]
            BY <1>0
        <3> QED BY <3>1, <1>6
    <2> HIDE DEF T
    <2>3. T \subseteq Nat
        BY DEF T
    <2> QED BY <2>1, <2>2, <2>3, NatSets
<1>8. g[1] = s[0]
    <2>1. k \in T /\ k - k + 1 = 1 /\ k - k = 0 /\ k <= k
        BY <1>0, <1>7
    <2> QED BY <2>1
<1> QED BY <1>4, <1>8 DEF b

\* Numbers of the lower half have a top bit of 0.
LEMMA TopByte ==
    ASSUME NEW k \in {1, 2, 4, 8}, NEW n \in Nat, 2 * n < Limit(k)
    PROVE  LE(n, k)[k] < 128
<1>0. k \in Nat /\ n \in Int
    OBVIOUS
<1>1. PICK s : LEVia(s, n, k)
    BY <1>0, LEChain
<1>2. /\ s \in [0..k -> Int] /\ s[0] = n
      /\ LE(n, k)[k] = s[k - 1] % 256
      /\ \A i \in 1..k : s[i] = s[i - 1] \div 256
    BY <1>0, <1>1 DEF LEVia
<1> DEFINE Below(i, m) == s[i] \in Nat /\ s[i] < m
<1>3. ASSUME NEW i \in 1..k, NEW m \in Nat, Below(i - 1, 256 * m) PROVE Below(i, m)
    BY <1>2, <1>3, ByteOff
<1>4. Below(k - 1, 128)
    <2>0. s[0] \in Nat /\ 2 * s[0] < Limit(k)
        BY <1>2
    <2> HIDE DEF Below
    <2>1. CASE k = 1
        BY <2>1, <2>0 DEF Limit, Below
    <2>2. CASE k = 2
        <3>1. Below(0, 32768)
            BY <2>2, <2>0 DEF Limit, Below
        <3> QED BY <3>1, <2>2, <1>3
    <2>3. CASE k = 4
        <3>1. Below(0, 2147483648)
            BY <2>3, <2>0 DEF Limit, Below
        <3>2. Below(1, 8388608)
            BY <3>1, <2>3, <1>3
        <3>3. Below(2, 32768)
            BY <3>2, <2>3, <1>3
        <3> QED BY <3>3, <2>3, <1>3
    <2>4. CASE k = 8
        <3>1. Below(0, 9223372036854775808)
            BY <2>4, <2>0 DEF Limit, Below
        <3>2. Below(1, 36028797018963968)
            BY <3>1, <2>4, <1>3
        <3>3. Below(2, 140737488355328)
            BY <3>2, <2>4, <1>3
        <3>4. Below(3, 549755813888)
            BY <3>3, <2>4, <1>3
        <3>5. Below(4, 2147483648)
            BY <3>4, <2>4, <1>3
        <3>6. Below(5, 8388608)
            BY <3>5, <2>4, <1>3
        <3>7. Below(6, 32768)
            BY <3>6, <2>4, <1>3
        <3> QED BY <3>7, <2>4, <1>3
    <2> QED BY <2>1, <2>2, <2>3, <2>4
<1> QED BY <1>2, <1>4

\* The complement of the bytes of n is the bytes of -1 - n.
LEMMA Complement ==
    ASSUME NEW n \in Int, NEW k \in Nat
    PROVE  [i \in DOMAIN LE(n, k) |-> 255 - LE(n, k)[i]] = LE(-1 - n, k)
<1> DEFINE m == -1 - n
<1>0. m \in Int
    OBVIOUS
<1> HIDE DEF m
<1>1. PICK s : LEVia(s, n, k)
    BY LEChain
<1>2. PICK t : LEVia(t, m, k)
    BY <1>0, LEChain
<1>3. /\ s \in [0..k -> Int] /\ t \in [0..k -> Int] /\ s[0] = n /\ t[0] = m
      /\ LE(n, k) = [i \in 1..k |-> s[i - 1] % 256] /\ LE(m, k) = [i \in 1..k |-> t[i - 1] % 256]
      /\ \A i \in 1..k : s[i] = s[i - 1] \div 256 /\ t[i] = t[i - 1] \div 256
    BY <1>1, <1>2 DEF LEVia
<1> DEFINE T == {i \in Nat : i <= k => t[i] = -1 - s[i]}
<1>4. Nat \subseteq T
    <2>1. 0 \in T
        BY <1>3 DEF m
    <2>2. ASSUME NEW i \in T PROVE i + 1 \in T
        <3> SUFFICES ASSUME i + 1 <= k PROVE t[i + 1] = -1 - s[i + 1]
            OBVIOUS
        <3>1. i \in 0..k /\ i + 1 \in 1..k /\ (i + 1) - 1 = i /\ t[i] = -1 - s[i]
            OBVIOUS
        <3>2. PICK x \in Int : x = s[i]
            BY <3>1, <1>3
        <3>3. s[i + 1] = x \div 256 /\ t[i + 1] = (-1 - x) \div 256
            BY <3>1, <3>2, <1>3
        <3> QED BY <3>3
    <2> HIDE DEF T
    <2>3. T \subseteq Nat
        BY DEF T
    <2> QED BY <2>1, <2>2, <2>3, NatSets
<1>5. ASSUME NEW i \in 1..k PROVE 255 - LE(n, k)[i] = t[i - 1] % 256
    <2>1. i - 1 \in 0..k /\ i - 1 \in Nat /\ i - 1 <= k /\ LE(n, k)[i] = s[i - 1] % 256
        BY <1>3
    <2>2. PICK x \in Int : x = s[i - 1]
        BY <2>1, <1>3
    <2>3. t[i - 1] = -1 - x
        BY <2>1, <2>2, <1>4
    <2> QED BY <2>1, <2>2, <2>3
<1>6. DOMAIN LE(n, k) = 1..k
    BY <1>3
<1> DEFINE low == [i \in 1..k |-> t[i - 1] % 256]
<1>7. [i \in 1..k |-> 255 - LE(n, k)[i]] = low
    BY <1>5
<1>8. LE(-1 - n, k) = low
    BY <1>3 DEF m
<1> QED BY <1>6, <1>7, <1>8

\* A signed number comes back from its bytes (two's complement).
LEMMA SignedOfLE ==
    ASSUME NEW k \in {1, 2, 4, 8}, NEW n \in Int, 2 * n < Limit(k), 0 <= 2 * n + Limit(k)
    PROVE  Signed(LE(n, k)) = n
<1>0. k \in Nat /\ k \in FixedWidths /\ k >= 1 /\ Limit(k) \in Nat
    BY DEF FixedWidths, Limit
<1>1. LE(n, k) \in Seq(Byte) /\ Len(LE(n, k)) = k
    BY <1>0, LEType
<1>2. Last(LE(n, k)) = LE(n, k)[k] /\ LE(n, k)[k] \in Byte
    BY <1>0, <1>1 DEF Last
<1>3. CASE n >= 0
    <2>1. n \in Nat /\ n < Limit(k)
        BY <1>0, <1>3
    <2>2. LE(n, k)[k] < 128
        BY <2>1, TopByte
    <2>3. UnLE(LE(n, k)) = n
        BY <2>1, <1>0, UnLEOfLE
    <2> QED BY <1>2, <2>2, <2>3 DEF Signed, Byte
<1>4. CASE n < 0
    <2>1. PICK m \in Nat : m = -1 - n
        BY <1>4
    <2>2. 2 * m < Limit(k) /\ m < Limit(k)
        BY <2>1, <1>0
    <2>3. LE(m, k)[k] < 128 /\ UnLE(LE(m, k)) = m
        BY <2>2, <1>0, TopByte, UnLEOfLE
    <2>4. [i \in DOMAIN LE(n, k) |-> 255 - LE(n, k)[i]] = LE(m, k)
        BY <2>1, <1>0, Complement
    <2>5. LE(m, k)[k] = 255 - LE(n, k)[k]
        <3>1. k \in DOMAIN LE(n, k)
            BY <1>0, <1>1
        <3> QED BY <2>4, <3>1
    <2>6. LE(n, k)[k] >= 128
        BY <2>3, <2>5, <1>2 DEF Byte
    <2> QED BY <1>2, <2>1, <2>3, <2>4, <2>6 DEF Signed
<1> QED BY <1>3, <1>4

(***************************************************************************)
(* Length-encoded integers and strings.                                    *)
(***************************************************************************)
LEMMA Middle ==
    ASSUME NEW S, NEW a \in Seq(S), NEW x \in Seq(S), NEW r \in Seq(S)
    PROVE  /\ SubSeq((a \o x) \o r, Len(a) + 1, Len(a) + Len(x)) = x
           /\ SubSeq((a \o x) \o r, Len(a) + Len(x) + 1, Len((a \o x) \o r)) = r
OBVIOUS

\* Lengths from here on start with the byte that also starts an EOF packet.
Huge == 16777216

Mark(k) == IF k = 2 THEN 252 ELSE IF k = 3 THEN 253 ELSE 254

\* The two forms of a length: its own byte, or a mark and k bytes.
Single(n, b) == n < 251 /\ b = <<n>> /\ Len(b) = 1
Marked(n, b, k) ==
    /\ n < Limit(k) /\ (k = 8 => n >= Huge)
    /\ Len(b) = k + 1 /\ b = <<Mark(k)>> \o LE(n, k)
Opens(b) == b \in Seq(Byte) /\ b[1] \notin {251, 255}
Shaped(n, b) ==
    /\ Opens(b)
    /\ Single(n, b) \/ \E k \in {2, 3, 8} : Marked(n, b, k)

LEMMA MarkIs ==
    ASSUME NEW k \in {2, 3, 8}
    PROVE  \E h \in {252, 253, 254} : h = Mark(k) /\ h \in Byte /\ <<2, 3, 8>>[h - 251] = k
BY DEF Mark, Byte

LEMMA HeadOf ==
    ASSUME NEW S, NEW h \in S, NEW x \in Seq(S)
    PROVE  <<h>> \o x \in Seq(S) /\ Len(<<h>> \o x) = Len(x) + 1 /\ (<<h>> \o x)[1] = h
OBVIOUS

LEMMA LenencShape ==
    ASSUME NEW n \in Nat, n < Limit(8)
    PROVE  Shaped(n, PutLengthEncodedInt(n))
<1>1. PICK b : b = PutLengthEncodedInt(n)
    OBVIOUS
<1>2. CASE n < 251
    <2>1. b = <<n>> /\ n \in Byte /\ n \notin {251, 255}
        BY <1>1, <1>2 DEF PutLengthEncodedInt, Byte
    <2>2. b \in Seq(Byte) /\ Len(b) = 1 /\ b[1] = n
        BY ONLY <2>1
    <2> QED BY ONLY <1>1, <1>2, <2>1, <2>2 DEF Single, Opens, Shaped
<1>3. CASE n >= 251
    <2>1. PICK k \in {2, 3, 8} : n < Limit(k) /\ (k = 8 => n >= Huge) /\ b = <<Mark(k)>> \o LE(n, k)
        <3>1. CASE n <= 65535
            <4>1. b = <<252>> \o LE(n, 2) /\ n < Limit(2)
                BY <1>1, <1>3, <3>1, SMT DEF PutLengthEncodedInt, Limit
            <4> QED BY <4>1, SMT DEF Mark
        <3>2. CASE n > 65535 /\ n < Huge
            <4>1. b = <<253>> \o LE(n, 3) /\ n < Limit(3)
                BY <1>1, <1>3, <3>2, SMT DEF Huge, PutLengthEncodedInt, Limit
            <4> QED BY <4>1, SMT DEF Mark
        <3>3. CASE n >= Huge
            <4>1. b = <<254>> \o LE(n, 8)
                BY <1>1, <1>3, <3>3, SMT DEF Huge, PutLengthEncodedInt
            <4> QED BY <4>1, <3>3, SMT DEF Mark
        <3> QED BY <3>1, <3>2, <3>3, SMT DEF Huge
    <2>2. PICK x \in Seq(Byte) : x = LE(n, k) /\ Len(x) = k
        <3>1. n \in Int /\ k \in Nat
            BY ONLY n \in Nat, k \in {2, 3, 8}
        <3> QED BY ONLY <3>1, LEType
    <2>3. PICK h \in {252, 253, 254} : h = Mark(k) /\ h \in Byte
        BY ONLY k \in {2, 3, 8}, MarkIs
    <2>4. b = <<h>> \o x
        BY ONLY <2>1, <2>2, <2>3
    <2>5. b \in Seq(Byte) /\ Len(b) = k + 1 /\ b[1] = h
        BY ONLY <2>2, <2>3, <2>4, x \in Seq(Byte), HeadOf
    <2>6. h \notin {251, 255}
        BY ONLY h \in {252, 253, 254}
    <2>7. Marked(n, b, k)
        BY ONLY <2>1, <2>5, Zenon DEF Marked
    <2>8. Opens(b)
        BY ONLY <2>5, <2>6 DEF Opens
    <2> QED BY ONLY <1>1, <2>7, <2>8, k \in {2, 3, 8}, Zenon DEF Shaped
<1> QED BY <1>2, <1>3

\* A length reads back whatever follows it, and is refused when it is cut short.
LEMMA LenencReadsBack ==
    ASSUME NEW n \in Nat, n < Limit(8), NEW rest \in Seq(Byte)
    PROVE  ReadLengthEncodedInt(PutLengthEncodedInt(n) \o rest) = Number(n, Len(PutLengthEncodedInt(n)))
<1> DEFINE b == PutLengthEncodedInt(n)
<1>1. CASE Single(n, b)
    <2>1. n \in Byte /\ n < 251 /\ b = <<n>> /\ Len(b) = 1
        BY <1>1 DEF Byte, Single
    <2>2. (b \o rest)[1] = n /\ b \o rest # <<>>
        BY <2>1
    <2> QED BY <2>1, <2>2 DEF ReadLengthEncodedInt
<1>2. ASSUME NEW k \in {2, 3, 8}, Marked(n, b, k)
      PROVE  ReadLengthEncodedInt(b \o rest) = Number(n, Len(b))
    <2>0. n < Limit(k) /\ Len(b) = k + 1 /\ b = <<Mark(k)>> \o LE(n, k)
        BY <1>2 DEF Marked
    <2>1. PICK h \in {252, 253, 254} : h = Mark(k) /\ h \in Byte /\ <<2, 3, 8>>[h - 251] = k
        BY MarkIs
    <2>2. LE(n, k) \in Seq(Byte) /\ Len(LE(n, k)) = k /\ h \in Byte
        <3>1. n \in Int /\ k \in Nat
            BY ONLY n \in Nat, k \in {2, 3, 8}
        <3>2. LE(n, k) \in Seq(Byte) /\ Len(LE(n, k)) = k
            BY ONLY <3>1, LEType
        <3> QED BY ONLY <2>1, <3>2
    <2> DEFINE src == (<<h>> \o LE(n, k)) \o rest
    <2>3. b \o rest = src
        BY <2>0, <2>1
    <2>4. /\ src \in Seq(Byte) /\ Len(src) = k + 1 + Len(rest) /\ src # <<>> /\ src[1] = h
          /\ Len(rest) \in Nat
        BY <2>2
    <2>5. SubSeq(src, 2, k + 1) = LE(n, k)
        <3>1. <<h>> \in Seq(Byte) /\ Len(<<h>>) = 1
            BY <2>2
        <3>2. SubSeq(src, Len(<<h>>) + 1, Len(<<h>>) + Len(LE(n, k))) = LE(n, k)
            BY <3>1, <2>2, Middle
        <3> QED BY <3>1, <3>2, <2>2
    <2>6. UnLE(LE(n, k)) = n
        BY <2>0, UnLEOfLE DEF FixedWidths
    <2>7. <<2, 3, 8>>[h - 251] = k
        BY ONLY <2>1
    <2> HIDE DEF src
    <2>8. ReadLengthEncodedInt(src) = Number(n, k + 1)
        <3>1. src # <<>> /\ src[1] # 255 /\ src[1] # 251 /\ src[1] \in 252..254
            BY <2>4
        <3>2. <<2, 3, 8>>[src[1] - 251] = k
            BY <2>4, <2>7
        <3>3. ~(Len(src) < k + 1)
            BY <2>4
        <3> DEFINE w == <<2, 3, 8>>[src[1] - 251]
        <3>4. ReadLengthEncodedInt(src) =
                 IF Len(src) < w + 1 THEN Fail ELSE Number(UnLE(SubSeq(src, 2, w + 1)), w + 1)
            BY <3>1, Zenon DEF ReadLengthEncodedInt
        <3> HIDE DEF w
        <3>5. w = k
            BY <3>2 DEF w
        <3> QED BY <3>3, <3>4, <3>5, <2>5, <2>6
    <2> QED BY <2>3, <2>8, <2>0
<1>3. Single(n, b) \/ \E k \in {2, 3, 8} : Marked(n, b, k)
    BY LenencShape, Zenon DEF Shaped
<1> QED BY <1>1, <1>2, <1>3, Zenon

LEMMA LenencCutShort ==
    ASSUME NEW n \in Nat, n < Limit(8), NEW j \in 0..(Len(PutLengthEncodedInt(n)) - 1)
    PROVE  ReadLengthEncodedInt(SubSeq(PutLengthEncodedInt(n), 1, j)) = Fail
<1> DEFINE b == PutLengthEncodedInt(n)
           src == SubSeq(b, 1, j)
<1>0. b \in Seq(Byte) /\ Len(b) \in Nat
    <2>1. Opens(b)
        BY LenencShape, Zenon DEF Shaped
    <2> QED BY ONLY <2>1 DEF Opens
<1>1. CASE j = 0
    <2>1. src = <<>>
        BY <1>1, <1>0
    <2>2. ReadLengthEncodedInt(<<>>) = Fail
        BY DEF ReadLengthEncodedInt
    <2> QED BY <2>1, <2>2
<1>2. CASE j > 0
    <2>1. PICK k \in {2, 3, 8} : Len(b) = k + 1 /\ b[1] = Mark(k)
        <3>1. ~(Len(b) = 1)
            <4>1. PICK len \in Nat : len = Len(b)
                BY <1>0
            <4>2. j \in 0..(len - 1)
                BY <4>1
            <4> QED BY <4>1, <4>2, <1>2
        <3>2. PICK k \in {2, 3, 8} : /\ Len(b) = k + 1
                                     /\ b = <<Mark(k)>> \o LE(n, k)
            <4>1. Single(n, b) \/ \E k \in {2, 3, 8} : Marked(n, b, k)
                BY LenencShape, Zenon DEF Shaped
            <4> QED BY ONLY <3>1, <4>1, Zenon DEF Single, Marked
        <3>3. LE(n, k) \in Seq(Byte)
            BY LEType
        <3> QED BY <3>2, <3>3
    <2>2. src # <<>> /\ Len(src) = j /\ j \in Nat /\ j < k + 1 /\ src[1] = b[1]
        BY <1>0, <1>2, <2>1
    <2>3. PICK h \in {252, 253, 254} : h = src[1] /\ <<2, 3, 8>>[h - 251] = k
        BY <2>1, <2>2 DEF Mark
    <2> HIDE DEF src
    <2> QED BY <2>2, <2>3 DEF ReadLengthEncodedInt, src
<1> QED BY <1>0, <1>1, <1>2

(***************************************************************************)
(* Folds.  FoldStep is the step of each fold of the codecs, so that what   *)
(* holds of all folds is proved once.                                      *)
(***************************************************************************)
TextColumn(packet, row) ==
    IF ~row.ok THEN row
    ELSE LET r == ReadLengthEncodedString(From(packet, row.pos)) IN
         WithValue(row, r, IF r.null THEN Null ELSE String(r.s))

BinaryColumn(packet, types, row, i) ==
    IF ~row.ok THEN row
    ELSE IF Bit(packet[2 + RowBit(i - 1) \div 8], RowBit(i - 1) % 8) THEN [row EXCEPT !.vals = Append(@, Null)]
    ELSE LET r == ParseBinaryValue(From(packet, row.pos), types[i]) IN WithValue(row, r, r.v)
\* The byte b of a bitmap, bit by bit: vals[i] has bit i - 1 + first of the whole bitmap.
NullBits(acc, vals, first, b, i) ==
    IF vals[i] = Null /\ (i - 1 + first) \div 8 = b - 1 THEN acc + 2 ^ ((i - 1 + first) % 8) ELSE acc

\* The byte b of the bitmap of an execution, and the server's steps through its parameters.
ParamBits(acc, args, b, i) == IF (i - 1) \div 8 = b - 1 /\ args[i] = Null THEN acc + 2 ^ ((i - 1) % 8) ELSE acc
ExecuteParam(w, acc, i) == Take(acc, w.types[i], Bit(w.nulls[1 + (i - 1) \div 8], (i - 1) % 8))
BulkParam(w, acc, i) ==
    IF acc.rest = <<>> THEN acc
    ELSE Take([acc EXCEPT !.rest = Tail(@)], w.types[1 + ((i - 1) % Len(w.types))], acc.rest[1] = 1)

FoldStep(kind, c, acc, x) ==
    IF kind = "text row" THEN TextColumn(c, acc)
    ELSE IF kind = "binary row" THEN BinaryColumn(c.packet, c.types, acc, x)
    ELSE IF kind = "param bits" THEN ParamBits(acc, c.args, c.b, x)
    ELSE IF kind = "execute" THEN ExecuteParam(c, acc, x)
    ELSE IF kind = "bulk" THEN BulkParam(c, acc, x)
    ELSE NullBits(acc, c.vals, c.first, c.b, x)

Folds(f, kind, c, base, seq, D) ==
    f = [s \in SUBSET D |-> IF s = {} THEN base ELSE FoldStep(kind, c, f[s \ {Max(s)}], seq[Max(s)])]

LEMMA MaxIs ==
    ASSUME NEW S \in SUBSET Int, NEW a \in S, \A x \in S : x <= a
    PROVE  Max(S) = a
<1>1. \A x \in S : (\A y \in S : x >= y) => x = a
    OBVIOUS
<1> QED BY <1>1 DEF Max

LEMMA FoldExists ==
    ASSUME NEW kind, NEW c, NEW base, NEW seq, NEW n \in Nat
    PROVE  \E f : Folds(f, kind, c, base, seq, 1..n)
<1> DEFINE T == {j \in Nat : \E f : Folds(f, kind, c, base, seq, 1..j)}
<1>1. 0 \in T
    <2> DEFINE f == [s \in SUBSET (1..0) |-> base]
    <2>1. \A s \in SUBSET (1..0) : s = {}
        OBVIOUS
    <2>2. Folds(f, kind, c, base, seq, 1..0)
        BY <2>1 DEF Folds
    <2> QED BY <2>2
<1>2. ASSUME NEW j \in T PROVE j + 1 \in T
    <2>1. PICK f : Folds(f, kind, c, base, seq, 1..j)
        OBVIOUS
    <2> DEFINE hi == j + 1
    <2>2. hi \in Nat /\ hi >= 1 /\ j \in Nat /\ j = hi - 1
        OBVIOUS
    <2> HIDE DEF hi
    <2> DEFINE r == [s \in SUBSET (1..hi) |-> IF hi \in s THEN FoldStep(kind, c, f[s \ {hi}], seq[hi]) ELSE f[s]]
    <2>3. ASSUME NEW s \in SUBSET (1..hi)
          PROVE  r[s] = IF s = {} THEN base ELSE FoldStep(kind, c, r[s \ {Max(s)}], seq[Max(s)])
        <3>1. CASE hi \in s
            <4>1. Max(s) = hi
                <5>1. s \in SUBSET Int /\ \A x \in s : x <= hi
                    BY <2>2
                <5> QED BY <3>1, <5>1, MaxIs
            <4>2. s \ {hi} \in SUBSET (1..hi) /\ hi \notin s \ {hi} /\ s # {}
                BY <3>1
            <4>3. r[s] = FoldStep(kind, c, f[s \ {hi}], seq[hi]) /\ r[s \ {hi}] = f[s \ {hi}]
                BY <3>1, <4>2, Zenon
            <4> QED BY <4>1, <4>2, <4>3
        <3>2. CASE hi \notin s
            <4>1. s \in SUBSET (1..j)
                BY <3>2, <2>2
            <4>2. s \ {Max(s)} \in SUBSET (1..hi) /\ hi \notin s \ {Max(s)}
                BY <3>2
            <4>3. r[s] = f[s] /\ r[s \ {Max(s)}] = f[s \ {Max(s)}]
                BY <3>2, <4>2, Zenon
            <4>4. f[s] = IF s = {} THEN base ELSE FoldStep(kind, c, f[s \ {Max(s)}], seq[Max(s)])
                BY <2>1, <4>1 DEF Folds
            <4> QED BY <4>3, <4>4
        <3> QED BY <3>1, <3>2
    <2>4. Folds(r, kind, c, base, seq, 1..hi)
        <3>1. r = [s \in SUBSET (1..hi) |-> r[s]]
            BY Zenon
        <3> HIDE DEF r
        <3> QED BY <2>3, <3>1, Zenon DEF Folds
    <2> HIDE DEF r
    <2>5. \E g : Folds(g, kind, c, base, seq, 1..(j + 1))
        BY <2>4 DEF hi
    <2> QED BY <2>5, <2>2
<1>3. Nat \subseteq T
    <2> HIDE DEF T
    <2>1. T \subseteq Nat
        BY DEF T
    <2> QED BY <1>1, <1>2, <2>1, NatSets
<1> QED BY <1>3

\* r[i] is the result for the first i elements.
FoldVia(r, kind, c, base, seq, n) ==
    /\ r[0] = base
    /\ \A i \in 1..n : r[i] = FoldStep(kind, c, r[i - 1], seq[i])

HasChain(f, kind, c, base, seq, n) ==
    \E r : FoldVia(r, kind, c, base, seq, n) /\ f[1..n] = r[n]

LEMMA FoldChain ==
    ASSUME NEW kind, NEW c, NEW base, NEW seq, NEW n \in Nat, NEW f, Folds(f, kind, c, base, seq, 1..n)
    PROVE  HasChain(f, kind, c, base, seq, n)
<1> DEFINE r == [i \in 0..n |-> f[1..i]]
<1>3. \A s \in SUBSET (1..n) : f[s] = IF s = {} THEN base ELSE FoldStep(kind, c, f[s \ {Max(s)}], seq[Max(s)])
    BY DEF Folds
<1>4. ASSUME NEW i \in 1..n PROVE r[i] = FoldStep(kind, c, r[i - 1], seq[i])
    <2>1. 1..i \in SUBSET (1..n) /\ 1..i # {} /\ (1..i) \ {i} = 1..(i - 1) /\ i \in 0..n /\ i - 1 \in 0..n
        BY ONLY n \in Nat, i \in 1..n
    <2>2. Max(1..i) = i
        <3>1. 1..i \in SUBSET Int /\ i \in 1..i /\ \A x \in 1..i : x <= i
            OBVIOUS
        <3> QED BY <3>1, MaxIs
    <2>3. f[1..i] = FoldStep(kind, c, f[1..(i - 1)], seq[i])
        BY <1>3, <2>1, <2>2, Zenon
    <2> QED BY <2>1, <2>3
<1>5. r[0] = base
    <2>1. 1..0 = {} /\ {} \in SUBSET (1..n)
        OBVIOUS
    <2>2. f[{}] = base
        BY <2>1, <1>3
    <2>3. 0 \in 0..n
        OBVIOUS
    <2> QED BY <2>1, <2>2, <2>3
<1>6. r[n] = f[1..n]
    OBVIOUS
<1> HIDE DEF r
<1>7. FoldVia(r, kind, c, base, seq, n) /\ f[1..n] = r[n]
    BY <1>4, <1>5, <1>6 DEF FoldVia
<1> QED BY <1>7, Zenon DEF HasChain

LEMMA TextRowFold ==
    ASSUME NEW packet, NEW n \in Nat
    PROVE  \E r : /\ FoldVia(r, "text row", packet, [ok |-> TRUE, pos |-> 1, vals |-> <<>>], [i \in 1..n |-> i], n)
                  /\ ParseTextRow(packet, n) = Whole(r[n], packet)
<1> DEFINE base == [ok |-> TRUE, pos |-> 1, vals |-> <<>>]
           seq == [i \in 1..n |-> i]
           f == CHOOSE f : Folds(f, "text row", packet, base, seq, DOMAIN seq)
<1>0. DOMAIN seq = 1..n
    OBVIOUS
<1> HIDE DEF base, seq
<1>1. ParseTextRow(packet, n) = Whole(f[DOMAIN seq], packet)
    BY DEF ParseTextRow, FoldLeft, MapThenFoldSet, Folds, FoldStep, TextColumn, base, seq
<1>2. Folds(f, "text row", packet, base, seq, 1..n)
    BY <1>0, FoldExists, Zenon
<1> HIDE DEF f
<1>3. PICK r : FoldVia(r, "text row", packet, base, seq, n) /\ f[1..n] = r[n]
    <2>1. HasChain(f, "text row", packet, base, seq, n)
        BY ONLY <1>2, FoldChain, n \in Nat
    <2> QED BY ONLY <2>1 DEF HasChain
<1>4. ParseTextRow(packet, n) = Whole(r[n], packet)
    BY <1>0, <1>1, <1>3
<1> QED BY <1>3, <1>4, Zenon DEF base, seq

(***************************************************************************)
(* Where the pieces of a packet are.                                       *)
(***************************************************************************)
LEMMA AfterPrefix ==
    ASSUME NEW S, NEW a \in Seq(S), NEW y \in Seq(S)
    PROVE  From(a \o y, Len(a) + 1) = y
BY DEF From

\* The header and the pieces up to piece i are where the whole starts.
LEMMA JoinsAt ==
    ASSUME NEW S, NEW n \in Nat, NEW p, NEW q, Joins(q, p, n, S), NEW i \in 1..n, NEW h \in Seq(S)
    PROVE  Continues(h \o q[n], (h \o q[i - 1]) \o p[i], S)
<1>1. i \in 0..n /\ i - 1 \in 0..n
    OBVIOUS
<1>2. PICK x \in Seq(S) : q[n] = q[i] \o x
    <2>1. Continues(q[n], q[i], S)
        BY <1>1, JoinsRest
    <2> QED BY <2>1 DEF Continues
<1>3. PICK b \in Seq(S), c \in Seq(S) : b = q[i - 1] /\ c = p[i] /\ q[i] = b \o c
    <2>1. q[i - 1] \in Seq(S)
        BY <1>1, JoinsType
    <2>2. p[i] \in Seq(S) /\ q[i] = q[i - 1] \o p[i]
        BY DEF Joins
    <2> QED BY ONLY <2>1, <2>2
<1>4. h \o ((b \o c) \o x) = ((h \o b) \o c) \o x
    <2>0. b \o c \in Seq(S)
        BY ONLY b \in Seq(S), c \in Seq(S)
    <2>1. PICK y \in Seq(S) : y = b \o c
        BY ONLY <2>0
    <2>2. h \o (y \o x) = (h \o y) \o x
        BY ONLY h \in Seq(S), y \in Seq(S), x \in Seq(S)
    <2>3. h \o (b \o c) = (h \o b) \o c
        BY ONLY h \in Seq(S), b \in Seq(S), c \in Seq(S)
    <2> QED BY ONLY <2>1, <2>2, <2>3
<1>5. h \o q[n] = ((h \o b) \o c) \o x
    BY ONLY <1>2, <1>3, <1>4
<1>6. Continues(h \o q[n], (h \o b) \o c, S)
    BY ONLY <1>5, x \in Seq(S) DEF Continues
<1> QED BY ONLY <1>3, <1>6

\* A packet that is a part of b, or more than b.
Agrees(packet, b) == \A j \in 1..Len(packet) : j <= Len(b) => packet[j] = b[j]
\* Less than the piece is left.
CutOf(s, piece) == \E j \in Nat : j < Len(piece) /\ s = SubSeq(piece, 1, j)

LEMMA PieceAt ==
    ASSUME NEW S, NEW u \in Seq(S), NEW x \in Seq(S), NEW b, Continues(b, u \o x, S),
           NEW packet \in Seq(S), Agrees(packet, b), Len(u) <= Len(packet)
    PROVE  /\ Len(u) + Len(x) <= Len(packet) => Continues(From(packet, Len(u) + 1), x, S)
           /\ Len(packet) < Len(u) + Len(x) => CutOf(From(packet, Len(u) + 1), x)
<1>1. PICK y \in Seq(S) : b = (u \o x) \o y
    BY DEF Continues
<1>2. PICK m \in Nat, l \in Nat, e \in Nat : m = Len(u) /\ l = Len(x) /\ e = Len(packet) /\ m <= e
    OBVIOUS
<1>3. Len(b) >= m + l /\ \A j \in 1..l : b[m + j] = x[j]
    BY <1>1, <1>2
<1>4. \A j \in 1..l : m + j <= e => packet[m + j] = x[j]
    <2> TAKE j \in 1..l
    <2> HAVE m + j <= e
    <2>1. m + j \in 1..Len(packet) /\ m + j <= Len(b)
        BY ONLY <1>2, <1>3, m + j <= e, b = (u \o x) \o y, u \in Seq(S), x \in Seq(S), y \in Seq(S)
    <2> QED BY ONLY <2>1, <1>3, Agrees(packet, b) DEF Agrees
<1>5. PICK f \in Seq(S) : f = From(packet, Len(u) + 1)
    <2>1. SubSeq(packet, m + 1, e) \in Seq(S)
        BY ONLY <1>2, packet \in Seq(S), m \in Nat, e \in Nat
    <2>2. From(packet, Len(u) + 1) = SubSeq(packet, m + 1, e)
        BY ONLY <1>2 DEF From
    <2> QED BY ONLY <2>1, <2>2
<1>5a. Len(f) = e - m /\ \A j \in 1..(e - m) : f[j] = packet[m + j]
    <2>1. f = SubSeq(packet, m + 1, e)
        BY ONLY <1>2, <1>5 DEF From
    <2> QED BY ONLY <2>1, <1>2, packet \in Seq(S), m \in Nat, e \in Nat
<1>6. CASE m + l <= e
    <2>1. PICK z \in Seq(S) : z = SubSeq(f, l + 1, e - m)
        <3>1. SubSeq(f, l + 1, e - m) \in Seq(S)
            BY ONLY <1>5a, <1>6, f \in Seq(S), m \in Nat, l \in Nat, e \in Nat
        <3> QED BY ONLY <3>1
    <2>2. \A j \in 1..l : f[j] = x[j]
        <3> TAKE j \in 1..l
        <3>1. j \in 1..(e - m) /\ m + j <= e
            BY ONLY <1>6, m \in Nat, l \in Nat, e \in Nat, j \in 1..l
        <3> QED BY ONLY <1>4, <1>5a, <3>1, j \in 1..l
    <2>3. f = x \o z
        <3>1. l <= Len(f) /\ z = SubSeq(f, l + 1, Len(f)) /\ l = Len(x)
            BY ONLY <1>2, <1>5a, <1>6, <2>1, m \in Nat, l \in Nat, e \in Nat
        <3> QED BY ONLY <3>1, <2>2, f \in Seq(S), x \in Seq(S), z \in Seq(S), l \in Nat
    <2>4. Continues(f, x, S)
        BY ONLY <2>3, z \in Seq(S) DEF Continues
    <2> QED BY ONLY <2>4, <1>2, <1>5, <1>6, m \in Nat, l \in Nat, e \in Nat
<1>7. CASE e < m + l
    <2>1. e - m \in Nat /\ e - m < l
        BY ONLY <1>2, <1>7, m \in Nat, l \in Nat, e \in Nat
    <2>2. \A j \in 1..(e - m) : f[j] = x[j]
        <3> TAKE j \in 1..(e - m)
        <3>1. j \in 1..l /\ m + j <= e
            BY ONLY <2>1, m \in Nat, l \in Nat, e \in Nat, j \in 1..(e - m)
        <3> QED BY ONLY <1>4, <1>5a, <3>1, j \in 1..(e - m)
    <2>3. f = SubSeq(x, 1, e - m)
        <3>1. PICK d \in Nat : d = e - m /\ d < Len(x)
            BY ONLY <1>2, <2>1
        <3>2. Len(f) = d /\ \A j \in 1..d : f[j] = x[j]
            BY ONLY <1>5a, <2>2, <3>1
        <3>3. f = SubSeq(x, 1, d)
            BY ONLY <3>1, <3>2, f \in Seq(S), x \in Seq(S), d \in Nat
        <3> QED BY ONLY <3>1, <3>3
    <2>4. CutOf(f, x)
        BY ONLY <2>1, <2>3, <1>2 DEF CutOf
    <2> QED BY ONLY <2>4, <1>2, <1>5, <1>7, m \in Nat, l \in Nat, e \in Nat
<1> QED BY ONLY <1>2, <1>6, <1>7, m \in Nat, l \in Nat, e \in Nat

\* A string reads back whatever follows it.
LEMMA StringReadsBack ==
    ASSUME NEW s \in Seq(Byte), Len(s) < Limit(8), NEW rest \in Seq(Byte)
    PROVE  /\ PutLengthEncodedString(s) \in Seq(Byte)
           /\ ReadLengthEncodedString(PutLengthEncodedString(s) \o rest) =
                 [ok |-> TRUE, null |-> FALSE, s |-> s, used |-> Len(PutLengthEncodedString(s))]
<1>0. PICK n \in Nat : n = Len(s)
    OBVIOUS
<1>1. PICK b \in Seq(Byte) : b = PutLengthEncodedInt(n)
    BY <1>0, LenencShape DEF Shaped, Opens
<1>2. PutLengthEncodedString(s) = b \o s /\ b \o s \in Seq(Byte)
    BY <1>0, <1>1 DEF PutLengthEncodedString
<1>3. PICK used \in Nat : used = Len(b)
    OBVIOUS
<1> DEFINE src == (b \o s) \o rest
<1>4. src = b \o (s \o rest) /\ s \o rest \in Seq(Byte)
    BY ONLY b \in Seq(Byte), s \in Seq(Byte), rest \in Seq(Byte)
<1>5. ReadLengthEncodedInt(src) = Number(n, used)
    BY <1>0, <1>1, <1>3, <1>4, LenencReadsBack
<1>6. Len(src) = used + n + Len(rest) /\ Len(rest) \in Nat /\ Len(b \o s) = used + n
    BY <1>0, <1>3
<1>7. SubSeq(src, used + 1, used + n) = s
    BY <1>0, <1>3, Middle
<1> HIDE DEF src
<1>8. ~(Len(src) - used < n)
    BY <1>6
<1>9. ReadLengthEncodedString(src) = [ok |-> TRUE, null |-> FALSE, s |-> s, used |-> used + n]
    <2>1. PICK r : r = ReadLengthEncodedInt(src) /\ r = Number(n, used)
        BY <1>5
    <2>2. r.ok /\ ~r.null /\ r.used = used /\ r.n = n
        BY ONLY <2>1 DEF Number
    <2> QED BY ONLY <2>1, <2>2, <1>7, <1>8 DEF ReadLengthEncodedString
<1> QED BY <1>2, <1>6, <1>9 DEF src

LEMMA NullReadsBack ==
    ASSUME NEW rest \in Seq(Byte)
    PROVE  ReadLengthEncodedString(<<251>> \o rest) = [ok |-> TRUE, null |-> TRUE, s |-> <<>>, used |-> 1]
<1> DEFINE src == <<251>> \o rest
<1>1. src # <<>> /\ src[1] = 251
    BY DEF Byte
<1> HIDE DEF src
<1>2. ReadLengthEncodedInt(src) = NullNumber
    BY <1>1 DEF ReadLengthEncodedInt
<1>3. ReadLengthEncodedString(src) = [ok |-> TRUE, null |-> TRUE, s |-> <<>>, used |-> 1]
    BY <1>2 DEF ReadLengthEncodedString, NullNumber
<1> QED BY <1>3 DEF src

(***************************************************************************)
(* Rows of any kind: a header h, then a piece p[i] for each value.         *)
(***************************************************************************)
RowAt(pos, got) == [ok |-> TRUE, pos |-> pos, vals |-> got]

\* The step of the fold reads value i from piece i, whatever follows the piece.
Reads(kind, c, packet, piece, v, i) ==
    \A pos \in Nat : \A got :
        Continues(From(packet, pos), piece, Byte) =>
            FoldStep(kind, c, RowAt(pos, got), i) = RowAt(pos + Len(piece), Append(got, v))

\* The step of the fold refuses the row when less than piece i is left, and a refused row stays so.
Refuses(kind, c, packet, piece, i) ==
    /\ \A pos \in Nat : \A got : CutOf(From(packet, pos), piece) => ~FoldStep(kind, c, RowAt(pos, got), i).ok
    /\ \A row : ~row.ok => ~FoldStep(kind, c, row, i).ok

\* A row of n values: the packet is a part of the header and the pieces, or more than those, and r
\* are the rows on the way.
RowOf(V, n, vals, h, p, q, packet, kind, c, r) ==
    /\ n \in Nat /\ vals \in Seq(V) /\ Len(vals) = n /\ h \in Seq(Byte)
    /\ packet \in Seq(Byte) /\ Joins(q, p, n, Byte)
    /\ Agrees(packet, h \o q[n]) /\ Len(h) <= Len(packet)
    /\ \A i \in 1..n : Reads(kind, c, packet, p[i], vals[i], i)
    /\ \/ Len(h \o q[n]) <= Len(packet)
       \/ \A i \in 1..n : Refuses(kind, c, packet, p[i], i)
    /\ FoldVia(r, kind, c, RowAt(Len(h) + 1, <<>>), [i \in 1..n |-> i], n)

\* Append of the next element to a prefix.
LEMMA NextPrefix ==
    ASSUME NEW V, NEW vals \in Seq(V), NEW i \in 1..Len(vals)
    PROVE  Append(SubSeq(vals, 1, i - 1), vals[i]) = SubSeq(vals, 1, i)
OBVIOUS

\* Where each piece ends.
Ends(l, n, h, p, q) ==
    /\ l \in [0..n -> Nat] /\ l[0] = Len(h) /\ l[n] = Len(h \o q[n])
    /\ \A i \in 0..n : l[i] = Len(h \o q[i]) /\ l[i] <= l[n]
    /\ \A i \in 1..n : l[i] = l[i - 1] + Len(p[i]) /\ Len(p[i]) \in Nat

LEMMA JoinsEnd ==
    ASSUME NEW S, NEW n \in Nat, NEW p, NEW q, Joins(q, p, n, S), NEW h \in Seq(S)
    PROVE  \E l : Ends(l, n, h, p, q)
<1> DEFINE l == [i \in 0..n |-> Len(h \o q[i])]
<1>1. ASSUME NEW i \in 0..n PROVE Len(h \o q[i]) \in Nat /\ Len(h \o q[i]) <= Len(h \o q[n])
    <2>1. Continues(q[n], q[i], S)
        BY JoinsRest
    <2>2. PICK x \in Seq(S) : q[n] = q[i] \o x
        BY <2>1 DEF Continues
    <2>3. PICK a \in Seq(S) : a = q[i]
        BY JoinsType
    <2>4. Len(h \o a) \in Nat /\ Len(h \o a) <= Len(h \o (a \o x))
        BY ONLY h \in Seq(S), a \in Seq(S), x \in Seq(S)
    <2> QED BY ONLY <2>2, <2>3, <2>4
<1>2. ASSUME NEW i \in 1..n PROVE Len(h \o q[i]) = Len(h \o q[i - 1]) + Len(p[i]) /\ Len(p[i]) \in Nat
    <2>1. i - 1 \in 0..n
        OBVIOUS
    <2>2. PICK a \in Seq(S), b \in Seq(S) : a = q[i - 1] /\ b = p[i] /\ q[i] = a \o b
        <3>1. q[i - 1] \in Seq(S)
            BY <2>1, JoinsType
        <3>2. p[i] \in Seq(S) /\ q[i] = q[i - 1] \o p[i]
            BY DEF Joins
        <3> QED BY ONLY <3>1, <3>2
    <2>3. Len(h \o (a \o b)) = Len(h \o a) + Len(b) /\ Len(b) \in Nat
        BY ONLY h \in Seq(S), a \in Seq(S), b \in Seq(S)
    <2> QED BY ONLY <2>2, <2>3
<1>3. q[0] = <<>> /\ Len(h \o <<>>) = Len(h)
    BY DEF Joins
<1>4. l \in [0..n -> Nat] /\ l[0] = Len(h) /\ l[n] = Len(h \o q[n])
    BY <1>1, <1>3
<1>5. \A i \in 0..n : l[i] = Len(h \o q[i]) /\ l[i] <= l[n]
    BY <1>1
<1>6. \A i \in 1..n : l[i] = l[i - 1] + Len(p[i]) /\ Len(p[i]) \in Nat
    <2> TAKE i \in 1..n
    <2>1. i \in 0..n /\ i - 1 \in 0..n
        OBVIOUS
    <2>2. l[i] = Len(h \o q[i]) /\ l[i - 1] = Len(h \o q[i - 1])
        BY <2>1
    <2> HIDE DEF l
    <2> QED BY <1>2, <2>2
<1> HIDE DEF l
<1>7. Ends(l, n, h, p, q)
    BY ONLY <1>4, <1>5, <1>6 DEF Ends
<1> QED BY <1>7

\* Then the whole row is read, and a part of it is refused.
RowRead(r, n, vals, whole, packet) ==
    IF Len(whole) <= Len(packet) THEN r[n] = RowAt(Len(whole) + 1, vals) ELSE ~r[n].ok

LEMMA RowReads ==
    ASSUME NEW V, NEW n, NEW vals, NEW h, NEW p, NEW q, NEW packet, NEW kind, NEW c, NEW r,
           RowOf(V, n, vals, h, p, q, packet, kind, c, r)
    PROVE  RowRead(r, n, vals, h \o q[n], packet)
<1>1. n \in Nat /\ vals \in Seq(V) /\ Len(vals) = n /\ h \in Seq(Byte) /\ packet \in Seq(Byte)
    BY DEF RowOf
<1> USE <1>1
<1>2. /\ Joins(q, p, n, Byte) /\ Agrees(packet, h \o q[n])
      /\ \A i \in 1..n : Reads(kind, c, packet, p[i], vals[i], i)
      /\ Len(h \o q[n]) <= Len(packet) \/ \A i \in 1..n : Refuses(kind, c, packet, p[i], i)
      /\ FoldVia(r, kind, c, RowAt(Len(h) + 1, <<>>), [i \in 1..n |-> i], n)
    BY DEF RowOf
<1>3a. PICK l : Ends(l, n, h, p, q)
    BY <1>2, JoinsEnd
<1>3. /\ l \in [0..n -> Nat] /\ l[0] = Len(h) /\ l[n] = Len(h \o q[n])
      /\ \A i \in 0..n : l[i] = Len(h \o q[i]) /\ l[i] <= l[n]
      /\ \A i \in 1..n : l[i] = l[i - 1] + Len(p[i]) /\ Len(p[i]) \in Nat
    BY ONLY <1>3a DEF Ends
<1>4. PICK e \in Nat : e = Len(packet)
    OBVIOUS
<1>5. l[0] <= e
    BY <1>3, <1>4 DEF RowOf
<1> DEFINE Row(i) == RowAt(l[i] + 1, SubSeq(vals, 1, i))
           Right(i) == IF l[i] <= e THEN r[i] = Row(i) ELSE ~r[i].ok
           T == {i \in Nat : i <= n => Right(i)}
<1>6. Right(0)
    <2>1. r[0] = RowAt(Len(h) + 1, <<>>)
        BY <1>2 DEF FoldVia
    <2>2. SubSeq(vals, 1, 0) = <<>>
        OBVIOUS
    <2> QED BY <1>3, <1>5, <2>1, <2>2
<1>7. ASSUME NEW i \in 1..n, Right(i - 1) PROVE Right(i)
    <2>1. i - 1 \in 0..n /\ i \in 0..n /\ i \in 1..Len(vals)
        OBVIOUS
    <2>2. PICK a \in Nat, b \in Nat : a = l[i - 1] /\ b = Len(p[i]) /\ l[i] = a + b
        BY ONLY <1>3, <2>1, i \in 1..n
    <2>3. r[i] = FoldStep(kind, c, r[i - 1], i)
        BY <1>2 DEF FoldVia
    <2>4. e < a + b => Refuses(kind, c, packet, p[i], i)
        <3>1. a + b <= l[n] /\ l[n] \in Nat
            BY ONLY <1>3, <2>1, <2>2, n \in Nat
        <3>2. e < a + b => ~(Len(h \o q[n]) <= Len(packet))
            BY ONLY <1>3, <1>4, <3>1, a \in Nat, b \in Nat, e \in Nat
        <3> QED BY ONLY <1>2, <3>2, i \in 1..n
    <2>5. CASE a > e
        <3>1. ~r[i - 1].ok
            BY ONLY <1>7, <2>2, <2>5, a \in Nat, e \in Nat
        <3>2. e < a + b
            BY ONLY <2>5, a \in Nat, b \in Nat, e \in Nat
        <3>3. ~r[i].ok
            BY ONLY <2>3, <2>4, <3>1, <3>2 DEF Refuses
        <3> QED BY ONLY <2>2, <3>2, <3>3, a \in Nat, b \in Nat, e \in Nat
    <2>6. CASE a <= e
        <3>0. PICK got : got = SubSeq(vals, 1, i - 1)
            OBVIOUS
        <3>1. PICK pos \in Nat : pos = a + 1
            OBVIOUS
        <3>2. r[i - 1] = RowAt(pos, got)
            BY ONLY <1>7, <2>2, <2>6, <3>0, <3>1
        <3>3. PICK u \in Seq(Byte), x \in Seq(Byte) : u = h \o q[i - 1] /\ x = p[i]
            <4>1. PICK y \in Seq(Byte) : y = q[i - 1]
                BY <1>2, <2>1, JoinsType
            <4>2. h \o y \in Seq(Byte)
                BY ONLY h \in Seq(Byte), y \in Seq(Byte)
            <4>3. p[i] \in Seq(Byte)
                BY <1>2 DEF Joins
            <4> QED BY ONLY <4>1, <4>2, <4>3
        <3>4. Continues(h \o q[n], u \o x, Byte)
            <4>1. Continues(h \o q[n], (h \o q[i - 1]) \o p[i], Byte)
                BY <1>2, JoinsAt
            <4> QED BY ONLY <3>3, <4>1
        <3>5. Len(u) = a /\ Len(x) = b
            BY ONLY <1>3, <2>1, <2>2, <3>3
        <3>6. /\ a + b <= e => Continues(From(packet, pos), x, Byte)
              /\ e < a + b => CutOf(From(packet, pos), x)
            <4>1. Len(u) <= Len(packet)
                BY ONLY <1>4, <2>6, <3>5
            <4>2. /\ Len(u) + Len(x) <= Len(packet) => Continues(From(packet, Len(u) + 1), x, Byte)
                  /\ Len(packet) < Len(u) + Len(x) => CutOf(From(packet, Len(u) + 1), x)
                BY <1>2, <3>4, <4>1, PieceAt
            <4> QED BY ONLY <4>2, <1>4, <3>1, <3>5
        <3>7. CASE a + b <= e
            <4>1. FoldStep(kind, c, RowAt(pos, got), i) = RowAt(pos + Len(p[i]), Append(got, vals[i]))
                <5>1. Reads(kind, c, packet, p[i], vals[i], i)
                    BY <1>2
                <5> QED BY ONLY <5>1, <3>3, <3>6, <3>7, pos \in Nat DEF Reads
            <4>2. Append(got, vals[i]) = SubSeq(vals, 1, i)
                BY <2>1, <3>0, NextPrefix
            <4>3. pos + b = (a + b) + 1
                BY ONLY <3>1, a \in Nat, b \in Nat
            <4> QED BY ONLY <2>2, <2>3, <3>2, <3>7, <4>1, <4>2, <4>3
        <3>8. CASE e < a + b
            <4>1. ~r[i].ok
                BY ONLY <2>3, <2>4, <3>2, <3>3, <3>6, <3>8, pos \in Nat DEF Refuses
            <4> QED BY ONLY <2>2, <3>8, <4>1, a \in Nat, b \in Nat, e \in Nat
        <3> QED BY ONLY <3>7, <3>8, a \in Nat, b \in Nat, e \in Nat
    <2> QED BY ONLY <2>5, <2>6, a \in Nat, e \in Nat
<1> HIDE DEF Right
<1>8. Nat \subseteq T
    <2>1. 0 \in T
        BY <1>6
    <2>2. ASSUME NEW i \in T PROVE i + 1 \in T
        <3>1. i + 1 <= n => i + 1 \in 1..n /\ (i + 1) - 1 = i /\ Right(i)
            OBVIOUS
        <3> QED BY <3>1, <1>7
    <2> HIDE DEF T
    <2>3. T \subseteq Nat
        BY DEF T
    <2> QED BY <2>1, <2>2, <2>3, NatSets
<1>9. Right(n)
    BY <1>8
<1>10. SubSeq(vals, 1, n) = vals
    OBVIOUS
<1> QED BY <1>3, <1>4, <1>9, <1>10 DEF Right, RowRead

(***************************************************************************)
(* Text rows.                                                              *)
(***************************************************************************)
Texts == {s \in Seq(Byte) : Len(s) < Limit(8)}
TextValues == {Null} \cup {String(s) : s \in Texts}
TextCell(v) == IF v = Null THEN <<251>> ELSE PutLengthEncodedString(v.s)

LEMMA TextCellReads ==
    ASSUME NEW v \in TextValues, NEW rest \in Seq(Byte)
    PROVE  /\ TextCell(v) \in Seq(Byte)
           /\ \E r : /\ ReadLengthEncodedString(TextCell(v) \o rest) = r
                     /\ r.ok /\ r.used = Len(TextCell(v))
                     /\ v = IF r.null THEN Null ELSE String(r.s)
<1>1. CASE v = Null
    <2>1. TextCell(v) = <<251>> /\ <<251>> \in Seq(Byte) /\ Len(<<251>>) = 1
        BY <1>1 DEF TextCell, Byte
    <2>2. ReadLengthEncodedString(TextCell(v) \o rest) = [ok |-> TRUE, null |-> TRUE, s |-> <<>>, used |-> 1]
        BY <2>1, NullReadsBack
    <2> QED BY <1>1, <2>1, <2>2
<1>2. CASE v # Null
    <2>1. PICK s \in Texts : v = String(s)
        BY <1>2 DEF TextValues
    <2>2. s \in Seq(Byte) /\ Len(s) < Limit(8) /\ v.s = s
        BY <2>1 DEF Texts, String
    <2>3. TextCell(v) = PutLengthEncodedString(s)
        BY <1>2, <2>2 DEF TextCell
    <2>4. /\ TextCell(v) \in Seq(Byte)
          /\ ReadLengthEncodedString(TextCell(v) \o rest) =
                [ok |-> TRUE, null |-> FALSE, s |-> s, used |-> Len(TextCell(v))]
        BY <2>2, <2>3, StringReadsBack
    <2> QED BY <2>1, <2>4
<1> QED BY <1>1, <1>2

\* Every text row, of any number of columns, NULL or of any length, is read column for column
\* (parseTextRowInLocation, readLengthEncodedString).
THEOREM TextRowReadsBack ==
    ASSUME NEW vals \in Seq(TextValues)
    PROVE  ParseTextRow(ServerTextRow(vals), Len(vals)) = [ok |-> TRUE, vals |-> vals]
<1>0. PICK n \in Nat : n = Len(vals)
    OBVIOUS
<1>1. DOMAIN vals = 1..n /\ \A i \in 1..n : vals[i] \in TextValues
    BY <1>0
<1> DEFINE p == [i \in DOMAIN vals |-> TextCell(vals[i])]
           packet == ServerTextRow(vals)
<1>2. packet = FlattenSeq(p)
    BY DEF ServerTextRow, TextCell
<1>3. DOMAIN p = 1..n /\ Len(p) = n /\ \A i \in 1..n : p[i] = TextCell(vals[i])
    BY <1>0, <1>1
<1>4. ASSUME NEW i \in 1..n PROVE p[i] \in Seq(Byte)
    <2>1. <<>> \in Seq(Byte)
        OBVIOUS
    <2> QED BY <1>1, <1>3, <2>1, TextCellReads
<1> HIDE DEF p, packet
<1>5. PICK q : Joins(q, p, n, Byte) /\ FlattenSeq(p) = q[n]
    BY <1>3, <1>4, FlattenChain
<1>6. /\ <<>> \in Seq(Byte) /\ packet \in Seq(Byte) /\ packet = <<>> \o q[n]
      /\ RowAt(Len(<<>>) + 1, <<>>) = RowAt(1, <<>>) /\ Len(<<>>) <= Len(packet)
    <2>1. q[n] \in Seq(Byte)
        BY <1>5, JoinsType
    <2> QED BY <2>1, <1>2, <1>5
<1>6a. Agrees(packet, <<>> \o q[n]) /\ Len(<<>> \o q[n]) <= Len(packet)
    BY ONLY <1>6 DEF Agrees
<1>7. PICK r : /\ FoldVia(r, "text row", packet, RowAt(1, <<>>), [i \in 1..n |-> i], n)
               /\ ParseTextRow(packet, n) = Whole(r[n], packet)
    BY TextRowFold DEF RowAt
<1>8. ASSUME NEW i \in 1..n PROVE Reads("text row", packet, packet, p[i], vals[i], i)
    <2> SUFFICES ASSUME NEW pos \in Nat, NEW got, Continues(From(packet, pos), p[i], Byte)
                 PROVE  FoldStep("text row", packet, RowAt(pos, got), i) = RowAt(pos + Len(p[i]), Append(got, vals[i]))
        BY DEF Reads
    <2>0. PICK x \in Seq(Byte) : From(packet, pos) = p[i] \o x
        BY DEF Continues
    <2>1. PICK v \in TextValues : v = vals[i] /\ p[i] = TextCell(v)
        BY <1>1, <1>3
    <2>2. PICK s : /\ ReadLengthEncodedString(TextCell(v) \o x) = s
                   /\ s.ok /\ s.used = Len(TextCell(v))
                   /\ v = IF s.null THEN Null ELSE String(s.s)
        BY TextCellReads
    <2>3. ReadLengthEncodedString(From(packet, pos)) = s
        BY <2>0, <2>1, <2>2
    <2>4. TextColumn(packet, RowAt(pos, got)) = WithValue(RowAt(pos, got), s, v)
        BY <2>2, <2>3 DEF TextColumn, RowAt
    <2>5. WithValue(RowAt(pos, got), s, v) = RowAt(pos + s.used, Append(got, v))
        BY <2>2 DEF WithValue, RowAt
    <2> QED BY <2>1, <2>2, <2>4, <2>5 DEF FoldStep
<1>9. RowOf(TextValues, n, vals, <<>>, p, q, packet, "text row", packet, r)
    BY ONLY <1>0, <1>5, <1>6, <1>6a, <1>7, <1>8, n \in Nat, vals \in Seq(TextValues) DEF RowOf
<1>10. r[n] = RowAt(Len(packet) + 1, vals)
    <2>1. RowRead(r, n, vals, <<>> \o q[n], packet)
        BY <1>9, RowReads
    <2> QED BY ONLY <2>1, <1>6, <1>6a DEF RowRead
<1>11. ParseTextRow(packet, n) = [ok |-> TRUE, vals |-> vals]
    <2>1. Whole(RowAt(Len(packet) + 1, vals), packet) = [ok |-> TRUE, vals |-> vals]
        BY DEF Whole, RowAt
    <2> QED BY ONLY <1>7, <1>10, <2>1
<1> QED BY <1>0, <1>11 DEF packet

(***************************************************************************)
(* Time stamps.                                                            *)
(***************************************************************************)
LEMMA Int8Of ==
    /\ \A x \in 0..127 : Int8(x) = x
    /\ \A n \in -128..127 : Int8(LE(n, 1)[1]) = n
<1>1. ASSUME NEW n \in -128..127 PROVE Signed(LE(n, 1)) = n
    <2>1. 1 \in {1, 2, 4, 8} /\ n \in Int /\ 2 * n < Limit(1) /\ 0 <= 2 * n + Limit(1)
        BY DEF Limit
    <2> QED BY <2>1, SignedOfLE
<1>2. ASSUME NEW n \in -128..127 PROVE <<LE(n, 1)[1]>> = LE(n, 1)
    <2>1. LE(n, 1) \in Seq(Byte) /\ Len(LE(n, 1)) = 1
        <3>1. n \in Int /\ 1 \in Nat
            OBVIOUS
        <3> QED BY <3>1, LEType, Zenon
    <2> QED BY <2>1
<1>3. ASSUME NEW x \in 0..127 PROVE LE(x, 1)[1] = x
    <2>1. PICK s : LEVia(s, x, 1)
        BY LEChain
    <2>2. LE(x, 1) = [i \in 1..1 |-> s[i - 1] % 256] /\ s[0] = x
        BY <2>1 DEF LEVia
    <2>3. LE(x, 1)[1] = s[0] % 256
        BY <2>2
    <2> QED BY <2>2, <2>3
<1>4. ASSUME NEW n \in -128..127 PROVE Int8(LE(n, 1)[1]) = n
    BY <1>1, <1>2 DEF Int8
<1>5. ASSUME NEW x \in 0..127 PROVE Int8(x) = x
    <2>1. x \in -128..127
        OBVIOUS
    <2> QED BY <1>3, <1>4, <2>1
<1> QED BY <1>4, <1>5

\* The hour and the minute of an offset, as the server sends them.
MinuteOf(off) == off - 60 * Truncated(off, 60)
Offsets == -7680..7679

LEMMA DivideBy60 ==
    ASSUME NEW n \in Nat
    PROVE  n \div 60 \in Nat /\ 60 * (n \div 60) <= n /\ n < 60 * (n \div 60) + 60
OBVIOUS

HourMinute(off, h, m) ==
    /\ h \in -128..127 /\ m \in -59..59
    /\ OffsetMinutes(h, m) = off
    /\ ~(h # 0 /\ m # 0 /\ (h < 0) # (m < 0))

LEMMA HourAndMinute ==
    ASSUME NEW off \in Offsets, NEW h, h = Truncated(off, 60), NEW m, m = MinuteOf(off)
    PROVE  HourMinute(off, h, m)
<1> USE DEF HourMinute
<1>0. off \in Int /\ off <= 7679 /\ -7680 <= off
    BY SMT DEF Offsets
<1>1. CASE off < 0
    <2>1. PICK n \in Nat : n = -off /\ n <= 7680
        BY ONLY <1>0, <1>1, SMT
    <2>2. PICK q \in Int : q = n \div 60
        OBVIOUS
    <2>3. PICK r \in Int : r = n - 60 * q
        OBVIOUS
    <2>4. q \in 0..128 /\ r \in 0..59
        <3>1. q \in Nat /\ 60 * q <= n /\ n < 60 * q + 60
            BY <2>2, DivideBy60
        <3> QED BY ONLY <2>1, <2>3, <3>1, n \in Nat, r \in Int, SMT
    <2>5. h = -q
        BY <1>1, <2>1, <2>2 DEF Truncated
    <2>6. m = -r
        <3>1. m = off - 60 * h
            BY DEF MinuteOf
        <3> QED BY ONLY <3>1, <2>1, <2>3, <2>5, <1>0, n \in Nat, q \in Int, r \in Int
    <2>7. OffsetMinutes(h, m) = off
        BY ONLY <2>1, <2>3, <2>4, <2>5, <2>6, <1>0, n \in Nat DEF OffsetMinutes, Abs
    <2> QED BY <2>4, <2>5, <2>6, <2>7
<1>2. CASE off >= 0
    <2>1. PICK n \in Nat : n = off /\ n <= 7679
        BY ONLY <1>0, <1>2, SMT
    <2>2. PICK q \in Int : q = n \div 60
        OBVIOUS
    <2>3. PICK r \in Int : r = n - 60 * q
        OBVIOUS
    <2>4. q \in 0..127 /\ r \in 0..59
        <3>1. q \in Nat /\ 60 * q <= n /\ n < 60 * q + 60
            BY <2>2, DivideBy60
        <3> QED BY ONLY <2>1, <2>3, <3>1, n \in Nat, r \in Int, SMT
    <2>5. h = q
        BY <1>2, <2>1, <2>2 DEF Truncated
    <2>6. m = r
        BY <2>1, <2>3, <2>5, <1>0 DEF MinuteOf
    <2>7. OffsetMinutes(h, m) = off
        BY ONLY <2>1, <2>3, <2>4, <2>5, <2>6, <1>0, n \in Nat DEF OffsetMinutes, Abs
    <2> QED BY <2>4, <2>5, <2>6, <2>7
<1> QED BY <1>0, <1>1, <1>2

\* A zone part whose abbreviation has one byte.
\* The offsets that are accepted, in minutes.
Accepted == -779..840

ZoneFields(data, len, h, m, name, off) ==
    /\ len \in Nat /\ Len(data) = len
    /\ h \in -128..127 /\ m \in -59..59 /\ Int8(data[13]) = h /\ Int8(data[14]) = m
    /\ ~(h # 0 /\ m # 0 /\ (h < 0) # (m < 0))
    /\ name \in Byte /\ data[15] = name /\ len >= 16 + name /\ data[16 + name] = 1
    /\ off \in Int /\ OffsetMinutes(h, m) = off

LEMMA ZoneReads ==
    ASSUME NEW data, NEW len, NEW h, NEW m, NEW name, NEW off, ZoneFields(data, len, h, m, name, off)
    PROVE  ParseOracleTimeZone(data) =
              IF off \in Accepted /\ len = 17 + name THEN [ok |-> TRUE, offset |-> off] ELSE Fail
<1>0. /\ len \in Nat /\ Len(data) = len
      /\ h \in -128..127 /\ m \in -59..59 /\ Int8(data[13]) = h /\ Int8(data[14]) = m
      /\ ~(h # 0 /\ m # 0 /\ (h < 0) # (m < 0))
      /\ name \in Nat /\ data[15] = name /\ len >= 16 + name /\ data[16 + name] = 1
      /\ off \in Int /\ OffsetMinutes(h, m) = off
    <2>1. name \in Byte
        BY Zenon DEF ZoneFields
    <2>2. name \in Nat
        BY ONLY <2>1 DEF Byte
    <2> QED BY <2>2, Zenon DEF ZoneFields
<1>1. 16 + data[15] = 16 + name /\ (16 + name) + data[16 + name] = 17 + name
    BY <1>0
<1>2. ~(len < 14) /\ ~(len < 15) /\ ~(len < 16 + name)
    BY <1>0
<1> QED BY <1>0, <1>1, <1>2 DEF ParseOracleTimeZone, Accepted

\* The first twelve bytes.
Payload(y, m, d) ==
    (<<y \div 100, y % 100, m, d, 23, 0, 59>> \o LE(999999999, 4)) \o <<9>>
Nanos == 999999999

Years == 0..9999

LEMMA YearReads ==
    ASSUME NEW y \in Years
    PROVE  /\ y \div 100 \in Byte /\ y % 100 \in Byte
           /\ OracleTimestampYear(y \div 100, y % 100) = y
<1>1. PICK c \in 0..99, r \in 0..99 : c = y \div 100 /\ r = y % 100 /\ 100 * c + r = y
    <2>1. y \div 100 \in 0..99 /\ y % 100 \in 0..99 /\ 100 * (y \div 100) + (y % 100) = y
        BY SMT DEF Years
    <2> QED BY <2>1
<1>2. Int8(c) = c /\ Int8(r) = r
    <2>1. c \in 0..127 /\ r \in 0..127
        OBVIOUS
    <2>2. \A x \in 0..127 : Int8(x) = x
        BY Int8Of, Zenon
    <2> QED BY ONLY <2>1, <2>2
<1>3. OracleTimestampYear(c, r) = y
    <2>1. Abs(c) = c /\ Abs(r) = r /\ ~(c < 0) /\ ~(r < 0) /\ c * 100 + r = 100 * c + r
        BY DEF Abs
    <2>2. OracleTimestampYear(c, r) = c * 100 + r
        BY ONLY <1>2, <2>1 DEF OracleTimestampYear
    <2> QED BY ONLY <2>1, <2>2, <1>1
<1> QED BY <1>1, <1>3 DEF Byte

LEMMA Seven ==
    ASSUME NEW S, NEW c \in S, NEW r \in S, NEW m \in S, NEW d \in S, NEW h \in S, NEW i \in S, NEW s \in S
    PROVE  <<c, r, m, d, h, i, s>> \in Seq(S) /\ Len(<<c, r, m, d, h, i, s>>) = 7
OBVIOUS

LEMMA Three ==
    ASSUME NEW S, NEW b \in Seq(S), Len(b) >= 7
    PROVE  SubSeq(b, 5, 7) = <<b[5], b[6], b[7]>>
<1>1. PICK n \in Nat : n = Len(b) /\ n >= 7
    OBVIOUS
<1>2. Len(SubSeq(b, 5, 7)) = 3 /\ \A i \in 1..3 : SubSeq(b, 5, 7)[i] = b[4 + i]
    BY <1>1
<1>3. SubSeq(b, 5, 7) \in Seq(S)
    BY <1>1
<1>4. PICK c \in Seq(S) : c = SubSeq(b, 5, 7)
    BY <1>3
<1>5. Len(c) = 3 /\ c[1] = b[5] /\ c[2] = b[6] /\ c[3] = b[7]
    BY ONLY <1>2, <1>4
<1>6. c = [i \in 1..3 |-> c[i]]
    BY ONLY <1>5, c \in Seq(S)
<1>7. [i \in 1..3 |-> c[i]] = <<c[1], c[2], c[3]>>
    OBVIOUS
<1> QED BY ONLY <1>4, <1>5, <1>6, <1>7

\* c is n elements of a, then m elements of b.
Beside(c, a, b, n, m, S) ==
    /\ c \in Seq(S) /\ Len(c) = n + m
    /\ \A i \in 1..n : c[i] = a[i]
    /\ \A i \in 1..m : c[n + i] = b[i]

LEMMA Concatenation ==
    ASSUME NEW S, NEW a \in Seq(S), NEW b \in Seq(S), NEW n \in Nat, NEW m \in Nat, Len(a) = n, Len(b) = m
    PROVE  Beside(a \o b, a, b, n, m, S)
<1>1. a \o b \in Seq(S) /\ Len(a \o b) = n + m
    OBVIOUS
<1>2. ASSUME NEW i \in 1..n PROVE (a \o b)[i] = a[i]
    OBVIOUS
<1>3. ASSUME NEW i \in 1..m PROVE (a \o b)[n + i] = b[i]
    OBVIOUS
<1> QED BY <1>1, <1>2, <1>3 DEF Beside

Stamped(data, a, l, z, tail, S) ==
    /\ data \in Seq(S) /\ Len(data) = 12 + Len(tail)
    /\ \A i \in 1..7 : data[i] = a[i]
    /\ data[12] = z[1]
    /\ SubSeq(data, 8, 11) = l
    /\ SubSeq(data, 5, 7) = <<a[5], a[6], a[7]>>
    /\ \A i \in 1..Len(tail) : data[12 + i] = tail[i]

LEMMA Parts ==
    ASSUME NEW S, NEW a \in Seq(S), NEW l \in Seq(S), NEW z \in Seq(S), NEW tail \in Seq(S),
           Len(a) = 7, Len(l) = 4, Len(z) = 1,
           NEW data, data = ((a \o l) \o z) \o tail
    PROVE  Stamped(data, a, l, z, tail, S)
<1>0. PICK t \in Nat : t = Len(tail)
    OBVIOUS
<1>1. PICK b : b = a \o l /\ Beside(b, a, l, 7, 4, S)
    BY Concatenation
<1>2. b \in Seq(S) /\ Len(b) = 11
    BY <1>1 DEF Beside
<1>3. PICK e : e = b \o z /\ Beside(e, b, z, 11, 1, S)
    BY <1>2, Concatenation
<1>4. e \in Seq(S) /\ Len(e) = 12
    BY <1>3 DEF Beside
<1>5. data = e \o tail /\ Beside(data, e, tail, 12, t, S)
    <2>1. data = e \o tail
        BY <1>1, <1>3
    <2>2. Beside(e \o tail, e, tail, 12, t, S)
        BY <1>0, <1>4, Concatenation
    <2> QED BY <2>1, <2>2
<1>6. data \in Seq(S) /\ Len(data) = 12 + t /\ \A i \in 1..t : data[12 + i] = tail[i]
    BY <1>5 DEF Beside
<1>7. ASSUME NEW i \in 1..12 PROVE data[i] = e[i]
    BY <1>5 DEF Beside
<1>8. ASSUME NEW i \in 1..11 PROVE data[i] = b[i]
    <2>1. i \in 1..12
        OBVIOUS
    <2> QED BY <1>3, <1>7, <2>1 DEF Beside
<1>9. ASSUME NEW i \in 1..7 PROVE data[i] = a[i]
    <2>1. i \in 1..11
        OBVIOUS
    <2> QED BY <1>1, <1>8, <2>1 DEF Beside
<1>10. data[12] = z[1]
    <2>1. 12 \in 1..12 /\ 1 \in 1..1 /\ 11 + 1 = 12
        OBVIOUS
    <2>2. data[12] = e[12]
        BY <1>7, <2>1
    <2>3. e[11 + 1] = z[1]
        BY <1>3, <2>1 DEF Beside
    <2> QED BY <2>1, <2>2, <2>3
<1>11. ASSUME NEW i \in 1..4 PROVE data[7 + i] = l[i]
    <2>1. 7 + i \in 1..11
        OBVIOUS
    <2> QED BY <1>1, <1>8, <2>1 DEF Beside
<1>12. SubSeq(data, 8, 11) = l
    <2>1. Len(SubSeq(data, 8, 11)) = 4 /\ SubSeq(data, 8, 11) \in Seq(S)
        BY ONLY <1>6, t \in Nat
    <2>2. ASSUME NEW i \in 1..4 PROVE SubSeq(data, 8, 11)[i] = data[7 + i]
        BY ONLY <1>6, t \in Nat, i \in 1..4
    <2> QED BY ONLY <2>1, <2>2, <1>11, l \in Seq(S), Len(l) = 4
<1>13. SubSeq(data, 5, 7) = <<a[5], a[6], a[7]>>
    <2>1. Len(data) >= 7
        BY ONLY <1>6, t \in Nat
    <2>2. SubSeq(data, 5, 7) = <<data[5], data[6], data[7]>>
        BY <1>6, <2>1, Three
    <2>3. data[5] = a[5] /\ data[6] = a[6] /\ data[7] = a[7]
        <3>1. 5 \in 1..7 /\ 6 \in 1..7 /\ 7 \in 1..7
            OBVIOUS
        <3> QED BY ONLY <1>9, <3>1
    <2> QED BY ONLY <2>2, <2>3
<1> QED BY <1>0, <1>6, <1>9, <1>10, <1>12, <1>13 DEF Stamped

HasFields(data, y, m, d, tail) ==
    /\ data \in Seq(Byte) /\ Len(data) = 12 + Len(tail)
    /\ OracleTimestampYear(data[1], data[2]) = y
    /\ data[3] = m /\ data[4] = d /\ data[12] = 9
    /\ SubSeq(data, 5, 7) = <<23, 0, 59>>
    /\ UnLE(SubSeq(data, 8, 11)) = Nanos
    /\ \A i \in 1..Len(tail) : data[12 + i] = tail[i]

LEMMA PayloadFields ==
    ASSUME NEW y \in Years, NEW m \in Byte, NEW d \in Byte, NEW data, NEW tail \in Seq(Byte),
           data = Payload(y, m, d) \o tail
    PROVE  HasFields(data, y, m, d, tail)
<1>1. PICK c \in Byte, r \in Byte : c = y \div 100 /\ r = y % 100 /\ OracleTimestampYear(c, r) = y
    BY YearReads
<1>2. PICK l \in Seq(Byte) : l = LE(Nanos, 4) /\ Len(l) = 4 /\ UnLE(l) = Nanos
    <2>1. Nanos \in Nat /\ Nanos < Limit(4)
        BY SMT DEF Nanos, Limit
    <2>2. 4 \in FixedWidths /\ 4 \in Nat
        BY DEF FixedWidths
    <2>3. Nanos \in Int
        BY <2>1
    <2>4. LE(Nanos, 4) \in Seq(Byte) /\ Len(LE(Nanos, 4)) = 4
        BY <2>2, <2>3, LEType, Zenon
    <2>5. UnLE(LE(Nanos, 4)) = Nanos
        BY <2>1, <2>2, UnLEOfLE, Zenon
    <2> QED BY <2>4, <2>5, Zenon
<1>3. Payload(y, m, d) = (<<c, r, m, d, 23, 0, 59>> \o l) \o <<9>>
    BY <1>1, <1>2, SMT DEF Payload, Nanos
<1>4. PICK a \in Seq(Byte) : a = <<c, r, m, d, 23, 0, 59>> /\ Len(a) = 7
    <2>1. 23 \in Byte /\ 0 \in Byte /\ 59 \in Byte
        BY DEF Byte
    <2>2. <<c, r, m, d, 23, 0, 59>> \in Seq(Byte) /\ Len(<<c, r, m, d, 23, 0, 59>>) = 7
        BY ONLY <2>1, c \in Byte, r \in Byte, m \in Byte, d \in Byte, Seven
    <2> QED BY ONLY <2>2, Zenon
<1>5. PICK z \in Seq(Byte) : z = <<9>> /\ Len(z) = 1 /\ z[1] = 9
    <2>1. 9 \in Byte
        BY DEF Byte
    <2>2. <<9>> \in Seq(Byte) /\ Len(<<9>>) = 1 /\ <<9>>[1] = 9
        BY ONLY <2>1
    <2> QED BY ONLY <2>2, Zenon
<1>6. data = ((a \o l) \o z) \o tail
    BY ONLY <1>3, <1>4, <1>5, data = Payload(y, m, d) \o tail
<1>7. /\ data \in Seq(Byte) /\ Len(data) = 12 + Len(tail)
      /\ \A i \in 1..7 : data[i] = a[i]
      /\ data[12] = z[1]
      /\ SubSeq(data, 8, 11) = l
      /\ SubSeq(data, 5, 7) = <<a[5], a[6], a[7]>>
      /\ \A i \in 1..Len(tail) : data[12 + i] = tail[i]
    <2>1. Len(a) = 7 /\ Len(l) = 4 /\ Len(z) = 1
        BY ONLY <1>2, <1>4, <1>5
    <2>2. Stamped(data, a, l, z, tail, Byte)
        BY ONLY <2>1, <1>6, Parts, a \in Seq(Byte), l \in Seq(Byte), z \in Seq(Byte), tail \in Seq(Byte)
    <2> QED BY ONLY <2>2, Zenon DEF Stamped
<1>8. a[1] = c /\ a[2] = r /\ a[3] = m /\ a[4] = d /\ a[5] = 23 /\ a[6] = 0 /\ a[7] = 59
    BY ONLY <1>4
<1>9. data[1] = c /\ data[2] = r /\ data[3] = m /\ data[4] = d /\ data[12] = 9
    <2>1. \A i \in 1..7 : data[i] = a[i]
        BY ONLY <1>7, Zenon
    <2>2. data[1] = a[1] /\ data[2] = a[2] /\ data[3] = a[3] /\ data[4] = a[4]
        BY ONLY <2>1
    <2>3. data[12] = z[1]
        BY ONLY <1>7, Zenon
    <2> QED BY ONLY <1>5, <1>8, <2>2, <2>3
<1>10. SubSeq(data, 5, 7) = <<23, 0, 59>>
    BY ONLY <1>7, <1>8
<1> QED BY ONLY <1>1, <1>2, <1>7, <1>9, <1>10 DEF HasFields

\* What a time stamp is decoded to, given what its zone is.
DatePossible(y, m, d) == y >= 1 /\ m \in 1..12 /\ d \in 1..DaysInMonth(y, m)
ZoneOf(data, typ) == IF typ = "tz" THEN ParseOracleTimeZone(data) ELSE [ok |-> TRUE, offset |-> 0]
Stamp(y, m, d, offset) ==
    [ok |-> TRUE, date |-> <<y, m, d>>, clock |-> <<23, 0, 59>>, nsec |-> Nanos, offset |-> offset]

\* The tests of ParseOracleTime, on the fields.
Decide(date, clock, nsec, scale, zone, typ, len) ==
    IF len < PayloadLength THEN Fail
    ELSE IF typ # "tz" /\ len # PayloadLength THEN Fail
    ELSE IF date[1] \notin 1..9999 \/ date[2] \notin 1..12 THEN Fail
    ELSE IF date[3] \notin 1..DaysInMonth(date[1], date[2]) THEN Fail
    ELSE IF clock[1] > 23 \/ clock[2] > 59 \/ clock[3] > 59 THEN Fail
    ELSE IF nsec >= 1000000000 \/ scale > 9 THEN Fail
    ELSE IF ~zone.ok THEN Fail
    ELSE [ok |-> TRUE, date |-> date, clock |-> clock, nsec |-> nsec, offset |-> zone.offset]

LEMMA Decides ==
    ASSUME NEW data, NEW typ
    PROVE  ParseOracleTime(data, typ) =
              Decide(<<OracleTimestampYear(data[1], data[2]), data[3], data[4]>>, SubSeq(data, 5, 7),
                     UnLE(SubSeq(data, 8, 11)), data[12], ZoneOf(data, typ), typ, Len(data))
BY SMT DEF ParseOracleTime, Decide, ZoneOf

DecodesTo(data, y, m, d, tail, typ) ==
    ParseOracleTime(data, typ) =
        IF (typ = "tz" \/ tail = <<>>) /\ DatePossible(y, m, d) /\ ZoneOf(data, typ).ok
        THEN Stamp(y, m, d, ZoneOf(data, typ).offset) ELSE Fail

LEMMA StampOfPayload ==
    ASSUME NEW y \in Years, NEW m \in Byte, NEW d \in Byte, NEW data, NEW tail \in Seq(Byte),
           data = Payload(y, m, d) \o tail, NEW typ
    PROVE  DecodesTo(data, y, m, d, tail, typ)
<1>1. /\ Len(data) = 12 + Len(tail)
      /\ OracleTimestampYear(data[1], data[2]) = y
      /\ data[3] = m /\ data[4] = d /\ data[12] = 9
      /\ SubSeq(data, 5, 7) = <<23, 0, 59>>
      /\ UnLE(SubSeq(data, 8, 11)) = Nanos
    <2>1. HasFields(data, y, m, d, tail)
        BY PayloadFields
    <2> QED BY <2>1 DEF HasFields
<1>2. ~(Len(data) < PayloadLength) /\ (Len(data) # PayloadLength <=> tail # <<>>)
    <2>1. PICK t \in Nat : t = Len(tail) /\ (t = 0 <=> tail = <<>>)
        OBVIOUS
    <2> QED BY ONLY <1>1, <2>1, t \in Nat DEF PayloadLength
<1> DEFINE late == y \in 1..9999
<1>3. late <=> y \in 1..9999
    BY SMT
<1> HIDE DEF late
<1>4. late <=> y >= 1
    <2>1. y \in Int /\ y <= 9999
        BY SMT DEF Years
    <2> QED BY ONLY <1>3, <2>1, SMT
<1>5. ~(Nanos >= 1000000000 \/ 9 > 9)
    BY SMT DEF Nanos
<1>6. ~(<<23, 0, 59>>[1] > 23 \/ <<23, 0, 59>>[2] > 59 \/ <<23, 0, 59>>[3] > 59)
    OBVIOUS
<1>7. ASSUME NEW zone, NEW len, ~(len < PayloadLength)
      PROVE  Decide(<<y, m, d>>, <<23, 0, 59>>, Nanos, 9, zone, typ, len) =
         IF typ # "tz" /\ len # PayloadLength THEN Fail
         ELSE IF ~late \/ m \notin 1..12 THEN Fail
         ELSE IF d \notin 1..DaysInMonth(y, m) THEN Fail
         ELSE IF ~zone.ok THEN Fail
         ELSE Stamp(y, m, d, zone.offset)
    <2>1. /\ <<y, m, d>>[1] = y /\ <<y, m, d>>[2] = m /\ <<y, m, d>>[3] = d
        OBVIOUS
    <2>2. PICK date, clock : date = <<y, m, d>> /\ clock = <<23, 0, 59>>
        OBVIOUS
    <2>3. /\ date[1] = y /\ date[2] = m /\ date[3] = d
          /\ ~(clock[1] > 23 \/ clock[2] > 59 \/ clock[3] > 59)
        BY ONLY <1>6, <2>1, <2>2
    <2>4. Decide(date, clock, Nanos, 9, zone, typ, len) =
             IF typ # "tz" /\ len # PayloadLength THEN Fail
             ELSE IF y \notin 1..9999 \/ m \notin 1..12 THEN Fail
             ELSE IF d \notin 1..DaysInMonth(y, m) THEN Fail
             ELSE IF ~zone.ok THEN Fail
             ELSE [ok |-> TRUE, date |-> date, clock |-> clock, nsec |-> Nanos, offset |-> zone.offset]
        BY ONLY <1>5, <1>7, <2>3, SMT DEF Decide
    <2>5. [ok |-> TRUE, date |-> date, clock |-> clock, nsec |-> Nanos, offset |-> zone.offset] = Stamp(y, m, d, zone.offset)
        BY ONLY <2>2 DEF Stamp
    <2>6. Decide(date, clock, Nanos, 9, zone, typ, len) =
             IF typ # "tz" /\ len # PayloadLength THEN Fail
             ELSE IF ~late \/ m \notin 1..12 THEN Fail
             ELSE IF d \notin 1..DaysInMonth(y, m) THEN Fail
             ELSE IF ~zone.ok THEN Fail
             ELSE Stamp(y, m, d, zone.offset)
        <3>1. CASE late
            <4>1. ~(y \notin 1..9999)
                BY ONLY <1>3, <3>1, SMT
            <4>2. PICK full : full = [ok |-> TRUE, date |-> date, clock |-> clock, nsec |-> Nanos, offset |-> zone.offset]
                OBVIOUS
            <4>3. full = Stamp(y, m, d, zone.offset)
                BY ONLY <2>5, <4>2
            <4>4. Decide(date, clock, Nanos, 9, zone, typ, len) =
                     IF typ # "tz" /\ len # PayloadLength THEN Fail
                     ELSE IF m \notin 1..12 THEN Fail
                     ELSE IF d \notin 1..DaysInMonth(y, m) THEN Fail
                     ELSE IF ~zone.ok THEN Fail
                     ELSE full
                BY ONLY <2>4, <4>1, <4>2, SMT
            <4> QED BY ONLY <3>1, <4>3, <4>4, Zenon
        <3>2. CASE ~late
            <4>1. y \notin 1..9999
                BY ONLY <1>3, <3>2, SMT
            <4> QED BY ONLY <2>4, <3>2, <4>1, SMT
        <3> QED BY ONLY <3>1, <3>2, Zenon
    <2> QED BY ONLY <2>2, <2>6, Zenon
<1>8. DatePossible(y, m, d) <=> late /\ m \in 1..12 /\ d \in 1..DaysInMonth(y, m)
    BY ONLY <1>4 DEF DatePossible
<1>9. ParseOracleTime(data, typ) = Decide(<<y, m, d>>, <<23, 0, 59>>, Nanos, 9, ZoneOf(data, typ), typ, Len(data))
    BY ONLY <1>1, Decides
<1> QED BY ONLY <1>2, <1>7, <1>8, <1>9 DEF DecodesTo

\* The zone part: two bytes, a name with its length, an abbreviation of one byte.
ZoneBytes(off, name) ==
    (((LE(Truncated(off, 60), 1) \o LE(MinuteOf(off), 1)) \o <<name>>) \o [i \in 1..name |-> 65]) \o <<1, 66>>

HasZone(t, hour, minute, name, S) ==
    /\ t \in Seq(S) /\ Len(t) = name + 5
    /\ t[1] = hour /\ t[2] = minute /\ t[3] = name /\ t[4 + name] = 1

LEMMA FiveParts ==
    ASSUME NEW S, NEW a \in Seq(S), NEW b \in Seq(S), NEW c \in Seq(S), NEW e \in Seq(S), NEW z \in Seq(S),
           Len(a) = 1, Len(b) = 1, Len(c) = 1, NEW n \in Nat, Len(e) = n, Len(z) = 2,
           NEW t, t = (((a \o b) \o c) \o e) \o z, c[1] = n, z[1] = 1
    PROVE  HasZone(t, a[1], b[1], n, S)
<1>1. PICK u : u = a \o b /\ Beside(u, a, b, 1, 1, S)
    BY Concatenation
<1>2. u \in Seq(S) /\ Len(u) = 2 /\ u[1] = a[1] /\ u[2] = b[1]
    <2>1. 1 \in 1..1 /\ 1 + 1 = 2
        OBVIOUS
    <2> QED BY <1>1, <2>1 DEF Beside
<1>3. PICK v : v = u \o c /\ Beside(v, u, c, 2, 1, S)
    BY <1>2, Concatenation
<1>4. v \in Seq(S) /\ Len(v) = 3 /\ v[1] = a[1] /\ v[2] = b[1] /\ v[3] = n
    <2>1. 1 \in 1..1 /\ 2 + 1 = 3 /\ 1 \in 1..2 /\ 2 \in 1..2
        OBVIOUS
    <2> QED BY <1>2, <1>3, <2>1 DEF Beside
<1>5. PICK w : w = v \o e /\ Beside(w, v, e, 3, n, S)
    BY <1>4, Concatenation
<1>6. w \in Seq(S) /\ Len(w) = 3 + n /\ w[1] = a[1] /\ w[2] = b[1] /\ w[3] = n
    <2>1. 1 \in 1..3 /\ 2 \in 1..3 /\ 3 \in 1..3
        OBVIOUS
    <2> QED BY <1>4, <1>5, <2>1 DEF Beside
<1>7. Beside(t, w, z, 3 + n, 2, S)
    <2>1. t = w \o z /\ 3 + n \in Nat /\ 2 \in Nat
        BY <1>1, <1>3, <1>5
    <2> QED BY <1>6, <2>1, Concatenation
<1>8. t \in Seq(S) /\ Len(t) = 3 + n + 2
    BY <1>7 DEF Beside
<1>9. t[1] = w[1] /\ t[2] = w[2] /\ t[3] = w[3]
    <2>1. 1 \in 1..(3 + n) /\ 2 \in 1..(3 + n) /\ 3 \in 1..(3 + n)
        OBVIOUS
    <2> QED BY <1>7, <2>1 DEF Beside
<1>10. t[3 + n + 1] = z[1]
    <2>1. 1 \in 1..2
        OBVIOUS
    <2> QED BY <1>7, <2>1 DEF Beside
<1>11. 3 + n + 1 = 4 + n /\ 3 + n + 2 = n + 5
    OBVIOUS
<1> QED BY <1>6, <1>8, <1>9, <1>10, <1>11 DEF HasZone

LEMMA ZoneBytesShape ==
    ASSUME NEW off \in Offsets, NEW name \in Byte
    PROVE  HasZone(ZoneBytes(off, name), LE(Truncated(off, 60), 1)[1], LE(MinuteOf(off), 1)[1], name, Byte)
<1>1. Truncated(off, 60) \in Int /\ MinuteOf(off) \in Int /\ 1 \in Nat
    <2>1. HourMinute(off, Truncated(off, 60), MinuteOf(off))
        BY HourAndMinute, Zenon
    <2> QED BY ONLY <2>1 DEF HourMinute
<1>2. PICK a \in Seq(Byte) : a = LE(Truncated(off, 60), 1) /\ Len(a) = 1
    BY <1>1, LEType
<1>3. PICK b \in Seq(Byte) : b = LE(MinuteOf(off), 1) /\ Len(b) = 1
    BY <1>1, LEType
<1>4. PICK c \in Seq(Byte) : c = <<name>> /\ Len(c) = 1 /\ c[1] = name
    <2>1. <<name>> \in Seq(Byte) /\ Len(<<name>>) = 1 /\ <<name>>[1] = name
        OBVIOUS
    <2> QED BY <2>1, Zenon
<1>5. name \in Nat /\ 65 \in Byte /\ 1 \in Byte /\ 66 \in Byte
    BY DEF Byte
<1>6. PICK e \in Seq(Byte) : e = [i \in 1..name |-> 65] /\ Len(e) = name
    <2>1. [i \in 1..name |-> 65] \in Seq(Byte) /\ Len([i \in 1..name |-> 65]) = name
        BY <1>5
    <2> QED BY <2>1, Zenon
<1>7. PICK z \in Seq(Byte) : z = <<1, 66>> /\ Len(z) = 2 /\ z[1] = 1
    <2>1. <<1, 66>> \in Seq(Byte) /\ Len(<<1, 66>>) = 2 /\ <<1, 66>>[1] = 1
        BY <1>5
    <2> QED BY <2>1, Zenon
<1>8. ZoneBytes(off, name) = (((a \o b) \o c) \o e) \o z
    BY ONLY <1>2, <1>3, <1>4, <1>6, <1>7 DEF ZoneBytes
<1>9. HasZone(ZoneBytes(off, name), a[1], b[1], name, Byte)
    <2>1. PICK t : t = ZoneBytes(off, name)
        OBVIOUS
    <2>2. t = (((a \o b) \o c) \o e) \o z
        BY ONLY <1>8, <2>1
    <2>3. HasZone(t, a[1], b[1], name, Byte)
        <3>1. /\ Len(a) = 1 /\ Len(b) = 1 /\ Len(c) = 1 /\ Len(e) = name /\ Len(z) = 2
              /\ c[1] = name /\ z[1] = 1 /\ name \in Nat
            BY ONLY <1>2, <1>3, <1>4, <1>5, <1>6, <1>7
        <3> QED BY ONLY <2>2, <3>1, FiveParts, Zenon,
                   a \in Seq(Byte), b \in Seq(Byte), c \in Seq(Byte), e \in Seq(Byte), z \in Seq(Byte)
    <2> QED BY ONLY <2>1, <2>3
<1> QED BY <1>2, <1>3, <1>9

\* A payload, then a zone part, whole, cut short by a byte or with a byte left over.
Zoned(tail, off, name) ==
    Len(tail) >= 4 + name /\ \A i \in 1..(4 + name) : tail[i] = ZoneBytes(off, name)[i]

ZoneRead(data, tail, off, name) ==
    ZoneOf(data, "tz") = IF off \in Accepted /\ Len(tail) = 5 + name THEN [ok |-> TRUE, offset |-> off] ELSE Fail

LEMMA ZoneOfPayload ==
    ASSUME NEW y \in Years, NEW m \in Byte, NEW d \in Byte, NEW off \in Offsets, NEW name \in Byte,
           NEW tail \in Seq(Byte), Zoned(tail, off, name), NEW data, data = Payload(y, m, d) \o tail
    PROVE  ZoneRead(data, tail, off, name)
<1>0. name \in Nat /\ off \in Int
    BY ONLY name \in Byte, off \in Offsets DEF Byte, Offsets
<1>1. PICK t \in Nat : t = Len(tail) /\ t >= 4 + name
    BY DEF Zoned
<1>2. /\ Len(data) = 12 + t
      /\ \A i \in 1..t : data[12 + i] = tail[i]
    <2>1. HasFields(data, y, m, d, tail)
        BY PayloadFields
    <2> QED BY <1>1, <2>1 DEF HasFields
<1>3. PICK h, n : h = Truncated(off, 60) /\ n = MinuteOf(off)
    OBVIOUS
<1>4. /\ h \in -128..127 /\ n \in -59..59
      /\ OffsetMinutes(h, n) = off
      /\ ~(h # 0 /\ n # 0 /\ (h < 0) # (n < 0))
    <2>1. HourMinute(off, h, n)
        BY ONLY <1>3, off \in Offsets, HourAndMinute, Zenon
    <2> QED BY ONLY <2>1 DEF HourMinute
<1>5. HasZone(ZoneBytes(off, name), LE(h, 1)[1], LE(n, 1)[1], name, Byte)
    BY <1>3, ZoneBytesShape
<1>6. \A i \in 1..(4 + name) : data[12 + i] = ZoneBytes(off, name)[i]
    <2> TAKE i \in 1..(4 + name)
    <2>1. i \in 1..t
        BY <1>0, <1>1
    <2> QED BY <1>2, <2>1 DEF Zoned
<1>7. data[13] = LE(h, 1)[1] /\ data[14] = LE(n, 1)[1] /\ data[15] = name /\ data[16 + name] = 1
    <2>1. /\ 1 \in 1..(4 + name) /\ 2 \in 1..(4 + name) /\ 3 \in 1..(4 + name) /\ 4 + name \in 1..(4 + name)
          /\ 12 + 1 = 13 /\ 12 + 2 = 14 /\ 12 + 3 = 15 /\ 12 + (4 + name) = 16 + name
        BY ONLY <1>0
    <2> QED BY ONLY <1>5, <1>6, <2>1 DEF HasZone
<1>8. Int8(data[13]) = h /\ Int8(data[14]) = n
    <2>1. h \in -128..127 /\ n \in -128..127
        BY ONLY <1>4
    <2> QED BY ONLY <1>7, <2>1, Int8Of
<1>9. 12 + t \in Nat /\ 12 + t >= 16 + name /\ (12 + t = 17 + name <=> t = 5 + name)
    BY ONLY <1>0, <1>1, t \in Nat
<1>10. ParseOracleTimeZone(data) =
          IF off \in Accepted /\ 12 + t = 17 + name THEN [ok |-> TRUE, offset |-> off] ELSE Fail
    <2>1. ZoneFields(data, 12 + t, h, n, name, off)
        BY ONLY <1>0, <1>2, <1>4, <1>7, <1>8, <1>9, name \in Byte DEF ZoneFields
    <2> QED BY ONLY <2>1, ZoneReads
<1> QED BY ONLY <1>1, <1>9, <1>10 DEF ZoneOf, ZoneRead

\* u is a and then x, which has length len and n elements in common with t.
Alike(u, a, x, len, t, n, S) ==
    u = a \o x /\ x \in Seq(S) /\ Len(x) = len /\ \A i \in 1..n : x[i] = t[i]

LEMMA FrontOf ==
    ASSUME NEW S, NEW a \in Seq(S), NEW t \in Seq(S), NEW n \in Nat, Len(t) = n + 1
    PROVE  Alike(Front(a \o t), a, Front(t), n, t, n, S)
<1>1. PICK k \in Nat : k = Len(a)
    OBVIOUS
<1>2. Front(t) = SubSeq(t, 1, n) /\ Front(a \o t) = SubSeq(a \o t, 1, k + n)
    BY <1>1 DEF Front
<1>3. SubSeq(t, 1, n) \in Seq(S) /\ Len(SubSeq(t, 1, n)) = n /\ \A i \in 1..n : SubSeq(t, 1, n)[i] = t[i]
    OBVIOUS
<1>4. SubSeq(a \o t, 1, k + n) = a \o SubSeq(t, 1, n)
    BY ONLY <1>1, a \in Seq(S), t \in Seq(S), n \in Nat, Len(t) = n + 1
<1> QED BY <1>2, <1>3, <1>4 DEF Alike

LEMMA AppendOf ==
    ASSUME NEW S, NEW a \in Seq(S), NEW t \in Seq(S), NEW x \in S, NEW n \in Nat, Len(t) = n
    PROVE  Alike(Append(a \o t, x), a, Append(t, x), n + 1, t, n, S)
<1>1. Append(a \o t, x) = a \o Append(t, x)
    OBVIOUS
<1>2. Append(t, x) \in Seq(S) /\ Len(Append(t, x)) = n + 1
    OBVIOUS
<1>3. ASSUME NEW i \in 1..n PROVE Append(t, x)[i] = t[i]
    OBVIOUS
<1> QED BY <1>1, <1>2, <1>3 DEF Alike

LEMMA PayloadType ==
    ASSUME NEW y \in Years, NEW m \in Byte, NEW d \in Byte
    PROVE  Payload(y, m, d) \in Seq(Byte) /\ Len(Payload(y, m, d)) = 12
<1>1. PICK a \in Seq(Byte), l \in Seq(Byte) : Payload(y, m, d) = (a \o l) \o <<9>> /\ Len(a) = 7 /\ Len(l) = 4
    <2>1. y \div 100 \in Byte /\ y % 100 \in Byte /\ 23 \in Byte /\ 0 \in Byte /\ 59 \in Byte
        BY YearReads DEF Byte
    <2>2. /\ <<y \div 100, y % 100, m, d, 23, 0, 59>> \in Seq(Byte)
          /\ Len(<<y \div 100, y % 100, m, d, 23, 0, 59>>) = 7
        BY <2>1, Seven
    <2>3. Nanos \in Int /\ 4 \in Nat
        BY SMT DEF Nanos
    <2>4. LE(Nanos, 4) \in Seq(Byte) /\ Len(LE(Nanos, 4)) = 4
        BY <2>3, LEType
    <2>5. Payload(y, m, d) = (<<y \div 100, y % 100, m, d, 23, 0, 59>> \o LE(Nanos, 4)) \o <<9>>
        BY SMT DEF Payload, Nanos
    <2> QED BY ONLY <2>2, <2>4, <2>5, Zenon
<1>2. <<9>> \in Seq(Byte) /\ Len(<<9>>) = 1
    BY DEF Byte
<1>3. PICK z \in Seq(Byte) : z = <<9>> /\ Len(z) = 1
    BY <1>2, Zenon
<1>4. (a \o l) \o z \in Seq(Byte) /\ Len((a \o l) \o z) = 12
    <2>1. PICK u \in Seq(Byte) : u = a \o l /\ Len(u) = 11
        <3>1. a \o l \in Seq(Byte) /\ Len(a \o l) = 11
            <4>1. Len(a) = 7 /\ Len(l) = 4 /\ 7 \in Nat /\ 4 \in Nat
                BY <1>1
            <4>2. Beside(a \o l, a, l, 7, 4, Byte)
                BY ONLY <4>1, Concatenation, a \in Seq(Byte), l \in Seq(Byte)
            <4> QED BY ONLY <4>2 DEF Beside
        <3> QED BY ONLY <3>1, Zenon
    <2>2. u \o z \in Seq(Byte) /\ Len(u \o z) = 12
        BY ONLY <1>3, <2>1, u \in Seq(Byte), z \in Seq(Byte)
    <2> QED BY ONLY <2>1, <2>2
<1> QED BY ONLY <1>1, <1>3, <1>4

\* A time stamp of the server is decoded to what it is, or refused.
StampDecoded(b, y, m, d, off, typ) ==
    /\ ParseOracleTime(b, typ) =
          IF DatePossible(y, m, d) /\ off \in Accepted THEN Stamp(y, m, d, off) ELSE Fail
    /\ ParseOracleTime(Front(b), typ) = Fail
    /\ ParseOracleTime(Append(b, 0), typ) = Fail

LEMMA StampDecodes ==
    ASSUME NEW y \in Years, NEW m \in Byte, NEW d \in Byte, NEW off \in Offsets, NEW name \in Byte,
           NEW typ, typ # "tz" => off = 0,
           NEW b, b = Payload(y, m, d) \o (IF typ # "tz" THEN <<>> ELSE ZoneBytes(off, name))
    PROVE  StampDecoded(b, y, m, d, off, typ)
<1>0. name \in Nat /\ 0 \in Byte
    BY DEF Byte
<1>1. PICK p \in Seq(Byte) : p = Payload(y, m, d) /\ Len(p) = 12
    BY PayloadType
<1>2. CASE typ # "tz"
    <2>1. b = p \o <<>> /\ b = p /\ <<>> \in Seq(Byte)
        BY <1>1, <1>2
    <2>2. ZoneOf(b, typ) = [ok |-> TRUE, offset |-> 0]
        BY <1>2 DEF ZoneOf
    <2>3. ParseOracleTime(b, typ) = IF DatePossible(y, m, d) THEN Stamp(y, m, d, 0) ELSE Fail
        <3>0. b = Payload(y, m, d) \o <<>>
            BY ONLY <1>1, <2>1
        <3>1. DecodesTo(b, y, m, d, <<>>, typ)
            BY ONLY <2>1, <3>0, StampOfPayload, y \in Years, m \in Byte, d \in Byte
        <3> QED BY ONLY <2>2, <3>1 DEF DecodesTo
    <2>4. off = 0 /\ 0 \in Accepted
        BY <1>2 DEF Accepted
    <2>5. ParseOracleTime(Front(b), typ) = Fail
        <3>1. Len(Front(b)) = 11
            <4>0. b = p /\ Len(p) = 12
                BY <1>1, <2>1
            <4>1. Front(b) = SubSeq(p, 1, 11)
                BY ONLY <4>0 DEF Front
            <4>2. Len(SubSeq(p, 1, 11)) = 11
                BY ONLY <4>0, p \in Seq(Byte)
            <4> QED BY ONLY <4>1, <4>2
        <3>2. 11 < PayloadLength
            BY DEF PayloadLength
        <3>3. \A date, clock, nsec, scale, zone : Decide(date, clock, nsec, scale, zone, typ, 11) = Fail
            BY ONLY <3>2, SMT DEF Decide
        <3> QED BY ONLY <3>1, <3>3, Decides
    <2>6. ParseOracleTime(Append(b, 0), typ) = Fail
        <3>1. Append(b, 0) = p \o <<0>> /\ <<0>> \in Seq(Byte) /\ <<0>> # <<>>
            <4>1. b = p /\ p \in Seq(Byte)
                BY <1>0, <2>1
            <4>2. 0 \in Byte
                BY ONLY TRUE DEF Byte
            <4>3. Append(p, 0) = p \o <<0>>
                BY ONLY <4>1, <4>2
            <4> QED BY ONLY <4>1, <4>2, <4>3
        <3>2. Append(b, 0) = Payload(y, m, d) \o <<0>>
            BY ONLY <1>1, <3>1
        <3>3. DecodesTo(Append(b, 0), y, m, d, <<0>>, typ)
            BY ONLY <3>1, <3>2, StampOfPayload, y \in Years, m \in Byte, d \in Byte
        <3> QED BY ONLY <1>2, <3>1, <3>3 DEF DecodesTo
    <2> QED BY ONLY <2>3, <2>4, <2>5, <2>6 DEF StampDecoded
<1>3. CASE typ = "tz"
    <2>1. PICK z \in Seq(Byte) : z = ZoneBytes(off, name) /\ Len(z) = (4 + name) + 1
        <3>1. ZoneBytes(off, name) \in Seq(Byte) /\ Len(ZoneBytes(off, name)) = name + 5
            BY ZoneBytesShape DEF HasZone
        <3>2. name + 5 = (4 + name) + 1
            BY <1>0
        <3> QED BY ONLY <3>1, <3>2, Zenon
    <2>2. b = p \o z
        BY <1>1, <1>3, <2>1
    <2>3. ASSUME NEW t \in Seq(Byte), Len(t) >= 4 + name, \A i \in 1..(4 + name) : t[i] = z[i], NEW data, data = p \o t
          PROVE  ParseOracleTime(data, typ) =
                    IF DatePossible(y, m, d) /\ off \in Accepted /\ Len(t) = 5 + name THEN Stamp(y, m, d, off) ELSE Fail
        <3>1. ZoneOf(data, "tz") = IF off \in Accepted /\ Len(t) = 5 + name
                                   THEN [ok |-> TRUE, offset |-> off] ELSE Fail
            <4>1. data = Payload(y, m, d) \o t
                BY ONLY <1>1, <2>3
            <4>2. \A i \in 1..(4 + name) : t[i] = ZoneBytes(off, name)[i]
                BY ONLY <2>1, <2>3
            <4>3. Len(t) >= 4 + name
                BY ONLY <2>3
            <4>4. Zoned(t, off, name)
                BY ONLY <4>2, <4>3 DEF Zoned
            <4>5. ZoneRead(data, t, off, name)
                BY ONLY <4>1, <4>4, ZoneOfPayload, y \in Years, m \in Byte, d \in Byte, off \in Offsets,
                        name \in Byte, t \in Seq(Byte)
            <4> QED BY ONLY <4>5 DEF ZoneRead
        <3>2. DecodesTo(data, y, m, d, t, typ)
            <4>1. data = Payload(y, m, d) \o t
                BY ONLY <1>1, <2>3
            <4> QED BY ONLY <4>1, StampOfPayload, y \in Years, m \in Byte, d \in Byte, t \in Seq(Byte)
        <3> QED BY ONLY <1>3, <3>1, <3>2 DEF DecodesTo, Fail
    <2>4. 4 + name \in Nat /\ (4 + name) + 1 >= 4 + name /\ (4 + name) + 1 = 5 + name /\ 4 + name # 5 + name
          /\ ((4 + name) + 1) + 1 # 5 + name /\ ((4 + name) + 1) + 1 >= 4 + name /\ 4 + name >= 4 + name
          /\ (4 + name) + 1 \in Nat
        BY <1>0
    <2>5. ParseOracleTime(b, typ) =
             IF DatePossible(y, m, d) /\ off \in Accepted THEN Stamp(y, m, d, off) ELSE Fail
        <3>1. Len(z) >= 4 + name /\ \A i \in 1..(4 + name) : z[i] = z[i]
            BY ONLY <2>1, <2>4
        <3>2. ParseOracleTime(b, typ) =
                 IF DatePossible(y, m, d) /\ off \in Accepted /\ Len(z) = 5 + name THEN Stamp(y, m, d, off) ELSE Fail
            BY ONLY <2>2, <2>3, <3>1, z \in Seq(Byte)
        <3> QED BY ONLY <2>1, <2>4, <3>2
    <2>6. ParseOracleTime(Front(b), typ) = Fail
        <3>1. PICK t \in Seq(Byte) : t = Front(z)
            BY <2>1, <2>4, FrontOf DEF Alike
        <3>2. Front(b) = p \o t /\ Len(t) = 4 + name /\ \A i \in 1..(4 + name) : t[i] = z[i]
            <4>1. /\ Front(p \o z) = p \o Front(z)
                  /\ Len(Front(z)) = 4 + name
                  /\ \A i \in 1..(4 + name) : Front(z)[i] = z[i]
                <5>1. Alike(Front(p \o z), p, Front(z), 4 + name, z, 4 + name, Byte)
                    BY ONLY <2>1, <2>4, FrontOf, p \in Seq(Byte), z \in Seq(Byte)
                <5> QED BY ONLY <5>1 DEF Alike
            <4> QED BY ONLY <2>2, <3>1, <4>1
        <3>3. ParseOracleTime(Front(b), typ) =
                 IF DatePossible(y, m, d) /\ off \in Accepted /\ Len(t) = 5 + name THEN Stamp(y, m, d, off) ELSE Fail
            BY ONLY <2>3, <2>4, <3>2, t \in Seq(Byte)
        <3> QED BY ONLY <2>4, <3>2, <3>3
    <2>7. ParseOracleTime(Append(b, 0), typ) = Fail
        <3>0. /\ Append(p \o z, 0) = p \o Append(z, 0)
              /\ Append(z, 0) \in Seq(Byte) /\ Len(Append(z, 0)) = ((4 + name) + 1) + 1
              /\ \A i \in 1..((4 + name) + 1) : Append(z, 0)[i] = z[i]
            <4>1. Alike(Append(p \o z, 0), p, Append(z, 0), ((4 + name) + 1) + 1, z, (4 + name) + 1, Byte)
                BY ONLY <1>0, <2>1, <2>4, AppendOf, p \in Seq(Byte), z \in Seq(Byte)
            <4> QED BY ONLY <4>1 DEF Alike
        <3>1. PICK t \in Seq(Byte) : t = Append(z, 0)
            BY ONLY <3>0, Zenon
        <3>2. Append(b, 0) = p \o t /\ Len(t) = ((4 + name) + 1) + 1 /\ \A i \in 1..((4 + name) + 1) : t[i] = z[i]
            BY ONLY <2>2, <3>0, <3>1
        <3>3. \A i \in 1..(4 + name) : t[i] = z[i]
            BY ONLY <1>0, <3>2
        <3>4. ParseOracleTime(Append(b, 0), typ) =
                 IF DatePossible(y, m, d) /\ off \in Accepted /\ Len(t) = 5 + name THEN Stamp(y, m, d, off) ELSE Fail
            BY ONLY <2>3, <2>4, <3>2, <3>3, t \in Seq(Byte)
        <3> QED BY ONLY <2>4, <3>2, <3>4
    <2> QED BY ONLY <2>5, <2>6, <2>7 DEF StampDecoded
<1> QED BY <1>2, <1>3

(***************************************************************************)
(* Local times, in zones with any number m of changes.                     *)
(***************************************************************************)
ZoneOK(zone, m) ==
    /\ m \in Nat
    /\ DOMAIN zone.cuts = 1..m /\ DOMAIN zone.offs = 1..(m + 1)
    /\ \A i \in 1..m : zone.cuts[i] \in Int
    /\ \A i \in 1..(m + 1) : zone.offs[i] \in Int
    /\ \A i, j \in 1..m : i < j => zone.cuts[i] < zone.cuts[j]

\* Instant t is in interval k.
Within(zone, m, k, t) ==
    /\ k \in 1..(m + 1)
    /\ \A i \in 1..m : i < k => zone.cuts[i] <= t
    /\ \A i \in 1..m : k <= i => t < zone.cuts[i]

LEMMA IntervalIs ==
    ASSUME NEW zone, NEW m, ZoneOK(zone, m), NEW t \in Int
    PROVE  Within(zone, m, Interval(zone, t), t)
<1>1. /\ m \in Nat
      /\ DOMAIN zone.cuts = 1..m
      /\ \A i \in 1..m : zone.cuts[i] \in Int
      /\ \A i, j \in 1..m : i < j => zone.cuts[i] < zone.cuts[j]
    BY DEF ZoneOK
<1> DEFINE U == {i \in Nat : i >= 1 /\ (i <= m => t < zone.cuts[i])}
<1>2. m + 1 \in U
    BY <1>1
<1>3. PICK k \in U : \A j \in U : ~(<<j, k>> \in OpToRel(<, Nat))
    <2>1. U \subseteq Nat /\ U # {}
        BY <1>2
    <2> HIDE DEF U
    <2> QED BY <2>1, NatLessThanWellFounded, WFMin
<1>4. \A j \in U : ~(j < k)
    BY <1>3 DEF OpToRel
<1>5. k \in Nat /\ k >= 1 /\ k <= m + 1
    BY <1>1, <1>2, <1>4
<1>6. ASSUME NEW i \in 1..m, i < k PROVE zone.cuts[i] <= t
    BY <1>1, <1>4, <1>5, <1>6
<1>7. ASSUME NEW i \in 1..m, k <= i PROVE t < zone.cuts[i]
    <2>1. k \in 1..m /\ t < zone.cuts[k]
        BY <1>1, <1>5, <1>7
    <2>2. zone.cuts[k] <= zone.cuts[i]
        <3>1. CASE k = i
            BY <1>1, <2>1, <3>1
        <3>2. CASE k < i
            BY <1>1, <2>1, <3>2
        <3> QED BY <1>5, <1>7, <3>1, <3>2
    <2> QED BY <1>1, <2>1, <2>2
<1>8. {i \in DOMAIN zone.cuts : zone.cuts[i] <= t} = 1..(k - 1)
    BY <1>1, <1>5, <1>6, <1>7
<1>9. Cardinality(1..(k - 1)) = k - 1
    BY <1>5, FS_Interval
<1>10. Interval(zone, t) = k
    <2>1. Interval(zone, t) = 1 + (k - 1)
        BY <1>8, <1>9 DEF Interval
    <2> QED BY <1>5, <2>1
<1> QED BY <1>1, <1>5, <1>6, <1>7, <1>10 DEF Within

\* Instants that are close are in the same interval or in neighbouring ones.
LEMMA Near ==
    ASSUME NEW zone, NEW m, ZoneOK(zone, m), NEW t \in Int, NEW u \in Int, NEW k, NEW l,
           Within(zone, m, k, t), Within(zone, m, l, u),
           \A i \in 1..m : i + 1 \in 1..m => u - t <= zone.cuts[i + 1] - zone.cuts[i]
    PROVE  l <= k + 1
<1>1. m \in Nat /\ (\A i \in 1..m : zone.cuts[i] \in Int) /\ k \in 1..(m + 1) /\ l \in 1..(m + 1)
    BY DEF ZoneOK, Within
<1> SUFFICES ASSUME l > k + 1 PROVE FALSE
    BY <1>1
<1>2. k \in 1..m /\ k + 1 \in 1..m /\ k + 1 < l /\ k <= k
    BY <1>1
<1>3. t < zone.cuts[k] /\ zone.cuts[k + 1] <= u
    BY <1>2 DEF Within
<1> QED BY <1>1, <1>2, <1>3

\* What Steady says of a zone with m changes.
LEMMA SteadyGaps ==
    ASSUME NEW zone, NEW m, ZoneOK(zone, m), Steady(zone),
           NEW i \in 1..m, i + 1 \in 1..m, NEW j \in 1..(m + 1), NEW k \in 1..(m + 1)
    PROVE  /\ zone.offs[j] <= zone.cuts[i + 1] - zone.cuts[i]
           /\ -zone.offs[j] <= zone.cuts[i + 1] - zone.cuts[i]
           /\ zone.offs[j] - zone.offs[k] <= zone.cuts[i + 1] - zone.cuts[i]
<1>1. /\ zone.cuts[i] \in Int /\ zone.cuts[i + 1] \in Int /\ zone.offs[j] \in Int
      /\ i \in DOMAIN zone.cuts /\ i + 1 \in DOMAIN zone.cuts /\ j \in DOMAIN zone.offs /\ k \in DOMAIN zone.offs
    BY DEF ZoneOK
<1>2. /\ Abs(zone.offs[j]) <= zone.cuts[i + 1] - zone.cuts[i]
      /\ zone.offs[j] - zone.offs[k] <= zone.cuts[i + 1] - zone.cuts[i]
    BY <1>1 DEF Steady
<1> QED BY <1>1, <1>2 DEF Abs

\* Instant t of interval k has this wall clock.
Instant(zone, m, t, k, wall) == t \in Int /\ Within(zone, m, k, t) /\ t + zone.offs[k] = wall

\* Two instants with the same wall clock are in neighbouring intervals.
LEMMA SameWall ==
    ASSUME NEW zone, NEW m, ZoneOK(zone, m), Steady(zone), NEW wall \in Int,
           NEW t, NEW k, Instant(zone, m, t, k, wall), NEW u \in Int, NEW l, Within(zone, m, l, u),
           NEW o \in 1..(m + 1), u = wall - zone.offs[o]
    PROVE  l <= k + 1 /\ k <= l + 1
<1>1. m \in Nat /\ t \in Int /\ k \in 1..(m + 1) /\ t + zone.offs[k] = wall /\ Within(zone, m, k, t)
    BY DEF ZoneOK, Instant, Within
<1>2. zone.offs[k] \in Int /\ zone.offs[o] \in Int
    BY <1>1 DEF ZoneOK
<1>3. u - t = zone.offs[k] - zone.offs[o] /\ t - u = zone.offs[o] - zone.offs[k]
    BY <1>1, <1>2
<1>4. ASSUME NEW i \in 1..m, i + 1 \in 1..m
      PROVE  u - t <= zone.cuts[i + 1] - zone.cuts[i] /\ t - u <= zone.cuts[i + 1] - zone.cuts[i]
    BY <1>1, <1>3, <1>4, SteadyGaps
<1> QED BY <1>1, <1>4, Near

\* The instants with this wall clock, all of them.
Instants(zone, wall) == {t \in Int : Wall(zone, t) = wall}

LEMMA InstantIs ==
    ASSUME NEW zone, NEW m, ZoneOK(zone, m), NEW wall \in Int, NEW t \in Int
    PROVE  /\ Within(zone, m, Interval(zone, t), t)
           /\ Interval(zone, t) \in 1..(m + 1)
           /\ t \in Instants(zone, wall) <=> Instant(zone, m, t, Interval(zone, t), wall)
           /\ t \in Instants(zone, wall) <=> t = wall - zone.offs[Interval(zone, t)]
<1>1. Within(zone, m, Interval(zone, t), t)
    BY IntervalIs
<1>2. Interval(zone, t) \in 1..(m + 1)
    BY <1>1 DEF Within
<1>3. zone.offs[Interval(zone, t)] \in Int
    BY <1>2 DEF ZoneOK
<1>4. t \in Instants(zone, wall) <=> t + zone.offs[Interval(zone, t)] = wall
    BY DEF Instants, Wall, OffsetAt
<1> QED BY <1>1, <1>2, <1>3, <1>4 DEF Instant

\* If the candidate has the wall clock, its neighbours' offsets yield all instants that have it.
LEMMA AllMatches ==
    ASSUME NEW zone, NEW m, ZoneOK(zone, m), Steady(zone), NEW wall \in Int, NEW cand \in Int,
           cand \in Instants(zone, wall), NEW offsets,
           offsets = {zone.offs[i] : i \in Neighbours(zone, Interval(zone, cand))}
    PROVE  {t \in {wall - o : o \in offsets} : Wall(zone, t) = wall} = Instants(zone, wall)
<1>1. PICK c : c = Interval(zone, cand)
    OBVIOUS
<1>2. c \in 1..(m + 1) /\ m \in Nat /\ Instant(zone, m, cand, c, wall)
    BY <1>1, InstantIs DEF ZoneOK
<1>3. Neighbours(zone, c) = {c - 1, c, c + 1} \cap 1..(m + 1)
    BY DEF Neighbours, ZoneOK
<1>4. ASSUME NEW t \in Instants(zone, wall) PROVE t \in {wall - o : o \in offsets}
    <2>0. t \in Int
        BY DEF Instants
    <2>1. PICK k : k = Interval(zone, t)
        OBVIOUS
    <2>2. k \in 1..(m + 1) /\ Within(zone, m, k, t) /\ t = wall - zone.offs[k]
        BY <2>0, <2>1, InstantIs
    <2>3. k <= c + 1 /\ c <= k + 1
        BY <1>2, <2>0, <2>2, SameWall
    <2>4. k \in Neighbours(zone, c)
        BY <1>2, <1>3, <2>2, <2>3
    <2> QED BY <1>1, <2>2, <2>4
<1>5. ASSUME NEW o \in offsets PROVE wall - o \in Int
    <2>1. PICK i \in Neighbours(zone, c) : o = zone.offs[i]
        BY <1>1
    <2>2. zone.offs[i] \in Int
        BY <1>3 DEF ZoneOK
    <2> QED BY <2>1, <2>2
<1> QED BY <1>4, <1>5 DEF Instants

\* The candidate of time.Date is the instant, if there is only one.
LEMMA CandidateIs ==
    ASSUME NEW zone, NEW m, ZoneOK(zone, m), Steady(zone), NEW wall \in Int, NEW t, Instants(zone, wall) = {t}
    PROVE  GoDate(zone, wall) = t
<1>1. t \in Int /\ t \in Instants(zone, wall) /\ m \in Nat
    BY DEF Instants, ZoneOK
<1>2. PICK k : k = Interval(zone, t) /\ Instant(zone, m, t, k, wall) /\ k \in 1..(m + 1) /\ t = wall - zone.offs[k]
          /\ Within(zone, m, k, t)
    BY <1>1, InstantIs
<1>3. PICK i : i = Interval(zone, wall) /\ Within(zone, m, i, wall) /\ i \in 1..(m + 1)
    BY InstantIs
<1>4. /\ zone.offs[k] \in Int /\ zone.offs[i] \in Int
      /\ \A x \in 1..m : zone.cuts[x] \in Int
    BY <1>2, <1>3 DEF ZoneOK
<1>5. PICK u \in Int : u = wall - zone.offs[i]
    BY <1>4
<1>6. PICK j : j = Interval(zone, u) /\ Within(zone, m, j, u) /\ j \in 1..(m + 1)
    BY InstantIs
<1>7. GoDate(zone, wall) = IF j = i THEN u ELSE wall - zone.offs[j]
    BY <1>3, <1>5, <1>6 DEF GoDate, OffsetAt
<1>8. CASE j = k \/ i = k
    <2>1. i = k => u = t /\ j = k
        BY <1>2, <1>5, <1>6
    <2> QED BY <1>2, <1>5, <1>7, <1>8, <2>1
<1>9. CASE j # k /\ i # k
    <2>1. j <= k + 1 /\ k <= j + 1
        BY <1>2, <1>3, <1>5, <1>6, SameWall
    <2>2. ASSUME NEW x \in 1..m, x + 1 \in 1..m
          PROVE  wall - t <= zone.cuts[x + 1] - zone.cuts[x] /\ t - wall <= zone.cuts[x + 1] - zone.cuts[x]
        <3>1. /\ zone.offs[k] <= zone.cuts[x + 1] - zone.cuts[x]
              /\ -zone.offs[k] <= zone.cuts[x + 1] - zone.cuts[x]
            BY <1>2, <2>2, SteadyGaps
        <3>2. wall - t = zone.offs[k] /\ t - wall = -zone.offs[k]
            BY <1>1, <1>2, <1>4
        <3> QED BY <3>1, <3>2
    <2>3. i <= k + 1 /\ k <= i + 1
        BY <1>1, <1>2, <1>3, <2>2, Near
    <2>4. CASE j = i
        <3>1. u = wall - zone.offs[j]
            BY <1>5, <2>4
        <3>2. u \in Instants(zone, wall)
            BY <1>6, <3>1, InstantIs
        <3>3. u = t
            BY <3>2
        <3> QED BY <1>2, <1>6, <1>9, <3>3
    <2>5. CASE j = k + 1 /\ i + 1 = k
        <3>1. k \in 1..m /\ i \in 1..m /\ i + 1 \in 1..m
            BY <1>1, <1>2, <1>3, <1>6, <2>5
        <3>2. zone.cuts[k] <= u /\ wall < zone.cuts[i]
            BY <1>2, <1>3, <1>6, <2>5, <3>1 DEF Within
        <3>3. -zone.offs[i] <= zone.cuts[i + 1] - zone.cuts[i]
            BY <1>3, <3>1, SteadyGaps
        <3> QED BY <1>4, <1>5, <2>5, <3>1, <3>2, <3>3
    <2>6. CASE j + 1 = k /\ i = k + 1
        <3>1. k \in 1..m /\ j \in 1..m /\ j + 1 \in 1..m
            BY <1>1, <1>2, <1>3, <1>6, <2>6
        <3>2. u < zone.cuts[j] /\ zone.cuts[k] <= wall
            BY <1>2, <1>3, <1>6, <2>6, <3>1 DEF Within
        <3>3. zone.offs[i] <= zone.cuts[j + 1] - zone.cuts[j]
            BY <1>3, <3>1, SteadyGaps
        <3> QED BY <1>4, <1>5, <2>6, <3>1, <3>2, <3>3
    <2> QED BY <1>2, <1>3, <1>6, <1>9, <2>1, <2>3, <2>4, <2>5, <2>6
<1> QED BY <1>8, <1>9

LEMMA InstantsFinite ==
    ASSUME NEW zone, NEW m, ZoneOK(zone, m), Steady(zone), NEW wall \in Int, NEW cand \in Instants(zone, wall)
    PROVE  IsFiniteSet(Instants(zone, wall))
<1>1. cand \in Int /\ m \in Nat
    BY DEF Instants, ZoneOK
<1>2. PICK c \in 1..(m + 1) : Instant(zone, m, cand, c, wall)
    BY <1>1, InstantIs
<1> DEFINE F == ({wall - zone.offs[c - 1]} \cup {wall - zone.offs[c]}) \cup {wall - zone.offs[c + 1]}
<1>3. IsFiniteSet(F)
    <2>1. PICK x, y, z : F = ({x} \cup {y}) \cup {z}
        OBVIOUS
    <2>2. IsFiniteSet({x})
        BY FS_Singleton
    <2>3. IsFiniteSet({x} \cup {y})
        BY <2>2, FS_AddElement
    <2>4. IsFiniteSet(({x} \cup {y}) \cup {z})
        BY <2>3, FS_AddElement
    <2> QED BY ONLY <2>1, <2>4
<1>4. ASSUME NEW t \in Instants(zone, wall) PROVE t \in F
    <2>0. t \in Int
        BY DEF Instants
    <2>1. PICK k \in 1..(m + 1) : Within(zone, m, k, t) /\ t = wall - zone.offs[k]
        BY <2>0, InstantIs
    <2>2. k <= c + 1 /\ c <= k + 1
        BY <1>2, <2>0, <2>1, SameWall
    <2>3. k = c - 1 \/ k = c \/ k = c + 1
        BY <2>2
    <2> QED BY <2>1, <2>3
<1> HIDE DEF F
<1> QED BY <1>3, <1>4, FS_Subset

\* In a steady zone a wall clock that names one instant is decoded to it, and one that names
\* none or several is refused.
THEOREM LocalTimes ==
    ASSUME NEW zone, NEW m, ZoneOK(zone, m), Steady(zone), NEW wall \in Int
    PROVE  /\ \A t : Instants(zone, wall) = {t} => OracleTimeInLocation(zone, wall) = [ok |-> TRUE, t |-> t]
           /\ (\A t : Instants(zone, wall) # {t}) => OracleTimeInLocation(zone, wall) = Fail
<1> DEFINE I == Instants(zone, wall)
           cand == GoDate(zone, wall)
           offsets == {zone.offs[i] : i \in Neighbours(zone, Interval(zone, cand))}
           matches == {t \in {wall - o : o \in offsets} : Wall(zone, t) = wall}
<1>1. OracleTimeInLocation(zone, wall) = IF Wall(zone, cand) # wall THEN Fail
                                         ELSE IF Cardinality(matches) # 1 THEN Fail
                                         ELSE [ok |-> TRUE, t |-> CHOOSE t \in matches : TRUE]
    BY DEF OracleTimeInLocation
<1>2. cand \in Int
    <2>1. PICK i : i = Interval(zone, wall) /\ i \in 1..(m + 1)
        BY InstantIs
    <2>2. PICK u \in Int : u = wall - zone.offs[i]
        BY <2>1 DEF ZoneOK
    <2>3. PICK j : j = Interval(zone, u) /\ j \in 1..(m + 1)
        BY InstantIs
    <2>4. cand = IF j = i THEN u ELSE wall - zone.offs[j]
        BY <2>1, <2>2, <2>3 DEF GoDate, OffsetAt
    <2>5. zone.offs[j] \in Int
        BY <2>3 DEF ZoneOK
    <2> QED BY <2>4, <2>5
<1>3. Wall(zone, cand) = wall <=> cand \in I
    BY <1>2 DEF Instants
<1>4. ASSUME cand \in I PROVE matches = I /\ IsFiniteSet(I)
    <2>1. matches = I
        BY <1>2, <1>4, AllMatches
    <2> QED BY <1>4, <2>1, InstantsFinite
<1> HIDE DEF cand, matches, I
<1>5. ASSUME NEW t, I = {t} PROVE OracleTimeInLocation(zone, wall) = [ok |-> TRUE, t |-> t]
    <2>1. cand = t
        BY <1>5, CandidateIs DEF I, cand
    <2>2. cand \in I
        BY <1>5, <2>1
    <2>3. matches = {t} /\ Cardinality(matches) = 1
        BY <1>4, <1>5, <2>2, FS_Singleton
    <2>4. (CHOOSE x \in matches : TRUE) = t
        BY <2>3
    <2> QED BY <1>1, <1>3, <2>2, <2>3, <2>4
<1>6. ASSUME \A t : I # {t} PROVE OracleTimeInLocation(zone, wall) = Fail
    <2>1. CASE cand \notin I
        BY <1>1, <1>3, <2>1
    <2>2. CASE cand \in I
        <3>1. Cardinality(matches) # 1
            BY <1>4, <1>6, <2>2, FS_Singleton
        <3> QED BY <1>1, <3>1
    <2> QED BY <2>1, <2>2
<1> QED BY <1>5, <1>6 DEF I

(***************************************************************************)
(* Bitmaps of NULLs.                                                       *)
(***************************************************************************)
LEMMA Powers ==
    /\ 2 ^ 0 = 1 /\ 2 ^ 1 = 2 /\ 2 ^ 2 = 4 /\ 2 ^ 3 = 8
    /\ 2 ^ 4 = 16 /\ 2 ^ 5 = 32 /\ 2 ^ 6 = 64 /\ 2 ^ 7 = 128
OBVIOUS

LEMMA BitIs ==
    ASSUME NEW a \in Nat
    PROVE  /\ (Bit(a, 0) <=> a % 2 = 1) /\ (Bit(a, 1) <=> (a \div 2) % 2 = 1)
           /\ (Bit(a, 2) <=> (a \div 4) % 2 = 1) /\ (Bit(a, 3) <=> (a \div 8) % 2 = 1)
           /\ (Bit(a, 4) <=> (a \div 16) % 2 = 1) /\ (Bit(a, 5) <=> (a \div 32) % 2 = 1)
           /\ (Bit(a, 6) <=> (a \div 64) % 2 = 1) /\ (Bit(a, 7) <=> (a \div 128) % 2 = 1)
BY Powers DEF Bit

\* Setting bit j of a number without bits from j on.
LEMMA BitAdded ==
    ASSUME NEW j \in 0..7, NEW a \in Nat, a < 2 ^ j, NEW k \in 0..7
    PROVE  Bit(a + 2 ^ j, k) <=> k = j \/ (k < j /\ Bit(a, k))
<1>1. k = 0 \/ k = 1 \/ k = 2 \/ k = 3 \/ k = 4 \/ k = 5 \/ k = 6 \/ k = 7
    OBVIOUS
<1>2. CASE j = 0
    <2>1. 2 ^ j = 1 /\ a < 1 /\ a + 1 \in Nat
        BY <1>2, Powers
    <2> QED BY ONLY <1>1, <1>2, <2>1, BitIs, a \in Nat
<1>3. CASE j = 1
    <2>1. 2 ^ j = 2 /\ a < 2 /\ a + 2 \in Nat
        BY <1>3, Powers
    <2> QED BY ONLY <1>1, <1>3, <2>1, BitIs, a \in Nat
<1>4. CASE j = 2
    <2>1. 2 ^ j = 4 /\ a < 4 /\ a + 4 \in Nat
        BY <1>4, Powers
    <2> QED BY ONLY <1>1, <1>4, <2>1, BitIs, a \in Nat
<1>5. CASE j = 3
    <2>1. 2 ^ j = 8 /\ a < 8 /\ a + 8 \in Nat
        BY <1>5, Powers
    <2> QED BY ONLY <1>1, <1>5, <2>1, BitIs, a \in Nat
<1>6. CASE j = 4
    <2>1. 2 ^ j = 16 /\ a < 16 /\ a + 16 \in Nat
        BY <1>6, Powers
    <2> QED BY ONLY <1>1, <1>6, <2>1, BitIs, a \in Nat
<1>7. CASE j = 5
    <2>1. 2 ^ j = 32 /\ a < 32 /\ a + 32 \in Nat
        BY <1>7, Powers
    <2> QED BY ONLY <1>1, <1>7, <2>1, BitIs, a \in Nat
<1>8. CASE j = 6
    <2>1. 2 ^ j = 64 /\ a < 64 /\ a + 64 \in Nat
        BY <1>8, Powers
    <2> QED BY ONLY <1>1, <1>8, <2>1, BitIs, a \in Nat
<1>9. CASE j = 7
    <2>1. 2 ^ j = 128 /\ a < 128 /\ a + 128 \in Nat
        BY <1>9, Powers
    <2> QED BY ONLY <1>1, <1>9, <2>1, BitIs, a \in Nat
<1> QED BY <1>2, <1>3, <1>4, <1>5, <1>6, <1>7, <1>8, <1>9

LEMMA Doubling ==
    ASSUME NEW e \in 0..7
    PROVE  2 ^ e \in Nat /\ 2 ^ e > 0 /\ 2 * 2 ^ e <= 256 /\ \A j \in 0..7 : e < j => 2 * 2 ^ e <= 2 ^ j
<1>1. \A j \in 0..7 : j = 0 \/ j = 1 \/ j = 2 \/ j = 3 \/ j = 4 \/ j = 5 \/ j = 6 \/ j = 7
    OBVIOUS
<1>2. CASE e = 0
    <2>1. 2 ^ e = 1
        BY <1>2, Powers
    <2> QED BY ONLY <1>1, <1>2, <2>1, Powers
<1>3. CASE e = 1
    <2>1. 2 ^ e = 2
        BY <1>3, Powers
    <2> QED BY ONLY <1>1, <1>3, <2>1, Powers
<1>4. CASE e = 2
    <2>1. 2 ^ e = 4
        BY <1>4, Powers
    <2> QED BY ONLY <1>1, <1>4, <2>1, Powers
<1>5. CASE e = 3
    <2>1. 2 ^ e = 8
        BY <1>5, Powers
    <2> QED BY ONLY <1>1, <1>5, <2>1, Powers
<1>6. CASE e = 4
    <2>1. 2 ^ e = 16
        BY <1>6, Powers
    <2> QED BY ONLY <1>1, <1>6, <2>1, Powers
<1>7. CASE e = 5
    <2>1. 2 ^ e = 32
        BY <1>7, Powers
    <2> QED BY ONLY <1>1, <1>7, <2>1, Powers
<1>8. CASE e = 6
    <2>1. 2 ^ e = 64
        BY <1>8, Powers
    <2> QED BY ONLY <1>1, <1>8, <2>1, Powers
<1>9. CASE e = 7
    <2>1. 2 ^ e = 128
        BY <1>9, Powers
    <2> QED BY ONLY <1>1, <1>9, <2>1, Powers
<1> QED BY <1>1, <1>2, <1>3, <1>4, <1>5, <1>6, <1>7, <1>8, <1>9

\* The steps to byte b.
NullByte(r, vals, first, b, n) ==
    /\ r[0] = 0
    /\ \A i \in 1..n : r[i] = NullBits(r[i - 1], vals, first, b, i)

HasBits(byte, vals, first, b, n) ==
    /\ byte \in Byte
    /\ \A k \in 0..7 : Bit(byte, k) <=> \E x \in 1..n : vals[x] = Null /\ x - 1 + first = 8 * (b - 1) + k

LEMMA PlaceIs ==
    ASSUME NEW p \in Nat, NEW b \in Nat, b >= 1
    PROVE  /\ p % 8 \in 0..7 /\ p \div 8 \in Nat /\ p = 8 * (p \div 8) + (p % 8)
           /\ \A k \in 0..7 : p = 8 * (b - 1) + k <=> p \div 8 = b - 1 /\ p % 8 = k
OBVIOUS

LEMMA NullByteIs ==
    ASSUME NEW n \in Nat, NEW vals, NEW first \in Nat, NEW b \in Nat, b >= 1, NEW r, NullByte(r, vals, first, b, n)
    PROVE  HasBits(r[n], vals, first, b, n)
<1> DEFINE Seen(i, k) == \E x \in 1..i : vals[x] = Null /\ x - 1 + first = 8 * (b - 1) + k
           Small(i) == /\ r[i] \in Nat /\ r[i] < 256
                       /\ \A j \in 0..7 : i - 1 + first < 8 * (b - 1) + j => r[i] < 2 ^ j
           Right(i) == Small(i) /\ \A k \in 0..7 : Bit(r[i], k) <=> Seen(i, k)
           T == {i \in Nat : i <= n => Right(i)}
<1>1. Right(0)
    <2>1. r[0] = 0
        BY DEF NullByte
    <2>2. \A k \in 0..7 : ~Seen(0, k)
        OBVIOUS
    <2>3. \A k \in 0..7 : ~Bit(0, k)
        <3>1. \A k \in 0..7 : k = 0 \/ k = 1 \/ k = 2 \/ k = 3 \/ k = 4 \/ k = 5 \/ k = 6 \/ k = 7
            OBVIOUS
        <3> QED BY ONLY <3>1, BitIs
    <2>4. \A j \in 0..7 : 0 < 2 ^ j
        BY Doubling
    <2> QED BY <2>1, <2>2, <2>3, <2>4
<1>2. ASSUME NEW i \in 1..n, Right(i - 1) PROVE Right(i)
    <2>1. PICK a \in Nat : a = r[i - 1] /\ a < 256
        BY <1>2
    <2>2. PICK p \in Nat : p = i - 1 + first
        OBVIOUS
    <2>3. r[i] = IF vals[i] = Null /\ p \div 8 = b - 1 THEN a + 2 ^ (p % 8) ELSE a
        BY <2>1, <2>2 DEF NullByte, NullBits
    <2>4. \A j \in 0..7 : p <= 8 * (b - 1) + j => a < 2 ^ j
        <3> TAKE j \in 0..7
        <3>1. (i - 1) - 1 + first < 8 * (b - 1) + j => a < 2 ^ j
            BY <1>2, <2>1
        <3>2. p <= 8 * (b - 1) + j => (i - 1) - 1 + first < 8 * (b - 1) + j
            BY ONLY <2>2, i \in 1..n, n \in Nat, first \in Nat, b \in Nat, p \in Nat, j \in 0..7
        <3> QED BY <3>1, <3>2
    <2>5. ASSUME NEW k \in 0..7
          PROVE  Seen(i, k) <=> Seen(i - 1, k) \/ (vals[i] = Null /\ p = 8 * (b - 1) + k)
        <3>1. \A x \in 1..i : x = i \/ x \in 1..(i - 1)
            OBVIOUS
        <3>2. \A x \in 1..(i - 1) : x \in 1..i
            OBVIOUS
        <3> QED BY <2>2, <3>1, <3>2
    <2>6. \A k \in 0..7 : Bit(a, k) <=> Seen(i - 1, k)
        BY <1>2, <2>1
    <2> HIDE DEF Seen
    <2>7. PICK e \in 0..7 : /\ e = p % 8
                            /\ \A k \in 0..7 : p = 8 * (b - 1) + k <=> p \div 8 = b - 1 /\ e = k
        BY PlaceIs
    <2>8. CASE vals[i] = Null /\ p \div 8 = b - 1
        <3>1. p = 8 * (b - 1) + e /\ r[i] = a + 2 ^ e
            BY <2>3, <2>7, <2>8
        <3>2. a < 2 ^ e
            <4>1. p <= 8 * (b - 1) + e
                BY ONLY <3>1, p \in Nat, b \in Nat, e \in 0..7
            <4> QED BY ONLY <2>4, <4>1, e \in 0..7
        <3>3. \A k \in 0..7 : Bit(a + 2 ^ e, k) <=> k = e \/ (k < e /\ Bit(a, k))
            BY <3>2, BitAdded
        <3>4. \A k \in 0..7 : k > e => ~Bit(a, k)
            <4>1. ASSUME NEW k \in 0..7, k > e, Bit(a, k) PROVE FALSE
                <5>1. PICK x \in 1..(i - 1) : x - 1 + first = 8 * (b - 1) + k
                    BY <2>6, <4>1 DEF Seen
                <5> QED BY ONLY <5>1, <2>2, <3>1, <4>1, i \in 1..n, n \in Nat, first \in Nat, b \in Nat, p \in Nat, e \in 0..7
            <4> QED BY <4>1
        <3>5. ASSUME NEW k \in 0..7 PROVE Bit(r[i], k) <=> Seen(i, k)
            <4>1. k = e \/ k < e \/ k > e
                OBVIOUS
            <4>2. vals[i] = Null /\ p = 8 * (b - 1) + k <=> k = e
                BY <2>7, <2>8
            <4> QED BY ONLY <2>5, <2>6, <3>1, <3>3, <3>4, <4>1, <4>2, k \in 0..7
        <3>6. Small(i)
            <4>1. 2 ^ e \in Nat /\ 2 * 2 ^ e <= 256 /\ \A j \in 0..7 : e < j => 2 * 2 ^ e <= 2 ^ j
                BY Doubling
            <4>2. r[i] \in Nat /\ r[i] < 2 * 2 ^ e
                BY ONLY <3>1, <3>2, <4>1, a \in Nat
            <4>3. ASSUME NEW j \in 0..7, i - 1 + first < 8 * (b - 1) + j PROVE r[i] < 2 ^ j
                <5>1. e < j
                    BY ONLY <2>2, <3>1, <4>3, p \in Nat, b \in Nat, e \in 0..7, j \in 0..7
                <5>2. 2 ^ j \in Nat /\ 2 * 2 ^ e <= 2 ^ j
                    BY <4>1, <5>1, Doubling
                <5> QED BY ONLY <4>1, <4>2, <5>2
            <4> QED BY <4>1, <4>2, <4>3
        <3> QED BY <3>5, <3>6
    <2>9. CASE ~(vals[i] = Null /\ p \div 8 = b - 1)
        <3>1. r[i] = a
            BY <2>3, <2>9
        <3>2. ASSUME NEW k \in 0..7 PROVE Bit(r[i], k) <=> Seen(i, k)
            BY <2>5, <2>6, <2>7, <2>9, <3>1
        <3>3. Small(i)
            BY <2>1, <2>2, <2>4, <3>1
        <3> QED BY <3>2, <3>3
    <2> QED BY <2>8, <2>9
<1> HIDE DEF Right
<1>3. Nat \subseteq T
    <2>1. 0 \in T
        BY <1>1
    <2>2. ASSUME NEW i \in T PROVE i + 1 \in T
        <3>1. i + 1 <= n => i + 1 \in 1..n /\ (i + 1) - 1 = i /\ Right(i)
            OBVIOUS
        <3> QED BY <3>1, <1>2
    <2> HIDE DEF T
    <2>3. T \subseteq Nat
        BY DEF T
    <2> QED BY <2>1, <2>2, <2>3, NatSets
<1>4. Right(n)
    BY <1>3
<1> QED BY <1>4 DEF Right, Byte, HasBits

(***************************************************************************)
(* Values of binary rows.                                                  *)
(***************************************************************************)
\* What w bytes hold as a signed number.
Fits(n, w) == n \in Int /\ 2 * n < Limit(w) /\ 0 <= 2 * n + Limit(w)
ClockTime(y, m, d, hour, minute, second) ==
    [kind |-> "time", date |-> <<y, m, d>>, clock |-> <<hour, minute, second>>, nsec |-> 0]
ClockTimes == {ClockTime(y, m, d, hour, minute, second) :
                  y \in {x \in Nat : x < Limit(2)}, m \in Byte, d \in Byte, hour \in Byte, minute \in Byte, second \in Byte}
IntegerTypes == {"tiny", "short", "long", "longlong"}
RowTypes == IntegerTypes \cup {"datetime", "varstring"}
\* The values of a type, but for NULL.
BinaryValues(typ) ==
    IF typ \in IntegerTypes THEN {Integer(n) : n \in {x \in Int : Fits(x, Widths[typ])}}
    ELSE IF typ = "datetime" THEN ClockTimes
    ELSE {String(s) : s \in Texts}

LEMMA WidthsAre ==
    /\ DOMAIN Widths = IntegerTypes
    /\ \A typ \in IntegerTypes : Widths[typ] \in {1, 2, 4, 8}
BY DEF Widths, IntegerTypes

\* A piece is read as v whatever follows it, and refused when it is cut.
ReadAs(piece, typ, v) ==
    /\ piece \in Seq(Byte) /\ v # Null
    /\ \A rest \in Seq(Byte) : ParseBinaryValue(piece \o rest, typ) = [ok |-> TRUE, v |-> v, used |-> Len(piece)]
    /\ \A cut : CutOf(cut, piece) => ~ParseBinaryValue(cut, typ).ok

LEMMA IntegerReads ==
    ASSUME NEW typ \in IntegerTypes, NEW n, Fits(n, Widths[typ])
    PROVE  ReadAs(LE(n, Widths[typ]), typ, Integer(n))
<1>1. PICK w \in {1, 2, 4, 8} : w = Widths[typ]
    BY WidthsAre
<1>2. typ \in DOMAIN Widths
    BY WidthsAre
<1>3. n \in Int /\ w \in Nat
    BY DEF Fits
<1>4. PICK b \in Seq(Byte) : b = LE(n, w) /\ Len(b) = w
    BY <1>3, LEType
<1>5. Signed(b) = n
    BY <1>1, <1>4, SignedOfLE DEF Fits
<1>6. ASSUME NEW rest \in Seq(Byte)
      PROVE  ParseBinaryValue(b \o rest, typ) = [ok |-> TRUE, v |-> Integer(n), used |-> w]
    <2>1. PICK data : data = b \o rest
        OBVIOUS
    <2>2. ~(Len(data) < w) /\ SubSeq(data, 1, w) = b
        BY ONLY <1>4, <2>1, b \in Seq(Byte), rest \in Seq(Byte), w \in {1, 2, 4, 8}
    <2>3. ParseBinaryValue(data, typ) = [ok |-> TRUE, v |-> Integer(n), used |-> w]
        BY ONLY <1>1, <1>2, <1>5, <2>2 DEF ParseBinaryValue
    <2> QED BY ONLY <2>1, <2>3
<1>7. ASSUME NEW cut, CutOf(cut, b) PROVE ~ParseBinaryValue(cut, typ).ok
    <2>1. PICK j \in Nat : j < Len(b) /\ cut = SubSeq(b, 1, j)
        BY <1>7 DEF CutOf
    <2>2. Len(cut) < w
        BY ONLY <1>4, <2>1, b \in Seq(Byte), j \in Nat
    <2>3. ParseBinaryValue(cut, typ) = Fail
        BY ONLY <1>1, <1>2, <2>2 DEF ParseBinaryValue
    <2> QED BY ONLY <2>3 DEF Fail
<1>8. Integer(n) # Null
    BY DEF Integer, Null
<1> QED BY ONLY <1>1, <1>4, <1>6, <1>7, <1>8, b \in Seq(Byte) DEF ReadAs

LEMMA SameSequence ==
    ASSUME NEW S, NEW x \in Seq(S), NEW y \in Seq(S), Len(x) = Len(y), \A i \in 1..Len(x) : x[i] = y[i]
    PROVE  x = y
OBVIOUS

LEMMA CutLater ==
    ASSUME NEW S, NEW b \in Seq(S), NEW s \in Seq(S), NEW j \in Nat, Len(b) <= j, j <= Len(b \o s)
    PROVE  SubSeq(b \o s, 1, j) = b \o SubSeq(s, 1, j - Len(b))
<1>1. PICK l \in Nat, k \in Nat : l = Len(b) /\ k = j - l /\ k <= Len(s)
    OBVIOUS
<1>2. SubSeq(s, 1, k) \in Seq(S)
    BY <1>1
<1>3. PICK t \in Seq(S) : t = SubSeq(s, 1, k)
    BY <1>2
<1>4. Len(t) = k /\ \A i \in 1..k : t[i] = s[i]
    BY <1>1, <1>3
<1>5. PICK y \in Seq(S) : /\ y = b \o t /\ Len(y) = l + k
                          /\ \A i \in 1..l : y[i] = b[i]
                          /\ \A i \in 1..k : y[l + i] = t[i]
    <2>1. b \o t \in Seq(S) /\ Len(b \o t) = l + k
        BY ONLY <1>1, <1>4, b \in Seq(S), t \in Seq(S)
    <2>2. ASSUME NEW i \in 1..l PROVE (b \o t)[i] = b[i]
        BY ONLY <1>1, b \in Seq(S), t \in Seq(S), i \in 1..l
    <2>3. ASSUME NEW i \in 1..k PROVE (b \o t)[l + i] = t[i]
        BY ONLY <1>1, <1>4, b \in Seq(S), t \in Seq(S), i \in 1..k, l \in Nat
    <2> QED BY ONLY <2>1, <2>2, <2>3
<1>6. PICK w \in Seq(S) : /\ w = b \o s /\ j <= Len(w)
                          /\ \A i \in 1..l : w[i] = b[i]
                          /\ \A i \in 1..k : w[l + i] = s[i]
    <2>1. b \o s \in Seq(S) /\ j <= Len(b \o s)
        BY ONLY b \in Seq(S), s \in Seq(S), j <= Len(b \o s)
    <2>2. ASSUME NEW i \in 1..l PROVE (b \o s)[i] = b[i]
        BY ONLY <1>1, b \in Seq(S), s \in Seq(S), i \in 1..l
    <2>3. ASSUME NEW i \in 1..k PROVE (b \o s)[l + i] = s[i]
        BY ONLY <1>1, b \in Seq(S), s \in Seq(S), i \in 1..k, l \in Nat, k \in Nat
    <2> QED BY ONLY <2>1, <2>2, <2>3
<1>7. PICK x \in Seq(S) : x = SubSeq(w, 1, j) /\ Len(x) = j /\ \A i \in 1..j : x[i] = w[i]
    <2>1. SubSeq(w, 1, j) \in Seq(S) /\ Len(SubSeq(w, 1, j)) = j
        BY ONLY <1>6, w \in Seq(S), j \in Nat
    <2>2. \A i \in 1..j : SubSeq(w, 1, j)[i] = w[i]
        BY ONLY <1>6, w \in Seq(S), j \in Nat
    <2> QED BY ONLY <2>1, <2>2
<1>8. ASSUME NEW i \in 1..j PROVE x[i] = y[i]
    <2>1. CASE i \in 1..l
        BY ONLY <1>5, <1>6, <1>7, <2>1, i \in 1..j
    <2>2. CASE i \notin 1..l
        <3>1. PICK h \in 1..k : i = l + h
            <4>1. i - l \in 1..k /\ i = l + (i - l)
                BY ONLY <1>1, <2>2, i \in 1..j, j \in Nat, l \in Nat, k \in Nat
            <4> QED BY ONLY <4>1
        <3>2. w[l + h] = s[h] /\ y[l + h] = t[h] /\ t[h] = s[h]
            BY ONLY <1>4, <1>5, <1>6, h \in 1..k
        <3>3. x[i] = w[i]
            BY ONLY <1>7, i \in 1..j
        <3> QED BY ONLY <3>1, <3>2, <3>3
    <2> QED BY ONLY <2>1, <2>2
<1>9. Len(y) = j
    BY ONLY <1>1, <1>5, j \in Nat, l \in Nat, k \in Nat
<1>10. x = y
    BY ONLY <1>7, <1>8, <1>9, x \in Seq(S), y \in Seq(S), SameSequence
<1> QED BY ONLY <1>1, <1>3, <1>5, <1>6, <1>7, <1>10

\* A string that is cut is refused.
LEMMA StringCutShort ==
    ASSUME NEW s \in Seq(Byte), Len(s) < Limit(8), NEW cut, CutOf(cut, PutLengthEncodedString(s))
    PROVE  ReadLengthEncodedString(cut) = Fail
<1>0. PICK n \in Nat : n = Len(s) /\ n < Limit(8)
    OBVIOUS
<1>1. PICK b \in Seq(Byte) : b = PutLengthEncodedInt(n)
    BY <1>0, LenencShape DEF Shaped, Opens
<1>2. PutLengthEncodedString(s) = b \o s
    BY <1>0, <1>1 DEF PutLengthEncodedString
<1>3. PICK j \in Nat : j < Len(b \o s) /\ cut = SubSeq(b \o s, 1, j)
    BY <1>2 DEF CutOf
<1>4. PICK l \in Nat : l = Len(b)
    OBVIOUS
<1>5. CASE j < l
    <2>1. cut = SubSeq(b, 1, j)
        BY ONLY <1>3, <1>4, <1>5, b \in Seq(Byte), s \in Seq(Byte), j \in Nat
    <2>2. j \in 0..(l - 1)
        BY ONLY <1>5, j \in Nat, l \in Nat
    <2>3. ReadLengthEncodedInt(cut) = Fail
        BY <2>1, <2>2, <1>0, <1>1, <1>4, LenencCutShort
    <2> QED BY ONLY <2>3 DEF ReadLengthEncodedString, Fail
<1>6. CASE l <= j
    <2>1. PICK t \in Seq(Byte) : t = SubSeq(s, 1, j - l)
        <3>1. SubSeq(s, 1, j - l) \in Seq(Byte)
            BY ONLY <1>0, <1>3, <1>4, <1>6, b \in Seq(Byte), s \in Seq(Byte), j \in Nat, l \in Nat
        <3> QED BY <3>1
    <2>2. cut = b \o t /\ Len(cut) = j /\ j < l + n
        <3>1. j < l + n /\ Len(b \o s) = l + n
            BY ONLY <1>0, <1>3, <1>4, b \in Seq(Byte), s \in Seq(Byte), j \in Nat, l \in Nat
        <3>2. Len(t) = j - l /\ Len(b \o t) = j
            BY ONLY <1>0, <1>4, <1>6, <2>1, <3>1, b \in Seq(Byte), s \in Seq(Byte), t \in Seq(Byte), j \in Nat, l \in Nat, n \in Nat
        <3>3. SubSeq(b \o s, 1, j) = b \o SubSeq(s, 1, j - Len(b))
            <4>1. Len(b) <= j /\ j <= Len(b \o s)
                BY ONLY <1>4, <1>6, <3>1, j \in Nat, l \in Nat, n \in Nat
            <4> QED BY ONLY <4>1, b \in Seq(Byte), s \in Seq(Byte), j \in Nat, CutLater
        <3> QED BY ONLY <1>3, <1>4, <2>1, <3>1, <3>2, <3>3
    <2>3. ReadLengthEncodedInt(cut) = Number(n, l)
        BY <2>2, <1>0, <1>1, <1>4, LenencReadsBack
    <2>4. PICK x : x = ReadLengthEncodedInt(cut) /\ x = Number(n, l)
        BY ONLY <2>3
    <2>5. x.ok /\ ~x.null /\ x.used = l /\ x.n = n
        BY ONLY <2>4 DEF Number
    <2>6. Len(cut) - l < n
        BY ONLY <2>2, j \in Nat, l \in Nat, n \in Nat
    <2> QED BY ONLY <2>4, <2>5, <2>6 DEF ReadLengthEncodedString
<1> QED BY ONLY <1>5, <1>6, j \in Nat, l \in Nat

LEMMA BytesRead ==
    ASSUME NEW typ \in StringTypes, NEW s \in Texts
    PROVE  ReadAs(PutLengthEncodedString(s), typ, String(s))
<1>1. s \in Seq(Byte) /\ Len(s) < Limit(8)
    BY DEF Texts
<1>2. typ \notin DOMAIN Widths /\ typ # "datetime" /\ typ \in StringTypes
    BY WidthsAre DEF StringTypes, IntegerTypes
<1>3. PICK b : b = PutLengthEncodedString(s)
    OBVIOUS
<1>4. b \in Seq(Byte)
    <2>1. <<>> \in Seq(Byte)
        OBVIOUS
    <2> QED BY <1>1, <1>3, <2>1, StringReadsBack
<1>5. ASSUME NEW rest \in Seq(Byte)
      PROVE  ParseBinaryValue(b \o rest, typ) = [ok |-> TRUE, v |-> String(s), used |-> Len(b)]
    <2>1. PICK x : x = ReadLengthEncodedString(b \o rest)
        OBVIOUS
    <2>2. x = [ok |-> TRUE, null |-> FALSE, s |-> s, used |-> Len(b)]
        BY <1>1, <1>3, <2>1, StringReadsBack
    <2>3. x.ok /\ x.s = s /\ x.used = Len(b)
        BY ONLY <2>2
    <2> QED BY ONLY <1>2, <2>1, <2>3 DEF ParseBinaryValue
<1>6. ASSUME NEW cut, CutOf(cut, b) PROVE ~ParseBinaryValue(cut, typ).ok
    <2>1. ReadLengthEncodedString(cut) = Fail
        BY <1>1, <1>3, <1>6, StringCutShort
    <2>2. ParseBinaryValue(cut, typ) = Fail
        BY ONLY <1>2, <2>1 DEF ParseBinaryValue, Fail
    <2> QED BY ONLY <2>2 DEF Fail
<1>7. String(s) # Null
    BY DEF String, Null
<1> QED BY ONLY <1>3, <1>4, <1>5, <1>6, <1>7 DEF ReadAs

\* A time of the wire: its length, the year, month and day, the clock, and what follows.
HasClock(data, len, year, day, clock, rest, S) ==
    /\ data \in Seq(S) /\ Len(data) = 8 + Len(rest) /\ data[1] = len
    /\ SubSeq(data, 2, 3) = year /\ data[4] = day[1] /\ data[5] = day[2] /\ SubSeq(data, 6, 8) = clock
    /\ \A i \in 1..Len(rest) : data[8 + i] = rest[i]

LEMMA EightParts ==
    ASSUME NEW S, NEW x \in Seq(S), NEW a \in Seq(S), NEW w \in Seq(S), NEW c \in Seq(S), NEW rest \in Seq(S),
           Len(x) = 1, Len(a) = 2, Len(w) = 2, Len(c) = 3,
           NEW data, data = (((x \o a) \o w) \o c) \o rest
    PROVE  HasClock(data, x[1], a, w, c, rest, S)
<1>0. PICK t \in Nat : t = Len(rest)
    OBVIOUS
<1>1. PICK u : u = x \o a /\ Beside(u, x, a, 1, 2, S)
    BY Concatenation
<1>2. u \in Seq(S) /\ Len(u) = 3
    BY <1>1 DEF Beside
<1>3. PICK v : v = u \o w /\ Beside(v, u, w, 3, 2, S)
    BY <1>2, Concatenation
<1>4. v \in Seq(S) /\ Len(v) = 5
    BY <1>3 DEF Beside
<1>5. PICK e : e = v \o c /\ Beside(e, v, c, 5, 3, S)
    BY <1>4, Concatenation
<1>6. e \in Seq(S) /\ Len(e) = 8
    BY <1>5 DEF Beside
<1>7. Beside(data, e, rest, 8, t, S)
    <2>1. data = e \o rest
        BY <1>1, <1>3, <1>5
    <2>2. Beside(e \o rest, e, rest, 8, t, S)
        BY <1>0, <1>6, Concatenation
    <2> QED BY <2>1, <2>2
<1>8. data \in Seq(S) /\ Len(data) = 8 + t /\ \A i \in 1..t : data[8 + i] = rest[i]
    BY <1>7 DEF Beside
<1>9. ASSUME NEW i \in 1..8 PROVE data[i] = e[i]
    BY <1>7 DEF Beside
<1>10. ASSUME NEW i \in 1..5 PROVE data[i] = v[i]
    <2>1. i \in 1..8
        OBVIOUS
    <2> QED BY <1>5, <1>9, <2>1 DEF Beside
<1>11. ASSUME NEW i \in 1..3 PROVE data[i] = u[i]
    <2>1. i \in 1..5
        OBVIOUS
    <2> QED BY <1>3, <1>10, <2>1 DEF Beside
<1>12. data[1] = x[1]
    <2>1. 1 \in 1..3 /\ 1 \in 1..1
        OBVIOUS
    <2> QED BY <1>1, <1>11, <2>1 DEF Beside
<1>13. ASSUME NEW i \in 1..2 PROVE data[1 + i] = a[i] /\ data[3 + i] = w[i]
    <2>1. 1 + i \in 1..3 /\ 3 + i \in 1..5
        OBVIOUS
    <2> QED BY <1>1, <1>3, <1>10, <1>11, <2>1 DEF Beside
<1>14. ASSUME NEW i \in 1..3 PROVE data[5 + i] = c[i]
    <2>1. 5 + i \in 1..8
        OBVIOUS
    <2> QED BY <1>5, <1>9, <2>1 DEF Beside
<1>15. SubSeq(data, 2, 3) = a
    <2>1. Len(SubSeq(data, 2, 3)) = 2 /\ SubSeq(data, 2, 3) \in Seq(S)
        BY ONLY <1>8, t \in Nat
    <2>2. ASSUME NEW i \in 1..2 PROVE SubSeq(data, 2, 3)[i] = data[1 + i]
        BY ONLY <1>8, t \in Nat, i \in 1..2
    <2> QED BY ONLY <2>1, <2>2, <1>13, a \in Seq(S), Len(a) = 2
<1>16. SubSeq(data, 6, 8) = c
    <2>1. Len(SubSeq(data, 6, 8)) = 3 /\ SubSeq(data, 6, 8) \in Seq(S)
        BY ONLY <1>8, t \in Nat
    <2>2. ASSUME NEW i \in 1..3 PROVE SubSeq(data, 6, 8)[i] = data[5 + i]
        BY ONLY <1>8, t \in Nat, i \in 1..3
    <2> QED BY ONLY <2>1, <2>2, <1>14, c \in Seq(S), Len(c) = 3
<1>17. data[4] = w[1] /\ data[5] = w[2]
    <2>1. 1 \in 1..2 /\ 2 \in 1..2 /\ 3 + 1 = 4 /\ 3 + 2 = 5
        OBVIOUS
    <2>2. data[3 + 1] = w[1] /\ data[3 + 2] = w[2]
        BY ONLY <1>13, <2>1
    <2> QED BY ONLY <2>1, <2>2
<1> QED BY ONLY <1>0, <1>8, <1>12, <1>15, <1>16, <1>17 DEF HasClock

LEMMA TimeReads ==
    ASSUME NEW v \in ClockTimes
    PROVE  ReadAs(((<<7>> \o LE(v.date[1], 2)) \o Tail(v.date)) \o v.clock, "datetime", v)
<1>1. PICK y \in {x \in Nat : x < Limit(2)}, m \in Byte, d \in Byte, f \in Byte, g \in Byte, h \in Byte :
          v = ClockTime(y, m, d, f, g, h)
    BY DEF ClockTimes
<1>2. v.date = <<y, m, d>> /\ v.clock = <<f, g, h>> /\ v # Null
    BY ONLY <1>1 DEF ClockTime, Null
<1>3. v.date[1] = y /\ Tail(v.date) = <<m, d>>
    BY ONLY <1>2
<1>4. LE(y, 2) \in Seq(Byte) /\ Len(LE(y, 2)) = 2
    <2>1. y \in Int /\ 2 \in Nat
        OBVIOUS
    <2> QED BY ONLY <2>1, LEType
<1>5. PICK a \in Seq(Byte) : a = LE(y, 2) /\ Len(a) = 2
    BY <1>4
<1>6. UnLE(a) = y
    BY <1>5, UnLEOfLE DEF FixedWidths
<1>7. PICK x \in Seq(Byte), w \in Seq(Byte), c \in Seq(Byte) :
          x = <<7>> /\ w = <<m, d>> /\ c = <<f, g, h>> /\ Len(x) = 1 /\ Len(w) = 2 /\ Len(c) = 3
    <2>1. 7 \in Byte
        BY DEF Byte
    <2>2. <<7>> \in Seq(Byte) /\ <<m, d>> \in Seq(Byte) /\ <<f, g, h>> \in Seq(Byte)
        BY ONLY <2>1, m \in Byte, d \in Byte, f \in Byte, g \in Byte, h \in Byte
    <2> QED BY ONLY <2>2
<1>8. PICK b : b = ((x \o a) \o w) \o c
    OBVIOUS
<1>8a. b \in Seq(Byte)
    BY ONLY <1>8, x \in Seq(Byte), a \in Seq(Byte), w \in Seq(Byte), c \in Seq(Byte)
<1>8b. \A rest \in Seq(Byte) : HasClock(b \o rest, x[1], a, w, c, rest, Byte)
    BY <1>5, <1>7, <1>8, EightParts
<1>9. Len(b) = 8 /\ b[1] = 7
    <2>1. <<>> \in Seq(Byte) /\ Len(<<>>) = 0 /\ b \o <<>> = b
        BY ONLY <1>8a
    <2>2. HasClock(b \o <<>>, x[1], a, w, c, <<>>, Byte)
        BY ONLY <1>8b, <2>1
    <2>3. x[1] = 7
        BY ONLY <1>7
    <2> QED BY ONLY <2>1, <2>2, <2>3 DEF HasClock
<1>10. "datetime" \notin DOMAIN Widths
    BY WidthsAre DEF IntegerTypes
<1>11. ASSUME NEW rest \in Seq(Byte)
       PROVE  ParseBinaryValue(b \o rest, "datetime") = [ok |-> TRUE, v |-> v, used |-> Len(b)]
    <2>1. PICK data : data = b \o rest
        OBVIOUS
    <2>2. HasClock(data, x[1], a, w, c, rest, Byte)
        BY ONLY <1>8b, <2>1, rest \in Seq(Byte)
    <2>3. /\ data \in Seq(Byte) /\ Len(data) = 8 + Len(rest) /\ data[1] = x[1]
          /\ SubSeq(data, 2, 3) = a /\ data[4] = w[1] /\ data[5] = w[2] /\ SubSeq(data, 6, 8) = c
        BY ONLY <2>2 DEF HasClock
    <2>4. data[1] = 7 /\ data[4] = m /\ data[5] = d
        BY ONLY <1>7, <2>3
    <2>5. data # <<>> /\ ~(Len(data) < 8)
        BY ONLY <2>3, rest \in Seq(Byte)
    <2>6. ParseBinaryTime(data) =
             [ok |-> TRUE, used |-> 8, v |-> [kind |-> "time", date |-> <<y, m, d>>, clock |-> c, nsec |-> 0]]
        <3>1. data[1] # 0 /\ data[1] + 1 = 8 /\ data[1] >= 7 /\ ~(data[1] >= 11)
            BY ONLY <2>4
        <3>2. UnLE(SubSeq(data, 2, 3)) = y
            BY ONLY <1>6, <2>3
        <3> QED BY ONLY <2>3, <2>4, <2>5, <3>1, <3>2 DEF ParseBinaryTime
    <2>7. v = [kind |-> "time", date |-> <<y, m, d>>, clock |-> c, nsec |-> 0]
        BY ONLY <1>1, <1>7 DEF ClockTime
    <2>8. ParseBinaryValue(data, "datetime") = ParseBinaryTime(data)
        BY ONLY <1>10 DEF ParseBinaryValue
    <2> QED BY ONLY <1>9, <2>1, <2>6, <2>7, <2>8
<1>12. ASSUME NEW cut, CutOf(cut, b) PROVE ~ParseBinaryValue(cut, "datetime").ok
    <2>1. PICK j \in Nat : j < Len(b) /\ cut = SubSeq(b, 1, j)
        BY <1>12 DEF CutOf
    <2>2. cut = <<>> \/ (cut # <<>> /\ cut[1] = 7 /\ Len(cut) < 8)
        <3>1. Len(cut) = j /\ j < 8 /\ (j > 0 => cut[1] = b[1]) /\ (j = 0 => cut = <<>>)
            BY ONLY <1>8a, <1>9, <2>1, j \in Nat
        <3>2. j > 0 => cut # <<>>
            BY ONLY <3>1
        <3> QED BY ONLY <1>9, <3>1, <3>2, j \in Nat
    <2>3. ParseBinaryTime(cut) = Fail
        BY ONLY <2>2 DEF ParseBinaryTime
    <2>4. ParseBinaryValue(cut, "datetime") = Fail
        BY ONLY <1>10, <2>3 DEF ParseBinaryValue
    <2> QED BY ONLY <2>4 DEF Fail
<1>13. b = ((<<7>> \o LE(v.date[1], 2)) \o Tail(v.date)) \o v.clock
    BY ONLY <1>2, <1>3, <1>5, <1>7, <1>8
<1>14. ReadAs(b, "datetime", v)
    BY ONLY <1>2, <1>8a, <1>11, <1>12 DEF ReadAs
<1> QED BY ONLY <1>13, <1>14

\* Every value of a binary row reads back.
LEMMA ValueReads ==
    ASSUME NEW typ \in RowTypes, NEW v \in BinaryValues(typ)
    PROVE  ReadAs(ServerValue(v, typ), typ, v)
<1>1. CASE typ \in IntegerTypes
    <2>1. PICK n : Fits(n, Widths[typ]) /\ v = Integer(n)
        BY <1>1 DEF BinaryValues
    <2>2. ReadAs(LE(n, Widths[typ]), typ, v)
        BY <1>1, <2>1, IntegerReads
    <2>3. v # Null /\ v.kind = "int" /\ v.n = n
        BY ONLY <2>1 DEF Integer, Null
    <2>4. ServerValue(v, typ) = LE(n, Widths[typ])
        BY ONLY <2>3 DEF ServerValue
    <2> QED BY ONLY <2>2, <2>4
<1>2. CASE typ = "datetime"
    <2>1. v \in ClockTimes
        BY <1>2 DEF BinaryValues, IntegerTypes
    <2>2. v # Null /\ v.kind = "time"
        BY <2>1 DEF ClockTimes, ClockTime, Null
    <2>3. ServerValue(v, typ) = ((<<7>> \o LE(v.date[1], 2)) \o Tail(v.date)) \o v.clock
        BY ONLY <2>2 DEF ServerValue
    <2> QED BY <1>2, <2>1, <2>3, TimeReads
<1>3. CASE typ \notin IntegerTypes /\ typ # "datetime"
    <2>1. PICK s \in Texts : v = String(s)
        BY <1>3 DEF BinaryValues
    <2>2. ReadAs(PutLengthEncodedString(s), typ, v)
        <3>1. typ \in StringTypes
            BY <1>3 DEF RowTypes, StringTypes
        <3> QED BY <2>1, <3>1, BytesRead
    <2>3. v # Null /\ v.kind = "string" /\ v.s = s
        BY ONLY <2>1 DEF String, Null
    <2>4. ServerValue(v, typ) = PutLengthEncodedString(s)
        BY ONLY <2>3 DEF ServerValue
    <2> QED BY ONLY <2>2, <2>4
<1> QED BY <1>1, <1>2, <1>3

(***************************************************************************)
(* Bitmaps and binary rows.                                                *)
(***************************************************************************)
\* A bitmap has a byte for each eight bits, and the bit of i is set exactly if vals[i] is NULL.
IsBitmap(map, vals, first, n) ==
    /\ map \in Seq(Byte) /\ Len(map) = (n + first + 7) \div 8
    /\ \A i \in 1..n : Bit(map[1 + (i - 1 + first) \div 8], (i - 1 + first) % 8) <=> vals[i] = Null

NullFolds(f, vals, first, b, seq, D) ==
    f = [s \in SUBSET D |-> IF s = {} THEN 0 ELSE NullBits(f[s \ {Max(s)}], vals, first, b, seq[Max(s)])]

\* Each byte of map is the fold of the bits of that byte.
OfBits(map, vals, first, n) ==
    /\ map = [b \in 1..(n + first + 7) \div 8 |-> map[b]]
    /\ \A b \in 1..(n + first + 7) \div 8 : \E r : NullByte(r, vals, first, b, n) /\ map[b] = r[n]

LEMMA BitsAreBitmap ==
    ASSUME NEW n \in Nat, NEW vals, NEW first \in Nat, NEW map, OfBits(map, vals, first, n)
    PROVE  IsBitmap(map, vals, first, n)
<1>2. PICK l \in Nat : l = (n + first + 7) \div 8
    OBVIOUS
<1>4. map = [b \in 1..l |-> map[b]]
    BY ONLY <1>2, OfBits(map, vals, first, n) DEF OfBits
<1>5. ASSUME NEW b \in 1..l
      PROVE  /\ map[b] \in Byte
             /\ \A k \in 0..7 : Bit(map[b], k) <=> \E x \in 1..n : vals[x] = Null /\ x - 1 + first = 8 * (b - 1) + k
    <2>1. PICK r : NullByte(r, vals, first, b, n) /\ map[b] = r[n]
        BY <1>2 DEF OfBits
    <2>2. b \in Nat /\ b >= 1
        OBVIOUS
    <2>3. HasBits(r[n], vals, first, b, n)
        BY <2>1, <2>2, NullByteIs
    <2> QED BY ONLY <2>1, <2>3 DEF HasBits
<1>6. map \in Seq(Byte) /\ Len(map) = l
    <2>1. \A b \in 1..l : map[b] \in Byte
        BY ONLY <1>5
    <2>2. [b \in 1..l |-> map[b]] \in Seq(Byte) /\ Len([b \in 1..l |-> map[b]]) = l
        BY ONLY <2>1, l \in Nat
    <2> QED BY ONLY <1>4, <2>2
<1>7. ASSUME NEW i \in 1..n PROVE Bit(map[1 + (i - 1 + first) \div 8], (i - 1 + first) % 8) <=> vals[i] = Null
    <2>1. PICK p \in Nat : p = i - 1 + first /\ p < n + first
        OBVIOUS
    <2>2. PICK b \in 1..l, k \in 0..7 : b = 1 + p \div 8 /\ k = p % 8 /\ p = 8 * (b - 1) + k
        <3>1. p \div 8 \in Nat /\ p % 8 \in 0..7 /\ p = 8 * (p \div 8) + (p % 8)
            BY ONLY p \in Nat
        <3>2. PICK a \in Nat, k \in 0..7 : a = p \div 8 /\ k = p % 8 /\ p = 8 * a + k
            BY ONLY <3>1
        <3>3. 1 + a \in 1..l
            BY ONLY <1>2, <2>1, <3>2, a \in Nat, k \in 0..7, l \in Nat, p \in Nat, n \in Nat, first \in Nat
        <3>4. p = 8 * ((1 + a) - 1) + k
            BY ONLY <3>2, a \in Nat, k \in 0..7
        <3> QED BY ONLY <3>2, <3>3, <3>4, k \in 0..7
    <2>3. Bit(map[b], k) <=> \E x \in 1..n : vals[x] = Null /\ x - 1 + first = 8 * (b - 1) + k
        BY ONLY <1>5, b \in 1..l, k \in 0..7
    <2>4. \A x \in 1..n : x - 1 + first = 8 * (b - 1) + k <=> x = i
        BY ONLY <2>1, <2>2, n \in Nat, first \in Nat, i \in 1..n, b \in 1..l, k \in 0..7, l \in Nat
    <2>5. Bit(map[b], k) <=> vals[i] = Null
        BY ONLY <2>3, <2>4, i \in 1..n
    <2> QED BY ONLY <2>1, <2>2, <2>5
<1> QED BY ONLY <1>2, <1>6, <1>7 DEF IsBitmap

LEMMA BitmapByte ==
    ASSUME NEW V, NEW vals \in Seq(V), NEW first \in Nat, NEW b \in 1..(Len(vals) + first + 7) \div 8
    PROVE  \E r : NullByte(r, vals, first, b, Len(vals)) /\ Bitmap(vals, first)[b] = r[Len(vals)]
<1>1. PICK n \in Nat : n = Len(vals) /\ DOMAIN vals = 1..n
    OBVIOUS
<1> DEFINE c == [vals |-> vals, first |-> first, b |-> b]
           seq == [i \in DOMAIN vals |-> i]
<1>2. DOMAIN seq = 1..n /\ \A i \in 1..n : seq[i] = i
    BY <1>1
<1> DEFINE f == CHOOSE f : NullFolds(f, vals, first, b, seq, DOMAIN seq)
<1>3. \A acc, x : FoldStep("null bits", c, acc, x) = NullBits(acc, vals, first, b, x)
    BY DEF FoldStep
<1> HIDE DEF c
<1>4. \A g : NullFolds(g, vals, first, b, seq, 1..n) <=> Folds(g, "null bits", c, 0, seq, 1..n)
    <2> HIDE DEF seq
    <2> QED BY ONLY <1>3 DEF NullFolds, Folds
<1> HIDE DEF seq
<1>5. Bitmap(vals, first)[b] = f[DOMAIN seq]
    BY DEF Bitmap, FoldLeft, MapThenFoldSet, NullFolds, NullBits, seq
<1>6. Folds(f, "null bits", c, 0, seq, 1..n)
    <2>1. \E g : Folds(g, "null bits", c, 0, seq, 1..n)
        BY FoldExists, Zenon
    <2>2. \E g : NullFolds(g, vals, first, b, seq, DOMAIN seq)
        BY <1>2, <1>4, <2>1
    <2>3. NullFolds(f, vals, first, b, seq, DOMAIN seq)
        BY <2>2, Zenon
    <2> HIDE DEF f
    <2> QED BY <1>2, <1>4, <2>3
<1> HIDE DEF f
<1>7. PICK r : FoldVia(r, "null bits", c, 0, seq, n) /\ f[1..n] = r[n]
    <2>1. HasChain(f, "null bits", c, 0, seq, n)
        BY ONLY <1>6, FoldChain, n \in Nat
    <2> QED BY ONLY <2>1 DEF HasChain
<1>8. NullByte(r, vals, first, b, n)
    BY <1>2, <1>3, <1>7 DEF FoldVia, NullByte
<1> QED BY <1>1, <1>2, <1>5, <1>7, <1>8

LEMMA BitmapIs ==
    ASSUME NEW V, NEW vals \in Seq(V), NEW first \in Nat
    PROVE  IsBitmap(Bitmap(vals, first), vals, first, Len(vals))
<1>1. PICK n \in Nat : n = Len(vals)
    OBVIOUS
<1>2. PICK l \in Nat : l = (n + first + 7) \div 8
    OBVIOUS
<1>3. PICK map : map = Bitmap(vals, first)
    OBVIOUS
<1>4. map = [b \in 1..l |-> map[b]]
    BY ONLY <1>1, <1>2, <1>3 DEF Bitmap
<1>5. ASSUME NEW b \in 1..l PROVE \E r : NullByte(r, vals, first, b, n) /\ map[b] = r[n]
    BY <1>1, <1>2, <1>3, BitmapByte
<1>6. OfBits(map, vals, first, n)
    BY ONLY <1>2, <1>4, <1>5 DEF OfBits
<1> QED BY ONLY <1>1, <1>3, <1>6, n \in Nat, first \in Nat, BitsAreBitmap

BinaryFolds(f, packet, types, base, seq, D) ==
    f = [s \in SUBSET D |-> IF s = {} THEN base ELSE BinaryColumn(packet, types, f[s \ {Max(s)}], seq[Max(s)])]

LEMMA BinaryRowFold ==
    ASSUME NEW packet, NEW types, NEW n \in Nat, Len(types) = n
    PROVE  \E r : /\ FoldVia(r, "binary row", [packet |-> packet, types |-> types],
                             RowAt(2 + (n + 7 + 2) \div 8, <<>>), [i \in 1..n |-> i], n)
                  /\ ParseBinaryRow(packet, types) =
                        IF packet = <<>> \/ packet[1] # 0 THEN Fail
                        ELSE IF Len(packet) < 1 + (n + 7 + 2) \div 8 THEN Fail ELSE Whole(r[n], packet)
<1> DEFINE base == RowAt(2 + (Len(types) + 7 + 2) \div 8, <<>>)
           seq == [i \in 1..Len(types) |-> i]
           c == [packet |-> packet, types |-> types]
           f == CHOOSE f : BinaryFolds(f, packet, types, base, seq, DOMAIN seq)
<1>0. DOMAIN seq = 1..n
    OBVIOUS
<1>1. \A acc, x : FoldStep("binary row", c, acc, x) = BinaryColumn(packet, types, acc, x)
    BY DEF FoldStep
<1> HIDE DEF c, base, seq
<1>2. \A g : BinaryFolds(g, packet, types, base, seq, 1..n) <=> Folds(g, "binary row", c, base, seq, 1..n)
    <2> TAKE g
    <2>1. \A s \in SUBSET (1..n) :
             (IF s = {} THEN base ELSE BinaryColumn(packet, types, g[s \ {Max(s)}], seq[Max(s)])) =
             (IF s = {} THEN base ELSE FoldStep("binary row", c, g[s \ {Max(s)}], seq[Max(s)]))
        BY <1>1, Zenon
    <2> QED BY ONLY <2>1 DEF BinaryFolds, Folds
<1>3. ParseBinaryRow(packet, types) =
         IF packet = <<>> \/ packet[1] # 0 THEN Fail
         ELSE IF Len(packet) < 1 + (Len(types) + 7 + 2) \div 8 THEN Fail
         ELSE Whole(f[DOMAIN seq], packet)
    BY DEF ParseBinaryRow, FoldLeft, MapThenFoldSet, BinaryFolds, BinaryColumn, RowAt, base, seq
<1>4. Folds(f, "binary row", c, base, seq, 1..n)
    <2>1. \E g : Folds(g, "binary row", c, base, seq, 1..n)
        BY FoldExists, Zenon
    <2>2. \E g : BinaryFolds(g, packet, types, base, seq, DOMAIN seq)
        BY <1>0, <1>2, <2>1
    <2>3. BinaryFolds(f, packet, types, base, seq, DOMAIN seq)
        BY <2>2, Zenon
    <2> HIDE DEF f
    <2> QED BY <1>0, <1>2, <2>3
<1> HIDE DEF f
<1>5. PICK r : FoldVia(r, "binary row", c, base, seq, n) /\ f[1..n] = r[n]
    <2>1. HasChain(f, "binary row", c, base, seq, n)
        BY ONLY <1>4, FoldChain, n \in Nat
    <2> QED BY ONLY <2>1 DEF HasChain
<1>6. ParseBinaryRow(packet, types) =
         IF packet = <<>> \/ packet[1] # 0 THEN Fail
         ELSE IF Len(packet) < 1 + (n + 7 + 2) \div 8 THEN Fail ELSE Whole(r[n], packet)
    BY ONLY <1>0, <1>3, <1>5, Len(types) = n
<1>7. base = RowAt(2 + (n + 7 + 2) \div 8, <<>>) /\ seq = [i \in 1..n |-> i]
    BY DEF base, seq
<1> QED BY <1>5, <1>6, <1>7, Zenon DEF c

RowValues == {Null} \cup UNION {BinaryValues(typ) : typ \in RowTypes}
BinaryRow(n, types, vals) ==
    /\ n \in Nat /\ types \in Seq(RowTypes) /\ Len(types) = n /\ vals \in Seq(RowValues) /\ Len(vals) = n
    /\ \A i \in 1..n : vals[i] = Null \/ vals[i] \in BinaryValues(types[i])

\* The place of a column in the bitmap, as the step of the fold looks it up.
HasNulls(packet, vals, n) ==
    \A i \in 1..n : Bit(packet[2 + RowBit(i - 1) \div 8], RowBit(i - 1) % 8) <=> vals[i] = Null

LEMMA ValsPut ==
    ASSUME NEW pos, NEW got, NEW x
    PROVE  [RowAt(pos, got) EXCEPT !.vals = x] = RowAt(pos, x)
<1> DEFINE s == [RowAt(pos, got) EXCEPT !.vals = x]
           t == RowAt(pos, x)
           F == {"ok", "pos", "vals"}
<1>1. DOMAIN s = F /\ DOMAIN t = F
    BY DEF RowAt
<1>2. s["ok"] = TRUE /\ t["ok"] = TRUE
    BY DEF RowAt
<1>3. s["pos"] = pos /\ t["pos"] = pos
    BY DEF RowAt
<1>4. s["vals"] = x /\ t["vals"] = x
    BY DEF RowAt
<1>5. s = [f \in DOMAIN s |-> s[f]]
    OBVIOUS
<1>6. t = [f \in DOMAIN t |-> t[f]]
    BY DEF RowAt
<1> HIDE DEF s, t
<1>7. \A f \in F : s[f] = t[f]
    BY <1>2, <1>3, <1>4
<1> HIDE DEF F
<1>8. s = t
    BY <1>1, <1>5, <1>6, <1>7, Zenon
<1> QED BY <1>8 DEF s, t

\* Every column is read from its piece, and refused when the piece is cut.
LEMMA ColumnReads ==
    ASSUME NEW packet \in Seq(Byte), NEW types, NEW vals, NEW n \in Nat, HasNulls(packet, vals, n), NEW i \in 1..n, NEW piece,
           (vals[i] = Null /\ piece = <<>>) \/ ReadAs(piece, types[i], vals[i])
    PROVE  LET c == [packet |-> packet, types |-> types] IN
           /\ Reads("binary row", c, packet, piece, vals[i], i)
           /\ Refuses("binary row", c, packet, piece, i)
<1> DEFINE c == [packet |-> packet, types |-> types]
<1>1. \A acc, x : FoldStep("binary row", c, acc, x) = BinaryColumn(packet, types, acc, x)
    BY DEF FoldStep
<1> HIDE DEF c
<1>2. PICK v : v = vals[i]
    OBVIOUS
<1>3. Bit(packet[2 + RowBit(i - 1) \div 8], RowBit(i - 1) % 8) <=> v = Null
    BY <1>2 DEF HasNulls
<1>4. ASSUME NEW row, ~row.ok PROVE ~FoldStep("binary row", c, row, i).ok
    BY ONLY <1>1, <1>4 DEF BinaryColumn
<1>5. ASSUME NEW pos \in Nat, NEW got
      PROVE  /\ Continues(From(packet, pos), piece, Byte) =>
                   BinaryColumn(packet, types, RowAt(pos, got), i) = RowAt(pos + Len(piece), Append(got, v))
             /\ CutOf(From(packet, pos), piece) => ~BinaryColumn(packet, types, RowAt(pos, got), i).ok
    <2>0. PICK row : row = RowAt(pos, got)
        OBVIOUS
    <2>0a. row.ok /\ row.pos = pos /\ row.vals = got
        BY ONLY <2>0 DEF RowAt
    <2>1. CASE v = Null
        <3>1. piece = <<>> /\ Len(piece) = 0 /\ pos + 0 = pos
            <4>1. ~ReadAs(piece, types[i], vals[i])
                BY <1>2, <2>1 DEF ReadAs
            <4>2. piece = <<>>
                BY <4>1
            <4> QED BY ONLY <4>2, pos \in Nat
        <3>2. BinaryColumn(packet, types, row, i) = [row EXCEPT !.vals = Append(@, Null)]
            BY ONLY <1>3, <2>0a, <2>1 DEF BinaryColumn
        <3>3. [row EXCEPT !.vals = Append(@, Null)] = RowAt(pos, Append(got, Null))
            <4>1. [RowAt(pos, got) EXCEPT !.vals = Append(got, Null)] = RowAt(pos, Append(got, Null))
                BY ONLY ValsPut
            <4> QED BY ONLY <2>0, <2>0a, <4>1, Zenon
        <3>4. ~CutOf(From(packet, pos), piece)
            BY ONLY <3>1 DEF CutOf
        <3> QED BY ONLY <2>0, <2>1, <3>1, <3>2, <3>3, <3>4
    <2>2. CASE v # Null
        <3>1. ReadAs(piece, types[i], v)
            BY <1>2, <2>2
        <3>2. PICK x : x = ParseBinaryValue(From(packet, pos), types[i])
            OBVIOUS
        <3>3. BinaryColumn(packet, types, row, i) = WithValue(row, x, x.v)
            BY ONLY <1>3, <2>0a, <2>2, <3>2 DEF BinaryColumn
        <3>4. ASSUME Continues(From(packet, pos), piece, Byte)
              PROVE  BinaryColumn(packet, types, row, i) = RowAt(pos + Len(piece), Append(got, v))
            <4>1. PICK rest \in Seq(Byte) : From(packet, pos) = piece \o rest
                BY <3>4 DEF Continues
            <4>2. x = [ok |-> TRUE, v |-> v, used |-> Len(piece)]
                BY ONLY <3>1, <3>2, <4>1, rest \in Seq(Byte) DEF ReadAs
            <4>3. x.ok /\ x.v = v /\ x.used = Len(piece)
                BY ONLY <4>2
            <4> QED BY ONLY <2>0, <3>3, <4>3 DEF WithValue, RowAt
        <3>5. ASSUME CutOf(From(packet, pos), piece)
              PROVE  ~BinaryColumn(packet, types, row, i).ok
            <4>1. ~x.ok
                BY ONLY <3>1, <3>2, <3>5 DEF ReadAs
            <4>2. WithValue(row, x, x.v) = [row EXCEPT !.ok = FALSE]
                BY ONLY <4>1 DEF WithValue
            <4> QED BY ONLY <2>0, <3>3, <4>2 DEF RowAt
        <3> QED BY ONLY <2>0, <3>4, <3>5
    <2> QED BY <2>1, <2>2
<1>6. Reads("binary row", c, packet, piece, v, i)
    BY ONLY <1>1, <1>5 DEF Reads
<1>7. Refuses("binary row", c, packet, piece, i)
    BY ONLY <1>1, <1>4, <1>5 DEF Refuses
<1> QED BY <1>2, <1>6, <1>7 DEF c

\* The packet has the bitmap in its header.
\* What a row starts with.
RowHeader(map) == <<0>> \o map

LEMMA HeaderNulls ==
    ASSUME NEW n \in Nat, NEW vals, NEW map, IsBitmap(map, vals, 2, n), NEW h, h = RowHeader(map),
           NEW y \in Seq(Byte), NEW packet \in Seq(Byte), Agrees(packet, h \o y), Len(h) <= Len(packet)
    PROVE  HasNulls(packet, vals, n) /\ packet # <<>> /\ packet[1] = 0
<1>1. PICK l \in Nat : l = (n + 2 + 7) \div 8 /\ l = Len(map)
    BY DEF IsBitmap
<1>2. map \in Seq(Byte) /\ <<0>> \in Seq(Byte) /\ Len(<<0>>) = 1
    BY DEF IsBitmap, Byte
<1>3. Beside(h, <<0>>, map, 1, l, Byte)
    BY <1>1, <1>2, Concatenation DEF RowHeader
<1>4. h \in Seq(Byte) /\ Len(h) = 1 + l /\ h[1] = 0 /\ \A j \in 1..l : h[1 + j] = map[j]
    <2>1. 1 \in 1..1 /\ <<0>>[1] = 0
        OBVIOUS
    <2> QED BY ONLY <1>3, <2>1 DEF Beside
<1>5. ASSUME NEW j \in 1..(1 + l) PROVE packet[j] = h[j]
    <2>1. PICK m \in Nat, e \in Nat : m = Len(y) /\ e = Len(packet) /\ 1 + l <= e
        BY ONLY <1>4, y \in Seq(Byte), packet \in Seq(Byte), Len(h) <= Len(packet)
    <2>2. 1 + l \in Nat
        OBVIOUS
    <2>3. Beside(h \o y, h, y, 1 + l, m, Byte)
        BY <1>4, <2>1, <2>2, Concatenation
    <2>4. (h \o y)[j] = h[j] /\ Len(h \o y) = (1 + l) + m
        BY ONLY <2>3, j \in 1..(1 + l) DEF Beside
    <2>5. j \in 1..Len(packet) /\ j <= Len(h \o y)
        BY ONLY <2>1, <2>4, j \in 1..(1 + l), l \in Nat, m \in Nat, e \in Nat
    <2> QED BY ONLY <2>4, <2>5, Agrees(packet, h \o y) DEF Agrees
<1>6. packet # <<>> /\ packet[1] = 0
    <2>1. 1 \in 1..(1 + l)
        OBVIOUS
    <2> QED BY ONLY <1>4, <1>5, <2>1, packet \in Seq(Byte), Len(h) <= Len(packet), l \in Nat
<1>7. ASSUME NEW i \in 1..n PROVE Bit(packet[2 + RowBit(i - 1) \div 8], RowBit(i - 1) % 8) <=> vals[i] = Null
    <2>1. PICK bit \in Nat : bit = i - 1 + 2 /\ bit = RowBit(i - 1)
        BY DEF RowBit
    <2>2. PICK a \in Nat : a = bit \div 8
        BY ONLY bit \in Nat
    <2>3. 1 + a \in 1..l /\ 1 + (1 + a) = 2 + a /\ 1 + (1 + a) \in 1..(1 + l)
        BY ONLY <1>1, <2>1, <2>2, a \in Nat, n \in Nat, l \in Nat, i \in 1..n
    <2>4. packet[2 + a] = map[1 + a]
        BY ONLY <1>4, <1>5, <2>3
    <2>5. Bit(map[1 + (i - 1 + 2) \div 8], (i - 1 + 2) % 8) <=> vals[i] = Null
        BY DEF IsBitmap
    <2>6. Bit(map[1 + a], bit % 8) <=> vals[i] = Null
        BY ONLY <2>1, <2>2, <2>5
    <2> QED BY ONLY <2>1, <2>2, <2>4, <2>6
<1> QED BY <1>6, <1>7 DEF HasNulls

\* What ParseBinaryRow makes of a packet that is a part of the row, the row, or more than the row.
RowDecoded(packet, types, whole, vals) ==
    ParseBinaryRow(packet, types) = IF packet = whole THEN [ok |-> TRUE, vals |-> vals] ELSE Fail

\* Every binary row, of any number of columns with NULLs anywhere, is read column for column, and it
\* is refused when a byte is missing or left over (ParseBinaryRow, the bitmap and the values of binary.go).
THEOREM BinaryRowReadsBack ==
    ASSUME NEW n, NEW types, NEW vals, BinaryRow(n, types, vals),
           NEW packet \in Seq(Byte), Agrees(packet, ServerRow(vals, types))
    PROVE  ServerRow(vals, types) \in Seq(Byte) /\ RowDecoded(packet, types, ServerRow(vals, types), vals)
<1>1. /\ n \in Nat /\ types \in Seq(RowTypes) /\ Len(types) = n /\ vals \in Seq(RowValues) /\ Len(vals) = n
      /\ \A i \in 1..n : vals[i] = Null \/ vals[i] \in BinaryValues(types[i])
    BY DEF BinaryRow
<1> USE <1>1
<1> DEFINE c == [packet |-> packet, types |-> types]
           p == [i \in DOMAIN vals |-> ServerValue(vals[i], types[i])]
           b == ServerRow(vals, types)
<1>2. DOMAIN p = 1..n /\ Len(p) = n /\ \A i \in 1..n : p[i] = ServerValue(vals[i], types[i])
    BY <1>1
<1>3. b = (<<0>> \o Bitmap(vals, 2)) \o FlattenSeq(p)
    BY DEF ServerRow
<1> HIDE DEF p, b, c
<1>4. ASSUME NEW i \in 1..n
      PROVE  p[i] \in Seq(Byte) /\ ((vals[i] = Null /\ p[i] = <<>>) \/ ReadAs(p[i], types[i], vals[i]))
    <2>1. types[i] \in RowTypes
        OBVIOUS
    <2>2. CASE vals[i] = Null
        <3>1. p[i] = <<>>
            BY <1>2, <2>2 DEF ServerValue
        <3>2. <<>> \in Seq(Byte)
            OBVIOUS
        <3> QED BY <2>2, <3>1, <3>2
    <2>3. CASE vals[i] # Null
        <3>1. vals[i] \in BinaryValues(types[i])
            BY <2>3
        <3>2. ReadAs(p[i], types[i], vals[i])
            BY <1>2, <2>1, <3>1, ValueReads
        <3> QED BY <3>2 DEF ReadAs
    <2> QED BY <2>2, <2>3
<1>5. PICK q : Joins(q, p, n, Byte) /\ FlattenSeq(p) = q[n]
    <2>1. \A i \in 1..n : p[i] \in Seq(Byte)
        BY ONLY <1>4
    <2> QED BY ONLY <1>1, <1>2, <2>1, FlattenChain
<1>6. PICK y \in Seq(Byte) : y = q[n]
    <2>1. n \in 0..n
        OBVIOUS
    <2> QED BY <1>5, <2>1, JoinsType
<1>7. PICK map : map = Bitmap(vals, 2) /\ IsBitmap(map, vals, 2, n)
    BY BitmapIs
<1>8. PICK l \in Nat : l = (n + 7 + 2) \div 8 /\ l = Len(map) /\ map \in Seq(Byte)
    BY <1>7 DEF IsBitmap
<1>9. PICK h \in Seq(Byte) : h = <<0>> \o map /\ Len(h) = 1 + l
    <2>1. <<0>> \in Seq(Byte) /\ Len(<<0>>) = 1
        BY DEF Byte
    <2>2. <<0>> \o map \in Seq(Byte) /\ Len(<<0>> \o map) = 1 + l
        BY ONLY <2>1, <1>8
    <2> QED BY ONLY <2>2
<1>9a. h = RowHeader(map)
    BY ONLY <1>9 DEF RowHeader
<1>10. b = h \o y /\ b = h \o q[n]
    BY ONLY <1>3, <1>5, <1>6, <1>7, <1>9
<1>11. b \in Seq(Byte) /\ Len(b) = (1 + l) + Len(y) /\ Len(y) \in Nat
    BY ONLY <1>9, <1>10, h \in Seq(Byte), y \in Seq(Byte)
<1>12. Agrees(packet, b)
    BY DEF b
<1>13. PICK r : /\ FoldVia(r, "binary row", c, RowAt(2 + (n + 7 + 2) \div 8, <<>>), [i \in 1..n |-> i], n)
                /\ ParseBinaryRow(packet, types) =
                      IF packet = <<>> \/ packet[1] # 0 THEN Fail
                      ELSE IF Len(packet) < 1 + (n + 7 + 2) \div 8 THEN Fail ELSE Whole(r[n], packet)
    BY BinaryRowFold DEF c
<1>14. PICK e \in Nat, m \in Nat : e = Len(packet) /\ m = Len(b) /\ m >= 1 + l
    BY ONLY <1>11, packet \in Seq(Byte), l \in Nat
<1>15. CASE e < 1 + l
    <2>1. ParseBinaryRow(packet, types) = Fail
        BY ONLY <1>8, <1>13, <1>14, <1>15
    <2>2. packet # b
        BY ONLY <1>14, <1>15, e \in Nat, l \in Nat, m \in Nat
    <2> QED BY <1>11, <2>1, <2>2 DEF RowDecoded, b
<1>16. CASE e >= 1 + l
    <2>1. Len(h) <= Len(packet)
        BY ONLY <1>9, <1>14, <1>16, e \in Nat, l \in Nat
    <2>2. HasNulls(packet, vals, n) /\ packet # <<>> /\ packet[1] = 0
        BY <1>7, <1>9a, <1>10, <1>12, <2>1, HeaderNulls
    <2>3. ParseBinaryRow(packet, types) = Whole(r[n], packet)
        <3>1. ~(e < 1 + l)
            BY ONLY <1>16, e \in Nat, l \in Nat
        <3>2. ~(Len(packet) < 1 + (n + 7 + 2) \div 8)
            BY ONLY <1>8, <1>14, <3>1
        <3> QED BY ONLY <1>13, <2>2, <3>2
    <2>4. ASSUME NEW i \in 1..n
          PROVE  Reads("binary row", c, packet, p[i], vals[i], i) /\ Refuses("binary row", c, packet, p[i], i)
        BY <1>4, <2>2, ColumnReads DEF c
    <2>5. RowAt(2 + (n + 7 + 2) \div 8, <<>>) = RowAt(Len(h) + 1, <<>>)
        <3>1. 2 + l = Len(h) + 1
            BY ONLY <1>9, l \in Nat
        <3> QED BY ONLY <1>8, <3>1
    <2>6. RowOf(RowValues, n, vals, h, p, q, packet, "binary row", c, r)
        BY ONLY <1>1, <1>5, <1>10, <1>12, <1>13, <2>1, <2>4, <2>5, h \in Seq(Byte), packet \in Seq(Byte) DEF RowOf
    <2>7. RowRead(r, n, vals, h \o q[n], packet)
        BY <2>6, RowReads
    <2>8. RowRead(r, n, vals, b, packet)
        BY ONLY <1>10, <2>7
    <2>9. CASE m <= e
        <3>1. r[n] = RowAt(m + 1, vals)
            BY ONLY <1>14, <2>8, <2>9 DEF RowRead
        <3>2. CASE m = e
            <4>1. packet = b
                BY ONLY <1>11, <1>12, <1>14, <3>2, packet \in Seq(Byte) DEF Agrees
            <4>2. Whole(r[n], packet) = [ok |-> TRUE, vals |-> vals]
                BY ONLY <1>14, <3>1, <3>2 DEF Whole, RowAt
            <4> QED BY <1>11, <2>3, <4>1, <4>2 DEF RowDecoded, b
        <3>3. CASE m < e
            <4>1. packet # b
                BY ONLY <1>14, <3>3, m \in Nat, e \in Nat
            <4>2. m + 1 # Len(packet) + 1
                BY ONLY <1>14, <3>3, m \in Nat, e \in Nat
            <4>3. Whole(r[n], packet) = Fail
                BY ONLY <3>1, <4>2 DEF Whole, RowAt
            <4> QED BY <1>11, <2>3, <4>1, <4>3 DEF RowDecoded, b
        <3> QED BY ONLY <2>9, <3>2, <3>3, m \in Nat, e \in Nat
    <2>10. CASE e < m
        <3>1. ~r[n].ok
            BY ONLY <1>14, <2>8, <2>10, m \in Nat, e \in Nat DEF RowRead
        <3>2. Whole(r[n], packet) = Fail
            BY ONLY <3>1 DEF Whole
        <3>3. packet # b
            BY ONLY <1>14, <2>10, m \in Nat, e \in Nat
        <3> QED BY <1>11, <2>3, <3>2, <3>3 DEF RowDecoded, b
    <2> QED BY ONLY <2>9, <2>10, m \in Nat, e \in Nat
<1> QED BY ONLY <1>15, <1>16, e \in Nat, l \in Nat

(***************************************************************************)
(* Terminators.                                                            *)
(***************************************************************************)
StatusOf(more, changed) == (IF more THEN 8 ELSE 0) + (IF changed THEN 16384 ELSE 0) + 2

LEMMA FlagIs ==
    ASSUME NEW st \in Nat, NEW a \in Int, NEW b \in Int, a = (st \div 8) % 2, b = (st \div 16384) % 2
    PROVE  (Flag(st, MoreResults) <=> a = 1) /\ (Flag(st, StateChanged) <=> b = 1)
<1>1. 2 ^ MoreResults = 8 /\ 2 ^ StateChanged = 16384
    BY SMT DEF MoreResults, StateChanged
<1> QED BY <1>1, SMT DEF Flag

LEMMA StatusFlags ==
    ASSUME NEW more \in BOOLEAN, NEW changed \in BOOLEAN, NEW status, status = StatusOf(more, changed)
    PROVE  /\ status \in Nat /\ status < Limit(2)
           /\ Flag(status, MoreResults) <=> more
           /\ Flag(status, StateChanged) <=> changed
<1> DEFINE Right(st) == /\ st \in Nat /\ st < Limit(2)
                        /\ Flag(st, MoreResults) <=> more
                        /\ Flag(st, StateChanged) <=> changed
<1>1. ASSUME more /\ changed PROVE Right(StatusOf(more, changed))
    <2>1. PICK st \in Nat : st = 16394
        BY SMT
    <2>2. StatusOf(more, changed) = st
        BY <1>1, <2>1, SMT DEF StatusOf
    <2>3. st < 65536 /\ (st \div 8) % 2 = 1 /\ (st \div 16384) % 2 = 1
        BY ONLY <2>1, SMT
    <2>4. Flag(st, MoreResults) /\ Flag(st, StateChanged)
        <3>1. PICK a \in Int, b \in Int : a = (st \div 8) % 2 /\ b = (st \div 16384) % 2
            BY ONLY st \in Nat, SMT
        <3>2. (Flag(st, MoreResults) <=> a = 1) /\ (Flag(st, StateChanged) <=> b = 1)
            BY ONLY <3>1, st \in Nat, a \in Int, b \in Int, FlagIs
        <3> QED BY ONLY <2>3, <3>1, <3>2
    <2>5. st < Limit(2)
        BY ONLY <2>3, SMT DEF Limit
    <2> QED BY ONLY <1>1, <2>2, <2>4, <2>5, st \in Nat, Zenon
<1>2. ASSUME more /\ ~changed PROVE Right(StatusOf(more, changed))
    <2>1. PICK st \in Nat : st = 10
        BY SMT
    <2>2. StatusOf(more, changed) = st
        BY <1>2, <2>1, SMT DEF StatusOf
    <2>3. st < 65536 /\ (st \div 8) % 2 = 1 /\ (st \div 16384) % 2 = 0
        BY ONLY <2>1, SMT
    <2>4. Flag(st, MoreResults) /\ ~Flag(st, StateChanged)
        <3>1. PICK a \in Int, b \in Int : a = (st \div 8) % 2 /\ b = (st \div 16384) % 2
            BY ONLY st \in Nat, SMT
        <3>2. (Flag(st, MoreResults) <=> a = 1) /\ (Flag(st, StateChanged) <=> b = 1)
            BY ONLY <3>1, st \in Nat, a \in Int, b \in Int, FlagIs
        <3> QED BY ONLY <2>3, <3>1, <3>2
    <2>5. st < Limit(2)
        BY ONLY <2>3, SMT DEF Limit
    <2> QED BY ONLY <1>2, <2>2, <2>4, <2>5, st \in Nat, Zenon
<1>3. ASSUME ~more /\ changed PROVE Right(StatusOf(more, changed))
    <2>1. PICK st \in Nat : st = 16386
        BY SMT
    <2>2. StatusOf(more, changed) = st
        BY <1>3, <2>1, SMT DEF StatusOf
    <2>3. st < 65536 /\ (st \div 8) % 2 = 0 /\ (st \div 16384) % 2 = 1
        BY ONLY <2>1, SMT
    <2>4. ~Flag(st, MoreResults) /\ Flag(st, StateChanged)
        <3>1. PICK a \in Int, b \in Int : a = (st \div 8) % 2 /\ b = (st \div 16384) % 2
            BY ONLY st \in Nat, SMT
        <3>2. (Flag(st, MoreResults) <=> a = 1) /\ (Flag(st, StateChanged) <=> b = 1)
            BY ONLY <3>1, st \in Nat, a \in Int, b \in Int, FlagIs
        <3> QED BY ONLY <2>3, <3>1, <3>2
    <2>5. st < Limit(2)
        BY ONLY <2>3, SMT DEF Limit
    <2> QED BY ONLY <1>3, <2>2, <2>4, <2>5, st \in Nat, Zenon
<1>4. ASSUME ~more /\ ~changed PROVE Right(StatusOf(more, changed))
    <2>1. PICK st \in Nat : st = 2
        BY SMT
    <2>2. StatusOf(more, changed) = st
        BY <1>4, <2>1, SMT DEF StatusOf
    <2>3. st < 65536 /\ (st \div 8) % 2 = 0 /\ (st \div 16384) % 2 = 0
        BY ONLY <2>1, SMT
    <2>4. ~Flag(st, MoreResults) /\ ~Flag(st, StateChanged)
        <3>1. PICK a \in Int, b \in Int : a = (st \div 8) % 2 /\ b = (st \div 16384) % 2
            BY ONLY st \in Nat, SMT
        <3>2. (Flag(st, MoreResults) <=> a = 1) /\ (Flag(st, StateChanged) <=> b = 1)
            BY ONLY <3>1, st \in Nat, a \in Int, b \in Int, FlagIs
        <3> QED BY ONLY <2>3, <3>1, <3>2
    <2>5. st < Limit(2)
        BY ONLY <2>3, SMT DEF Limit
    <2> QED BY ONLY <1>4, <2>2, <2>4, <2>5, st \in Nat, Zenon
<1>5. Right(StatusOf(more, changed))
    BY <1>1, <1>2, <1>3, <1>4, Zenon
<1> QED BY <1>5, Zenon

LEMMA ContinuesFirst ==
    ASSUME NEW S, NEW a \in Seq(S), NEW x \in Seq(S)
    PROVE  Continues(a \o x, a, S)
BY DEF Continues

LEMMA ContinuesOn ==
    ASSUME NEW S, NEW a \in Seq(S), NEW b, Continues(b, a, S), NEW x \in Seq(S)
    PROVE  Continues(b \o x, a, S)
<1>1. PICK y \in Seq(S) : b = a \o y
    BY DEF Continues
<1>2. (a \o y) \o x = a \o (y \o x) /\ y \o x \in Seq(S)
    BY ONLY a \in Seq(S), y \in Seq(S), x \in Seq(S)
<1> QED BY ONLY <1>1, <1>2 DEF Continues

\* What is found after u.
Found(packet, u, x, S) ==
    /\ Continues(From(packet, Len(u) + 1), x, S)
    /\ SubSeq(packet, Len(u) + 1, Len(u) + Len(x)) = x
    /\ packet \in Seq(S) /\ Len(packet) >= Len(u) + Len(x)

LEMMA FoundAfter ==
    ASSUME NEW S, NEW u \in Seq(S), NEW x \in Seq(S), NEW packet, Continues(packet, u \o x, S)
    PROVE  Found(packet, u, x, S)
<1>1. PICK y \in Seq(S) : packet = (u \o x) \o y
    BY DEF Continues
<1>2. packet = u \o (x \o y) /\ x \o y \in Seq(S)
    <2>1. (u \o x) \o y = u \o (x \o y) /\ x \o y \in Seq(S)
        BY ONLY u \in Seq(S), x \in Seq(S), y \in Seq(S)
    <2> QED BY ONLY <1>1, <2>1
<1>3. From(packet, Len(u) + 1) = x \o y
    BY ONLY <1>2, u \in Seq(S), AfterPrefix
<1>4. SubSeq(packet, Len(u) + 1, Len(u) + Len(x)) = x
    BY ONLY <1>1, u \in Seq(S), x \in Seq(S), y \in Seq(S), Middle
<1>5. packet \in Seq(S) /\ Len(packet) >= Len(u) + Len(x)
    BY ONLY <1>1, u \in Seq(S), x \in Seq(S), y \in Seq(S)
<1>6. Continues(From(packet, Len(u) + 1), x, S)
    BY ONLY <1>3, y \in Seq(S) DEF Continues
<1> QED BY ONLY <1>4, <1>5, <1>6 DEF Found

\* The fields of an OK packet, one after the other, and what follows them.
FiveFields(packet, a, b, c, d, e, f, S) ==
    /\ Found(packet, a, b, S) /\ Found(packet, a \o b, c, S) /\ Found(packet, (a \o b) \o c, d, S)
    /\ Found(packet, ((a \o b) \o c) \o d, e, S)
    /\ From(packet, Len((((a \o b) \o c) \o d) \o e) + 1) = f
    /\ Len(packet) = Len((((a \o b) \o c) \o d) \o e) + Len(f)
    /\ Len((((a \o b) \o c) \o d) \o e) = Len(a) + Len(b) + Len(c) + Len(d) + Len(e)

LEMMA HasFieldsAt ==
    ASSUME NEW S, NEW a \in Seq(S), NEW b \in Seq(S), NEW c \in Seq(S), NEW d \in Seq(S), NEW e \in Seq(S), NEW f \in Seq(S),
           NEW packet, packet = ((((a \o b) \o c) \o d) \o e) \o f
    PROVE  FiveFields(packet, a, b, c, d, e, f, S)
<1>1. PICK u2 \in Seq(S) : u2 = a \o b
    <2>1. a \o b \in Seq(S)
        BY ONLY a \in Seq(S), b \in Seq(S)
    <2> QED BY <2>1
<1>2. PICK u3 \in Seq(S) : u3 = u2 \o c
    <2>1. u2 \o c \in Seq(S)
        BY ONLY u2 \in Seq(S), c \in Seq(S)
    <2> QED BY <2>1
<1>3. PICK u4 \in Seq(S) : u4 = u3 \o d
    <2>1. u3 \o d \in Seq(S)
        BY ONLY u3 \in Seq(S), d \in Seq(S)
    <2> QED BY <2>1
<1>4. PICK u5 \in Seq(S) : u5 = u4 \o e
    <2>1. u4 \o e \in Seq(S)
        BY ONLY u4 \in Seq(S), e \in Seq(S)
    <2> QED BY <2>1
<1>5. packet = u5 \o f
    BY ONLY <1>1, <1>2, <1>3, <1>4, packet = ((((a \o b) \o c) \o d) \o e) \o f
<1>6. Continues(packet, u5, S)
    BY <1>5, ContinuesFirst
<1>7. Continues(packet, u4, S) /\ Continues(packet, u3, S) /\ Continues(packet, u2, S)
    <2>1. Continues(u5, u4, S) /\ Continues(u4, u3, S) /\ Continues(u3, u2, S)
        BY <1>2, <1>3, <1>4, ContinuesFirst
    <2>2. Continues(packet, u4, S)
        BY <1>5, <2>1, ContinuesOn
    <2>3. Continues(u5, u3, S) /\ Continues(u4, u2, S)
        BY <1>3, <1>4, <2>1, ContinuesOn
    <2>4. Continues(u5, u2, S)
        BY <1>4, <2>3, ContinuesOn
    <2> QED BY <1>5, <2>2, <2>3, <2>4, ContinuesOn
<1>8. Found(packet, a, b, S)
    BY <1>1, <1>7, FoundAfter
<1>9. Found(packet, u2, c, S)
    BY <1>2, <1>7, FoundAfter
<1>10. Found(packet, u3, d, S)
    BY <1>3, <1>7, FoundAfter
<1>11. Found(packet, u4, e, S)
    BY <1>4, <1>6, FoundAfter
<1>12. From(packet, Len(u5) + 1) = f /\ Len(packet) = Len(u5) + Len(f)
    <2>1. From(u5 \o f, Len(u5) + 1) = f
        BY AfterPrefix
    <2>2. Len(u5 \o f) = Len(u5) + Len(f)
        BY ONLY u5 \in Seq(S), f \in Seq(S)
    <2> QED BY ONLY <1>5, <2>1, <2>2
<1>13. Len(u5) = Len(a) + Len(b) + Len(c) + Len(d) + Len(e)
    <2>1. Len(u2) = Len(a) + Len(b)
        BY ONLY <1>1, a \in Seq(S), b \in Seq(S)
    <2>2. Len(u3) = Len(u2) + Len(c)
        BY ONLY <1>2, u2 \in Seq(S), c \in Seq(S)
    <2>3. Len(u4) = Len(u3) + Len(d)
        BY ONLY <1>3, u3 \in Seq(S), d \in Seq(S)
    <2>4. Len(u5) = Len(u4) + Len(e)
        BY ONLY <1>4, u4 \in Seq(S), e \in Seq(S)
    <2> QED BY ONLY <2>1, <2>2, <2>3, <2>4
<1> QED BY ONLY <1>1, <1>2, <1>3, <1>4, <1>8, <1>9, <1>10, <1>11, <1>12, <1>13 DEF FiveFields

FoundStatus(status) == [ok |-> TRUE, status |-> status]
\* packetStatusFlags from the fields behind the status on.
AfterStatus(packet, pos, status, track) ==
    IF pos = Len(packet) + 1 \/ ~track THEN FoundStatus(status)
    ELSE LET info == ReadLengthEncodedString(From(packet, pos)) IN
         IF ~info.ok THEN Fail
         ELSE IF ~Flag(status, StateChanged)
              THEN IF pos + info.used = Len(packet) + 1 THEN FoundStatus(status) ELSE Fail
         ELSE LET state == ReadLengthEncodedString(From(packet, pos + info.used)) IN
              IF ~state.ok THEN Fail
              ELSE IF (pos + info.used) + state.used = Len(packet) + 1 THEN FoundStatus(status) ELSE Fail

\* A packet with a number of l bytes, a number of one byte and the status.
StatusAt(packet, l, len, rows, id, status) ==
    /\ packet # <<>> /\ packet[1] = 254 /\ l \in Nat
    /\ rows = ReadLengthEncodedInt(From(packet, 2)) /\ rows.ok /\ rows.used = l
    /\ id = ReadLengthEncodedInt(From(packet, 2 + l)) /\ id.ok /\ id.used = 1
    /\ len \in Nat /\ len = Len(packet) /\ len >= l + 6
    /\ status = UnLE(SubSeq(packet, 3 + l, 4 + l))

LEMMA StatusSteps ==
    ASSUME NEW packet, NEW track, NEW l \in Nat, NEW len \in Nat, NEW rows, NEW id, NEW status \in Nat,
           StatusAt(packet, l, len, rows, id, status)
    PROVE  PacketStatusFlags(packet, 254, track) = AfterStatus(packet, 7 + l, status, track)
<1>0. /\ packet # <<>> /\ packet[1] = 254 /\ l \in Nat
      /\ rows = ReadLengthEncodedInt(From(packet, 2)) /\ rows.ok /\ rows.used = l
      /\ id = ReadLengthEncodedInt(From(packet, 2 + l)) /\ id.ok /\ id.used = 1
      /\ len \in Nat /\ len = Len(packet) /\ len >= l + 6
      /\ status = UnLE(SubSeq(packet, 3 + l, 4 + l))
    BY DEF StatusAt
<1>1. /\ 2 + rows.used = 2 + l /\ (2 + l) + id.used = 3 + l /\ (3 + l) + 4 = 7 + l /\ (3 + l) + 1 = 4 + l
      /\ ~(Len(packet) + 1 < (3 + l) + 4)
    BY ONLY <1>0
<1>2. PacketStatusFlags(packet, 254, track) =
        IF ~rows.ok THEN Fail
        ELSE IF ~ReadLengthEncodedInt(From(packet, 2 + rows.used)).ok
                \/ Len(packet) + 1 < 2 + rows.used + ReadLengthEncodedInt(From(packet, 2 + rows.used)).used + 4 THEN Fail
        ELSE AfterStatus(packet, 2 + rows.used + ReadLengthEncodedInt(From(packet, 2 + rows.used)).used + 4,
                UnLE(SubSeq(packet, 2 + rows.used + ReadLengthEncodedInt(From(packet, 2 + rows.used)).used,
                            2 + rows.used + ReadLengthEncodedInt(From(packet, 2 + rows.used)).used + 1)), track)
    BY ONLY <1>0, Zenon DEF PacketStatusFlags, AfterStatus, FoundStatus, EOFHeader
<1> QED BY ONLY <1>0, <1>1, <1>2

LEMMA FromFrom ==
    ASSUME NEW S, NEW packet \in Seq(S), NEW pos \in Nat, NEW k \in Nat, pos >= 1, pos + k <= Len(packet) + 1
    PROVE  From(packet, pos + k) = From(From(packet, pos), k + 1)
<1>1. PICK m \in Nat : m = Len(packet) /\ pos + k <= m + 1
    OBVIOUS
<1>2. PICK f \in Seq(S) : f = From(packet, pos)
    <2>1. SubSeq(packet, pos, m) \in Seq(S)
        BY <1>1
    <2> QED BY <1>1, <2>1 DEF From
<1>3. Len(f) = m - pos + 1 /\ \A j \in 1..(m - pos + 1) : f[j] = packet[pos + j - 1]
    BY <1>1, <1>2 DEF From
<1>4. PICK g \in Seq(S) : g = From(f, k + 1)
    <2>1. SubSeq(f, k + 1, Len(f)) \in Seq(S)
        BY <1>1, <1>3
    <2> QED BY <2>1 DEF From
<1>5. Len(g) = m - pos + 1 - k /\ \A j \in 1..(m - pos + 1 - k) : g[j] = packet[pos + k + j - 1]
    <2>1. Len(g) = m - pos + 1 - k /\ \A j \in 1..(m - pos + 1 - k) : g[j] = f[k + j]
        BY <1>1, <1>3, <1>4 DEF From
    <2>2. ASSUME NEW j \in 1..(m - pos + 1 - k) PROVE g[j] = packet[pos + k + j - 1]
        <3>1. k + j \in 1..(m - pos + 1) /\ pos + (k + j) - 1 = pos + k + j - 1
            BY <1>1
        <3> QED BY ONLY <1>3, <2>1, <2>2, <3>1
    <2> QED BY <2>1, <2>2
<1>6. PICK e \in Seq(S) : e = From(packet, pos + k)
    <2>1. SubSeq(packet, pos + k, m) \in Seq(S)
        BY <1>1
    <2> QED BY <1>1, <2>1 DEF From
<1>7. Len(e) = m - pos + 1 - k /\ \A j \in 1..(m - pos + 1 - k) : e[j] = packet[pos + k + j - 1]
    <2>1. PICK a \in Nat : a = pos + k /\ a >= 1 /\ a <= m + 1
        BY <1>1
    <2>2. e = SubSeq(packet, a, m)
        BY <1>1, <1>6, <2>1 DEF From
    <2>3. Len(e) = m - a + 1 /\ \A j \in 1..(m - a + 1) : e[j] = packet[a + j - 1]
        BY ONLY <1>1, <2>1, <2>2, packet \in Seq(S), a \in Nat, m \in Nat
    <2> QED BY ONLY <2>1, <2>3, m \in Nat, pos \in Nat, k \in Nat
<1>8. e = g
    BY ONLY <1>5, <1>7, e \in Seq(S), g \in Seq(S)
<1> QED BY ONLY <1>2, <1>4, <1>6, <1>8

\* What may follow the status.
Trailer(f, status, track) ==
    \/ ~track \/ f = <<>>
    \/ ~Flag(status, StateChanged) /\ \E info \in Texts : f = PutLengthEncodedString(info)
    \/ Flag(status, StateChanged) /\ \E info \in Texts, state \in Texts :
          f = PutLengthEncodedString(info) \o PutLengthEncodedString(state)

LEMMA TrailerReads ==
    ASSUME NEW packet \in Seq(Byte), NEW pos \in Nat, pos >= 1, NEW f \in Seq(Byte), From(packet, pos) = f,
           Len(packet) + 1 = pos + Len(f), NEW status \in Nat, NEW track, Trailer(f, status, track)
    PROVE  AfterStatus(packet, pos, status, track) = FoundStatus(status)
<1>0. <<>> \in Seq(Byte)
    OBVIOUS
<1>1. CASE ~track \/ f = <<>>
    <2>1. ~track \/ pos = Len(packet) + 1
        BY <1>1
    <2> QED BY ONLY <2>1 DEF AfterStatus
<1>2. ASSUME ~Flag(status, StateChanged), NEW s \in Texts, f = PutLengthEncodedString(s)
      PROVE  AfterStatus(packet, pos, status, track) = FoundStatus(status)
    <2>1. s \in Seq(Byte) /\ Len(s) < Limit(8)
        BY DEF Texts
    <2>2. PICK info : info = ReadLengthEncodedString(From(packet, pos))
        OBVIOUS
    <2>3. f \o <<>> = f
        BY ONLY f \in Seq(Byte)
    <2>4. info = [ok |-> TRUE, null |-> FALSE, s |-> s, used |-> Len(f)]
        <3>1. ReadLengthEncodedString(f \o <<>>) = [ok |-> TRUE, null |-> FALSE, s |-> s, used |-> Len(f)]
            BY <1>0, <1>2, <2>1, StringReadsBack
        <3> QED BY ONLY <2>2, <2>3, <3>1, From(packet, pos) = f
    <2>5. info.ok /\ pos + info.used = Len(packet) + 1
        BY ONLY <2>4, Len(packet) + 1 = pos + Len(f)
    <2> QED BY ONLY <1>2, <2>2, <2>5 DEF AfterStatus
<1>3. ASSUME Flag(status, StateChanged), NEW s \in Texts, NEW t \in Texts,
             f = PutLengthEncodedString(s) \o PutLengthEncodedString(t)
      PROVE  AfterStatus(packet, pos, status, track) = FoundStatus(status)
    <2>1. s \in Seq(Byte) /\ Len(s) < Limit(8) /\ t \in Seq(Byte) /\ Len(t) < Limit(8)
        BY DEF Texts
    <2>2. PICK x \in Seq(Byte), y \in Seq(Byte) : x = PutLengthEncodedString(s) /\ y = PutLengthEncodedString(t)
        BY <1>0, <2>1, StringReadsBack
    <2>3. f = x \o y
        BY ONLY <1>3, <2>2
    <2>4. PICK a \in Nat, b \in Nat : a = Len(x) /\ b = Len(y) /\ Len(f) = a + b
        BY ONLY <2>3, x \in Seq(Byte), y \in Seq(Byte)
    <2>5. PICK info : info = ReadLengthEncodedString(From(packet, pos))
        OBVIOUS
    <2>6. info = [ok |-> TRUE, null |-> FALSE, s |-> s, used |-> a]
        <3>1. ReadLengthEncodedString(x \o y) = [ok |-> TRUE, null |-> FALSE, s |-> s, used |-> Len(x)]
            BY <2>1, <2>2, StringReadsBack
        <3> QED BY ONLY <2>3, <2>4, <2>5, <3>1, From(packet, pos) = f
    <2>7. info.ok /\ info.used = a
        BY ONLY <2>6
    <2>8. From(packet, pos + a) = y
        <3>1. pos + a <= Len(packet) + 1
            BY ONLY <2>4, Len(packet) + 1 = pos + Len(f), pos \in Nat, a \in Nat, b \in Nat
        <3>2. From(packet, pos + a) = From(From(packet, pos), a + 1)
            BY <3>1, FromFrom
        <3>3. From(x \o y, Len(x) + 1) = y
            BY AfterPrefix
        <3> QED BY ONLY <2>3, <2>4, <3>2, <3>3, From(packet, pos) = f
    <2>9. PICK state : state = ReadLengthEncodedString(From(packet, pos + a))
        OBVIOUS
    <2>10. state = [ok |-> TRUE, null |-> FALSE, s |-> t, used |-> b]
        <3>1. ReadLengthEncodedString(y \o <<>>) = [ok |-> TRUE, null |-> FALSE, s |-> t, used |-> Len(y)]
            BY <1>0, <2>1, <2>2, StringReadsBack
        <3>2. y \o <<>> = y
            BY ONLY y \in Seq(Byte)
        <3> QED BY ONLY <2>4, <2>8, <2>9, <3>1, <3>2
    <2>11. state.ok /\ (pos + a) + state.used = Len(packet) + 1
        <3>1. state.ok /\ state.used = b
            BY ONLY <2>10
        <3> QED BY ONLY <2>4, <3>1, Len(packet) + 1 = pos + Len(f), pos \in Nat, a \in Nat, b \in Nat
    <2> QED BY ONLY <1>3, <2>5, <2>7, <2>9, <2>11 DEF AfterStatus
<1> QED BY <1>1, <1>2, <1>3 DEF Trailer

\* An OK packet with n affected rows, the status and what follows it.
OKPacket(n, status, f) == ((((<<254>> \o PutLengthEncodedInt(n)) \o <<0>>) \o LE(status, 2)) \o <<0, 0>>) \o f

\* The packet is an OK with this status, and not an EOF.
IsOK(packet, status, track) ==
    /\ PacketStatusFlags(packet, 254, track) = FoundStatus(status)
    /\ ~(Len(packet) \in {1, 5})

LEMMA FirstOf ==
    ASSUME NEW S, NEW a \in Seq(S), Len(a) = 1, NEW y \in Seq(S)
    PROVE  a \o y # <<>> /\ (a \o y)[1] = a[1]
OBVIOUS

LEMMA OKReads ==
    ASSUME NEW n \in Nat, n < Limit(8), NEW status \in Nat, status < Limit(2),
           NEW f \in Seq(Byte), NEW track, Trailer(f, status, track), NEW packet, packet = OKPacket(n, status, f)
    PROVE  IsOK(packet, status, track)
<1>1. PICK a \in Seq(Byte) : a = <<254>>
    <2>1. <<254>> \in Seq(Byte)
        BY DEF Byte
    <2> QED BY <2>1
<1>2. PICK b \in Seq(Byte) : b = PutLengthEncodedInt(n)
    BY LenencShape DEF Shaped, Opens
<1>3. PICK c \in Seq(Byte) : c = <<0>>
    <2>1. <<0>> \in Seq(Byte)
        BY DEF Byte
    <2> QED BY <2>1
<1>4. PICK d \in Seq(Byte) : d = LE(status, 2) /\ Len(d) = 2
    <2>1. status \in Int /\ 2 \in Nat
        BY ONLY status \in Nat
    <2>2. LE(status, 2) \in Seq(Byte) /\ Len(LE(status, 2)) = 2
        BY ONLY <2>1, LEType
    <2> QED BY ONLY <2>2
<1>5. PICK e \in Seq(Byte) : e = <<0, 0>>
    <2>1. <<0, 0>> \in Seq(Byte)
        BY DEF Byte
    <2> QED BY <2>1
<1>6. packet = ((((a \o b) \o c) \o d) \o e) \o f
    BY ONLY <1>1, <1>2, <1>3, <1>4, <1>5,
            packet = OKPacket(n, status, f) DEF OKPacket
<1>7. FiveFields(packet, a, b, c, d, e, f, Byte)
    BY ONLY <1>6, a \in Seq(Byte), b \in Seq(Byte), c \in Seq(Byte), d \in Seq(Byte), e \in Seq(Byte), f \in Seq(Byte), HasFieldsAt
<1>8. Len(a) = 1 /\ a[1] = 254 /\ Len(c) = 1 /\ Len(e) = 2
    BY ONLY <1>1, <1>3, <1>5
<1>9. PICK l \in Nat : l = Len(b) /\ l >= 1
    <2>1. Len(b) >= 1
        <3>1. \/ Len(PutLengthEncodedInt(n)) = 1
              \/ \E k \in {2, 3, 8} : Len(PutLengthEncodedInt(n)) = k + 1
            <4>1. Shaped(n, PutLengthEncodedInt(n))
                BY ONLY n \in Nat, n < Limit(8), LenencShape
            <4> QED BY ONLY <4>1, Zenon DEF Shaped, Single, Marked
        <3>2. PICK x : x = Len(PutLengthEncodedInt(n))
            OBVIOUS
        <3>3. x = 1 \/ x = 2 + 1 \/ x = 3 + 1 \/ x = 8 + 1
            BY ONLY <3>1, <3>2
        <3>4. x >= 1
            BY ONLY <3>3
        <3> QED BY ONLY <1>2, <3>2, <3>4
    <2> QED BY ONLY <2>1, b \in Seq(Byte)
<1>10. PICK len \in Nat, m \in Nat : len = Len(packet) /\ m = Len(f) /\ len = (l + 6) + m
    <2>1. Len(packet) = (Len(a) + Len(b) + Len(c) + Len(d) + Len(e)) + Len(f)
        BY ONLY <1>7 DEF FiveFields
    <2>2. Len(packet) = (l + 6) + Len(f)
        BY ONLY <1>4, <1>8, <1>9, <2>1, l \in Nat, f \in Seq(Byte)
    <2> QED BY ONLY <2>2, f \in Seq(Byte), l \in Nat
<1>11. Len(a \o b) = 1 + l /\ Len((a \o b) \o c) = 2 + l
    <2>1. PICK u \in Seq(Byte) : u = a \o b
        <3>1. a \o b \in Seq(Byte)
            BY ONLY a \in Seq(Byte), b \in Seq(Byte)
        <3> QED BY <3>1
    <2>2. Len(u) = Len(a) + Len(b) /\ Len(u \o c) = Len(u) + Len(c)
        BY ONLY <2>1, a \in Seq(Byte), b \in Seq(Byte), c \in Seq(Byte), u \in Seq(Byte)
    <2> QED BY ONLY <1>8, <1>9, <2>1, <2>2, l \in Nat
<1>12. packet \in Seq(Byte) /\ Continues(From(packet, 2), b, Byte)
    <2>1. Found(packet, a, b, Byte)
        BY ONLY <1>7 DEF FiveFields
    <2> QED BY ONLY <1>8, <2>1 DEF Found
<1>13. Continues(From(packet, 2 + l), c, Byte)
    <2>1. Found(packet, a \o b, c, Byte)
        BY ONLY <1>7 DEF FiveFields
    <2>2. (1 + l) + 1 = 2 + l
        BY ONLY l \in Nat
    <2> QED BY ONLY <1>11, <2>1, <2>2 DEF Found
<1>14. SubSeq(packet, 3 + l, 4 + l) = d
    <2>1. Found(packet, (a \o b) \o c, d, Byte)
        BY ONLY <1>7 DEF FiveFields
    <2>2. (2 + l) + 1 = 3 + l /\ (2 + l) + 2 = 4 + l
        BY ONLY l \in Nat
    <2> QED BY ONLY <1>4, <1>11, <2>1, <2>2 DEF Found
<1>15. From(packet, 7 + l) = f
    <2>1. From(packet, Len((((a \o b) \o c) \o d) \o e) + 1) = f
          /\ Len((((a \o b) \o c) \o d) \o e) = Len(a) + Len(b) + Len(c) + Len(d) + Len(e)
        BY ONLY <1>7 DEF FiveFields
    <2>2. Len(a) + Len(b) + Len(c) + Len(d) + Len(e) = 1 + l + 1 + 2 + 2
        BY ONLY <1>4, <1>8, <1>9, Zenon
    <2>3. (1 + l + 1 + 2 + 2) + 1 = 7 + l
        BY ONLY l \in Nat
    <2> QED BY ONLY <2>1, <2>2, <2>3
<1>16. PICK rows : rows = ReadLengthEncodedInt(From(packet, 2)) /\ rows.ok /\ rows.used = l
    <2>1. PICK rest \in Seq(Byte) : From(packet, 2) = b \o rest
        BY <1>12 DEF Continues
    <2>2. ReadLengthEncodedInt(PutLengthEncodedInt(n) \o rest) = Number(n, Len(PutLengthEncodedInt(n)))
        BY LenencReadsBack
    <2>3. ReadLengthEncodedInt(From(packet, 2)) = Number(n, l)
        BY ONLY <1>2, <1>9, <2>1, <2>2
    <2> QED BY ONLY <2>3 DEF Number
<1>17. PICK id : id = ReadLengthEncodedInt(From(packet, 2 + l)) /\ id.ok /\ id.used = 1
    <2>1. PICK rest \in Seq(Byte) : From(packet, 2 + l) = c \o rest
        BY <1>13 DEF Continues
    <2>2. PutLengthEncodedInt(0) = <<0>>
        BY DEF PutLengthEncodedInt
    <2>3. 0 \in Nat /\ 0 < Limit(8)
        BY SMT DEF Limit
    <2>4. ReadLengthEncodedInt(PutLengthEncodedInt(0) \o rest) = Number(0, Len(PutLengthEncodedInt(0)))
        BY <2>3, LenencReadsBack
    <2>5. ReadLengthEncodedInt(From(packet, 2 + l)) = Number(0, 1)
        BY ONLY <1>3, <1>8, <2>1, <2>2, <2>4
    <2> QED BY ONLY <2>5 DEF Number
<1>18. UnLE(SubSeq(packet, 3 + l, 4 + l)) = status
    <2>1. 2 \in FixedWidths
        BY DEF FixedWidths
    <2>2. UnLE(LE(status, 2)) = status
        BY <2>1, UnLEOfLE
    <2> QED BY ONLY <1>4, <1>14, <2>2
<1>19. packet # <<>> /\ packet[1] = 254
    <2>1. PICK y \in Seq(Byte) : packet = a \o y
        <3>1. Continues(packet, a, Byte)
            <4>1. PICK u \in Seq(Byte), v \in Seq(Byte), w \in Seq(Byte), x \in Seq(Byte) :
                    u = a \o b /\ v = u \o c /\ w = v \o d /\ x = w \o e
                <5>1. PICK u \in Seq(Byte) : u = a \o b
                    <6>1. a \o b \in Seq(Byte)
                        BY ONLY a \in Seq(Byte), b \in Seq(Byte)
                    <6> QED BY <6>1
                <5>2. PICK v \in Seq(Byte) : v = u \o c
                    <6>1. u \o c \in Seq(Byte)
                        BY ONLY u \in Seq(Byte), c \in Seq(Byte)
                    <6> QED BY <6>1
                <5>3. PICK w \in Seq(Byte) : w = v \o d
                    <6>1. v \o d \in Seq(Byte)
                        BY ONLY v \in Seq(Byte), d \in Seq(Byte)
                    <6> QED BY <6>1
                <5>4. PICK x \in Seq(Byte) : x = w \o e
                    <6>1. w \o e \in Seq(Byte)
                        BY ONLY w \in Seq(Byte), e \in Seq(Byte)
                    <6> QED BY <6>1
                <5> QED BY ONLY <5>1, <5>2, <5>3, <5>4, u \in Seq(Byte), v \in Seq(Byte), w \in Seq(Byte), x \in Seq(Byte)
            <4>2. Continues(u, a, Byte)
                BY <4>1, ContinuesFirst
            <4>3. Continues(v, a, Byte)
                BY <4>1, <4>2, ContinuesOn
            <4>4. Continues(w, a, Byte)
                BY <4>1, <4>3, ContinuesOn
            <4>5. Continues(x, a, Byte)
                BY <4>1, <4>4, ContinuesOn
            <4>6. packet = x \o f
                BY ONLY <1>6, <4>1
            <4> QED BY ONLY <4>5, <4>6, a \in Seq(Byte), f \in Seq(Byte), ContinuesOn
        <3> QED BY <3>1 DEF Continues
    <2> QED BY ONLY <1>8, <2>1, a \in Seq(Byte), y \in Seq(Byte), FirstOf
<1>20. PacketStatusFlags(packet, 254, track) = AfterStatus(packet, 7 + l, status, track)
    <2>1. len >= l + 6
        BY ONLY <1>10, l \in Nat, m \in Nat, len \in Nat
    <2>2. StatusAt(packet, l, len, rows, id, status)
        BY ONLY <1>10, <1>16, <1>17, <1>18, <1>19, <2>1, l \in Nat, len \in Nat DEF StatusAt
    <2> QED BY ONLY <2>2, l \in Nat, len \in Nat, status \in Nat, StatusSteps
<1>21. AfterStatus(packet, 7 + l, status, track) = FoundStatus(status)
    <2>1. 7 + l \in Nat /\ 7 + l >= 1 /\ Len(packet) + 1 = (7 + l) + Len(f)
        BY ONLY <1>10, l \in Nat, m \in Nat, len \in Nat
    <2>2. PICK pos \in Nat : pos = 7 + l
        BY ONLY <2>1
    <2>3. /\ packet \in Seq(Byte) /\ pos >= 1 /\ From(packet, pos) = f
          /\ Len(packet) + 1 = pos + Len(f)
        BY ONLY <1>12, <1>15, <2>1, <2>2
    <2>4. AfterStatus(packet, pos, status, track) = FoundStatus(status)
        BY ONLY <2>3, f \in Seq(Byte), pos \in Nat, status \in Nat, Trailer(f, status, track), TrailerReads
    <2> QED BY ONLY <2>2, <2>4
<1>22. ~(Len(packet) \in {1, 5})
    BY ONLY <1>9, <1>10, l \in Nat, m \in Nat, len \in Nat
<1> QED BY ONLY <1>20, <1>21, <1>22 DEF IsOK

\* A terminator of the server: an OK or an EOF packet with the flags more and changed, any number of
\* affected rows, and an info text.  Without session tracking no session state is sent.
TermInput(p) ==
    /\ p.ok \in BOOLEAN /\ p.track \in BOOLEAN /\ p.more \in BOOLEAN /\ p.changed \in BOOLEAN
    /\ p.affected \in Nat /\ p.affected < Limit(8) /\ p.info \in Texts
    /\ ~p.track => ~p.changed

LEMMA TrailerOf ==
    ASSUME NEW info \in Texts, NEW track \in BOOLEAN, NEW changed \in BOOLEAN, NEW status,
           Flag(status, StateChanged) <=> changed, NEW f,
           f = IF ~track THEN info
               ELSE IF changed THEN PutLengthEncodedString(info) \o PutLengthEncodedString(<<0, 1, 9>>)
               ELSE IF info = <<>> THEN <<>> ELSE PutLengthEncodedString(info)
    PROVE  f \in Seq(Byte) /\ Trailer(f, status, track)
<1>0. <<>> \in Seq(Byte)
    OBVIOUS
<1>1. PICK state \in Texts : state = <<0, 1, 9>>
    <2>1. 0 \in Byte /\ 1 \in Byte /\ 9 \in Byte
        BY DEF Byte
    <2>2. <<0, 1, 9>> \in Seq(Byte) /\ Len(<<0, 1, 9>>) = 3
        BY ONLY <2>1
    <2>3. 3 < Limit(8)
        BY SMT DEF Limit
    <2>4. <<0, 1, 9>> \in Texts
        BY ONLY <2>2, <2>3 DEF Texts
    <2> QED BY ONLY <2>4
<1>2. info \in Seq(Byte) /\ Len(info) < Limit(8) /\ state \in Seq(Byte) /\ Len(state) < Limit(8)
    BY DEF Texts
<1>3. PICK x \in Seq(Byte), y \in Seq(Byte) : x = PutLengthEncodedString(info) /\ y = PutLengthEncodedString(state)
    BY <1>0, <1>2, StringReadsBack
<1>4. x \o y \in Seq(Byte)
    BY ONLY x \in Seq(Byte), y \in Seq(Byte)
<1>5. f = IF ~track THEN info ELSE IF changed THEN x \o y ELSE IF info = <<>> THEN <<>> ELSE x
    BY <1>1, <1>3
<1>6. CASE ~track
    BY ONLY <1>2, <1>5, <1>6 DEF Trailer
<1>7. CASE track /\ changed
    <2>1. f = x \o y
        BY ONLY <1>5, <1>7
    <2> QED BY <1>3, <1>4, <1>7, <2>1 DEF Trailer
<1>8. CASE track /\ ~changed
    <2>1. f = <<>> \/ f = x
        BY ONLY <1>5, <1>8
    <2> QED BY <1>0, <1>3, <1>8, <2>1 DEF Trailer
<1> QED BY ONLY <1>6, <1>7, <1>8, track \in BOOLEAN, changed \in BOOLEAN

\* Every terminator is recognised, in the mode it is sent in, with its MORE_RESULTS flag, whatever the
\* counts, the info text and the session state in it (packetStatusFlags, IsEOFPacket).
THEOREM TerminatorRecognised ==
    ASSUME NEW p, TermInput(p)
    PROVE  /\ IsResultSetTerminatorForMode(ServerTerminator(p), p.ok, p.track)
           /\ ResultSetTerminatorHasMoreResults(ServerTerminator(p), p.track) <=> p.more
<1>1. PICK ok \in BOOLEAN, track \in BOOLEAN, more \in BOOLEAN, changed \in BOOLEAN, n \in Nat, info \in Texts :
          /\ ok = p.ok /\ track = p.track /\ more = p.more /\ changed = p.changed /\ n = p.affected /\ info = p.info
          /\ n < Limit(8)
    BY DEF TermInput
<1>2. PICK status \in Nat : status = StatusOf(more, changed) /\ status < Limit(2)
    BY StatusFlags
<1>3. (Flag(status, MoreResults) <=> more) /\ (Flag(status, StateChanged) <=> changed)
    BY <1>2, StatusFlags
<1>4. PICK packet : packet = ServerTerminator(p)
    OBVIOUS
<1>5. CASE ok
    <2>0. PICK f : f = ServerTrailer(p)
        OBVIOUS
    <2>1. f = IF ~track THEN info
              ELSE IF changed THEN PutLengthEncodedString(info) \o PutLengthEncodedString(<<0, 1, 9>>)
              ELSE IF info = <<>> THEN <<>> ELSE PutLengthEncodedString(info)
        BY ONLY <1>1, <2>0, Zenon DEF ServerTrailer
    <2>2. f \in Seq(Byte) /\ Trailer(f, status, track)
        BY ONLY <1>3, <2>1, info \in Texts, track \in BOOLEAN, changed \in BOOLEAN, status \in Nat, TrailerOf
    <2>3. packet = OKPacket(n, status, f)
        <3>1. p.ok
            BY ONLY <1>1, <1>5, Zenon
        <3>2. packet = OKPacket(p.affected, StatusOf(p.more, p.changed), f)
            BY ONLY <1>4, <2>0, <3>1, SMT DEF ServerTerminator, StatusOf, OKPacket
        <3>3. status = StatusOf(p.more, p.changed)
            BY ONLY <1>1, <1>2, Zenon
        <3> QED BY ONLY <1>1, <3>2, <3>3
    <2>4. IsOK(packet, status, track)
        <3>1. n < Limit(8) /\ status < Limit(2)
            BY ONLY <1>1, <1>2
        <3> QED BY ONLY <2>2, <2>3, <3>1, n \in Nat, status \in Nat, OKReads
    <2>5. /\ PacketStatusFlags(packet, EOFHeader, track) = FoundStatus(status)
          /\ ~IsEOFPacket(packet)
        BY ONLY <2>4 DEF IsOK, IsEOFPacket, EOFHeader
    <2>6. FoundStatus(status).ok /\ FoundStatus(status).status = status
        BY ONLY TRUE DEF FoundStatus
    <2>7. IsResultSetTerminatorForMode(packet, ok, track)
        BY ONLY <1>5, <2>5, <2>6 DEF IsResultSetTerminatorForMode, IsResultSetOKPacket
    <2>8. ResultSetTerminatorHasMoreResults(packet, track) <=> more
        BY ONLY <1>3, <2>5, <2>6 DEF ResultSetTerminatorHasMoreResults
    <2> QED BY ONLY <1>1, <1>4, <2>7, <2>8
<1>6. CASE ~ok
    <2>1. packet = <<254, 0, 0>> \o LE(status, 2)
        <3>1. ~p.ok /\ status = StatusOf(p.more, p.changed)
            BY ONLY <1>1, <1>2, <1>6, Zenon
        <3>2. packet = <<254, 0, 0>> \o LE(StatusOf(p.more, p.changed), 2)
            BY ONLY <1>4, <3>1, SMT DEF ServerTerminator, StatusOf
        <3> QED BY ONLY <3>1, <3>2
    <2>2. PICK a \in Seq(Byte) : a = <<254, 0, 0>> /\ Len(a) = 3 /\ a[1] = 254
        <3>1. 254 \in Byte /\ 0 \in Byte
            BY DEF Byte
        <3>2. <<254, 0, 0>> \in Seq(Byte)
            BY ONLY <3>1
        <3> QED BY ONLY <3>2
    <2>3. PICK d \in Seq(Byte) : d = LE(status, 2) /\ Len(d) = 2
        <3>1. status \in Int /\ 2 \in Nat
            BY ONLY status \in Nat
        <3>2. LE(status, 2) \in Seq(Byte) /\ Len(LE(status, 2)) = 2
            BY ONLY <3>1, LEType
        <3> QED BY ONLY <3>2
    <2>4. packet = a \o d
        BY ONLY <2>1, <2>2, <2>3
    <2>4a. Len(a) = 3 /\ a[1] = 254 /\ Len(d) = 2
        BY ONLY <2>2, <2>3
    <2>5. Len(packet) = 5 /\ packet[1] = 254
        <3>1. Beside(a \o d, a, d, 3, 2, Byte)
            <4>1. PICK x \in Nat, y \in Nat : x = 3 /\ y = 2
                OBVIOUS
            <4>2. Len(a) = x /\ Len(d) = y
                BY ONLY <2>4a, <4>1
            <4>3. Beside(a \o d, a, d, x, y, Byte)
                BY ONLY <4>2, x \in Nat, y \in Nat, a \in Seq(Byte), d \in Seq(Byte), Concatenation
            <4> QED BY ONLY <4>1, <4>3
        <3>2. Len(packet) = 3 + 2 /\ packet[1] = a[1]
            BY ONLY <2>4, <3>1 DEF Beside
        <3> QED BY ONLY <2>4a, <3>2
    <2>6. SubSeq(packet, 4, 5) = d
        <3>1. <<>> \in Seq(Byte) /\ packet = (a \o d) \o <<>>
            BY ONLY <2>4, a \in Seq(Byte), d \in Seq(Byte)
        <3>2. SubSeq(packet, Len(a) + 1, Len(a) + Len(d)) = d
            BY ONLY <3>1, a \in Seq(Byte), d \in Seq(Byte), Middle
        <3>3. Len(a) + 1 = 4 /\ Len(a) + Len(d) = 5
            BY ONLY <2>4a
        <3> QED BY ONLY <3>2, <3>3
    <2>7. UnLE(SubSeq(packet, 4, 5)) = status
        <3>1. 2 \in FixedWidths
            BY DEF FixedWidths
        <3>2. UnLE(LE(status, 2)) = status
            BY ONLY <1>2, <3>1, status \in Nat, UnLEOfLE
        <3> QED BY ONLY <2>3, <2>6, <3>2
    <2>8. IsEOFPacket(packet)
        BY ONLY <2>5 DEF IsEOFPacket, EOFHeader
    <2>9. IsResultSetTerminatorForMode(packet, ok, track)
        BY ONLY <1>6, <2>8 DEF IsResultSetTerminatorForMode
    <2>10. ResultSetTerminatorHasMoreResults(packet, track) <=> more
        BY ONLY <1>3, <2>5, <2>7, <2>8 DEF ResultSetTerminatorHasMoreResults
    <2> QED BY ONLY <1>1, <1>4, <2>9, <2>10
<1> QED BY ONLY <1>5, <1>6

LEMMA OtherHeader ==
    ASSUME NEW packet, packet = <<>> \/ packet[1] # EOFHeader, NEW ok, NEW track
    PROVE  ~IsResultSetTerminatorForMode(packet, ok, track)
<1>1. PacketStatusFlags(packet, EOFHeader, track) = Fail
    BY Zenon DEF PacketStatusFlags
<1>2. ~Fail.ok
    BY DEF Fail
<1>3. ~IsEOFPacket(packet)
    <2>1. packet = <<>> => Len(packet) = 0
        OBVIOUS
    <2> QED BY <2>1 DEF IsEOFPacket
<1> QED BY <1>1, <1>2, <1>3 DEF IsResultSetTerminatorForMode, IsResultSetOKPacket

\* No binary row is taken for a terminator: it starts with 0 (isResultSetTerminatorForMode).
THEOREM BinaryRowNotTerminator ==
    ASSUME NEW n, NEW types, NEW vals, BinaryRow(n, types, vals), NEW ok, NEW track
    PROVE  ~IsResultSetTerminatorForMode(ServerRow(vals, types), ok, track)
<1>1. PICK b : b = ServerRow(vals, types)
    OBVIOUS
<1>2. <<>> \in Seq(Byte) /\ Agrees(<<>>, b)
    BY DEF Agrees
<1>3. b \in Seq(Byte)
    BY <1>1, <1>2, BinaryRowReadsBack
<1>4. Agrees(b, b)
    BY DEF Agrees
<1>5. RowDecoded(b, types, b, vals)
    BY <1>1, <1>3, <1>4, BinaryRowReadsBack
<1>6. ParseBinaryRow(b, types) # Fail
    <2>1. ParseBinaryRow(b, types) = [ok |-> TRUE, vals |-> vals]
        BY <1>5 DEF RowDecoded
    <2>2. PICK x : x = [ok |-> TRUE, vals |-> vals]
        OBVIOUS
    <2>3. x.ok /\ ~Fail.ok
        BY <2>2 DEF Fail
    <2> QED BY ONLY <2>1, <2>2, <2>3
<1>7. b = <<>> \/ b[1] # 0 => ParseBinaryRow(b, types) = Fail
    BY Zenon DEF ParseBinaryRow
<1>8. b[1] = 0
    BY <1>6, <1>7
<1>9. b[1] # EOFHeader
    BY <1>8 DEF EOFHeader
<1> QED BY <1>1, <1>9, OtherHeader

LEMMA TextCellStarts ==
    ASSUME NEW v \in TextValues, v = Null \/ Len(v.s) < Huge
    PROVE  TextCell(v) \in Seq(Byte) /\ Len(TextCell(v)) >= 1 /\ TextCell(v)[1] # EOFHeader
<1>1. CASE v = Null
    <2>1. TextCell(v) = <<251>> /\ <<251>> \in Seq(Byte) /\ Len(<<251>>) = 1
        BY <1>1 DEF TextCell, Byte
    <2> QED BY <2>1 DEF EOFHeader
<1>2. CASE v # Null
    <2>1. PICK s \in Texts : v = String(s)
        BY <1>2 DEF TextValues
    <2>2. PICK n \in Nat : n = Len(s) /\ n < Limit(8) /\ s \in Seq(Byte) /\ v.s = s /\ n < Huge
        BY <1>2, <2>1 DEF Texts, String
    <2>3. PICK b \in Seq(Byte) : b = PutLengthEncodedInt(n)
        BY <2>2, LenencShape DEF Shaped, Opens
    <2>4. TextCell(v) = b \o s
        BY <1>2, <2>2, <2>3 DEF TextCell, PutLengthEncodedString
    <2>5. Len(b) >= 1 /\ b[1] # EOFHeader
        <3>1. \/ n < 251 /\ b = <<n>>
              \/ \E k \in {2, 3, 8} : b = <<Mark(k)>> \o LE(n, k) /\ (k = 8 => n >= Huge)
            <4>1. n < Limit(8)
                BY ONLY <2>2
            <4>2. \/ n < 251 /\ PutLengthEncodedInt(n) = <<n>>
                  \/ \E k \in {2, 3, 8} : PutLengthEncodedInt(n) = <<Mark(k)>> \o LE(n, k) /\ (k = 8 => n >= Huge)
                <5>1. Shaped(n, PutLengthEncodedInt(n))
                    BY ONLY <4>1, n \in Nat, LenencShape
                <5> QED BY ONLY <5>1, Zenon DEF Shaped, Single, Marked
            <4> QED BY ONLY <2>3, <4>2
        <3>2. CASE n < 251 /\ b = <<n>>
            BY ONLY <3>2, n \in Nat DEF EOFHeader
        <3>3. CASE \E k \in {2, 3, 8} : b = <<Mark(k)>> \o LE(n, k) /\ (k = 8 => n >= Huge)
            <4>1. PICK k \in {2, 3} : b = <<Mark(k)>> \o LE(n, k)
                <5>1. ~(n >= Huge)
                    BY ONLY <2>2, n \in Nat, SMT DEF Huge
                <5> QED BY ONLY <3>3, <5>1
            <4>2. PICK h \in Byte : h = Mark(k) /\ h # EOFHeader
                BY ONLY k \in {2, 3} DEF Mark, Byte, EOFHeader
            <4>3. PICK e \in Seq(Byte) : e = LE(n, k)
                <5>1. n \in Int /\ k \in Nat
                    BY ONLY n \in Nat, k \in {2, 3}
                <5>2. LE(n, k) \in Seq(Byte)
                    BY ONLY <5>1, LEType
                <5> QED BY ONLY <5>2
            <4>4. b = <<h>> \o e
                BY ONLY <4>1, <4>2, <4>3
            <4>5. Len(b) >= 1 /\ b[1] = h
                BY ONLY <4>4, h \in Byte, e \in Seq(Byte)
            <4> QED BY ONLY <4>2, <4>5
        <3> QED BY ONLY <3>1, <3>2, <3>3
    <2>6. b \o s \in Seq(Byte) /\ Len(b \o s) >= 1 /\ (b \o s)[1] = b[1]
        BY ONLY <2>2, <2>5, b \in Seq(Byte)
    <2> QED BY ONLY <2>4, <2>5, <2>6
<1> QED BY <1>1, <1>2

\* No text row is taken for a terminator, unless its first value has 16 MB or more: then its length
\* starts with the byte of a terminator (isResultSetTerminatorForMode, putLengthEncodedInt).
THEOREM TextRowNotTerminator ==
    ASSUME NEW vals \in Seq(TextValues), vals = <<>> \/ vals[1] = Null \/ Len(vals[1].s) < Huge, NEW ok, NEW track
    PROVE  ~IsResultSetTerminatorForMode(ServerTextRow(vals), ok, track)
<1>0. PICK n \in Nat : n = Len(vals)
    OBVIOUS
<1>1. DOMAIN vals = 1..n /\ \A i \in 1..n : vals[i] \in TextValues
    BY <1>0
<1> DEFINE p == [i \in DOMAIN vals |-> TextCell(vals[i])]
<1>2. PICK packet : packet = ServerTextRow(vals) /\ packet = FlattenSeq(p)
    BY DEF ServerTextRow, TextCell
<1>3. DOMAIN p = 1..n /\ Len(p) = n /\ \A i \in 1..n : p[i] = TextCell(vals[i])
    BY <1>0, <1>1
<1>4. ASSUME NEW i \in 1..n PROVE p[i] \in Seq(Byte)
    <2>1. <<>> \in Seq(Byte)
        OBVIOUS
    <2> QED BY <1>1, <1>3, <2>1, TextCellReads
<1> HIDE DEF p
<1>5. PICK q : Joins(q, p, n, Byte) /\ FlattenSeq(p) = q[n]
    BY <1>3, <1>4, FlattenChain
<1>6. CASE n = 0
    <2>1. packet = <<>>
        BY ONLY <1>2, <1>5, <1>6 DEF Joins
    <2> QED BY ONLY <1>2, <2>1, OtherHeader
<1>7. CASE n >= 1
    <2>1. 1 \in 1..n /\ vals # <<>>
        BY ONLY <1>0, <1>7, n \in Nat
    <2>2. PICK c \in Seq(Byte) : c = p[1] /\ Len(c) >= 1 /\ c[1] # EOFHeader
        <3>1. PICK v \in TextValues : v = vals[1] /\ (v = Null \/ Len(v.s) < Huge)
            BY <1>1, <2>1
        <3>2. TextCell(v) \in Seq(Byte) /\ Len(TextCell(v)) >= 1 /\ TextCell(v)[1] # EOFHeader
            BY ONLY <3>1, v \in TextValues, TextCellStarts
        <3>3. p[1] = TextCell(v)
            BY ONLY <1>3, <2>1, <3>1
        <3> QED BY ONLY <3>2, <3>3
    <2>3. q[1] = c
        <3>1. q[0] = <<>> /\ q[1] = q[1 - 1] \o p[1]
            BY ONLY <1>5, <2>1 DEF Joins
        <3>2. 1 - 1 = 0
            OBVIOUS
        <3>3. q[1] = <<>> \o c
            BY ONLY <2>2, <3>1, <3>2
        <3> QED BY ONLY <3>3, c \in Seq(Byte)
    <2>4. PICK x \in Seq(Byte) : packet = c \o x
        <3>1. 1 \in 0..n
            BY ONLY <2>1, n \in Nat
        <3>2. Continues(q[n], q[1], Byte)
            BY ONLY <1>5, <3>1, n \in Nat, JoinsRest
        <3> QED BY ONLY <1>2, <1>5, <2>3, <3>2 DEF Continues
    <2>5. packet[1] = c[1]
        BY ONLY <2>2, <2>4, c \in Seq(Byte), x \in Seq(Byte)
    <2>6. packet[1] # EOFHeader
        BY ONLY <2>2, <2>5
    <2> QED BY ONLY <1>2, <2>6, OtherHeader
<1> QED BY ONLY <1>6, <1>7, n \in Nat

(***************************************************************************)
(* Parameters: the server takes value after value.                         *)
(***************************************************************************)
Left(rest, got) == [rest |-> rest, vals |-> got]

\* The step of the fold takes v from the piece, whatever follows it.
Takes(kind, w, piece, v, i) ==
    \A rest \in Seq(Byte) : \A got :
        FoldStep(kind, w, Left(piece \o rest, got), i) = Left(rest, Append(got, v))

TakenOf(kind, w, n, p, q, vals, V, r) ==
    /\ Joins(q, p, n, Byte) /\ vals \in Seq(V) /\ Len(vals) = n
    /\ \A i \in 1..n : Takes(kind, w, p[i], vals[i], i)
    /\ FoldVia(r, kind, w, Left(q[n], <<>>), [i \in 1..n |-> i], n)

\* Then all values are taken, and nothing is left over.
LEMMA AllTaken ==
    ASSUME NEW n \in Nat, NEW kind, NEW w, NEW p, NEW q, NEW vals, NEW V, NEW r,
           TakenOf(kind, w, n, p, q, vals, V, r)
    PROVE  r[n] = Left(<<>>, vals)
<1>1. /\ Joins(q, p, n, Byte) /\ vals \in Seq(V) /\ Len(vals) = n
      /\ \A i \in 1..n : Takes(kind, w, p[i], vals[i], i)
      /\ FoldVia(r, kind, w, Left(q[n], <<>>), [i \in 1..n |-> i], n)
    BY DEF TakenOf
<1> USE <1>1
<1> DEFINE Right(i) == \E x \in Seq(Byte) : q[n] = q[i] \o x /\ r[i] = Left(x, SubSeq(vals, 1, i))
           T == {i \in Nat : i <= n => Right(i)}
<1>2. Right(0)
    <2>1. q[n] \in Seq(Byte)
        BY JoinsType
    <2>2. q[n] = q[0] \o q[n]
        BY <2>1 DEF Joins
    <2>3. r[0] = Left(q[n], <<>>) /\ SubSeq(vals, 1, 0) = <<>>
        BY DEF FoldVia
    <2> QED BY <2>1, <2>2, <2>3
<1>3. ASSUME NEW i \in 1..n, Right(i - 1) PROVE Right(i)
    <2>1. i - 1 \in 0..n /\ i \in 0..n /\ i \in 1..Len(vals)
        OBVIOUS
    <2>2. PICK y \in Seq(Byte) : q[n] = q[i - 1] \o y /\ r[i - 1] = Left(y, SubSeq(vals, 1, i - 1))
        BY <1>3
    <2>3. PICK a \in Seq(Byte), b \in Seq(Byte) : a = q[i - 1] /\ b = p[i] /\ q[i] = a \o b
        <3>1. q[i - 1] \in Seq(Byte)
            BY <2>1, JoinsType
        <3>2. p[i] \in Seq(Byte) /\ q[i] = q[i - 1] \o p[i]
            BY DEF Joins
        <3> QED BY ONLY <3>1, <3>2
    <2>4. PICK x \in Seq(Byte) : q[n] = q[i] \o x
        <3>1. Continues(q[n], q[i], Byte)
            BY <2>1, JoinsRest
        <3> QED BY ONLY <3>1 DEF Continues
    <2>5. y = b \o x
        <3>1. a \o y = a \o (b \o x) /\ b \o x \in Seq(Byte)
            <4>1. (a \o b) \o x = a \o (b \o x) /\ b \o x \in Seq(Byte)
                BY ONLY a \in Seq(Byte), b \in Seq(Byte), x \in Seq(Byte)
            <4> QED BY ONLY <2>2, <2>3, <2>4, <4>1
        <3>2. From(a \o y, Len(a) + 1) = y
            BY ONLY a \in Seq(Byte), y \in Seq(Byte), AfterPrefix
        <3>3. From(a \o (b \o x), Len(a) + 1) = b \o x
            BY ONLY <3>1, a \in Seq(Byte), AfterPrefix
        <3> QED BY ONLY <3>1, <3>2, <3>3
    <2>6. r[i] = FoldStep(kind, w, r[i - 1], i)
        BY DEF FoldVia
    <2>7. Takes(kind, w, b, vals[i], i)
        BY <2>3
    <2>8. r[i] = Left(x, Append(SubSeq(vals, 1, i - 1), vals[i]))
        BY ONLY <2>2, <2>5, <2>6, <2>7, x \in Seq(Byte) DEF Takes
    <2>9. Append(SubSeq(vals, 1, i - 1), vals[i]) = SubSeq(vals, 1, i)
        BY <2>1, NextPrefix
    <2> QED BY ONLY <2>4, <2>8, <2>9, x \in Seq(Byte)
<1> HIDE DEF Right
<1>4. Nat \subseteq T
    <2>1. 0 \in T
        BY <1>2
    <2>2. ASSUME NEW i \in T PROVE i + 1 \in T
        <3>1. i + 1 <= n => i + 1 \in 1..n /\ (i + 1) - 1 = i /\ Right(i)
            OBVIOUS
        <3> QED BY <3>1, <1>3
    <2> HIDE DEF T
    <2>3. T \subseteq Nat
        BY DEF T
    <2> QED BY <2>1, <2>2, <2>3, NatSets
<1>5. Right(n)
    BY <1>4
<1>6. PICK x \in Seq(Byte) : q[n] = q[n] \o x /\ r[n] = Left(x, SubSeq(vals, 1, n))
    BY <1>5 DEF Right
<1>7. PICK a \in Seq(Byte) : a = q[n] /\ a = a \o x
    <2>1. q[n] \in Seq(Byte)
        BY JoinsType
    <2> QED BY ONLY <2>1, <1>6
<1>8. x = <<>>
    <2>1. Len(x) = 0
        BY ONLY <1>7, a \in Seq(Byte), x \in Seq(Byte)
    <2> QED BY ONLY <2>1, x \in Seq(Byte)
<1>9. SubSeq(vals, 1, n) = vals
    OBVIOUS
<1> QED BY ONLY <1>6, <1>8, <1>9

\* What Take makes of a value that is NULL, and of one that is read.
LEMMA TakeNull ==
    ASSUME NEW rest, NEW got, NEW typ
    PROVE  Take(Left(rest, got), typ, TRUE) = Left(rest, Append(got, Null))
BY DEF Take, Left

IsRead(piece, rest, typ, v) == ParseBinaryValue(piece \o rest, typ) = [ok |-> TRUE, v |-> v, used |-> Len(piece)]
IsTaken(piece, rest, typ, got, v) == Take(Left(piece \o rest, got), typ, FALSE) = Left(rest, Append(got, v))

LEMMA TakeRead ==
    ASSUME NEW piece \in Seq(Byte), NEW rest \in Seq(Byte), NEW typ, NEW got, NEW v, IsRead(piece, rest, typ, v)
    PROVE  IsTaken(piece, rest, typ, got, v)
<1>1. From(piece \o rest, Len(piece) + 1) = rest
    BY AfterPrefix
<1>2. PICK s : s = ParseBinaryValue(piece \o rest, typ) /\ s.ok /\ s.v = v /\ s.used = Len(piece)
    BY DEF IsRead
<1>3. PICK acc : acc = Left(piece \o rest, got)
    OBVIOUS
<1>4. acc.rest = piece \o rest /\ acc.vals = got
    BY ONLY <1>3 DEF Left
<1>5. Take(acc, typ, FALSE) = [rest |-> From(acc.rest, s.used + 1), vals |-> Append(acc.vals, s.v)]
    BY ONLY <1>2, <1>4 DEF Take
<1> QED BY ONLY <1>1, <1>2, <1>3, <1>4, <1>5 DEF Left, IsTaken

(***************************************************************************)
(* Parameters: the pieces of the values.                                   *)
(***************************************************************************)
Micros(nsec) == nsec \div 1000
Fractions == {x \in Nat : x < 1000000000}
Moment(date, clock, nsec) == [kind |-> "time", date |-> date, clock |-> clock, nsec |-> nsec]
IsMoment(t, y, m, d, f, g, h, nsec) ==
    /\ y \in {x \in Nat : x < Limit(2)} /\ m \in Byte /\ d \in Byte /\ f \in Byte /\ g \in Byte /\ h \in Byte
    /\ nsec \in Fractions
    /\ t = Moment(<<y, m, d>>, <<f, g, h>>, nsec)
Days == {<<y, m, d>> : y \in {x \in Nat : x < Limit(2)}, m \in Byte, d \in Byte}
Clocks == {<<f, g, h>> : f \in Byte, g \in Byte, h \in Byte}
Moments == {Moment(date, clock, nsec) : date \in Days, clock \in Clocks, nsec \in Fractions}

\* A value is read from its piece, whatever follows it.
Arrives(piece, typ, v) ==
    /\ piece \in Seq(Byte)
    /\ \A rest \in Seq(Byte) : ParseBinaryValue(piece \o rest, typ) = [ok |-> TRUE, v |-> v, used |-> Len(piece)]
TimeArrives(piece, v) ==
    /\ piece \in Seq(Byte)
    /\ \A rest \in Seq(Byte) : ParseBinaryTime(piece \o rest) = [ok |-> TRUE, v |-> v, used |-> Len(piece)]

LEMMA OneByte ==
    ASSUME NEW n \in Byte
    PROVE  LE(n, 1) = <<n>>
<1>1. n \in Int /\ n % 256 = n /\ 1 \in Nat
    BY DEF Byte
<1>2. PICK s : LEVia(s, n, 1)
    BY <1>1, LEChain
<1>3. s[0] = n /\ LE(n, 1) = [i \in 1..1 |-> s[i - 1] % 256]
    BY ONLY <1>2 DEF LEVia
<1>4. \A i \in 1..1 : s[i - 1] % 256 = n
    BY ONLY <1>1, <1>3
<1>5. LE(n, 1) = [i \in 1..1 |-> n]
    BY ONLY <1>3, <1>4
<1> QED BY ONLY <1>5

\* A date of the wire: its length, the year, month and day, and what follows.
HasDate(data, len, year, day, rest, S) ==
    /\ data \in Seq(S) /\ Len(data) = 5 + Len(rest) /\ data[1] = len
    /\ SubSeq(data, 2, 3) = year /\ data[4] = day[1] /\ data[5] = day[2]

LEMMA DateParts ==
    ASSUME NEW S, NEW x \in Seq(S), NEW a \in Seq(S), NEW w \in Seq(S), NEW rest \in Seq(S),
           Len(x) = 1, Len(a) = 2, Len(w) = 2,
           NEW data, data = ((x \o a) \o w) \o rest
    PROVE  HasDate(data, x[1], a, w, rest, S)
<1>0. PICK t \in Nat : t = Len(rest)
    OBVIOUS
<1>1. PICK u : u = x \o a /\ Beside(u, x, a, 1, 2, S)
    BY Concatenation
<1>2. u \in Seq(S) /\ Len(u) = 3
    BY <1>1 DEF Beside
<1>3. PICK v : v = u \o w /\ Beside(v, u, w, 3, 2, S)
    BY <1>2, Concatenation
<1>4. v \in Seq(S) /\ Len(v) = 5
    BY <1>3 DEF Beside
<1>5. Beside(data, v, rest, 5, t, S)
    <2>1. data = v \o rest
        BY <1>1, <1>3
    <2>2. Beside(v \o rest, v, rest, 5, t, S)
        BY <1>0, <1>4, Concatenation
    <2> QED BY <2>1, <2>2
<1>6. data \in Seq(S) /\ Len(data) = 5 + t
    BY <1>5 DEF Beside
<1>7. ASSUME NEW i \in 1..5 PROVE data[i] = v[i]
    BY <1>5 DEF Beside
<1>8. ASSUME NEW i \in 1..3 PROVE data[i] = u[i]
    <2>1. i \in 1..5
        OBVIOUS
    <2> QED BY <1>3, <1>7, <2>1 DEF Beside
<1>9. data[1] = x[1]
    <2>1. 1 \in 1..3 /\ 1 \in 1..1
        OBVIOUS
    <2> QED BY <1>1, <1>8, <2>1 DEF Beside
<1>10. ASSUME NEW i \in 1..2 PROVE data[1 + i] = a[i] /\ data[3 + i] = w[i]
    <2>1. 1 + i \in 1..3 /\ 3 + i \in 1..5
        OBVIOUS
    <2> QED BY <1>1, <1>3, <1>7, <1>8, <2>1 DEF Beside
<1>11. SubSeq(data, 2, 3) = a
    <2>1. Len(SubSeq(data, 2, 3)) = 2 /\ SubSeq(data, 2, 3) \in Seq(S)
        BY ONLY <1>6, t \in Nat
    <2>2. ASSUME NEW i \in 1..2 PROVE SubSeq(data, 2, 3)[i] = data[1 + i]
        BY ONLY <1>6, t \in Nat, i \in 1..2
    <2> QED BY ONLY <2>1, <2>2, <1>10, a \in Seq(S), Len(a) = 2
<1>12. data[4] = w[1] /\ data[5] = w[2]
    <2>1. 1 \in 1..2 /\ 2 \in 1..2 /\ 3 + 1 = 4 /\ 3 + 2 = 5
        OBVIOUS
    <2>2. data[3 + 1] = w[1] /\ data[3 + 2] = w[2]
        BY ONLY <1>10, <2>1
    <2> QED BY ONLY <2>1, <2>2
<1> QED BY ONLY <1>0, <1>6, <1>9, <1>11, <1>12 DEF HasDate

\* The parts of the piece of a time.
LEMMA MomentParts ==
    ASSUME NEW t, NEW y, NEW m, NEW d, NEW f, NEW g, NEW h, NEW nsec, IsMoment(t, y, m, d, f, g, h, nsec), NEW l \in Byte
    PROVE  \E x \in Seq(Byte), a \in Seq(Byte), w \in Seq(Byte), c \in Seq(Byte), e \in Seq(Byte) :
               /\ x = <<l>> /\ Len(x) = 1 /\ x[1] = l
               /\ a = LE(y, 2) /\ Len(a) = 2 /\ UnLE(a) = y
               /\ w = <<m, d>> /\ Len(w) = 2 /\ w[1] = m /\ w[2] = d
               /\ c = <<f, g, h>> /\ Len(c) = 3
               /\ e = LE(Micros(nsec), 4) /\ Len(e) = 4 /\ UnLE(e) = Micros(nsec)
<1>1. /\ y \in {x \in Nat : x < Limit(2)} /\ m \in Byte /\ d \in Byte /\ f \in Byte /\ g \in Byte /\ h \in Byte
      /\ nsec \in Fractions
    BY ONLY IsMoment(t, y, m, d, f, g, h, nsec) DEF IsMoment
<1>2. PICK x \in Seq(Byte) : x = <<l>> /\ Len(x) = 1 /\ x[1] = l
    <2>1. <<l>> \in Seq(Byte) /\ Len(<<l>>) = 1 /\ <<l>>[1] = l
        BY ONLY l \in Byte
    <2> QED BY ONLY <2>1
<1>3. PICK a \in Seq(Byte) : a = LE(y, 2) /\ Len(a) = 2
    <2>1. y \in Int /\ 2 \in Nat
        BY <1>1
    <2> QED BY ONLY <2>1, LEType
<1>4. UnLE(a) = y
    BY <1>1, <1>3, UnLEOfLE DEF FixedWidths
<1>5. PICK w \in Seq(Byte) : w = <<m, d>> /\ Len(w) = 2 /\ w[1] = m /\ w[2] = d
    <2>1. <<m, d>> \in Seq(Byte) /\ Len(<<m, d>>) = 2 /\ <<m, d>>[1] = m /\ <<m, d>>[2] = d
        BY ONLY <1>1
    <2> QED BY ONLY <2>1
<1>6. PICK c \in Seq(Byte) : c = <<f, g, h>> /\ Len(c) = 3
    <2>1. <<f, g, h>> \in Seq(Byte) /\ Len(<<f, g, h>>) = 3
        BY ONLY <1>1
    <2> QED BY ONLY <2>1
<1>7. PICK micro \in Nat : micro = Micros(nsec) /\ micro < Limit(4)
    <2>1. Micros(nsec) \in Nat /\ Micros(nsec) < Limit(4)
        BY ONLY <1>1, SMT DEF Limit, Fractions, Micros
    <2> QED BY ONLY <2>1
<1>8. PICK e \in Seq(Byte) : e = LE(micro, 4) /\ Len(e) = 4
    <2>1. micro \in Int /\ 4 \in Nat
        OBVIOUS
    <2> QED BY ONLY <2>1, LEType
<1>9. UnLE(e) = micro
    BY <1>7, <1>8, UnLEOfLE DEF FixedWidths
<1>10. e = LE(Micros(nsec), 4) /\ UnLE(e) = Micros(nsec)
    BY ONLY <1>7, <1>8, <1>9
<1>11. x \in Seq(Byte) /\ a \in Seq(Byte) /\ w \in Seq(Byte) /\ c \in Seq(Byte) /\ e \in Seq(Byte)
    OBVIOUS
<1> QED BY ONLY <1>2, <1>3, <1>4, <1>5, <1>6, <1>8, <1>10, <1>11, Zenon

\* A time whose fraction is this many microseconds.
AtMicro(date, clock, micro) == Moment(date, clock, micro * 1000)

Measured(c, n, S) == c \in Seq(S) /\ Len(c) = n

LEMMA Together ==
    ASSUME NEW S, NEW a \in Seq(S), NEW b \in Seq(S), NEW n \in Nat, NEW m \in Nat, Len(a) = n, Len(b) = m
    PROVE  Measured(a \o b, n + m, S)
BY DEF Measured

LEMMA Regroup ==
    ASSUME NEW S, NEW a \in Seq(S), NEW b \in Seq(S), NEW c \in Seq(S)
    PROVE  (a \o b) \o c = a \o (b \o c) /\ b \o c \in Seq(S)
OBVIOUS

\* The length, the year, and the month and day.
LEMMA FiveBytes ==
    ASSUME NEW x \in Seq(Byte), NEW a \in Seq(Byte), NEW w \in Seq(Byte), Len(x) = 1, Len(a) = 2, Len(w) = 2
    PROVE  (x \o a) \o w \in Seq(Byte) /\ (x \o a) \o w = x \o (a \o w) /\ Len((x \o a) \o w) = 5
<1>1. PICK u : u = x \o a /\ Measured(u, 1 + 2, Byte)
    BY Together
<1>1a. u \in Seq(Byte) /\ Len(u) = 3
    BY ONLY <1>1 DEF Measured
<1>1b. Measured(u \o w, 3 + 2, Byte)
    BY <1>1a, Together
<1>2. (x \o a) \o w \in Seq(Byte) /\ Len((x \o a) \o w) = 5
    BY ONLY <1>1, <1>1b DEF Measured
<1> QED BY ONLY <1>2, Regroup, x \in Seq(Byte), a \in Seq(Byte), w \in Seq(Byte)

LEMMA AsReadMoment ==
    ASSUME NEW date, NEW clock, NEW nsec
    PROVE  AsRead(Moment(date, clock, nsec)) = AtMicro(date, clock, Micros(nsec))
BY SMT DEF AsRead, Moment, AtMicro, Micros

\* What ParseBinaryTime finds in data.
TimeData(data, len, y, m, d, c, micro) ==
    /\ len \in {4, 7, 11} /\ data # <<>> /\ data[1] = len /\ Len(data) \in Nat /\ Len(data) >= len + 1
    /\ UnLE(SubSeq(data, 2, 3)) = y /\ data[4] = m /\ data[5] = d
    /\ c = IF len >= 7 THEN SubSeq(data, 6, 8) ELSE <<0, 0, 0>>
    /\ micro = IF len >= 11 THEN UnLE(SubSeq(data, 9, 12)) ELSE 0
Parsed(data, len, y, m, d, c, micro) ==
    ParseBinaryTime(data) = [ok |-> TRUE, v |-> AtMicro(<<y, m, d>>, c, micro), used |-> len + 1]
InNanos(micro) == micro * 1000
FractionOf(data) == IF data[1] >= 11 THEN UnLE(SubSeq(data, 9, 12)) * 1000 ELSE 0

LEMMA ParsesTime ==
    ASSUME NEW len, NEW data, NEW y, NEW m, NEW d, NEW c, NEW micro, TimeData(data, len, y, m, d, c, micro)
    PROVE  Parsed(data, len, y, m, d, c, micro)
<1>1. /\ len \in {4, 7, 11} /\ data # <<>> /\ data[1] = len /\ Len(data) \in Nat /\ Len(data) >= len + 1
      /\ UnLE(SubSeq(data, 2, 3)) = y /\ data[4] = m /\ data[5] = d
      /\ c = IF len >= 7 THEN SubSeq(data, 6, 8) ELSE <<0, 0, 0>>
      /\ micro = IF len >= 11 THEN UnLE(SubSeq(data, 9, 12)) ELSE 0
    BY DEF TimeData
<1>2. data # <<>> /\ data[1] # 0 /\ ~(Len(data) < data[1] + 1)
    BY <1>1
<1>3. FractionOf(data) = InNanos(micro)
    BY ONLY <1>1, SMT DEF InNanos, FractionOf
<1>4. ParseBinaryTime(data) =
         [ok |-> TRUE, used |-> data[1] + 1,
          v |-> [kind |-> "time",
                 date |-> <<UnLE(SubSeq(data, 2, 3)), data[4], data[5]>>,
                 clock |-> IF data[1] >= 7 THEN SubSeq(data, 6, 8) ELSE <<0, 0, 0>>,
                 nsec |-> FractionOf(data)]]
    BY ONLY <1>2, SMT DEF ParseBinaryTime, FractionOf
<1>5. ParseBinaryTime(data) =
         [ok |-> TRUE, used |-> len + 1,
          v |-> [kind |-> "time", date |-> <<y, m, d>>, clock |-> c, nsec |-> InNanos(micro)]]
    BY ONLY <1>1, <1>3, <1>4
<1>6. AtMicro(<<y, m, d>>, c, micro) = [kind |-> "time", date |-> <<y, m, d>>, clock |-> c, nsec |-> InNanos(micro)]
    BY ONLY SMT DEF AtMicro, Moment, InNanos
<1> QED BY ONLY <1>5, <1>6 DEF Parsed

\* The four lengths of a time.
LEMMA ZeroArrives ==
    TimeArrives(<<0>>, ZeroTime)
<1>1. PICK b \in Seq(Byte) : b = <<0>> /\ Len(b) = 1 /\ b[1] = 0
    <2>1. 0 \in Byte
        BY DEF Byte
    <2>2. <<0>> \in Seq(Byte) /\ Len(<<0>>) = 1 /\ <<0>>[1] = 0
        BY ONLY <2>1
    <2> QED BY ONLY <2>2
<1>2. ASSUME NEW rest \in Seq(Byte)
      PROVE  ParseBinaryTime(b \o rest) = [ok |-> TRUE, v |-> ZeroTime, used |-> Len(b)]
    <2>1. PICK data : data = b \o rest
        OBVIOUS
    <2>2. data # <<>> /\ data[1] = 0
        BY ONLY <1>1, <2>1, b \in Seq(Byte), rest \in Seq(Byte), FirstOf
    <2>3. ParseBinaryTime(data) = [ok |-> TRUE, v |-> ZeroTime, used |-> 1]
        BY ONLY <2>2 DEF ParseBinaryTime
    <2> QED BY ONLY <1>1, <2>1, <2>3
<1> QED BY ONLY <1>1, <1>2, b \in Seq(Byte) DEF TimeArrives

LEMMA DateArrives ==
    ASSUME NEW t, NEW y, NEW m, NEW d, NEW f, NEW g, NEW h, NEW nsec, IsMoment(t, y, m, d, f, g, h, nsec)
    PROVE  TimeArrives(<<4>> \o (LE(y, 2) \o <<m, d>>), AtMicro(<<y, m, d>>, <<0, 0, 0>>, 0))
<1>1. 4 \in Byte
    BY DEF Byte
<1>2. PICK x \in Seq(Byte), a \in Seq(Byte), w \in Seq(Byte) :
          /\ x = <<4>> /\ Len(x) = 1 /\ x[1] = 4
          /\ a = LE(y, 2) /\ Len(a) = 2 /\ UnLE(a) = y
          /\ w = <<m, d>> /\ Len(w) = 2 /\ w[1] = m /\ w[2] = d
    BY ONLY <1>1, MomentParts, IsMoment(t, y, m, d, f, g, h, nsec)
<1>3. PICK b \in Seq(Byte) : b = (x \o a) \o w /\ b = x \o (a \o w) /\ Len(b) = 5
    <2>1. (x \o a) \o w \in Seq(Byte) /\ (x \o a) \o w = x \o (a \o w) /\ Len((x \o a) \o w) = 5
        BY <1>2, FiveBytes
    <2> QED BY ONLY <2>1
<1>4. ASSUME NEW rest \in Seq(Byte)
      PROVE  ParseBinaryTime(b \o rest) = [ok |-> TRUE, v |-> AtMicro(<<y, m, d>>, <<0, 0, 0>>, 0), used |-> 5]
    <2>1. PICK data : data = b \o rest
        OBVIOUS
    <2>2. HasDate(data, x[1], a, w, rest, Byte)
        BY ONLY <1>2, <1>3, <2>1, rest \in Seq(Byte), x \in Seq(Byte), a \in Seq(Byte), w \in Seq(Byte), DateParts
    <2>3. data \in Seq(Byte) /\ Len(data) = 5 + Len(rest) /\ data[1] = 4 /\ UnLE(SubSeq(data, 2, 3)) = y
          /\ data[4] = m /\ data[5] = d
        BY ONLY <1>2, <2>2 DEF HasDate
    <2>4. PICK len \in {4, 7, 11} : len = 4
        OBVIOUS
    <2>5. data # <<>> /\ data[1] = len /\ Len(data) \in Nat /\ Len(data) >= len + 1 /\ len + 1 = 5 /\ ~(len >= 7) /\ ~(len >= 11)
        BY ONLY <2>3, <2>4, rest \in Seq(Byte)
    <2>6. TimeData(data, len, y, m, d, <<0, 0, 0>>, 0)
        BY ONLY <2>3, <2>5, len \in {4, 7, 11}, Zenon DEF TimeData
    <2>7. Parsed(data, len, y, m, d, <<0, 0, 0>>, 0)
        BY ONLY <2>6, ParsesTime, Zenon
    <2> QED BY ONLY <2>1, <2>5, <2>7 DEF Parsed
<1> QED BY ONLY <1>2, <1>3, <1>4, b \in Seq(Byte) DEF TimeArrives

LEMMA ClockArrives ==
    ASSUME NEW t, NEW y, NEW m, NEW d, NEW f, NEW g, NEW h, NEW nsec, IsMoment(t, y, m, d, f, g, h, nsec)
    PROVE  TimeArrives((<<7>> \o (LE(y, 2) \o <<m, d>>)) \o <<f, g, h>>, AtMicro(<<y, m, d>>, <<f, g, h>>, 0))
<1>1. 7 \in Byte
    BY DEF Byte
<1>2. PICK x \in Seq(Byte), a \in Seq(Byte), w \in Seq(Byte), c \in Seq(Byte) :
          /\ x = <<7>> /\ Len(x) = 1 /\ x[1] = 7
          /\ a = LE(y, 2) /\ Len(a) = 2 /\ UnLE(a) = y
          /\ w = <<m, d>> /\ Len(w) = 2 /\ w[1] = m /\ w[2] = d
          /\ c = <<f, g, h>> /\ Len(c) = 3
    BY ONLY <1>1, MomentParts, IsMoment(t, y, m, d, f, g, h, nsec)
<1>2a. Len(x) = 1 /\ Len(a) = 2 /\ Len(w) = 2
    BY ONLY <1>2
<1>3. PICK b \in Seq(Byte) : b = ((x \o a) \o w) \o c /\ b = (x \o (a \o w)) \o c /\ Len(b) = 8
    <2>1. PICK u \in Seq(Byte) : u = (x \o a) \o w /\ u = x \o (a \o w) /\ Len(u) = 5
        <3>1. (x \o a) \o w \in Seq(Byte) /\ (x \o a) \o w = x \o (a \o w) /\ Len((x \o a) \o w) = 5
            BY ONLY <1>2a, x \in Seq(Byte), a \in Seq(Byte), w \in Seq(Byte), FiveBytes
        <3> QED BY ONLY <3>1
    <2>1a. Measured(u \o c, 5 + 3, Byte)
        BY <1>2, <2>1, Together
    <2>2. u \o c \in Seq(Byte) /\ Len(u \o c) = 8
        BY ONLY <2>1a DEF Measured
    <2> QED BY ONLY <2>1, <2>2
<1>4. ASSUME NEW rest \in Seq(Byte)
      PROVE  ParseBinaryTime(b \o rest) = [ok |-> TRUE, v |-> AtMicro(<<y, m, d>>, c, 0), used |-> 8]
    <2>1. PICK data : data = b \o rest
        OBVIOUS
    <2>2. HasClock(data, x[1], a, w, c, rest, Byte)
        BY ONLY <1>2, <1>3, <2>1, rest \in Seq(Byte), x \in Seq(Byte), a \in Seq(Byte), w \in Seq(Byte), c \in Seq(Byte), EightParts
    <2>3. data \in Seq(Byte) /\ Len(data) = 8 + Len(rest) /\ data[1] = 7 /\ UnLE(SubSeq(data, 2, 3)) = y
          /\ data[4] = m /\ data[5] = d /\ SubSeq(data, 6, 8) = c
        BY ONLY <1>2, <2>2 DEF HasClock
    <2>4. PICK len \in {4, 7, 11} : len = 7
        OBVIOUS
    <2>5. data # <<>> /\ data[1] = len /\ Len(data) \in Nat /\ Len(data) >= len + 1 /\ len + 1 = 8 /\ len >= 7 /\ ~(len >= 11)
        BY ONLY <2>3, <2>4, rest \in Seq(Byte)
    <2>6. PICK clock : clock = c
        OBVIOUS
    <2>7. TimeData(data, len, y, m, d, clock, 0)
        BY ONLY <2>3, <2>5, <2>6, len \in {4, 7, 11}, Zenon DEF TimeData
    <2>8. Parsed(data, len, y, m, d, clock, 0)
        BY ONLY <2>7, ParsesTime, Zenon
    <2> QED BY ONLY <2>1, <2>5, <2>6, <2>8 DEF Parsed
<1> QED BY ONLY <1>2, <1>3, <1>4, b \in Seq(Byte) DEF TimeArrives

LEMMA FractionArrives ==
    ASSUME NEW t, NEW y, NEW m, NEW d, NEW f, NEW g, NEW h, NEW nsec, IsMoment(t, y, m, d, f, g, h, nsec)
    PROVE  TimeArrives(((<<11>> \o (LE(y, 2) \o <<m, d>>)) \o <<f, g, h>>) \o LE(Micros(nsec), 4),
                       AtMicro(<<y, m, d>>, <<f, g, h>>, Micros(nsec)))
<1>1. 11 \in Byte
    BY DEF Byte
<1>2. PICK x \in Seq(Byte), a \in Seq(Byte), w \in Seq(Byte), c \in Seq(Byte), e \in Seq(Byte) :
          /\ x = <<11>> /\ Len(x) = 1 /\ x[1] = 11
          /\ a = LE(y, 2) /\ Len(a) = 2 /\ UnLE(a) = y
          /\ w = <<m, d>> /\ Len(w) = 2 /\ w[1] = m /\ w[2] = d
          /\ c = <<f, g, h>> /\ Len(c) = 3
          /\ e = LE(Micros(nsec), 4) /\ Len(e) = 4 /\ UnLE(e) = Micros(nsec)
    BY ONLY <1>1, MomentParts, IsMoment(t, y, m, d, f, g, h, nsec)
<1>2a. Len(x) = 1 /\ Len(a) = 2 /\ Len(w) = 2
    BY ONLY <1>2
<1>3. PICK k \in Seq(Byte) : k = ((x \o a) \o w) \o c /\ k = (x \o (a \o w)) \o c /\ Len(k) = 8
    <2>1. PICK u \in Seq(Byte) : u = (x \o a) \o w /\ u = x \o (a \o w) /\ Len(u) = 5
        <3>1. (x \o a) \o w \in Seq(Byte) /\ (x \o a) \o w = x \o (a \o w) /\ Len((x \o a) \o w) = 5
            BY ONLY <1>2a, x \in Seq(Byte), a \in Seq(Byte), w \in Seq(Byte), FiveBytes
        <3> QED BY ONLY <3>1
    <2>1a. Measured(u \o c, 5 + 3, Byte)
        BY <1>2, <2>1, Together
    <2>2. u \o c \in Seq(Byte) /\ Len(u \o c) = 8
        BY ONLY <2>1a DEF Measured
    <2> QED BY ONLY <2>1, <2>2
<1>3a. PICK b \in Seq(Byte) : b = k \o e /\ Len(b) = 12
    <2>0. Measured(k \o e, 8 + 4, Byte)
        BY <1>2, <1>3, Together
    <2>1. k \o e \in Seq(Byte) /\ Len(k \o e) = 12
        BY ONLY <2>0 DEF Measured
    <2> QED BY ONLY <2>1
<1>4. ASSUME NEW rest \in Seq(Byte)
      PROVE  ParseBinaryTime(b \o rest) = [ok |-> TRUE, v |-> AtMicro(<<y, m, d>>, c, UnLE(e)), used |-> 12]
    <2>1. PICK data : data = b \o rest
        OBVIOUS
    <2>2. PICK z \in Seq(Byte) : z = e \o rest /\ data = k \o z /\ Len(z) = 4 + Len(rest)
        <3>1. e \o rest \in Seq(Byte) /\ (k \o e) \o rest = k \o (e \o rest)
            BY ONLY k \in Seq(Byte), e \in Seq(Byte), rest \in Seq(Byte)
        <3>2. Len(e \o rest) = 4 + Len(rest)
            <4>1. Len(rest) \in Nat
                OBVIOUS
            <4>2. Measured(e \o rest, 4 + Len(rest), Byte)
                BY <1>2, <4>1, Together
            <4> QED BY ONLY <4>2 DEF Measured
        <3> QED BY ONLY <1>3a, <2>1, <3>1, <3>2
    <2>3. HasClock(data, x[1], a, w, c, z, Byte)
        BY ONLY <1>2, <1>3, <2>2, z \in Seq(Byte), x \in Seq(Byte), a \in Seq(Byte), w \in Seq(Byte), c \in Seq(Byte), EightParts
    <2>4. data \in Seq(Byte) /\ Len(data) = 8 + Len(z) /\ data[1] = 11 /\ UnLE(SubSeq(data, 2, 3)) = y
          /\ data[4] = m /\ data[5] = d /\ SubSeq(data, 6, 8) = c
        BY ONLY <1>2, <2>3 DEF HasClock
    <2>5. SubSeq(data, 9, 12) = e
        <3>1. SubSeq((k \o e) \o rest, Len(k) + 1, Len(k) + Len(e)) = e
            BY ONLY k \in Seq(Byte), e \in Seq(Byte), rest \in Seq(Byte), Middle
        <3>2. PICK l \in Nat, r \in Nat : l = Len(k) /\ l = 8 /\ r = Len(e) /\ r = 4
            BY <1>2, <1>3
        <3>3. l + 1 = 9 /\ l + r = 12
            BY ONLY <3>2
        <3> QED BY ONLY <1>3a, <2>1, <3>1, <3>2, <3>3
    <2>6. PICK len \in {4, 7, 11} : len = 11
        OBVIOUS
    <2>7. data # <<>> /\ data[1] = len /\ Len(data) \in Nat /\ Len(data) >= len + 1 /\ len + 1 = 12 /\ len >= 7 /\ len >= 11
        <3>1. PICK r \in Nat : r = Len(rest)
            OBVIOUS
        <3>2. Len(data) = 12 + r
            BY ONLY <2>2, <2>4, <3>1, r \in Nat
        <3>3. data # <<>>
            BY ONLY <2>4, <3>2, r \in Nat
        <3> QED BY ONLY <2>4, <2>6, <3>2, <3>3, r \in Nat
    <2>8. PICK clock, micro : clock = c /\ micro = UnLE(e)
        OBVIOUS
    <2>9. TimeData(data, len, y, m, d, clock, micro)
        BY ONLY <2>4, <2>5, <2>7, <2>8, len \in {4, 7, 11}, Zenon DEF TimeData
    <2>10. Parsed(data, len, y, m, d, clock, micro)
        BY ONLY <2>9, ParsesTime, Zenon
    <2> QED BY ONLY <2>1, <2>7, <2>8, <2>10 DEF Parsed
<1>5. b = ((<<11>> \o (LE(y, 2) \o <<m, d>>)) \o <<f, g, h>>) \o LE(Micros(nsec), 4)
    BY ONLY <1>2, <1>3, <1>3a
<1> QED BY ONLY <1>2, <1>3a, <1>4, <1>5, b \in Seq(Byte) DEF TimeArrives

\* A time arrives to the microsecond, whichever length it is sent with.
LEMMA MomentIs ==
    ASSUME NEW t \in Moments
    PROVE  \E y, m, d, f, g, h, nsec : IsMoment(t, y, m, d, f, g, h, nsec)
<1>1. PICK date \in Days, clock \in Clocks, nsec \in Fractions : t = Moment(date, clock, nsec)
    BY DEF Moments
<1>2. PICK y \in {x \in Nat : x < Limit(2)}, m \in Byte, d \in Byte : date = <<y, m, d>>
    BY DEF Days
<1>3. PICK f \in Byte, g \in Byte, h \in Byte : clock = <<f, g, h>>
    BY DEF Clocks
<1>4. IsMoment(t, y, m, d, f, g, h, nsec)
    BY ONLY <1>1, <1>2, <1>3, y \in {x \in Nat : x < Limit(2)}, m \in Byte, d \in Byte, f \in Byte, g \in Byte, h \in Byte,
       nsec \in Fractions, Zenon DEF IsMoment
<1> QED BY ONLY <1>4, Zenon

LEMMA MomentArrives ==
    ASSUME NEW t \in Moments
    PROVE  TimeArrives(AppendBinaryTime(t), AsRead(t))
<1>1. PICK y, m, d, f, g, h, nsec : IsMoment(t, y, m, d, f, g, h, nsec)
    BY MomentIs, Zenon
<1>2. t = Moment(<<y, m, d>>, <<f, g, h>>, nsec)
    BY ONLY <1>1 DEF IsMoment
<1>3. AsRead(t) = AtMicro(<<y, m, d>>, <<f, g, h>>, Micros(nsec))
    BY ONLY <1>2, AsReadMoment
<1>4. t.date = <<y, m, d>> /\ t.clock = <<f, g, h>> /\ t.nsec = nsec
    BY ONLY <1>2 DEF Moment
<1>5. PICK day : day = LE(y, 2) \o <<m, d>>
    OBVIOUS
<1>6. t.date[1] = y /\ t.date[2] = m /\ t.date[3] = d /\ day = LE(t.date[1], 2) \o <<t.date[2], t.date[3]>>
    BY ONLY <1>4, <1>5
<1>7. AppendBinaryTime(t) =
         IF t = ZeroTime THEN <<0>>
         ELSE IF nsec # 0 THEN ((<<11>> \o day) \o t.clock) \o LE(Micros(nsec), 4)
         ELSE IF t.clock # <<0, 0, 0>> THEN (<<7>> \o day) \o t.clock
         ELSE <<4>> \o day
    BY ONLY <1>4, <1>6, SMT DEF AppendBinaryTime, Micros
<1>8. Micros(0) = 0
    BY ONLY SMT DEF Micros
<1>9. CASE t = ZeroTime
    <2>1. ZeroTime = Moment(<<1, 1, 1>>, <<0, 0, 0>>, 0)
        BY DEF ZeroTime, Moment
    <2>2. AsRead(t) = AtMicro(<<1, 1, 1>>, <<0, 0, 0>>, 0)
        <3>1. AsRead(Moment(<<1, 1, 1>>, <<0, 0, 0>>, 0)) = AtMicro(<<1, 1, 1>>, <<0, 0, 0>>, Micros(0))
            BY ONLY AsReadMoment
        <3> QED BY ONLY <1>8, <1>9, <2>1, <3>1
    <2>3. AtMicro(<<1, 1, 1>>, <<0, 0, 0>>, 0) = Moment(<<1, 1, 1>>, <<0, 0, 0>>, 0)
        BY ONLY SMT DEF AtMicro
    <2>4. AppendBinaryTime(t) = <<0>>
        BY ONLY <1>7, <1>9, Zenon
    <2> QED BY ONLY <2>1, <2>2, <2>3, <2>4, ZeroArrives
<1>10. CASE t # ZeroTime /\ nsec # 0
    <2>1. AppendBinaryTime(t) = ((<<11>> \o (LE(y, 2) \o <<m, d>>)) \o <<f, g, h>>) \o LE(Micros(nsec), 4)
        BY ONLY <1>4, <1>5, <1>7, <1>10, Zenon
    <2> QED BY ONLY <1>1, <1>3, <2>1, FractionArrives, Zenon
<1>11. CASE t # ZeroTime /\ nsec = 0 /\ t.clock # <<0, 0, 0>>
    <2>1. AppendBinaryTime(t) = (<<7>> \o (LE(y, 2) \o <<m, d>>)) \o <<f, g, h>>
        BY ONLY <1>4, <1>5, <1>7, <1>11, Zenon
    <2>2. AsRead(t) = AtMicro(<<y, m, d>>, <<f, g, h>>, 0)
        BY ONLY <1>3, <1>8, <1>11
    <2> QED BY ONLY <1>1, <2>1, <2>2, ClockArrives, Zenon
<1>12. CASE t # ZeroTime /\ nsec = 0 /\ t.clock = <<0, 0, 0>>
    <2>1. AppendBinaryTime(t) = <<4>> \o (LE(y, 2) \o <<m, d>>)
        BY ONLY <1>5, <1>7, <1>12, Zenon
    <2>2. AsRead(t) = AtMicro(<<y, m, d>>, <<0, 0, 0>>, 0)
        BY ONLY <1>3, <1>4, <1>8, <1>12
    <2> QED BY ONLY <1>1, <2>1, <2>2, DateArrives, Zenon
<1> QED BY ONLY <1>9, <1>10, <1>11, <1>12, Zenon

(***************************************************************************)
(* Every parameter but NULL.                                               *)
(***************************************************************************)
Truth(b) == [kind |-> "bool", b |-> b]
Given == {Integer(n) : n \in {x \in Int : Fits(x, 8)}} \cup {Truth(b) : b \in BOOLEAN}
         \cup {String(s) : s \in Texts} \cup Moments
Parameters == {Null} \cup Given

LEMMA GivenArrives ==
    ASSUME NEW v \in Given
    PROVE  Arrives(AppendBinaryParam(v), GetBinaryParamType(v), AsRead(v)) /\ v # Null
<1>1. CASE \E n \in {x \in Int : Fits(x, 8)} : v = Integer(n)
    <2>1. PICK n \in Int : Fits(n, 8) /\ v = Integer(n)
        BY <1>1
    <2>2. v.kind = "int" /\ v.n = n /\ v # Null
        BY ONLY <2>1 DEF Integer, Null
    <2>3. AppendBinaryParam(v) = LE(n, 8) /\ GetBinaryParamType(v) = "longlong"
        BY ONLY <2>2 DEF AppendBinaryParam, GetBinaryParamType
    <2>4. AsRead(v) = v
        BY ONLY <2>2, SMT DEF AsRead
    <2>5. Widths["longlong"] = 8 /\ "longlong" \in IntegerTypes
        BY DEF Widths, IntegerTypes
    <2>6. ReadAs(LE(n, 8), "longlong", Integer(n))
        BY <2>1, <2>5, IntegerReads
    <2> QED BY ONLY <2>1, <2>2, <2>3, <2>4, <2>6 DEF ReadAs, Arrives
<1>2. CASE \E b \in BOOLEAN : v = Truth(b)
    <2>1. PICK b \in BOOLEAN : v = Truth(b)
        BY <1>2
    <2>2. v.kind = "bool" /\ v.b = b /\ v # Null
        BY ONLY <2>1 DEF Truth, Null
    <2>3. PICK n \in Byte : n = IF b THEN 1 ELSE 0
        BY DEF Byte
    <2>4. AppendBinaryParam(v) = <<n>> /\ GetBinaryParamType(v) = "tiny"
        BY ONLY <2>2, <2>3 DEF AppendBinaryParam, GetBinaryParamType
    <2>5. AsRead(v) = Integer(n)
        BY ONLY <2>2, <2>3, SMT DEF AsRead
    <2>6. Widths["tiny"] = 1 /\ "tiny" \in IntegerTypes
        BY DEF Widths, IntegerTypes
    <2>7. Fits(n, 1)
        BY <2>3 DEF Fits, Limit, Byte
    <2>8. ReadAs(LE(n, 1), "tiny", Integer(n))
        BY <2>6, <2>7, IntegerReads
    <2>9. LE(n, 1) = <<n>>
        BY OneByte
    <2> QED BY ONLY <2>2, <2>4, <2>5, <2>8, <2>9 DEF ReadAs, Arrives
<1>3. CASE \E s \in Texts : v = String(s)
    <2>1. PICK s \in Texts : v = String(s)
        BY <1>3
    <2>2. v.kind = "string" /\ v.s = s /\ v # Null
        BY ONLY <2>1 DEF String, Null
    <2>3. AppendBinaryParam(v) = PutLengthEncodedString(s) /\ GetBinaryParamType(v) = "varstring"
        BY ONLY <2>2 DEF AppendBinaryParam, GetBinaryParamType
    <2>4. AsRead(v) = v
        BY ONLY <2>2, SMT DEF AsRead
    <2>5. "varstring" \in StringTypes
        BY DEF StringTypes
    <2>6. ReadAs(PutLengthEncodedString(s), "varstring", String(s))
        BY <2>5, BytesRead
    <2> QED BY ONLY <2>1, <2>2, <2>3, <2>4, <2>6 DEF ReadAs, Arrives
<1>4. CASE v \in Moments
    <2>1. v.kind = "time" /\ v # Null
        <3>1. PICK y, m, d, f, g, h, nsec : IsMoment(v, y, m, d, f, g, h, nsec)
            BY <1>4, MomentIs, Zenon
        <3> QED BY ONLY <3>1 DEF IsMoment, Moment, Null
    <2>2. AppendBinaryParam(v) = AppendBinaryTime(v) /\ GetBinaryParamType(v) = "datetime"
        BY ONLY <2>1, SMT DEF AppendBinaryParam, GetBinaryParamType
    <2>3. TimeArrives(AppendBinaryTime(v), AsRead(v))
        BY ONLY <1>4, MomentArrives
    <2>4. \A data : ParseBinaryValue(data, "datetime") = ParseBinaryTime(data)
        <3>1. "datetime" \notin DOMAIN Widths
            BY WidthsAre DEF IntegerTypes
        <3> QED BY ONLY <3>1 DEF ParseBinaryValue
    <2> QED BY ONLY <2>1, <2>2, <2>3, <2>4 DEF TimeArrives, Arrives
<1> QED BY <1>1, <1>2, <1>3, <1>4 DEF Given

(***************************************************************************)
(* Parameters: the bitmap of an execution, and the server's way through    *)
(* the parameters of one.                                                  *)
(***************************************************************************)
ParamFolds(f, args, b, seq, D) ==
    f = [s \in SUBSET D |-> IF s = {} THEN 0 ELSE ParamBits(f[s \ {Max(s)}], args, b, seq[Max(s)])]

LEMMA ParamByte ==
    ASSUME NEW V, NEW args \in Seq(V), NEW b \in 1..BitmapLen(Len(args))
    PROVE  \E r : NullByte(r, args, 0, b, Len(args)) /\ WriteExecute(args).nulls[b] = r[Len(args)]
<1>1. PICK n \in Nat : n = Len(args) /\ DOMAIN args = 1..n
    OBVIOUS
<1> DEFINE c == [args |-> args, b |-> b]
           seq == [i \in 1..Len(args) |-> i]
<1>2. DOMAIN seq = 1..n /\ \A i \in 1..n : seq[i] = i
    BY <1>1
<1> DEFINE f == CHOOSE f : ParamFolds(f, args, b, seq, DOMAIN seq)
<1>3. \A acc, x : FoldStep("param bits", c, acc, x) = ParamBits(acc, args, b, x)
    BY DEF FoldStep
<1> HIDE DEF c
<1>4. \A g : ParamFolds(g, args, b, seq, 1..n) <=> Folds(g, "param bits", c, 0, seq, 1..n)
    <2> HIDE DEF seq
    <2> QED BY ONLY <1>3 DEF ParamFolds, Folds
<1> HIDE DEF seq
<1>5. WriteExecute(args).nulls[b] = f[DOMAIN seq]
    BY DEF WriteExecute, FoldLeft, MapThenFoldSet, ParamFolds, ParamBits, seq
<1>6. Folds(f, "param bits", c, 0, seq, 1..n)
    <2>1. \E g : Folds(g, "param bits", c, 0, seq, 1..n)
        BY FoldExists, Zenon
    <2>2. \E g : ParamFolds(g, args, b, seq, DOMAIN seq)
        BY <1>2, <1>4, <2>1
    <2>3. ParamFolds(f, args, b, seq, DOMAIN seq)
        BY <2>2, Zenon
    <2> HIDE DEF f
    <2> QED BY <1>2, <1>4, <2>3
<1> HIDE DEF f
<1>7. PICK r : FoldVia(r, "param bits", c, 0, seq, n) /\ f[1..n] = r[n]
    <2>1. HasChain(f, "param bits", c, 0, seq, n)
        BY ONLY <1>6, FoldChain, n \in Nat
    <2> QED BY ONLY <2>1 DEF HasChain
<1>8. NullByte(r, args, 0, b, n)
    <2>1. ASSUME NEW i \in 1..n PROVE r[i] = NullBits(r[i - 1], args, 0, b, i)
        <3>1. r[i] = ParamBits(r[i - 1], args, b, i)
            BY <1>2, <1>3, <1>7 DEF FoldVia
        <3>2. i - 1 + 0 = i - 1
            OBVIOUS
        <3> QED BY <3>1, <3>2 DEF ParamBits, NullBits
    <2>2. r[0] = 0
        BY ONLY <1>7 DEF FoldVia
    <2> QED BY ONLY <2>1, <2>2 DEF NullByte
<1> QED BY <1>1, <1>2, <1>5, <1>7, <1>8

LEMMA ParamNulls ==
    ASSUME NEW V, NEW args \in Seq(V), NEW n \in Nat, n = Len(args)
    PROVE  IsBitmap(WriteExecute(args).nulls, args, 0, n)
<1>1. PICK map : map = WriteExecute(args).nulls
    OBVIOUS
<1>2. PICK l : l = BitmapLen(n)
    OBVIOUS
<1>3. l = (n + 0 + 7) \div 8
    BY <1>2 DEF BitmapLen
<1>4. map = [b \in 1..l |-> map[b]]
    BY ONLY <1>1, <1>2, n = Len(args) DEF WriteExecute
<1>5. ASSUME NEW b \in 1..l PROVE \E r : NullByte(r, args, 0, b, n) /\ map[b] = r[n]
    BY <1>1, <1>2, ParamByte
<1>6. OfBits(map, args, 0, n)
    BY ONLY <1>3, <1>4, <1>5 DEF OfBits
<1> QED BY ONLY <1>1, <1>6, BitsAreBitmap, n \in Nat

ExecuteFolds(f, w, base, seq, D) ==
    f = [s \in SUBSET D |-> IF s = {} THEN base ELSE ExecuteParam(w, f[s \ {Max(s)}], seq[Max(s)])]

LEMMA ExecuteFold ==
    ASSUME NEW w, NEW n \in Nat
    PROVE  \E r : /\ FoldVia(r, "execute", w, Left(w.values, <<>>), [i \in 1..n |-> i], n)
                  /\ ServerExecute(w, n) = r[n]
<1> DEFINE base == Left(w.values, <<>>)
           seq == [i \in 1..n |-> i]
           ids == [i \in DOMAIN seq |-> i]
           f == CHOOSE f : ExecuteFolds(f, w, base, ids, DOMAIN ids)
<1>0. DOMAIN seq = 1..n /\ DOMAIN ids = 1..n /\ ids = [i \in 1..n |-> i]
    OBVIOUS
<1>1. \A acc, x : FoldStep("execute", w, acc, x) = ExecuteParam(w, acc, x)
    BY DEF FoldStep
<1> HIDE DEF base, seq, ids
<1>2. \A g : ExecuteFolds(g, w, base, ids, 1..n) <=> Folds(g, "execute", w, base, ids, 1..n)
    <2> TAKE g
    <2>1. \A s \in SUBSET (1..n) :
             (IF s = {} THEN base ELSE ExecuteParam(w, g[s \ {Max(s)}], ids[Max(s)])) =
             (IF s = {} THEN base ELSE FoldStep("execute", w, g[s \ {Max(s)}], ids[Max(s)]))
        BY <1>1, Zenon
    <2> QED BY ONLY <2>1 DEF ExecuteFolds, Folds
<1>3. ServerExecute(w, n) = f[DOMAIN ids]
    BY DEF ServerExecute, FoldLeftDomain, FoldLeft, MapThenFoldSet, ExecuteFolds, ExecuteParam, Left, base, seq, ids
<1>4. Folds(f, "execute", w, base, ids, 1..n)
    <2>1. \E g : Folds(g, "execute", w, base, ids, 1..n)
        BY FoldExists, Zenon
    <2>2. \E g : ExecuteFolds(g, w, base, ids, DOMAIN ids)
        BY <1>0, <1>2, <2>1
    <2>3. ExecuteFolds(f, w, base, ids, DOMAIN ids)
        BY <2>2, Zenon
    <2> HIDE DEF f
    <2> QED BY <1>0, <1>2, <2>3
<1> HIDE DEF f
<1>5. PICK r : FoldVia(r, "execute", w, base, ids, n) /\ f[1..n] = r[n]
    <2>1. HasChain(f, "execute", w, base, ids, n)
        BY ONLY <1>4, FoldChain, n \in Nat
    <2> QED BY ONLY <2>1 DEF HasChain
<1>6. ServerExecute(w, n) = r[n]
    BY ONLY <1>0, <1>3, <1>5
<1>7. base = Left(w.values, <<>>) /\ ids = [i \in 1..n |-> i]
    BY ONLY <1>0 DEF base
<1> QED BY <1>5, <1>6, <1>7, Zenon

BulkFolds(f, w, base, seq, D) ==
    f = [s \in SUBSET D |-> IF s = {} THEN base ELSE BulkParam(w, f[s \ {Max(s)}], seq[Max(s)])]

LEMMA BulkFold ==
    ASSUME NEW w, NEW n \in Nat
    PROVE  \E r : /\ FoldVia(r, "bulk", w, Left(w.values, <<>>), [i \in 1..n |-> i], n)
                  /\ ServerBulk(w, n) = r[n]
<1> DEFINE base == Left(w.values, <<>>)
           seq == [i \in 1..n |-> i]
           ids == [i \in DOMAIN seq |-> i]
           f == CHOOSE f : BulkFolds(f, w, base, ids, DOMAIN ids)
<1>0. DOMAIN seq = 1..n /\ DOMAIN ids = 1..n /\ ids = [i \in 1..n |-> i]
    OBVIOUS
<1>1. \A acc, x : FoldStep("bulk", w, acc, x) = BulkParam(w, acc, x)
    BY DEF FoldStep
<1> HIDE DEF base, seq, ids
<1>2. \A g : BulkFolds(g, w, base, ids, 1..n) <=> Folds(g, "bulk", w, base, ids, 1..n)
    <2> TAKE g
    <2>1. \A s \in SUBSET (1..n) :
             (IF s = {} THEN base ELSE BulkParam(w, g[s \ {Max(s)}], ids[Max(s)])) =
             (IF s = {} THEN base ELSE FoldStep("bulk", w, g[s \ {Max(s)}], ids[Max(s)]))
        BY <1>1, Zenon
    <2> QED BY ONLY <2>1 DEF BulkFolds, Folds
<1>3. ServerBulk(w, n) = f[DOMAIN ids]
    BY DEF ServerBulk, FoldLeftDomain, FoldLeft, MapThenFoldSet, BulkFolds, BulkParam, Left, base, seq, ids
<1>4. Folds(f, "bulk", w, base, ids, 1..n)
    <2>1. \E g : Folds(g, "bulk", w, base, ids, 1..n)
        BY FoldExists, Zenon
    <2>2. \E g : BulkFolds(g, w, base, ids, DOMAIN ids)
        BY <1>0, <1>2, <2>1
    <2>3. BulkFolds(f, w, base, ids, DOMAIN ids)
        BY <2>2, Zenon
    <2> HIDE DEF f
    <2> QED BY <1>0, <1>2, <2>3
<1> HIDE DEF f
<1>5. PICK r : FoldVia(r, "bulk", w, base, ids, n) /\ f[1..n] = r[n]
    <2>1. HasChain(f, "bulk", w, base, ids, n)
        BY ONLY <1>4, FoldChain, n \in Nat
    <2> QED BY ONLY <2>1 DEF HasChain
<1>6. ServerBulk(w, n) = r[n]
    BY ONLY <1>0, <1>3, <1>5
<1>7. base = Left(w.values, <<>>) /\ ids = [i \in 1..n |-> i]
    BY ONLY <1>0 DEF base
<1> QED BY <1>5, <1>6, <1>7, Zenon


LEMMA AsReadNull ==
    AsRead(Null) = Null
<1>1. Null.kind = "null"
    BY DEF Null
<1> QED BY ONLY <1>1, SMT DEF AsRead

\* The values as the server reads them.
ReadValues == {AsRead(v) : v \in Parameters}

\* A parameter is taken from its piece.
LEMMA ParamTaken ==
    ASSUME NEW v \in Parameters, NEW typ, v = Null \/ typ = GetBinaryParamType(v), NEW got, NEW rest \in Seq(Byte)
    PROVE  /\ AppendBinaryParam(v) \in Seq(Byte)
           /\ Take(Left(AppendBinaryParam(v) \o rest, got), typ, v = Null) = Left(rest, Append(got, AsRead(v)))
<1>1. CASE v = Null
    <2>1. AppendBinaryParam(v) = <<>>
        BY ONLY <1>1 DEF AppendBinaryParam, Null
    <2>2. <<>> \in Seq(Byte) /\ <<>> \o rest = rest
        OBVIOUS
    <2>3. Take(Left(rest, got), typ, TRUE) = Left(rest, Append(got, Null))
        BY ONLY TakeNull
    <2> QED BY ONLY <1>1, <2>1, <2>2, <2>3, AsReadNull
<1>2. CASE v # Null
    <2>1. v \in Given
        BY <1>2 DEF Parameters
    <2>2. Arrives(AppendBinaryParam(v), typ, AsRead(v))
        BY ONLY <1>2, <2>1, v = Null \/ typ = GetBinaryParamType(v), GivenArrives
    <2>3. PICK piece, x : piece = AppendBinaryParam(v) /\ x = AsRead(v)
        OBVIOUS
    <2>4. piece \in Seq(Byte) /\ ParseBinaryValue(piece \o rest, typ) = [ok |-> TRUE, v |-> x, used |-> Len(piece)]
        BY ONLY <2>2, <2>3, rest \in Seq(Byte) DEF Arrives
    <2>5. Take(Left(piece \o rest, got), typ, FALSE) = Left(rest, Append(got, x))
        <3>1. IsRead(piece, rest, typ, x)
            BY ONLY <2>4 DEF IsRead
        <3>2. piece \in Seq(Byte)
            BY ONLY <2>4
        <3>3. IsTaken(piece, rest, typ, got, x)
            BY ONLY <3>1, <3>2, rest \in Seq(Byte), TakeRead, Zenon
        <3> QED BY ONLY <3>3 DEF IsTaken
    <2> QED BY ONLY <1>2, <2>3, <2>4, <2>5
<1> QED BY <1>1, <1>2

\* Every execution arrives, whatever its arguments.
THEOREM ExecutionArrives ==
    ASSUME NEW args \in Seq(Parameters)
    PROVE  ExecuteArrives(args)
<1>1. PICK n \in Nat : n = Len(args) /\ DOMAIN args = 1..n /\ \A i \in 1..n : args[i] \in Parameters
    OBVIOUS
<1>2. PICK w : w = WriteExecute(args)
    OBVIOUS
<1>3. IsBitmap(w.nulls, args, 0, n)
    BY <1>1, <1>2, ParamNulls
<1>4. Len(w.nulls) = (n + 7) \div 8
    <2>1. n + 0 + 7 = n + 7
        OBVIOUS
    <2> QED BY ONLY <1>3, <2>1 DEF IsBitmap
<1>5. PICK p : p = [i \in 1..n |-> AppendBinaryParam(args[i])]
    OBVIOUS
<1>6. w.values = FlattenSeq(p) /\ \A i \in 1..n : w.types[i] = GetBinaryParamType(args[i])
    BY ONLY <1>1, <1>2, <1>5 DEF WriteExecute
<1>7. PICK vals : vals = [i \in 1..n |-> AsRead(args[i])]
    OBVIOUS
<1>8. vals \in Seq(ReadValues) /\ Len(vals) = n
    <2>1. \A i \in 1..n : AsRead(args[i]) \in ReadValues
        BY <1>1 DEF ReadValues
    <2> QED BY ONLY <1>7, <2>1, n \in Nat
<1>9. ASSUME NEW i \in 1..n
      PROVE  p[i] \in Seq(Byte) /\ Takes("execute", w, p[i], vals[i], i)
    <2>1. PICK v \in Parameters : v = args[i] /\ p[i] = AppendBinaryParam(v) /\ vals[i] = AsRead(v)
        BY <1>1, <1>5, <1>7
    <2>2. PICK typ : typ = w.types[i] /\ typ = GetBinaryParamType(v)
        BY <1>6, <2>1
    <2>3. Bit(w.nulls[1 + (i - 1) \div 8], (i - 1) % 8) = (v = Null)
        <3>1. i - 1 + 0 = i - 1
            OBVIOUS
        <3>2. Bit(w.nulls[1 + (i - 1) \div 8], (i - 1) % 8) <=> v = Null
            BY ONLY <1>3, <2>1, <3>1, i \in 1..n DEF IsBitmap
        <3> QED BY ONLY <3>2 DEF Bit
    <2>4. ASSUME NEW rest \in Seq(Byte), NEW got
          PROVE  FoldStep("execute", w, Left(p[i] \o rest, got), i) = Left(rest, Append(got, vals[i]))
        <3>1. PICK acc : acc = Left(p[i] \o rest, got)
            OBVIOUS
        <3>2. FoldStep("execute", w, acc, i) = Take(acc, typ, v = Null)
            BY ONLY <2>2, <2>3 DEF FoldStep, ExecuteParam
        <3>3. Take(Left(AppendBinaryParam(v) \o rest, got), typ, v = Null) = Left(rest, Append(got, AsRead(v)))
            BY ONLY <2>2, v \in Parameters, rest \in Seq(Byte), ParamTaken
        <3> QED BY ONLY <2>1, <3>1, <3>2, <3>3
    <2>5. AppendBinaryParam(v) \in Seq(Byte)
        <3>1. <<>> \in Seq(Byte)
            OBVIOUS
        <3> QED BY <2>2, <3>1, ParamTaken
    <2> QED BY ONLY <2>1, <2>4, <2>5 DEF Takes
<1>10. PICK q : Joins(q, p, n, Byte) /\ FlattenSeq(p) = q[n]
    <2>1. DOMAIN p = 1..n /\ Len(p) = n
        BY ONLY <1>5, n \in Nat
    <2> QED BY ONLY <1>9, <2>1, n \in Nat, FlattenChain
<1>11. PICK r : /\ FoldVia(r, "execute", w, Left(w.values, <<>>), [i \in 1..n |-> i], n)
                /\ ServerExecute(w, n) = r[n]
    BY ExecuteFold
<1>12. TakenOf("execute", w, n, p, q, vals, ReadValues, r)
    <2>1. FoldVia(r, "execute", w, Left(q[n], <<>>), [i \in 1..n |-> i], n)
        BY ONLY <1>6, <1>10, <1>11
    <2>2. Joins(q, p, n, Byte) /\ \A i \in 1..n : Takes("execute", w, p[i], vals[i], i)
        BY ONLY <1>9, <1>10
    <2> QED BY ONLY <1>8, <2>1, <2>2 DEF TakenOf
<1>13. r[n] = Left(<<>>, vals)
    BY ONLY <1>12, n \in Nat, AllTaken
<1>14. Exactly(args) = Left(<<>>, vals)
    BY ONLY <1>1, <1>7 DEF Exactly, Left
<1> QED BY ONLY <1>1, <1>2, <1>4, <1>11, <1>13, <1>14 DEF ExecuteArrives

(***************************************************************************)
(* Bulk executions: rows after rows are one sequence of values.            *)
(***************************************************************************)
\* The chain of the pieces of b goes on where that of a ends.
LEMMA FlattenConcat ==
    ASSUME NEW S, NEW a \in Seq(Seq(S)), NEW b \in Seq(Seq(S))
    PROVE  FlattenSeq(a \o b) = FlattenSeq(a) \o FlattenSeq(b)
<1>1. PICK n \in Nat, m \in Nat : n = Len(a) /\ m = Len(b) /\ DOMAIN b = 1..m /\ \A i \in 1..m : b[i] \in Seq(S)
    OBVIOUS
<1>2. PICK p \in Seq(Seq(S)) : p = a \o b /\ Len(p) = n + m /\ \A i \in 1..m : p[n + i] = b[i]
    <2>1. Beside(a \o b, a, b, n, m, Seq(S))
        BY <1>1, Concatenation
    <2> QED BY ONLY <2>1 DEF Beside
<1>3. SubSeq(p, 1, n) = a
    BY ONLY <1>1, <1>2, a \in Seq(Seq(S)), b \in Seq(Seq(S))
<1>4. PICK k \in Nat : k = n + m /\ n <= k
    OBVIOUS
<1>5. PICK q : Joins(q, p, k, S) /\ FlattenSeq(p) = q[k]
    <2>1. DOMAIN p = 1..k /\ Len(p) = k /\ \A i \in 1..k : p[i] \in Seq(S)
        BY ONLY <1>2, <1>4, p \in Seq(Seq(S))
    <2> QED BY ONLY <2>1, k \in Nat, FlattenChain
<1>6. FlattenSeq(a) = q[n]
    <2>1. FlattenSeq(SubSeq(p, 1, n)) = q[n]
        <3>1. Len(p) = k /\ n <= k /\ Joins(q, p, k, S)
            BY ONLY <1>2, <1>4, <1>5
        <3> QED BY ONLY <3>1, p \in Seq(Seq(S)), n \in Nat, k \in Nat, FlattenFront
    <2> QED BY ONLY <1>3, <2>1
<1>7. PICK u : Joins(u, b, m, S) /\ FlattenSeq(b) = u[m]
    BY ONLY <1>1, m \in Nat, FlattenChain
<1> DEFINE Right(i) == q[n + i] = q[n] \o u[i]
           T == {i \in Nat : i <= m => Right(i)}
<1>8. Right(0)
    <2>1. PICK c \in Seq(S) : c = q[n]
        <3>1. n \in 0..k
            BY <1>4
        <3> QED BY <1>5, <3>1, JoinsType
    <2>2. u[0] = <<>> /\ n + 0 = n
        BY <1>7 DEF Joins
    <2>3. c \o <<>> = c
        OBVIOUS
    <2> QED BY ONLY <2>1, <2>2, <2>3
<1>9. ASSUME NEW j \in 1..m, Right(j - 1) PROVE Right(j)
    <2>1. j \in Nat /\ n + j \in 1..k /\ (n + j) - 1 = n + (j - 1) /\ n \in 0..k /\ j - 1 \in 0..m
        BY <1>4
    <2>2. q[n + (j - 1)] = q[n] \o u[j - 1]
        BY <1>9
    <2>3. q[n + j] = q[n + (j - 1)] \o p[n + j]
        BY ONLY <1>5, <2>1 DEF Joins
    <2>4. p[n + j] = b[j] /\ u[j] = u[j - 1] \o b[j]
        BY ONLY <1>2, <1>7, j \in 1..m DEF Joins
    <2>5. PICK c \in Seq(S), d \in Seq(S), e \in Seq(S) : c = q[n] /\ d = u[j - 1] /\ e = b[j]
        <3>1. q[n] \in Seq(S) /\ u[j - 1] \in Seq(S)
            BY <1>5, <1>7, <2>1, JoinsType
        <3>2. b[j] \in Seq(S)
            BY <1>1
        <3> QED BY ONLY <3>1, <3>2
    <2>6. (c \o d) \o e = c \o (d \o e)
        OBVIOUS
    <2> QED BY ONLY <2>2, <2>3, <2>4, <2>5, <2>6
<1> HIDE DEF Right
<1>10. Nat \subseteq T
    <2>1. 0 \in T
        BY <1>8
    <2>2. ASSUME NEW i \in T PROVE i + 1 \in T
        <3>1. i + 1 <= m => i + 1 \in 1..m /\ (i + 1) - 1 = i /\ Right(i)
            OBVIOUS
        <3> QED BY <3>1, <1>9
    <2> HIDE DEF T
    <2>3. T \subseteq Nat
        BY DEF T
    <2> QED BY <2>1, <2>2, <2>3, NatSets
<1>10a. Right(m)
    BY <1>10
<1>11. q[n + m] = q[n] \o u[m]
    BY <1>10a DEF Right
<1> QED BY ONLY <1>2, <1>4, <1>5, <1>6, <1>7, <1>11

\* The pieces of a sequence of values, and of all its rows one after the other.
BulkPieces(s) == [i \in 1..Len(s) |-> BulkValue(s[i])]

LEMMA BulkValueIs ==
    ASSUME NEW v \in Parameters
    PROVE  BulkValue(v) \in Seq(Byte)
<1>1. AppendBinaryParam(v) \in Seq(Byte)
    <2>1. PICK typ : typ = GetBinaryParamType(v)
        OBVIOUS
    <2>2. <<>> \in Seq(Byte)
        OBVIOUS
    <2> QED BY <2>1, <2>2, ParamTaken
<1>2. PICK x \in Seq(Byte) : x = AppendBinaryParam(v)
    BY <1>1
<1>3. PICK a \in Byte, b \in Byte : a = 1 /\ b = 0
    BY DEF Byte
<1>4. <<a>> \in Seq(Byte) /\ <<b>> \o x \in Seq(Byte)
    OBVIOUS
<1> QED BY ONLY <1>2, <1>3, <1>4 DEF BulkValue

LEMMA BulkPiecesAre ==
    ASSUME NEW s \in Seq(Parameters)
    PROVE  BulkPieces(s) \in Seq(Seq(Byte)) /\ Len(BulkPieces(s)) = Len(s)
<1>1. PICK n \in Nat : n = Len(s) /\ \A i \in 1..n : s[i] \in Parameters
    OBVIOUS
<1>2. \A i \in 1..n : BulkValue(s[i]) \in Seq(Byte)
    BY <1>1, BulkValueIs
<1>3. PICK p : p = [i \in 1..n |-> BulkValue(s[i])]
    OBVIOUS
<1>4. p \in Seq(Seq(Byte)) /\ Len(p) = n
    BY ONLY <1>2, <1>3, n \in Nat
<1> QED BY ONLY <1>1, <1>3, <1>4 DEF BulkPieces

LEMMA BulkPiecesJoin ==
    ASSUME NEW s \in Seq(Parameters), NEW t \in Seq(Parameters)
    PROVE  BulkPieces(s \o t) = BulkPieces(s) \o BulkPieces(t)
<1>1. PICK n \in Nat, m \in Nat : n = Len(s) /\ m = Len(t)
    OBVIOUS
<1>2. PICK z \in Seq(Parameters) : z = s \o t /\ Len(z) = n + m
         /\ (\A i \in 1..n : z[i] = s[i]) /\ (\A i \in 1..m : z[n + i] = t[i])
    <2>1. Beside(s \o t, s, t, n, m, Parameters)
        BY <1>1, Concatenation
    <2> QED BY ONLY <2>1 DEF Beside
<1>3. PICK a \in Seq(Seq(Byte)), b \in Seq(Seq(Byte)), c \in Seq(Seq(Byte)) :
          a = BulkPieces(s) /\ b = BulkPieces(t) /\ c = BulkPieces(z) /\ Len(a) = n /\ Len(b) = m /\ Len(c) = n + m
    BY <1>1, <1>2, BulkPiecesAre
<1>4. /\ \A i \in 1..n : a[i] = BulkValue(s[i])
      /\ \A i \in 1..m : b[i] = BulkValue(t[i])
      /\ \A i \in 1..(n + m) : c[i] = BulkValue(z[i])
    BY ONLY <1>1, <1>2, <1>3 DEF BulkPieces
<1>5. PICK d \in Seq(Seq(Byte)) : d = a \o b /\ Len(d) = n + m
         /\ (\A i \in 1..n : d[i] = a[i]) /\ (\A i \in 1..m : d[n + i] = b[i])
    <2>1. Beside(a \o b, a, b, n, m, Seq(Byte))
        BY <1>3, Concatenation
    <2> QED BY ONLY <2>1 DEF Beside
<1>6. ASSUME NEW i \in 1..(n + m) PROVE c[i] = d[i]
    <2>1. CASE i \in 1..n
        BY ONLY <1>2, <1>4, <1>5, <2>1, i \in 1..(n + m)
    <2>2. CASE \E j \in 1..m : i = n + j
        <3>1. PICK j \in 1..m : i = n + j
            BY <2>2
        <3>2. d[n + j] = b[j] /\ b[j] = BulkValue(t[j]) /\ z[n + j] = t[j]
            BY ONLY <1>2, <1>4, <1>5, j \in 1..m
        <3>3. c[i] = BulkValue(z[i])
            BY ONLY <1>4, i \in 1..(n + m)
        <3> QED BY ONLY <3>1, <3>2, <3>3
    <2>3. i \in 1..n \/ (i - n \in 1..m /\ i = n + (i - n))
        OBVIOUS
    <2> QED BY ONLY <2>1, <2>2, <2>3
<1>7. c = d
    <2>1. Len(c) = Len(d) /\ \A i \in 1..Len(c) : c[i] = d[i]
        BY ONLY <1>3, <1>5, <1>6
    <2> QED BY ONLY <2>1, c \in Seq(Seq(Byte)), d \in Seq(Seq(Byte)), SameSequence
<1> QED BY ONLY <1>2, <1>3, <1>5, <1>7

AllPieces(s) == FlattenSeq(BulkPieces(s))

LEMMA AllPiecesAre ==
    ASSUME NEW s \in Seq(Parameters), NEW n \in Nat, n = Len(s)
    PROVE  /\ AllPieces(s) \in Seq(Byte)
           /\ \E q : Joins(q, BulkPieces(s), n, Byte) /\ AllPieces(s) = q[n]
<1>1. PICK p \in Seq(Seq(Byte)) : p = BulkPieces(s) /\ Len(p) = n
    BY BulkPiecesAre
<1>2. DOMAIN p = 1..n /\ Len(p) = n /\ \A i \in 1..n : p[i] \in Seq(Byte)
    BY ONLY <1>1, p \in Seq(Seq(Byte)), n \in Nat
<1>3. PICK q : Joins(q, p, n, Byte) /\ FlattenSeq(p) = q[n]
    BY ONLY <1>2, n \in Nat, FlattenChain
<1>4. q[n] \in Seq(Byte)
    <2>1. n \in 0..n
        OBVIOUS
    <2> QED BY <1>3, <2>1, JoinsType
<1> QED BY ONLY <1>1, <1>3, <1>4, Zenon DEF AllPieces

LEMMA AllPiecesJoin ==
    ASSUME NEW s \in Seq(Parameters), NEW t \in Seq(Parameters)
    PROVE  AllPieces(s \o t) = AllPieces(s) \o AllPieces(t)
<1>1. BulkPieces(s) \in Seq(Seq(Byte)) /\ BulkPieces(t) \in Seq(Seq(Byte))
    BY BulkPiecesAre
<1>2. PICK a \in Seq(Seq(Byte)), b \in Seq(Seq(Byte)) : a = BulkPieces(s) /\ b = BulkPieces(t)
    BY ONLY <1>1
<1>3. FlattenSeq(a \o b) = FlattenSeq(a) \o FlattenSeq(b)
    BY FlattenConcat
<1>4. BulkPieces(s \o t) = a \o b
    BY <1>2, BulkPiecesJoin
<1> QED BY ONLY <1>2, <1>3, <1>4 DEF AllPieces

\* Rows of a bulk execution: k rows of m columns, each value NULL or of the type its column has in
\* the first row.
BulkRows(rows, k, m) ==
    /\ k \in Nat /\ k >= 1 /\ m \in Nat /\ rows \in Seq(Seq(Parameters)) /\ Len(rows) = k
    /\ \A r \in 1..k : Len(rows[r]) = m
    /\ \A r \in 1..k, i \in 1..m :
          rows[r][i] = Null \/ GetBinaryParamType(rows[r][i]) = GetBinaryParamType(rows[1][i])

\* The type of a value of the rows, one after the other.
Typed(s, types, m) ==
    \A j \in 1..Len(s) : s[j] = Null \/ types[1 + ((j - 1) % m)] = GetBinaryParamType(s[j])

LEMMA Column ==
    ASSUME NEW m \in Nat, NEW t \in Nat, NEW i \in 1..m, NEW l, l = t * m
    PROVE  1 + (((l + i) - 1) % m) = i
<1>1. i - 1 \in 0..(m - 1) /\ m >= 1 /\ l = m * t
    OBVIOUS
<1>2. (m * t + (i - 1)) % m = i - 1
    BY ONLY <1>1, m \in Nat, t \in Nat
<1>3. l \in Int /\ (l + i) - 1 = l + (i - 1)
    BY ONLY l = t * m, t \in Nat, m \in Nat, i \in 1..m
<1> QED BY ONLY <1>1, <1>2, <1>3, i \in 1..m

TypedRow(row, types, m) ==
    Len(row) = m /\ \A i \in 1..m : row[i] = Null \/ types[i] = GetBinaryParamType(row[i])

\* t rows of m columns, one after the other.
TypedRows(s, types, m, t) == Len(s) = t * m /\ Typed(s, types, m)

LEMMA TypedNext ==
    ASSUME NEW m \in Nat, NEW t \in Nat, NEW types, NEW s \in Seq(Parameters), TypedRows(s, types, m, t),
           NEW row \in Seq(Parameters), TypedRow(row, types, m)
    PROVE  TypedRows(s \o row, types, m, t + 1)
<1>0. /\ Len(s) = t * m /\ Typed(s, types, m) /\ Len(row) = m
      /\ \A i \in 1..m : row[i] = Null \/ types[i] = GetBinaryParamType(row[i])
    BY DEF TypedRows, TypedRow
<1>1. PICK l \in Nat : l = t * m /\ l = Len(s) /\ (t + 1) * m = l + m
    BY <1>0, Times
<1>2. PICK z \in Seq(Parameters) : z = s \o row /\ Len(z) = l + m
         /\ (\A i \in 1..l : z[i] = s[i]) /\ (\A i \in 1..m : z[l + i] = row[i])
    <2>1. Beside(s \o row, s, row, l, m, Parameters)
        BY <1>0, <1>1, Concatenation
    <2> QED BY ONLY <2>1 DEF Beside
<1>3. ASSUME NEW j \in 1..(l + m) PROVE z[j] = Null \/ types[1 + ((j - 1) % m)] = GetBinaryParamType(z[j])
    <2>1. CASE j \in 1..l
        <3>1. s[j] = Null \/ types[1 + ((j - 1) % m)] = GetBinaryParamType(s[j])
            BY <1>0, <1>1, <2>1 DEF Typed
        <3> QED BY ONLY <1>2, <2>1, <3>1
    <2>2. CASE \E i \in 1..m : j = l + i
        <3>1. PICK i \in 1..m : j = l + i
            BY <2>2
        <3>2. 1 + (((l + i) - 1) % m) = i
            <4>1. \A x : x = t * m => 1 + (((x + i) - 1) % m) = i
                BY ONLY m \in Nat, t \in Nat, i \in 1..m, Column, Zenon
            <4> QED BY ONLY <1>1, <4>1, Zenon
        <3>3. z[l + i] = row[i] /\ (row[i] = Null \/ types[i] = GetBinaryParamType(row[i]))
            BY <1>0, <1>2
        <3> QED BY ONLY <3>1, <3>2, <3>3
    <2>3. j \in 1..l \/ (j - l \in 1..m /\ j = l + (j - l))
        OBVIOUS
    <2> QED BY ONLY <2>1, <2>2, <2>3
<1> QED BY ONLY <1>1, <1>2, <1>3 DEF Typed, TypedRows

\* What is sent is the piece of every value, row after row, and every value has the type of its column.
FlatIs(rows, flat, m) ==
    /\ flat \in Seq(Parameters) /\ flat = FlattenSeq(rows)
    /\ WriteBulk(rows).values = AllPieces(flat)
    /\ Typed(flat, WriteBulk(rows).types, m) /\ Len(WriteBulk(rows).types) = m

LEMMA RowsFlat ==
    ASSUME NEW rows, NEW k, NEW m, BulkRows(rows, k, m)
    PROVE  \E flat : FlatIs(rows, flat, m)
<1>1. /\ k \in Nat /\ k >= 1 /\ m \in Nat /\ rows \in Seq(Seq(Parameters)) /\ Len(rows) = k
      /\ \A r \in 1..k : Len(rows[r]) = m
      /\ \A r \in 1..k, i \in 1..m :
            rows[r][i] = Null \/ GetBinaryParamType(rows[r][i]) = GetBinaryParamType(rows[1][i])
    BY DEF BulkRows
<1>2. DOMAIN rows = 1..k /\ 1 \in 1..k /\ \A r \in 1..k : rows[r] \in Seq(Parameters) /\ DOMAIN rows[r] = 1..Len(rows[r])
    BY ONLY <1>1
<1>3. PICK types : types = WriteBulk(rows).types
    OBVIOUS
<1>4. Len(types) = m /\ \A i \in 1..m : types[i] = GetBinaryParamType(rows[1][i])
    <2>1. DOMAIN rows[1] = 1..m
        BY ONLY <1>1, <1>2
    <2>2. types = [i \in 1..m |-> GetBinaryParamType(rows[1][i])]
        BY ONLY <1>3, <2>1 DEF WriteBulk
    <2> QED BY ONLY <1>1, <2>2
<1>5. PICK p : p = [r \in 1..k |-> AllPieces(rows[r])]
    OBVIOUS
<1>6. WriteBulk(rows).values = FlattenSeq(p)
    <2>1. \A r \in 1..k : FlattenSeq([i \in DOMAIN rows[r] |-> BulkValue(rows[r][i])]) = AllPieces(rows[r])
        BY ONLY <1>2 DEF AllPieces, BulkPieces
    <2>2. [r \in DOMAIN rows |-> FlattenSeq([i \in DOMAIN rows[r] |-> BulkValue(rows[r][i])])] = p
        BY ONLY <1>2, <1>5, <2>1
    <2> QED BY ONLY <2>2 DEF WriteBulk
<1>7. DOMAIN p = 1..k /\ Len(p) = k /\ \A r \in 1..k : p[r] = AllPieces(rows[r]) /\ p[r] \in Seq(Byte)
    <2>1. \A r \in 1..k : AllPieces(rows[r]) \in Seq(Byte)
        <3> TAKE r \in 1..k
        <3>1. rows[r] \in Seq(Parameters) /\ Len(rows[r]) \in Nat
            BY <1>1, <1>2
        <3> QED BY <3>1, AllPiecesAre
    <2> QED BY ONLY <1>1, <1>5, <2>1
<1>8. PICK Q : Joins(Q, p, k, Byte) /\ FlattenSeq(p) = Q[k]
    BY ONLY <1>1, <1>7, FlattenChain
<1>9. PICK f : Joins(f, rows, k, Parameters) /\ FlattenSeq(rows) = f[k]
    BY ONLY <1>1, <1>2, FlattenChain
<1> DEFINE Right(t) == /\ f[t] \in Seq(Parameters) /\ Q[t] = AllPieces(f[t])
                       /\ Len(f[t]) = t * m /\ Typed(f[t], types, m)
           T == {t \in Nat : t <= k => Right(t)}
<1>10. Right(0)
    <2>1. f[0] = <<>> /\ Q[0] = <<>>
        BY <1>8, <1>9 DEF Joins
    <2>2. PICK s \in Seq(Parameters) : s = <<>> /\ Len(s) = 0
        <3>1. <<>> \in Seq(Parameters) /\ Len(<<>>) = 0
            OBVIOUS
        <3> QED BY ONLY <3>1, Zenon
    <2>3. AllPieces(s) = <<>>
        <3>1. PICK q : Joins(q, BulkPieces(s), 0, Byte) /\ AllPieces(s) = q[0]
            BY <2>2, AllPiecesAre
        <3> QED BY ONLY <3>1 DEF Joins
    <2>4. 0 = 0 * m
        BY <1>1
    <2>5. Typed(s, types, m)
        BY ONLY <2>2 DEF Typed
    <2> QED BY ONLY <2>1, <2>2, <2>3, <2>4, <2>5
<1>11. ASSUME NEW t \in 1..k, Right(t - 1) PROVE Right(t)
    <2>1. PICK s \in Seq(Parameters), row \in Seq(Parameters), u \in Nat :
              s = f[t - 1] /\ row = rows[t] /\ u = t - 1 /\ u + 1 = t
        <3>1. t - 1 \in Nat /\ (t - 1) + 1 = t
            OBVIOUS
        <3>2. f[t - 1] \in Seq(Parameters) /\ rows[t] \in Seq(Parameters)
            BY <1>2, <1>11
        <3> QED BY ONLY <3>1, <3>2
    <2>2. Q[u] = AllPieces(s) /\ Len(s) = u * m /\ Typed(s, types, m)
        BY <1>11, <2>1
    <2>3. f[t] = s \o row /\ Q[t] = Q[u] \o AllPieces(row)
        BY ONLY <1>7, <1>8, <1>9, <2>1, t \in 1..k DEF Joins
    <2>4. TypedRow(row, types, m)
        BY ONLY <1>1, <1>4, <2>1, t \in 1..k DEF TypedRow
    <2>5. Typed(s \o row, types, m) /\ Len(s \o row) = (u + 1) * m
        <3>1. TypedRows(s, types, m, u)
            BY ONLY <2>2 DEF TypedRows
        <3>2. TypedRows(s \o row, types, m, u + 1)
            BY <1>1, <2>4, <3>1, TypedNext, Zenon
        <3> QED BY ONLY <3>2 DEF TypedRows
    <2>6. AllPieces(s \o row) = AllPieces(s) \o AllPieces(row)
        BY AllPiecesJoin
    <2>7. s \o row \in Seq(Parameters)
        OBVIOUS
    <2> QED BY ONLY <2>1, <2>2, <2>3, <2>5, <2>6, <2>7
<1> HIDE DEF Right
<1>12. Nat \subseteq T
    <2>1. 0 \in T
        BY <1>10
    <2>2. ASSUME NEW i \in T PROVE i + 1 \in T
        <3>1. i + 1 <= k => i + 1 \in 1..k /\ (i + 1) - 1 = i /\ Right(i)
            BY <1>1
        <3> QED BY <3>1, <1>11
    <2> HIDE DEF T
    <2>3. T \subseteq Nat
        BY DEF T
    <2> QED BY <2>1, <2>2, <2>3, NatSets
<1>13. Right(k)
    BY <1>1, <1>12
<1>14. FlatIs(rows, f[k], m)
    <2>1. f[k] \in Seq(Parameters) /\ Q[k] = AllPieces(f[k]) /\ Typed(f[k], types, m)
        BY <1>13 DEF Right
    <2> QED BY ONLY <1>3, <1>4, <1>6, <1>8, <1>9, <2>1 DEF FlatIs
<1> QED BY ONLY <1>14, Zenon

\* What is left once the mark of a value is read off.
LEMMA LeftTail ==
    ASSUME NEW x, NEW got
    PROVE  Left(x, got).rest = x /\ [Left(x, got) EXCEPT !.rest = Tail(@)] = Left(Tail(x), got)
<1>1. Left(x, got).rest = x
    BY DEF Left
<1>2. PICK t : t = Tail(x)
    OBVIOUS
<1>3. [Left(x, got) EXCEPT !.rest = t] = Left(t, got)
    BY DEF Left
<1>4. [Left(x, got) EXCEPT !.rest = Tail(@)] = [Left(x, got) EXCEPT !.rest = t]
    <2>1. Tail(Left(x, got).rest) = t
        BY <1>1, <1>2
    <2> QED BY <2>1, Zenon
<1> QED BY ONLY <1>1, <1>2, <1>3, <1>4

\* Every bulk execution arrives, however many rows and columns it has.
THEOREM BulkExecutionArrives ==
    ASSUME NEW rows, NEW k, NEW m, BulkRows(rows, k, m)
    PROVE  BulkArrives(rows)
<1>1. PICK flat : FlatIs(rows, flat, m)
    BY RowsFlat
<1>2. PICK w : w = WriteBulk(rows)
    OBVIOUS
<1>3. /\ flat \in Seq(Parameters) /\ flat = FlattenSeq(rows)
      /\ w.values = AllPieces(flat) /\ Typed(flat, w.types, m) /\ Len(w.types) = m
    BY ONLY <1>1, <1>2 DEF FlatIs
<1>4. PICK n \in Nat : n = Len(flat) /\ DOMAIN flat = 1..n /\ \A i \in 1..n : flat[i] \in Parameters
    BY ONLY <1>3
<1>5. PICK p : p = BulkPieces(flat) /\ \A i \in 1..n : p[i] = BulkValue(flat[i])
    <2>1. PICK p : p = [i \in 1..n |-> BulkValue(flat[i])]
        OBVIOUS
    <2>2. p = BulkPieces(flat)
        BY ONLY <1>4, <2>1 DEF BulkPieces
    <2> QED BY ONLY <2>1, <2>2
<1>6. PICK vals : vals = [i \in 1..n |-> AsRead(flat[i])]
    OBVIOUS
<1>7. vals \in Seq(ReadValues) /\ Len(vals) = n
    <2>1. \A i \in 1..n : AsRead(flat[i]) \in ReadValues
        BY <1>4 DEF ReadValues
    <2> QED BY ONLY <1>6, <2>1, n \in Nat
<1>8. PICK q : Joins(q, p, n, Byte) /\ w.values = q[n]
    BY <1>3, <1>4, <1>5, AllPiecesAre
<1>9. ASSUME NEW i \in 1..n
      PROVE  Takes("bulk", w, p[i], vals[i], i)
    <2>1. PICK v \in Parameters : v = flat[i] /\ p[i] = BulkValue(v) /\ vals[i] = AsRead(v)
        BY <1>4, <1>5, <1>6
    <2>2. PICK typ : typ = w.types[1 + ((i - 1) % Len(w.types))] /\ (v = Null \/ typ = GetBinaryParamType(v))
        BY <1>3, <1>4, <2>1 DEF Typed
    <2>3. AppendBinaryParam(v) \in Seq(Byte)
        <3>1. <<>> \in Seq(Byte)
            OBVIOUS
        <3> QED BY <2>2, <3>1, ParamTaken
    <2>4. ASSUME NEW rest \in Seq(Byte), NEW got
          PROVE  FoldStep("bulk", w, Left(p[i] \o rest, got), i) = Left(rest, Append(got, vals[i]))
        <3>1. PICK acc : acc = Left(p[i] \o rest, got)
            OBVIOUS
        <3>2. PICK a \in Seq(Byte) : a = AppendBinaryParam(v) \o rest
            <4>1. PICK x \in Seq(Byte) : x = AppendBinaryParam(v)
                BY <2>3
            <4>2. x \o rest \in Seq(Byte)
                OBVIOUS
            <4> QED BY ONLY <4>1, <4>2
        <3>3. /\ acc.rest # <<>>
              /\ (acc.rest[1] = 1) = (v = Null)
              /\ [acc EXCEPT !.rest = Tail(@)] = Left(a, got)
            <4>1. PICK mark \in Byte : mark = IF v = Null THEN 1 ELSE 0
                BY DEF Byte
            <4>2. p[i] \o rest = <<mark>> \o a
                <5>1. CASE v = Null
                    <6>1. AppendBinaryParam(v) = <<>>
                        BY ONLY <5>1 DEF AppendBinaryParam, Null
                    <6>2. <<>> \o rest = rest
                        OBVIOUS
                    <6> QED BY ONLY <2>1, <3>2, <4>1, <5>1, <6>1, <6>2 DEF BulkValue
                <5>2. CASE v # Null
                    <6>1. PICK x \in Seq(Byte) : x = AppendBinaryParam(v)
                        BY <2>3
                    <6>2. (<<mark>> \o x) \o rest = <<mark>> \o (x \o rest)
                        BY ONLY mark \in Byte, x \in Seq(Byte), rest \in Seq(Byte)
                    <6>3. p[i] = <<mark>> \o x
                        BY ONLY <2>1, <4>1, <5>2, <6>1 DEF BulkValue
                    <6> QED BY ONLY <3>2, <6>1, <6>2, <6>3
                <5> QED BY <5>1, <5>2
            <4>3. <<mark>> \o a # <<>> /\ (<<mark>> \o a)[1] = mark /\ Tail(<<mark>> \o a) = a
                BY ONLY mark \in Byte, a \in Seq(Byte)
            <4>4. acc.rest = <<mark>> \o a /\ [acc EXCEPT !.rest = Tail(@)] = Left(Tail(<<mark>> \o a), got)
                <5>1. acc = Left(<<mark>> \o a, got)
                    BY ONLY <3>1, <4>2
                <5>2. PICK x : x = <<mark>> \o a
                    OBVIOUS
                <5>3. Left(x, got).rest = x /\ [Left(x, got) EXCEPT !.rest = Tail(@)] = Left(Tail(x), got)
                    BY LeftTail
                <5> QED BY ONLY <5>1, <5>2, <5>3
            <4>5. (mark = 1) = (v = Null)
                BY ONLY <4>1
            <4> QED BY ONLY <4>3, <4>4, <4>5
        <3>4. FoldStep("bulk", w, acc, i) = Take(Left(a, got), typ, v = Null)
            BY ONLY <2>2, <3>3 DEF FoldStep, BulkParam
        <3>5. Take(Left(AppendBinaryParam(v) \o rest, got), typ, v = Null) = Left(rest, Append(got, AsRead(v)))
            <4>1. v = Null \/ typ = GetBinaryParamType(v)
                BY ONLY <2>2
            <4> QED BY ONLY <4>1, v \in Parameters, rest \in Seq(Byte), ParamTaken
        <3> QED BY ONLY <2>1, <3>1, <3>2, <3>4, <3>5
    <2> QED BY ONLY <2>4 DEF Takes
<1>10. PICK r : /\ FoldVia(r, "bulk", w, Left(w.values, <<>>), [i \in 1..n |-> i], n)
                /\ ServerBulk(w, n) = r[n]
    BY BulkFold
<1>11. TakenOf("bulk", w, n, p, q, vals, ReadValues, r)
    <2>1. FoldVia(r, "bulk", w, Left(q[n], <<>>), [i \in 1..n |-> i], n)
        BY ONLY <1>8, <1>10
    <2> QED BY ONLY <1>7, <1>8, <1>9, <2>1 DEF TakenOf
<1>12. r[n] = Left(<<>>, vals)
    BY ONLY <1>11, n \in Nat, AllTaken
<1>13. Exactly(flat) = Left(<<>>, vals)
    BY ONLY <1>4, <1>6 DEF Exactly, Left
<1> QED BY ONLY <1>2, <1>3, <1>4, <1>10, <1>12, <1>13 DEF BulkArrives

(***************************************************************************)
(* The inputs.                                                             *)
(***************************************************************************)
TextSymbols == Symbols \cup Dull
TextInput(p) == \E q \in Seq(TextSymbols) : p = [kind |-> "text", q |-> q]
BoundInput(p) == p.q \in Seq(TextSymbols) /\ Arguments(p.args, TextSymbols)
InsertInput(p) == p.table \in Seq(TextSymbols) /\ p.columns \in Seq(Seq(TextSymbols)) /\ p.rows \in Nat
IntInput(p) == p.n \in Nat /\ p.n < Limit(8) /\ p.rest \in Seq(Byte)
TextRowInput(p) ==
    p.vals \in Seq(TextValues) /\ (p.vals = <<>> \/ p.vals[1] = Null \/ Len(p.vals[1].s) < Huge)
RowInput(p) == \E n : BinaryRow(n, p.types, p.vals)
StampInput(p) ==
    \E y \in Years, m \in Byte, d \in Byte, off \in Offsets, name \in Byte :
        /\ p.date = <<y, m, d>> /\ p.off = off /\ p.name = name
        /\ p.typ # "tz" => p.off = 0
WallInput(p) ==
    /\ ZoneOK(p.zone, 2) /\ p.wall \in -3..11
    /\ \A i \in 1..3 : p.zone.offs[i] \in -2..5
TimeInput(p) == p.t \in Moments
ExecuteInput(p) == p.args \in Seq(Parameters)
BulkInput(p) == \E k, m : BulkRows(p.rows, k, m)

Inputs ==
    /\ probe.kind = "text" => TextInput(probe)
    /\ probe.kind = "bound" => BoundInput(probe)
    /\ probe.kind = "insert" => InsertInput(probe)
    /\ probe.kind = "int" => IntInput(probe)
    /\ probe.kind = "textrow" => TextRowInput(probe)
    /\ probe.kind = "row" => RowInput(probe)
    /\ probe.kind = "terminator" => TermInput(probe)
    /\ probe.kind = "time" => TimeInput(probe)
    /\ probe.kind = "execute" => ExecuteInput(probe)
    /\ probe.kind = "bulk" => BulkInput(probe)
    /\ probe.kind = "stamp" => StampInput(probe)
    /\ probe.kind = "wall" => WallInput(probe)

LEMMA TextSymbolsAre ==
    /\ Alphabet(TextSymbols) /\ Symbols \subseteq TextSymbols /\ NamePieces \subseteq TextSymbols
    /\ "'" \in TextSymbols /\ "?" \in TextSymbols /\ "-" \in TextSymbols
    /\ "X" \in TextSymbols /\ "Y" \in TextSymbols /\ "\"" \in TextSymbols
<1>1. Alphabet(TextSymbols)
    BY ONLY TRUE DEF Alphabet, TextSymbols, Symbols, Dull
<1>2. Symbols \subseteq TextSymbols
    BY DEF TextSymbols
<1>3. NamePieces \subseteq TextSymbols
    BY ONLY TRUE DEF NamePieces, TextSymbols, Symbols, Dull
<1>4. /\ "'" \in TextSymbols /\ "?" \in TextSymbols /\ "-" \in TextSymbols
      /\ "X" \in TextSymbols /\ "Y" \in TextSymbols /\ "\"" \in TextSymbols
    BY ONLY TRUE DEF TextSymbols, Symbols, Dull
<1> QED BY ONLY <1>1, <1>2, <1>3, <1>4

LEMMA ArgsAre ==
    ASSUME NEW a \in Args
    PROVE  Argument(a, TextSymbols)
<1>1. PICK S : S = TextSymbols
    OBVIOUS
<1>2. PICK b \in S, c \in S, d \in S : b = "'" /\ c = "?" /\ d = "-"
    BY ONLY <1>1, TextSymbolsAre
<1>3. <<>> \in Seq(S) /\ <<b>> \in Seq(S) /\ <<c>> \in Seq(S) /\ <<b, c>> \in Seq(S) /\ <<d, d>> \in Seq(S)
    BY ONLY b \in S, c \in S, d \in S
<1>4. a.text \in {<<>>, <<b>>, <<c>>, <<b, c>>, <<d, d>>}
    BY ONLY <1>2, a \in Args DEF Args
<1> QED BY ONLY <1>1, <1>3, <1>4 DEF Argument

\* The tables and columns of the inserts.
FirstColumns == {<<"X">>, <<"\"", "?">>}

LEMMA NamesAre ==
    /\ \A x \in Names : x \in Seq(TextSymbols)
    /\ \A x \in FirstColumns : x \in Seq(TextSymbols)
    /\ <<"Y">> \in Seq(TextSymbols)
<1>1. ASSUME NEW x \in Names PROVE x \in Seq(TextSymbols)
    <2>1. PICK m \in 0..3 : x \in [1..m -> NamePieces]
        BY ONLY x \in Names DEF Names
    <2>2. x \in [1..m -> TextSymbols]
        BY ONLY <2>1, TextSymbolsAre
    <2>3. m \in Nat
        BY ONLY m \in 0..3
    <2> QED BY ONLY <2>2, <2>3
<1>2. PICK S : S = TextSymbols
    OBVIOUS
<1>3. PICK a \in S, b \in S, c \in S, d \in S : a = "X" /\ b = "\"" /\ c = "?" /\ d = "Y"
    BY ONLY <1>2, TextSymbolsAre
<1>4. <<a>> \in Seq(S) /\ <<b, c>> \in Seq(S) /\ <<d>> \in Seq(S)
    BY ONLY a \in S, b \in S, c \in S, d \in S
<1>5. FirstColumns = {<<a>>, <<b, c>>}
    BY ONLY <1>3 DEF FirstColumns
<1> QED BY ONLY <1>1, <1>2, <1>3, <1>4, <1>5

LEMMA SampleIs ==
    ASSUME NEW typ \in RowTypes
    PROVE  Sample[typ] \in BinaryValues(typ)
<1>1. /\ Fits(-1, 1) /\ Fits(-300, 2) /\ Fits(70000, 4) /\ Fits(-2, 8)
    BY SMT DEF Fits, Limit
<1>2. /\ Sample["tiny"] = Integer(-1) /\ Sample["short"] = Integer(-300)
      /\ Sample["long"] = Integer(70000) /\ Sample["longlong"] = Integer(-2)
    BY SMT DEF Sample
<1>3. /\ Widths["tiny"] = 1 /\ Widths["short"] = 2 /\ Widths["long"] = 4 /\ Widths["longlong"] = 8
    BY DEF Widths
<1>4. ASSUME typ \in IntegerTypes PROVE Sample[typ] \in BinaryValues(typ)
    <2>1. PICK n \in Int : Fits(n, Widths[typ]) /\ Sample[typ] = Integer(n)
        BY <1>1, <1>2, <1>3, <1>4, SMT DEF IntegerTypes
    <2> QED BY ONLY <1>4, <2>1 DEF BinaryValues
<1>5. ASSUME typ = "datetime" PROVE Sample[typ] \in BinaryValues(typ)
    <2>1. Sample["datetime"] = ClockTime(2024, 2, 29, 0, 0, 1)
        BY SMT DEF Sample, ClockTime
    <2>2. PICK y \in {x \in Nat : x < Limit(2)} : y = 2024
        BY SMT DEF Limit
    <2>3. 0 \in Byte /\ 1 \in Byte /\ 2 \in Byte /\ 29 \in Byte
        BY DEF Byte
    <2>4. ClockTime(y, 2, 29, 0, 0, 1) \in ClockTimes
        BY ONLY <2>3, y \in {x \in Nat : x < Limit(2)} DEF ClockTimes
    <2>5. Sample[typ] \in ClockTimes
        BY ONLY <1>5, <2>1, <2>2, <2>4, SMT
    <2> QED BY ONLY <1>5, <2>5 DEF BinaryValues, IntegerTypes
<1>6. ASSUME typ = "varstring" PROVE Sample[typ] \in BinaryValues(typ)
    <2>1. Sample["varstring"] = String(<<251, 254>>)
        BY SMT DEF Sample
    <2>2. 251 \in Byte /\ 254 \in Byte
        BY DEF Byte
    <2>3. <<251, 254>> \in Seq(Byte) /\ Len(<<251, 254>>) = 2
        BY ONLY <2>2
    <2>4. 2 < Limit(8)
        BY SMT DEF Limit
    <2>5. <<251, 254>> \in Texts
        BY ONLY <2>3, <2>4 DEF Texts
    <2> QED BY ONLY <1>6, <2>1, <2>5 DEF BinaryValues, IntegerTypes
<1> QED BY <1>4, <1>5, <1>6 DEF RowTypes

LEMMA TypesOfAre ==
    ASSUME NEW n \in Nat, NEW shift \in Nat
    PROVE  /\ TypesOf(n, shift) \in Seq(RowTypes) /\ Len(TypesOf(n, shift)) = n
           /\ \A i \in 1..n : TypesOf(n, shift)[i] \in RowTypes
<1>1. Len(TypeOrder) = 6 /\ \A j \in 1..6 : TypeOrder[j] \in RowTypes
    BY DEF TypeOrder, RowTypes, IntegerTypes
<1>2. ASSUME NEW i \in 1..n PROVE TypeOrder[1 + ((i + shift) % Len(TypeOrder))] \in RowTypes
    <2>1. 1 + ((i + shift) % 6) \in 1..6
        OBVIOUS
    <2> QED BY ONLY <1>1, <2>1
<1> QED BY <1>2 DEF TypesOf

\* The parameters of the executions.
LEMMA ParamsAre ==
    /\ Len(Params) = 5
    /\ \A j \in 1..5 : Params[j] \in Given
<1>1. Params[1] = Truth(TRUE) /\ Params[2] = String(<<7>>) /\ Params[3] = Integer(-5)
      /\ Params[4] = Sample.datetime /\ Params[5] = String(<<>>) /\ Len(Params) = 5
    BY SMT DEF Params, Truth
<1>2. Truth(TRUE) \in Given
    BY DEF Given
<1>3. String(<<7>>) \in Given /\ String(<<>>) \in Given
    <2>1. 7 \in Byte
        BY DEF Byte
    <2>2. <<7>> \in Seq(Byte) /\ Len(<<7>>) = 1 /\ <<>> \in Seq(Byte) /\ Len(<<>>) = 0
        BY ONLY <2>1
    <2>3. 1 < Limit(8) /\ 0 < Limit(8)
        BY SMT DEF Limit
    <2>4. <<7>> \in Texts /\ <<>> \in Texts
        BY ONLY <2>2, <2>3 DEF Texts
    <2> QED BY ONLY <2>4 DEF Given
<1>4. Integer(-5) \in Given
    <2>1. PICK n \in Int : n = -5 /\ Fits(n, 8)
        BY SMT DEF Fits, Limit
    <2> QED BY ONLY <2>1, n \in Int DEF Given
<1>5. Sample.datetime \in Given
    <2>1. Sample.datetime = Moment(<<2024, 2, 29>>, <<0, 0, 1>>, 0)
        BY SMT DEF Sample, Moment
    <2>2. PICK y \in {x \in Nat : x < Limit(2)} : y = 2024
        BY SMT DEF Limit
    <2>3. 0 \in Byte /\ 1 \in Byte /\ 2 \in Byte /\ 29 \in Byte
        BY DEF Byte
    <2>4. <<y, 2, 29>> \in Days /\ <<0, 0, 1>> \in Clocks
        BY ONLY <2>3, y \in {x \in Nat : x < Limit(2)} DEF Days, Clocks
    <2>5. 0 \in Fractions
        BY SMT DEF Fractions
    <2>6. Moment(<<y, 2, 29>>, <<0, 0, 1>>, 0) \in Moments
        BY ONLY <2>4, <2>5 DEF Moments
    <2> QED BY ONLY <2>1, <2>2, <2>6 DEF Given
<1>6. \A j \in 1..5 : j = 1 \/ j = 2 \/ j = 3 \/ j = 4 \/ j = 5
    OBVIOUS
<1> QED BY ONLY <1>1, <1>2, <1>3, <1>4, <1>5, <1>6, Zenon

LEMMA ParamsOfAre ==
    ASSUME NEW n \in Nat, NEW shift \in Nat
    PROVE  \A i \in 1..n : ParamsOf(n, shift)[i] \in Given
<1>1. ASSUME NEW i \in 1..n PROVE Params[1 + ((i + shift) % Len(Params))] \in Given
    <2>1. 1 + ((i + shift) % 5) \in 1..5
        OBVIOUS
    <2> QED BY ONLY <2>1, ParamsAre
<1> QED BY <1>1 DEF ParamsOf

LEMMA PickedTime ==
    ASSUME PickTime
    PROVE  probe'.kind = "time" /\ TimeInput(probe')
<1>1. PICK y \in TimeYears, clock \in WallClocks, nsec \in Nanoseconds :
              probe' = [kind |-> "time", t |-> [kind |-> "time", date |-> <<y, 1, 1>>, clock |-> clock, nsec |-> nsec]]
    BY Zenon DEF PickTime
<1>2. y \in {x \in Nat : x < Limit(2)} /\ nsec \in Fractions
    BY ONLY y \in TimeYears, nsec \in Nanoseconds, SMT DEF TimeYears, Limit, Fractions, Nanoseconds
<1>3. 0 \in Byte /\ 1 \in Byte /\ 23 \in Byte /\ 59 \in Byte
    BY DEF Byte
<1>4. clock \in Clocks
    <2>1. <<0, 0, 0>> \in Clocks /\ <<0, 0, 1>> \in Clocks /\ <<0, 1, 0>> \in Clocks /\ <<23, 59, 59>> \in Clocks
        BY ONLY <1>3 DEF Clocks
    <2> QED BY ONLY <2>1, clock \in WallClocks DEF WallClocks
<1>5. <<y, 1, 1>> \in Days
    BY ONLY <1>2, <1>3 DEF Days
<1>6. probe'.kind = "time" /\ probe'.t = Moment(<<y, 1, 1>>, clock, nsec)
    BY ONLY <1>1 DEF Moment
<1>7. Moment(<<y, 1, 1>>, clock, nsec) \in Moments
    BY ONLY <1>2, <1>4, <1>5 DEF Moments
<1> QED BY ONLY <1>6, <1>7 DEF TimeInput

LEMMA PickedExecute ==
    ASSUME PickExecute
    PROVE  probe'.kind = "execute" /\ ExecuteInput(probe')
<1>1. PICK n \in {1, 7, 8, 9, 16, 17}, shift \in 0..4 : \E nulls \in FewOf(n) :
          probe' = [kind |-> "execute",
                    args |-> [i \in 1..n |-> IF i \in nulls THEN Null ELSE ParamsOf(n, shift)[i]]]
    BY DEF PickExecute
<1>2. PICK nulls :
          probe' = [kind |-> "execute",
                    args |-> [i \in 1..n |-> IF i \in nulls THEN Null ELSE ParamsOf(n, shift)[i]]]
    BY <1>1
<1>3. PICK args : args = [i \in 1..n |-> IF i \in nulls THEN Null ELSE ParamsOf(n, shift)[i]]
    OBVIOUS
<1>4. n \in Nat /\ shift \in Nat
    OBVIOUS
<1>5. \A i \in 1..n : args[i] \in Parameters
    BY ONLY <1>3, <1>4, ParamsOfAre DEF Parameters
<1>6. args = [i \in 1..n |-> args[i]]
    BY ONLY <1>3
<1>7. args \in Seq(Parameters)
    BY ONLY <1>4, <1>5, <1>6
<1>8. probe'.kind = "execute" /\ probe'.args = args
    BY ONLY <1>2, <1>3
<1> QED BY ONLY <1>7, <1>8 DEF ExecuteInput

LEMMA PickedBulk ==
    ASSUME PickBulk
    PROVE  probe'.kind = "bulk" /\ BulkInput(probe')
<1>1. PICK k \in 1..3, shift \in 0..4 : \E nulls \in SUBSET ((2..k) \X (1..2)) :
          probe' = [kind |-> "bulk",
                    rows |-> [r \in 1..k |-> [i \in 1..2 |-> IF <<r, i>> \in nulls THEN Null
                                                             ELSE ParamsOf(2, shift)[i]]]]
    BY DEF PickBulk
<1>2. PICK nulls \in SUBSET ((2..k) \X (1..2)) :
          probe' = [kind |-> "bulk",
                    rows |-> [r \in 1..k |-> [i \in 1..2 |-> IF <<r, i>> \in nulls THEN Null
                                                             ELSE ParamsOf(2, shift)[i]]]]
    BY <1>1
<1>3. PICK p : p = ParamsOf(2, shift)
    OBVIOUS
<1>4. \A i \in 1..2 : p[i] \in Given
    <2>1. 2 \in Nat /\ shift \in Nat
        OBVIOUS
    <2> QED BY ONLY <1>3, <2>1, ParamsOfAre
<1>5. PICK rows : rows = [r \in 1..k |-> [i \in 1..2 |-> IF <<r, i>> \in nulls THEN Null ELSE p[i]]]
    OBVIOUS
<1>6. probe'.kind = "bulk" /\ probe'.rows = rows
    BY ONLY <1>2, <1>3, <1>5
<1>7. ASSUME NEW r \in 1..k
      PROVE  /\ rows[r] \in Seq(Parameters) /\ Len(rows[r]) = 2
             /\ \A i \in 1..2 : rows[r][i] = IF <<r, i>> \in nulls THEN Null ELSE p[i]
    <2>1. PICK row : row = rows[r] /\ row = [i \in 1..2 |-> IF <<r, i>> \in nulls THEN Null ELSE p[i]]
        BY ONLY <1>5, r \in 1..k
    <2>2. \A i \in 1..2 : row[i] \in Parameters
        BY ONLY <1>4, <2>1 DEF Parameters
    <2>3. row = [i \in 1..2 |-> row[i]]
        BY ONLY <2>1
    <2>4. row \in Seq(Parameters) /\ Len(row) = 2
        BY ONLY <2>2, <2>3
    <2> QED BY ONLY <2>1, <2>4
<1>8. ASSUME NEW i \in 1..2 PROVE rows[1][i] = p[i]
    <2>1. <<1, i>> \notin nulls
        BY ONLY nulls \in SUBSET ((2..k) \X (1..2))
    <2>2. 1 \in 1..k
        OBVIOUS
    <2> QED BY ONLY <1>7, <2>1, <2>2, i \in 1..2
<1>9. rows \in Seq(Seq(Parameters)) /\ Len(rows) = k
    <2>1. k \in Nat /\ rows = [r \in 1..k |-> rows[r]] /\ \A r \in 1..k : rows[r] \in Seq(Parameters)
        BY ONLY <1>5, <1>7, k \in 1..3
    <2> QED BY ONLY <2>1
<1>10. BulkRows(rows, k, 2)
    <2>1. k \in Nat /\ k >= 1
        OBVIOUS
    <2> QED BY ONLY <1>7, <1>8, <1>9, <2>1 DEF BulkRows
<1> QED BY ONLY <1>6, <1>10 DEF BulkInput

LEMMA InputsStep ==
    ASSUME Inputs, [Next]_probe
    PROVE  Inputs'
<1>1. CASE Type
    <2>1. PICK q \in Seq(TextSymbols) : probe = [kind |-> "text", q |-> q]
        BY <1>1 DEF Type, Inputs, TextInput
    <2>2. PICK c \in TextSymbols : probe' = [kind |-> "text", q |-> Append(q, c)]
        <3>1. PICK c \in Symbols : probe' = [probe EXCEPT !.q = Append(@, c)]
            BY <1>1 DEF Type
        <3>2. c \in TextSymbols
            BY ONLY <3>1, TextSymbolsAre
        <3> QED BY ONLY <2>1, <3>1, <3>2
    <2>3. Append(q, c) \in Seq(TextSymbols)
        BY ONLY q \in Seq(TextSymbols), c \in TextSymbols
    <2>4. PICK x \in Seq(TextSymbols) : probe' = [kind |-> "text", q |-> x]
        BY ONLY <2>2, <2>3
    <2>5. TextInput(probe')
        BY ONLY <2>4, x \in Seq(TextSymbols) DEF TextInput
    <2>6. probe'.kind = "text"
        BY ONLY <2>4
    <2> QED BY ONLY <2>5, <2>6 DEF Inputs
<1>2. CASE Bind
    <2>1. PICK q \in Seq(TextSymbols) : probe = [kind |-> "text", q |-> q]
        BY <1>2 DEF Bind, Inputs, TextInput
    <2>2. PICK n :
              /\ n \in 1..2
              /\ \/ \E args \in [1..n -> Args] : probe' = [kind |-> "bound", q |-> probe.q, args |-> args]
                 \/ \E k \in {n - 1, n + 1} : \E arg \in Args :
                       probe' = [kind |-> "bound", q |-> probe.q, args |-> [i \in 1..k |-> arg]]
        BY ONLY <1>2, Zenon DEF Bind
    <2>3. PICK k \in Nat : \E args \in [1..k -> Args] : probe' = [kind |-> "bound", q |-> q, args |-> args]
        <3>1. CASE \E args \in [1..n -> Args] : probe' = [kind |-> "bound", q |-> probe.q, args |-> args]
            <4>1. n \in Nat /\ probe.q = q
                BY ONLY <2>1, <2>2
            <4> QED BY ONLY <3>1, <4>1
        <3>2. CASE \E k \in {n - 1, n + 1} : \E arg \in Args :
                       probe' = [kind |-> "bound", q |-> probe.q, args |-> [i \in 1..k |-> arg]]
            <4>1. PICK k \in {n - 1, n + 1}, arg \in Args :
                       probe' = [kind |-> "bound", q |-> probe.q, args |-> [i \in 1..k |-> arg]]
                BY ONLY <3>2
            <4>2. k \in Nat /\ probe.q = q
                BY ONLY <2>1, <2>2, k \in {n - 1, n + 1}
            <4>3. [i \in 1..k |-> arg] \in [1..k -> Args]
                BY ONLY arg \in Args
            <4> QED BY ONLY <4>1, <4>2, <4>3
        <3> QED BY ONLY <2>2, <3>1, <3>2
    <2>4. PICK args \in [1..k -> Args] : probe' = [kind |-> "bound", q |-> q, args |-> args]
        BY ONLY <2>3
    <2>5. Len(args) = k
        BY ONLY k \in Nat, args \in [1..k -> Args]
    <2>6. Arguments(args, TextSymbols)
        BY ONLY <2>5, args \in [1..k -> Args], ArgsAre DEF Arguments
    <2>7. probe'.kind = "bound" /\ probe'.q = q /\ probe'.args = args
        BY ONLY <2>4
    <2>8. BoundInput(probe')
        BY ONLY <2>6, <2>7, q \in Seq(TextSymbols) DEF BoundInput
    <2> QED BY ONLY <2>7, <2>8 DEF Inputs
<1>3. CASE PickInsert
    <2>1. PICK table \in Names, column \in FirstColumns, n \in 1..2, rows \in 1..2 :
              probe' = [kind |-> "insert", table |-> table, rows |-> rows,
                        columns |-> [i \in 1..n |-> IF i = 1 THEN column ELSE <<"Y">>]]
        BY ONLY <1>3, Zenon DEF PickInsert, FirstColumns
    <2>2. PICK columns : columns = [i \in 1..n |-> IF i = 1 THEN column ELSE <<"Y">>]
        OBVIOUS
    <2>3. column \in Seq(TextSymbols) /\ table \in Seq(TextSymbols) /\ <<"Y">> \in Seq(TextSymbols)
        BY ONLY table \in Names, column \in FirstColumns, NamesAre
    <2>4. columns \in Seq(Seq(TextSymbols))
        <3>1. PICK y : y = <<"Y">> /\ y \in Seq(TextSymbols)
            BY ONLY <2>3
        <3>2. columns = [i \in 1..n |-> IF i = 1 THEN column ELSE y]
            BY ONLY <2>2, <3>1
        <3>3. \A i \in 1..n : columns[i] \in Seq(TextSymbols)
            BY ONLY <2>3, <3>1, <3>2
        <3>4. columns = [i \in 1..n |-> columns[i]]
            BY ONLY <3>2
        <3>5. n \in Nat
            BY ONLY n \in 1..2
        <3> QED BY ONLY <3>3, <3>4, <3>5
    <2>5. probe'.kind = "insert" /\ probe'.table = table /\ probe'.rows = rows /\ probe'.columns = columns
        BY ONLY <2>1, <2>2
    <2>6. rows \in Nat
        BY ONLY rows \in 1..2
    <2>7. InsertInput(probe')
        BY ONLY <2>3, <2>4, <2>5, <2>6 DEF InsertInput
    <2> QED BY ONLY <2>5, <2>7 DEF Inputs
<1>4. CASE PickZone
    <2>1. probe'.kind = "zone"
        BY <1>4 DEF PickZone
    <2> QED BY <2>1 DEF Inputs
<1>5. CASE PickOffset
    <2>1. probe'.kind = "offset"
        BY <1>5 DEF PickOffset
    <2> QED BY <2>1 DEF Inputs
<1>6. CASE PickInt
    <2>1. PICK n \in Lengths, rest \in Rests : probe' = [kind |-> "int", n |-> n, rest |-> rest]
        BY <1>6, Zenon DEF PickInt
    <2>2. n \in Nat /\ n < Limit(8)
        BY SMT DEF Lengths, Limit
    <2>3. rest \in Seq(Byte)
        <3>1. 0 \in Byte /\ 1 \in Byte /\ 251 \in Byte /\ 254 \in Byte
            BY DEF Byte
        <3>2. <<>> \in Seq(Byte) /\ <<0>> \in Seq(Byte) /\ <<251>> \in Seq(Byte) /\ <<254, 1>> \in Seq(Byte)
            BY ONLY <3>1
        <3> QED BY ONLY <3>2, rest \in Rests, Zenon DEF Rests
    <2>4. probe'.kind = "int" /\ probe'.n = n /\ probe'.rest = rest
        BY ONLY <2>1
    <2> QED BY ONLY <2>2, <2>3, <2>4 DEF Inputs, IntInput
<1>7. CASE PickRow
    <2>1. PICK n \in {1, 5, 6, 7, 8, 13, 14, 15}, shift \in 0..5 : \E nulls \in FewOf(n) :
              LET types == TypesOf(n, shift) IN
              probe' = [kind |-> "row", types |-> types,
                        vals |-> [i \in 1..n |-> IF i \in nulls THEN Null ELSE Sample[types[i]]]]
        BY <1>7 DEF PickRow
    <2>2. PICK types, nulls : /\ types = TypesOf(n, shift)
                              /\ probe' = [kind |-> "row", types |-> types,
                                           vals |-> [i \in 1..n |-> IF i \in nulls THEN Null ELSE Sample[types[i]]]]
        BY <2>1
    <2>3. PICK vals : vals = [i \in 1..n |-> IF i \in nulls THEN Null ELSE Sample[types[i]]]
        OBVIOUS
    <2>4. probe'.kind = "row" /\ probe'.types = types /\ probe'.vals = vals
        BY ONLY <2>2, <2>3
    <2>5. n \in Nat /\ shift \in Nat
        OBVIOUS
    <2>6. types \in Seq(RowTypes) /\ Len(types) = n /\ \A i \in 1..n : types[i] \in RowTypes
        BY ONLY <2>2, <2>5, TypesOfAre
    <2>7. \A i \in 1..n : vals[i] = Null \/ vals[i] \in BinaryValues(types[i])
        BY ONLY <2>3, <2>6, SampleIs
    <2>8. \A i \in 1..n : vals[i] \in RowValues
        BY ONLY <2>6, <2>7 DEF RowValues
    <2>9. vals \in Seq(RowValues) /\ Len(vals) = n
        <3>1. vals = [i \in 1..n |-> vals[i]]
            BY ONLY <2>3
        <3>2. [i \in 1..n |-> vals[i]] \in Seq(RowValues) /\ Len([i \in 1..n |-> vals[i]]) = n
            BY ONLY <2>5, <2>8
        <3> QED BY ONLY <3>1, <3>2
    <2>10. BinaryRow(n, types, vals)
        BY ONLY <2>5, <2>6, <2>7, <2>9 DEF BinaryRow
    <2> QED BY ONLY <2>4, <2>10 DEF Inputs, RowInput
<1>8. CASE PickTextRow
    <2>0. PICK n \in 1..3 : \E vals \in [1..n -> {Null, String(<<>>), String(<<254>>), String([i \in 1..251 |-> 254])}] :
              probe' = [kind |-> "textrow", vals |-> vals]
        BY <1>8 DEF PickTextRow
    <2>1. PICK vals \in [1..n -> {Null, String(<<>>), String(<<254>>), String([i \in 1..251 |-> 254])}] :
              probe' = [kind |-> "textrow", vals |-> vals]
        BY <2>0
    <2>2. {Null, String(<<>>), String(<<254>>), String([i \in 1..251 |-> 254])} \subseteq TextValues
        <3>1. 254 \in Byte
            BY DEF Byte
        <3>2. <<>> \in Seq(Byte) /\ Len(<<>>) = 0 /\ <<254>> \in Seq(Byte) /\ Len(<<254>>) = 1
            BY <3>1
        <3>3. [i \in 1..251 |-> 254] \in Seq(Byte) /\ Len([i \in 1..251 |-> 254]) = 251
            BY <3>1
        <3>4. 0 < Limit(8) /\ 1 < Limit(8) /\ 251 < Limit(8)
            BY SMT DEF Limit
        <3>5. <<>> \in Texts /\ <<254>> \in Texts /\ [i \in 1..251 |-> 254] \in Texts
            BY <3>2, <3>3, <3>4 DEF Texts
        <3>6. Null \in TextValues /\ \A s \in Texts : String(s) \in TextValues
            BY ONLY TRUE DEF TextValues
        <3>7. PICK none \in Texts, one \in Texts, long \in Texts :
                 none = <<>> /\ one = <<254>> /\ long = [i \in 1..251 |-> 254]
            BY ONLY <3>5
        <3>8. {Null, String(none), String(one), String(long)} \subseteq TextValues
            BY ONLY <3>6, none \in Texts, one \in Texts, long \in Texts
        <3> QED BY ONLY <3>7, <3>8
    <2>3. vals \in [1..n -> TextValues]
        <3>1. PICK W : W = {Null, String(<<>>), String(<<254>>), String([i \in 1..251 |-> 254])}
            OBVIOUS
        <3>2. vals \in [1..n -> W] /\ W \subseteq TextValues
            BY <2>2, <3>1
        <3> QED BY ONLY <3>2
    <2>4. vals \in Seq(TextValues)
        <3>1. n \in Nat
            OBVIOUS
        <3>2. vals = [i \in 1..n |-> vals[i]] /\ \A i \in 1..n : vals[i] \in TextValues
            BY <2>3
        <3>3. [i \in 1..n |-> vals[i]] \in Seq(TextValues)
            BY ONLY <3>1, <3>2
        <3> QED BY ONLY <3>2, <3>3
    <2>5. vals[1] = Null \/ Len(vals[1].s) < Huge
        <3>1. PICK long : long = [i \in 1..251 |-> 254] /\ Len(long) = 251
            OBVIOUS
        <3>2. vals[1] \in {Null, String(<<>>), String(<<254>>), String(long)}
            <4>1. 1 \in 1..n
                BY ONLY n \in 1..3
            <4>2. vals[1] \in {Null, String(<<>>), String(<<254>>), String([i \in 1..251 |-> 254])}
                BY ONLY <4>1, vals \in [1..n -> {Null, String(<<>>), String(<<254>>), String([i \in 1..251 |-> 254])}], Zenon
            <4> QED BY ONLY <3>1, <4>2
        <3>3. 0 < Huge /\ 1 < Huge /\ 251 < Huge
            BY SMT DEF Huge
        <3>4. Len(String(<<>>).s) < Huge /\ Len(String(<<254>>).s) < Huge /\ Len(String(long).s) < Huge
            <4>1. Len(<<>>) = 0 /\ Len(<<254>>) = 1
                OBVIOUS
            <4>2. String(<<>>).s = <<>> /\ String(<<254>>).s = <<254>> /\ String(long).s = long
                BY ONLY TRUE DEF String
            <4>3. Len(<<>>) < Huge /\ Len(<<254>>) < Huge /\ Len(long) < Huge
                BY ONLY <3>1, <3>3, <4>1
            <4> QED BY ONLY <4>2, <4>3
        <3> QED BY ONLY <3>2, <3>4
    <2>6. probe'.kind = "textrow" /\ probe'.vals = vals
        BY ONLY <2>1
    <2> QED BY ONLY <2>4, <2>5, <2>6 DEF Inputs, TextRowInput
<1>9. CASE PickTerminator
    <2>1. PICK ok, track, more, changed \in BOOLEAN, affected \in AffectedRows, info \in Infos :
              /\ ~track => ~changed
              /\ probe' = [kind |-> "terminator", ok |-> ok, track |-> track, more |-> more, changed |-> changed,
                           affected |-> affected, info |-> info]
        BY <1>9, Zenon DEF PickTerminator
    <2>2. affected \in Nat /\ affected < Limit(8)
        BY SMT DEF AffectedRows, Limit
    <2>3. info \in Texts
        <3>1. 1 \in Byte /\ 254 \in Byte /\ 9 \in Byte
            BY DEF Byte
        <3>2. /\ <<>> \in Seq(Byte) /\ <<1>> \in Seq(Byte) /\ <<254, 9, 9>> \in Seq(Byte)
              /\ Len(<<>>) = 0 /\ Len(<<1>>) = 1 /\ Len(<<254, 9, 9>>) = 3
            BY ONLY <3>1
        <3>3. 0 < Limit(8) /\ 1 < Limit(8) /\ 3 < Limit(8)
            BY SMT DEF Limit
        <3>4. <<>> \in Texts /\ <<1>> \in Texts /\ <<254, 9, 9>> \in Texts
            BY ONLY <3>2, <3>3 DEF Texts
        <3> QED BY ONLY <3>4, info \in Infos DEF Infos
    <2>4. /\ probe'.kind = "terminator" /\ probe'.ok = ok /\ probe'.track = track /\ probe'.more = more
          /\ probe'.changed = changed /\ probe'.affected = affected /\ probe'.info = info
        BY ONLY <2>1
    <2>5. TermInput(probe')
        BY ONLY <2>1, <2>2, <2>3, <2>4, ok \in BOOLEAN, track \in BOOLEAN, more \in BOOLEAN, changed \in BOOLEAN, Zenon DEF TermInput
    <2> QED BY ONLY <2>4, <2>5 DEF Inputs
<1>10. CASE PickTime
    BY <1>10, PickedTime DEF Inputs
<1>11. CASE PickExecute
    BY <1>11, PickedExecute DEF Inputs
<1>12. CASE PickBulk
    BY <1>12, PickedBulk DEF Inputs
<1>13. CASE PickStamp
    <2>1. PICK y \in StampYears, m \in {0, 2, 4, 12, 13}, d \in {0, 1, 28, 29, 30, 31, 32},
               typ \in {"nano", "tz"}, off \in StampOffsets, name \in {0, 2} :
              /\ typ # "tz" => off = 0 /\ name = 0
              /\ probe' = [kind |-> "stamp", date |-> <<y, m, d>>, typ |-> typ, off |-> off, name |-> name]
        BY <1>13, Zenon DEF PickStamp
    <2>2. y \in Years /\ m \in Byte /\ d \in Byte /\ off \in Offsets /\ name \in Byte
        BY SMT DEF StampYears, StampOffsets, Years, Byte, Offsets
    <2>3. /\ probe'.kind = "stamp" /\ probe'.date = <<y, m, d>> /\ probe'.off = off /\ probe'.name = name
          /\ probe'.typ # "tz" => probe'.off = 0
        BY ONLY <2>1
    <2> QED BY ONLY <2>2, <2>3 DEF Inputs, StampInput
<1>14. CASE PickWall
    <2>1. PICK zone \in Zones, wall \in -3..11 : /\ zone.cuts[1] < zone.cuts[2]
                                                 /\ probe' = [kind |-> "wall", zone |-> zone, wall |-> wall]
        BY <1>14 DEF PickWall
    <2>2. PICK a \in 1..4, b \in 3..8 : zone.cuts = <<a, b>>
        BY DEF Zones
    <2>3. zone.offs \in [1..3 -> {-2, -1, 0, 2, 4, 5}]
        BY DEF Zones
    <2>4. \A i \in 1..3 : zone.offs[i] \in -2..5
        BY <2>3
    <2>5. ZoneOK(zone, 2)
        <3>1. DOMAIN zone.cuts = 1..2 /\ zone.cuts[1] = a /\ zone.cuts[2] = b
            BY <2>2
        <3>2. \A i \in 1..2 : i = 1 \/ i = 2
            OBVIOUS
        <3>3. DOMAIN zone.offs = 1..(2 + 1) /\ \A i \in 1..(2 + 1) : zone.offs[i] \in Int
            BY <2>3, <2>4
        <3> QED BY <2>1, <3>1, <3>2, <3>3 DEF ZoneOK
    <2> QED BY <2>1, <2>4, <2>5 DEF Inputs, WallInput
<1>15. CASE PickDsn
    <2>0. PICK form \in {"url", "opaque", "legacy"}, scheme \in Schemes,
               user \in {<<"u">>, <<"u", "@", "t">>}, database \in {<<>>, <<"d">>, <<"d", "/", "+">>},
               password \in {<<>>, <<"p">>, <<"p", "@", ":">>, <<":", "/", "/">>, <<" ", "%", "+">>},
               host \in Hosts, options \in Options, env \in {"", "5s", "0s", "x"} :
              /\ form = "legacy" => scheme = "oceanbase" /\ Len(database) < 2
              /\ probe' = [kind |-> "dsn", form |-> form, scheme |-> scheme, user |-> user, password |-> password,
                        database |-> database, host |-> host, options |-> options, env |-> env]
        BY <1>15, Zenon DEF PickDsn
    <2>1. probe'.kind = "dsn"
        BY ONLY <2>0
    <2> QED BY <2>1 DEF Inputs
<1>16. CASE UNCHANGED probe
    BY <1>16 DEF Inputs
<1> QED BY <1>1, <1>2, <1>3, <1>4, <1>5, <1>6, <1>7, <1>8, <1>9, <1>10, <1>11, <1>12, <1>13, <1>14, <1>15, <1>16 DEF Next

LEMMA InputsAlways == Spec => []Inputs
<1>1. Init => Inputs
    <2> SUFFICES ASSUME Init PROVE Inputs
        OBVIOUS
    <2>1. probe = [kind |-> "text", q |-> <<>>]
        BY DEF Init, Start
    <2>2. PICK q \in Seq(TextSymbols) : q = <<>>
        <3>1. <<>> \in Seq(TextSymbols)
            BY ONLY TRUE
        <3> QED BY ONLY <3>1
    <2>3. TextInput(probe) /\ probe.kind = "text"
        BY ONLY <2>1, <2>2, q \in Seq(TextSymbols) DEF TextInput
    <2> QED BY ONLY <2>3 DEF Inputs
<1> QED BY <1>1, InputsStep, PTL DEF Spec

\* The first k elements of a sequence with one more at the end.
LEMMA PartOf ==
    ASSUME NEW S, NEW b \in Seq(S), NEW x \in S, NEW k \in 0..(Len(b) + 1)
    PROVE  /\ SubSeq(Append(b, x), 1, k) \in Seq(S) /\ Agrees(SubSeq(Append(b, x), 1, k), b)
           /\ SubSeq(Append(b, x), 1, k) = b <=> k = Len(b)
<1>1. PICK m \in Nat : m = Len(b) /\ k \in 0..(m + 1)
    OBVIOUS
<1>2. PICK u : u = SubSeq(Append(b, x), 1, k)
    OBVIOUS
<1>3. u \in Seq(S) /\ Len(u) = k /\ \A j \in 1..k : j <= m => u[j] = b[j]
    BY <1>1, <1>2
<1>4. Agrees(u, b)
    BY ONLY <1>1, <1>3 DEF Agrees
<1>5. u = b <=> k = m
    BY ONLY <1>1, <1>3, b \in Seq(S)
<1> QED BY ONLY <1>1, <1>2, <1>3, <1>4, <1>5

\* Whatever a result set has in its rows is what the application gets: lengths, text rows and binary
\* rows read back, and lengths and binary rows that are cut short or too long are refused.
THEOREM AllRowsReadBack == Spec => []RowsReadBack
<1>1. Inputs => RowsReadBack
    <2> SUFFICES ASSUME Inputs PROVE RowsReadBack
        OBVIOUS
    <2>1. ASSUME probe.kind = "int"
          PROVE  LET b == PutLengthEncodedInt(probe.n) IN
                 /\ \A k \in 0..Len(b) :
                       ReadLengthEncodedInt(IF k = Len(b) THEN b \o probe.rest ELSE SubSeq(b, 1, k))
                       = IF k = Len(b) THEN Number(probe.n, Len(b)) ELSE Fail
                 /\ b[1] \notin {251, 255}
        <3>1. PICK n \in Nat, rest \in Seq(Byte) : n = probe.n /\ rest = probe.rest /\ n < Limit(8)
            BY <2>1 DEF Inputs, IntInput
        <3>2. PICK b : b = PutLengthEncodedInt(n)
            OBVIOUS
        <3>3. b \in Seq(Byte) /\ b[1] \notin {251, 255} /\ Len(b) \in Nat
            <4>1. Shaped(n, b)
                BY ONLY <3>1, <3>2, n \in Nat, LenencShape
            <4> QED BY ONLY <4>1 DEF Shaped, Opens
        <3>4. ReadLengthEncodedInt(b \o rest) = Number(n, Len(b))
            BY <3>1, <3>2, LenencReadsBack
        <3>5. ASSUME NEW k \in 0..Len(b), k # Len(b) PROVE ReadLengthEncodedInt(SubSeq(b, 1, k)) = Fail
            <4>1. k \in 0..(Len(b) - 1)
                BY ONLY <3>3, <3>5
            <4> QED BY <3>1, <3>2, <4>1, LenencCutShort
        <3>6. \A k \in 0..Len(b) :
                 ReadLengthEncodedInt(IF k = Len(b) THEN b \o rest ELSE SubSeq(b, 1, k))
                 = IF k = Len(b) THEN Number(n, Len(b)) ELSE Fail
            BY ONLY <3>4, <3>5
        <3> QED BY ONLY <3>1, <3>2, <3>3, <3>6
    <2>2. ASSUME probe.kind = "textrow"
          PROVE  ParseTextRow(ServerTextRow(probe.vals), Len(probe.vals)) = [ok |-> TRUE, vals |-> probe.vals]
        BY <2>2, TextRowReadsBack DEF Inputs, TextRowInput
    <2>3. ASSUME probe.kind = "row"
          PROVE  LET b == ServerRow(probe.vals, probe.types) IN
                 \A k \in 0..Len(b) + 1 :
                     ParseBinaryRow(SubSeq(Append(b, 0), 1, k), probe.types)
                     = IF k = Len(b) THEN [ok |-> TRUE, vals |-> probe.vals] ELSE Fail
        <3>1. PICK types, vals : types = probe.types /\ vals = probe.vals
            OBVIOUS
        <3>2. PICK n : BinaryRow(n, types, vals)
            BY <2>3, <3>1 DEF Inputs, RowInput
        <3>3. PICK b : b = ServerRow(vals, types)
            OBVIOUS
        <3>4. b \in Seq(Byte)
            <4>1. <<>> \in Seq(Byte) /\ Agrees(<<>>, b)
                BY DEF Agrees
            <4> QED BY <3>2, <3>3, <4>1, BinaryRowReadsBack
        <3>5. ASSUME NEW k \in 0..(Len(b) + 1)
              PROVE  ParseBinaryRow(SubSeq(Append(b, 0), 1, k), types) = IF k = Len(b) THEN [ok |-> TRUE, vals |-> vals] ELSE Fail
            <4>1. 0 \in Byte
                BY DEF Byte
            <4>2. PICK packet : packet = SubSeq(Append(b, 0), 1, k)
                OBVIOUS
            <4>3. packet \in Seq(Byte) /\ Agrees(packet, b) /\ (packet = b <=> k = Len(b))
                BY <3>4, <4>1, <4>2, PartOf
            <4>4. RowDecoded(packet, types, b, vals)
                BY <3>2, <3>3, <4>3, BinaryRowReadsBack
            <4> QED BY ONLY <4>2, <4>3, <4>4 DEF RowDecoded
        <3> QED BY ONLY <3>1, <3>3, <3>5
    <2> QED BY ONLY <2>1, <2>2, <2>3 DEF RowsReadBack
<1> QED BY <1>1, InputsAlways, PTL

\* The parameters of an execution and of a bulk execution arrive as they were given, however many
\* there are, and every time keeps its date and its clock (WriteExecute, stmtBulkExecLocked,
\* AppendBinaryTime).
THEOREM ParametersAlwaysArrive == Spec => []ParametersArrive
<1>1. Inputs => ParametersArrive
    <2> SUFFICES ASSUME Inputs PROVE ParametersArrive
        OBVIOUS
    <2>1. ASSUME probe.kind = "execute" PROVE ExecuteArrives(probe.args)
        BY <2>1, ExecutionArrives DEF Inputs, ExecuteInput
    <2>2. ASSUME probe.kind = "bulk" PROVE BulkArrives(probe.rows)
        BY <2>2, BulkExecutionArrives DEF Inputs, BulkInput
    <2>3. ASSUME probe.kind = "time"
          PROVE  ParseBinaryTime(AppendBinaryTime(probe.t)) =
                     [ok |-> TRUE, used |-> Len(AppendBinaryTime(probe.t)), v |-> AsRead(probe.t)]
        <3>1. TimeArrives(AppendBinaryTime(probe.t), AsRead(probe.t))
            BY <2>3, MomentArrives DEF Inputs, TimeInput
        <3>2. PICK b \in Seq(Byte) : b = AppendBinaryTime(probe.t)
            BY ONLY <3>1 DEF TimeArrives
        <3>3. <<>> \in Seq(Byte) /\ b \o <<>> = b
            BY ONLY b \in Seq(Byte)
        <3>4. ParseBinaryTime(b \o <<>>) = [ok |-> TRUE, v |-> AsRead(probe.t), used |-> Len(b)]
            BY ONLY <3>1, <3>2, <3>3 DEF TimeArrives
        <3> QED BY ONLY <3>2, <3>3, <3>4
    <2> QED BY ONLY <2>1, <2>2, <2>3 DEF ParametersArrive
<1> QED BY <1>1, InputsAlways, PTL

\* Every time stamp of the server, whatever its date and its offset, is decoded to what it is or
\* refused, and no cut or lengthened one is accepted (ParseOracleTime).
THEOREM StampsReadBack == Spec => []StampReadsBack
<1>1. Inputs => StampReadsBack
    <2> SUFFICES ASSUME Inputs, probe.kind = "stamp" PROVE StampReadsBack
        BY DEF StampReadsBack
    <2>1. PICK y \in Years, m \in Byte, d \in Byte, off \in Offsets, name \in Byte :
              /\ probe.date = <<y, m, d>> /\ probe.off = off /\ probe.name = name
              /\ probe.typ # "tz" => probe.off = 0
        BY DEF Inputs, StampInput
    <2>2. PICK typ : typ = probe.typ
        OBVIOUS
    <2>3. probe.date[1] = y /\ probe.date[2] = m /\ probe.date[3] = d
        BY <2>1
    <2>4. PICK b : b = ServerStamp(probe)
        OBVIOUS
    <2>5. b = Payload(y, m, d) \o (IF typ # "tz" THEN <<>> ELSE ZoneBytes(off, name))
        BY ONLY <2>1, <2>2, <2>3, <2>4, SMT DEF ServerStamp, Payload, ZoneBytes, MinuteOf
    <2>6. typ # "tz" => off = 0
        BY <2>1, <2>2
    <2>7. /\ ParseOracleTime(b, typ) =
                 IF DatePossible(y, m, d) /\ off \in Accepted THEN Stamp(y, m, d, off) ELSE Fail
          /\ ParseOracleTime(Front(b), typ) = Fail
          /\ ParseOracleTime(Append(b, 0), typ) = Fail
        <3>1. StampDecoded(b, y, m, d, off, typ)
            BY ONLY <2>5, <2>6, StampDecodes, y \in Years, m \in Byte, d \in Byte, off \in Offsets, name \in Byte
        <3> QED BY ONLY <3>1 DEF StampDecoded
    <2>8. Stamp(y, m, d, off) = [ok |-> TRUE, date |-> probe.date, clock |-> <<23, 0, 59>>,
                                 nsec |-> 999999999, offset |-> probe.off]
        BY ONLY <2>1, SMT DEF Stamp, Nanos
    <2> QED BY ONLY <2>1, <2>2, <2>3, <2>4, <2>7, <2>8, SMT DEF StampReadsBack, DatePossible, Accepted
<1> QED BY <1>1, InputsAlways, PTL

\* A local wall clock that a steady zone skips or repeats is refused, and every other one is
\* decoded to its instant (oracleTimeInLocation).
THEOREM LocalTimeIsUnambiguous == Spec => []LocalTimeUnambiguous
<1>1. Inputs => LocalTimeUnambiguous
    <2> SUFFICES ASSUME Inputs, probe.kind = "wall", Steady(probe.zone) PROVE LocalTimeUnambiguous
        BY DEF LocalTimeUnambiguous
    <2>1. PICK zone, wall : zone = probe.zone /\ wall = probe.wall
        OBVIOUS
    <2>2. ZoneOK(zone, 2) /\ wall \in -3..11 /\ Steady(zone) /\ \A i \in 1..3 : zone.offs[i] \in -2..5
        BY <2>1 DEF Inputs, WallInput
    <2> DEFINE instants == {t \in -8..20 : Wall(zone, t) = wall}
    <2>3. instants = Instants(zone, wall)
        <3>1. ASSUME NEW t \in Instants(zone, wall) PROVE t \in -8..20
            <4>1. t \in Int
                BY DEF Instants
            <4>2. PICK k \in 1..3 : t = wall - zone.offs[k]
                <5>1. Interval(zone, t) \in 1..(2 + 1) /\ t = wall - zone.offs[Interval(zone, t)]
                    BY <2>2, <4>1, InstantIs
                <5> QED BY <5>1
            <4> QED BY <2>2, <4>1, <4>2
        <3> QED BY <3>1 DEF Instants
    <2>4. IsFiniteSet(instants)
        <3>1. IsFiniteSet(-8..20)
            <4>1. -8 \in Int /\ 20 \in Int
                OBVIOUS
            <4> QED BY ONLY <4>1, FS_Interval
        <3> QED BY <3>1, FS_Subset
    <2> HIDE DEF instants
    <2>5. OracleTimeInLocation(zone, wall) =
             IF Cardinality(instants) = 1 THEN [ok |-> TRUE, t |-> CHOOSE t \in instants : TRUE] ELSE Fail
        <3>0. wall \in Int
            BY <2>2
        <3>1. CASE \E t : instants = {t}
            <4>1. PICK t : instants = {t}
                BY <3>1
            <4>2. Cardinality(instants) = 1 /\ (CHOOSE x \in instants : TRUE) = t
                BY <4>1, FS_Singleton
            <4>3. OracleTimeInLocation(zone, wall) = [ok |-> TRUE, t |-> t]
                BY <2>2, <2>3, <3>0, <4>1, LocalTimes
            <4> QED BY <4>2, <4>3
        <3>2. CASE \A t : instants # {t}
            <4>1. Cardinality(instants) # 1
                BY <2>4, <3>2, FS_Singleton
            <4>2. OracleTimeInLocation(zone, wall) = Fail
                BY <2>2, <2>3, <3>0, <3>2, LocalTimes
            <4> QED BY <4>1, <4>2
        <3> QED BY <3>1, <3>2
    <2> QED BY <2>1, <2>5 DEF LocalTimeUnambiguous, instants
<1> QED BY <1>1, InputsAlways, PTL

\* Rows and the end of the rows are told apart: every terminator of the server is recognised with its
\* MORE_RESULTS flag, and no row whose first value is below 16 MB is taken for one, in either mode.
THEOREM TerminatorsAreToldApart == Spec => []TerminatorsToldApart
<1>1. Inputs => TerminatorsToldApart
    <2> SUFFICES ASSUME Inputs PROVE TerminatorsToldApart
        OBVIOUS
    <2>1. ASSUME probe.kind = "terminator"
          PROVE  /\ IsResultSetTerminatorForMode(ServerTerminator(probe), probe.ok, probe.track)
                 /\ ResultSetTerminatorHasMoreResults(ServerTerminator(probe), probe.track) = probe.more
        <3>1. TermInput(probe)
            BY <2>1 DEF Inputs
        <3>2. PICK p : p = probe
            OBVIOUS
        <3>3. /\ IsResultSetTerminatorForMode(ServerTerminator(p), p.ok, p.track)
              /\ ResultSetTerminatorHasMoreResults(ServerTerminator(p), p.track) <=> p.more
            BY ONLY <3>1, <3>2, TerminatorRecognised
        <3>4. p.more \in BOOLEAN
            BY <3>1, <3>2 DEF TermInput
        <3>5. ResultSetTerminatorHasMoreResults(ServerTerminator(p), p.track) \in BOOLEAN
            BY ONLY TRUE, Zenon DEF ResultSetTerminatorHasMoreResults
        <3> QED BY ONLY <3>2, <3>3, <3>4, <3>5, Zenon
    <2>2. ASSUME probe.kind = "row", NEW ok \in BOOLEAN, NEW track \in BOOLEAN
          PROVE  ~IsResultSetTerminatorForMode(ServerRow(probe.vals, probe.types), ok, track)
        <3>1. PICK types, vals : types = probe.types /\ vals = probe.vals
            OBVIOUS
        <3>2. PICK n : BinaryRow(n, types, vals)
            BY <2>2, <3>1 DEF Inputs, RowInput
        <3>3. ~IsResultSetTerminatorForMode(ServerRow(vals, types), ok, track)
            BY ONLY <3>2, BinaryRowNotTerminator
        <3> QED BY ONLY <3>1, <3>3
    <2>3. ASSUME probe.kind = "textrow", NEW ok \in BOOLEAN, NEW track \in BOOLEAN
          PROVE  ~IsResultSetTerminatorForMode(ServerTextRow(probe.vals), ok, track)
        <3>1. PICK vals \in Seq(TextValues) :
                  vals = probe.vals /\ (vals = <<>> \/ vals[1] = Null \/ Len(vals[1].s) < Huge)
            BY <2>3 DEF Inputs, TextRowInput
        <3>2. ~IsResultSetTerminatorForMode(ServerTextRow(vals), ok, track)
            BY ONLY <3>1, vals \in Seq(TextValues), TextRowNotTerminator
        <3> QED BY ONLY <3>1, <3>2
    <2> QED BY ONLY <2>1, <2>2, <2>3 DEF TerminatorsToldApart
<1> QED BY <1>1, InputsAlways, PTL

\* Interpolated arguments stay whole: the text around them is scanned as before, none of them adds a
\* placeholder, a string reads back, and nothing is interpolated unless each placeholder has its argument.
THEOREM ArgumentsAlwaysWhole == Spec => []ArgumentsStayWhole
<1>1. Inputs => ArgumentsStayWhole
    <2> SUFFICES ASSUME Inputs, probe.kind = "bound" PROVE StaysWhole(probe.q, probe.args)
        BY DEF ArgumentsStayWhole
    <2>1. probe.q \in Seq(TextSymbols) /\ Arguments(probe.args, TextSymbols)
        BY DEF Inputs, BoundInput
    <2>2. Alphabet(TextSymbols)
        BY ONLY TextSymbolsAre, Zenon
    <2> QED BY ONLY <2>1, <2>2, InterpolationStaysWhole
<1> QED BY <1>1, InputsAlways, PTL

\* Whatever table and columns are called, BulkInsert's statement has one placeholder for each value
\* and the name of the table reads back.
THEOREM NamesAlwaysNames == Spec => []NamesStayNames
<1>1. Inputs => NamesStayNames
    <2> SUFFICES ASSUME Inputs, probe.kind = "insert" PROVE StayNames(probe.table, probe.columns, probe.rows)
        BY DEF NamesStayNames
    <2>1. probe.table \in Seq(TextSymbols) /\ probe.columns \in Seq(Seq(TextSymbols)) /\ probe.rows \in Nat
        BY DEF Inputs, InsertInput
    <2>2. Alphabet(TextSymbols)
        BY ONLY TextSymbolsAre, Zenon
    <2> QED BY ONLY <2>1, <2>2, InsertNamesStayNames
<1> QED BY <1>1, InputsAlways, PTL
=============================================================================
