----------------------------- MODULE TextProof -----------------------------
(***************************************************************************)
(* Proofs about statement texts of every length (module Text): arguments   *)
(* that are interpolated stay whole, names in an INSERT stay names.        *)
(*                                                                         *)
(* Goes says what the scanner of placeholders does with a piece of text    *)
(* wherever that stands; the pieces of a text are put together one by one. *)
(* Induction is over sets of numbers (NatSets, from the well-foundedness   *)
(* of <).  For each recursive definition a lemma states its chain, the     *)
(* values at every number of steps.                                        *)
(***************************************************************************)
EXTENDS MCData, TLAPS, FiniteSetTheorems, WellFoundedInduction

\* Induction: a set of numbers with 0 and all successors of its elements has all numbers.
LEMMA NatSets ==
    ASSUME NEW T, T \subseteq Nat, 0 \in T, \A n \in T : n + 1 \in T
    PROVE  Nat \subseteq T
<1> DEFINE U == Nat \ T
<1> SUFFICES ASSUME U # {} PROVE FALSE
    OBVIOUS
<1>1. PICK x \in U : \A y \in U : ~(<<y, x>> \in OpToRel(<, Nat))
    BY NatLessThanWellFounded, WFMin
<1>2. \A y \in U : ~(y < x)
    BY <1>1 DEF OpToRel
<1>3. x # 0 /\ x - 1 \in Nat /\ x - 1 \notin U
    BY <1>2
<1> QED BY <1>3

(***************************************************************************)
(* Concatenation of pieces.                                                *)
(***************************************************************************)
Flattens(f, p, n) == f = [i \in 1..n |-> IF i = 1 THEN p[i] ELSE f[i - 1] \o p[i]]

LEMMA FlattensExists ==
    ASSUME NEW p, NEW n \in Nat
    PROVE  \E f : Flattens(f, p, n)
<1> DEFINE T == {j \in Nat : \E f : Flattens(f, p, j)}
<1>1. 0 \in T
    <2>1. Flattens(<<>>, p, 0)
        BY DEF Flattens
    <2> QED BY <2>1
<1>2. ASSUME NEW j \in T PROVE j + 1 \in T
    <2>1. PICK f : Flattens(f, p, j)
        OBVIOUS
    <2> DEFINE r == [i \in 1..(j + 1) |-> IF i = 1 THEN p[1] ELSE IF i = j + 1 THEN f[j] \o p[i] ELSE f[i]]
    <2>2. ASSUME NEW i \in 1..(j + 1) PROVE r[i] = IF i = 1 THEN p[i] ELSE r[i - 1] \o p[i]
        <3>1. CASE i = 1
            BY <3>1
        <3>2. CASE i # 1 /\ i = j + 1
            <4>1. i - 1 = j /\ j \in 1..(j + 1) /\ j \in 1..j /\ j # j + 1
                BY <3>2
            <4>2. f[j] = r[j]
                BY <4>1, <2>1 DEF Flattens
            <4> QED BY <3>2, <4>1, <4>2
        <3>3. CASE i # 1 /\ i # j + 1
            <4>1. i - 1 \in 1..(j + 1) /\ i \in 1..j /\ i - 1 \in 1..j /\ i - 1 # j + 1
                BY <3>3
            <4>2. f[i] = f[i - 1] \o p[i] /\ (i - 1 = 1 => f[i - 1] = p[1])
                BY <4>1, <3>3, <2>1 DEF Flattens
            <4>3. r[i - 1] = f[i - 1] /\ r[i] = f[i]
                BY <3>3, <4>1, <4>2
            <4> QED BY <3>3, <4>2, <4>3
        <3> QED BY <3>1, <3>2, <3>3
    <2>3. Flattens(r, p, j + 1)
        <3>1. r = [i \in 1..(j + 1) |-> r[i]]
            BY Zenon
        <3> HIDE DEF r
        <3> QED BY <2>2, <3>1, Zenon DEF Flattens
    <2> HIDE DEF r
    <2> QED BY <2>3
<1>3. Nat \subseteq T
    <2> HIDE DEF T
    <2>1. T \subseteq Nat
        BY DEF T
    <2> QED BY <1>1, <1>2, <2>1, NatSets
<1> QED BY <1>3

\* q[i] is the concatenation of the first i pieces.
Joins(q, p, n, S) ==
    /\ q[0] = <<>>
    /\ \A i \in 1..n : p[i] \in Seq(S) /\ q[i] = q[i - 1] \o p[i]

LEMMA JoinsType ==
    ASSUME NEW S, NEW n \in Nat, NEW p, NEW q, Joins(q, p, n, S), NEW i \in 0..n
    PROVE  q[i] \in Seq(S)
<1> DEFINE T == {j \in Nat : j <= n => q[j] \in Seq(S)}
<1>1. 0 \in T
    <2>1. q[0] = <<>>
        BY DEF Joins
    <2>2. <<>> \in Seq(S)
        OBVIOUS
    <2> QED BY <2>1, <2>2
<1>2. ASSUME NEW j \in T PROVE j + 1 \in T
    <2>1. j + 1 <= n => j + 1 \in 1..n /\ (j + 1) - 1 = j /\ q[j] \in Seq(S)
        OBVIOUS
    <2>2. j + 1 <= n => q[j + 1] = q[j] \o p[j + 1] /\ p[j + 1] \in Seq(S)
        BY <2>1 DEF Joins
    <2>3. ASSUME j + 1 <= n PROVE q[j + 1] \in Seq(S)
        <3>1. PICK a \in Seq(S), b \in Seq(S) : q[j + 1] = a \o b
            BY <2>1, <2>2, <2>3
        <3>2. a \o b \in Seq(S)
            OBVIOUS
        <3> QED BY <3>1, <3>2
    <2> QED BY <2>3
<1>3. Nat \subseteq T
    <2> HIDE DEF T
    <2>1. T \subseteq Nat
        BY DEF T
    <2> QED BY <1>1, <1>2, <2>1, NatSets
<1> QED BY <1>3

Continues(b, a, S) == \E x \in Seq(S) : b = a \o x

LEMMA JoinsRest ==
    ASSUME NEW S, NEW n \in Nat, NEW p, NEW q, Joins(q, p, n, S), NEW i \in 0..n
    PROVE  Continues(q[n], q[i], S)
<1> DEFINE Ends(d) == \E x \in Seq(S) : q[i + d] = q[i] \o x
           T == {d \in Nat : i + d <= n => Ends(d)}
<1>0. q[i] \in Seq(S)
    BY JoinsType
<1>1. Ends(0)
    <2>1. i + 0 = i /\ <<>> \in Seq(S)
        OBVIOUS
    <2>2. q[i] = q[i] \o <<>>
        BY <1>0
    <2> QED BY <2>1, <2>2
<1>2. ASSUME NEW d \in Nat, Ends(d), i + (d + 1) <= n PROVE Ends(d + 1)
    <2>1. PICK m \in 1..n : m = i + (d + 1) /\ m - 1 = i + d
        BY <1>2
    <2>2. PICK x \in Seq(S) : q[m - 1] = q[i] \o x
        BY <2>1, <1>2
    <2>3. q[m] = q[m - 1] \o p[m] /\ p[m] \in Seq(S)
        BY DEF Joins
    <2>4. PICK a \in Seq(S), b \in Seq(S) : a = q[i] /\ b = p[m]
        BY <1>0, <2>3
    <2>5. (a \o x) \o b = a \o (x \o b) /\ x \o b \in Seq(S)
        BY ONLY a \in Seq(S), b \in Seq(S), x \in Seq(S)
    <2>6. q[m] = q[i] \o (x \o b)
        BY <2>2, <2>3, <2>4, <2>5
    <2> QED BY <2>1, <2>5, <2>6
<1> HIDE DEF Ends
<1>3. Nat \subseteq T
    <2>1. 0 \in T
        BY <1>1
    <2>2. ASSUME NEW d \in T PROVE d + 1 \in T
        <3>1. d \in Nat /\ (i + (d + 1) <= n => i + d <= n)
            OBVIOUS
        <3>2. i + (d + 1) <= n => Ends(d + 1)
            BY <3>1, <1>2
        <3> QED BY <3>1, <3>2
    <2> HIDE DEF T
    <2>3. T \subseteq Nat
        BY DEF T
    <2> QED BY <2>1, <2>2, <2>3, NatSets
<1>4. n - i \in Nat /\ i + (n - i) = n /\ i + (n - i) <= n
    OBVIOUS
<1>5. Ends(n - i)
    BY <1>3, <1>4
<1> QED BY <1>4, <1>5 DEF Ends, Continues

LEMMA FlattenChain ==
    ASSUME NEW S, NEW n \in Nat, NEW p, DOMAIN p = 1..n, Len(p) = n,
           \A i \in 1..n : p[i] \in Seq(S)
    PROVE  \E q : Joins(q, p, n, S) /\ FlattenSeq(p) = q[n]
<1> DEFINE f == CHOOSE f : Flattens(f, p, n)
           q == [i \in 0..n |-> IF i = 0 THEN <<>> ELSE f[i]]
<1>1. Flattens(f, p, n)
    BY FlattensExists, Zenon
<1>2. n # 0 => FlattenSeq(p) = f[n]
    BY DEF FlattenSeq, Flattens
<1> HIDE DEF f
<1>3. \A i \in 1..n : f[i] = IF i = 1 THEN p[i] ELSE f[i - 1] \o p[i]
    BY <1>1 DEF Flattens
<1>4. ASSUME NEW i \in 1..n PROVE q[i] = q[i - 1] \o p[i]
    <2>1. i \in 0..n /\ i - 1 \in 0..n /\ i # 0
        OBVIOUS
    <2>2. CASE i = 1
        <3>1. q[i] = p[i] /\ q[i - 1] = <<>>
            BY <2>1, <2>2, <1>3
        <3>2. p[i] = <<>> \o p[i]
            OBVIOUS
        <3> QED BY <3>1, <3>2
    <2>3. CASE i # 1
        <3>0. i - 1 # 0
            BY <2>3
        <3>1. q[i] = f[i] /\ q[i - 1] = f[i - 1] /\ f[i] = f[i - 1] \o p[i]
            BY <2>1, <2>3, <1>3, <3>0, Zenon
        <3> QED BY <3>1
    <2> QED BY <2>2, <2>3
<1>5. q[0] = <<>>
    OBVIOUS
<1>6. FlattenSeq(p) = q[n]
    <2>1. CASE n = 0
        <3>1. p = <<>>
            BY <2>1
        <3> QED BY <2>1, <3>1, <1>5 DEF FlattenSeq
    <2>2. CASE n # 0
        BY <2>2, <1>2
    <2> QED BY <2>1, <2>2
<1> HIDE DEF q
<1>7. Joins(q, p, n, S)
    BY <1>4, <1>5 DEF Joins
<1> QED BY <1>6, <1>7

(***************************************************************************)
(* The scanner of placeholders.                                            *)
(***************************************************************************)
\* The steps of the recursive functions on texts that go from left to right.
Onward(kind, c, acc, i) ==
    IF kind = "scan" THEN Advance(acc, c[i - 1], At(c, i))
    ELSE IF PlaceholderAt(c, Scan(c), i) THEN acc + 1 ELSE acc

Ascends(g, kind, c, base, a, n) ==
    g = [i \in a..n |-> IF i = a THEN base ELSE Onward(kind, c, g[i - 1], i)]

LEMMA AscendExists ==
    ASSUME NEW kind, NEW c, NEW base, NEW a \in Nat, NEW n \in Nat
    PROVE  \E g : Ascends(g, kind, c, base, a, a + n)
<1> DEFINE T == {j \in Nat : \E g : Ascends(g, kind, c, base, a, a + j)}
<1>1. 0 \in T
    <2> DEFINE g == [i \in a..(a + 0) |-> base]
    <2>1. \A i \in a..(a + 0) : i = a
        OBVIOUS
    <2>2. Ascends(g, kind, c, base, a, a + 0)
        BY <2>1 DEF Ascends
    <2> QED BY <2>2
<1>2. ASSUME NEW j \in T PROVE j + 1 \in T
    <2>1. PICK g : Ascends(g, kind, c, base, a, a + j)
        OBVIOUS
    <2>2. PICK m \in Nat : m = a + j /\ a <= m
        OBVIOUS
    <2> DEFINE r == [i \in a..(m + 1) |-> IF i = m + 1 THEN Onward(kind, c, g[m], m + 1) ELSE g[i]]
    <2>3. \A i \in a..m : g[i] = IF i = a THEN base ELSE Onward(kind, c, g[i - 1], i)
        BY ONLY <2>1, <2>2 DEF Ascends
    <2>4. ASSUME NEW i \in a..(m + 1) PROVE r[i] = IF i = a THEN base ELSE Onward(kind, c, r[i - 1], i)
        <3>1. CASE i = m + 1
            <4>1. i # a /\ i - 1 = m /\ m \in a..(m + 1) /\ m # m + 1
                BY ONLY <2>2, <3>1, a \in Nat, m \in Nat
            <4>2. r[m] = g[m]
                BY ONLY <4>1
            <4> QED BY ONLY <3>1, <4>1, <4>2, i \in a..(m + 1)
        <3>2. CASE i # m + 1
            <4>1. i \in a..m /\ (i # a => i - 1 \in a..(m + 1) /\ i - 1 # m + 1)
                BY ONLY <3>2, a \in Nat, m \in Nat, i \in a..(m + 1)
            <4>2. r[i] = g[i] /\ (i # a => r[i - 1] = g[i - 1])
                BY ONLY <3>2, <4>1, i \in a..(m + 1)
            <4> QED BY ONLY <2>3, <4>1, <4>2
        <3> QED BY ONLY <3>1, <3>2
    <2>5. r = [i \in a..(m + 1) |-> r[i]]
        OBVIOUS
    <2> HIDE DEF r
    <2>6. Ascends(r, kind, c, base, a, m + 1)
        BY ONLY <2>4, <2>5, Zenon DEF Ascends
    <2>7. m + 1 = a + (j + 1)
        BY ONLY <2>2, a \in Nat, j \in Nat
    <2> QED BY <2>6, <2>7
<1>3. Nat \subseteq T
    <2> HIDE DEF T
    <2>1. T \subseteq Nat
        BY DEF T
    <2> QED BY <1>1, <1>2, <2>1, NatSets
<1> QED BY <1>3

\* g and c are the states and the counts of a scan of t.
Scans(t, g, c) ==
    /\ g[1] = One("normal") /\ c[0] = 0
    /\ \A i \in 1..Len(t) : /\ g[i + 1] = Advance(g[i], t[i], At(t, i + 1))
                            /\ c[i] = IF PlaceholderAt(t, g, i) THEN c[i - 1] + 1 ELSE c[i - 1]

ScanRec(f, q, n) == f = [i \in 1..n + 1 |-> IF i = 1 THEN One("normal") ELSE Advance(f[i - 1], q[i - 1], At(q, i))]
CountRec(f, q, n) == f = [i \in 0..n |-> IF i = 0 THEN 0 ELSE IF PlaceholderAt(q, Scan(q), i) THEN f[i - 1] + 1 ELSE f[i - 1]]

LEMMA ScanChain ==
    ASSUME NEW S, NEW t \in Seq(S)
    PROVE  Scans(t, Scan(t), Counts(t))
<1>1. PICK n \in Nat : n = Len(t)
    OBVIOUS
<1>2. ScanRec(Scan(t), t, n)
    <2>1. \E f : ScanRec(f, t, n)
        <3>1. PICK g : Ascends(g, "scan", t, One("normal"), 1, 1 + n)
            BY AscendExists
        <3>2. 1 + n = n + 1
            OBVIOUS
        <3>3. ScanRec(g, t, n)
            BY ONLY <3>1, <3>2 DEF Ascends, ScanRec, Onward
        <3> QED BY ONLY <3>3
    <2>2. Scan(t) = CHOOSE f : ScanRec(f, t, Len(t))
        BY DEF Scan, ScanRec
    <2> QED BY ONLY <1>1, <2>1, <2>2
<1>3. CountRec(Counts(t), t, n)
    <2>1. \E f : CountRec(f, t, n)
        <3>1. PICK g : Ascends(g, "count", t, 0, 0, 0 + n)
            BY AscendExists
        <3>2. 0 + n = n
            OBVIOUS
        <3>3. CountRec(g, t, n)
            BY ONLY <3>1, <3>2 DEF Ascends, CountRec, Onward
        <3> QED BY ONLY <3>3
    <2>2. Counts(t) = CHOOSE f : CountRec(f, t, Len(t))
        BY DEF Counts, CountRec
    <2> QED BY ONLY <1>1, <2>1, <2>2
<1>4. PICK g, c : g = Scan(t) /\ c = Counts(t)
    OBVIOUS
<1>5. \A i \in 1..(n + 1) : g[i] = IF i = 1 THEN One("normal") ELSE Advance(g[i - 1], t[i - 1], At(t, i))
    BY ONLY <1>2, <1>4 DEF ScanRec
<1>6. \A i \in 0..n : c[i] = IF i = 0 THEN 0 ELSE IF PlaceholderAt(t, g, i) THEN c[i - 1] + 1 ELSE c[i - 1]
    BY ONLY <1>3, <1>4 DEF CountRec
<1>7. g[1] = One("normal") /\ c[0] = 0
    BY ONLY <1>5, <1>6, n \in Nat
<1>8. ASSUME NEW i \in 1..n
      PROVE  /\ g[i + 1] = Advance(g[i], t[i], At(t, i + 1))
             /\ c[i] = IF PlaceholderAt(t, g, i) THEN c[i - 1] + 1 ELSE c[i - 1]
    <2>1. i + 1 \in 1..(n + 1) /\ i + 1 # 1 /\ (i + 1) - 1 = i /\ i \in 0..n /\ i # 0
        BY ONLY n \in Nat, i \in 1..n
    <2> QED BY ONLY <1>5, <1>6, <2>1
<1> QED BY ONLY <1>1, <1>4, <1>7, <1>8 DEF Scans

\* What a scan step does.
LEMMA Advances ==
    /\ \A st, c, d : Advance(One(st), c, d) = Step(st, c, d) /\ Advance(Two(st), c, d) = One(st)
    /\ \A st, su : One(st) # Two(su) /\ (One(st) = One(su) => st = su)
BY DEF Advance, One, Two

\* x is what t has after its first l symbols.
Here(t, l, x) == l + Len(x) <= Len(t) /\ \A j \in 1..Len(x) : t[l + j] = x[j]

\* After l symbols of t, v of them placeholders, the scanner is in state st.
Stands(t, g, c, l, st, v) == Scans(t, g, c) /\ g[l + 1] = One(st) /\ c[l] = v

\* Wherever x stands in a text, with no symbol of E right after it: if the scanner comes to it in
\* state st then it leaves it in state su, and x has k placeholders.
IsText(t) == Len(t) \in Nat /\ DOMAIN t = 1..Len(t)
Goes(x, st, su, k, E) ==
    \A t, g, c : \A l \in Nat, v \in Nat :
        IsText(t) /\ Stands(t, g, c, l, st, v) /\ Here(t, l, x) /\ At(t, l + Len(x) + 1) \notin E
            => Stands(t, g, c, l + Len(x), su, v + k)

LEMMA HereParts ==
    ASSUME NEW S, NEW t, IsText(t), NEW l \in Nat, NEW x \in Seq(S), NEW y \in Seq(S), NEW m \in Nat, m = Len(x),
           Here(t, l, x \o y)
    PROVE  /\ Here(t, l, x) /\ Here(t, l + m, y)
           /\ y # <<>> => At(t, l + m + 1) = y[1]
           /\ l + Len(x \o y) = (l + m) + Len(y)
<1>1. PICK n \in Nat : n = Len(y)
    OBVIOUS
<1>2. Len(x \o y) = m + n /\ l + (m + n) = (l + m) + n
    BY <1>1
<1>3. /\ \A j \in 1..m : (x \o y)[j] = x[j]
      /\ \A j \in 1..n : (x \o y)[m + j] = y[j]
    BY <1>1
<1>4. l + (m + n) <= Len(t) /\ \A j \in 1..(m + n) : t[l + j] = (x \o y)[j]
    BY <1>2 DEF Here
<1>5. PICK z \in Nat : z = Len(t) /\ DOMAIN t = 1..z
    BY DEF IsText
<1>6. \A j \in 1..m : j \in 1..(m + n)
    BY ONLY m \in Nat, n \in Nat
<1>7. \A j \in 1..n : m + j \in 1..(m + n) /\ l + (m + j) = (l + m) + j
    BY ONLY m \in Nat, n \in Nat, l \in Nat
<1>8. \A j \in 1..m : t[l + j] = x[j]
    BY ONLY <1>3, <1>4, <1>6
<1>9. \A j \in 1..n : t[(l + m) + j] = y[j]
    BY ONLY <1>3, <1>4, <1>7
<1>10. Here(t, l, x) /\ Here(t, l + m, y)
    <2>1. l + m <= z /\ (l + m) + n <= z
        BY ONLY <1>4, <1>5, m \in Nat, n \in Nat, l \in Nat, z \in Nat
    <2> QED BY ONLY <1>1, <1>5, <1>8, <1>9, <2>1, m = Len(x) DEF Here
<1>11. y # <<>> => At(t, l + m + 1) = y[1]
    <2>1. y # <<>> => n >= 1
        BY ONLY <1>1, y \in Seq(S)
    <2>2. n >= 1 => 1 \in 1..n /\ l + m + 1 \in 1..z
        BY ONLY <1>4, <1>5, m \in Nat, n \in Nat, l \in Nat, z \in Nat
    <2> QED BY ONLY <1>5, <1>9, <2>1, <2>2 DEF At
<1> QED BY ONLY <1>1, <1>2, <1>10, <1>11

LEMMA GoesJoin ==
    ASSUME NEW S, NEW x \in Seq(S), NEW y \in Seq(S), NEW st, NEW su, NEW sv, NEW k \in Nat, NEW m \in Nat, NEW D, NEW E,
           Goes(x, st, su, k, D), Goes(y, su, sv, m, E), D = {} \/ (y # <<>> /\ y[1] \notin D)
    PROVE  Goes(x \o y, st, sv, k + m, E)
<1> SUFFICES ASSUME NEW t, NEW g, NEW c, NEW l \in Nat, NEW v \in Nat, IsText(t),
                    Stands(t, g, c, l, st, v), Here(t, l, x \o y), At(t, l + Len(x \o y) + 1) \notin E
             PROVE  Stands(t, g, c, l + Len(x \o y), sv, v + (k + m))
    BY DEF Goes
<1>1. PICK a \in Nat : a = Len(x)
    OBVIOUS
<1>2. PICK b \in Nat : b = Len(y)
    OBVIOUS
<1>3. /\ Here(t, l, x) /\ Here(t, l + a, y)
      /\ y # <<>> => At(t, l + a + 1) = y[1]
      /\ l + Len(x \o y) = (l + a) + b
    BY <1>1, <1>2, HereParts
<1>4. At(t, l + a + 1) \notin D
    BY <1>3
<1>5. PICK p \in Nat : p = l + a
    OBVIOUS
<1>6. PICK w \in Nat : w = v + k
    OBVIOUS
<1>7. Stands(t, g, c, p, su, w)
    <2>1. Stands(t, g, c, l + Len(x), su, v + k)
        <3>1. Here(t, l, x) /\ At(t, l + Len(x) + 1) \notin D
            BY ONLY <1>1, <1>3, <1>4
        <3> QED BY ONLY <3>1, Goes(x, st, su, k, D), Stands(t, g, c, l, st, v),
                        IsText(t), l \in Nat, v \in Nat, Zenon DEF Goes
    <2> QED BY ONLY <2>1, <1>1, <1>5, <1>6
<1>8. Here(t, p, y) /\ At(t, p + Len(y) + 1) \notin E
    BY ONLY <1>2, <1>3, <1>5, At(t, l + Len(x \o y) + 1) \notin E
<1>9. Stands(t, g, c, p + Len(y), sv, w + m)
    BY ONLY <1>7, <1>8, Goes(y, su, sv, m, E), IsText(t), p \in Nat, w \in Nat, Zenon DEF Goes
<1>10. w + m = v + (k + m)
    BY ONLY <1>6, v \in Nat, k \in Nat, m \in Nat
<1> QED BY ONLY <1>2, <1>3, <1>5, <1>9, <1>10

LEMMA GoesWeaker ==
    ASSUME NEW x, NEW st, NEW su, NEW k, NEW E, Goes(x, st, su, k, {})
    PROVE  Goes(x, st, su, k, E)
BY DEF Goes

\* One symbol.
LEMMA GoesOne ==
    ASSUME NEW a, NEW st, NEW su, NEW E, \A d : d \notin E => Step(st, a, d) = One(su),
           NEW k \in Nat, IF a = "?" /\ st = "normal" THEN k = 1 ELSE k = 0
    PROVE  Goes(<<a>>, st, su, k, E)
<1> SUFFICES ASSUME NEW t, NEW g, NEW c, NEW l \in Nat, NEW v \in Nat, IsText(t),
                    Stands(t, g, c, l, st, v), Here(t, l, <<a>>), At(t, l + Len(<<a>>) + 1) \notin E
             PROVE  Stands(t, g, c, l + Len(<<a>>), su, v + k)
    BY DEF Goes
<1>1. Len(<<a>>) = 1 /\ <<a>>[1] = a
    OBVIOUS
<1>2. PICK z \in Nat : z = Len(t) /\ DOMAIN t = 1..z
    BY DEF IsText
<1>3. PICK i \in Nat : i = l + 1
    OBVIOUS
<1>4. i \in 1..z /\ i - 1 = l /\ t[i] = a
    <2>0. PICK x : x = <<a>>
        OBVIOUS
    <2>1. l + 1 <= z /\ t[l + 1] = a
        <3>1. Len(x) = 1 /\ x[1] = a /\ Here(t, l, x) /\ 1 \in 1..1
            BY ONLY <1>1, <2>0, Here(t, l, <<a>>)
        <3> QED BY ONLY <1>2, <3>1 DEF Here
    <2> QED BY ONLY <1>3, <2>1, l \in Nat, z \in Nat
<1>5. Scans(t, g, c) /\ g[i] = One(st) /\ c[i - 1] = v
    BY ONLY <1>3, <1>4, Stands(t, g, c, l, st, v) DEF Stands
<1>6. /\ g[i + 1] = Advance(One(st), a, At(t, i + 1))
      /\ c[i] = IF PlaceholderAt(t, g, i) THEN v + 1 ELSE v
    BY ONLY <1>2, <1>4, <1>5 DEF Scans
<1>7. At(t, i + 1) \notin E
    BY ONLY <1>1, <1>3, At(t, l + Len(<<a>>) + 1) \notin E
<1>8. g[i + 1] = One(su)
    <2>1. PICK d : d = At(t, i + 1) /\ d \notin E
        BY ONLY <1>7
    <2>2. Advance(One(st), a, d) = Step(st, a, d)
        BY ONLY Advances, Zenon
    <2>3. Step(st, a, d) = One(su)
        BY <2>1
    <2> QED BY ONLY <1>6, <2>1, <2>2, <2>3
<1>9. PlaceholderAt(t, g, i) <=> a = "?" /\ st = "normal"
    BY ONLY <1>4, <1>5, Advances DEF PlaceholderAt
<1>10. c[i] = v + k
    BY <1>6, <1>9
<1> QED BY ONLY <1>1, <1>3, <1>5, <1>8, <1>10 DEF Stands

\* Symbols that end nothing, open nothing and are no placeholder.
Dull == {"X", "Y", "1", "_", "(", ")", ",", " ", "INSERT", "INTO", "VALUES"}

LEMMA Symbols1 ==
    /\ \A a \in Dull : Goes(<<a>>, "normal", "normal", 0, {})
    /\ Goes(<<"?">>, "normal", "normal", 1, {})
    /\ Goes(<<"-">>, "normal", "normal", 0, {"-"})
    /\ Goes(<<"'">>, "normal", "single", 0, {})
    /\ Goes(<<"'">>, "single", "normal", 0, {"'"})
    /\ \A a : a # "'" => Goes(<<a>>, "single", "single", 0, {})
    /\ Goes(<<"\"">>, "normal", "double", 0, {})
    /\ Goes(<<"\"">>, "double", "normal", 0, {})
    /\ \A a : a # "\"" => Goes(<<a>>, "double", "double", 0, {})
<1>1. ASSUME NEW a \in Dull PROVE Goes(<<a>>, "normal", "normal", 0, {})
    <2>1. a \notin {"?", "'", "\"", Backtick, "#", "-", "/"}
        BY ONLY a \in Dull DEF Dull, Backtick
    <2>2. \A d : d \notin {} => Step("normal", a, d) = One("normal")
        BY ONLY <2>1 DEF Step
    <2> QED BY ONLY <2>1, <2>2, GoesOne
<1>2. Goes(<<"?">>, "normal", "normal", 1, {})
    <2>1. \A d : d \notin {} => Step("normal", "?", d) = One("normal")
        BY ONLY TRUE DEF Step, Backtick
    <2> QED BY <2>1, GoesOne
<1>3. Goes(<<"-">>, "normal", "normal", 0, {"-"})
    <2>1. \A d : d \notin {"-"} => Step("normal", "-", d) = One("normal")
        BY ONLY TRUE DEF Step, Backtick
    <2> QED BY <2>1, GoesOne
<1>4. Goes(<<"'">>, "normal", "single", 0, {})
    <2>1. \A d : d \notin {} => Step("normal", "'", d) = One("single")
        BY ONLY TRUE DEF Step
    <2> QED BY <2>1, GoesOne
<1>5. Goes(<<"'">>, "single", "normal", 0, {"'"})
    <2>1. \A d : d \notin {"'"} => Step("single", "'", d) = One("normal")
        BY ONLY TRUE DEF Step
    <2> QED BY <2>1, GoesOne
<1>6. ASSUME NEW a, a # "'" PROVE Goes(<<a>>, "single", "single", 0, {})
    <2>1. \A d : d \notin {} => Step("single", a, d) = One("single")
        BY ONLY <1>6 DEF Step
    <2> QED BY <2>1, GoesOne
<1>7. Goes(<<"\"">>, "normal", "double", 0, {})
    <2>1. \A d : d \notin {} => Step("normal", "\"", d) = One("double")
        BY ONLY TRUE DEF Step
    <2> QED BY <2>1, GoesOne
<1>8. Goes(<<"\"">>, "double", "normal", 0, {})
    <2>1. \A d : d \notin {} => Step("double", "\"", d) = One("normal")
        BY ONLY TRUE DEF Step
    <2> QED BY <2>1, GoesOne
<1>9. ASSUME NEW a, a # "\"" PROVE Goes(<<a>>, "double", "double", 0, {})
    <2>1. \A d : d \notin {} => Step("double", a, d) = One("double")
        BY ONLY <1>9 DEF Step
    <2> QED BY <2>1, GoesOne
<1> QED BY <1>1, <1>2, <1>3, <1>4, <1>5, <1>6, <1>7, <1>8, <1>9

LEMMA GoesEmpty ==
    ASSUME NEW st
    PROVE  Goes(<<>>, st, st, 0, {})
<1>1. Len(<<>>) = 0 /\ (\A l \in Nat : l + 0 = l)
    OBVIOUS
<1> QED BY ONLY <1>1 DEF Goes

\* Two symbols that are consumed together.
LEMMA GoesTwo ==
    ASSUME NEW a, NEW b, a # "?", NEW st, NEW su, Step(st, a, b) = Two(su)
    PROVE  Goes(<<a, b>>, st, su, 0, {})
<1> SUFFICES ASSUME NEW t, NEW g, NEW c, NEW l \in Nat, NEW v \in Nat, IsText(t),
                    Stands(t, g, c, l, st, v), Here(t, l, <<a, b>>)
             PROVE  Stands(t, g, c, l + Len(<<a, b>>), su, v + 0)
    BY DEF Goes
<1>1. Len(<<a, b>>) = 2 /\ <<a, b>>[1] = a /\ <<a, b>>[2] = b
    OBVIOUS
<1>2. PICK z \in Nat : z = Len(t) /\ DOMAIN t = 1..z
    BY DEF IsText
<1>3. PICK i \in Nat : i = l + 1
    OBVIOUS
<1>4. i \in 1..z /\ i + 1 \in 1..z /\ i - 1 = l /\ (i + 1) - 1 = i /\ t[i] = a /\ t[i + 1] = b
    <2>0. PICK x : x = <<a, b>>
        OBVIOUS
    <2>1. l + 2 <= z /\ t[l + 1] = a /\ t[l + 2] = b
        <3>1. Len(x) = 2 /\ x[1] = a /\ x[2] = b /\ Here(t, l, x) /\ 1 \in 1..2 /\ 2 \in 1..2
            BY ONLY <1>1, <2>0, Here(t, l, <<a, b>>)
        <3> QED BY ONLY <1>2, <3>1 DEF Here
    <2>2. l + 2 = i + 1
        BY ONLY <1>3, l \in Nat
    <2>3. i \in 1..z /\ i + 1 \in 1..z /\ i - 1 = l /\ (i + 1) - 1 = i
        BY ONLY <1>3, <2>1, l \in Nat, z \in Nat
    <2> QED BY ONLY <1>3, <2>1, <2>2, <2>3
<1>5. Scans(t, g, c) /\ g[i] = One(st) /\ c[i - 1] = v
    BY ONLY <1>3, <1>4, Stands(t, g, c, l, st, v) DEF Stands
<1>6. /\ g[i + 1] = Advance(One(st), a, At(t, i + 1))
      /\ c[i] = IF PlaceholderAt(t, g, i) THEN v + 1 ELSE v
    BY ONLY <1>2, <1>4, <1>5 DEF Scans
<1>7. At(t, i + 1) = b
    BY ONLY <1>2, <1>4 DEF At
<1>8. g[i + 1] = Two(su)
    BY ONLY <1>6, <1>7, Advances, Step(st, a, b) = Two(su)
<1>9. c[i] = v
    BY ONLY <1>4, <1>6, a # "?" DEF PlaceholderAt
<1>10. /\ g[(i + 1) + 1] = Advance(Two(su), b, At(t, (i + 1) + 1))
       /\ c[i + 1] = IF PlaceholderAt(t, g, i + 1) THEN v + 1 ELSE v
    BY ONLY <1>2, <1>4, <1>5, <1>8, <1>9 DEF Scans
<1>11. g[(i + 1) + 1] = One(su)
    BY ONLY <1>10, Advances
<1>12. c[i + 1] = v
    BY ONLY <1>8, <1>10, Advances DEF PlaceholderAt
<1>13. i + 1 = l + 2 /\ v + 0 = v
    BY ONLY <1>3, l \in Nat, v \in Nat
<1> QED BY ONLY <1>1, <1>5, <1>11, <1>12, <1>13 DEF Stands

LEMMA Times ==
    ASSUME NEW j \in Nat, NEW k \in Nat
    PROVE  j * k \in Nat /\ (j + 1) * k = j * k + k /\ 0 * k = 0 /\ j * 0 = 0
OBVIOUS

\* Pieces in a row, each from st to st.
LEMMA GoesChain ==
    ASSUME NEW S, NEW n \in Nat, NEW p, NEW q, Joins(q, p, n, S), NEW st, NEW k \in Nat,
           \A i \in 1..n : Goes(p[i], st, st, k, {})
    PROVE  Goes(q[n], st, st, n * k, {})
<1> DEFINE T == {j \in Nat : j <= n => Goes(q[j], st, st, j * k, {})}
<1>1. 0 \in T
    <2>1. q[0] = <<>> /\ 0 * k = 0
        BY Times DEF Joins
    <2>2. Goes(q[0], st, st, 0 * k, {})
        BY ONLY <2>1, GoesEmpty
    <2> QED BY ONLY <2>2
<1>2. ASSUME NEW j \in T PROVE j + 1 \in T
    <2>1. SUFFICES ASSUME j + 1 <= n PROVE Goes(q[j + 1], st, st, (j + 1) * k, {})
        OBVIOUS
    <2>2. j \in Nat /\ j \in 0..n /\ j + 1 \in 1..n /\ (j + 1) - 1 = j /\ j <= n
        BY <2>1
    <2>3. Goes(q[j], st, st, j * k, {})
        BY <2>2
    <2>4. q[j + 1] = q[j] \o p[j + 1] /\ p[j + 1] \in Seq(S) /\ Goes(p[j + 1], st, st, k, {})
        BY <2>2 DEF Joins
    <2>5. q[j] \in Seq(S)
        BY <2>2, JoinsType
    <2>6. j * k \in Nat /\ (j + 1) * k = j * k + k
        BY ONLY <2>2, k \in Nat, Times
    <2>7. PICK m \in Nat : m = j * k
        BY ONLY <2>6
    <2>8. Goes(q[j] \o p[j + 1], st, st, m + k, {})
        BY ONLY <2>3, <2>4, <2>5, <2>7, k \in Nat, m \in Nat, GoesJoin
    <2> QED BY ONLY <2>4, <2>6, <2>7, <2>8
<1>3. Nat \subseteq T
    <2> HIDE DEF T
    <2>1. T \subseteq Nat
        BY DEF T
    <2> QED BY <1>1, <1>2, <2>1, NatSets
<1> QED BY <1>3

\* The pieces of a quoted text.
Doubled(s, quote) == [i \in DOMAIN s |-> IF s[i] = quote THEN <<quote, quote>> ELSE <<s[i]>>]
QuotedVia(q, s, quote, S) ==
    /\ Joins(q, Doubled(s, quote), Len(s), S)
    /\ q[Len(s)] \in Seq(S)
    /\ Quoted(s, quote) = (<<quote>> \o q[Len(s)]) \o <<quote>>

LEMMA QuotedChain ==
    ASSUME NEW S, NEW s \in Seq(S), NEW quote \in S
    PROVE  \E q : QuotedVia(q, s, quote, S)
<1>1. PICK n \in Nat : n = Len(s) /\ DOMAIN s = 1..n
    OBVIOUS
<1>2. PICK p : p = Doubled(s, quote)
    OBVIOUS
<1>3. ASSUME NEW i \in 1..n PROVE p[i] \in Seq(S)
    <2>1. s[i] \in S /\ p[i] = IF s[i] = quote THEN <<quote, quote>> ELSE <<s[i]>>
        BY <1>1, <1>2 DEF Doubled
    <2>2. <<quote, quote>> \in Seq(S) /\ <<s[i]>> \in Seq(S)
        BY ONLY <2>1, quote \in S
    <2> QED BY ONLY <2>1, <2>2
<1>4. DOMAIN p = 1..n /\ Len(p) = n
    BY ONLY <1>1, <1>2, n \in Nat DEF Doubled
<1>5. PICK q : Joins(q, p, n, S) /\ FlattenSeq(p) = q[n]
    BY ONLY <1>3, <1>4, n \in Nat, FlattenChain
<1>6. q[n] \in Seq(S)
    <2>1. n \in 0..n
        OBVIOUS
    <2> QED BY ONLY <1>5, <2>1, n \in Nat, JoinsType
<1>7. Quoted(s, quote) = (<<quote>> \o q[n]) \o <<quote>>
    <2>1. Quoted(s, quote) = (<<quote>> \o FlattenSeq(Doubled(s, quote))) \o <<quote>>
        BY DEF Quoted, Doubled
    <2> QED BY ONLY <2>1, <1>2, <1>5
<1> QED BY ONLY <1>1, <1>2, <1>5, <1>6, <1>7 DEF QuotedVia

\* A quoted text, from its opening to its closing quote.
LEMMA QuotedGoes ==
    ASSUME NEW S, NEW s \in Seq(S), NEW quote \in S, NEW in, NEW E,
           Goes(<<quote>>, "normal", in, 0, {}), Goes(<<quote, quote>>, in, in, 0, {}),
           \A a : a # quote => Goes(<<a>>, in, in, 0, {}), Goes(<<quote>>, in, "normal", 0, E)
    PROVE  Goes(Quoted(s, quote), "normal", "normal", 0, E) /\ Quoted(s, quote) \in Seq(S)
<1>1. PICK q : QuotedVia(q, s, quote, S)
    BY QuotedChain
<1>2. PICK n \in Nat : n = Len(s) /\ DOMAIN s = 1..n
    OBVIOUS
<1>3. /\ Joins(q, Doubled(s, quote), n, S) /\ q[n] \in Seq(S)
      /\ Quoted(s, quote) = (<<quote>> \o q[n]) \o <<quote>>
    BY ONLY <1>1, <1>2 DEF QuotedVia
<1>4. ASSUME NEW i \in 1..n PROVE Goes(Doubled(s, quote)[i], in, in, 0, {})
    <2>1. Doubled(s, quote)[i] = IF s[i] = quote THEN <<quote, quote>> ELSE <<s[i]>>
        BY ONLY <1>2, i \in 1..n DEF Doubled
    <2> QED BY <2>1
<1>5. Goes(q[n], in, in, 0, {})
    <2>1. Goes(q[n], in, in, n * 0, {})
        <3>1. 0 \in Nat
            OBVIOUS
        <3> QED BY ONLY <1>3, <1>4, <3>1, n \in Nat, GoesChain
    <2>2. n * 0 = 0
        OBVIOUS
    <2> QED BY ONLY <2>1, <2>2
<1>6. PICK a \in Seq(S) : a = <<quote>>
    <2>1. <<quote>> \in Seq(S)
        OBVIOUS
    <2> QED BY ONLY <2>1
<1>7. PICK b \in Seq(S) : b = q[n]
    BY ONLY <1>3
<1>8. PICK u \in Seq(S) : u = a \o b
    <2>1. a \o b \in Seq(S)
        OBVIOUS
    <2> QED BY ONLY <2>1
<1>9. PICK z \in Nat : z = 0 /\ z + z = z
    OBVIOUS
<1>10. Goes(u, "normal", in, z, {})
    <2>1. Goes(a, "normal", in, z, {}) /\ Goes(b, in, in, z, {})
        BY <1>5, <1>6, <1>7, <1>9
    <2>2. Goes(a \o b, "normal", in, z + z, {})
        BY ONLY <2>1, z \in Nat, a \in Seq(S), b \in Seq(S), GoesJoin
    <2> QED BY ONLY <2>2, <1>8, <1>9
<1>11. Goes(u \o a, "normal", "normal", z, E)
    <2>1. Goes(a, in, "normal", z, E)
        BY <1>6, <1>9
    <2>2. Goes(u \o a, "normal", "normal", z + z, E)
        BY ONLY <1>10, <2>1, z \in Nat, a \in Seq(S), u \in Seq(S), GoesJoin
    <2> QED BY ONLY <2>2, <1>9
<1>12. Quoted(s, quote) = u \o a /\ u \o a \in Seq(S)
    <2>1. u \o a \in Seq(S)
        OBVIOUS
    <2> QED BY ONLY <1>3, <1>6, <1>7, <1>8, <2>1
<1> QED BY ONLY <1>9, <1>11, <1>12

\* The symbols of literals and of INSERT statements are symbols of a text.
Alphabet(S) == {"'", "\"", "-", "?", "X", "(", ")", ",", " ", "INSERT", "INTO", "VALUES"} \subseteq S

LEMMA StringGoes ==
    ASSUME NEW S, Alphabet(S), NEW s \in Seq(S)
    PROVE  /\ Goes(QuoteString(s), "normal", "normal", 0, {"'"})
           /\ QuoteString(s) \in Seq(S) /\ QuoteString(s) # <<>> /\ QuoteString(s)[1] = "'"
<1>1. "'" \in S
    BY DEF Alphabet
<1>2. Goes(<<"'", "'">>, "single", "single", 0, {})
    <2>1. Step("single", "'", "'") = Two("single")
        BY ONLY TRUE DEF Step
    <2> QED BY ONLY <2>1, GoesTwo
<1>3. /\ Goes(<<"'">>, "normal", "single", 0, {}) /\ Goes(<<"'">>, "single", "normal", 0, {"'"})
      /\ \A a : a # "'" => Goes(<<a>>, "single", "single", 0, {})
    BY ONLY Symbols1, Zenon
<1>4. Goes(Quoted(s, "'"), "normal", "normal", 0, {"'"}) /\ Quoted(s, "'") \in Seq(S)
    BY ONLY <1>1, <1>2, <1>3, s \in Seq(S), QuotedGoes
<1>5. Quoted(s, "'") # <<>> /\ Quoted(s, "'")[1] = "'"
    <2>1. PICK q : QuotedVia(q, s, "'", S)
        BY ONLY <1>1, s \in Seq(S), QuotedChain
    <2>2. PICK b \in Seq(S), a \in S : a = "'" /\ Quoted(s, "'") = (<<a>> \o b) \o <<a>>
        BY ONLY <1>1, <2>1 DEF QuotedVia
    <2>3. (<<a>> \o b) \o <<a>> # <<>> /\ ((<<a>> \o b) \o <<a>>)[1] = a
        BY ONLY b \in Seq(S), a \in S
    <2> QED BY ONLY <2>2, <2>3
<1> QED BY ONLY <1>4, <1>5 DEF QuoteString

\* Two texts in a row without placeholders, the first of which minds no follower.
LEMMA GoesOn ==
    ASSUME NEW S, NEW a \in S, NEW y \in Seq(S), NEW E, Goes(<<a>>, "normal", "normal", 0, {}),
           Goes(y, "normal", "normal", 0, E)
    PROVE  Goes(<<a>> \o y, "normal", "normal", 0, E) /\ <<a>> \o y \in Seq(S)
<1>1. PICK z \in Nat : z = 0 /\ z + z = z
    OBVIOUS
<1>2. PICK x \in Seq(S) : x = <<a>>
    <2>1. <<a>> \in Seq(S)
        OBVIOUS
    <2> QED BY ONLY <2>1
<1>3. Goes(x \o y, "normal", "normal", z + z, E)
    <2>1. Goes(x, "normal", "normal", z, {}) /\ Goes(y, "normal", "normal", z, E)
        BY <1>1, <1>2
    <2> QED BY ONLY <2>1, z \in Nat, x \in Seq(S), y \in Seq(S), GoesJoin
<1>4. x \o y \in Seq(S)
    OBVIOUS
<1> QED BY ONLY <1>1, <1>2, <1>3, <1>4

Argument(arg, S) == arg.text \in Seq(S)
LiteralIs(x, arg, S) ==
    /\ x \in Seq(S) /\ x # <<>> /\ x[1] \in {"X", "-", "'"} /\ (x[1] = "-" => arg.kind = "negative")
    /\ Goes(x, "normal", "normal", 0, {"'"})

\* Short sequences.
LEMMA IsPair ==
    ASSUME NEW S, NEW x \in Seq(S), Len(x) = 2
    PROVE  x = <<x[1], x[2]>>
OBVIOUS

LEMMA IsTriple ==
    ASSUME NEW S, NEW x \in Seq(S), Len(x) = 3
    PROVE  x = <<x[1], x[2], x[3]>>
OBVIOUS

LEMMA IsSix ==
    ASSUME NEW S, NEW x \in Seq(S), Len(x) = 6
    PROVE  x = <<x[1], x[2], x[3], x[4], x[5], x[6]>>
OBVIOUS

LEMMA Appended ==
    ASSUME NEW S, NEW a \in S, NEW y \in Seq(S), NEW n \in Nat, Len(y) = n
    PROVE  /\ y \o <<a>> \in Seq(S) /\ Len(y \o <<a>>) = n + 1 /\ (y \o <<a>>)[n + 1] = a
           /\ \A i \in 1..n : (y \o <<a>>)[i] = y[i]
OBVIOUS

LEMMA Prepended ==
    ASSUME NEW S, NEW a \in S, NEW y \in Seq(S), NEW n \in Nat, Len(y) = n
    PROVE  /\ <<a>> \o y \in Seq(S) /\ Len(<<a>> \o y) = n + 1 /\ (<<a>> \o y)[1] = a /\ <<a>> \o y # <<>>
           /\ \A i \in 1..n : (<<a>> \o y)[i + 1] = y[i]
OBVIOUS

LEMMA Single1 ==
    ASSUME NEW S, NEW a \in S
    PROVE  <<a>> \in Seq(S) /\ <<a>> # <<>> /\ <<a>>[1] = a /\ Len(<<a>>) = 1 /\ <<>> \o <<a>> = <<a>>
OBVIOUS

LEMMA Pair ==
    ASSUME NEW S, NEW a \in S, NEW b \in S
    PROVE  /\ <<a>> \o <<b>> = <<a, b>> /\ <<a, b>> \in Seq(S) /\ <<a, b>> # <<>> /\ <<a, b>>[1] = a
           /\ \A y \in Seq(S) : <<a>> \o (<<b>> \o y) = <<a, b>> \o y
<1>1. PICK x \in Seq(S) : x = <<a>> \o <<b>> /\ Len(x) = 2 /\ x[1] = a /\ x[2] = b
    <2>1. <<b>> \in Seq(S) /\ Len(<<b>>) = 1 /\ <<b>>[1] = b /\ 1 \in 1..1 /\ 1 + 1 = 2
        OBVIOUS
    <2>2. /\ <<a>> \o <<b>> \in Seq(S) /\ Len(<<a>> \o <<b>>) = 1 + 1 /\ (<<a>> \o <<b>>)[1] = a
          /\ \A i \in 1..1 : (<<a>> \o <<b>>)[i + 1] = <<b>>[i]
        <3>1. 1 \in Nat
            OBVIOUS
        <3> QED BY ONLY <2>1, <3>1, a \in S, Prepended
    <2> QED BY ONLY <2>1, <2>2
<1>2. x = <<a, b>>
    <2>1. x = <<x[1], x[2]>>
        BY ONLY <1>1, x \in Seq(S), IsPair
    <2> QED BY ONLY <1>1, <2>1
<1>3. ASSUME NEW y \in Seq(S) PROVE <<a>> \o (<<b>> \o y) = <<a, b>> \o y
    <2>1. PICK u \in Seq(S), v \in Seq(S) : u = <<a>> /\ v = <<b>>
        BY ONLY Single1, a \in S, b \in S
    <2>2. u \o (v \o y) = (u \o v) \o y
        OBVIOUS
    <2> QED BY ONLY <2>1, <2>2, <1>1, <1>2
<1>4. <<a, b>> # <<>> /\ <<a, b>>[1] = a
    OBVIOUS
<1> QED BY ONLY <1>1, <1>2, <1>3, <1>4, x \in Seq(S)

LEMMA QuotedWord ==
    ASSUME NEW S, NEW a \in S, NEW c \in S
    PROVE  (<<c>> \o <<a>>) \o <<c>> = <<c, a, c>> /\ <<c, a, c>> \in Seq(S)
<1>1. PICK x \in Seq(S) : x = (<<c>> \o <<a>>) \o <<c>> /\ Len(x) = 3 /\ x[1] = c /\ x[2] = a /\ x[3] = c
    <2>1. PICK v \in Seq(S) : v = <<a>> /\ Len(v) = 1 /\ v[1] = a
        BY ONLY Single1, a \in S
    <2>2. PICK w \in Seq(S) : w = <<c>> \o v /\ Len(w) = 2 /\ w[1] = c /\ w[2] = a
        <3>1. 1 \in Nat /\ 1 \in 1..1 /\ 1 + 1 = 2
            OBVIOUS
        <3>2. /\ <<c>> \o v \in Seq(S) /\ Len(<<c>> \o v) = 1 + 1 /\ (<<c>> \o v)[1] = c
              /\ \A i \in 1..1 : (<<c>> \o v)[i + 1] = v[i]
            BY ONLY <2>1, <3>1, c \in S, v \in Seq(S), Prepended
        <3> QED BY ONLY <2>1, <3>1, <3>2
    <2>3. w \o <<c>> \in Seq(S) /\ Len(w \o <<c>>) = 2 + 1 /\ (w \o <<c>>)[2 + 1] = c /\ \A i \in 1..2 : (w \o <<c>>)[i] = w[i]
        <3>1. 2 \in Nat
            OBVIOUS
        <3> QED BY ONLY <2>2, <3>1, c \in S, w \in Seq(S), Appended
    <2>4. 1 \in 1..2 /\ 2 \in 1..2 /\ 2 + 1 = 3
        OBVIOUS
    <2> QED BY ONLY <2>1, <2>2, <2>3, <2>4
<1>2. x = <<c, a, c>>
    <2>1. x = <<x[1], x[2], x[3]>>
        BY ONLY <1>1, x \in Seq(S), IsTriple
    <2> QED BY ONLY <1>1, <2>1
<1> QED BY ONLY <1>1, <1>2, x \in Seq(S)

LEMMA CallOf ==
    ASSUME NEW S, NEW a \in S, NEW b \in S, NEW c \in S, NEW d \in S
    PROVE  <<a>> \o (<<b>> \o (<<c, a, c>> \o <<d>>)) = <<a, b, c, a, c, d>>
<1>1. PICK y \in Seq(S) : y = <<c, a, c>> /\ Len(y) = 3 /\ y[1] = c /\ y[2] = a /\ y[3] = c
    <2>1. <<c, a, c>> \in Seq(S) /\ Len(<<c, a, c>>) = 3 /\ <<c, a, c>>[1] = c /\ <<c, a, c>>[2] = a /\ <<c, a, c>>[3] = c
        OBVIOUS
    <2> QED BY ONLY <2>1
<1>2. PICK u \in Seq(S) : u = y \o <<d>> /\ Len(u) = 4 /\ u[1] = c /\ u[2] = a /\ u[3] = c /\ u[4] = d
    <2>1. y \o <<d>> \in Seq(S) /\ Len(y \o <<d>>) = 4 /\ (y \o <<d>>)[4] = d
        BY <1>1
    <2>2. \A i \in 1..3 : (y \o <<d>>)[i] = y[i]
        BY <1>1
    <2>3. 1 \in 1..3 /\ 2 \in 1..3 /\ 3 \in 1..3
        OBVIOUS
    <2> QED BY ONLY <1>1, <2>1, <2>2, <2>3
<1>3. PICK v \in Seq(S) : /\ v = <<b>> \o u /\ Len(v) = 5 /\ v[1] = b
                          /\ v[2] = c /\ v[3] = a /\ v[4] = c /\ v[5] = d
    <2>1. /\ <<b>> \o u \in Seq(S) /\ Len(<<b>> \o u) = 4 + 1 /\ (<<b>> \o u)[1] = b
          /\ \A i \in 1..4 : (<<b>> \o u)[i + 1] = u[i]
        BY ONLY <1>2, b \in S, u \in Seq(S), Prepended
    <2>2. /\ 1 \in 1..4 /\ 2 \in 1..4 /\ 3 \in 1..4 /\ 4 \in 1..4
          /\ 1 + 1 = 2 /\ 2 + 1 = 3 /\ 3 + 1 = 4 /\ 4 + 1 = 5
        OBVIOUS
    <2> QED BY ONLY <1>2, <2>1, <2>2
<1>4. PICK w \in Seq(S) : /\ w = <<a>> \o v /\ Len(w) = 6 /\ w[1] = a
                          /\ w[2] = b /\ w[3] = c /\ w[4] = a /\ w[5] = c /\ w[6] = d
    <2>1. /\ <<a>> \o v \in Seq(S) /\ Len(<<a>> \o v) = 5 + 1 /\ (<<a>> \o v)[1] = a
          /\ \A i \in 1..5 : (<<a>> \o v)[i + 1] = v[i]
        BY ONLY <1>3, a \in S, v \in Seq(S), Prepended
    <2>2. /\ 1 \in 1..5 /\ 2 \in 1..5 /\ 3 \in 1..5 /\ 4 \in 1..5 /\ 5 \in 1..5
          /\ 1 + 1 = 2 /\ 2 + 1 = 3 /\ 3 + 1 = 4 /\ 4 + 1 = 5 /\ 5 + 1 = 6
        OBVIOUS
    <2> QED BY ONLY <1>3, <2>1, <2>2
<1>5. w = <<a, b, c, a, c, d>>
    <2>1. w = <<w[1], w[2], w[3], w[4], w[5], w[6]>>
        BY ONLY <1>4, w \in Seq(S), IsSix
    <2> QED BY ONLY <1>4, <2>1
<1> QED BY ONLY <1>1, <1>2, <1>3, <1>4, <1>5

LEMMA LiteralGoes ==
    ASSUME NEW S, Alphabet(S), NEW arg, Argument(arg, S)
    PROVE  LiteralIs(Literal(arg), arg, S)
<1>1. PICK a \in S, m \in S, b \in S, c \in S, d \in S, e \in S :
         a = "X" /\ m = "-" /\ b = "(" /\ c = "'" /\ d = ")" /\ e = " "
    BY DEF Alphabet
<1>2. /\ Goes(<<a>>, "normal", "normal", 0, {}) /\ Goes(<<b>>, "normal", "normal", 0, {})
      /\ Goes(<<d>>, "normal", "normal", 0, {}) /\ Goes(<<e>>, "normal", "normal", 0, {})
    <2>1. a \in Dull /\ b \in Dull /\ d \in Dull /\ e \in Dull
        BY ONLY <1>1 DEF Dull
    <2>2. \A x \in Dull : Goes(<<x>>, "normal", "normal", 0, {})
        BY ONLY Symbols1, Zenon
    <2> QED BY ONLY <2>1, <2>2, Zenon
<1>3. Goes(<<a>>, "normal", "normal", 0, {"'"}) /\ Goes(<<d>>, "normal", "normal", 0, {"'"})
    BY ONLY <1>2, GoesWeaker, Zenon
<1>4. PICK x \in Seq(S) : x = <<a>> /\ x # <<>> /\ x[1] = a /\ Len(x) = 1
    BY ONLY Single1, a \in S
<1>5. PICK y \in Seq(S) : y = QuoteString(x) /\ Goes(y, "normal", "normal", 0, {"'"})
    BY ONLY Alphabet(S), x \in Seq(S), StringGoes
<1>6. PICK z \in Nat : z = 0 /\ z + z = z
    OBVIOUS
<1>7. CASE arg.kind = "word"
    <2>1. Literal(arg) = x
        BY ONLY <1>1, <1>4, <1>7 DEF Literal
    <2>2. a \in {"X", "-", "'"} /\ a # "-"
        BY ONLY <1>1
    <2> QED BY ONLY <1>3, <1>4, <2>1, <2>2, x \in Seq(S) DEF LiteralIs
<1>8. CASE arg.kind = "negative"
    <2>1. Literal(arg) = <<m, a>>
        BY ONLY <1>1, <1>8 DEF Literal
    <2>2. PICK w \in Seq(S) : w = <<m>>
        BY ONLY Single1, m \in S
    <2>3. Goes(w, "normal", "normal", z, {"-"})
        <3>1. Goes(<<"-">>, "normal", "normal", 0, {"-"})
            BY ONLY Symbols1, Zenon
        <3> QED BY ONLY <1>1, <1>6, <2>2, <3>1
    <2>4. Goes(x, "normal", "normal", z, {"'"})
        BY ONLY <1>3, <1>4, <1>6
    <2>5. x # <<>> /\ x[1] \notin {"-"}
        BY ONLY <1>1, <1>4
    <2>6. Goes(w \o x, "normal", "normal", z + z, {"'"})
        BY ONLY <2>3, <2>4, <2>5, z \in Nat, w \in Seq(S), x \in Seq(S), GoesJoin
    <2>7. w \o x = <<m, a>> /\ <<m, a>> \in Seq(S) /\ <<m, a>> # <<>> /\ <<m, a>>[1] = m
        BY ONLY <1>4, <2>2, Pair, a \in S, m \in S
    <2>8. PICK v \in Seq(S) : v = <<m, a>> /\ v # <<>> /\ v[1] = m /\ Goes(v, "normal", "normal", 0, {"'"})
        BY ONLY <1>6, <2>6, <2>7
    <2>9. m \in {"X", "-", "'"}
        BY ONLY <1>1
    <2> QED BY ONLY <1>8, <2>1, <2>8, <2>9, v \in Seq(S) DEF LiteralIs
<1>9. CASE arg.kind = "bytes"
    <2>1. Literal(arg) = <<a, b, c, a, c, d>>
        BY ONLY <1>1, <1>9 DEF Literal
    <2>2. y = <<c, a, c>>
        <3>1. PICK q : QuotedVia(q, x, c, S)
            BY ONLY c \in S, x \in Seq(S), QuotedChain
        <3>2. 1 \in DOMAIN x /\ x[1] # c
            <4>1. 1 \in DOMAIN x
                BY ONLY <1>4, x \in Seq(S)
            <4>2. a # c
                BY ONLY <1>1
            <4> QED BY ONLY <1>4, <4>1, <4>2
        <3>3. Doubled(x, c)[1] = <<a>>
            BY ONLY <1>4, <3>2 DEF Doubled
        <3>4. q[1] = <<>> \o <<a>>
            <4>1. 1 \in 1..1 /\ 1 - 1 = 0
                OBVIOUS
            <4> QED BY ONLY <1>4, <3>1, <3>3, <4>1 DEF QuotedVia, Joins
        <3>5. y = (<<c>> \o q[1]) \o <<c>>
            BY ONLY <1>1, <1>4, <1>5, <3>1 DEF QuotedVia, QuoteString
        <3>6. (<<c>> \o <<a>>) \o <<c>> = <<c, a, c>> /\ <<>> \o <<a>> = <<a>>
            BY ONLY QuotedWord, Single1, a \in S, c \in S
        <3> QED BY ONLY <3>4, <3>5, <3>6
    <2>3. PICK w \in Seq(S) : w = <<d>> /\ w # <<>> /\ w[1] = d
        BY ONLY Single1, d \in S
    <2>4. PICK u \in Seq(S) : u = y \o w /\ Goes(u, "normal", "normal", 0, {"'"})
        <3>1. Goes(y, "normal", "normal", z, {"'"}) /\ Goes(w, "normal", "normal", z, {"'"})
            BY ONLY <1>3, <1>5, <1>6, <2>3
        <3>2. w # <<>> /\ w[1] \notin {"'"}
            BY ONLY <1>1, <2>3
        <3>3. Goes(y \o w, "normal", "normal", z + z, {"'"})
            BY ONLY <3>1, <3>2, z \in Nat, y \in Seq(S), w \in Seq(S), GoesJoin
        <3>4. y \o w \in Seq(S)
            BY ONLY y \in Seq(S), w \in Seq(S)
        <3> QED BY ONLY <1>6, <3>3, <3>4
    <2>5. PICK s \in Seq(S) : s = <<b>> \o u /\ Goes(s, "normal", "normal", 0, {"'"})
        <3>1. Goes(<<b>> \o u, "normal", "normal", 0, {"'"}) /\ <<b>> \o u \in Seq(S)
            BY ONLY <1>2, <2>4, b \in S, u \in Seq(S), GoesOn, Zenon
        <3> QED BY ONLY <3>1
    <2>6. PICK v \in Seq(S) : v = <<a>> \o s /\ Goes(v, "normal", "normal", 0, {"'"})
        <3>1. Goes(<<a>> \o s, "normal", "normal", 0, {"'"}) /\ <<a>> \o s \in Seq(S)
            BY ONLY <1>2, <2>5, a \in S, s \in Seq(S), GoesOn, Zenon
        <3> QED BY ONLY <3>1
    <2>7. v = <<a, b, c, a, c, d>>
        <3>1. <<a>> \o (<<b>> \o (<<c, a, c>> \o <<d>>)) = <<a, b, c, a, c, d>>
            BY ONLY CallOf, a \in S, b \in S, c \in S, d \in S
        <3> QED BY ONLY <2>2, <2>3, <2>4, <2>5, <2>6, <3>1
    <2>8. v # <<>> /\ v[1] = a
        <3>1. PICK n \in Nat : n = Len(s)
            BY ONLY s \in Seq(S)
        <3>2. <<a>> \o s # <<>> /\ (<<a>> \o s)[1] = a
            BY ONLY <3>1, Prepended, a \in S, s \in Seq(S)
        <3> QED BY ONLY <2>6, <3>2
    <2>9. a \in {"X", "-", "'"} /\ a # "-"
        BY ONLY <1>1
    <2> QED BY ONLY <2>1, <2>6, <2>7, <2>8, <2>9, v \in Seq(S) DEF LiteralIs
<1>10. CASE arg.kind = "string"
    <2>1. Literal(arg) = QuoteString(arg.text)
        BY ONLY <1>10 DEF Literal
    <2>2. PICK s \in Seq(S) : s = arg.text
        BY DEF Argument
    <2>3. /\ Goes(QuoteString(s), "normal", "normal", 0, {"'"})
          /\ QuoteString(s) \in Seq(S) /\ QuoteString(s) # <<>> /\ QuoteString(s)[1] = "'"
        BY ONLY Alphabet(S), s \in Seq(S), StringGoes
    <2> QED BY ONLY <2>1, <2>2, <2>3 DEF LiteralIs
<1>11. CASE arg.kind \notin {"word", "negative", "bytes", "string"}
    <2>1. Literal(arg) = <<a, e>> \o y
        BY ONLY <1>1, <1>4, <1>5, <1>11 DEF Literal
    <2>2. PICK w \in Seq(S) : w = <<e>> \o y /\ Goes(w, "normal", "normal", 0, {"'"})
        BY ONLY <1>2, <1>5, e \in S, y \in Seq(S), GoesOn
    <2>3. PICK v \in Seq(S) : v = <<a>> \o w /\ Goes(v, "normal", "normal", 0, {"'"})
        <3>1. Goes(<<a>> \o w, "normal", "normal", 0, {"'"}) /\ <<a>> \o w \in Seq(S)
            BY ONLY <1>2, <2>2, a \in S, w \in Seq(S), GoesOn, Zenon
        <3> QED BY ONLY <3>1
    <2>4. <<a>> \o (<<e>> \o y) = <<a, e>> \o y /\ v # <<>> /\ v[1] = a
        <3>1. PICK n \in Nat : n = Len(w)
            BY ONLY w \in Seq(S)
        <3>2. v # <<>> /\ v[1] = a
            <4>1. <<a>> \o w # <<>> /\ (<<a>> \o w)[1] = a
                BY ONLY <3>1, Prepended, a \in S, w \in Seq(S)
            <4> QED BY ONLY <2>3, <4>1
        <3> QED BY ONLY <3>2, Pair, a \in S, e \in S, y \in Seq(S)
    <2>5. a \in {"X", "-", "'"} /\ a # "-"
        BY ONLY <1>1
    <2> QED BY ONLY <2>1, <2>2, <2>3, <2>4, <2>5, v \in Seq(S) DEF LiteralIs
<1> QED BY <1>7, <1>8, <1>9, <1>10, <1>11

\* Where a piece stands in the whole, and what follows it.
Placed(q, p, n, i, S) ==
    /\ q[n] \in Seq(S) /\ Len(q[i - 1]) \in Nat /\ p[i] \in Seq(S)
    /\ Here(q[n], Len(q[i - 1]), p[i]) /\ Len(q[i]) = Len(q[i - 1]) + Len(p[i])
Followed(q, p, n, i) ==
    /\ i = n => At(q[n], Len(q[i]) + 1) = NoSym
    /\ i < n /\ p[i + 1] # <<>> => At(q[n], Len(q[i]) + 1) = p[i + 1][1]

LEMMA PieceHere ==
    ASSUME NEW S, NEW n \in Nat, NEW p, NEW q, Joins(q, p, n, S), NEW i \in 1..n
    PROVE  Placed(q, p, n, i, S)
<1>1. i \in 0..n /\ i - 1 \in 0..n /\ n \in 0..n
    OBVIOUS
<1>2. PICK x \in Seq(S) : q[n] = q[i] \o x
    <2>1. Continues(q[n], q[i], S)
        BY <1>1, JoinsRest
    <2> QED BY ONLY <2>1 DEF Continues
<1>3. PICK a \in Seq(S), b \in Seq(S) : a = q[i - 1] /\ b = p[i] /\ q[i] = a \o b
    <2>1. q[i - 1] \in Seq(S)
        BY <1>1, JoinsType
    <2>2. p[i] \in Seq(S) /\ q[i] = q[i - 1] \o p[i]
        BY DEF Joins
    <2> QED BY ONLY <2>1, <2>2
<1>4. PICK u : u = (a \o b) \o x
    OBVIOUS
<1>5. PICK l \in Nat, m \in Nat, k \in Nat : l = Len(a) /\ m = Len(b) /\ k = Len(x)
    BY ONLY a \in Seq(S), b \in Seq(S), x \in Seq(S)
<1>6. u \in Seq(S) /\ Len(u) = l + m + k /\ Len(a \o b) = l + m /\ \A j \in 1..m : u[l + j] = b[j]
    BY ONLY <1>4, <1>5, a \in Seq(S), b \in Seq(S), x \in Seq(S)
<1>7. l + m <= l + m + k
    BY ONLY l \in Nat, m \in Nat, k \in Nat
<1>8. Here(u, l, b)
    BY ONLY <1>5, <1>6, <1>7 DEF Here
<1> QED BY ONLY <1>2, <1>3, <1>4, <1>5, <1>6, <1>8, l \in Nat, b \in Seq(S) DEF Placed

LEMMA PieceNext ==
    ASSUME NEW S, NEW n \in Nat, NEW p, NEW q, Joins(q, p, n, S), NEW i \in 0..n
    PROVE  Followed(q, p, n, i)
<1>1. CASE i = n
    <2>1. PICK u \in Seq(S) : u = q[n]
        <3>1. n \in 0..n
            OBVIOUS
        <3> QED BY <3>1, JoinsType
    <2>2. Len(u) + 1 \notin DOMAIN u
        BY ONLY u \in Seq(S)
    <2>3. At(q[n], Len(q[i]) + 1) = NoSym
        BY ONLY <1>1, <2>1, <2>2 DEF At
    <2> QED BY <1>1, <2>3 DEF Followed
<1>2. CASE i < n /\ p[i + 1] # <<>>
    <2>1. PICK j \in 1..n : j = i + 1 /\ j - 1 = i
        BY <1>2
    <2>2. PICK u \in Seq(S), l \in Nat, b \in Seq(S) : u = q[n] /\ l = Len(q[i]) /\ b = p[j] /\ Here(u, l, b) /\ b # <<>>
        <3>1. Placed(q, p, n, j, S)
            BY PieceHere
        <3> QED BY ONLY <1>2, <2>1, <3>1 DEF Placed
    <2>3. PICK m \in Nat, z \in Nat : m = Len(b) /\ m >= 1 /\ z = Len(u) /\ DOMAIN u = 1..z
        BY ONLY <2>2, b \in Seq(S), u \in Seq(S)
    <2>4. l + m <= z /\ u[l + 1] = b[1]
        <3>1. 1 \in 1..m
            BY ONLY <2>3, m \in Nat
        <3> QED BY ONLY <2>2, <2>3, <3>1 DEF Here
    <2>5. l + 1 \in DOMAIN u
        BY ONLY <2>3, <2>4, l \in Nat, m \in Nat, z \in Nat
    <2>6. At(q[n], Len(q[i]) + 1) = p[i + 1][1]
        BY ONLY <1>2, <2>1, <2>2, <2>4, <2>5 DEF At
    <2> QED BY <1>2, <2>6 DEF Followed
<1> QED BY <1>1, <1>2 DEF Followed

\* A literal in place of the placeholder after it makes no difference to a symbol.
LEMMA SameAdvance ==
    ASSUME NEW st, NEW c, c # "'", NEW d \in {"X", "-", "'"}, d = "-" => c # "-"
    PROVE  Advance(st, c, d) = Advance(st, c, "?")
<1>1. Step(st.st, c, d) = Step(st.st, c, "?")
    <2>1. d # "*" /\ d # "/" /\ ~(c = "-" /\ d = "-")
        OBVIOUS
    <2> QED BY ONLY <2>1, c # "'" DEF Step
<1> QED BY ONLY <1>1 DEF Advance

\* A text q with its placeholders replaced: piece i is a literal, or the symbol itself.
Interpolated(q, args, f, c, p, r, n, S) ==
    /\ q \in Seq(S) /\ n \in Nat /\ n = Len(q) /\ Scans(q, f, c) /\ Joins(r, p, n, S)
    /\ \A i \in 1..n : IF PlaceholderAt(q, f, i) THEN LiteralIs(p[i], args[c[i]], S) /\ ~Glued(q, i, args[c[i]])
                       ELSE p[i] = <<q[i]>>

\* After the first i pieces the scanner is where it was after the first i symbols, and has seen no placeholder.
Keeps(i, f, r, g, e) == g[Len(r[i]) + 1] = f[i + 1] /\ e[Len(r[i])] = 0

LEMMA Unglued ==
    ASSUME NEW q, NEW i, NEW arg, ~Glued(q, i, arg)
    PROVE  /\ At(q, i - 1) # "'" /\ At(q, i - 1) # "?" /\ At(q, i + 1) # "'" /\ At(q, i + 1) # "?"
           /\ arg.kind = "negative" => At(q, i - 1) # "-"
BY DEF Glued

\* The piece for a placeholder.
LEMMA LiteralKeeps ==
    ASSUME NEW S, NEW q, NEW args, NEW f, NEW c, NEW p, NEW r, NEW n, Interpolated(q, args, f, c, p, r, n, S),
           NEW i \in 1..n, NEW g, NEW e, Scans(r[n], g, e), Keeps(i - 1, f, r, g, e), PlaceholderAt(q, f, i)
    PROVE  Keeps(i, f, r, g, e)
<1>0. n \in Nat /\ Joins(r, p, n, S)
    BY DEF Interpolated
<1>1. /\ q \in Seq(S) /\ n \in Nat /\ n = Len(q) /\ DOMAIN q = 1..n /\ Scans(q, f, c) /\ Joins(r, p, n, S)
      /\ LiteralIs(p[i], args[c[i]], S) /\ ~Glued(q, i, args[c[i]])
    BY DEF Interpolated
<1>2. /\ At(q, i + 1) # "'" /\ At(q, i + 1) # "?"
    BY ONLY <1>1, Unglued
<1>3. PICK t \in Seq(S), l \in Nat, x \in Seq(S) : t = r[n] /\ l = Len(r[i - 1]) /\ x = p[i]
                                                  /\ Here(t, l, x) /\ Len(r[i]) = l + Len(x)
    <2>1. Placed(r, p, n, i, S)
        BY ONLY <1>0, i \in 1..n, PieceHere
    <2> QED BY ONLY <2>1 DEF Placed
<1>4. Goes(x, "normal", "normal", 0, {"'"})
    BY ONLY <1>1, <1>3 DEF LiteralIs
<1>5. At(t, l + Len(x) + 1) # "'"
    <2>1. CASE i = n
        <3>1. i \in 0..n
            BY ONLY i \in 1..n
        <3>2. At(t, Len(r[i]) + 1) = NoSym
            <4>1. Followed(r, p, n, i)
                BY ONLY <1>0, <3>1, PieceNext
            <4> QED BY ONLY <4>1, <1>3, <2>1, <3>1 DEF Followed
        <3> QED BY ONLY <1>3, <3>2 DEF NoSym
    <2>2. CASE i < n
        <3>1. i \in 0..n /\ i + 1 \in 1..n
            BY ONLY <1>1, <2>2, i \in 1..n
        <3>2. q[i + 1] # "'" /\ q[i + 1] # "?"
            BY ONLY <1>1, <1>2, <3>1 DEF At
        <3>3. p[i + 1] = <<q[i + 1]>>
            <4>1. ~PlaceholderAt(q, f, i + 1)
                BY ONLY <3>2 DEF PlaceholderAt
            <4> QED BY ONLY <3>1, <4>1, Interpolated(q, args, f, c, p, r, n, S) DEF Interpolated
        <3>4. p[i + 1] # <<>> /\ p[i + 1][1] = q[i + 1]
            BY ONLY <3>3
        <3>5. At(t, Len(r[i]) + 1) = q[i + 1]
            <4>1. Followed(r, p, n, i)
                BY ONLY <1>0, <3>1, PieceNext
            <4> QED BY ONLY <4>1, <1>3, <2>2, <3>1, <3>4 DEF Followed
        <3> QED BY ONLY <1>3, <3>2, <3>5
    <2> QED BY ONLY <1>1, <2>1, <2>2, i \in 1..n
<1>6. f[i] = One("normal") /\ q[i] = "?"
    BY DEF PlaceholderAt
<1>7. Stands(t, g, e, l, "normal", 0)
    <2>1. (i - 1) + 1 = i
        BY ONLY <1>1, i \in 1..n
    <2> QED BY ONLY <1>3, <1>6, <2>1, Scans(r[n], g, e), Keeps(i - 1, f, r, g, e) DEF Keeps, Stands
<1>8. Stands(t, g, e, l + Len(x), "normal", 0)
    <2>1. IsText(t) /\ 0 \in Nat /\ 0 + 0 = 0 /\ At(t, l + Len(x) + 1) \notin {"'"}
        BY ONLY <1>5, t \in Seq(S) DEF IsText
    <2>2. Stands(t, g, e, l + Len(x), "normal", 0 + 0)
        BY ONLY <1>3, <1>4, <1>7, <2>1, l \in Nat, Zenon DEF Goes
    <2> QED BY ONLY <2>1, <2>2
<1>9. f[i + 1] = One("normal")
    <2>1. f[i + 1] = Advance(One("normal"), "?", At(q, i + 1))
        BY ONLY <1>1, <1>6, i \in 1..n DEF Scans
    <2>2. \A d : Step("normal", "?", d) = One("normal")
        BY ONLY TRUE DEF Step, Backtick
    <2>3. PICK d : d = At(q, i + 1)
        OBVIOUS
    <2>4. Advance(One("normal"), "?", d) = Step("normal", "?", d)
        BY ONLY Advances, Zenon
    <2>5. Step("normal", "?", d) = One("normal")
        BY ONLY <2>2
    <2> QED BY ONLY <2>1, <2>3, <2>4, <2>5
<1> QED BY ONLY <1>3, <1>8, <1>9 DEF Stands, Keeps

\* The piece for any other symbol.
LEMMA SymbolKeeps ==
    ASSUME NEW S, NEW q, NEW args, NEW f, NEW c, NEW p, NEW r, NEW n, Interpolated(q, args, f, c, p, r, n, S),
           NEW i \in 1..n, NEW g, NEW e, Scans(r[n], g, e), Keeps(i - 1, f, r, g, e), ~PlaceholderAt(q, f, i)
    PROVE  Keeps(i, f, r, g, e)
<1>0. n \in Nat /\ Joins(r, p, n, S)
    BY DEF Interpolated
<1>1. /\ q \in Seq(S) /\ n \in Nat /\ n = Len(q) /\ DOMAIN q = 1..n /\ Scans(q, f, c) /\ Joins(r, p, n, S)
      /\ p[i] = <<q[i]>>
    BY DEF Interpolated
<1>2. PICK t \in Seq(S), l \in Nat : t = r[n] /\ l = Len(r[i - 1]) /\ Here(t, l, p[i]) /\ Len(r[i]) = l + Len(p[i])
    <2>1. Placed(r, p, n, i, S)
        BY ONLY <1>0, i \in 1..n, PieceHere
    <2> QED BY ONLY <2>1 DEF Placed
<1>3. Len(p[i]) = 1 /\ p[i][1] = q[i]
    BY ONLY <1>1
<1>4. PICK z \in Nat, k \in Nat : z = Len(t) /\ k = l + 1 /\ k \in 1..z /\ k - 1 = l /\ t[k] = q[i] /\ Len(r[i]) = k
    <2>1. PICK z \in Nat : z = Len(t)
        BY ONLY t \in Seq(S)
    <2>2. l + 1 <= z /\ t[l + 1] = q[i]
        <3>1. 1 \in 1..1
            OBVIOUS
        <3> QED BY ONLY <1>2, <1>3, <2>1, <3>1 DEF Here
    <2>3. l + 1 \in 1..z /\ (l + 1) - 1 = l /\ l + 1 \in Nat
        BY ONLY <2>2, l \in Nat, z \in Nat
    <2> QED BY ONLY <1>2, <1>3, <2>1, <2>2, <2>3
<1>5. g[k] = f[i] /\ e[k - 1] = 0
    <2>1. (i - 1) + 1 = i
        BY ONLY <1>1, i \in 1..n
    <2> QED BY ONLY <1>2, <1>4, <2>1, Keeps(i - 1, f, r, g, e) DEF Keeps
<1>6. /\ g[k + 1] = Advance(f[i], q[i], At(t, k + 1))
      /\ e[k] = IF PlaceholderAt(t, g, k) THEN 0 + 1 ELSE 0
    BY ONLY <1>2, <1>4, <1>5, Scans(r[n], g, e) DEF Scans
<1>7. e[k] = 0
    <2>1. ~PlaceholderAt(t, g, k)
        BY ONLY <1>4, <1>5, ~PlaceholderAt(q, f, i) DEF PlaceholderAt
    <2> QED BY ONLY <1>6, <2>1
<1>8. f[i + 1] = Advance(f[i], q[i], At(q, i + 1))
    BY ONLY <1>1, i \in 1..n DEF Scans
<1>9. Advance(f[i], q[i], At(t, k + 1)) = Advance(f[i], q[i], At(q, i + 1))
    <2>0. i \in 0..n
        BY ONLY i \in 1..n
    <2>1. CASE i = n
        <3>1. At(t, Len(r[i]) + 1) = NoSym
            <4>1. Followed(r, p, n, i)
                BY ONLY <1>0, <2>0, PieceNext
            <4> QED BY ONLY <4>1, <1>2, <2>0, <2>1 DEF Followed
        <3>2. At(q, i + 1) = NoSym
            <4>1. i + 1 \notin DOMAIN q
                BY ONLY <1>1, <2>1
            <4> QED BY ONLY <4>1 DEF At
        <3> QED BY ONLY <1>4, <3>1, <3>2
    <2>2. CASE i < n /\ ~PlaceholderAt(q, f, i + 1)
        <3>1. i + 1 \in 1..n
            BY ONLY <1>1, <2>2, i \in 1..n
        <3>2. p[i + 1] = <<q[i + 1]>>
            BY ONLY <2>2, <3>1, Interpolated(q, args, f, c, p, r, n, S) DEF Interpolated
        <3>3. p[i + 1] # <<>> /\ p[i + 1][1] = q[i + 1]
            BY ONLY <3>2
        <3>4. At(t, Len(r[i]) + 1) = q[i + 1]
            <4>1. Followed(r, p, n, i)
                BY ONLY <1>0, <2>0, PieceNext
            <4> QED BY ONLY <4>1, <1>2, <2>0, <2>2, <3>3 DEF Followed
        <3>5. At(q, i + 1) = q[i + 1]
            BY ONLY <1>1, <3>1 DEF At
        <3> QED BY ONLY <1>4, <3>4, <3>5
    <2>3. CASE i < n /\ PlaceholderAt(q, f, i + 1)
        <3>1. i + 1 \in 1..n /\ (i + 1) - 1 = i
            BY ONLY <1>1, <2>3, i \in 1..n
        <3>2. PICK arg : arg = args[c[i + 1]] /\ LiteralIs(p[i + 1], arg, S) /\ ~Glued(q, i + 1, arg)
            BY ONLY <2>3, <3>1, Interpolated(q, args, f, c, p, r, n, S) DEF Interpolated
        <3>3. PICK d : d = p[i + 1][1] /\ p[i + 1] # <<>> /\ d \in {"X", "-", "'"} /\ (d = "-" => arg.kind = "negative")
            BY ONLY <3>2 DEF LiteralIs
        <3>4. At(t, Len(r[i]) + 1) = d
            <4>1. Followed(r, p, n, i)
                BY ONLY <1>0, <2>0, PieceNext
            <4> QED BY ONLY <4>1, <1>2, <2>0, <2>3, <3>3 DEF Followed
        <3>5. At(q, i + 1) = "?" /\ At(q, i) = q[i]
            BY ONLY <1>1, <2>3, <3>1, i \in 1..n DEF At, PlaceholderAt
        <3>6. At(q, i) # "'" /\ (arg.kind = "negative" => At(q, i) # "-")
            <4>1. /\ At(q, (i + 1) - 1) # "'" /\ (arg.kind = "negative" => At(q, (i + 1) - 1) # "-")
                BY ONLY <3>2, Unglued
            <4> QED BY ONLY <3>1, <4>1
        <3>7. Advance(f[i], q[i], d) = Advance(f[i], q[i], "?")
            BY ONLY <3>3, <3>5, <3>6, SameAdvance
        <3> QED BY ONLY <1>4, <3>4, <3>5, <3>7
    <2> QED BY ONLY <1>1, <2>1, <2>2, <2>3, i \in 1..n
<1> QED BY ONLY <1>4, <1>6, <1>7, <1>8, <1>9 DEF Keeps

\* All pieces.
LEMMA InterpolationKeeps ==
    ASSUME NEW S, NEW q, NEW args, NEW f, NEW c, NEW p, NEW r, NEW n, Interpolated(q, args, f, c, p, r, n, S),
           NEW g, NEW e, Scans(r[n], g, e), NEW i \in 0..n
    PROVE  Keeps(i, f, r, g, e)
<1> DEFINE T == {j \in Nat : j <= n => Keeps(j, f, r, g, e)}
<1>0. n \in Nat
    BY DEF Interpolated
<1>1. 0 \in T
    <2>1. r[0] = <<>> /\ f[1] = One("normal")
        BY DEF Interpolated, Joins, Scans
    <2>2. Len(r[0]) = 0 /\ 0 + 1 = 1
        BY ONLY <2>1
    <2>3. g[1] = One("normal") /\ e[0] = 0
        BY DEF Scans
    <2>4. Keeps(0, f, r, g, e)
        BY ONLY <2>1, <2>2, <2>3 DEF Keeps
    <2> QED BY ONLY <2>4
<1>2. ASSUME NEW j \in T PROVE j + 1 \in T
    <2>1. SUFFICES ASSUME j + 1 <= n PROVE Keeps(j + 1, f, r, g, e)
        OBVIOUS
    <2>2. PICK k \in 1..n : k = j + 1 /\ k - 1 = j
        BY <1>0, <2>1
    <2>3. Keeps(k - 1, f, r, g, e)
        BY <1>0, <2>1, <2>2
    <2>4. Keeps(k, f, r, g, e)
        BY <2>3, LiteralKeeps, SymbolKeeps
    <2> QED BY ONLY <2>2, <2>4
<1>3. Nat \subseteq T
    <2> HIDE DEF T
    <2>1. T \subseteq Nat
        BY DEF T
    <2> QED BY <1>1, <1>2, <2>1, NatSets
<1> QED BY <1>0, <1>3

\* The number of a placeholder is that of an argument.
LEMMA CountsGrow ==
    ASSUME NEW t, NEW n \in Nat, n = Len(t), NEW g, NEW c, Scans(t, g, c)
    PROVE  c[n] \in Nat /\ \A i \in 1..n : PlaceholderAt(t, g, i) => c[i] \in 1..c[n]
<1> DEFINE Bounded(j) == c[j] \in Nat /\ \A i \in 1..n : i <= j /\ PlaceholderAt(t, g, i) => c[i] \in 1..c[j]
           T == {j \in Nat : j <= n => Bounded(j)}
<1>0. c[0] = 0 /\ \A i \in 1..n : c[i] = IF PlaceholderAt(t, g, i) THEN c[i - 1] + 1 ELSE c[i - 1]
    BY DEF Scans
<1>1. 0 \in T
    BY <1>0
<1>2. ASSUME NEW j \in T PROVE j + 1 \in T
    <2>1. SUFFICES ASSUME j + 1 <= n PROVE Bounded(j + 1)
        OBVIOUS
    <2>2. j + 1 \in 1..n /\ (j + 1) - 1 = j /\ Bounded(j) /\ j \in Nat
        BY <2>1
    <2>3. c[j + 1] = IF PlaceholderAt(t, g, j + 1) THEN c[j] + 1 ELSE c[j]
        BY ONLY <1>0, <2>2
    <2>4. c[j] \in Nat /\ c[j + 1] \in Nat /\ c[j] <= c[j + 1]
        BY ONLY <2>2, <2>3
    <2>5. ASSUME NEW i \in 1..n, i <= j + 1, PlaceholderAt(t, g, i) PROVE c[i] \in 1..c[j + 1]
        <3>1. CASE i = j + 1
            BY ONLY <2>3, <2>4, <2>5, <3>1
        <3>2. CASE i <= j
            <4>1. c[i] \in 1..c[j]
                BY ONLY <2>2, <2>5, <3>2
            <4> QED BY ONLY <2>4, <4>1
        <3> QED BY ONLY <2>2, <2>5, <3>1, <3>2, i \in 1..n
    <2> QED BY ONLY <2>4, <2>5
<1>3. Nat \subseteq T
    <2> HIDE DEF T
    <2>1. T \subseteq Nat
        BY DEF T
    <2> QED BY <1>1, <1>2, <2>1, NatSets
<1>4. Bounded(n)
    BY <1>3
<1> QED BY <1>4

\* The pieces before one of them.
LEMMA JoinsSame ==
    ASSUME NEW S, NEW n \in Nat, NEW p, NEW q, Joins(q, p, n, S), NEW m \in Nat, NEW u, NEW r, Joins(r, u, m, S),
           m <= n, \A i \in 1..m : u[i] = p[i]
    PROVE  r[m] = q[m]
<1> DEFINE T == {j \in Nat : j <= m => r[j] = q[j]}
<1>1. 0 \in T
    BY DEF Joins
<1>2. ASSUME NEW j \in T PROVE j + 1 \in T
    <2>1. SUFFICES ASSUME j + 1 <= m PROVE r[j + 1] = q[j + 1]
        OBVIOUS
    <2>2. j + 1 \in 1..m /\ j + 1 \in 1..n /\ (j + 1) - 1 = j /\ r[j] = q[j]
        BY <2>1
    <2>3. r[j + 1] = r[j] \o u[j + 1]
        BY <2>2 DEF Joins
    <2>4. q[j + 1] = q[j] \o p[j + 1]
        BY <2>2 DEF Joins
    <2> QED BY <2>2, <2>3, <2>4
<1>3. Nat \subseteq T
    <2> HIDE DEF T
    <2>1. T \subseteq Nat
        BY DEF T
    <2> QED BY <1>1, <1>2, <2>1, NatSets
<1> QED BY <1>3

LEMMA FlattenFront ==
    ASSUME NEW S, NEW n \in Nat, NEW p \in Seq(Seq(S)), Len(p) = n, NEW q, Joins(q, p, n, S), NEW m \in Nat, m <= n
    PROVE  FlattenSeq(SubSeq(p, 1, m)) = q[m]
<1>1. PICK u \in Seq(Seq(S)) : u = SubSeq(p, 1, m) /\ Len(u) = m /\ DOMAIN u = 1..m /\ \A i \in 1..m : u[i] = p[i] /\ u[i] \in Seq(S)
    <2>1. SubSeq(p, 1, m) \in Seq(Seq(S)) /\ Len(SubSeq(p, 1, m)) = m /\ \A i \in 1..m : SubSeq(p, 1, m)[i] = p[i]
        OBVIOUS
    <2>2. PICK u \in Seq(Seq(S)) : u = SubSeq(p, 1, m)
        BY <2>1
    <2>3. Len(u) = m /\ \A i \in 1..m : u[i] = p[i]
        BY ONLY <2>1, <2>2
    <2>4. DOMAIN u = 1..m /\ \A i \in 1..m : u[i] \in Seq(S)
        BY ONLY <2>3, u \in Seq(Seq(S)), m \in Nat
    <2> QED BY ONLY <2>2, <2>3, <2>4, u \in Seq(Seq(S))
<1>2. DOMAIN u = 1..m /\ Len(u) = m /\ \A i \in 1..m : u[i] \in Seq(S)
    BY ONLY <1>1
<1>3. \E r : Joins(r, u, m, S) /\ FlattenSeq(u) = r[m]
    BY ONLY <1>2, m \in Nat, FlattenChain
<1>4. PICK r : Joins(r, u, m, S) /\ FlattenSeq(u) = r[m]
    BY ONLY <1>3
<1>5. \A i \in 1..m : u[i] = p[i]
    BY ONLY <1>1
<1>6. Joins(r, u, m, S)
    BY ONLY <1>4
<1>7. r[m] = q[m]
    BY ONLY <1>5, <1>6, Joins(q, p, n, S), n \in Nat, m \in Nat, m <= n, JoinsSame
<1> QED BY ONLY <1>1, <1>4, <1>7

(***************************************************************************)
(* Reading a quoted text back.                                             *)
(***************************************************************************)
\* The steps of the recursive functions on texts that go from right to left.
Backward(kind, c, quote, g, i) ==
    IF i > Len(c) THEN IF kind = "close" THEN 0 ELSE <<>>
    ELSE IF kind = "close" THEN IF c[i] # quote THEN g[i + 1] ELSE IF At(c, i + 1) = quote THEN g[i + 2] ELSE i
    ELSE IF c[i] = quote /\ At(c, i + 1) = quote THEN <<quote>> \o g[i + 2] ELSE <<c[i]>> \o g[i + 1]

Descends(g, kind, c, quote, a, b) == g = [i \in a..b |-> Backward(kind, c, quote, g, i)]

LEMMA BackwardSame ==
    ASSUME NEW kind, NEW c, NEW quote, NEW g, NEW r, NEW i, i <= Len(c) => g[i + 1] = r[i + 1] /\ g[i + 2] = r[i + 2],
           NEW n \in Nat, n = Len(c), i \in Int
    PROVE  Backward(kind, c, quote, g, i) = Backward(kind, c, quote, r, i)
<1>1. CASE i > Len(c)
    BY <1>1 DEF Backward
<1>2. CASE i <= Len(c)
    BY <1>2 DEF Backward
<1> QED BY <1>1, <1>2

LEMMA DescendExists ==
    ASSUME NEW kind, NEW c, NEW quote, NEW l \in Nat, l = Len(c), NEW b \in Nat, b = l + 2, NEW n \in Nat
    PROVE  \E g : Descends(g, kind, c, quote, b - n, b)
<1> DEFINE T == {j \in Nat : \E g : Descends(g, kind, c, quote, b - j, b)}
<1>1. 0 \in T
    <2>1. PICK e : e = IF kind = "close" THEN 0 ELSE <<>>
        OBVIOUS
    <2> DEFINE g == [i \in (b - 0)..b |-> e]
    <2>2. ASSUME NEW i \in (b - 0)..b PROVE Backward(kind, c, quote, g, i) = e
        <3>1. i > Len(c)
            OBVIOUS
        <3> QED BY ONLY <2>1, <3>1 DEF Backward
    <2>3. g = [i \in (b - 0)..b |-> Backward(kind, c, quote, g, i)]
        BY <2>2
    <2>4. Descends(g, kind, c, quote, b - 0, b)
        BY ONLY <2>3 DEF Descends
    <2> QED BY <2>4
<1>2. ASSUME NEW j \in T PROVE j + 1 \in T
    <2>1. PICK g : Descends(g, kind, c, quote, b - j, b)
        OBVIOUS
    <2>2. PICK a \in Int : a = b - j /\ a <= b /\ a - 1 = b - (j + 1)
        OBVIOUS
    <2> DEFINE r == [i \in (a - 1)..b |-> IF i = a - 1 THEN Backward(kind, c, quote, g, i) ELSE g[i]]
    <2>3. \A i \in a..b : g[i] = Backward(kind, c, quote, g, i)
        BY ONLY <2>1, <2>2 DEF Descends
    <2>4. \A i \in a..b : r[i] = g[i]
        <3>1. \A i \in a..b : i \in (a - 1)..b /\ i # a - 1
            BY ONLY a \in Int, b \in Nat
        <3> QED BY ONLY <3>1
    <2>5. ASSUME NEW i \in (a - 1)..b PROVE r[i] = Backward(kind, c, quote, r, i)
        <3>1. i \in Int /\ (i <= Len(c) => i + 1 \in a..b /\ i + 2 \in a..b)
            BY ONLY a \in Int, b \in Nat, l \in Nat, l = Len(c), b = l + 2, i \in (a - 1)..b
        <3>2. i <= Len(c) => g[i + 1] = r[i + 1] /\ g[i + 2] = r[i + 2]
            BY ONLY <2>4, <3>1
        <3>3. Backward(kind, c, quote, g, i) = Backward(kind, c, quote, r, i)
            <4> HIDE DEF r
            <4> QED BY ONLY <3>1, <3>2, l \in Nat, l = Len(c), BackwardSame
        <3>4. r[i] = Backward(kind, c, quote, g, i)
            <4>1. CASE i = a - 1
                BY ONLY <4>1, i \in (a - 1)..b
            <4>2. CASE i # a - 1
                <5>1. i \in a..b
                    BY ONLY <4>2, a \in Int, b \in Nat, i \in (a - 1)..b
                <5> QED BY ONLY <2>3, <2>4, <5>1
            <4> QED BY ONLY <4>1, <4>2
        <3> QED BY ONLY <3>3, <3>4
    <2>6. r = [i \in (a - 1)..b |-> r[i]]
        OBVIOUS
    <2> HIDE DEF r
    <2>7. Descends(r, kind, c, quote, a - 1, b)
        BY ONLY <2>5, <2>6, Zenon DEF Descends
    <2> QED BY <2>2, <2>7
<1>3. Nat \subseteq T
    <2> HIDE DEF T
    <2>1. T \subseteq Nat
        BY DEF T
    <2> QED BY <1>1, <1>2, <2>1, NatSets
<1> QED BY <1>3

\* What the two functions are.
CloseRec(f, rest, n) == f = [i \in 2..(n + 2) |-> IF i > n THEN 0
                                                  ELSE IF rest[i] # rest[1] THEN f[i + 1]
                                                  ELSE IF At(rest, i + 1) = rest[1] THEN f[i + 2]
                                                  ELSE i]
UndoubleRec(f, s, quote, n) ==
    f = [i \in 1..(n + 2) |-> IF i > n THEN <<>>
                              ELSE IF s[i] = quote /\ At(s, i + 1) = quote THEN <<quote>> \o f[i + 2]
                              ELSE <<s[i]>> \o f[i + 1]]

Closes(g, rest, n) ==
    \A i \in 2..(n + 2) : g[i] = IF i > n THEN 0
                                 ELSE IF rest[i] # rest[1] THEN g[i + 1]
                                 ELSE IF At(rest, i + 1) = rest[1] THEN g[i + 2]
                                 ELSE i
Undoubles(g, s, quote, n) ==
    \A i \in 1..(n + 2) : g[i] = IF i > n THEN <<>>
                                 ELSE IF s[i] = quote /\ At(s, i + 1) = quote THEN <<quote>> \o g[i + 2]
                                 ELSE <<s[i]>> \o g[i + 1]

LEMMA ClosingChain ==
    ASSUME NEW rest, NEW n \in Nat, n = Len(rest)
    PROVE  \E g : Closes(g, rest, n) /\ Closing(rest) = g[2]
<1>1. \E f : CloseRec(f, rest, n)
    <2>1. PICK b \in Nat : b = n + 2 /\ b - n = 2
        OBVIOUS
    <2>2. \E f : Descends(f, "close", rest, rest[1], b - n, b)
        BY ONLY <2>1, b \in Nat, n \in Nat, n = Len(rest), DescendExists
    <2>3. PICK f : Descends(f, "close", rest, rest[1], 2, n + 2)
        BY ONLY <2>1, <2>2
    <2>4. CloseRec(f, rest, n)
        BY ONLY <2>3, n = Len(rest) DEF Descends, CloseRec, Backward
    <2> QED BY ONLY <2>4
<1>2. PICK g : g = CHOOSE f : CloseRec(f, rest, n)
    OBVIOUS
<1>3. Closing(rest) = g[2]
    <2>1. Closing(rest) = (CHOOSE f : CloseRec(f, rest, Len(rest)))[2]
        BY DEF Closing, CloseRec
    <2> QED BY ONLY <1>2, <2>1, n = Len(rest)
<1>4. CloseRec(g, rest, n)
    BY ONLY <1>1, <1>2
<1>5. Closes(g, rest, n)
    BY ONLY <1>4 DEF CloseRec, Closes
<1> QED BY ONLY <1>3, <1>5

LEMMA UndoubleChain ==
    ASSUME NEW s, NEW quote, NEW n \in Nat, n = Len(s)
    PROVE  \E g : Undoubles(g, s, quote, n) /\ Undouble(s, quote) = g[1]
<1>1. \E f : UndoubleRec(f, s, quote, n)
    <2>1. PICK b \in Nat, m \in Nat : b = n + 2 /\ m = n + 1 /\ b - m = 1
        OBVIOUS
    <2>2. \E f : Descends(f, "undouble", s, quote, b - m, b)
        BY ONLY <2>1, b \in Nat, n \in Nat, m \in Nat, n = Len(s), DescendExists
    <2>3. PICK f : Descends(f, "undouble", s, quote, 1, n + 2)
        BY ONLY <2>1, <2>2
    <2>4. UndoubleRec(f, s, quote, n)
        BY ONLY <2>3, n = Len(s) DEF Descends, UndoubleRec, Backward
    <2> QED BY ONLY <2>4
<1>2. PICK g : g = CHOOSE f : UndoubleRec(f, s, quote, n)
    OBVIOUS
<1>3. Undouble(s, quote) = g[1]
    <2>1. Undouble(s, quote) = (CHOOSE f : UndoubleRec(f, s, quote, Len(s)))[1]
        BY DEF Undouble, UndoubleRec
    <2> QED BY ONLY <1>2, <2>1, n = Len(s)
<1>4. UndoubleRec(g, s, quote, n)
    BY ONLY <1>1, <1>2
<1>5. Undoubles(g, s, quote, n)
    BY ONLY <1>4 DEF UndoubleRec, Undoubles
<1> QED BY ONLY <1>3, <1>5

\* Where the symbols of s are in the quoted text.
Spread(s, quote, u, q, k, l) ==
    /\ Len(q[k - 1]) \in Nat
    /\ IF s[k] = quote THEN /\ Len(q[k]) = Len(q[k - 1]) + 2 /\ Len(q[k - 1]) + 2 <= l
                            /\ u[Len(q[k - 1]) + 1] = quote /\ u[Len(q[k - 1]) + 2] = quote
       ELSE Len(q[k]) = Len(q[k - 1]) + 1 /\ Len(q[k - 1]) + 1 <= l /\ u[Len(q[k - 1]) + 1] = s[k]

LEMMA QuotedSpread ==
    ASSUME NEW S, NEW s \in Seq(S), NEW quote \in S, NEW q, NEW m \in Nat, m = Len(s), Joins(q, Doubled(s, quote), m, S),
           NEW l, l = Len(q[m]), NEW k \in 1..m
    PROVE  Spread(s, quote, q[m], q, k, l)
<1>1. PICK p : p = Doubled(s, quote)
    OBVIOUS
<1>2. Placed(q, p, m, k, S)
    BY ONLY <1>1, Joins(q, Doubled(s, quote), m, S), m \in Nat, k \in 1..m, PieceHere
<1>3. PICK a \in Nat, u \in Seq(S) : a = Len(q[k - 1]) /\ u = q[m] /\ Here(u, a, p[k]) /\ Len(q[k]) = a + Len(p[k]) /\ l = Len(u)
    BY ONLY <1>2, l = Len(q[m]) DEF Placed
<1>4. p[k] = IF s[k] = quote THEN <<quote, quote>> ELSE <<s[k]>>
    <2>1. k \in DOMAIN s
        BY ONLY s \in Seq(S), m = Len(s), k \in 1..m
    <2> QED BY ONLY <1>1, <2>1 DEF Doubled
<1>5. CASE s[k] = quote
    <2>1. PICK x : x = p[k] /\ Len(x) = 2 /\ x[1] = quote /\ x[2] = quote
        <3>1. Len(<<quote, quote>>) = 2 /\ <<quote, quote>>[1] = quote /\ <<quote, quote>>[2] = quote
            OBVIOUS
        <3> QED BY ONLY <1>4, <1>5, <3>1
    <2>2. 1 \in 1..2 /\ 2 \in 1..2
        OBVIOUS
    <2>3. a + 2 <= l /\ u[a + 1] = quote /\ u[a + 2] = quote /\ Len(q[k]) = a + 2
        BY ONLY <1>3, <2>1, <2>2 DEF Here
    <2> QED BY ONLY <1>3, <1>5, <2>3, a \in Nat DEF Spread
<1>6. CASE s[k] # quote
    <2>1. PICK x : x = p[k] /\ Len(x) = 1 /\ x[1] = s[k]
        <3>1. Len(<<s[k]>>) = 1 /\ <<s[k]>>[1] = s[k]
            OBVIOUS
        <3> QED BY ONLY <1>4, <1>6, <3>1
    <2>2. 1 \in 1..1
        OBVIOUS
    <2>3. a + 1 <= l /\ u[a + 1] = s[k] /\ Len(q[k]) = a + 1
        BY ONLY <1>3, <2>1, <2>2 DEF Here
    <2> QED BY ONLY <1>3, <1>6, <2>3, a \in Nat DEF Spread
<1> QED BY ONLY <1>5, <1>6

\* A text between two quotes.
Between(x, u, quote, l) ==
    /\ Len(x) = l + 2 /\ DOMAIN x = 1..(l + 2) /\ x[1] = quote /\ x[l + 2] = quote
    /\ \A j \in 1..l : x[j + 1] = u[j]
    /\ SubSeq(x, 2, Len(x) - 1) = u

LEMMA BetweenQuotes ==
    ASSUME NEW S, NEW u \in Seq(S), NEW quote \in S, NEW l \in Nat, l = Len(u)
    PROVE  Between((<<quote>> \o u) \o <<quote>>, u, quote, l)
<1>1. PICK w \in Seq(S) : w = <<quote>> \o u /\ Len(w) = l + 1 /\ w[1] = quote /\ \A j \in 1..l : w[j + 1] = u[j]
    <2>1. /\ <<quote>> \o u \in Seq(S) /\ Len(<<quote>> \o u) = l + 1 /\ (<<quote>> \o u)[1] = quote
          /\ \A i \in 1..l : (<<quote>> \o u)[i + 1] = u[i]
        BY Prepended
    <2> QED BY ONLY <2>1
<1>2. PICK x \in Seq(S) : x = w \o <<quote>> /\ Len(x) = l + 2 /\ x[l + 2] = quote /\ \A j \in 1..(l + 1) : x[j] = w[j]
    <2>0. PICK k \in Nat : k = l + 1 /\ k + 1 = l + 2
        OBVIOUS
    <2>1. /\ w \o <<quote>> \in Seq(S) /\ Len(w \o <<quote>>) = k + 1 /\ (w \o <<quote>>)[k + 1] = quote
          /\ \A i \in 1..k : (w \o <<quote>>)[i] = w[i]
        BY ONLY <1>1, <2>0, k \in Nat, w \in Seq(S), quote \in S, Appended
    <2> QED BY ONLY <2>0, <2>1
<1>3. DOMAIN x = 1..(l + 2) /\ x[1] = quote
    <2>1. 1 \in 1..(l + 1)
        OBVIOUS
    <2>2. DOMAIN x = 1..(l + 2)
        BY ONLY <1>2, x \in Seq(S)
    <2> QED BY ONLY <1>1, <1>2, <2>1, <2>2
<1>4. \A j \in 1..l : x[j + 1] = u[j]
    <2>1. \A j \in 1..l : j + 1 \in 1..(l + 1)
        OBVIOUS
    <2> QED BY ONLY <1>1, <1>2, <2>1
<1>5. SubSeq(x, 2, Len(x) - 1) = u
    <2>1. Len(x) - 1 = l + 1 /\ (l + 1) - 2 + 1 = l
        BY ONLY <1>2, l \in Nat
    <2>2. PICK v \in Seq(S) : v = SubSeq(x, 2, l + 1) /\ Len(v) = l /\ \A j \in 1..l : v[j] = x[j + 1]
        <3>1. SubSeq(x, 2, l + 1) \in Seq(S) /\ Len(SubSeq(x, 2, l + 1)) = l /\ \A j \in 1..l : SubSeq(x, 2, l + 1)[j] = x[j + 1]
            BY ONLY <1>2, x \in Seq(S), l \in Nat
        <3> QED BY ONLY <3>1
    <2>3. v = u
        BY ONLY <1>4, <2>2, u \in Seq(S), v \in Seq(S), l \in Nat, l = Len(u)
    <2> QED BY ONLY <2>1, <2>2, <2>3
<1> QED BY ONLY <1>1, <1>2, <1>3, <1>4, <1>5 DEF Between

\* x is s between quotes, by the pieces q of it.
QuotedBy(x, s, quote, q, m, l, S) ==
    /\ s \in Seq(S) /\ quote \in S /\ quote # NoSym /\ m \in Nat /\ m = Len(s)
    /\ Joins(q, Doubled(s, quote), m, S) /\ l \in Nat /\ l = Len(q[m]) /\ Between(x, q[m], quote, l)

\* The closing quote of a quoted text is its last symbol.
LEMMA QuotedCloses ==
    ASSUME NEW x, NEW s, NEW quote, NEW q, NEW m, NEW l, NEW S, QuotedBy(x, s, quote, q, m, l, S)
    PROVE  Closing(x) = Len(x)
<1>0. /\ s \in Seq(S) /\ quote \in S /\ quote # NoSym /\ m \in Nat /\ m = Len(s)
      /\ Joins(q, Doubled(s, quote), m, S) /\ l \in Nat /\ l = Len(q[m]) /\ Between(x, q[m], quote, l)
    BY DEF QuotedBy
<1>1. PICK n \in Nat : n = l + 2 /\ n = Len(x) /\ DOMAIN x = 1..n
    BY <1>0 DEF Between
<1>2. \E g : Closes(g, x, n) /\ Closing(x) = g[2]
    BY ONLY <1>1, n \in Nat, ClosingChain
<1>3. PICK g : Closes(g, x, n) /\ Closing(x) = g[2]
    BY ONLY <1>2
<1>4. \A i \in 2..n : g[i] = IF x[i] # quote THEN g[i + 1] ELSE IF At(x, i + 1) = quote THEN g[i + 2] ELSE i
    <2>1. x[1] = quote
        BY <1>0 DEF Between
    <2>2. \A i \in 2..n : i \in 2..(n + 2) /\ ~(i > n)
        BY ONLY n \in Nat
    <2> QED BY ONLY <1>3, <2>1, <2>2 DEF Closes
<1>5. \A j \in 1..l : j + 1 \in 2..n /\ x[j + 1] = q[m][j] /\ At(x, j + 1) = q[m][j]
    <2>1. \A j \in 1..l : j + 1 \in 2..n /\ j + 1 \in 1..n
        BY ONLY <1>1, <1>0, n \in Nat
    <2>2. \A j \in 1..l : x[j + 1] = q[m][j]
        BY <1>0 DEF Between
    <2> QED BY ONLY <1>1, <2>1, <2>2 DEF At
<1> DEFINE T == {k \in Nat : k <= m => Len(q[k]) \in Nat /\ g[Len(q[k]) + 2] = g[2]}
<1>6. 0 \in T
    <2>1. Len(q[0]) = 0 /\ 0 + 2 = 2
        <3>1. q[0] = <<>>
            BY <1>0 DEF Joins
        <3> QED BY ONLY <3>1
    <2> QED BY ONLY <2>1
<1>7. ASSUME NEW k \in T PROVE k + 1 \in T
    <2>1. SUFFICES ASSUME k + 1 <= m PROVE Len(q[k + 1]) \in Nat /\ g[Len(q[k + 1]) + 2] = g[2]
        OBVIOUS
    <2>2. PICK i \in 1..m : i = k + 1 /\ i - 1 = k
        BY <1>0, <2>1
    <2>3. g[Len(q[i - 1]) + 2] = g[2]
        BY <1>0, <2>1, <2>2
    <2>4. Spread(s, quote, q[m], q, i, l)
        BY <1>0, QuotedSpread
    <2>5. PICK a \in Nat : a = Len(q[i - 1])
        BY ONLY <2>4 DEF Spread
    <2>6. CASE s[i] = quote
        <3>1. Len(q[i]) = a + 2 /\ a + 2 <= l /\ q[m][a + 1] = quote /\ q[m][a + 2] = quote
            BY ONLY <2>4, <2>5, <2>6 DEF Spread
        <3>2. a + 1 \in 1..l /\ a + 2 \in 1..l /\ (a + 1) + 1 = a + 2 /\ (a + 2) + 1 = (a + 2) + 1 /\ (a + 2) + 2 = a + 4
            BY ONLY <3>1, a \in Nat, <1>0
        <3>3. a + 2 \in 2..n /\ x[a + 2] = quote /\ At(x, (a + 2) + 1) = quote
            BY ONLY <1>5, <3>1, <3>2
        <3>4. g[a + 2] = g[(a + 2) + 2]
            BY ONLY <1>4, <3>3
        <3> QED BY ONLY <2>2, <2>3, <2>5, <3>1, <3>4, a \in Nat
    <2>7. CASE s[i] # quote
        <3>1. Len(q[i]) = a + 1 /\ a + 1 <= l /\ q[m][a + 1] # quote
            BY ONLY <2>4, <2>5, <2>7 DEF Spread
        <3>2. a + 1 \in 1..l /\ (a + 1) + 1 = a + 2 /\ (a + 1) + 2 = (a + 2) + 1
            BY ONLY <3>1, a \in Nat, <1>0
        <3>3. a + 2 \in 2..n /\ x[a + 2] # quote
            BY ONLY <1>5, <3>1, <3>2
        <3>4. g[a + 2] = g[(a + 2) + 1]
            BY ONLY <1>4, <3>3
        <3> QED BY ONLY <2>2, <2>3, <2>5, <3>1, <3>2, <3>4, a \in Nat
    <2> QED BY ONLY <2>6, <2>7
<1>8. Nat \subseteq T
    <2> HIDE DEF T
    <2>1. T \subseteq Nat
        BY DEF T
    <2> QED BY <1>6, <1>7, <2>1, NatSets
<1>9. g[n] = g[2]
    BY <1>0, <1>1, <1>8
<1>10. g[n] = n
    <2>1. n \in 2..n /\ n + 1 \notin 1..n
        BY ONLY <1>1, <1>0, n \in Nat
    <2>2. x[n] = quote
        BY ONLY <1>1, <1>0 DEF Between
    <2>3. At(x, n + 1) # quote
        BY ONLY <1>1, <2>1, <1>0 DEF At
    <2> QED BY ONLY <1>4, <2>1, <2>2, <2>3
<1> QED BY ONLY <1>1, <1>3, <1>9, <1>10

\* What is between the quotes reads back.
LEMMA RestOf ==
    ASSUME NEW S, NEW s \in Seq(S), NEW m \in Nat, m = Len(s), NEW k \in 1..m
    PROVE  <<s[k]>> \o SubSeq(s, k + 1, m) = SubSeq(s, k, m)
OBVIOUS

LEMMA QuotedUndoubles ==
    ASSUME NEW S, NEW s \in Seq(S), NEW quote \in S, NEW q, NEW m \in Nat, m = Len(s),
           Joins(q, Doubled(s, quote), m, S), NEW l \in Nat, l = Len(q[m])
    PROVE  Undouble(q[m], quote) = s
<1>1. PICK u \in Seq(S) : u = q[m] /\ l = Len(u) /\ DOMAIN u = 1..l
    <2>1. m \in 0..m
        OBVIOUS
    <2>2. q[m] \in Seq(S)
        BY ONLY <2>1, m \in Nat, Joins(q, Doubled(s, quote), m, S), JoinsType
    <2>3. PICK u \in Seq(S) : u = q[m] /\ l = Len(u)
        BY ONLY <2>2, l = Len(q[m])
    <2>4. DOMAIN u = 1..l
        BY ONLY <2>3, u \in Seq(S)
    <2> QED BY ONLY <2>3, <2>4, u \in Seq(S)
<1>2. \E g : Undoubles(g, u, quote, l) /\ Undouble(u, quote) = g[1]
    BY ONLY <1>1, l \in Nat, UndoubleChain
<1>3. PICK g : Undoubles(g, u, quote, l) /\ Undouble(u, quote) = g[1]
    BY ONLY <1>2
<1>4. \A i \in 1..l : g[i] = IF u[i] = quote /\ At(u, i + 1) = quote THEN <<quote>> \o g[i + 2] ELSE <<u[i]>> \o g[i + 1]
    <2>1. \A i \in 1..l : i \in 1..(l + 2) /\ ~(i > l)
        BY ONLY l \in Nat
    <2> QED BY ONLY <1>3, <2>1 DEF Undoubles
<1> DEFINE T == {k \in Nat : k <= m => g[Len(q[m - k]) + 1] = SubSeq(s, m - k + 1, m)}
<1>5. 0 \in T
    <2>1. m - 0 = m /\ l + 1 \in 1..(l + 2) /\ l + 1 > l
        OBVIOUS
    <2>2. g[l + 1] = <<>>
        BY ONLY <1>3, <2>1 DEF Undoubles
    <2>3. SubSeq(s, m + 1, m) = <<>>
        OBVIOUS
    <2>4. g[Len(q[m - 0]) + 1] = SubSeq(s, m - 0 + 1, m)
        BY ONLY <2>1, <2>2, <2>3, l = Len(q[m])
    <2> QED BY ONLY <2>4
<1>6. ASSUME NEW k \in T PROVE k + 1 \in T
    <2>1. SUFFICES ASSUME k + 1 <= m PROVE g[Len(q[m - (k + 1)]) + 1] = SubSeq(s, m - (k + 1) + 1, m)
        OBVIOUS
    <2>2. PICK i \in 1..m : i = m - k /\ i - 1 = m - (k + 1) /\ m - (k + 1) + 1 = i /\ m - k + 1 = i + 1
        BY <2>1
    <2>3. g[Len(q[i]) + 1] = SubSeq(s, i + 1, m)
        BY <2>1, <2>2
    <2>4. Spread(s, quote, u, q, i, l)
        <3>1. Spread(s, quote, q[m], q, i, l)
            BY QuotedSpread
        <3> QED BY ONLY <1>1, <3>1
    <2>5. PICK a \in Nat : a = Len(q[i - 1])
        BY ONLY <2>4 DEF Spread
    <2>6. g[a + 1] = <<s[i]>> \o SubSeq(s, i + 1, m)
        <3>1. CASE s[i] = quote
            <4>1. Len(q[i]) = a + 2 /\ a + 2 <= l /\ u[a + 1] = quote /\ u[a + 2] = quote
                BY ONLY <2>4, <2>5, <3>1 DEF Spread
            <4>2. a + 1 \in 1..l /\ a + 2 \in 1..l /\ (a + 1) + 1 = a + 2 /\ (a + 1) + 2 = (a + 2) + 1
                BY ONLY <4>1, a \in Nat, l \in Nat
            <4>3. At(u, (a + 1) + 1) = quote
                BY ONLY <1>1, <4>1, <4>2 DEF At
            <4>4. g[a + 1] = <<quote>> \o g[(a + 2) + 1]
                BY ONLY <1>4, <4>1, <4>2, <4>3
            <4> QED BY ONLY <2>3, <3>1, <4>1, <4>4
        <3>2. CASE s[i] # quote
            <4>1. Len(q[i]) = a + 1 /\ a + 1 <= l /\ u[a + 1] = s[i]
                BY ONLY <2>4, <2>5, <3>2 DEF Spread
            <4>2. a + 1 \in 1..l
                BY ONLY <4>1, a \in Nat, l \in Nat
            <4>3. g[a + 1] = <<s[i]>> \o g[(a + 1) + 1]
                BY ONLY <1>4, <3>2, <4>1, <4>2
            <4> QED BY ONLY <2>3, <4>1, <4>3
        <3> QED BY ONLY <3>1, <3>2
    <2>7. <<s[i]>> \o SubSeq(s, i + 1, m) = SubSeq(s, i, m)
        BY RestOf
    <2> QED BY ONLY <2>2, <2>5, <2>6, <2>7
<1>7. Nat \subseteq T
    <2> HIDE DEF T
    <2>1. T \subseteq Nat
        BY DEF T
    <2> QED BY <1>5, <1>6, <2>1, NatSets
<1>8. g[Len(q[0]) + 1] = SubSeq(s, 1, m)
    <2>1. m \in T /\ m - m = 0 /\ m - m + 1 = 1
        BY ONLY <1>7, m \in Nat
    <2> QED BY ONLY <2>1
<1>9. Len(q[0]) + 1 = 1
    <2>1. q[0] = <<>>
        BY DEF Joins
    <2> QED BY ONLY <2>1
<1>10. SubSeq(s, 1, m) = s
    BY ONLY s \in Seq(S), m = Len(s)
<1> QED BY ONLY <1>1, <1>3, <1>8, <1>9, <1>10

\* A quoted text reads back.
ReadsBack(x, s, quote) == Closing(x) = Len(x) /\ Undouble(SubSeq(x, 2, Len(x) - 1), quote) = s

LEMMA QuotedReadsBack ==
    ASSUME NEW S, NEW s \in Seq(S), NEW quote \in S, quote # NoSym
    PROVE  ReadsBack(Quoted(s, quote), s, quote)
<1>1. \E q : QuotedVia(q, s, quote, S)
    BY QuotedChain
<1>2. PICK q : QuotedVia(q, s, quote, S)
    BY ONLY <1>1
<1>3. PICK m \in Nat : m = Len(s)
    OBVIOUS
<1>4. /\ Joins(q, Doubled(s, quote), m, S) /\ q[m] \in Seq(S)
      /\ Quoted(s, quote) = (<<quote>> \o q[m]) \o <<quote>>
    BY ONLY <1>2, <1>3 DEF QuotedVia
<1>5. PICK l \in Nat, x \in {Quoted(s, quote)} : l = Len(q[m]) /\ x = Quoted(s, quote) /\ Between(x, q[m], quote, l)
    <2>1. PICK l \in Nat : l = Len(q[m])
        BY ONLY <1>4
    <2>2. Between((<<quote>> \o q[m]) \o <<quote>>, q[m], quote, l)
        BY ONLY <1>4, <2>1, quote \in S, BetweenQuotes
    <2> QED BY ONLY <1>4, <2>1, <2>2
<1>6. Closing(x) = Len(x)
    <2>1. QuotedBy(x, s, quote, q, m, l, S)
        BY ONLY <1>3, <1>4, <1>5, s \in Seq(S), quote \in S, quote # NoSym DEF QuotedBy
    <2> QED BY ONLY <2>1, QuotedCloses
<1>7. Undouble(q[m], quote) = s
    BY ONLY <1>3, <1>4, <1>5, s \in Seq(S), quote \in S, QuotedUndoubles
<1>8. SubSeq(x, 2, Len(x) - 1) = q[m]
    BY ONLY <1>5 DEF Between
<1> QED BY ONLY <1>5, <1>6, <1>7, <1>8 DEF ReadsBack

(***************************************************************************)
(* Interpolated arguments.                                                 *)
(***************************************************************************)
Arguments(args, S) == \A k \in 1..Len(args) : Argument(args[k], S)

LEMMA PiecesAre ==
    ASSUME NEW S, Alphabet(S), NEW q \in Seq(S), NEW n \in Nat, n = Len(q), NEW args, Arguments(args, S),
           CountPlaceholders(q) = Len(args), NEW i \in 1..n
    PROVE  /\ Pieces(q, args)[i] \in Seq(S)
           /\ IF PlaceholderAt(q, Scan(q), i)
              THEN /\ Pieces(q, args)[i] = Literal(args[Counts(q)[i]]) /\ Argument(args[Counts(q)[i]], S)
                   /\ LiteralIs(Pieces(q, args)[i], args[Counts(q)[i]], S)
              ELSE Pieces(q, args)[i] = <<q[i]>>
<1>1. PICK f, c : f = Scan(q) /\ c = Counts(q)
    OBVIOUS
<1>2. Scans(q, f, c)
    BY ONLY <1>1, q \in Seq(S), ScanChain
<1>3. i \in DOMAIN q /\ q[i] \in S
    OBVIOUS
<1>4. Pieces(q, args)[i] = IF PlaceholderAt(q, f, i) THEN Literal(args[c[i]]) ELSE <<q[i]>>
    BY ONLY <1>1, <1>3 DEF Pieces
<1>5. CASE PlaceholderAt(q, f, i)
    <2>1. c[n] = Len(args)
        BY ONLY <1>1, n = Len(q), CountPlaceholders(q) = Len(args) DEF CountPlaceholders
    <2>2. \A k \in 1..n : PlaceholderAt(q, f, k) => c[k] \in 1..c[n]
        BY ONLY <1>2, n \in Nat, n = Len(q), CountsGrow
    <2>3. c[i] \in 1..Len(args)
        BY ONLY <1>5, <2>1, <2>2, i \in 1..n
    <2>4. Argument(args[c[i]], S)
        BY ONLY <2>3, Arguments(args, S) DEF Arguments
    <2>5. LiteralIs(Literal(args[c[i]]), args[c[i]], S)
        BY ONLY <2>4, Alphabet(S), LiteralGoes
    <2>6. Literal(args[c[i]]) \in Seq(S)
        BY ONLY <2>5 DEF LiteralIs
    <2> QED BY ONLY <1>1, <1>4, <1>5, <2>4, <2>5, <2>6
<1>6. CASE ~PlaceholderAt(q, f, i)
    <2>1. <<q[i]>> \in Seq(S)
        BY ONLY <1>3
    <2> QED BY ONLY <1>1, <1>4, <1>6, <2>1
<1> QED BY ONLY <1>5, <1>6

\* The pieces in a row are the text.
LEMMA PiecesJoined ==
    ASSUME NEW S, Alphabet(S), NEW q \in Seq(S), NEW n \in Nat, n = Len(q), NEW args, Arguments(args, S),
           CountPlaceholders(q) = Len(args), NEW p, p = Pieces(q, args)
    PROVE  /\ p \in Seq(Seq(S)) /\ Len(p) = n
           /\ \E r : Joins(r, p, n, S) /\ FlattenSeq(p) = r[n]
<1>1. \A i \in 1..n : p[i] \in Seq(S)
    <2>1. ASSUME NEW i \in 1..n PROVE Pieces(q, args)[i] \in Seq(S)
        BY PiecesAre
    <2> QED BY ONLY <2>1, p = Pieces(q, args)
<1>2. DOMAIN q = 1..n
    OBVIOUS
<1>3. PICK u : u = [i \in 1..n |-> p[i]]
    OBVIOUS
<1>4. p = u
    <2>1. \A i \in 1..n : Pieces(q, args)[i] = p[i]
        BY ONLY p = Pieces(q, args)
    <2>2. p = [i \in 1..n |-> p[i]]
        BY <1>2 DEF Pieces
    <2> QED BY ONLY <1>3, <2>2
<1>5. u \in Seq(Seq(S)) /\ Len(u) = n /\ DOMAIN u = 1..n
    BY ONLY <1>1, <1>3, n \in Nat
<1>6. DOMAIN p = 1..n /\ Len(p) = n
    BY ONLY <1>4, <1>5
<1>7. \E r : Joins(r, p, n, S) /\ FlattenSeq(p) = r[n]
    BY ONLY <1>1, <1>6, n \in Nat, FlattenChain
<1> QED BY ONLY <1>4, <1>5, <1>6, <1>7

\* Interpolated arguments stay whole in every text, whatever the arguments are.
THEOREM InterpolationStaysWhole ==
    ASSUME NEW S, Alphabet(S), NEW q \in Seq(S), NEW args, Arguments(args, S)
    PROVE  StaysWhole(q, args)
<1> DEFINE f == Scan(q)
           c == Counts(q)
           holes == {i \in DOMAIN q : PlaceholderAt(q, f, i)}
           p == Pieces(q, args)
           t == InterpolateParams(q, args)
           g == Scan(t)
           New(i) == Len(FlattenSeq(SubSeq(p, 1, i - 1))) + 1
           Cleared == \A i \in DOMAIN q : g[New(i)] = f[i]
           Restored == \A i \in holes : args[c[i]].kind = "string" =>
                           /\ Closing(p[i]) = Len(p[i])
                           /\ Undouble(SubSeq(p[i], 2, Len(p[i]) - 1), "'") = args[c[i]].text
<1>1. CASE CountPlaceholders(q) # Len(args)
    <2>1. t = Refused
        BY <1>1 DEF InterpolateParams
    <2> QED BY <1>1, <2>1 DEF StaysWhole
<1>2. ASSUME CountPlaceholders(q) = Len(args), \A i \in holes : ~Glued(q, i, args[c[i]])
      PROVE  Cleared /\ CountPlaceholders(t) = 0 /\ Restored
    <2>1. PICK n \in Nat : n = Len(q) /\ DOMAIN q = 1..n
        OBVIOUS
    <2>2. PICK v : v = p
        OBVIOUS
    <2>3. /\ v \in Seq(Seq(S)) /\ Len(v) = n
          /\ \E r : Joins(r, v, n, S) /\ FlattenSeq(v) = r[n]
        BY ONLY <1>2, <2>1, <2>2, n \in Nat, Alphabet(S), q \in Seq(S), Arguments(args, S), PiecesJoined
    <2>4. PICK r : Joins(r, v, n, S) /\ FlattenSeq(v) = r[n]
        BY ONLY <2>3
    <2>5. t = r[n]
        BY ONLY <1>2, <2>2, <2>4 DEF InterpolateParams
    <2>6. Interpolated(q, args, f, c, v, r, n, S)
        <3>1. Scans(q, f, c)
            BY ONLY q \in Seq(S), ScanChain
        <3>2. ASSUME NEW i \in 1..n
              PROVE  IF PlaceholderAt(q, f, i) THEN LiteralIs(v[i], args[c[i]], S) /\ ~Glued(q, i, args[c[i]])
                     ELSE v[i] = <<q[i]>>
            <4>1. IF PlaceholderAt(q, Scan(q), i)
                  THEN LiteralIs(Pieces(q, args)[i], args[Counts(q)[i]], S)
                  ELSE Pieces(q, args)[i] = <<q[i]>>
                BY ONLY <1>2, <2>1, n \in Nat, i \in 1..n, Alphabet(S), q \in Seq(S), Arguments(args, S), PiecesAre
            <4>2. PlaceholderAt(q, f, i) => ~Glued(q, i, args[c[i]])
                BY ONLY <1>2, <2>1, i \in 1..n
            <4> QED BY ONLY <2>2, <4>1, <4>2
        <3> QED BY ONLY <2>1, <2>4, <3>1, <3>2, q \in Seq(S), n \in Nat DEF Interpolated
    <2>7. PICK e : e = Counts(t)
        OBVIOUS
    <2>8. Scans(r[n], g, e)
        <3>1. n \in 0..n
            OBVIOUS
        <3>2. r[n] \in Seq(S)
            BY ONLY <2>4, <3>1, n \in Nat, JoinsType
        <3>3. Scans(r[n], Scan(r[n]), Counts(r[n]))
            BY ONLY <3>2, ScanChain
        <3> QED BY ONLY <2>5, <2>7, <3>3
    <2>9. \A i \in 0..n : Keeps(i, f, r, g, e)
        <3> HIDE DEF f, c, g
        <3> QED BY ONLY <2>6, <2>8, InterpolationKeeps
    <2>10. CountPlaceholders(t) = 0
        <3>1. n \in 0..n
            OBVIOUS
        <3>2. e[Len(r[n])] = 0
            BY ONLY <2>9, <3>1 DEF Keeps
        <3> QED BY ONLY <2>5, <2>7, <3>2 DEF CountPlaceholders
    <2>11. ASSUME NEW i \in DOMAIN q PROVE g[New(i)] = f[i]
        <3>1. PICK m \in Nat : m = i - 1 /\ m <= n /\ m \in 0..n /\ m + 1 = i
            BY ONLY <2>1, n \in Nat, i \in DOMAIN q
        <3>2. FlattenSeq(SubSeq(v, 1, m)) = r[m]
            BY ONLY <2>3, <2>4, <3>1, n \in Nat, m \in Nat, FlattenFront
        <3>3. g[Len(r[m]) + 1] = f[m + 1]
            BY ONLY <2>9, <3>1 DEF Keeps
        <3>4. New(i) = Len(r[m]) + 1
            BY ONLY <2>2, <3>1, <3>2
        <3> HIDE DEF g, f, New
        <3> QED BY ONLY <3>1, <3>3, <3>4
    <2>12. ASSUME NEW i \in holes, args[c[i]].kind = "string"
           PROVE  Closing(p[i]) = Len(p[i]) /\ Undouble(SubSeq(p[i], 2, Len(p[i]) - 1), "'") = args[c[i]].text
        <3>1. i \in 1..n /\ PlaceholderAt(q, Scan(q), i)
            BY ONLY <2>1, i \in holes
        <3>2. Pieces(q, args)[i] = Literal(args[Counts(q)[i]]) /\ Argument(args[Counts(q)[i]], S)
            BY ONLY <1>2, <2>1, <3>1, n \in Nat, Alphabet(S), q \in Seq(S), Arguments(args, S), PiecesAre
        <3>3. PICK arg : arg = args[Counts(q)[i]] /\ arg.kind = "string" /\ arg.text \in Seq(S)
            BY ONLY <2>12, <3>2 DEF Argument
        <3>4. p[i] = Quoted(arg.text, "'")
            BY ONLY <3>2, <3>3 DEF Literal, QuoteString
        <3>5. ReadsBack(Quoted(arg.text, "'"), arg.text, "'")
            <4>1. "'" \in S /\ "'" # NoSym
                BY DEF Alphabet, NoSym
            <4> QED BY ONLY <3>3, <4>1, QuotedReadsBack
        <3> QED BY ONLY <3>3, <3>4, <3>5 DEF ReadsBack
    <2> QED BY <2>10, <2>11, <2>12
<1>3. CASE CountPlaceholders(q) = Len(args)
    <2>1. (\A i \in holes : ~Glued(q, i, args[c[i]])) => Cleared /\ CountPlaceholders(t) = 0 /\ Restored
        BY <1>2, <1>3
    <2> QED BY ONLY <1>3, <2>1 DEF StaysWhole
<1> QED BY <1>1, <1>3

(***************************************************************************)
(* The text of an INSERT.                                                  *)
(***************************************************************************)
LEMMA FrontGrows ==
    ASSUME NEW S, NEW x \in Seq(S), NEW n \in Nat, n = Len(x), NEW i \in 1..n
    PROVE  SubSeq(x, 1, i) = SubSeq(x, 1, i - 1) \o <<x[i]>>
OBVIOUS

\* Words and punctuation.
LEMMA WordGoes ==
    ASSUME NEW S, NEW x \in Seq(S), \A i \in 1..Len(x) : x[i] \in Dull
    PROVE  Goes(x, "normal", "normal", 0, {})
<1>1. PICK n \in Nat : n = Len(x)
    OBVIOUS
<1>2. PICK p, q : p = [i \in 1..n |-> <<x[i]>>] /\ q = [i \in 0..n |-> SubSeq(x, 1, i)]
    OBVIOUS
<1>3. q[0] = <<>> /\ q[n] = x
    <2>1. 0 \in 0..n /\ n \in 0..n
        OBVIOUS
    <2>2. SubSeq(x, 1, 0) = <<>> /\ SubSeq(x, 1, n) = x
        BY ONLY <1>1, x \in Seq(S)
    <2> QED BY ONLY <1>2, <2>1, <2>2
<1>4. ASSUME NEW i \in 1..n PROVE p[i] \in Seq(S) /\ q[i] = q[i - 1] \o p[i] /\ Goes(p[i], "normal", "normal", 0, {})
    <2>1. i \in 0..n /\ i - 1 \in 0..n /\ i \in 1..Len(x) /\ x[i] \in S /\ x[i] \in Dull
        BY <1>1
    <2>2. p[i] = <<x[i]>> /\ q[i] = SubSeq(x, 1, i) /\ q[i - 1] = SubSeq(x, 1, i - 1)
        BY ONLY <1>2, <2>1, i \in 1..n
    <2>3. SubSeq(x, 1, i) = SubSeq(x, 1, i - 1) \o <<x[i]>>
        BY ONLY <1>1, x \in Seq(S), n \in Nat, i \in 1..n, FrontGrows
    <2>4. <<x[i]>> \in Seq(S)
        BY ONLY <2>1
    <2>5. Goes(<<x[i]>>, "normal", "normal", 0, {})
        BY ONLY <2>1, Symbols1, Zenon
    <2> QED BY ONLY <2>2, <2>3, <2>4, <2>5
<1>5. Joins(q, p, n, S)
    BY ONLY <1>3, <1>4 DEF Joins
<1>6. Goes(q[n], "normal", "normal", n * 0, {})
    <2>1. \A i \in 1..n : Goes(p[i], "normal", "normal", 0, {})
        BY ONLY <1>4
    <2>2. 0 \in Nat
        OBVIOUS
    <2> QED BY ONLY <1>5, <2>1, <2>2, n \in Nat, GoesChain
<1>7. n * 0 = 0
    OBVIOUS
<1> QED BY ONLY <1>3, <1>6, <1>7

\* A name, quoted or not.
LEMMA NameGoes ==
    ASSUME NEW S, Alphabet(S), NEW s \in Seq(S)
    PROVE  /\ Goes(QuoteIdent(s), "normal", "normal", 0, {}) /\ QuoteIdent(s) \in Seq(S)
           /\ QuoteIdent(s) # s => ReadsBack(QuoteIdent(s), s, "\"")
<1>1. "\"" \in S /\ "\"" # NoSym
    BY DEF Alphabet, NoSym
<1>2. CASE IsSimpleIdent(s)
    <2>1. QuoteIdent(s) = s
        BY ONLY <1>2 DEF QuoteIdent
    <2>2. \A i \in 1..Len(s) : s[i] \in Dull
        <3>1. \A i \in 1..Len(s) : i \in DOMAIN s
            OBVIOUS
        <3>2. Alpha \cup Digit \cup {"_"} \subseteq Dull
            BY ONLY TRUE DEF Alpha, Digit, Dull
        <3> QED BY ONLY <1>2, <3>1, <3>2 DEF IsSimpleIdent
    <2>3. Goes(s, "normal", "normal", 0, {})
        BY ONLY <2>2, s \in Seq(S), WordGoes
    <2> QED BY ONLY <2>1, <2>3, s \in Seq(S)
<1>3. CASE ~IsSimpleIdent(s)
    <2>1. QuoteIdent(s) = Quoted(s, "\"")
        BY ONLY <1>3 DEF QuoteIdent
    <2>2. /\ Goes(<<"\"">>, "normal", "double", 0, {}) /\ Goes(<<"\"">>, "double", "normal", 0, {})
          /\ \A a : a # "\"" => Goes(<<a>>, "double", "double", 0, {})
        BY ONLY Symbols1, Zenon
    <2>3. Goes(<<"\"", "\"">>, "double", "double", 0, {})
        <3>1. PICK z \in Nat : z = 0 /\ z + z = z
            OBVIOUS
        <3>2. PICK a \in S : a = "\""
            BY ONLY <1>1
        <3>3. <<a>> \in Seq(S) /\ <<a>> \o <<a>> = <<a, a>>
            BY ONLY a \in S, Single1, Pair
        <3>4. Goes(<<a>>, "double", "normal", z, {}) /\ Goes(<<a>>, "normal", "double", z, {})
            BY ONLY <2>2, <3>1, <3>2
        <3>5. Goes(<<a>> \o <<a>>, "double", "double", z + z, {})
            BY ONLY <3>3, <3>4, z \in Nat, GoesJoin
        <3> QED BY ONLY <3>1, <3>2, <3>3, <3>5
    <2>4. Goes(Quoted(s, "\""), "normal", "normal", 0, {}) /\ Quoted(s, "\"") \in Seq(S)
        BY ONLY <1>1, <2>2, <2>3, s \in Seq(S), QuotedGoes
    <2>5. ReadsBack(Quoted(s, "\""), s, "\"")
        BY ONLY <1>1, s \in Seq(S), QuotedReadsBack
    <2> QED BY ONLY <2>1, <2>4, <2>5
<1> QED BY ONLY <1>2, <1>3

\* Two texts in a row that mind no follower.
LEMMA GoesBoth ==
    ASSUME NEW S, NEW x \in Seq(S), NEW y \in Seq(S), NEW k \in Nat, NEW m \in Nat,
           Goes(x, "normal", "normal", k, {}), Goes(y, "normal", "normal", m, {})
    PROVE  Goes(x \o y, "normal", "normal", k + m, {}) /\ x \o y \in Seq(S)
<1>1. x \o y \in Seq(S)
    OBVIOUS
<1>2. Goes(x \o y, "normal", "normal", k + m, {})
    BY GoesJoin
<1> QED BY ONLY <1>1, <1>2

\* Items between commas.
LEMMA ListedGoes ==
    ASSUME NEW S, Alphabet(S), NEW items, NEW n \in Nat, DOMAIN items = 1..n, NEW k \in Nat,
           \A i \in 1..n : items[i] \in Seq(S) /\ Goes(items[i], "normal", "normal", k, {})
    PROVE  Goes(Listed(items), "normal", "normal", n * k, {}) /\ Listed(items) \in Seq(S)
<1>1. PICK p : p = [i \in 1..n |-> IF i = 1 THEN items[i] ELSE <<",", " ">> \o items[i]]
    OBVIOUS
<1>2. PICK w \in Seq(S) : w = <<",", " ">> /\ Goes(w, "normal", "normal", 0, {})
    <2>1. PICK a \in S, b \in S : a = "," /\ b = " "
        BY DEF Alphabet
    <2>2. PICK w \in Seq(S) : w = <<a, b>> /\ Len(w) = 2 /\ w[1] = a /\ w[2] = b
        <3>1. <<a, b>> \in Seq(S) /\ Len(<<a, b>>) = 2 /\ <<a, b>>[1] = a /\ <<a, b>>[2] = b
            BY ONLY a \in S, b \in S
        <3> QED BY ONLY <3>1
    <2>3. a \in Dull /\ b \in Dull
        BY ONLY <2>1 DEF Dull
    <2>4. \A i \in 1..2 : w[i] \in Dull
        BY ONLY <2>2, <2>3
    <2>5. Goes(w, "normal", "normal", 0, {})
        BY ONLY <2>2, <2>4, w \in Seq(S), WordGoes
    <2> QED BY ONLY <2>1, <2>2, <2>5, w \in Seq(S)
<1>3. ASSUME NEW i \in 1..n PROVE p[i] \in Seq(S) /\ Goes(p[i], "normal", "normal", k, {})
    <2>1. PICK y \in Seq(S) : y = items[i] /\ Goes(y, "normal", "normal", k, {})
        OBVIOUS
    <2>2. p[i] = IF i = 1 THEN y ELSE w \o y
        BY ONLY <1>1, <1>2, <2>1, i \in 1..n
    <2>3. PICK z \in Nat : z = 0 /\ z + k = k
        OBVIOUS
    <2>4. Goes(w \o y, "normal", "normal", z + k, {}) /\ w \o y \in Seq(S)
        <3>1. Goes(w, "normal", "normal", z, {})
            BY ONLY <1>2, <2>3
        <3> QED BY ONLY <2>1, <3>1, w \in Seq(S), y \in Seq(S), z \in Nat, k \in Nat, GoesBoth
    <2> QED BY ONLY <2>1, <2>2, <2>3, <2>4, y \in Seq(S)
<1>4. \A i \in 1..n : p[i] \in Seq(S)
    BY ONLY <1>3
<1>5. DOMAIN p = 1..n /\ Len(p) = n
    <2>1. p = [i \in 1..n |-> p[i]]
        BY ONLY <1>1
    <2>2. p \in Seq(Seq(S)) /\ DOMAIN p = 1..n
        BY ONLY <1>4, <2>1, n \in Nat
    <2> QED BY ONLY <2>2, n \in Nat
<1>6. \E q : Joins(q, p, n, S) /\ FlattenSeq(p) = q[n]
    BY ONLY <1>4, <1>5, n \in Nat, FlattenChain
<1>7. PICK q : Joins(q, p, n, S) /\ FlattenSeq(p) = q[n]
    BY ONLY <1>6
<1>8. Goes(q[n], "normal", "normal", n * k, {})
    <2>1. Joins(q, p, n, S) /\ \A i \in 1..n : Goes(p[i], "normal", "normal", k, {})
        BY ONLY <1>3, <1>7
    <2> QED BY ONLY <2>1, n \in Nat, k \in Nat, GoesChain
<1>9. q[n] \in Seq(S)
    <2>1. n \in 0..n /\ Joins(q, p, n, S)
        BY <1>7
    <2> QED BY ONLY <2>1, n \in Nat, JoinsType
<1>10. Listed(items) = q[n]
    <2>1. Listed(items) = FlattenSeq(p)
        BY ONLY <1>1, DOMAIN items = 1..n DEF Listed
    <2> QED BY ONLY <1>7, <2>1
<1> QED BY ONLY <1>8, <1>9, <1>10

\* A whole text.
LEMMA GoesWhole ==
    ASSUME NEW S, NEW t \in Seq(S), NEW k \in Nat, Goes(t, "normal", "normal", k, {})
    PROVE  CountPlaceholders(t) = k /\ Scan(t)[Len(t) + 1].st = "normal"
<1>1. PICK n \in Nat : n = Len(t) /\ DOMAIN t = 1..n /\ 0 + n = n
    OBVIOUS
<1>2. PICK g, c : g = Scan(t) /\ c = Counts(t)
    OBVIOUS
<1>3. Scans(t, g, c)
    BY ONLY <1>2, t \in Seq(S), ScanChain
<1>4. Stands(t, g, c, 0, "normal", 0)
    <2>1. 0 + 1 = 1
        OBVIOUS
    <2> QED BY ONLY <1>3, <2>1 DEF Stands, Scans
<1>5. Here(t, 0, t)
    <2>1. \A j \in 1..n : 0 + j = j
        OBVIOUS
    <2> QED BY ONLY <1>1, <2>1 DEF Here
<1>6. Stands(t, g, c, n, "normal", k)
    <2>1. IsText(t)
        BY ONLY <1>1 DEF IsText
    <2>2. 0 \in Nat /\ 0 + k = k /\ 0 + Len(t) = n
        BY <1>1
    <2>3. At(t, 0 + Len(t) + 1) \notin {}
        OBVIOUS
    <2>4. Stands(t, g, c, 0 + Len(t), "normal", 0 + k)
        BY ONLY <1>4, <1>5, <2>1, <2>2, <2>3, Goes(t, "normal", "normal", k, {}), Zenon DEF Goes
    <2> QED BY ONLY <2>2, <2>4
<1>7. g[n + 1] = One("normal") /\ c[n] = k
    BY ONLY <1>6 DEF Stands
<1>8. One("normal").st = "normal"
    BY DEF One
<1> QED BY ONLY <1>1, <1>2, <1>7, <1>8 DEF CountPlaceholders

\* Fixed words.
Fixed(x, S) == x \in Seq(S) /\ Goes(x, "normal", "normal", 0, {})

LEMMA FixedOne ==
    ASSUME NEW S, NEW a \in S, a \in Dull
    PROVE  Fixed(<<a>>, S)
<1>1. <<a>> \in Seq(S)
    BY Single1
<1>2. Goes(<<a>>, "normal", "normal", 0, {})
    BY ONLY a \in Dull, Symbols1, Zenon
<1> QED BY ONLY <1>1, <1>2 DEF Fixed

LEMMA FixedTwo ==
    ASSUME NEW S, NEW a \in S, NEW b \in S, a \in Dull, b \in Dull
    PROVE  Fixed(<<a, b>>, S)
<1>1. PICK x \in Seq(S) : x = <<a, b>> /\ Len(x) = 2 /\ x[1] = a /\ x[2] = b
    <2>1. <<a, b>> \in Seq(S) /\ Len(<<a, b>>) = 2 /\ <<a, b>>[1] = a /\ <<a, b>>[2] = b
        OBVIOUS
    <2> QED BY ONLY <2>1
<1>2. \A i \in 1..Len(x) : x[i] \in Dull
    BY ONLY <1>1, a \in Dull, b \in Dull
<1>3. Goes(x, "normal", "normal", 0, {})
    BY ONLY <1>2, x \in Seq(S), WordGoes
<1> QED BY ONLY <1>1, <1>3, x \in Seq(S) DEF Fixed

LEMMA FixedFour ==
    ASSUME NEW S, NEW a \in S, NEW b \in S, NEW c \in S, NEW d \in S, a \in Dull, b \in Dull, c \in Dull, d \in Dull
    PROVE  Fixed(<<a, b, c, d>>, S)
<1>1. PICK x \in Seq(S) : x = <<a, b, c, d>> /\ Len(x) = 4 /\ x[1] = a /\ x[2] = b /\ x[3] = c /\ x[4] = d
    <2>1. /\ <<a, b, c, d>> \in Seq(S) /\ Len(<<a, b, c, d>>) = 4 /\ <<a, b, c, d>>[1] = a
          /\ <<a, b, c, d>>[2] = b /\ <<a, b, c, d>>[3] = c /\ <<a, b, c, d>>[4] = d
        OBVIOUS
    <2> QED BY ONLY <2>1
<1>2. \A i \in 1..Len(x) : x[i] \in Dull
    BY ONLY <1>1, a \in Dull, b \in Dull, c \in Dull, d \in Dull
<1>3. Goes(x, "normal", "normal", 0, {})
    BY ONLY <1>2, x \in Seq(S), WordGoes
<1> QED BY ONLY <1>1, <1>3, x \in Seq(S) DEF Fixed

\* One more part of a text with k placeholders so far.
Part(x, k, S) == x \in Seq(S) /\ k \in Nat /\ Goes(x, "normal", "normal", k, {})

LEMMA PartNext ==
    ASSUME NEW S, NEW x, NEW y, NEW k, NEW m, Part(x, k, S), Part(y, m, S)
    PROVE  Part(x \o y, k + m, S)
<1>1. x \in Seq(S) /\ y \in Seq(S) /\ k \in Nat /\ m \in Nat
    BY DEF Part
<1>2. Goes(x \o y, "normal", "normal", k + m, {}) /\ x \o y \in Seq(S)
    <2>1. Goes(x, "normal", "normal", k, {}) /\ Goes(y, "normal", "normal", m, {})
        BY DEF Part
    <2> QED BY ONLY <1>1, <2>1, GoesBoth
<1>3. k + m \in Nat
    BY ONLY <1>1
<1> QED BY ONLY <1>2, <1>3 DEF Part

LEMMA FixedNext ==
    ASSUME NEW S, NEW x, NEW y, NEW k, Part(x, k, S), Fixed(y, S)
    PROVE  Part(x \o y, k, S)
<1>1. PICK z \in Nat : z = 0
    OBVIOUS
<1>2. Part(y, z, S)
    BY ONLY <1>1, z \in Nat, Fixed(y, S) DEF Fixed, Part
<1>3. Part(x \o y, k + z, S)
    BY ONLY <1>2, Part(x, k, S), PartNext
<1>4. k + z = k
    BY ONLY <1>1, Part(x, k, S) DEF Part
<1> QED BY ONLY <1>3, <1>4

InsertRow(columns) == (<<"(">> \o Listed([i \in DOMAIN columns |-> <<"?">>])) \o <<")">>

LEMMA RowGoes ==
    ASSUME NEW S, Alphabet(S), NEW columns, NEW n \in Nat, DOMAIN columns = 1..n
    PROVE  Part(InsertRow(columns), n, S)
<1>1. PICK a \in S, b \in S, d \in S : a = "(" /\ b = ")" /\ d = "?"
    BY DEF Alphabet
<1>2. Fixed(<<a>>, S) /\ Fixed(<<b>>, S)
    <2>1. a \in Dull /\ b \in Dull
        BY ONLY <1>1 DEF Dull
    <2> QED BY ONLY <2>1, a \in S, b \in S, FixedOne
<1>3. PICK items : items = [i \in 1..n |-> <<d>>]
    OBVIOUS
<1>4. Part(Listed(items), n, S)
    <2>1. <<d>> \in Seq(S)
        BY ONLY d \in S, Single1
    <2>2. PICK o \in Nat : o = 1 /\ n * o = n
        OBVIOUS
    <2>3. Goes(<<d>>, "normal", "normal", o, {})
        <3>1. Goes(<<"?">>, "normal", "normal", 1, {})
            BY ONLY Symbols1, Zenon
        <3> QED BY ONLY <1>1, <2>2, <3>1
    <2>4. DOMAIN items = 1..n /\ \A i \in 1..n : items[i] \in Seq(S) /\ Goes(items[i], "normal", "normal", o, {})
        BY ONLY <1>3, <2>1, <2>3
    <2>5. Goes(Listed(items), "normal", "normal", n * o, {}) /\ Listed(items) \in Seq(S)
        BY ONLY <2>4, n \in Nat, o \in Nat, Alphabet(S), ListedGoes
    <2> QED BY ONLY <2>2, <2>5, n \in Nat DEF Part
<1>5. PICK z \in Nat : z = 0 /\ z + n = n
    OBVIOUS
<1>6. Part(<<a>>, z, S)
    BY ONLY <1>2, <1>5, z \in Nat DEF Fixed, Part
<1>7. Part(<<a>> \o Listed(items), n, S)
    <2>1. Part(<<a>> \o Listed(items), z + n, S)
        BY ONLY <1>4, <1>6, PartNext
    <2> QED BY ONLY <1>5, <2>1
<1>8. Part((<<a>> \o Listed(items)) \o <<b>>, n, S)
    BY ONLY <1>2, <1>7, FixedNext
<1>9. InsertRow(columns) = (<<a>> \o Listed(items)) \o <<b>>
    BY ONLY <1>1, <1>3, DOMAIN columns = 1..n DEF InsertRow
<1> QED BY ONLY <1>8, <1>9

\* The text of an INSERT has one placeholder for each value, and names read back, whatever
\* they are.
THEOREM InsertNamesStayNames ==
    ASSUME NEW S, Alphabet(S), NEW table \in Seq(S), NEW columns \in Seq(Seq(S)), NEW rows \in Nat
    PROVE  StayNames(table, columns, rows)
<1>1. PICK n \in Nat : n = Len(columns) /\ DOMAIN columns = 1..n
    OBVIOUS
<1>2. PICK t1, t2, t3, t4, t5, t6 :
         /\ t1 = <<"INSERT", " ", "INTO", " ">> /\ t2 = QuoteIdent(table) /\ t3 = <<" ", "(">>
         /\ t4 = Listed([i \in DOMAIN columns |-> QuoteIdent(columns[i])]) /\ t5 = <<")", " ", "VALUES", " ">>
         /\ t6 = Listed([r \in 1..rows |-> InsertRow(columns)])
    OBVIOUS
<1>3. InsertText(table, columns, rows) = ((((t1 \o t2) \o t3) \o t4) \o t5) \o t6
    BY ONLY <1>2 DEF InsertText, InsertRow
<1>4. Fixed(t1, S) /\ Fixed(t3, S) /\ Fixed(t5, S)
    <2>1. PICK a \in S, b \in S, c \in S, d \in S, e \in S, v \in S :
             a = "INSERT" /\ b = " " /\ c = "INTO" /\ d = "(" /\ e = ")" /\ v = "VALUES"
        BY DEF Alphabet
    <2>2. a \in Dull /\ b \in Dull /\ c \in Dull /\ d \in Dull /\ e \in Dull /\ v \in Dull
        BY ONLY <2>1 DEF Dull
    <2>3. Fixed(<<a, b, c, b>>, S) /\ Fixed(<<e, b, v, b>>, S)
        BY ONLY <2>2, a \in S, b \in S, c \in S, d \in S, e \in S, v \in S, FixedFour
    <2>4. Fixed(<<b, d>>, S)
        BY ONLY <2>2, b \in S, d \in S, FixedTwo
    <2>5. t1 = <<a, b, c, b>> /\ t5 = <<e, b, v, b>> /\ t3 = <<b, d>>
        BY ONLY <1>2, <2>1
    <2> QED BY ONLY <2>3, <2>4, <2>5
<1>5. /\ Fixed(t2, S)
      /\ t2 # table => ReadsBack(t2, table, "\"")
    BY ONLY <1>2, Alphabet(S), table \in Seq(S), NameGoes DEF Fixed
<1>6. Fixed(t4, S)
    <2>1. PICK items : items = [i \in 1..n |-> QuoteIdent(columns[i])]
        OBVIOUS
    <2>2. ASSUME NEW i \in 1..n PROVE items[i] \in Seq(S) /\ Goes(items[i], "normal", "normal", 0, {})
        <3>1. columns[i] \in Seq(S)
            BY <1>1
        <3>2. Goes(QuoteIdent(columns[i]), "normal", "normal", 0, {}) /\ QuoteIdent(columns[i]) \in Seq(S)
            BY ONLY <3>1, Alphabet(S), NameGoes
        <3> QED BY ONLY <2>1, <3>2, i \in 1..n
    <2>3. DOMAIN items = 1..n /\ \A i \in 1..n : items[i] \in Seq(S) /\ Goes(items[i], "normal", "normal", 0, {})
        BY ONLY <2>1, <2>2
    <2>4. 0 \in Nat /\ n * 0 = 0
        OBVIOUS
    <2>5. Goes(Listed(items), "normal", "normal", n * 0, {}) /\ Listed(items) \in Seq(S)
        BY ONLY <2>3, <2>4, n \in Nat, Alphabet(S), ListedGoes
    <2>6. t4 = Listed(items)
        BY ONLY <1>1, <1>2, <2>1
    <2> QED BY ONLY <2>4, <2>5, <2>6 DEF Fixed
<1>7. Part(t6, rows * n, S)
    <2>1. PICK row : row = InsertRow(columns)
        OBVIOUS
    <2>2. Part(row, n, S)
        BY ONLY <1>1, <2>1, n \in Nat, Alphabet(S), RowGoes
    <2>3. PICK items : items = [r \in 1..rows |-> row]
        OBVIOUS
    <2>4. DOMAIN items = 1..rows /\ \A i \in 1..rows : items[i] \in Seq(S) /\ Goes(items[i], "normal", "normal", n, {})
        BY ONLY <2>2, <2>3 DEF Part
    <2>5. Goes(Listed(items), "normal", "normal", rows * n, {}) /\ Listed(items) \in Seq(S)
        BY ONLY <2>4, n \in Nat, rows \in Nat, Alphabet(S), ListedGoes
    <2>6. rows * n \in Nat
        BY ONLY Times, rows \in Nat, n \in Nat
    <2>7. t6 = Listed(items)
        BY ONLY <1>2, <2>1, <2>3
    <2> QED BY ONLY <2>5, <2>6, <2>7 DEF Part
<1>8. PICK z \in Nat, k \in Nat : z = 0 /\ k = rows * n /\ z + k = k
    <2>1. rows * n \in Nat
        BY ONLY Times, rows \in Nat, n \in Nat
    <2> QED BY ONLY <2>1
<1>9. PICK t : t = InsertText(table, columns, rows) /\ Part(t, k, S)
    <2>1. Part(t1, z, S)
        BY ONLY <1>4, <1>8, z \in Nat DEF Fixed, Part
    <2>2. Part(t1 \o t2, z, S)
        BY ONLY <1>5, <2>1, FixedNext
    <2>3. Part((t1 \o t2) \o t3, z, S)
        BY ONLY <1>4, <2>2, FixedNext
    <2>4. Part(((t1 \o t2) \o t3) \o t4, z, S)
        BY ONLY <1>6, <2>3, FixedNext
    <2>5. Part((((t1 \o t2) \o t3) \o t4) \o t5, z, S)
        BY ONLY <1>4, <2>4, FixedNext
    <2>6. Part(((((t1 \o t2) \o t3) \o t4) \o t5) \o t6, z + k, S)
        <3>1. Part(t6, k, S)
            BY ONLY <1>7, <1>8
        <3> QED BY ONLY <2>5, <3>1, PartNext
    <2> QED BY ONLY <1>3, <1>8, <2>6
<1>10. CountPlaceholders(t) = k /\ Scan(t)[Len(t) + 1].st = "normal"
    BY ONLY <1>9, GoesWhole DEF Part
<1>11. k = Len(columns) * rows
    BY ONLY <1>1, <1>8, n \in Nat, rows \in Nat
<1>12. t2 # table => Closing(t2) = Len(t2) /\ Undouble(SubSeq(t2, 2, Len(t2) - 1), "\"") = table
    BY ONLY <1>5 DEF ReadsBack
<1> QED BY ONLY <1>2, <1>9, <1>10, <1>11, <1>12 DEF StayNames
=============================================================================
