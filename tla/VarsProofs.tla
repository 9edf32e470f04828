----------------------------- MODULE VarsProofs -----------------------------
(***************************************************************************)
(* Proofs about Vars for every value of its constants.                     *)
(***************************************************************************)
EXTENDS Vars, SequenceTheorems, FiniteSetTheorems, WellFoundedInduction, TLAPS

-----------------------------------------------------------------------------
(* Natural numbers and sequences *)

(* Naturals have a least one: what the proofs use instead of induction. *)
LEMMA LeastNat ==
    ASSUME NEW T, T \subseteq Nat, T # {}
    PROVE  \E x \in T : \A y \in T : x <= y
<1> DEFINE R == {p \in Nat \X Nat : p[1] < p[2]}
<1>1. IsWellFoundedOn(R, Nat)
    <2>1. OpToRel(<, Nat) = R
        BY Zenon DEF OpToRel
    <2> QED BY <2>1, NatLessThanWellFounded, Zenon
<1>2. PICK x \in T : \A y \in T : <<y, x>> \notin R
    <2> HIDE DEF R
    <2> QED BY <1>1, WFMin, Zenon
<1>3. \A y \in T : ~ (y < x)
    BY <1>2
<1> QED BY <1>3

(* The number that Least chooses. *)
LEMMA LeastIs ==
    ASSUME NEW T, T \subseteq Nat, NEW x \in T, \A y \in T : x <= y
    PROVE  Least(T) = x
<1>1. \A z \in T : (\A y \in T : z <= y) => z = x
    OBVIOUS
<1>2. \E z \in T : \A y \in T : z <= y
    OBVIOUS
<1> QED BY <1>1, <1>2 DEF Least

(* The concatenations of the first sequences of a sequence. *)
IsUpto(u, s, S) ==
    /\ u \in [0..Len(s) -> Seq(S)]
    /\ u[0] = <<>>
    /\ \A m \in 1..Len(s) : u[m] = u[m - 1] \o s[m]

(* FlattenSeq defines them by recursion. *)
LEMMA FlattenIs ==
    ASSUME NEW S, NEW s \in Seq(Seq(S))
    PROVE  \E u : IsUpto(u, s, S) /\ FlattenSeq(s) = u[Len(s)]
<1> DEFINE N == Len(s)
           Works(g, m) == /\ g \in [0..m -> Seq(S)]
                          /\ g[0] = <<>>
                          /\ \A k \in 1..m : g[k] = g[k - 1] \o s[k]
           Bad == {m \in 0..N : ~ \E g : Works(g, m)}
<1>0. N \in Nat /\ \A m \in 1..N : s[m] \in Seq(S)
    BY LenProperties, ElementOfSeq
<1> HIDE DEF N
<1>1. Bad = {}
    <2> SUFFICES ASSUME Bad # {} PROVE FALSE
        OBVIOUS
    <2>0. Bad \subseteq Nat
        <3> HIDE DEF Works
        <3> QED BY <1>0
    <2>1. PICK m \in Bad : \A y \in Bad : m <= y
        <3> HIDE DEF Bad
        <3> QED BY <2>0, LeastNat
    <2>2. m \in 0..N /\ m \in Nat /\ ~ \E g : Works(g, m)
        <3> HIDE DEF Works
        <3> QED BY <1>0, <2>1
    <2>3. CASE m = 0
        <3>1. Works([k \in 0..0 |-> <<>>], 0)
            OBVIOUS
        <3> QED BY <2>2, <2>3, <3>1
    <2>4. CASE m # 0
        <3>1. m - 1 \in 0..N /\ m - 1 \notin Bad
            <4>1. m - 1 \in 0..N /\ ~ (m <= m - 1)
                BY <1>0, <2>2, <2>4
            <4> HIDE DEF Bad
            <4> QED BY <2>1, <4>1
        <3>2. PICK g : Works(g, m - 1)
            BY <3>1
        <3> DEFINE h == [k \in 0..m |-> IF k = m THEN g[m - 1] \o s[m] ELSE g[k]]
        <3>3. g[m - 1] \o s[m] \in Seq(S)
            BY <1>0, <2>2, <2>4, <3>1, <3>2, ConcatProperties
        <3>4. h \in [0..m -> Seq(S)]
            BY <1>0, <2>2, <2>4, <3>2, <3>3
        <3>5. h[0] = <<>>
            BY <2>2, <2>4, <3>2
        <3>6. ASSUME NEW k \in 1..m PROVE h[k] = h[k - 1] \o s[k]
            <4>1. k \in 0..m /\ k - 1 \in 0..m /\ k - 1 # m
                BY <2>2
            <4>2. h[k - 1] = g[k - 1]
                BY <4>1
            <4>3. CASE k = m
                BY <4>1, <4>2, <4>3
            <4>4. CASE k # m
                <5>1. h[k] = g[k] /\ k \in 1..(m - 1)
                    BY <2>2, <4>1, <4>4
                <5> QED BY <3>2, <4>2, <5>1
            <4> QED BY <4>3, <4>4
        <3>7. Works(h, m)
            BY <3>4, <3>5, <3>6
        <3> QED BY <2>2, <3>7
    <2> QED BY <2>3, <2>4
<1>2. PICK u : Works(u, N)
    <2>1. N \in 0..N
        BY <1>0
    <2> HIDE DEF Works
    <2> QED BY <1>1, <2>1
<1>3. FlattenSeq(s) = u[N]
    <2>1. CASE N = 0
        <3>1. s = <<>>
            BY <2>1, EmptySeq, <1>0 DEF N
        <3> QED BY <1>2, <2>1, <3>1 DEF FlattenSeq, N
    <2>2. CASE N # 0
        <3> DEFINE Rule(f) == [k \in 1..N |-> IF k = 1 THEN s[k] ELSE f[k - 1] \o s[k]]
                   flatten == CHOOSE f : f = Rule(f)
                   v == [k \in 1..N |-> u[k]]
        <3>1. ASSUME NEW k \in 1..N PROVE v[k] = IF k = 1 THEN s[k] ELSE v[k - 1] \o s[k]
            <4>2. v[k] = u[k] /\ u[k] = u[k - 1] \o s[k]
                BY <1>2
            <4>1. k = 1 => u[k] = s[k]
                <5>1. k = 1 => u[k - 1] = <<>>
                    BY <1>2
                <5>2. s[k] \in Seq(S)
                    BY <1>0
                <5>3. <<>> \o s[k] = s[k]
                    BY <5>2, ConcatEmptySeq
                <5> QED BY <4>2, <5>1, <5>3
            <4>3. k # 1 => v[k - 1] = u[k - 1]
                BY <1>0
            <4> QED BY <4>1, <4>2, <4>3
        <3>2. v = Rule(v)
            <4> HIDE DEF Works
            <4> QED BY <3>1
        <3>3. flatten = Rule(flatten)
            <4> HIDE DEF Rule, v
            <4> QED BY <3>2
        <3>4. FlattenSeq(s) = flatten[N]
            BY <1>0, <2>2 DEF FlattenSeq, N
        <3>5. v[N] = u[N]
            BY <1>0, <2>2
        <3> HIDE DEF flatten, v, Works
        <3> DEFINE Differ == {k \in 1..N : flatten[k] # v[k]}
        <3>6. Differ = {}
            <4> SUFFICES ASSUME Differ # {} PROVE FALSE
                OBVIOUS
            <4>1. PICK k \in Differ : \A y \in Differ : k <= y
                <5>1. Differ \subseteq Nat
                    BY <1>0
                <5> HIDE DEF Differ
                <5> QED BY <5>1, LeastNat
            <4>2. k \in 1..N /\ flatten[k] # v[k]
                BY <4>1
            <4>3. k # 1 => flatten[k - 1] = v[k - 1]
                BY <1>0, <4>1, <4>2
            <4>4. flatten[k] = IF k = 1 THEN s[k] ELSE flatten[k - 1] \o s[k]
                BY <3>3, <4>2
            <4>5. v[k] = IF k = 1 THEN s[k] ELSE v[k - 1] \o s[k]
                BY <3>1, <4>2
            <4> QED BY <4>2, <4>3, <4>4, <4>5
        <3>7. N \in 1..N
            BY <1>0, <2>2
        <3> QED BY <3>4, <3>5, <3>6, <3>7
    <2> QED BY <2>1, <2>2
<1> QED BY <1>2, <1>3 DEF IsUpto, N

(* Each of them begins the last one, *)
LEMMA UptoPrefix ==
    ASSUME NEW S, NEW s \in Seq(Seq(S)), NEW u, IsUpto(u, s, S), NEW n \in 0..Len(s)
    PROVE  /\ Len(u[n]) <= Len(u[Len(s)])
           /\ \A p \in 1..Len(u[n]) : u[Len(s)][p] = u[n][p]
<1> DEFINE N == Len(s)
           Begins(m) == Len(u[m]) <= Len(u[N]) /\ \A p \in 1..Len(u[m]) : u[N][p] = u[m][p]
           Bad == {d \in 0..N : ~ Begins(N - d)}
<1>1. /\ N \in Nat
      /\ \A m \in 1..N : s[m] \in Seq(S)
      /\ \A m \in 0..N : u[m] \in Seq(S)
      /\ \A m \in 1..N : u[m] = u[m - 1] \o s[m]
    BY LenProperties, ElementOfSeq DEF IsUpto
<1> HIDE DEF N
<1>2. ASSUME NEW m \in 0..N PROVE Len(u[m]) \in Nat
    <2>1. u[m] \in Seq(S)
        BY <1>1
    <2> QED BY <2>1, LenProperties
<1>3. ASSUME NEW m \in 1..N, Begins(m) PROVE Begins(m - 1)
    <2> DEFINE a == u[m - 1]
               b == s[m]
    <2>1. m - 1 \in 0..N /\ m \in 0..N /\ N \in 0..N
        BY <1>1
    <2>2. a \in Seq(S) /\ b \in Seq(S) /\ u[m] = a \o b
        BY <1>1, <2>1
    <2>3. Len(a) \in Nat /\ Len(u[m]) \in Nat /\ Len(u[N]) \in Nat
        BY <1>2, <2>1
    <2>4. Len(u[m]) <= Len(u[N]) /\ \A p \in 1..Len(u[m]) : u[N][p] = u[m][p]
        BY <1>3
    <2> HIDE DEF a, b, Begins
    <2>5. Len(b) \in Nat
        BY <2>2, LenProperties
    <2>6. Len(a \o b) = Len(a) + Len(b)
        BY <2>2, ConcatProperties
    <2>7. \A p \in 1..Len(a) + Len(b) : (a \o b)[p] = IF p <= Len(a) THEN a[p] ELSE b[p - Len(a)]
        BY <2>2, ConcatProperties
    <2>8. \A p \in 1..Len(a) : p \in 1..Len(u[m]) /\ u[m][p] = a[p]
        BY <2>2, <2>3, <2>5, <2>6, <2>7
    <2>9. Len(a) <= Len(u[N])
        BY <2>2, <2>3, <2>4, <2>5, <2>6
    <2> QED BY <2>4, <2>8, <2>9 DEF Begins, a
<1>4. Begins(N)
    <2>1. N \in 0..N
        BY <1>1
    <2> QED BY <1>2, <2>1
<1> HIDE DEF Begins
<1>5. Bad = {}
    <2> SUFFICES ASSUME Bad # {} PROVE FALSE
        OBVIOUS
    <2>0. Bad \subseteq Nat
        BY <1>1
    <2>1. PICK d \in Bad : \A y \in Bad : d <= y
        <3> HIDE DEF Bad
        <3> QED BY <2>0, LeastNat
    <2>2. d \in 0..N /\ ~ Begins(N - d)
        BY <2>1
    <2>3. d # 0
        BY <1>1, <1>4, <2>2
    <2>4. d - 1 \in 0..N /\ ~ (d <= d - 1)
        BY <1>1, <2>2, <2>3
    <2>5. Begins(N - (d - 1))
        BY <2>1, <2>4
    <2>6. N - (d - 1) \in 1..N /\ N - (d - 1) - 1 = N - d
        BY <1>1, <2>2, <2>3
    <2> QED BY <1>3, <2>2, <2>5, <2>6
<1>6. n \in 0..N /\ N - n \in 0..N /\ N - (N - n) = n
    BY <1>1 DEF N
<1>7. Begins(n)
    BY <1>5, <1>6
<1> QED BY <1>7 DEF Begins, N

(* so each sequence is in the last one, behind those before it. *)
Before(u, m) == Len(u[m - 1])

(* A sequence stands in the whole behind the ones before it. *)
LEMMA UptoPlaced ==
    ASSUME NEW S, NEW s \in Seq(Seq(S)), NEW u, IsUpto(u, s, S), NEW m \in 1..Len(s)
    PROVE  /\ Before(u, m) \in Nat /\ Len(s[m]) \in Nat /\ Len(u[Len(s)]) \in Nat
           /\ Len(u[m]) = Before(u, m) + Len(s[m])
           /\ Len(u[m]) <= Len(u[Len(s)])
           /\ \A p \in 1..Len(s[m]) : u[Len(s)][Before(u, m) + p] = s[m][p]
<1> DEFINE N == Len(s)
           r == u[m - 1]
           w == s[m]
           t == u[N]
<1>1. N \in Nat /\ m - 1 \in 0..N /\ m \in 0..N /\ N \in 0..N
    BY LenProperties
<1>2. r \in Seq(S) /\ w \in Seq(S) /\ u[m] \in Seq(S) /\ t \in Seq(S) /\ u[m] = r \o w
    <2>1. w \in Seq(S)
        BY ElementOfSeq
    <2> QED BY <1>1, <2>1 DEF IsUpto
<1>5. Len(u[m]) <= Len(t) /\ \A p \in 1..Len(u[m]) : t[p] = u[m][p]
    <2>1. m \in 0..Len(s)
        BY <1>1
    <2> QED BY <2>1, UptoPrefix
<1> HIDE DEF N, r, w, t
<1>3. Len(r) \in Nat /\ Len(w) \in Nat /\ Len(t) \in Nat
    BY <1>2, LenProperties
<1>4. /\ Len(r \o w) = Len(r) + Len(w)
      /\ \A p \in 1..Len(r) + Len(w) : (r \o w)[p] = IF p <= Len(r) THEN r[p] ELSE w[p - Len(r)]
    BY <1>2, ConcatProperties
<1>6. ASSUME NEW p \in 1..Len(w) PROVE t[Len(r) + p] = w[p]
    <2>1. /\ Len(r) + p \in 1..Len(r) + Len(w)
          /\ ~ (Len(r) + p <= Len(r)) /\ (Len(r) + p) - Len(r) = p
        BY <1>3
    <2>2. t[Len(r) + p] = (r \o w)[Len(r) + p]
        BY <1>2, <1>4, <1>5, <2>1
    <2> QED BY <1>4, <2>1, <2>2
<1> QED BY <1>2, <1>3, <1>4, <1>5, <1>6 DEF Before, N, r, w, t

-----------------------------------------------------------------------------
(* Strings in the text *)

(* The string is in the text behind its first units. *)
Placed(string, at) ==
    /\ at \in Nat /\ at + Len(string) <= Len(text)
    /\ \A k \in 1..Len(string) : text[at + k] = string[k]

(* A string of one unit. *)
LEMMA SingleIs ==
    ASSUME NEW S, NEW unit \in S
    PROVE  <<unit>> \in Seq(S) /\ Len(<<unit>>) = 1 /\ <<unit>>[1] = unit
OBVIOUS

(* The units of a concatenation. *)
LEMMA ConcatIs ==
    ASSUME NEW S, NEW x \in Seq(S), NEW y \in Seq(S)
    PROVE  /\ x \o y \in Seq(S)
           /\ Len(x) \in Nat /\ Len(y) \in Nat /\ Len(x \o y) = Len(x) + Len(y)
           /\ \A k \in 1..Len(x) : (x \o y)[k] = x[k]
           /\ \A k \in 1..Len(y) : (x \o y)[Len(x) + k] = y[k]
<1>1. Len(x) \in Nat /\ Len(y) \in Nat
    BY LenProperties
<1>2. x \o y \in Seq(S) /\ Len(x \o y) = Len(x) + Len(y)
    BY ConcatProperties
<1>3. \A k \in 1..Len(x) + Len(y) : (x \o y)[k] = IF k <= Len(x) THEN x[k] ELSE y[k - Len(x)]
    BY ConcatProperties
<1> DEFINE z == x \o y
           p == Len(x)
           q == Len(y)
<1> HIDE DEF z, p, q
<1>4. p \in Nat /\ q \in Nat /\ \A k \in 1..p + q : z[k] = IF k <= p THEN x[k] ELSE y[k - p]
    BY <1>1, <1>3 DEF z, p, q
<1>5. \A k \in 1..p : z[k] = x[k]
    BY <1>4
<1>6. ASSUME NEW k \in 1..q PROVE z[p + k] = y[k]
    <2>1. p + k \in 1..p + q /\ ~ (p + k <= p) /\ (p + k) - p = k
        BY <1>4
    <2> QED BY <1>4, <2>1
<1> QED BY <1>1, <1>2, <1>5, <1>6 DEF z, p, q

(* A concatenation is in the text where its parts are. *)
LEMMA PlacedConcat ==
    ASSUME NEW S, NEW x \in Seq(S), NEW y \in Seq(S), NEW at, Placed(x \o y, at), Len(text) \in Nat
    PROVE  Placed(x, at) /\ Placed(y, at + Len(x))
<1>1. /\ Len(x) \in Nat /\ Len(y) \in Nat /\ Len(x \o y) = Len(x) + Len(y)
      /\ \A k \in 1..Len(x) : (x \o y)[k] = x[k]
      /\ \A k \in 1..Len(y) : (x \o y)[Len(x) + k] = y[k]
    BY ConcatIs
<1> DEFINE z == x \o y
           p == Len(x)
           q == Len(y)
<1> HIDE DEF z, p, q
<1>2. /\ p \in Nat /\ q \in Nat /\ at \in Nat /\ at + (p + q) <= Len(text)
      /\ \A k \in 1..p + q : text[at + k] = z[k]
      /\ \A k \in 1..p : z[k] = x[k]
      /\ \A k \in 1..q : z[p + k] = y[k]
    BY <1>1 DEF Placed, z, p, q
<1>3. \A k \in 1..p : text[at + k] = x[k]
    BY <1>2
<1>4. ASSUME NEW k \in 1..q PROVE text[(at + p) + k] = y[k]
    <2>1. p + k \in 1..p + q /\ at + (p + k) = (at + p) + k
        BY <1>2
    <2> QED BY <1>2, <2>1
<1> QED BY <1>2, <1>3, <1>4 DEF Placed, p, q

(* Where a string is, resolve reads its units, *)
LEMMA PlacedStr ==
    ASSUME NEW string, NEW at, Placed(string, at), Len(text) \in Nat, Len(string) \in Nat
    PROVE  \A k \in 1..Len(string) : at + k - 1 \in Nat /\ str(at + k - 1) = string[k]
<1> SUFFICES ASSUME NEW k \in 1..Len(string)
             PROVE  at + k - 1 \in Nat /\ str(at + k - 1) = string[k]
    OBVIOUS
<1>1. at \in Nat /\ at + Len(string) <= Len(text) /\ text[at + k] = string[k]
    BY DEF Placed
<1>2. at + k - 1 \in Nat /\ at + k - 1 < Len(text) /\ (at + k - 1) + 1 = at + k
    BY <1>1
<1> QED BY <1>1, <1>2 DEF str

(* and takes it as it is. *)
LEMMA PlacedString ==
    ASSUME NEW S, text \in Seq(S), NEW string \in Seq(S), NEW at, Placed(string, at)
    PROVE  String(at, Len(string)) = string
<1>1. Len(string) \in Nat /\ Len(text) \in Nat /\ at \in Nat /\ at + Len(string) <= Len(text)
    BY LenProperties DEF Placed
<1> DEFINE m == at + 1
           n == at + Len(string)
<1>2. \A k \in m..n : text[k] \in S
    <2>1. \A k \in m..n : k \in 1..Len(text)
        BY <1>1
    <2> QED BY <2>1, ElementOfSeq
<1>3. m \in Int /\ n \in Int /\ n - m + 1 = Len(string) /\ (m <= n <=> Len(string) > 0)
    BY <1>1
<1>4. \A k \in 1..Len(string) : m + k - 1 = at + k
    BY <1>1
<1> HIDE DEF m, n
<1>5. /\ SubSeq(text, m, n) \in Seq(S)
      /\ Len(SubSeq(text, m, n)) = IF m <= n THEN n - m + 1 ELSE 0
      /\ \A k \in 1..n - m + 1 : SubSeq(text, m, n)[k] = text[m + k - 1]
    BY <1>2, <1>3, SubSeqProperties
<1>6. Len(SubSeq(text, m, n)) = Len(string)
    BY <1>1, <1>3, <1>5
<1>7. \A k \in 1..Len(string) : SubSeq(text, m, n)[k] = string[k]
    BY <1>3, <1>4, <1>5 DEF Placed
<1>8. SubSeq(text, m, n) = string
    BY <1>5, <1>6, <1>7, SeqEqual
<1> QED BY <1>8 DEF String, m, n

(* trim_string leaves what is between the spaces around a string. *)
LEMMA TrimIs ==
    ASSUME NEW at \in Nat, NEW size \in Nat, NEW a \in 0..size, NEW b \in a..size,
           \A k \in 0..(size - 1) : k < a \/ b <= k => str(at + k) = "space",
           a < b => str(at + a) # "space" /\ str(at + (b - 1)) # "space"
    PROVE  trim(at, size) = IF a = b THEN [at |-> at, size |-> 0]
                                     ELSE [at |-> at + a, size |-> b - a]
<1> DEFINE inside == {k \in 0..(size - 1) : str(at + k) # "space"}
           last == CHOOSE k \in inside : \A m \in inside : k >= m
<1> HIDE DEF inside, last
<1>0. a \in Nat /\ b \in Nat /\ a <= b /\ b <= size
    OBVIOUS
<1>1. inside \subseteq Nat /\ \A k \in inside : a <= k /\ k < b
    <2>1. ASSUME NEW k \in inside PROVE k \in Nat /\ k \in 0..(size - 1) /\ ~ (k < a \/ b <= k)
        BY DEF inside
    <2> QED BY <1>0, <2>1
<1>2. CASE a = b
    <2>1. inside = {}
        BY <1>0, <1>1, <1>2
    <2> QED BY <1>2, <2>1 DEF trim, inside
<1>3. CASE a # b
    <2>1. a \in inside /\ b - 1 \in inside
        <3>1. a < b /\ a \in 0..(size - 1) /\ b - 1 \in 0..(size - 1)
            BY <1>0, <1>3
        <3> QED BY <3>1 DEF inside
    <2>2. Least(inside) = a
        BY <1>1, <2>1, LeastIs
    <2>3. \A m \in inside : b - 1 >= m
        BY <1>0, <1>1
    <2>4. \A k \in inside : (\A m \in inside : k >= m) => k = b - 1
        BY <1>0, <1>1, <2>1, <2>3
    <2>5. last = b - 1
        BY <2>1, <2>3, <2>4 DEF last
    <2>6. trim(at, size) = [at |-> at + Least(inside), size |-> last - Least(inside) + 1]
        <3>1. inside # {}
            BY <2>1
        <3> QED BY <3>1 DEF trim, inside, last
    <2> QED BY <1>0, <1>3, <2>2, <2>5, <2>6
<1> QED BY <1>2, <1>3

-----------------------------------------------------------------------------
(* Brackets *)

(* How many of the first units are the given one. *)
Amount(unit, string, n) == Cardinality({k \in 1..n : string[k] = unit})

(* None at first, and one more for each. *)
LEMMA AmountStep ==
    ASSUME NEW unit, NEW string
    PROVE  /\ Amount(unit, string, 0) = 0
           /\ \A n \in Nat : Amount(unit, string, n) \in Nat
           /\ \A n \in Nat : Amount(unit, string, n + 1)
                    = IF string[n + 1] = unit THEN Amount(unit, string, n) + 1
                                              ELSE Amount(unit, string, n)
<1> DEFINE Those(n) == {k \in 1..n : string[k] = unit}
<1>1. Those(0) = {}
    OBVIOUS
<1>2. ASSUME NEW n \in Nat PROVE IsFiniteSet(Those(n))
    <2>1. IsFiniteSet(1..n)
        BY FS_Interval
    <2> QED BY <2>1, FS_Subset
<1>3. ASSUME NEW n \in Nat
      PROVE  /\ n + 1 \notin Those(n)
             /\ Those(n + 1) = IF string[n + 1] = unit THEN Those(n) \cup {n + 1} ELSE Those(n)
    OBVIOUS
<1> HIDE DEF Those
<1>4. ASSUME NEW n \in Nat PROVE Cardinality(Those(n)) \in Nat
    BY <1>2, FS_CardinalityType
<1>5. ASSUME NEW n \in Nat
      PROVE  Cardinality(Those(n + 1)) = IF string[n + 1] = unit THEN Cardinality(Those(n)) + 1
                                                                 ELSE Cardinality(Those(n))
    BY <1>2, <1>3, FS_AddElement
<1>6. Cardinality(Those(0)) = 0
    BY <1>1, FS_EmptySet
<1>7. \A n : Amount(unit, string, n) = Cardinality(Those(n))
    BY DEF Amount, Those
<1> QED BY <1>4, <1>5, <1>6, <1>7

(* Count is the amount in a whole string. *)
LEMMA CountIs ==
    ASSUME NEW S, NEW string \in Seq(S), NEW unit, NEW n \in 0..Len(string)
    PROVE  Count(unit, SubSeq(string, 1, n)) = Amount(unit, string, n)
<1> DEFINE first == SubSeq(string, 1, n)
<1>1. Len(string) \in Nat /\ n \in Nat
    BY LenProperties
<1>2. \A k \in 1..n : string[k] \in S
    <2>1. \A k \in 1..n : k \in 1..Len(string)
        BY <1>1
    <2> QED BY <2>1, ElementOfSeq
<1>3. /\ first \in Seq(S)
      /\ Len(first) = IF 1 <= n THEN n - 1 + 1 ELSE 0
      /\ \A k \in 1..n - 1 + 1 : first[k] = string[1 + k - 1]
    BY <1>1, <1>2, SubSeqProperties
<1> HIDE DEF first
<1>4. Len(first) = n /\ DOMAIN first = 1..n
    BY <1>1, <1>3, LenProperties
<1>5. \A k \in 1..n : first[k] = string[k]
    BY <1>1, <1>3
<1>6. {k \in DOMAIN first : first[k] = unit} = {k \in 1..n : string[k] = unit}
    BY <1>4, <1>5
<1> QED BY <1>6 DEF Count, Amount, first

(* The units of a string that is in another are counted with it. *)
Within(string, inner, p, size) ==
    p \in Nat /\ size \in Nat /\ \A k \in 1..size : string[p + k] = inner[k]

(* What is counted up to a place in the inner string comes on top. *)
LEMMA AmountWithin ==
    ASSUME NEW string, NEW inner, NEW p, NEW size, Within(string, inner, p, size), NEW unit,
           NEW n \in 0..size
    PROVE  Amount(unit, string, p + n) = Amount(unit, string, p) + Amount(unit, inner, n)
<1> p \in Nat /\ size \in Nat /\ \A k \in 1..size : string[p + k] = inner[k]
    BY DEF Within
<1> DEFINE A(m) == Amount(unit, string, m)
           B(m) == Amount(unit, inner, m)
           Bad == {m \in 0..size : A(p + m) # A(p) + B(m)}
<1>1. /\ B(0) = 0
      /\ \A m \in Nat : A(m) \in Nat /\ B(m) \in Nat
      /\ \A m \in Nat : A(m + 1) = IF string[m + 1] = unit THEN A(m) + 1 ELSE A(m)
      /\ \A m \in Nat : B(m + 1) = IF inner[m + 1] = unit THEN B(m) + 1 ELSE B(m)
    BY AmountStep
<1> HIDE DEF A, B
<1>2. Bad = {}
    <2> SUFFICES ASSUME Bad # {} PROVE FALSE
        OBVIOUS
    <2>0. Bad \subseteq Nat
        OBVIOUS
    <2>1. PICK m \in Bad : \A y \in Bad : m <= y
        <3> HIDE DEF Bad
        <3> QED BY <2>0, LeastNat
    <2>2. m \in 0..size /\ A(p + m) # A(p) + B(m)
        BY <2>1
    <2>3. m # 0
        <3>1. p + 0 = p /\ A(p) + 0 = A(p)
            BY <1>1
        <3> QED BY <1>1, <2>2, <3>1
    <2>4. m - 1 \in 0..size /\ ~ (m <= m - 1) /\ m - 1 \in Nat /\ p + (m - 1) \in Nat
        BY <2>2, <2>3
    <2>5. A(p + (m - 1)) = A(p) + B(m - 1)
        BY <2>1, <2>4
    <2>6. p + (m - 1) + 1 = p + m /\ (m - 1) + 1 = m /\ m \in 1..size
        BY <2>2, <2>3
    <2>7. A(p + m) = IF string[p + m] = unit THEN A(p + (m - 1)) + 1 ELSE A(p + (m - 1))
        BY <1>1, <2>4, <2>6
    <2>8. B(m) = IF inner[m] = unit THEN B(m - 1) + 1 ELSE B(m - 1)
        BY <1>1, <2>4, <2>6
    <2>9. string[p + m] = inner[m] /\ A(p) \in Nat /\ B(m - 1) \in Nat
        BY <1>1, <2>4, <2>6
    <2> QED BY <2>2, <2>5, <2>7, <2>8, <2>9
<1> QED BY <1>2 DEF A, B

(* A string without the unit has none of it. *)
LEMMA NoAmount ==
    ASSUME NEW string, NEW n, NEW unit, \A k \in 1..n : string[k] # unit
    PROVE  Amount(unit, string, n) = 0
<1>1. {k \in 1..n : string[k] = unit} = {}
    OBVIOUS
<1> QED BY <1>1, FS_EmptySet DEF Amount

(* A string is closed when no bracket closes before it was opened, and all *)
(* of them are closed at its end.                                          *)
LEMMA ClosedIs ==
    ASSUME NEW S, NEW string \in Seq(S)
    PROVE  Closed(string) <=>
            /\ Amount("open", string, Len(string)) = Amount("close", string, Len(string))
            /\ \A n \in 0..Len(string) : Amount("open", string, n) >= Amount("close", string, n)
<1>1. Len(string) \in 0..Len(string)
    <2>1. Len(string) \in Nat
        BY LenProperties
    <2> QED BY <2>1
<1>2. SubSeq(string, 1, Len(string)) = string
    BY SubSeqFull
<1>3. \A unit : Count(unit, string) = Amount(unit, string, Len(string))
    BY <1>1, <1>2, CountIs
<1>4. \A n \in 0..Len(string) : \A unit : Count(unit, SubSeq(string, 1, n)) = Amount(unit, string, n)
    BY CountIs
<1> QED BY <1>3, <1>4 DEF Closed

(* So it is with units around it that are no brackets, *)
LEMMA ClosedWithin ==
    ASSUME NEW S, NEW x \in Seq(S), NEW name \in Seq(S), NEW y \in Seq(S), Closed(name),
           \A k \in 1..Len(x) : x[k] \notin {"open", "close"},
           \A k \in 1..Len(y) : y[k] \notin {"open", "close"}
    PROVE  Closed((x \o name) \o y)
<1> DEFINE u == (x \o name) \o y
           p == Len(x)
           q == Len(name)
           r == Len(y)
           w == x \o name
<1>1. /\ w \in Seq(S) /\ p \in Nat /\ q \in Nat /\ Len(w) = p + q
      /\ \A k \in 1..p : w[k] = x[k]
      /\ \A k \in 1..q : w[p + k] = name[k]
    BY ConcatIs
<1> HIDE DEF w, p, q
<1> HIDE DEF r
<1>2. /\ w \o y \in Seq(S) /\ r \in Nat /\ Len(w \o y) = Len(w) + r
      /\ \A k \in 1..Len(w) : (w \o y)[k] = w[k]
      /\ \A k \in 1..r : (w \o y)[Len(w) + k] = y[k]
    <2>1. w \in Seq(S)
        BY <1>1
    <2>2. /\ w \o y \in Seq(S) /\ Len(y) \in Nat /\ Len(w \o y) = Len(w) + Len(y)
          /\ \A k \in 1..Len(w) : (w \o y)[k] = w[k]
          /\ \A k \in 1..Len(y) : (w \o y)[Len(w) + k] = y[k]
        BY <2>1, ConcatIs
    <2> QED BY <2>2 DEF r
<1>3. u = w \o y
    BY DEF w
<1> HIDE DEF u
<1>4. /\ u \in Seq(S) /\ Len(u) = p + q + r
      /\ \A k \in 1..p : u[k] = x[k]
      /\ \A k \in 1..q : u[p + k] = name[k]
      /\ \A k \in 1..r : u[(p + q) + k] = y[k]
    <2>1. \A k \in 1..p : k \in 1..Len(w)
        BY <1>1
    <2>2. \A k \in 1..q : p + k \in 1..Len(w)
        BY <1>1
    <2> QED BY <1>1, <1>2, <1>3, <2>1, <2>2
<1>5. /\ Amount("open", name, q) = Amount("close", name, q)
      /\ \A n \in 0..q : Amount("open", name, n) >= Amount("close", name, n)
    BY ClosedIs DEF q
<1>6. ASSUME NEW unit \in {"open", "close"}
      PROVE  /\ \A n \in 0..p : Amount(unit, u, n) = 0
             /\ \A n \in 0..q : Amount(unit, u, p + n) = Amount(unit, name, n)
             /\ \A n \in 0..r : Amount(unit, u, (p + q) + n) = Amount(unit, name, q)
    <2>1. ASSUME NEW n \in 0..p PROVE Amount(unit, u, n) = 0
        <3>1. \A k \in 1..n : k \in 1..p
            BY <1>1
        <3>2. \A k \in 1..n : u[k] # unit
            BY <1>4, <3>1 DEF p
        <3> QED BY <3>2, NoAmount
    <2>2. \A n \in Nat : Amount(unit, name, n) \in Nat
        BY AmountStep
    <2>3. ASSUME NEW n \in 0..q PROVE Amount(unit, u, p + n) = Amount(unit, name, n)
        <3>1. p \in 0..p /\ n \in Nat
            BY <1>1
        <3>2. Amount(unit, u, p) = 0
            BY <2>1, <3>1
        <3>3. Amount(unit, u, p + n) = Amount(unit, u, p) + Amount(unit, name, n)
            <4>1. Within(u, name, p, q)
                BY <1>1, <1>4 DEF Within
            <4> QED BY <4>1, AmountWithin
        <3> QED BY <2>2, <3>1, <3>2, <3>3
    <2>4. ASSUME NEW n \in 0..r PROVE Amount(unit, u, (p + q) + n) = Amount(unit, name, q)
        <3>1. q \in 0..q /\ p + q \in Nat
            BY <1>1
        <3>2. Amount(unit, u, p + q) = Amount(unit, name, q)
            BY <2>3, <3>1
        <3>3. Amount(unit, y, n) = 0
            <4>1. \A k \in 1..n : k \in 1..r
                BY <1>2
            <4>2. \A k \in 1..n : y[k] # unit
                BY <4>1 DEF r
            <4> QED BY <4>2, NoAmount
        <3>4. Amount(unit, u, (p + q) + n) = Amount(unit, u, p + q) + Amount(unit, y, n)
            <4> DEFINE m == p + q
            <4>1. Within(u, y, m, r)
                BY <1>2, <1>4, <3>1 DEF Within
            <4> HIDE DEF m
            <4>2. Amount(unit, u, m + n) = Amount(unit, u, m) + Amount(unit, y, n)
                BY <4>1, AmountWithin
            <4> QED BY <4>2 DEF m
        <3> QED BY <1>1, <2>2, <3>2, <3>3, <3>4
    <2> QED BY <2>1, <2>3, <2>4
<1>7. Amount("open", u, Len(u)) = Amount("close", u, Len(u))
    <2>1. r \in 0..r
        BY <1>2
    <2> QED BY <1>4, <1>5, <1>6, <2>1
<1>8. ASSUME NEW n \in 0..Len(u) PROVE Amount("open", u, n) >= Amount("close", u, n)
    <2>1. \/ n \in 0..p
          \/ n - p \in 0..q /\ n = p + (n - p)
          \/ n - (p + q) \in 0..r /\ n = (p + q) + (n - (p + q))
        BY <1>1, <1>2, <1>4
    <2>2. CASE n \in 0..p
        BY <1>6, <2>2
    <2>3. CASE n - p \in 0..q /\ n = p + (n - p)
        <3>1. PICK m \in 0..q : n = p + m
            BY <2>3
        <3> QED BY <1>5, <1>6, <3>1
    <2>4. CASE n - (p + q) \in 0..r /\ n = (p + q) + (n - (p + q))
        <3>1. PICK m \in 0..r : n = (p + q) + m
            BY <2>4
        <3>2. Amount("close", name, q) \in Nat
            BY <1>1, AmountStep
        <3> QED BY <1>5, <1>6, <3>1, <3>2
    <2> QED BY <2>1, <2>2, <2>3, <2>4
<1>9. Closed(u)
    BY <1>4, <1>7, <1>8, ClosedIs
<1> QED BY <1>9 DEF u

(* The units of a text: strings, and these are some. *)
Units == STRING \cup {"$", ":", "/", "open", "close", "space", "NUL", "icon", "uuid", "version", "address",
                       "port", "state"}

(* and find_closing_bracket finds the bracket that closes it. *)
LEMMA BracketIs ==
    ASSUME text \in Seq(Units), NEW inner \in Seq(Units), Closed(inner), NEW at,
           Placed((<<"open">> \o inner) \o <<"close">>, at)
    PROVE  find_closing_bracket(at) = Len(inner) + 2
<1> DEFINE M == Len(inner)
           w == <<"open">> \o inner
           z == w \o <<"close">>
           A(unit, n) == Amount(unit, z, n)
           B(unit, n) == Amount(unit, inner, n)
           T == {n \in 1..(Len(text) - at) : Count("open", String(at, n)) = Count("close", String(at, n))}
<1>1. /\ <<"open">> \in Seq(Units) /\ Len(<<"open">>) = 1 /\ <<"open">>[1] = "open"
      /\ <<"close">> \in Seq(Units) /\ Len(<<"close">>) = 1 /\ <<"close">>[1] = "close"
    <2>1. "open" \in Units /\ "close" \in Units
        BY DEF Units
    <2> QED BY <2>1, SingleIs
<1>2. /\ w \in Seq(Units) /\ M \in Nat /\ Len(w) = 1 + M /\ w[1] = "open"
      /\ \A k \in 1..M : w[1 + k] = inner[k]
    BY <1>1, ConcatIs
<1> HIDE DEF w, M
<1>3. /\ z \in Seq(Units) /\ Len(z) = M + 2
      /\ \A k \in 1..(1 + M) : z[k] = w[k]
      /\ z[M + 2] = "close"
    <2>1. /\ z \in Seq(Units) /\ Len(z) = Len(w) + 1
          /\ \A k \in 1..Len(w) : z[k] = w[k]
          /\ \A k \in 1..1 : z[Len(w) + k] = <<"close">>[k]
        BY <1>1, <1>2, ConcatIs
    <2>2. z[Len(w) + 1] = "close"
        BY <1>1, <2>1
    <2> HIDE DEF z
    <2> QED BY <1>2, <2>1, <2>2
<1> HIDE DEF z
<1>4. z[1] = "open" /\ \A k \in 1..M : z[1 + k] = inner[k]
    BY <1>2, <1>3
<1>5. /\ \A unit, n : n \in Nat => A(unit, n) \in Nat /\ B(unit, n) \in Nat
      /\ \A unit : A(unit, 0) = 0
      /\ \A unit, n : n \in Nat => A(unit, n + 1) = IF z[n + 1] = unit THEN A(unit, n) + 1
                                                                     ELSE A(unit, n)
    BY AmountStep
<1>6. ASSUME NEW unit, NEW n \in 0..M PROVE A(unit, 1 + n) = A(unit, 1) + B(unit, n)
    <2>1. Within(z, inner, 1, M)
        BY <1>2, <1>4 DEF Within
    <2>2. Amount(unit, z, 1 + n) = Amount(unit, z, 1) + Amount(unit, inner, n)
        BY <2>1, AmountWithin
    <2> QED BY <2>2
<1> HIDE DEF A, B
<1>7. A("open", 1) = 1 /\ A("close", 1) = 0
    <2>1. \A unit : A(unit, 0 + 1) = IF z[0 + 1] = unit THEN A(unit, 0) + 1 ELSE A(unit, 0)
        BY <1>5
    <2> QED BY <1>4, <1>5, <2>1
<1>8. B("open", M) = B("close", M) /\ \A n \in 0..M : B("open", n) >= B("close", n)
    BY ClosedIs DEF B, M
<1>9. ASSUME NEW n \in 0..M PROVE A("open", 1 + n) # A("close", 1 + n)
    <2>1. n \in Nat
        BY <1>2
    <2>2. B("open", n) \in Nat /\ B("close", n) \in Nat /\ B("open", n) >= B("close", n)
        BY <1>5, <1>8, <2>1
    <2>3. A("open", 1 + n) = 1 + B("open", n) /\ A("close", 1 + n) = 0 + B("close", n)
        BY <1>6, <1>7
    <2> QED BY <2>2, <2>3
<1>10. A("open", M + 2) = A("close", M + 2)
    <2>1. /\ A("open", 1 + M) = 1 + B("open", M) /\ A("close", 1 + M) = B("close", M)
          /\ B("open", M) \in Nat
        <3>0. M \in Nat
            BY <1>2
        <3>1. M \in 0..M /\ B("open", M) \in Nat /\ B("close", M) \in Nat
            BY <1>5, <3>0
        <3>2. A("open", 1 + M) = 1 + B("open", M) /\ A("close", 1 + M) = 0 + B("close", M)
            BY <1>6, <1>7, <3>1
        <3> QED BY <3>1, <3>2
    <2>2. \A unit : A(unit, (1 + M) + 1) = IF z[(1 + M) + 1] = unit THEN A(unit, 1 + M) + 1
                                                                  ELSE A(unit, 1 + M)
        <3>1. 1 + M \in Nat
            BY <1>2
        <3> QED BY <1>5, <3>1
    <2>3. (1 + M) + 1 = M + 2
        BY <1>2
    <2> QED BY <1>3, <1>8, <2>1, <2>2, <2>3
<1>11. /\ at \in Nat /\ Len(text) \in Nat /\ at + (M + 2) <= Len(text)
       /\ \A k \in 1..(M + 2) : text[at + k] = z[k]
    BY <1>3, LenProperties DEF Placed, z, w
<1>12. ASSUME NEW n \in 1..(M + 2), NEW unit PROVE Count(unit, String(at, n)) = A(unit, n)
    <2> DEFINE c == String(at, n)
    <2>1. /\ at + 1 \in Int /\ at + n \in Int /\ n \in Nat
          /\ (at + n) - (at + 1) + 1 = n /\ at + 1 <= at + n
        BY <1>2, <1>11
    <2>2. \A k \in (at + 1)..(at + n) : text[k] \in Units
        <3>1. \A k \in (at + 1)..(at + n) : k \in 1..Len(text)
            BY <1>2, <1>11
        <3> QED BY <3>1, ElementOfSeq
    <2>3. /\ c \in Seq(Units) /\ Len(c) = n
          /\ \A k \in 1..n : c[k] = text[(at + 1) + k - 1]
        BY <2>1, <2>2, SubSeqProperties DEF String
    <2> HIDE DEF c
    <2>4. DOMAIN c = 1..n
        BY <2>3, LenProperties
    <2>5. \A k \in 1..n : c[k] = z[k]
        <3>1. \A k \in 1..n : (at + 1) + k - 1 = at + k /\ k \in 1..(M + 2)
            BY <1>2, <1>11
        <3> QED BY <1>11, <2>3, <3>1
    <2>6. {k \in DOMAIN c : c[k] = unit} = {k \in 1..n : z[k] = unit}
        BY <2>4, <2>5
    <2> QED BY <2>6 DEF Count, A, Amount, c
<1>13. M + 2 \in T
    <2>1. M + 2 \in 1..(M + 2) /\ M + 2 \in 1..(Len(text) - at)
        BY <1>2, <1>11
    <2> QED BY <1>10, <1>12, <2>1
<1>14. ASSUME NEW n \in T PROVE M + 2 <= n
    <2>1. n \in Nat /\ n >= 1 /\ Count("open", String(at, n)) = Count("close", String(at, n))
        BY <1>11
    <2>2. CASE n <= M + 1
        <3>1. n - 1 \in 0..M /\ 1 + (n - 1) = n /\ n \in 1..(M + 2)
            BY <1>2, <2>1, <2>2
        <3>2. A("open", n) # A("close", n)
            BY <1>9, <3>1
        <3> QED BY <1>12, <2>1, <3>1, <3>2
    <2> QED BY <1>2, <2>1, <2>2
<1>15. T \subseteq Nat
    BY <1>11
<1>16. find_closing_bracket(at) = Least(T)
    BY DEF find_closing_bracket
<1> HIDE DEF T
<1> QED BY <1>13, <1>14, <1>15, <1>16, LeastIs DEF M


-----------------------------------------------------------------------------
(* Base 64 *)

(* A function on the first numbers is a sequence. *)
LEMMA SeqIs ==
    ASSUME NEW n \in Nat, NEW S, NEW f \in [1..n -> S]
    PROVE  f \in Seq(S) /\ Len(f) = n
<1>1. f \in Seq(S)
    BY SeqDef
<1>2. Len(f) \in Nat /\ 1..Len(f) = 1..n
    BY <1>1, LenProperties
<1> QED BY <1>1, <1>2

(* A digit is its character of the alphabet. *)
LEMMA DigitIs ==
    ASSUME NEW c \in 0..63
    PROVE  code2char(c) \in Nat /\ Alphabet[c + 1] = code2char(c)
<1> DEFINE A == [k \in 1..26 |-> 64 + k]
           N == Nat
           B == [k \in 1..26 |-> 96 + k]
           C == [k \in 1..10 |-> 47 + k]
           D == <<43, 47>>
<1>1. A \in Seq(N) /\ Len(A) = 26 /\ B \in Seq(N) /\ Len(B) = 26 /\ C \in Seq(N) /\ Len(C) = 10
    <2>1. A \in [1..26 -> N] /\ B \in [1..26 -> N] /\ C \in [1..10 -> N]
        OBVIOUS
    <2> HIDE DEF A, B, C
    <2> QED BY <2>1, SeqIs DEF N
<1>2. D \in Seq(N) /\ Len(D) = 2 /\ D[1] = 43 /\ D[2] = 47
    BY DEF N
<1>3. /\ \A k \in 1..26 : A[k] = 64 + k /\ B[k] = 96 + k
      /\ \A k \in 1..10 : C[k] = 47 + k
    OBVIOUS
<1>4. Alphabet = ((A \o B) \o C) \o D
    BY DEF Alphabet
<1> HIDE DEF A, B, C, D, N
<1> DEFINE U == A \o B
           V == U \o C
           W == V \o D
<1>5. U \in Seq(N) /\ Len(U) = 52 /\ (\A k \in 1..26 : U[k] = A[k] /\ U[26 + k] = B[k])
    <2>0. A \in Seq(N) /\ B \in Seq(N)
        BY <1>1
    <2>1. /\ U \in Seq(N) /\ Len(U) = Len(A) + Len(B)
          /\ \A k \in 1..Len(A) : U[k] = A[k]
          /\ \A k \in 1..Len(B) : U[Len(A) + k] = B[k]
        BY <2>0, ConcatIs
    <2> HIDE DEF U
    <2> QED BY <1>1, <2>1
<1> HIDE DEF U
<1>6. /\ V \in Seq(N) /\ Len(V) = 62
      /\ \A k \in 1..52 : V[k] = U[k]
      /\ \A k \in 1..10 : V[52 + k] = C[k]
    <2>0. U \in Seq(N) /\ C \in Seq(N)
        BY <1>1, <1>5
    <2>1. /\ V \in Seq(N) /\ Len(V) = Len(U) + Len(C)
          /\ \A k \in 1..Len(U) : V[k] = U[k]
          /\ \A k \in 1..Len(C) : V[Len(U) + k] = C[k]
        BY <2>0, ConcatIs
    <2> HIDE DEF V
    <2> QED BY <1>1, <1>5, <2>1
<1> HIDE DEF V
<1>7. (\A k \in 1..62 : W[k] = V[k]) /\ W[63] = 43 /\ W[64] = 47
    <2>0. V \in Seq(N) /\ D \in Seq(N)
        BY <1>2, <1>6
    <2>1. /\ \A k \in 1..Len(V) : W[k] = V[k]
          /\ \A k \in 1..Len(D) : W[Len(V) + k] = D[k]
        BY <2>0, ConcatIs
    <2> HIDE DEF W
    <2>2. W[62 + 1] = D[1] /\ W[62 + 2] = D[2]
        BY <1>2, <1>6, <2>1
    <2> QED BY <1>2, <1>6, <2>1, <2>2
<1>8. Alphabet = W
    BY <1>4 DEF U, V, W
<1> HIDE DEF W
<1>10. CASE c <= 25
    <2>1. PICK k \in 1..26 : k = c + 1
        BY <1>10
    <2>2. k \in 1..52 /\ k \in 1..62
        OBVIOUS
    <2>3. W[k] = 64 + k
        <3>1. A[k] = 64 + k /\ U[k] = A[k]
            BY <1>3, <1>5
        <3>2. V[k] = U[k] /\ W[k] = V[k]
            BY <1>6, <1>7, <2>2
        <3> QED BY <3>1, <3>2
    <2> QED BY <1>8, <1>10, <2>1, <2>3 DEF code2char
<1>11. CASE 25 < c /\ c <= 51
    <2>1. PICK k \in 1..26 : 26 + k = c + 1
        <3>1. (c + 1) - 26 \in 1..26 /\ 26 + ((c + 1) - 26) = c + 1
            BY <1>11
        <3> QED BY <3>1
    <2>2. 26 + k \in 1..52 /\ 26 + k \in 1..62
        OBVIOUS
    <2>3. W[26 + k] = 96 + k
        <3>1. B[k] = 96 + k /\ U[26 + k] = B[k]
            BY <1>3, <1>5
        <3>2. V[26 + k] = U[26 + k] /\ W[26 + k] = V[26 + k]
            <4> DEFINE m == 26 + k
            <4>1. m \in 1..52 /\ m \in 1..62
                BY <2>2
            <4> HIDE DEF m
            <4>2. V[m] = U[m] /\ W[m] = V[m]
                BY <1>6, <1>7, <4>1
            <4> QED BY <4>2 DEF m
        <3> QED BY <3>1, <3>2
    <2> QED BY <1>8, <1>11, <2>1, <2>3 DEF code2char
<1>12. CASE 51 < c /\ c <= 61
    <2>1. PICK k \in 1..10 : 52 + k = c + 1
        <3>1. (c + 1) - 52 \in 1..10 /\ 52 + ((c + 1) - 52) = c + 1
            BY <1>12
        <3> QED BY <3>1
    <2>2. 52 + k \in 1..62
        OBVIOUS
    <2>3. W[52 + k] = 47 + k
        <3>1. C[k] = 47 + k /\ V[52 + k] = C[k]
            BY <1>3, <1>6
        <3>2. W[52 + k] = V[52 + k]
            <4> DEFINE m == 52 + k
            <4>1. m \in 1..62
                BY <2>2
            <4> HIDE DEF m
            <4>2. W[m] = V[m]
                BY <1>7, <4>1
            <4> QED BY <4>2 DEF m
        <3> QED BY <3>1, <3>2
    <2> QED BY <1>8, <1>12, <2>1, <2>3 DEF code2char
<1>13. CASE c = 62 \/ c = 63
    BY <1>7, <1>8, <1>13 DEF code2char
<1> QED BY <1>10, <1>11, <1>12, <1>13

(* A byte, and zero behind the last. *)
Byte(bytes, m) == IF m <= Len(bytes) THEN bytes[m] ELSE 0

(* It is a byte in either case. *)
LEMMA ByteType ==
    ASSUME NEW bytes \in Seq(0..255), NEW m \in Nat \ {0}
    PROVE  Byte(bytes, m) \in 0..255
<1>1. Len(bytes) \in Nat /\ \A k \in 1..Len(bytes) : bytes[k] \in 0..255
    BY LenProperties, ElementOfSeq
<1> QED BY <1>1 DEF Byte

(* The bits of the bytes, *)
LEMMA BitIs ==
    ASSUME NEW bytes \in Seq(0..255), NEW q \in Nat, NEW e \in 1..8
    PROVE  Bit(bytes, 8 * q + e) = (Byte(bytes, q + 1) \div Powers[9 - e]) % 2
<1> DEFINE k == 8 * q + e
<1>1. (k - 1) \div 8 = q /\ (k - 1) % 8 = e - 1 /\ 8 - (e - 1) = 9 - e
    OBVIOUS
<1>2. Len(bytes) \in Nat
    BY LenProperties
<1>3. k > 8 * Len(bytes) <=> ~ (q + 1 <= Len(bytes))
    BY <1>2
<1>4. Powers[9 - e] \in Nat \ {0}
    BY DEF Powers
<1>5. (0 \div Powers[9 - e]) % 2 = 0
    BY <1>4
<1> HIDE DEF k
<1> QED BY <1>1, <1>3, <1>5 DEF Bit, Byte, k

(* Six bits of three bytes, as numbers. *)
BitOf(byte, power) == (byte \div power) % 2
SixOf(b1, b2, b3, b4, b5, b6) == b1 * 32 + b2 * 16 + b3 * 8 + b4 * 4 + b5 * 2 + b6 * 1

(* The shifts and masks of img_vars are the bits they stand for. *)
LEMMA SixBits ==
    /\ \A a \in 0..255 :
           (a \div 4) % 64 =
               SixOf(BitOf(a, 128), BitOf(a, 64), BitOf(a, 32), BitOf(a, 16), BitOf(a, 8), BitOf(a, 4))
    /\ \A a, b \in 0..255 :
           ((a % 4) * 16) + ((b \div 16) % 16) =
               SixOf(BitOf(a, 2), BitOf(a, 1), BitOf(b, 128), BitOf(b, 64), BitOf(b, 32), BitOf(b, 16))
    /\ \A a, b \in 0..255 :
           ((a % 16) * 4) + ((b \div 64) % 4) =
               SixOf(BitOf(a, 8), BitOf(a, 4), BitOf(a, 2), BitOf(a, 1), BitOf(b, 128), BitOf(b, 64))
    /\ \A a \in 0..255 :
           a % 64 =
               SixOf(BitOf(a, 32), BitOf(a, 16), BitOf(a, 8), BitOf(a, 4), BitOf(a, 2), BitOf(a, 1))
<1>1. ASSUME NEW a \in 0..255
      PROVE  (a \div 4) % 64 =
                 SixOf(BitOf(a, 128), BitOf(a, 64), BitOf(a, 32), BitOf(a, 16), BitOf(a, 8), BitOf(a, 4))
    BY SMTT(60) DEF SixOf, BitOf
<1>2. ASSUME NEW a \in 0..255, NEW b \in 0..255
      PROVE  ((a % 4) * 16) + ((b \div 16) % 16) =
                 SixOf(BitOf(a, 2), BitOf(a, 1), BitOf(b, 128), BitOf(b, 64), BitOf(b, 32), BitOf(b, 16))
    BY SMTT(60) DEF SixOf, BitOf
<1>3. ASSUME NEW a \in 0..255, NEW b \in 0..255
      PROVE  ((a % 16) * 4) + ((b \div 64) % 4) =
                 SixOf(BitOf(a, 8), BitOf(a, 4), BitOf(a, 2), BitOf(a, 1), BitOf(b, 128), BitOf(b, 64))
    BY SMTT(60) DEF SixOf, BitOf
<1>4. ASSUME NEW a \in 0..255
      PROVE  a % 64 =
                 SixOf(BitOf(a, 32), BitOf(a, 16), BitOf(a, 8), BitOf(a, 4), BitOf(a, 2), BitOf(a, 1))
    BY SMTT(60) DEF SixOf, BitOf
<1> QED BY <1>1, <1>2, <1>3, <1>4

(* in groups of six, *)
Group(bytes, g) ==
    Bit(bytes, 6 * g - 6 + 1) * Powers[7 - 1] + Bit(bytes, 6 * g - 6 + 2) * Powers[7 - 2]
    + Bit(bytes, 6 * g - 6 + 3) * Powers[7 - 3] + Bit(bytes, 6 * g - 6 + 4) * Powers[7 - 4]
    + Bit(bytes, 6 * g - 6 + 5) * Powers[7 - 5] + Bit(bytes, 6 * g - 6 + 6) * Powers[7 - 6]

Octets == 0..255

ThreeBytes(bytes, p, a, b, c) ==
    a = Byte(bytes, 3 * p + 1) /\ b = Byte(bytes, 3 * p + 2) /\ c = Byte(bytes, 3 * p + 3)

First(a) == (a \div 4) % 64
Second(a, b) == ((a % 4) * 16) + ((b \div 16) % 16)
Third(b, c) == ((b % 16) * 4) + ((c \div 64) % 4)
Fourth(c) == c % 64

GroupOf(bytes, p, k) == Group(bytes, 4 * p + k)

(* are what the shifts and masks of the code make. *)
LEMMA GroupIs ==
    ASSUME NEW bytes \in Seq(Octets), NEW p \in Nat,
           NEW a \in Octets, NEW b \in Octets, NEW c \in Octets,
           ThreeBytes(bytes, p, a, b, c)
    PROVE  /\ GroupOf(bytes, p, 1) = First(a) /\ GroupOf(bytes, p, 2) = Second(a, b)
           /\ GroupOf(bytes, p, 3) = Third(b, c) /\ GroupOf(bytes, p, 4) = Fourth(c)
<1> a = Byte(bytes, 3 * p + 1) /\ b = Byte(bytes, 3 * p + 2) /\ c = Byte(bytes, 3 * p + 3)
    BY DEF ThreeBytes
<1>1. ASSUME NEW q \in Nat, NEW d, d = Byte(bytes, q + 1)
      PROVE  /\ Bit(bytes, 8 * q + 1) = BitOf(d, 128) /\ Bit(bytes, 8 * q + 2) = BitOf(d, 64)
             /\ Bit(bytes, 8 * q + 3) = BitOf(d, 32) /\ Bit(bytes, 8 * q + 4) = BitOf(d, 16)
             /\ Bit(bytes, 8 * q + 5) = BitOf(d, 8) /\ Bit(bytes, 8 * q + 6) = BitOf(d, 4)
             /\ Bit(bytes, 8 * q + 7) = BitOf(d, 2) /\ Bit(bytes, 8 * q + 8) = BitOf(d, 1)
    <2>2. /\ 128 = Powers[9 - 1] /\ 64 = Powers[9 - 2] /\ 32 = Powers[9 - 3] /\ 16 = Powers[9 - 4]
          /\ 8 = Powers[9 - 5] /\ 4 = Powers[9 - 6] /\ 2 = Powers[9 - 7] /\ 1 = Powers[9 - 8]
        BY DEF Powers
    <2>3. 1 \in 1..8 /\ 2 \in 1..8 /\ 3 \in 1..8 /\ 4 \in 1..8 /\ 5 \in 1..8 /\ 6 \in 1..8
          /\ 7 \in 1..8 /\ 8 \in 1..8
        OBVIOUS
    <2> DEFINE At(e) == Bit(bytes, 8 * q + e)
    <2>4. \A e \in 1..8 : At(e) = (d \div Powers[9 - e]) % 2
        BY <1>1, BitIs DEF Octets
    <2> HIDE DEF At
    <2>5. /\ At(1) = BitOf(d, 128) /\ At(2) = BitOf(d, 64)
          /\ At(3) = BitOf(d, 32) /\ At(4) = BitOf(d, 16)
          /\ At(5) = BitOf(d, 8) /\ At(6) = BitOf(d, 4)
          /\ At(7) = BitOf(d, 2) /\ At(8) = BitOf(d, 1)
        BY <2>2, <2>3, <2>4 DEF BitOf
    <2> QED BY <2>5 DEF At
<1>2. 3 * p \in Nat /\ 3 * p + 1 \in Nat /\ 3 * p + 2 \in Nat
    OBVIOUS
<1>3. /\ Bit(bytes, 24 * p + 1) = BitOf(a, 128) /\ Bit(bytes, 24 * p + 2) = BitOf(a, 64)
      /\ Bit(bytes, 24 * p + 3) = BitOf(a, 32) /\ Bit(bytes, 24 * p + 4) = BitOf(a, 16)
      /\ Bit(bytes, 24 * p + 5) = BitOf(a, 8) /\ Bit(bytes, 24 * p + 6) = BitOf(a, 4)
      /\ Bit(bytes, 24 * p + 7) = BitOf(a, 2) /\ Bit(bytes, 24 * p + 8) = BitOf(a, 1)
    <2>1. PICK q \in Nat : q = 3 * p
        BY <1>2
    <2>2. a = Byte(bytes, q + 1) /\ 8 * q = 24 * p
        BY <2>1
    <2> QED BY <1>1, <2>2
<1>4. /\ Bit(bytes, 24 * p + 9) = BitOf(b, 128) /\ Bit(bytes, 24 * p + 10) = BitOf(b, 64)
      /\ Bit(bytes, 24 * p + 11) = BitOf(b, 32) /\ Bit(bytes, 24 * p + 12) = BitOf(b, 16)
      /\ Bit(bytes, 24 * p + 13) = BitOf(b, 8) /\ Bit(bytes, 24 * p + 14) = BitOf(b, 4)
      /\ Bit(bytes, 24 * p + 15) = BitOf(b, 2) /\ Bit(bytes, 24 * p + 16) = BitOf(b, 1)
    <2>1. PICK q \in Nat : q = 3 * p + 1
        BY <1>2
    <2>2. q + 1 = 3 * p + 2 /\ 8 * q = 24 * p + 8
        BY <2>1
    <2>3. b = Byte(bytes, q + 1)
        BY <2>2
    <2>4. /\ Bit(bytes, 8 * q + 1) = BitOf(b, 128) /\ Bit(bytes, 8 * q + 2) = BitOf(b, 64)
          /\ Bit(bytes, 8 * q + 3) = BitOf(b, 32) /\ Bit(bytes, 8 * q + 4) = BitOf(b, 16)
          /\ Bit(bytes, 8 * q + 5) = BitOf(b, 8) /\ Bit(bytes, 8 * q + 6) = BitOf(b, 4)
          /\ Bit(bytes, 8 * q + 7) = BitOf(b, 2) /\ Bit(bytes, 8 * q + 8) = BitOf(b, 1)
        BY <1>1, <2>3
    <2>5. /\ 8 * q + 1 = 24 * p + 9 /\ 8 * q + 2 = 24 * p + 10
          /\ 8 * q + 3 = 24 * p + 11 /\ 8 * q + 4 = 24 * p + 12
          /\ 8 * q + 5 = 24 * p + 13 /\ 8 * q + 6 = 24 * p + 14
          /\ 8 * q + 7 = 24 * p + 15 /\ 8 * q + 8 = 24 * p + 16
        BY <2>2
    <2> QED BY <2>4, <2>5
<1>5. /\ Bit(bytes, 24 * p + 17) = BitOf(c, 128) /\ Bit(bytes, 24 * p + 18) = BitOf(c, 64)
      /\ Bit(bytes, 24 * p + 19) = BitOf(c, 32) /\ Bit(bytes, 24 * p + 20) = BitOf(c, 16)
      /\ Bit(bytes, 24 * p + 21) = BitOf(c, 8) /\ Bit(bytes, 24 * p + 22) = BitOf(c, 4)
      /\ Bit(bytes, 24 * p + 23) = BitOf(c, 2) /\ Bit(bytes, 24 * p + 24) = BitOf(c, 1)
    <2>1. PICK q \in Nat : q = 3 * p + 2
        BY <1>2
    <2>2. q + 1 = 3 * p + 3 /\ 8 * q = 24 * p + 16
        BY <2>1
    <2>3. c = Byte(bytes, q + 1)
        BY <2>2
    <2>4. /\ Bit(bytes, 8 * q + 1) = BitOf(c, 128) /\ Bit(bytes, 8 * q + 2) = BitOf(c, 64)
          /\ Bit(bytes, 8 * q + 3) = BitOf(c, 32) /\ Bit(bytes, 8 * q + 4) = BitOf(c, 16)
          /\ Bit(bytes, 8 * q + 5) = BitOf(c, 8) /\ Bit(bytes, 8 * q + 6) = BitOf(c, 4)
          /\ Bit(bytes, 8 * q + 7) = BitOf(c, 2) /\ Bit(bytes, 8 * q + 8) = BitOf(c, 1)
        BY <1>1, <2>3
    <2>5. /\ 8 * q + 1 = 24 * p + 17 /\ 8 * q + 2 = 24 * p + 18
          /\ 8 * q + 3 = 24 * p + 19 /\ 8 * q + 4 = 24 * p + 20
          /\ 8 * q + 5 = 24 * p + 21 /\ 8 * q + 6 = 24 * p + 22
          /\ 8 * q + 7 = 24 * p + 23 /\ 8 * q + 8 = 24 * p + 24
        BY <2>2
    <2> QED BY <2>4, <2>5
<1>6. /\ Powers[7 - 1] = 32 /\ Powers[7 - 2] = 16 /\ Powers[7 - 3] = 8
      /\ Powers[7 - 4] = 4 /\ Powers[7 - 5] = 2 /\ Powers[7 - 6] = 1
    BY DEF Powers
<1>7. Group(bytes, 4 * p + 1) = (a \div 4) % 64
    <2>1. 6 * (4 * p + 1) - 6 = 24 * p
        OBVIOUS
    <2>2. Group(bytes, 4 * p + 1) =
              SixOf(BitOf(a, 128), BitOf(a, 64), BitOf(a, 32), BitOf(a, 16), BitOf(a, 8), BitOf(a, 4))
        BY <1>3, <1>6, <2>1 DEF Group, SixOf
    <2> QED BY <2>2, SixBits DEF Octets
<1>8. Group(bytes, 4 * p + 2) = ((a % 4) * 16) + ((b \div 16) % 16)
    <2>1. 6 * (4 * p + 2) - 6 = 24 * p + 6
        OBVIOUS
    <2>2. Group(bytes, 4 * p + 2) =
              SixOf(BitOf(a, 2), BitOf(a, 1), BitOf(b, 128), BitOf(b, 64), BitOf(b, 32), BitOf(b, 16))
        BY <1>3, <1>4, <1>6, <2>1 DEF Group, SixOf
    <2>3. ((a % 4) * 16) + ((b \div 16) % 16) =
              SixOf(BitOf(a, 2), BitOf(a, 1), BitOf(b, 128), BitOf(b, 64), BitOf(b, 32), BitOf(b, 16))
        <3> DEFINE C(x, y) == ((x % 4) * 16) + ((y \div 16) % 16)
                   D(x, y) == SixOf(BitOf(x, 2), BitOf(x, 1), BitOf(y, 128), BitOf(y, 64), BitOf(y, 32),
                                    BitOf(y, 16))
        <3>1. \A x, y \in 0..255 : C(x, y) = D(x, y)
            BY SixBits DEF Octets
        <3> HIDE DEF C, D
        <3>2. C(a, b) = D(a, b)
            BY <3>1 DEF Octets
        <3> QED BY <3>2 DEF C, D
    <2> QED BY <2>2, <2>3
<1>9. Group(bytes, 4 * p + 3) = ((b % 16) * 4) + ((c \div 64) % 4)
    <2>1. 6 * (4 * p + 3) - 6 = 24 * p + 12
        OBVIOUS
    <2>2. Group(bytes, 4 * p + 3) =
              SixOf(BitOf(b, 8), BitOf(b, 4), BitOf(b, 2), BitOf(b, 1), BitOf(c, 128), BitOf(c, 64))
        BY <1>4, <1>5, <1>6, <2>1 DEF Group, SixOf
    <2> QED BY <2>2, SixBits DEF Octets
<1>10. Group(bytes, 4 * p + 4) = c % 64
    <2>1. 6 * (4 * p + 4) - 6 = 24 * p + 18
        OBVIOUS
    <2>2. Group(bytes, 4 * p + 4) =
              SixOf(BitOf(c, 32), BitOf(c, 16), BitOf(c, 8), BitOf(c, 4), BitOf(c, 2), BitOf(c, 1))
        BY <1>5, <1>6, <2>1 DEF Group, SixOf
    <2> QED BY <2>2, SixBits DEF Octets
<1> QED BY <1>7, <1>8, <1>9, <1>10 DEF GroupOf, First, Second, Third, Fourth

(* Sequences of four, put together. *)
LEMMA FourEach ==
    ASSUME NEW S, NEW s \in Seq(Seq(S)), \A k \in 1..Len(s) : Len(s[k]) = 4
    PROVE  /\ FlattenSeq(s) \in Seq(S)
           /\ Len(FlattenSeq(s)) = 4 * Len(s)
           /\ \A k \in 1..Len(s), c \in 1..4 : FlattenSeq(s)[4 * (k - 1) + c] = s[k][c]
<1>1. PICK u : IsUpto(u, s, S) /\ FlattenSeq(s) = u[Len(s)]
    BY FlattenIs
<1> DEFINE N == Len(s)
           Bad == {m \in 0..N : Len(u[m]) # 4 * m}
<1>2. N \in Nat
    BY LenProperties
<1>3. ASSUME NEW m \in 1..N PROVE Len(u[m]) = Len(u[m - 1]) + 4 /\ Len(u[m - 1]) \in Nat
    <2>1. m \in 1..Len(s) /\ IsUpto(u, s, S)
        BY <1>1
    <2>2. Len(s[m]) = 4
        BY <2>1
    <2>3. Len(u[m]) = Before(u, m) + Len(s[m]) /\ Before(u, m) \in Nat
        BY <2>1, UptoPlaced
    <2> QED BY <2>2, <2>3 DEF Before
<1>4. Len(u[0]) = 0
    BY <1>1, EmptySeq DEF IsUpto
<1> HIDE DEF N
<1>5. Bad = {}
    <2> SUFFICES ASSUME Bad # {} PROVE FALSE
        OBVIOUS
    <2>0. Bad \subseteq Nat
        BY <1>2
    <2>1. PICK m \in Bad : \A y \in Bad : m <= y
        <3> HIDE DEF Bad
        <3> QED BY <2>0, LeastNat
    <2>2. m \in 1..N /\ Len(u[m]) # 4 * m
        BY <1>2, <1>4, <2>1
    <2>3. m - 1 \in 0..N /\ ~ (m <= m - 1)
        BY <1>2, <2>2
    <2>4. Len(u[m - 1]) = 4 * (m - 1)
        <3>1. m - 1 \notin Bad
            <4>1. m \in Bad => (m - 1 \in Bad => m <= m - 1)
                <5> HIDE DEF Bad
                <5> QED BY <2>1
            <4> HIDE DEF Bad
            <4> QED BY <2>1, <2>3, <4>1
        <3> QED BY <2>3, <3>1
    <2>5. Len(u[m]) = Len(u[m - 1]) + 4
        BY <1>3, <2>2
    <2> QED BY <2>2, <2>4, <2>5
<1>6. ASSUME NEW m \in 0..N PROVE Len(u[m]) = 4 * m
    BY <1>5
<1>7. u[N] \in Seq(S) /\ Len(u[N]) = 4 * N
    <2>1. N \in 0..N
        BY <1>2
    <2> QED BY <1>1, <1>6, <2>1 DEF IsUpto, N
<1>8. ASSUME NEW k \in 1..N, NEW c \in 1..4 PROVE u[N][4 * (k - 1) + c] = s[k][c]
    <2>1. k - 1 \in 0..N
        BY <1>2
    <2>2. Len(u[k - 1]) = 4 * (k - 1)
        BY <1>6, <2>1
    <2>3. \A d \in 1..Len(s[k]) : u[N][Len(u[k - 1]) + d] = s[k][d]
        <3>1. k \in 1..Len(s) /\ IsUpto(u, s, S)
            BY <1>1 DEF N
        <3>2. \A d \in 1..Len(s[k]) : u[Len(s)][Before(u, k) + d] = s[k][d]
            BY <3>1, UptoPlaced
        <3> QED BY <3>2 DEF Before, N
    <2>4. Len(s[k]) = 4
        BY DEF N
    <2> QED BY <2>2, <2>3, <2>4
<1> QED BY <1>1, <1>7, <1>8 DEF N

(* The four digits of three bytes. *)
LEMMA FourAre ==
    ASSUME NEW S, NEW a \in S, NEW b \in S, NEW c \in S, NEW d \in S
    PROVE  /\ <<a, b, c, d>> \in Seq(S) /\ Len(<<a, b, c, d>>) = 4
           /\ <<a, b, c, d>>[1] = a /\ <<a, b, c, d>>[2] = b
           /\ <<a, b, c, d>>[3] = c /\ <<a, b, c, d>>[4] = d
OBVIOUS

(* A triplet is the characters of its four groups. *)
LEMMA TripletIs ==
    ASSUME NEW bytes \in Seq(Octets), NEW p \in Nat,
           NEW a \in Octets, NEW b \in Octets, NEW c \in Octets,
           ThreeBytes(bytes, p, a, b, c)
    PROVE  /\ Triplet(a, b, c) \in Seq(Nat) /\ Len(Triplet(a, b, c)) = 4
           /\ \A k \in 1..4 : Alphabet[GroupOf(bytes, p, k) + 1] = Triplet(a, b, c)[k]
<1>1. /\ GroupOf(bytes, p, 1) = First(a) /\ GroupOf(bytes, p, 2) = Second(a, b)
      /\ GroupOf(bytes, p, 3) = Third(b, c) /\ GroupOf(bytes, p, 4) = Fourth(c)
    BY GroupIs, Zenon
<1> DEFINE d1 == First(a)
           d2 == Second(a, b)
           d3 == Third(b, c)
           d4 == Fourth(c)
<1>2. /\ GroupOf(bytes, p, 1) = d1 /\ GroupOf(bytes, p, 2) = d2
      /\ GroupOf(bytes, p, 3) = d3 /\ GroupOf(bytes, p, 4) = d4
    BY <1>1
<1>3. d1 \in 0..63 /\ d2 \in 0..63 /\ d3 \in 0..63 /\ d4 \in 0..63
    <2>1. ASSUME NEW x \in Octets, NEW y \in Octets
          PROVE  First(x) \in 0..63 /\ Second(x, y) \in 0..63 /\ Third(x, y) \in 0..63 /\ Fourth(x) \in 0..63
        BY SMTT(60) DEF Octets, First, Second, Third, Fourth
    <2> QED BY <2>1
<1>4. Triplet(a, b, c) = <<code2char(d1), code2char(d2), code2char(d3), code2char(d4)>>
    BY DEF Triplet, First, Second, Third, Fourth
<1> HIDE DEF d1, d2, d3, d4
<1>5. /\ code2char(d1) \in Nat /\ code2char(d2) \in Nat /\ code2char(d3) \in Nat /\ code2char(d4) \in Nat
      /\ Alphabet[d1 + 1] = code2char(d1) /\ Alphabet[d2 + 1] = code2char(d2)
      /\ Alphabet[d3 + 1] = code2char(d3) /\ Alphabet[d4 + 1] = code2char(d4)
    BY <1>3, DigitIs
<1>6. /\ Triplet(a, b, c) \in Seq(Nat) /\ Len(Triplet(a, b, c)) = 4
      /\ Triplet(a, b, c)[1] = code2char(d1) /\ Triplet(a, b, c)[2] = code2char(d2)
      /\ Triplet(a, b, c)[3] = code2char(d3) /\ Triplet(a, b, c)[4] = code2char(d4)
    <2> DEFINE c1 == code2char(d1)
               c2 == code2char(d2)
               c3 == code2char(d3)
               c4 == code2char(d4)
    <2>1. c1 \in Nat /\ c2 \in Nat /\ c3 \in Nat /\ c4 \in Nat
        BY <1>5
    <2> HIDE DEF c1, c2, c3, c4
    <2>2. /\ <<c1, c2, c3, c4>> \in Seq(Nat) /\ Len(<<c1, c2, c3, c4>>) = 4
          /\ <<c1, c2, c3, c4>>[1] = c1 /\ <<c1, c2, c3, c4>>[2] = c2
          /\ <<c1, c2, c3, c4>>[3] = c3 /\ <<c1, c2, c3, c4>>[4] = c4
        BY <2>1
    <2> QED BY <1>4, <2>2 DEF c1, c2, c3, c4
<1>7. ASSUME NEW k \in 1..4
      PROVE  Alphabet[GroupOf(bytes, p, k) + 1] = Triplet(a, b, c)[k]
    <2>1. k = 1 \/ k = 2 \/ k = 3 \/ k = 4
        OBVIOUS
    <2> QED BY <1>2, <1>5, <1>6, <2>1
<1> QED BY <1>6, <1>7

(* So img_vars encodes an image as base 64 is defined. *)
THEOREM EncodedIs ==
    ASSUME NEW bytes \in Seq(Octets)
    PROVE  Encoded(bytes) = Base64(bytes) /\ Base64(bytes) \in Seq(Nat \cup {"="})
<1> DEFINE n == Len(bytes)
           q == n \div 3
           S == Nat \cup {"="}
           T == [k \in 1..q |-> Triplet(bytes[3 * k - 2], bytes[3 * k - 1], bytes[3 * k])]
           W == FlattenSeq(T)
           R == Rest(SubSeq(bytes, 3 * q + 1, n))
           size == 4 * ((n + 2) \div 3)
           digits == (8 * n + 5) \div 6
           B == [g \in 1..size |-> IF g > digits THEN "=" ELSE Alphabet[Group(bytes, g) + 1]]
<1>1. n \in Nat /\ \A k \in 1..n : bytes[k] \in Octets
    BY LenProperties, ElementOfSeq
<1>2. q \in Nat /\ 3 * q <= n /\ n <= 3 * q + 2
    <2>1. \A x \in Nat : x \div 3 \in Nat /\ 3 * (x \div 3) <= x /\ x <= 3 * (x \div 3) + 2
        OBVIOUS
    <2> HIDE DEF n
    <2> QED BY <1>1, <2>1
<1>3. Encoded(bytes) = W \o R
    BY DEF Encoded
<1>4. Base64(bytes) = B
    BY DEF Base64, Group
<1> HIDE DEF n, q
<1>5. ASSUME NEW k \in 1..q
      PROVE  /\ T[k] \in Seq(Nat) /\ Len(T[k]) = 4
             /\ \A c \in 1..4 : Alphabet[Group(bytes, 4 * (k - 1) + c) + 1] = T[k][c]
    <2>1. PICK p \in Nat : p = k - 1
        BY <1>2
    <2>2. /\ 3 * k - 2 = 3 * p + 1 /\ 3 * k - 1 = 3 * p + 2 /\ 3 * k = 3 * p + 3
          /\ 3 * k - 2 \in 1..n /\ 3 * k - 1 \in 1..n /\ 3 * k \in 1..n
        BY <1>1, <1>2, <2>1
    <2> DEFINE a == bytes[3 * k - 2]
               b == bytes[3 * k - 1]
               c == bytes[3 * k]
    <2>3. a \in Octets /\ b \in Octets /\ c \in Octets
        BY <1>1, <2>2
    <2>4. ThreeBytes(bytes, p, a, b, c)
        BY <1>1, <2>2 DEF ThreeBytes, Byte, n
    <2>5. T[k] = Triplet(a, b, c)
        OBVIOUS
    <2> HIDE DEF a, b, c, T
    <2>6. /\ Triplet(a, b, c) \in Seq(Nat) /\ Len(Triplet(a, b, c)) = 4
          /\ \A d \in 1..4 : Alphabet[GroupOf(bytes, p, d) + 1] = Triplet(a, b, c)[d]
        BY <2>3, <2>4, TripletIs
    <2> QED BY <2>1, <2>5, <2>6 DEF GroupOf
<1>6. /\ W \in Seq(Nat) /\ Len(W) = 4 * q
      /\ \A k \in 1..q, c \in 1..4 : W[4 * (k - 1) + c] = T[k][c]
    <2>1. T \in [1..q -> Seq(Nat)]
        BY <1>5
    <2> HIDE DEF T
    <2>2. T \in Seq(Seq(Nat)) /\ Len(T) = q
        BY <1>2, <2>1, SeqIs
    <2>3. \A k \in 1..Len(T) : Len(T[k]) = 4
        BY <1>5, <2>2
    <2>4. /\ W \in Seq(Nat) /\ Len(W) = 4 * Len(T)
          /\ \A k \in 1..Len(T), c \in 1..4 : W[4 * (k - 1) + c] = T[k][c]
        BY <2>2, <2>3, FourEach
    <2> QED BY <2>2, <2>4
<1> HIDE DEF W, T
<1>7. ASSUME NEW g \in 1..4 * q PROVE W[g] = Alphabet[Group(bytes, g) + 1]
    <2>1. PICK k \in 1..q, c \in 1..4 : g = 4 * (k - 1) + c
        <3>1. /\ (g - 1) \div 4 + 1 \in 1..q /\ ((g - 1) % 4) + 1 \in 1..4
              /\ g = 4 * (((g - 1) \div 4 + 1) - 1) + (((g - 1) % 4) + 1)
            BY <1>2
        <3> QED BY <3>1
    <2>2. W[4 * (k - 1) + c] = T[k][c]
        BY <1>6
    <2>3. Alphabet[Group(bytes, 4 * (k - 1) + c) + 1] = T[k][c]
        BY <1>5
    <2> QED BY <2>1, <2>2, <2>3
<1> DEFINE tail == SubSeq(bytes, 3 * q + 1, n)
           r == n - 3 * q
           a == bytes[3 * q + 1]
           b == bytes[3 * q + 2]
<1>8. r \in 0..2 /\ n = 3 * q + r
    BY <1>1, <1>2
<1> HIDE DEF r
<1>9. Len(tail) = r /\ \A k \in 1..r : tail[k] = bytes[3 * q + k]
    <2>1. 3 * q + 1 \in Int /\ n \in Int /\ n - (3 * q + 1) + 1 = r /\ (3 * q + 1 <= n <=> r # 0)
        BY <1>1, <1>2, <1>8
    <2>2. \A k \in (3 * q + 1)..n : bytes[k] \in Octets
        BY <1>1, <1>2
    <2>3. /\ Len(tail) = IF 3 * q + 1 <= n THEN n - (3 * q + 1) + 1 ELSE 0
          /\ \A k \in 1..n - (3 * q + 1) + 1 : tail[k] = bytes[(3 * q + 1) + k - 1]
        BY <2>1, <2>2, SubSeqProperties
    <2> HIDE DEF tail
    <2>4. \A k \in 1..r : tail[k] = bytes[3 * q + k]
        <3>1. \A k \in 1..r : (3 * q + 1) + k - 1 = 3 * q + k
            BY <1>2, <1>8
        <3> QED BY <2>1, <2>3, <3>1
    <2> QED BY <1>8, <2>1, <2>3, <2>4
<1>10. R = Rest(tail)
    OBVIOUS
<1> HIDE DEF tail, R
<1>11. size = (IF r = 0 THEN 4 * q ELSE 4 * q + 4) /\ digits = (IF r = 0 THEN 4 * q ELSE 4 * q + r + 1)
    BY <1>2, <1>8
<1> HIDE DEF size, digits
<1>12. /\ R \in Seq(S) /\ Len(R) = size - 4 * q
       /\ \A d \in 1..Len(R) : R[d] = IF 4 * q + d > digits THEN "=" ELSE Alphabet[Group(bytes, 4 * q + d) + 1]
    <2>1. CASE r = 0
        <3>1. R = <<>>
            BY <1>9, <1>10, <2>1 DEF Rest
        <3> QED BY <1>2, <1>11, <2>1, <3>1
    <2>2. CASE r = 1
        <3>1. ThreeBytes(bytes, q, a, 0, 0)
            BY <1>1, <1>2, <1>8, <2>2 DEF ThreeBytes, Byte, n
        <3>2. a \in Octets /\ 0 \in Octets
            BY <1>1, <1>2, <1>8, <2>2 DEF Octets
        <3> DEFINE t == Triplet(a, 0, 0)
        <3>3. /\ t \in Seq(Nat) /\ Len(t) = 4
              /\ \A k \in 1..4 : Alphabet[GroupOf(bytes, q, k) + 1] = t[k]
            BY <1>2, <3>1, <3>2, TripletIs
        <3>4. R = <<t[1], t[2], "=", "=">>
            <4>1. R = <<code2char((a \div 4) % 64), code2char((a % 4) * 16), "=", "=">>
                BY <1>2, <1>9, <1>10, <2>2 DEF Rest
            <4>2. PICK x \in 0..255 : x = a
                BY <3>2 DEF Octets
            <4>3. t[1] = code2char((a \div 4) % 64) /\ t[2] = code2char((a % 4) * 16)
                BY <4>2 DEF Triplet
            <4> QED BY <4>1, <4>3
        <3> HIDE DEF t
        <3>5. t[1] \in S /\ t[2] \in S /\ "=" \in S
            <4>1. ASSUME NEW k \in 1..Len(t) PROVE t[k] \in Nat
                BY <3>3, ElementOfSeq
            <4>2. \A k \in 1..2 : t[k] \in Nat
                BY <3>3, <4>1
            <4> QED BY <4>2
        <3> HIDE DEF S
        <3>6. /\ R \in Seq(S) /\ Len(R) = 4
              /\ R[1] = t[1] /\ R[2] = t[2] /\ R[3] = "=" /\ R[4] = "="
            BY <3>4, <3>5, FourAre
        <3>7. digits = 4 * q + 2 /\ size - 4 * q = 4
            BY <1>2, <1>11, <2>2
        <3>8. ASSUME NEW d \in 1..4
              PROVE  R[d] = IF 4 * q + d > digits THEN "=" ELSE Alphabet[Group(bytes, 4 * q + d) + 1]
            <4>1. 4 * q + d > digits <=> d \in {3, 4}
                BY <1>2, <3>7
            <4>2. d \in {1, 2} => R[d] = Alphabet[Group(bytes, 4 * q + d) + 1]
                BY <3>3, <3>6 DEF GroupOf
            <4> QED BY <3>6, <4>1, <4>2
        <3> QED BY <3>6, <3>7, <3>8
    <2>3. CASE r = 2
        <3>1. ThreeBytes(bytes, q, a, b, 0)
            BY <1>1, <1>2, <1>8, <2>3 DEF ThreeBytes, Byte, n
        <3>2. a \in Octets /\ b \in Octets /\ 0 \in Octets
            BY <1>1, <1>2, <1>8, <2>3 DEF Octets
        <3> DEFINE t == Triplet(a, b, 0)
        <3>3. /\ t \in Seq(Nat) /\ Len(t) = 4
              /\ \A k \in 1..4 : Alphabet[GroupOf(bytes, q, k) + 1] = t[k]
            BY <1>2, <3>1, <3>2, TripletIs
        <3>4. R = <<t[1], t[2], t[3], "=">>
            <4>1. R = <<code2char((a \div 4) % 64), code2char(((a % 4) * 16) + ((b \div 16) % 16)),
                        code2char((b % 16) * 4), "=">>
                BY <1>2, <1>9, <1>10, <2>3 DEF Rest
            <4>2. PICK x \in 0..255 : x = b
                BY <3>2 DEF Octets
            <4>3. /\ t[1] = code2char((a \div 4) % 64)
                  /\ t[2] = code2char(((a % 4) * 16) + ((b \div 16) % 16))
                  /\ t[3] = code2char((b % 16) * 4)
                BY <4>2 DEF Triplet
            <4> QED BY <4>1, <4>3
        <3> HIDE DEF t
        <3>5. t[1] \in S /\ t[2] \in S /\ t[3] \in S /\ "=" \in S
            <4>1. ASSUME NEW k \in 1..Len(t) PROVE t[k] \in Nat
                BY <3>3, ElementOfSeq
            <4>2. \A k \in 1..3 : t[k] \in Nat
                BY <3>3, <4>1
            <4> QED BY <4>2
        <3> HIDE DEF S
        <3>6. /\ R \in Seq(S) /\ Len(R) = 4
              /\ R[1] = t[1] /\ R[2] = t[2] /\ R[3] = t[3] /\ R[4] = "="
            BY <3>4, <3>5, FourAre
        <3>7. digits = 4 * q + 3 /\ size - 4 * q = 4
            BY <1>2, <1>11, <2>3
        <3>8. ASSUME NEW d \in 1..4
              PROVE  R[d] = IF 4 * q + d > digits THEN "=" ELSE Alphabet[Group(bytes, 4 * q + d) + 1]
            <4>1. 4 * q + d > digits <=> d = 4
                BY <1>2, <3>7
            <4>2. d \in {1, 2, 3} => R[d] = Alphabet[Group(bytes, 4 * q + d) + 1]
                BY <3>3, <3>6 DEF GroupOf
            <4> QED BY <3>6, <4>1, <4>2
        <3> QED BY <3>6, <3>7, <3>8
    <2> QED BY <1>8, <2>1, <2>2, <2>3
<1>13. W \in Seq(S)
    <2>1. Nat \subseteq S
        OBVIOUS
    <2> HIDE DEF S
    <2> QED BY <1>6, <2>1, SeqMonotonic
<1> DEFINE E == W \o R
<1>14. /\ E \in Seq(S) /\ Len(E) = Len(W) + Len(R)
       /\ \A k \in 1..Len(W) : E[k] = W[k]
       /\ \A k \in 1..Len(R) : E[Len(W) + k] = R[k]
    <2> HIDE DEF S
    <2>1. W \in Seq(S) /\ R \in Seq(S)
        BY <1>12, <1>13
    <2> QED BY <2>1, ConcatIs
<1> HIDE DEF E
<1>15. Len(E) = size /\ size \in Nat
    BY <1>2, <1>6, <1>11, <1>12, <1>14
<1>16. ASSUME NEW g \in 1..size
       PROVE  E[g] = IF g > digits THEN "=" ELSE Alphabet[Group(bytes, g) + 1]
    <2>1. CASE g <= 4 * q
        <3>1. g \in 1..4 * q /\ ~ (g > digits)
            BY <1>2, <1>8, <1>11, <1>15, <2>1
        <3> QED BY <1>6, <1>7, <1>14, <3>1
    <2>2. CASE g > 4 * q
        <3>1. PICK d \in 1..Len(R) : g = 4 * q + d
            <4>1. g - 4 * q \in 1..Len(R) /\ g = 4 * q + (g - 4 * q)
                BY <1>2, <1>12, <1>15, <2>2
            <4> QED BY <4>1
        <3>2. E[4 * q + d] = R[d]
            BY <1>6, <1>14
        <3> QED BY <1>12, <3>1, <3>2
    <2> QED BY <1>2, <1>15, <2>1, <2>2
<1>17. B \in Seq(S) /\ Len(B) = size
    <2>1. \A g \in 1..size : E[g] \in S
        <3> HIDE DEF S
        <3> QED BY <1>14, <1>15, ElementOfSeq
    <2>2. B \in [1..size -> S]
        BY <1>16, <2>1
    <2> HIDE DEF B, S
    <2> QED BY <1>15, <2>2, SeqIs
<1>18. \A g \in 1..size : B[g] = E[g]
    BY <1>16
<1>19. E = B
    <2> HIDE DEF B, S
    <2> QED BY <1>14, <1>15, <1>17, <1>18, SeqEqual
<1> QED BY <1>3, <1>4, <1>17, <1>19 DEF E

-----------------------------------------------------------------------------
(* Namespaces *)

(* What a text is resolved to is made of units, digits and placeholders. *)
Values == Units \cup Nat \cup {"=", "random_uuid", "of_the_client", "no_value", "no_namespace", "data_image_base64"}

(* A string is its first unit and the rest. *)
LEMMA TailIs ==
    ASSUME NEW S, NEW unit \in S, NEW s \in Seq(S)
    PROVE  /\ <<unit>> \o s # <<>> /\ (<<unit>> \o s)[1] = unit /\ Tail(<<unit>> \o s) = s
           /\ s # <<>> => Tail(s) \in Seq(S) /\ s[1] \in S /\ <<s[1]>> \o Tail(s) = s
<1> DEFINE z == <<unit>> \o s
<1>1. <<unit>> \in Seq(S) /\ Len(<<unit>>) = 1 /\ <<unit>>[1] = unit
    BY SingleIs
<1>2. /\ z \in Seq(S) /\ Len(s) \in Nat /\ Len(z) = Len(<<unit>>) + Len(s)
      /\ \A k \in 1..Len(<<unit>>) : z[k] = <<unit>>[k]
      /\ \A k \in 1..Len(s) : z[Len(<<unit>>) + k] = s[k]
    BY <1>1, ConcatIs
<1> HIDE DEF z
<1>3. Len(z) = 1 + Len(s) /\ z[1] = unit /\ \A k \in 1..Len(s) : z[1 + k] = s[k]
    BY <1>1, <1>2
<1>4. z # <<>>
    BY <1>2, <1>3, EmptySeq
<1>5. Tail(z) = s
    <2>1. /\ Tail(z) \in Seq(S) /\ Len(Tail(z)) = Len(z) - 1
          /\ \A k \in 1..Len(Tail(z)) : Tail(z)[k] = z[k + 1]
        BY <1>2, <1>4, HeadTailProperties
    <2>2. Len(Tail(z)) = Len(s)
        BY <1>2, <1>3, <2>1
    <2>3. ASSUME NEW k \in 1..Len(Tail(z)) PROVE Tail(z)[k] = s[k]
        <3>1. k + 1 = 1 + k /\ k \in 1..Len(s)
            BY <1>2, <2>2
        <3> QED BY <1>3, <2>1, <3>1
    <2> QED BY <2>1, <2>2, <2>3, SeqEqual
<1>6. ASSUME s # <<>> PROVE Tail(s) \in Seq(S) /\ s[1] \in S /\ <<s[1]>> \o Tail(s) = s
    <2> DEFINE h == s[1]
               t == Tail(s)
               y == <<h>> \o t
    <2>1. Len(s) \in Nat \ {0} /\ h \in S
        <3>1. Len(s) \in Nat \ {0}
            BY <1>6, EmptySeq
        <3>2. 1 \in 1..Len(s)
            BY <3>1
        <3> QED BY <3>1, <3>2, ElementOfSeq
    <2>2. t \in Seq(S) /\ Len(t) = Len(s) - 1 /\ \A k \in 1..Len(t) : t[k] = s[k + 1]
        BY <1>6, HeadTailProperties
    <2> HIDE DEF h, t
    <2>3. <<h>> \in Seq(S) /\ Len(<<h>>) = 1 /\ <<h>>[1] = h
        BY <2>1, SingleIs
    <2>4. /\ y \in Seq(S) /\ Len(t) \in Nat /\ Len(y) = Len(<<h>>) + Len(t)
          /\ \A k \in 1..Len(<<h>>) : y[k] = <<h>>[k]
          /\ \A k \in 1..Len(t) : y[Len(<<h>>) + k] = t[k]
        BY <2>2, <2>3, ConcatIs
    <2> HIDE DEF y
    <2>5. Len(y) = Len(s) /\ y[1] = h /\ \A k \in 1..Len(t) : y[1 + k] = t[k]
        BY <2>1, <2>2, <2>3, <2>4
    <2>6. ASSUME NEW k \in 1..Len(y) PROVE y[k] = s[k]
        <3>1. CASE k = 1
            BY <2>5, <3>1 DEF h
        <3>2. CASE k # 1
            <4>1. PICK m \in 1..Len(t) : k = 1 + m
                <5>1. k - 1 \in 1..Len(t) /\ k = 1 + (k - 1)
                    BY <2>1, <2>2, <2>5, <3>2
                <5> QED BY <5>1
            <4>2. t[m] = s[m + 1] /\ m + 1 = 1 + m
                BY <2>2
            <4> QED BY <2>5, <4>1, <4>2
        <3> QED BY <3>1, <3>2
    <2>7. y = s
        BY <2>4, <2>5, <2>6, SeqEqual
    <2> QED BY <2>1, <2>2, <2>7 DEF h, t, y
<1> QED BY <1>3, <1>4, <1>5, <1>6 DEF z

(* A name of a file leads to the path that Path makes of it. *)
LEMMA PathIs ==
    ASSUME NEW path \in Seq(Units), NEW name \in Seq(Units)
    PROVE  name \in Names(path) <=> name # <<>> /\ path = Path(name)
<1> DEFINE slash == <<"/">>
           base == ServerName \o slash
<1>1. "/" \in Units
    BY DEF Units
<1>2. slash \in Seq(Units) /\ base \in Seq(Units)
    <2>1. ServerName \in Seq(Units)
        <3>1. STRING \subseteq Units
            BY DEF Units
        <3> QED BY <3>1, VarsAssumption, SeqMonotonic
    <2>2. slash \in Seq(Units)
        BY <1>1, SingleIs
    <2> HIDE DEF slash
    <2> QED BY <2>1, <2>2, ConcatProperties
<1>3. /\ slash \o path # <<>> /\ (slash \o path)[1] = "/" /\ Tail(slash \o path) = path
      /\ name # <<>> => Tail(name) \in Seq(Units) /\ <<name[1]>> \o Tail(name) = name
    <2>1. /\ slash \o path # <<>> /\ (slash \o path)[1] = "/" /\ Tail(slash \o path) = path
        BY <1>1, TailIs
    <2>2. name # <<>> => Tail(name) \in Seq(Units) /\ <<name[1]>> \o Tail(name) = name
        BY <1>1, TailIs
    <2> QED BY <2>1, <2>2
<1>4. Path(name) = IF name[1] = "/" THEN Tail(name) ELSE base \o name
    BY DEF Path
<1>5. name \in Names(path) <=>
          \/ name = slash \o path
          \/ /\ \E k \in 1..Len(path) : name = SubSeq(path, k, Len(path))
             /\ name[1] # "/" /\ path = base \o name
    BY DEF Names
<1> HIDE DEF slash, base
<1>6. CASE name = <<>>
    <2>1. ASSUME NEW k \in 1..Len(path) PROVE SubSeq(path, k, Len(path)) # <<>>
        <3>1. Len(path) \in Nat
            BY LenProperties
        <3>2. \A m \in k..Len(path) : path[m] \in Units
            <4>1. \A m \in k..Len(path) : m \in 1..Len(path)
                BY <3>1
            <4> QED BY <4>1, ElementOfSeq
        <3>3. Len(SubSeq(path, k, Len(path))) = IF k <= Len(path) THEN Len(path) - k + 1 ELSE 0
            BY <3>1, <3>2, SubSeqProperties
        <3>4. Len(SubSeq(path, k, Len(path))) # 0
            BY <3>1, <3>3
        <3> QED BY <3>4, EmptySeq
    <2> QED BY <1>3, <1>5, <1>6, <2>1
<1>7. CASE name # <<>>
    <2>1. CASE name[1] = "/"
        BY <1>3, <1>4, <1>5, <1>7, <2>1 DEF slash
    <2>2. CASE name[1] # "/"
        <3>1. ASSUME path = base \o name PROVE \E k \in 1..Len(path) : name = SubSeq(path, k, Len(path))
            <4> DEFINE p == Len(base)
                       q == Len(name)
            <4>1. /\ p \in Nat /\ q \in Nat /\ Len(path) = p + q
                  /\ \A k \in 1..q : path[p + k] = name[k]
                BY <1>2, <3>1, ConcatIs
            <4>2. q # 0
                BY <1>7, EmptySeq
            <4> HIDE DEF p, q
            <4> DEFINE t == SubSeq(path, p + 1, p + q)
            <4>3. \A m \in (p + 1)..(p + q) : path[m] \in Units
                <5>1. \A m \in (p + 1)..(p + q) : m \in 1..Len(path)
                    BY <4>1
                <5> QED BY <5>1, ElementOfSeq
            <4>4. p + 1 \in Int /\ p + q \in Int /\ (p + q) - (p + 1) + 1 = q /\ p + 1 <= p + q
                BY <4>1, <4>2
            <4>5. /\ t \in Seq(Units) /\ Len(t) = q
                  /\ \A k \in 1..q : t[k] = path[(p + 1) + k - 1]
                BY <4>3, <4>4, SubSeqProperties
            <4> HIDE DEF t
            <4>6. \A k \in 1..q : t[k] = name[k]
                <5>1. \A k \in 1..q : (p + 1) + k - 1 = p + k
                    BY <4>1
                <5> QED BY <4>1, <4>5, <5>1
            <4>7. t = name
                BY <4>5, <4>6, SeqEqual DEF q
            <4>8. p + 1 \in 1..Len(path) /\ Len(path) = p + q
                BY <4>1, <4>2
            <4> QED BY <4>7, <4>8 DEF t
        <3> QED BY <1>3, <1>4, <1>5, <1>7, <2>2, <3>1
    <2> QED BY <2>1, <2>2
<1> QED BY <1>6, <1>7

(* The namespaces give what a variable means. *)
LEMMA FindIs ==
    ASSUME NEW w, NEW name \in Seq(Units), image \in Seq(Octets)
    PROVE  find_in_next(<<w>>, name) = Value(w, name) /\ Value(w, name) \in Seq(Values)
<1> DEFINE A == {Texts[n][name] : n \in {n \in DOMAIN Texts : n = w /\ name \in DOMAIN Texts[n]}}
           B == {TextFiles[path] : path \in {p \in DOMAIN TextFiles : w = "file" /\ name \in Names(p)}}
           C == IF w = "img" /\ name \in Names(ImagePath)
                THEN {<<"data_image_base64">> \o Base64(image)} ELSE {}
           D == IF w = "main" /\ name = <<"uuid">> THEN {<<"random_uuid">>} ELSE {}
           V == ((A \cup B) \cup C) \cup D
           F == find_in_next(<<w>>, name)
<1>1. DOMAIN Texts = {"var", "hs", "env"} /\ Texts["var"] = RecordVars /\ Texts["hs"] = Handshake
      /\ Texts["env"] = Environment
    BY DEF Texts
<1>2. Value(w, name) = IF w \notin DOMAIN Texts \cup {"main", "img", "file"} THEN <<"no_namespace">>
                       ELSE IF V = {} THEN <<"no_value">> ELSE CHOOSE v \in V : TRUE
    BY DEF Value
<1>3. STRING \subseteq Units /\ Units \subseteq Values /\ Nat \cup {"="} \subseteq Values
      /\ {"random_uuid", "no_value", "no_namespace", "data_image_base64", "of_the_client"} \subseteq Values
    BY DEF Units, Values
<1>4. \A s \in Seq(STRING) : s \in Seq(Units) /\ s \in Seq(Values)
    BY <1>3, SeqMonotonic
<1>5. <<"no_value">> \in Seq(Values) /\ <<"no_namespace">> \in Seq(Values) /\ <<"random_uuid">> \in Seq(Values)
    BY <1>3, SingleIs
<1>6. /\ w = "main" => F = main_vars(name)
      /\ w = "var" => F = Lookup(RecordVars, name)
      /\ w = "file" => F = file_vars(name)
      /\ w = "img" => F = img_vars(name)
      /\ w = "hs" => F = Lookup(Handshake, name)
      /\ w = "env" => F = Lookup(Environment, name)
      /\ w \notin {"main", "var", "file", "img", "hs", "env"} => F = <<"no_namespace">>
    <2>1. \A a : <<w>> = <<a>> <=> w = a
        OBVIOUS
    <2> QED BY <2>1 DEF find_in_next
<1> HIDE DEF F
<1>7. ASSUME NEW texts, NEW n \in DOMAIN Texts, Texts[n] = texts, w = n,
             \A x \in DOMAIN texts : texts[x] \in Seq(Values)
      PROVE  Lookup(texts, name) = Value(w, name) /\ Value(w, name) \in Seq(Values)
    <2>1. B = {} /\ C = {} /\ D = {}
        BY <1>1, <1>7
    <2>2. A = IF name \in DOMAIN texts THEN {texts[name]} ELSE {}
        BY <1>7
    <2>3. V = IF name \in DOMAIN texts THEN {texts[name]} ELSE {}
        BY <2>1, <2>2
    <2> HIDE DEF V
    <2>4. Value(w, name) = IF name \in DOMAIN texts THEN texts[name] ELSE <<"no_value">>
        BY <1>2, <1>7, <2>3
    <2> QED BY <1>5, <1>7, <2>4 DEF Lookup, nothing
<1>8. CASE w = "main"
    <2>1. A = {} /\ B = {} /\ C = {}
        BY <1>1, <1>8
    <2>2. V = IF name = <<"uuid">> THEN {<<"random_uuid">>} ELSE {}
        BY <1>8, <2>1
    <2> HIDE DEF V
    <2>3. Value(w, name) = IF name = <<"uuid">> THEN <<"random_uuid">> ELSE <<"no_value">>
        BY <1>2, <1>8, <2>2
    <2> QED BY <1>5, <1>6, <1>8, <2>3 DEF main_vars, nothing, F
<1>9. CASE w = "var"
    <2>1. \A x \in DOMAIN RecordVars : RecordVars[x] \in Seq(Values)
        BY <1>4, VarsAssumption
    <2> QED BY <1>1, <1>6, <1>7, <1>9, <2>1 DEF F
<1>10. CASE w = "env"
    <2>1. \A x \in DOMAIN Environment : Environment[x] \in Seq(Values)
        BY <1>4, VarsAssumption
    <2> QED BY <1>1, <1>6, <1>7, <1>10, <2>1 DEF F
<1>11. CASE w = "hs"
    <2>1. ASSUME NEW x \in DOMAIN Handshake PROVE Handshake[x] \in Seq(Values)
        <3>1. Handshake[x] = <<"of_the_client">> \o x
            BY DEF Handshake
        <3>2. x \in Seq(Values)
            <4>1. \E a \in {"version", "address", "port", "state"} : x = <<a>>
                BY DEF Handshake
            <4>2. {"version", "address", "port", "state"} \subseteq Values
                BY DEF Units, Values
            <4> QED BY <4>1, <4>2, SingleIs
        <3>3. <<"of_the_client">> \in Seq(Values)
            BY <1>3, SingleIs
        <3> HIDE DEF Handshake
        <3>4. <<"of_the_client">> \o x \in Seq(Values)
            BY <3>2, <3>3, ConcatProperties
        <3> QED BY <3>1, <3>4
    <2> QED BY <1>1, <1>6, <1>7, <1>11, <2>1 DEF F
<1>12. CASE w = "file"
    <2>1. A = {} /\ C = {} /\ D = {}
        BY <1>1, <1>12
    <2>2. ASSUME NEW p \in DOMAIN TextFiles PROVE name \in Names(p) <=> name # <<>> /\ p = Path(name)
        <3>1. p \in Seq(STRING)
            BY VarsAssumption
        <3>2. p \in Seq(Units)
            BY <1>4, <3>1
        <3> QED BY <3>2, PathIs
    <2>3. B = IF name # <<>> /\ Path(name) \in DOMAIN TextFiles THEN {TextFiles[Path(name)]} ELSE {}
        BY <1>12, <2>2
    <2>4. V = IF name # <<>> /\ Path(name) \in DOMAIN TextFiles THEN {TextFiles[Path(name)]} ELSE {}
        BY <2>1, <2>3
    <2> HIDE DEF V
    <2>5. Value(w, name) = IF name # <<>> /\ Path(name) \in DOMAIN TextFiles THEN TextFiles[Path(name)]
                           ELSE <<"no_value">>
        BY <1>2, <1>12, <2>4
    <2>6. \A x \in DOMAIN TextFiles : TextFiles[x] \in Seq(Values)
        BY <1>4, VarsAssumption
    <2> QED BY <1>5, <1>6, <1>12, <2>5, <2>6 DEF file_vars, Lookup, nothing, F
<1>13. CASE w = "img"
    <2>1. A = {} /\ B = {} /\ D = {}
        BY <1>1, <1>13
    <2>2. ImagePath \in Seq(Units)
        <3>1. "icon" \in Units
            BY DEF Units
        <3> QED BY <3>1, SingleIs DEF ImagePath
    <2>3. name \in Names(ImagePath) <=> name # <<>> /\ ImagePath = Path(name)
        BY <2>2, PathIs
    <2>4. Encoded(image) = Base64(image) /\ Base64(image) \in Seq(Nat \cup {"="})
        BY EncodedIs
    <2> DEFINE E == <<"data_image_base64">> \o Base64(image)
    <2>5. E \in Seq(Values)
        <3>1. Base64(image) \in Seq(Values)
            BY <1>3, <2>4, SeqMonotonic
        <3>2. <<"data_image_base64">> \in Seq(Values)
            BY <1>3, SingleIs
        <3> QED BY <3>1, <3>2, ConcatProperties
    <2>6. img_vars(name) = IF name = <<>> \/ Path(name) # ImagePath THEN <<"no_value">> ELSE E
        BY <2>4 DEF img_vars, nothing
    <2>7. V = IF name # <<>> /\ ImagePath = Path(name) THEN {E} ELSE {}
        BY <1>13, <2>1, <2>3
    <2> HIDE DEF V, E
    <2>8. Value(w, name) = IF name # <<>> /\ ImagePath = Path(name) THEN E ELSE <<"no_value">>
        BY <1>2, <1>13, <2>7
    <2> QED BY <1>5, <1>6, <1>13, <2>5, <2>6, <2>8 DEF F
<1>14. CASE w \notin {"main", "var", "file", "img", "hs", "env"}
    BY <1>1, <1>2, <1>5, <1>6, <1>14 DEF F
<1> QED BY <1>8, <1>9, <1>10, <1>11, <1>12, <1>13, <1>14

(* and so does the first one to a name without a namespace. *)
LEMMA MainIs ==
    ASSUME NEW name \in Seq(Units), image \in Seq(Octets)
    PROVE  main_vars(name) = Value("main", name) /\ Value("main", name) \in Seq(Values)
<1>1. find_in_next(<<"main">>, name) = main_vars(name)
    BY DEF find_in_next
<1> QED BY <1>1, FindIs

-----------------------------------------------------------------------------
(* Variables *)

(* A name is as its author means it: without spaces around it. *)
Tight(name) == name # <<>> => name[1] # "space" /\ name[Len(name)] # "space"

(* The namespace and the name of a variable, with p spaces around each. *)
Written(w, name, at, p) ==
    /\ Placed(<<w>>, at + p) /\ Placed(<<":">>, at + 2 * p + 1) /\ Placed(name, at + 3 * p + 2)
    /\ p = 1 => /\ str(at) = "space" /\ str(at + 2) = "space" /\ str(at + 4) = "space"
                /\ str(at + 5 + Len(name)) = "space"

(* get_value finds both of them, *)
LEMMA GetNamed ==
    ASSUME text \in Seq(Units), NEW p \in {0, 1}, NEW w \in Words, NEW name \in Seq(Units),
           Tight(name), NEW at \in Nat, Written(w, name, at, p)
    PROVE  get_value(at, 4 * p + 2 + Len(name)) = find_in_next(<<w>>, name)
<1> DEFINE n == Len(name)
           size == 4 * p + 2 + n
           b == IF n = 0 THEN 2 * p + 2 ELSE 3 * p + 2 + n
           low == at + p
           from == at + 2 * p + 2
           rest == b - 2 * p - 2
<1>1. n \in Nat /\ Len(text) \in Nat /\ p \in Nat
    BY LenProperties
<1>2. w # "space" /\ w # ":" /\ w \in Units
    BY VarsAssumption DEF Units
<1>3. <<w>> \in Seq(Units) /\ Len(<<w>>) = 1 /\ <<w>>[1] = w
    BY <1>2, SingleIs
<1>4. Len(<<":">>) = 1 /\ <<":">>[1] = ":"
    OBVIOUS
<1>5. str(at + p) = w /\ str(at + 2 * p + 1) = ":"
    <2>1. \A k \in 1..Len(<<w>>) : str((at + p) + k - 1) = <<w>>[k]
        BY <1>1, <1>3, PlacedStr DEF Written
    <2>2. \A k \in 1..Len(<<":">>) : str((at + 2 * p + 1) + k - 1) = <<":">>[k]
        BY <1>1, <1>4, PlacedStr DEF Written
    <2>3. (at + p) + 1 - 1 = at + p /\ (at + 2 * p + 1) + 1 - 1 = at + 2 * p + 1
        BY <1>1
    <2>4. str((at + p) + 1 - 1) = <<w>>[1] /\ str((at + 2 * p + 1) + 1 - 1) = <<":">>[1]
        <3>1. 1 \in 1..1
            OBVIOUS
        <3> QED BY <1>3, <1>4, <2>1, <2>2, <3>1
    <2> QED BY <1>3, <1>4, <2>3, <2>4
<1>6. \A k \in 1..n : str((at + 3 * p + 2) + k - 1) = name[k]
    BY <1>1, PlacedStr DEF Written
<1>7. n # 0 => str(at + 3 * p + 2) # "space" /\ str(at + 3 * p + 2 + (n - 1)) # "space"
    <2> SUFFICES ASSUME n # 0 PROVE str(at + 3 * p + 2) # "space" /\ str(at + 3 * p + 2 + (n - 1)) # "space"
        OBVIOUS
    <2>1. 1 \in 1..n /\ n \in 1..n
        BY <1>1
    <2>2. name[1] # "space" /\ name[n] # "space"
        <3>1. name # <<>>
            BY EmptySeq
        <3> QED BY <3>1 DEF Tight
    <2>3. str((at + 3 * p + 2) + 1 - 1) = name[1] /\ str((at + 3 * p + 2) + n - 1) = name[n]
        <3> HIDE DEF n
        <3> QED BY <1>6, <2>1
    <2>4. (at + 3 * p + 2) + 1 - 1 = at + 3 * p + 2 /\ (at + 3 * p + 2) + n - 1 = at + 3 * p + 2 + (n - 1)
        BY <1>1
    <2> QED BY <2>2, <2>3, <2>4
<1>8. p = 1 => /\ str(at) = "space" /\ str(at + 2) = "space" /\ str(at + 4) = "space"
               /\ str(at + 5 + n) = "space"
    BY DEF Written
<1> HIDE DEF n
<1>9. b \in Nat /\ p \in 0..size /\ b \in p..size /\ size \in Nat /\ p < b /\ from \in Nat /\ rest \in Nat
      /\ low \in Nat
    BY <1>1
<1>10. trim(at, size) = [at |-> low, size |-> b - p]
    <2>1. ASSUME NEW k \in 0..(size - 1), k < p \/ b <= k PROVE str(at + k) = "space"
        <3>1. p = 1 /\ (k = 0 \/ (n = 0 /\ (k = 4 \/ k = 5)) \/ (n # 0 /\ k = 5 + n))
            BY <1>1, <2>1
        <3>2. at + 0 = at /\ (n = 0 => at + 5 = at + 5 + n) /\ at + (5 + n) = at + 5 + n
            BY <1>1
        <3> QED BY <1>8, <3>1, <3>2
    <2>2. str(at + p) # "space"
        BY <1>2, <1>5
    <2>3. str(at + (b - 1)) # "space"
        <3>1. CASE n = 0
            <4>1. at + (b - 1) = at + 2 * p + 1
                BY <1>1, <3>1
            <4> QED BY <1>5, <4>1
        <3>2. CASE n # 0
            <4>1. at + (b - 1) = at + 3 * p + 2 + (n - 1)
                BY <1>1, <3>2
            <4> QED BY <1>7, <3>2, <4>1
        <3> QED BY <3>1, <3>2
    <2> HIDE DEF size, b
    <2>4. trim(at, size) = IF p = b THEN [at |-> at, size |-> 0] ELSE [at |-> at + p, size |-> b - p]
        BY <1>9, <2>1, <2>2, <2>3, TrimIs
    <2> QED BY <1>1, <1>9, <2>4
<1> DEFINE colons == {k \in 0..((b - p) - 1) : str(low + k) = ":"}
<1>11. colons # {} /\ Least(colons) = p + 1
    <2>1. p + 1 \in colons
        <3>1. p + 1 \in 0..((b - p) - 1)
            BY <1>1
        <3>2. low + (p + 1) = at + 2 * p + 1
            BY <1>1
        <3> QED BY <1>5, <3>1, <3>2
    <2>2. ASSUME NEW k \in colons PROVE k \in Nat /\ p + 1 <= k
        <3>1. k \in Nat /\ str(low + k) = ":"
            BY <1>9
        <3>2. k # 0
            <4>1. low + 0 = at + p
                BY <1>1
            <4> QED BY <1>2, <1>5, <3>1, <4>1
        <3>3. p = 1 => k # 1
            <4>1. p = 1 => low + 1 = at + 2
                BY <1>1
            <4> QED BY <1>8, <3>1, <4>1
        <3> QED BY <1>1, <3>1, <3>2, <3>3
    <2> HIDE DEF colons
    <2>3. colons \subseteq Nat
        BY <2>2
    <2> QED BY <2>1, <2>2, <2>3, LeastIs
<1>12. trim(low, p + 1) = [at |-> low, size |-> 1]
    <2>1. ASSUME NEW k \in 0..((p + 1) - 1), k < 0 \/ 1 <= k PROVE str(low + k) = "space"
        <3>1. p = 1 /\ k = 1 /\ low + k = at + 2
            BY <1>1, <2>1
        <3> QED BY <1>8, <3>1
    <2>2. low + 0 = at + p /\ low + (1 - 1) = at + p
        BY <1>1
    <2>3. str(low + 0) # "space" /\ str(low + (1 - 1)) # "space"
        BY <1>2, <1>5, <2>2
    <2> HIDE DEF low
    <2> DEFINE q == p + 1
    <2>4. q \in Nat /\ 0 \in 0..q /\ 1 \in 0..q
        BY <1>1
    <2>5. \A k \in 0..(q - 1) : k < 0 \/ 1 <= k => str(low + k) = "space"
        BY <2>1
    <2> HIDE DEF q
    <2>6. trim(low, q) = IF 0 = 1 THEN [at |-> low, size |-> 0] ELSE [at |-> low + 0, size |-> 1 - 0]
        BY <1>9, <2>3, <2>4, <2>5, TrimIs
    <2> QED BY <1>9, <2>6 DEF q
<1>13. /\ String(low, 1) = <<w>>
       /\ String(trim(from, rest).at, trim(from, rest).size) = name
    <2>1. String(low, 1) = <<w>>
        <3>1. Placed(<<w>>, low)
            BY DEF Written
        <3> HIDE DEF low
        <3> QED BY <1>3, <3>1, PlacedString
    <2>2. ASSUME n = 0 PROVE trim(from, rest).size = 0 /\ trim(from, rest).at = from
        <3>1. rest = 0
            BY <1>1, <2>2
        <3>2. \A k \in 0..(rest - 1) : FALSE
            BY <3>1
        <3> HIDE DEF from, rest
        <3> DEFINE none == 0
        <3>3. from \in Nat /\ rest \in Nat /\ none \in 0..rest /\ none \in none..rest /\ ~ (none < none)
            BY <1>9
        <3>4. \A k \in 0..(rest - 1) : k < none \/ none <= k => str(from + k) = "space"
            BY <3>2
        <3> HIDE DEF none
        <3>5. trim(from, rest) = IF none = none THEN [at |-> from, size |-> 0]
                                 ELSE [at |-> from + none, size |-> none - none]
            BY <3>3, <3>4, TrimIs
        <3> QED BY <3>5
    <2>3. CASE n = 0
        <3>1. name = <<>>
            BY <2>3, EmptySeq DEF n
        <3>2. String(from, 0) = <<>>
            <4>1. from + 0 < from + 1 /\ from + 1 \in Int /\ from + 0 \in Int
                BY <1>9
            <4> HIDE DEF from
            <4> QED BY <4>1, SubSeqEmpty DEF String
        <3> QED BY <2>1, <2>2, <2>3, <3>1, <3>2
    <2>4. CASE n # 0
        <3>1. rest = p + n /\ p \in 0..rest /\ rest \in p..rest /\ p < rest /\ from + p = at + 3 * p + 2
              /\ from + (rest - 1) = at + 3 * p + 2 + (n - 1) /\ rest - p = n
            BY <1>1, <2>4
        <3>2. ASSUME NEW k \in 0..(rest - 1), k < p \/ rest <= k PROVE str(from + k) = "space"
            <4>1. p = 1 /\ k = 0
                BY <1>1, <3>1, <3>2
            <4>2. from + k = at + 4
                BY <1>1, <4>1
            <4> QED BY <1>8, <4>1, <4>2
        <3>3. str(from + p) # "space" /\ str(from + (rest - 1)) # "space"
            BY <1>7, <2>4, <3>1
        <3> HIDE DEF from, rest
        <3>4. from \in Nat /\ rest \in Nat /\ p \in 0..rest /\ rest \in p..rest
            BY <1>9, <3>1
        <3>5. trim(from, rest) = IF p = rest THEN [at |-> from, size |-> 0] ELSE [at |-> from + p, size |-> rest - p]
            BY <3>2, <3>3, <3>4, TrimIs
        <3>7. trim(from, rest).at = at + 3 * p + 2 /\ trim(from, rest).size = n
            <4>1. p # rest
                BY <1>9, <3>1
            <4> QED BY <3>1, <3>5, <4>1
        <3>6. String(at + 3 * p + 2, n) = name
            <4>1. Placed(name, at + 3 * p + 2)
                BY DEF Written
            <4> QED BY <4>1, PlacedString DEF n
        <3> QED BY <2>1, <3>6, <3>7
    <2> QED BY <2>3, <2>4
<1>14. low + (p + 1) + 1 = from /\ (b - p) - (p + 1) - 1 = rest
    BY <1>1
<1> HIDE DEF size, b, low, from, rest, colons
<1>15. get_value(at, size) =
           find_in_next(String(low, 1), String(trim(from, rest).at, trim(from, rest).size))
    BY <1>10, <1>11, <1>12, <1>14 DEF get_value, colons
<1> QED BY <1>13, <1>15 DEF n, size

(* and a name without a namespace. *)
LEMMA GetPlain ==
    ASSUME text \in Seq(Units), NEW name \in Seq(Units), Tight(name),
           \A k \in DOMAIN name : name[k] # ":", NEW at \in Nat, Placed(name, at)
    PROVE  get_value(at, Len(name)) = main_vars(name)
<1> DEFINE n == Len(name)
<1>1. n \in Nat /\ Len(text) \in Nat /\ DOMAIN name = 1..n
    BY LenProperties
<1>2. \A k \in 1..n : at + k - 1 \in Nat /\ str(at + k - 1) = name[k]
    BY <1>1, PlacedStr
<1>3. trim(at, n) = [at |-> at, size |-> n]
    <2>1. \A k \in 0..(n - 1) : ~ (k < 0 \/ n <= k)
        BY <1>1
    <2>2. 0 < n => str(at + 0) # "space" /\ str(at + (n - 1)) # "space"
        <3> SUFFICES ASSUME 0 < n PROVE str(at + 0) # "space" /\ str(at + (n - 1)) # "space"
            OBVIOUS
        <3>1. 1 \in 1..n /\ n \in 1..n /\ at + 1 - 1 = at + 0 /\ at + n - 1 = at + (n - 1)
            BY <1>1
        <3>2. name[1] # "space" /\ name[n] # "space"
            <4>1. name # <<>>
                BY EmptySeq
            <4> QED BY <4>1 DEF Tight
        <3> HIDE DEF n
        <3>3. str(at + 1 - 1) = name[1] /\ str(at + n - 1) = name[n]
            BY <1>2, <3>1
        <3> QED BY <3>1, <3>2, <3>3
    <2>3. 0 \in 0..n /\ n \in 0..n
        BY <1>1
    <2> HIDE DEF n
    <2>4. trim(at, n) = IF 0 = n THEN [at |-> at, size |-> 0] ELSE [at |-> at + 0, size |-> n - 0]
        BY <1>1, <2>1, <2>2, <2>3, TrimIs
    <2> QED BY <1>1, <2>4
<1>4. {k \in 0..(n - 1) : str(at + k) = ":"} = {}
    <2>1. ASSUME NEW k \in 0..(n - 1) PROVE str(at + k) # ":"
        <3>1. PICK m \in 1..n : m = k + 1
            BY <1>1
        <3>2. at + m - 1 = at + k
            BY <3>1
        <3> HIDE DEF n
        <3>3. str(at + m - 1) = name[m]
            BY <1>2
        <3> QED BY <1>1, <3>2, <3>3
    <2> QED BY <2>1
<1>5. String(at, n) = name
    BY PlacedString
<1> HIDE DEF n
<1>6. get_value(at, n) = main_vars(String(at, n))
    BY <1>3, <1>4 DEF get_value
<1> QED BY <1>5, <1>6 DEF n

-----------------------------------------------------------------------------
(* The parts of a template *)

(* What the author of a template means by a part. *)
LEMMA PartIs ==
    ASSUME NEW t \in Parts
    PROVE  \/ t.kind = "unit" /\ t.unit \in Units
           \/ t.kind = "dollar"
           \/ /\ t.kind \in Styles /\ Named(t)
              /\ t.name \in Seq(Units) /\ Tight(t.name) /\ Closed(t.name)
              /\ \/ t.ns = <<>>
                 \/ \E w \in Words : w \in Units /\ t.ns = <<w>>
<1>1. STRING \subseteq Units /\ Words \subseteq Units
    BY VarsAssumption DEF Units
<1>2. \/ t.kind = "unit" /\ t.unit \in STRING
      \/ t.kind = "dollar"
      \/ t.kind \in Styles /\ Named(t)
    BY VarsAssumption
<1>3. ASSUME Named(t)
      PROVE  /\ t.name \in Seq(Units) /\ Tight(t.name) /\ Closed(t.name)
             /\ \/ t.ns = <<>>
                \/ \E w \in Words : w \in Units /\ t.ns = <<w>>
    <2>1. t.name \in Seq(Units)
        BY <1>1, <1>3, SeqMonotonic DEF Named
    <2>2. Tight(t.name) /\ Closed(t.name)
        BY <1>3 DEF Named, Tight
    <2>3. t.ns = <<>> \/ \E w \in Words : t.ns = <<w>>
        BY <1>3 DEF Named
    <2> QED BY <1>1, <2>1, <2>2, <2>3
<1> QED BY <1>1, <1>2, <1>3

(* What is written between the brackets, or behind the dollar. *)
Inner(t) ==
    IF t.kind = "spaced"
    THEN (((<<"space">> \o t.ns) \o <<"space", ":", "space">>) \o t.name) \o <<"space">>
    ELSE Joined(t)

(* These are units, *)
LEMMA UnitsAre ==
    /\ <<":">> \in Seq(Units) /\ <<"space">> \in Seq(Units) /\ <<"$">> \in Seq(Units)
    /\ <<"open">> \in Seq(Units) /\ <<"close">> \in Seq(Units)
    /\ <<"space", ":", "space">> \in Seq(Units)
<1>1. {":", "space", "$", "open", "close"} \subseteq Units
    BY DEF Units
<1> HIDE DEF Units
<1> QED BY <1>1

(* so what is between the brackets is units, too, and closed; *)
LEMMA InnerType ==
    ASSUME NEW t \in Parts, t.kind \in Styles
    PROVE  Inner(t) \in Seq(Units) /\ Closed(Inner(t))
<1>1. /\ Named(t) /\ t.name \in Seq(Units) /\ Closed(t.name)
      /\ \/ t.ns = <<>>
         \/ \E w \in Words : w \in Units /\ t.ns = <<w>>
    BY PartIs DEF Styles
<1>2. CASE t.kind # "spaced" /\ t.ns = <<>>
    <2>1. Inner(t) = <<>> \o t.name
        BY <1>2 DEF Inner, Joined
    <2> QED BY <1>1, <2>1, ConcatEmptySeq
<1>3. CASE t.ns # <<>>
    <2>1. PICK w \in Words : w \in Units /\ t.ns = <<w>>
        BY <1>1, <1>3
    <2>2. w \notin {"open", "close"}
        BY VarsAssumption
    <2> DEFINE ns == <<w>>
               x == ns \o <<":">>
               y == (<<"space">> \o ns) \o <<"space", ":", "space">>
    <2>3. ns \in Seq(Units) /\ Len(ns) = 1 /\ ns[1] = w
        BY <2>1, SingleIs
    <2> HIDE DEF ns
    <2>4. /\ x \in Seq(Units) /\ \A k \in 1..Len(x) : x[k] \notin {"open", "close"}
        <3>1. /\ x \in Seq(Units) /\ Len(x) = 1 + 1
              /\ \A k \in 1..1 : x[k] = ns[k]
              /\ \A k \in 1..1 : x[1 + k] = <<":">>[k]
            <4>1. Len(<<":">>) = 1
                OBVIOUS
            <4> QED BY <2>3, <4>1, UnitsAre, ConcatIs
        <3>2. x[1] = w /\ x[1 + 1] = ":"
            BY <2>3, <3>1
        <3> HIDE DEF x
        <3>3. \A k \in 1..2 : k = 1 \/ k = 1 + 1
            OBVIOUS
        <3> QED BY <2>2, <3>1, <3>2, <3>3
    <2>5. /\ y \in Seq(Units) /\ \A k \in 1..Len(y) : y[k] \notin {"open", "close"}
        <3> DEFINE v == <<"space">> \o ns
                   z == <<"space", ":", "space">>
        <3>1. v \in Seq(Units) /\ Len(v) = 2 /\ v[1] = "space" /\ v[1 + 1] = w
            <4> DEFINE e == <<"space">>
            <4>1. e \in Seq(Units) /\ Len(e) = 1 /\ e[1] = "space"
                BY UnitsAre
            <4>2. v = e \o ns
                OBVIOUS
            <4> HIDE DEF e, v
            <4>3. /\ e \o ns \in Seq(Units) /\ Len(e \o ns) = Len(e) + Len(ns)
                  /\ \A k \in 1..Len(e) : (e \o ns)[k] = e[k]
                  /\ \A k \in 1..Len(ns) : (e \o ns)[Len(e) + k] = ns[k]
                BY <2>3, <4>1, ConcatIs
            <4>4. \A k \in 1..1 : v[k] = e[k] /\ v[1 + k] = ns[k]
                BY <2>3, <4>1, <4>2, <4>3
            <4> QED BY <2>3, <4>1, <4>2, <4>3, <4>4
        <3>3. z \in Seq(Units) /\ Len(z) = 3 /\ z[1] = "space" /\ z[2] = ":" /\ z[3] = "space"
            BY UnitsAre
        <3> HIDE DEF v, z
        <3>4. /\ y \in Seq(Units) /\ Len(y) = 2 + 3
              /\ \A k \in 1..2 : y[k] = v[k]
              /\ \A k \in 1..3 : y[2 + k] = z[k]
            <4>0. v \in Seq(Units) /\ z \in Seq(Units) /\ Len(v) = 2 /\ y = v \o z
                BY <3>1, <3>3 DEF v, z
            <4> HIDE DEF y
            <4>2. v \in Seq(Units) /\ z \in Seq(Units)
                BY <4>0
            <4>1. /\ v \o z \in Seq(Units) /\ Len(v \o z) = Len(v) + Len(z)
                  /\ \A k \in 1..Len(v) : (v \o z)[k] = v[k]
                  /\ \A k \in 1..Len(z) : (v \o z)[Len(v) + k] = z[k]
                BY <4>2, ConcatIs
            <4> QED BY <3>3, <4>0, <4>1
        <3> HIDE DEF y
        <3>5. y[1] = "space" /\ y[2] = w /\ y[2 + 1] = "space" /\ y[2 + 2] = ":" /\ y[2 + 3] = "space"
            BY <3>1, <3>3, <3>4
        <3>6. \A k \in 1..5 : k = 1 \/ k = 2 \/ k = 2 + 1 \/ k = 2 + 2 \/ k = 2 + 3
            OBVIOUS
        <3> QED BY <2>2, <3>4, <3>5, <3>6
    <2> HIDE DEF x, y
    <2>6. CASE t.kind # "spaced"
        <3>1. Inner(t) = x \o t.name
            BY <1>3, <2>1, <2>6 DEF Inner, Joined, x, ns
        <3>2. x \o t.name \in Seq(Units) /\ (x \o t.name) \o <<>> = x \o t.name
            BY <1>1, <2>4, ConcatProperties, ConcatEmptySeq
        <3>3. <<>> \in Seq(Units) /\ \A k \in 1..Len(<<>>) : <<>>[k] \notin {"open", "close"}
            OBVIOUS
        <3>4. Closed((x \o t.name) \o <<>>)
            BY <1>1, <2>4, <3>3, ClosedWithin
        <3> QED BY <3>1, <3>2, <3>4
    <2>7. CASE t.kind = "spaced"
        <3>1. Inner(t) = (y \o t.name) \o <<"space">>
            BY <2>1, <2>7 DEF Inner, y, ns
        <3>2. (y \o t.name) \o <<"space">> \in Seq(Units)
            <4>1. y \o t.name \in Seq(Units)
                BY <1>1, <2>5, ConcatProperties
            <4> QED BY <4>1, UnitsAre, ConcatProperties
        <3>3. <<"space">> \in Seq(Units) /\ \A k \in 1..Len(<<"space">>) : <<"space">>[k] \notin {"open", "close"}
            BY UnitsAre
        <3>4. Closed((y \o t.name) \o <<"space">>)
            BY <1>1, <2>5, <3>3, ClosedWithin
        <3> QED BY <3>1, <3>2, <3>4
    <2> QED BY <2>6, <2>7
<1>4. t.kind = "spaced" => t.ns # <<>>
    BY <1>1 DEF Named
<1> QED BY <1>2, <1>3, <1>4

(* a part is written with them, *)
LEMMA RenderIs ==
    ASSUME NEW t \in Parts
    PROVE  /\ t.kind = "unit" => Render(t) = <<t.unit>>
           /\ t.kind = "dollar" => Render(t) = <<"$">> \o <<"$">>
           /\ t.kind = "bare" => Render(t) = <<"$">> \o Inner(t)
           /\ t.kind \in {"braced", "spaced"} =>
                  Render(t) = <<"$">> \o ((<<"open">> \o Inner(t)) \o <<"close">>)
<1>1. t.kind = "unit" => Render(t) = <<t.unit>>
    BY DEF Render
<1>2. t.kind = "dollar" => Render(t) = <<"$">> \o <<"$">>
    <2>1. <<"$", "$">> = <<"$">> \o <<"$">>
        OBVIOUS
    <2> QED BY <2>1 DEF Render
<1>3. t.kind = "bare" => Render(t) = <<"$">> \o Inner(t)
    BY DEF Render, Inner
<1>4. ASSUME t.kind = "braced" PROVE Render(t) = <<"$">> \o ((<<"open">> \o Inner(t)) \o <<"close">>)
    <2> DEFINE s == Joined(t)
    <2>1. s \in Seq(Units)
        BY <1>4, InnerType DEF Inner, Styles
    <2>2. Render(t) = (<<"$", "open">> \o s) \o <<"close">>
        BY <1>4 DEF Render
    <2>3. <<"$", "open">> = <<"$">> \o <<"open">>
        OBVIOUS
    <2> HIDE DEF s
    <2>4. (<<"$">> \o <<"open">>) \o s = <<"$">> \o (<<"open">> \o s)
        BY <2>1, UnitsAre, ConcatAssociative
    <2>5. <<"open">> \o s \in Seq(Units)
        BY <2>1, UnitsAre, ConcatProperties
    <2>6. (<<"$">> \o (<<"open">> \o s)) \o <<"close">> = <<"$">> \o ((<<"open">> \o s) \o <<"close">>)
        BY <2>5, UnitsAre, ConcatAssociative
    <2>7. Inner(t) = s
        BY <1>4 DEF Inner, s
    <2> QED BY <2>2, <2>3, <2>4, <2>6, <2>7
<1>5. ASSUME t.kind = "spaced" PROVE Render(t) = <<"$">> \o ((<<"open">> \o Inner(t)) \o <<"close">>)
    <2> DEFINE d == <<"$">>
               o == <<"open">>
               e == <<"space">>
               c == <<"close">>
               m == <<"space", ":", "space">>
               n == t.name
               ns == t.ns
    <2>1. n \in Seq(Units) /\ ns \in Seq(Units)
        <3>1. \A w \in Units : <<w>> \in Seq(Units)
            BY SingleIs
        <3>2. <<>> \in Seq(Units)
            OBVIOUS
        <3> QED BY <1>5, <3>1, <3>2, PartIs DEF Styles
    <2>2. d \in Seq(Units) /\ o \in Seq(Units) /\ e \in Seq(Units) /\ c \in Seq(Units) /\ m \in Seq(Units)
        BY UnitsAre
    <2>3. <<"$", "open", "space">> = d \o (o \o e) /\ <<"space", "close">> = e \o c
        OBVIOUS
    <2>4. Render(t) = (((<<"$", "open", "space">> \o ns) \o m) \o n) \o <<"space", "close">>
        BY <1>5 DEF Render
    <2>5. Inner(t) = (((e \o ns) \o m) \o n) \o e
        BY <1>5 DEF Inner
    <2> DEFINE Q == Seq(Units)
    <2> DEFINE Regrouped(x, y, z) == (x \o y) \o z = x \o (y \o z)
    <2>17. ASSUME NEW x \in Q, NEW y \in Q, NEW z \in Q PROVE Regrouped(x, y, z)
        BY ConcatAssociative
    <2>6. \A x, y \in Q : x \o y \in Q
        BY ConcatProperties
    <2>7. /\ n \in Q /\ ns \in Q /\ d \in Q /\ o \in Q /\ e \in Q /\ c \in Q /\ m \in Q
        BY <2>1, <2>2
    <2> HIDE DEF d, o, e, c, m, n, ns, Q, Regrouped
    <2> DEFINE b == e \o ns
               f == b \o m
               g == f \o n
               h == g \o e
    <2>8. b \in Q /\ f \in Q /\ g \in Q /\ h \in Q /\ e \o c \in Q
        BY <2>6, <2>7
    <2>9. (d \o (o \o e)) \o ns = d \o (o \o b)
        <3>1. o \o e \in Q
            BY <2>6, <2>7
        <3>2. Regrouped(d, o \o e, ns) /\ Regrouped(o, e, ns)
            BY <2>17, <2>7, <3>1
        <3> QED BY <3>2 DEF Regrouped
    <2>10. ASSUME NEW x \in Q, NEW y \in Q PROVE (d \o (o \o x)) \o y = d \o (o \o (x \o y))
        <3>1. o \o x \in Q
            BY <2>6, <2>7, <2>10
        <3>2. Regrouped(d, o \o x, y) /\ Regrouped(o, x, y)
            BY <2>17, <2>7, <3>1
        <3> QED BY <3>2 DEF Regrouped
    <2>11. (d \o (o \o b)) \o m = d \o (o \o f)
        BY <2>7, <2>8, <2>10
    <2>12. (d \o (o \o f)) \o n = d \o (o \o g)
        BY <2>7, <2>8, <2>10
    <2>13. (d \o (o \o g)) \o (e \o c) = d \o (o \o (g \o (e \o c)))
        <3> HIDE DEF g
        <3> QED BY <2>8, <2>10
    <2>14. o \o (g \o (e \o c)) = (o \o h) \o c
        <3>1. Regrouped(g, e, c) /\ Regrouped(o, h, c)
            <4> HIDE DEF g, h
            <4> QED BY <2>17, <2>7, <2>8
        <3> QED BY <3>1 DEF Regrouped
    <2>15. Render(t) = d \o ((o \o h) \o c)
        BY <2>3, <2>4, <2>9, <2>11, <2>12, <2>13, <2>14
    <2>16. Inner(t) = h
        BY <2>5
    <2> HIDE DEF h
    <2> QED BY <2>15, <2>16 DEF d, o, c
<1> QED BY <1>1, <1>2, <1>3, <1>4, <1>5

(* has a meaning, *)
LEMMA MeaningType ==
    ASSUME NEW t \in Parts, image \in Seq(Octets)
    PROVE  /\ t.kind = "unit" => Meaning(t) = <<t.unit>>
           /\ t.kind = "dollar" => Meaning(t) = <<"$">>
           /\ t.kind \in Styles => Meaning(t) = Value(IF t.ns = <<>> THEN "main" ELSE t.ns[1], t.name)
           /\ Meaning(t) \in Seq(Values)
<1>1. /\ t.kind = "unit" => Meaning(t) = <<t.unit>>
      /\ t.kind = "dollar" => Meaning(t) = <<"$">>
      /\ t.kind \in Styles => Meaning(t) = Value(IF t.ns = <<>> THEN "main" ELSE t.ns[1], t.name)
    BY DEF Meaning, Styles
<1>2. CASE t.kind = "unit" /\ t.unit \in Units
    <2>1. t.unit \in Values
        BY <1>2 DEF Values
    <2> QED BY <1>1, <1>2, <2>1, SingleIs
<1>3. CASE t.kind = "dollar"
    <2>1. "$" \in Values
        BY DEF Values, Units
    <2> QED BY <1>1, <1>3, <2>1, SingleIs
<1>4. CASE t.kind \in Styles /\ t.name \in Seq(Units)
    <2> DEFINE w == IF t.ns = <<>> THEN "main" ELSE t.ns[1]
    <2>1. Meaning(t) = Value(w, t.name)
        BY <1>1, <1>4
    <2> HIDE DEF w
    <2>2. Value(w, t.name) \in Seq(Values)
        BY <1>4, FindIs
    <2> QED BY <1>1, <2>1, <2>2
<1> QED BY <1>2, <1>3, <1>4, PartIs

(* and is written with at least one unit. *)
LEMMA RenderType ==
    ASSUME NEW t \in Parts
    PROVE  /\ Render(t) \in Seq(Units) /\ Len(Render(t)) \in Nat \ {0}
           /\ t.kind = "unit" => Len(Render(t)) = 1 /\ Render(t)[1] = t.unit
           /\ t.kind # "unit" => Render(t)[1] = "$"
           /\ t.kind = "dollar" => Len(Render(t)) = 2 /\ Render(t)[2] = "$"
<1>1. <<"$">> \in Seq(Units) /\ <<"open">> \in Seq(Units) /\ <<"close">> \in Seq(Units)
    BY UnitsAre
<1>2. ASSUME NEW s \in Seq(Units)
      PROVE  /\ <<"$">> \o s \in Seq(Units) /\ Len(<<"$">> \o s) = 1 + Len(s) /\ Len(s) \in Nat
             /\ (<<"$">> \o s)[1] = "$" /\ (Len(s) = 1 => (<<"$">> \o s)[2] = s[1])
    <2> DEFINE d == <<"$">>
    <2>1. d \in Seq(Units) /\ Len(d) = 1 /\ d[1] = "$"
        BY <1>1
    <2> HIDE DEF d
    <2>5. d \in Seq(Units) /\ s \in Seq(Units)
        BY <2>1
    <2>2. /\ d \o s \in Seq(Units) /\ Len(s) \in Nat /\ Len(d \o s) = Len(d) + Len(s)
          /\ \A k \in 1..Len(d) : (d \o s)[k] = d[k]
          /\ \A k \in 1..Len(s) : (d \o s)[Len(d) + k] = s[k]
        BY <2>5, ConcatIs
    <2>3. (d \o s)[1] = "$"
        BY <2>1, <2>2
    <2>4. Len(s) = 1 => (d \o s)[1 + 1] = s[1]
        BY <2>1, <2>2
    <2> QED BY <2>1, <2>2, <2>3, <2>4 DEF d
<1>3. CASE t.kind = "unit" /\ t.unit \in Units
    <2>1. Render(t) = <<t.unit>>
        BY <1>3, RenderIs
    <2> QED BY <1>3, <2>1, SingleIs
<1>4. CASE t.kind = "dollar"
    <2>1. Render(t) = <<"$">> \o <<"$">>
        BY <1>4, RenderIs
    <2>2. Len(<<"$">>) = 1 /\ <<"$">>[1] = "$"
        OBVIOUS
    <2> QED BY <1>1, <1>2, <1>4, <2>1, <2>2
<1>5. CASE t.kind \in Styles
    <2>1. Inner(t) \in Seq(Units)
        BY <1>5, InnerType
    <2>2. PICK s \in Seq(Units) : Render(t) = <<"$">> \o s
        <3>1. CASE t.kind = "bare"
            BY <2>1, <3>1, RenderIs
        <3>2. CASE t.kind \in {"braced", "spaced"}
            <4>1. <<"open">> \o Inner(t) \in Seq(Units)
                BY <1>1, <2>1, ConcatProperties
            <4>2. (<<"open">> \o Inner(t)) \o <<"close">> \in Seq(Units)
                BY <1>1, <4>1, ConcatProperties
            <4> QED BY <3>2, <4>2, RenderIs
        <3> QED BY <1>5, <3>1, <3>2 DEF Styles
    <2>3. Len(s) \in Nat /\ Len(Render(t)) = 1 + Len(s) /\ Render(t) \in Seq(Units) /\ Render(t)[1] = "$"
        BY <1>2, <2>2
    <2>4. 1 + Len(s) \in Nat \ {0}
        BY <2>3
    <2> QED BY <1>5, <2>3, <2>4 DEF Styles
<1> QED BY <1>3, <1>4, <1>5, PartIs

(* Where a variable is in the text, get_value finds what it means. *)
LEMMA InnerGet ==
    ASSUME text \in Seq(Units), image \in Seq(Octets), NEW t \in Parts, t.kind \in Styles,
           NEW at \in Nat, Placed(Inner(t), at)
    PROVE  get_value(at, Len(Inner(t))) = Meaning(t)
<1> DEFINE n == t.name
           N == Len(n)
           e == <<"space">>
           c == <<":">>
           m == <<"space", ":", "space">>
           L == Len(text)
<1>1. /\ Named(t) /\ n \in Seq(Units) /\ Tight(n)
      /\ \/ t.ns = <<>>
         \/ \E w \in Words : w \in Units /\ t.ns = <<w>>
    BY PartIs DEF Styles
<1>2. Meaning(t) = Value(IF t.ns = <<>> THEN "main" ELSE t.ns[1], n)
    BY MeaningType
<1>3. L \in Nat /\ N \in Nat
    BY <1>1, LenProperties
<1>4. c \in Seq(Units) /\ e \in Seq(Units) /\ m \in Seq(Units) /\ Len(c) = 1 /\ Len(e) = 1 /\ Len(m) = 3
      /\ e[1] = "space" /\ m[1] = "space" /\ m[2] = ":" /\ m[3] = "space"
    BY UnitsAre
<1>5. CASE t.ns = <<>>
    <2>1. t.kind # "spaced" /\ \A k \in DOMAIN n : n[k] # ":"
        BY <1>1, <1>5 DEF Named
    <2>2. Inner(t) = n
        <3>1. Inner(t) = <<>> \o n
            BY <1>5, <2>1 DEF Inner, Joined
        <3> QED BY <1>1, <3>1, ConcatEmptySeq
    <2>3. Placed(n, at)
        BY <2>2
    <2> HIDE DEF n
    <2>4. get_value(at, Len(n)) = main_vars(n)
        BY <1>1, <2>1, <2>3, GetPlain
    <2>5. main_vars(n) = Value("main", n)
        BY <1>1, MainIs
    <2> QED BY <1>2, <1>5, <2>2, <2>4, <2>5
<1>6. CASE t.ns # <<>>
    <2>1. PICK w \in Words : w \in Units /\ t.ns = <<w>>
        BY <1>1, <1>6
    <2> DEFINE ns == <<w>>
    <2>2. ns \in Seq(Units) /\ Len(ns) = 1 /\ ns[1] = w
        BY <2>1, SingleIs
    <2>3. Meaning(t) = Value(w, n)
        BY <1>2, <1>6, <2>1, <2>2
    <2>4. find_in_next(ns, n) = Value(w, n)
        BY <1>1, FindIs
    <2>5. CASE t.kind # "spaced"
        <3>1. Inner(t) = (ns \o c) \o n
            BY <1>6, <2>1, <2>5 DEF Inner, Joined
        <3> HIDE DEF ns, n, N, c, L
        <3> DEFINE x == ns \o c
        <3>2. x \in Seq(Units) /\ Len(x) = 2
            <4>1. x \in Seq(Units) /\ Len(x) = Len(ns) + Len(c)
                BY <1>4, <2>2, ConcatIs
            <4> QED BY <1>4, <2>2, <4>1
        <3>3. Placed(x, at) /\ Placed(n, at + Len(x)) /\ Len(x \o n) = Len(x) + Len(n)
            <4>1. Placed(x \o n, at)
                BY <3>1
            <4>2. x \in Seq(Units) /\ n \in Seq(Units) /\ Len(text) \in Nat
                BY <1>1, <1>3, <3>2 DEF L
            <4> HIDE DEF x
            <4>3. Placed(x, at) /\ Placed(n, at + Len(x))
                BY <4>1, <4>2, PlacedConcat
            <4>4. Len(x \o n) = Len(x) + Len(n)
                BY <4>2, ConcatIs
            <4> QED BY <4>3, <4>4
        <3>4. Placed(ns, at) /\ Placed(c, at + Len(ns))
            <4>1. Len(text) \in Nat
                BY <1>3 DEF L
            <4> QED BY <1>4, <2>2, <3>3, <4>1, PlacedConcat
        <3> HIDE DEF x
        <3> DEFINE p == 0
        <3>5. Written(w, n, at, p)
            <4>1. at + p = at /\ at + 2 * p + 1 = at + Len(ns) /\ at + 3 * p + 2 = at + Len(x) /\ p # 1
                BY <2>2, <3>2
            <4> HIDE DEF p
            <4> QED BY <3>3, <3>4, <4>1 DEF Written, ns, c
        <3>6. p \in {0, 1} /\ 4 * p + 2 + Len(n) = Len(Inner(t))
            BY <1>3, <3>1, <3>2, <3>3 DEF x, N
        <3> HIDE DEF p
        <3>7. get_value(at, 4 * p + 2 + Len(n)) = find_in_next(<<w>>, n)
            BY <1>1, <3>5, <3>6, GetNamed
        <3> QED BY <2>3, <2>4, <3>6, <3>7 DEF ns
    <2>6. CASE t.kind = "spaced"
        <3>1. Inner(t) = (((e \o ns) \o m) \o n) \o e
            BY <2>1, <2>6 DEF Inner
        <3> HIDE DEF ns, n, N, c, L, e, m
        <3> DEFINE x == e \o ns
                   y == x \o m
                   z == y \o n
        <3>0. Len(text) \in Nat
            BY <1>3 DEF L
        <3>2. x \in Seq(Units) /\ Len(x) = 2
            <4>1. x \in Seq(Units) /\ Len(x) = Len(e) + Len(ns)
                BY <1>4, <2>2, ConcatIs
            <4> QED BY <1>4, <2>2, <4>1
        <3> HIDE DEF x
        <3>3. y \in Seq(Units) /\ Len(y) = 5
            <4>1. y \in Seq(Units) /\ Len(y) = Len(x) + Len(m)
                BY <1>4, <3>2, ConcatIs
            <4> QED BY <1>4, <3>2, <4>1
        <3> HIDE DEF y
        <3>4. z \in Seq(Units) /\ Len(z) = 5 + N
            <4>1. z \in Seq(Units) /\ Len(z) = Len(y) + Len(n)
                BY <1>1, <3>3, ConcatIs
            <4> QED BY <3>3, <4>1 DEF N
        <3> HIDE DEF z
        <3>5. Inner(t) = z \o e /\ Len(Inner(t)) = 5 + N + 1
            <4>1. Inner(t) = z \o e
                BY <3>1 DEF x, y, z
            <4>2. Len(z \o e) = Len(z) + Len(e)
                BY <1>4, <3>4, ConcatIs
            <4> QED BY <1>4, <3>4, <4>1, <4>2
        <3>6. Placed(z, at) /\ Placed(e, at + Len(z))
            <4>1. Placed(z \o e, at)
                BY <3>5
            <4> QED BY <1>4, <3>0, <3>4, <4>1, PlacedConcat
        <3>7. Placed(y, at) /\ Placed(n, at + Len(y))
            <4>1. Placed(y \o n, at)
                BY <3>6 DEF z
            <4> QED BY <1>1, <3>0, <3>3, <4>1, PlacedConcat
        <3>8. Placed(x, at) /\ Placed(m, at + Len(x))
            <4>1. Placed(x \o m, at)
                BY <3>7 DEF y
            <4> QED BY <1>4, <3>0, <3>2, <4>1, PlacedConcat
        <3>9. Placed(e, at) /\ Placed(ns, at + Len(e))
            <4>1. Placed(e \o ns, at)
                BY <3>8 DEF x
            <4> QED BY <1>4, <2>2, <3>0, <4>1, PlacedConcat
        <3>10. \A k \in 1..Len(m) : (at + 2) + k - 1 \in Nat /\ str((at + 2) + k - 1) = m[k]
            <4>1. Placed(m, at + 2) /\ Len(m) \in Nat
                BY <1>4, <3>2, <3>8
            <4> QED BY <3>0, <4>1, PlacedStr
        <3>11. str((at + 2) + 1 - 1) = "space" /\ str((at + 2) + 3 - 1) = "space"
            BY <1>4, <3>10
        <3>12. \A s : s \in Nat /\ Placed(e, s) => str(s + 1 - 1) = "space"
            <4> SUFFICES ASSUME NEW s \in Nat, Placed(e, s) PROVE str(s + 1 - 1) = "space"
                OBVIOUS
            <4>1. Len(e) \in Nat
                BY <1>4
            <4>2. \A k \in 1..Len(e) : s + k - 1 \in Nat /\ str(s + k - 1) = e[k]
                BY <3>0, <4>1, PlacedStr
            <4> QED BY <1>4, <4>2
        <3>13. Placed(c, at + 3)
            <4>1. Placed(m, at + 2)
                BY <3>2, <3>8
            <4>2. at + 2 \in Nat /\ (at + 2) + Len(m) <= L /\ \A k \in 1..Len(m) : text[(at + 2) + k] = m[k]
                BY <4>1 DEF Placed, L
            <4>3. text[(at + 2) + 2] = ":"
                BY <1>4, <4>2
            <4>4. (at + 3) + 1 = (at + 2) + 2 /\ at + 3 \in Nat /\ (at + 3) + 1 <= L
                BY <1>3, <1>4, <4>2
            <4>5. c[1] = ":"
                BY DEF c
            <4> QED BY <1>4, <4>3, <4>4, <4>5 DEF Placed, L
        <3> DEFINE p == 1
        <3>14. /\ str(at) = "space" /\ str(at + 2) = "space" /\ str(at + 4) = "space"
               /\ str(at + 5 + N) = "space"
            <4>1. str(at + 1 - 1) = "space" /\ at + 1 - 1 = at
                BY <3>9, <3>12
            <4>2. (at + 2) + 1 - 1 = at + 2 /\ (at + 2) + 3 - 1 = at + 4
                OBVIOUS
            <4>3. str(at + 5 + N) = "space"
                <5>1. at + Len(z) \in Nat /\ (at + Len(z)) + 1 - 1 = at + 5 + N
                    BY <1>3, <3>4
                <5>2. str((at + Len(z)) + 1 - 1) = "space"
                    BY <3>6, <3>12, <5>1
                <5> QED BY <5>1, <5>2
            <4> QED BY <3>11, <4>1, <4>2, <4>3
        <3>15. Written(w, n, at, p)
            <4>1. at + p = at + Len(e) /\ at + 2 * p + 1 = at + 3 /\ at + 3 * p + 2 = at + Len(y)
                BY <1>4, <3>3
            <4> HIDE DEF p
            <4> QED BY <3>7, <3>9, <3>13, <3>14, <4>1 DEF Written, ns, c, N
        <3>16. p \in {0, 1} /\ 4 * p + 2 + Len(n) = Len(Inner(t))
            BY <1>3, <3>5 DEF N
        <3> HIDE DEF p
        <3>17. get_value(at, 4 * p + 2 + Len(n)) = find_in_next(<<w>>, n)
            BY <1>1, <3>15, <3>16, GetNamed
        <3> QED BY <2>3, <2>4, <3>16, <3>17 DEF ns
    <2> QED BY <2>5, <2>6
<1> QED BY <1>5, <1>6

-----------------------------------------------------------------------------
(* resolve *)

Renders == [k \in DOMAIN template |-> Render(template[k])]
Meanings == [k \in DOMAIN template |-> Meaning(template[k])]

(* What resolve is given, and does not change. *)
Given ==
    /\ template \in Seq(Parts) /\ Clear(template)
    /\ image \in Seq(Octets) /\ text = TextOf(template)

(* The text and its meaning, put together part by part. *)
Track(u, v) ==
    /\ IsUpto(u, Renders, Units) /\ text = u[Len(template)]
    /\ IsUpto(v, Meanings, Values) /\ FlattenSeq(Meanings) = v[Len(template)]

(* One string of units and one of values for each part. *)
LEMMA GivenType ==
    ASSUME Given
    PROVE  /\ Len(template) \in Nat /\ \A k \in 1..Len(template) : template[k] \in Parts
           /\ Renders \in Seq(Seq(Units)) /\ Len(Renders) = Len(template)
           /\ Meanings \in Seq(Seq(Values)) /\ Len(Meanings) = Len(template)
           /\ \A k \in 1..Len(template) : /\ Renders[k] = Render(template[k])
                                          /\ Meanings[k] = Meaning(template[k])
<1> DEFINE N == Len(template)
<1>1. N \in Nat /\ DOMAIN template = 1..N /\ \A k \in 1..N : template[k] \in Parts
    BY LenProperties, ElementOfSeq DEF Given
<1>2. /\ \A k \in 1..N : Renders[k] = Render(template[k]) /\ Meanings[k] = Meaning(template[k])
      /\ DOMAIN Renders = 1..N /\ DOMAIN Meanings = 1..N
    BY <1>1 DEF Renders, Meanings
<1>3. Renders \in [1..N -> Seq(Units)]
    <2>1. \A k \in 1..N : Render(template[k]) \in Seq(Units)
        BY <1>1, RenderType
    <2> QED BY <1>1, <2>1 DEF Renders
<1>4. Meanings \in [1..N -> Seq(Values)]
    <2>1. \A k \in 1..N : Meaning(template[k]) \in Seq(Values)
        BY <1>1, MeaningType DEF Given
    <2> QED BY <1>1, <2>1 DEF Meanings
<1> HIDE DEF N
<1>5. Renders \in Seq(Seq(Units)) /\ Len(Renders) = N
    BY <1>1, <1>3, SeqIs
<1>6. Meanings \in Seq(Seq(Values)) /\ Len(Meanings) = N
    BY <1>1, <1>4, SeqIs
<1> QED BY <1>1, <1>2, <1>5, <1>6 DEF N

(* Both are there for whatever resolve is given. *)
LEMMA Tracked ==
    ASSUME Given
    PROVE  text \in Seq(Units) /\ \E u, v : Track(u, v)
<1>1. PICK u : IsUpto(u, Renders, Units) /\ FlattenSeq(Renders) = u[Len(Renders)]
    BY GivenType, FlattenIs
<1>2. PICK v : IsUpto(v, Meanings, Values) /\ FlattenSeq(Meanings) = v[Len(Meanings)]
    BY GivenType, FlattenIs
<1>3. text = FlattenSeq(Renders)
    BY DEF Given, TextOf, Renders
<1>4. Track(u, v)
    BY <1>1, <1>2, <1>3, GivenType DEF Track
<1>5. text \in Seq(Units)
    <2>1. Len(Renders) \in 0..Len(Renders)
        BY GivenType
    <2> QED BY <1>1, <1>3, <2>1 DEF IsUpto
<1> QED BY <1>4, <1>5

(* Where a part begins, it is in the text, and the next one behind it. *)
Begins(u, v, k, t) ==
    /\ k + 1 \in 1..Len(template) /\ t = template[k + 1] /\ t \in Parts
    /\ i \in Nat /\ Placed(Render(t), i)
    /\ Len(u[k + 1]) = i + Len(Render(t)) /\ i + Len(Render(t)) <= Len(text)
    /\ v[k] \in Seq(Values) /\ v[k + 1] = v[k] \o Meaning(t)
    /\ str(i + Len(Render(t))) = IF k + 1 = Len(template) THEN "NUL" ELSE Render(template[k + 2])[1]

(* It is so wherever resolve has come to the end of a part before. *)
LEMMA BeginsIs ==
    ASSUME Given, NEW u, NEW v, Track(u, v), NEW k \in 0..Len(template), i = Len(u[k]), i < Len(text)
    PROVE  Begins(u, v, k, template[k + 1])
<1> DEFINE N == Len(template)
           m == k + 1
           t == template[m]
<1>1. /\ N \in Nat /\ (\A n \in 1..N : template[n] \in Parts)
      /\ Renders \in Seq(Seq(Units)) /\ Len(Renders) = N /\ Len(Meanings) = N
      /\ \A n \in 1..N : Renders[n] = Render(template[n]) /\ Meanings[n] = Meaning(template[n])
    BY GivenType
<1>2. IsUpto(u, Renders, Units) /\ text = u[N] /\ IsUpto(v, Meanings, Values)
    BY DEF Track
<1>3. k # N
    BY <1>2
<1>4. m \in 1..N /\ m - 1 = k /\ k \in 0..N
    BY <1>1, <1>3
<1>5. t \in Parts /\ Renders[m] = Render(t) /\ Meanings[m] = Meaning(t)
    BY <1>1, <1>4
<1>6. ASSUME NEW n \in 1..N
      PROVE  /\ Before(u, n) \in Nat /\ Len(Render(template[n])) \in Nat /\ Len(text) \in Nat
             /\ Len(u[n]) = Before(u, n) + Len(Render(template[n]))
             /\ Len(u[n]) <= Len(text)
             /\ \A p \in 1..Len(Render(template[n])) : text[Before(u, n) + p] = Render(template[n])[p]
    <2>1. Renders[n] = Render(template[n]) /\ n \in 1..Len(Renders) /\ text = u[Len(Renders)]
        BY <1>1, <1>2
    <2>2. /\ Before(u, n) \in Nat /\ Len(Renders[n]) \in Nat /\ Len(u[Len(Renders)]) \in Nat
          /\ Len(u[n]) = Before(u, n) + Len(Renders[n])
          /\ Len(u[n]) <= Len(u[Len(Renders)])
          /\ \A p \in 1..Len(Renders[n]) : u[Len(Renders)][Before(u, n) + p] = Renders[n][p]
        BY <1>1, <1>2, <2>1, UptoPlaced
    <2> QED BY <2>1, <2>2
<1>7. Before(u, m) = i
    BY <1>4 DEF Before
<1>8. /\ i \in Nat /\ Placed(Render(t), i)
      /\ Len(u[m]) = i + Len(Render(t)) /\ i + Len(Render(t)) <= Len(text)
    <2>1. /\ Before(u, m) \in Nat
          /\ Len(u[m]) = Before(u, m) + Len(Render(t))
          /\ Len(u[m]) <= Len(text)
          /\ \A p \in 1..Len(Render(t)) : text[Before(u, m) + p] = Render(t)[p]
        BY <1>4, <1>6
    <2> QED BY <1>7, <2>1 DEF Placed
<1>9. v[k] \in Seq(Values) /\ v[m] = v[k] \o Meaning(t)
    <2>1. v[m] = v[m - 1] \o Meanings[m]
        BY <1>1, <1>2, <1>4 DEF IsUpto
    <2>2. v[k] \in Seq(Values)
        BY <1>1, <1>2 DEF IsUpto
    <2> QED BY <1>4, <1>5, <2>1, <2>2
<1>10. str(i + Len(Render(t))) = IF m = N THEN "NUL" ELSE Render(template[k + 2])[1]
    <2>1. CASE m = N
        <3>1. i + Len(Render(t)) = Len(text)
            BY <1>2, <1>8, <2>1
        <3>2. ~ (i + Len(Render(t)) < Len(text))
            <4>1. Len(text) \in Nat
                BY Tracked, LenProperties
            <4>2. ~ (Len(text) < Len(text))
                BY <4>1
            <4> QED BY <3>1, <4>2
        <3> QED BY <2>1, <3>2 DEF str
    <2>2. CASE m # N
        <3> DEFINE n == k + 2
                   r == Render(template[n])
        <3>1. n \in 1..N /\ n - 1 = m
            BY <1>1, <1>4, <2>2
        <3>2. Before(u, n) = i + Len(Render(t))
            BY <1>8, <3>1 DEF Before
        <3>3. Len(r) \in Nat \ {0}
            BY <1>1, <3>1, RenderType
        <3>4. /\ Before(u, n) \in Nat /\ Len(text) \in Nat
              /\ Before(u, n) + Len(r) <= Len(text)
              /\ \A p \in 1..Len(r) : text[Before(u, n) + p] = r[p]
            BY <1>6, <3>1
        <3> HIDE DEF r, n
        <3>5. Before(u, n) < Len(text) /\ text[Before(u, n) + 1] = r[1]
            <4>1. 1 \in 1..Len(r)
                BY <3>3
            <4> QED BY <3>3, <3>4, <4>1
        <3>6. str(Before(u, n)) = r[1]
            BY <3>5 DEF str
        <3> QED BY <2>2, <3>2, <3>6 DEF r, n
    <2> QED BY <2>1, <2>2
<1> QED BY <1>4, <1>5, <1>8, <1>9, <1>10 DEF Begins

(* What stands at a part makes the variable that resolve finds there: none *)
(* for a unit,                                                             *)
LEMMA UnitFound ==
    ASSUME Given, NEW u, NEW v, NEW k \in 0..Len(template), NEW t, Begins(u, v, k, t), t.kind = "unit"
    PROVE  ~ IsVariable /\ Len(Render(t)) = 1 /\ text[i + 1] = t.unit
<1>1. /\ Len(template) \in Nat /\ k + 1 \in 1..Len(template) /\ t = template[k + 1] /\ t \in Parts
      /\ i \in Nat /\ Placed(Render(t), i)
    BY GivenType DEF Begins
<1>2. Len(Render(t)) = 1 /\ Render(t)[1] = t.unit
    BY <1>1, RenderType
<1>3. text[i + 1] = t.unit /\ str(i) = t.unit
    <2>1. \A p \in 1..1 : text[i + p] = Render(t)[p]
        BY <1>1, <1>2 DEF Placed
    <2>2. text[i + 1] = Render(t)[1]
        BY <2>1
    <2>3. i < Len(text)
        <3>1. text \in Seq(Units) /\ i + 1 <= Len(text)
            BY <1>1, <1>2, Tracked DEF Placed
        <3>2. Len(text) \in Nat
            BY <3>1, LenProperties
        <3> QED BY <1>1, <3>1, <3>2
    <2> QED BY <1>2, <2>2, <2>3 DEF str
<1>4. str(i + 1) = IF k + 1 = Len(template) THEN "NUL" ELSE Render(template[k + 2])[1]
    BY <1>2 DEF Begins
<1>5. ASSUME t.unit = "$" PROVE ~ isvar(str(i + 1)) /\ str(i + 1) \notin {"open", "$"}
    <2>1. CASE k + 1 = Len(template)
        <3>1. "NUL" \notin Words
            BY VarsAssumption
        <3> QED BY <1>4, <2>1, <3>1 DEF isvar
    <2>2. CASE k + 1 # Len(template)
        <3> DEFINE m == k + 1
        <3>1. m \in 1..(Len(template) - 1) /\ m + 1 = k + 2
            BY <1>1, <2>2
        <3> HIDE DEF m
        <3>2. /\ ~ isvar(Render(template[m + 1])[1])
              /\ Render(template[m + 1])[1] \notin {"$", "open"}
            <4>1. template[m].kind = "unit" /\ template[m].unit = "$"
                BY <1>1, <1>5 DEF m
            <4> QED BY <3>1, <4>1 DEF Given, Clear
        <3> QED BY <1>4, <2>2, <3>1, <3>2
    <2> QED BY <2>1, <2>2
<1> QED BY <1>2, <1>3, <1>5 DEF IsVariable

(* "$$" for a dollar,  *)
LEMMA DollarFound ==
    ASSUME Given, NEW u, NEW v, NEW k, NEW t, Begins(u, v, k, t), t.kind = "dollar"
    PROVE  IsVariable /\ str(i + 1) = "$" /\ ~ isvar("$") /\ Len(Render(t)) = 2
<1>1. t \in Parts /\ i \in Nat /\ Placed(Render(t), i)
    BY DEF Begins
<1>2. Len(Render(t)) = 2 /\ Render(t)[1] = "$" /\ Render(t)[2] = "$"
    BY <1>1, RenderType
<1>3. Len(text) \in Nat
    BY Tracked, LenProperties
<1>4. \A p \in 1..2 : str(i + p - 1) = Render(t)[p]
    <2> DEFINE r == Render(t)
    <2>1. Len(r) \in Nat
        BY <1>2
    <2> HIDE DEF r
    <2>2. \A p \in 1..Len(r) : i + p - 1 \in Nat /\ str(i + p - 1) = r[p]
        BY <1>1, <1>3, <2>1, PlacedStr DEF r
    <2> QED BY <1>2, <2>2 DEF r
<1>5. str(i + 1 - 1) = "$" /\ str(i + 2 - 1) = "$" /\ i + 1 - 1 = i /\ i + 2 - 1 = i + 1
    BY <1>1, <1>2, <1>4
<1>6. "$" \notin Words
    BY VarsAssumption
<1> QED BY <1>2, <1>5, <1>6 DEF IsVariable, isvar

(* a variable in brackets, *)
LEMMA BracedFound ==
    ASSUME Given, NEW u, NEW v, NEW k, NEW t, Begins(u, v, k, t), t.kind \in {"braced", "spaced"}
    PROVE  /\ IsVariable /\ str(i + 1) = "open" /\ ~ isvar("open")
           /\ find_closing_bracket(i + 1) = Len(Inner(t)) + 2
           /\ get_value(i + 2, Len(Inner(t))) = Meaning(t)
           /\ Len(Inner(t)) \in Nat /\ Len(Render(t)) = Len(Inner(t)) + 3
<1> DEFINE s == Inner(t)
           d == <<"$">>
           o == <<"open">>
           c == <<"close">>
           a == o \o s
           b == a \o c
<1>1. t \in Parts /\ i \in Nat /\ Placed(Render(t), i) /\ t.kind \in Styles
    BY DEF Begins, Styles
<1>2. Render(t) = d \o b
    BY <1>1, RenderIs
<1>3. s \in Seq(Units) /\ Closed(s)
    BY <1>1, InnerType
<1>4. /\ d \in Seq(Units) /\ Len(d) = 1 /\ d[1] = "$"
      /\ o \in Seq(Units) /\ Len(o) = 1 /\ o[1] = "open"
      /\ c \in Seq(Units) /\ Len(c) = 1
    BY UnitsAre
<1>5. text \in Seq(Units) /\ Len(text) \in Nat
    BY Tracked, LenProperties
<1> HIDE DEF s, d, o, c
<1>7. a \in Seq(Units) /\ Len(a) = 1 + Len(s) /\ Len(s) \in Nat
    BY <1>3, <1>4, ConcatIs
<1> HIDE DEF a
<1>8. b \in Seq(Units) /\ Len(b) = Len(s) + 2
    <2>1. b \in Seq(Units) /\ Len(b) = Len(a) + Len(c)
        BY <1>4, <1>7, ConcatIs
    <2> QED BY <1>4, <1>7, <2>1
<1> HIDE DEF b
<1>9. Len(Render(t)) = Len(s) + 3
    <2>1. Len(d \o b) = Len(d) + Len(b)
        BY <1>4, <1>8, ConcatIs
    <2> QED BY <1>2, <1>4, <1>7, <1>8, <2>1
<1>10. Placed(d, i) /\ Placed(b, i + 1)
    <2>1. Placed(d \o b, i)
        BY <1>1, <1>2
    <2>2. Placed(d, i) /\ Placed(b, i + Len(d))
        BY <1>4, <1>5, <1>8, <2>1, PlacedConcat
    <2> QED BY <1>4, <2>2
<1>11. Placed(a, i + 1)
    <2>1. Placed(a \o c, i + 1)
        BY <1>10 DEF b
    <2> QED BY <1>4, <1>5, <1>7, <2>1, PlacedConcat
<1>12. Placed(o, i + 1) /\ Placed(s, i + 2)
    <2>1. Placed(o \o s, i + 1)
        BY <1>11 DEF a
    <2>2. Placed(o, i + 1) /\ Placed(s, (i + 1) + Len(o))
        BY <1>3, <1>4, <1>5, <2>1, PlacedConcat
    <2>3. (i + 1) + Len(o) = i + 2
        BY <1>1, <1>4
    <2> QED BY <2>2, <2>3
<1>13. str(i) = "$" /\ str(i + 1) = "open"
    <2>1. \A p \in 1..Len(d) : i + p - 1 \in Nat /\ str(i + p - 1) = d[p]
        BY <1>4, <1>5, <1>10, PlacedStr
    <2>2. \A p \in 1..Len(o) : (i + 1) + p - 1 \in Nat /\ str((i + 1) + p - 1) = o[p]
        BY <1>4, <1>5, <1>12, PlacedStr
    <2>3. i + 1 - 1 = i /\ (i + 1) + 1 - 1 = i + 1
        BY <1>1
    <2> QED BY <1>4, <2>1, <2>2, <2>3
<1>14. find_closing_bracket(i + 1) = Len(s) + 2
    <2>1. Placed((<<"open">> \o s) \o <<"close">>, i + 1)
        BY <1>10 DEF a, b, o, c
    <2> QED BY <1>3, <1>5, <2>1, BracketIs
<1>15. get_value(i + 2, Len(s)) = Meaning(t)
    <2>1. i + 2 \in Nat
        BY <1>1
    <2>2. image \in Seq(Octets)
        BY DEF Given
    <2> QED BY <1>1, <1>5, <1>12, <2>1, <2>2, InnerGet DEF s
<1>16. "open" \notin Words
    BY VarsAssumption
<1> QED BY <1>7, <1>9, <1>13, <1>14, <1>15, <1>16 DEF IsVariable, isvar, s

(* or a name and the words that belong to it. *)
LEMMA BareIs ==
    ASSUME NEW t \in Parts, t.kind = "bare"
    PROVE  Inner(t) # <<>> /\ \A p \in 1..Len(Inner(t)) : isvar(Inner(t)[p])
<1> DEFINE n == t.name
           c == <<":">>
<1>1. /\ Named(t) /\ n \in Seq(Units) /\ Inner(t) = Joined(t)
      /\ \/ t.ns = <<>>
         \/ \E w \in Words : w \in Units /\ t.ns = <<w>>
    BY PartIs DEF Styles, Inner
<1>2. Joined(t) # <<>> /\ \A p \in 1..Len(n) : isvar(n[p])
    <2>1. DOMAIN n = 1..Len(n)
        BY <1>1, LenProperties
    <2> QED BY <1>1, <2>1 DEF Named
<1>3. CASE t.ns = <<>>
    <2>1. Joined(t) = <<>> \o n
        BY <1>3 DEF Joined
    <2> QED BY <1>1, <1>2, <2>1, ConcatEmptySeq
<1>4. CASE t.ns # <<>>
    <2>1. PICK w \in Words : w \in Units /\ t.ns = <<w>>
        BY <1>1, <1>4
    <2> DEFINE ns == <<w>>
               x == ns \o c
               y == x \o n
    <2>2. ns \in Seq(Units) /\ Len(ns) = 1 /\ ns[1] = w /\ c \in Seq(Units) /\ Len(c) = 1 /\ c[1] = ":"
        BY <2>1, SingleIs, UnitsAre
    <2>3. Joined(t) = y
        BY <1>4, <2>1 DEF Joined
    <2> HIDE DEF ns, c, n
    <2>4. /\ x \in Seq(Units) /\ Len(x) = Len(ns) + Len(c)
          /\ \A p \in 1..Len(ns) : x[p] = ns[p]
          /\ \A p \in 1..Len(c) : x[Len(ns) + p] = c[p]
        BY <2>2, ConcatIs
    <2> HIDE DEF x
    <2>5. Len(x) = 2 /\ x[1] = w /\ x[1 + 1] = ":"
        BY <2>2, <2>4
    <2>6. \A p \in 1..2 : isvar(x[p])
        BY <2>5 DEF isvar
    <2>9. x \in Seq(Units) /\ n \in Seq(Units)
        BY <1>1, <2>4
    <2>7. /\ y \in Seq(Units) /\ Len(n) \in Nat /\ Len(y) = Len(x) + Len(n)
          /\ \A p \in 1..Len(x) : y[p] = x[p]
          /\ \A p \in 1..Len(n) : y[Len(x) + p] = n[p]
        BY <2>9, ConcatIs
    <2> HIDE DEF y
    <2>8. ASSUME NEW p \in 1..Len(y) PROVE isvar(y[p])
        <3>1. CASE p \in 1..2
            BY <2>5, <2>6, <2>7, <3>1
        <3>2. CASE p \notin 1..2
            <4>1. PICK q \in 1..Len(n) : p = 2 + q
                <5>1. p - 2 \in 1..Len(n) /\ p = 2 + (p - 2)
                    BY <2>5, <2>7, <3>2
                <5> QED BY <5>1
            <4>2. y[2 + q] = n[q] /\ isvar(n[q])
                BY <1>2, <2>5, <2>7 DEF n
            <4> QED BY <4>1, <4>2
        <3> QED BY <3>1, <3>2
    <2> QED BY <1>1, <1>2, <2>3, <2>8
<1> QED BY <1>3, <1>4

(* Its end is found by the unit that does not belong to it. *)
LEMMA BareFound ==
    ASSUME Given, NEW u, NEW v, NEW k \in 0..Len(template), NEW t, Begins(u, v, k, t), t.kind = "bare"
    PROVE  /\ IsVariable /\ isvar(str(i + 1))
           /\ Least({n \in 1..Len(text) : ~ isvar(str(i + 1 + n))}) = Len(Inner(t))
           /\ get_value(i + 1, Len(Inner(t))) = Meaning(t)
           /\ Len(Inner(t)) \in Nat /\ Len(Render(t)) = Len(Inner(t)) + 1
<1> DEFINE s == Inner(t)
           d == <<"$">>
           q == Len(s)
           T == {n \in 1..Len(text) : ~ isvar(str(i + 1 + n))}
<1>1. t \in Parts /\ i \in Nat /\ Placed(Render(t), i) /\ t.kind \in Styles /\ i + Len(Render(t)) <= Len(text)
      /\ t = template[k + 1] /\ k + 1 \in 1..Len(template)
    BY DEF Begins, Styles
<1>2. Render(t) = d \o s
    BY <1>1, RenderIs
<1>3. s \in Seq(Units) /\ s # <<>> /\ \A p \in 1..q : isvar(s[p])
    BY <1>1, InnerType, BareIs
<1>4. d \in Seq(Units) /\ Len(d) = 1 /\ d[1] = "$"
    BY UnitsAre
<1>5. text \in Seq(Units) /\ Len(text) \in Nat
    BY Tracked, LenProperties
<1> HIDE DEF s, d
<1>6. Len(Render(t)) = q + 1 /\ q \in Nat \ {0}
    <2>1. Len(d \o s) = Len(d) + Len(s) /\ Len(s) \in Nat
        BY <1>3, <1>4, ConcatIs
    <2>2. Len(s) # 0
        BY <1>3, EmptySeq
    <2> QED BY <1>2, <1>4, <2>1, <2>2
<1>7. Placed(d, i) /\ Placed(s, i + 1)
    <2>1. Placed(d \o s, i)
        BY <1>1, <1>2
    <2>2. Placed(d, i) /\ Placed(s, i + Len(d))
        BY <1>3, <1>4, <1>5, <2>1, PlacedConcat
    <2> QED BY <1>4, <2>2
<1>8. str(i) = "$"
    <2>3. Placed(d, i) /\ Len(d) \in Nat
        BY <1>4, <1>7
    <2>1. \A p \in 1..Len(d) : i + p - 1 \in Nat /\ str(i + p - 1) = d[p]
        BY <1>5, <2>3, PlacedStr
    <2>2. i + 1 - 1 = i
        BY <1>1
    <2> QED BY <1>4, <2>1, <2>2
<1>9. \A p \in 1..q : str((i + 1) + p - 1) = s[p]
    <2>1. Len(s) \in Nat
        BY <1>6
    <2> QED BY <1>5, <1>7, <2>1, PlacedStr
<1> HIDE DEF q
<1>10. ASSUME NEW n \in 0..(q - 1) PROVE isvar(str(i + 1 + n))
    <2>1. PICK p \in 1..q : p = n + 1
        BY <1>6
    <2>2. (i + 1) + p - 1 = i + 1 + n
        BY <1>1, <2>1
    <2>3. str((i + 1) + p - 1) = s[p] /\ isvar(s[p])
        BY <1>3, <1>9
    <2> QED BY <2>2, <2>3
<1>11. isvar(str(i + 1))
    <2>1. 0 \in 0..(q - 1) /\ i + 1 + 0 = i + 1
        BY <1>1, <1>6
    <2> QED BY <1>10, <2>1
<1>12. ~ isvar(str(i + 1 + q))
    <2>1. str(i + Len(Render(t))) = IF k + 1 = Len(template) THEN "NUL" ELSE Render(template[k + 2])[1]
        BY DEF Begins
    <2>2. i + Len(Render(t)) = i + 1 + q
        BY <1>1, <1>6
    <2>3. CASE k + 1 = Len(template)
        <3>1. "NUL" \notin Words
            BY VarsAssumption
        <3> QED BY <2>1, <2>2, <2>3, <3>1 DEF isvar
    <2>4. CASE k + 1 # Len(template)
        <3> DEFINE m == k + 1
        <3>1. m \in 1..(Len(template) - 1) /\ m + 1 = k + 2
            BY <1>1, <2>4, GivenType
        <3> HIDE DEF m
        <3>2. ~ isvar(Render(template[m + 1])[1])
            <4>1. template[m].kind = "bare"
                BY <1>1 DEF m
            <4> QED BY <3>1, <4>1 DEF Given, Clear
        <3> QED BY <2>1, <2>2, <2>4, <3>1, <3>2
    <2> QED BY <2>3, <2>4
<1>13. Least(T) = q
    <2>1. q \in T
        <3>1. q \in 1..Len(text)
            BY <1>1, <1>5, <1>6
        <3> QED BY <1>12, <3>1
    <2>2. ASSUME NEW n \in T PROVE n \in Nat /\ q <= n
        <3>1. n \in Nat /\ ~ isvar(str(i + 1 + n))
            OBVIOUS
        <3>2. n \notin 0..(q - 1)
            BY <1>10, <3>1
        <3> QED BY <1>6, <3>1, <3>2
    <2> HIDE DEF T
    <2>3. T \subseteq Nat
        BY <2>2
    <2> QED BY <2>1, <2>2, <2>3, LeastIs
<1>14. get_value(i + 1, q) = Meaning(t)
    <2>1. i + 1 \in Nat
        BY <1>1
    <2>2. image \in Seq(Octets)
        BY DEF Given
    <2> QED BY <1>1, <1>5, <1>7, <2>1, <2>2, InnerGet DEF s, q
<1> QED BY <1>6, <1>8, <1>11, <1>13, <1>14 DEF IsVariable, q, s

(* A string of the text, and the same with the unit behind it. *)
LEMMA StringIs ==
    ASSUME text \in Seq(Units), NEW a \in Nat
    PROVE  /\ String(a, 0) = <<>>
           /\ \A n \in Nat : a + n <= Len(text) => String(a, n) \in Seq(Units)
           /\ \A n \in Nat : a + n < Len(text) =>
                  String(a, n + 1) = String(a, n) \o <<text[a + n + 1]>> /\ text[a + n + 1] \in Units
<1> DEFINE L == Len(text)
<1>1. L \in Nat
    BY LenProperties
<1>2. String(a, 0) = <<>>
    <2>1. a + 0 < a + 1 /\ a + 1 \in Int /\ a + 0 \in Int
        OBVIOUS
    <2> QED BY <2>1, SubSeqEmpty DEF String
<1>3. ASSUME NEW n \in Nat, a + n <= L
      PROVE  /\ String(a, n) \in Seq(Units) /\ Len(String(a, n)) = n
             /\ \A p \in 1..n : String(a, n)[p] = text[a + p]
    <2> DEFINE from == a + 1
               to == a + n
    <2>1. from \in Int /\ to \in Int /\ to - from + 1 = n /\ (from <= to \/ n = 0)
        OBVIOUS
    <2>2. \A p \in from..to : text[p] \in Units
        <3>1. \A p \in from..to : p \in 1..L
            BY <1>1, <1>3
        <3> QED BY <3>1, ElementOfSeq
    <2>3. \A p \in 1..n : from + p - 1 = a + p
        OBVIOUS
    <2> HIDE DEF from, to
    <2>4. /\ SubSeq(text, from, to) \in Seq(Units)
          /\ Len(SubSeq(text, from, to)) = IF from <= to THEN to - from + 1 ELSE 0
          /\ \A p \in 1..(to - from + 1) : SubSeq(text, from, to)[p] = text[from + p - 1]
        BY <2>1, <2>2, SubSeqProperties
    <2>5. Len(SubSeq(text, from, to)) = n
        BY <2>1, <2>4 DEF from, to
    <2>6. \A p \in 1..n : SubSeq(text, from, to)[p] = text[a + p]
        BY <2>1, <2>3, <2>4
    <2> QED BY <2>4, <2>5, <2>6 DEF String, from, to
<1>4. ASSUME NEW n \in Nat, a + n < L
      PROVE  String(a, n + 1) = String(a, n) \o <<text[a + n + 1]>> /\ text[a + n + 1] \in Units
    <2> DEFINE m == n + 1
               e == text[a + n + 1]
               x == String(a, n)
               y == <<e>>
               z == String(a, m)
    <2>1. m \in Nat /\ a + m <= L /\ a + n <= L
        BY <1>1, <1>4
    <2>2. e \in Units
        <3>1. a + n + 1 \in 1..L
            BY <1>1, <1>4
        <3> QED BY <3>1, ElementOfSeq
    <2> HIDE DEF e
    <2>3. x \in Seq(Units) /\ Len(x) = n /\ \A p \in 1..n : x[p] = text[a + p]
        BY <1>3, <2>1
    <2>4. z \in Seq(Units) /\ Len(z) = m /\ \A p \in 1..m : z[p] = text[a + p]
        <3> HIDE DEF m
        <3> QED BY <1>3, <2>1
    <2>5. y \in Seq(Units) /\ Len(y) = 1 /\ y[1] = e
        BY <2>2, SingleIs
    <2> HIDE DEF x, y, z
    <2>6. x \in Seq(Units) /\ y \in Seq(Units)
        BY <2>3, <2>5
    <2>7. /\ x \o y \in Seq(Units) /\ Len(x \o y) = Len(x) + Len(y)
          /\ \A p \in 1..Len(x) : (x \o y)[p] = x[p]
          /\ \A p \in 1..Len(y) : (x \o y)[Len(x) + p] = y[p]
        BY <2>6, ConcatIs
    <2> DEFINE w == x \o y
    <2>8. w \in Seq(Units) /\ Len(w) = m /\ (\A p \in 1..n : w[p] = x[p]) /\ w[n + 1] = e
        BY <2>3, <2>5, <2>7
    <2> HIDE DEF w
    <2>9. ASSUME NEW p \in 1..m PROVE z[p] = w[p]
        <3>1. CASE p = n + 1
            <4>1. a + p = a + n + 1
                BY <3>1
            <4> QED BY <2>4, <2>8, <3>1, <4>1 DEF e
        <3>2. CASE p # n + 1
            <4>1. p \in 1..n
                BY <3>2
            <4> QED BY <2>3, <2>4, <2>8, <4>1
        <3> QED BY <3>1, <3>2
    <2>10. z = w
        <3>1. Len(z) = Len(w) /\ \A p \in 1..Len(z) : z[p] = w[p]
            BY <2>4, <2>8, <2>9
        <3> QED BY <2>4, <2>8, <3>1, SeqEqual
    <2> QED BY <2>2, <2>10 DEF e, m, w, x, y, z
<1> QED BY <1>2, <1>3, <1>4

(* Where resolve is: at the beginning of a part, and what it has put       *)
(* together with what it has passed since is what the parts before mean.   *)
Reached(v, k) == j \in 0..i /\ result \o String(j, i - j) = v[k]

Place(u, v) ==
    /\ ~ done => \E k \in 0..Len(template) : i = Len(u[k]) /\ Reached(v, k)
    /\ done => i = Len(text) /\ j \in 0..i /\ result = v[Len(template)]

InPlace ==
    /\ Given /\ done \in BOOLEAN /\ result \in Seq(Values)
    /\ \E u, v : Track(u, v) /\ Place(u, v)

(* It begins at the first part, *)
LEMMA InitPlace == Init => InPlace
<1> SUFFICES ASSUME Init PROVE InPlace
    OBVIOUS
<1>1. PICK input \in Inputs : /\ template = input.template /\ image = input.image
                              /\ text = TextOf(input.template)
    BY DEF Init
<1>2. i = 0 /\ j = 0 /\ result = <<>> /\ done = FALSE
    BY DEF Init
<1>3. Given
    BY <1>1, VarsAssumption DEF Given, Octets
<1>4. text \in Seq(Units) /\ \E u, v : Track(u, v)
    BY <1>3, Tracked
<1>5. PICK u, v : Track(u, v)
    BY <1>4
<1>6. u[0] = <<>> /\ v[0] = <<>>
    BY <1>5 DEF Track, IsUpto
<1>7. result \o String(j, i - j) = <<>>
    <2>1. i - j = 0
        BY <1>2
    <2>2. String(0, 0) = <<>>
        BY <1>4, StringIs
    <2>3. <<>> \o <<>> = <<>>
        OBVIOUS
    <2> QED BY <1>2, <2>1, <2>2, <2>3
<1>8. i = Len(u[0]) /\ Reached(v, 0) /\ 0 \in 0..Len(template)
    <2>1. Len(template) \in Nat
        BY <1>3, GivenType
    <2>2. Len(<<>>) = 0
        OBVIOUS
    <2> QED BY <1>2, <1>6, <1>7, <2>1, <2>2 DEF Reached
<1>9. Place(u, v)
    BY <1>2, <1>8 DEF Place
<1>10. result \in Seq(Values)
    BY <1>2
<1> QED BY <1>2, <1>3, <1>5, <1>9, <1>10 DEF InPlace

(* A variable that is replaced by what it means, *)
LEMMA PushPlace ==
    ASSUME Given, NEW u, NEW v, NEW k \in 0..Len(template), NEW t, Begins(u, v, k, t),
           Reached(v, k), result \in Seq(Values), ~ done,
           Scan, Push(Meaning(t), Len(Render(t)))
    PROVE  result' \in Seq(Values) /\ Place(u, v)'
<1> DEFINE d == Len(Render(t))
           s == String(j, i - j)
           a == result \o s
           M == Meaning(t)
           m == k + 1
<1>1. /\ i \in Nat /\ t \in Parts /\ m \in 1..Len(template) /\ i + d <= Len(text)
      /\ Len(u[m]) = i + d /\ v[m] = v[k] \o M /\ v[k] \in Seq(Values)
    BY DEF Begins
<1>2. d \in Nat /\ text \in Seq(Units) /\ M \in Seq(Values) /\ Len(template) \in Nat
    <2>1. M \in Seq(Values)
        BY <1>1, MeaningType DEF Given
    <2> QED BY <1>1, <2>1, RenderType, Tracked, GivenType
<1>3. a = v[k] /\ j \in 0..i
    BY DEF Reached
<1>4. result' = a \o M /\ i' = i + d /\ j' = i + d
    BY DEF Push
<1>5. text' = text /\ template' = template /\ ~ done'
    BY DEF Scan, given
<1> HIDE DEF d, a, M, m
<1>6. result' = v[m] /\ result' \in Seq(Values)
    <2>1. v[k] \o M \in Seq(Values)
        BY <1>1, <1>2, ConcatProperties
    <2> QED BY <1>1, <1>3, <1>4, <2>1
<1>7. /\ String(i + d, 0) = <<>> /\ i + d \in Nat /\ (i + d) - (i + d) = 0
    <2> DEFINE e == i + d
    <2>1. e \in Nat /\ e - e = 0
        BY <1>1, <1>2
    <2> HIDE DEF e
    <2>2. String(e, 0) = <<>>
        BY <1>2, <2>1, StringIs
    <2> QED BY <2>1, <2>2 DEF e
<1>8. result' \o String(j, i - j)' = v[m]
    <2>1. String(j, i - j)' = String(i + d, 0)
        BY <1>4, <1>5, <1>7 DEF String
    <2>2. v[m] \o <<>> = v[m]
        BY <1>6, ConcatEmptySeq
    <2> QED BY <1>6, <1>7, <2>1, <2>2
<1>9. j' \in 0..i'
    BY <1>4, <1>7
<1>10. m \in 0..Len(template)' /\ i' = Len(u[m]) /\ Reached(v, m)'
    <2>1. m \in 0..Len(template)'
        BY <1>1, <1>2, <1>5
    <2>2. i' = Len(u[m])
        BY <1>1, <1>4
    <2>3. Reached(v, m)'
        BY <1>8, <1>9 DEF Reached
    <2> QED BY <2>1, <2>2, <2>3
<1> QED BY <1>5, <1>6, <1>10 DEF Place

(* and a unit that is passed, keep resolve at its place. *)
LEMMA PassPlace ==
    ASSUME Given, NEW u, NEW v, NEW k \in 0..Len(template), NEW t, Begins(u, v, k, t), t.kind = "unit",
           Reached(v, k), result \in Seq(Values), Pass
    PROVE  result' \in Seq(Values) /\ Place(u, v)'
<1> DEFINE d == i - j
           s == String(j, d)
           e == <<t.unit>>
           m == k + 1
<1>1. /\ i \in Nat /\ t \in Parts /\ m \in 1..Len(template) /\ i + Len(Render(t)) <= Len(text)
      /\ Len(u[m]) = i + Len(Render(t)) /\ v[m] = v[k] \o Meaning(t) /\ v[k] \in Seq(Values)
    BY DEF Begins
<1>2. text \in Seq(Units) /\ Len(template) \in Nat
    BY Tracked, GivenType
<1>3. Len(Render(t)) = 1 /\ text[i + 1] = t.unit /\ Meaning(t) = e
    BY <1>1, UnitFound, MeaningType DEF Given
<1>4. result \o s = v[k] /\ j \in 0..i
    BY DEF Reached
<1>5. j \in Nat /\ d \in Nat /\ j + d = i /\ Len(text) \in Nat /\ i < Len(text)
    <2>1. Len(text) \in Nat
        BY <1>2, LenProperties
    <2> QED BY <1>1, <1>3, <1>4, <2>1
<1>6. i' = i + 1 /\ j' = j /\ result' = result /\ text' = text /\ template' = template /\ ~ done'
    BY DEF Pass, Scan, given
<1>7. (i + 1) - j = d + 1 /\ j + d + 1 = i + 1
    BY <1>1, <1>5
<1> HIDE DEF d
<1>8. String(j, d + 1) = s \o e /\ s \in Seq(Units) /\ t.unit \in Units
    <2>1. s \in Seq(Units)
        <3>1. j + d <= Len(text)
            BY <1>1, <1>5
        <3> QED BY <1>2, <1>5, <3>1, StringIs
    <2>2. /\ String(j, d + 1) = String(j, d) \o <<text[j + d + 1]>>
          /\ text[j + d + 1] \in Units
        BY <1>2, <1>5, StringIs
    <2> QED BY <1>3, <1>7, <2>1, <2>2
<1> HIDE DEF s, e, m
<1>9. s \in Seq(Values) /\ e \in Seq(Values)
    <2>1. Units \subseteq Values
        BY DEF Values
    <2> QED BY <1>8, <2>1, SeqMonotonic, SingleIs DEF e
<1>10. result \o (s \o e) = (result \o s) \o e
    <2>1. result \in Seq(Values) /\ s \in Seq(Values) /\ e \in Seq(Values)
        BY <1>9
    <2> QED BY <2>1, ConcatAssociative
<1>11. result' \o String(j, i - j)' = v[m]
    <2>1. String(j, i - j)' = s \o e
        <3>1. String(j, i - j)' = String(j, d + 1)
            BY <1>6, <1>7 DEF String
        <3> QED BY <1>8, <3>1
    <2> QED BY <1>1, <1>3, <1>4, <1>6, <1>10, <2>1
<1>12. j' \in 0..i'
    BY <1>1, <1>4, <1>6
<1>13. m \in 0..Len(template)' /\ i' = Len(u[m]) /\ Reached(v, m)'
    <2>1. m \in 0..Len(template)'
        BY <1>1, <1>2, <1>6
    <2>2. i' = Len(u[m])
        BY <1>1, <1>3, <1>6
    <2>3. Reached(v, m)'
        BY <1>11, <1>12 DEF Reached
    <2> QED BY <2>1, <2>2, <2>3
<1> QED BY <1>6, <1>13 DEF Place

(* What is given stays, and so does what it means. *)
LEMMA GivenStays ==
    ASSUME Given, UNCHANGED given
    PROVE  Given' /\ \A u, v : Track(u, v) => Track(u, v)'
<1>1. template' = template /\ text' = text /\ image' = image
    BY DEF given
<1>2. Renders' = Renders
    BY <1>1 DEF Renders
<1>3. \A ns, name : Value(ns, name)' = Value(ns, name)
    BY <1>1 DEF Value
<1>4. \A t : Meaning(t)' = Meaning(t)
    BY <1>3 DEF Meaning
<1>5. Meanings' = Meanings
    BY <1>1, <1>4 DEF Meanings
<1>6. Given'
    BY <1>1 DEF Given
<1> QED BY <1>1, <1>2, <1>5, <1>6 DEF Track

(* At the end of the text, every part is behind resolve. *)
LEMMA FinishPlace ==
    ASSUME Given, NEW u, NEW v, Track(u, v), NEW k \in 0..Len(template), i = Len(u[k]), Reached(v, k),
           result \in Seq(Values), Finish
    PROVE  result' \in Seq(Values) /\ Place(u, v)'
<1> DEFINE N == Len(template)
           d == i - j
           s == String(j, d)
<1>1. /\ N \in Nat /\ (\A n \in 1..N : template[n] \in Parts)
      /\ Renders \in Seq(Seq(Units)) /\ Len(Renders) = N
      /\ Meanings \in Seq(Seq(Values)) /\ Len(Meanings) = N
      /\ \A n \in 1..N : Renders[n] = Render(template[n])
    BY GivenType
<1>2. IsUpto(u, Renders, Units) /\ text = u[N] /\ IsUpto(v, Meanings, Values)
    BY DEF Track
<1>3. text \in Seq(Units) /\ Len(text) \in Nat
    BY Tracked, LenProperties
<1>4. i >= Len(text)
    BY DEF Finish
<1>5. k = N
    <2> SUFFICES ASSUME k # N PROVE FALSE
        OBVIOUS
    <2>1. PICK m \in 1..N : m - 1 = k
        <3>1. k + 1 \in 1..N /\ (k + 1) - 1 = k
            BY <1>1
        <3> QED BY <3>1
    <2>2. /\ Before(u, m) \in Nat
          /\ Len(u[m]) = Before(u, m) + Len(Renders[m])
          /\ Len(u[m]) <= Len(text)
        <3>1. m \in 1..Len(Renders) /\ text = u[Len(Renders)]
            BY <1>1, <1>2
        <3> QED BY <1>1, <1>2, <3>1, UptoPlaced
    <2>3. Len(Renders[m]) \in Nat \ {0}
        BY <1>1, RenderType
    <2>4. Before(u, m) = i
        BY <2>1 DEF Before
    <2>5. i \in Nat /\ i + Len(Renders[m]) <= Len(text)
        BY <2>2, <2>4
    <2> DEFINE L == Len(text)
               r == Len(Renders[m])
    <2>6. L \in Nat /\ r \in Nat \ {0} /\ i + r <= L /\ i >= L /\ i \in Nat
        BY <1>3, <1>4, <2>3, <2>5
    <2> HIDE DEF L, r
    <2> QED BY <2>6
<1>6. i = Len(text)
    BY <1>2, <1>5
<1>7. j \in 0..i /\ result \o s = v[N]
    BY <1>5 DEF Reached
<1>8. i = j => result \o s = result
    <2>1. i = j => d = 0
        BY <1>3, <1>6, <1>7
    <2>2. j \in Nat
        BY <1>3, <1>6, <1>7
    <2>3. String(j, 0) = <<>>
        BY <1>3, <2>2, StringIs
    <2> QED BY <2>1, <2>3, ConcatEmptySeq
<1> HIDE DEF s, d
<1>9. result' = v[N]
    <2>1. result' = IF i # j THEN result \o s ELSE result
        BY DEF Finish, s, d
    <2> QED BY <1>7, <1>8, <2>1
<1>10. v[N] \in Seq(Values)
    BY <1>1, <1>2 DEF IsUpto
<1>11. done' /\ i' = i /\ j' = j /\ text' = text /\ template' = template
    BY DEF Finish, given
<1> QED BY <1>6, <1>7, <1>9, <1>10, <1>11 DEF Place

(* and each turn of its loop takes it one part on. *)
LEMMA NextPlace == InPlace /\ [Next]_vars => InPlace'
<1> SUFFICES ASSUME InPlace, [Next]_vars PROVE InPlace'
    OBVIOUS
<1>1. Given /\ done \in BOOLEAN /\ result \in Seq(Values)
    BY DEF InPlace
<1>2. PICK u, v : Track(u, v) /\ Place(u, v)
    BY DEF InPlace
<1>3. UNCHANGED given /\ done' \in BOOLEAN
    BY <1>1 DEF Next, Pass, Dollar, Braced, Bare, Finish, Scan, vars
<1>4. Given' /\ Track(u, v)'
    BY <1>1, <1>2, <1>3, GivenStays
<1>5. ASSUME result' \in Seq(Values), Place(u, v)' PROVE InPlace'
    BY <1>3, <1>4, <1>5 DEF InPlace
<1>6. CASE UNCHANGED vars
    <2>1. result' = result /\ done' = done /\ i' = i /\ j' = j /\ text' = text /\ template' = template
        BY <1>6 DEF vars, given
    <2>2. \A k : Reached(v, k)' <=> Reached(v, k)
        BY <2>1 DEF Reached, String
    <2>3. Place(u, v)'
        BY <1>2, <2>1, <2>2 DEF Place
    <2> QED BY <1>1, <1>5, <2>1, <2>3
<1>7. CASE Finish
    <2>1. ~ done
        BY <1>7 DEF Finish
    <2>2. PICK k \in 0..Len(template) : i = Len(u[k]) /\ Reached(v, k)
        BY <1>2, <2>1 DEF Place
    <2> QED BY <1>1, <1>2, <1>5, <1>7, <2>2, FinishPlace
<1>8. CASE Pass \/ Dollar \/ Braced \/ Bare
    <2>1. Scan /\ ~ done /\ i < Len(text)
        BY <1>8 DEF Pass, Dollar, Braced, Bare, Scan
    <2>2. PICK k \in 0..Len(template) : i = Len(u[k]) /\ Reached(v, k)
        BY <1>2, <2>1 DEF Place
    <2>3. PICK t : Begins(u, v, k, t)
        BY <1>1, <1>2, <2>1, <2>2, BeginsIs
    <2>4. t \in Parts /\ i \in Nat
        BY <2>3 DEF Begins
    <2>5. ASSUME Push(Meaning(t), Len(Render(t))) PROVE InPlace'
        BY <1>1, <1>5, <2>1, <2>2, <2>3, <2>5, PushPlace
    <2>6. CASE t.kind = "unit"
        <3>1. ~ IsVariable
            BY <1>1, <2>3, <2>6, UnitFound
        <3>2. Pass
            BY <1>8, <3>1 DEF Dollar, Braced, Bare
        <3> QED BY <1>1, <1>5, <2>2, <2>3, <2>6, <3>2, PassPlace
    <2>7. CASE t.kind = "dollar"
        <3>1. IsVariable /\ str(i + 1) = "$" /\ ~ isvar("$") /\ Len(Render(t)) = 2
            BY <1>1, <2>3, <2>7, DollarFound
        <3>2. Dollar
            BY <1>8, <3>1 DEF Pass, Braced, Bare
        <3>3. Meaning(t) = <<"$">>
            BY <1>1, <2>4, <2>7, MeaningType DEF Given
        <3> QED BY <2>5, <3>1, <3>2, <3>3 DEF Dollar
    <2>8. CASE t.kind \in {"braced", "spaced"}
        <3> DEFINE q == Len(Inner(t))
        <3>1. /\ IsVariable /\ str(i + 1) = "open" /\ ~ isvar("open")
              /\ find_closing_bracket(i + 1) = q + 2
              /\ get_value(i + 2, q) = Meaning(t)
              /\ q \in Nat /\ Len(Render(t)) = q + 3
            BY <1>1, <2>3, <2>8, BracedFound
        <3> HIDE DEF q
        <3>2. Braced
            BY <1>8, <3>1 DEF Pass, Dollar, Bare
        <3>3. (q + 2) - 2 = q /\ (q + 2) + 1 = q + 3
            BY <3>1
        <3>4. Push(get_value(i + 2, (q + 2) - 2), (q + 2) + 1)
            BY <3>1, <3>2 DEF Braced
        <3> QED BY <2>5, <3>1, <3>3, <3>4
    <2>9. CASE t.kind = "bare"
        <3> DEFINE q == Len(Inner(t))
        <3>1. /\ IsVariable /\ isvar(str(i + 1))
              /\ Least({n \in 1..Len(text) : ~ isvar(str(i + 1 + n))}) = q
              /\ get_value(i + 1, q) = Meaning(t)
              /\ q \in Nat /\ Len(Render(t)) = q + 1
            BY <1>1, <2>3, <2>9, BareFound
        <3> HIDE DEF q
        <3>2. ~ isvar("$") /\ ~ isvar("open")
            BY VarsAssumption DEF isvar
        <3>3. Bare
            BY <1>8, <3>1, <3>2 DEF Pass, Dollar, Braced
        <3>4. Push(get_value(i + 1, q), q + 1)
            BY <3>1, <3>3 DEF Bare
        <3> QED BY <2>5, <3>1, <3>4
    <2> QED BY <2>4, <2>6, <2>7, <2>8, <2>9, PartIs DEF Styles
<1> QED BY <1>6, <1>7, <1>8 DEF Next

(* resolve is always at the beginning of a part. *)
LEMMA AlwaysInPlace == Spec => []InPlace
<1>1. Init => InPlace
    BY InitPlace
<1>2. InPlace /\ [Next]_vars => InPlace'
    BY NextPlace
<1> QED BY <1>1, <1>2, PTL DEF Spec

(* The type invariant: resolve, whose loop goes by what it has found, never *)
(* takes a piece from beyond the text (vars_manager::resolve).             *)
THEOREM VarsTypeOK == Spec => []TypeOK
<1>1. InPlace => TypeOK
    <2> SUFFICES ASSUME InPlace PROVE TypeOK
        OBVIOUS
    <2>1. Given /\ done \in BOOLEAN
        BY DEF InPlace
    <2>2. PICK u, v : Track(u, v) /\ Place(u, v)
        BY DEF InPlace
    <2>3. Len(text) \in Nat
        BY <2>1, Tracked, LenProperties
    <2>4. CASE done
        BY <2>1, <2>2, <2>3, <2>4 DEF Place, TypeOK, Given, Octets
    <2>5. CASE ~ done
        <3>1. PICK k \in 0..Len(template) : i = Len(u[k]) /\ Reached(v, k)
            BY <2>2, <2>5 DEF Place
        <3>2. /\ Renders \in Seq(Seq(Units)) /\ Len(Renders) = Len(template)
              /\ IsUpto(u, Renders, Units) /\ text = u[Len(template)]
            BY <2>1, <2>2, GivenType DEF Track
        <3>3. i <= Len(text)
            <4>1. k \in 0..Len(Renders)
                BY <3>2
            <4>2. Len(u[k]) <= Len(u[Len(Renders)])
                BY <3>2, <4>1, UptoPrefix
            <4> QED BY <3>1, <3>2, <4>2
        <3>4. i \in Nat
            <4>1. u[k] \in Seq(Units)
                BY <3>1, <3>2 DEF IsUpto
            <4> QED BY <3>1, <4>1, LenProperties
        <3> QED BY <2>1, <2>3, <3>1, <3>3, <3>4 DEF TypeOK, Given, Octets, Reached
    <2> QED BY <2>4, <2>5
<1> QED BY <1>1, AlwaysInPlace, PTL

(* What resolve returns is what the author of the template means, for      *)
(* templates of any length (vars_manager::resolve, get_value, trim_string, *)
(* find_closing_bracket, img_vars::operator[]).                            *)
THEOREM TemplatesAreResolved == Spec => []Resolved
<1>1. InPlace => Resolved
    <2> SUFFICES ASSUME InPlace, done PROVE result = FlattenSeq(Meanings)
        BY DEF Resolved, Meanings
    <2>1. PICK u, v : Track(u, v) /\ Place(u, v)
        BY DEF InPlace
    <2> QED BY <2>1 DEF Track, Place
<1> QED BY <1>1, AlwaysInPlace, PTL

=============================================================================
