--------------------------- MODULE Secrets_proofs ---------------------------
(***************************************************************************)
(* ResolveSecrets gives a text what its references stand for: proofs about *)
(* Playbooks for any tokens, texts and secrets.                            *)
(***************************************************************************)
EXTENDS Playbooks_proofs

-----------------------------------------------------------------------------
(* The first reference of a text.                                          *)

(* It begins at s and ends at e.                                           *)
First(t, s, e) ==
    /\ s \in 1..Len(t) /\ e \in 1..Len(t) /\ s < e
    /\ t[s] = Prefix /\ t[e] = Suffix
    /\ \A i \in 1..Len(t) : i < s => t[i] # Prefix
    /\ \A i \in 1..Len(t) : s < i /\ i < e => t[i] # Suffix

LEMMA TextFacts ==
    ASSUME NEW t \in Text
    PROVE  /\ Len(t) \in Nat /\ DOMAIN t = 1..Len(t)
           /\ \A i \in 1..Len(t) : t[i] \in Tokens
BY LenProperties, ElementOfSeq DEF Text

LEMMA LeastFacts ==
    ASSUME NEW S \in SUBSET Nat, 0 \notin S
    PROVE  /\ S = {} <=> Least(S) = 0
           /\ S # {} => Least(S) \in S /\ \A m \in S : Least(S) <= m
BY MinFacts DEF Least

(* RefStart and RefEnd find it.                                            *)
LEMMA RefFacts ==
    ASSUME NEW t \in Text
    PROVE  /\ HasRef(t) => First(t, RefStart(t), RefEnd(t))
           /\ ~HasRef(t) => \A i, j \in 1..Len(t) : i < j /\ t[i] = Prefix => t[j] # Suffix
<1> DEFINE P == {i \in DOMAIN t : t[i] = Prefix}
           s == RefStart(t)
           S == {i \in DOMAIN t : i > s /\ t[i] = Suffix}
           e == RefEnd(t)
<1>1. Len(t) \in Nat /\ DOMAIN t = 1..Len(t)
  BY TextFacts
<1>2. P \in SUBSET Nat /\ 0 \notin P /\ S \in SUBSET Nat /\ 0 \notin S
  BY <1>1
<1>3. s = Least(P)
  BY DEF RefStart
<1>4. e = Least(S)
  BY DEF RefEnd
<1>5. \A i : i \in P <=> i \in 1..Len(t) /\ t[i] = Prefix
  BY <1>1
<1>6. \A i : i \in S <=> i \in 1..Len(t) /\ i > s /\ t[i] = Suffix
  BY <1>1
<1>7. HasRef(t) <=> s # 0 /\ e # 0
  BY DEF HasRef
<1> HIDE DEF P, S, s, e
<1>8. /\ P = {} <=> s = 0
      /\ P # {} => s \in P /\ \A m \in P : s <= m
  BY <1>2, <1>3, LeastFacts
<1>9. /\ S = {} <=> e = 0
      /\ S # {} => e \in S /\ \A m \in S : e <= m
  BY <1>2, <1>4, LeastFacts
<1>10. ASSUME HasRef(t) PROVE First(t, s, e)
  <2>1. s \in 1..Len(t) /\ t[s] = Prefix /\ e \in 1..Len(t) /\ e > s /\ t[e] = Suffix
    BY <1>5, <1>6, <1>7, <1>8, <1>9, <1>10
  <2>2. \A i \in 1..Len(t) : i < s => t[i] # Prefix
    BY <1>1, <1>5, <1>8, <2>1
  <2>3. \A i \in 1..Len(t) : s < i /\ i < e => t[i] # Suffix
    BY <1>1, <1>6, <1>9, <2>1
  <2> QED
    BY <1>1, <2>1, <2>2, <2>3 DEF First
<1>11. ASSUME ~HasRef(t), NEW i \in 1..Len(t), NEW j \in 1..Len(t), i < j, t[i] = Prefix
       PROVE  t[j] # Suffix
  <2>1. i \in P
    BY <1>5, <1>11
  <2>2. s # 0 /\ s <= i /\ s \in 1..Len(t)
    BY <1>5, <1>8, <2>1
  <2>3. S = {} /\ j > s
    BY <1>1, <1>7, <1>9, <1>11, <2>2
  <2> QED
    BY <1>6, <2>3
<1> QED
  BY <1>10, <1>11 DEF s, e

(* There is only one.                                                      *)
LEMMA RefUnique ==
    ASSUME NEW t \in Text, NEW s, NEW e, First(t, s, e)
    PROVE  HasRef(t) /\ RefStart(t) = s /\ RefEnd(t) = e
<1>1. Len(t) \in Nat
  BY TextFacts
<1>2. s \in 1..Len(t) /\ e \in 1..Len(t) /\ s < e /\ t[s] = Prefix /\ t[e] = Suffix
  BY DEF First
<1>3. HasRef(t)
  BY <1>2, RefFacts
<1>4. PICK a, b : a = RefStart(t) /\ b = RefEnd(t)
  OBVIOUS
<1>5. First(t, a, b)
  BY <1>3, <1>4, RefFacts
<1>6. a = s
  BY <1>1, <1>5 DEF First
<1>7. b = e
  BY <1>1, <1>5, <1>6 DEF First
<1> QED
  BY <1>3, <1>4, <1>6, <1>7

(* A text is cut into what comes before the reference, its name, and what  *)
(* comes after it.                                                         *)
LEMMA CutFacts ==
    ASSUME NEW t \in Text, NEW a \in Nat, NEW b \in Nat, a >= 1, b <= Len(t), a <= b + 1
    PROVE  /\ SubSeq(t, a, b) \in Text
           /\ Len(SubSeq(t, a, b)) = b - a + 1
           /\ \A i \in 1..(b - a + 1) : SubSeq(t, a, b)[i] = t[i + a - 1]
<1>1. Len(t) \in Nat /\ \A i \in 1..Len(t) : t[i] \in Tokens
  BY TextFacts
<1>2. a \in Int /\ b \in Int /\ \A i \in a..b : t[i] \in Tokens
  BY <1>1
<1>3. /\ SubSeq(t, a, b) \in Seq(Tokens)
      /\ Len(SubSeq(t, a, b)) = IF a <= b THEN b - a + 1 ELSE 0
      /\ \A i \in 1..(b - a + 1) : SubSeq(t, a, b)[i] = t[a + i - 1]
  BY <1>2, SubSeqProperties
<1>4. \A i \in 1..(b - a + 1) : a + i - 1 = i + a - 1
  OBVIOUS
<1> QED
  BY <1>3, <1>4 DEF Text

LEMMA PartFacts ==
    ASSUME NEW t \in Text, HasRef(t)
    PROVE  BeforeRef(t) \in Text /\ RefName(t) \in Text /\ AfterRef(t) \in Text
<1>1. PICK s, e : s = RefStart(t) /\ e = RefEnd(t)
  OBVIOUS
<1>2. First(t, s, e) /\ Len(t) \in Nat
  BY <1>1, RefFacts, TextFacts
<1>3. s \in Nat /\ e \in Nat /\ 1 <= s /\ s < e /\ e <= Len(t)
  BY <1>2 DEF First
<1>4. SubSeq(t, 1, s - 1) \in Text
  BY <1>2, <1>3, CutFacts
<1>5. SubSeq(t, s + 1, e - 1) \in Text
  BY <1>2, <1>3, CutFacts
<1>6. SubSeq(t, e + 1, Len(t)) \in Text
  BY <1>2, <1>3, CutFacts
<1> QED
  BY <1>1, <1>4, <1>5, <1>6 DEF BeforeRef, RefName, AfterRef

(* The secrets that come with a push: texts by name.                       *)
Table(values) == \A n \in DOMAIN values : values[n] \in Text

LEMMA LookupFacts ==
    ASSUME NEW values, Table(values), NEW name
    PROVE  /\ Lookup(values, name) \in Text
           /\ AllClosed(values) => Closed(Lookup(values, name))
<1>1. << >> \in Text /\ Closed(<< >>)
  BY DEF Text, Closed
<1>2. ASSUME NEW n \in DOMAIN values, name = <<n>>
      PROVE  Lookup(values, name) = values[n]
  BY <1>2 DEF Lookup
<1>3. CASE \E n \in DOMAIN values : name = <<n>>
  BY <1>2, <1>3 DEF Table, AllClosed
<1>4. CASE ~ \E n \in DOMAIN values : name = <<n>>
  BY <1>1, <1>4 DEF Lookup
<1> QED
  BY <1>3, <1>4

-----------------------------------------------------------------------------
(* Expansions is what its recursion says.                                  *)

Expand(values, g, t) ==
    {BeforeRef(t) \o v \o w : v \in g[Lookup(values, RefName(t))], w \in g[AfterRef(t)]}

Layer(values, k, g) ==
    [t \in Text |-> IF ~HasRef(t) THEN {t} ELSE IF k = 0 THEN {} ELSE Expand(values, g, t)]

Layers(values, n, f) == f = [k \in 0..n |-> Layer(values, k, f[k - 1])]

LEMMA LayersExist ==
    ASSUME NEW values, NEW n \in Nat
    PROVE  \E f : Layers(values, n, f)
<1> DEFINE Bad == {m \in Nat : ~ \E f : Layers(values, m, f)}
<1> SUFFICES ASSUME Bad # {} PROVE FALSE
  OBVIOUS
<1>1. PICK m \in Bad : \A l \in Bad : m <= l
  BY LeastNat
<1>2. \A g, h : Layer(values, 0, g) = Layer(values, 0, h)
  BY DEF Layer
<1>3. CASE m = 0
  <2> DEFINE f == [k \in 0..0 |-> Layer(values, 0, 0)]
  <2>1. \A k \in 0..0 : f[k] = Layer(values, k, f[k - 1])
    <3>1. f[0] = Layer(values, 0, 0)
      OBVIOUS
    <3>2. Layer(values, 0, 0) = Layer(values, 0, f[0 - 1])
      BY <1>2
    <3> HIDE DEF f
    <3> QED
      BY <3>1, <3>2
  <2>2. f = [k \in 0..0 |-> f[k]]
    OBVIOUS
  <2> HIDE DEF f
  <2>3. Layers(values, 0, f)
    BY <2>1, <2>2 DEF Layers
  <2> QED
    BY <1>1, <1>3, <2>3
<1>4. CASE m # 0
  <2>1. m - 1 \in Nat /\ m - 1 \notin Bad
    BY <1>1, <1>4
  <2>2. PICK f : Layers(values, m - 1, f)
    BY <2>1
  <2> DEFINE x == Layer(values, m, f[m - 1])
             g == [k \in 0..m |-> IF k = m THEN x ELSE f[k]]
  <2>3. \A k \in 0..m : g[k] = IF k = m THEN x ELSE f[k]
    OBVIOUS
  <2>4. \A k \in 0..(m - 1) : f[k] = Layer(values, k, f[k - 1])
    BY <2>2 DEF Layers
  <2>5. x = Layer(values, m, f[m - 1]) /\ g = [k \in 0..m |-> g[k]]
    OBVIOUS
  <2> HIDE DEF x, g
  <2>6. \A k \in 0..m : g[k] = Layer(values, k, g[k - 1])
    <3> TAKE k \in 0..m
    <3>1. CASE k = m
      <4>1. g[m] = x /\ g[m - 1] = f[m - 1]
        BY <1>1, <1>4, <2>1, <2>3
      <4> QED
        BY <2>5, <3>1, <4>1
    <3>2. CASE k # m /\ k # 0
      <4>1. k \in 0..(m - 1) /\ k - 1 \in 0..m /\ k - 1 # m
        BY <1>1, <3>2
      <4>2. g[k] = f[k] /\ g[k - 1] = f[k - 1]
        BY <2>3, <3>2, <4>1
      <4> QED
        BY <2>4, <4>1, <4>2
    <3>3. CASE k = 0
      <4>1. g[0] = f[0] /\ 0 \in 0..(m - 1)
        BY <1>1, <1>4, <2>3
      <4>2. f[0] = Layer(values, 0, f[0 - 1])
        BY <2>4, <4>1
      <4>3. Layer(values, 0, f[0 - 1]) = Layer(values, 0, g[0 - 1])
        BY <1>2
      <4> QED
        BY <3>3, <4>1, <4>2, <4>3
    <3> QED
      BY <3>1, <3>2, <3>3
  <2>7. Layers(values, m, g)
    BY <2>5, <2>6 DEF Layers
  <2> QED
    BY <1>1, <2>7
<1> QED
  BY <1>3, <1>4

LEMMA LayerAt ==
    ASSUME NEW values, NEW n \in Nat, NEW f, Layers(values, n, f), NEW k \in 0..n
    PROVE  f[k] = Layer(values, k, f[k - 1])
<1>1. f = [j \in 0..n |-> Layer(values, j, f[j - 1])]
  BY DEF Layers
<1>2. [j \in 0..n |-> Layer(values, j, f[j - 1])][k] = Layer(values, k, f[k - 1])
  OBVIOUS
<1> QED
  BY <1>1, <1>2

LEMMA LayersUnique ==
    ASSUME NEW values, NEW n \in Nat, NEW m \in Nat, NEW f, NEW h,
           Layers(values, n, f), Layers(values, m, h)
    PROVE  \A k \in Nat : k <= n /\ k <= m => f[k] = h[k]
<1> DEFINE Bad == {k \in Nat : k <= n /\ k <= m /\ f[k] # h[k]}
<1> SUFFICES ASSUME Bad # {} PROVE FALSE
  OBVIOUS
<1>1. PICK k \in Bad : \A l \in Bad : k <= l
  BY LeastNat
<1>2. /\ f[k] = Layer(values, k, f[k - 1])
      /\ h[k] = Layer(values, k, h[k - 1])
  <2>1. k \in 0..n /\ k \in 0..m
    BY <1>1
  <2> HIDE DEF Bad
  <2>2. f[k] = Layer(values, k, f[k - 1])
    BY <2>1, LayerAt
  <2>3. h[k] = Layer(values, k, h[k - 1])
    BY <2>1, LayerAt
  <2> QED
    BY <2>2, <2>3
<1>3. CASE k = 0
  <2>1. Layer(values, 0, f[0 - 1]) = Layer(values, 0, h[0 - 1])
    BY DEF Layer
  <2> QED
    BY <1>1, <1>2, <1>3, <2>1
<1>4. CASE k # 0
  <2>1. f[k - 1] = h[k - 1]
    BY <1>1, <1>4
  <2> QED
    BY <1>1, <1>2, <2>1
<1> QED
  BY <1>3, <1>4

LEMMA ExpansionsAreLayers ==
    ASSUME NEW values, NEW n \in Nat
    PROVE  \E f : Layers(values, n, f) /\ \A t : Expansions(t, values, n) = f[n][t]
<1> DEFINE f == CHOOSE g : Layers(values, n, g)
<1>1. Layers(values, n, f)
  BY LayersExist
<1>2. \A t : Expansions(t, values, n) = f[n][t]
  BY DEF Expansions, Layers, Layer, Expand
<1> QED
  BY <1>1, <1>2

(* What an expansion consists of.                                          *)
Apart(values, n, t, o) ==
    \E v \in Expansions(Lookup(values, RefName(t)), values, n - 1),
       w \in Expansions(AfterRef(t), values, n - 1) : o = BeforeRef(t) \o v \o w

(* The recursion, without its functions.                                   *)
LEMMA Unfold ==
    ASSUME NEW values, Table(values), NEW n \in Nat, NEW t \in Text
    PROVE  /\ ~HasRef(t) => Expansions(t, values, n) = {t}
           /\ HasRef(t) /\ n = 0 => Expansions(t, values, n) = {}
           /\ HasRef(t) /\ n # 0 => 
                \A o : o \in Expansions(t, values, n) <=> Apart(values, n, t, o)
<1>1. PICK f : Layers(values, n, f) /\ \A u : Expansions(u, values, n) = f[n][u]
  BY ExpansionsAreLayers
<1>2. f[n] = Layer(values, n, f[n - 1])
  BY <1>1 DEF Layers
<1>3. Expansions(t, values, n) =
        IF ~HasRef(t) THEN {t} ELSE IF n = 0 THEN {} ELSE Expand(values, f[n - 1], t)
  BY <1>1, <1>2 DEF Layer
<1>4. ASSUME n # 0, NEW u PROVE Expansions(u, values, n - 1) = f[n - 1][u]
  <2>1. n - 1 \in Nat /\ n - 1 <= n
    BY <1>4
  <2>2. PICK h : Layers(values, n - 1, h) /\ \A x : Expansions(x, values, n - 1) = h[n - 1][x]
    BY <2>1, ExpansionsAreLayers
  <2>3. f[n - 1] = h[n - 1]
    BY <1>1, <2>1, <2>2, LayersUnique
  <2> QED
    BY <2>2, <2>3
<1>5. ASSUME HasRef(t), n # 0
      PROVE  \A o : o \in Expansions(t, values, n) <=> Apart(values, n, t, o)
  <2>1. Expansions(t, values, n) =
          {BeforeRef(t) \o v \o w : v \in Expansions(Lookup(values, RefName(t)), values, n - 1),
                                    w \in Expansions(AfterRef(t), values, n - 1)}
    <3>1. Expansions(t, values, n) = Expand(values, f[n - 1], t)
      BY <1>3, <1>5
    <3>2. PICK X, Y : X = f[n - 1][Lookup(values, RefName(t))] /\ Y = f[n - 1][AfterRef(t)]
      OBVIOUS
    <3>3. /\ X = Expansions(Lookup(values, RefName(t)), values, n - 1)
          /\ Y = Expansions(AfterRef(t), values, n - 1)
      BY <1>4, <1>5, <3>2
    <3>4. Expand(values, f[n - 1], t) = {BeforeRef(t) \o v \o w : v \in X, w \in Y}
      BY <3>2 DEF Expand
    <3> QED
      BY <3>1, <3>3, <3>4
  <2>2. ASSUME NEW o PROVE o \in Expansions(t, values, n) <=> Apart(values, n, t, o)
    <3>1. PICK X, Y, b : /\ X = Expansions(Lookup(values, RefName(t)), values, n - 1)
                         /\ Y = Expansions(AfterRef(t), values, n - 1)
                         /\ b = BeforeRef(t)
      OBVIOUS
    <3>2. Expansions(t, values, n) = {b \o v \o w : v \in X, w \in Y}
      BY <2>1, <3>1
    <3>3. Apart(values, n, t, o) <=> \E v \in X, w \in Y : o = b \o v \o w
      BY <3>1 DEF Apart
    <3>4. o \in {b \o v \o w : v \in X, w \in Y} <=> \E v \in X, w \in Y : o = b \o v \o w
      OBVIOUS
    <3> QED
      BY <3>2, <3>3, <3>4
  <2> QED
    BY <2>2
<1>6. ~HasRef(t) => Expansions(t, values, n) = {t}
  BY <1>3
<1>7. HasRef(t) /\ n = 0 => Expansions(t, values, n) = {}
  BY <1>3
<1> QED
  BY <1>5, <1>6, <1>7

LEMMA Plain ==
    ASSUME NEW values, Table(values), NEW n \in Nat, NEW t \in Text, ~HasRef(t)
    PROVE  Expansions(t, values, n) = {t}
BY Unfold

LEMMA TakenApart ==
    ASSUME NEW values, Table(values), NEW n \in Nat, NEW t \in Text, HasRef(t),
           NEW o \in Expansions(t, values, n)
    PROVE  n - 1 \in Nat /\ Apart(values, n, t, o)
<1>1. n # 0
  BY Unfold
<1>2. n - 1 \in Nat
  BY <1>1
<1>3. Apart(values, n, t, o)
  BY <1>1, Unfold
<1> QED
  BY <1>2, <1>3

(* How an expansion is put together.                                       *)
LEMMA PutTogether ==
    ASSUME NEW values, Table(values), NEW n \in Nat, NEW t \in Text, HasRef(t),
           NEW v \in Expansions(Lookup(values, RefName(t)), values, n),
           NEW w \in Expansions(AfterRef(t), values, n)
    PROVE  BeforeRef(t) \o v \o w \in Expansions(t, values, n + 1)
<1>1. PICK m \in Nat : m = n + 1 /\ m # 0 /\ m - 1 = n
  OBVIOUS
<1>2. PICK o : o = BeforeRef(t) \o v \o w
  OBVIOUS
<1>3. Apart(values, m, t, o)
  BY <1>1, <1>2 DEF Apart
<1>4. o \in Expansions(t, values, m)
  BY <1>1, <1>3, Unfold
<1> QED
  BY <1>1, <1>2, <1>4

(* A text has at most one expansion, at whatever depth it is found.        *)
LEMMA OneExpansion ==
    ASSUME NEW values, Table(values)
    PROVE  \A n, m \in Nat : \A t \in Text :
             \A o \in Expansions(t, values, n) : \A p \in Expansions(t, values, m) : o = p
<1> DEFINE Bad == {n \in Nat : \E m \in Nat : \E t \in Text :
                     \E o \in Expansions(t, values, n) :
                     \E p \in Expansions(t, values, m) : o # p}
<1> SUFFICES ASSUME Bad # {} PROVE FALSE
  OBVIOUS
<1>1. PICK n \in Bad : \A l \in Bad : n <= l
  BY LeastNat
<1>2. PICK m, t, o, p :
            /\ m \in Nat /\ t \in Text
            /\ o \in Expansions(t, values, n) /\ p \in Expansions(t, values, m) /\ o # p
  BY <1>1
<1>3. /\ n \in Nat
      /\ n - 1 \in Nat => n - 1 \notin Bad
  BY <1>1
<1>4. n - 1 \notin Bad /\ n - 1 \in Nat =>
        \A k \in Nat : \A u \in Text : \A x \in Expansions(u, values, n - 1) :
            \A y \in Expansions(u, values, k) : x = y
  OBVIOUS
<1> HIDE DEF Bad
<1>5. HasRef(t)
  BY <1>2, <1>3, Plain
<1>6. /\ Apart(values, n, t, o) /\ n - 1 \in Nat
      /\ Apart(values, m, t, p) /\ m - 1 \in Nat
  BY <1>2, <1>3, <1>5, TakenApart
<1>7. Lookup(values, RefName(t)) \in Text /\ AfterRef(t) \in Text
  BY <1>2, <1>5, LookupFacts, PartFacts
<1>8. PICK v \in Expansions(Lookup(values, RefName(t)), values, n - 1),
           w \in Expansions(AfterRef(t), values, n - 1) : o = BeforeRef(t) \o v \o w
  BY <1>6 DEF Apart
<1>9. PICK x \in Expansions(Lookup(values, RefName(t)), values, m - 1),
           y \in Expansions(AfterRef(t), values, m - 1) : p = BeforeRef(t) \o x \o y
  BY <1>6 DEF Apart
<1>10. v = x /\ w = y
  BY <1>3, <1>4, <1>6, <1>7, <1>8, <1>9
<1> QED
  BY <1>2, <1>8, <1>9, <1>10

(* Following references further loses nothing; expansions are texts.       *)
LEMMA DeeperToo ==
    ASSUME NEW values, Table(values)
    PROVE  \A n \in Nat : \A t \in Text :
             /\ Expansions(t, values, n) \subseteq Text
             /\ Expansions(t, values, n) \subseteq Expansions(t, values, n + 1)
<1> DEFINE Good(n) == \A t \in Text : \A o \in Expansions(t, values, n) :
                        o \in Text /\ o \in Expansions(t, values, n + 1)
           Bad == {n \in Nat : ~Good(n)}
<1> SUFFICES ASSUME Bad # {} PROVE FALSE
  OBVIOUS
<1>1. PICK n \in Bad : \A l \in Bad : n <= l
  BY LeastNat
<1>2. PICK t, o : /\ t \in Text /\ o \in Expansions(t, values, n)
                 /\ ~(o \in Text /\ o \in Expansions(t, values, n + 1))
  BY <1>1
<1>3. n + 1 \in Nat /\ n \in Nat /\ (n - 1 \in Nat => Good(n - 1))
  BY <1>1
<1> HIDE DEF Bad
<1>4. HasRef(t)
  BY <1>2, <1>3, Plain
<1>5. n - 1 \in Nat /\ Apart(values, n, t, o)
  BY <1>2, <1>3, <1>4, TakenApart
<1>6. Good(n - 1)
  BY <1>3, <1>5
<1>7. /\ Lookup(values, RefName(t)) \in Text /\ AfterRef(t) \in Text
      /\ BeforeRef(t) \in Text
  BY <1>2, <1>4, LookupFacts, PartFacts
<1>8. PICK v \in Expansions(Lookup(values, RefName(t)), values, n - 1),
           w \in Expansions(AfterRef(t), values, n - 1) : o = BeforeRef(t) \o v \o w
  BY <1>5 DEF Apart
<1>9. /\ v \in Text /\ v \in Expansions(Lookup(values, RefName(t)), values, (n - 1) + 1)
      /\ w \in Text /\ w \in Expansions(AfterRef(t), values, (n - 1) + 1)
  BY <1>6, <1>7, <1>8
<1>10. o \in Text
  BY <1>7, <1>8, <1>9, ConcatProperties DEF Text
<1>11. (n - 1) + 1 = n
  BY <1>3
<1>12. o \in Expansions(t, values, n + 1)
  BY <1>2, <1>3, <1>4, <1>8, <1>9, <1>11, PutTogether
<1> QED
  BY <1>2, <1>10, <1>12

-----------------------------------------------------------------------------
(* References in a text that is put together from two.                     *)

LEMMA JoinFacts ==
    ASSUME NEW a \in Text, NEW b \in Text
    PROVE  /\ a \o b \in Text
           /\ Len(a) \in Nat /\ Len(b) \in Nat
           /\ Len(a \o b) = Len(a) + Len(b)
           /\ \A i \in 1..Len(a) : (a \o b)[i] = a[i]
           /\ \A i \in 1..Len(b) : (a \o b)[Len(a) + i] = b[i]
<1>1. Len(a) \in Nat /\ Len(b) \in Nat
  BY TextFacts
<1>2. /\ a \o b \in Text
      /\ Len(a \o b) = Len(a) + Len(b)
      /\ \A i \in 1..(Len(a) + Len(b)) :
            (a \o b)[i] = IF i <= Len(a) THEN a[i] ELSE b[i - Len(a)]
  BY ConcatProperties DEF Text
<1>3. \A i \in 1..Len(a) : i \in 1..(Len(a) + Len(b)) /\ i <= Len(a)
  BY <1>1
<1>4. \A i \in 1..Len(b) : /\ Len(a) + i \in 1..(Len(a) + Len(b))
                           /\ ~(Len(a) + i <= Len(a)) /\ (Len(a) + i) - Len(a) = i
  BY <1>1
<1> QED
  BY <1>1, <1>2, <1>3, <1>4

(* Cuts of two texts are the same when they are as long and hold the same  *)
(* tokens.                                                                 *)
Alike(t, a, u, b, n) == \A i \in 1..n : t[i + a - 1] = u[i + b - 1]

SameTokens(t, a, c, u, b, d, n) ==
    /\ a \in Nat /\ c \in Nat /\ b \in Nat /\ d \in Nat /\ n \in Nat
    /\ a >= 1 /\ c <= Len(t) /\ b >= 1 /\ d <= Len(u)
    /\ n = c - a + 1 /\ n = d - b + 1
    /\ Alike(t, a, u, b, n)

Cut(t, a, c) == SubSeq(t, a, c)

LEMMA SameCut ==
    ASSUME NEW t \in Text, NEW u \in Text, NEW a, NEW c, NEW b, NEW d, NEW n,
           SameTokens(t, a, c, u, b, d, n)
    PROVE  Cut(t, a, c) = Cut(u, b, d)
<1>0. n \in Nat /\ n = c - a + 1 /\ n = d - b + 1 /\ Alike(t, a, u, b, n)
  BY DEF SameTokens
<1>1. /\ a \in Nat /\ c \in Nat /\ b \in Nat /\ d \in Nat
      /\ a >= 1 /\ c <= Len(t) /\ b >= 1 /\ d <= Len(u)
      /\ a <= c + 1 /\ b <= d + 1
  BY <1>0 DEF SameTokens
<1>2. PICK x, y : x = SubSeq(t, a, c) /\ y = SubSeq(u, b, d)
  OBVIOUS
<1>3. /\ x \in Text /\ Len(x) = n /\ \A i \in 1..n : x[i] = t[i + a - 1]
      /\ y \in Text /\ Len(y) = n /\ \A i \in 1..n : y[i] = u[i + b - 1]
  BY <1>0, <1>1, <1>2, CutFacts
<1>4. \A i \in 1..n : x[i] = y[i]
  BY <1>0, <1>3 DEF Alike
<1>5. x = y
  BY <1>3, <1>4, SeqEqual DEF Text
<1> QED
  BY <1>2, <1>5 DEF Cut

(* What remains of a joined text, from a place in the first part on.       *)
LEMMA CutOfJoin ==
    ASSUME NEW a \in Text, NEW b \in Text, NEW r \in Nat, r >= 1, r <= Len(a) + 1
    PROVE  SubSeq(a \o b, r, Len(a \o b)) = SubSeq(a, r, Len(a)) \o b
<1>1. PICK t, x, y, z : /\ t = a \o b /\ x = SubSeq(t, r, Len(t))
                        /\ y = SubSeq(a, r, Len(a)) /\ z = y \o b
  OBVIOUS
<1>2. /\ t \in Text /\ Len(a) \in Nat /\ Len(b) \in Nat
      /\ Len(t) = Len(a) + Len(b)
      /\ \A i \in 1..Len(a) : t[i] = a[i]
      /\ \A i \in 1..Len(b) : t[Len(a) + i] = b[i]
  BY <1>1, JoinFacts
<1>3. PICK p, q, l, n \in Nat :
        p = Len(a) /\ q = Len(b) /\ l = p - r + 1 /\ n = l + q /\ n = Len(t) - r + 1
  BY <1>2
<1>4. x \in Text /\ Len(x) = n /\ \A i \in 1..n : x[i] = t[i + r - 1]
  <2>1. PICK m \in Nat : m = Len(t) /\ r <= m + 1 /\ m <= Len(t)
    BY <1>2
  <2>2. /\ SubSeq(t, r, m) \in Text
        /\ Len(SubSeq(t, r, m)) = m - r + 1
        /\ \A i \in 1..(m - r + 1) : SubSeq(t, r, m)[i] = t[i + r - 1]
    BY <1>2, <2>1, CutFacts
  <2> QED
    BY <1>1, <1>3, <2>1, <2>2
<1>5. y \in Text /\ Len(y) = l /\ \A i \in 1..l : y[i] = a[i + r - 1]
  BY <1>1, <1>2, <1>3, CutFacts
<1>6. /\ z \in Text /\ Len(z) = n
      /\ \A i \in 1..l : z[i] = y[i]
      /\ \A j \in 1..q : z[l + j] = b[j]
  <2>1. y \in Text
    BY <1>5
  <2>2. /\ y \o b \in Text /\ Len(y \o b) = Len(y) + Len(b)
        /\ \A i \in 1..Len(y) : (y \o b)[i] = y[i]
        /\ \A j \in 1..Len(b) : (y \o b)[Len(y) + j] = b[j]
    BY <2>1, JoinFacts
  <2>3. y \o b = z
    BY <1>1
  <2> QED
    BY <1>3, <1>5, <2>2, <2>3
<1>7. \A i \in 1..l : i \in 1..n /\ i + r - 1 \in 1..p
  BY <1>3
<1>8. \A j \in 1..q : l + j \in 1..n /\ (l + j) + r - 1 = p + j
  BY <1>3
<1>9. ASSUME NEW i \in 1..n PROVE i \in 1..l \/ \E j \in 1..q : i = l + j
  <2>1. CASE i <= l
    BY <1>3, <2>1
  <2>2. CASE i > l
    <3>1. i - l \in 1..q /\ i = l + (i - l)
      BY <1>3, <2>2
    <3> QED
      BY <3>1
  <2> QED
    BY <1>3, <2>1, <2>2
<1>10. \A i \in 1..l : x[i] = z[i]
  BY <1>2, <1>3, <1>4, <1>5, <1>6, <1>7
<1>11. \A j \in 1..q : x[l + j] = z[l + j]
  <2> TAKE j \in 1..q
  <2>1. x[l + j] = t[(l + j) + r - 1]
    BY <1>4, <1>8
  <2>2. t[(l + j) + r - 1] = b[j]
    BY <1>2, <1>3, <1>8
  <2> QED
    BY <1>6, <2>1, <2>2
<1>12. \A i \in 1..n : x[i] = z[i]
  BY <1>9, <1>10, <1>11
<1>13. x = z
  BY <1>4, <1>6, <1>12, SeqEqual DEF Text
<1> QED
  BY <1>1, <1>13

(* A reference in the first text stays the first.                          *)
LEMMA RefInFront ==
    ASSUME NEW a \in Text, NEW b \in Text, HasRef(a)
    PROVE  /\ HasRef(a \o b)
           /\ BeforeRef(a \o b) = BeforeRef(a)
           /\ RefName(a \o b) = RefName(a)
           /\ AfterRef(a \o b) = AfterRef(a) \o b
<1>1. PICK t, s, e : t = a \o b /\ s = RefStart(a) /\ e = RefEnd(a)
  OBVIOUS
<1>2. /\ t \in Text /\ Len(a) \in Nat /\ Len(b) \in Nat
      /\ Len(t) = Len(a) + Len(b)
      /\ \A i \in 1..Len(a) : t[i] = a[i]
      /\ \A i \in 1..Len(b) : t[Len(a) + i] = b[i]
  BY <1>1, JoinFacts
<1>3. First(a, s, e)
  BY <1>1, RefFacts
<1>4. s \in Nat /\ e \in Nat /\ 1 <= s /\ s < e /\ e <= Len(a)
  BY <1>2, <1>3 DEF First
<1>5. First(t, s, e)
  <2>1. s \in 1..Len(a) /\ e \in 1..Len(a) /\ s \in 1..Len(t) /\ e \in 1..Len(t)
    BY <1>2, <1>4
  <2>2. \A i \in 1..Len(t) : i < s => i \in 1..Len(a) /\ t[i] # Prefix
    BY <1>2, <1>3, <1>4 DEF First
  <2>3. \A i \in 1..Len(t) : s < i /\ i < e => i \in 1..Len(a) /\ t[i] # Suffix
    BY <1>2, <1>3, <1>4 DEF First
  <2> QED
    BY <1>2, <1>3, <2>1, <2>2, <2>3 DEF First
<1>6. HasRef(t) /\ RefStart(t) = s /\ RefEnd(t) = e
  BY <1>2, <1>5, RefUnique
<1>7. SubSeq(t, 1, s - 1) = SubSeq(a, 1, s - 1)
  <2>1. PICK c \in Nat : c = s - 1
    BY <1>4
  <2>2. /\ c <= Len(t) /\ c <= Len(a) /\ c = c - 1 + 1
        /\ \A i \in 1..c : i + 1 - 1 \in 1..Len(a)
    BY <1>2, <1>4, <2>1
  <2>3. Alike(t, 1, a, 1, c)
    BY <1>2, <2>2 DEF Alike
  <2>4. SameTokens(t, 1, c, a, 1, c, c)
    BY <2>1, <2>2, <2>3 DEF SameTokens
  <2>5. t \in Text
    BY <1>2
  <2>6. Cut(t, 1, c) = Cut(a, 1, c)
    BY <2>4, <2>5, SameCut
  <2> QED
    BY <2>1, <2>6 DEF Cut
<1>8. SubSeq(t, s + 1, e - 1) = SubSeq(a, s + 1, e - 1)
  <2>1. PICK c, d, n \in Nat : c = s + 1 /\ d = e - 1 /\ n = d - c + 1
    <3>1. s + 1 \in Nat /\ e - 1 \in Nat /\ (e - 1) - (s + 1) + 1 \in Nat
      BY <1>4
    <3> QED
      BY <3>1
  <2>2. /\ c >= 1 /\ d <= Len(t) /\ d <= Len(a)
        /\ \A i \in 1..n : i + c - 1 \in 1..Len(a)
    BY <1>2, <1>4, <2>1
  <2>3. Alike(t, c, a, c, n)
    BY <1>2, <2>2 DEF Alike
  <2>4. Cut(t, c, d) = Cut(a, c, d)
    <3>1. t \in Text
      BY <1>2
    <3>2. SameTokens(t, c, d, a, c, d, n)
      BY <2>1, <2>2, <2>3 DEF SameTokens
    <3> QED
      BY <3>1, <3>2, SameCut
  <2> QED
    BY <2>1, <2>4 DEF Cut
<1>9. SubSeq(t, e + 1, Len(t)) = SubSeq(a, e + 1, Len(a)) \o b
  <2>1. PICK r \in Nat : r = e + 1 /\ r >= 1 /\ r <= Len(a) + 1
    BY <1>2, <1>4
  <2>2. SubSeq(a \o b, r, Len(a \o b)) = SubSeq(a, r, Len(a)) \o b
    BY <2>1, CutOfJoin
  <2> QED
    BY <1>1, <2>1, <2>2
<1> QED
  BY <1>1, <1>6, <1>7, <1>8, <1>9 DEF BeforeRef, RefName, AfterRef

(* A text in which no reference begins.                                    *)
Harmless(a) == \A i \in 1..Len(a) : a[i] # Prefix

(* Behind such a text the references are those of the second one.          *)
LEMMA RefBehind ==
    ASSUME NEW a \in Text, NEW b \in Text, Harmless(a), HasRef(b)
    PROVE  /\ HasRef(a \o b)
           /\ BeforeRef(a \o b) = a \o BeforeRef(b)
           /\ RefName(a \o b) = RefName(b)
           /\ AfterRef(a \o b) = AfterRef(b)
<1>1. PICK t, s, e : t = a \o b /\ s = RefStart(b) /\ e = RefEnd(b)
  OBVIOUS
<1>2. /\ t \in Text
      /\ \A i \in 1..Len(a) : t[i] = a[i]
      /\ \A i \in 1..Len(b) : t[Len(a) + i] = b[i]
  BY <1>1, JoinFacts
<1>3. PICK p, q \in Nat : p = Len(a) /\ q = Len(b) /\ Len(t) = p + q
  BY <1>1, JoinFacts
<1>4. First(b, s, e)
  BY <1>1, RefFacts
<1>5. s \in Nat /\ e \in Nat /\ 1 <= s /\ s < e /\ e <= q
  BY <1>3, <1>4 DEF First
<1>7. First(t, p + s, p + e)
  <2>1. p + s \in 1..Len(t) /\ p + e \in 1..Len(t) /\ p + s < p + e
    BY <1>3, <1>5
  <2>2. t[p + s] = Prefix /\ t[p + e] = Suffix
    BY <1>2, <1>3, <1>4 DEF First
  <2>3. ASSUME NEW i \in 1..Len(t), i < p + s PROVE t[i] # Prefix
    <3>1. CASE i \in 1..p
      BY <1>2, <1>3, <3>1 DEF Harmless
    <3>2. CASE i \notin 1..p
      <4>1. PICK j \in 1..q : i = p + j /\ j < s
        <5>1. i - p \in 1..q /\ i = p + (i - p) /\ i - p < s
          BY <1>3, <1>5, <2>3, <3>2
        <5> QED
          BY <5>1
      <4>2. b[j] # Prefix
        BY <1>3, <1>4, <4>1 DEF First
      <4> QED
        BY <1>2, <1>3, <4>1, <4>2
    <3> QED
      BY <3>1, <3>2
  <2>4. ASSUME NEW i \in 1..Len(t), p + s < i, i < p + e PROVE t[i] # Suffix
    <3>1. PICK j \in 1..q : i = p + j /\ s < j /\ j < e
      <4>1. i \in Int /\ i - p \in 1..q /\ i = p + (i - p) /\ s < i - p /\ i - p < e
        BY <1>3, <1>5, <2>4
      <4> QED
        BY <4>1
    <3>2. b[j] # Suffix
      BY <1>3, <1>4, <3>1 DEF First
    <3> QED
      BY <1>2, <1>3, <3>1, <3>2
  <2> QED
    BY <2>1, <2>2, <2>3, <2>4 DEF First
<1>8. HasRef(t) /\ RefStart(t) = p + s /\ RefEnd(t) = p + e
  BY <1>2, <1>7, RefUnique
<1>9. RefName(t) = RefName(b)
  <2>1. PICK n, c, d, f, g \in Nat :
            /\ c = (p + s) + 1 /\ d = (p + e) - 1 /\ n = d - c + 1
            /\ f = s + 1 /\ g = e - 1 /\ n = g - f + 1
    <3>1. /\ e - s - 1 \in Nat /\ (p + s) + 1 \in Nat /\ s + 1 \in Nat
          /\ (p + e) - 1 \in Nat /\ e - 1 \in Nat
          /\ e - s - 1 = ((p + e) - 1) - ((p + s) + 1) + 1
          /\ e - s - 1 = (e - 1) - (s + 1) + 1
      BY <1>3, <1>5
    <3> QED
      BY <3>1
  <2>2. \A i \in 1..n : i + f - 1 \in 1..q /\ i + c - 1 = p + (i + f - 1)
    BY <1>3, <1>5, <2>1
  <2>3. Alike(t, c, b, f, n)
    BY <1>2, <1>3, <2>2 DEF Alike
  <2>4. c >= 1 /\ d <= Len(t) /\ f >= 1 /\ g <= Len(b)
    BY <1>3, <1>5, <2>1
  <2>5. Cut(t, c, d) = Cut(b, f, g)
    <3>1. t \in Text
      BY <1>2
    <3>2. SameTokens(t, c, d, b, f, g, n)
      BY <2>1, <2>3, <2>4 DEF SameTokens
    <3> QED
      BY <3>1, <3>2, SameCut
  <2>6. RefName(t) = SubSeq(t, c, d) /\ RefName(b) = SubSeq(b, f, g)
    BY <1>1, <1>8, <2>1 DEF RefName
  <2> QED
    BY <2>5, <2>6 DEF Cut
<1>10. AfterRef(t) = AfterRef(b)
  <2>1. PICK n, c, d, f, g \in Nat :
            /\ c = (p + e) + 1 /\ d = Len(t) /\ n = d - c + 1
            /\ f = e + 1 /\ g = Len(b) /\ n = g - f + 1
    <3>1. /\ q - e \in Nat /\ (p + e) + 1 \in Nat /\ e + 1 \in Nat
          /\ Len(t) \in Nat /\ Len(b) \in Nat
          /\ q - e = Len(t) - ((p + e) + 1) + 1
          /\ q - e = Len(b) - (e + 1) + 1
      BY <1>3, <1>5
    <3> QED
      BY <3>1
  <2>2. \A i \in 1..n : i + f - 1 \in 1..q /\ i + c - 1 = p + (i + f - 1)
    BY <1>3, <1>5, <2>1
  <2>3. Alike(t, c, b, f, n)
    BY <1>2, <1>3, <2>2 DEF Alike
  <2>4. c >= 1 /\ d <= Len(t) /\ f >= 1 /\ g <= Len(b)
    BY <1>3, <1>5, <2>1
  <2>5. Cut(t, c, d) = Cut(b, f, g)
    <3>1. t \in Text
      BY <1>2
    <3>2. SameTokens(t, c, d, b, f, g, n)
      BY <2>1, <2>3, <2>4 DEF SameTokens
    <3> QED
      BY <3>1, <3>2, SameCut
  <2>6. AfterRef(t) = SubSeq(t, c, d) /\ AfterRef(b) = SubSeq(b, f, g)
    BY <1>1, <1>8, <2>1 DEF AfterRef
  <2> QED
    BY <2>5, <2>6 DEF Cut
<1>11. BeforeRef(t) = a \o BeforeRef(b)
  <2>1. PICK k, n \in Nat : k = s - 1 /\ n = (p + s) - 1 /\ n = p + k
    BY <1>3, <1>5
  <2>2. PICK x, y, z : x = SubSeq(t, 1, n) /\ y = SubSeq(b, 1, k) /\ z = a \o y
    OBVIOUS
  <2>3. x \in Text /\ Len(x) = n /\ \A i \in 1..n : x[i] = t[i]
    <3>1. n <= Len(t) /\ 1 <= n + 1 /\ n - 1 + 1 = n /\ \A i \in 1..n : i + 1 - 1 = i
      BY <1>3, <1>5, <2>1
    <3> QED
      BY <1>2, <2>2, <3>1, CutFacts
  <2>4. y \in Text /\ Len(y) = k /\ \A i \in 1..k : y[i] = b[i]
    <3>1. k <= Len(b) /\ 1 <= k + 1 /\ k - 1 + 1 = k /\ \A i \in 1..k : i + 1 - 1 = i
      BY <1>3, <1>5, <2>1
    <3> QED
      BY <2>2, <3>1, CutFacts
  <2>5. /\ z \in Text /\ Len(z) = n
        /\ \A i \in 1..p : z[i] = a[i]
        /\ \A i \in 1..k : z[p + i] = y[i]
    <3>1. y \in Text
      BY <2>4
    <3>2. /\ a \o y \in Text /\ Len(a \o y) = Len(a) + Len(y)
          /\ \A i \in 1..Len(a) : (a \o y)[i] = a[i]
          /\ \A i \in 1..Len(y) : (a \o y)[Len(a) + i] = y[i]
      BY <3>1, JoinFacts
    <3>3. a \o y = z
      BY <2>2
    <3> QED
      BY <1>3, <2>1, <2>4, <3>2, <3>3
  <2>6. ASSUME NEW i \in 1..n PROVE x[i] = z[i]
    <3>1. CASE i \in 1..p
      BY <1>2, <1>3, <2>3, <2>5, <3>1
    <3>2. CASE i \notin 1..p
      <4>1. PICK j \in 1..k : i = p + j /\ j \in 1..q
        <5>1. i - p \in 1..k /\ i - p \in 1..q /\ i = p + (i - p)
          BY <1>3, <1>5, <2>1, <3>2
        <5> QED
          BY <5>1
      <4> QED
        BY <1>2, <1>3, <2>3, <2>4, <2>5, <4>1
    <3> QED
      BY <3>1, <3>2
  <2>7. x = z
    BY <2>3, <2>5, <2>6, SeqEqual DEF Text
  <2>8. BeforeRef(t) = x /\ BeforeRef(b) = y
    BY <1>1, <1>8, <2>1, <2>2 DEF BeforeRef
  <2> QED
    BY <2>2, <2>7, <2>8
<1> QED
  BY <1>1, <1>8, <1>9, <1>10, <1>11

LEMMA NoRefBehind ==
    ASSUME NEW a \in Text, NEW b \in Text, Harmless(a), ~HasRef(b)
    PROVE  ~HasRef(a \o b)
<1> SUFFICES ASSUME HasRef(a \o b) PROVE FALSE
  OBVIOUS
<1>1. PICK t, s, e : t = a \o b /\ s = RefStart(t) /\ e = RefEnd(t)
  OBVIOUS
<1>2. /\ t \in Text
      /\ \A i \in 1..Len(a) : t[i] = a[i]
      /\ \A i \in 1..Len(b) : t[Len(a) + i] = b[i]
  BY <1>1, JoinFacts
<1>3. PICK p, q \in Nat : p = Len(a) /\ q = Len(b) /\ Len(t) = p + q
  BY <1>1, JoinFacts
<1>4. First(t, s, e)
  BY <1>1, <1>2, RefFacts
<1>5. s \in 1..(p + q) /\ e \in 1..(p + q) /\ s < e /\ t[s] = Prefix /\ t[e] = Suffix
  BY <1>3, <1>4 DEF First
<1>6. s \notin 1..p
  BY <1>2, <1>3, <1>5 DEF Harmless
<1>7. PICK i, j \in 1..q : s = p + i /\ e = p + j /\ i < j
  <2>1. s - p \in 1..q /\ e - p \in 1..q /\ s = p + (s - p) /\ e = p + (e - p) /\ s - p < e - p
    BY <1>3, <1>5, <1>6
  <2> QED
    BY <2>1
<1>8. b[i] = Prefix /\ b[j] = Suffix
  BY <1>2, <1>3, <1>5, <1>7
<1> QED
  BY <1>3, <1>7, <1>8, RefFacts

(* A text that ends what it begins: with no reference it is harmless, and  *)
(* what comes after its first reference ends what it begins.               *)
LEMMA ClosedFacts ==
    ASSUME NEW t \in Text, Closed(t)
    PROVE  /\ ~HasRef(t) => Harmless(t)
           /\ HasRef(t) => Closed(AfterRef(t))
<1>1. Len(t) \in Nat /\ DOMAIN t = 1..Len(t)
  BY TextFacts
<1>2. ASSUME ~HasRef(t) PROVE Harmless(t)
  BY <1>1, <1>2, RefFacts DEF Closed, Harmless
<1>3. ASSUME HasRef(t) PROVE Closed(AfterRef(t))
  <2>1. PICK e, u : e = RefEnd(t) /\ u = AfterRef(t)
    OBVIOUS
  <2>2. PICK p, n \in Nat : p = Len(t) /\ e \in 1..p /\ n = p - e
    <3>1. First(t, RefStart(t), e)
      BY <1>3, <2>1, RefFacts
    <3>2. e \in 1..Len(t)
      BY <3>1 DEF First
    <3>3. Len(t) - e \in Nat
      BY <1>1, <3>2
    <3> QED
      BY <1>1, <3>2, <3>3
  <2>3. u \in Text /\ Len(u) = n /\ \A i \in 1..n : u[i] = t[i + e]
    <3>1. PICK r \in Nat : r = e + 1 /\ r >= 1 /\ r <= p + 1 /\ p - r + 1 = n
      BY <2>2
    <3>2. /\ SubSeq(t, r, p) \in Text
          /\ Len(SubSeq(t, r, p)) = p - r + 1
          /\ \A i \in 1..(p - r + 1) : SubSeq(t, r, p)[i] = t[i + r - 1]
      <4>1. p \in Nat /\ r \in Nat /\ r >= 1 /\ p <= Len(t) /\ r <= p + 1
        BY <2>2, <3>1
      <4> QED
        BY <4>1, CutFacts
    <3>3. \A i \in 1..n : i + r - 1 = i + e
      BY <2>2, <3>1
    <3>4. u = SubSeq(t, r, p)
      BY <2>1, <2>2, <3>1 DEF AfterRef
    <3> QED
      BY <3>1, <3>2, <3>3, <3>4
  <2>4. DOMAIN u = 1..n
    BY <2>3, TextFacts
  <2>5. ASSUME NEW i \in 1..n, u[i] = Prefix
        PROVE  \E j \in 1..n : i < j /\ u[j] = Suffix
    <3>1. i + e \in 1..p /\ t[i + e] = Prefix
      BY <2>2, <2>3, <2>5
    <3>2. PICK k \in 1..p : i + e < k /\ t[k] = Suffix
      BY <1>1, <2>2, <3>1 DEF Closed
    <3>3. k - e \in 1..n /\ i < k - e /\ (k - e) + e = k
      BY <2>2, <3>2
    <3> QED
      BY <2>3, <3>2, <3>3
  <2> QED
    BY <2>1, <2>4, <2>5 DEF Closed
<1> QED
  BY <1>2, <1>3

Associates(a, b, c) == (a \o b) \o c = a \o (b \o c)

LEMMA JoinAssoc ==
    ASSUME NEW a \in Text, NEW b \in Text, NEW c \in Text
    PROVE  Associates(a, b, c)
BY ConcatAssociative DEF Text, Associates

LEMMA JoinAssocLong ==
    ASSUME NEW a \in Text, NEW b \in Text, NEW c \in Text, NEW d \in Text
    PROVE  Associates(a, b, c) /\ Associates(a, b \o c, d)
<1>1. b \o c \in Text
  BY JoinFacts
<1> QED
  BY <1>1, JoinAssoc

-----------------------------------------------------------------------------
(* References are resolved one by one.                                     *)

(* o is an expansion of a followed by one of b.                            *)
Split(values, n, a, b, o) ==
    \E x \in Expansions(a, values, n), y \in Expansions(b, values, n) : o = x \o y

(* What follows a closed text does not change what the text stands for.    *)
LEMMA SplitInFront ==
    ASSUME NEW values, Table(values), NEW n \in Nat, NEW a \in Text, NEW b \in Text,
           HasRef(a), NEW o \in Expansions(a \o b, values, n),
           n - 1 \in Nat =>
                \A w \in Expansions(AfterRef(a) \o b, values, n - 1) :
                    Split(values, n - 1, AfterRef(a), b, w)
    PROVE  Split(values, n, a, b, o)
<1>1. PICK t : t = a \o b
  OBVIOUS
<1>2. t \in Text
  BY <1>1, JoinFacts
<1>3. /\ HasRef(t) /\ BeforeRef(t) = BeforeRef(a) /\ RefName(t) = RefName(a)
      /\ AfterRef(t) = AfterRef(a) \o b
  BY <1>1, RefInFront
<1>4. n - 1 \in Nat /\ Apart(values, n, t, o)
  BY <1>1, <1>2, <1>3, TakenApart
<1>5. PICK v \in Expansions(Lookup(values, RefName(a)), values, n - 1),
           w \in Expansions(AfterRef(a) \o b, values, n - 1) : o = BeforeRef(a) \o v \o w
  BY <1>3, <1>4 DEF Apart
<1>6. PICK x \in Expansions(AfterRef(a), values, n - 1),
           y \in Expansions(b, values, n - 1) : w = x \o y
  BY <1>4, <1>5 DEF Split
<1>7. Lookup(values, RefName(a)) \in Text /\ BeforeRef(a) \in Text /\ AfterRef(a) \in Text
  BY LookupFacts, PartFacts
<1>8. v \in Text /\ x \in Text /\ y \in Text
  BY <1>4, <1>5, <1>6, <1>7, DeeperToo
<1>9. (n - 1) + 1 = n
  OBVIOUS
<1>10. BeforeRef(a) \o v \o x \in Expansions(a, values, n)
  BY <1>4, <1>5, <1>6, <1>9, PutTogether
<1>11. y \in Expansions(b, values, n)
  BY <1>4, <1>6, <1>9, DeeperToo
<1>12. PICK p \in Text : p = BeforeRef(a) \o v
  BY <1>7, <1>8, JoinFacts
<1>13. o = (p \o x) \o y
  <2>1. p \in Text
    BY <1>12
  <2>2. Associates(p, x, y)
    BY <1>8, <2>1, JoinAssoc
  <2> QED
    BY <1>5, <1>6, <1>12, <2>2 DEF Associates
<1> QED
  BY <1>10, <1>11, <1>12, <1>13 DEF Split

LEMMA SplitBehind ==
    ASSUME NEW values, Table(values), NEW n \in Nat, NEW a \in Text, NEW b \in Text,
           Harmless(a), ~HasRef(a), NEW o \in Expansions(a \o b, values, n)
    PROVE  Split(values, n, a, b, o)
<1>1. PICK t : t = a \o b
  OBVIOUS
<1>2. t \in Text
  BY <1>1, JoinFacts
<1>3. a \in Expansions(a, values, n)
  BY Plain
<1>4. CASE HasRef(b)
  <2>1. /\ HasRef(t) /\ BeforeRef(t) = a \o BeforeRef(b) /\ RefName(t) = RefName(b)
        /\ AfterRef(t) = AfterRef(b)
    BY <1>1, <1>4, RefBehind
  <2>2. n - 1 \in Nat /\ Apart(values, n, t, o)
    BY <1>1, <1>2, <2>1, TakenApart
  <2>3. PICK v \in Expansions(Lookup(values, RefName(b)), values, n - 1),
             w \in Expansions(AfterRef(b), values, n - 1) : o = (a \o BeforeRef(b)) \o v \o w
    BY <2>1, <2>2 DEF Apart
  <2>4. Lookup(values, RefName(b)) \in Text /\ BeforeRef(b) \in Text /\ AfterRef(b) \in Text
    BY <1>4, LookupFacts, PartFacts
  <2>5. v \in Text /\ w \in Text
    BY <2>2, <2>3, <2>4, DeeperToo
  <2>6. (n - 1) + 1 = n
    OBVIOUS
  <2>7. BeforeRef(b) \o v \o w \in Expansions(b, values, n)
    BY <1>4, <2>2, <2>3, <2>6, PutTogether
  <2>8. ((a \o BeforeRef(b)) \o v) \o w = a \o ((BeforeRef(b) \o v) \o w)
    <3>1. BeforeRef(b) \in Text
      BY <2>4
    <3>2. Associates(a, BeforeRef(b), v) /\ Associates(a, BeforeRef(b) \o v, w)
      BY <2>5, <3>1, JoinAssocLong
    <3> QED
      BY <3>2 DEF Associates
  <2> QED
    BY <1>3, <2>3, <2>7, <2>8 DEF Split
<1>5. CASE ~HasRef(b)
  <2>1. ~HasRef(t)
    BY <1>1, <1>5, NoRefBehind
  <2>2. o = t
    <3>1. Expansions(t, values, n) = {t}
      BY <1>2, <2>1, Plain
    <3> QED
      BY <1>1, <3>1
  <2>3. b \in Expansions(b, values, n)
    BY <1>5, Plain
  <2> QED
    BY <1>1, <1>3, <2>2, <2>3 DEF Split
<1> QED
  BY <1>4, <1>5

LEMMA SplitClosed ==
    ASSUME NEW values, Table(values)
    PROVE  \A n \in Nat : \A a, b \in Text : Closed(a) =>
             \A o \in Expansions(a \o b, values, n) : Split(values, n, a, b, o)
<1> DEFINE Good(n) == \A a, b \in Text : Closed(a) =>
                        \A o \in Expansions(a \o b, values, n) : Split(values, n, a, b, o)
           Bad == {n \in Nat : ~Good(n)}
<1> SUFFICES ASSUME Bad # {} PROVE FALSE
  OBVIOUS
<1>1. PICK n \in Bad : \A l \in Bad : n <= l
  BY LeastNat
<1>2. PICK a, b, o : /\ a \in Text /\ b \in Text /\ Closed(a)
                    /\ o \in Expansions(a \o b, values, n)
                    /\ ~Split(values, n, a, b, o)
  BY <1>1
<1>3. n \in Nat /\ (n - 1 \in Nat => Good(n - 1))
  BY <1>1
<1> HIDE DEF Bad
<1>4. HasRef(a)
  <2> SUFFICES ASSUME ~HasRef(a) PROVE FALSE
    OBVIOUS
  <2>1. Harmless(a)
    BY <1>2, ClosedFacts
  <2> QED
    BY <1>2, <1>3, <2>1, SplitBehind
<1>5. AfterRef(a) \in Text /\ Closed(AfterRef(a))
  BY <1>2, <1>4, ClosedFacts, PartFacts
<1>6. n - 1 \in Nat => \A w \in Expansions(AfterRef(a) \o b, values, n - 1) :
                            Split(values, n - 1, AfterRef(a), b, w)
  BY <1>2, <1>3, <1>5
<1> QED
  BY <1>2, <1>3, <1>4, <1>6, SplitInFront

LEMMA HarmlessFacts ==
    ASSUME NEW a \in Text, Harmless(a)
    PROVE  ~HasRef(a) /\ Closed(a)
<1>1. DOMAIN a = 1..Len(a)
  BY TextFacts
<1>2. ~HasRef(a)
  <2> SUFFICES ASSUME HasRef(a) PROVE FALSE
    OBVIOUS
  <2>1. PICK s, e : First(a, s, e)
    BY RefFacts
  <2> QED
    BY <2>1 DEF First, Harmless
<1>3. Closed(a)
  BY <1>1 DEF Closed, Harmless
<1> QED
  BY <1>2, <1>3

LEMMA BeforeRefHarmless ==
    ASSUME NEW t \in Text, HasRef(t)
    PROVE  Harmless(BeforeRef(t))
<1>1. PICK s, e, u : s = RefStart(t) /\ e = RefEnd(t) /\ u = BeforeRef(t)
  OBVIOUS
<1>2. First(t, s, e)
  BY <1>1, RefFacts
<1>3. PICK k \in Nat : k = s - 1 /\ k <= Len(t) /\ \A i \in 1..k : i \in 1..Len(t) /\ i < s
  <2>1. s \in 1..Len(t) /\ Len(t) \in Nat
    BY <1>2, TextFacts DEF First
  <2>2. s - 1 \in Nat /\ s - 1 <= Len(t) /\ \A i \in 1..(s - 1) : i \in 1..Len(t) /\ i < s
    BY <2>1
  <2> QED
    BY <2>2
<1>4. Len(u) = k /\ \A i \in 1..k : u[i] = t[i]
  <2>1. 1 <= k + 1 /\ k - 1 + 1 = k /\ \A i \in 1..k : i + 1 - 1 = i
    BY <1>3
  <2>2. /\ Len(SubSeq(t, 1, k)) = k - 1 + 1
        /\ \A i \in 1..(k - 1 + 1) : SubSeq(t, 1, k)[i] = t[i + 1 - 1]
    BY <1>3, <2>1, CutFacts
  <2>3. u = SubSeq(t, 1, k)
    BY <1>1, <1>3 DEF BeforeRef
  <2> QED
    BY <2>1, <2>2, <2>3
<1>5. \A i \in 1..k : t[i] # Prefix
  BY <1>2, <1>3 DEF First
<1> QED
  BY <1>1, <1>4, <1>5 DEF Harmless

(* A turn of the loop in ResolveSecrets does not change what the text      *)
(* stands for.                                                             *)
LEMMA ResolveFirstKeeps ==
    ASSUME NEW values, Table(values), AllClosed(values), NEW t \in Text, HasRef(t),
           NEW n \in Nat, NEW o \in Expansions(ResolveFirst(t, values), values, n)
    PROVE  o \in Expansions(t, values, n + 1)
<1>1. PICK b, l, a : b = BeforeRef(t) /\ l = Lookup(values, RefName(t)) /\ a = AfterRef(t)
  OBVIOUS
<1>2. b \in Text /\ l \in Text /\ a \in Text
  BY <1>1, PartFacts, LookupFacts
<1>3. Harmless(b) /\ Closed(l)
  BY <1>1, BeforeRefHarmless, LookupFacts
<1>4. ~HasRef(b) /\ Closed(b)
  BY <1>2, <1>3, HarmlessFacts
<1>5. PICK r \in Text : r = l \o a
  BY <1>2, JoinFacts
<1>6. (b \o l) \o a = b \o r
  <2>1. Associates(b, l, a)
    BY <1>2, JoinAssoc
  <2> QED
    BY <1>5, <2>1 DEF Associates
<1>7. o \in Expansions(b \o r, values, n)
  BY <1>1, <1>6 DEF ResolveFirst
<1>8. Split(values, n, b, r, o)
  BY <1>2, <1>4, <1>5, <1>7, SplitClosed
<1>9. PICK x \in Expansions(b, values, n), y \in Expansions(r, values, n) : o = x \o y
  BY <1>8 DEF Split
<1>10. x = b
  BY <1>2, <1>4, <1>9, Plain
<1>11. Split(values, n, l, a, y)
  BY <1>2, <1>3, <1>5, <1>9, SplitClosed
<1>12. PICK v \in Expansions(l, values, n), w \in Expansions(a, values, n) : y = v \o w
  BY <1>11 DEF Split
<1>13. v \in Text /\ w \in Text
  BY <1>2, <1>12, DeeperToo
<1>14. (b \o v) \o w = b \o (v \o w)
  <2>1. Associates(b, v, w)
    BY <1>2, <1>13, JoinAssoc
  <2> QED
    BY <2>1 DEF Associates
<1>15. BeforeRef(t) \o v \o w \in Expansions(t, values, n + 1)
  BY <1>1, <1>12, PutTogether
<1> QED
  BY <1>1, <1>9, <1>10, <1>12, <1>14, <1>15

-----------------------------------------------------------------------------
(* The environment of a run.                                               *)

(* What env stands for, text stands for too.                               *)
Follows(env, text, values) ==
    \A m \in Nat : \A o \in Expansions(env, values, m) :
        \E n \in Nat : o \in Expansions(text, values, n)

EnvOK(x) ==
    /\ Table(x.secrets)
    /\ x.pc \in {"resolve", "shell"} =>
         /\ x.env \in Text
         /\ AllClosed(x.secrets) => Follows(x.env, Flat[x.content][x.at].step.env, x.secrets)
    /\ x.pc = "shell" => ~HasRef(x.env)

SecretsInv ==
    /\ \A k \in 1..Len(inbox) : Table(inbox[k].secrets)
    /\ \A r \in RunIds : runs[r] # NoRun => EnvOK(runs[r])

LEMMA FollowsItself ==
    ASSUME NEW text, NEW values
    PROVE  Follows(text, text, values)
BY DEF Follows

LEMMA FollowsOn ==
    ASSUME NEW values, Table(values), AllClosed(values), NEW env \in Text, HasRef(env),
           NEW text, Follows(env, text, values)
    PROVE  Follows(ResolveFirst(env, values), text, values)
<1> SUFFICES ASSUME NEW m \in Nat, NEW o \in Expansions(ResolveFirst(env, values), values, m)
             PROVE  \E n \in Nat : o \in Expansions(text, values, n)
  BY DEF Follows
<1>1. PICK k \in Nat : k = m + 1
  OBVIOUS
<1>2. o \in Expansions(env, values, k)
  BY <1>1, ResolveFirstKeeps
<1> QED
  BY <1>1, <1>2 DEF Follows

LEMMA ResolveFirstText ==
    ASSUME NEW values, Table(values), NEW t \in Text, HasRef(t)
    PROVE  ResolveFirst(t, values) \in Text
<1>1. BeforeRef(t) \in Text /\ Lookup(values, RefName(t)) \in Text /\ AfterRef(t) \in Text
  BY PartFacts, LookupFacts
<1> QED
  BY <1>1, JoinFacts DEF ResolveFirst

(* The tables hold texts, and so does every step.                          *)
LEMMA SecretsAreTables ==
    ASSUME ServerInv
    PROVE  Table(secrets) /\ Table(NoSecrets)
<1>1. Table(secrets)
  BY PlaybooksAssumption DEF ServerInv, Table
<1>2. DOMAIN NoSecrets = {}
  BY DEF NoSecrets
<1> QED
  BY <1>1, <1>2 DEF Table

LEMMA StepEnv ==
    ASSUME NEW pb \in Contents, NEW k \in 1..Len(Flat[pb])
    PROVE  Flat[pb][k].step.env \in Text
<1>1. Flat[pb][k] \in OrderedStepOf(pb)
  BY FlatFacts, ElementOfSeq
<1>2. Flat[pb][k].step \in StepsOf(pb)
  BY <1>1 DEF OrderedStepOf
<1> QED
  BY <1>2, PlaybooksAssumption DEF StepsOf

-----------------------------------------------------------------------------
(* Every step keeps SecretsInv.                                            *)

LEMMA NothingMoved ==
    ASSUME SecretsInv, UNCHANGED <<inbox, runs>>
    PROVE  SecretsInv'
BY DEF SecretsInv

LEMMA InboxLost ==
    ASSUME SecretsInv, inbox' = << >>, runs' = runs \/ runs' = [r \in RunIds |-> NoRun]
    PROVE  SecretsInv'
<1>1. Len(inbox') = 0
  OBVIOUS
<1>2. \A k \in 1..Len(inbox') : Table(inbox'[k].secrets)
  BY <1>1
<1>3. \A r \in RunIds : runs'[r] # NoRun => EnvOK(runs'[r])
  BY DEF SecretsInv
<1> QED
  BY <1>2, <1>3 DEF SecretsInv

LEMMA OneRunMoved ==
    ASSUME IndInv, SecretsInv, NEW r \in RunIds, NEW x, x = NoRun \/ EnvOK(x),
           runs' = [runs EXCEPT ![r] = x], UNCHANGED inbox
    PROVE  SecretsInv'
<1>1. \A q \in RunIds : runs'[q] = IF q = r THEN x ELSE runs[q]
  BY DEF IndInv, RunsInv
<1>2. \A q \in RunIds : runs'[q] # NoRun => EnvOK(runs'[q])
  BY <1>1 DEF SecretsInv
<1> QED
  BY <1>2 DEF SecretsInv

LEMMA PushSendKeeps ==
    ASSUME IndInv, SecretsInv, NEW t \in Pushers, PushSend(t)
    PROVE  SecretsInv'
<1>1. runs' = runs
  BY DEF PushSend
<1>2. CASE ~online
  BY <1>1, <1>2, NothingMoved DEF PushSend
<1>3. CASE online
  <2>1. PICK v \in {secrets, NoSecrets} : inbox' =
            Append(inbox, [dep |-> push[t].dep, content |-> push[t].content,
                           resume |-> push[t].resume, secrets |-> v])
    BY <1>3 DEF PushSend
  <2>2. PICK m : /\ m = [dep |-> push[t].dep, content |-> push[t].content,
                         resume |-> push[t].resume, secrets |-> v]
                 /\ inbox' = Append(inbox, m)
    BY <2>1
  <2>3. Table(m.secrets)
    BY <2>2, SecretsAreTables DEF IndInv
  <2>4. IsList(inbox)
    BY DEF IndInv, InboxInv
  <2>5. /\ Len(inbox') = Len(inbox) + 1 /\ inbox'[Len(inbox) + 1] = m
        /\ Len(inbox) \in Nat /\ \A k \in 1..Len(inbox) : inbox'[k] = inbox[k]
    BY <2>2, <2>4, ListAppend
  <2>6. \A k \in 1..Len(inbox') : k \in 1..Len(inbox) \/ k = Len(inbox) + 1
    BY <2>5
  <2>7. \A k \in 1..Len(inbox') : Table(inbox'[k].secrets)
    BY <2>3, <2>5, <2>6 DEF SecretsInv
  <2> QED
    BY <1>1, <2>7 DEF SecretsInv
<1> QED
  BY <1>2, <1>3

LEMMA ReceivePlaybookKeeps ==
    ASSUME IndInv, SecretsInv, ReceivePlaybook
    PROVE  SecretsInv'
<1>1. inbox # << >> /\ inbox' = Tail(inbox) /\ IsList(inbox)
  BY DEF ReceivePlaybook, IndInv, InboxInv
<1>2. /\ \A k \in 1..Len(Tail(inbox)) : k + 1 \in 1..Len(inbox) /\ Tail(inbox)[k] = inbox[k + 1]
      /\ Len(inbox) \in Nat \ {0} /\ Head(inbox) = inbox[1]
  BY <1>1, ListTail
<1>3. \A k \in 1..Len(inbox') : Table(inbox'[k].secrets)
  BY <1>1, <1>2 DEF SecretsInv
<1>4. PICK m : m = Head(inbox) /\ Table(m.secrets)
  BY <1>2 DEF SecretsInv
<1>5. PICK r \in RunIds : runs' = [runs EXCEPT ![r] =
                      [pc |-> "next", conn |-> conn, dep |-> m.dep,
                       content |-> m.content, resume |-> m.resume,
                       secrets |-> m.secrets, at |-> 0, env |-> << >>]]
  BY <1>4 DEF ReceivePlaybook
<1>6. PICK x : x = [pc |-> "next", conn |-> conn, dep |-> m.dep,
                    content |-> m.content, resume |-> m.resume,
                    secrets |-> m.secrets, at |-> 0, env |-> << >>]
  OBVIOUS
<1>7. EnvOK(x)
  BY <1>4, <1>6 DEF EnvOK
<1>8. \A q \in RunIds : runs'[q] = IF q = r THEN x ELSE runs[q]
  BY <1>5, <1>6 DEF IndInv, RunsInv
<1> QED
  BY <1>3, <1>7, <1>8 DEF SecretsInv

LEMMA StepStartKeeps ==
    ASSUME IndInv, SecretsInv, NEW r \in RunIds, StepStart(r)
    PROVE  SecretsInv'
<1>1. PICK x, rest, k, step :
        /\ x = runs[r] /\ rest = Remaining(x, x.at + 1) /\ k = Min(rest)
        /\ step = Flat[x.content][k]
  OBVIOUS
<1>2. /\ x.pc = "next" /\ rest # {} /\ inbox' = inbox
      /\ runs' = [runs EXCEPT ![r].pc = IF step.step.reboot THEN "reboot" ELSE "resolve",
                              ![r].at = k, ![r].env = step.step.env]
  BY <1>1 DEF StepStart
<1>3. x # NoRun
  BY <1>2 DEF NoRun
<1>4. /\ RunOK(x, Len(deps), sent, executed)
      /\ x.content \in Contents /\ x.at \in Nat /\ Len(Flat[x.content]) \in Nat
  BY <1>1, <1>3, RunFacts
<1>5. k \in 1..Len(Flat[x.content])
  <2>1. rest \in SUBSET ((x.at + 1)..Len(Flat[x.content]))
    BY <1>1 DEF Remaining
  <2>2. (x.at + 1)..Len(Flat[x.content]) \subseteq Nat
    BY <1>4
  <2>3. k \in rest
    BY <1>1, <1>2, <2>1, <2>2, MinFacts
  <2>4. k \in (x.at + 1)..Len(Flat[x.content])
    BY <2>1, <2>3
  <2> QED
    BY <1>4, <2>4
<1>6. step.step.env \in Text
  BY <1>1, <1>4, <1>5, StepEnv
<1>7. PICK pc, env, y :
        /\ pc = IF step.step.reboot THEN "reboot" ELSE "resolve"
        /\ env = step.step.env
        /\ y = [x EXCEPT !.pc = pc, !.at = k, !.env = env]
  OBVIOUS
<1>8. runs' = [runs EXCEPT ![r] = y]
  BY <1>1, <1>2, <1>7 DEF IndInv, RunsInv
<1>9. x = [f \in RunFields |-> x[f]]
  BY <1>4 DEF RunOK
<1>10. /\ y.pc = pc /\ y.at = k /\ y.env = env
       /\ y.secrets = x.secrets /\ y.content = x.content
  BY <1>7, <1>9 DEF RunFields
<1>11. Table(x.secrets)
  BY <1>1, <1>3 DEF SecretsInv, EnvOK
<1>12. pc \in {"reboot", "resolve"}
  BY <1>7
<1>13. Follows(y.env, Flat[y.content][y.at].step.env, y.secrets)
  BY <1>1, <1>7, <1>10, FollowsItself
<1>14. y.env \in Text
  BY <1>6, <1>7, <1>10
<1>15. EnvOK(y)
  BY <1>10, <1>11, <1>12, <1>13, <1>14 DEF EnvOK
<1> QED
  BY <1>2, <1>8, <1>15, OneRunMoved


LEMMA ResolveSecretsKeeps ==
    ASSUME IndInv, SecretsInv, NEW r \in RunIds, ResolveSecrets(r)
    PROVE  SecretsInv'
<1>1. inbox' = inbox
  BY DEF ResolveSecrets
<1>2. PICK x : x = runs[r] /\ x.pc = "resolve"
  BY DEF ResolveSecrets
<1>3. x # NoRun
  BY <1>2 DEF NoRun
<1>4. x = [f \in RunFields |-> x[f]] /\ runs = [q \in RunIds |-> runs[q]]
  BY <1>2, <1>3, RunFacts DEF RunOK, IndInv, RunsInv
<1>5. EnvOK(x)
  BY <1>2, <1>3 DEF SecretsInv
<1>6. PICK text : text = Flat[x.content][x.at].step.env
  OBVIOUS
<1>7. /\ Table(x.secrets) /\ x.env \in Text
      /\ AllClosed(x.secrets) => Follows(x.env, text, x.secrets)
  BY <1>2, <1>5, <1>6 DEF EnvOK
<1>8. CASE HasRef(x.env) /\ runs' = [runs EXCEPT ![r].env = ResolveFirst(@, runs[r].secrets)]
  <2>1. PICK e, y : e = ResolveFirst(x.env, x.secrets) /\ y = [x EXCEPT !.env = e]
    OBVIOUS
  <2>2. runs' = [runs EXCEPT ![r] = y]
    BY <1>2, <1>4, <1>8, <2>1
  <2>3. /\ y.pc = "resolve" /\ y.at = x.at /\ y.env = e
        /\ y.secrets = x.secrets /\ y.content = x.content
    BY <1>2, <1>4, <2>1 DEF RunFields
  <2>4. e \in Text
    BY <1>7, <1>8, <2>1, ResolveFirstText
  <2>5. AllClosed(x.secrets) => Follows(e, text, x.secrets)
    BY <1>7, <1>8, <2>1, FollowsOn
  <2>6. EnvOK(y)
    BY <1>6, <1>7, <2>3, <2>4, <2>5 DEF EnvOK
  <2> QED
    BY <1>1, <2>2, <2>6, OneRunMoved
<1>9. CASE ~HasRef(x.env) /\ runs' = [runs EXCEPT ![r].pc = "shell"]
  <2>1. PICK y : y = [x EXCEPT !.pc = "shell"]
    OBVIOUS
  <2>2. runs' = [runs EXCEPT ![r] = y]
    BY <1>2, <1>4, <1>9, <2>1
  <2>3. /\ y.pc = "shell" /\ y.at = x.at /\ y.env = x.env
        /\ y.secrets = x.secrets /\ y.content = x.content
    BY <1>2, <1>4, <2>1 DEF RunFields
  <2>4. EnvOK(y)
    BY <1>6, <1>7, <1>9, <2>3 DEF EnvOK
  <2> QED
    BY <1>1, <2>2, <2>4, OneRunMoved
<1> QED
  BY <1>2, <1>8, <1>9 DEF ResolveSecrets

(* A run that is not at a shell, or about to be, only keeps its secrets.   *)
LEMMA RunElsewhere ==
    ASSUME IndInv, SecretsInv, NEW r \in RunIds, runs[r] # NoRun,
           NEW pc, pc \notin {"resolve", "shell"}, NEW env,
           runs' = [runs EXCEPT ![r].pc = pc, ![r].env = env], UNCHANGED inbox
    PROVE  SecretsInv'
<1>1. PICK x, y : x = runs[r] /\ y = [x EXCEPT !.pc = pc, !.env = env]
  OBVIOUS
<1>2. x = [f \in RunFields |-> x[f]] /\ runs = [q \in RunIds |-> runs[q]]
  BY <1>1, RunFacts DEF RunOK, IndInv, RunsInv
<1>3. runs' = [runs EXCEPT ![r] = y]
  BY <1>1, <1>2
<1>4. y.pc = pc /\ y.secrets = x.secrets
  BY <1>1, <1>2 DEF RunFields
<1>5. Table(x.secrets)
  BY <1>1 DEF SecretsInv, EnvOK
<1>6. EnvOK(y)
  BY <1>4, <1>5 DEF EnvOK
<1> QED
  BY <1>3, <1>6, OneRunMoved

LEMMA StepEndKeeps ==
    ASSUME IndInv, SecretsInv, NEW r \in RunIds, StepComplete(r) \/ StepReboot(r)
    PROVE  SecretsInv'
<1>1. inbox' = inbox /\ runs[r] # NoRun
  BY DEF StepComplete, StepReboot, NoRun
<1>2. CASE StepComplete(r)
  BY <1>1, <1>2, RunElsewhere DEF StepComplete
<1>3. CASE StepReboot(r)
  <2>1. runs' = [runs EXCEPT ![r].pc = "rebooting"]
    BY <1>3 DEF StepReboot
  <2>2. PICK x, e : x = runs[r] /\ e = x.env
    OBVIOUS
  <2>3. x = [f \in RunFields |-> x[f]] /\ runs = [q \in RunIds |-> runs[q]]
    BY <1>1, <2>2, RunFacts DEF RunOK, IndInv, RunsInv
  <2>4. [x EXCEPT !.pc = "rebooting"] = [x EXCEPT !.pc = "rebooting", !.env = e]
    BY <2>2, <2>3 DEF RunFields
  <2>5. runs' = [runs EXCEPT ![r].pc = "rebooting", ![r].env = e]
    BY <2>1, <2>2, <2>3, <2>4
  <2> QED
    BY <1>1, <2>5, RunElsewhere
<1> QED
  BY <1>2, <1>3

LEMMA RunEndKeeps ==
    ASSUME IndInv, SecretsInv, NEW r \in RunIds,
           StepFailed(r) \/ RebootError(r) \/ RunDone(r)
    PROVE  SecretsInv'
<1>1. inbox' = inbox /\ runs' = [runs EXCEPT ![r] = NoRun]
  BY DEF StepFailed, RebootError, RunDone
<1> QED
  BY <1>1, OneRunMoved

LEMMA NextKeepsSecrets ==
    ASSUME IndInv, SecretsInv, [Next]_vars
    PROVE  SecretsInv'
<1>1. CASE PutPlaybook \/ SavePlaybook \/ DeletePlaybook
  BY <1>1, NothingMoved DEF PutPlaybook, SavePlaybook, DeletePlaybook, agentVars
<1>2. ASSUME NEW n \in SecretNames, SetSecret(n) \/ DeleteSecret(n) PROVE SecretsInv'
  BY <1>2, NothingMoved DEF SetSecret, DeleteSecret, agentVars
<1>3. CASE PutAgent \/ Assign \/ AssignSaveAgent
  BY <1>3, NothingMoved DEF PutAgent, Assign, AssignSaveAgent, agentVars
<1>4. ASSUME NEW t \in Pushers, PushStep(t) PROVE SecretsInv'
  <2>1. CASE PushSend(t)
    BY <2>1, PushSendKeeps
  <2>2. CASE PushRead(t) \/ PushGetPlaybook(t) \/ PushSaveDeployment(t) \/ PushError(t)
    <3>1. UNCHANGED agentVars
      BY <2>2 DEF PushRead, PushGetPlaybook, PushSaveDeployment, PushError
    <3> QED
      BY <3>1, NothingMoved DEF agentVars
  <2> QED
    BY <1>4, <2>1, <2>2 DEF PushStep
<1>5. CASE ReceivePlaybook
  BY <1>5, ReceivePlaybookKeeps
<1>6. ASSUME NEW r \in RunIds, RunStep(r) PROVE SecretsInv'
  <2>1. CASE StepStart(r)
    BY <2>1, StepStartKeeps
  <2>2. CASE ResolveSecrets(r)
    BY <2>2, ResolveSecretsKeeps
  <2>3. CASE StepComplete(r) \/ StepReboot(r)
    BY <2>3, StepEndKeeps
  <2>4. CASE StepFailed(r) \/ RebootError(r) \/ RunDone(r)
    BY <2>4, RunEndKeeps
  <2>5. CASE RebootOS(r)
    BY <2>5, InboxLost DEF RebootOS, ProcessGone, Hangup
  <2> QED
    BY <1>6, <2>1, <2>2, <2>3, <2>4, <2>5 DEF RunStep
<1>7. CASE Connect
  BY <1>7, NothingMoved DEF Connect, agentVars
<1>8. CASE Disconnect \/ ServerRestart
  BY <1>8, InboxLost DEF Disconnect, ServerRestart, Hangup
<1>9. CASE AgentCrash
  BY <1>9, InboxLost DEF AgentCrash, ProcessGone, Hangup
<1>10. ASSUME NEW c \in ConnIds, HandleReport(c) PROVE SecretsInv'
  BY <1>10, NothingMoved DEF HandleReport, agentVars
<1>11. CASE UNCHANGED vars
  BY <1>11, NothingMoved DEF vars, agentVars
<1> QED
  BY <1>1, <1>2, <1>3, <1>4, <1>5, <1>6, <1>7, <1>8, <1>9, <1>10, <1>11 DEF Next

LEMMA InitSecrets ==
    ASSUME Init
    PROVE  SecretsInv
<1>1. Len(inbox) = 0 /\ \A r \in RunIds : runs[r] = NoRun
  BY DEF Init
<1> QED
  BY <1>1 DEF SecretsInv

(* The secrets a run was given are texts, and the environment it is        *)
(* resolving stands for nothing but what its step says.                    *)
THEOREM SecretsInvariant == Spec => []SecretsInv
<1>1. Init => SecretsInv
  BY InitSecrets
<1>2. IndInv /\ SecretsInv /\ [Next]_vars => SecretsInv'
  BY NextKeepsSecrets
<1> QED
  BY <1>1, <1>2, IndInvariant, PTL DEF Spec

-----------------------------------------------------------------------------
(* At the shell.                                                           *)

LEMMA AtShell ==
    ASSUME IndInv, SecretsInv, NEW r \in RunIds, runs[r].pc = "shell", AllClosed(runs[r].secrets)
    PROVE  /\ Table(runs[r].secrets)
           /\ OrderedStep(r).step.env \in Text
           /\ \E n \in Nat : runs[r].env \in Expansions(OrderedStep(r).step.env, runs[r].secrets, n)
<1>1. PICK x, text : x = runs[r] /\ text = OrderedStep(r).step.env
  OBVIOUS
<1>2. x.pc = "shell" /\ AllClosed(x.secrets)
  BY <1>1
<1>3. x # NoRun
  BY <1>2 DEF NoRun
<1>4. EnvOK(x)
  BY <1>1, <1>3 DEF SecretsInv
<1>5. text = Flat[x.content][x.at].step.env
  BY <1>1 DEF OrderedStep
<1>6. /\ Table(x.secrets) /\ x.env \in Text /\ ~HasRef(x.env)
      /\ Follows(x.env, text, x.secrets)
  BY <1>2, <1>4, <1>5 DEF EnvOK
<1>7. text \in Text
  <2>1. RunOK(x, Len(deps), sent, executed) /\ x.content \in Contents /\ Len(Flat[x.content]) \in Nat
    BY <1>1, <1>3, RunFacts
  <2>2. x.at \in 1..Len(Flat[x.content])
    BY <1>2, <2>1 DEF RunOK
  <2> QED
    BY <1>5, <2>1, <2>2, StepEnv
<1>8. x.env \in Expansions(x.env, x.secrets, 0)
  BY <1>6, Plain
<1>9. \E n \in Nat : x.env \in Expansions(text, x.secrets, n)
  BY <1>6, <1>8 DEF Follows
<1> QED
  BY <1>1, <1>6, <1>7, <1>9

(* A shell is started with the environment that the references of its step *)
(* stand for in the secrets that came with the push, if no secret begins a *)
(* reference without ending it: ResolveSecrets starts over on the whole    *)
(* text after every replacement (types.go:102), and yet it comes to what   *)
(* is found when every reference is looked at by itself, for any tokens,   *)
(* playbooks and secrets, and any bound on how far references are followed.*)
THEOREM EnvIsRight == Spec => []EnvRight
<1>1. ASSUME IndInv, SecretsInv PROVE EnvRight
  <2> SUFFICES ASSUME NEW r \in RunIds, runs[r].pc = "shell", AllClosed(runs[r].secrets),
                      NEW o \in Expansions(OrderedStep(r).step.env, runs[r].secrets, MaxDepth)
               PROVE  o = runs[r].env
    BY DEF EnvRight
  <2>1. /\ Table(runs[r].secrets) /\ OrderedStep(r).step.env \in Text
        /\ \E n \in Nat : runs[r].env \in Expansions(OrderedStep(r).step.env, runs[r].secrets, n)
    BY <1>1, AtShell
  <2>2. PICK n \in Nat : runs[r].env \in Expansions(OrderedStep(r).step.env, runs[r].secrets, n)
    BY <2>1
  <2>3. MaxDepth \in Nat
    BY PlaybooksAssumption
  <2> QED
    BY <2>1, <2>2, <2>3, OneExpansion
<1> QED
  BY <1>1, IndInvariant, SecretsInvariant, PTL

(* The environment of a shell is all that its step stands for: the step    *)
(* has an expansion when a shell is started, at some depth, and it is the  *)
(* only one.                                                               *)
EnvExpands ==
    \A r \in RunIds :
        runs[r].pc = "shell" /\ AllClosed(runs[r].secrets)
            => \E n \in Nat :
                 Expansions(OrderedStep(r).step.env, runs[r].secrets, n) = {runs[r].env}

(* ResolveSecrets does not come to an end on a text whose references never *)
(* do: when a shell is started, following the references of its step a     *)
(* finite number of times gives its environment, and nothing else.         *)
THEOREM EnvIsExpansion == Spec => []EnvExpands
<1>1. ASSUME IndInv, SecretsInv PROVE EnvExpands
  <2> SUFFICES ASSUME NEW r \in RunIds, runs[r].pc = "shell", AllClosed(runs[r].secrets)
               PROVE  \E n \in Nat :
                        Expansions(OrderedStep(r).step.env, runs[r].secrets, n) = {runs[r].env}
    BY DEF EnvExpands
  <2>1. /\ Table(runs[r].secrets) /\ OrderedStep(r).step.env \in Text
        /\ \E n \in Nat : runs[r].env \in Expansions(OrderedStep(r).step.env, runs[r].secrets, n)
    BY <1>1, AtShell
  <2>2. PICK n \in Nat : runs[r].env \in Expansions(OrderedStep(r).step.env, runs[r].secrets, n)
    BY <2>1
  <2>3. \A o \in Expansions(OrderedStep(r).step.env, runs[r].secrets, n) : o = runs[r].env
    BY <2>1, <2>2, OneExpansion
  <2>4. Expansions(OrderedStep(r).step.env, runs[r].secrets, n) = {runs[r].env}
    BY <2>2, <2>3
  <2> QED
    BY <2>4
<1> QED
  BY <1>1, IndInvariant, SecretsInvariant, PTL
=============================================================================
