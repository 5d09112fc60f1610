------------------------ MODULE ResponseParserProofs ------------------------
(***************************************************************************)
(* Proofs about ResponseParser, for answers of any length, any bytes in    *)
(* their bodies and headers, and any size of the buffer: whatever          *)
(* beginning of an answer has arrived, the parsers make of it what         *)
(* HttpClient foretells from its tokens, and a body that they hand out is  *)
(* the beginning of the server's.                                          *)
(*                                                                         *)
(* The argument: a place in the answer belongs to one line, chunk or mark  *)
(* of it, and a search of the parsers stops at the one that it stands for. *)
(***************************************************************************)
EXTENDS ResponseParser, SequenceTheorems, WellFoundedInduction, TLAPS

-----------------------------------------------------------------------------
(* Induction, and the loops over a sequence.                               *)

\* Induction up to L.
LEMMA UpTo ==
    ASSUME NEW L \in Nat, NEW S, 0 \in S, \A n \in 1..L : n - 1 \in S => n \in S
    PROVE  \A n \in 0..L : n \in S
<1> DEFINE Bad == (0..L) \ S
<1>1. SUFFICES ASSUME Bad # {} PROVE FALSE
    OBVIOUS
<1>2. PICK x \in Bad : \A y \in Bad : ~ (<<y, x>> \in OpToRel(<, Nat))
    <2>1. Bad \in SUBSET Nat
        OBVIOUS
    <2> QED BY <1>1, <2>1, NatLessThanWellFounded, WFMin
<1>3. x \in 1..L /\ x - 1 \in 0..L
    <2>1. x \in 0..L /\ x \notin S
        BY <1>2
    <2>2. x # 0
        BY <2>1, Zenon
    <2> QED BY <2>1, <2>2
<1>4. x - 1 \in S
    <2>1. <<x - 1, x>> \in OpToRel(<, Nat)
        BY <1>3 DEF OpToRel
    <2> QED BY <1>2, <1>3, <2>1
<1> QED BY <1>2, <1>3, <1>4

\* The runs of a loop of L steps F from base.
Loops(X, base, L, F) ==
    {g \in [0..L -> X] : g[0] = base /\ \A n \in 1..L : g[n] = F[n][g[n - 1]]}

LEMMA LoopExists ==
    ASSUME NEW X, NEW base \in X, NEW L \in Nat, NEW F \in [1..L -> [X -> X]]
    PROVE  \E g : g \in Loops(X, base, L, F)
<1> DEFINE Runs(m, g) == \A n \in 0..m : g[n] = IF n = 0 THEN base ELSE F[n][g[n - 1]]
           S == {m \in 0..L : \E g \in [0..m -> X] : Runs(m, g)}
<1>1. 0 \in S
    <2>1. [n \in 0..0 |-> base] \in [0..0 -> X] /\ Runs(0, [n \in 0..0 |-> base])
        OBVIOUS
    <2>2. \E g \in [0..0 -> X] : Runs(0, g)
        BY <2>1, Zenon
    <2> QED BY <2>2
<1>2. ASSUME NEW m \in 1..L, m - 1 \in S PROVE m \in S
    <2>1. PICK g \in [0..(m - 1) -> X] : Runs(m - 1, g)
        BY <1>2
    <2> DEFINE h == [n \in 0..m |-> IF n = m THEN F[m][g[m - 1]] ELSE g[n]]
    <2>2. h \in [0..m -> X]
        BY <1>2
    <2>3. Runs(m, h)
        <3>1. SUFFICES ASSUME NEW n \in 0..m
                       PROVE  h[n] = IF n = 0 THEN base ELSE F[n][h[n - 1]]
            OBVIOUS
        <3>2. CASE n = m
            <4>1. h[m] = F[m][g[m - 1]] /\ h[m - 1] = g[m - 1] /\ m # 0
                BY <1>2
            <4> QED BY <3>2, <4>1, Zenon
        <3>3. CASE n # m
            <4>1. n \in 0..(m - 1) /\ (n # 0 => n - 1 \in 0..(m - 1))
                BY <3>1, <3>3, <1>2
            <4>2. h[n] = g[n] /\ (n # 0 => h[n - 1] = g[n - 1])
                BY <3>3, <4>1, <1>2
            <4>3. g[n] = IF n = 0 THEN base ELSE F[n][g[n - 1]]
                BY <2>1, <4>1, Zenon
            <4> HIDE DEF h
            <4> QED BY <4>2, <4>3, Zenon
        <3> QED BY <3>2, <3>3
    <2> HIDE DEF h
    <2>4. \E f \in [0..m -> X] : Runs(m, f)
        <3> HIDE DEF Runs
        <3> QED BY <2>2, <2>3
    <2> HIDE DEF Runs
    <2> QED BY <2>4, m \in 0..L, Zenon
<1>3. L \in S
    <2> HIDE DEF S
    <2>1. \A n \in 0..L : n \in S
        BY <1>1, <1>2, UpTo
    <2> QED BY <2>1
<1>4. PICK g \in [0..L -> X] : Runs(L, g)
    BY <1>3
<1>5. g[0] = base
    BY <1>4, 0 \in 0..L
<1>6. ASSUME NEW n \in 1..L PROVE g[n] = F[n][g[n - 1]]
    BY <1>4, n \in 0..L, n # 0
<1> QED BY <1>5, <1>6 DEF Loops

LEMMA FlattenLoop ==
    ASSUME NEW C, NEW ss \in Seq(Seq(C)), NEW g, g[0] = <<>>,
           \A n \in 0..Len(ss) : g[n] \in Seq(C),
           \A n \in 1..Len(ss) : g[n] = g[n - 1] \o ss[n]
    PROVE  FlattenSeq(ss) = g[Len(ss)]
<1> DEFINE L == Len(ss)
           IsLoop(f) == f = [i \in 1..L |-> IF i = 1 THEN ss[i] ELSE f[i - 1] \o ss[i]]
<1>1. L \in Nat /\ \A n \in 1..L : ss[n] \in Seq(C)
    BY LenProperties, ElementOfSeq
<1>2. CASE L = 0
    <2>1. ss = <<>>
        BY <1>2, EmptySeq
    <2> QED BY <1>2, <2>1 DEF FlattenSeq
<1>3. CASE L # 0
    <2> DEFINE h == [i \in 1..L |-> g[i]]
    <2>1. g[1] = ss[1]
        <3>1. 1 \in 1..L /\ 1 - 1 = 0
            BY <1>1, <1>3
        <3>2. g[1] = <<>> \o ss[1]
            BY <3>1
        <3> QED BY <1>1, <3>1, <3>2, ConcatEmptySeq
    <2>2. IsLoop(h)
        <3>1. \A i \in 1..L : h[i] = IF i = 1 THEN ss[i] ELSE h[i - 1] \o ss[i]
            <4>1. SUFFICES ASSUME NEW i \in 1..L
                           PROVE  h[i] = IF i = 1 THEN ss[i] ELSE h[i - 1] \o ss[i]
                OBVIOUS
            <4>2. CASE i = 1
                BY <2>1, <4>2
            <4>3. CASE i # 1
                <5>1. i - 1 \in 1..L
                    BY <1>1, <4>3
                <5>2. h[i] = g[i] /\ h[i - 1] = g[i - 1]
                    BY <5>1
                <5>3. g[i] = g[i - 1] \o ss[i]
                    BY <4>1
                <5> QED BY <4>3, <5>2, <5>3, Zenon
            <4> QED BY <4>2, <4>3
        <3>2. h = [i \in 1..L |-> h[i]]
            OBVIOUS
        <3> HIDE DEF h
        <3> QED BY <3>1, <3>2
    <2> DEFINE f == CHOOSE u : IsLoop(u)
    <2>3. FlattenSeq(ss) = f[L]
        BY <1>3 DEF FlattenSeq
    <2>4. IsLoop(f)
        <3> HIDE DEF IsLoop, h
        <3> QED BY <2>2, Zenon
    <2> HIDE DEF f
    <2>5. \A i \in 1..L : f[i] = IF i = 1 THEN ss[i] ELSE f[i - 1] \o ss[i]
        BY <2>4
    <2> DEFINE S == {n \in 0..L : n # 0 => f[n] = g[n]}
    <2>6. 0 \in S
        BY <1>1
    <2>7. ASSUME NEW n \in 1..L, n - 1 \in S PROVE n \in S
        <3>1. CASE n = 1
            BY <2>1, <2>5, <3>1
        <3>2. CASE n # 1
            <4>1. f[n - 1] = g[n - 1]
                BY <2>7, <3>2
            <4>2. f[n] = f[n - 1] \o ss[n]
                BY <2>5, <3>2
            <4>3. g[n] = g[n - 1] \o ss[n]
                BY <2>7
            <4>4. f[n] = g[n]
                BY <4>1, <4>2, <4>3, Zenon
            <4>5. n \in 0..L
                BY <1>1, <2>7
            <4> QED BY <4>4, <4>5, Zenon
        <3> QED BY <3>1, <3>2
    <2>8. L \in S
        <3>1. L \in Nat /\ 0 \in S /\ \A n \in 1..L : n - 1 \in S => n \in S
            BY <1>1, <2>6, <2>7, Zenon
        <3> HIDE DEF S, L
        <3>2. \A n \in 0..L : n \in S
            BY <3>1, UpTo, Zenon
        <3> QED BY <3>1, <3>2
    <2> QED BY <1>3, <2>3, <2>8
<1> QED BY <1>2, <1>3

LEMMA FlattenRuns ==
    ASSUME NEW C, NEW ss \in Seq(Seq(C))
    PROVE  \E g : /\ g[0] = <<>>
                  /\ \A n \in 0..Len(ss) : g[n] \in Seq(C)
                  /\ \A n \in 1..Len(ss) : g[n] = g[n - 1] \o ss[n]
<1> DEFINE L == Len(ss)
           F == [n \in 1..L |-> [x \in Seq(C) |-> x \o ss[n]]]
<1>1. L \in Nat /\ (\A n \in 1..L : ss[n] \in Seq(C)) /\ <<>> \in Seq(C)
    BY LenProperties, ElementOfSeq, EmptySeq
<1>2. \A n \in 1..L, x \in Seq(C) : x \o ss[n] \in Seq(C)
    BY <1>1, ConcatProperties
<1>3. F \in [1..L -> [Seq(C) -> Seq(C)]]
    BY <1>2
<1>4. \A n \in 1..L, x \in Seq(C) : F[n][x] = x \o ss[n]
    OBVIOUS
<1> HIDE DEF L, F
<1>5. PICK g : g \in Loops(Seq(C), <<>>, L, F)
    <2>1. L \in Nat /\ <<>> \in Seq(C)
        BY <1>1
    <2> QED BY <2>1, <1>3, LoopExists, Zenon
<1>6. g \in [0..L -> Seq(C)] /\ g[0] = <<>> /\ \A n \in 1..L : g[n] = F[n][g[n - 1]]
    BY <1>5 DEF Loops
<1>7. \A n \in 0..L : g[n] \in Seq(C)
    BY <1>6
<1>8. \A n \in 1..L : g[n] = g[n - 1] \o ss[n]
    <2>1. \A n \in 1..L : g[n - 1] \in Seq(C)
        BY <1>1, <1>6
    <2> QED BY <2>1, <1>4, <1>6, Zenon
<1> QED BY <1>6, <1>7, <1>8 DEF L

\* Of the nonempty sets of natural numbers, each has a least element.
LEMMA MinIsLeast ==
    ASSUME NEW S, S \subseteq Nat, S # {}
    PROVE  Min(S) \in S /\ \A x \in S : Min(S) <= x
<1>1. PICK x \in S : \A y \in S : ~ (<<y, x>> \in OpToRel(<, Nat))
    BY NatLessThanWellFounded, WFMin
<1>2. ASSUME NEW y \in S PROVE x <= y
    <2>1. SUFFICES ASSUME y < x PROVE FALSE
        OBVIOUS
    <2>2. <<y, x>> \in OpToRel(<, Nat)
        BY <2>1 DEF OpToRel
    <2> QED BY <1>1, <2>2
<1> QED BY <1>2 DEF Min

LEMMA MaxIs ==
    ASSUME NEW S, S \subseteq Int, NEW x \in S, \A y \in S : y <= x
    PROVE  Max(S) = x
<1> DEFINE Largest(z) == z \in S /\ \A y \in S : z >= y
           m == CHOOSE z : Largest(z)
<1>1. Largest(x)
    OBVIOUS
<1>2. Largest(m)
    <2> HIDE DEF Largest
    <2> QED BY <1>1, Zenon
<1>3. Max(S) = m
    BY DEF Max
<1> HIDE DEF m
<1>4. m = x
    BY <1>1, <1>2
<1> QED BY <1>3, <1>4

-----------------------------------------------------------------------------
(* The first n parts of a text that is put together, and where they end.   *)

First(ss, n) == FlattenSeq(SubSeq(ss, 1, n))

LEMMA FirstFacts ==
    ASSUME NEW C, NEW ss \in Seq(Seq(C))
    PROVE  /\ First(ss, 0) = <<>>
           /\ First(ss, Len(ss)) = FlattenSeq(ss)
           /\ \A n \in 0..Len(ss) : First(ss, n) \in Seq(C)
           /\ \A n \in 1..Len(ss) : First(ss, n) = First(ss, n - 1) \o ss[n]
<1> DEFINE L == Len(ss)
<1>1. PICK g : /\ g[0] = <<>>
               /\ \A n \in 0..L : g[n] \in Seq(C)
               /\ \A n \in 1..L : g[n] = g[n - 1] \o ss[n]
    BY FlattenRuns, Zenon
<1>2. L \in Nat /\ \A i \in 1..L : ss[i] \in Seq(C)
    BY LenProperties, ElementOfSeq
<1>3. ASSUME NEW n \in 0..L PROVE First(ss, n) = g[n]
    <2> DEFINE t == SubSeq(ss, 1, n)
    <2>1. t \in Seq(Seq(C)) /\ Len(t) = n /\ \A i \in 1..n : t[i] = ss[i]
        <3>1. \A i \in 1..n : ss[i] \in Seq(C)
            BY <1>2
        <3> QED BY <1>2, <3>1, SubSeqProperties, 1 \in Int
    <2>2. First(ss, n) = FlattenSeq(t)
        BY DEF First
    <2> HIDE DEF t
    <2>3. /\ \A i \in 0..Len(t) : g[i] \in Seq(C)
          /\ \A i \in 1..Len(t) : g[i] = g[i - 1] \o t[i]
        <3>1. 0..n \subseteq 0..L /\ 1..n \subseteq 1..L
            BY <1>2
        <3> HIDE DEF L
        <3> QED BY <1>1, <2>1, <3>1, Zenon
    <2>4. FlattenSeq(t) = g[Len(t)]
        BY <1>1, <2>1, <2>3, FlattenLoop, Zenon
    <2> QED BY <2>1, <2>2, <2>4
<1>4. First(ss, L) = FlattenSeq(ss)
    <2>1. L \in 0..L
        BY <1>2
    <2>2. FlattenSeq(ss) = g[L]
        BY <1>1, FlattenLoop, Zenon
    <2> QED BY <1>3, <2>1, <2>2, Zenon
<1>5. 0 \in 0..L /\ \A n \in 1..L : n \in 0..L /\ n - 1 \in 0..L
    BY <1>2
<1> HIDE DEF L
<1>6. \A n \in 1..L : First(ss, n) = First(ss, n - 1) \o ss[n]
    BY <1>1, <1>3, <1>5, Zenon
<1>7. First(ss, 0) = <<>> /\ \A n \in 0..L : First(ss, n) \in Seq(C)
    BY <1>1, <1>3, <1>5, Zenon
<1> QED BY <1>4, <1>6, <1>7 DEF L

\* The text lies in b after the first at places.
Laid(b, at, text) ==
    at + Len(text) <= Len(b) /\ \A k \in 1..Len(text) : b[at + k] = text[k]

\* c is s and then t.
Splits(c, s, t) ==
    /\ Len(s) \in Nat /\ Len(t) \in Nat /\ Len(c) = Len(s) + Len(t)
    /\ \A k \in 1..Len(s) : c[k] = s[k]
    /\ \A k \in 1..Len(t) : c[Len(s) + k] = t[k]

LEMMA ConcatSplits ==
    ASSUME NEW C, NEW s \in Seq(C), NEW t \in Seq(C)
    PROVE  s \o t \in Seq(C) /\ Splits(s \o t, s, t)
BY LenProperties, ConcatProperties DEF Splits

LEMMA LaidConcat ==
    ASSUME NEW C, NEW b \in Seq(C), NEW s \in Seq(C), NEW t \in Seq(C), NEW at \in Nat,
           Laid(b, at, s \o t)
    PROVE  /\ Laid(b, at, s)
           /\ Laid(b, at + Len(s), t)
           /\ Len(s \o t) = Len(s) + Len(t)
<1> DEFINE c == s \o t
<1>1. Splits(c, s, t)
    BY ConcatSplits, Zenon
<1>2. Laid(b, at, c) /\ Len(b) \in Nat
    BY LenProperties
<1> HIDE DEF c
<1>3. Laid(b, at, s)
    BY <1>1, <1>2 DEF Laid, Splits
<1>4. Laid(b, at + Len(s), t)
    <2>1. ASSUME NEW k \in 1..Len(t) PROVE b[at + Len(s) + k] = t[k]
        <3>1. Len(s) + k \in 1..Len(c) /\ at + (Len(s) + k) = at + Len(s) + k
            BY <1>1 DEF Splits
        <3>2. c[Len(s) + k] = t[k]
            BY <1>1 DEF Splits
        <3> QED BY <1>2, <3>1, <3>2 DEF Laid
    <2>2. at + Len(s) + Len(t) <= Len(b)
        BY <1>1, <1>2 DEF Laid, Splits
    <2> QED BY <2>1, <2>2 DEF Laid
<1>5. Len(c) = Len(s) + Len(t)
    BY <1>1 DEF Splits
<1> QED BY <1>3, <1>4, <1>5 DEF c

\* b has s from at on and t after it.
Apart(b, at, s, t) ==
    Laid(b, at, s) /\ Laid(b, at + Len(s), t) /\ Len(s \o t) = Len(s) + Len(t)

LEMMA LaidApart ==
    ASSUME NEW C, NEW b \in Seq(C), NEW s \in Seq(C), NEW t \in Seq(C), NEW at \in Nat,
           Laid(b, at, s \o t)
    PROVE  Apart(b, at, s, t)
BY LaidConcat DEF Apart

LEMMA LaidParts ==
    ASSUME NEW C, NEW b \in Seq(C), NEW ss \in Seq(Seq(C)), NEW at \in Nat,
           Laid(b, at, FlattenSeq(ss))
    PROVE  /\ \A n \in 0..Len(ss) : Laid(b, at, First(ss, n))
           /\ \A n \in 1..Len(ss) :
                /\ Laid(b, at + Len(First(ss, n - 1)), ss[n])
                /\ Len(First(ss, n)) = Len(First(ss, n - 1)) + Len(ss[n])
<1> DEFINE L == Len(ss)
           S == {m \in 0..L : Laid(b, at, First(ss, L - m))}
<1>1. L \in Nat /\ \A n \in 1..L : ss[n] \in Seq(C)
    BY LenProperties, ElementOfSeq
<1>2. /\ First(ss, L) = FlattenSeq(ss)
      /\ \A n \in 0..L : First(ss, n) \in Seq(C)
      /\ \A n \in 1..L : First(ss, n) = First(ss, n - 1) \o ss[n]
    BY FirstFacts, Zenon
<1> HIDE DEF L
<1>3. ASSUME NEW n \in 1..L, Laid(b, at, First(ss, n))
      PROVE  /\ Laid(b, at, First(ss, n - 1))
             /\ Laid(b, at + Len(First(ss, n - 1)), ss[n])
             /\ Len(First(ss, n)) = Len(First(ss, n - 1)) + Len(ss[n])
    <2>1. n - 1 \in 0..L
        BY <1>1
    <2>2. First(ss, n - 1) \in Seq(C) /\ ss[n] \in Seq(C)
        BY <1>1, <1>2, <2>1, Zenon
    <2>3. Laid(b, at, First(ss, n - 1) \o ss[n])
        BY <1>2, <1>3, Zenon
    <2>4. First(ss, n) = First(ss, n - 1) \o ss[n]
        BY <1>2
    <2>5. /\ Laid(b, at, First(ss, n - 1))
          /\ Laid(b, at + Len(First(ss, n - 1)), ss[n])
          /\ Len(First(ss, n - 1) \o ss[n]) = Len(First(ss, n - 1)) + Len(ss[n])
        BY <2>2, <2>3, LaidConcat
    <2> QED BY <2>4, <2>5, Zenon
<1>4. 0 \in S
    <2>1. L - 0 = L /\ 0 \in 0..L
        BY <1>1
    <2> QED BY <1>2, <2>1, Zenon
<1>5. ASSUME NEW m \in 1..L, m - 1 \in S PROVE m \in S
    <2>1. L - (m - 1) \in 1..L /\ L - (m - 1) - 1 = L - m /\ m \in 0..L
        BY <1>1
    <2>2. Laid(b, at, First(ss, L - (m - 1)))
        BY <1>5
    <2> QED BY <1>3, <2>1, <2>2, Zenon
<1> HIDE DEF S
<1>6. \A m \in 0..L : m \in S
    BY <1>1, <1>4, <1>5, UpTo, Zenon
<1>7. ASSUME NEW n \in 0..L PROVE Laid(b, at, First(ss, n))
    <2>1. L - n \in 0..L /\ L - (L - n) = n
        BY <1>1
    <2>2. L - n \in S
        BY <1>6, <2>1
    <2>3. Laid(b, at, First(ss, L - (L - n)))
        BY <2>2 DEF S
    <2> QED BY <2>1, <2>3, Zenon
<1>8. \A n \in 1..L : n \in 0..L
    BY <1>1
<1>9. \A n \in 1..L : /\ Laid(b, at + Len(First(ss, n - 1)), ss[n])
                      /\ Len(First(ss, n)) = Len(First(ss, n - 1)) + Len(ss[n])
    BY <1>3, <1>7, <1>8, Zenon
<1> QED BY <1>7, <1>9 DEF L

-----------------------------------------------------------------------------
(* Where a search stops.                                                   *)

\* The part is in the text from place i on.
Here(text, part, i) ==
    i + Len(part) - 1 <= Len(text) /\ \A k \in 1..Len(part) : text[i + k - 1] = part[k]

LEMMA HereIsSubSeq ==
    ASSUME NEW C, NEW text \in Seq(C), NEW part \in Seq(C), part # <<>>,
           NEW i \in Nat \ {0}, i + Len(part) - 1 <= Len(text)
    PROVE  SubSeq(text, i, i + Len(part) - 1) = part <=> Here(text, part, i)
<1> DEFINE n == i + Len(part) - 1
           u == SubSeq(text, i, n)
<1>1. Len(part) \in Nat \ {0} /\ Len(text) \in Nat
    BY EmptySeq, LenProperties
<1>2. \A k \in 1..Len(text) : text[k] \in C
    BY ElementOfSeq
<1>3. n \in Int /\ i \in Int /\ i <= n /\ \A k \in i..n : text[k] \in C
    BY <1>1, <1>2
<1> HIDE DEF n
<1>4. u \in Seq(C) /\ Len(u) = n - i + 1 /\ \A k \in 1..(n - i + 1) : u[k] = text[i + k - 1]
    BY <1>3, SubSeqProperties
<1> HIDE DEF u
<1>5. Len(u) = Len(part)
    BY <1>1, <1>4 DEF n
<1>6. u = part <=> \A k \in 1..Len(part) : u[k] = part[k]
    BY <1>4, <1>5, SeqEqual
<1>7. \A k \in 1..Len(part) : u[k] = text[i + k - 1]
    BY <1>1, <1>4, <1>5
<1>8. u = part <=> Here(text, part, i)
    BY <1>6, <1>7 DEF Here
<1> QED BY <1>8 DEF u, n

LEMMA FindFacts ==
    ASSUME NEW C, NEW text \in Seq(C), NEW part \in Seq(C), part # <<>>,
           NEW from \in Nat \ {0}
    PROVE  \/ /\ Find(text, part, from) = 0
              /\ \A i \in Nat : i >= from => ~Here(text, part, i)
           \/ /\ Find(text, part, from) \in Nat /\ Find(text, part, from) >= from
              /\ Here(text, part, Find(text, part, from))
              /\ \A i \in Nat : i >= from /\ Here(text, part, i) => Find(text, part, from) <= i
<1> DEFINE at == {i \in from..(Len(text) - Len(part) + 1) :
                    SubSeq(text, i, i + Len(part) - 1) = part}
<1>1. Len(part) \in Nat \ {0} /\ Len(text) \in Nat
    BY EmptySeq, LenProperties
<1>2. ASSUME NEW i \in Nat, i >= from PROVE i \in at <=> Here(text, part, i)
    <2>1. CASE i + Len(part) - 1 <= Len(text)
        <3>1. SubSeq(text, i, i + Len(part) - 1) = part <=> Here(text, part, i)
            BY <1>2, <2>1, HereIsSubSeq
        <3>2. i \in from..(Len(text) - Len(part) + 1)
            BY <1>1, <1>2, <2>1
        <3> QED BY <3>1, <3>2
    <2>2. CASE ~(i + Len(part) - 1 <= Len(text))
        <3>1. i \notin from..(Len(text) - Len(part) + 1)
            BY <1>1, <1>2, <2>2
        <3> QED BY <2>2, <3>1 DEF Here
    <2> QED BY <2>1, <2>2
<1>3. Find(text, part, from) = IF at = {} THEN 0 ELSE Min(at)
    BY DEF Find
<1>4. at \subseteq Nat /\ \A i \in at : i >= from
    BY <1>1
<1> HIDE DEF at
<1>5. CASE at = {}
    BY <1>2, <1>3, <1>5
<1>6. CASE at # {}
    <2>1. Min(at) \in at /\ \A i \in at : Min(at) <= i
        BY <1>4, <1>6, MinIsLeast
    <2> QED BY <1>2, <1>3, <1>4, <1>6, <2>1
<1> QED BY <1>5, <1>6

\* All characters of an answer.
Sign == Byte \cup {"CR", "LF", "ext", HTTP} \cup {Digits[d] : d \in 1..16}

LEMMA OneSign ==
    ASSUME NEW C, NEW c \in C
    PROVE  <<c>> \in Seq(C) /\ Len(<<c>>) = 1 /\ <<c>>[1] = c
OBVIOUS

LEMMA CRLFFacts ==
    CRLF \in Seq(Sign) /\ CRLF # <<>> /\ Len(CRLF) = 2 /\ CRLF[1] = "CR" /\ CRLF[2] = "LF"
<1>1. "CR" \in Sign /\ "LF" \in Sign
    BY DEF Sign
<1> HIDE DEF Sign
<1> QED BY <1>1 DEF CRLF

LEMMA Doubled ==
    ASSUME NEW C, NEW s \in Seq(C), Len(s) = 2
    PROVE  /\ s \o s \in Seq(C) /\ Len(s \o s) = 4
           /\ (s \o s)[1] = s[1] /\ (s \o s)[2] = s[2] /\ (s \o s)[3] = s[1] /\ (s \o s)[4] = s[2]
<1> DEFINE c == s \o s
<1>1. c \in Seq(C) /\ Splits(c, s, s)
    BY ConcatSplits, Zenon
<1> HIDE DEF c
<1>2. Len(c) = 4 /\ c[1] = s[1] /\ c[2] = s[2] /\ c[2 + 1] = s[1] /\ c[2 + 2] = s[2]
    BY <1>1 DEF Splits
<1> QED BY <1>1, <1>2 DEF c

LEMMA BlankFacts ==
    /\ CRLF \o CRLF \in Seq(Sign) /\ CRLF \o CRLF # <<>> /\ Len(CRLF \o CRLF) = 4
    /\ (CRLF \o CRLF)[1] = "CR" /\ (CRLF \o CRLF)[2] = "LF"
    /\ (CRLF \o CRLF)[3] = "CR" /\ (CRLF \o CRLF)[4] = "LF"
<1> DEFINE b == CRLF \o CRLF
<1>1. /\ b \in Seq(Sign) /\ Len(b) = 4
      /\ b[1] = CRLF[1] /\ b[2] = CRLF[2] /\ b[3] = CRLF[1] /\ b[4] = CRLF[2]
    BY CRLFFacts, Doubled, Zenon
<1> HIDE DEF b
<1>2. b # <<>>
    BY <1>1, EmptySeq
<1>3. b[1] = "CR" /\ b[2] = "LF" /\ b[3] = "CR" /\ b[4] = "LF"
    BY <1>1, CRLFFacts, Zenon
<1> QED BY <1>1, <1>2, <1>3 DEF b

-----------------------------------------------------------------------------
(* Numerals, and what the parsers read of them.                            *)

\* The place of a digit, and 0 for other characters.
Rank(c) ==
    CASE c = "0" -> 1 [] c = "1" -> 2 [] c = "2" -> 3 [] c = "3" -> 4
      [] c = "4" -> 5 [] c = "5" -> 6 [] c = "6" -> 7 [] c = "7" -> 8
      [] c = "8" -> 9 [] c = "9" -> 10 [] c = "a" -> 11 [] c = "b" -> 12
      [] c = "c" -> 13 [] c = "d" -> 14 [] c = "e" -> 15 [] c = "f" -> 16
      [] OTHER -> 0

LEMMA RankOfDigit ==
    \A d \in 1..16 : Rank(Digits[d]) = d
<1>1. /\ Digits[1] = "0" /\ Digits[2] = "1" /\ Digits[3] = "2" /\ Digits[4] = "3"
      /\ Digits[5] = "4" /\ Digits[6] = "5" /\ Digits[7] = "6" /\ Digits[8] = "7"
      /\ Digits[9] = "8" /\ Digits[10] = "9" /\ Digits[11] = "a" /\ Digits[12] = "b"
      /\ Digits[13] = "c" /\ Digits[14] = "d" /\ Digits[15] = "e" /\ Digits[16] = "f"
    BY DEF Digits
<1>2. /\ Rank("0") = 1 /\ Rank("1") = 2 /\ Rank("2") = 3 /\ Rank("3") = 4
      /\ Rank("4") = 5 /\ Rank("5") = 6 /\ Rank("6") = 7 /\ Rank("7") = 8
      /\ Rank("8") = 9 /\ Rank("9") = 10 /\ Rank("a") = 11 /\ Rank("b") = 12
      /\ Rank("c") = 13 /\ Rank("d") = 14 /\ Rank("e") = 15 /\ Rank("f") = 16
    BY DEF Rank
<1>3. /\ Rank(Digits[1]) = 1 /\ Rank(Digits[2]) = 2 /\ Rank(Digits[3]) = 3 /\ Rank(Digits[4]) = 4
      /\ Rank(Digits[5]) = 5 /\ Rank(Digits[6]) = 6 /\ Rank(Digits[7]) = 7 /\ Rank(Digits[8]) = 8
      /\ Rank(Digits[9]) = 9 /\ Rank(Digits[10]) = 10 /\ Rank(Digits[11]) = 11 /\ Rank(Digits[12]) = 12
      /\ Rank(Digits[13]) = 13 /\ Rank(Digits[14]) = 14 /\ Rank(Digits[15]) = 15 /\ Rank(Digits[16]) = 16
    BY <1>1, <1>2, ZenonT(60)
<1> HIDE DEF Digits, Rank
<1> QED BY <1>3

LEMMA NoDigit ==
    \A d \in 1..16 : Digits[d] \notin {"CR", "LF", "ext", HTTP}
<1>1. Rank("CR") = 0 /\ Rank("LF") = 0 /\ Rank("ext") = 0 /\ Rank(HTTP) = 0
    BY DEF Rank, HTTP
<1> SUFFICES ASSUME NEW d \in 1..16 PROVE Digits[d] \notin {"CR", "LF", "ext", HTTP}
    OBVIOUS
<1>2. Rank(Digits[d]) # 0
    BY RankOfDigit
<1>3. Digits[d] # "CR" /\ Digits[d] # "LF" /\ Digits[d] # "ext" /\ Digits[d] # HTTP
    BY <1>1, <1>2, Zenon
<1> QED BY <1>3, Zenon

LEMMA DigitValues ==
    \A d \in 1..16 : DigitValue(Digits[d]) = d - 1
<1> SUFFICES ASSUME NEW d \in 1..16 PROVE DigitValue(Digits[d]) = d - 1
    OBVIOUS
<1> DEFINE e == CHOOSE e \in 1..16 : Digits[e] = Digits[d]
<1>1. e \in 1..16 /\ Digits[e] = Digits[d]
    OBVIOUS
<1>2. DigitValue(Digits[d]) = e - 1
    BY DEF DigitValue
<1> HIDE DEF e
<1>3. e = d
    BY <1>1, RankOfDigit
<1> QED BY <1>2, <1>3

LEMMA Quotients ==
    ASSUME NEW base \in {10, 16}, NEW m \in Nat
    PROVE  /\ m \div base \in Nat /\ m % base \in 0..(base - 1)
           /\ m = base * (m \div base) + (m % base)
           /\ m < base => m % base = m
           /\ ~(m < base) => m \div base < m
<1>1. CASE base = 10
    BY <1>1
<1>2. CASE base = 16
    BY <1>2
<1> QED BY <1>1, <1>2

\* f prints the numbers up to n.
Printed(f, n, base) ==
    f = [m \in 0..n |-> IF m < base THEN <<Digits[(m % base) + 1]>>
                        ELSE Append(f[m \div base], Digits[(m % base) + 1])]

LEMMA PrintedExists ==
    ASSUME NEW base \in {10, 16}, NEW n \in Nat
    PROVE  \E f : Printed(f, n, base)
<1> DEFINE S == {L \in 0..n : \E f : Printed(f, L, base)}
           D(m) == Digits[(m % base) + 1]
<1>1. 0 \in S
    <2> DEFINE f == [m \in 0..0 |-> <<D(m)>>]
    <2>1. \A m \in 0..0 : m < base
        OBVIOUS
    <2>2. Printed(f, 0, base)
        BY <2>1 DEF Printed
    <2> QED BY <2>2
<1>2. ASSUME NEW L \in 1..n, L - 1 \in S PROVE L \in S
    <2>1. PICK g : Printed(g, L - 1, base)
        BY <1>2
    <2> HIDE DEF D
    <2>2. \A m \in 0..(L - 1) : g[m] = IF m < base THEN <<D(m)>> ELSE Append(g[m \div base], D(m))
        BY <2>1 DEF Printed, D
    <2> DEFINE q == L \div base
               h == [m \in 0..L |-> IF m = L THEN (IF L < base THEN <<D(L)>> ELSE Append(g[q], D(L)))
                                             ELSE g[m]]
    <2>3. ASSUME NEW m \in 0..L PROVE h[m] = IF m < base THEN <<D(m)>> ELSE Append(h[m \div base], D(m))
        <3>1. m \div base \in Nat /\ (~(m < base) => m \div base < m)
            BY <2>3, Quotients
        <3>2. ~(m < base) => m \div base \in 0..(L - 1) /\ m \div base # L /\ m \div base \in 0..L
            BY <3>1, <2>3
        <3>3. ~(m < base) => h[m \div base] = g[m \div base]
            BY <3>2
        <3>4. CASE m = L
            BY <3>3, <3>4
        <3>5. CASE m # L
            <4>1. m \in 0..(L - 1) /\ h[m] = g[m]
                BY <2>3, <3>5
            <4> HIDE DEF h
            <4> QED BY <2>2, <3>3, <4>1
        <3> QED BY <3>4, <3>5
    <2>4. h = [m \in 0..L |-> h[m]]
        OBVIOUS
    <2> HIDE DEF h
    <2>5. Printed(h, L, base)
        BY <2>3, <2>4 DEF Printed, D
    <2> QED BY <2>5
<1> HIDE DEF S
<1>3. n \in S
    <2>1. \A L \in 0..n : L \in S
        BY <1>1, <1>2, UpTo, Zenon
    <2> QED BY <2>1
<1> QED BY <1>3 DEF S

LEMMA NumeralIs ==
    ASSUME NEW base \in {10, 16}, NEW n \in Nat
    PROVE  \E f : Printed(f, n, base) /\ Numeral(n, base) = f[n]
<1> DEFINE IsLoop(f) == f = [m \in 0..n |->
                               IF m < base THEN <<Digits[(m % base) + 1]>>
                               ELSE Append(f[m \div base], Digits[(m % base) + 1])]
           f == CHOOSE f : IsLoop(f)
<1>1. Numeral(n, base) = f[n]
    BY DEF Numeral
<1>2. \A g : IsLoop(g) <=> Printed(g, n, base)
    BY DEF Printed
<1> HIDE DEF IsLoop
<1>3. \E g : IsLoop(g)
    BY <1>2, PrintedExists
<1>4. IsLoop(f)
    BY <1>3, Zenon
<1> QED BY <1>1, <1>2, <1>4, Zenon

IsNumeral(num, base) ==
    /\ num \in Seq(Sign)
    /\ Len(num) \in Nat \ {0}
    /\ \A i \in 1..Len(num) : \E d \in 1..base : num[i] = Digits[d]

\* The loop of strtoul over num, as long as there are digits.
AddsUp(g, num, base) ==
    g[0] = 0 /\ \A i \in 1..Len(num) : g[i] = base * g[i - 1] + DigitValue(num[i])

\* num is a numeral, and adds up to n.
Reads(num, n, base) ==
    IsNumeral(num, base) /\ \A g : AddsUp(g, num, base) => g[Len(num)] = n

LEMMA OneDigit ==
    ASSUME NEW base \in {10, 16}, NEW d \in 1..base
    PROVE  Reads(<<Digits[d]>>, d - 1, base)
<1> DEFINE c == Digits[d]
           w == <<c>>
<1>1. c \in Sign /\ DigitValue(c) = d - 1
    <2>1. d \in 1..16
        OBVIOUS
    <2> QED BY <2>1, DigitValues DEF Sign
<1>2. \E e \in 1..base : c = Digits[e]
    OBVIOUS
<1> HIDE DEF c
<1>3. w \in Seq(Sign) /\ Len(w) = 1 /\ w[1] = c
    BY <1>1, OneSign
<1> HIDE DEF w
<1>4. IsNumeral(w, base)
    BY <1>2, <1>3 DEF IsNumeral
<1>5. ASSUME NEW g, AddsUp(g, w, base) PROVE g[Len(w)] = d - 1
    <2>1. g[0] = 0 /\ g[1] = base * g[1 - 1] + DigitValue(c)
        BY <1>3, <1>5 DEF AddsUp
    <2> QED BY <1>1, <1>3, <2>1
<1> QED BY <1>4, <1>5 DEF Reads, w, c

LEMMA OneDigitMore ==
    ASSUME NEW base \in {10, 16}, NEW num, NEW n \in Nat, Reads(num, n, base), NEW d \in 1..base
    PROVE  Reads(Append(num, Digits[d]), base * n + (d - 1), base)
<1> DEFINE c == Digits[d]
           w == Append(num, c)
           L == Len(num)
<1>1. c \in Sign /\ DigitValue(c) = d - 1
    <2>1. d \in 1..16
        OBVIOUS
    <2> QED BY <2>1, DigitValues DEF Sign
<1>2. \E e \in 1..base : c = Digits[e]
    OBVIOUS
<1> HIDE DEF c
<1>3. /\ num \in Seq(Sign) /\ L \in Nat \ {0}
      /\ \A i \in 1..L : \E e \in 1..base : num[i] = Digits[e]
      /\ \A g : AddsUp(g, num, base) => g[L] = n
    BY DEF Reads, IsNumeral
<1>4. w \in Seq(Sign) /\ Len(w) = L + 1 /\ w[L + 1] = c /\ \A i \in 1..L : w[i] = num[i]
    BY <1>1, <1>3, AppendProperties
<1> HIDE DEF w
<1>5. IsNumeral(w, base)
    <2>1. ASSUME NEW i \in 1..(L + 1) PROVE \E e \in 1..base : w[i] = Digits[e]
        <3>1. CASE i = L + 1
            BY <1>2, <1>4, <3>1
        <3>2. CASE i # L + 1
            <4>1. i \in 1..L
                BY <1>3, <3>2
            <4> QED BY <1>3, <1>4, <4>1
        <3> QED BY <3>1, <3>2
    <2> HIDE DEF L
    <2> QED BY <1>3, <1>4, <2>1 DEF IsNumeral
<1>6. ASSUME NEW g, AddsUp(g, w, base) PROVE g[Len(w)] = base * n + (d - 1)
    <2>1. g[0] = 0 /\ \A i \in 1..(L + 1) : g[i] = base * g[i - 1] + DigitValue(w[i])
        BY <1>4, <1>6 DEF AddsUp
    <2>2. \A i \in 1..L : i \in 1..(L + 1) /\ w[i] = num[i]
        BY <1>3, <1>4
    <2>3. AddsUp(g, num, base)
        BY <2>1, <2>2 DEF AddsUp
    <2>4. g[L] = n
        BY <1>3, <2>3, Zenon
    <2>5. L + 1 \in 1..(L + 1) /\ (L + 1) - 1 = L
        BY <1>3
    <2>6. g[L + 1] = base * g[L] + DigitValue(c)
        BY <1>4, <2>1, <2>5
    <2> QED BY <1>1, <1>4, <2>4, <2>6
<1> QED BY <1>5, <1>6 DEF Reads, w, c

\* A numeral is read as the number that it was made from.
LEMMA NumeralText ==
    ASSUME NEW base \in {10, 16}, NEW n \in Nat
    PROVE  Reads(Numeral(n, base), n, base)
<1>1. PICK f : Printed(f, n, base) /\ Numeral(n, base) = f[n]
    BY NumeralIs
<1>2. \A m \in 0..n : f[m] = IF m < base THEN <<Digits[(m % base) + 1]>>
                             ELSE Append(f[m \div base], Digits[(m % base) + 1])
    BY <1>1 DEF Printed
<1> DEFINE S == {L \in 0..n : \A m \in 0..L : Reads(f[m], m, base)}
<1>3. ASSUME NEW m \in 0..n, \A k \in 0..n : k < m => Reads(f[k], k, base) PROVE Reads(f[m], m, base)
    <2> DEFINE d == (m % base) + 1
               q == m \div base
    <2>1. /\ q \in Nat /\ d \in 1..base /\ m = base * q + (d - 1)
          /\ m < base => m = d - 1
          /\ ~(m < base) => q < m /\ q \in 0..n
        <3>1. /\ m \div base \in Nat /\ m % base \in 0..(base - 1)
              /\ m = base * (m \div base) + (m % base)
              /\ m < base => m % base = m
              /\ ~(m < base) => m \div base < m
            BY <1>3, Quotients
        <3> QED BY <1>3, <3>1
    <2>2. f[m] = IF m < base THEN <<Digits[d]>> ELSE Append(f[q], Digits[d])
        BY <1>2, <1>3
    <2> HIDE DEF d, q
    <2>3. CASE m < base
        BY <2>1, <2>2, <2>3, OneDigit
    <2>4. CASE ~(m < base)
        <3>1. Reads(f[q], q, base)
            BY <1>3, <2>1, <2>4
        <3>2. Reads(Append(f[q], Digits[d]), base * q + (d - 1), base)
            BY <2>1, <3>1, OneDigitMore
        <3> QED BY <2>1, <2>2, <2>4, <3>2, Zenon
    <2> QED BY <2>3, <2>4
<1>4. 0 \in S
    <2>1. \A k \in 0..n : ~(k < 0)
        OBVIOUS
    <2>2. 0 \in 0..n
        OBVIOUS
    <2>3. Reads(f[0], 0, base)
        BY <1>3, <2>1, <2>2, Zenon
    <2>4. \A m \in 0..0 : m = 0
        OBVIOUS
    <2> QED BY <2>2, <2>3, <2>4
<1>5. ASSUME NEW L \in 1..n, L - 1 \in S PROVE L \in S
    <2>1. \A k \in 0..n : k < L => k \in 0..(L - 1)
        OBVIOUS
    <2>2. \A k \in 0..n : k < L => Reads(f[k], k, base)
        BY <1>5, <2>1
    <2>3. L \in 0..n
        OBVIOUS
    <2>4. Reads(f[L], L, base)
        BY <1>3, <2>2, <2>3, Zenon
    <2>5. \A k \in 0..L : k = L \/ (k \in 0..n /\ k < L)
        OBVIOUS
    <2> QED BY <2>2, <2>3, <2>4, <2>5
<1> HIDE DEF S
<1>6. n \in S
    <2>1. \A L \in 0..n : L \in S
        BY <1>4, <1>5, UpTo, Zenon
    <2> QED BY <2>1
<1>7. Reads(f[n], n, base)
    BY <1>6, n \in 0..n DEF S
<1> QED BY <1>1, <1>7

\* The runs of the loop of strtoul over the first k characters of text.
Summed(f, k, base, text) ==
    f = [m \in 0..k |-> IF m = 0 THEN 0 ELSE base * f[m - 1] + DigitValue(text[m])]

LEMMA SumExists ==
    ASSUME NEW base \in {10, 16}, NEW k \in Nat, NEW text,
           \A m \in 1..k : DigitValue(text[m]) \in Nat
    PROVE  \E f : Summed(f, k, base, text)
<1> DEFINE F == [m \in 1..k |-> [v \in Nat |-> base * v + DigitValue(text[m])]]
<1>1. F \in [1..k -> [Nat -> Nat]]
    <2>1. SUFFICES ASSUME NEW m \in 1..k, NEW v \in Nat PROVE base * v + DigitValue(text[m]) \in Nat
        OBVIOUS
    <2>2. base * v \in Nat
        OBVIOUS
    <2> QED BY <2>2
<1>2. \A m \in 1..k, v \in Nat : F[m][v] = base * v + DigitValue(text[m])
    OBVIOUS
<1> HIDE DEF F
<1>3. PICK g : g \in Loops(Nat, 0, k, F)
    BY <1>1, 0 \in Nat, LoopExists, Zenon
<1>4. g \in [0..k -> Nat] /\ g[0] = 0 /\ \A m \in 1..k : g[m] = F[m][g[m - 1]]
    BY <1>3 DEF Loops
<1>5. ASSUME NEW m \in 0..k PROVE g[m] = IF m = 0 THEN 0 ELSE base * g[m - 1] + DigitValue(text[m])
    <2>1. CASE m = 0
        BY <1>4, <2>1
    <2>2. CASE m # 0
        <3>1. m \in 1..k /\ m - 1 \in 0..k
            BY <2>2
        <3>2. g[m - 1] \in Nat
            BY <1>4, <3>1
        <3> QED BY <1>2, <1>4, <2>2, <3>1, <3>2
    <2> QED BY <2>1, <2>2
<1>6. g = [m \in 0..k |-> g[m]]
    BY <1>4
<1>7. Summed(g, k, base, text)
    BY <1>5, <1>6 DEF Summed
<1> QED BY <1>7

\* A numeral is read as what it was made from, whatever follows it that is
\* not a digit.
LEMMA NumberReads ==
    ASSUME NEW base \in {10, 16}, NEW n \in Nat,
           NEW text \in Seq(Sign), Laid(text, 0, Numeral(n, base)),
           \/ Len(text) = Len(Numeral(n, base))
           \/ \A d \in 1..16 : Digits[d] # text[Len(Numeral(n, base)) + 1]
    PROVE  Number(text, base) = n
<1> DEFINE num == Numeral(n, base)
           k == Len(num)
<1>1. Reads(num, n, base)
    BY NumeralText
<1> HIDE DEF Digits
<1>2. k \in Nat \ {0} /\ \A i \in 1..k : \E d \in 1..base : num[i] = Digits[d]
    BY <1>1 DEF Reads, IsNumeral
<1>3. Len(text) \in Nat /\ Len(text) >= k /\ \A m \in 1..k : text[0 + m] = num[m]
    BY <1>2, LenProperties DEF Laid
<1>4. \A m \in 1..k : text[m] = num[m]
    <2>1. \A m \in 1..k : 0 + m = m
        BY <1>2
    <2> QED BY <1>3, <2>1
<1>5. Len(text) = k \/ \A d \in 1..16 : Digits[d] # text[k + 1]
    OBVIOUS
<1> HIDE DEF num, k
<1> DEFINE IsDigit(ch) == \E d \in 1..base : Digits[d] = ch
           S == {m \in 0..Len(text) : \A i \in 1..m : IsDigit(text[i])}
<1>6. Max(S) = k
    <2>1. k \in S
        <3>1. ASSUME NEW i \in 1..k PROVE IsDigit(text[i])
            BY <1>2, <1>4, <3>1, ZenonT(60)
        <3> HIDE DEF IsDigit
        <3> QED BY <1>2, <1>3, <3>1, SMTT(30)
    <2>2. ASSUME NEW m \in S PROVE m <= k
        <3>1. SUFFICES ASSUME m > k PROVE FALSE
            BY <1>2, <1>3
        <3>2. k + 1 \in 1..m /\ Len(text) # k
            BY <1>2, <1>3, <3>1
        <3>3. IsDigit(text[k + 1])
            BY <3>2
        <3>4. PICK d \in 1..base : Digits[d] = text[k + 1]
            BY <3>3
        <3>5. d \in 1..16
            OBVIOUS
        <3> QED BY <1>5, <3>2, <3>4, <3>5, Zenon
    <2> HIDE DEF IsDigit
    <2>3. S \subseteq Int
        OBVIOUS
    <2> HIDE DEF S
    <2> QED BY <2>1, <2>2, <2>3, MaxIs
<1> DEFINE IsLoop(f) == f = [m \in 0..Max(S) |->
                               IF m = 0 THEN 0 ELSE base * f[m - 1] + DigitValue(text[m])]
           f == CHOOSE f : IsLoop(f)
<1>7. Number(text, base) = IF Max(S) = 0 THEN NotANumber ELSE f[Max(S)]
    BY DEF Number
<1>8. \A g : IsLoop(g) <=> Summed(g, k, base, text)
    <2> HIDE DEF S
    <2> QED BY <1>6 DEF Summed
<1> HIDE DEF S, IsLoop
<1>9. \A m \in 1..k : DigitValue(text[m]) \in Nat
    <2>1. SUFFICES ASSUME NEW m \in 1..k PROVE DigitValue(text[m]) \in Nat
        OBVIOUS
    <2>2. PICK d \in 1..base : num[m] = Digits[d]
        BY <1>2
    <2>3. d \in 1..16
        OBVIOUS
    <2>4. DigitValue(Digits[d]) = d - 1
        BY <2>3, DigitValues
    <2> QED BY <1>4, <2>2, <2>3, <2>4
<1>10. Summed(f, k, base, text)
    <2>1. \E g : IsLoop(g)
        BY <1>2, <1>8, <1>9, SumExists
    <2>2. IsLoop(f)
        BY <2>1, Zenon
    <2> QED BY <1>8, <2>2, Zenon
<1> HIDE DEF f
<1>11. AddsUp(f, num, base)
    <2>1. \A m \in 0..k : f[m] = IF m = 0 THEN 0 ELSE base * f[m - 1] + DigitValue(text[m])
        BY <1>10 DEF Summed
    <2>2. f[0] = 0 /\ \A m \in 1..k : f[m] = base * f[m - 1] + DigitValue(text[m])
        BY <1>2, <2>1
    <2> QED BY <1>4, <2>2 DEF AddsUp, k
<1>12. f[k] = n
    BY <1>1, <1>11, Zenon DEF Reads, k
<1> QED BY <1>2, <1>6, <1>7, <1>12

-----------------------------------------------------------------------------
(* Lines.  cr and lf are any two marks here.                               *)

\* What has arrived of b.
Begins(text, b) ==
    Len(text) \in Nat /\ Len(b) \in Nat /\ Len(text) <= Len(b)
    /\ \A k \in 1..Len(text) : text[k] = b[k]

\* The first line break of b from a place on ends at e.
BreakAt(b, from, e, cr, lf) ==
    /\ from \in Nat \ {0} /\ e \in Nat /\ from < e /\ e <= Len(b)
    /\ b[e - 1] = cr /\ b[e] = lf
    /\ \A p \in from..(e - 1) : b[p] # lf

\* Rows of b end at h[0], ..., h[m], none of them is empty, and then there
\* is an empty one.
Rows(b, h, m, cr, lf) ==
    /\ m \in Nat /\ h \in [0..m -> Nat]
    /\ h[m] + 2 <= Len(b) /\ b[h[m] + 1] = cr /\ b[h[m] + 2] = lf
    /\ BreakAt(b, 1, h[0], cr, lf)
    /\ \A k \in 1..m : BreakAt(b, h[k - 1] + 1, h[k], cr, lf) /\ b[h[k - 1] + 1] # cr

\* The rows are in order.
LEMMA RowsRise ==
    ASSUME NEW b, NEW h, NEW m, NEW cr, NEW lf, Rows(b, h, m, cr, lf)
    PROVE  \A k \in 0..m : h[0] <= h[k] /\ h[k] <= h[m] /\ (k # m => h[k] + 3 <= h[m])
<1>1. m \in Nat /\ h \in [0..m -> Nat] /\ \A k \in 1..m : h[k - 1] + 1 < h[k]
    BY DEF Rows, BreakAt
<1>2. \A k \in 1..m : b[h[k - 1] + 1] # cr /\ b[h[k] - 1] = cr
    BY DEF Rows, BreakAt
<1>3. \A k \in 1..m : h[k - 1] + 3 <= h[k]
    <2>1. SUFFICES ASSUME NEW k \in 1..m PROVE h[k - 1] + 3 <= h[k]
        OBVIOUS
    <2>2. h[k - 1] \in Nat /\ h[k] \in Nat /\ h[k - 1] + 1 < h[k]
        BY <1>1
    <2>3. h[k - 1] + 1 # h[k] - 1
        BY <1>2, Zenon
    <2> QED BY <2>2, <2>3
<1> DEFINE S == {k \in 0..m : h[0] <= h[k]}
           T == {k \in 0..m : h[m - k] <= h[m] /\ (k # 0 => h[m - k] + 3 <= h[m])}
<1>4. \A k \in 0..m : k \in S
    <2>1. 0 \in S
        BY <1>1
    <2>2. ASSUME NEW k \in 1..m, k - 1 \in S PROVE k \in S
        <3>1. h[k - 1] \in Nat /\ h[k] \in Nat /\ h[0] \in Nat
            BY <1>1
        <3> QED BY <1>3, <2>2, <3>1
    <2> HIDE DEF S
    <2> QED BY <1>1, <2>1, <2>2, UpTo, Zenon
<1>5. \A k \in 0..m : k \in T
    <2>1. 0 \in T
        BY <1>1
    <2>2. ASSUME NEW k \in 1..m, k - 1 \in T PROVE k \in T
        <3>1. m - k \in 0..m /\ m - k + 1 \in 1..m /\ (m - k + 1) - 1 = m - k /\ m - (k - 1) = m - k + 1
            BY <1>1
        <3>2. h[m - k] \in Nat /\ h[m - k + 1] \in Nat /\ h[m] \in Nat
            BY <1>1, <3>1
        <3>3. h[m - k] + 3 <= h[m - k + 1]
            BY <1>3, <3>1, Zenon
        <3>4. h[m - k + 1] <= h[m]
            BY <2>2, <3>1
        <3> QED BY <3>2, <3>3, <3>4
    <2> HIDE DEF T
    <2> QED BY <1>1, <2>1, <2>2, UpTo, Zenon
<1>6. ASSUME NEW k \in 0..m PROVE h[0] <= h[k] /\ h[k] <= h[m] /\ (k # m => h[k] + 3 <= h[m])
    <2>1. m - k \in 0..m /\ m - (m - k) = k
        BY <1>1
    <2>2. m - k \in T /\ k \in S
        BY <1>4, <1>5, <2>1
    <2> QED BY <1>1, <2>1, <2>2
<1> QED BY <1>6

\* Every line end among the rows ends one of them.
LEMMA RowEnds ==
    ASSUME NEW b, NEW h, NEW m, NEW cr, NEW lf, Rows(b, h, m, cr, lf),
           NEW p \in Nat, 1 <= p, p <= h[m], b[p] = lf
    PROVE  \E k \in 0..m : p = h[k]
<1>1. m \in Nat /\ h \in [0..m -> Nat]
    BY DEF Rows
<1> DEFINE S == {k \in 0..m : p <= h[k] => \E j \in 0..m : p = h[j]}
<1>2. 0 \in S
    <2>1. ASSUME p <= h[0] PROVE p = h[0]
        <3>1. \A q \in 1..(h[0] - 1) : b[q] # lf
            BY DEF Rows, BreakAt
        <3>2. h[0] \in Nat
            BY <1>1
        <3> QED BY <2>1, <3>1, <3>2
    <2> QED BY <1>1, <2>1
<1>3. ASSUME NEW k \in 1..m, k - 1 \in S PROVE k \in S
    <2>1. CASE p <= h[k - 1]
        BY <1>3, <2>1
    <2>2. CASE ~(p <= h[k - 1])
        <3>1. ASSUME p <= h[k] PROVE p = h[k]
            <4>1. \A q \in (h[k - 1] + 1)..(h[k] - 1) : b[q] # lf
                BY DEF Rows, BreakAt
            <4>2. h[k] \in Nat /\ h[k - 1] \in Nat
                BY <1>1
            <4> QED BY <2>2, <3>1, <4>1, <4>2
        <3>2. k \in 0..m
            OBVIOUS
        <3> QED BY <3>1, <3>2
    <2> QED BY <2>1, <2>2
<1>4. m \in S
    <2> HIDE DEF S
    <2>1. \A k \in 0..m : k \in S
        BY <1>1, <1>2, <1>3, UpTo, Zenon
    <2> QED BY <1>1, <2>1
<1> QED BY <1>4

\* The places of marks in what has arrived.
LEMMA HereCRLF ==
    ASSUME NEW text, NEW i \in Nat \ {0}, Len(text) \in Nat
    PROVE  Here(text, CRLF, i) <=> i + 1 <= Len(text) /\ text[i] = "CR" /\ text[i + 1] = "LF"
<1>1. Len(CRLF) = 2 /\ CRLF[1] = "CR" /\ CRLF[2] = "LF"
    BY CRLFFacts, Zenon
<1> DEFINE c == CRLF
           r == "CR"
           n == "LF"
<1>2. Len(c) = 2 /\ c[1] = r /\ c[2] = n
    BY <1>1
<1> HIDE DEF c, r, n
<1>3. Here(text, c, i) <=> i + 1 <= Len(text) /\ text[i] = r /\ text[i + 1] = n
    BY <1>2 DEF Here
<1> QED BY <1>3 DEF c, r, n

LEMMA HereBlank ==
    ASSUME NEW text, NEW i \in Nat \ {0}, Len(text) \in Nat
    PROVE  Here(text, CRLF \o CRLF, i) <=>
             /\ i + 3 <= Len(text) /\ text[i] = "CR" /\ text[i + 1] = "LF"
             /\ text[i + 2] = "CR" /\ text[i + 3] = "LF"
<1> DEFINE c == CRLF \o CRLF
           r == "CR"
           n == "LF"
<1>1. Len(c) = 4 /\ c[1] = r /\ c[2] = n /\ c[3] = r /\ c[4] = n
    BY BlankFacts, Zenon
<1> HIDE DEF c, r, n
<1>2. Here(text, c, i) <=> /\ i + 3 <= Len(text) /\ text[i] = r /\ text[i + 1] = n
                           /\ text[i + 2] = r /\ text[i + 3] = n
    BY <1>1 DEF Here
<1> QED BY <1>2 DEF c, r, n

LEMMA HereOne ==
    ASSUME NEW text, NEW i \in Nat \ {0}, Len(text) \in Nat, NEW C, NEW c \in C
    PROVE  Here(text, <<c>>, i) <=> i <= Len(text) /\ text[i] = c
<1> DEFINE w == <<c>>
<1>1. Len(w) = 1 /\ w[1] = c
    BY OneSign
<1> HIDE DEF w
<1>2. Here(text, w, i) <=> i <= Len(text) /\ text[i] = c
    BY <1>1 DEF Here
<1> QED BY <1>2 DEF w

\* A search for the end of a line stops at the first, once it has arrived.
LEMMA FirstBreak ==
    ASSUME NEW text \in Seq(Sign), NEW b, NEW from, NEW e, Begins(text, b),
           BreakAt(b, from, e, "CR", "LF")
    PROVE  Find(text, CRLF, from) = IF e <= Len(text) THEN e - 1 ELSE 0
<1> DEFINE f == Find(text, CRLF, from)
           r == "CR"
           n == "LF"
<1>1. /\ from \in Nat \ {0} /\ e \in Nat /\ from < e
      /\ b[e - 1] = r /\ b[e] = n
      /\ \A p \in from..(e - 1) : b[p] # n
    BY DEF BreakAt
<1>2. \/ f = 0 /\ \A i \in Nat : i >= from => ~Here(text, CRLF, i)
      \/ /\ f \in Nat /\ f >= from /\ Here(text, CRLF, f)
         /\ \A i \in Nat : i >= from /\ Here(text, CRLF, i) => f <= i
    BY <1>1, CRLFFacts, FindFacts
<1>3. ASSUME NEW i \in Nat, i >= from
      PROVE  Here(text, CRLF, i) <=> i + 1 <= Len(text) /\ text[i] = r /\ text[i + 1] = n
    <2>1. i \in Nat \ {0} /\ Len(text) \in Nat
        BY <1>1, <1>3 DEF Begins
    <2> QED BY <2>1, HereCRLF
<1>4. Len(text) \in Nat /\ \A k \in 1..Len(text) : text[k] = b[k]
    BY DEF Begins
<1> DEFINE c == CRLF
<1> HIDE DEF f, r, n, c
<1>5. ASSUME NEW i \in Nat, i >= from, Here(text, c, i) PROVE i >= e - 1
    <2>1. i + 1 <= Len(text) /\ text[i + 1] = n
        BY <1>3, <1>5 DEF c
    <2>2. b[i + 1] = n
        BY <1>4, <2>1
    <2> QED BY <1>1, <1>5, <2>2
<1>6. e <= Len(text) => Here(text, c, e - 1)
    <2>1. SUFFICES ASSUME e <= Len(text) PROVE Here(text, c, e - 1)
        OBVIOUS
    <2>2. text[e - 1] = r /\ text[e] = n /\ e - 1 \in Nat /\ e - 1 >= from /\ (e - 1) + 1 = e
        BY <1>1, <1>4, <2>1
    <2> QED BY <1>3, <2>1, <2>2 DEF c
<1>7. CASE e <= Len(text)
    BY <1>1, <1>2, <1>5, <1>6, <1>7 DEF c, f
<1>8. CASE ~(e <= Len(text))
    <2>1. \A i \in Nat : i >= from => ~Here(text, c, i)
        <3>1. SUFFICES ASSUME NEW i \in Nat, i >= from, Here(text, c, i) PROVE FALSE
            OBVIOUS
        <3>2. i + 1 <= Len(text) /\ i >= e - 1
            BY <1>3, <1>5, <3>1 DEF c
        <3> QED BY <1>1, <1>4, <1>8, <3>2
    <2> QED BY <1>2, <1>8, <2>1 DEF c, f
<1> QED BY <1>7, <1>8

\* The search for the blank line stops at the end of the headers.
LEMMA FirstBlank ==
    ASSUME NEW text \in Seq(Sign), NEW b, NEW h, NEW m, Begins(text, b),
           Rows(b, h, m, "CR", "LF")
    PROVE  Find(text, CRLF \o CRLF, 1) = IF h[m] + 2 <= Len(text) THEN h[m] - 1 ELSE 0
<1> DEFINE c == CRLF \o CRLF
           f == Find(text, c, 1)
           r == "CR"
           n == "LF"
           e == h[m]
<1>0. SUFFICES f = IF e + 2 <= Len(text) THEN e - 1 ELSE 0
    OBVIOUS
<1>1. r # n /\ Rows(b, h, m, r, n)
    OBVIOUS
<1>2. \/ f = 0 /\ \A i \in Nat : i >= 1 => ~Here(text, c, i)
      \/ /\ f \in Nat /\ f >= 1 /\ Here(text, c, f)
         /\ \A i \in Nat : i >= 1 /\ Here(text, c, i) => f <= i
    <2>1. c \in Seq(Sign) /\ c # <<>> /\ 1 \in Nat \ {0}
        BY BlankFacts
    <2> HIDE DEF c
    <2> QED BY <2>1, FindFacts
<1>3. ASSUME NEW i \in Nat, i >= 1
      PROVE  Here(text, c, i) <=> /\ i + 3 <= Len(text) /\ text[i] = r /\ text[i + 1] = n
                                  /\ text[i + 2] = r /\ text[i + 3] = n
    <2>1. i \in Nat \ {0} /\ Len(text) \in Nat
        BY <1>3 DEF Begins
    <2> QED BY <2>1, HereBlank
<1>4. Len(text) \in Nat /\ \A k \in 1..Len(text) : text[k] = b[k]
    BY DEF Begins
<1> HIDE DEF f, r, n, c
<1>5. /\ m \in Nat /\ h \in [0..m -> Nat] /\ b[e + 1] = r /\ b[e + 2] = n
      /\ \A k \in 1..m : b[h[k - 1] + 1] # r
    BY <1>1 DEF Rows
<1>6. e \in Nat /\ e > 1 /\ b[e - 1] = r /\ b[e] = n
    <2>1. m = 0 \/ m \in 1..m
        BY <1>5
    <2>2. h[0] \in Nat
        BY <1>5
    <2>3. BreakAt(b, 1, h[0], r, n) /\ \A k \in 1..m : BreakAt(b, h[k - 1] + 1, h[k], r, n)
        BY <1>1 DEF Rows
    <2>4. CASE m = 0
        BY <2>2, <2>3, <2>4 DEF BreakAt
    <2>5. CASE m \in 1..m
        <3>1. BreakAt(b, h[m - 1] + 1, h[m], r, n)
            BY <2>3, <2>5
        <3>2. h[m - 1] \in Nat /\ h[m] \in Nat
            BY <1>5, <2>5
        <3> QED BY <3>1, <3>2 DEF BreakAt
    <2> QED BY <2>1, <2>4, <2>5
<1>7. ASSUME NEW i \in Nat, i >= 1, Here(text, c, i) PROVE i >= e - 1
    <2>1. /\ i + 3 <= Len(text) /\ text[i + 1] = n /\ text[i + 2] = r
        BY <1>3, <1>7
    <2>2. b[i + 1] = n /\ b[i + 2] = r
        BY <1>4, <2>1
    <2>3. SUFFICES ASSUME i + 1 < e PROVE FALSE
        BY <1>6
    <2>4. PICK k \in 0..m : i + 1 = h[k]
        <3>1. i + 1 \in Nat /\ 1 <= i + 1 /\ i + 1 <= h[m]
            BY <1>6, <2>3
        <3> QED BY <1>1, <2>2, <3>1, RowEnds
    <2>5. k + 1 \in 1..m /\ (k + 1) - 1 = k
        BY <1>5, <2>3, <2>4
    <2>6. b[h[k] + 1] # r
        BY <1>5, <2>5
    <2>7. h[k] + 1 = i + 2
        BY <2>4
    <2> QED BY <2>2, <2>6, <2>7, Zenon
<1> HIDE DEF e
<1>8. CASE e + 2 <= Len(text)
    <2>1. Here(text, c, e - 1)
        <3>1. /\ text[e - 1] = r /\ text[e] = n /\ text[e + 1] = r /\ text[e + 2] = n
              /\ e - 1 \in Nat /\ e - 1 >= 1
              /\ (e - 1) + 1 = e /\ (e - 1) + 2 = e + 1 /\ (e - 1) + 3 = e + 2
            <4>1. e - 1 \in 1..Len(text) /\ e \in 1..Len(text) /\ e + 1 \in 1..Len(text) /\ e + 2 \in 1..Len(text)
                BY <1>4, <1>6, <1>8
            <4>2. /\ text[e - 1] = r /\ text[e] = n /\ text[e + 1] = r /\ text[e + 2] = n
                BY <1>4, <1>5, <1>6, <4>1, Zenon
            <4> QED BY <1>6, <4>2
        <3> QED BY <1>3, <1>8, <3>1
    <2> QED BY <1>2, <1>6, <1>7, <1>8, <2>1
<1>9. CASE ~(e + 2 <= Len(text))
    <2>1. \A i \in Nat : i >= 1 => ~Here(text, c, i)
        <3>1. SUFFICES ASSUME NEW i \in Nat, i >= 1, Here(text, c, i) PROVE FALSE
            OBVIOUS
        <3>2. i + 3 <= Len(text) /\ i >= e - 1
            BY <1>3, <1>7, <3>1
        <3> QED BY <1>4, <1>6, <1>9, <3>2
    <2> QED BY <1>2, <1>9, <2>1
<1> QED BY <1>8, <1>9

-----------------------------------------------------------------------------
(* The bytes of an answer.                                                 *)

Plain == Sign \ {"CR", "LF"}

\* A line is a word and the line end.
IsLine(line, word, cr, lf) ==
    /\ line \in Seq(Sign)
    /\ Len(word) \in Nat \ {0} /\ Len(line) = Len(word) + 2
    /\ line[Len(word) + 1] = cr /\ line[Len(word) + 2] = lf
    /\ \A k \in 1..Len(word) : line[k] = word[k] /\ line[k] # cr /\ line[k] # lf

LEMMA LineOf ==
    ASSUME NEW word \in Seq(Plain), word # <<>>
    PROVE  IsLine(word \o CRLF, word, "CR", "LF")
<1> DEFINE c == CRLF
           l == word \o c
           r == "CR"
           n == "LF"
<1>1. Len(c) = 2 /\ c[1] = r /\ c[2] = n /\ c \in Seq(Sign)
    BY CRLFFacts, Zenon
<1>2. word \in Seq(Sign) /\ Len(word) \in Nat \ {0}
    BY EmptySeq, LenProperties DEF Plain
<1>3. \A k \in 1..Len(word) : word[k] # r /\ word[k] # n
    BY ElementOfSeq DEF Plain
<1> HIDE DEF c, r, n
<1>4. l \in Seq(Sign) /\ Splits(l, word, c)
    BY <1>1, <1>2, ConcatSplits
<1> HIDE DEF l
<1>5. IsLine(l, word, r, n)
    BY <1>1, <1>2, <1>3, <1>4 DEF IsLine, Splits
<1> QED BY <1>5 DEF l, c, r, n

LEMMA AnswerParts ==
    ASSUME NEW a \in Answers
    PROVE  /\ a.status = 0 \/ a.status \in 100..999
           /\ a.headers \in Seq(Header)
           /\ a.pieces \in Seq(Seq(Byte) \ {<<>>})
           /\ ~Chunked(a) => \A i \in 1..Len(a.pieces) : Len(a.pieces[i]) = 1
<1>1. a \in Answer
    BY AnswersAssumption
<1>2. a.pieces \in Seq(Seq(Byte) \ {<<>>})
    BY <1>1 DEF Answer
<1>3. DOMAIN a.pieces = 1..Len(a.pieces)
    BY <1>2, LenProperties
<1>4. ~Chunked(a) => \A i \in DOMAIN a.pieces : Len(a.pieces[i]) = 1
    BY AnswersAssumption
<1>5. /\ a.status = 0 \/ a.status \in 100..999
      /\ a.headers \in Seq(Header)
    BY <1>1 DEF Answer
<1> QED BY <1>2, <1>3, <1>4, <1>5, Zenon

LEMMA DigitsPlain ==
    ASSUME NEW num, NEW base \in {10, 16}, IsNumeral(num, base)
    PROVE  num \in Seq(Plain) /\ num # <<>>
<1>1. num \in Seq(Sign) /\ Len(num) \in Nat \ {0}
    BY DEF IsNumeral
<1>2. ASSUME NEW i \in 1..Len(num) PROVE num[i] \in Plain
    <2>1. PICK d \in 1..base : num[i] = Digits[d]
        BY DEF IsNumeral
    <2>2. d \in 1..16
        OBVIOUS
    <2>3. Digits[d] \notin {"CR", "LF", "ext", HTTP}
        BY <2>2, NoDigit
    <2>4. Digits[d] # "CR" /\ Digits[d] # "LF"
        BY <2>3, Zenon
    <2>5. num[i] \in Sign
        BY <1>1, ElementOfSeq
    <2> QED BY <2>1, <2>4, <2>5 DEF Plain
<1> HIDE DEF Plain
<1>3. num \in Seq(Plain)
    BY <1>1, <1>2, SeqDef
<1>4. num # <<>>
    BY <1>1, EmptySeq, SMTT(30)
<1> QED BY <1>3, <1>4

\* The first line without its end.
Title(a) == (IF a.status = 0 THEN <<>> ELSE <<HTTP>>) \o Numeral(a.status, 10)

LEMMA HTTPPlain == HTTP \in Plain
BY DEF Plain, Sign, HTTP

LEMMA TitleFacts ==
    ASSUME NEW a \in Answers
    PROVE  /\ a.status \in Nat
           /\ Title(a) \in Seq(Plain) /\ Title(a) # <<>>
           /\ IsNumeral(Numeral(a.status, 10), 10)
           /\ a.status = 0 => Title(a) = Numeral(a.status, 10)
           /\ a.status # 0 => /\ Len(Title(a)) = Len(Numeral(a.status, 10)) + 1
                              /\ Title(a)[1] = HTTP
                              /\ \A k \in 1..Len(Numeral(a.status, 10)) :
                                   Title(a)[k + 1] = Numeral(a.status, 10)[k]
<1> DEFINE num == Numeral(a.status, 10)
           base == 10
<1>1. a.status = 0 \/ a.status \in 100..999
    BY AnswerParts
<1>2. a.status \in Nat
    BY <1>1
<1>3. IsNumeral(num, 10)
    BY <1>2, 10 \in {10, 16}, NumeralText, Zenon DEF Reads
<1> HIDE DEF num
<1>4. num \in Seq(Plain) /\ num # <<>>
    BY <1>3, 10 \in {10, 16}, DigitsPlain, Zenon
<1>5. ASSUME a.status = 0 PROVE Title(a) = num
    <2>1. Title(a) = <<>> \o num
        BY <1>5 DEF Title, num
    <2> QED BY <1>4, <2>1, ConcatEmptySeq
<1>6. ASSUME a.status # 0
      PROVE  /\ Title(a) \in Seq(Plain) /\ Title(a) # <<>> /\ Len(Title(a)) = Len(num) + 1
             /\ Title(a)[1] = HTTP
             /\ \A k \in 1..Len(num) : Title(a)[k + 1] = num[k]
    <2> DEFINE w == <<HTTP>>
               t == w \o num
    <2>1. Title(a) = t
        BY <1>6 DEF Title, num
    <2>2. w \in Seq(Plain) /\ Len(w) = 1 /\ w[1] = HTTP
        BY HTTPPlain, OneSign, Zenon
    <2> HIDE DEF w
    <2>3. t \in Seq(Plain) /\ Splits(t, w, num)
        BY <1>4, <2>2, ConcatSplits
    <2> HIDE DEF t
    <2>4. Len(t) = Len(num) + 1 /\ t[1] = HTTP /\ \A k \in 1..Len(num) : t[k + 1] = num[k]
        BY <2>2, <2>3 DEF Splits
    <2>5. Len(num) \in Nat
        BY <1>4, LenProperties
    <2>6. t # <<>>
        BY <2>4, <2>5, EmptySeq
    <2> QED BY <2>1, <2>3, <2>4, <2>6
<1> QED BY <1>2, <1>3, <1>4, <1>5, <1>6 DEF num

LEMMA StatusLineIs ==
    ASSUME NEW a \in Answers
    PROVE  StatusLine(a) = Title(a) \o CRLF /\ IsLine(StatusLine(a), Title(a), "CR", "LF")
<1> DEFINE w == IF a.status = 0 THEN <<>> ELSE <<HTTP>>
           num == Numeral(a.status, 10)
<1>1. StatusLine(a) = w \o num \o CRLF
    BY DEF StatusLine
<1>2. Title(a) = w \o num
    BY DEF Title
<1>3. StatusLine(a) = Title(a) \o CRLF
    BY <1>1, <1>2
<1>4. IsLine(Title(a) \o CRLF, Title(a), "CR", "LF")
    BY TitleFacts, LineOf, Zenon
<1> QED BY <1>3, <1>4

\* The header lines, and where in the answer the status line and they end.
Lines(a)    == [i \in DOMAIN a.headers |-> a.headers[i] \o CRLF]
LineEnds(a) == [k \in 0..Len(a.headers) |-> Len(StatusLine(a)) + Len(First(Lines(a), k))]

LEMMA Wider ==
    ASSUME NEW C, NEW D, C \subseteq D, NEW s \in Seq(C)
    PROVE  s \in Seq(D)
<1>1. s \in [1..Len(s) -> C] /\ Len(s) \in Nat
    BY LenProperties
<1>2. s \in [1..Len(s) -> D]
    BY <1>1
<1> QED BY <1>1, <1>2, SeqDef

LEMMA HeaderFacts ==
    ASSUME NEW h \in Header
    PROVE  /\ h \in Seq(Plain) /\ h # <<>> /\ h[1] # "CR"
           /\ h[1] = TE => \E i \in 1..Len(h) : h[i] = " chunked"
<1>1. h \in Seq(Word) /\ h # <<>> /\ (h[1] = TE => \E i \in DOMAIN h : h[i] = " chunked")
    BY DEF Header
<1>2. DOMAIN h = 1..Len(h) /\ Len(h) \in Nat \ {0}
    BY <1>1, LenProperties, EmptySeq
<1>3. h[1] \in Word
    <2>1. 1 \in 1..Len(h)
        BY <1>2
    <2> HIDE DEF Word
    <2> QED BY <1>1, <2>1, ElementOfSeq
<1>4. h[1] # "CR"
    BY <1>3 DEF Word
<1>5. h \in Seq(Plain)
    <2>1. Word \subseteq Plain
        BY DEF Word, Plain, Sign
    <2> HIDE DEF Word, Plain
    <2> QED BY <1>1, <2>1, Wider
<1> QED BY <1>1, <1>2, <1>4, <1>5, Zenon

LEMMA LinesAre ==
    ASSUME NEW a \in Answers
    PROVE  /\ Len(a.headers) \in Nat /\ Lines(a) \in Seq(Seq(Sign)) /\ Len(Lines(a)) = Len(a.headers)
           /\ \A k \in 1..Len(a.headers) : /\ a.headers[k] \in Header
                                           /\ IsLine(Lines(a)[k], a.headers[k], "CR", "LF")
<1> DEFINE m == Len(a.headers)
<1>1. a.headers \in Seq(Header)
    BY AnswerParts
<1>2. m \in Nat /\ DOMAIN a.headers = 1..m /\ \A k \in 1..m : a.headers[k] \in Header
    BY <1>1, LenProperties, ElementOfSeq
<1>3. Lines(a) = [k \in 1..m |-> a.headers[k] \o CRLF]
    BY <1>2 DEF Lines
<1>4. ASSUME NEW k \in 1..m PROVE IsLine(a.headers[k] \o CRLF, a.headers[k], "CR", "LF")
    <2>1. a.headers[k] \in Seq(Plain) /\ a.headers[k] # <<>>
        BY <1>2, HeaderFacts
    <2> QED BY <2>1, LineOf, Zenon
<1>5. \A k \in 1..m : a.headers[k] \o CRLF \in Seq(Sign)
    BY <1>4, Zenon DEF IsLine
<1>6. Lines(a) \in Seq(Seq(Sign)) /\ Len(Lines(a)) = m
    <2> HIDE DEF m
    <2>1. Lines(a) \in [1..m -> Seq(Sign)]
        BY <1>3, <1>5
    <2> QED BY <1>2, <2>1, LenProperties, SeqDef
<1>7. \A k \in 1..m : Lines(a)[k] = a.headers[k] \o CRLF
    BY <1>3
<1> HIDE DEF m
<1>8. \A k \in 1..m : IsLine(Lines(a)[k], a.headers[k], "CR", "LF")
    BY <1>4, <1>7, Zenon
<1> QED BY <1>2, <1>6, <1>8 DEF m

LEMMA PreambleParts ==
    ASSUME NEW a \in Answers
    PROVE  /\ Preamble(a) \in Seq(Sign)
           /\ StatusLine(a) \in Seq(Sign) /\ FlattenSeq(Lines(a)) \in Seq(Sign)
           /\ StatusLine(a) \o FlattenSeq(Lines(a)) \in Seq(Sign)
           /\ Preamble(a) = (StatusLine(a) \o FlattenSeq(Lines(a))) \o CRLF
<1>1. StatusLine(a) \in Seq(Sign)
    BY StatusLineIs DEF IsLine
<1>2. FlattenSeq(Lines(a)) \in Seq(Sign)
    <2> DEFINE ls == Lines(a)
    <2>1. ls \in Seq(Seq(Sign))
        BY LinesAre
    <2> HIDE DEF ls
    <2>2. Len(ls) \in 0..Len(ls)
        BY <2>1, LenProperties
    <2>3. First(ls, Len(ls)) \in Seq(Sign) /\ First(ls, Len(ls)) = FlattenSeq(ls)
        BY <2>1, <2>2, FirstFacts, Zenon
    <2> QED BY <2>3, Zenon DEF ls
<1>3. Preamble(a) = (StatusLine(a) \o FlattenSeq(Lines(a))) \o CRLF
    BY DEF Preamble, Lines
<1>4. CRLF \in Seq(Sign)
    BY CRLFFacts
<1>5. StatusLine(a) \o FlattenSeq(Lines(a)) \in Seq(Sign)
    BY <1>1, <1>2, ConcatProperties
<1>6. (StatusLine(a) \o FlattenSeq(Lines(a))) \o CRLF \in Seq(Sign)
    BY <1>4, <1>5, ConcatProperties
<1> QED BY <1>1, <1>2, <1>3, <1>5, <1>6, Zenon

\* The headers are rows of the answer.
LEMMA PreambleLaid ==
    ASSUME NEW a \in Answers, NEW b \in Seq(Sign), Laid(b, 0, Preamble(a))
    PROVE  /\ Laid(b, 0, StatusLine(a))
           /\ LineEnds(a) \in [0..Len(a.headers) -> Nat]
           /\ LineEnds(a)[0] = Len(StatusLine(a))
           /\ Len(Preamble(a)) = LineEnds(a)[Len(a.headers)] + 2
           /\ Laid(b, LineEnds(a)[Len(a.headers)], CRLF)
           /\ \A k \in 1..Len(a.headers) : /\ Laid(b, LineEnds(a)[k - 1], Lines(a)[k])
                                           /\ LineEnds(a)[k] = LineEnds(a)[k - 1] + Len(Lines(a)[k])
<1> DEFINE m  == Len(a.headers)
           s  == StatusLine(a)
           ls == Lines(a)
           f  == FlattenSeq(ls)
           h  == LineEnds(a)
<1>1. s \in Seq(Sign) /\ f \in Seq(Sign) /\ s \o f \in Seq(Sign) /\ Preamble(a) = (s \o f) \o CRLF
    BY PreambleParts
<1>2. m \in Nat /\ ls \in Seq(Seq(Sign)) /\ Len(ls) = m
    BY LinesAre
<1>3. CRLF \in Seq(Sign) /\ Len(CRLF) = 2
    BY CRLFFacts
<1>4. h = [k \in 0..m |-> Len(s) + Len(First(ls, k))]
    BY DEF LineEnds
<1> HIDE DEF m, s, ls, h
<1>5. Len(s) \in Nat /\ Len(f) \in Nat
    BY <1>1, LenProperties
<1> DEFINE sf == s \o f
           p  == sf \o CRLF
<1>6. sf \in Seq(Sign) /\ Preamble(a) = p
    BY <1>1
<1>7. Laid(b, 0, sf) /\ Laid(b, 0 + Len(sf), CRLF) /\ Len(p) = Len(sf) + Len(CRLF)
    <2>1. Laid(b, 0, sf \o CRLF) /\ 0 \in Nat
        BY <1>6
    <2> HIDE DEF sf, p
    <2>2. Apart(b, 0, sf, CRLF)
        BY <1>3, <1>6, <2>1, LaidApart, Zenon
    <2> QED BY <2>2, Zenon DEF p, Apart
<1>8. Laid(b, 0, s) /\ Laid(b, 0 + Len(s), f) /\ Len(sf) = Len(s) + Len(f)
    <2>1. Laid(b, 0, s \o f) /\ 0 \in Nat
        BY <1>7
    <2> HIDE DEF f
    <2> QED BY <1>1, <2>1, LaidConcat
<1> HIDE DEF sf, p
<1>9. /\ First(ls, 0) = <<>> /\ First(ls, Len(ls)) = f
      /\ \A k \in 0..Len(ls) : First(ls, k) \in Seq(Sign)
    BY <1>2, FirstFacts
<1>10. 0 + Len(s) = Len(s)
    BY <1>5
<1>11. \A k \in 1..Len(ls) :
         /\ Laid(b, Len(s) + Len(First(ls, k - 1)), ls[k])
         /\ Len(First(ls, k)) = Len(First(ls, k - 1)) + Len(ls[k])
    BY <1>2, <1>5, <1>8, <1>10, LaidParts, Zenon
<1> HIDE DEF f
<1>12. \A k \in 0..m : Len(First(ls, k)) \in Nat
    BY <1>2, <1>9, LenProperties
<1>13. h \in [0..m -> Nat] /\ \A k \in 0..m : h[k] = Len(s) + Len(First(ls, k))
    BY <1>4, <1>5, <1>12
<1>14. h[0] = Len(s) /\ h[m] = Len(s) + Len(f)
    <2>1. Len(First(ls, 0)) = 0
        BY <1>9, EmptySeq
    <2>2. 0 \in 0..m /\ m \in 0..m
        BY <1>2
    <2>3. h[0] = Len(s) + Len(First(ls, 0)) /\ h[m] = Len(s) + Len(First(ls, m))
        BY <1>13, <2>2, Zenon
    <2> QED BY <1>2, <1>5, <1>9, <2>1, <2>3
<1>15. ASSUME NEW k \in 1..m PROVE Laid(b, h[k - 1], ls[k]) /\ h[k] = h[k - 1] + Len(ls[k])
    <2>1. k \in 0..m /\ k - 1 \in 0..m
        BY <1>2
    <2>2. Laid(b, Len(s) + Len(First(ls, k - 1)), ls[k])
        BY <1>2, <1>11
    <2>3. Len(First(ls, k)) = Len(First(ls, k - 1)) + Len(ls[k])
        BY <1>2, <1>11
    <2>4. Len(ls[k]) \in Nat
        BY <1>2, ElementOfSeq, LenProperties
    <2>5. h[k - 1] = Len(s) + Len(First(ls, k - 1)) /\ h[k] = Len(s) + Len(First(ls, k))
        BY <1>13, <2>1, Zenon
    <2>6. Len(First(ls, k)) \in Nat /\ Len(First(ls, k - 1)) \in Nat
        BY <1>12, <2>1, Zenon
    <2>7. Laid(b, h[k - 1], ls[k])
        BY <2>2, <2>5, Zenon
    <2>8. h[k] = h[k - 1] + Len(ls[k])
        <3> DEFINE u == Len(First(ls, k))
                   v == Len(First(ls, k - 1))
                   w == Len(ls[k])
        <3>1. u \in Nat /\ v \in Nat /\ w \in Nat /\ u = v + w /\ Len(s) \in Nat
            BY <1>5, <2>3, <2>4, <2>6
        <3>2. h[k - 1] = Len(s) + v /\ h[k] = Len(s) + u
            BY <2>5
        <3> HIDE DEF u, v, w
        <3>3. Len(s) + (v + w) = (Len(s) + v) + w
            BY <3>1
        <3>4. h[k] = h[k - 1] + w
            BY <3>1, <3>2, <3>3, Zenon
        <3> QED BY <3>4, Zenon DEF w
    <2> QED BY <2>7, <2>8
<1>16. Len(Preamble(a)) = h[m] + 2 /\ Laid(b, h[m], CRLF)
    <2>1. 0 + Len(sf) = h[m]
        BY <1>5, <1>8, <1>14
    <2>2. Laid(b, h[m], CRLF)
        BY <1>7, <2>1, Zenon
    <2> QED BY <1>3, <1>5, <1>6, <1>7, <1>8, <1>14, <2>2
<1> QED BY <1>8, <1>13, <1>14, <1>15, <1>16 DEF m, s, ls, h

\* A line in b is up to the first line break.
LEMMA LineLaid ==
    ASSUME NEW b \in Seq(Sign), NEW at \in Nat, NEW line, NEW word, NEW cr, NEW lf, cr # lf,
           IsLine(line, word, cr, lf), Laid(b, at, line)
    PROVE  /\ Len(line) = Len(word) + 2 /\ Len(word) \in Nat \ {0}
           /\ BreakAt(b, at + 1, at + Len(line), cr, lf)
           /\ b[at + 1] # cr
           /\ \A k \in 1..Len(word) : b[at + k] = word[k]
<1>1. /\ Len(word) \in Nat \ {0} /\ Len(line) = Len(word) + 2
      /\ line[Len(word) + 1] = cr /\ line[Len(word) + 2] = lf
      /\ \A k \in 1..Len(word) : line[k] = word[k] /\ line[k] # cr /\ line[k] # lf
    BY DEF IsLine
<1>2. at + Len(line) <= Len(b) /\ \A k \in 1..Len(line) : b[at + k] = line[k]
    BY DEF Laid
<1> DEFINE w == Len(word)
           e == at + Len(line)
<1>3. e - 1 = at + (w + 1) /\ e = at + (w + 2) /\ w + 1 \in 1..Len(line) /\ w + 2 \in 1..Len(line)
    BY <1>1
<1>4. b[e - 1] = cr /\ b[e] = lf
    BY <1>1, <1>2, <1>3, Zenon
<1>5. \A k \in 1..w : b[at + k] = word[k] /\ b[at + k] # cr /\ b[at + k] # lf
    <2>1. \A k \in 1..w : k \in 1..Len(line)
        BY <1>1
    <2> QED BY <1>1, <1>2, <2>1, Zenon
<1>6. ASSUME NEW p \in (at + 1)..(e - 1) PROVE b[p] # lf
    <2>1. p = e - 1 \/ p - at \in 1..w
        BY <1>1, <1>3
    <2>2. p = at + (p - at)
        OBVIOUS
    <2>3. CASE p = e - 1
        BY <1>4, <2>3, Zenon
    <2>4. CASE p - at \in 1..w
        BY <1>5, <2>2, <2>4, Zenon
    <2> QED BY <2>1, <2>3, <2>4
<1>7. Len(b) \in Nat
    BY LenProperties
<1>8. BreakAt(b, at + 1, e, cr, lf)
    <2> HIDE DEF e
    <2>1. e \in Nat /\ at + 1 < e /\ e <= Len(b)
        BY <1>1, <1>2, <1>7 DEF e
    <2> QED BY <1>4, <1>6, <2>1 DEF BreakAt
<1>9. b[at + 1] # cr
    BY <1>1, <1>5
<1> QED BY <1>1, <1>5, <1>8, <1>9

LEMMA CRLFIsLaid ==
    ASSUME NEW b, NEW at \in Nat, Laid(b, at, CRLF)
    PROVE  at + 2 <= Len(b) /\ b[at + 1] = "CR" /\ b[at + 2] = "LF"
<1> DEFINE c == CRLF
           r == "CR"
           n == "LF"
<1>1. Len(c) = 2 /\ c[1] = r /\ c[2] = n
    BY CRLFFacts, Zenon
<1> HIDE DEF c, r, n
<1>2. at + 2 <= Len(b) /\ b[at + 1] = r /\ b[at + 2] = n
    BY <1>1 DEF Laid, c
<1> QED BY <1>2 DEF r, n

LEMMA HeadRows ==
    ASSUME NEW a \in Answers, NEW b \in Seq(Sign), Laid(b, 0, Preamble(a))
    PROVE  /\ Rows(b, LineEnds(a), Len(a.headers), "CR", "LF")
           /\ \A k \in 1..Len(a.headers) :
                /\ LineEnds(a)[k] = LineEnds(a)[k - 1] + Len(a.headers[k]) + 2
                /\ \A j \in 1..Len(a.headers[k]) : b[LineEnds(a)[k - 1] + j] = a.headers[k][j]
<1> DEFINE m == Len(a.headers)
           h == LineEnds(a)
           r == "CR"
           n == "LF"
<1>1. /\ Laid(b, 0, StatusLine(a)) /\ h \in [0..m -> Nat] /\ h[0] = Len(StatusLine(a))
      /\ Laid(b, h[m], CRLF)
      /\ \A k \in 1..m : Laid(b, h[k - 1], Lines(a)[k]) /\ h[k] = h[k - 1] + Len(Lines(a)[k])
    BY PreambleLaid
<1>2. m \in Nat /\ \A k \in 1..m : IsLine(Lines(a)[k], a.headers[k], r, n)
    BY LinesAre
<1>3. r # n
    OBVIOUS
<1>4. IsLine(StatusLine(a), Title(a), r, n)
    BY StatusLineIs
<1>5. h[m] + 2 <= Len(b) /\ b[h[m] + 1] = r /\ b[h[m] + 2] = n
    <2>1. h[m] \in Nat
        BY <1>1, <1>2
    <2> QED BY <1>1, <2>1, CRLFIsLaid
<1> HIDE DEF m, h, r, n
<1>6. BreakAt(b, 1, h[0], r, n)
    <2>1. BreakAt(b, 0 + 1, 0 + Len(StatusLine(a)), r, n)
        BY <1>1, <1>3, <1>4, LineLaid
    <2>2. h[0] \in Nat
        BY <1>1, <1>2
    <2>3. 0 + 1 = 1 /\ 0 + Len(StatusLine(a)) = h[0]
        BY <1>1, <2>2
    <2> QED BY <2>1, <2>3, Zenon
<1>7. ASSUME NEW k \in 1..m
      PROVE  /\ BreakAt(b, h[k - 1] + 1, h[k], r, n) /\ b[h[k - 1] + 1] # r
             /\ h[k] = h[k - 1] + Len(a.headers[k]) + 2
             /\ \A j \in 1..Len(a.headers[k]) : b[h[k - 1] + j] = a.headers[k][j]
    <2> DEFINE at   == h[k - 1]
               line == Lines(a)[k]
               word == a.headers[k]
    <2>1. at \in Nat /\ h[k] \in Nat
        <3>1. k - 1 \in 0..m /\ k \in 0..m
            BY <1>2
        <3>2. h \in [0..m -> Nat]
            BY <1>1
        <3> QED BY <3>1, <3>2
    <2>2. IsLine(line, word, r, n) /\ Laid(b, at, line) /\ h[k] = at + Len(line)
        BY <1>1, <1>2
    <2> HIDE DEF at, line, word
    <2>3. /\ Len(line) = Len(word) + 2 /\ Len(word) \in Nat \ {0}
          /\ BreakAt(b, at + 1, at + Len(line), r, n)
          /\ b[at + 1] # r
          /\ \A j \in 1..Len(word) : b[at + j] = word[j]
        BY <1>3, <2>1, <2>2, LineLaid, SMTT(30)
    <2>4. h[k] = at + Len(word) + 2
        BY <2>1, <2>2, <2>3
    <2> QED BY <2>2, <2>3, <2>4 DEF at, word
<1>8. Rows(b, h, m, r, n)
    <2>1. \A k \in 1..m : BreakAt(b, h[k - 1] + 1, h[k], r, n) /\ b[h[k - 1] + 1] # r
        BY <1>7, Zenon
    <2> QED BY <1>1, <1>2, <1>5, <1>6, <2>1, Zenon DEF Rows
<1> QED BY <1>7, <1>8 DEF m, h, r, n

-----------------------------------------------------------------------------
(* What parse_headers makes of the headers.                                *)

LEMMA TailFacts ==
    ASSUME NEW C, NEW s \in Seq(C), s # <<>>
    PROVE  /\ Tail(s) \in Seq(C) /\ Len(Tail(s)) = Len(s) - 1
           /\ \A k \in 1..(Len(s) - 1) : Tail(s)[k] = s[k + 1]
BY HeadTailProperties, LenProperties, EmptySeq

\* A status line that has arrived is read as the status that is in it.
LEMMA StatusIsRead ==
    ASSUME NEW a \in Answers, NEW b \in Seq(Sign), NEW text \in Seq(Sign),
           Laid(b, 0, Preamble(a)), Begins(text, b), Len(StatusLine(a)) <= Len(text)
    PROVE  (IF text[1] # HTTP THEN 0 ELSE Max({0, Number(Tail(text), 10)})) = a.status
<1> DEFINE num == Numeral(a.status, 10)
           w   == Title(a)
           s   == StatusLine(a)
<1>1. /\ a.status \in Nat /\ w \in Seq(Plain) /\ w # <<>> /\ IsNumeral(num, 10)
      /\ a.status = 0 => w = num
      /\ a.status # 0 => /\ Len(w) = Len(num) + 1 /\ w[1] = HTTP
                         /\ \A k \in 1..Len(num) : w[k + 1] = num[k]
    BY TitleFacts
<1>2. IsLine(s, w, "CR", "LF")
    BY StatusLineIs
<1>3. Len(w) \in Nat \ {0} /\ Len(s) = Len(w) + 2 /\ s[Len(w) + 1] = "CR"
      /\ \A k \in 1..Len(w) : s[k] = w[k]
    BY <1>2 DEF IsLine
<1>4. Laid(b, 0, s)
    BY PreambleLaid
<1>5. Len(text) \in Nat /\ \A k \in 1..Len(text) : text[k] = b[k]
    BY DEF Begins
<1>6. \A k \in 1..Len(s) : b[0 + k] = s[k]
    BY <1>4 DEF Laid
<1> HIDE DEF num, w, s
<1>7. Len(w) + 2 <= Len(text)
    BY <1>3 DEF s
<1>8. \A k \in 1..Len(s) : text[k] = s[k]
    <2>1. SUFFICES ASSUME NEW k \in 1..Len(s) PROVE text[k] = s[k]
        OBVIOUS
    <2>2. k \in 1..Len(text) /\ 0 + k = k
        BY <1>3, <1>5, <1>7
    <2> QED BY <1>5, <1>6, <2>2, Zenon
<1>9. text[Len(w) + 1] = "CR" /\ \A k \in 1..Len(w) : text[k] = w[k]
    <2>1. Len(w) + 1 \in 1..Len(s) /\ \A k \in 1..Len(w) : k \in 1..Len(s)
        BY <1>3
    <2> QED BY <1>3, <1>8, <2>1, Zenon
<1>10. CASE a.status = 0
    <2>1. w = num
        BY <1>1, <1>10
    <2>2. Len(num) \in Nat \ {0} /\ \A i \in 1..Len(num) : \E d \in 1..10 : num[i] = Digits[d]
        BY <1>1 DEF IsNumeral
    <2>3. 1 \in 1..Len(num) /\ 1 \in 1..Len(w)
        <3>1. 1 \in 1..Len(w)
            BY <1>3
        <3> QED BY <2>1, <3>1, Zenon
    <2>4. PICK d \in 1..10 : num[1] = Digits[d]
        BY <2>2, <2>3
    <2>5. d \in 1..16
        OBVIOUS
    <2>6. Digits[d] # HTTP
        BY <2>5, NoDigit
    <2>7. text[1] # HTTP
        BY <1>9, <2>1, <2>3, <2>4, <2>6, Zenon
    <2> QED BY <1>10, <2>7
<1>11. CASE a.status # 0
    <2> DEFINE t == Tail(text)
    <2>1. Len(w) = Len(num) + 1 /\ w[1] = HTTP /\ \A k \in 1..Len(num) : w[k + 1] = num[k]
        BY <1>1, <1>11
    <2>2. Len(num) \in Nat \ {0}
        BY <1>1 DEF IsNumeral
    <2>3. text[1] = HTTP
        <3>1. 1 \in 1..Len(w)
            BY <1>3
        <3> QED BY <1>9, <2>1, <3>1, Zenon
    <2>4. text # <<>>
        BY <1>3, <1>7, EmptySeq
    <2>5. t \in Seq(Sign) /\ Len(t) = Len(text) - 1 /\ \A k \in 1..(Len(text) - 1) : t[k] = text[k + 1]
        BY <2>4, TailFacts
    <2> HIDE DEF t
    <2>6. Laid(t, 0, num)
        <3>1. ASSUME NEW k \in 1..Len(num) PROVE t[0 + k] = num[k]
            <4>1. k \in 1..(Len(text) - 1) /\ k + 1 \in 1..Len(w) /\ 0 + k = k
                BY <1>7, <2>1, <2>2
            <4>2. t[k] = text[k + 1] /\ text[k + 1] = w[k + 1] /\ w[k + 1] = num[k]
                BY <1>9, <2>1, <2>5, <4>1, Zenon
            <4> QED BY <4>1, <4>2, Zenon
        <3>2. 0 + Len(num) <= Len(t)
            BY <1>5, <1>7, <2>1, <2>2, <2>5
        <3> QED BY <3>1, <3>2 DEF Laid
    <2>7. \A d \in 1..16 : Digits[d] # t[Len(num) + 1]
        <3>1. Len(num) + 1 \in 1..(Len(text) - 1) /\ (Len(num) + 1) + 1 = Len(w) + 1
            BY <1>5, <1>7, <2>1, <2>2
        <3>2. t[Len(num) + 1] = "CR"
            BY <1>9, <2>5, <3>1, Zenon
        <3>3. \A d \in 1..16 : Digits[d] # "CR"
            BY NoDigit
        <3> QED BY <3>2, <3>3, Zenon
    <2>8. Number(t, 10) = a.status
        <3>1. 10 \in {10, 16}
            OBVIOUS
        <3> QED BY <1>1, <2>5, <2>6, <2>7, <3>1, NumberReads, Zenon DEF num
    <2>9. a.status \in 100..999
        BY <1>11, AnswerParts
    <2>10. Max({0, a.status}) = a.status
        <3> DEFINE x == a.status
        <3>0. x \in 100..999
            BY <2>9
        <3> HIDE DEF x
        <3>1. x \in Int /\ 0 <= x
            BY <3>0
        <3>2. {0, x} \subseteq Int /\ x \in {0, x} /\ \A y \in {0, x} : y <= x
            BY <3>1
        <3> QED BY <3>2, MaxIs DEF x
    <2> QED BY <2>3, <2>8, <2>10 DEF t
<1> QED BY <1>10, <1>11

\* Once the headers have arrived, they are read as chunked if and only if
\* they say so.
LEMMA ChunkedIsRead ==
    ASSUME NEW b \in Seq(Sign), answer \in Answers, received \in Seq(Sign),
           Laid(b, 0, Preamble(answer)), Begins(received, b),
           Len(Preamble(answer)) <= Len(received)
    PROVE  IsChunked <=> Chunked(answer)
<1> DEFINE m == Len(answer.headers)
           h == LineEnds(answer)
           r == "CR"
           n == "LF"
           hs == answer.headers
<1>1. Rows(b, h, m, r, n) /\ r # n
    BY HeadRows
<1>2. \A k \in 1..m : /\ h[k] = h[k - 1] + Len(hs[k]) + 2
                      /\ \A j \in 1..Len(hs[k]) : b[h[k - 1] + j] = hs[k][j]
    BY HeadRows
<1>3. m \in Nat /\ \A k \in 1..m : hs[k] \in Header
    BY LinesAre
<1>4. Len(Preamble(answer)) = h[m] + 2
    BY PreambleLaid
<1>5. DOMAIN hs = 1..m
    <2>1. hs \in Seq(Header)
        BY AnswerParts
    <2> QED BY <2>1, LenProperties
<1> HIDE DEF m, h
<1>6. h \in [0..m -> Nat] /\ \A k \in 1..m : BreakAt(b, h[k - 1] + 1, h[k], r, n)
    BY <1>1 DEF Rows
<1>7. \A k \in 0..m : h[0] <= h[k] /\ h[k] <= h[m] /\ (k # m => h[k] + 3 <= h[m])
    BY <1>1, RowsRise
<1>8. Find(received, CRLF \o CRLF, 1) = h[m] - 1 /\ h[m] \in Nat
    <2>1. h[m] \in Nat
        BY <1>3, <1>6
    <2>2. h[m] + 2 <= Len(received)
        BY <1>4
    <2> QED BY <1>1, <2>1, <2>2, FirstBlank
<1>9. Len(received) \in Nat /\ \A k \in 1..Len(received) : received[k] = b[k]
    BY DEF Begins
<1>10. h[m] + 2 <= Len(received)
    BY <1>4
<1>11. Chunked(answer) <=> \E k \in 1..m : hs[k][1] = TE
    BY <1>5 DEF Chunked
<1>12. ASSUME NEW k \in 1..m
       PROVE  /\ h[k - 1] + 1 \in HeaderLines /\ received[h[k - 1] + 1] = hs[k][1]
              /\ hs[k][1] = TE => Find(received, <<" chunked">>, h[k - 1] + 1) # 0
    <2> DEFINE i == h[k - 1] + 1
    <2>1. k - 1 \in 0..m /\ k \in 0..m /\ k - 1 # m
        BY <1>3
    <2>2. h[k - 1] \in Nat /\ h[k] \in Nat /\ h[k - 1] + 3 <= h[m] /\ h[k] <= h[m] /\ h[0] \in Nat
          /\ h[0] <= h[k - 1]
        <3>1. h[k - 1] \in Nat /\ h[k] \in Nat /\ h[0] \in Nat
            BY <1>3, <1>6, <2>1
        <3>2. h[k - 1] + 3 <= h[m] /\ h[k] <= h[m] /\ h[0] <= h[k - 1]
            BY <1>7, <2>1
        <3> QED BY <3>1, <3>2
    <2>3. b[h[k - 1]] = n /\ b[h[k - 1] - 1] = r /\ h[0] >= 2
        <3>1. BreakAt(b, 1, h[0], r, n)
            BY <1>1 DEF Rows
        <3>2. h[0] >= 2 /\ b[h[0]] = n /\ b[h[0] - 1] = r
            BY <2>2, <3>1 DEF BreakAt
        <3>3. CASE k = 1
            BY <3>2, <3>3
        <3>4. CASE k # 1
            <4>1. k - 1 \in 1..m
                BY <1>3, <3>4
            <4>2. BreakAt(b, h[(k - 1) - 1] + 1, h[k - 1], r, n)
                BY <1>6, <4>1, Zenon
            <4>3. b[h[k - 1]] = n /\ b[h[k - 1] - 1] = r
                BY <4>2 DEF BreakAt
            <4> QED BY <3>2, <4>3
        <3> QED BY <3>3, <3>4
    <2>4. i \in 3..Len(received) /\ i - 2 >= 1 /\ i < h[m] - 1 + 2
        <3> DEFINE d == h[k - 1]
                   e == h[m]
        <3>1. d \in Nat /\ e \in Nat /\ d >= 2 /\ d + 3 <= e /\ e + 2 <= Len(received)
              /\ Len(received) \in Nat /\ i = d + 1
            <4>1. h[0] >= 2 /\ h[0] \in Nat /\ h[0] <= d
                BY <2>2, <2>3
            <4>2. d \in Nat /\ e \in Nat /\ d + 3 <= e
                BY <1>8, <2>2
            <4> HIDE DEF d, e
            <4>3. d >= 2
                BY <4>1, <4>2
            <4> QED BY <1>9, <1>10, <4>2, <4>3 DEF d, e
        <3> HIDE DEF d, e, i
        <3>2. i \in 3..Len(received) /\ i - 2 >= 1 /\ i < e - 1 + 2
            BY <3>1
        <3> QED BY <3>2 DEF e
    <2>5. SubSeq(received, i - 2, i - 1) = CRLF
        <3>1. i - 2 = h[k - 1] - 1 /\ i - 1 = h[k - 1] /\ (i - 2) + 1 = h[k - 1] /\ i - 2 + 2 - 1 = i - 1
            BY <2>2
        <3>2. i - 2 \in Nat \ {0} /\ i - 2 \in 1..Len(received) /\ i - 1 \in 1..Len(received)
            <4> HIDE DEF i
            <4> QED BY <1>9, <2>4
        <3>3. received[i - 2] = r /\ received[i - 1] = n
            BY <1>9, <2>3, <3>1, <3>2, Zenon
        <3>4. (i - 2) + 1 = i - 1 /\ (i - 2) + 1 <= Len(received)
            BY <2>2, <3>2
        <3> DEFINE j == i - 2
        <3>5. Here(received, CRLF, j)
            <4>1. j \in Nat \ {0} /\ j + 1 <= Len(received) /\ received[j] = r /\ received[j + 1] = n
                BY <3>2, <3>3, <3>4, Zenon
            <4> HIDE DEF j
            <4> QED BY <1>9, <4>1, HereCRLF
        <3>6. j \in Nat \ {0} /\ j + 2 - 1 = i - 1 /\ j + 2 - 1 <= Len(received)
            BY <2>2, <3>2
        <3>7. CRLF \in Seq(Sign) /\ CRLF # <<>> /\ Len(CRLF) = 2
            BY CRLFFacts, Zenon
        <3> HIDE DEF i, j
        <3>8. SubSeq(received, j, j + 2 - 1) = CRLF
            BY <3>5, <3>6, <3>7, HereIsSubSeq, ZenonT(60)
        <3> QED BY <3>6, <3>8, Zenon DEF j
    <2>6. Find(received, CRLF, i) # 0
        <3>1. BreakAt(b, i, h[k], r, n)
            BY <1>6
        <3>2. Find(received, CRLF, i) = IF h[k] <= Len(received) THEN h[k] - 1 ELSE 0
            BY <3>1, FirstBreak
        <3>3. i < h[k] /\ h[k] <= Len(received)
            <4>1. i < h[k]
                BY <3>1 DEF BreakAt
            <4> QED BY <1>8, <1>9, <1>10, <2>2, <4>1
        <3> HIDE DEF i
        <3>4. h[k] - 1 # 0
            BY <2>2, <2>4, <3>3
        <3> QED BY <3>2, <3>3, <3>4
    <2>7. i \in HeaderLines
        <3> DEFINE blank == Find(received, CRLF \o CRLF, 1)
        <3>1. blank = h[m] - 1
            BY <1>8
        <3>2. blank # 0 => i < blank + 2
            BY <2>4, <3>1
        <3>3. HeaderLines = {x \in 3..Len(received) :
                 /\ SubSeq(received, x - 2, x - 1) = CRLF
                 /\ blank # 0 => x < blank + 2
                 /\ Find(received, CRLF, x) # 0}
            BY DEF HeaderLines
        <3> HIDE DEF blank, i
        <3> QED BY <2>4, <2>5, <2>6, <3>2, <3>3
    <2>8. Len(hs[k]) \in Nat \ {0} /\ (hs[k][1] = TE => \E j \in 1..Len(hs[k]) : hs[k][j] = " chunked")
        <3>1. hs[k] \in Header
            BY <1>3
        <3>2. hs[k] \in Seq(Plain) /\ hs[k] # <<>> /\ (hs[k][1] = TE => \E j \in 1..Len(hs[k]) : hs[k][j] = " chunked")
            BY <3>1, HeaderFacts, Zenon
        <3> QED BY <3>2, EmptySeq, LenProperties
    <2>9. /\ h[k] = h[k - 1] + Len(hs[k]) + 2
          /\ \A j \in 1..Len(hs[k]) : b[h[k - 1] + j] = hs[k][j]
        BY <1>2
    <2>10. \A j \in 1..Len(hs[k]) : h[k - 1] + j \in 1..Len(received) /\ received[h[k - 1] + j] = hs[k][j]
        <3>1. SUFFICES ASSUME NEW j \in 1..Len(hs[k])
                       PROVE  h[k - 1] + j \in 1..Len(received) /\ received[h[k - 1] + j] = hs[k][j]
            OBVIOUS
        <3>2. h[k - 1] + j \in 1..Len(received)
            <4> DEFINE d == h[k - 1]
                       e == h[k]
                       z == h[m]
                       u == Len(hs[k])
            <4>1. d \in Nat /\ e \in Nat /\ z \in Nat /\ e <= z /\ z + 2 <= Len(received)
                BY <1>8, <1>10, <2>2
            <4>2. u \in Nat /\ e = d + u + 2
                BY <2>8, <2>9
            <4>3. j \in 1..u
                OBVIOUS
            <4> HIDE DEF d, e, z, u
            <4>4. d + j \in 1..Len(received)
                BY <1>9, <4>1, <4>2, <4>3
            <4> QED BY <4>4 DEF d
        <3> QED BY <1>9, <2>9, <3>2, Zenon
    <2>11. received[i] = hs[k][1]
        <3> DEFINE u == Len(hs[k])
        <3>1. u \in Nat \ {0}
            BY <2>8, Zenon
        <3> HIDE DEF u
        <3>2. 1 \in 1..u
            BY <3>1
        <3>3. 1 \in 1..Len(hs[k])
            BY <3>2 DEF u
        <3> QED BY <2>10, <3>3, Zenon
    <2>12. ASSUME hs[k][1] = TE PROVE Find(received, <<" chunked">>, i) # 0
        <3> DEFINE c == " chunked"
        <3>1. PICK j \in 1..Len(hs[k]) : hs[k][j] = c
            BY <2>8, <2>12
        <3>2. h[k - 1] + j \in 1..Len(received) /\ received[h[k - 1] + j] = c
            BY <2>10, <3>1, Zenon
        <3> DEFINE q == h[k - 1] + j
        <3>3. q \in Nat /\ q >= i /\ i \in Nat \ {0}
            BY <2>2, SMTT(30)
        <3> HIDE DEF c, q, i
        <3>4. c \in Sign
            BY <3>2, ElementOfSeq DEF q
        <3>5. <<c>> \in Seq(Sign) /\ <<c>> # <<>>
            <4>1. <<c>> \in Seq(Sign) /\ Len(<<c>>) = 1
                BY <3>4, OneSign
            <4> QED BY <4>1, EmptySeq
        <3>6. Here(received, <<c>>, q)
            <4>1. q \in Nat \ {0} /\ q <= Len(received) /\ received[q] = c
                BY <3>2, <1>9 DEF q
            <4> QED BY <1>9, <3>4, <4>1, HereOne
        <3>7. Find(received, <<c>>, i) # 0
            <4> DEFINE w == <<c>>
            <4>1. w \in Seq(Sign) /\ w # <<>> /\ Here(received, w, q)
                BY <3>5, <3>6
            <4> HIDE DEF w
            <4>2. Find(received, w, i) # 0
                BY <3>3, <4>1, FindFacts
            <4> QED BY <4>2 DEF w
        <3> QED BY <3>7 DEF c
    <2> QED BY <2>7, <2>11, <2>12
<1>13. ASSUME Chunked(answer) PROVE IsChunked
    <2>1. PICK k \in 1..m : hs[k][1] = TE
        BY <1>11, <1>13
    <2> DEFINE i == h[k - 1] + 1
    <2>2. i \in HeaderLines /\ received[i] = TE /\ Find(received, <<" chunked">>, i) # 0
        BY <1>12, <2>1
    <2> HIDE DEF i
    <2> QED BY <2>2, Zenon DEF IsChunked
<1>14. ASSUME IsChunked PROVE Chunked(answer)
    <2>1. PICK i \in HeaderLines : received[i] = TE
        BY <1>14, Zenon DEF IsChunked
    <2>2. /\ i \in 3..Len(received) /\ SubSeq(received, i - 2, i - 1) = CRLF
          /\ Find(received, CRLF \o CRLF, 1) # 0 => i < Find(received, CRLF \o CRLF, 1) + 2
        BY DEF HeaderLines
    <2>3. i - 1 < h[m] /\ i - 1 \in Nat /\ 1 <= i - 1
        <3>1. h[m] >= 2
            <4>1. BreakAt(b, 1, h[0], r, n)
                BY <1>1 DEF Rows
            <4>2. h[0] >= 2 /\ h[0] <= h[m]
                BY <1>3, <1>7, <4>1 DEF BreakAt
            <4>3. h[0] \in Nat
                BY <1>3, <1>6
            <4> QED BY <1>8, <4>2, <4>3
        <3> QED BY <1>8, <2>2, <3>1
    <2>4. received[i - 1] = n
        <3> DEFINE u == SubSeq(received, i - 2, i - 1)
        <3>1. u[2] = n
            BY <2>2, CRLFFacts, Zenon
        <3>2. \A x \in (i - 2)..(i - 1) : received[x] \in Sign
            BY <1>9, <2>2, ElementOfSeq
        <3>3. u[2] = received[i - 2 + 2 - 1]
            <4>1. i - 2 \in Int /\ i - 1 \in Int /\ i - 2 <= i - 1 /\ 2 \in 1..((i - 1) - (i - 2) + 1)
                BY <2>2
            <4> QED BY <3>2, <4>1, SubSeqProperties
        <3>4. i - 2 + 2 - 1 = i - 1
            BY <2>2
        <3> QED BY <3>1, <3>3, <3>4, Zenon
    <2>5. b[i - 1] = n
        <3>1. i - 1 \in 1..Len(received)
            BY <2>2
        <3> QED BY <1>9, <2>4, <3>1, Zenon
    <2> DEFINE p == i - 1
    <2>6. p \in Nat /\ 1 <= p /\ p <= h[m] /\ b[p] = n /\ p < h[m] /\ p + 1 = i
        BY <1>8, <2>2, <2>3, <2>5
    <2> HIDE DEF p, r, n
    <2>7. PICK k \in 0..m : p = h[k]
        BY <1>1, <2>6, RowEnds
    <2>8. k + 1 \in 1..m /\ (k + 1) - 1 = k
        BY <1>3, <2>6, <2>7
    <2>9. received[h[k] + 1] = hs[k + 1][1]
        BY <1>12, <2>8
    <2>10. hs[k + 1][1] = TE
        BY <2>1, <2>6, <2>7, <2>9, Zenon
    <2> QED BY <1>11, <2>8, <2>10
<1> QED BY <1>13, <1>14

-----------------------------------------------------------------------------
(* Chunks.                                                                 *)

LEMMA PieceFacts ==
    ASSUME NEW a \in Answers
    PROVE  /\ Units(a) \in Nat /\ a.pieces \in Seq(Seq(Sign))
           /\ \A i \in 1..Units(a) : /\ a.pieces[i] \in Seq(Sign) /\ a.pieces[i] # <<>>
                                     /\ Len(a.pieces[i]) \in Nat \ {0}
                                     /\ ~Chunked(a) => Len(a.pieces[i]) = 1
<1>1. a.pieces \in Seq(Seq(Byte) \ {<<>>}) /\ Units(a) = Len(a.pieces)
    BY AnswerParts DEF Units
<1>2. Byte \subseteq Sign
    BY DEF Sign
<1> DEFINE Piece == Seq(Byte) \ {<<>>}
<1>3. Piece \subseteq Seq(Sign)
    BY <1>2, Wider
<1>4. a.pieces \in Seq(Seq(Sign))
    <2> HIDE DEF Piece
    <2> QED BY <1>1, <1>3, Wider DEF Piece
<1>5. Units(a) \in Nat
    BY <1>1, LenProperties
<1>6. ASSUME NEW i \in 1..Units(a)
      PROVE  /\ a.pieces[i] \in Seq(Sign) /\ a.pieces[i] # <<>> /\ Len(a.pieces[i]) \in Nat \ {0}
             /\ (~Chunked(a) => Len(a.pieces[i]) = 1)
    <2> DEFINE p == a.pieces[i]
               n == Len(p)
    <2>1. p \in Piece
        <3> HIDE DEF Piece
        <3>1. a.pieces \in Seq(Piece)
            BY <1>1 DEF Piece
        <3> QED BY <1>1, <3>1, ElementOfSeq
    <2>2. p \in Seq(Sign) /\ p # <<>>
        BY <1>3, <2>1
    <2>3. ~Chunked(a) => n = 1
        BY <1>1, AnswerParts
    <2> HIDE DEF p
    <2>4. n \in Nat \ {0}
        BY <2>2, LenProperties, EmptySeq
    <2> QED BY <2>2, <2>3, <2>4 DEF p, n
<1> QED BY <1>4, <1>5, <1>6

\* The size line of a chunk tells its size.
LEMMA SizeFacts ==
    ASSUME NEW piece, Len(piece) \in Nat \ {0}
    PROVE  /\ Size(piece) \in Seq(Plain) /\ Size(piece) # <<>>
           /\ Number(Size(piece), 16) = Len(piece)
<1> DEFINE num == Numeral(Len(piece), 16)
           ext == IF Len(piece) = 2 THEN <<"ext">> ELSE <<>>
           t   == num \o ext
<1>1. IsNumeral(num, 16)
    <2>1. Len(piece) \in Nat
        OBVIOUS
    <2> QED BY <2>1, 16 \in {10, 16}, NumeralText, Zenon DEF Reads
<1> DEFINE e == "ext"
<1>2. e \in Plain /\ \A d \in 1..16 : Digits[d] # e
    <2>1. \A d \in 1..16 : Digits[d] # e
        BY NoDigit
    <2>2. e \in Plain
        BY DEF Plain, Sign
    <2> QED BY <2>1, <2>2
<1>3. Size(piece) = t
    BY DEF Size
<1>4. ext \in Seq(Plain) /\ (Len(ext) = 0 \/ (Len(ext) = 1 /\ ext[1] = e))
    <2> DEFINE w == <<e>>
    <2>1. w \in Seq(Plain) /\ Len(w) = 1 /\ w[1] = e
        BY <1>2, OneSign
    <2>2. ext = w \/ ext = <<>>
        OBVIOUS
    <2>3. <<>> \in Seq(Plain) /\ Len(<<>>) = 0
        BY EmptySeq
    <2> HIDE DEF w, ext, e
    <2> QED BY <2>1, <2>2, <2>3
<1> HIDE DEF num, ext, e
<1>5. num \in Seq(Plain) /\ num # <<>>
    BY <1>1, 16 \in {10, 16}, DigitsPlain, Zenon
<1>6. t \in Seq(Plain) /\ Splits(t, num, ext)
    BY <1>4, <1>5, ConcatSplits
<1> HIDE DEF t
<1>7. Len(num) \in Nat \ {0}
    BY <1>5, LenProperties, EmptySeq
<1>8. Len(t) = Len(num) + Len(ext) /\ t # <<>> /\ Laid(t, 0, num)
    <2>1. Len(t) = Len(num) + Len(ext) /\ Len(ext) \in Nat /\ \A k \in 1..Len(num) : t[k] = num[k]
        BY <1>6 DEF Splits
    <2>2. t # <<>>
        BY <1>7, <2>1, EmptySeq
    <2>3. ASSUME NEW k \in 1..Len(num) PROVE t[0 + k] = num[k]
        <3>1. 0 + k = k
            OBVIOUS
        <3> QED BY <2>1, <3>1, Zenon
    <2>4. 0 + Len(num) <= Len(t)
        BY <1>7, <2>1
    <2> QED BY <2>1, <2>2, <2>3, <2>4 DEF Laid
<1>9. Len(t) = Len(num) \/ \A d \in 1..16 : Digits[d] # t[Len(num) + 1]
    <2>1. CASE Len(ext) = 0
        BY <1>7, <1>8, <2>1
    <2>2. CASE Len(ext) = 1 /\ ext[1] = e
        <3>1. t[Len(num) + 1] = ext[1]
            BY <1>6, <2>2 DEF Splits
        <3> QED BY <1>2, <2>2, <3>1, Zenon
    <2> QED BY <1>4, <2>1, <2>2
<1>10. t \in Seq(Sign)
    <2>1. Plain \subseteq Sign
        BY DEF Plain
    <2> QED BY <1>6, <2>1, Wider
<1>11. Number(t, 16) = Len(piece)
    BY <1>8, <1>9, <1>10, 16 \in {10, 16}, NumberReads, Zenon DEF num
<1> QED BY <1>3, <1>6, <1>8, <1>11

LEMMA LastSize ==
    <<"0">> \in Seq(Plain) /\ <<"0">> # <<>> /\ Len(<<"0">>) = 1 /\ Number(<<"0">>, 16) = 0
<1> DEFINE z == "0"
           w == <<z>>
<1>1. Digits[1] = z
    BY DEF Digits
<1>2. z \in Plain
    <2>1. z # "CR" /\ z # "LF"
        OBVIOUS
    <2>2. z \in Sign
        BY <1>1, 1 \in 1..16 DEF Sign
    <2> QED BY <2>1, <2>2 DEF Plain
<1>3. Numeral(0, 16) = w
    <2>1. PICK f : Printed(f, 0, 16) /\ Numeral(0, 16) = f[0]
        BY NumeralIs, 16 \in {10, 16}, 0 \in Nat
    <2>2. f[0] = <<Digits[(0 % 16) + 1]>>
        <3>1. 0 \in 0..0 /\ 0 < 16
            OBVIOUS
        <3> QED BY <2>1, <3>1 DEF Printed
    <2>3. (0 % 16) + 1 = 1
        OBVIOUS
    <2> QED BY <1>1, <2>1, <2>2, <2>3
<1> HIDE DEF z
<1>4. w \in Seq(Plain) /\ Len(w) = 1
    BY <1>2, OneSign
<1> HIDE DEF w
<1>5. w # <<>>
    BY <1>4, EmptySeq
<1>7. w \in Seq(Sign)
    <2>1. Plain \subseteq Sign
        BY DEF Plain
    <2> QED BY <1>4, <2>1, Wider
<1>8. Laid(w, 0, Numeral(0, 16)) /\ Len(w) = Len(Numeral(0, 16))
    <2>1. \A k \in 1..1 : w[0 + k] = w[k]
        OBVIOUS
    <2>2. Laid(w, 0, w)
        BY <1>4, <2>1 DEF Laid
    <2> QED BY <1>3, <2>2, Zenon
<1>9. Number(w, 16) = 0
    BY <1>7, <1>8, 0 \in Nat, 16 \in {10, 16}, NumberReads, Zenon
<1> QED BY <1>4, <1>5, <1>9 DEF w, z

LEMMA ChunkFacts ==
    ASSUME NEW piece \in Seq(Sign), piece # <<>>
    PROVE  /\ Chunk(piece) \in Seq(Sign)
           /\ Size(piece) \in Seq(Plain) /\ Size(piece) # <<>>
           /\ Size(piece) \o CRLF \in Seq(Sign) /\ Size(piece) \o CRLF \o piece \in Seq(Sign)
           /\ Chunk(piece) = ((Size(piece) \o CRLF) \o piece) \o CRLF
<1> DEFINE s == Size(piece)
<1>1. Len(piece) \in Nat \ {0}
    BY LenProperties, EmptySeq
<1>2. s \in Seq(Plain) /\ s # <<>>
    BY <1>1, SizeFacts
<1>3. s \in Seq(Sign) /\ CRLF \in Seq(Sign)
    <2>1. Plain \subseteq Sign
        BY DEF Plain
    <2>2. s \in Seq(Sign)
        <3> HIDE DEF s
        <3> QED BY <1>2, <2>1, Wider
    <2> QED BY <2>2, CRLFFacts
<1>4. Chunk(piece) = ((s \o CRLF) \o piece) \o CRLF
    BY DEF Chunk
<1> HIDE DEF s
<1>5. s \o CRLF \in Seq(Sign)
    BY <1>3, ConcatProperties
<1>6. (s \o CRLF) \o piece \in Seq(Sign)
    BY <1>5, ConcatProperties
<1>7. ((s \o CRLF) \o piece) \o CRLF \in Seq(Sign)
    BY <1>3, <1>6, ConcatProperties
<1> QED BY <1>2, <1>4, <1>5, <1>6, <1>7 DEF s

\* Where the parts of a chunk are.
LEMMA ChunkLaid ==
    ASSUME NEW b \in Seq(Sign), NEW at \in Nat, NEW piece \in Seq(Sign), piece # <<>>, Laid(b, at, Chunk(piece))
    PROVE  /\ Laid(b, at, Size(piece) \o CRLF)
           /\ Laid(b, at + Len(Size(piece)) + 2, piece)
           /\ Laid(b, at + Len(Size(piece)) + 2 + Len(piece), CRLF)
           /\ Len(Chunk(piece)) = Len(Size(piece)) + Len(piece) + 4
<1> DEFINE s  == Size(piece)
           l  == s \o CRLF
           lp == l \o piece
           c  == lp \o CRLF
<1>1. c = Chunk(piece) /\ l \in Seq(Sign) /\ lp \in Seq(Sign) /\ CRLF \in Seq(Sign) /\ Len(CRLF) = 2
    BY ChunkFacts, CRLFFacts
<1>2. s \in Seq(Sign) /\ Len(s) \in Nat
    <2>1. s \in Seq(Plain)
        BY ChunkFacts
    <2>2. Plain \subseteq Sign
        BY DEF Plain
    <2> HIDE DEF s
    <2> QED BY <2>1, <2>2, Wider, LenProperties
<1>3. Len(piece) \in Nat
    BY LenProperties
<1>4. Laid(b, at, lp \o CRLF)
    BY <1>1
<1>5. Apart(b, at, lp, CRLF)
    <2> HIDE DEF lp, c
    <2> QED BY <1>1, <1>4, LaidApart, Zenon
<1>6. Apart(b, at, l, piece)
    <2>1. Laid(b, at, l \o piece)
        BY <1>5 DEF Apart
    <2> HIDE DEF l
    <2> QED BY <1>1, <2>1, LaidApart, Zenon
<1>7. Apart(b, at, s, CRLF)
    <2>1. Laid(b, at, s \o CRLF)
        BY <1>6 DEF Apart
    <2> HIDE DEF s
    <2> QED BY <1>1, <1>2, <2>1, LaidApart, Zenon
<1> HIDE DEF s
<1>8. Len(l) = Len(s) + 2 /\ Laid(b, at, l)
    BY <1>1, <1>6, <1>7, Zenon DEF Apart
<1> HIDE DEF l
<1>9. Laid(b, at + Len(l), piece) /\ Len(lp) = Len(l) + Len(piece)
    BY <1>6, Zenon DEF Apart, lp
<1> HIDE DEF lp
<1>10. Laid(b, at + Len(lp), CRLF) /\ Len(c) = Len(lp) + 2
    BY <1>1, <1>5, Zenon DEF Apart, c
<1> HIDE DEF c
<1>11. at + Len(l) = at + Len(s) + 2 /\ at + Len(lp) = at + Len(s) + 2 + Len(piece)
       /\ Len(c) = Len(s) + Len(piece) + 4
    BY <1>2, <1>3, <1>8, <1>9, <1>10
<1>12. Laid(b, at + Len(s) + 2, piece) /\ Laid(b, at + Len(s) + 2 + Len(piece), CRLF)
    BY <1>9, <1>10, <1>11, Zenon
<1> QED BY <1>1, <1>8, <1>11, <1>12 DEF s, l

-----------------------------------------------------------------------------
(* The body of an answer.                                                  *)

ChunkSeq(a) == [i \in 1..Units(a) |-> Chunk(a.pieces[i])]

LEMMA ChunksAre ==
    ASSUME NEW a \in Answers
    PROVE  /\ ChunkSeq(a) \in Seq(Seq(Sign)) /\ Len(ChunkSeq(a)) = Units(a)
           /\ \A i \in 0..Units(a) : Chunks(a, i) = First(ChunkSeq(a), i)
           /\ Chunks(a, Units(a)) = FlattenSeq(ChunkSeq(a))
<1> DEFINE cs == ChunkSeq(a)
           U  == Units(a)
           ps == a.pieces
<1>1. U \in Nat /\ \A i \in 1..U : ps[i] \in Seq(Sign) /\ ps[i] # <<>>
    BY PieceFacts
<1>2. \A i \in 1..U : Chunk(ps[i]) \in Seq(Sign)
    BY <1>1, ChunkFacts
<1>3. cs = [i \in 1..U |-> Chunk(ps[i])]
    BY DEF ChunkSeq
<1>4. \A i \in 0..U : Chunks(a, i) = FlattenSeq([j \in 1..i |-> Chunk(ps[j])])
    BY DEF Chunks
<1> HIDE DEF cs, U, ps
<1>5. cs \in [1..U -> Seq(Sign)]
    BY <1>2, <1>3
<1>6. cs \in Seq(Seq(Sign)) /\ Len(cs) = U
    BY <1>1, <1>5, SeqDef, LenProperties
<1>7. ASSUME NEW i \in 0..U PROVE Chunks(a, i) = First(cs, i)
    <2> DEFINE u == SubSeq(cs, 1, i)
               v == [j \in 1..i |-> Chunk(ps[j])]
    <2>1. \A j \in 1..i : j \in 1..U
        BY <1>1
    <2>2. \A j \in 1..i : cs[j] \in Seq(Sign)
        BY <1>5, <2>1
    <2>3. u \in Seq(Seq(Sign)) /\ Len(u) = i /\ \A j \in 1..i : u[j] = cs[j]
        <3>1. 1 \in Int /\ i \in Int /\ 1 <= i + 1
            BY <1>1
        <3> QED BY <2>2, <3>1, SubSeqProperties
    <2> HIDE DEF u
    <2>4. u = [j \in 1..i |-> u[j]]
        BY <2>3, LenProperties
    <2>5. \A j \in 1..i : u[j] = Chunk(ps[j])
        BY <1>3, <2>1, <2>3
    <2>6. u = v
        BY <2>4, <2>5
    <2> QED BY <1>4, <2>6 DEF First, u
<1>8. Chunks(a, U) = FlattenSeq(cs)
    <2>1. U \in 0..U
        BY <1>1
    <2>2. First(cs, Len(cs)) = FlattenSeq(cs)
        BY <1>6, FirstFacts
    <2> QED BY <1>6, <1>7, <2>1, <2>2, Zenon
<1> QED BY <1>6, <1>7, <1>8 DEF cs, U

\* The last chunk, which is empty.
Final == <<"0">> \o CRLF

LEMMA LastFacts ==
    /\ Final \in Seq(Sign) /\ Len(Final) = 3
    /\ IsLine(Final, <<"0">>, "CR", "LF")
<1>1. IsLine(Final, <<"0">>, "CR", "LF")
    BY LastSize, LineOf, Zenon DEF Final
<1>2. Len(<<"0">>) = 1
    BY LastSize
<1> DEFINE w == <<"0">>
<1>3. Final \in Seq(Sign) /\ Len(Final) = Len(w) + 2
    BY <1>1, Zenon DEF IsLine
<1> HIDE DEF w
<1>4. Len(w) = 1
    BY <1>2 DEF w
<1> QED BY <1>1, <1>3, <1>4

LEMMA BodyParts ==
    ASSUME NEW a \in Answers
    PROVE  /\ Preamble(a) \in Seq(Sign)
           /\ Chunked(a) => /\ Bytes(a) = Preamble(a) \o ((Chunks(a, Units(a)) \o Final) \o CRLF)
                            /\ Chunks(a, Units(a)) \in Seq(Sign)
                            /\ Chunks(a, Units(a)) \o Final \in Seq(Sign)
                            /\ (Chunks(a, Units(a)) \o Final) \o CRLF \in Seq(Sign)
           /\ ~Chunked(a) => /\ Bytes(a) = Preamble(a) \o Content(a, Units(a))
                             /\ Content(a, Units(a)) \in Seq(Sign)
           /\ Bytes(a) \in Seq(Sign)
<1> DEFINE p == Preamble(a)
           c == Chunks(a, Units(a))
           t == Content(a, Units(a))
<1>1. p \in Seq(Sign)
    BY PreambleParts
<1>2. CRLF \in Seq(Sign) /\ Final \in Seq(Sign)
    BY CRLFFacts, LastFacts
<1>3. ChunkSeq(a) \in Seq(Seq(Sign)) /\ Len(ChunkSeq(a)) = Units(a) /\ c = FlattenSeq(ChunkSeq(a))
    BY ChunksAre
<1>4. Units(a) \in Nat /\ a.pieces \in Seq(Seq(Sign)) /\ Units(a) = Len(a.pieces)
    BY PieceFacts DEF Units
<1>5. c \in Seq(Sign)
    <2> DEFINE cs == ChunkSeq(a)
    <2>1. Len(cs) \in 0..Len(cs)
        BY <1>3, <1>4
    <2>2. First(cs, Len(cs)) \in Seq(Sign) /\ First(cs, Len(cs)) = FlattenSeq(cs)
        BY <1>3, <2>1, FirstFacts
    <2> QED BY <1>3, <2>2
<1>6. t \in Seq(Sign)
    <2> DEFINE cs == a.pieces
    <2>1. Len(cs) \in 0..Len(cs) /\ cs \in Seq(Seq(Sign))
        BY <1>4
    <2>2. t = First(cs, Len(cs))
        BY <1>4 DEF Content, First
    <2> HIDE DEF cs, t
    <2>3. First(cs, Len(cs)) \in Seq(Sign)
        BY <2>1, FirstFacts
    <2> QED BY <2>2, <2>3
<1>7. Chunked(a) => Bytes(a) = p \o ((c \o Final) \o CRLF)
    <2>1. SUFFICES ASSUME Chunked(a) PROVE Bytes(a) = p \o ((c \o Final) \o CRLF)
        OBVIOUS
    <2>2. Bytes(a) = p \o (c \o <<"0">> \o CRLF \o CRLF)
        BY <2>1 DEF Bytes
    <2>3. c \o <<"0">> \o CRLF = c \o Final
        <3> DEFINE w == <<"0">>
        <3>1. w \in Seq(Sign)
            <4>1. Plain \subseteq Sign
                BY DEF Plain
            <4>2. w \in Seq(Plain)
                BY LastSize
            <4> HIDE DEF w
            <4> QED BY <4>1, <4>2, Wider
        <3>2. Final = w \o CRLF
            BY DEF Final
        <3> HIDE DEF w, c
        <3>3. (c \o w) \o CRLF = c \o (w \o CRLF)
            BY <1>2, <1>5, <3>1, ConcatAssociative
        <3> QED BY <3>2, <3>3 DEF w
    <2> QED BY <2>2, <2>3
<1>8. ~Chunked(a) => Bytes(a) = p \o t
    BY DEF Bytes
<1> HIDE DEF p, c, t
<1>9. c \o Final \in Seq(Sign)
    BY <1>2, <1>5, ConcatProperties
<1>10. (c \o Final) \o CRLF \in Seq(Sign)
    BY <1>2, <1>9, ConcatProperties
<1>11. Bytes(a) \in Seq(Sign)
    <2>1. p \o ((c \o Final) \o CRLF) \in Seq(Sign)
        BY <1>1, <1>10, ConcatProperties
    <2>2. p \o t \in Seq(Sign)
        BY <1>1, <1>6, ConcatProperties
    <2> QED BY <1>7, <1>8, <2>1, <2>2, Zenon
<1> QED BY <1>1, <1>5, <1>6, <1>7, <1>8, <1>9, <1>10, <1>11, Zenon DEF p, c, t

LEMMA LaidItself ==
    ASSUME NEW C, NEW b \in Seq(C)
    PROVE  Laid(b, 0, b)
<1>1. Len(b) \in Nat
    BY LenProperties
<1>2. \A k \in 1..Len(b) : b[0 + k] = b[k]
    OBVIOUS
<1> QED BY <1>1, <1>2 DEF Laid

\* The preamble comes first.
LEMMA ChunkLength ==
    ASSUME NEW a \in Answers, NEW k \in 1..Units(a)
    PROVE  Len(Chunk(a.pieces[k])) \in Nat /\ Len(Chunk(a.pieces[k])) >= 4
<1> DEFINE q == a.pieces[k]
<1>1. q \in Seq(Sign) /\ q # <<>> /\ Len(q) \in Nat
    BY PieceFacts
<1> HIDE DEF q
<1>2. Chunk(q) \in Seq(Sign) /\ Size(q) \in Seq(Plain)
    BY <1>1, ChunkFacts
<1>3. Laid(Chunk(q), 0, Chunk(q))
    BY <1>2, LaidItself
<1> DEFINE x == Len(Size(q))
           y == Len(q)
           z == Len(Chunk(q))
<1>4. x \in Nat /\ y \in Nat /\ z = x + y + 4
    BY <1>1, <1>2, <1>3, ChunkLaid, LenProperties
<1> HIDE DEF x, y, z
<1>5. z \in Nat /\ z >= 4
    BY <1>4
<1> QED BY <1>5 DEF q, z

LEMMA PreambleFirst ==
    ASSUME NEW a \in Answers
    PROVE  Laid(Bytes(a), 0, Preamble(a)) /\ Len(Preamble(a)) \in Nat
<1> DEFINE b == Bytes(a)
           p == Preamble(a)
           t == IF Chunked(a) THEN (Chunks(a, Units(a)) \o Final) \o CRLF ELSE Content(a, Units(a))
<1>1. b \in Seq(Sign) /\ p \in Seq(Sign) /\ t \in Seq(Sign) /\ b = p \o t
    BY BodyParts, Zenon
<1> HIDE DEF p, t
<1>2. Laid(b, 0, p \o t) /\ 0 \in Nat
    BY <1>1, LaidItself
<1> HIDE DEF b
<1>3. Apart(b, 0, p, t)
    BY <1>1, <1>2, LaidApart, Zenon
<1>4. Laid(b, 0, p)
    BY <1>3 DEF Apart
<1>5. Len(p) \in Nat
    BY <1>1, LenProperties
<1> QED BY <1>4, <1>5 DEF b, p

\* Where the chunks and the last one are, and how long the answer is.
LEMMA ChunksLaid ==
    ASSUME NEW a \in Answers, Chunked(a)
    PROVE  /\ End(a, 0) = Len(Preamble(a))
           /\ \A i \in 0..Units(a) : End(a, i) \in Nat
           /\ \A i \in 1..Units(a) : /\ Laid(Bytes(a), End(a, i - 1), Chunk(a.pieces[i]))
                                     /\ End(a, i) = End(a, i - 1) + Len(Chunk(a.pieces[i]))
           /\ Laid(Bytes(a), End(a, Units(a)), Final)
           /\ Laid(Bytes(a), End(a, Units(a)) + 3, CRLF)
           /\ Len(Bytes(a)) = End(a, Units(a)) + 5
<1> DEFINE b  == Bytes(a)
           p  == Preamble(a)
           U  == Units(a)
           c  == Chunks(a, U)
           cf == c \o Final
           t  == cf \o CRLF
           cs == ChunkSeq(a)
           n  == Len(p)
<1>1. /\ b \in Seq(Sign) /\ p \in Seq(Sign) /\ b = p \o t
      /\ c \in Seq(Sign) /\ cf \in Seq(Sign) /\ t \in Seq(Sign)
    BY BodyParts
<1>2. U \in Nat
    BY PieceFacts
<1>3. /\ cs \in Seq(Seq(Sign)) /\ Len(cs) = U /\ c = FlattenSeq(cs)
      /\ \A i \in 0..U : Chunks(a, i) = First(cs, i)
    BY ChunksAre
<1>4. CRLF \in Seq(Sign) /\ Len(CRLF) = 2 /\ Final \in Seq(Sign) /\ Len(Final) = 3
    BY CRLFFacts, LastFacts
<1>5. \A i \in 0..U : End(a, i) = n + Len(First(cs, i))
    BY <1>3 DEF End
<1>6. \A i \in 1..U : cs[i] = Chunk(a.pieces[i])
    BY DEF ChunkSeq
<1> HIDE DEF p, U, c, cs
<1>7. Apart(b, 0, p, t)
    <2>1. Laid(b, 0, p \o t) /\ 0 \in Nat
        BY <1>1, LaidItself
    <2> HIDE DEF b, t
    <2> QED BY <1>1, <2>1, LaidApart, Zenon
<1>8. n \in Nat /\ 0 + n = n
    BY <1>1, LenProperties
<1>9. Laid(b, n, t) /\ Len(b) = n + Len(t)
    BY <1>1, <1>7, <1>8, Zenon DEF Apart
<1> HIDE DEF b, n
<1>10. Apart(b, n, cf, CRLF)
    <2>1. Laid(b, n, cf \o CRLF)
        BY <1>9
    <2> HIDE DEF cf
    <2> QED BY <1>1, <1>4, <1>8, <2>1, LaidApart, Zenon
<1>11. Apart(b, n, c, Final)
    <2>1. Laid(b, n, c \o Final)
        BY <1>10 DEF Apart
    <2> QED BY <1>1, <1>4, <1>8, <2>1, LaidApart, Zenon
<1>12. Laid(b, n, c) /\ Laid(b, n + Len(c), Final) /\ Len(cf) = Len(c) + 3
    BY <1>4, <1>11, Zenon DEF Apart
<1>13. Laid(b, n + Len(cf), CRLF) /\ Len(t) = Len(cf) + 2
    BY <1>4, <1>10, Zenon DEF Apart
<1> HIDE DEF cf, t
<1>14. /\ First(cs, 0) = <<>> /\ First(cs, U) = c
       /\ \A i \in 0..U : First(cs, i) \in Seq(Sign)
    BY <1>3, FirstFacts
<1>15. \A i \in 1..U : /\ Laid(b, n + Len(First(cs, i - 1)), cs[i])
                       /\ Len(First(cs, i)) = Len(First(cs, i - 1)) + Len(cs[i])
    <2>1. Laid(b, n, FlattenSeq(cs))
        BY <1>3, <1>12
    <2> QED BY <1>1, <1>3, <1>8, <2>1, LaidParts
<1>16. \A i \in 0..U : Len(First(cs, i)) \in Nat /\ End(a, i) \in Nat
    <2>1. SUFFICES ASSUME NEW i \in 0..U PROVE Len(First(cs, i)) \in Nat /\ End(a, i) \in Nat
        OBVIOUS
    <2>2. Len(First(cs, i)) \in Nat
        BY <1>14, LenProperties
    <2> QED BY <1>5, <1>8, <2>2
<1>17. End(a, 0) = n /\ End(a, U) = n + Len(c)
    <2>1. Len(First(cs, 0)) = 0
        BY <1>14, EmptySeq
    <2>2. 0 \in 0..U /\ U \in 0..U
        BY <1>2
    <2>3. End(a, 0) = n + Len(First(cs, 0)) /\ End(a, U) = n + Len(First(cs, U))
        BY <1>5, <2>2, Zenon
    <2> QED BY <1>8, <1>14, <2>1, <2>3
<1>18. ASSUME NEW i \in 1..U
       PROVE  /\ Laid(b, End(a, i - 1), Chunk(a.pieces[i]))
              /\ End(a, i) = End(a, i - 1) + Len(Chunk(a.pieces[i]))
    <2> DEFINE u == Len(First(cs, i))
               v == Len(First(cs, i - 1))
               w == Len(Chunk(a.pieces[i]))
    <2>1. i \in 0..U /\ i - 1 \in 0..U
        BY <1>2
    <2>2. Laid(b, n + v, Chunk(a.pieces[i])) /\ u = v + w
        BY <1>6, <1>15
    <2>3. End(a, i - 1) = n + v /\ End(a, i) = n + u
        BY <1>5, <2>1, Zenon
    <2>4. w \in Nat
        <3>1. cs[i] \in Seq(Sign)
            BY <1>3, ElementOfSeq
        <3> QED BY <1>6, <3>1, LenProperties
    <2>5. u \in Nat /\ v \in Nat
        BY <1>16, <2>1
    <2> HIDE DEF u, v, w
    <2>6. n + (v + w) = (n + v) + w
        BY <1>8, <2>4, <2>5
    <2>7. End(a, i) = End(a, i - 1) + w
        BY <2>2, <2>3, <2>6, Zenon
    <2> QED BY <2>2, <2>3, <2>7, Zenon DEF w
<1>19. /\ Laid(b, End(a, U), Final)
       /\ Laid(b, End(a, U) + 3, CRLF)
       /\ Len(b) = End(a, U) + 5
    <2>1. Len(c) \in Nat
        BY <1>1, LenProperties
    <2>2. n + Len(cf) = End(a, U) + 3 /\ n + Len(t) = End(a, U) + 5
        BY <1>8, <1>12, <1>13, <1>17, <2>1
    <2> QED BY <1>9, <1>12, <1>13, <1>17, <2>2, Zenon
<1> QED BY <1>16, <1>17, <1>18, <1>19 DEF b, p, U, n

\* A body that is not chunked is made of single bytes.
LEMMA PlainLaid ==
    ASSUME NEW a \in Answers, ~Chunked(a)
    PROVE  /\ Len(Bytes(a)) = Len(Preamble(a)) + Units(a)
           /\ \A i \in 0..Units(a) : /\ Laid(Bytes(a), Len(Preamble(a)), Content(a, i))
                                     /\ Content(a, i) \in Seq(Sign) /\ Len(Content(a, i)) = i
<1> DEFINE b  == Bytes(a)
           p  == Preamble(a)
           U  == Units(a)
           cs == a.pieces
           t  == Content(a, U)
           n  == Len(p)
<1>1. b \in Seq(Sign) /\ p \in Seq(Sign) /\ b = p \o t /\ t \in Seq(Sign)
    BY BodyParts
<1>2. U \in Nat /\ cs \in Seq(Seq(Sign)) /\ Len(cs) = U /\ \A i \in 1..U : Len(cs[i]) = 1
    BY PieceFacts DEF Units
<1>3. \A i \in 0..U : Content(a, i) = First(cs, i)
    BY DEF Content, First
<1> HIDE DEF p, U, cs
<1>4. Apart(b, 0, p, t)
    <2>1. Laid(b, 0, p \o t) /\ 0 \in Nat
        BY <1>1, LaidItself
    <2> HIDE DEF b, t
    <2> QED BY <1>1, <2>1, LaidApart, Zenon
<1>5. n \in Nat /\ 0 + n = n
    BY <1>1, LenProperties
<1>6. Laid(b, n, t) /\ Len(b) = n + Len(t)
    BY <1>1, <1>4, <1>5, Zenon DEF Apart
<1> HIDE DEF b, n
<1>7. /\ First(cs, 0) = <<>> /\ First(cs, U) = FlattenSeq(cs)
      /\ \A i \in 0..U : First(cs, i) \in Seq(Sign)
    BY <1>2, FirstFacts
<1>8. t = FlattenSeq(cs)
    <2>1. U \in 0..U
        BY <1>2
    <2> QED BY <1>3, <1>7, <2>1, Zenon
<1> HIDE DEF t
<1>9. Laid(b, n, FlattenSeq(cs))
    BY <1>6, <1>8
<1>10. /\ \A i \in 0..U : Laid(b, n, First(cs, i))
       /\ \A i \in 1..U : Len(First(cs, i)) = Len(First(cs, i - 1)) + 1
    <2>1. /\ \A i \in 0..Len(cs) : Laid(b, n, First(cs, i))
          /\ \A i \in 1..Len(cs) : /\ Laid(b, n + Len(First(cs, i - 1)), cs[i])
                                   /\ Len(First(cs, i)) = Len(First(cs, i - 1)) + Len(cs[i])
        BY <1>1, <1>2, <1>5, <1>9, LaidParts
    <2> QED BY <1>2, <2>1, Zenon
<1> DEFINE S == {i \in 0..U : Len(First(cs, i)) = i}
<1>11. \A i \in 0..U : i \in S
    <2>1. 0 \in S
        BY <1>2, <1>7, EmptySeq
    <2>2. ASSUME NEW i \in 1..U, i - 1 \in S PROVE i \in S
        <3>1. Len(First(cs, i)) = (i - 1) + 1
            BY <1>10, <2>2
        <3> QED BY <1>2, <3>1
    <2> HIDE DEF S
    <2> QED BY <1>2, <2>1, <2>2, UpTo, Zenon
<1>12. \A i \in 0..U : /\ Laid(b, n, Content(a, i)) /\ Content(a, i) \in Seq(Sign)
                       /\ Len(Content(a, i)) = i
    BY <1>3, <1>7, <1>10, <1>11
<1>13. Len(b) = n + U
    <2>1. U \in 0..U
        BY <1>2
    <2> QED BY <1>6, <1>12, <2>1, Zenon DEF t
<1> QED BY <1>12, <1>13 DEF b, p, U, n

\* What the chunks hold, one more of them at a time.
LEMMA ContentFacts ==
    ASSUME NEW a \in Answers
    PROVE  /\ Content(a, 0) = <<>>
           /\ \A i \in 0..Units(a) : Content(a, i) \in Seq(Sign)
           /\ \A i \in 1..Units(a) : Content(a, i) = Content(a, i - 1) \o a.pieces[i]
<1> DEFINE cs == a.pieces
           U  == Units(a)
<1>1. U \in Nat /\ cs \in Seq(Seq(Sign)) /\ Len(cs) = U
    BY PieceFacts DEF Units
<1>2. \A i : Content(a, i) = First(cs, i)
    BY DEF Content, First
<1> HIDE DEF U, cs
<1>3. /\ First(cs, 0) = <<>>
      /\ \A i \in 0..U : First(cs, i) \in Seq(Sign)
      /\ \A i \in 1..U : First(cs, i) = First(cs, i - 1) \o cs[i]
    BY <1>1, FirstFacts
<1> QED BY <1>2, <1>3, Zenon DEF U, cs

-----------------------------------------------------------------------------
(* What decode_chunked makes of the chunks.                                *)

\* What lies in b and has arrived is what the parsers copy.
LEMMA CopyIs ==
    ASSUME NEW text \in Seq(Sign), NEW b, Begins(text, b), NEW at \in Nat, NEW w \in Seq(Sign),
           Laid(b, at, w), at + Len(w) <= Len(text)
    PROVE  SubSeq(text, at + 1, at + Len(w)) = w
<1> DEFINE n == at + Len(w)
           f == at + 1
           u == SubSeq(text, f, n)
<1>1. Len(text) \in Nat /\ Len(w) \in Nat /\ \A k \in 1..Len(text) : text[k] = b[k] /\ text[k] \in Sign
    BY ElementOfSeq, LenProperties DEF Begins
<1>2. \A k \in 1..Len(w) : b[at + k] = w[k]
    BY DEF Laid
<1>3. f \in Int /\ n \in Int /\ f <= n + 1 /\ n - f + 1 = Len(w)
    BY <1>1
<1>4. \A k \in f..n : text[k] \in Sign
    BY <1>1
<1> HIDE DEF f, n
<1>5. u \in Seq(Sign) /\ Len(u) = Len(w) /\ \A k \in 1..Len(w) : u[k] = text[f + k - 1]
    <2>1. CASE f <= n
        BY <1>3, <1>4, <2>1, SubSeqProperties
    <2>2. CASE f = n + 1
        BY <1>1, <1>3, <1>4, <2>2, SubSeqProperties
    <2> QED BY <1>3, <2>1, <2>2
<1> HIDE DEF u
<1>6. ASSUME NEW k \in 1..Len(w) PROVE u[k] = w[k]
    <2>1. f + k - 1 = at + k /\ at + k \in 1..Len(text)
        BY <1>1 DEF f
    <2> QED BY <1>1, <1>2, <1>5, <2>1, Zenon
<1>7. u = w
    BY <1>5, <1>6, SeqEqual
<1> QED BY <1>7 DEF u, f, n

\* A size line is found and read as soon as its end has arrived.
LEMMA LineReads ==
    ASSUME NEW b \in Seq(Sign), received \in Seq(Sign), Begins(received, b),
           NEW at \in Nat, pos = at + 1, NEW w \in Seq(Plain), w # <<>>,
           NEW l, IsLine(l, w, "CR", "LF"), Laid(b, at, l)
    PROVE  /\ Len(w) \in Nat \ {0}
           /\ at + Len(w) + 2 <= Len(received) => LineEnd = at + Len(w) + 1 /\ SizeLine = w
           /\ ~(at + Len(w) + 2 <= Len(received)) => LineEnd = 0
<1> DEFINE e == at + Len(l)
           n == Len(w)
<1>1. Len(l) = n + 2 /\ n \in Nat \ {0} /\ BreakAt(b, at + 1, e, "CR", "LF")
      /\ \A k \in 1..n : b[at + k] = w[k]
    BY LineLaid, "CR" # "LF"
<1>2. LineEnd = IF e <= Len(received) THEN e - 1 ELSE 0
    BY <1>1, FirstBreak DEF LineEnd
<1>3. Len(received) \in Nat /\ Len(b) \in Nat /\ Len(received) <= Len(b)
    BY DEF Begins
<1> HIDE DEF n
<1>4. e = at + n + 2 /\ e - 1 = at + n + 1
    BY <1>1
<1> HIDE DEF e
<1>5. ASSUME e <= Len(received) PROVE SizeLine = w
    <2>1. w \in Seq(Sign)
        <3>1. Plain \subseteq Sign
            BY DEF Plain
        <3> QED BY <3>1, Wider
    <2>2. Laid(b, at, w)
        <3>1. at + n <= Len(b)
            BY <1>1, <1>3, <1>4, <1>5
        <3> QED BY <1>1, <3>1 DEF Laid, n
    <2>3. at + Len(w) <= Len(received)
        BY <1>1, <1>3, <1>4, <1>5 DEF n
    <2>4. SubSeq(received, at + 1, at + Len(w)) = w
        BY <2>1, <2>2, <2>3, CopyIs
    <2>5. LineEnd - 1 = at + n
        BY <1>1, <1>2, <1>4, <1>5
    <2> QED BY <2>4, <2>5 DEF SizeLine, n
<1> QED BY <1>1, <1>2, <1>4, <1>5 DEF n

\* pos + chunk_size does not wrap as long as it stays within the answer.
LEMMA NoWrap ==
    ASSUME NEW x \in Nat, x < SizeMod
    PROVE  x % SizeMod = x
BY SizeAssumption

\* A chunk that has arrived with the line end after it is decoded.
LEMMA WholeChunkReads ==
    ASSUME NEW b \in Seq(Sign), received \in Seq(Sign), Begins(received, b),
           NEW at \in Nat, pos = at + 1, NEW piece \in Seq(Sign), piece # <<>>, Laid(b, at, Chunk(piece)),
           at + Len(Chunk(piece)) <= Len(received),
           BodyStart \in 1..(at + 1), Len(b) < SizeMod
    PROVE  /\ HasSize /\ ChunkSize # 0
           /\ SubSeq(received, Data, Data + ChunkSize - 1) = piece
           /\ Data + ChunkSize = at + Len(Chunk(piece)) - 1
           /\ DataEnd + 2 = at + Len(Chunk(piece)) + 1
           /\ WholeChunk
<1> DEFINE s == Size(piece)
           l == s \o CRLF
           n == Len(s)
           p == Len(piece)
<1>1. /\ Laid(b, at, l) /\ Laid(b, at + n + 2, piece) /\ Laid(b, at + n + 2 + p, CRLF)
      /\ Len(Chunk(piece)) = n + p + 4
    BY ChunkLaid
<1>2. p \in Nat \ {0}
    BY LenProperties, EmptySeq
<1>3. s \in Seq(Plain) /\ s # <<>> /\ Number(s, 16) = p
    BY <1>2, SizeFacts
<1>4. IsLine(l, s, "CR", "LF")
    BY <1>3, LineOf, Zenon
<1>5. /\ n \in Nat \ {0}
      /\ at + n + 2 <= Len(received) => LineEnd = at + n + 1 /\ SizeLine = s
    BY <1>1, <1>3, <1>4, LineReads
<1> HIDE DEF s, l, n, p
<1>6. LineEnd = at + n + 1 /\ SizeLine = s
    <2>1. Len(received) \in Nat
        BY LenProperties
    <2> QED BY <1>1, <1>2, <1>5, <2>1
<1>15. SizeMod \in Nat /\ at + n + p + 4 <= Len(b) /\ Len(b) \in Nat
    <2>1. Len(b) \in Nat
        BY LenProperties
    <2>2. at + Len(Chunk(piece)) <= Len(b)
        BY DEF Laid
    <2> QED BY <1>1, <1>2, <1>5, <2>1, <2>2, SizeAssumption
<1>7. ChunkSize = p
    <2>1. ~(p >= SizeMod)
        BY <1>2, <1>5, <1>15
    <2> QED BY <1>3, <1>6, <2>1 DEF ChunkSize
<1>8. HasSize /\ ChunkSize # 0
    <2>1. LineEnd # 0
        BY <1>5, <1>6
    <2>2. ChunkSize # NotANumber
        BY <1>2, <1>7 DEF NotANumber
    <2> QED BY <1>2, <1>3, <1>6, <1>7, <2>1, <2>2 DEF HasSize
<1>9. Data = at + n + 2 + 1 /\ DataEnd = at + n + 2 + p + 1 /\ Data + ChunkSize = DataEnd
    <2> DEFINE x == Data - BodyStart + ChunkSize
    <2>1. Data = at + n + 2 + 1 /\ x \in Nat /\ x < SizeMod /\ BodyStart + x = at + n + 2 + p + 1
        BY <1>2, <1>5, <1>6, <1>7, <1>15 DEF Data
    <2> HIDE DEF x
    <2>2. x % SizeMod = x
        BY <2>1, NoWrap
    <2>3. DataEnd = BodyStart + x
        BY <2>2 DEF DataEnd, x
    <2> QED BY <1>2, <1>5, <1>7, <2>1, <2>3
<1> DEFINE d == at + n + 2
           q == d + p
<1>10. d \in Nat /\ q \in Nat /\ Data = d + 1 /\ DataEnd = q + 1 /\ q + 2 = at + Len(Chunk(piece))
    BY <1>1, <1>2, <1>5, <1>9
<1>11. Len(received) \in Nat /\ q + 2 <= Len(received)
    BY <1>10, LenProperties
<1> HIDE DEF q
<1>12. SubSeq(received, Data, Data + ChunkSize - 1) = piece
    <2>1. Laid(b, d, piece)
        BY <1>1
    <2> HIDE DEF d
    <2>2. d + Len(piece) = q /\ d + Len(piece) <= Len(received)
        BY <1>2, <1>10, <1>11 DEF q, p
    <2>3. SubSeq(received, d + 1, d + Len(piece)) = piece
        BY <1>10, <2>1, <2>2, CopyIs
    <2>4. Data + ChunkSize - 1 = q
        BY <1>7, <1>9, <1>10, <1>2
    <2> QED BY <1>10, <2>2, <2>3, <2>4
<1>13. SubSeq(received, DataEnd, DataEnd + 1) = CRLF
    <2>1. Laid(b, q, CRLF)
        BY <1>1 DEF q, d
    <2>2. CRLF \in Seq(Sign) /\ Len(CRLF) = 2
        BY CRLFFacts
    <2>3. SubSeq(received, q + 1, q + Len(CRLF)) = CRLF
        BY <1>10, <1>11, <2>1, <2>2, CopyIs
    <2>4. DataEnd + 1 = q + 2
        BY <1>10
    <2> QED BY <1>10, <2>2, <2>3, <2>4
<1>14. DataEnd + 1 <= Len(received) /\ DataEnd + 2 = at + Len(Chunk(piece)) + 1
    BY <1>10, <1>11
<1>16. Data + ChunkSize = at + Len(Chunk(piece)) - 1
    BY <1>9, <1>10
<1> QED BY <1>8, <1>12, <1>13, <1>14, <1>16 DEF WholeChunk

\* One that has not is not.
LEMMA PartChunkReads ==
    ASSUME NEW b \in Seq(Sign), received \in Seq(Sign), Begins(received, b),
           NEW at \in Nat, pos = at + 1, NEW piece \in Seq(Sign), piece # <<>>, Laid(b, at, Chunk(piece)),
           Len(received) < at + Len(Chunk(piece)), HasSize,
           BodyStart \in 1..(at + 1), Len(b) < SizeMod
    PROVE  ChunkSize # 0 /\ ~WholeChunk
<1> DEFINE s == Size(piece)
           l == s \o CRLF
           n == Len(s)
           p == Len(piece)
<1>1. Laid(b, at, l) /\ Len(Chunk(piece)) = n + p + 4
    BY ChunkLaid
<1>2. p \in Nat \ {0}
    BY LenProperties, EmptySeq
<1>3. s \in Seq(Plain) /\ s # <<>> /\ Number(s, 16) = p
    BY <1>2, SizeFacts
<1>4. IsLine(l, s, "CR", "LF")
    BY <1>3, LineOf, Zenon
<1>5. /\ n \in Nat \ {0}
      /\ at + n + 2 <= Len(received) => LineEnd = at + n + 1 /\ SizeLine = s
      /\ ~(at + n + 2 <= Len(received)) => LineEnd = 0
    BY <1>1, <1>3, <1>4, LineReads
<1> HIDE DEF s, l, n, p
<1>6. LineEnd # 0
    BY DEF HasSize
<1>7. LineEnd = at + n + 1 /\ SizeLine = s
    BY <1>5, <1>6
<1>12. SizeMod \in Nat /\ at + n + p + 4 <= Len(b) /\ Len(b) \in Nat
    <2>1. Len(b) \in Nat
        BY LenProperties
    <2>2. at + Len(Chunk(piece)) <= Len(b)
        BY DEF Laid
    <2> QED BY <1>1, <1>2, <1>5, <2>1, <2>2, SizeAssumption
<1>8. ChunkSize = p
    <2>1. ~(p >= SizeMod)
        BY <1>2, <1>5, <1>12
    <2> QED BY <1>3, <1>7, <2>1 DEF ChunkSize
<1>9. DataEnd = at + n + 3 + p
    <2> DEFINE x == Data - BodyStart + ChunkSize
    <2>1. x \in Nat /\ x < SizeMod /\ BodyStart + x = at + n + 3 + p
        BY <1>2, <1>5, <1>7, <1>8, <1>12 DEF Data
    <2> HIDE DEF x
    <2>2. x % SizeMod = x
        BY <2>1, NoWrap
    <2> QED BY <2>1, <2>2 DEF DataEnd, x
<1>10. Len(received) \in Nat
    BY LenProperties
<1>11. ~(DataEnd + 1 <= Len(received))
    BY <1>1, <1>2, <1>5, <1>9, <1>10
<1> QED BY <1>2, <1>8, <1>11 DEF WholeChunk

\* The size line of the last chunk.
LEMMA FinalReads ==
    ASSUME NEW b \in Seq(Sign), received \in Seq(Sign), Begins(received, b),
           NEW at \in Nat, pos = at + 1, Laid(b, at, Final), Len(b) < SizeMod
    PROVE  /\ at + 3 <= Len(received) => HasSize /\ ChunkSize = 0
           /\ ~(at + 3 <= Len(received)) => ~HasSize
<1> DEFINE w == <<"0">>
<1>1. w \in Seq(Plain) /\ w # <<>> /\ Len(w) = 1 /\ Number(w, 16) = 0
    BY LastSize
<1>2. IsLine(Final, w, "CR", "LF")
    BY LastFacts
<1> HIDE DEF w
<1>3. /\ at + Len(w) + 2 <= Len(received) => LineEnd = at + Len(w) + 1 /\ SizeLine = w
      /\ ~(at + Len(w) + 2 <= Len(received)) => LineEnd = 0
    BY <1>1, <1>2, LineReads
<1>4. at + Len(w) + 2 = at + 3 /\ at + Len(w) + 1 = at + 2 /\ at + 2 # 0
    BY <1>1
<1>5. CASE at + 3 <= Len(received)
    <2>1. LineEnd = at + 2 /\ SizeLine = w
        BY <1>3, <1>4, <1>5, Zenon
    <2>2. ChunkSize = 0
        <3>1. ~(0 >= SizeMod)
            <4>1. Len(b) \in Nat
                BY LenProperties
            <4> QED BY <4>1, SizeAssumption
        <3> QED BY <1>1, <2>1, <3>1 DEF ChunkSize
    <2>3. 0 # NotANumber
        BY DEF NotANumber
    <2> QED BY <1>1, <1>4, <1>5, <2>1, <2>2, <2>3, Zenon DEF HasSize
<1>6. CASE ~(at + 3 <= Len(received))
    <2>1. LineEnd = 0
        BY <1>3, <1>4, <1>6, Zenon
    <2> QED BY <1>6, <2>1 DEF HasSize
<1> QED BY <1>5, <1>6

-----------------------------------------------------------------------------
(* The count of the tokens.                                                *)

LEMMA Arrived ==
    ASSUME NEW a \in Answers, NEW text, Len(text) \in 0..Len(Bytes(a)),
           text = SubSeq(Bytes(a), 1, Len(text))
    PROVE  text \in Seq(Sign) /\ Begins(text, Bytes(a))
<1> DEFINE b == Bytes(a)
           n == Len(text)
<1>1. b \in Seq(Sign) /\ Len(b) \in Nat /\ \A k \in 1..Len(b) : b[k] \in Sign
    BY BodyParts, LenProperties, ElementOfSeq
<1> HIDE DEF b
<1>2. n \in Nat /\ n <= Len(b)
    BY <1>1 DEF b
<1>3. text = SubSeq(b, 1, n)
    BY DEF b
<1>4. text \in Seq(Sign) /\ \A k \in 1..n : text[k] = b[k]
    <2> HIDE DEF n
    <2>1. \A k \in 1..n : b[k] \in Sign
        BY <1>1, <1>2
    <2>2. /\ SubSeq(b, 1, n) \in Seq(Sign)
          /\ \A k \in 1..n : SubSeq(b, 1, n)[k] = b[k]
        BY <1>2, <2>1, SubSeqProperties, 1 \in Int
    <2> QED BY <1>3, <2>2
<1> QED BY <1>1, <1>2, <1>4 DEF Begins, b

\* The chunks end one after the other.
LEMMA EndsRise ==
    ASSUME NEW a \in Answers, Chunked(a)
    PROVE  \A i \in 0..Units(a) : \A j \in i..Units(a) : End(a, i) <= End(a, j)
<1> DEFINE U == Units(a)
<1>1. U \in Nat
    BY PieceFacts
<1>2. \A i \in 0..U : End(a, i) \in Nat
    BY ChunksLaid
<1>3. \A i \in 1..U : End(a, i - 1) <= End(a, i)
    <2>1. SUFFICES ASSUME NEW i \in 1..U PROVE End(a, i - 1) <= End(a, i)
        OBVIOUS
    <2>2. End(a, i) = End(a, i - 1) + Len(Chunk(a.pieces[i]))
        BY ChunksLaid
    <2>3. Len(Chunk(a.pieces[i])) \in Nat
        <3>1. a.pieces[i] \in Seq(Sign) /\ a.pieces[i] # <<>>
            BY PieceFacts
        <3>2. Chunk(a.pieces[i]) \in Seq(Sign)
            BY <3>1, ChunkFacts
        <3> QED BY <3>2, LenProperties
    <2>4. End(a, i - 1) \in Nat
        BY <1>1, <1>2
    <2> QED BY <2>2, <2>3, <2>4
<1> HIDE DEF U
<1>4. ASSUME NEW i \in 0..U PROVE \A j \in i..U : End(a, i) <= End(a, j)
    <2> DEFINE S == {j \in 0..U : j >= i => End(a, i) <= End(a, j)}
    <2>1. 0 \in S
        BY <1>1, <1>2, <1>4
    <2>2. ASSUME NEW j \in 1..U, j - 1 \in S PROVE j \in S
        <3>1. End(a, j - 1) \in Nat /\ End(a, j) \in Nat /\ End(a, i) \in Nat
            BY <1>1, <1>2, <1>4
        <3>2. CASE j = i
            BY <3>1, <3>2, <1>1
        <3>3. CASE j # i
            BY <1>1, <1>3, <1>4, <2>2, <3>1, <3>3
        <3> QED BY <3>2, <3>3
    <2> HIDE DEF S
    <2>3. \A j \in 0..U : j \in S
        BY <1>1, <2>1, <2>2, UpTo, Zenon
    <2> QED BY <1>1, <1>4, <2>3 DEF S
<1> QED BY <1>4 DEF U

LEMMA LastWhole ==
    ASSUME NEW a \in Answers, Chunked(a), NEW n \in Nat,
           Len(Preamble(a)) <= n
    PROVE  \E i \in 0..Units(a) :
             /\ End(a, i) <= n
             /\ i = Units(a) \/ n < End(a, i + 1)
<1> DEFINE U == Units(a)
           S == {i \in 0..U : End(a, i) <= n}
<1>1. U \in Nat /\ End(a, 0) <= n /\ \A i \in 0..U : End(a, i) \in Nat
    BY PieceFacts, ChunksLaid
<1>2. SUFFICES ASSUME \A i \in 0..U : End(a, i) <= n => i # U /\ ~(n < End(a, i + 1))
               PROVE  FALSE
    BY Zenon
<1> HIDE DEF U
<1>3. 0 \in S
    BY <1>1
<1>4. ASSUME NEW i \in 1..U, i - 1 \in S PROVE i \in S
    <2>1. i - 1 \in 0..U /\ (i - 1) + 1 = i /\ i \in 0..U
        BY <1>1
    <2>2. ~(n < End(a, (i - 1) + 1))
        BY <1>2, <1>4, <2>1
    <2>3. End(a, i) \in Nat
        BY <1>1, <2>1
    <2> QED BY <2>1, <2>2, <2>3
<1> HIDE DEF S
<1>5. \A i \in 0..U : i \in S
    BY <1>1, <1>3, <1>4, UpTo, Zenon
<1>6. U \in S /\ U \in 0..U
    BY <1>1, <1>5
<1> QED BY <1>2, <1>6 DEF S

LEMMA HeadLengths ==
    ASSUME NEW a \in Answers
    PROVE  /\ Len(StatusLine(a)) \in Nat /\ Len(Preamble(a)) \in Nat
           /\ 3 <= Len(StatusLine(a)) /\ Len(StatusLine(a)) + 2 <= Len(Preamble(a))
<1> DEFINE s == StatusLine(a)
           w == Title(a)
           h == LineEnds(a)
           m == Len(a.headers)
<1>1. Len(s) = Len(w) + 2 /\ Len(w) \in Nat \ {0}
    BY StatusLineIs DEF IsLine
<1>2. Laid(Bytes(a), 0, Preamble(a)) /\ Bytes(a) \in Seq(Sign)
    BY PreambleFirst, BodyParts
<1>3. h[0] = Len(s) /\ Len(Preamble(a)) = h[m] + 2 /\ h \in [0..m -> Nat]
    BY <1>2, PreambleLaid
<1>4. m \in Nat /\ Rows(Bytes(a), h, m, "CR", "LF")
    BY <1>2, HeadRows, LinesAre
<1>5. h[0] <= h[m] /\ h[m] \in Nat
    <2>1. 0 \in 0..m /\ m \in 0..m
        BY <1>4
    <2>2. \A k \in 0..m : h[0] <= h[k]
        BY <1>4, RowsRise
    <2> QED BY <1>3, <2>1, <2>2
<1> QED BY <1>1, <1>3, <1>5

LEMMA HeadTokens ==
    ASSUME NEW a \in Answers, NEW n \in Nat
    PROVE  /\ n = 0 => TokensIn(a, n) = 0
           /\ 0 < n /\ n < Len(StatusLine(a)) => TokensIn(a, n) = 1
           /\ Len(StatusLine(a)) <= n /\ n < Len(Preamble(a)) => TokensIn(a, n) = 2
           /\ Len(Preamble(a)) <= n /\ ~Chunked(a)
                => TokensIn(a, n) = 3 + (n - Len(Preamble(a)))
<1> DEFINE s == Len(StatusLine(a))
           p == Len(Preamble(a))
           whole == Max({i \in 0..Units(a) : End(a, i) <= n})
           rest  == IF n = End(a, whole) THEN 0 ELSE IF n < End(a, Units(a)) + 3 THEN 1 ELSE 2
<1>1. s \in Nat /\ p \in Nat /\ 3 <= s /\ s + 2 <= p
    BY HeadLengths
<1>2. TokensIn(a, n) = CASE n = 0 -> 0
                 [] 0 < n /\ n < s -> 1
                 [] s <= n /\ n < p -> 2
                 [] p <= n /\ ~Chunked(a) -> 3 + (n - p)
                 [] p <= n /\ Chunked(a) -> 3 + 2 * whole + rest
    BY DEF TokensIn
<1> HIDE DEF s, p, whole, rest
<1>3. n = 0 => TokensIn(a, n) = 0
    BY <1>1, <1>2
<1>4. 0 < n /\ n < s => TokensIn(a, n) = 1
    BY <1>1, <1>2
<1>5. s <= n /\ n < p => TokensIn(a, n) = 2
    BY <1>1, <1>2
<1>6. p <= n /\ ~Chunked(a) => TokensIn(a, n) = 3 + (n - p)
    BY <1>1, <1>2
<1> QED BY <1>3, <1>4, <1>5, <1>6 DEF s, p

LEMMA TokensOfHead ==
    ASSUME answer \in Answers, Len(received) \in Nat
    PROVE  /\ Len(received) = 0 => Tokens = 0
           /\ 0 < Len(received) /\ Len(received) < Len(StatusLine(answer)) => Tokens = 1
           /\ Len(StatusLine(answer)) <= Len(received) /\ Len(received) < Len(Preamble(answer)) => Tokens = 2
           /\ Len(Preamble(answer)) <= Len(received) /\ ~Chunked(answer)
                => Tokens = 3 + (Len(received) - Len(Preamble(answer)))
BY HeadTokens DEF Tokens

LEMMA ChunkTokens ==
    ASSUME NEW a \in Answers, Chunked(a), NEW n \in Nat,
           Len(Preamble(a)) <= n,
           NEW i \in 0..Units(a), End(a, i) <= n,
           i = Units(a) \/ n < End(a, i + 1)
    PROVE  /\ n = End(a, i) => TokensIn(a, n) = 3 + 2 * i
           /\ n # End(a, i) =>
                TokensIn(a, n) = 3 + 2 * i + IF n < End(a, Units(a)) + 3 THEN 1 ELSE 2
<1> DEFINE s == Len(StatusLine(a))
           p == Len(Preamble(a))
           U == Units(a)
           W == {j \in 0..U : End(a, j) <= n}
           whole == Max(W)
           rest  == IF n = End(a, whole) THEN 0 ELSE IF n < End(a, U) + 3 THEN 1 ELSE 2
<1>1. s \in Nat /\ p \in Nat /\ 3 <= s /\ s + 2 <= p
    BY HeadLengths
<1>2. TokensIn(a, n) = CASE n = 0 -> 0
                 [] 0 < n /\ n < s -> 1
                 [] s <= n /\ n < p -> 2
                 [] p <= n /\ ~Chunked(a) -> 3 + (n - p)
                 [] p <= n /\ Chunked(a) -> 3 + 2 * whole + rest
    BY DEF TokensIn
<1>3. U \in Nat /\ (\A j \in 0..U : End(a, j) \in Nat)
      /\ \A k \in 0..U : \A j \in k..U : End(a, k) <= End(a, j)
    BY PieceFacts, ChunksLaid, EndsRise
<1> HIDE DEF U
<1>4. whole = i
    <2>1. i \in W
        BY DEF U
    <2>2. ASSUME NEW j \in W PROVE j <= i
        <3>1. SUFFICES ASSUME j > i PROVE FALSE
            BY <1>3 DEF U
        <3>2. i + 1 \in 0..U /\ j \in (i + 1)..U /\ i # U
            BY <1>3, <3>1 DEF U
        <3>3. End(a, i + 1) <= End(a, j)
            BY <1>3, <3>2
        <3>4. End(a, j) <= n /\ n < End(a, i + 1)
            BY <3>2 DEF U
        <3>5. End(a, i + 1) \in Nat /\ End(a, j) \in Nat
            BY <1>3, <3>2
        <3> QED BY <3>3, <3>4, <3>5
    <2>3. W \subseteq Int
        BY <1>3
    <2> HIDE DEF W
    <2> QED BY <2>1, <2>2, <2>3, MaxIs
<1> HIDE DEF s, p, whole, rest
<1>5. TokensIn(a, n) = 3 + 2 * whole + rest
    BY <1>1, <1>2 DEF p
<1>6. rest = IF n = End(a, i) THEN 0 ELSE IF n < End(a, U) + 3 THEN 1 ELSE 2
    BY <1>4 DEF rest, U
<1>7. i \in Nat
    BY <1>3 DEF U
<1>8. n = End(a, i) => TokensIn(a, n) = 3 + 2 * i
    BY <1>4, <1>5, <1>6, <1>7
<1>9. n # End(a, i) => TokensIn(a, n) = 3 + 2 * i + IF n < End(a, U) + 3 THEN 1 ELSE 2
    BY <1>4, <1>5, <1>6
<1> QED BY <1>8, <1>9 DEF U

LEMMA TokensOfChunks ==
    ASSUME answer \in Answers, Chunked(answer), Len(received) \in Nat,
           Len(Preamble(answer)) <= Len(received),
           NEW i \in 0..Units(answer), End(answer, i) <= Len(received),
           i = Units(answer) \/ Len(received) < End(answer, i + 1)
    PROVE  /\ Len(received) = End(answer, i) => Tokens = 3 + 2 * i
           /\ Len(received) # End(answer, i) =>
                Tokens = 3 + 2 * i + IF Len(received) < End(answer, Units(answer)) + 3 THEN 1 ELSE 2
BY ChunkTokens DEF Tokens

-----------------------------------------------------------------------------
(* The theorems.                                                           *)

\* What HttpClient foretells from the count t of the tokens.
StatusOf(a, t) == IF t > 1 THEN a.status ELSE 0
Succeeds(a, t) == t >= 3 /\ StatusOf(a, t) # 0 /\ (Chunked(a) => (t - 3) % 2 = 0)
UnitsOf(a, t) ==
    LET u == IF Chunked(a) THEN (t - 3) \div 2 ELSE t - 3
    IN  IF u > Units(a) THEN Units(a) ELSE u

AtChunk ==
    \E i \in 0..Units(answer) :
      /\ pos = End(answer, i) + 1 /\ End(answer, i) <= Len(received)
      /\ body = Content(answer, i)

\* The inductive invariant: what has arrived is the beginning of the answer,
\* and the decoder has decoded whole chunks of it and stands after them.
ParserInv ==
    /\ pc \in {"recv", "headers", "chunks", "done"}
    /\ answer \in Answers
    /\ Len(received) \in 0..Len(Bytes(answer))
    /\ received = SubSeq(Bytes(answer), 1, Len(received))
    /\ pc \in {"recv", "headers"} => status = 0 /\ body = <<>>
    /\ pc = "headers" => received # <<>>
    /\ pc = "chunks" => Chunked(answer) /\ status = answer.status /\ status # 0 /\ AtChunk
    /\ pc = "done" => TokensSuffice /\ BodyIsSent

\* What ParserInv says of the bytes, which only receive_response changes.
Bytewise ==
    /\ answer \in Answers
    /\ Len(received) \in 0..Len(Bytes(answer))
    /\ received = SubSeq(Bytes(answer), 1, Len(received))

LEMMA TokensStay ==
    ASSUME answer' = answer, received' = received
    PROVE  Tokens' = Tokens
BY DEF Tokens

\* A step that ends as HttpClient foretells.
LEMMA Settles ==
    ASSUME answer' = answer, received' = received, Tokens \in Nat,
           status' = StatusOf(answer, Tokens),
           result' = IF Succeeds(answer, Tokens) THEN "ok" ELSE "fail",
           Succeeds(answer, Tokens) => body' = Content(answer, UnitsOf(answer, Tokens))
    PROVE  TokensSuffice' /\ BodyIsSent'
<1>1. Tokens' = Tokens
    BY TokensStay
<1>2. Http!StatusRead' = StatusOf(answer, Tokens)
    BY <1>1 DEF Http!StatusRead, StatusOf
<1>3. (Tokens > 0 /\ Http!HasHeaders /\ Http!WellEnded)' <=> Succeeds(answer, Tokens)
    BY <1>1, <1>2 DEF Http!HasHeaders, Http!WellEnded, Succeeds
<1>4. Http!Decoded'.units = UnitsOf(answer, Tokens)
    BY <1>1 DEF Http!Decoded, Http!Units, UnitsOf
<1>5. TokensSuffice'
    BY <1>2, <1>3 DEF TokensSuffice
<1>6. BodyIsSent'
    <2>1. SUFFICES ASSUME result' = "ok" PROVE body' = Content(answer, UnitsOf(answer, Tokens))
        BY <1>4 DEF BodyIsSent
    <2>2. Succeeds(answer, Tokens)
        BY <2>1
    <2> QED BY <2>2
<1> QED BY <1>5, <1>6

LEMMA ReceiveStep ==
    ASSUME ParserInv, Receive
    PROVE  ParserInv'
<1> DEFINE b == Bytes(answer)
<1>1. /\ answer \in Answers /\ Len(received) \in 0..Len(b) /\ received = SubSeq(b, 1, Len(received))
      /\ pc = "recv" /\ status = 0 /\ body = <<>>
    BY DEF ParserInv, Receive
<1>2. UNCHANGED <<pc, answer, status, pos, body, result>>
    BY DEF Receive
<1>3. PICK n \in 1..BufferSize : /\ Len(received) + n <= Len(b)
                                 /\ received' = SubSeq(b, 1, Len(received) + n)
    BY DEF Receive
<1>4. b \in Seq(Sign) /\ Len(b) \in Nat /\ \A k \in 1..Len(b) : b[k] \in Sign
    BY <1>1, BodyParts, LenProperties, ElementOfSeq
<1> HIDE DEF b
<1> DEFINE m == Len(received) + n
<1>5. m \in 0..Len(b)
    BY <1>1, <1>3, <1>4, BufferAssumption
<1> HIDE DEF m
<1>6. Len(received') = m
    <2>1. \A k \in 1..m : b[k] \in Sign
        BY <1>4, <1>5
    <2>2. Len(SubSeq(b, 1, m)) = m
        BY <1>4, <1>5, <2>1, SubSeqProperties, 1 \in Int
    <2> QED BY <1>3, <2>2 DEF m
<1>7. Len(received') \in 0..Len(b) /\ received' = SubSeq(b, 1, Len(received'))
    BY <1>3, <1>5, <1>6 DEF m
<1> QED BY <1>1, <1>2, <1>7 DEF ParserInv, b

LEMMA BytesStay ==
    ASSUME ParserInv, UNCHANGED <<answer, received>>
    PROVE  Bytewise /\ Bytewise'
BY DEF ParserInv, Bytewise

LEMMA BytewiseFacts ==
    ASSUME Bytewise
    PROVE  /\ answer \in Answers
           /\ received \in Seq(Sign) /\ Bytes(answer) \in Seq(Sign)
           /\ Begins(received, Bytes(answer))
           /\ Len(received) \in Nat /\ Len(received) <= Len(Bytes(answer))
           /\ Laid(Bytes(answer), 0, Preamble(answer))
<1>1. /\ answer \in Answers
      /\ Len(received) \in 0..Len(Bytes(answer))
      /\ received = SubSeq(Bytes(answer), 1, Len(received))
    BY DEF Bytewise
<1>2. received \in Seq(Sign) /\ Begins(received, Bytes(answer))
    BY <1>1, Arrived
<1>3. Bytes(answer) \in Seq(Sign) /\ Laid(Bytes(answer), 0, Preamble(answer))
    BY <1>1, BodyParts, PreambleFirst
<1> QED BY <1>1, <1>2, <1>3 DEF Begins

LEMMA DrainedStep ==
    ASSUME ParserInv, Drained
    PROVE  ParserInv'
<1>1. UNCHANGED <<answer, received, status, pos, body>> /\ pc = "recv" /\ status = 0 /\ body = <<>>
    BY DEF Drained, ParserInv
<1>2. Bytewise /\ Bytewise'
    BY <1>1, BytesStay
<1>3. Len(received) \in Nat /\ answer \in Answers /\ received \in Seq(Sign)
    BY <1>2, BytewiseFacts
<1>4. CASE received = <<>>
    <2>1. pc' = "done" /\ result' = "fail"
        BY <1>4 DEF Drained, Done
    <2>2. Tokens = 0
        <3>1. Len(received) = 0
            BY <1>4
        <3> QED BY <1>3, <3>1, TokensOfHead
    <2>3. status' = StatusOf(answer, Tokens) /\ ~Succeeds(answer, Tokens)
        BY <1>1, <2>2 DEF StatusOf, Succeeds
    <2>4. TokensSuffice' /\ BodyIsSent'
        BY <1>1, <2>1, <2>2, <2>3, Settles
    <2> QED BY <1>2, <2>1, <2>4 DEF ParserInv, Bytewise
<1>5. CASE received # <<>>
    <2>1. pc' = "headers"
        BY <1>5 DEF Drained
    <2> QED BY <1>1, <1>2, <1>5, <2>1 DEF ParserInv, Bytewise
<1> QED BY <1>4, <1>5

\* Some chunk is the last one that has arrived.
LEMMA LastArrived ==
    ASSUME answer \in Answers, Chunked(answer), Len(received) \in Nat,
           Len(Preamble(answer)) <= Len(received)
    PROVE  \E i \in 0..Units(answer) :
             /\ End(answer, i) <= Len(received)
             /\ i = Units(answer) \/ Len(received) < End(answer, i + 1)
BY LastWhole

LEMMA TokensAreNat ==
    ASSUME Bytewise, Chunked(answer), Len(Preamble(answer)) <= Len(received)
    PROVE  Tokens \in Nat
<1>1. answer \in Answers /\ Len(received) \in Nat
    BY BytewiseFacts
<1>2. PICK i \in 0..Units(answer) :
         /\ End(answer, i) <= Len(received)
         /\ i = Units(answer) \/ Len(received) < End(answer, i + 1)
    BY <1>1, LastArrived
<1>3. /\ Len(received) = End(answer, i) => Tokens = 3 + 2 * i
      /\ Len(received) # End(answer, i) =>
           Tokens = 3 + 2 * i + IF Len(received) < End(answer, Units(answer)) + 3 THEN 1 ELSE 2
    BY <1>1, <1>2, TokensOfChunks
<1>4. i \in Nat
    BY <1>1, PieceFacts
<1> QED BY <1>3, <1>4

\* What parse_headers finds, by how much of the answer has arrived.
LEMMA HeadersRead ==
    ASSUME Bytewise
    PROVE  /\ Len(received) < Len(StatusLine(answer)) => Find(received, CRLF, 1) = 0
           /\ Len(StatusLine(answer)) <= Len(received) =>
                Find(received, CRLF, 1) # 0 /\ StatusCode = answer.status
           /\ Find(received, CRLF \o CRLF, 1) =
                IF Len(Preamble(answer)) <= Len(received) THEN Len(Preamble(answer)) - 3 ELSE 0
           /\ Len(Preamble(answer)) <= Len(received) => (IsChunked <=> Chunked(answer))
<1> DEFINE b == Bytes(answer)
           m == Len(answer.headers)
           h == LineEnds(answer)
           s == Len(StatusLine(answer))
           p == Len(Preamble(answer))
<1>1. /\ answer \in Answers /\ received \in Seq(Sign) /\ b \in Seq(Sign)
      /\ Begins(received, b) /\ Len(received) \in Nat /\ Laid(b, 0, Preamble(answer))
    BY BytewiseFacts
<1>2. Rows(b, h, m, "CR", "LF")
    BY <1>1, HeadRows
<1>3. h[0] = s /\ p = h[m] + 2 /\ h \in [0..m -> Nat] /\ m \in Nat
    BY <1>1, PreambleLaid, LinesAre
<1>4. s \in Nat /\ 3 <= s /\ p \in Nat
    BY <1>1, HeadLengths
<1> HIDE DEF b, m, h
<1>5. Find(received, CRLF, 1) = IF s <= Len(received) THEN s - 1 ELSE 0
    <2>1. BreakAt(b, 1, h[0], "CR", "LF")
        BY <1>2 DEF Rows
    <2>2. Find(received, CRLF, 1) = IF h[0] <= Len(received) THEN h[0] - 1 ELSE 0
        BY <1>1, <2>1, FirstBreak
    <2> QED BY <1>3, <2>2, Zenon
<1>6. Find(received, CRLF \o CRLF, 1) = IF p <= Len(received) THEN p - 3 ELSE 0
    <2>1. Find(received, CRLF \o CRLF, 1) = IF h[m] + 2 <= Len(received) THEN h[m] - 1 ELSE 0
        BY <1>1, <1>2, FirstBlank
    <2>2. h[m] \in Nat /\ h[m] - 1 = p - 3
        BY <1>3
    <2> QED BY <1>3, <2>1, <2>2, Zenon
<1>7. s <= Len(received) => StatusCode = answer.status
    BY <1>1, StatusIsRead DEF StatusCode
<1>8. p <= Len(received) => (IsChunked <=> Chunked(answer))
    BY <1>1, ChunkedIsRead
<1> HIDE DEF s, p
<1>9. /\ Len(received) < s => Find(received, CRLF, 1) = 0
      /\ s <= Len(received) => Find(received, CRLF, 1) # 0
    BY <1>1, <1>4, <1>5
<1> QED BY <1>6, <1>7, <1>8, <1>9 DEF s, p

LEMMA ParseHeadersStep ==
    ASSUME ParserInv, ParseHeaders
    PROVE  ParserInv'
<1> DEFINE blank == Find(received, CRLF \o CRLF, 1)
           s == Len(StatusLine(answer))
           p == Len(Preamble(answer))
           n == Len(received)
<1>1. UNCHANGED <<answer, received>> /\ pc = "headers" /\ status = 0 /\ body = <<>> /\ received # <<>>
    BY DEF ParseHeaders, ParserInv
<1>2. Bytewise /\ Bytewise'
    BY <1>1, BytesStay
<1>3. /\ answer \in Answers /\ received \in Seq(Sign) /\ Bytes(answer) \in Seq(Sign)
      /\ Begins(received, Bytes(answer)) /\ n \in Nat /\ n <= Len(Bytes(answer))
    BY <1>2, BytewiseFacts
<1>4. n > 0
    BY <1>1, <1>3, EmptySeq
<1>5. s \in Nat /\ p \in Nat /\ 3 <= s /\ s + 2 <= p
    BY <1>3, HeadLengths
<1>6. /\ status' = IF Find(received, CRLF, 1) = 0 THEN 0 ELSE StatusCode
      /\ IF status' = 0 \/ blank = 0
           THEN Done("fail") /\ UNCHANGED <<pos, body>>
         ELSE /\ pos' = blank + 4
              /\ IF IsChunked
                   THEN pc' = "chunks" /\ UNCHANGED <<body, result>>
                   ELSE Done("ok") /\ body' = SubSeq(received, blank + 4, Len(received))
    BY DEF ParseHeaders
<1>7. /\ n < s => Find(received, CRLF, 1) = 0
      /\ s <= n => Find(received, CRLF, 1) # 0 /\ StatusCode = answer.status
      /\ blank = IF p <= n THEN p - 3 ELSE 0
      /\ p <= n => (IsChunked <=> Chunked(answer))
    BY <1>2, HeadersRead
<1>8. /\ 0 < n /\ n < s => Tokens = 1
      /\ s <= n /\ n < p => Tokens = 2
      /\ p <= n /\ ~Chunked(answer) => Tokens = 3 + (n - p)
    BY <1>3, TokensOfHead
<1> HIDE DEF blank, s, p
<1>9. ASSUME pc' = "done", TokensSuffice', BodyIsSent' PROVE ParserInv'
    BY <1>2, <1>9 DEF ParserInv, Bytewise
<1>10. CASE n < s
    <2>1. Tokens = 1 /\ status' = 0 /\ pc' = "done" /\ result' = "fail"
        BY <1>4, <1>6, <1>7, <1>8, <1>10 DEF Done
    <2>2. status' = StatusOf(answer, Tokens) /\ ~Succeeds(answer, Tokens)
        BY <2>1 DEF StatusOf, Succeeds
    <2>3. TokensSuffice' /\ BodyIsSent'
        BY <1>1, <2>1, <2>2, Settles
    <2> QED BY <1>9, <2>1, <2>3
<1>11. CASE s <= n /\ n < p
    <2>1. Tokens = 2 /\ status' = answer.status /\ blank = 0
        BY <1>3, <1>5, <1>6, <1>7, <1>8, <1>11
    <2>2. pc' = "done" /\ result' = "fail"
        BY <1>6, <2>1 DEF Done
    <2>3. status' = StatusOf(answer, Tokens) /\ ~Succeeds(answer, Tokens)
        BY <2>1 DEF StatusOf, Succeeds
    <2>4. TokensSuffice' /\ BodyIsSent'
        BY <1>1, <2>1, <2>2, <2>3, Settles
    <2> QED BY <1>9, <2>2, <2>4
<1>12. CASE p <= n
    <2>1. status' = answer.status /\ blank = p - 3 /\ blank # 0 /\ blank + 4 = p + 1 /\ s <= n
        BY <1>3, <1>5, <1>6, <1>7, <1>12
    <2>2. CASE answer.status = 0
        <3>1. pc' = "done" /\ result' = "fail"
            BY <1>6, <2>1, <2>2 DEF Done
        <3>2. Tokens \in Nat
            <4>1. CASE Chunked(answer)
                BY <1>2, <1>12, <4>1, TokensAreNat DEF p
            <4>2. CASE ~Chunked(answer)
                BY <1>3, <1>5, <1>8, <1>12, <4>2
            <4> QED BY <4>1, <4>2
        <3>3. status' = StatusOf(answer, Tokens) /\ ~Succeeds(answer, Tokens)
            BY <2>1, <2>2 DEF StatusOf, Succeeds
        <3>4. TokensSuffice' /\ BodyIsSent'
            BY <1>1, <3>1, <3>2, <3>3, Settles
        <3> QED BY <1>9, <3>1, <3>4
    <2>3. CASE answer.status # 0 /\ Chunked(answer)
        <3>1. pc' = "chunks" /\ pos' = p + 1 /\ body' = <<>> /\ status' = answer.status
            BY <1>1, <1>6, <1>7, <1>12, <2>1, <2>3
        <3>2. AtChunk'
            <4>1. End(answer, 0) = p /\ Units(answer) \in Nat /\ Content(answer, 0) = <<>>
                BY <1>3, <2>3, ChunksLaid, PieceFacts, ContentFacts DEF p
            <4>2. 0 \in 0..Units(answer)
                BY <4>1
            <4>3. pos' = End(answer, 0) + 1 /\ End(answer, 0) <= Len(received) /\ body' = Content(answer, 0)
                BY <1>12, <3>1, <4>1
            <4> QED BY <1>1, <4>2, <4>3 DEF AtChunk
        <3> QED BY <1>1, <1>2, <2>3, <3>1, <3>2 DEF ParserInv, Bytewise
    <2>4. CASE answer.status # 0 /\ ~Chunked(answer)
        <3>1. pc' = "done" /\ result' = "ok" /\ body' = SubSeq(received, p + 1, n)
            BY <1>6, <1>7, <1>12, <2>1, <2>4 DEF Done
        <3> DEFINE i == n - p
        <3>2. Tokens = 3 + i
            BY <1>8, <1>12, <2>4
        <3>3. Len(Bytes(answer)) = p + Units(answer) /\ Units(answer) \in Nat
            BY <1>3, <2>4, PlainLaid, PieceFacts DEF p
        <3>4. i \in 0..Units(answer)
            BY <1>3, <1>5, <1>12, <3>3
        <3>5. /\ Laid(Bytes(answer), p, Content(answer, i)) /\ Content(answer, i) \in Seq(Sign)
              /\ Len(Content(answer, i)) = i
            BY <1>3, <2>4, <3>4, PlainLaid DEF p
        <3>6. p + i = n
            BY <1>3, <1>5
        <3> HIDE DEF i
        <3>7. body' = Content(answer, i)
            <4>1. SubSeq(received, p + 1, p + Len(Content(answer, i))) = Content(answer, i)
                <5>1. p + Len(Content(answer, i)) <= Len(received)
                    BY <1>3, <1>5, <3>5, <3>6
                <5> HIDE DEF n
                <5> QED BY <1>3, <1>5, <3>5, <5>1, CopyIs
            <4> QED BY <3>1, <3>5, <3>6, <4>1
        <3>8. /\ Tokens \in Nat /\ status' = StatusOf(answer, Tokens) /\ Succeeds(answer, Tokens)
              /\ UnitsOf(answer, Tokens) = i
            BY <2>1, <2>4, <3>2, <3>3, <3>4 DEF StatusOf, Succeeds, UnitsOf
        <3>9. TokensSuffice' /\ BodyIsSent'
            BY <1>1, <3>1, <3>7, <3>8, Settles
        <3> QED BY <1>9, <3>1, <3>9
    <2> QED BY <2>2, <2>3, <2>4
<1> QED BY <1>3, <1>5, <1>10, <1>11, <1>12

\* Where the decoder stands, and how far the answer has arrived.
LEMMA DecoderStands ==
    ASSUME ParserInv, pc = "chunks"
    PROVE  \E i \in 0..Units(answer) :
             /\ pos = End(answer, i) + 1 /\ End(answer, i) <= Len(received)
             /\ End(answer, i) \in Nat /\ body = Content(answer, i)
             /\ Len(Preamble(answer)) <= Len(received)
             /\ BodyStart \in 1..(End(answer, i) + 1) /\ Len(Bytes(answer)) < SizeMod
             /\ i < Units(answer) =>
                  /\ Laid(Bytes(answer), End(answer, i), Chunk(answer.pieces[i + 1]))
                  /\ End(answer, i + 1) = End(answer, i) + Len(Chunk(answer.pieces[i + 1]))
                  /\ answer.pieces[i + 1] \in Seq(Sign) /\ answer.pieces[i + 1] # <<>>
                 
                  /\ End(answer, i + 1) \in Nat
                  /\ End(answer, i + 1) <= End(answer, Units(answer))
             /\ i = Units(answer) => Laid(Bytes(answer), End(answer, i), Final)
<1> DEFINE U == Units(answer)
           b == Bytes(answer)
<1>1. answer \in Answers /\ Chunked(answer) /\ Len(received) \in Nat
    <2>1. answer \in Answers /\ Chunked(answer) /\ Len(received) \in 0..Len(b)
        BY DEF ParserInv
    <2>2. Len(b) \in Nat
        BY <2>1, BodyParts, LenProperties
    <2> HIDE DEF b
    <2> QED BY <2>1, <2>2
<1>2. PICK i \in 0..U : pos = End(answer, i) + 1 /\ End(answer, i) <= Len(received)
                        /\ body = Content(answer, i)
    BY DEF ParserInv, AtChunk
<1>3. U \in Nat /\ \A j \in 1..U : /\ answer.pieces[j] \in Seq(Sign) /\ answer.pieces[j] # <<>>
                                  
    BY <1>1, PieceFacts
<1>4. /\ End(answer, 0) = Len(Preamble(answer))
      /\ \A j \in 0..U : End(answer, j) \in Nat
      /\ \A j \in 1..U : /\ Laid(b, End(answer, j - 1), Chunk(answer.pieces[j]))
                         /\ End(answer, j) = End(answer, j - 1) + Len(Chunk(answer.pieces[j]))
      /\ Laid(b, End(answer, U), Final)
    BY <1>1, ChunksLaid
<1>5. \A k \in 0..U : \A j \in k..U : End(answer, k) <= End(answer, j)
    BY <1>1, EndsRise
<1> HIDE DEF U, b
<1>6. Len(Preamble(answer)) <= Len(received)
    <2>1. 0 \in 0..U /\ i \in 0..U
        BY <1>3
    <2>2. End(answer, 0) <= End(answer, i) /\ End(answer, 0) \in Nat /\ End(answer, i) \in Nat
        BY <1>4, <1>5, <2>1
    <2> QED BY <1>1, <1>2, <1>4, <2>2
<1>7. i < U => /\ Laid(b, End(answer, i), Chunk(answer.pieces[i + 1]))
               /\ End(answer, i + 1) = End(answer, i) + Len(Chunk(answer.pieces[i + 1]))
               /\ answer.pieces[i + 1] \in Seq(Sign) /\ answer.pieces[i + 1] # <<>>
              
               /\ End(answer, i + 1) \in Nat
               /\ End(answer, i + 1) <= End(answer, U)
    <2>1. SUFFICES ASSUME i < U
                   PROVE  /\ Laid(b, End(answer, i), Chunk(answer.pieces[i + 1]))
                          /\ End(answer, i + 1) = End(answer, i) + Len(Chunk(answer.pieces[i + 1]))
                          /\ answer.pieces[i + 1] \in Seq(Sign) /\ answer.pieces[i + 1] # <<>>
                         
                          /\ End(answer, i + 1) \in Nat
                          /\ End(answer, i + 1) <= End(answer, U)
        OBVIOUS
    <2> DEFINE j == i + 1
    <2>2. j \in 1..U /\ j \in 0..U /\ j - 1 = i /\ U \in j..U
        BY <1>3, <2>1
    <2> HIDE DEF j
    <2>3. /\ Laid(b, End(answer, i), Chunk(answer.pieces[j]))
          /\ End(answer, j) = End(answer, i) + Len(Chunk(answer.pieces[j]))
        BY <1>4, <2>2
    <2>4. /\ answer.pieces[j] \in Seq(Sign) /\ answer.pieces[j] # <<>>
         
        BY <1>3, <2>2
    <2>5. End(answer, j) \in Nat /\ End(answer, j) <= End(answer, U)
        BY <1>4, <1>5, <2>2
    <2> QED BY <2>3, <2>4, <2>5 DEF j
<1>8. i = U => Laid(b, End(answer, i), Final)
    BY <1>4
<1>9. End(answer, i) \in Nat
    BY <1>4
<1>10. BodyStart \in 1..(End(answer, i) + 1) /\ Len(b) < SizeMod
    <2>1. Bytewise
        BY DEF ParserInv, Bytewise
    <2> DEFINE p == Len(Preamble(answer))
    <2>2. Find(received, CRLF \o CRLF, 1) = p - 3
        BY <1>6, <2>1, HeadersRead
    <2>3. p \in Nat /\ p <= End(answer, i)
        <3>1. 0 \in 0..U /\ i \in 0..U
            BY <1>3
        <3> QED BY <1>4, <1>5, <3>1
    <2> HIDE DEF p
    <2>4. BodyStart = p + 1
        BY <2>2, <2>3 DEF BodyStart
    <2>5. Len(b) < SizeMod
        BY <1>1, SizeAssumption DEF b
    <2> QED BY <1>9, <2>3, <2>4, <2>5
<1> QED BY <1>2, <1>6, <1>7, <1>8, <1>9, <1>10 DEF U, b

\* One turn of the loop of decode_chunked takes a chunk.
LEMMA ChunkTaken ==
    ASSUME ParserInv, DecodeChunk
    PROVE  \E i \in 1..Units(answer) :
             /\ pos = End(answer, i - 1) + 1 /\ pos' = End(answer, i) + 1
             /\ End(answer, i) = End(answer, i - 1) + Len(Chunk(answer.pieces[i]))
             /\ End(answer, i) <= Len(received) /\ body' = Content(answer, i)
             /\ Data + ChunkSize = End(answer, i) - 1
<1> DEFINE U == Units(answer)
           b == Bytes(answer)
<1>1. /\ UNCHANGED <<pc, answer, received, status, result>> /\ pc = "chunks"
      /\ pos <= Len(received) /\ HasSize /\ ChunkSize # 0 /\ WholeChunk
      /\ body' = body \o SubSeq(received, Data, Data + ChunkSize - 1) /\ pos' = DataEnd + 2
    BY DEF DecodeChunk
<1>2. Bytewise /\ Bytewise'
    BY <1>1, BytesStay
<1>3. /\ answer \in Answers /\ received \in Seq(Sign) /\ b \in Seq(Sign)
      /\ Begins(received, b) /\ Len(received) \in Nat
    BY <1>2, BytewiseFacts
<1>4. PICK i \in 0..U :
        /\ pos = End(answer, i) + 1 /\ End(answer, i) <= Len(received)
        /\ End(answer, i) \in Nat /\ body = Content(answer, i)
        /\ Len(Preamble(answer)) <= Len(received)
        /\ BodyStart \in 1..(End(answer, i) + 1) /\ Len(b) < SizeMod
        /\ i < U =>
             /\ Laid(b, End(answer, i), Chunk(answer.pieces[i + 1]))
             /\ End(answer, i + 1) = End(answer, i) + Len(Chunk(answer.pieces[i + 1]))
             /\ answer.pieces[i + 1] \in Seq(Sign) /\ answer.pieces[i + 1] # <<>>
            
             /\ End(answer, i + 1) \in Nat
             /\ End(answer, i + 1) <= End(answer, U)
        /\ i = U => Laid(b, End(answer, i), Final)
    BY <1>1, DecoderStands
<1>5. U \in Nat
    BY <1>3, PieceFacts
<1> HIDE DEF b, U
<1>6. i # U
    <2>1. SUFFICES ASSUME i = U PROVE FALSE
        OBVIOUS
    <2>2. /\ End(answer, i) + 3 <= Len(received) => HasSize /\ ChunkSize = 0
          /\ ~(End(answer, i) + 3 <= Len(received)) => ~HasSize
        BY <1>3, <1>4, <2>1, FinalReads
    <2> QED BY <1>1, <2>2
<1> DEFINE at    == End(answer, i)
           piece == answer.pieces[i + 1]
<1>7. /\ i < U /\ Laid(b, at, Chunk(piece)) /\ End(answer, i + 1) = at + Len(Chunk(piece))
      /\ piece \in Seq(Sign) /\ piece # <<>>
      /\ End(answer, i + 1) \in Nat /\ at \in Nat /\ pos = at + 1
      /\ BodyStart \in 1..(at + 1) /\ Len(b) < SizeMod
    BY <1>4, <1>5, <1>6
<1> HIDE DEF at, piece
<1>8. at + Len(Chunk(piece)) <= Len(received)
    <2>1. SUFFICES ASSUME Len(received) < at + Len(Chunk(piece)) PROVE FALSE
        BY <1>3, <1>7
    <2> QED BY <1>1, <1>3, <1>7, <2>1, PartChunkReads
<1>9. /\ SubSeq(received, Data, Data + ChunkSize - 1) = piece /\ DataEnd + 2 = at + Len(Chunk(piece)) + 1
      /\ Data + ChunkSize = at + Len(Chunk(piece)) - 1
    BY <1>3, <1>7, <1>8, WholeChunkReads
<1>10. i + 1 \in 0..U /\ i + 1 \in 1..U /\ (i + 1) - 1 = i
    BY <1>5, <1>7
<1>11. body' = Content(answer, i + 1)
    <2>1. \A j \in 1..U : Content(answer, j) = Content(answer, j - 1) \o answer.pieces[j]
        BY <1>3, ContentFacts DEF U
    <2>2. Content(answer, i + 1) = Content(answer, i) \o piece
        BY <1>10, <2>1 DEF piece
    <2> QED BY <1>1, <1>4, <1>9, <2>2
<1>12. pos' = End(answer, i + 1) + 1 /\ End(answer, i + 1) <= Len(received)
    BY <1>1, <1>7, <1>8, <1>9
<1> DEFINE j == i + 1
<1>13. /\ j \in 1..U /\ pos = End(answer, j - 1) + 1 /\ pos' = End(answer, j) + 1
       /\ End(answer, j) = End(answer, j - 1) + Len(Chunk(answer.pieces[j]))
       /\ End(answer, j) <= Len(received) /\ body' = Content(answer, j)
       /\ Data + ChunkSize = End(answer, j) - 1
    BY <1>7, <1>9, <1>10, <1>11, <1>12 DEF at, piece
<1> HIDE DEF j
<1> QED BY <1>13 DEF U

LEMMA DecodeChunkStep ==
    ASSUME ParserInv, DecodeChunk
    PROVE  ParserInv'
<1>1. UNCHANGED <<pc, answer, received, status, result>> /\ pc = "chunks"
    BY DEF DecodeChunk
<1>2. Bytewise /\ Bytewise'
    BY <1>1, BytesStay
<1>3. PICK i \in 1..Units(answer) : /\ pos' = End(answer, i) + 1 /\ End(answer, i) <= Len(received)
                                   /\ body' = Content(answer, i)
    BY ChunkTaken
<1>4. i \in 0..Units(answer)
    OBVIOUS
<1>5. AtChunk'
    BY <1>1, <1>3, <1>4 DEF AtChunk
<1>6. Chunked(answer) /\ status = answer.status /\ status # 0
    BY <1>1 DEF ParserInv
<1> QED BY <1>1, <1>2, <1>5, <1>6 DEF ParserInv, Bytewise

LEMMA DecodeEndsStep ==
    ASSUME ParserInv, DecodeEnds
    PROVE  ParserInv'
<1> DEFINE U == Units(answer)
           b == Bytes(answer)
<1>1. /\ UNCHANGED <<answer, received, status, pos, body>> /\ pc = "chunks"
      /\ pos > Len(received) \/ (HasSize /\ ChunkSize = 0)
      /\ pc' = "done" /\ result' = "ok"
    BY DEF DecodeEnds, Done
<1>2. Bytewise /\ Bytewise'
    BY <1>1, BytesStay
<1>3. /\ answer \in Answers /\ received \in Seq(Sign) /\ b \in Seq(Sign)
      /\ Begins(received, b) /\ Len(received) \in Nat
    BY <1>2, BytewiseFacts
<1>4. Chunked(answer) /\ status = answer.status /\ status # 0
    BY <1>1 DEF ParserInv
<1>5. PICK i \in 0..U :
        /\ pos = End(answer, i) + 1 /\ End(answer, i) <= Len(received)
        /\ End(answer, i) \in Nat /\ body = Content(answer, i)
        /\ Len(Preamble(answer)) <= Len(received)
        /\ BodyStart \in 1..(End(answer, i) + 1) /\ Len(b) < SizeMod
        /\ i < U =>
             /\ Laid(b, End(answer, i), Chunk(answer.pieces[i + 1]))
             /\ End(answer, i + 1) = End(answer, i) + Len(Chunk(answer.pieces[i + 1]))
             /\ answer.pieces[i + 1] \in Seq(Sign) /\ answer.pieces[i + 1] # <<>>
            
             /\ End(answer, i + 1) \in Nat
             /\ End(answer, i + 1) <= End(answer, U)
        /\ i = U => Laid(b, End(answer, i), Final)
    BY <1>1, DecoderStands
<1>6. U \in Nat /\ \A j \in 0..U : End(answer, j) \in Nat
    BY <1>3, <1>4, PieceFacts, ChunksLaid
<1> HIDE DEF b, U
<1>7. i \in Nat /\ i <= U /\ U \in Nat
    BY <1>6
<1>8. ASSUME NEW t \in Nat, Tokens = t, (t - 3) % 2 = 0, t >= 3, UnitsOf(answer, t) = i
      PROVE  ParserInv'
    <2>1. status' = StatusOf(answer, Tokens) /\ Succeeds(answer, Tokens)
        BY <1>1, <1>4, <1>8 DEF StatusOf, Succeeds
    <2>2. body' = Content(answer, UnitsOf(answer, Tokens))
        BY <1>1, <1>5, <1>8
    <2>3. TokensSuffice' /\ BodyIsSent'
        BY <1>1, <1>8, <2>1, <2>2, Settles
    <2> QED BY <1>1, <1>2, <2>3 DEF ParserInv, Bytewise
<1>9. CASE Len(received) = End(answer, i)
    <2>1. i = U \/ Len(received) < End(answer, i + 1)
        <3>1. SUFFICES ASSUME i < U PROVE Len(received) < End(answer, i + 1)
            BY <1>7
        <3> DEFINE c == Chunk(answer.pieces[i + 1])
        <3>2. Len(c) \in Nat \ {0}
            <4>1. Len(c) = Len(Size(answer.pieces[i + 1])) + Len(answer.pieces[i + 1]) + 4
                BY <1>3, <1>5, <3>1, ChunkLaid
            <4>2. Len(Size(answer.pieces[i + 1])) \in Nat /\ Len(answer.pieces[i + 1]) \in Nat
                BY <1>5, <3>1, ChunkFacts, LenProperties
            <4> DEFINE u == Len(Size(answer.pieces[i + 1]))
                       v == Len(answer.pieces[i + 1])
            <4>3. Len(c) = u + v + 4 /\ u \in Nat /\ v \in Nat
                BY <4>1, <4>2
            <4> HIDE DEF u, v, c
            <4> QED BY <4>3
        <3>3. End(answer, i + 1) = End(answer, i) + Len(c)
            BY <1>5, <3>1
        <3> HIDE DEF c
        <3> QED BY <1>5, <1>9, <3>2, <3>3
    <2>2. Tokens = 3 + 2 * i
        BY <1>3, <1>4, <1>5, <1>9, <2>1, TokensOfChunks DEF U
    <2> DEFINE t == 3 + 2 * i
    <2>3. t \in Nat /\ t >= 3 /\ (t - 3) % 2 = 0 /\ (t - 3) \div 2 = i
        BY <1>7
    <2> HIDE DEF t
    <2>4. UnitsOf(answer, t) = i
        BY <1>4, <1>6, <1>7, <2>3 DEF UnitsOf, U
    <2> QED BY <1>8, <2>2, <2>3, <2>4 DEF t
<1>10. CASE Len(received) # End(answer, i)
    <2>1. HasSize /\ ChunkSize = 0
        BY <1>1, <1>3, <1>5, <1>10
    <2>2. i = U
        <3>1. SUFFICES ASSUME i < U PROVE FALSE
            BY <1>7
        <3> DEFINE at    == End(answer, i)
                   piece == answer.pieces[i + 1]
        <3>2. /\ Laid(b, at, Chunk(piece)) /\ End(answer, i + 1) = at + Len(Chunk(piece))
              /\ piece \in Seq(Sign) /\ piece # <<>>
              /\ End(answer, i + 1) \in Nat /\ at \in Nat /\ pos = at + 1
              /\ BodyStart \in 1..(at + 1) /\ Len(b) < SizeMod
            BY <1>5, <3>1
        <3> HIDE DEF at, piece
        <3>3. CASE at + Len(Chunk(piece)) <= Len(received)
            BY <1>3, <2>1, <3>2, <3>3, WholeChunkReads
        <3>4. CASE Len(received) < at + Len(Chunk(piece))
            BY <1>3, <2>1, <3>2, <3>4, PartChunkReads
        <3> QED BY <1>3, <3>2, <3>3, <3>4
    <2>3. End(answer, U) + 3 <= Len(received)
        <3>1. ~(End(answer, i) + 3 <= Len(received)) => ~HasSize
            BY <1>3, <1>5, <2>2, FinalReads
        <3> QED BY <2>1, <2>2, <3>1
    <2>4. Tokens = 3 + 2 * i + 2
        <3>1. Tokens = 3 + 2 * i + IF Len(received) < End(answer, U) + 3 THEN 1 ELSE 2
            BY <1>3, <1>4, <1>5, <1>10, <2>2, TokensOfChunks DEF U
        <3>2. ~(Len(received) < End(answer, U) + 3)
            BY <1>3, <1>5, <2>2, <2>3
        <3> QED BY <3>1, <3>2
    <2> DEFINE t == 3 + 2 * i + 2
    <2>5. t \in Nat /\ t >= 3 /\ (t - 3) % 2 = 0 /\ (t - 3) \div 2 = i + 1
        BY <1>7
    <2> HIDE DEF t
    <2>6. UnitsOf(answer, t) = i
        BY <1>4, <1>6, <1>7, <2>2, <2>5 DEF UnitsOf, U
    <2> QED BY <1>8, <2>4, <2>5, <2>6 DEF t
<1> QED BY <1>9, <1>10

LEMMA DecodeFailsStep ==
    ASSUME ParserInv, DecodeFails
    PROVE  ParserInv'
<1> DEFINE U == Units(answer)
           b == Bytes(answer)
<1>1. /\ UNCHANGED <<answer, received, status, pos, body>> /\ pc = "chunks"
      /\ pos <= Len(received) /\ (HasSize => ChunkSize # 0 /\ ~WholeChunk)
      /\ pc' = "done" /\ result' = "fail"
    BY DEF DecodeFails, Done
<1>2. Bytewise /\ Bytewise'
    BY <1>1, BytesStay
<1>3. /\ answer \in Answers /\ received \in Seq(Sign) /\ b \in Seq(Sign)
      /\ Begins(received, b) /\ Len(received) \in Nat
    BY <1>2, BytewiseFacts
<1>4. Chunked(answer) /\ status = answer.status /\ status # 0
    BY <1>1 DEF ParserInv
<1>5. PICK i \in 0..U :
        /\ pos = End(answer, i) + 1 /\ End(answer, i) <= Len(received)
        /\ End(answer, i) \in Nat /\ body = Content(answer, i)
        /\ Len(Preamble(answer)) <= Len(received)
        /\ BodyStart \in 1..(End(answer, i) + 1) /\ Len(b) < SizeMod
        /\ i < U =>
             /\ Laid(b, End(answer, i), Chunk(answer.pieces[i + 1]))
             /\ End(answer, i + 1) = End(answer, i) + Len(Chunk(answer.pieces[i + 1]))
             /\ answer.pieces[i + 1] \in Seq(Sign) /\ answer.pieces[i + 1] # <<>>
            
             /\ End(answer, i + 1) \in Nat
             /\ End(answer, i + 1) <= End(answer, U)
        /\ i = U => Laid(b, End(answer, i), Final)
    BY <1>1, DecoderStands
<1>6. U \in Nat /\ \A j \in 0..U : End(answer, j) \in Nat
    BY <1>3, <1>4, PieceFacts, ChunksLaid
<1> HIDE DEF b, U
<1>7. i \in Nat /\ i <= U /\ U \in Nat /\ End(answer, i) < Len(received)
    BY <1>1, <1>3, <1>5, <1>6
<1>8. Tokens = 3 + 2 * i + 1
    <2>1. CASE i < U
        <3> DEFINE at    == End(answer, i)
                   piece == answer.pieces[i + 1]
        <3>1. /\ Laid(b, at, Chunk(piece)) /\ End(answer, i + 1) = at + Len(Chunk(piece))
              /\ piece \in Seq(Sign) /\ piece # <<>>
              /\ End(answer, i + 1) \in Nat /\ at \in Nat /\ pos = at + 1
              /\ BodyStart \in 1..(at + 1) /\ Len(b) < SizeMod
            BY <1>5, <2>1
        <3> HIDE DEF at, piece
        <3>2. Len(received) < End(answer, i + 1)
            <4>1. SUFFICES ASSUME at + Len(Chunk(piece)) <= Len(received) PROVE FALSE
                BY <1>3, <3>1
            <4> QED BY <1>1, <1>3, <3>1, <4>1, WholeChunkReads
        <3>3. Len(received) < End(answer, U) + 3
            <4>1. End(answer, i + 1) <= End(answer, U) /\ End(answer, U) \in Nat
                BY <1>5, <1>6, <2>1
            <4> QED BY <1>3, <3>1, <3>2, <4>1
        <3>4. Tokens = 3 + 2 * i + IF Len(received) < End(answer, U) + 3 THEN 1 ELSE 2
            BY <1>3, <1>4, <1>5, <1>7, <3>2, TokensOfChunks DEF U
        <3> QED BY <3>3, <3>4
    <2>2. CASE i = U
        <3>1. Len(received) < End(answer, U) + 3
            <4>1. End(answer, i) + 3 <= Len(received) => HasSize /\ ChunkSize = 0
                BY <1>3, <1>5, <2>2, FinalReads
            <4>2. ~(End(answer, i) + 3 <= Len(received))
                BY <1>1, <4>1
            <4> QED BY <1>3, <1>5, <2>2, <4>2
        <3>2. Tokens = 3 + 2 * i + IF Len(received) < End(answer, U) + 3 THEN 1 ELSE 2
            <4>1. i \in 0..Units(answer) /\ i = Units(answer) /\ Len(received) # End(answer, i)
                BY <1>3, <1>5, <1>7, <2>2 DEF U
            <4> QED BY <1>3, <1>4, <1>5, <4>1, TokensOfChunks DEF U
        <3> QED BY <3>1, <3>2
    <2> QED BY <1>7, <2>1, <2>2
<1> DEFINE t == 3 + 2 * i + 1
<1>9. t \in Nat /\ t >= 3 /\ (t - 3) % 2 = 1
    BY <1>7
<1>10. Tokens = t
    BY <1>8
<1> HIDE DEF t
<1>11. status' = StatusOf(answer, Tokens) /\ ~Succeeds(answer, Tokens)
    BY <1>1, <1>4, <1>9, <1>10 DEF StatusOf, Succeeds
<1>12. TokensSuffice' /\ BodyIsSent'
    BY <1>1, <1>9, <1>10, <1>11, Settles
<1> QED BY <1>1, <1>2, <1>12 DEF ParserInv, Bytewise

LEMMA ParserInit ==
    Init => ParserInv
<1> SUFFICES ASSUME Init PROVE ParserInv
    OBVIOUS
<1>1. answer \in Answers /\ received = <<>> /\ pc = "recv" /\ status = 0 /\ body = <<>>
    BY DEF Init
<1>2. Bytes(answer) \in Seq(Sign) /\ Len(received) = 0
    BY <1>1, BodyParts
<1>3. Len(received) \in 0..Len(Bytes(answer)) /\ received = SubSeq(Bytes(answer), 1, Len(received))
    <2> DEFINE b == Bytes(answer)
    <2>1. b \in Seq(Sign) /\ Len(b) \in Nat
        BY <1>2, LenProperties
    <2> HIDE DEF b
    <2>2. SubSeq(b, 1, 0) = <<>>
        BY <2>1, SubSeqProperties
    <2> QED BY <1>1, <1>2, <2>1, <2>2 DEF b
<1> QED BY <1>1, <1>3 DEF ParserInv

LEMMA ParserNext ==
    ParserInv /\ [Next]_vars => ParserInv'
<1> SUFFICES ASSUME ParserInv, [Next]_vars PROVE ParserInv'
    OBVIOUS
<1>1. CASE Receive
    BY <1>1, ReceiveStep
<1>2. CASE Drained
    BY <1>2, DrainedStep
<1>3. CASE ParseHeaders
    BY <1>3, ParseHeadersStep
<1>4. CASE DecodeChunk
    BY <1>4, DecodeChunkStep
<1>5. CASE DecodeEnds
    BY <1>5, DecodeEndsStep
<1>6. CASE DecodeFails
    BY <1>6, DecodeFailsStep
<1>7. CASE UNCHANGED vars
    <2>1. UNCHANGED <<pc, answer, received, status, pos, body, result>>
        BY <1>7 DEF vars
    <2>2. Bytewise /\ Bytewise'
        BY <2>1, BytesStay
    <2>3. AtChunk => AtChunk'
        BY <2>1 DEF AtChunk
    <2>4. pc = "done" => TokensSuffice' /\ BodyIsSent'
        <3>1. SUFFICES ASSUME pc = "done" PROVE TokensSuffice' /\ BodyIsSent'
            OBVIOUS
        <3>2. TokensSuffice /\ BodyIsSent
            BY <3>1 DEF ParserInv
        <3>3. Tokens' = Tokens
            BY <2>1, TokensStay
        <3>4. TokensSuffice'
            BY <2>1, <3>1, <3>2, <3>3
               DEF TokensSuffice, Http!StatusRead, Http!HasHeaders, Http!WellEnded
        <3>5. BodyIsSent'
            BY <2>1, <3>1, <3>2, <3>3 DEF BodyIsSent, Http!Decoded, Http!Units
        <3> QED BY <3>4, <3>5
    <2> QED BY <2>1, <2>2, <2>3, <2>4 DEF ParserInv, Bytewise
<1> QED BY <1>1, <1>2, <1>3, <1>4, <1>5, <1>6, <1>7 DEF Next

\* At every moment what has arrived is the beginning of the answer, and what
\* decode_chunked has put into buf is the whole chunks before the place where
\* it stands (receive_response, parse_headers and decode_chunked).
THEOREM ParserInvariant == Spec => []ParserInv
BY ParserInit, ParserNext, PTL DEF Spec

\* Whatever beginning of an answer has arrived when recv runs dry, the bytes
\* of its headers and of its body never change the status that parse_headers
\* reads nor whether the call succeeds: the count of the tokens foretells
\* both.
THEOREM TokensTell == Spec => []TokensSuffice
<1>1. ParserInv => TokensSuffice
    BY DEF ParserInv, TokensSuffice
<1> QED BY <1>1, ParserInvariant, PTL

\* A body that the parsers hand out is the beginning of the one the server
\* sent, as many whole units as have arrived, whatever bytes it is made of.
THEOREM BodyIsTheServers == Spec => []BodyIsSent
<1>1. ParserInv => BodyIsSent
    BY DEF ParserInv, BodyIsSent
<1> QED BY <1>1, ParserInvariant, PTL


-----------------------------------------------------------------------------
(* The loop of decode_chunked.                                             *)

\* What memcpy reads has arrived, and the loop moves forward.
CopiesWhatArrived == Data + ChunkSize <= Len(received) + 1 /\ pos < pos'

\* Every byte that a turn of the loop of decode_chunked copies has arrived,
\* and the loop moves forward.  The guard (http_client.c:384) alone does not
\* say so: it compares a sum that may wrap.  On a well-formed answer that
\* fits into memory it does not, wherever the answer is cut and whatever
\* its bodies look like.
THEOREM DecoderCopiesWhatArrived == Spec => [][DecodeChunk => CopiesWhatArrived]_vars
<1>1. ASSUME ParserInv, DecodeChunk PROVE CopiesWhatArrived
    <2>1. PICK i \in 1..Units(answer) :
            /\ pos = End(answer, i - 1) + 1 /\ pos' = End(answer, i) + 1
            /\ End(answer, i) = End(answer, i - 1) + Len(Chunk(answer.pieces[i]))
            /\ End(answer, i) <= Len(received)
            /\ Data + ChunkSize = End(answer, i) - 1
        BY <1>1, ChunkTaken
    <2>2. answer \in Answers /\ Chunked(answer) /\ Len(received) \in Nat
        <3>1. pc = "chunks"
            BY <1>1 DEF DecodeChunk
        <3>2. Bytewise /\ Chunked(answer)
            BY <1>1, <3>1 DEF ParserInv, Bytewise
        <3> QED BY <3>2, BytewiseFacts
    <2>3. Len(Chunk(answer.pieces[i])) \in Nat /\ Len(Chunk(answer.pieces[i])) >= 4
        BY <2>2, ChunkLength
    <2>4. End(answer, i - 1) \in Nat /\ End(answer, i) \in Nat
        <3>1. Units(answer) \in Nat
            BY <2>2, PieceFacts
        <3>2. i - 1 \in 0..Units(answer) /\ i \in 0..Units(answer)
            BY <3>1
        <3> QED BY <2>2, <3>2, ChunksLaid
    <2>5. pos < pos' /\ Data + ChunkSize <= Len(received) + 1
        BY <2>1, <2>2, <2>3, <2>4
    <2> QED BY <2>5 DEF CopiesWhatArrived
<1>2. ParserInv /\ [Next]_vars => [DecodeChunk => CopiesWhatArrived]_vars
    BY <1>1
<1> QED BY <1>2, ParserInvariant, PTL DEF Spec

-----------------------------------------------------------------------------
(* HttpClient counts neither too much nor too little.                      *)

\* The answer a, as HttpClient counts it.
Total(a) == Http!Tokens([status |-> a.status, chunked |-> Chunked(a), units |-> Units(a)])

LEMMA TotalIs ==
    ASSUME NEW a \in Answers
    PROVE  /\ Total(a) = 3 + IF Chunked(a) THEN 2 * Units(a) + 2 ELSE Units(a)
           /\ Units(a) \in Nat
           /\ Len(Bytes(a)) = IF Chunked(a) THEN End(a, Units(a)) + 5
                                            ELSE Len(Preamble(a)) + Units(a)
BY PieceFacts, ChunksLaid, PlainLaid DEF Total, Http!Tokens

\* The tokens of the headers, and the others.
LEMMA TokensByPart ==
    ASSUME NEW a \in Answers, NEW n \in Nat
    PROVE  /\ n = 0 => TokensIn(a, n) = 0
           /\ 0 < n /\ n < Len(StatusLine(a)) => TokensIn(a, n) = 1
           /\ Len(StatusLine(a)) <= n /\ n < Len(Preamble(a)) => TokensIn(a, n) = 2
           /\ Len(Preamble(a)) <= n => TokensIn(a, n) \in Nat /\ TokensIn(a, n) >= 3
<1>1. Len(Preamble(a)) \in Nat /\ Units(a) \in Nat
    BY HeadLengths, PieceFacts
<1>2. ASSUME Len(Preamble(a)) <= n PROVE TokensIn(a, n) \in Nat /\ TokensIn(a, n) >= 3
    <2>1. CASE ~Chunked(a)
        <3>1. TokensIn(a, n) = 3 + (n - Len(Preamble(a)))
            BY <1>2, <2>1, HeadTokens
        <3> QED BY <1>1, <1>2, <3>1
    <2>2. CASE Chunked(a)
        <3>1. PICK i \in 0..Units(a) : End(a, i) <= n /\ (i = Units(a) \/ n < End(a, i + 1))
            BY <1>2, <2>2, LastWhole
        <3>2. TokensIn(a, n) \in {3 + 2 * i, 3 + 2 * i + 1, 3 + 2 * i + 2}
            BY <1>2, <2>2, <3>1, ChunkTokens
        <3> QED BY <1>1, <3>2
    <2> QED BY <2>1, <2>2
<1> QED BY <1>2, HeadTokens

LEMMA TokensInRange ==
    ASSUME NEW a \in Answers, NEW n \in 0..Len(Bytes(a))
    PROVE  TokensIn(a, n) \in 0..Total(a)
<1> DEFINE p == Len(Preamble(a))
           s == Len(StatusLine(a))
           U == Units(a)
<1>1. n \in Nat /\ p \in Nat /\ s \in Nat /\ U \in Nat
    <2>1. Len(Bytes(a)) \in Nat
        BY BodyParts, LenProperties
    <2> QED BY <2>1, HeadLengths, PieceFacts
<1>2. Total(a) = 3 + IF Chunked(a) THEN 2 * U + 2 ELSE U
    BY TotalIs
<1>3. n < p => TokensIn(a, n) \in {0, 1, 2}
    BY <1>1, TokensByPart
<1>4. ASSUME p <= n, ~Chunked(a) PROVE TokensIn(a, n) \in 0..(3 + U)
    <2>1. TokensIn(a, n) = 3 + (n - p) /\ n <= p + U
        BY <1>1, <1>4, HeadTokens, PlainLaid
    <2> HIDE DEF p, U
    <2> QED BY <1>1, <1>4, <2>1
<1>5. ASSUME p <= n, Chunked(a) PROVE TokensIn(a, n) \in 0..(3 + (2 * U + 2))
    <2>1. PICK i \in 0..U : End(a, i) <= n /\ (i = U \/ n < End(a, i + 1))
        BY <1>1, <1>5, LastWhole
    <2>2. TokensIn(a, n) \in {3 + 2 * i, 3 + 2 * i + 1, 3 + 2 * i + 2}
        BY <1>1, <1>5, <2>1, ChunkTokens
    <2> HIDE DEF U
    <2> QED BY <1>1, <2>2
<1> HIDE DEF p, U
<1> QED BY <1>1, <1>2, <1>3, <1>4, <1>5

LEMMA TokensRise ==
    ASSUME NEW a \in Answers, NEW m \in Nat, NEW n \in 0..m
    PROVE  TokensIn(a, n) <= TokensIn(a, m)
<1> DEFINE p == Len(Preamble(a))
           s == Len(StatusLine(a))
           U == Units(a)
<1>1. n \in Nat /\ n <= m /\ p \in Nat /\ s \in Nat /\ 3 <= s /\ s + 2 <= p /\ U \in Nat
    BY HeadLengths, PieceFacts
<1>2. CASE n < p
    BY <1>1, <1>2, TokensByPart
<1>3. CASE p <= n /\ ~Chunked(a)
    <2>1. TokensIn(a, n) = 3 + (n - p) /\ TokensIn(a, m) = 3 + (m - p)
        BY <1>1, <1>3, HeadTokens
    <2> QED BY <1>1, <2>1
<1>4. CASE p <= n /\ Chunked(a)
    <2>1. PICK i \in 0..U : End(a, i) <= n /\ (i = U \/ n < End(a, i + 1))
        BY <1>1, <1>4, LastWhole
    <2>2. PICK j \in 0..U : End(a, j) <= m /\ (j = U \/ m < End(a, j + 1))
        BY <1>1, <1>4, LastWhole
    <2>3. /\ n = End(a, i) => TokensIn(a, n) = 3 + 2 * i
          /\ n # End(a, i) => TokensIn(a, n) = 3 + 2 * i + IF n < End(a, U) + 3 THEN 1 ELSE 2
        BY <1>1, <1>4, <2>1, ChunkTokens
    <2>4. /\ m = End(a, j) => TokensIn(a, m) = 3 + 2 * j
          /\ m # End(a, j) => TokensIn(a, m) = 3 + 2 * j + IF m < End(a, U) + 3 THEN 1 ELSE 2
        BY <1>1, <1>4, <2>2, ChunkTokens
    <2>5. /\ \A k \in 0..U : End(a, k) \in Nat
          /\ \A k \in 0..U : \A l \in k..U : End(a, k) <= End(a, l)
        BY <1>4, ChunksLaid, EndsRise
    <2> HIDE DEF U, p, s
    <2>6. CASE i = j
        <3>1. End(a, i) \in Nat /\ End(a, U) \in Nat
            BY <1>1, <2>5
        <3> QED BY <1>1, <2>1, <2>3, <2>4, <2>6, <3>1
    <2>7. CASE i < j
        <3>1. i + 1 \in 0..U /\ j \in (i + 1)..U /\ U \in (i + 1)..U
            BY <1>1, <2>7
        <3>2. End(a, i + 1) <= End(a, U) /\ End(a, i + 1) \in Nat /\ End(a, U) \in Nat
            BY <2>5, <3>1
        <3>3. n < End(a, U)
            BY <1>1, <2>1, <2>7, <3>2
        <3>4. TokensIn(a, n) \in {3 + 2 * i, 3 + 2 * i + 1}
            BY <1>1, <2>3, <3>2, <3>3
        <3>5. TokensIn(a, m) \in {3 + 2 * j, 3 + 2 * j + 1, 3 + 2 * j + 2}
            BY <2>4
        <3> QED BY <2>7, <3>4, <3>5
    <2>8. CASE j < i
        <3>1. j + 1 \in 0..U /\ i \in (j + 1)..U
            BY <1>1, <2>8
        <3>2. End(a, j + 1) <= End(a, i) /\ End(a, j + 1) \in Nat /\ End(a, i) \in Nat
            BY <2>5, <3>1
        <3> QED BY <1>1, <2>1, <2>2, <2>8, <3>2
    <2> QED BY <2>6, <2>7, <2>8
<1> QED BY <1>1, <1>2, <1>3, <1>4

LEMMA TokensArrive ==
    ASSUME NEW a \in Answers, NEW t \in 0..Total(a)
    PROVE  \E n \in 0..Len(Bytes(a)) : TokensIn(a, n) = t
<1> DEFINE p == Len(Preamble(a))
           s == Len(StatusLine(a))
           U == Units(a)
           b == Len(Bytes(a))
<1>1. /\ p \in Nat /\ s \in Nat /\ 3 <= s /\ s + 2 <= p /\ U \in Nat
      /\ Total(a) = 3 + IF Chunked(a) THEN 2 * U + 2 ELSE U
      /\ b = IF Chunked(a) THEN End(a, U) + 5 ELSE p + U
    BY HeadLengths, TotalIs
<1>2. Chunked(a) => /\ \A i \in 0..U : End(a, i) \in Nat /\ p <= End(a, i) /\ End(a, i) <= End(a, U)
                    /\ \A i \in 0..U : i = U \/ End(a, i) + 1 < End(a, i + 1)
    <2>1. SUFFICES ASSUME Chunked(a), NEW i \in 0..U
                   PROVE  /\ End(a, i) \in Nat /\ p <= End(a, i) /\ End(a, i) <= End(a, U)
                          /\ i = U \/ End(a, i) + 1 < End(a, i + 1)
        BY Zenon
    <2>2. /\ End(a, 0) = p
          /\ \A k \in 0..U : End(a, k) \in Nat
          /\ \A k \in 1..U : End(a, k) = End(a, k - 1) + Len(Chunk(a.pieces[k]))
          /\ \A k \in 0..U : \A l \in k..U : End(a, k) <= End(a, l)
        BY <2>1, ChunksLaid, EndsRise
    <2>3. \A k \in 1..U : Len(Chunk(a.pieces[k])) \in Nat /\ Len(Chunk(a.pieces[k])) >= 4
        BY ChunkLength
    <2> HIDE DEF U, p
    <2>4. 0 \in 0..U /\ i \in 0..U /\ U \in i..U
        BY <1>1
    <2>5. End(a, i) \in Nat /\ p <= End(a, i) /\ End(a, i) <= End(a, U)
        BY <2>2, <2>4
    <2>6. ASSUME i # U PROVE End(a, i) + 1 < End(a, i + 1)
        <3> DEFINE k == i + 1
        <3>1. k \in 1..U /\ k - 1 = i
            BY <1>1, <2>6
        <3> HIDE DEF k
        <3>2. End(a, k) = End(a, i) + Len(Chunk(a.pieces[k]))
            BY <2>2, <3>1
        <3> QED BY <2>3, <2>5, <3>1, <3>2 DEF k
    <2> QED BY <2>5, <2>6
<1>3. CASE t < 3
    <2> DEFINE n == IF t = 0 THEN 0 ELSE IF t = 1 THEN 1 ELSE s
    <2>1. p <= b /\ b \in Nat
        <3> HIDE DEF p, U, b
        <3>1. 0 \in 0..U
            BY <1>1
        <3> QED BY <1>1, <1>2, <3>1
    <2>2. n \in 0..b /\ n \in Nat
        <3> HIDE DEF p, b, s
        <3> QED BY <1>1, <2>1
    <2>3. t \in {0, 1, 2}
        BY <1>1, <1>3
    <2>4. TokensIn(a, n) = t
        BY <1>1, <2>2, <2>3, TokensByPart
    <2> QED BY <2>2, <2>4
<1>4. CASE t >= 3 /\ ~Chunked(a)
    <2> DEFINE n == p + (t - 3)
    <2>1. n \in Nat /\ n \in 0..b /\ p <= n /\ 3 + (n - p) = t
        <3> HIDE DEF p, b, U
        <3> QED BY <1>1, <1>4
    <2>2. TokensIn(a, n) = 3 + (n - p)
        BY <1>4, <2>1, HeadTokens
    <2> QED BY <2>1, <2>2
<1>5. CASE t >= 3 /\ Chunked(a)
    <2> DEFINE k == t - 3
               i == IF k = 2 * U + 2 THEN U ELSE k \div 2
               r == k - 2 * i
               n == End(a, i) + IF r = 2 THEN 3 ELSE r
    <2>1. i \in 0..U /\ r \in {0, 1, 2} /\ (r = 2 => i = U) /\ t = 3 + 2 * i + r
        <3> HIDE DEF U
        <3> QED BY <1>1, <1>5
    <2> HIDE DEF i, r, k
    <2>2. /\ End(a, i) \in Nat /\ p <= End(a, i) /\ End(a, i) <= End(a, U)
          /\ i = U \/ End(a, i) + 1 < End(a, i + 1)
          /\ End(a, U) \in Nat
        <3>1. U \in 0..U
            BY <1>1
        <3> QED BY <1>2, <1>5, <2>1, <3>1
    <2>3. n \in Nat /\ n \in 0..b /\ p <= n /\ End(a, i) <= n
        <3> HIDE DEF p, U, b
        <3> QED BY <1>1, <1>5, <2>1, <2>2
    <2>4. i = U \/ n < End(a, i + 1)
        <3>1. CASE i = U
            BY <3>1
        <3>2. CASE i # U
            <4>1. r \in {0, 1}
                BY <2>1, <3>2
            <4>2. n \in {End(a, i), End(a, i) + 1} /\ End(a, i) + 1 < End(a, i + 1)
                BY <2>2, <3>2, <4>1
            <4>3. End(a, i + 1) \in Nat
                BY <1>1, <1>2, <1>5, <2>1, <3>2
            <4> QED BY <2>2, <4>2, <4>3
        <3> QED BY <3>1, <3>2
    <2>5. /\ n = End(a, i) => TokensIn(a, n) = 3 + 2 * i
          /\ n # End(a, i) => TokensIn(a, n) = 3 + 2 * i + IF n < End(a, U) + 3 THEN 1 ELSE 2
        BY <1>5, <2>1, <2>3, <2>4, ChunkTokens
    <2>6. TokensIn(a, n) = t
        <3>1. CASE r = 0
            BY <2>1, <2>2, <2>5, <3>1
        <3>2. CASE r = 1
            <4>1. n = End(a, i) + 1
                BY <3>2
            <4>2. n < End(a, U) + 3 /\ n # End(a, i)
                BY <2>2, <4>1
            <4> QED BY <2>1, <2>5, <3>2, <4>2
        <3>3. CASE r = 2
            <4>1. n = End(a, U) + 3 /\ i = U
                BY <2>1, <3>3
            <4>2. ~(n < End(a, U) + 3) /\ n # End(a, i)
                BY <2>2, <4>1
            <4> QED BY <2>1, <2>5, <3>3, <4>2
        <3> QED BY <2>1, <3>1, <3>2, <3>3
    <2> QED BY <2>3, <2>6
<1> QED BY <1>1, <1>3, <1>4, <1>5

\* HttpClient loses nothing by counting the bytes of an answer in tokens,
\* and makes nothing up: more bytes are never fewer tokens, all of them are
\* at most its Tokens(resp), and every count up to that is met, so that each
\* place where one of its receptions ends is one where the bytes may end.
THEOREM TokensAreExact ==
    \A a \in Answers :
      /\ \A n \in 0..Len(Bytes(a)) : TokensIn(a, n) \in 0..Total(a)
      /\ \A m \in 0..Len(Bytes(a)) : \A n \in 0..m : TokensIn(a, n) <= TokensIn(a, m)
      /\ \A t \in 0..Total(a) : \E n \in 0..Len(Bytes(a)) : TokensIn(a, n) = t
<1> SUFFICES ASSUME NEW a \in Answers
             PROVE  /\ \A n \in 0..Len(Bytes(a)) : TokensIn(a, n) \in 0..Total(a)
                    /\ \A m \in 0..Len(Bytes(a)) : \A n \in 0..m : TokensIn(a, n) <= TokensIn(a, m)
                    /\ \A t \in 0..Total(a) : \E n \in 0..Len(Bytes(a)) : TokensIn(a, n) = t
    OBVIOUS
<1>1. \A m \in 0..Len(Bytes(a)) : m \in Nat
    BY BodyParts, LenProperties
<1>2. \A m \in 0..Len(Bytes(a)) : \A n \in 0..m : TokensIn(a, n) <= TokensIn(a, m)
    BY <1>1, TokensRise
<1> QED BY <1>2, TokensInRange, TokensArrive

=============================================================================
